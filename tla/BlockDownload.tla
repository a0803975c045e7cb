--------------------------- MODULE BlockDownload ----------------------------
(***************************************************************************)
(* Which peer is asked for which block: CNodeState, mapBlocksInFlight and  *)
(* the handlers of main.cpp that keep them (the inv, headers, block,       *)
(* cmpctblock and blocktxn messages, SendMessages and the node signals).   *)
(* Everything here is under cs_main, so a handler is one step.             *)
(*                                                                         *)
(* Blocks form a tree and all have the same work.  A peer announces and    *)
(* sends blocks it has, in any order and at any time, asked for or not;    *)
(* the times of the download are kept as what is asked of them: not        *)
(* running, running, or expired ("late").  IsInitialBlockDownload and      *)
(* CanDirectFetch compare the time of the tip with the clock and may       *)
(* answer anything.  Witnesses are active; pruning is off.                 *)
(***************************************************************************)
EXTENDS Integers, FiniteSets, Sequences, SequencesExt

CONSTANTS
  Blocks,      \* the blocks, but for the genesis block
  Genesis,
  Parent,      \* [Blocks -> Blocks \cup {Genesis}]
  Bad,         \* the blocks that CheckBlock refuses
  Peers,
  Has,         \* [Peers -> SUBSET Blocks]: what a peer announces and may send
  Preferred,   \* outbound or whitelisted peers, that are no clients
  Witness,     \* peers that offer NODE_WITNESS
  Whitelisted,
  Prompt,      \* peers that answer in time and stay connected
  Mutating,    \* peers whose blocks may be mutated on their way
  Compact,     \* peers that send cmpctblock messages
  Announcing,  \* peers that announce blocks by inv messages
  NoPeer, NoBlock,
  MAX_BLOCKS_IN_TRANSIT_PER_PEER,
  BLOCK_DOWNLOAD_WINDOW,
  MIN_BLOCKS_TO_KEEP,
  MAX_BLOCKS_TO_ANNOUNCE,
  MaxConnections  \* bound: how often a peer connects

VARIABLES
  node,               \* the record that the handlers change, see Init
  nPreferredDownload,
  nSyncStarted,
  connections         \* how often each peer has connected

vars == <<node, nPreferredDownload, nSyncStarted, connections>>

PathTo[b \in Blocks \cup {Genesis}] ==
  IF b = Genesis THEN <<Genesis>> ELSE Append(PathTo[Parent[b]], b)
Height(b) == Len(PathTo[b]) - 1
Ancestors(b) == Range(PathTo[b])

ConstantsAssumption ==
  /\ Parent \in [Blocks -> Blocks \cup {Genesis}]
  /\ Bad \subseteq Blocks
  /\ Preferred \cup Witness \cup Whitelisted \cup Prompt \cup Mutating
       \cup Compact \cup Announcing \subseteq Peers
  /\ Has \in [Peers -> SUBSET Blocks]
  /\ \A p \in Peers : \A b \in Has[p] : Ancestors(b) \subseteq Has[p] \cup {Genesis}
  /\ MAX_BLOCKS_IN_TRANSIT_PER_PEER \in Nat \ {0}
  /\ BLOCK_DOWNLOAD_WINDOW \in Nat \ {0}

-----------------------------------------------------------------------------
(* The block index and the active chain *)

\* nChainTx # 0: the block and all its ancestors have been received.
Complete(s, b) == Ancestors(b) \subseteq s.data
OnActiveChain(s, b) == b \in Ancestors(s.tip)

\* Both have ancestors in common: the genesis block at least.
LastCommonAncestor(a, b) ==
  PathTo[a][CHOOSE i \in DOMAIN PathTo[a] :
              /\ PathTo[a][i] \in Ancestors(b)
              /\ \A j \in (i + 1)..Len(PathTo[a]) : PathTo[a][j] \notin Ancestors(b)]

\* The header is known and good, or its parent is.
AcceptBlockHeader(s, b) ==
  /\ b \notin s.failed
  /\ b \in s.index \/ (Parent[b] \in s.index /\ Parent[b] \notin s.failed)

\* The blocks ActivateBestChain may make the tip: it stays on the first of several best ones.
MostWork(s) ==
  LET better == {b \in s.data : Complete(s, b) /\ Height(b) > Height(s.tip)}
  IN  IF better = {} THEN {s.tip}
      ELSE {b \in better : \A c \in better : Height(c) <= Height(b)}

-----------------------------------------------------------------------------
(* The blocks in flight *)

One(truth) == IF truth THEN 1 ELSE 0

\* A block is received, given up, or asked of another peer; the next one of its queue is waited for.
MarkBlockAsReceived(s, h) ==
  IF h \notin DOMAIN s.inFlight THEN s
  ELSE LET p == s.inFlight[h]
           i == CHOOSE j \in DOMAIN s.peer[p].queue : s.peer[p].queue[j].hash = h
           valid == s.peer[p].queue[i].fValidatedHeaders
           nValid == s.peer[p].nBlocksInFlightValidHeaders - One(valid)
       IN  [s EXCEPT !.peer[p].nBlocksInFlightValidHeaders = nValid,
                     !.nPeersWithValidatedDownloads = @ - One(nValid = 0 /\ valid),
                     !.peer[p].nDownloadingSince = IF i = 1 THEN "since" ELSE @,
                     !.peer[p].queue = RemoveAt(@, i),
                     !.peer[p].nBlocksInFlight = @ - 1,
                     !.peer[p].nStallingSince = "no",
                     !.inFlight = [g \in DOMAIN @ \ {h} |-> @[g]]]

Enqueued(s, p, h, valid, partial) ==
  LET nValid == s.peer[p].nBlocksInFlightValidHeaders + One(valid)
  IN  [s EXCEPT !.peer[p].queue =
                   Append(@, [hash |-> h, fValidatedHeaders |-> valid, partialBlock |-> partial]),
                !.peer[p].nBlocksInFlight = @ + 1,
                !.peer[p].nBlocksInFlightValidHeaders = nValid,
                !.peer[p].nDownloadingSince = IF s.peer[p].nBlocksInFlight = 0 THEN "since" ELSE @,
                !.nPeersWithValidatedDownloads = @ + One(nValid = 1 /\ valid),
                !.inFlight = [g \in DOMAIN @ \cup {h} |-> IF g = h THEN p ELSE @[g]]]

\* The block is asked of one peer at a time: it is taken off the queue of another.
MarkBlockAsInFlight(s, p, h, valid, partial) ==
  IF h \in DOMAIN s.inFlight /\ s.inFlight[h] = p THEN s
  ELSE Enqueued(MarkBlockAsReceived(s, h), p, h, valid, partial)

-----------------------------------------------------------------------------
(* What the peers have *)

Better(s, p, b) ==
  s.peer[p].pindexBestKnownBlock = NoBlock \/ Height(b) >= Height(s.peer[p].pindexBestKnownBlock)

ProcessBlockAvailability(s, p) ==
  LET b == s.peer[p].hashLastUnknownBlock
  IN  IF b = NoBlock \/ b \notin s.index THEN s
      ELSE [s EXCEPT !.peer[p].pindexBestKnownBlock = IF Better(s, p, b) THEN b ELSE @,
                     !.peer[p].hashLastUnknownBlock = NoBlock]

UpdateBlockAvailability(s, p, b) ==
  LET r == ProcessBlockAvailability(s, p)
  IN  IF b \in r.index
      THEN [r EXCEPT !.peer[p].pindexBestKnownBlock = IF Better(r, p, b) THEN b ELSE @]
      ELSE [r EXCEPT !.peer[p].hashLastUnknownBlock = b]

\* Mutant: the window ends one block too early.
Visit_ShortWindow(s, p, count, windowEnd, walk, b) ==
  IF walk.done THEN walk
  ELSE IF b \in s.failed THEN [walk EXCEPT !.done = TRUE]
  ELSE IF b \in s.data \/ OnActiveChain(s, b)
  THEN [walk EXCEPT !.common = IF Complete(s, b) THEN b ELSE @]
  ELSE IF b \in DOMAIN s.inFlight
  THEN [walk EXCEPT !.waitingfor = IF @ = NoPeer THEN s.inFlight[b] ELSE @]
  ELSE IF Height(b) >= windowEnd
  THEN [walk EXCEPT !.done = TRUE,
                    !.staller = IF walk.blocks = <<>> /\ walk.waitingfor # p
                                THEN walk.waitingfor ELSE @]
  ELSE [walk EXCEPT !.blocks = Append(@, b), !.done = (Len(walk.blocks) + 1 = count)]

\* One block of the walk from pindexLastCommonBlock to pindexBestKnownBlock.
Visit(s, p, count, windowEnd, walk, b) ==
  IF walk.done THEN walk
  ELSE IF b \in s.failed THEN [walk EXCEPT !.done = TRUE]
  ELSE IF b \in s.data \/ OnActiveChain(s, b)
  THEN [walk EXCEPT !.common = IF Complete(s, b) THEN b ELSE @]
  ELSE IF b \in DOMAIN s.inFlight
  THEN [walk EXCEPT !.waitingfor = IF @ = NoPeer THEN s.inFlight[b] ELSE @]
  ELSE IF Height(b) > windowEnd
  THEN [walk EXCEPT !.done = TRUE,
                    !.staller = IF walk.blocks = <<>> /\ walk.waitingfor # p
                                THEN walk.waitingfor ELSE @]
  ELSE [walk EXCEPT !.blocks = Append(@, b), !.done = (Len(walk.blocks) + 1 = count)]

NothingToFetch(common) ==
  [done |-> FALSE, common |-> common, blocks |-> <<>>, waitingfor |-> NoPeer, staller |-> NoPeer]

\* pindexBestKnownBlock is up to date: ProcessBlockAvailability has been called.
FindNextBlocksToDownload(s, p, count) ==
  LET me == s.peer[p]
      best == me.pindexBestKnownBlock
      guess == IF me.pindexLastCommonBlock # NoBlock THEN me.pindexLastCommonBlock
               ELSE PathTo[s.tip][1 + IF Height(best) < Height(s.tip) THEN Height(best) ELSE Height(s.tip)]
      common == LastCommonAncestor(guess, best)
      windowEnd == Height(common) + BLOCK_DOWNLOAD_WINDOW
      maxHeight == IF Height(best) < windowEnd + 1 THEN Height(best) ELSE windowEnd + 1
      Step(walk, b) == Visit(s, p, count, windowEnd, walk, b)
  IN  IF best = NoBlock THEN NothingToFetch(me.pindexLastCommonBlock)
      ELSE IF Height(best) < Height(s.tip) THEN NothingToFetch(me.pindexLastCommonBlock)
      ELSE FoldLeft(Step, NothingToFetch(common),
                    SubSeq(PathTo[best], Height(common) + 2, maxHeight + 1))

-----------------------------------------------------------------------------
(* Blocks arrive *)

AcceptBlock(s, b, body, requested) ==
  LET r == [s EXCEPT !.index = @ \cup {b}]
      wanted == requested \/ (/\ Height(b) > Height(s.tip)
                              /\ Height(b) <= Height(s.tip) + MIN_BLOCKS_TO_KEEP)
  IN  IF ~AcceptBlockHeader(s, b) THEN s
      ELSE IF b \in s.data \/ ~wanted THEN r
      ELSE [r EXCEPT !.data = IF body = "good" THEN @ \cup {b} ELSE @,
                    !.failed = IF body = "bad" THEN @ \cup {b} ELSE @]

\* Mutant: a block that was not asked for stays in flight from the peer that was asked.
ProcessNewBlock_KeepInFlight(s, b, body, fForceProcessing) ==
  LET a == AcceptBlock(s, b, body, b \in DOMAIN s.inFlight \/ fForceProcessing)
  IN  {[a EXCEPT !.tip = t] : t \in MostWork(a)}

\* The nodes this handler may leave behind.
ProcessNewBlock(s, b, body, fForceProcessing) ==
  LET a == AcceptBlock(MarkBlockAsReceived(s, b), b, body,
                       b \in DOMAIN s.inFlight \/ fForceProcessing)
  IN  {[a EXCEPT !.tip = t] : t \in MostWork(a)}

\* A block comes as it is, or mutated on its way: CorruptionPossible, so nothing is marked failed.
Bodies(p, b) ==
  {IF b \in Bad THEN "bad" ELSE "good"} \cup (IF p \in Mutating THEN {"mutated"} ELSE {})

-----------------------------------------------------------------------------
(* Connections *)

NewNode ==
  [pindexBestKnownBlock |-> NoBlock, hashLastUnknownBlock |-> NoBlock,
   pindexLastCommonBlock |-> NoBlock, queue |-> <<>>, nBlocksInFlight |-> 0,
   nBlocksInFlightValidHeaders |-> 0, nStallingSince |-> "no", nDownloadingSince |-> "since",
   fSyncStarted |-> FALSE, fPreferredDownload |-> FALSE, fHaveWitness |-> FALSE,
   version |-> FALSE, fDisconnect |-> FALSE]

Init ==
  /\ node = [peer |-> <<>>, inFlight |-> <<>>, nPeersWithValidatedDownloads |-> 0,
             index |-> {Genesis}, data |-> {Genesis}, failed |-> {}, tip |-> Genesis]
  /\ nPreferredDownload = 0
  /\ nSyncStarted = 0
  /\ connections = [p \in Peers |-> 0]

InitializeNode(p) ==
  /\ p \notin DOMAIN node.peer
  /\ connections[p] < MaxConnections
  /\ node' = [node EXCEPT !.peer = [q \in DOMAIN @ \cup {p} |-> IF q = p THEN NewNode ELSE @[q]]]
  /\ connections' = [connections EXCEPT ![p] = @ + 1]
  /\ UNCHANGED <<nPreferredDownload, nSyncStarted>>

\* The message handler passes over peers that are to be disconnected.
Handled(p) == p \in DOMAIN node.peer /\ ~node.peer[p].fDisconnect
Talking(p) == Handled(p) /\ node.peer[p].version

\* Once in a connection; a second version message changes nothing.
Version(p) ==
  /\ Handled(p)
  /\ ~node.peer[p].version
  /\ node' = [node EXCEPT !.peer[p].version = TRUE,
                          !.peer[p].fHaveWitness = (p \in Witness),
                          !.peer[p].fPreferredDownload = (p \in Preferred)]
  /\ nPreferredDownload' = nPreferredDownload - One(node.peer[p].fPreferredDownload)
                                              + One(p \in Preferred)
  /\ UNCHANGED <<nSyncStarted, connections>>

\* The peer closes the connection, or is thrown out by hand.
Leave(p) ==
  /\ Handled(p)
  /\ p \notin Prompt
  /\ node' = [node EXCEPT !.peer[p].fDisconnect = TRUE]
  /\ UNCHANGED <<nPreferredDownload, nSyncStarted, connections>>

Forgotten(s, p) ==
  LET asked == {s.peer[p].queue[i].hash : i \in DOMAIN s.peer[p].queue}
  IN  [s EXCEPT !.inFlight = [h \in DOMAIN @ \ asked |-> @[h]],
                !.nPeersWithValidatedDownloads = @ - One(s.peer[p].nBlocksInFlightValidHeaders # 0),
                !.peer = [q \in DOMAIN @ \ {p} |-> @[q]]]

FinalizeNode(p) ==
  /\ p \in DOMAIN node.peer
  /\ node.peer[p].fDisconnect
  /\ node' = Forgotten(node, p)
  /\ nPreferredDownload' = nPreferredDownload - One(node.peer[p].fPreferredDownload)
  /\ nSyncStarted' = nSyncStarted - One(node.peer[p].fSyncStarted)
  /\ UNCHANGED connections

-----------------------------------------------------------------------------
(* Messages *)

\* An inv message: only a block whose header is not known yet is fetched at once.
Inv(p, b) ==
  /\ Talking(p)
  /\ \E fCanDirectFetch \in BOOLEAN :
       LET r == UpdateBlockAvailability(node, p, b)
       IN  node' = IF /\ b \notin node.index
                      /\ b \notin DOMAIN node.inFlight
                      /\ fCanDirectFetch
                      /\ r.peer[p].nBlocksInFlight < MAX_BLOCKS_IN_TRANSIT_PER_PEER
                      /\ r.peer[p].fHaveWitness
                   THEN MarkBlockAsInFlight(r, p, b, FALSE, FALSE) ELSE r
  /\ UNCHANGED <<nPreferredDownload, nSyncStarted, connections>>

\* A headers message: those of the blocks after first up to last.  The ones before a header that
\* is refused stay; the header spam filter may refuse them all, once they are in the index.  The
\* blocks to fetch directly are collected and then not asked for.
Headers(p, first, last, spam) ==
  LET headers == SubSeq(PathTo[last], Height(first) + 2, Height(last) + 1)
      Refused(i) == headers[i] \in node.failed \/ (i = 1 /\ ~AcceptBlockHeader(node, headers[i]))
      accepted == {headers[i] : i \in {j \in DOMAIN headers : \A k \in 1..j : ~Refused(k)}}
      r == [node EXCEPT !.index = @ \cup accepted]
  IN  /\ Talking(p)
      /\ node' = IF first \notin node.index
                 THEN IF Len(headers) < MAX_BLOCKS_TO_ANNOUNCE
                      THEN UpdateBlockAvailability(node, p, last) ELSE node
                 ELSE IF spam \/ last \notin accepted THEN r
                 ELSE UpdateBlockAvailability(r, p, last)
      /\ UNCHANGED <<nPreferredDownload, nSyncStarted, connections>>

\* A block message.
Block(p, b) ==
  /\ Talking(p)
  /\ \E body \in Bodies(p, b), ibd \in BOOLEAN :
       node' \in ProcessNewBlock(node, b, body, p \in Whitelisted /\ ~ibd)
  /\ UNCHANGED <<nPreferredDownload, nSyncStarted, connections>>

\* The transactions a compact block lacks have come: they do not fit it, do not help, or complete it.
Filled(s, p, b) ==
  {MarkBlockAsReceived(s, b), s}
    \cup UNION {ProcessNewBlock(s, b, body, FALSE) : body \in Bodies(p, b)}

BlockTxn(p, b) ==
  /\ Talking(p)
  /\ b \in DOMAIN node.inFlight
  /\ node.inFlight[b] = p
  /\ \E i \in DOMAIN node.peer[p].queue :
       node.peer[p].queue[i].hash = b /\ node.peer[p].queue[i].partialBlock
  /\ node' \in Filled(node, p, b)
  /\ UNCHANGED <<nPreferredDownload, nSyncStarted, connections>>

\* A cmpctblock message whose header is accepted; any other leaves the node as it is.  The block
\* is queued as a partial one, which is then found to be invalid, ambiguous, lacking transactions,
\* or complete: then it is filled at once.  The peer is asked for the whole block where the code
\* sends a getdata message.
Started(s, p, b) ==
  LET fAlreadyInFlight == b \in DOMAIN s.inFlight
      queued == MarkBlockAsInFlight(s, p, b, TRUE, TRUE)
      i == CHOOSE j \in DOMAIN queued.peer[p].queue : queued.peer[p].queue[j].hash = b
      partial == [queued EXCEPT !.peer[p].queue[i].partialBlock = TRUE]
  IN  IF fAlreadyInFlight /\ s.peer[p].queue[i].partialBlock THEN {s}
      ELSE {MarkBlockAsReceived(partial, b), partial} \cup Filled(partial, p, b)

CmpctBlock(p, b) ==
  LET r == UpdateBlockAvailability([node EXCEPT !.index = @ \cup {b}], p, b)
      fAlreadyInFlight == b \in DOMAIN node.inFlight
  IN  /\ Talking(p)
      /\ AcceptBlockHeader(node, b)
      /\ \E fCanDirectFetch \in BOOLEAN :
           node' \in IF /\ b \notin node.data
                        /\ Height(b) > Height(node.tip)
                        /\ fAlreadyInFlight \/ fCanDirectFetch
                        /\ Height(b) <= Height(node.tip) + 2
                        /\ IF fAlreadyInFlight THEN node.inFlight[b] = p
                           ELSE r.peer[p].nBlocksInFlight < MAX_BLOCKS_IN_TRANSIT_PER_PEER
                    THEN Started(r, p, b) ELSE {r}
      /\ UNCHANGED <<nPreferredDownload, nSyncStarted, connections>>

-----------------------------------------------------------------------------
(* SendMessages *)

\* The peer that keeps the window from moving is given BLOCK_STALLING_TIMEOUT.
Blamed(s, staller) ==
  IF s.peer[staller].nStallingSince = "no"
  THEN [s EXCEPT !.peer[staller].nStallingSince = "since"] ELSE s

\* The blocks to fetch from a peer are asked for.
Fetch(s, p) ==
  LET r == ProcessBlockAvailability(s, p)
      found == FindNextBlocksToDownload(r, p, MAX_BLOCKS_IN_TRANSIT_PER_PEER - r.peer[p].nBlocksInFlight)
      Ask(t, b) == MarkBlockAsInFlight(t, p, b, TRUE, FALSE)
      moved == [r EXCEPT !.peer[p].pindexLastCommonBlock = found.common]
      asked == IF r.peer[p].fHaveWitness THEN FoldLeft(Ask, moved, found.blocks) ELSE moved
  IN  IF asked.peer[p].nBlocksInFlight = 0 /\ found.staller # NoPeer /\ asked.peer[p].fHaveWitness
      THEN Blamed(asked, found.staller) ELSE asked

\* A peer that is slow to send the blocks it was asked for.
TimedOut(s, p) ==
  \/ s.peer[p].nStallingSince = "late"
  \/ s.peer[p].queue # <<>> /\ s.peer[p].nDownloadingSince = "late"

\* fShouldBan: Misbehaving has found the peer to be past -banscore.  fRecent: the best header is
\* less than a day old, so headers are asked of every peer.
Sent(p, fShouldBan, fRecent, ibd) ==
  LET fFetch == node.peer[p].fPreferredDownload \/ nPreferredDownload = 0
      start == /\ ~node.peer[p].fSyncStarted
               /\ (nSyncStarted = 0 /\ ~fShouldBan /\ fFetch) \/ fRecent
      s == [node EXCEPT !.peer[p].fSyncStarted = @ \/ start]
  IN  [nSyncStarted |-> nSyncStarted + One(start),
       node |-> IF fShouldBan \/ TimedOut(s, p) THEN [s EXCEPT !.peer[p].fDisconnect = TRUE]
                ELSE IF /\ fFetch \/ ~ibd
                        /\ s.peer[p].nBlocksInFlight < MAX_BLOCKS_IN_TRANSIT_PER_PEER
                     THEN Fetch(s, p) ELSE s]

SendMessages(p, fShouldBan) ==
  /\ Talking(p)
  /\ \E fRecent, ibd \in BOOLEAN :
       LET sent == Sent(p, fShouldBan, fRecent, ibd)
       IN  node' = sent.node /\ nSyncStarted' = sent.nSyncStarted
  /\ UNCHANGED <<nPreferredDownload, connections>>

\* SendMessages would change nothing for a peer that is not banned.
Quiet(p) ==
  Talking(p) => \A fRecent, ibd \in BOOLEAN :
                  Sent(p, FALSE, fRecent, ibd) = [nSyncStarted |-> nSyncStarted, node |-> node]

\* Time passes: two seconds of stalling, or the time a download may take.
StallingTimeout(p) ==
  /\ p \in DOMAIN node.peer \ Prompt
  /\ node.peer[p].nStallingSince = "since"
  /\ node' = [node EXCEPT !.peer[p].nStallingSince = "late"]
  /\ UNCHANGED <<nPreferredDownload, nSyncStarted, connections>>

DownloadTimeout(p) ==
  /\ p \in DOMAIN node.peer \ Prompt
  /\ node.peer[p].queue # <<>>
  /\ node.peer[p].nDownloadingSince = "since"
  /\ node' = [node EXCEPT !.peer[p].nDownloadingSince = "late"]
  /\ UNCHANGED <<nPreferredDownload, nSyncStarted, connections>>

-----------------------------------------------------------------------------
Receive(p) ==
  \E b \in Has[p] :
    \/ p \in Announcing /\ Inv(p, b)
    \/ \E first \in Ancestors(b) \ {b}, spam \in {FALSE, p \notin Prompt} : Headers(p, first, b, spam)
    \/ Block(p, b)
    \/ p \in Compact /\ (CmpctBlock(p, b) \/ BlockTxn(p, b))

Next ==
  \E p \in Peers :
    \/ InitializeNode(p) \/ Version(p) \/ Leave(p) \/ FinalizeNode(p)
    \/ Receive(p)
    \/ \E fShouldBan \in {FALSE, p \notin Prompt \cup Whitelisted} : SendMessages(p, fShouldBan)
    \/ StallingTimeout(p) \/ DownloadTimeout(p)

\* What a prompt peer does: it connects, announces its blocks, and sends what it is asked for.
Helpful(p) ==
  \/ InitializeNode(p)
  \/ Version(p)
  \/ \E b \in Has[p] : Headers(p, Genesis, b, FALSE)
  \/ \E b \in DOMAIN node.inFlight : node.inFlight[b] = p /\ Block(p, b)

-----------------------------------------------------------------------------
(* The counters are natural numbers and no peer is asked for more than     *)
(* MAX_BLOCKS_IN_TRANSIT_PER_PEER blocks, whichever handler asks.          *)
TypeOK ==
  /\ DOMAIN node.peer \subseteq Peers
  /\ \A p \in DOMAIN node.peer :
       /\ node.peer[p].nBlocksInFlight \in 0..MAX_BLOCKS_IN_TRANSIT_PER_PEER
       /\ node.peer[p].nBlocksInFlightValidHeaders \in 0..node.peer[p].nBlocksInFlight
  /\ node.tip \in node.data /\ node.data \subseteq node.index
  /\ nSyncStarted \in 0..Cardinality(Peers)

Queued(p) == {node.peer[p].queue[i].hash : i \in DOMAIN node.peer[p].queue}

(* mapBlocksInFlight and the queues of the peers say the same, each block  *)
(* is asked of one peer that is still there, and the counters count: what  *)
(* FinalizeNode asserts once the last peer is gone, at every moment.       *)
InFlightIsQueued ==
  /\ \A h \in DOMAIN node.inFlight :
       node.inFlight[h] \in DOMAIN node.peer /\ h \in Queued(node.inFlight[h])
  /\ \A p \in DOMAIN node.peer :
       /\ \A h \in Queued(p) : h \in DOMAIN node.inFlight /\ node.inFlight[h] = p
       /\ node.peer[p].nBlocksInFlight = Len(node.peer[p].queue)
       /\ node.peer[p].nBlocksInFlightValidHeaders
            = Cardinality({i \in DOMAIN node.peer[p].queue : node.peer[p].queue[i].fValidatedHeaders})
  /\ node.nPeersWithValidatedDownloads
       = Cardinality({p \in DOMAIN node.peer : node.peer[p].nBlocksInFlightValidHeaders > 0})
  /\ nPreferredDownload = Cardinality({p \in DOMAIN node.peer : node.peer[p].fPreferredDownload})
  /\ nSyncStarted = Cardinality({p \in DOMAIN node.peer : node.peer[p].fSyncStarted})

(* A block that has been received is in flight no more, whoever sent it.   *)
InFlightIsMissing == DOMAIN node.inFlight \cap node.data = {}

(* A peer is held to stall only while it owes a block: SendMessages        *)
(* disconnects no peer for stalling that has sent all it was asked for.    *)
StallersOweBlocks ==
  \A p \in DOMAIN node.peer : node.peer[p].nStallingSince # "no" => node.peer[p].queue # <<>>

(* pindexLastCommonBlock is "the last full block we both have": the peer   *)
(* has it, and this node has it and all its ancestors, across the forks of *)
(* the peer and those of the node.                                         *)
LastCommonIsCommon ==
  \A p \in DOMAIN node.peer :
    LET b == node.peer[p].pindexLastCommonBlock
    IN  b \in {NoBlock, Genesis} \/ (b \in Has[p] /\ Ancestors(b) \subseteq node.data)

(* The node has caught up with the peers that answer in time.  It gets     *)
(* there and stays there, whatever the other peers announce and withhold:  *)
(* SendMessages gives up those that stall or time out.                     *)
CaughtUp == \A p \in Prompt : \A b \in Has[p] : Height(node.tip) >= Height(b)
=============================================================================
