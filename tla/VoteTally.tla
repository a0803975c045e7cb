----------------------------- MODULE VoteTally -----------------------------
(***************************************************************************)
(* How the votes for proposals and payment requests are counted.  VoteStep *)
(* (consensus/dao.cpp) runs whenever a block connects or disconnects.  It  *)
(* keeps the counts of the running cycle in process-wide caches: a block   *)
(* that connects normally adds its own votes to them; an undo, a new       *)
(* cycle, a change of the consensus parameters or empty caches (a restart) *)
(* make it scan the whole cycle again.  The counts are then written into   *)
(* the objects of a view that can still be voted.                          *)
(*                                                                         *)
(* CVerifyDB::VerifyDB disconnects and reconnects the last blocks on a     *)
(* view of its own, but the caches it moves are the same.                  *)
(*                                                                         *)
(* An object here is a proposal: open until the block that decides about   *)
(* it.  Which way it is decided, and the fund, are in CommunityFund.       *)
(***************************************************************************)
EXTENDS Integers, Sequences, FiniteSets, SequencesExt, FiniteSetsExt

CONSTANTS
  Items,        \* hashes of the objects
  BlockVotes,   \* the votes a block can carry: functions from Items to Vote
  Lengths,      \* the values VOTING_CYCLE_LENGTH can be given
  FirstLength,  \* its value in chainparams.cpp
  MinQuorum, MinShare,  \* quorum; share that accepts, share that rejects
  MaxCycles,    \* *_MAX_VOTING_CYCLES
  Levels,       \* the levels VerifyDB is called with
  Exclusions,   \* can a block be excluded from the vote?  a subset of BOOLEAN
  MaxHeight     \* bound on the height of the chain

Vote == {"none", "yes", "no", "abs"}

ConstantsAssumption ==
  /\ Items \subseteq Nat /\ BlockVotes \subseteq [Items -> Vote]
  /\ Lengths \subseteq Nat \ {0} /\ FirstLength \in Nat \ {0}
  /\ MinQuorum \in 0..10000 /\ MinShare \in 5000..10000
  /\ Levels \subseteq 3..4 /\ Exclusions \subseteq BOOLEAN

VARIABLES
  chain,  \* chainActive: the blocks above the genesis block, at their heights
  view,   \* pcoinsTip: the objects and their counts
  cache,  \* the globals of VoteStep
  event   \* the last step, for the properties

vars == <<chain, view, cache, event>>

(***************************************************************************)
(* A block: the votes found in it, whether it is excluded from the vote    *)
(* (nNonce & 1), the objects its transactions create, and the cycle length *)
(* a consultation that passes with it sets (0: none).                      *)
(*                                                                         *)
(* A view: the height that created each object (0: absent), the height     *)
(* that decided about it (0: open), its nVotingCycle, its counts, and      *)
(* nExcludeVotes.                                                          *)
(***************************************************************************)
Count == [yes : Nat, no : Nat, abs : Nat]
Zero == [yes |-> 0, no |-> 0, abs |-> 0]
Block == [votes : BlockVotes, excluded : Exclusions, adds : SUBSET Items,
          length : Lengths \cup {0}]
EmptyView == [created |-> [i \in Items |-> 0], decided |-> [i \in Items |-> 0],
              cycle |-> [i \in Items |-> 0], count |-> [i \in Items |-> Zero],
              nExclude |-> 0]

NoCache == [seen |-> {}, count |-> [i \in Items |-> Zero], nExclude |-> 0, length |-> 0]

-----------------------------------------------------------------------------
\* GetConsensusParameter(VOTING_CYCLE_LENGTH): the value set by the highest
\* block, undone with it.
CycleLength(blocks) ==
  LET sets == {h \in DOMAIN blocks : blocks[h].length # 0}
  IN  IF sets = {} THEN FirstLength ELSE blocks[Max(sets)].length

Add(c, vote) == IF vote = "none" THEN c ELSE [c EXCEPT ![vote] = @ + 1]

\* One round of the scan loop: an excluded block only counts as excluded.
ScanBlock(b, c) ==
  IF b.excluded THEN [c EXCEPT !.nExclude = @ + 1]
  ELSE [c EXCEPT !.seen = @ \cup {i \in Items : b.votes[i] # "none"},
                 !.count = [i \in Items |-> Add(@[i], b.votes[i])]]

\* Mutant: empty caches and changed parameters are trusted.
MustScanCycle_Trusting(blocks, c, undo) ==
  undo \/ Len(blocks) % CycleLength(blocks) = 0

\* The whole cycle is scanned when the caches cannot be trusted.
MustScanCycle(blocks, c, undo) ==
  LET length == CycleLength(blocks)
  IN  \/ undo
      \/ c.length # length
      \/ Len(blocks) % length = 0
      \/ c.seen = {}

\* The caches after the scan.  Blocks are given without the parameter their
\* last one sets: it is applied at the very end of VoteStep.
Scan(blocks, c, undo) ==
  LET length == CycleLength(blocks)
      tip    == Len(blocks)
      whole  == MustScanCycle(blocks, c, undo)
      start  == IF whole THEN [NoCache EXCEPT !.length = length] ELSE c
      first  == IF whole THEN Max({1, tip - (tip % length)}) ELSE tip
  IN  FoldLeft(LAMBDA acc, b : ScanBlock(b, acc), start, SubSeq(blocks, first, tip))

-----------------------------------------------------------------------------
CanVote(v, i) == v.created[i] # 0 /\ v.decided[i] = 0

\* The cached counts are written into the open objects.
WriteCounts(v, c) ==
  [v EXCEPT !.nExclude = c.nExclude,
            !.count = [i \in Items |->
               IF CanVote(v, i) /\ i \in c.seen THEN c.count[i] ELSE @[i]]]

\* Mutant: decided objects lose their votes too.
ResetUnseen_All(v, c, whole) ==
  [v EXCEPT !.count = [i \in Items |->
     IF whole /\ i \notin c.seen THEN [@[i] EXCEPT !.yes = 0, !.no = 0] ELSE @[i]]]

\* After a whole scan, and after the decisions, an object that is still open
\* and has no vote loses its votes in favour and against.
ResetUnseen(v, c, whole) ==
  [v EXCEPT !.count = [i \in Items |->
     IF whole /\ CanVote(v, i) /\ i \notin c.seen
     THEN [@[i] EXCEPT !.yes = 0, !.no = 0] ELSE @[i]]]

TotalVotes(c) == c.yes + c.no + c.abs

\* Mutant: the cycle is a counter that every first block of a cycle increments,
\* connected or left by a disconnection.
RefreshCycles_Counter(v, tip, length) ==
  [v EXCEPT !.cycle = [i \in Items |->
     IF CanVote(v, i) /\ tip % length = 0 THEN @[i] + 1 ELSE @[i]]]

\* The cycle of every open object is refreshed.
RefreshCycles(v, tip, length) ==
  [v EXCEPT !.cycle = [i \in Items |->
     IF CanVote(v, i)
     THEN Min({tip \div length - v.created[i] \div length, MaxCycles + 1}) ELSE @[i]]]

\* A vote with a quorum and a clear result, and one that took too many cycles.
Decided(v, i, length) ==
  LET c == v.count[i]
  IN  \/ /\ 10000 * TotalVotes(c) > (length - v.nExclude) * MinQuorum
         /\ \/ 10000 * c.yes > TotalVotes(c) * MinShare
            \/ 10000 * c.no > TotalVotes(c) * MinShare
      \/ v.cycle[i] > MaxCycles

\* The last block of a cycle decides, with the cycle numbers of the block before.
Decide(v, tip, length) ==
  LET decides(i) == /\ (tip + 1) % length = 0
                    /\ CanVote(v, i) /\ Decided(v, i, length)
  IN  [RefreshCycles(v, tip, length) EXCEPT !.decided =
         [i \in Items |-> IF decides(i) THEN tip ELSE @[i]]]

-----------------------------------------------------------------------------
\* A node's view and caches after it connects block b to blocks: ConnectBlock
\* adds the objects, VoteStep counts and decides.
WithoutParameter(b) == [b EXCEPT !.length = 0]

Connect(blocks, b, v, c) ==
  LET tip    == Len(blocks) + 1
      added  == [v EXCEPT !.created = [i \in Items |-> IF i \in b.adds THEN tip ELSE @[i]]]
      now    == Append(blocks, WithoutParameter(b))
      c2     == Scan(now, c, FALSE)
      judged == Decide(WriteCounts(added, c2), tip, CycleLength(now))
  IN  [view |-> ResetUnseen(judged, c2, MustScanCycle(now, c, FALSE)), cache |-> c2]

\* DisconnectBlock takes the block's votes off the counts, whether or not the
\* block was excluded, and removes its objects.
TakeOff(c, vote) ==
  IF vote = "none" THEN c ELSE [c EXCEPT ![vote] = IF @ = 0 THEN 0 ELSE @ - 1]

RemoveBlock(v, b, tip) ==
  [v EXCEPT !.created = [i \in Items |-> IF @[i] = tip THEN 0 ELSE @[i]],
            !.cycle = [i \in Items |-> IF v.created[i] = tip THEN 0 ELSE @[i]],
            !.count = [i \in Items |->
               IF v.created[i] = tip THEN Zero
               ELSE IF v.created[i] = 0 THEN @[i]
               ELSE TakeOff(@[i], b.votes[i])],
            !.decided = [i \in Items |-> IF @[i] = tip THEN 0 ELSE @[i]]]

\* ...then VoteStep takes back its decisions and scans the cycle that is left.
Disconnect(blocks, v, c) ==
  LET tip  == Len(blocks)
      left == SubSeq(blocks, 1, tip - 1)
      c2   == Scan(left, c, TRUE)
      v2   == RefreshCycles(RemoveBlock(v, blocks[tip], tip), tip - 1, CycleLength(left))
  IN  [view |-> ResetUnseen(WriteCounts(v2, c2), c2, TRUE), cache |-> c2]

\* VerifyDB: disconnect the blocks above height low, the highest first.
RECURSIVE DisconnectTo(_, _, _, _)
DisconnectTo(blocks, low, v, c) ==
  IF Len(blocks) = low THEN [view |-> v, cache |-> c]
  ELSE LET d == Disconnect(blocks, v, c)
       IN  DisconnectTo(SubSeq(blocks, 1, Len(blocks) - 1), low, d.view, d.cache)

RECURSIVE Reconnect(_, _, _, _)
Reconnect(blocks, low, v, c) ==
  IF Len(blocks) = low THEN [view |-> v, cache |-> c]
  ELSE LET n == Connect(SubSeq(blocks, 1, low), blocks[low + 1], v, c)
       IN  Reconnect(blocks, low + 1, n.view, n.cache)

\* The part of a view the DAO state hash covers.
GetDAOStateHash(v) == <<v.created, v.decided, v.cycle, v.count>>

-----------------------------------------------------------------------------
Init == chain = <<>> /\ view = EmptyView /\ cache = NoCache /\ event = "start"

\* Votes are recorded only for objects that can be voted when the block
\* connects; a parameter changes only at the end of a cycle.
ValidBlock(b) ==
  LET tip == Len(chain) + 1
  IN  /\ \A i \in b.adds : view.created[i] = 0
      /\ \A i \in Items : b.votes[i] # "none" => CanVote(view, i) \/ i \in b.adds
      /\ b.length # 0 => (tip + 1) % CycleLength(chain) = 0 /\ b.length # CycleLength(chain)

ConnectTip(b) ==
  /\ Len(chain) < MaxHeight /\ ValidBlock(b)
  /\ LET n == Connect(chain, b, view, cache)
     IN  view' = n.view /\ cache' = n.cache
  /\ chain' = Append(chain, b)
  /\ event' = "connect"

DisconnectTip ==
  /\ Len(chain) > 0
  /\ LET n == Disconnect(chain, view, cache)
     IN  view' = n.view /\ cache' = n.cache
  /\ chain' = Front(chain)
  /\ event' = "disconnect"

\* The caches are memory only.
Restart ==
  /\ cache' = NoCache
  /\ event' = "restart"
  /\ UNCHANGED <<chain, view>>

\* Level 3 disconnects, level 4 reconnects and compares.  The view is a copy:
\* only the caches of VoteStep remain changed.
VerifyDB(level, depth) ==
  /\ depth <= Len(chain) /\ depth > 0
  /\ LET low   == Len(chain) - depth
         down  == DisconnectTo(chain, low, view, cache)
         again == Reconnect(chain, low, down.view, down.cache)
     IN  IF level = 3
         THEN cache' = down.cache /\ event' = "verified"
         ELSE /\ cache' = again.cache
              /\ event' = IF GetDAOStateHash(again.view) = GetDAOStateHash(view)
                          THEN "verified" ELSE "inconsistent"
  /\ UNCHANGED <<chain, view>>

Next ==
  \/ \E b \in Block : ConnectTip(b)
  \/ DisconnectTip
  \/ Restart
  \/ \E level \in Levels, depth \in 1..MaxHeight : VerifyDB(level, depth)

Spec == Init /\ [][Next]_vars

-----------------------------------------------------------------------------
\* Properties.

\* The state is well typed: in particular the counts that DisconnectBlock takes
\* votes off never go below zero (they are signed, the code takes the maximum).
TypeOK ==
  /\ chain \in Seq(Block) /\ Len(chain) <= MaxHeight
  /\ view.created \in [Items -> 0..MaxHeight] /\ view.decided \in [Items -> 0..MaxHeight]
  /\ view.cycle \in [Items -> Int] /\ view.count \in [Items -> Count]
  /\ view.nExclude \in Nat
  /\ cache.seen \subseteq Items /\ cache.count \in [Items -> Count]
  /\ cache.nExclude \in Nat /\ cache.length \in Lengths \cup {0, FirstLength}
  /\ event \in {"start", "connect", "disconnect", "restart", "verified", "inconsistent"}

\* The reference: the votes of one kind for an object in the cycle of the block
\* of height h, as far as the chain had grown with it.
CycleOf(h) ==
  LET length == CycleLength(SubSeq(chain, 1, h - 1))
  IN  Max({1, h - (h % length)})..h
VotesIn(heights, i, vote) ==
  Cardinality({h \in heights : ~chain[h].excluded /\ chain[h].votes[i] = vote})

\* After a block connects, whatever was undone, restarted or verified before
\* it, an open object has exactly the votes of the running cycle, in favour and
\* against, and the excluded blocks are those of the running cycle.
CountsAreOfTheCycle ==
  event = "connect" =>
    LET cycle == CycleOf(Len(chain))
    IN  /\ view.nExclude = Cardinality({h \in cycle : chain[h].excluded})
        /\ \A i \in Items : CanVote(view, i) =>
             /\ view.count[i].yes = VotesIn(cycle, i, "yes")
             /\ view.count[i].no = VotesIn(cycle, i, "no")
             /\ view.count[i].abs = VotesIn(cycle, i, "abs") \/ i \notin cache.seen

\* A decision stands on the votes of the cycle it closed: the counts a decided
\* object keeps are those of the cycle of the deciding block.
DecisionsAreOfTheCycle ==
  \A i \in Items : view.decided[i] # 0 =>
    LET cycle == CycleOf(view.decided[i])
    IN  /\ view.count[i].yes = VotesIn(cycle, i, "yes")
        /\ view.count[i].no = VotesIn(cycle, i, "no")

\* What a node that only ever saw this chain holds.
Replay == Reconnect(chain, 0, EmptyView, NoCache).view

YesNo(v) ==
  [i \in Items |-> <<v.created[i], v.decided[i], v.cycle[i], v.count[i].yes, v.count[i].no>>]

\* Nodes agree: after a block connects, a node's objects, decisions, voting cycles and
\* votes in favour and against depend on its chain alone, not on the blocks it
\* disconnected, its restarts or its verifications.
NodesAgree == event = "connect" => YesNo(view) = YesNo(Replay)

\* Nodes agree on the DAO state hash: after a block connects, everything
\* GetDAOStateHash covers, abstentions included, depends on the chain alone.
StateHashesAgree == event = "connect" => GetDAOStateHash(view) = GetDAOStateHash(Replay)

\* VerifyDB finds no inconsistency in a database that only ConnectTip and
\* DisconnectTip wrote: reconnecting the last blocks restores the state hash.
VerifyFindsNothing == event # "inconsistent"
=============================================================================
