----------------------------- MODULE StakerVotes ----------------------------
(***************************************************************************)
(* The votes of stakers.  A vote in a block goes to the list of its voter, *)
(* a map from heights to votes; a proof-of-stake block then writes what    *)
(* the list of its staker says to the record of the block, which is what   *)
(* VoteStep counts.  The lists are part of the chain state and follow the  *)
(* active chain through Clear; the records belong to the block index, are  *)
(* never erased, and grow each time their block is connected or checked.   *)
(* The block index and the chain state reach the disk one after the other. *)
(*                                                                         *)
(* A block is named by the contents of the chain up to it.  The features   *)
(* fCFund, fDAOConsultations, fColdStakingv2 and fVoteCacheState are on.   *)
(* Which objects accept votes at a block is part of its contents.          *)
(***************************************************************************)
EXTENDS Naturals, FiniteSets, FiniteSetsExt, Sequences, SequencesExt

CONSTANTS
  Absent,     \* no vote, or the empty staker script of a proof-of-work block
  Voters, Objects,
  Kind,       \* of each object: proposal, support, consultation or answer
  HashOrder,  \* the objects in the order of their hashes
  MaxAnswers, \* nMax of the consultation the answers belong to
  Contents,   \* what blocks hold, see ContentOK
  MaxBlocks, MaxHeight, MaxAppends   \* bounds

Votes == {"yes", "no", "abstain", "remove", "support", "supportRemove"}
Removals == {"remove", "supportRemove"}

VoteOutput == [voter : Voters \cup {Absent}, object : Objects, vote : Votes, coinbase : BOOLEAN]

ContentOK(c) ==
  /\ c.stake \in BOOLEAN /\ c.odd \in BOOLEAN /\ c.coldv2 \in BOOLEAN
  /\ c.staker \in Voters \cup {Absent}
  /\ (c.stake <=> c.staker # Absent)
  /\ c.coldv2 => c.stake
  /\ c.open \subseteq Objects
  /\ c.votes \in Seq(VoteOutput)
  /\ \A i \in DOMAIN c.votes : c.votes[i].coinbase => c.votes[i].voter = c.staker

ConstantsAssumption ==
  /\ Kind \in [Objects -> {"proposal", "support", "consultation", "answer"}]
  /\ Range(HashOrder) = Objects /\ Len(HashOrder) = Cardinality(Objects)
  /\ \A c \in Contents : ContentOK(c)
  /\ {MaxAnswers, MaxBlocks, MaxHeight, MaxAppends} \subseteq Nat

VARIABLES
  chain,     \* contents of the blocks of the active chain
  lists,     \* per voter and height: the votes of the CVoteList
  record,    \* per block of the index: its votes in memory
  valid,     \* blocks of the index with undo data and BLOCK_VALID_SCRIPTS
  dirty,     \* setDirtyBlockIndex
  flushing,  \* between the two writes of FlushStateToDisk
  disk,      \* the block index and the chain state on disk
  seen       \* every block there ever was, for the bound

vars == <<chain, lists, record, valid, dirty, flushing, disk, seen>>

Heights == 1 .. MaxHeight
NoVotes == [o \in Objects |-> Absent]
NoLists == [v \in Voters |-> [h \in Heights |-> NoVotes]]
NoRecord == [pushed |-> <<>>, mapped |-> NoVotes]

-----------------------------------------------------------------------------
(* CVoteList                                                               *)

Get(list, o) ==
  LET at == {h \in Heights : list[h][o] # Absent}
  IN IF at = {} THEN Absent ELSE list[Max(at)][o]

Set(list, h, o, vote) ==
  IF Get(list, o) = vote THEN list ELSE [list EXCEPT ![h][o] = vote]

Clear(list, h) == [list EXCEPT ![h] = NoVotes]

GetList(list) == [o \in Objects |-> Get(list, o)]

-----------------------------------------------------------------------------
(* ConnectBlock                                                            *)

\* The block's own votes count: nNonce is even or the staker uses cold staking v2.
ReadsVotes(c) == ~c.odd \/ c.coldv2

\* push_back on the vectors of proposals and payment requests, insert on the
\* maps of supports and consultation votes, which keeps an earlier entry.
\* A support is recorded as true whatever the vote.
Insert(rec, o, vote) ==
  IF Kind[o] = "proposal"
  THEN [rec EXCEPT !.pushed = Append(@, <<o, vote>>)]
  ELSE IF rec.mapped[o] # Absent THEN rec
  ELSE [rec EXCEPT !.mapped[o] = IF Kind[o] = "support" THEN "support" ELSE vote]

\* One vote output.  Only the first vote of a voter for an object counts in
\* a block; a consultation vote that is a removal does not end the search.
AddVote(c, h, acc, out) ==
  LET key == <<out.voter, out.object>>
      settled == out.vote # "remove"
      accepted == out.object \in c.open
  IN IF key \in acc.met \/ (out.coinbase /\ c.coldv2) THEN acc
     ELSE IF out.voter # Absent
     THEN [acc EXCEPT
             !.met = IF settled \/ (accepted /\ Kind[out.object] \in {"proposal", "support"})
                     THEN @ \cup {key} ELSE @,
             !.lists[out.voter] = IF accepted THEN Set(@, h, out.object, out.vote) ELSE @]
     ELSE LET direct == out.coinbase /\ accepted /\ (settled \/ Kind[out.object] = "proposal")
              answer == direct /\ Kind[out.object] = "answer"
          IN [acc EXCEPT
                !.met = IF settled THEN @ \cup {key} ELSE @,
                !.answers = IF answer THEN @ + 1 ELSE @,
                !.rec = IF direct /\ (answer => acc.answers < MaxAnswers)
                        THEN Insert(@, out.object, out.vote) ELSE @]

\* The list of the staker is written to the record of the block.  Only the
\* first MaxAnswers answers that can be voted are.
RecordStaker(c, list, rec) ==
  LET Says(o) == list[o] \notin Removals \cup {Absent} /\ o \in c.open
      Before(i) == {j \in 1 .. i - 1 : Kind[HashOrder[j]] = "answer" /\ Says(HashOrder[j])}
      Written(i) == /\ Says(HashOrder[i])
                    /\ Kind[HashOrder[i]] = "answer" => Cardinality(Before(i)) < MaxAnswers
  IN FoldLeft(LAMBDA r, i : IF Written(i) THEN Insert(r, HashOrder[i], list[HashOrder[i]]) ELSE r,
              rec, [i \in DOMAIN HashOrder |-> i])

\* The lists and the record of the block after ConnectBlock, from the lists
\* before it and what the record held already.
Connected(c, h, before, rec) ==
  LET start == [lists |-> before, rec |-> rec, met |-> {}, answers |-> 0]
      read == IF ReadsVotes(c)
              THEN FoldLeft(LAMBDA acc, out : AddVote(c, h, acc, out), start, c.votes)
              ELSE start
  IN [lists |-> read.lists,
      rec |-> IF c.stake THEN RecordStaker(c, GetList(read.lists[c.staker]), read.rec)
              ELSE read.rec]

RecordOf(b) == IF b \in DOMAIN record THEN record[b] ELSE NoRecord
WithRecord(b, rec) == [x \in DOMAIN record \cup {b} |-> IF x = b THEN rec ELSE record[x]]

-----------------------------------------------------------------------------
Init ==
  /\ chain = <<>> /\ lists = NoLists
  /\ record = [b \in {} |-> NoRecord] /\ valid = {} /\ dirty = {}
  /\ flushing = FALSE
  /\ disk = [record |-> record, valid |-> {}, chain |-> <<>>, lists |-> NoLists]
  /\ seen = {}

MayAppend(b) ==
  /\ ~flushing
  /\ Len(b) <= MaxHeight
  /\ b \in seen \/ Cardinality(seen) < MaxBlocks
  /\ Len(RecordOf(b).pushed) < MaxAppends

\* A block is connected, for the first time or again.  Its index entry is
\* marked dirty only the first time, when undo data and validity are new.
ConnectBlock(c) ==
  LET b == Append(chain, c) IN
  /\ MayAppend(b)
  /\ \E after \in {Connected(c, Len(b), lists, RecordOf(b))} :
       lists' = after.lists /\ record' = WithRecord(b, after.rec)
  /\ chain' = b
  /\ dirty' = IF b \in valid THEN dirty ELSE dirty \cup {b}
  /\ valid' = valid \cup {b}
  /\ seen' = seen \cup {b}
  /\ UNCHANGED <<flushing, disk>>

\* ConnectBlock with fJustCheck on a block over the tip, as the miner does:
\* the view is thrown away, the record is not.
TestBlockValidity(c) ==
  LET b == Append(chain, c) IN
  /\ MayAppend(b)
  /\ record' = WithRecord(b, Connected(c, Len(b), lists, RecordOf(b)).rec)
  /\ seen' = seen \cup {b}
  /\ UNCHANGED <<chain, lists, valid, dirty, flushing, disk>>

\* Mutant of Disconnected: only the list of the staker is cleared.
Disconnected_Staker(c, h, before) ==
  IF c.stake /\ ReadsVotes(c) THEN [before EXCEPT ![c.staker] = Clear(@, h)] ELSE before

\* The lists after DisconnectBlock: those of all voters are cleared, if the
\* block is proof of stake and its votes were read.
Disconnected(c, h, before) ==
  IF c.stake /\ ReadsVotes(c) THEN [v \in Voters |-> Clear(before[v], h)] ELSE before

DisconnectBlock ==
  /\ ~flushing /\ chain # <<>>
  /\ lists' = Disconnected(Last(chain), Len(chain), lists)
  /\ chain' = Front(chain)
  /\ UNCHANGED <<record, valid, dirty, flushing, disk, seen>>

\* VerifyDB at level 4, over a view of its own: the last block is
\* disconnected and connected again.
VerifyDB ==
  /\ ~flushing /\ chain # <<>>
  /\ Len(RecordOf(chain).pushed) < MaxAppends
  /\ LET c == Last(chain)
         h == Len(chain)
     IN record' = WithRecord(chain, Connected(c, h, Disconnected(c, h, lists), RecordOf(chain)).rec)
  /\ UNCHANGED <<chain, lists, valid, dirty, flushing, disk, seen>>

\* The first write of FlushStateToDisk: the dirty entries of the index with
\* their votes.  A full flush goes on to the chain state.
WriteBlockIndex ==
  /\ ~flushing
  /\ disk' = [disk EXCEPT
       !.record = [b \in DOMAIN @ \cup dirty |-> IF b \in dirty THEN RecordOf(b) ELSE @[b]],
       !.valid = @ \cup dirty]
  /\ dirty' = {}
  /\ flushing' \in BOOLEAN
  /\ (dirty # {} \/ flushing')
  /\ UNCHANGED <<chain, lists, record, valid, seen>>

\* pcoinsTip->Flush()
WriteChainState ==
  /\ flushing
  /\ disk' = [disk EXCEPT !.chain = chain, !.lists = lists]
  /\ flushing' = FALSE
  /\ UNCHANGED <<chain, lists, record, valid, dirty, seen>>

\* The node stops without a flush and starts again: LoadBlockIndexGuts gives
\* the records of the index on disk, the chain ends where the chain state does.
Restart ==
  /\ chain' = disk.chain /\ lists' = disk.lists
  /\ record' = disk.record /\ valid' = disk.valid
  /\ dirty' = {} /\ flushing' = FALSE
  /\ UNCHANGED <<disk, seen>>

Next ==
  \/ \E c \in Contents : ConnectBlock(c) \/ TestBlockValidity(c)
  \/ DisconnectBlock \/ VerifyDB
  \/ WriteBlockIndex \/ WriteChainState \/ Restart

Spec == Init /\ [][Next]_vars

-----------------------------------------------------------------------------
(* What VoteStep counts                                                    *)

\* The votes the scan of VoteStep finds in a record: the first entry of each object.
Counted(rec, o, vote) ==
  IF Kind[o] = "proposal"
  THEN Cardinality({i \in DOMAIN rec.pushed :
         /\ rec.pushed[i] = <<o, vote>>
         /\ \A j \in 1 .. i - 1 : rec.pushed[j][1] # o})
  ELSE IF rec.mapped[o] = vote THEN 1 ELSE 0

CountedOf(b, rec, o, vote) == IF ReadsVotes(Last(b)) THEN Counted(rec, o, vote) ELSE 0

-----------------------------------------------------------------------------
(* What the chain says, without lists or records                           *)

\* The outputs of block n of a chain by which v votes for o.
Outputs(b, n, v, o) ==
  IF ReadsVotes(b[n]) /\ o \in b[n].open
  THEN SelectSeq(b[n].votes, LAMBDA out : /\ out.voter = v /\ out.object = o
                                          /\ ~(out.coinbase /\ b[n].coldv2))
  ELSE <<>>

\* The one of them that counts: the first, and for consultations and answers
\* the first that is not a removal.
CastIn(b, n, v, o) ==
  LET outs == Outputs(b, n, v, o)
      firm == IF Kind[o] \in {"consultation", "answer"}
              THEN SelectSeq(outs, LAMBDA out : out.vote # "remove") ELSE outs
  IN IF outs = <<>> THEN Absent ELSE IF firm = <<>> THEN "remove" ELSE firm[1].vote

\* The opinion of v on o at block n: what v said last.
Opinion(b, n, v, o) ==
  LET at == {k \in 1 .. n : CastIn(b, k, v, o) # Absent}
  IN IF at = {} THEN Absent ELSE CastIn(b, Max(at), v, o)

\* Whether the last block of b stands for the vote of o.
Stands(b, o, vote) ==
  LET c == Last(b)
      v == c.staker
      Says(x) == x \in c.open /\ Opinion(b, Len(b), v, x) \notin Removals \cup {Absent}
      Smaller == {x \in Objects : /\ Kind[x] = "answer" /\ Says(x)
                                  /\ \E i, j \in DOMAIN HashOrder :
                                       i < j /\ HashOrder[i] = x /\ HashOrder[j] = o}
  IN /\ ReadsVotes(c)
     /\ IF c.stake
        THEN /\ Says(o) /\ Opinion(b, Len(b), v, o) = vote
             /\ Kind[o] = "answer" => Cardinality(Smaller) < MaxAnswers
        ELSE /\ CastIn(b, Len(b), Absent, o) = vote
             /\ vote = "remove" => Kind[o] = "proposal"

-----------------------------------------------------------------------------
(* Properties                                                              *)

RecordOK(rec) ==
  /\ rec.pushed \in Seq(Objects \X Votes)
  /\ rec.mapped \in [Objects -> Votes \cup {Absent}]

(* The lists have an entry for each voter and height, records belong to    *)
(* known blocks, and only connected blocks wait for a write.               *)
TypeOK ==
  /\ chain \in Seq(Contents) /\ Len(chain) <= MaxHeight
  /\ lists \in [Voters -> [Heights -> [Objects -> Votes \cup {Absent}]]]
  /\ DOMAIN record \subseteq seen /\ \A b \in DOMAIN record : RecordOK(record[b])
  /\ dirty \subseteq valid /\ valid \subseteq DOMAIN record
  /\ flushing \in BOOLEAN

(* After any sequence of connections, disconnections and restarts the list *)
(* of a voter says what the voter last said on the active chain: Clear by  *)
(* height in DisconnectBlock takes back exactly what ConnectBlock had Set, *)
(* and Set leaving out a repeated vote loses nothing.                      *)
ListsFollowChain ==
  \A v \in Voters, o \in Objects : Get(lists[v], o) = Opinion(chain, Len(chain), v, o)

(* What VoteStep counts for each block of the active chain is what its     *)
(* staker, or its coinbase, says on that chain: once per object, however   *)
(* often the block was checked, verified or connected before.              *)
CountsFollowChain ==
  \A n \in 1 .. Len(chain), o \in Objects, vote \in Votes \ {"supportRemove"} :
    LET b == SubSeq(chain, 1, n)
    IN CountedOf(b, RecordOf(b), o, vote) = IF Stands(b, o, vote) THEN 1 ELSE 0

(* The chain state on disk is never ahead of the block index on disk: when *)
(* the node stops at any point of FlushStateToDisk, each block of the      *)
(* chain it restarts with has its votes in the index.                      *)
DiskRecordsSuffice ==
  \A n \in 1 .. Len(disk.chain), o \in Objects, vote \in Votes \ {"supportRemove"} :
    LET b == SubSeq(disk.chain, 1, n)
    IN /\ b \in DOMAIN disk.record
       /\ CountedOf(b, disk.record[b], o, vote) = IF Stands(b, o, vote) THEN 1 ELSE 0
=============================================================================
