---------------------------- MODULE Consultations ---------------------------
(***************************************************************************)
(* Consultations of the DAO: they gather support, go through a reflection  *)
(* phase and are voted on; consultations about a consensus parameter set   *)
(* it when an answer passes.  Each block is one step: its transactions and *)
(* votes in ConnectBlock and then VoteStep, or the undoing of both.        *)
(*                                                                         *)
(* A block holds what its record says after ConnectBlock: the objects it   *)
(* supports and the answers it votes for (see StakerVotes).  The votes a   *)
(* range consultation and abstentions collect in mapVotes decide nothing   *)
(* and are left out.  Block 0 is the genesis block.                        *)
(***************************************************************************)
EXTENDS Integers, FiniteSets, FiniteSetsExt, Sequences, SequencesExt

CONSTANTS
  Absent,
  Consults, Answers,
  Parent,        \* of each answer
  Ranged,        \* consultations with ANSWER_IS_A_RANGE_VERSION
  About,         \* of each consultation: its consensus parameter or Absent
  Value,         \* of each answer to such a consultation: the proposed value
  Initial,       \* answers created with their consultation
  HashOrder,     \* the answers in the order of their hashes
  Default,       \* the consensus parameters of chainparams.cpp
  MinSupport, AnswerMinSupport, ChangeMinAccept,  \* parts of 10000
  Contents,      \* supports and votes of blocks, and whether nNonce excludes them
  MaxHeight, MaxExcluded  \* bounds

Params == {"cycleLength", "minCycles", "maxSupport", "reflection", "maxVoting"}

ConstantsAssumption ==
  /\ Parent \in [Answers -> Consults \ Ranged] /\ Ranged \subseteq Consults
  /\ About \in [Consults -> Params \cup {Absent}]
  /\ \A c \in Ranged : About[c] = Absent
  /\ \A a \in Answers : About[Parent[a]] # Absent => Value[a] \in Nat \ {0}
  /\ Initial \subseteq Answers
  /\ Range(HashOrder) = Answers /\ Len(HashOrder) = Cardinality(Answers)
  /\ Default \in [Params -> Nat] /\ Default["cycleLength"] > 0

States == {"NIL", "SUPPORTED", "REFLECTION", "ACCEPTED", "PASSED", "EXPIRED"}

VARIABLES
  chain,   \* blocks 1 .. of the active chain
  dao,     \* the objects, parameters and counts, see InitDao
  undone   \* observed: the last step disconnected a block

vars == <<chain, dao, undone>>

\* Heights with what was set there, in the order of the chain: mapState of an
\* object and the list of a consensus parameter.
Put(log, n, x) ==
  Append(IF log # <<>> /\ Last(log).at = n THEN Front(log) ELSE log, [at |-> n, is |-> x])
ClearAt(log, n) == SelectSeq(log, LAMBDA e : e.at # n)
At(log, h) == {e.is : e \in {x \in Range(log) : x.at = h}}

Objects == Consults \cup Answers
NoObject == [created |-> Absent, mapState |-> <<>>, cycle |-> 0, nSupport |-> 0, nVotes |-> 0]

-----------------------------------------------------------------------------
(* Reading the objects                                                     *)

GetLastState(o) == IF o.mapState = <<>> THEN "NIL" ELSE Last(o.mapState).is

\* 0 stands for no block
LastHeightOf(o, s) == Max({0} \cup {e.at : e \in {x \in Range(o.mapState) : x.is = s}})

IsFinished(o) == GetLastState(o) \in {"EXPIRED", "PASSED"}

Get(list) ==
  [p \in Params |-> IF list[p] = <<>> THEN Default[p] ELSE Last(list[p]).is]

P(d) == Get(d.list)
Cycle(d, h) == h \div P(d)["cycleLength"]

AnswerSupported(d, a) ==
  d.obj[a].nSupport * 10000 >= P(d)["cycleLength"] * AnswerMinSupport

HaveEnoughAnswers(d, c) ==
  \/ c \in Ranged
  \/ Cardinality({a \in Answers : /\ Parent[a] = c /\ d.obj[a].created # Absent
                                  /\ AnswerSupported(d, a)})
       >= IF About[c] # Absent THEN 1 ELSE 2

IsSupported(d, c) ==
  IF c \in Ranged THEN d.obj[c].nSupport * 10000 > P(d)["cycleLength"] * MinSupport
  ELSE HaveEnoughAnswers(d, c)

IsConsensusAccepted(d, a) ==
  d.obj[a].nVotes * 10000 >= (P(d)["cycleLength"] - d.exclude) * ChangeMinAccept

\* Mutant of IsExpired: the support phase has no end.
IsExpired_Support(d, c, n) ==
  LET o == d.obj[c] IN
  IF GetLastState(o) = "ACCEPTED"
  THEN Cycle(d, n) - Cycle(d, LastHeightOf(o, "ACCEPTED")) >= P(d)["maxVoting"]
  ELSE GetLastState(o) = "EXPIRED"

IsExpired(d, c, n) ==
  LET o == d.obj[c] IN
  IF GetLastState(o) = "ACCEPTED"
  THEN Cycle(d, n) - Cycle(d, LastHeightOf(o, "ACCEPTED")) >= P(d)["maxVoting"]
  ELSE \/ GetLastState(o) = "EXPIRED"
       \/ o.cycle >= P(d)["maxSupport"] /\ GetLastState(o) = "NIL"

IsReflectionOver(d, c, n) ==
  LET at == LastHeightOf(d.obj[c], "REFLECTION")
  IN at # 0 /\ Cycle(d, n) - Cycle(d, at) >= P(d)["reflection"]

CanBeSupported(d, o) ==
  IF o \in Consults
  THEN o \in Ranged /\ GetLastState(d.obj[o]) = "NIL"
  ELSE /\ GetLastState(d.obj[Parent[o]]) \in {"NIL", "SUPPORTED"}
       /\ GetLastState(d.obj[o]) = "NIL"

\* Mutant of CanBeVoted: any answer of a consultation in the voting phase.
CanBeVoted_Any(d, a) == GetLastState(d.obj[Parent[a]]) = "ACCEPTED"

CanBeVoted(d, a) ==
  /\ GetLastState(d.obj[a]) = "ACCEPTED"
  /\ GetLastState(d.obj[Parent[a]]) = "ACCEPTED"

Known(d, o) == d.obj[o].created # Absent

\* The objects of set after F.
Update(d, set, F(_, _)) == FoldSet(LAMBDA o, acc : [acc EXCEPT !.obj[o] = F(o, @)], d, set)

-----------------------------------------------------------------------------
(* ConnectBlock: new objects, and what the record of the block may hold    *)

ActiveAbout(d, p) == \E c \in Consults : Known(d, c) /\ About[c] = p /\ ~IsFinished(d.obj[c])

IsValidConsensusParameterProposal(d, p, v) ==
  /\ v # P(d)[p]
  /\ p = "minCycles" => v <= P(d)["maxSupport"] /\ ~ActiveAbout(d, "maxSupport")
  /\ p = "maxSupport" => v >= P(d)["minCycles"] /\ ~ActiveAbout(d, "minCycles")

\* IsValidConsultation and IsValidConsultationAnswer; a block with an answer to
\* a consultation that takes none adds nothing.
MayCreate(d, o) ==
  /\ ~Known(d, o)
  /\ IF o \in Consults
     THEN About[o] # Absent =>
            /\ ~ActiveAbout(d, About[o])
            /\ \A a \in Initial : Parent[a] = o =>
                 IsValidConsensusParameterProposal(d, About[o], Value[a])
     ELSE /\ o \notin Initial
          /\ Known(d, Parent[o])
          /\ GetLastState(d.obj[Parent[o]]) \in {"NIL", "SUPPORTED"}
          /\ About[Parent[o]] # Absent =>
               IsValidConsensusParameterProposal(d, About[Parent[o]], Value[o])

CreatedWith(o) == {o} \cup {a \in Initial : Parent[a] = o}

Create(d, o, n) ==
  IF o = Absent THEN d
  ELSE Update(d, CreatedWith(o), LAMBDA x, obj : [NoObject EXCEPT !.created = n])

Recorded(d, content) ==
  [content EXCEPT !.support = {o \in @ : Known(d, o) /\ CanBeSupported(d, o)},
                  !.votes = {a \in @ : Known(d, a) /\ CanBeVoted(d, a)}]

-----------------------------------------------------------------------------
(* VoteStep                                                                *)

\* Blocks whose votes the caches hold, when VoteStep ends at block n.
Scanned(d, n) == {h \in d.from .. n : h > 0}

Supports(blocks, d, n, o) ==
  Cardinality({h \in Scanned(d, n) : ~blocks[h].odd /\ o \in blocks[h].support})
VotesOf(blocks, d, n, a) ==
  Cardinality({h \in Scanned(d, n) : ~blocks[h].odd /\ a \in blocks[h].votes})

CacheEmpty(blocks, d, n) ==
  \A h \in Scanned(d, n) : blocks[h].odd \/ (blocks[h].support = {} /\ blocks[h].votes = {})

\* The count of votes from the records of the blocks: of the whole cycle, or
\* of the last block on top of what the caches hold.
Scan(blocks, d, n, undo) ==
  LET first == n - (n % P(d)["cycleLength"])
      whole == undo \/ d.last # P(d) \/ first = n \/ CacheEmpty(blocks, d, n - 1)
      seen == [d EXCEPT !.from = IF whole THEN first ELSE @, !.last = P(d)]
  IN [seen EXCEPT !.whole = whole,
                  !.exclude = Cardinality({h \in Scanned(seen, n) : blocks[h].odd})]

\* Objects with a count that still accept it.
Seen(blocks, d, n) ==
  [support |-> {o \in Objects : /\ Known(d, o) /\ CanBeSupported(d, o)
                                /\ Supports(blocks, d, n, o) > 0},
   votes |-> {a \in Answers : /\ Known(d, a) /\ CanBeVoted(d, a)
                              /\ VotesOf(blocks, d, n, a) > 0}]

TakeCounts(blocks, d, n) ==
  LET seen == Seen(blocks, d, n)
      supported == Update(d, seen.support,
                     LAMBDA o, obj : [obj EXCEPT !.nSupport = Supports(blocks, d, n, o)])
  IN Update(supported, seen.votes,
       LAMBDA a, obj : [obj EXCEPT !.nVotes = VotesOf(blocks, d, n, a)])

\* Answers that pass at the end of a cycle, and the values they set: the
\* first in the order of hashes wins.
Passing(d) ==
  {a \in Answers : /\ Known(d, a) /\ Known(d, Parent[a]) /\ About[Parent[a]] # Absent
                   /\ IsConsensusAccepted(d, a) /\ GetLastState(d.obj[a]) # "PASSED"}
Change(d) ==
  [p \in Params |->
     LET for == SelectSeq(HashOrder, LAMBDA a : a \in Passing(d) /\ About[Parent[a]] = p)
     IN IF for = <<>> THEN Absent ELSE Value[for[1]]]

SetState(o, n, s) == [o EXCEPT !.mapState = Put(@, n, s)]

StepAnswers(d, n) ==
  LET supported == {a \in Answers : /\ Known(d, a) /\ AnswerSupported(d, a)
                                    /\ GetLastState(d.obj[a]) = "NIL"}
  IN Update(Update(d, supported, LAMBDA a, obj : SetState(obj, n, "ACCEPTED")),
            Passing(d), LAMBDA a, obj : SetState(obj, n, "PASSED"))

\* The next state of a consultation at the end of a cycle, or Absent.
NextState(d, c, n, change) ==
  LET old == GetLastState(d.obj[c]) IN
  IF IsExpired(d, c, n) THEN IF old # "EXPIRED" THEN "EXPIRED" ELSE Absent
  ELSE IF old = "ACCEPTED" THEN IF About[c] # Absent /\ change[About[c]] # Absent
                                THEN "PASSED" ELSE Absent
  ELSE IF ~IsSupported(d, c) THEN Absent
  ELSE IF old = "NIL" THEN "SUPPORTED"
  ELSE IF old = "SUPPORTED" /\ d.obj[c].cycle >= P(d)["minCycles"] THEN "REFLECTION"
  ELSE IF old = "REFLECTION" /\ IsReflectionOver(d, c, n) THEN "ACCEPTED"
  ELSE Absent

VotingCycle(d, c, n) ==
  LET elapsed == Cycle(d, n) - Cycle(d, d.obj[c].created)
  IN Min({elapsed, P(d)["maxVoting"] + 1})

CountCycles(d, n) ==
  Update(d, {c \in Consults : Known(d, c) /\ ~IsFinished(d.obj[c])},
         LAMBDA c, obj : [obj EXCEPT !.cycle = VotingCycle(d, c, n)])

StepConsults(d, n, change) ==
  Update(CountCycles(d, n), {c \in Consults : Known(d, c) /\ NextState(d, c, n, change) # Absent},
         LAMBDA c, obj : SetState(obj, n, NextState(d, c, n, change)))

\* Counts of objects without a vote start again, when the whole cycle was scanned.
Reset(d, seen) ==
  LET unsupported == {o \in Objects : /\ Known(d, o) /\ CanBeSupported(d, o)
                                      /\ o \notin seen.support /\ o \notin seen.votes}
      unvoted == {a \in Answers : /\ Known(d, a) /\ a \notin seen.votes
                                  /\ GetLastState(d.obj[Parent[a]]) = "ACCEPTED"}
  IN IF ~d.whole THEN d
     ELSE Update(Update(d, unsupported, LAMBDA o, obj : [obj EXCEPT !.nSupport = 0]),
                 unvoted, LAMBDA a, obj : [obj EXCEPT !.nVotes = 0])

\* VoteStep after the connection of block n.
VoteStep(blocks, d, n) ==
  LET scanned == Scan(blocks, d, n, FALSE)
      seen == Seen(blocks, scanned, n)
      counted == TakeCounts(blocks, scanned, n)
      change == Change(counted)
      ended == StepConsults(StepAnswers(counted, n), n, change)
      Set(p, acc) == [acc EXCEPT !.list[p] = Put(@, n, change[p])]
  IN IF (n + 1) % P(d)["cycleLength"] = 0
     THEN FoldSet(Set, Reset(ended, seen), {p \in Params : change[p] # Absent})
     ELSE Reset(CountCycles(counted, n), seen)

Less(k) == IF k = 0 THEN 0 ELSE k - 1

\* Mutant of Disconnected: the parameters stay.
Disconnected_Params(d, b, n) ==
  LET supported == Update(d, b.support, LAMBDA o, obj : [obj EXCEPT !.nSupport = Less(@)])
      voted == Update(supported, b.votes, LAMBDA a, obj : [obj EXCEPT !.nVotes = @ - 1])
  IN Update(voted, CreatedWith(b.create) \ {Absent}, LAMBDA o, obj : NoObject)

\* DisconnectBlock: the objects the block created go, its votes are taken
\* off the counts, and the parameters it set are cleared.  The maximum of 0 and
\* nVotes - 1 is taken in uint64_t and bounds nothing.
Disconnected(d, b, n) ==
  LET supported == Update(d, b.support, LAMBDA o, obj : [obj EXCEPT !.nSupport = Less(@)])
      voted == Update(supported, b.votes, LAMBDA a, obj : [obj EXCEPT !.nVotes = @ - 1])
      removed == Update(voted, CreatedWith(b.create) \ {Absent}, LAMBDA o, obj : NoObject)
  IN FoldSet(LAMBDA p, acc : [acc EXCEPT !.list[p] = ClearAt(@, n)], removed, Params)

ClearState(d, objects, n) ==
  Update(d, objects, LAMBDA o, obj : [obj EXCEPT !.mapState = ClearAt(@, n)])

\* VoteStep with fUndo, for the disconnected block n: an answer or a range
\* consultation is past the state of block n before it takes its count, the
\* consultation of an answer only after that.
UndoStep(blocks, d, n) ==
  LET scanned == ClearState(Scan(blocks, d, n - 1, TRUE), Answers \cup Ranged, n)
      seen == Seen(blocks, scanned, n - 1)
      counted == TakeCounts(blocks, scanned, n - 1)
  IN Reset(CountCycles(ClearState(counted, Consults, n), n - 1), seen)

-----------------------------------------------------------------------------
InitDao ==
  [obj |-> [o \in Objects |-> NoObject],
   list |-> [p \in Params |-> <<>>], exclude |-> 0,
   from |-> 0, last |-> Default, whole |-> TRUE]

Init == chain = <<>> /\ dao = InitDao /\ undone = FALSE

\* The objects after block b is connected over blocks, whose state is d.
After(blocks, d, b) ==
  LET n == Len(blocks) + 1 IN VoteStep(Append(blocks, b), Create(d, b.create, n), n)

ConnectBlock(content) ==
  LET n == Len(chain) + 1
      b == Recorded(Create(dao, content.create, n), content)
  IN /\ n <= MaxHeight
     /\ b.odd => Cardinality({h \in 1 .. n - 1 : chain[h].odd}) < MaxExcluded
     /\ content.create # Absent => MayCreate(dao, content.create)
     /\ chain' = Append(chain, b)
     /\ dao' = After(chain, dao, b)
     /\ undone' = FALSE

\* DisconnectTip: DisconnectBlock and VoteStep.
DisconnectBlock ==
  /\ chain # <<>>
  /\ LET n == Len(chain)
     IN dao' = UndoStep(Front(chain), Disconnected(dao, Last(chain), n), n)
  /\ chain' = Front(chain)
  /\ undone' = TRUE

Next == (\E content \in Contents : ConnectBlock(content)) \/ DisconnectBlock

Spec == Init /\ [][Next]_vars

-----------------------------------------------------------------------------
(* Properties                                                              *)

(* Objects have states only at blocks of the chain after their creation,   *)
(* and parameters are set only there.  No count of votes is left negative  *)
(* by the subtraction of DisconnectBlock.                                  *)
TypeOK ==
  /\ \A c \in Consults : \A e \in Range(dao.obj[c].mapState) :
       /\ dao.obj[c].created \in 1 .. e.at
       /\ e.at <= Len(chain) /\ e.is \in States
  /\ \A a \in Answers :
       /\ dao.obj[a].nVotes >= 0 /\ dao.obj[a].nSupport >= 0
       /\ Known(dao, a) => dao.obj[a].created \in dao.obj[Parent[a]].created .. Len(chain)
       /\ \A e \in Range(dao.obj[a].mapState) :
            /\ dao.obj[a].created \in 1 .. e.at
            /\ e.at <= Len(chain) /\ e.is \in {"ACCEPTED", "PASSED"}
  /\ \A p \in Params : \A e \in Range(dao.list[p]) : e.at \in 1 .. Len(chain)

\* The part of the state the consensus depends on, once block n is connected.
Decisions(d) == [obj |-> d.obj, list |-> d.list, exclude |-> d.exclude]

Replay(blocks) ==
  FoldLeft(LAMBDA acc, b : [blocks |-> Append(acc.blocks, b), dao |-> After(acc.blocks, acc.dao, b)],
           [blocks |-> <<>>, dao |-> InitDao], blocks).dao

(* States and parameters are those of a node that only ever saw the active *)
(* chain, whatever was connected and disconnected before; and so are the   *)
(* counts once a block is connected: what VoteStep with fUndo and          *)
(* DisconnectBlock leave behind, the next block puts right.                *)
FollowsChain ==
  LET fresh == Replay(chain) IN
  /\ dao.list = fresh.list
  /\ \A o \in Objects : dao.obj[o].mapState = fresh.obj[o].mapState
  /\ ~undone => Decisions(dao) = Decisions(fresh)

(* No phase lasts longer than its parameter says: support ends after       *)
(* maxSupport cycles, reflection after its length, voting after maxVoting  *)
(* cycles (ExceededMaxVotingCycles, IsReflectionOver, IsExpired).          *)
PhasesEnd ==
  \A c \in Consults :
    LET o == dao.obj[c]
        n == Len(chain)
        Lasts(h) == Cycle(dao, n + 1) - Cycle(dao, h)
    IN Known(dao, c) =>
         CASE GetLastState(o) = "NIL" -> Lasts(o.created) <= P(dao)["maxSupport"]
           [] GetLastState(o) = "REFLECTION" ->
                Lasts(LastHeightOf(o, "REFLECTION")) <= P(dao)["reflection"]
           [] GetLastState(o) = "ACCEPTED" ->
                Lasts(LastHeightOf(o, "ACCEPTED")) <= P(dao)["maxVoting"]
           [] OTHER -> TRUE

(* An answer passes only at the end of a cycle during which it could be    *)
(* voted: it had been accepted, and its consultation was in its voting     *)
(* phase, when the cycle ended.  This is checked for cycles of one length  *)
(* without excluded blocks; otherwise it does not hold.                    *)
PassedWereVoted ==
  \A a \in Answers :
    Len(chain') > Len(chain) /\ "PASSED" \in At(dao'.obj[a].mapState, Len(chain'))
    => /\ GetLastState(dao.obj[a]) = "ACCEPTED"
       /\ GetLastState(dao.obj[Parent[a]]) = "ACCEPTED"

(* A parameter is changed exactly when an answer about it passes, to the   *)
(* value of that answer; a consultation passes only with such a change.    *)
ChangesHaveAnswers ==
  \A p \in Params, h \in 1 .. Len(chain) :
    LET passed == {a \in Answers : About[Parent[a]] = p /\ "PASSED" \in At(dao.obj[a].mapState, h)}
    IN /\ At(dao.list[p], h) = {} <=> passed = {}
       /\ At(dao.list[p], h) \subseteq {Value[a] : a \in passed}
       /\ \A c \in Consults : About[c] = p /\ "PASSED" \in At(dao.obj[c].mapState, h)
                                => \E a \in passed : Parent[a] = c
=============================================================================
