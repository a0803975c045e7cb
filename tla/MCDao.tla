------------------------------- MODULE MCDao --------------------------------
(***************************************************************************)
(* Small instances of what stakers decide: their votes and consultations.  *)
(* A behaviour is one of one instance, named by part; the variables of the *)
(* others are Absent.                                                      *)
(***************************************************************************)
EXTENDS Integers, FiniteSets, Sequences, TLC

CONSTANTS Absent, alice, bob, prop, supp, c1, c2, a1, a2  \* model values

VARIABLES
  part,
  chain, lists, record, valid, dirty, flushing, disk, seen,
  dao, undone

votesVars == <<lists, record, valid, dirty, flushing, disk, seen>>
vars == <<part, chain, votesVars, dao, undone>>

-----------------------------------------------------------------------------
Coinbase(v, o, vote) == [voter |-> v, object |-> o, vote |-> vote, coinbase |-> TRUE]
VoteTx(v, o, vote) == [voter |-> v, object |-> o, vote |-> vote, coinbase |-> FALSE]
Staked(v, votes, open) ==
  [stake |-> TRUE, staker |-> v, odd |-> FALSE, coldv2 |-> FALSE, open |-> open, votes |-> votes]
Mined(votes, open) ==
  [stake |-> FALSE, staker |-> Absent, odd |-> FALSE, coldv2 |-> FALSE, open |-> open, votes |-> votes]

Both == {prop, c1}
ListKind == (prop :> "proposal") @@ (c1 :> "consultation")
ListContents ==
  {Staked(alice, <<Coinbase(alice, prop, "yes"), VoteTx(bob, prop, "yes"), VoteTx(bob, prop, "no")>>, Both),
   Staked(alice, <<VoteTx(alice, prop, "no"), VoteTx(alice, c1, "remove"), VoteTx(alice, c1, "yes")>>, Both),
   [Staked(bob, <<Coinbase(bob, prop, "no"), VoteTx(bob, prop, "remove")>>, Both) EXCEPT !.coldv2 = TRUE],
   [Staked(alice, <<Coinbase(alice, prop, "remove")>>, Both) EXCEPT !.odd = TRUE],
   Staked(bob, <<>>, {c1}),
   Mined(<<Coinbase(Absent, prop, "abstain"), Coinbase(Absent, prop, "no")>>, Both)}

\* Votes of two stakers for a proposal and a consultation.
Lists == INSTANCE StakerVotes WITH
  Voters <- {alice, bob}, Objects <- Both, Kind <- ListKind, HashOrder <- <<prop, c1>>,
  MaxAnswers <- 1, Contents <- ListContents, MaxBlocks <- 3, MaxHeight <- 3, MaxAppends <- 2

AnswerKind == (a1 :> "answer") @@ (a2 :> "answer") @@ (supp :> "support")
AnswerContents ==
  {Staked(alice, <<VoteTx(alice, a1, "yes"), VoteTx(alice, supp, "support")>>, {a1, a2, supp}),
   Staked(alice, <<VoteTx(alice, a2, "yes"), VoteTx(alice, a1, "remove")>>, {a1, a2}),
   Staked(bob, <<VoteTx(alice, a2, "yes"), VoteTx(alice, supp, "supportRemove")>>, {a1, a2, supp}),
   Staked(alice, <<>>, {a1, a2, supp})}

\* Votes for answers over the limit of their consultation, and supports.
Limits == INSTANCE StakerVotes WITH
  Voters <- {alice, bob}, Objects <- {a1, a2, supp}, Kind <- AnswerKind,
  HashOrder <- <<a1, supp, a2>>, MaxAnswers <- 1, Contents <- AnswerContents, MaxBlocks <- 3,
  MaxHeight <- 3, MaxAppends <- 2

-----------------------------------------------------------------------------
Params(cycleLength, minCycles, maxSupport, reflection, maxVoting) ==
  ("cycleLength" :> cycleLength) @@ ("minCycles" :> minCycles) @@ ("maxSupport" :> maxSupport)
    @@ ("reflection" :> reflection) @@ ("maxVoting" :> maxVoting)
Block(create, support, votes, odd) ==
  [create |-> create, support |-> support, votes |-> votes, odd |-> odd]
AnswersOf1 == (a1 :> c1) @@ (a2 :> c1)
Values == (a1 :> 2) @@ (a2 :> 3)

PhaseAbout == (c1 :> "maxVoting") @@ (c2 :> Absent)
PhaseDefault == Params(2, 1, 2, 1, 1)
PhaseContents ==
  {Block(Absent, {}, {}, FALSE), Block(c1, {a1}, {}, FALSE), Block(c2, {}, {}, FALSE),
   Block(a2, {}, {}, FALSE), Block(Absent, {a1, a2, c2}, {}, FALSE),
   Block(Absent, {}, {a1}, FALSE), Block(Absent, {}, {a2}, FALSE)}

\* A consultation about the length of votings with a first and a later answer,
\* and a range consultation.
Phases == INSTANCE Consultations WITH
  Consults <- {c1, c2}, Answers <- {a1, a2}, Parent <- AnswersOf1, Ranged <- {c2},
  About <- PhaseAbout, Value <- Values, Initial <- {a1}, HashOrder <- <<a1, a2>>,
  Default <- PhaseDefault, MinSupport <- 2500, AnswerMinSupport <- 5000, ChangeMinAccept <- 7500,
  Contents <- PhaseContents, MaxHeight <- 11, MaxExcluded <- 0

OddAbout == (c1 :> "maxSupport") @@ (c2 :> Absent)
OddDefault == Params(3, 1, 4, 1, 1)
OddContents ==
  {Block(c1, {a1, a2}, {}, FALSE), Block(Absent, {}, {}, FALSE),
   Block(Absent, {}, {}, TRUE), Block(Absent, {}, {a1}, FALSE),
   Block(Absent, {}, {a1, a2}, FALSE), Block(Absent, {}, {a2}, TRUE)}

\* Two answers voted at the same time, some of the blocks excluded.
Odd == INSTANCE Consultations WITH
  Consults <- {c1, c2}, Answers <- {a1, a2}, Parent <- AnswersOf1, Ranged <- {c2},
  About <- OddAbout, Value <- Values, Initial <- {a1, a2}, HashOrder <- <<a1, a2>>,
  Default <- OddDefault, MinSupport <- 2500, AnswerMinSupport <- 3000, ChangeMinAccept <- 7500,
  Contents <- OddContents, MaxHeight <- 12, MaxExcluded <- 2

ASSUME Lists!ConstantsAssumption /\ Limits!ConstantsAssumption
ASSUME Phases!ConstantsAssumption /\ Odd!ConstantsAssumption
-----------------------------------------------------------------------------
NoVotes == /\ lists = Absent /\ record = Absent /\ valid = Absent /\ dirty = Absent
           /\ flushing = Absent /\ disk = Absent /\ seen = Absent
NoDao == dao = Absent /\ undone = Absent

Init ==
  \/ part = "lists" /\ Lists!Init /\ NoDao
  \/ part = "limits" /\ Limits!Init /\ NoDao
  \/ part = "phases" /\ Phases!Init /\ NoVotes
  \/ part = "odd" /\ Odd!Init /\ NoVotes

ListsNext == part = "lists" /\ Lists!Next /\ UNCHANGED <<part, dao, undone>>
LimitsNext == part = "limits" /\ Limits!Next /\ UNCHANGED <<part, dao, undone>>
PhasesNext == part = "phases" /\ Phases!Next /\ UNCHANGED <<part, votesVars>>
OddNext == part = "odd" /\ Odd!Next /\ UNCHANGED <<part, votesVars>>
Next == ListsNext \/ LimitsNext \/ PhasesNext \/ OddNext

Spec == Init /\ [][Next]_vars

-----------------------------------------------------------------------------
(* Records belong to known blocks, objects have states only at blocks of   *)
(* the chain and no count is negative.                                     *)
TypeOK ==
  /\ part = "lists" => Lists!TypeOK
  /\ part = "phases" => Phases!TypeOK
  /\ part = "odd" => Odd!TypeOK

(* The list of a voter says what the voter last said on the active chain.  *)
ListsFollowChain ==
  /\ part = "lists" => Lists!ListsFollowChain
  /\ part = "limits" => Limits!ListsFollowChain

(* VoteStep counts for each block of the active chain what its staker says *)
(* on that chain, once.                                                    *)
CountsFollowChain ==
  /\ part = "lists" => Lists!CountsFollowChain
  /\ part = "limits" => Limits!CountsFollowChain

(* The blocks of the chain on disk have their votes in the index on disk.  *)
DiskRecordsSuffice == part = "lists" => Lists!DiskRecordsSuffice

(* Consultations and parameters are those of a node that only ever saw the *)
(* active chain.                                                           *)
FollowsChain ==
  /\ part = "phases" => Phases!FollowsChain
  /\ part = "odd" => Odd!FollowsChain

(* No phase of a consultation lasts longer than its parameter says.        *)
PhasesEnd == part = "phases" => Phases!PhasesEnd

(* A parameter changes exactly when an answer about it passes.             *)
ChangesHaveAnswers ==
  /\ part = "phases" => Phases!ChangesHaveAnswers
  /\ part = "odd" => Odd!ChangesHaveAnswers

(* An answer passes only at the end of a cycle in which it could be voted, *)
(* while cycles have one length and no block is excluded.                  *)
PassedWereVoted == [][part = "phases" => Phases!PassedWereVoted]_vars

-----------------------------------------------------------------------------
(* The lists of stakers, and what VoteStep counts of them, depend on the   *)
(* active chain alone, and the disk has what it takes to work them out     *)
(* again.                                                                  *)
VotesFollowChain == ListsFollowChain /\ CountsFollowChain /\ DiskRecordsSuffice

(* Consultations, answers and parameters depend on the active chain alone, *)
(* and every change of a parameter has an answer that passed.              *)
ConsultationsFollowChain == TypeOK /\ FollowsChain /\ ChangesHaveAnswers
=============================================================================
