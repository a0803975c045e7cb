------------------------------- MODULE MCFunds ------------------------------
(***************************************************************************)
(* Small instances of CommunityFund: requests that compete for the money   *)
(* of a proposal, proposals that compete for the money of the fund, a      *)
(* super proposal, and two branches.  A behaviour is one of one instance,  *)
(* named by part.                                                          *)
(***************************************************************************)
EXTENDS Integers, Sequences, FiniteSets, TLC

VARIABLES part, chain, txblock, mapState, nVotingCycle, votes, nExclude, pc, todo

fundVars == <<chain, txblock, mapState, nVotingCycle, votes, nExclude, pc, todo>>
vars == <<part, fundVars>>

-----------------------------------------------------------------------------
Half == [k \in {"proposal", "request"} |-> 5000]
Share == [k \in {"proposal", "request"} |-> 7000]
Bits == {"ABSTAIN_VOTE", "EXCLUDE"}
T(y, n) == [yes |-> y, no |-> n, abs |-> 0]

\* Two votes in favour, two against and one alone: with a cycle of two blocks
\* they pass, fail and miss the quorum (unless a block is excluded).
Counts == {T(2, 0), T(0, 2), T(1, 0)}

\* One proposal of 3 and requests of 2, of 1 and of 1: there is money for the
\* last one only if another fails.
Draw == INSTANCE CommunityFund WITH
  Proposals <- {1}, Requests <- {11, 12, 13},
  Amount <- (1 :> 3) @@ (11 :> 2) @@ (12 :> 1) @@ (13 :> 1),
  Parent <- (11 :> 1) @@ (12 :> 1) @@ (13 :> 1), Deadline <- 1 :> 20,
  Version <- [x \in {1, 11, 12, 13} |-> Bits], MaxAmount <- 3,
  CycleLength <- 2, ProposalMaxCycles <- 1, RequestMaxCycles <- 0,
  MinQuorum <- Half, MinAccept <- Share, MinReject <- Share,
  QuorumFirstHalf <- 5000, QuorumSecondHalf <- 4000, MinAge <- 0, Tallies <- Counts,
  Excludes <- {0}, Contributions <- {3}, TimeSteps <- {1}, Forks <- {1},
  MaxHeight <- 8, MaxGiven <- 24

\* Two proposals, of 2 and of 1, that compete for the supply, and a request of
\* the first one.
Two == INSTANCE CommunityFund WITH
  Proposals <- {1, 2}, Requests <- {11}, Amount <- (1 :> 2) @@ (2 :> 1) @@ (11 :> 2),
  Parent <- 11 :> 1, Deadline <- (1 :> 1) @@ (2 :> 3),
  Version <- (1 :> Bits) @@ (2 :> {"REDUCED_QUORUM"}) @@ (11 :> Bits), MaxAmount <- 2,
  CycleLength <- 2, ProposalMaxCycles <- 1, RequestMaxCycles <- 1,
  MinQuorum <- Half, MinAccept <- Share, MinReject <- Share,
  QuorumFirstHalf <- 5000, QuorumSecondHalf <- 4000, MinAge <- 0, Tallies <- Counts,
  Excludes <- {0, 1}, Contributions <- {0, 2}, TimeSteps <- {1}, Forks <- {1},
  MaxHeight <- 6, MaxGiven <- 2

\* A super proposal, which takes nothing from the fund, beside an ordinary one.
Super == INSTANCE CommunityFund WITH
  Proposals <- {1, 2}, Requests <- {11}, Amount <- (1 :> 2) @@ (2 :> 1) @@ (11 :> 2),
  Parent <- 11 :> 1, Deadline <- (1 :> 1) @@ (2 :> 3),
  Version <- (1 :> {"SUPER", "ABSTAIN_VOTE"}) @@ (2 :> Bits) @@ (11 :> Bits), MaxAmount <- 2,
  CycleLength <- 2, ProposalMaxCycles <- 1, RequestMaxCycles <- 1,
  MinQuorum <- Half, MinAccept <- Share, MinReject <- Share,
  QuorumFirstHalf <- 5000, QuorumSecondHalf <- 4000, MinAge <- 0, Tallies <- Counts,
  Excludes <- {0}, Contributions <- {0, 2}, TimeSteps <- {1}, Forks <- {1},
  MaxHeight <- 6, MaxGiven <- 2

\* One proposal and one request of all its money, on two competing branches.
Branches == INSTANCE CommunityFund WITH
  Proposals <- {1}, Requests <- {11}, Amount <- (1 :> 3) @@ (11 :> 3),
  Parent <- 11 :> 1, Deadline <- 1 :> 1, Version <- (1 :> Bits) @@ (11 :> Bits), MaxAmount <- 3,
  CycleLength <- 2, ProposalMaxCycles <- 1, RequestMaxCycles <- 1,
  MinQuorum <- Half, MinAccept <- Share, MinReject <- Share,
  QuorumFirstHalf <- 5000, QuorumSecondHalf <- 4000, MinAge <- 0, Tallies <- Counts,
  Excludes <- {0}, Contributions <- {0, 3}, TimeSteps <- {1}, Forks <- {1, 2},
  MaxHeight <- 6, MaxGiven <- 3

-----------------------------------------------------------------------------
Init ==
  \/ part = "draw" /\ Draw!Init
  \/ part = "two" /\ Two!Init
  \/ part = "super" /\ Super!Init
  \/ part = "branches" /\ Branches!Init

DrawNext == part = "draw" /\ Draw!Next /\ UNCHANGED part
TwoNext == part = "two" /\ Two!Next /\ UNCHANGED part
SuperNext == part = "super" /\ Super!Next /\ UNCHANGED part
BranchesNext == part = "branches" /\ Branches!Next /\ UNCHANGED part
Next == DrawNext \/ TwoNext \/ SuperNext \/ BranchesNext

Spec == Init /\ [][Next]_vars

-----------------------------------------------------------------------------
(* The live requests of a proposal never ask for more than it was granted. *)
NotOverdrawn == part = "draw" => Draw!NotOverdrawn

(* The balance checks before VoteStep accepts a request never stop it.     *)
PendingIsCovered == part = "draw" => Draw!PendingIsCovered

(* Neither balance of the fund is ever negative.                           *)
FundSolvent ==
  /\ part = "two" => Two!FundSolvent
  /\ part = "draw" => Draw!FundSolvent

(* nCFLocked is what accepted proposals, none of them super, may draw.     *)
LockedIsCommitted ==
  /\ part = "two" => Two!LockedIsCommitted
  /\ part = "super" => Super!LockedIsCommitted

(* What the fund holds and what requests of proposals other than super     *)
(* ones drew is what was contributed.                                      *)
FundConserved == part = "super" => Super!FundConserved

(* Every state of an object was given by a block of the active branch.     *)
HistoryOnChain == part = "branches" => Branches!HistoryOnChain

-----------------------------------------------------------------------------
(* The balances of the fund and the states of its objects are right while  *)
(* requests and proposals compete for money, in every instance above.      *)
FundsAreSound ==
  /\ NotOverdrawn /\ PendingIsCovered /\ FundSolvent
  /\ LockedIsCommitted /\ FundConserved /\ HistoryOnChain
=============================================================================
