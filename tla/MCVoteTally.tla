---------------------------- MODULE MCVoteTally -----------------------------
(***************************************************************************)
(* Small instances of VoteTally.  A behaviour is one of one instance,      *)
(* named by part.                                                          *)
(***************************************************************************)
EXTENDS Integers, Sequences, FiniteSets, TLC

VARIABLES part, chain, view, cache, event

vars == <<part, chain, view, cache, event>>

-----------------------------------------------------------------------------
\* A block votes for one object, or for none.
Votes(items, cast) ==
  {[j \in items |-> "none"]}
    \cup {[j \in items |-> IF j = c[1] THEN c[2] ELSE "none"] : c \in cast}
Abstentions == Votes({1, 2}, {<<1, "yes">>, <<1, "abs">>, <<2, "abs">>})
Disputed == Votes({1, 2}, {<<1, "yes">>, <<1, "no">>, <<2, "yes">>})
Single == Votes({1}, {<<1, "yes">>, <<1, "abs">>})

\* Two objects, votes in favour and abstentions.
Count == INSTANCE VoteTally WITH
  Items <- {1, 2}, BlockVotes <- Abstentions,
  Lengths <- {}, FirstLength <- 3, MinQuorum <- 5000, MinShare <- 7000, MaxCycles <- 1,
  Levels <- {4}, Exclusions <- {FALSE}, MaxHeight <- 5

\* Two objects, votes in favour and against, and blocks excluded from the vote.
Exclude == INSTANCE VoteTally WITH
  Items <- {1, 2}, BlockVotes <- Disputed,
  Lengths <- {}, FirstLength <- 3, MinQuorum <- 5000, MinShare <- 7000, MaxCycles <- 1,
  Levels <- {4}, Exclusions <- {TRUE, FALSE}, MaxHeight <- 4

\* Consultations that change the length of the cycle to one shorter or longer.
Length == INSTANCE VoteTally WITH
  Items <- {1}, BlockVotes <- Single,
  Lengths <- {2, 4}, FirstLength <- 3, MinQuorum <- 5000, MinShare <- 7000, MaxCycles <- 1,
  Levels <- {4}, Exclusions <- {TRUE, FALSE}, MaxHeight <- 4

\* A cycle of five blocks cut to three while it runs.
Shorter == INSTANCE VoteTally WITH
  Items <- {1}, BlockVotes <- Single,
  Lengths <- {3}, FirstLength <- 5, MinQuorum <- 5000, MinShare <- 7000, MaxCycles <- 1,
  Levels <- {4}, Exclusions <- {FALSE}, MaxHeight <- 5

ASSUME Count!ConstantsAssumption /\ Exclude!ConstantsAssumption
ASSUME Length!ConstantsAssumption /\ Shorter!ConstantsAssumption
-----------------------------------------------------------------------------
Init ==
  \/ part = "count" /\ Count!Init
  \/ part = "exclude" /\ Exclude!Init
  \/ part = "length" /\ Length!Init

CountNext == part = "count" /\ Count!Next /\ UNCHANGED part
ExcludeNext == part = "exclude" /\ Exclude!Next /\ UNCHANGED part
LengthNext == part = "length" /\ Length!Next /\ UNCHANGED part
Next == CountNext \/ ExcludeNext \/ LengthNext

Spec == Init /\ [][Next]_vars

ShorterSpec == part = "shorter" /\ Shorter!Init /\ [][Shorter!Next /\ UNCHANGED part]_vars

-----------------------------------------------------------------------------
(* No count is ever negative, whatever DisconnectBlock takes off it.       *)
TypeOK == part = "length" => Length!TypeOK

(* After a block connects an open object has the votes of the running      *)
(* cycle, whatever was undone, restarted, verified or made longer before.  *)
CountsAreOfTheCycle ==
  /\ part = "count" => Count!CountsAreOfTheCycle
  /\ part = "exclude" => Exclude!CountsAreOfTheCycle
  /\ part = "length" => Length!CountsAreOfTheCycle

(* The counts a decided object keeps are those of the cycle it closed.     *)
DecisionsAreOfTheCycle == part = "count" => Count!DecisionsAreOfTheCycle

(* Objects, decisions, cycles and votes in favour and against depend on    *)
(* the chain alone, not on how VoteStep came to count it.                  *)
NodesAgree ==
  /\ part = "count" => Count!NodesAgree
  /\ part = "shorter" => Shorter!NodesAgree

(* Without abstentions the DAO state hash depends on the chain alone.      *)
StateHashesAgree == part = "exclude" => Exclude!StateHashesAgree

(* Without abstentions VerifyDB finds the state hash it left.              *)
VerifyFindsNothing == part = "exclude" => Exclude!VerifyFindsNothing

-----------------------------------------------------------------------------
(* The counts of open objects are those of the running cycle, and decided  *)
(* objects keep those of the cycle they closed.                            *)
CountsAreRight == TypeOK /\ CountsAreOfTheCycle /\ DecisionsAreOfTheCycle

(* Nodes with the same chain have the same state hash, also after each     *)
(* verified its database.                                                  *)
HashesAgree == StateHashesAgree /\ VerifyFindsNothing
=============================================================================
