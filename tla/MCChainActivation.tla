------------------------- MODULE MCChainActivation -------------------------
(***************************************************************************)
(* Instances of ChainActivation on trees of five to seven blocks.  Each    *)
(* behaviour is one of one instance, named by part.                        *)
(***************************************************************************)
EXTENDS Naturals, FiniteSets, Sequences

CONSTANTS Absent, t1, t2  \* model values

VARIABLES
  part, known, haveData, processed, linked, nSequenceId, nBlockSequenceId, failedValid,
  failedChild, candidates, unlinked, tip, phase, mostWork, calls, aborted,
  dirty, disk

vars == <<part, known, haveData, processed, linked, nSequenceId, nBlockSequenceId, failedValid,
          failedChild, candidates, unlinked, tip, phase, mostWork, calls, aborted,
          dirty, disk>>

\* 0 <- 1 <- 2 and 0 <- 3 <- 4 <- 5, every block with the same proof
Path == <<<<0, 1>>, <<0, 1, 2>>, <<0, 3>>, <<0, 3, 4>>, <<0, 3, 4, 5>>>>
TreePath == [b \in 0..5 |-> IF b = 0 THEN <<0>> ELSE Path[b]]
TreeWork == [b \in 0..5 |-> Len(TreePath[b])]

\* ...without block 5
SmallPath == [b \in 0..4 |-> TreePath[b]]
SmallWork == [b \in 0..4 |-> TreeWork[b]]

\* 0 <- 1 <- 2 <- 3 and 0 <- 4 <- 5 <- 6, where block 6 has more proof
LongPath == [b \in 0..6 |-> CASE b = 0 -> <<0>> [] b \in 1..3 -> [i \in 1 .. b + 1 |-> i - 1]
                             [] OTHER -> <<0>> \o [i \in 1 .. b - 3 |-> i + 3]]
LongWork == [b \in 0..6 |-> IF b = 6 THEN 5 ELSE Len(LongPath[b])]

\* One thread; block 3 is found invalid when it arrives, block 5 when it is
\* connected.
Node == INSTANCE ChainActivation WITH
  Blocks <- 0..6, Genesis <- 0, Path <- LongPath, Work <- LongWork, Address <- [b \in 0..6 |-> b],
  Checked <- 0..6 \ {3}, Connectable <- 0..6 \ {5}, Refused <- {}, Threads <- {t1}, KeepBlocks <- 1,
  MaxInvalidations <- 0, MaxReconsiderations <- 0,
  MaxPrunings <- 0, MaxWrites <- 0, MaxRestarts <- 0

\* ...with the smaller tree, where block 2 is refused without a verdict, and a restart
Refuse == INSTANCE ChainActivation WITH
  Blocks <- 0..5, Genesis <- 0, Path <- TreePath, Work <- TreeWork, Address <- [b \in 0..5 |-> b],
  Checked <- 0..5, Connectable <- 0..5 \ {2}, Refused <- {2}, Threads <- {t1}, KeepBlocks <- 1,
  MaxInvalidations <- 0, MaxReconsiderations <- 0,
  MaxPrunings <- 0, MaxWrites <- 0, MaxRestarts <- 1

\* ...with pruning
Prune == INSTANCE ChainActivation WITH
  Blocks <- 0..6, Genesis <- 0, Path <- LongPath, Work <- LongWork, Address <- [b \in 0..6 |-> b],
  Checked <- 0..6, Connectable <- 0..6, Refused <- {}, Threads <- {t1}, KeepBlocks <- 1,
  MaxInvalidations <- 0, MaxReconsiderations <- 0,
  MaxPrunings <- 2, MaxWrites <- 1, MaxRestarts <- 0

\* An operator invalidates two blocks.
Operator == INSTANCE ChainActivation WITH
  Blocks <- 0..5, Genesis <- 0, Path <- TreePath, Work <- TreeWork, Address <- [b \in 0..5 |-> b],
  Checked <- 0..5, Connectable <- 0..5 \ {4}, Refused <- {}, Threads <- {t1}, KeepBlocks <- 2,
  MaxInvalidations <- 2, MaxReconsiderations <- 0,
  MaxPrunings <- 0, MaxWrites <- 0, MaxRestarts <- 0

\* ...or one, and reconsiders one
Reconsider == INSTANCE ChainActivation WITH
  Blocks <- 0..5, Genesis <- 0, Path <- TreePath, Work <- TreeWork, Address <- [b \in 0..5 |-> b],
  Checked <- 0..5, Connectable <- 0..5, Refused <- {}, Threads <- {t1}, KeepBlocks <- 2,
  MaxInvalidations <- 1, MaxReconsiderations <- 1,
  MaxPrunings <- 0, MaxWrites <- 0, MaxRestarts <- 0

\* Two threads process blocks; block 4 cannot be connected.
Pair == INSTANCE ChainActivation WITH
  Blocks <- 0..5, Genesis <- 0, Path <- TreePath, Work <- TreeWork, Address <- [b \in 0..5 |-> b],
  Checked <- 0..5, Connectable <- 0..5 \ {4}, Refused <- {}, Threads <- {t1, t2}, KeepBlocks <- 2,
  MaxInvalidations <- 0, MaxReconsiderations <- 0,
  MaxPrunings <- 0, MaxWrites <- 0, MaxRestarts <- 0

\* ...or every block is valid
Race == INSTANCE ChainActivation WITH
  Blocks <- 0..5, Genesis <- 0, Path <- TreePath, Work <- TreeWork, Address <- [b \in 0..5 |-> b],
  Checked <- 0..5, Connectable <- 0..5, Refused <- {}, Threads <- {t1, t2}, KeepBlocks <- 2,
  MaxInvalidations <- 0, MaxReconsiderations <- 0,
  MaxPrunings <- 0, MaxWrites <- 0, MaxRestarts <- 0

\* A node that writes twice and starts again; block 5 cannot be connected, and
\* of two blocks with the same work the later one comes first in memory.
Reload == INSTANCE ChainActivation WITH
  Blocks <- 0..5, Genesis <- 0, Path <- TreePath, Work <- TreeWork, Address <- [b \in 0..5 |-> 5 - b],
  Checked <- 0..5, Connectable <- 0..5 \ {5}, Refused <- {}, Threads <- {t1}, KeepBlocks <- 2,
  MaxInvalidations <- 0, MaxReconsiderations <- 0,
  MaxPrunings <- 0, MaxWrites <- 2, MaxRestarts <- 1

\* ...with pruning
PruneReload == INSTANCE ChainActivation WITH
  Blocks <- 0..5, Genesis <- 0, Path <- TreePath, Work <- TreeWork, Address <- [b \in 0..5 |-> 5 - b],
  Checked <- 0..5, Connectable <- 0..5, Refused <- {}, Threads <- {t1}, KeepBlocks <- 1,
  MaxInvalidations <- 0, MaxReconsiderations <- 0,
  MaxPrunings <- 1, MaxWrites <- 1, MaxRestarts <- 1

\* ...with an operator who invalidates a block
OperatorReload == INSTANCE ChainActivation WITH
  Blocks <- 0..4, Genesis <- 0, Path <- SmallPath, Work <- SmallWork, Address <- [b \in 0..4 |-> 4 - b],
  Checked <- 0..4, Connectable <- 0..4, Refused <- {}, Threads <- {t1}, KeepBlocks <- 2,
  MaxInvalidations <- 1, MaxReconsiderations <- 0,
  MaxPrunings <- 0, MaxWrites <- 1, MaxRestarts <- 1

ASSUME Node!ConstantsAssumption /\ Prune!ConstantsAssumption /\ Operator!ConstantsAssumption
ASSUME Reconsider!ConstantsAssumption /\ Pair!ConstantsAssumption /\ Race!ConstantsAssumption
ASSUME Reload!ConstantsAssumption /\ PruneReload!ConstantsAssumption
ASSUME OperatorReload!ConstantsAssumption /\ Refuse!ConstantsAssumption

Init == \/ part = "node" /\ Node!Init
        \/ part = "refuse" /\ Refuse!Init
        \/ part = "prune" /\ Prune!Init
        \/ part = "operator" /\ Operator!Init
        \/ part = "reconsider" /\ Reconsider!Init
        \/ part = "pair" /\ Pair!Init
        \/ part = "reload" /\ Reload!Init
        \/ part = "pruneReload" /\ PruneReload!Init
        \/ part = "operatorReload" /\ OperatorReload!Init

NodeNext == part = "node" /\ Node!Next /\ UNCHANGED part
RefuseNext == part = "refuse" /\ Refuse!Next /\ UNCHANGED part
PruneNext == part = "prune" /\ Prune!Next /\ UNCHANGED part
OperatorNext == part = "operator" /\ Operator!Next /\ UNCHANGED part
ReconsiderNext == part = "reconsider" /\ Reconsider!Next /\ UNCHANGED part
PairNext == part = "pair" /\ Pair!Next /\ UNCHANGED part
ReloadNext == part = "reload" /\ Reload!Next /\ UNCHANGED part
PruneReloadNext == part = "pruneReload" /\ PruneReload!Next /\ UNCHANGED part
OperatorReloadNext == part = "operatorReload" /\ OperatorReload!Next /\ UNCHANGED part
Next == \/ NodeNext \/ PruneNext \/ OperatorNext \/ ReconsiderNext \/ PairNext
        \/ RefuseNext \/ ReloadNext \/ PruneReloadNext \/ OperatorReloadNext

\* A thread inside ActivateBestChain goes on (ChainActivation!Fairness).
Fairness ==
  /\ WF_vars(part = "node" /\ Node!Run(t1) /\ UNCHANGED part)
  /\ WF_vars(part = "refuse" /\ Refuse!Run(t1) /\ UNCHANGED part)
  /\ \A t \in {t1, t2} : WF_vars(part = "pair" /\ Pair!Run(t) /\ UNCHANGED part)

Spec == Init /\ [][Next]_vars /\ Fairness

RaceInit == part = "race" /\ Race!Init
RaceNext == part = "race" /\ Race!Next /\ UNCHANGED part
RaceSpec == RaceInit /\ [][RaceNext]_vars

-----------------------------------------------------------------------------
(* The index has its type, and each set of flags lies within the next.     *)
TypeOK ==
  /\ part = "node" => Node!TypeOK
  /\ part = "refuse" => Refuse!TypeOK
  /\ part = "prune" => Prune!TypeOK
  /\ part \in {"operator", "reconsider"} => Operator!TypeOK
  /\ part = "pair" => Pair!TypeOK
  /\ part = "reload" => Reload!TypeOK
  /\ part = "pruneReload" => PruneReload!TypeOK
  /\ part = "operatorReload" => OperatorReload!TypeOK

(* setBlockIndexCandidates is what CheckBlockIndex asserts of it, unless   *)
(* ConnectBlock refuses a block without a verdict.                         *)
CandidatesAreRight ==
  /\ part = "node" => Node!CandidatesAreRight
  /\ part = "prune" => Prune!CandidatesAreRight
  /\ part = "operator" => Operator!CandidatesAreRight
  /\ part = "reload" => Reload!CandidatesAreRight
  /\ part = "pruneReload" => PruneReload!CandidatesAreRight
  /\ part = "operatorReload" => OperatorReload!CandidatesAreRight

(* mapBlocksUnlinked is what CheckBlockIndex asserts of it.                *)
UnlinkedAreRight ==
  /\ part = "node" => Node!UnlinkedAreRight
  /\ part = "refuse" => Refuse!UnlinkedAreRight
  /\ part = "prune" => Prune!UnlinkedAreRight
  /\ part = "pair" => Pair!UnlinkedAreRight
  /\ part = "reload" => Reload!UnlinkedAreRight
  /\ part = "operatorReload" => OperatorReload!UnlinkedAreRight

(* A block is marked as failed only if a block up to it is invalid.        *)
FailuresHaveACause ==
  /\ part = "prune" => Prune!FailuresHaveACause
  /\ part = "operator" => Operator!FailuresHaveACause
  /\ part = "reconsider" => Reconsider!FailuresHaveACause
  /\ part = "reload" => Reload!FailuresHaveACause
  /\ part = "operatorReload" => OperatorReload!FailuresHaveACause

(* A block is linked exactly when every block up to it was received.       *)
LinkedWhenComplete ==
  /\ part = "node" => Node!LinkedWhenComplete
  /\ part = "refuse" => Refuse!LinkedWhenComplete
  /\ part = "pair" => Pair!LinkedWhenComplete
  /\ part = "reload" => Reload!LinkedWhenComplete

(* The tip or a block to be reached from it is a candidate (the assertion of  *)
(* PruneBlockIndexCandidates), also after a restart; but see the README for   *)
(* an operator who invalidates the block the chain state on disk is at.       *)
CandidatesRemain ==
  /\ part = "node" => Node!CandidatesRemain
  /\ part = "refuse" => Refuse!CandidatesRemain
  /\ part = "operator" => Operator!CandidatesRemain
  /\ part = "reload" => Reload!CandidatesRemain
  /\ part = "pruneReload" => PruneReload!CandidatesRemain

(* No block of the active chain is marked as failed.                       *)
ActiveChainIsValid ==
  /\ part = "node" => Node!ActiveChainIsValid
  /\ part = "refuse" => Refuse!ActiveChainIsValid
  /\ part = "operator" => Operator!ActiveChainIsValid
  /\ part = "reconsider" => Reconsider!ActiveChainIsValid
  /\ part = "pair" => Pair!ActiveChainIsValid
  /\ part = "reload" => Reload!ActiveChainIsValid
  /\ part = "pruneReload" => PruneReload!ActiveChainIsValid

(* When no call is in progress the active chain is the best one, with one  *)
(* thread, or ends below a block of the best one that is refused without a *)
(* verdict (ActivateBestChain: "either failure or an activated best        *)
(* chain").                                                                *)
BestChainIsActive ==
  /\ part = "node" => Node!BestChainIsActive
  /\ part = "refuse" => Refuse!BestChainIsActive
  /\ part = "prune" => Prune!BestChainIsActive
  /\ part = "operator" => Operator!BestChainIsActive
  /\ part = "reload" => Reload!BestChainIsActive
  /\ part = "pruneReload" => PruneReload!BestChainIsActive
  /\ part = "operatorReload" => OperatorReload!BestChainIsActive
  /\ part = "race" => Race!BestChainIsActive

(* Every call of ActivateBestChain returns.                                *)
ActivationReturns ==
  \A t \in {t1, t2} :
    (part \in {"node", "refuse", "pair"} /\ t \in DOMAIN phase /\ phase[t] # "idle") ~>
      (t \in DOMAIN phase /\ (phase[t] = "idle" \/ aborted))

-----------------------------------------------------------------------------
(* The index of blocks is what CheckBlockIndex asserts of it: candidates,  *)
(* blocks that wait for an ancestor, links and marks of failure; whatever  *)
(* was written when the node stopped.  (Not the candidates where a block   *)
(* is refused without a verdict.)                                          *)
IndexIsRight ==
  /\ TypeOK /\ CandidatesAreRight /\ UnlinkedAreRight
  /\ FailuresHaveACause /\ LinkedWhenComplete /\ CandidatesRemain
=============================================================================
