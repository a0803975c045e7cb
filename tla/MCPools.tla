------------------------------ MODULE MCPools -------------------------------
(***************************************************************************)
(* Small instances of what a node takes from its peers: the memory pool,   *)
(* the transactions that wait for their parents, the download of blocks,   *)
(* and the addresses of other nodes.  A behaviour is one of one instance,  *)
(* named by part; the variables of the others are Absent.                  *)
(***************************************************************************)
EXTENDS Integers, FiniteSets, Sequences, TLC

CONSTANTS
  txA, txB, txC, txD, txR, txS, txCB, base1, base2, peerP, peerQ,
  addr1, addr1b, addr2, addr3, NoPeer, NoBlock, Absent  \* model values

VARIABLES
  part, chain, pool,
  orphans, byPrev, recentRejects, rejectsAreOld, confirmed, blocks, connected,
  node, nPreferredDownload, nSyncStarted, connections,
  addrman, file, calls

orphanVars == <<orphans, byPrev, recentRejects, rejectsAreOld, confirmed, blocks, connected>>
nodeVars == <<node, nPreferredDownload, nSyncStarted, connections>>
addrVars == <<addrman, file, calls>>
vars == <<part, chain, pool, orphanVars, nodeVars, addrVars>>

-----------------------------------------------------------------------------
Coins == {<<base1, 0>>, <<base2, 0>>}

\* B, C and D spend from A, C from B too; R would replace A.
FamilyInputs == (txA :> {<<base1, 0>>}) @@ (txB :> {<<txA, 0>>}) @@ (txC :> {<<txA, 1>>, <<txB, 0>>})
                @@ (txD :> {<<txA, 2>>}) @@ (txR :> {<<base1, 0>>, <<base2, 0>>})
FamilyFee == (txA :> 1) @@ (txB :> 2) @@ (txC :> 1) @@ (txD :> 1) @@ (txR :> 5)

\* A family of transactions, the limits of the pool, and blocks.
Family == INSTANCE Mempool WITH
  Txs <- {txA, txB, txC, txD, txR}, Inputs <- FamilyInputs, Fee <- FamilyFee, Coinbases <- {}, BLS <- {},
  Base <- Coins, Maturity <- 2, LimitAncestors <- 3, LimitDescendants <- 3, MaxPool <- 4,
  Policy <- TRUE, Failures <- FALSE, Deltas <- {}, Nonces <- {0}, MaxHeight <- 2, MaxBlockTxs <- 2,
  MaxDisconnects <- 0

\* The same with priorities set by the operator.
Priority == INSTANCE Mempool WITH
  Txs <- {txA, txB, txC, txR}, Inputs <- [t \in {txA, txB, txC, txR} |-> FamilyInputs[t]],
  Fee <- [t \in {txA, txB, txC, txR} |-> FamilyFee[t]], Coinbases <- {}, BLS <- {},
  Base <- Coins, Maturity <- 2, LimitAncestors <- 3, LimitDescendants <- 3, MaxPool <- 3,
  Policy <- TRUE, Failures <- FALSE, Deltas <- {1, -1}, Nonces <- {0}, MaxHeight <- 2, MaxBlockTxs <- 2,
  MaxDisconnects <- 0

\* Reorganisations under a child and the spender of a coinbase.
ReorgInputs == (txA :> {<<base1, 0>>}) @@ (txB :> {<<txA, 0>>}) @@ (txCB :> {}) @@ (txS :> {<<txCB, 0>>, <<txA, 1>>})
ReorgFee == (txA :> 1) @@ (txB :> 1) @@ (txCB :> 0) @@ (txS :> 1)
Reorg == INSTANCE Mempool WITH
  Txs <- {txA, txB, txCB, txS}, Inputs <- ReorgInputs, Fee <- ReorgFee, Coinbases <- {txCB}, BLS <- {},
  Base <- Coins, Maturity <- 2, LimitAncestors <- 3, LimitDescendants <- 3, MaxPool <- 3,
  Policy <- FALSE, Failures <- FALSE, Deltas <- {}, Nonces <- {0, 1}, MaxHeight <- 3, MaxBlockTxs <- 2,
  MaxDisconnects <- 2

\* ...some of which fail half way
Halted == INSTANCE Mempool WITH
  Txs <- {txA, txB, txCB, txS}, Inputs <- ReorgInputs, Fee <- ReorgFee, Coinbases <- {txCB}, BLS <- {},
  Base <- Coins, Maturity <- 2, LimitAncestors <- 3, LimitDescendants <- 3, MaxPool <- 3,
  Policy <- FALSE, Failures <- TRUE, Deltas <- {}, Nonces <- {0, 1}, MaxHeight <- 2, MaxBlockTxs <- 2,
  MaxDisconnects <- 2

\* Reorganisations, which may fail, under private transactions: B spends from A, R spends what
\* A spends, S spends a coin of its own.
PrivateInputs == (txA :> {<<base1, 0>>}) @@ (txB :> {<<txA, 0>>}) @@ (txR :> {<<base1, 0>>}) @@ (txS :> {<<base2, 0>>})
PrivateFee == (txA :> 1) @@ (txB :> 1) @@ (txR :> 2) @@ (txS :> 1)
Private == INSTANCE Mempool WITH
  Txs <- {txA, txB, txR, txS}, Inputs <- PrivateInputs, Fee <- PrivateFee, Coinbases <- {}, BLS <- {txA, txB, txR},
  Base <- Coins, Maturity <- 2, LimitAncestors <- 3, LimitDescendants <- 3, MaxPool <- 3,
  Policy <- FALSE, Failures <- TRUE, Deltas <- {}, Nonces <- {0, 1}, MaxHeight <- 3, MaxBlockTxs <- 2,
  MaxDisconnects <- 2

\* B spends A twice; C spends B, and S, which is invalid, does too.
WaitingInputs == (txA :> {}) @@ (txB :> {<<txA, 0>>, <<txA, 1>>}) @@ (txC :> {<<txB, 0>>}) @@ (txS :> {<<txB, 1>>})
Waiting == INSTANCE Orphans WITH
  Txs <- {txA, txB, txC, txS}, Inputs <- WaitingInputs, Outputs <- [t \in {txA, txB, txC, txS} |-> 2],
  Unacceptable <- {}, Invalid <- {txS}, Peers <- {peerP, peerQ}, MaxOrphanTx <- 2, MaxBlocks <- 1

\* P has a chain of three blocks; Q has two of them, and may keep them to itself.
Sync == INSTANCE BlockDownload WITH
  Blocks <- 1..3, Genesis <- 0, Parent <- <<0, 1, 2>>, Bad <- {}, Peers <- {peerP, peerQ},
  Has <- [x \in {peerP, peerQ} |-> IF x = peerP THEN 1..3 ELSE 1..2],
  Preferred <- {peerP, peerQ}, Witness <- {peerP, peerQ}, Whitelisted <- {},
  Prompt <- {peerP}, Mutating <- {}, Compact <- {}, Announcing <- {}, MAX_BLOCKS_IN_TRANSIT_PER_PEER <- 2,
  BLOCK_DOWNLOAD_WINDOW <- 1, MIN_BLOCKS_TO_KEEP <- 2, MAX_BLOCKS_TO_ANNOUNCE <- 2, MaxConnections <- 1

\* Both have a chain of two blocks, which are asked for one at a time.
Late == INSTANCE BlockDownload WITH
  Blocks <- 1..2, Genesis <- 0, Parent <- <<0, 1>>, Bad <- {}, Peers <- {peerP, peerQ},
  Has <- [x \in {peerP, peerQ} |-> 1..2], Preferred <- {peerP, peerQ}, Witness <- {peerP, peerQ}, Whitelisted <- {},
  Prompt <- {peerP}, Mutating <- {}, Compact <- {}, Announcing <- {}, MAX_BLOCKS_IN_TRANSIT_PER_PEER <- 1,
  BLOCK_DOWNLOAD_WINDOW <- 1, MIN_BLOCKS_TO_KEEP <- 1, MAX_BLOCKS_TO_ANNOUNCE <- 2, MaxConnections <- 1

\* The peers are on different forks: 1, 2 and 3, 4, where 4 is invalid.
Fork == INSTANCE BlockDownload WITH
  Blocks <- 1..4, Genesis <- 0, Parent <- <<0, 1, 0, 3>>, Bad <- {4}, Peers <- {peerP, peerQ},
  Has <- [x \in {peerP, peerQ} |-> IF x = peerP THEN {1, 2} ELSE {3, 4}], Preferred <- {peerP}, Witness <- {peerP, peerQ},
  Whitelisted <- {}, Prompt <- {peerP}, Mutating <- {peerQ}, Compact <- {}, Announcing <- {},
  MAX_BLOCKS_IN_TRANSIT_PER_PEER <- 1, BLOCK_DOWNLOAD_WINDOW <- 2, MIN_BLOCKS_TO_KEEP <- 1,
  MAX_BLOCKS_TO_ANNOUNCE <- 2, MaxConnections <- 1

\* Two blocks are announced by inv and cmpctblock messages.
Relay == INSTANCE BlockDownload WITH
  Blocks <- 1..2, Genesis <- 0, Parent <- <<0, 1>>, Bad <- {}, Peers <- {peerP, peerQ},
  Has <- [x \in {peerP, peerQ} |-> IF x = peerP THEN 1..2 ELSE {1}], Preferred <- {peerP}, Witness <- {peerP, peerQ},
  Whitelisted <- {peerP}, Prompt <- {}, Mutating <- {peerP, peerQ}, Compact <- {peerP}, Announcing <- {peerP},
  MAX_BLOCKS_IN_TRANSIT_PER_PEER <- 1, BLOCK_DOWNLOAD_WINDOW <- 2, MIN_BLOCKS_TO_KEEP <- 1,
  MAX_BLOCKS_TO_ANNOUNCE <- 2, MaxConnections <- 1

\* Where addresses go in the address manager: what P tells of lies in bucket 1 and what Q
\* tells of in bucket 2, where only addr3 has a position of its own.  addr1b is addr1 with
\* another port.
Addresses == {addr1, addr1b, addr2, addr3}
HostOf == [s \in Addresses |-> IF s = addr1b THEN addr1 ELSE s]
NewBucketOf == [s \in Addresses |-> (peerP :> 1) @@ (peerQ :> 2)]
NewPositionOf == [s \in Addresses |-> [b \in {1, 2} |-> IF s = addr3 /\ b = 2 THEN 2 ELSE 1]]
TriedSlotOf == [s \in Addresses |-> IF s = addr3 THEN 2 ELSE 1]

\* Addresses that meet each other in every bucket...
Known == INSTANCE AddrMan WITH
  Services <- Addresses, Host <- HostOf, Sources <- {peerP, peerQ}, Buckets <- {1, 2}, Positions <- {1, 2},
  NewBucket <- NewBucketOf, NewPosition <- NewPositionOf, TriedSlots <- {1, 2}, TriedSlot <- TriedSlotOf,
  MaxRefs <- 2, MaxIds <- 4, MaxDumps <- 0, MaxRestarts <- 0

\* ...and two of them in peers.dat.
Two == {addr1, addr2}
Saved == INSTANCE AddrMan WITH
  Services <- Two, Host <- [s \in Two |-> HostOf[s]], Sources <- {peerP, peerQ}, Buckets <- {1, 2},
  Positions <- {1, 2}, NewBucket <- [s \in Two |-> NewBucketOf[s]],
  NewPosition <- [s \in Two |-> NewPositionOf[s]], TriedSlots <- {1, 2},
  TriedSlot <- [s \in Two |-> TriedSlotOf[s]],
  MaxRefs <- 2, MaxIds <- 4, MaxDumps <- 1, MaxRestarts <- 1

ASSUME Family!ConstantsAssumption /\ Priority!ConstantsAssumption
ASSUME Reorg!ConstantsAssumption /\ Halted!ConstantsAssumption /\ Private!ConstantsAssumption
ASSUME Waiting!ConstantsAssumption
ASSUME Sync!ConstantsAssumption /\ Late!ConstantsAssumption /\ Fork!ConstantsAssumption /\ Relay!ConstantsAssumption
ASSUME Known!ConstantsAssumption /\ Saved!ConstantsAssumption

-----------------------------------------------------------------------------
NoOrphans == /\ orphans = Absent /\ byPrev = Absent /\ recentRejects = Absent
             /\ rejectsAreOld = Absent /\ confirmed = Absent /\ blocks = Absent
             /\ connected = Absent
NoNode == /\ node = Absent /\ nPreferredDownload = Absent /\ nSyncStarted = Absent
          /\ connections = Absent
NoAddresses == addrman = Absent /\ file = Absent /\ calls = Absent

Init ==
  \/ /\ NoAddresses
     /\ \/ part = "family" /\ Family!Init /\ NoOrphans /\ NoNode
        \/ part = "priority" /\ Priority!Init /\ NoOrphans /\ NoNode
        \/ part = "reorg" /\ Reorg!Init /\ NoOrphans /\ NoNode
        \/ part = "halted" /\ Halted!Init /\ NoOrphans /\ NoNode
        \/ part = "private" /\ Private!Init /\ NoOrphans /\ NoNode
        \/ part = "waiting" /\ Waiting!Init /\ chain = Absent /\ NoNode
        \/ part = "sync" /\ Sync!Init /\ chain = Absent /\ pool = Absent /\ NoOrphans
        \/ part = "late" /\ Late!Init /\ chain = Absent /\ pool = Absent /\ NoOrphans
        \/ part = "fork" /\ Fork!Init /\ chain = Absent /\ pool = Absent /\ NoOrphans
        \/ part = "relay" /\ Relay!Init /\ chain = Absent /\ pool = Absent /\ NoOrphans
  \/ /\ chain = Absent /\ pool = Absent /\ NoOrphans /\ NoNode
     /\ \/ part = "known" /\ Known!Init
        \/ part = "saved" /\ Saved!Init

OnlyPool == UNCHANGED <<part, orphanVars, nodeVars, addrVars>>
OnlyNode == UNCHANGED <<part, chain, pool, orphanVars, addrVars>>
OnlyAddresses == UNCHANGED <<part, chain, pool, orphanVars, nodeVars>>

FamilyNext == part = "family" /\ Family!Next /\ OnlyPool
PriorityNext == part = "priority" /\ Priority!Next /\ OnlyPool
ReorgNext == part = "reorg" /\ Reorg!Next /\ OnlyPool
HaltedNext == part = "halted" /\ Halted!Next /\ OnlyPool
PrivateNext == part = "private" /\ Private!Next /\ OnlyPool
WaitingNext == part = "waiting" /\ Waiting!Next /\ UNCHANGED <<part, chain, nodeVars, addrVars>>
SyncNext == part = "sync" /\ Sync!Next /\ OnlyNode
LateNext == part = "late" /\ Late!Next /\ OnlyNode
ForkNext == part = "fork" /\ Fork!Next /\ OnlyNode
RelayNext == part = "relay" /\ Relay!Next /\ OnlyNode
KnownNext == part = "known" /\ Known!Next /\ OnlyAddresses
SavedNext == part = "saved" /\ Saved!Next /\ OnlyAddresses
Next == FamilyNext \/ PriorityNext \/ ReorgNext \/ HaltedNext \/ PrivateNext \/ WaitingNext
          \/ SyncNext \/ LateNext \/ ForkNext \/ RelayNext \/ KnownNext \/ SavedNext

\* That of BlockDownload: the threads of the node run, time passes, and P answers.  Quiet stands
\* for ~ENABLED <<LateSends(x)>>_vars: the first conjunct is WF_vars(LateSends(x)).
LateSends(x) == part = "late" /\ Late!SendMessages(x, FALSE) /\ OnlyNode
Fairness ==
  /\ \A x \in {peerP, peerQ} :
       /\ []<>(part = "late" => Late!Quiet(x)) \/ []<><<LateSends(x)>>_vars
       /\ WF_vars(part = "late" /\ Late!FinalizeNode(x) /\ OnlyNode)
       /\ WF_vars(part = "late" /\ Late!StallingTimeout(x) /\ OnlyNode)
       /\ WF_vars(part = "late" /\ Late!DownloadTimeout(x) /\ OnlyNode)
  /\ WF_vars(part = "late" /\ Late!Helpful(peerP) /\ OnlyNode)

Spec == Init /\ [][Next]_vars /\ Fairness

\* Reorganisations alone.
UndoneSpec ==
  part = "undone" /\ Reorg!Init /\ NoOrphans /\ NoNode /\ NoAddresses /\ [][Reorg!Next /\ OnlyPool]_vars

-----------------------------------------------------------------------------
(* Links go both ways, mapNextTx knows exactly the inputs of the entries,  *)
(* and no peer is asked for more blocks than it may be.                    *)
TypeOK ==
  /\ part = "family" => Family!TypeOK
  /\ part = "priority" => Priority!TypeOK
  /\ part = "reorg" => Reorg!TypeOK
  /\ part = "halted" => Halted!TypeOK
  /\ part = "private" => Private!TypeOK
  /\ part = "sync" => Sync!TypeOK
  /\ part = "fork" => Fork!TypeOK
  /\ part = "relay" => Relay!TypeOK

(* The totals an entry keeps for its package are those of its links.       *)
PackagesFollowLinks ==
  /\ part = "family" => Family!PackagesFollowLinks
  /\ part = "priority" => Priority!PackagesFollowLinks
  /\ part = "reorg" => Reorg!PackagesFollowLinks
  /\ part = "halted" => Halted!PackagesFollowLinks
  /\ part = "private" => Private!PackagesFollowLinks

(* The fees of the ancestors of an entry, when nobody sets priorities.     *)
AncestorFees ==
  /\ part = "family" => Family!AncestorFees
  /\ part = "reorg" => Reorg!AncestorFees
  /\ part = "halted" => Halted!AncestorFees
  /\ part = "private" => Private!AncestorFees

(* No package is over the limits.                                          *)
PackageLimits ==
  /\ part = "family" => Family!PackageLimits
  /\ part = "reorg" => Reorg!PackageLimits
  /\ part = "halted" => Halted!PackageLimits

(* What an entry spends is an output of an entry or unspent in the chain,  *)
(* if no block is undone.                                                  *)
InputsAvailable ==
  /\ part = "family" => Family!InputsAvailable
  /\ part = "undone" => Reorg!InputsAvailable

(* Entries do not conflict with the chain, however far blocks were undone. *)
NoConflictWithChain ==
  /\ part = "family" => Family!NoConflictWithChain
  /\ part = "reorg" => Reorg!NoConflictWithChain
  /\ part = "halted" => Halted!NoConflictWithChain
  /\ part = "private" => Private!NoConflictWithChain

(* Coinbases that entries spend are mature, if no reorganisation fails.    *)
CoinbasesAreMature == part = "reorg" => Reorg!CoinbasesAreMature

(* An entry stays only if the inputs that were confirmed when it came are  *)
(* available, if no reorganisation fails.                                  *)
ConfirmedOrGone == [][part = "reorg" => Reorg!ConfirmedOrGone]_vars

(* A private transaction in the pool spends outputs of the chain.          *)
PrivateInputsConfirmed == part = "private" => Private!PrivateInputsConfirmed

(* There are never more orphans than the node is told to keep.             *)
Bounded == part = "waiting" => Waiting!Bounded

(* The index of the orphans holds each under all it spends, and no other.  *)
IndexMatches == part = "waiting" => Waiting!IndexMatches

(* An orphan comes from a peer that is still connected.                    *)
SourcesAreConnected == part = "waiting" => Waiting!SourcesAreConnected

(* A transaction message resolves every orphan it can.                     *)
ResolvedAtOnce == [][part = "waiting" => Waiting!ResolvedStep]_vars

(* mapBlocksInFlight, the queues of the peers and the counters agree.      *)
InFlightIsQueued ==
  /\ part = "sync" => Sync!InFlightIsQueued
  /\ part = "fork" => Fork!InFlightIsQueued
  /\ part = "relay" => Relay!InFlightIsQueued

(* A block that has been received is in flight no more.                    *)
InFlightIsMissing ==
  /\ part = "sync" => Sync!InFlightIsMissing
  /\ part = "fork" => Fork!InFlightIsMissing
  /\ part = "relay" => Relay!InFlightIsMissing

(* A peer is held to stall only while it owes a block.                     *)
StallersOweBlocks ==
  /\ part = "sync" => Sync!StallersOweBlocks
  /\ part = "fork" => Fork!StallersOweBlocks

(* pindexLastCommonBlock is the last full block both have.                 *)
LastCommonIsCommon ==
  /\ part = "sync" => Sync!LastCommonIsCommon
  /\ part = "fork" => Fork!LastCommonIsCommon

(* The node catches up with P, whatever Q announces, withholds or sends    *)
(* late.                                                                   *)
CatchesUp == <>[](part = "late" => Late!CaughtUp)

(* Maps, counters and tables of the address manager tell the same story.   *)
TablesAgree ==
  /\ part = "known" => Known!TablesAgree
  /\ part = "saved" => Saved!TablesAgree

(* peers.dat gives back every address that was written to it.              *)
DumpIsComplete ==
  /\ part = "known" => Known!DumpIsComplete
  /\ part = "saved" => Saved!DumpIsComplete

(* An address that was tried is not forgotten while the node runs.         *)
TriedAreKept ==
  [][/\ part = "known" => Known!TriedKeptStep
     /\ part = "saved" => Saved!TriedKeptStep]_vars

-----------------------------------------------------------------------------
(* What an entry of the pool keeps about the others (mapLinks, mapNextTx   *)
(* and the totals of its package) is right and within the limits.          *)
PackagesAreRight == TypeOK /\ PackagesFollowLinks /\ AncestorFees /\ PackageLimits

(* The pool fits the active chain.  While blocks are only added, every     *)
(* input of an entry is there.  When blocks are undone, entries conflict   *)
(* with nothing in the chain, private ones spend confirmed outputs, and    *)
(* removeForReorg takes out what spends immature coinbases or lost inputs  *)
(* that were confirmed when it came.  (An entry that came before its       *)
(* parent was confirmed can lose it: mempool_undone.)                      *)
PoolFitsChain ==
  /\ [](InputsAvailable /\ NoConflictWithChain /\ CoinbasesAreMature /\ PrivateInputsConfirmed)
  /\ ConfirmedOrGone

(* The two maps of orphans agree, and hold a bounded number of             *)
(* transactions of peers that are connected.                               *)
OrphansAreIndexed == Bounded /\ IndexMatches /\ SourcesAreConnected

(* What the node believes about the blocks in flight and about what its    *)
(* peers have is true, whoever sends, stalls, times out or leaves.         *)
DownloadsAreRight ==
  InFlightIsQueued /\ InFlightIsMissing /\ StallersOweBlocks /\ LastCommonIsCommon

(* The address manager keeps its tables in step with each other, loses no  *)
(* address that was tried, and finds in peers.dat what it wrote there.     *)
AddressesAreKept == [](TablesAgree /\ DumpIsComplete) /\ TriedAreKept
=============================================================================
