# Navcoin Core in TLA+

A verification project for Navcoin Core: the community fund and the votes that
govern it, the caches and tables that must follow the active chain, the choice of
that chain, the pools of transactions, the download of blocks, the addresses of
other nodes, and the two thread pools of the node. TLC checks the models on small
instances. TLAPS proves what the fund promises, its balances, the order of approvals
and the end of votes, for every number of proposals, requests, blocks and amounts;
that the layers of coins cannot be told from plain sets of unspent outputs, for any
transactions; and what the two thread pools promise, for every number of threads, checks and tasks.

`PROJECT.json` says, for every definition that models code, which lines it
models; it also lists components, runs, mutants, findings, hazards and theorems.

## The system

A node keeps an index of all blocks it has heard of, the blocks of the active
chain (`chainActive`) and a view of the state at its tip (`pcoinsTip`, a
`CStateViewCache` over `CStateViewDB`). Headers and blocks come from peers;
`ActivateBestChain` moves the tip, one block at a time:

* `ConnectTip` runs `ConnectBlock` on a fresh view (coins, names, tokens, DAO
  objects, votes of the staker, payments by the coinbase), then `VoteStep` (counts
  votes, decides), then flushes the view into `pcoinsTip`;
* `DisconnectTip` runs `DisconnectBlock` (takes back what the block did), then
  `VoteStep` with `fUndo`, and gives the transactions to the memory pool.

`pcoinsTip` is written to disk from time to time, after the block index. A node
that stops starts again from what is on disk.

The fund is two balances in every block index: `nCFSupply`, free, and
`nCFLocked`, set aside for accepted proposals. A *proposal* that passes moves its
amount from the first to the second; a *payment request* of it that passes takes
its amount off the second, and the coinbase of a later block pays it. When a
proposal expires, what it did not draw returns. The state of an object is a map
from block to the flag that block gave it; a disconnected block is forgotten by
erasing its entry.

Votes are counted per *voting cycle*, a fixed number of blocks; the last block of
a cycle decides. *Consultations* ask for a value: they gain support, are reflected
on, are voted, and may set a consensus parameter. A staker's votes are kept in a
list that later blocks go on counting until the staker changes it.

## Modules

| module | models | state | actions |
|---|---|---|---|
| `StateHistory` | `mapState` of DAO objects | | `SetState`, `ClearState`, `GetLastState`... as operators |
| `Money` | sums of amounts, as numbers of coins in a set | | |
| `CommunityFund` | proposals, requests, both balances (`consensus/dao.cpp`, `main.cpp`) | `chain`, `txblock`, `mapState`, `nVotingCycle`, `votes`, `nExclude`, `pc`, `todo` | see below |
| `FundLife` | which states blocks may lead a proposal or a request through | | |
| `FundLedger` | what the fund promises: a page per block | `ledger` | `AddPage`, `TearPage` |
| `FundRefinement` | the pages of the fund, as functions of its state | | |
| `VoteTally` | the scan and the caches of `VoteStep`, `VerifyDB` | `chain`, `view`, `cache`, `event` | `ConnectTip`, `DisconnectTip`, `Restart`, `VerifyDB` |
| `StakerVotes` | `CVoteList`, the votes each block records, the two writes of `FlushStateToDisk` | `chain`, `lists`, `record`, `valid`, `dirty`, `flushing`, `disk`, `seen` | `ConnectBlock`, `TestBlockValidity`, `DisconnectBlock`, `VerifyDB`, `WriteBlockIndex`, `WriteChainState`, `Restart` |
| `Consultations` | consultations, answers, parameters | `chain`, `dao`, `undone` | a block connected, a block disconnected |
| `CoinsView` | coins of `CStateViewCache` and `CStateViewDB`, undo data | `db`, `tip`, `view`, a chain for each, `mode`, `fClean` | `OpenView`, `ConnectTx`, `DisconnectTx`, `FlushView`, `DropView`, `FlushTip`, `ReadTip`, `Uncache`, `Restart` |
| `UtxoSet` | what the layers of coins promise | `stored`, `tip`, `view`, `mode` | the same without caches |
| `NameView` | names (`dotnav/`) in their layers | `chain`, `block`, records and data of three layers | `StartBlock`, `ConnectProgram`, `EndBlock`, `DropBlock`, `DisconnectTip`, `FlushStateToDisk` |
| `TokenView` | tokens (`ctokens/`) in their layers | `chain`, `db`, `tip`, `failed` | `ConnectTip`, `RejectBlock`, `DisconnectTip`, `FlushStateToDisk` |
| `VersionBits` | states of a deployment and their cache | `tips`, `cache` | `AcceptBlock`, `VersionBitsState`, `MineBlock`, `Clear` |
| `ChainActivation` | index of blocks, candidates, `ActivateBestChain`, `FlushStateToDisk`, `LoadBlockIndexDB` | fields of `CBlockIndex` as sets of blocks, `candidates`, `unlinked`, `tip`, `phase`, `mostWork`, `dirty`, `disk` | `AcceptBlockHeader`, `Process*Block`, `ActivateBestChainStep`, `NothingToDo`, `Finish`, `PeriodicFlush`, `InvalidateBlock`, `ResetBlockFailureFlags`, `Restart`; flushes and pruning are part of the steps that do them |
| `Mempool` | `CTxMemPool` under the calls of `main.cpp` | `chain`, `pool` | `AcceptToMemoryPool`, `ActivateBestChainStep`, `InvalidateBlock`, `PrioritiseTransaction`; expiry and trimming are part of the first |
| `Orphans` | transactions that wait for their parents | `orphans`, `byPrev`, `recentRejects`, `pool`, `connected`... | `Tx`, `Submit`, `Block`, `Disconnect` |
| `BlockDownload` | blocks in flight, `CNodeState` | `node`, `nPreferredDownload`, `nSyncStarted`, `connections` | `InitializeNode`, `Version`, `Receive` (inv, headers, block, cmpctblock, blocktxn), `SendMessages`, both timeouts, `Leave`, `FinalizeNode` |
| `AddrMan` | `CAddrMan` and `peers.dat` | `addrman`, `file`, `calls` | `Add`, `Good`, `GetAddr`, `Dump`, `Restart` |
| `CheckQueue` | `CCheckQueue` and its controller | `queue`, `nIdle`, `nTotal`, `nTodo`, `fAllOk`, `pc`... | `Construct`, `Add`, `Wait`, `EnterLoop`, `WakeUp`, `SpuriousWakeUp`, `Execute`, `Interrupt` |
| `Scheduler` | `CScheduler` | `now`, `taskQueue`, `pc`, `deadline`, `running`... | `Tick`, `ClientSchedules`, `ClientStops`, `Begin`, `Rejoin`, `TimedOut`, `TaskReturns` |

A block connects to the fund in micro-steps, in the order of the code:

| step of `CommunityFund` | code |
|---|---|
| `ConnectBlock` | balances copied from the predecessor (`main.cpp:3880`), contributions (`main.cpp:4776`) |
| `AddProposal`, `AddPaymentRequest` | `main.cpp:5038-5066`, `IsValidPaymentRequest` |
| `PayRequest` | outputs of the coinbase, `main.cpp:5216-5290` |
| `CountVotes` | first half of `VoteStep`; the counts are any member of `Tallies` |
| `UpdateRequest`, `RequestsDone` | status loop over requests, `dao.cpp:1090-1189` |
| `UpdateProposal` | status loop over proposals, `dao.cpp:1203-1344` |
| `ConnectTipDone` | flush of the view |
| `DisconnectTip` | `DisconnectBlock` and `VoteStep` with `fUndo`, one step |

A block that fails to connect is no step: its view is dropped. Objects have
`BASE_VERSION` and the rules are those after the v452 fork, in force for every new
block of the main chain.

How they fit together: `VoteTally` shows which counts a block is judged with, and
`CommunityFund` is checked and proved for any counts. `StakerVotes` shows which
votes a block adds. `Consultations` changes the parameters that are constants
elsewhere; `VoteTally` has the one that matters for counting, the length of the
cycle. `CoinsView`, `NameView`, `TokenView` and `StakerVotes` are the layers of
one view, whose tables do not read each other. `ChainActivation` chooses among
blocks; the others take any order of connected and disconnected blocks, which
includes those it chooses. `Orphans` sees of `Mempool` which transactions it holds;
`BlockDownload` sees of `ChainActivation` which block is the best complete one.

What one lock protects is one step. Everything under `cs_main` is atomic, so the
micro-steps of `CommunityFund` follow each other without interruption; they are
apart because a later visit of the loops sees what an earlier one changed. Steps of
`ActivateBestChain`, of the check queue and of the scheduler interleave where their
code releases its lock.

A process can die in `StakerVotes` between the two writes of a flush, and in
`ChainActivation` at any moment: a flush there writes nothing, the dirty entries of
the block index, or these and the chain state (`how`). Inside a step the second case
means that the process died between the writes; at the end of one it is also the
periodic write, which goes no further. `Restart` loads what is there, after a last
flush or without it.

The `MC` modules give the constants their values. Most hold several instances of
components that share nothing; a behaviour is one of one instance, named by the
variable `part`, and a property of the module says of each part what the
component's property says. `MCViews` extends `CoinsView`, so that the properties of coins,
and the assumption of their proofs, are those of that module itself.

Lemmas and theorems are in modules of their own. `CommunityFundProofs` (sums, types,
histories, favour) is extended by `FundProofs` (balances), `LifeProofs` (approvals) and
`VotingProofs` (ends of votes); `LedgerProofs` extends `FundProofs` and `LifeProofs`.
`CoinsViewProofs`, `CheckQueueProofs` and `SchedulerProofs` stand alone.

## Runs

| run | parts | checks |
|---|---|---|
| `fund_one` | a proposal of 3, two requests of 2, 10 blocks | `TypeOK`, `LockedIsCommitted`, `FundConserved`, `FundSolvent`, `NotOverdrawn`, `PendingIsCovered`, `HistoryOnChain`, `RequestsFollowApproval`, `VotingIsBounded`, `LedgerSpec` |
| `fund_more` | three requests for one proposal; two proposals that compete in one block; a super proposal; two branches | `FundsAreSound` |
| `tally_cycles` | votes and abstentions; excluded blocks; a cycle that changes its length | `CountsAreRight`, `NodesAgree`, `HashesAgree` |
| `views_tables` | coins; a name; a token, and one whose creation is buried; a deployment on a tree and on a longer chain | `CoinsAreRight`, `UtxoSpec`, `NamesFollowChain`, `OwnerConsents`, `TokensFollowChain`, `FlushIsInvisible`, `DeploymentsFollowChain` |
| `dao_chain` | vote lists; answers over their limit; the phases of two consultations; two answers and excluded blocks | `VotesFollowChain`, `ConsultationsFollowChain`, `PhasesEnd`, `PassedWereVoted` |
| `threads_pools` | two workers and interruptions; one worker and long blocks; a scheduler with one thread; with two; with two and no task that repeats | `ChecksAreComplete`, `WaitReturns`, `TasksAreInTime`, `TasksEnd` |
| `activation_index` | invalid blocks; a block refused without a verdict; pruning; an operator who invalidates; who reconsiders; two threads; writes, crashes and restarts, also with pruning and with an operator | `IndexIsRight`, `ActiveChainIsValid`, `BestChainIsActive`, `ActivationReturns` |
| `pools_peers` | a family of transactions; priorities; reorganisations; ones that fail half way; private transactions; orphans; four downloads; addresses, and addresses in `peers.dat` | `PackagesAreRight`, `PoolFitsChain`, `OrphansAreIndexed`, `ResolvedAtOnce`, `DownloadsAreRight`, `CatchesUp`, `AddressesAreKept` |
| `tally_shorter` | a cycle of five blocks cut to three | `NodesAgree` fails |
| `views_burnt` | a token burnt after its minting was stopped | `TokenFollowsChain` fails |
| `activation_race` | two threads, all blocks valid | `BestChainIsActive` fails |
| `mempool_undone` | a child that came before its parent was confirmed, by a block that is undone | `InputsAvailable` fails |

What the properties say:

* **The fund.** At every block of the chain `nCFLocked` is what the accepted
  proposals may still draw; balances and withdrawals add up to the contributions;
  no balance is negative; the living requests of a proposal fit into it, so that
  the checks at the acceptance of a request never fail. A request was created after
  its proposal was accepted on this chain and paid after it was accepted itself,
  early enough. Nothing of an abandoned block survives, and votes end in time. The
  fund implements the ledger.
* **Votes.** The counts of open objects are the votes of the running cycle, those of
  decided ones the votes of the cycle that closed. Nodes with one chain have the
  same objects and the same state hash, whatever they disconnected, restarted or
  verified. Stakers' lists, and what is counted of them, follow from the chain, also
  from what a crash leaves on disk. Phases of consultations end; a parameter changes
  only by an answer with the votes it needs, and back when the block goes.
* **Tables.** DIRTY and FRESH are true of the layer below; undo data fits; the layers
  implement plain sets of unspent outputs. Names, tokens and deployments are
  functions of the chain below them; a name changes hands with its owner's consent
  and is revealed no earlier than allowed; a token's units are backed, and a flush
  changes nothing of it but `canMint` of a collection, so that the blocks that may
  follow are the same, except those that stop the minting of a collection.
* **Threads.** `Wait` returns exactly the conjunction of the checks of its block,
  after all of them, and does return; its caller sleeps only while a worker is busy;
  no task runs early, none is dropped by a drain,
  due tasks are served. Threads leave after a stop; after a draining one if no task
  repeats, and otherwise some thread never does.
* **Activation.** The index satisfies what `CheckBlockIndex` asserts; no invalid block
  is in the chain; when nobody activates, the active chain is the best valid one
  whose data is there, or ends below a block that was refused without a verdict, on
  the way to that one; `ActivateBestChain` returns. All that goes on after a restart from
  any pair of states the two databases can be in.
* **Pools and peers.** The totals kept by entries of the pool follow from its links
  and respect the limits; nothing in it conflicts with the chain; a private transaction
  spends confirmed outputs. While blocks are only added every input is there; a
  reorganisation that does not fail takes out what spends immature coinbases, and
  entries that have lost an input although all of them were confirmed. The two maps of orphans agree and stay bounded, and a
  transaction resolves every orphan it can at once. The map of blocks in flight, the
  queues of peers and their counters agree; no block already received is waited for;
  no peer is blamed that owes nothing; the last common block is common. The node
  catches up with a peer that answers, whatever the other one does. The tables, maps and
  counters of the address manager agree; an address that was tried is only moved, and
  `peers.dat` gives back all of them.

Every property of a passing run has a mutant: a plausible mistake in one mapped
definition under which TLC finds the property violated. The mutants are the
definitions with a suffix, next to the one they change.

### Bounds

Each instance names its bounds next to it. They are the least that let the cases
happen which the properties are about.

* Fund: with a cycle of two blocks a proposal needs two blocks to be accepted, a
  request two more, its payment two more, and an expiry two after the deadline; ten
  blocks leave room for disconnections in between. `MaxGiven` lets a proposal pass
  both before and after the fund can pay it. Counts are sampled from three tallies:
  enough in favour, enough against, too few. Blocks of one height differ in at most
  two `Forks`.
* `VoteTally`: four or five blocks cross a boundary of a cycle, with blocks on both
  sides whatever is disconnected.
* Votes and consultations: three blocks are enough to vote, change and undo; eleven
  or twelve to go through support, reflection, voting and the block after it. A record
  takes two votes for proposals (`MaxAppends`): a block that casts one is connected over
  the vote that a check, a verification or an earlier connection left. The
  contents of blocks are listed, one for each way to vote.
* Tables: six transactions make an output be created, spent, restored and spent by a
  conflicting transaction across one flush; one or two flushes separate what is on
  disk from what is not.
* Trees of six or seven blocks have two branches, each of which can be the better one
  for a while, with a missing, failed or pruned block in the middle of either.
* Pools: five transactions with limits of three and a pool of three or four, so that
  replacement, limits and eviction all happen. Two peers, chains of two or three
  blocks, a window of one or two and one block at a time: a peer can hold the window
  and another can be waiting for it.
* Scheduler: clients schedule up to `MaxTime`, where the clock stops. A task
  that repeats goes back to the queue with a time that may lie beyond; where a draining
  stop then leaves a thread waiting for it, `Repeats` stands for the rounds to come.
* Restarts: one or two writes before a crash and one restart after it, at every point of an
  activation, so that the two databases are apart by any number of blocks. A second
  restart is met only in what the first one leaves. The operator has five blocks there.
* Addresses: four of them and two buckets of two positions, in which they meet in every
  way: the same host, the same slot in one table and not in the other. Two addresses
  collide with each other when the file is read.

`CHECK_DEADLOCK` is off where a chain at its bound only goes down or a behaviour may
end because nobody sends anything; it is on for the tables, where a
restart, a flush or a query is always possible, and for the thread pools, where
waiting for ever would be a fault of the code.

### Fairness

* `CheckQueue`, `Scheduler`: a thread that can run gets to run and to take the mutex,
  and time passes. Nobody has to begin a block, schedule a task or be woken.
* `ChainActivation`: a thread inside `ActivateBestChain` goes on; what it waits for is
  `cs_main`, which every step gives back.
* `BlockDownload`: the message thread visits every peer (`SendMessages` is called in
  a loop), pending disconnections happen, clocks run so that a limit that is not
  stopped expires, and the prompt peer connects, announces and answers. Its blocks
  arrive unmutated and its messages pass the spam filter for headers. The other peer
  owes nothing.
* Everywhere else there is none: nothing obliges a staker to produce a block or to
  vote, and a step is one of whoever holds `cs_main`. That votes end is stated as a
  bound on blocks (`VotingIsBounded`, `PhasesEnd`).

## Proofs

### The fund

The assumptions are the named ASSUMEs of `CommunityFund`: amounts are natural numbers up
to `MaxAmount`, objects are finite sets, and the inputs have their types
(`ObjectsAssumption`, `ParametersAssumption`, `InputsAssumption`). Two are about the
values of `chainparams.cpp`:

* `ThresholdsAssumption`: the percentages that accept and reject add up to at least
  100 (both are 70%). Without it an accepted proposal can be rejected by its old
  counts, with its money still locked.
* `CyclesAssumption`: a cycle has more than one block, and a request is voted on for at
  most as many cycles as a cycle has blocks (the cap of `dao.cpp:1100`). Only
  `VotingCorrect` uses it; without it the statement is false.

The proof of an invariant shows that a stronger one is inductive, with one lemma per
group of actions (`...Init`, `...Step`). Flags are given only to the tip, so that earlier
blocks keep theirs (`FlagsKept`, `FlagsNow`) and a disconnection finds them unchanged.

* `TypeCorrect`: `Spec => []TypeOK`.
* `HistoryCorrect`: `Spec => []HistoryOnChain`. `HistoryInv` adds `TypeOK` and that
  a loop visits only objects of the view (`TodoExists`).
* `LockedCorrect`, `ConservedCorrect`. `BooksInv` is `HistoryInv`, plus
  `BooksAt(h)` for every block `h` (both equations at once), plus `Favoured`: an
  object whose flag says it was accepted has more votes in favour than its
  threshold. `Favoured` is what keeps a rejection from overtaking an acceptance.
* `NotOverdrawnCorrect`. `GrantInv` says of every block that the requests alive at
  it fit into their proposal, and follows from the check at creation because no
  step revives a request (`NoneRevived`).
* `SolventCorrect`, `PendingCorrect`. `SolventInv` joins the books and the grants: a
  drawn request is alive, so what the committed proposals drew is at most their
  amounts (`CommittedCovers`) and `nCFLocked` is not negative without a guard. The
  supply is guarded where it shrinks.
* `ApprovalCorrect`: `Spec => []RequestsFollowApproval`. The flag of a proposal that is
  accepted may be a later one, so the statement is about the history: `ApprovalInv`
  carries it with `LifeInv`, which says where a block that is half connected has taken
  each object, and `ExpiredInv`: an expired request keeps the number of cycles that made
  it expire, so that no later visit changes its mind. A disconnection removes an
  acceptance only together with what depends on it, because heights on a chain are
  unique (`OneForEachHeight`).
* `VotingCorrect`: `Spec => []VotingIsBounded`. `CycleInv` says that `nVotingCycle` of an
  undecided proposal lags by exactly one block until `VoteStep` has visited it;
  `BoundInv` states the bound for every block, which is what a disconnection falls back
  on. The rest is division by the length of the cycle (`DivMod`, `LastTwo`).
* `LedgerCorrect`: `Spec => LedgerSpec`. Under `Pages` the steps within a block leave the
  ledger alone, since a block gets its page when it is connected (`BlockStutters`,
  `ConnectStutters`); `ConnectTipDone` is `AddPage`, with balances from `SolventInv` and
  states from `LifeInv` (`DoneAddsPage`); `DisconnectTip` is `TearPage`
  (`DisconnectTearsPage`).

### The coins

The assumption is `TxAssumption` of `CoinsView`: an input names an output that some other
transaction has, and coinbases have none. Nothing is assumed of how many transactions,
outputs or blocks there are.

* `CoinsCorrect`: `Spec => []CoinsAreRight`. The property speaks of flags and of undo data;
  why they hold is `CoinsInv`: each layer holds exactly the outputs its chain leaves
  (`LevelsFollowChains`), each chain could have been connected one transaction after the
  other (`ChainsOK`), and the chain of the view extends that of the tip or is a beginning
  of it, as its purpose says (`ViewFitsMode`). The flags then follow entry by entry. The
  case that needs all of it is `ModifyNewCoins`, which marks an entry FRESH without
  looking below: a transaction that is not in the chain has no outputs there. The same
  fact, that a chain without its last transaction leaves what was there before
  (`OutsOf`), makes the undo data fit.
* `UtxoCorrect`: `Spec => UtxoSpec`. Under the mapping a layer is what `GetCoins` returns for
  each transaction. Fetching and uncaching are stutters because a FRESH or clean entry says
  nothing that the layer below does not; a flush is a copy because a FRESH entry that is
  forgotten was not there; the others are the actions of `UtxoSet` of the same name.

### The thread pools

`CheckQueue` and `Scheduler` are instantiated with several values in one run, so the
assumptions are the definition `ConstantsAssumption` of each, a hypothesis of the
theorems that `MCThreads` evaluates for its instances: workers and threads are finite
sets, there is a thread, batches hold at least one check. A worker may be missing.

* `ChecksCorrect`: `Spec => [](TypeOK /\ ResultIsRight /\ WaitIsComplete /\ StartsIdle /\
  SleepsForOthers)`. `Counted` ties the three counters to the threads: `nTodo` is the
  number of queued checks and of those in batches not yet accounted for, counted as a
  set of pairs (`Taken`). Whoever is interrupted keeps counting as idle, which is why
  `nIdle` is bounded only from below. `Verdict` says that a failed check is remembered
  somewhere: in the queue, in a batch, in the `fOk` of a thread or in `fAllOk`. When
  `nTodo` is zero only the last is left, which is the result. `SleepsForOthers` is the
  safety part of `WaitReturns`: the wake-up that the master waits for has not been
  missed.
* `DrainCorrect`: `Spec => [](TypeOK /\ DrainServesAll)`. `NoneLost` follows a task from
  the queue through a thread to `served`, or back to the queue if it repeats; `LeaveLast` says that while the queue is to be
  drained and is not empty, some thread has not left.
* `InTimeCorrect`: with one thread, as the node has, `Spec => []NotBeforeTime`. The thread
  does not look at the clock again after its wait (`scheduler.cpp:67`); `WaitsForTask`
  says that a task not later than its deadline is still queued. With two threads this,
  and the property, fail.

### Only model-checked

* Every liveness property (`WaitReturns`, `TasksEnd`, `ActivationReturns`, `CatchesUp`):
  beyond the prover.
* What is computed by a fold or a recursion over data: the scan of `VoteTally` and its
  `VerifyDB`, the totals of `Mempool`, the searches of `ChainActivation`, the queue of
  `Orphans`, the walk of `VersionBits`, the replay of a chain in `TokenView`. What a fold
  computes for every input takes an induction that the installed provers cannot do.
* The properties of `NameView`, `StakerVotes`, `Consultations`, `BlockDownload`, `AddrMan`
  and the index of `Orphans` have no proof.

## Findings

Four disagreements between the code and what its comments or tests say are runs of
their own:

* Counts of objects without votes are reset after the decisions (`dao.cpp:1596`): when
  the cycle gets shorter, the counts of the old one are used once, and nodes with the
  same chain can differ (`tally_shorter`).
* Undoing a burn adds the units back only while the token can be minted
  (`main.cpp:2963`; `views_burnt`).
* `ActivateBestChain` keeps its target while `cs_main` is released (`main.cpp:5990`): it
  can leave a better chain that another thread activated meanwhile
  (`activation_race`).
* `DisconnectTip` removes every ordinary transaction of the block from the pool again
  (`main.cpp:5688`). A child that entered the pool before its parent was confirmed has
  lost its link to it by then, and its lock points name no block that is undone: it
  stays without its parent (`mempool_undone`). So `InputsAvailable` is a property of the
  instances that undo no block; children that came after the confirmation are removed
  (`ConfirmedOrGone`).

Others were met while modelling. The passing instances leave these situations out
by their constants, and the definitions have the code's behaviour:

| code | what happens | left out by |
|---|---|---|
| `dao.cpp:1100` | the cycle of a request is capped at the cycle length instead of its maximum of cycles; above it the request never expires. The values of `chainparams.cpp` do not meet this | maximum below the cycle length |
| `dao.cpp:1608` | the reset of objects without votes forgets abstentions, which are in the state hash | `HashesAgree` where nobody abstains |
| `main.cpp:7504` | `VerifyDB` at level 3 leaves the caches of `VoteStep` below the tip (the default level is 4) | `Levels` |
| `coins.h:210` | the mark of a coinstake is not serialised: its outputs count as mature after a flush | no property on the mark |
| `txdb.cpp:530` | data of names is erased under another key than it was written | one flush (`MaxFlushes`): it takes a second one to show |
| `txdb.cpp:483` | a removed token is not erased on disk | one flush, or a creation that is buried (`Settled`) |
| `ctokens.h:151` | `canMint` of a collection is not serialised and reads back as false: once it was written, a block that stops its minting is refused (`main.cpp:4872`), and accepted by a node that has not written it yet | `TokensFollowChain` and `FlushIsInvisible` leave out `canMint` of collections, and the latter blocks that stop their minting |
| `main.cpp:2919` | outputs of one transaction are undone first to last | `MaxOutputs` |
| `scheduler.cpp:67` | after a timeout the first task is run without a second look at its time; with several threads it can be early. The node has one | `TasksAreInTime` with one thread |
| `scheduler.cpp:114` | a task of `scheduleEvery` schedules itself again after `stop(true)`, so that a draining stop never ends | `ThreadsLeave` where no task repeats |
| `main.cpp:5917`, `5758` | a block for which `ConnectBlock` returns false without a verdict, or `VoteStep` does, is not marked. The node has left its old chain, stays below the block and tries it again at every call, until a better chain comes; a block worse than the old tip is then the tip, and not a candidate, which `CheckBlockIndex` asserts. At the start the node shuts down (`init.cpp:769`) | named as an exception in `BestChainIsActive`; `CandidatesAreRight` without such blocks |
| `main.cpp:5919` | such a failure returns before `removeForReorg`: immature or missing inputs stay in the pool | `CoinbasesAreMature`, `ConfirmedOrGone` where no reorganisation fails (`Failures`) |
| `main.cpp:5990` | a block marked invalid between two steps is connected all the same | one thread in the instances with an operator |
| `main.cpp:6124` | `reconsiderblock` leaves marks on siblings, and ancestors out of the candidates | at most one invalidation and one reconsideration; `CandidatesAreRight`, `BestChainIsActive` without them |
| `main.cpp:6216`, `7099` | blocks that wait for an ancestor are not linked when their parent failed, or after pruning | `LinkedWhenComplete` without an operator or pruning |
| `main.cpp:6066`, `5868` | the mark of `invalidateblock` can reach the disk while the chain state there is still at the block: after a crash the tip is a failed block, and without a better candidate the assertion of `PruneBlockIndexCandidates` stops the start | `CandidatesRemain`, `ActiveChainIsValid` without restarts of an operator's node |
| `main.cpp:7283` | a block that was pruned before its parent came is listed in `mapBlocksUnlinked` again at the next start; `CheckBlockIndex` asserts that it has its data | `UnlinkedAreRight` without pruning before a restart |
| `addrman.h:453` | `Clear` leaves `mapInfo` and `mapAddr`, although `net.cpp:2825` relies on it after a failed read | `peers.dat` is never damaged |
| `main.cpp:3376` | votes of a mined block stay when it is undone | mined blocks vote in their coinbase only |
| `dao.cpp:1410`, `2862` | an answer of an expired consultation can pass when the cycle becomes shorter or a block is excluded | parameters asked about, `MaxExcluded` |
| `dao.cpp:1470` | the cycle of a consultation is capped by the maximum of voting, and compared with that of support | maxima close to each other |
| `versionbits.cpp:47`, `131` | times may go back before NTP synchronisation is active; the top bits are not looked at | `NtpSync`, `SigHF` |
| `txmempool.cpp` | a priority changes the totals of ancestors and not of descendants | `AncestorFees` without priorities |
| `main.cpp:1375` | a transaction that opts out of replacement is replaced all the same, unless the new one is private | modelled as in the code |
| `main.cpp:9755-9793` | the direct fetch of announced headers collects blocks and asks for none | modelled as in the code |
| `main.cpp:9177` | parents that come in a block, or by RPC, resolve no orphans | `ResolvedAtOnce` speaks of messages |

## Not modelled

* **Checks of blocks and transactions**: scripts, signatures, amounts, stake kernel,
  private transactions. Functions of their input; the models take any result.
* **Dandelion** (stem pool, embargoes, routes): the stem pool runs the code of the
  memory pool on a second object; the routes in `net.cpp` depend on random choices
  of several threads without a common lock, and no promise about them is stated that
  a state could break.
* **Aggregation of private transactions**: driven by timers and Tor connections; its
  state is algebra that nothing else here depends on.
* **Sockets, RPC, HTTP, ZMQ, wallet, miner, GUI, bundled libraries**: transport,
  formatting, data, presentation, third-party code. A miner is any valid block.
* **Within modelled parts**: transactions of the pool have one size; the time of a
  download is running or expired; blocks of `BlockDownload` have equal work; the
  spam filter for headers is a choice; consultations about several parameters at
  once, the index of the outputs of collections, and the conversion of old block
  records are left out; the hashes that place addresses are functions of the instance and
  their statistics a choice; LevelDB batches are atomic; `-reindex` is left out.
