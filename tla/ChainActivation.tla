--------------------------- MODULE ChainActivation --------------------------
(***************************************************************************)
(* The block index and the choice of the active chain: headers and blocks  *)
(* arrive in any order, blocks turn out to be invalid, block files are     *)
(* pruned, an operator invalidates and reconsiders blocks, the node stops  *)
(* or dies and starts again from what it had written.  Everything done     *)
(* under cs_main is one step.  ActivateBestChain gives the lock up between *)
(* its steps and remembers its target, pindexMostWork, over them.          *)
(*                                                                         *)
(* A block is in one of the sets below for each flag of nStatus that is    *)
(* set.  Which blocks ConnectBlock and CheckBlock accept is given, and     *)
(* which ones ConnectBlock refuses without a verdict; the chain state      *)
(* itself is the subject of CoinsView and CommunityFund.                   *)
(***************************************************************************)
EXTENDS Naturals, FiniteSets, FiniteSetsExt, Sequences, SequencesExt

CONSTANTS
  Absent,     \* no block
  Blocks, Genesis,
  Path,       \* of each block: its ancestors from Genesis on, and the block itself
  Work,       \* nChainWork of each block
  Address,    \* order of the index entries in memory, the last tie breaker
  Checked,    \* blocks CheckBlock and ContextualCheckBlock accept
  Connectable,  \* blocks ConnectBlock accepts
  Refused,    \* blocks ConnectBlock returns false for and leaves the state valid (or VoteStep does)
  Threads,    \* threads that process blocks and calls of the operator
  KeepBlocks, \* MIN_BLOCKS_TO_KEEP
  MaxInvalidations, MaxReconsiderations, MaxPrunings, MaxWrites, MaxRestarts  \* bounds

ConstantsAssumption ==
  /\ Genesis \in Blocks
  /\ Path \in [Blocks -> Seq(Blocks)]
  /\ Path[Genesis] = <<Genesis>>
  /\ \A b \in Blocks \ {Genesis} :
       \E p \in Blocks : Path[b] = Append(Path[p], b) /\ Work[p] < Work[b]
  /\ Genesis \in Checked \cap Connectable
  /\ Refused \cap Connectable = {}

VARIABLES
  known,        \* mapBlockIndex
  haveData,     \* BLOCK_HAVE_DATA
  processed,    \* nTx > 0, BLOCK_VALID_TRANSACTIONS
  linked,       \* nChainTx > 0
  nSequenceId, nBlockSequenceId,
  failedValid, failedChild,  \* BLOCK_FAILED_VALID, BLOCK_FAILED_CHILD
  candidates,   \* setBlockIndexCandidates
  unlinked,     \* the blocks mapBlocksUnlinked lists under their parents
  tip,          \* of chainActive
  phase,        \* per thread: idle, accepted, activating, importing or finishing
  mostWork,     \* per thread: pindexMostWork
  calls,        \* invalidations, reconsiderations, prunings, writes and restarts so far
  aborted,      \* AbortNode was called, an assertion failed or the process died
  dirty,        \* setDirtyBlockIndex
  disk          \* the flags in the block tree database, the best block of the chain state's

index == <<known, haveData, processed, linked, nSequenceId, nBlockSequenceId>>
failed == <<failedValid, failedChild>>
stored == <<dirty, disk>>
vars == <<index, failed, candidates, unlinked, tip, phase, mostWork, calls, aborted, stored>>

Parent(b) == Path[b][Len(Path[b]) - 1]  \* pprev
Ancestors(b) == Range(Path[b])
Height(b) == Len(Path[b]) - 1
Descendants(b) == {d \in Blocks : Len(Path[d]) >= Len(Path[b]) /\ Path[d][Len(Path[b])] = b}
chainActive == Ancestors(tip)

\* CBlockIndexWorkComparator
WorseBy(ids, a, b) ==
  \/ Work[a] < Work[b]
  \/ Work[a] = Work[b] /\ ids[a] > ids[b]
  \/ Work[a] = Work[b] /\ ids[a] = ids[b] /\ Address[a] > Address[b]
Worse(a, b) == WorseBy(nSequenceId, a, b)

Failed(b) == b \in failedValid \cup failedChild

Init ==
  /\ known = {Genesis} /\ haveData = {Genesis} /\ processed = {Genesis} /\ linked = {Genesis}
  /\ nSequenceId = [b \in Blocks |-> IF b = Genesis THEN 1 ELSE 0]
  /\ nBlockSequenceId = 2
  /\ failedValid = {} /\ failedChild = {}
  /\ candidates = {Genesis}
  /\ unlinked = {}
  /\ tip = Genesis
  /\ phase = [t \in Threads |-> "idle"]
  /\ mostWork = [t \in Threads |-> Absent]
  /\ calls = [invalidate |-> 0, reconsider |-> 0, prune |-> 0, write |-> 0, restart |-> 0]
  /\ aborted = FALSE
  /\ dirty = {}
  /\ disk = [index |-> [known |-> {Genesis}, haveData |-> {Genesis}, processed |-> {Genesis},
                        failedValid |-> {}, failedChild |-> {}],
             tip |-> Genesis]
-----------------------------------------------------------------------------
\* The files FindFilesToPrune may choose when top is the tip
Prunable(top) == {b \in haveData : Height(b) + KeepBlocks <= Height(top)}

\* The entries written: those that are dirty, as they are in memory
WriteBatchSync(memory, changed) ==
  [flag \in DOMAIN memory |-> (disk.index[flag] \ changed) \cup (memory[flag] \cap changed)]

\* How far a flush goes: to the block index, and to the chain state then.
\* Without pruning it is left out once no restart is left that would read it.
Flushes == IF calls.write < MaxWrites THEN {"nothing", "index", "all"} ELSE {"nothing"}

Prunings(how) ==
  IF how = "nothing" THEN {{}}
    ELSE {p \in SUBSET haveData : /\ Cardinality(p) <= MaxPrunings - calls.prune
                                  /\ p = {} => calls.restart < MaxRestarts}
FlushPoints(how) == IF how = "nothing" THEN {Absent} ELSE Blocks
Counted(pruned, how) == [calls EXCEPT !.prune = @ + Cardinality(pruned),
                                      !.write = IF how = "nothing" THEN @ ELSE @ + 1]

\* FlushStateToDisk, with the chain state at block.  Files to prune make it
\* a full flush.
FlushStateToDisk(memory, changed, block, how) ==
  disk' = [index |-> IF how = "nothing" THEN disk.index ELSE WriteBatchSync(memory, changed),
           tip |-> IF how = "all" THEN block ELSE disk.tip]
-----------------------------------------------------------------------------
\* AcceptBlockHeader, for a header that is valid by itself
HeaderAccepted(b) ==
  IF b \in known THEN ~Failed(b) ELSE Parent(b) \in known /\ ~Failed(Parent(b))

AcceptBlockHeader(b) ==
  /\ ~aborted
  /\ b \notin known
  /\ HeaderAccepted(b)
  /\ known' = known \cup {b}
  /\ dirty' = dirty \cup {b}
  /\ UNCHANGED <<haveData, processed, linked, nSequenceId, nBlockSequenceId, failed, candidates,
                 unlinked, tip, phase, mostWork, calls, aborted, disk>>

\* The blocks linked by the arrival of b: those that wait for it, and so on.
\* The queue takes them level by level.
NowLinked(b) == {d \in Descendants(b) : (Ancestors(d) \ Ancestors(b)) \subseteq unlinked}
Before(x, y) == \/ Height(x) < Height(y)
                \/ Height(x) = Height(y) /\ Address[x] < Address[y]

\* ...with the files that are pruned after it
ReceivedBlockTransactions(b, pruned) ==
  /\ haveData' = (haveData \ pruned) \cup {b}
  /\ processed' = processed \cup {b}
  /\ IF Parent(b) \in linked
       THEN LET all == NowLinked(b)
                seqs == [d \in Blocks |->
                           IF d \in all
                             THEN nBlockSequenceId + Cardinality({x \in all : Before(x, d)})
                             ELSE nSequenceId[d]]
            IN /\ linked' = linked \cup all
               /\ nSequenceId' = seqs
               /\ nBlockSequenceId' = nBlockSequenceId + Cardinality(all)
               /\ candidates' = candidates \cup {d \in all : ~WorseBy(seqs, d, tip)}
               /\ unlinked' = unlinked \ ((all \ {b}) \cup pruned)
       ELSE /\ linked' = linked \ {b}
            /\ unlinked' = (unlinked \ pruned) \cup {d \in {b} : ~Failed(Parent(b))}
            /\ UNCHANGED <<candidates, nSequenceId, nBlockSequenceId>>

\* ProcessNewBlock up to the call of ActivateBestChain, by AcceptBlock's cases.
\* A block that is refused is not followed by an activation.
Ready(t) == ~aborted /\ phase[t] = "idle"
Enter(t, p) ==
  /\ phase' = [phase EXCEPT ![t] = p]
  /\ mostWork' = [mostWork EXCEPT ![t] = Absent]

Ignored(b, requested) ==
  \/ b \in haveData
  \/ ~requested /\ b \in processed
  \/ ~requested /\ Work[b] <= Work[tip]
  \/ ~requested /\ Height(b) > Height(tip) + KeepBlocks

ProcessKnownBlock(t, b, requested) ==
  /\ Ready(t)
  /\ HeaderAccepted(b)
  /\ Ignored(b, requested)
  /\ known' = known \cup {b}
  /\ dirty' = dirty \cup ({b} \ known)
  /\ Enter(t, "accepted")
  /\ UNCHANGED <<haveData, processed, linked, nSequenceId, nBlockSequenceId, failed, candidates,
                 unlinked, tip, calls, aborted, disk>>

ProcessBadBlock(t, b, requested) ==
  /\ Ready(t)
  /\ HeaderAccepted(b)
  /\ ~Ignored(b, requested)
  /\ b \notin Checked
  /\ known' = known \cup {b}
  /\ failedValid' = failedValid \cup {b}
  /\ dirty' = dirty \cup {b}
  /\ UNCHANGED <<haveData, processed, linked, nSequenceId, nBlockSequenceId, failedChild,
                 candidates, unlinked, tip, phase, mostWork, calls, aborted, disk>>

\* A flush that stops after the block index is one the process died in.
ProcessNewBlock(t, b, requested, pruned, how) ==
  /\ Ready(t)
  /\ HeaderAccepted(b)
  /\ ~Ignored(b, requested)
  /\ b \in Checked
  /\ pruned # {} <=> how # "nothing"
  /\ pruned \subseteq Prunable(tip)
  /\ known' = known \cup {b}
  /\ ReceivedBlockTransactions(b, pruned)
  /\ LET changed == dirty \cup pruned \cup {b}
     IN /\ FlushStateToDisk([known |-> known', haveData |-> haveData', processed |-> processed',
                             failedValid |-> failedValid, failedChild |-> failedChild],
                            changed, tip, how)
        /\ dirty' = IF how = "nothing" THEN changed ELSE {}
  /\ calls' = Counted(pruned, how)
  /\ aborted' = (how = "index")
  /\ Enter(t, "accepted")
  /\ UNCHANGED <<failed, tip>>
-----------------------------------------------------------------------------
\* Mutant: the search ends with the first candidate.
FindMostWorkChain_Once(cands, child, waiting) ==
  LET best == CHOOSE c \in cands : \A d \in cands \ {c} : Worse(d, c)
      off == Ancestors(best) \ chainActive
      stop == {b \in off : b \in failedValid \cup child \/ b \notin haveData}
  IN [block |-> IF stop = {} THEN best ELSE Absent,
      candidates |-> cands \ stop, failedChild |-> child, unlinked |-> waiting]

\* FindMostWorkChain: the best candidate all of whose blocks off the active
\* chain are there and not marked; the ones passed over leave the candidates
RECURSIVE FindMostWorkChain(_, _, _)
FindMostWorkChain(cands, child, waiting) ==
  IF cands = {}
    THEN [block |-> Absent, candidates |-> cands, failedChild |-> child, unlinked |-> waiting]
    ELSE LET best == CHOOSE c \in cands : \A d \in cands \ {c} : Worse(d, c)
             off == Ancestors(best) \ chainActive
             marked == failedValid \cup child
             stop == {b \in off : b \in marked \/ b \notin haveData}
             test == CHOOSE b \in stop : \A d \in stop : Height(d) <= Height(b)
             above == {b \in off : Height(b) > Height(test)}
         IN IF stop = {}
              THEN [block |-> best, candidates |-> cands, failedChild |-> child,
                    unlinked |-> waiting]
              ELSE FindMostWorkChain(cands \ (above \cup {test}),
                                     IF test \in marked THEN child \cup above ELSE child,
                                     IF test \in marked THEN waiting ELSE waiting \cup above)

\* pindexMostWork of a thread, looked for only when the thread has none
MostWork(t) ==
  IF mostWork[t] = Absent
    THEN FindMostWorkChain(candidates, failedChild, unlinked)
    ELSE [block |-> mostWork[t], candidates |-> candidates, failedChild |-> failedChild,
          unlinked |-> unlinked]

\* The first round of ActivateBestChain, and the ones after a step
InActivation(t) == ~aborted /\ phase[t] \in {"accepted", "activating", "importing"}

\* "Whether we have anything to do at all": the call returns
NothingToDo(t) ==
  /\ InActivation(t)
  /\ \E found \in {MostWork(t)} :
       /\ found.block \in {Absent, tip}
       /\ candidates' = found.candidates
       /\ failedChild' = found.failedChild
       /\ unlinked' = found.unlinked
  /\ Enter(t, "idle")
  /\ UNCHANGED <<index, failedValid, tip, calls, aborted, stored>>

\* PruneBlockIndexCandidates
NotWorse(cands, b) == {c \in cands : ~Worse(c, b)}

\* Mutants: an invalid block is not marked; it is marked once it is the tip.
Connect_Unmarked(acc, b) ==
  CASE acc.stop -> acc
    [] b \notin haveData -> [acc EXCEPT !.stop = TRUE, !.aborted = TRUE]
    [] b \in Refused -> [acc EXCEPT !.stop = TRUE, !.failure = TRUE]
    [] b \notin Connectable -> [acc EXCEPT !.stop = TRUE, !.invalid = TRUE,
                                           !.candidates = @ \ {b}]
    [] OTHER -> [acc EXCEPT !.tip = b, !.candidates = NotWorse(@, b),
                            !.stop = Work[b] > Work[tip]]
Connect_Late(acc, b) ==
  CASE acc.stop -> acc
    [] b \notin haveData -> [acc EXCEPT !.stop = TRUE, !.aborted = TRUE]
    [] b \in Refused -> [acc EXCEPT !.stop = TRUE, !.failure = TRUE]
    [] b \notin Connectable -> [acc EXCEPT !.stop = TRUE, !.invalid = TRUE,
                                           !.failedValid = @ \cup {b}, !.tip = b,
                                           !.candidates = @ \ {b}]
    [] OTHER -> [acc EXCEPT !.tip = b, !.candidates = NotWorse(@, b),
                            !.stop = Work[b] > Work[tip]]

\* ConnectTip of the blocks towards the target, until the chain has more work
\* than the old tip, a block is invalid (InvalidBlockFound), cannot be read or
\* is refused without a verdict: that one is not marked and stays a candidate
Connect(acc, b) ==
  CASE acc.stop -> acc
    [] b \notin haveData -> [acc EXCEPT !.stop = TRUE, !.aborted = TRUE]
    [] b \in Refused -> [acc EXCEPT !.stop = TRUE, !.failure = TRUE]
    [] b \notin Connectable -> [acc EXCEPT !.stop = TRUE, !.invalid = TRUE,
                                           !.failedValid = @ \cup {b},
                                           !.candidates = @ \ {b}]
    [] OTHER -> [acc EXCEPT !.tip = b, !.candidates = NotWorse(@, b),
                            !.stop = Work[b] > Work[tip]]

\* DisconnectTip down to the fork, which stops at a block whose data is gone
Disconnect(to) ==
  LET lost == {b \in chainActive \ Ancestors(to) : b \notin haveData}
  IN IF lost = {} THEN to ELSE CHOOSE b \in lost : \A d \in lost : Height(d) <= Height(b)

\* ActivateBestChainStep towards block: what it leaves behind
StepTowards(block, cands) ==
  LET common == chainActive \cap Ancestors(block)
      fork == CHOOSE b \in common : Height(b) = Cardinality(common) - 1
      base == Disconnect(fork)
  IN FoldLeft(Connect,
              [tip |-> base, candidates |-> cands, failedValid |-> failedValid,
               invalid |-> FALSE, failure |-> FALSE, stop |-> base # fork, aborted |-> base # fork],
              SelectSeq(Path[block], LAMBDA b : Height(b) > Height(fork)))

\* The full flushes of DisconnectTip and ConnectTip, before the tip is
\* updated: the chain state is at block.  ConnectTip's may prune.  Of several
\* in a step the last one counts.
FlushPoint(to, block, pruned) ==
  \/ block \in Ancestors(to) \ chainActive /\ pruned \subseteq Prunable(Parent(block))
  \/ pruned = {} /\ \E d \in chainActive \ Ancestors(to) : block = Parent(d)

\* A step towards block.  After a failure ActivateBestChain returns, with the
\* chain as the step has left it; in ThreadImport this ends the node.
ActivateBestChainStep(t, block, pruned, how) ==
  /\ InActivation(t)
  /\ \E found \in {MostWork(t)} :
       /\ found.block \notin {Absent, tip}
       /\ \E after \in {StepTowards(found.block, found.candidates)} :
            /\ how = "nothing" \/ FlushPoint(after.tip, block, pruned)
            /\ tip' = IF how = "index" THEN block ELSE after.tip
            /\ candidates' = after.candidates
            /\ failedValid' = IF how = "index" THEN failedValid ELSE after.failedValid
            /\ mostWork' = [mostWork EXCEPT ![t] = IF after.invalid \/ after.failure THEN Absent
                                                                                  ELSE found.block]
            /\ phase' = [phase EXCEPT ![t] = CASE after.failure -> "idle"
                                               [] after.tip = found.block -> "finishing"
                                               [] @ = "accepted" -> "activating"
                                               [] OTHER -> @]
            /\ aborted' = (after.aborted \/ how = "index" \/ (after.failure /\ phase[t] = "importing"))
       /\ failedChild' = found.failedChild
       /\ unlinked' = found.unlinked \ pruned
  /\ haveData' = haveData \ pruned
  /\ FlushStateToDisk([known |-> known, haveData |-> haveData', processed |-> processed,
                       failedValid |-> failedValid, failedChild |-> failedChild'],
                      dirty \cup pruned, block, how)
  /\ dirty' = (failedValid' \ failedValid) \cup (IF how = "nothing" THEN dirty ELSE {})
  /\ calls' = Counted(pruned, how)
  /\ UNCHANGED <<known, processed, linked, nSequenceId, nBlockSequenceId>>

\* FlushStateToDisk with nothing to prune, in the state as it is
Memory == [known |-> known, haveData |-> haveData, processed |-> processed,
           failedValid |-> failedValid, failedChild |-> failedChild]
Flush(how) ==
  /\ ~aborted
  /\ {} \in Prunings(how)
  /\ FlushStateToDisk(Memory, dirty, tip, how)
  /\ dirty' = IF how = "nothing" THEN dirty ELSE {}
  /\ calls' = Counted({}, how)

\* The end of ActivateBestChain: CheckBlockIndex and the periodic write
Finish(t, how) ==
  /\ phase[t] = "finishing"
  /\ Flush(how)
  /\ Enter(t, "idle")
  /\ UNCHANGED <<index, failed, candidates, unlinked, tip, aborted>>

\* The periodic write of the handler of a transaction
PeriodicFlush(how) ==
  /\ how # "nothing"
  /\ Flush(how)
  /\ UNCHANGED <<index, failed, candidates, unlinked, tip, phase, mostWork, aborted>>

\* A round of ActivateBestChain
Run(t) ==
  \/ NothingToDo(t)
  \/ \E how \in Flushes :
       \/ \E block \in FlushPoints(how), pruned \in Prunings(how) :
            ActivateBestChainStep(t, block, pruned, how)
       \/ Finish(t, how)
-----------------------------------------------------------------------------
\* The RPC calls invalidateblock and reconsiderblock, up to ActivateBestChain
InvalidateBlock(t, b, block, how) ==
  /\ Ready(t)
  /\ b \in known \ {Genesis}
  /\ calls.invalidate < MaxInvalidations
  /\ b \in chainActive => Disconnect(Parent(b)) = Parent(b)  \* else the node stops
  /\ LET walked == chainActive \cap Descendants(b)
         base == IF b \in chainActive THEN Parent(b) ELSE tip
         marked == failedValid \cup failedChild \cup walked \cup {b}
         \* marked when the flush happens, and in the end
         gone == {d \in walked : how # "nothing" => Height(d) > Height(block)}
         seen == IF how = "index" THEN gone ELSE walked
     IN /\ how = "nothing" \/ FlushPoint(base, block, {})
        /\ tip' = IF how = "index" THEN block ELSE base
        /\ failedValid' = failedValid \cup {b}
        /\ failedChild' = failedChild \cup seen
        /\ candidates' = (candidates \ (walked \cup {b}))
                            \cup NotWorse((known \cap linked) \ marked, base)
        /\ FlushStateToDisk([Memory EXCEPT !.failedValid = @ \cup {b}, !.failedChild = @ \cup gone],
                            dirty \cup gone \cup {b}, block, how)
        /\ dirty' = IF how = "nothing" THEN dirty \cup walked \cup {b} ELSE seen \ gone
  /\ calls' = [Counted({}, how) EXCEPT !.invalidate = @ + 1]
  /\ aborted' = (how = "index")
  /\ Enter(t, "activating")
  /\ UNCHANGED <<index, unlinked>>

ResetBlockFailureFlags(t, b) ==
  /\ Ready(t)
  /\ b \in known
  /\ calls.reconsider < MaxReconsiderations
  /\ calls' = [calls EXCEPT !.reconsider = @ + 1]
  /\ LET cleared == {d \in known \cap Descendants(b) : Failed(d)}
     IN /\ failedValid' = failedValid \ (cleared \cup Ancestors(b))
        /\ failedChild' = failedChild \ (cleared \cup Ancestors(b))
        /\ candidates' = candidates \cup {d \in cleared \cap linked : Worse(tip, d)}
        /\ dirty' = dirty \cup cleared \cup {d \in Ancestors(b) : Failed(d)}
  /\ Enter(t, "activating")
  /\ UNCHANGED <<index, unlinked, tip, aborted, disk>>
-----------------------------------------------------------------------------
\* Mutant: mapBlocksUnlinked is not rebuilt.
Loaded_NoneWaiting(entries, block) ==
  LET chained == {b \in entries.known : Ancestors(b) \subseteq entries.processed}
      valid == chained \ (entries.failedValid \cup entries.failedChild)
      ids == [b \in Blocks |-> 0]
  IN [linked |-> chained, ids |-> ids, unlinked |-> {},
      candidates |-> {b \in valid : ~WorseBy(ids, b, block)}]

\* LoadBlockIndexDB: what is worked out again from the entries of the block
\* tree database and the best block of the chain state
Loaded(entries, block) ==
  LET chained == {b \in entries.known : Ancestors(b) \subseteq entries.processed}
      valid == chained \ (entries.failedValid \cup entries.failedChild)
      ids == [b \in Blocks |-> 0]
  IN [linked |-> chained,
      ids |-> ids,
      unlinked |-> {b \in entries.processed \ {Genesis} : Parent(b) \notin chained},
      candidates |-> {b \in valid : ~WorseBy(ids, b, block)}]

\* The node stops, with a last flush, or dies, and starts again.  It may prune
\* (PruneAndFlush), and one thread activates the best chain (ThreadImport).
Restart(t, clean, pruned, how) ==
  /\ calls.restart < MaxRestarts
  /\ LET entries == IF clean THEN WriteBatchSync(Memory, dirty) ELSE disk.index
         block == IF clean THEN tip ELSE disk.tip
         loaded == Loaded(entries, block)
         kept == [entries EXCEPT !.haveData = @ \ pruned]
     IN /\ pruned \subseteq {b \in entries.haveData : Height(b) + KeepBlocks <= Height(block)}
        /\ pruned # {} <=> how # "nothing"
        /\ calls' = [Counted(pruned, how) EXCEPT !.restart = @ + 1]
        /\ known' = kept.known
        /\ haveData' = kept.haveData
        /\ processed' = kept.processed
        /\ failedValid' = kept.failedValid
        /\ failedChild' = kept.failedChild
        /\ linked' = loaded.linked
        /\ nSequenceId' = loaded.ids
        /\ nBlockSequenceId' = 1
        /\ unlinked' = loaded.unlinked \ pruned
        /\ candidates' = loaded.candidates
        /\ tip' = block
        /\ disk' = [index |-> kept, tip |-> block]
        /\ aborted' = (loaded.candidates = {} \/ how = "index")
  /\ dirty' = {}
  /\ phase' = [u \in Threads |-> IF u = t THEN "importing" ELSE "idle"]
  /\ mostWork' = [u \in Threads |-> Absent]

Next ==
  \/ \E b \in Blocks \ {Genesis} : AcceptBlockHeader(b)
  \/ \E t \in Threads, b \in Blocks \ {Genesis}, r \in BOOLEAN :
       \/ ProcessKnownBlock(t, b, r)
       \/ ProcessBadBlock(t, b, r)
       \/ \E how \in Flushes : \E pruned \in Prunings(how) : ProcessNewBlock(t, b, r, pruned, how)
  \/ \E t \in Threads : Run(t)
  \/ \E how \in Flushes : PeriodicFlush(how)
  \/ \E t \in Threads, b \in Blocks :
       \/ \E how \in Flushes : \E block \in FlushPoints(how) : InvalidateBlock(t, b, block, how)
       \/ ResetBlockFailureFlags(t, b)
  \/ \E t \in Threads, clean \in BOOLEAN, how \in Flushes :
       \E pruned \in Prunings(how) : Restart(t, clean, pruned, how)

\* A thread inside ActivateBestChain goes on: nothing it waits for is kept
\* from it but cs_main, which every step gives back
Fairness == \A t \in Threads : WF_vars(Run(t))

Spec == Init /\ [][Next]_vars /\ Fairness
-----------------------------------------------------------------------------
TypeOK ==
  /\ known \subseteq Blocks /\ haveData \subseteq processed /\ processed \subseteq known
  /\ linked \subseteq processed
  /\ nSequenceId \in [Blocks -> Nat] /\ nBlockSequenceId \in Nat
  /\ failedValid \subseteq known /\ failedChild \subseteq known
  /\ candidates \subseteq linked /\ unlinked \subseteq processed
  /\ tip \in linked
  /\ phase \in [Threads -> {"idle", "accepted", "activating", "importing", "finishing"}]
  /\ mostWork \in [Threads -> Blocks \cup {Absent}]
  /\ aborted \in BOOLEAN
  /\ dirty \subseteq known
  /\ \A flag \in DOMAIN disk.index : disk.index[flag] \subseteq disk.index.known
  /\ disk.tip \in disk.index.processed

\* The points at which CheckBlockIndex runs
BlockIndexIsChecked == ~aborted /\ \E t \in Threads : phase[t] \in {"accepted", "finishing"}

Invalid(b) == Ancestors(b) \cap failedValid # {}
Missing(b) == ~(Ancestors(b) \subseteq haveData)

(* The assertions of CheckBlockIndex about setBlockIndexCandidates: a linked  *)
(* block that is not worse than the tip, not known to be invalid and has its  *)
(* data and its ancestors' is a candidate, so is the tip, and a block worse   *)
(* than the tip is none.  They hold if no block is Refused: a failure leaves  *)
(* the node on a block that is worse than all candidates.                     *)
CandidatesAreRight ==
  BlockIndexIsChecked =>
    \A b \in known :
      IF ~Worse(b, tip) /\ b \in linked
        THEN ~Invalid(b) /\ (~Missing(b) \/ b = tip) => b \in candidates
        ELSE b \notin candidates

(* The assertions of CheckBlockIndex about mapBlocksUnlinked: a block whose   *)
(* data came before an ancestor's is waiting there, so does one that could    *)
(* not be activated for want of pruned data, and no other block does.         *)
UnlinkedAreRight ==
  BlockIndexIsChecked =>
    \A b \in known :
      /\ b \in haveData /\ b \notin linked /\ ~Invalid(b) => b \in unlinked
      /\ b \in unlinked => b \in haveData /\ Missing(b)
      /\ /\ b \in haveData /\ b \in linked /\ Missing(b) /\ ~Invalid(b)
         /\ ~Worse(b, tip) /\ b \notin candidates
         => b \in unlinked

(* The assertion of CheckBlockIndex that a block is marked as failed only if  *)
(* it or an ancestor is marked as invalid by itself.                          *)
FailuresHaveACause ==
  BlockIndexIsChecked => \A b \in known : Failed(b) => Invalid(b)

(* A block becomes part of the chain count, nChainTx, exactly when it and all *)
(* its ancestors were received, in whatever order they came and whether they  *)
(* came before a restart or after it.  No other block has a sequence number.  *)
LinkedWhenComplete ==
  \A b \in known :
    /\ (b \in linked) <=> (Ancestors(b) \subseteq processed)
    /\ nSequenceId[b] > 0 => b \in linked

(* The assertion of PruneBlockIndexCandidates: the tip or a block to be       *)
(* reached from it is a candidate, also when the index was just loaded.       *)
CandidatesRemain == candidates # {}

(* No block of the active chain is marked as failed, by itself or through an  *)
(* ancestor: what ActivateBestChain takes for granted of the active chain.    *)
ActiveChainIsValid == ~aborted => \A b \in chainActive : ~Failed(b)

(* When no call is in progress, the active chain is the best one: no chain    *)
(* that is complete and not marked as invalid is better than it.  There is    *)
(* one excuse, a failed activation: the chain then ends below a block that    *)
(* ConnectBlock refuses without a verdict, on the way to the best chain; the  *)
(* node has left its old chain and stays there until a better chain comes or  *)
(* an operator invalidates the block.                                         *)
BestChainIsActive ==
  (~aborted /\ \A t \in Threads : phase[t] = "idle") =>
    LET better == {b \in known : ~Missing(b) /\ ~Invalid(b) /\ Worse(tip, b)}
    IN \/ better = {}
       \/ \E r \in Refused : /\ Parent(r) = tip
                             /\ \E b \in better : r \in Ancestors(b) /\ \A c \in better : ~Worse(b, c)

(* Every call of ActivateBestChain returns, whatever the blocks turn out to   *)
(* be.                                                                        *)
ActivationReturns ==
  \A t \in Threads : phase[t] # "idle" ~> (phase[t] = "idle" \/ aborted)
=============================================================================
