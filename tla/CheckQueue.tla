----------------------------- MODULE CheckQueue -----------------------------
(***************************************************************************)
(* CCheckQueue, the queue on which ConnectBlock has the scripts of a block *)
(* verified by a pool of threads, with its controller.  Everything under   *)
(* the mutex is one step; checks are executed outside it.  A waiting       *)
(* thread may be woken without a notification, and is interrupted when the *)
(* node shuts down: the exception leaves Loop from within cond.wait.       *)
(***************************************************************************)
EXTENDS Integers, Sequences, FiniteSets

CONSTANTS
  Master,      \* the thread that connects blocks
  Workers,     \* the threads that run Thread()
  nBatchSize,
  MaxRounds,   \* bound: blocks connected
  MaxChecks,   \* bound: checks of a block
  Interrupts   \* whether the threads are interrupted

ConstantsAssumption ==
  /\ IsFiniteSet(Workers) /\ Master \notin Workers
  /\ nBatchSize \in Nat \ {0} /\ MaxChecks \in Nat
  /\ Interrupts \in BOOLEAN

Threads == Workers \cup {Master}

VARIABLES
  queue,     \* results of the checks still queued; the end is served first
  nIdle, nTotal, nTodo, fAllOk,
  pc,        \* per thread: "out", "enter", "wait", "woken", "exec", "gone"
  batch,     \* vChecks of each thread
  fOk,
  nNow,      \* checks of the batch that was taken, 0 before the first
  round,     \* blocks begun
  phase,     \* of the master's controller: "none", "open", "wait", "done"
  added,     \* the checks of this block
  result,    \* what Wait returned
  interrupted, \* the threads interrupt_all has reached
  idleAtStart  \* what the constructor of the controller asserts

counters == <<nIdle, nTotal, nTodo, fAllOk>>
control == <<round, phase, added, result, idleAtStart, interrupted>>
vars == <<queue, counters, pc, batch, fOk, nNow, control>>

IsIdle == nTotal = nIdle /\ nTodo = 0 /\ fAllOk

Waiting(pcs, S) == {t \in S : pcs[t] = "wait"}
NotifyAll(pcs, S) == [t \in Threads |-> IF t \in Waiting(pcs, S) THEN "woken" ELSE pcs[t]]
\* One of the threads waiting on the condition, if there is one
NotifyOne(pcs, S) ==
  IF Waiting(pcs, S) = {} THEN {pcs}
  ELSE {[pcs EXCEPT ![t] = "woken"] : t \in Waiting(pcs, S)}

Init ==
  /\ queue = <<>>
  /\ nIdle = 0 /\ nTotal = 0 /\ nTodo = 0 /\ fAllOk = TRUE
  /\ pc = [t \in Threads |-> IF t = Master THEN "out" ELSE "enter"]
  /\ batch = [t \in Threads |-> <<>>]
  /\ fOk = [t \in Threads |-> TRUE]
  /\ nNow = [t \in Threads |-> 0]
  /\ round = 0 /\ phase = "none" /\ added = <<>>
  /\ result = TRUE /\ idleAtStart = TRUE /\ interrupted = {}

\* CCheckQueueControl::CCheckQueueControl
Construct ==
  /\ phase \in {"none", "done"}
  /\ round < MaxRounds
  /\ round' = round + 1
  /\ phase' = "open"
  /\ added' = <<>>
  /\ idleAtStart' = IsIdle
  /\ UNCHANGED <<queue, counters, pc, batch, fOk, nNow, result, interrupted>>

\* Add: one transaction's checks
Add(checks) ==
  /\ phase = "open"
  /\ Len(added) + Len(checks) <= MaxChecks
  /\ queue' = queue \o checks
  /\ added' = added \o checks
  /\ nTodo' = nTodo + Len(checks)
  /\ pc' \in IF checks = <<>> THEN {pc}
             ELSE IF Len(checks) = 1 THEN NotifyOne(pc, Workers) ELSE {NotifyAll(pc, Workers)}
  /\ UNCHANGED <<nIdle, nTotal, fAllOk, batch, fOk, nNow, round, phase, result, idleAtStart,
                 interrupted>>

\* Wait, called by ConnectBlock or by the destructor of the controller
Wait ==
  /\ phase = "open"
  /\ phase' = "wait"
  /\ pc' = [pc EXCEPT ![Master] = "enter"]
  /\ nNow' = [nNow EXCEPT ![Master] = 0]
  /\ UNCHANGED <<queue, counters, batch, fOk, round, added, result, idleAtStart,
                 interrupted>>

Smaller(a, b) == IF a < b THEN a ELSE b
Larger(a, b) == IF a > b THEN a ELSE b
BatchOf(size, total, idle) == Larger(1, Smaller(nBatchSize, size \div (total + idle + 1)))

\* Mutant: checks that other threads have taken are not waited for.
MayReturn_Empty(t, todo) == t = Master

\* Whether a thread that finds the queue empty leaves Loop; fQuit is never set
MayReturn(t, todo) == t = Master /\ todo = 0

\* The rest of the critical section once the clean-up left these counters
Serve(t, total, idle, todo, allOk, pcs) ==
  IF queue # <<>>
  THEN LET n == BatchOf(Len(queue), total, idle)
       IN /\ nNow' = [nNow EXCEPT ![t] = n]
          /\ batch' = [batch EXCEPT ![t] = SubSeq(queue, Len(queue) - n + 1, Len(queue))]
          /\ queue' = SubSeq(queue, 1, Len(queue) - n)
          /\ fOk' = [fOk EXCEPT ![t] = allOk]
          /\ pc' = [pcs EXCEPT ![t] = "exec"]
          /\ nTotal' = total /\ nIdle' = idle /\ nTodo' = todo /\ fAllOk' = allOk
          /\ UNCHANGED control
  ELSE IF MayReturn(t, todo)
  THEN /\ nTotal' = total - 1
       /\ result' = allOk
       /\ fAllOk' = TRUE
       /\ phase' = "done"
       /\ pc' = [pcs EXCEPT ![t] = "out"]
       /\ nIdle' = idle /\ nTodo' = todo
       /\ UNCHANGED <<queue, batch, fOk, nNow, round, added, idleAtStart, interrupted>>
  ELSE /\ nIdle' = idle + 1
       /\ pc' = [pcs EXCEPT ![t] = "wait"]
       /\ nTotal' = total /\ nTodo' = todo /\ fAllOk' = allOk
       /\ UNCHANGED <<queue, batch, fOk, nNow, control>>

\* Mutant: the last batch wakes nobody.
EnterLoop_NoNotify(t) ==
  /\ pc[t] = "enter"
  /\ IF nNow[t] > 0
       THEN Serve(t, nTotal, nIdle, nTodo - nNow[t], fAllOk /\ fOk[t], pc)
       ELSE Serve(t, nTotal + 1, nIdle, nTodo, fAllOk, pc)

\* From the lock to the release of it: the clean-up of the previous batch, then
\* a batch, the return or the wait
EnterLoop(t) ==
  /\ pc[t] = "enter"
  /\ IF nNow[t] > 0
       THEN LET todo == nTodo - nNow[t]
            IN \E pcs \in IF todo = 0 /\ t # Master THEN NotifyOne(pc, {Master}) ELSE {pc} :
                 Serve(t, nTotal, nIdle, todo, fAllOk /\ fOk[t], pcs)
       ELSE Serve(t, nTotal + 1, nIdle, nTodo, fAllOk, pc)

\* cond.wait returns
WakeUp(t) ==
  /\ pc[t] = "woken"
  /\ Serve(t, nTotal, nIdle - 1, nTodo, fAllOk, pc)

\* Executes the batch; after a failure the rest is skipped
Execute(t) ==
  /\ pc[t] = "exec"
  /\ fOk' = [fOk EXCEPT ![t] = @ /\ \A i \in DOMAIN batch[t] : batch[t][i]]
  /\ batch' = [batch EXCEPT ![t] = <<>>]
  /\ pc' = [pc EXCEPT ![t] = "enter"]
  /\ UNCHANGED <<queue, counters, nNow, control>>

SpuriousWakeUp(t) ==
  /\ pc[t] = "wait"
  /\ pc' = [pc EXCEPT ![t] = "woken"]
  /\ UNCHANGED <<queue, counters, batch, fOk, nNow, control>>

\* A worker ends; the exception takes the master to the destructor of its
\* controller, which waits again.  Neither counter is corrected.
Interrupt(t) ==
  /\ Interrupts
  /\ t \notin interrupted
  /\ interrupted' = interrupted \cup {t}
  /\ pc[t] \in {"wait", "woken"}
  /\ pc' = [pc EXCEPT ![t] = IF t = Master THEN "enter" ELSE "gone"]
  /\ nNow' = [nNow EXCEPT ![t] = 0]
  /\ UNCHANGED <<queue, counters, batch, fOk, round, phase, added, result, idleAtStart>>

\* Nothing left to do: the last block was connected and every worker waits.
AllDone ==
  /\ round = MaxRounds /\ phase = "done"
  /\ \A t \in Workers : pc[t] \in {"wait", "gone"}
  /\ UNCHANGED vars

Batches == UNION {[1..n -> BOOLEAN] : n \in 0..MaxChecks}
Next ==
  \/ Construct
  \/ \E checks \in Batches : Add(checks)
  \/ Wait
  \/ \E t \in Threads : EnterLoop(t)
  \/ \E t \in Threads : WakeUp(t)
  \/ \E t \in Threads : Execute(t)
  \/ \E t \in Threads : SpuriousWakeUp(t)
  \/ \E t \in Threads : Interrupt(t)
  \/ AllDone

\* Every runnable thread gets to run and to lock the mutex.  Nothing makes the
\* master begin a block or add checks, and no thread need be woken.
Run(t) == EnterLoop(t) \/ WakeUp(t) \/ Execute(t)
Fairness == \A t \in Threads : WF_vars(Run(t))

Spec == Init /\ [][Next]_vars /\ Fairness
-----------------------------------------------------------------------------
TypeOK ==
  /\ queue \in Batches /\ added \in Batches
  /\ nTotal \in Nat /\ nIdle \in 0..nTotal
  /\ nTodo \in 0..MaxChecks
  /\ pc \in [Threads -> {"out", "enter", "wait", "woken", "exec", "gone"}]
  /\ batch \in [Threads -> Batches] /\ fOk \in [Threads -> BOOLEAN]
  /\ nNow \in [Threads -> 0..nBatchSize]
  /\ phase \in {"none", "open", "wait", "done"}
  /\ {fAllOk, result, idleAtStart} \subseteq BOOLEAN
  /\ interrupted \subseteq Threads

(* Wait returns true exactly if every check of the block is good, although *)
(* threads skip checks once one has failed and no thread sees all of them. *)
ResultIsRight ==
  phase = "done" => (result <=> \A i \in DOMAIN added : added[i])

(* When Wait returns no check of the block is queued or being executed:    *)
(* the inputs the checks point to may be destroyed.                        *)
WaitIsComplete ==
  phase = "done" => queue = <<>> /\ \A t \in Threads : batch[t] = <<>> /\ pc[t] # "exec"

(* The constructor of the controller asserts that the queue is idle.  It   *)
(* holds as soon as the previous Wait has returned, whatever the workers   *)
(* that were woken for nothing are doing, and after interruptions.         *)
StartsIdle == idleAtStart

(* The master sleeps in Wait only while a worker still has checks of the   *)
(* block: the last of them to account for its batch wakes it.  Otherwise   *)
(* nobody would, and ConnectBlock would hang with cs_main locked.          *)
SleepsForOthers ==
  pc[Master] = "wait" =>
    \E t \in Workers : pc[t] = "exec" \/ (pc[t] = "enter" /\ nNow[t] > 0)

(* A master that waits gets its result, although it may find the queue     *)
(* empty and sleep while workers have the last checks.                     *)
WaitReturns == (phase = "wait") ~> (phase = "done")
=============================================================================
