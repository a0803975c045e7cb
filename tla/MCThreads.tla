----------------------------- MODULE MCThreads ------------------------------
(***************************************************************************)
(* Small instances of the two thread pools of the node: the queue of       *)
(* script checks and the scheduler.  They share nothing, so a behaviour is *)
(* one of one instance, named by part; the variables of the others are     *)
(* Absent.                                                                 *)
(***************************************************************************)
EXTENDS Integers, FiniteSets, Sequences

CONSTANTS Absent, Master, w1, w2, a, b, c  \* model values

VARIABLES
  part, pc,
  queue, nIdle, nTotal, nTodo, fAllOk, batch, fOk, nNow, round, phase, added, result,
  interrupted, idleAtStart,
  now, taskQueue, deadline, running, stopRequested, stopWhenEmpty, nThreadsServicingQueue,
  scheduled, served

queueVars == <<queue, nIdle, nTotal, nTodo, fAllOk, batch, fOk, nNow, round, phase, added,
               result, interrupted, idleAtStart>>
scheduleVars == <<now, taskQueue, deadline, running, stopRequested, stopWhenEmpty,
                  nThreadsServicingQueue, scheduled, served>>
vars == <<part, pc, queueVars, scheduleVars>>

\* Two workers verify two blocks and may be interrupted at any time.
Pool == INSTANCE CheckQueue WITH
  Workers <- {w1, w2}, nBatchSize <- 2, MaxRounds <- 2, MaxChecks <- 3, Interrupts <- TRUE

\* One worker verifies a block with more checks than batches hold.
Batches == INSTANCE CheckQueue WITH
  Workers <- {w1}, nBatchSize <- 2, MaxRounds <- 1, MaxChecks <- 6, Interrupts <- FALSE

\* One thread serves three tasks, of which a repeats: the scheduler of the node.
Node == INSTANCE Scheduler WITH
  Threads <- {w1}, Tasks <- {a, b, c}, Period <- [t \in {a, b, c} |-> IF t = a THEN 2 ELSE 0],
  MaxTime <- 4

\* Two threads serve two tasks, of which a repeats: a draining stop never ends.
Pair == INSTANCE Scheduler WITH
  Threads <- {w1, w2}, Tasks <- {a, b}, Period <- [t \in {a, b} |-> IF t = a THEN 2 ELSE 0],
  MaxTime <- 4

\* Two threads serve two tasks that do not repeat.
Once == INSTANCE Scheduler WITH
  Threads <- {w1, w2}, Tasks <- {a, b}, Period <- [t \in {a, b} |-> 0], MaxTime <- 3

ASSUME Pool!ConstantsAssumption /\ Batches!ConstantsAssumption
ASSUME Node!ConstantsAssumption /\ Pair!ConstantsAssumption /\ Once!ConstantsAssumption

NoQueue == /\ queue = Absent /\ nIdle = Absent /\ nTotal = Absent /\ nTodo = Absent
           /\ fAllOk = Absent /\ batch = Absent /\ fOk = Absent /\ nNow = Absent
           /\ round = Absent /\ phase = Absent /\ added = Absent /\ result = Absent
           /\ interrupted = Absent /\ idleAtStart = Absent
NoSchedule == /\ now = Absent /\ taskQueue = Absent /\ deadline = Absent /\ running = Absent
              /\ stopRequested = Absent /\ stopWhenEmpty = Absent
              /\ nThreadsServicingQueue = Absent /\ scheduled = Absent /\ served = Absent

Scheduling == part \in {"node", "pair", "once"}

Init ==
  \/ part = "pool" /\ Pool!Init /\ NoSchedule
  \/ part = "batches" /\ Batches!Init /\ NoSchedule
  \/ part = "node" /\ Node!Init /\ NoQueue
  \/ part = "pair" /\ Pair!Init /\ NoQueue
  \/ part = "once" /\ Once!Init /\ NoQueue

PoolNext == part = "pool" /\ Pool!Next /\ UNCHANGED <<part, scheduleVars>>
BatchesNext == part = "batches" /\ Batches!Next /\ UNCHANGED <<part, scheduleVars>>
NodeNext == part = "node" /\ Node!Next /\ UNCHANGED <<part, queueVars>>
PairNext == part = "pair" /\ Pair!Next /\ UNCHANGED <<part, queueVars>>
OnceNext == part = "once" /\ Once!Next /\ UNCHANGED <<part, queueVars>>
\* Every thread has left serviceQueue: the scheduler may be destroyed.
Stopped == Scheduling /\ (\A t \in DOMAIN pc : pc[t] = "done") /\ UNCHANGED vars
\* A queue that is to be drained waits for a repeating task, past the bound on time.
Repeats ==
  /\ part \in {"node", "pair"} /\ stopWhenEmpty /\ now = 4
  /\ \A t \in DOMAIN pc : pc[t] \in {"waitUntil", "done"}
  /\ UNCHANGED vars
Next == PoolNext \/ BatchesNext \/ NodeNext \/ PairNext \/ OnceNext \/ Stopped \/ Repeats

\* That of CheckQueue and Scheduler: runnable threads run, and time passes.
Fairness ==
  /\ \A t \in {w1, w2, Master} : WF_vars(part = "pool" /\ Pool!Run(t) /\ UNCHANGED <<part, scheduleVars>>)
  /\ \A t \in {w1, Master} : WF_vars(part = "batches" /\ Batches!Run(t) /\ UNCHANGED <<part, scheduleVars>>)
  /\ WF_vars(part = "node" /\ Node!Tick /\ UNCHANGED <<part, queueVars>>)
  /\ WF_vars(part = "node" /\ Node!Run(w1) /\ UNCHANGED <<part, queueVars>>)
  /\ WF_vars(part = "pair" /\ Pair!Tick /\ UNCHANGED <<part, queueVars>>)
  /\ \A t \in {w1, w2} : WF_vars(part = "pair" /\ Pair!Run(t) /\ UNCHANGED <<part, queueVars>>)
  /\ WF_vars(part = "once" /\ Once!Tick /\ UNCHANGED <<part, queueVars>>)
  /\ \A t \in {w1, w2} : WF_vars(part = "once" /\ Once!Run(t) /\ UNCHANGED <<part, queueVars>>)

Spec == Init /\ [][Next]_vars /\ Fairness

-----------------------------------------------------------------------------
(* The counters of both queues fit the states of their threads.            *)
TypeOK ==
  /\ part = "pool" => Pool!TypeOK
  /\ part = "batches" => Batches!TypeOK
  /\ part = "node" => Node!TypeOK
  /\ part = "pair" => Pair!TypeOK
  /\ part = "once" => Once!TypeOK

(* CCheckQueue::Wait returns true exactly if every check is good.          *)
ResultIsRight ==
  /\ part = "pool" => Pool!ResultIsRight
  /\ part = "batches" => Batches!ResultIsRight

(* When Wait has returned no check of the block is queued or executed.     *)
WaitIsComplete ==
  /\ part = "pool" => Pool!WaitIsComplete
  /\ part = "batches" => Batches!WaitIsComplete

(* CCheckQueueControl finds the queue idle, after interruptions too.       *)
StartsIdle == part = "pool" => Pool!StartsIdle

(* A master that sleeps in Wait sleeps while a worker is busy.             *)
SleepsForOthers ==
  /\ part = "pool" => Pool!SleepsForOthers
  /\ part = "batches" => Batches!SleepsForOthers

(* A single scheduler thread runs no task before its time.                 *)
NotBeforeTime == part = "node" => Node!NotBeforeTime

(* A draining stop of the scheduler loses no task, and does not end while  *)
(* one repeats.                                                            *)
DrainServesAll ==
  /\ part = "node" => Node!DrainServesAll
  /\ part = "pair" => Pair!DrainServesAll
  /\ part = "once" => Once!DrainServesAll

(* A master that waits gets its result.                                    *)
WaitReturns == (phase = "wait") ~> (phase = "done")

(* A scheduled task is run, unless the scheduler is told to stop at once.  *)
TasksAreServed ==
  \A t \in {a, b, c} :
    (Scheduling /\ t \in scheduled) ~> (Scheduling => (t \in served \/ stopRequested))

(* Every thread leaves serviceQueue after a stop, and after a draining one *)
(* when no task repeats.                                                   *)
ThreadsLeave ==
  (Scheduling /\ (stopRequested \/ (part = "once" /\ stopWhenEmpty)))
    ~> \A t \in DOMAIN pc : pc[t] = "done"

-----------------------------------------------------------------------------
(* CCheckQueue::Wait gives the result of all the checks of its block, when *)
(* they are done, and leaves the queue as the next block expects it.       *)
ChecksAreComplete ==
  TypeOK /\ ResultIsRight /\ WaitIsComplete /\ StartsIdle /\ SleepsForOthers

(* The scheduler runs no task early and drops none when it is drained.     *)
TasksAreInTime == NotBeforeTime /\ DrainServesAll

(* Every task the scheduler takes on is run, and every thread leaves after *)
(* a stop, unless it is to drain the queue and a task repeats.             *)
TasksEnd == TasksAreServed /\ ThreadsLeave
=============================================================================
