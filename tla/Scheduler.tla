------------------------------ MODULE Scheduler -----------------------------
(***************************************************************************)
(* CScheduler: tasks with a time, and threads that service the queue.  The *)
(* mutex is released only while a thread waits or runs a task, so that     *)
(* each stretch between two of these is one step.  A wait with a deadline  *)
(* ends on a notification or when the deadline has passed, and reports a   *)
(* timeout if it has passed by the time the thread holds the mutex again.  *)
(***************************************************************************)
EXTENDS Naturals, FiniteSets

CONSTANTS
  Threads,   \* the threads that run serviceQueue
  Tasks,
  Period,    \* seconds after which a task is scheduled again, 0 for never
  MaxTime    \* bound: where the clock stops, and the last time a client asks for

ConstantsAssumption ==
  /\ IsFiniteSet(Threads) /\ Threads # {}
  /\ Period \in [Tasks -> Nat]
  /\ MaxTime \in Nat

VARIABLES
  now,
  taskQueue,   \* the scheduled tasks: records of a time and a task
  pc,          \* per thread: "begin", "waitNew", "waitUntil", "wokeNew",
               \* "wokeUntil", "run", "ran", "done"
  deadline,    \* of the last wait
  running,     \* the tasks each thread runs: at most one
  stopRequested, stopWhenEmpty,
  nThreadsServicingQueue,
  scheduled,   \* the tasks a client has scheduled
  served       \* the tasks that were run

stopping == <<stopRequested, stopWhenEmpty>>
clients == <<scheduled, served>>
vars == <<now, taskQueue, pc, deadline, running, stopping, nThreadsServicingQueue, clients>>

shouldStop == stopRequested \/ (stopWhenEmpty /\ taskQueue = {})

Init ==
  /\ now = 0
  /\ taskQueue = {}
  /\ pc = [t \in Threads |-> "begin"]
  /\ deadline = [t \in Threads |-> 0]
  /\ running = [t \in Threads |-> {}]
  /\ stopRequested = FALSE /\ stopWhenEmpty = FALSE
  /\ nThreadsServicingQueue = 0
  /\ scheduled = {} /\ served = {}

Waiting(pcs) == {t \in Threads : pcs[t] \in {"waitNew", "waitUntil"}}
Woken(p) == IF p = "waitNew" THEN "wokeNew" ELSE IF p = "waitUntil" THEN "wokeUntil" ELSE p
NotifyOne(pcs) ==
  IF Waiting(pcs) = {} THEN {pcs} ELSE {[pcs EXCEPT ![t] = Woken(@)] : t \in Waiting(pcs)}

Tick ==
  /\ now < MaxTime
  /\ now' = now + 1
  /\ UNCHANGED <<taskQueue, pc, deadline, running, stopping, nThreadsServicingQueue, clients>>

\* Mutant: no thread is woken.
schedule_Quiet(task, time) ==
  /\ taskQueue' = taskQueue \cup {[time |-> time, task |-> task]}
  /\ UNCHANGED pc

\* schedule, by a client or by a task that runs
schedule(task, time) ==
  /\ taskQueue' = taskQueue \cup {[time |-> time, task |-> task]}
  /\ pc' \in NotifyOne(pc)

ClientSchedules(task, time) ==
  /\ task \notin scheduled
  /\ time \in now..MaxTime
  /\ scheduled' = scheduled \cup {task}
  /\ schedule(task, time)
  /\ UNCHANGED <<now, deadline, running, stopping, nThreadsServicingQueue, served>>

stop(drain) ==
  /\ stopWhenEmpty' = (stopWhenEmpty \/ drain)
  /\ stopRequested' = (stopRequested \/ ~drain)
  /\ pc' = [t \in Threads |-> Woken(pc[t])]
  /\ UNCHANGED <<now, taskQueue, deadline, running, nThreadsServicingQueue, clients>>

\* The client that stops the scheduler schedules nothing more.
ClientStops(drain) ==
  /\ ~stopRequested /\ ~stopWhenEmpty
  /\ scheduled = Tasks
  /\ stop(drain)

First == CHOOSE e \in taskQueue : \A o \in taskQueue : e.time <= o.time

\* The end of serviceQueue passes the notification on.
Leave(t, n) ==
  /\ pc' \in NotifyOne([pc EXCEPT ![t] = "done"])
  /\ nThreadsServicingQueue' = n - 1
  /\ UNCHANGED <<taskQueue, deadline, running>>

\* From the top of the loop, holding the mutex, to a wait or the end.  n is the
\* number of threads that service the queue.
Continue(t, n) ==
  IF shouldStop THEN Leave(t, n)
  ELSE IF taskQueue = {}
  THEN /\ pc' = [pc EXCEPT ![t] = "waitNew"]
       /\ nThreadsServicingQueue' = n
       /\ UNCHANGED <<taskQueue, deadline, running>>
  ELSE /\ pc' = [pc EXCEPT ![t] = "waitUntil"]
       /\ deadline' = [deadline EXCEPT ![t] = First.time]
       /\ nThreadsServicingQueue' = n
       /\ UNCHANGED <<taskQueue, running>>

Begin(t) ==
  /\ pc[t] = "begin"
  /\ Continue(t, nThreadsServicingQueue + 1)
  /\ UNCHANGED <<now, stopping, clients>>

\* A wait returns without a timeout, or a task has returned.
Rejoin(t) ==
  /\ \/ pc[t] \in {"wokeNew", "ran"}
     \/ pc[t] = "wokeUntil" /\ now < deadline[t]
  /\ Continue(t, nThreadsServicingQueue)
  /\ UNCHANGED <<now, stopping, clients>>

\* Mutant: a thread woken before the time runs the task too.
TimedOut_AnyWake(t) ==
  /\ pc[t] = "wokeUntil" \/ (pc[t] = "waitUntil" /\ now >= deadline[t])
  /\ IF shouldStop \/ taskQueue = {}
       THEN Continue(t, nThreadsServicingQueue)
       ELSE /\ taskQueue' = taskQueue \ {First}
            /\ running' = [running EXCEPT ![t] = {First}]
            /\ pc' = [pc EXCEPT ![t] = "run"]
            /\ UNCHANGED <<deadline, nThreadsServicingQueue>>
  /\ UNCHANGED <<now, stopping, clients>>
\* A wait for a task returns with a timeout; if there is a task it is run.
\* Between the deadline and this step the queue may have changed.
TimedOut(t) ==
  /\ pc[t] \in {"waitUntil", "wokeUntil"} /\ now >= deadline[t]
  /\ IF shouldStop \/ taskQueue = {}
       THEN Continue(t, nThreadsServicingQueue)
       ELSE /\ taskQueue' = taskQueue \ {First}
            /\ running' = [running EXCEPT ![t] = {First}]
            /\ pc' = [pc EXCEPT ![t] = "run"]
            /\ UNCHANGED <<deadline, nThreadsServicingQueue>>
  /\ UNCHANGED <<now, stopping, clients>>

\* The task returns.  Repeat has scheduled it again, always: also after a stop.
TaskReturns(t) ==
  /\ pc[t] = "run"
  /\ running' = [running EXCEPT ![t] = {}]
  /\ \E e \in running[t] :
       /\ served' = served \cup {e.task}
       /\ LET next == now + Period[e.task]
              again == Period[e.task] > 0
          IN /\ taskQueue' = IF again THEN taskQueue \cup {[time |-> next, task |-> e.task]}
                                      ELSE taskQueue
             /\ LET returned == [pc EXCEPT ![t] = "ran"]
                IN pc' \in IF again THEN NotifyOne(returned) ELSE {returned}
  /\ UNCHANGED <<now, deadline, stopping, nThreadsServicingQueue, scheduled>>

Next ==
  \/ Tick
  \/ \E task \in Tasks : \E time \in 0..MaxTime : ClientSchedules(task, time)
  \/ \E drain \in BOOLEAN : ClientStops(drain)
  \/ \E t \in Threads : Begin(t)
  \/ \E t \in Threads : Rejoin(t)
  \/ \E t \in Threads : TimedOut(t)
  \/ \E t \in Threads : TaskReturns(t)

\* Time passes, runnable threads run and tasks return.  Nobody has to schedule
\* or to stop anything.
Run(t) == Begin(t) \/ Rejoin(t) \/ TimedOut(t) \/ TaskReturns(t)
Fairness == WF_vars(Tick) /\ \A t \in Threads : WF_vars(Run(t))

Spec == Init /\ [][Next]_vars /\ Fairness
-----------------------------------------------------------------------------
Entry == [time : Nat, task : Tasks]
TypeOK ==
  /\ now \in 0..MaxTime
  /\ taskQueue \subseteq Entry
  /\ pc \in [Threads -> {"begin", "waitNew", "waitUntil", "wokeNew", "wokeUntil", "run",
                         "ran", "done"}]
  /\ deadline \in [Threads -> Nat]
  /\ \A t \in Threads : /\ running[t] \subseteq Entry
                        /\ Cardinality(running[t]) = IF pc[t] = "run" THEN 1 ELSE 0
  /\ nThreadsServicingQueue = Cardinality({t \in Threads : pc[t] \notin {"begin", "done"}})
  /\ {stopRequested, stopWhenEmpty} \subseteq BOOLEAN
  /\ scheduled \subseteq Tasks /\ served \subseteq scheduled

(* "Call func at/after time t": no thread runs a task whose time is still  *)
(* to come, whatever the other threads took from the queue while it slept. *)
NotBeforeTime ==
  \A t \in Threads : \A e \in running[t] : e.time <= now

(* A draining stop loses nothing: when the last thread has left, what was  *)
(* scheduled has been served, including what a running task scheduled      *)
(* while the other threads were leaving, and nothing was to be run again:  *)
(* while a task repeats, somebody stays to run it.                         *)
DrainServesAll ==
  (stopWhenEmpty /\ ~stopRequested /\ \A t \in Threads : pc[t] = "done") =>
    taskQueue = {} /\ served = scheduled /\ \A task \in Tasks : Period[task] = 0

(* A scheduled task is run, unless the scheduler is told to stop at once.  *)
TasksAreServed ==
  \A task \in Tasks : (task \in scheduled) ~> (task \in served \/ stopRequested)

(* Every thread leaves serviceQueue after a stop: the destructor's         *)
(* assertion that no thread services the queue can be met.  After a        *)
(* draining one only if no task repeats, since Repeat puts such a task     *)
(* back for ever.                                                          *)
ThreadsLeave ==
  stopRequested \/ (stopWhenEmpty /\ \A task \in Tasks : Period[task] = 0)
    ~> \A t \in Threads : pc[t] = "done"
=============================================================================
