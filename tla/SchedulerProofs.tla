--------------------------- MODULE SchedulerProofs ---------------------------
(***************************************************************************)
(* CScheduler with any number of threads and tasks: a draining stop loses  *)
(* no task and the count of threads that the destructor asserts is right;  *)
(* with one thread, which is what the node runs, no task starts early.     *)
(***************************************************************************)
EXTENDS Scheduler, Integers, FiniteSetTheorems, TLAPS

PCs == {"begin", "waitNew", "waitUntil", "wokeNew", "wokeUntil", "run", "ran", "done"}
Serving == {t \in Threads : pc[t] \notin {"begin", "done"}}
OneThread == \A t, u \in Threads : t = u

Types ==
  /\ now \in 0..MaxTime /\ taskQueue \subseteq Entry
  /\ pc \in [Threads -> PCs] /\ deadline \in [Threads -> Nat]
  /\ running \in [Threads -> SUBSET Entry]
  /\ stopRequested \in BOOLEAN /\ stopWhenEmpty \in BOOLEAN
  /\ scheduled \subseteq Tasks /\ served \subseteq scheduled

\* A thread holds a task exactly while it runs it.
HoldsOne ==
  \A t \in Threads : IF pc[t] = "run" THEN \E e \in Entry : running[t] = {e}
                                      ELSE running[t] = {}

\* A task that was scheduled was served for the last time, waits in the queue or is
\* being run.
NoneLost ==
  \A task \in scheduled : \/ task \in served /\ Period[task] = 0
                          \/ \E e \in taskQueue : e.task = task
                          \/ \E t \in Threads : \E e \in running[t] : e.task = task
OnlyScheduled ==
  /\ \A e \in taskQueue : e.task \in scheduled
  /\ \A t \in Threads : \A e \in running[t] : e.task \in scheduled

(* Threads leave only after a stop, clients schedule nothing after it, and *)
(* as long as the queue is to be drained the last thread does not leave it *)
(* with a task in it.                                                      *)
LeaveLast ==
  /\ stopRequested \/ stopWhenEmpty => scheduled = Tasks
  /\ (\E t \in Threads : pc[t] = "done") => stopRequested \/ stopWhenEmpty
  /\ ~stopRequested /\ taskQueue # {} => \E t \in Threads : pc[t] # "done"

\* A single thread waits for a task that stays in the queue meanwhile.
WaitsForTask ==
  OneThread => \A t \in Threads :
    /\ pc[t] \in {"waitUntil", "wokeUntil"} => \E e \in taskQueue : e.time <= deadline[t]
    /\ \A e \in running[t] : e.time <= now

Inv == /\ Types /\ HoldsOne /\ NoneLost /\ OnlyScheduled /\ LeaveLast /\ WaitsForTask
       /\ nThreadsServicingQueue = Cardinality(Serving)

-----------------------------------------------------------------------------
\* A queue that is not empty has a first task.
LEMMA FirstIsFirst ==
  ASSUME NEW Q, Q \subseteq Entry, Q # {}
  PROVE  \E e \in Q : \A o \in Q : e.time <= o.time
<1>. DEFINE T == {e.time : e \in Q}
<1>1. T \subseteq Nat /\ T # {}
  BY DEF Entry
<1>. HIDE DEF T
<1>2. PICK x \in T : \A y \in T : ~(<<y, x>> \in OpToRel(<, Nat))
  BY <1>1, NatLessThanWellFounded, WFMin, Zenon
<1>3. \A y \in T : x <= y
  <2>1. ASSUME NEW y \in T PROVE x <= y
    <3>1. x \in Nat /\ y \in Nat /\ ~(y < x)
      BY <1>1, <1>2, <2>1 DEF OpToRel
    <3>. QED  BY <3>1
  <2>. QED  BY <2>1
<1>4. PICK e \in Q : x = e.time
  BY <1>2 DEF T
<1>. QED  BY <1>3, <1>4 DEF T

\* taskQueue.begin() is a task of the queue, and none has an earlier time.
LEMMA FirstInQueue ==
  ASSUME Types, taskQueue # {}
  PROVE  First \in taskQueue /\ \A o \in taskQueue : First.time <= o.time
<1>1. \E e \in taskQueue : \A o \in taskQueue : e.time <= o.time
  BY FirstIsFirst DEF Types
<1>. QED  BY <1>1 DEF First

\* What a notification does to a thread
Stirred(p, q) ==
  q = p \/ (p = "waitNew" /\ q = "wokeNew") \/ (p = "waitUntil" /\ q = "wokeUntil")

\* notify_one changes nothing but the state of a thread that waits.
LEMMA NotifyStirs ==
  ASSUME NEW pcs \in [Threads -> PCs], NEW q \in NotifyOne(pcs)
  PROVE  q \in [Threads -> PCs] /\ \A t \in Threads : Stirred(pcs[t], q[t])
<1>1. CASE Waiting(pcs) = {}
  BY <1>1 DEF NotifyOne, Stirred
<1>2. CASE Waiting(pcs) # {}
  <2>1. PICK u \in Waiting(pcs) : q = [pcs EXCEPT ![u] = Woken(pcs[u])]
    BY <1>2 DEF NotifyOne
  <2>2. Woken(pcs[u]) \in PCs /\ Stirred(pcs[u], Woken(pcs[u]))
    BY <2>1 DEF Waiting, Woken, Stirred, PCs
  <2>. QED  BY <2>1, <2>2 DEF Waiting, Stirred
<1>. QED  BY <1>1, <1>2

\* Threads are finitely many.
LEMMA Countable ==
  ASSUME ConstantsAssumption
  PROVE  IsFiniteSet(Serving) /\ Cardinality(Serving) \in Nat
<1>1. IsFiniteSet(Threads) /\ Serving \in SUBSET Threads
  BY DEF Serving, ConstantsAssumption
<1>2. IsFiniteSet(Serving)
  BY <1>1, FS_Subset
<1>. QED  BY <1>2, FS_CardinalityType

\* The invariant holds of a new scheduler.
LEMMA InitInv ==
  ASSUME ConstantsAssumption, Init
  PROVE  Inv
<1>1. Types
  <2>1. 0 \in 0..MaxTime /\ 0 \in Nat /\ "begin" \in PCs /\ {} \in SUBSET Entry
    BY DEF PCs, ConstantsAssumption
  <2>2. /\ pc \in [Threads -> PCs] /\ deadline \in [Threads -> Nat]
        /\ running \in [Threads -> SUBSET Entry]
    BY <2>1 DEF Init
  <2>. QED  BY <2>1, <2>2 DEF Init, Types
<1>2. HoldsOne /\ NoneLost /\ OnlyScheduled /\ LeaveLast
  BY DEF Init, HoldsOne, NoneLost, OnlyScheduled, LeaveLast
<1>3. WaitsForTask
  BY DEF Init, WaitsForTask
<1>4. Serving = {}
  BY DEF Init, Serving
<1>5. nThreadsServicingQueue = Cardinality(Serving)
  BY <1>4, FS_EmptySet DEF Init
<1>. QED  BY <1>1, <1>2, <1>3, <1>5 DEF Inv

\* Time passes.
LEMMA TickKeeps ==
  ASSUME ConstantsAssumption, Inv, Tick
  PROVE  Inv'
<1>1. /\ now < MaxTime /\ now' = now + 1
      /\ UNCHANGED <<taskQueue, pc, deadline, running, stopRequested, stopWhenEmpty,
                     nThreadsServicingQueue, scheduled, served>>
  BY DEF Tick, stopping, clients
<1>2. now \in Nat /\ MaxTime \in Nat /\ Types
  BY DEF Inv, Types, ConstantsAssumption
<1>3. Types'
  BY <1>1, <1>2 DEF Types
<1>4. HoldsOne' /\ NoneLost' /\ OnlyScheduled' /\ LeaveLast'
  BY <1>1 DEF Inv, HoldsOne, NoneLost, OnlyScheduled, LeaveLast
<1>5. WaitsForTask'
  <2>1. \A t \in Threads : \A e \in running[t] : e.time \in Nat
    BY <1>2 DEF Types, Entry
  <2>. QED  BY <1>1, <1>2, <2>1 DEF Inv, WaitsForTask, OneThread
<1>6. (nThreadsServicingQueue = Cardinality(Serving))'
  BY <1>1 DEF Inv, Serving
<1>. QED  BY <1>3, <1>4, <1>5, <1>6 DEF Inv

\* A client schedules a task: the threads have not been told to stop.
LEMMA ScheduleKeeps ==
  ASSUME ConstantsAssumption, Inv, NEW task \in Tasks, NEW time \in 0..MaxTime,
         ClientSchedules(task, time)
  PROVE  Inv'
<1>. DEFINE n == [time |-> time, task |-> task]
<1>1. /\ task \notin scheduled /\ scheduled' = scheduled \cup {task}
      /\ taskQueue' = taskQueue \cup {n} /\ pc' \in NotifyOne(pc)
      /\ UNCHANGED <<now, deadline, running, stopRequested, stopWhenEmpty,
                     nThreadsServicingQueue, served>>
  BY DEF ClientSchedules, schedule, stopping
<1>2. Types /\ pc' \in [Threads -> PCs] /\ \A t \in Threads : Stirred(pc[t], pc'[t])
  BY <1>1, NotifyStirs DEF Inv, Types
<1>3. n \in Entry /\ n.task = task
  BY DEF Entry
<1>. HIDE DEF n
<1>4. Types'
  BY <1>1, <1>2, <1>3 DEF Types
<1>5. HoldsOne'
  BY <1>1, <1>2 DEF Inv, HoldsOne, Stirred
<1>6. NoneLost' /\ OnlyScheduled'
  BY <1>1, <1>3 DEF Inv, NoneLost, OnlyScheduled
<1>7. LeaveLast'
  <2>1. ~stopRequested /\ ~stopWhenEmpty
    BY <1>1 DEF Inv, LeaveLast
  <2>2. \A t \in Threads : pc[t] # "done" /\ pc'[t] # "done"
    BY <1>2, <2>1 DEF Inv, LeaveLast, Stirred
  <2>. QED  BY <1>1, <2>1, <2>2 DEF LeaveLast, ConstantsAssumption
<1>8. WaitsForTask'
  <2>1. \A t \in Threads : pc'[t] \in {"waitUntil", "wokeUntil"} => pc[t] \in {"waitUntil", "wokeUntil"}
    BY <1>2 DEF Stirred
  <2>. QED  BY <1>1, <2>1 DEF Inv, WaitsForTask, OneThread
<1>9. Serving' = Serving
  BY <1>2 DEF Serving, Stirred
<1>. QED  BY <1>1, <1>4, <1>5, <1>6, <1>7, <1>8, <1>9 DEF Inv

\* The client stops the scheduler.
LEMMA StopKeeps ==
  ASSUME ConstantsAssumption, Inv, NEW drain \in BOOLEAN, ClientStops(drain)
  PROVE  Inv'
<1>1. /\ scheduled = Tasks
      /\ stopWhenEmpty' = (stopWhenEmpty \/ drain) /\ stopRequested' = (stopRequested \/ ~drain)
      /\ pc' = [t \in Threads |-> Woken(pc[t])]
      /\ UNCHANGED <<now, taskQueue, deadline, running, nThreadsServicingQueue, scheduled, served>>
  BY DEF ClientStops, stop, clients
<1>2. Types /\ pc' \in [Threads -> PCs] /\ \A t \in Threads : Stirred(pc[t], pc'[t])
  BY <1>1 DEF Inv, Types, Woken, Stirred, PCs
<1>3. stopRequested' \in BOOLEAN /\ stopWhenEmpty' \in BOOLEAN /\ (stopRequested' \/ stopWhenEmpty')
  BY <1>1, Zenon
<1>4. Types'
  BY <1>1, <1>2, <1>3 DEF Types
<1>5. HoldsOne'
  BY <1>1, <1>2 DEF Inv, HoldsOne, Stirred
<1>6. NoneLost' /\ OnlyScheduled'
  BY <1>1 DEF Inv, NoneLost, OnlyScheduled
<1>7. LeaveLast'
  <2>1. ~stopRequested /\ ~stopWhenEmpty
    BY DEF ClientStops
  <2>2. \A t \in Threads : pc'[t] # "done"
    BY <1>2, <2>1 DEF Inv, LeaveLast, Stirred
  <2>. QED  BY <1>1, <1>3, <2>2 DEF LeaveLast, ConstantsAssumption
<1>8. WaitsForTask'
  <2>1. \A t \in Threads : pc'[t] \in {"waitUntil", "wokeUntil"} => pc[t] \in {"waitUntil", "wokeUntil"}
    BY <1>2 DEF Stirred
  <2>. QED  BY <1>1, <2>1 DEF Inv, WaitsForTask, OneThread
<1>9. Serving' = Serving
  BY <1>2 DEF Serving, Stirred
<1>. QED  BY <1>1, <1>4, <1>5, <1>6, <1>7, <1>8, <1>9 DEF Inv

-----------------------------------------------------------------------------
\* A thread is at the top of the loop, and n threads service the queue with it.
AtTop(t, n) ==
  /\ Inv /\ pc[t] \notin {"run", "done"}
  /\ n \in Int /\ n - 1 = Cardinality(Serving \ {t})
  /\ UNCHANGED <<now, stopRequested, stopWhenEmpty, scheduled, served>>

\* The counter follows a thread that waits and one that leaves.
LEMMA ServingAfter ==
  ASSUME ConstantsAssumption, NEW t \in Threads, NEW p \in {"waitNew", "waitUntil", "done"},
         pc' \in [Threads -> PCs], pc'[t] = p, \A u \in Threads \ {t} : Stirred(pc[u], pc'[u])
  PROVE  /\ p = "done" => Serving' = Serving \ {t}
         /\ p # "done" => Cardinality(Serving') = Cardinality(Serving \ {t}) + 1
<1>1. p = "done" => Serving' = Serving \ {t}
  BY DEF Serving, Stirred
<1>2. p # "done" => Serving' = (Serving \ {t}) \cup {t}
  BY DEF Serving, Stirred
<1>3. IsFiniteSet(Serving \ {t}) /\ t \notin Serving \ {t}
  BY Countable, FS_RemoveElement
<1>4. Cardinality((Serving \ {t}) \cup {t}) = Cardinality(Serving \ {t}) + 1
  BY <1>3, FS_AddElement
<1>. QED  BY <1>1, <1>2, <1>4

\* A thread leaves: it has been told to, and leaves no task that must be drained.
LEMMA LeaveKeeps ==
  ASSUME ConstantsAssumption, NEW t \in Threads, NEW n, AtTop(t, n), shouldStop, Leave(t, n)
  PROVE  Inv'
<1>1. /\ Types /\ HoldsOne /\ NoneLost /\ OnlyScheduled /\ LeaveLast /\ WaitsForTask
      /\ pc[t] \notin {"run", "done"} /\ n \in Int /\ n - 1 = Cardinality(Serving \ {t})
      /\ UNCHANGED <<now, stopRequested, stopWhenEmpty, scheduled, served>>
  BY DEF AtTop, Inv
<1>2. /\ pc' \in NotifyOne([pc EXCEPT ![t] = "done"]) /\ nThreadsServicingQueue' = n - 1
      /\ UNCHANGED <<taskQueue, deadline, running>>
  BY DEF Leave
<1>3. /\ pc' \in [Threads -> PCs] /\ pc'[t] = "done"
      /\ \A u \in Threads \ {t} : Stirred(pc[u], pc'[u])
  <2>. DEFINE left == [pc EXCEPT ![t] = "done"]
  <2>1. /\ left \in [Threads -> PCs] /\ left[t] = "done"
        /\ \A u \in Threads \ {t} : left[u] = pc[u]
    BY <1>1 DEF Types, PCs
  <2>2. pc' \in [Threads -> PCs] /\ \A u \in Threads : Stirred(left[u], pc'[u])
    BY <1>2, <2>1, NotifyStirs
  <2>. HIDE DEF left
  <2>3. Stirred("done", pc'[t])
    BY <2>1, <2>2
  <2>. QED  BY <2>1, <2>2, <2>3 DEF Stirred
<1>4. Types'
  BY <1>1, <1>2, <1>3 DEF Types
<1>5. HoldsOne'
  BY <1>1, <1>2, <1>3 DEF HoldsOne, Stirred
<1>6. NoneLost' /\ OnlyScheduled'
  BY <1>1, <1>2 DEF NoneLost, OnlyScheduled
<1>7. LeaveLast'
  <2>1. stopRequested \/ (stopWhenEmpty /\ taskQueue = {})
    BY DEF shouldStop
  <2>. QED  BY <1>1, <1>2, <2>1 DEF LeaveLast
<1>8. WaitsForTask'
  <2>1. \A u \in Threads : pc'[u] \in {"waitUntil", "wokeUntil"} => pc[u] \in {"waitUntil", "wokeUntil"}
    BY <1>3 DEF Stirred
  <2>. QED  BY <1>1, <1>2, <2>1 DEF WaitsForTask, OneThread
<1>9. (nThreadsServicingQueue = Cardinality(Serving))'
  BY <1>1, <1>2, <1>3, ServingAfter
<1>. QED  BY <1>4, <1>5, <1>6, <1>7, <1>8, <1>9 DEF Inv

\* From the top of the loop a thread leaves or waits.
LEMMA ContinueKeeps ==
  ASSUME ConstantsAssumption, NEW t \in Threads, NEW n, AtTop(t, n), Continue(t, n)
  PROVE  Inv'
<1>1. CASE shouldStop
  BY <1>1, LeaveKeeps DEF Continue
<1>2. CASE ~shouldStop
  <2>. DEFINE p == IF taskQueue = {} THEN "waitNew" ELSE "waitUntil"
  <2>1. /\ Types /\ HoldsOne /\ NoneLost /\ OnlyScheduled /\ LeaveLast /\ WaitsForTask
        /\ pc[t] \notin {"run", "done"} /\ n \in Int /\ n - 1 = Cardinality(Serving \ {t})
        /\ UNCHANGED <<now, stopRequested, stopWhenEmpty, scheduled, served>>
    BY DEF AtTop, Inv
  <2>2. /\ pc' = [pc EXCEPT ![t] = p] /\ nThreadsServicingQueue' = n
        /\ UNCHANGED <<taskQueue, running>>
        /\ IF taskQueue = {} THEN deadline' = deadline
           ELSE deadline' = [deadline EXCEPT ![t] = First.time]
    BY <1>2 DEF Continue
  <2>3. taskQueue # {} => First \in taskQueue /\ First.time \in Nat
    BY <2>1, FirstInQueue DEF Types, Entry
  <2>4. p \in {"waitNew", "waitUntil", "done"} /\ p # "done" /\ (p = "waitUntil" => taskQueue # {})
    OBVIOUS
  <2>. HIDE DEF p
  <2>5. /\ pc' \in [Threads -> PCs] /\ pc'[t] = p
        /\ \A u \in Threads \ {t} : pc'[u] = pc[u]
    BY <2>1, <2>2, <2>4 DEF Types, PCs
  <2>6. Types'
    <3>1. deadline' \in [Threads -> Nat]
      BY <2>1, <2>2, <2>3 DEF Types
    <3>. QED  BY <2>1, <2>2, <2>5, <3>1 DEF Types
  <2>7. HoldsOne'
    BY <2>1, <2>2, <2>4, <2>5 DEF HoldsOne
  <2>8. NoneLost' /\ OnlyScheduled'
    BY <2>1, <2>2 DEF NoneLost, OnlyScheduled
  <2>9. LeaveLast'
    BY <2>1, <2>2, <2>4, <2>5 DEF LeaveLast
  <2>10. WaitsForTask'
    <3>1. SUFFICES ASSUME OneThread, NEW u \in Threads
          PROVE  /\ pc'[u] \in {"waitUntil", "wokeUntil"} => \E e \in taskQueue : e.time <= deadline'[u]
                 /\ \A e \in running[u] : e.time <= now
      BY <2>1, <2>2 DEF WaitsForTask, OneThread
    <3>2. u = t
      BY <3>1 DEF OneThread
    <3>3. taskQueue # {} => deadline'[t] = First.time /\ First.time <= First.time
      BY <2>1, <2>2, <2>3 DEF Types
    <3>. QED  BY <2>1, <2>3, <2>4, <2>5, <3>1, <3>2, <3>3 DEF WaitsForTask
  <2>11. (nThreadsServicingQueue = Cardinality(Serving))'
    <3>1. \A u \in Threads \ {t} : Stirred(pc[u], pc'[u])
      BY <2>5 DEF Stirred
    <3>2. Cardinality(Serving') = Cardinality(Serving \ {t}) + 1
      BY <2>4, <2>5, <3>1, ServingAfter
    <3>3. Cardinality(Serving \ {t}) \in Int
      BY Countable, FS_RemoveElement, FS_CardinalityType
    <3>. QED  BY <2>1, <2>2, <3>2, <3>3
  <2>. QED  BY <2>6, <2>7, <2>8, <2>9, <2>10, <2>11 DEF Inv
<1>. QED  BY <1>1, <1>2

\* A thread enters serviceQueue.
LEMMA BeginKeeps ==
  ASSUME ConstantsAssumption, Inv, NEW t \in Threads, Begin(t)
  PROVE  Inv'
<1>1. Serving \ {t} = Serving /\ Cardinality(Serving) \in Nat
  BY Countable DEF Begin, Serving
<1>. DEFINE n == nThreadsServicingQueue + 1
<1>2. n \in Int /\ n - 1 = Cardinality(Serving \ {t})
  <2>1. nThreadsServicingQueue = Cardinality(Serving)
    BY DEF Inv
  <2>2. Cardinality(Serving \ {t}) = Cardinality(Serving)
    BY <1>1
  <2>. QED  BY <1>1, <2>1, <2>2
<1>3. pc[t] \notin {"run", "done"} /\ Continue(t, n)
  BY DEF Begin
<1>. HIDE DEF n
<1>4. AtTop(t, n)
  BY <1>2, <1>3 DEF AtTop, Begin, stopping, clients
<1>. QED  BY <1>3, <1>4, ContinueKeeps

\* A thread that services the queue is at the top of the loop.
LEMMA TopAgain ==
  ASSUME ConstantsAssumption, Inv, NEW t \in Threads,
         pc[t] \notin {"begin", "run", "done"},
         UNCHANGED <<now, stopping, clients>>
  PROVE  AtTop(t, nThreadsServicingQueue)
<1>1. t \in Serving
  BY DEF Serving
<1>2. Cardinality(Serving \ {t}) = Cardinality(Serving) - 1 /\ Cardinality(Serving) \in Nat
  BY <1>1, Countable, FS_RemoveElement
<1>3. nThreadsServicingQueue = Cardinality(Serving)
  BY DEF Inv
<1>4. nThreadsServicingQueue \in Int /\ nThreadsServicingQueue - 1 = Cardinality(Serving \ {t})
  BY <1>2, <1>3
<1>. QED  BY <1>4 DEF AtTop, stopping, clients

\* A wait or a task is over.
LEMMA RejoinKeeps ==
  ASSUME ConstantsAssumption, Inv, NEW t \in Threads, Rejoin(t)
  PROVE  Inv'
<1>1. AtTop(t, nThreadsServicingQueue)
  BY TopAgain DEF Rejoin
<1>. QED  BY <1>1, ContinueKeeps DEF Rejoin

\* The time of the first task has come: it is run.
LEMMA TimedOutKeeps ==
  ASSUME ConstantsAssumption, Inv, NEW t \in Threads, TimedOut(t)
  PROVE  Inv'
<1>1. CASE shouldStop \/ taskQueue = {}
  <2>1. AtTop(t, nThreadsServicingQueue)
    BY TopAgain DEF TimedOut
  <2>. QED  BY <1>1, <2>1, ContinueKeeps DEF TimedOut
<1>2. CASE ~(shouldStop \/ taskQueue = {})
  <2>1. /\ Types /\ HoldsOne /\ NoneLost /\ OnlyScheduled /\ LeaveLast /\ WaitsForTask
        /\ nThreadsServicingQueue = Cardinality(Serving)
    BY DEF Inv
  <2>2. /\ pc[t] \in {"waitUntil", "wokeUntil"} /\ now >= deadline[t]
        /\ taskQueue' = taskQueue \ {First} /\ running' = [running EXCEPT ![t] = {First}]
        /\ pc' = [pc EXCEPT ![t] = "run"]
        /\ UNCHANGED <<deadline, nThreadsServicingQueue, now, stopRequested, stopWhenEmpty,
                       scheduled, served>>
    BY <1>2 DEF TimedOut, stopping, clients
  <2>3. First \in taskQueue /\ First \in Entry /\ \A o \in taskQueue : First.time <= o.time
    BY <1>2, <2>1, FirstInQueue DEF Types
  <2>4. /\ pc' \in [Threads -> PCs] /\ pc'[t] = "run" /\ running' \in [Threads -> SUBSET Entry]
        /\ running'[t] = {First}
        /\ \A u \in Threads \ {t} : pc'[u] = pc[u] /\ running'[u] = running[u]
    BY <2>1, <2>2, <2>3 DEF Types, PCs
  <2>5. Types'
    BY <2>1, <2>2, <2>4 DEF Types
  <2>6. HoldsOne'
    BY <2>1, <2>3, <2>4 DEF HoldsOne
  <2>7. NoneLost'
    <3>1. SUFFICES ASSUME NEW task \in scheduled, ~(task \in served /\ Period[task] = 0)
          PROVE  \/ \E e \in taskQueue' : e.task = task
                 \/ \E u \in Threads : \E e \in running'[u] : e.task = task
      BY <2>2 DEF NoneLost
    <3>2. CASE \E e \in taskQueue : e.task = task
      <4>1. PICK e \in taskQueue : e.task = task
        BY <3>2
      <4>2. CASE e = First
        BY <2>4, <4>1, <4>2
      <4>3. CASE e # First
        BY <2>2, <4>1, <4>3
      <4>. QED  BY <4>2, <4>3
    <3>3. CASE \E u \in Threads : \E e \in running[u] : e.task = task
      <4>1. running[t] = {}
        BY <2>1, <2>2 DEF HoldsOne
      <4>. QED  BY <2>4, <3>3, <4>1
    <3>. QED  BY <2>1, <3>1, <3>2, <3>3 DEF NoneLost
  <2>8. OnlyScheduled'
    BY <2>1, <2>2, <2>3, <2>4 DEF OnlyScheduled
  <2>9. LeaveLast'
    <3>1. \E u \in Threads : pc'[u] # "done"
      BY <2>4
    <3>2. \A u \in Threads : pc'[u] = "done" => pc[u] = "done"
      BY <2>4
    <3>. QED  BY <2>1, <2>2, <3>1, <3>2 DEF LeaveLast
  <2>10. WaitsForTask'
    <3>1. SUFFICES ASSUME OneThread, NEW u \in Threads
          PROVE  /\ pc'[u] \notin {"waitUntil", "wokeUntil"}
                 /\ \A e \in running'[u] : e.time <= now
      BY <2>2 DEF WaitsForTask, OneThread
    <3>2. u = t
      BY <3>1 DEF OneThread
    <3>3. PICK e \in taskQueue : e.time <= deadline[t]
      BY <2>1, <2>2, <3>1 DEF WaitsForTask
    <3>4. First.time \in Nat /\ e.time \in Nat /\ deadline[t] \in Nat /\ now \in Nat
      BY <2>1, <2>3, <3>3 DEF Types, Entry, ConstantsAssumption
    <3>5. First.time <= now
      BY <2>2, <2>3, <3>3, <3>4
    <3>. QED  BY <2>4, <3>2, <3>5
  <2>11. Serving' = Serving
    BY <2>2, <2>4 DEF Serving
  <2>. QED  BY <2>1, <2>2, <2>5, <2>6, <2>7, <2>8, <2>9, <2>10, <2>11 DEF Inv
<1>. QED  BY <1>1, <1>2

\* A task returns, and a repeating one was scheduled again before.
LEMMA ReturnKeeps ==
  ASSUME ConstantsAssumption, Inv, NEW t \in Threads, TaskReturns(t)
  PROVE  Inv'
<1>1. /\ Types /\ HoldsOne /\ NoneLost /\ OnlyScheduled /\ LeaveLast /\ WaitsForTask
      /\ nThreadsServicingQueue = Cardinality(Serving)
  BY DEF Inv
<1>2. PICK e \in running[t] :
        /\ served' = served \cup {e.task}
        /\ LET next == now + Period[e.task]
               again == Period[e.task] > 0
           IN /\ taskQueue' = IF again THEN taskQueue \cup {[time |-> next, task |-> e.task]}
                                       ELSE taskQueue
              /\ LET returned == [pc EXCEPT ![t] = "ran"]
                 IN pc' \in IF again THEN NotifyOne(returned) ELSE {returned}
  BY DEF TaskReturns
<1>3. /\ pc[t] = "run" /\ running' = [running EXCEPT ![t] = {}]
      /\ UNCHANGED <<now, deadline, stopRequested, stopWhenEmpty, nThreadsServicingQueue, scheduled>>
  BY DEF TaskReturns, stopping
<1>4. e \in Entry /\ e.task \in Tasks /\ e.task \in scheduled /\ running[t] = {e}
  BY <1>1, <1>2, <1>3 DEF HoldsOne, OnlyScheduled, Types, Entry
<1>. DEFINE n == [time |-> now + Period[e.task], task |-> e.task]
<1>5. n \in Entry /\ taskQueue' = IF Period[e.task] = 0 THEN taskQueue ELSE taskQueue \cup {n}
  <2>1. Period[e.task] \in Nat /\ now \in Nat
    BY <1>1, <1>4 DEF Types, ConstantsAssumption
  <2>2. n \in Entry
    BY <1>4, <2>1 DEF Entry
  <2>. QED  BY <1>2, <2>1, <2>2
<1>6. n.task = e.task
  OBVIOUS
<1>. HIDE DEF n
<1>7. /\ pc' \in [Threads -> PCs] /\ pc'[t] = "ran"
      /\ \A u \in Threads \ {t} : Stirred(pc[u], pc'[u])
  <2>. DEFINE returned == [pc EXCEPT ![t] = "ran"]
  <2>1. /\ returned \in [Threads -> PCs] /\ returned[t] = "ran"
        /\ \A u \in Threads \ {t} : returned[u] = pc[u]
    BY <1>1 DEF Types, PCs
  <2>2. pc' = returned \/ pc' \in NotifyOne(returned)
    BY <1>2
  <2>. HIDE DEF returned
  <2>3. pc' \in [Threads -> PCs] /\ \A u \in Threads : Stirred(returned[u], pc'[u])
    BY <2>1, <2>2, NotifyStirs DEF Stirred
  <2>4. Stirred("ran", pc'[t])
    BY <2>1, <2>3
  <2>. QED  BY <2>1, <2>3, <2>4 DEF Stirred
<1>8. running' \in [Threads -> SUBSET Entry] /\ running'[t] = {} /\ \A u \in Threads \ {t} : running'[u] = running[u]
  BY <1>1, <1>3 DEF Types
<1>9. taskQueue \subseteq taskQueue' /\ taskQueue' \subseteq Entry /\ \A o \in taskQueue' : o \in taskQueue \/ o.task = e.task
  BY <1>1, <1>5, <1>6 DEF Types
<1>10. Types'
  BY <1>1, <1>2, <1>3, <1>4, <1>7, <1>8, <1>9 DEF Types
<1>11. HoldsOne'
  BY <1>1, <1>7, <1>8 DEF HoldsOne, Stirred
<1>12. NoneLost'
  <2>1. SUFFICES ASSUME NEW task \in scheduled, ~(task \in served' /\ Period[task] = 0)
        PROVE  \/ \E o \in taskQueue' : o.task = task
               \/ \E u \in Threads : \E o \in running'[u] : o.task = task
    BY <1>3 DEF NoneLost
  <2>2. CASE task = e.task
    <3>1. Period[e.task] # 0
      BY <1>2, <2>1, <2>2
    <3>. QED  BY <1>5, <1>6, <2>2, <3>1
  <2>3. CASE task # e.task
    <3>1. ~(task \in served /\ Period[task] = 0)
      BY <1>2, <2>1
    <3>2. CASE \E o \in taskQueue : o.task = task
      BY <1>9, <3>2
    <3>3. CASE \E u \in Threads : \E o \in running[u] : o.task = task
      BY <1>4, <1>8, <2>3, <3>3
    <3>. QED  BY <1>1, <2>1, <3>1, <3>2, <3>3 DEF NoneLost
  <2>. QED  BY <2>2, <2>3
<1>13. OnlyScheduled'
  BY <1>1, <1>3, <1>4, <1>8, <1>9 DEF OnlyScheduled
<1>14. LeaveLast'
  <2>1. \E u \in Threads : pc'[u] # "done"
    BY <1>7
  <2>2. \A u \in Threads : pc'[u] = "done" => pc[u] = "done"
    BY <1>7 DEF Stirred
  <2>. QED  BY <1>1, <1>3, <2>1, <2>2 DEF LeaveLast
<1>15. WaitsForTask'
  <2>1. SUFFICES ASSUME OneThread, NEW u \in Threads
        PROVE  pc'[u] \notin {"waitUntil", "wokeUntil"} /\ running'[u] = {}
    BY DEF WaitsForTask, OneThread
  <2>2. u = t
    BY <2>1 DEF OneThread
  <2>. QED  BY <1>7, <1>8, <2>2
<1>16. Serving' = Serving
  BY <1>3, <1>7 DEF Serving, Stirred
<1>. QED  BY <1>1, <1>3, <1>10, <1>11, <1>12, <1>13, <1>14, <1>15, <1>16 DEF Inv

\* Every step of the clients and of the threads keeps the invariant.
LEMMA StepKeeps ==
  ASSUME ConstantsAssumption, Inv, [Next]_vars
  PROVE  Inv'
<1>1. CASE Tick
  BY <1>1, TickKeeps
<1>2. CASE \E task \in Tasks : \E time \in 0..MaxTime : ClientSchedules(task, time)
  BY <1>2, ScheduleKeeps
<1>3. CASE \E drain \in BOOLEAN : ClientStops(drain)
  BY <1>3, StopKeeps
<1>4. CASE \E t \in Threads : Begin(t)
  BY <1>4, BeginKeeps
<1>5. CASE \E t \in Threads : Rejoin(t)
  BY <1>5, RejoinKeeps
<1>6. CASE \E t \in Threads : TimedOut(t)
  BY <1>6, TimedOutKeeps
<1>7. CASE \E t \in Threads : TaskReturns(t)
  BY <1>7, ReturnKeeps
<1>8. CASE UNCHANGED vars
  <2>1. UNCHANGED <<now, taskQueue, pc, deadline, running, stopRequested, stopWhenEmpty,
                    nThreadsServicingQueue, scheduled, served>>
    BY <1>8 DEF vars, stopping, clients
  <2>2. Types' /\ HoldsOne' /\ NoneLost' /\ OnlyScheduled'
    BY <2>1 DEF Inv, Types, HoldsOne, NoneLost, OnlyScheduled
  <2>3. LeaveLast' /\ WaitsForTask' /\ (nThreadsServicingQueue = Cardinality(Serving))'
    BY <2>1 DEF Inv, LeaveLast, WaitsForTask, OneThread, Serving
  <2>. QED  BY <2>2, <2>3 DEF Inv
<1>. QED  BY <1>1, <1>2, <1>3, <1>4, <1>5, <1>6, <1>7, <1>8 DEF Next

\* The invariant implies what the scheduler promises.
LEMMA InvImplies ==
  ASSUME ConstantsAssumption, Inv
  PROVE  TypeOK /\ DrainServesAll /\ (OneThread => NotBeforeTime)
<1>1. /\ Types /\ HoldsOne /\ NoneLost /\ OnlyScheduled /\ LeaveLast /\ WaitsForTask
      /\ nThreadsServicingQueue = Cardinality(Serving)
  BY DEF Inv
<1>2. TypeOK
  <2>1. ASSUME NEW t \in Threads
        PROVE  /\ running[t] \subseteq Entry
               /\ Cardinality(running[t]) = IF pc[t] = "run" THEN 1 ELSE 0
    <3>1. CASE pc[t] = "run"
      <4>1. PICK e \in Entry : running[t] = {e}
        BY <1>1, <3>1 DEF HoldsOne
      <4>. QED  BY <3>1, <4>1, FS_Singleton
    <3>2. CASE pc[t] # "run"
      BY <1>1, <3>2, FS_EmptySet DEF HoldsOne
    <3>. QED  BY <3>1, <3>2
  <2>2. /\ pc \in [Threads -> {"begin", "waitNew", "waitUntil", "wokeNew", "wokeUntil", "run",
                               "ran", "done"}]
        /\ nThreadsServicingQueue = Cardinality({t \in Threads : pc[t] \notin {"begin", "done"}})
    BY <1>1 DEF Types, PCs, Serving
  <2>. QED  BY <1>1, <2>1, <2>2 DEF TypeOK, Types
<1>3. DrainServesAll
  <2>1. ASSUME stopWhenEmpty, ~stopRequested, \A t \in Threads : pc[t] = "done"
        PROVE  taskQueue = {} /\ served = scheduled /\ \A task \in Tasks : Period[task] = 0
    <3>1. taskQueue = {} /\ scheduled = Tasks
      BY <1>1, <2>1 DEF LeaveLast
    <3>2. \A t \in Threads : running[t] = {}
      BY <1>1, <2>1 DEF HoldsOne
    <3>. QED  BY <1>1, <3>1, <3>2 DEF NoneLost, Types
  <2>. QED  BY <2>1 DEF DrainServesAll
<1>4. OneThread => NotBeforeTime
  BY <1>1 DEF WaitsForTask, NotBeforeTime
<1>. QED  BY <1>2, <1>3, <1>4

(* For any number of threads and tasks: the counter that the destructor of *)
(* CScheduler asserts counts the threads inside serviceQueue, and after a  *)
(* draining stop the last thread leaves an empty queue with every task     *)
(* served, also one that a running task scheduled meanwhile, and does not  *)
(* leave at all while a task repeats.                                      *)
THEOREM DrainCorrect ==
  ASSUME ConstantsAssumption
  PROVE  Spec => [](TypeOK /\ DrainServesAll)
<1>1. Init => Inv
  BY InitInv
<1>2. Inv /\ [Next]_vars => Inv'
  BY StepKeeps
<1>3. Inv => TypeOK /\ DrainServesAll
  BY InvImplies
<1>. QED  BY <1>1, <1>2, <1>3, PTL DEF Spec

(* A single thread runs no task before its time, although it does not look *)
(* at the time again after its wait: what it waited for is still there, or *)
(* something earlier is.  (Two threads can: one may take the task the      *)
(* other one waited for.)                                                  *)
THEOREM InTimeCorrect ==
  ASSUME ConstantsAssumption, \A t, u \in Threads : t = u
  PROVE  Spec => []NotBeforeTime
<1>1. Init => Inv
  BY InitInv
<1>2. Inv /\ [Next]_vars => Inv'
  BY StepKeeps
<1>3. Inv => NotBeforeTime
  BY InvImplies DEF OneThread
<1>. QED  BY <1>1, <1>2, <1>3, PTL DEF Spec
=============================================================================
