-------------------------- MODULE CheckQueueProofs --------------------------
(***************************************************************************)
(* CCheckQueue is right for any number of workers, blocks and checks, also *)
(* when threads are woken for nothing or interrupted: Wait returns the     *)
(* conjunction of the checks of its block, after the last of them, and     *)
(* leaves the queue idle for the next controller.                          *)
(***************************************************************************)
EXTENDS CheckQueue, FiniteSetTheorems, SequenceTheorems, TLAPS

\* The threads that have a batch: they execute it, or have still to account for it.
HaveBatch(pcs, now) == {t \in Threads : pcs[t] = "exec" \/ (pcs[t] = "enter" /\ now[t] > 0)}
Busy == HaveBatch(pc, nNow)
\* The threads inside cond.wait
Resting == {t \in Threads : pc[t] \in {"wait", "woken"}}
\* The checks in the batches of S, counted as pairs of a thread and a number
Taken(S, now) == {c \in S \X (1..nBatchSize) : c[2] <= now[c[1]]}
Good(s) == \A i \in DOMAIN s : s[i]

Types ==
  /\ queue \in Seq(BOOLEAN) /\ added \in Seq(BOOLEAN) /\ Len(added) <= MaxChecks
  /\ nTotal \in Int /\ nIdle \in Int /\ nTodo \in Int /\ fAllOk \in BOOLEAN
  /\ pc \in [Threads -> {"out", "enter", "wait", "woken", "exec", "gone"}]
  /\ batch \in [Threads -> Seq(BOOLEAN)] /\ fOk \in [Threads -> BOOLEAN]
  /\ nNow \in [Threads -> 0..nBatchSize]
  /\ phase \in {"none", "open", "wait", "done"}
  /\ result \in BOOLEAN /\ interrupted \subseteq Threads

(* The counters under the mutex sum up what the threads are doing: a       *)
(* thread counts in nTotal from its first visit on, in nIdle as well while *)
(* it waits (and, once it was interrupted, for ever), and in nTodo with    *)
(* the checks it has not accounted for.                                    *)
Counted ==
  /\ Cardinality(Resting) <= nIdle
  /\ nTotal = nIdle + Cardinality(Busy)
  /\ nTodo = Len(queue) + Cardinality(Taken(Busy, nNow))
  /\ nTodo <= Len(added)

\* vChecks holds a batch exactly while it is executed.
BatchesHeld ==
  \A t \in Threads : IF pc[t] = "exec" THEN Len(batch[t]) = nNow[t] /\ nNow[t] > 0
                                       ELSE batch[t] = <<>>

\* The master is in Loop exactly between Wait and its return.
MasterInside ==
  IF phase = "wait" THEN pc[Master] \in {"enter", "wait", "woken", "exec"}
                    ELSE pc[Master] = "out"

(* Between blocks nothing is left to do and the verdict is reset.  Within  *)
(* one, the block is good as far as fAllOk, the queue and the batches      *)
(* say so: a failed check that was taken is remembered by one of them.     *)
Verdict ==
  IF phase \in {"none", "done"} THEN nTodo = 0 /\ fAllOk
  ELSE Good(added) <=> /\ fAllOk /\ Good(queue)
                       /\ \A t \in Busy : fOk[t] /\ Good(batch[t])

\* The master sleeps only while something is left to do that others have taken.
MasterAwaits == pc[Master] = "wait" => queue = <<>> /\ nTodo > 0

Inv == /\ Types /\ Counted /\ BatchesHeld /\ MasterInside /\ Verdict /\ MasterAwaits
       /\ ResultIsRight /\ StartsIdle
-----------------------------------------------------------------------------
\* Sequences of checks are those a block can have.
LEMMA ChecksAreSequences ==
  ASSUME ConstantsAssumption, NEW s
  PROVE  s \in Batches <=> s \in Seq(BOOLEAN) /\ Len(s) <= MaxChecks
<1>1. MaxChecks \in Nat
  BY DEF ConstantsAssumption
<1>2. ASSUME s \in Batches PROVE s \in Seq(BOOLEAN) /\ Len(s) <= MaxChecks
  <2>1. PICK n \in 0..MaxChecks : s \in [1..n -> BOOLEAN]
    BY <1>2 DEF Batches
  <2>2. n \in Nat /\ s \in Seq(BOOLEAN)
    BY <1>1, <2>1, SeqDef
  <2>3. Len(s) = n
    BY <2>1, <2>2, LenProperties
  <2>. QED  BY <1>1, <2>1, <2>2, <2>3
<1>3. ASSUME s \in Seq(BOOLEAN), Len(s) <= MaxChecks PROVE s \in Batches
  <2>1. Len(s) \in 0..MaxChecks /\ s \in [1..Len(s) -> BOOLEAN]
    BY <1>1, <1>3, LenProperties
  <2>. QED  BY <2>1 DEF Batches
<1>. QED  BY <1>2, <1>3

\* Checks that are queued are judged with those queued before them.
LEMMA GoodConcat ==
  ASSUME NEW s \in Seq(BOOLEAN), NEW u \in Seq(BOOLEAN)
  PROVE  /\ s \o u \in Seq(BOOLEAN) /\ Len(s \o u) = Len(s) + Len(u)
         /\ Good(s \o u) <=> Good(s) /\ Good(u)
<1>1. s \o u \in Seq(BOOLEAN) /\ Len(s \o u) = Len(s) + Len(u)
  OBVIOUS
<1>2. \A i \in 1..Len(s) : (s \o u)[i] = s[i]
  OBVIOUS
<1>3. \A i \in 1..Len(u) : (s \o u)[i + Len(s)] = u[i]
  OBVIOUS
<1>4. ASSUME Good(s \o u) PROVE Good(s) /\ Good(u)
  <2>1. \A i \in 1..Len(s) : i \in 1..Len(s \o u)
    BY <1>1
  <2>2. \A i \in 1..Len(u) : i + Len(s) \in 1..Len(s \o u)
    BY <1>1
  <2>. QED  BY <1>1, <1>2, <1>3, <1>4, <2>1, <2>2 DEF Good
<1>5. ASSUME Good(s), Good(u) PROVE Good(s \o u)
  <2>1. \A i \in 1..Len(s \o u) : \/ i \in 1..Len(s)
                                  \/ \E j \in 1..Len(u) : i = j + Len(s)
    BY <1>1
  <2>. QED  BY <1>1, <1>2, <1>3, <1>5, <2>1 DEF Good
<1>. QED  BY <1>1, <1>4, <1>5

\* A batch taken from the end of the queue and the rest are the whole queue.
LEMMA GoodSplit ==
  ASSUME NEW s \in Seq(BOOLEAN), NEW n \in 1..Len(s)
  PROVE  /\ SubSeq(s, 1, Len(s) - n) \in Seq(BOOLEAN)
         /\ Len(SubSeq(s, 1, Len(s) - n)) = Len(s) - n
         /\ SubSeq(s, Len(s) - n + 1, Len(s)) \in Seq(BOOLEAN)
         /\ Len(SubSeq(s, Len(s) - n + 1, Len(s))) = n
         /\ Good(s) <=> /\ Good(SubSeq(s, 1, Len(s) - n))
                        /\ Good(SubSeq(s, Len(s) - n + 1, Len(s)))
<1>. DEFINE front == SubSeq(s, 1, Len(s) - n)
            back  == SubSeq(s, Len(s) - n + 1, Len(s))
<1>1. front \in Seq(BOOLEAN) /\ Len(front) = Len(s) - n
  OBVIOUS
<1>2. back \in Seq(BOOLEAN) /\ Len(back) = n
  OBVIOUS
<1>3. front \o back = s
  <2>1. front \o back \in Seq(BOOLEAN) /\ Len(front \o back) = Len(s)
    BY <1>1, <1>2, ConcatProperties
  <2>2. \A j \in 1..(Len(s) - n) : front[j] = s[j]
    OBVIOUS
  <2>3. \A j \in 1..n : back[j] = s[Len(s) - n + j]
    OBVIOUS
  <2>. DEFINE whole == front \o back
  <2>. HIDE DEF front, back
  <2>4. \A i \in 1..(Len(front) + Len(back)) :
          whole[i] = IF i <= Len(front) THEN front[i] ELSE back[i - Len(front)]
    BY <1>1, <1>2, ConcatProperties, Zenon
  <2>. HIDE DEF whole
  <2>5. ASSUME NEW i \in 1..Len(s) PROVE whole[i] = s[i]
    <3>1. Len(s) \in Nat
      BY LenProperties
    <3>2. i \in 1..(Len(front) + Len(back))
      BY <1>1, <1>2, <3>1
    <3>3. CASE i <= Len(s) - n
      BY <1>1, <2>2, <2>4, <3>1, <3>2, <3>3
    <3>4. CASE i > Len(s) - n
      <4>1. i - (Len(s) - n) \in 1..n /\ Len(s) - n + (i - (Len(s) - n)) = i
        BY <3>1, <3>4
      <4>. QED  BY <1>1, <2>3, <2>4, <3>1, <3>2, <3>4, <4>1
    <3>. QED  BY <3>1, <3>3, <3>4
  <2>. QED  BY <2>1, <2>5, SeqEqual DEF whole
<1>. HIDE DEF front, back
<1>4. Good(s) <=> Good(front) /\ Good(back)
  BY <1>1, <1>2, <1>3, GoodConcat
<1>. QED  BY <1>1, <1>2, <1>4 DEF front, back

\* A batch has at least one check, and not more than there are.
LEMMA BatchSize ==
  ASSUME ConstantsAssumption, NEW size \in Nat \ {0}, NEW total \in Int, NEW idle \in Int,
         total + idle >= 0
  PROVE  BatchOf(size, total, idle) \in 1..size /\ BatchOf(size, total, idle) <= nBatchSize
<1>. DEFINE k == total + idle + 1
            q == size \div k
<1>1. k \in Nat \ {0}
  OBVIOUS
<1>. HIDE DEF k
<1>2. q \in Nat /\ q <= size
  BY <1>1
<1>. HIDE DEF q
<1>3. nBatchSize \in Nat \ {0}
  BY DEF ConstantsAssumption
<1>4. BatchOf(size, total, idle) = Larger(1, Smaller(nBatchSize, q))
  BY DEF BatchOf, q, k
<1>. QED  BY <1>2, <1>3, <1>4 DEF Larger, Smaller

\* A batch of n checks adds n to those of the other threads.
LEMMA CountBatch ==
  ASSUME NEW S, IsFiniteSet(S), NEW t, \A c \in S : c[1] # t, NEW n \in Nat
  PROVE  Cardinality(S \cup ({t} \X (1..n))) = Cardinality(S) + n
<1>. DEFINE B == {t} \X (1..n)
<1>1. IsFiniteSet(1..n) /\ Cardinality(1..n) = n
  BY FS_Interval
<1>2. IsFiniteSet({t}) /\ Cardinality({t}) = 1
  BY FS_Singleton
<1>3. IsFiniteSet(B) /\ Cardinality(B) = n
  BY <1>1, <1>2, FS_Product
<1>4. S \cap B = {}
  OBVIOUS
<1>. HIDE DEF B
<1>5. Cardinality(S) \in Nat /\ Cardinality({}) = 0
  BY FS_CardinalityType, FS_EmptySet
<1>6. Cardinality(S \cup B) = Cardinality(S) + Cardinality(B) - Cardinality({})
  BY <1>3, <1>4, FS_Union
<1>. QED  BY <1>3, <1>5, <1>6 DEF B

\* Threads and the checks they have are finitely many.
LEMMA Countable ==
  ASSUME ConstantsAssumption, NEW S, S \subseteq Threads, NEW now
  PROVE  /\ IsFiniteSet(S) /\ Cardinality(S) \in Nat
         /\ IsFiniteSet(Taken(S, now)) /\ Cardinality(Taken(S, now)) \in Nat
<1>1. IsFiniteSet(Threads)
  BY FS_AddElement DEF ConstantsAssumption, Threads
<1>2. IsFiniteSet(S)
  BY <1>1, FS_Subset
<1>3. IsFiniteSet(1..nBatchSize)
  BY FS_Interval DEF ConstantsAssumption
<1>4. IsFiniteSet(S \X (1..nBatchSize))
  BY <1>2, <1>3, FS_Product
<1>5. IsFiniteSet(Taken(S, now))
  BY <1>4, FS_Subset DEF Taken
<1>. QED  BY <1>2, <1>5, FS_CardinalityType

\* A thread with a batch has a check of it.
LEMMA NothingTaken ==
  ASSUME ConstantsAssumption, NEW S, S \subseteq Threads,
         NEW now \in [Threads -> 0..nBatchSize], \A t \in S : now[t] > 0,
         Cardinality(Taken(S, now)) = 0
  PROVE  S = {}
<1>1. Taken(S, now) = {}
  BY Countable, FS_EmptySet
<1>2. ASSUME NEW t \in S PROVE <<t, 1>> \in Taken(S, now)
  BY DEF Taken, ConstantsAssumption
<1>. QED  BY <1>1, <1>2

\* A thread that takes a batch of n checks adds them.
LEMMA BatchTaken ==
  ASSUME ConstantsAssumption, NEW S, S \subseteq Threads, NEW t \in Threads \ S,
         NEW now \in [Threads -> 0..nBatchSize], NEW n \in 1..nBatchSize
  PROVE  Cardinality(Taken(S \cup {t}, [now EXCEPT ![t] = n])) = Cardinality(Taken(S, now)) + n
<1>1. Taken(S \cup {t}, [now EXCEPT ![t] = n]) = Taken(S, now) \cup ({t} \X (1..n))
  BY DEF Taken, ConstantsAssumption
<1>2. \A c \in Taken(S, now) : c[1] # t
  BY DEF Taken
<1>3. n \in Nat /\ IsFiniteSet(Taken(S, now))
  BY Countable DEF ConstantsAssumption
<1>4. Cardinality(Taken(S, now) \cup ({t} \X (1..n))) = Cardinality(Taken(S, now)) + n
  BY <1>2, <1>3, CountBatch
<1>. QED  BY <1>1, <1>4, Zenon

\* A thread that accounts for its batch takes its checks off.
LEMMA BatchDone ==
  ASSUME ConstantsAssumption, NEW S, S \subseteq Threads, NEW t \in S,
         NEW now \in [Threads -> 0..nBatchSize]
  PROVE  Cardinality(Taken(S \ {t}, now)) = Cardinality(Taken(S, now)) - now[t]
<1>. DEFINE T == Taken(S \ {t}, now)
<1>1. Taken(S, now) = T \cup ({t} \X (1..now[t]))
  BY DEF Taken, ConstantsAssumption
<1>2. \A c \in T : c[1] # t
  BY DEF Taken
<1>3. now[t] \in Nat /\ IsFiniteSet(T) /\ Cardinality(T) \in Nat
  BY Countable DEF ConstantsAssumption
<1>. HIDE DEF T
<1>4. Cardinality(T \cup ({t} \X (1..now[t]))) = Cardinality(T) + now[t]
  BY <1>2, <1>3, CountBatch
<1>5. Cardinality(Taken(S, now)) = Cardinality(T) + now[t]
  BY <1>1, <1>4, Zenon
<1>. QED  BY <1>3, <1>5 DEF T

\* Initially nothing was begun.
LEMMA InitInv ==
  ASSUME ConstantsAssumption, Init
  PROVE  Inv
<1>1. Types
  BY EmptySeq DEF Init, Types, ConstantsAssumption
<1>2. Busy = {} /\ Resting = {}
  BY DEF Init, Busy, HaveBatch, Resting, Threads
<1>3. Taken(Busy, nNow) = {}
  BY <1>2 DEF Taken
<1>4. Cardinality(Resting) = 0 /\ Cardinality(Busy) = 0 /\ Cardinality(Taken(Busy, nNow)) = 0
  BY <1>2, <1>3, FS_EmptySet, Zenon
<1>5. Counted
  BY <1>4 DEF Init, Counted
<1>6. BatchesHeld /\ MasterInside
  BY DEF Init, BatchesHeld, MasterInside, Threads
<1>7. Verdict /\ ResultIsRight /\ StartsIdle
  BY DEF Init, Verdict, ResultIsRight, StartsIdle
<1>8. MasterAwaits
  BY DEF Init, MasterAwaits, Threads
<1>. QED  BY <1>1, <1>5, <1>6, <1>7, <1>8 DEF Inv

-----------------------------------------------------------------------------
PCs == {"out", "enter", "wait", "woken", "exec", "gone"}

(* What the clean-up leaves to the rest of the critical section, in which  *)
(* thread t counts as neither busy nor resting.                            *)
CleanedUp(t, total, idle, todo, allOk, pcs) ==
  /\ Types /\ BatchesHeld /\ MasterInside /\ ResultIsRight /\ StartsIdle
  /\ pc[t] \in {"enter", "woken"}
  /\ total \in Int /\ idle \in Int /\ todo \in Int /\ allOk \in BOOLEAN
  /\ pcs \in [Threads -> PCs]
  /\ \A u \in Threads \ {t} : pcs[u] = pc[u] \/ (pc[u] = "wait" /\ pcs[u] = "woken")
  /\ Cardinality(Resting \ {t}) <= idle
  /\ total = idle + Cardinality(Busy \ {t}) + 1
  /\ todo = Len(queue) + Cardinality(Taken(Busy \ {t}, nNow))
  /\ todo <= Len(added)
  /\ t # Master /\ pcs[Master] = "wait" => queue = <<>> /\ todo > 0
  /\ IF phase \in {"none", "done"} THEN todo = 0 /\ allOk
     ELSE Good(added) <=> /\ allOk /\ Good(queue)
                          /\ \A u \in Busy \ {t} : fOk[u] /\ Good(batch[u])

\* Where the rest of the critical section leaves the threads.
LEMMA ServedThreads ==
  ASSUME NEW t \in Threads, Types, NEW pcs \in [Threads -> PCs], NEW p,
         \A u \in Threads \ {t} : pcs[u] = pc[u] \/ (pc[u] = "wait" /\ pcs[u] = "woken"),
         pc' = [pcs EXCEPT ![t] = p], \A u \in Threads \ {t} : nNow'[u] = nNow[u]
  PROVE  /\ p = "exec" => Busy' = (Busy \ {t}) \cup {t} /\ Resting' = Resting \ {t}
         /\ p = "wait" => Busy' = Busy \ {t} /\ Resting' = (Resting \ {t}) \cup {t}
         /\ p = "out" => Busy' = Busy \ {t} /\ Resting' = Resting \ {t}
<1>1. pc'[t] = p /\ \A u \in Threads \ {t} : pc'[u] = pcs[u]
  OBVIOUS
<1>2. \A u \in Threads \ {t} : u \in Busy' <=> u \in Busy
  BY <1>1 DEF Busy, HaveBatch
<1>3. \A u \in Threads \ {t} : u \in Resting' <=> u \in Resting
  BY <1>1 DEF Resting
<1>4. Busy \subseteq Threads /\ Busy' \subseteq Threads /\ Resting \subseteq Threads /\ Resting' \subseteq Threads
  BY DEF Busy, HaveBatch, Resting
<1>5. p = "exec" => t \in Busy' /\ t \notin Resting'
  BY <1>1 DEF Busy, HaveBatch, Resting
<1>6. p = "wait" => t \notin Busy' /\ t \in Resting'
  BY <1>1 DEF Busy, HaveBatch, Resting
<1>7. p = "out" => t \notin Busy' /\ t \notin Resting'
  BY <1>1 DEF Busy, HaveBatch, Resting
<1>. QED  BY <1>2, <1>3, <1>4, <1>5, <1>6, <1>7

\* A batch that is taken leaves the queue and is remembered by its thread.
LEMMA ServeBatch ==
  ASSUME ConstantsAssumption, NEW t \in Threads, NEW total, NEW idle, NEW todo, NEW allOk, NEW pcs,
         CleanedUp(t, total, idle, todo, allOk, pcs), queue # <<>>,
         Serve(t, total, idle, todo, allOk, pcs)
  PROVE  Inv'
<1>. DEFINE n == BatchOf(Len(queue), total, idle)
            B == Busy \ {t}
<1>1. /\ Types /\ BatchesHeld /\ MasterInside /\ ResultIsRight /\ StartsIdle
      /\ total \in Int /\ idle \in Int /\ todo \in Int /\ allOk \in BOOLEAN
      /\ pcs \in [Threads -> PCs] /\ pc[t] # "exec"
      /\ \A u \in Threads \ {t} : pcs[u] = pc[u] \/ (pc[u] = "wait" /\ pcs[u] = "woken")
      /\ Cardinality(Resting \ {t}) <= idle /\ total = idle + Cardinality(B) + 1
      /\ todo = Len(queue) + Cardinality(Taken(B, nNow)) /\ todo <= Len(added)
  BY DEF CleanedUp
<1>2. /\ B \subseteq Threads /\ t \notin B /\ Resting \ {t} \subseteq Threads
      /\ IsFiniteSet(B) /\ Cardinality(B) \in Nat /\ Cardinality(Taken(B, nNow)) \in Nat
      /\ Cardinality(Resting \ {t}) \in Nat
  BY Countable DEF Busy, HaveBatch, Resting
<1>3. queue \in Seq(BOOLEAN) /\ Len(queue) \in Nat \ {0}
  BY <1>1, EmptySeq DEF Types
<1>4. n \in 1..Len(queue) /\ n <= nBatchSize /\ n \in 1..nBatchSize
  <2>1. total + idle >= 0
    BY <1>1, <1>2
  <2>2. n \in 1..Len(queue) /\ n <= nBatchSize
    BY <1>1, <1>3, <2>1, BatchSize
  <2>. HIDE DEF n
  <2>. QED  BY <1>3, <2>2 DEF ConstantsAssumption
<1>5. /\ nNow' = [nNow EXCEPT ![t] = n]
      /\ batch' = [batch EXCEPT ![t] = SubSeq(queue, Len(queue) - n + 1, Len(queue))]
      /\ queue' = SubSeq(queue, 1, Len(queue) - n)
      /\ fOk' = [fOk EXCEPT ![t] = allOk]
      /\ pc' = [pcs EXCEPT ![t] = "exec"]
      /\ nTotal' = total /\ nIdle' = idle /\ nTodo' = todo /\ fAllOk' = allOk
      /\ UNCHANGED <<round, phase, added, result, idleAtStart, interrupted>>
  BY DEF Serve, control
<1>. HIDE DEF n
<1>6. /\ queue' \in Seq(BOOLEAN) /\ Len(queue') = Len(queue) - n
      /\ batch'[t] \in Seq(BOOLEAN) /\ Len(batch'[t]) = n
      /\ Good(queue) <=> Good(queue') /\ Good(batch'[t])
  <2>1. batch'[t] = SubSeq(queue, Len(queue) - n + 1, Len(queue))
    BY <1>1, <1>5 DEF Types
  <2>2. /\ SubSeq(queue, 1, Len(queue) - n) \in Seq(BOOLEAN)
        /\ Len(SubSeq(queue, 1, Len(queue) - n)) = Len(queue) - n
        /\ SubSeq(queue, Len(queue) - n + 1, Len(queue)) \in Seq(BOOLEAN)
        /\ Len(SubSeq(queue, Len(queue) - n + 1, Len(queue))) = n
        /\ Good(queue) <=> /\ Good(SubSeq(queue, 1, Len(queue) - n))
                           /\ Good(SubSeq(queue, Len(queue) - n + 1, Len(queue)))
    BY <1>3, <1>4, GoodSplit, Zenon
  <2>. QED  BY <1>5, <2>1, <2>2, Zenon
<1>7. Busy' = B \cup {t} /\ Resting' = Resting \ {t}
  <2>1. \A u \in Threads \ {t} : nNow'[u] = nNow[u]
    BY <1>1, <1>5 DEF Types
  <2>. QED  BY <1>1, <1>5, <2>1, ServedThreads
<1>8. Types'
  <2>1. pc' \in [Threads -> PCs] /\ nNow' \in [Threads -> 0..nBatchSize]
    BY <1>1, <1>4, <1>5 DEF Types, PCs, ConstantsAssumption
  <2>2. batch' \in [Threads -> Seq(BOOLEAN)] /\ fOk' \in [Threads -> BOOLEAN]
    BY <1>1, <1>5, <1>6 DEF Types
  <2>. QED  BY <1>1, <1>5, <1>6, <2>1, <2>2 DEF Types, PCs
<1>9. Counted'
  <2>1. Cardinality(Busy') = Cardinality(B) + 1
    BY <1>2, <1>7, FS_AddElement
  <2>2. Cardinality(Taken(Busy, nNow)') = Cardinality(Taken(B, nNow)) + n
    <3>1. nNow \in [Threads -> 0..nBatchSize]
      BY <1>1 DEF Types
    <3>2. Taken(Busy, nNow)' = Taken(B \cup {t}, [nNow EXCEPT ![t] = n])
      BY <1>5, <1>7 DEF Taken
    <3>3. Cardinality(Taken(B \cup {t}, [nNow EXCEPT ![t] = n])) = Cardinality(Taken(B, nNow)) + n
      <4>1. t \in Threads \ B
        BY <1>2
      <4>. HIDE DEF B
      <4>. QED  BY <1>2, <1>4, <3>1, <4>1, BatchTaken, Zenon
    <3>. QED  BY <3>2, <3>3, Zenon
  <2>3. Cardinality(Resting') <= nIdle'
    BY <1>1, <1>5, <1>7
  <2>4. nTotal' = nIdle' + Cardinality(Busy')
    BY <1>1, <1>2, <1>5, <2>1
  <2>5. nTodo' = Len(queue') + Cardinality(Taken(Busy, nNow)')
    <3>. DEFINE held == Cardinality(Taken(B, nNow))
                more == Cardinality(Taken(Busy, nNow)')
    <3>1. nTodo' = Len(queue) + held /\ held \in Nat
      BY <1>1, <1>2, <1>5
    <3>2. Len(queue') = Len(queue) - n /\ more = held + n
      BY <1>6, <2>2
    <3>. HIDE DEF held, more
    <3>3. nTodo' = Len(queue') + more
      BY <1>3, <1>4, <3>1, <3>2
    <3>. QED  BY <3>3 DEF more
  <2>6. nTodo' <= Len(added')
    BY <1>1, <1>5
  <2>. QED  BY <2>3, <2>4, <2>5, <2>6 DEF Counted
<1>10. BatchesHeld'
  <2>1. pc'[t] = "exec" /\ nNow'[t] = n /\ Len(batch'[t]) = nNow'[t] /\ nNow'[t] > 0
    BY <1>1, <1>4, <1>5, <1>6 DEF Types
  <2>2. ASSUME NEW u \in Threads \ {t}
        PROVE  /\ batch'[u] = batch[u] /\ nNow'[u] = nNow[u]
               /\ pc'[u] = "exec" <=> pc[u] = "exec"
    BY <1>1, <1>5 DEF Types
  <2>. QED  BY <1>1, <2>1, <2>2 DEF BatchesHeld
<1>11. MasterInside'
  <2>1. CASE t = Master
    BY <1>1, <1>5, <2>1 DEF MasterInside, CleanedUp
  <2>2. CASE t # Master
    <3>1. Master \in Threads \ {t}
      BY <2>2 DEF Threads
    <3>2. pc'[Master] = pcs[Master] /\ phase' = phase
      BY <1>1, <1>5, <3>1
    <3>. QED  BY <1>1, <3>1, <3>2 DEF MasterInside
  <2>. QED  BY <2>1, <2>2
<1>12. Verdict'
  <2>1. todo # 0
    BY <1>1, <1>2, <1>3
  <2>2. phase \notin {"none", "done"}
    BY <2>1 DEF CleanedUp
  <2>3. Good(added) <=> /\ allOk /\ Good(queue)
                        /\ \A u \in B : fOk[u] /\ Good(batch[u])
    BY <2>2 DEF CleanedUp
  <2>4. \A u \in B : fOk'[u] = fOk[u] /\ batch'[u] = batch[u]
    BY <1>1, <1>2, <1>5 DEF Types
  <2>5. fOk'[t] = allOk
    BY <1>1, <1>5 DEF Types
  <2>6. (\A u \in Busy' : fOk'[u] /\ Good(batch'[u]))
          <=> (\A u \in B : fOk[u] /\ Good(batch[u])) /\ allOk /\ Good(batch'[t])
    BY <1>7, <2>4, <2>5
  <2>7. Good(added') = Good(added)
    BY <1>5 DEF Good
  <2>. QED  BY <1>5, <1>6, <2>2, <2>3, <2>6, <2>7 DEF Verdict, Good
<1>13. ResultIsRight' /\ StartsIdle'
  BY <1>1, <1>5 DEF ResultIsRight, StartsIdle
<1>14. MasterAwaits'
  <2>1. Master \in Threads /\ pc'[Master] = IF t = Master THEN "exec" ELSE pcs[Master]
    BY <1>1, <1>5 DEF Threads
  <2>. QED  BY <2>1 DEF MasterAwaits, CleanedUp
<1>. QED  BY <1>8, <1>9, <1>10, <1>11, <1>12, <1>13, <1>14 DEF Inv

\* A thread that waits is counted as idle.
LEMMA ServeWait ==
  ASSUME ConstantsAssumption, NEW t \in Threads, NEW total, NEW idle, NEW todo, NEW allOk, NEW pcs,
         CleanedUp(t, total, idle, todo, allOk, pcs), queue = <<>>, ~MayReturn(t, todo),
         Serve(t, total, idle, todo, allOk, pcs)
  PROVE  Inv'
<1>. DEFINE B == Busy \ {t}
            R == Resting \ {t}
<1>1. /\ Types /\ BatchesHeld /\ MasterInside /\ ResultIsRight /\ StartsIdle
      /\ total \in Int /\ idle \in Int /\ todo \in Int /\ allOk \in BOOLEAN
      /\ pcs \in [Threads -> PCs] /\ pc[t] # "exec"
      /\ \A u \in Threads \ {t} : pcs[u] = pc[u] \/ (pc[u] = "wait" /\ pcs[u] = "woken")
      /\ Cardinality(R) <= idle /\ total = idle + Cardinality(B) + 1
      /\ todo = Len(queue) + Cardinality(Taken(B, nNow)) /\ todo <= Len(added)
  BY DEF CleanedUp
<1>2. /\ B \subseteq Threads /\ R \subseteq Threads /\ t \notin R /\ IsFiniteSet(R)
      /\ Cardinality(B) \in Nat /\ Cardinality(Taken(B, nNow)) \in Nat /\ Cardinality(R) \in Nat
  BY Countable DEF Busy, HaveBatch, Resting
<1>3. /\ nIdle' = idle + 1 /\ pc' = [pcs EXCEPT ![t] = "wait"]
      /\ nTotal' = total /\ nTodo' = todo /\ fAllOk' = allOk
      /\ UNCHANGED <<queue, batch, fOk, nNow, round, phase, added, result, idleAtStart,
                     interrupted>>
  BY DEF Serve, control
<1>4. Busy' = B /\ Resting' = R \cup {t}
  BY <1>1, <1>3, ServedThreads
<1>5. Types'
  <2>1. pc' \in [Threads -> PCs]
    BY <1>1, <1>3 DEF PCs
  <2>. QED  BY <1>1, <1>3, <2>1 DEF Types, PCs
<1>6. Counted'
  <2>1. Cardinality(Resting') = Cardinality(R) + 1
    BY <1>2, <1>4, FS_AddElement
  <2>2. Taken(Busy, nNow)' = Taken(B, nNow)
    BY <1>3, <1>4 DEF Taken
  <2>. HIDE DEF B, R
  <2>3. nTodo' = Len(queue') + Cardinality(Taken(Busy, nNow)')
    BY <1>1, <1>3, <2>2
  <2>4. Cardinality(Busy') = Cardinality(B)
    BY <1>4
  <2>. QED  BY <1>1, <1>2, <1>3, <2>1, <2>3, <2>4 DEF Counted
<1>7. BatchesHeld'
  <2>1. pc'[t] = "wait" /\ batch'[t] = <<>>
    BY <1>1, <1>3 DEF BatchesHeld
  <2>2. \A u \in Threads \ {t} : pc'[u] = "exec" <=> pc[u] = "exec"
    BY <1>1, <1>3
  <2>. QED  BY <1>1, <1>3, <2>1, <2>2 DEF BatchesHeld
<1>8. MasterInside'
  <2>1. CASE t = Master
    BY <1>1, <1>3, <2>1 DEF MasterInside, CleanedUp
  <2>2. CASE t # Master
    <3>1. Master \in Threads \ {t}
      BY <2>2 DEF Threads
    <3>2. pc'[Master] = pcs[Master] /\ phase' = phase
      BY <1>1, <1>3, <3>1
    <3>. QED  BY <1>1, <3>1, <3>2 DEF MasterInside
  <2>. QED  BY <2>1, <2>2
<1>9. Verdict'
  <2>1. Good(added') = Good(added) /\ Good(queue') = Good(queue)
    BY <1>3 DEF Good
  <2>2. \A u \in B : fOk'[u] = fOk[u] /\ Good(batch'[u]) = Good(batch[u])
    BY <1>3
  <2>3. (\A u \in Busy' : fOk'[u] /\ Good(batch'[u]))
          <=> (\A u \in B : fOk[u] /\ Good(batch[u]))
    BY <1>4, <2>2
  <2>. QED  BY <1>3, <2>1, <2>3 DEF Verdict, CleanedUp, Good
<1>10. ResultIsRight' /\ StartsIdle'
  BY <1>1, <1>3 DEF ResultIsRight, StartsIdle
<1>11. MasterAwaits'
  <2>1. CASE t = Master
    <3>1. Len(queue) = 0
      BY EmptySeq
    <3>2. todo # 0 /\ todo \in Nat
      BY <1>1, <1>2, <2>1, <3>1 DEF MayReturn
    <3>. QED  BY <1>3, <3>2 DEF MasterAwaits
  <2>2. CASE t # Master
    <3>1. pc'[Master] = pcs[Master]
      BY <1>1, <1>3, <2>2 DEF Threads
    <3>. QED  BY <1>3, <2>2, <3>1 DEF MasterAwaits, CleanedUp
  <2>. QED  BY <2>1, <2>2
<1>. QED  BY <1>5, <1>6, <1>7, <1>8, <1>9, <1>10, <1>11 DEF Inv

\* Wait returns when nothing is left, with the verdict on the whole block.
LEMMA ServeReturn ==
  ASSUME ConstantsAssumption, NEW t \in Threads, NEW total, NEW idle, NEW todo, NEW allOk, NEW pcs,
         CleanedUp(t, total, idle, todo, allOk, pcs), queue = <<>>, MayReturn(t, todo),
         Serve(t, total, idle, todo, allOk, pcs)
  PROVE  Inv'
<1>. DEFINE B == Busy \ {t}
            R == Resting \ {t}
<1>1. /\ Types /\ BatchesHeld /\ MasterInside /\ StartsIdle
      /\ total \in Int /\ idle \in Int /\ todo \in Int /\ allOk \in BOOLEAN
      /\ pcs \in [Threads -> PCs] /\ pc[t] \in {"enter", "woken"}
      /\ \A u \in Threads \ {t} : pcs[u] = pc[u] \/ (pc[u] = "wait" /\ pcs[u] = "woken")
      /\ Cardinality(R) <= idle /\ total = idle + Cardinality(B) + 1
      /\ todo = Len(queue) + Cardinality(Taken(B, nNow)) /\ todo <= Len(added)
  BY DEF CleanedUp
<1>2. /\ B \subseteq Threads /\ R \subseteq Threads
      /\ Cardinality(B) \in Nat /\ Cardinality(Taken(B, nNow)) \in Nat /\ Cardinality(R) \in Nat
  BY Countable DEF Busy, HaveBatch, Resting
<1>3. /\ nTotal' = total - 1 /\ result' = allOk /\ fAllOk' = TRUE /\ phase' = "done"
      /\ pc' = [pcs EXCEPT ![t] = "out"] /\ nIdle' = idle /\ nTodo' = todo
      /\ UNCHANGED <<queue, batch, fOk, nNow, round, added, idleAtStart, interrupted>>
  BY DEF Serve
<1>4. t = Master /\ todo = 0 /\ phase = "wait"
  BY <1>1 DEF MayReturn, MasterInside
<1>5. Busy' = B /\ Resting' = R
  BY <1>1, <1>3, ServedThreads
<1>6. B = {}
  <2>1. \A u \in B : nNow[u] > 0
    BY <1>1 DEF Busy, HaveBatch, BatchesHeld
  <2>2. Len(queue) = 0 /\ Cardinality(Taken(B, nNow)) = 0
    BY <1>1, <1>2, <1>4, EmptySeq
  <2>3. nNow \in [Threads -> 0..nBatchSize]
    BY <1>1 DEF Types
  <2>. HIDE DEF B
  <2>. QED  BY <1>2, <2>1, <2>2, <2>3, NothingTaken
<1>7. Types'
  <2>1. pc' \in [Threads -> PCs]
    BY <1>1, <1>3 DEF PCs
  <2>. QED  BY <1>1, <1>3, <2>1 DEF Types, PCs
<1>8. Counted'
  <2>1. Taken(Busy, nNow)' = Taken(B, nNow)
    BY <1>3, <1>5 DEF Taken
  <2>. HIDE DEF B, R
  <2>2. nTodo' = Len(queue') + Cardinality(Taken(Busy, nNow)')
    BY <1>1, <1>3, <2>1
  <2>3. Cardinality(Busy') = Cardinality(B) /\ Cardinality(Resting') = Cardinality(R)
    BY <1>5
  <2>. QED  BY <1>1, <1>2, <1>3, <2>2, <2>3 DEF Counted
<1>9. BatchesHeld'
  <2>1. pc'[t] = "out" /\ batch'[t] = <<>>
    BY <1>1, <1>3 DEF BatchesHeld
  <2>2. \A u \in Threads \ {t} : pc'[u] = "exec" <=> pc[u] = "exec"
    BY <1>1, <1>3
  <2>. QED  BY <1>1, <1>3, <2>1, <2>2 DEF BatchesHeld
<1>10. MasterInside'
  BY <1>1, <1>3, <1>4 DEF MasterInside
<1>11. Verdict'
  BY <1>3, <1>4 DEF Verdict
<1>12. ResultIsRight'
  <2>1. Good(added) <=> /\ allOk /\ Good(queue)
                        /\ \A u \in B : fOk[u] /\ Good(batch[u])
    BY <1>4 DEF CleanedUp
  <2>2. Good(queue)
    BY DEF Good
  <2>3. Good(added) <=> allOk
    BY <1>6, <2>1, <2>2
  <2>. QED  BY <1>3, <2>3 DEF ResultIsRight, Good
<1>13. StartsIdle'
  BY <1>1, <1>3 DEF StartsIdle
<1>14. MasterAwaits'
  BY <1>1, <1>3, <1>4 DEF MasterAwaits
<1>. QED  BY <1>7, <1>8, <1>9, <1>10, <1>11, <1>12, <1>13, <1>14 DEF Inv

\* The rest of the critical section, whichever way it ends.
LEMMA ServeKeeps ==
  ASSUME ConstantsAssumption, NEW t \in Threads, NEW total, NEW idle, NEW todo, NEW allOk, NEW pcs,
         CleanedUp(t, total, idle, todo, allOk, pcs), Serve(t, total, idle, todo, allOk, pcs)
  PROVE  Inv'
<1>1. CASE queue # <<>>
  BY <1>1, ServeBatch
<1>2. CASE queue = <<>> /\ MayReturn(t, todo)
  BY <1>2, ServeReturn
<1>3. CASE queue = <<>> /\ ~MayReturn(t, todo)
  BY <1>3, ServeWait
<1>. QED  BY <1>1, <1>2, <1>3

\* When nothing is left to do no thread has a batch.
LEMMA NothingToDo ==
  ASSUME ConstantsAssumption, Inv, nTodo = 0
  PROVE  queue = <<>> /\ Busy = {} /\ nTotal = nIdle
<1>1. /\ Busy \subseteq Threads /\ Cardinality(Taken(Busy, nNow)) \in Nat
      /\ queue \in Seq(BOOLEAN) /\ Len(queue) \in Nat
      /\ nNow \in [Threads -> 0..nBatchSize]
  BY Countable, LenProperties DEF Busy, HaveBatch, Inv, Types
<1>2. Len(queue) = 0 /\ Cardinality(Taken(Busy, nNow)) = 0
  BY <1>1 DEF Inv, Counted
<1>3. \A u \in Busy : nNow[u] > 0
  BY DEF Inv, BatchesHeld, Busy, HaveBatch
<1>4. Busy = {}
  BY <1>1, <1>2, <1>3, NothingTaken
<1>5. Cardinality(Busy) = 0
  BY <1>4, FS_EmptySet, Zenon
<1>. QED  BY <1>1, <1>2, <1>4, <1>5, EmptySeq DEF Inv, Counted, Types

\* A thread that comes to the mutex with a batch behind it, or for the first time
LEMMA EnterKeeps ==
  ASSUME ConstantsAssumption, Inv, NEW t \in Threads, EnterLoop(t)
  PROVE  Inv'
<1>1. /\ Types /\ BatchesHeld /\ MasterInside /\ ResultIsRight /\ StartsIdle /\ pc[t] = "enter"
      /\ nTotal \in Int /\ nIdle \in Int /\ nTodo \in Int /\ fAllOk \in BOOLEAN
      /\ pc \in [Threads -> PCs] /\ fOk[t] \in BOOLEAN /\ nNow \in [Threads -> 0..nBatchSize]
      /\ nNow[t] \in Nat
  BY DEF Inv, Types, EnterLoop, PCs, ConstantsAssumption
<1>2. /\ Cardinality(Resting) <= nIdle /\ nTotal = nIdle + Cardinality(Busy)
      /\ nTodo = Len(queue) + Cardinality(Taken(Busy, nNow)) /\ nTodo <= Len(added)
  BY DEF Inv, Counted
<1>3. /\ Busy \subseteq Threads /\ Resting \subseteq Threads /\ IsFiniteSet(Busy)
      /\ Cardinality(Busy) \in Nat /\ Cardinality(Resting) \in Nat
      /\ Cardinality(Taken(Busy, nNow)) \in Nat /\ Len(queue) \in Nat /\ Len(added) \in Nat
  BY <1>1, Countable, LenProperties DEF Busy, HaveBatch, Resting, Types
<1>4. Resting \ {t} = Resting
  BY <1>1 DEF Resting
<1>5. CASE nNow[t] > 0
  <2>. DEFINE todo == nTodo - nNow[t]
              allOk == fAllOk /\ fOk[t]
  <2>1. PICK pcs \in IF todo = 0 /\ t # Master THEN NotifyOne(pc, {Master}) ELSE {pc} :
          Serve(t, nTotal, nIdle, todo, allOk, pcs)
    BY <1>5 DEF EnterLoop
  <2>2. /\ pcs \in [Threads -> PCs]
        /\ \A u \in Threads \ {t} : pcs[u] = pc[u] \/ (pc[u] = "wait" /\ pcs[u] = "woken")
    BY <1>1, <2>1 DEF NotifyOne, Waiting, PCs
  <2>3. t \in Busy /\ batch[t] = <<>>
    BY <1>1, <1>5 DEF Busy, HaveBatch, BatchesHeld
  <2>4. Cardinality(Busy \ {t}) = Cardinality(Busy) - 1
    BY <1>3, <2>3, FS_RemoveElement
  <2>5. Cardinality(Taken(Busy \ {t}, nNow)) = Cardinality(Taken(Busy, nNow)) - nNow[t]
    BY <1>1, <1>3, <2>3, BatchDone
  <2>6. phase \notin {"none", "done"}
    BY <2>3, NothingToDo DEF Inv, Verdict
  <2>7. Good(added) <=> /\ allOk /\ Good(queue)
                        /\ \A u \in Busy \ {t} : fOk[u] /\ Good(batch[u])
    <3>1. Good(batch[t])
      BY <2>3 DEF Good
    <3>2. Good(added) <=> /\ fAllOk /\ Good(queue)
                          /\ \A u \in Busy : fOk[u] /\ Good(batch[u])
      BY <2>6 DEF Inv, Verdict
    <3>3. (\A u \in Busy : fOk[u] /\ Good(batch[u]))
            <=> fOk[t] /\ \A u \in Busy \ {t} : fOk[u] /\ Good(batch[u])
      BY <2>3, <3>1
    <3>. QED  BY <3>2, <3>3
  <2>8. todo \in Int /\ todo <= Len(added) /\ allOk \in BOOLEAN
    <3>1. todo \in Int /\ todo <= Len(added)
      BY <1>1, <1>2, <1>3
    <3>2. allOk \in BOOLEAN
      OBVIOUS
    <3>. QED  BY <3>1, <3>2
  <2>9. /\ Cardinality(Resting \ {t}) <= nIdle
        /\ nTotal = nIdle + Cardinality(Busy \ {t}) + 1
        /\ todo = Len(queue) + Cardinality(Taken(Busy \ {t}, nNow))
    <3>1. Cardinality(Resting \ {t}) <= nIdle
      BY <1>2, <1>4
    <3>2. nTotal = nIdle + Cardinality(Busy \ {t}) + 1
      BY <1>1, <1>2, <1>3, <2>4
    <3>3. todo = Len(queue) + Cardinality(Taken(Busy \ {t}, nNow))
      BY <1>1, <1>2, <1>3, <2>5
    <3>. QED  BY <3>1, <3>2, <3>3
  <2>10. t # Master /\ pcs[Master] = "wait" => queue = <<>> /\ todo > 0
    <3>1. ASSUME t # Master, pcs[Master] = "wait" PROVE queue = <<>> /\ todo > 0
      <4>1. Master \in Threads \ {t} /\ pc[Master] = "wait"
        BY <2>2, <3>1 DEF Threads
      <4>2. queue = <<>>
        BY <4>1 DEF Inv, MasterAwaits
      <4>3. todo # 0
        <5>1. ASSUME todo = 0 PROVE FALSE
          <6>1. pcs \in NotifyOne(pc, {Master}) /\ Waiting(pc, {Master}) = {Master}
            BY <2>1, <3>1, <4>1, <5>1 DEF Waiting
          <6>. QED  BY <1>1, <3>1, <4>1, <6>1 DEF NotifyOne
        <5>. QED  BY <5>1
      <4>4. Cardinality(Taken(Busy \ {t}, nNow)) \in Nat
        BY <1>3, Countable
      <4>. QED  BY <1>3, <2>8, <2>9, <4>2, <4>3, <4>4
    <3>. QED  BY <3>1
  <2>. HIDE DEF todo, allOk
  <2>11. CleanedUp(t, nTotal, nIdle, todo, allOk, pcs)
    <3>1. pc[t] \in {"enter", "woken"}
      BY <1>1
    <3>. QED  BY <1>1, <2>2, <2>6, <2>7, <2>8, <2>9, <2>10, <3>1, Zenon DEF CleanedUp
  <2>. QED  BY <2>1, <2>11, ServeKeeps
<1>6. CASE ~(nNow[t] > 0)
  <2>1. Serve(t, nTotal + 1, nIdle, nTodo, fAllOk, pc)
    BY <1>6 DEF EnterLoop
  <2>2. Busy \ {t} = Busy
    BY <1>1, <1>6 DEF Busy, HaveBatch
  <2>3. CleanedUp(t, nTotal + 1, nIdle, nTodo, fAllOk, pc)
    <3>1. /\ Cardinality(Resting \ {t}) <= nIdle
          /\ nTotal + 1 = nIdle + Cardinality(Busy \ {t}) + 1
          /\ nTodo = Len(queue) + Cardinality(Taken(Busy \ {t}, nNow))
      BY <1>1, <1>2, <1>3, <1>4, <2>2
    <3>2. IF phase \in {"none", "done"} THEN nTodo = 0 /\ fAllOk
          ELSE Good(added) <=> /\ fAllOk /\ Good(queue)
                               /\ \A u \in Busy \ {t} : fOk[u] /\ Good(batch[u])
      BY <2>2 DEF Inv, Verdict
    <3>3. pc[t] \in {"enter", "woken"} /\ nTotal + 1 \in Int
      BY <1>1
    <3>4. pc[Master] = "wait" => queue = <<>> /\ nTodo > 0
      BY DEF Inv, MasterAwaits
    <3>. QED  BY <1>1, <1>2, <3>1, <3>2, <3>3, <3>4, Zenon DEF CleanedUp
  <2>. QED  BY <2>1, <2>3, ServeKeeps
<1>. QED  BY <1>5, <1>6

\* A thread that returns from cond.wait
LEMMA WakeUpKeeps ==
  ASSUME ConstantsAssumption, Inv, NEW t \in Threads, WakeUp(t)
  PROVE  Inv'
<1>1. /\ Types /\ BatchesHeld /\ MasterInside /\ ResultIsRight /\ StartsIdle /\ pc[t] = "woken"
      /\ nTotal \in Int /\ nIdle \in Int /\ nTodo \in Int /\ fAllOk \in BOOLEAN
      /\ pc \in [Threads -> PCs]
  BY DEF Inv, Types, WakeUp, PCs
<1>2. /\ Cardinality(Resting) <= nIdle /\ nTotal = nIdle + Cardinality(Busy)
      /\ nTodo = Len(queue) + Cardinality(Taken(Busy, nNow)) /\ nTodo <= Len(added)
  BY DEF Inv, Counted
<1>3. /\ Busy \subseteq Threads /\ Resting \subseteq Threads /\ IsFiniteSet(Resting)
      /\ Cardinality(Busy) \in Nat /\ Cardinality(Resting) \in Nat
  BY Countable DEF Busy, HaveBatch, Resting
<1>4. t \in Resting /\ Busy \ {t} = Busy
  BY <1>1 DEF Resting, Busy, HaveBatch
<1>5. Cardinality(Resting \ {t}) = Cardinality(Resting) - 1
  BY <1>3, <1>4, FS_RemoveElement
<1>6. CleanedUp(t, nTotal, nIdle - 1, nTodo, fAllOk, pc)
  <2>1. /\ Cardinality(Resting \ {t}) <= nIdle - 1
        /\ nTotal = nIdle - 1 + Cardinality(Busy \ {t}) + 1
        /\ nTodo = Len(queue) + Cardinality(Taken(Busy \ {t}, nNow))
    <3>1. Cardinality(Resting \ {t}) <= nIdle - 1
      BY <1>1, <1>2, <1>3, <1>5
    <3>2. Cardinality(Busy \ {t}) = Cardinality(Busy)
      BY <1>4
    <3>3. nTotal = nIdle - 1 + Cardinality(Busy \ {t}) + 1
      BY <1>1, <1>2, <1>3, <3>2
    <3>4. nTodo = Len(queue) + Cardinality(Taken(Busy \ {t}, nNow))
      BY <1>2, <1>4
    <3>. QED  BY <3>1, <3>3, <3>4
  <2>2. IF phase \in {"none", "done"} THEN nTodo = 0 /\ fAllOk
        ELSE Good(added) <=> /\ fAllOk /\ Good(queue)
                             /\ \A u \in Busy \ {t} : fOk[u] /\ Good(batch[u])
    BY <1>4 DEF Inv, Verdict
  <2>3. pc[t] \in {"enter", "woken"} /\ nIdle - 1 \in Int
    BY <1>1
  <2>4. pc[Master] = "wait" => queue = <<>> /\ nTodo > 0
    BY DEF Inv, MasterAwaits
  <2>. QED  BY <1>1, <1>2, <2>1, <2>2, <2>3, <2>4, Zenon DEF CleanedUp
<1>. QED  BY <1>6, ServeKeeps DEF WakeUp

-----------------------------------------------------------------------------
\* A notification moves no thread in or out of Loop.
LEMMA Notified ==
  ASSUME \A u \in Threads : pc'[u] = pc[u] \/ (pc[u] = "wait" /\ pc'[u] = "woken"),
         UNCHANGED nNow
  PROVE  Busy' = Busy /\ Resting' = Resting /\ Taken(Busy, nNow)' = Taken(Busy, nNow)
<1>1. Busy' = Busy
  BY DEF Busy, HaveBatch
<1>2. Resting' = Resting
  BY DEF Resting
<1>. QED  BY <1>1, <1>2 DEF Taken

\* A step that only notifies threads
LEMMA NotifyKeeps ==
  ASSUME Inv, pc' \in [Threads -> PCs],
         \A u \in Threads : pc'[u] = pc[u] \/ (pc[u] = "wait" /\ pc'[u] = "woken"),
         UNCHANGED <<queue, counters, batch, fOk, nNow, control>>
  PROVE  Inv'
<1>1. Types'
  BY DEF Inv, Types, PCs, counters, control
<1>2. Busy' = Busy /\ Resting' = Resting /\ Taken(Busy, nNow)' = Taken(Busy, nNow)
  BY Notified
<1>3. Counted'
  BY <1>2 DEF Inv, Counted, counters, control
<1>4. BatchesHeld'
  BY DEF Inv, BatchesHeld
<1>5. MasterInside'
  <2>1. Master \in Threads
    BY DEF Threads
  <2>. QED  BY <2>1 DEF Inv, MasterInside, control
<1>6. Verdict'
  BY <1>2 DEF Inv, Verdict, counters, control, Good
<1>7. ResultIsRight' /\ StartsIdle'
  BY DEF Inv, ResultIsRight, StartsIdle, control
<1>8. MasterAwaits'
  <2>1. Master \in Threads
    BY DEF Threads
  <2>. QED  BY <2>1 DEF Inv, MasterAwaits, counters
<1>. QED  BY <1>1, <1>3, <1>4, <1>5, <1>6, <1>7, <1>8 DEF Inv

\* The assertion of the controller's constructor holds, and a block begins.
LEMMA ConstructKeeps ==
  ASSUME ConstantsAssumption, Inv, Construct
  PROVE  Inv'
<1>1. /\ phase \in {"none", "done"} /\ phase' = "open" /\ added' = <<>>
      /\ idleAtStart' = IsIdle
      /\ UNCHANGED <<queue, nIdle, nTotal, nTodo, fAllOk, pc, batch, fOk, nNow, result, interrupted>>
  BY DEF Construct, counters
<1>2. nTodo = 0 /\ fAllOk
  BY <1>1 DEF Inv, Verdict
<1>3. queue = <<>> /\ Busy = {} /\ nTotal = nIdle
  BY <1>2, NothingToDo
<1>4. Busy' = Busy /\ Resting' = Resting /\ Taken(Busy, nNow)' = Taken(Busy, nNow)
  BY <1>1, Notified
<1>5. added' \in Seq(BOOLEAN) /\ Len(added') = 0
  BY <1>1, EmptySeq
<1>6. Types'
  BY <1>1, <1>5 DEF Inv, Types, ConstantsAssumption
<1>7. Counted'
  BY <1>1, <1>2, <1>4, <1>5 DEF Inv, Counted
<1>8. BatchesHeld' /\ MasterInside'
  BY <1>1 DEF Inv, BatchesHeld, MasterInside
<1>9. Verdict'
  <2>1. Good(added') /\ Good(queue') /\ Busy' = {}
    BY <1>1, <1>3, <1>4 DEF Good
  <2>. QED  BY <1>1, <1>2, <2>1 DEF Verdict, Good
<1>10. ResultIsRight' /\ StartsIdle'
  BY <1>1, <1>2, <1>3 DEF ResultIsRight, StartsIdle, IsIdle
<1>11. MasterAwaits'
  BY <1>1, <1>8 DEF MasterInside, MasterAwaits
<1>. QED  BY <1>6, <1>7, <1>8, <1>9, <1>10, <1>11 DEF Inv

\* Checks are added to the queue and to the block.
LEMMA AddKeeps ==
  ASSUME ConstantsAssumption, Inv, NEW checks \in Batches, Add(checks)
  PROVE  Inv'
<1>1. /\ phase = "open" /\ Len(added) + Len(checks) <= MaxChecks
      /\ queue' = queue \o checks /\ added' = added \o checks
      /\ nTodo' = nTodo + Len(checks)
      /\ UNCHANGED <<nIdle, nTotal, fAllOk, batch, fOk, nNow, phase, result, idleAtStart, interrupted>>
  BY DEF Add
<1>2. pc \in [Threads -> PCs] /\ Workers \subseteq Threads
  BY DEF Inv, Types, PCs, Threads
<1>3. /\ pc' \in [Threads -> PCs]
      /\ \A u \in Threads : pc'[u] = pc[u] \/ (pc[u] = "wait" /\ pc'[u] = "woken")
  <2>1. pc' \in {pc} \cup NotifyOne(pc, Workers) \cup {NotifyAll(pc, Workers)}
    BY DEF Add
  <2>2. CASE pc' \in {pc} \cup NotifyOne(pc, Workers)
    BY <1>2, <2>2 DEF NotifyOne, Waiting, PCs
  <2>3. CASE pc' = NotifyAll(pc, Workers)
    BY <1>2, <2>3 DEF NotifyAll, Waiting, PCs
  <2>. QED  BY <2>1, <2>2, <2>3
<1>4. Busy' = Busy /\ Resting' = Resting /\ Taken(Busy, nNow)' = Taken(Busy, nNow)
  BY <1>1, <1>3, Notified
<1>5. checks \in Seq(BOOLEAN) /\ queue \in Seq(BOOLEAN) /\ added \in Seq(BOOLEAN)
  BY ChecksAreSequences DEF Inv, Types
<1>6. /\ queue' \in Seq(BOOLEAN) /\ Len(queue') = Len(queue) + Len(checks)
      /\ Good(queue') <=> Good(queue) /\ Good(checks)
  BY <1>1, <1>5, GoodConcat
<1>7. /\ added' \in Seq(BOOLEAN) /\ Len(added') = Len(added) + Len(checks)
      /\ Good(added') <=> Good(added) /\ Good(checks)
  BY <1>1, <1>5, GoodConcat
<1>8. Len(checks) \in Nat /\ Len(queue) \in Nat /\ Len(added) \in Nat
  BY <1>5, LenProperties
<1>9. Types'
  BY <1>1, <1>3, <1>6, <1>7, <1>8 DEF Inv, Types, PCs
<1>10. Counted'
  <2>1. Cardinality(Taken(Busy, nNow)) \in Nat
    BY Countable DEF Busy, HaveBatch
  <2>. QED  BY <1>1, <1>4, <1>6, <1>7, <1>8, <2>1 DEF Inv, Counted, Types
<1>11. BatchesHeld'
  BY <1>1, <1>3 DEF Inv, BatchesHeld
<1>12. MasterInside'
  <2>1. Master \in Threads
    BY DEF Threads
  <2>. QED  BY <1>1, <1>3, <2>1 DEF Inv, MasterInside
<1>13. Verdict'
  <2>1. Good(added) <=> /\ fAllOk /\ Good(queue)
                        /\ \A u \in Busy : fOk[u] /\ Good(batch[u])
    BY <1>1 DEF Inv, Verdict
  <2>2. \A u : Good(batch'[u]) <=> Good(batch[u])
    BY <1>1
  <2>. QED  BY <1>1, <1>4, <1>6, <1>7, <2>1, <2>2 DEF Verdict, Good
<1>14. ResultIsRight' /\ StartsIdle'
  BY <1>1 DEF Inv, ResultIsRight, StartsIdle
<1>15. MasterAwaits'
  BY <1>1, <1>12 DEF MasterInside, MasterAwaits
<1>. QED  BY <1>9, <1>10, <1>11, <1>12, <1>13, <1>14, <1>15 DEF Inv

\* The master joins the workers.
LEMMA WaitKeeps ==
  ASSUME ConstantsAssumption, Inv, Wait
  PROVE  Inv'
<1>1. /\ phase = "open" /\ phase' = "wait" /\ pc' = [pc EXCEPT ![Master] = "enter"]
      /\ nNow' = [nNow EXCEPT ![Master] = 0]
      /\ UNCHANGED <<queue, nIdle, nTotal, nTodo, fAllOk, batch, fOk, added, result, idleAtStart, interrupted>>
  BY DEF Wait, counters
<1>2. /\ Master \in Threads /\ pc \in [Threads -> PCs] /\ nNow \in [Threads -> 0..nBatchSize]
      /\ pc[Master] = "out" /\ nBatchSize \in Nat
  BY <1>1 DEF Inv, MasterInside, Threads, Types, PCs, ConstantsAssumption
<1>3. /\ pc'[Master] = "enter" /\ nNow'[Master] = 0
      /\ \A u \in Threads \ {Master} : pc'[u] = pc[u] /\ nNow'[u] = nNow[u]
      /\ pc' \in [Threads -> PCs] /\ nNow' \in [Threads -> 0..nBatchSize]
  BY <1>1, <1>2 DEF PCs
<1>4. Busy' = Busy /\ Resting' = Resting /\ Master \notin Busy
  BY <1>2, <1>3 DEF Busy, HaveBatch, Resting
<1>5. Taken(Busy, nNow)' = Taken(Busy, nNow)
  <2>1. \A u \in Busy : nNow'[u] = nNow[u]
    BY <1>3, <1>4 DEF Busy, HaveBatch
  <2>. QED  BY <1>4, <2>1 DEF Taken
<1>6. Types'
  BY <1>1, <1>3 DEF Inv, Types, PCs
<1>7. Counted'
  BY <1>1, <1>4, <1>5 DEF Inv, Counted
<1>8. BatchesHeld'
  BY <1>1, <1>2, <1>3 DEF Inv, BatchesHeld
<1>9. MasterInside'
  BY <1>1, <1>3 DEF MasterInside
<1>10. Verdict'
  BY <1>1, <1>4 DEF Inv, Verdict, Good
<1>11. ResultIsRight' /\ StartsIdle'
  BY <1>1 DEF Inv, ResultIsRight, StartsIdle
<1>12. MasterAwaits'
  BY <1>3 DEF MasterAwaits
<1>. QED  BY <1>6, <1>7, <1>8, <1>9, <1>10, <1>11, <1>12 DEF Inv

\* A batch is executed: what it found goes to fOk, and stays known.
LEMMA ExecuteKeeps ==
  ASSUME ConstantsAssumption, Inv, NEW t \in Threads, Execute(t)
  PROVE  Inv'
<1>1. /\ pc[t] = "exec" /\ pc' = [pc EXCEPT ![t] = "enter"]
      /\ fOk' = [fOk EXCEPT ![t] = @ /\ \A i \in DOMAIN batch[t] : batch[t][i]]
      /\ batch' = [batch EXCEPT ![t] = <<>>]
      /\ UNCHANGED <<queue, nIdle, nTotal, nTodo, fAllOk, nNow, phase, added, result, idleAtStart, interrupted>>
  BY DEF Execute, counters, control
<1>2. /\ pc \in [Threads -> PCs] /\ fOk \in [Threads -> BOOLEAN]
      /\ batch \in [Threads -> Seq(BOOLEAN)] /\ nNow[t] > 0
  BY <1>1 DEF Inv, Types, PCs, BatchesHeld
<1>3. /\ pc'[t] = "enter" /\ batch'[t] = <<>> /\ fOk'[t] = (fOk[t] /\ Good(batch[t]))
      /\ \A u \in Threads \ {t} : pc'[u] = pc[u] /\ batch'[u] = batch[u] /\ fOk'[u] = fOk[u]
      /\ pc' \in [Threads -> PCs]
  BY <1>1, <1>2 DEF PCs, Good
<1>4. fOk' \in [Threads -> BOOLEAN] /\ batch' \in [Threads -> Seq(BOOLEAN)]
  <2>1. (fOk[t] /\ Good(batch[t])) \in BOOLEAN /\ <<>> \in Seq(BOOLEAN)
    BY EmptySeq
  <2>. QED  BY <1>1, <1>2, <2>1 DEF Good
<1>5. Busy' = Busy /\ Resting' = Resting /\ t \in Busy
  BY <1>1, <1>2, <1>3 DEF Busy, HaveBatch, Resting
<1>6. Taken(Busy, nNow)' = Taken(Busy, nNow)
  BY <1>1, <1>5 DEF Taken
<1>7. Types'
  BY <1>1, <1>3, <1>4 DEF Inv, Types, PCs
<1>8. Counted'
  BY <1>1, <1>5, <1>6 DEF Inv, Counted
<1>9. BatchesHeld'
  BY <1>1, <1>3 DEF Inv, BatchesHeld
<1>10. MasterInside'
  <2>1. CASE t = Master
    BY <1>1, <1>3, <2>1 DEF Inv, MasterInside
  <2>2. CASE t # Master
    <3>1. pc'[Master] = pc[Master]
      BY <1>3, <2>2 DEF Threads
    <3>. QED  BY <1>1, <3>1 DEF Inv, MasterInside
  <2>. QED  BY <2>1, <2>2
<1>11. Verdict'
  <2>1. phase \notin {"none", "done"}
    BY <1>5, NothingToDo DEF Inv, Verdict
  <2>2. \A u \in Busy : fOk'[u] /\ Good(batch'[u]) <=> fOk[u] /\ Good(batch[u])
    <3>1. Good(<<>>)
      BY DEF Good
    <3>2. Busy \subseteq Threads
      BY DEF Busy, HaveBatch
    <3>. QED  BY <1>3, <3>1, <3>2
  <2>3. Good(added) <=> /\ fAllOk /\ Good(queue)
                        /\ \A u \in Busy : fOk[u] /\ Good(batch[u])
    BY <2>1 DEF Inv, Verdict
  <2>4. Good(added') = Good(added) /\ Good(queue') = Good(queue)
    BY <1>1
  <2>. QED  BY <1>1, <1>5, <2>1, <2>2, <2>3, <2>4 DEF Verdict, Good
<1>12. ResultIsRight' /\ StartsIdle'
  BY <1>1 DEF Inv, ResultIsRight, StartsIdle
<1>13. MasterAwaits'
  <2>1. pc'[Master] = "wait" => pc[Master] = "wait"
    BY <1>3 DEF Threads
  <2>. QED  BY <1>1, <2>1 DEF Inv, MasterAwaits
<1>. QED  BY <1>7, <1>8, <1>9, <1>10, <1>11, <1>12, <1>13 DEF Inv

\* A thread leaves cond.wait by an exception: nIdle keeps it.
LEMMA InterruptKeeps ==
  ASSUME ConstantsAssumption, Inv, NEW t \in Threads, Interrupt(t)
  PROVE  Inv'
<1>1. /\ pc[t] \in {"wait", "woken"} /\ interrupted' = interrupted \cup {t}
      /\ pc' = [pc EXCEPT ![t] = IF t = Master THEN "enter" ELSE "gone"]
      /\ nNow' = [nNow EXCEPT ![t] = 0]
      /\ UNCHANGED <<queue, nIdle, nTotal, nTodo, fAllOk, batch, fOk, phase, added, result, idleAtStart>>
  BY DEF Interrupt, counters
<1>2. pc \in [Threads -> PCs] /\ nNow \in [Threads -> 0..nBatchSize] /\ nBatchSize \in Nat
  BY DEF Inv, Types, PCs, ConstantsAssumption
<1>3. /\ pc'[t] = (IF t = Master THEN "enter" ELSE "gone") /\ nNow'[t] = 0
      /\ \A u \in Threads \ {t} : pc'[u] = pc[u] /\ nNow'[u] = nNow[u]
      /\ pc' \in [Threads -> PCs] /\ nNow' \in [Threads -> 0..nBatchSize]
  BY <1>1, <1>2 DEF PCs
<1>4. Busy' = Busy /\ Resting' = Resting \ {t} /\ t \notin Busy
  BY <1>1, <1>3 DEF Busy, HaveBatch, Resting
<1>5. Taken(Busy, nNow)' = Taken(Busy, nNow)
  <2>1. \A u \in Busy : nNow'[u] = nNow[u]
    BY <1>3, <1>4 DEF Busy, HaveBatch
  <2>. QED  BY <1>4, <2>1 DEF Taken
<1>6. Types'
  BY <1>1, <1>3 DEF Inv, Types, PCs
<1>7. Counted'
  <2>1. IsFiniteSet(Resting) /\ Cardinality(Resting) \in Nat /\ Cardinality(Resting \ {t}) \in Nat
    BY Countable DEF Resting
  <2>2. Cardinality(Resting \ {t}) <= Cardinality(Resting)
    BY <2>1, FS_Subset
  <2>3. Cardinality(Resting') <= nIdle
    BY <1>4, <2>1, <2>2 DEF Inv, Counted, Types
  <2>. QED  BY <1>1, <1>4, <1>5, <2>3 DEF Inv, Counted
<1>8. BatchesHeld'
  BY <1>1, <1>3 DEF Inv, BatchesHeld
<1>9. MasterInside'
  <2>1. CASE t = Master
    BY <1>1, <1>3, <2>1 DEF Inv, MasterInside
  <2>2. CASE t # Master
    <3>1. pc'[Master] = pc[Master]
      BY <1>3, <2>2 DEF Threads
    <3>. QED  BY <1>1, <3>1 DEF Inv, MasterInside
  <2>. QED  BY <2>1, <2>2
<1>10. Verdict'
  BY <1>1, <1>4 DEF Inv, Verdict, Good
<1>11. ResultIsRight' /\ StartsIdle'
  BY <1>1 DEF Inv, ResultIsRight, StartsIdle
<1>12. MasterAwaits'
  <2>1. pc'[Master] = "wait" => pc[Master] = "wait"
    BY <1>3 DEF Threads
  <2>. QED  BY <1>1, <2>1 DEF Inv, MasterAwaits
<1>. QED  BY <1>6, <1>7, <1>8, <1>9, <1>10, <1>11, <1>12 DEF Inv

\* A waiting thread is woken without a notification.
LEMMA SpuriousKeeps ==
  ASSUME Inv, NEW t \in Threads, SpuriousWakeUp(t)
  PROVE  Inv'
<1>1. pc \in [Threads -> PCs]
  BY DEF Inv, Types, PCs
<1>2. /\ pc' \in [Threads -> PCs]
      /\ \A u \in Threads : pc'[u] = pc[u] \/ (pc[u] = "wait" /\ pc'[u] = "woken")
  BY <1>1 DEF SpuriousWakeUp, PCs
<1>. QED  BY <1>2, NotifyKeeps DEF SpuriousWakeUp

\* Nothing changes.
LEMMA StutterKeeps ==
  ASSUME Inv, UNCHANGED vars
  PROVE  Inv'
<1>1. pc' \in [Threads -> PCs] /\ \A u \in Threads : pc'[u] = pc[u]
  BY DEF Inv, Types, PCs, vars
<1>. QED  BY <1>1, NotifyKeeps DEF vars

\* Every step of the master and of the workers keeps the invariant.
LEMMA StepKeeps ==
  ASSUME ConstantsAssumption, Inv, [Next]_vars
  PROVE  Inv'
<1>1. CASE Construct
  BY <1>1, ConstructKeeps
<1>2. CASE \E checks \in Batches : Add(checks)
  BY <1>2, AddKeeps
<1>3. CASE Wait
  BY <1>3, WaitKeeps
<1>4. CASE \E t \in Threads : EnterLoop(t)
  BY <1>4, EnterKeeps
<1>5. CASE \E t \in Threads : WakeUp(t)
  BY <1>5, WakeUpKeeps
<1>6. CASE \E t \in Threads : Execute(t)
  BY <1>6, ExecuteKeeps
<1>7. CASE \E t \in Threads : SpuriousWakeUp(t)
  BY <1>7, SpuriousKeeps
<1>8. CASE \E t \in Threads : Interrupt(t)
  BY <1>8, InterruptKeeps
<1>9. CASE AllDone \/ UNCHANGED vars
  BY <1>9, StutterKeeps DEF AllDone
<1>. QED  BY <1>1, <1>2, <1>3, <1>4, <1>5, <1>6, <1>7, <1>8, <1>9 DEF Next

\* The invariant implies what the state of the queue promises.
LEMMA InvImplies ==
  ASSUME ConstantsAssumption, Inv
  PROVE  TypeOK /\ ResultIsRight /\ WaitIsComplete /\ StartsIdle /\ SleepsForOthers
<1>1. /\ Types /\ Counted /\ BatchesHeld /\ MasterInside /\ Verdict /\ MasterAwaits
      /\ ResultIsRight /\ StartsIdle
  BY DEF Inv
<1>2. /\ Busy \subseteq Threads /\ Cardinality(Busy) \in Nat
      /\ Cardinality(Resting) \in Nat /\ Cardinality(Taken(Busy, nNow)) \in Nat
      /\ Len(queue) \in Nat /\ Len(added) \in Nat /\ MaxChecks \in Nat
      /\ nNow \in [Threads -> 0..nBatchSize]
  BY <1>1, Countable, LenProperties DEF Busy, HaveBatch, Resting, Types, ConstantsAssumption
<1>3. /\ nTotal \in Nat /\ nIdle \in 0..nTotal /\ nTodo \in 0..MaxChecks
      /\ Len(queue) <= MaxChecks
  BY <1>1, <1>2 DEF Types, Counted
<1>4. ASSUME NEW t \in Threads PROVE batch[t] \in Seq(BOOLEAN) /\ Len(batch[t]) <= MaxChecks
  <2>1. CASE pc[t] = "exec"
    <3>1. t \in Busy /\ Len(batch[t]) = nNow[t] /\ nNow[t] \in Nat
      BY <1>1, <1>2, <2>1 DEF Busy, HaveBatch, BatchesHeld, ConstantsAssumption
    <3>2. Cardinality(Taken(Busy \ {t}, nNow)) \in Nat
      BY <1>2, Countable
    <3>3. Cardinality(Taken(Busy \ {t}, nNow)) = Cardinality(Taken(Busy, nNow)) - nNow[t]
      BY <1>2, <3>1, BatchDone
    <3>4. nNow[t] <= nTodo
      BY <1>1, <1>2, <3>1, <3>2, <3>3 DEF Counted
    <3>. QED  BY <1>1, <1>2, <1>3, <3>1, <3>4 DEF Types
  <2>2. CASE pc[t] # "exec"
    <3>1. batch[t] = <<>>
      BY <1>1, <2>2 DEF BatchesHeld
    <3>2. batch[t] \in Seq(BOOLEAN) /\ Len(batch[t]) = 0
      BY <3>1, EmptySeq
    <3>. QED  BY <1>2, <3>2
  <2>. QED  BY <2>1, <2>2
<1>5. TypeOK
  <2>1. queue \in Batches /\ added \in Batches
    BY <1>1, <1>3, ChecksAreSequences DEF Types
  <2>2. \A t \in Threads : batch[t] \in Batches
    BY <1>4, ChecksAreSequences
  <2>3. batch \in [Threads -> Batches]
    BY <1>1, <2>2 DEF Types
  <2>. QED  BY <1>1, <1>3, <2>1, <2>3 DEF TypeOK, Types, StartsIdle
<1>6. WaitIsComplete
  <2>1. ASSUME phase = "done"
        PROVE  queue = <<>> /\ \A t \in Threads : batch[t] = <<>> /\ pc[t] # "exec"
    <3>1. nTodo = 0
      BY <1>1, <2>1 DEF Verdict
    <3>2. queue = <<>> /\ Busy = {}
      BY <3>1, NothingToDo
    <3>3. \A t \in Threads : pc[t] # "exec"
      BY <3>2 DEF Busy, HaveBatch
    <3>. QED  BY <1>1, <3>2, <3>3 DEF BatchesHeld
  <2>. QED  BY <2>1 DEF WaitIsComplete
<1>7. SleepsForOthers
  <2>1. ASSUME pc[Master] = "wait" PROVE \E t \in Workers : t \in Busy
    <3>1. Len(queue) = 0 /\ nTodo > 0
      BY <1>1, <2>1, EmptySeq DEF MasterAwaits
    <3>2. Cardinality(Taken(Busy, nNow)) # 0
      BY <1>1, <1>2, <3>1 DEF Counted
    <3>3. PICK c \in Taken(Busy, nNow) : TRUE
      <4>1. Taken(Busy, nNow) # {}
        BY <3>2, FS_EmptySet, Zenon
      <4>. QED  BY <4>1
    <3>4. c[1] \in Busy /\ c[1] \in Threads
      BY <1>2, <3>3 DEF Taken
    <3>5. c[1] # Master
      BY <2>1, <3>4 DEF Busy, HaveBatch
    <3>. QED  BY <3>4, <3>5 DEF Threads
  <2>. QED  BY <2>1 DEF SleepsForOthers, Busy, HaveBatch
<1>. QED  BY <1>1, <1>5, <1>6, <1>7

(* For any number of workers, blocks and checks, whatever is interrupted   *)
(* or woken for nothing: the counters of CCheckQueue stay in range, Wait   *)
(* returns exactly the conjunction of the checks of the block and returns  *)
(* after the last of them was executed, the next controller finds the      *)
(* queue idle, and the master never sleeps unless a worker still has       *)
(* checks whose end wakes it.                                              *)
THEOREM ChecksCorrect ==
  ASSUME ConstantsAssumption
  PROVE  Spec => [](TypeOK /\ ResultIsRight /\ WaitIsComplete /\ StartsIdle /\ SleepsForOthers)
<1>1. Init => Inv
  BY InitInv
<1>2. Inv /\ [Next]_vars => Inv'
  BY StepKeeps
<1>3. Inv => TypeOK /\ ResultIsRight /\ WaitIsComplete /\ StartsIdle /\ SleepsForOthers
  BY InvImplies
<1>. QED  BY <1>1, <1>2, <1>3, PTL DEF Spec
=============================================================================
