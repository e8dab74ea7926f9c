-------------------------- MODULE ThreadPoolProofs --------------------------
(***************************************************************************)
(* Theorems about ThreadPool, for every number of workers, ring size, set  *)
(* of callers and set of tasks: type correctness, mutual exclusion, that   *)
(* the workers take the accepted tasks first in, first out, and how the    *)
(* pool begins and ends: that no wakeup is lost, that the workers are      *)
(* counted exactly, that a destroy frees, frees last, and drains first; at *)
(* the end, that the pool implements TaskPool.                             *)
(***************************************************************************)
EXTENDS ThreadPool, FiniteSetTheorems, TLAPS

-----------------------------------------------------------------------------
(* Remainders: the indexes of the ring *)

LEMMA ModRange ==
  ASSUME NEW a \in Nat, NEW n \in Nat, n > 0
  PROVE  a % n \in 0 .. n - 1
  BY SMT

LEMMA ModDef ==
  ASSUME NEW a \in Nat, NEW n \in Nat, n > 0
  PROVE  a = n * (a \div n) + (a % n) /\ (a \div n) \in Nat
  BY SMT

LEMMA ModUnique ==
  ASSUME NEW n \in Nat, n > 0, NEW q \in Int, NEW r \in 0 .. n - 1
  PROVE  (n * q + r) % n = r
  BY SMT

\* Two numbers less than n apart have different remainders: no slot of the ring
\* holds two pending tasks.
LEMMA ModDistinct ==
  ASSUME NEW n \in Nat, n > 0, NEW a \in Nat, NEW b \in Nat, a < b, b < a + n
  PROVE  a % n # b % n
<1> DEFINE q == a \div n
           p == b \div n
<1>1. /\ a = n * q + (a % n) /\ q \in Nat /\ a % n \in Int
      /\ b = n * p + (b % n) /\ p \in Nat /\ b % n \in Int
  BY ModDef, ModRange
<1>2. SUFFICES ASSUME a % n = b % n PROVE FALSE
  OBVIOUS
<1> HIDE DEF q, p
<1>3. b - a = n * (p - q)
  BY <1>1, <1>2
<1>4. p - q \in Int /\ p - q > 0
  BY <1>1, <1>3
<1>5. n * (p - q) >= n
  BY <1>4
<1> QED BY <1>3, <1>5

LEMMA ModAdd ==
  ASSUME NEW n \in Nat, n > 0, NEW a \in Nat, NEW c \in Nat
  PROVE  ((a % n) + c) % n = (a + c) % n
<1> DEFINE r == a % n
           q == a \div n
           s == (r + c) % n
           p == (r + c) \div n
<1>1. r \in 0 .. n - 1 /\ r \in Nat
  BY ModRange
<1>2. a = n * q + r /\ q \in Nat
  BY ModDef
<1>3. r + c = n * p + s /\ p \in Nat /\ s \in 0 .. n - 1
  BY <1>1, ModDef, ModRange
<1> HIDE DEF r, s, q, p
<1>4. a + c = n * (q + p) + s /\ q + p \in Int
  BY <1>1, <1>2, <1>3
<1>5. (n * (q + p) + s) % n = s
  BY <1>3, <1>4, ModUnique
<1> QED BY <1>4, <1>5 DEF s, r

-----------------------------------------------------------------------------
(* Type correctness *)

\* The creator counts only workers there is room for, and whoever is inside
\* threadpool_add has a task in hand.
CallInv ==
  /\ pc[Creator] = "count" => thread_count < ThreadCount
  /\ \A t \in Threads :
       pc[t] \in {"add_lock", "add"} => Submitted(t) \in Tasks

TypeInv == TypeOK /\ CallInv

LEMMA SizesAreNumbers ==
  /\ ThreadCount \in Nat /\ ThreadCount > 0
  /\ QueueSize \in Nat /\ QueueSize > 0
  BY SizesAssumption DEF MaxThreads, MaxQueue

LEMMA ThreadKinds ==
  /\ Creator \in Threads /\ Creator \notin Workers
  /\ \A c \in Callers : c \in Threads /\ c \notin Workers
  /\ \A w \in Workers : w \in Threads /\ w \notin Callers
  BY NamesAssumption DEF Threads

LEMMA TypeInit == Init => TypeInv
<1> SUFFICES ASSUME Init PROVE TypeInv
  OBVIOUS
<1> USE SizesAreNumbers, ThreadKinds, NamesAssumption DEF Init
<1>1. TypeOK
  <2>1. pc \in [Threads -> Wheres]
    BY DEF Wheres
  <2>2. /\ head \in 0 .. QueueSize - 1 /\ tail \in 0 .. QueueSize - 1
        /\ count \in 0 .. QueueSize /\ thread_count \in 0 .. ThreadCount
        /\ joined \in [Callers -> 0 .. ThreadCount]
    OBVIOUS
  <2>3. /\ queue \in [0 .. QueueSize - 1 -> Tasks \cup {NoTask}]
        /\ arg \in [Threads -> Tasks \cup {NoTask}]
        /\ inner \in [Workers -> Tasks \cup {NoTask}]
    OBVIOUS
  <2>4. /\ flags \in [Callers -> {Immediate, Graceful}]
        /\ shutdown \in {Running, Immediate, Graceful}
    OBVIOUS
  <2>5. accepted \in Seq(Tasks) /\ taken \in Seq(Tasks \cup {NoTask})
    OBVIOUS
  <2>6. lock \in Threads \cup {NoThread} /\ started \in Int /\ tmp \in Int
    OBVIOUS
  <2>7. finished \subseteq Tasks \cup {NoTask} /\ refused \subseteq Tasks \cup {NoTask}
    OBVIOUS
  <2> QED BY <2>1, <2>2, <2>3, <2>4, <2>5, <2>6, <2>7 DEF TypeOK
<1>2. CallInv
  BY DEF CallInv
<1> QED BY <1>1, <1>2 DEF TypeInv

\* What a signal does to the threads: at most one sleeper wakes.
LEMMA SignalWakes ==
  ASSUME NEW f \in [Threads -> Wheres], Signal(f)
  PROVE  /\ pc' \in [Threads -> Wheres]
         /\ \A u \in Threads : \/ pc'[u] = f[u]
                               \/ u \in Workers /\ f[u] = "wait" /\ pc'[u] = "woken"
<1>1. CASE \E w \in Workers : f[w] = "wait"
  <2>1. PICK w \in Workers : f[w] = "wait" /\ pc' = [f EXCEPT ![w] = "woken"]
    BY <1>1 DEF Signal
  <2> QED BY <2>1, ThreadKinds DEF Wheres
<1>2. CASE ~\E w \in Workers : f[w] = "wait"
  BY <1>2 DEF Signal
<1> QED BY <1>1, <1>2

\* The task in hand is gone, and nobody else's changes.
LEMMA AddReturnsClears ==
  ASSUME TypeOK, NEW t \in Threads, AddReturns(t)
  PROVE  /\ arg' \in [Threads -> Tasks \cup {NoTask}]
         /\ inner' \in [Workers -> Tasks \cup {NoTask}]
         /\ \A u \in Threads : u # t => Submitted(u)' = Submitted(u)
         /\ \A w \in Workers : arg'[w] = arg[w]
  BY ThreadKinds DEF TypeOK, AddReturns, Submitted

LEMMA TypeStep == TypeInv /\ [Next]_vars => TypeInv'
<1> SUFFICES ASSUME TypeInv, [Next]_vars PROVE TypeInv'
  OBVIOUS
<1> USE SizesAreNumbers, ThreadKinds, NamesAssumption DEF TypeInv, TypeOK, CallInv, Goto, ring, history, Submitted, Wheres, DestroyStates, Returned
<1>1. ASSUME StartWorker PROVE TypeInv'
  <2>1. thread_count + 1 \in Workers
    BY <1>1 DEF StartWorker, Workers
  <2>2. pc' \in [Threads -> Wheres]
    BY <1>1, <2>1 DEF StartWorker
  <2>3. \A t \in Threads : pc'[t] \in {"add_lock", "add"} => pc[t] = pc'[t]
    BY <1>1, <2>1 DEF StartWorker
  <2> QED BY <1>1, <2>2, <2>3 DEF StartWorker
<1>2. ASSUME CountRead PROVE TypeInv'
  BY <1>2, SMTT(30) DEF CountRead
<1>3. ASSUME CountWrite PROVE TypeInv'
  BY <1>3, SMTT(30) DEF CountWrite
<1>4. ASSUME StartFails PROVE TypeInv'
  BY <1>4, SMTT(30) DEF StartFails
<1>5. ASSUME CreateReturns PROVE TypeInv'
  BY <1>5, SMTT(30) DEF CreateReturns
<1>6. ASSUME NEW t \in Threads, Acquire(t) PROVE TypeInv'
  BY <1>6, SMTT(30) DEF Acquire, Holding
<1>7. ASSUME NEW c \in Callers, NEW k \in Tasks, CallAdd(c, k) PROVE TypeInv'
  BY <1>7, SMTT(30) DEF CallAdd
<1>8. ASSUME NEW w \in Workers, NEW k \in Tasks, CallAddFromTask(w, k) PROVE TypeInv'
  BY <1>8, SMTT(30) DEF CallAddFromTask
<1>9. ASSUME NEW t \in Threads, AddAccept(t) PROVE TypeInv'
  <2> DEFINE f == [pc EXCEPT ![t] = AfterAdd(t)]
  <2>1. Submitted(t) \in Tasks
    BY <1>9 DEF AddAccept
  <2>2. f \in [Threads -> Wheres] /\ Signal(f)
    BY <1>9 DEF AddAccept, AfterAdd
  <2>3. /\ pc' \in [Threads -> Wheres]
        /\ \A u \in Threads : pc'[u] \in {"add_lock", "add", "count"} => u # t /\ pc[u] = pc'[u]
    <3>1. f[t] \in {"run", "idle"} /\ \A u \in Threads : u # t => f[u] = pc[u]
      BY DEF AfterAdd
    <3> HIDE DEF f
    <3>2. /\ pc' \in [Threads -> Wheres]
          /\ \A u \in Threads : \/ pc'[u] = f[u]
                                \/ u \in Workers /\ f[u] = "wait" /\ pc'[u] = "woken"
      BY <2>2, SignalWakes
    <3> QED BY <3>1, <3>2
  <2>4. AddReturns(t) /\ TypeOK
    BY <1>9 DEF AddAccept
  <2>5. /\ arg' \in [Threads -> Tasks \cup {NoTask}]
        /\ inner' \in [Workers -> Tasks \cup {NoTask}]
        /\ \A u \in Threads : u # t => Submitted(u)' = Submitted(u)
    BY <2>4, AddReturnsClears
  <2>6. CallInv'
    BY <1>9, <2>3, <2>5 DEF AddAccept
  <2>7. count' \in 0 .. QueueSize /\ tail' \in 0 .. QueueSize - 1
    BY <1>9, ModRange DEF AddAccept, Full, After
  <2>8. /\ queue' \in [0 .. QueueSize - 1 -> Tasks \cup {NoTask}]
        /\ accepted' \in Seq(Tasks)
    BY <1>9, <2>1 DEF AddAccept
  <2> QED BY <1>9, <2>3, <2>5, <2>6, <2>7, <2>8 DEF AddAccept
<1>10. ASSUME NEW t \in Threads, AddRefuse(t) PROVE TypeInv'
  <2>1. AddReturns(t) /\ TypeOK /\ Submitted(t) \in Tasks
    BY <1>10 DEF AddRefuse
  <2>2. /\ arg' \in [Threads -> Tasks \cup {NoTask}]
        /\ inner' \in [Workers -> Tasks \cup {NoTask}]
        /\ \A u \in Threads : u # t => Submitted(u)' = Submitted(u)
    BY <2>1, AddReturnsClears
  <2>3. /\ pc' \in [Threads -> Wheres]
        /\ \A u \in Threads : pc'[u] \in {"add_lock", "add", "count"} => u # t /\ pc[u] = pc'[u]
    BY <1>10 DEF AddRefuse, AfterAdd
  <2>4. CallInv'
    BY <1>10, <2>2, <2>3 DEF AddRefuse
  <2> QED BY <1>10, <2>1, <2>2, <2>3, <2>4 DEF AddRefuse
<1>11. ASSUME NEW d \in Callers, NEW kind \in {Immediate, Graceful}, CallDestroy(d, kind) PROVE TypeInv'
  BY <1>11, SMTT(30) DEF CallDestroy
<1>12. ASSUME NEW d \in Callers, Destroy(d) PROVE TypeInv'
  BY <1>12, SMTT(30) DEF Destroy, Broadcast
<1>13. ASSUME NEW d \in Callers, DestroyAgain(d) PROVE TypeInv'
  BY <1>13, SMTT(30) DEF DestroyAgain
<1>14. ASSUME NEW d \in Callers, Join(d) PROVE TypeInv'
  BY <1>14, SMTT(30) DEF Join
<1>15. ASSUME NEW d \in Callers, FreeCheck(d) PROVE TypeInv'
  BY <1>15, SMTT(30) DEF FreeCheck
<1>16. ASSUME NEW d \in Callers, Free(d) PROVE TypeInv'
  BY <1>16, SMTT(30) DEF Free
<1>17. ASSUME NEW w \in Workers, Sleep(w) PROVE TypeInv'
  BY <1>17, SMTT(30) DEF Sleep
<1>18. ASSUME NEW w \in Workers, SpuriousWakeup(w) PROVE TypeInv'
  BY <1>18, SMTT(30) DEF SpuriousWakeup
<1>19. ASSUME NEW w \in Workers, Take(w) PROVE TypeInv'
  BY <1>19, SMTT(30) DEF Take, After, MustExit
<1>20. ASSUME NEW w \in Workers, Finish(w) PROVE TypeInv'
  BY <1>20, SMTT(30) DEF Finish
<1>21. ASSUME NEW w \in Workers, ExitCount(w) PROVE TypeInv'
  BY <1>21, SMTT(30) DEF ExitCount
<1>22. ASSUME NEW w \in Workers, ExitUnlock(w) PROVE TypeInv'
  BY <1>22, SMTT(30) DEF ExitUnlock
<1>23. ASSUME UNCHANGED vars PROVE TypeInv'
  BY <1>23, SMTT(30) DEF vars
<1>24. CASE Create
  BY <1>1, <1>2, <1>3, <1>4, <1>5, <1>24 DEF Create
<1>25. CASE \E t \in Threads : Acquire(t) \/ AddStep(t)
  BY <1>6, <1>9, <1>10, <1>25 DEF AddStep
<1>26. CASE \E w \in Workers : WorkerStep(w)
  BY <1>8, <1>17, <1>18, <1>19, <1>20, <1>21, <1>22, <1>26 DEF WorkerStep
<1>27. CASE \E c \in Callers : CallerStep(c) \/ DestroyerStep(c)
  BY <1>7, <1>12, <1>13, <1>14, <1>15, <1>16, <1>27 DEF CallerStep, DestroyerStep
<1>28. CASE \E d \in Destroyers : \E kind \in {Immediate, Graceful} : CallDestroy(d, kind)
  <2>1. PICK d \in Callers, kind \in {Immediate, Graceful} : CallDestroy(d, kind)
    BY <1>28, NamesAssumption
  <2> QED BY <1>11, <2>1
<1>29. CASE Done
  BY <1>23, <1>29 DEF Done
<1> QED BY <1>23, <1>24, <1>25, <1>26, <1>27, <1>28, <1>29 DEF Next

\* Every variable of the pool has its type, always.
THEOREM TypeCorrect == Spec => []TypeOK
<1>1. Init => TypeInv
  BY TypeInit
<1>2. TypeInv /\ [Next]_vars => TypeInv'
  BY TypeStep
<1>3. TypeInv => TypeOK
  BY DEF TypeInv
<1> QED BY <1>1, <1>2, <1>3, PTL DEF Spec

-----------------------------------------------------------------------------
(* First in, first out *)

\* Task number i lives in slot (i - 1) % QueueSize from its threadpool_add until
\* a worker takes it.  FirstInFirstOut is not inductive without this account.
RingInv ==
  /\ Len(accepted) = Len(taken) + count
  /\ head = Len(taken) % QueueSize
  /\ tail = Len(accepted) % QueueSize
  /\ \A i \in 1 .. Len(taken) : taken[i] = accepted[i]
  /\ \A i \in Len(taken) + 1 .. Len(accepted) :
       queue[(i - 1) % QueueSize] = accepted[i]

LEMMA RingInit == Init => RingInv
<1> SUFFICES ASSUME Init PROVE RingInv
  OBVIOUS
<1>1. 0 % QueueSize = 0
  BY SizesAreNumbers
<1> QED BY <1>1 DEF Init, RingInv

LEMMA RingAccept ==
  ASSUME TypeInv, TypeInv', RingInv, NEW t \in Threads, AddAccept(t)
  PROVE  RingInv'
<1> DEFINE n == Len(accepted)
           k == Submitted(t)
<1> USE SizesAreNumbers
<1>1. /\ accepted \in Seq(Tasks) /\ taken \in Seq(Tasks \cup {NoTask}) /\ k \in Tasks
      /\ n \in Nat /\ Len(taken) \in Nat /\ count \in 0 .. QueueSize
      /\ queue \in [0 .. QueueSize - 1 -> Tasks \cup {NoTask}]
  BY DEF TypeInv, TypeOK, CallInv, AddAccept
<1>2. /\ count < QueueSize /\ count' = count + 1
      /\ accepted' = Append(accepted, k) /\ taken' = taken /\ head' = head
      /\ queue' = [queue EXCEPT ![tail] = k] /\ tail' = (tail + 1) % QueueSize
  BY <1>1 DEF AddAccept, Full, After
<1> HIDE DEF k
<1>3. /\ Len(accepted') = n + 1 /\ accepted'[n + 1] = k
      /\ \A i \in 1 .. n : accepted'[i] = accepted[i]
  BY <1>1, <1>2
<1>4. /\ n = Len(taken) + count
      /\ head = Len(taken) % QueueSize /\ tail = n % QueueSize
      /\ \A i \in 1 .. Len(taken) : taken[i] = accepted[i]
      /\ \A i \in Len(taken) + 1 .. n : queue[(i - 1) % QueueSize] = accepted[i]
  BY DEF RingInv
<1> HIDE DEF n
<1>5. tail' = Len(accepted') % QueueSize
  <2>1. ((n % QueueSize) + 1) % QueueSize = (n + 1) % QueueSize
    BY <1>1, ModAdd
  <2> QED BY <2>1, <1>2, <1>3, <1>4
<1>6. Len(accepted') = Len(taken') + count' /\ head' = Len(taken') % QueueSize
  BY <1>1, <1>2, <1>3, <1>4
<1>7. ASSUME NEW i \in 1 .. Len(taken') PROVE taken'[i] = accepted'[i]
  <2>1. taken' = taken /\ i \in 1 .. n
    BY <1>1, <1>2, <1>4
  <2> QED BY <2>1, <1>3, <1>4
<1>8. ASSUME NEW i \in Len(taken') + 1 .. Len(accepted')
      PROVE  queue'[(i - 1) % QueueSize] = accepted'[i]
  <2>1. i \in Nat /\ i - 1 \in Nat /\ (i - 1) % QueueSize \in 0 .. QueueSize - 1
    BY <1>1, <1>2, <1>3, ModRange
  <2>2. CASE i = n + 1
    BY <2>1, <2>2, <1>1, <1>2, <1>3, <1>4
  <2>3. CASE i # n + 1
    <3>1. i \in Len(taken) + 1 .. n
      BY <2>3, <1>1, <1>2, <1>3
    <3>2. i - 1 < n /\ n < (i - 1) + QueueSize
      BY <3>1, <2>1, <1>1, <1>2, <1>4
    <3>3. (i - 1) % QueueSize # n % QueueSize
      BY <3>2, <2>1, <1>1, ModDistinct
    <3>4. queue'[(i - 1) % QueueSize] = queue[(i - 1) % QueueSize]
      BY <3>3, <2>1, <1>1, <1>2, <1>4
    <3>5. i \in 1 .. n
      BY <3>1, <1>1
    <3>6. accepted'[i] = accepted[i] /\ queue[(i - 1) % QueueSize] = accepted[i]
      BY <3>1, <3>5, <1>3, <1>4
    <3> QED BY <3>4, <3>6
  <2> QED BY <2>2, <2>3
<1> QED BY <1>5, <1>6, <1>7, <1>8 DEF RingInv

LEMMA RingTake ==
  ASSUME TypeInv, TypeInv', RingInv, NEW w \in Workers, Take(w)
  PROVE  RingInv'
<1> DEFINE n == Len(taken)
<1> USE SizesAreNumbers
<1>1. /\ accepted \in Seq(Tasks) /\ taken \in Seq(Tasks \cup {NoTask})
      /\ n \in Nat /\ Len(accepted) \in Nat /\ count \in 0 .. QueueSize
      /\ shutdown \in {Running, Immediate, Graceful}
      /\ queue \in [0 .. QueueSize - 1 -> Tasks \cup {NoTask}]
  BY DEF TypeInv, TypeOK
<1>2. /\ count > 0 /\ count' = count - 1
      /\ taken' = Append(taken, queue[head]) /\ accepted' = accepted
      /\ tail' = tail /\ queue' = queue /\ head' = (head + 1) % QueueSize
  BY <1>1 DEF Take, MustExit, After
<1>3. /\ Len(accepted) = n + count
      /\ head = n % QueueSize /\ tail = Len(accepted) % QueueSize
      /\ \A i \in 1 .. n : taken[i] = accepted[i]
      /\ \A i \in n + 1 .. Len(accepted) : queue[(i - 1) % QueueSize] = accepted[i]
  BY DEF RingInv
<1>4. queue[head] = accepted[n + 1]
  <2>1. n + 1 \in n + 1 .. Len(accepted) /\ (n + 1) - 1 = n
    BY <1>1, <1>2, <1>3
  <2>2. queue[((n + 1) - 1) % QueueSize] = accepted[n + 1]
    BY <2>1, <1>3
  <2> QED BY <2>1, <2>2, <1>3
<1>5. queue[head] \in Tasks \cup {NoTask}
  BY <1>1, <1>3, ModRange
<1>6. /\ Len(taken') = n + 1 /\ taken'[n + 1] = queue[head]
      /\ \A i \in 1 .. n : taken'[i] = taken[i]
  BY <1>1, <1>2, <1>5
<1> HIDE DEF n
<1>7. head' = Len(taken') % QueueSize
  <2>1. ((n % QueueSize) + 1) % QueueSize = (n + 1) % QueueSize
    BY <1>1, ModAdd
  <2> QED BY <2>1, <1>2, <1>3, <1>6
<1>8. ASSUME NEW i \in 1 .. Len(taken') PROVE taken'[i] = accepted'[i]
  <2>1. accepted' = accepted
    BY <1>2
  <2>2. CASE i = n + 1
    BY <2>1, <2>2, <1>4, <1>6
  <2>3. CASE i # n + 1
    <3>1. i \in 1 .. n
      BY <2>3, <1>1, <1>6
    <3> QED BY <3>1, <2>1, <1>3, <1>6
  <2> QED BY <2>2, <2>3
<1>9. Len(accepted') = Len(taken') + count' /\ tail' = Len(accepted') % QueueSize
  <2>1. Len(accepted') = Len(accepted) /\ tail' = tail /\ count \in Nat
    BY <1>1, <1>2
  <2>2. Len(accepted) = n + count /\ tail = Len(accepted) % QueueSize
    BY <1>3
  <2>3. n \in Nat /\ count' = count - 1 /\ Len(taken') = n + 1
    BY <1>1, <1>2, <1>6
  <2>4. Len(accepted) = Len(taken') + count'
    BY <2>1, <2>2, <2>3
  <2> QED BY <2>1, <2>2, <2>4
<1>10. ASSUME NEW i \in Len(taken') + 1 .. Len(accepted')
       PROVE  queue'[(i - 1) % QueueSize] = accepted'[i]
  <2>1. i \in n + 1 .. Len(accepted)
    BY <1>1, <1>2, <1>6
  <2> QED BY <2>1, <1>2, <1>3
<1> QED BY <1>7, <1>8, <1>9, <1>10 DEF RingInv

\* Only threadpool_add and a worker that takes a task touch the ring.
LEMMA RingStep == TypeInv /\ TypeInv' /\ RingInv /\ [Next]_vars => RingInv'
<1> SUFFICES ASSUME TypeInv, TypeInv', RingInv, [Next]_vars PROVE RingInv'
  OBVIOUS
<1>1. CASE \E t \in Threads : AddAccept(t)
  BY <1>1, RingAccept
<1>2. CASE \E w \in Workers : Take(w)
  BY <1>2, RingTake
<1>3. CASE UNCHANGED <<ring, accepted, taken>>
  BY <1>3 DEF ring, RingInv
<1>4. ASSUME Create PROVE UNCHANGED <<ring, accepted, taken>>
  BY <1>4 DEF Create, StartWorker, CountRead, CountWrite, StartFails, CreateReturns, history
<1>5. ASSUME NEW t \in Threads, Acquire(t) \/ AddRefuse(t)
      PROVE  UNCHANGED <<ring, accepted, taken>>
  BY <1>5 DEF Acquire, AddRefuse, history
<1>6. ASSUME NEW w \in Workers, WorkerStep(w), ~Take(w)
      PROVE  UNCHANGED <<ring, accepted, taken>>
  BY <1>6 DEF WorkerStep, CallAddFromTask, Sleep, SpuriousWakeup, Finish, ExitCount,
              ExitUnlock, history
<1>7. ASSUME NEW c \in Callers, CallerStep(c) \/ DestroyerStep(c)
      PROVE  UNCHANGED <<ring, accepted, taken>>
  BY <1>7 DEF CallerStep, CallAdd, DestroyerStep, Destroy, DestroyAgain, Join, FreeCheck,
              Free, history
<1>8. ASSUME NEW d, NEW kind, CallDestroy(d, kind) PROVE UNCHANGED <<ring, accepted, taken>>
  BY <1>8 DEF CallDestroy, history
<1>9. ASSUME UNCHANGED vars PROVE UNCHANGED <<ring, accepted, taken>>
  BY <1>9 DEF vars, history
<1> QED
  BY <1>1, <1>2, <1>3, <1>4, <1>5, <1>6, <1>7, <1>8, <1>9 DEF Next, AddStep, Done

\* One sequence after another has the elements of both and their number.
LEMMA Joined ==
  ASSUME NEW S, NEW s \in Seq(S), NEW t \in Seq(S)
  PROVE  s \o t \in Seq(S) /\ Len(s \o t) = Len(s) + Len(t)
OBVIOUS

\* What the ring holds, counted from head: the accepted tasks after the taken ones.
ContentsFollow ==
  /\ Contents \in Seq(Tasks) /\ Len(Contents) = count
  /\ \A i \in 1 .. count : Contents[i] = accepted[Len(taken) + i]

LEMMA ContentsAre == TypeInv /\ RingInv => ContentsFollow
<1> SUFFICES ASSUME TypeInv, RingInv PROVE ContentsFollow
  OBVIOUS
<1> USE SizesAreNumbers
<1> DEFINE n == Len(taken)
<1>1. /\ accepted \in Seq(Tasks) /\ taken \in Seq(Tasks \cup {NoTask})
      /\ n \in Nat /\ Len(accepted) \in Nat /\ count \in Nat
      /\ queue \in [0 .. QueueSize - 1 -> Tasks \cup {NoTask}]
  BY DEF TypeInv, TypeOK
<1>2. ASSUME NEW i \in 1 .. count
      PROVE  /\ Contents[i] = accepted[n + i]
             /\ Contents[i] \in Tasks
  <2>1. n + i - 1 \in Nat /\ i - 1 \in Nat
    BY <1>1
  <2>2. (head + (i - 1)) % QueueSize = (n + (i - 1)) % QueueSize
    BY <1>1, <2>1, ModAdd DEF RingInv
  <2>3. head \in Nat /\ head + i - 1 = head + (i - 1) /\ n + i - 1 = n + (i - 1)
    BY <1>1, <2>1, ModRange DEF RingInv
  <2>4. Contents[i] = queue[(n + i - 1) % QueueSize]
    BY <2>2, <2>3 DEF Contents
  <2>5. n + i \in n + 1 .. Len(accepted) /\ (n + i) - 1 = n + i - 1
    BY <1>1 DEF RingInv
  <2>6. Contents[i] = accepted[n + i]
    BY <2>4, <2>5 DEF RingInv
  <2>7. accepted[n + i] \in Tasks
    BY <1>1, <2>5
  <2> QED BY <2>6, <2>7
<1> QED BY <1>1, <1>2 DEF Contents, ContentsFollow

\* So the workers have taken, in order, what comes before the ring's contents.
LEMMA RingIsFirstInFirstOut == TypeInv /\ RingInv => FirstInFirstOut
<1> SUFFICES ASSUME TypeInv, RingInv PROVE FirstInFirstOut
  OBVIOUS
<1> USE SizesAreNumbers
<1> DEFINE n == Len(taken)
<1>1. /\ accepted \in Seq(Tasks) /\ taken \in Seq(Tasks \cup {NoTask})
      /\ n \in Nat /\ Len(accepted) \in Nat /\ count \in Nat
  BY DEF TypeInv, TypeOK
<1>2. tail = (head + count) % QueueSize
  <2>1. ((n % QueueSize) + count) % QueueSize = (n + count) % QueueSize
    BY <1>1, ModAdd
  <2> QED BY <2>1 DEF RingInv
<1>3. \A i \in 1 .. count : Contents[i] = accepted[n + i]
  BY ContentsAre DEF ContentsFollow
<1>4. Contents \in Seq(Tasks) /\ Len(Contents) = count
  BY ContentsAre DEF ContentsFollow
<1>5. accepted = taken \o Contents
  <2>1. /\ Len(accepted) = n + count
        /\ \A i \in 1 .. n : taken[i] = accepted[i]
    BY DEF RingInv
  <2> HIDE DEF n
  <2>2. ASSUME NEW i \in 1 .. Len(accepted) PROVE accepted[i] = (taken \o Contents)[i]
    <3>1. CASE i <= n
      BY <3>1, <1>1, <1>4, <2>1 DEF n
    <3>2. CASE i > n
      <4>1. i - n \in 1 .. count /\ i = n + (i - n)
        BY <3>2, <1>1, <2>1
      <4>2. (taken \o Contents)[i] = Contents[i - n]
        BY <3>2, <4>1, <1>1, <1>4, <2>1 DEF n
      <4>3. Contents[i - n] = accepted[n + (i - n)]
        BY <4>1, <1>3
      <4> QED BY <4>1, <4>2, <4>3
    <3>3. n \in Int /\ i \in Int
      BY <1>1
    <3>4. i <= n \/ i > n
      BY <3>3
    <3> QED BY <3>1, <3>2, <3>4
  <2>3. taken \o Contents \in Seq(Tasks \cup {NoTask}) /\ Len(taken \o Contents) = n + count
    <3>1. taken \in Seq(Tasks \cup {NoTask}) /\ Contents \in Seq(Tasks \cup {NoTask})
      BY <1>1, <1>4
    <3> QED BY <3>1, <1>4, Joined DEF n
  <2> QED BY <1>1, <2>1, <2>2, <2>3
<1> QED BY <1>2, <1>5 DEF FirstInFirstOut

\* Workers take the accepted tasks in order, each exactly once, and the ring
\* holds exactly the tasks not taken yet, for every ring size and however the
\* threads interleave.
THEOREM FifoCorrect == Spec => []FirstInFirstOut
<1>1. Init => TypeInv /\ RingInv
  BY TypeInit, RingInit
<1>2. TypeInv /\ RingInv /\ [Next]_vars => (TypeInv /\ RingInv)'
  BY TypeStep, RingStep
<1>3. TypeInv /\ RingInv => FirstInFirstOut
  BY RingIsFirstInFirstOut
<1> QED BY <1>1, <1>2, <1>3, PTL DEF Spec

-----------------------------------------------------------------------------
(* How the pool begins and ends: the inductive invariant *)

\* Where a thread holds the mutex; "refused" is the return of a second
\* threadpool_destroy, which does not unlock it.
InMutex == {"check", "add", "destroy", "free", "exiting", "refused"}

WorkerWheres ==
  {"none", "lock", "woken", "check", "wait", "run", "add_lock", "add", "exiting", "exited"}
CreateStates == {"create", "count", "counting"}
CallerWheres == {"idle", "add_lock", "add"} \cup CreateStates \cup DestroyStates \cup Returned

\* Past the statement that sets pool->shutdown.
Closing == {"join", "free_lock", "free", "leaked", "destroyed"}

Creating == pc[Creator] \in CreateStates

\* The mutex has the holder that the places in the code say it has.
MutexInv == \A t \in Threads : pc[t] \in InMutex <=> lock = t

\* Who is where, and who exists: threadpool_create has made the first workers, one
\* more than it has counted, before anybody else knows of the pool.
PlaceInv ==
  /\ \A w \in Workers : pc[w] \in WorkerWheres
  /\ \A c \in Callers : pc[c] \in CallerWheres /\ (c # Creator => pc[c] \notin CreateStates)
  /\ Creating => ~published
  /\ published => thread_count = ThreadCount
  /\ ~published => \A c \in Callers \ {Creator} : pc[c] = "idle"
  /\ ~published => pc[Creator] \in CreateStates \cup DestroyStates \cup Returned
  /\ \A w \in Workers :
       pc[w] = "none" <=> w > thread_count + (IF pc[Creator] = "count" THEN 1 ELSE 0)

\* One destroyer sets pool->shutdown, and nobody outside adds any more; then no
\* worker sleeps, and one that leaves after a graceful shutdown leaves nothing behind.
CloseInv ==
  /\ \A d \in Callers : pc[d] \in Closing => shutdown # Running
  /\ \A d, e \in Callers : pc[d] \in Closing /\ pc[e] \in Closing => d = e
  /\ \A d \in Callers : pc[d] \in DestroyStates \cup Returned =>
       \A c \in Callers : pc[c] \in {"idle"} \cup DestroyStates \cup Returned
  /\ shutdown # Running => ~Creating
  /\ \A w \in Workers : pc[w] \in {"exiting", "exited"} => shutdown # Running
  /\ \A w \in Workers : pc[w] = "wait" => shutdown = Running
  /\ ~published /\ ~Creating => flags[Creator] = Immediate
  /\ shutdown = Graceful => published
  /\ shutdown = Graceful =>
       \A w \in Workers : pc[w] \in {"exiting", "exited"} => count = 0

\* What is joined has ended, and all is joined before anything is freed.
JoinInv ==
  /\ \A d \in Callers : \A w \in 1 .. joined[d] : pc[w] = "exited" /\ w \in 1 .. thread_count
  /\ \A d \in Callers : pc[d] \in {"free_lock", "free", "destroyed"} => joined[d] = thread_count
  /\ \A d \in Callers : pc[d] \in Closing => ~Creating
  /\ \A d \in Callers : pc[d] = "destroyed" <=> pool = "freed" /\ pc[d] \in Closing
  /\ pool = "freed" => \E d \in Callers : pc[d] = "destroyed"

\* The workers that pool->started counts.
Counted == {w \in 1 .. thread_count : pc[w] \notin {"exiting", "exited"}}

\* tmp is what started still is; the worker counted last is not in started yet.
StartedInv ==
  IF pc[Creator] = "counting"
  THEN tmp = started /\ started + 1 = Cardinality(Counted)
  ELSE started = Cardinality(Counted)

\* A task that was taken is done or is in the hands of a worker.
TakenInv ==
  \A i \in 1 .. Len(taken) :
    \/ taken[i] \in finished
    \/ \E w \in Workers : pc[w] \in {"run", "add_lock", "add"} /\ arg[w] = taken[i]

ControlInv == MutexInv /\ PlaceInv /\ CloseInv /\ JoinInv

-----------------------------------------------------------------------------
(* ControlInv is inductive, action by action *)

\* An accepted threadpool_add moves its caller and at most wakes sleeping workers.
LEMMA AcceptMoves ==
  ASSUME TypeInv, NEW t \in Threads, AddAccept(t)
  PROVE  /\ pc'[t] = IF t \in Workers THEN "run" ELSE "idle"
         /\ \A u \in Threads \ {t} :
              pc'[u] = pc[u] \/ (u \in Workers /\ pc[u] = "wait" /\ pc'[u] = "woken")
<1> DEFINE f == [pc EXCEPT ![t] = AfterAdd(t)]
<1>1. f \in [Threads -> Wheres] /\ Signal(f)
  BY DEF AddAccept, AfterAdd, Wheres, TypeInv, TypeOK
<1>2. f[t] = (IF t \in Workers THEN "run" ELSE "idle") /\ \A u \in Threads \ {t} : f[u] = pc[u]
  BY DEF AfterAdd, TypeInv, TypeOK
<1> HIDE DEF f
<1>3. \A u \in Threads : pc'[u] = f[u] \/ (u \in Workers /\ f[u] = "wait" /\ pc'[u] = "woken")
  BY <1>1, SignalWakes
<1> QED BY <1>2, <1>3

\* The accepting return of threadpool_add keeps the control invariant.
LEMMA AcceptControl ==
  ASSUME TypeInv, ControlInv, NEW t \in Threads, AddAccept(t)
  PROVE  ControlInv'
<1>1. /\ pc[t] = "add" /\ shutdown = Running /\ lock' = NoThread
      /\ UNCHANGED <<pool, published, shutdown, thread_count, flags, joined>>
  BY DEF AddAccept, Open
<1>2. /\ \A c \in Callers : pc'[c] = IF c = t THEN "idle" ELSE pc[c]
      /\ \A w \in Workers : \/ pc'[w] = pc[w] /\ w # t
                            \/ pc[w] = "add" /\ pc'[w] = "run" /\ w = t
                            \/ pc[w] = "wait" /\ pc'[w] = "woken" /\ w # t
  BY <1>1, AcceptMoves, ThreadKinds
<1> USE ThreadKinds, NamesAssumption DEF ControlInv
<1>3. MutexInv'
  BY <1>1, <1>2 DEF MutexInv, Threads, InMutex
<1>4. PlaceInv'
  BY <1>1, <1>2
     DEF PlaceInv, Creating, WorkerWheres, CallerWheres, CreateStates, DestroyStates, Returned
<1>5. CloseInv'
  BY <1>1, <1>2
     DEF CloseInv, Creating, Closing, CreateStates, Running, Graceful, DestroyStates, Returned
<1>6. JoinInv'
  <2>1. \A i \in 1 .. thread_count : i \in Workers
    BY SizesAreNumbers DEF TypeInv, TypeOK, Workers
  <2>2. \A d \in Callers : \A w \in 1 .. joined'[d] :
          pc'[w] = "exited" /\ w \in 1 .. thread_count'
    BY <1>1, <1>2, <2>1 DEF JoinInv
  <2>3. \A d \in Callers : pc'[d] \in Closing <=> pc[d] \in Closing /\ pc'[d] = pc[d]
    BY <1>1, <1>2 DEF Closing
  <2>4. Creating' => Creating
    BY <1>1, <1>2 DEF Creating, CreateStates
  <2> QED BY <1>1, <1>2, <2>2, <2>3, <2>4 DEF JoinInv, Closing
<1> QED BY <1>3, <1>4, <1>5, <1>6

\* pthread_create makes a worker the pool has room for.
LEMMA NewWorker ==
  ASSUME TypeInv, StartWorker
  PROVE  thread_count + 1 \in Workers
BY SizesAreNumbers DEF TypeInv, TypeOK, StartWorker, Workers

\* Every step keeps the control invariant, given that started counts the workers.
LEMMA ControlStep ==
  ASSUME TypeInv, TypeInv', ControlInv, StartedInv, [Next]_vars
  PROVE  ControlInv'
<1> USE SizesAreNumbers, ThreadKinds, NamesAssumption
   DEF TypeInv, TypeOK, Goto, ring, history, Wheres, DestroyStates, Returned, ControlInv,
       MutexInv, PlaceInv, CloseInv, JoinInv, InMutex, WorkerWheres, CreateStates,
       CallerWheres, Closing, Creating, Workers
<1>1. ASSUME StartWorker PROVE ControlInv'
  <2> thread_count + 1 \in Workers
    BY <1>1, NewWorker
  <2>1. MutexInv'
    BY <1>1, SMTT(30) DEF StartWorker
  <2>2. PlaceInv'
    BY <1>1, SMTT(30) DEF StartWorker
  <2>3. CloseInv'
    BY <1>1, SMTT(30) DEF StartWorker
  <2>4. JoinInv'
    BY <1>1, SMTT(30) DEF StartWorker
  <2> QED BY <2>1, <2>2, <2>3, <2>4 DEF ControlInv
<1>2. ASSUME CountRead PROVE ControlInv'
  <2>1. MutexInv'
    BY <1>2, SMTT(30) DEF CountRead
  <2>2. PlaceInv'
    BY <1>2, SMTT(30) DEF CountRead
  <2>3. CloseInv'
    BY <1>2, SMTT(30) DEF CountRead
  <2>4. JoinInv'
    BY <1>2, SMTT(30) DEF CountRead
  <2> QED BY <2>1, <2>2, <2>3, <2>4 DEF ControlInv
<1>3. ASSUME CountWrite PROVE ControlInv'
  <2>1. MutexInv'
    BY <1>3, SMTT(30) DEF CountWrite
  <2>2. PlaceInv'
    BY <1>3, SMTT(30) DEF CountWrite
  <2>3. CloseInv'
    BY <1>3, SMTT(30) DEF CountWrite
  <2>4. JoinInv'
    BY <1>3, SMTT(30) DEF CountWrite
  <2> QED BY <2>1, <2>2, <2>3, <2>4 DEF ControlInv
<1>4. ASSUME StartFails PROVE ControlInv'
  <2>1. MutexInv'
    BY <1>4, SMTT(30) DEF StartFails
  <2>2. PlaceInv'
    BY <1>4, SMTT(30) DEF StartFails
  <2>3. CloseInv'
    BY <1>4, SMTT(30) DEF StartFails
  <2>4. JoinInv'
    BY <1>4, SMTT(30) DEF StartFails
  <2> QED BY <2>1, <2>2, <2>3, <2>4 DEF ControlInv
<1>5. ASSUME CreateReturns PROVE ControlInv'
  <2>1. MutexInv'
    BY <1>5, SMTT(30) DEF CreateReturns
  <2>2. PlaceInv'
    BY <1>5, SMTT(30) DEF CreateReturns
  <2>3. CloseInv'
    BY <1>5, SMTT(30) DEF CreateReturns
  <2>4. JoinInv'
    BY <1>5, SMTT(30) DEF CreateReturns
  <2> QED BY <2>1, <2>2, <2>3, <2>4 DEF ControlInv
<1>6. ASSUME NEW t \in Threads, Acquire(t) PROVE ControlInv'
  <2>1. MutexInv'
    BY <1>6, SMTT(30) DEF Acquire, Holding
  <2>2. PlaceInv'
    BY <1>6, SMTT(30) DEF Acquire, Holding
  <2>3. CloseInv'
    BY <1>6, SMTT(30) DEF Acquire, Holding
  <2>4. JoinInv'
    BY <1>6, SMTT(30) DEF Acquire, Holding
  <2> QED BY <2>1, <2>2, <2>3, <2>4 DEF ControlInv
<1>7. ASSUME NEW c \in Callers, NEW k \in Tasks, CallAdd(c, k) PROVE ControlInv'
  <2>1. MutexInv'
    BY <1>7, SMTT(30) DEF CallAdd
  <2>2. PlaceInv'
    BY <1>7, SMTT(30) DEF CallAdd
  <2>3. CloseInv'
    BY <1>7, SMTT(30) DEF CallAdd
  <2>4. JoinInv'
    BY <1>7, SMTT(30) DEF CallAdd
  <2> QED BY <2>1, <2>2, <2>3, <2>4 DEF ControlInv
<1>8. ASSUME NEW w \in Workers, NEW k \in Tasks, CallAddFromTask(w, k) PROVE ControlInv'
  <2>1. MutexInv'
    BY <1>8, SMTT(30) DEF CallAddFromTask
  <2>2. PlaceInv'
    BY <1>8, SMTT(30) DEF CallAddFromTask
  <2>3. CloseInv'
    BY <1>8, SMTT(30) DEF CallAddFromTask
  <2>4. JoinInv'
    BY <1>8, SMTT(30) DEF CallAddFromTask
  <2> QED BY <2>1, <2>2, <2>3, <2>4 DEF ControlInv
<1>9. ASSUME NEW t \in Threads, AddAccept(t) PROVE ControlInv'
  BY <1>9, AcceptControl
<1>10. ASSUME NEW t \in Threads, AddRefuse(t) PROVE ControlInv'
  <2>1. MutexInv'
    BY <1>10, SMTT(30) DEF AddRefuse, AfterAdd
  <2>2. PlaceInv'
    BY <1>10, SMTT(30) DEF AddRefuse, AfterAdd
  <2>3. CloseInv'
    BY <1>10, SMTT(30) DEF AddRefuse, AfterAdd
  <2>4. JoinInv'
    BY <1>10, SMTT(30) DEF AddRefuse, AfterAdd
  <2> QED BY <2>1, <2>2, <2>3, <2>4 DEF ControlInv
<1>11. ASSUME NEW d \in Callers, NEW kind \in {Immediate, Graceful}, CallDestroy(d, kind) PROVE ControlInv'
  <2>1. MutexInv'
    BY <1>11, SMTT(30) DEF CallDestroy
  <2>2. PlaceInv'
    BY <1>11, SMTT(30) DEF CallDestroy
  <2>3. CloseInv'
    BY <1>11, SMTT(30) DEF CallDestroy
  <2>4. JoinInv'
    BY <1>11, SMTT(30) DEF CallDestroy
  <2> QED BY <2>1, <2>2, <2>3, <2>4 DEF ControlInv
<1>12. ASSUME NEW d \in Callers, Destroy(d) PROVE ControlInv'
  <2>1. MutexInv'
    BY <1>12, SMTT(30) DEF Destroy, Broadcast, Running, Immediate, Graceful
  <2>2. PlaceInv'
    BY <1>12, SMTT(30) DEF Destroy, Broadcast, Running, Immediate, Graceful
  <2>3. CloseInv'
    BY <1>12, SMTT(30) DEF Destroy, Broadcast, Running, Immediate, Graceful
  <2>4. JoinInv'
    BY <1>12, SMTT(30) DEF Destroy, Broadcast, Running, Immediate, Graceful
  <2> QED BY <2>1, <2>2, <2>3, <2>4 DEF ControlInv
<1>13. ASSUME NEW d \in Callers, DestroyAgain(d) PROVE ControlInv'
  <2>1. MutexInv'
    BY <1>13, SMTT(30) DEF DestroyAgain
  <2>2. PlaceInv'
    BY <1>13, SMTT(30) DEF DestroyAgain
  <2>3. CloseInv'
    BY <1>13, SMTT(30) DEF DestroyAgain
  <2>4. JoinInv'
    BY <1>13, SMTT(30) DEF DestroyAgain
  <2> QED BY <2>1, <2>2, <2>3, <2>4 DEF ControlInv
<1>14. ASSUME NEW d \in Callers, Join(d) PROVE ControlInv'
  <2>1. MutexInv'
    BY <1>14, SMTT(30) DEF Join
  <2>2. PlaceInv'
    BY <1>14, SMTT(30) DEF Join
  <2>3. CloseInv'
    BY <1>14, SMTT(30) DEF Join
  <2>4. JoinInv'
    BY <1>14, SMTT(30) DEF Join
  <2> QED BY <2>1, <2>2, <2>3, <2>4 DEF ControlInv
<1>15. ASSUME NEW d \in Callers, FreeCheck(d) PROVE ControlInv'
  <2>1. MutexInv'
    BY <1>15, SMTT(30) DEF FreeCheck
  <2>2. PlaceInv'
    BY <1>15, SMTT(30) DEF FreeCheck
  <2>3. CloseInv'
    BY <1>15, SMTT(30) DEF FreeCheck
  <2>4. JoinInv'
    BY <1>15, SMTT(30) DEF FreeCheck
  <2> QED BY <2>1, <2>2, <2>3, <2>4 DEF ControlInv
<1>16. ASSUME NEW d \in Callers, Free(d) PROVE ControlInv'
  <2>1. MutexInv'
    BY <1>16, SMTT(30) DEF Free
  <2>2. PlaceInv'
    BY <1>16, SMTT(30) DEF Free
  <2>3. CloseInv'
    BY <1>16, SMTT(30) DEF Free
  <2>4. JoinInv'
    BY <1>16, SMTT(30) DEF Free
  <2> QED BY <2>1, <2>2, <2>3, <2>4 DEF ControlInv
<1>17. ASSUME NEW w \in Workers, Sleep(w) PROVE ControlInv'
  <2>1. MutexInv'
    BY <1>17, SMTT(30) DEF Sleep
  <2>2. PlaceInv'
    BY <1>17, SMTT(30) DEF Sleep
  <2>3. CloseInv'
    BY <1>17, SMTT(30) DEF Sleep
  <2>4. JoinInv'
    BY <1>17, SMTT(30) DEF Sleep
  <2> QED BY <2>1, <2>2, <2>3, <2>4 DEF ControlInv
<1>18. ASSUME NEW w \in Workers, SpuriousWakeup(w) PROVE ControlInv'
  <2>1. MutexInv'
    BY <1>18, SMTT(30) DEF SpuriousWakeup
  <2>2. PlaceInv'
    BY <1>18, SMTT(30) DEF SpuriousWakeup
  <2>3. CloseInv'
    BY <1>18, SMTT(30) DEF SpuriousWakeup
  <2>4. JoinInv'
    BY <1>18, SMTT(30) DEF SpuriousWakeup
  <2> QED BY <2>1, <2>2, <2>3, <2>4 DEF ControlInv
<1>19. ASSUME NEW w \in Workers, Take(w) PROVE ControlInv'
  <2>1. MutexInv'
    BY <1>19, SMTT(30) DEF Take, MustExit
  <2>2. PlaceInv'
    BY <1>19, SMTT(30) DEF Take, MustExit
  <2>3. CloseInv'
    BY <1>19, SMTT(30) DEF Take, MustExit
  <2>4. JoinInv'
    BY <1>19, SMTT(30) DEF Take, MustExit
  <2> QED BY <2>1, <2>2, <2>3, <2>4 DEF ControlInv
<1>20. ASSUME NEW w \in Workers, Finish(w) PROVE ControlInv'
  <2>1. MutexInv'
    BY <1>20, SMTT(30) DEF Finish
  <2>2. PlaceInv'
    BY <1>20, SMTT(30) DEF Finish
  <2>3. CloseInv'
    BY <1>20, SMTT(30) DEF Finish
  <2>4. JoinInv'
    BY <1>20, SMTT(30) DEF Finish
  <2> QED BY <2>1, <2>2, <2>3, <2>4 DEF ControlInv
<1>21. ASSUME NEW w \in Workers, ExitCount(w) PROVE ControlInv'
  <2>1. MutexInv'
    BY <1>21, SMTT(30) DEF ExitCount, MustExit, Running, Immediate, Graceful
  <2>2. PlaceInv'
    BY <1>21, SMTT(30) DEF ExitCount, MustExit, Running, Immediate, Graceful
  <2>3. CloseInv'
    BY <1>21, SMTT(30) DEF ExitCount, MustExit, Running, Immediate, Graceful
  <2>4. JoinInv'
    BY <1>21, SMTT(30) DEF ExitCount, MustExit, Running, Immediate, Graceful
  <2> QED BY <2>1, <2>2, <2>3, <2>4 DEF ControlInv
<1>22. ASSUME NEW w \in Workers, ExitUnlock(w) PROVE ControlInv'
  <2>1. MutexInv'
    BY <1>22, SMTT(30) DEF ExitUnlock
  <2>2. PlaceInv'
    BY <1>22, SMTT(30) DEF ExitUnlock
  <2>3. CloseInv'
    BY <1>22, SMTT(30) DEF ExitUnlock
  <2>4. JoinInv'
    BY <1>22, SMTT(30) DEF ExitUnlock
  <2> QED BY <2>1, <2>2, <2>3, <2>4 DEF ControlInv
<1>23. ASSUME UNCHANGED vars PROVE ControlInv'
  <2>1. MutexInv'
    BY <1>23, SMTT(30) DEF vars
  <2>2. PlaceInv'
    BY <1>23, SMTT(30) DEF vars
  <2>3. CloseInv'
    BY <1>23, SMTT(30) DEF vars
  <2>4. JoinInv'
    BY <1>23, SMTT(30) DEF vars
  <2> QED BY <2>1, <2>2, <2>3, <2>4 DEF ControlInv
<1> HIDE DEF TypeInv, TypeOK, ControlInv, Wheres, Workers, Returned, DestroyStates
<1>24. CASE Create
  BY <1>1, <1>2, <1>3, <1>4, <1>5, <1>24 DEF Create
<1>25. CASE \E t \in Threads : Acquire(t) \/ AddStep(t)
  BY <1>6, <1>9, <1>10, <1>25 DEF AddStep
<1>26. CASE \E w \in Workers : WorkerStep(w)
  BY <1>8, <1>17, <1>18, <1>19, <1>20, <1>21, <1>22, <1>26 DEF WorkerStep
<1>27. CASE \E c \in Callers : CallerStep(c) \/ DestroyerStep(c)
  BY <1>7, <1>12, <1>13, <1>14, <1>15, <1>16, <1>27 DEF CallerStep, DestroyerStep
<1>28. CASE \E d \in Destroyers : \E kind \in {Immediate, Graceful} : CallDestroy(d, kind)
  <2>1. PICK d \in Callers, kind \in {Immediate, Graceful} : CallDestroy(d, kind)
    BY <1>28, NamesAssumption
  <2> QED BY <1>11, <2>1
<1>29. CASE Done
  BY <1>23, <1>29 DEF Done
<1> QED BY <1>23, <1>24, <1>25, <1>26, <1>27, <1>28, <1>29 DEF Next

-----------------------------------------------------------------------------
(* Counting workers *)

\* The workers that will look at the ring before they sleep again.
Awake == {w \in Workers : pc[w] \in {"lock", "woken", "check"}}

\* Where a worker is inside the function of its task.
InTask == {"run", "add_lock", "add"}

\* A set of workers is finite and has a size.
LEMMA FiniteWorkers ==
  ASSUME NEW A \in SUBSET Workers
  PROVE  IsFiniteSet(A) /\ Cardinality(A) \in Nat
<1>1. IsFiniteSet(Workers)
  BY SizesAreNumbers, FS_Interval DEF Workers
<1> QED BY <1>1, FS_Subset, FS_CardinalityType

\* The workers that have been made and the counted ones are workers.
LEMMA CountedWorkers ==
  TypeInv => 1 .. thread_count \subseteq Workers /\ Counted \in SUBSET Workers
BY SizesAreNumbers DEF TypeInv, TypeOK, Workers, Counted

\* Steps that change nothing the counts depend on,
StartedSame ==
  /\ UNCHANGED <<started, tmp, thread_count>>
  /\ pc'[Creator] = "counting" <=> pc[Creator] = "counting"
  /\ \A w \in Workers : pc'[w] \in {"exiting", "exited"} <=> pc[w] \in {"exiting", "exited"}

\* let nobody sleep who did not and keep those awake who were,
WakeSame ==
  /\ count' = count
  /\ \A w \in Workers : /\ pc'[w] = "wait" => pc[w] = "wait"
                        /\ w \in Awake => w \in Awake'

\* and leave the tasks with the workers that run them.
TakenSame ==
  /\ UNCHANGED <<taken, finished>>
  /\ \A w \in Workers : pc[w] \in InTask => pc'[w] \in InTask /\ arg'[w] = arg[w]

\* Such steps keep StartedInv,
LEMMA StartedSameStep ==
  ASSUME TypeInv, TypeInv', StartedInv, StartedSame
  PROVE  StartedInv'
<1>1. Counted' = Counted
  BY CountedWorkers DEF StartedSame, Counted
<1> QED BY <1>1 DEF StartedSame, StartedInv

\* they keep NoLostWakeup,
LEMMA WakeSameStep ==
  ASSUME TypeInv, TypeInv', NoLostWakeup, WakeSame
  PROVE  NoLostWakeup'
<1>1. Awake \in SUBSET Awake' /\ Awake \in SUBSET Workers /\ Awake' \in SUBSET Workers
  BY DEF WakeSame, Awake
<1>2. /\ Cardinality(Awake) <= Cardinality(Awake')
      /\ Cardinality(Awake) \in Nat /\ Cardinality(Awake') \in Nat
  BY <1>1, FiniteWorkers, FS_Subset
<1>3. count \in Nat /\ count' = count
  BY SizesAreNumbers DEF TypeInv, TypeOK, WakeSame
<1> QED BY <1>2, <1>3 DEF WakeSame, NoLostWakeup, Awake

\* and they keep TakenInv.
LEMMA TakenSameStep ==
  ASSUME TakenInv, TakenSame
  PROVE  TakenInv'
BY DEF TakenInv, TakenSame, InTask

\* Every step keeps the three invariants that count.
LEMMA FinalStep ==
  ASSUME TypeInv, TypeInv', ControlInv, ControlInv', StartedInv, NoLostWakeup, TakenInv, [Next]_vars
  PROVE  StartedInv' /\ NoLostWakeup' /\ TakenInv'
<1> USE ThreadKinds, SizesAreNumbers, NamesAssumption DEF ring, history, Goto
<1> DEFINE Quiet == StartedSame /\ WakeSame /\ TakenSame
<1> DEFINE Kept == StartedInv' /\ NoLostWakeup' /\ TakenInv'
<1>1. ASSUME StartWorker PROVE Quiet
  <2>1. thread_count + 1 \in Workers /\ pc[thread_count + 1] = "none"
    BY <1>1, NewWorker DEF StartWorker, ControlInv, PlaceInv, TypeInv, TypeOK
  <2>2. /\ pc[Creator] = "create" /\ pc' = [pc EXCEPT ![Creator] = "count", ![thread_count + 1] = "lock"]
        /\ UNCHANGED <<started, tmp, thread_count, count, taken, finished, arg>>
    BY <1>1 DEF StartWorker
  <2> QED BY <2>1, <2>2, SMTT(30)
     DEF TypeInv, TypeOK, StartedSame, WakeSame, TakenSame, Awake, InTask
<1>2. ASSUME CountRead PROVE Kept
  <2>1. WakeSame /\ TakenSame
    BY <1>2
       DEF CountRead, TypeInv, TypeOK, Wheres, DestroyStates, Returned, WakeSame, TakenSame,
           Awake, InTask
  <2>2. /\ started' = started /\ tmp' = started /\ thread_count' = thread_count + 1
        /\ pc'[Creator] = "counting" /\ pc[Creator] = "count"
        /\ \A w \in Workers : pc'[w] = pc[w]
    BY <1>2 DEF CountRead, TypeInv, TypeOK
  <2>3. thread_count \in Nat /\ thread_count' \in 0 .. ThreadCount /\ started \in Int
    BY DEF TypeInv, TypeOK
  <2>4. Counted' = Counted \cup {thread_count + 1} /\ thread_count + 1 \notin Counted
    <3>1. \A w \in 1 .. thread_count + 1 : w \in Workers
      BY <2>2, <2>3 DEF Workers
    <3>2. \A w \in Workers : pc[w] \notin {"exiting", "exited"}
      BY <2>2 DEF ControlInv, CloseInv, Creating, CreateStates
    <3> QED BY <2>2, <2>3, <3>1, <3>2 DEF Counted
  <2>5. Counted \in SUBSET Workers
    BY CountedWorkers
  <2>6. Cardinality(Counted') = Cardinality(Counted) + 1
    BY <2>4, <2>5, FiniteWorkers, FS_AddElement
  <2>7. StartedInv'
    BY <2>2, <2>6 DEF StartedInv
  <2> QED BY <2>1, <2>7, WakeSameStep, TakenSameStep
<1>3. ASSUME CountWrite PROVE Kept
  <2>1. WakeSame /\ TakenSame
    BY <1>3
       DEF CountWrite, TypeInv, TypeOK, Wheres, DestroyStates, Returned, WakeSame, TakenSame,
           Awake, InTask
  <2>2. /\ started' = tmp + 1 /\ thread_count' = thread_count
        /\ pc'[Creator] = "create" /\ pc[Creator] = "counting"
        /\ \A w \in Workers : pc'[w] = pc[w]
    BY <1>3 DEF CountWrite, TypeInv, TypeOK
  <2>3. Counted' = Counted
    BY <2>2, CountedWorkers DEF Counted
  <2>4. StartedInv'
    BY <2>2, <2>3 DEF StartedInv
  <2> QED BY <2>1, <2>4, WakeSameStep, TakenSameStep
<1>4. ASSUME StartFails PROVE Quiet
  BY <1>4, SMTT(30)
     DEF TypeInv, TypeOK, Wheres, DestroyStates, Returned, StartedSame, WakeSame, TakenSame,
         Awake, InTask, StartFails
<1>5. ASSUME CreateReturns PROVE Quiet
  BY <1>5, SMTT(30)
     DEF TypeInv, TypeOK, Wheres, DestroyStates, Returned, StartedSame, WakeSame, TakenSame,
         Awake, InTask, CreateReturns
<1>6. ASSUME NEW t \in Threads, Acquire(t) PROVE Quiet
  BY <1>6, SMTT(30)
     DEF TypeInv, TypeOK, Wheres, DestroyStates, Returned, StartedSame, WakeSame, TakenSame,
         Awake, InTask, Acquire, Holding
<1>7. ASSUME NEW c \in Callers, NEW k \in Tasks, CallAdd(c, k) PROVE Quiet
  BY <1>7, SMTT(30)
     DEF TypeInv, TypeOK, Wheres, DestroyStates, Returned, StartedSame, WakeSame, TakenSame,
         Awake, InTask, CallAdd
<1>8. ASSUME NEW w \in Workers, NEW k \in Tasks, CallAddFromTask(w, k) PROVE Quiet
  BY <1>8, SMTT(30)
     DEF TypeInv, TypeOK, Wheres, DestroyStates, Returned, StartedSame, WakeSame, TakenSame,
         Awake, InTask, CallAddFromTask
<1>9. ASSUME NEW t \in Threads, AddAccept(t) PROVE Kept
  <2>1. /\ pc[t] = "add" /\ UNCHANGED <<started, tmp, thread_count, taken, finished>>
        /\ count' = count + 1
        /\ \A w \in Workers : arg'[w] = arg[w]
    BY <1>9, AddReturnsClears DEF AddAccept, TypeInv
  <2>2. /\ pc'[t] = IF t \in Workers THEN "run" ELSE "idle"
        /\ \A u \in Threads \ {t} :
             pc'[u] = pc[u] \/ (u \in Workers /\ pc[u] = "wait" /\ pc'[u] = "woken")
    BY <1>9, AcceptMoves
  <2>3. StartedSame /\ TakenSame
    BY <2>1, <2>2 DEF StartedSame, TakenSame, InTask
  <2>4. NoLostWakeup'
    <3>1. CASE \E w \in Workers : pc[w] = "wait"
      <4>1. PICK w \in Workers : pc[w] = "wait" /\ pc'[w] = "woken" /\ w # t
        <5> DEFINE f == [pc EXCEPT ![t] = AfterAdd(t)]
        <5>1. \A u \in Threads : u # t => f[u] = pc[u]
          BY DEF TypeInv, TypeOK
        <5>2. f \in [Threads -> Wheres] /\ Signal(f)
          BY <1>9 DEF AddAccept, AfterAdd, TypeInv, TypeOK, Wheres
        <5>3. f[t] # "wait"
          BY DEF AfterAdd, TypeInv, TypeOK
        <5> HIDE DEF f
        <5>4. \E w \in Workers : f[w] = "wait"
          BY <2>1, <3>1, <5>1
        <5>5. PICK w \in Workers : f[w] = "wait" /\ pc' = [f EXCEPT ![w] = "woken"]
          BY <5>2, <5>4 DEF Signal
        <5> QED BY <5>1, <5>2, <5>3, <5>5
      <4>2. Awake \cup {w} \in SUBSET Awake' /\ w \notin Awake
        BY <2>1, <2>2, <4>1 DEF Awake
      <4>3. Awake \in SUBSET Workers /\ Awake' \in SUBSET Workers
        BY DEF Awake
      <4>4. /\ Cardinality(Awake) \in Nat /\ Cardinality(Awake') \in Nat
            /\ IsFiniteSet(Awake) /\ IsFiniteSet(Awake')
        BY <4>3, FiniteWorkers
      <4>5. Cardinality(Awake \cup {w}) = Cardinality(Awake) + 1
        BY <4>2, <4>4, FS_AddElement
      <4>6. Cardinality(Awake \cup {w}) <= Cardinality(Awake')
        BY <4>2, <4>4, FS_Subset
      <4>7. count <= Cardinality(Awake)
        BY <3>1 DEF NoLostWakeup, Awake
      <4>8. count \in Nat
        BY DEF TypeInv, TypeOK
      <4>9. count' <= Cardinality(Awake')
        BY <2>1, <4>4, <4>5, <4>6, <4>7, <4>8
      <4> QED BY <4>9 DEF NoLostWakeup, Awake
    <3>2. CASE ~\E w \in Workers : pc[w] = "wait"
      <4>1. ~\E w \in Workers : pc'[w] = "wait"
        BY <2>2, <3>2
      <4> QED BY <4>1 DEF NoLostWakeup
    <3> QED BY <3>1, <3>2
  <2> QED BY <2>3, <2>4, StartedSameStep, TakenSameStep
<1>10. ASSUME NEW t \in Threads, AddRefuse(t) PROVE Quiet
  BY <1>10, SMTT(30)
     DEF TypeInv, TypeOK, Wheres, DestroyStates, Returned, StartedSame, WakeSame, TakenSame,
         Awake, InTask, AddRefuse, AfterAdd, AddReturns
<1>11. ASSUME NEW d \in Callers, NEW kind \in {Immediate, Graceful}, CallDestroy(d, kind) PROVE Quiet
  BY <1>11, SMTT(30)
     DEF TypeInv, TypeOK, Wheres, DestroyStates, Returned, StartedSame, WakeSame, TakenSame,
         Awake, InTask, CallDestroy
<1>12. ASSUME NEW d \in Callers, Destroy(d) PROVE Quiet
  BY <1>12, SMTT(30)
     DEF TypeInv, TypeOK, Wheres, DestroyStates, Returned, StartedSame, WakeSame, TakenSame,
         Awake, InTask, Destroy, Broadcast
<1>13. ASSUME NEW d \in Callers, DestroyAgain(d) PROVE Quiet
  BY <1>13, SMTT(30)
     DEF TypeInv, TypeOK, Wheres, DestroyStates, Returned, StartedSame, WakeSame, TakenSame,
         Awake, InTask, DestroyAgain
<1>14. ASSUME NEW d \in Callers, Join(d) PROVE Quiet
  BY <1>14, SMTT(30)
     DEF TypeInv, TypeOK, Wheres, DestroyStates, Returned, StartedSame, WakeSame, TakenSame,
         Awake, InTask, Join
<1>15. ASSUME NEW d \in Callers, FreeCheck(d) PROVE Quiet
  BY <1>15, SMTT(30)
     DEF TypeInv, TypeOK, Wheres, DestroyStates, Returned, StartedSame, WakeSame, TakenSame,
         Awake, InTask, FreeCheck
<1>16. ASSUME NEW d \in Callers, Free(d) PROVE Quiet
  BY <1>16, SMTT(30)
     DEF TypeInv, TypeOK, Wheres, DestroyStates, Returned, StartedSame, WakeSame, TakenSame,
         Awake, InTask, Free
<1>17. ASSUME NEW w \in Workers, Sleep(w) PROVE Kept
  <2>1. StartedSame /\ TakenSame
    BY <1>17
       DEF Sleep, TypeInv, TypeOK, Wheres, DestroyStates, Returned, StartedSame, TakenSame,
           InTask
  <2>2. count' = 0
    BY <1>17 DEF Sleep
  <2>3. Awake' \in SUBSET Workers
    BY DEF Awake
  <2>4. Cardinality(Awake') \in Nat
    BY <2>3, FiniteWorkers
  <2>5. NoLostWakeup'
    BY <2>2, <2>4 DEF NoLostWakeup, Awake
  <2> QED BY <2>1, <2>5, StartedSameStep, TakenSameStep
<1>18. ASSUME NEW w \in Workers, SpuriousWakeup(w) PROVE Quiet
  BY <1>18, SMTT(30)
     DEF TypeInv, TypeOK, Wheres, DestroyStates, Returned, StartedSame, WakeSame, TakenSame,
         Awake, InTask, SpuriousWakeup
<1>19. ASSUME NEW w \in Workers, Take(w) PROVE Kept
  <2>1. StartedSame
    BY <1>19 DEF Take, TypeInv, TypeOK, Wheres, DestroyStates, Returned, StartedSame
  <2>2. /\ pc[w] = "check" /\ pc' = [pc EXCEPT ![w] = "run"] /\ count' = count - 1
        /\ arg' = [arg EXCEPT ![w] = queue[head]] /\ finished' = finished
        /\ taken' = Append(taken, queue[head])
    BY <1>19 DEF Take
  <2>3. NoLostWakeup'
    <3>1. Awake' = Awake \ {w} /\ w \in Awake
      BY <2>2 DEF Awake, TypeInv, TypeOK
    <3>2. Awake \in SUBSET Workers
      BY DEF Awake
    <3>3. Cardinality(Awake') = Cardinality(Awake) - 1 /\ Cardinality(Awake) \in Nat
      BY <3>1, <3>2, FiniteWorkers, FS_RemoveElement
    <3>4. \A v \in Workers : pc'[v] = "wait" => pc[v] = "wait"
      BY <2>2 DEF TypeInv, TypeOK
    <3>5. count \in Nat
      BY DEF TypeInv, TypeOK
    <3>6. (\E v \in Workers : pc'[v] = "wait") => count' <= Cardinality(Awake')
      BY <2>2, <3>3, <3>4, <3>5 DEF NoLostWakeup, Awake
    <3> QED BY <3>6 DEF NoLostWakeup, Awake
  <2>4. TakenInv'
    <3>1. /\ taken \in Seq(Tasks \cup {NoTask}) /\ queue[head] \in Tasks \cup {NoTask}
      BY DEF TypeInv, TypeOK
    <3>2. /\ Len(taken') = Len(taken) + 1 /\ taken'[Len(taken) + 1] = queue[head]
          /\ \A i \in 1 .. Len(taken) : taken'[i] = taken[i]
          /\ Len(taken) \in Nat
      BY <2>2, <3>1
    <3>3. /\ pc'[w] \in InTask /\ arg'[w] = queue[head] /\ pc[w] \notin InTask
          /\ \A v \in Workers : v # w => pc'[v] = pc[v] /\ arg'[v] = arg[v]
      BY <2>2 DEF TypeInv, TypeOK, InTask
    <3>4. ASSUME NEW i \in 1 .. Len(taken')
          PROVE  \/ taken'[i] \in finished'
                 \/ \E v \in Workers : pc'[v] \in InTask /\ arg'[v] = taken'[i]
      <4>1. CASE i = Len(taken) + 1
        BY <3>2, <3>3, <4>1
      <4>2. CASE i # Len(taken) + 1
        <5>1. i \in 1 .. Len(taken)
          BY <3>2, <4>2
        <5> QED BY <2>2, <3>2, <3>3, <5>1 DEF TakenInv, InTask
      <4> QED BY <4>1, <4>2
    <3> QED BY <3>4 DEF TakenInv, InTask
  <2> QED BY <2>1, <2>3, <2>4, StartedSameStep
<1>20. ASSUME NEW w \in Workers, Finish(w) PROVE Kept
  <2>1. StartedSame /\ WakeSame
    BY <1>20
       DEF Finish, TypeInv, TypeOK, Wheres, DestroyStates, Returned, StartedSame, WakeSame,
           Awake
  <2>2. /\ finished' = finished \cup {arg[w]} /\ taken' = taken
        /\ \A v \in Workers \ {w} : pc'[v] = pc[v] /\ arg'[v] = arg[v]
    BY <1>20 DEF Finish, TypeInv, TypeOK
  <2>3. TakenInv'
    BY <2>2 DEF TakenInv
  <2> QED BY <2>1, <2>3, StartedSameStep, WakeSameStep
<1>21. ASSUME NEW w \in Workers, ExitCount(w) PROVE Kept
  <2>1. TakenSame
    BY <1>21 DEF ExitCount, TypeInv, TypeOK, Wheres, DestroyStates, Returned, TakenSame, InTask
  <2>2. /\ pc[w] = "check" /\ pc' = [pc EXCEPT ![w] = "exiting"] /\ shutdown # Running
        /\ started' = started - 1 /\ thread_count' = thread_count
    BY <1>21 DEF ExitCount, MustExit, Running, Immediate, Graceful
  <2>3. ~Creating /\ \A v \in Workers : pc'[v] # "wait"
    BY <2>2 DEF ControlInv, CloseInv, TypeInv, TypeOK
  <2>4. NoLostWakeup'
    BY <2>3 DEF NoLostWakeup
  <2>5. w \in 1 .. thread_count
    <3>1. pc[Creator] # "count"
      BY <2>3 DEF Creating, CreateStates
    <3>2. ~(w > thread_count + (IF pc[Creator] = "count" THEN 1 ELSE 0))
      BY <2>2 DEF ControlInv, PlaceInv
    <3>3. w \in 1 .. ThreadCount /\ thread_count \in Nat
      BY DEF Workers, TypeInv, TypeOK
    <3> QED BY <3>1, <3>2, <3>3
  <2>6. Counted' = Counted \ {w} /\ w \in Counted
    BY <2>2, <2>5, CountedWorkers DEF Counted, TypeInv, TypeOK
  <2>7. Counted \in SUBSET Workers
    BY CountedWorkers
  <2>8. Cardinality(Counted') = Cardinality(Counted) - 1 /\ Cardinality(Counted) \in Nat
    BY <2>6, <2>7, FiniteWorkers, FS_RemoveElement
  <2>9. pc[Creator] # "counting" /\ pc'[Creator] # "counting"
    BY <2>2, <2>3 DEF Creating, CreateStates, TypeInv, TypeOK
  <2>10. StartedInv'
    BY <2>2, <2>8, <2>9 DEF StartedInv
  <2> QED BY <2>1, <2>4, <2>10, TakenSameStep
<1>22. ASSUME NEW w \in Workers, ExitUnlock(w) PROVE Quiet
  BY <1>22, SMTT(30)
     DEF TypeInv, TypeOK, Wheres, DestroyStates, Returned, StartedSame, WakeSame, TakenSame,
         Awake, InTask, ExitUnlock
<1>23. ASSUME UNCHANGED vars PROVE Quiet
  BY <1>23, SMTT(30)
     DEF TypeInv, TypeOK, Wheres, DestroyStates, Returned, StartedSame, WakeSame, TakenSame,
         Awake, InTask, vars
<1> HIDE DEF ring, history, Goto
<1> SUFFICES Kept
  OBVIOUS
<1>24. ASSUME Quiet PROVE Kept
  BY <1>24, StartedSameStep, WakeSameStep, TakenSameStep
<1> HIDE DEF Quiet, Kept
<1>25. CASE Create
  BY <1>1, <1>2, <1>3, <1>4, <1>5, <1>24, <1>25 DEF Create
<1>26. CASE \E t \in Threads : Acquire(t) \/ AddStep(t)
  BY <1>6, <1>9, <1>10, <1>24, <1>26 DEF AddStep
<1>27. CASE \E w \in Workers : WorkerStep(w)
  BY <1>8, <1>17, <1>18, <1>19, <1>20, <1>21, <1>22, <1>24, <1>27 DEF WorkerStep
<1>28. CASE \E c \in Callers : CallerStep(c) \/ DestroyerStep(c)
  BY <1>7, <1>12, <1>13, <1>14, <1>15, <1>16, <1>24, <1>28 DEF CallerStep, DestroyerStep
<1>29. CASE \E d \in Destroyers : \E kind \in {Immediate, Graceful} : CallDestroy(d, kind)
  <2>1. PICK d \in Callers, kind \in {Immediate, Graceful} : CallDestroy(d, kind)
    BY <1>29
  <2> QED BY <1>11, <1>24, <2>1
<1>30. CASE Done
  BY <1>23, <1>24, <1>30 DEF Done
<1> QED BY <1>23, <1>24, <1>25, <1>26, <1>27, <1>28, <1>29, <1>30 DEF Next

-----------------------------------------------------------------------------
(* The theorems *)

\* A destroy that has joined all workers finds none that counts as started.
LEMMA LeaksStep ==
  ASSUME TypeInv, ControlInv, StartedInv, NothingLeaks, [Next]_vars
  PROVE  NothingLeaks'
<1> USE ThreadKinds, NamesAssumption DEF Goto, Wheres, DestroyStates, Returned, NothingLeaks
<1>1. ASSUME NEW d \in Callers, FreeCheck(d) PROVE NothingLeaks'
  <2>1. /\ pc[d] = "join" /\ joined[d] = thread_count
        /\ pc' = [pc EXCEPT ![d] = IF started > 0 THEN "leaked" ELSE "free_lock"]
    BY <1>1 DEF FreeCheck
  <2>2. Counted = {}
    BY <2>1 DEF ControlInv, JoinInv, Counted
  <2>3. started = 0
    BY <2>1, <2>2, FS_EmptySet
       DEF StartedInv, ControlInv, JoinInv, Closing, Creating, CreateStates
  <2> QED BY <2>1, <2>3 DEF TypeInv, TypeOK
<1>2. ASSUME NEW t \in Threads, AddAccept(t) PROVE NothingLeaks'
  BY <1>2, AcceptMoves
<1>3. CASE Create
  BY <1>3
     DEF Create, StartWorker, CountRead, CountWrite, StartFails, CreateReturns, TypeInv, TypeOK
<1>4. ASSUME NEW t \in Threads, Acquire(t) \/ AddRefuse(t) PROVE NothingLeaks'
  BY <1>4, SMTT(30) DEF Acquire, Holding, AddRefuse, AfterAdd, TypeInv, TypeOK
<1>5. ASSUME NEW w \in Workers, WorkerStep(w) PROVE NothingLeaks'
  BY <1>5
     DEF WorkerStep, Sleep, SpuriousWakeup, Take, Finish, ExitCount, ExitUnlock,
         CallAddFromTask, TypeInv, TypeOK
<1>6. ASSUME NEW c \in Callers, NEW k, CallAdd(c, k) PROVE NothingLeaks'
  BY <1>6 DEF CallAdd, TypeInv, TypeOK
<1>7. ASSUME NEW d \in Callers, Destroy(d) \/ DestroyAgain(d) \/ Join(d) \/ Free(d) PROVE NothingLeaks'
  BY <1>7 DEF Destroy, DestroyAgain, Join, Free, TypeInv, TypeOK
<1>8. ASSUME NEW d, NEW kind, CallDestroy(d, kind) PROVE NothingLeaks'
  BY <1>8 DEF CallDestroy, TypeInv, TypeOK
<1>9. CASE UNCHANGED vars
  BY <1>9 DEF vars
<1> QED
  BY <1>1, <1>2, <1>3, <1>4, <1>5, <1>6, <1>7, <1>8, <1>9
     DEF Next, AddStep, CallerStep, DestroyerStep, Done

EndInv == ControlInv /\ StartedInv /\ NoLostWakeup /\ TakenInv /\ NothingLeaks

\* The invariant holds at first,
LEMMA EndInit == Init => EndInv
<1> SUFFICES ASSUME Init PROVE EndInv
  OBVIOUS
<1> USE SizesAreNumbers, ThreadKinds, NamesAssumption
   DEF Init, Creating, CreateStates, DestroyStates, Returned, Running, Graceful
<1>1. MutexInv /\ PlaceInv
  BY DEF MutexInv, PlaceInv, InMutex, WorkerWheres, CallerWheres, Workers, Threads
<1>2. CloseInv /\ JoinInv
  BY DEF CloseInv, JoinInv, Closing
<1>3. StartedInv
  <2>1. Counted = {}
    BY DEF Counted
  <2> QED BY <2>1, FS_EmptySet DEF StartedInv
<1>4. NoLostWakeup /\ NothingLeaks
  BY DEF NoLostWakeup, NothingLeaks
<1>5. TakenInv
  BY DEF TakenInv
<1> QED BY <1>1, <1>2, <1>3, <1>4, <1>5 DEF EndInv, ControlInv

\* and every step keeps it.
LEMMA EndStep == TypeInv /\ TypeInv' /\ EndInv /\ [Next]_vars => EndInv'
BY ControlStep, FinalStep, LeaksStep DEF EndInv

\* All of it, in every state.
LEMMA AlwaysEndInv == Spec => [](TypeInv /\ RingInv /\ EndInv)
<1>1. Init => TypeInv /\ RingInv /\ EndInv
  BY TypeInit, RingInit, EndInit
<1>2. TypeInv /\ RingInv /\ EndInv /\ [Next]_vars => (TypeInv /\ RingInv /\ EndInv)'
  BY TypeStep, RingStep, EndStep
<1> QED BY <1>1, <1>2, PTL DEF Spec

\* While a worker sleeps, another one is awake for every pending task, although
\* threadpool_add signals once per task and workers wake for no reason.
THEOREM WakeupCorrect == Spec => []NoLostWakeup
<1>1. TypeInv /\ RingInv /\ EndInv => NoLostWakeup
  BY DEF EndInv
<1> QED BY <1>1, AlwaysEndInv, PTL

\* started, which is changed inside and outside the mutex, is the number of workers
\* that have not left, and so a destroy never leaves the pool's memory behind.
THEOREM DestroyCorrect == Spec => []DestroyFrees
<1>1. TypeInv /\ RingInv /\ EndInv => DestroyFrees
  BY DEF EndInv, StartedInv, Counted, DestroyFrees, StartedIsExact
<1> QED BY <1>1, AlwaysEndInv, PTL

\* Once all workers are joined after a graceful shutdown, nothing is pending and
\* what was taken has run.
LEMMA DrainedWhenFreed == TypeInv /\ RingInv /\ EndInv => GracefulDrains
<1> SUFFICES ASSUME TypeInv, RingInv, EndInv, pool = "freed", shutdown = Graceful, NEW k \in Range(accepted)
             PROVE  k \in finished
  BY DEF GracefulDrains
<1>1. PICK d \in Callers : pc[d] = "destroyed"
  BY DEF EndInv, ControlInv, JoinInv
<1>2. thread_count = ThreadCount /\ \A w \in Workers : pc[w] = "exited"
  BY <1>1, SizesAreNumbers DEF EndInv, ControlInv, JoinInv, CloseInv, PlaceInv, Workers
<1>3. count = 0
  BY <1>2, SizesAreNumbers DEF EndInv, ControlInv, CloseInv, Workers
<1>4. PICK i \in 1 .. Len(accepted) : k = accepted[i]
  BY DEF Range, TypeInv, TypeOK
<1>5. i \in 1 .. Len(taken) /\ taken[i] = k
  BY <1>3, <1>4 DEF RingInv, TypeInv, TypeOK
<1> QED BY <1>2, <1>5 DEF EndInv, TakenInv

\* A graceful threadpool_destroy runs every accepted task before it frees the pool.
THEOREM DrainCorrect == Spec => []GracefulDrains
BY DrainedWhenFreed, AlwaysEndInv, PTL

-----------------------------------------------------------------------------
(* One thread that destroys, as work.c has it *)

\* A thread that destroys is the only one that does, and is one that may.
OneCloser ==
  /\ \A d \in Callers : published /\ pc[d] \in DestroyStates \cup Returned => d \in Destroyers
  /\ \A d, e \in Callers :
       pc[d] \in DestroyStates \cup Returned /\ pc[e] \in DestroyStates \cup Returned => d = e

\* Every step keeps it that one thread at most is inside threadpool_destroy.
LEMMA OneCloserStep ==
  ASSUME \A d, e \in Destroyers : d = e, TypeInv, ControlInv, OneCloser, [Next]_vars
  PROVE  OneCloser'
<1> DEFINE Closers == {d \in Callers : pc[d] \in DestroyStates \cup Returned}
<1> USE ThreadKinds, NamesAssumption DEF Goto
<1>1. ASSUME published' = published, \A c \in Callers : c \in Closers' => c \in Closers
      PROVE  OneCloser'
  BY <1>1 DEF OneCloser
<1>2. CASE Create /\ ~CreateReturns /\ ~StartFails
  <2>1. published' = published
    BY <1>2 DEF Create, StartWorker, CountRead, CountWrite
  <2>2. \A c \in Callers : c # Creator => pc'[c] = pc[c]
    BY <1>2, NewWorker DEF Create, StartWorker, CountRead, CountWrite, TypeInv, TypeOK
  <2>3. pc'[Creator] \notin DestroyStates \cup Returned
    BY <1>2
       DEF Create, StartWorker, CountRead, CountWrite, TypeInv, TypeOK, DestroyStates, Returned
  <2> QED BY <1>1, <2>1, <2>2, <2>3
<1>3. CASE CreateReturns \/ StartFails
  <2>1. pc[Creator] = "create" /\ \A c \in Callers : c # Creator => pc'[c] = pc[c]
    BY <1>3 DEF CreateReturns, StartFails, TypeInv, TypeOK
  <2>2. ~published /\ \A c \in Callers : c # Creator => pc'[c] = "idle"
    BY <2>1 DEF ControlInv, PlaceInv, Creating, CreateStates
  <2>3. CreateReturns => pc'[Creator] = "idle"
    BY DEF CreateReturns, TypeInv, TypeOK
  <2>4. StartFails => ~published'
    BY <2>2 DEF StartFails
  <2> QED BY <1>3, <2>2, <2>3, <2>4 DEF OneCloser, DestroyStates, Returned
<1>4. ASSUME NEW t \in Threads, Acquire(t) \/ AddRefuse(t) PROVE OneCloser'
  <2>1. \A c \in Callers : c \in Closers' => c \in Closers
    BY <1>4, SMTT(30)
       DEF Acquire, Holding, AddRefuse, AfterAdd, TypeInv, TypeOK, DestroyStates, Returned
  <2>2. published' = published
    BY <1>4 DEF Acquire, AddRefuse
  <2> QED BY <1>1, <2>1, <2>2
<1>5. ASSUME NEW t \in Threads, AddAccept(t) PROVE OneCloser'
  <2>1. \A c \in Callers : c \in Closers' => c \in Closers
    BY <1>5, AcceptMoves DEF DestroyStates, Returned
  <2>2. published' = published
    BY <1>5 DEF AddAccept
  <2> QED BY <1>1, <2>1, <2>2
<1>6. ASSUME NEW w \in Workers, WorkerStep(w) PROVE OneCloser'
  <2>1. published' = published /\ \A c \in Callers : pc'[c] = pc[c]
    BY <1>6
       DEF WorkerStep, Sleep, SpuriousWakeup, Take, Finish, ExitCount, ExitUnlock,
           CallAddFromTask, TypeInv, TypeOK
  <2> QED BY <1>1, <2>1
<1>7. ASSUME NEW c \in Callers, CallerStep(c) \/ DestroyerStep(c) PROVE OneCloser'
  <2>1. \A d \in Callers : d \in Closers' => d \in Closers
    BY <1>7, SMTT(30)
       DEF CallerStep, CallAdd, DestroyerStep, Destroy, Broadcast, DestroyAgain, Join, FreeCheck, Free,
           TypeInv, TypeOK, DestroyStates, Returned
  <2>2. published' = published
    BY <1>7 DEF CallerStep, CallAdd, DestroyerStep, Destroy, DestroyAgain, Join, FreeCheck, Free
  <2> QED BY <1>1, <2>1, <2>2
<1>8. ASSUME NEW d \in Destroyers, NEW kind, CallDestroy(d, kind) PROVE OneCloser'
  <2>1. /\ published /\ published' = published /\ pc[d] = "idle"
        /\ \A c \in Callers : c # d => pc'[c] = pc[c]
    BY <1>8 DEF CallDestroy, TypeInv, TypeOK
  <2>2. \A c \in Callers : pc[c] \notin DestroyStates \cup Returned
    BY <2>1 DEF OneCloser, DestroyStates, Returned
  <2> QED BY <2>1, <2>2 DEF OneCloser
<1>9. CASE UNCHANGED vars
  BY <1>1, <1>9 DEF vars
<1> QED BY <1>2, <1>3, <1>4, <1>5, <1>6, <1>7, <1>8, <1>9 DEF Next, Create, AddStep, Done

\* When the pool is freed nobody uses it any more, workers inside tasks and callers
\* inside threadpool_add included.
LEMMA UnusedWhenFreed == TypeInv /\ ControlInv /\ OneCloser => NoUseAfterFree
<1> SUFFICES ASSUME TypeInv, ControlInv, OneCloser, pool = "freed"
             PROVE  /\ \A w \in Workers : pc[w] \in {"none", "exited"}
                    /\ \A c \in Callers : pc[c] \in {"idle"} \cup Returned
  BY DEF NoUseAfterFree
<1>1. PICK d \in Callers : pc[d] = "destroyed"
  BY DEF ControlInv, JoinInv
<1>2. \A w \in Workers : w <= thread_count => pc[w] = "exited"
  BY <1>1, SizesAreNumbers DEF ControlInv, JoinInv, Workers, TypeInv, TypeOK
<1>3. thread_count \in Int /\ \A w \in Workers : w \in Int
  BY SizesAreNumbers DEF TypeInv, TypeOK, Workers
<1>4. \A w \in Workers : w > thread_count => pc[w] = "none"
  <2>1. pc[d] \in Closing
    BY <1>1 DEF Closing
  <2>2. ~Creating
    BY <2>1 DEF ControlInv, JoinInv
  <2>3. pc[Creator] # "count"
    BY <2>2 DEF Creating, CreateStates
  <2> QED BY <1>3, <2>3 DEF ControlInv, PlaceInv
<1>5. \A c \in Callers : pc[c] \in {"idle"} \cup Returned
  BY <1>1 DEF ControlInv, CloseInv, OneCloser, Returned
<1> QED BY <1>2, <1>3, <1>4, <1>5

\* No thread uses the pool after threadpool_destroy has freed it, if one thread at
\* most destroys it: work_global_cleanup is the only caller outside threadpool_create.
THEOREM FreeCorrect ==
  ASSUME \A d, e \in Destroyers : d = e
  PROVE  Spec => []NoUseAfterFree
<1>1. Init => OneCloser
  BY NamesAssumption DEF Init, OneCloser, DestroyStates, Returned, Threads
<1>2. OneCloser /\ (TypeInv /\ RingInv /\ EndInv) /\ [Next]_vars => OneCloser'
  BY OneCloserStep DEF EndInv
<1>3. OneCloser /\ (TypeInv /\ RingInv /\ EndInv) => NoUseAfterFree
  BY UnusedWhenFreed DEF EndInv
<1> QED BY <1>1, <1>2, <1>3, AlwaysEndInv, PTL DEF Spec

-----------------------------------------------------------------------------
(***************************************************************************)
(* The pool implements the queue of TaskPool: each of its steps is a step  *)
(* of TaskPool or changes nothing that TaskPool sees.                      *)
(***************************************************************************)
(* Every attempt to submit has a name of its own *)

\* Where a thread is inside threadpool_add.
Adding == {"add_lock", "add"}

\* No two attempts have one name, so no task is accepted, runs or ends twice.
NamesInv ==
  /\ \A t, u \in Threads :
       pc[t] \in Adding /\ pc[u] \in Adding /\ Submitted(t) = Submitted(u) => t = u
  /\ \A t \in Threads : pc[t] \in Adding =>
       \A i \in 1 .. Len(accepted) : accepted[i] # Submitted(t)
  /\ \A i, j \in 1 .. Len(accepted) : accepted[i] = accepted[j] => i = j
  /\ \A w \in Workers : pc[w] \in InTask =>
       arg[w] \notin finished /\ \E i \in 1 .. Len(taken) : taken[i] = arg[w]
  /\ \A v, w \in Workers :
       pc[v] \in InTask /\ pc[w] \in InTask /\ arg[v] = arg[w] => v = w
  /\ \A k \in finished : \E i \in 1 .. Len(taken) : taken[i] = k

\* Steps that submit, accept, take and end nothing
NamesSame ==
  /\ UNCHANGED <<accepted, taken, finished>>
  /\ \A t \in Threads : pc'[t] \in Adding =>
       pc[t] \in Adding /\ Submitted(t)' = Submitted(t)
  /\ \A w \in Workers : pc'[w] \in InTask => pc[w] \in InTask /\ arg'[w] = arg[w]

\* keep the names apart.
LEMMA NamesSameStep == NamesInv /\ NamesSame => NamesInv'
<1> SUFFICES ASSUME NamesInv, NamesSame PROVE NamesInv'
  OBVIOUS
<1>1. accepted' = accepted /\ taken' = taken /\ finished' = finished
  BY DEF NamesSame
<1>2. \A t \in Threads : pc'[t] \in Adding =>
        pc[t] \in Adding /\ Submitted(t)' = Submitted(t)
  BY DEF NamesSame
<1>3. \A w \in Workers : pc'[w] \in InTask => pc[w] \in InTask /\ arg'[w] = arg[w]
  BY DEF NamesSame
<1>4. \A t, u \in Threads :
        pc'[t] \in Adding /\ pc'[u] \in Adding /\ Submitted(t)' = Submitted(u)' => t = u
  BY <1>2 DEF NamesInv
<1>5. \A t \in Threads : pc'[t] \in Adding =>
        \A i \in 1 .. Len(accepted) : accepted[i] # Submitted(t)'
  BY <1>2 DEF NamesInv
<1>6. \A w \in Workers : pc'[w] \in InTask =>
        arg'[w] \notin finished /\ \E i \in 1 .. Len(taken) : taken[i] = arg'[w]
  BY <1>3 DEF NamesInv
<1>7. \A v, w \in Workers :
        pc'[v] \in InTask /\ pc'[w] \in InTask /\ arg'[v] = arg'[w] => v = w
  BY <1>3 DEF NamesInv
<1> QED BY <1>1, <1>4, <1>5, <1>6, <1>7 DEF NamesInv

\* A new attempt has a name that nobody uses.
LEMMA NamesFresh ==
  ASSUME TypeInv, NamesInv, NEW t \in Threads, NEW k \in Tasks, Fresh(k),
         pc'[t] = "add_lock", Submitted(t)' = k,
         \A u \in Threads \ {t} : pc'[u] = pc[u] /\ Submitted(u)' = Submitted(u),
         \A w \in Workers : pc'[w] \in InTask => pc[w] \in InTask /\ arg'[w] = arg[w],
         UNCHANGED <<accepted, taken, finished>>
  PROVE  NamesInv'
<1>1. /\ \A i \in 1 .. Len(accepted) : accepted[i] # k
      /\ \A u \in Threads : Submitted(u) # k
  BY DEF Fresh, Submitted, Range, TypeInv, TypeOK
<1>2. \A v, u \in Threads :
        pc'[v] \in Adding /\ pc'[u] \in Adding /\ Submitted(v)' = Submitted(u)' => v = u
  BY <1>1 DEF NamesInv
<1>3. \A u \in Threads : pc'[u] \in Adding =>
        \A i \in 1 .. Len(accepted) : accepted[i] # Submitted(u)'
  BY <1>1 DEF NamesInv
<1>4. \A w \in Workers : pc'[w] \in InTask =>
        arg'[w] \notin finished /\ \E i \in 1 .. Len(taken) : taken[i] = arg'[w]
  BY DEF NamesInv
<1>5. \A v, w \in Workers :
        pc'[v] \in InTask /\ pc'[w] \in InTask /\ arg'[v] = arg'[w] => v = w
  BY DEF NamesInv
<1>6. accepted' = accepted /\ taken' = taken /\ finished' = finished
  OBVIOUS
<1> QED BY <1>2, <1>3, <1>4, <1>5, <1>6 DEF NamesInv

\* The accepted task has no other task's name.
LEMMA NamesAccept ==
  ASSUME TypeInv, NamesInv, NEW t \in Threads, AddAccept(t)
  PROVE  NamesInv'
<1> DEFINE k == Submitted(t)
<1>1. /\ pc[t] = "add" /\ accepted' = Append(accepted, k)
      /\ taken' = taken /\ finished' = finished
      /\ k \in Tasks /\ accepted \in Seq(Tasks)
  BY DEF AddAccept, TypeInv, TypeOK, CallInv
<1>2. /\ \A u \in Threads : u # t => Submitted(u)' = Submitted(u)
      /\ \A w \in Workers : arg'[w] = arg[w]
  BY AddReturnsClears DEF AddAccept, TypeInv
<1>3. /\ pc'[t] \notin Adding /\ (t \in Workers => pc[t] \in InTask)
      /\ \A u \in Threads \ {t} : pc'[u] = pc[u] \/ (pc'[u] = "woken")
  BY <1>1, AcceptMoves DEF Adding, InTask
<1> HIDE DEF k
<1>4. /\ Len(accepted') = Len(accepted) + 1 /\ Len(accepted) \in Nat
      /\ accepted'[Len(accepted) + 1] = k
      /\ \A i \in 1 .. Len(accepted) : accepted'[i] = accepted[i]
  BY <1>1
<1>5. \A u \in Threads : pc'[u] \in Adding =>
        u # t /\ pc[u] \in Adding /\ Submitted(u)' = Submitted(u)
  BY <1>2, <1>3 DEF Adding
<1>6. \A w \in Workers : pc'[w] \in InTask => pc[w] \in InTask /\ arg'[w] = arg[w]
  BY <1>2, <1>3, ThreadKinds DEF InTask
<1>7. /\ \A i \in 1 .. Len(accepted) : accepted[i] # k
      /\ \A u \in Threads : pc[u] \in Adding /\ u # t => Submitted(u) # k
  BY <1>1 DEF NamesInv, Adding, k
<1>8. \A v, u \in Threads :
        pc'[v] \in Adding /\ pc'[u] \in Adding /\ Submitted(v)' = Submitted(u)' => v = u
  BY <1>5 DEF NamesInv
<1>9. \A u \in Threads : pc'[u] \in Adding =>
        \A i \in 1 .. Len(accepted') : accepted'[i] # Submitted(u)'
  BY <1>4, <1>5, <1>7 DEF NamesInv
<1>10. \A i, j \in 1 .. Len(accepted') : accepted'[i] = accepted'[j] => i = j
  BY <1>4, <1>7 DEF NamesInv
<1>11. \A w \in Workers : pc'[w] \in InTask =>
         arg'[w] \notin finished /\ \E i \in 1 .. Len(taken) : taken[i] = arg'[w]
  BY <1>6 DEF NamesInv
<1>12. \A v, w \in Workers :
         pc'[v] \in InTask /\ pc'[w] \in InTask /\ arg'[v] = arg'[w] => v = w
  BY <1>6 DEF NamesInv
<1> QED BY <1>1, <1>8, <1>9, <1>10, <1>11, <1>12 DEF NamesInv

\* The slot at head holds the first accepted task that is not taken.
LEMMA HeadIsNext ==
  ASSUME TypeInv, RingInv, count > 0
  PROVE  /\ Len(taken) + 1 \in 1 .. Len(accepted)
         /\ queue[head] = accepted[Len(taken) + 1]
         /\ queue[head] \in Tasks
<1> DEFINE n == Len(taken)
<1>1. /\ n \in Nat /\ count \in Nat /\ Len(accepted) \in Nat /\ accepted \in Seq(Tasks)
      /\ Len(accepted) = n + count /\ head = n % QueueSize
      /\ \A i \in n + 1 .. Len(accepted) : queue[(i - 1) % QueueSize] = accepted[i]
  BY DEF TypeInv, TypeOK, RingInv
<1> HIDE DEF n
<1>2. n + 1 \in n + 1 .. Len(accepted) /\ n + 1 \in 1 .. Len(accepted) /\ (n + 1) - 1 = n
  BY <1>1
<1>3. queue[((n + 1) - 1) % QueueSize] = accepted[n + 1]
  BY <1>1, <1>2
<1>4. accepted[n + 1] \in Tasks
  BY <1>1, <1>2
<1> QED BY <1>1, <1>2, <1>3, <1>4 DEF n

\* The task a worker takes runs nowhere else and has not run before.
LEMMA NamesTake ==
  ASSUME TypeInv, RingInv, NamesInv, NEW w \in Workers, Take(w)
  PROVE  NamesInv'
<1> DEFINE n == Len(taken)
           k == queue[head]
<1>1. /\ pc[w] = "check" /\ count > 0 /\ taken' = Append(taken, k)
      /\ accepted' = accepted /\ finished' = finished
      /\ arg' = [arg EXCEPT ![w] = k] /\ pc' = [pc EXCEPT ![w] = "run"] /\ inner' = inner
  BY DEF Take, MustExit, Goto, TypeInv, TypeOK
<1>2. n + 1 \in 1 .. Len(accepted) /\ k = accepted[n + 1] /\ k \in Tasks
  BY <1>1, HeadIsNext
<1>3. /\ taken \in Seq(Tasks \cup {NoTask}) /\ n \in Nat
      /\ pc \in [Threads -> Wheres] /\ arg \in [Threads -> Tasks \cup {NoTask}]
  BY DEF TypeInv, TypeOK
<1>4. /\ \A i \in 1 .. n : taken[i] = accepted[i]
      /\ Len(accepted) \in Nat
  BY DEF RingInv, TypeInv, TypeOK
<1> HIDE DEF k
<1>5. /\ Len(taken') = n + 1 /\ taken'[n + 1] = k
      /\ \A i \in 1 .. n : taken'[i] = taken[i]
  BY <1>1, <1>2, <1>3
<1> HIDE DEF n
<1>6. \A i \in 1 .. n : taken[i] # k
  BY <1>2, <1>3, <1>4 DEF NamesInv
<1>7. /\ k \notin finished
      /\ \A v \in Workers : pc[v] \in InTask => arg[v] # k
  BY <1>6 DEF NamesInv, n
<1>8. /\ pc'[w] = "run" /\ arg'[w] = k
      /\ \A u \in Threads : u # w => pc'[u] = pc[u] /\ arg'[u] = arg[u]
  BY <1>1, <1>3, ThreadKinds
<1>9. \A u \in Threads : pc'[u] \in Adding => pc[u] \in Adding /\ Submitted(u)' = Submitted(u)
  BY <1>1, <1>8 DEF Adding, Submitted
<1>10. \A v \in Workers : v # w => pc'[v] = pc[v] /\ arg'[v] = arg[v]
  BY <1>8, ThreadKinds
<1>11. \A t, u \in Threads :
         pc'[t] \in Adding /\ pc'[u] \in Adding /\ Submitted(t)' = Submitted(u)' => t = u
  BY <1>9 DEF NamesInv
<1>12. \A t \in Threads : pc'[t] \in Adding =>
         \A i \in 1 .. Len(accepted) : accepted[i] # Submitted(t)'
  BY <1>9 DEF NamesInv
<1>13. ASSUME NEW v \in Workers, pc'[v] \in InTask
       PROVE  arg'[v] \notin finished /\ \E i \in 1 .. Len(taken') : taken'[i] = arg'[v]
  <2>1. CASE v = w
    BY <2>1, <1>3, <1>5, <1>7, <1>8
  <2>2. CASE v # w
    <3>1. arg[v] \notin finished /\ \E i \in 1 .. n : taken[i] = arg[v]
      BY <2>2, <1>10, <1>13 DEF NamesInv, n
    <3> QED BY <3>1, <2>2, <1>3, <1>5, <1>10
  <2> QED BY <2>1, <2>2
<1>14. \A v, u \in Workers :
         pc'[v] \in InTask /\ pc'[u] \in InTask /\ arg'[v] = arg'[u] => v = u
  BY <1>7, <1>8, <1>10 DEF NamesInv
<1>15. \A j \in finished : \E i \in 1 .. Len(taken') : taken'[i] = j
  <2> SUFFICES ASSUME NEW j \in finished PROVE \E i \in 1 .. Len(taken') : taken'[i] = j
    OBVIOUS
  <2>1. PICK i \in 1 .. n : taken[i] = j
    BY DEF NamesInv, n
  <2> QED BY <2>1, <1>3, <1>5
<1>16. \A i, j \in 1 .. Len(accepted) : accepted[i] = accepted[j] => i = j
  BY DEF NamesInv
<1> QED BY <1>1, <1>11, <1>12, <1>13, <1>14, <1>15, <1>16 DEF NamesInv

\* The task that ends does not run any more.
LEMMA NamesFinish ==
  ASSUME TypeInv, NamesInv, NEW w \in Workers, Finish(w)
  PROVE  NamesInv'
<1>1. /\ pc[w] = "run" /\ finished' = finished \cup {arg[w]}
      /\ accepted' = accepted /\ taken' = taken /\ inner' = inner
      /\ \A u \in Threads : u # w => pc'[u] = pc[u] /\ arg'[u] = arg[u]
      /\ pc'[w] = "lock"
  BY ThreadKinds DEF Finish, Goto, TypeInv, TypeOK
<1>2. \A u \in Threads : pc'[u] \in Adding => pc[u] \in Adding /\ Submitted(u)' = Submitted(u)
  BY <1>1 DEF Adding, Submitted
<1>3. \A v \in Workers : pc'[v] \in InTask => v # w /\ pc[v] \in InTask /\ arg'[v] = arg[v]
  BY <1>1, ThreadKinds DEF InTask
<1>4. pc[w] \in InTask
  BY <1>1 DEF InTask
<1>5. \A t, u \in Threads :
        pc'[t] \in Adding /\ pc'[u] \in Adding /\ Submitted(t)' = Submitted(u)' => t = u
  BY <1>2 DEF NamesInv
<1>6. \A t \in Threads : pc'[t] \in Adding =>
        \A i \in 1 .. Len(accepted) : accepted[i] # Submitted(t)'
  BY <1>2 DEF NamesInv
<1>7. \A v \in Workers : pc'[v] \in InTask =>
        arg'[v] \notin finished' /\ \E i \in 1 .. Len(taken) : taken[i] = arg'[v]
  BY <1>1, <1>3, <1>4 DEF NamesInv
<1>8. \A v, u \in Workers :
        pc'[v] \in InTask /\ pc'[u] \in InTask /\ arg'[v] = arg'[u] => v = u
  BY <1>3 DEF NamesInv
<1>9. \A k \in finished' : \E i \in 1 .. Len(taken) : taken[i] = k
  BY <1>1, <1>4 DEF NamesInv
<1>10. \A i, j \in 1 .. Len(accepted) : accepted[i] = accepted[j] => i = j
  BY DEF NamesInv
<1> QED BY <1>1, <1>5, <1>6, <1>7, <1>8, <1>9, <1>10 DEF NamesInv

\* No names are used at first,
LEMMA NamesInit == Init => NamesInv
BY ThreadKinds, NamesAssumption DEF Init, NamesInv, Adding, InTask

\* and no step uses one twice.
LEMMA NamesStep == TypeInv /\ RingInv /\ NamesInv /\ [Next]_vars => NamesInv'
<1> SUFFICES ASSUME TypeInv, RingInv, NamesInv, [Next]_vars PROVE NamesInv'
  OBVIOUS
<1> USE ThreadKinds, NamesAssumption
<1>1. ASSUME Create PROVE NamesSame
  <2>1. CASE StartWorker
    <3>1. thread_count + 1 \in Workers
      BY <2>1, NewWorker
    <3> QED BY <2>1, <3>1, SMTT(30)
         DEF StartWorker, NamesSame, Adding, InTask, Submitted, history, TypeInv, TypeOK
  <2>2. CASE CountRead \/ CountWrite \/ StartFails \/ CreateReturns
    BY <2>2, SMTT(30)
       DEF CountRead, CountWrite, StartFails, CreateReturns, Goto, NamesSame, Adding,
           InTask, Submitted, history, TypeInv, TypeOK
  <2> QED BY <1>1, <2>1, <2>2 DEF Create
<1>2. ASSUME NEW t \in Threads, Acquire(t) PROVE NamesSame
  BY <1>2, SMTT(30)
     DEF Acquire, Holding, Goto, NamesSame, Adding, InTask, Submitted, history, TypeInv, TypeOK
<1>3. ASSUME NEW t \in Threads, AddRefuse(t) PROVE NamesSame
  <2>1. /\ pc[t] = "add" /\ pc'[t] \notin Adding
        /\ \A u \in Threads : u # t => pc'[u] = pc[u]
        /\ UNCHANGED <<accepted, taken, finished>>
    BY <1>3 DEF AddRefuse, AfterAdd, Goto, Adding, TypeInv, TypeOK
  <2>2. /\ \A u \in Threads : u # t => Submitted(u)' = Submitted(u)
        /\ \A w \in Workers : arg'[w] = arg[w]
    BY <1>3, AddReturnsClears DEF AddRefuse, TypeInv
  <2> QED BY <2>1, <2>2 DEF NamesSame, InTask
<1>4. ASSUME NEW c \in Callers, NEW k \in Tasks, CallAdd(c, k) PROVE NamesInv'
  <2>1. /\ Fresh(k) /\ pc'[c] = "add_lock" /\ Submitted(c)' = k
        /\ \A u \in Threads \ {c} : pc'[u] = pc[u] /\ Submitted(u)' = Submitted(u)
        /\ \A w \in Workers : pc'[w] = pc[w] /\ arg'[w] = arg[w]
        /\ UNCHANGED <<accepted, taken, finished>>
    BY <1>4 DEF CallAdd, Goto, Submitted, history, TypeInv, TypeOK
  <2> QED BY <2>1, NamesFresh
<1>5. ASSUME NEW w \in Workers, NEW k \in Tasks, CallAddFromTask(w, k) PROVE NamesInv'
  <2>1. /\ Fresh(k) /\ pc'[w] = "add_lock" /\ Submitted(w)' = k /\ pc[w] = "run"
        /\ \A u \in Threads \ {w} : pc'[u] = pc[u] /\ Submitted(u)' = Submitted(u)
        /\ arg' = arg /\ UNCHANGED <<accepted, taken, finished>>
    BY <1>5 DEF CallAddFromTask, Goto, Submitted, history, TypeInv, TypeOK
  <2>2. \A v \in Workers : pc'[v] \in InTask => pc[v] \in InTask /\ arg'[v] = arg[v]
    BY <2>1 DEF InTask
  <2> QED BY <2>1, <2>2, NamesFresh
<1>6. ASSUME NEW w \in Workers, Sleep(w) \/ SpuriousWakeup(w) \/ ExitCount(w) \/ ExitUnlock(w)
      PROVE  NamesSame
  BY <1>6, SMTT(30)
     DEF Sleep, SpuriousWakeup, ExitCount, ExitUnlock, Goto, NamesSame, Adding, InTask,
         Submitted, history, TypeInv, TypeOK
<1>7. ASSUME NEW d \in Callers, DestroyerStep(d) PROVE NamesSame
  <2>1. CASE Destroy(d)
    BY <2>1, SMTT(30)
       DEF Destroy, NamesSame, Adding, InTask, Submitted, history, TypeInv, TypeOK
  <2>2. CASE DestroyAgain(d) \/ Join(d) \/ FreeCheck(d) \/ Free(d)
    BY <2>2, SMTT(30)
       DEF DestroyAgain, Join, FreeCheck, Free, Goto, NamesSame, Adding, InTask,
           Submitted, history, TypeInv, TypeOK
  <2> QED BY <1>7, <2>1, <2>2 DEF DestroyerStep
<1>8. ASSUME NEW d \in Destroyers, NEW kind \in {Immediate, Graceful}, CallDestroy(d, kind)
      PROVE  NamesSame
  BY <1>8, SMTT(30)
     DEF CallDestroy, Goto, NamesSame, Adding, InTask, Submitted, history, TypeInv, TypeOK
<1>9. ASSUME UNCHANGED vars PROVE NamesSame
  BY <1>9 DEF vars, history, NamesSame, Submitted
<1> QED
  BY <1>1, <1>2, <1>3, <1>4, <1>5, <1>6, <1>7, <1>8, <1>9, NamesSameStep, NamesAccept,
     NamesTake, NamesFinish
     DEF Next, AddStep, WorkerStep, CallerStep, Done

-----------------------------------------------------------------------------
(* What TaskPool sees *)

\* Abstract!running and Abstract!phase.
RunningNow == {arg[w] : w \in {v \in Workers : pc[v] \in InTask}}

Phase ==
  IF pool = "freed" THEN "gone"
  ELSE IF shutdown = Running THEN "open"
  ELSE IF shutdown = Graceful THEN "draining" ELSE "cancelled"

\* Steps that leave the workers with their tasks leave the running set alone.
LEMMA RunningSame ==
  ASSUME \A w \in Workers : pc'[w] \in InTask <=> pc[w] \in InTask,
         \A w \in Workers : pc[w] \in InTask => arg'[w] = arg[w]
  PROVE  RunningNow' = RunningNow
BY DEF RunningNow

\* What runs and what has run was accepted, and is not pending.
LEMMA RunningWasTaken ==
  ASSUME TypeInv, RingInv, NamesInv, NEW k \in RunningNow \cup finished
  PROVE  \E i \in 1 .. Len(taken) : taken[i] = k /\ accepted[i] = k /\ i \in 1 .. Len(accepted)
<1>1. PICK i \in 1 .. Len(taken) : taken[i] = k
  BY DEF NamesInv, RunningNow
<1>2. i \in 1 .. Len(accepted) /\ accepted[i] = k
  BY <1>1 DEF RingInv, TypeInv, TypeOK
<1> QED BY <1>1, <1>2

\* While a thread is inside the pool, it is not freed.
LEMMA UsedIsLive ==
  ASSUME TypeInv, ControlInv,
         \/ \E w \in Workers : pc[w] \notin {"none", "exited"}
         \/ \E c \in Callers : pc[c] \in Adding \cup {"free"}
  PROVE  pool = "live"
<1> SUFFICES ASSUME pool = "freed" PROVE FALSE
  BY DEF TypeInv, TypeOK
<1>1. PICK d \in Callers : pc[d] = "destroyed"
  BY DEF ControlInv, JoinInv
<1>2. \A c \in Callers : pc[c] \notin Adding
  BY <1>1 DEF ControlInv, CloseInv, Returned, DestroyStates, Adding
<1>3. \A c \in Callers : pc[c] # "free"
  BY <1>1 DEF ControlInv, CloseInv, Closing
<1>4. thread_count \in Int /\ \A w \in Workers : w \in Int
  BY SizesAreNumbers DEF TypeInv, TypeOK, Workers
<1>5. \A w \in Workers : w <= thread_count => pc[w] = "exited"
  BY <1>1, <1>4, SizesAreNumbers DEF ControlInv, JoinInv, Workers
<1>6. pc[Creator] # "count"
  BY <1>1 DEF ControlInv, JoinInv, Closing, Creating, CreateStates
<1>7. \A w \in Workers : w > thread_count => pc[w] = "none"
  BY <1>4, <1>6 DEF ControlInv, PlaceInv
<1> QED BY <1>2, <1>3, <1>4, <1>5, <1>7

-----------------------------------------------------------------------------
(* The steps of TaskPool *)

\* An accepted threadpool_add is a Submit,
LEMMA AcceptIsSubmit ==
  ASSUME TypeInv, TypeInv', RingInv, RingInv', ControlInv, NamesInv,
         NEW t \in Threads, AddAccept(t)
  PROVE  \E k \in Tasks : Abstract!Submit(k)
<1> DEFINE k == Submitted(t)
<1>1. /\ pc[t] = "add" /\ k \in Tasks /\ accepted \in Seq(Tasks)
      /\ shutdown = Running /\ shutdown' = shutdown /\ pool' = pool
      /\ accepted' = Append(accepted, k) /\ taken' = taken /\ finished' = finished
      /\ count < QueueSize /\ count \in Nat /\ count' = count + 1
  BY SizesAreNumbers DEF AddAccept, Open, Full, TypeInv, TypeOK, CallInv
<1>2. pool = "live"
  BY <1>1, UsedIsLive, ThreadKinds DEF Threads, Adding
<1>3. \A i \in 1 .. Len(accepted) : accepted[i] # k
  BY <1>1 DEF NamesInv, Adding
<1> HIDE DEF k
<1>4. k \notin RunningNow \cup finished
  BY <1>3, RunningWasTaken
<1>5. /\ Contents \in Seq(Tasks) /\ Len(Contents) = count
      /\ \A i \in 1 .. count : Contents[i] = accepted[Len(taken) + i]
      /\ Len(accepted) = Len(taken) + count /\ Len(taken) \in Nat
  <2>1. Len(accepted) = Len(taken) + count /\ Len(taken) \in Nat
    BY DEF RingInv, TypeInv, TypeOK
  <2> QED BY <2>1, ContentsAre DEF ContentsFollow
<1>6. /\ \A i \in 1 .. count : Len(taken) + i \in 1 .. Len(accepted)
      /\ Len(taken) + (count + 1) = Len(accepted) + 1
      /\ \A i \in 1 .. Len(accepted) : accepted'[i] = accepted[i]
      /\ accepted'[Len(accepted) + 1] = k
  BY <1>1, <1>5
<1>7. Contents' = Append(Contents, k)
  <2>1. /\ Contents' \in Seq(Tasks) /\ Len(Contents') = count + 1
        /\ \A i \in 1 .. count + 1 : Contents'[i] = accepted'[Len(taken) + i]
    <3>1. ContentsFollow'
      BY ContentsAre, PTL
    <3> QED BY <3>1, <1>1 DEF ContentsFollow
  <2>2. \A i \in 1 .. count : accepted'[Len(taken) + i] = accepted[Len(taken) + i]
    BY <1>6
  <2>3. accepted'[Len(taken) + (count + 1)] = k
    BY <1>6
  <2>4. /\ Append(Contents, k) \in Seq(Tasks) /\ Len(Append(Contents, k)) = count + 1
        /\ Append(Contents, k)[count + 1] = k
        /\ \A i \in 1 .. count : Append(Contents, k)[i] = Contents[i]
    BY <1>1, <1>5
  <2>5. \A i \in 1 .. count + 1 : Contents'[i] = Append(Contents, k)[i]
    <3> SUFFICES ASSUME NEW i \in 1 .. count + 1 PROVE Contents'[i] = Append(Contents, k)[i]
      OBVIOUS
    <3>1. CASE i = count + 1
      BY <3>1, <2>1, <2>3, <2>4, <1>1
    <3>2. CASE i # count + 1
      <4>1. i \in 1 .. count
        BY <3>2, <1>1
      <4> QED BY <4>1, <2>1, <2>2, <2>4, <1>5
    <3> QED BY <3>1, <3>2
  <2> QED BY <2>1, <2>4, <2>5
<1>8. RunningNow' = RunningNow
  <2>1. \A w \in Workers : arg'[w] = arg[w]
    BY AddReturnsClears DEF AddAccept, TypeInv
  <2>2. \A w \in Workers : pc'[w] \in InTask <=> pc[w] \in InTask
    BY <1>1, AcceptMoves, ThreadKinds DEF InTask
  <2> QED BY <2>1, <2>2, RunningSame
<1>9. \A i \in 1 .. Len(Contents) : Contents[i] # k
  BY <1>3, <1>5, <1>6
<1> QED BY <1>1, <1>2, <1>4, <1>5, <1>7, <1>8, <1>9
     DEF Abstract!Submit, RunningNow, InTask, Phase

\* a worker that takes a task is a Start, and there is room for it,
LEMMA TakeIsStart ==
  ASSUME TypeInv, TypeInv', RingInv, RingInv', ControlInv, NamesInv,
         NEW w \in Workers, Take(w)
  PROVE  Abstract!Start
<1> DEFINE k == queue[head]
<1>1. /\ pc[w] = "check" /\ count > 0 /\ count \in Nat /\ count' = count - 1
      /\ shutdown # Immediate /\ shutdown \in {Running, Immediate, Graceful}
      /\ shutdown' = shutdown /\ pool' = pool
      /\ taken' = Append(taken, k) /\ accepted' = accepted /\ finished' = finished
      /\ arg' = [arg EXCEPT ![w] = k] /\ pc' = [pc EXCEPT ![w] = "run"]
      /\ arg \in [Threads -> Tasks \cup {NoTask}] /\ pc \in [Threads -> Wheres]
      /\ taken \in Seq(Tasks \cup {NoTask})
  BY DEF Take, MustExit, Goto, TypeInv, TypeOK
<1>2. pool = "live"
  BY <1>1, UsedIsLive
<1>3. /\ k = accepted[Len(taken) + 1] /\ k \in Tasks
  BY <1>1, HeadIsNext
<1> HIDE DEF k
<1>4. /\ Contents \in Seq(Tasks) /\ Len(Contents) = count
      /\ \A i \in 1 .. count : Contents[i] = accepted[Len(taken) + i]
      /\ Len(taken) \in Nat
  BY <1>1, ContentsAre DEF ContentsFollow
<1>5. /\ Contents' \in Seq(Tasks) /\ Len(Contents') = count - 1
      /\ \A i \in 1 .. count - 1 : Contents'[i] = accepted[Len(taken) + 1 + i]
  <2>1. Len(taken') = Len(taken) + 1
    BY <1>1, <1>3
  <2>2. ContentsFollow'
    BY ContentsAre, PTL
  <2> QED BY <2>1, <2>2, <1>1 DEF ContentsFollow
<1>6. /\ RunningNow' = RunningNow \cup {k}
  <2>1. /\ pc[w] \notin InTask /\ pc'[w] \in InTask /\ arg'[w] = k
        /\ \A v \in Workers : v # w => pc'[v] = pc[v] /\ arg'[v] = arg[v]
    BY <1>1, ThreadKinds DEF InTask
  <2> QED BY <2>1 DEF RunningNow
<1>7. Cardinality(RunningNow) < ThreadCount
  <2> DEFINE busy == {v \in Workers : pc[v] \in InTask}
             f == [v \in busy |-> arg[v]]
  <2>1. /\ IsFiniteSet(Workers) /\ Cardinality(Workers) = ThreadCount
    BY SizesAreNumbers, FS_Interval DEF Workers
  <2>2. /\ IsFiniteSet(Workers \ {w}) /\ Cardinality(Workers \ {w}) = ThreadCount - 1
    BY <2>1, FS_RemoveElement
  <2>3. busy \in SUBSET (Workers \ {w})
    BY <1>1 DEF InTask
  <2>4. IsFiniteSet(busy) /\ Cardinality(busy) <= ThreadCount - 1
    BY <2>2, <2>3, FS_Subset
  <2>5. f \in Surjection(busy, RunningNow)
    BY DEF Surjection, RunningNow
  <2>6. IsFiniteSet(RunningNow) /\ Cardinality(RunningNow) <= Cardinality(busy)
    <3> HIDE DEF busy, f
    <3> QED BY <2>4, <2>5, FS_Surjection
  <2>7. Cardinality(RunningNow) \in Nat /\ Cardinality(busy) \in Nat
    BY <2>4, <2>6, FS_CardinalityType
  <2> QED BY <2>4, <2>6, <2>7, SizesAreNumbers
<1>8. Contents # <<>> /\ Head(Contents) = k /\ Contents' = Tail(Contents)
  <2>1. Contents # <<>> /\ Head(Contents) = Contents[1] /\ Contents[1] = k
    BY <1>1, <1>3, <1>4
  <2>2. /\ Tail(Contents) \in Seq(Tasks) /\ Len(Tail(Contents)) = count - 1
        /\ \A i \in 1 .. count - 1 : Tail(Contents)[i] = Contents[i + 1]
    BY <1>1, <1>4, <2>1
  <2>3. \A i \in 1 .. count - 1 : Contents[i + 1] = accepted[Len(taken) + (i + 1)]
    BY <1>1, <1>4
  <2>4. \A i \in 1 .. count - 1 : Contents'[i] = Tail(Contents)[i]
    BY <1>1, <1>4, <1>5, <2>2, <2>3
  <2> QED BY <1>5, <2>1, <2>2, <2>4
<1> QED BY <1>1, <1>2, <1>6, <1>7, <1>8
     DEF Abstract!Start, RunningNow, InTask, Phase, Abstract!Cardinality, Cardinality

\* the return of a task's function is a Finish,
LEMMA FinishIsFinish ==
  ASSUME TypeInv, RingInv, NamesInv, NEW w \in Workers, Finish(w)
  PROVE  \E k \in Tasks : Abstract!Finish(k)
<1> DEFINE k == arg[w]
<1>1. /\ pc[w] = "run" /\ finished' = finished \cup {k}
      /\ UNCHANGED <<ring, pool, shutdown>>
      /\ pc' = [pc EXCEPT ![w] = "lock"] /\ arg' = [arg EXCEPT ![w] = NoTask]
      /\ arg \in [Threads -> Tasks \cup {NoTask}] /\ pc \in [Threads -> Wheres]
  BY DEF Finish, Goto, TypeInv, TypeOK
<1>2. k \in RunningNow
  BY <1>1 DEF RunningNow, InTask
<1>3. k \in Tasks
  <2>1. PICK i \in 1 .. Len(accepted) : accepted[i] = k
    BY <1>2, RunningWasTaken
  <2> QED BY <2>1 DEF TypeInv, TypeOK
<1>4. RunningNow' = RunningNow \ {k}
  <2>1. /\ pc[w] \in InTask /\ pc'[w] \notin InTask
        /\ \A v \in Workers : v # w => pc'[v] = pc[v] /\ arg'[v] = arg[v]
    BY <1>1, ThreadKinds DEF InTask
  <2>2. \A v \in Workers : pc[v] \in InTask /\ arg[v] = k => v = w
    BY <2>1 DEF NamesInv
  <2> HIDE DEF k
  <2>3. \A v \in Workers : pc'[v] \in InTask <=> v # w /\ pc[v] \in InTask
    BY <2>1
  <2>4. \A v \in Workers : pc'[v] \in InTask => arg'[v] = arg[v] /\ arg[v] # k
    BY <2>1, <2>2
  <2>5. \A v \in Workers : pc[v] \in InTask /\ arg[v] # k => pc'[v] \in InTask /\ arg'[v] = arg[v]
    BY <2>1 DEF k
  <2> QED BY <2>4, <2>3, <2>5 DEF RunningNow
<1> HIDE DEF k
<1>5. Contents' = Contents /\ Phase' = Phase
  BY <1>1 DEF Contents, ring, Phase
<1> QED BY <1>1, <1>2, <1>3, <1>4, <1>5
     DEF Abstract!Finish, RunningNow, InTask, Phase

\* and the destroy that sets pool->shutdown is a Close.
LEMMA DestroyIsClose ==
  ASSUME TypeInv, ControlInv, NEW d \in Callers, Destroy(d)
  PROVE  Abstract!Close
<1>1. /\ shutdown = Running /\ shutdown' \in {Immediate, Graceful}
      /\ pool' = pool /\ finished' = finished /\ UNCHANGED ring /\ arg' = arg
      /\ pc' = [t \in Threads |-> IF t = d THEN "join"
                                  ELSE IF Broadcast(t) THEN "woken" ELSE pc[t]]
  BY DEF Destroy, history, TypeInv, TypeOK
<1>2. pool # "freed"
  <2>1. \A e \in Callers : pc[e] # "destroyed"
    BY <1>1 DEF ControlInv, CloseInv, Closing
  <2> QED BY <2>1 DEF ControlInv, JoinInv
<1>3. RunningNow' = RunningNow
  <2>1. \A w \in Workers : pc'[w] \in InTask <=> pc[w] \in InTask
    BY <1>1, ThreadKinds DEF InTask, Broadcast
  <2> QED BY <1>1, <2>1, RunningSame
<1>4. Contents' = Contents
  BY <1>1 DEF Contents, ring
<1>5. Phase = "open" /\ Phase' \in {"draining", "cancelled"}
  BY <1>1, <1>2 DEF Phase, Running, Immediate, Graceful
<1> QED BY <1>1, <1>3, <1>4, <1>5 DEF Abstract!Close, RunningNow, InTask, Phase

\* threadpool_free is what makes the pool go, and nothing runs or waits then.
LEMMA FreeIsGone ==
  ASSUME TypeInv, RingInv, ControlInv, NEW d \in Callers, Free(d)
  PROVE  Abstract!Gone
<1>1. /\ pc[d] = "free" /\ pool' = "freed" /\ finished' = finished /\ UNCHANGED ring
      /\ arg' = arg /\ pc' = [pc EXCEPT ![d] = "destroyed"] /\ shutdown' = shutdown
  BY DEF Free, Goto, history
<1>2. pool = "live" /\ shutdown # Running
  BY <1>1, UsedIsLive DEF ControlInv, CloseInv, Closing
<1>3. thread_count \in 0 .. ThreadCount /\ \A w \in Workers : w \in Int
  BY DEF TypeInv, TypeOK, Workers
<1>4. \A w \in Workers : pc[w] \in {"none", "exited"}
  <2>1. \A w \in 1 .. thread_count : pc[w] = "exited"
    BY <1>1 DEF ControlInv, JoinInv
  <2>2. pc[Creator] # "count"
    BY <1>1 DEF ControlInv, JoinInv, Closing, Creating, CreateStates
  <2>3. \A w \in Workers : w > thread_count => pc[w] = "none"
    BY <2>2, <1>3 DEF ControlInv, PlaceInv
  <2>4. \A w \in Workers : w \in 1 .. thread_count \/ w > thread_count
    BY <1>3 DEF Workers
  <2> QED BY <2>1, <2>3, <2>4
<1>5. RunningNow = {} /\ RunningNow' = RunningNow
  <2>1. \A w \in Workers : pc'[w] = pc[w] /\ pc[w] \notin InTask
    BY <1>1, <1>4, ThreadKinds DEF InTask, TypeInv, TypeOK
  <2> QED BY <2>1 DEF RunningNow
<1>6. shutdown = Graceful => Contents = <<>>
  <2> SUFFICES ASSUME shutdown = Graceful PROVE Contents = <<>>
    OBVIOUS
  <2>1. thread_count = ThreadCount
    BY DEF ControlInv, CloseInv, PlaceInv
  <2>2. 1 \in Workers /\ 1 \in 1 .. thread_count
    BY <2>1, SizesAreNumbers DEF Workers
  <2>3. pc[1] = "exited"
    BY <2>2, <1>1 DEF ControlInv, JoinInv
  <2>4. count = 0
    BY <2>2, <2>3 DEF ControlInv, CloseInv
  <2>5. ContentsFollow
    BY ContentsAre
  <2> QED BY <2>4, <2>5 DEF ContentsFollow
<1>7. Contents' = Contents
  BY <1>1 DEF Contents, ring
<1>8. /\ Phase' = "gone"
      /\ (Phase = "draining" /\ Contents = <<>>) \/ Phase = "cancelled"
  BY <1>1, <1>2, <1>6 DEF Phase
<1> QED BY <1>1, <1>5, <1>7, <1>8 DEF Abstract!Gone, RunningNow, InTask, Phase

-----------------------------------------------------------------------------
(* Refinement *)

\* The other steps change nothing that TaskPool sees.
Unseen ==
  /\ UNCHANGED <<ring, finished, pool, shutdown>>
  /\ \A w \in Workers : pc'[w] \in InTask <=> pc[w] \in InTask
  /\ \A w \in Workers : pc[w] \in InTask => arg'[w] = arg[w]

LEMMA UnseenStutters ==
  ASSUME Unseen
  PROVE  UNCHANGED Abstract!vars
<1>1. RunningNow' = RunningNow
  BY RunningSame DEF Unseen
<1>2. Contents' = Contents /\ Phase' = Phase /\ finished' = finished
  BY DEF Unseen, Contents, ring, Phase
<1> QED BY <1>1, <1>2 DEF Abstract!vars, RunningNow, InTask, Phase

\* The pool begins as TaskPool does,
LEMMA RefinesInit == Init => Abstract!Init
<1> SUFFICES ASSUME Init PROVE Abstract!Init
  OBVIOUS
<1>1. Contents = <<>> /\ Phase = "open" /\ finished = {}
  BY DEF Init, Contents, Phase
<1>2. RunningNow = {}
  BY ThreadKinds, NamesAssumption DEF Init, RunningNow, InTask
<1> QED BY <1>1, <1>2 DEF Abstract!Init, RunningNow, InTask, Phase

\* and every step of it is one of TaskPool or is not seen there.
LEMMA RefinesStep ==
  ASSUME TypeInv, TypeInv', RingInv, RingInv', ControlInv, NamesInv, [Next]_vars
  PROVE  [Abstract!Next]_(Abstract!vars)
<1> USE ThreadKinds, NamesAssumption
<1>1. ASSUME Create PROVE Unseen
  <2>1. CASE StartWorker
    <3>1. thread_count + 1 \in Workers /\ pc[thread_count + 1] = "none"
      BY <2>1, NewWorker DEF StartWorker, ControlInv, PlaceInv, TypeInv, TypeOK
    <3> QED BY <2>1, <3>1, SMTT(30)
         DEF StartWorker, Unseen, InTask, history, TypeInv, TypeOK
  <2>2. CASE CountRead \/ CountWrite \/ StartFails \/ CreateReturns
    BY <2>2, SMTT(30)
       DEF CountRead, CountWrite, StartFails, CreateReturns, Goto, Unseen, InTask,
           history, TypeInv, TypeOK
  <2> QED BY <1>1, <2>1, <2>2 DEF Create
<1>2. ASSUME NEW t \in Threads, Acquire(t) PROVE Unseen
  BY <1>2, SMTT(30) DEF Acquire, Holding, Goto, Unseen, InTask, history, TypeInv, TypeOK
<1>3. ASSUME NEW t \in Threads, AddRefuse(t) PROVE Unseen
  <2>1. /\ pc[t] = "add" /\ pc'[t] = AfterAdd(t)
        /\ \A u \in Threads : u # t => pc'[u] = pc[u]
        /\ UNCHANGED <<ring, finished, pool, shutdown>>
    BY <1>3 DEF AddRefuse, Goto, TypeInv, TypeOK
  <2>2. \A w \in Workers : arg'[w] = arg[w]
    BY <1>3, AddReturnsClears DEF AddRefuse, TypeInv
  <2> QED BY <2>1, <2>2 DEF Unseen, InTask, AfterAdd
<1>4. ASSUME NEW c \in Callers, CallerStep(c) PROVE Unseen
  BY <1>4, SMTT(30) DEF CallerStep, CallAdd, Goto, Unseen, InTask, history, TypeInv, TypeOK
<1>5. ASSUME NEW w \in Workers, NEW k \in Tasks, CallAddFromTask(w, k) PROVE Unseen
  BY <1>5, SMTT(30) DEF CallAddFromTask, Goto, Unseen, InTask, history, TypeInv, TypeOK
<1>6. ASSUME NEW w \in Workers, Sleep(w) \/ SpuriousWakeup(w) \/ ExitCount(w) \/ ExitUnlock(w)
      PROVE  Unseen
  BY <1>6, SMTT(30)
     DEF Sleep, SpuriousWakeup, ExitCount, ExitUnlock, Goto, Unseen, InTask, history,
         TypeInv, TypeOK
<1>7. ASSUME NEW d \in Callers, DestroyAgain(d) \/ Join(d) \/ FreeCheck(d) PROVE Unseen
  BY <1>7, SMTT(30)
     DEF DestroyAgain, Join, FreeCheck, Goto, Unseen, InTask, history, TypeInv, TypeOK
<1>8. ASSUME NEW d \in Destroyers, NEW kind \in {Immediate, Graceful}, CallDestroy(d, kind)
      PROVE  Unseen
  BY <1>8, SMTT(30) DEF CallDestroy, Goto, Unseen, InTask, history, TypeInv, TypeOK
<1>9. ASSUME UNCHANGED vars PROVE Unseen
  BY <1>9 DEF vars, history, Unseen
<1>10. ASSUME NEW t \in Threads, AddAccept(t) PROVE Abstract!Next
  BY <1>10, AcceptIsSubmit DEF Abstract!Next
<1>11. ASSUME NEW w \in Workers, Take(w) PROVE Abstract!Next
  BY <1>11, TakeIsStart DEF Abstract!Next
<1>12. ASSUME NEW w \in Workers, Finish(w) PROVE Abstract!Next
  BY <1>12, FinishIsFinish DEF Abstract!Next
<1>13. ASSUME NEW d \in Callers, Destroy(d) PROVE Abstract!Next
  BY <1>13, DestroyIsClose DEF Abstract!Next
<1>14. ASSUME NEW d \in Callers, Free(d) PROVE Abstract!Next
  BY <1>14, FreeIsGone DEF Abstract!Next
<1>15. Unseen \/ Abstract!Next
  BY <1>1, <1>2, <1>3, <1>4, <1>5, <1>6, <1>7, <1>8, <1>9, <1>10, <1>11, <1>12, <1>13, <1>14
     DEF Next, AddStep, WorkerStep, DestroyerStep, Done
<1> QED BY <1>15, UnseenStutters

\* The pool serves tasks as the bounded queue of TaskPool does: in order, each once,
\* at most ThreadCount at a time, and it is gone when nothing runs and, after a
\* graceful shutdown, nothing waits (the safety part of ImplementsTaskPool).
THEOREM PoolRefines == Spec => Abstract!Spec
<1>1. Init => NamesInv /\ Abstract!Init
  BY NamesInit, RefinesInit
<1>2. TypeInv /\ RingInv /\ NamesInv /\ [Next]_vars => NamesInv'
  BY NamesStep
<1>3. /\ TypeInv /\ RingInv /\ EndInv /\ NamesInv /\ TypeInv' /\ RingInv'
      /\ [Next]_vars
      => [Abstract!Next]_(Abstract!vars)
  BY RefinesStep DEF EndInv
<1> QED BY <1>1, <1>2, <1>3, AlwaysEndInv, PTL DEF Spec, Abstract!Spec
=============================================================================
