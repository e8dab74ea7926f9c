----------------------------- MODULE ThreadPool -----------------------------
(***************************************************************************)
(* The worker-thread pool of threadpool.c: one mutex, one condition        *)
(* variable, a ring buffer of tasks and ThreadCount worker threads.        *)
(*                                                                         *)
(* A thread holds `lock' from the action Acquire to the action that        *)
(* releases it, so the other threads interleave with every critical        *)
(* section and with everything the code does outside one.                  *)
(*                                                                         *)
(* Contract of the callers (work.c and its users keep it): a call starts   *)
(* only on a pool that threadpool_create has returned and that is not      *)
(* freed, outside callers add nothing once a destroy has begun, and a      *)
(* destroy begins only when no outside caller is inside threadpool_add.    *)
(* A running task may call threadpool_add at any time.                     *)
(***************************************************************************)
EXTENDS Integers, Sequences, FiniteSets, Functions

CONSTANTS
  ThreadCount,  \* argument thread_count of threadpool_create
  QueueSize,    \* argument queue_size of threadpool_create
  Callers,      \* threads other than the workers
  Creator,      \* the caller that runs threadpool_create
  Destroyers,   \* the callers that may call threadpool_destroy
  Tasks,        \* names for the attempts to submit a task (bounds them)
  NoTask,       \* an empty slot, or no task in hand
  NoThread      \* the mutex is free

MaxThreads == 64
MaxQueue   == 65536

Workers == 1 .. ThreadCount
Threads == Workers \cup Callers

ASSUME SizesAssumption ==
  /\ ThreadCount \in 1 .. MaxThreads
  /\ QueueSize \in 1 .. MaxQueue

ASSUME NamesAssumption ==
  /\ Creator \in Callers
  /\ Destroyers \subseteq Callers
  /\ Callers \cap Workers = {}
  /\ NoThread \notin Threads
  /\ NoTask \notin Tasks

VARIABLES
  pool,         \* "live", "freed" (its memory is gone)
  published,    \* threadpool_create has returned the pool
  lock,         \* pool->lock: its holder, or NoThread
  head, tail, count, queue,   \* the ring buffer
  shutdown,     \* pool->shutdown
  started,      \* pool->started
  thread_count, \* pool->thread_count
  pc,           \* where each thread is
  arg,          \* the task a thread submits, or a worker runs
  inner,        \* the task a worker's running task submits
  tmp,          \* the value of started that threadpool_create has read
  flags,        \* the kind of shutdown a destroyer asks for
  joined,       \* loop index of the joins in threadpool_destroy
  accepted,     \* history: the accepted tasks, in order
  taken,        \* history: the tasks workers took, in order
  finished,     \* history: the tasks that have run to their end
  refused       \* history: the tasks threadpool_add refused

ring    == <<head, tail, count, queue>>
history == <<accepted, taken, finished, refused>>
vars == <<pool, published, lock, ring, shutdown, started, thread_count, pc,
          arg, inner, tmp, flags, joined, history>>

Running   == 0
Immediate == 1
Graceful  == 2

-----------------------------------------------------------------------------
Init ==
  /\ pool = "live" /\ published = FALSE /\ lock = NoThread
  /\ head = 0 /\ tail = 0 /\ count = 0
  /\ queue = [i \in 0 .. QueueSize - 1 |-> NoTask]
  /\ shutdown = Running /\ started = 0 /\ thread_count = 0
  /\ pc = [t \in Threads |-> IF t = Creator THEN "create"
                             ELSE IF t \in Workers THEN "none" ELSE "idle"]
  /\ arg = [t \in Threads |-> NoTask]
  /\ inner = [w \in Workers |-> NoTask]
  /\ tmp = 0
  /\ flags = [d \in Callers |-> Graceful]
  /\ joined = [d \in Callers |-> 0]
  /\ accepted = <<>> /\ taken = <<>> /\ finished = {} /\ refused = {}

\* Task names nobody has used yet.
Fresh(k) ==
  /\ k \notin Range(accepted) \cup refused
  /\ \A t \in Threads : arg[t] # k
  /\ \A w \in Workers : inner[w] # k

Goto(t, where) == pc' = [pc EXCEPT ![t] = where]

\* The state in which a thread that waits for the mutex will hold it.
Holding ==
  [at \in {"lock", "woken", "add_lock", "destroy_lock", "free_lock"} |->
     CASE at \in {"lock", "woken"} -> "check"
       [] at = "add_lock"          -> "add"
       [] at = "destroy_lock"      -> "destroy"
       [] at = "free_lock"         -> "free"]

\* pthread_mutex_lock, and the way out of pthread_cond_wait.
Acquire(t) ==
  /\ pc[t] \in DOMAIN Holding
  /\ lock = NoThread
  /\ lock' = t
  /\ Goto(t, Holding[pc[t]])
  /\ UNCHANGED <<pool, published, ring, shutdown, started, thread_count, arg,
                 inner, tmp, flags, joined, history>>

-----------------------------------------------------------------------------
(* threadpool_create *)

\* pthread_create succeeds: the worker exists before it is counted.
StartWorker ==
  /\ pc[Creator] = "create"
  /\ thread_count < ThreadCount
  /\ pc' = [pc EXCEPT ![Creator] = "count", ![thread_count + 1] = "lock"]
  /\ UNCHANGED <<pool, published, lock, ring, shutdown, started, thread_count,
                 arg, inner, tmp, flags, joined, history>>

\* thread_count++ and the read of started++, outside the mutex.
CountRead ==
  /\ pc[Creator] = "count"
  /\ thread_count' = thread_count + 1
  /\ tmp' = started
  /\ Goto(Creator, "counting")
  /\ UNCHANGED <<pool, published, lock, ring, shutdown, started, arg, inner,
                 flags, joined, history>>

\* The write of started++.
CountWrite ==
  /\ pc[Creator] = "counting"
  /\ started' = tmp + 1
  /\ Goto(Creator, "create")
  /\ UNCHANGED <<pool, published, lock, ring, shutdown, thread_count, arg,
                 inner, tmp, flags, joined, history>>

\* pthread_create fails: threadpool_destroy(pool, 0), and NULL is returned.
StartFails ==
  /\ pc[Creator] = "create"
  /\ thread_count < ThreadCount
  /\ flags' = [flags EXCEPT ![Creator] = Immediate]
  /\ Goto(Creator, "destroy_lock")
  /\ UNCHANGED <<pool, published, lock, ring, shutdown, started, thread_count,
                 arg, inner, tmp, joined, history>>

CreateReturns ==
  /\ pc[Creator] = "create"
  /\ thread_count = ThreadCount
  /\ published' = TRUE
  /\ Goto(Creator, "idle")
  /\ UNCHANGED <<pool, lock, ring, shutdown, started, thread_count, arg,
                 inner, tmp, flags, joined, history>>

-----------------------------------------------------------------------------
(* threadpool_add *)

DestroyStates ==
  {"destroy_lock", "destroy", "join", "free_lock", "free"}
Returned == {"destroyed", "leaked", "refused"}

\* "Are we full?" and its mutant, off by one.
Full_Late == count > QueueSize
Full == count = QueueSize

\* The index after i, and its mutant, which never wraps.
After_NoWrap(i) == i + 1
After(i) == (i + 1) % QueueSize

\* A caller outside the pool submits k.
CallAdd(c, k) ==
  /\ pc[c] = "idle" /\ published /\ pool = "live"
  /\ \A d \in Callers : pc[d] \notin DestroyStates \cup Returned
  /\ Fresh(k)
  /\ arg' = [arg EXCEPT ![c] = k]
  /\ Goto(c, "add_lock")
  /\ UNCHANGED <<pool, published, lock, ring, shutdown, started, thread_count,
                 inner, tmp, flags, joined, history>>

\* The task a worker runs submits k.
CallAddFromTask(w, k) ==
  /\ pc[w] = "run" /\ published
  /\ Fresh(k)
  /\ inner' = [inner EXCEPT ![w] = k]
  /\ Goto(w, "add_lock")
  /\ UNCHANGED <<pool, published, lock, ring, shutdown, started, thread_count,
                 arg, tmp, flags, joined, history>>

Submitted(t) == IF t \in Workers THEN inner[t] ELSE arg[t]

\* The task in hand is handed over; the caller, or the running task, goes on.
AddReturns(t) ==
  IF t \in Workers THEN inner' = [inner EXCEPT ![t] = NoTask] /\ UNCHANGED arg
                   ELSE arg' = [arg EXCEPT ![t] = NoTask] /\ UNCHANGED inner

AfterAdd(t) == IF t \in Workers THEN "run" ELSE "idle"

\* Mutants of Signal: no signal at all; a signal only when the ring was empty.
Signal_Never(f) == pc' = f
Signal_IfEmpty(f) ==
  IF \E w \in Workers : f[w] = "wait" /\ count = 0
  THEN \E w \in Workers : f[w] = "wait" /\ pc' = [f EXCEPT ![w] = "woken"]
  ELSE pc' = f

\* pthread_cond_signal wakes one of the threads that wait, if any does.
Signal(f) ==
  IF \E w \in Workers : f[w] = "wait"
  THEN \E w \in Workers : f[w] = "wait" /\ pc' = [f EXCEPT ![w] = "woken"]
  ELSE pc' = f

\* "Are we shutting down?" and its mutant, which does not ask.
Open_Always == TRUE
Open == shutdown = Running

AddAccept(t) ==
  /\ pc[t] = "add"
  /\ ~Full /\ Open
  /\ queue' = [queue EXCEPT ![tail] = Submitted(t)]
  /\ tail' = After(tail)
  /\ count' = count + 1
  /\ accepted' = Append(accepted, Submitted(t))
  /\ Signal([pc EXCEPT ![t] = AfterAdd(t)])
  /\ lock' = NoThread
  /\ AddReturns(t)
  /\ UNCHANGED <<pool, published, head, shutdown, started, thread_count, tmp,
                 flags, joined, taken, finished, refused>>

\* threadpool_queue_full or threadpool_shutdown.
AddRefuse(t) ==
  /\ pc[t] = "add"
  /\ Full \/ ~Open
  /\ refused' = refused \cup {Submitted(t)}
  /\ Goto(t, AfterAdd(t))
  /\ lock' = NoThread
  /\ AddReturns(t)
  /\ UNCHANGED <<pool, published, ring, shutdown, started, thread_count, tmp,
                 flags, joined, accepted, taken, finished>>

-----------------------------------------------------------------------------
(* threadpool_destroy and threadpool_free *)

CallDestroy(d, kind) ==
  /\ pc[d] = "idle" /\ published /\ pool = "live"
  /\ \A c \in Callers : pc[c] \in {"idle"} \cup DestroyStates \cup Returned
  /\ flags' = [flags EXCEPT ![d] = kind]
  /\ Goto(d, "destroy_lock")
  /\ UNCHANGED <<pool, published, lock, ring, shutdown, started, thread_count,
                 arg, inner, tmp, joined, history>>

\* pthread_cond_broadcast, and its mutant, which wakes a single worker.
Broadcast_One(t) ==
  pc[t] = "wait" /\ \A w \in Workers : pc[w] = "wait" => t <= w
Broadcast(t) == pc[t] = "wait"

\* Set the flag and wake every waiting worker.
Destroy(d) ==
  /\ pc[d] = "destroy"
  /\ shutdown = Running
  /\ shutdown' = flags[d]
  /\ pc' = [t \in Threads |-> IF t = d THEN "join"
                              ELSE IF Broadcast(t) THEN "woken" ELSE pc[t]]
  /\ lock' = NoThread
  /\ UNCHANGED <<pool, published, ring, started, thread_count, arg, inner,
                 tmp, flags, joined, history>>

\* "Already shutting down": the code breaks out past the unlock, so the caller
\* returns threadpool_shutdown and still holds the mutex.
DestroyAgain(d) ==
  /\ pc[d] = "destroy"
  /\ shutdown # Running
  /\ Goto(d, "refused")
  /\ UNCHANGED <<pool, published, lock, ring, shutdown, started, thread_count,
                 arg, inner, tmp, flags, joined, history>>

\* pthread_join(pool->threads[joined]).
Join(d) ==
  /\ pc[d] = "join"
  /\ joined[d] < thread_count
  /\ pc[joined[d] + 1] = "exited"
  /\ joined' = [joined EXCEPT ![d] = @ + 1]
  /\ UNCHANGED <<pool, published, lock, ring, shutdown, started, thread_count,
                 pc, arg, inner, tmp, flags, history>>

\* Mutant of FreeCheck: one worker is not joined.
FreeCheck_OneLess(d) ==
  /\ pc[d] = "join"
  /\ joined[d] + 1 >= thread_count
  /\ Goto(d, IF started > 0 THEN "leaked" ELSE "free_lock")
  /\ UNCHANGED <<pool, published, lock, ring, shutdown, started, thread_count,
                 arg, inner, tmp, flags, joined, history>>

\* Mutant of FreeCheck: free as soon as no worker counts as started.
FreeCheck_ByCount(d) ==
  /\ pc[d] = "join"
  /\ started = 0
  /\ pool' = "freed"
  /\ Goto(d, "destroyed")
  /\ UNCHANGED <<published, lock, ring, shutdown, started, thread_count,
                 arg, inner, tmp, flags, joined, history>>

\* threadpool_free: it refuses, and the memory stays, while a worker counts as
\* started; nobody looks at its result.
FreeCheck(d) ==
  /\ pc[d] = "join"
  /\ joined[d] = thread_count
  /\ Goto(d, IF started > 0 THEN "leaked" ELSE "free_lock")
  /\ UNCHANGED <<pool, published, lock, ring, shutdown, started, thread_count,
                 arg, inner, tmp, flags, joined, history>>

Free(d) ==
  /\ pc[d] = "free"
  /\ pool' = "freed"
  /\ lock' = NoThread
  /\ Goto(d, "destroyed")
  /\ UNCHANGED <<published, ring, shutdown, started, thread_count, arg, inner,
                 tmp, flags, joined, history>>

-----------------------------------------------------------------------------
(* threadpool_thread *)

\* When a worker leaves its loop, and a mutant, which leaves tasks behind.
MustExit_Now == shutdown # Running
MustExit == shutdown = Immediate \/ (shutdown = Graceful /\ count = 0)

Sleep(w) ==
  /\ pc[w] = "check"
  /\ count = 0 /\ shutdown = Running
  /\ Goto(w, "wait")
  /\ lock' = NoThread
  /\ UNCHANGED <<pool, published, ring, shutdown, started, thread_count, arg,
                 inner, tmp, flags, joined, history>>

SpuriousWakeup(w) ==
  /\ pc[w] = "wait"
  /\ Goto(w, "woken")
  /\ UNCHANGED <<pool, published, lock, ring, shutdown, started, thread_count,
                 arg, inner, tmp, flags, joined, history>>

Take(w) ==
  /\ pc[w] = "check"
  /\ ~(count = 0 /\ shutdown = Running) /\ ~MustExit
  /\ arg' = [arg EXCEPT ![w] = queue[head]]
  /\ head' = After(head)
  /\ count' = count - 1
  /\ taken' = Append(taken, queue[head])
  /\ Goto(w, "run")
  /\ lock' = NoThread
  /\ UNCHANGED <<pool, published, tail, queue, shutdown, started,
                 thread_count, inner, tmp, flags, joined, accepted, finished,
                 refused>>

\* The task's function returns.
Finish(w) ==
  /\ pc[w] = "run"
  /\ finished' = finished \cup {arg[w]}
  /\ arg' = [arg EXCEPT ![w] = NoTask]
  /\ Goto(w, "lock")
  /\ UNCHANGED <<pool, published, lock, ring, shutdown, started, thread_count,
                 inner, tmp, flags, joined, accepted, taken, refused>>

\* Mutant of ExitCount: the worker is not counted off.
ExitCount_Not(w) ==
  /\ pc[w] = "check"
  /\ MustExit
  /\ Goto(w, "exiting")
  /\ UNCHANGED <<pool, published, lock, ring, shutdown, started, thread_count,
                 arg, inner, tmp, flags, joined, history>>

\* The last two steps of a worker: started--, then the unlock.
ExitCount(w) ==
  /\ pc[w] = "check"
  /\ MustExit
  /\ started' = started - 1
  /\ Goto(w, "exiting")
  /\ UNCHANGED <<pool, published, lock, ring, shutdown, thread_count, arg,
                 inner, tmp, flags, joined, history>>

ExitUnlock(w) ==
  /\ pc[w] = "exiting"
  /\ lock' = NoThread
  /\ Goto(w, "exited")
  /\ UNCHANGED <<pool, published, ring, shutdown, started, thread_count, arg,
                 inner, tmp, flags, joined, history>>

-----------------------------------------------------------------------------
Create == StartWorker \/ CountRead \/ CountWrite \/ StartFails \/ CreateReturns

WorkerStep(w) ==
  \/ Sleep(w) \/ SpuriousWakeup(w) \/ Take(w) \/ Finish(w)
  \/ ExitCount(w) \/ ExitUnlock(w)
  \/ \E k \in Tasks : CallAddFromTask(w, k)

CallerStep(c) == \E k \in Tasks : CallAdd(c, k)

DestroyerStep(d) ==
  \/ Destroy(d) \/ DestroyAgain(d) \/ Join(d) \/ FreeCheck(d) \/ Free(d)

AddStep(t) == AddAccept(t) \/ AddRefuse(t)

\* The program is over: every thread has come to an end.
Done ==
  /\ \E d \in Callers : pc[d] \in Returned
  /\ pool = "freed"
  /\ UNCHANGED vars

Next ==
  \/ Create
  \/ \E t \in Threads : Acquire(t) \/ AddStep(t)
  \/ \E w \in Workers : WorkerStep(w)
  \/ \E c \in Callers : CallerStep(c) \/ DestroyerStep(c)
  \/ \E d \in Destroyers : \E kind \in {Immediate, Graceful} : CallDestroy(d, kind)
  \/ Done

\* No thread waits for the mutex forever while others keep getting it, every
\* task ends, and a thread that can run does. Callers need not call, condition
\* variables need not wake spuriously and tasks need not submit tasks.
Fairness ==
  /\ WF_vars(StartWorker \/ StartFails) /\ WF_vars(CountRead)
  /\ WF_vars(CountWrite) /\ WF_vars(CreateReturns)
  /\ \A t \in Threads : SF_vars(Acquire(t)) /\ WF_vars(AddStep(t))
  /\ \A w \in Workers :
       /\ WF_vars(Sleep(w)) /\ WF_vars(Take(w)) /\ SF_vars(Finish(w))
       /\ WF_vars(ExitCount(w)) /\ WF_vars(ExitUnlock(w))
  /\ \A c \in Callers : WF_vars(DestroyerStep(c))

Spec     == Init /\ [][Next]_vars
FairSpec == Spec /\ Fairness
-----------------------------------------------------------------------------
(* Properties *)

Wheres ==
  {"none", "lock", "woken", "check", "wait", "run", "add_lock", "add", "exiting", "exited",
   "create", "count", "counting", "idle", "join"} \cup DestroyStates \cup Returned

\* Every variable has its type.
TypeOK ==
  /\ pool \in {"live", "freed"} /\ published \in BOOLEAN
  /\ lock \in Threads \cup {NoThread}
  /\ head \in 0 .. QueueSize - 1 /\ tail \in 0 .. QueueSize - 1
  /\ count \in 0 .. QueueSize
  /\ queue \in [0 .. QueueSize - 1 -> Tasks \cup {NoTask}]
  /\ shutdown \in {Running, Immediate, Graceful}
  /\ started \in Int /\ tmp \in Int
  /\ thread_count \in 0 .. ThreadCount
  /\ pc \in [Threads -> Wheres]
  /\ arg \in [Threads -> Tasks \cup {NoTask}]
  /\ inner \in [Workers -> Tasks \cup {NoTask}]
  /\ flags \in [Callers -> {Immediate, Graceful}]
  /\ joined \in [Callers -> 0 .. ThreadCount]
  /\ accepted \in Seq(Tasks) /\ taken \in Seq(Tasks \cup {NoTask})
  /\ finished \subseteq Tasks \cup {NoTask} /\ refused \subseteq Tasks \cup {NoTask}

\* The pending tasks, as the ring buffer of threadpool_add and the workers
\* holds them.
Contents == [i \in 1 .. count |-> queue[(head + i - 1) % QueueSize]]

\* Workers take the accepted tasks in the order of threadpool_add, each once,
\* and none is lost or overwritten while the ring wraps around.
FirstInFirstOut ==
  /\ accepted = taken \o Contents
  /\ tail = (head + count) % QueueSize

\* threadpool_add signals one thread per task: while a worker sleeps, there is
\* another one on its way for every pending task.
NoLostWakeup ==
  (\E w \in Workers : pc[w] = "wait") =>
     count <= Cardinality({w \in Workers : pc[w] \in {"lock", "woken", "check"}})

\* threadpool_destroy frees the pool after the last thread that uses it: the
\* workers (tasks they run included), and callers inside a call.
NoUseAfterFree ==
  pool = "freed" =>
    /\ \A w \in Workers : pc[w] \in {"none", "exited"}
    /\ \A c \in Callers : pc[c] \in {"idle"} \cup Returned

\* started++ of the creator runs outside the mutex and started-- of a worker
\* inside: no update is lost, whenever a thread fails to start.
StartedIsExact ==
  pc[Creator] # "counting" =>
    started = Cardinality({w \in 1 .. thread_count : pc[w] \notin {"exiting", "exited"}})

\* A destroy that has joined the workers really frees the pool: threadpool_free,
\* which trusts in started, does not refuse, and no memory stays behind unnoticed.
NothingLeaks == \A d \in Callers : pc[d] # "leaked"

\* threadpool_destroy frees, and the count that threadpool_free looks at is exact
\* whoever counts.
DestroyFrees == StartedIsExact /\ NothingLeaks

\* After a graceful threadpool_destroy every accepted task has run to its end,
\* those that tasks submitted during the shutdown included.
GracefulDrains ==
  pool = "freed" /\ shutdown = Graceful => Range(accepted) \subseteq finished

\* Every accepted task runs, also when the pool is destroyed meanwhile, unless
\* the shutdown is immediate.
EveryTaskRuns ==
  \A k \in Tasks :
    k \in Range(accepted) ~> (k \in finished \/ shutdown = Immediate)

\* threadpool_destroy comes back.
DestroyReturns ==
  \A d \in Callers : pc[d] \in DestroyStates ~> pc[d] \in Returned

\* What the pool promises, without threads, mutex or ring.
Abstract ==
  INSTANCE TaskPool WITH
    Capacity <- QueueSize,
    MaxRunning <- ThreadCount,
    pending  <- Contents,
    running  <- {arg[w] : w \in {v \in Workers : pc[v] \in {"run", "add_lock", "add"}}},
    phase    <- IF pool = "freed" THEN "gone"
                ELSE IF shutdown = Running THEN "open"
                ELSE IF shutdown = Graceful THEN "draining" ELSE "cancelled"

\* The pool implements the queue of TaskPool, its liveness included.
ImplementsTaskPool == Abstract!FairSpec
=============================================================================
