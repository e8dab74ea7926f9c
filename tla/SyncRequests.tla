---------------------------- MODULE SyncRequests ----------------------------
(***************************************************************************)
(* Blocking requests: threads in _discord_adapter_run_sync, each with a    *)
(* handle of the user agent, that hold the lock of a bucket over all       *)
(* attempts and sleeps.  A route of which no bucket is known is requested  *)
(* under the lock of b_null, and the answer is then written to the bucket  *)
(* of the route, whose lock is not taken.                                  *)
(*                                                                         *)
(* Timestamps are distances from now, in ticks, down to Past.  lag is how  *)
(* old the timestamp of the event loop is, which discord_timestamp returns *)
(* while the WebSockets are connected; else it returns the time.           *)
(* A local variable that is not read any more is reset.                    *)
(***************************************************************************)
EXTENDS UserAgent, Integers, FiniteSets

CONSTANTS
  Threads,     \* threads that make blocking requests
  Routes,      \* what discord_bucket_get_route tells apart
  Types,       \* content types: JSON, or multipart for HTTP_MIMEPOST
  Kinds,       \* kinds of answers that occur
  Named,       \* routes for which the server sends x-ratelimit-bucket
  Waits,       \* values of x-ratelimit-reset-after, in ticks
  RetryLimit,  \* adapter->retry_limit
  MaxLag,      \* bound: how old the timestamp gets
  MaxCalls     \* bound: calls in a behaviour

Past == -1
NoThread == "none"

ASSUME SyncAssumption ==
  /\ IsFiniteSet(Threads) /\ NoThread \notin Threads
  /\ Routes # {} /\ Named \subseteq Routes /\ MaxConns \in Nat
  /\ Waits \subseteq Nat \ {0} /\ {RetryLimit, MaxLag, MaxCalls} \subseteq Nat

NullBucket == 1
MissBucket == 2
Buckets    == 1..(2 + MaxCalls)

VARIABLES
  th,      \* each thread: where it is, and its local variables
  lock,    \* holder of each bucket's lock
  bucket,  \* remaining and reset_tstamp
  routes,  \* adapter->routes: the bucket of each route, in the order added
  made,    \* how many buckets there are
  global,  \* adapter->global->wait_ms
  lag,     \* age of ws->now_tstamp
  calls,   \* how many calls were made
  promise, \* history: until when the last answer that left nothing said so, by bucket
  raced    \* history: buckets that were written while another thread had the lock

syncVars == <<th, lock, bucket, routes, made, global, lag, calls, promise, raced>>
vars == <<syncVars, uaVars>>

NoAnswer == [kind |-> "none", remaining |-> 1, after |-> Past]

Idle == [pc |-> "idle", route |-> CHOOSE r \in Routes : TRUE, type |-> NoType, b |-> NullBucket,
         conn |-> 0, target |-> NullBucket, attempt |-> 0, answer |-> NoAnswer,
         until |-> Past, now |-> Past, seen |-> Past, bound |-> Past]

Init ==
  /\ UaInit
  /\ th = [t \in Threads |-> Idle]
  /\ lock = [b \in Buckets |-> NoThread]
  /\ bucket = [b \in Buckets |-> [remaining |-> 1, reset |-> Past]]
  /\ routes = <<>> /\ made = 2 /\ global = Past /\ lag = 0 /\ calls = 0
  /\ promise = [b \in Buckets |-> Past] /\ raced = {}

\* _discord_bucket_find: HASH_FIND returns the first route of the name.
Known(r) == {i \in DOMAIN routes : routes[i].route = r}

\* discord_bucket_get
BucketOf(r) == IF Known(r) = {} THEN NullBucket ELSE routes[Min(Known(r))].bucket

Larger(x, y) == IF x > y THEN x ELSE y

\* discord_bucket_get_timeout
Timeout(b) == Larger(global, IF bucket[b].remaining < 1 THEN bucket[b].reset ELSE Past)

\* discord_timestamp
Nows == {0, -lag}

-----------------------------------------------------------------------------
\* discord_adapter_run, of a blocking request: the bucket is found, and then a
\* handle is taken and its request set up.
Call(t, r, type) ==
  /\ th[t].pc = "idle" /\ calls < MaxCalls /\ calls' = calls + 1
  /\ \E c \in 1..MaxConns :
       /\ ConnStart(c, type)
       /\ th' = [th EXCEPT ![t] = [Idle EXCEPT !.pc = "lock", !.conn = c, !.route = r, !.type = type,
                                             !.b = BucketOf(r)]]
  /\ UNCHANGED <<lock, bucket, routes, made, global, lag, promise, raced>>

\* Mutant of MayLock: no lock for b_null.
MayLock_NotNull(b) == b = NullBucket \/ lock[b] = NoThread

MayLock(b) == lock[b] = NoThread

Lock(t) ==
  /\ th[t].pc = "lock" /\ MayLock(th[t].b)
  /\ lock' = [lock EXCEPT ![th[t].b] = t]
  /\ th' = [th EXCEPT ![t].pc = "look"]
  /\ UNCHANGED <<bucket, routes, made, global, lag, calls, promise, raced, uaVars>>

\* discord_bucket_get_wait, and the sleep that follows.
Look(t) ==
  /\ th[t].pc = "look"
  /\ \E now \in Nows :
       th' = [th EXCEPT ![t].pc = "send", ![t].until = Timeout(th[t].b) - now,
                        ![t].seen = IF th[t].b \in raced THEN Past ELSE promise[th[t].b]]
  /\ UNCHANGED <<lock, bucket, routes, made, global, lag, calls, promise, raced, uaVars>>

\* ua_conn_easy_perform begins.
Send(t) ==
  /\ th[t].pc = "send" /\ th[t].until <= 0
  /\ th' = [th EXCEPT ![t].pc = "perform", ![t].until = Past]
  /\ UNCHANGED <<lock, bucket, routes, made, global, lag, calls, promise, raced, uaVars>>

\* A 429 comes with the fields of the limit; what remains is read as 1 where
\* the field is missing.
Answers ==
  {a \in [kind : Kinds, remaining : {0, 1}, after : Waits \cup {Past}] :
     /\ a.kind \in {"limited", "limited_globally"} => a.remaining = 0 /\ a.after # Past
     /\ a.kind = "internal" => a.remaining = 1 /\ a.after = Past}

\* An answer that nothing remains, and for how long.
Binding(a) == a.remaining = 0 /\ a.after # Past

Retries == {"limited", "limited_globally", "server_error", "internal"}

\* _discord_adapter_get_info.  For a global limit it is the global timeout that
\* was known before this answer, and a negative time is not slept.
WaitAfter(a, now) ==
  CASE a.kind = "limited" -> a.after [] a.kind = "limited_globally" -> global - now [] OTHER -> Past

\* libcurl's transfer ends with an answer, that is evaluated, ...
Answer(t) ==
  /\ th[t].pc = "perform"
  /\ \E a \in Answers, now \in Nows :
       /\ a.kind # "internal"
       /\ Receive(th[t].conn, [by |-> t, attempt |-> th[t].attempt])
       /\ th' = [th EXCEPT ![t].pc = "stamp", ![t].answer = a, ![t].until = WaitAfter(a, now),
                           ![t].seen = Past,
                           ![t].bound = IF Binding(a) THEN a.after ELSE Past]
  /\ UNCHANGED <<lock, bucket, routes, made, global, lag, calls, promise, raced>>

\* ... or fails, after a part of an answer was received or before.
Fail(t) ==
  /\ th[t].pc = "perform" /\ "internal" \in Kinds
  /\ \/ Receive(th[t].conn, [by |-> t, attempt |-> th[t].attempt])
     \/ UNCHANGED uaVars
  /\ th' = [th EXCEPT ![t].pc = "again", ![t].answer = [NoAnswer EXCEPT !.kind = "internal"],
                      ![t].until = Past, ![t].seen = Past]
  /\ UNCHANGED <<lock, bucket, routes, made, global, lag, calls, promise, raced>>

\* Mutant of Stamped: the timestamp is not updated.
Stamped_Not(l) == l

Stamped(l) == 0

\* ws_timestamp_update, after an answer or in the event loop.
Stamp(t) ==
  /\ th[t].pc = "stamp"
  /\ lag' = Stamped(lag)
  /\ th' = [th EXCEPT ![t].pc = IF th[t].b = NullBucket THEN "match" ELSE "populate",
                      ![t].target = th[t].b]
  /\ UNCHANGED <<lock, bucket, routes, made, global, calls, promise, raced, uaVars>>

LoopStamps ==
  /\ lag # 0 /\ lag' = 0
  /\ UNCHANGED <<th, lock, bucket, routes, made, global, calls, promise, raced, uaVars>>

\* _discord_bucket_get_match: a bucket is looked for, ...
Match(t) ==
  /\ th[t].pc = "match"
  /\ LET r == th[t].route
     IN th' = [th EXCEPT ![t].pc = IF Known(r) = {} THEN "create" ELSE "populate",
                         ![t].target = BucketOf(r)]
  /\ UNCHANGED <<lock, bucket, routes, made, global, lag, calls, promise, raced, uaVars>>

\* ... and then made, or b_miss taken, where there was none.
Create(t) ==
  /\ th[t].pc = "create"
  /\ LET b == IF th[t].route \in Named THEN made + 1 ELSE MissBucket
     IN /\ made' = IF b = MissBucket THEN made ELSE b
        /\ routes' = Append(routes, [route |-> th[t].route, bucket |-> b])
        /\ th' = [th EXCEPT ![t].pc = "populate", ![t].target = b]
  /\ UNCHANGED <<lock, bucket, global, lag, calls, promise, raced, uaVars>>

\* Another thread has the lock of the bucket that is written, or writes to it.
Unlocked(t) ==
  {b \in {th[t].target} : \E u \in Threads \ {t} :
     lock[b] = u \/ (th[u].pc = "window" /\ th[u].target = b)}

\* The bucket has been written, and of the answer only the kind still matters.
Judged(x) == [x EXCEPT !.pc = "nap", !.answer = [NoAnswer EXCEPT !.kind = x.answer.kind],
                       !.target = NullBucket, !.now = Past, !.bound = Past]

\* _discord_bucket_populate: what remains, unless the answer is out of order,
Populate(t) ==
  /\ th[t].pc = "populate" /\ raced' = raced \cup Unlocked(t)
  /\ LET x == bucket[th[t].target]
         a == th[t].answer
     IN \E now \in Nows :
          IF a.remaining > x.remaining /\ now < x.reset
          THEN /\ th' = [th EXCEPT ![t] = Judged(@)]
               /\ UNCHANGED bucket
          ELSE /\ th' = [th EXCEPT ![t].pc = "window",
                                   ![t].now = IF a.after = Past THEN Past ELSE now + a.after]
               /\ bucket' = [bucket EXCEPT ![th[t].target].remaining = a.remaining]
  /\ UNCHANGED <<lock, routes, made, global, lag, calls, promise, uaVars>>

\* and the end of the window, or of the global limit.
Window(t) ==
  /\ th[t].pc = "window" /\ raced' = raced \cup Unlocked(t)
  /\ LET b == th[t].target
         a == th[t].answer
         isGlobal == a.kind = "limited_globally"
     IN /\ global' = IF isGlobal THEN th[t].now ELSE global
        /\ bucket' = IF isGlobal \/ a.after = Past THEN bucket
                     ELSE [bucket EXCEPT ![b].reset = th[t].now]
        /\ promise' = [promise EXCEPT ![b] = IF isGlobal \/ ~Binding(a) THEN @ ELSE th[t].bound]
  /\ th' = [th EXCEPT ![t] = Judged(@)]
  /\ UNCHANGED <<lock, routes, made, lag, calls, uaVars>>

Nap(t) ==
  /\ th[t].pc = "nap" /\ th[t].until <= 0
  /\ th' = [th EXCEPT ![t].pc = "again", ![t].until = Past]
  /\ UNCHANGED <<lock, bucket, routes, made, global, lag, calls, promise, raced, uaVars>>

\* Mutant of Repeats: the number of attempts is not limited.
Repeats_Ever(x) == x.answer.kind \in Retries

\* retry && retry_attempt++ < retry_limit
Repeats(x) == x.answer.kind \in Retries /\ x.attempt < RetryLimit

\* Mutant of Unlock: a request that failed returns with the lock.
Unlock_NotFailed(l, x) == IF x.answer.kind = "internal" THEN l ELSE [l EXCEPT ![x.b] = NoThread]

Unlock(l, x) == [l EXCEPT ![x.b] = NoThread]

Repeated(x) == [x EXCEPT !.pc = "look", !.attempt = @ + 1, !.answer = NoAnswer]

\* The end of the loop: reset, and once more, or unlock.
Again(t) ==
  /\ th[t].pc = "again"
  /\ ConnReset(th[t].conn)
  /\ IF Repeats(th[t])
       THEN /\ th' = [th EXCEPT ![t] = Repeated(@)]
            /\ UNCHANGED lock
       ELSE /\ th' = [th EXCEPT ![t] = [Idle EXCEPT !.pc = "stop", !.conn = th[t].conn]]
            /\ lock' = Unlock(lock, th[t])
  /\ UNCHANGED <<bucket, routes, made, global, lag, calls, promise, raced>>

Stop(t) ==
  /\ th[t].pc = "stop" /\ ConnStop(th[t].conn)
  /\ th' = [th EXCEPT ![t] = Idle]
  /\ UNCHANGED <<lock, bucket, routes, made, global, lag, calls, promise, raced>>

Older(x) == IF x <= Past THEN Past ELSE x - 1

OlderThread(x) ==
  [x EXCEPT !.until = IF @ <= 0 THEN @ ELSE @ - 1, !.now = Older(@), !.seen = Older(@), !.bound = Older(@)]

Tick ==
  /\ \E t \in Threads : th[t].pc # "idle"
  /\ lag' = IF lag < MaxLag THEN lag + 1 ELSE lag
  /\ global' = Older(global)
  /\ bucket' = [b \in Buckets |-> [bucket[b] EXCEPT !.reset = Older(@)]]
  /\ promise' = [b \in Buckets |-> Older(promise[b])]
  /\ th' = [t \in Threads |-> OlderThread(th[t])]
  /\ UNCHANGED <<lock, routes, made, calls, raced, uaVars>>

Step(t) ==
  \/ Lock(t) \/ Look(t) \/ Send(t) \/ Answer(t) \/ Fail(t) \/ Stamp(t) \/ Match(t)
  \/ Create(t) \/ Populate(t) \/ Window(t) \/ Nap(t) \/ Again(t) \/ Stop(t)

Next ==
  \/ \E t \in Threads : Step(t) \/ \E r \in Routes, type \in Types : Call(t, r, type)
  \/ LoopStamps \/ Tick

\* Threads run on, transfers end and time passes; a thread that waits for a lock
\* that is released again and again gets it.
Fairness ==
  /\ \A t \in Threads : WF_vars(Step(t)) /\ SF_vars(Lock(t))
  /\ WF_vars(Tick)

Spec == Init /\ [][Next]_vars /\ Fairness

-----------------------------------------------------------------------------
(* Properties *)

Using(t) == th[t].pc # "idle"
Holding(t) == Using(t) /\ th[t].pc \notin {"lock", "stop"}

\* The names and ranges the code keeps to.
TypeOK ==
  /\ \A t \in Threads : /\ th[t].b \in 1..made /\ th[t].target \in 1..made
                        /\ th[t].attempt \in 0..RetryLimit
                        /\ Holding(t) => lock[th[t].b] = t \/ th[t].b = NullBucket
  /\ \A i \in DOMAIN routes : routes[i].bucket \in 2..made
  /\ lag \in 0..MaxLag /\ ToSet(idle) \cup ToSet(busy) \subseteq 1..MaxConns

\* ua_conn_start and ua_conn_stop: a handle belongs to one request at a time,
\* every handle ever made is either idle or busy, and the busy ones are used.
HandlesExclusive ==
  /\ \A t, u \in Threads : t # u /\ Using(t) /\ Using(u) => th[t].conn # th[u].conn
  /\ ToSet(busy) = {th[t].conn : t \in {u \in Threads : Using(u)}}
  /\ ToSet(idle) \cup ToSet(busy) = 1..Total

\* The header fields a request is judged by are those of its own last attempt:
\* nothing is left on a handle by a request before, by an attempt before or by
\* a transfer that failed half-way.
AnswerIsOwn ==
  \A t \in Threads :
    th[t].pc \in {"stamp", "match", "create", "populate", "window"} =>
      conn[th[t].conn].received = <<[by |-> t, attempt |-> th[t].attempt]>>

\* A handle sends the content type of the request it is used for, whatever it
\* was used for before.
TypeIsOwn == \A t \in Threads : th[t].pc = "perform" => conn[th[t].conn].content_type = th[t].type

\* _discord_bucket_get_match looks for a route and adds it in two critical
\* sections of global->lock; a route is added once all the same.
RouteOnce == \A i, j \in DOMAIN routes : routes[i].route = routes[j].route => i = j

\* No request is sent before the time until which, as far as its bucket knew
\* when the thread looked, nothing remains, although timestamps are taken from
\* an event loop that may be late.  (Unless the bucket was written without its
\* lock by the first request of a route: see OneAtATime.)
WindowRespected == \A t \in Threads : th[t].pc = "perform" => th[t].seen <= 0

\* discord-internal.h:226, of the lock: "synchronize ratelimiting between
\* threads".  Two threads do not request the same route at the same time.
OneAtATime ==
  \A t, u \in Threads :
    t # u /\ th[t].pc = "perform" /\ th[u].pc = "perform" => th[t].route # th[u].route

\* Every blocking request returns.
EveryCallReturns == \A t \in Threads : th[t].pc # "idle" ~> th[t].pc = "idle"

\* A blocking request has a handle, an answer and a content type of its own, although
\* threads share the handles and failed attempts leave them half-way.
RequestIsOwn ==
  /\ HandlesExclusive
  /\ AnswerIsOwn
  /\ TypeIsOwn

\* A route has one bucket, and requests keep to what it knows of the window: locks are
\* held over two critical sections, sleeps and retries.
LimitsKept ==
  /\ TypeOK
  /\ RouteOnce
  /\ WindowRespected
=============================================================================
