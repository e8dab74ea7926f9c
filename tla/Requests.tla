------------------------------ MODULE Requests ------------------------------
(***************************************************************************)
(* The asynchronous requests of discord-adapter.c and the buckets of       *)
(* discord-adapter-ratelimit.c: a request waits in the queue of its bucket *)
(* until the bucket may send, is busy while libcurl transfers it, is timed *)
(* out in the heap of timers, or its context is idle for reuse.            *)
(*                                                                         *)
(* All of it runs in the thread of discord_run.  A callback of the user    *)
(* runs between the answer and its evaluation, and may enqueue requests.   *)
(*                                                                         *)
(* A timestamp is kept as its distance from now, in ticks, down to Past:   *)
(* the code compares timestamps only with now and with each other, and     *)
(* what is past no longer matters.                                         *)
(***************************************************************************)
EXTENDS Integers, FiniteSets, SequencesExt

CONSTANTS
  Routes,       \* what discord_bucket_get_route tells apart
  Hashes,       \* values of the header x-ratelimit-bucket
  HashOf,       \* the bucket the server counts a route in, or NoHash
  Kinds,        \* the kinds of answers that occur
  Remainings,   \* values of the header x-ratelimit-remaining
  Waits,        \* values of the header x-ratelimit-reset-after, in ticks
  RetryLimit,   \* adapter->retry_limit
  MaxRequests,  \* bound: requests in a behaviour
  MaxStops,     \* bound: calls of discord_adapter_stop_all
  Priorities    \* values of async.attr.high_p that the user passes

NoHash == "none"
Past   == -1

ASSUME RequestsAssumption ==
  /\ IsFiniteSet(Routes) /\ Routes # {} /\ HashOf \in [Routes -> Hashes \cup {NoHash}]
  /\ Remainings \subseteq Nat /\ Waits \subseteq Nat \ {0}
  /\ RetryLimit \in Nat /\ MaxRequests \in Nat /\ MaxStops \in Nat
  /\ Priorities \subseteq BOOLEAN

NullBucket == 1   \* adapter->b_null
MissBucket == 2   \* adapter->b_miss
Buckets    == 1..(2 + Cardinality(Routes))
Contexts   == 1..MaxRequests
NoRoute    == 0   \* no bucket is known for a route

VARIABLES
  pc,        \* where discord_adapter_perform is
  msg,       \* the answer its user is being called back for
  cxt,       \* struct discord_context
  allocated, \* how many contexts there are
  bucket,    \* struct discord_bucket
  made,      \* how many buckets there are
  routes,    \* adapter->routes
  wait,      \* adapter->global->wait_ms
  timeouts,  \* adapter->async.timeouts
  idleq,     \* adapter->async.idleq
  conns,     \* handles of the user agent marked as running
  stops,     \* calls of discord_adapter_stop_all
  log        \* history of each request: route, sends, callbacks, how it ended

vars == <<pc, msg, cxt, allocated, bucket, made, routes, wait, timeouts,
          idleq, conns, stops, log>>

NoMsg == [cxt |-> 0]

NewBucket(hash) ==
  [hash |-> hash, remaining |-> 1, reset |-> Past, freeze |-> FALSE,
   waitq |-> <<>>, busyq |-> <<>>]

Init ==
  /\ pc = "loop" /\ msg = NoMsg
  /\ cxt = [c \in Contexts |-> [req |-> 0, route |-> CHOOSE r \in Routes : TRUE,
                                bucket |-> NullBucket, attempt |-> 0, timeout |-> Past]]
  /\ allocated = 0 /\ idleq = <<>> /\ timeouts = {} /\ conns = 0 /\ stops = 0
  /\ bucket = [b \in Buckets |-> NewBucket(NoHash)]
  /\ made = 2 /\ wait = Past
  /\ routes = [r \in Routes |-> NoRoute]
  /\ log = <<>>

BucketOf(route) == IF routes[route] = NoRoute THEN NullBucket ELSE routes[route]

-----------------------------------------------------------------------------
(* The user *)

Queued(q, c, high) == IF high THEN <<c>> \o q ELSE Append(q, c)

\* _discord_adapter_run_async: a new or an idle context joins its bucket's
\* queue.  The number of attempts of an idle context is kept as it is.
Enqueue(route, high) ==
  /\ \/ pc = "loop"
     \/ pc = "callback" /\ msg.answer.kind # "read_error"
  /\ Len(log) < MaxRequests
  /\ LET c == IF idleq = <<>> THEN allocated + 1 ELSE Head(idleq)
         b == BucketOf(route)
     IN /\ cxt' = [cxt EXCEPT ![c].req = Len(log) + 1, ![c].route = route, ![c].bucket = b]
        /\ bucket' = [bucket EXCEPT ![b].waitq = Queued(@, c, high)]
        /\ IF idleq = <<>>
             THEN allocated' = allocated + 1 /\ UNCHANGED idleq
             ELSE idleq' = Tail(idleq) /\ UNCHANGED allocated
  /\ log' = Append(log, [route |-> route, high |-> high, sends |-> 0,
                         done |-> 0, fail |-> 0, state |-> "live"])
  /\ UNCHANGED <<pc, msg, made, routes, wait, timeouts, conns, stops>>

\* Time passes between the calls of discord_adapter_perform: the timestamp of
\* the event loop is not updated within one.
Tick ==
  /\ pc = "loop"
  /\ LET Older(t) == IF t = Past THEN Past ELSE t - 1
     IN /\ wait' = Older(wait)
        /\ bucket' = [b \in Buckets |-> [bucket[b] EXCEPT !.reset = Older(@)]]
        /\ cxt' = [c \in Contexts |-> [cxt[c] EXCEPT !.timeout = Older(@)]]
  /\ UNCHANGED <<pc, msg, allocated, made, routes, timeouts, idleq, conns, stops, log>>

-----------------------------------------------------------------------------
(* discord_adapter_perform *)

Perform ==
  /\ pc = "loop" /\ pc' = "timeouts"
  /\ UNCHANGED <<msg, cxt, allocated, bucket, made, routes, wait, timeouts,
                 idleq, conns, stops, log>>

\* Mutant of Unfrozen: the bucket stays frozen.
Unfrozen_Not(b, c) == [b EXCEPT !.waitq = <<c>> \o @]

Unfrozen(b, c) == [b EXCEPT !.freeze = FALSE, !.waitq = <<c>> \o @]

Due == {c \in timeouts : cxt[c].timeout <= 0}

\* _discord_adapter_check_timeouts: the request whose timer ends first is the
\* next of its bucket.
CheckTimeouts(c) ==
  /\ pc = "timeouts" /\ c \in Due
  /\ \A d \in Due : cxt[c].timeout <= cxt[d].timeout
  /\ timeouts' = timeouts \ {c}
  /\ bucket' = [bucket EXCEPT ![cxt[c].bucket] = Unfrozen(@, c)]
  /\ UNCHANGED <<pc, msg, cxt, allocated, made, routes, wait, idleq, conns, stops, log>>

TimeoutsChecked ==
  /\ pc = "timeouts" /\ Due = {} /\ pc' = "pending"
  /\ UNCHANGED <<msg, cxt, allocated, bucket, made, routes, wait, timeouts,
                 idleq, conns, stops, log>>

Larger(s, t) == IF s > t THEN s ELSE t

\* discord_bucket_get_timeout
Timeout(b) == Larger(wait, IF bucket[b].remaining < 1 THEN bucket[b].reset ELSE Past)

\* Mutant of Pending: busy buckets are not skipped.
Pending_Busy(b) == ~bucket[b].freeze /\ bucket[b].waitq # <<>>

\* _discord_adapter_check_pending: not timed out, not busy, and pending.
Pending(b) ==
  /\ ~bucket[b].freeze
  /\ bucket[b].busyq = <<>>
  /\ bucket[b].waitq # <<>>

Outdated(b) == bucket[b].reset < 0

\* _discord_context_timeout, called for the first request of a batch.
TimesOut(b) == Pending(b) /\ ~Outdated(b) /\ bucket[b].remaining > 0 /\ Timeout(b) >= 0

\* How many requests of a bucket are sent: a single one to learn of the new
\* window, or as many as the window has left.
SendCount(b) ==
  IF ~Pending(b) \/ TimesOut(b) THEN 0
  ELSE IF Outdated(b) THEN 1
  ELSE IF bucket[b].remaining < Len(bucket[b].waitq) THEN bucket[b].remaining
  ELSE Len(bucket[b].waitq)

\* The requests that are sent from the queue of a bucket.
SentOf(b) == SubSeq(bucket[b].waitq, 1, SendCount(b))

\* A bucket after its turn.
AfterTurn(b) ==
  IF TimesOut(b)
    THEN [bucket[b] EXCEPT !.freeze = TRUE, !.waitq = Tail(@)]
    ELSE [bucket[b] EXCEPT !.waitq = SubSeq(@, SendCount(b) + 1, Len(@)),
                           !.busyq = @ \o SentOf(b)]

\* _discord_adapter_check_pending with all it calls.  Each request sent takes
\* a handle of the user agent, one that is retried too.
CheckPending ==
  /\ pc = "pending" /\ pc' = "transfers"
  /\ LET timed == {b \in 1..made : TimesOut(b)}
         sent  == UNION {ToSet(SentOf(b)) : b \in 1..made}
     IN /\ bucket' = [b \in Buckets |-> IF b <= made THEN AfterTurn(b) ELSE bucket[b]]
        /\ timeouts' = timeouts \cup {Head(bucket[b].waitq) : b \in timed}
        /\ cxt' = [c \in Contexts |->
             IF \E b \in timed : Head(bucket[b].waitq) = c
               THEN [cxt[c] EXCEPT !.timeout = Timeout(cxt[c].bucket)]
               ELSE cxt[c]]
        /\ conns' = conns + Cardinality(sent)
        /\ log' = [r \in 1..Len(log) |->
             [log[r] EXCEPT !.sends = IF \E c \in sent : cxt[c].req = r THEN @ + 1 ELSE @]]
  /\ UNCHANGED <<msg, allocated, made, routes, wait, idleq, stops>>

Busy == UNION {ToSet(bucket[b].busyq) : b \in 1..made}

NoAnswer == {"read_error", "failed"}

\* What a transfer may end with.  The server names the bucket of the route or
\* not, and sends the headers of the limit or not (remaining is then read as
\* 1, after = Past); the retry_after in the body of a 429 agrees with them.
Answers(route) ==
  {a \in [kind : Kinds, remaining : Remainings \cup {1}, after : Waits \cup {Past},
          retry_after : Waits \cup {0}, named : BOOLEAN] :
     /\ a.named => HashOf[route] # NoHash
     /\ a.kind # "limited" => a.retry_after = 0
     /\ a.kind = "limited" /\ a.after # Past => a.remaining = 0 /\ a.retry_after = a.after
     /\ a.kind = "limited" /\ a.after = Past => a.remaining = 1 /\ a.retry_after # 0
     /\ a.kind = "limited_globally" => a.remaining = 0 /\ a.after # Past
     /\ a.kind \in NoAnswer => a.remaining = 1 /\ a.after = Past /\ ~a.named}

\* _discord_adapter_check_action up to the user's callback.
Read(c, a) ==
  /\ pc = "transfers" /\ c \in Busy /\ a \in Answers(cxt[c].route)
  /\ pc' = "callback" /\ msg' = [cxt |-> c, answer |-> a]
  /\ log' = [log EXCEPT
       ![cxt[c].req].done = IF a.kind = "ok" THEN @ + 1 ELSE @,
       ![cxt[c].req].fail = IF a.kind \in {"ok", "read_error"} THEN @ ELSE @ + 1]
  /\ UNCHANGED <<cxt, allocated, bucket, made, routes, wait, timeouts, idleq, conns, stops>>

\* The members of a queue that are in S, in their order.
Only(q, S) ==
  LET only[i \in 0..Len(q)] ==
        IF i = 0 THEN <<>> ELSE IF q[i] \in S THEN Append(only[i - 1], q[i]) ELSE only[i - 1]
  IN only[Len(q)]

Of(route) == {c \in Contexts : cxt[c].route = route}

\* The requests of a route that wait in b_null.
Matching(route) == Only(bucket[NullBucket].waitq, Of(route))

\* Mutant of Filtered: the requests of the route stay in b_null.
Filtered_Not(bs, b, route) == bs

\* _discord_bucket_null_filter on the buckets bs.
Filtered(bs, b, route) ==
  [bs EXCEPT ![NullBucket].waitq = Only(@, Contexts \ Of(route)),
             ![b].waitq = @ \o Matching(route)]

\* _discord_bucket_get_match, for a route that has no bucket yet.
MatchOf(a) == IF a.named THEN made + 1 ELSE MissBucket

\* _discord_bucket_populate: an answer with more remaining than is known in a
\* window that has not ended is out of order.
OutOfOrder(b, a) == a.remaining > b.remaining /\ b.reset > 0

Populated(b, a) ==
  IF OutOfOrder(b, a) THEN b
  ELSE [b EXCEPT !.remaining = a.remaining,
                 !.reset = IF a.after # Past /\ a.kind # "limited_globally"
                             THEN a.after ELSE @]

\* Mutant of Retried: one attempt too many.
Retried_More(c, a) ==
  /\ a.kind \in {"limited", "limited_globally", "server_error", "read_error"}
  /\ cxt[c].attempt <= RetryLimit

\* _discord_adapter_get_info, and the limit of the attempts.
Retried(c, a) ==
  /\ a.kind \in {"limited", "limited_globally", "server_error", "read_error"}
  /\ cxt[c].attempt < RetryLimit

\* When a retry is due.  For a global limit this is the global timeout that
\* was known before this answer; at 0 nothing is waited for.
RetryAt(a) ==
  CASE a.kind = "limited" -> a.retry_after
    [] a.kind = "limited_globally" -> wait
    [] OTHER -> 0

\* Where a request goes that is tried again: to the head of its queue, or to
\* the timers, its bucket frozen.
Placed(b, c, a) ==
  IF ~Retried(c, a) THEN b
  ELSE IF RetryAt(a) = 0 THEN [b EXCEPT !.waitq = <<c>> \o @]
  ELSE [b EXCEPT !.freeze = TRUE]

\* _discord_context_reset
Recycled(x) == [x EXCEPT !.timeout = Past, !.attempt = 0]

\* _discord_adapter_check_action after the callback: the bucket learns from
\* the answer (discord_bucket_build), and the request is retried or recycled.
CheckAction ==
  /\ pc = "callback" /\ pc' = "transfers" /\ msg' = NoMsg
  /\ LET c      == msg.cxt
         a      == msg.answer
         old    == cxt[c].bucket
         route  == cxt[c].route
         built  == a.kind \notin NoAnswer
         new    == built /\ old = NullBucket /\ routes[route] = NoRoute
         b      == IF new THEN MatchOf(a) ELSE IF old = NullBucket THEN BucketOf(route) ELSE old
         opened == IF new /\ a.named THEN [bucket EXCEPT ![b] = NewBucket(HashOf[route])] ELSE bucket
         moved  == IF built /\ old = NullBucket THEN Filtered(opened, b, route) ELSE opened
         told   == IF built THEN [moved EXCEPT ![b] = Populated(@, a)] ELSE moved
         moves  == IF built /\ old = NullBucket THEN ToSet(moved[b].waitq) \ ToSet(opened[b].waitq) ELSE {}
         left   == [told EXCEPT ![old].busyq = Only(@, Contexts \ {c})]
     IN /\ bucket' = [left EXCEPT ![old] = Placed(@, c, a)]
        /\ routes' = IF new THEN [routes EXCEPT ![route] = b] ELSE routes
        /\ made' = IF new /\ a.named THEN made + 1 ELSE made
        /\ wait' = IF a.kind = "limited_globally" /\ ~OutOfOrder(moved[b], a) THEN a.after ELSE wait
        /\ timeouts' = IF Retried(c, a) /\ RetryAt(a) # 0 THEN timeouts \cup {c} ELSE timeouts
        /\ cxt' = [d \in Contexts |->
             IF d = c
               THEN IF Retried(c, a)
                      THEN [cxt[c] EXCEPT !.attempt = @ + 1, !.timeout = RetryAt(a)]
                      ELSE Recycled(cxt[c])
               ELSE IF d \in moves THEN [cxt[d] EXCEPT !.bucket = b] ELSE cxt[d]]
        /\ idleq' = IF Retried(c, a) THEN idleq ELSE Append(idleq, c)
        /\ conns' = IF Retried(c, a) THEN conns ELSE conns - 1
        /\ log' = IF Retried(c, a) THEN log
                  ELSE [log EXCEPT ![cxt[c].req].state =
                          IF a.kind \in {"ok", "refused", "failed"} THEN "ended" ELSE "gave_up"]
  /\ UNCHANGED <<allocated, stops>>

\* Transfers that libcurl has not finished are left for the next turn.
Performed ==
  /\ pc = "transfers" /\ pc' = "loop"
  /\ UNCHANGED <<msg, cxt, allocated, bucket, made, routes, wait, timeouts,
                 idleq, conns, stops, log>>

\* Those whose timers are removed.
Timed(b) == {c \in timeouts : cxt[c].bucket = b}

\* Mutant of Stopped: timed-out buckets stay frozen.
Stopped_Frozen(b) == [bucket[b] EXCEPT !.waitq = <<>>, !.busyq = <<>>]

\* Mutant of Stopped: on-going transfers stay in the bucket.
Stopped_Busy(b) == [bucket[b] EXCEPT !.waitq = <<>>, !.freeze = @ /\ Timed(b) = {}]

\* Mutant of Stopped: pending transfers stay in the bucket.
Stopped_Wait(b) == [bucket[b] EXCEPT !.busyq = <<>>, !.freeze = @ /\ Timed(b) = {}]

\* A bucket that discord_adapter_stop_all has emptied.
Stopped(b) == [bucket[b] EXCEPT !.waitq = <<>>, !.busyq = <<>>, !.freeze = @ /\ Timed(b) = {}]

\* The orders in which the heap of timers may give its minimum, again and again.
ByTimeout ==
  {q \in SetToSeqs(timeouts) : \A i, j \in DOMAIN q : i < j => cxt[q[i]].timeout <= cxt[q[j]].timeout}

\* discord_adapter_stop_all, when discord_run ends: every context is moved to
\* the idle queue, timed-out ones first.  Their fields are not reset.
StopAll ==
  /\ pc = "loop" /\ stops < MaxStops
  /\ \E q \in ByTimeout :
       idleq' = idleq \o q \o FlattenSeq([b \in 1..made |-> bucket[b].busyq \o bucket[b].waitq])
  /\ bucket' = [b \in Buckets |-> Stopped(b)]
  /\ conns' = conns - Cardinality(Busy)
  /\ timeouts' = {} /\ stops' = stops + 1
  /\ log' = [r \in 1..Len(log) |->
       [log[r] EXCEPT !.state = IF @ = "live" THEN "cancelled" ELSE @]]
  /\ UNCHANGED <<pc, msg, cxt, allocated, made, routes, wait>>

Turn ==
  \/ Perform \/ TimeoutsChecked \/ CheckPending \/ CheckAction \/ Performed
  \/ \E c \in Contexts : CheckTimeouts(c)

User ==
  \/ \E route \in Routes, high \in Priorities : Enqueue(route, high)
  \/ StopAll

ReadAny(c) == \E a \in Answers(cxt[c].route) : Read(c, a)

Next == Turn \/ User \/ Tick \/ \E c \in Contexts : ReadAny(c)

Spec == Init /\ [][Next]_vars

\* discord_run keeps turning, time passes between two turns again and again
\* (curl_multi_wait), and libcurl ends every transfer with some result.
FairSpec ==
  /\ Spec /\ WF_vars(Turn) /\ SF_vars(Tick)
  /\ \A c \in Contexts : SF_vars(ReadAny(c))

-----------------------------------------------------------------------------
(* Properties *)

TypeOK ==
  /\ pc \in {"loop", "timeouts", "pending", "transfers", "callback"}
  /\ IF pc = "callback" THEN msg.cxt \in Busy ELSE msg = NoMsg
  /\ cxt \in [Contexts -> [req : 0..MaxRequests, route : Routes, bucket : Buckets,
                           attempt : 0..RetryLimit, timeout : Int]]
  /\ allocated \in 0..MaxRequests /\ made \in Buckets /\ conns \in Nat
  /\ bucket \in [Buckets -> [hash : Hashes \cup {NoHash}, remaining : Nat, reset : Int,
                             freeze : BOOLEAN, waitq : Seq(Contexts), busyq : Seq(Contexts)]]
  /\ routes \in [Routes -> Buckets \cup {NoRoute}]
  /\ wait \in Int /\ wait >= Past
  /\ timeouts \subseteq Contexts /\ idleq \in Seq(Contexts)

\* How often a context is linked in a queue or in the heap.
Times(q, c) == Cardinality({i \in DOMAIN q : q[i] = c})

\* Every context of discord-adapter.c is in one place: idle, timed out, or in
\* one queue of its own bucket.  A context that is in two lists, or in none,
\* or that null_filter moved without telling it, is a corrupted queue.
OnePlace ==
  \A c \in 1..allocated :
    LET b == cxt[c].bucket
    IN /\ Times(idleq, c) + Times(bucket[b].waitq, c) + Times(bucket[b].busyq, c)
            + Cardinality(timeouts \cap {c}) = 1
       /\ \A d \in Buckets \ {b} : Times(bucket[d].waitq \o bucket[d].busyq, c) = 0

\* A frozen bucket has a timer that will thaw it: without one its requests
\* would never be looked at again by _discord_adapter_check_pending.
FrozenHasTimer ==
  \A b \in Buckets : bucket[b].freeze => \E c \in timeouts : cxt[c].bucket = b

\* A request is sent at most once and retried at most retry_limit times, also
\* when its context, its bucket and its place in the queues are reused.
AttemptsBounded == \A r \in DOMAIN log : log[r].sends <= RetryLimit + 1

\* The user's callbacks: `done' runs once at most, and for a request that
\* ended well; a request that is over is never called back, sent or revived.
OverIsOver ==
  [][\A r \in DOMAIN log :
       /\ log'[r].done <= 1
       /\ log[r].done = 1 /\ log[r].state = "live" =>
            log'[r].sends = log[r].sends /\ log'[r].fail = log[r].fail
       /\ log[r].state # "live" => log'[r] = log[r]]_vars

\* Requests of a route are sent for the first time in the order in which they
\* were enqueued, whether they met in b_null or in a bucket of their own.
\* (Without high_p and without a global limit.)
SentInOrder ==
  \A r, s \in DOMAIN log :
    r < s /\ log[r].route = log[s].route /\ log[r].state = "live"
      => (log[r].sends = 0 => log[s].sends = 0)

\* What a bucket has in flight was allowed by one look at its window: no
\* request is added to a batch that is still being answered, and a batch is
\* never larger than what remained.
BatchesAreWhole ==
  [][\A b \in Buckets :
       LET added == ToSet(bucket'[b].busyq) \ ToSet(bucket[b].busyq)
       IN added # {} => /\ bucket[b].busyq = <<>>
                        /\ Cardinality(added) <= Larger(1, bucket[b].remaining)]_vars

\* Every request that is enqueued comes to an end: answered, given up, or
\* cancelled by discord_adapter_stop_all.
EveryRequestEnds ==
  \A r \in 1..MaxRequests :
    (r \in DOMAIN log /\ log[r].state = "live") ~>
      (r \in DOMAIN log /\ log[r].state # "live")

\* No request is lost: a context is in one place, and where it waits for a bucket
\* that is frozen, a timer thaws it.
NothingIsLost == OnePlace /\ FrozenHasTimer

\* The variables keep their types, and no request is sent once too often.
InBounds == TypeOK /\ AttemptsBounded

-----------------------------------------------------------------------------
(* What the comments say *)

\* discord-adapter-ratelimit.c: "lock all buckets".  While a global timeout
\* is known no bucket sends.
GlobalLocksAll == [][wait > 0 => \A r \in DOMAIN log : log'[r].sends = log[r].sends]_vars

\* discord-adapter.c: "skip timed-out, busy and non-pending buckets".
TimedOutIsSkipped ==
  [][\A b \in Buckets : (\E c \in timeouts : cxt[c].bucket = b)
       => Len(bucket'[b].busyq) <= Len(bucket[b].busyq)]_vars

\* discord-adapter-ratelimit.c: "match new route to existing or new bucket".
\* Two buckets are never made for one hash.
OneBucketPerHash ==
  \A b, d \in 3..made : b # d => bucket[b].hash # bucket[d].hash

\* user-agent.h: a handle is marked as running by ua_conn_start and as idle by
\* ua_conn_stop.  When no request is under way none is marked as running.
HandlesReturned == (\A r \in DOMAIN log : log[r].state # "live") => conns = 0

\* discord.h: "Triggers on a failed async request".  The callback is not
\* called for an attempt that will be retried.
FailIsFinal == \A r \in DOMAIN log : log[r].fail <= 1 /\ log[r].fail + log[r].done <= 1
=============================================================================
