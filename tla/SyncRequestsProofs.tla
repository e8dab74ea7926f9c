------------------------- MODULE SyncRequestsProofs -------------------------
(***************************************************************************)
(* Theorems about SyncRequests and UserAgent, for every number of threads, *)
(* routes, content types and handles, every kind and order of answers and  *)
(* every retry limit.                                                      *)
(***************************************************************************)
EXTENDS SyncRequests, QueueLemmas

-----------------------------------------------------------------------------
(* Types *)

Pcs == {"idle", "lock", "look", "send", "perform", "stamp", "match", "create", "populate",
        "window", "nap", "again", "stop"}

AnyAnswer == [kind : Kinds \cup {"none", "internal"}, remaining : {0, 1}, after : Waits \cup {Past}]

ThreadType ==
  [pc : Pcs, route : Routes, type : Types \cup {NoType}, b : Buckets, conn : 0..MaxConns,
   target : Buckets, attempt : Nat, answer : AnyAnswer,
   until : Int, now : Int, seen : Int, bound : Int]

RouteType == [route : Routes, bucket : Buckets]
ConnType  == [content_type : Types \cup {NoType},
              received : Seq([by : Threads, attempt : Nat])]

ThType     == th \in [Threads -> ThreadType]
BucketType == /\ bucket \in [Buckets -> [remaining : {0, 1}, reset : Int]]
              /\ promise \in [Buckets -> Int] /\ raced \subseteq Buckets
LockType   == lock \in [Buckets -> Threads \cup {NoThread}]
MapType    == routes \in Seq(RouteType) /\ made \in Buckets /\ made >= 2
TimeType   == global \in Int /\ lag \in 0..MaxLag /\ calls \in 0..MaxCalls
UaType     == /\ idle \in Seq(1..MaxConns) /\ busy \in Seq(1..MaxConns)
              /\ conn \in [1..MaxConns -> ConnType]

TypeInv == ThType /\ BucketType /\ LockType /\ MapType /\ TimeType /\ UaType

\* Requests that may still add a route.
Missing == {t \in Threads : th[t].pc \notin {"idle", "stop"} /\ Known(th[t].route) = {}}

\* Buckets are made for routes, and routes added by calls, each by one of its own.
MadeInv ==
  /\ made <= 2 + Len(routes)
  /\ Len(routes) + Cardinality(Missing) <= calls

\* Where a thread looks for the bucket of its route.
RangeInv ==
  /\ \A t \in Threads :
       /\ th[t].b <= made /\ th[t].target <= made /\ th[t].attempt <= RetryLimit
       /\ th[t].pc \in {"match", "create"} => th[t].b = NullBucket
       /\ th[t].pc = "create" => Known(th[t].route) = {}
       /\ th[t].pc # "idle" => th[t].conn # 0
       /\ th[t].pc \notin {"idle", "stop"} => th[t].type \in Types
  /\ \A i \in 1..Len(routes) : routes[i].bucket \in 2..made

\* A thread has the lock of its bucket from the first attempt to the last.
LockInv == \A t \in Threads : Holding(t) => lock[th[t].b] = t

LEMMA Numbers ==
  /\ RetryLimit \in Nat /\ MaxLag \in Nat /\ MaxCalls \in Nat /\ MaxConns \in Nat
  /\ NullBucket \in Buckets /\ MissBucket \in Buckets /\ NullBucket # MissBucket
  /\ Past \in Int /\ Waits \subseteq Int /\ (\A w \in Waits : w > 0)
  /\ IsFiniteSet(Threads) /\ NoThread \notin Threads
  BY SyncAssumption DEF NullBucket, MissBucket, Buckets, Past

LEMMA IdleType == Idle \in ThreadType
<1>1. (CHOOSE r \in Routes : TRUE) \in Routes
  BY SyncAssumption
<1>2. NoAnswer \in AnyAnswer
  BY DEF NoAnswer, AnyAnswer
<1> QED BY <1>1, <1>2, Numbers DEF Idle, ThreadType, Pcs

LEMMA NowsAreNumbers ==
  ASSUME TypeInv
  PROVE  \A now \in Nows : now \in Int /\ now <= 0 /\ now >= -lag
  BY Numbers DEF Nows, TypeInv, TimeType

LEMMA TimeoutType ==
  ASSUME TypeInv, NEW b \in Buckets
  PROVE  Timeout(b) \in Int
  BY Numbers DEF Timeout, Larger, TypeInv, BucketType, TimeType

LEMMA BucketOfType ==
  ASSUME TypeInv, NEW r \in Routes
  PROVE  /\ BucketOf(r) \in Buckets
         /\ Known(r) = {} => BucketOf(r) = NullBucket
         /\ Known(r) # {} => \E i \in Known(r) : BucketOf(r) = routes[i].bucket
<1>1. Known(r) \subseteq 1..Len(routes) /\ \A i \in Known(r) : routes[i].bucket \in Buckets
  <2>1. routes \in Seq(RouteType)
    BY DEF TypeInv, MapType
  <2>2. \A i \in 1..Len(routes) : routes[i] \in RouteType
    BY <2>1
  <2>3. \A i \in 1..Len(routes) : routes[i].bucket \in Buckets
    BY <2>2 DEF RouteType
  <2> QED BY <2>1, <2>3 DEF Known
<1>2. CASE Known(r) = {}
  BY <1>2, Numbers DEF BucketOf
<1>3. CASE Known(r) # {}
  <2>1. \E x \in Known(r) : \A y \in Known(r) : x <= y
    <3>1. Known(r) \subseteq Nat
      BY <1>1 DEF TypeInv, MapType
    <3> QED BY <1>3, <3>1, HasMin
  <2>2. Min(Known(r)) \in Known(r)
    BY <2>1 DEF Min
  <2> QED BY <1>1, <1>3, <2>2 DEF BucketOf
<1> QED BY <1>2, <1>3

\* A thread's record after a step, field by field.
LEMMA ThreadStep ==
  ASSUME ThType, NEW t \in Threads, NEW x \in ThreadType, th' = [th EXCEPT ![t] = x]
  PROVE  ThType' /\ th'[t] = x /\ \A u \in Threads \ {t} : th'[u] = th[u]
BY DEF ThType

LEMMA AnswersTyped == \A a \in Answers : a \in AnyAnswer /\ a.after \in Int
BY Numbers DEF Answers, AnyAnswer

LEMMA JudgedType ==
  ASSUME NEW x \in ThreadType
  PROVE  Judged(x) \in ThreadType
<1>1. x.answer.kind \in Kinds \cup {"none", "internal"}
  BY DEF ThreadType, AnyAnswer
<1>2. [NoAnswer EXCEPT !.kind = x.answer.kind] \in AnyAnswer
  BY <1>1 DEF NoAnswer, AnyAnswer
<1> QED BY <1>2, Numbers DEF Judged, ThreadType, Pcs

LEMMA RepeatedType ==
  ASSUME NEW x \in ThreadType
  PROVE  Repeated(x) \in ThreadType /\ Repeated(x).attempt = x.attempt + 1
<1>1. NoAnswer \in AnyAnswer /\ x.attempt + 1 \in Nat
  BY DEF NoAnswer, AnyAnswer, ThreadType
<1> QED BY <1>1 DEF Repeated, ThreadType, Pcs

LEMMA TypeInit == Init => TypeInv
<1> SUFFICES ASSUME Init PROVE TypeInv
  OBVIOUS
<1> USE Numbers DEF Init
<1>1. ThType
  BY IdleType DEF ThType
<1>2. BucketType /\ LockType
  BY DEF BucketType, LockType
<1>3. MapType /\ TimeType
  BY DEF MapType, TimeType, Buckets, RouteType
<1>4. UaType
  BY DEF UaType, UaInit, NewConn, ConnType
<1> QED BY <1>1, <1>2, <1>3, <1>4 DEF TypeInv

LEMMA UaStep ==
  ASSUME UaType, NEW c \in 1..MaxConns,
         \/ \E type \in Types : ConnStart(c, type)
         \/ \E t \in Threads, n \in Nat : Receive(c, [by |-> t, attempt |-> n])
         \/ ConnReset(c)
         \/ ConnStop(c)
  PROVE  UaType'
<1> USE Numbers DEF UaType
<1> DEFINE R == [by : Threads, attempt : Nat]
<1>0. conn[c] \in ConnType
  OBVIOUS
<1>1. /\ conn[c].content_type \in Types \cup {NoType} /\ conn[c].received \in Seq(R)
      /\ \A y \in Seq(R) : [conn[c] EXCEPT !.received = y] \in ConnType
      /\ \A y \in Types : [conn[c] EXCEPT !.content_type = y] \in ConnType
  BY <1>0 DEF ConnType
<1>2. CASE \E type \in Types : ConnStart(c, type)
  <2>1. PICK type \in Types : ConnStart(c, type)
    BY <1>2
  <2>2. WithType(conn[c], type) \in ConnType
    BY <1>1 DEF WithType
  <2>3. Taken(c) \in Seq(1..MaxConns)
    BY HeadTailProperties DEF Taken
  <2> QED BY <2>1, <2>2, <2>3 DEF ConnStart
<1>3. CASE \E t \in Threads, n \in Nat : Receive(c, [by |-> t, attempt |-> n])
  <2>1. PICK t \in Threads, n \in Nat : Receive(c, [by |-> t, attempt |-> n])
    BY <1>3
  <2> DEFINE m == [by |-> t, attempt |-> n]
  <2>2. [conn[c] EXCEPT !.received = Append(@, m)] \in ConnType
    <3>1. m \in R
      OBVIOUS
    <3>2. Append(conn[c].received, m) \in Seq(R)
      BY <1>1, <3>1
    <3> QED BY <1>1, <3>2
  <2> QED BY <2>1, <2>2 DEF Receive
<1>4. [conn[c] EXCEPT !.received = <<>>] \in ConnType
  <2>1. <<>> \in Seq(R)
    OBVIOUS
  <2> QED BY <1>1, <2>1
<1>5. CASE ConnReset(c)
  BY <1>4, <1>5 DEF ConnReset, WithoutAnswer
<1>6. CASE ConnStop(c)
  BY <1>4, <1>6, RemoveAtType DEF ConnStop, WithoutAnswer
<1> QED BY <1>2, <1>3, <1>5, <1>6

-----------------------------------------------------------------------------
(* What each action does to a thread *)

\* There is room for the bucket of a route that is new.
LEMMA RoomToMake ==
  ASSUME TypeInv, RangeInv, MadeInv, NEW t \in Threads, th[t].pc = "create"
  PROVE  Len(routes) + 1 <= calls /\ made + 1 \in Buckets
<1>1. t \in Missing
  BY DEF RangeInv, Missing
<1>2. IsFiniteSet(Missing)
  BY FS_Subset, Numbers DEF Missing
<1>3. Cardinality(Missing) \in Nat /\ Cardinality(Missing) # 0
  BY <1>1, <1>2, FS_CardinalityType, FS_EmptySet
<1> QED BY <1>3, Numbers DEF MadeInv, TypeInv, MapType, TimeType, Buckets

\* A step of a thread changes the record of this thread only, and keeps its type.
LEMMA ThTypeStep ==
  ASSUME TypeInv, RangeInv, MadeInv, NEW t \in Threads, Step(t)
  PROVE  ThType' /\ \A u \in Threads \ {t} : th'[u] = th[u]
<1> DEFINE Goal == \E x \in ThreadType : th' = [th EXCEPT ![t] = x]
<1>1. SUFFICES Goal
  BY ThreadStep DEF TypeInv
<1>2. th[t] \in ThreadType /\ th \in [Threads -> ThreadType]
  BY DEF TypeInv, ThType
<1>3. \A now \in Nows : now \in Int
  BY NowsAreNumbers
<1>4. \A b \in Buckets : Timeout(b) \in Int /\ promise[b] \in Int /\ bucket[b].reset \in Int
  BY TimeoutType DEF TypeInv, BucketType
<1>5. global \in Int /\ made \in Buckets
  BY DEF TypeInv, TimeType, MapType
<1>6. ASSUME NEW pc \in Pcs, th' = [th EXCEPT ![t].pc = pc] PROVE Goal
  <2>1. [th[t] EXCEPT !.pc = pc] \in ThreadType
    BY <1>2 DEF ThreadType
  <2> QED BY <1>2, <1>6, <2>1
<1>7. CASE Lock(t)
  BY <1>6, <1>7 DEF Lock, Pcs
<1>8. CASE Look(t)
  <2>1. PICK now \in Nows :
          th' = [th EXCEPT ![t].pc = "send", ![t].until = Timeout(th[t].b) - now,
                           ![t].seen = IF th[t].b \in raced THEN Past ELSE promise[th[t].b]]
    BY <1>8 DEF Look
  <2> DEFINE x == [th[t] EXCEPT !.pc = "send", !.until = Timeout(th[t].b) - now,
                               !.seen = IF th[t].b \in raced THEN Past ELSE promise[th[t].b]]
  <2>2. /\ Timeout(th[t].b) - now \in Int
        /\ (IF th[t].b \in raced THEN Past ELSE promise[th[t].b]) \in Int
    BY <1>2, <1>3, <1>4, Numbers DEF ThreadType
  <2>3. x \in ThreadType
    BY <1>2, <2>2 DEF ThreadType, Pcs
  <2>4. th' = [th EXCEPT ![t] = x]
    BY <2>1, <1>2
  <2> QED BY <2>3, <2>4
<1>9. CASE Send(t)
  <2>1. [th[t] EXCEPT !.pc = "perform", !.until = Past] \in ThreadType
    BY <1>2, Numbers DEF ThreadType, Pcs
  <2> QED BY <1>2, <1>9, <2>1 DEF Send
<1>10. CASE Answer(t)
  <2>1. PICK a \in Answers, now \in Nows :
          th' = [th EXCEPT ![t].pc = "stamp", ![t].answer = a, ![t].until = WaitAfter(a, now),
                           ![t].seen = Past,
                           ![t].bound = IF Binding(a) THEN a.after ELSE Past]
    BY <1>10 DEF Answer
  <2> DEFINE x == [th[t] EXCEPT !.pc = "stamp", !.answer = a, !.until = WaitAfter(a, now),
                               !.seen = Past, !.bound = IF Binding(a) THEN a.after ELSE Past]
  <2>2. /\ WaitAfter(a, now) \in Int
        /\ (IF Binding(a) THEN a.after ELSE Past) \in Int /\ a \in AnyAnswer
    BY <1>3, <1>5, AnswersTyped, Numbers DEF WaitAfter
  <2> HIDE DEF Binding, WaitAfter
  <2>3. x \in ThreadType
    BY <1>2, <2>2, Numbers DEF ThreadType, Pcs
  <2>4. th' = [th EXCEPT ![t] = x]
    BY <2>1, <1>2
  <2> QED BY <2>3, <2>4
<1>11. CASE Fail(t)
  <2> DEFINE a == [NoAnswer EXCEPT !.kind = "internal"]
             x == [th[t] EXCEPT !.pc = "again", !.answer = a, !.until = Past, !.seen = Past]
  <2>1. a \in AnyAnswer
    BY DEF NoAnswer, AnyAnswer
  <2>2. th' = [th EXCEPT ![t] = x]
    BY <1>2, <1>11 DEF Fail
  <2> HIDE DEF a
  <2>3. x \in ThreadType
    BY <1>2, <2>1, Numbers DEF ThreadType, Pcs
  <2> QED BY <2>2, <2>3
<1>12. CASE Stamp(t)
  <2> DEFINE x == [th[t] EXCEPT !.pc = IF th[t].b = NullBucket THEN "match" ELSE "populate",
                               !.target = th[t].b]
  <2>1. x \in ThreadType
    BY <1>2 DEF ThreadType, Pcs
  <2>2. th' = [th EXCEPT ![t] = x]
    BY <1>2, <1>12 DEF Stamp
  <2> QED BY <2>1, <2>2
<1>13. CASE Match(t)
  <2> DEFINE pc == IF Known(th[t].route) = {} THEN "create" ELSE "populate"
             x == [th[t] EXCEPT !.pc = pc, !.target = BucketOf(th[t].route)]
  <2>1. pc \in Pcs /\ BucketOf(th[t].route) \in Buckets
    BY <1>2, BucketOfType DEF ThreadType, Pcs
  <2>2. th' = [th EXCEPT ![t] = x]
    BY <1>2, <1>13 DEF Match
  <2> HIDE DEF pc
  <2>3. x \in ThreadType
    BY <1>2, <2>1 DEF ThreadType
  <2> QED BY <2>2, <2>3
<1>14. CASE Create(t)
  <2>1. made + 1 \in Buckets
    BY <1>14, RoomToMake DEF Create
  <2>2. PICK b \in {made + 1, MissBucket} :
          th' = [th EXCEPT ![t].pc = "populate", ![t].target = b]
    BY <1>14 DEF Create
  <2> DEFINE x == [th[t] EXCEPT !.pc = "populate", !.target = b]
  <2>3. b \in Buckets
    BY <2>1, Numbers
  <2>4. x \in ThreadType
    BY <1>2, <2>3 DEF ThreadType, Pcs
  <2>5. th' = [th EXCEPT ![t] = x]
    BY <2>2, <1>2
  <2> QED BY <2>4, <2>5
<1>15. CASE Populate(t) \/ Window(t)
  <2>1. CASE th' = [th EXCEPT ![t] = Judged(@)]
    BY <1>2, <2>1, JudgedType
  <2>2. CASE th' # [th EXCEPT ![t] = Judged(@)]
    <3>1. PICK now \in Nows : LET a == th[t].answer IN
            th' = [th EXCEPT ![t].pc = "window",
                             ![t].now = IF a.after = Past THEN Past ELSE now + a.after]
      BY <1>15, <2>2 DEF Populate, Window
    <3> DEFINE n == IF th[t].answer.after = Past THEN Past ELSE now + th[t].answer.after
               x == [th[t] EXCEPT !.pc = "window", !.now = n]
    <3>2. th[t].answer.after \in Int
      BY <1>2, Numbers DEF ThreadType, AnyAnswer
    <3>3. n \in Int
      BY <3>2, <1>3, Numbers
    <3>4. th' = [th EXCEPT ![t] = x]
      BY <3>1, <1>2
    <3> HIDE DEF n
    <3>5. x \in ThreadType
      BY <1>2, <3>3 DEF ThreadType, Pcs
    <3> QED BY <3>4, <3>5
  <2> QED BY <2>1, <2>2
<1>16. CASE Nap(t)
  <2>1. [th[t] EXCEPT !.pc = "again", !.until = Past] \in ThreadType
    BY <1>2, Numbers DEF ThreadType, Pcs
  <2> QED BY <1>2, <1>16, <2>1 DEF Nap
<1>17. CASE Again(t)
  <2>1. CASE Repeats(th[t])
    <3>1. Repeated(th[t]) \in ThreadType
      BY <1>2, RepeatedType
    <3> QED BY <1>2, <1>17, <2>1, <3>1 DEF Again
  <2>2. CASE ~Repeats(th[t])
    <3>1. [Idle EXCEPT !.pc = "stop", !.conn = th[t].conn] \in ThreadType
      BY <1>2, IdleType DEF ThreadType, Pcs
    <3> QED BY <1>2, <1>17, <2>2, <3>1 DEF Again
  <2> QED BY <2>1, <2>2
<1>18. CASE Stop(t)
  BY <1>18, IdleType DEF Stop
<1> QED BY <1>7, <1>8, <1>9, <1>10, <1>11, <1>12, <1>13, <1>14, <1>15, <1>16, <1>17, <1>18 DEF Step

\* Time passes for every thread.
LEMMA TickStep ==
  ASSUME TypeInv, Tick
  PROVE  /\ ThType' /\ BucketType' /\ TimeType'
         /\ \A t \in Threads : th'[t] = OlderThread(th[t])
<1>1. \A n \in Int : Older(n) \in Int
  BY Numbers DEF Older
<1>2. \A x \in ThreadType : OlderThread(x) \in ThreadType
  <2> TAKE x \in ThreadType
  <2>1. /\ (IF x.until <= 0 THEN x.until ELSE x.until - 1) \in Int
        /\ Older(x.now) \in Int /\ Older(x.seen) \in Int /\ Older(x.bound) \in Int
    BY <1>1 DEF ThreadType
  <2> QED BY <2>1 DEF OlderThread, ThreadType
<1>3. ThType' /\ \A t \in Threads : th'[t] = OlderThread(th[t])
  BY <1>2 DEF Tick, ThType, TypeInv
<1>4. BucketType'
  <2>1. \A x \in [remaining : {0, 1}, reset : Int] :
          [x EXCEPT !.reset = Older(@)] \in [remaining : {0, 1}, reset : Int]
    BY <1>1
  <2> QED BY <1>1, <2>1 DEF Tick, BucketType, TypeInv
<1>5. TimeType'
  BY <1>1, Numbers DEF Tick, TimeType, TypeInv
<1> QED BY <1>3, <1>4, <1>5

\* A request begins.
LEMMA CallTh ==
  ASSUME TypeInv, NEW t \in Threads, NEW r \in Routes, NEW type \in Types, Call(t, r, type)
  PROVE  /\ ThType' /\ TimeType' /\ UaType'
         /\ \A u \in Threads \ {t} : th'[u] = th[u]
<1>1. PICK c \in 1..MaxConns :
        /\ ConnStart(c, type)
        /\ th' = [th EXCEPT ![t] = [Idle EXCEPT !.pc = "lock", !.conn = c, !.route = r, !.type = type,
                                             !.b = BucketOf(r)]]
  BY DEF Call
<1>2. [Idle EXCEPT !.pc = "lock", !.conn = c, !.route = r, !.type = type, !.b = BucketOf(r)]
        \in ThreadType
  <2>1. BucketOf(r) \in Buckets /\ c \in 0..MaxConns
    BY BucketOfType, Numbers
  <2> QED BY <2>1, IdleType DEF ThreadType, Pcs
<1>3. ThType' /\ \A u \in Threads \ {t} : th'[u] = th[u]
  BY <1>1, <1>2, ThreadStep DEF TypeInv
<1>4. TimeType'
  BY Numbers DEF Call, TypeInv, TimeType
<1> QED BY <1>1, <1>3, <1>4, UaStep DEF TypeInv

LEMMA TypeStep ==
  ASSUME TypeInv, RangeInv, MadeInv, [Next]_vars
  PROVE  TypeInv'
<1> USE DEF TypeInv
<1>1. ASSUME NEW t \in Threads, Step(t) PROVE TypeInv'
  <2>1. ThType'
    BY <1>1, ThTypeStep
  <2>2. th[t] \in ThreadType
    BY DEF ThType
  <2>3. th[t].b \in Buckets /\ th[t].target \in Buckets
    BY <2>2 DEF ThreadType
  <2>4. LockType'
    <3>1. CASE Lock(t)
      BY <2>3, <3>1 DEF Lock, LockType
    <3>2. CASE Again(t)
      BY <2>3, <3>2 DEF Again, Unlock, LockType
    <3> QED BY <1>1, <3>1, <3>2 DEF Step, LockType, Look, Send, Answer, Fail, Stamp, Match, Create,
              Populate, Window, Nap, Stop
  <2>5. BucketType'
    <3> DEFINE R == [remaining : {0, 1}, reset : Int]
    <3>1. /\ \A x \in R : \A n \in {0, 1} : [x EXCEPT !.remaining = n] \in R
          /\ \A x \in R : \A n \in Int : [x EXCEPT !.reset = n] \in R
      OBVIOUS
    <3>2. /\ th[t].answer.remaining \in {0, 1} /\ th[t].now \in Int /\ th[t].bound \in Int
      BY <2>2 DEF ThreadType, AnyAnswer
    <3>3. /\ bucket \in [Buckets -> R] /\ promise \in [Buckets -> Int] /\ raced \subseteq Buckets
      BY DEF BucketType
    <3>4. Unlocked(t) \subseteq Buckets
      BY <2>3 DEF Unlocked
    <3> HIDE DEF R
    <3>5. CASE Populate(t)
      <4>1. \/ bucket' = bucket
            \/ bucket' = [bucket EXCEPT ![th[t].target] =
                                          [@ EXCEPT !.remaining = th[t].answer.remaining]]
        BY <3>5 DEF Populate
      <4>2. [bucket[th[t].target] EXCEPT !.remaining = th[t].answer.remaining] \in R
        BY <2>3, <3>1, <3>2, <3>3
      <4>3. bucket' \in [Buckets -> R]
        BY <2>3, <3>3, <4>1, <4>2
      <4> QED BY <3>3, <3>4, <3>5, <4>3 DEF Populate, BucketType, R
    <3>6. CASE Window(t)
      <4>1. \/ bucket' = bucket
            \/ bucket' = [bucket EXCEPT ![th[t].target] = [@ EXCEPT !.reset = th[t].now]]
        BY <3>6 DEF Window
      <4>2. bucket' \in [Buckets -> R]
        BY <2>3, <3>1, <3>2, <3>3, <4>1
      <4>3. promise' \in [Buckets -> Int]
        <5>1. \/ promise' = [promise EXCEPT ![th[t].target] = @]
              \/ promise' = [promise EXCEPT ![th[t].target] = th[t].bound]
          BY <3>6 DEF Window
        <5> QED BY <2>3, <3>2, <3>3, <5>1
      <4> QED BY <3>3, <3>4, <3>6, <4>2, <4>3 DEF Window, BucketType, R
    <3> QED BY <1>1, <3>5, <3>6 DEF Step, BucketType, Lock, Look, Send, Answer, Fail, Stamp, Match,
              Create, Nap, Again, Stop
  <2>6. MapType'
    <3>1. CASE Create(t)
      <4>1. PICK b \in {made + 1, MissBucket} :
              /\ routes' = Append(routes, [route |-> th[t].route, bucket |-> b])
              /\ made' \in {made, b} /\ (made' = b => b = made + 1 \/ made' = made)
        BY <3>1 DEF Create
      <4>2. made + 1 \in Buckets /\ b \in Buckets
        BY <3>1, RoomToMake, Numbers DEF Create
      <4>3. [route |-> th[t].route, bucket |-> b] \in RouteType
        BY <2>2, <4>2 DEF RouteType, ThreadType
      <4>4. routes' \in Seq(RouteType)
        BY <4>1, <4>3 DEF MapType
      <4> QED BY <4>1, <4>2, <4>4 DEF MapType
    <3> QED BY <1>1, <3>1 DEF Step, MapType, Lock, Look, Send, Answer, Fail, Stamp, Match,
              Populate, Window, Nap, Again, Stop
  <2>7. TimeType'
    <3>1. CASE Stamp(t)
      BY <3>1, Numbers DEF Stamp, Stamped, TimeType
    <3>2. CASE Window(t)
      <4>1. th[t].now \in Int
        BY <2>2 DEF ThreadType
      <4> QED BY <3>2, <4>1 DEF Window, TimeType
    <3> QED BY <1>1, <3>1, <3>2 DEF Step, TimeType, Lock, Look, Send, Answer, Fail, Match,
              Create, Populate, Nap, Again, Stop
  <2>8. UaType'
    <3>1. th[t].attempt \in Nat /\ th[t].conn \in 0..MaxConns
      BY <2>2 DEF ThreadType
    <3>2. ASSUME th[t].pc # "idle" PROVE th[t].conn \in 1..MaxConns
      BY <3>1, <3>2, Numbers DEF RangeInv
    <3>3. ASSUME th[t].pc # "idle",
                 \/ Receive(th[t].conn, [by |-> t, attempt |-> th[t].attempt])
                 \/ ConnReset(th[t].conn) \/ ConnStop(th[t].conn)
          PROVE UaType'
      <4>1. th[t].conn \in 1..MaxConns
        BY <3>2, <3>3
      <4> QED BY <3>1, <3>3, <4>1, UaStep
    <3>4. CASE Answer(t)
      BY <3>3, <3>4 DEF Answer
    <3>5. CASE Fail(t)
      BY <3>3, <3>5 DEF Fail, uaVars, UaType
    <3>6. CASE Again(t)
      BY <3>3, <3>6 DEF Again
    <3>7. CASE Stop(t)
      BY <3>3, <3>7 DEF Stop
    <3> QED BY <1>1, <3>4, <3>5, <3>6, <3>7 DEF Step, uaVars, UaType, Lock, Look, Send, Stamp,
              Match, Create, Populate, Window, Nap
  <2> QED BY <2>1, <2>4, <2>5, <2>6, <2>7, <2>8
<1>2. ASSUME NEW t \in Threads, NEW r \in Routes, NEW type \in Types, Call(t, r, type)
      PROVE  TypeInv'
  BY <1>2, CallTh DEF Call, BucketType, LockType, MapType
<1>3. CASE LoopStamps
  BY <1>3, Numbers DEF LoopStamps, uaVars, ThType, BucketType, LockType, MapType, TimeType, UaType
<1>4. CASE Tick
  BY <1>4, TickStep DEF Tick, uaVars, LockType, MapType, UaType
<1>5. CASE UNCHANGED vars
  BY <1>5 DEF vars, syncVars, uaVars, ThType, BucketType, LockType, MapType, TimeType, UaType
<1> QED BY <1>1, <1>2, <1>3, <1>4, <1>5 DEF Next

-----------------------------------------------------------------------------
(* Buckets, routes and locks *)

\* The request of a thread stays what it is until the handle is given back.
LEMMA RequestStays ==
  ASSUME TypeInv, NEW t \in Threads, Step(t), th'[t].pc \notin {"idle", "stop"}
  PROVE  /\ th[t].pc \notin {"idle", "stop"}
         /\ th'[t].route = th[t].route /\ th'[t].type = th[t].type
         /\ th'[t].b = th[t].b /\ th'[t].conn = th[t].conn
         /\ th[t].pc = "lock" => Lock(t)
<1>1. th[t] \in ThreadType /\ th \in [Threads -> ThreadType]
  BY DEF TypeInv, ThType
<1> USE <1>1
<1>2. CASE Lock(t) \/ Send(t) \/ Nap(t)
  BY <1>2 DEF Lock, Send, Nap, ThreadType
<1>9. CASE Look(t)
  <2>1. PICK now \in Nows :
          th' = [th EXCEPT ![t].pc = "send", ![t].until = Timeout(th[t].b) - now,
                           ![t].seen = IF th[t].b \in raced THEN Past ELSE promise[th[t].b]]
    BY <1>9 DEF Look
  <2> QED BY <1>9, <2>1 DEF Look, ThreadType
<1>3. CASE Answer(t)
  <2>1. PICK a \in Answers, now \in Nows :
          th' = [th EXCEPT ![t].pc = "stamp", ![t].answer = a, ![t].until = WaitAfter(a, now),
                           ![t].seen = Past,
                           ![t].bound = IF Binding(a) THEN a.after ELSE Past]
    BY <1>3 DEF Answer
  <2> HIDE DEF WaitAfter, Binding
  <2> QED BY <1>3, <2>1 DEF Answer, ThreadType
<1>4. CASE Fail(t) \/ Stamp(t) \/ Match(t)
  BY <1>4 DEF Fail, Stamp, Match, ThreadType
<1>5. CASE Create(t)
  <2>1. PICK b \in {made + 1, MissBucket} :
          th' = [th EXCEPT ![t].pc = "populate", ![t].target = b]
    BY <1>5 DEF Create
  <2> QED BY <1>5, <2>1 DEF Create, ThreadType
<1>6. CASE Populate(t) \/ Window(t)
  <2>1. CASE th' = [th EXCEPT ![t] = Judged(@)]
    <3>1. /\ Judged(th[t]).route = th[t].route /\ Judged(th[t]).type = th[t].type
          /\ Judged(th[t]).b = th[t].b /\ Judged(th[t]).conn = th[t].conn
      BY DEF Judged, ThreadType
    <3> QED BY <1>6, <2>1, <3>1 DEF Populate, Window
  <2>2. CASE th' # [th EXCEPT ![t] = Judged(@)]
    BY <1>6, <2>2 DEF Populate, Window, ThreadType
  <2> QED BY <2>1, <2>2
<1>7. CASE Again(t)
  <2>1. CASE Repeats(th[t])
    <3>1. /\ Repeated(th[t]).route = th[t].route /\ Repeated(th[t]).type = th[t].type
          /\ Repeated(th[t]).b = th[t].b /\ Repeated(th[t]).conn = th[t].conn
      BY DEF Repeated, ThreadType
    <3> QED BY <1>7, <2>1, <3>1 DEF Again
  <2>2. CASE ~Repeats(th[t])
    BY <1>7, <2>2 DEF Again, Idle
  <2> QED BY <2>1, <2>2
<1>8. CASE Stop(t)
  BY <1>8 DEF Stop, Idle
<1> QED BY <1>2, <1>3, <1>4, <1>5, <1>6, <1>7, <1>8, <1>9 DEF Step

\* Only Create changes the routes and makes a bucket.
LEMMA RoutesStay ==
  ASSUME NEW t \in Threads, Step(t), ~Create(t)
  PROVE  routes' = routes /\ made' = made /\ \A r : Known(r)' = Known(r)
BY DEF Step, Known, Lock, Look, Send, Answer, Fail, Stamp, Match, Populate, Window, Nap, Again, Stop

LEMMA RouteAdded ==
  ASSUME TypeInv, RangeInv, MadeInv, NEW t \in Threads, Create(t)
  PROVE  \E b \in {made + 1, MissBucket} :
           /\ routes' = Append(routes, [route |-> th[t].route, bucket |-> b])
           /\ Len(routes') = Len(routes) + 1
           /\ b \in Buckets /\ made' = (IF b = MissBucket THEN made ELSE b)
           /\ th'[t].target = b /\ th'[t].pc = "populate"
           /\ \A r : /\ Known(r) \subseteq Known(r)'
                     /\ r # th[t].route => Known(r)' = Known(r)
           /\ Known(th[t].route)' # {}
<1>1. PICK b \in {made + 1, MissBucket} :
        /\ routes' = Append(routes, [route |-> th[t].route, bucket |-> b])
        /\ made' = (IF b = MissBucket THEN made ELSE b)
        /\ th' = [th EXCEPT ![t].pc = "populate", ![t].target = b]
  BY DEF Create
<1> DEFINE e == [route |-> th[t].route, bucket |-> b]
<1>2. made + 1 \in Buckets /\ b \in Buckets
  BY <1>1, RoomToMake, Numbers DEF Create
<1>3. th[t] \in ThreadType /\ th \in [Threads -> ThreadType] /\ routes \in Seq(RouteType)
  BY DEF TypeInv, ThType, MapType
<1>4. e \in RouteType /\ e.route = th[t].route
  BY <1>2, <1>3 DEF RouteType, ThreadType
<1>5. th'[t].target = b /\ th'[t].pc = "populate"
  BY <1>1, <1>3 DEF ThreadType
<1> HIDE DEF e
<1>6. /\ Len(routes') = Len(routes) + 1 /\ DOMAIN routes = 1..Len(routes)
      /\ DOMAIN routes' = 1..Len(routes) + 1 /\ Len(routes) \in Nat
      /\ \A i \in 1..Len(routes) : routes'[i] = routes[i]
      /\ routes'[Len(routes) + 1] = e
  BY <1>1, <1>3, <1>4 DEF e
<1>7. ASSUME NEW r
      PROVE  /\ Known(r) \subseteq Known(r)'
             /\ r # th[t].route => Known(r)' = Known(r)
  <2>1. /\ Known(r) = {i \in 1..Len(routes) : routes[i].route = r}
        /\ Known(r)' = {i \in 1..Len(routes) + 1 : routes'[i].route = r}
    BY <1>6 DEF Known
  <2>2. \A i \in 1..Len(routes) + 1 : i \in 1..Len(routes) \/ i = Len(routes) + 1
    BY <1>6
  <2> QED BY <1>4, <1>6, <2>1, <2>2
<1>8. Known(th[t].route)' # {}
  <2>1. Len(routes) + 1 \in DOMAIN routes' /\ routes'[Len(routes) + 1].route = th[t].route
    BY <1>4, <1>6
  <2>2. th'[t].route = th[t].route
    BY <1>1, <1>3 DEF ThreadType
  <2> QED BY <2>1, <2>2 DEF Known
<1> QED BY <1>1, <1>2, <1>5, <1>6, <1>7, <1>8

\* A request that is missing a route adds it at most once.
LEMMA MadeStep ==
  ASSUME TypeInv, RangeInv, MadeInv, [Next]_vars
  PROVE  MadeInv'
<1>1. /\ IsFiniteSet(Missing) /\ Cardinality(Missing) \in Nat
      /\ \A S : S \subseteq Missing => IsFiniteSet(S) /\ Cardinality(S) <= Cardinality(Missing)
      /\ \A S : S \subseteq Missing => Cardinality(S) \in Nat
  <2>1. IsFiniteSet(Missing)
    BY FS_Subset, Numbers DEF Missing
  <2> QED BY <2>1, FS_Subset, FS_CardinalityType
<1>2. Len(routes) \in Nat /\ made \in Nat /\ calls \in Nat
  BY Numbers DEF TypeInv, MapType, TimeType, Buckets
<1>3. ASSUME routes' = routes, made' = made, calls' = calls, Missing' \subseteq Missing
      PROVE  MadeInv'
  BY <1>1, <1>2, <1>3 DEF MadeInv
<1>4. ASSUME NEW t \in Threads, Step(t) PROVE MadeInv'
  <2>1. \A u \in Threads \ {t} : th'[u] = th[u]
    BY <1>4, ThTypeStep
  <2>2. th'[t].pc \notin {"idle", "stop"} =>
          th[t].pc \notin {"idle", "stop"} /\ th'[t].route = th[t].route
    BY <1>4, RequestStays
  <2>3. calls' = calls
    BY <1>4 DEF Step, Lock, Look, Send, Answer, Fail, Stamp, Match, Create, Populate, Window,
                Nap, Again, Stop
  <2>4. CASE Create(t)
    <3>1. /\ Len(routes') = Len(routes) + 1
          /\ \A r : Known(r) \subseteq Known(r)'
          /\ Known(th[t].route)' # {}
      BY <2>4, <1>2, RouteAdded
    <3>2. t \in Missing
      BY <2>4 DEF Create, RangeInv, Missing
    <3>3. Missing' \subseteq Missing \ {t}
      BY <2>1, <2>2, <3>1 DEF Missing
    <3>4. Cardinality(Missing') <= Cardinality(Missing) - 1
      <4>1. Cardinality(Missing \ {t}) = Cardinality(Missing) - 1
        BY <1>1, <3>2, FS_RemoveElement
      <4> QED BY <1>1, <3>3, <4>1, FS_Subset
    <3>5. Cardinality(Missing') \in Nat
      BY <1>1, <3>3
    <3>6. made' <= made + 1 /\ made' \in Nat
      <4>1. \E b \in {made + 1, MissBucket} : made' = IF b = MissBucket THEN made ELSE b
        BY <2>4, RouteAdded
      <4> QED BY <1>2, <4>1 DEF MissBucket
    <3> QED BY <1>1, <1>2, <2>3, <3>1, <3>4, <3>5, <3>6 DEF MadeInv
  <2>5. CASE ~Create(t)
    <3>1. routes' = routes /\ made' = made /\ \A r : Known(r)' = Known(r)
      BY <1>4, <2>5, RoutesStay
    <3>2. Missing' \subseteq Missing
      BY <2>1, <2>2, <3>1 DEF Missing
    <3> QED BY <1>3, <2>3, <3>1, <3>2
  <2> QED BY <2>4, <2>5
<1>5. ASSUME NEW t \in Threads, NEW r \in Routes, NEW type \in Types, Call(t, r, type)
      PROVE  MadeInv'
  <2>1. \A u \in Threads \ {t} : th'[u] = th[u]
    BY <1>5, CallTh
  <2>2. routes' = routes /\ made' = made /\ calls' = calls + 1 /\ \A q : Known(q)' = Known(q)
    BY <1>5 DEF Call, Known
  <2>3. Missing' \subseteq Missing \cup {t}
    BY <2>1, <2>2 DEF Missing
  <2>4. /\ IsFiniteSet(Missing \cup {t})
        /\ Cardinality(Missing \cup {t}) <= Cardinality(Missing) + 1
        /\ Cardinality(Missing \cup {t}) \in Nat
    BY <1>1, FS_AddElement, FS_CardinalityType
  <2>5. Cardinality(Missing') <= Cardinality(Missing \cup {t}) /\ Cardinality(Missing') \in Nat
    BY <2>3, <2>4, FS_Subset, FS_CardinalityType
  <2> QED BY <1>1, <1>2, <2>2, <2>4, <2>5 DEF MadeInv
<1>6. CASE LoopStamps
  BY <1>3, <1>6 DEF LoopStamps, Missing, Known
<1>7. CASE Tick
  <2>1. \A t \in Threads : th'[t].pc = th[t].pc /\ th'[t].route = th[t].route
    <3>1. \A x \in ThreadType : OlderThread(x).pc = x.pc /\ OlderThread(x).route = x.route
      BY DEF OlderThread, ThreadType
    <3> QED BY <1>7, <3>1, TickStep DEF TypeInv, ThType
  <2>2. routes' = routes /\ made' = made /\ calls' = calls /\ \A q : Known(q)' = Known(q)
    BY <1>7 DEF Tick, Known
  <2>3. Missing' \subseteq Missing
    BY <2>1, <2>2 DEF Missing
  <2> QED BY <1>3, <2>2, <2>3
<1>8. CASE UNCHANGED vars
  BY <1>3, <1>8 DEF vars, syncVars, Missing, Known
<1> QED BY <1>4, <1>5, <1>6, <1>7, <1>8 DEF Next

LEMMA LockStep ==
  ASSUME TypeInv, RangeInv, MadeInv, LockInv, [Next]_vars
  PROVE  LockInv'
<1>1. th \in [Threads -> ThreadType] /\ lock \in [Buckets -> Threads \cup {NoThread}]
  BY DEF TypeInv, ThType, LockType
<1>2. \A t \in Threads : th[t].b \in Buckets
  BY <1>1 DEF ThreadType
<1>3. ASSUME NEW t \in Threads, Step(t) PROVE LockInv'
  <2>1. \A u \in Threads \ {t} : th'[u] = th[u]
    BY <1>3, ThTypeStep
  <2>2. SUFFICES ASSUME NEW u \in Threads, Holding(u)' PROVE lock'[th'[u].b] = u
    BY DEF LockInv
  <2>3. CASE u = t
    <3>1. th[t].pc \notin {"idle", "stop"} /\ th'[t].b = th[t].b /\ (th[t].pc = "lock" => Lock(t))
      BY <1>3, <2>2, <2>3, RequestStays DEF Holding, Using
    <3>2. CASE th[t].pc = "lock"
      BY <1>1, <1>2, <2>3, <3>1, <3>2 DEF Lock
    <3>3. CASE th[t].pc # "lock"
      <4>1. lock[th[t].b] = t
        BY <3>1, <3>3 DEF LockInv, Holding, Using
      <4>2. lock' = lock
        <5>1. ~Lock(t)
          BY <3>3 DEF Lock
        <5>2. ASSUME Again(t) PROVE lock' = lock
          <6>1. CASE Repeats(th[t])
            BY <5>2, <6>1 DEF Again
          <6>2. CASE ~Repeats(th[t])
            <7>1. [Idle EXCEPT !.pc = "stop", !.conn = th[t].conn].pc = "stop"
              BY DEF Idle
            <7>2. th'[t].pc = "stop"
              BY <1>1, <5>2, <6>2, <7>1 DEF Again
            <7> QED BY <2>2, <2>3, <7>2 DEF Holding
          <6> QED BY <6>1, <6>2
        <5> QED BY <1>3, <5>1, <5>2 DEF Step, Look, Send, Answer, Fail, Stamp, Match, Create,
                  Populate, Window, Nap, Stop
      <4> QED BY <2>3, <3>1, <4>1, <4>2
    <3> QED BY <3>2, <3>3
  <2>4. CASE u # t
    <3>1. th'[u] = th[u] /\ lock[th[u].b] = u /\ u # NoThread
      BY <2>1, <2>2, <2>4, Numbers DEF LockInv, Holding, Using
    <3>2. CASE Lock(t)
      BY <1>1, <1>2, <3>1, <3>2 DEF Lock, MayLock
    <3>3. CASE Again(t)
      <4>1. CASE Repeats(th[t])
        BY <3>1, <3>3, <4>1 DEF Again
      <4>2. CASE ~Repeats(th[t])
        <5>1. lock[th[t].b] = t
          BY <3>3 DEF Again, LockInv, Holding, Using
        <5>2. lock' = [lock EXCEPT ![th[t].b] = NoThread]
          BY <3>3, <4>2 DEF Again, Unlock
        <5>3. th[u].b # th[t].b
          BY <2>4, <3>1, <5>1
        <5> QED BY <1>1, <1>2, <3>1, <5>2, <5>3
      <4> QED BY <4>1, <4>2
    <3>4. CASE ~Lock(t) /\ ~Again(t)
      <4>1. lock' = lock
        BY <1>3, <3>4 DEF Step, Look, Send, Answer, Fail, Stamp, Match, Create, Populate, Window,
                          Nap, Stop
      <4> QED BY <3>1, <4>1
    <3> QED BY <3>2, <3>3, <3>4
  <2> QED BY <2>3, <2>4
<1>4. ASSUME NEW t \in Threads, NEW r \in Routes, NEW type \in Types, Call(t, r, type)
      PROVE  LockInv'
  <2>1. \A u \in Threads \ {t} : th'[u] = th[u]
    BY <1>4, CallTh
  <2>2. th'[t].pc = "lock"
    <3>1. \A c \in 1..MaxConns :
            [Idle EXCEPT !.pc = "lock", !.conn = c, !.route = r, !.type = type,
                         !.b = BucketOf(r)].pc = "lock"
      BY DEF Idle
    <3> QED BY <1>1, <1>4, <3>1 DEF Call
  <2>3. lock' = lock
    BY <1>4 DEF Call
  <2> QED BY <2>1, <2>2, <2>3 DEF LockInv, Holding, Using
<1>5. CASE LoopStamps \/ UNCHANGED vars
  BY <1>5 DEF LoopStamps, vars, syncVars, LockInv, Holding, Using
<1>6. CASE Tick
  <2>1. \A x \in ThreadType : OlderThread(x).pc = x.pc /\ OlderThread(x).b = x.b
    BY DEF OlderThread, ThreadType
  <2>2. \A t \in Threads : th'[t].pc = th[t].pc /\ th'[t].b = th[t].b
    BY <1>1, <1>6, <2>1, TickStep
  <2>3. lock' = lock
    BY <1>6 DEF Tick
  <2> QED BY <2>2, <2>3 DEF LockInv, Holding, Using
<1> QED BY <1>3, <1>4, <1>5, <1>6 DEF Next

\* One thread at a time is on its way to add a route.
LEMMA OneCreates ==
  ASSUME RangeInv, LockInv, NEW t \in Threads, NEW u \in Threads,
         th[t].pc = "create", th[u].pc = "create"
  PROVE  t = u
BY DEF RangeInv, LockInv, Holding, Using

\* What a step that adds no route may do to what RangeInv says of a thread: x is the
\* record before and y after it, found the bucket of the route.
Moved(x, y, found, unknown) ==
  /\ x.pc # "idle"
  /\ \/ /\ y.b = x.b /\ y.conn = x.conn /\ y.type = x.type /\ y.route = x.route
        /\ x.pc # "stop"
        /\ \/ /\ y.attempt = x.attempt /\ y.target \in {x.target, x.b, NullBucket}
              /\ (y.pc \notin {"match", "create"}) \/ (y.pc = "match" /\ x.b = NullBucket)
           \/ /\ y.attempt = x.attempt /\ y.target = found /\ x.pc = "match"
              /\ y.pc \in {"create", "populate"} /\ (y.pc = "create" => unknown)
           \/ /\ y.attempt = x.attempt + 1 /\ x.attempt < RetryLimit /\ y.target = x.target
              /\ y.pc = "look"
     \/ /\ y.b = NullBucket /\ y.target = NullBucket /\ y.attempt = 0
        /\ y.pc = "idle" \/ (y.pc = "stop" /\ y.conn = x.conn)

LEMMA Moves ==
  ASSUME TypeInv, NEW t \in Threads, Step(t), ~Create(t)
  PROVE  Moved(th[t], th'[t], BucketOf(th[t].route), Known(th[t].route) = {})
<1> DEFINE Goal == Moved(th[t], th'[t], BucketOf(th[t].route), Known(th[t].route) = {})
<1>1. th[t] \in ThreadType /\ th \in [Threads -> ThreadType]
  BY DEF TypeInv, ThType
<1>2. CASE Lock(t) \/ Send(t) \/ Fail(t) \/ Nap(t)
  BY <1>1, <1>2 DEF Lock, Send, Fail, Nap, ThreadType, Moved
<1>3. CASE Look(t)
  <2>1. PICK now \in Nows :
          th' = [th EXCEPT ![t].pc = "send", ![t].until = Timeout(th[t].b) - now,
                           ![t].seen = IF th[t].b \in raced THEN Past ELSE promise[th[t].b]]
    BY <1>3 DEF Look
  <2> QED BY <1>1, <1>3, <2>1 DEF Look, ThreadType, Moved
<1>4. CASE Answer(t)
  <2>1. PICK a \in Answers, now \in Nows :
          th' = [th EXCEPT ![t].pc = "stamp", ![t].answer = a, ![t].until = WaitAfter(a, now),
                           ![t].seen = Past,
                           ![t].bound = IF Binding(a) THEN a.after ELSE Past]
    BY <1>4 DEF Answer
  <2> HIDE DEF WaitAfter, Binding
  <2> QED BY <1>1, <1>4, <2>1 DEF Answer, ThreadType, Moved
<1>5. CASE Stamp(t)
  BY <1>1, <1>5 DEF Stamp, ThreadType, Moved
<1>6. CASE Match(t)
  BY <1>1, <1>6 DEF Match, ThreadType, Moved
<1>7. CASE Populate(t) \/ Window(t)
  <2>1. th[t].pc \in {"populate", "window"}
    BY <1>7 DEF Populate, Window
  <2>2. CASE th' = [th EXCEPT ![t] = Judged(@)]
    <3>1. /\ Judged(th[t]).attempt = th[t].attempt /\ Judged(th[t]).target = NullBucket
          /\ Judged(th[t]).b = th[t].b /\ Judged(th[t]).conn = th[t].conn
          /\ Judged(th[t]).type = th[t].type /\ Judged(th[t]).pc = "nap"
          /\ Judged(th[t]).route = th[t].route
      BY <1>1 DEF Judged, ThreadType
    <3>2. th'[t] = Judged(th[t])
      BY <1>1, <2>2
    <3> QED BY <2>1, <3>1, <3>2 DEF Moved
  <2>3. CASE th' # [th EXCEPT ![t] = Judged(@)]
    BY <1>1, <1>7, <2>1, <2>3 DEF Populate, Window, ThreadType, Moved
  <2> QED BY <2>2, <2>3
<1>8. CASE Again(t)
  <2>1. CASE Repeats(th[t])
    <3>1. /\ Repeated(th[t]).attempt = th[t].attempt + 1
          /\ Repeated(th[t]).target = th[t].target
          /\ Repeated(th[t]).b = th[t].b /\ Repeated(th[t]).conn = th[t].conn
          /\ Repeated(th[t]).type = th[t].type /\ Repeated(th[t]).pc = "look"
          /\ Repeated(th[t]).route = th[t].route
      BY <1>1, RepeatedType DEF Repeated, ThreadType
    <3>2. th'[t] = Repeated(th[t]) /\ th[t].pc = "again" /\ th[t].attempt < RetryLimit
      BY <1>1, <1>8, <2>1 DEF Again, Repeats
    <3> QED BY <3>1, <3>2 DEF Moved
  <2>2. CASE ~Repeats(th[t])
    <3> DEFINE x == [Idle EXCEPT !.pc = "stop", !.conn = th[t].conn]
    <3>1. /\ x.b = NullBucket /\ x.target = NullBucket /\ x.attempt = 0
          /\ x.pc = "stop" /\ x.conn = th[t].conn
      BY DEF Idle
    <3>2. th'[t] = x /\ th[t].pc # "idle"
      BY <1>1, <1>8, <2>2 DEF Again
    <3> QED BY <3>1, <3>2 DEF Moved
  <2> QED BY <2>1, <2>2
<1>9. CASE Stop(t)
  <2>1. th'[t] = Idle /\ th[t].pc = "stop"
    BY <1>1, <1>9 DEF Stop
  <2> QED BY <2>1 DEF Idle, Moved
<1> QED BY <1>2, <1>3, <1>4, <1>5, <1>6, <1>7, <1>8, <1>9 DEF Step

LEMMA RangeStep ==
  ASSUME TypeInv, RangeInv, MadeInv, LockInv, [Next]_vars
  PROVE  RangeInv'
<1> DEFINE Fits(t) ==
      /\ th[t].b <= made /\ th[t].target <= made /\ th[t].attempt <= RetryLimit
      /\ th[t].pc \in {"match", "create"} => th[t].b = NullBucket
      /\ th[t].pc = "create" => Known(th[t].route) = {}
      /\ th[t].pc # "idle" => th[t].conn # 0
      /\ th[t].pc \notin {"idle", "stop"} => th[t].type \in Types
    Listed == \A i \in 1..Len(routes) : routes[i].bucket \in 2..made
<1>1. (\A t \in Threads : Fits(t)) /\ Listed
  BY DEF RangeInv
<1>2. SUFFICES (\A t \in Threads : Fits(t)') /\ Listed'
  BY DEF RangeInv
<1>3. /\ th \in [Threads -> ThreadType] /\ routes \in Seq(RouteType) /\ made \in Nat /\ made >= 2
      /\ \A t \in Threads : th[t] \in ThreadType /\ th[t].b \in Nat /\ th[t].target \in Nat
                            /\ th[t].attempt \in Nat /\ th[t].conn \in 0..MaxConns
  BY DEF TypeInv, ThType, MapType, ThreadType, Buckets
<1>4. \A r \in Routes : BucketOf(r) <= made
  BY <1>1, <1>3, BucketOfType DEF Known, NullBucket
<1>5. ASSUME NEW t \in Threads, Step(t) PROVE (\A u \in Threads : Fits(u)') /\ Listed'
  <2>1. \A u \in Threads \ {t} : th'[u] = th[u]
    BY <1>5, ThTypeStep
  <2>2. CASE Create(t)
    <3>1. PICK b \in {made + 1, MissBucket} :
           /\ routes' = Append(routes, [route |-> th[t].route, bucket |-> b])
           /\ Len(routes') = Len(routes) + 1
           /\ b \in Buckets /\ made' = (IF b = MissBucket THEN made ELSE b)
           /\ th'[t].target = b /\ th'[t].pc = "populate"
           /\ \A r : r # th[t].route => Known(r)' = Known(r)
      BY <2>2, RouteAdded
    <3>2. made' \in Nat /\ made' >= made /\ b \in 2..made'
      BY <1>3, <3>1 DEF MissBucket
    <3>3. Listed'
      <4> DEFINE e == [route |-> th[t].route, bucket |-> b]
      <4>1. e.bucket = b
        OBVIOUS
      <4> HIDE DEF e
      <4>2. /\ \A i \in 1..Len(routes) : routes'[i] = routes[i]
            /\ routes'[Len(routes) + 1] = e /\ Len(routes) \in Nat
        BY <1>3, <3>1 DEF e
      <4>3. \A i \in 1..Len(routes') : i \in 1..Len(routes) \/ i = Len(routes) + 1
        BY <3>1, <4>2
      <4> QED BY <1>1, <1>3, <3>2, <4>1, <4>2, <4>3
    <3>4. \A u \in Threads \ {t} : Fits(u)'
      <4> TAKE u \in Threads \ {t}
      <4>1. th[u].pc # "create"
        BY <2>2, OneCreates DEF Create
      <4> QED BY <1>1, <1>3, <2>1, <3>2, <4>1
    <3>5. Fits(t)'
      <4>1. /\ th'[t].b = th[t].b /\ th'[t].type = th[t].type /\ th'[t].conn = th[t].conn
            /\ th[t].pc \notin {"idle", "stop"}
        BY <1>5, <3>1, RequestStays
      <4>2. th'[t].attempt = th[t].attempt
        <5>1. PICK c \in {made + 1, MissBucket} :
                th' = [th EXCEPT ![t].pc = "populate", ![t].target = c]
          BY <2>2 DEF Create
        <5> QED BY <1>3, <5>1 DEF ThreadType
      <4> QED BY <1>1, <1>3, <3>1, <3>2, <4>1, <4>2
    <3> QED BY <3>3, <3>4, <3>5
  <2>3. CASE ~Create(t)
    <3>1. routes' = routes /\ made' = made /\ \A r : Known(r)' = Known(r)
      BY <1>5, <2>3, RoutesStay
    <3>2. Listed' /\ \A u \in Threads \ {t} : Fits(u)'
      BY <1>1, <2>1, <3>1
    <3>3. Moved(th[t], th'[t], BucketOf(th[t].route), Known(th[t].route) = {})
      BY <1>5, <2>3, Moves
    <3>4. BucketOf(th[t].route) <= made /\ th[t].route \in Routes
      BY <1>3, <1>4 DEF ThreadType
    <3>5. Fits(t)'
      BY <1>1, <1>3, <3>1, <3>3, <3>4, Numbers DEF Moved, NullBucket
    <3> QED BY <3>2, <3>5
  <2> QED BY <2>2, <2>3
<1>6. ASSUME NEW t \in Threads, NEW r \in Routes, NEW type \in Types, Call(t, r, type)
      PROVE  (\A u \in Threads : Fits(u)') /\ Listed'
  <2>1. \A u \in Threads \ {t} : th'[u] = th[u]
    BY <1>6, CallTh
  <2>2. routes' = routes /\ made' = made /\ \A q : Known(q)' = Known(q)
    BY <1>6 DEF Call, Known
  <2>3. PICK c \in 1..MaxConns :
          th' = [th EXCEPT ![t] = [Idle EXCEPT !.pc = "lock", !.conn = c, !.route = r,
                                               !.type = type, !.b = BucketOf(r)]]
    BY <1>6 DEF Call
  <2> DEFINE x == [Idle EXCEPT !.pc = "lock", !.conn = c, !.route = r, !.type = type,
                              !.b = BucketOf(r)]
  <2>4. /\ x.b = BucketOf(r) /\ x.target = NullBucket /\ x.attempt = 0 /\ x.pc = "lock"
        /\ x.conn = c /\ x.type = type
    BY DEF Idle
  <2>5. th'[t] = x
    BY <1>3, <2>3
  <2> HIDE DEF x
  <2>6. Fits(t)'
    BY <1>3, <1>4, <2>2, <2>4, <2>5, Numbers DEF NullBucket
  <2> QED BY <1>1, <2>1, <2>2, <2>6
<1>7. ASSUME routes' = routes, made' = made, \A q : Known(q)' = Known(q),
             \A t \in Threads :
               /\ th'[t].b = th[t].b /\ th'[t].target = th[t].target
               /\ th'[t].attempt = th[t].attempt /\ th'[t].pc = th[t].pc
               /\ th'[t].route = th[t].route /\ th'[t].conn = th[t].conn
               /\ th'[t].type = th[t].type
      PROVE  (\A u \in Threads : Fits(u)') /\ Listed'
  BY <1>1, <1>7
<1>8. CASE LoopStamps \/ UNCHANGED vars
  BY <1>7, <1>8 DEF LoopStamps, vars, syncVars, Known
<1>9. CASE Tick
  <2>1. \A x \in ThreadType :
          LET y == OlderThread(x)
          IN  /\ y.b = x.b /\ y.target = x.target /\ y.attempt = x.attempt /\ y.pc = x.pc
              /\ y.route = x.route /\ y.conn = x.conn /\ y.type = x.type
    BY DEF OlderThread, ThreadType
  <2>2. \A t \in Threads : th'[t] = OlderThread(th[t])
    BY <1>9, TickStep
  <2>3. routes' = routes /\ made' = made /\ \A q : Known(q)' = Known(q)
    BY <1>9 DEF Tick, Known
  <2> QED BY <1>3, <1>7, <2>1, <2>2, <2>3
<1> QED BY <1>5, <1>6, <1>8, <1>9 DEF Next

LEMMA RouteOnceStep ==
  ASSUME TypeInv, RangeInv, MadeInv, RouteOnce, [Next]_vars
  PROVE  RouteOnce'
<1>1. CASE routes' = routes
  BY <1>1 DEF RouteOnce
<1>2. ASSUME NEW t \in Threads, Create(t) PROVE RouteOnce'
  <2>1. PICK b \in {made + 1, MissBucket} :
          routes' = Append(routes, [route |-> th[t].route, bucket |-> b])
    BY <1>2, RouteAdded
  <2> DEFINE e == [route |-> th[t].route, bucket |-> b]
  <2>2. e.route = th[t].route /\ Known(th[t].route) = {}
    BY <1>2 DEF Create, RangeInv
  <2> HIDE DEF e
  <2>3. /\ \A i \in 1..Len(routes) : routes'[i] = routes[i]
        /\ routes'[Len(routes) + 1] = e /\ Len(routes) \in Nat
        /\ DOMAIN routes = 1..Len(routes) /\ DOMAIN routes' = 1..Len(routes) + 1
    BY <2>1 DEF e, TypeInv, MapType
  <2>4. \A i \in 1..Len(routes) : routes[i].route # th[t].route
    BY <2>2, <2>3 DEF Known
  <2> QED BY <2>2, <2>3, <2>4 DEF RouteOnce
<1>3. CASE \E t \in Threads : Step(t) /\ ~Create(t)
  BY <1>1, <1>3, RoutesStay
<1>4. CASE \E t \in Threads, r \in Routes, type \in Types : Call(t, r, type)
  BY <1>1, <1>4 DEF Call
<1>5. CASE LoopStamps \/ Tick \/ UNCHANGED vars
  BY <1>1, <1>5 DEF LoopStamps, Tick, vars, syncVars
<1> QED BY <1>2, <1>3, <1>4, <1>5 DEF Next

-----------------------------------------------------------------------------
(* Handles *)

\* A handle is in one queue, once, and every handle ever made is in one of them.
QueueInv ==
  /\ Distinct(idle) /\ Distinct(busy) /\ Elems(idle) \cap Elems(busy) = {}
  /\ Elems(idle) \cup Elems(busy) = 1..Total

\* The busy handles are those that threads use, each its own.
UseInv ==
  /\ \A t \in Threads : Using(t) => th[t].conn \in Elems(busy)
  /\ \A c \in Elems(busy) : \E t \in Threads : Using(t) /\ th[t].conn = c
  /\ \A t, u \in Threads : Using(t) /\ Using(u) /\ th[t].conn = th[u].conn => t = u

\* ua_conn_start returns a handle that nobody uses.
LEMMA StartTakes ==
  ASSUME UaType, QueueInv, NEW c \in 1..MaxConns, NEW type \in Types, ConnStart(c, type)
  PROVE  QueueInv' /\ c \notin Elems(busy) /\ Elems(busy') = Elems(busy) \cup {c}
<1>1. /\ idle \in Seq(1..MaxConns) /\ busy \in Seq(1..MaxConns)
      /\ Len(idle) \in Nat /\ Len(busy) \in Nat
  BY DEF UaType
<1>2. c = NextConn /\ idle' = Taken(c) /\ busy' = Append(busy, c)
  BY DEF ConnStart
<1>3. CASE idle = <<>>
  <2>1. c = Total + 1 /\ idle' = idle /\ Elems(idle) = {}
    BY <1>2, <1>3 DEF NextConn, Taken, Elems
  <2>2. c \notin Elems(idle) \cup Elems(busy)
    BY <1>1, <2>1 DEF QueueInv, Total
  <2>3. /\ Elems(busy') = Elems(busy) \cup {c} /\ Len(busy') = Len(busy) + 1 /\ Distinct(busy')
    <3>1. /\ Elems(Append(busy, c)) = Elems(busy) \cup {c}
          /\ Len(Append(busy, c)) = Len(busy) + 1
          /\ Distinct(busy) /\ c \notin Elems(busy) => Distinct(Append(busy, c))
      BY <1>1, AppendElems
    <3> QED BY <1>2, <2>2, <3>1 DEF QueueInv
  <2>4. Elems(idle') \cup Elems(busy') = 1..Total'
    <3>1. Total' = Total + 1 /\ Total \in Nat
      BY <1>1, <2>1, <2>3 DEF Total
    <3> QED BY <2>1, <2>3, <3>1 DEF QueueInv
  <2> QED BY <2>1, <2>2, <2>3, <2>4 DEF QueueInv
<1>4. CASE idle # <<>>
  <2>1. c = Head(idle) /\ idle' = Tail(idle)
    BY <1>2, <1>4 DEF NextConn, Taken
  <2>2. /\ Elems(idle) = Elems(idle') \cup {c} /\ Len(idle') = Len(idle) - 1
        /\ c \notin Elems(idle') /\ Distinct(idle')
    BY <1>1, <1>4, <2>1, TailElems DEF QueueInv
  <2>3. c \notin Elems(busy)
    BY <2>2 DEF QueueInv
  <2>4. /\ Elems(busy') = Elems(busy) \cup {c} /\ Len(busy') = Len(busy) + 1 /\ Distinct(busy')
    <3>1. /\ Elems(Append(busy, c)) = Elems(busy) \cup {c}
          /\ Len(Append(busy, c)) = Len(busy) + 1
          /\ Distinct(busy) /\ c \notin Elems(busy) => Distinct(Append(busy, c))
      BY <1>1, AppendElems
    <3> QED BY <1>2, <2>3, <3>1 DEF QueueInv
  <2>5. Elems(idle') \cup Elems(busy') = 1..Total'
    <3>1. Total' = Total
      BY <1>1, <2>2, <2>4 DEF Total
    <3> QED BY <2>2, <2>4, <3>1 DEF QueueInv
  <2> QED BY <2>2, <2>3, <2>4, <2>5 DEF QueueInv
<1> QED BY <1>3, <1>4

LEMMA StopGivesBack ==
  ASSUME UaType, QueueInv, NEW c \in 1..MaxConns, ConnStop(c)
  PROVE  QueueInv' /\ Elems(busy') = Elems(busy) \ {c}
<1>1. /\ idle \in Seq(1..MaxConns) /\ busy \in Seq(1..MaxConns)
      /\ Len(idle) \in Nat /\ Len(busy) \in Nat
  BY DEF UaType
<1>2. PICK i \in 1..Len(busy) : busy[i] = c /\ busy' = RemoveAt(busy, i)
  BY <1>1 DEF ConnStop
<1>3. idle' = Append(idle, c)
  BY DEF ConnStop
<1>4. /\ Elems(busy') = Elems(busy) \ {c} /\ Len(busy') = Len(busy) - 1 /\ Distinct(busy')
  BY <1>1, <1>2, RemoveElems DEF QueueInv
<1>5. c \in Elems(busy)
  BY <1>2 DEF Elems
<1>6. /\ Elems(idle') = Elems(idle) \cup {c} /\ Len(idle') = Len(idle) + 1 /\ Distinct(idle')
  <2>1. /\ Elems(Append(idle, c)) = Elems(idle) \cup {c}
        /\ Len(Append(idle, c)) = Len(idle) + 1
        /\ Distinct(idle) /\ c \notin Elems(idle) => Distinct(Append(idle, c))
    BY <1>1, AppendElems
  <2> QED BY <1>3, <1>5, <2>1 DEF QueueInv
<1>7. Elems(idle') \cup Elems(busy') = 1..Total'
  <2>1. Total' = Total
    BY <1>1, <1>4, <1>6 DEF Total
  <2> QED BY <1>4, <1>5, <1>6, <2>1 DEF QueueInv
<1> QED BY <1>4, <1>5, <1>6, <1>7 DEF QueueInv

\* Between its start and its stop, a request moves no handle.
LEMMA QueuesStay ==
  ASSUME NEW t \in Threads, Step(t), ~Stop(t)
  PROVE  idle' = idle /\ busy' = busy
<1> USE DEF uaVars
<1>1. CASE Answer(t) \/ Fail(t) \/ Again(t)
  BY <1>1 DEF Answer, Fail, Again, Receive, ConnReset
<1>2. CASE ~(Answer(t) \/ Fail(t) \/ Again(t))
  BY <1>2 DEF Step, Lock, Look, Send, Stamp, Match, Create, Populate, Window, Nap
<1> QED BY <1>1, <1>2

LEMMA QueueStep ==
  ASSUME TypeInv, RangeInv, QueueInv, [Next]_vars
  PROVE  QueueInv'
<1>1. CASE idle' = idle /\ busy' = busy
  BY <1>1 DEF QueueInv, Total
<1>2. CASE \E t \in Threads, r \in Routes, type \in Types : Call(t, r, type)
  BY <1>2, StartTakes DEF Call, TypeInv
<1>3. CASE \E t \in Threads : Stop(t)
  <2>1. PICK t \in Threads : Stop(t)
    BY <1>3
  <2>2. th[t].conn \in 1..MaxConns
    BY <2>1, Numbers DEF Stop, RangeInv, TypeInv, ThType, ThreadType
  <2> QED BY <2>1, <2>2, StopGivesBack DEF Stop, TypeInv
<1>4. CASE \E t \in Threads : Step(t) /\ ~Stop(t)
  BY <1>1, <1>4, QueuesStay
<1>5. CASE LoopStamps \/ Tick \/ UNCHANGED vars
  BY <1>1, <1>5 DEF LoopStamps, Tick, vars, uaVars
<1> QED BY <1>2, <1>3, <1>4, <1>5 DEF Next

\* Which thread uses which handle.
LEMMA UsersStay ==
  ASSUME TypeInv, RangeInv, MadeInv, NEW t \in Threads, Step(t), ~Stop(t)
  PROVE  \A u \in Threads : (Using(u) /\ Using(u)' /\ th'[u].conn = th[u].conn)
                            \/ (u # t /\ th'[u] = th[u])
<1>1. \A u \in Threads \ {t} : th'[u] = th[u]
  BY ThTypeStep
<1>2. Using(t)
  BY DEF Step, Using, Lock, Look, Send, Answer, Fail, Stamp, Match, Create, Populate, Window,
         Nap, Again
<1>3. CASE Create(t)
  BY <1>1, <1>2, <1>3, RouteAdded, RequestStays DEF Using
<1>4. CASE ~Create(t)
  <2>1. Moved(th[t], th'[t], BucketOf(th[t].route), Known(th[t].route) = {})
    BY <1>4, Moves
  <2>2. th'[t].pc # "idle"
    <3>1. th[t] \in ThreadType /\ th \in [Threads -> ThreadType]
      BY DEF TypeInv, ThType
    <3>2. CASE th[t].pc = "again"
      <4>1. Again(t)
        BY <3>2 DEF Step, Lock, Look, Send, Answer, Fail, Stamp, Match, Create, Populate, Window,
                    Nap, Again, Stop
      <4>2. CASE Repeats(th[t])
        <5>1. Repeated(th[t]).pc = "look"
          BY <3>1 DEF Repeated, ThreadType
        <5> QED BY <3>1, <4>1, <4>2, <5>1 DEF Again
      <4>3. CASE ~Repeats(th[t])
        <5>1. [Idle EXCEPT !.pc = "stop", !.conn = th[t].conn].pc = "stop"
          BY DEF Idle
        <5> QED BY <3>1, <4>1, <4>3, <5>1 DEF Again
      <4> QED BY <4>2, <4>3
    <3>3. CASE th[t].pc # "again"
      <4>1. ~Again(t)
        BY <3>3 DEF Again
      <4>2. CASE Populate(t) \/ Window(t)
        <5>1. Judged(th[t]).pc = "nap"
          BY <3>1 DEF Judged, ThreadType
        <5> QED BY <3>1, <4>2, <5>1 DEF Populate, Window, ThreadType
      <4>3. CASE Answer(t)
        <5>1. PICK a \in Answers, now \in Nows :
                th' = [th EXCEPT ![t].pc = "stamp", ![t].answer = a,
                                 ![t].until = WaitAfter(a, now), ![t].seen = Past,
                                 ![t].bound = IF Binding(a) THEN a.after ELSE Past]
          BY <4>3 DEF Answer
        <5> QED BY <3>1, <5>1 DEF ThreadType
      <4>4. CASE Look(t)
        <5>1. PICK now \in Nows :
                th' = [th EXCEPT ![t].pc = "send", ![t].until = Timeout(th[t].b) - now,
                                 ![t].seen = IF th[t].b \in raced THEN Past ELSE promise[th[t].b]]
          BY <4>4 DEF Look
        <5> QED BY <3>1, <5>1 DEF ThreadType
      <4>5. CASE Lock(t) \/ Send(t) \/ Fail(t) \/ Stamp(t) \/ Match(t) \/ Nap(t)
        BY <3>1, <4>5 DEF Lock, Send, Fail, Stamp, Match, Nap, ThreadType
      <4> QED BY <1>4, <4>1, <4>2, <4>3, <4>4, <4>5 DEF Step
    <3> QED BY <3>2, <3>3
  <2>3. th'[t].conn = th[t].conn
    BY <2>1, <2>2 DEF Moved
  <2> QED BY <1>1, <1>2, <2>2, <2>3 DEF Using
<1> QED BY <1>3, <1>4

LEMMA UseStep ==
  ASSUME TypeInv, RangeInv, MadeInv, QueueInv, UseInv, [Next]_vars
  PROVE  UseInv'
<1>1. th \in [Threads -> ThreadType] /\ \A t \in Threads : th[t].conn \in 0..MaxConns
  BY DEF TypeInv, ThType, ThreadType
<1>2. ASSUME busy' = busy,
             \A u \in Threads : /\ Using(u)' = Using(u)
                                /\ Using(u) => th'[u].conn = th[u].conn
      PROVE  UseInv'
  <2>1. Elems(busy') = Elems(busy)
    BY <1>2
  <2> QED BY <1>2, <2>1 DEF UseInv
<1>3. ASSUME NEW t \in Threads, Step(t) PROVE UseInv'
  <2>1. CASE Stop(t)
    <3>1. /\ th'[t].pc = "idle" /\ \A u \in Threads \ {t} : th'[u] = th[u]
          /\ Using(t) /\ th[t].conn \in 1..MaxConns /\ ConnStop(th[t].conn)
      <4>1. \A u \in Threads \ {t} : th'[u] = th[u]
        BY <1>3, ThTypeStep
      <4> QED BY <1>1, <2>1, <4>1, Numbers DEF Stop, Idle, Using, RangeInv
    <3>2. Elems(busy') = Elems(busy) \ {th[t].conn}
      BY <3>1, StopGivesBack DEF TypeInv
    <3> QED BY <3>1, <3>2 DEF UseInv, Using
  <2>2. CASE ~Stop(t)
    <3>1. \A u \in Threads : (Using(u) /\ Using(u)' /\ th'[u].conn = th[u].conn)
                             \/ (u # t /\ th'[u] = th[u])
      BY <1>3, <2>2, UsersStay
    <3>2. busy' = busy
      BY <1>3, <2>2, QueuesStay
    <3>3. \A u \in Threads : /\ Using(u)' = Using(u)
                             /\ Using(u) => th'[u].conn = th[u].conn
      BY <3>1 DEF Using
    <3> QED BY <1>2, <3>2, <3>3
  <2> QED BY <2>1, <2>2
<1>4. ASSUME NEW t \in Threads, NEW r \in Routes, NEW type \in Types, Call(t, r, type)
      PROVE  UseInv'
  <2>1. \A u \in Threads \ {t} : th'[u] = th[u]
    BY <1>4, CallTh
  <2>2. PICK c \in 1..MaxConns :
          /\ ConnStart(c, type)
          /\ th' = [th EXCEPT ![t] = [Idle EXCEPT !.pc = "lock", !.conn = c, !.route = r,
                                                  !.type = type, !.b = BucketOf(r)]]
    BY <1>4 DEF Call
  <2> DEFINE x == [Idle EXCEPT !.pc = "lock", !.conn = c, !.route = r, !.type = type,
                              !.b = BucketOf(r)]
  <2>3. x.conn = c /\ x.pc = "lock"
    BY DEF Idle
  <2>4. th'[t] = x /\ ~Using(t)
    BY <1>1, <1>4, <2>2 DEF Call, Using
  <2> HIDE DEF x
  <2>5. c \notin Elems(busy) /\ Elems(busy') = Elems(busy) \cup {c}
    BY <2>2, StartTakes DEF TypeInv
  <2> QED BY <2>1, <2>3, <2>4, <2>5 DEF UseInv, Using
<1>5. CASE LoopStamps \/ UNCHANGED vars
  BY <1>2, <1>5 DEF LoopStamps, vars, syncVars, uaVars, Using
<1>6. CASE Tick
  <2>1. \A x \in ThreadType : OlderThread(x).pc = x.pc /\ OlderThread(x).conn = x.conn
    BY DEF OlderThread, ThreadType
  <2>2. \A t \in Threads : th'[t].pc = th[t].pc /\ th'[t].conn = th[t].conn
    BY <1>1, <1>6, <2>1, TickStep
  <2>3. busy' = busy
    BY <1>6 DEF Tick, uaVars
  <2> QED BY <1>2, <2>2, <2>3 DEF Using
<1> QED BY <1>3, <1>4, <1>5, <1>6 DEF Next

-----------------------------------------------------------------------------
(* Answers *)

\* Where a thread reads the header fields of an answer.
Reading == {"stamp", "match", "create", "populate", "window"}
Before  == {"lock", "look", "send", "perform", "stop"}

\* Nothing is left on a handle by those that used it before.
AnswerInv ==
  /\ \A c \in 1..MaxConns \ Elems(busy) : conn[c].received = <<>>
  /\ \A t \in Threads :
       /\ th[t].pc \in Before => conn[th[t].conn].received = <<>>
       /\ th[t].pc \in Reading =>
            conn[th[t].conn].received = <<[by |-> t, attempt |-> th[t].attempt]>>
       /\ Using(t) /\ th[t].pc # "stop" => conn[th[t].conn].content_type = th[t].type

\* Steps between those that touch the handle.
LEMMA HandleUntouched ==
  ASSUME TypeInv, NEW t \in Threads, Step(t), ~Answer(t), ~Fail(t), ~Again(t), ~Stop(t)
  PROVE  /\ conn' = conn
         /\ \/ th[t].pc \in Before /\ th'[t].pc \in Before
            \/ th[t].pc \in Reading /\ th'[t].pc \in Reading \cup {"nap"}
            \/ th'[t].pc \in {"nap", "again"}
         /\ th'[t].pc # "stop" /\ th'[t].pc # "idle"
         /\ th'[t].attempt = th[t].attempt
<1>1. th[t] \in ThreadType /\ th \in [Threads -> ThreadType]
  BY DEF TypeInv, ThType
<1> USE DEF Before, Reading
<1>2. CASE Lock(t) \/ Send(t) \/ Stamp(t) \/ Nap(t)
  BY <1>1, <1>2 DEF Lock, Send, Stamp, Nap, ThreadType, uaVars
<1>3. CASE Look(t)
  <2>1. PICK now \in Nows :
          th' = [th EXCEPT ![t].pc = "send", ![t].until = Timeout(th[t].b) - now,
                           ![t].seen = IF th[t].b \in raced THEN Past ELSE promise[th[t].b]]
    BY <1>3 DEF Look
  <2> QED BY <1>1, <1>3, <2>1 DEF Look, ThreadType, uaVars
<1>4. CASE Match(t)
  BY <1>1, <1>4 DEF Match, ThreadType, uaVars
<1>5. CASE Create(t)
  <2>1. PICK b \in {made + 1, MissBucket} :
          th' = [th EXCEPT ![t].pc = "populate", ![t].target = b]
    BY <1>5 DEF Create
  <2> QED BY <1>1, <1>5, <2>1 DEF Create, ThreadType, uaVars
<1>6. CASE Populate(t) \/ Window(t)
  <2>1. CASE th' = [th EXCEPT ![t] = Judged(@)]
    <3>1. Judged(th[t]).attempt = th[t].attempt /\ Judged(th[t]).pc = "nap"
      BY <1>1 DEF Judged, ThreadType
    <3> QED BY <1>1, <1>6, <2>1, <3>1 DEF Populate, Window, uaVars
  <2>2. CASE th' # [th EXCEPT ![t] = Judged(@)]
    BY <1>1, <1>6, <2>2 DEF Populate, Window, ThreadType, uaVars
  <2> QED BY <2>1, <2>2
<1> QED BY <1>2, <1>3, <1>4, <1>5, <1>6 DEF Step

LEMMA AnswerStep ==
  ASSUME TypeInv, RangeInv, MadeInv, QueueInv, UseInv, AnswerInv, [Next]_vars
  PROVE  AnswerInv'
<1>1. /\ th \in [Threads -> ThreadType] /\ conn \in [1..MaxConns -> ConnType]
      /\ \A t \in Threads : Using(t) => th[t].conn \in 1..MaxConns
  BY Numbers DEF TypeInv, ThType, UaType, ThreadType, RangeInv, Using
<1>2. \A c \in 1..MaxConns : /\ WithoutAnswer(conn[c]).received = <<>>
                             /\ WithoutAnswer(conn[c]).content_type = conn[c].content_type
  BY <1>1 DEF WithoutAnswer, ConnType
\* What t does to its own handle leaves the handles of others alone.
<1>3. ASSUME NEW t \in Threads, Step(t), NEW y,
             \/ conn' = [conn EXCEPT ![th[t].conn] = y]
             \/ conn' = conn
      PROVE  \A u \in Threads \ {t} :
               /\ th'[u] = th[u]
               /\ Using(u) => conn'[th[u].conn] = conn[th[u].conn]
  <2>1. Using(t)
    BY <1>3 DEF Step, Using, Lock, Look, Send, Answer, Fail, Stamp, Match, Create, Populate,
       Window, Nap, Again, Stop
  <2>2. \A u \in Threads \ {t} : th'[u] = th[u]
    BY <1>3, ThTypeStep
  <2>3. ASSUME NEW u \in Threads \ {t}, Using(u)
        PROVE  conn'[th[u].conn] = conn[th[u].conn]
    <3>1. th[u].conn \in 1..MaxConns /\ th[u].conn # th[t].conn
      BY <1>1, <2>1, <2>3 DEF UseInv
    <3> QED BY <1>1, <1>3, <3>1
  <2> QED BY <2>2, <2>3
<1>4. ASSUME NEW t \in Threads, Step(t) PROVE AnswerInv'
  <2> DEFINE Rest ==
        \A u \in Threads \ {t} : /\ th'[u] = th[u]
                                 /\ Using(u) => conn'[th[u].conn] = conn[th[u].conn]
  <2>1. ASSUME Rest,
               \A c \in 1..MaxConns \ Elems(busy') : conn'[c].received = <<>>,
               /\ th'[t].pc \in Before => conn'[th'[t].conn].received = <<>>
               /\ th'[t].pc \in Reading => conn'[th'[t].conn].received =
                                             <<[by |-> t, attempt |-> th'[t].attempt]>>
               /\ Using(t)' /\ th'[t].pc # "stop" =>
                    conn'[th'[t].conn].content_type = th'[t].type
        PROVE  AnswerInv'
    <3>1. ASSUME NEW u \in Threads \ {t}
          PROVE  /\ th'[u].pc \in Before => conn'[th'[u].conn].received = <<>>
                 /\ th'[u].pc \in Reading => conn'[th'[u].conn].received =
                                               <<[by |-> u, attempt |-> th'[u].attempt]>>
                 /\ Using(u)' /\ th'[u].pc # "stop" =>
                      conn'[th'[u].conn].content_type = th'[u].type
      <4>1. th'[u] = th[u] /\ (Using(u) => conn'[th[u].conn] = conn[th[u].conn])
        BY <2>1, <3>1
      <4>2. /\ th[u].pc \in Before => conn[th[u].conn].received = <<>>
            /\ th[u].pc \in Reading => conn[th[u].conn].received =
                                          <<[by |-> u, attempt |-> th[u].attempt]>>
            /\ Using(u) /\ th[u].pc # "stop" => conn[th[u].conn].content_type = th[u].type
        BY DEF AnswerInv
      <4>3. /\ th[u].pc \in Before \cup Reading => Using(u)
            /\ Using(u)' = Using(u)
        BY <4>1 DEF Before, Reading, Using
      <4> QED BY <4>1, <4>2, <4>3
    <3> QED BY <2>1, <3>1 DEF AnswerInv
  <2>2. Using(t) /\ th[t].conn \in 1..MaxConns /\ th[t].conn \in Elems(busy)
    <3>1. Using(t)
      BY <1>4 DEF Step, Using, Lock, Look, Send, Answer, Fail, Stamp, Match, Create, Populate,
         Window, Nap, Again, Stop
    <3> QED BY <1>1, <3>1 DEF UseInv
  <2>3. CASE ~Answer(t) /\ ~Fail(t) /\ ~Again(t) /\ ~Stop(t)
    <3>1. /\ conn' = conn
          /\ \/ th[t].pc \in Before /\ th'[t].pc \in Before
             \/ th[t].pc \in Reading /\ th'[t].pc \in Reading \cup {"nap"}
             \/ th'[t].pc \in {"nap", "again"}
          /\ th'[t].pc # "stop" /\ th'[t].pc # "idle"
          /\ th'[t].attempt = th[t].attempt
      BY <1>4, <2>3, HandleUntouched
    <3>2. th'[t].conn = th[t].conn /\ th'[t].type = th[t].type /\ th[t].pc # "stop"
      BY <1>4, <3>1, RequestStays
    <3>3. busy' = busy
      BY <1>4, <2>3, QueuesStay
    <3>4. Rest
      BY <1>3, <1>4, <3>1
    <3>5. /\ th'[t].pc \in Before => conn[th[t].conn].received = <<>>
          /\ th'[t].pc \in Reading => conn[th[t].conn].received =
                                        <<[by |-> t, attempt |-> th[t].attempt]>>
          /\ conn[th[t].conn].content_type = th[t].type
      BY <2>2, <3>1, <3>2 DEF AnswerInv, Before, Reading
    <3>6. \A c \in 1..MaxConns \ Elems(busy') : conn'[c].received = <<>>
      BY <3>1, <3>3 DEF AnswerInv
    <3> QED BY <2>1, <3>1, <3>2, <3>4, <3>5, <3>6
  <2>4. ASSUME ~Again(t), ~Stop(t), th'[t].pc \in {"stamp", "again"},
               th'[t].attempt = th[t].attempt, th[t].pc = "perform",
               \/ Receive(th[t].conn, [by |-> t, attempt |-> th[t].attempt])
               \/ conn' = conn /\ th'[t].pc = "again"
        PROVE  AnswerInv'
    <3> DEFINE c == th[t].conn
               m == [by |-> t, attempt |-> th[t].attempt]
               y == [conn[c] EXCEPT !.received = Append(@, m)]
    <3>1. /\ y.received = <<m>> /\ y.content_type = conn[c].content_type
      <4>1. conn[c].received = <<>>
        BY <2>4 DEF AnswerInv, Before
      <4>2. conn[c] \in ConnType
        BY <1>1, <2>2
      <4>3. Append(<<>>, m) = <<m>>
        OBVIOUS
      <4> QED BY <4>1, <4>2, <4>3 DEF ConnType
    <3>2. conn' = [conn EXCEPT ![c] = y] \/ conn' = conn
      BY <2>4 DEF Receive
    <3>3. Rest
      BY <1>3, <1>4, <3>2
    <3>4. th'[t].conn = th[t].conn /\ th'[t].type = th[t].type
      BY <1>4, <2>4, RequestStays
    <3>5. busy' = busy
      BY <1>4, <2>4, QueuesStay
    <3>6. conn[c].content_type = th[t].type
      BY <2>2, <2>4 DEF AnswerInv
    <3>7. conn'[c].content_type = th[t].type /\ (th'[t].pc = "stamp" => conn'[c].received = <<m>>)
      <4>1. CASE conn' = conn /\ th'[t].pc = "again"
        BY <3>6, <4>1
      <4>2. CASE Receive(c, m)
        <5>1. conn' = [conn EXCEPT ![c] = y]
          BY <4>2 DEF Receive
        <5> HIDE DEF y
        <5> QED BY <1>1, <2>2, <3>1, <3>6, <5>1
      <4> QED BY <2>4, <4>1, <4>2
    <3>8. ASSUME NEW d \in 1..MaxConns \ Elems(busy') PROVE conn'[d].received = <<>>
      <4>1. d # c /\ d \in 1..MaxConns \ Elems(busy)
        BY <2>2, <3>5, <3>8
      <4>2. conn'[d] = conn[d]
        <5> HIDE DEF y, c
        <5> QED BY <1>1, <3>2, <4>1
      <4> QED BY <4>1, <4>2 DEF AnswerInv
    <3> QED BY <2>1, <2>4, <3>3, <3>4, <3>7, <3>8 DEF Before, Reading
  <2>5. CASE Answer(t)
    <3>1. PICK a \in Answers, now \in Nows :
            /\ Receive(th[t].conn, [by |-> t, attempt |-> th[t].attempt])
            /\ th' = [th EXCEPT ![t].pc = "stamp", ![t].answer = a, ![t].until = WaitAfter(a, now),
                                ![t].seen = Past,
                                ![t].bound = IF Binding(a) THEN a.after ELSE Past]
      BY <2>5 DEF Answer
    <3>2. th'[t].pc = "stamp" /\ th'[t].attempt = th[t].attempt
      BY <1>1, <3>1 DEF ThreadType
    <3>3. th[t].pc = "perform"
      BY <2>5 DEF Answer
    <3> QED BY <2>4, <3>1, <3>2, <3>3 DEF Again, Stop
  <2>6. CASE Fail(t)
    <3>1. th'[t].pc = "again" /\ th'[t].attempt = th[t].attempt
      BY <1>1, <2>6 DEF Fail, ThreadType
    <3> QED BY <2>4, <2>6, <3>1 DEF Fail, Again, Stop, uaVars
  <2>7. ASSUME conn' = [conn EXCEPT ![th[t].conn] = WithoutAnswer(@)],
               Elems(busy') \subseteq Elems(busy), Elems(busy) \subseteq Elems(busy') \cup {th[t].conn},
               th'[t].pc \in {"look", "stop", "idle"},
               th'[t].pc \in {"look", "stop"} => th'[t].conn = th[t].conn,
               th'[t].pc = "look" => th'[t].type = th[t].type /\ th[t].pc # "stop"
        PROVE  AnswerInv'
    <3>1. Rest
      BY <1>3, <1>4, <2>7
    <3>2. /\ conn'[th[t].conn].received = <<>>
          /\ conn'[th[t].conn].content_type = conn[th[t].conn].content_type
          /\ \A c \in 1..MaxConns \ {th[t].conn} : conn'[c] = conn[c]
      BY <1>1, <1>2, <2>2, <2>7
    <3>3. \A c \in 1..MaxConns \ Elems(busy') : conn'[c].received = <<>>
      BY <2>7, <3>2 DEF AnswerInv
    <3>4. th'[t].pc = "look" => conn'[th'[t].conn].content_type = th'[t].type
      BY <2>2, <2>7, <3>2 DEF AnswerInv
    <3> QED BY <2>1, <2>7, <3>1, <3>2, <3>3, <3>4 DEF Before, Reading, Using
  <2>8. CASE Again(t)
    <3>1. conn' = [conn EXCEPT ![th[t].conn] = WithoutAnswer(@)] /\ busy' = busy
          /\ th[t].pc = "again"
      BY <2>8 DEF Again, ConnReset
    <3>2. CASE Repeats(th[t])
      <4>1. /\ Repeated(th[t]).pc = "look" /\ Repeated(th[t]).conn = th[t].conn
            /\ Repeated(th[t]).type = th[t].type
        BY <1>1 DEF Repeated, ThreadType
      <4>2. th'[t] = Repeated(th[t])
        BY <1>1, <2>8, <3>2 DEF Again
      <4> QED BY <2>7, <3>1, <4>1, <4>2
    <3>3. CASE ~Repeats(th[t])
      <4> DEFINE x == [Idle EXCEPT !.pc = "stop", !.conn = th[t].conn]
      <4>1. x.pc = "stop" /\ x.conn = th[t].conn
        BY DEF Idle
      <4>2. th'[t] = x
        BY <1>1, <2>8, <3>3 DEF Again
      <4> HIDE DEF x
      <4> QED BY <2>7, <3>1, <4>1, <4>2
    <3> QED BY <3>2, <3>3
  <2>9. CASE Stop(t)
    <3>1. ConnStop(th[t].conn) /\ th'[t] = Idle
      BY <1>1, <2>9 DEF Stop
    <3>2. Elems(busy') = Elems(busy) \ {th[t].conn}
      BY <2>2, <3>1, StopGivesBack DEF TypeInv
    <3>3. conn' = [conn EXCEPT ![th[t].conn] = WithoutAnswer(@)] /\ th'[t].pc = "idle"
      BY <3>1 DEF ConnStop, Idle
    <3> QED BY <2>7, <3>2, <3>3
  <2> QED BY <2>3, <2>5, <2>6, <2>8, <2>9
<1>5. ASSUME NEW t \in Threads, NEW r \in Routes, NEW type \in Types, Call(t, r, type)
      PROVE  AnswerInv'
  <2>1. \A u \in Threads \ {t} : th'[u] = th[u]
    BY <1>5, CallTh
  <2>2. PICK c \in 1..MaxConns :
          /\ ConnStart(c, type)
          /\ th' = [th EXCEPT ![t] = [Idle EXCEPT !.pc = "lock", !.conn = c, !.route = r,
                                                  !.type = type, !.b = BucketOf(r)]]
    BY <1>5 DEF Call
  <2> DEFINE x == [Idle EXCEPT !.pc = "lock", !.conn = c, !.route = r, !.type = type,
                              !.b = BucketOf(r)]
  <2>3. x.conn = c /\ x.pc = "lock" /\ x.type = type
    BY DEF Idle
  <2>4. th'[t] = x
    BY <1>1, <2>2
  <2> HIDE DEF x
  <2>5. c \notin Elems(busy) /\ Elems(busy') = Elems(busy) \cup {c}
    BY <2>2, StartTakes DEF TypeInv
  <2>6. /\ conn'[c].received = <<>> /\ conn'[c].content_type = type
        /\ \A d \in 1..MaxConns \ {c} : conn'[d] = conn[d]
    <3>1. conn[c].received = <<>> /\ conn[c] \in ConnType
      BY <1>1, <2>5 DEF AnswerInv
    <3>2. WithType(conn[c], type).received = <<>> /\ WithType(conn[c], type).content_type = type
      BY <3>1 DEF WithType, ConnType
    <3>3. conn' = [conn EXCEPT ![c] = WithType(@, type)]
      BY <2>2 DEF ConnStart
    <3> QED BY <1>1, <3>2, <3>3
  <2>7. \A u \in Threads \ {t} :
          /\ th'[u] = th[u] /\ Using(u)' = Using(u)
          /\ Using(u) => conn'[th[u].conn] = conn[th[u].conn]
    BY <1>1, <2>1, <2>5, <2>6 DEF UseInv, Using
  <2>8. \A d \in 1..MaxConns \ Elems(busy') : conn'[d].received = <<>>
    BY <2>5, <2>6 DEF AnswerInv
  <2>9. \A u \in Threads \ {t} :
          /\ th'[u].pc \in Before => conn'[th'[u].conn].received = <<>>
          /\ th'[u].pc \in Reading => conn'[th'[u].conn].received =
                                        <<[by |-> u, attempt |-> th'[u].attempt]>>
          /\ Using(u)' /\ th'[u].pc # "stop" =>
               conn'[th'[u].conn].content_type = th'[u].type
    BY <2>7 DEF AnswerInv, Before, Reading, Using
  <2> QED BY <2>3, <2>4, <2>6, <2>8, <2>9 DEF AnswerInv, Before, Reading
<1>6. CASE LoopStamps \/ UNCHANGED vars
  BY <1>6 DEF LoopStamps, vars, syncVars, uaVars, AnswerInv, Using
<1>7. CASE Tick
  <2>1. \A x \in ThreadType : /\ OlderThread(x).pc = x.pc /\ OlderThread(x).conn = x.conn
                              /\ OlderThread(x).type = x.type
                              /\ OlderThread(x).attempt = x.attempt
    BY DEF OlderThread, ThreadType
  <2>2. \A t \in Threads : /\ th'[t].pc = th[t].pc /\ th'[t].conn = th[t].conn
                           /\ th'[t].type = th[t].type /\ th'[t].attempt = th[t].attempt
    BY <1>1, <1>7, <2>1, TickStep
  <2>3. conn' = conn /\ busy' = busy
    BY <1>7 DEF Tick, uaVars
  <2> QED BY <2>2, <2>3 DEF AnswerInv, Using
<1> QED BY <1>4, <1>5, <1>6, <1>7 DEF Next
-----------------------------------------------------------------------------
(* Windows *)

\* An answer that nothing remains, of a time that is not over.
Told(x) == Binding(x.answer) /\ x.bound > 0

\* What a thread knows of the time, l being the age of the event loop's timestamp: the
\* sleep covers what the bucket promised, and the end that is written what the answer said.
InTime(x, l) ==
  /\ x.pc = "send" => x.seen <= 0 \/ x.until >= x.seen
  /\ x.pc = "perform" => x.seen <= 0
  /\ x.pc = "stamp" /\ Told(x) => x.bound <= x.answer.after
  /\ x.pc \in {"match", "create", "populate"} /\ Told(x) => l + x.bound <= x.answer.after
  /\ x.pc = "window" /\ Told(x) => x.now >= x.bound

\* What is promised for a bucket is what the bucket says, unless it was written without
\* its lock.
Kept(b) == promise[b] > 0 => bucket[b].remaining = 0 /\ bucket[b].reset >= promise[b]

\* Between the two writes of a thread to a bucket.
HalfWritten(x) ==
  /\ bucket[x.target].remaining = x.answer.remaining
  /\ x.answer.remaining = 1 => promise[x.target] <= 0

WindowInv ==
  /\ \A b \in Buckets \ raced : Kept(b)
  /\ \A t \in Threads : /\ InTime(th[t], lag)
                        /\ th[t].pc = "window" /\ th[t].target \notin raced => HalfWritten(th[t])

LEMMA OlderInTime ==
  ASSUME NEW x \in ThreadType, NEW l \in Nat, NEW k \in {l, l + 1}, InTime(x, l)
  PROVE  InTime(OlderThread(x), k)
<1> DEFINE y == OlderThread(x)
<1>1. /\ y.pc = x.pc /\ y.answer = x.answer
      /\ y.until = (IF x.until <= 0 THEN x.until ELSE x.until - 1)
      /\ y.now = Older(x.now) /\ y.seen = Older(x.seen) /\ y.bound = Older(x.bound)
  BY DEF OlderThread, ThreadType
<1>2. /\ x.until \in Int /\ x.now \in Int /\ x.seen \in Int /\ x.bound \in Int
      /\ x.answer.after \in Int
  BY Numbers DEF ThreadType, AnyAnswer
<1>3. \A n \in Int : Older(n) = IF n <= -1 THEN -1 ELSE n - 1
  BY DEF Older, Past
<1> HIDE DEF y
<1>4. Told(y) => Told(x) /\ y.bound = x.bound - 1
  BY <1>1, <1>2, <1>3 DEF Told
<1>5. y.pc = "send" => y.seen <= 0 \/ y.until >= y.seen
  BY <1>1, <1>2, <1>3 DEF InTime
<1>6. y.pc = "perform" => y.seen <= 0
  BY <1>1, <1>2, <1>3 DEF InTime
<1>7. y.pc = "stamp" /\ Told(y) => y.bound <= y.answer.after
  BY <1>1, <1>2, <1>4 DEF InTime
<1>8. y.pc \in {"match", "create", "populate"} /\ Told(y) => k + y.bound <= y.answer.after
  BY <1>1, <1>2, <1>4 DEF InTime
<1>9. y.pc = "window" /\ Told(y) => y.now >= y.bound
  BY <1>1, <1>2, <1>3, <1>4 DEF InTime, Told
<1> QED BY <1>5, <1>6, <1>7, <1>8, <1>9 DEF InTime, y

\* A fresh timestamp does no harm.
LEMMA SoonerInTime ==
  ASSUME NEW x \in ThreadType, NEW l \in Nat, NEW k \in {l, 0}, InTime(x, l)
  PROVE  InTime(x, k)
<1>1. x.bound \in Int /\ x.answer.after \in Int
  BY Numbers DEF ThreadType, AnyAnswer
<1> QED BY <1>1 DEF InTime

\* A step of a thread, for its own times.
LEMMA StepInTime ==
  ASSUME TypeInv, WindowInv, NEW t \in Threads, Step(t)
  PROVE  InTime(th'[t], lag') /\ lag' \in {lag, 0}
<1> DEFINE x == th[t]
           y == th'[t]
<1>1. th \in [Threads -> ThreadType] /\ x \in ThreadType /\ lag \in Nat
  BY Numbers DEF TypeInv, ThType, TimeType
<1>2. /\ x.until \in Int /\ x.now \in Int /\ x.seen \in Int /\ x.bound \in Int
      /\ x.answer.after \in Int /\ x.b \in Buckets
  BY <1>1, Numbers DEF ThreadType, AnyAnswer
<1>3. InTime(x, lag)
  BY DEF WindowInv
<1>4. \A now \in Nows : now \in Int /\ now <= 0 /\ now >= -lag
  BY NowsAreNumbers
<1>5. CASE Lock(t)
  BY <1>1, <1>5 DEF Lock, ThreadType, InTime
<1>6. CASE Look(t)
  <2>1. PICK now \in Nows :
          th' = [th EXCEPT ![t].pc = "send", ![t].until = Timeout(x.b) - now,
                           ![t].seen = IF x.b \in raced THEN Past ELSE promise[x.b]]
    BY <1>6 DEF Look
  <2>2. /\ y.pc = "send" /\ y.until = Timeout(x.b) - now
        /\ y.seen = (IF x.b \in raced THEN Past ELSE promise[x.b])
    BY <1>1, <2>1 DEF ThreadType
  <2>3. CASE x.b \in raced
    BY <2>2, <2>3, <1>6 DEF InTime, Look, Past
  <2>4. CASE x.b \notin raced
    <3>1. Kept(x.b)
      BY <1>2, <2>4 DEF WindowInv
    <3>2. /\ promise[x.b] \in Int /\ bucket[x.b].reset \in Int /\ global \in Int
      BY <1>2 DEF TypeInv, BucketType, TimeType
    <3>3. promise[x.b] > 0 => Timeout(x.b) >= promise[x.b]
      BY <3>1, <3>2 DEF Timeout, Larger, Kept
    <3>4. Timeout(x.b) \in Int
      BY <1>2, TimeoutType
    <3>5. y.seen <= 0 \/ y.until >= y.seen
      BY <1>4, <2>2, <2>4, <3>2, <3>3, <3>4
    <3> QED BY <2>2, <3>5, <1>6 DEF InTime, Look
  <2> QED BY <2>3, <2>4
<1>7. CASE Send(t)
  <2>1. y.pc = "perform" /\ y.seen = x.seen /\ x.pc = "send" /\ x.until <= 0
    BY <1>1, <1>7 DEF Send, ThreadType
  <2>2. y.seen <= 0
    BY <1>2, <1>3, <2>1 DEF InTime
  <2> QED BY <1>7, <2>1, <2>2 DEF InTime, Send
<1>8. CASE Answer(t)
  <2>1. PICK a \in Answers, now \in Nows :
          th' = [th EXCEPT ![t].pc = "stamp", ![t].answer = a, ![t].until = WaitAfter(a, now),
                           ![t].seen = Past,
                           ![t].bound = IF Binding(a) THEN a.after ELSE Past]
    BY <1>8 DEF Answer
  <2>2. y.pc = "stamp" /\ y.answer = a /\ y.bound = IF Binding(a) THEN a.after ELSE Past
    BY <1>1, <2>1 DEF ThreadType
  <2>3. Told(y) => y.bound <= y.answer.after
    BY <2>2, AnswersTyped DEF Told
  <2> QED BY <1>8, <2>2, <2>3 DEF InTime, Answer
<1>9. CASE Fail(t)
  <2>1. y.pc = "again"
    BY <1>1, <1>9 DEF Fail, ThreadType
  <2> QED BY <1>9, <2>1 DEF InTime, Fail
<1>10. CASE Stamp(t)
  <2>1. /\ y.pc \in {"match", "populate"} /\ y.answer = x.answer /\ y.bound = x.bound
        /\ x.pc = "stamp" /\ lag' = 0
    BY <1>1, <1>10 DEF Stamp, Stamped, ThreadType
  <2>2. Told(y) => lag' + y.bound <= y.answer.after
    BY <1>2, <1>3, <2>1 DEF InTime, Told
  <2> QED BY <2>1, <2>2 DEF InTime
<1>11. CASE Match(t) \/ Create(t)
  <2>1. /\ y.pc \in {"create", "populate"} /\ y.answer = x.answer /\ y.bound = x.bound
        /\ x.pc \in {"match", "create"} /\ lag' = lag
    <3>1. CASE Match(t)
      BY <1>1, <3>1 DEF Match, ThreadType
    <3>2. CASE Create(t)
      <4>1. PICK b \in {made + 1, MissBucket} :
              th' = [th EXCEPT ![t].pc = "populate", ![t].target = b]
        BY <3>2 DEF Create
      <4> QED BY <1>1, <3>2, <4>1 DEF Create, ThreadType
    <3> QED BY <1>11, <3>1, <3>2
  <2>2. Told(y) => lag' + y.bound <= y.answer.after
    BY <1>3, <2>1 DEF InTime, Told
  <2> QED BY <2>1, <2>2 DEF InTime
<1>12. CASE Populate(t) \/ Window(t)
  <2>1. CASE th' = [th EXCEPT ![t] = Judged(@)]
    <3>1. Judged(x).pc = "nap"
      BY <1>1 DEF Judged, ThreadType
    <3>2. y.pc = "nap"
      BY <1>1, <2>1, <3>1
    <3> QED BY <1>12, <3>2 DEF InTime, Populate, Window
  <2>2. CASE th' # [th EXCEPT ![t] = Judged(@)]
    <3>1. PICK now \in Nows :
            th' = [th EXCEPT ![t].pc = "window",
                             ![t].now = IF x.answer.after = Past THEN Past ELSE now + x.answer.after]
      BY <1>12, <2>2 DEF Populate, Window
    <3>2. /\ x.pc = "populate" /\ lag' = lag
      BY <1>12, <2>2 DEF Populate, Window
    <3>3. /\ y.pc = "window" /\ y.answer = x.answer /\ y.bound = x.bound
          /\ y.now = (IF x.answer.after = Past THEN Past ELSE now + x.answer.after)
      BY <1>1, <3>1 DEF ThreadType
    <3>4. Told(y) => y.now >= y.bound
      <4>1. Told(y) => Told(x) /\ y.now = now + x.answer.after
        BY <3>3 DEF Told, Binding
      <4>2. Told(x) => lag + x.bound <= x.answer.after
        BY <1>3, <3>2 DEF InTime
      <4> QED BY <1>1, <1>2, <1>4, <3>3, <4>1, <4>2
    <3> QED BY <3>2, <3>3, <3>4 DEF InTime
  <2> QED BY <2>1, <2>2
<1>13. CASE Nap(t)
  <2>1. y.pc = "again"
    BY <1>1, <1>13 DEF Nap, ThreadType
  <2> QED BY <1>13, <2>1 DEF InTime, Nap
<1>14. CASE Again(t) \/ Stop(t)
  <2>1. y.pc \in {"look", "stop", "idle"}
    <3>1. CASE th' = [th EXCEPT ![t] = Repeated(@)]
      BY <1>1, <3>1 DEF Repeated, ThreadType
    <3>2. CASE th' = [th EXCEPT ![t] = [Idle EXCEPT !.pc = "stop", !.conn = x.conn]]
      BY <1>1, <3>2 DEF Idle
    <3>3. CASE th' = [th EXCEPT ![t] = Idle]
      BY <1>1, <3>3 DEF Idle
    <3> QED BY <1>14, <3>1, <3>2, <3>3 DEF Again, Stop
  <2> QED BY <1>14, <2>1 DEF InTime, Again, Stop
<1> QED BY <1>5, <1>6, <1>7, <1>8, <1>9, <1>10, <1>11, <1>12, <1>13, <1>14 DEF Step

\* What the two writes to a bucket leave: the first must not end a window early.
LEMMA PopulateKeeps ==
  ASSUME TypeInv, RangeInv, WindowInv, NEW t \in Threads, Populate(t),
         NEW b \in Buckets \ raced'
  PROVE  /\ Kept(b)'
         /\ th'[t].pc = "window" /\ th'[t].target = b => HalfWritten(th[t])'
         /\ \A u \in Threads \ {t} : th[u].pc = "window" /\ th[u].target = b =>
              bucket'[b] = bucket[b] /\ promise'[b] = promise[b]
<1> DEFINE x == th[t]
<1>1. th \in [Threads -> ThreadType] /\ x \in ThreadType
  BY DEF TypeInv, ThType
<1>2. /\ b \in Buckets /\ b \notin raced /\ Kept(b) /\ promise' = promise /\ promise[b] \in Int
      /\ bucket[b] \in [remaining : {0, 1}, reset : Int] /\ b \in DOMAIN bucket
  BY DEF Populate, WindowInv, TypeInv, BucketType
<1>3. \A u \in Threads \ {t} : th[u].pc = "window" /\ th[u].target = b => x.target # b
  <2> SUFFICES ASSUME NEW u \in Threads \ {t}, th[u].pc = "window", th[u].target = b, x.target = b
               PROVE  FALSE
    OBVIOUS
  <2>1. b \in Unlocked(t)
    BY DEF Unlocked
  <2> QED BY <2>1 DEF Populate
<1>4. CASE bucket' = bucket /\ th' = [th EXCEPT ![t] = Judged(@)]
  <2>1. th'[t].pc = "nap"
    BY <1>1, <1>4 DEF Judged, ThreadType
  <2> QED BY <1>2, <1>4, <2>1 DEF Kept
<1>5. CASE ~(bucket' = bucket /\ th' = [th EXCEPT ![t] = Judged(@)])
  <2>1. PICK now \in Nows :
          /\ ~(x.answer.remaining > bucket[x.target].remaining /\ now < bucket[x.target].reset)
          /\ th' = [th EXCEPT ![t].pc = "window",
                              ![t].now = IF x.answer.after = Past THEN Past ELSE now + x.answer.after]
          /\ bucket' = [bucket EXCEPT ![x.target].remaining = x.answer.remaining]
    BY <1>5 DEF Populate
  <2>2. th'[t].answer = x.answer /\ th'[t].target = x.target /\ th'[t].pc = "window"
    BY <1>1, <2>1 DEF ThreadType
  <2>3. CASE x.target # b
    <3>1. bucket'[b] = bucket[b]
      BY <1>2, <2>1, <2>3
    <3> QED BY <1>2, <2>2, <2>3, <3>1 DEF Kept
  <2>4. CASE x.target = b
    <3>1. /\ bucket'[b].remaining = x.answer.remaining /\ bucket'[b].reset = bucket[b].reset
          /\ x.answer.remaining \in {0, 1}
      BY <1>1, <1>2, <2>1, <2>4 DEF ThreadType, AnyAnswer
    <3>2. x.answer.remaining = 1 => promise[b] <= 0
      <4>1. now \in Int /\ now <= 0
        BY NowsAreNumbers
      <4>2. SUFFICES ASSUME x.answer.remaining = 1, promise[b] > 0 PROVE FALSE
        BY <1>2
      <4>3. bucket[b].remaining = 0 /\ bucket[b].reset >= promise[b]
        BY <1>2, <4>2 DEF Kept
      <4>4. now < bucket[b].reset
        BY <1>2, <4>1, <4>2, <4>3
      <4> QED BY <2>1, <2>4, <4>2, <4>3, <4>4
    <3>3. Kept(b)'
      BY <1>2, <3>1, <3>2 DEF Kept
    <3>4. HalfWritten(th[t])'
      BY <1>2, <2>2, <2>4, <3>1, <3>2 DEF HalfWritten
    <3> QED BY <1>3, <2>2, <2>4, <3>3, <3>4
  <2> QED BY <2>3, <2>4
<1> QED BY <1>4, <1>5

LEMMA WindowKeeps ==
  ASSUME TypeInv, RangeInv, WindowInv, NEW t \in Threads, Window(t), NEW b \in Buckets \ raced'
  PROVE  /\ Kept(b)' /\ th'[t].pc = "nap"
         /\ \A u \in Threads \ {t} : th[u].pc = "window" /\ th[u].target = b =>
              bucket'[b] = bucket[b] /\ promise'[b] = promise[b]
<1> DEFINE x == th[t]
<1>1. th \in [Threads -> ThreadType] /\ x \in ThreadType
  BY DEF TypeInv, ThType
<1>2. /\ b \in Buckets /\ b \notin raced /\ Kept(b) /\ promise[b] \in Int
      /\ bucket[b] \in [remaining : {0, 1}, reset : Int]
      /\ b \in DOMAIN bucket /\ b \in DOMAIN promise
  BY DEF Window, WindowInv, TypeInv, BucketType
<1>3. \A u \in Threads \ {t} : th[u].pc = "window" /\ th[u].target = b => x.target # b
  <2> SUFFICES ASSUME NEW u \in Threads \ {t}, th[u].pc = "window", th[u].target = b, x.target = b
               PROVE  FALSE
    OBVIOUS
  <2>1. b \in Unlocked(t)
    BY DEF Unlocked
  <2> QED BY <2>1 DEF Window
<1>4. th'[t].pc = "nap"
  <2>1. Judged(x).pc = "nap"
    BY <1>1 DEF Judged, ThreadType
  <2> QED BY <1>1, <2>1 DEF Window
<1> DEFINE global429 == x.answer.kind = "limited_globally"
<1>5. /\ bucket' = IF global429 \/ x.answer.after = Past THEN bucket
                   ELSE [bucket EXCEPT ![x.target].reset = x.now]
      /\ promise' = [promise EXCEPT ![x.target] =
                       IF global429 \/ ~Binding(x.answer) THEN @ ELSE x.bound]
  BY DEF Window
<1>6. CASE x.target # b
  <2>1. bucket'[b] = bucket[b] /\ promise'[b] = promise[b]
    BY <1>2, <1>5, <1>6
  <2> QED BY <1>2, <1>4, <2>1 DEF Kept
<1>7. CASE x.target = b
  <2>1. HalfWritten(x) /\ InTime(x, lag) /\ x.pc = "window"
    BY <1>2, <1>7 DEF WindowInv, Window
  <2>2. x.answer.remaining \in {0, 1} /\ x.now \in Int /\ x.bound \in Int
    BY <1>1 DEF ThreadType, AnyAnswer
  <2>3. CASE ~global429 /\ Binding(x.answer)
    <3>1. promise'[b] = x.bound /\ bucket'[b].reset = x.now
          /\ bucket'[b].remaining = bucket[b].remaining
      BY <1>2, <1>5, <1>7, <2>3 DEF Binding
    <3>2. bucket[b].remaining = 0
      BY <1>7, <2>1, <2>3 DEF HalfWritten, Binding
    <3>3. x.bound > 0 => x.now >= x.bound
      BY <2>1, <2>3 DEF InTime, Told
    <3> QED BY <1>3, <1>4, <1>7, <3>1, <3>2, <3>3 DEF Kept
  <2>4. CASE global429 \/ ~Binding(x.answer)
    <3>1. promise'[b] = promise[b] /\ bucket'[b].remaining = bucket[b].remaining
      BY <1>2, <1>5, <1>7, <2>4
    <3>2. CASE bucket' = bucket
      BY <1>2, <1>3, <1>4, <1>7, <3>1, <3>2 DEF Kept
    <3>3. CASE bucket' # bucket
      <4>1. x.answer.remaining = 1
        BY <1>5, <2>2, <2>4, <3>3 DEF Binding
      <4>2. promise[b] <= 0
        BY <1>7, <2>1, <4>1 DEF HalfWritten
      <4> QED BY <1>2, <1>3, <1>4, <1>7, <3>1, <4>2 DEF Kept
    <3> QED BY <3>2, <3>3
  <2> QED BY <2>3, <2>4
<1> QED BY <1>6, <1>7

\* Steps that write to no bucket.
LEMMA BucketUntouched ==
  ASSUME TypeInv, NEW t \in Threads, Step(t), ~Populate(t), ~Window(t)
  PROVE  bucket' = bucket /\ promise' = promise /\ raced' = raced /\ th'[t].pc # "window"
<1>1. th \in [Threads -> ThreadType]
  BY DEF TypeInv, ThType
<1>2. CASE Lock(t) \/ Send(t) \/ Fail(t) \/ Stamp(t) \/ Match(t) \/ Nap(t)
  BY <1>1, <1>2 DEF Lock, Send, Fail, Stamp, Match, Nap, ThreadType
<1>3. CASE Look(t) \/ Answer(t) \/ Create(t)
  <2>1. CASE Look(t)
    <3>1. PICK now \in Nows :
            th' = [th EXCEPT ![t].pc = "send", ![t].until = Timeout(th[t].b) - now,
                             ![t].seen = IF th[t].b \in raced THEN Past ELSE promise[th[t].b]]
      BY <2>1 DEF Look
    <3>2. th'[t].pc = "send"
      BY <1>1, <3>1 DEF ThreadType
    <3> QED BY <2>1, <3>2 DEF Look
  <2>2. CASE Answer(t)
    <3>1. PICK a \in Answers, now \in Nows :
            th' = [th EXCEPT ![t].pc = "stamp", ![t].answer = a, ![t].until = WaitAfter(a, now),
                             ![t].seen = Past,
                             ![t].bound = IF Binding(a) THEN a.after ELSE Past]
      BY <2>2 DEF Answer
    <3>2. th'[t].pc = "stamp"
      BY <1>1, <3>1 DEF ThreadType
    <3> QED BY <2>2, <3>2 DEF Answer
  <2>3. CASE Create(t)
    <3>1. PICK b \in {made + 1, MissBucket} :
            th' = [th EXCEPT ![t].pc = "populate", ![t].target = b]
      BY <2>3 DEF Create
    <3>2. th'[t].pc = "populate"
      BY <1>1, <3>1 DEF ThreadType
    <3> QED BY <2>3, <3>2 DEF Create
  <2> QED BY <1>3, <2>1, <2>2, <2>3
<1>4. CASE Again(t) \/ Stop(t)
  <2>1. th'[t].pc # "window"
    <3>1. CASE th' = [th EXCEPT ![t] = Repeated(@)]
      BY <1>1, <3>1 DEF Repeated, ThreadType
    <3>2. CASE th' = [th EXCEPT ![t] = [Idle EXCEPT !.pc = "stop", !.conn = th[t].conn]]
      BY <1>1, <3>2 DEF Idle
    <3>3. CASE th' = [th EXCEPT ![t] = Idle]
      BY <1>1, <3>3 DEF Idle
    <3> QED BY <1>4, <3>1, <3>2, <3>3 DEF Again, Stop
  <2> QED BY <1>4, <2>1 DEF Again, Stop
<1> QED BY <1>2, <1>3, <1>4 DEF Step

LEMMA WindowStep ==
  ASSUME TypeInv, RangeInv, MadeInv, WindowInv, [Next]_vars
  PROVE  WindowInv'
<1>1. th \in [Threads -> ThreadType] /\ lag \in Nat
  BY Numbers DEF TypeInv, ThType, TimeType
<1>2. ASSUME NEW t \in Threads, Step(t) PROVE WindowInv'
  <2>1. \A u \in Threads : InTime(th'[u], lag')
    <3>1. InTime(th'[t], lag') /\ lag' \in {lag, 0}
      BY <1>2, StepInTime
    <3>2. \A u \in Threads \ {t} : th'[u] = th[u]
      BY <1>2, ThTypeStep
    <3>3. \A u \in Threads : InTime(th[u], lag)
      BY DEF WindowInv
    <3> QED BY <1>1, <3>1, <3>2, <3>3, SoonerInTime
  <2>2. \A u \in Threads \ {t} : th'[u] = th[u]
    BY <1>2, ThTypeStep
  <2>3. CASE ~Populate(t) /\ ~Window(t)
    <3>1. bucket' = bucket /\ promise' = promise /\ raced' = raced /\ th'[t].pc # "window"
      BY <1>2, <2>3, BucketUntouched
    <3>2. \A b \in Buckets \ raced' : Kept(b)'
      BY <3>1 DEF WindowInv, Kept
    <3>3. \A u \in Threads : th'[u].pc = "window" /\ th'[u].target \notin raced' =>
            HalfWritten(th[u])'
      BY <2>2, <3>1 DEF WindowInv, HalfWritten
    <3> QED BY <2>1, <3>2, <3>3 DEF WindowInv
  <2>4. CASE Populate(t) \/ Window(t)
    <3>1. \A b \in Buckets \ raced' :
            /\ Kept(b)'
            /\ th'[t].pc = "window" /\ th'[t].target = b => HalfWritten(th[t])'
            /\ \A u \in Threads \ {t} : th[u].pc = "window" /\ th[u].target = b =>
                 bucket'[b] = bucket[b] /\ promise'[b] = promise[b]
      BY <2>4, PopulateKeeps, WindowKeeps
    <3>2. raced \subseteq raced'
      BY <2>4 DEF Populate, Window
    <3>3. \A u \in Threads : th'[u].target \in Buckets
      BY <1>2, ThTypeStep DEF ThType, ThreadType
    <3>4. ASSUME NEW u \in Threads, th'[u].pc = "window", th'[u].target \notin raced'
          PROVE  HalfWritten(th[u])'
      <4>1. CASE u = t
        BY <3>1, <3>3, <3>4, <4>1
      <4>2. CASE u # t
        <5>1. th'[u] = th[u] /\ HalfWritten(th[u])
          BY <2>2, <3>2, <3>4, <4>2 DEF WindowInv
        <5>2. /\ bucket'[th[u].target] = bucket[th[u].target]
              /\ promise'[th[u].target] = promise[th[u].target]
          BY <3>1, <3>3, <3>4, <4>2, <5>1
        <5> QED BY <5>1, <5>2 DEF HalfWritten
      <4> QED BY <4>1, <4>2
    <3> QED BY <2>1, <3>1, <3>4 DEF WindowInv
  <2> QED BY <2>3, <2>4
<1>3. ASSUME NEW t \in Threads, NEW r \in Routes, NEW type \in Types, Call(t, r, type)
      PROVE  WindowInv'
  <2>1. \A u \in Threads \ {t} : th'[u] = th[u]
    BY <1>3, CallTh
  <2>2. th'[t].pc = "lock"
    <3>1. PICK c \in 1..MaxConns :
            th' = [th EXCEPT ![t] = [Idle EXCEPT !.pc = "lock", !.conn = c, !.route = r,
                                                 !.type = type, !.b = BucketOf(r)]]
      BY <1>3 DEF Call
    <3> DEFINE x == [Idle EXCEPT !.pc = "lock", !.conn = c, !.route = r, !.type = type,
                                !.b = BucketOf(r)]
    <3>2. x.pc = "lock"
      BY DEF Idle
    <3>3. th'[t] = x
      BY <1>1, <3>1
    <3> HIDE DEF x
    <3> QED BY <3>2, <3>3
  <2>3. bucket' = bucket /\ promise' = promise /\ raced' = raced /\ lag' = lag
    BY <1>3 DEF Call
  <2>4. \A u \in Threads : InTime(th'[u], lag')
    BY <2>1, <2>2, <2>3 DEF WindowInv, InTime
  <2>5. \A b \in Buckets \ raced' : Kept(b)'
    BY <2>3 DEF WindowInv, Kept
  <2>6. \A u \in Threads : th'[u].pc = "window" /\ th'[u].target \notin raced' =>
          HalfWritten(th[u])'
    BY <2>1, <2>2, <2>3 DEF WindowInv, HalfWritten
  <2> QED BY <2>4, <2>5, <2>6 DEF WindowInv
<1>4. CASE LoopStamps \/ UNCHANGED vars
  <2>1. /\ th' = th /\ bucket' = bucket /\ promise' = promise /\ raced' = raced
        /\ lag' \in {lag, 0}
    BY <1>4 DEF LoopStamps, vars, syncVars
  <2>2. \A u \in Threads : InTime(th'[u], lag')
    BY <1>1, <2>1, SoonerInTime DEF WindowInv
  <2> QED BY <2>1, <2>2 DEF WindowInv, Kept, HalfWritten
<1>5. CASE Tick
  <2>1. \A u \in Threads : th'[u] = OlderThread(th[u])
    BY <1>5, TickStep
  <2>2. lag' \in {lag, lag + 1} /\ raced' = raced
    BY <1>5 DEF Tick
  <2>3. \A u \in Threads : InTime(th'[u], lag')
    BY <1>1, <2>1, <2>2, OlderInTime DEF WindowInv
  <2>4. \A n \in Int : Older(n) = IF n <= -1 THEN -1 ELSE n - 1
    BY DEF Older, Past
  <2>5. \A b \in Buckets :
          /\ bucket[b].reset \in Int /\ promise[b] \in Int
          /\ bucket'[b].remaining = bucket[b].remaining
          /\ bucket'[b].reset = Older(bucket[b].reset) /\ promise'[b] = Older(promise[b])
    BY <1>5 DEF Tick, TypeInv, BucketType
  <2>6. \A b \in Buckets \ raced' : Kept(b)'
    BY <2>2, <2>4, <2>5 DEF WindowInv, Kept
  <2>7. ASSUME NEW u \in Threads, th'[u].pc = "window", th'[u].target \notin raced'
        PROVE  HalfWritten(th[u])'
    <3>1. /\ th'[u].pc = th[u].pc /\ th'[u].target = th[u].target
          /\ th'[u].answer = th[u].answer /\ th[u].target \in Buckets
      <4>1. \A x \in ThreadType : /\ OlderThread(x).pc = x.pc
                                  /\ OlderThread(x).target = x.target
                                  /\ OlderThread(x).answer = x.answer /\ x.target \in Buckets
        BY DEF OlderThread, ThreadType
      <4> QED BY <1>1, <2>1, <4>1
    <3>2. HalfWritten(th[u])
      BY <2>2, <2>7, <3>1 DEF WindowInv
    <3> QED BY <2>4, <2>5, <3>1, <3>2 DEF HalfWritten
  <2> QED BY <2>3, <2>6, <2>7 DEF WindowInv
<1> QED BY <1>2, <1>3, <1>4, <1>5 DEF Next

-----------------------------------------------------------------------------
(* Theorems *)

SyncInv ==
  /\ TypeInv /\ RangeInv /\ MadeInv /\ LockInv /\ RouteOnce
  /\ QueueInv /\ UseInv /\ AnswerInv /\ WindowInv

LEMMA InvInit == Init => SyncInv
<1> SUFFICES ASSUME Init PROVE SyncInv
  OBVIOUS
<1> USE Numbers
<1>1. TypeInv
  BY TypeInit
<1>2. /\ \A t \in Threads : /\ th[t] = Idle /\ ~Using(t)
                            /\ Idle.b = NullBucket /\ Idle.target = NullBucket
                            /\ Idle.attempt = 0 /\ Idle.pc = "idle"
      /\ routes = <<>> /\ made = 2 /\ calls = 0 /\ idle = <<>> /\ busy = <<>>
      /\ conn = [c \in 1..MaxConns |-> NewConn]
      /\ promise = [b \in Buckets |-> Past]
  BY DEF Init, UaInit, Idle, Using
<1>3. RangeInv
  BY <1>2 DEF RangeInv, NullBucket
<1>4. MadeInv
  <2>1. Missing = {}
    BY <1>2 DEF Missing
  <2> QED BY <1>2, <2>1, FS_EmptySet DEF MadeInv
<1>5. LockInv
  BY <1>2 DEF LockInv, Holding
<1>6. RouteOnce
  BY <1>2 DEF RouteOnce
<1>7. Elems(idle) = {} /\ Elems(busy) = {}
  BY <1>2 DEF Elems
<1>8. QueueInv
  BY <1>2, <1>7 DEF QueueInv, Distinct, Total
<1>9. UseInv
  BY <1>2, <1>7 DEF UseInv
<1>10. AnswerInv
  BY <1>2 DEF AnswerInv, NewConn, Before, Reading
<1>11. WindowInv
  BY <1>2 DEF WindowInv, InTime, Kept, Past
<1> QED BY <1>1, <1>3, <1>4, <1>5, <1>6, <1>8, <1>9, <1>10, <1>11 DEF SyncInv

LEMMA InvStep == SyncInv /\ [Next]_vars => SyncInv'
BY TypeStep, RangeStep, MadeStep, LockStep, RouteOnceStep, QueueStep, UseStep, AnswerStep,
   WindowStep DEF SyncInv

\* What the operator of the library returns.
LEMMA ElemsAreToSet ==
  ASSUME NEW S, NEW s \in Seq(S)
  PROVE  ToSet(s) = Elems(s) /\ DOMAIN s = 1..Len(s)
BY DEF ToSet, Elems

\* A blocking request has a handle of its own for as long as it runs, judges the answer to
\* its own last attempt and sends its own content type: ua_conn_start, ua_conn_stop,
\* ua_conn_reset and ua_conn_add_header, for any threads that share the handles and any
\* transfers that fail half-way.
THEOREM RequestsAreOwn == Spec => []RequestIsOwn
<1>1. SyncInv => RequestIsOwn
  <2> SUFFICES ASSUME SyncInv PROVE RequestIsOwn
    OBVIOUS
  <2>1. HandlesExclusive
    <3>1. ToSet(busy) = Elems(busy) /\ ToSet(idle) = Elems(idle)
      BY ElemsAreToSet DEF SyncInv, TypeInv, UaType
    <3>2. UseInv /\ QueueInv
      BY DEF SyncInv
    <3>3. Elems(busy) = {th[t].conn : t \in {u \in Threads : Using(u)}}
      BY <3>2 DEF UseInv
    <3>4. \A t, u \in Threads : t # u /\ Using(t) /\ Using(u) => th[t].conn # th[u].conn
      BY <3>2 DEF UseInv
    <3> QED BY <3>1, <3>2, <3>3, <3>4 DEF HandlesExclusive, QueueInv
  <2>2. AnswerIsOwn /\ TypeIsOwn
    BY DEF SyncInv, AnswerInv, AnswerIsOwn, TypeIsOwn, Reading, Using
  <2> QED BY <2>1, <2>2 DEF RequestIsOwn
<1> QED BY <1>1, InvInit, InvStep, PTL DEF Spec

\* A route is added once although it is looked for and added in two critical sections; a
\* thread has the lock of its bucket over all attempts; and no request is sent before the
\* end of the window its bucket knew of, however late the event loop's timestamps are:
\* discord_bucket_get_wait, _discord_bucket_get_match and _discord_bucket_populate.
THEOREM LimitsAreKept == Spec => []LimitsKept
<1>1. SyncInv => LimitsKept
  <2> SUFFICES ASSUME SyncInv PROVE LimitsKept
    OBVIOUS
  <2>1. TypeOK
    <3>1. th \in [Threads -> ThreadType] /\ RangeInv /\ LockInv
      BY DEF SyncInv, TypeInv, ThType
    <3>2. made \in Int /\ \A b \in Buckets : b \in Int /\ b >= 1
      BY DEF SyncInv, TypeInv, MapType, Buckets
    <3>3. \A t \in Threads : th[t].b \in 1..made /\ th[t].target \in 1..made
      BY <3>1, <3>2 DEF ThreadType, RangeInv
    <3>4. \A t \in Threads : th[t].attempt \in 0..RetryLimit
      BY <3>1, Numbers DEF ThreadType, RangeInv
    <3>5. \A t \in Threads : Holding(t) => lock[th[t].b] = t
      BY <3>1 DEF LockInv
    <3>6. DOMAIN routes = 1..Len(routes) /\ \A i \in DOMAIN routes : routes[i].bucket \in 2..made
      BY <3>1, ElemsAreToSet DEF RangeInv, SyncInv, TypeInv, MapType
    <3>7. ToSet(idle) \cup ToSet(busy) \subseteq 1..MaxConns
      <4>1. idle \in Seq(1..MaxConns) /\ busy \in Seq(1..MaxConns)
        BY DEF SyncInv, TypeInv, UaType
      <4>2. Elems(idle) \subseteq 1..MaxConns /\ Elems(busy) \subseteq 1..MaxConns
        <5>1. \A i \in 1..Len(idle) : idle[i] \in 1..MaxConns
          BY <4>1, ElementOfSeq
        <5>2. \A i \in 1..Len(busy) : busy[i] \in 1..MaxConns
          BY <4>1, ElementOfSeq
        <5> QED BY <5>1, <5>2 DEF Elems
      <4>3. ToSet(idle) = Elems(idle) /\ ToSet(busy) = Elems(busy)
        BY <4>1, ElemsAreToSet
      <4> QED BY <4>2, <4>3
    <3>8. lag \in 0..MaxLag
      BY DEF SyncInv, TypeInv, TimeType
    <3> QED BY <3>3, <3>4, <3>5, <3>6, <3>7, <3>8 DEF TypeOK
  <2>2. RouteOnce /\ WindowRespected
    BY DEF SyncInv, WindowInv, InTime, WindowRespected
  <2> QED BY <2>1, <2>2 DEF LimitsKept
<1> QED BY <1>1, InvInit, InvStep, PTL DEF Spec
=============================================================================
