--------------------------- MODULE RequestsProofs ---------------------------
(***************************************************************************)
(* Theorems about Requests, for every number of routes, requests and       *)
(* retries, every kind and order of answers and every number of calls of   *)
(* discord_adapter_stop_all.                                               *)
(***************************************************************************)
EXTENDS Requests, QueueLemmas

-----------------------------------------------------------------------------
(* Types *)

States == {"live", "ended", "gave_up", "cancelled"}
Stamps == {n \in Int : n >= Past}

ContextType == [req : 0..MaxRequests, route : Routes, bucket : Buckets,
                attempt : 0..RetryLimit, timeout : Int]
BucketType  == [hash : Hashes \cup {NoHash}, remaining : Nat, reset : Int, freeze : BOOLEAN,
                waitq : Seq(Contexts), busyq : Seq(Contexts)]
AnswerType  == [kind : Kinds, remaining : Nat, after : Stamps, retry_after : Nat,
                named : BOOLEAN]
LogType     == [route : Routes, high : BOOLEAN, sends : Nat, done : Nat, fail : Nat,
                state : States]

PcType     == /\ pc \in {"loop", "timeouts", "pending", "transfers", "callback"}
              /\ IF pc = "callback" THEN msg \in [cxt : Contexts, answer : AnswerType]
                                    ELSE msg = NoMsg
CxtType    == cxt \in [Contexts -> ContextType]
BuckType   == bucket \in [Buckets -> BucketType]
LogInType  == log \in Seq(LogType) /\ Len(log) <= MaxRequests
ListType   == idleq \in Seq(Contexts) /\ timeouts \subseteq Contexts
CountType  == /\ wait \in Stamps /\ conns \in Nat /\ stops \in Nat
              /\ allocated \in Nat /\ allocated <= Len(log)
RouteType  == made \in Buckets /\ made >= 2 /\ routes \in [Routes -> {NoRoute} \cup 2..made]

TypeInv ==
  PcType /\ CxtType /\ BuckType /\ LogInType /\ ListType /\ CountType /\ RouteType

-----------------------------------------------------------------------------
(* The inductive invariant *)

\* Buckets are made for routes that had none.
MadeInv == made <= 2 + Cardinality({r \in Routes : routes[r] # NoRoute})

Waiting == [b \in Buckets |-> Elems(bucket[b].waitq)]
Sent    == [b \in Buckets |-> Elems(bucket[b].busyq)]
Free    == Elems(idleq)
Known   == 1..allocated

\* No queue links a context twice.
QueueInv ==
  /\ Distinct(idleq)
  /\ \A b \in Buckets : Distinct(bucket[b].waitq) /\ Distinct(bucket[b].busyq)

\* Each context is in one place, and knows its bucket.
PlaceInv ==
  /\ Free \subseteq Known /\ timeouts \subseteq Known /\ Free \cap timeouts = {}
  /\ \A b \in Buckets :
       /\ Waiting[b] \cap Sent[b] = {}
       /\ \A c \in Waiting[b] \cup Sent[b] :
            c \in Known /\ c \notin Free /\ c \notin timeouts /\ cxt[c].bucket = b
  /\ \A c \in Known :
       /\ cxt[c].bucket <= made
       /\ c \in Free \cup timeouts \cup Waiting[cxt[c].bucket] \cup Sent[cxt[c].bucket]

\* The request whose user is called back is busy.
MsgInv == pc = "callback" => msg.cxt \in Sent[cxt[msg.cxt].bucket]

\* A handle is running for each request that is busy.
InFlight == UNION {Sent[b] : b \in 1..made}
ConnInv  == Cardinality(InFlight) <= conns

Live == Known \ Free

\* Each request that is live has a context of its own, which counts its attempts.
LogInv ==
  /\ \A c \in Live :
       /\ cxt[c].req \in 1..Len(log) /\ log[cxt[c].req].state = "live"
       /\ log[cxt[c].req].sends <=
            cxt[c].attempt + (IF c \in Sent[cxt[c].bucket] THEN 1 ELSE 0)
  /\ \A c, d \in Live : cxt[c].req = cxt[d].req => c = d
  /\ AttemptsBounded

\* A request that has succeeded is over as soon as its callback returns.
DoneInv ==
  \A r \in 1..Len(log) :
    /\ log[r].done <= 1
    /\ log[r].done = 1 /\ log[r].state = "live" =>
         pc = "callback" /\ msg.answer.kind = "ok" /\ cxt[msg.cxt].req = r

RequestInv ==
  /\ TypeInv /\ MadeInv /\ QueueInv /\ PlaceInv /\ FrozenHasTimer
  /\ MsgInv /\ ConnInv /\ LogInv /\ DoneInv

-----------------------------------------------------------------------------
(* The operators of the model *)

\* Only is a recursive function: there is one, by induction on its domain.
LEMMA OnlyStep ==
  ASSUME NEW T, NEW q \in Seq(T), NEW S
  PROVE  \E f : /\ Only(q, S) = f[Len(q)] /\ f[0] = <<>>
                /\ \A i \in 1..Len(q) :
                     f[i] = IF q[i] \in S THEN Append(f[i - 1], q[i]) ELSE f[i - 1]
<1> DEFINE Is(f, k) == f = [i \in 0..k |-> IF i = 0 THEN <<>>
                              ELSE IF q[i] \in S THEN Append(f[i - 1], q[i]) ELSE f[i - 1]]
           P == {k \in Nat : \E f : Is(f, k)}
<1>1. 0 \in P
  <2> DEFINE g == [i \in 0..0 |-> <<>>]
  <2>1. \A i \in 0..0 : i = 0
    OBVIOUS
  <2>2. g = [i \in 0..0 |-> IF i = 0 THEN <<>>
               ELSE IF q[i] \in S THEN Append(g[i - 1], q[i]) ELSE g[i - 1]]
    BY <2>1
  <2>3. \E f : Is(f, 0)
    BY <2>2
  <2> HIDE DEF Is
  <2> QED BY <2>3
<1>2. ASSUME NEW k \in Nat, k \in P PROVE k + 1 \in P
  <2>1. PICK f : Is(f, k)
    BY <1>2
  <2> DEFINE g == [i \in 0..k + 1 |-> IF i <= k THEN f[i]
                     ELSE IF q[i] \in S THEN Append(f[i - 1], q[i]) ELSE f[i - 1]]
  <2>2. \A i \in 0..k : f[i] = IF i = 0 THEN <<>>
          ELSE IF q[i] \in S THEN Append(f[i - 1], q[i]) ELSE f[i - 1]
    BY <2>1, Zenon
  <2>3. \A i \in 0..k : g[i] = f[i]
    OBVIOUS
  <2>4. \A i \in 0..k + 1 : g[i] = IF i = 0 THEN <<>>
          ELSE IF q[i] \in S THEN Append(g[i - 1], q[i]) ELSE g[i - 1]
    <3> TAKE i \in 0..k + 1
    <3>1. CASE i = 0
      <4>1. 0 \in 0..k
        OBVIOUS
      <4> HIDE DEF g
      <4> QED BY <2>2, <2>3, <3>1, <4>1
    <3>2. CASE i # 0 /\ i <= k
      <4>1. i \in 0..k /\ i - 1 \in 0..k
        BY <3>2
      <4>2. g[i] = f[i] /\ g[i - 1] = f[i - 1]
        BY <2>3, <4>1
      <4> HIDE DEF g
      <4> QED BY <2>2, <3>2, <4>1, <4>2
    <3>3. CASE i # 0 /\ ~(i <= k)
      <4>1. i - 1 \in 0..k
        BY <3>3
      <4>2. g[i - 1] = f[i - 1]
        BY <2>3, <4>1
      <4> QED BY <3>3, <4>2
    <3> QED BY <3>1, <3>2, <3>3
  <2>5. g = [i \in 0..k + 1 |-> g[i]]
    OBVIOUS
  <2> HIDE DEF g
  <2>6. Is(g, k + 1)
    BY <2>4, <2>5, Zenon
  <2>7. \E h : Is(h, k + 1)
    BY <2>6, Zenon
  <2> HIDE DEF Is
  <2> QED BY <2>7
<1>3. Len(q) \in Nat
  OBVIOUS
<1>4. Len(q) \in P
  <2> HIDE DEF P
  <2>1. Nat \subseteq P
    BY <1>1, <1>2, SetInduction
  <2> QED BY <1>3, <2>1
<1> DEFINE only == CHOOSE f : Is(f, Len(q))
<1>5. Is(only, Len(q))
  BY <1>4
<1>6. Only(q, S) = only[Len(q)]
  BY Zenon DEF Only
<1> HIDE DEF only
<1>7. \A i \in 0..Len(q) : only[i] = IF i = 0 THEN <<>>
          ELSE IF q[i] \in S THEN Append(only[i - 1], q[i]) ELSE only[i - 1]
  BY <1>5, Zenon
<1>8. only[0] = <<>>
  BY <1>3, <1>7
<1>9. \A i \in 1..Len(q) :
        only[i] = IF q[i] \in S THEN Append(only[i - 1], q[i]) ELSE only[i - 1]
  <2>1. \A i \in 1..Len(q) : i \in 0..Len(q) /\ i # 0
    BY <1>3
  <2> QED BY <1>7, <2>1, Zenon
<1> QED BY <1>6, <1>8, <1>9, Zenon

LEMMA OnlyElems ==
  ASSUME NEW T, NEW q \in Seq(T), NEW S
  PROVE  /\ Only(q, S) \in Seq(T) /\ Elems(Only(q, S)) = Elems(q) \cap S
         /\ Distinct(q) => Distinct(Only(q, S))
<1> DEFINE n == Len(q)
<1>1. PICK f : /\ Only(q, S) = f[n] /\ f[0] = <<>>
               /\ \A i \in 1..n : f[i] = IF q[i] \in S THEN Append(f[i - 1], q[i]) ELSE f[i - 1]
  BY OnlyStep
<1> DEFINE Before(k) == {q[i] : i \in 1..k}
           Good(k) == /\ f[k] \in Seq(T)
                      /\ Elems(f[k]) = Before(k) \cap S
                      /\ Distinct(q) => Distinct(f[k])
           P == {k \in Nat : k <= n => Good(k)}
<1>2. n \in Nat /\ \A i \in 1..n : q[i] \in T
  OBVIOUS
<1>3. 0 \in P
  <2>1. 1..0 = {}
    OBVIOUS
  <2>2. Before(0) = {}
    BY <2>1
  <2>3. <<>> \in Seq(T)
    OBVIOUS
  <2>4. Good(0)
    BY <1>1, <2>2, <2>3, EmptyElems
  <2> HIDE DEF Good
  <2> QED BY <2>4
<1>4. ASSUME NEW k \in Nat, k \in P PROVE k + 1 \in P
  <2> SUFFICES ASSUME k + 1 <= n PROVE Good(k + 1)
    OBVIOUS
  <2> DEFINE t == f[k]
             e == q[k + 1]
  <2>1. Good(k)
    BY <1>2, <1>4
  <2>2. k + 1 \in 1..n /\ (k + 1) - 1 = k /\ e \in T
    BY <1>2
  <2>3. f[k + 1] = IF e \in S THEN Append(t, e) ELSE t
    BY <1>1, <2>2
  <2>4. Before(k + 1) = Before(k) \cup {e}
    <3>1. 1..k + 1 = (1..k) \cup {k + 1}
      OBVIOUS
    <3> QED BY <3>1
  <2>5. Distinct(q) => e \notin Before(k)
    <3>1. \A i \in 1..k : i \in 1..n /\ i # k + 1
      BY <2>2
    <3> QED BY <2>2, <3>1 DEF Distinct
  <2>6. t \in Seq(T) /\ Elems(t) = Before(k) \cap S /\ (Distinct(q) => Distinct(t))
    BY <2>1
  <2> HIDE DEF t, e, Before, n
  <2>7. CASE e \in S
    <3>1. /\ Append(t, e) \in Seq(T) /\ Elems(Append(t, e)) = Elems(t) \cup {e}
          /\ Distinct(t) /\ e \notin Elems(t) => Distinct(Append(t, e))
      BY <2>2, <2>6, AppendElems
    <3> QED BY <2>3, <2>4, <2>5, <2>6, <2>7, <3>1
  <2>8. CASE e \notin S
    BY <2>3, <2>4, <2>5, <2>6, <2>8
  <2> QED BY <2>7, <2>8
<1>5. Good(n)
  <2> HIDE DEF P
  <2>1. Nat \subseteq P
    BY <1>3, <1>4, SetInduction
  <2>2. n \in P
    BY <1>2, <2>1
  <2> HIDE DEF Good
  <2> QED BY <1>2, <2>2 DEF P
<1>6. Before(n) = Elems(q)
  BY DEF Elems
<1> QED BY <1>1, <1>5, <1>6

\* Contexts and buckets are numbered.
LEMMA Numbers ==
  /\ MaxRequests \in Nat /\ RetryLimit \in Nat /\ IsFiniteSet(Routes)
  /\ Cardinality(Routes) \in Nat
  /\ NullBucket \in Buckets /\ MissBucket \in Buckets /\ NullBucket # MissBucket
  /\ \A b \in Buckets : b \in Nat /\ b >= 1
  /\ \A m \in Buckets : \A b \in 1..m : b \in Buckets
  /\ \A c \in Contexts : c \in Nat /\ c >= 1
  /\ IsFiniteSet(Contexts)
<1>1. IsFiniteSet(Routes) /\ MaxRequests \in Nat /\ RetryLimit \in Nat
  BY RequestsAssumption
<1>2. Cardinality(Routes) \in Nat
  BY <1>1, FS_CardinalityType
<1>3. IsFiniteSet(Contexts)
  BY <1>1, FS_Interval DEF Contexts
<1> QED BY <1>1, <1>2, <1>3 DEF Buckets, NullBucket, MissBucket, Contexts

\* The requests of TypeOK's Busy are those that are sent.
LEMMA BusySets ==
  ASSUME NEW bs \in [Buckets -> BucketType], NEW m \in Buckets
  PROVE  LET sent == UNION {Elems(bs[b].busyq) : b \in 1..m}
         IN  /\ UNION {ToSet(bs[b].busyq) : b \in 1..m} = sent
             /\ sent \subseteq Contexts /\ IsFiniteSet(sent)
<1>1. \A b \in 1..m : bs[b] \in BucketType
  BY Numbers
<1>2. ASSUME NEW b \in 1..m
      PROVE  ToSet(bs[b].busyq) = Elems(bs[b].busyq) /\ Elems(bs[b].busyq) \subseteq Contexts
  <2>1. bs[b].busyq \in Seq(Contexts)
    BY <1>1 DEF BucketType
  <2> QED BY <2>1, ElemsOfSeq
<1> DEFINE sent == UNION {Elems(bs[b].busyq) : b \in 1..m}
<1>3. UNION {ToSet(bs[b].busyq) : b \in 1..m} = sent /\ sent \subseteq Contexts
  BY <1>2
<1>4. IsFiniteSet(sent)
  BY <1>3, Numbers, FS_Subset
<1> QED BY <1>3, <1>4

\* Whatever is sent is sent in one of the buckets that were made.
LEMMA InFlightIs ==
  ASSUME TypeInv, PlaceInv
  PROVE  /\ Busy = InFlight /\ InFlight \subseteq Contexts /\ IsFiniteSet(InFlight)
         /\ Cardinality(InFlight) \in Nat
         /\ \A b \in Buckets : \A c \in Sent[b] : c \in InFlight /\ c \in Live /\ b <= made
         /\ \A c \in InFlight : c \in Sent[cxt[c].bucket] /\ cxt[c].bucket \in Buckets
<1>1. bucket \in [Buckets -> BucketType] /\ made \in Buckets
  BY DEF TypeInv, BuckType, RouteType
<1>2. Busy = InFlight /\ InFlight \subseteq Contexts /\ IsFiniteSet(InFlight)
  <2>1. \A b \in 1..made : Sent[b] = Elems(bucket[b].busyq)
    BY <1>1, Numbers DEF Sent
  <2>2. InFlight = UNION {Elems(bucket[b].busyq) : b \in 1..made}
    BY <2>1 DEF InFlight
  <2> QED BY <1>1, <2>2, BusySets DEF Busy
<1>3. ASSUME NEW b \in Buckets, NEW c \in Sent[b]
      PROVE  c \in InFlight /\ c \in Live /\ b <= made
  <2>1. c \in Known /\ c \notin Free /\ cxt[c].bucket = b
    BY <1>3 DEF PlaceInv
  <2>2. b <= made /\ b \in 1..made
    BY <2>1, <1>1, Numbers DEF PlaceInv
  <2> QED BY <2>1, <2>2 DEF InFlight, Live
<1>4. ASSUME NEW c \in InFlight PROVE c \in Sent[cxt[c].bucket] /\ cxt[c].bucket \in Buckets
  <2>1. PICK b \in 1..made : c \in Sent[b]
    BY DEF InFlight
  <2>2. b \in Buckets
    BY <1>1, Numbers
  <2> QED BY <2>1, <2>2 DEF PlaceInv
<1> QED BY <1>2, <1>3, <1>4, FS_CardinalityType

LEMMA Typed ==
  ASSUME TypeInv
  PROVE  /\ \A b \in Buckets : /\ bucket[b] \in BucketType
                               /\ bucket[b].waitq \in Seq(Contexts) /\ bucket[b].busyq \in Seq(Contexts)
                               /\ bucket[b].remaining \in Nat /\ bucket[b].reset \in Int
                               /\ bucket[b].freeze \in BOOLEAN
                               /\ Waiting[b] \subseteq Contexts /\ Sent[b] \subseteq Contexts
         /\ \A c \in Contexts : /\ cxt[c] \in ContextType /\ cxt[c].bucket \in Buckets
                                /\ cxt[c].route \in Routes /\ cxt[c].req \in 0..MaxRequests
                                /\ cxt[c].attempt \in 0..RetryLimit /\ cxt[c].timeout \in Int
         /\ \A r \in 1..Len(log) : /\ log[r] \in LogType /\ log[r].sends \in Nat
                                   /\ log[r].done \in Nat /\ log[r].fail \in Nat
         /\ Len(log) \in Nat /\ Known \subseteq Contexts /\ DOMAIN log = 1..Len(log)
         /\ \A route \in Routes : routes[route] = NoRoute \/ routes[route] \in 2..made
<1>1. ASSUME NEW b \in Buckets
      PROVE  /\ bucket[b] \in BucketType
             /\ bucket[b].waitq \in Seq(Contexts) /\ bucket[b].busyq \in Seq(Contexts)
             /\ bucket[b].remaining \in Nat /\ bucket[b].reset \in Int
             /\ bucket[b].freeze \in BOOLEAN
             /\ Waiting[b] \subseteq Contexts /\ Sent[b] \subseteq Contexts
  <2>1. bucket[b] \in BucketType
    BY DEF TypeInv, BuckType
  <2>2. /\ bucket[b].waitq \in Seq(Contexts) /\ bucket[b].busyq \in Seq(Contexts)
        /\ bucket[b].remaining \in Nat /\ bucket[b].reset \in Int /\ bucket[b].freeze \in BOOLEAN
    BY <2>1 DEF BucketType
  <2>3. Waiting[b] \subseteq Contexts /\ Sent[b] \subseteq Contexts
    BY <2>2, ElemsOfSeq DEF Waiting, Sent
  <2> QED BY <2>1, <2>2, <2>3
<1>2. \A c \in Contexts : /\ cxt[c] \in ContextType /\ cxt[c].bucket \in Buckets
                          /\ cxt[c].route \in Routes /\ cxt[c].req \in 0..MaxRequests
                          /\ cxt[c].attempt \in 0..RetryLimit /\ cxt[c].timeout \in Int
  BY DEF TypeInv, CxtType, ContextType
<1>3. log \in Seq(LogType) /\ Len(log) <= MaxRequests /\ Len(log) \in Nat
  BY DEF TypeInv, LogInType
<1>4. \A r \in 1..Len(log) : log[r] \in LogType
  BY <1>3, ElementOfSeq
<1>5. \A r \in 1..Len(log) : log[r].sends \in Nat /\ log[r].done \in Nat /\ log[r].fail \in Nat
  BY <1>4 DEF LogType
<1>6. Known \subseteq Contexts
  BY <1>3, Numbers DEF TypeInv, CountType, Known, Contexts
<1>7. \A route \in Routes : routes[route] = NoRoute \/ routes[route] \in 2..made
  BY DEF TypeInv, RouteType
<1>8. DOMAIN log = 1..Len(log)
  BY <1>3
<1> QED BY <1>1, <1>2, <1>3, <1>4, <1>5, <1>6, <1>7, <1>8

LEMMA BucketOfType ==
  ASSUME TypeInv, NEW route \in Routes
  PROVE  BucketOf(route) \in Buckets /\ BucketOf(route) <= made
<1>1. made \in Buckets /\ made >= 2
  BY DEF TypeInv, RouteType
<1>2. routes[route] = NoRoute \/ routes[route] \in 2..made
  BY Typed
<1>3. \A b \in 2..made : b \in Buckets /\ b <= made
  BY <1>1, Numbers DEF Buckets
<1> QED BY <1>1, <1>2, <1>3, Numbers DEF BucketOf, NullBucket

-----------------------------------------------------------------------------
(* The initial states *)

LEMMA InitInv == Init => RequestInv
<1> SUFFICES ASSUME Init PROVE RequestInv
  OBVIOUS
<1> USE DEF Init, Past
<1>1. TypeInv
  <2>1. PcType /\ ListType /\ LogInType /\ CountType /\ RouteType
    BY Numbers, RequestsAssumption
      DEF PcType, ListType, LogInType, CountType, RouteType, Buckets, Stamps, NoRoute, MissBucket
  <2>2. CxtType
    BY Numbers, RequestsAssumption DEF CxtType, ContextType
  <2>3. BuckType
    BY DEF BuckType, BucketType, NewBucket
  <2> QED BY <2>1, <2>2, <2>3 DEF TypeInv
<1>2. MadeInv
  <2>1. {r \in Routes : routes[r] # NoRoute} = {}
    OBVIOUS
  <2> QED BY <2>1, FS_EmptySet DEF MadeInv
<1>3. \A b \in Buckets : /\ bucket[b].waitq = <<>> /\ bucket[b].busyq = <<>>
                         /\ bucket[b].freeze = FALSE
  BY DEF NewBucket
<1>4. /\ Free = {} /\ Known = {}
      /\ \A b \in Buckets : Waiting[b] = {} /\ Sent[b] = {}
  BY <1>3, EmptyElems DEF Free, Known, Waiting, Sent
<1>5. QueueInv /\ PlaceInv /\ FrozenHasTimer /\ MsgInv
  BY <1>3, <1>4, EmptyElems DEF QueueInv, PlaceInv, FrozenHasTimer, MsgInv
<1>6. ConnInv
  <2>1. InFlight = {}
    BY <1>4, Numbers DEF InFlight, Buckets
  <2> QED BY <2>1, FS_EmptySet DEF ConnInv
<1>7. LogInv /\ DoneInv
  BY <1>4 DEF LogInv, DoneInv, Live, AttemptsBounded
<1> QED BY <1>1, <1>2, <1>5, <1>6, <1>7 DEF RequestInv

-----------------------------------------------------------------------------
(* The actions of the user, and time *)

\* Between its calls discord_adapter_perform changes nothing.
LEMMA QuietInv ==
  ASSUME RequestInv, pc # "callback", pc' \in {"loop", "timeouts", "pending", "transfers"},
         UNCHANGED <<msg, cxt, allocated, bucket, made, routes, wait, timeouts, idleq, conns, log>>,
         stops' \in Nat
  PROVE  RequestInv'
<1>1. TypeInv'
  BY DEF RequestInv, TypeInv, PcType, CxtType, BuckType, LogInType, ListType, CountType, RouteType
<1>2. MadeInv' /\ QueueInv' /\ PlaceInv' /\ FrozenHasTimer'
  BY DEF RequestInv, MadeInv, QueueInv, PlaceInv, FrozenHasTimer, Free, Known, Waiting, Sent
<1>3. MsgInv' /\ ConnInv'
  BY DEF RequestInv, MsgInv, ConnInv, InFlight, Sent
<1>4. LogInv'
  BY DEF RequestInv, LogInv, AttemptsBounded, Live, Known, Free, Sent
<1>5. DoneInv'
  BY DEF RequestInv, DoneInv
<1> QED BY <1>1, <1>2, <1>3, <1>4, <1>5 DEF RequestInv

LEMMA TickInv == RequestInv /\ Tick => RequestInv'
<1> SUFFICES ASSUME RequestInv, Tick PROVE RequestInv'
  OBVIOUS
<1>1. TypeInv
  BY DEF RequestInv
<1> DEFINE Older(t) == IF t = Past THEN Past ELSE t - 1
<1>2. \A t \in Int : Older(t) \in Int
  BY DEF Past
<1>3. \A t \in Stamps : Older(t) \in Stamps
  BY DEF Stamps, Past
<1>4. /\ wait' = Older(wait)
      /\ bucket' = [b \in Buckets |-> [bucket[b] EXCEPT !.reset = Older(bucket[b].reset)]]
      /\ cxt' = [c \in Contexts |-> [cxt[c] EXCEPT !.timeout = Older(cxt[c].timeout)]]
      /\ pc = "loop"
      /\ UNCHANGED <<pc, msg, allocated, made, routes, timeouts, idleq, conns, stops, log>>
  BY DEF Tick
<1> HIDE DEF Older
<1>5. ASSUME NEW b \in Buckets
      PROVE  /\ bucket'[b] \in BucketType /\ bucket'[b].freeze = bucket[b].freeze
             /\ bucket'[b].waitq = bucket[b].waitq /\ bucket'[b].busyq = bucket[b].busyq
  <2>1. bucket[b] \in BucketType /\ Older(bucket[b].reset) \in Int
    BY <1>1, <1>2, Typed
  <2>2. bucket'[b] = [bucket[b] EXCEPT !.reset = Older(bucket[b].reset)]
    BY <1>4
  <2> QED BY <2>1, <2>2 DEF BucketType
<1>6. ASSUME NEW c \in Contexts
      PROVE  /\ cxt'[c] \in ContextType /\ cxt'[c].req = cxt[c].req
             /\ cxt'[c].bucket = cxt[c].bucket /\ cxt'[c].attempt = cxt[c].attempt
  <2>1. cxt[c] \in ContextType /\ Older(cxt[c].timeout) \in Int
    BY <1>1, <1>2, Typed
  <2>2. cxt'[c] = [cxt[c] EXCEPT !.timeout = Older(cxt[c].timeout)]
    BY <1>4
  <2> QED BY <2>1, <2>2 DEF ContextType
<1>7. TypeInv'
  <2>1. CxtType' /\ BuckType'
    BY <1>4, <1>5, <1>6 DEF CxtType, BuckType
  <2>2. wait' \in Stamps
    BY <1>1, <1>3, <1>4 DEF TypeInv, CountType
  <2>3. PcType' /\ LogInType' /\ ListType' /\ CountType' /\ RouteType'
    BY <1>1, <1>4, <2>2
      DEF TypeInv, PcType, LogInType, ListType, CountType, RouteType
  <2> QED BY <2>1, <2>3 DEF TypeInv
<1>8. Known' = Known /\ Free' = Free /\ Live' = Live /\ Known \subseteq Contexts
  BY <1>1, <1>4, Typed DEF Known, Free, Live
<1>9. Waiting' = Waiting /\ Sent' = Sent
  BY <1>5 DEF Waiting, Sent
<1>10. MadeInv' /\ QueueInv' /\ FrozenHasTimer'
  <2>1. timeouts \subseteq Contexts
    BY <1>1 DEF TypeInv, ListType
  <2>2. MadeInv' /\ QueueInv'
    BY <1>4, <1>5 DEF RequestInv, MadeInv, QueueInv
  <2>3. ASSUME NEW b \in Buckets, bucket'[b].freeze
        PROVE  \E c \in timeouts' : cxt'[c].bucket = b
    <3>1. PICK c \in timeouts : cxt[c].bucket = b
      BY <1>5, <2>3 DEF RequestInv, FrozenHasTimer
    <3>2. cxt'[c].bucket = b
      BY <1>6, <2>1, <3>1
    <3> QED BY <1>4, <3>1, <3>2
  <2> QED BY <2>2, <2>3 DEF FrozenHasTimer
<1>11. PlaceInv'
  <2>1. \A c \in Known : cxt'[c].bucket = cxt[c].bucket
    BY <1>6, <1>8
  <2>2. PlaceInv
    BY DEF RequestInv
  <2>3. \A b \in Buckets :
          /\ Waiting'[b] \cap Sent'[b] = {}
          /\ \A c \in Waiting'[b] \cup Sent'[b] :
               c \in Known' /\ c \notin Free' /\ c \notin timeouts' /\ cxt'[c].bucket = b
    BY <1>4, <1>8, <1>9, <2>1, <2>2 DEF PlaceInv
  <2>4. \A c \in Known' :
          /\ cxt'[c].bucket <= made'
          /\ c \in Free' \cup timeouts' \cup Waiting'[cxt'[c].bucket] \cup Sent'[cxt'[c].bucket]
    BY <1>4, <1>8, <1>9, <2>1, <2>2 DEF PlaceInv
  <2>5. Free' \subseteq Known' /\ timeouts' \subseteq Known' /\ Free' \cap timeouts' = {}
    BY <1>4, <1>8, <2>2 DEF PlaceInv
  <2> QED BY <2>3, <2>4, <2>5 DEF PlaceInv
<1>12. MsgInv' /\ ConnInv'
  <2>1. InFlight' = InFlight
    BY <1>4, <1>9 DEF InFlight
  <2> QED BY <1>4, <2>1 DEF RequestInv, MsgInv, ConnInv
<1>13. LogInv'
  <2>1. LogInv
    BY DEF RequestInv
  <2>2. \A c \in Live : /\ c \in Contexts /\ cxt'[c].req = cxt[c].req
                        /\ cxt'[c].attempt = cxt[c].attempt
                        /\ cxt'[c].bucket = cxt[c].bucket
    BY <1>6, <1>8 DEF Live
  <2>3. \A c \in Live :
           /\ cxt'[c].req \in 1..Len(log) /\ log[cxt'[c].req].state = "live"
           /\ log[cxt'[c].req].sends <=
                cxt'[c].attempt + (IF c \in Sent'[cxt'[c].bucket] THEN 1 ELSE 0)
    BY <1>9, <2>1, <2>2 DEF LogInv
  <2>4. \A c, d \in Live : cxt'[c].req = cxt'[d].req => c = d
    BY <2>1, <2>2 DEF LogInv
  <2> QED BY <1>4, <1>8, <2>1, <2>3, <2>4 DEF LogInv, AttemptsBounded
<1>14. DoneInv'
  BY <1>4 DEF RequestInv, DoneInv
<1> QED BY <1>7, <1>10, <1>11, <1>12, <1>13, <1>14 DEF RequestInv

\* The context of a request that is enqueued was in no queue.
LEMMA EnqueueInv ==
  ASSUME RequestInv, NEW route \in Routes, NEW high \in Priorities, Enqueue(route, high)
  PROVE  RequestInv'
<1> DEFINE n == Len(log)
           c == IF idleq = <<>> THEN allocated + 1 ELSE Head(idleq)
           b == BucketOf(route)
           q == Queued(bucket[b].waitq, c, high)
           entry == [route |-> route, high |-> high, sends |-> 0,
                     done |-> 0, fail |-> 0, state |-> "live"]
<1>1. TypeInv /\ QueueInv /\ PlaceInv /\ n \in Nat
  BY Typed DEF RequestInv
<1>2. /\ n < MaxRequests
      /\ cxt' = [cxt EXCEPT ![c].req = n + 1, ![c].route = route, ![c].bucket = b]
      /\ bucket' = [bucket EXCEPT ![b].waitq = q]
      /\ IF idleq = <<>> THEN allocated' = allocated + 1 /\ idleq' = idleq
                         ELSE idleq' = Tail(idleq) /\ allocated' = allocated
      /\ log' = Append(log, entry)
      /\ UNCHANGED <<pc, msg, made, routes, wait, timeouts, conns, stops>>
  BY DEF Enqueue
<1>3. /\ c \in Contexts /\ c \notin Live /\ c \notin timeouts
      /\ \A d \in Buckets : c \notin Waiting[d] /\ c \notin Sent[d]
      /\ Known' = Known \cup {c} /\ Free' = Free \ {c} /\ Distinct(idleq') /\ idleq' \in Seq(Contexts)
      /\ allocated' \in Nat /\ allocated' <= n + 1
  <2>1. /\ idleq \in Seq(Contexts) /\ Distinct(idleq) /\ allocated \in Nat /\ allocated <= n
        /\ MaxRequests \in Nat
    BY <1>1, Numbers DEF TypeInv, ListType, QueueInv, CountType
  <2>2. CASE idleq = <<>>
    <3>1. c = allocated + 1 /\ c \in Contexts /\ c \notin Known /\ (Known \cup {c}) = 1..(allocated + 1)
      BY <1>1, <1>2, <2>1, <2>2 DEF Contexts, Known
    <3>2. c \notin Live /\ c \notin timeouts /\ c \notin Free
          /\ \A d \in Buckets : c \notin Waiting[d] /\ c \notin Sent[d]
      BY <1>1, <3>1 DEF PlaceInv, Live
    <3>3. allocated' = allocated + 1 /\ idleq' = idleq
      BY <1>2, <2>2
    <3>4. Free' = Free \ {c}
      BY <3>2, <3>3 DEF Free
    <3>5. Known' = Known \cup {c}
      BY <3>1, <3>3 DEF Known
    <3> HIDE DEF c
    <3> QED BY <1>1, <2>1, <3>1, <3>2, <3>3, <3>4, <3>5
  <2>3. CASE idleq # <<>>
    <3>1. c = Head(idleq) /\ idleq' = Tail(idleq) /\ allocated' = allocated
      BY <1>2, <2>3
    <3> HIDE DEF c
    <3>2. /\ Elems(idleq) = Elems(Tail(idleq)) \cup {Head(idleq)}
          /\ Head(idleq) \in Contexts /\ Tail(idleq) \in Seq(Contexts)
          /\ Head(idleq) \notin Elems(Tail(idleq)) /\ Distinct(Tail(idleq))
      BY <2>1, <2>3, TailElems
    <3>3. Free' = Free \ {c} /\ c \in Free
      BY <3>1, <3>2 DEF Free
    <3>4. c \in Known /\ c \notin timeouts /\ c \notin Live
          /\ \A d \in Buckets : c \notin Waiting[d] /\ c \notin Sent[d]
      BY <1>1, <3>3 DEF PlaceInv, Live
    <3>5. Known' = Known
      BY <3>1 DEF Known
    <3> QED BY <1>1, <2>1, <3>1, <3>2, <3>3, <3>4, <3>5
  <2> QED BY <2>2, <2>3
<1>4. b \in Buckets /\ b <= made
  BY <1>1, BucketOfType
<1> HIDE DEF c, b
<1>5. q \in Seq(Contexts) /\ Elems(q) = Waiting[b] \cup {c} /\ Distinct(q)
  <2>1. /\ bucket[b].waitq \in Seq(Contexts) /\ Waiting[b] = Elems(bucket[b].waitq)
        /\ Distinct(bucket[b].waitq) /\ c \notin Elems(bucket[b].waitq)
    BY <1>1, <1>3, <1>4, Typed DEF Waiting, QueueInv
  <2>2. CASE high
    <3>1. q = <<c>> \o bucket[b].waitq
      BY <2>2 DEF Queued
    <3> HIDE DEF q
    <3> QED BY <1>3, <2>1, <3>1, ConsElems
  <2>3. CASE ~high
    <3>1. q = Append(bucket[b].waitq, c)
      BY <2>3 DEF Queued
    <3> HIDE DEF q
    <3>2. Append(bucket[b].waitq, c) \in Seq(Contexts)
      BY <1>3, <2>1
    <3> QED BY <1>3, <2>1, <3>1, <3>2, AppendElems
  <2> QED BY <2>2, <2>3
<1> HIDE DEF q
<1>6. \A d \in Buckets : /\ bucket'[d] \in BucketType /\ bucket'[d].freeze = bucket[d].freeze
                         /\ bucket'[d].busyq = bucket[d].busyq
                         /\ bucket'[d].waitq = IF d = b THEN q ELSE bucket[d].waitq
  <2> TAKE d \in Buckets
  <2>1. bucket[d] \in BucketType /\ bucket \in [Buckets -> BucketType]
    BY <1>1, Typed DEF TypeInv, BuckType
  <2>2. bucket'[d] = IF d = b THEN [bucket[d] EXCEPT !.waitq = q] ELSE bucket[d]
    BY <1>2, <1>4, <2>1
  <2> QED BY <1>5, <2>1, <2>2 DEF BucketType
<1>7. Sent' = Sent /\ Waiting' = [Waiting EXCEPT ![b] = Waiting[b] \cup {c}]
  BY <1>4, <1>5, <1>6 DEF Sent, Waiting
<1>8. /\ \A d \in Contexts : cxt'[d] \in ContextType /\ (d # c => cxt'[d] = cxt[d])
      /\ cxt'[c].req = n + 1 /\ cxt'[c].bucket = b /\ cxt'[c].attempt = cxt[c].attempt
  <2>1. \A d \in Contexts : cxt[d] \in ContextType
    BY <1>1, Typed
  <2>2. /\ \A d \in Contexts : d # c => cxt'[d] = cxt[d]
        /\ cxt'[c] = [cxt[c] EXCEPT !.req = n + 1, !.route = route, !.bucket = b]
    BY <1>1, <1>2, <1>3 DEF TypeInv, CxtType
  <2>3. n + 1 \in 0..MaxRequests
    BY <1>1, <1>2, Numbers
  <2> DEFINE x == cxt[c]
             y == [x EXCEPT !.req = n + 1, !.route = route, !.bucket = b]
  <2>4. x \in ContextType
    BY <1>3, <2>1
  <2> HIDE DEF x
  <2>5. y \in ContextType /\ y.req = n + 1 /\ y.bucket = b /\ y.attempt = x.attempt
    BY <1>4, <2>3, <2>4 DEF ContextType
  <2>6. cxt'[c] = y
    BY <2>2 DEF x
  <2> HIDE DEF y
  <2>7. /\ cxt'[c] \in ContextType /\ cxt'[c].req = n + 1 /\ cxt'[c].bucket = b
        /\ cxt'[c].attempt = cxt[c].attempt
    BY <2>5, <2>6 DEF x
  <2> QED BY <2>1, <2>2, <2>7
<1>9. /\ log' \in Seq(LogType) /\ Len(log') = n + 1
      /\ \A r \in 1..n : log'[r] = log[r]
      /\ log'[n + 1].sends = 0 /\ log'[n + 1].done = 0 /\ log'[n + 1].state = "live"
  <2>1. entry \in LogType
    BY RequestsAssumption DEF LogType, States
  <2>2. log \in Seq(LogType)
    BY <1>1 DEF TypeInv, LogInType
  <2>3. log'[n + 1] = entry
    BY <1>2, <2>1, <2>2
  <2> HIDE DEF entry
  <2>4. log' \in Seq(LogType) /\ Len(log') = n + 1 /\ \A r \in 1..n : log'[r] = log[r]
    BY <1>2, <2>1, <2>2
  <2> QED BY <2>3, <2>4 DEF entry
<1>10. TypeInv'
  <2>1. PcType' /\ RouteType'
    BY <1>1, <1>2 DEF TypeInv, PcType, RouteType
  <2>2. CxtType' /\ BuckType'
    <3>1. DOMAIN cxt' = Contexts /\ cxt' = [d \in Contexts |-> cxt'[d]]
      BY <1>1, <1>2 DEF TypeInv, CxtType
    <3>2. bucket' = [d \in Buckets |-> bucket'[d]]
      BY <1>1, <1>2 DEF TypeInv, BuckType
    <3> QED BY <1>6, <1>8, <3>1, <3>2 DEF CxtType, BuckType
  <2>3. LogInType' /\ ListType' /\ CountType'
    BY <1>1, <1>2, <1>3, <1>9, Numbers DEF TypeInv, LogInType, ListType, CountType
  <2> QED BY <2>1, <2>2, <2>3 DEF TypeInv
<1>11. MadeInv' /\ QueueInv'
  BY <1>1, <1>2, <1>3, <1>5, <1>6 DEF RequestInv, MadeInv, QueueInv
<1>12. \A d \in Known : d \in Contexts /\ (d \in Live \/ d \in timeouts => d # c)
  BY <1>1, <1>3, Typed
<1>13. PlaceInv'
  <2>1. \A d \in Buckets :
          /\ Waiting'[d] \cap Sent'[d] = {}
          /\ \A e \in Waiting'[d] \cup Sent'[d] :
               e \in Known' /\ e \notin Free' /\ e \notin timeouts' /\ cxt'[e].bucket = d
    <3> TAKE d \in Buckets
    <3>1. Sent'[d] = Sent[d] /\ Waiting'[d] = IF d = b THEN Waiting[d] \cup {c} ELSE Waiting[d]
      BY <1>7 DEF Waiting
    <3>2. \A e \in Waiting[d] \cup Sent[d] :
            /\ e \in Known /\ e \notin Free /\ e \notin timeouts /\ cxt[e].bucket = d
            /\ e # c /\ e \in Contexts
      BY <1>1, <1>3, <1>12 DEF PlaceInv
    <3>3. Waiting'[d] \cap Sent'[d] = {}
      BY <1>1, <1>3, <3>1 DEF PlaceInv
    <3>4. \A e \in Waiting[d] \cup Sent[d] :
             e \in Known' /\ e \notin Free' /\ e \notin timeouts' /\ cxt'[e].bucket = d
      BY <1>2, <1>3, <1>8, <3>2
    <3>5. c \in Known' /\ c \notin Free' /\ c \notin timeouts' /\ cxt'[c].bucket = b
      BY <1>2, <1>3, <1>8
    <3> QED BY <3>1, <3>3, <3>4, <3>5
  <2>2. \A d \in Known' :
          /\ cxt'[d].bucket <= made'
          /\ d \in Free' \cup timeouts' \cup Waiting'[cxt'[d].bucket] \cup Sent'[cxt'[d].bucket]
    <3> TAKE d \in Known'
    <3>1. CASE d = c
      BY <1>2, <1>4, <1>7, <1>8, <3>1 DEF Waiting
    <3>2. CASE d # c
      <4>1. d \in Known /\ cxt'[d] = cxt[d] /\ cxt[d].bucket \in Buckets
        BY <1>1, <1>3, <1>8, <1>12, <3>2, Typed
      <4>2. /\ cxt[d].bucket <= made
            /\ d \in Free \cup timeouts \cup Waiting[cxt[d].bucket] \cup Sent[cxt[d].bucket]
        BY <1>1, <4>1 DEF PlaceInv
      <4>3. Waiting[cxt[d].bucket] \subseteq Waiting'[cxt[d].bucket]
        BY <1>7, <4>1 DEF Waiting
      <4> QED BY <1>2, <1>3, <1>7, <3>2, <4>1, <4>2, <4>3
    <3> QED BY <3>1, <3>2
  <2>3. Free' \subseteq Known' /\ timeouts' \subseteq Known' /\ Free' \cap timeouts' = {}
    BY <1>1, <1>2, <1>3 DEF PlaceInv
  <2> QED BY <2>1, <2>2, <2>3 DEF PlaceInv
<1>14. FrozenHasTimer'
  <2> SUFFICES ASSUME NEW d \in Buckets, bucket'[d].freeze
               PROVE  \E e \in timeouts' : cxt'[e].bucket = d
    BY DEF FrozenHasTimer
  <2>1. PICK e \in timeouts : cxt[e].bucket = d
    BY <1>6 DEF RequestInv, FrozenHasTimer
  <2>2. e \in Contexts /\ e # c
    BY <1>1, <1>3 DEF TypeInv, ListType
  <2> QED BY <1>2, <1>8, <2>1, <2>2
<1>15. pc = "callback" => msg.cxt \in Contexts /\ msg.cxt # c /\ cxt'[msg.cxt] = cxt[msg.cxt]
  <2> SUFFICES ASSUME pc = "callback" PROVE msg.cxt \in Contexts /\ msg.cxt # c
    BY <1>8
  <2>1. msg.cxt \in Contexts
    BY <1>1 DEF TypeInv, PcType
  <2>2. cxt[msg.cxt].bucket \in Buckets /\ msg.cxt \in Sent[cxt[msg.cxt].bucket]
    BY <1>1, <2>1, Typed DEF RequestInv, MsgInv
  <2> QED BY <1>3, <2>1, <2>2
<1>16. MsgInv' /\ ConnInv'
  <2>1. InFlight' = InFlight
    BY <1>2, <1>7 DEF InFlight
  <2> QED BY <1>2, <1>7, <1>15, <2>1 DEF RequestInv, MsgInv, ConnInv
<1>17. LogInv'
  <2>1. LogInv
    BY DEF RequestInv
  <2>2. Live' = Live \cup {c} /\ c \notin Live
    BY <1>1, <1>3 DEF Live, PlaceInv
  <2>3. \A d \in Live : d \in Contexts /\ cxt'[d] = cxt[d] /\ cxt[d].req \in 1..n
    BY <1>8, <1>12, <1>3, <2>1 DEF LogInv, Live
  <2>4. \A d \in Live :
           /\ cxt'[d].req \in 1..Len(log') /\ log'[cxt'[d].req].state = "live"
           /\ log'[cxt'[d].req].sends <=
                cxt'[d].attempt + (IF d \in Sent'[cxt'[d].bucket] THEN 1 ELSE 0)
    <3> TAKE d \in Live
    <3>1. /\ log[cxt[d].req].state = "live"
          /\ log[cxt[d].req].sends <=
                cxt[d].attempt + (IF d \in Sent[cxt[d].bucket] THEN 1 ELSE 0)
      BY <2>1 DEF LogInv
    <3>2. cxt[d].req \in 1..n + 1
      BY <1>1, <2>3
    <3> QED BY <1>7, <1>9, <2>3, <3>1, <3>2
  <2>5. /\ cxt'[c].req \in 1..Len(log') /\ log'[cxt'[c].req].state = "live"
        /\ log'[cxt'[c].req].sends <=
                cxt'[c].attempt + (IF c \in Sent'[cxt'[c].bucket] THEN 1 ELSE 0)
    <3>1. cxt[c].attempt \in Nat
      BY <1>1, <1>3, Typed, Numbers
    <3> QED BY <1>1, <1>8, <1>9, <3>1
  <2>6. \A d, e \in Live' : cxt'[d].req = cxt'[e].req => d = e
    <3>1. \A d \in Live : cxt'[d].req # cxt'[c].req
      BY <1>1, <1>8, <2>3
    <3>2. \A d, e \in Live : cxt'[d].req = cxt'[e].req => d = e
      BY <2>1, <2>3 DEF LogInv
    <3> QED BY <2>2, <3>1, <3>2
  <2>7. AttemptsBounded'
    <3>1. \A r \in 1..n : log[r].sends <= RetryLimit + 1
      BY <1>1, <2>1, Typed DEF LogInv, AttemptsBounded
    <3>2. DOMAIN log' = 1..n + 1
      BY <1>9
    <3> QED BY <1>1, <1>9, <3>1, <3>2, Numbers DEF AttemptsBounded
  <2>8. \A d \in Live' :
           /\ cxt'[d].req \in 1..Len(log') /\ log'[cxt'[d].req].state = "live"
           /\ log'[cxt'[d].req].sends <=
                cxt'[d].attempt + (IF d \in Sent'[cxt'[d].bucket] THEN 1 ELSE 0)
    BY <2>2, <2>4, <2>5, Zenon
  <2> QED BY <2>6, <2>7, <2>8 DEF LogInv
<1>18. DoneInv'
  <2> SUFFICES ASSUME NEW r \in 1..Len(log')
               PROVE  /\ log'[r].done <= 1
                      /\ log'[r].done = 1 /\ log'[r].state = "live" =>
                           pc' = "callback" /\ msg'.answer.kind = "ok" /\ cxt'[msg'.cxt].req = r
    BY DEF DoneInv
  <2>1. CASE r = n + 1
    BY <1>9, <2>1
  <2>2. CASE r # n + 1
    <3>1. r \in 1..n
      BY <1>1, <1>9, <2>2
    <3> QED BY <1>2, <1>9, <1>15, <3>1 DEF RequestInv, DoneInv
  <2> QED BY <2>1, <2>2
<1> QED BY <1>10, <1>11, <1>13, <1>14, <1>16, <1>17, <1>18 DEF RequestInv

-----------------------------------------------------------------------------
(* The actions of discord_adapter_perform *)

LEMMA CheckTimeoutsInv ==
  ASSUME RequestInv, NEW c \in Contexts, CheckTimeouts(c)
  PROVE  RequestInv'
<1> DEFINE b == cxt[c].bucket
           q == <<c>> \o bucket[b].waitq
<1>1. TypeInv /\ QueueInv /\ PlaceInv
  BY DEF RequestInv
<1>2. /\ pc = "timeouts" /\ c \in timeouts /\ timeouts' = timeouts \ {c}
      /\ bucket' = [bucket EXCEPT ![b] = Unfrozen(bucket[b], c)]
      /\ UNCHANGED <<pc, msg, cxt, allocated, made, routes, wait, idleq, conns, stops, log>>
  BY DEF CheckTimeouts, Due
<1>3. /\ b \in Buckets /\ c \in Known /\ c \notin Free /\ b <= made
      /\ \A d \in Buckets : c \notin Waiting[d] /\ c \notin Sent[d]
  BY <1>1, <1>2, Typed DEF PlaceInv
<1> HIDE DEF b
<1>4. q \in Seq(Contexts) /\ Elems(q) = Waiting[b] \cup {c} /\ Distinct(q)
  <2>1. /\ bucket[b].waitq \in Seq(Contexts) /\ Waiting[b] = Elems(bucket[b].waitq)
        /\ Distinct(bucket[b].waitq) /\ c \notin Elems(bucket[b].waitq)
    BY <1>1, <1>3, Typed DEF Waiting, QueueInv
  <2> QED BY <2>1, ConsElems
<1>5. \A d \in Buckets :
        /\ bucket'[d] \in BucketType /\ bucket'[d].busyq = bucket[d].busyq
        /\ bucket'[d].freeze = IF d = b THEN FALSE ELSE bucket[d].freeze
        /\ bucket'[d].waitq = IF d = b THEN q ELSE bucket[d].waitq
  <2> TAKE d \in Buckets
  <2>1. bucket[d] \in BucketType /\ bucket \in [Buckets -> BucketType]
    BY <1>1, Typed DEF TypeInv, BuckType
  <2>2. CASE d = b
    <3> DEFINE x == bucket[b]
               u == Unfrozen(x, c)
    <3>1. bucket'[d] = u /\ q = <<c>> \o x.waitq /\ x \in BucketType
      BY <1>2, <1>3, <2>1, <2>2
    <3> HIDE DEF q, x
    <3>2. u \in BucketType /\ u.waitq = q /\ u.busyq = x.busyq /\ u.freeze = FALSE
      BY <1>4, <3>1 DEF BucketType, Unfrozen
    <3> QED BY <2>2, <3>1, <3>2 DEF x
  <2>3. CASE d # b
    BY <1>2, <2>1, <2>3
  <2> QED BY <2>2, <2>3
<1> HIDE DEF q
<1>6. Sent' = Sent /\ Waiting' = [Waiting EXCEPT ![b] = Waiting[b] \cup {c}]
  BY <1>3, <1>4, <1>5 DEF Sent, Waiting
<1>7. Known' = Known /\ Free' = Free /\ Live' = Live
  BY <1>2 DEF Known, Free, Live
<1>8. TypeInv'
  <2>1. BuckType'
    <3>1. bucket' = [d \in Buckets |-> bucket'[d]]
      BY <1>1, <1>2 DEF TypeInv, BuckType
    <3> QED BY <1>5, <3>1 DEF BuckType
  <2>2. PcType' /\ CxtType' /\ LogInType' /\ ListType' /\ CountType' /\ RouteType'
    BY <1>1, <1>2 DEF TypeInv, PcType, CxtType, LogInType, ListType, CountType, RouteType
  <2> QED BY <2>1, <2>2 DEF TypeInv
<1>9. MadeInv' /\ QueueInv'
  BY <1>1, <1>2, <1>4, <1>5 DEF RequestInv, MadeInv, QueueInv
<1>10. PlaceInv'
  <2>1. \A d \in Buckets :
          /\ Waiting'[d] \cap Sent'[d] = {}
          /\ \A e \in Waiting'[d] \cup Sent'[d] :
               e \in Known' /\ e \notin Free' /\ e \notin timeouts' /\ cxt'[e].bucket = d
    <3> TAKE d \in Buckets
    <3>1. Sent'[d] = Sent[d] /\ Waiting'[d] = IF d = b THEN Waiting[d] \cup {c} ELSE Waiting[d]
      BY <1>6 DEF Waiting
    <3>2. \A e \in Waiting[d] \cup Sent[d] :
            e \in Known /\ e \notin Free /\ e \notin timeouts /\ cxt[e].bucket = d
      BY <1>1 DEF PlaceInv
    <3>3. Waiting'[d] \cap Sent'[d] = {}
      BY <1>1, <1>3, <3>1 DEF PlaceInv
    <3>4. cxt[c].bucket = b
      BY DEF b
    <3> QED BY <1>2, <1>3, <1>7, <3>1, <3>2, <3>3, <3>4
  <2>2. \A d \in Known' :
          /\ cxt'[d].bucket <= made'
          /\ d \in Free' \cup timeouts' \cup Waiting'[cxt'[d].bucket] \cup Sent'[cxt'[d].bucket]
    <3> TAKE d \in Known'
    <3>1. /\ cxt[d].bucket <= made /\ cxt[d].bucket \in Buckets
          /\ d \in Free \cup timeouts \cup Waiting[cxt[d].bucket] \cup Sent[cxt[d].bucket]
      BY <1>1, <1>7, Typed DEF PlaceInv
    <3>2. Waiting[cxt[d].bucket] \subseteq Waiting'[cxt[d].bucket]
      BY <1>6, <3>1 DEF Waiting
    <3>3. d = c => d \in Waiting'[cxt[d].bucket]
      BY <1>3, <1>6 DEF Waiting, b
    <3> QED BY <1>2, <1>6, <1>7, <3>1, <3>2, <3>3
  <2>3. Free' \subseteq Known' /\ timeouts' \subseteq Known' /\ Free' \cap timeouts' = {}
    BY <1>1, <1>2, <1>7 DEF PlaceInv
  <2> QED BY <2>1, <2>2, <2>3 DEF PlaceInv
<1>11. FrozenHasTimer'
  <2> SUFFICES ASSUME NEW d \in Buckets, bucket'[d].freeze
               PROVE  \E e \in timeouts' : cxt'[e].bucket = d
    BY DEF FrozenHasTimer
  <2>1. d # b /\ bucket[d].freeze
    BY <1>5
  <2>2. PICK e \in timeouts : cxt[e].bucket = d
    BY <2>1 DEF RequestInv, FrozenHasTimer
  <2>3. e # c
    BY <2>1, <2>2 DEF b
  <2> QED BY <1>2, <2>2, <2>3
<1>12. MsgInv' /\ ConnInv'
  <2>1. InFlight' = InFlight
    BY <1>2, <1>6 DEF InFlight
  <2> QED BY <1>2, <2>1 DEF RequestInv, MsgInv, ConnInv
<1>13. LogInv'
  BY <1>2, <1>6, <1>7 DEF RequestInv, LogInv, AttemptsBounded
<1>14. DoneInv'
  BY <1>2 DEF RequestInv, DoneInv
<1> QED BY <1>8, <1>9, <1>10, <1>11, <1>12, <1>13, <1>14 DEF RequestInv

LEMMA AnswersType ==
  ASSUME NEW route, NEW a \in Answers(route)
  PROVE  a \in AnswerType
<1>1. Remainings \subseteq Nat /\ Waits \subseteq Nat \ {0}
  BY RequestsAssumption
<1>2. a \in [kind : Kinds, remaining : Remainings \cup {1}, after : Waits \cup {Past},
             retry_after : Waits \cup {0}, named : BOOLEAN]
  BY Zenon DEF Answers
<1>3. Remainings \cup {1} \subseteq Nat /\ Waits \cup {Past} \subseteq Stamps /\ Waits \cup {0} \subseteq Nat
  BY <1>1 DEF Stamps, Past
<1> QED BY <1>2, <1>3 DEF AnswerType

\* What the log says of a request when its user is called back.
LEMMA ReadLog ==
  ASSUME RequestInv, NEW c \in Contexts, NEW a \in Answers(cxt[c].route), Read(c, a)
  PROVE  LET r == cxt[c].req
         IN  /\ c \in Live /\ c \in Sent[cxt[c].bucket] /\ r \in 1..Len(log)
             /\ log[r].state = "live" /\ log[r].done = 0
             /\ log' \in Seq(LogType) /\ Len(log') = Len(log)
             /\ \A s \in 1..Len(log) : s # r => log'[s] = log[s]
             /\ log'[r].sends = log[r].sends /\ log'[r].state = log[r].state
             /\ log'[r].done = IF a.kind = "ok" THEN 1 ELSE 0
<1> DEFINE r == cxt[c].req
<1>1. TypeInv /\ PlaceInv
  BY DEF RequestInv
<1>2. c \in Busy /\ pc = "transfers"
  BY DEF Read
<1>3. c \in Sent[cxt[c].bucket] /\ c \in Live
  BY <1>1, <1>2, InFlightIs
<1>4. r \in 1..Len(log) /\ log[r].state = "live"
  BY <1>3 DEF RequestInv, LogInv
<1>5. log[r].done = 0 /\ log[r] \in LogType /\ log \in Seq(LogType)
  <2>1. log[r].done <= 1 /\ log[r].done # 1
    BY <1>2, <1>4 DEF RequestInv, DoneInv
  <2>2. log[r].done \in Nat /\ log[r] \in LogType
    BY <1>1, <1>4, Typed
  <2> QED BY <1>1, <2>1, <2>2 DEF TypeInv, LogInType
<1> DEFINE x == log[r]
           done == IF a.kind = "ok" THEN x.done + 1 ELSE x.done
           fail == IF a.kind \in {"ok", "read_error"} THEN x.fail ELSE x.fail + 1
           y == [x EXCEPT !.done = done, !.fail = fail]
<1>6. log' = [log EXCEPT ![r] = y]
  BY DEF Read
<1> HIDE DEF r
<1>7. /\ y \in LogType /\ y.sends = x.sends /\ y.state = x.state
      /\ y.done = IF a.kind = "ok" THEN 1 ELSE 0
  <2>1. x \in LogType /\ x.done = 0 /\ x.fail \in Nat
    BY <1>1, <1>4, <1>5, Typed
  <2> HIDE DEF x
  <2>2. done \in Nat /\ fail \in Nat /\ done = IF a.kind = "ok" THEN 1 ELSE 0
    BY <2>1
  <2> HIDE DEF done, fail
  <2> QED BY <2>1, <2>2 DEF LogType
<1> HIDE DEF x, y
<1>8. /\ log' \in Seq(LogType) /\ Len(log') = Len(log) /\ log'[r] = y
      /\ \A s \in 1..Len(log) : s # r => log'[s] = log[s]
  BY <1>4, <1>5, <1>6, <1>7
<1> QED BY <1>3, <1>4, <1>5, <1>7, <1>8 DEF x, r

LEMMA ReadInv ==
  ASSUME RequestInv, NEW c \in Contexts, NEW a \in Answers(cxt[c].route), Read(c, a)
  PROVE  RequestInv'
<1> DEFINE r == cxt[c].req
<1>1. TypeInv /\ PlaceInv
  BY DEF RequestInv
<1>2. /\ pc = "transfers" /\ pc' = "callback" /\ msg' = [cxt |-> c, answer |-> a]
      /\ UNCHANGED <<cxt, allocated, bucket, made, routes, wait, timeouts, idleq, conns, stops>>
  BY DEF Read
<1>3. /\ c \in Live /\ c \in Sent[cxt[c].bucket] /\ r \in 1..Len(log)
      /\ log[r].state = "live" /\ log[r].done = 0
      /\ log' \in Seq(LogType) /\ Len(log') = Len(log)
      /\ \A s \in 1..Len(log) : s # r => log'[s] = log[s]
      /\ log'[r].sends = log[r].sends /\ log'[r].state = log[r].state
      /\ log'[r].done = IF a.kind = "ok" THEN 1 ELSE 0
  BY ReadLog
<1>4. /\ Known' = Known /\ Free' = Free /\ Live' = Live
      /\ Waiting' = Waiting /\ Sent' = Sent /\ InFlight' = InFlight
  BY <1>2 DEF Known, Free, Live, Waiting, Sent, InFlight
<1>5. TypeInv'
  <2>1. msg' \in [cxt : Contexts, answer : AnswerType]
    BY <1>2, AnswersType
  <2>2. PcType'
    BY <1>2, <2>1 DEF PcType
  <2>3. CxtType' /\ BuckType' /\ LogInType' /\ ListType' /\ CountType' /\ RouteType'
    BY <1>1, <1>2, <1>3
      DEF TypeInv, CxtType, BuckType, LogInType, ListType, CountType, RouteType
  <2> QED BY <2>2, <2>3 DEF TypeInv
<1>6. MadeInv' /\ QueueInv' /\ PlaceInv' /\ FrozenHasTimer'
  BY <1>2, <1>4 DEF RequestInv, MadeInv, QueueInv, PlaceInv, FrozenHasTimer
<1>7. MsgInv' /\ ConnInv'
  BY <1>2, <1>3, <1>4 DEF RequestInv, MsgInv, ConnInv
<1>8. \A s \in 1..Len(log) : log'[s].sends = log[s].sends /\ log'[s].state = log[s].state
  BY <1>3
<1>9. LogInv'
  <2>1. LogInv /\ Len(log) \in Nat /\ log \in Seq(LogType)
    BY <1>1, Typed DEF RequestInv, TypeInv, LogInType
  <2>2. AttemptsBounded'
    <3>1. DOMAIN log' = 1..Len(log) /\ DOMAIN log = 1..Len(log)
      BY <1>3, <2>1
    <3> QED BY <1>8, <2>1, <3>1 DEF LogInv, AttemptsBounded
  <2>3. \A d \in Live :
           /\ cxt[d].req \in 1..Len(log) /\ log'[cxt[d].req].state = "live"
           /\ log'[cxt[d].req].sends <=
                cxt[d].attempt + (IF d \in Sent[cxt[d].bucket] THEN 1 ELSE 0)
    BY <1>8, <2>1 DEF LogInv
  <2> QED BY <1>2, <1>3, <1>4, <2>1, <2>2, <2>3 DEF LogInv
<1>10. DoneInv'
  <2> SUFFICES ASSUME NEW s \in 1..Len(log')
               PROVE  /\ log'[s].done <= 1
                      /\ log'[s].done = 1 /\ log'[s].state = "live" =>
                           pc' = "callback" /\ msg'.answer.kind = "ok" /\ cxt'[msg'.cxt].req = s
    BY DEF DoneInv
  <2>1. CASE s = r
    BY <1>2, <1>3, <2>1
  <2>2. CASE s # r
    BY <1>2, <1>3, <2>2 DEF RequestInv, DoneInv
  <2> QED BY <2>1, <2>2
<1> QED BY <1>5, <1>6, <1>7, <1>9, <1>10 DEF RequestInv

\* How many requests are sent, and that none are while the bucket is busy.
LEMMA SendCountIs ==
  ASSUME TypeInv, NEW b \in Buckets
  PROVE  /\ SendCount(b) \in 0..Len(bucket[b].waitq)
         /\ SendCount(b) <= Larger(1, bucket[b].remaining)
         /\ SendCount(b) # 0 => bucket[b].busyq = <<>>
         /\ TimesOut(b) => SendCount(b) = 0 /\ bucket[b].waitq # <<>>
<1> DEFINE n == Len(bucket[b].waitq)
           k == bucket[b].remaining
<1>1. n \in Nat /\ k \in Nat /\ (bucket[b].waitq # <<>> => n # 0)
  <2>1. bucket[b].waitq \in Seq(Contexts) /\ k \in Nat
    BY Typed
  <2> HIDE DEF k
  <2> QED BY <2>1, EmptySeq
<1>2. Pending(b) => bucket[b].busyq = <<>> /\ bucket[b].waitq # <<>>
  BY DEF Pending
<1>3. /\ SendCount(b) = IF ~Pending(b) \/ TimesOut(b) THEN 0
                        ELSE IF Outdated(b) THEN 1 ELSE IF k < n THEN k ELSE n
      /\ Larger(1, k) = IF 1 > k THEN 1 ELSE k
  BY DEF SendCount, Larger
<1>4. TimesOut(b) => bucket[b].waitq # <<>>
  BY <1>2 DEF TimesOut
<1> HIDE DEF n, k
<1>5. /\ SendCount(b) \in 0..n /\ SendCount(b) <= Larger(1, k)
      /\ SendCount(b) # 0 => bucket[b].busyq = <<>>
      /\ TimesOut(b) => SendCount(b) = 0
  BY <1>1, <1>2, <1>3
<1> QED BY <1>4, <1>5 DEF n, k

\* A bucket's turn moves the first requests of its queue.
LEMMA AfterTurnIs ==
  ASSUME TypeInv, QueueInv, PlaceInv, NEW b \in Buckets
  PROVE  LET y == AfterTurn(b)
             s == Elems(SentOf(b))
             t == IF TimesOut(b) THEN {Head(bucket[b].waitq)} ELSE {}
         IN  /\ y \in BucketType /\ Distinct(y.waitq) /\ Distinct(y.busyq)
             /\ y.freeze = (bucket[b].freeze \/ TimesOut(b))
             /\ ToSet(SentOf(b)) = s /\ Elems(y.busyq) = Sent[b] \cup s
             /\ Waiting[b] = Elems(y.waitq) \cup s \cup t
             /\ Elems(y.waitq) \cap (s \cup t) = {} /\ s \cap t = {}
             /\ s # {} => bucket[b].busyq = <<>>
             /\ IsFiniteSet(s) /\ Cardinality(s) <= Larger(1, bucket[b].remaining)
<1> DEFINE x == bucket[b]
           k == SendCount(b)
           y == AfterTurn(b)
           s == Elems(SentOf(b))
           p == SubSeq(x.waitq, 1, k)
           q == SubSeq(x.waitq, k + 1, Len(x.waitq))
<1>1. /\ x \in BucketType /\ x.waitq \in Seq(Contexts) /\ x.busyq \in Seq(Contexts)
      /\ x.freeze \in BOOLEAN /\ x.remaining \in Nat
      /\ Distinct(x.waitq) /\ Distinct(x.busyq)
      /\ Waiting[b] = Elems(x.waitq) /\ Sent[b] = Elems(x.busyq)
      /\ Waiting[b] \cap Sent[b] = {}
  BY Typed DEF QueueInv, PlaceInv, Waiting, Sent
<1>2. /\ k \in 0..Len(x.waitq) /\ k <= Larger(1, x.remaining) /\ (k # 0 => x.busyq = <<>>)
      /\ TimesOut(b) => k = 0 /\ x.waitq # <<>>
  BY SendCountIs
<1>3. SentOf(b) = p
  BY DEF SentOf
<1>4. y = IF TimesOut(b) THEN [x EXCEPT !.freeze = TRUE, !.waitq = Tail(x.waitq)]
          ELSE [x EXCEPT !.waitq = q, !.busyq = x.busyq \o p]
  BY <1>3 DEF AfterTurn
<1> HIDE DEF x, k, y
<1>5. /\ p \in Seq(Contexts) /\ q \in Seq(Contexts) /\ Len(p) = k
      /\ Elems(x.waitq) = Elems(p) \cup Elems(q)
      /\ Distinct(p) /\ Distinct(q) /\ Elems(p) \cap Elems(q) = {}
  BY <1>1, <1>2, SplitElems
<1> HIDE DEF p, q
<1>6. /\ ToSet(p) = Elems(p) /\ IsFiniteSet(Elems(p)) /\ Cardinality(Elems(p)) <= k
      /\ (k = 0 => Elems(p) = {})
  <2>1. /\ ToSet(p) = Elems(p) /\ IsFiniteSet(Elems(p)) /\ Cardinality(Elems(p)) <= Len(p)
        /\ (p = <<>> => Elems(p) = {})
    BY <1>5, ElemsOfSeq
  <2>2. k = 0 => p = <<>>
    BY <1>5, EmptySeq
  <2> QED BY <1>5, <2>1, <2>2
<1>7. Elems(p) # {} => x.busyq = <<>>
  BY <1>2, <1>6
<1>8. Cardinality(Elems(p)) <= Larger(1, x.remaining)
  <2>1. Cardinality(Elems(p)) \in Nat /\ k \in Nat /\ Larger(1, x.remaining) \in Nat
    BY <1>1, <1>2, <1>6, FS_CardinalityType DEF Larger
  <2> QED BY <1>2, <1>6, <2>1
<1> DEFINE t == IF TimesOut(b) THEN {Head(x.waitq)} ELSE {}
<1>9. /\ y \in BucketType /\ Distinct(y.waitq) /\ Distinct(y.busyq)
      /\ y.freeze = (x.freeze \/ TimesOut(b)) /\ Elems(y.busyq) = Elems(x.busyq) \cup Elems(p)
      /\ Elems(x.waitq) = Elems(y.waitq) \cup Elems(p) \cup t
      /\ Elems(y.waitq) \cap (Elems(p) \cup t) = {} /\ Elems(p) \cap t = {}
  <2>1. CASE TimesOut(b)
    <3> DEFINE w == Tail(x.waitq)
    <3>1. /\ Elems(x.waitq) = Elems(w) \cup {Head(x.waitq)} /\ w \in Seq(Contexts)
          /\ Head(x.waitq) \notin Elems(w) /\ Distinct(w)
      BY <1>1, <1>2, <2>1, TailElems
    <3>2. y = [x EXCEPT !.freeze = TRUE, !.waitq = w]
      BY <1>4, <2>1
    <3> HIDE DEF w
    <3>3. y \in BucketType /\ y.waitq = w /\ y.busyq = x.busyq /\ y.freeze = TRUE
      BY <1>1, <3>1, <3>2 DEF BucketType
    <3>4. Elems(p) = {}
      BY <1>2, <1>6, <2>1
    <3> QED BY <1>1, <2>1, <3>1, <3>3, <3>4
  <2>2. CASE ~TimesOut(b)
    <3> DEFINE w == x.busyq \o p
    <3>1. Elems(x.busyq) \cap Elems(p) = {}
      BY <1>1, <1>5
    <3>2. w \in Seq(Contexts) /\ Elems(w) = Elems(x.busyq) \cup Elems(p) /\ Distinct(w)
      BY <1>1, <1>5, <3>1, ConcatElems
    <3>3. y = [x EXCEPT !.waitq = q, !.busyq = w]
      BY <1>4, <2>2
    <3> HIDE DEF w
    <3>4. y \in BucketType /\ y.waitq = q /\ y.busyq = w /\ y.freeze = x.freeze
      BY <1>1, <1>5, <3>2, <3>3 DEF BucketType
    <3>5. t = {} /\ y.freeze = (x.freeze \/ TimesOut(b))
      BY <1>1, <2>2, <3>4
    <3> HIDE DEF t
    <3> QED BY <1>5, <3>2, <3>4, <3>5
  <2> QED BY <2>1, <2>2
<1> QED BY <1>1, <1>3, <1>6, <1>7, <1>8, <1>9 DEF x, y

\* The requests s of each bucket are sent, and the requests t time out.
Turned(s, t) ==
  /\ \A b \in Buckets :
       /\ bucket'[b] \in BucketType
       /\ Distinct(bucket'[b].waitq) /\ Distinct(bucket'[b].busyq)
       /\ bucket'[b].freeze = (bucket[b].freeze \/ t[b] # {})
       /\ Sent'[b] = Sent[b] \cup s[b] /\ Waiting[b] = Waiting'[b] \cup s[b] \cup t[b]
       /\ Waiting'[b] \cap (s[b] \cup t[b]) = {} /\ s[b] \cap t[b] = {}
       /\ s[b] # {} => bucket[b].busyq = <<>>
       /\ Cardinality(s[b]) <= Larger(1, bucket[b].remaining)
       /\ (s[b] \cup t[b]) # {} => b <= made
  /\ bucket' \in [Buckets -> BucketType]
  /\ timeouts' = timeouts \cup UNION {t[b] : b \in Buckets}
  /\ conns' = conns + Cardinality(UNION {s[b] : b \in Buckets})
  /\ DOMAIN log' = 1..Len(log) /\ log' \in Seq(LogType) /\ Len(log') = Len(log)
  /\ \A r \in 1..Len(log) :
       /\ log'[r].sends = log[r].sends +
            (IF \E c \in UNION {s[b] : b \in Buckets} : cxt[c].req = r THEN 1 ELSE 0)
       /\ log'[r].done = log[r].done /\ log'[r].fail = log[r].fail
       /\ log'[r].state = log[r].state
       /\ (\A c \in UNION {s[b] : b \in Buckets} : cxt[c].req # r) => log'[r] = log[r]

\* What _discord_adapter_check_pending does, bucket by bucket.
LEMMA CheckPendingIs ==
  ASSUME RequestInv, CheckPending
  PROVE  \E s, t \in [Buckets -> SUBSET Contexts] : Turned(s, t)
<1> DEFINE turn(b) == b <= made
           s == [b \in Buckets |-> IF turn(b) THEN Elems(SentOf(b)) ELSE {}]
           t == [b \in Buckets |-> IF turn(b) /\ TimesOut(b) THEN {Head(bucket[b].waitq)} ELSE {}]
           sent == UNION {s[b] : b \in Buckets}
<1>1. TypeInv /\ QueueInv /\ PlaceInv
  BY DEF RequestInv
<1>2. \A b \in Buckets : b <= made <=> b \in 1..made
  BY <1>1, Numbers DEF TypeInv, RouteType
<1>3. ASSUME NEW b \in Buckets
      PROVE  /\ bucket'[b] \in BucketType
             /\ Distinct(bucket'[b].waitq) /\ Distinct(bucket'[b].busyq)
             /\ bucket'[b].freeze = (bucket[b].freeze \/ t[b] # {})
             /\ Elems(bucket'[b].busyq) = Sent[b] \cup s[b]
             /\ Waiting[b] = Elems(bucket'[b].waitq) \cup s[b] \cup t[b]
             /\ Elems(bucket'[b].waitq) \cap (s[b] \cup t[b]) = {} /\ s[b] \cap t[b] = {}
             /\ s[b] # {} => bucket[b].busyq = <<>>
             /\ Cardinality(s[b]) <= Larger(1, bucket[b].remaining)
             /\ (s[b] \cup t[b]) # {} => turn(b)
             /\ turn(b) => ToSet(SentOf(b)) = s[b]
  <2>1. bucket'[b] = IF turn(b) THEN AfterTurn(b) ELSE bucket[b]
    BY DEF CheckPending
  <2>2. bucket[b] \in BucketType /\ bucket[b].freeze \in BOOLEAN /\ bucket[b].remaining \in Nat
    BY <1>1, Typed
  <2>3. CASE turn(b)
    <3> DEFINE y == AfterTurn(b)
               u == Elems(SentOf(b))
               v == IF TimesOut(b) THEN {Head(bucket[b].waitq)} ELSE {}
    <3>1. /\ y \in BucketType /\ Distinct(y.waitq) /\ Distinct(y.busyq)
          /\ y.freeze = (bucket[b].freeze \/ TimesOut(b))
          /\ ToSet(SentOf(b)) = u /\ Elems(y.busyq) = Sent[b] \cup u
          /\ Waiting[b] = Elems(y.waitq) \cup u \cup v
          /\ Elems(y.waitq) \cap (u \cup v) = {} /\ u \cap v = {}
          /\ u # {} => bucket[b].busyq = <<>>
          /\ IsFiniteSet(u) /\ Cardinality(u) <= Larger(1, bucket[b].remaining)
      BY <1>1, AfterTurnIs
    <3>2. bucket'[b] = y /\ s[b] = u /\ t[b] = v /\ (TimesOut(b) <=> v # {})
      BY <2>1, <2>3
    <3> HIDE DEF y, u, v, s, t
    <3> QED BY <2>3, <3>1, <3>2
  <2>4. CASE ~turn(b)
    <3>1. bucket'[b] = bucket[b] /\ s[b] = {} /\ t[b] = {}
      BY <2>1, <2>4
    <3>2. Cardinality({}) <= Larger(1, bucket[b].remaining)
      BY <2>2, FS_EmptySet DEF Larger
    <3> HIDE DEF s, t
    <3> QED BY <1>1, <2>2, <2>4, <3>1, <3>2 DEF QueueInv, Sent, Waiting
  <2> QED BY <2>3, <2>4
<1>4. s \in [Buckets -> SUBSET Contexts] /\ t \in [Buckets -> SUBSET Contexts]
  <2>1. \A b \in Buckets : Waiting[b] \subseteq Contexts
    BY <1>1, Typed
  <2>2. s = [b \in Buckets |-> s[b]] /\ t = [b \in Buckets |-> t[b]]
    OBVIOUS
  <2> HIDE DEF s, t
  <2> QED BY <1>3, <2>1, <2>2
<1>5. UNION {ToSet(SentOf(b)) : b \in 1..made} = sent
  <2>1. \A b \in 1..made : b \in Buckets
    BY <1>1, Numbers DEF TypeInv, RouteType
  <2> HIDE DEF s, t
  <2> QED BY <1>2, <1>3, <2>1
<1>6. timeouts' = timeouts \cup UNION {t[b] : b \in Buckets}
  <2>1. timeouts' = timeouts \cup {Head(bucket[b].waitq) : b \in {b \in 1..made : TimesOut(b)}}
    BY DEF CheckPending
  <2>2. {Head(bucket[b].waitq) : b \in {b \in 1..made : TimesOut(b)}} = UNION {t[b] : b \in Buckets}
    <3>1. \A b \in 1..made : b \in Buckets
      BY <1>1, Numbers DEF TypeInv, RouteType
    <3> QED BY <1>2, <3>1
  <2> QED BY <2>1, <2>2
<1>7. conns' = conns + Cardinality(sent)
  <2> HIDE DEF sent
  <2> QED BY <1>5 DEF CheckPending
<1>8. log' = [r \in 1..Len(log) |->
               [log[r] EXCEPT !.sends = IF \E c \in sent : cxt[c].req = r
                                          THEN log[r].sends + 1 ELSE log[r].sends]]
  <2> HIDE DEF sent
  <2> QED BY <1>5 DEF CheckPending
<1> HIDE DEF sent
<1>9. \A r \in 1..Len(log) :
        /\ log'[r] \in LogType
        /\ log'[r].sends = log[r].sends + (IF \E c \in sent : cxt[c].req = r THEN 1 ELSE 0)
        /\ log'[r].done = log[r].done /\ log'[r].fail = log[r].fail
        /\ log'[r].state = log[r].state
        /\ (\A c \in sent : cxt[c].req # r) => log'[r] = log[r]
  <2> TAKE r \in 1..Len(log)
  <2> DEFINE x == log[r]
             n == IF \E c \in sent : cxt[c].req = r THEN x.sends + 1 ELSE x.sends
  <2>1. x \in LogType /\ x.sends \in Nat
    BY <1>1, Typed
  <2>2. log'[r] = [x EXCEPT !.sends = n]
    BY <1>8
  <2>3. /\ n \in Nat /\ n = x.sends + (IF \E c \in sent : cxt[c].req = r THEN 1 ELSE 0)
        /\ (\A c \in sent : cxt[c].req # r) => n = x.sends
    BY <2>1
  <2> HIDE DEF n, x
  <2>4. /\ log'[r] \in LogType /\ log'[r].sends = n /\ log'[r].done = x.done
        /\ log'[r].fail = x.fail /\ log'[r].state = x.state
        /\ n = x.sends => log'[r] = x
    BY <2>1, <2>2, <2>3 DEF LogType
  <2> QED BY <2>3, <2>4 DEF x
<1>10. DOMAIN log' = 1..Len(log) /\ log' \in Seq(LogType) /\ Len(log') = Len(log)
  <2>1. Len(log) \in Nat /\ log' = [r \in 1..Len(log) |-> log'[r]]
    BY <1>1, <1>8, Typed
  <2> QED BY <1>9, <2>1
<1>11. bucket' \in [Buckets -> BucketType]
  <2>1. bucket' = [b \in Buckets |-> bucket'[b]]
    BY DEF CheckPending
  <2> QED BY <1>3, <2>1
<1>12. \A b \in Buckets :
         Sent'[b] = Elems(bucket'[b].busyq) /\ Waiting'[b] = Elems(bucket'[b].waitq)
  BY DEF Sent, Waiting
<1> HIDE DEF s, t
<1>13. \A b \in Buckets :
         /\ bucket'[b] \in BucketType
         /\ Distinct(bucket'[b].waitq) /\ Distinct(bucket'[b].busyq)
         /\ bucket'[b].freeze = (bucket[b].freeze \/ t[b] # {})
         /\ Sent'[b] = Sent[b] \cup s[b] /\ Waiting[b] = Waiting'[b] \cup s[b] \cup t[b]
         /\ Waiting'[b] \cap (s[b] \cup t[b]) = {} /\ s[b] \cap t[b] = {}
         /\ s[b] # {} => bucket[b].busyq = <<>>
         /\ Cardinality(s[b]) <= Larger(1, bucket[b].remaining)
         /\ (s[b] \cup t[b]) # {} => b <= made
  BY <1>3, <1>12
<1>14. Turned(s, t)
  BY <1>6, <1>7, <1>9, <1>10, <1>11, <1>13 DEF Turned, sent
<1> QED BY <1>4, <1>14, Zenon

LEMMA CheckPendingInv == RequestInv /\ CheckPending => RequestInv'
<1> SUFFICES ASSUME RequestInv, CheckPending PROVE RequestInv'
  OBVIOUS
<1>1. TypeInv /\ PlaceInv /\ QueueInv
  BY DEF RequestInv
<1>2. PICK s \in [Buckets -> SUBSET Contexts], t \in [Buckets -> SUBSET Contexts] : Turned(s, t)
  BY CheckPendingIs
<1> DEFINE sent  == UNION {s[b] : b \in Buckets}
           timed == UNION {t[b] : b \in Buckets}
<1>3. /\ pc = "pending" /\ pc' = "transfers" /\ msg = NoMsg
      /\ UNCHANGED <<msg, allocated, made, routes, wait, idleq, stops>>
  BY <1>1 DEF CheckPending, TypeInv, PcType
<1>4. ASSUME NEW b \in Buckets
      PROVE  /\ bucket'[b].freeze = (bucket[b].freeze \/ t[b] # {})
             /\ Sent'[b] = Sent[b] \cup s[b] /\ Waiting[b] = Waiting'[b] \cup s[b] \cup t[b]
             /\ Waiting'[b] \cap (s[b] \cup t[b]) = {} /\ s[b] \cap t[b] = {}
             /\ (s[b] \cup t[b]) # {} => b <= made
             /\ Waiting[b] \cap Sent[b] = {}
  BY <1>1, <1>2 DEF Turned, PlaceInv
<1>5. /\ timeouts' = timeouts \cup timed /\ conns' = conns + Cardinality(sent)
      /\ DOMAIN log' = 1..Len(log) /\ log' \in Seq(LogType) /\ Len(log') = Len(log)
      /\ \A r \in 1..Len(log) :
           /\ log'[r].sends = log[r].sends + (IF \E c \in sent : cxt[c].req = r THEN 1 ELSE 0)
           /\ log'[r].done = log[r].done /\ log'[r].state = log[r].state
  BY <1>2 DEF Turned
<1>6. ASSUME NEW c \in Contexts
      PROVE  /\ cxt'[c] \in ContextType /\ cxt'[c].bucket = cxt[c].bucket
             /\ cxt'[c].req = cxt[c].req /\ cxt'[c].attempt = cxt[c].attempt
  <2> DEFINE x == cxt[c]
             n == Timeout(cxt[c].bucket)
  <2>1. x \in ContextType /\ x.bucket \in Buckets /\ wait \in Int
    BY <1>1, Typed DEF TypeInv, CountType, Stamps
  <2>2. n \in Int
    <3>1. bucket[cxt[c].bucket].reset \in Int
      BY <1>1, <2>1, Typed
    <3> QED BY <2>1, <3>1 DEF Timeout, Larger, Past
  <2>3. cxt'[c] = x \/ cxt'[c] = [x EXCEPT !.timeout = n]
    BY DEF CheckPending
  <2> HIDE DEF x, n
  <2>4. /\ cxt'[c] \in ContextType /\ cxt'[c].bucket = x.bucket
        /\ cxt'[c].req = x.req /\ cxt'[c].attempt = x.attempt
    BY <2>1, <2>2, <2>3 DEF ContextType
  <2> QED BY <2>4 DEF x
<1>7. Known' = Known /\ Free' = Free /\ Live' = Live /\ Known \subseteq Contexts
  BY <1>1, <1>3, Typed DEF Known, Free, Live
\* What is moved was waiting in the bucket of its context.
<1>8. \A b \in Buckets : \A c \in Waiting[b] \cup Sent[b] :
        c \in Known /\ c \notin Free /\ c \notin timeouts /\ cxt[c].bucket = b
  BY <1>1 DEF PlaceInv
<1>9. \A c \in sent \cup timed :
        /\ c \in Live /\ c \notin timeouts /\ cxt[c].bucket \in Buckets
        /\ c \in Waiting[cxt[c].bucket] /\ c \notin Sent[cxt[c].bucket]
        /\ c \notin Waiting'[cxt[c].bucket]
        /\ c \in sent => c \in s[cxt[c].bucket]
        /\ c \in timed => c \in t[cxt[c].bucket]
  <2> TAKE c \in sent \cup timed
  <2>1. PICK b \in Buckets : c \in s[b] \cup t[b]
    OBVIOUS
  <2>2. c \in Waiting[b] /\ c \notin Sent[b] /\ c \notin Waiting'[b] /\ cxt[c].bucket = b
    BY <1>4, <1>8, <2>1
  <2>3. \A d \in Buckets : c \in s[d] \cup t[d] => d = b
    BY <1>4, <1>8, <2>2
  <2>4. c \in Live /\ c \notin timeouts
    BY <1>8, <2>2 DEF Live
  <2> QED BY <2>2, <2>3, <2>4
<1>10. TypeInv'
  <2>1. CxtType'
    <3>1. cxt' = [c \in Contexts |-> cxt'[c]]
      BY DEF CheckPending
    <3> QED BY <1>6, <3>1 DEF CxtType
  <2>2. BuckType' /\ LogInType'
    BY <1>1, <1>2, <1>5 DEF Turned, BuckType, LogInType, TypeInv
  <2>3. Cardinality(sent) \in Nat /\ timed \subseteq Contexts
    <3>1. IsFiniteSet(sent)
      BY Numbers, FS_Subset
    <3> QED BY <3>1, FS_CardinalityType
  <2> HIDE DEF sent, timed
  <2>4. ListType' /\ CountType'
    BY <1>1, <1>3, <1>5, <2>3 DEF TypeInv, ListType, CountType
  <2>5. PcType' /\ RouteType'
    BY <1>1, <1>3 DEF TypeInv, PcType, RouteType
  <2> QED BY <2>1, <2>2, <2>4, <2>5 DEF TypeInv
<1>11. MadeInv' /\ QueueInv'
  BY <1>1, <1>2, <1>3 DEF RequestInv, MadeInv, QueueInv, Turned
<1> HIDE DEF sent, timed
<1>12. PlaceInv'
  <2>1. \A b \in Buckets :
          /\ Waiting'[b] \cap Sent'[b] = {}
          /\ \A c \in Waiting'[b] \cup Sent'[b] :
               c \in Known' /\ c \notin Free' /\ c \notin timeouts' /\ cxt'[c].bucket = b
    <3> TAKE b \in Buckets
    <3>1. Waiting'[b] \cap Sent'[b] = {}
      BY <1>4
    <3>2. ASSUME NEW c \in Waiting'[b] \cup Sent'[b]
          PROVE  c \in Known' /\ c \notin Free' /\ c \notin timeouts' /\ cxt'[c].bucket = b
      <4>1. c \in Waiting[b] \cup Sent[b]
        BY <1>4
      <4>2. c \in Known /\ c \notin Free /\ c \notin timeouts /\ cxt[c].bucket = b
        BY <1>8, <4>1
      <4>3. c \in timed => c \in t[b] /\ c \in Waiting[b] /\ c \notin Sent[b] /\ c \notin Waiting'[b]
        BY <1>9, <4>2
      <4>4. c \notin timed
        BY <1>4, <4>3
      <4> QED BY <1>5, <1>6, <1>7, <4>2, <4>4
    <3> QED BY <3>1, <3>2
  <2>2. \A c \in Known' :
          /\ cxt'[c].bucket <= made'
          /\ c \in Free' \cup timeouts' \cup Waiting'[cxt'[c].bucket] \cup Sent'[cxt'[c].bucket]
    <3> TAKE c \in Known'
    <3> DEFINE b == cxt[c].bucket
    <3>1. /\ b <= made /\ b \in Buckets /\ cxt'[c].bucket = b
          /\ c \in Free \cup timeouts \cup Waiting[b] \cup Sent[b]
      BY <1>1, <1>6, <1>7, Typed DEF PlaceInv
    <3> HIDE DEF b
    <3>2. t[b] \subseteq timed
      BY <3>1 DEF timed
    <3> QED BY <1>3, <1>4, <1>5, <1>7, <3>1, <3>2
  <2>3. Free' \subseteq Known' /\ timeouts' \subseteq Known' /\ Free' \cap timeouts' = {}
    <3>1. \A c \in timed : c \in Known /\ c \notin Free
      BY <1>9 DEF Live
    <3> QED BY <1>1, <1>5, <1>7, <3>1 DEF PlaceInv
  <2> QED BY <2>1, <2>2, <2>3 DEF PlaceInv
<1>13. FrozenHasTimer'
  <2> SUFFICES ASSUME NEW b \in Buckets, bucket'[b].freeze
               PROVE  \E c \in timeouts' : cxt'[c].bucket = b
    BY DEF FrozenHasTimer
  <2>1. CASE t[b] # {}
    <3>1. PICK c \in t[b] : TRUE
      BY <2>1
    <3>2. c \in timed /\ c \in Waiting[b] /\ c \in Contexts
      BY <1>4, <3>1 DEF timed
    <3> QED BY <1>5, <1>6, <1>8, <3>2
  <2>2. CASE t[b] = {}
    <3>1. bucket[b].freeze
      BY <1>1, <1>4, <2>2, Typed
    <3>2. PICK c \in timeouts : cxt[c].bucket = b
      BY <3>1 DEF RequestInv, FrozenHasTimer
    <3>3. c \in Contexts
      BY <1>1 DEF TypeInv, ListType
    <3> QED BY <1>5, <1>6, <3>2, <3>3
  <2> QED BY <2>1, <2>2
<1>14. MsgInv' /\ ConnInv'
  <2>1. InFlight' \subseteq InFlight \cup sent
    <3>1. \A b \in 1..made : b \in Buckets /\ Sent'[b] \subseteq Sent[b] \cup sent
      BY <1>1, <1>4, Numbers DEF TypeInv, RouteType, sent
    <3>2. InFlight' = UNION {Sent'[b] : b \in 1..made}
      BY <1>3 DEF InFlight
    <3> QED BY <3>1, <3>2 DEF InFlight
  <2>2. /\ IsFiniteSet(InFlight) /\ IsFiniteSet(sent) /\ Cardinality(InFlight) <= conns
        /\ conns \in Nat
    BY <1>1, InFlightIs, Numbers, FS_Subset DEF RequestInv, ConnInv, TypeInv, CountType, sent
  <2>3. /\ IsFiniteSet(InFlight \cup sent)
        /\ Cardinality(InFlight \cup sent) <= Cardinality(InFlight) + Cardinality(sent)
    <3>1. /\ IsFiniteSet(InFlight \cup sent) /\ IsFiniteSet(InFlight \cap sent)
          /\ Cardinality(InFlight \cup sent) =
                Cardinality(InFlight) + Cardinality(sent) - Cardinality(InFlight \cap sent)
      BY <2>2, FS_Union, FS_Intersection
    <3>2. Cardinality(InFlight \cap sent) \in Nat /\ Cardinality(InFlight) \in Nat /\ Cardinality(sent) \in Nat
      BY <2>2, <3>1, FS_CardinalityType
    <3> QED BY <3>1, <3>2
  <2>4. /\ Cardinality(InFlight') <= Cardinality(InFlight \cup sent)
        /\ IsFiniteSet(InFlight')
    BY <2>1, <2>3, FS_Subset
  <2>5. /\ Cardinality(InFlight') \in Nat /\ Cardinality(InFlight) \in Nat
        /\ Cardinality(sent) \in Nat /\ Cardinality(InFlight \cup sent) \in Nat
    BY <2>2, <2>3, <2>4, FS_CardinalityType
  <2>6. ConnInv'
    BY <1>5, <2>2, <2>3, <2>4, <2>5 DEF ConnInv
  <2> QED BY <1>3, <2>6 DEF MsgInv
<1>15. LogInv'
  <2>1. LogInv
    BY DEF RequestInv
  <2>2. \A c \in Live : /\ c \in Contexts /\ cxt'[c].req = cxt[c].req
                        /\ cxt'[c].attempt = cxt[c].attempt /\ cxt'[c].bucket = cxt[c].bucket
                        /\ cxt[c].req \in 1..Len(log) /\ cxt[c].attempt \in Nat
                        /\ cxt[c].attempt <= RetryLimit
                        /\ cxt[c].bucket \in Buckets
                        /\ log[cxt[c].req].sends \in Nat
    BY <1>1, <1>6, <1>7, <2>1, Typed, Numbers DEF LogInv, Live
  <2>3. \A c \in Live : (\E d \in sent : cxt[d].req = cxt[c].req) <=> c \in sent
    BY <1>9, <2>1 DEF LogInv
  <2>4. \A c \in Live :
           /\ cxt'[c].req \in 1..Len(log') /\ log'[cxt'[c].req].state = "live"
           /\ log'[cxt'[c].req].sends <=
                cxt'[c].attempt + (IF c \in Sent'[cxt'[c].bucket] THEN 1 ELSE 0)
    <3> TAKE c \in Live
    <3> DEFINE r == cxt[c].req
               b == cxt[c].bucket
    <3>1. /\ log[r].state = "live"
          /\ log[r].sends <= cxt[c].attempt + (IF c \in Sent[b] THEN 1 ELSE 0)
      BY <2>1 DEF LogInv
    <3>2. log'[r].sends = log[r].sends + (IF c \in sent THEN 1 ELSE 0) /\ log'[r].state = log[r].state
      BY <1>5, <2>2, <2>3
    <3>3. c \in sent => c \notin Sent[b] /\ c \in Sent'[b]
      BY <1>4, <1>9
    <3>4. c \in Sent[b] => c \in Sent'[b]
      BY <1>4, <2>2
    <3>5. /\ r \in 1..Len(log') /\ cxt'[c].req = r /\ cxt'[c].bucket = b
          /\ cxt'[c].attempt = cxt[c].attempt /\ cxt[c].attempt \in Nat /\ log[r].sends \in Nat
      BY <1>5, <2>2
    <3> HIDE DEF r, b
    <3> QED BY <3>1, <3>2, <3>3, <3>4, <3>5
  <2>5. AttemptsBounded'
    <3> SUFFICES ASSUME NEW r \in 1..Len(log) PROVE log'[r].sends <= RetryLimit + 1
      BY <1>5 DEF AttemptsBounded
    <3>1. log[r].sends <= RetryLimit + 1 /\ log[r].sends \in Nat
      BY <1>1, <2>1, Typed DEF LogInv, AttemptsBounded
    <3>2. CASE \E c \in sent : cxt[c].req = r
      <4>1. PICK c \in sent : cxt[c].req = r
        BY <3>2
      <4>2. c \in Live /\ c \notin Sent[cxt[c].bucket]
        BY <1>9
      <4>3. log[r].sends <= cxt[c].attempt + 0
        BY <2>1, <4>1, <4>2 DEF LogInv
      <4>4. log'[r].sends = log[r].sends + 1
        BY <1>5, <3>2
      <4> QED BY <2>2, <3>1, <4>2, <4>3, <4>4, Numbers
    <3>3. CASE ~(\E c \in sent : cxt[c].req = r)
      BY <1>5, <3>1, <3>3
    <3> QED BY <3>2, <3>3
  <2>6. \A c, d \in Live : cxt'[c].req = cxt'[d].req => c = d
    BY <2>1, <2>2 DEF LogInv
  <2> QED BY <1>7, <2>4, <2>5, <2>6 DEF LogInv
<1>16. DoneInv'
  BY <1>3, <1>5 DEF RequestInv, DoneInv
<1> QED BY <1>10, <1>11, <1>12, <1>13, <1>14, <1>15, <1>16 DEF RequestInv

-----------------------------------------------------------------------------
(* discord_adapter_stop_all *)

\* The contexts of the buckets one after the other.
LEMMA LinkedIs ==
  ASSUME TypeInv, QueueInv, PlaceInv
  PROVE  LET s == FlattenSeq([b \in 1..made |-> bucket[b].busyq \o bucket[b].waitq])
         IN  /\ s \in Seq(Contexts) /\ Distinct(s)
             /\ Elems(s) = Known \ (Free \cup timeouts)
<1> DEFINE f == [b \in 1..made |-> bucket[b].busyq \o bucket[b].waitq]
<1>1. made \in Nat /\ made >= 1 /\ \A b \in 1..made : b \in Buckets
  BY Numbers DEF TypeInv, RouteType
<1>2. \A b \in 1..made : /\ f[b] \in Seq(Contexts) /\ Elems(f[b]) = Sent[b] \cup Waiting[b]
                         /\ Distinct(f[b])
  <2> TAKE b \in 1..made
  <2> DEFINE s == bucket[b].busyq
             t == bucket[b].waitq
  <2>1. /\ s \in Seq(Contexts) /\ t \in Seq(Contexts) /\ Distinct(s) /\ Distinct(t)
        /\ Elems(s) = Sent[b] /\ Elems(t) = Waiting[b] /\ Elems(s) \cap Elems(t) = {}
    BY <1>1, Typed DEF QueueInv, PlaceInv, Sent, Waiting
  <2>2. f[b] = s \o t
    OBVIOUS
  <2> HIDE DEF s, t, f
  <2>3. /\ s \o t \in Seq(Contexts) /\ Elems(s \o t) = Elems(s) \cup Elems(t) /\ Distinct(s \o t)
    BY <2>1, ConcatElems
  <2> QED BY <2>1, <2>2, <2>3
<1>3. f \in [1..made -> Seq(Contexts)]
  BY <1>2
<1>4. \A b, d \in 1..made : b # d => Elems(f[b]) \cap Elems(f[d]) = {}
  <2>1. \A b \in 1..made : \A c \in Elems(f[b]) : cxt[c].bucket = b
    BY <1>1, <1>2 DEF PlaceInv
  <2> HIDE DEF f
  <2> QED BY <2>1
<1> HIDE DEF f
<1>5. /\ FlattenSeq(f) \in Seq(Contexts) /\ Distinct(FlattenSeq(f))
      /\ Elems(FlattenSeq(f)) = UNION {Elems(f[b]) : b \in 1..made}
  BY <1>1, <1>2, <1>3, <1>4, FlattenElems
<1>6. UNION {Elems(f[b]) : b \in 1..made} \subseteq Known \ (Free \cup timeouts)
  BY <1>1, <1>2 DEF PlaceInv
<1>7. Known \ (Free \cup timeouts) \subseteq UNION {Elems(f[b]) : b \in 1..made}
  <2> SUFFICES ASSUME NEW c \in Known, c \notin Free, c \notin timeouts
               PROVE  \E b \in 1..made : c \in Elems(f[b])
    OBVIOUS
  <2>1. cxt[c].bucket \in Buckets /\ cxt[c].bucket <= made
    BY Typed DEF PlaceInv
  <2>2. cxt[c].bucket \in 1..made
    BY <1>1, <2>1, Numbers
  <2>3. c \in Waiting[cxt[c].bucket] \cup Sent[cxt[c].bucket]
    BY DEF PlaceInv
  <2> QED BY <1>2, <2>2, <2>3
<1> QED BY <1>5, <1>6, <1>7 DEF f

\* What the log says of the requests that are cancelled.
LEMMA StopAllLog ==
  ASSUME TypeInv, StopAll
  PROVE  /\ Len(log') = Len(log) /\ log' \in Seq(LogType) /\ DOMAIN log' = 1..Len(log)
         /\ \A r \in 1..Len(log) : /\ log'[r].sends = log[r].sends /\ log'[r].done = log[r].done
                                   /\ log'[r].fail = log[r].fail /\ log'[r].state # "live"
                                   /\ log[r].state # "live" => log'[r] = log[r]
<1>1. log' = [r \in 1..Len(log) |->
               [log[r] EXCEPT !.state = IF log[r].state = "live" THEN "cancelled" ELSE log[r].state]]
  BY DEF StopAll
<1>2. ASSUME NEW r \in 1..Len(log)
      PROVE  /\ log'[r] \in LogType
             /\ log'[r].sends = log[r].sends /\ log'[r].done = log[r].done
             /\ log'[r].fail = log[r].fail /\ log'[r].state # "live"
             /\ log[r].state # "live" => log'[r] = log[r]
  <2> DEFINE x == log[r]
             n == IF x.state = "live" THEN "cancelled" ELSE x.state
  <2>1. x \in LogType
    BY Typed
  <2>2. log'[r] = [x EXCEPT !.state = n]
    BY <1>1
  <2> HIDE DEF x
  <2>3. n \in States /\ n # "live" /\ (x.state # "live" => n = x.state)
    BY <2>1 DEF LogType, States
  <2> HIDE DEF n
  <2>4. /\ log'[r] \in LogType /\ log'[r].sends = x.sends /\ log'[r].done = x.done
        /\ log'[r].fail = x.fail /\ log'[r].state = n
        /\ n = x.state => log'[r] = x
    BY <2>1, <2>2, <2>3 DEF LogType
  <2> QED BY <2>3, <2>4 DEF x
<1>3. Len(log) \in Nat /\ log' = [r \in 1..Len(log) |-> log'[r]]
  BY <1>1, Typed
<1>4. Len(log') = Len(log) /\ log' \in Seq(LogType) /\ DOMAIN log' = 1..Len(log)
  BY <1>2, <1>3
<1> QED BY <1>2, <1>4

LEMMA StopAllInv == RequestInv /\ StopAll => RequestInv'
<1> SUFFICES ASSUME RequestInv, StopAll PROVE RequestInv'
  OBVIOUS
<1>1. TypeInv /\ PlaceInv /\ QueueInv
  BY DEF RequestInv
<1>2. /\ pc = "loop" /\ bucket' = [b \in Buckets |-> Stopped(b)]
      /\ conns' = conns - Cardinality(Busy) /\ timeouts' = {} /\ stops' = stops + 1
      /\ UNCHANGED <<pc, msg, cxt, allocated, made, routes, wait>>
  BY DEF StopAll
<1>3. idleq' \in Seq(Contexts) /\ Distinct(idleq') /\ Free' = Known
  <2> DEFINE s == FlattenSeq([b \in 1..made |-> bucket[b].busyq \o bucket[b].waitq])
  <2>1. PICK q \in ByTimeout : idleq' = idleq \o q \o s
    BY Zenon DEF StopAll
  <2>2. timeouts \subseteq Contexts /\ IsFiniteSet(timeouts)
    BY <1>1, Numbers, FS_Subset DEF TypeInv, ListType
  <2>3. q \in SetToSeqs(timeouts)
    BY DEF ByTimeout
  <2>4. q \in Seq(timeouts) /\ Elems(q) = timeouts /\ Distinct(q)
    BY <2>2, <2>3, SetToSeqsElems
  <2>5. q \in Seq(Contexts)
    BY <2>2, <2>4
  <2>6. s \in Seq(Contexts) /\ Distinct(s) /\ Elems(s) = Known \ (Free \cup timeouts)
    BY <1>1, LinkedIs
  <2> HIDE DEF s
  <2> DEFINE p == idleq \o q
  <2>7. idleq \in Seq(Contexts) /\ Distinct(idleq) /\ Elems(idleq) \cap Elems(q) = {}
    BY <1>1, <2>4 DEF TypeInv, ListType, QueueInv, PlaceInv, Free
  <2>8. p \in Seq(Contexts) /\ Elems(p) = Free \cup timeouts /\ Distinct(p)
    <3>1. /\ p \in Seq(Contexts) /\ Elems(p) = Elems(idleq) \cup Elems(q) /\ Distinct(p)
      BY <2>4, <2>5, <2>7, ConcatElems
    <3> HIDE DEF p
    <3> QED BY <2>4, <3>1 DEF Free
  <2>9. idleq' = p \o s
    BY <2>1
  <2> HIDE DEF p
  <2>10. Elems(p) \cap Elems(s) = {}
    BY <2>6, <2>8
  <2>11. /\ p \o s \in Seq(Contexts) /\ Elems(p \o s) = Elems(p) \cup Elems(s) /\ Distinct(p \o s)
    BY <2>6, <2>8, <2>10, ConcatElems
  <2>12. (Free \cup timeouts) \cup (Known \ (Free \cup timeouts)) = Known
    BY <1>1 DEF PlaceInv
  <2>13. Free' = Elems(idleq')
    BY DEF Free
  <2> QED BY <2>6, <2>8, <2>9, <2>11, <2>12, <2>13
<1>4. ASSUME NEW b \in Buckets
      PROVE  /\ bucket'[b] \in BucketType /\ bucket'[b].waitq = <<>> /\ bucket'[b].busyq = <<>>
             /\ bucket'[b].freeze = FALSE
  <2> DEFINE x == bucket[b]
             f == x.freeze /\ Timed(b) = {}
  <2>1. x \in BucketType
    BY <1>1, Typed
  <2>2. bucket'[b] = [x EXCEPT !.waitq = <<>>, !.busyq = <<>>, !.freeze = f]
    BY <1>2 DEF Stopped
  <2>3. f = FALSE
    BY DEF RequestInv, FrozenHasTimer, Timed
  <2> HIDE DEF x, f
  <2>4. bucket'[b] = [x EXCEPT !.waitq = <<>>, !.busyq = <<>>, !.freeze = FALSE]
    BY <2>2, <2>3
  <2>5. <<>> \in Seq(Contexts)
    OBVIOUS
  <2> DEFINE e == <<>>
  <2>6. bucket'[b] = [x EXCEPT !.waitq = e, !.busyq = e, !.freeze = FALSE] /\ e \in Seq(Contexts)
    BY <2>4, <2>5
  <2> HIDE DEF e
  <2>7. /\ bucket'[b] \in BucketType /\ bucket'[b].waitq = e /\ bucket'[b].busyq = e
        /\ bucket'[b].freeze = FALSE
    BY <2>1, <2>6 DEF BucketType
  <2> QED BY <2>7 DEF e
<1>5. Known' = Known /\ \A b \in Buckets : Waiting'[b] = {} /\ Sent'[b] = {}
  BY <1>2, <1>4, EmptyElems DEF Known, Waiting, Sent
<1>6. /\ Len(log') = Len(log) /\ log' \in Seq(LogType) /\ DOMAIN log' = 1..Len(log)
      /\ \A r \in 1..Len(log) : /\ log'[r].sends = log[r].sends /\ log'[r].done = log[r].done
                                /\ log'[r].fail = log[r].fail /\ log'[r].state # "live"
                                /\ log[r].state # "live" => log'[r] = log[r]
  BY <1>1, StopAllLog
<1>7. conns' \in Nat /\ Cardinality(InFlight') <= conns'
  <2>1. Busy = InFlight /\ Cardinality(InFlight) \in Nat /\ Cardinality(InFlight) <= conns
    BY <1>1, InFlightIs DEF RequestInv, ConnInv
  <2>2. conns \in Nat
    BY <1>1 DEF TypeInv, CountType
  <2>3. InFlight' = {}
    <3>1. \A b \in 1..made : b \in Buckets
      BY <1>1, Numbers DEF TypeInv, RouteType
    <3> QED BY <1>2, <1>5, <3>1 DEF InFlight
  <2>4. conns' \in Nat
    BY <1>2, <2>1, <2>2
  <2> QED BY <2>3, <2>4, FS_EmptySet
<1>8. TypeInv'
  <2>1. BuckType' /\ LogInType' /\ ListType'
    BY <1>1, <1>2, <1>3, <1>4, <1>6 DEF TypeInv, BuckType, LogInType, ListType
  <2>2. PcType' /\ CxtType' /\ RouteType'
    BY <1>1, <1>2 DEF TypeInv, PcType, CxtType, RouteType
  <2>3. CountType'
    BY <1>1, <1>2, <1>6, <1>7 DEF TypeInv, CountType
  <2> QED BY <2>1, <2>2, <2>3 DEF TypeInv
<1>9. MadeInv' /\ QueueInv' /\ FrozenHasTimer'
  BY <1>2, <1>3, <1>4, EmptyElems DEF RequestInv, MadeInv, QueueInv, FrozenHasTimer
<1>10. PlaceInv'
  BY <1>1, <1>2, <1>3, <1>5 DEF PlaceInv
<1>11. MsgInv' /\ ConnInv'
  BY <1>2, <1>7 DEF MsgInv, ConnInv
<1>12. LogInv'
  <2>1. Live' = {}
    BY <1>3, <1>5 DEF Live
  <2>2. AttemptsBounded'
    BY <1>1, <1>6, Typed DEF RequestInv, LogInv, AttemptsBounded
  <2> QED BY <2>1, <2>2 DEF LogInv
<1>13. DoneInv'
  BY <1>6 DEF RequestInv, DoneInv
<1> QED BY <1>8, <1>9, <1>10, <1>11, <1>12, <1>13 DEF RequestInv

-----------------------------------------------------------------------------
(* The evaluation of an answer *)

\* The bucket b has learnt from the answer, and the requests x have moved to it.
Answered(b, x) ==
  LET c     == msg.cxt
      a     == msg.answer
      old   == cxt[c].bucket
      timed == Retried(c, a) /\ RetryAt(a) # 0
      back  == Retried(c, a) /\ RetryAt(a) = 0
  IN /\ x \subseteq Waiting[NullBucket] /\ (x # {} => b # NullBucket)
     /\ b \in Buckets /\ b <= made'
     /\ bucket' \in [Buckets -> BucketType]
     /\ \A d \in Buckets :
          /\ Distinct(bucket'[d].waitq) /\ Distinct(bucket'[d].busyq)
          /\ bucket'[d].freeze => bucket[d].freeze \/ (timed /\ d = old)
          /\ Sent'[d] = Sent[d] \ {c}
          /\ Waiting'[d] = (Waiting[d] \ x) \cup (IF d = b THEN x ELSE {})
                                            \cup (IF back /\ d = old THEN {c} ELSE {})
     /\ cxt' = [d \in Contexts |->
          IF d = c THEN IF Retried(c, a)
                          THEN [cxt[c] EXCEPT !.attempt = @ + 1, !.timeout = RetryAt(a)]
                          ELSE Recycled(cxt[c])
          ELSE IF d \in x THEN [cxt[d] EXCEPT !.bucket = b] ELSE cxt[d]]

\* The request whose answer is evaluated.
LEMMA AnsweredOne ==
  ASSUME RequestInv, pc = "callback"
  PROVE  LET c == msg.cxt
         IN  /\ c \in Contexts /\ msg.answer \in AnswerType
             /\ cxt[c] \in ContextType /\ cxt[c].bucket \in Buckets /\ cxt[c].route \in Routes
             /\ c \in Sent[cxt[c].bucket] /\ c \in Live /\ c \in Known
             /\ c \notin Free /\ c \notin timeouts
             /\ cxt[c].bucket <= made
             /\ \A d \in Buckets : c \notin Waiting[d] /\ (c \in Sent[d] => d = cxt[c].bucket)
             /\ cxt[c].req \in 1..Len(log) /\ log[cxt[c].req].state = "live"
<1> DEFINE c == msg.cxt
<1>1. TypeInv /\ PlaceInv
  BY DEF RequestInv
<1>2. c \in Contexts /\ msg.answer \in AnswerType
  BY <1>1 DEF TypeInv, PcType
<1>3. cxt[c] \in ContextType /\ cxt[c].bucket \in Buckets /\ cxt[c].route \in Routes
  BY <1>1, <1>2, Typed
<1>4. c \in Sent[cxt[c].bucket]
  BY DEF RequestInv, MsgInv
<1> HIDE DEF c
<1>5. c \in Known /\ c \notin Free /\ c \notin timeouts /\ c \in Live
  BY <1>1, <1>3, <1>4 DEF PlaceInv, Live
<1>6. cxt[c].bucket <= made
  BY <1>1, <1>5 DEF PlaceInv
<1>7. \A d \in Buckets : c \notin Waiting[d] /\ (c \in Sent[d] => d = cxt[c].bucket)
  BY <1>1, <1>3, <1>4 DEF PlaceInv
<1>8. cxt[c].req \in 1..Len(log) /\ log[cxt[c].req].state = "live"
  BY <1>5 DEF RequestInv, LogInv
<1> QED BY <1>2, <1>3, <1>4, <1>5, <1>6, <1>7, <1>8 DEF c

\* A bucket is made for a route that had none.
LEMMA RoomForBucket ==
  ASSUME TypeInv, MadeInv, NEW route \in Routes, routes[route] = NoRoute
  PROVE  /\ made + 1 \in Buckets
         /\ \A b : b # NoRoute => \A rs : rs = [routes EXCEPT ![route] = b]
              => made + 1 <= 2 + Cardinality({r \in Routes : rs[r] # NoRoute})
<1> DEFINE s == {r \in Routes : routes[r] # NoRoute}
<1>1. IsFiniteSet(Routes) /\ Cardinality(Routes) \in Nat
  BY Numbers
<1>2. IsFiniteSet(s) /\ s \cup {route} \subseteq Routes /\ route \notin s
  BY <1>1, FS_Subset
<1>3. made \in Nat /\ made >= 2 /\ made <= 2 + Cardinality(s) /\ routes \in [Routes -> {NoRoute} \cup 2..made]
  BY Numbers DEF TypeInv, RouteType, MadeInv
<1> HIDE DEF s
<1>4. /\ Cardinality(s \cup {route}) = Cardinality(s) + 1 /\ Cardinality(s) \in Nat
      /\ IsFiniteSet(s \cup {route})
  BY <1>2, FS_AddElement, FS_CardinalityType
<1>5. Cardinality(s \cup {route}) <= Cardinality(Routes)
  BY <1>1, <1>2, FS_Subset
<1>6. made + 1 \in Buckets
  BY <1>1, <1>3, <1>4, <1>5 DEF Buckets
<1>7. ASSUME NEW b, b # NoRoute, NEW rs, rs = [routes EXCEPT ![route] = b]
      PROVE  made + 1 <= 2 + Cardinality({r \in Routes : rs[r] # NoRoute})
  <2>1. {r \in Routes : rs[r] # NoRoute} = s \cup {route}
    BY <1>2, <1>3, <1>7 DEF s
  <2> QED BY <1>3, <1>4, <2>1
<1> QED BY <1>6, <1>7

\* The requests of a route that wait in b_null move to the bucket b.
LEMMA FilteredIs ==
  ASSUME TypeInv, QueueInv, NEW bs \in [Buckets -> BucketType], NEW b \in Buckets, b # NullBucket,
         NEW route, bs[NullBucket] = bucket[NullBucket],
         Distinct(bs[b].waitq), Elems(bs[b].waitq) \cap Waiting[NullBucket] = {}
  PROVE  LET fs == Filtered(bs, b, route)
             x  == Waiting[NullBucket] \cap Of(route)
         IN  /\ fs \in [Buckets -> BucketType]
             /\ \A d \in Buckets : /\ fs[d].busyq = bs[d].busyq /\ fs[d].freeze = bs[d].freeze
                                   /\ d # NullBucket /\ d # b => fs[d] = bs[d]
             /\ Elems(fs[NullBucket].waitq) = Waiting[NullBucket] \ x
             /\ Distinct(fs[NullBucket].waitq)
             /\ Elems(fs[b].waitq) = Elems(bs[b].waitq) \cup x /\ Distinct(fs[b].waitq)
<1> DEFINE n == bucket[NullBucket].waitq
           x == Waiting[NullBucket] \cap Of(route)
           p == Only(n, Contexts \ Of(route))
           m == Only(n, Of(route))
           y == bs[b]
           q == y.waitq \o m
           fs == Filtered(bs, b, route)
<1>1. NullBucket \in Buckets /\ n \in Seq(Contexts) /\ Distinct(n) /\ Elems(n) = Waiting[NullBucket]
      /\ Waiting[NullBucket] \subseteq Contexts
  BY Numbers, Typed DEF QueueInv, Waiting
<1> HIDE DEF n
<1>2. p \in Seq(Contexts) /\ Elems(p) = Waiting[NullBucket] \ x /\ Distinct(p)
  <2>1. p \in Seq(Contexts) /\ Elems(p) = Elems(n) \cap (Contexts \ Of(route)) /\ Distinct(p)
    BY <1>1, OnlyElems
  <2> QED BY <1>1, <2>1
<1>3. m \in Seq(Contexts) /\ Elems(m) = x /\ Distinct(m)
  <2>1. m \in Seq(Contexts) /\ Elems(m) = Elems(n) \cap Of(route) /\ Distinct(m)
    BY <1>1, OnlyElems
  <2> QED BY <1>1, <2>1
<1>4. y \in BucketType /\ y.waitq \in Seq(Contexts) /\ bs[NullBucket] \in BucketType
  BY <1>1 DEF BucketType
<1>5. q \in Seq(Contexts) /\ Elems(q) = Elems(y.waitq) \cup x /\ Distinct(q)
  <2>1. Elems(y.waitq) \cap Elems(m) = {} /\ Distinct(y.waitq)
    BY <1>3
  <2> HIDE DEF y, m
  <2> QED BY <1>3, <1>4, <2>1, ConcatElems
<1>6. fs = [bs EXCEPT ![NullBucket].waitq = p, ![b].waitq = q]
  BY <1>1, Zenon DEF Filtered, Matching, n
<1> HIDE DEF p, m, q, x, fs
<1>7. /\ fs \in [Buckets -> BucketType]
      /\ fs[NullBucket] = [bs[NullBucket] EXCEPT !.waitq = p] /\ fs[b] = [y EXCEPT !.waitq = q]
      /\ \A d \in Buckets : d # NullBucket /\ d # b => fs[d] = bs[d]
  <2>1. /\ fs[NullBucket] = [bs[NullBucket] EXCEPT !.waitq = p] /\ fs[b] = [y EXCEPT !.waitq = q]
        /\ \A d \in Buckets : d # NullBucket /\ d # b => fs[d] = bs[d]
        /\ fs = [d \in Buckets |-> fs[d]]
    BY <1>1, <1>6
  <2>2. fs[NullBucket] \in BucketType /\ fs[b] \in BucketType
    BY <1>2, <1>4, <1>5, <2>1 DEF BucketType
  <2> QED BY <2>1, <2>2
<1>8. /\ fs[NullBucket].waitq = p /\ fs[NullBucket].busyq = bs[NullBucket].busyq
      /\ fs[NullBucket].freeze = bs[NullBucket].freeze
      /\ fs[b].waitq = q /\ fs[b].busyq = y.busyq /\ fs[b].freeze = y.freeze
  BY <1>4, <1>7 DEF BucketType
<1>9. \A d \in Buckets : fs[d].busyq = bs[d].busyq /\ fs[d].freeze = bs[d].freeze
  BY <1>7, <1>8
<1> QED BY <1>2, <1>5, <1>7, <1>8, <1>9 DEF fs, x

LEMMA PopulatedIs ==
  ASSUME NEW y \in BucketType, NEW a \in AnswerType
  PROVE  LET z == Populated(y, a)
         IN  /\ z \in BucketType /\ z.busyq = y.busyq /\ z.waitq = y.waitq /\ z.freeze = y.freeze
<1> DEFINE t == IF a.after # Past /\ a.kind # "limited_globally" THEN a.after ELSE y.reset
<1>1. a.remaining \in Nat /\ t \in Int
  BY DEF AnswerType, BucketType, Stamps
<1>2. Populated(y, a) = y \/ Populated(y, a) = [y EXCEPT !.remaining = a.remaining, !.reset = t]
  BY DEF Populated
<1> HIDE DEF t
<1> QED BY <1>1, <1>2 DEF BucketType

LEMMA PlacedIs ==
  ASSUME NEW y \in BucketType, NEW c \in Contexts, NEW a, Distinct(y.waitq), c \notin Elems(y.waitq)
  PROVE  LET z == Placed(y, c, a)
             timed == Retried(c, a) /\ RetryAt(a) # 0
             back  == Retried(c, a) /\ RetryAt(a) = 0
         IN  /\ z \in BucketType /\ z.busyq = y.busyq /\ Distinct(z.waitq)
             /\ z.freeze = (y.freeze \/ timed)
             /\ Elems(z.waitq) = Elems(y.waitq) \cup (IF back THEN {c} ELSE {})
<1> DEFINE q == <<c>> \o y.waitq
           z == Placed(y, c, a)
<1>1. y.waitq \in Seq(Contexts) /\ y.freeze \in BOOLEAN
  BY DEF BucketType
<1>2. q \in Seq(Contexts) /\ Elems(q) = Elems(y.waitq) \cup {c} /\ Distinct(q)
  BY <1>1, ConsElems
<1>3. z = IF ~Retried(c, a) THEN y
          ELSE IF RetryAt(a) = 0 THEN [y EXCEPT !.waitq = q] ELSE [y EXCEPT !.freeze = TRUE]
  BY DEF Placed
<1> HIDE DEF q, z
<1>4. CASE ~Retried(c, a)
  BY <1>1, <1>3, <1>4 DEF z
<1>5. CASE Retried(c, a) /\ RetryAt(a) = 0
  <2>1. z \in BucketType /\ z.busyq = y.busyq /\ z.waitq = q /\ z.freeze = y.freeze
    BY <1>2, <1>3, <1>5 DEF BucketType
  <2> QED BY <1>1, <1>2, <1>5, <2>1 DEF z
<1>6. CASE Retried(c, a) /\ RetryAt(a) # 0
  <2>1. z \in BucketType /\ z.busyq = y.busyq /\ z.waitq = y.waitq /\ z.freeze = TRUE
    BY <1>3, <1>6 DEF BucketType
  <2> QED BY <1>1, <1>6, <2>1 DEF z
<1> QED BY <1>4, <1>5, <1>6

\* What discord_bucket_build and the rest of _discord_adapter_check_action do.
LEMMA CheckActionIs ==
  ASSUME RequestInv, CheckAction
  PROVE  /\ RouteType' /\ MadeInv' /\ made' >= made
         /\ \E b \in Buckets, x \in SUBSET Contexts : Answered(b, x)
<1> DEFINE c      == msg.cxt
           a      == msg.answer
           old    == cxt[c].bucket
           route  == cxt[c].route
           built  == a.kind \notin NoAnswer
           new    == built /\ old = NullBucket /\ routes[route] = NoRoute
           b      == IF new THEN MatchOf(a) ELSE IF old = NullBucket THEN BucketOf(route) ELSE old
           opened == IF new /\ a.named THEN [bucket EXCEPT ![b] = NewBucket(HashOf[route])] ELSE bucket
           moved  == IF built /\ old = NullBucket THEN Filtered(opened, b, route) ELSE opened
           told   == IF built THEN [moved EXCEPT ![b] = Populated(moved[b], a)] ELSE moved
           moves  == IF built /\ old = NullBucket
                       THEN ToSet(moved[b].waitq) \ ToSet(opened[b].waitq) ELSE {}
           left   == [told EXCEPT ![old].busyq = Only(@, Contexts \ {c})]
           timed  == Retried(c, a) /\ RetryAt(a) # 0
           back   == Retried(c, a) /\ RetryAt(a) = 0
           x      == IF built /\ old = NullBucket THEN Waiting[NullBucket] \cap Of(route) ELSE {}
<1>1. TypeInv /\ PlaceInv /\ QueueInv /\ MadeInv /\ pc = "callback"
  BY DEF RequestInv, CheckAction
<1>2. /\ bucket' = [left EXCEPT ![old] = Placed(left[old], c, a)]
      /\ routes' = (IF new THEN [routes EXCEPT ![route] = b] ELSE routes)
      /\ made' = (IF new /\ a.named THEN made + 1 ELSE made)
  BY DEF CheckAction
<1>3. cxt' = [d \in Contexts |->
          IF d = c THEN IF Retried(c, a)
                          THEN [cxt[c] EXCEPT !.attempt = @ + 1, !.timeout = RetryAt(a)]
                          ELSE Recycled(cxt[c])
          ELSE IF d \in moves THEN [cxt[d] EXCEPT !.bucket = b] ELSE cxt[d]]
  BY DEF CheckAction
<1>4. /\ c \in Contexts /\ a \in AnswerType
      /\ old \in Buckets /\ route \in Routes /\ old <= made
      /\ \A d \in Buckets : c \notin Waiting[d] /\ (c \in Sent[d] => d = old)
  BY <1>1, AnsweredOne
<1> HIDE DEF c, a, old, route, built
<1>5. made \in Nat /\ made >= 2 /\ made \in Buckets /\ routes \in [Routes -> {NoRoute} \cup 2..made]
  BY <1>1, Numbers DEF TypeInv, RouteType
<1>6. a.named \in BOOLEAN
  BY <1>4 DEF AnswerType
<1>7. new => MatchOf(a) = IF a.named THEN made + 1 ELSE 2
  BY DEF MatchOf, MissBucket
<1>8. new => b \in 2..made' /\ made' \in Buckets
  <2> SUFFICES ASSUME new PROVE b \in 2..made' /\ made' \in Buckets
    OBVIOUS
  <2>1. made + 1 \in Buckets
    BY <1>1, <1>4, RoomForBucket
  <2>2. b = (IF a.named THEN made + 1 ELSE 2) /\ made' = (IF a.named THEN made + 1 ELSE made)
    BY <1>2, <1>7
  <2> HIDE DEF b, new
  <2> QED BY <1>5, <2>1, <2>2
<1>9. ~new => made' = made /\ b \in Buckets /\ b <= made /\ (built /\ old = NullBucket => b \in 2..made)
  <2> SUFFICES ASSUME ~new
               PROVE  /\ made' = made /\ b \in Buckets /\ b <= made
                      /\ built /\ old = NullBucket => b \in 2..made
    OBVIOUS
  <2>1. made' = made /\ b = IF old = NullBucket THEN BucketOf(route) ELSE old
    BY <1>2
  <2>2. BucketOf(route) \in Buckets /\ BucketOf(route) <= made
    BY <1>1, <1>4, BucketOfType
  <2>3. built /\ old = NullBucket => BucketOf(route) \in 2..made
    BY <1>4, <1>5 DEF BucketOf
  <2> HIDE DEF b, new
  <2> QED BY <1>4, <2>1, <2>2, <2>3
<1>10. /\ made' \in Buckets /\ made' >= made /\ b \in Buckets /\ b <= made'
       /\ built /\ old = NullBucket => b # NullBucket
       /\ new /\ a.named => b = made + 1
       /\ new => built /\ old = NullBucket
  <2>1. \A n \in 2..made' : made' \in Buckets => n \in Buckets /\ n <= made' /\ n # NullBucket
    BY Numbers DEF NullBucket, Buckets
  <2>2. \A n \in 2..made : n # NullBucket
    BY DEF NullBucket
  <2>3. CASE new
    <3>1. b = IF a.named THEN made + 1 ELSE 2
      BY <1>7, <2>3
    <3>2. made' = (IF a.named THEN made + 1 ELSE made) /\ built /\ old = NullBucket
      BY <1>2, <2>3
    <3> HIDE DEF b, new
    <3> QED BY <1>5, <1>8, <2>1, <2>3, <3>1, <3>2
  <2>4. CASE ~new
    <3> HIDE DEF b, new
    <3> QED BY <1>5, <1>9, <2>2, <2>4
  <2> QED BY <2>3, <2>4
<1>11. RouteType'
  <2>1. CASE new
    <3>1. routes' = [routes EXCEPT ![route] = b]
      BY <1>2, <2>1
    <3> HIDE DEF b, new
    <3>2. b \in 2..made' /\ \A n \in 2..made : n \in 2..made'
      BY <1>5, <1>8, <1>10, <2>1, Numbers
    <3> QED BY <1>4, <1>5, <1>10, <3>1, <3>2, Numbers DEF RouteType
  <2>2. CASE ~new
    <3>1. routes' = routes /\ made' = made
      BY <1>2, <2>2
    <3> QED BY <1>5, <3>1 DEF RouteType
  <2> QED BY <2>1, <2>2
<1>12. MadeInv'
  <2>1. CASE new
    <3>1. routes' = [routes EXCEPT ![route] = b] /\ routes[route] = NoRoute /\ (made' = made \/ made' = made + 1)
      BY <1>2, <2>1
    <3>2. b # NoRoute
      <4> HIDE DEF b, new
      <4> QED BY <1>8, <2>1 DEF NoRoute
    <3> HIDE DEF b, new
    <3>3. made + 1 <= 2 + Cardinality({r \in Routes : routes'[r] # NoRoute})
      BY <1>1, <1>4, <3>1, <3>2, RoomForBucket
    <3>4. Cardinality({r \in Routes : routes'[r] # NoRoute}) \in Nat
      BY Numbers, FS_Subset, FS_CardinalityType
    <3> QED BY <1>5, <3>1, <3>3, <3>4 DEF MadeInv
  <2>2. CASE ~new
    <3>1. routes' = routes /\ made' = made
      BY <1>2, <2>2
    <3> QED BY <1>1, <3>1 DEF MadeInv
  <2> QED BY <2>1, <2>2
<1> HIDE DEF b, new
\* A bucket that is made was empty.
<1>13. /\ opened \in [Buckets -> BucketType]
       /\ \A d \in Buckets : /\ Elems(opened[d].waitq) = Waiting[d] /\ Elems(opened[d].busyq) = Sent[d]
                             /\ Distinct(opened[d].waitq) /\ Distinct(opened[d].busyq)
                             /\ opened[d].freeze => bucket[d].freeze
       /\ old = NullBucket => opened[NullBucket] = bucket[NullBucket]
  <2>1. /\ bucket \in [Buckets -> BucketType]
        /\ \A d \in Buckets : /\ Elems(bucket[d].waitq) = Waiting[d] /\ Elems(bucket[d].busyq) = Sent[d]
                              /\ Distinct(bucket[d].waitq) /\ Distinct(bucket[d].busyq)
    BY <1>1 DEF TypeInv, BuckType, QueueInv, Waiting, Sent
  <2>2. CASE new /\ a.named
    <3> DEFINE e == NewBucket(HashOf[route])
    <3>1. opened = [bucket EXCEPT ![b] = e] /\ b = made + 1 /\ b # NullBucket
      BY <1>10, <2>2
    <3>2. HashOf[route] \in Hashes \cup {NoHash}
      BY <1>4, RequestsAssumption
    <3>3. /\ e \in BucketType /\ e.waitq = <<>> /\ e.busyq = <<>> /\ e.freeze = FALSE
      BY <3>2 DEF NewBucket, BucketType, Past
    <3> HIDE DEF e, opened
    <3>4. Waiting[b] = {} /\ Sent[b] = {}
      <4>1. \A f \in Waiting[b] \cup Sent[b] : f \in Known /\ cxt[f].bucket = b /\ cxt[f].bucket <= made
        BY <1>1, <1>10 DEF PlaceInv
      <4> QED BY <1>5, <3>1, <4>1
    <3>5. /\ opened \in [Buckets -> BucketType] /\ opened[b] = e
          /\ \A d \in Buckets : d # b => opened[d] = bucket[d]
      BY <1>10, <2>1, <3>1, <3>3
    <3>6. opened[NullBucket] = bucket[NullBucket]
      BY <3>1, <3>5, Numbers
    <3>7. ASSUME NEW d \in Buckets
          PROVE  /\ Elems(opened[d].waitq) = Waiting[d] /\ Elems(opened[d].busyq) = Sent[d]
                 /\ Distinct(opened[d].waitq) /\ Distinct(opened[d].busyq)
                 /\ opened[d].freeze => bucket[d].freeze
      <4>1. CASE d = b
        BY <3>3, <3>4, <3>5, <4>1, EmptyElems
      <4>2. CASE d # b
        BY <2>1, <3>5, <4>2
      <4> QED BY <4>1, <4>2
    <3> QED BY <3>5, <3>6, <3>7
  <2>3. CASE ~(new /\ a.named)
    <3>1. opened = bucket
      BY <2>3
    <3> HIDE DEF opened
    <3> QED BY <2>1, <3>1
  <2> QED BY <2>2, <2>3
<1> HIDE DEF opened
<1>14. x \subseteq Waiting[NullBucket] /\ (x # {} => b # NullBucket) /\ x \subseteq Contexts
  BY <1>1, <1>10, Typed, Numbers
<1>15. /\ moved \in [Buckets -> BucketType]
       /\ \A d \in Buckets :
            /\ Elems(moved[d].waitq) = (Waiting[d] \ x) \cup (IF d = b THEN x ELSE {})
            /\ Elems(moved[d].busyq) = Sent[d]
            /\ Distinct(moved[d].waitq) /\ Distinct(moved[d].busyq)
            /\ moved[d].freeze => bucket[d].freeze
       /\ moves = x
  <2>1. CASE built /\ old = NullBucket
    <3> DEFINE fs == Filtered(opened, b, route)
    <3>1. b # NullBucket /\ x = Waiting[NullBucket] \cap Of(route) /\ moved = fs
      BY <1>10, <2>1
    <3>2. \A d \in Buckets : d # NullBucket => Waiting[d] \cap Waiting[NullBucket] = {}
      BY <1>1, Numbers DEF PlaceInv
    <3>3. /\ Distinct(opened[b].waitq) /\ Elems(opened[b].waitq) \cap Waiting[NullBucket] = {}
          /\ opened[NullBucket] = bucket[NullBucket]
      BY <1>10, <1>13, <2>1, <3>1, <3>2
    <3> HIDE DEF x, moved, fs
    <3> DEFINE y == Waiting[NullBucket] \cap Of(route)
    <3>4. /\ fs \in [Buckets -> BucketType]
          /\ \A d \in Buckets : /\ fs[d].busyq = opened[d].busyq /\ fs[d].freeze = opened[d].freeze
                                /\ d # NullBucket /\ d # b => fs[d] = opened[d]
          /\ Elems(fs[NullBucket].waitq) = Waiting[NullBucket] \ y
          /\ Distinct(fs[NullBucket].waitq)
          /\ Elems(fs[b].waitq) = Elems(opened[b].waitq) \cup y /\ Distinct(fs[b].waitq)
      BY <1>1, <1>10, <1>13, <3>1, <3>3, FilteredIs DEF fs
    <3> HIDE DEF y
    <3>5. x = y /\ x \subseteq Waiting[NullBucket]
      BY <1>14, <3>1 DEF y
    <3>6. ASSUME NEW d \in Buckets
          PROVE  /\ Elems(fs[d].waitq) = (Waiting[d] \ x) \cup (IF d = b THEN x ELSE {})
                 /\ Elems(fs[d].busyq) = Sent[d]
                 /\ Distinct(fs[d].waitq) /\ Distinct(fs[d].busyq)
                 /\ fs[d].freeze => bucket[d].freeze
      <4>1. Elems(fs[d].busyq) = Sent[d] /\ Distinct(fs[d].busyq) /\ (fs[d].freeze => bucket[d].freeze)
        BY <1>13, <3>4
      <4>2. CASE d = NullBucket
        BY <3>1, <3>4, <3>5, <4>1, <4>2
      <4>3. CASE d = b
        <5>1. Elems(fs[b].waitq) = Waiting[b] \cup x /\ Waiting[b] \ x = Waiting[b]
          BY <1>13, <3>1, <3>2, <3>4, <3>5, <4>3
        <5> QED BY <3>4, <4>1, <4>3, <5>1
      <4>4. CASE d # NullBucket /\ d # b
        <5>1. fs[d] = opened[d] /\ Waiting[d] \ x = Waiting[d]
          BY <3>2, <3>4, <3>5, <4>4
        <5> QED BY <1>13, <4>1, <4>4, <5>1
      <4> QED BY <4>2, <4>3, <4>4
    <3>7. moves = x
      <4>1. moves = ToSet(fs[b].waitq) \ ToSet(opened[b].waitq)
        BY <2>1, <3>1
      <4>2. fs[b].waitq \in Seq(Contexts) /\ opened[b].waitq \in Seq(Contexts)
        <5>1. fs[b] \in BucketType /\ opened[b] \in BucketType
          BY <1>10, <1>13, <3>4
        <5> QED BY <5>1 DEF BucketType
      <4>3. ToSet(fs[b].waitq) = Elems(fs[b].waitq) /\ ToSet(opened[b].waitq) = Elems(opened[b].waitq)
        BY <4>2, ElemsOfSeq
      <4>4. Elems(opened[b].waitq) = Waiting[b] /\ Waiting[b] \cap x = {}
        BY <1>10, <1>13, <3>1, <3>2, <3>5
      <4> HIDE DEF moves
      <4> QED BY <3>4, <3>5, <4>1, <4>3, <4>4
    <3> HIDE DEF moves
    <3> QED BY <3>1, <3>4, <3>6, <3>7
  <2>2. CASE ~(built /\ old = NullBucket)
    <3>1. moved = opened /\ moves = {} /\ x = {}
      BY <2>2
    <3> HIDE DEF moved, moves, x
    <3> QED BY <1>13, <3>1
  <2> QED BY <2>1, <2>2
<1> HIDE DEF moved, moves, x
<1>16. /\ told \in [Buckets -> BucketType]
       /\ \A d \in Buckets : /\ told[d].waitq = moved[d].waitq /\ told[d].busyq = moved[d].busyq
                             /\ told[d].freeze = moved[d].freeze
  <2>1. CASE built
    <3> DEFINE z == Populated(moved[b], a)
    <3>1. told = [moved EXCEPT ![b] = z]
      BY <2>1
    <3>2. moved[b] \in BucketType
      BY <1>10, <1>15
    <3>3. /\ z \in BucketType /\ z.busyq = moved[b].busyq /\ z.waitq = moved[b].waitq
          /\ z.freeze = moved[b].freeze
      BY <1>4, <3>2, PopulatedIs
    <3> HIDE DEF z, told
    <3>4. told \in [Buckets -> BucketType] /\ told[b] = z /\ \A d \in Buckets : d # b => told[d] = moved[d]
      BY <1>10, <1>15, <3>1, <3>3
    <3> QED BY <3>3, <3>4
  <2>2. CASE ~built
    <3>1. told = moved
      BY <2>2
    <3> HIDE DEF told
    <3> QED BY <1>15, <3>1
  <2> QED BY <2>1, <2>2
<1> HIDE DEF told
<1>17. /\ left \in [Buckets -> BucketType]
       /\ \A d \in Buckets : /\ left[d].waitq = told[d].waitq /\ left[d].freeze = told[d].freeze
                             /\ Elems(left[d].busyq) = Sent[d] \ {c} /\ Distinct(left[d].busyq)
  <2> DEFINE y == told[old]
             q == Only(y.busyq, Contexts \ {c})
             z == [y EXCEPT !.busyq = q]
  <2>1. /\ y \in BucketType /\ y.busyq \in Seq(Contexts) /\ Distinct(y.busyq)
        /\ Elems(y.busyq) = Sent[old] /\ Sent[old] \subseteq Contexts
    <3>1. y \in BucketType
      BY <1>4, <1>16
    <3> HIDE DEF y
    <3>2. y.busyq \in Seq(Contexts)
      BY <3>1 DEF BucketType
    <3> QED BY <1>1, <1>4, <1>15, <1>16, <3>1, <3>2, Typed DEF y
  <2>2. left = [told EXCEPT ![old] = z]
    BY <1>4, <1>16
  <2> HIDE DEF y, left
  <2>3. q \in Seq(Contexts) /\ Elems(q) = Elems(y.busyq) \cap (Contexts \ {c}) /\ Distinct(q)
    BY <2>1, OnlyElems
  <2> HIDE DEF q
  <2>4. z \in BucketType /\ z.busyq = q /\ z.waitq = y.waitq /\ z.freeze = y.freeze
    BY <2>1, <2>3 DEF BucketType
  <2> HIDE DEF z
  <2>5. left \in [Buckets -> BucketType] /\ left[old] = z /\ \A d \in Buckets : d # old => left[d] = told[d]
    BY <1>4, <1>16, <2>2, <2>4
  <2>6. ASSUME NEW d \in Buckets
        PROVE  /\ left[d].waitq = told[d].waitq /\ left[d].freeze = told[d].freeze
               /\ Elems(left[d].busyq) = Sent[d] \ {c} /\ Distinct(left[d].busyq)
    <3>1. CASE d = old
      <4>1. Elems(q) = Sent[old] \ {c}
        BY <2>1, <2>3
      <4> QED BY <2>3, <2>4, <2>5, <3>1, <4>1 DEF y
    <3>2. CASE d # old
      <4>1. Sent[d] = Sent[d] \ {c}
        BY <1>4, <3>2
      <4> QED BY <1>15, <1>16, <2>5, <3>2, <4>1
    <3> QED BY <3>1, <3>2
  <2> QED BY <2>5, <2>6
<1> HIDE DEF left
<1>18. c \notin x /\ \A d \in Buckets : c \notin Elems(left[d].waitq)
  <2>1. c \notin x
    BY <1>4, <1>14, Numbers
  <2> QED BY <1>4, <1>15, <1>16, <1>17, <2>1
<1>19. /\ bucket' \in [Buckets -> BucketType]
       /\ \A d \in Buckets :
            /\ Distinct(bucket'[d].waitq) /\ Distinct(bucket'[d].busyq)
            /\ bucket'[d].freeze => bucket[d].freeze \/ (timed /\ d = old)
            /\ Elems(bucket'[d].busyq) = Sent[d] \ {c}
            /\ Elems(bucket'[d].waitq) = (Waiting[d] \ x) \cup (IF d = b THEN x ELSE {})
                                              \cup (IF back /\ d = old THEN {c} ELSE {})
  <2> DEFINE y == left[old]
             z == Placed(y, c, a)
  <2>1. y \in BucketType /\ Distinct(y.waitq) /\ c \notin Elems(y.waitq)
    BY <1>4, <1>15, <1>16, <1>17, <1>18
  <2> HIDE DEF y
  <2>2. /\ z \in BucketType /\ z.busyq = y.busyq /\ Distinct(z.waitq)
        /\ z.freeze = (y.freeze \/ timed)
        /\ Elems(z.waitq) = Elems(y.waitq) \cup (IF back THEN {c} ELSE {})
    BY <1>4, <2>1, PlacedIs
  <2>3. bucket' = [left EXCEPT ![old] = z]
    BY <1>2 DEF y
  <2> HIDE DEF z, timed, back
  <2>4. bucket' \in [Buckets -> BucketType] /\ bucket'[old] = z /\ \A d \in Buckets : d # old => bucket'[d] = left[d]
    BY <1>4, <1>17, <2>2, <2>3
  <2>5. \A d \in Buckets :
          /\ Elems(left[d].waitq) = (Waiting[d] \ x) \cup (IF d = b THEN x ELSE {})
          /\ Distinct(left[d].waitq) /\ (left[d].freeze => bucket[d].freeze)
    BY <1>15, <1>16, <1>17
  <2>6. ASSUME NEW d \in Buckets
        PROVE  /\ Distinct(bucket'[d].waitq) /\ Distinct(bucket'[d].busyq)
               /\ bucket'[d].freeze => bucket[d].freeze \/ (timed /\ d = old)
               /\ Elems(bucket'[d].busyq) = Sent[d] \ {c}
               /\ Elems(bucket'[d].waitq) = (Waiting[d] \ x) \cup (IF d = b THEN x ELSE {})
                                              \cup (IF back /\ d = old THEN {c} ELSE {})
    <3>1. CASE d = old
      BY <1>17, <2>2, <2>4, <2>5, <3>1 DEF y
    <3>2. CASE d # old
      BY <1>17, <2>4, <2>5, <3>2
    <3> QED BY <3>1, <3>2
  <2> QED BY <2>4, <2>6
<1>20. \A d \in Buckets : Sent'[d] = Elems(bucket'[d].busyq) /\ Waiting'[d] = Elems(bucket'[d].waitq)
  BY DEF Sent, Waiting
<1>21. Answered(b, x)
  BY <1>3, <1>10, <1>14, <1>15, <1>19, <1>20 DEF Answered, c, a, old
<1> QED BY <1>10, <1>11, <1>12, <1>14, <1>21

\* What the log says of the request whose answer is evaluated.
LEMMA CheckActionLog ==
  ASSUME RequestInv, CheckAction
  PROVE  LET req   == cxt[msg.cxt].req
             again == Retried(msg.cxt, msg.answer)
         IN  /\ log' \in Seq(LogType) /\ Len(log') = Len(log) /\ DOMAIN log' = 1..Len(log)
             /\ \A r \in 1..Len(log) :
                  /\ log'[r].sends = log[r].sends /\ log'[r].done = log[r].done
                  /\ log'[r].fail = log[r].fail
                  /\ r # req => log'[r] = log[r]
             /\ again => log'[req] = log[req]
             /\ ~again => log'[req].state # "live"
<1> DEFINE a     == msg.answer
           over  == IF a.kind \in {"ok", "refused", "failed"} THEN "ended" ELSE "gave_up"
           req   == cxt[msg.cxt].req
           again == Retried(msg.cxt, a)
<1>1. TypeInv /\ pc = "callback"
  BY DEF RequestInv, CheckAction
<1>2. log' = IF again THEN log ELSE [log EXCEPT ![req].state = over]
  BY DEF CheckAction
<1>3. req \in 1..Len(log)
  BY <1>1, AnsweredOne
<1> HIDE DEF a, req, again
<1>4. log \in Seq(LogType) /\ DOMAIN log = 1..Len(log)
  BY <1>1, Typed DEF TypeInv, LogInType
<1>5. CASE again
  BY <1>2, <1>3, <1>4, <1>5 DEF req, again, a
<1>6. CASE ~again
  <2> DEFINE y == log[req]
             z == [y EXCEPT !.state = over]
  <2>1. y \in LogType /\ over \in States /\ over # "live"
    BY <1>1, <1>3, Typed DEF States
  <2>2. log' = [log EXCEPT ![req] = z]
    BY <1>2, <1>6
  <2> HIDE DEF y, over
  <2>3. /\ z \in LogType /\ z.sends = y.sends /\ z.done = y.done /\ z.fail = y.fail /\ z.state = over
    BY <2>1 DEF LogType
  <2> HIDE DEF z
  <2>4. /\ log' \in Seq(LogType) /\ Len(log') = Len(log) /\ DOMAIN log' = 1..Len(log)
        /\ log'[req] = z /\ \A r \in 1..Len(log) : r # req => log'[r] = log[r]
    BY <1>3, <1>4, <2>2, <2>3
  <2> QED BY <1>6, <2>1, <2>3, <2>4 DEF y, req, again, a
<1> QED BY <1>5, <1>6

LEMMA CheckActionInv == RequestInv /\ CheckAction => RequestInv'
<1> SUFFICES ASSUME RequestInv, CheckAction PROVE RequestInv'
  OBVIOUS
<1> DEFINE c     == msg.cxt
           a     == msg.answer
           old   == cxt[c].bucket
           again == Retried(c, a)
           timed == again /\ RetryAt(a) # 0
           back  == again /\ RetryAt(a) = 0
           req   == cxt[c].req
<1>1. TypeInv /\ PlaceInv /\ QueueInv
  BY DEF RequestInv
<1>2. /\ pc = "callback" /\ pc' = "transfers" /\ msg' = NoMsg
      /\ timeouts' = IF timed THEN timeouts \cup {c} ELSE timeouts
      /\ idleq' = IF again THEN idleq ELSE Append(idleq, c)
      /\ conns' = IF again THEN conns ELSE conns - 1
      /\ wait' = a.after \/ wait' = wait
      /\ UNCHANGED <<allocated, stops>>
  BY DEF CheckAction
<1>3. /\ c \in Contexts /\ a \in AnswerType
      /\ cxt[c] \in ContextType /\ old \in Buckets
      /\ c \in Sent[old] /\ c \in Live /\ c \in Known /\ c \notin Free /\ c \notin timeouts
      /\ old <= made
      /\ \A d \in Buckets : c \notin Waiting[d] /\ (c \in Sent[d] => d = old)
      /\ req \in 1..Len(log) /\ log[req].state = "live"
  BY <1>1, <1>2, AnsweredOne
<1>4. RouteType' /\ MadeInv' /\ made' >= made
  BY CheckActionIs
<1>5. PICK b \in Buckets, x \in SUBSET Contexts : Answered(b, x)
  BY CheckActionIs
<1>6. /\ x \subseteq Waiting[NullBucket] /\ (x # {} => b # NullBucket)
      /\ b <= made' /\ bucket' \in [Buckets -> BucketType]
      /\ \A d \in Buckets :
           /\ Distinct(bucket'[d].waitq) /\ Distinct(bucket'[d].busyq)
           /\ bucket'[d].freeze => bucket[d].freeze \/ (timed /\ d = old)
           /\ Sent'[d] = Sent[d] \ {c}
           /\ Waiting'[d] = (Waiting[d] \ x) \cup (IF d = b THEN x ELSE {})
                                             \cup (IF back /\ d = old THEN {c} ELSE {})
  BY <1>5 DEF Answered
<1>7. cxt' = [d \in Contexts |->
          IF d = c THEN IF again THEN [cxt[c] EXCEPT !.attempt = cxt[c].attempt + 1, !.timeout = RetryAt(a)]
                                 ELSE Recycled(cxt[c])
          ELSE IF d \in x THEN [cxt[d] EXCEPT !.bucket = b] ELSE cxt[d]]
  BY <1>5 DEF Answered
<1>8. RetryAt(a) \in Int /\ wait' \in Stamps
  <2>1. a.retry_after \in Nat /\ a.after \in Stamps
    BY <1>3 DEF AnswerType
  <2>2. wait \in Stamps
    BY <1>1 DEF TypeInv, CountType
  <2>3. RetryAt(a) = IF a.kind = "limited" THEN a.retry_after
                     ELSE IF a.kind = "limited_globally" THEN wait ELSE 0
    BY DEF RetryAt
  <2> QED BY <1>2, <2>1, <2>2, <2>3 DEF Stamps
<1>9. again => cxt[c].attempt < RetryLimit /\ a.kind # "ok"
  BY DEF Retried
<1> HIDE DEF a
<1>10. c \notin x /\ \A d \in x : d \in Known /\ d \notin Free /\ d \notin timeouts
                                 /\ cxt[d].bucket = NullBucket /\ d \notin Sent[NullBucket]
  BY <1>1, <1>3, <1>6, Numbers DEF PlaceInv
<1>11. ASSUME NEW d \in Contexts
       PROVE  /\ cxt'[d] \in ContextType /\ cxt'[d].req = cxt[d].req
              /\ cxt'[d].bucket = IF d \in x THEN b ELSE cxt[d].bucket
              /\ cxt'[d].attempt = IF d # c THEN cxt[d].attempt
                                   ELSE IF again THEN cxt[d].attempt + 1 ELSE 0
  <2> DEFINE y == cxt[d]
             n == y.attempt + 1
             t == RetryAt(a)
  <2>1. y \in ContextType /\ y.attempt \in Nat /\ RetryLimit \in Nat
    BY <1>1, Typed, Numbers
  <2>2. CASE d = c /\ again
    <3>1. cxt'[d] = [y EXCEPT !.attempt = n, !.timeout = t]
      BY <1>7, <2>2
    <3>2. n \in 0..RetryLimit /\ t \in Int
      BY <1>8, <1>9, <2>1, <2>2
    <3> HIDE DEF y, n, t
    <3>3. cxt'[d] \in ContextType /\ cxt'[d].req = y.req /\ cxt'[d].bucket = y.bucket /\ cxt'[d].attempt = n
      BY <2>1, <3>1, <3>2 DEF ContextType
    <3> QED BY <1>10, <2>2, <3>3 DEF y, n
  <2>3. CASE d = c /\ ~again
    <3>1. cxt'[d] = [y EXCEPT !.timeout = Past, !.attempt = 0]
      BY <1>7, <2>3 DEF Recycled
    <3> DEFINE zero == 0
               past == Past
    <3>2. zero \in 0..RetryLimit /\ past \in Int /\ cxt'[d] = [y EXCEPT !.timeout = past, !.attempt = zero]
      BY <2>1, <3>1 DEF Past
    <3> HIDE DEF y, zero, past
    <3>3. /\ cxt'[d] \in ContextType /\ cxt'[d].req = y.req /\ cxt'[d].bucket = y.bucket
          /\ cxt'[d].attempt = zero
      BY <2>1, <3>2 DEF ContextType
    <3> QED BY <1>10, <2>3, <3>3 DEF y, zero
  <2>4. CASE d # c /\ d \in x
    <3>1. cxt'[d] = [y EXCEPT !.bucket = b]
      BY <1>7, <2>4
    <3> HIDE DEF y
    <3>2. cxt'[d] \in ContextType /\ cxt'[d].req = y.req /\ cxt'[d].bucket = b /\ cxt'[d].attempt = y.attempt
      BY <2>1, <3>1 DEF ContextType
    <3> QED BY <2>4, <3>2 DEF y
  <2>5. CASE d # c /\ d \notin x
    <3>1. cxt'[d] = y
      BY <1>7, <2>5
    <3> QED BY <2>1, <2>5, <3>1
  <2> QED BY <2>2, <2>3, <2>4, <2>5
<1> HIDE DEF c, old, again, req
<1>12. /\ idleq' \in Seq(Contexts) /\ Distinct(idleq')
       /\ Free' = Free \cup (IF again THEN {} ELSE {c})
  <2>1. idleq \in Seq(Contexts) /\ Distinct(idleq) /\ Free = Elems(idleq) /\ Free' = Elems(idleq')
    BY <1>1 DEF TypeInv, ListType, QueueInv, Free
  <2>2. /\ Elems(Append(idleq, c)) = Elems(idleq) \cup {c} /\ Distinct(Append(idleq, c))
        /\ Append(idleq, c) \in Seq(Contexts)
    BY <1>3, <2>1, AppendElems
  <2> QED BY <1>2, <2>1, <2>2
<1>13. Known' = Known /\ Known \subseteq Contexts /\ Live' = Live \ (IF again THEN {} ELSE {c})
  BY <1>1, <1>2, <1>12, Typed DEF Known, Live
<1>14. /\ log' \in Seq(LogType) /\ Len(log') = Len(log) /\ DOMAIN log' = 1..Len(log)
       /\ \A r \in 1..Len(log) :
            /\ log'[r].sends = log[r].sends /\ log'[r].done = log[r].done
            /\ r # req => log'[r] = log[r]
       /\ again => log'[req] = log[req]
       /\ ~again => log'[req].state # "live"
  BY CheckActionLog DEF c, a, req, again
<1>15. /\ InFlight' \subseteq InFlight \ {c} /\ conns' \in Nat /\ Cardinality(InFlight') <= conns'
  <2>1. /\ IsFiniteSet(InFlight) /\ c \in InFlight /\ Cardinality(InFlight) \in Nat
        /\ \A d \in Buckets : \A e \in Sent[d] : e \in InFlight
    BY <1>1, <1>3, InFlightIs
  <2>2. Cardinality(InFlight) <= conns /\ conns \in Nat
    BY <1>1 DEF RequestInv, ConnInv, TypeInv, CountType
  <2>3. InFlight' \subseteq InFlight \ {c}
    <3>1. \A d \in 1..made' : d \in Buckets
      BY <1>4, Numbers DEF RouteType
    <3>2. \A d \in 1..made' : Sent'[d] \subseteq InFlight \ {c}
      BY <1>6, <2>1, <3>1
    <3>3. InFlight' = UNION {Sent'[d] : d \in 1..made'}
      BY DEF InFlight
    <3> QED BY <3>2, <3>3
  <2>4. Cardinality(InFlight \ {c}) = Cardinality(InFlight) - 1 /\ IsFiniteSet(InFlight \ {c})
    BY <2>1, FS_RemoveElement
  <2>5. Cardinality(InFlight') <= Cardinality(InFlight \ {c}) /\ IsFiniteSet(InFlight')
    BY <2>3, <2>4, FS_Subset
  <2>6. Cardinality(InFlight') \in Nat
    BY <2>5, FS_CardinalityType
  <2>7. Cardinality(InFlight \ {c}) \in Nat
    BY <2>4, FS_CardinalityType
  <2> QED BY <1>2, <2>1, <2>2, <2>3, <2>4, <2>5, <2>6, <2>7
<1>16. TypeInv'
  <2>1. CxtType'
    <3>1. cxt' = [d \in Contexts |-> cxt'[d]]
      BY <1>7
    <3> QED BY <1>11, <3>1 DEF CxtType
  <2>2. BuckType' /\ LogInType' /\ ListType'
    BY <1>1, <1>2, <1>3, <1>6, <1>12, <1>14 DEF TypeInv, BuckType, LogInType, ListType
  <2>3. CountType'
    BY <1>1, <1>2, <1>8, <1>14, <1>15 DEF TypeInv, CountType
  <2>4. PcType'
    BY <1>2 DEF PcType
  <2> QED BY <1>4, <2>1, <2>2, <2>3, <2>4 DEF TypeInv
<1>17. QueueInv'
  BY <1>6, <1>12 DEF QueueInv
<1>18. PlaceInv'
  <2>1. \A d \in Buckets :
          /\ Waiting'[d] \cap Sent'[d] = {}
          /\ \A e \in Waiting'[d] \cup Sent'[d] :
               e \in Known' /\ e \notin Free' /\ e \notin timeouts' /\ cxt'[e].bucket = d
    <3> TAKE d \in Buckets
    <3>1. /\ Sent'[d] = Sent[d] \ {c}
          /\ Waiting'[d] = (Waiting[d] \ x) \cup (IF d = b THEN x ELSE {})
                                             \cup (IF back /\ d = old THEN {c} ELSE {})
      BY <1>6
    <3>2. /\ Waiting[d] \cap Sent[d] = {}
          /\ \A e \in Waiting[d] \cup Sent[d] :
               e \in Known /\ e \notin Free /\ e \notin timeouts /\ cxt[e].bucket = d
      BY <1>1 DEF PlaceInv
    <3>3. d = b => x \cap Sent[d] = {}
      BY <1>6, <1>10, <3>2
    <3>4. Waiting'[d] \cap Sent'[d] = {}
      BY <3>1, <3>2, <3>3
    <3>5. \A e \in (Waiting[d] \ x) \cup (Sent[d] \ {c}) :
             e \in Known' /\ e \notin Free' /\ e \notin timeouts' /\ cxt'[e].bucket = d
      <4> TAKE e \in (Waiting[d] \ x) \cup (Sent[d] \ {c})
      <4>1. e \in Known /\ e \notin Free /\ e \notin timeouts /\ cxt[e].bucket = d /\ e \in Contexts
        BY <1>13, <3>2
      <4>2. e # c
        BY <1>3
      <4>3. e \notin x
        BY <1>6, <1>10, <3>2, <4>1
      <4> QED BY <1>2, <1>11, <1>12, <1>13, <4>1, <4>2, <4>3
    <3>6. d = b => \A e \in x :
             e \in Known' /\ e \notin Free' /\ e \notin timeouts' /\ cxt'[e].bucket = d
      BY <1>2, <1>10, <1>11, <1>12, <1>13
    <3>7. back /\ d = old =>
             c \in Known' /\ c \notin Free' /\ c \notin timeouts' /\ cxt'[c].bucket = d
      BY <1>2, <1>3, <1>10, <1>11, <1>12, <1>13 DEF old
    <3> HIDE DEF back
    <3> QED BY <3>1, <3>4, <3>5, <3>6, <3>7
  <2>2. \A e \in Known' :
          /\ cxt'[e].bucket <= made'
          /\ e \in Free' \cup timeouts' \cup Waiting'[cxt'[e].bucket] \cup Sent'[cxt'[e].bucket]
    <3> TAKE e \in Known'
    <3> DEFINE d == cxt[e].bucket
    <3>1. /\ e \in Contexts /\ d <= made /\ d \in Buckets
          /\ e \in Free \cup timeouts \cup Waiting[d] \cup Sent[d]
      BY <1>1, <1>13, Typed DEF PlaceInv
    <3>2. d <= made'
      BY <1>1, <1>4, <3>1, Numbers DEF TypeInv, RouteType
    <3>3. CASE e = c
      <4>1. d = old /\ cxt'[e].bucket = old
        BY <1>10, <1>11, <3>1, <3>3 DEF old
      <4>2. ~again => e \in Free'
        BY <1>12, <3>3
      <4>3. timed => e \in timeouts'
        BY <1>2, <3>3
      <4>4. back => e \in Waiting'[old]
        BY <1>3, <1>6, <3>3
      <4> QED BY <3>2, <4>1, <4>2, <4>3, <4>4
    <3>4. CASE e # c /\ e \in x
      <4>1. cxt'[e].bucket = b /\ e \in Waiting'[b]
        BY <1>6, <1>11, <3>1, <3>4
      <4> QED BY <1>6, <4>1
    <3>5. CASE e # c /\ e \notin x
      <4>1. cxt'[e].bucket = d
        BY <1>11, <3>1, <3>5
      <4>2. e \in Free' \cup timeouts' \cup Waiting'[d] \cup Sent'[d]
        BY <1>2, <1>6, <1>12, <3>1, <3>5
      <4> QED BY <3>2, <4>1, <4>2
    <3> QED BY <3>3, <3>4, <3>5
  <2>3. Free' \subseteq Known' /\ timeouts' \subseteq Known' /\ Free' \cap timeouts' = {}
    BY <1>1, <1>2, <1>3, <1>12, <1>13 DEF PlaceInv
  <2> QED BY <2>1, <2>2, <2>3 DEF PlaceInv
<1>19. FrozenHasTimer'
  <2> SUFFICES ASSUME NEW d \in Buckets, bucket'[d].freeze
               PROVE  \E e \in timeouts' : cxt'[e].bucket = d
    BY DEF FrozenHasTimer
  <2>1. CASE timed /\ d = old
    <3>1. c \in timeouts' /\ cxt'[c].bucket = d
      BY <1>2, <1>3, <1>10, <1>11, <2>1 DEF old
    <3> QED BY <3>1
  <2>2. CASE bucket[d].freeze
    <3>1. PICK e \in timeouts : cxt[e].bucket = d
      BY <2>2 DEF RequestInv, FrozenHasTimer
    <3>2. e \in Contexts /\ e \notin x
      BY <1>1, <1>10 DEF TypeInv, ListType
    <3> QED BY <1>2, <1>11, <3>1, <3>2
  <2> QED BY <1>6, <2>1, <2>2
<1>20. MsgInv' /\ ConnInv'
  BY <1>2, <1>15 DEF MsgInv, ConnInv
<1>21. LogInv'
  <2>1. LogInv
    BY DEF RequestInv
  <2>2. ASSUME NEW e \in Live'
        PROVE  /\ cxt'[e].req \in 1..Len(log') /\ log'[cxt'[e].req].state = "live"
               /\ log'[cxt'[e].req].sends <=
                    cxt'[e].attempt + (IF e \in Sent'[cxt'[e].bucket] THEN 1 ELSE 0)
    <3> DEFINE r == cxt[e].req
               d == cxt[e].bucket
    <3>1. /\ e \in Live /\ e \in Contexts /\ r \in 1..Len(log) /\ log[r].state = "live"
          /\ log[r].sends <= cxt[e].attempt + (IF e \in Sent[d] THEN 1 ELSE 0)
          /\ d \in Buckets /\ cxt[e].attempt \in Nat /\ log[r].sends \in Nat
          /\ e = c => again
      BY <1>1, <1>13, <2>1, Typed, Numbers DEF LogInv, Live
    <3>2. e # c => r # req
      BY <1>3, <2>1, <3>1 DEF LogInv, req
    <3>3. /\ cxt'[e].req = r /\ log'[r].state = "live" /\ log'[r].sends = log[r].sends
      BY <1>11, <1>14, <3>1, <3>2 DEF req
    <3>4. log[r].sends <= cxt'[e].attempt + (IF e \in Sent'[cxt'[e].bucket] THEN 1 ELSE 0)
      <4>1. CASE e = c
        <5>1. cxt'[e].attempt = cxt[e].attempt + 1
          BY <1>11, <3>1, <4>1
        <5> HIDE DEF r, d
        <5> QED BY <3>1, <5>1
      <4>2. CASE e # c /\ e \in x
        <5>1. cxt'[e].attempt = cxt[e].attempt /\ e \notin Sent[d]
          BY <1>10, <1>11, <3>1, <4>2
        <5> HIDE DEF r, d
        <5> QED BY <3>1, <5>1
      <4>3. CASE e # c /\ e \notin x
        <5>1. cxt'[e].attempt = cxt[e].attempt /\ cxt'[e].bucket = d /\ (e \in Sent'[d] <=> e \in Sent[d])
          BY <1>6, <1>11, <3>1, <4>3
        <5> HIDE DEF r, d
        <5> QED BY <3>1, <5>1
      <4> QED BY <4>1, <4>2, <4>3
    <3> QED BY <1>14, <3>1, <3>3, <3>4
  <2>3. \A d, e \in Live' : cxt'[d].req = cxt'[e].req => d = e
    <3>1. \A d \in Live' : d \in Live /\ d \in Contexts /\ cxt'[d].req = cxt[d].req
      BY <1>11, <1>13 DEF Live
    <3> QED BY <2>1, <3>1 DEF LogInv
  <2>4. AttemptsBounded'
    <3>1. \A r \in 1..Len(log) : log[r].sends <= RetryLimit + 1
      BY <1>1, <2>1, Typed DEF LogInv, AttemptsBounded
    <3> QED BY <1>14, <3>1 DEF AttemptsBounded
  <2> QED BY <2>2, <2>3, <2>4 DEF LogInv
<1>22. DoneInv'
  <2>1. \A r \in 1..Len(log) :
          /\ log[r].done <= 1
          /\ log[r].done = 1 /\ log[r].state = "live" => a.kind = "ok" /\ req = r
    BY DEF RequestInv, DoneInv, a, req, c
  <2>2. \A r \in 1..Len(log) : log'[r].done <= 1 /\ (log'[r].done = 1 => log'[r].state # "live")
    <3> TAKE r \in 1..Len(log)
    <3>1. CASE r = req
      BY <1>9, <1>14, <2>1, <3>1
    <3>2. CASE r # req
      BY <1>14, <2>1, <3>2
    <3> QED BY <3>1, <3>2
  <2> QED BY <1>14, <2>2 DEF DoneInv
<1> QED BY <1>4, <1>16, <1>17, <1>18, <1>19, <1>20, <1>21, <1>22 DEF RequestInv

-----------------------------------------------------------------------------
(* Theorems *)

\* Every step keeps the invariant.
LEMMA StepInv == RequestInv /\ [Next]_vars => RequestInv'
<1> SUFFICES ASSUME RequestInv, [Next]_vars PROVE RequestInv'
  OBVIOUS
<1>1. stops \in Nat
  BY DEF RequestInv, TypeInv, CountType
<1>2. ASSUME NEW route \in Routes, NEW high \in Priorities, Enqueue(route, high) PROVE RequestInv'
  BY <1>2, EnqueueInv
<1>3. CASE StopAll
  BY <1>3, StopAllInv
<1>4. CASE Tick
  BY <1>4, TickInv
<1>5. CASE Perform \/ TimeoutsChecked \/ Performed
  BY <1>1, <1>5, QuietInv DEF Perform, TimeoutsChecked, Performed
<1>6. ASSUME NEW c \in Contexts, CheckTimeouts(c) PROVE RequestInv'
  BY <1>6, CheckTimeoutsInv
<1>7. CASE CheckPending
  BY <1>7, CheckPendingInv
<1>8. ASSUME NEW c \in Contexts, ReadAny(c) PROVE RequestInv'
  BY <1>8, ReadInv DEF ReadAny
<1>9. CASE CheckAction
  BY <1>9, CheckActionInv
<1>10. CASE UNCHANGED vars
  <2>1. TypeInv'
    BY <1>10 DEF vars, RequestInv, TypeInv, PcType, CxtType, BuckType, LogInType, ListType,
                 CountType, RouteType
  <2>2. MadeInv' /\ QueueInv' /\ PlaceInv' /\ FrozenHasTimer' /\ MsgInv' /\ ConnInv' /\ LogInv' /\ DoneInv'
    BY <1>10 DEF vars, RequestInv, MadeInv, QueueInv, PlaceInv, FrozenHasTimer, MsgInv, ConnInv,
                 LogInv, DoneInv, AttemptsBounded, InFlight, Live, Known, Free, Sent, Waiting
  <2> QED BY <2>1, <2>2 DEF RequestInv
<1> QED BY <1>2, <1>3, <1>4, <1>5, <1>6, <1>7, <1>8, <1>9, <1>10 DEF Next, Turn, User

THEOREM RequestInvariant == Spec => []RequestInv
<1>1. Init => RequestInv
  BY InitInv
<1>2. RequestInv /\ [Next]_vars => RequestInv'
  BY StepInv
<1> QED BY <1>1, <1>2, PTL DEF Spec

\* The variables keep their types, the request whose user is called back is one that
\* libcurl transferred, and none is sent more often than the limit of retries allows.
THEOREM BoundsAreKept == Spec => []InBounds
<1>1. RequestInv => InBounds
  <2> SUFFICES ASSUME RequestInv PROVE InBounds
    OBVIOUS
  <2>1. TypeInv /\ PlaceInv /\ AttemptsBounded
    BY DEF RequestInv, LogInv
  <2>2. ASSUME pc = "callback" PROVE msg.cxt \in Busy
    <3>1. msg.cxt \in Sent[cxt[msg.cxt].bucket] /\ cxt[msg.cxt].bucket \in Buckets
      BY <2>2, AnsweredOne
    <3> QED BY <2>1, <3>1, InFlightIs
  <2>3. /\ pc \in {"loop", "timeouts", "pending", "transfers", "callback"}
        /\ IF pc = "callback" THEN msg.cxt \in Busy ELSE msg = NoMsg
    BY <2>1, <2>2 DEF TypeInv, PcType
  <2>4. /\ allocated \in 0..MaxRequests /\ made \in Buckets /\ conns \in Nat
        /\ wait \in Int /\ wait >= Past /\ timeouts \subseteq Contexts /\ idleq \in Seq(Contexts)
    BY <2>1, Numbers, Typed DEF TypeInv, CountType, RouteType, ListType, LogInType, Stamps
  <2>5. routes \in [Routes -> Buckets \cup {NoRoute}]
    <3>1. \A b \in 2..made : b \in Buckets
      BY <2>1, Numbers DEF TypeInv, RouteType, Buckets
    <3> QED BY <2>1, <3>1 DEF TypeInv, RouteType
  <2>6. TypeOK
    BY <2>1, <2>3, <2>4, <2>5 DEF TypeOK, TypeInv, CxtType, BuckType, ContextType, BucketType
  <2> QED BY <2>1, <2>6 DEF InBounds
<1> QED BY <1>1, RequestInvariant, PTL

\* How often a context is linked in a queue.
LEMMA TimesIs ==
  ASSUME NEW T, NEW q \in Seq(T), NEW c
  PROVE  /\ c \notin Elems(q) => Times(q, c) = 0
         /\ Distinct(q) /\ c \in Elems(q) => Times(q, c) = 1
<1> DEFINE s == {i \in DOMAIN q : q[i] = c}
<1>1. DOMAIN q = 1..Len(q)
  BY ElemsOfSeq
<1>2. ASSUME c \notin Elems(q) PROVE Times(q, c) = 0
  <2>1. s = {}
    BY <1>1, <1>2 DEF Elems
  <2> QED BY <2>1, FS_EmptySet DEF Times
<1>3. ASSUME Distinct(q), c \in Elems(q) PROVE Times(q, c) = 1
  <2>1. PICK i \in 1..Len(q) : q[i] = c
    BY <1>3 DEF Elems
  <2>2. s = {i}
    BY <1>1, <1>3, <2>1 DEF Distinct
  <2> QED BY <2>2, FS_Singleton DEF Times
<1> QED BY <1>2, <1>3

\* Every context is in one place: idle, timed out, or in one queue of its own bucket; and
\* a bucket that is held back has a timer that thaws it.
THEOREM NoneIsLost == Spec => []NothingIsLost
<1>1. RequestInv => NothingIsLost
  <2> SUFFICES ASSUME RequestInv PROVE NothingIsLost
    OBVIOUS
  <2>1. TypeInv /\ PlaceInv /\ QueueInv /\ FrozenHasTimer
    BY DEF RequestInv
  <2>2. ASSUME NEW c \in Known
        PROVE  LET b == cxt[c].bucket
               IN /\ Times(idleq, c) + Times(bucket[b].waitq, c) + Times(bucket[b].busyq, c)
                       + Cardinality(timeouts \cap {c}) = 1
                  /\ \A d \in Buckets \ {b} : Times(bucket[d].waitq \o bucket[d].busyq, c) = 0
    <3> DEFINE b == cxt[c].bucket
               w == bucket[b].waitq
               s == bucket[b].busyq
    <3>1. /\ c \in Contexts /\ b \in Buckets
          /\ c \in Free \cup timeouts \cup Waiting[b] \cup Sent[b]
      BY <2>1, Typed DEF PlaceInv
    <3>2. /\ c \in Waiting[b] => c \notin Sent[b] /\ c \notin Free /\ c \notin timeouts
          /\ c \in Sent[b] => c \notin Free /\ c \notin timeouts
          /\ c \in Free => c \notin timeouts
          /\ \A d \in Buckets : c \in Waiting[d] \cup Sent[d] => d = b
      BY <2>1, <3>1 DEF PlaceInv
    <3> HIDE DEF b
    <3>3. /\ idleq \in Seq(Contexts) /\ w \in Seq(Contexts) /\ s \in Seq(Contexts)
          /\ Distinct(idleq) /\ Distinct(w) /\ Distinct(s)
          /\ Elems(idleq) = Free /\ Elems(w) = Waiting[b] /\ Elems(s) = Sent[b]
      BY <2>1, <3>1, Typed DEF TypeInv, ListType, QueueInv, Free, Waiting, Sent
    <3> HIDE DEF w, s
    <3>4. /\ Times(idleq, c) = IF c \in Free THEN 1 ELSE 0
          /\ Times(w, c) = IF c \in Waiting[b] THEN 1 ELSE 0
          /\ Times(s, c) = IF c \in Sent[b] THEN 1 ELSE 0
      <4>1. Times(idleq, c) = IF c \in Free THEN 1 ELSE 0
        BY <3>3, TimesIs
      <4>2. Times(w, c) = IF c \in Waiting[b] THEN 1 ELSE 0
        BY <3>3, TimesIs
      <4>3. Times(s, c) = IF c \in Sent[b] THEN 1 ELSE 0
        BY <3>3, TimesIs
      <4> QED BY <4>1, <4>2, <4>3
    <3>5. Cardinality(timeouts \cap {c}) = IF c \in timeouts THEN 1 ELSE 0
      <4>1. timeouts \cap {c} = IF c \in timeouts THEN {c} ELSE {}
        OBVIOUS
      <4> QED BY <4>1, FS_EmptySet, FS_Singleton
    <3>6. Times(idleq, c) + Times(w, c) + Times(s, c) + Cardinality(timeouts \cap {c}) = 1
      BY <3>1, <3>2, <3>4, <3>5
    <3>7. ASSUME NEW d \in Buckets \ {b}
          PROVE  Times(bucket[d].waitq \o bucket[d].busyq, c) = 0
      <4> DEFINE p == bucket[d].waitq
                 q == bucket[d].busyq
      <4>1. p \in Seq(Contexts) /\ q \in Seq(Contexts) /\ c \notin Elems(p) /\ c \notin Elems(q)
        BY <2>1, <3>2, Typed DEF Waiting, Sent
      <4> HIDE DEF p, q
      <4>2. p \o q \in Seq(Contexts) /\ Elems(p \o q) = Elems(p) \cup Elems(q)
        BY <4>1, ConcatElems
      <4>3. Times(p \o q, c) = 0
        BY <4>1, <4>2, TimesIs
      <4> QED BY <4>3 DEF p, q
    <3> QED BY <3>6, <3>7 DEF b, w, s
  <2>3. OnePlace
    BY <2>2 DEF OnePlace, Known
  <2> QED BY <2>1, <2>3 DEF NothingIsLost
<1> QED BY <1>1, RequestInvariant, PTL

-----------------------------------------------------------------------------
(* What a step does not do *)

\* What is added to the queue of busy requests of a bucket.
LEMMA AddedIs ==
  ASSUME TypeInv, TypeInv', NEW b \in Buckets
  PROVE  ToSet(bucket[b].busyq) = Sent[b] /\ ToSet(bucket'[b].busyq) = Sent'[b]
<1>1. bucket[b] \in BucketType /\ bucket'[b] \in BucketType
  BY DEF TypeInv, BuckType
<1>2. bucket[b].busyq \in Seq(Contexts) /\ bucket'[b].busyq \in Seq(Contexts)
  BY <1>1 DEF BucketType
<1>3. /\ ToSet(bucket[b].busyq) = Elems(bucket[b].busyq)
      /\ ToSet(bucket'[b].busyq) = Elems(bucket'[b].busyq)
  BY <1>2, ElemsOfSeq
<1> QED BY <1>3 DEF Sent

LEMMA SameBusy ==
  ASSUME RequestInv, NEW b \in Buckets,
         \/ \E route \in Routes, high \in Priorities : Enqueue(route, high)
         \/ Tick \/ Perform \/ TimeoutsChecked \/ Performed
         \/ \E c \in Contexts : CheckTimeouts(c) \/ ReadAny(c)
         \/ UNCHANGED vars
  PROVE  bucket'[b].busyq = bucket[b].busyq
<1>1. bucket \in [Buckets -> BucketType] /\ bucket[b] \in BucketType
  BY DEF RequestInv, TypeInv, BuckType
<1> DEFINE x == bucket[b]
<1>2. CASE \E route \in Routes, high \in Priorities : Enqueue(route, high)
  <2>1. PICK route \in Routes, high \in Priorities : Enqueue(route, high)
    BY <1>2
  <2> DEFINE d == BucketOf(route)
  <2>2. PICK q : bucket' = [bucket EXCEPT ![d].waitq = q]
    BY <2>1 DEF Enqueue
  <2> HIDE DEF d
  <2>3. bucket'[b] = x \/ bucket'[b] = [x EXCEPT !.waitq = q]
    BY <1>1, <2>2
  <2> HIDE DEF x
  <2>4. bucket'[b].busyq = x.busyq
    BY <1>1, <2>3 DEF BucketType, x
  <2> QED BY <2>4 DEF x
<1>3. CASE Tick
  <2>1. PICK n : bucket'[b] = [x EXCEPT !.reset = n]
    BY <1>3 DEF Tick
  <2> QED BY <1>1, <2>1 DEF BucketType
<1>4. CASE \E c \in Contexts : CheckTimeouts(c)
  <2>1. PICK c \in Contexts : CheckTimeouts(c)
    BY <1>4
  <2> DEFINE d == cxt[c].bucket
  <2>2. bucket' = [bucket EXCEPT ![d] = Unfrozen(bucket[d], c)]
    BY <2>1 DEF CheckTimeouts
  <2> HIDE DEF d
  <2>3. bucket'[b] = x \/ bucket'[b] = Unfrozen(x, c)
    BY <1>1, <2>2
  <2> QED BY <1>1, <2>3 DEF BucketType, Unfrozen
<1>5. CASE Perform \/ TimeoutsChecked \/ Performed \/ UNCHANGED vars
  BY <1>5 DEF Perform, TimeoutsChecked, Performed, vars
<1>6. CASE \E c \in Contexts : ReadAny(c)
  BY <1>6 DEF ReadAny, Read
<1> QED BY <1>2, <1>3, <1>4, <1>5, <1>6

\* What a bucket has in flight was allowed by one look at its window: no request is added
\* to a batch that is still being answered, nor more than remained.
THEOREM BatchesStayWhole == Spec => BatchesAreWhole
<1> DEFINE Whole(b) == LET added == ToSet(bucket'[b].busyq) \ ToSet(bucket[b].busyq)
                       IN added # {} => /\ bucket[b].busyq = <<>>
                                        /\ Cardinality(added) <= Larger(1, bucket[b].remaining)
<1>1. ASSUME RequestInv, RequestInv', [Next]_vars, NEW b \in Buckets
      PROVE  Whole(b)
  <2>1. TypeInv /\ TypeInv'
    BY <1>1 DEF RequestInv
  <2>2. ToSet(bucket[b].busyq) = Sent[b] /\ ToSet(bucket'[b].busyq) = Sent'[b]
    BY <2>1, AddedIs
  <2>3. CASE CheckPending
    <3>1. PICK s \in [Buckets -> SUBSET Contexts], t \in [Buckets -> SUBSET Contexts] : Turned(s, t)
      BY <1>1, <2>3, CheckPendingIs
    <3>2. /\ Sent'[b] = Sent[b] \cup s[b] /\ (s[b] # {} => bucket[b].busyq = <<>>)
          /\ Cardinality(s[b]) <= Larger(1, bucket[b].remaining)
          /\ s[b] \subseteq Waiting[b] /\ Waiting[b] \cap Sent[b] = {}
      BY <1>1, <3>1 DEF Turned, RequestInv, PlaceInv
    <3>3. Sent'[b] \ Sent[b] = s[b]
      BY <3>2
    <3> QED BY <2>2, <3>2, <3>3
  <2>4. CASE CheckAction
    <3>1. PICK d \in Buckets, x \in SUBSET Contexts : Answered(d, x)
      BY <1>1, <2>4, CheckActionIs
    <3>2. Sent'[b] \subseteq Sent[b]
      BY <3>1 DEF Answered
    <3> QED BY <2>2, <3>2
  <2>5. CASE StopAll
    <3>1. bucket'[b] = Stopped(b) /\ bucket[b] \in BucketType
      BY <2>1, <2>5, Typed DEF StopAll
    <3>2. bucket'[b].busyq = <<>>
      BY <3>1 DEF Stopped, BucketType
    <3>3. Sent'[b] = {}
      BY <3>2, EmptyElems DEF Sent
    <3> QED BY <2>2, <3>3
  <2>6. ASSUME bucket'[b].busyq = bucket[b].busyq PROVE Whole(b)
    BY <2>6
  <2> HIDE DEF Whole
  <2>7. CASE \/ \E route \in Routes, high \in Priorities : Enqueue(route, high)
             \/ Tick \/ Perform \/ TimeoutsChecked \/ Performed
             \/ \E c \in Contexts : CheckTimeouts(c) \/ ReadAny(c)
             \/ UNCHANGED vars
    BY <1>1, <2>6, <2>7, SameBusy
  <2> QED BY <1>1, <2>3, <2>4, <2>5, <2>7 DEF Next, Turn, User
<1>2. RequestInv /\ RequestInv' /\ [Next]_vars => [\A b \in Buckets : Whole(b)]_vars
  BY <1>1
<1>3. Spec => [][\A b \in Buckets : Whole(b)]_vars
  BY <1>2, RequestInvariant, PTL DEF Spec
<1> QED BY <1>3 DEF BatchesAreWhole

\* The callback for success runs once at most, and what is over is never called back, sent
\* or revived.
THEOREM OverStaysOver == Spec => OverIsOver
<1> DEFINE Over == \A r \in DOMAIN log :
       /\ log'[r].done <= 1
       /\ log[r].done = 1 /\ log[r].state = "live" =>
            log'[r].sends = log[r].sends /\ log'[r].fail = log[r].fail
       /\ log[r].state # "live" => log'[r] = log[r]
<1>1. ASSUME RequestInv, RequestInv', [Next]_vars
      PROVE  Over
  <2>1. TypeInv /\ TypeInv'
    BY <1>1 DEF RequestInv
  <2>2. /\ DOMAIN log = 1..Len(log) /\ Len(log) \in Nat
        /\ \A r \in 1..Len(log) : log[r].done = 1 /\ log[r].state = "live" => pc = "callback"
        /\ \A r \in 1..Len(log') : log'[r].done <= 1
    BY <1>1, <2>1, Typed DEF RequestInv, DoneInv
  <2>3. ASSUME Len(log') = Len(log),
               \A r \in 1..Len(log) :
                 /\ log[r].done = 1 /\ log[r].state = "live" =>
                      log'[r].sends = log[r].sends /\ log'[r].fail = log[r].fail
                 /\ log[r].state # "live" => log'[r] = log[r]
        PROVE  Over
    BY <2>2, <2>3
  <2>4. CASE \E route \in Routes, high \in Priorities : Enqueue(route, high)
    <3>1. PICK e : log' = Append(log, e)
      BY <2>4 DEF Enqueue
    <3>2. log \in Seq(LogType)
      BY <2>1 DEF TypeInv, LogInType
    <3>3. Len(log') = Len(log) + 1 /\ \A r \in 1..Len(log) : log'[r] = log[r] /\ r \in 1..Len(log) + 1
      BY <3>1, <3>2
    <3> QED BY <2>2, <3>3
  <2>5. CASE StopAll
    <3>1. Len(log') = Len(log) /\ \A r \in 1..Len(log) :
            /\ log'[r].sends = log[r].sends /\ log'[r].fail = log[r].fail
            /\ log[r].state # "live" => log'[r] = log[r]
      BY <2>1, <2>5, StopAllLog
    <3> HIDE DEF Over
    <3> QED BY <2>3, <3>1
  <2>6. CASE CheckPending
    <3>1. PICK s \in [Buckets -> SUBSET Contexts], t \in [Buckets -> SUBSET Contexts] : Turned(s, t)
      BY <1>1, <2>6, CheckPendingIs
    <3> DEFINE sent == UNION {s[b] : b \in Buckets}
    <3>2. pc = "pending" /\ Len(log') = Len(log)
      BY <2>6, <3>1 DEF CheckPending, Turned
    <3>3. \A r \in 1..Len(log) : (\A c \in sent : cxt[c].req # r) => log'[r] = log[r]
      BY <3>1 DEF Turned
    <3>4. \A c \in sent : log[cxt[c].req].state = "live"
      <4> TAKE c \in sent
      <4>1. PICK b \in Buckets : c \in s[b]
        OBVIOUS
      <4>2. c \in Waiting[b]
        BY <3>1, <4>1 DEF Turned
      <4>3. c \in Live
        BY <1>1, <4>2 DEF RequestInv, PlaceInv, Live
      <4> QED BY <1>1, <4>3 DEF RequestInv, LogInv
    <3> HIDE DEF sent
    <3>5. \A r \in 1..Len(log) : log[r].state # "live" => log'[r] = log[r]
      BY <3>3, <3>4
    <3> HIDE DEF Over
    <3> QED BY <2>2, <2>3, <3>2, <3>5
  <2>7. CASE \E c \in Contexts : ReadAny(c)
    <3>1. PICK c \in Contexts : ReadAny(c)
      BY <2>7
    <3>2. PICK a \in Answers(cxt[c].route) : Read(c, a)
      BY <3>1 DEF ReadAny
    <3> DEFINE n == cxt[c].req
    <3>3. /\ Len(log') = Len(log) /\ log[n].state = "live" /\ log[n].done = 0
          /\ \A r \in 1..Len(log) : r # n => log'[r] = log[r]
      BY <1>1, <3>2, ReadLog
    <3> HIDE DEF Over, n
    <3> QED BY <2>3, <3>3
  <2>8. CASE CheckAction
    <3> DEFINE n == cxt[msg.cxt].req
    <3>1. /\ Len(log') = Len(log)
          /\ \A r \in 1..Len(log) :
               /\ log'[r].sends = log[r].sends /\ log'[r].fail = log[r].fail
               /\ r # n => log'[r] = log[r]
      BY <1>1, <2>8, CheckActionLog
    <3>2. log[n].state = "live"
      BY <1>1, <2>8, AnsweredOne DEF CheckAction
    <3> HIDE DEF Over, n
    <3> QED BY <2>3, <3>1, <3>2
  <2>9. ASSUME log' = log PROVE Over
    BY <2>2, <2>9
  <2> HIDE DEF Over
  <2>10. CASE \/ Tick \/ Perform \/ TimeoutsChecked \/ Performed
              \/ \E c \in Contexts : CheckTimeouts(c)
              \/ UNCHANGED vars
    BY <2>9, <2>10 DEF Tick, Perform, TimeoutsChecked, Performed, CheckTimeouts, vars
  <2> QED BY <1>1, <2>4, <2>5, <2>6, <2>7, <2>8, <2>10 DEF Next, Turn, User
<1>2. RequestInv /\ RequestInv' /\ [Next]_vars => [Over]_vars
  BY <1>1
<1>3. Spec => [][Over]_vars
  BY <1>2, RequestInvariant, PTL DEF Spec
<1> QED BY <1>3 DEF OverIsOver

-----------------------------------------------------------------------------
(* The order of the calls *)

\* No element of the queue stands before one that the relation w puts first.
Ordered(q, w) == \A i, j \in 1..Len(q) : i < j => <<q[j], q[i]>> \notin w

Unsent == {c \in Live : log[cxt[c].req].sends = 0}

\* The requests of one route that were never sent, by the order of their calls.
Calls == {p \in Unsent \X Unsent :
            cxt[p[1]].route = cxt[p[2]].route /\ cxt[p[1]].req < cxt[p[2]].req}

\* Requests that were never sent wait in the one queue of their route, in the order
\* of their calls; without global limits no batch is timed out before it is sent.
RoutesKept == \A c \in Live : log[cxt[c].req].route = cxt[c].route
Owned      == \A r \in 1..Len(log) : log[r].state = "live" => \E c \in Live : cxt[c].req = r
Homes      == \A c \in Unsent : c \in Waiting[BucketOf(cxt[c].route)]
InTurn     == \A b \in Buckets : Ordered(bucket[b].waitq, Calls)

OrderInv == wait = Past /\ RoutesKept /\ Owned /\ Homes /\ InTurn /\ SentInOrder

\* What operators on queues do to the order of their elements.
LEMMA OrderedLess ==
  ASSUME NEW q, NEW v, NEW w, Ordered(q, w),
         \A c, d \in Elems(q) : <<c, d>> \in v => <<c, d>> \in w
  PROVE  Ordered(q, v)
<1>1. \A i \in 1..Len(q) : q[i] \in Elems(q)
  BY DEF Elems
<1> QED BY <1>1 DEF Ordered

LEMMA OrderedConcat ==
  ASSUME NEW T, NEW s \in Seq(T), NEW t \in Seq(T), NEW w, Ordered(s, w), Ordered(t, w),
         \A c \in Elems(s), d \in Elems(t) : <<d, c>> \notin w
  PROVE  Ordered(s \o t, w)
<1> DEFINE r == s \o t
           n == Len(s)
<1>1. /\ n \in Nat /\ Len(t) \in Nat /\ Len(r) = n + Len(t)
      /\ \A i \in 1..n : r[i] = s[i] /\ s[i] \in Elems(s)
      /\ \A i \in 1..Len(t) : t[i] \in Elems(t)
  BY DEF Elems
<1>2. \A i \in 1..Len(r) : i > n => i - n \in 1..Len(t) /\ r[i] = t[i - n]
  BY <1>1
<1> HIDE DEF r, n
<1>3. ASSUME NEW i \in 1..Len(r), NEW j \in 1..Len(r), i < j PROVE <<r[j], r[i]>> \notin w
  <2>1. CASE j <= n
    <3>1. i \in 1..n /\ j \in 1..n
      BY <1>1, <1>3, <2>1
    <3> QED BY <1>1, <1>3, <3>1 DEF Ordered, n
  <2>2. CASE i <= n /\ j > n
    <3>1. i \in 1..n
      BY <1>1, <2>2
    <3> QED BY <1>1, <1>2, <2>2, <3>1
  <2>3. CASE i > n
    <3>1. j > n /\ i - n < j - n
      BY <1>1, <1>3, <2>3
    <3>2. /\ i - n \in 1..Len(t) /\ j - n \in 1..Len(t)
          /\ r[i] = t[i - n] /\ r[j] = t[j - n]
      BY <1>2, <2>3, <3>1
    <3> QED BY <3>1, <3>2 DEF Ordered
  <2> QED BY <1>1, <2>1, <2>2, <2>3
<1> QED BY <1>3 DEF Ordered, r

LEMMA OrderedOne == ASSUME NEW e, NEW w PROVE Ordered(<<e>>, w)
  BY DEF Ordered

LEMMA OrderedNone == ASSUME NEW w PROVE Ordered(<<>>, w)
  BY DEF Ordered

LEMMA OrderedCons ==
  ASSUME NEW T, NEW s \in Seq(T), NEW e \in T, NEW w, Ordered(s, w),
         \A d \in Elems(s) : <<d, e>> \notin w
  PROVE  Ordered(<<e>> \o s, w)
<1>1. <<e>> \in Seq(T) /\ Elems(<<e>>) = {e} /\ Ordered(<<e>>, w)
  BY SingleElems, OrderedOne
<1> DEFINE p == <<e>>
<1>2. p \in Seq(T) /\ Ordered(p, w) /\ \A c \in Elems(p), d \in Elems(s) : <<d, c>> \notin w
  BY <1>1
<1> HIDE DEF p
<1>3. Ordered(p \o s, w)
  BY <1>2, OrderedConcat
<1> QED BY <1>3 DEF p

LEMMA OrderedAppend ==
  ASSUME NEW T, NEW s \in Seq(T), NEW e \in T, NEW w, Ordered(s, w),
         \A d \in Elems(s) : <<e, d>> \notin w
  PROVE  Ordered(Append(s, e), w)
<1> DEFINE r == Append(s, e)
           n == Len(s)
<1>1. /\ n \in Nat /\ Len(r) = n + 1 /\ r[n + 1] = e
      /\ \A i \in 1..n : r[i] = s[i] /\ s[i] \in Elems(s)
  BY DEF Elems
<1> HIDE DEF r
<1>2. ASSUME NEW i \in 1..Len(r), NEW j \in 1..Len(r), i < j PROVE <<r[j], r[i]>> \notin w
  <2>1. i \in 1..n /\ (j \in 1..n \/ j = n + 1)
    BY <1>1, <1>2
  <2>2. CASE j \in 1..n
    BY <1>1, <1>2, <2>1, <2>2 DEF Ordered
  <2>3. CASE j = n + 1
    BY <1>1, <2>1, <2>3
  <2> QED BY <2>1, <2>2, <2>3
<1> QED BY <1>2 DEF Ordered, r

LEMMA OrderedSplit ==
  ASSUME NEW T, NEW s \in Seq(T), NEW k \in 0..Len(s), NEW w, Ordered(s, w)
  PROVE  LET p == SubSeq(s, 1, k)
             q == SubSeq(s, k + 1, Len(s))
         IN  /\ Ordered(q, w)
             /\ \A c \in Elems(p), d \in Elems(q) : <<d, c>> \notin w
<1> DEFINE p == SubSeq(s, 1, k)
           q == SubSeq(s, k + 1, Len(s))
           n == Len(s)
<1>1. /\ n \in Nat /\ k \in Nat /\ k <= n /\ Len(p) = k /\ Len(q) = n - k
      /\ \A i \in 1..k : p[i] = s[i]
      /\ \A i \in 1..n - k : q[i] = s[k + i]
  <2>1. /\ n \in Nat /\ k \in Nat /\ k <= n
    OBVIOUS
  <2>2. /\ Len(p) = k /\ Len(q) = n - k
        /\ \A i \in 1..k : p[i] = s[i]
        /\ \A i \in 1..n - k : q[i] = s[k + i]
    BY <2>1
  <2> QED BY <2>1, <2>2
<1> HIDE DEF p, q, n
<1>2. \A i \in 1..k : i \in 1..n
  BY <1>1
<1>3. \A i \in 1..n - k : k + i \in 1..n /\ k + i > k
  BY <1>1
<1>4. Ordered(q, w)
  <2> SUFFICES ASSUME NEW i \in 1..n - k, NEW j \in 1..n - k, i < j PROVE <<q[j], q[i]>> \notin w
    BY <1>1 DEF Ordered
  <2>1. k + i < k + j /\ k + i \in 1..n /\ k + j \in 1..n
    BY <1>1, <1>3
  <2> QED BY <1>1, <2>1 DEF Ordered, n
<1>5. ASSUME NEW c \in Elems(p), NEW d \in Elems(q) PROVE <<d, c>> \notin w
  <2>1. PICK i \in 1..k : c = s[i]
    <3>1. \E i \in 1..Len(p) : c = p[i]
      BY <1>5 DEF Elems
    <3>2. Len(p) = k /\ \A i \in 1..k : p[i] = s[i]
      BY <1>1
    <3> QED BY <3>1, <3>2
  <2>2. PICK j \in 1..n - k : d = s[k + j]
    <3>1. \E j \in 1..Len(q) : d = q[j]
      BY <1>5 DEF Elems
    <3>2. Len(q) = n - k /\ \A j \in 1..n - k : q[j] = s[k + j]
      BY <1>1
    <3> QED BY <3>1, <3>2
  <2>3. i \in 1..n /\ k + j \in 1..n /\ i < k + j
    BY <1>1, <1>2, <1>3
  <2> QED BY <2>1, <2>2, <2>3 DEF Ordered, n
<1> QED BY <1>4, <1>5 DEF p, q

LEMMA OrderedOnly ==
  ASSUME NEW T, NEW q \in Seq(T), NEW S, NEW w, Ordered(q, w)
  PROVE  Ordered(Only(q, S), w)
<1> DEFINE n == Len(q)
<1>1. PICK f : /\ Only(q, S) = f[n] /\ f[0] = <<>>
               /\ \A i \in 1..n : f[i] = IF q[i] \in S THEN Append(f[i - 1], q[i]) ELSE f[i - 1]
  BY OnlyStep
<1> DEFINE Before(k) == {q[i] : i \in 1..k}
           Good(k) == f[k] \in Seq(T) /\ Elems(f[k]) \subseteq Before(k) /\ Ordered(f[k], w)
           P == {k \in Nat : k <= n => Good(k)}
<1>2. n \in Nat /\ \A i \in 1..n : q[i] \in T
  OBVIOUS
<1>3. 0 \in P
  <2>1. <<>> \in Seq(T)
    OBVIOUS
  <2>2. Good(0)
    BY <1>1, <2>1, EmptyElems, OrderedNone
  <2> HIDE DEF Good
  <2> QED BY <2>2
<1>4. ASSUME NEW k \in Nat, k \in P PROVE k + 1 \in P
  <2> SUFFICES ASSUME k + 1 <= n PROVE Good(k + 1)
    OBVIOUS
  <2> DEFINE t == f[k]
             e == q[k + 1]
  <2>1. Good(k)
    BY <1>2, <1>4
  <2>2. k + 1 \in 1..n /\ (k + 1) - 1 = k /\ e \in T
    BY <1>2
  <2>3. f[k + 1] = IF e \in S THEN Append(t, e) ELSE t
    BY <1>1, <2>2
  <2>4. Before(k + 1) = Before(k) \cup {e}
    <3>1. 1..k + 1 = (1..k) \cup {k + 1}
      OBVIOUS
    <3> QED BY <3>1
  <2>5. \A d \in Before(k) : <<e, d>> \notin w
    <3>1. \A i \in 1..k : i \in 1..n /\ i < k + 1
      BY <2>2
    <3> QED BY <2>2, <3>1 DEF Ordered
  <2>6. t \in Seq(T) /\ Elems(t) \subseteq Before(k) /\ Ordered(t, w)
    BY <2>1
  <2> HIDE DEF t, e, Before, n
  <2>7. CASE e \in S
    <3>1. Elems(Append(t, e)) = Elems(t) \cup {e} /\ Append(t, e) \in Seq(T)
      BY <2>2, <2>6, AppendElems
    <3>2. Ordered(Append(t, e), w)
      BY <2>2, <2>5, <2>6, OrderedAppend
    <3> QED BY <2>3, <2>4, <2>6, <2>7, <3>1, <3>2
  <2>8. CASE e \notin S
    BY <2>3, <2>4, <2>6, <2>8
  <2> QED BY <2>7, <2>8
<1>5. Good(n)
  <2> HIDE DEF P
  <2>1. Nat \subseteq P
    BY <1>3, <1>4, SetInduction
  <2>2. n \in P
    BY <1>2, <2>1
  <2> HIDE DEF Good
  <2> QED BY <1>2, <2>2 DEF P
<1> QED BY <1>1, <1>5

LEMMA IsCall ==
  ASSUME NEW c, NEW d
  PROVE  <<c, d>> \in Calls <=>
           c \in Unsent /\ d \in Unsent /\ cxt[c].route = cxt[d].route /\ cxt[c].req < cxt[d].req
  BY DEF Calls

LEMMA IsNextCall ==
  ASSUME NEW c, NEW d
  PROVE  <<c, d>> \in Calls' <=>
           /\ c \in Unsent' /\ d \in Unsent'
           /\ cxt'[c].route = cxt'[d].route /\ cxt'[c].req < cxt'[d].req
  BY DEF Calls

-----------------------------------------------------------------------------
(* The steps *)

\* A request that is sent, timed out or idle is none that was never sent.
LEMMA UnsentIs ==
  ASSUME RequestInv, OrderInv, NEW c \in Unsent
  PROVE  /\ c \in Live /\ c \in Contexts /\ cxt[c].req \in 1..Len(log)
         /\ log[cxt[c].req].state = "live" /\ log[cxt[c].req].sends = 0
         /\ log[cxt[c].req].route = cxt[c].route /\ cxt[c].route \in Routes
         /\ BucketOf(cxt[c].route) \in Buckets /\ c \in Waiting[BucketOf(cxt[c].route)]
         /\ cxt[c].bucket = BucketOf(cxt[c].route)
         /\ c \notin timeouts /\ \A b \in Buckets : c \notin Sent[b]
         /\ \A b \in Buckets : c \in Waiting[b] => b = BucketOf(cxt[c].route)
<1>1. TypeInv /\ PlaceInv /\ LogInv
  BY DEF RequestInv
<1>2. c \in Live /\ log[cxt[c].req].sends = 0 /\ c \in Known
  BY DEF Unsent, Live
<1>3. c \in Contexts /\ cxt[c].req \in 1..Len(log) /\ log[cxt[c].req].state = "live"
  BY <1>1, <1>2, Typed DEF LogInv
<1>4. log[cxt[c].req].route = cxt[c].route /\ c \in Waiting[BucketOf(cxt[c].route)]
  BY <1>2 DEF OrderInv, RoutesKept, Homes
<1>5. cxt[c].route \in Routes /\ BucketOf(cxt[c].route) \in Buckets
  BY <1>1, <1>3, Typed, BucketOfType
<1> DEFINE h == BucketOf(cxt[c].route)
<1> HIDE DEF h
<1>6. h \in Buckets /\ c \in Waiting[h]
  BY <1>4, <1>5 DEF h
<1>7. c \notin timeouts /\ cxt[c].bucket = h /\ c \notin Sent[h]
  BY <1>1, <1>6 DEF PlaceInv
<1>8. \A b \in Buckets : (c \in Waiting[b] \/ c \in Sent[b]) => b = h
  BY <1>1, <1>7 DEF PlaceInv
<1> QED BY <1>2, <1>3, <1>4, <1>5, <1>7, <1>8 DEF h

\* A step that makes no request: what it has to keep.
LEMMA OrderStep ==
  ASSUME RequestInv, OrderInv, wait' = Past, Live' \subseteq Live, Len(log') = Len(log),
         \A c \in Live' : cxt'[c].req = cxt[c].req /\ cxt'[c].route = cxt[c].route,
         \A r \in 1..Len(log) : /\ log'[r].route = log[r].route
                                /\ log'[r].state = "live" => log[r].state = "live"
                                /\ log'[r].sends = 0 => log[r].sends = 0,
         \A c \in Live \ Live' : log'[cxt[c].req].state # "live",
         Homes', \A b \in Buckets : Ordered(bucket'[b].waitq, Calls), SentInOrder'
  PROVE  OrderInv'
<1>1. TypeInv /\ LogInv
  BY DEF RequestInv
<1>2. \A c \in Live : cxt[c].req \in 1..Len(log)
  BY <1>1 DEF LogInv
<1>3. RoutesKept'
  <2> SUFFICES ASSUME NEW c \in Live' PROVE log'[cxt'[c].req].route = cxt'[c].route
    BY DEF RoutesKept
  <2>1. log[cxt[c].req].route = cxt[c].route /\ cxt[c].req \in 1..Len(log)
    BY <1>2 DEF OrderInv, RoutesKept
  <2> QED BY <2>1
<1>4. Owned'
  <2> SUFFICES ASSUME NEW r \in 1..Len(log'), log'[r].state = "live"
               PROVE  \E c \in Live' : cxt'[c].req = r
    BY DEF Owned
  <2>1. PICK c \in Live : cxt[c].req = r
    BY DEF OrderInv, Owned
  <2>2. c \in Live'
    BY <2>1
  <2> QED BY <2>1, <2>2
<1>5. Unsent' \subseteq Unsent
  <2> SUFFICES ASSUME NEW c \in Unsent' PROVE c \in Unsent
    OBVIOUS
  <2>1. c \in Live' /\ log'[cxt'[c].req].sends = 0
    BY DEF Unsent
  <2>2. c \in Live /\ cxt[c].req \in 1..Len(log) /\ cxt'[c].req = cxt[c].req
    BY <1>2, <2>1
  <2>3. log[cxt[c].req].sends = 0
    BY <2>1, <2>2
  <2> QED BY <2>2, <2>3 DEF Unsent
<1>6. \A c, d : <<c, d>> \in Calls' => <<c, d>> \in Calls
  <2> SUFFICES ASSUME NEW c, NEW d, <<c, d>> \in Calls' PROVE <<c, d>> \in Calls
    OBVIOUS
  <2>1. /\ c \in Unsent' /\ d \in Unsent'
        /\ cxt'[c].route = cxt'[d].route /\ cxt'[c].req < cxt'[d].req
    BY IsNextCall
  <2>2. c \in Live' /\ d \in Live'
    BY <2>1 DEF Unsent
  <2>3. cxt[c].route = cxt[d].route /\ cxt[c].req < cxt[d].req
    BY <2>1, <2>2
  <2> QED BY <1>5, <2>1, <2>3, IsCall
<1>7. InTurn'
  <2> SUFFICES ASSUME NEW b \in Buckets PROVE Ordered(bucket'[b].waitq, Calls')
    BY DEF InTurn
  <2>1. Ordered(bucket'[b].waitq, Calls)
    OBVIOUS
  <2> DEFINE v == Calls'
             w == Calls
             q == bucket'[b].waitq
  <2>2. Ordered(q, w) /\ \A c, d \in Elems(q) : <<c, d>> \in v => <<c, d>> \in w
    BY <1>6, <2>1
  <2> HIDE DEF v, w, q
  <2>3. Ordered(q, v)
    BY <2>2, OrderedLess
  <2> QED BY <2>3 DEF q, v
<1> QED BY <1>3, <1>4, <1>7 DEF OrderInv

\* What was sent before is all that was sent.
LEMMA SameOrder ==
  ASSUME RequestInv, OrderInv, Len(log') = Len(log), DOMAIN log' = 1..Len(log),
         \A r \in 1..Len(log) : /\ log'[r].route = log[r].route
                                /\ log'[r].state = "live" => log[r].state = "live"
                                /\ log'[r].sends = log[r].sends
  PROVE  SentInOrder'
<1>1. DOMAIN log = 1..Len(log)
  BY Typed DEF RequestInv
<1>2. SentInOrder
  BY DEF OrderInv
<1> QED BY <1>1, <1>2 DEF SentInOrder

\* A step that moves no request that was never sent.
LEMMA StillOrder ==
  ASSUME RequestInv, OrderInv, wait' = Past, Live' \subseteq Live, Len(log') = Len(log),
         DOMAIN log' = 1..Len(log), UNCHANGED routes,
         \A c \in Live' : cxt'[c].req = cxt[c].req /\ cxt'[c].route = cxt[c].route,
         \A r \in 1..Len(log) : /\ log'[r].route = log[r].route
                                /\ log'[r].state = "live" => log[r].state = "live"
                                /\ log'[r].sends = log[r].sends,
         \A c \in Live \ Live' : log'[cxt[c].req].state # "live",
         \A b \in Buckets : /\ Ordered(bucket'[b].waitq, Calls)
                            /\ \A c \in Live' : c \in Waiting[b] => c \in Waiting'[b]
  PROVE  OrderInv'
<1>1. SentInOrder'
  BY SameOrder
<1>2. Homes'
  <2> SUFFICES ASSUME NEW c \in Unsent' PROVE c \in Waiting'[(BucketOf(cxt[c].route))']
    BY DEF Homes
  <2>1. c \in Live' /\ c \in Live /\ log'[cxt'[c].req].sends = 0 /\ cxt'[c].req = cxt[c].req
    BY DEF Unsent
  <2>2. cxt[c].req \in 1..Len(log)
    BY <2>1 DEF RequestInv, LogInv
  <2>3. c \in Unsent
    BY <2>1, <2>2 DEF Unsent
  <2>4. c \in Waiting[BucketOf(cxt[c].route)] /\ BucketOf(cxt[c].route) \in Buckets
    BY <2>3, UnsentIs
  <2>5. (BucketOf(cxt[c].route))' = BucketOf(cxt[c].route)
    BY <2>1 DEF BucketOf
  <2> QED BY <2>1, <2>4, <2>5
<1> QED BY <1>1, <1>2, OrderStep

LEMMA OrderInit == Init => OrderInv
<1> SUFFICES ASSUME Init PROVE OrderInv
  OBVIOUS
<1>1. Live = {} /\ Unsent = {} /\ log = <<>> /\ wait = Past
  BY DEF Init, Live, Known, Unsent
<1>2. ASSUME NEW b \in Buckets PROVE Ordered(bucket[b].waitq, Calls)
  <2>1. bucket[b].waitq = <<>>
    BY DEF Init, NewBucket
  <2> QED BY <2>1, OrderedNone
<1>3. DOMAIN log = {}
  BY <1>1
<1> QED BY <1>1, <1>2, <1>3 DEF OrderInv, RoutesKept, Owned, Homes, InTurn, SentInOrder

LEMMA OrderQuiet ==
  ASSUME RequestInv, OrderInv, UNCHANGED <<cxt, allocated, bucket, routes, wait, idleq, log>>
  PROVE  OrderInv'
<1>1. Live' = Live /\ Waiting' = Waiting
  BY DEF Live, Known, Free, Waiting
<1>2. DOMAIN log = 1..Len(log)
  BY Typed DEF RequestInv
<1> QED BY <1>1, <1>2, StillOrder DEF OrderInv, InTurn

LEMMA OrderTick == ASSUME RequestInv, OrderInv, Tick PROVE OrderInv'
<1> DEFINE Older(t) == IF t = Past THEN Past ELSE t - 1
<1>1. TypeInv
  BY DEF RequestInv
<1>2. /\ wait' = Older(wait)
      /\ bucket' = [b \in Buckets |-> [bucket[b] EXCEPT !.reset = Older(bucket[b].reset)]]
      /\ cxt' = [c \in Contexts |-> [cxt[c] EXCEPT !.timeout = Older(cxt[c].timeout)]]
      /\ UNCHANGED <<allocated, routes, idleq, log>>
  BY DEF Tick
<1>3. wait' = Past
  BY <1>2 DEF OrderInv
<1> HIDE DEF Older
<1>4. \A b \in Buckets : bucket'[b].waitq = bucket[b].waitq
  <2> TAKE b \in Buckets
  <2> DEFINE n == Older(bucket[b].reset)
  <2>1. bucket[b] \in BucketType /\ bucket'[b] = [bucket[b] EXCEPT !.reset = n]
    BY <1>1, <1>2, Typed
  <2> HIDE DEF n
  <2> QED BY <2>1 DEF BucketType
<1>5. \A c \in Contexts : cxt'[c].req = cxt[c].req /\ cxt'[c].route = cxt[c].route
  <2> TAKE c \in Contexts
  <2> DEFINE n == Older(cxt[c].timeout)
  <2>1. cxt[c] \in ContextType /\ cxt'[c] = [cxt[c] EXCEPT !.timeout = n]
    BY <1>1, <1>2, Typed
  <2> HIDE DEF n
  <2> QED BY <2>1 DEF ContextType
<1>6. Live' = Live /\ Live \subseteq Contexts /\ Waiting' = Waiting
  BY <1>1, <1>2, <1>4, Typed DEF Live, Known, Free, Waiting
<1>7. DOMAIN log = 1..Len(log)
  BY <1>1, Typed
<1>8. \A b \in Buckets : Ordered(bucket'[b].waitq, Calls)
  BY <1>4 DEF OrderInv, InTurn
<1> QED BY <1>2, <1>3, <1>5, <1>6, <1>7, <1>8, StillOrder

LEMMA OrderCheckTimeouts ==
  ASSUME RequestInv, OrderInv, NEW c \in Contexts, CheckTimeouts(c)
  PROVE  OrderInv'
<1> DEFINE b == cxt[c].bucket
           q == <<c>> \o bucket[b].waitq
<1>1. TypeInv
  BY DEF RequestInv
<1>2. /\ c \in timeouts
      /\ bucket' = [bucket EXCEPT ![b] = Unfrozen(bucket[b], c)]
      /\ UNCHANGED <<cxt, allocated, routes, wait, idleq, log>>
  BY DEF CheckTimeouts, Due
<1>3. b \in Buckets /\ bucket[b] \in BucketType /\ bucket[b].waitq \in Seq(Contexts)
  BY <1>1, Typed
<1> HIDE DEF b
<1>4. \A d \in Buckets : bucket'[d].waitq = IF d = b THEN q ELSE bucket[d].waitq
  <2> TAKE d \in Buckets
  <2>1. CASE d = b
    <3> DEFINE x == bucket[b]
               u == Unfrozen(x, c)
    <3>1. bucket'[d] = u /\ q = <<c>> \o x.waitq /\ x \in BucketType
      BY <1>1, <1>2, <1>3, <2>1 DEF TypeInv, BuckType
    <3> HIDE DEF q, x
    <3>2. u.waitq = q
      BY <3>1 DEF BucketType, Unfrozen
    <3> QED BY <2>1, <3>1, <3>2
  <2>2. CASE d # b
    BY <1>1, <1>2, <2>2 DEF TypeInv, BuckType
  <2> QED BY <2>1, <2>2
<1>5. Ordered(q, Calls) /\ Elems(q) = Waiting[b] \cup {c}
  <2> DEFINE s == bucket[b].waitq
             w == Calls
  <2>1. s \in Seq(Contexts) /\ Ordered(s, w) /\ Elems(s) = Waiting[b]
    BY <1>3 DEF OrderInv, InTurn, Waiting
  <2>2. c \notin Unsent
    BY <1>2, UnsentIs
  <2>3. \A d \in Elems(s) : <<d, c>> \notin w
    BY <2>2, IsCall
  <2> HIDE DEF s, w
  <2>4. Ordered(<<c>> \o s, w) /\ Elems(<<c>> \o s) = Elems(s) \cup {c}
    BY <2>1, <2>3, OrderedCons, ConsElems
  <2> QED BY <2>1, <2>4 DEF s, w
<1> HIDE DEF q
<1>6. \A d \in Buckets : Ordered(bucket'[d].waitq, Calls) /\ Waiting[d] \subseteq Waiting'[d]
  BY <1>3, <1>4, <1>5 DEF OrderInv, InTurn, Waiting
<1>7. Live' = Live
  BY <1>2 DEF Live, Known, Free
<1>8. DOMAIN log = 1..Len(log)
  BY <1>1, Typed
<1>9. wait' = Past
  BY <1>2 DEF OrderInv
<1> QED BY <1>2, <1>6, <1>7, <1>8, <1>9, StillOrder

LEMMA OrderRead ==
  ASSUME RequestInv, OrderInv, NEW c \in Contexts, NEW a \in Answers(cxt[c].route), Read(c, a)
  PROVE  OrderInv'
<1> DEFINE n == cxt[c].req
<1>1. TypeInv
  BY DEF RequestInv
<1>2. UNCHANGED <<cxt, allocated, bucket, routes, wait, idleq>>
  BY DEF Read
<1>3. /\ n \in 1..Len(log) /\ log' \in Seq(LogType) /\ Len(log') = Len(log)
      /\ \A r \in 1..Len(log) : r # n => log'[r] = log[r]
      /\ log'[n].sends = log[n].sends /\ log'[n].state = log[n].state
  BY ReadLog
<1>4. log'[n].route = log[n].route
  <2> DEFINE x == log[n]
             done == IF a.kind = "ok" THEN x.done + 1 ELSE x.done
             fail == IF a.kind \in {"ok", "read_error"} THEN x.fail ELSE x.fail + 1
             y == [x EXCEPT !.done = done, !.fail = fail]
  <2>1. log' = [log EXCEPT ![n] = y]
    BY DEF Read
  <2>2. log \in Seq(LogType) /\ x \in LogType
    BY <1>1, <1>3, Typed DEF TypeInv, LogInType
  <2> HIDE DEF n, x, done, fail
  <2>3. y.route = x.route
    BY <2>2 DEF LogType
  <2> HIDE DEF y
  <2>4. log'[n] = y
    BY <1>3, <2>1, <2>2
  <2> QED BY <2>3, <2>4 DEF x
<1> HIDE DEF n
<1>5. DOMAIN log' = 1..Len(log)
  BY <1>3
<1>6. \A r \in 1..Len(log) : /\ log'[r].route = log[r].route
                             /\ log'[r].state = log[r].state
                             /\ log'[r].sends = log[r].sends
  BY <1>3, <1>4
<1>7. Live' = Live /\ Waiting' = Waiting
  BY <1>2 DEF Live, Known, Free, Waiting
<1> QED BY <1>2, <1>3, <1>5, <1>6, <1>7, StillOrder DEF OrderInv, InTurn

LEMMA OrderStopAll == ASSUME RequestInv, OrderInv, StopAll PROVE OrderInv'
<1>1. TypeInv /\ LogInv' /\ TypeInv'
  BY StopAllInv DEF RequestInv
<1>2. /\ bucket' = [b \in Buckets |-> Stopped(b)] /\ UNCHANGED <<cxt, allocated, routes, wait>>
      /\ log' = [r \in 1..Len(log) |->
                  [log[r] EXCEPT !.state = IF log[r].state = "live" THEN "cancelled" ELSE log[r].state]]
  BY DEF StopAll
<1>3. /\ Len(log') = Len(log) /\ DOMAIN log' = 1..Len(log)
      /\ \A r \in 1..Len(log) : log'[r].sends = log[r].sends /\ log'[r].state # "live"
  BY <1>1, StopAllLog
<1>4. \A r \in 1..Len(log) : log'[r].route = log[r].route
  <2> TAKE r \in 1..Len(log)
  <2> DEFINE x == log[r]
             n == IF x.state = "live" THEN "cancelled" ELSE x.state
  <2>1. x \in LogType /\ log'[r] = [x EXCEPT !.state = n]
    BY <1>1, <1>2, Typed
  <2> HIDE DEF x, n
  <2>2. log'[r].route = x.route
    BY <2>1 DEF LogType
  <2> QED BY <2>2 DEF x
<1>5. Live' = {}
  BY <1>1, <1>3 DEF LogInv
<1>6. \A b \in Buckets : Ordered(bucket'[b].waitq, Calls)
  <2> TAKE b \in Buckets
  <2> DEFINE x == bucket[b]
             n == x.freeze /\ Timed(b) = {}
             y == [x EXCEPT !.waitq = <<>>, !.busyq = <<>>, !.freeze = n]
  <2>1. x \in BucketType /\ bucket'[b] = y
    BY <1>1, <1>2, Typed DEF Stopped
  <2> HIDE DEF x, n
  <2>2. y.waitq = <<>>
    BY <2>1 DEF BucketType
  <2> QED BY <2>1, <2>2, OrderedNone
<1>7. \A c \in Live : cxt[c].req \in 1..Len(log)
  BY DEF RequestInv, LogInv
<1>8. wait' = Past
  BY <1>2 DEF OrderInv
<1> QED BY <1>2, <1>3, <1>4, <1>5, <1>6, <1>7, <1>8, StillOrder

LEMMA OrderEnqueue ==
  ASSUME RequestInv, OrderInv, NEW route \in Routes, Enqueue(route, FALSE)
  PROVE  OrderInv'
<1> DEFINE n == Len(log)
           c == IF idleq = <<>> THEN allocated + 1 ELSE Head(idleq)
           b == BucketOf(route)
           q == Append(bucket[b].waitq, c)
           entry == [route |-> route, high |-> FALSE, sends |-> 0,
                     done |-> 0, fail |-> 0, state |-> "live"]
<1>1. TypeInv /\ QueueInv /\ PlaceInv /\ LogInv /\ n \in Nat
  BY Typed DEF RequestInv
<1>2. /\ cxt' = [cxt EXCEPT ![c].req = n + 1, ![c].route = route, ![c].bucket = b]
      /\ bucket' = [bucket EXCEPT ![b].waitq = q]
      /\ IF idleq = <<>> THEN allocated' = allocated + 1 /\ idleq' = idleq
                         ELSE idleq' = Tail(idleq) /\ allocated' = allocated
      /\ n < MaxRequests /\ log' = Append(log, entry)
      /\ UNCHANGED <<routes, wait>>
  BY DEF Enqueue, Queued
<1>3. c \in Contexts /\ c \notin Live /\ Live' = Live \cup {c}
  <2>1. /\ idleq \in Seq(Contexts) /\ Distinct(idleq) /\ allocated \in Nat /\ allocated <= n
        /\ MaxRequests \in Nat
    BY <1>1, Numbers DEF TypeInv, ListType, QueueInv, CountType
  <2>2. CASE idleq = <<>>
    <3>1. c = allocated + 1 /\ c \in Contexts /\ c \notin Known /\ (Known \cup {c}) = 1..(allocated + 1)
      BY <1>1, <1>2, <2>1, <2>2 DEF Contexts, Known
    <3>2. allocated' = allocated + 1 /\ Free' = Free /\ c \notin Free
      BY <1>1, <1>2, <2>2, <3>1 DEF Free, PlaceInv
    <3>3. Known' = Known \cup {c}
      BY <3>1, <3>2 DEF Known
    <3> HIDE DEF c
    <3> QED BY <3>1, <3>2, <3>3 DEF Live
  <2>3. CASE idleq # <<>>
    <3>1. c = Head(idleq) /\ idleq' = Tail(idleq) /\ allocated' = allocated
      BY <1>2, <2>3
    <3> HIDE DEF c
    <3>2. /\ Elems(idleq) = Elems(Tail(idleq)) \cup {Head(idleq)} /\ Head(idleq) \in Contexts
          /\ Head(idleq) \notin Elems(Tail(idleq))
      BY <2>1, <2>3, TailElems
    <3>3. Free' = Free \ {c} /\ c \in Free /\ Known' = Known
      BY <3>1, <3>2 DEF Free, Known
    <3> QED BY <1>1, <3>1, <3>2, <3>3 DEF Live, PlaceInv
  <2> QED BY <2>2, <2>3
<1>4. b \in Buckets
  BY <1>1, BucketOfType
<1> HIDE DEF c, b
<1>5. /\ \A d \in Contexts : d # c => cxt'[d] = cxt[d]
      /\ cxt'[c].req = n + 1 /\ cxt'[c].route = route
  <2> DEFINE x == cxt[c]
             y == [x EXCEPT !.req = n + 1, !.route = route, !.bucket = b]
  <2>1. x \in ContextType /\ \A d \in Contexts : d # c => cxt'[d] = cxt[d]
    BY <1>1, <1>2, <1>3, Typed DEF TypeInv, CxtType
  <2>2. cxt'[c] = y
    BY <1>1, <1>2, <1>3 DEF TypeInv, CxtType
  <2> HIDE DEF x
  <2>3. y.req = n + 1 /\ y.route = route
    BY <2>1 DEF ContextType
  <2> QED BY <2>1, <2>2, <2>3
<1>6. /\ Len(log') = n + 1 /\ DOMAIN log' = 1..n + 1 /\ \A r \in 1..n : log'[r] = log[r]
      /\ log'[n + 1].sends = 0 /\ log'[n + 1].state = "live" /\ log'[n + 1].route = route
  <2>1. log \in Seq(LogType)
    BY <1>1 DEF TypeInv, LogInType
  <2>2. log'[n + 1] = entry
    BY <1>2, <2>1
  <2> HIDE DEF entry
  <2>3. Len(log') = n + 1 /\ DOMAIN log' = 1..n + 1 /\ \A r \in 1..n : log'[r] = log[r]
    BY <1>2, <2>1
  <2> QED BY <2>2, <2>3 DEF entry
<1>7. \A d \in Live : /\ d \in Contexts /\ d # c /\ cxt'[d] = cxt[d]
                      /\ cxt[d].req \in 1..n /\ cxt[d].req \in Nat /\ cxt[d].req < n + 1
                      /\ log'[cxt[d].req] = log[cxt[d].req]
  <2> TAKE d \in Live
  <2>1. d \in Contexts /\ d # c
    BY <1>1, <1>3, Typed DEF Live
  <2>2. cxt[d].req \in 1..n
    BY <1>1 DEF LogInv
  <2> QED BY <1>1, <1>5, <1>6, <2>1, <2>2
<1>8. Unsent' = Unsent \cup {c}
  <2>1. \A d \in Live : log'[cxt'[d].req].sends = log[cxt[d].req].sends
    BY <1>7
  <2>2. log'[cxt'[c].req].sends = 0
    BY <1>5, <1>6
  <2> QED BY <1>3, <2>1, <2>2 DEF Unsent
<1>9. \A d \in Buckets : bucket'[d].waitq = IF d = b THEN q ELSE bucket[d].waitq
  <2> TAKE d \in Buckets
  <2>1. bucket[d] \in BucketType
    BY <1>1, Typed
  <2>2. bucket'[d] = IF d = b THEN [bucket[d] EXCEPT !.waitq = q] ELSE bucket[d]
    BY <1>1, <1>2, <1>4 DEF TypeInv, BuckType
  <2> HIDE DEF q
  <2> QED BY <2>1, <2>2 DEF BucketType
<1>10. bucket[b].waitq \in Seq(Contexts) /\ Elems(q) = Waiting[b] \cup {c}
  <2>1. bucket[b].waitq \in Seq(Contexts) /\ Elems(bucket[b].waitq) = Waiting[b]
    BY <1>1, <1>4, Typed DEF Waiting
  <2> QED BY <1>3, <2>1, AppendElems
<1>11. RoutesKept'
  <2>1. \A d \in Live : log'[cxt'[d].req].route = cxt'[d].route
    BY <1>7 DEF OrderInv, RoutesKept
  <2> QED BY <1>3, <1>5, <1>6, <2>1 DEF RoutesKept
<1>12. Owned'
  <2> SUFFICES ASSUME NEW r \in 1..n + 1, log'[r].state = "live" PROVE \E d \in Live' : cxt'[d].req = r
    BY <1>6 DEF Owned
  <2>1. CASE r = n + 1
    BY <1>3, <1>5, <2>1
  <2>2. CASE r # n + 1
    <3>1. r \in 1..n
      BY <1>1, <2>2
    <3>2. PICK d \in Live : cxt[d].req = r
      BY <1>6, <3>1 DEF OrderInv, Owned
    <3> QED BY <1>3, <1>7, <3>2
  <2> QED BY <2>1, <2>2
<1>13. Homes'
  <2> SUFFICES ASSUME NEW d \in Unsent' PROVE d \in Waiting'[(BucketOf(cxt[d].route))']
    BY DEF Homes
  <2>1. CASE d = c
    <3>1. (BucketOf(cxt[d].route))' = b
      BY <1>2, <1>5, <2>1 DEF BucketOf, b
    <3> QED BY <1>4, <1>9, <1>10, <2>1, <3>1 DEF Waiting
  <2>2. CASE d # c
    <3> DEFINE h == BucketOf(cxt[d].route)
    <3>1. d \in Unsent /\ d \in Waiting[h] /\ h \in Buckets /\ cxt'[d] = cxt[d]
      BY <1>7, <1>8, <2>2, UnsentIs
    <3>2. routes' = routes
      BY <1>2
    <3>3. (BucketOf(cxt[d].route))' = h
      BY <3>1, <3>2 DEF BucketOf
    <3> HIDE DEF h
    <3> QED BY <1>9, <1>10, <3>1, <3>3 DEF Waiting
  <2> QED BY <2>1, <2>2
<1>14. ASSUME NEW d, NEW e, <<d, e>> \in Calls', e # c PROVE <<d, e>> \in Calls
  <2>1. /\ d \in Unsent' /\ e \in Unsent' /\ cxt'[d].route = cxt'[e].route
        /\ cxt'[d].req < cxt'[e].req
    BY <1>14, IsNextCall
  <2>2. e \in Unsent /\ e \in Live
    BY <1>8, <1>14, <2>1 DEF Unsent
  <2>3. d # c
    <3> SUFFICES ASSUME d = c PROVE FALSE
      OBVIOUS
    <3> QED BY <1>1, <1>5, <1>7, <2>1, <2>2
  <2>4. d \in Unsent /\ d \in Live
    BY <1>8, <2>1, <2>3 DEF Unsent
  <2> QED BY <1>7, <2>1, <2>2, <2>4, IsCall
<1>15. ASSUME NEW d PROVE <<c, d>> \notin Calls'
  <2> SUFFICES ASSUME <<c, d>> \in Calls' PROVE FALSE
    OBVIOUS
  <2>1. d \in Unsent' /\ n + 1 < cxt'[d].req
    BY <1>5, IsNextCall
  <2>2. d # c
    BY <1>1, <1>5, <2>1
  <2>3. d \in Live
    BY <1>8, <2>1, <2>2 DEF Unsent
  <2> QED BY <1>1, <1>7, <2>1, <2>3
<1>16. InTurn'
  <2> SUFFICES ASSUME NEW d \in Buckets PROVE Ordered(bucket'[d].waitq, Calls')
    BY DEF InTurn
  <2> DEFINE v == Calls'
             w == Calls
             s == bucket[d].waitq
  <2>1. c \notin Waiting[d]
    BY <1>1, <1>3 DEF PlaceInv, Live
  <2>2. s \in Seq(Contexts) /\ Ordered(s, w) /\ c \notin Elems(s)
    BY <1>1, <2>1, Typed DEF OrderInv, InTurn, Waiting
  <2>3. \A e, f \in Elems(s) : <<e, f>> \in v => <<e, f>> \in w
    BY <1>14, <2>2
  <2>4. \A e \in Elems(s) : <<c, e>> \notin v
    BY <1>15
  <2>5. bucket'[d].waitq = IF d = b THEN Append(s, c) ELSE s
    BY <1>9
  <2> HIDE DEF v, w, s
  <2>6. Ordered(s, v)
    BY <2>2, <2>3, OrderedLess
  <2>7. Ordered(Append(s, c), v)
    BY <1>3, <2>2, <2>4, <2>6, OrderedAppend
  <2> QED BY <2>5, <2>6, <2>7 DEF v
<1>17. SentInOrder'
  <2> SUFFICES ASSUME NEW r \in 1..n + 1, NEW t \in 1..n + 1, r < t, log'[r].route = log'[t].route,
                      log'[r].state = "live", log'[r].sends = 0
               PROVE  log'[t].sends = 0
    BY <1>6 DEF SentInOrder
  <2>1. CASE t = n + 1
    BY <1>6, <2>1
  <2>2. CASE t # n + 1
    <3>1. r \in 1..n /\ t \in 1..n
      BY <1>1, <2>2
    <3>2. DOMAIN log = 1..n
      BY <1>1, Typed
    <3> QED BY <1>6, <3>1, <3>2 DEF OrderInv, SentInOrder
  <2> QED BY <2>1, <2>2
<1>18. wait' = Past
  BY <1>2 DEF OrderInv
<1> QED BY <1>11, <1>12, <1>13, <1>16, <1>17, <1>18 DEF OrderInv

\* Without global limits a batch is never timed out, and what is sent of a queue is
\* what stands first in it.
LEMMA TurnIs ==
  ASSUME RequestInv, OrderInv, NEW b \in Buckets
  PROVE  /\ ~TimesOut(b) /\ Ordered(AfterTurn(b).waitq, Calls)
         /\ Waiting[b] = Elems(AfterTurn(b).waitq) \cup Elems(SentOf(b))
         /\ \A c \in Elems(SentOf(b)), d \in Elems(AfterTurn(b).waitq) : <<d, c>> \notin Calls
<1> DEFINE x == bucket[b]
           k == SendCount(b)
           y == AfterTurn(b)
           p == SubSeq(x.waitq, 1, k)
           q == SubSeq(x.waitq, k + 1, Len(x.waitq))
           w == Calls
<1>1. /\ x \in BucketType /\ x.waitq \in Seq(Contexts) /\ Ordered(x.waitq, w)
      /\ Waiting[b] = Elems(x.waitq) /\ k \in 0..Len(x.waitq)
  BY Typed, SendCountIs DEF RequestInv, OrderInv, InTurn, Waiting
<1>2. ~TimesOut(b)
  <2> SUFFICES ASSUME bucket[b].remaining > 0, Timeout(b) >= 0 PROVE FALSE
    BY DEF TimesOut
  <2>1. bucket[b].remaining \in Nat /\ wait = Past
    BY Typed DEF RequestInv, OrderInv
  <2>2. ~(bucket[b].remaining < 1)
    BY <2>1
  <2>3. Timeout(b) = Past
    BY <2>1, <2>2 DEF Timeout, Larger
  <2> QED BY <2>3 DEF Past
<1>3. SentOf(b) = p /\ y = [x EXCEPT !.waitq = q, !.busyq = x.busyq \o p]
  BY <1>2 DEF SentOf, AfterTurn
<1> HIDE DEF x, k, y, w
<1>4. /\ Elems(x.waitq) = Elems(p) \cup Elems(q) /\ Ordered(q, w)
      /\ \A c \in Elems(p), d \in Elems(q) : <<d, c>> \notin w
  BY <1>1, SplitElems, OrderedSplit
<1> DEFINE z == x.busyq \o p
<1> HIDE DEF p, q, z
<1>5. y.waitq = q
  <2>1. y = [x EXCEPT !.waitq = q, !.busyq = z]
    BY <1>3 DEF z
  <2> QED BY <1>1, <2>1 DEF BucketType
<1> QED BY <1>1, <1>2, <1>3, <1>4, <1>5 DEF x, y, w

LEMMA OrderCheckPending == ASSUME RequestInv, OrderInv, CheckPending PROVE OrderInv'
<1> DEFINE sent == UNION {ToSet(SentOf(b)) : b \in 1..made}
<1>1. TypeInv /\ PlaceInv /\ LogInv /\ made \in Buckets
  BY DEF RequestInv, TypeInv, RouteType
<1>2. /\ bucket' = [b \in Buckets |-> IF b <= made THEN AfterTurn(b) ELSE bucket[b]]
      /\ UNCHANGED <<allocated, routes, wait, idleq>>
      /\ log' = [r \in 1..Len(log) |->
             [log[r] EXCEPT !.sends = IF \E c \in sent : cxt[c].req = r
                                        THEN log[r].sends + 1 ELSE log[r].sends]]
  BY DEF CheckPending
<1>3. \A c \in Contexts : cxt'[c].req = cxt[c].req /\ cxt'[c].route = cxt[c].route
  <2> TAKE c \in Contexts
  <2> DEFINE x == cxt[c]
             n == Timeout(x.bucket)
  <2>1. cxt'[c] = x \/ cxt'[c] = [x EXCEPT !.timeout = n]
    BY DEF CheckPending
  <2>2. x \in ContextType
    BY <1>1, Typed
  <2> HIDE DEF x, n
  <2>3. cxt'[c].req = x.req /\ cxt'[c].route = x.route
    BY <2>1, <2>2 DEF ContextType
  <2> QED BY <2>3 DEF x
<1>4. Live' = Live /\ Live \subseteq Contexts /\ \A c \in Live : cxt[c].req \in 1..Len(log)
  BY <1>1, <1>2, Typed DEF Live, Known, Free, LogInv
\* The requests that are sent, in each bucket.
<1>5. ASSUME NEW b \in Buckets
      PROVE  /\ Ordered(bucket'[b].waitq, Calls)
             /\ \A c \in Waiting[b] : c \notin sent => c \in Waiting'[b]
             /\ \A c \in Waiting[b], d \in Waiting'[b] : c \in sent => <<d, c>> \notin Calls
  <2>1. Waiting'[b] = Elems(bucket'[b].waitq) /\ bucket'[b] = IF b <= made THEN AfterTurn(b) ELSE bucket[b]
    BY <1>2 DEF Waiting
  <2>2. ToSet(SentOf(b)) = Elems(SentOf(b))
    BY <1>1, AfterTurnIs DEF RequestInv
  <2>3. \A d \in 1..made : d \in Buckets /\ ToSet(SentOf(d)) \subseteq Waiting[d]
    <3> TAKE d \in 1..made
    <3>1. d \in Buckets
      BY <1>1, Numbers
    <3> QED BY <1>1, <3>1, AfterTurnIs DEF RequestInv
  <2>4. b <= made <=> b \in 1..made
    BY <1>1, Numbers
  <2>5. \A c \in Waiting[b] : c \in sent => c \in ToSet(SentOf(b)) /\ b <= made
    <3> TAKE c \in Waiting[b]
    <3> SUFFICES ASSUME c \in sent PROVE c \in ToSet(SentOf(b)) /\ b <= made
      OBVIOUS
    <3>1. PICK d \in 1..made : c \in ToSet(SentOf(d))
      OBVIOUS
    <3>2. d = b
      BY <1>1, <2>3, <3>1 DEF PlaceInv
    <3> QED BY <2>4, <3>1, <3>2
  <2>6. CASE b <= made
    <3>1. ToSet(SentOf(b)) \subseteq sent
      BY <2>4, <2>6
    <3> HIDE DEF sent
    <3> QED BY <2>1, <2>2, <2>5, <2>6, <3>1, TurnIs
  <2>7. CASE ~(b <= made)
    <3> HIDE DEF sent
    <3> QED BY <2>1, <2>5, <2>7 DEF OrderInv, InTurn, Waiting
  <2> QED BY <2>6, <2>7
<1>6. \A c \in sent : c \in Live /\ \E b \in Buckets : c \in Waiting[b]
  <2> TAKE c \in sent
  <2>1. PICK b \in 1..made : c \in ToSet(SentOf(b))
    OBVIOUS
  <2>2. b \in Buckets
    BY <1>1, Numbers
  <2>3. c \in Waiting[b]
    BY <1>1, <2>1, <2>2, AfterTurnIs DEF RequestInv
  <2> QED BY <1>1, <2>2, <2>3 DEF PlaceInv, Live
<1> HIDE DEF sent
<1>7. \A r \in 1..Len(log) :
        /\ log'[r].route = log[r].route /\ log'[r].state = log[r].state
        /\ log'[r].sends = 0 => log[r].sends = 0 /\ \A c \in sent : cxt[c].req # r
        /\ (\A c \in sent : cxt[c].req # r) => log'[r].sends = log[r].sends
  <2> TAKE r \in 1..Len(log)
  <2> DEFINE x == log[r]
             n == IF \E c \in sent : cxt[c].req = r THEN x.sends + 1 ELSE x.sends
  <2>1. x \in LogType /\ x.sends \in Nat
    BY <1>1, Typed
  <2>2. log'[r] = [x EXCEPT !.sends = n]
    BY <1>2
  <2>3. /\ n = 0 => x.sends = 0 /\ \A c \in sent : cxt[c].req # r
        /\ (\A c \in sent : cxt[c].req # r) => n = x.sends
    BY <2>1
  <2> HIDE DEF n, x
  <2>4. log'[r].route = x.route /\ log'[r].state = x.state /\ log'[r].sends = n
    BY <2>1, <2>2 DEF LogType
  <2> QED BY <2>3, <2>4 DEF x
<1>8. Len(log') = Len(log) /\ DOMAIN log' = 1..Len(log) /\ DOMAIN log = 1..Len(log)
  BY <1>1, <1>2, Typed
<1>9. \A c \in Unsent' : c \in Unsent /\ c \notin sent
  <2> TAKE c \in Unsent'
  <2>1. c \in Live /\ log'[cxt[c].req].sends = 0
    BY <1>3, <1>4 DEF Unsent
  <2>2. log[cxt[c].req].sends = 0 /\ \A d \in sent : cxt[d].req # cxt[c].req
    BY <1>4, <1>7, <2>1
  <2> QED BY <2>1, <2>2 DEF Unsent
<1>10. Homes'
  <2> SUFFICES ASSUME NEW c \in Unsent' PROVE c \in Waiting'[(BucketOf(cxt[c].route))']
    BY DEF Homes
  <2>1. c \in Unsent /\ c \notin sent /\ c \in Contexts
    BY <1>4, <1>9 DEF Unsent
  <2>2. c \in Waiting[BucketOf(cxt[c].route)] /\ BucketOf(cxt[c].route) \in Buckets
    BY <2>1, UnsentIs
  <2>3. (BucketOf(cxt[c].route))' = BucketOf(cxt[c].route)
    BY <1>2, <1>3, <2>1 DEF BucketOf
  <2> QED BY <1>5, <2>1, <2>2, <2>3
<1>11. SentInOrder'
  <2> SUFFICES ASSUME NEW r \in 1..Len(log), NEW t \in 1..Len(log), r < t,
                      log'[r].route = log'[t].route, log'[r].state = "live", log'[r].sends = 0,
                      log'[t].sends # 0
               PROVE  FALSE
    BY <1>8 DEF SentInOrder
  <2>1. /\ log[r].route = log[t].route /\ log[r].state = "live" /\ log[r].sends = 0
        /\ \A c \in sent : cxt[c].req # r
    BY <1>7
  <2>2. log[t].sends = 0
    BY <1>8, <2>1 DEF OrderInv, SentInOrder
  <2>3. PICK d \in sent : cxt[d].req = t
    BY <1>7, <2>2
  <2>4. PICK c \in Live : cxt[c].req = r
    BY <2>1 DEF OrderInv, Owned
  <2>5. c \in Unsent /\ d \in Unsent /\ c \notin sent
    BY <1>6, <2>1, <2>2, <2>3, <2>4 DEF Unsent
  <2>6. cxt[c].route = cxt[d].route
    BY <1>6, <2>1, <2>3, <2>4 DEF OrderInv, RoutesKept
  <2>7. <<c, d>> \in Calls
    BY <2>3, <2>4, <2>5, <2>6, IsCall
  <2> DEFINE h == BucketOf(cxt[c].route)
  <2>8. h \in Buckets /\ c \in Waiting[h] /\ d \in Waiting[h]
    <3>1. c \in Waiting[h] /\ h \in Buckets
      BY <2>5, UnsentIs
    <3>2. d \in Waiting[BucketOf(cxt[d].route)]
      BY <2>5, UnsentIs
    <3> QED BY <2>6, <3>1, <3>2
  <2> HIDE DEF h
  <2>9. c \in Waiting'[h]
    BY <1>5, <2>5, <2>8
  <2> QED BY <1>5, <2>3, <2>7, <2>8, <2>9
<1>12. wait' = Past
  BY <1>2 DEF OrderInv
<1> QED BY <1>3, <1>4, <1>5, <1>7, <1>8, <1>10, <1>11, <1>12, OrderStep

\* The queue of bucket d, after the requests of the route in b_null have moved to b.
Moved(d, b, route) ==
  IF d = NullBucket THEN Only(bucket[NullBucket].waitq, Contexts \ Of(route))
  ELSE IF d = b THEN bucket[b].waitq \o Only(bucket[NullBucket].waitq, Of(route))
  ELSE bucket[d].waitq

\* What an answer does to the queues.
LEMMA AnsweredQueues ==
  ASSUME RequestInv, CheckAction
  PROVE  LET c     == msg.cxt
             route == cxt[c].route
             moves == msg.answer.kind \notin NoAnswer /\ cxt[c].bucket = NullBucket
         IN  \E b \in Buckets :
               /\ moves => b # NullBucket /\ routes'[route] = b /\ b # NoRoute
               /\ ~moves \/ routes[route] # NoRoute => routes' = routes
               /\ \A r \in Routes : r # route => routes'[r] = routes[r]
               /\ \A d \in Buckets :
                    LET q == IF moves THEN Moved(d, b, route) ELSE bucket[d].waitq
                    IN  bucket'[d].waitq = q \/ bucket'[d].waitq = <<c>> \o q
<1> DEFINE c      == msg.cxt
           a      == msg.answer
           old    == cxt[c].bucket
           route  == cxt[c].route
           built  == a.kind \notin NoAnswer
           new    == built /\ old = NullBucket /\ routes[route] = NoRoute
           b      == IF new THEN MatchOf(a) ELSE IF old = NullBucket THEN BucketOf(route) ELSE old
           opened == IF new /\ a.named THEN [bucket EXCEPT ![b] = NewBucket(HashOf[route])] ELSE bucket
           moved  == IF built /\ old = NullBucket THEN Filtered(opened, b, route) ELSE opened
           told   == IF built THEN [moved EXCEPT ![b] = Populated(moved[b], a)] ELSE moved
           left   == [told EXCEPT ![old].busyq = Only(@, Contexts \ {c})]
           q(d)   == IF built /\ old = NullBucket THEN Moved(d, b, route) ELSE bucket[d].waitq
<1>1. TypeInv /\ PlaceInv /\ QueueInv /\ MadeInv /\ pc = "callback"
  BY DEF RequestInv, CheckAction
<1>2. /\ bucket' = [left EXCEPT ![old] = Placed(left[old], c, a)]
      /\ routes' = (IF new THEN [routes EXCEPT ![route] = b] ELSE routes)
  BY DEF CheckAction
<1>3. c \in Contexts /\ a \in AnswerType /\ old \in Buckets /\ route \in Routes /\ old <= made
  BY <1>1, AnsweredOne
<1> HIDE DEF c, a, old, route, built
<1>4. made \in Nat /\ made >= 2 /\ made \in Buckets /\ routes \in [Routes -> {NoRoute} \cup 2..made]
  BY <1>1, Numbers DEF TypeInv, RouteType
<1>5. \A n \in 2..made : n \in Buckets /\ n # NullBucket /\ n # NoRoute
  BY <1>4, Numbers DEF Buckets, NullBucket, NoRoute
<1>6. /\ new => b \in Buckets /\ b # NullBucket /\ b # NoRoute /\ (a.named => b = made + 1)
      /\ ~new => b \in Buckets /\ (built /\ old = NullBucket => b = routes[route] /\ b \in 2..made)
  <2>1. CASE new
    <3>1. b = IF a.named THEN made + 1 ELSE 2
      BY <2>1 DEF MatchOf, MissBucket
    <3>2. made + 1 \in Buckets
      BY <1>1, <1>3, <2>1, RoomForBucket
    <3>3. 2 \in 2..made
      BY <1>4
    <3> HIDE DEF b, new
    <3> QED BY <1>4, <1>5, <2>1, <3>1, <3>2, <3>3 DEF NullBucket, NoRoute
  <2>2. CASE ~new
    <3>1. b = IF old = NullBucket THEN BucketOf(route) ELSE old
      BY <2>2
    <3>2. BucketOf(route) \in Buckets
      BY <1>1, <1>3, BucketOfType
    <3>3. built /\ old = NullBucket => BucketOf(route) = routes[route] /\ routes[route] \in 2..made
      BY <1>3, <1>4, <2>2 DEF BucketOf
    <3> HIDE DEF b, new
    <3> QED BY <1>3, <2>2, <3>1, <3>2, <3>3
  <2> QED BY <2>1, <2>2
<1>7. new => built /\ old = NullBucket /\ routes[route] = NoRoute
  OBVIOUS
<1>8. /\ built /\ old = NullBucket => b # NullBucket /\ routes'[route] = b /\ b # NoRoute
      /\ ~(built /\ old = NullBucket) \/ routes[route] # NoRoute => routes' = routes
      /\ \A r \in Routes : r # route => routes'[r] = routes[r]
  <2> HIDE DEF b, new
  <2> QED BY <1>2, <1>3, <1>4, <1>5, <1>6, <1>7
<1> HIDE DEF b, new
<1>9. b \in Buckets
  BY <1>6
<1>10. opened \in [Buckets -> BucketType] /\ \A d \in Buckets : opened[d].waitq = bucket[d].waitq
  <2>1. bucket \in [Buckets -> BucketType]
    BY <1>1 DEF TypeInv, BuckType
  <2>2. CASE new /\ a.named
    <3> DEFINE e == NewBucket(HashOf[route])
    <3>1. opened = [bucket EXCEPT ![b] = e] /\ b = made + 1
      BY <1>6, <2>2
    <3>2. HashOf[route] \in Hashes \cup {NoHash}
      BY <1>3, RequestsAssumption
    <3>3. e \in BucketType /\ e.waitq = <<>>
      BY <3>2 DEF NewBucket, BucketType, Past
    <3> HIDE DEF e, opened
    <3>4. Waiting[b] = {}
      <4>1. \A f \in Waiting[b] : cxt[f].bucket = b /\ cxt[f].bucket <= made
        BY <1>1, <1>9 DEF PlaceInv
      <4> QED BY <1>4, <3>1, <4>1
    <3>5. bucket[b].waitq = <<>>
      <4>1. bucket[b].waitq \in Seq(Contexts) /\ Elems(bucket[b].waitq) = {}
        BY <1>1, <1>9, <3>4, Typed DEF Waiting
      <4> QED BY <4>1, ElemsOfSeq
    <3> QED BY <1>9, <2>1, <3>1, <3>3, <3>5
  <2>3. CASE ~(new /\ a.named)
    <3>1. opened = bucket
      BY <2>3
    <3> QED BY <2>1, <3>1
  <2> QED BY <2>2, <2>3
<1> HIDE DEF opened
<1>11. moved \in [Buckets -> BucketType] /\ \A d \in Buckets : moved[d].waitq = q(d)
  <2>1. CASE built /\ old = NullBucket
    <3> DEFINE n  == bucket[NullBucket].waitq
               p  == Only(n, Contexts \ Of(route))
               m  == Only(n, Of(route))
               y  == opened[b]
               z  == opened[NullBucket]
               r  == y.waitq \o m
               fs == Filtered(opened, b, route)
    <3>1. b # NullBucket /\ moved = fs /\ z.waitq = n
      BY <1>8, <1>10, <2>1, Numbers
    <3>2. y \in BucketType /\ z \in BucketType /\ y.waitq \in Seq(Contexts) /\ n \in Seq(Contexts)
      BY <1>1, <1>9, <1>10, Numbers, Typed DEF BucketType
    <3>3. p \in Seq(Contexts) /\ m \in Seq(Contexts)
      BY <3>2, OnlyElems
    <3>4. fs = [opened EXCEPT ![NullBucket].waitq = p, ![b].waitq = r]
      BY <3>1, Zenon DEF Filtered, Matching
    <3>5. r \in Seq(Contexts)
      BY <3>2, <3>3
    <3>6. y.waitq = bucket[b].waitq
      BY <1>9, <1>10
    <3> HIDE DEF p, m, r, y, z, n, fs, moved
    <3>7. /\ fs[NullBucket] = [z EXCEPT !.waitq = p] /\ fs[b] = [y EXCEPT !.waitq = r]
          /\ \A d \in Buckets : d # NullBucket /\ d # b => fs[d] = opened[d]
          /\ fs = [d \in Buckets |-> fs[d]]
      BY <1>9, <1>10, <3>1, <3>4, Numbers DEF y, z
    <3>8. /\ fs[NullBucket] \in BucketType /\ fs[b] \in BucketType
          /\ fs[NullBucket].waitq = p /\ fs[b].waitq = r
      BY <3>2, <3>3, <3>5, <3>7 DEF BucketType
    <3>9. moved \in [Buckets -> BucketType]
      BY <1>10, <3>1, <3>7, <3>8
    <3>10. ASSUME NEW d \in Buckets PROVE moved[d].waitq = Moved(d, b, route)
      <4>1. CASE d = NullBucket
        BY <3>1, <3>8, <4>1 DEF Moved, p, n
      <4>2. CASE d = b
        BY <3>1, <3>6, <3>8, <4>2 DEF Moved, r, m, n
      <4>3. CASE d # NullBucket /\ d # b
        BY <1>10, <3>1, <3>7, <4>3 DEF Moved
      <4> QED BY <4>1, <4>2, <4>3
    <3> QED BY <2>1, <3>9, <3>10
  <2>2. CASE ~(built /\ old = NullBucket)
    <3>1. moved = opened
      BY <2>2
    <3> HIDE DEF moved
    <3> QED BY <1>10, <2>2, <3>1
  <2> QED BY <2>1, <2>2
<1> HIDE DEF moved, q
<1>12. told \in [Buckets -> BucketType] /\ \A d \in Buckets : told[d].waitq = q(d)
  <2>1. CASE built
    <3> DEFINE z == Populated(moved[b], a)
    <3>1. told = [moved EXCEPT ![b] = z]
      BY <2>1
    <3>2. z \in BucketType /\ z.waitq = moved[b].waitq
      BY <1>3, <1>9, <1>11, PopulatedIs
    <3> HIDE DEF z, told
    <3> QED BY <1>9, <1>11, <3>1, <3>2
  <2>2. CASE ~built
    <3>1. told = moved
      BY <2>2
    <3> HIDE DEF told
    <3> QED BY <1>11, <3>1
  <2> QED BY <2>1, <2>2
<1> HIDE DEF told
<1>13. left \in [Buckets -> BucketType] /\ \A d \in Buckets : left[d].waitq = q(d)
  <2> DEFINE y == told[old]
             o == Only(y.busyq, Contexts \ {c})
             z == [y EXCEPT !.busyq = o]
  <2>1. left = [told EXCEPT ![old] = z]
    BY <1>3, <1>12
  <2>2. y \in BucketType /\ y.busyq \in Seq(Contexts)
    BY <1>3, <1>12 DEF BucketType
  <2>3. o \in Seq(Contexts)
    BY <2>2, OnlyElems
  <2> HIDE DEF y, o, left
  <2>4. z \in BucketType /\ z.waitq = y.waitq
    BY <2>2, <2>3 DEF BucketType
  <2> HIDE DEF z
  <2> QED BY <1>3, <1>12, <2>1, <2>4 DEF y
<1> HIDE DEF left
<1>14. ASSUME NEW d \in Buckets PROVE bucket'[d].waitq = q(d) \/ bucket'[d].waitq = <<c>> \o q(d)
  <2> DEFINE y == left[old]
             z == Placed(y, c, a)
             r == <<c>> \o y.waitq
  <2>1. bucket' = [left EXCEPT ![old] = z] /\ y \in BucketType /\ y.waitq = q(old)
    BY <1>2, <1>3, <1>13
  <2>2. z = y \/ z = [y EXCEPT !.waitq = r] \/ z = [y EXCEPT !.freeze = TRUE]
    BY DEF Placed
  <2>3. r = <<c>> \o q(old)
    BY <2>1
  <2> HIDE DEF y, z, r
  <2>4. z.waitq = y.waitq \/ z.waitq = r
    BY <2>1, <2>2 DEF BucketType
  <2>5. CASE d = old
    BY <1>3, <1>13, <2>1, <2>3, <2>4, <2>5
  <2>6. CASE d # old
    BY <1>13, <2>1, <2>6
  <2> QED BY <2>5, <2>6
<1>15. /\ b \in Buckets
       /\ built /\ old = NullBucket => b # NullBucket /\ routes'[route] = b /\ b # NoRoute
       /\ ~(built /\ old = NullBucket) \/ routes[route] # NoRoute => routes' = routes
       /\ \A r \in Routes : r # route => routes'[r] = routes[r]
       /\ \A d \in Buckets : bucket'[d].waitq = q(d) \/ bucket'[d].waitq = <<c>> \o q(d)
  BY <1>8, <1>9, <1>14
<1>16. \E e \in Buckets :
         /\ built /\ old = NullBucket => e # NullBucket /\ routes'[route] = e /\ e # NoRoute
         /\ ~(built /\ old = NullBucket) \/ routes[route] # NoRoute => routes' = routes
         /\ \A r \in Routes : r # route => routes'[r] = routes[r]
         /\ \A d \in Buckets :
              LET s == IF built /\ old = NullBucket THEN Moved(d, e, route) ELSE bucket[d].waitq
              IN  bucket'[d].waitq = s \/ bucket'[d].waitq = <<c>> \o s
  <2> WITNESS b \in Buckets
  <2> QED BY <1>15 DEF q
<1> QED BY <1>16 DEF c, a, old, route, built

LEMMA OrderCheckAction ==
  ASSUME RequestInv, OrderInv, CheckAction, "limited_globally" \notin Kinds
  PROVE  OrderInv'
<1> DEFINE c     == msg.cxt
           a     == msg.answer
           route == cxt[c].route
           moves == a.kind \notin NoAnswer /\ cxt[c].bucket = NullBucket
           again == Retried(c, a)
           req   == cxt[c].req
           w     == Calls
<1>1. TypeInv /\ PlaceInv /\ LogInv /\ pc = "callback"
  BY DEF RequestInv, CheckAction
<1>2. PICK b \in Buckets :
        /\ moves => b # NullBucket /\ routes'[route] = b /\ b # NoRoute
        /\ ~moves \/ routes[route] # NoRoute => routes' = routes
        /\ \A r \in Routes : r # route => routes'[r] = routes[r]
        /\ \A d \in Buckets :
             LET s == IF moves THEN Moved(d, b, route) ELSE bucket[d].waitq
             IN  bucket'[d].waitq = s \/ bucket'[d].waitq = <<c>> \o s
  BY AnsweredQueues
<1> DEFINE q(d) == IF moves THEN Moved(d, b, route) ELSE bucket[d].waitq
<1>3. /\ c \in Contexts /\ a \in AnswerType /\ route \in Routes /\ cxt[c].bucket \in Buckets
      /\ c \in Sent[cxt[c].bucket] /\ c \in Live /\ req \in 1..Len(log)
  BY <1>1, AnsweredOne
<1>4. c \notin Unsent /\ \A d : <<d, c>> \notin w
  <2>1. c \notin Unsent
    BY <1>3, UnsentIs
  <2> QED BY <2>1, IsCall
<1>5. wait' = Past
  <2>1. a.kind # "limited_globally"
    BY <1>3 DEF AnswerType
  <2>2. wait' = wait
    BY <2>1 DEF CheckAction
  <2> QED BY <2>2 DEF OrderInv
<1>6. /\ idleq' = (IF again THEN idleq ELSE Append(idleq, c)) /\ allocated' = allocated
      /\ log' = IF again THEN log
                ELSE [log EXCEPT ![req].state =
                        IF a.kind \in {"ok", "refused", "failed"} THEN "ended" ELSE "gave_up"]
  BY DEF CheckAction
<1>7. \A d \in Contexts : cxt'[d].req = cxt[d].req /\ cxt'[d].route = cxt[d].route
  <2> TAKE d \in Contexts
  <2> DEFINE x == cxt[d]
  <2>1. PICK e \in Buckets, m \in SUBSET Contexts : Answered(e, m)
    BY CheckActionIs
  <2>2. cxt' = [f \in Contexts |->
          IF f = c THEN IF again THEN [cxt[c] EXCEPT !.attempt = cxt[c].attempt + 1, !.timeout = RetryAt(a)]
                                 ELSE [cxt[c] EXCEPT !.timeout = Past, !.attempt = 0]
          ELSE IF f \in m THEN [cxt[f] EXCEPT !.bucket = e] ELSE cxt[f]]
    BY <2>1 DEF Answered, Recycled
  <2> DEFINE n == x.attempt + 1
             t == RetryAt(a)
             zero == 0
             past == Past
  <2>3. \/ cxt'[d] = [x EXCEPT !.attempt = n, !.timeout = t]
        \/ cxt'[d] = [x EXCEPT !.timeout = past, !.attempt = zero]
        \/ cxt'[d] = [x EXCEPT !.bucket = e]
        \/ cxt'[d] = x
    BY <2>2
  <2>4. x \in ContextType
    BY <1>1, Typed
  <2> HIDE DEF x, n, t, zero, past
  <2>5. cxt'[d].req = x.req /\ cxt'[d].route = x.route
    BY <2>3, <2>4 DEF ContextType
  <2> QED BY <2>5 DEF x
<1> HIDE DEF c, a, route, moves, w
<1>8. Live' = Live \ (IF again THEN {} ELSE {c}) /\ Live \subseteq Contexts
  <2>1. idleq \in Seq(Contexts)
    BY <1>1 DEF TypeInv, ListType
  <2>2. Elems(Append(idleq, c)) = Elems(idleq) \cup {c}
    BY <1>3, <2>1, AppendElems
  <2>3. Known \subseteq Contexts
    BY <1>1, Typed
  <2> QED BY <1>6, <2>2, <2>3 DEF Live, Known, Free
<1>9. /\ Len(log') = Len(log) /\ DOMAIN log' = 1..Len(log)
      /\ \A r \in 1..Len(log) : /\ log'[r].sends = log[r].sends
                                /\ r # req => log'[r] = log[r]
      /\ again => log'[req] = log[req]
      /\ ~again => log'[req].state # "live"
  BY CheckActionLog DEF c, a, again, req, CheckAction
<1>10. log'[req].route = log[req].route
  <2> DEFINE over == IF a.kind \in {"ok", "refused", "failed"} THEN "ended" ELSE "gave_up"
             x == log[req]
             y == [x EXCEPT !.state = over]
  <2>1. x \in LogType /\ log \in Seq(LogType)
    BY <1>1, <1>3, Typed DEF TypeInv, LogInType
  <2>2. CASE again
    BY <1>9, <2>2
  <2>3. CASE ~again
    <3>1. log' = [log EXCEPT ![req] = y]
      BY <1>6, <2>3
    <3> HIDE DEF x, req, over
    <3>2. y.route = x.route
      BY <2>1 DEF LogType
    <3> HIDE DEF y
    <3>3. log'[req] = y
      BY <1>3, <2>1, <3>1
    <3> QED BY <3>2, <3>3 DEF x
  <2> QED BY <2>2, <2>3
<1>11. \A r \in 1..Len(log) : /\ log'[r].route = log[r].route
                              /\ log'[r].state = "live" => log[r].state = "live"
  <2>1. log[req].state = "live"
    BY <1>3 DEF LogInv, RequestInv, req
  <2> HIDE DEF req
  <2> QED BY <1>9, <1>10, <2>1
\* The queues before the answered request is put back.
<1>12. ASSUME NEW d \in Buckets
       PROVE  /\ q(d) \in Seq(Contexts) /\ Ordered(q(d), w)
              /\ ~moves => Elems(q(d)) = Waiting[d]
              /\ moves => /\ Waiting[d] \ Of(route) \subseteq Elems(q(d))
                          /\ d # NullBucket => Waiting[d] \subseteq Elems(q(d))
                          /\ d = b => Waiting[NullBucket] \cap Of(route) \subseteq Elems(q(d))
  <2> DEFINE s == bucket[d].waitq
             n == bucket[NullBucket].waitq
             o == Only(n, Of(route))
             p == Only(n, Contexts \ Of(route))
  <2>1. /\ s \in Seq(Contexts) /\ Ordered(s, w) /\ Elems(s) = Waiting[d] /\ Waiting[d] \subseteq Contexts
        /\ n \in Seq(Contexts) /\ Ordered(n, w) /\ Elems(n) = Waiting[NullBucket]
        /\ Waiting[NullBucket] \subseteq Contexts
    BY <1>1, Numbers, Typed DEF OrderInv, InTurn, Waiting, w
  <2> HIDE DEF s, n
  <2>2. CASE ~moves
    BY <2>1, <2>2 DEF s
  <2>3. CASE moves /\ d = NullBucket
    <3>1. p \in Seq(Contexts) /\ Ordered(p, w) /\ Elems(p) = Elems(n) \cap (Contexts \ Of(route))
      BY <2>1, OnlyElems, OrderedOnly
    <3>2. q(d) = p
      BY <2>3 DEF Moved, n
    <3> HIDE DEF p, q
    <3> QED BY <1>2, <2>1, <2>3, <3>1, <3>2
  <2>4. CASE moves /\ d # NullBucket /\ d = b
    <3>1. o \in Seq(Contexts) /\ Ordered(o, w) /\ Elems(o) = Elems(n) \cap Of(route)
      BY <2>1, OnlyElems, OrderedOnly
    <3>2. q(d) = s \o o
      BY <2>4 DEF Moved, n, s
    <3>3. \A e \in Elems(s), f \in Elems(o) : <<f, e>> \notin w
      <4> TAKE e \in Elems(s), f \in Elems(o)
      <4> SUFFICES ASSUME <<f, e>> \in w PROVE FALSE
        OBVIOUS
      <4>1. e \in Unsent /\ f \in Unsent /\ cxt[f].route = cxt[e].route
        BY IsCall DEF w
      <4>2. e \in Waiting[d] /\ f \in Waiting[NullBucket]
        BY <2>1, <3>1
      <4>3. d = BucketOf(cxt[e].route) /\ NullBucket = BucketOf(cxt[f].route)
        BY <4>1, <4>2, UnsentIs, Numbers
      <4> QED BY <2>4, <4>1, <4>3
    <3> HIDE DEF o, q
    <3>4. s \o o \in Seq(Contexts) /\ Elems(s \o o) = Elems(s) \cup Elems(o)
      BY <2>1, <3>1, ConcatElems
    <3>5. Ordered(s \o o, w)
      BY <2>1, <3>1, <3>3, OrderedConcat
    <3> QED BY <2>1, <2>4, <3>1, <3>2, <3>4, <3>5
  <2>5. CASE moves /\ d # NullBucket /\ d # b
    <3>1. q(d) = s
      BY <2>5 DEF Moved, s
    <3> HIDE DEF q
    <3> QED BY <2>1, <2>5, <3>1
  <2> QED BY <2>2, <2>3, <2>4, <2>5
<1>13. \A d \in Buckets : bucket'[d].waitq = q(d) \/ bucket'[d].waitq = <<c>> \o q(d)
  BY <1>2
<1> HIDE DEF q
<1>14. \A d \in Buckets : Ordered(bucket'[d].waitq, w) /\ Elems(q(d)) \subseteq Waiting'[d]
  <2> TAKE d \in Buckets
  <2>1. Waiting'[d] = Elems(bucket'[d].waitq)
    BY DEF Waiting
  <2>2. q(d) \in Seq(Contexts) /\ Ordered(q(d), w)
    BY <1>12
  <2> DEFINE s == q(d)
  <2> HIDE DEF s
  <2>3. s \in Seq(Contexts) /\ Ordered(s, w) /\ \A e \in Elems(s) : <<e, c>> \notin w
    BY <1>4, <2>2 DEF s
  <2>4. Ordered(<<c>> \o s, w) /\ Elems(<<c>> \o s) = Elems(s) \cup {c}
    BY <1>3, <2>3, OrderedCons, ConsElems
  <2> QED BY <1>13, <2>1, <2>2, <2>4 DEF s
<1>15. Homes'
  <2> SUFFICES ASSUME NEW d \in Unsent' PROVE d \in Waiting'[(BucketOf(cxt[d].route))']
    BY DEF Homes
  <2> DEFINE t == cxt[d].route
             h == BucketOf(t)
  <2>1. d \in Unsent /\ cxt'[d].route = t
    <3>1. d \in Live' /\ log'[cxt'[d].req].sends = 0
      BY DEF Unsent
    <3>2. d \in Live /\ d \in Contexts /\ cxt[d].req \in 1..Len(log)
      BY <1>1, <1>8, <3>1 DEF LogInv
    <3> QED BY <1>7, <1>9, <3>1, <3>2 DEF Unsent
  <2>2. h \in Buckets /\ d \in Waiting[h] /\ t \in Routes /\ d \in Contexts
    BY <2>1, UnsentIs
  <2>3. (BucketOf(cxt[d].route))' = IF routes'[t] = NoRoute THEN NullBucket ELSE routes'[t]
    BY <2>1 DEF BucketOf
  <2>4. d \in Of(route) <=> t = route
    BY <2>2 DEF Of
  <2>5. CASE moves /\ t = route
    <3>1. (BucketOf(cxt[d].route))' = b
      BY <1>2, <2>3, <2>5
    <3>2. d \in Elems(q(b))
      <4>1. h = NullBucket \/ h # NullBucket
        OBVIOUS
      <4>2. CASE h = NullBucket
        <5> HIDE DEF h
        <5>1. d \in Waiting[NullBucket] \cap Of(route)
          BY <2>2, <2>4, <2>5, <4>2
        <5> QED BY <1>2, <1>12, <2>5, <5>1
      <4>3. CASE h # NullBucket
        <5>1. h = routes[t] /\ routes[t] # NoRoute
          BY <4>3 DEF BucketOf
        <5>2. h = b
          BY <1>2, <2>5, <5>1
        <5> HIDE DEF h
        <5> QED BY <1>2, <1>12, <2>2, <2>5, <4>3, <5>2
      <4> QED BY <4>2, <4>3
    <3> QED BY <1>14, <3>1, <3>2
  <2>6. CASE moves /\ t # route
    <3>1. (BucketOf(cxt[d].route))' = h
      BY <1>2, <2>2, <2>3, <2>6 DEF BucketOf
    <3> HIDE DEF h, t
    <3>2. d \in Waiting[h] \ Of(route)
      BY <2>2, <2>4, <2>6
    <3> QED BY <1>12, <1>14, <2>2, <2>6, <3>1, <3>2
  <2>7. CASE ~moves
    <3>1. (BucketOf(cxt[d].route))' = h
      BY <1>2, <2>3, <2>7 DEF BucketOf
    <3> HIDE DEF h, t
    <3> QED BY <1>12, <1>14, <2>2, <2>7, <3>1
  <2> QED BY <2>5, <2>6, <2>7
<1>16. SentInOrder'
  BY <1>9, <1>11, SameOrder
<1>17. \A d \in Live \ Live' : log'[cxt[d].req].state # "live"
  BY <1>8, <1>9 DEF req
<1>18. \A d \in Buckets : Ordered(bucket'[d].waitq, Calls)
  BY <1>14 DEF w
<1>19. Live' \subseteq Live /\ \A d \in Live' : cxt'[d].req = cxt[d].req /\ cxt'[d].route = cxt[d].route
  BY <1>7, <1>8
<1> QED BY <1>5, <1>9, <1>11, <1>15, <1>16, <1>17, <1>18, <1>19, OrderStep

\* Without priorities (async.attr.high_p) and without answers that set a global limit,
\* the requests of a route are sent for the first time in the order of their calls,
\* whether they meet in b_null, move with _discord_bucket_null_filter to the bucket an
\* answer named, or wait behind a retry.
THEOREM OrderIsKept ==
  ASSUME TRUE \notin Priorities, "limited_globally" \notin Kinds
  PROVE  Spec => []SentInOrder
<1>1. ASSUME RequestInv, OrderInv, [Next]_vars PROVE OrderInv'
  <2>1. ASSUME NEW route \in Routes, NEW high \in Priorities, Enqueue(route, high) PROVE OrderInv'
    <3>1. high = FALSE
      BY RequestsAssumption
    <3> QED BY <1>1, <2>1, <3>1, OrderEnqueue
  <2>2. CASE StopAll
    BY <1>1, <2>2, OrderStopAll
  <2>3. CASE Tick
    BY <1>1, <2>3, OrderTick
  <2>4. CASE Perform \/ TimeoutsChecked \/ Performed \/ UNCHANGED vars
    BY <1>1, <2>4, OrderQuiet DEF Perform, TimeoutsChecked, Performed, vars
  <2>5. ASSUME NEW c \in Contexts, CheckTimeouts(c) PROVE OrderInv'
    BY <1>1, <2>5, OrderCheckTimeouts
  <2>6. CASE CheckPending
    BY <1>1, <2>6, OrderCheckPending
  <2>7. ASSUME NEW c \in Contexts, ReadAny(c) PROVE OrderInv'
    BY <1>1, <2>7, OrderRead DEF ReadAny
  <2>8. CASE CheckAction
    BY <1>1, <2>8, OrderCheckAction
  <2> QED BY <1>1, <2>1, <2>2, <2>3, <2>4, <2>5, <2>6, <2>7, <2>8 DEF Next, Turn, User
<1>2. RequestInv /\ OrderInv /\ [Next]_vars => OrderInv'
  BY <1>1
<1>3. Init => OrderInv
  BY OrderInit
<1>4. OrderInv => SentInOrder
  BY DEF OrderInv
<1> QED BY <1>2, <1>3, <1>4, RequestInvariant, PTL DEF Spec

=============================================================================
