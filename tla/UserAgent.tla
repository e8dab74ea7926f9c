------------------------------ MODULE UserAgent ------------------------------
(***************************************************************************)
(* The connection handles of user-agent.c that threads share: one that is  *)
(* idle is used again with the request header it has and with the buffers  *)
(* of its last answer, which ua_conn_reset empties.  connq->lock is held   *)
(* where handles change queues, which makes each change one step.          *)
(***************************************************************************)
EXTENDS Naturals, SequencesExt

CONSTANT MaxConns   \* bound: handles, one for each thread

VARIABLES
  idle, busy,  \* connq->idle, connq->busy
  conn         \* struct ua_conn: what the properties tell apart

uaVars == <<idle, busy, conn>>

NoType == "none"

\* _ua_conn_init: the header has no content type yet, nothing was received.
NewConn == [content_type |-> NoType, received |-> <<>>]

UaInit == idle = <<>> /\ busy = <<>> /\ conn = [c \in 1..MaxConns |-> NewConn]

Total == Len(idle) + Len(busy)   \* connq->total

\* Mutant of Taken: the handle stays in the idle queue.
Taken_Shared(c) == idle

\* The handle ua_conn_start returns, and what it leaves idle.
NextConn == IF idle = <<>> THEN Total + 1 ELSE Head(idle)
Taken(c) == IF idle = <<>> THEN idle ELSE Tail(idle)

\* Mutant of WithType: a field that is there is left as it is.
WithType_Kept(x, type) == IF x.content_type = NoType THEN [x EXCEPT !.content_type = type] ELSE x

\* ua_conn_add_header: a field of this name is replaced, or else one is added.
WithType(x, type) == [x EXCEPT !.content_type = type]

\* ua_conn_start, and the header of the request, which nobody else can reach.
ConnStart(c, type) ==
  /\ c = NextConn
  /\ idle' = Taken(c) /\ busy' = Append(busy, c)
  /\ conn' = [conn EXCEPT ![c] = WithType(@, type)]

\* libcurl calls _ua_conn_respheader_cb and _ua_conn_respbody_cb: the answer to
\* a request is added to what has been received.
Receive(c, answer) ==
  /\ conn' = [conn EXCEPT ![c].received = Append(@, answer)]
  /\ UNCHANGED <<idle, busy>>

\* ua_info_get_header looks for the first field of a name.
HeaderOf(c) == Head(conn[c].received)

\* Mutant of WithoutAnswer: what was received is kept.
WithoutAnswer_Kept(x) == x

\* _ua_info_reset
WithoutAnswer(x) == [x EXCEPT !.received = <<>>]

\* ua_conn_reset
ConnReset(c) ==
  /\ conn' = [conn EXCEPT ![c] = WithoutAnswer(@)]
  /\ UNCHANGED <<idle, busy>>

\* ua_conn_stop
ConnStop(c) ==
  /\ conn' = [conn EXCEPT ![c] = WithoutAnswer(@)]
  /\ \E i \in DOMAIN busy : busy[i] = c /\ busy' = RemoveAt(busy, i)
  /\ idle' = Append(idle, c)
=============================================================================
