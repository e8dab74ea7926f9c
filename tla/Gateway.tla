------------------------------ MODULE Gateway ------------------------------
(***************************************************************************)
(* The Discord session of discord-gateway.c and the loop of discord_run,   *)
(* on top of WebSockets, with the worker threads that run the callbacks of *)
(* the user, and the server.                                               *)
(*                                                                         *)
(* The main thread runs discord_run; `main' says where it is.  A worker    *)
(* thread takes an event from the thread pool and runs the user's callback *)
(* which may call discord_gateway_shutdown or discord_gateway_reconnect:   *)
(* its writes to gw->session are separate steps ("TODO: MT-Unsafe          *)
(* section"), ws_close is one.  Timestamps are kept as ages, counted in    *)
(* ticks of 5 ms and no further than they matter.                          *)
(*                                                                         *)
(* The server greets once per connection, answers IDENTIFY and RESUME,     *)
(* acknowledges each heartbeat at most once, and may close, drop the       *)
(* connection, reconnect or invalidate the session whenever it likes.      *)
(* start_limit.max_concurrency is 1.                                       *)
(***************************************************************************)
EXTENDS WebSockets, Integers

CONSTANTS
  RetryLimit,   \* session->retry.limit (5 in discord_gateway_init)
  Interval,     \* heartbeat_interval of the HELLO, in ticks
  FiveSeconds,  \* the period of the identify limit, in ticks
  MaxAcks,      \* bound: the server acknowledges no more than this ahead
  Workers,      \* the worker threads of the pool
  QueueSize,    \* the queue size of the pool
  Modes,        \* what the user's scheduler answers
  UserCalls,    \* what the user's callbacks call
  CloseCodes,   \* the classes of close codes the server uses
  RunsAgain     \* whether discord_run is called again after it returned

ASSUME GatewayAssumption ==
  /\ RetryLimit \in Nat \ {0} /\ Interval \in Nat /\ FiveSeconds \in Nat \ {0}
  /\ MaxAcks \in Nat /\ QueueSize \in Nat \ {0}
  /\ Modes \subseteq {"ignore", "main", "worker"} /\ Modes # {}
  /\ UserCalls \subseteq {"shutdown", "reconnect", "resume"}
  /\ CloseCodes \subseteq {"fatal", "normal", "timed_out", "other"}
  /\ RunsAgain \in BOOLEAN

VARIABLES
  main,      \* where the main thread is
  session,   \* gw->session
  timer,     \* gw->timer: ages of hbeat and identify, hbeat_ack_count
  code,      \* the close code in the hands of on_close_cb
  work,      \* events in the queue of the thread pool
  worker,    \* where each worker thread is, and what its callback calls
  server,    \* what the server does next on this connection
  unacked,   \* heartbeats of this connection that are not acknowledged
  opens      \* history: connections opened since the session was last ready

gwVars == <<main, session, timer, code, work, worker, server, unacked, opens>>
vars   == <<wsVars, gwVars>>

None == "none"

GwInit ==
  /\ WsInit
  /\ main = "start"
  /\ session = [status |-> {}, is_ready |-> FALSE, id |-> FALSE,
                enable |-> TRUE, attempt |-> 0]
  /\ timer = [hbeat |-> 0, identify |-> FiveSeconds, acks |-> 0]
  /\ code = None
  /\ work = 0
  /\ worker = [w \in Workers |-> [at |-> "idle", call |-> None]]
  /\ server = "quiet" /\ unacked = 0 /\ opens = 0

Older(age, limit) == IF age < limit THEN age + 1 ELSE age

\* ws_timestamp_update: "now" moves on by a tick, or not noticeably.
Aged(t) == [t EXCEPT !.hbeat = Older(@, Interval + 1),
                     !.identify = Older(@, FiveSeconds)]

-----------------------------------------------------------------------------
(* What handlers do to the session *)

\* The session while it is closing: discord_gateway_reconnect, on_reconnect
\* and on_invalid_session leave it like this.
Closing(s, resume) ==
  [s EXCEPT !.enable = TRUE,
            !.status = IF resume THEN {"SHUTDOWN", "RESUMABLE"} ELSE {"SHUTDOWN"}]

\* A user's call in the main thread; None is no call.
UserCalled(s, call) ==
  CASE call = "shutdown"  -> [s EXCEPT !.enable = FALSE, !.status = {"SHUTDOWN"}]
    [] call = "reconnect" -> Closing(s, FALSE)
    [] call = "resume"    -> Closing(s, TRUE)
    [] OTHER              -> s

\* Mutant of Heartbeat: a missing acknowledgement is not noticed.
Heartbeat_NoCheck(s, t) ==
  [session |-> s, closes |-> FALSE, sent |-> Sendable,
   timer |-> [t EXCEPT !.hbeat = 0, !.acks = @ - 1]]

\* send_heartbeat: reconnect when the last one was not acknowledged.
Heartbeat(s, t) ==
  IF t.acks < 0
  THEN [session |-> Closing(s, TRUE), closes |-> TRUE, sent |-> FALSE,
        timer |-> [t EXCEPT !.acks = 0]]
  ELSE [session |-> s, closes |-> FALSE, sent |-> Sendable,
        timer |-> [t EXCEPT !.hbeat = 0, !.acks = @ - 1]]

Sent(sent) == IF sent THEN unacked + 1 ELSE unacked

-----------------------------------------------------------------------------
(* discord_gateway_start *)

\* Mutant of GivesUp: one attempt too many.
GivesUp_Late == session.attempt > RetryLimit
GivesUp == session.attempt >= RetryLimit

\* It fails: too many attempts, no answer to /gateway/bot, or no sessions left.
\* discord_run returns without discord_gateway_end.
StartFails ==
  /\ main = "start"
  /\ main' = "done"
  /\ UNCHANGED <<wsVars, session, timer, code, work, worker, server, unacked, opens>>

\* The answer to /gateway/bot arrives, no sooner than a tick later.
Start ==
  /\ main = "start"
  /\ ~GivesUp
  /\ main' = "reset"
  /\ timer' = Aged(timer)
  /\ UNCHANGED <<wsVars, session, code, work, worker, server, unacked, opens>>

StartReset ==
  /\ main = "reset"
  /\ WsReset
  /\ main' = "connect"
  /\ UNCHANGED <<session, timer, code, work, worker, server, unacked, opens>>

StartConnect ==
  /\ main = "connect"
  /\ WsConnect
  /\ main' = "loop"
  /\ server' = "quiet" /\ unacked' = 0
  /\ opens' = opens + 1
  /\ UNCHANGED <<session, timer, code, work, worker>>

-----------------------------------------------------------------------------
(* discord_gateway_perform: ws_easy_run and the callbacks it makes *)

EasyRun ==
  /\ main = "loop"
  /\ main' = "perform"
  /\ timer' \in {timer, Aged(timer)}
  /\ UNCHANGED <<wsVars, session, code, work, worker, server, unacked, opens>>

\* Events of the connection that websockets.c handles alone.
Silent ==
  /\ main = "perform"
  /\ OnConnect \/ TlsCloseNotify \/ ProtocolError
  /\ UNCHANGED gwVars

ConnectionLost ==
  /\ main = "perform"
  /\ TransferEnds
  /\ main' = "after"
  /\ UNCHANGED <<session, timer, code, work, worker, server, unacked, opens>>

\* The progress callback, before the next read or at the end of the transfer's
\* turn in curl_multi_perform.
ProgressTo(next) ==
  /\ main = "perform"
  /\ Progress
  /\ main' = IF running' THEN next ELSE "after"
  /\ UNCHANGED <<session, timer, code, work, worker, server, unacked, opens>>

\* on_hello
Hello ==
  /\ main = "perform" /\ server = "quiet"
  /\ WsText(FALSE)
  /\ LET resume == "RESUMABLE" \in session.status
     IN  /\ session' = [session EXCEPT !.status = @ \ {"RESUMABLE"}]
         /\ server' = IF resume THEN "resume" ELSE "identify"
         /\ timer' = [timer EXCEPT !.hbeat = 0,
                                   !.identify = IF resume THEN @ ELSE 0]
         /\ main' = IF ~resume /\ timer.identify < 1 THEN "aborted" ELSE main
  /\ UNCHANGED <<code, work, worker, unacked, opens>>

\* The events of on_dispatch, and the answers of the server they are.
Expected(event) ==
  CASE event = "READY"   -> server = "identify"
    [] event = "RESUMED" -> server = "resume" /\ session.id
    [] event = "MESSAGE" -> server = "up"

Ready(event) ==
  CASE event = "READY"   -> [session EXCEPT !.is_ready = TRUE, !.id = TRUE, !.attempt = 0]
    [] event = "RESUMED" -> [session EXCEPT !.is_ready = TRUE, !.attempt = 0]
    [] OTHER             -> session

\* on_dispatch: READY and RESUMED send a heartbeat, then the user's callback
\* runs here or on a worker thread; RESUMED has no callback.  When the pool
\* refuses the event the assertion on work_run aborts the program.
Dispatch(event, mode, call) ==
  /\ main = "perform" /\ Expected(event)
  /\ event = "RESUMED" => mode = "ignore"
  /\ mode # "main" => call = None
  /\ LET up == event # "MESSAGE"
         b  == IF up THEN Heartbeat(Ready(event), timer)
               ELSE [session |-> session, timer |-> timer, closes |-> FALSE, sent |-> FALSE]
     IN  /\ session' = UserCalled(b.session, call)
         /\ timer' = b.timer
         /\ unacked' = Sent(b.sent)
         /\ WsText(b.closes \/ call # None)
         /\ opens' = IF up THEN 0 ELSE opens
  /\ server' = "up"
  /\ work' = IF mode = "worker" /\ work < QueueSize THEN work + 1 ELSE work
  /\ main' = IF mode = "worker" /\ work = QueueSize THEN "aborted" ELSE main
  /\ UNCHANGED <<code, worker>>

\* on_invalid_session
InvalidSession(resumable) ==
  /\ main = "perform" /\ server # "quiet"
  /\ WsText(TRUE)
  /\ session' = Closing(session, resumable)
  /\ UNCHANGED <<main, timer, code, work, worker, server, unacked, opens>>

\* on_reconnect
Reconnect ==
  /\ main = "perform" /\ server # "quiet"
  /\ WsText(TRUE)
  /\ session' = Closing(session, TRUE)
  /\ UNCHANGED <<main, timer, code, work, worker, server, unacked, opens>>

\* on_heartbeat_ack
HeartbeatAck ==
  /\ main = "perform" /\ unacked > 0 /\ timer.acks < MaxAcks
  /\ WsText(FALSE)
  /\ timer' = [timer EXCEPT !.acks = @ + 1]
  /\ unacked' = unacked - 1
  /\ UNCHANGED <<main, session, code, work, worker, server, opens>>

\* The connection is closed with code c, or its upgrade is refused: the session
\* is looked at ...
CloseReceived(c) ==
  /\ main = "perform"
  /\ OnClose(TRUE) \/ (OnClose(FALSE) /\ c = "other")
  /\ main' = "on_close"
  /\ code' = IF "SHUTDOWN" \in session.status THEN None ELSE c
  /\ UNCHANGED <<session, timer, work, worker, server, unacked, opens>>

\* Mutant of Closed: every close is followed by a retry.
Closed_Always(s, c) == Closing(s, FALSE)

\* ... and then changed, unless it was already closing (code None).
Closed(s, c) ==
  CASE c = None     -> s
    [] c = "normal" -> [s EXCEPT !.status = @ \cup {"SHUTDOWN", "RESUMABLE"}, !.enable = FALSE]
    [] OTHER        -> [s EXCEPT !.status = (@ \cup {"SHUTDOWN"}) \ {"RESUMABLE"},
                                 !.enable = (c # "fatal")]

CloseDone ==
  /\ main = "on_close"
  /\ CloseHandled
  /\ session' = Closed(session, code)
  /\ code' = None
  /\ main' = IF running' THEN "perform" ELSE "after"
  /\ UNCHANGED <<timer, work, worker, server, unacked, opens>>

-----------------------------------------------------------------------------
(* The rest of the loop *)

\* ws_easy_run returns false.
Disconnected ==
  /\ main = "after" /\ ~running
  /\ main' = "end"
  /\ UNCHANGED <<wsVars, session, timer, code, work, worker, server, unacked, opens>>

\* Mutant of Overdue: the interval never passes.
Overdue_Never == FALSE
Overdue == Interval < timer.hbeat

\* Nothing to do while the session is closing or not ready.
Idle == "SHUTDOWN" \in session.status \/ ~session.is_ready

\* The heartbeat, and on_idle, which may call the user's functions.
Perform(call) ==
  /\ main = "after" /\ running
  /\ Idle => call = None
  /\ LET b == IF Idle \/ ~Overdue
              THEN [session |-> session, timer |-> timer, closes |-> FALSE, sent |-> FALSE]
              ELSE Heartbeat(session, timer)
     IN  /\ session' = UserCalled(b.session, call)
         /\ timer' = b.timer
         /\ unacked' = Sent(b.sent)
         /\ action' = IF b.closes \/ call # None THEN "BEGIN_CLOSE" ELSE action
  /\ main' = "adapter"
  /\ UNCHANGED <<status, handle, running, accepted, closed, code, work, worker, server, opens>>

\* discord_adapter_perform, whose error ends the loop with the transfer running.
AdapterPerform ==
  /\ main = "adapter"
  /\ main' \in {"loop", "end"}
  /\ UNCHANGED <<wsVars, session, timer, code, work, worker, server, unacked, opens>>

\* Mutant of Ended: the session stays ready.
Ended_Ready(s) ==
  IF s.enable THEN [s EXCEPT !.status = @ \cap {"RESUMABLE"}, !.attempt = @ + 1]
  ELSE [s EXCEPT !.status = {}, !.attempt = 0]

\* What discord_gateway_end makes of the session.
Ended(s) ==
  IF s.enable
  THEN [s EXCEPT !.status = @ \cap {"RESUMABLE"}, !.is_ready = FALSE, !.attempt = @ + 1]
  ELSE [s EXCEPT !.status = {}, !.is_ready = FALSE, !.attempt = 0]

\* discord_gateway_end: it returns true when the loop of discord_run is over.
End ==
  /\ main = "end"
  /\ WsEnd
  /\ session' = Ended(session)
  /\ main' = IF session.enable THEN "start" ELSE "done"
  /\ UNCHANGED <<timer, code, work, worker, server, unacked, opens>>

\* The user calls discord_run once more.
RunAgain ==
  /\ main = "done" /\ RunsAgain
  /\ main' = "start"
  /\ opens' = 0
  /\ UNCHANGED <<wsVars, session, timer, code, work, worker, server, unacked>>

-----------------------------------------------------------------------------
(* The user's callbacks on worker threads *)

\* A worker takes an event; its callback calls nothing, or stores to
\* session->retry.enable, the first statement of the function it calls.
WorkerTakes(w, call) ==
  /\ work > 0 /\ worker[w].at = "idle"
  /\ work' = work - 1
  /\ worker' = [worker EXCEPT ![w] = [at |-> IF call = None THEN "idle" ELSE "status",
                                      call |-> call]]
  /\ session' = [session EXCEPT !.enable = IF call = None THEN @ ELSE call # "shutdown"]
  /\ UNCHANGED <<wsVars, main, timer, code, server, unacked, opens>>

\* session->status, the second.
WorkerStatus(w) ==
  /\ worker[w].at = "status"
  /\ session' = [session EXCEPT !.status = UserCalled(session, worker[w].call).status]
  /\ worker' = [worker EXCEPT ![w].at = "close"]
  /\ UNCHANGED <<wsVars, main, timer, code, work, server, unacked, opens>>

\* ws_close, the last.
WorkerCloses(w) ==
  /\ worker[w].at = "close"
  /\ WsClose
  /\ worker' = [worker EXCEPT ![w] = [at |-> "idle", call |-> None]]
  /\ UNCHANGED <<main, session, timer, code, work, server, unacked, opens>>

-----------------------------------------------------------------------------
Calls == UserCalls \cup {None}

Server ==
  \/ Silent \/ ConnectionLost \/ Hello \/ Reconnect \/ HeartbeatAck
  \/ \E event \in {"READY", "RESUMED", "MESSAGE"}, mode \in Modes \cup {"ignore"},
        call \in Calls : Dispatch(event, mode, call)
  \/ \E b \in BOOLEAN : InvalidSession(b)
  \/ \E c \in CloseCodes : CloseReceived(c)

Loop ==
  \/ StartFails \/ Start \/ StartReset \/ StartConnect \/ EasyRun \/ CloseDone
  \/ Disconnected \/ AdapterPerform \/ End
  \/ \E next \in {"perform", "after"} : ProgressTo(next)
  \/ \E call \in Calls : Perform(call)

WorkerStep(w) ==
  WorkerStatus(w) \/ WorkerCloses(w) \/ \E call \in Calls : WorkerTakes(w, call)

\* discord_run has returned, or the program was aborted.
Stopped == main \in {"done", "aborted"} /\ UNCHANGED vars

GwNext ==
  \/ Server \/ Loop \/ RunAgain \/ Stopped
  \/ \E w \in Workers : WorkerStep(w)

\* The main thread runs on, time passes, libcurl calls the progress callback and ends the
\* transfer's turn, the timeout that cws_close sets ends a closing transfer,
\* and a worker goes on with a call it has begun.  Nothing is assumed of the
\* server, and nothing of the users' callbacks.
GwFairness ==
  /\ WF_vars(Start \/ StartFails) /\ WF_vars(StartReset) /\ WF_vars(StartConnect)
  /\ WF_vars(EasyRun) /\ SF_vars(EasyRun /\ timer' = Aged(timer)) /\ WF_vars(CloseDone) /\ WF_vars(Disconnected)
  /\ WF_vars(AdapterPerform) /\ WF_vars(End)
  /\ WF_vars(ProgressTo("after")) /\ WF_vars(Perform(None))
  /\ SF_vars(closed /\ ConnectionLost)
  /\ \A w \in Workers : WF_vars(WorkerStatus(w)) /\ WF_vars(WorkerCloses(w))

GwSpec  == GwInit /\ [][GwNext]_vars
GwFairSpec == GwSpec /\ GwFairness
-----------------------------------------------------------------------------
(* Properties *)

Flags == SUBSET {"RESUMABLE", "SHUTDOWN"}

\* Every variable has its type.
GwTypeOK ==
  /\ WsTypeOK
  /\ main \in {"start", "reset", "connect", "loop", "perform", "on_close", "after",
               "adapter", "end", "done", "aborted"}
  /\ session \in [status : Flags, is_ready : BOOLEAN, id : BOOLEAN, enable : BOOLEAN,
                  attempt : Nat]
  /\ timer \in [hbeat : 0 .. Interval + 1, identify : 0 .. FiveSeconds,
                acks : -1 .. MaxAcks]
  /\ code \in CloseCodes \cup {None, "other"}
  /\ work \in 0 .. QueueSize
  /\ worker \in [Workers -> [at : {"idle", "status", "close"}, call : UserCalls \cup {None}]]
  /\ server \in {"quiet", "identify", "resume", "up"}
  /\ unacked \in 0 .. MaxAcks + 1
  /\ opens \in Nat

\* discord_gateway_perform sends heartbeats only for a session that is ready,
\* and one is ready only on a connection the server accepted, after it gave the
\* session an id: discord_gateway_end and the callbacks keep the two together.
ReadyMeansOnline ==
  session.is_ready =>
    /\ status \in {"CONNECTED", "DISCONNECTING"}
    /\ accepted /\ session.id
    /\ main \notin {"start", "reset", "connect", "done"}

\* retry.limit: no more than RetryLimit connections are opened without one of
\* them reaching READY or RESUMED, whoever asks for the reconnects.
ReconnectsBounded == opens <= RetryLimit

\* A close that ws_close has requested, or that has begun, ends the connection,
\* although threads overwrite each other's requests outside the lock.
RequestedCloseEnds ==
  (action = "BEGIN_CLOSE" \/ status = "DISCONNECTING")
     ~> (status = "DISCONNECTED" \/ main = "aborted")

\* A server that stops to acknowledge heartbeats is left.
DeadServerIsLeft ==
  \/ []<><<HeartbeatAck>>_vars
  \/ (session.is_ready /\ unacked > 0)
        ~> (unacked = 0 \/ ~session.is_ready \/ main = "aborted")

\* A close code that makes reconnecting useless ends the run.
FatalCloseEnds == (main = "on_close" /\ code = "fatal") ~> main = "done"

\* discord_run implements the session's promise.
Abstract ==
  INSTANCE Session WITH
    MaxTries <- RetryLimit,
    tries <- opens,
    phase <- IF main \in {"done", "aborted"}     THEN "over"
             ELSE IF status = "DISCONNECTED"     THEN "offline"
             ELSE IF status = "DISCONNECTING"    THEN "closing"
             ELSE IF session.is_ready            THEN "online"
             ELSE "connecting"

ImplementsSession == Abstract!FairSpec

-----------------------------------------------------------------------------
(* What comments say of the code, and the code does not do *)

\* discord.h, discord_shutdown: "Gracefully shutdown an ongoing Discord
\* connection".  A session that was told to shut down is over.
ShutdownEnds ==
  (~session.enable /\ session.status = {"SHUTDOWN"}) ~> main = "done"

\* DISCORD_SESSION_SHUTDOWN: "client in the process of being shutdown".
FlagMeansClosing ==
  "SHUTDOWN" \in session.status ~> (status = "DISCONNECTED" \/ main = "aborted")

\* send_heartbeat: "send heartbeat pulse to websockets server in order to
\* maintain connection alive": a session that goes online is not closed at once
\* for an acknowledgement an earlier connection missed.
FreshSessionStays ==
  [][opens > 0 /\ opens' = 0 /\ "SHUTDOWN" \notin session.status
       => "SHUTDOWN" \notin session'.status]_vars

\* send_identify: "Reach identify request threshold (%d every 5 seconds)".
IdentifyRate ==
  [][server = "quiet" /\ server' = "identify" => timer.identify >= FiveSeconds]_vars

\* on_dispatch: the assertion that work_run accepts the event.
EventsAreQueued == main # "aborted"
=============================================================================
