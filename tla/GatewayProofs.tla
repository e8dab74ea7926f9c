---------------------------- MODULE GatewayProofs ----------------------------
(***************************************************************************)
(* Theorems about WebSockets and Gateway, for every retry limit, every     *)
(* number of workers and every use of the user's callbacks.                *)
(*                                                                         *)
(* The connection's part is proved of WebSockets alone, from the steps it  *)
(* offers; Gateway takes only such steps.  The session's part then needs   *)
(* where the main thread is, and so do the types: what each place in the   *)
(* code implies, and how long a heartbeat may wait.  The last part shows   *)
(* that every step of Gateway is a step of Session or none.                *)
(***************************************************************************)
EXTENDS Gateway, TLAPS

(* The connection *)

WsInv == WsTypeOK /\ HandleMatchesStatus

\* What StatusCycle says of one step.
Cycle ==
  /\ status' = "CONNECTED" => status \in {"CONNECTING", "CONNECTED"}
  /\ status' = "CONNECTING" => status \in {"DISCONNECTED", "CONNECTING"}
  /\ status = "DISCONNECTING" => status' \in {"DISCONNECTING", "DISCONNECTED"}

\* Every step that websockets.c offers keeps the assertions and the cycle.
LEMMA WsStep ==
  ASSUME WsInv, [WsNext]_wsVars
  PROVE  WsInv' /\ Cycle
<1> USE DEF WsInv, WsTypeOK, HandleMatchesStatus, Receiving, Cycle
<1>1. CASE WsReset
  BY <1>1 DEF WsReset
<1>2. CASE WsConnect
  BY <1>2 DEF WsConnect, SetStatus
<1>3. CASE WsEnd
  BY <1>3 DEF WsEnd
<1>4. CASE WsClose
  BY <1>4 DEF WsClose
<1>5. CASE OnConnect
  BY <1>5 DEF OnConnect, SetStatus
<1>6. CASE CloseHandled
  BY <1>6 DEF CloseHandled
<1>7. CASE TlsCloseNotify
  BY <1>7 DEF TlsCloseNotify, WsClose
<1>8. CASE ProtocolError
  BY <1>8 DEF ProtocolError
<1>9. CASE Progress
  BY <1>9 DEF Progress
<1>10. CASE TransferEnds
  BY <1>10 DEF TransferEnds
<1>11. ASSUME NEW b \in BOOLEAN, WsText(b) PROVE WsInv' /\ Cycle
  BY <1>11 DEF WsText
<1>12. ASSUME NEW b \in BOOLEAN, OnClose(b) PROVE WsInv' /\ Cycle
  BY <1>12 DEF OnClose, SetStatus
<1>13. CASE UNCHANGED wsVars
  BY <1>13 DEF wsVars
<1> QED
  BY <1>1, <1>2, <1>3, <1>4, <1>5, <1>6, <1>7, <1>8, <1>9, <1>10, <1>11, <1>12, <1>13
     DEF WsNext

\* A connection that was never started is disconnected and has no handle.
LEMMA WsInitially == WsInit => WsInv
BY DEF WsInit, WsInv, WsTypeOK, HandleMatchesStatus, Receiving

\* discord-gateway.c and discord_run use the connection only as websockets.c
\* offers it: they start what is disconnected, and end what was started.
LEMMA GwStepIsWsStep == [GwNext]_vars => [WsNext]_wsVars
<1> SUFFICES ASSUME [GwNext]_vars PROVE [WsNext]_wsVars
  OBVIOUS
<1> USE DEF WsNext
<1>1. ASSUME NEW event, NEW mode, NEW call, Dispatch(event, mode, call)
      PROVE  [WsNext]_wsVars
  <2>1. PICK b \in BOOLEAN : WsText(b)
    BY <1>1 DEF Dispatch, Heartbeat
  <2> QED BY <2>1
<1>2. ASSUME NEW c, CloseReceived(c) PROVE [WsNext]_wsVars
  BY <1>2 DEF CloseReceived
<1>3. CASE Server
  BY <1>1, <1>2, <1>3
     DEF Server, Silent, ConnectionLost, Hello, Reconnect, HeartbeatAck, InvalidSession, gwVars
<1>4. ASSUME NEW call, Perform(call) PROVE [WsNext]_wsVars
  <2>1. action' = action \/ action' = "BEGIN_CLOSE"
    BY <1>4 DEF Perform
  <2>2. UNCHANGED <<status, handle, running, accepted, closed>>
    BY <1>4 DEF Perform
  <2> QED BY <2>1, <2>2 DEF WsClose, wsVars
<1>5. ASSUME NEW next, ProgressTo(next) PROVE [WsNext]_wsVars
  BY <1>5 DEF ProgressTo
<1>6. CASE Loop
  BY <1>4, <1>5, <1>6
     DEF Loop, StartFails, Start, StartReset, StartConnect, EasyRun, CloseDone, Disconnected,
         AdapterPerform, End
<1>7. CASE RunAgain
  BY <1>7 DEF RunAgain
<1>8. ASSUME NEW w \in Workers, WorkerStep(w) PROVE [WsNext]_wsVars
  BY <1>8 DEF WorkerStep, WorkerTakes, WorkerStatus, WorkerCloses
<1>9. CASE Stopped \/ UNCHANGED vars
  BY <1>9 DEF Stopped, vars
<1> QED BY <1>3, <1>6, <1>7, <1>8, <1>9 DEF GwNext

\* The assertions of websockets.c on its handle and status hold in every
\* interleaving of the main thread, the callbacks and the worker threads.
THEOREM HandleCorrect == GwSpec => []HandleMatchesStatus
<1>1. GwInit => WsInv
  BY WsInitially DEF GwInit
<1>2. WsInv /\ [GwNext]_vars => WsInv'
  BY WsStep, GwStepIsWsStep
<1>3. WsInv => HandleMatchesStatus
  BY DEF WsInv
<1> QED BY <1>1, <1>2, <1>3, PTL DEF GwSpec

\* The status of the connection follows its cycle, whatever thread closes.
THEOREM CycleCorrect == GwSpec => StatusCycle
<1>1. GwInit => WsInv
  BY WsInitially DEF GwInit
<1>2. WsInv /\ [GwNext]_vars => WsInv'
  BY WsStep, GwStepIsWsStep
<1>3. WsInv /\ [GwNext]_vars => [Cycle]_wsVars
  BY WsStep, GwStepIsWsStep
<1>4. StatusCycle <=> [][Cycle]_wsVars
  BY PTL DEF StatusCycle, Cycle
<1> QED BY <1>1, <1>2, <1>3, <1>4, PTL DEF GwSpec

-----------------------------------------------------------------------------
(* The session *)

SessionRecord ==
  [status : Flags, is_ready : BOOLEAN, id : BOOLEAN, enable : BOOLEAN, attempt : Nat]

\* Where the main thread is on its way to a connection, and where it has one.
Opening == {"start", "reset", "connect"}
Over    == {"done", "aborted"}

\* What keeps the reconnects bounded: the attempts that discord_gateway_start
\* compares with the limit count the connections opened, with one to come.
Retries ==
  /\ opens \in Nat
  /\ session.attempt <= RetryLimit /\ opens <= RetryLimit
  /\ main \notin Over \cup {"start"} => session.attempt < RetryLimit
  /\ main \in Opening => opens <= session.attempt
  /\ main \notin Opening \cup Over => opens <= session.attempt + 1

GwInv ==
  /\ WsInv
  /\ session \in SessionRecord
  /\ ReadyMeansOnline
  /\ Retries

\* Two sessions of which the callbacks changed only flags.
Same(s, t) ==
  /\ t \in SessionRecord
  /\ t.is_ready = s.is_ready /\ t.id = s.id /\ t.attempt = s.attempt

\* A user's call leaves the session's progress alone.
LEMMA CalledSame ==
  ASSUME NEW s \in SessionRecord, NEW call
  PROVE  Same(s, UserCalled(s, call))
BY DEF Same, UserCalled, Closing, SessionRecord, Flags

\* So does a close of the connection,
LEMMA ClosedSame ==
  ASSUME NEW s \in SessionRecord, NEW c
  PROVE  Same(s, Closed(s, c))
BY DEF Same, Closed, SessionRecord, Flags

\* and a heartbeat, even one that asks for a reconnect.
LEMMA HeartbeatSame ==
  ASSUME NEW s \in SessionRecord, NEW t
  PROVE  Same(s, Heartbeat(s, t).session)
BY DEF Same, Heartbeat, Closing, SessionRecord, Flags

\* A step that changes the session's flags at most, on a connection that stays
\* accepted and started, with the main thread on the same side of it.
LEMMA SameStep ==
  ASSUME GwInv, WsInv', Same(session, session'),
         opens' = opens, accepted' = accepted,
         status' \in {status, "DISCONNECTING"},
         main' = main \/ main' = "aborted"
           \/ (main \notin Opening \cup Over /\ main' \notin Opening \cup Over)
  PROVE  GwInv'
BY DEF GwInv, Same, ReadyMeansOnline, Retries, Opening, Over, SessionRecord

\* The steps of the main thread from discord_gateway_start to ws_start.
LEMMA OpeningStep ==
  ASSUME GatewayAssumption, GwInv, WsInv',
         StartFails \/ Start \/ StartReset \/ StartConnect
  PROVE  GwInv'
<1> USE DEF GwInv, ReadyMeansOnline, Retries, Opening, Over, SessionRecord
<1>1. CASE StartFails
  BY <1>1 DEF StartFails, wsVars
<1>2. CASE Start
  BY <1>2 DEF Start, GivesUp, GatewayAssumption, wsVars
<1>3. CASE StartReset
  BY <1>3 DEF StartReset
<1>4. CASE StartConnect
  BY <1>4 DEF StartConnect, GatewayAssumption
<1> QED BY <1>1, <1>2, <1>3, <1>4

\* READY and RESUMED end the series of attempts; MESSAGE changes flags.
LEMMA DispatchStep ==
  ASSUME GatewayAssumption, GwInv, WsInv',
         NEW event \in {"READY", "RESUMED", "MESSAGE"}, NEW mode, NEW call,
         Dispatch(event, mode, call)
  PROVE  GwInv'
<1>1. session \in SessionRecord
  BY DEF GwInv
<1>2. accepted /\ accepted' = accepted /\ status' = status
      /\ status \in {"CONNECTED", "DISCONNECTING"}
  BY DEF Dispatch, WsText, Receiving, GwInv, WsInv, HandleMatchesStatus
<1>3. main = "perform" /\ main' \in {"perform", "aborted"}
  BY DEF Dispatch
<1>4. CASE event = "MESSAGE"
  <2>1. session' = UserCalled(session, call) /\ opens' = opens
    BY <1>4 DEF Dispatch
  <2> QED BY <1>1, <1>2, <1>3, <2>1, CalledSame, SameStep DEF Opening, Over
<1>5. CASE event # "MESSAGE"
  <2>1. PICK s : /\ s = Heartbeat(Ready(event), timer).session
                 /\ session' = UserCalled(s, call)
    BY <1>5 DEF Dispatch
  <2>2. Ready(event) \in SessionRecord /\ Ready(event).attempt = 0 /\ Ready(event).id
    BY <1>1, <1>5 DEF Ready, SessionRecord, Dispatch, Expected
  <2>3. Same(Ready(event), s)
    BY <2>1, <2>2, HeartbeatSame
  <2>4. Same(s, session')
    BY <2>1, <2>3, CalledSame DEF Same
  <2>5. session' \in SessionRecord /\ session'.attempt = 0 /\ session'.id
    BY <2>2, <2>3, <2>4 DEF Same
  <2>6. opens' = 0
    BY <1>5 DEF Dispatch
  <2> QED
    BY <1>2, <1>3, <2>5, <2>6
       DEF GwInv, ReadyMeansOnline, Retries, Opening, Over, GatewayAssumption
<1> QED BY <1>4, <1>5

\* The other events of the connection.
LEMMA ServerStep ==
  ASSUME GatewayAssumption, GwInv, WsInv', Server
  PROVE  GwInv'
<1>0. session \in SessionRecord /\ Same(session, session)
  BY DEF GwInv, Same
<1> USE DEF Opening, Over
<1>1. CASE Silent
  <2>1. CASE OnConnect
    \* The connection was not accepted, and the session is not ready.
    BY <1>1, <2>1
       DEF Silent, gwVars, OnConnect, GwInv, ReadyMeansOnline, Retries
  <2>2. CASE TlsCloseNotify \/ ProtocolError
    BY <1>0, <1>1, <2>2, SameStep DEF Silent, gwVars, TlsCloseNotify, WsClose, ProtocolError
  <2> QED BY <1>1, <2>1, <2>2 DEF Silent
<1>2. CASE ConnectionLost
  BY <1>0, <1>2, SameStep DEF ConnectionLost, TransferEnds
<1>3. CASE Hello
  <2>1. Same(session, session')
    BY <1>0, <1>3 DEF Hello, Same, SessionRecord, Flags
  <2> QED BY <1>3, <2>1, SameStep DEF Hello, WsText
<1>4. CASE Reconnect
  <2>1. Same(session, session')
    BY <1>0, <1>4 DEF Reconnect, Closing, Same, SessionRecord, Flags
  <2> QED BY <1>4, <2>1, SameStep DEF Reconnect, WsText
<1>5. CASE HeartbeatAck
  BY <1>0, <1>5, SameStep DEF HeartbeatAck, WsText
<1>6. ASSUME NEW event \in {"READY", "RESUMED", "MESSAGE"}, NEW mode, NEW call,
             Dispatch(event, mode, call)
      PROVE  GwInv'
  BY <1>6, DispatchStep
<1>7. ASSUME NEW b \in BOOLEAN, InvalidSession(b) PROVE GwInv'
  <2>1. Same(session, session')
    BY <1>0, <1>7 DEF InvalidSession, Closing, Same, SessionRecord, Flags
  <2> QED BY <1>7, <2>1, SameStep DEF InvalidSession, WsText
<1>8. ASSUME NEW c, CloseReceived(c) PROVE GwInv'
  BY <1>0, <1>8, SameStep DEF CloseReceived, OnClose, SetStatus
<1> QED BY <1>1, <1>2, <1>3, <1>4, <1>5, <1>6, <1>7, <1>8 DEF Server

\* The steps of the main thread in the loop of discord_run.
LEMMA LoopStep ==
  ASSUME GatewayAssumption, GwInv, WsInv', Loop
  PROVE  GwInv'
<1>0. session \in SessionRecord /\ Same(session, session)
  BY DEF GwInv, Same
<1> USE DEF Opening, Over
<1>1. CASE StartFails \/ Start \/ StartReset \/ StartConnect
  BY <1>1, OpeningStep
<1>2. CASE EasyRun
  BY <1>0, <1>2, SameStep DEF EasyRun, wsVars
<1>3. CASE CloseDone
  <2>1. Same(session, session')
    BY <1>0, <1>3, ClosedSame DEF CloseDone
  <2> QED BY <1>3, <2>1, SameStep DEF CloseDone, CloseHandled
<1>4. CASE Disconnected
  BY <1>0, <1>4, SameStep DEF Disconnected, wsVars
<1>5. CASE AdapterPerform
  BY <1>0, <1>5, SameStep DEF AdapterPerform, wsVars
<1>6. CASE End
  \* The session is no longer ready; the attempt is counted, or the run is over.
  <2>1. session' \in SessionRecord /\ ~session'.is_ready
    <3>1. session.status \cap {"RESUMABLE"} \in Flags /\ {} \in Flags
      BY DEF Flags
    <3>2. session.attempt + 1 \in Nat /\ 0 \in Nat
      BY <1>0 DEF SessionRecord
    <3> QED BY <1>0, <1>6, <3>1, <3>2 DEF End, Ended, SessionRecord
  <2>2. session'.attempt = IF session.enable THEN session.attempt + 1 ELSE 0
    BY <1>0, <1>6 DEF End, Ended, SessionRecord
  <2>3. session.enable \in BOOLEAN /\ session.attempt \in Nat
    BY <1>0 DEF SessionRecord
  <2> QED
    BY <1>6, <2>1, <2>2, <2>3
       DEF End, GwInv, ReadyMeansOnline, Retries, GatewayAssumption
<1>7. ASSUME NEW next \in {"perform", "after"}, ProgressTo(next) PROVE GwInv'
  BY <1>0, <1>7, SameStep DEF ProgressTo, Progress
<1>8. ASSUME NEW call, Perform(call) PROVE GwInv'
  <2>1. \/ session' = UserCalled(session, call)
        \/ session' = UserCalled(Heartbeat(session, timer).session, call)
    BY <1>8 DEF Perform
  <2>2. Same(session, Heartbeat(session, timer).session)
    BY <1>0, HeartbeatSame
  <2>3. Same(session, session')
    BY <1>0, <2>1, <2>2, CalledSame DEF Same
  <2> QED BY <1>8, <2>3, SameStep DEF Perform
<1> QED BY <1>1, <1>2, <1>3, <1>4, <1>5, <1>6, <1>7, <1>8 DEF Loop

\* A callback on a worker thread changes flags, one store at a time.
LEMMA WorkersStep ==
  ASSUME GwInv, WsInv', NEW w \in Workers, WorkerStep(w)
  PROVE  GwInv'
<1>0. session \in SessionRecord /\ Same(session, session)
  BY DEF GwInv, Same
<1>1. ASSUME NEW call, WorkerTakes(w, call) PROVE GwInv'
  <2>1. Same(session, session')
    BY <1>0, <1>1 DEF WorkerTakes, Same, SessionRecord
  <2> QED BY <1>1, <2>1, SameStep DEF WorkerTakes, wsVars
<1>2. CASE WorkerStatus(w)
  <2>1. Same(session, UserCalled(session, worker[w].call))
    BY <1>0, CalledSame
  <2>2. Same(session, session')
    BY <1>0, <1>2, <2>1 DEF WorkerStatus, Same, SessionRecord
  <2> QED BY <1>2, <2>2, SameStep DEF WorkerStatus, wsVars
<1>3. CASE WorkerCloses(w)
  BY <1>0, <1>3, SameStep DEF WorkerCloses, WsClose
<1> QED BY <1>1, <1>2, <1>3 DEF WorkerStep

\* Every step keeps the invariant.
LEMMA GwStep ==
  ASSUME GatewayAssumption, GwInv, [GwNext]_vars
  PROVE  GwInv'
<1>1. WsInv'
  BY WsStep, GwStepIsWsStep DEF GwInv
<1>2. CASE Server
  BY <1>1, <1>2, ServerStep
<1>3. CASE Loop
  BY <1>1, <1>3, LoopStep
<1>4. CASE RunAgain
  BY <1>1, <1>4
     DEF RunAgain, GwInv, ReadyMeansOnline, Retries, SessionRecord, Opening, Over, wsVars
<1>5. CASE Stopped \/ UNCHANGED vars
  BY <1>1, <1>5
     DEF Stopped, vars, gwVars, wsVars, GwInv, ReadyMeansOnline, Retries
<1>6. ASSUME NEW w \in Workers, WorkerStep(w) PROVE GwInv'
  BY <1>1, <1>6, WorkersStep
<1> QED BY <1>2, <1>3, <1>4, <1>5, <1>6 DEF GwNext

\* GwInv is an invariant, whatever the retry limit and the users' callbacks.
LEMMA GwInvariant == GwSpec => []GwInv
<1>1. GwInit => GwInv
  BY WsInitially, GatewayAssumption
     DEF GwInit, GwInv, SessionRecord, Flags, ReadyMeansOnline, Retries, Opening, Over,
         GatewayAssumption
<1>2. GwInv /\ [GwNext]_vars => GwInv'
  BY GwStep, GatewayAssumption
<1> QED BY <1>1, <1>2, PTL DEF GwSpec

\* discord_gateway_start gives up in time: no more than RetryLimit connections
\* are opened in a row without READY or RESUMED, whoever asks to reconnect.
THEOREM RetriesCorrect == GwSpec => []ReconnectsBounded
<1>1. GwInv => ReconnectsBounded
  BY DEF GwInv, Retries, ReconnectsBounded
<1> QED BY <1>1, GwInvariant, PTL

\* A session that discord_gateway_perform takes for ready has an accepted
\* connection and an id, in every interleaving of close, callbacks and loop.
THEOREM ReadyCorrect == GwSpec => []ReadyMeansOnline
<1>1. GwInv => ReadyMeansOnline
  BY DEF GwInv
<1> QED BY <1>1, GwInvariant, PTL

-----------------------------------------------------------------------------
(* Types, and how many heartbeats wait for their acknowledgement *)

\* A session is ready only on a connection whose server has said so, and a
\* heartbeat is given up at most once per connection: then the session is closing.
BeatInv ==
  /\ session.is_ready => server = "up"
  /\ status # "DISCONNECTED" =>
       timer.acks + unacked <=
         MaxAcks + (IF server = "up" /\ "SHUTDOWN" \in session.status THEN 1 ELSE 0)

TypeInv == GwTypeOK /\ GwInv /\ BeatInv

\* What a heartbeat makes of the timer, the session and the frames on their way.
LEMMA HeartbeatBounds ==
  ASSUME GatewayAssumption, TypeInv, NEW s \in SessionRecord,
         status # "DISCONNECTED",
         timer.acks + unacked <= MaxAcks
  PROVE  LET b == Heartbeat(s, timer)
         IN  /\ b.session \in SessionRecord
             /\ b.timer \in [hbeat : 0 .. Interval + 1, identify : 0 .. FiveSeconds,
                             acks : -1 .. MaxAcks]
             /\ Sent(b.sent) \in 0 .. MaxAcks + 1
             /\ b.timer.acks + Sent(b.sent) <=
                  MaxAcks + (IF "SHUTDOWN" \in b.session.status THEN 1 ELSE 0)
<1> DEFINE T == [hbeat : 0 .. Interval + 1, identify : 0 .. FiveSeconds, acks : -1 .. MaxAcks]
<1>1. timer \in T /\ unacked \in 0 .. MaxAcks + 1 /\ Interval \in Nat /\ MaxAcks \in Nat
  BY DEF TypeInv, GwTypeOK, GatewayAssumption
<1>2. CASE timer.acks < 0
  <2>1. /\ Heartbeat(s, timer).timer = [timer EXCEPT !.acks = 0]
        /\ Heartbeat(s, timer).sent = FALSE
        /\ Heartbeat(s, timer).session = Closing(s, TRUE)
    BY <1>2 DEF Heartbeat
  <2>2. [timer EXCEPT !.acks = 0] \in T /\ [timer EXCEPT !.acks = 0].acks = 0
    BY <1>1
  <2>3. Closing(s, TRUE) \in SessionRecord /\ "SHUTDOWN" \in Closing(s, TRUE).status
    BY DEF Closing, SessionRecord, Flags
  <2>4. timer.acks \in -1 .. MaxAcks
    BY <1>1
  <2>5. unacked <= MaxAcks + 1 /\ 0 + unacked <= MaxAcks + 1
    BY <1>1
  <2>6. Sent(FALSE) = unacked
    BY DEF Sent
  <2> HIDE DEF T
  <2> QED BY <1>1, <2>1, <2>2, <2>3, <2>5, <2>6 DEF T
<1>3. CASE ~(timer.acks < 0)
  <2>1. /\ Heartbeat(s, timer).timer = [timer EXCEPT !.hbeat = 0, !.acks = @ - 1]
        /\ Heartbeat(s, timer).sent = Sendable
        /\ Heartbeat(s, timer).session = s
    BY <1>3 DEF Heartbeat
  <2>2. timer.acks \in 0 .. MaxAcks
    BY <1>1, <1>3
  <2>3. /\ [timer EXCEPT !.hbeat = 0, !.acks = @ - 1] \in T
        /\ [timer EXCEPT !.hbeat = 0, !.acks = @ - 1].acks = timer.acks - 1
    <3>1. 0 \in 0 .. Interval + 1 /\ timer.acks - 1 \in -1 .. MaxAcks
      BY <1>1, <2>2
    <3> QED BY <1>1, <3>1
  <2>4. Sent(Sendable) \in {unacked, unacked + 1}
    BY DEF Sent
  <2>5. s.status \in Flags
    BY DEF SessionRecord
  <2>6. timer.acks - 1 + Sent(Sendable) <= MaxAcks /\ Sent(Sendable) \in 0 .. MaxAcks + 1
    BY <1>1, <2>2, <2>4
  <2> HIDE DEF T
  <2> QED BY <1>1, <2>1, <2>3, <2>6 DEF T
<1> QED BY <1>2, <1>3

\* The types that GwInv does not give.
RestOK ==
  /\ main \in Opening \cup Over \cup {"loop", "perform", "on_close", "after", "adapter", "end"}
  /\ timer \in [hbeat : 0 .. Interval + 1, identify : 0 .. FiveSeconds, acks : -1 .. MaxAcks]
  /\ code \in CloseCodes \cup {None, "other"}
  /\ work \in 0 .. QueueSize
  /\ worker \in [Workers -> [at : {"idle", "status", "close"}, call : UserCalls \cup {None}]]
  /\ server \in {"quiet", "identify", "resume", "up"}
  /\ unacked \in 0 .. MaxAcks + 1

LEMMA RestIsType == GwInv => (GwTypeOK <=> RestOK)
BY DEF GwInv, WsInv, Retries, GwTypeOK, RestOK, Opening, Over, SessionRecord

\* Steps that send nothing and acknowledge nothing.
LEMMA BeatSame ==
  ASSUME BeatInv, UNCHANGED <<server, unacked>>, timer'.acks = timer.acks,
         session'.is_ready => session.is_ready,
         "SHUTDOWN" \in session.status => "SHUTDOWN" \in session'.status,
         status' # "DISCONNECTED" => status # "DISCONNECTED",
         timer.acks \in Int, unacked \in Int, MaxAcks \in Int
  PROVE  BeatInv'
BY DEF BeatInv

\* Time passes within its bounds.
LEMMA AgedKeeps ==
  ASSUME GatewayAssumption,
         NEW t \in [hbeat : 0 .. Interval + 1, identify : 0 .. FiveSeconds, acks : -1 .. MaxAcks]
  PROVE  /\ Aged(t) \in [hbeat : 0 .. Interval + 1, identify : 0 .. FiveSeconds,
                         acks : -1 .. MaxAcks]
         /\ Aged(t).acks = t.acks
<1>1. /\ Older(t.hbeat, Interval + 1) \in 0 .. Interval + 1
      /\ Older(t.identify, FiveSeconds) \in 0 .. FiveSeconds
  BY DEF Older, GatewayAssumption
<1> QED BY <1>1 DEF Aged

\* A session that is closing stays so, whatever the user calls.
LEMMA CalledCloses ==
  ASSUME NEW s \in SessionRecord, NEW call
  PROVE  /\ "SHUTDOWN" \in s.status => "SHUTDOWN" \in UserCalled(s, call).status
         /\ UserCalled(s, call) \in SessionRecord
         /\ UserCalled(s, call).is_ready = s.is_ready
BY DEF UserCalled, Closing, SessionRecord, Flags

\* READY, RESUMED and other events keep the counts.
LEMMA DispatchTypes ==
  ASSUME GatewayAssumption, TypeInv, GwInv',
         NEW event \in {"READY", "RESUMED", "MESSAGE"}, NEW mode, NEW call \in Calls,
         Dispatch(event, mode, call)
  PROVE  RestOK' /\ BeatInv'
<1> USE DEF RestOK
<1>1. /\ session \in SessionRecord /\ status # "DISCONNECTED" /\ status' = status
      /\ RestOK /\ BeatInv
  <2>1. Receiving /\ status' = status
    BY DEF Dispatch, WsText
  <2> QED BY <2>1, RestIsType DEF TypeInv, GwInv, WsInv, HandleMatchesStatus
<1>2. /\ main' \in {"perform", "aborted"} /\ server' = "up" /\ UNCHANGED <<code, worker>>
      /\ work' \in 0 .. QueueSize
  BY <1>1 DEF Dispatch, GatewayAssumption
<1>3. CASE event = "MESSAGE"
  <2>1. /\ timer' = timer /\ unacked' = unacked /\ session' = UserCalled(session, call)
        /\ server = "up"
    BY <1>3 DEF Dispatch, Sent, Expected
  <2>2. BeatInv'
    <3>1. timer.acks \in Int /\ unacked \in Int /\ MaxAcks \in Int
      BY <1>1 DEF GatewayAssumption
    <3>2. server' = server
      BY <1>2, <2>1
    <3> QED BY <1>1, <2>1, <3>1, <3>2, CalledCloses, BeatSame
  <2>3. RestOK'
    BY <1>1, <1>2, <2>1 DEF Opening, Over
  <2> QED BY <2>2, <2>3
<1>4. CASE event # "MESSAGE"
  <2> DEFINE b == Heartbeat(Ready(event), timer)
  <2>1. /\ timer' = b.timer /\ unacked' = Sent(b.sent)
        /\ session' = UserCalled(b.session, call) /\ server # "up"
    BY <1>4 DEF Dispatch, Expected
  <2>2. Ready(event) \in SessionRecord
    BY <1>1, <1>4 DEF Ready, SessionRecord
  <2>3. timer.acks + unacked <= MaxAcks
    BY <1>1, <2>1 DEF BeatInv, GatewayAssumption
  <2>4. /\ b.session \in SessionRecord
        /\ b.timer \in [hbeat : 0 .. Interval + 1, identify : 0 .. FiveSeconds,
                        acks : -1 .. MaxAcks]
        /\ Sent(b.sent) \in 0 .. MaxAcks + 1
        /\ b.timer.acks + Sent(b.sent) <=
             MaxAcks + (IF "SHUTDOWN" \in b.session.status THEN 1 ELSE 0)
    BY <1>1, <2>2, <2>3, HeartbeatBounds
  <2> HIDE DEF b
  <2>5. "SHUTDOWN" \in b.session.status => "SHUTDOWN" \in session'.status
    BY <2>1, <2>4, CalledCloses
  <2>6. b.timer.acks \in Int /\ Sent(b.sent) \in Int /\ MaxAcks \in Int
    BY <2>4 DEF GatewayAssumption
  <2>7. BeatInv'
    BY <1>2, <2>1, <2>4, <2>5, <2>6 DEF BeatInv
  <2>8. RestOK'
    BY <1>1, <1>2, <2>1, <2>4 DEF Opening, Over
  <2> QED BY <2>7, <2>8
<1> QED BY <1>3, <1>4

\* The other steps.
LEMMA OtherTypes ==
  ASSUME GatewayAssumption, TypeInv, GwInv', [GwNext]_vars,
         ~\E event \in {"READY", "RESUMED", "MESSAGE"}, mode \in Modes \cup {"ignore"},
             call \in Calls : Dispatch(event, mode, call)
  PROVE  RestOK' /\ BeatInv'
<1>0. /\ RestOK /\ BeatInv /\ session \in SessionRecord
      /\ timer.acks \in Int /\ unacked \in Int /\ MaxAcks \in Int
      /\ Same(session, session)
  <2>1. RestOK /\ BeatInv /\ session \in SessionRecord
    BY RestIsType DEF TypeInv, GwInv
  <2>2. timer.acks \in Int /\ unacked \in Int
    BY <2>1 DEF RestOK
  <2> QED BY <2>1, <2>2 DEF GatewayAssumption, Same
<1> USE DEF RestOK, Opening, Over
<1>1. CASE StartFails \/ StartReset \/ EasyRun \/ Disconnected \/ AdapterPerform \/ Start
  <2>1. /\ UNCHANGED <<session, code, work, worker, server, unacked>>
        /\ status' = status /\ timer' \in {timer, Aged(timer)}
    BY <1>1 DEF StartFails, StartReset, EasyRun, Disconnected, AdapterPerform, Start,
                WsReset, wsVars
  <2>2. /\ timer' \in [hbeat : 0 .. Interval + 1, identify : 0 .. FiveSeconds,
                       acks : -1 .. MaxAcks]
        /\ timer'.acks = timer.acks
    BY <1>0, <2>1, AgedKeeps
  <2>3. BeatInv'
    BY <1>0, <2>1, <2>2, BeatSame
  <2>4. RestOK'
    BY <1>0, <1>1, <2>1, <2>2
       DEF StartFails, StartReset, EasyRun, Disconnected, AdapterPerform, Start
  <2> QED BY <2>3, <2>4
<1>2. CASE StartConnect
  <2>1. /\ UNCHANGED <<session, code, work, worker, timer>>
        /\ main = "connect" /\ main' = "loop" /\ server' = "quiet" /\ unacked' = 0
    BY <1>2 DEF StartConnect
  <2>2. ~session.is_ready
    BY <2>1 DEF TypeInv, GwInv, ReadyMeansOnline
  <2>3. timer.acks <= MaxAcks /\ timer.acks + 0 = timer.acks
    BY <1>0
  <2>4. BeatInv'
    BY <1>0, <2>1, <2>2, <2>3 DEF BeatInv
  <2> QED BY <1>0, <2>1, <2>4 DEF GatewayAssumption
<1>3. CASE \/ Silent \/ ConnectionLost \/ \E next \in {"perform", "after"} : ProgressTo(next)
           \/ \E c \in CloseCodes : CloseReceived(c)
  <2>1. /\ UNCHANGED <<session, work, worker, server, unacked, timer>>
        /\ main = "perform" /\ main' \in {"perform", "after", "on_close"}
        /\ code' \in CloseCodes \cup {None, "other"}
    BY <1>0, <1>3 DEF Silent, ConnectionLost, ProgressTo, CloseReceived, gwVars
  <2>2. running
    BY <1>3 DEF Silent, ConnectionLost, ProgressTo, CloseReceived, OnConnect, TlsCloseNotify,
                ProtocolError, Receiving, TransferEnds, Progress, OnClose
  <2>3. status # "DISCONNECTED"
    BY <2>2 DEF TypeInv, GwInv, WsInv, HandleMatchesStatus
  <2> QED BY <1>0, <2>1, <2>3, BeatSame
<1>4. CASE Hello
  <2>1. /\ UNCHANGED <<code, work, worker, unacked>> /\ server = "quiet"
        /\ server' \in {"resume", "identify"} /\ main' \in {"perform", "aborted"}
        /\ session'.status = session.status \ {"RESUMABLE"}
        /\ session'.is_ready = session.is_ready /\ status' = status
        /\ \E i \in {timer.identify, 0} : timer' = [timer EXCEPT !.hbeat = 0, !.identify = i]
    BY <1>0, <1>4 DEF Hello, WsText, SessionRecord
  <2>2. /\ timer' \in [hbeat : 0 .. Interval + 1, identify : 0 .. FiveSeconds,
                       acks : -1 .. MaxAcks]
        /\ timer'.acks = timer.acks
    <3>1. timer \in [hbeat : 0 .. Interval + 1, identify : 0 .. FiveSeconds, acks : -1 .. MaxAcks]
      BY <1>0
    <3>2. PICK i \in {timer.identify, 0} : timer' = [timer EXCEPT !.hbeat = 0, !.identify = i]
      BY <2>1
    <3>3. 0 \in 0 .. Interval + 1 /\ i \in 0 .. FiveSeconds
      BY <3>1, <3>2 DEF GatewayAssumption
    <3> QED BY <3>1, <3>2, <3>3
  <2>3. BeatInv'
    BY <1>0, <2>1, <2>2 DEF BeatInv
  <2> QED BY <1>0, <2>1, <2>2, <2>3
<1>5. CASE \/ Reconnect \/ \E b \in BOOLEAN : InvalidSession(b)
  <2>1. /\ UNCHANGED <<main, timer, code, work, worker, server, unacked>>
        /\ \E b \in BOOLEAN : session' = Closing(session, b)
        /\ status' = status
    BY <1>5 DEF Reconnect, InvalidSession, WsText
  <2>2. session'.is_ready = session.is_ready /\ "SHUTDOWN" \in session'.status
    BY <1>0, <2>1 DEF Closing, SessionRecord
  <2> QED BY <1>0, <2>1, <2>2, BeatSame
<1>6. CASE HeartbeatAck
  <2>1. /\ UNCHANGED <<main, session, code, work, worker, server>> /\ status' = status
        /\ timer.acks < MaxAcks /\ unacked > 0 /\ unacked' = unacked - 1
        /\ timer' = [timer EXCEPT !.acks = @ + 1]
    BY <1>6 DEF HeartbeatAck, WsText
  <2>2. timer.acks + 1 \in -1 .. MaxAcks
    BY <1>0, <2>1
  <2>3. /\ timer' \in [hbeat : 0 .. Interval + 1, identify : 0 .. FiveSeconds,
                       acks : -1 .. MaxAcks]
        /\ timer'.acks = timer.acks + 1
    BY <1>0, <2>1, <2>2
  <2>4. unacked' \in 0 .. MaxAcks + 1 /\ timer'.acks + unacked' = timer.acks + unacked
    BY <1>0, <2>1, <2>3
  <2>5. BeatInv'
    BY <1>0, <2>1, <2>4 DEF BeatInv
  <2> QED BY <1>0, <2>1, <2>3, <2>4, <2>5
<1>7. CASE CloseDone
  <2>1. /\ UNCHANGED <<timer, work, worker, server, unacked>> /\ status' = status
        /\ main' \in {"perform", "after"} /\ code' = None /\ session' = Closed(session, code)
    BY <1>7 DEF CloseDone, CloseHandled
  <2>2. /\ session'.is_ready = session.is_ready
        /\ "SHUTDOWN" \in session.status => "SHUTDOWN" \in session'.status
    BY <1>0, <2>1 DEF Closed, SessionRecord
  <2> QED BY <1>0, <2>1, <2>2, BeatSame
<1>8. ASSUME NEW call, Perform(call) PROVE RestOK' /\ BeatInv'
  <2>1. /\ UNCHANGED <<status, code, work, worker, server>> /\ main' = "adapter" /\ running
    BY <1>8 DEF Perform
  <2>2. status # "DISCONNECTED"
    BY <2>1 DEF TypeInv, GwInv, WsInv, HandleMatchesStatus
  <2>3. CASE Idle \/ ~Overdue
    <3>1. session' = UserCalled(session, call) /\ UNCHANGED <<timer, unacked>>
      BY <1>8, <2>3 DEF Perform, Sent
    <3> QED BY <1>0, <2>1, <2>2, <3>1, CalledCloses, BeatSame
  <2>4. CASE ~Idle /\ Overdue
    <3> DEFINE b == Heartbeat(session, timer)
    <3>1. /\ session' = UserCalled(b.session, call) /\ timer' = b.timer
          /\ unacked' = Sent(b.sent)
      BY <1>8, <2>4 DEF Perform
    <3>2. "SHUTDOWN" \notin session.status /\ server = "up"
      BY <1>0, <2>4 DEF Idle, BeatInv
    <3>3. timer.acks + unacked <= MaxAcks
      BY <1>0, <2>2, <3>2 DEF BeatInv
    <3>4. /\ b.session \in SessionRecord
          /\ b.timer \in [hbeat : 0 .. Interval + 1, identify : 0 .. FiveSeconds,
                          acks : -1 .. MaxAcks]
          /\ Sent(b.sent) \in 0 .. MaxAcks + 1
          /\ b.timer.acks + Sent(b.sent) <=
               MaxAcks + (IF "SHUTDOWN" \in b.session.status THEN 1 ELSE 0)
      BY <1>0, <2>2, <3>3, HeartbeatBounds
    <3> HIDE DEF b
    <3>5. "SHUTDOWN" \in b.session.status => "SHUTDOWN" \in session'.status
      BY <3>1, <3>4, CalledCloses
    <3>6. b.timer.acks \in Int /\ Sent(b.sent) \in Int
      BY <3>4
    <3>7. BeatInv'
      BY <1>0, <2>1, <3>1, <3>2, <3>4, <3>5, <3>6 DEF BeatInv
    <3> QED BY <1>0, <2>1, <3>1, <3>4, <3>7
  <2> QED BY <2>3, <2>4
<1>9. CASE End
  <2>1. /\ UNCHANGED <<timer, code, work, worker, server, unacked>>
        /\ main' \in {"start", "done"} /\ status' = "DISCONNECTED"
        /\ session' = Ended(session)
    BY <1>9 DEF End, WsEnd
  <2>2. ~session'.is_ready
    BY <1>0, <2>1 DEF Ended, SessionRecord
  <2>3. BeatInv'
    BY <2>1, <2>2 DEF BeatInv
  <2> QED BY <1>0, <2>1, <2>3
<1>10. CASE RunAgain \/ Stopped \/ UNCHANGED vars
  <2>1. /\ UNCHANGED <<session, timer, code, work, worker, server, unacked, status>>
        /\ main' \in {main, "start"}
    BY <1>10 DEF RunAgain, Stopped, vars, gwVars, wsVars
  <2> QED BY <1>0, <2>1, BeatSame
<1>11. ASSUME NEW w \in Workers, WorkerStep(w) PROVE RestOK' /\ BeatInv'
  <2>1. /\ UNCHANGED <<main, timer, code, server, unacked, status>>
    BY <1>11 DEF WorkerStep, WorkerTakes, WorkerStatus, WorkerCloses, WsClose, wsVars
  <2>2. /\ work' \in 0 .. QueueSize
    BY <1>0, <1>11 DEF WorkerStep, WorkerTakes, WorkerStatus, WorkerCloses, GatewayAssumption
  <2>3. worker' \in [Workers -> [at : {"idle", "status", "close"}, call : UserCalls \cup {None}]]
    BY <1>0, <1>11 DEF WorkerStep, WorkerTakes, WorkerStatus, WorkerCloses, Calls
  <2>4. /\ session'.is_ready = session.is_ready
        /\ "SHUTDOWN" \in session.status => "SHUTDOWN" \in session'.status
    <3>1. CASE \E call \in Calls : WorkerTakes(w, call)
      BY <1>0, <3>1 DEF WorkerTakes, SessionRecord
    <3>2. CASE WorkerStatus(w)
      BY <1>0, <3>2, CalledCloses DEF WorkerStatus, SessionRecord
    <3>3. CASE WorkerCloses(w)
      BY <3>3 DEF WorkerCloses
    <3> QED BY <1>11, <3>1, <3>2, <3>3 DEF WorkerStep
  <2> QED BY <1>0, <2>1, <2>2, <2>3, <2>4, BeatSame
<1> HIDE DEF RestOK, Opening, Over
<1> QED
  BY <1>1, <1>2, <1>3, <1>4, <1>5, <1>6, <1>7, <1>8, <1>9, <1>10, <1>11
     DEF GwNext, Server, Loop

\* Every step keeps the types and the counts.
LEMMA GwTypeStep ==
  ASSUME GatewayAssumption, TypeInv, [GwNext]_vars
  PROVE  TypeInv'
<1>1. GwInv'
  BY GwStep DEF TypeInv
<1>2. RestOK' /\ BeatInv'
  BY <1>1, DispatchTypes, OtherTypes
<1>3. GwInv' => (GwTypeOK' <=> RestOK')
  BY RestIsType, PTL
<1> QED BY <1>1, <1>2, <1>3 DEF TypeInv

\* TypeInv is an invariant.
LEMMA GwTypeInvariant == GwSpec => []TypeInv
<1>1. GwInit => GwInv
  BY WsInitially, GatewayAssumption
     DEF GwInit, GwInv, SessionRecord, Flags, ReadyMeansOnline, Retries, Opening, Over,
         GatewayAssumption
<1>2. GwInit => RestOK /\ BeatInv
  BY GatewayAssumption
     DEF GwInit, RestOK, BeatInv, Opening, Over, GatewayAssumption, WsInit
<1>3. GwInit => TypeInv
  BY <1>1, <1>2, RestIsType DEF TypeInv
<1>4. TypeInv /\ [GwNext]_vars => TypeInv'
  BY GwTypeStep, GatewayAssumption
<1> QED BY <1>3, <1>4, PTL DEF GwSpec

\* Every variable of the session and its threads has its type; in particular the
\* heartbeats that wait for an acknowledgement stay bounded over all reconnects.
THEOREM GwTypeCorrect == GwSpec => []GwTypeOK
<1>1. TypeInv => GwTypeOK
  BY DEF TypeInv
<1> QED BY <1>1, GwTypeInvariant, PTL

-----------------------------------------------------------------------------
(* discord_run implements Session *)

\* Where there is no connection, and that a connection which is disconnecting
\* dispatches nothing once its callback has run.
PlaceInv ==
  /\ main \in Opening \cup {"done"} => status = "DISCONNECTED"
  /\ status = "DISCONNECTING" /\ running /\ main \notin {"on_close"} \cup Over => closed

\* The steps of the connection keep it, wherever the main thread goes,
LEMMA PlaceStep ==
  ASSUME GwInv, PlaceInv, [GwNext]_vars
  PROVE  PlaceInv'
<1> USE DEF PlaceInv, Opening, Over
<1>1. WsInv
  BY DEF GwInv
<1>2. CASE StartFails \/ Start \/ StartReset \/ EasyRun \/ Disconnected \/ AdapterPerform
  BY <1>2 DEF StartFails, Start, StartReset, EasyRun, Disconnected, AdapterPerform, WsReset,
              wsVars
<1>3. CASE StartConnect
  BY <1>3 DEF StartConnect, WsConnect, SetStatus
<1>4. CASE Silent \/ ConnectionLost
  BY <1>1, <1>4 DEF Silent, ConnectionLost, OnConnect, TlsCloseNotify, WsClose, ProtocolError,
                    TransferEnds, SetStatus, gwVars, WsInv, HandleMatchesStatus
<1>5. ASSUME NEW next \in {"perform", "after"}, ProgressTo(next) PROVE PlaceInv'
  BY <1>1, <1>5 DEF ProgressTo, Progress, WsInv, WsTypeOK
<1>6. CASE Hello \/ Reconnect \/ HeartbeatAck \/ \E b \in BOOLEAN : InvalidSession(b)
  <2>1. /\ UNCHANGED <<status, running, closed>>
        /\ main = "perform" /\ main' \in {"perform", "aborted"}
    BY <1>6 DEF Hello, Reconnect, HeartbeatAck, InvalidSession, WsText
  <2> QED BY <2>1
<1>7. ASSUME NEW event, NEW mode, NEW call, Dispatch(event, mode, call) PROVE PlaceInv'
  BY <1>7 DEF Dispatch, WsText
<1>8. ASSUME NEW c, CloseReceived(c) PROVE PlaceInv'
  BY <1>8 DEF CloseReceived
<1>9. CASE CloseDone
  BY <1>9 DEF CloseDone, CloseHandled
<1>10. ASSUME NEW call, Perform(call) PROVE PlaceInv'
  BY <1>10 DEF Perform
<1>11. CASE End
  BY <1>11 DEF End, WsEnd
<1>12. CASE RunAgain \/ Stopped \/ UNCHANGED vars
  BY <1>12 DEF RunAgain, Stopped, vars, gwVars, wsVars
<1>13. ASSUME NEW w \in Workers, WorkerStep(w) PROVE PlaceInv'
  BY <1>13 DEF WorkerStep, WorkerTakes, WorkerStatus, WorkerCloses, WsClose, wsVars
<1> QED
  BY <1>2, <1>3, <1>4, <1>5, <1>6, <1>7, <1>8, <1>9, <1>10, <1>11, <1>12, <1>13
     DEF GwNext, Server, Loop

\* Abstract!phase.
Phase ==
  IF main \in {"done", "aborted"}  THEN "over"
  ELSE IF status = "DISCONNECTED"  THEN "offline"
  ELSE IF status = "DISCONNECTING" THEN "closing"
  ELSE IF session.is_ready         THEN "online"
  ELSE "connecting"

\* Steps after which Session sees what it saw before.
LEMMA UnseenStutters ==
  ASSUME Phase' = Phase, opens' = opens
  PROVE  UNCHANGED Abstract!sessionVars
BY DEF Abstract!sessionVars, Phase

\* Steps of the main thread between connections, and flags that change,
LEMMA PhaseSame ==
  ASSUME session'.is_ready = session.is_ready, status' = status,
         main \notin Over, main' \notin Over
  PROVE  Phase' = Phase
BY DEF Phase, Over

\* and the end of the run, whatever ended it.
LEMMA RunEnds ==
  ASSUME main' \in Over, opens' \in {opens, 0}
  PROVE  Abstract!Finish
BY DEF Over, Abstract!Finish

\* Every step of discord_run and its threads is one of Session or is not seen there.
LEMMA SessionStep ==
  ASSUME GatewayAssumption, TypeInv, TypeInv', PlaceInv, PlaceInv', [GwNext]_vars
  PROVE  [Abstract!Next]_(Abstract!sessionVars)
<1> DEFINE Seen == Abstract!Next \/ UNCHANGED Abstract!sessionVars
<1>0. /\ session \in SessionRecord /\ opens \in Nat /\ WsInv /\ ReadyMeansOnline
      /\ status \in {"DISCONNECTED", "CONNECTING", "CONNECTED", "DISCONNECTING"}
      /\ Same(session, session)
  BY DEF TypeInv, GwInv, WsInv, WsTypeOK, Retries, Same
<1> SUFFICES Seen
  OBVIOUS
<1> USE DEF Over, Opening
<1>1. CASE Start \/ StartReset \/ EasyRun \/ Disconnected \/ AdapterPerform
  <2>1. /\ UNCHANGED <<session, status, opens>> /\ main \notin Over /\ main' \notin Over
    BY <1>1 DEF Start, StartReset, EasyRun, Disconnected, AdapterPerform, WsReset, wsVars
  <2> QED BY <2>1, PhaseSame, UnseenStutters
<1>2. CASE StartFails
  BY <1>2, RunEnds DEF StartFails, Abstract!Next
<1>3. CASE StartConnect
  <2>1. /\ main = "connect" /\ main' = "loop" /\ status = "DISCONNECTED"
        /\ status' = "CONNECTING" /\ opens' = opens + 1 /\ session' = session
    BY <1>3 DEF StartConnect, WsConnect, SetStatus
  <2>2. ~session.is_ready
    BY <1>0, <2>1 DEF ReadyMeansOnline
  <2>3. opens < RetryLimit
    BY <1>0, <2>1 DEF TypeInv, GwInv, Retries, SessionRecord, GatewayAssumption
  <2>4. Phase = "offline" /\ Phase' = "connecting"
    BY <2>1, <2>2 DEF Phase
  <2> QED BY <2>1, <2>3, <2>4 DEF Abstract!Next, Abstract!Connect, Phase
<1>4. CASE Silent
  <2>1. UNCHANGED gwVars /\ main = "perform"
    BY <1>4 DEF Silent
  <2>2. Phase' = Phase
    <3>1. CASE OnConnect
      <4>1. /\ ~accepted /\ ~session.is_ready
            /\ status' = IF status = "DISCONNECTING" THEN status ELSE "CONNECTED"
            /\ status # "DISCONNECTED"
        BY <1>0, <3>1 DEF OnConnect, SetStatus, ReadyMeansOnline, WsInv, HandleMatchesStatus
      <4> QED BY <1>0, <2>1, <4>1 DEF Phase, gwVars
    <3>2. CASE TlsCloseNotify \/ ProtocolError
      BY <2>1, <3>2 DEF TlsCloseNotify, WsClose, ProtocolError, Phase, gwVars
    <3> QED BY <1>4, <3>1, <3>2 DEF Silent
  <2> QED BY <2>1, <2>2, UnseenStutters DEF gwVars
<1>5. CASE ConnectionLost
  BY <1>5, PhaseSame, UnseenStutters DEF ConnectionLost, TransferEnds
<1>6. CASE \/ \E next \in {"perform", "after"} : ProgressTo(next)
           \/ \E c \in CloseCodes : CloseReceived(c)
  <2>1. /\ main = "perform" /\ main' \notin Over /\ UNCHANGED <<session, opens>> /\ running
        /\ status' \in {status, "DISCONNECTING"}
    BY <1>6 DEF ProgressTo, Progress, CloseReceived, OnClose, SetStatus
  <2>2. status # "DISCONNECTED"
    BY <1>0, <2>1 DEF WsInv, HandleMatchesStatus
  <2>3. CASE status' = status
    BY <2>1, <2>3, PhaseSame, UnseenStutters
  <2>4. CASE status' = "DISCONNECTING" /\ status # "DISCONNECTING"
    <3>1. Phase \in {"connecting", "online"} /\ Phase' = "closing"
      BY <2>1, <2>2, <2>4 DEF Phase
    <3> QED BY <2>1, <3>1 DEF Abstract!Next, Abstract!Close, Phase
  <2> QED BY <2>1, <2>3, <2>4
<1>7. CASE Hello
  <2>1. /\ main = "perform" /\ main' \in {"perform", "aborted"} /\ opens' = opens
        /\ status' = status /\ session'.is_ready = session.is_ready
    BY <1>0, <1>7 DEF Hello, WsText, SessionRecord
  <2> QED BY <2>1, PhaseSame, UnseenStutters, RunEnds DEF Abstract!Next
<1>8. CASE Reconnect \/ HeartbeatAck \/ \E b \in BOOLEAN : InvalidSession(b)
  <2>1. /\ main = "perform" /\ main' = "perform" /\ opens' = opens
        /\ status' = status /\ session'.is_ready = session.is_ready
    BY <1>0, <1>8 DEF Reconnect, HeartbeatAck, InvalidSession, WsText, Closing, SessionRecord
  <2> QED BY <2>1, PhaseSame, UnseenStutters
<1>9. ASSUME NEW event \in {"READY", "RESUMED", "MESSAGE"}, NEW mode, NEW call,
             Dispatch(event, mode, call)
      PROVE  Seen
  <2>1. /\ main = "perform" /\ main' \in {"perform", "aborted"} /\ status' = status /\ Receiving
    BY <1>9 DEF Dispatch, WsText
  <2>2. status = "CONNECTED"
    BY <1>0, <2>1 DEF Receiving, WsInv, HandleMatchesStatus, PlaceInv
  <2>3. CASE event = "MESSAGE"
    <3>1. session' = UserCalled(session, call) /\ opens' = opens
      BY <1>9, <2>3 DEF Dispatch
    <3>2. session'.is_ready = session.is_ready
      BY <1>0, <3>1, CalledSame DEF Same
    <3> QED BY <2>1, <3>1, <3>2, PhaseSame, UnseenStutters, RunEnds DEF Abstract!Next
  <2>4. CASE event # "MESSAGE"
    <3>1. /\ opens' = 0
          /\ session' = UserCalled(Heartbeat(Ready(event), timer).session, call)
      BY <1>9, <2>4 DEF Dispatch
    <3>2. Ready(event) \in SessionRecord /\ Ready(event).is_ready
      BY <1>0, <1>9, <2>4 DEF Ready, SessionRecord
    <3>3. session'.is_ready
      BY <3>1, <3>2, HeartbeatSame, CalledSame DEF Same
    <3>4. CASE main' = "perform"
      <4>1. Phase \in {"connecting", "online"} /\ Phase' = "online"
        BY <2>1, <2>2, <3>3, <3>4 DEF Phase
      <4> QED BY <3>1, <4>1 DEF Abstract!Next, Abstract!GoOnline, Phase
    <3>5. CASE main' = "aborted"
      BY <3>1, <3>5, RunEnds DEF Abstract!Next
    <3> QED BY <2>1, <3>4, <3>5
  <2> QED BY <2>3, <2>4
<1>10. CASE CloseDone
  <2>1. /\ main = "on_close" /\ main' \in {"perform", "after"} /\ opens' = opens
        /\ status' = status /\ session' = Closed(session, code)
    BY <1>10 DEF CloseDone, CloseHandled
  <2>2. session'.is_ready = session.is_ready
    BY <1>0, <2>1, ClosedSame DEF Same
  <2> QED BY <2>1, <2>2, PhaseSame, UnseenStutters
<1>11. ASSUME NEW call, Perform(call) PROVE Seen
  <2>1. /\ main = "after" /\ main' = "adapter" /\ UNCHANGED <<opens, status>>
        /\ \/ session' = UserCalled(session, call)
           \/ session' = UserCalled(Heartbeat(session, timer).session, call)
    BY <1>11 DEF Perform
  <2>2. session'.is_ready = session.is_ready
    BY <1>0, <2>1, HeartbeatSame, CalledSame DEF Same
  <2> QED BY <2>1, <2>2, PhaseSame, UnseenStutters
<1>12. CASE End
  <2>1. /\ main = "end" /\ main' \in {"start", "done"} /\ opens' = opens
        /\ status # "DISCONNECTED" /\ status' = "DISCONNECTED"
    BY <1>12 DEF End, WsEnd
  <2>2. Phase \in {"connecting", "online", "closing"} /\ Phase' \in {"offline", "over"}
    BY <1>0, <2>1 DEF Phase
  <2> QED BY <2>1, <2>2 DEF Abstract!Next, Abstract!Leave, Phase
<1>13. CASE RunAgain
  <2>1. main = "done" /\ main' = "start" /\ opens' = 0 /\ status' = "DISCONNECTED"
    BY <1>13 DEF RunAgain, PlaceInv, wsVars
  <2>2. Phase = "over" /\ Phase' = "offline"
    BY <2>1 DEF Phase
  <2> QED BY <2>1, <2>2 DEF Abstract!Next, Abstract!RunAgain, Phase
<1>14. CASE Stopped \/ UNCHANGED vars
  <2>1. UNCHANGED <<main, session, status, opens>>
    BY <1>14 DEF Stopped, vars, gwVars, wsVars
  <2> QED BY <2>1, UnseenStutters DEF Phase
<1>15. ASSUME NEW w \in Workers, WorkerStep(w) PROVE Seen
  <2>1. UNCHANGED <<main, status, opens>> /\ session'.is_ready = session.is_ready
    <3>1. CASE \E call \in Calls : WorkerTakes(w, call)
      BY <1>0, <3>1 DEF WorkerTakes, SessionRecord, wsVars
    <3>2. CASE WorkerStatus(w)
      BY <1>0, <3>2 DEF WorkerStatus, SessionRecord, wsVars
    <3>3. CASE WorkerCloses(w)
      BY <3>3 DEF WorkerCloses, WsClose
    <3> QED BY <1>15, <3>1, <3>2, <3>3 DEF WorkerStep
  <2> QED BY <2>1, UnseenStutters DEF Phase
<1> HIDE DEF Seen
<1> QED
  BY <1>1, <1>2, <1>3, <1>4, <1>5, <1>6, <1>7, <1>8, <1>9, <1>10, <1>11, <1>12, <1>13,
     <1>14, <1>15
     DEF GwNext, Server, Loop

\* What discord_run does, its threads, messages and connections left out, is what
\* Session promises: a session goes online through a connection of its own, one that
\* closes is left, and the tries are bounded (the safety part of ImplementsSession).
THEOREM SessionRefines == GwSpec => Abstract!Spec
<1>1. GwInit => PlaceInv /\ Abstract!Init
  BY DEF GwInit, WsInit, PlaceInv, Opening, Over, Abstract!Init
<1>2. TypeInv /\ PlaceInv /\ [GwNext]_vars => PlaceInv'
  BY PlaceStep DEF TypeInv
<1>3. /\ TypeInv /\ PlaceInv /\ TypeInv' /\ PlaceInv' /\ [GwNext]_vars
      => [Abstract!Next]_(Abstract!sessionVars)
  BY SessionStep, GatewayAssumption
<1> QED BY <1>1, <1>2, <1>3, GwTypeInvariant, PTL DEF GwSpec, Abstract!Spec
=============================================================================
