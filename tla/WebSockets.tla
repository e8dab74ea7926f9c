----------------------------- MODULE WebSockets -----------------------------
(***************************************************************************)
(* One WebSockets connection of websockets.c on top of the framing of      *)
(* curl-websocket.c and of libcurl's transfer.                             *)
(*                                                                         *)
(* Everything happens in the thread that runs ws_easy_run, except WsClose, *)
(* which any thread may call.  ws->lock makes each action below atomic;    *)
(* the two writes of `action' outside the lock are actions of their own.   *)
(* The spec of this module is what a user of websockets.c can rely on, and *)
(* its contract: connect only what is disconnected, end only what has been *)
(* connected.  Gateway.tla is such a user.                                 *)
(***************************************************************************)
EXTENDS Naturals

VARIABLES
  status,    \* ws->status
  action,    \* ws->action
  handle,    \* ws->ehandle exists and is in the multi handle
  running,   \* libcurl still runs the transfer
  accepted,  \* cws: the server accepted the upgrade
  closed     \* cws: a CLOSE frame is written, data is no longer dispatched

wsVars == <<status, action, handle, running, accepted, closed>>

WsInit ==
  /\ status = "DISCONNECTED" /\ action = "NONE"
  /\ handle = FALSE /\ running = FALSE /\ accepted = FALSE /\ closed = FALSE

\* Mutant of SetStatus: without the check for WS_DISCONNECTING.
SetStatus_Always(s) == status' = s

\* _ws_set_status_nolock: once disconnecting, only disconnected can follow.
SetStatus(s) ==
  status' = IF status = "DISCONNECTING" /\ s # "DISCONNECTED" THEN status ELSE s

-----------------------------------------------------------------------------
(* Calls of the user *)

\* ws_start, its first lines: forget a close request (the lock is not taken).
WsReset ==
  /\ status = "DISCONNECTED"
  /\ action' = "NONE"
  /\ UNCHANGED <<status, handle, running, accepted, closed>>

\* ws_start, the rest: a new handle is given to libcurl.
WsConnect ==
  /\ status = "DISCONNECTED" /\ ~handle
  /\ handle' = TRUE /\ running' = TRUE /\ accepted' = FALSE /\ closed' = FALSE
  /\ SetStatus("CONNECTING")
  /\ UNCHANGED action

\* Mutant of WsEnd: the easy handle is kept.
WsEnd_Keep ==
  /\ status # "DISCONNECTED"
  /\ status' = "DISCONNECTED"
  /\ UNCHANGED <<action, handle, running, accepted, closed>>

\* ws_end: disconnecting, then, with the handle freed, disconnected.
WsEnd ==
  /\ status # "DISCONNECTED"
  /\ status' = "DISCONNECTED"
  /\ handle' = FALSE /\ running' = FALSE /\ accepted' = FALSE /\ closed' = FALSE
  /\ UNCHANGED action

\* ws_close, by any thread and at any time.
WsClose ==
  /\ action' = "BEGIN_CLOSE"
  /\ UNCHANGED <<status, handle, running, accepted, closed>>

-----------------------------------------------------------------------------
(* Callbacks and events inside curl_multi_perform *)

\* A data frame reaches the user only before a CLOSE frame is written.
Receiving == running /\ accepted /\ ~closed

\* A text frame, whose handler may have called ws_close.
WsText(closes) ==
  /\ Receiving
  /\ action' = IF closes THEN "BEGIN_CLOSE" ELSE action
  /\ UNCHANGED <<status, handle, running, accepted, closed>>

\* Whether ws_send_text hands the frame to libcurl.
Sendable == status = "CONNECTED" /\ ~closed

\* The end of the response header, the upgrade being accepted.
OnConnect ==
  /\ running /\ ~accepted
  /\ accepted' = TRUE
  /\ SetStatus("CONNECTED")
  /\ UNCHANGED <<action, handle, running, closed>>

\* The upgrade is refused, or a CLOSE frame arrives: first the status changes,
\* then the user's callback runs ...
OnClose(frame) ==
  /\ running /\ accepted = frame
  /\ SetStatus("DISCONNECTING")
  /\ UNCHANGED <<action, handle, running, accepted, closed>>

\* ... then (again outside the lock) the abort is requested, and cws answers
\* the frame, or fails the transfer that was not upgraded.
CloseHandled ==
  /\ running /\ status = "DISCONNECTING"
  /\ action' = "END_CLOSE"
  /\ closed' = (closed \/ accepted)
  /\ running' = accepted
  /\ UNCHANGED <<status, handle, accepted>>

\* _ws_curl_tls_check: the TLS layer got a close notify.
TlsCloseNotify ==
  /\ running /\ status = "CONNECTED"
  /\ WsClose

\* A malformed frame: cws closes by itself and does not tell websockets.c.
ProtocolError ==
  /\ Receiving
  /\ closed' = TRUE
  /\ UNCHANGED <<status, action, handle, running, accepted>>

\* Mutant of Progress: the status changes, but no CLOSE frame is written.
Progress_NoFrame ==
  /\ running
  /\ action' = "NONE"
  /\ status' = IF action = "BEGIN_CLOSE" THEN "DISCONNECTING" ELSE status
  /\ running' = (action # "END_CLOSE")
  /\ UNCHANGED <<handle, accepted, closed>>

\* _ws_check_action_cb, libcurl's progress callback; _ws_close does nothing
\* to a connection that is already closing.
Progress ==
  /\ running
  /\ action' = "NONE"
  /\ LET closes == action = "BEGIN_CLOSE" /\ status \in {"CONNECTING", "CONNECTED"}
     IN  /\ status'  = IF closes THEN "DISCONNECTING" ELSE status
         /\ closed'  = (closed \/ closes)
  /\ running' = (action # "END_CLOSE")
  /\ UNCHANGED <<handle, accepted>>

\* The transfer ends without a CLOSE frame: no connection, a lost one, or the
\* timeout that cws_close sets on the handle.
TransferEnds ==
  /\ running
  /\ running' = FALSE
  /\ UNCHANGED <<status, action, handle, accepted, closed>>

WsNext ==
  \/ WsReset \/ WsConnect \/ WsEnd \/ WsClose
  \/ OnConnect \/ CloseHandled \/ TlsCloseNotify \/ ProtocolError
  \/ Progress \/ TransferEnds
  \/ \E b \in BOOLEAN : WsText(b) \/ OnClose(b)

WsSpec == WsInit /\ [][WsNext]_wsVars
-----------------------------------------------------------------------------
(* Properties *)

WsTypeOK ==
  /\ status \in {"DISCONNECTED", "CONNECTING", "CONNECTED", "DISCONNECTING"}
  /\ action \in {"NONE", "BEGIN_CLOSE", "END_CLOSE"}
  /\ {handle, running, accepted, closed} \subseteq BOOLEAN

\* The assertion of _ws_set_status_nolock, "Missing ws_start() before the event
\* loop", and the cycle of the comment on ws->status: connecting, connected,
\* disconnecting, disconnected, whatever thread closes, whenever.
StatusCycle ==
  [][/\ status' = "CONNECTED" => status \in {"CONNECTING", "CONNECTED"}
     /\ status' = "CONNECTING" => status \in {"DISCONNECTED", "CONNECTING"}
     /\ status = "DISCONNECTING" => status' \in {"DISCONNECTING", "DISCONNECTED"}]_wsVars

\* The assertions of ws_start and the two owners of the connection's state: a
\* handle exists exactly while the connection is not disconnected, nothing is
\* dispatched to the user of a connection that is not up, and a connection that
\* is connected was accepted.
HandleMatchesStatus ==
  /\ handle = (status # "DISCONNECTED")
  /\ running => handle
  /\ status = "CONNECTED" => accepted
  /\ status = "CONNECTING" => ~closed /\ ~accepted
  /\ Receiving => status \in {"CONNECTED", "DISCONNECTING"}
=============================================================================
