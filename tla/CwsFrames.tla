------------------------------ MODULE CwsFrames ------------------------------
(***************************************************************************)
(* The WebSockets framing of curl-websocket.c: one handle of cws_new from  *)
(* the answer to its HTTP request on.  libcurl hands over the bytes of the *)
(* server in chunks that respect no boundary of a frame; the parser keeps  *)
(* its place between chunks, assembles fragmented messages around control  *)
(* frames and dispatches.  What is written goes to a buffer that libcurl   *)
(* empties in pieces of its own choice and that pauses it when empty.      *)
(*                                                                         *)
(* A byte is a tuple: <<"op", opcode, fin, bad>> and <<"len", n>> are a    *)
(* header, <<"ext", n>> are the bytes of an extended length, <<"mask">>    *)
(* those of a masking key, anything else is payload.                       *)
(*                                                                         *)
(* websockets.c calls everything here from the thread of the transfer, and *)
(* frees the handle only when no callback is running.                      *)
(***************************************************************************)
EXTENDS Naturals, Sequences, SequencesExt

CONSTANTS
  Octets,        \* what a payload consists of; the two bytes of a code are <<code, 0>>
  ServerFrames,  \* the frames the server may send: [op, fin, bad, ext, data]
  MaxFrames,     \* bound: frames of the server
  UserMessages,  \* the messages the user sends
  MaxSends,      \* bound: messages of the user
  Short, Medium, \* the longest payloads with a length of 7 and of 16 bits
  Pieces         \* the sizes of the chunks libcurl reads and writes

Data    == {"text", "binary"}
Control == {"close", "ping", "pong", "reserved"}  \* cws_opcode_is_control
None    == "none"                                 \* an opcode of 0

\* The bytes 126 and 127 announce an extended length.
ASSUME CwsAssumption ==
  /\ Short \in Nat /\ Medium \in Nat /\ Short <= Medium /\ Short < 126
  /\ Pieces \subseteq Nat \ {0} /\ {0, 1000, 1002} \subseteq Octets
  /\ ServerFrames \subseteq [op : Data \cup Control \cup {"cont"}, fin : BOOLEAN, bad : BOOLEAN,
                             ext : {0, 2, 8}, data : Seq(Octets)]
  /\ \A f \in ServerFrames : f.ext = 0 => Len(f.data) < 126
  /\ UserMessages \subseteq Seq(Octets)

NoBuffer == [room |-> 0, data |-> <<>>, total |-> 0]

VARIABLES
  stage,      \* "headers", "open" or "refused"
  status,     \* the status line of the HTTP response being read
  accepted,   \* priv->accepted
  wire,       \* bytes of the server that libcurl has not handed over
  chunk,      \* bytes of the running call of _cws_receive_data
  pc,         \* "idle" between calls; else the part of _cws_process_frame
  head,       \* tmpbuf, up to done
  needed,     \* recv.needed
  frame,      \* opcode and fin of recv.current
  current,    \* the buffer of recv.current: allocated size, bytes used, total
  fragments,  \* the buffer of recv.fragmented
  fragOp,     \* recv.fragmented.opcode
  closed,     \* priv->closed
  out,        \* priv->send.buffer
  paused,     \* CURLPAUSE_SEND in priv->pause_flags
  taken,      \* bytes libcurl has taken from the buffer
  written,    \* history: frames given to _cws_send and not refused
  got,        \* history: messages, pings and pongs given to the user
  onClose,    \* history: the reasons given to the on_close callback
  sent, assembling, expected, broken, closing
              \* history of the server: frames sent, its unfinished message,
              \* what a receiver must get, a protocol error, a CLOSE frame

httpVars   == <<stage, status, accepted>>
recvVars   == <<head, needed, frame, current, fragments, fragOp>>
sendVars   == <<out, paused, closed, written>>
serverVars == <<wire, sent, assembling, expected, broken, closing>>
cwsVars == <<httpVars, recvVars, sendVars, serverVars, chunk, pc, taken, got, onClose>>

CwsInit ==
  /\ stage = "headers" /\ status = None /\ accepted = FALSE
  /\ wire = <<>> /\ chunk = <<>> /\ pc = "idle"
  /\ head = <<>> /\ needed = 2 /\ frame = [op |-> None, fin |-> FALSE]
  /\ current = NoBuffer /\ fragments = NoBuffer /\ fragOp = None
  /\ closed = FALSE /\ out = <<>> /\ paused = FALSE /\ taken = <<>> /\ written = <<>>
  /\ got = <<>> /\ onClose = <<>>
  /\ sent = 0 /\ assembling = [op |-> None, data |-> <<>>] /\ expected = <<>>
  /\ broken = FALSE /\ closing = FALSE

-----------------------------------------------------------------------------
(* Sending *)

Length(n) == <<<<"len", IF n > Medium THEN 127 ELSE IF n > Short THEN 126 ELSE n>>>>
Extension(n) == [i \in 1..(IF n > Medium THEN 8 ELSE IF n > Short THEN 2 ELSE 0) |-> <<"ext", n>>]

\* The payload, each byte with the index of the byte of the key it is mixed with.
Masked(msg) == [i \in 1..Len(msg) |-> <<"data", msg[i], (i - 1) % 4>>]

FrameOf(op, msg) ==
  <<<<"op", op, TRUE, FALSE>>>> \o Length(Len(msg)) \o Extension(Len(msg))
    \o [i \in 1..4 |-> <<"mask">>] \o Masked(msg)

\* Mutant of Write: libcurl is not told that there is something to send.
Write_Quiet(frames) ==
  /\ out' = out \o FlattenSeq([i \in 1..Len(frames) |-> FrameOf(frames[i].op, frames[i].data)])
  /\ written' = written \o frames
  /\ UNCHANGED paused

\* _cws_write, for every part of the frames: append and wake the transfer up.
Write(frames) ==
  /\ out' = out \o FlattenSeq([i \in 1..Len(frames) |-> FrameOf(frames[i].op, frames[i].data)])
  /\ paused' = (paused /\ frames = <<>>)
  /\ written' = written \o frames

\* Mutant of Send: a closed connection still sends.
Send_Closed(op, msg) == Write(<<[op |-> op, data |-> msg]>>)

\* _cws_send: refused once closed.
Send(op, msg) == Write(IF closed THEN <<>> ELSE <<[op |-> op, data |-> msg]>>)

\* cws_close, with the payload of the CLOSE frame.
Close(msg) == Send("close", msg) /\ closed' = TRUE

\* The payload of a protocol error; the text that follows the code is left out.
ProtocolError == <<1002, 0>>

Quiet == UNCHANGED <<out, paused, written, closed>>

\* Mutant of SendData: what is left is not moved to the front of the buffer.
SendData_NoMove(n) ==
  /\ ~paused
  /\ LET todo == IF n < Len(out) THEN n ELSE Len(out) IN
       /\ taken' = taken \o SubSeq(out, 1, todo)
       /\ out' = SubSeq(out, 1, Len(out) - todo)
       /\ paused' = (todo = 0)

\* _cws_send_data with room for n bytes: part of the buffer, or a pause.
SendData(n) ==
  /\ ~paused
  /\ LET todo == IF n < Len(out) THEN n ELSE Len(out) IN
       /\ taken' = taken \o SubSeq(out, 1, todo)
       /\ out' = SubSeq(out, todo + 1, Len(out))
       /\ paused' = (todo = 0)

ReadCallback(n) ==
  /\ stage = "open" /\ pc = "idle"
  /\ SendData(n)
  /\ UNCHANGED <<httpVars, recvVars, serverVars, chunk, pc, got, onClose, closed, written>>

UserSend(msg) ==
  /\ stage = "open" /\ Len(written) < MaxSends
  /\ Send("text", msg)
  /\ UNCHANGED <<httpVars, recvVars, serverVars, chunk, pc, taken, got, onClose, closed>>

\* _ws_close, between the callbacks of the transfer.
UserClose ==
  /\ stage = "open" /\ pc = "idle" /\ ~closed
  /\ Close(<<1000, 0>>)
  /\ UNCHANGED <<httpVars, recvVars, serverVars, chunk, pc, taken, got, onClose>>

-----------------------------------------------------------------------------
(* The HTTP response *)

\* "HTTP/...": a new response, of which nothing is known.
StatusLine(code) ==
  /\ stage = "headers" /\ status = None
  /\ status' = code /\ accepted' = FALSE
  /\ UNCHANGED stage

\* "Sec-WebSocket-Accept:", with the expected key or another one.
AcceptLine(good) ==
  /\ stage = "headers" /\ status # None
  /\ accepted' = good
  /\ UNCHANGED <<stage, status>>

\* The empty line: the connection is open, or on_close and the transfer fails.
EndOfHeaders ==
  /\ stage = "headers" /\ status # None
  /\ stage' = IF accepted THEN "open" ELSE "refused"
  /\ onClose' = IF accepted THEN onClose ELSE Append(onClose, 1011)
  /\ status' = None
  /\ UNCHANGED accepted

\* The server takes the key of an upgrade only with 101.
Headers ==
  /\ \/ (\E code \in {"101", "302"} : StatusLine(code)) /\ UNCHANGED onClose
     \/ (\E good \in BOOLEAN : (good => status = "101") /\ AcceptLine(good)) /\ UNCHANGED onClose
     \/ EndOfHeaders
  /\ UNCHANGED <<recvVars, sendVars, serverVars, chunk, pc, taken, got>>

-----------------------------------------------------------------------------
(* The server, by the letter of RFC 6455 *)

ServerBytes(f) ==
  <<<<"op", f.op, f.fin, f.bad>>, <<"len", IF f.ext = 0 THEN Len(f.data) ELSE IF f.ext = 2 THEN 126 ELSE 127>>>>
    \o [i \in 1..f.ext |-> <<"ext", Len(f.data)>>] \o f.data

Legal(f) ==
  /\ ~f.bad /\ f.op # "reserved"
  /\ f.op \in Control => f.fin /\ f.ext = 0
  /\ f.op \in Data => assembling.op = None
  /\ f.op = "cont" => assembling.op # None
  /\ f.op = "close" => Len(f.data) # 1

\* What a receiver gets of a legal frame.
Meaning(f) ==
  CASE f.op \in Data /\ f.fin -> <<[op |-> f.op, data |-> f.data]>>
    [] f.op = "cont" /\ f.fin -> <<[op |-> assembling.op, data |-> assembling.data \o f.data]>>
    [] f.op \in {"ping", "pong"} -> <<[op |-> f.op, data |-> f.data]>>
    [] OTHER -> <<>>

\* A frame of the server; after CLOSE there is none, after an error anything.
ServerSends(f) ==
  /\ stage = "open" /\ sent < MaxFrames /\ ~closing
  /\ sent' = sent + 1 /\ wire' = wire \o ServerBytes(f)
  /\ broken' = (broken \/ ~Legal(f))
  /\ closing' = (f.op = "close")
  /\ expected' = expected \o IF broken' THEN <<>> ELSE Meaning(f)
  /\ assembling' = IF broken' \/ f.op \in Control THEN assembling
                   ELSE IF f.fin THEN [op |-> None, data |-> <<>>]
                   ELSE [op   |-> IF f.op = "cont" THEN assembling.op ELSE f.op,
                         data |-> assembling.data \o f.data]
  /\ UNCHANGED <<httpVars, recvVars, sendVars, chunk, pc, taken, got, onClose>>

-----------------------------------------------------------------------------
(* Receiving *)

\* libcurl calls _cws_receive_data with n bytes, or with what there is.
Receive(n) ==
  /\ stage = "open" /\ pc = "idle" /\ wire # <<>>
  /\ LET size == IF n < Len(wire) THEN n ELSE Len(wire) IN
       chunk' = SubSeq(wire, 1, size) /\ wire' = SubSeq(wire, size + 1, Len(wire))
  /\ pc' = IF Len(head) < needed THEN "header" ELSE "payload"
  /\ UNCHANGED <<httpVars, recvVars, sendVars, taken, got, onClose, sent, assembling, expected, broken, closing>>

\* Mutant of Resized: no room for the byte that ends the string.
Resized_Tight(buf, n) ==
  IF n = 0 THEN buf ELSE [buf EXCEPT !.room = buf.total + n, !.total = buf.total + n]

\* realloc for n more bytes and the one that ends the string.
Resized(buf, n) ==
  IF n = 0 THEN buf ELSE [buf EXCEPT !.room = buf.total + n + 1, !.total = buf.total + n]

\* Mutant of BeginPayload: a continuation goes on in the buffer of the frame before.
BeginPayload_Apart(op, n) ==
  /\ current' = Resized(current, n)
  /\ UNCHANGED fragments

\* The end of the header: a continuation goes on in the buffer of the fragments.
BeginPayload(op, n) ==
  /\ current' = Resized(IF op = "cont" THEN fragments ELSE current, n)
  /\ fragments' = IF op = "cont" THEN NoBuffer ELSE fragments

\* A continuation of nothing, or a data frame between the fragments of another.
OutOfPlace(op) ==
  \/ op = "cont" /\ fragOp = None
  \/ op \in Data /\ fragOp # None

\* Mutant of Malformed: the reserved bits and the mask are not looked at.
Malformed_Bits(bad, op, n) == n \in {126, 127} /\ op \in Control

Malformed(bad, op, n) == bad \/ (n \in {126, 127} /\ op \in Control)

\* One turn of the loop over the bytes of the header.
HeaderBytes ==
  /\ pc = "header"
  /\ LET todo == IF needed - Len(head) < Len(chunk) THEN needed - Len(head) ELSE Len(chunk)
         read == head \o SubSeq(chunk, 1, todo)
         left == SubSeq(chunk, todo + 1, Len(chunk))
         op   == read[1][2]
         more == CASE read[2][2] = 126 -> 2 [] read[2][2] = 127 -> 8 [] OTHER -> 0
         n    == IF needed = 2 THEN read[2][2] ELSE read[3][2]
     IN
       /\ head' = read /\ chunk' = left
       /\ \/ /\ Len(read) < needed
             /\ pc' = "idle"
             /\ Quiet /\ UNCHANGED <<needed, frame, current, fragments>>
          \/ /\ Len(read) = needed /\ needed = 2
             /\ frame' = [op |-> op, fin |-> read[1][3]]
             /\ needed' = 2 + more
             /\ pc' = IF more = 0 THEN "payload" ELSE IF left = <<>> THEN "idle" ELSE "header"
             /\ IF more = 0 THEN BeginPayload(op, n) ELSE UNCHANGED <<current, fragments>>
             /\ IF Malformed(read[1][4], op, read[2][2]) \/ (more = 0 /\ OutOfPlace(op))
                THEN Close(ProtocolError) ELSE Quiet
          \/ /\ Len(read) = needed /\ needed > 2
             /\ pc' = "payload" /\ BeginPayload(op, n)
             /\ IF OutOfPlace(op) THEN Close(ProtocolError) ELSE Quiet
             /\ UNCHANGED <<needed, frame>>
  /\ UNCHANGED <<httpVars, serverVars, fragOp, taken, got, onClose>>

\* Mutant of DispatchData: the fragments are given to the user one by one.
DispatchData_Each(buf) ==
  /\ frame.op \in Data \cup {"cont"}
  /\ got' = Append(got, [op |-> IF frame.op = "cont" THEN fragOp ELSE frame.op, data |-> buf.data])
  /\ current' = [buf EXCEPT !.data = <<>>, !.total = 0]
  /\ fragOp' = IF frame.fin THEN None ELSE IF frame.op = "cont" THEN fragOp ELSE frame.op
  /\ UNCHANGED <<frame, fragments, onClose>> /\ Quiet

\* TEXT, BINARY and CONTINUATION: to the user, or to the fragments.
DispatchData(buf) ==
  /\ frame.op \in Data \cup {"cont"}
  /\ \/ /\ frame.fin
        /\ got' = Append(got, [op |-> IF frame.op = "cont" THEN fragOp ELSE frame.op, data |-> buf.data])
        /\ current' = [buf EXCEPT !.data = <<>>, !.total = 0]
        /\ fragOp' = IF frame.op = "cont" THEN None ELSE fragOp
        /\ UNCHANGED <<frame, fragments>>
     \/ /\ ~frame.fin
        /\ fragments' = buf /\ current' = NoBuffer
        /\ fragOp' = IF frame.op = "cont" THEN fragOp ELSE frame.op
        /\ frame' = IF frame.op = "cont" THEN frame ELSE [op |-> None, fin |-> FALSE]
        /\ UNCHANGED got
  /\ UNCHANGED onClose /\ Quiet

\* cws_close_reason_is_valid
ValidReason(r) ==
  r \in {1000, 1001, 1002, 1003, 1007, 1008, 1009, 1010, 1011} \cup 3000..4999

\* CLOSE: check the reason, tell the user, echo it unless closed already.
DispatchClose(data) ==
  LET reason == IF Len(data) < 2 THEN 1005 ELSE IF ValidReason(data[1]) THEN data[1] ELSE 1002
      echo   == CASE Len(data) = 0 -> <<>>
                  [] Len(data) = 1 -> ProtocolError
                  [] OTHER -> IF ValidReason(data[1]) THEN data ELSE ProtocolError
  IN /\ onClose' = Append(onClose, reason)
     /\ Close(echo)
     /\ UNCHANGED got

\* Mutant of DispatchControl: websockets.c leaves PING to its user.
DispatchControl_NoPong(buf) ==
  /\ frame.op \in Control
  /\ \/ frame.op = "close" /\ DispatchClose(buf.data)
     \/ /\ frame.op \in {"ping", "pong"}
        /\ got' = Append(got, [op |-> frame.op, data |-> buf.data])
        /\ Quiet /\ UNCHANGED onClose
     \/ frame.op = "reserved" /\ Close(ProtocolError) /\ UNCHANGED <<got, onClose>>
  /\ current' = [buf EXCEPT !.data = <<>>, !.total = 0]
  /\ UNCHANGED <<frame, fragments, fragOp>>

\* Control frames; websockets.c answers a PING unless its user does.
DispatchControl(buf) ==
  /\ frame.op \in Control
  /\ \/ frame.op = "close" /\ DispatchClose(buf.data)
     \/ /\ frame.op = "ping"
        /\ got' = Append(got, [op |-> "ping", data |-> buf.data])
        /\ Send("pong", buf.data) /\ UNCHANGED <<closed, onClose>>
     \/ /\ frame.op = "pong"
        /\ got' = Append(got, [op |-> "pong", data |-> buf.data])
        /\ Quiet /\ UNCHANGED onClose
     \/ frame.op = "reserved" /\ Close(ProtocolError) /\ UNCHANGED <<got, onClose>>
  /\ current' = [buf EXCEPT !.data = <<>>, !.total = 0]
  /\ UNCHANGED <<frame, fragments, fragOp>>

\* _cws_dispatch_validate: what comes after our CLOSE frame is ignored ...
Ignored == closed /\ frame.op # "close"

\* ... and a fragmented control frame or a continuation of nothing is an error.
Invalid ==
  \/ ~frame.fin /\ frame.op \in Control
  \/ frame.op = "cont" /\ fragOp = None

\* _cws_dispatch
Dispatch(buf) ==
  \/ /\ Ignored \/ Invalid
     /\ IF Ignored THEN Quiet ELSE Close(ProtocolError)
     /\ current' = [buf EXCEPT !.data = <<>>, !.total = 0]
     /\ UNCHANGED <<frame, fragments, fragOp, got, onClose>>
  \/ ~Ignored /\ ~Invalid /\ (DispatchData(buf) \/ DispatchControl(buf))

\* Mutant of Payload: the parser keeps its place in the header.
Payload_KeepHead ==
  /\ pc = "payload"
  /\ LET missing == current.total - Len(current.data)
         todo == IF missing < Len(chunk) THEN missing ELSE Len(chunk)
         buf  == [current EXCEPT !.data = current.data \o SubSeq(chunk, 1, todo)]
     IN
       /\ chunk' = SubSeq(chunk, todo + 1, Len(chunk))
       /\ todo = missing /\ Dispatch(buf)
       /\ needed' = 2 /\ UNCHANGED head
       /\ pc' = IF chunk' = <<>> THEN "idle" ELSE "header"
  /\ UNCHANGED <<httpVars, serverVars, taken>>

\* The rest of _cws_process_frame: fill the payload, dispatch when it is complete.
Payload ==
  /\ pc = "payload"
  /\ LET missing == current.total - Len(current.data)
         todo == IF missing < Len(chunk) THEN missing ELSE Len(chunk)
         buf  == [current EXCEPT !.data = current.data \o SubSeq(chunk, 1, todo)]
     IN
       /\ chunk' = SubSeq(chunk, todo + 1, Len(chunk))
       /\ \/ /\ todo < missing
             /\ current' = buf /\ pc' = "idle"
             /\ Quiet /\ UNCHANGED <<frame, fragments, fragOp, head, needed, got, onClose>>
          \/ /\ todo = missing
             /\ Dispatch(buf)
             /\ head' = <<>> /\ needed' = 2
             /\ pc' = IF chunk' = <<>> THEN "idle" ELSE "header"
  /\ UNCHANGED <<httpVars, serverVars, taken>>

CwsNext ==
  \/ Headers
  \/ \E f \in ServerFrames : ServerSends(f)
  \/ \E n \in Pieces : Receive(n) \/ ReadCallback(n)
  \/ HeaderBytes \/ Payload
  \/ \E msg \in UserMessages : UserSend(msg)
  \/ UserClose

CwsSpec == CwsInit /\ [][CwsNext]_cwsVars

-----------------------------------------------------------------------------
(* Properties *)

CwsTypeOK ==
  /\ stage \in {"headers", "open", "refused"} /\ pc \in {"idle", "header", "payload"}
  /\ needed \in {2, 4, 10} /\ Len(head) <= needed
  /\ pc = "idle" => chunk = <<>>
  /\ fragOp \in Data \cup {None} /\ {accepted, closed, paused} \subseteq BOOLEAN

(* Whatever the chunks, the fragments and the control frames between them,  *)
(* the user gets what the server has sent, whole and in order               *)
(* (_cws_process_frame, _cws_dispatch).                                     *)
InOrder == IsPrefix(got, expected)

(* When all bytes are read and no CLOSE frame is written, nothing that was  *)
(* sent is missing or still held back by the parser.                        *)
NothingHeldBack == stage = "open" /\ pc = "idle" /\ wire = <<>> /\ ~closed => got = expected

(* A protocol error and a CLOSE frame of the server have us write CLOSE by  *)
(* the time the bytes are read, and the user learns of the server's CLOSE   *)
(* (the cws_close of the parser and of the dispatch).                       *)
ClosesWhenMust ==
  stage = "open" /\ pc = "idle" /\ wire = <<>> =>
    /\ broken \/ closing => closed
    /\ closing /\ ~broken => Len(onClose) = 1

(* What is allocated for a payload holds the bytes that are announced and   *)
(* the '\0' that is written after those read so far, in every exchange of   *)
(* buffers between the current frame and the fragments.                     *)
BuffersFit ==
  \A buf \in {current, fragments} :
    /\ Len(buf.data) <= buf.total
    /\ IF buf.room = 0 THEN buf.total = 0 ELSE buf.total < buf.room

\* The frame at a place of a series of bytes, as a server reads it, and the next place.
FrameAt(bytes, p) ==
  LET l7   == bytes[p + 1][2]
      ext  == CASE l7 = 126 -> 2 [] l7 = 127 -> 8 [] OTHER -> 0
      n    == IF ext = 0 THEN l7 ELSE bytes[p + 2][2]
      from == p + 2 + ext + 4
  IN  [op |-> bytes[p][2], data |-> [i \in 1..n |-> bytes[from + i - 1]], next |-> from + n]

\* What was written is what a server reads from one frame to the next, each byte unmasked
\* by its own key.
SentAsWritten ==
  LET bytes == taken \o out
      start[k \in 1..Len(written) + 1] == IF k = 1 THEN 1 ELSE FrameAt(bytes, start[k - 1]).next
  IN  /\ start[Len(written) + 1] = Len(bytes) + 1
      /\ \A k \in 1..Len(written) :
           LET read == FrameAt(bytes, start[k]) IN
             /\ read.op = written[k].op
             /\ read.data = [i \in 1..Len(written[k].data) |-> <<"data", written[k].data[i], (i - 1) % 4>>]

(* Bytes wait in the buffer only while the transfer is not paused, so that  *)
(* libcurl asks for them (_cws_write, _cws_send_data).                      *)
NeverStuck == out # <<>> => ~paused

(* CLOSE is the last frame that is written, whoever closes first and        *)
(* however many reasons there are to close.                                 *)
CloseIsLast == \A k \in 1..Len(written) : written[k].op = "close" => k = Len(written) /\ closed

\* The payloads of the messages with an opcode.
DataOf(s, op) == FlattenSeq([k \in 1..Len(s) |-> IF s[k].op = op THEN <<s[k].data>> ELSE <<>>])

(* Every PING that reached the user while open was answered, in order.      *)
PingsAnswered == DataOf(got, "ping") = DataOf(written, "pong")

(* A redirect, which websockets.c:463 has libcurl follow, does not refuse   *)
(* the connection.                                                          *)
RedirectsFollowed == [][status = "302" => stage' # "refused"]_cwsVars

\* What the server sends arrives: whole, in order and at once, however chunks and frames
\* cut it, and what is not legal closes the connection instead.
ReceivedAsSent ==
  /\ InOrder
  /\ NothingHeldBack
  /\ ClosesWhenMust
  /\ BuffersFit

\* What is written is what the server reads, pongs included, nothing of it waits for
\* ever, and nothing follows a CLOSE.
WrittenAsAsked ==
  /\ CwsTypeOK
  /\ SentAsWritten
  /\ NeverStuck
  /\ CloseIsLast
  /\ PingsAnswered
=============================================================================
