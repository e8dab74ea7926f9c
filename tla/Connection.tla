----------------------------- MODULE Connection -----------------------------
(***************************************************************************)
(* One connection handle of user-agent.c through several requests: its     *)
(* URL, request header, method and buffers are those of the request before *)
(* until they are overwritten, and so are the options of libcurl's handle. *)
(* A text is a sequence of pieces, which stand for as many bytes; an       *)
(* answer comes in header lines and chunks of body.                        *)
(***************************************************************************)
EXTENDS Naturals, Sequences, SequencesExt

CONSTANTS
  Texts,        \* pieces of text
  Demands,      \* requests: [base, endpoint, method, body, field, value]
  Answers,      \* answers of a server: [code, lines, chunks]
  MaxRequests   \* bound: requests on the handle

\* enum http_method
Methods == {"DELETE", "GET", "POST", "MIMEPOST", "PATCH", "PUT"}

ASSUME ConnectionAssumption ==
  /\ Demands \subseteq [base : Seq(Texts), endpoint : Seq(Texts), method : Methods, body : Seq(Texts),
                        field : Texts, value : Seq(Texts)]
  /\ Answers \subseteq [code : Nat, chunks : Seq(Seq(Texts)),
                        lines : Seq([field : Texts, blanks : Seq(Texts), value : Seq(Texts)])]

VARIABLES
  request,  \* what the user asked for
  url,      \* conn->url: [text, size]
  fields,   \* conn->header: [name, value, room] of each node
  option,   \* libcurl's options: [custom, kind, body, mime]
  reply,    \* what of the answer is still to come, and the answer
  rcvd,     \* conn->info: header and body buffer with size and length, pairs
  info,     \* the caller's struct ua_info
  moment,   \* "idle", "setup", "perform", "receive", "extract", "stop"
  requests  \* how many there were

connectionVars == <<request, url, fields, option, reply, rcvd, info, moment, requests>>

NoMethod == "none"
NoInfo   == [httpcode |-> 0, code |-> "none", header |-> <<>>, pairs |-> <<>>, body |-> <<>>, called |-> "none"]
\* A buffer has what was written into it last in its places, size of which the
\* memory has room for.
EmptyBuffer == [buf |-> <<>>, size |-> 0, len |-> 0]

\* _ua_conn_init
ConnectionInit ==
  /\ request \in Demands
  /\ url = [text |-> <<>>, size |-> 0]
  /\ fields = <<[name |-> "user-agent", value |-> <<"orca">>, room |-> 1]>>
  /\ option = [custom |-> NoMethod, kind |-> "GET", body |-> <<>>, mime |-> "none"]
  /\ reply \in Answers /\ rcvd = [header |-> EmptyBuffer, pairs |-> <<>>, body |-> EmptyBuffer]
  /\ info = NoInfo /\ moment = "idle" /\ requests = 0

-----------------------------------------------------------------------------
(* The request *)

\* Mutant of ReplacedField: a longer value is written over a shorter one.
ReplacedField_InPlace(node, value) == [node EXCEPT !.value = value]

\* What ua_conn_add_header makes of a node that has the field.
ReplacedField(node, value) ==
  IF Len(node.value) < Len(value) THEN [node EXCEPT !.value = value, !.room = Len(value)]
  ELSE [node EXCEPT !.value = value]

\* ua_conn_add_header
WithField(name, value) ==
  LET i == SelectInSeq(fields, LAMBDA node : node.name = name)
  IN  IF i = 0 THEN Append(fields, [name |-> name, value |-> value, room |-> Len(value)])
      ELSE [fields EXCEPT ![i] = ReplacedField(fields[i], value)]

\* Mutant of Plainly: the method of the request before stays.
Plainly_Kept(o) == o

\* "resets any preexisting CUSTOMREQUEST"
Plainly(o) == [o EXCEPT !.custom = NoMethod]

\* libcurl: a body makes the request a POST, under the name of the custom method.
Posting(o, body) == [o EXCEPT !.kind = "POST", !.body = body]

\* _ua_conn_set_method
OptionsFor(r) ==
  LET o == Plainly(option) IN
  CASE r.method = "GET" -> [o EXCEPT !.kind = "GET"]
    [] r.method = "MIMEPOST" -> [o EXCEPT !.kind = "MIMEPOST", !.mime = "allocated"]
    [] r.method = "POST" -> Posting(o, r.body)
    [] OTHER -> Posting([o EXCEPT !.custom = r.method], r.body)

\* The header of a request is completed ...
AddHeader ==
  /\ moment = "idle" /\ requests < MaxRequests /\ moment' = "setup"
  /\ \E r \in Demands : request' = r /\ fields' = WithField(r.field, r.value)
  /\ requests' = requests + 1
  /\ UNCHANGED <<url, option, reply, rcvd, info>>

\* _ua_conn_set_url: the URL and a NUL, and one byte more
UrlSize(r) == 2 + Len(r.base) + Len(r.endpoint)

\* ... before ua_conn_setup.  The buffer of the URL is only made larger.
SetUp ==
  /\ moment = "setup" /\ moment' = "perform"
  /\ url' = [text |-> request.base \o request.endpoint, size |-> IF UrlSize(request) > url.size THEN UrlSize(request) ELSE url.size]
  /\ option' = OptionsFor(request)
  /\ UNCHANGED <<request, fields, reply, rcvd, info, requests>>

\* ua_conn_easy_perform: the server has got the request, or nobody has.
Perform ==
  /\ moment = "perform"
  /\ \/ moment' = "receive" /\ reply' \in Answers
     \/ moment' = "stop" /\ UNCHANGED reply
  /\ info' = NoInfo
  /\ UNCHANGED <<request, url, fields, option, rcvd, requests>>

-----------------------------------------------------------------------------
(* The answer *)

\* A line is the series of its pieces: [field, ":",] blanks, value, CR and LF.
LineOf(line) == (IF line.field = "" THEN <<>> ELSE <<line.field, ":">>) \o line.blanks \o line.value \o <<"CR", "LF">>

\* Bytes that were written at the end of a buffer, whose memory is made larger if
\* it has no room for them and a NUL.
Stored(b, text) ==
  LET buf == SubSeq(b.buf, 1, b.len) \o text \o SubSeq(b.buf, b.len + Len(text) + 1, Len(b.buf))
  IN  [buf |-> buf, len |-> b.len + Len(text),
       size |-> IF b.size < b.len + Len(text) + 1 THEN b.len + Len(text) + 1 ELSE b.size]

\* Mutant of PairOf: places are counted from the line, not from the buffer.
PairOf_Line(at, line) ==
  LET v == 2 + Len(line.blanks)
  IN  [field |-> [idx |-> 0, size |-> 1], value |-> [idx |-> v, size |-> Len(line.value)]]

\* Where field and value of a line are that comes to place at of the buffer.
PairOf(at, line) ==
  LET v == 2 + Len(line.blanks)
  IN  [field |-> [idx |-> at, size |-> 1], value |-> [idx |-> at + v, size |-> Len(line.value)]]

\* _ua_conn_respheader_cb: a line without a colon is skipped.
RespHeader ==
  /\ moment = "receive" /\ reply.lines # <<>>
  /\ LET line == Head(reply.lines) IN
       rcvd' = IF line.field = "" THEN rcvd
               ELSE [rcvd EXCEPT !.header = Stored(rcvd.header, LineOf(line)),
                                 !.pairs = Append(rcvd.pairs, PairOf(rcvd.header.len, line))]
  /\ reply' = [reply EXCEPT !.lines = Tail(reply.lines)]
  /\ UNCHANGED <<request, url, fields, option, info, moment, requests>>

\* _ua_conn_respbody_cb
RespBody ==
  /\ moment = "receive" /\ reply.lines = <<>> /\ reply.chunks # <<>>
  /\ rcvd' = [rcvd EXCEPT !.body = Stored(rcvd.body, Head(reply.chunks))]
  /\ reply' = [reply EXCEPT !.chunks = Tail(reply.chunks)]
  /\ UNCHANGED <<request, url, fields, option, info, moment, requests>>

\* The answer is complete, or the transfer failed before.
EndPerform ==
  /\ moment = "receive"
  /\ \/ reply.lines = <<>> /\ reply.chunks = <<>> /\ moment' = "extract"
     \/ reply.lines \o reply.chunks # <<>> /\ moment' = "stop"
  /\ UNCHANGED <<request, url, fields, option, reply, rcvd, info, requests>>

Within(b) == SubSeq(b.buf, 1, b.len)

OrcaCode(c) == CASE c \in 200..299 -> "ORCA_OK" [] c \in (100..199) \cup (300..999) -> "ORCA_HTTP_CODE"
                 [] c \in 1..99 -> "ORCA_UNUSUAL_HTTP_CODE" [] OTHER -> "ORCA_CURL_NO_RESPONSE"
Callback(c) == CASE c \in 400..599 -> "err_cb" [] c \in 200..299 -> "ok_cb" [] OTHER -> "none"

\* ua_info_extract, and the user's callback that ua_easy_run calls.
InfoExtract ==
  /\ moment = "extract" /\ moment' = "stop"
  /\ info' = [httpcode |-> reply.code, code |-> OrcaCode(reply.code), header |-> Within(rcvd.header),
              pairs |-> rcvd.pairs, body |-> Within(rcvd.body), called |-> Callback(reply.code)]
  /\ UNCHANGED <<request, url, fields, option, reply, rcvd, requests>>

\* Mutant of Emptied: the header keeps its pairs.
Emptied_Pairs(r) == [r EXCEPT !.header.len = 0, !.body.len = 0]

\* _ua_info_reset
Emptied(r) == [r EXCEPT !.header.len = 0, !.body.len = 0, !.pairs = <<>>]

\* ua_conn_stop: the mime is freed, and libcurl's options are left as they are.
Stop ==
  /\ moment = "stop" /\ moment' = "idle"
  /\ rcvd' = Emptied(rcvd)
  /\ option' = [option EXCEPT !.mime = IF @ = "allocated" THEN "freed" ELSE @]
  /\ UNCHANGED <<request, url, fields, reply, info, requests>>

ConnectionNext == AddHeader \/ SetUp \/ Perform \/ RespHeader \/ RespBody \/ EndPerform \/ InfoExtract \/ Stop

ConnectionSpec == ConnectionInit /\ [][ConnectionNext]_connectionVars

\* ua_info_get_header: the value of the first pair that has the field.
SliceOf(text, s) == SubSeq(text, s.idx + 1, s.idx + s.size)
GetHeader(i, field) ==
  LET k == SelectInSeq(i.pairs, LAMBDA p : SliceOf(i.header, p.field) = <<field>>)
  IN  IF k = 0 THEN <<"NULL">> ELSE SliceOf(i.header, i.pairs[k].value)

-----------------------------------------------------------------------------
(* Properties *)

\* When a request is sent, whatever was sent on the handle before it: URL, method
\* and body are its own, its field is in the header once and with its value, and a
\* mime is used only while it is allocated.
SentIsAsked ==
  moment = "perform" =>
    /\ url.text = request.base \o request.endpoint
    /\ request.method = IF option.custom = NoMethod THEN option.kind ELSE option.custom
    /\ option.kind = "POST" => option.body = request.body
    /\ option.kind = "MIMEPOST" => option.mime = "allocated"
    /\ \E i \in DOMAIN fields :
         /\ fields[i].name = request.field /\ fields[i].value = request.value
         /\ \A j \in DOMAIN fields : fields[j].name = request.field => j = i

\* No buffer is written beyond its memory, NUL included, in any series of shorter
\* and longer requests and answers.
BuffersHold ==
  /\ url.text # <<>> => Len(url.text) + 1 <= url.size
  /\ \A i \in DOMAIN fields : Len(fields[i].value) <= fields[i].room
  /\ \A b \in {rcvd.header, rcvd.body} : b # EmptyBuffer => b.len + 1 <= b.size /\ Len(b.buf) <= b.size

\* The lines that have a field.
WithColon(lines) ==
  FlattenSeq([i \in DOMAIN lines |-> IF lines[i].field = "" THEN <<>> ELSE <<lines[i]>>])

\* A request that was answered gives its caller this answer and nothing of the one
\* before: its fields with their values, in which lines without a field are left
\* out and blanks are skipped, its body in one piece, and its code.
InfoIsAnswer ==
  moment = "stop" /\ info # NoInfo =>
    \E a \in Answers :
      LET lines == WithColon(a.lines) IN
        /\ info.httpcode = a.code /\ info.body = FlattenSeq(a.chunks) /\ Len(info.pairs) = Len(lines)
        /\ [i \in DOMAIN info.pairs |-> SliceOf(info.header, info.pairs[i].field)] = [i \in DOMAIN lines |-> <<lines[i].field>>]
        /\ \A i \in DOMAIN lines : SliceOf(info.header, info.pairs[i].value) = lines[i].value
        /\ info.called = "ok_cb" <=> info.code = "ORCA_OK"

\* A field that the answer does not have is not found, and a field that it has is
\* found with its first value.
HeadersAreFound ==
  info # NoInfo =>
    \E a \in Answers : a.code = info.httpcode /\ \A f \in Texts \ {""} :
      LET first == SelectInSeq(a.lines, LAMBDA line : line.field = f)
      IN  GetHeader(info, f) = IF first = 0 THEN <<"NULL">> ELSE a.lines[first].value

\* The requests that use one handle after another have nothing of each other: what is
\* sent is what was asked, and what comes back is the answer to it.
RequestsAreApart ==
  /\ SentIsAsked
  /\ BuffersHold
  /\ InfoIsAnswer
  /\ HeadersAreFound
=============================================================================
