------------------------------ MODULE CwsProofs ------------------------------
(***************************************************************************)
(* That the frames of a WebSockets connection arrive as they were sent,    *)
(* in both directions, for every set of frames and messages, all lengths   *)
(* and every way in which libcurl cuts the bytes into chunks.              *)
(***************************************************************************)
EXTENDS CwsFrames, QueueLemmas

Ops    == Data \cup Control \cup {"cont"}
Frames == [op : Ops, fin : BOOLEAN, bad : BOOLEAN, ext : {0, 2, 8}, data : Seq(Octets)]
Messages == [op : Ops, data : Seq(Octets)]
Buffers  == [room : Nat, data : Seq(Octets), total : Nat]
OpBytes   == {<<"op", op, fin, bad>> : op \in Ops, fin \in BOOLEAN, bad \in BOOLEAN}
DataBytes == {<<"data", o, i>> : o \in Octets, i \in Nat}
Bytes  == OpBytes \cup {<<"len", n>> : n \in Nat} \cup {<<"ext", n>> : n \in Nat} \cup {<<"mask">>}
            \cup DataBytes \cup Octets

-----------------------------------------------------------------------------
(* What a receiver should know of the frames of the server *)

\* The server's history up to some frame, and the bytes of those that follow.
States == [assembling : [op : Data \cup {None}, data : Seq(Octets)], expected : Seq(Messages),
           broken : BOOLEAN, closing : BOOLEAN, rest : Seq(Bytes)]

\* Legal and Meaning, for the message that is assembled at that point.
LegalAt(m, f) ==
  /\ ~f.bad /\ f.op # "reserved"
  /\ f.op \in Control => f.fin /\ f.ext = 0
  /\ f.op \in Data => m.op = None
  /\ f.op = "cont" => m.op # None
  /\ f.op = "close" => Len(f.data) # 1
MeaningAt(m, f) ==
  CASE f.op \in Data /\ f.fin -> <<[op |-> f.op, data |-> f.data]>>
    [] f.op = "cont" /\ f.fin -> <<[op |-> m.op, data |-> m.data \o f.data]>>
    [] f.op \in {"ping", "pong"} -> <<[op |-> f.op, data |-> f.data]>>
    [] OTHER -> <<>>
AssembledAt(m, f) ==
  IF f.fin THEN [op |-> None, data |-> <<>>]
  ELSE [op |-> IF f.op = "cont" THEN m.op ELSE f.op, data |-> m.data \o f.data]

\* Frame f leads from s to t.
Step(s, f, t) ==
  /\ ~s.closing /\ s.rest = ServerBytes(f) \o t.rest
  /\ t.broken = (s.broken \/ ~LegalAt(s.assembling, f))
  /\ t.closing = (f.op = "close")
  /\ t.expected = s.expected \o IF t.broken THEN <<>> ELSE MeaningAt(s.assembling, f)
  /\ t.assembling = IF t.broken \/ f.op \in Control THEN s.assembling ELSE AssembledAt(s.assembling, f)

\* What the server knows now.
Now == [assembling |-> assembling, expected |-> expected, broken |-> broken, closing |-> closing, rest |-> <<>>]

\* From s some frames lead to now.
Chain(fs, ss) ==
  /\ Len(ss) = Len(fs) + 1 /\ ss[Len(ss)] = Now
  /\ \A i \in 1..Len(fs) : Step(ss[i], fs[i], ss[i + 1])
  /\ \A i \in 1..Len(ss) : IsPrefix(ss[i].expected, expected)
Leads(s) == \E fs \in Seq(ServerFrames), ss \in Seq(States) : Chain(fs, ss) /\ s = ss[1]

-----------------------------------------------------------------------------
(* The inductive invariant *)

\* The user has got what the frames up to s mean, unless we have closed.
Agree(s) ==
  /\ IsPrefix(got, s.expected)
  /\ ~closed => /\ got = s.expected /\ ~s.broken /\ ~s.closing
                /\ fragOp = s.assembling.op
  /\ s.assembling.op = None => s.assembling.data = <<>>
  /\ ~s.closing => onClose = <<>>
  /\ s.closing /\ ~s.broken => Len(onClose) = 1

\* Between two frames, or in the first two bytes of one.
Between(s) ==
  /\ Leads(s) /\ needed = 2 /\ Len(head) < 2
  /\ head \o (chunk \o wire) = s.rest
  /\ current.data = <<>> /\ current.total = 0
  /\ ~closed => fragments.data = s.assembling.data

\* In the extended length of f.
InLength(s, f, t) ==
  /\ Leads(t) /\ Step(s, f, t) /\ f.ext # 0
  /\ needed = 2 + f.ext /\ 2 <= Len(head) /\ Len(head) < needed
  /\ head \o (chunk \o wire) = s.rest
  /\ frame = [op |-> f.op, fin |-> f.fin]
  /\ current.data = <<>> /\ current.total = 0
  /\ ~closed => ~f.bad /\ f.op \notin Control /\ fragments.data = s.assembling.data

\* In the payload of f, after d bytes.
InPayload(s, f, t, d) ==
  /\ Leads(t) /\ Step(s, f, t)
  /\ needed = 2 + f.ext /\ Len(head) = needed
  /\ frame = [op |-> f.op, fin |-> f.fin]
  /\ d \in 0..Len(f.data) /\ current.total - Len(current.data) = Len(f.data) - d
  /\ chunk \o wire = SubSeq(f.data, d + 1, Len(f.data)) \o t.rest
  /\ pc = "idle" => d < Len(f.data)
  /\ ~closed =>
       /\ ~f.bad /\ (f.op \in Control => f.ext = 0)
       /\ (f.op \in Data => s.assembling.op = None) /\ (f.op = "cont" => s.assembling.op # None)
       /\ current.data = (IF f.op = "cont" THEN s.assembling.data ELSE <<>>) \o SubSeq(f.data, 1, d)
       /\ fragments.data = IF f.op = "cont" THEN <<>> ELSE s.assembling.data

Parses(s) ==
  \/ pc \in {"idle", "header"} /\ Between(s)
  \/ pc \in {"idle", "header"} /\ \E f \in ServerFrames, t \in States : InLength(s, f, t)
  \/ pc \in {"idle", "payload"} /\ \E f \in ServerFrames, t \in States, d \in Nat : InPayload(s, f, t, d)

Fits(buf) == Len(buf.data) <= buf.total /\ IF buf.room = 0 THEN buf.total = 0 ELSE buf.total < buf.room

RecvTypes ==
  /\ stage \in {"headers", "open", "refused"} /\ accepted \in BOOLEAN /\ closed \in BOOLEAN
  /\ wire \in Seq(Bytes) /\ chunk \in Seq(Bytes) /\ pc \in {"idle", "header", "payload"}
  /\ head \in Seq(Bytes) /\ needed \in {2, 4, 10}
  /\ frame \in [op : Ops \cup {None}, fin : BOOLEAN]
  /\ current \in Buffers /\ fragments \in Buffers /\ fragOp \in Data \cup {None}
  /\ got \in Seq(Messages) /\ onClose \in Seq(Nat)
  /\ Now \in States

BufferInv == Fits(current) /\ Fits(fragments) /\ Len(fragments.data) = fragments.total

\* Nothing has happened before the connection is open.
Fresh ==
  /\ wire = <<>> /\ chunk = <<>> /\ pc = "idle" /\ head = <<>> /\ needed = 2
  /\ current = NoBuffer /\ fragments = NoBuffer /\ fragOp = None
  /\ ~closed /\ got = <<>> /\ expected = <<>> /\ assembling = [op |-> None, data |-> <<>>]
  /\ ~broken /\ ~closing

RecvInv ==
  /\ RecvTypes /\ BufferInv
  /\ pc = "idle" => chunk = <<>>
  /\ pc = "header" => chunk # <<>>
  /\ IF stage = "open" THEN \E s \in States : Agree(s) /\ Parses(s)
     ELSE Fresh /\ (stage = "headers" => onClose = <<>>)

-----------------------------------------------------------------------------
(* Sequences *)

\* A series is cut at a length in one way only.
LEMMA CutSame ==
  ASSUME NEW S, NEW a \in Seq(S), NEW b \in Seq(S), NEW c \in Seq(S), NEW d \in Seq(S),
         a \o b = c \o d, Len(a) = Len(c)
  PROVE  a = c /\ b = d
<1>1. /\ Len(a) \in Nat /\ Len(b) \in Nat /\ Len(d) \in Nat
      /\ Len(a \o b) = Len(a) + Len(b) /\ Len(c \o d) = Len(c) + Len(d)
      /\ \A i \in 1..Len(a) + Len(b) : (a \o b)[i] = IF i <= Len(a) THEN a[i] ELSE b[i - Len(a)]
      /\ \A i \in 1..Len(c) + Len(d) : (c \o d)[i] = IF i <= Len(c) THEN c[i] ELSE d[i - Len(c)]
  BY ConcatProperties, LenProperties
<1>2. \A i \in 1..Len(a) : a[i] = c[i]
  <2> TAKE i \in 1..Len(a)
  <2>1. i \in 1..Len(a) + Len(b) /\ i \in 1..Len(c) + Len(d) /\ i <= Len(a) /\ i <= Len(c)
    BY <1>1
  <2> QED BY <1>1, <2>1
<1>3. a = c
  BY <1>2, SeqEqual
<1>4. b = d
  BY <1>3, ConcatSimplifications
<1> QED BY <1>3, <1>4

\* A prefix is what something can be appended to.
LEMMA PrefixIs ==
  ASSUME NEW S, NEW s \in Seq(S), NEW t \in Seq(S)
  PROVE  IsPrefix(s, t) <=> \E x \in Seq(S) : t = s \o x
<1>1. Len(s) \in Nat /\ Len(t) \in Nat
  BY LenProperties
<1>2. ASSUME NEW x \in Seq(S), t = s \o x PROVE IsPrefix(s, t)
  <2>1. Len(s) <= Len(t)
    <3>1. Len(s \o x) = Len(s) + Len(x) /\ Len(x) \in Nat
      BY ConcatProperties, LenProperties
    <3> QED BY <1>1, <1>2, <3>1
  <2>2. SubSeq(s \o x, 0 + 1, 0 + Len(s)) = SubSeq(s, 0 + 1, 0 + Len(s))
    <3>1. 0 \in Nat /\ 0 + Len(s) <= Len(s)
      BY <1>1
    <3> QED BY <1>1, <3>1, SliceKept
  <2>3. 0 + 1 = 1 /\ 0 + Len(s) = Len(s)
    BY <1>1
  <2> QED BY <1>2, <2>1, <2>2, <2>3 DEF IsPrefix
<1>3. ASSUME IsPrefix(s, t) PROVE \E x \in Seq(S) : t = s \o x
  <2>1. Len(s) <= Len(t) /\ SubSeq(s, 1, Len(s)) = SubSeq(t, 1, Len(s)) /\ SubSeq(s, 1, Len(s)) = s
    BY <1>3, SubSeqFull DEF IsPrefix
  <2>2. /\ 1 \in 1..Len(t) + 1 /\ Len(s) \in 1 - 1..Len(t) /\ Len(t) \in Len(s)..Len(t)
        /\ Len(s) \in 0..Len(t)
    BY <1>1, <2>1
  <2>3. SubSeq(t, 1, Len(s)) \o SubSeq(t, Len(s) + 1, Len(t)) = SubSeq(t, 1, Len(t))
    BY <2>2, ConcatAdjacentSubSeq
  <2>4. SubSeq(t, Len(s) + 1, Len(t)) \in Seq(S)
    BY <2>2, SplitElems
  <2> QED BY <2>1, <2>3, <2>4, SubSeqFull
<1> QED BY <1>2, <1>3

\* What is appended to a series leaves its prefixes.
LEMMA PrefixGrows ==
  ASSUME NEW S, NEW s \in Seq(S), NEW t \in Seq(S), NEW x \in Seq(S), IsPrefix(s, t)
  PROVE  t \o x \in Seq(S) /\ IsPrefix(s, t \o x)
<1>1. PICK y \in Seq(S) : t = s \o y
  BY PrefixIs
<1>2. t \o x = s \o (y \o x) /\ y \o x \in Seq(S) /\ t \o x \in Seq(S)
  BY <1>1, ConcatAssociative, ConcatProperties, SMTT(20)
<1> QED BY <1>2, PrefixIs

\* A series is a prefix of itself.
LEMMA PrefixSame ==
  ASSUME NEW S, NEW s \in Seq(S)
  PROVE  IsPrefix(s, s)
BY SubSeqFull, LenProperties DEF IsPrefix

\* A prefix of a prefix is a prefix.
LEMMA PrefixThrough ==
  ASSUME NEW S, NEW s \in Seq(S), NEW t \in Seq(S), NEW u \in Seq(S), IsPrefix(s, t), IsPrefix(t, u)
  PROVE  IsPrefix(s, u)
<1>1. PICK x \in Seq(S) : u = t \o x
  BY PrefixIs
<1> QED BY <1>1, PrefixGrows

\* A sequence in two parts.
LEMMA TwoParts ==
  ASSUME NEW S, NEW s \in Seq(S), NEW k \in 0..Len(s)
  PROVE  /\ SubSeq(s, 1, k) \in Seq(S) /\ SubSeq(s, k + 1, Len(s)) \in Seq(S)
         /\ Len(SubSeq(s, 1, k)) = k /\ Len(SubSeq(s, k + 1, Len(s))) = Len(s) - k
         /\ SubSeq(s, 1, k) \o SubSeq(s, k + 1, Len(s)) = s
<1> DEFINE p == SubSeq(s, 1, k)
           q == SubSeq(s, k + 1, Len(s))
<1>1. Len(s) \in Nat /\ k \in Nat /\ k <= Len(s)
  BY LenProperties
<1>2. p \in Seq(S) /\ q \in Seq(S) /\ Len(p) = k
  BY SplitElems
<1>3. p \o q = SubSeq(s, 1, Len(s))
  <2>1. 1 \in 1..Len(s) + 1 /\ k \in 1 - 1..Len(s) /\ Len(s) \in k..Len(s)
    BY <1>1
  <2> QED BY <2>1, ConcatAdjacentSubSeq
<1>4. p \o q = s
  BY <1>3, SubSeqFull
<1> HIDE DEF p, q
<1>5. Len(q) = Len(s) - k
  <2>1. Len(p \o q) = Len(p) + Len(q) /\ Len(q) \in Nat
    BY <1>2, ConcatProperties, LenProperties
  <2> QED BY <1>1, <1>2, <1>4, <2>1
<1> QED BY <1>2, <1>4, <1>5 DEF p, q

\* Bytes are put together in any order; a name for it helps the provers to find the instance.
Joins(a, b, c) == (a \o b) \o c = a \o (b \o c)
LEMMA BytesJoin == \A a, b, c \in Seq(Bytes) : Joins(a, b, c)
BY ConcatAssociative DEF Joins

\* CutSame, of bytes.
Cuts(a, b, c, d) == a \o b = c \o d /\ Len(a) = Len(c) => a = c /\ b = d
LEMMA BytesCut == \A a, b, c, d \in Seq(Bytes) : Cuts(a, b, c, d)
BY CutSame DEF Cuts

-----------------------------------------------------------------------------
(* Frames as bytes *)

HeaderOf(f) ==
  <<<<"op", f.op, f.fin, f.bad>>, <<"len", IF f.ext = 0 THEN Len(f.data) ELSE IF f.ext = 2 THEN 126 ELSE 127>>>>
    \o [i \in 1..f.ext |-> <<"ext", Len(f.data)>>]

\* The types of the fields of a frame of the server.
LEMMA FrameIs ==
  ASSUME NEW f \in ServerFrames
  PROVE  /\ f \in Frames /\ f.op \in Ops /\ f.fin \in BOOLEAN /\ f.bad \in BOOLEAN /\ f.ext \in {0, 2, 8}
         /\ f.data \in Seq(Octets) /\ f.data \in Seq(Bytes) /\ Len(f.data) \in Nat
         /\ f.ext = 0 => Len(f.data) < 126
<1>1. /\ ServerFrames \subseteq Frames
      /\ \A g \in ServerFrames : g.ext = 0 => Len(g.data) < 126
  BY CwsAssumption DEF Frames, Ops
<1>2. f \in Frames
  BY <1>1
<1>3. f.op \in Ops /\ f.fin \in BOOLEAN /\ f.bad \in BOOLEAN /\ f.ext \in {0, 2, 8} /\ f.data \in Seq(Octets)
  BY <1>2 DEF Frames
<1>4. Octets \subseteq Bytes
  BY DEF Bytes
<1>5. f.data \in Seq(Bytes) /\ Len(f.data) \in Nat
  BY <1>3, <1>4, SeqMonotonic, LenProperties
<1> QED BY <1>1, <1>2, <1>3, <1>5

\* The bytes that a frame is put together from.
LEMMA ByteIs ==
  /\ \A op \in Ops, fin \in BOOLEAN, bad \in BOOLEAN : <<"op", op, fin, bad>> \in Bytes
  /\ \A n \in Nat : <<"len", n>> \in Bytes /\ <<"ext", n>> \in Bytes
  /\ <<"mask">> \in Bytes
  /\ \A o \in Octets, i \in Nat : <<"data", o, i>> \in Bytes
<1>1. \A op \in Ops, fin \in BOOLEAN, bad \in BOOLEAN : <<"op", op, fin, bad>> \in OpBytes
  BY DEF OpBytes
<1>2. /\ \A n \in Nat : <<"len", n>> \in {<<"len", m>> : m \in Nat}
      /\ \A n \in Nat : <<"ext", n>> \in {<<"ext", m>> : m \in Nat}
  OBVIOUS
<1>3. \A o \in Octets, i \in Nat : <<"data", o, i>> \in DataBytes
  BY DEF DataBytes
<1>4. OpBytes \subseteq Bytes /\ DataBytes \subseteq Bytes /\ {<<"mask">>} \subseteq Bytes
  BY Zenon DEF Bytes
<1>5. {<<"len", m>> : m \in Nat} \subseteq Bytes /\ {<<"ext", m>> : m \in Nat} \subseteq Bytes
  BY Zenon DEF Bytes
<1> QED BY <1>1, <1>2, <1>3, <1>4, <1>5, Zenon

\* The header of a frame, and that the payload follows it.
LEMMA HeaderIs ==
  ASSUME NEW f \in ServerFrames
  PROVE  /\ HeaderOf(f) \in Seq(Bytes) /\ Len(HeaderOf(f)) = 2 + f.ext
         /\ HeaderOf(f)[1] = <<"op", f.op, f.fin, f.bad>>
         /\ HeaderOf(f)[2] = <<"len", IF f.ext = 0 THEN Len(f.data) ELSE IF f.ext = 2 THEN 126 ELSE 127>>
         /\ f.ext # 0 => HeaderOf(f)[3] = <<"ext", Len(f.data)>>
         /\ ServerBytes(f) = HeaderOf(f) \o f.data
         /\ ServerBytes(f) \in Seq(Bytes) /\ Len(ServerBytes(f)) = 2 + f.ext + Len(f.data)
<1> DEFINE o == <<"op", f.op, f.fin, f.bad>>
           l == <<"len", IF f.ext = 0 THEN Len(f.data) ELSE IF f.ext = 2 THEN 126 ELSE 127>>
           e == <<"ext", Len(f.data)>>
           p == <<o, l>>
           x == [i \in 1..f.ext |-> e]
<1>1. /\ f.op \in Ops /\ f.fin \in BOOLEAN /\ f.bad \in BOOLEAN /\ f.ext \in {0, 2, 8}
      /\ f.data \in Seq(Bytes) /\ Len(f.data) \in Nat
  BY FrameIs
<1>2. o \in Bytes /\ l \in Bytes /\ e \in Bytes
  <2>1. (IF f.ext = 0 THEN Len(f.data) ELSE IF f.ext = 2 THEN 126 ELSE 127) \in Nat
    BY <1>1
  <2> QED BY <1>1, <2>1, ByteIs, ZenonT(30)
<1>3. HeaderOf(f) = p \o x /\ ServerBytes(f) = (p \o x) \o f.data
  BY Zenon DEF HeaderOf, ServerBytes
<1> HIDE DEF o, l, e
<1>4. p \in Seq(Bytes) /\ Len(p) = 2 /\ p[1] = o /\ p[2] = l
  BY <1>2
<1>5. x \in Seq(Bytes) /\ Len(x) = f.ext /\ \A i \in 1..f.ext : x[i] = e
  <2>1. f.ext \in Nat /\ \A i \in 1..f.ext : e \in Bytes
    BY <1>1, <1>2
  <2>2. x \in Seq(Bytes)
    BY <2>1, IsASeq
  <2>3. Len(x) = f.ext
    BY <2>1, <2>2, LenProperties
  <2> QED BY <2>2, <2>3
<1> HIDE DEF p, x
<1>6. /\ p \o x \in Seq(Bytes) /\ Len(p \o x) = 2 + f.ext
      /\ \A i \in 1..2 + f.ext : (p \o x)[i] = IF i <= 2 THEN p[i] ELSE x[i - 2]
  <2>1. /\ p \o x \in Seq(Bytes) /\ Len(p \o x) = Len(p) + Len(x)
        /\ \A i \in 1..Len(p) + Len(x) : (p \o x)[i] = IF i <= Len(p) THEN p[i] ELSE x[i - Len(p)]
    BY <1>4, <1>5, ConcatProperties
  <2> QED BY <1>4, <1>5, <2>1
<1>7. (p \o x)[1] = o /\ (p \o x)[2] = l
  BY <1>1, <1>4, <1>6
<1>8. ASSUME f.ext # 0 PROVE (p \o x)[3] = e
  BY <1>1, <1>5, <1>6, <1>8
<1>9. (p \o x) \o f.data \in Seq(Bytes) /\ Len((p \o x) \o f.data) = 2 + f.ext + Len(f.data)
  <2> DEFINE h == p \o x
  <2> HIDE DEF h
  <2>1. h \in Seq(Bytes) /\ Len(h) = 2 + f.ext
    BY <1>6 DEF h
  <2>2. h \o f.data \in Seq(Bytes) /\ Len(h \o f.data) = 2 + f.ext + Len(f.data)
    BY <1>1, <2>1, ConcatProperties
  <2> QED BY <2>2 DEF h
<1> QED BY <1>3, <1>6, <1>7, <1>8, <1>9 DEF o, l, e

\* The types of a state of the server.
LEMMA StateIs ==
  ASSUME NEW s \in States
  PROVE  /\ s.assembling.op \in Data \cup {None} /\ s.assembling.data \in Seq(Octets)
         /\ s.expected \in Seq(Messages) /\ s.broken \in BOOLEAN /\ s.closing \in BOOLEAN /\ s.rest \in Seq(Bytes)
         /\ s.assembling \in [op : Data \cup {None}, data : Seq(Octets)]
BY DEF States

\* What a frame means, whatever message is assembled.
LEMMA MeaningIs ==
  ASSUME NEW m \in [op : Data \cup {None}, data : Seq(Octets)], NEW f \in ServerFrames, LegalAt(m, f)
  PROVE  MeaningAt(m, f) \in Seq(Messages)
<1>1. f.op \in Ops /\ f.data \in Seq(Octets) /\ m.op \in Data \cup {None} /\ m.data \in Seq(Octets)
  BY FrameIs
<1>2. [op |-> f.op, data |-> f.data] \in Messages
  BY <1>1 DEF Messages
<1>3. f.op = "cont" => [op |-> m.op, data |-> m.data \o f.data] \in Messages
  <2>1. f.op = "cont" => m.op \in Ops
    BY <1>1 DEF LegalAt, Ops
  <2>2. m.data \o f.data \in Seq(Octets)
    BY <1>1, ConcatProperties
  <2> QED BY <2>1, <2>2 DEF Messages
<1>4. <<>> \in Seq(Messages) /\ \A e \in Messages : <<e>> \in Seq(Messages)
  BY EmptySeq, SingleElems
<1>5. CASE f.op = "cont" /\ f.fin
  <2>1. f.op \notin Data
    BY <1>5 DEF Data
  <2>2. MeaningAt(m, f) = <<[op |-> m.op, data |-> m.data \o f.data]>>
    BY <1>5, <2>1 DEF MeaningAt
  <2> QED BY <1>3, <1>4, <1>5, <2>2
<1>6. CASE ~(f.op = "cont" /\ f.fin)
  <2>1. MeaningAt(m, f) \in {<<>>, <<[op |-> f.op, data |-> f.data]>>}
    BY <1>6 DEF MeaningAt
  <2> QED BY <1>2, <1>4, <2>1
<1> QED BY <1>5, <1>6

\* What a legal data frame leaves to be assembled has its type.
LEMMA AssembledIs ==
  ASSUME NEW m \in [op : Data \cup {None}, data : Seq(Octets)], NEW f \in ServerFrames, LegalAt(m, f),
         f.op \notin Control
  PROVE  AssembledAt(m, f) \in [op : Data \cup {None}, data : Seq(Octets)]
<1>1. f.op \in Ops /\ f.data \in Seq(Octets) /\ m.op \in Data \cup {None} /\ m.data \in Seq(Octets)
  BY FrameIs
<1>2. m.data \o f.data \in Seq(Octets) /\ <<>> \in Seq(Octets)
  BY <1>1, ConcatProperties, EmptySeq
<1>3. (IF f.op = "cont" THEN m.op ELSE f.op) \in Data \cup {None}
  BY <1>1 DEF Ops
<1> QED BY <1>2, <1>3 DEF AssembledAt

-----------------------------------------------------------------------------
(* From a state of the server to the present one *)

\* The types of the server's history.
LEMMA ServerIs ==
  ASSUME Now \in States
  PROVE  /\ assembling \in [op : Data \cup {None}, data : Seq(Octets)] /\ expected \in Seq(Messages)
         /\ broken \in BOOLEAN /\ closing \in BOOLEAN
BY DEF Now, States

\* The present follows from itself, by no frame.
LEMMA NoneLeads == Now \in States => Leads(Now)
<1> SUFFICES ASSUME Now \in States PROVE Leads(Now)
  OBVIOUS
<1> DEFINE ss == <<Now>>
<1>1. ss \in Seq(States) /\ Len(ss) = 1 /\ ss[1] = Now /\ <<>> \in Seq(ServerFrames) /\ Len(<<>>) = 0
  OBVIOUS
<1>2. IsPrefix(expected, expected)
  BY ServerIs, PrefixSame
<1> HIDE DEF ss
<1>3. \A i \in 1..Len(ss) : IsPrefix(ss[i].expected, expected)
  <2> TAKE i \in 1..Len(ss)
  <2>1. i = 1
    BY <1>1
  <2>2. Now.expected = expected
    BY DEF Now
  <2> QED BY <1>1, <1>2, <2>1, <2>2
<1>4. Chain(<<>>, ss)
  BY <1>1, <1>3 DEF Chain
<1> QED BY <1>1, <1>4 DEF Leads

\* While the server sends nothing, what led to the present still does.
LEMMA LeadsStays ==
  ASSUME NEW s, Leads(s), UNCHANGED <<assembling, expected, broken, closing>>
  PROVE  Leads(s)'
BY DEF Leads, Chain, Now

\* What had to be received then is a prefix of what has to be received now.
LEMMA LeadsPrefix ==
  ASSUME NEW s \in States, Leads(s)
  PROVE  IsPrefix(s.expected, expected)
<1>1. PICK fs \in Seq(ServerFrames), ss \in Seq(States) : Chain(fs, ss) /\ s = ss[1]
  BY DEF Leads
<1>2. Len(fs) \in Nat /\ Len(ss) = Len(fs) + 1
  BY <1>1, LenProperties DEF Chain
<1>3. 1 \in 1..Len(ss)
  BY <1>2
<1> QED BY <1>1, <1>3 DEF Chain

\* What is not at the end of the server's history has a next frame.
LEMMA NextFrame ==
  ASSUME NEW s \in States, Leads(s), s # Now
  PROVE  \E f \in ServerFrames, t \in States : Step(s, f, t) /\ Leads(t)
<1>1. PICK fs \in Seq(ServerFrames), ss \in Seq(States) : Chain(fs, ss) /\ s = ss[1]
  BY DEF Leads
<1>2. /\ Len(fs) \in Nat /\ Len(ss) = Len(fs) + 1 /\ ss[Len(ss)] = Now
      /\ \A i \in 1..Len(fs) : Step(ss[i], fs[i], ss[i + 1])
      /\ \A i \in 1..Len(ss) : IsPrefix(ss[i].expected, expected)
  BY <1>1, LenProperties DEF Chain
<1>3. Len(fs) # 0
  BY <1>1, <1>2
<1>4. fs # <<>> /\ ss # <<>>
  BY <1>2, <1>3
<1> DEFINE gs == Tail(fs)
           ts == Tail(ss)
<1>5. /\ gs \in Seq(ServerFrames) /\ Len(gs) = Len(fs) - 1 /\ \A i \in 1..Len(gs) : gs[i] = fs[i + 1]
      /\ ts \in Seq(States) /\ Len(ts) = Len(ss) - 1 /\ \A i \in 1..Len(ts) : ts[i] = ss[i + 1]
  BY <1>4, HeadTailProperties
<1> HIDE DEF gs, ts
<1>6. Len(ts) = Len(gs) + 1 /\ ts[Len(ts)] = Now
  BY <1>2, <1>3, <1>5
<1>7. \A i \in 1..Len(gs) : Step(ts[i], gs[i], ts[i + 1])
  <2> TAKE i \in 1..Len(gs)
  <2>1. i + 1 \in 1..Len(fs) /\ i \in 1..Len(ts) /\ i + 1 \in 1..Len(ts)
    BY <1>2, <1>3, <1>5
  <2> QED BY <1>2, <1>5, <2>1
<1>8. \A i \in 1..Len(ts) : IsPrefix(ts[i].expected, expected)
  <2> TAKE i \in 1..Len(ts)
  <2>1. i + 1 \in 1..Len(ss)
    BY <1>2, <1>5
  <2> QED BY <1>2, <1>5, <2>1
<1>9. Chain(gs, ts)
  BY <1>6, <1>7, <1>8 DEF Chain
<1>10. Leads(ts[1])
  BY <1>5, <1>9 DEF Leads
<1>11. /\ fs[1] \in ServerFrames /\ ts[1] \in States /\ ts[1] = ss[2] /\ Step(ss[1], fs[1], ss[2])
  <2>1. 1 \in 1..Len(fs) /\ 1 \in 1..Len(ts) /\ 1 + 1 = 2
    BY <1>2, <1>3, <1>5
  <2> QED BY <1>2, <1>5, <2>1, ElementOfSeq
<1> QED BY <1>1, <1>10, <1>11

\* At the end of its history all bytes have been read.
LEMMA NothingLeft ==
  ASSUME NEW s \in States, Leads(s), s.rest = <<>>
  PROVE  s = Now
<1> SUFFICES ASSUME s # Now PROVE FALSE
  OBVIOUS
<1>1. PICK f \in ServerFrames, t \in States : Step(s, f, t)
  BY NextFrame
<1>2. s.rest = ServerBytes(f) \o t.rest /\ t.rest \in Seq(Bytes)
  BY <1>1, StateIs DEF Step
<1>3. ServerBytes(f) \in Seq(Bytes) /\ Len(ServerBytes(f)) >= 2
  <2>1. f.ext \in {0, 2, 8} /\ Len(f.data) \in Nat
    BY FrameIs
  <2>2. ServerBytes(f) \in Seq(Bytes) /\ Len(ServerBytes(f)) = 2 + f.ext + Len(f.data)
    BY HeaderIs
  <2> QED BY <2>1, <2>2
<1>4. ServerBytes(f) = <<>>
  BY <1>2, <1>3, ConcatEqualIffEmpty
<1> QED BY <1>3, <1>4, EmptySeq

\* When the server sends a frame, its bytes are added to what is to be read.
Grown(s, f) == [s EXCEPT !.rest = s.rest \o ServerBytes(f)]

\* The fields of a state whose bytes have grown.
LEMMA GrownIs ==
  ASSUME NEW s \in States, NEW f \in ServerFrames
  PROVE  /\ Grown(s, f) \in States /\ Grown(s, f).rest = s.rest \o ServerBytes(f)
         /\ Grown(s, f).assembling = s.assembling /\ Grown(s, f).expected = s.expected
         /\ Grown(s, f).broken = s.broken /\ Grown(s, f).closing = s.closing
<1>1. s.rest \o ServerBytes(f) \in Seq(Bytes)
  <2>1. s.rest \in Seq(Bytes) /\ ServerBytes(f) \in Seq(Bytes)
    BY StateIs, HeaderIs
  <2> QED BY <2>1, ConcatProperties
<1> QED BY <1>1 DEF Grown, States

\* A frame that led on still does when the server sends another one later.
LEMMA StepGrows ==
  ASSUME NEW s \in States, NEW t \in States, NEW g \in ServerFrames, NEW f \in ServerFrames, Step(s, g, t)
  PROVE  Step(Grown(s, f), g, Grown(t, f))
<1>1. s.rest \o ServerBytes(f) = ServerBytes(g) \o (t.rest \o ServerBytes(f))
  <2>1. /\ s.rest = ServerBytes(g) \o t.rest /\ t.rest \in Seq(Bytes)
        /\ ServerBytes(f) \in Seq(Bytes) /\ ServerBytes(g) \in Seq(Bytes)
    BY StateIs, HeaderIs DEF Step
  <2> DEFINE a == ServerBytes(g)
             b == t.rest
             c == ServerBytes(f)
  <2>2. a \in Seq(Bytes) /\ b \in Seq(Bytes) /\ c \in Seq(Bytes)
    BY <2>1, Zenon
  <2> HIDE DEF a, b, c
  <2>3. (a \o b) \o c = a \o (b \o c)
    BY <2>2, ConcatAssociative
  <2> QED BY <2>1, <2>3, Zenon DEF a, b, c
<1>2. /\ Grown(s, f).rest = s.rest \o ServerBytes(f)
      /\ Grown(s, f).assembling = s.assembling /\ Grown(s, f).expected = s.expected
      /\ Grown(s, f).broken = s.broken /\ Grown(s, f).closing = s.closing
  BY GrownIs
<1>3. /\ Grown(t, f).rest = t.rest \o ServerBytes(f)
      /\ Grown(t, f).assembling = t.assembling /\ Grown(t, f).expected = t.expected
      /\ Grown(t, f).broken = t.broken /\ Grown(t, f).closing = t.closing
  BY GrownIs
<1> QED BY <1>1, <1>2, <1>3, Zenon DEF Step

\* The frame that is sent leads from what was the present to what is.
LEMMA SentStep ==
  ASSUME Now \in States, NEW f \in ServerFrames, ServerSends(f)
  PROVE  Now' \in States /\ Step(Grown(Now, f), f, Now')
<1>1. /\ assembling \in [op : Data \cup {None}, data : Seq(Octets)] /\ expected \in Seq(Messages)
      /\ broken \in BOOLEAN /\ closing \in BOOLEAN
  BY ServerIs
<1>2. /\ ~closing /\ broken' = (broken \/ ~Legal(f)) /\ closing' = (f.op = "close")
      /\ expected' = expected \o IF broken' THEN <<>> ELSE Meaning(f)
      /\ assembling' = IF broken' \/ f.op \in Control THEN assembling ELSE AssembledAt(assembling, f)
  BY Zenon DEF ServerSends, AssembledAt
<1>3. Legal(f) = LegalAt(assembling, f) /\ Meaning(f) = MeaningAt(assembling, f)
  BY Zenon DEF Legal, LegalAt, Meaning, MeaningAt
<1>4. broken' \in BOOLEAN /\ closing' \in BOOLEAN
  BY <1>2
<1>5. ~broken' => LegalAt(assembling, f)
  BY <1>1, <1>2, <1>3
<1>6. expected' \in Seq(Messages)
  <2>1. (IF broken' THEN <<>> ELSE Meaning(f)) \in Seq(Messages)
    BY <1>1, <1>3, <1>5, MeaningIs, EmptySeq
  <2> QED BY <1>1, <1>2, <2>1, ConcatProperties
<1>7. assembling' \in [op : Data \cup {None}, data : Seq(Octets)]
  BY <1>1, <1>2, <1>5, AssembledIs
<1>8. <<>> \in Seq(Bytes)
  BY EmptySeq
<1>9. Now' \in States
  BY <1>4, <1>6, <1>7, <1>8 DEF Now, States
<1>10. /\ Now.rest = <<>> /\ Now.assembling = assembling /\ Now.expected = expected
       /\ Now.broken = broken /\ Now.closing = closing
       /\ Now'.rest = <<>> /\ Now'.assembling = assembling' /\ Now'.expected = expected'
       /\ Now'.broken = broken' /\ Now'.closing = closing'
  BY DEF Now
<1>11. /\ Grown(Now, f).rest = <<>> \o ServerBytes(f)
       /\ Grown(Now, f).assembling = assembling /\ Grown(Now, f).expected = expected
       /\ Grown(Now, f).broken = broken /\ Grown(Now, f).closing = closing
  <2>1. /\ Grown(Now, f).rest = Now.rest \o ServerBytes(f)
        /\ Grown(Now, f).assembling = Now.assembling /\ Grown(Now, f).expected = Now.expected
        /\ Grown(Now, f).broken = Now.broken /\ Grown(Now, f).closing = Now.closing
    BY GrownIs
  <2> QED BY <1>10, <2>1, Zenon
<1>12. <<>> \o ServerBytes(f) = ServerBytes(f) \o <<>>
  <2>1. ServerBytes(f) \in Seq(Bytes)
    BY HeaderIs
  <2> QED BY <2>1, ConcatEmptySeq
<1>13. Step(Grown(Now, f), f, Now')
  BY <1>2, <1>3, <1>10, <1>11, <1>12, Zenon DEF Step
<1> QED BY <1>9, <1>13

\* After the server sends, the states of its history lead to the present by one frame more.
LEMMA LeadsGrows ==
  ASSUME Now \in States, NEW f \in ServerFrames, ServerSends(f), NEW s \in States, Leads(s)
  PROVE  Leads(Grown(s, f))'
<1>1. PICK fs \in Seq(ServerFrames), ss \in Seq(States) : Chain(fs, ss) /\ s = ss[1]
  BY DEF Leads
<1>2. /\ Len(fs) \in Nat /\ Len(ss) = Len(fs) + 1 /\ ss[Len(ss)] = Now
      /\ \A i \in 1..Len(fs) : Step(ss[i], fs[i], ss[i + 1])
      /\ \A i \in 1..Len(ss) : IsPrefix(ss[i].expected, expected)
      /\ \A i \in 1..Len(ss) : ss[i] \in States
  BY <1>1, LenProperties, ElementOfSeq DEF Chain
<1> DEFINE n == Len(ss)
           u == [i \in 1..n |-> Grown(ss[i], f)]
<1>3. PICK now : now = Now'
  OBVIOUS
<1>4. now \in States /\ Step(Grown(Now, f), f, now)
  BY <1>3, SentStep
<1>5. u \in Seq(States) /\ Len(u) = n /\ \A i \in 1..n : u[i] = Grown(ss[i], f)
  <2>1. n \in Nat /\ \A i \in 1..n : Grown(ss[i], f) \in States
    BY <1>2, GrownIs
  <2>2. u \in Seq(States)
    BY <2>1, IsASeq
  <2>3. Len(u) = n
    BY <2>1, <2>2, LenProperties
  <2> QED BY <2>2, <2>3
<1> HIDE DEF u
<1>6. PICK gs : gs = Append(fs, f)
  OBVIOUS
<1>7. PICK ts : ts = Append(u, now)
  OBVIOUS
<1>8. /\ gs \in Seq(ServerFrames) /\ Len(gs) = Len(fs) + 1 /\ gs[Len(fs) + 1] = f
      /\ \A i \in 1..Len(fs) : gs[i] = fs[i]
  BY <1>6, AppendProperties
<1>9. /\ ts \in Seq(States) /\ Len(ts) = n + 1 /\ ts[n + 1] = now
      /\ \A i \in 1..n : ts[i] = u[i]
  BY <1>4, <1>5, <1>7, AppendProperties
<1>10. Len(ts) = Len(gs) + 1 /\ ts[Len(ts)] = now
  BY <1>2, <1>8, <1>9
<1>11. \A i \in 1..Len(gs) : Step(ts[i], gs[i], ts[i + 1])
  <2> TAKE i \in 1..Len(gs)
  <2>1. CASE i <= Len(fs)
    <3>1. i \in 1..Len(fs) /\ i \in 1..n /\ i + 1 \in 1..n
      BY <1>2, <1>8, <2>1
    <3>2. ts[i] = Grown(ss[i], f) /\ ts[i + 1] = Grown(ss[i + 1], f) /\ gs[i] = fs[i] /\ fs[i] \in ServerFrames
      BY <1>5, <1>8, <1>9, <3>1, ElementOfSeq
    <3>3. ss[i] \in States /\ ss[i + 1] \in States /\ Step(ss[i], fs[i], ss[i + 1])
      BY <1>2, <3>1
    <3> QED BY <3>2, <3>3, StepGrows
  <2>2. CASE ~(i <= Len(fs))
    <3>1. i = Len(fs) + 1 /\ i = n /\ i \in 1..n
      BY <1>2, <1>8, <2>2
    <3>2. ts[i] = Grown(Now, f) /\ ts[i + 1] = now /\ gs[i] = f
      BY <1>2, <1>5, <1>8, <1>9, <3>1
    <3> QED BY <1>4, <3>2
  <2> QED BY <2>1, <2>2
<1>12. \A i \in 1..Len(ts) : IsPrefix(ts[i].expected, expected')
  <2>1. PICK x \in Seq(Messages) : expected' = expected \o x
    <3>1. now.expected = Now.expected \o IF now.broken THEN <<>> ELSE MeaningAt(Now.assembling, f)
      <4>1. Grown(Now, f).expected = Now.expected /\ Grown(Now, f).assembling = Now.assembling
        BY GrownIs
      <4> QED BY <1>4, <4>1, Zenon DEF Step
    <3>2. /\ now.expected = expected' /\ Now.expected = expected /\ Now.assembling = assembling
          /\ now.broken = broken'
      BY <1>3 DEF Now
    <3>3. now.broken = (Now.broken \/ ~LegalAt(Now.assembling, f))
      BY <1>4, GrownIs DEF Step
    <3>4. (IF now.broken THEN <<>> ELSE MeaningAt(Now.assembling, f)) \in Seq(Messages)
      <4>1. Now.assembling \in [op : Data \cup {None}, data : Seq(Octets)]
        BY StateIs
      <4>2. ~now.broken => LegalAt(Now.assembling, f)
        BY <3>3, StateIs
      <4> QED BY <4>1, <4>2, MeaningIs, EmptySeq
    <3> QED BY <3>1, <3>2, <3>4
  <2>2. expected \in Seq(Messages) /\ expected' \in Seq(Messages)
    <3>1. now.expected \in Seq(Messages) /\ now.expected = expected'
      <4>1. now.expected = expected'
        BY <1>3 DEF Now
      <4> QED BY <1>4, <4>1, StateIs
    <3> QED BY <3>1, ServerIs
  <2> TAKE i \in 1..Len(ts)
  <2>3. CASE i \in 1..n
    <3>1. ts[i].expected = ss[i].expected /\ ss[i].expected \in Seq(Messages)
      BY <1>2, <1>5, <1>9, <2>3, GrownIs, StateIs
    <3>2. IsPrefix(ss[i].expected, expected)
      BY <1>2, <2>3
    <3> QED BY <2>1, <2>2, <3>1, <3>2, PrefixGrows
  <2>4. CASE i \notin 1..n
    <3>1. i = n + 1 /\ n \in Nat
      BY <1>2, <1>9, <2>4
    <3>2. ts[i].expected = expected'
      <4>1. now.expected = expected'
        BY <1>3 DEF Now
      <4> QED BY <1>9, <3>1, <4>1
    <3> QED BY <2>2, <3>2, PrefixSame
  <2> QED BY <2>3, <2>4
<1>13. Chain(gs, ts)'
  BY <1>3, <1>10, <1>11, <1>12 DEF Chain
<1>14. ts[1] = Grown(s, f)
  <2>1. 1 \in 1..n
    BY <1>2
  <2> QED BY <1>1, <1>5, <1>9, <2>1
<1> QED BY <1>8, <1>9, <1>13, <1>14 DEF Leads

-----------------------------------------------------------------------------
(* Reading *)

\* The bytes of a frame that were read first are those of its header.
LEMMA HeaderRead ==
  ASSUME NEW f \in ServerFrames, NEW rest \in Seq(Bytes), NEW h \in Seq(Bytes), NEW l \in Seq(Bytes),
         h \o l = ServerBytes(f) \o rest
  PROVE  /\ Len(h) >= 2 => h[1] = HeaderOf(f)[1] /\ h[2] = HeaderOf(f)[2]
         /\ Len(h) >= 3 /\ f.ext # 0 => h[3] = HeaderOf(f)[3]
         /\ Len(h) = 2 + f.ext => l = f.data \o rest
<1> DEFINE a == HeaderOf(f)
           b == f.data \o rest
<1>1. /\ f.ext \in {0, 2, 8} /\ f.data \in Seq(Bytes) /\ a \in Seq(Bytes) /\ Len(a) = 2 + f.ext
      /\ ServerBytes(f) = a \o f.data
  BY FrameIs, HeaderIs
<1>2. b \in Seq(Bytes)
  BY <1>1, ConcatProperties
<1>3. h \o l = a \o b
  <2> DEFINE x == f.data
  <2> HIDE DEF a, x
  <2>1. Joins(a, x, rest)
    BY <1>1, BytesJoin, Zenon DEF x
  <2> QED BY <1>1, <2>1 DEF x, Joins
<1> HIDE DEF a, b
<1>4. /\ Len(h) \in Nat /\ Len(l) \in Nat /\ Len(b) \in Nat
      /\ \A i \in 1..Len(h) + Len(l) : (h \o l)[i] = IF i <= Len(h) THEN h[i] ELSE l[i - Len(h)]
      /\ \A i \in 1..Len(a) + Len(b) : (a \o b)[i] = IF i <= Len(a) THEN a[i] ELSE b[i - Len(a)]
  BY <1>1, <1>2, ConcatProperties, LenProperties
<1>5. ASSUME NEW i \in 1..Len(h), i <= Len(a) PROVE h[i] = a[i]
  <2>1. i \in 1..Len(h) + Len(l) /\ i \in 1..Len(a) + Len(b) /\ i <= Len(h)
    BY <1>1, <1>4, <1>5, SMTT(20)
  <2> QED BY <1>3, <1>4, <1>5, <2>1
<1>6. ASSUME Len(h) >= 2 PROVE h[1] = a[1] /\ h[2] = a[2]
  <2>1. 1 \in 1..Len(h) /\ 2 \in 1..Len(h) /\ 1 <= Len(a) /\ 2 <= Len(a)
    BY <1>1, <1>4, <1>6, SMTT(20)
  <2> QED BY <1>5, <2>1
<1>7. ASSUME Len(h) >= 3, f.ext # 0 PROVE h[3] = a[3]
  <2>1. 3 \in 1..Len(h) /\ 3 <= Len(a)
    BY <1>1, <1>4, <1>7, SMTT(20)
  <2> QED BY <1>5, <2>1
<1>8. ASSUME Len(h) = 2 + f.ext PROVE l = b
  <2>1. Len(h) = Len(a)
    BY <1>1, <1>8
  <2> QED BY <1>1, <1>2, <1>3, <2>1, CutSame
<1> QED BY <1>6, <1>7, <1>8 DEF a, b

\* The next k bytes of a payload of which d were read before.
Consumed(data, rest, c, w, d, k) ==
  /\ SubSeq(c, 1, k) = SubSeq(data, d + 1, d + k)
  /\ SubSeq(data, 1, d) \o SubSeq(c, 1, k) = SubSeq(data, 1, d + k)
  /\ SubSeq(c, k + 1, Len(c)) \o w = SubSeq(data, d + k + 1, Len(data)) \o rest

\* What Consumed says is so: bytes leave the chunk as they enter the payload.
LEMMA PayloadRead ==
  ASSUME NEW data \in Seq(Bytes), NEW rest \in Seq(Bytes), NEW c \in Seq(Bytes), NEW w \in Seq(Bytes),
         NEW d \in 0..Len(data), c \o w = SubSeq(data, d + 1, Len(data)) \o rest,
         NEW k \in 0..Len(c), d + k <= Len(data)
  PROVE  Consumed(data, rest, c, w, d, k)
<1> DEFINE p == SubSeq(c, 1, k)
           q == SubSeq(c, k + 1, Len(c))
           a == SubSeq(data, d + 1, d + k)
           b == SubSeq(data, d + k + 1, Len(data))
<1>1. p \in Seq(Bytes) /\ q \in Seq(Bytes) /\ Len(p) = k /\ p \o q = c
  BY TwoParts
<1>2. /\ Len(data) \in Nat /\ d \in Nat /\ k \in Nat /\ d <= Len(data) /\ d + k \in 0..Len(data)
  BY LenProperties
<1>3. a \o b = SubSeq(data, d + 1, Len(data))
  <2>1. d + 1 \in 1..Len(data) + 1 /\ d + k \in (d + 1) - 1..Len(data) /\ Len(data) \in d + k..Len(data)
    BY <1>2
  <2> DEFINE m == d + 1
             n == d + k
             l == Len(data)
  <2> HIDE DEF m, n, l
  <2>2. SubSeq(data, m, n) \o SubSeq(data, n + 1, l) = SubSeq(data, m, l)
    <3>1. m \in 1..Len(data) + 1 /\ n \in m - 1..Len(data) /\ l \in n..Len(data)
      BY <2>1 DEF m, n, l
    <3> QED BY <3>1, ConcatAdjacentSubSeq
  <2> QED BY <2>2 DEF m, n, l
<1>4. a \in Seq(Bytes) /\ Len(a) = k
  <2>1. d + 1 \in Int /\ d + k \in Int
    BY <1>2
  <2>2. \A i \in d + 1..d + k : data[i] \in Bytes
    <3>1. \A i \in d + 1..d + k : i \in 1..Len(data)
      BY <1>2
    <3> QED BY <3>1, ElementOfSeq
  <2>3. a \in Seq(Bytes) /\ Len(a) = IF d + 1 <= d + k THEN (d + k) - (d + 1) + 1 ELSE 0
    BY <2>1, <2>2, SubSeqProperties
  <2> QED BY <1>2, <2>3
<1>5. b \in Seq(Bytes)
  BY <1>2, TwoParts
<1>6. SubSeq(data, 1, d) \o a = SubSeq(data, 1, d + k)
  <2>1. 1 \in 1..Len(data) + 1 /\ d \in 1 - 1..Len(data) /\ d + k \in d..Len(data)
    BY <1>2
  <2> DEFINE n == d + k
  <2> HIDE DEF n
  <2>2. SubSeq(data, 1, d) \o SubSeq(data, d + 1, n) = SubSeq(data, 1, n)
    <3>1. 1 \in 1..Len(data) + 1 /\ d \in 1 - 1..Len(data) /\ n \in d..Len(data)
      BY <2>1 DEF n
    <3> QED BY <3>1, ConcatAdjacentSubSeq
  <2> QED BY <2>2 DEF n
<1> HIDE DEF p, q, a, b
<1>7. p \o (q \o w) = a \o (b \o rest)
  <2>1. Joins(p, q, w)
    <3>1. p \in Seq(Bytes) /\ q \in Seq(Bytes)
      BY <1>1
    <3> QED BY <3>1, BytesJoin, Zenon
  <2>2. Joins(a, b, rest)
    BY <1>4, <1>5, BytesJoin, Zenon
  <2> QED BY <1>1, <1>3, <2>1, <2>2 DEF Joins
<1>8. q \o w \in Seq(Bytes) /\ b \o rest \in Seq(Bytes)
  BY <1>1, <1>5, ConcatProperties
<1>9. p = a /\ q \o w = b \o rest
  <2>1. p \in Seq(Bytes) /\ a \in Seq(Bytes) /\ Len(p) = Len(a)
    BY <1>1, <1>4
  <2>2. Cuts(p, q \o w, a, b \o rest)
    BY <2>1, <1>8, BytesCut, Zenon
  <2> QED BY <1>7, <2>1, <2>2, Zenon DEF Cuts
<1> QED BY <1>6, <1>9, Zenon DEF Consumed, p, q, a, b

\* The first k bytes of the chunk c are read behind h, and nothing else changes.
ReadFrom(h, c, w, k) ==
  /\ h \o SubSeq(c, 1, k) \in Seq(Bytes) /\ Len(h \o SubSeq(c, 1, k)) = Len(h) + k
  /\ SubSeq(c, k + 1, Len(c)) \in Seq(Bytes) /\ Len(SubSeq(c, k + 1, Len(c))) = Len(c) - k
  /\ (h \o SubSeq(c, 1, k)) \o (SubSeq(c, k + 1, Len(c)) \o w) = h \o (c \o w)

\* The bytes that were read, with those of the chunk that are taken.
LEMMA ReadOn ==
  ASSUME NEW h \in Seq(Bytes), NEW c \in Seq(Bytes), NEW w \in Seq(Bytes), NEW k \in 0..Len(c)
  PROVE  ReadFrom(h, c, w, k)
<1> DEFINE p == SubSeq(c, 1, k)
           q == SubSeq(c, k + 1, Len(c))
<1>1. p \in Seq(Bytes) /\ q \in Seq(Bytes) /\ Len(p) = k /\ Len(q) = Len(c) - k /\ p \o q = c
  BY TwoParts
<1> HIDE DEF p, q
<1>2. h \o p \in Seq(Bytes) /\ Len(h \o p) = Len(h) + k /\ q \o w \in Seq(Bytes)
  BY <1>1, ConcatProperties
<1>3. (h \o p) \o (q \o w) = h \o (c \o w)
  <2>1. Joins(h, p, q \o w)
    <3>1. p \in Seq(Bytes) /\ q \o w \in Seq(Bytes)
      BY <1>1, <1>2
    <3> QED BY <3>1, BytesJoin, Zenon
  <2>2. Joins(p, q, w)
    BY <1>1, BytesJoin, Zenon
  <2> QED BY <1>1, <2>1, <2>2 DEF Joins
<1> QED BY <1>1, <1>2, <1>3, Zenon DEF ReadFrom, p, q

\* The buffer that realloc returns fits, and has the bytes of the one before.
LEMMA ResizedIs ==
  ASSUME NEW buf \in Buffers, Fits(buf), NEW n \in Nat
  PROVE  /\ Resized(buf, n) \in Buffers /\ Fits(Resized(buf, n))
         /\ Resized(buf, n).data = buf.data /\ Resized(buf, n).total = buf.total + n
<1>1. buf.total \in Nat /\ buf.room \in Nat /\ buf.data \in Seq(Octets) /\ Len(buf.data) \in Nat
  BY LenProperties DEF Buffers
<1>2. CASE n = 0
  BY <1>1, <1>2 DEF Resized
<1>3. CASE n # 0
  <2>1. Resized(buf, n) = [room |-> buf.total + n + 1, data |-> buf.data, total |-> buf.total + n]
    BY <1>3 DEF Resized, Buffers
  <2>2. Len(buf.data) <= buf.total
    BY DEF Fits
  <2> QED BY <1>1, <1>3, <2>1, <2>2 DEF Buffers, Fits
<1> QED BY <1>2, <1>3

\* The empty buffer fits.
LEMMA NoBufferIs == NoBuffer \in Buffers /\ Fits(NoBuffer) /\ NoBuffer.data = <<>> /\ NoBuffer.total = 0
<1>1. <<>> \in Seq(Octets) /\ Len(<<>>) = 0
  BY EmptySeq
<1> QED BY <1>1 DEF NoBuffer, Buffers, Fits

\* The end of a header leaves room for the payload, after the fragments if there are any.
LEMMA PayloadBegins ==
  ASSUME current \in Buffers, fragments \in Buffers, BufferInv, current.data = <<>>, current.total = 0,
         NEW op, NEW n \in Nat, BeginPayload(op, n)
  PROVE  /\ current' \in Buffers /\ fragments' \in Buffers /\ BufferInv'
         /\ current'.total - Len(current'.data) = n
         /\ current'.data = IF op = "cont" THEN fragments.data ELSE <<>>
         /\ fragments'.data = IF op = "cont" THEN <<>> ELSE fragments.data
<1>1. Fits(current) /\ Fits(fragments) /\ Len(fragments.data) = fragments.total /\ fragments.total \in Nat
  BY DEF BufferInv, Buffers
<1>2. CASE op = "cont"
  <2>1. current' = Resized(fragments, n) /\ fragments' = NoBuffer
    BY <1>2 DEF BeginPayload
  <2>2. current' \in Buffers /\ Fits(current') /\ current'.data = fragments.data /\ current'.total = fragments.total + n
    BY <1>1, <2>1, ResizedIs
  <2>3. fragments' \in Buffers /\ Fits(fragments') /\ fragments'.data = <<>> /\ fragments'.total = 0
    BY <2>1, NoBufferIs
  <2>4. BufferInv'
    BY <2>2, <2>3, EmptySeq DEF BufferInv, Fits
  <2> QED BY <1>1, <1>2, <2>2, <2>3, <2>4
<1>3. CASE op # "cont"
  <2>1. current' = Resized(current, n) /\ fragments' = fragments
    BY <1>3 DEF BeginPayload
  <2>2. current' \in Buffers /\ Fits(current') /\ current'.data = <<>> /\ current'.total = 0 + n
    BY <1>1, <2>1, ResizedIs
  <2>3. BufferInv'
    BY <1>1, <2>1, <2>2 DEF BufferInv, Fits
  <2>4. Len(<<>>) = 0
    BY EmptySeq
  <2> QED BY <1>1, <1>3, <2>1, <2>2, <2>3, <2>4
<1> QED BY <1>2, <1>3

\* What the frames up to s mean stays what it is while nothing is given to the user.
LEMMA AgreeStays ==
  ASSUME NEW s, Agree(s), UNCHANGED <<got, fragOp, onClose>>, closed => closed'
  PROVE  Agree(s)'
BY DEF Agree

\* When the parser closes.
LEMMA ClosedIs ==
  ASSUME NEW msg, closed \in BOOLEAN
  PROVE  /\ Close(msg) => closed' = TRUE
         /\ Quiet => closed' = closed
BY DEF Close, Quiet

-----------------------------------------------------------------------------
(* Where the parser is, when it does not move *)

\* A place between two frames stays one while the parser does not move.
LEMMA BetweenStays ==
  ASSUME NEW s, Between(s), UNCHANGED <<assembling, expected, broken, closing, needed, head, current, fragments>>,
         chunk' \o wire' = chunk \o wire, closed => closed'
  PROVE  Between(s)'
<1>1. Leads(s)'
  BY LeadsStays DEF Between
<1> QED BY <1>1 DEF Between

\* So does one in an extended length ...
LEMMA InLengthStays ==
  ASSUME NEW s, NEW f, NEW t, InLength(s, f, t),
         UNCHANGED <<assembling, expected, broken, closing, needed, head, frame, current, fragments>>,
         chunk' \o wire' = chunk \o wire, closed => closed'
  PROVE  InLength(s, f, t)'
<1>1. Leads(t)'
  BY LeadsStays DEF InLength
<1> QED BY <1>1 DEF InLength

\* ... and one in a payload.
LEMMA InPayloadStays ==
  ASSUME NEW s, NEW f, NEW t, NEW d, InPayload(s, f, t, d),
         UNCHANGED <<assembling, expected, broken, closing, needed, head, frame, current, fragments>>,
         chunk' \o wire' = chunk \o wire, closed => closed', pc' = "idle" => pc = "idle"
  PROVE  InPayload(s, f, t, d)'
<1>1. Leads(t)'
  BY LeadsStays DEF InPayload
<1> QED BY <1>1 DEF InPayload

-----------------------------------------------------------------------------
(* The steps that leave the parser alone *)

\* The invariant holds at first.
LEMMA RecvStarts ==
  ASSUME CwsInit
  PROVE  RecvInv
<1>1. <<>> \in Seq(Bytes) /\ <<>> \in Seq(Messages) /\ <<>> \in Seq(Octets) /\ <<>> \in Seq(Nat)
  BY EmptySeq
<1>2. Now \in States
  <2>1. [op |-> None, data |-> <<>>] \in [op : Data \cup {None}, data : Seq(Octets)]
    BY <1>1
  <2> QED BY <1>1, <2>1 DEF CwsInit, Now, States
<1>3. RecvTypes
  <2>1. [op |-> None, fin |-> FALSE] \in [op : Ops \cup {None}, fin : BOOLEAN]
    OBVIOUS
  <2> QED BY <1>1, <1>2, <2>1, NoBufferIs DEF CwsInit, RecvTypes
<1>4. BufferInv
  BY NoBufferIs, EmptySeq DEF CwsInit, BufferInv
<1>5. Fresh
  BY DEF CwsInit, Fresh
<1> QED BY <1>3, <1>4, <1>5 DEF CwsInit, RecvInv

\* Sending, and closing on our side.
LEMMA RecvWhileSending ==
  ASSUME RecvInv, UNCHANGED <<httpVars, recvVars, serverVars, chunk, pc, got, onClose>>,
         closed' \in BOOLEAN, closed => closed', stage = "open" \/ closed' = closed
  PROVE  RecvInv'
<1> USE DEF httpVars, recvVars, serverVars
<1>1. RecvTypes' /\ BufferInv'
  BY DEF RecvInv, RecvTypes, BufferInv, Fits, Now
<1>2. CASE stage = "open"
  <2>1. PICK s \in States : Agree(s) /\ Parses(s)
    BY <1>2 DEF RecvInv
  <2>2. Agree(s)'
    BY <2>1, AgreeStays
  <2>3. Parses(s)'
    <3>1. CASE pc \in {"idle", "header"} /\ Between(s)
      BY <3>1, BetweenStays DEF Parses
    <3>2. ASSUME NEW f \in ServerFrames, NEW t \in States, pc \in {"idle", "header"}, InLength(s, f, t)
          PROVE  Parses(s)'
      BY <3>2, InLengthStays DEF Parses
    <3>3. ASSUME NEW f \in ServerFrames, NEW t \in States, NEW d \in Nat, pc \in {"idle", "payload"}, InPayload(s, f, t, d)
          PROVE  Parses(s)'
      BY <3>3, InPayloadStays DEF Parses
    <3> QED BY <2>1, <3>1, <3>2, <3>3 DEF Parses
  <2> QED BY <1>1, <1>2, <2>2, <2>3 DEF RecvInv
<1>3. CASE stage # "open"
  BY <1>1, <1>3 DEF RecvInv, Fresh
<1> QED BY <1>2, <1>3

\* The HTTP response: nothing has been read, and nothing is.
LEMMA RecvHeaders ==
  ASSUME RecvInv, Headers
  PROVE  RecvInv'
<1>1. /\ UNCHANGED <<recvVars, sendVars, serverVars, chunk, pc, got>>
      /\ stage = "headers" /\ stage' \in {"headers", "open", "refused"}
      /\ accepted' \in BOOLEAN
      /\ stage' # "refused" => onClose' = onClose
      /\ onClose' = onClose \/ onClose' = Append(onClose, 1011)
  <2>1. accepted \in BOOLEAN
    BY DEF RecvInv, RecvTypes
  <2>2. UNCHANGED <<recvVars, sendVars, serverVars, chunk, pc, got>>
    BY DEF Headers
  <2>3. CASE (\E code \in {"101", "302"} : StatusLine(code)) /\ UNCHANGED onClose
    BY <2>2, <2>3 DEF StatusLine
  <2>4. CASE (\E good \in BOOLEAN : (good => status = "101") /\ AcceptLine(good)) /\ UNCHANGED onClose
    BY <2>2, <2>4 DEF AcceptLine
  <2>5. CASE EndOfHeaders
    <3>1. /\ stage = "headers" /\ accepted' = accepted
          /\ stage' = IF accepted THEN "open" ELSE "refused"
          /\ onClose' = IF accepted THEN onClose ELSE Append(onClose, 1011)
      BY <2>5 DEF EndOfHeaders
    <3> QED BY <2>1, <2>2, <3>1
  <2> QED BY <2>3, <2>4, <2>5 DEF Headers
<1> USE DEF recvVars, sendVars, serverVars
<1>2. onClose' \in Seq(Nat)
  <2>1. onClose \in Seq(Nat) /\ 1011 \in Nat
    BY DEF RecvInv, RecvTypes
  <2>2. Append(onClose, 1011) \in Seq(Nat)
    BY <2>1, AppendProperties
  <2> QED BY <1>1, <2>1, <2>2
<1>3. RecvTypes' /\ BufferInv'
  BY <1>1, <1>2 DEF RecvInv, RecvTypes, BufferInv, Fits, Now
<1>4. Fresh' /\ onClose = <<>> /\ pc' = "idle" /\ chunk' = <<>>
  BY <1>1 DEF RecvInv, Fresh
<1>5. CASE stage' = "open"
  <2>1. PICK s : s = Now'
    OBVIOUS
  <2>2. s \in States /\ Leads(s)'
    <3>1. (Now \in States => Leads(Now))'
      BY NoneLeads, PTL
    <3>2. Leads(Now)'
      BY <1>3, <3>1 DEF RecvTypes
    <3> QED BY <1>3, <2>1, <3>2 DEF RecvTypes, Leads
  <2>3. s.rest = <<>> /\ s.expected = <<>> /\ s.assembling = [op |-> None, data |-> <<>>] /\ ~s.broken /\ ~s.closing
    BY <1>4, <2>1 DEF Now, Fresh
  <2>4. IsPrefix(<<>>, <<>>)
    BY EmptySeq, PrefixSame
  <2>5. Agree(s)'
    BY <1>1, <1>4, <1>5, <2>3, <2>4 DEF Agree, Fresh
  <2>6. Between(s)'
    <3>1. <<>> \o (<<>> \o <<>>) = <<>> /\ Len(<<>>) = 0
      BY EmptySeq, ConcatEmptySeq
    <3> QED BY <1>4, <2>2, <2>3, <3>1 DEF Between, Fresh, NoBuffer
  <2> QED BY <1>3, <1>4, <1>5, <2>2, <2>5, <2>6 DEF RecvInv, Parses
<1>6. CASE stage' # "open"
  BY <1>1, <1>3, <1>4, <1>6 DEF RecvInv
<1> QED BY <1>5, <1>6

\* The server sends a frame: every place is a frame farther from the present.
LEMMA RecvServerSends ==
  ASSUME RecvInv, NEW f \in ServerFrames, ServerSends(f)
  PROVE  RecvInv'
<1>1. /\ UNCHANGED <<httpVars, recvVars, sendVars, chunk, pc, got, onClose>>
      /\ stage = "open" /\ wire' = wire \o ServerBytes(f)
  BY DEF ServerSends
<1> USE DEF httpVars, recvVars, sendVars
<1>2. Now \in States /\ wire \in Seq(Bytes) /\ chunk \in Seq(Bytes) /\ head \in Seq(Bytes) /\ ServerBytes(f) \in Seq(Bytes)
  BY HeaderIs DEF RecvInv, RecvTypes
<1>3. Now' \in States
  BY <1>2, SentStep
<1>4. wire' \in Seq(Bytes) /\ chunk \o wire' = (chunk \o wire) \o ServerBytes(f)
      /\ head \o (chunk \o wire') = (head \o (chunk \o wire)) \o ServerBytes(f)
  <2> DEFINE b == ServerBytes(f)
             cw == chunk \o wire
  <2>1. b \in Seq(Bytes) /\ cw \in Seq(Bytes)
    BY <1>2, ConcatProperties
  <2> HIDE DEF b
  <2>2. Joins(chunk, wire, b)
    BY <1>2, <2>1, BytesJoin, Zenon
  <2> HIDE DEF cw
  <2>3. Joins(head, cw, b)
    BY <1>2, <2>1, BytesJoin, Zenon
  <2>4. wire \o b \in Seq(Bytes)
    BY <1>2, <2>1, ConcatProperties
  <2>5. wire' = wire \o b
    BY <1>1, Zenon DEF b
  <2> QED BY <2>2, <2>3, <2>4, <2>5, Zenon DEF b, cw, Joins
<1>5. RecvTypes' /\ BufferInv'
  BY <1>1, <1>3, <1>4 DEF RecvInv, RecvTypes, BufferInv, Fits
<1>6. PICK s \in States : Agree(s) /\ Parses(s)
  BY <1>1 DEF RecvInv
<1>7. PICK u : u = Grown(s, f)
  OBVIOUS
<1>8. /\ u \in States /\ u.rest = s.rest \o ServerBytes(f)
      /\ u.assembling = s.assembling /\ u.expected = s.expected
      /\ u.broken = s.broken /\ u.closing = s.closing
  BY <1>7, GrownIs
<1>9. Agree(u)'
  BY <1>1, <1>6, <1>8 DEF Agree
<1>10. CASE pc \in {"idle", "header"} /\ Between(s)
  <2>1. Leads(s) /\ head \o (chunk \o wire) = s.rest
    BY <1>10, Zenon DEF Between
  <2>2. Leads(u)'
    <3>1. Leads(Grown(s, f))'
      BY <1>2, <2>1, LeadsGrows
    <3> QED BY <1>7, <3>1 DEF Leads
  <2>3. head \o (chunk \o wire') = u.rest
    BY <1>4, <1>8, <2>1
  <2>4. Between(u)'
    BY <1>1, <1>8, <1>10, <2>2, <2>3 DEF Between
  <2> QED BY <1>1, <1>5, <1>8, <1>9, <1>10, <2>4 DEF RecvInv, Parses
<1>11. ASSUME NEW g \in ServerFrames, NEW t \in States, Step(s, g, t), Leads(t)
       PROVE  \E v \in States : /\ Leads(v)' /\ Step(u, g, v) /\ v.rest = t.rest \o ServerBytes(f)
  <2>1. PICK v : v = Grown(t, f)
    OBVIOUS
  <2>2. v \in States /\ v.rest = t.rest \o ServerBytes(f)
    BY <2>1, GrownIs
  <2>3. Step(u, g, v)
    BY <1>7, <1>11, <2>1, StepGrows
  <2>4. Leads(v)'
    <3>1. Leads(Grown(t, f))'
      BY <1>2, <1>11, LeadsGrows
    <3> QED BY <2>1, <3>1 DEF Leads
  <2> QED BY <2>2, <2>3, <2>4
<1>12. ASSUME NEW g \in ServerFrames, NEW t \in States, pc \in {"idle", "header"}, InLength(s, g, t)
       PROVE  RecvInv'
  <2>1. Step(s, g, t) /\ Leads(t) /\ head \o (chunk \o wire) = s.rest
    BY <1>12 DEF InLength
  <2>2. PICK v \in States : Leads(v)' /\ Step(u, g, v)
    BY <1>11, <2>1
  <2>3. head \o (chunk \o wire') = u.rest
    BY <1>4, <1>8, <2>1
  <2>4. InLength(u, g, v)'
    BY <1>1, <1>8, <1>12, <2>2, <2>3 DEF InLength
  <2> QED BY <1>1, <1>5, <1>8, <1>9, <1>12, <2>4 DEF RecvInv, Parses
<1>13. ASSUME NEW g \in ServerFrames, NEW t \in States, NEW d \in Nat, pc \in {"idle", "payload"}, InPayload(s, g, t, d)
       PROVE  RecvInv'
  <2>1. /\ Step(s, g, t) /\ Leads(t) /\ d \in 0..Len(g.data)
        /\ chunk \o wire = SubSeq(g.data, d + 1, Len(g.data)) \o t.rest
    BY <1>13 DEF InPayload
  <2>2. PICK v \in States : Leads(v)' /\ Step(u, g, v) /\ v.rest = t.rest \o ServerBytes(f)
    BY <1>11, <2>1
  <2>3. chunk \o wire' = SubSeq(g.data, d + 1, Len(g.data)) \o v.rest
    <3> DEFINE a == SubSeq(g.data, d + 1, Len(g.data))
               b == t.rest
               c == ServerBytes(f)
    <3>1. a \in Seq(Bytes) /\ b \in Seq(Bytes) /\ c \in Seq(Bytes)
      <4>1. g.data \in Seq(Bytes)
        BY FrameIs
      <4> QED BY <1>2, <2>1, <4>1, TwoParts, StateIs
    <3> HIDE DEF a, b, c
    <3>2. Joins(a, b, c)
      BY <3>1, BytesJoin, Zenon
    <3>3. chunk \o wire' = (chunk \o wire) \o c /\ chunk \o wire = a \o b /\ v.rest = b \o c
      BY <1>4, <2>1, <2>2, Zenon DEF a, b, c
    <3>4. chunk \o wire' = a \o v.rest
      BY <3>2, <3>3, Zenon DEF Joins
    <3> QED BY <3>4 DEF a
  <2>4. InPayload(u, g, v, d)'
    BY <1>1, <1>8, <1>13, <2>2, <2>3 DEF InPayload
  <2> QED BY <1>1, <1>5, <1>8, <1>9, <1>13, <2>4 DEF RecvInv, Parses
<1> QED BY <1>6, <1>10, <1>12, <1>13 DEF Parses

\* A chunk is handed over: the bytes to come are the same, in another place.
LEMMA RecvReceive ==
  ASSUME RecvInv, NEW n \in Pieces, Receive(n)
  PROVE  RecvInv'
<1> DEFINE size == IF n < Len(wire) THEN n ELSE Len(wire)
<1>1. /\ UNCHANGED <<httpVars, recvVars, sendVars, got, onClose, assembling, expected, broken, closing>>
      /\ stage = "open" /\ pc = "idle" /\ wire # <<>>
      /\ chunk' = SubSeq(wire, 1, size) /\ wire' = SubSeq(wire, size + 1, Len(wire))
      /\ pc' = IF Len(head) < needed THEN "header" ELSE "payload"
  BY DEF Receive
<1> USE DEF httpVars, recvVars, sendVars
<1>2. wire \in Seq(Bytes) /\ chunk = <<>> /\ n \in Nat \ {0} /\ Len(wire) \in Nat /\ Len(wire) # 0
  <2>1. wire \in Seq(Bytes) /\ chunk = <<>> /\ n \in Nat \ {0}
    BY <1>1, CwsAssumption DEF RecvInv, RecvTypes
  <2> QED BY <1>1, <2>1, LenProperties, EmptySeq
<1>3. size \in 0..Len(wire) /\ size # 0
  BY <1>2
<1> HIDE DEF size
<1>4. /\ chunk' \in Seq(Bytes) /\ wire' \in Seq(Bytes) /\ chunk' \o wire' = wire /\ Len(chunk') # 0
  <2>1. Len(chunk') = size /\ chunk' \in Seq(Bytes) /\ wire' \in Seq(Bytes) /\ chunk' \o wire' = wire
    BY <1>1, <1>2, <1>3, TwoParts
  <2> QED BY <1>3, <2>1
<1>5. chunk' # <<>>
  BY <1>4, EmptySeq
<1>6. chunk' \o wire' = chunk \o wire
  BY <1>2, <1>4, ConcatEmptySeq
<1>7. RecvTypes' /\ BufferInv'
  BY <1>1, <1>4 DEF RecvInv, RecvTypes, BufferInv, Fits, Now
<1>8. PICK s \in States : Agree(s) /\ Parses(s)
  BY <1>1 DEF RecvInv
<1>9. Agree(s)'
  BY <1>1, <1>8, AgreeStays
<1>10. /\ needed \in Nat /\ pc' \in {"header", "payload"}
       /\ pc' = "header" <=> Len(head) < needed
  BY <1>1 DEF RecvInv, RecvTypes
<1>11. Parses(s)'
  <2>1. CASE Between(s)
    <3>1. pc' = "header"
      BY <1>10, <2>1 DEF Between
    <3>2. Between(s)'
      BY <1>1, <1>6, <2>1, BetweenStays
    <3> QED BY <3>1, <3>2 DEF Parses
  <2>2. ASSUME NEW f \in ServerFrames, NEW t \in States, InLength(s, f, t)
        PROVE  Parses(s)'
    <3>1. pc' = "header"
      BY <1>10, <2>2 DEF InLength
    <3>2. InLength(s, f, t)'
      BY <1>1, <1>6, <2>2, InLengthStays
    <3> QED BY <3>1, <3>2 DEF Parses
  <2>3. ASSUME NEW f \in ServerFrames, NEW t \in States, NEW d \in Nat, InPayload(s, f, t, d)
        PROVE  Parses(s)'
    <3>1. pc' = "payload"
      <4>1. Len(head) = needed
        BY <2>3 DEF InPayload
      <4> QED BY <1>10, <4>1
    <3>2. InPayload(s, f, t, d)'
      BY <1>1, <1>6, <2>3, <3>1, InPayloadStays
    <3> QED BY <3>1, <3>2 DEF Parses
  <2> QED BY <1>8, <2>1, <2>2, <2>3 DEF Parses
<1> QED BY <1>1, <1>5, <1>7, <1>9, <1>10, <1>11 DEF RecvInv

-----------------------------------------------------------------------------
(* The header of a frame *)

MoreOf(read) == CASE read[2][2] = 126 -> 2 [] read[2][2] = 127 -> 8 [] OTHER -> 0

\* HeaderBytes, of the bytes that are read when it is done.
LEMMA HeaderTurn ==
  ASSUME RecvTypes, chunk # <<>>, Len(head) < needed, HeaderBytes
  PROVE  /\ head' \in Seq(Bytes) /\ chunk' \in Seq(Bytes)
         /\ Len(head') > Len(head) /\ Len(head') <= needed
         /\ Len(head') < needed => chunk' = <<>>
         /\ head' \o (chunk' \o wire) = head \o (chunk \o wire)
         /\ UNCHANGED <<httpVars, serverVars, fragOp, taken, got, onClose>>
         /\ \/ /\ Len(head') < needed
               /\ pc' = "idle" /\ closed' = closed
               /\ UNCHANGED <<needed, frame, current, fragments>>
            \/ /\ Len(head') = needed /\ needed = 2
               /\ frame' = [op |-> head'[1][2], fin |-> head'[1][3]]
               /\ needed' = 2 + MoreOf(head')
               /\ pc' = IF MoreOf(head') = 0 THEN "payload" ELSE IF chunk' = <<>> THEN "idle" ELSE "header"
               /\ IF MoreOf(head') = 0 THEN BeginPayload(head'[1][2], head'[2][2]) ELSE UNCHANGED <<current, fragments>>
               /\ closed' = (closed \/ Malformed(head'[1][4], head'[1][2], head'[2][2])
                                    \/ (MoreOf(head') = 0 /\ OutOfPlace(head'[1][2])))
            \/ /\ Len(head') = needed /\ needed > 2
               /\ pc' = "payload" /\ BeginPayload(head'[1][2], head'[3][2])
               /\ closed' = (closed \/ OutOfPlace(head'[1][2]))
               /\ UNCHANGED <<needed, frame>>
<1> DEFINE todo == IF needed - Len(head) < Len(chunk) THEN needed - Len(head) ELSE Len(chunk)
           read == head \o SubSeq(chunk, 1, todo)
           left == SubSeq(chunk, todo + 1, Len(chunk))
<1>1. /\ head \in Seq(Bytes) /\ chunk \in Seq(Bytes) /\ wire \in Seq(Bytes) /\ needed \in {2, 4, 10}
      /\ Len(head) \in Nat /\ Len(chunk) \in Nat /\ Len(chunk) # 0 /\ closed \in BOOLEAN
  <2>1. head \in Seq(Bytes) /\ chunk \in Seq(Bytes) /\ wire \in Seq(Bytes) /\ needed \in {2, 4, 10} /\ closed \in BOOLEAN
    BY DEF RecvTypes
  <2> QED BY <2>1, LenProperties, EmptySeq
<1>2. todo \in 0..Len(chunk) /\ todo # 0 /\ todo <= needed - Len(head)
      /\ (todo < needed - Len(head) => todo = Len(chunk))
  BY <1>1
<1> HIDE DEF todo
<1>3. /\ read \in Seq(Bytes) /\ Len(read) = Len(head) + todo
      /\ left \in Seq(Bytes) /\ Len(left) = Len(chunk) - todo
      /\ read \o (left \o wire) = head \o (chunk \o wire)
  <2>1. ReadFrom(head, chunk, wire, todo)
    BY <1>1, <1>2, ReadOn
  <2> QED BY <2>1, Zenon DEF ReadFrom
<1>4. /\ head' = read /\ chunk' = left
      /\ UNCHANGED <<httpVars, serverVars, fragOp, taken, got, onClose>>
  BY Zenon DEF HeaderBytes, todo
<1>5. \/ /\ Len(read) < needed
         /\ pc' = "idle"
         /\ Quiet /\ UNCHANGED <<needed, frame, current, fragments>>
      \/ /\ Len(read) = needed /\ needed = 2
         /\ frame' = [op |-> read[1][2], fin |-> read[1][3]]
         /\ needed' = 2 + MoreOf(read)
         /\ pc' = IF MoreOf(read) = 0 THEN "payload" ELSE IF left = <<>> THEN "idle" ELSE "header"
         /\ IF MoreOf(read) = 0 THEN BeginPayload(read[1][2], read[2][2]) ELSE UNCHANGED <<current, fragments>>
         /\ IF Malformed(read[1][4], read[1][2], read[2][2]) \/ (MoreOf(read) = 0 /\ OutOfPlace(read[1][2]))
            THEN Close(ProtocolError) ELSE Quiet
      \/ /\ Len(read) = needed /\ needed > 2
         /\ pc' = "payload" /\ BeginPayload(read[1][2], read[3][2])
         /\ IF OutOfPlace(read[1][2]) THEN Close(ProtocolError) ELSE Quiet
         /\ UNCHANGED <<needed, frame>>
  <2> DEFINE n == IF needed = 2 THEN read[2][2] ELSE read[3][2]
  <2>1. \/ /\ Len(read) < needed
           /\ pc' = "idle"
           /\ Quiet /\ UNCHANGED <<needed, frame, current, fragments>>
        \/ /\ Len(read) = needed /\ needed = 2
           /\ frame' = [op |-> read[1][2], fin |-> read[1][3]]
           /\ needed' = 2 + MoreOf(read)
           /\ pc' = IF MoreOf(read) = 0 THEN "payload" ELSE IF left = <<>> THEN "idle" ELSE "header"
           /\ IF MoreOf(read) = 0 THEN BeginPayload(read[1][2], n) ELSE UNCHANGED <<current, fragments>>
           /\ IF Malformed(read[1][4], read[1][2], read[2][2]) \/ (MoreOf(read) = 0 /\ OutOfPlace(read[1][2]))
              THEN Close(ProtocolError) ELSE Quiet
        \/ /\ Len(read) = needed /\ needed > 2
           /\ pc' = "payload" /\ BeginPayload(read[1][2], n)
           /\ IF OutOfPlace(read[1][2]) THEN Close(ProtocolError) ELSE Quiet
           /\ UNCHANGED <<needed, frame>>
    BY Zenon DEF HeaderBytes, todo, MoreOf
  <2>2. /\ needed = 2 => n = read[2][2]
        /\ needed > 2 => n = read[3][2]
    <3> HIDE DEF read, left
    <3>1. needed > 2 => needed # 2
      BY <1>1
    <3>2. (needed = 2 => n = read[2][2]) /\ (needed # 2 => n = read[3][2])
      BY Zenon
    <3> QED BY <3>1, <3>2
  <2> HIDE DEF n, read, left
  <2> QED BY <2>1, <2>2, Zenon
<1> HIDE DEF read, left
<1>6. Len(head') < needed => chunk' = <<>>
  <2>1. Len(head') < needed => Len(left) = 0
    BY <1>1, <1>2, <1>3, <1>4
  <2> QED BY <1>3, <1>4, <2>1, EmptySeq
<1>7. Len(head') > Len(head) /\ Len(head') <= needed
  BY <1>1, <1>2, <1>3, <1>4
<1>8. /\ Close(ProtocolError) => closed' = TRUE
      /\ Quiet => closed' = closed
  BY DEF Close, Quiet
<1>9. CASE Len(read) < needed /\ pc' = "idle" /\ Quiet /\ UNCHANGED <<needed, frame, current, fragments>>
  BY <1>3, <1>4, <1>6, <1>7, <1>8, <1>9
<1>10. CASE /\ Len(read) = needed /\ needed = 2
            /\ frame' = [op |-> read[1][2], fin |-> read[1][3]]
            /\ needed' = 2 + MoreOf(read)
            /\ pc' = IF MoreOf(read) = 0 THEN "payload" ELSE IF left = <<>> THEN "idle" ELSE "header"
            /\ IF MoreOf(read) = 0 THEN BeginPayload(read[1][2], read[2][2]) ELSE UNCHANGED <<current, fragments>>
            /\ IF Malformed(read[1][4], read[1][2], read[2][2]) \/ (MoreOf(read) = 0 /\ OutOfPlace(read[1][2]))
               THEN Close(ProtocolError) ELSE Quiet
  <2>1. closed' = (closed \/ Malformed(head'[1][4], head'[1][2], head'[2][2])
                          \/ (MoreOf(head') = 0 /\ OutOfPlace(head'[1][2])))
    BY <1>1, <1>4, <1>8, <1>10, Zenon
  <2> QED BY <1>3, <1>4, <1>6, <1>7, <1>10, <2>1, Zenon
<1>11. CASE /\ Len(read) = needed /\ needed > 2
            /\ pc' = "payload" /\ BeginPayload(read[1][2], read[3][2])
            /\ IF OutOfPlace(read[1][2]) THEN Close(ProtocolError) ELSE Quiet
            /\ UNCHANGED <<needed, frame>>
  <2>1. closed' = (closed \/ OutOfPlace(head'[1][2]))
    BY <1>1, <1>4, <1>8, <1>11, Zenon
  <2> QED BY <1>3, <1>4, <1>6, <1>7, <1>11, <2>1, Zenon
<1> QED BY <1>5, <1>9, <1>10, <1>11, Zenon

\* The header of f has been read.
LEMMA PayloadPlace ==
  ASSUME NEW s \in States, NEW f \in ServerFrames, NEW t \in States, Step(s, f, t), Leads(t)', Agree(s),
         BufferInv, current \in Buffers, fragments \in Buffers, current.data = <<>>, current.total = 0,
         BeginPayload(f.op, Len(f.data)), frame' = [op |-> f.op, fin |-> f.fin],
         needed' = 2 + f.ext, Len(head') = needed', pc' = "payload", chunk' \o wire' = f.data \o t.rest,
         ~closed' => /\ ~closed /\ ~f.bad /\ (f.op \in Control => f.ext = 0)
                     /\ ~OutOfPlace(f.op) /\ fragments.data = s.assembling.data
  PROVE  /\ InPayload(s, f, t, 0)' /\ BufferInv'
         /\ current' \in Buffers /\ fragments' \in Buffers
<1>1. f.data \in Seq(Octets) /\ Len(f.data) \in Nat /\ f.op \in Ops
  BY FrameIs
<1>2. /\ current' \in Buffers /\ fragments' \in Buffers /\ BufferInv'
      /\ current'.total - Len(current'.data) = Len(f.data)
      /\ current'.data = IF f.op = "cont" THEN fragments.data ELSE <<>>
      /\ fragments'.data = IF f.op = "cont" THEN <<>> ELSE fragments.data
  BY <1>1, PayloadBegins
<1>3. SubSeq(f.data, 0 + 1, Len(f.data)) = f.data /\ SubSeq(f.data, 1, 0) = <<>>
  <2>1. SubSeq(f.data, 1, Len(f.data)) = f.data /\ SubSeq(f.data, 1, 0) = <<>>
    BY <1>1, SubSeqFull, SubSeqEmpty
  <2> QED BY <2>1
<1>4. chunk' \o wire' = SubSeq(f.data, 0 + 1, Len(f.data)) \o t.rest
  BY <1>3
<1>5. ASSUME ~closed'
      PROVE  /\ ~f.bad /\ (f.op \in Control => f.ext = 0)
             /\ (f.op \in Data => s.assembling.op = None) /\ (f.op = "cont" => s.assembling.op # None)
             /\ current'.data = (IF f.op = "cont" THEN s.assembling.data ELSE <<>>) \o SubSeq(f.data, 1, 0)
             /\ fragments'.data = IF f.op = "cont" THEN <<>> ELSE s.assembling.data
  <2>1. /\ ~f.bad /\ (f.op \in Control => f.ext = 0)
        /\ ~OutOfPlace(f.op) /\ fragments.data = s.assembling.data
        /\ fragOp = s.assembling.op
    BY <1>5 DEF Agree
  <2>2. (f.op \in Data => s.assembling.op = None) /\ (f.op = "cont" => s.assembling.op # None)
    BY <2>1 DEF OutOfPlace
  <2>3. current'.data \o <<>> = current'.data
    BY <1>2, ConcatEmptySeq DEF Buffers
  <2> QED BY <1>2, <1>3, <2>1, <2>2, <2>3
<1>6. 0 \in 0..Len(f.data) /\ Len(f.data) - 0 = Len(f.data) /\ pc' # "idle"
  BY <1>1
<1>7. InPayload(s, f, t, 0)'
  BY <1>2, <1>4, <1>5, <1>6 DEF InPayload
<1> QED BY <1>2, <1>7

\* What the header h says of f.
Says(f, h) ==
  /\ h[1][2] = f.op /\ h[1][3] = f.fin /\ h[1][4] = f.bad /\ MoreOf(h) = f.ext
  /\ f.ext # 0 => h[2][2] \in {126, 127}
  /\ f.ext = 0 => h[2][2] = Len(f.data)
  /\ Len(h) >= 3 /\ f.ext # 0 => h[3][2] = Len(f.data)

\* What is read first of a frame says of it what Says says.
LEMMA FrameSays ==
  ASSUME NEW f \in ServerFrames, NEW rest \in Seq(Bytes), NEW h \in Seq(Bytes), NEW l \in Seq(Bytes),
         h \o l = ServerBytes(f) \o rest, Len(h) >= 2
  PROVE  Says(f, h)
<1>1. h[1] = <<"op", f.op, f.fin, f.bad>>
      /\ h[2] = <<"len", IF f.ext = 0 THEN Len(f.data) ELSE IF f.ext = 2 THEN 126 ELSE 127>>
  <2>1. h[1] = HeaderOf(f)[1] /\ h[2] = HeaderOf(f)[2]
    BY HeaderRead, Zenon
  <2>2. /\ HeaderOf(f)[1] = <<"op", f.op, f.fin, f.bad>>
        /\ HeaderOf(f)[2] = <<"len", IF f.ext = 0 THEN Len(f.data) ELSE IF f.ext = 2 THEN 126 ELSE 127>>
    BY HeaderIs
  <2> QED BY <2>1, <2>2, Zenon
<1>2. Len(h) >= 3 /\ f.ext # 0 => h[3] = <<"ext", Len(f.data)>>
  <2>1. Len(h) >= 3 /\ f.ext # 0 => h[3] = HeaderOf(f)[3]
    BY HeaderRead, Zenon
  <2> QED BY <2>1, HeaderIs, Zenon
<1>3. f.ext \in {0, 2, 8} /\ Len(f.data) \in Nat /\ (f.ext = 0 => Len(f.data) < 126)
  BY FrameIs
<1>4. h[2][2] = IF f.ext = 0 THEN Len(f.data) ELSE IF f.ext = 2 THEN 126 ELSE 127
  BY <1>1
<1>5. MoreOf(h) = f.ext /\ (f.ext # 0 => h[2][2] \in {126, 127})
  <2> DEFINE n == h[2][2]
             m == CASE n = 126 -> 2 [] n = 127 -> 8 [] OTHER -> 0
  <2>1. MoreOf(h) = m
    BY Zenon DEF MoreOf
  <2>2. n = IF f.ext = 0 THEN Len(f.data) ELSE IF f.ext = 2 THEN 126 ELSE 127
    BY <1>4, Zenon
  <2>3. n \in Nat
    BY <1>3, <2>2
  <2> DEFINE k == Len(f.data)
             e == f.ext
  <2> HIDE DEF n, k, e
  <2>4. m = e /\ (e # 0 => n \in {126, 127})
    <3>1. /\ e \in {0, 2, 8} /\ k \in Nat /\ (e = 0 => k < 126)
          /\ n = IF e = 0 THEN k ELSE IF e = 2 THEN 126 ELSE 127
      BY <1>3, <2>2, Zenon DEF e, k
    <3>2. CASE e = 0
      BY <3>1, <3>2
    <3>3. CASE e = 2
      BY <3>1, <3>3
    <3>4. CASE e = 8
      BY <3>1, <3>4
    <3> QED BY <3>1, <3>2, <3>3, <3>4
  <2> QED BY <2>1, <2>4, Zenon DEF n, e
<1>6. h[1][2] = f.op /\ h[1][3] = f.fin /\ h[1][4] = f.bad
  BY <1>1
<1>7. Len(h) >= 3 /\ f.ext # 0 => h[3][2] = Len(f.data)
  BY <1>2
<1>8. f.ext = 0 => h[2][2] = Len(f.data)
  BY <1>4, Zenon
<1> QED BY <1>5, <1>6, <1>7, <1>8, Zenon DEF Says

\* A turn of the loop over the header keeps the parser's place.
LEMMA RecvHeaderBytes ==
  ASSUME RecvInv, HeaderBytes
  PROVE  RecvInv'
<1>1. stage = "open" /\ pc = "header" /\ chunk # <<>> /\ RecvTypes /\ BufferInv
  BY DEF HeaderBytes, RecvInv, Fresh
<1>2. PICK s \in States : Agree(s) /\ Parses(s)
  BY <1>1 DEF RecvInv
<1>3. /\ wire \in Seq(Bytes) /\ chunk \in Seq(Bytes) /\ head \in Seq(Bytes) /\ needed \in {2, 4, 10}
      /\ current \in Buffers /\ fragments \in Buffers /\ closed \in BOOLEAN /\ Now \in States
      /\ frame \in [op : Ops \cup {None}, fin : BOOLEAN]
      /\ Len(head) \in Nat /\ Len(chunk) \in Nat /\ Len(chunk) # 0
  BY <1>1, LenProperties, EmptySeq DEF RecvTypes
<1>4. Between(s) \/ \E f \in ServerFrames, t \in States : InLength(s, f, t)
  BY <1>1, <1>2 DEF Parses
<1>5. Len(head) < needed
  BY <1>4 DEF Between, InLength
<1>6. /\ head' \in Seq(Bytes) /\ chunk' \in Seq(Bytes)
      /\ Len(head') > Len(head) /\ Len(head') <= needed
      /\ Len(head') < needed => chunk' = <<>>
      /\ head' \o (chunk' \o wire) = head \o (chunk \o wire)
      /\ UNCHANGED <<httpVars, serverVars, fragOp, taken, got, onClose>>
  BY <1>1, <1>5, HeaderTurn
<1>7. \/ /\ Len(head') < needed
         /\ pc' = "idle" /\ closed' = closed
         /\ UNCHANGED <<needed, frame, current, fragments>>
      \/ /\ Len(head') = needed /\ needed = 2
         /\ frame' = [op |-> head'[1][2], fin |-> head'[1][3]]
         /\ needed' = 2 + MoreOf(head')
         /\ pc' = IF MoreOf(head') = 0 THEN "payload" ELSE IF chunk' = <<>> THEN "idle" ELSE "header"
         /\ IF MoreOf(head') = 0 THEN BeginPayload(head'[1][2], head'[2][2]) ELSE UNCHANGED <<current, fragments>>
         /\ closed' = (closed \/ Malformed(head'[1][4], head'[1][2], head'[2][2])
                              \/ (MoreOf(head') = 0 /\ OutOfPlace(head'[1][2])))
      \/ /\ Len(head') = needed /\ needed > 2
         /\ pc' = "payload" /\ BeginPayload(head'[1][2], head'[3][2])
         /\ closed' = (closed \/ OutOfPlace(head'[1][2]))
         /\ UNCHANGED <<needed, frame>>
  BY <1>1, <1>5, HeaderTurn, Zenon
<1>8. closed' \in BOOLEAN /\ (closed => closed')
  BY <1>3, <1>7
<1> USE DEF httpVars, serverVars
<1>9. UNCHANGED <<stage, accepted, wire, assembling, expected, broken, closing, fragOp, got, onClose>>
  BY <1>6
<1>10. Agree(s)'
  BY <1>2, <1>8, <1>9, AgreeStays
<1>11. \A u \in States : Leads(u) => Leads(u)'
  BY <1>9, LeadsStays
<1>12. chunk' \o wire \in Seq(Bytes) /\ Len(head') \in Nat
  BY <1>3, <1>6, ConcatProperties, LenProperties
\* What is left to show for each place that is reached.
<1>13. ASSUME needed' \in {2, 4, 10}, frame' \in [op : Ops \cup {None}, fin : BOOLEAN],
              current' \in Buffers, fragments' \in Buffers, BufferInv', Parses(s)',
              pc' \in {"idle", "header", "payload"}, pc' = "idle" => chunk' = <<>>, pc' = "header" => chunk' # <<>>
       PROVE  RecvInv'
  <2>1. Now' = Now
    BY <1>9 DEF Now
  <2>2. RecvTypes'
    BY <1>1, <1>3, <1>6, <1>8, <1>9, <1>13, <2>1 DEF RecvTypes
  <2> QED BY <1>1, <1>9, <1>10, <1>13, <2>2 DEF RecvInv
<1>14. CASE Between(s)
  <2>1. /\ Leads(s) /\ needed = 2 /\ head \o (chunk \o wire) = s.rest
        /\ current.data = <<>> /\ current.total = 0
        /\ ~closed => fragments.data = s.assembling.data
    BY <1>14 DEF Between
  <2>2. s.rest # <<>>
    <3>1. Len(head \o (chunk \o wire)) # 0
      <4>1. Len(chunk \o wire) = Len(chunk) + Len(wire) /\ Len(wire) \in Nat /\ chunk \o wire \in Seq(Bytes)
        BY <1>3, ConcatProperties, LenProperties
      <4>2. Len(head \o (chunk \o wire)) = Len(head) + Len(chunk \o wire)
        BY <1>3, <4>1, ConcatProperties
      <4> QED BY <1>3, <4>1, <4>2
    <3> QED BY <2>1, <3>1, EmptySeq
  <2>3. s # Now
    <3>1. Now.rest = <<>>
      BY DEF Now
    <3> QED BY <2>2, <3>1
  <2>4. PICK f \in ServerFrames, t \in States : Step(s, f, t) /\ Leads(t)
    BY <2>1, <2>3, NextFrame
  <2>5. head' \o (chunk' \o wire) = ServerBytes(f) \o t.rest /\ t.rest \in Seq(Bytes)
    BY <1>6, <2>1, <2>4, StateIs DEF Step
  <2>6. f.op \in Ops /\ f.fin \in BOOLEAN /\ f.bad \in BOOLEAN /\ f.ext \in {0, 2, 8} /\ Len(f.data) \in Nat
    BY FrameIs
  <2>7. CASE Len(head') < 2
    <3>1. pc' = "idle" /\ closed' = closed /\ UNCHANGED <<needed, frame, current, fragments>>
      BY <1>3, <1>7, <1>12, <2>1, <2>7
    <3>2. Between(s)'
      BY <1>6, <1>9, <1>11, <2>1, <2>7, <3>1 DEF Between
    <3>3. BufferInv'
      BY <1>1, <3>1 DEF BufferInv, Fits
    <3>4. Parses(s)'
      BY <3>1, <3>2 DEF Parses
    <3> QED BY <1>3, <1>6, <1>13, <2>1, <2>7, <3>1, <3>3, <3>4
  <2>8. CASE ~(Len(head') < 2)
    <3>1. Len(head') = 2 /\ Len(head') = needed
      <4> DEFINE k == Len(head')
      <4>1. k \in Nat /\ k <= needed /\ ~(k < 2) /\ needed = 2
        BY <1>6, <1>12, <2>1, <2>8, Zenon
      <4> HIDE DEF k
      <4>2. k = 2 /\ k = needed
        BY <4>1
      <4> QED BY <4>2 DEF k
    <3>2. /\ head'[1][2] = f.op /\ head'[1][3] = f.fin /\ head'[1][4] = f.bad /\ MoreOf(head') = f.ext
          /\ f.ext # 0 => head'[2][2] \in {126, 127}
          /\ f.ext = 0 => head'[2][2] = Len(f.data)
      <4>1. head' \in Seq(Bytes) /\ Len(head') >= 2
        BY <1>6, <3>1
      <4>2. chunk' \o wire \in Seq(Bytes) /\ t.rest \in Seq(Bytes)
        BY <1>12, <2>5
      <4>3. head' \o (chunk' \o wire) = ServerBytes(f) \o t.rest
        BY <2>5
      <4>4. Says(f, head')
        BY <4>1, <4>2, <4>3, FrameSays, Zenon
      <4> QED BY <4>4, Zenon DEF Says
    <3>3. /\ frame' = [op |-> f.op, fin |-> f.fin]
          /\ needed' = 2 + f.ext
          /\ pc' = IF f.ext = 0 THEN "payload" ELSE IF chunk' = <<>> THEN "idle" ELSE "header"
          /\ IF f.ext = 0 THEN BeginPayload(f.op, Len(f.data)) ELSE UNCHANGED <<current, fragments>>
          /\ closed' = (closed \/ Malformed(f.bad, f.op, head'[2][2]) \/ (f.ext = 0 /\ OutOfPlace(f.op)))
      <4>1. ~(needed > 2) /\ ~(Len(head') < needed)
        BY <2>1, <3>1
      <4>2. /\ frame' = [op |-> head'[1][2], fin |-> head'[1][3]]
            /\ needed' = 2 + MoreOf(head')
            /\ pc' = IF MoreOf(head') = 0 THEN "payload" ELSE IF chunk' = <<>> THEN "idle" ELSE "header"
            /\ IF MoreOf(head') = 0 THEN BeginPayload(head'[1][2], head'[2][2]) ELSE UNCHANGED <<current, fragments>>
            /\ closed' = (closed \/ Malformed(head'[1][4], head'[1][2], head'[2][2])
                                 \/ (MoreOf(head') = 0 /\ OutOfPlace(head'[1][2])))
        BY <1>7, <4>1, Zenon
      <4> QED BY <3>2, <4>2, Zenon
    <3>4. /\ frame' \in [op : Ops \cup {None}, fin : BOOLEAN] /\ needed' \in {2, 4, 10}
          /\ pc' \in {"idle", "header", "payload"} /\ (pc' = "idle" => chunk' = <<>>) /\ (pc' = "header" => chunk' # <<>>)
      BY <2>6, <3>3
    <3>5. ~closed' => /\ ~closed /\ ~f.bad /\ (f.op \in Control => f.ext = 0)
                      /\ (f.ext = 0 => ~OutOfPlace(f.op))
      BY <3>2, <3>3 DEF Malformed
    <3>6. CASE f.ext = 0
      <4>1. chunk' \o wire = f.data \o t.rest
        <5>1. head' \in Seq(Bytes) /\ Len(head') = 2 + f.ext
          BY <1>6, <3>1, <3>6
        <5> QED BY <1>12, <2>5, <5>1, HeaderRead, Zenon
      <4>2. Leads(t)'
        BY <1>11, <2>4
      <4>3. Len(head') = needed' /\ pc' = "payload" /\ chunk' \o wire' = f.data \o t.rest /\ BeginPayload(f.op, Len(f.data))
        BY <1>9, <3>1, <3>3, <3>6, <4>1
      <4>4. ~closed' => /\ ~closed /\ ~f.bad /\ (f.op \in Control => f.ext = 0)
                        /\ ~OutOfPlace(f.op) /\ fragments.data = s.assembling.data
        BY <2>1, <3>5, <3>6
      <4>5. InPayload(s, f, t, 0)' /\ BufferInv' /\ current' \in Buffers /\ fragments' \in Buffers
        BY <1>1, <1>2, <1>3, <2>1, <2>4, <3>3, <4>2, <4>3, <4>4, PayloadPlace
      <4>6. Parses(s)'
        BY <4>3, <4>5 DEF Parses
      <4> QED BY <1>13, <3>4, <4>5, <4>6
    <3>7. CASE f.ext # 0
      <4>1. InLength(s, f, t)'
        <5>1. Leads(t)'
          BY <1>11, <2>4
        <5>2. /\ needed' = 2 + f.ext /\ 2 <= Len(head') /\ Len(head') < needed'
              /\ UNCHANGED <<current, fragments>>
          BY <2>6, <3>1, <3>3, <3>7
        <5>3. head' \o (chunk' \o wire') = s.rest
          BY <1>6, <1>9, <2>1
        <5>4. ~closed' => ~f.bad /\ f.op \notin Control /\ fragments.data = s.assembling.data
          BY <2>1, <3>5, <3>7
        <5> QED BY <2>1, <2>4, <3>3, <3>7, <5>1, <5>2, <5>3, <5>4 DEF InLength
      <4>2. BufferInv' /\ current' \in Buffers /\ fragments' \in Buffers
        BY <1>1, <1>3, <3>3, <3>7 DEF BufferInv, Fits
      <4>3. Parses(s)'
        BY <3>3, <3>7, <4>1 DEF Parses
      <4> QED BY <1>13, <3>4, <4>2, <4>3
    <3> QED BY <3>6, <3>7
  <2> QED BY <2>7, <2>8
<1>15. ASSUME NEW f \in ServerFrames, NEW t \in States, InLength(s, f, t)
       PROVE  RecvInv'
  <2>1. /\ Leads(t) /\ Step(s, f, t) /\ f.ext # 0
        /\ needed = 2 + f.ext /\ 2 <= Len(head) /\ Len(head) < needed
        /\ head \o (chunk \o wire) = s.rest
        /\ frame = [op |-> f.op, fin |-> f.fin]
        /\ current.data = <<>> /\ current.total = 0
        /\ ~closed => ~f.bad /\ f.op \notin Control /\ fragments.data = s.assembling.data
    BY <1>15 DEF InLength
  <2>2. Leads(t)'
    BY <1>11, <2>1
  <2>3. head' \o (chunk' \o wire) = ServerBytes(f) \o t.rest /\ t.rest \in Seq(Bytes)
    BY <1>6, <2>1, StateIs DEF Step
  <2>4. f.op \in Ops /\ f.fin \in BOOLEAN /\ f.bad \in BOOLEAN /\ f.ext \in {2, 8} /\ Len(f.data) \in Nat
    BY <2>1, FrameIs
  <2>5. CASE Len(head') < needed
    <3>1. pc' = "idle" /\ closed' = closed /\ UNCHANGED <<needed, frame, current, fragments>>
      BY <1>3, <1>7, <1>12, <2>5
    <3>2. 2 <= Len(head')
      BY <1>3, <1>6, <1>12, <2>1
    <3>3. InLength(s, f, t)'
      BY <1>6, <1>9, <2>1, <2>2, <2>5, <3>1, <3>2 DEF InLength
    <3>4. BufferInv'
      BY <1>1, <3>1 DEF BufferInv, Fits
    <3>5. Parses(s)'
      BY <3>1, <3>3 DEF Parses
    <3> QED BY <1>3, <1>6, <1>13, <2>5, <3>1, <3>4, <3>5
  <2>6. CASE ~(Len(head') < needed)
    <3>1. Len(head') = needed /\ Len(head') >= 3 /\ needed > 2 /\ needed # 2
      BY <1>3, <1>6, <1>12, <2>1, <2>4, <2>6
    <3>2. head'[1][2] = f.op /\ head'[3][2] = Len(f.data)
      <4>1. head' \in Seq(Bytes) /\ Len(head') >= 2
        BY <1>6, <3>1
      <4>2. chunk' \o wire \in Seq(Bytes) /\ t.rest \in Seq(Bytes)
        BY <1>12, <2>3
      <4>3. head' \o (chunk' \o wire) = ServerBytes(f) \o t.rest
        BY <2>3
      <4>4. Says(f, head')
        BY <4>1, <4>2, <4>3, FrameSays, Zenon
      <4> QED BY <2>1, <3>1, <4>4, Zenon DEF Says
    <3>3. /\ pc' = "payload" /\ BeginPayload(f.op, Len(f.data))
          /\ closed' = (closed \/ OutOfPlace(f.op))
          /\ UNCHANGED <<needed, frame>>
      BY <1>7, <2>6, <3>1, <3>2, Zenon
    <3>4. chunk' \o wire' = f.data \o t.rest
      <4>1. head' \in Seq(Bytes) /\ Len(head') = 2 + f.ext /\ wire' = wire
        BY <1>6, <1>9, <2>1, <3>1
      <4>2. chunk' \o wire = f.data \o t.rest
        BY <1>12, <2>3, <4>1, HeaderRead, Zenon
      <4> QED BY <4>1, <4>2, Zenon
    <3>5. ~closed' => /\ ~closed /\ ~f.bad /\ (f.op \in Control => f.ext = 0)
                      /\ ~OutOfPlace(f.op) /\ fragments.data = s.assembling.data
      BY <2>1, <3>3
    <3>6. InPayload(s, f, t, 0)' /\ BufferInv' /\ current' \in Buffers /\ fragments' \in Buffers
      <4>1. frame' = [op |-> f.op, fin |-> f.fin] /\ needed' = 2 + f.ext /\ Len(head') = needed'
        BY <2>1, <3>1, <3>3
      <4> QED BY <1>1, <1>2, <1>3, <2>1, <2>2, <3>3, <3>4, <3>5, <4>1, PayloadPlace
    <3>7. Parses(s)'
      BY <3>3, <3>6 DEF Parses
    <3> QED BY <1>3, <1>13, <3>3, <3>6, <3>7
  <2> QED BY <2>5, <2>6
<1> QED BY <1>4, <1>14, <1>15

-----------------------------------------------------------------------------
(* The payload of a frame *)

\* What a complete frame is to its receiver.
Emptied(buf) == [buf EXCEPT !.data = <<>>, !.total = 0]

\* The buffer that is used again is empty, and fits.
LEMMA EmptiedIs ==
  ASSUME NEW buf \in Buffers, Fits(buf)
  PROVE  /\ Emptied(buf) \in Buffers /\ Fits(Emptied(buf))
         /\ Emptied(buf).data = <<>> /\ Emptied(buf).total = 0
<1>1. buf.total \in Nat /\ buf.room \in Nat /\ <<>> \in Seq(Octets) /\ Len(<<>>) = 0
  BY EmptySeq DEF Buffers
<1>2. PICK b : b = [buf EXCEPT !.data = <<>>]
  OBVIOUS
<1>3. b \in Buffers /\ b.room = buf.room /\ b.data = <<>> /\ b.total = buf.total
  BY <1>1, <1>2 DEF Buffers
<1>4. Emptied(buf) = [b EXCEPT !.total = 0]
  BY <1>2, Zenon DEF Emptied
<1>5. /\ Emptied(buf) \in Buffers /\ Emptied(buf).room = buf.room
      /\ Emptied(buf).data = <<>> /\ Emptied(buf).total = 0
  BY <1>1, <1>3, <1>4 DEF Buffers
<1> QED BY <1>1, <1>5 DEF Fits

\* A frame that is dispatched: where the server was before and after it, what is in the buffer.
Complete(s, f, t, buf) ==
  /\ Step(s, f, t) /\ Agree(s) /\ frame = [op |-> f.op, fin |-> f.fin]
  /\ buf \in Buffers /\ Fits(buf) /\ Len(buf.data) = buf.total
  /\ ~closed =>
       /\ ~f.bad /\ (f.op \in Control => f.ext = 0)
       /\ (f.op \in Data => s.assembling.op = None) /\ (f.op = "cont" => s.assembling.op # None)
       /\ buf.data = (IF f.op = "cont" THEN s.assembling.data ELSE <<>>) \o f.data
       /\ fragments.data = IF f.op = "cont" THEN <<>> ELSE s.assembling.data

\* What the dispatch of a frame has to establish.
Dispatched(t) ==
  /\ Agree(t)' /\ BufferInv' /\ current' \in Buffers /\ fragments' \in Buffers
  /\ current'.data = <<>> /\ current'.total = 0
  /\ ~closed' => fragments'.data = t.assembling.data
  /\ frame' \in [op : Ops \cup {None}, fin : BOOLEAN] /\ fragOp' \in Data \cup {None}
  /\ got' \in Seq(Messages) /\ onClose' \in Seq(Nat) /\ closed' \in BOOLEAN

\* The message of the server is only ever empty or that of a data frame.
LEMMA AssembledStays ==
  ASSUME NEW s \in States, NEW f \in ServerFrames, NEW t \in States, Step(s, f, t),
         s.assembling.op = None => s.assembling.data = <<>>
  PROVE  t.assembling.op = None => t.assembling.data = <<>>
<1>1. CASE t.broken \/ f.op \in Control
  <2>1. t.assembling = s.assembling
    BY <1>1 DEF Step
  <2> QED BY <2>1
<1>2. CASE ~(t.broken \/ f.op \in Control)
  <2>1. t.assembling = AssembledAt(s.assembling, f) /\ LegalAt(s.assembling, f)
    <3>1. t.broken = (s.broken \/ ~LegalAt(s.assembling, f))
      BY DEF Step
    <3>2. ~t.broken
      BY <1>2
    <3>3. s.broken \in BOOLEAN
      BY StateIs
    <3> QED BY <1>2, <3>1, <3>2, <3>3 DEF Step
  <2>2. f.op \in Data \cup {"cont"}
    BY <1>2, FrameIs DEF Ops
  <2>3. CASE f.fin
    BY <2>1, <2>3 DEF AssembledAt
  <2>4. CASE ~f.fin
    <3>1. t.assembling.op = IF f.op = "cont" THEN s.assembling.op ELSE f.op
      BY <2>1, <2>4 DEF AssembledAt
    <3>2. t.assembling.op # None
      BY <2>1, <2>2, <3>1 DEF LegalAt, Data, None
    <3> QED BY <3>2
  <2> QED BY <2>3, <2>4
<1> QED BY <1>1, <1>2

\* What is got stays a prefix of what is expected.
LEMMA ExpectedGrows ==
  ASSUME NEW s \in States, NEW f \in ServerFrames, NEW t \in States, Step(s, f, t),
         got \in Seq(Messages), IsPrefix(got, s.expected)
  PROVE  IsPrefix(got, t.expected)
<1>1. t.expected = s.expected \o IF t.broken THEN <<>> ELSE MeaningAt(s.assembling, f)
  BY DEF Step
<1>2. (IF t.broken THEN <<>> ELSE MeaningAt(s.assembling, f)) \in Seq(Messages)
  <2>1. t.broken = (s.broken \/ ~LegalAt(s.assembling, f))
    BY DEF Step
  <2>2. ~t.broken => LegalAt(s.assembling, f)
    BY <2>1, StateIs
  <2> QED BY <2>2, MeaningIs, StateIs, EmptySeq
<1>3. PICK x \in Seq(Messages) : t.expected = s.expected \o x
  BY <1>1, <1>2
<1> QED BY <1>3, StateIs, PrefixGrows

\* Nothing is delivered, and we have closed.
LEMMA ClosedAgree ==
  ASSUME NEW s \in States, NEW f \in ServerFrames, NEW t \in States, Step(s, f, t), Agree(s),
         got \in Seq(Messages), closed', got' = got,
         IF f.op = "close" /\ ~t.broken THEN Len(onClose') = 1 ELSE f.op # "close" => onClose' = onClose
  PROVE  Agree(t)'
<1>1. IsPrefix(got', t.expected)
  BY ExpectedGrows DEF Agree
<1>2. t.assembling.op = None => t.assembling.data = <<>>
  BY AssembledStays DEF Agree
<1>3. ~s.closing /\ t.closing = (f.op = "close") /\ onClose = <<>>
  BY DEF Step, Agree
<1> QED BY <1>1, <1>2, <1>3 DEF Agree

\* A message is delivered, whole.
LEMMA DeliveredAgree ==
  ASSUME NEW s \in States, NEW f \in ServerFrames, NEW t \in States, Step(s, f, t), Agree(s),
         got \in Seq(Messages), ~closed, closed' = closed, f.op # "close", LegalAt(s.assembling, f),
         got' = got \o MeaningAt(s.assembling, f), onClose' = onClose,
         fragOp' = IF f.op \in Control THEN s.assembling.op ELSE AssembledAt(s.assembling, f).op
  PROVE  /\ Agree(t)' /\ got' \in Seq(Messages) /\ fragOp' \in Data \cup {None}
         /\ t.assembling = IF f.op \in Control THEN s.assembling ELSE AssembledAt(s.assembling, f)
<1>1. ~t.broken /\ ~t.closing /\ ~s.closing /\ onClose = <<>> /\ got = s.expected
  <2>1. t.broken = (s.broken \/ ~LegalAt(s.assembling, f)) /\ t.closing = (f.op = "close") /\ ~s.closing
    BY DEF Step
  <2>2. ~s.broken /\ got = s.expected
    BY DEF Agree
  <2>3. onClose = <<>>
    BY <2>1 DEF Agree
  <2> QED BY <2>1, <2>2, <2>3
<1>2. /\ t.expected = s.expected \o MeaningAt(s.assembling, f)
      /\ t.assembling = IF f.op \in Control THEN s.assembling ELSE AssembledAt(s.assembling, f)
  BY <1>1 DEF Step
<1>3. t.expected \in Seq(Messages) /\ t.assembling.op \in Data \cup {None}
  BY StateIs
<1>4. got' = t.expected /\ fragOp' = t.assembling.op
  BY <1>1, <1>2
<1>5. IsPrefix(got', t.expected)
  BY <1>3, <1>4, PrefixSame
<1>6. t.assembling.op = None => t.assembling.data = <<>>
  BY AssembledStays DEF Agree
<1>7. Agree(t)'
  BY <1>1, <1>4, <1>5, <1>6 DEF Agree
<1> QED BY <1>2, <1>3, <1>4, <1>7

\* The types of what the dispatch changes or keeps.
LEMMA DispatchTypes ==
  ASSUME RecvTypes
  PROVE  /\ got \in Seq(Messages) /\ onClose \in Seq(Nat) /\ closed \in BOOLEAN /\ fragOp \in Data \cup {None}
         /\ frame \in [op : Ops \cup {None}, fin : BOOLEAN] /\ fragments \in Buffers
BY DEF RecvTypes

\* The frame and the state of the server as the dispatch sees them.
LEMMA FrameSeen ==
  ASSUME NEW s, NEW f \in ServerFrames, NEW t, NEW buf, Complete(s, f, t, buf)
  PROVE  frame.op = f.op /\ frame.fin = f.fin /\ f.op \in Ops /\ f.fin \in BOOLEAN /\ f.data \in Seq(Octets)
<1>1. frame = [op |-> f.op, fin |-> f.fin]
  BY DEF Complete
<1> QED BY <1>1, FrameIs

\* An open receiver refuses what is not legal.
LEMMA TakenIsLegal ==
  ASSUME NEW s, NEW f \in ServerFrames, NEW t, NEW buf, Complete(s, f, t, buf),
         ~closed, ~Invalid, f.op \notin {"close", "reserved"}
  PROVE  LegalAt(s.assembling, f)
<1>1. frame.op = f.op /\ frame.fin = f.fin
  BY FrameSeen
<1>2. /\ ~f.bad /\ (f.op \in Control => f.ext = 0)
      /\ (f.op \in Data => s.assembling.op = None) /\ (f.op = "cont" => s.assembling.op # None)
  BY DEF Complete
<1>3. f.op \in Control => f.fin
  BY <1>1 DEF Invalid
<1> QED BY <1>2, <1>3 DEF LegalAt

\* A data frame is delivered, or kept as a fragment, as the server meant it.
LEMMA DispatchData_Right ==
  ASSUME NEW s \in States, NEW f \in ServerFrames, NEW t \in States, NEW buf, RecvTypes, BufferInv,
         Complete(s, f, t, buf), ~Ignored, ~Invalid, DispatchData(buf)
  PROVE  Dispatched(t)
<1> DEFINE m == s.assembling
<1>1. /\ got \in Seq(Messages) /\ onClose \in Seq(Nat) /\ closed \in BOOLEAN
      /\ frame \in [op : Ops \cup {None}, fin : BOOLEAN] /\ fragments \in Buffers
  BY DispatchTypes
<1>2. frame.op = f.op /\ frame.fin = f.fin /\ f.data \in Seq(Octets) /\ f.op \in Data \cup {"cont"}
  BY FrameSeen DEF DispatchData
<1>3. f.op \notin Control /\ f.op \notin {"close", "reserved"} /\ f.op \notin {"ping", "pong"}
      /\ (f.op = "cont" => f.op \notin Data)
  BY <1>2 DEF Data, Control
<1>4. ~closed
  BY <1>2, <1>3 DEF Ignored
<1>5. LegalAt(m, f)
  BY <1>3, <1>4, TakenIsLegal
<1>6. closed' = closed /\ onClose' = onClose
  BY DEF DispatchData, Quiet
<1>7. Step(s, f, t) /\ Agree(s) /\ buf \in Buffers /\ Fits(buf) /\ Len(buf.data) = buf.total
  BY DEF Complete
<1>8. /\ (f.op \in Data => m.op = None) /\ (f.op = "cont" => m.op # None) /\ fragOp = m.op
      /\ (m.op = None => m.data = <<>>)
  BY <1>4, <1>5, <1>7 DEF LegalAt, Agree
<1>9. /\ buf.data = (IF f.op = "cont" THEN m.data ELSE <<>>) \o f.data
      /\ fragments.data = IF f.op = "cont" THEN <<>> ELSE m.data
  BY <1>4 DEF Complete
<1>10. buf.data = IF f.op = "cont" THEN m.data \o f.data ELSE f.data
  <2>1. <<>> \o f.data = f.data
    BY <1>2, ConcatEmptySeq
  <2> QED BY <1>9, <2>1
<1>11. m.data \o f.data = buf.data
  <2>1. CASE f.op = "cont"
    BY <1>10, <2>1
  <2>2. CASE f.op # "cont"
    <3>1. m.data = <<>>
      BY <1>2, <1>8, <2>2
    <3> QED BY <1>2, <1>9, <2>2, <3>1
  <2> QED BY <2>1, <2>2
<1>12. CASE f.fin
  <2>1. /\ got' = Append(got, [op |-> IF f.op = "cont" THEN fragOp ELSE f.op, data |-> buf.data])
        /\ current' = Emptied(buf)
        /\ fragOp' = IF f.op = "cont" THEN None ELSE fragOp
        /\ UNCHANGED <<frame, fragments>>
    BY <1>2, <1>12, Zenon DEF DispatchData, Emptied
  <2>2. AssembledAt(m, f) = [op |-> None, data |-> <<>>]
    BY <1>12 DEF AssembledAt
  <2>3. fragOp' = AssembledAt(m, f).op
    BY <1>2, <1>8, <2>1, <2>2
  <2>4. MeaningAt(m, f) = <<[op |-> IF f.op = "cont" THEN m.op ELSE f.op, data |-> buf.data]>>
    <3>1. CASE f.op = "cont"
      BY <1>3, <1>10, <1>12, <3>1 DEF MeaningAt
    <3>2. CASE f.op # "cont"
      BY <1>2, <1>10, <1>12, <3>2 DEF MeaningAt
    <3> QED BY <3>1, <3>2
  <2>5. got' = got \o MeaningAt(m, f)
    <3> DEFINE e == [op |-> IF f.op = "cont" THEN m.op ELSE f.op, data |-> buf.data]
    <3>1. got' = Append(got, e) /\ MeaningAt(m, f) = <<e>>
      BY <1>8, <2>1, <2>4
    <3>2. e \in Messages
      <4>1. buf.data \in Seq(Octets)
        BY <1>7 DEF Buffers
      <4>2. (IF f.op = "cont" THEN m.op ELSE f.op) \in Ops
        BY <1>2, <1>8, StateIs DEF Ops
      <4> QED BY <4>1, <4>2 DEF Messages
    <3> HIDE DEF e
    <3>3. Append(got, e) = got \o <<e>>
      BY <1>1, <3>2, AppendIsConcat
    <3> QED BY <3>1, <3>3
  <2>6. /\ Agree(t)' /\ got' \in Seq(Messages) /\ fragOp' \in Data \cup {None}
        /\ t.assembling = AssembledAt(m, f)
    BY <1>1, <1>3, <1>4, <1>5, <1>6, <1>7, <2>3, <2>5, DeliveredAgree
  <2>7. current' \in Buffers /\ Fits(current') /\ current'.data = <<>> /\ current'.total = 0
    BY <1>7, <2>1, EmptiedIs
  <2>8. fragments'.data = t.assembling.data
    <3>1. m.op = None => m.data = <<>>
      BY <1>8
    <3> QED BY <1>2, <1>8, <1>9, <2>1, <2>2, <2>6
  <2>9. BufferInv'
    BY <2>1, <2>7 DEF BufferInv, Fits
  <2> QED BY <1>1, <1>6, <2>1, <2>6, <2>7, <2>8, <2>9 DEF Dispatched
<1>13. CASE ~f.fin
  <2>1. /\ fragments' = buf /\ current' = NoBuffer
        /\ fragOp' = IF f.op = "cont" THEN fragOp ELSE f.op
        /\ frame' \in {frame, [op |-> None, fin |-> FALSE]}
        /\ got' = got
    BY <1>2, <1>13 DEF DispatchData
  <2>2. AssembledAt(m, f) = [op |-> IF f.op = "cont" THEN m.op ELSE f.op, data |-> buf.data]
    BY <1>11, <1>13 DEF AssembledAt
  <2>3. fragOp' = AssembledAt(m, f).op
    BY <1>8, <2>1, <2>2
  <2>4. MeaningAt(m, f) = <<>>
    BY <1>3, <1>13 DEF MeaningAt
  <2>5. got' = got \o MeaningAt(m, f)
    BY <1>1, <2>1, <2>4, ConcatEmptySeq
  <2>6. /\ Agree(t)' /\ got' \in Seq(Messages) /\ fragOp' \in Data \cup {None}
        /\ t.assembling = AssembledAt(m, f)
    BY <1>1, <1>3, <1>4, <1>5, <1>6, <1>7, <2>3, <2>5, DeliveredAgree
  <2>7. fragments'.data = t.assembling.data
    BY <2>1, <2>2, <2>6
  <2>8. BufferInv' /\ current' \in Buffers /\ fragments' \in Buffers /\ current'.data = <<>> /\ current'.total = 0
    BY <1>7, <2>1, NoBufferIs DEF BufferInv, Fits
  <2>9. frame' \in [op : Ops \cup {None}, fin : BOOLEAN]
    <3>1. [op |-> None, fin |-> FALSE] \in [op : Ops \cup {None}, fin : BOOLEAN]
      OBVIOUS
    <3>2. frame' = frame \/ frame' = [op |-> None, fin |-> FALSE]
      BY <2>1
    <3> QED BY <1>1, <3>1, <3>2, Zenon
  <2> QED BY <1>1, <1>6, <2>6, <2>7, <2>8, <2>9 DEF Dispatched
<1> QED BY <1>2, <1>12, <1>13

\* A control frame is delivered and answered as the server meant it.
LEMMA DispatchControl_Right ==
  ASSUME NEW s \in States, NEW f \in ServerFrames, NEW t \in States, NEW buf, RecvTypes, BufferInv,
         Complete(s, f, t, buf), ~Ignored, ~Invalid, DispatchControl(buf)
  PROVE  Dispatched(t)
<1> DEFINE m == s.assembling
<1>1. /\ got \in Seq(Messages) /\ onClose \in Seq(Nat) /\ closed \in BOOLEAN /\ fragOp \in Data \cup {None}
      /\ frame \in [op : Ops \cup {None}, fin : BOOLEAN] /\ fragments \in Buffers
  BY DispatchTypes
<1>2. frame.op = f.op /\ frame.fin = f.fin /\ f.data \in Seq(Octets) /\ f.op \in Control /\ f.op \in Ops
  BY FrameSeen DEF DispatchControl
<1>3. f.op \notin Data /\ f.op # "cont"
  BY <1>2 DEF Data, Control
<1>4. Step(s, f, t) /\ Agree(s) /\ buf \in Buffers /\ Fits(buf)
  BY DEF Complete
<1>5. /\ current' = Emptied(buf) /\ UNCHANGED <<frame, fragments, fragOp>>
      /\ \/ f.op = "close" /\ DispatchClose(buf.data)
         \/ /\ f.op \in {"ping", "pong"} /\ got' = Append(got, [op |-> f.op, data |-> buf.data])
            /\ closed' = closed /\ onClose' = onClose
         \/ f.op = "reserved" /\ closed' /\ got' = got /\ onClose' = onClose
  <2>1. /\ current' = Emptied(buf) /\ UNCHANGED <<frame, fragments, fragOp>>
        /\ \/ f.op = "close" /\ DispatchClose(buf.data)
           \/ /\ f.op = "ping"
              /\ got' = Append(got, [op |-> "ping", data |-> buf.data])
              /\ Send("pong", buf.data) /\ UNCHANGED <<closed, onClose>>
           \/ /\ f.op = "pong"
              /\ got' = Append(got, [op |-> "pong", data |-> buf.data])
              /\ Quiet /\ UNCHANGED onClose
           \/ f.op = "reserved" /\ Close(ProtocolError) /\ UNCHANGED <<got, onClose>>
    BY <1>2, Zenon DEF DispatchControl, Emptied
  <2>2. (Quiet => closed' = closed) /\ (Close(ProtocolError) => closed')
    BY DEF Quiet, Close
  <2> QED BY <2>1, <2>2
\* Whatever it is, it leaves the message of the server and its fragments alone.
<1>6. t.assembling = m
  BY <1>2, <1>4 DEF Step
<1>7. /\ current' \in Buffers /\ Fits(current') /\ current'.data = <<>> /\ current'.total = 0
      /\ BufferInv' /\ fragments' \in Buffers
      /\ frame' \in [op : Ops \cup {None}, fin : BOOLEAN] /\ fragOp' \in Data \cup {None}
  <2>1. current' \in Buffers /\ Fits(current') /\ current'.data = <<>> /\ current'.total = 0
    BY <1>4, <1>5, EmptiedIs
  <2>2. BufferInv'
    BY <1>5, <2>1 DEF BufferInv, Fits
  <2> QED BY <1>1, <1>5, <2>1, <2>2
<1>8. ~closed => /\ buf.data = f.data /\ fragments'.data = t.assembling.data
  <2> SUFFICES ASSUME ~closed PROVE buf.data = f.data /\ fragments'.data = t.assembling.data
    OBVIOUS
  <2>1. buf.data = <<>> \o f.data /\ fragments.data = m.data
    BY <1>3 DEF Complete
  <2>2. <<>> \o f.data = f.data
    BY <1>2, ConcatEmptySeq
  <2> QED BY <1>5, <1>6, <2>1, <2>2
<1>9. CASE f.op = "close" /\ DispatchClose(buf.data)
  <2>1. PICK reason \in Nat : onClose' = Append(onClose, reason) /\ closed' /\ got' = got
    <3> DEFINE reason == IF Len(buf.data) < 2 THEN 1005 ELSE IF ValidReason(buf.data[1]) THEN buf.data[1] ELSE 1002
    <3>1. onClose' = Append(onClose, reason) /\ closed' /\ got' = got
      BY <1>9, Zenon DEF DispatchClose, Close
    <3>2. reason \in Nat
      <4> DEFINE x == buf.data[1]
                 k == Len(buf.data)
      <4> HIDE DEF x, k
      <4>1. reason = IF k < 2 THEN 1005 ELSE IF ValidReason(x) THEN x ELSE 1002
        BY Zenon DEF x, k
      <4>2. ValidReason(x) => x \in Nat
        BY DEF ValidReason
      <4> HIDE DEF reason
      <4> QED BY <4>1, <4>2
    <3> HIDE DEF reason
    <3> QED BY <3>1, <3>2
  <2>2. onClose = <<>>
    BY <1>4 DEF Step, Agree
  <2>3. onClose' \in Seq(Nat) /\ Len(onClose') = 1
    BY <2>1, <2>2
  <2>4. Agree(t)'
    BY <1>1, <1>4, <1>9, <2>1, <2>3, ClosedAgree
  <2> QED BY <1>1, <1>7, <2>1, <2>3, <2>4 DEF Dispatched
<1>10. CASE /\ f.op \in {"ping", "pong"} /\ got' = Append(got, [op |-> f.op, data |-> buf.data])
            /\ closed' = closed /\ onClose' = onClose
  <2>1. ~closed
    BY <1>2, <1>10 DEF Ignored
  <2>2. LegalAt(m, f)
    BY <1>10, <2>1, TakenIsLegal
  <2>3. MeaningAt(m, f) = <<[op |-> f.op, data |-> buf.data]>>
    <3>1. MeaningAt(m, f) = <<[op |-> f.op, data |-> f.data]>>
      BY <1>3, <1>10 DEF MeaningAt
    <3> QED BY <1>8, <2>1, <3>1
  <2>4. got' = got \o MeaningAt(m, f)
    <3> DEFINE e == [op |-> f.op, data |-> buf.data]
    <3>1. e \in Messages
      BY <1>2, <1>4 DEF Messages, Buffers
    <3>2. got' = Append(got, e) /\ MeaningAt(m, f) = <<e>>
      BY <1>10, <2>3
    <3> HIDE DEF e
    <3>3. Append(got, e) = got \o <<e>>
      BY <1>1, <3>1, AppendIsConcat
    <3> QED BY <3>2, <3>3
  <2>5. fragOp' = IF f.op \in Control THEN m.op ELSE AssembledAt(m, f).op
    BY <1>2, <1>4, <1>5, <2>1 DEF Agree
  <2>6. Agree(t)' /\ got' \in Seq(Messages)
    BY <1>1, <1>4, <1>10, <2>1, <2>2, <2>4, <2>5, DeliveredAgree
  <2> QED BY <1>1, <1>7, <1>8, <1>10, <2>1, <2>6 DEF Dispatched
<1>11. CASE f.op = "reserved" /\ closed' /\ got' = got /\ onClose' = onClose
  <2>1. Agree(t)'
    BY <1>1, <1>4, <1>11, ClosedAgree
  <2>2. closed' \in BOOLEAN
    <3>1. closed' = TRUE
      BY <1>2, <1>11 DEF DispatchControl, Close
    <3> QED BY <3>1
  <2> QED BY <1>1, <1>7, <1>11, <2>1, <2>2 DEF Dispatched
<1> QED BY <1>5, <1>9, <1>10, <1>11

\* _cws_dispatch takes the user from what the server meant before a frame to what it means after it.
LEMMA DispatchRight ==
  ASSUME NEW s \in States, NEW f \in ServerFrames, NEW t \in States, NEW buf, RecvTypes, BufferInv,
         Complete(s, f, t, buf), Dispatch(buf)
  PROVE  Dispatched(t)
<1>1. CASE ~Ignored /\ ~Invalid /\ (DispatchData(buf) \/ DispatchControl(buf))
  BY <1>1, DispatchData_Right, DispatchControl_Right
<1>2. CASE /\ Ignored \/ Invalid
           /\ IF Ignored THEN Quiet ELSE Close(ProtocolError)
           /\ current' = [buf EXCEPT !.data = <<>>, !.total = 0]
           /\ UNCHANGED <<frame, fragments, fragOp, got, onClose>>
  <2>1. /\ got \in Seq(Messages) /\ onClose \in Seq(Nat) /\ closed \in BOOLEAN /\ fragOp \in Data \cup {None}
        /\ frame \in [op : Ops \cup {None}, fin : BOOLEAN] /\ fragments \in Buffers
    BY DispatchTypes
  <2>2. frame.op = f.op /\ frame.fin = f.fin /\ f.fin \in BOOLEAN
    BY FrameSeen
  <2>3. Step(s, f, t) /\ Agree(s) /\ buf \in Buffers /\ Fits(buf)
    BY DEF Complete
  <2>4. closed' = TRUE
    <3>1. CASE Ignored
      BY <1>2, <2>1, <3>1 DEF Ignored, Quiet
    <3>2. CASE ~Ignored
      BY <1>2, <3>2 DEF Close
    <3> QED BY <3>1, <3>2
  <2>5. current' \in Buffers /\ Fits(current') /\ current'.data = <<>> /\ current'.total = 0
    <3>1. current' = Emptied(buf)
      BY <1>2, Zenon DEF Emptied
    <3> QED BY <2>3, <3>1, EmptiedIs
  <2>6. BufferInv'
    BY <1>2, <2>5 DEF BufferInv, Fits
  <2>7. f.op = "close" => t.broken
    <3> SUFFICES ASSUME f.op = "close" PROVE t.broken
      OBVIOUS
    <3>1. ~f.fin
      BY <1>2, <2>2 DEF Ignored, Invalid
    <3>2. ~LegalAt(s.assembling, f)
      BY <3>1 DEF LegalAt, Control
    <3> QED BY <2>3, <3>2 DEF Step
  <2>8. Agree(t)'
    BY <1>2, <2>1, <2>3, <2>4, <2>7, ClosedAgree
  <2> QED BY <1>2, <2>1, <2>4, <2>5, <2>6, <2>8 DEF Dispatched
<1> QED BY <1>1, <1>2 DEF Dispatch

\* A turn of Payload in the frame f that leads from s to t: e of its bytes are in b afterwards.
Filled(s, f, t, e, b) ==
  /\ Agree(s) /\ Step(s, f, t) /\ Leads(t)
  /\ needed = 2 + f.ext /\ Len(head) = needed /\ frame = [op |-> f.op, fin |-> f.fin]
  /\ e \in 0..Len(f.data) /\ Fits(b) /\ b.total - Len(b.data) = Len(f.data) - e
  /\ chunk' \in Seq(Bytes) /\ chunk' \o wire = SubSeq(f.data, e + 1, Len(f.data)) \o t.rest
  /\ ~closed =>
       /\ ~f.bad /\ (f.op \in Control => f.ext = 0)
       /\ (f.op \in Data => s.assembling.op = None) /\ (f.op = "cont" => s.assembling.op # None)
       /\ b.data = (IF f.op = "cont" THEN s.assembling.data ELSE <<>>) \o SubSeq(f.data, 1, e)
       /\ fragments.data = IF f.op = "cont" THEN <<>> ELSE s.assembling.data
  /\ \/ /\ e < Len(f.data) /\ chunk' = <<>>
        /\ current' = b /\ pc' = "idle"
        /\ Quiet /\ UNCHANGED <<frame, fragments, fragOp, head, needed, got, onClose>>
     \/ /\ e = Len(f.data)
        /\ Dispatch(b)
        /\ head' = <<>> /\ needed' = 2
        /\ pc' = IF chunk' = <<>> THEN "idle" ELSE "header"

\* Every turn of Payload is in the payload of some frame of the server.
LEMMA PayloadTurn ==
  ASSUME RecvInv, Payload
  PROVE  \E s \in States, f \in ServerFrames, t \in States, e \in Nat, b \in Buffers : Filled(s, f, t, e, b)
<1> DEFINE missing == current.total - Len(current.data)
           todo == IF missing < Len(chunk) THEN missing ELSE Len(chunk)
           buf == [current EXCEPT !.data = current.data \o SubSeq(chunk, 1, todo)]
<1>1. stage = "open" /\ pc = "payload" /\ RecvTypes /\ BufferInv
  BY DEF Payload, RecvInv, Fresh
<1>2. PICK s \in States : Agree(s) /\ Parses(s)
  BY <1>1 DEF RecvInv
<1>3. PICK f \in ServerFrames, t \in States, d \in Nat : InPayload(s, f, t, d)
  BY <1>1, <1>2 DEF Parses
<1>4. /\ chunk' = SubSeq(chunk, todo + 1, Len(chunk))
      /\ \/ /\ todo < missing
            /\ current' = buf /\ pc' = "idle"
            /\ Quiet /\ UNCHANGED <<frame, fragments, fragOp, head, needed, got, onClose>>
         \/ /\ todo = missing
            /\ Dispatch(buf)
            /\ head' = <<>> /\ needed' = 2
            /\ pc' = IF chunk' = <<>> THEN "idle" ELSE "header"
      /\ UNCHANGED <<httpVars, serverVars, taken>>
  BY Zenon DEF Payload
<1>5. /\ Leads(t) /\ Step(s, f, t)
      /\ needed = 2 + f.ext /\ Len(head) = needed
      /\ frame = [op |-> f.op, fin |-> f.fin]
      /\ d \in 0..Len(f.data) /\ missing = Len(f.data) - d
      /\ chunk \o wire = SubSeq(f.data, d + 1, Len(f.data)) \o t.rest
      /\ ~closed =>
           /\ ~f.bad /\ (f.op \in Control => f.ext = 0)
           /\ (f.op \in Data => s.assembling.op = None) /\ (f.op = "cont" => s.assembling.op # None)
           /\ current.data = (IF f.op = "cont" THEN s.assembling.data ELSE <<>>) \o SubSeq(f.data, 1, d)
           /\ fragments.data = IF f.op = "cont" THEN <<>> ELSE s.assembling.data
  BY <1>3 DEF InPayload
<1>6. /\ wire \in Seq(Bytes) /\ chunk \in Seq(Bytes) /\ current \in Buffers /\ Len(chunk) \in Nat
      /\ current.data \in Seq(Octets) /\ current.total \in Nat /\ Len(current.data) \in Nat /\ current.room \in Nat
      /\ Fits(current) /\ closed \in BOOLEAN
  <2>1. wire \in Seq(Bytes) /\ chunk \in Seq(Bytes) /\ current \in Buffers /\ Fits(current) /\ closed \in BOOLEAN
    BY <1>1 DEF RecvTypes, BufferInv
  <2> QED BY <2>1, LenProperties DEF Buffers
<1>7. f.data \in Seq(Octets) /\ f.data \in Seq(Bytes) /\ Len(f.data) \in Nat /\ f.ext \in {0, 2, 8} /\ t.rest \in Seq(Bytes)
  BY FrameIs, StateIs
<1>8. /\ todo \in 0..Len(chunk) /\ todo \in Nat /\ d + todo <= Len(f.data) /\ todo <= missing /\ d + todo \in Nat
      /\ todo < missing => todo = Len(chunk) /\ d + todo < Len(f.data)
      /\ todo = missing => d + todo = Len(f.data)
  <2> DEFINE l == Len(f.data)
             c == Len(chunk)
             m == missing
  <2> HIDE DEF l, c, m
  <2>1. l \in Nat /\ c \in Nat /\ d \in 0..l /\ m = l - d /\ todo = IF m < c THEN m ELSE c
    BY <1>5, <1>6, <1>7, Zenon DEF l, c, m
  <2> HIDE DEF todo
  <2>2. /\ todo \in 0..c /\ todo \in Nat /\ d + todo <= l /\ todo <= m /\ d + todo \in Nat
        /\ todo < m => todo = c /\ d + todo < l
        /\ todo = m => d + todo = l
    BY <2>1
  <2> QED BY <2>2, Zenon DEF l, c, m
<1> HIDE DEF todo
<1>9. /\ SubSeq(chunk, 1, todo) = SubSeq(f.data, d + 1, d + todo)
      /\ SubSeq(f.data, 1, d) \o SubSeq(chunk, 1, todo) = SubSeq(f.data, 1, d + todo)
      /\ SubSeq(chunk, todo + 1, Len(chunk)) \o wire = SubSeq(f.data, d + todo + 1, Len(f.data)) \o t.rest
  <2>1. /\ f.data \in Seq(Bytes) /\ t.rest \in Seq(Bytes) /\ chunk \in Seq(Bytes) /\ wire \in Seq(Bytes)
        /\ d \in 0..Len(f.data) /\ todo \in 0..Len(chunk) /\ d + todo <= Len(f.data)
    BY <1>5, <1>6, <1>7, <1>8, Zenon
  <2>2. chunk \o wire = SubSeq(f.data, d + 1, Len(f.data)) \o t.rest
    BY <1>5, Zenon
  <2>3. Consumed(f.data, t.rest, chunk, wire, d, todo)
    BY <2>1, <2>2, PayloadRead, Zenon
  <2> QED BY <2>3, Zenon DEF Consumed
<1>10. /\ SubSeq(chunk, 1, todo) \in Seq(Octets) /\ Len(SubSeq(chunk, 1, todo)) = todo
       /\ SubSeq(f.data, 1, d) \in Seq(Octets)
  <2>1. Len(SubSeq(chunk, 1, todo)) = todo
    BY <1>6, <1>8, TwoParts
  <2>2. \A i \in d + 1..d + todo : f.data[i] \in Octets
    <3>1. \A i \in d + 1..d + todo : i \in 1..Len(f.data)
      BY <1>7, <1>8
    <3> QED BY <1>7, <3>1, ElementOfSeq
  <2>3. SubSeq(f.data, d + 1, d + todo) \in Seq(Octets)
    <3>1. d + 1 \in Int /\ d + todo \in Int
      BY <1>8
    <3> QED BY <2>2, <3>1, SubSeqProperties
  <2>4. SubSeq(f.data, 1, d) \in Seq(Octets)
    BY <1>5, <1>7, TwoParts
  <2> QED BY <1>9, <2>1, <2>3, <2>4
<1>11. PICK b : b = buf
  OBVIOUS
<1>12. /\ b \in Buffers /\ b.room = current.room /\ b.total = current.total
       /\ b.data = current.data \o SubSeq(chunk, 1, todo)
       /\ Len(b.data) = Len(current.data) + todo
  <2> DEFINE x == current.data \o SubSeq(chunk, 1, todo)
  <2>1. x \in Seq(Octets) /\ Len(x) = Len(current.data) + todo
    BY <1>6, <1>10, ConcatProperties
  <2> HIDE DEF x
  <2>2. b = [current EXCEPT !.data = x]
    BY <1>11, Zenon DEF x
  <2>3. b \in Buffers /\ b.room = current.room /\ b.total = current.total /\ b.data = x
    BY <1>6, <2>1, <2>2 DEF Buffers
  <2> QED BY <2>1, <2>3 DEF x
<1>13. Fits(b)
  <2>1. Len(b.data) <= b.total
    <3> DEFINE u == Len(current.data)
               v == current.total
               k == Len(b.data)
    <3> HIDE DEF u, v, k
    <3>1. u \in Nat /\ v \in Nat /\ todo \in Nat /\ todo <= v - u /\ k = u + todo
      BY <1>6, <1>8, <1>12, Zenon DEF u, v, k
    <3>2. k <= v
      BY <3>1
    <3> QED BY <1>12, <3>2 DEF k, v
  <2> QED BY <1>6, <1>12, <2>1 DEF Fits
<1>14. ~closed => b.data = (IF f.op = "cont" THEN s.assembling.data ELSE <<>>) \o SubSeq(f.data, 1, d + todo)
  <2> SUFFICES ASSUME ~closed
               PROVE  b.data = (IF f.op = "cont" THEN s.assembling.data ELSE <<>>) \o SubSeq(f.data, 1, d + todo)
    OBVIOUS
  <2> DEFINE x == IF f.op = "cont" THEN s.assembling.data ELSE <<>>
             y == SubSeq(f.data, 1, d)
             z == SubSeq(chunk, 1, todo)
  <2>1. x \in Seq(Octets) /\ y \in Seq(Octets) /\ z \in Seq(Octets)
    BY <1>10, StateIs, EmptySeq
  <2>2. b.data = (x \o y) \o z
    BY <1>5, <1>12
  <2>3. SubSeq(f.data, 1, d + todo) = y \o z
    BY <1>9
  <2> HIDE DEF x, y, z
  <2>4. (x \o y) \o z = x \o (y \o z)
    BY <2>1, ConcatAssociative
  <2>5. b.data = x \o SubSeq(f.data, 1, d + todo)
    BY <2>2, <2>3, <2>4, Zenon
  <2> QED BY <2>5 DEF x
<1>15. PICK e \in Nat : e = d + todo
  BY <1>8
<1>16. chunk' \in Seq(Bytes) /\ chunk' \o wire = SubSeq(f.data, e + 1, Len(f.data)) \o t.rest
  <2>1. chunk' = SubSeq(chunk, todo + 1, Len(chunk))
    BY <1>4
  <2>2. chunk' \in Seq(Bytes)
    BY <1>6, <1>8, <2>1, TwoParts
  <2> QED BY <1>9, <1>15, <2>1, <2>2
<1>17. /\ e \in 0..Len(f.data) /\ b.total - Len(b.data) = Len(f.data) - e
       /\ todo < missing => e < Len(f.data)
       /\ todo = missing => e = Len(f.data)
  <2> DEFINE u == Len(current.data)
             v == current.total
             l == Len(f.data)
             k == Len(b.data)
             m == missing
  <2>1. m = v - u
    OBVIOUS
  <2> HIDE DEF u, v, l, k, m
  <2>2. /\ u \in Nat /\ v \in Nat /\ l \in Nat /\ d \in Nat /\ todo \in Nat /\ e = d + todo /\ d + todo <= l
        /\ m = l - d /\ k = u + todo
        /\ todo < m => d + todo < l
        /\ todo = m => d + todo = l
    BY <1>5, <1>6, <1>7, <1>8, <1>12, <1>15, Zenon DEF u, v, l, k, m
  <2>3. e \in 0..l /\ v - k = l - e /\ (todo < m => e < l) /\ (todo = m => e = l)
    BY <2>1, <2>2
  <2>4. b.total = v
    BY <1>12 DEF v
  <2> QED BY <2>3, <2>4, Zenon DEF l, k, m
<1>18. ~closed =>
         /\ ~f.bad /\ (f.op \in Control => f.ext = 0)
         /\ (f.op \in Data => s.assembling.op = None) /\ (f.op = "cont" => s.assembling.op # None)
         /\ b.data = (IF f.op = "cont" THEN s.assembling.data ELSE <<>>) \o SubSeq(f.data, 1, e)
         /\ fragments.data = IF f.op = "cont" THEN <<>> ELSE s.assembling.data
  BY <1>5, <1>14, <1>15
<1>19. \/ /\ e < Len(f.data) /\ chunk' = <<>>
          /\ current' = b /\ pc' = "idle"
          /\ Quiet /\ UNCHANGED <<frame, fragments, fragOp, head, needed, got, onClose>>
       \/ /\ e = Len(f.data)
          /\ Dispatch(b)
          /\ head' = <<>> /\ needed' = 2
          /\ pc' = IF chunk' = <<>> THEN "idle" ELSE "header"
  <2>1. todo < missing => chunk' = <<>>
    <3> SUFFICES ASSUME todo < missing PROVE chunk' = <<>>
      OBVIOUS
    <3>1. Len(SubSeq(chunk, todo + 1, Len(chunk))) = Len(chunk) - todo /\ todo = Len(chunk)
      BY <1>6, <1>8, TwoParts
    <3>2. Len(chunk') = 0
      BY <1>4, <1>6, <3>1
    <3> QED BY <1>16, <3>2, EmptySeq
  <2> QED BY <1>4, <1>11, <1>17, <2>1, Zenon
<1> QED BY <1>2, <1>5, <1>7, <1>12, <1>13, <1>15, <1>16, <1>17, <1>18, <1>19, Zenon DEF Filled

\* A turn of Payload keeps the parser's place, or brings it behind the frame.
LEMMA RecvPayload ==
  ASSUME RecvInv, Payload
  PROVE  RecvInv'
<1>1. stage = "open" /\ pc = "payload" /\ RecvTypes /\ BufferInv
  BY DEF Payload, RecvInv, Fresh
<1>2. PICK s \in States, f \in ServerFrames, t \in States, e \in Nat, b \in Buffers : Filled(s, f, t, e, b)
  BY PayloadTurn
<1> USE DEF httpVars, serverVars
<1>3. UNCHANGED <<stage, accepted, wire, assembling, expected, broken, closing>>
  BY DEF Payload
<1>4. chunk' \in Seq(Bytes) /\ Now' = Now /\ Now \in States
  BY <1>1, <1>2, <1>3 DEF Filled, Now, RecvTypes
<1>5. Leads(t)'
  BY <1>2, <1>3, LeadsStays DEF Filled
<1>6. f.data \in Seq(Octets) /\ Len(f.data) \in Nat /\ t.rest \in Seq(Bytes)
  BY FrameIs, StateIs
<1>7. CASE /\ e < Len(f.data) /\ chunk' = <<>>
           /\ current' = b /\ pc' = "idle"
           /\ Quiet /\ UNCHANGED <<frame, fragments, fragOp, head, needed, got, onClose>>
  <2>1. closed' = closed
    BY <1>7 DEF Quiet
  <2>2. Agree(s)'
    BY <1>2, <1>7, <2>1, AgreeStays DEF Filled
  <2>3. BufferInv'
    BY <1>1, <1>2, <1>7 DEF Filled, BufferInv, Fits
  <2>4. RecvTypes'
    BY <1>1, <1>3, <1>4, <1>7, <2>1 DEF RecvTypes
  <2>5. InPayload(s, f, t, e)'
    BY <1>2, <1>3, <1>5, <1>7, <2>1 DEF Filled, InPayload
  <2>6. Parses(s)'
    BY <1>7, <2>5 DEF Parses
  <2> QED BY <1>1, <1>3, <1>7, <2>2, <2>3, <2>4, <2>6 DEF RecvInv
<1>8. CASE /\ e = Len(f.data)
           /\ Dispatch(b)
           /\ head' = <<>> /\ needed' = 2
           /\ pc' = IF chunk' = <<>> THEN "idle" ELSE "header"
  <2>1. Len(b.data) = b.total
    <3>1. b.total \in Nat /\ Len(b.data) \in Nat
      BY LenProperties DEF Buffers
    <3>2. b.total - Len(b.data) = Len(f.data) - e
      BY <1>2 DEF Filled
    <3> QED BY <1>6, <1>8, <3>1, <3>2
  <2>2. SubSeq(f.data, 1, e) = f.data
    BY <1>6, <1>8, SubSeqFull
  <2>3. Complete(s, f, t, b)
    BY <1>2, <2>1, <2>2 DEF Filled, Complete
  <2>4. Dispatched(t)
    BY <1>1, <1>8, <2>3, DispatchRight
  <2>5. chunk' \o wire' = t.rest
    <3>1. SubSeq(f.data, e + 1, Len(f.data)) = <<>>
      BY <1>6, <1>8, SubSeqEmpty
    <3>2. <<>> \o t.rest = t.rest
      BY <1>6, ConcatEmptySeq
    <3> QED BY <1>2, <1>3, <3>1, <3>2 DEF Filled
  <2>6. head' \o (chunk' \o wire') = t.rest /\ head' \in Seq(Bytes) /\ Len(head') < 2
    <3>1. <<>> \o t.rest = t.rest /\ <<>> \in Seq(Bytes) /\ Len(<<>>) = 0
      BY <1>6, ConcatEmptySeq, EmptySeq
    <3> QED BY <1>8, <2>5, <3>1
  <2>7. Between(t)'
    BY <1>5, <1>8, <2>4, <2>6 DEF Between, Dispatched
  <2>8. Agree(t)' /\ BufferInv'
    BY <2>4 DEF Dispatched
  <2>9. RecvTypes'
    BY <1>1, <1>3, <1>4, <1>8, <2>4, <2>6 DEF RecvTypes, Dispatched
  <2> QED BY <1>1, <1>3, <1>8, <2>7, <2>8, <2>9 DEF RecvInv, Parses
<1> QED BY <1>2, <1>7, <1>8 DEF Filled

-----------------------------------------------------------------------------
(* What the server sends arrives *)

\* Every step of the connection keeps the invariant.
LEMMA RecvKept ==
  ASSUME RecvInv, [CwsNext]_cwsVars
  PROVE  RecvInv'
<1>1. closed \in BOOLEAN
  BY DEF RecvInv, RecvTypes
<1>2. CASE Headers
  BY <1>2, RecvHeaders
<1>3. ASSUME NEW f \in ServerFrames, ServerSends(f) PROVE RecvInv'
  BY <1>3, RecvServerSends
<1>4. ASSUME NEW n \in Pieces, Receive(n) PROVE RecvInv'
  BY <1>4, RecvReceive
<1>5. ASSUME NEW n \in Pieces, ReadCallback(n) PROVE RecvInv'
  <2>1. UNCHANGED <<httpVars, recvVars, serverVars, chunk, pc, got, onClose, closed>>
    BY <1>5 DEF ReadCallback
  <2> QED BY <1>1, <2>1, RecvWhileSending
<1>6. CASE HeaderBytes
  BY <1>6, RecvHeaderBytes
<1>7. CASE Payload
  BY <1>7, RecvPayload
<1>8. ASSUME NEW msg \in UserMessages, UserSend(msg) PROVE RecvInv'
  <2>1. UNCHANGED <<httpVars, recvVars, serverVars, chunk, pc, got, onClose, closed>>
    BY <1>8 DEF UserSend
  <2> QED BY <1>1, <2>1, RecvWhileSending
<1>9. CASE UserClose
  <2>1. /\ UNCHANGED <<httpVars, recvVars, serverVars, chunk, pc, got, onClose>>
        /\ stage = "open" /\ closed' = TRUE
    BY <1>9 DEF UserClose, Close
  <2> QED BY <2>1, RecvWhileSending
<1>10. CASE UNCHANGED cwsVars
  <2>1. UNCHANGED <<httpVars, recvVars, serverVars, chunk, pc, got, onClose, closed>>
    BY <1>10 DEF cwsVars, sendVars
  <2> QED BY <1>1, <2>1, RecvWhileSending
<1> QED BY <1>2, <1>3, <1>4, <1>5, <1>6, <1>7, <1>8, <1>9, <1>10 DEF CwsNext

\* When everything has been read, the parser is at the end of the server's history.
LEMMA AllIsRead ==
  ASSUME RecvInv, stage = "open", pc = "idle", wire = <<>>, NEW s \in States, Parses(s)
  PROVE  s = Now
<1>1. chunk = <<>> /\ head \in Seq(Bytes) /\ Len(head) \in Nat
  <2>1. chunk = <<>> /\ head \in Seq(Bytes)
    BY DEF RecvInv, RecvTypes
  <2> QED BY <2>1, LenProperties
<1>2. chunk \o wire = <<>> /\ head \o (chunk \o wire) = head
  <2>1. <<>> \o <<>> = <<>>
    BY EmptySeq, ConcatEmptySeq
  <2>2. head \o <<>> = head
    BY <1>1, ConcatEmptySeq
  <2> QED BY <1>1, <2>1, <2>2
<1>3. ASSUME NEW f \in ServerFrames, NEW t \in States, Step(s, f, t), head = s.rest
      PROVE  Len(head) >= 2 + f.ext
  <2> DEFINE b == ServerBytes(f)
  <2>1. f.ext \in {0, 2, 8} /\ Len(f.data) \in Nat /\ b \in Seq(Bytes) /\ Len(b) = 2 + f.ext + Len(f.data)
    BY FrameIs, HeaderIs
  <2>2. head = b \o t.rest /\ t.rest \in Seq(Bytes) /\ Len(t.rest) \in Nat
    <3>1. t.rest \in Seq(Bytes)
      BY StateIs
    <3> QED BY <1>3, <3>1, LenProperties DEF Step
  <2> HIDE DEF b
  <2>3. Len(head) = Len(b) + Len(t.rest)
    BY <2>1, <2>2, ConcatProperties
  <2> DEFINE h == Len(head)
             l == Len(b)
             r == Len(t.rest)
             m == Len(f.data)
             e == f.ext
  <2> HIDE DEF h, l, r, m, e
  <2>4. l = 2 + e + m /\ m \in Nat /\ r \in Nat /\ e \in {0, 2, 8} /\ h = l + r
    BY <2>1, <2>2, <2>3, Zenon DEF h, l, r, m, e
  <2>5. h >= 2 + e
    BY <2>4
  <2> QED BY <2>5, Zenon DEF h, e
<1>4. CASE Between(s)
  <2>1. Leads(s) /\ head = s.rest /\ Len(head) < 2
    BY <1>2, <1>4 DEF Between
  <2> SUFFICES ASSUME s # Now PROVE FALSE
    OBVIOUS
  <2>2. PICK f \in ServerFrames, t \in States : Step(s, f, t)
    BY <2>1, NextFrame
  <2>3. Len(head) >= 2 + f.ext /\ f.ext \in {0, 2, 8}
    BY <1>3, <2>1, <2>2, FrameIs
  <2> QED BY <1>1, <2>1, <2>3
<1>5. ASSUME NEW f \in ServerFrames, NEW t \in States, InLength(s, f, t) PROVE FALSE
  <2>1. Step(s, f, t) /\ head = s.rest /\ Len(head) < 2 + f.ext
    BY <1>2, <1>5 DEF InLength
  <2>2. Len(head) >= 2 + f.ext /\ f.ext \in {0, 2, 8}
    BY <1>3, <2>1, FrameIs
  <2> QED BY <1>1, <2>1, <2>2
<1>6. ASSUME NEW f \in ServerFrames, NEW t \in States, NEW d \in Nat, InPayload(s, f, t, d) PROVE FALSE
  <2> DEFINE x == SubSeq(f.data, d + 1, Len(f.data))
  <2>1. d \in 0..Len(f.data) /\ d < Len(f.data) /\ <<>> = x \o t.rest
    BY <1>2, <1>6 DEF InPayload
  <2>2. f.data \in Seq(Bytes) /\ Len(f.data) \in Nat /\ t.rest \in Seq(Bytes)
    BY FrameIs, StateIs
  <2>3. x \in Seq(Bytes) /\ Len(x) = Len(f.data) - d
    BY <2>1, <2>2, TwoParts
  <2>4. x = <<>>
    <3> HIDE DEF x
    <3> DEFINE r == t.rest
    <3>1. x \in Seq(Bytes) /\ r \in Seq(Bytes) /\ x \o r = <<>>
      BY <2>1, <2>2, <2>3, Zenon
    <3> HIDE DEF r
    <3> QED BY <3>1, ConcatEqualIffEmpty
  <2>5. Len(x) = 0
    BY <2>4, EmptySeq
  <2> QED BY <2>1, <2>2, <2>3, <2>5
<1> QED BY <1>4, <1>5, <1>6 DEF Parses

\* The invariant is what it was made for.
LEMMA RecvMeans ==
  ASSUME RecvInv
  PROVE  ReceivedAsSent
<1>1. BuffersFit
  <2>1. Fits(current) /\ Fits(fragments)
    BY DEF RecvInv, BufferInv
  <2> QED BY <2>1 DEF BuffersFit, Fits
<1>2. CASE stage # "open"
  <2>1. got = <<>> /\ expected = <<>>
    BY <1>2 DEF RecvInv, Fresh
  <2>2. IsPrefix(got, expected)
    BY <2>1, EmptySeq, PrefixSame
  <2> QED BY <1>1, <1>2, <2>2 DEF ReceivedAsSent, InOrder, NothingHeldBack, ClosesWhenMust
<1>3. CASE stage = "open"
  <2>1. PICK s \in States : Agree(s) /\ Parses(s)
    BY <1>3 DEF RecvInv
  <2>2. got \in Seq(Messages) /\ expected \in Seq(Messages) /\ IsPrefix(got, s.expected) /\ s.expected \in Seq(Messages)
    <3>1. got \in Seq(Messages) /\ Now \in States
      BY SMTT(20) DEF RecvInv, RecvTypes
    <3> QED BY <2>1, <3>1, ServerIs, StateIs DEF Agree
  <2>3. InOrder
    <3>1. CASE Between(s)
      <4>1. IsPrefix(s.expected, expected)
        BY <3>1, LeadsPrefix DEF Between
      <4> QED BY <2>2, <4>1, PrefixThrough DEF InOrder
    <3>2. ASSUME NEW f \in ServerFrames, NEW t \in States, Step(s, f, t), Leads(t)
          PROVE  InOrder
      <4>1. IsPrefix(got, t.expected)
        BY <2>2, <3>2, ExpectedGrows
      <4>2. IsPrefix(t.expected, expected) /\ t.expected \in Seq(Messages)
        BY <3>2, LeadsPrefix, StateIs
      <4> QED BY <2>2, <4>1, <4>2, PrefixThrough DEF InOrder
    <3> QED BY <2>1, <3>1, <3>2 DEF Parses, InLength, InPayload
  <2>4. ASSUME pc = "idle", wire = <<>>
        PROVE  /\ ~closed => got = expected
               /\ broken \/ closing => closed
               /\ closing /\ ~broken => Len(onClose) = 1
    <3>1. s = Now
      BY <1>3, <2>1, <2>4, AllIsRead
    <3>2. s.expected = expected /\ s.broken = broken /\ s.closing = closing
      BY <3>1 DEF Now
    <3> QED BY <2>1, <3>2 DEF Agree
  <2> QED BY <1>1, <1>3, <2>3, <2>4 DEF ReceivedAsSent, NothingHeldBack, ClosesWhenMust
<1> QED BY <1>2, <1>3

(* What the server sends arrives: the user gets the messages of the server, *)
(* whole and in order, nothing is held back, what is not legal closes the   *)
(* connection, and no payload is longer than its buffer                     *)
(* (_cws_process_frame, _cws_dispatch), whatever the server sends and       *)
(* however libcurl cuts it.                                                 *)
THEOREM WhatIsSentIsReceived == CwsSpec => []ReceivedAsSent
<1>1. CwsInit => RecvInv
  BY RecvStarts
<1>2. RecvInv /\ [CwsNext]_cwsVars => RecvInv'
  BY RecvKept
<1>3. RecvInv => ReceivedAsSent
  BY RecvMeans
<1> QED BY <1>1, <1>2, <1>3, PTL DEF CwsSpec

-----------------------------------------------------------------------------
(* The frames that are written *)

Put(m) == FrameOf(m.op, m.data)
Extended(n) == IF n > Medium THEN 8 ELSE IF n > Short THEN 2 ELSE 0
Announced(n) == IF n > Medium THEN 127 ELSE IF n > Short THEN 126 ELSE n

\* What is assumed of the bounds of the lengths.
LEMMA BoundsAre == Short \in Nat /\ Medium \in Nat /\ Short <= Medium /\ Short < 126
BY CwsAssumption

\* Its length and its bytes, from the front to the back.
PutAs(m, put, n, x) ==
  /\ put \in Seq(Bytes) /\ Len(put) = 6 + x + n
  /\ put[1] = <<"op", m.op, TRUE, FALSE>> /\ put[2] = <<"len", Announced(n)>>
  /\ x # 0 => put[3] = <<"ext", n>>
  /\ \A i \in 1..n : put[6 + x + i] = <<"data", m.data[i], (i - 1) % 4>>

\* A frame that is written is what PutAs says.
LEMMA PutIs ==
  ASSUME NEW m \in Messages
  PROVE  PutAs(m, Put(m), Len(m.data), Extended(Len(m.data)))
<1> DEFINE a == <<<<"op", m.op, TRUE, FALSE>>>>
           b == Length(Len(m.data))
           c == Extension(Len(m.data))
           d == [i \in 1..4 |-> <<"mask">>]
           g == Masked(m.data)
<1>1. PICK n : n = Len(m.data)
  OBVIOUS
<1>2. PICK x : x = Extended(n)
  OBVIOUS
<1>3. m.op \in Ops /\ m.data \in Seq(Octets) /\ n \in Nat /\ x \in {0, 2, 8} /\ Announced(n) \in Nat
  BY <1>1, <1>2, BoundsAre, LenProperties DEF Messages, Extended, Announced
<1>4. Put(m) = (((a \o b) \o c) \o d) \o g
  BY Zenon DEF Put, FrameOf
<1>5. a \in Seq(Bytes) /\ Len(a) = 1 /\ a[1] = <<"op", m.op, TRUE, FALSE>>
  <2> DEFINE o == <<"op", m.op, TRUE, FALSE>>
  <2>1. o \in Bytes
    BY <1>3, ByteIs, Zenon
  <2> HIDE DEF o
  <2>2. <<o>> \in Seq(Bytes) /\ Len(<<o>>) = 1 /\ <<o>>[1] = o
    BY <2>1
  <2> QED BY <2>2 DEF o
<1>6. b \in Seq(Bytes) /\ Len(b) = 1 /\ b[1] = <<"len", Announced(n)>>
  <2> DEFINE o == <<"len", Announced(n)>>
  <2>1. o \in Bytes
    BY <1>3, ByteIs, Zenon
  <2>2. b = <<o>>
    BY <1>1, Zenon DEF Length, Announced
  <2> HIDE DEF o, b
  <2>3. <<o>> \in Seq(Bytes) /\ Len(<<o>>) = 1 /\ <<o>>[1] = o
    BY <2>1
  <2> QED BY <2>2, <2>3 DEF o
<1>7. c \in Seq(Bytes) /\ Len(c) = x /\ \A i \in 1..x : c[i] = <<"ext", n>>
  <2> DEFINE o == <<"ext", n>>
             u == [i \in 1..x |-> o]
  <2>1. o \in Bytes /\ x \in Nat
    <3>1. x \in Nat
      BY <1>3
    <3> QED BY <1>3, <3>1, ByteIs, Zenon
  <2>2. c = u
    BY <1>1, <1>2, Zenon DEF Extension, Extended
  <2> HIDE DEF o, c
  <2>3. u \in Seq(Bytes)
    BY <2>1, IsASeq
  <2>4. Len(u) = x
    BY <2>1, <2>3, LenProperties
  <2> QED BY <2>1, <2>2, <2>3, <2>4 DEF o
<1>8. d \in Seq(Bytes) /\ Len(d) = 4
  <2> DEFINE o == <<"mask">>
             u == [i \in 1..4 |-> o]
  <2>1. o \in Bytes /\ 4 \in Nat
    BY ByteIs
  <2> HIDE DEF o
  <2>2. u \in Seq(Bytes)
    BY <2>1, IsASeq
  <2>3. Len(u) = 4
    BY <2>1, <2>2, LenProperties
  <2> QED BY <2>2, <2>3 DEF o
<1>9. g \in Seq(Bytes) /\ Len(g) = n /\ \A i \in 1..n : g[i] = <<"data", m.data[i], (i - 1) % 4>>
  <2> DEFINE o(i) == <<"data", m.data[i], (i - 1) % 4>>
             u == [i \in 1..n |-> o(i)]
  <2>1. \A i \in 1..n : o(i) \in Bytes
    <3> TAKE i \in 1..n
    <3>1. m.data[i] \in Octets /\ (i - 1) % 4 \in Nat
      BY <1>1, <1>3, ElementOfSeq
    <3> QED BY <3>1, ByteIs, Zenon
  <2>2. g = u
    BY <1>1, Zenon DEF Masked
  <2> HIDE DEF o, g
  <2>3. u \in Seq(Bytes)
    BY <1>3, <2>1, IsASeq
  <2>4. Len(u) = n
    BY <1>3, <2>3, LenProperties
  <2> QED BY <2>2, <2>3, <2>4 DEF o
<1> HIDE DEF a, b, c, d, g
<1>10. PICK ab : ab = a \o b
  OBVIOUS
<1>11. ab \in Seq(Bytes) /\ Len(ab) = 2 /\ ab[1] = a[1] /\ ab[2] = b[1]
  <2>1. /\ ab \in Seq(Bytes) /\ Len(ab) = Len(a) + Len(b)
        /\ \A i \in 1..Len(a) + Len(b) : ab[i] = IF i <= Len(a) THEN a[i] ELSE b[i - Len(a)]
    BY <1>5, <1>6, <1>10, ConcatProperties
  <2>2. \A i \in 1..2 : ab[i] = IF i <= 1 THEN a[i] ELSE b[i - 1]
    BY <1>5, <1>6, <2>1
  <2>3. ASSUME NEW i \in 1..2 PROVE (i = 1 => ab[i] = a[i]) /\ (i = 2 => ab[i] = b[1])
    <3>1. CASE i = 1
      <4>1. i <= 1 /\ i # 2
        BY <3>1
      <4> QED BY <2>2, <4>1, Zenon
    <3>2. CASE i = 2
      <4>1. ~(i <= 1) /\ i - 1 = 1 /\ i # 1
        BY <3>2
      <4>2. ab[i] = b[i - 1]
        BY <2>2, <4>1, Zenon
      <4> QED BY <4>1, <4>2, Zenon
    <3> QED BY <3>1, <3>2
  <2>4. ab[1] = a[1] /\ ab[2] = b[1]
    <3>1. 1 \in 1..2 /\ 2 \in 1..2
      OBVIOUS
    <3> QED BY <2>3, <3>1, Zenon
  <2>5. Len(ab) = 2
    BY <1>5, <1>6, <2>1
  <2> QED BY <2>1, <2>4, <2>5, Zenon
<1>12. PICK abc : abc = ab \o c
  OBVIOUS
<1>13. /\ abc \in Seq(Bytes) /\ Len(abc) = 2 + x /\ abc[1] = ab[1] /\ abc[2] = ab[2]
       /\ x # 0 => abc[3] = c[1]
  <2>1. /\ abc \in Seq(Bytes) /\ Len(abc) = Len(ab) + Len(c)
        /\ \A i \in 1..Len(ab) + Len(c) : abc[i] = IF i <= Len(ab) THEN ab[i] ELSE c[i - Len(ab)]
    BY <1>7, <1>11, <1>12, ConcatProperties
  <2>2. \A i \in 1..2 + x : abc[i] = IF i <= 2 THEN ab[i] ELSE c[i - 2]
    BY <1>7, <1>11, <2>1
  <2> QED BY <1>3, <1>7, <1>11, <2>1, <2>2
<1>14. PICK abcd : abcd = abc \o d
  OBVIOUS
<1>15. /\ abcd \in Seq(Bytes) /\ Len(abcd) = 6 + x /\ abcd[1] = abc[1] /\ abcd[2] = abc[2]
       /\ x # 0 => abcd[3] = abc[3]
  <2>1. /\ abcd \in Seq(Bytes) /\ Len(abcd) = Len(abc) + Len(d)
        /\ \A i \in 1..Len(abc) + Len(d) : abcd[i] = IF i <= Len(abc) THEN abc[i] ELSE d[i - Len(abc)]
    BY <1>8, <1>13, <1>14, ConcatProperties
  <2>2. \A i \in 1..6 + x : abcd[i] = IF i <= 2 + x THEN abc[i] ELSE d[i - (2 + x)]
    BY <1>3, <1>8, <1>13, <2>1
  <2> QED BY <1>3, <1>8, <1>13, <2>1, <2>2
<1>16. PICK put : put = abcd \o g
  OBVIOUS
<1>17. /\ put \in Seq(Bytes) /\ Len(put) = 6 + x + n /\ put[1] = abcd[1] /\ put[2] = abcd[2]
       /\ x # 0 => put[3] = abcd[3]
       /\ \A i \in 1..n : put[6 + x + i] = g[i]
  <2>1. /\ put \in Seq(Bytes) /\ Len(put) = Len(abcd) + Len(g)
        /\ \A i \in 1..Len(abcd) + Len(g) : put[i] = IF i <= Len(abcd) THEN abcd[i] ELSE g[i - Len(abcd)]
    BY <1>9, <1>15, <1>16, ConcatProperties
  <2>2. \A i \in 1..6 + x + n : put[i] = IF i <= 6 + x THEN abcd[i] ELSE g[i - (6 + x)]
    BY <1>3, <1>9, <1>15, <2>1
  <2>3. \A i \in 1..n : put[6 + x + i] = g[i]
    <3> TAKE i \in 1..n
    <3>1. PICK j : j = 6 + x + i
      OBVIOUS
    <3>2. PICK u : u = 6 + x
      OBVIOUS
    <3>3. j \in 1..6 + x + n /\ ~(j <= 6 + x) /\ j - (6 + x) = i
      BY <1>3, <3>1
    <3>4. put[j] = IF j <= u THEN abcd[j] ELSE g[j - u]
      BY <2>2, <3>2, <3>3
    <3>5. ~(j <= u) /\ j - u = i
      BY <3>2, <3>3
    <3>6. put[j] = g[i]
      BY <3>4, <3>5, Zenon
    <3> QED BY <3>1, <3>6
  <2>4. put[1] = abcd[1] /\ put[2] = abcd[2] /\ (x # 0 => put[3] = abcd[3])
    BY <1>3, <2>2
  <2>5. Len(put) = 6 + x + n
    BY <1>3, <1>9, <1>15, <2>1
  <2> QED BY <2>1, <2>3, <2>4, <2>5
<1>18. put = Put(m)
  BY <1>4, <1>10, <1>12, <1>14, <1>16
<1>19. put[1] = <<"op", m.op, TRUE, FALSE>> /\ put[2] = <<"len", Announced(n)>>
  BY <1>5, <1>6, <1>11, <1>13, <1>15, <1>17
<1>20. x # 0 => put[3] = <<"ext", n>>
  <2>1. x # 0 => 1 \in 1..x
    BY <1>3
  <2> QED BY <1>7, <1>13, <1>15, <1>17, <2>1
<1>21. \A i \in 1..n : put[6 + x + i] = <<"data", m.data[i], (i - 1) % 4>>
  BY <1>9, <1>17
<1> QED BY <1>1, <1>2, <1>17, <1>18, <1>19, <1>20, <1>21, Zenon DEF PutAs

\* Frame m is in the bytes at place p, and what a server reads there is m.
LiesAt(bytes, p, m) == \A i \in 1..Len(Put(m)) : bytes[p + i - 1] = Put(m)[i]

\* At p a server reads m.
ReadAt(bytes, p, m) ==
  /\ FrameAt(bytes, p).op = m.op /\ FrameAt(bytes, p).next = p + Len(Put(m))
  /\ FrameAt(bytes, p).data = [i \in 1..Len(m.data) |-> <<"data", m.data[i], (i - 1) % 4>>]

\* A server that reads where a frame lies reads its message, and goes on behind it.
LEMMA ReadBack ==
  ASSUME NEW bytes, NEW m \in Messages, NEW p \in Nat, LiesAt(bytes, p, m)
  PROVE  ReadAt(bytes, p, m)
<1>1. PICK n : n = Len(m.data)
  OBVIOUS
<1>2. PICK x : x = Extended(n)
  OBVIOUS
<1>3. PICK put : put = Put(m)
  OBVIOUS
<1>4. m.op \in Ops /\ m.data \in Seq(Octets) /\ n \in Nat /\ x \in {0, 2, 8}
  BY <1>1, <1>2, LenProperties DEF Messages, Extended
<1>5. PutAs(m, put, n, x)
  BY <1>1, <1>2, <1>3, PutIs, Zenon
<1>6. /\ Len(put) = 6 + x + n
      /\ put[1] = <<"op", m.op, TRUE, FALSE>> /\ put[2] = <<"len", Announced(n)>>
      /\ x # 0 => put[3] = <<"ext", n>>
      /\ \A i \in 1..n : put[6 + x + i] = <<"data", m.data[i], (i - 1) % 4>>
  BY <1>5, Zenon DEF PutAs
<1>7. \A i \in 1..6 + x + n : bytes[p + i - 1] = put[i]
  BY <1>3, <1>6 DEF LiesAt
<1>8. bytes[p] = put[1] /\ bytes[p + 1] = put[2] /\ (x # 0 => bytes[p + 2] = put[3])
  <2>1. 1 \in 1..6 + x + n /\ 2 \in 1..6 + x + n /\ 3 \in 1..6 + x + n
    BY <1>4
  <2>2. p + 1 - 1 = p /\ p + 2 - 1 = p + 1 /\ p + 3 - 1 = p + 2
    OBVIOUS
  <2>3. bytes[p + 1 - 1] = put[1] /\ bytes[p + 2 - 1] = put[2] /\ bytes[p + 3 - 1] = put[3]
    BY <1>7, <2>1, Zenon
  <2> QED BY <2>2, <2>3
<1>9. /\ bytes[p][2] = m.op /\ bytes[p + 1][2] = Announced(n)
      /\ x # 0 => bytes[p + 2][2] = n
  BY <1>6, <1>8
<1>10. /\ (CASE Announced(n) = 126 -> 2 [] Announced(n) = 127 -> 8 [] OTHER -> 0) = x
       /\ x = 0 => Announced(n) = n
  <2>1. CASE n > Medium
    BY <1>2, <1>4, <2>1, BoundsAre DEF Announced, Extended
  <2>2. CASE ~(n > Medium) /\ n > Short
    BY <1>2, <1>4, <2>2, BoundsAre DEF Announced, Extended
  <2>3. CASE ~(n > Medium) /\ ~(n > Short)
    <3>1. Announced(n) = n /\ x = 0 /\ n # 126 /\ n # 127
      BY <1>2, <1>4, <2>3, BoundsAre DEF Announced, Extended
    <3> QED BY <3>1
  <2> QED BY <2>1, <2>2, <2>3
<1>11. FrameAt(bytes, p) =
         [op |-> m.op, data |-> [i \in 1..n |-> bytes[p + 2 + x + 4 + i - 1]], next |-> p + 2 + x + 4 + n]
  <2>1. (CASE bytes[p + 1][2] = 126 -> 2 [] bytes[p + 1][2] = 127 -> 8 [] OTHER -> 0) = x
    BY <1>9, <1>10, Zenon
  <2>2. (IF x = 0 THEN bytes[p + 1][2] ELSE bytes[p + 2][2]) = n
    BY <1>9, <1>10
  <2> DEFINE ext == CASE bytes[p + 1][2] = 126 -> 2 [] bytes[p + 1][2] = 127 -> 8 [] OTHER -> 0
             len == IF ext = 0 THEN bytes[p + 1][2] ELSE bytes[p + 2][2]
  <2>3. FrameAt(bytes, p) =
          [op |-> bytes[p][2], data |-> [i \in 1..len |-> bytes[p + 2 + ext + 4 + i - 1]], next |-> p + 2 + ext + 4 + len]
    BY Zenon DEF FrameAt
  <2>4. ext = x
    BY <2>1
  <2>5. len = n
    BY <2>2, <2>4, Zenon
  <2> HIDE DEF ext, len
  <2> QED BY <1>9, <2>3, <2>4, <2>5
<1>12. \A i \in 1..n : bytes[p + 2 + x + 4 + i - 1] = <<"data", m.data[i], (i - 1) % 4>>
  <2> TAKE i \in 1..n
  <2>1. 6 + x + i \in 1..6 + x + n /\ p + (6 + x + i) - 1 = p + 2 + x + 4 + i - 1
    BY <1>4
  <2> QED BY <1>6, <1>7, <2>1
<1>13. [i \in 1..n |-> bytes[p + 2 + x + 4 + i - 1]] = [i \in 1..n |-> <<"data", m.data[i], (i - 1) % 4>>]
  BY <1>12, Zenon
<1>14. p + 2 + x + 4 + n = p + Len(Put(m))
  <2> DEFINE k == Len(Put(m))
  <2> HIDE DEF k
  <2>1. k = 6 + x + n
    BY <1>3, <1>6, Zenon DEF k
  <2>2. p + 2 + x + 4 + n = p + k
    BY <1>4, <2>1
  <2> QED BY <2>2 DEF k
<1> QED BY <1>1, <1>11, <1>13, <1>14 DEF ReadAt

\* The places of the messages ms in the bytes, and the place behind them.
Placed(bytes, ms, e) ==
  /\ e[1] = 1 /\ e[Len(ms) + 1] = Len(bytes) + 1
  /\ \A k \in 1..Len(ms) :
       e[k + 1] = e[k] + Len(Put(ms[k])) /\ e[k + 1] <= Len(bytes) + 1 /\ LiesAt(bytes, e[k], ms[k])
Places(ms) == [1..Len(ms) + 1 -> Nat \ {0}]

\* The bytes of a frame are a series of bytes.
LEMMA PutLength ==
  ASSUME NEW m \in Messages
  PROVE  Put(m) \in Seq(Bytes) /\ Len(Put(m)) \in Nat
<1>1. Put(m) \in Seq(Bytes)
  <2>1. PutAs(m, Put(m), Len(m.data), Extended(Len(m.data)))
    BY PutIs
  <2> QED BY <2>1, Zenon DEF PutAs
<1> QED BY <1>1, LenProperties

\* A message that is appended has its place behind the others.
LEMMA PlacedGrows ==
  ASSUME NEW bytes \in Seq(Bytes), NEW ms \in Seq(Messages), NEW m \in Messages,
         NEW e \in Places(ms), Placed(bytes, ms, e)
  PROVE  \E g \in Places(Append(ms, m)) : Placed(bytes \o Put(m), Append(ms, m), g)
<1> DEFINE put == Put(m)
           n == Len(ms)
           l == Len(bytes)
           g == [k \in 1..n + 2 |-> IF k <= n + 1 THEN e[k] ELSE e[n + 1] + Len(put)]
<1>1. put \in Seq(Bytes) /\ Len(put) \in Nat /\ n \in Nat /\ l \in Nat
  BY PutLength, LenProperties
<1>2. /\ \A k \in 1..n + 1 : e[k] \in Nat \ {0}
      /\ e[1] = 1 /\ e[n + 1] = l + 1
      /\ \A k \in 1..n : e[k + 1] = e[k] + Len(Put(ms[k])) /\ e[k + 1] <= l + 1 /\ LiesAt(bytes, e[k], ms[k])
  BY DEF Places, Placed
<1> HIDE DEF put, n, l
<1>3. PICK ns : ns = Append(ms, m)
  OBVIOUS
<1>4. ns \in Seq(Messages) /\ Len(ns) = n + 1 /\ ns[n + 1] = m /\ \A k \in 1..n : ns[k] = ms[k]
  BY <1>3, AppendProperties DEF n
<1>5. PICK more : more = bytes \o put
  OBVIOUS
<1>6. /\ more \in Seq(Bytes) /\ Len(more) = l + Len(put)
      /\ \A i \in 1..l + Len(put) : more[i] = IF i <= l THEN bytes[i] ELSE put[i - l]
  BY <1>1, <1>5, ConcatProperties DEF l
<1>7. g \in Places(ns)
  <2>1. \A k \in 1..n + 2 : (IF k <= n + 1 THEN e[k] ELSE e[n + 1] + Len(put)) \in Nat \ {0}
    BY <1>1, <1>2
  <2>2. Len(ns) + 1 = n + 2
    BY <1>1, <1>4
  <2> QED BY <2>1, <2>2 DEF Places
<1>8. /\ \A k \in 1..n + 1 : g[k] = e[k]
      /\ g[n + 2] = e[n + 1] + Len(put)
  BY <1>1
<1> HIDE DEF g
<1>9. g[1] = 1 /\ g[Len(ns) + 1] = Len(more) + 1
  <2>1. 1 \in 1..n + 1 /\ n + 1 + 1 = n + 2
    BY <1>1
  <2>2. g[1] = 1 /\ g[Len(ns) + 1] = l + 1 + Len(put)
    BY <1>2, <1>4, <1>8, <2>1
  <2> QED BY <1>1, <1>6, <2>2
<1>10. ASSUME NEW k \in 1..Len(ns)
       PROVE  g[k + 1] = g[k] + Len(Put(ns[k])) /\ g[k + 1] <= Len(more) + 1 /\ LiesAt(more, g[k], ns[k])
  <2>1. CASE k \in 1..n
    <3>1. k \in 1..n + 1 /\ k + 1 \in 1..n + 1
      BY <1>1, <2>1
    <3>2. g[k] = e[k] /\ g[k + 1] = e[k + 1] /\ ns[k] = ms[k] /\ e[k] \in Nat \ {0} /\ e[k + 1] \in Nat
      BY <1>2, <1>4, <1>8, <2>1, <3>1
    <3>3. e[k + 1] = e[k] + Len(Put(ms[k])) /\ e[k + 1] <= l + 1 /\ LiesAt(bytes, e[k], ms[k])
      BY <1>2, <2>1
    <3>4. Len(Put(ms[k])) \in Nat
      BY <2>1, ElementOfSeq, PutLength DEF n
    <3>5. \A i \in 1..Len(Put(ms[k])) : more[e[k] + i - 1] = Put(ms[k])[i]
      <4> TAKE i \in 1..Len(Put(ms[k]))
      <4>1. PICK j : j = e[k] + i - 1
        OBVIOUS
      <4>2. j \in 1..l + Len(put) /\ j <= l
        <5> DEFINE u == Len(Put(ms[k]))
                   v == e[k]
                   w == Len(put)
        <5> HIDE DEF u, v, w
        <5>1. u \in Nat /\ v \in Nat \ {0} /\ w \in Nat /\ v + u <= l + 1 /\ i \in 1..u /\ j = v + i - 1 /\ l \in Nat
          BY <1>1, <3>2, <3>3, <3>4, <4>1, Zenon DEF u, v, w
        <5>2. j \in 1..l + w /\ j <= l
          BY <5>1
        <5> QED BY <5>2 DEF w
      <4>3. more[j] = bytes[j]
        BY <1>6, <4>2, Zenon
      <4>4. bytes[j] = Put(ms[k])[i]
        BY <3>3, <4>1, Zenon DEF LiesAt
      <4> QED BY <4>1, <4>3, <4>4, Zenon
    <3>6. LiesAt(more, g[k], ns[k])
      BY <3>2, <3>5, Zenon DEF LiesAt
    <3>7. g[k + 1] <= Len(more) + 1
      <4>1. e[k + 1] <= l + Len(put) + 1
        BY <1>1, <3>2, <3>3
      <4> QED BY <1>6, <3>2, <4>1
    <3> QED BY <3>2, <3>3, <3>6, <3>7
  <2>2. CASE k \notin 1..n
    <3>1. k = n + 1 /\ k + 1 = n + 2 /\ n + 1 \in 1..n + 1
      BY <1>1, <1>4, <2>2
    <3>2. g[k] = l + 1 /\ g[k + 1] = l + 1 + Len(put) /\ ns[k] = m
      BY <1>2, <1>4, <1>8, <3>1
    <3>3. g[k + 1] = g[k] + Len(Put(ns[k]))
      BY <3>2 DEF put
    <3>4. g[k + 1] <= Len(more) + 1
      BY <1>1, <1>6, <3>2
    <3>5. \A i \in 1..Len(put) : more[l + 1 + i - 1] = put[i]
      <4> TAKE i \in 1..Len(put)
      <4>1. PICK j : j = l + 1 + i - 1
        OBVIOUS
      <4>2. j \in 1..l + Len(put) /\ ~(j <= l) /\ j - l = i
        BY <1>1, <4>1
      <4>3. more[j] = put[j - l]
        BY <1>6, <4>2, Zenon
      <4> QED BY <4>1, <4>2, <4>3, Zenon
    <3>6. LiesAt(more, g[k], ns[k])
      BY <3>2, <3>5, Zenon DEF LiesAt, put
    <3> QED BY <3>3, <3>4, <3>6
  <2> QED BY <2>1, <2>2
<1>11. Placed(more, ns, g)
  BY <1>9, <1>10, Zenon DEF Placed
<1> QED BY <1>3, <1>5, <1>7, <1>11, Zenon DEF put

\* A server that reads from one place to the next finds the messages.
LEMMA PlacedIsRead ==
  ASSUME taken \o out \in Seq(Bytes), written \in Seq(Messages),
         NEW e \in Places(written), Placed(taken \o out, written, e)
  PROVE  SentAsWritten
<1> DEFINE n == Len(written)
           bytes == taken \o out
           At(p) == FrameAt(bytes, p)
           Is(f) == f = [k \in 1..n + 1 |-> IF k = 1 THEN 1 ELSE At(f[k - 1]).next]
<1>1. n \in Nat /\ Len(bytes) \in Nat
  BY LenProperties
<1>2. /\ \A k \in 1..n + 1 : e[k] \in Nat \ {0}
      /\ e[1] = 1 /\ e[n + 1] = Len(bytes) + 1
      /\ \A k \in 1..n : e[k + 1] = e[k] + Len(Put(written[k])) /\ LiesAt(bytes, e[k], written[k])
      /\ e = [k \in 1..n + 1 |-> e[k]]
  BY DEF Places, Placed
<1> HIDE DEF bytes, n
<1>3. ASSUME NEW k \in 1..n
      PROVE  /\ At(e[k]).op = written[k].op /\ At(e[k]).next = e[k + 1]
             /\ At(e[k]).data = [i \in 1..Len(written[k].data) |-> <<"data", written[k].data[i], (i - 1) % 4>>]
  <2>1. written[k] \in Messages
    BY ElementOfSeq DEF n
  <2>2. k \in 1..n + 1
    BY <1>1
  <2>3. e[k] \in Nat /\ LiesAt(bytes, e[k], written[k]) /\ e[k + 1] = e[k] + Len(Put(written[k]))
    BY <1>2, <2>2
  <2>4. /\ At(e[k]).op = written[k].op /\ At(e[k]).next = e[k] + Len(Put(written[k]))
        /\ At(e[k]).data = [i \in 1..Len(written[k].data) |-> <<"data", written[k].data[i], (i - 1) % 4>>]
    <3>1. ReadAt(bytes, e[k], written[k])
      BY <2>1, <2>3, ReadBack
    <3> QED BY <3>1, Zenon DEF ReadAt
  <2> QED BY <2>3, <2>4, Zenon
<1> HIDE DEF At
<1>4. Is(e)
  <2>1. \A k \in 1..n + 1 : e[k] = IF k = 1 THEN 1 ELSE At(e[k - 1]).next
    <3> TAKE k \in 1..n + 1
    <3>1. CASE k = 1
      BY <1>2, <3>1
    <3>2. CASE k # 1
      <4>1. PICK j : j = k - 1
        OBVIOUS
      <4>2. j \in 1..n /\ k = j + 1
        BY <1>1, <3>2, <4>1
      <4>3. At(e[j]).next = e[j + 1]
        BY <1>3, <4>2
      <4> QED BY <3>2, <4>1, <4>2, <4>3, Zenon
    <3> QED BY <3>1, <3>2
  <2> QED BY <1>2, <2>1, Zenon
<1>5. ASSUME NEW f, Is(f) PROVE f = e
  <2> DEFINE P == {i \in Nat : \A k \in 1..n + 1 : k <= i => f[k] = e[k]}
  <2>0. f = [k \in 1..n + 1 |-> IF k = 1 THEN 1 ELSE At(f[k - 1]).next]
    BY <1>5
  <2>1. \A k \in 1..n + 1 : f[k] = IF k = 1 THEN 1 ELSE At(f[k - 1]).next
    BY <2>0
  <2>2. \A k \in 1..n + 1 : e[k] = IF k = 1 THEN 1 ELSE At(e[k - 1]).next
    BY <1>4
  <2>3. 0 \in P
    BY <1>1
  <2>4. ASSUME NEW i \in Nat, i \in P PROVE i + 1 \in P
    <3> SUFFICES ASSUME NEW k \in 1..n + 1, k <= i + 1 PROVE f[k] = e[k]
      OBVIOUS
    <3>1. CASE k = 1
      BY <2>1, <2>2, <3>1
    <3>2. CASE k # 1
      <4>1. k - 1 \in 1..n + 1 /\ k - 1 <= i
        BY <1>1, <3>2
      <4>2. f[k - 1] = e[k - 1]
        BY <2>4, <4>1
      <4> QED BY <2>1, <2>2, <3>2, <4>2
    <3> QED BY <3>1, <3>2
  <2>5. n + 1 \in P
    <3> HIDE DEF P
    <3>1. Nat \subseteq P
      BY <2>3, <2>4, SetInduction
    <3> QED BY <1>1, <3>1
  <2>6. \A k \in 1..n + 1 : f[k] = e[k]
    BY <1>1, <2>5
  <2>7. f = [k \in 1..n + 1 |-> f[k]]
    BY <2>0
  <2> QED BY <1>2, <2>6, <2>7, Zenon
<1> DEFINE start == CHOOSE f : f = [k \in 1..n + 1 |-> IF k = 1 THEN 1 ELSE At(f[k - 1]).next]
<1>6. start = e
  <2>1. Is(start)
    BY <1>4, Zenon
  <2> HIDE DEF start
  <2> QED BY <1>5, <2>1
<1> HIDE DEF start
<1>7. start[n + 1] = Len(bytes) + 1
  BY <1>2, <1>6
<1>8. \A k \in 1..n :
        /\ At(start[k]).op = written[k].op
        /\ At(start[k]).data = [i \in 1..Len(written[k].data) |-> <<"data", written[k].data[i], (i - 1) % 4>>]
  BY <1>3, <1>6, Zenon
<1> QED BY <1>7, <1>8, Zenon DEF SentAsWritten, start, At, n, bytes

-----------------------------------------------------------------------------
(* What is sent is what is read *)

SendTypes ==
  /\ taken \in Seq(Bytes) /\ out \in Seq(Bytes) /\ written \in Seq(Messages) /\ paused \in BOOLEAN

\* The inductive invariant: the messages have their places in what was taken and what waits.
SendInv ==
  /\ SendTypes
  /\ \E e \in Places(written) : Placed(taken \o out, written, e)
  /\ NeverStuck
  /\ CloseIsLast
  /\ PingsAnswered

\* The payloads with an opcode grow by that of a message with this opcode ...
LEMMA DataGrows ==
  ASSUME NEW s \in Seq(Messages), NEW m \in Messages, NEW op
  PROVE  DataOf(Append(s, m), op) = DataOf(s, op) \o IF m.op = op THEN <<m.data>> ELSE <<>>
<1> DEFINE n == Len(s)
           x == IF m.op = op THEN <<m.data>> ELSE <<>>
           f == [k \in 1..n |-> IF s[k].op = op THEN <<s[k].data>> ELSE <<>>]
<1>1. n \in Nat
  BY LenProperties
<1>2. \A r \in Messages : (IF r.op = op THEN <<r.data>> ELSE <<>>) \in Seq(Seq(Octets))
  <2> TAKE r \in Messages
  <2>1. <<r.data>> \in Seq(Seq(Octets)) /\ <<>> \in Seq(Seq(Octets))
    BY SingleElems, EmptySeq DEF Messages
  <2> QED BY <2>1
<1>3. x \in Seq(Seq(Octets))
  BY <1>2
<1>4. f \in Seq(Seq(Seq(Octets))) /\ Len(f) = n
  <2>1. \A k \in 1..n : (IF s[k].op = op THEN <<s[k].data>> ELSE <<>>) \in Seq(Seq(Octets))
    BY <1>2, ElementOfSeq
  <2>2. f \in Seq(Seq(Seq(Octets)))
    BY <1>1, <2>1, IsASeq
  <2>3. Len(f) = n
    BY <1>1, <2>2, LenProperties
  <2> QED BY <2>2, <2>3
<1>5. PICK t : t = Append(s, m)
  OBVIOUS
<1>6. Len(t) = n + 1 /\ t[n + 1] = m /\ \A k \in 1..n : t[k] = s[k]
  BY <1>5, AppendProperties
<1> DEFINE g == [k \in 1..Len(t) |-> IF t[k].op = op THEN <<t[k].data>> ELSE <<>>]
           h == Append(f, x)
<1>7. \A k \in 1..n : f[k] = IF s[k].op = op THEN <<s[k].data>> ELSE <<>>
  OBVIOUS
<1>8. \A k \in 1..n + 1 : g[k] = IF t[k].op = op THEN <<t[k].data>> ELSE <<>>
  BY <1>6
<1> HIDE DEF x, f
<1>9. /\ h \in Seq(Seq(Seq(Octets))) /\ Len(h) = n + 1 /\ h[n + 1] = x
      /\ \A k \in 1..n : h[k] = f[k]
  <2>1. PICK r : r = h
    OBVIOUS
  <2>2. /\ r \in Seq(Seq(Seq(Octets))) /\ Len(r) = Len(f) + 1 /\ r[Len(f) + 1] = x
        /\ \A k \in 1..Len(f) : r[k] = f[k]
    BY <1>3, <1>4, <2>1, AppendProperties
  <2> QED BY <1>4, <2>1, <2>2, Zenon
<1>10. g = h
  <2>1. g \in Seq(Seq(Seq(Octets))) /\ Len(g) = n + 1
    <3>1. \A k \in 1..n + 1 : (IF t[k].op = op THEN <<t[k].data>> ELSE <<>>) \in Seq(Seq(Octets))
      <4>1. t \in Seq(Messages)
        BY <1>5, AppendProperties
      <4> QED BY <1>2, <1>6, <4>1, ElementOfSeq
    <3>2. n + 1 \in Nat /\ g = [k \in 1..n + 1 |-> IF t[k].op = op THEN <<t[k].data>> ELSE <<>>]
      BY <1>1, <1>6
    <3> HIDE DEF g
    <3>3. g \in Seq(Seq(Seq(Octets)))
      BY <3>1, <3>2, IsASeq
    <3>4. Len(g) = n + 1
      BY <3>2, <3>3, LenProperties
    <3> QED BY <3>3, <3>4
  <2>2. \A k \in 1..n + 1 : g[k] = h[k]
    <3> HIDE DEF g, h
    <3> TAKE k \in 1..n + 1
    <3>1. CASE k \in 1..n
      <4>1. g[k] = IF t[k].op = op THEN <<t[k].data>> ELSE <<>>
        BY <1>8, Zenon
      <4> QED BY <1>6, <1>7, <1>9, <3>1, <4>1, Zenon
    <3>2. CASE k \notin 1..n
      <4>1. k = n + 1
        BY <1>1, <3>2
      <4>2. g[k] = IF t[k].op = op THEN <<t[k].data>> ELSE <<>>
        BY <1>8, Zenon
      <4> QED BY <1>6, <1>9, <4>1, <4>2, Zenon DEF x
    <3> QED BY <3>1, <3>2
  <2> HIDE DEF g, h
  <2> QED BY <1>9, <2>1, <2>2, SeqEqual
<1>11. FlattenSeq(h) = FlattenSeq(f) \o x
  BY <1>3, <1>4, FlattenAppend
<1> QED BY <1>5, <1>10, <1>11, Zenon DEF DataOf, f, g, x, n

\* ... and not by another one.
LEMMA DataKept ==
  ASSUME NEW s \in Seq(Messages), NEW m \in Messages, NEW op, m.op # op
  PROVE  DataOf(Append(s, m), op) = DataOf(s, op)
<1> DEFINE n == Len(s)
           f == [k \in 1..n |-> IF s[k].op = op THEN <<s[k].data>> ELSE <<>>]
<1>1. DataOf(s, op) \in Seq(Seq(Octets))
  <2>1. \A r \in Messages : (IF r.op = op THEN <<r.data>> ELSE <<>>) \in Seq(Seq(Octets))
    <3> TAKE r \in Messages
    <3>1. <<r.data>> \in Seq(Seq(Octets)) /\ <<>> \in Seq(Seq(Octets))
      BY SingleElems, EmptySeq DEF Messages
    <3> QED BY <3>1
  <2>2. n \in Nat /\ \A k \in 1..n : (IF s[k].op = op THEN <<s[k].data>> ELSE <<>>) \in Seq(Seq(Octets))
    BY <2>1, ElementOfSeq, LenProperties
  <2>3. f \in Seq(Seq(Seq(Octets)))
    BY <2>2, IsASeq
  <2> HIDE DEF f
  <2>4. FlattenSeq(f) \in Seq(Seq(Octets))
    <3>1. <<>> \in Seq(Seq(Octets))
      BY EmptySeq
    <3> QED BY <2>3, <3>1, FlattenAppend
  <2> QED BY <2>4, Zenon DEF DataOf, f
<1>2. DataOf(Append(s, m), op) = DataOf(s, op) \o <<>>
  BY DataGrows
<1> QED BY <1>1, <1>2, ConcatEmptySeq

-----------------------------------------------------------------------------
(* The steps that send *)

\* _cws_write of one frame, and of none.
LEMMA WriteIs ==
  ASSUME SendTypes, NEW m \in Messages
  PROVE  /\ Write(<<m>>) => out' = out \o Put(m) /\ paused' = FALSE /\ written' = Append(written, m)
         /\ Write(<<>>) => UNCHANGED <<out, paused, written>>
<1>1. out \in Seq(Bytes) /\ written \in Seq(Messages) /\ paused \in BOOLEAN
  BY DEF SendTypes
<1>2. ASSUME Write(<<m>>) PROVE out' = out \o Put(m) /\ paused' = FALSE /\ written' = Append(written, m)
  <2> DEFINE put == Put(m)
             f == [i \in 1..Len(<<m>>) |-> FrameOf(<<m>>[i].op, <<m>>[i].data)]
  <2>1. out' = out \o FlattenSeq(f) /\ paused' = (paused /\ <<m>> = <<>>) /\ written' = written \o <<m>>
    BY <1>2, Zenon DEF Write
  <2>2. put \in Seq(Bytes)
    BY PutLength
  <2>3. f = Append(<<>>, put)
    <3>1. Len(<<m>>) = 1 /\ <<m>>[1] = m
      OBVIOUS
    <3>2. f = [i \in 1..1 |-> FrameOf(<<m>>[i].op, <<m>>[i].data)]
      BY <3>1
    <3>3. \A i \in 1..1 : FrameOf(<<m>>[i].op, <<m>>[i].data) = put
      <4> TAKE i \in 1..1
      <4>1. i = 1
        OBVIOUS
      <4>2. <<m>>[i] = m
        BY <3>1, <4>1
      <4> QED BY <4>2, Zenon DEF Put
    <3> HIDE DEF f, put
    <3>4. f = [i \in 1..1 |-> put]
      BY <3>2, <3>3, Zenon
    <3>5. Append(<<>>, put) = <<put>> /\ <<put>> = [i \in 1..1 |-> put]
      OBVIOUS
    <3> QED BY <3>4, <3>5
  <2> HIDE DEF f, put
  <2>4. FlattenSeq(Append(<<>>, put)) = FlattenSeq(<<>>) \o put
    <3>1. <<>> \in Seq(Seq(Bytes))
      BY EmptySeq
    <3> QED BY <2>2, <3>1, FlattenAppend
  <2>5. FlattenSeq(<<>>) \o put = put
    BY <2>2, FlattenNone, ConcatEmptySeq
  <2>6. out' = out \o put
    BY <2>1, <2>3, <2>4, <2>5
  <2>7. <<m>> # <<>>
    OBVIOUS
  <2>8. written \o <<m>> = Append(written, m)
    BY <1>1, AppendIsConcat
  <2> QED BY <1>1, <2>1, <2>6, <2>7, <2>8 DEF put
<1>3. ASSUME Write(<<>>) PROVE UNCHANGED <<out, paused, written>>
  <2> DEFINE f == [i \in 1..Len(<<>>) |-> FrameOf(<<>>[i].op, <<>>[i].data)]
  <2>1. out' = out \o FlattenSeq(f) /\ paused' = (paused /\ <<>> = <<>>) /\ written' = written \o <<>>
    BY <1>3, Zenon DEF Write
  <2>2. f = <<>>
    <3>1. Len(<<>>) = 0
      BY EmptySeq
    <3>2. 1..Len(<<>>) = {}
      BY <3>1
    <3> QED BY <3>2
  <2> HIDE DEF f
  <2>3. out \o <<>> = out /\ written \o <<>> = written
    BY <1>1, ConcatEmptySeq
  <2> QED BY <1>1, <2>1, <2>2, <2>3, FlattenNone
<1> QED BY <1>2, <1>3

\* _cws_send: refused once closed, else one frame.
LEMMA SendIs ==
  ASSUME SendTypes, closed \in BOOLEAN, NEW op \in Ops, NEW msg \in Seq(Octets), Send(op, msg)
  PROVE  IF closed THEN UNCHANGED <<out, paused, written>>
         ELSE LET m == [op |-> op, data |-> msg] IN
                out' = out \o Put(m) /\ paused' = FALSE /\ written' = Append(written, m)
<1> DEFINE m == [op |-> op, data |-> msg]
<1>1. m \in Messages
  BY DEF Messages
<1>2. Write(IF closed THEN <<>> ELSE <<m>>)
  BY DEF Send
<1> HIDE DEF m
<1>3. CASE closed
  <2>1. Write(<<>>)
    BY <1>2, <1>3
  <2> QED BY <1>1, <1>3, <2>1, WriteIs
<1>4. CASE ~closed
  <2>1. Write(<<m>>)
    BY <1>2, <1>4
  <2> QED BY <1>1, <1>4, <2>1, WriteIs DEF m
<1> QED BY <1>3, <1>4

\* A message is written, of which nothing is taken yet.
LEMMA SendWritten ==
  ASSUME SendInv, NEW m \in Messages, ~closed, closed' = (m.op = "close"),
         out' = out \o Put(m), paused' = FALSE, written' = Append(written, m), taken' = taken, PingsAnswered'
  PROVE  SendInv'
<1>1. taken \in Seq(Bytes) /\ out \in Seq(Bytes) /\ written \in Seq(Messages)
  BY DEF SendInv, SendTypes
<1>2. Put(m) \in Seq(Bytes)
  BY PutLength
<1>3. SendTypes'
  <2>1. out' \in Seq(Bytes)
    BY <1>1, <1>2, ConcatProperties
  <2>2. written' \in Seq(Messages)
    BY <1>1, AppendProperties
  <2> QED BY <1>1, <2>1, <2>2 DEF SendTypes
<1>4. \E e \in Places(written)' : Placed(taken' \o out', written', e)
  <2>1. PICK e \in Places(written) : Placed(taken \o out, written, e)
    BY DEF SendInv
  <2>2. taken \o out \in Seq(Bytes)
    BY <1>1, ConcatProperties
  <2>3. \E g \in Places(Append(written, m)) : Placed((taken \o out) \o Put(m), Append(written, m), g)
    BY <1>1, <2>1, <2>2, PlacedGrows
  <2>4. (taken \o out) \o Put(m) = taken' \o out'
    <3> DEFINE put == Put(m)
    <3>1. put \in Seq(Bytes)
      BY <1>2
    <3>2. out' = out \o put /\ taken' = taken
      OBVIOUS
    <3> HIDE DEF put
    <3>3. Joins(taken, out, put)
      BY <1>1, <3>1, BytesJoin, Zenon
    <3>4. (taken \o out) \o put = taken' \o out'
      BY <3>2, <3>3, Zenon DEF Joins
    <3> QED BY <3>4 DEF put
  <2>5. Places(written)' = Places(Append(written, m))
    BY DEF Places
  <2> QED BY <2>3, <2>4, <2>5
<1>5. NeverStuck'
  BY DEF NeverStuck
<1>6. CloseIsLast'
  <2>1. \A k \in 1..Len(written) : written[k].op # "close"
    BY DEF SendInv, CloseIsLast
  <2>2. /\ Len(written') = Len(written) + 1 /\ written'[Len(written) + 1] = m
        /\ \A k \in 1..Len(written) : written'[k] = written[k]
        /\ Len(written) \in Nat
    BY <1>1, AppendProperties, LenProperties
  <2>3. \A k \in 1..Len(written') : written'[k].op = "close" => k = Len(written') /\ closed'
    <3> TAKE k \in 1..Len(written')
    <3>1. k \in 1..Len(written) \/ k = Len(written')
      BY <2>2
    <3>2. CASE k \in 1..Len(written)
      BY <2>1, <2>2, <3>2
    <3>3. CASE k = Len(written')
      BY <2>2, <3>3
    <3> QED BY <3>1, <3>2, <3>3
  <2> QED BY <2>3 DEF CloseIsLast
<1> QED BY <1>3, <1>4, <1>5, <1>6 DEF SendInv

\* Nothing is written or taken.
LEMMA SendStays ==
  ASSUME SendInv, UNCHANGED <<out, paused, written, taken>>, closed => closed', PingsAnswered'
  PROVE  SendInv'
BY DEF SendInv, SendTypes, NeverStuck, CloseIsLast, Places, Placed

\* libcurl takes what it has room for.
LEMMA SendTaken ==
  ASSUME SendInv, NEW n \in Pieces, SendData(n), UNCHANGED <<closed, written, got>>
  PROVE  SendInv'
<1> DEFINE todo == IF n < Len(out) THEN n ELSE Len(out)
<1>1. /\ taken' = taken \o SubSeq(out, 1, todo)
      /\ out' = SubSeq(out, todo + 1, Len(out))
      /\ paused' = (todo = 0)
  BY Zenon DEF SendData
<1>2. taken \in Seq(Bytes) /\ out \in Seq(Bytes) /\ written \in Seq(Messages) /\ Len(out) \in Nat /\ n \in Nat \ {0}
  BY CwsAssumption, LenProperties DEF SendInv, SendTypes
<1>3. todo \in 0..Len(out) /\ (todo = 0 => Len(out) = 0)
  BY <1>2
<1> HIDE DEF todo
<1> DEFINE x == SubSeq(out, 1, todo)
           y == SubSeq(out, todo + 1, Len(out))
<1>4. x \in Seq(Bytes) /\ y \in Seq(Bytes) /\ x \o y = out /\ Len(y) = Len(out) - todo
  BY <1>2, <1>3, TwoParts, ZenonT(30)
<1>5. taken' = taken \o x /\ out' = y
  BY <1>1
<1> HIDE DEF x, y
<1>6. taken' \o out' = taken \o out
  <2>1. Joins(taken, x, y)
    <3>1. taken \in Seq(Bytes) /\ x \in Seq(Bytes) /\ y \in Seq(Bytes)
      BY <1>2, <1>4
    <3> QED BY <3>1, BytesJoin, Zenon
  <2> QED BY <1>4, <1>5, <2>1, Zenon DEF Joins
<1>7. SendTypes'
  <2>1. taken' \in Seq(Bytes)
    BY <1>2, <1>4, <1>5, ConcatProperties
  <2> QED BY <1>1, <1>2, <1>4, <1>5, <2>1 DEF SendTypes
<1>8. NeverStuck'
  <2>1. todo = 0 => Len(y) = 0
    BY <1>2, <1>3, <1>4
  <2>2. Len(y) = 0 => y = <<>>
    BY <1>4, EmptySeq
  <2>3. todo = 0 => out' = <<>>
    BY <1>5, <2>1, <2>2
  <2> QED BY <1>1, <2>3 DEF NeverStuck
<1>9. CloseIsLast' /\ PingsAnswered'
  BY DEF SendInv, CloseIsLast, PingsAnswered, DataOf
<1>10. \E e \in Places(written)' : Placed(taken' \o out', written', e)
  BY <1>6 DEF SendInv, Places, Placed
<1> QED BY <1>7, <1>8, <1>9, <1>10 DEF SendInv

-----------------------------------------------------------------------------
(* What is written is what the server reads *)

\* A message that is no PONG is written, or refused.
LEMMA SaidKept ==
  ASSUME SendInv, closed \in BOOLEAN, NEW op \in Ops, op # "pong", NEW msg \in Seq(Octets),
         Send(op, msg), closed' = (closed \/ op = "close"), taken' = taken, got' = got
  PROVE  SendInv'
<1> DEFINE m == [op |-> op, data |-> msg]
<1>1. SendTypes /\ PingsAnswered /\ written \in Seq(Messages)
  BY DEF SendInv, SendTypes
<1>2. m \in Messages /\ m.op = op
  BY DEF Messages
<1>3. CASE closed
  <2>1. UNCHANGED <<out, paused, written>>
    BY <1>1, <1>3, SendIs
  <2>2. PingsAnswered'
    BY <1>1, <2>1 DEF PingsAnswered
  <2> QED BY <1>3, <2>1, <2>2, SendStays
<1>4. CASE ~closed
  <2>1. out' = out \o Put(m) /\ paused' = FALSE /\ written' = Append(written, m)
    BY <1>1, <1>4, SendIs
  <2> HIDE DEF m
  <2>2. DataOf(Append(written, m), "pong") = DataOf(written, "pong")
    BY <1>1, <1>2, DataKept
  <2>3. PingsAnswered'
    BY <1>1, <2>1, <2>2 DEF PingsAnswered
  <2> QED BY <1>2, <1>4, <2>1, <2>3, SendWritten
<1> QED BY <1>3, <1>4

\* A PING is given to the user and answered.
LEMMA PongKept ==
  ASSUME SendInv, got \in Seq(Messages), closed \in BOOLEAN, ~closed, NEW msg \in Seq(Octets), Send("pong", msg),
         closed' = closed, taken' = taken, got' = Append(got, [op |-> "ping", data |-> msg])
  PROVE  SendInv'
<1> DEFINE m == [op |-> "pong", data |-> msg]
           p == [op |-> "ping", data |-> msg]
<1>1. SendTypes /\ PingsAnswered /\ written \in Seq(Messages)
  BY DEF SendInv, SendTypes
<1>2. "pong" \in Ops
  BY DEF Ops, Control
<1>3. m \in Messages /\ m.op = "pong" /\ m.data = msg /\ p \in Messages /\ p.op = "ping" /\ p.data = msg
  BY DEF Messages, Ops, Control
<1>4. out' = out \o Put(m) /\ paused' = FALSE /\ written' = Append(written, m)
  BY <1>1, <1>2, SendIs
<1>5. got' = Append(got, p)
  OBVIOUS
<1> HIDE DEF m, p
<1>6. DataOf(Append(written, m), "pong") = DataOf(written, "pong") \o <<msg>>
  BY <1>1, <1>3, DataGrows
<1>7. DataOf(Append(got, p), "ping") = DataOf(got, "ping") \o <<msg>>
  BY <1>3, DataGrows
<1>8. PingsAnswered'
  BY <1>1, <1>4, <1>5, <1>6, <1>7 DEF PingsAnswered
<1>9. closed' = (m.op = "close")
  BY <1>3
<1> QED BY <1>3, <1>4, <1>8, <1>9, SendWritten

\* Nothing is written, and the user gets no PING.
LEMMA QuietKept ==
  ASSUME SendInv, got \in Seq(Messages), Quiet, taken' = taken,
         got' = got \/ \E m \in Messages : m.op # "ping" /\ got' = Append(got, m)
  PROVE  SendInv'
<1>1. PingsAnswered
  BY DEF SendInv
<1>2. UNCHANGED <<out, paused, written, closed>>
  BY DEF Quiet
<1>3. CASE got' = got
  <2>1. PingsAnswered'
    BY <1>1, <1>2, <1>3 DEF PingsAnswered
  <2> QED BY <1>2, <2>1, SendStays
<1>4. ASSUME NEW m \in Messages, m.op # "ping", got' = Append(got, m) PROVE SendInv'
  <2>1. DataOf(Append(got, m), "ping") = DataOf(got, "ping")
    BY <1>4, DataKept
  <2>2. PingsAnswered'
    BY <1>1, <1>2, <1>4, <2>1 DEF PingsAnswered
  <2> QED BY <1>2, <2>2, SendStays
<1> QED BY <1>3, <1>4

\* The codes of the CLOSE frames that the library writes on its own.
Goodbye == <<1000, 0>>
LEMMA CodesAre == ProtocolError \in Seq(Octets) /\ Goodbye \in Seq(Octets)
<1>1. {0, 1000, 1002} \subseteq Octets
  BY CwsAssumption
<1> QED BY <1>1 DEF ProtocolError, Goodbye

\* cws_close
LEMMA CloseKept ==
  ASSUME SendInv, closed \in BOOLEAN, NEW msg \in Seq(Octets), Close(msg), taken' = taken, got' = got
  PROVE  SendInv'
<1>1. "close" \in Ops
  BY DEF Ops, Control
<1>2. Send("close", msg) /\ closed' = TRUE
  BY DEF Close
<1> QED BY <1>1, <1>2, SaidKept

\* What is dispatched is answered as it must be.
LEMMA SendDispatch ==
  ASSUME RecvTypes, SendInv, NEW buf \in Buffers, Dispatch(buf), taken' = taken
  PROVE  SendInv'
<1>1. /\ got \in Seq(Messages) /\ closed \in BOOLEAN /\ fragOp \in Data \cup {None}
      /\ frame \in [op : Ops \cup {None}, fin : BOOLEAN] /\ buf.data \in Seq(Octets)
  BY DEF RecvTypes, Buffers
<1>2. CASE /\ Ignored \/ Invalid
           /\ IF Ignored THEN Quiet ELSE Close(ProtocolError)
           /\ UNCHANGED got
  <2>1. CASE Ignored
    BY <1>1, <1>2, <2>1, QuietKept
  <2>2. CASE ~Ignored
    BY <1>1, <1>2, <2>2, CloseKept, CodesAre
  <2> QED BY <2>1, <2>2
<1>3. CASE ~Ignored /\ ~Invalid /\ DispatchData(buf)
  <2>1. Quiet /\ frame.op \in Data \cup {"cont"}
    BY <1>3 DEF DispatchData
  <2> DEFINE m == [op |-> IF frame.op = "cont" THEN fragOp ELSE frame.op, data |-> buf.data]
  <2>2. m \in Messages /\ m.op # "ping"
    <3>1. frame.op = "cont" => fragOp \in Data
      BY <1>1, <1>3 DEF Invalid
    <3>2. m.op \in Data
      BY <2>1, <3>1 DEF Data
    <3> QED BY <1>1, <3>2 DEF Messages, Ops, Data
  <2>3. got' = got \/ got' = Append(got, m)
    BY <1>3 DEF DispatchData
  <2> HIDE DEF m
  <2> QED BY <1>1, <2>1, <2>2, <2>3, QuietKept
<1>4. CASE ~Ignored /\ ~Invalid /\ DispatchControl(buf)
  <2>1. CASE frame.op = "close" /\ DispatchClose(buf.data)
    <3> DEFINE echo == CASE Len(buf.data) = 0 -> <<>>
                         [] Len(buf.data) = 1 -> ProtocolError
                         [] OTHER -> IF ValidReason(buf.data[1]) THEN buf.data ELSE ProtocolError
    <3>1. Close(echo) /\ got' = got
      BY <2>1, Zenon DEF DispatchClose
    <3>2. echo \in Seq(Octets)
      <4>1. <<>> \in Seq(Octets)
        BY EmptySeq
      <4> HIDE DEF ProtocolError
      <4> QED BY <1>1, <4>1, CodesAre
    <3> HIDE DEF echo
    <3> QED BY <1>1, <3>1, <3>2, CloseKept
  <2>2. CASE /\ frame.op = "ping"
             /\ got' = Append(got, [op |-> "ping", data |-> buf.data])
             /\ Send("pong", buf.data) /\ UNCHANGED <<closed, onClose>>
    <3>1. ~closed
      BY <1>4, <2>2 DEF Ignored
    <3> QED BY <1>1, <2>2, <3>1, PongKept
  <2>3. CASE /\ frame.op = "pong"
             /\ got' = Append(got, [op |-> "pong", data |-> buf.data])
             /\ Quiet
    <3> DEFINE m == [op |-> "pong", data |-> buf.data]
    <3>1. m \in Messages /\ m.op # "ping" /\ got' = Append(got, m)
      BY <1>1, <2>3 DEF Messages, Ops, Control
    <3> HIDE DEF m
    <3> QED BY <1>1, <2>3, <3>1, QuietKept
  <2>4. CASE frame.op = "reserved" /\ Close(ProtocolError) /\ UNCHANGED got
    BY <1>1, <2>4, CloseKept, CodesAre
  <2> QED BY <1>4, <2>1, <2>2, <2>3, <2>4 DEF DispatchControl
<1> QED BY <1>2, <1>3, <1>4 DEF Dispatch

\* The parser writes at most a CLOSE while it reads a header.
LEMMA SendHeaderBytes ==
  ASSUME RecvTypes, SendInv, HeaderBytes
  PROVE  SendInv'
<1>1. got \in Seq(Messages) /\ closed \in BOOLEAN
  BY DEF RecvTypes
<1>2. UNCHANGED <<taken, got>>
  BY Zenon DEF HeaderBytes
<1>3. Quiet \/ Close(ProtocolError)
  BY Zenon DEF HeaderBytes
<1>4. CASE Quiet
  BY <1>1, <1>2, <1>4, QuietKept
<1>5. CASE Close(ProtocolError)
  BY <1>1, <1>2, <1>5, CloseKept, CodesAre
<1> QED BY <1>3, <1>4, <1>5

\* A turn of Payload: nothing is written before the frame is complete.
LEMMA SendPayload ==
  ASSUME RecvInv, SendInv, Payload
  PROVE  SendInv'
<1>1. RecvTypes /\ got \in Seq(Messages)
  BY DEF RecvInv, RecvTypes
<1>2. taken' = taken
  BY DEF Payload
<1>3. PICK s \in States, f \in ServerFrames, t \in States, e \in Nat, b \in Buffers : Filled(s, f, t, e, b)
  BY PayloadTurn
<1>4. (Quiet /\ got' = got) \/ Dispatch(b)
  BY <1>3 DEF Filled
<1> QED BY <1>1, <1>2, <1>4, QuietKept, SendDispatch

\* The invariant of the sending side holds at first.
LEMMA SendStarts ==
  ASSUME CwsInit
  PROVE  SendInv
<1>1. /\ closed = FALSE /\ out = <<>> /\ paused = FALSE /\ taken = <<>> /\ written = <<>> /\ got = <<>>
  BY DEF CwsInit
<1>2. /\ <<>> \in Seq(Bytes) /\ <<>> \in Seq(Messages) /\ Len(<<>>) = 0
  BY EmptySeq
<1>3. SendTypes
  BY <1>1, <1>2 DEF SendTypes
<1>4. NeverStuck
  BY <1>1 DEF NeverStuck
<1>5. CloseIsLast
  BY <1>1, <1>2 DEF CloseIsLast
<1>6. PingsAnswered
  <2>1. \A op : DataOf(<<>>, op) = FlattenSeq(<<>>)
    <3> TAKE op
    <3>1. 1..Len(<<>>) = {}
      BY <1>2
    <3>2. [k \in 1..Len(<<>>) |-> IF <<>>[k].op = op THEN <<<<>>[k].data>> ELSE <<>>] = <<>>
      BY <3>1
    <3> QED BY <3>2, Zenon DEF DataOf
  <2> QED BY <1>1, <2>1 DEF PingsAnswered
<1>7. \E e \in Places(written) : Placed(taken \o out, written, e)
  <2> DEFINE e == [k \in 1..1 |-> 1]
  <2>1. taken \o out = <<>>
    BY <1>1, <1>2, ConcatEmptySeq
  <2>2. Len(written) = 0
    BY <1>1, <1>2
  <2>3. e \in Places(written)
    BY <2>2 DEF Places
  <2>4. Placed(<<>>, written, e)
    BY <1>2, <2>2 DEF Placed
  <2> HIDE DEF e
  <2> QED BY <2>1, <2>3, <2>4
<1> QED BY <1>3, <1>4, <1>5, <1>6, <1>7 DEF SendInv

\* Every step of the connection keeps it.
LEMMA SendKept ==
  ASSUME RecvInv, SendInv, [CwsNext]_cwsVars
  PROVE  SendInv'
<1>1. RecvTypes /\ got \in Seq(Messages) /\ closed \in BOOLEAN
  BY DEF RecvInv, RecvTypes
<1>2. CASE Headers
  <2>1. Quiet /\ UNCHANGED <<taken, got>>
    BY <1>2 DEF Headers, sendVars, Quiet
  <2> QED BY <1>1, <2>1, QuietKept
<1>3. ASSUME NEW f \in ServerFrames, ServerSends(f) PROVE SendInv'
  <2>1. Quiet /\ UNCHANGED <<taken, got>>
    BY <1>3 DEF ServerSends, sendVars, Quiet
  <2> QED BY <1>1, <2>1, QuietKept
<1>4. ASSUME NEW n \in Pieces, Receive(n) PROVE SendInv'
  <2>1. Quiet /\ UNCHANGED <<taken, got>>
    BY <1>4 DEF Receive, sendVars, Quiet
  <2> QED BY <1>1, <2>1, QuietKept
<1>5. ASSUME NEW n \in Pieces, ReadCallback(n) PROVE SendInv'
  <2>1. SendData(n) /\ UNCHANGED <<closed, written, got>>
    BY <1>5 DEF ReadCallback
  <2> QED BY <2>1, SendTaken
<1>6. CASE HeaderBytes
  BY <1>1, <1>6, SendHeaderBytes
<1>7. CASE Payload
  BY <1>7, SendPayload
<1>8. ASSUME NEW msg \in UserMessages, UserSend(msg) PROVE SendInv'
  <2>1. Send("text", msg) /\ UNCHANGED <<closed, taken, got>>
    BY <1>8 DEF UserSend
  <2>2. msg \in Seq(Octets) /\ "text" \in Ops
    BY CwsAssumption DEF Ops, Data
  <2> QED BY <1>1, <2>1, <2>2, SaidKept
<1>9. CASE UserClose
  <2>1. Close(Goodbye) /\ UNCHANGED <<taken, got>>
    BY <1>9 DEF UserClose, Goodbye
  <2> QED BY <1>1, <2>1, CloseKept, CodesAre
<1>10. CASE UNCHANGED cwsVars
  <2>1. Quiet /\ UNCHANGED <<taken, got>>
    BY <1>10 DEF cwsVars, sendVars, Quiet
  <2> QED BY <1>1, <2>1, QuietKept
<1> QED BY <1>2, <1>3, <1>4, <1>5, <1>6, <1>7, <1>8, <1>9, <1>10 DEF CwsNext

\* Together the invariants are what they were made for.
LEMMA SendMeans ==
  ASSUME RecvInv, SendInv
  PROVE  WrittenAsAsked
<1>1. /\ taken \o out \in Seq(Bytes) /\ written \in Seq(Messages)
  BY ConcatProperties DEF SendInv, SendTypes
<1>2. SentAsWritten
  BY <1>1, PlacedIsRead DEF SendInv
<1>3. CwsTypeOK
  <2>1. /\ stage \in {"headers", "open", "refused"} /\ pc \in {"idle", "header", "payload"}
        /\ needed \in {2, 4, 10} /\ (pc = "idle" => chunk = <<>>)
        /\ fragOp \in Data \cup {None} /\ {accepted, closed, paused} \subseteq BOOLEAN
    BY DEF RecvInv, RecvTypes, SendInv, SendTypes
  <2>2. head \in Seq(Bytes) /\ Len(head) \in Nat
    <3>1. head \in Seq(Bytes)
      BY DEF RecvInv, RecvTypes
    <3> QED BY <3>1, LenProperties
  <2>3. CASE stage # "open"
    <3>1. head = <<>> /\ needed = 2 /\ Len(<<>>) = 0
      BY <2>3, EmptySeq DEF RecvInv, Fresh
    <3>2. Len(head) <= needed
      BY <3>1
    <3> QED BY <2>1, <3>2 DEF CwsTypeOK
  <2>4. CASE stage = "open"
    <3>1. PICK s \in States : Parses(s)
      BY <2>4 DEF RecvInv
    <3>2. Len(head) < needed \/ Len(head) = needed
      BY <3>1 DEF Parses, Between, InLength, InPayload
    <3>3. Len(head) <= needed
      BY <2>1, <2>2, <3>2
    <3> QED BY <2>1, <3>3 DEF CwsTypeOK
  <2> QED BY <2>3, <2>4
<1> QED BY <1>2, <1>3 DEF WrittenAsAsked, SendInv

(* The server reads, from one frame to the next, the messages that were     *)
(* written, each byte unmasked by its own key; every PING given to the user *)
(* has its PONG, nothing follows a CLOSE, and nothing waits in the buffer   *)
(* while the transfer is paused (_cws_send, _cws_write, _cws_send_data),    *)
(* whatever is sent, of any length, and however libcurl takes it.           *)
THEOREM WhatIsWrittenIsRead == CwsSpec => []WrittenAsAsked
<1>1. CwsInit => RecvInv /\ SendInv
  BY RecvStarts, SendStarts
<1>2. RecvInv /\ SendInv /\ [CwsNext]_cwsVars => (RecvInv /\ SendInv)'
  BY RecvKept, SendKept
<1>3. RecvInv /\ SendInv => WrittenAsAsked
  BY SendMeans
<1> QED BY <1>1, <1>2, <1>3, PTL DEF CwsSpec
=============================================================================
