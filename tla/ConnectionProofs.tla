--------------------------- MODULE ConnectionProofs ---------------------------
(***************************************************************************)
(* That requests which use one connection handle after another have        *)
(* nothing of each other, for every set of requests and of answers and     *)
(* every series of them.                                                   *)
(***************************************************************************)
EXTENDS Connection, QueueLemmas

-----------------------------------------------------------------------------
(* The inductive invariant *)

Symbols == Texts \cup {":", "CR", "LF", "orca", "user-agent"}
Lines   == [field : Texts, blanks : Seq(Texts), value : Seq(Texts)]
Slices  == [idx : Nat, size : Nat]
Pairs   == [field : Slices, value : Slices]
Buffers == [buf : Seq(Symbols), size : Nat, len : Nat]
Nodes   == [name : Symbols, value : Seq(Symbols), room : Nat]
Options == [custom : Methods \cup {NoMethod}, kind : {"GET", "POST", "MIMEPOST"},
            body : Seq(Texts), mime : {"none", "allocated", "freed"}]

\* The memory of a buffer is large enough, and what counts of it was written.
Sound(b) ==
  /\ b \in Buffers /\ b.len <= Len(b.buf)
  /\ b # EmptyBuffer => b.len + 1 <= b.size /\ Len(b.buf) <= b.size

\* The pairs are the places of the fields and values of some lines in a text.
Shows(text, pairs, lines) ==
  /\ Len(pairs) = Len(lines)
  /\ \A i \in 1..Len(lines) :
       /\ pairs[i].field.idx + pairs[i].field.size <= Len(text)
       /\ pairs[i].value.idx + pairs[i].value.size <= Len(text)
       /\ SliceOf(text, pairs[i].field) = <<lines[i].field>>
       /\ SliceOf(text, pairs[i].value) = lines[i].value

TypesInv ==
  /\ request \in Demands
  /\ url \in [text : Seq(Texts), size : Nat]
  /\ fields \in Seq(Nodes)
  /\ option \in Options
  /\ reply \in [code : Nat, lines : Seq(Lines), chunks : Seq(Seq(Texts))]
  /\ rcvd \in [header : Buffers, body : Buffers, pairs : Seq(Pairs)]
  /\ info.header \in Seq(Symbols) /\ info.pairs \in Seq(Pairs)

\* No field is there twice, and each has room for its value.
FieldsInv ==
  /\ \A i \in 1..Len(fields) : Len(fields[i].value) <= fields[i].room
  /\ \A i, j \in 1..Len(fields) : fields[i].name = fields[j].name => i = j

HasField == \E i \in 1..Len(fields) : fields[i].name = request.field /\ fields[i].value = request.value

UrlInv == url.text # <<>> => Len(url.text) + 1 <= url.size

\* What was stored are the first n lines and c chunks of answer a, and the rest of
\* it is still to come.
Came(a, n, c) ==
  /\ reply.code = a.code
  /\ reply.lines = SubSeq(a.lines, n + 1, Len(a.lines))
  /\ reply.chunks = SubSeq(a.chunks, c + 1, Len(a.chunks))
  /\ Shows(Within(rcvd.header), rcvd.pairs, WithColon(SubSeq(a.lines, 1, n)))
  /\ Within(rcvd.body) = FlattenSeq(SubSeq(a.chunks, 1, c))

Received ==
  \E a \in Answers : \E n \in 0..Len(a.lines), c \in 0..Len(a.chunks) : Came(a, n, c)

\* What the caller was given is a whole answer.
IsAnswer(i, a) ==
  /\ i.httpcode = a.code /\ i.code = OrcaCode(a.code) /\ i.called = Callback(a.code)
  /\ Shows(i.header, i.pairs, WithColon(a.lines)) /\ i.body = FlattenSeq(a.chunks)

InfoInv == info # NoInfo => \E a \in Answers : IsAnswer(info, a)

MomentInv ==
  /\ moment = "setup" => HasField
  /\ moment = "perform" => HasField /\ SentIsAsked
  /\ moment \in {"idle", "setup", "perform"} =>
       rcvd.header.len = 0 /\ rcvd.body.len = 0 /\ rcvd.pairs = <<>>
  /\ moment \in {"receive", "extract"} => Received
  /\ moment = "extract" => reply.lines = <<>> /\ reply.chunks = <<>>

HandleInv ==
  /\ TypesInv /\ FieldsInv /\ UrlInv /\ Sound(rcvd.header) /\ Sound(rcvd.body)
  /\ MomentInv /\ InfoInv

-----------------------------------------------------------------------------
(* Buffers *)

LEMMA WithinIs ==
  ASSUME NEW b, Sound(b)
  PROVE  Within(b) \in Seq(Symbols) /\ Len(Within(b)) = b.len
<1>1. b.buf \in Seq(Symbols) /\ b.len \in 0..Len(b.buf)
  BY DEF Sound, Buffers
<1>2. LET p == SubSeq(b.buf, 1, b.len) IN p \in Seq(Symbols) /\ Len(p) = b.len
  BY <1>1, SplitElems
<1> QED BY <1>2 DEF Within

LEMMA StoredIs ==
  ASSUME NEW b, Sound(b), NEW text \in Seq(Symbols)
  PROVE  /\ Sound(Stored(b, text)) /\ Within(Stored(b, text)) = Within(b) \o text
         /\ Stored(b, text).len = b.len + Len(text) /\ Stored(b, text) \in Buffers
<1> DEFINE k == Stored(b, text)
           p == SubSeq(b.buf, 1, b.len)
           n == b.len + Len(text)
           r == SubSeq(b.buf, b.len + Len(text) + 1, Len(b.buf))
           buf == p \o text \o r
<1>1. /\ b.buf \in Seq(Symbols) /\ b.len \in Nat /\ b.len <= Len(b.buf) /\ b.size \in Nat
      /\ Len(text) \in Nat /\ n \in Nat /\ n = b.len + Len(text) /\ Len(b.buf) \in Nat
  BY DEF Sound, Buffers
<1>2. p \in Seq(Symbols) /\ Len(p) = b.len /\ p = Within(b)
  <2>1. p = Within(b)
    BY DEF Within
  <2> QED BY <2>1, WithinIs
<1>3. r \in Seq(Symbols) /\ Len(r) = IF n + 1 <= Len(b.buf) THEN Len(b.buf) - n ELSE 0
  <2>1. \A i \in n + 1..Len(b.buf) : b.buf[i] \in Symbols
    <3>1. \A i \in n + 1..Len(b.buf) : i \in 1..Len(b.buf)
      BY <1>1
    <3> QED BY <1>1, <3>1
  <2>2. n + 1 \in Int /\ Len(b.buf) \in Int
    BY <1>1
  <2> DEFINE m == n + 1
             o == Len(b.buf)
             f == b.buf
             u == SubSeq(f, m, o)
  <2>3. \A i \in m..o : f[i] \in Symbols
    BY <2>1
  <2> HIDE DEF m, o, f
  <2>4. u \in Seq(Symbols) /\ Len(u) = IF m <= o THEN o - m + 1 ELSE 0
    BY <2>2, <2>3, SubSeqProperties DEF m, o
  <2> QED BY <1>1, <2>4 DEF m, o, f
<1>4. /\ k.buf = buf /\ k.len = n /\ k.size = (IF b.size < n + 1 THEN n + 1 ELSE b.size)
      /\ k = [buf |-> buf, len |-> n, size |-> k.size]
  BY DEF Stored
<1> HIDE DEF k, p, r, n
<1>5. p \o text \in Seq(Symbols) /\ Len(p \o text) = n
  BY <1>1, <1>2
<1>6. buf \in Seq(Symbols) /\ Len(buf) = n + Len(r)
  <2> DEFINE a == p \o text
  <2> HIDE DEF a
  <2>1. a \in Seq(Symbols) /\ Len(a) = n
    BY <1>5 DEF a
  <2>2. a \o r \in Seq(Symbols) /\ Len(a \o r) = n + Len(r)
    BY <1>3, <2>1, ConcatProperties
  <2> QED BY <2>2 DEF a
<1>7. SubSeq(buf, 1, n) = p \o text
  <2> DEFINE a == p \o text
  <2>1. a \in Seq(Symbols) /\ Len(a) = n
    BY <1>5
  <2> HIDE DEF a
  <2>2. SubSeq(a \o r, 0 + 1, 0 + n) = SubSeq(a, 0 + 1, 0 + n)
    <3>1. 0 \in Nat /\ n \in Nat /\ 0 + n <= Len(a)
      BY <1>1, <2>1
    <3> QED BY <1>3, <2>1, <3>1, SliceKept
  <2>3. SubSeq(a, 1, n) = a
    BY <2>1, SubSeqFull
  <2>4. 0 + 1 = 1 /\ 0 + n = n
    BY <1>1
  <2> QED BY <2>2, <2>3, <2>4 DEF a
<1> HIDE DEF buf
<1>8. k \in Buffers /\ k.len <= Len(k.buf)
  <2>1. k.size \in Nat /\ Len(r) \in Nat
    BY <1>1, <1>3, <1>4
  <2>2. k \in Buffers
    BY <1>1, <1>4, <1>6, <2>1 DEF Buffers
  <2> QED BY <1>1, <1>4, <1>6, <2>1, <2>2
<1>9. k.len + 1 <= k.size
  BY <1>1, <1>4
<1>10. Len(k.buf) <= k.size
  <2>1. CASE n + 1 <= Len(b.buf)
    <3>1. b # EmptyBuffer
      <4>1. b = EmptyBuffer => Len(b.buf) = 0
        BY DEF EmptyBuffer
      <4> QED BY <1>1, <2>1, <4>1
    <3>2. Len(b.buf) <= b.size
      BY <3>1 DEF Sound
    <3>3. Len(buf) = Len(b.buf)
      BY <1>1, <1>3, <1>6, <2>1
    <3>4. b.size <= k.size
      BY <1>1, <1>4
    <3>5. k.size \in Nat
      BY <1>8 DEF Buffers
    <3> QED BY <1>1, <1>4, <3>2, <3>3, <3>4, <3>5
  <2>2. CASE ~(n + 1 <= Len(b.buf))
    BY <1>1, <1>3, <1>4, <1>6, <2>2
  <2> QED BY <2>1, <2>2
<1>11. Within(k) = Within(b) \o text
  BY <1>2, <1>4, <1>7 DEF Within
<1> QED BY <1>1, <1>4, <1>8, <1>9, <1>10, <1>11 DEF Sound, k

-----------------------------------------------------------------------------
(* Lines *)

Named(f) == f # ""

\* What a line adds to those that have a field.
Kept(line) == IF line.field = "" THEN <<>> ELSE <<line>>

LEMMA KeptIs == \A line \in Lines : Kept(line) \in Seq(Lines)
<1> TAKE line \in Lines
<1> HIDE DEF Lines
<1>1. <<>> \in Seq(Lines) /\ <<line>> \in Seq(Lines)
  OBVIOUS
<1> QED BY <1>1 DEF Kept

LEMMA WithColonIs ==
  /\ WithColon(<<>>) = <<>>
  /\ \A s \in Seq(Lines) : WithColon(s) \in Seq(Lines)
  /\ \A s \in Seq(Lines), x \in Lines : WithColon(Append(s, x)) = WithColon(s) \o Kept(x)
<1> DEFINE K(s) == [i \in DOMAIN s |-> Kept(s[i])]
<1>1. \A s : WithColon(s) = FlattenSeq(K(s))
  BY DEF WithColon, Kept
<1>2. K(<<>>) = <<>>
  OBVIOUS
<1>3. ASSUME NEW s \in Seq(Lines)
      PROVE  K(s) \in Seq(Seq(Lines)) /\ Len(K(s)) = Len(s)
  <2>1. \A i \in 1..Len(s) : Kept(s[i]) \in Seq(Lines)
    BY KeptIs
  <2>2. DOMAIN s = 1..Len(s) /\ Len(s) \in Nat
    BY LenProperties
  <2> DEFINE T == Seq(Lines)
             k == [i \in 1..Len(s) |-> Kept(s[i])]
  <2> HIDE DEF T
  <2>3. \A i \in 1..Len(s) : Kept(s[i]) \in T
    BY <2>1 DEF T
  <2>4. k \in Seq(T)
    BY <2>2, <2>3, IsASeq
  <2>5. DOMAIN k = 1..Len(s)
    OBVIOUS
  <2>6. k = K(s)
    BY <2>2
  <2> HIDE DEF k
  <2>7. Len(k) = Len(s)
    BY <2>2, <2>4, <2>5, LenProperties
  <2> QED BY <2>4, <2>6, <2>7 DEF T
<1>4. ASSUME NEW s \in Seq(Lines), NEW x \in Lines PROVE K(Append(s, x)) = Append(K(s), Kept(x))
  <2> DEFINE T == Seq(Lines)
             t == Append(s, x)
             u == Append(K(s), Kept(x))
  <2>1. /\ t \in Seq(Lines) /\ Len(t) = Len(s) + 1 /\ t[Len(s) + 1] = x /\ Len(s) \in Nat
        /\ \A i \in 1..Len(s) : t[i] = s[i]
    BY AppendProperties, LenProperties
  <2>2. Kept(x) \in T
    BY KeptIs
  <2>3. K(s) \in Seq(T) /\ Len(K(s)) = Len(s) /\ K(t) \in Seq(T) /\ Len(K(t)) = Len(t)
    BY <1>3, <2>1
  <2> HIDE DEF T, t
  <2>4. /\ u \in Seq(T) /\ Len(u) = Len(s) + 1 /\ u[Len(s) + 1] = Kept(x)
        /\ \A i \in 1..Len(s) : u[i] = K(s)[i]
    <3> DEFINE k == K(s)
    <3>1. k \in Seq(T) /\ Len(k) = Len(s)
      BY <2>3
    <3> HIDE DEF k
    <3>2. /\ Append(k, Kept(x)) \in Seq(T) /\ Len(Append(k, Kept(x))) = Len(s) + 1
          /\ Append(k, Kept(x))[Len(s) + 1] = Kept(x)
          /\ \A i \in 1..Len(s) : Append(k, Kept(x))[i] = k[i]
      BY <2>2, <3>1, AppendProperties
    <3> QED BY <3>2 DEF k
  <2>5. \A i \in 1..Len(s) + 1 : K(t)[i] = Kept(t[i])
    <3>1. DOMAIN t = 1..Len(s) + 1
      BY <2>1, LenProperties
    <3> QED BY <3>1
  <2>6. \A i \in 1..Len(s) : K(s)[i] = Kept(s[i])
    <3>1. DOMAIN s = 1..Len(s)
      BY LenProperties
    <3> QED BY <3>1
  <2> HIDE DEF u, K
  <2>7. \A i \in 1..Len(K(t)) : K(t)[i] = u[i]
    <3> TAKE i \in 1..Len(K(t))
    <3>1. CASE i = Len(s) + 1
      BY <2>1, <2>4, <2>5, <3>1
    <3>2. CASE i # Len(s) + 1
      <4>1. i \in 1..Len(s) /\ i \in 1..Len(s) + 1
        BY <2>1, <2>3, <3>2
      <4> QED BY <2>1, <2>4, <2>5, <2>6, <4>1
    <3> QED BY <3>1, <3>2
  <2>8. K(t) = u
    BY <2>1, <2>3, <2>4, <2>7, SeqEqual
  <2> QED BY <2>8 DEF t, u
<1> HIDE DEF K
<1>5. WithColon(<<>>) = <<>>
  BY <1>1, <1>2, FlattenNone
<1>6. \A s \in Seq(Lines) : WithColon(s) \in Seq(Lines)
  <2> TAKE s \in Seq(Lines)
  <2>1. K(s) \in Seq(Seq(Lines)) /\ <<>> \in Seq(Lines)
    BY <1>3
  <2>2. FlattenSeq(K(s)) \in Seq(Lines)
    BY <2>1, FlattenAppend
  <2> QED BY <1>1, <2>2
<1>7. \A s \in Seq(Lines), x \in Lines : WithColon(Append(s, x)) = WithColon(s) \o Kept(x)
  <2> TAKE s \in Seq(Lines), x \in Lines
  <2>1. K(s) \in Seq(Seq(Lines)) /\ Kept(x) \in Seq(Lines)
    BY <1>3, KeptIs
  <2>2. FlattenSeq(Append(K(s), Kept(x))) = FlattenSeq(K(s)) \o Kept(x)
    BY <2>1, FlattenAppend
  <2> QED BY <1>1, <1>4, <2>2
<1> QED BY <1>5, <1>6, <1>7

LEMMA Joined ==
  ASSUME NEW S, NEW a \in Seq(S), NEW b \in Seq(S)
  PROVE  a \o b \in Seq(S) /\ Len(a \o b) = Len(a) + Len(b)
BY ConcatProperties

\* A part of what follows a text, counted from its beginning.
LEMMA SliceMoved ==
  ASSUME NEW S, NEW t \in Seq(S), NEW a \in Seq(S), NEW i \in Nat, NEW l \in Nat, i + l <= Len(a)
  PROVE  SubSeq(t \o a, Len(t) + i + 1, Len(t) + i + l) = SubSeq(a, i + 1, i + l)
<1>1. Len(t) \in Nat /\ Len(a) \in Nat
  OBVIOUS
<1>2. CASE l = 0
  <2>1. i + l < i + 1 /\ Len(t) + i + l < Len(t) + i + 1
    BY <1>1, <1>2
  <2>2. /\ i + 1 \in Int /\ i + l \in Int /\ Len(t) + i + 1 \in Int /\ Len(t) + i + l \in Int
    BY <1>1
  <2> QED BY <2>1, <2>2, SubSeqEmpty
<1>3. CASE l # 0
  <2> DEFINE m == Len(t) + i + 1
             n == Len(t) + i + l
  <2>1. /\ m \in Len(t)+1..Len(t)+Len(a) /\ n \in Len(t)+1..Len(t)+Len(a)
        /\ m - Len(t) = i + 1 /\ n - Len(t) = i + l
    BY <1>1, <1>3
  <2> HIDE DEF m, n
  <2>2. SubSeq(t \o a, m, n) = SubSeq(a, m - Len(t), n - Len(t))
    BY <2>1, SubSeqOfConcat2
  <2> QED BY <2>1, <2>2 DEF m, n
<1> QED BY <1>2, <1>3

LEMMA TwoPieces == \A x, y : <<x>> \o <<y>> = <<x, y>>
<1> TAKE x, y
<1> DEFINE S == {x, y}
           s == <<x>> \o <<y>>
<1>1. <<x>> \in Seq(S) /\ <<y>> \in Seq(S) /\ <<x, y>> \in Seq(S)
  OBVIOUS
<1>2. s \in Seq(S) /\ Len(s) = 2
  BY <1>1, ConcatProperties
<1>3. s[1] = x /\ s[2] = y
  BY <1>1, ConcatProperties
<1> HIDE DEF s, S
<1>4. \A i \in 1..Len(s) : s[i] = <<x, y>>[i]
  BY <1>2, <1>3
<1> QED BY <1>1, <1>2, <1>4, SeqEqual DEF s

\* The parts of a line at the end of a text.
LEMMA LineParts ==
  ASSUME NEW t \in Seq(Symbols), NEW line \in Lines, NEW more,
         more = <<line.field, ":">> \o line.blanks \o line.value \o <<"CR", "LF">>
  PROVE  LET at   == Len(t) + (2 + Len(line.blanks))
         IN  /\ more \in Seq(Symbols)
             /\ Len(t \o more) = at + Len(line.value) + 2
             /\ SubSeq(t \o more, Len(t) + 1, Len(t) + 1) = <<line.field>>
             /\ SubSeq(t \o more, at + 1, at + Len(line.value)) = line.value
<1>1. /\ <<line.field>> \in Seq(Symbols) /\ <<":">> \in Seq(Symbols) /\ <<"CR", "LF">> \in Seq(Symbols)
      /\ line.blanks \in Seq(Symbols) /\ line.value \in Seq(Symbols)
  <2>1. Texts \subseteq Symbols /\ {":", "CR", "LF"} \subseteq Symbols
    BY DEF Symbols
  <2>2. line.field \in Texts /\ line.blanks \in Seq(Texts) /\ line.value \in Seq(Texts)
    BY DEF Lines
  <2>3. line.blanks \in Seq(Symbols) /\ line.value \in Seq(Symbols)
    BY <2>1, <2>2, SeqMonotonic
  <2> QED BY <2>1, <2>2, <2>3
<1>2. PICK f \in Seq(Symbols), c \in Seq(Symbols), e \in Seq(Symbols) :
        /\ f = <<line.field>> /\ c = <<":">> /\ e = <<"CR", "LF">>
        /\ Len(f) = 1 /\ Len(c) = 1 /\ Len(e) = 2
  BY <1>1
<1>3. f \o c = <<line.field, ":">>
  <2>1. <<line.field>> \o <<":">> = <<line.field, ":">>
    BY TwoPieces, Zenon
  <2> QED BY <1>2, <2>1, Zenon
<1>4. PICK b \in Seq(Symbols), v \in Seq(Symbols) : b = line.blanks /\ v = line.value
  BY <1>1
<1>5. more = (((f \o c) \o b) \o v) \o e
  BY <1>2, <1>4, <1>3, Zenon
<1>6. PICK fc \in Seq(Symbols) : fc = f \o c /\ Len(fc) = Len(f) + Len(c)
  BY Joined
<1>7. PICK w \in Seq(Symbols) : w = fc \o b /\ Len(w) = Len(fc) + Len(b)
  BY Joined
<1>8. PICK wv \in Seq(Symbols) : wv = w \o v /\ Len(wv) = Len(w) + Len(v)
  BY Joined
<1>9. more = wv \o e
  BY <1>5, <1>6, <1>7, <1>8, Zenon
<1>10. PICK m \in Seq(Symbols) : m = wv \o e /\ Len(m) = Len(wv) + Len(e)
  BY Joined
<1>11. Len(t \o m) = Len(t) + Len(m)
  BY <1>10, Joined
<1>12. /\ Len(t) \in Nat /\ Len(f) \in Nat /\ Len(c) \in Nat /\ Len(b) \in Nat /\ Len(v) \in Nat
      /\ Len(e) \in Nat
  OBVIOUS
<1>13. Len(t \o m) = Len(t) + Len(f) + Len(c) + Len(b) + Len(v) + Len(e)
  BY <1>6, <1>7, <1>8, <1>10, <1>11, <1>12
<1>14. SubSeq(m, 0 + 1, 0 + Len(f)) = f
  <2>9. 0 \in Nat /\ 0 + Len(f) = Len(f) /\ Len(f) <= Len(fc) /\ Len(f) <= Len(w) /\ Len(f) <= Len(wv)
    BY <1>6, <1>7, <1>8, <1>12
  <2>1. SubSeq(wv \o e, 0 + 1, 0 + Len(f)) = SubSeq(wv, 0 + 1, 0 + Len(f))
    BY <1>12, <2>9, SliceKept
  <2>2. SubSeq(w \o v, 0 + 1, 0 + Len(f)) = SubSeq(w, 0 + 1, 0 + Len(f))
    BY <1>12, <2>9, SliceKept
  <2>3. SubSeq(fc \o b, 0 + 1, 0 + Len(f)) = SubSeq(fc, 0 + 1, 0 + Len(f))
    BY <1>12, <2>9, SliceKept
  <2>4. SubSeq(f \o c, 0 + 1, 0 + Len(f)) = SubSeq(f, 0 + 1, 0 + Len(f))
    BY <1>12, <2>9, SliceKept
  <2>5. SubSeq(f, 0 + 1, 0 + Len(f)) = f
    BY <2>9, SubSeqFull
  <2> QED BY <1>6, <1>7, <1>8, <1>10, <2>1, <2>2, <2>3, <2>4, <2>5
<1>15. \A i, l \in Nat : i + l <= Len(m) =>
         SubSeq(t \o m, Len(t) + i + 1, Len(t) + i + l) = SubSeq(m, i + 1, i + l)
  <2> TAKE i, l \in Nat
  <2> HAVE i + l <= Len(m)
  <2> QED BY SliceMoved
<1>16. SubSeq(t \o m, Len(t) + 1, Len(t) + Len(f)) = f
  <2>1. 0 \in Nat /\ 0 + Len(f) <= Len(m)
    BY <1>6, <1>7, <1>8, <1>10, <1>12
  <2>2. SubSeq(t \o m, Len(t) + 0 + 1, Len(t) + 0 + Len(f)) = SubSeq(m, 0 + 1, 0 + Len(f))
    BY <1>15, <1>12, <2>1
  <2>3. Len(t) + 0 = Len(t)
    BY <1>12
  <2> QED BY <1>14, <2>2, <2>3
<1>17. SubSeq(t \o m, Len(t) + Len(w) + 1, Len(t) + Len(w) + Len(v)) = v
  <2>1. 0 \in Nat /\ 0 + Len(v) <= Len(v) /\ Len(w) + 0 = Len(w) /\ Len(w) \in Nat /\ 0 + Len(v) = Len(v)
    BY <1>12
  <2>2. SubSeq(w \o v, Len(w) + 0 + 1, Len(w) + 0 + Len(v)) = SubSeq(v, 0 + 1, 0 + Len(v))
    BY <1>12, <2>1, SliceMoved
  <2>3. SubSeq(v, 0 + 1, 0 + Len(v)) = v
    BY <2>1, SubSeqFull
  <2>4. Len(w) + Len(v) <= Len(wv) /\ Len(w) + Len(v) <= Len(m)
    BY <1>8, <1>10, <1>12, <2>1
  <2>5. SubSeq(wv \o e, Len(w) + 1, Len(w) + Len(v)) = SubSeq(wv, Len(w) + 1, Len(w) + Len(v))
    BY <1>12, <2>1, <2>4, SliceKept
  <2>6. SubSeq(t \o m, Len(t) + Len(w) + 1, Len(t) + Len(w) + Len(v)) = SubSeq(m, Len(w) + 1, Len(w) + Len(v))
    BY <1>15, <1>12, <2>1, <2>4
  <2> QED BY <1>8, <1>10, <2>1, <2>2, <2>3, <2>5, <2>6
<1>18. Len(t) + (2 + Len(b)) = Len(t) + Len(w)
  BY <1>6, <1>7, <1>2, <1>12
<1>19. SubSeq(t \o m, Len(t) + (2 + Len(b)) + 1, Len(t) + (2 + Len(b)) + Len(v)) = v
  BY <1>17, <1>18
<1>20. Len(t \o m) = Len(t) + (2 + Len(b)) + Len(v) + 2
  BY <1>12, <1>13, <1>2
<1>21. SubSeq(t \o m, Len(t) + 1, Len(t) + 1) = <<line.field>>
  BY <1>16, <1>2
<1>22. m = more
  BY <1>9, <1>10
<1> QED BY <1>19, <1>20, <1>21, <1>22, <1>4

\* A line that is stored at the end of a text is shown by its pair, and what was
\* shown before still is.
LEMMA LineShown ==
  ASSUME NEW text \in Seq(Symbols), NEW pairs \in Seq(Pairs), NEW ls \in Seq(Lines),
         NEW line \in Lines, Shows(text, pairs, ls)
  PROVE  /\ PairOf(Len(text), line) \in Pairs
         /\ Named(line.field) =>
              /\ LineOf(line) \in Seq(Symbols)
              /\ Shows(text \o LineOf(line), Append(pairs, PairOf(Len(text), line)), Append(ls, line))
<1> DEFINE f == <<line.field>>
           c == <<":">>
           b == line.blanks
           v == line.value
           e == <<"CR", "LF">>
           n == Len(text)
           pair == PairOf(n, line)
           more == LineOf(line)
           all == text \o more
           ps == Append(pairs, pair)
           lines == Append(ls, line)
<1>1. /\ f \in Seq(Symbols) /\ c \in Seq(Symbols) /\ e \in Seq(Symbols) /\ b \in Seq(Symbols)
      /\ v \in Seq(Symbols) /\ n \in Nat /\ Len(b) \in Nat /\ Len(v) \in Nat
      /\ Len(f) = 1 /\ Len(c) = 1 /\ <<line.field, ":">> = f \o c
  <2>1. Texts \subseteq Symbols /\ {":", "CR", "LF"} \subseteq Symbols
    BY DEF Symbols
  <2>2. line.field \in Texts /\ b \in Seq(Texts) /\ v \in Seq(Texts)
    BY DEF Lines
  <2>3. b \in Seq(Symbols) /\ v \in Seq(Symbols)
    BY <2>1, <2>2, SeqMonotonic
  <2> QED BY <2>1, <2>2, <2>3
<1>2. pair = [field |-> [idx |-> n, size |-> 1], value |-> [idx |-> n + (2 + Len(b)), size |-> Len(v)]]
  BY DEF PairOf
<1>3. pair \in Pairs
  BY <1>1, <1>2 DEF Pairs, Slices
<1>4. Named(line.field) => /\ more \in Seq(Symbols)
                          /\ Len(all) = n + (2 + Len(b)) + Len(v) + 2
                          /\ SubSeq(all, n + 1, n + 1) = f
                          /\ SubSeq(all, n + (2 + Len(b)) + 1, n + (2 + Len(b)) + Len(v)) = v
  <2>1. Named(line.field) => LineOf(line) = <<line.field, ":">> \o line.blanks \o line.value \o <<"CR", "LF">>
    BY Zenon DEF LineOf, Named
  <2> DEFINE long == <<line.field, ":">> \o line.blanks \o line.value \o <<"CR", "LF">>
  <2>2. /\ long \in Seq(Symbols)
        /\ Len(text \o long) = n + (2 + Len(b)) + Len(v) + 2
        /\ SubSeq(text \o long, n + 1, n + 1) = f
        /\ SubSeq(text \o long, n + (2 + Len(b)) + 1, n + (2 + Len(b)) + Len(v)) = v
    BY LineParts
  <2> QED BY <2>1, <2>2, Zenon
<1> HIDE DEF f, c, b, v, e, n, pair, more
<1>8. ASSUME Named(line.field) PROVE more \in Seq(Symbols) /\ Shows(all, ps, lines)
  <2> DEFINE at == n + (2 + Len(b))
  <2>2. /\ more \in Seq(Symbols)
        /\ Len(all) = n + (2 + Len(b)) + Len(v) + 2
        /\ SubSeq(all, n + 1, n + 1) = f
        /\ SubSeq(all, at + 1, at + Len(v)) = v
    BY <1>4, <1>8
  <2> HIDE DEF all
  <2>9. SliceOf(all, pair.field) = <<line.field>> /\ SliceOf(all, pair.value) = line.value
    <3>1. pair.field.idx = n /\ pair.field.size = 1 /\ pair.value.idx = at /\ pair.value.size = Len(v)
      BY <1>2
    <3>2. SubSeq(all, pair.value.idx + 1, pair.value.idx + pair.value.size) = v
      BY <2>2, <3>1
    <3>3. SubSeq(all, pair.field.idx + 1, pair.field.idx + pair.field.size) = f
      BY <2>2, <3>1
    <3> QED BY <3>2, <3>3 DEF SliceOf, f, v
  <2>10. /\ pair.field.idx + pair.field.size <= Len(all)
         /\ pair.value.idx + pair.value.size <= Len(all)
    BY <1>1, <1>2, <2>2
  <2>11. ASSUME NEW s \in Slices, s.idx + s.size <= n
         PROVE  SliceOf(all, s) = SliceOf(text, s) /\ s.idx + s.size <= Len(all)
    <3>1. s.idx \in Nat /\ s.size \in Nat
      BY DEF Slices
    <3>2. SubSeq(all, s.idx + 1, s.idx + s.size) = SubSeq(text, s.idx + 1, s.idx + s.size)
      BY <2>2, <2>11, <3>1, SliceKept DEF n, all
    <3>3. s.idx + s.size <= Len(all)
      BY <1>1, <2>2, <2>11, <3>1
    <3> QED BY <3>2, <3>3 DEF SliceOf
  <2>12. /\ Len(ps) = Len(pairs) + 1 /\ Len(lines) = Len(ls) + 1 /\ Len(pairs) = Len(ls) /\ Len(ls) \in Nat
         /\ ps[Len(ls) + 1] = pair /\ lines[Len(ls) + 1] = line
         /\ \A i \in 1..Len(ls) : ps[i] = pairs[i] /\ lines[i] = ls[i] /\ pairs[i] \in Pairs
    BY <1>3 DEF Shows
  <2> HIDE DEF ps, lines
  <2>13. ASSUME NEW i \in 1..Len(lines)
         PROVE  /\ ps[i].field.idx + ps[i].field.size <= Len(all)
                /\ ps[i].value.idx + ps[i].value.size <= Len(all)
                /\ SliceOf(all, ps[i].field) = <<lines[i].field>>
                /\ SliceOf(all, ps[i].value) = lines[i].value
    <3>1. CASE i = Len(ls) + 1
      BY <2>9, <2>10, <2>12, <3>1
    <3>2. CASE i # Len(ls) + 1
      <4>1. i \in 1..Len(ls)
        BY <2>12, <3>2
      <4>2. pairs[i].field \in Slices /\ pairs[i].value \in Slices
        BY <2>12, <4>1 DEF Pairs
      <4>3. /\ pairs[i].field.idx + pairs[i].field.size <= n
            /\ pairs[i].value.idx + pairs[i].value.size <= n
            /\ SliceOf(text, pairs[i].field) = <<ls[i].field>>
            /\ SliceOf(text, pairs[i].value) = ls[i].value
        BY <4>1 DEF Shows, n
      <4> QED BY <2>11, <2>12, <4>1, <4>2, <4>3
    <3> QED BY <3>1, <3>2
  <2> QED BY <2>2, <2>12, <2>13 DEF Shows
<1> QED BY <1>3, <1>8 DEF n, pair, more

-----------------------------------------------------------------------------
(* The first element of a kind *)

LEMMA MinIs ==
  ASSUME NEW I, I \subseteq Nat, I # {}
  PROVE  Min(I) \in I /\ \A i \in I : Min(I) <= i
<1>1. \E x \in I : \A y \in I : x <= y
  BY HasMin
<1> QED BY <1>1 DEF Min

\* The first line with a field has this value.
FirstHas(lines, field, value) ==
  \E j \in 1..Len(lines) :
    /\ lines[j].field = field /\ lines[j].value = value
    /\ \A i \in 1..Len(lines) : lines[i].field = field => j <= i

\* No line has the field.
NoneHas(lines, field) == \A i \in 1..Len(lines) : lines[i].field # field

LEMMA FirstStays ==
  ASSUME NEW s \in Seq(Lines), NEW t \in Seq(Lines), NEW f, NEW v, FirstHas(s, f, v)
  PROVE  FirstHas(s \o t, f, v)
<1>1. /\ Len(s \o t) = Len(s) + Len(t) /\ Len(s) \in Nat /\ Len(t) \in Nat
      /\ \A i \in 1..Len(s) : (s \o t)[i] = s[i]
  BY ConcatProperties
<1>2. PICK j \in 1..Len(s) :
        /\ s[j].field = f /\ s[j].value = v
        /\ \A i \in 1..Len(s) : s[i].field = f => j <= i
  BY DEF FirstHas
<1> DEFINE u == s \o t
<1> HIDE DEF u
<1>3. j \in 1..Len(u) /\ u[j].field = f /\ u[j].value = v
  BY <1>1, <1>2 DEF u
<1>4. ASSUME NEW i \in 1..Len(u), u[i].field = f PROVE j <= i
  <2>1. CASE i \in 1..Len(s)
    BY <1>1, <1>2, <1>4, <2>1 DEF u
  <2>2. CASE i \notin 1..Len(s)
    BY <1>1, <1>2, <2>2 DEF u
  <2> QED BY <2>1, <2>2
<1> QED BY <1>3, <1>4 DEF FirstHas, u

LEMMA FirstComes ==
  ASSUME NEW s \in Seq(Lines), NEW line \in Lines, NEW f, NoneHas(s, f), line.field = f
  PROVE  FirstHas(Append(s, line), f, line.value)
<1>1. /\ Len(Append(s, line)) = Len(s) + 1 /\ Len(s) \in Nat /\ Append(s, line)[Len(s) + 1] = line
      /\ \A i \in 1..Len(s) : Append(s, line)[i] = s[i]
  BY AppendProperties
<1> DEFINE u == Append(s, line)
<1> HIDE DEF u
<1>2. ASSUME NEW i \in 1..Len(u), u[i].field = f PROVE Len(s) + 1 <= i
  BY <1>1, <1>2 DEF u, NoneHas
<1>3. Len(s) + 1 \in 1..Len(u) /\ u[Len(s) + 1].field = f /\ u[Len(s) + 1].value = line.value
  BY <1>1 DEF u
<1> QED BY <1>2, <1>3 DEF FirstHas, u

LEMMA NoneStays ==
  ASSUME NEW s \in Seq(Lines), NEW line \in Lines, NEW f
  PROVE  NoneHas(Append(s, line), f) <=> NoneHas(s, f) /\ line.field # f
<1>1. /\ Len(Append(s, line)) = Len(s) + 1 /\ Len(s) \in Nat /\ Append(s, line)[Len(s) + 1] = line
      /\ \A i \in 1..Len(s) : Append(s, line)[i] = s[i]
  BY AppendProperties
<1> DEFINE u == Append(s, line)
<1> HIDE DEF u
<1>2. ASSUME NoneHas(u, f) PROVE NoneHas(s, f) /\ line.field # f
  BY <1>1, <1>2 DEF u, NoneHas
<1>3. ASSUME NoneHas(s, f), line.field # f PROVE NoneHas(u, f)
  BY <1>1, <1>3 DEF u, NoneHas
<1> QED BY <1>2, <1>3 DEF u

\* What is first after a line came was first before, or is this line.
LEMMA FirstBefore ==
  ASSUME NEW s \in Seq(Lines), NEW line \in Lines, NEW f, NEW v, FirstHas(Append(s, line), f, v)
  PROVE  FirstHas(s, f, v) \/ (NoneHas(s, f) /\ line.field = f /\ line.value = v)
<1>1. /\ Len(Append(s, line)) = Len(s) + 1 /\ Len(s) \in Nat /\ Append(s, line)[Len(s) + 1] = line
      /\ \A i \in 1..Len(s) : Append(s, line)[i] = s[i]
  BY AppendProperties
<1> DEFINE u == Append(s, line)
<1> HIDE DEF u
<1>2. PICK j \in 1..Len(u) :
        /\ u[j].field = f /\ u[j].value = v
        /\ \A i \in 1..Len(u) : u[i].field = f => j <= i
  BY DEF FirstHas, u
<1>3. CASE j \in 1..Len(s)
  <2>1. \A i \in 1..Len(s) : s[i].field = f => j <= i
    BY <1>1, <1>2 DEF u
  <2>2. s[j].field = f /\ s[j].value = v
    BY <1>1, <1>2, <1>3 DEF u
  <2>3. \E k \in 1..Len(s) :
          /\ s[k].field = f /\ s[k].value = v
          /\ \A i \in 1..Len(s) : s[i].field = f => k <= i
    BY <1>3, <2>1, <2>2
  <2>4. FirstHas(s, f, v)
    BY <2>3 DEF FirstHas
  <2> QED BY <2>4
<1>4. CASE j \notin 1..Len(s)
  <2>1. j = Len(s) + 1
    BY <1>1, <1>4 DEF u
  <2>2. ASSUME NEW i \in 1..Len(s) PROVE s[i].field # f
    BY <1>1, <1>2, <2>1 DEF u
  <2>3. line.field = f /\ line.value = v
    BY <1>1, <1>2, <2>1 DEF u
  <2> QED BY <2>2, <2>3 DEF NoneHas
<1> QED BY <1>3, <1>4

\* Lines without a field are left out and nothing else is: what is first stays first.
FirstIsKept(lines, f, v) ==
  /\ NoneHas(lines, f) => NoneHas(WithColon(lines), f)
  /\ FirstHas(lines, f, v) => FirstHas(WithColon(lines), f, v)

LEMMA LastOf ==
  ASSUME NEW t \in Seq(Lines), NEW n \in Nat, Len(t) = n + 1
  PROVE  \E r \in Seq(Lines), x \in Lines : t = Append(r, x) /\ Len(r) = n
<1>1. n + 1 \in 1..Len(t) /\ 1 \in 1..Len(t) /\ (n + 1) - 1 = n /\ n \in 0..Len(t)
  OBVIOUS
<1>2. t = SubSeq(t, 1, n + 1) /\ t[n + 1] \in Lines
  BY <1>1, SubSeqFull
<1>3. SubSeq(t, 1, n + 1) = SubSeq(t, 1, (n + 1) - 1) \o <<t[n + 1]>>
  BY <1>1, SubSeqRecursiveSecond
<1>4. SubSeq(t, 1, n) \in Seq(Lines) /\ Len(SubSeq(t, 1, n)) = n
  BY <1>1, SplitElems
<1>5. SubSeq(t, 1, n) \o <<t[n + 1]>> = Append(SubSeq(t, 1, n), t[n + 1])
  BY <1>2, <1>4, AppendIsConcat
<1> QED BY <1>1, <1>2, <1>3, <1>4, <1>5

LEMMA FirstKept ==
  ASSUME NEW f \in Texts, Named(f), NEW v
  PROVE  \A s \in Seq(Lines) : FirstIsKept(s, f, v)
<1> DEFINE P == {n \in Nat : \A t \in Seq(Lines) : Len(t) = n => FirstIsKept(t, f, v)}
<1>1. 0 \in P
  <2>1. ASSUME NEW t \in Seq(Lines), Len(t) = 0 PROVE FirstIsKept(t, f, v)
    <3>1. t = <<>>
      BY <2>1, EmptySeq
    <3>2. WithColon(t) = t
      BY <3>1, WithColonIs
    <3> QED BY <3>2, Zenon DEF FirstIsKept
  <2> QED BY <2>1
<1>2. ASSUME NEW n \in Nat, \A t \in Seq(Lines) : Len(t) = n => FirstIsKept(t, f, v),
             NEW t \in Seq(Lines), Len(t) = n + 1
      PROVE  FirstIsKept(t, f, v)
  <2> HIDE DEF P
  <2>1. PICK r \in Seq(Lines), x \in Lines : t = Append(r, x) /\ Len(r) = n
    BY <1>2, LastOf
  <2>2. FirstIsKept(r, f, v) /\ WithColon(r) \in Seq(Lines)
    BY <1>2, <2>1, WithColonIs
  <2>3. WithColon(t) = WithColon(r) \o Kept(x)
    BY <2>1, WithColonIs
  <2>4. CASE ~Named(x.field)
    <3>1. WithColon(t) = WithColon(r)
      <4>1. Kept(x) = <<>>
        BY <2>4, Zenon DEF Kept, Named
      <4>2. WithColon(r) \o <<>> = WithColon(r)
        BY <2>2, ConcatEmptySeq
      <4> QED BY <2>3, <4>1, <4>2
    <3>2. x.field # f
      BY <2>4, Zenon
    <3>3. NoneHas(t, f) => NoneHas(r, f)
      BY <2>1, NoneStays
    <3>4. FirstHas(t, f, v) => FirstHas(r, f, v)
      BY <2>1, <3>2, FirstBefore
    <3> QED BY <2>2, <3>1, <3>3, <3>4, Zenon DEF FirstIsKept
  <2>5. CASE Named(x.field)
    <3> DEFINE w == WithColon(r)
    <3> HIDE DEF w
    <3>1. WithColon(t) = Append(w, x) /\ w \in Seq(Lines)
      <4>1. Kept(x) = <<x>>
        BY <2>5, Zenon DEF Kept, Named
      <4>2. w \in Seq(Lines)
        BY <2>2 DEF w, FirstIsKept
      <4>3. w \o <<x>> = Append(w, x)
        BY <4>2, AppendIsConcat
      <4> QED BY <2>3, <4>1, <4>2, <4>3 DEF w
    <3>2. NoneHas(t, f) => NoneHas(r, f) /\ x.field # f
      BY <2>1, NoneStays
    <3>3. NoneHas(w, f) /\ x.field # f => NoneHas(Append(w, x), f)
      BY <3>1, NoneStays
    <3>4. FirstHas(t, f, v) => FirstHas(r, f, v) \/ (NoneHas(r, f) /\ x.field = f /\ x.value = v)
      BY <2>1, FirstBefore
    <3>5. FirstHas(w, f, v) => FirstHas(Append(w, x), f, v)
      <4>1. Append(w, x) = w \o <<x>>
        BY <3>1, AppendIsConcat
      <4>2. <<x>> \in Seq(Lines)
        BY SingleElems
      <4> QED BY <3>1, <4>1, <4>2, FirstStays
    <3>6. NoneHas(w, f) /\ x.field = f => FirstHas(Append(w, x), f, x.value)
      BY <3>1, FirstComes
    <3>7. /\ NoneHas(r, f) => NoneHas(w, f)
          /\ FirstHas(r, f, v) => FirstHas(w, f, v)
      BY <2>2 DEF w, FirstIsKept
    <3>8. /\ NoneHas(t, f) => NoneHas(Append(w, x), f)
          /\ FirstHas(t, f, v) => FirstHas(Append(w, x), f, v)
      BY <3>2, <3>3, <3>4, <3>5, <3>6, <3>7, Zenon
    <3> QED BY <3>1, <3>8 DEF FirstIsKept
  <2> QED BY <2>4, <2>5
<1>3. ASSUME NEW n \in Nat, n \in P PROVE n + 1 \in P
  <2>1. \A t \in Seq(Lines) : Len(t) = n => FirstIsKept(t, f, v)
    BY <1>3
  <2>2. \A t \in Seq(Lines) : Len(t) = n + 1 => FirstIsKept(t, f, v)
    BY <1>2, <2>1
  <2>3. n + 1 \in Nat
    OBVIOUS
  <2> QED BY <2>2, <2>3
<1>4. Nat \subseteq P
  <2> HIDE DEF P
  <2> QED BY <1>1, <1>3, SetInduction
<1>5. TAKE s \in Seq(Lines)
<1>6. Len(s) \in Nat
  BY LenProperties
<1> QED BY <1>4, <1>6

-----------------------------------------------------------------------------
(* The request *)

IsHeaderWith(fs, name, value) ==
  /\ fs \in Seq(Nodes)
  /\ \A i \in 1..Len(fs) : Len(fs[i].value) <= fs[i].room
  /\ \A i, j \in 1..Len(fs) : fs[i].name = fs[j].name => i = j
  /\ \E i \in 1..Len(fs) : fs[i].name = name /\ fs[i].value = value

\* The field of a request is in the header afterwards, once and with room.
LEMMA WithFieldIs ==
  ASSUME NEW name \in Symbols, NEW value \in Seq(Symbols), fields \in Seq(Nodes), FieldsInv,
         NEW fs, fs = WithField(name, value)
  PROVE  IsHeaderWith(fs, name, value)
<1> DEFINE I == {i \in 1..Len(fields) : fields[i].name = name}
           node == [name |-> name, value |-> value, room |-> Len(value)]
<1>1. Len(fields) \in Nat /\ Len(value) \in Nat
  BY LenProperties
<1>2. fs = IF (IF I # {} THEN Min(I) ELSE 0) = 0 THEN Append(fields, node)
           ELSE [fields EXCEPT ![IF I # {} THEN Min(I) ELSE 0] =
                   ReplacedField(fields[IF I # {} THEN Min(I) ELSE 0], value)]
  BY Zenon DEF WithField, SelectInSeq
<1>3. node \in Nodes /\ node.name = name /\ node.value = value /\ node.room = Len(value)
  BY <1>1 DEF Nodes
<1>4. CASE I = {}
  <2>1. fs = Append(fields, node)
    BY <1>2, <1>4
  <2>2. \A i \in 1..Len(fields) : fields[i].name # name
    BY <1>4
  <2> HIDE DEF node, I
  <2>3. /\ fs \in Seq(Nodes) /\ Len(fs) = Len(fields) + 1 /\ fs[Len(fields) + 1] = node
        /\ \A i \in 1..Len(fields) : fs[i] = fields[i]
    BY <1>3, <2>1, AppendProperties
  <2>4. \A i \in 1..Len(fs) : i = Len(fields) + 1 \/ i \in 1..Len(fields)
    BY <1>1, <2>3
  <2>5. \A i \in 1..Len(fs) : Len(fs[i].value) <= fs[i].room
    BY <1>1, <1>3, <2>3, <2>4 DEF FieldsInv
  <2>6. \A i, j \in 1..Len(fs) : fs[i].name = fs[j].name => i = j
    BY <1>3, <2>2, <2>3, <2>4 DEF FieldsInv
  <2>7. Len(fields) + 1 \in 1..Len(fs)
    BY <1>1, <2>3
  <2> QED BY <1>3, <2>3, <2>5, <2>6, <2>7 DEF IsHeaderWith
<1>5. CASE I # {}
  <2>1. PICK k : k = Min(I)
    OBVIOUS
  <2>2. k \in 1..Len(fields) /\ fields[k].name = name
    <3>1. I \subseteq Nat
      BY <1>1
    <3>2. k \in I
      <4> HIDE DEF I
      <4> QED BY <1>5, <2>1, <3>1, MinIs
    <3> QED BY <3>2
  <2> DEFINE new == ReplacedField(fields[k], value)
  <2>3. k # 0
    BY <1>1, <2>2
  <2>4. fs = [fields EXCEPT ![k] = new]
    <3> HIDE DEF node, I
    <3> QED BY <1>2, <1>5, <2>1, <2>3
  <2> HIDE DEF node, I
  <2>5. fields[k] \in Nodes
    BY <2>2
  <2>6. new \in Nodes /\ new.name = name /\ new.value = value /\ Len(value) <= new.room
    <3>1. /\ fields[k] = [name |-> name, value |-> fields[k].value, room |-> fields[k].room]
          /\ fields[k].room \in Nat /\ fields[k].value \in Seq(Symbols)
      BY <2>2, <2>5 DEF Nodes
    <3>2. Len(fields[k].value) <= fields[k].room /\ Len(fields[k].value) \in Nat
      BY <2>2, <3>1, LenProperties DEF FieldsInv
    <3>3. CASE Len(fields[k].value) < Len(value)
      <4>1. new = [name |-> name, value |-> value, room |-> Len(value)]
        <5>1. PICK n : n = [fields[k] EXCEPT !.value = value]
          OBVIOUS
        <5>2. n = [name |-> name, value |-> value, room |-> fields[k].room]
          BY <3>1, <5>1
        <5>3. new = [n EXCEPT !.room = Len(value)]
          BY <3>3, <5>1, Zenon DEF ReplacedField
        <5> QED BY <5>2, <5>3
      <4> QED BY <1>1, <4>1 DEF Nodes
    <3>4. CASE ~(Len(fields[k].value) < Len(value))
      <4>1. new = [name |-> name, value |-> value, room |-> fields[k].room]
        BY <3>1, <3>4 DEF ReplacedField
      <4>2. Len(value) <= fields[k].room
        BY <1>1, <3>1, <3>2, <3>4
      <4> QED BY <3>1, <4>1, <4>2 DEF Nodes
    <3> QED BY <3>3, <3>4
  <2> HIDE DEF new
  <2>7. /\ fs \in Seq(Nodes) /\ Len(fs) = Len(fields) /\ fs[k] = new
        /\ \A i \in 1..Len(fields) : i # k => fs[i] = fields[i]
    BY <2>2, <2>4, <2>6, ExceptSeq
  <2>8. \A i \in 1..Len(fs) : Len(fs[i].value) <= fs[i].room
    BY <2>6, <2>7 DEF FieldsInv
  <2>9. \A i, j \in 1..Len(fs) : fs[i].name = fs[j].name => i = j
    <3>1. \A i \in 1..Len(fs) : fs[i].name = fields[i].name
      BY <2>2, <2>6, <2>7
    <3> QED BY <2>7, <3>1 DEF FieldsInv
  <2> QED BY <2>2, <2>6, <2>7, <2>8, <2>9 DEF IsHeaderWith
<1> QED BY <1>4, <1>5

LEMMA DemandIs ==
  ASSUME NEW r \in Demands
  PROVE  /\ r.base \in Seq(Texts) /\ r.endpoint \in Seq(Texts) /\ r.method \in Methods
         /\ r.body \in Seq(Texts) /\ r.field \in Symbols /\ r.value \in Seq(Symbols)
<1>1. Texts \subseteq Symbols
  BY DEF Symbols
<1>2. /\ r.base \in Seq(Texts) /\ r.endpoint \in Seq(Texts) /\ r.method \in Methods
      /\ r.body \in Seq(Texts) /\ r.field \in Texts /\ r.value \in Seq(Texts)
  BY ConnectionAssumption
<1> QED BY <1>1, <1>2, SeqMonotonic

LEMMA HeaderAdded == HandleInv /\ AddHeader => HandleInv'
<1> SUFFICES ASSUME HandleInv, AddHeader PROVE HandleInv'
  OBVIOUS
<1>1. PICK r \in Demands : request' = r /\ fields' = WithField(r.field, r.value)
  BY DEF AddHeader
<1>2. /\ moment = "idle" /\ moment' = "setup"
      /\ UNCHANGED <<url, option, reply, rcvd, info>>
  BY DEF AddHeader
<1>3. IsHeaderWith(fields', r.field, r.value)
  <2>1. r.field \in Symbols /\ r.value \in Seq(Symbols)
    BY DemandIs
  <2>2. fields \in Seq(Nodes) /\ FieldsInv
    BY DEF HandleInv, TypesInv
  <2>3. IsHeaderWith(WithField(r.field, r.value), r.field, r.value)
    BY <2>1, <2>2, WithFieldIs
  <2> QED BY <1>1, <2>3
<1>4. TypesInv'
  BY <1>1, <1>2, <1>3 DEF HandleInv, TypesInv, IsHeaderWith
<1>5. FieldsInv' /\ HasField'
  BY <1>1, <1>3 DEF FieldsInv, HasField, IsHeaderWith
<1>6. UrlInv' /\ Sound(rcvd.header)' /\ Sound(rcvd.body)'
  BY <1>2 DEF HandleInv, UrlInv, Sound
<1>7. MomentInv'
  BY <1>2, <1>5 DEF HandleInv, MomentInv
<1>8. InfoInv'
  BY <1>2 DEF HandleInv, InfoInv
<1> QED BY <1>4, <1>5, <1>6, <1>7, <1>8 DEF HandleInv

\* What libcurl is asked for is what a request asks for, whatever was there before.
Asks(o, r) ==
  /\ r.method = IF o.custom = NoMethod THEN o.kind ELSE o.custom
  /\ o.kind = "POST" => o.body = r.body
  /\ o.kind = "MIMEPOST" => o.mime = "allocated"

LEMMA OptionsAre ==
  ASSUME NEW r \in Demands, option \in Options
  PROVE  OptionsFor(r) \in Options /\ Asks(OptionsFor(r), r)
<1>1. r.method \in Methods /\ r.body \in Seq(Texts)
  BY DemandIs
<1>2. PICK k, b, m : /\ k \in {"GET", "POST", "MIMEPOST"} /\ b \in Seq(Texts)
                     /\ m \in {"none", "allocated", "freed"}
                     /\ option = [custom |-> option.custom, kind |-> k, body |-> b, mime |-> m]
  BY DEF Options
<1>3. PICK o : o = [custom |-> NoMethod, kind |-> k, body |-> b, mime |-> m] /\ o = Plainly(option)
  <2>1. [option EXCEPT !.custom = NoMethod] = [custom |-> NoMethod, kind |-> k, body |-> b, mime |-> m]
    BY <1>2
  <2> QED BY <2>1, Zenon DEF Plainly
<1>4. CASE r.method = "GET"
  <2>1. OptionsFor(r) = [o EXCEPT !.kind = "GET"]
    BY <1>3, <1>4, Zenon DEF OptionsFor
  <2>2. OptionsFor(r) = [custom |-> NoMethod, kind |-> "GET", body |-> b, mime |-> m]
    BY <1>3, <2>1
  <2> QED BY <1>2, <1>4, <2>2 DEF Options, Asks, NoMethod
<1>5. CASE r.method = "MIMEPOST"
  <2>1. PICK p : p = [o EXCEPT !.kind = "MIMEPOST"]
    OBVIOUS
  <2>2. OptionsFor(r) = [p EXCEPT !.mime = "allocated"]
    BY <1>3, <1>5, <2>1 DEF OptionsFor
  <2>3. p = [custom |-> NoMethod, kind |-> "MIMEPOST", body |-> b, mime |-> m]
    BY <1>3, <2>1
  <2>4. OptionsFor(r) = [custom |-> NoMethod, kind |-> "MIMEPOST", body |-> b, mime |-> "allocated"]
    BY <2>2, <2>3
  <2> QED BY <1>2, <1>5, <2>4 DEF Options, Asks, NoMethod
<1>6. ASSUME NEW c \in Methods \cup {NoMethod}, NEW q, q = [custom |-> c, kind |-> k, body |-> b, mime |-> m]
      PROVE  Posting(q, r.body) = [custom |-> c, kind |-> "POST", body |-> r.body, mime |-> m]
  <2>1. PICK p : p = [q EXCEPT !.kind = "POST"]
    OBVIOUS
  <2>2. p = [custom |-> c, kind |-> "POST", body |-> b, mime |-> m]
    BY <1>6, <2>1
  <2>3. Posting(q, r.body) = [p EXCEPT !.body = r.body]
    BY <2>1, Zenon DEF Posting
  <2> QED BY <2>2, <2>3
<1>7. CASE r.method = "POST"
  <2>1. OptionsFor(r) = Posting(o, r.body)
    BY <1>3, <1>7 DEF OptionsFor
  <2>2. OptionsFor(r) = [custom |-> NoMethod, kind |-> "POST", body |-> r.body, mime |-> m]
    BY <1>3, <1>6, <2>1
  <2> QED BY <1>1, <1>2, <1>7, <2>2 DEF Options, Asks, NoMethod
<1>8. CASE r.method \notin {"GET", "MIMEPOST", "POST"}
  <2>1. OptionsFor(r) = Posting([o EXCEPT !.custom = r.method], r.body)
    BY <1>3, <1>8 DEF OptionsFor
  <2>2. [o EXCEPT !.custom = r.method] = [custom |-> r.method, kind |-> k, body |-> b, mime |-> m]
    BY <1>3
  <2>3. OptionsFor(r) = [custom |-> r.method, kind |-> "POST", body |-> r.body, mime |-> m]
    BY <1>1, <1>6, <2>1, <2>2
  <2>4. r.method # NoMethod
    BY <1>1 DEF Methods, NoMethod
  <2> QED BY <1>1, <1>2, <2>3, <2>4 DEF Options, Asks
<1> QED BY <1>4, <1>5, <1>7, <1>8

LEMMA UrlIs ==
  ASSUME NEW r \in Demands
  PROVE  /\ r.base \o r.endpoint \in Seq(Texts) /\ UrlSize(r) \in Nat
         /\ Len(r.base \o r.endpoint) + 1 <= UrlSize(r)
<1>1. r.base \in Seq(Texts) /\ r.endpoint \in Seq(Texts)
  BY DemandIs
<1>2. /\ r.base \o r.endpoint \in Seq(Texts)
      /\ Len(r.base \o r.endpoint) = Len(r.base) + Len(r.endpoint)
      /\ Len(r.base) \in Nat /\ Len(r.endpoint) \in Nat
  BY <1>1, ConcatProperties, LenProperties
<1>3. PICK a \in Nat, b \in Nat : a = Len(r.base) /\ b = Len(r.endpoint)
  BY <1>2
<1>4. UrlSize(r) = 2 + a + b /\ Len(r.base \o r.endpoint) = a + b
  BY <1>2, <1>3 DEF UrlSize
<1>5. 2 + a + b \in Nat /\ a + b + 1 <= 2 + a + b
  OBVIOUS
<1> QED BY <1>2, <1>4, <1>5, Zenon

LEMMA IsSetUp == HandleInv /\ SetUp => HandleInv'
<1> SUFFICES ASSUME HandleInv, SetUp PROVE HandleInv'
  OBVIOUS
<1>1. /\ moment = "setup" /\ moment' = "perform"
      /\ UNCHANGED <<request, fields, reply, rcvd, info, requests>>
      /\ option' = OptionsFor(request)
      /\ url' = [text |-> request.base \o request.endpoint,
                 size |-> IF UrlSize(request) > url.size THEN UrlSize(request) ELSE url.size]
  BY DEF SetUp
<1>2. request \in Demands /\ option \in Options /\ url.size \in Nat
  BY DEF HandleInv, TypesInv, Options
<1>3. option' \in Options /\ Asks(option', request)
  BY <1>1, <1>2, OptionsAre
<1>4. /\ url' \in [text : Seq(Texts), size : Nat] /\ Len(url'.text) + 1 <= url'.size
      /\ url'.text = request.base \o request.endpoint
  <2>1. PICK t : t = request.base \o request.endpoint
    OBVIOUS
  <2>2. t \in Seq(Texts) /\ UrlSize(request) \in Nat /\ Len(t) + 1 <= UrlSize(request) /\ Len(t) \in Nat
    BY <1>2, <2>1, UrlIs, LenProperties
  <2>3. url' = [text |-> t, size |-> IF UrlSize(request) > url.size THEN UrlSize(request) ELSE url.size]
    BY <1>1, <2>1
  <2>4. PICK n \in Nat : n = IF UrlSize(request) > url.size THEN UrlSize(request) ELSE url.size
    BY <1>2, <2>2
  <2>5. UrlSize(request) <= n
    BY <1>2, <2>2, <2>4
  <2>6. url' = [text |-> t, size |-> n]
    BY <2>3, <2>4
  <2>7. Len(t) + 1 <= n
    BY <2>2, <2>5
  <2> QED BY <2>1, <2>2, <2>6, <2>7
<1>5. TypesInv' /\ FieldsInv' /\ UrlInv' /\ Sound(rcvd.header)' /\ Sound(rcvd.body)' /\ InfoInv'
  BY <1>1, <1>3, <1>4 DEF HandleInv, TypesInv, FieldsInv, UrlInv, Sound, InfoInv, Options
<1>6. HasField /\ HasField'
  BY <1>1 DEF HandleInv, MomentInv, HasField
<1>7. SentIsAsked'
  <2>1. PICK i \in 1..Len(fields) : fields[i].name = request.field /\ fields[i].value = request.value
    BY <1>6 DEF HasField
  <2>2. \A j \in 1..Len(fields) : fields[j].name = request.field => j = i
    BY <2>1 DEF HandleInv, FieldsInv
  <2>3. DOMAIN fields = 1..Len(fields)
    BY LenProperties DEF HandleInv, TypesInv
  <2>4. \E k \in DOMAIN fields :
          /\ fields[k].name = request.field /\ fields[k].value = request.value
          /\ \A j \in DOMAIN fields : fields[j].name = request.field => j = k
    BY <2>1, <2>2, <2>3
  <2> QED BY <1>1, <1>3, <1>4, <2>4, Zenon DEF SentIsAsked, Asks
<1>8. MomentInv'
  BY <1>1, <1>6, <1>7 DEF HandleInv, MomentInv
<1> QED BY <1>5, <1>8 DEF HandleInv

-----------------------------------------------------------------------------
(* The answer *)

LEMMA AnswerIs ==
  ASSUME NEW a \in Answers
  PROVE  /\ a.code \in Nat /\ a.lines \in Seq(Lines) /\ a.chunks \in Seq(Seq(Texts))
         /\ a \in [code : Nat, lines : Seq(Lines), chunks : Seq(Seq(Texts))]
<1>1. a \in [code : Nat, chunks : Seq(Seq(Texts)),
             lines : Seq([field : Texts, blanks : Seq(Texts), value : Seq(Texts)])]
  BY ConnectionAssumption
<1> QED BY <1>1 DEF Lines

LEMMA Performed == HandleInv /\ Perform => HandleInv'
<1> SUFFICES ASSUME HandleInv, Perform PROVE HandleInv'
  OBVIOUS
<1>1. /\ moment = "perform" /\ info' = NoInfo
      /\ UNCHANGED <<request, url, fields, option, rcvd, requests>>
      /\ \/ moment' = "receive" /\ reply' \in Answers
         \/ moment' = "stop" /\ UNCHANGED reply
  BY DEF Perform
<1>2. rcvd.header.len = 0 /\ rcvd.body.len = 0 /\ rcvd.pairs = <<>>
  BY <1>1 DEF HandleInv, MomentInv
<1>3. TypesInv'
  <2>1. reply' \in [code : Nat, lines : Seq(Lines), chunks : Seq(Seq(Texts))]
    BY <1>1, AnswerIs DEF HandleInv, TypesInv
  <2>2. info'.header \in Seq(Symbols) /\ info'.pairs \in Seq(Pairs)
    BY <1>1 DEF NoInfo
  <2> QED BY <1>1, <2>1, <2>2 DEF HandleInv, TypesInv
<1>4. FieldsInv' /\ UrlInv' /\ Sound(rcvd.header)' /\ Sound(rcvd.body)' /\ InfoInv'
  BY <1>1 DEF HandleInv, FieldsInv, UrlInv, Sound, InfoInv
<1>5. CASE moment' = "stop"
  <2>1. MomentInv'
    BY <1>5 DEF MomentInv
  <2> QED BY <1>3, <1>4, <2>1 DEF HandleInv
<1>6. CASE moment' = "receive" /\ reply' \in Answers
  <2>1. PICK a \in Answers : a = reply'
    BY <1>6
  <2>2. /\ a.lines \in Seq(Lines) /\ a.chunks \in Seq(Seq(Texts))
        /\ Len(a.lines) \in Nat /\ Len(a.chunks) \in Nat
    BY AnswerIs, LenProperties
  <2>3. Within(rcvd.header) = <<>> /\ Within(rcvd.body) = <<>>
    BY <1>2, SubSeqEmpty DEF Within
  <2>4. SubSeq(a.lines, 1, 0) = <<>> /\ SubSeq(a.chunks, 1, 0) = <<>>
    BY SubSeqEmpty
  <2>5. Shows(Within(rcvd.header), rcvd.pairs, WithColon(SubSeq(a.lines, 1, 0)))
    <3>1. WithColon(SubSeq(a.lines, 1, 0)) = <<>>
      BY <2>4, WithColonIs
    <3> QED BY <1>2, <3>1 DEF Shows
  <2>6. Within(rcvd.body) = FlattenSeq(SubSeq(a.chunks, 1, 0))
    BY <2>3, <2>4, FlattenNone
  <2>7. a.lines = SubSeq(a.lines, 0 + 1, Len(a.lines)) /\ a.chunks = SubSeq(a.chunks, 0 + 1, Len(a.chunks))
    BY <2>2, SubSeqFull
  <2>8. Came(a, 0, 0)'
    BY <1>1, <2>1, <2>5, <2>6, <2>7 DEF Came, Within
  <2>9. Received'
    BY <2>2, <2>8 DEF Received
  <2>10. MomentInv'
    BY <1>6, <2>9 DEF MomentInv
  <2> QED BY <1>3, <1>4, <2>10 DEF HandleInv
<1> QED BY <1>1, <1>5, <1>6

\* A line that comes is stored with the lines before it.
LEMMA LineCame ==
  ASSUME HandleInv, RespHeader, NEW a \in Answers, NEW n \in 0..Len(a.lines), NEW c \in 0..Len(a.chunks),
         Came(a, n, c)
  PROVE  /\ rcvd' \in [header : Buffers, body : Buffers, pairs : Seq(Pairs)]
         /\ reply' \in [code : Nat, lines : Seq(Lines), chunks : Seq(Seq(Texts))]
         /\ Sound(rcvd.header)' /\ Sound(rcvd.body)'
         /\ n + 1 \in 0..Len(a.lines) /\ Came(a, n + 1, c)'
<1> DEFINE line == Head(reply.lines)
           rest == Tail(reply.lines)
           old == SubSeq(a.lines, 1, n)
<1>1. /\ reply.lines # <<>> /\ reply' = [reply EXCEPT !.lines = rest]
      /\ rcvd' = IF line.field = "" THEN rcvd
                 ELSE [rcvd EXCEPT !.header = Stored(rcvd.header, LineOf(line)),
                                   !.pairs = Append(rcvd.pairs, PairOf(rcvd.header.len, line))]
  BY DEF RespHeader
<1>2. /\ reply \in [code : Nat, lines : Seq(Lines), chunks : Seq(Seq(Texts))]
      /\ rcvd \in [header : Buffers, body : Buffers, pairs : Seq(Pairs)]
      /\ Sound(rcvd.header) /\ Sound(rcvd.body)
  BY DEF HandleInv, TypesInv
<1>3. /\ reply.code = a.code /\ reply.lines = SubSeq(a.lines, n + 1, Len(a.lines))
      /\ reply.chunks = SubSeq(a.chunks, c + 1, Len(a.chunks))
      /\ Shows(Within(rcvd.header), rcvd.pairs, WithColon(old))
      /\ Within(rcvd.body) = FlattenSeq(SubSeq(a.chunks, 1, c))
  BY DEF Came
<1>4. /\ n + 1 \in 0..Len(a.lines) /\ line \in Lines
      /\ rest = SubSeq(a.lines, (n + 1) + 1, Len(a.lines))
      /\ old \in Seq(Lines) /\ SubSeq(a.lines, 1, n + 1) = Append(old, line)
  <2>1. a.lines \in Seq(Lines)
    BY AnswerIs
  <2> QED BY <1>1, <1>3, <2>1, OneMore
<1>5. PICK new : new = SubSeq(a.lines, 1, n + 1)
  OBVIOUS
<1> HIDE DEF line, rest, old
<1>6. /\ reply' = [code |-> reply.code, lines |-> rest, chunks |-> reply.chunks]
      /\ rest \in Seq(Lines)
  BY <1>1, <1>2, HeadTailProperties DEF rest
<1>7. WithColon(new) = WithColon(old) \o Kept(line) /\ WithColon(old) \in Seq(Lines)
  BY <1>4, <1>5, WithColonIs
<1>8. reply' \in [code : Nat, lines : Seq(Lines), chunks : Seq(Seq(Texts))]
  BY <1>2, <1>6
<1>9. ASSUME /\ rcvd' \in [header : Buffers, body : Buffers, pairs : Seq(Pairs)]
             /\ Sound(rcvd'.header)
             /\ rcvd'.body = rcvd.body /\ Shows(Within(rcvd'.header), rcvd'.pairs, WithColon(new))
      PROVE  /\ Sound(rcvd.header)' /\ Sound(rcvd.body)' /\ Came(a, n + 1, c)'
  <2>1. /\ Sound(rcvd.header)' /\ Sound(rcvd.body)'
    BY <1>2, <1>9 DEF Sound
  <2>2. reply'.code = a.code /\ reply'.lines = rest /\ reply'.chunks = reply.chunks
    BY <1>3, <1>6
  <2>3. Shows(Within(rcvd.header), rcvd.pairs, WithColon(SubSeq(a.lines, 1, n + 1)))'
    BY <1>5, <1>9
  <2>4. (Within(rcvd.body) = FlattenSeq(SubSeq(a.chunks, 1, c)))'
    BY <1>3, <1>9 DEF Within
  <2>5. Came(a, n + 1, c)'
    BY <1>3, <1>4, <2>2, <2>3, <2>4 DEF Came
  <2> QED BY <2>1, <2>5
<1>10. CASE ~Named(line.field)
  <2>1. Kept(line) = <<>> /\ rcvd' = rcvd
    BY <1>1, <1>10, Zenon DEF Kept, Named
  <2>2. WithColon(new) = WithColon(old)
    BY <1>7, <2>1, ConcatEmptySeq
  <2> QED BY <1>2, <1>3, <1>4, <1>8, <1>9, <2>1, <2>2
<1>11. CASE Named(line.field)
  <2> DEFINE text == Within(rcvd.header)
             pair == PairOf(rcvd.header.len, line)
             more == LineOf(line)
             buffer == Stored(rcvd.header, more)
  <2>1. /\ text \in Seq(Symbols) /\ Len(text) = rcvd.header.len
    BY <1>2, WithinIs
  <2>2. /\ pair \in Pairs /\ more \in Seq(Symbols)
        /\ Shows(text \o more, Append(rcvd.pairs, pair), Append(WithColon(old), line))
    BY <1>2, <1>3, <1>4, <1>7, <1>11, <2>1, LineShown
  <2>3. PICK r : r = [rcvd EXCEPT !.header = buffer]
    OBVIOUS
  <2>4. rcvd' = [r EXCEPT !.pairs = Append(rcvd.pairs, pair)]
    BY <1>1, <1>11, <2>3, Zenon DEF Named
  <2> HIDE DEF text, pair, more, buffer
  <2>5. r = [header |-> buffer, body |-> rcvd.body, pairs |-> rcvd.pairs]
    BY <1>2, <2>3
  <2>6. rcvd' = [header |-> buffer, body |-> rcvd.body, pairs |-> Append(rcvd.pairs, pair)]
    BY <2>4, <2>5
  <2>7. Sound(buffer) /\ Within(buffer) = text \o more /\ buffer \in Buffers
    BY <1>2, <2>2, StoredIs DEF buffer, text
  <2>8. Append(rcvd.pairs, pair) \in Seq(Pairs)
    BY <1>2, <2>2, AppendProperties
  <2>9. WithColon(new) = Append(WithColon(old), line)
    <3>1. Kept(line) = <<line>>
      BY <1>11, Zenon DEF Kept, Named
    <3>2. WithColon(old) \o <<line>> = Append(WithColon(old), line)
      BY <1>4, <1>7, AppendIsConcat
    <3> QED BY <1>7, <3>1, <3>2
  <2>10. /\ rcvd' \in [header : Buffers, body : Buffers, pairs : Seq(Pairs)]
         /\ Sound(rcvd'.header) /\ rcvd'.body = rcvd.body
         /\ Shows(Within(rcvd'.header), rcvd'.pairs, WithColon(new))
    BY <1>2, <2>2, <2>6, <2>7, <2>8, <2>9
  <2> QED BY <1>4, <1>8, <1>9, <2>10
<1> QED BY <1>10, <1>11

LEMMA HeaderCame == HandleInv /\ RespHeader => HandleInv'
<1> SUFFICES ASSUME HandleInv, RespHeader PROVE HandleInv'
  OBVIOUS
<1>1. moment = "receive" /\ UNCHANGED <<request, url, fields, option, info, moment, requests>>
  BY DEF RespHeader
<1>2. PICK a \in Answers : \E n \in 0..Len(a.lines), c \in 0..Len(a.chunks) : Came(a, n, c)
  BY <1>1 DEF HandleInv, MomentInv, Received
<1>3. PICK n \in 0..Len(a.lines), c \in 0..Len(a.chunks) : Came(a, n, c)
  BY <1>2
<1>4. /\ rcvd' \in [header : Buffers, body : Buffers, pairs : Seq(Pairs)]
      /\ reply' \in [code : Nat, lines : Seq(Lines), chunks : Seq(Seq(Texts))]
      /\ Sound(rcvd.header)' /\ Sound(rcvd.body)'
      /\ n + 1 \in 0..Len(a.lines) /\ Came(a, n + 1, c)'
  BY <1>3, LineCame
<1>5. TypesInv' /\ FieldsInv' /\ UrlInv' /\ InfoInv'
  BY <1>1, <1>4 DEF HandleInv, TypesInv, FieldsInv, UrlInv, InfoInv
<1>6. Received'
  BY <1>4 DEF Received
<1>7. MomentInv'
  BY <1>1, <1>6 DEF MomentInv
<1> QED BY <1>4, <1>5, <1>7 DEF HandleInv

LEMMA BodyCame == HandleInv /\ RespBody => HandleInv'
<1> SUFFICES ASSUME HandleInv, RespBody PROVE HandleInv'
  OBVIOUS
<1> DEFINE chunk == Head(reply.chunks)
           rest == Tail(reply.chunks)
           buffer == Stored(rcvd.body, chunk)
<1>1. /\ moment = "receive" /\ reply.chunks # <<>>
      /\ rcvd' = [rcvd EXCEPT !.body = buffer] /\ reply' = [reply EXCEPT !.chunks = rest]
      /\ UNCHANGED <<request, url, fields, option, info, moment, requests>>
  BY DEF RespBody
<1>2. /\ reply \in [code : Nat, lines : Seq(Lines), chunks : Seq(Seq(Texts))]
      /\ rcvd \in [header : Buffers, body : Buffers, pairs : Seq(Pairs)]
      /\ Sound(rcvd.header) /\ Sound(rcvd.body)
  BY DEF HandleInv, TypesInv
<1>3. PICK a \in Answers : \E n \in 0..Len(a.lines), c \in 0..Len(a.chunks) : Came(a, n, c)
  BY <1>1 DEF HandleInv, MomentInv, Received
<1>4. PICK n \in 0..Len(a.lines), c \in 0..Len(a.chunks) : Came(a, n, c)
  BY <1>3
<1>5. /\ reply.code = a.code /\ reply.lines = SubSeq(a.lines, n + 1, Len(a.lines))
      /\ reply.chunks = SubSeq(a.chunks, c + 1, Len(a.chunks))
      /\ Shows(Within(rcvd.header), rcvd.pairs, WithColon(SubSeq(a.lines, 1, n)))
      /\ Within(rcvd.body) = FlattenSeq(SubSeq(a.chunks, 1, c))
  BY <1>4 DEF Came
<1> DEFINE T == Seq(Texts)
           old == SubSeq(a.chunks, 1, c)
           new == SubSeq(a.chunks, 1, c + 1)
<1>6. /\ c + 1 \in 0..Len(a.chunks) /\ chunk \in T
      /\ rest = SubSeq(a.chunks, (c + 1) + 1, Len(a.chunks))
      /\ old \in Seq(T) /\ new = Append(old, chunk)
  <2>1. a.chunks \in Seq(T)
    BY AnswerIs
  <2> HIDE DEF T
  <2> QED BY <1>1, <1>5, <2>1, OneMore
<1>7. FlattenSeq(new) = FlattenSeq(old) \o chunk
  <2> HIDE DEF old, new, chunk
  <2> QED BY <1>6, FlattenAppend
<1>8. chunk \in Seq(Symbols)
  <2>1. Texts \subseteq Symbols
    BY DEF Symbols
  <2> HIDE DEF chunk
  <2> QED BY <1>6, <2>1, SeqMonotonic
<1> HIDE DEF chunk, rest, buffer, T, old, new
<1>9. /\ reply' = [code |-> reply.code, lines |-> reply.lines, chunks |-> rest]
      /\ rcvd' = [header |-> rcvd.header, body |-> buffer, pairs |-> rcvd.pairs]
  BY <1>1, <1>2
<1>10. rest \in Seq(Seq(Texts))
  <2>1. reply.chunks \in Seq(T)
    BY <1>2 DEF T
  <2>2. rest \in Seq(T)
    BY <1>1, <2>1, HeadTailProperties DEF rest
  <2> QED BY <2>2 DEF T
<1>11. Sound(buffer) /\ Within(buffer) = Within(rcvd.body) \o chunk /\ buffer \in Buffers
  BY <1>2, <1>8, StoredIs DEF buffer
<1>12. TypesInv' /\ FieldsInv' /\ UrlInv' /\ InfoInv'
  <2>1. /\ rcvd' \in [header : Buffers, body : Buffers, pairs : Seq(Pairs)]
        /\ reply' \in [code : Nat, lines : Seq(Lines), chunks : Seq(Seq(Texts))]
    BY <1>2, <1>9, <1>10, <1>11
  <2> QED BY <1>1, <2>1 DEF HandleInv, TypesInv, FieldsInv, UrlInv, InfoInv
<1>13. rcvd'.header = rcvd.header /\ rcvd'.body = buffer /\ rcvd'.pairs = rcvd.pairs
  BY <1>9
<1>14. Sound(rcvd.header)' /\ Sound(rcvd.body)'
  BY <1>2, <1>11, <1>13 DEF Sound
<1>15. Came(a, n, c + 1)'
  <2>1. (Within(rcvd.body) = FlattenSeq(SubSeq(a.chunks, 1, c + 1)))'
    <3>1. Within(buffer) = FlattenSeq(new)
      BY <1>5, <1>7, <1>11 DEF old
    <3> QED BY <1>13, <3>1 DEF new
  <2>2. Shows(Within(rcvd.header), rcvd.pairs, WithColon(SubSeq(a.lines, 1, n)))'
    BY <1>5, <1>13
  <2> QED BY <1>5, <1>6, <1>9, <2>1, <2>2 DEF Came
<1>16. Received'
  BY <1>6, <1>15 DEF Received
<1>17. MomentInv'
  BY <1>1, <1>16 DEF MomentInv
<1> QED BY <1>12, <1>14, <1>17 DEF HandleInv

LEMMA PerformEnds == HandleInv /\ EndPerform => HandleInv'
<1> SUFFICES ASSUME HandleInv, EndPerform PROVE HandleInv'
  OBVIOUS
<1>1. /\ moment = "receive" /\ UNCHANGED <<request, url, fields, option, reply, rcvd, info, requests>>
      /\ \/ reply.lines = <<>> /\ reply.chunks = <<>> /\ moment' = "extract"
         \/ moment' = "stop"
  BY DEF EndPerform
<1>2. TypesInv' /\ FieldsInv' /\ UrlInv' /\ InfoInv' /\ Sound(rcvd.header)' /\ Sound(rcvd.body)'
  BY <1>1 DEF HandleInv, TypesInv, FieldsInv, UrlInv, InfoInv, Sound
<1>3. Received'
  BY <1>1 DEF HandleInv, MomentInv, Received, Came
<1>4. MomentInv'
  BY <1>1, <1>3 DEF MomentInv
<1> QED BY <1>2, <1>4 DEF HandleInv

\* When nothing is to come, all came.
LEMMA AllCame ==
  ASSUME NEW S, NEW s \in Seq(S), NEW n \in 0..Len(s), SubSeq(s, n + 1, Len(s)) = <<>>
  PROVE  SubSeq(s, 1, n) = s
<1>1. Len(s) \in Nat /\ n \in Nat
  OBVIOUS
<1>2. ASSUME n < Len(s) PROVE FALSE
  <2> DEFINE m == n + 1
             l == Len(s)
  <2>1. m \in Int /\ l \in Int /\ m <= l /\ \A i \in m..l : s[i] \in S
    BY <1>1, <1>2
  <2> HIDE DEF m, l
  <2>2. Len(SubSeq(s, m, l)) = l - m + 1
    BY <2>1, SubSeqProperties
  <2>3. Len(SubSeq(s, m, l)) = 0
    <3>1. SubSeq(s, m, l) = <<>>
      BY DEF m, l
    <3> QED BY <3>1
  <2> QED BY <2>1, <2>2, <2>3
<1>3. n = Len(s)
  BY <1>1, <1>2
<1> QED BY <1>3, SubSeqFull

LEMMA InfoExtracted == HandleInv /\ InfoExtract => HandleInv'
<1> SUFFICES ASSUME HandleInv, InfoExtract PROVE HandleInv'
  OBVIOUS
<1>1. /\ moment = "extract" /\ moment' = "stop"
      /\ UNCHANGED <<request, url, fields, option, reply, rcvd, requests>>
      /\ info' = [httpcode |-> reply.code, code |-> OrcaCode(reply.code), header |-> Within(rcvd.header),
                  pairs |-> rcvd.pairs, body |-> Within(rcvd.body), called |-> Callback(reply.code)]
  BY DEF InfoExtract
<1>2. Sound(rcvd.header) /\ Sound(rcvd.body) /\ rcvd.pairs \in Seq(Pairs)
  BY DEF HandleInv, TypesInv
<1>3. reply.lines = <<>> /\ reply.chunks = <<>> /\ Received
  BY <1>1 DEF HandleInv, MomentInv
<1>4. PICK a \in Answers : \E n \in 0..Len(a.lines), c \in 0..Len(a.chunks) : Came(a, n, c)
  BY <1>3 DEF Received
<1>5. PICK n \in 0..Len(a.lines), c \in 0..Len(a.chunks) : Came(a, n, c)
  BY <1>4
<1>6. SubSeq(a.lines, 1, n) = a.lines /\ SubSeq(a.chunks, 1, c) = a.chunks
  <2>1. a.lines \in Seq(Lines) /\ a.chunks \in Seq(Seq(Texts))
    BY AnswerIs
  <2>2. SubSeq(a.lines, n + 1, Len(a.lines)) = <<>> /\ SubSeq(a.chunks, c + 1, Len(a.chunks)) = <<>>
    BY <1>3, <1>5 DEF Came
  <2>3. SubSeq(a.lines, 1, n) = a.lines
    BY <2>1, <2>2, AllCame
  <2> DEFINE T == Seq(Texts)
  <2>4. a.chunks \in Seq(T)
    BY <2>1
  <2> HIDE DEF T
  <2>5. SubSeq(a.chunks, 1, c) = a.chunks
    BY <2>2, <2>4, AllCame
  <2> QED BY <2>3, <2>5
<1>7. IsAnswer(info', a)
  BY <1>1, <1>5, <1>6 DEF IsAnswer, Came
<1>8. InfoInv'
  BY <1>7 DEF InfoInv
<1>9. TypesInv'
  <2>1. info'.header \in Seq(Symbols) /\ info'.pairs \in Seq(Pairs)
    BY <1>1, <1>2, WithinIs
  <2> QED BY <1>1, <2>1 DEF HandleInv, TypesInv
<1>10. FieldsInv' /\ UrlInv' /\ Sound(rcvd.header)' /\ Sound(rcvd.body)'
  BY <1>1 DEF HandleInv, FieldsInv, UrlInv, Sound
<1>11. MomentInv'
  BY <1>1 DEF MomentInv
<1> QED BY <1>8, <1>9, <1>10, <1>11 DEF HandleInv

LEMMA SoundEmptied ==
  ASSUME NEW b, Sound(b), NEW e, e = [b EXCEPT !.len = 0]
  PROVE  Sound(e) /\ e.len = 0 /\ e \in Buffers
<1>1. /\ b = [buf |-> b.buf, size |-> b.size, len |-> b.len] /\ b.buf \in Seq(Symbols)
      /\ b.size \in Nat /\ b.len \in Nat /\ Len(b.buf) \in Nat
  BY LenProperties DEF Sound, Buffers
<1>2. e = [buf |-> b.buf, size |-> b.size, len |-> 0]
  BY <1>1
<1>3. e # EmptyBuffer => b # EmptyBuffer
  BY <1>1, <1>2 DEF EmptyBuffer
<1>4. b # EmptyBuffer => b.len + 1 <= b.size /\ Len(b.buf) <= b.size
  BY DEF Sound
<1>5. e \in Buffers
  BY <1>1, <1>2 DEF Buffers
<1>6. e # EmptyBuffer => 1 <= e.size /\ Len(e.buf) <= e.size
  BY <1>1, <1>2, <1>3, <1>4
<1>7. e.len = 0 /\ e.len <= Len(e.buf) /\ e.len + 1 = 1
  BY <1>1, <1>2
<1> QED BY <1>5, <1>6, <1>7 DEF Sound

LEMMA Stopped == HandleInv /\ Stop => HandleInv'
<1> SUFFICES ASSUME HandleInv, Stop PROVE HandleInv'
  OBVIOUS
<1>1. /\ moment' = "idle" /\ rcvd' = Emptied(rcvd)
      /\ option' = [option EXCEPT !.mime = IF @ = "allocated" THEN "freed" ELSE @]
      /\ UNCHANGED <<request, url, fields, reply, info, requests>>
  BY DEF Stop
<1>2. /\ rcvd \in [header : Buffers, body : Buffers, pairs : Seq(Pairs)]
      /\ Sound(rcvd.header) /\ Sound(rcvd.body) /\ option \in Options
  BY DEF HandleInv, TypesInv, Options
<1>3. PICK h, b : h = [rcvd.header EXCEPT !.len = 0] /\ b = [rcvd.body EXCEPT !.len = 0]
  OBVIOUS
<1>4. /\ Sound(h) /\ h.len = 0 /\ h \in Buffers
      /\ Sound(b) /\ b.len = 0 /\ b \in Buffers
  BY <1>2, <1>3, SoundEmptied
<1>5. rcvd' = [header |-> h, body |-> b, pairs |-> <<>>]
  <2>1. PICK r : r = [rcvd EXCEPT !.header = h]
    OBVIOUS
  <2>2. r = [header |-> h, body |-> rcvd.body, pairs |-> rcvd.pairs]
    BY <1>2, <2>1
  <2>3. PICK q : q = [r EXCEPT !.body = b]
    OBVIOUS
  <2>4. q = [header |-> h, body |-> b, pairs |-> rcvd.pairs]
    BY <2>2, <2>3
  <2>5. Emptied(rcvd) = [q EXCEPT !.pairs = <<>>]
    BY <1>3, <2>1, <2>3 DEF Emptied
  <2> QED BY <1>1, <2>4, <2>5
<1>6. option' \in Options
  BY <1>1, <1>2 DEF Options
<1>7. TypesInv'
  <2>1. rcvd' \in [header : Buffers, body : Buffers, pairs : Seq(Pairs)]
    BY <1>4, <1>5
  <2> QED BY <1>1, <1>6, <2>1 DEF HandleInv, TypesInv, Options
<1>8. FieldsInv' /\ UrlInv' /\ InfoInv'
  BY <1>1 DEF HandleInv, FieldsInv, UrlInv, InfoInv
<1>9. rcvd'.header = h /\ rcvd'.body = b /\ rcvd'.pairs = <<>>
  BY <1>5
<1>10. Sound(rcvd.header)' /\ Sound(rcvd.body)'
  BY <1>4, <1>9 DEF Sound
<1>11. MomentInv'
  BY <1>1, <1>4, <1>9 DEF MomentInv
<1> QED BY <1>7, <1>8, <1>10, <1>11 DEF HandleInv

LEMMA HandleStarts == ConnectionInit => HandleInv
<1> SUFFICES ASSUME ConnectionInit PROVE HandleInv
  OBVIOUS
<1>1. /\ request \in Demands
      /\ url = [text |-> <<>>, size |-> 0]
      /\ fields = <<[name |-> "user-agent", value |-> <<"orca">>, room |-> 1]>>
      /\ option = [custom |-> NoMethod, kind |-> "GET", body |-> <<>>, mime |-> "none"]
      /\ reply \in Answers /\ rcvd = [header |-> EmptyBuffer, pairs |-> <<>>, body |-> EmptyBuffer]
      /\ info = NoInfo /\ moment = "idle"
  BY DEF ConnectionInit
<1>2. Sound(EmptyBuffer)
  BY DEF Sound, EmptyBuffer, Buffers
<1>3. fields \in Seq(Nodes) /\ FieldsInv
  <2> DEFINE agent == [name |-> "user-agent", value |-> <<"orca">>, room |-> 1]
  <2>1. agent \in Nodes /\ Len(agent.value) <= agent.room
    <3>1. <<"orca">> \in Seq(Symbols) /\ "user-agent" \in Symbols /\ Len(<<"orca">>) = 1
      BY DEF Symbols
    <3> QED BY <3>1 DEF Nodes
  <2>2. fields = <<agent>>
    BY <1>1
  <2> HIDE DEF agent
  <2>3. fields \in Seq(Nodes) /\ Len(fields) = 1 /\ fields[1] = agent
    BY <2>1, <2>2
  <2> QED BY <2>1, <2>3 DEF FieldsInv
<1>4. option \in Options
  BY <1>1 DEF Options, NoMethod
<1>5. TypesInv
  <2>1. reply \in [code : Nat, lines : Seq(Lines), chunks : Seq(Seq(Texts))]
    BY <1>1, AnswerIs
  <2>2. rcvd \in [header : Buffers, body : Buffers, pairs : Seq(Pairs)]
    BY <1>1, <1>2 DEF Sound
  <2>3. url \in [text : Seq(Texts), size : Nat]
    BY <1>1
  <2>4. info.header \in Seq(Symbols) /\ info.pairs \in Seq(Pairs)
    BY <1>1 DEF NoInfo
  <2> QED BY <1>1, <1>3, <1>4, <2>1, <2>2, <2>3, <2>4 DEF TypesInv, Options
<1>6. UrlInv /\ InfoInv
  BY <1>1 DEF UrlInv, InfoInv
<1>7. Sound(rcvd.header) /\ Sound(rcvd.body) /\ rcvd.header.len = 0 /\ rcvd.body.len = 0 /\ rcvd.pairs = <<>>
  <2>1. rcvd.header = EmptyBuffer /\ rcvd.body = EmptyBuffer /\ rcvd.pairs = <<>>
    BY <1>1
  <2>2. EmptyBuffer.len = 0
    BY DEF EmptyBuffer
  <2> QED BY <1>2, <2>1, <2>2
<1>8. MomentInv
  BY <1>1, <1>7 DEF MomentInv
<1> QED BY <1>3, <1>5, <1>6, <1>7, <1>8 DEF HandleInv

-----------------------------------------------------------------------------
(* What follows *)

\* ok_cb is for the codes that are no error.
LEMMA CallbackIs == \A c \in Nat : Callback(c) = "ok_cb" <=> OrcaCode(c) = "ORCA_OK"
<1> TAKE c \in Nat
<1>1. CASE c \in 200..299
  <2>1. c \notin 400..599
    BY <1>1
  <2>2. Callback(c) = "ok_cb"
    BY <1>1, <2>1 DEF Callback
  <2>3. OrcaCode(c) = "ORCA_OK"
    <3>1. c \notin (100..199) \cup (300..999) /\ c \notin 1..99
      BY <1>1
    <3> QED BY <1>1, <3>1 DEF OrcaCode
  <2> QED BY <2>2, <2>3
<1>2. CASE c \notin 200..299
  BY <1>2 DEF Callback, OrcaCode
<1> QED BY <1>1, <1>2

LEMMA AnswersGiven == HandleInv => InfoIsAnswer
<1> SUFFICES ASSUME HandleInv, info # NoInfo
             PROVE  \E a \in Answers :
      LET lines == WithColon(a.lines) IN
        /\ info.httpcode = a.code /\ info.body = FlattenSeq(a.chunks) /\ Len(info.pairs) = Len(lines)
        /\ [i \in DOMAIN info.pairs |-> SliceOf(info.header, info.pairs[i].field)] = [i \in DOMAIN lines |-> <<lines[i].field>>]
        /\ \A i \in DOMAIN lines : SliceOf(info.header, info.pairs[i].value) = lines[i].value
        /\ info.called = "ok_cb" <=> info.code = "ORCA_OK"
  BY Zenon DEF InfoIsAnswer
<1>1. PICK a \in Answers : IsAnswer(info, a)
  BY DEF HandleInv, InfoInv
<1> DEFINE lines == WithColon(a.lines)
<1>2. a.lines \in Seq(Lines) /\ a.code \in Nat
  BY AnswerIs
<1>3. lines \in Seq(Lines)
  BY <1>2, WithColonIs
<1>4. info.pairs \in Seq(Pairs)
  BY DEF HandleInv, TypesInv
<1>5. /\ info.httpcode = a.code /\ info.code = OrcaCode(a.code) /\ info.called = Callback(a.code)
      /\ Shows(info.header, info.pairs, lines) /\ info.body = FlattenSeq(a.chunks)
  BY <1>1 DEF IsAnswer
<1> HIDE DEF lines
<1>6. Len(info.pairs) = Len(lines) /\ DOMAIN info.pairs = 1..Len(lines) /\ DOMAIN lines = 1..Len(lines)
  <2>1. Len(info.pairs) = Len(lines)
    BY <1>5 DEF Shows
  <2> QED BY <1>3, <1>4, <2>1, LenProperties
<1>7. /\ \A i \in 1..Len(lines) : SliceOf(info.header, info.pairs[i].field) = <<lines[i].field>>
      /\ \A i \in 1..Len(lines) : SliceOf(info.header, info.pairs[i].value) = lines[i].value
  BY <1>5 DEF Shows
<1>8. [i \in DOMAIN info.pairs |-> SliceOf(info.header, info.pairs[i].field)]
        = [i \in DOMAIN lines |-> <<lines[i].field>>]
  BY <1>6, <1>7
<1>9. info.called = "ok_cb" <=> info.code = "ORCA_OK"
  BY <1>2, <1>5, CallbackIs
<1> QED BY <1>5, <1>6, <1>7, <1>8, <1>9 DEF lines

\* The line that is selected is the first that has the field.
LEMMA FirstIs ==
  ASSUME NEW lines \in Seq(Lines), NEW f, NEW n \in 1..Len(lines), lines[n].field = f,
         NEW I, I = {k \in 1..Len(lines) : lines[k].field = f}
  PROVE  I # {} /\ Min(I) # 0 /\ FirstHas(lines, f, lines[Min(I)].value)
<1>1. I # {} /\ I \subseteq Nat
  BY LenProperties
<1>2. Min(I) \in I /\ \A i \in I : Min(I) <= i
  BY <1>1, MinIs
<1>3. PICK j : j = Min(I)
  OBVIOUS
<1>4. j \in 1..Len(lines) /\ lines[j].field = f /\ \A k \in 1..Len(lines) : lines[k].field = f => j <= k
  BY <1>2, <1>3
<1>5. j # 0
  BY <1>4
<1>6. FirstHas(lines, f, lines[j].value)
  BY <1>4 DEF FirstHas
<1> QED BY <1>1, <1>3, <1>5, <1>6

\* A field that a line has is found with the value of the first such line.
LEMMA HeaderIsFound ==
  ASSUME NEW i, NEW lines \in Seq(Lines), NEW f, NEW v, i.pairs \in Seq(Pairs),
         Shows(i.header, i.pairs, lines), FirstHas(lines, f, v)
  PROVE  GetHeader(i, f) = v
<1> DEFINE I == {k \in 1..Len(i.pairs) : SliceOf(i.header, i.pairs[k].field) = <<f>>}
<1>1. GetHeader(i, f) = IF (IF I # {} THEN Min(I) ELSE 0) = 0 THEN <<"NULL">>
                        ELSE SliceOf(i.header, i.pairs[IF I # {} THEN Min(I) ELSE 0].value)
  BY Zenon DEF GetHeader, SelectInSeq
<1>2. /\ Len(i.pairs) = Len(lines) /\ Len(lines) \in Nat
      /\ \A k \in 1..Len(lines) : SliceOf(i.header, i.pairs[k].field) = <<lines[k].field>>
      /\ \A k \in 1..Len(lines) : SliceOf(i.header, i.pairs[k].value) = lines[k].value
  BY LenProperties DEF Shows
<1>3. PICK j \in 1..Len(lines) :
        /\ lines[j].field = f /\ lines[j].value = v
        /\ \A k \in 1..Len(lines) : lines[k].field = f => j <= k
  BY DEF FirstHas
<1>4. \A k : k \in I <=> k \in 1..Len(lines) /\ lines[k].field = f
  BY <1>2
<1> HIDE DEF I
<1>5. j \in I /\ I \subseteq Nat /\ \A k \in I : j <= k
  BY <1>2, <1>3, <1>4
<1>6. Min(I) \in I /\ \A k \in I : Min(I) <= k
  BY <1>5, MinIs
<1>7. Min(I) = j
  <2>1. Min(I) <= j /\ j <= Min(I) /\ Min(I) \in Nat /\ j \in Nat
    BY <1>5, <1>6
  <2> QED BY <2>1
<1>8. j # 0 /\ I # {}
  BY <1>3, <1>5
<1>9. GetHeader(i, f) = SliceOf(i.header, i.pairs[j].value)
  BY <1>1, <1>7, <1>8
<1> QED BY <1>2, <1>3, <1>9

\* A field that no line has is not found.
LEMMA HeaderIsMissing ==
  ASSUME NEW i, NEW lines \in Seq(Lines), NEW f, Shows(i.header, i.pairs, lines), NoneHas(lines, f)
  PROVE  GetHeader(i, f) = <<"NULL">>
<1> DEFINE I == {k \in 1..Len(i.pairs) : SliceOf(i.header, i.pairs[k].field) = <<f>>}
<1>1. GetHeader(i, f) = IF (IF I # {} THEN Min(I) ELSE 0) = 0 THEN <<"NULL">>
                        ELSE SliceOf(i.header, i.pairs[IF I # {} THEN Min(I) ELSE 0].value)
  BY Zenon DEF GetHeader, SelectInSeq
<1>2. /\ Len(i.pairs) = Len(lines) /\ Len(lines) \in Nat
      /\ \A k \in 1..Len(lines) : SliceOf(i.header, i.pairs[k].field) = <<lines[k].field>>
  BY LenProperties DEF Shows
<1>3. I = {}
  BY <1>2 DEF NoneHas
<1> QED BY <1>1, <1>3, Zenon

LEMMA HeadersFound == HandleInv => HeadersAreFound
<1> DEFINE FirstOf(a, f) == SelectInSeq(a.lines, LAMBDA line : line.field = f)
           Found(a, f) == GetHeader(info, f) = IF FirstOf(a, f) = 0 THEN <<"NULL">> ELSE a.lines[FirstOf(a, f)].value
<1> SUFFICES ASSUME HandleInv, info # NoInfo
             PROVE  \E a \in Answers : a.code = info.httpcode /\ \A f \in Texts \ {""} : Found(a, f)
  BY Zenon DEF HeadersAreFound
<1>1. PICK a \in Answers : IsAnswer(info, a)
  BY DEF HandleInv, InfoInv
<1>2. a.lines \in Seq(Lines) /\ Len(a.lines) \in Nat
  BY AnswerIs, LenProperties
<1>3. info.pairs \in Seq(Pairs) /\ WithColon(a.lines) \in Seq(Lines)
  BY <1>2, WithColonIs DEF HandleInv, TypesInv
<1>4. a.code = info.httpcode /\ Shows(info.header, info.pairs, WithColon(a.lines))
  BY <1>1 DEF IsAnswer
<1>5. ASSUME NEW f \in Texts \ {""} PROVE Found(a, f)
  <2> DEFINE I == {k \in 1..Len(a.lines) : a.lines[k].field = f}
             j == Min(I)
  <2>1. Named(f) /\ f \in Texts
    BY <1>5, Zenon DEF Named
  <2>2. FirstOf(a, f) = IF I # {} THEN Min(I) ELSE 0
    BY Zenon DEF SelectInSeq
  <2>3. \A v : FirstIsKept(a.lines, f, v)
    BY <1>2, <2>1, FirstKept, Zenon
  <2>4. CASE I = {}
    <3>1. NoneHas(a.lines, f)
      BY <2>4, Zenon DEF NoneHas
    <3>2. NoneHas(WithColon(a.lines), f)
      BY <2>3, <3>1, Zenon DEF FirstIsKept
    <3>3. GetHeader(info, f) = <<"NULL">>
      BY <1>3, <1>4, <3>2, HeaderIsMissing, Zenon
    <3>4. FirstOf(a, f) = 0
      BY <2>2, <2>4, Zenon
    <3> QED BY <3>3, <3>4, Zenon
  <2>5. CASE I # {}
    <3>1. PICK k \in 1..Len(a.lines) : a.lines[k].field = f
      BY <2>5, Zenon
    <3>2. PICK lines \in Seq(Lines) : lines = a.lines
      BY <1>2, Zenon
    <3>3. j # 0 /\ FirstHas(lines, f, lines[Min(I)].value)
      BY <3>1, <3>2, FirstIs, Zenon
    <3>4. FirstHas(WithColon(a.lines), f, a.lines[j].value)
      BY <2>3, <3>2, <3>3, Zenon DEF FirstIsKept
    <3>5. GetHeader(info, f) = a.lines[j].value
      BY <1>3, <1>4, <3>4, HeaderIsFound, Zenon
    <3>6. FirstOf(a, f) = j
      BY <2>2, <2>5, Zenon
    <3> QED BY <3>3, <3>5, <3>6, Zenon
  <2> QED BY <2>4, <2>5, Zenon
<1> QED BY <1>4, <1>5, Zenon

LEMMA Apart == HandleInv => RequestsAreApart
<1> SUFFICES ASSUME HandleInv PROVE RequestsAreApart
  OBVIOUS
<1>1. SentIsAsked
  <2>1. moment = "perform" => SentIsAsked
    BY DEF HandleInv, MomentInv
  <2>2. moment # "perform" => SentIsAsked
    BY Zenon DEF SentIsAsked
  <2> QED BY <2>1, <2>2
<1>2. BuffersHold
  <2>1. url.text # <<>> => Len(url.text) + 1 <= url.size
    BY DEF HandleInv, UrlInv
  <2>2. \A i \in DOMAIN fields : Len(fields[i].value) <= fields[i].room
    BY LenProperties DEF HandleInv, TypesInv, FieldsInv
  <2>3. \A b \in {rcvd.header, rcvd.body} : b # EmptyBuffer => b.len + 1 <= b.size /\ Len(b.buf) <= b.size
    BY DEF HandleInv, Sound
  <2> QED BY <2>1, <2>2, <2>3, Zenon DEF BuffersHold
<1> QED BY <1>1, <1>2, AnswersGiven, HeadersFound DEF RequestsAreApart

LEMMA HandleStep == HandleInv /\ [ConnectionNext]_connectionVars => HandleInv'
<1> SUFFICES ASSUME HandleInv, [ConnectionNext]_connectionVars PROVE HandleInv'
  OBVIOUS
<1>1. CASE ConnectionNext
  BY <1>1, HeaderAdded, IsSetUp, Performed, HeaderCame, BodyCame, PerformEnds, InfoExtracted, Stopped
     DEF ConnectionNext
<1>2. CASE UNCHANGED connectionVars
  <2>1. UNCHANGED <<request, url, fields, option, reply, rcvd, info, moment>>
    BY <1>2 DEF connectionVars
  <2>2. TypesInv' /\ FieldsInv' /\ UrlInv' /\ InfoInv' /\ Sound(rcvd.header)' /\ Sound(rcvd.body)'
    BY <2>1 DEF HandleInv, TypesInv, FieldsInv, UrlInv, InfoInv, Sound
  <2>3. MomentInv'
    BY <2>1 DEF HandleInv, MomentInv, HasField, SentIsAsked, Received, Came
  <2> QED BY <2>2, <2>3 DEF HandleInv
<1> QED BY <1>1, <1>2

\* Whatever was asked and answered on a connection handle before, what the next request
\* sends is its own, no buffer of user-agent.c is written beyond its memory, and what
\* the caller is given is the answer to this request, its fields with their values.
THEOREM RequestsApart == ConnectionSpec => []RequestsAreApart
<1>1. ConnectionSpec => []HandleInv
  BY HandleStarts, HandleStep, PTL DEF ConnectionSpec
<1> QED BY <1>1, Apart, PTL
===============================================================================
