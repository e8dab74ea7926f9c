----------------------------- MODULE JsonString -----------------------------
(***************************************************************************)
(* json-string.c: strings in JSON and in URLs.  A string is a sequence of  *)
(* bytes.  A behaviour converts one string forth and back, or reads one    *)
(* that came from elsewhere.                                               *)
(***************************************************************************)
EXTENDS Naturals, Sequences, SequencesExt, TLC

CONSTANTS
  Strings,    \* strings of the program
  Received,   \* strings between the quotation marks of a received text
  Characters  \* byte sequences that are or are not one character in UTF-8

VARIABLES
  source,   \* the string
  use,      \* "escape", "unescape", "url" or "utf8"
  phase,    \* "start", "measured", "forth", "back"
  length,   \* *output_len_p
  escaped,  \* what json_string_escape or url_encode returned
  plain     \* what json_string_unescape, url_decode or next returned: [ok, bytes]

stringVars == <<source, use, phase, length, escaped, plain>>

Byte == 0..255
Bytes(s) == FlattenSeq(s)
Failure == [ok |-> FALSE, bytes |-> <<>>]
Success(s) == [ok |-> TRUE, bytes |-> s]

-----------------------------------------------------------------------------
(* UTF-8 *)

\* utf_valid
ValidCode(v) == v <= 1114111 /\ v \notin 55296..57343

\* utf8_trail_length, 4 for -1
TrailLength(c) == CASE c < 128 -> 0
                    [] c \in 194..223 -> 1
                    [] c \in 224..239 -> 2
                    [] c \in 240..244 -> 3
                    [] OTHER -> 4
IsTrail(c) == c \in 128..191

\* utf8_width
Width(v) == CASE v <= 127 -> 1 [] v \in 128..2047 -> 2 [] v \in 2048..65535 -> 3 [] OTHER -> 4

\* Mutant of Utf8Next: a longer form than needed is accepted.
Utf8Next_AnyForm(s, i) ==
  LET n == TrailLength(s[i])
      trail == SubSeq(s, i + 1, i + n)
      code == FoldLeft(LAMBDA c, t : c * 64 + (t % 64), s[i] % (2 ^ (6 - n)), trail)
  IN  IF n = 0 THEN [code |-> s[i], at |-> i + 1]
      ELSE IF n = 4 \/ Len(s) < i + n THEN [code |-> 0, at |-> 0]
      ELSE IF (\E t \in ToSet(trail) : ~IsTrail(t)) \/ ~ValidCode(code) THEN [code |-> 0, at |-> 0]
      ELSE [code |-> code, at |-> i + n + 1]

\* next without html: the character at i and the place after it, 0 for utf_illegal.
Utf8Next(s, i) ==
  LET n == TrailLength(s[i])
      trail == SubSeq(s, i + 1, i + n)
      code == FoldLeft(LAMBDA c, t : c * 64 + (t % 64), s[i] % (2 ^ (6 - n)), trail)
  IN  IF n = 0 THEN [code |-> s[i], at |-> i + 1]
      ELSE IF n = 4 \/ Len(s) < i + n THEN [code |-> 0, at |-> 0]
      ELSE IF (\E t \in ToSet(trail) : ~IsTrail(t)) \/ ~ValidCode(code) \/ Width(code) # n + 1
      THEN [code |-> 0, at |-> 0]
      ELSE [code |-> code, at |-> i + n + 1]

\* utf8_validate
RECURSIVE ValidFrom(_, _)
ValidFrom(s, i) ==
  IF i > Len(s) THEN TRUE ELSE LET r == Utf8Next(s, i) IN IF r.at = 0 THEN FALSE ELSE ValidFrom(s, r.at)

\* utf8_encode
Utf8(v) == CASE Width(v) = 1 -> <<v>>
             [] Width(v) = 2 -> <<192 + v \div 64, 128 + (v % 64)>>
             [] Width(v) = 3 -> <<224 + v \div 4096, 128 + ((v \div 64) % 64), 128 + (v % 64)>>
             [] OTHER -> <<240 + v \div 262144, 128 + ((v \div 4096) % 64), 128 + ((v \div 64) % 64), 128 + (v % 64)>>

-----------------------------------------------------------------------------
(* json_string_escape and json_string_unescape *)

Quote == 34
Backslash == 92
\* The letter after the backslash, of what has one.
Short == (34 :> 34) @@ (92 :> 92) @@ (8 :> 98) @@ (12 :> 102) @@ (10 :> 110) @@ (13 :> 114) @@ (9 :> 116)
HexDigit(n) == IF n < 10 THEN 48 + n ELSE 87 + n

\* Mutant of Escape: a control character has one digit.
Escape_OneDigit(c) ==
  CASE c \in DOMAIN Short -> <<Backslash, Short[c]>>
    [] c \notin DOMAIN Short /\ c <= 31 -> <<Backslash, 117, 48, 48, 48, HexDigit(c % 16)>>
    [] OTHER -> <<c>>

Escape(c) ==
  CASE c \in DOMAIN Short -> <<Backslash, Short[c]>>
    [] c \notin DOMAIN Short /\ c <= 31 -> <<Backslash, 117, 48, 48, HexDigit(c \div 16), HexDigit(c % 16)>>
    [] OTHER -> <<c>>

\* Mutant of ExtraBytes: the escaped character is not one of the bytes that are there.
ExtraBytes_All(s) ==
  FoldLeft(LAMBDA n, c : IF Escape(c) = <<c>> THEN n ELSE n + Len(Escape(c)), 0, s)

\* What the first iteration counts.
ExtraBytes(s) == FoldLeft(LAMBDA n, c : n + Len(Escape(c)) - 1, 0, s)

EscapeCount ==
  /\ use = "escape" /\ phase = "start"
  /\ length' = Len(source) + ExtraBytes(source)
  /\ IF length' = Len(source) THEN escaped' = source /\ phase' = "forth"
     ELSE UNCHANGED escaped /\ phase' = "measured"
  /\ UNCHANGED <<source, use, plain>>

EscapeWrite ==
  /\ use = "escape" /\ phase = "measured" /\ phase' = "forth"
  /\ escaped' = Bytes([i \in DOMAIN source |-> Escape(source[i])])
  /\ UNCHANGED <<source, use, length, plain>>

IsHex(c) == c \in 48..57 \/ c \in 65..70 \/ c \in 97..102
HexValue(c) == CASE c <= 57 -> c - 48 [] c \in 65..70 -> c - 55 [] OTHER -> c - 87
\* read_4_digits, 65536 if there are none
Digits4(s, i) ==
  IF i + 3 > Len(s) \/ \E j \in i .. i + 3 : j \in DOMAIN s /\ ~IsHex(s[j]) THEN 65536
  ELSE FoldLeft(LAMBDA v, c : v * 16 + HexValue(c), 0, SubSeq(s, i, i + 3))
FirstSurrogate(x) == x \in 55296..56319
SecondSurrogate(x) == x \in 56320..57343
\* utf16_combine_surrogate
Combined(w1, w2) == (w1 % 1024) * 1024 + (w2 % 1024) + 65536

\* The UNESCAPING iteration from place i, with first_surrogate if the second one
\* is expected, 0 otherwise, and the bytes before d.  A first surrogate at the
\* end is lost.
RECURSIVE UnescapeFrom(_, _, _, _)
UnescapeFrom(s, i, first, d) ==
  IF i > Len(s) THEN Success(d)
  ELSE IF s[i] <= 31 \/ (first # 0 /\ s[i] # Backslash) THEN Failure
  ELSE IF s[i] # Backslash THEN UnescapeFrom(s, i + 1, 0, Append(d, s[i]))
  ELSE IF i = Len(s) THEN Failure
  ELSE IF s[i + 1] = 117
  THEN LET x == Digits4(s, i + 2) IN
       CASE x = 65536 \/ (first # 0 /\ ~SecondSurrogate(x)) -> Failure
         [] first # 0 /\ SecondSurrogate(x) -> UnescapeFrom(s, i + 6, 0, d \o Utf8(Combined(first, x)))
         [] first = 0 /\ FirstSurrogate(x) -> UnescapeFrom(s, i + 6, x, d)
         [] OTHER -> UnescapeFrom(s, i + 6, 0, d \o Utf8(x))
  ELSE LET byte == {c \in DOMAIN Short : Short[c] = s[i + 1]} \cup ({47} \cap {s[i + 1]})
       IN  IF first # 0 \/ byte = {} THEN Failure
           ELSE UnescapeFrom(s, i + 2, 0, Append(d, CHOOSE c \in byte : TRUE))

\* The bytes before the first backslash, which are all that TESTING looks at.
Tested(s) == LET k == SelectInSeq(s, LAMBDA c : c = Backslash) IN IF k = 0 THEN s ELSE SubSeq(s, 1, k - 1)

\* Mutant of Restored: what came out is not validated.
Restored_Any(s) ==
  IF \E c \in ToSet(Tested(s)) : c <= 31 THEN Failure
  ELSE IF Tested(s) = s THEN Success(s) ELSE UnescapeFrom(s, 1, 0, <<>>)

\* Without a backslash the input is the output, whatever its bytes are.
Restored(s) ==
  IF \E c \in ToSet(Tested(s)) : c <= 31 THEN Failure
  ELSE IF Tested(s) = s THEN Success(s)
  ELSE LET r == UnescapeFrom(s, 1, 0, <<>>)
       IN  IF r.ok THEN IF ValidFrom(r.bytes, 1) THEN r ELSE Failure ELSE Failure

Unescape ==
  /\ \/ use = "escape" /\ phase = "forth" /\ plain' = Restored(escaped)
     \/ use = "unescape" /\ phase = "start" /\ plain' = Restored(source)
  /\ phase' = "back"
  /\ UNCHANGED <<source, use, length, escaped>>

-----------------------------------------------------------------------------
(* url_encode and url_decode, for strings that end at their NUL *)

Unreserved(c) == c \in (48..57) \cup (65..90) \cup (97..122) \cup {45, 95, 46, 126}

\* Mutant of UrlByte: a percent sign is written as it is.
UrlByte_Percent(c) == IF Unreserved(c) \/ c = 37 THEN <<c>> ELSE <<37, HexDigit(c \div 16), HexDigit(c % 16)>>

UrlByte(c) == IF Unreserved(c) THEN <<c>> ELSE <<37, HexDigit(c \div 16), HexDigit(c % 16)>>

\* A percent sign without two characters after it is dropped.
RECURSIVE UrlDecoded(_, _)
UrlDecoded(s, i) ==
  IF i > Len(s) THEN <<>>
  ELSE CASE s[i] = 37 /\ i + 2 <= Len(s) ->
              <<(HexValue(s[i + 1]) * 16 + HexValue(s[i + 2])) % 256>> \o UrlDecoded(s, i + 3)
         [] s[i] = 37 /\ i + 2 > Len(s) -> UrlDecoded(s, i + 1)
         [] s[i] # 37 -> <<IF s[i] = 43 THEN 32 ELSE s[i]>> \o UrlDecoded(s, i + 1)

UrlEncode ==
  /\ use = "url" /\ phase = "start" /\ phase' = "forth"
  /\ escaped' = Bytes([i \in DOMAIN source |-> UrlByte(source[i])])
  /\ UNCHANGED <<source, use, length, plain>>

UrlDecode ==
  /\ use = "url" /\ phase = "forth" /\ phase' = "back"
  /\ plain' = Success(UrlDecoded(escaped, 1))
  /\ UNCHANGED <<source, use, length, escaped>>

-----------------------------------------------------------------------------

StringInit == source = <<>> /\ use = "none" /\ phase = "start" /\ length = 0 /\ escaped = <<>> /\ plain = Failure

\* A call of one of the functions by the JSON modules.
Call ==
  /\ use = "none"
  /\ \/ use' \in {"escape", "url"} /\ source' \in Strings
     \/ use' = "unescape" /\ source' \in Received
     \/ use' = "utf8" /\ source' \in Characters
  /\ UNCHANGED <<phase, length, escaped, plain>>

\* The first character of a string, encoded again.
Recode ==
  /\ use = "utf8" /\ phase = "start" /\ phase' = "back"
  /\ LET r == Utf8Next(source, 1)
     IN  plain' = IF r.at = 0 THEN Failure ELSE Success(Utf8(r.code) \o SubSeq(source, r.at, Len(source)))
  /\ UNCHANGED <<source, use, length, escaped>>

StringNext == Call \/ EscapeCount \/ EscapeWrite \/ Unescape \/ UrlEncode \/ UrlDecode \/ Recode

-----------------------------------------------------------------------------
(* Properties *)

\* A string in UTF-8 that is written into a JSON text is read as it was.
EscapedIsBack == use = "escape" /\ phase = "back" /\ ValidFrom(source, 1) => plain = Success(source)

\* Where a reader of JSON finds the end of a string.
RECURSIVE EndOf(_, _)
EndOf(s, i) == CASE i > Len(s) -> i
                 [] i <= Len(s) /\ s[i] = Quote -> i
                 [] i <= Len(s) /\ s[i] = Backslash -> EndOf(s, i + 2)
                 [] i <= Len(s) /\ s[i] \notin {Quote, Backslash} -> EndOf(s, i + 1)

\* The memory for the escaped string is as long as what is written into it; its
\* text goes on to its end and has no control character.
EscapeFits ==
  use = "escape" /\ phase \in {"forth", "back"} =>
    /\ length = Len(escaped) /\ EndOf(escaped, 1) = length + 1
    /\ \A i \in DOMAIN escaped : escaped[i] > 31

\* What is read from escapes is in UTF-8, and shorter than the memory for it, which
\* is as long as the input: the callers rely on the NUL after it.
UnescapedIsValid ==
  phase = "back" /\ use \in {"escape", "unescape"} /\ plain.ok =>
    LET input == IF use = "escape" THEN escaped ELSE source IN
      plain.bytes # input => ValidFrom(plain.bytes, 1) /\ Len(plain.bytes) < Len(input)

\* UTF-8 is read in its shortest form only, and no surrogate: what is accepted is
\* what utf8_encode writes.
OneFormEach == use = "utf8" /\ phase = "back" /\ plain.ok => plain.bytes = source

\* A string comes back from a URL, in which only unreserved bytes and escapes are.
UrlIsBack ==
  use = "url" => /\ phase = "back" => plain = Success(source)
                 /\ \A i \in DOMAIN escaped : Unreserved(escaped[i]) \/ escaped[i] = 37

\* Strings come back from JSON texts and URLs as they were, in the memory there is for
\* them, and what is no character in UTF-8 is not taken for one.
StringsComeBack ==
  /\ EscapedIsBack
  /\ EscapeFits
  /\ UnescapedIsValid
  /\ OneFormEach
  /\ UrlIsBack
=============================================================================
