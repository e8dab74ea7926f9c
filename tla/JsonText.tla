------------------------------ MODULE JsonText ------------------------------
(***************************************************************************)
(* JSON values and their text, to which the JSON modules compare the       *)
(* program.  A text is a sequence of tokens: <<"{">>, <<"}">>, <<"[">>,    *)
(* <<"]">>, <<":">>, <<",">>, <<"key", k>> and scalars <<type, value>>.    *)
(* Blanks and the spelling of scalars are left out; a string is Plain or   *)
(* Quoting, which contains a quotation mark.                               *)
(***************************************************************************)
EXTENDS Naturals, Sequences, SequencesExt

Plain   == "plain"
Quoting == "quoting"
Composite == {"object", "array"}
Scalars == {"string", "number", "boolean", "null"}
\* A JSON value.  "m" is a series of <<key, value>>; the key of an element is its index.
ScalarOf(t, v) == [t |-> t, v |-> v]
Branches(t, m) == [t |-> t, m |-> m]

Index(n) == <<"0", "1", "2", "3", "4", "5">>[n + 1]

\* The text of a value, by the grammar of JSON.
RECURSIVE Text(_)
Text(val) ==
  IF val.t \notin Composite THEN <<<<val.t, val.v>>>>
  ELSE LET member(p) == (IF val.t = "object" THEN <<<<"key", p[1]>>, <<":">>>> ELSE <<>>) \o Text(p[2])
           list == FoldLeft(LAMBDA s, p : s \o (IF s = <<>> THEN <<>> ELSE <<<<",">>>>) \o member(p), <<>>, val.m)
       IN IF val.t = "object" THEN <<<<"{">>>> \o list \o <<<<"}">>>> ELSE <<<<"[">>>> \o list \o <<<<"]">>>>

\* The text as jsmn.h sees it.
Lexed(text) ==
  LET lexed(m) == CASE m[1] \in {"key", "string"} -> <<"str", m[2]>>
                    [] m[1] \in {"number", "boolean", "null"} -> <<"prim", m[2]>>
                    [] OTHER -> m
  IN  [i \in DOMAIN text |-> lexed(text[i])]

\* The value at a path of keys in another one; of equal keys, the first.
Absent == [t |-> "absent"]
RECURSIVE Lookup(_, _)
Lookup(val, path) ==
  IF path = <<>> THEN val
  ELSE IF val.t \notin Composite THEN Absent
  ELSE LET i == SelectInSeq(val.m, LAMBDA p : p[1] = Head(path))
       IN  IF i = 0 THEN Absent ELSE Lookup(val.m[i][2], Tail(path))
=============================================================================
