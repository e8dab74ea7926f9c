-------------------------------- MODULE Jsmn --------------------------------
(***************************************************************************)
(* The tokens of a JSON text: jsmn.h as json-actor.c and json-scanf.c use  *)
(* it (strict, with parent links).  A text is parsed twice: once without   *)
(* room for tokens, to count them, and once to fill as many.               *)
(*                                                                         *)
(* A text is a sequence of marks: <<"{">>, <<"}">>, <<"[">>, <<"]">>,      *)
(* <<":">>, <<",">>, <<"str", s>> for a string with its quotation marks,   *)
(* <<"prim", p>> for the characters of a number, boolean or null, and      *)
(* <<"open">> for a quotation mark that no other one follows.  Blanks are  *)
(* left out.                                                               *)
(***************************************************************************)
EXTENDS Naturals, Sequences, FiniteSets, FiniteSetsExt

VARIABLES
  js,      \* the text
  pass,    \* "idle", "count", "fill", "tokens" once they are there; "refused", or
           \* "nomem" for JSMN_ERROR_NOMEM
  pos,     \* parser.pos, from 1
  toks,    \* the tokens allocated so far, parser.toknext of them, from 1
  super,   \* parser.toksuper, 0 for -1
  count,   \* what jsmn_parse will return
  counted  \* what it returned without tokens: how many there is room for

jsmnVars == <<js, pass, pos, toks, super, count, counted>>

JsmnInit == js = <<>> /\ pass = "idle" /\ pos = 1 /\ toks = <<>> /\ super = 0 /\ count = 0 /\ counted = 0

\* jsmn_init before the first of the two passes
Tokenize(text) ==
  /\ js' = text /\ pass' = "count" /\ pos' = 1 /\ toks' = <<>> /\ super' = 0 /\ count' = 0 /\ counted' = 0

Mark == js[pos][1]
Filling == pass = "fill"
Running == pass \in {"count", "fill"} /\ pos <= Len(js)
Closed(t) == t.end # 0

\* An error of jsmn_parse, which the program answers with ERR: no token is used.
Error(code) == pass' = code /\ UNCHANGED <<js, pos, toks, super, count, counted>>
Refuse == Error("refused")
NoRoom == Filling /\ Len(toks) >= counted

\* jsmn_alloc_token and jsmn_fill_token, with the parent's size, from the mark
\* at pos up to but not including the one at end.
NewToken(type, end) == [type |-> type, start |-> pos, end |-> end, size |-> 0, parent |-> super]

\* Mutant of Added: the value of a key is not its child's.
Added_Key(token) ==
  Append(IF super = 0 \/ toks[super].type = "str" THEN toks ELSE [toks EXCEPT ![super].size = @ + 1], token)

Added(token) ==
  Append(IF super = 0 THEN toks ELSE [toks EXCEPT ![super].size = @ + 1], token)

\* Mutant of Open: without room for tokens brackets are not counted.
Open_Uncounted ==
  /\ Running /\ Mark \in {"{", "["}
  /\ IF NoRoom THEN Error("nomem")
     ELSE IF Filling /\ super # 0 /\ toks[super].type = "{" THEN Refuse
     ELSE /\ count' = (IF Filling THEN count + 1 ELSE count) /\ pos' = pos + 1
          /\ IF Filling THEN toks' = Added(NewToken(Mark, 0)) /\ super' = Len(toks) + 1
             ELSE UNCHANGED <<toks, super>>
          /\ UNCHANGED <<js, pass, counted>>

Open ==
  /\ Running /\ Mark \in {"{", "["}
  /\ IF NoRoom THEN Error("nomem")
     ELSE IF Filling /\ super # 0 /\ toks[super].type = "{" THEN Refuse
     ELSE /\ count' = count + 1 /\ pos' = pos + 1
          /\ IF Filling THEN toks' = Added(NewToken(Mark, 0)) /\ super' = Len(toks) + 1
             ELSE UNCHANGED <<toks, super>>
          /\ UNCHANGED <<js, pass, counted>>

\* From the last token up to one that is open, or to one without parent that is
\* closed already; 0 if the bracket matches neither.
RECURSIVE Matching(_, _)
Matching(t, type) ==
  CASE ~Closed(toks[t]) -> IF toks[t].type = type THEN t ELSE 0
    [] Closed(toks[t]) /\ toks[t].parent = 0 -> IF toks[t].type # type \/ super = 0 THEN 0 ELSE t
    [] OTHER -> Matching(toks[t].parent, type)

Close ==
  /\ Running /\ Mark \in {"}", "]"}
  /\ LET t == IF toks = <<>> THEN 0 ELSE Matching(Len(toks), IF Mark = "}" THEN "{" ELSE "[") IN
       IF Filling /\ t = 0 THEN Refuse
       ELSE /\ pos' = pos + 1
            /\ IF Filling /\ ~Closed(toks[t])
               THEN toks' = [toks EXCEPT ![t].end = pos + 1] /\ super' = toks[t].parent
               ELSE UNCHANGED <<toks, super>>
            /\ UNCHANGED <<js, pass, count, counted>>

\* jsmn_parse_string
String ==
  /\ Running /\ Mark \in {"str", "open"}
  /\ IF Mark = "open" THEN Refuse ELSE IF NoRoom THEN Error("nomem")
     ELSE /\ count' = count + 1 /\ pos' = pos + 1
          /\ toks' = IF Filling THEN Added(NewToken("str", pos + 1)) ELSE toks
          /\ UNCHANGED <<js, pass, super, counted>>

\* jsmn_parse_primitive: whatever comes before a comma or a closing bracket.
PrimEnds == {i \in pos + 1 .. Len(js) : js[i][1] \in {",", "}", "]"}}

Primitive ==
  /\ Running /\ Mark = "prim"
  /\ LET misplaced == /\ super # 0
                     /\ \/ toks[super].type = "{"
                        \/ toks[super].type = "str" /\ toks[super].size # 0
     IN IF PrimEnds = {} \/ (Filling /\ misplaced) THEN Refuse ELSE IF NoRoom THEN Error("nomem")
        ELSE /\ count' = count + 1 /\ pos' = Min(PrimEnds)
             /\ toks' = IF Filling THEN Added(NewToken("prim", Min(PrimEnds))) ELSE toks
             /\ UNCHANGED <<js, pass, super, counted>>

\* What comes next is a child of the last token, ...
Colon ==
  /\ Running /\ Mark = ":"
  /\ pos' = pos + 1 /\ super' = Len(toks)
  /\ UNCHANGED <<js, pass, toks, count, counted>>

\* Mutant of Comma: the key before it stays the parent.
Comma_Stay ==
  /\ Running /\ Mark = ","
  /\ pos' = pos + 1
  /\ UNCHANGED <<js, pass, toks, super, count, counted>>

\* ... up to a comma.
Comma ==
  /\ Running /\ Mark = ","
  /\ pos' = pos + 1
  /\ super' = IF Filling /\ super # 0 /\ toks[super].type \notin {"{", "["} THEN toks[super].parent ELSE super
  /\ UNCHANGED <<js, pass, toks, count, counted>>

\* The end of a pass: json_vextract makes room for what was counted.
EndPass ==
  /\ pass \in {"count", "fill"} /\ pos > Len(js)
  /\ IF count = 0 \/ (Filling /\ \E i \in DOMAIN toks : ~Closed(toks[i])) THEN Refuse
     ELSE IF Filling THEN pass' = "tokens" /\ UNCHANGED <<js, pos, toks, super, count, counted>>
     ELSE /\ pass' = "fill" /\ counted' = count /\ pos' = 1 /\ count' = 0 /\ super' = 0
          /\ UNCHANGED <<js, toks>>

JsmnNext == Open \/ Close \/ String \/ Primitive \/ Colon \/ Comma \/ EndPass

\* The tokens whose parent link says so
Children(t) == {i \in DOMAIN toks : toks[i].parent = t}

-----------------------------------------------------------------------------
(* Properties *)

\* There is room for every token of a text, right or wrong: the pass that
\* counts, which checks less, counts no fewer than the pass that fills.
RoomForTokens == pass # "nomem" /\ (pass = "tokens" => Len(toks) = counted /\ count = counted)

\* Whatever text is accepted, a token has as many children as its size says:
\* extract_array_value looks for so many, and past the last token if there are
\* fewer.  Parents come before their children.
SizesAreChildren ==
  pass = "tokens" =>
    \A t \in DOMAIN toks : toks[t].size = Cardinality(Children(t)) /\ toks[t].parent < t

\* Both passes of jsmn_parse see the same tokens, and their sizes can be relied on.
TokensAreRight ==
  /\ RoomForTokens
  /\ SizesAreChildren
=============================================================================
