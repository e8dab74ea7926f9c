----------------------------- MODULE JsonActor -----------------------------
(***************************************************************************)
(* json-actor.c: a format says which members of a JSON text correspond to  *)
(* which arguments.  It is parsed and its arguments are taken; an injector *)
(* writes a text twice, first to measure it; an extractor goes through the *)
(* tokens of a text.  A behaviour injects and extracts what it injected,   *)
(* or extracts from a document.                                            *)
(*                                                                         *)
(* A format is a tree: Obj of <<path, node>>, Arr of nodes, Act of a       *)
(* specifier and its argument's name, Lit of a value.  A path is a series  *)
(* of keys, "*" stands for any.  The value of an argument is named after   *)
(* it.  Memory is abstracted to what is in it, sizes to numbers of marks;  *)
(* a buffer is as large as the first pass says.                            *)
(***************************************************************************)
EXTENDS JsonText, Jsmn

CONSTANTS
  Injectors,  \* formats that are injected and then extracted
  Queries,    \* formats of query_inject: members without composites
  Extractors, \* formats that are extracted from ...
  Texts,      \* ... these JSON values
  Quotes      \* the arguments whose string contains a quotation mark

Obj(m) == [k |-> "obj", m |-> m]
Arr(e) == [k |-> "arr", e |-> e]
Act(a, x) == [k |-> "act", a |-> a, x |-> x]
Lit(v) == [k |-> "lit", v |-> v]
\* bare: a list without braces; maps: a series of "switches", "switches:b", "defined".
Format(node, bare, maps) == [node |-> node, bare |-> bare, maps |-> maps]

VARIABLES
  format,   \* the format as it was meant
  said,     \* the JSON value that is injected or extracted from
  given,    \* each argument: "on", "off" (not among the switches) or "null" for NULL
  enabled,  \* the argument of "switches:b"
  returns,  \* what a user's function of an extractor returns; most return nothing
  step,     \* the phase of the behaviour
  ast,      \* what parse_actor made of the format
  used,     \* what json_inject returned without and with a buffer
  out,      \* the buffer
  got       \* the extractor: what is where, what is defined, what was applied, bad after ERR

actorVars == <<format, said, given, enabled, returns, step, ast, used, out, got>>

User == "|F|"
IsUser(a) == a \in {"F", User}
Members(node) == IF node.k = "obj" THEN [i \in DOMAIN node.m |-> node.m[i][2]] ELSE node.e

\* All actions and literals of a format, in order.
RECURSIVE Ends(_)
Ends(node) ==
  IF node.k \in {"act", "lit"} THEN <<node>>
  ELSE FlattenSeq([i \in DOMAIN Members(node) |-> Ends(Members(node)[i])])

Actions(node) == SelectSeq(Ends(node), LAMBDA end : end.k = "act")

ArgumentsOf(node) == {Actions(node)[i].x : i \in DOMAIN Actions(node)}

-----------------------------------------------------------------------------
(* The text of a format, and what a caller passes for it in that order *)

Join(s, mark) == FoldLeft(LAMBDA r, t : IF r = <<>> THEN t ELSE r \o mark \o t, <<>>, s)

RECURSIVE NodeText(_, _)
NodeText(node, bare) ==
  CASE node.k = "act" -> <<<<"act", node.a, node.x>>>>
    [] node.k = "lit" -> <<<<"lit", node.v>>>>
    [] node.k = "arr" -> <<<<"[">>>> \o Join([i \in DOMAIN node.e |-> NodeText(node.e[i], FALSE)], <<<<",">>>>) \o <<<<"]">>>>
    [] node.k = "obj" ->
       LET path(p) == [i \in DOMAIN p |-> <<"(", p[i]>>] \o <<<<":">>>>
           list == Join([i \in DOMAIN node.m |-> path(node.m[i][1]) \o NodeText(node.m[i][2], FALSE)], <<<<",">>>>)
       IN IF bare THEN list ELSE <<<<"{">>>> \o list \o <<<<"}">>>>

FormatText(f) == NodeText(f.node, f.bare) \o [i \in DOMAIN f.maps |-> <<"@", f.maps[i]>>]

\* The arguments of a specifier, a star or a map.
ArgumentsFor(mark) ==
  CASE mark[1] = "act" -> CASE mark[2] = ".*s" -> <<<<"size", mark[3]>>, <<"operand", mark[3]>>>>
                            [] IsUser(mark[2]) -> <<<<"function", mark[3]>>, <<"operand", mark[3]>>>>
                            [] OTHER -> <<<<"operand", mark[3]>>>>
    [] mark[1] = "(" -> IF mark[2] = "*" THEN <<<<"key">>>> ELSE <<>>
    [] mark[1] = "@" -> <<<<"arg", mark[2]>>, <<"sizeof", mark[2]>>>> \o
                        IF mark[2] = "switches:b" THEN <<<<"enabler">>>> ELSE <<>>
    [] OTHER -> <<>>

-----------------------------------------------------------------------------
(* parse_actor.  A parser returns what it found and the place after it, 0    *)
(* for ERR.                                                                  *)

Failed == [v |-> <<>>, at |-> 0]
MaxNestedLevels == 16
MarkAt(s, i) == IF i \in DOMAIN s THEN s[i][1] ELSE "end"

\* parse_access_path_value up to the colon: a star has to be the last key.
RECURSIVE ParsePath(_, _, _)
ParsePath(s, i, path) ==
  CASE MarkAt(s, i) = "(" /\ (path = <<>> \/ Last(path) # "*") -> ParsePath(s, i + 1, Append(path, s[i][2]))
    [] MarkAt(s, i) = ":" /\ path # <<>> -> [v |-> path, at |-> i + 1]
    [] OTHER -> Failed

\* parse_value: a composite is not one.
ParseValue(s, i) ==
  CASE MarkAt(s, i) = "act" -> [v |-> Act(s[i][2], s[i][3]), at |-> i + 1]
    [] MarkAt(s, i) = "lit" -> [v |-> Lit(s[i][2]), at |-> i + 1]
    [] OTHER -> Failed

\* parse_value_list
RECURSIVE ParseValues(_, _, _)
ParseValues(s, i, vs) ==
  CASE MarkAt(s, i) = "," /\ vs # <<>> -> ParseValues(s, i + 1, vs)
    [] MarkAt(s, i) \in {"]", "end"} -> [v |-> vs, at |-> i]
    [] OTHER -> LET r == ParseValue(s, i)
                IN  IF r.at = 0 THEN Failed ELSE ParseValues(s, r.at, Append(vs, r.v))

\* parse_composite_value and parse_access_path_value_list, which call each other.
RECURSIVE ParseComposite(_, _, _), ParsePairs(_, _, _, _)
ParseComposite(s, i, level) ==
  LET list == IF MarkAt(s, i) = "{" THEN ParsePairs(s, i + 1, level + 1, <<>>) ELSE ParseValues(s, i + 1, <<>>)
      end  == IF MarkAt(s, i) = "{" THEN "}" ELSE "]"
  IN  CASE MarkAt(s, i) \notin {"{", "["} \/ level >= MaxNestedLevels -> Failed
        [] list.at = 0 \/ MarkAt(s, list.at) # end -> Failed
        [] OTHER -> [v |-> IF end = "}" THEN Obj(list.v) ELSE Arr(list.v), at |-> list.at + 1]

ParsePairs(s, i, level, pairs) ==
  CASE MarkAt(s, i) = "," /\ pairs # <<>> -> ParsePairs(s, i + 1, level, pairs)
    [] MarkAt(s, i) = "(" ->
       LET path  == ParsePath(s, i, <<>>)
           value == IF MarkAt(s, path.at) \in {"{", "["} THEN ParseComposite(s, path.at, level)
                    ELSE ParseValue(s, path.at)
       IN IF path.at = 0 \/ value.at = 0 THEN Failed
          ELSE ParsePairs(s, value.at, level, Append(pairs, <<path.v, value.v>>))
    [] level = 0 \/ MarkAt(s, i) \in {"}", "end"} -> [v |-> pairs, at |-> i]
    [] OTHER -> Failed

\* parse_actor: a composite or a list of pairs, then maps, then nothing.
ParseActor(s) ==
  LET bare == MarkAt(s, 1) = "("
      r    == IF bare THEN ParsePairs(s, 1, 0, <<>>) ELSE ParseComposite(s, 1, 0)
      rest == SubSeq(s, r.at, Len(s))
  IN  IF r.at = 0 THEN Failed
      ELSE IF \E m \in ToSet(rest) : m[1] # "@" THEN Failed
      ELSE [v |-> Format(IF bare THEN Obj(r.v) ELSE r.v, bare, [i \in DOMAIN rest |-> rest[i][2]]), at |-> Len(s) + 1]

\* parse_query_string: pairs of one key and a value, without braces
ParseQuery(s) ==
  LET r == ParseActor(s)
      simple(pair) == Len(pair[1]) = 1 /\ pair[2].k \in {"act", "lit"}
  IN  IF MarkAt(s, 1) # "(" \/ r.at = 0 THEN Failed
      ELSE IF \A i \in DOMAIN r.v.node.m : simple(r.v.node.m[i]) THEN r ELSE Failed

\* get_composite_value_operand_addrs: the addresses to which the arguments are
\* assigned, in order; the key of a star only if it is the whole path.
RECURSIVE NodeOperands(_)
NodeOperands(node) ==
  CASE node.k = "act" -> ArgumentsFor(<<"act", node.a, node.x>>)
    [] node.k = "lit" -> <<>>
    [] OTHER -> FlattenSeq([i \in DOMAIN Members(node) |->
         (IF node.k = "obj" THEN IF node.m[i][1] = <<"*">> THEN <<<<"key">>>> ELSE <<>> ELSE <<>>)
         \o NodeOperands(Members(node)[i])])

MapOperands(f) == FlattenSeq([i \in DOMAIN f.maps |-> ArgumentsFor(<<"@", f.maps[i]>>)])

\* Mutant of Operands: the arguments of the maps are taken first.
Operands_MapsFirst(f) == MapOperands(f) \o NodeOperands(f.node)

Operands(f) == NodeOperands(f.node) \o MapOperands(f)

-----------------------------------------------------------------------------
(* json_inject.  A position r: the buffer, NULL in the pass that measures,   *)
(* next_pos in it, the number of bytes used, and bad after ERR.              *)

Start(null) == [buf |-> <<>>, null |-> null, next |-> 1, used |-> 0, bad |-> FALSE]

\* marks written at next_pos
PutAt(r, marks) == IF r.null THEN r ELSE [r EXCEPT !.buf = SubSeq(r.buf, 1, r.next - 1) \o marks, !.next = @ + Len(marks)]
Plus(r, n) == [r EXCEPT !.used = @ + n]

\* xprintf
Put(r, marks) == Plus(PutAt(r, marks), Len(marks))

\* A string between quotation marks: escaped, and not.  A size cuts the escaped one.
Escaped(x) == <<<<"quote">>, <<"chars", x>>, <<"quote">>>>
Unescaped(x) == IF x \in Quotes THEN <<<<"quote">>, <<"chars", x>>, <<"quote">>, <<"prim", x>>, <<"open">>>> ELSE Escaped(x)
CutOff(x) == IF x \in Quotes THEN <<<<"open">>>> ELSE Escaped(x)

Null == <<<<"prim", "null">>>>

\* inject_builtin and inject_format_string; what it passes to "%s" is not escaped
Builtin(act) ==
  CASE given[act.x] = "null" /\ act.a # "fmt" -> Null
    [] act.a \in {"s", "?s", ".*s"} -> Escaped(act.x)
    [] act.a = "4s" -> CutOff(act.x)
    [] act.a = "fmt" -> Unescaped(act.x)
    [] act.a = "s_as_u64" -> Escaped(act.x)
    [] OTHER -> <<<<"prim", act.x>>>>

\* What the user's function of an argument writes.
ByUser(act) ==
  IF act.a = User THEN <<<<"chars", act.x>>>> ELSE <<<<"[">>, <<"prim", act.x>>, <<"]">>>>

\* Mutant of Enclosed: next_pos stays before the closing quotation mark.
Enclosed_Inside(r, marks) ==
  LET q == PutAt(PutAt(r, <<<<"quote">>>>), marks)
  IN  Plus([PutAt(q, <<<<"quote">>>>) EXCEPT !.next = q.next], Len(marks) + 2)

\* The user's function between quotation marks, which are counted only at the end.
Enclosed(r, marks) == Plus(PutAt(PutAt(PutAt(r, <<<<"quote">>>>), marks), <<<<"quote">>>>), Len(marks) + 2)

\* get_arg_switches
Switched(f) == "switches" \in ToSet(f.maps) \/ ("switches:b" \in ToSet(f.maps) /\ enabled)

\* Mutant of HasValue: a composite is written even if nothing in it is.
HasValue_Composite(node) == node.k # "act" \/ given[node.x] = "on"

\* has_value when there are switches
RECURSIVE HasValue(_)
HasValue(node) ==
  CASE node.k = "act" -> node.a # "fmt" /\ given[node.x] = "on"
    [] node.k = "lit" -> TRUE
    [] OTHER -> \E i \in DOMAIN Members(node) : HasValue(Members(node)[i])

Has(f, node) == Switched(f) => HasValue(node)

RECURSIVE InjectComposite(_, _, _)

\* inject_value
InjectValue(f, node, r) ==
  CASE node.k = "act" /\ node.a = User -> Enclosed(r, ByUser(node))
    [] node.k = "act" /\ node.a # User -> Put(r, IF IsUser(node.a) THEN ByUser(node) ELSE Builtin(node))
    [] node.k = "lit" -> Put(r, IF node.v.t = "string" THEN Escaped(node.v.v) ELSE <<<<"prim", node.v.v>>>>)
    [] OTHER -> InjectComposite(f, node, r)

\* Mutant of InjectPath: the first key stands for the path.
InjectPath_First(f, pair, r) == InjectValue(f, pair[2], Put(Put(r, Escaped(pair[1][1])), <<<<":">>>>))

\* inject_access_path_value: a path of several keys is not supported.
InjectPath(f, pair, r) ==
  LET key == Put(r, Escaped(pair[1][1]))
  IN  IF Len(pair[1]) > 1 THEN [key EXCEPT !.bad = TRUE]
      ELSE InjectValue(f, pair[2], Put(key, <<<<":">>>>))

\* inject_composite_value; the last comma is found by the number of members that
\* have a value.
InjectComposite(f, node, r) ==
  LET object == node.k = "obj"
      total  == Cardinality({i \in DOMAIN Members(node) : Has(f, Members(node)[i])})
      member(acc, i) ==
        IF acc.r.bad \/ ~Has(f, Members(node)[i]) THEN acc
        ELSE LET val == IF object THEN InjectPath(f, node.m[i], acc.r) ELSE InjectValue(f, node.e[i], acc.r)
             IN  [r |-> IF acc.j + 1 # total THEN Put(val, <<<<",">>>>) ELSE val, j |-> acc.j + 1]
      list == FoldLeft(member, [r |-> Put(r, IF object THEN <<<<"{">>>> ELSE <<<<"[">>>>), j |-> 0],
                       [i \in DOMAIN Members(node) |-> i])
  IN  Put(list.r, IF object THEN <<<<"}">>>> ELSE <<<<"]">>>>)

\* The string of a query: encoded, without quotation marks; a size, given in the
\* format or by an argument, cuts the encoded text.
IsText(act) == act.k = "act" /\ act.a \in {"s", "?s", ".*s", "4s"}
IsCut(act)  == act.a \in {".*s", "4s"} /\ act.x \in Quotes
Encoded(act) == <<<<IF IsCut(act) THEN "cut" ELSE "url", act.x>>>>

\* Mutant of QueryValue: a fixed size is written as in a JSON text.
QueryValue_Fixed(node, r) ==
  IF IsText(node) /\ node.a # "4s" /\ given[node.x] # "null" THEN Put(r, Encoded(node)) ELSE InjectValue(ast, node, r)

\* inject_value with ENCODING_URL, which only strings look at.
QueryValue(node, r) ==
  IF IsText(node) /\ given[node.x] # "null" THEN Put(r, Encoded(node)) ELSE InjectValue(ast, node, r)

\* Mutant of QueryMembers: separators depend on all members of the format.
QueryMembers_All(f) == [i \in DOMAIN f.node.m |-> i]

QueryMembers(f) == SelectSeq([i \in DOMAIN f.node.m |-> i], LAMBDA i : Has(f, f.node.m[i][2]))

\* inject_query_key_value_list: the question mark is not counted.
InjectQuery(f, r) ==
  LET there == QueryMembers(f)
      pairAt(acc, i) ==
        LET pair == f.node.m[there[i]]
            done == QueryValue(pair[2], Put(acc, <<<<"key=", pair[1][1]>>>>))
        IN  IF i # Len(there) THEN Put(done, <<<<"&">>>>) ELSE done
  IN  IF there = <<>> THEN r ELSE FoldLeft(pairAt, PutAt(r, <<<<"?">>>>), [i \in DOMAIN there |-> i])

\* What a reader of the buffer makes of quotation marks.
Read(buf) ==
  LET read(s, m) == CASE m[1] = "chars" -> Append(Front(s), <<"str", m[2]>>)
                      [] m[1] = "quote" /\ s # <<>> /\ Last(s)[1] = "str" -> s
                      [] m[1] = "quote" -> Append(s, <<"open">>)
                      [] OTHER -> Append(s, m)
  IN  FoldLeft(read, <<>>, buf)

-----------------------------------------------------------------------------
(* json_extract: e is what was done so far *)

NothingYet == [val |-> <<>>, keys |-> <<>>, defined |-> {}, applied |-> {}, bad |-> FALSE]
Bad(e) == [e EXCEPT !.bad = TRUE]
Write(e, x, v) == [e EXCEPT !.val = (x :> v) @@ e.val]
WriteDefined(e, x, v) == [Write(e, x, v) EXCEPT !.defined = @ \cup {x}]

Slice(i) == SubSeq(js, toks[i].start, toks[i].end - 1)
IsNull(i) == Slice(i) = Null
Composed(i) == toks[i].type \in {"{", "["}
Zero == <<"zero">>
Exists == <<"true">>

\* Mutant of Fitting: NULL is not taken for 0.
Fitting_NoNull(a, mark) ==
  CASE a \in {"s", "?s", ".*s", "key"} -> TRUE
    [] a = "b" -> mark[2] \in {"true", "false"}
    [] a = "d" -> mark[1] = "prim" /\ mark[2] \notin {"true", "false", "null"}
    [] a = "s_as_u64" -> mark[1] = "str"
    [] OTHER -> FALSE

\* extract_str and extract_scalar with strong_type: what a specifier takes from
\* a string or a primitive, if anything.
Fitting(a, mark) ==
  CASE a \in {"s", "?s", ".*s", "key"} -> TRUE
    [] a = "b" -> mark[2] \in {"true", "false"}
    [] a # "b" /\ mark = Null[1] -> TRUE
    [] a = "d" -> mark[1] = "prim" /\ mark[2] \notin {"true", "false"}
    [] a = "s_as_u64" -> mark[1] = "str"
    [] OTHER -> FALSE

\* Mutant of Returned: what a function returned is not looked at.
Returned_Ignored(e, x, i) == WriteDefined(e, x, Slice(i))

Returned(e, x, i) == IF returns = 0 THEN Write(e, x, Slice(i)) ELSE WriteDefined(e, x, Slice(i))

\* apply_extraction
Apply(act, i, e) ==
  LET a == act.a IN
  CASE a = "T" -> WriteDefined(e, act.x, Slice(i))
    [] IsUser(a) -> IF IsNull(i) \/ (Composed(i) /\ toks[i].size = 0) THEN e
                    ELSE Returned(e, act.x, i)
    [] ~IsUser(a) /\ a # "T" ->
       IF Composed(i) \/ ~Fitting(a, Slice(i)[1]) THEN Bad(e)
       ELSE IF a = "key" THEN Write(e, act.x, Exists)
       ELSE WriteDefined(e, act.x, IF IsNull(i) THEN Zero ELSE Slice(i))

NumberOf(key) == CHOOSE n \in 0 .. 5 : Index(n) = key
KeyIs(i, key) == toks[i].type = "str" /\ Slice(i)[1][2] = key
Kids(i) == SetToSortSeq(Children(i), <)

RECURSIVE ExtractValue(_, _, _, _), ExtractObject(_, _, _, _), ExtractArray(_, _, _, _)

\* extract_access_path
RECURSIVE ExtractPath(_, _, _, _, _)
ExtractPath(pair, id, path, i, e) ==
  IF path = <<>> THEN ExtractValue(pair[2], id, i, e)
  ELSE IF ~Composed(i) THEN Bad(e)
  ELSE IF toks[i].size = 0 THEN e
  ELSE IF toks[i].type = "{"
       THEN LET k == SelectInSeq(Kids(i), LAMBDA t : KeyIs(t, Head(path)))
            IN  IF k = 0 THEN e ELSE ExtractPath(pair, id, Tail(path), Kids(i)[k] + 1, e)
       ELSE LET n == NumberOf(Head(path))
            IN  IF n >= toks[i].size THEN Bad(e) ELSE ExtractPath(pair, id, Tail(path), i + 1 + n, e)

\* extract_object_value.  Every key is compared with every member of the format
\* that was not applied yet.  What is not an object ends in "Not a key" (strings
\* of an array would pass for keys: no text has them where an object belongs).
ExtractObject(node, id, parent, e) ==
  LET pairAt(acc, k, j) ==
        LET pair == node.m[j]
            key  == Slice(k)[1][2]
            starred == [acc EXCEPT !.keys = (pair[2].x :> key) @@ acc.keys]
        IN  CASE acc.bad \/ Append(id, j) \in acc.applied -> acc
              [] KeyIs(k, pair[1][1]) -> ExtractPath(pair, Append(id, j), Tail(pair[1]), k + 1, acc)
              [] pair[1][1] = "*" -> ExtractPath(pair, Append(id, j), Tail(pair[1]), k + 1, starred)
              [] OTHER -> acc
      keyAt(acc, k) ==
        IF toks[k].type # "str" THEN Bad(acc)
        ELSE FoldLeft(LAMBDA c, j : pairAt(c, k, j), acc, [j \in DOMAIN node.m |-> j])
  IN  IF toks[parent].type # "{" \/ toks[parent].size = 0 THEN Bad(e) ELSE FoldLeft(keyAt, e, Kids(parent))

\* extract_array_value
ExtractArray(node, id, parent, e) ==
  LET n == toks[parent].size
      elementAt(acc, j) == IF acc.bad THEN acc ELSE ExtractValue(node.e[j], Append(id, j), Kids(parent)[j], acc)
  IN  IF Len(node.e) = 1 /\ node.e[1].k = "act" /\ node.e[1].a = "L"
      THEN Write(e, node.e[1].x, [j \in 1 .. n |-> Slice(Kids(parent)[j])])
      ELSE FoldLeft(elementAt, e, [j \in 1 .. IF n < Len(node.e) THEN n ELSE Len(node.e) |-> j])

\* Mutant of Applied: what was extracted is extracted again from the next key like it.
Applied_Not(e, id) == e

Applied(e, id) == [e EXCEPT !.applied = @ \cup {id}]

\* extract_value
ExtractValue(node, id, i, e) ==
  Applied(CASE node.k = "act" -> Apply(node, i, e)
            [] node.k = "obj" -> ExtractObject(node, id, i, e)
            [] node.k = "arr" -> ExtractArray(node, id, i, e)
            [] node.k = "lit" -> Bad(e), id)

\* json_vextract after the tokens are there
ExtractDocument(f) ==
  LET e == NothingYet IN
  CASE toks[1].type = "{" /\ f.node.k = "obj" -> ExtractObject(f.node, <<>>, 1, e)
    [] toks[1].type = "[" /\ f.node.k = "arr" -> ExtractArray(f.node, <<>>, 1, e)
    [] OTHER -> Bad(e)

-----------------------------------------------------------------------------

\* The value of an argument, and what a format means with its arguments.
ArgumentValue(act) ==
  CASE given[act.x] = "null" -> ScalarOf("null", "null")
    [] act.a = "F" -> Branches("array", <<<<"0", ScalarOf("number", act.x)>>>>)
    [] act.a \in {"d", "b"} -> ScalarOf(IF act.a = "d" THEN "number" ELSE "boolean", act.x)
    [] OTHER -> ScalarOf("string", act.x)

\* A member is there if a literal is in it, or an action that is switched on.
IsThere(f, node) ==
  Switched(f) => \E end \in ToSet(Ends(node)) : end.k = "lit" \/ (end.a # "fmt" /\ given[end.x] = "on")

RECURSIVE Meant(_, _)
Meant(f, node) ==
  LET there == SelectSeq([i \in DOMAIN Members(node) |-> i], LAMBDA i : IsThere(f, Members(node)[i]))
      key(i) == IF node.k = "obj" THEN node.m[there[i]][1][1] ELSE Index(i - 1)
  IN  CASE node.k = "act" -> ArgumentValue(node)
        [] node.k = "lit" -> node.v
        [] OTHER -> Branches(IF node.k = "obj" THEN "object" ELSE "array",
                             [i \in DOMAIN there |-> <<key(i), Meant(f, Members(node)[there[i]])>>])

\* A user's function and a format string take no NULL; without switches all are on.
Givens(f) ==
  {g \in [ArgumentsOf(f.node) -> {"on", "off", "null"}] :
     \A i \in DOMAIN Actions(f.node) :
       LET act == Actions(f.node)[i]
       IN  /\ IsUser(act.a) \/ act.a = "fmt" => g[act.x] # "null"
           /\ {"switches", "switches:b"} \cap ToSet(f.maps) = {} => g[act.x] # "off"}

ActorInit ==
  /\ \/ /\ format \in Injectors \cup Queries /\ given \in Givens(format)
        /\ enabled \in (IF "switches:b" \in ToSet(format.maps) THEN BOOLEAN ELSE {FALSE})
        /\ said = Meant(format, format.node)
     \/ format \in Extractors /\ said \in Texts /\ given = <<>> /\ enabled = FALSE
  /\ returns \in {0, 1}
  /\ step = "parse" /\ ast = <<>> /\ used = <<>> /\ out = <<>> /\ got = NothingYet
  /\ JsmnInit

inputs == <<format, said, given, enabled, returns>>

\* prepare_actor
ParseFormat ==
  LET r == IF format \in Queries THEN ParseQuery(FormatText(format)) ELSE ParseActor(FormatText(format)) IN
  /\ step = "parse"
  /\ IF r.at = 0 THEN step' = "aborted" /\ UNCHANGED <<ast, out>>
     ELSE /\ ast' = r.v
          /\ step' = IF format \notin Extractors THEN "measure" ELSE "text"
          /\ out' = IF format \notin Extractors THEN <<>> ELSE Lexed(Text(said))
  /\ UNCHANGED <<inputs, used, got, jsmnVars>>

Inject(r) == IF format \in Queries THEN InjectQuery(ast, r) ELSE InjectComposite(ast, ast.node, r)

\* json_ainject: without a buffer, where a path may stop the program, and with one
\* of that size; and query_inject
Measure ==
  LET r == Inject(Start(TRUE)) IN
  /\ step = "measure" /\ step' = (IF r.bad THEN "stopped" ELSE "write")
  /\ used' = (IF r.bad THEN <<>> ELSE <<r.used>>)
  /\ UNCHANGED <<inputs, ast, out, got, jsmnVars>>

WriteText ==
  LET r == Inject(Start(FALSE)) IN
  /\ step = "write" /\ step' = "text"
  /\ used' = Append(used, r.used) /\ out' = r.buf
  /\ UNCHANGED <<inputs, ast, got, jsmnVars>>

\* json_vextract: the two passes of jsmn ...
ReadTokens ==
  /\ step = "text" /\ format \notin Queries /\ step' = "tokens"
  /\ Tokenize(Read(out))
  /\ UNCHANGED <<inputs, ast, used, out, got>>

Tokens == step = "tokens" /\ JsmnNext /\ UNCHANGED actorVars

\* ... and then the extraction, of which a literal cannot be a part.
Extract ==
  /\ step = "tokens" /\ pass = "tokens"
  /\ step' = "extracted" /\ got' = ExtractDocument(ast)
  /\ UNCHANGED <<inputs, ast, used, out, jsmnVars>>

ActorNext == ParseFormat \/ Measure \/ WriteText \/ ReadTokens \/ Tokens \/ Extract

-----------------------------------------------------------------------------
(* Properties *)

\* A format is understood as it was meant, and its arguments are taken from the
\* call in the order in which its text asks for them: stars, sizes, functions and
\* operands, then the arguments of the maps.
FormatIsUnderstood ==
  /\ step # "aborted"
  /\ step \in {"measure", "text"} =>
       ast = format /\ Operands(ast) = FlattenSeq([i \in DOMAIN FormatText(ast) |-> ArgumentsFor(FormatText(ast)[i])])

\* json_inject returns what it writes, without a buffer as with one, so that the
\* buffer of json_ainject is as large as it has to be.  query_inject returns one less.
ReturnsLength ==
  \A i \in DOMAIN used : step = "text" =>
    used[i] = IF format \in Queries /\ out # <<>> THEN Len(out) - 1 ELSE Len(out)

\* What is injected is the JSON text of the members that are switched on: commas
\* between them, no composite without any, strings quoted.  jsmn accepts it.
InjectedIsMeant ==
  /\ format \in Injectors /\ step = "text" => Read(out) = Lexed(Text(said))
  /\ step = "tokens" => pass # "refused"

\* Whether a member that is written has several keys.
RECURSIVE HasLongPath(_, _)
HasLongPath(f, node) ==
  node.k = "obj" /\ \E i \in DOMAIN node.m :
    /\ IsThere(f, node.m[i][2])
    /\ Len(node.m[i][1]) > 1 \/ HasLongPath(f, node.m[i][2])

\* A member of several keys stops the program before it has written anything, even
\* from within another member, but not if it is switched off; nothing else does.
StopsAtLongPaths ==
  format \in Injectors /\ step \notin {"parse", "measure"} =>
    (step = "stopped" <=> HasLongPath(format, format.node))

\* A query is made of the members that are switched on, in order and each with a
\* separator before it, and is empty without any.  After a key comes its value and
\* nothing else: a string is encoded and has no quotation marks, and it is whole
\* unless it has a size and a character that is encoded.
QueryIsMeant ==
  format \in Queries /\ step = "text" =>
    LET keys == SelectSeq(out, LAMBDA m : m[1] = "key=")
        seps == SelectSeq(out, LAMBDA m : m[1] \in {"?", "&"})
    IN  /\ [i \in DOMAIN keys |-> keys[i][2]] = [i \in DOMAIN said.m |-> said.m[i][1]]
        /\ Len(seps) = Len(keys) /\ \A i \in DOMAIN seps : seps[i] = IF i = 1 THEN <<"?">> ELSE <<"&">>
        /\ \A i \in DOMAIN out : out[i][1] = "key=" => i > 1 /\ out[i - 1] \in ToSet(seps)
        /\ \A i \in DOMAIN out, pair \in ToSet(format.node.m) :
             out[i] = <<"key=", pair[1][1]>> /\ IsText(pair[2]) =>
               /\ given[pair[2].x] = "null" => out[i + 1] = Null[1]
               /\ given[pair[2].x] # "null" /\ ~IsCut(pair[2]) => out[i + 1] = <<"url", pair[2].x>>
               /\ i + 2 \in DOMAIN out => out[i + 2] = <<"&">>

\* The paths of a format to its actions; a list is at the path of its array.
IsList(node) == node.k = "arr" /\ Len(node.e) = 1 /\ node.e[1].k = "act" /\ node.e[1].a = "L"
RECURSIVE Leaves(_, _)
Leaves(node, path) ==
  CASE node.k = "act" -> {<<path, node>>}
    [] node.k = "lit" -> {}
    [] node.k = "obj" -> UNION {Leaves(node.m[i][2], path \o node.m[i][1]) : i \in DOMAIN node.m}
    [] IsList(node) -> {<<path, node.e[1]>>}
    [] node.k = "arr" /\ ~IsList(node) -> UNION {Leaves(node.e[i], Append(path, Index(i - 1))) : i \in DOMAIN node.e}

\* The value at a path; a star is the first member.
RECURSIVE Found(_, _)
Found(val, path) ==
  IF path = <<>> THEN val
  ELSE IF Head(path) = "*" /\ val.t \in Composite
       THEN IF val.m = <<>> THEN Absent ELSE Found(val.m[1][2], Tail(path))
       ELSE LET v == Lookup(val, <<Head(path)>>) IN IF v = Absent THEN Absent ELSE Found(v, Tail(path))

\* What a specifier takes from a value.
Nothing == <<"nothing">>
IsEmpty(v) == IF v.t \in Composite THEN v.m = <<>> ELSE v.t = "null"
Taken(act, v) ==
  CASE v = Absent -> Nothing
    [] act.a = "key" -> Exists
    [] act.a = "L" -> [i \in DOMAIN v.m |-> Lexed(Text(v.m[i][2]))]
    [] IsUser(act.a) -> IF IsEmpty(v) THEN Nothing ELSE Lexed(Text(v))
    [] act.a # "T" /\ v.t = "null" -> Zero
    [] OTHER -> Lexed(Text(v))

\* Whether a document suits a format: objects where it has objects, of which it
\* asks something and which are not empty, arrays where it has arrays and
\* indices, and values of its types; members may be missing.
Suits(act, v) ==
  CASE act.a \in {"T", "F", User} -> TRUE
    [] act.a = "b" -> v.t = "boolean"
    [] act.a = "d" -> v.t \in {"number", "null"}
    [] act.a = "s_as_u64" -> v.t \in {"string", "null"}
    [] OTHER -> v.t \in Scalars

RECURSIVE Fits(_, _), FitsPath(_, _, _)
Fits(node, v) ==
  CASE node.k = "act" -> Suits(node, v)
    [] node.k = "obj" -> v.t = "object" /\ v.m # <<>> /\ \A i \in DOMAIN node.m : FitsPath(node.m[i][2], node.m[i][1], v)
    [] node.k = "arr" -> v.t = "array" /\ (IsList(node) \/ \A i \in DOMAIN node.e : i > Len(v.m) \/ Fits(node.e[i], v.m[i][2]))
    [] node.k = "lit" -> FALSE

FitsPath(node, path, v) ==
  IF path = <<>> THEN Fits(node, v)
  ELSE LET u == Found(v, <<Head(path)>>)
       IN  /\ v.t \in Composite
           /\ v.t = "array" /\ v.m # <<>> => u # Absent
           /\ u # Absent => FitsPath(node, Tail(path), u)

\* In a document that suits the format, every argument gets the value at its path
\* and no other one; it is left alone
\* if there is none or none that its function is called for.
ExtractedIsThere ==
  step = "extracted" /\ Fits(format.node, said) =>
    \A leaf \in Leaves(ast.node, <<>>) :
      LET want == Taken(leaf[2], Found(said, leaf[1]))
      IN  /\ IF want = Nothing THEN leaf[2].x \notin DOMAIN got.val ELSE got.val[leaf[2].x] = want
          /\ leaf[1] # <<>> => (Last(leaf[1]) = "*" => got.keys[leaf[2].x] = Found(said, Front(leaf[1])).m[1][1])

\* @record_defined lists the arguments that were extracted, without those
\* whose functions returned 0, the lists and the existence of keys.
DefinedAreThere ==
  step = "extracted" /\ Fits(format.node, said) =>
    got.defined = {leaf[2].x : leaf \in {l \in Leaves(ast.node, <<>>) :
                     /\ Taken(l[2], Found(said, l[1])) # Nothing
                     /\ l[2].a \notin {"key", "L"} /\ (IsUser(l[2].a) => returns # 0)}}

\* The program is stopped by a document only if that does not suit the format.
\* A member that is missing or NULL is no reason, except NULL for a boolean.
AbortsOnlyUnsuited == got.bad => ~Fits(format.node, said)

\* json_inject writes what its format and arguments mean, says how long it is, and
\* stops only where it must.
InjectsAsMeant ==
  /\ FormatIsUnderstood
  /\ ReturnsLength
  /\ InjectedIsMeant
  /\ QueryIsMeant
  /\ StopsAtLongPaths

\* json_extract takes what is in the document, and stops only at what does not suit.
ExtractsWhatIsThere ==
  /\ AbortsOnlyUnsuited
  /\ ExtractedIsThere
  /\ DefinedAreThere
=============================================================================
