----------------------------- MODULE JsonScanf -----------------------------
(***************************************************************************)
(* json-scanf.c: json_scanf takes values from a JSON text by the paths of  *)
(* a format, such as "[k1][k2]:d [k2][1]:s :E".  The format is read twice, *)
(* to count its specifiers and to parse so many; the tokens of the text    *)
(* are those of Jsmn; then each specifier is applied, and :E lists the     *)
(* arguments that got a value.  Formats are well formed: the assertions on *)
(* brackets, on keys of KEY_MAX and on paths of N_PATH_MAX are left out.   *)
(***************************************************************************)
EXTENDS JsonText, Jsmn

CONSTANTS
  Scans,      \* formats: series of specifiers
  ScanTexts,  \* the JSON values they are applied to
  Lone        \* a string that json_string_unescape refuses: half of a surrogate pair

\* [] is the key "" of a path; :E has no path.
Spec1(path, a, x) == [path |-> path, a |-> a, x |-> x]

VARIABLES
  scan,      \* the format
  scanned,   \* the JSON value
  answer,    \* what a function of F returns
  stage,     \* "analyze", "parse", "tokens", "apply", "exist", "done", "aborted"
  num_keys,  \* the specifiers that format_analyze counted
  es,        \* those that parse_extractor_specifiers found
  next,      \* the one to apply
  taken,     \* what the arguments got, is_applied in order, reads beyond the tokens
  existing   \* what :E wrote: arguments

scanVars == <<scan, scanned, answer, stage, num_keys, es, next, taken, existing>>

ScanText(s) ==
  FlattenSeq([i \in DOMAIN s.path |-> <<<<"[">>, <<"key", s.path[i]>>, <<"]">>>>]) \o <<<<":">>, <<"spec", s.a>>>>

\* The format, with a space after every specifier but the last one.
ScanFormat(f) == FlattenSeq([i \in DOMAIN f |-> (IF i = 1 THEN <<>> ELSE <<<<" ">>>>) \o ScanText(f[i])])

NothingTaken == [val |-> <<>>, applied |-> <<>>, bad |-> FALSE, beyond |-> FALSE]

ScanInit ==
  /\ scan \in Scans /\ scanned \in ScanTexts /\ answer \in {0, 1}
  /\ stage = "analyze" /\ num_keys = 0 /\ es = <<>> /\ next = 1 /\ taken = NothingTaken /\ existing = <<>>

-----------------------------------------------------------------------------
(* The format *)

\* The first place from i on where a test holds, 0 if there is none.
FirstFrom(text, i, Test(_)) == LET S == {j \in i..Len(text) : Test(j)} IN IF S = {} THEN 0 ELSE Min(S)
Nth(text, j) == IF j \in DOMAIN text THEN text[j] ELSE <<"end">>
IsExist(text, j) == text[j] = <<":">> /\ Nth(text, j + 1) = <<"spec", "E">>

\* Mutant of Analyzed: what follows a specifier without a path is not looked for anew.
RECURSIVE Analyzed_Last(_, _, _)
Analyzed_Last(text, i, n) ==
  LET open  == FirstFrom(text, i, LAMBDA j : text[j] = <<"[">> \/ IsExist(text, j))
      close == FirstFrom(text, open, LAMBDA j : text[j] = <<"]">> /\ Nth(text, j + 1) # <<"[">>)
      colon == FirstFrom(text, close, LAMBDA j : text[j] = <<":">>)
      space == FirstFrom(text, colon + 1, LAMBDA j : text[j][1] \in {"[", " "})
  IN  CASE i > Len(text) -> n
        [] i <= Len(text) /\ open = 0 -> 0
        [] i <= Len(text) /\ open # 0 ->
           IF IsExist(text, open) THEN n
           ELSE IF close = 0 THEN 0
           ELSE Analyzed_Last(text, IF colon = 0 \/ space = 0 THEN Len(text) + 1 ELSE space, n + 1)

\* format_analyze from place i with n specifiers before it; 0 for a failed
\* assertion.  A specifier ends before a space or the next path.
RECURSIVE Analyzed(_, _, _)
Analyzed(text, i, n) ==
  LET open  == FirstFrom(text, i, LAMBDA j : text[j] = <<"[">> \/ IsExist(text, j))
      close == FirstFrom(text, open, LAMBDA j : text[j] = <<"]">> /\ Nth(text, j + 1) # <<"[">>)
      colon == FirstFrom(text, close, LAMBDA j : text[j] = <<":">>)
      space == FirstFrom(text, colon + 1, LAMBDA j : text[j][1] \in {"[", " "})
  IN  CASE i > Len(text) -> n
        [] i <= Len(text) /\ open = 0 -> 0
        [] i <= Len(text) /\ open # 0 ->
           IF IsExist(text, open) THEN Analyzed(text, open + 2, n + 1)
           ELSE IF close = 0 THEN 0
           ELSE Analyzed(text, IF colon = 0 \/ space = 0 THEN Len(text) + 1 ELSE space, n + 1)

Analyze ==
  /\ stage = "analyze"
  /\ num_keys' = Analyzed(ScanFormat(scan), 1, 0)
  /\ stage' = IF num_keys' = 0 THEN "aborted" ELSE "parse"
  /\ UNCHANGED <<scan, scanned, answer, es, next, taken, existing>>

\* parse_extractor_specifiers: paths and what comes after them, spaces skipped.
RECURSIVE ParsedFrom(_, _, _)
ParsedFrom(text, i, path) ==
  CASE i > Len(text) -> <<>>
    [] i <= Len(text) /\ text[i] = <<" ">> -> ParsedFrom(text, i + 1, path)
    [] i <= Len(text) /\ text[i] = <<"[">> -> ParsedFrom(text, i + 3, Append(path, text[i + 1][2]))
    [] i <= Len(text) /\ text[i] = <<":">> -> <<<<path, text[i + 1][2]>>>> \o ParsedFrom(text, i + 2, <<>>)

\* Specifiers get the arguments of the call in their order.
ParseScan ==
  /\ stage = "parse" /\ stage' = "tokens"
  /\ LET parsed == ParsedFrom(ScanFormat(scan), 1, <<>>)
     IN  es' = [i \in DOMAIN parsed |-> Spec1(parsed[i][1], parsed[i][2], scan[i].x)]
  /\ Tokenize(Lexed(Text(scanned)))
  /\ UNCHANGED <<scan, scanned, answer, num_keys, next, taken, existing>>

-----------------------------------------------------------------------------
(* The tokens *)

ScanNull == <<"prim", "null">>
ScanZero == <<<<"zero">>>>
MarkOf(i) == js[toks[i].start]

\* Mutant of IsNullAt: anything but null.
IsNullAt_Not(i) == toks[i].type = "prim" /\ MarkOf(i) # ScanNull

IsNullAt(i) == toks[i].type = "prim" /\ MarkOf(i) = ScanNull
PartAt(i) == SubSeq(js, toks[i].start, toks[i].end - 1)
ScanKids(i) == SetToSortSeq(Children(i), <)

Stopped(r) == [r EXCEPT !.bad = TRUE]
Wrote(r, s, v) == [r EXCEPT !.val = (s.x :> v) @@ @, !.applied = Append(@, s.x)]

\* Mutant of Unapplied: the member counts as applied.
Unapplied_Counted(r, s) == [r EXCEPT !.applied = Append(@, s.x)]

\* is_applied of a function that took nothing is reset.
Unapplied(r, s) == r

\* copy_over_string: what cannot be unescaped becomes a message about it.
Unescapes(mark) == IF mark[2] = Lone THEN <<"message">> ELSE mark

\* The end of match_path: "2s" stands for a size that is too small for a string.
ApplyScan(s, i, r) ==
  LET mark == MarkOf(i)
      prim == toks[i].type = "prim"
      composite == toks[i].type \in {"{", "["}
  IN  CASE s.a \in {"S", "?S", "T"} -> Wrote(r, s, PartAt(i))
        [] s.a \in {"s", "?s", ".*s", "2s"} ->
           IF toks[i].type = "str" THEN IF s.a = "2s" THEN Stopped(r) ELSE Wrote(r, s, <<Unescapes(mark)>>)
           ELSE IF IsNullAt(i) THEN Wrote(r, s, ScanZero) ELSE Stopped(r)
        [] s.a = "L" -> IF toks[i].type # "[" THEN Stopped(r)
                        ELSE Wrote(r, s, [k \in DOMAIN ScanKids(i) |-> PartAt(ScanKids(i)[k])])
        [] s.a = "F" -> IF IsNullAt(i) \/ (composite /\ toks[i].size = 0) \/ answer = 0 THEN Unapplied(r, s)
                        ELSE Wrote(r, s, PartAt(i))
        [] s.a = "b" -> IF prim /\ mark[2] \in {"true", "false"} THEN Wrote(r, s, PartAt(i)) ELSE Stopped(r)
        [] s.a = "d" -> IF ~prim \/ mark[2] \in {"true", "false"} THEN Stopped(r)
                        ELSE Wrote(r, s, IF IsNullAt(i) THEN ScanZero ELSE PartAt(i))
        [] s.a = "E" -> r

IsNumber(key) == \E n \in 0..5 : Index(n) = key
KeyAt(t, key) == toks[t].type = "str" /\ MarkOf(t)[2] = key

\* Mutant of MatchPath: the next key after the one that was found counts too.
RECURSIVE MatchPath_Last(_, _, _, _)
MatchPath_Last(s, path, i, r) ==
  IF path = <<>> THEN ApplyScan(s, i, r)
  ELSE CASE toks[i].type = "{" ->
              LET k == SelectLastInSeq(ScanKids(i), LAMBDA t : KeyAt(t, Head(path)))
              IN  IF k # 0 THEN MatchPath_Last(s, Tail(path), ScanKids(i)[k] + 1, r) ELSE r
         [] toks[i].type = "[" ->
              IF ~IsNumber(Head(path)) THEN Stopped(r)
              ELSE LET n == CHOOSE n \in 0..5 : Index(n) = Head(path)
                   IN  IF n >= toks[i].size THEN Stopped(r) ELSE MatchPath_Last(s, Tail(path), i + 1 + n, r)
         [] OTHER -> Stopped(r)

\* match_path.  The keys of an object end before the first token after it: if
\* there is none, memory beyond the tokens is read.
RECURSIVE MatchPath(_, _, _, _)
MatchPath(s, path, i, r) ==
  IF path = <<>> THEN ApplyScan(s, i, r)
  ELSE CASE toks[i].type = "{" ->
              LET k == SelectInSeq(ScanKids(i), LAMBDA t : KeyAt(t, Head(path)))
              IN  IF k # 0 THEN MatchPath(s, Tail(path), ScanKids(i)[k] + 1, r)
                  ELSE [r EXCEPT !.beyond = @ \/ \A t \in DOMAIN toks : toks[t].start < toks[i].end]
         [] toks[i].type = "[" ->
              IF ~IsNumber(Head(path)) THEN Stopped(r)
              ELSE LET n == CHOOSE n \in 0..5 : Index(n) = Head(path)
                   IN  IF n >= toks[i].size THEN Stopped(r) ELSE MatchPath(s, Tail(path), i + 1 + n, r)
         [] OTHER -> Stopped(r)

\* apply_object and apply_array: an empty object has no first key, and an array
\* is for paths that begin with [].
ApplySpecifier(s, r) ==
  LET k == SelectInSeq(ScanKids(1), LAMBDA t : KeyAt(t, Head(s.path)))
  IN  IF toks[1].type = "["
      THEN IF s.path[1] # "" THEN Stopped(r) ELSE MatchPath(s, Tail(s.path), 1, r)
      ELSE IF Len(toks) = 1 THEN [Stopped(r) EXCEPT !.beyond = TRUE]
      ELSE IF k = 0 THEN r ELSE MatchPath(s, Tail(s.path), ScanKids(1)[k] + 1, r)

ScanTokens == stage = "tokens" /\ JsmnNext /\ UNCHANGED scanVars

\* "Object or array expected"
BeginApply ==
  /\ stage = "tokens" /\ pass = "tokens"
  /\ stage' = IF toks[1].type \in {"{", "["} THEN "apply" ELSE "aborted"
  /\ UNCHANGED <<scan, scanned, answer, num_keys, es, next, taken, existing, jsmnVars>>

ApplyNext ==
  /\ stage = "apply" /\ next <= num_keys /\ ~taken.bad
  /\ taken' = IF es[next].a = "E" THEN taken ELSE ApplySpecifier(es[next], taken)
  /\ next' = next + 1
  /\ stage' = IF taken'.bad THEN "aborted" ELSE stage
  /\ UNCHANGED <<scan, scanned, answer, num_keys, es, existing, jsmnVars>>

\* :E after all others, wherever it is in the format.
Finish ==
  /\ stage = "apply" /\ next > num_keys /\ stage' = "done"
  /\ existing' = IF \E i \in DOMAIN es : es[i].a = "E" THEN taken.applied ELSE <<>>
  /\ UNCHANGED <<scan, scanned, answer, num_keys, es, next, taken, jsmnVars>>

ScanNext == \/ Analyze /\ UNCHANGED jsmnVars
            \/ ParseScan \/ ScanTokens \/ BeginApply \/ ApplyNext \/ Finish

-----------------------------------------------------------------------------
(* Properties *)

\* There is room for what the second reading of a format finds, and it is what
\* the format says.
SpecifiersAreCounted == stage \notin {"analyze", "parse", "aborted"} => num_keys = Len(es) /\ es = scan

\* The value at a path of a document.
ScanPath(s) == IF scanned.t = "array" /\ s.path[1] = "" THEN Tail(s.path) ELSE s.path
AtPath(s) == Lookup(scanned, ScanPath(s))

\* Whether a document suits a specifier: it has the composites of the path, enough
\* elements of which those before the index are scalars (for the index of an
\* element is added to a token's), and a value of the type.
SuitsType(s, v) ==
  CASE v = Absent \/ s.a \in {"S", "?S", "T", "F", "E"} -> TRUE
    [] v # Absent /\ s.a = "L" -> v.t = "array"
    [] v # Absent /\ s.a = "b" -> v.t = "boolean"
    [] v # Absent /\ s.a = "d" -> v.t \in {"number", "null"}
    [] v # Absent /\ s.a = "2s" -> v.t = "null"
    [] v # Absent /\ s.a \in {"s", "?s", ".*s"} -> v.t \in {"string", "null"}
SuitsPath(s) ==
  \A n \in 0 .. Len(ScanPath(s)) - 1 :
    LET v == Lookup(scanned, SubSeq(ScanPath(s), 1, n))
        key == ScanPath(s)[n + 1]
    IN  v # Absent =>
          /\ v.t \in Composite
          /\ v.t = "array" => \E i \in DOMAIN v.m : v.m[i][1] = key /\ \A j \in 1 .. i - 1 : v.m[j][2].t \notin Composite
SuitsScan(s) == s.a = "E" \/ (/\ scanned.t \in Composite
                              /\ scanned.t = "object" => scanned.m # <<>>
                              /\ scanned.t = "array" => s.path[1] = ""
                              /\ SuitsPath(s) /\ SuitsType(s, AtPath(s)))

WantedBy(s, v) ==
  CASE s.a = "L" -> [k \in DOMAIN v.m |-> Lexed(Text(v.m[k][2]))]
    [] s.a \in {"s", "?s", ".*s", "2s", "d"} /\ v.t = "null" -> ScanZero
    [] s.a \in {"s", "?s", ".*s"} /\ v.t = "string" /\ v.v = Lone -> <<<<"message">>>>
    [] OTHER -> Lexed(Text(v))
\* A function is not called for NULL and for an empty composite, and may refuse.
Refused(s, v) == s.a = "F" /\ (answer = 0 \/ v.t = "null" \/ (v.t \in Composite /\ v.m = <<>>))
Takes(s) == s.a # "E" /\ AtPath(s) # Absent /\ ~Refused(s, AtPath(s))

\* In a document that suits the format, every argument gets the value at its path,
\* whatever is before it, and no other one does.
ScannedIsThere ==
  stage = "done" =>
    \A i \in DOMAIN scan : SuitsScan(scan[i]) /\ scan[i].a # "E" =>
      IF Takes(scan[i]) THEN taken.val[scan[i].x] = WantedBy(scan[i], AtPath(scan[i]))
      ELSE scan[i].x \notin DOMAIN taken.val

\* What json_scanf returns, and what :E lists, are the arguments that got a value,
\* in the order of the format: not those whose function refused it.
ExistingAreTaken ==
  stage = "done" /\ (\A i \in DOMAIN scan : SuitsScan(scan[i])) =>
    LET want == SelectSeq(scan, Takes) IN
      /\ taken.applied = [i \in DOMAIN want |-> want[i].x]
      /\ existing = IF \E i \in DOMAIN scan : scan[i].a = "E" THEN taken.applied ELSE <<>>

\* The program is stopped by a document only if that does not suit the format.
ScanAbortsOnlyUnsuited == stage = "aborted" => \E i \in DOMAIN scan : ~SuitsScan(scan[i])

\* No token is read that is not there.  Not so for a key that is missing in an
\* object after which nothing comes, and in an empty object.
NoTokenBeyond == ~taken.beyond

\* json_scanf takes what is in the document, and stops only at what does not suit.
ScansWhatIsThere ==
  /\ ScanAbortsOnlyUnsuited
  /\ SpecifiersAreCounted
  /\ ScannedIsThere
  /\ ExistingAreTaken
=============================================================================
