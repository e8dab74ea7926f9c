------------------------------ MODULE MCJson ------------------------------
\* Instances for TLC of the modules about JSON, strings and lists.  They are
\* independent of each other: a behaviour is about one of them.
EXTENDS JsonTree, JsonActor, JsonScanf, JsonString, Ntl

N(v) == ScalarOf("number", v)
S(v) == ScalarOf("string", v)
B(v) == ScalarOf("boolean", v)
Nil  == ScalarOf("null", "null")
L(vs) == Branches("array", [i \in DOMAIN vs |-> <<Index(i - 1), vs[i]>>])
O(m) == Branches("object", m)

\* Composites in composites of the same and of the other kind, empty ones, scalars.
SomeDocuments ==
  {N("1"), S(Plain), O(<<>>), L(<<L(<<>>), N("1")>>),
   L(<<O(<<<<"a", N("1")>>, <<"b", N("0")>>>>), L(<<N("1"), N("2")>>), O(<<>>)>>),
   O(<<<<"a", O(<<<<"a", S(Plain)>>, <<"c", L(<<N("1")>>)>>>>)>>, <<"b", L(<<L(<<N("2")>>), S(Plain)>>)>>>>),
   O(<<<<"a", O(<<>>)>>, <<"b", O(<<<<"d", N("1")>>, <<"a", N("2")>>>>)>>>>)}
SomeAdditions == {<<"number", "7">>, <<"object", "">>}
AnyString == SomeDocuments \cup {L(<<S(Quoting)>>), L(<<N("0")>>)}

\* Formats: members, nested, in arrays, with literals and each kind of argument.
P(k, a, x) == <<<<k>>, Act(a, x)>>
M(k, node) == <<<<k>>, node>>
SomeInjectors == {
  Format(Obj(<<P("a", "d", "x"), P("b", "s", "y"), P("c", "F", "z")>>), TRUE, <<"switches">>),
  Format(Obj(<<P("a", ".*s", "x"), M("b", Obj(<<P("c", "b", "y"), M("d", Obj(<<P("e", "d", "z")>>))>>)),
               M("c", Lit(S("v")))>>), FALSE, <<"switches:b">>),
  Format(Obj(<<P("a", User, "x"), M("b", Arr(<<Act("s_as_u64", "y"), Act("F", "z"), Act("?s", "w")>>))>>),
         FALSE, <<"switches">>),
  Format(Obj(<<P("a", "fmt", "x"), M("b", Lit(N("0"))), P("c", User, "z")>>), TRUE, <<>>),
  Format(Obj(<<P("a", "d", "x"), M("b", Obj(<<P("a", "s", "y"), P("b", "F", "z")>>))>>), TRUE, <<>>),
  Format(Obj(<<P("a", "d", "x"), M("b", Obj(<<<<<<"c", "d">>, Act("s", "y")>>, P("e", "d", "z")>>))>>), FALSE, <<"switches:b">>)}
SomeQueries == {
  Format(Obj(<<P("a", "d", "x"), P("b", "s", "y"), P("c", User, "z")>>), TRUE, <<"switches:b">>),
  Format(Obj(<<P("a", "s", "x"), M("b", Lit(N("0")))>>), TRUE, <<"switches">>),
  Format(Obj(<<P("a", "d", "x"), P("b", ".*s", "y")>>), TRUE, <<"switches">>),
  Format(Obj(<<P("a", "4s", "y"), P("b", ".*s", "x"), P("c", "4s", "z")>>), TRUE, <<"switches">>)}
SomeExtractors == {
  Format(Obj(<<<<<<"a", "b">>, Act("s", "x")>>, P("b", "d", "y"), P("c", "F", "z"), P("a", "T", "w")>>), TRUE, <<"defined">>),
  Format(Obj(<<M("a", Obj(<<P("b", "?s", "x"), P("c", "key", "z")>>)), P("*", "T", "y"), P("b", "b", "v")>>),
         FALSE, <<"defined">>),
  Format(Obj(<<M("c", Arr(<<Act("L", "x")>>)), P("a", "F", "y")>>), TRUE, <<>>),
  Format(Obj(<<<<<<"c", "1">>, Act("d", "x")>>, M("c", Arr(<<Act("d", "y"), Act("s", "z")>>)), P("*", "T", "w")>>),
         TRUE, <<"defined">>),
  Format(Arr(<<Act("d", "x"), Act("T", "y"), Act("F", "z")>>), FALSE, <<"defined">>),
  Format(Arr(<<Act("L", "x")>>), FALSE, <<>>)}

\* Documents that suit them and documents that do not.
Leaf == {N("1"), S(Plain), Nil, B("true")}
InA == Leaf \cup {O(<<>>), O(<<<<"b", S(Plain)>>, <<"c", Nil>>>>), O(<<<<"c", L(<<N("2")>>)>>, <<"b", N("1")>>>>)}
InC == {L(<<>>), L(<<N("1"), N("2")>>), L(<<S(Plain), Nil, O(<<>>)>>)}
SomeTexts ==
  {O(<<<<"a", u>>, <<"b", v>>, <<"c", w>>>>) : u \in InA, v \in Leaf, w \in InC \cup {Nil}}
  \cup {O(<<<<"b", v>>, <<"a", u>>>>) : u \in InA, v \in Leaf} \cup {O(<<<<"c", w>>>>) : w \in InC \cup Leaf}
  \cup {O(<<<<"b", N("1")>>, <<"b", N("2")>>>>), O(<<>>)}
  \cup InC \cup {L(<<u, v>>) : u \in InC \cup Leaf, v \in InC \cup {Nil}}
SomeQuotes == {"y"}

\* Formats of paths, and documents where keys are missing, twice or nested.
TheLone == "lone"
SomeScans == {
 <<Spec1(<<"a">>, "d", "x"), Spec1(<<"b">>, "s", "y"), Spec1(<<>>, "E", "e")>>,
 <<Spec1(<<"a", "b">>, "?s", "x"), Spec1(<<>>, "E", "e"), Spec1(<<"a", "c">>, "L", "y"), Spec1(<<"b">>, "F", "z")>>,
 <<Spec1(<<"c", "1">>, "d", "x"), Spec1(<<"a">>, "F", "y"), Spec1(<<"b">>, "2s", "z"), Spec1(<<"c">>, "S", "w")>>,
 <<Spec1(<<"">>, "L", "x")>>, <<Spec1(<<"", "0">>, "b", "x"), Spec1(<<"", "2", "b">>, "T", "y"), Spec1(<<"", "0">>, "F", "z")>>}
WithA == {N("1"), S(Plain), S(TheLone), Nil, B("true"), O(<<>>), O(<<<<"b", S(Plain)>>, <<"c", L(<<N("2")>>)>>>>), O(<<<<"c", Nil>>, <<"b", S(TheLone)>>>>)}
WithC == {L(<<>>), L(<<N("1"), N("2")>>), L(<<O(<<>>), S(Plain), N("1")>>), L(<<B("true"), Nil, O(<<<<"b", N("1")>>, <<"b", N("2")>>>>)>>), Nil}
WithB == {N("1"), S(Plain), S(TheLone), Nil}
SomeScanTexts == {O(<<<<"a", u>>, <<"b", v>>, <<"c", w>>>>) : u \in WithA, v \in WithB, w \in WithC}
  \cup {O(<<<<"c", w>>, <<"a", u>>>>) : u \in WithA, w \in WithC} \cup {O(<<>>)} \cup WithC

\* Any text of up to four marks, right or wrong.
AnyMarks == SeqOf({<<"{">>, <<"}">>, <<"[">>, <<"]">>, <<":">>, <<",">>, <<"str", "a">>, <<"prim", "1">>, <<"open">>}, 4)

\* Strings of bytes that are escaped, of characters that are not ASCII, and of bytes
\* that are no character.
UpTo(n, atoms) == {FlattenSeq(s) : s \in SeqOf(atoms, n)}
SomeStrings == UpTo(3, {<<34>>, <<92>>, <<10>>, <<1>>, <<31>>, <<32>>, <<37>>, <<65>>, <<117>>, <<195, 169>>, <<128>>,
                        <<240, 159, 152, 128>>, <<237, 160, 128>>})
U(a, b, c, d) == <<92, 117, a, b, c, d>>
SomeReceived == UpTo(3, {<<92, 110>>, <<92, 34>>, <<92, 47>>, <<92>>, <<117>>, <<65>>, <<10>>, <<195, 169>>, <<128>>,
  U(48, 48, 52, 49), U(68, 56, 51, 68), U(100, 101, 48, 48), U(48, 48, 101, 57), U(50, 48, 65, 67)})
SomeCharacters == {<<l>> \o s : l \in {65, 127, 128, 193, 194, 223, 224, 237, 239, 240, 244, 245},
                                s \in SeqOf({65, 128, 143, 144, 159, 160, 191, 194}, 3)}

VARIABLE subject

JsonIdle  == JsonInit /\ document = N("1")
ActorIdle ==
  /\ format = Format(Obj(<<>>), TRUE, <<>>) /\ said = O(<<>>) /\ given = <<>> /\ enabled = FALSE /\ returns = 0
  /\ step = "parse" /\ ast = <<>> /\ used = <<>> /\ out = <<>> /\ got = NothingYet
  /\ JsmnInit
ScanIdle  ==
  /\ scan = <<>> /\ scanned = O(<<>>) /\ answer = 0
  /\ stage = "analyze" /\ num_keys = 0 /\ es = <<>> /\ next = 1 /\ taken = NothingTaken /\ existing = <<>>

Init ==
  /\ StringInit /\ NtlInit
  /\ \/ subject = "tree" /\ JsonInit /\ ActorIdle /\ ScanIdle
     \/ subject = "actor" /\ JsonIdle /\ ActorInit /\ ScanIdle
     \/ subject = "scan" /\ JsonIdle /\ ActorIdle /\ ScanInit
     \/ subject \in {"marks", "string", "list"} /\ JsonIdle /\ ActorIdle /\ ScanIdle

textVars == <<jsonVars, actorVars, jsmnVars, scanVars, stringVars, ntlVars>>

Next ==
  /\ UNCHANGED subject
  /\ \/ subject = "tree" /\ JsonNext /\ UNCHANGED <<actorVars, jsmnVars, stringVars, ntlVars, scanVars>>
     \/ subject = "actor" /\ ActorNext /\ UNCHANGED <<jsonVars, stringVars, ntlVars, scanVars>>
     \/ subject = "scan" /\ ScanNext /\ UNCHANGED <<jsonVars, actorVars, stringVars, ntlVars>>
     \/ /\ subject = "marks" /\ UNCHANGED <<jsonVars, actorVars, stringVars, ntlVars, scanVars>>
        /\ JsmnNext \/ (pass = "idle" /\ \E marks \in AnyMarks : Tokenize(marks))
     \/ subject = "string" /\ StringNext /\ UNCHANGED <<jsonVars, actorVars, jsmnVars, ntlVars, scanVars>>
     \/ subject = "list" /\ NtlNext /\ UNCHANGED <<jsonVars, actorVars, jsmnVars, stringVars, scanVars>>

Spec == Init /\ [][Next]_<<textVars, subject>>
=============================================================================
