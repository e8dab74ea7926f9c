---------------------------- MODULE MCConnections ----------------------------
\* Instances of what goes over a connection for TLC: the frames of WebSockets and the
\* requests on a handle.  A behaviour is about one of them.
EXTENDS CwsFrames, Connection

F(op, fin, data) == [op |-> op, fin |-> fin, bad |-> FALSE, ext |-> 0, data |-> data]

\* Whole and fragmented messages, empty fragments, both extended lengths,
\* control frames, and every kind of protocol error.
SomeFrames ==
  { F("text", TRUE, <<1>>), [F("text", FALSE, <<2, 3>>) EXCEPT !.ext = 8], F("text", FALSE, <<>>),
    F("cont", FALSE, <<4>>), F("cont", TRUE, <<5>>), [F("binary", TRUE, <<6>>) EXCEPT !.ext = 2],
    F("ping", TRUE, <<8, 9>>), F("ping", FALSE, <<>>), [F("ping", TRUE, <<>>) EXCEPT !.ext = 2],
    F("pong", TRUE, <<>>), F("reserved", TRUE, <<>>), [F("text", TRUE, <<>>) EXCEPT !.bad = TRUE],
    F("close", TRUE, <<0>>), F("close", TRUE, <<1000, 0>>), F("close", TRUE, <<1005, 0>>) }

OneMessage == {<<1, 2, 3, 4, 5>>}
SomeOctets == 0..9 \cup {1000, 1002, 1005}

SomeTexts == {"https", "/g", "/a", "/m", "/d", "p", "q", "content-type", "json", "multipart", "form",
              "", "a", "b", " ", "HTTP", "v", "w", "x", "y", "z", "e", "1", "2", "3"}

\* Requests of every method, with longer and shorter URLs, bodies and fields, and
\* answers with more and fewer lines and chunks.
Demand(endpoint, method, body, value) ==
  [base |-> <<"https">>, endpoint |-> endpoint, method |-> method, body |-> body, field |-> "content-type", value |-> value]
SomeDemands == {
  Demand(<<"/g", "/a">>, "GET", <<>>, <<"json">>), Demand(<<>>, "POST", <<"p">>, <<"json">>),
  Demand(<<"/m">>, "MIMEPOST", <<>>, <<"multipart", "form">>), Demand(<<"/g", "/a", "/d">>, "DELETE", <<>>, <<"json">>),
  Demand(<<"/g">>, "PATCH", <<"p", "q">>, <<"json">>)}
Line(field, blanks, value) == [field |-> field, blanks |-> blanks, value |-> value]
SomeAnswers == {
  [code |-> 200, lines |-> <<Line("", <<>>, <<"HTTP">>), Line("a", <<" ">>, <<"v", "w">>), Line("b", <<>>, <<>>)>>,
   chunks |-> <<<<"x", "y">>, <<"z">>>>],
  [code |-> 404, lines |-> <<Line("b", <<" ", " ">>, <<"1">>), Line("a", <<" ">>, <<"2">>), Line("b", <<" ">>, <<"3">>)>>,
   chunks |-> <<<<"e">>>>],
  [code |-> 304, lines |-> <<>>, chunks |-> <<>>]}

VARIABLE subject

Init ==
  /\ CwsInit /\ ConnectionInit /\ subject \in {"frames", "requests"}
  /\ (request = CHOOSE r \in Demands : TRUE) /\ (reply = CHOOSE r \in Answers : TRUE)

Next ==
  \/ subject = "frames" /\ CwsNext /\ UNCHANGED <<connectionVars, subject>>
  \/ subject = "requests" /\ ConnectionNext /\ UNCHANGED <<cwsVars, subject>>

Spec == Init /\ [][Next]_<<cwsVars, connectionVars, subject>>
=============================================================================
