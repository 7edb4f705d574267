----------------------------- MODULE MCStartup ------------------------------
EXTENDS Startup

\* Two configurations to save: one with a port above 32767.
MCConfigs ==
  {Default,
   [camera  |-> [device |-> <<"/dev/video2">>, width |-> 640, height |-> 48, fps |-> 5],
    network |-> [bind |-> <<"127", ".1">>, port |-> 40000],
    serial  |-> [device |-> <<"/dev/ttyUSB0">>, baud |-> 9600]]}

\* Values a user may write for bind and port, with what they set.
Binds == {[text |-> <<"\"", "h", "\"">>,                 sets |-> {<<"h">>}],
          [text |-> <<"\"", "h", "\\", "n", "\"">>,      sets |-> {<<"h", "LF">>}],
          [text |-> <<"\"", "\\", "u", "0", "0", "4", "1", "\"">>, sets |-> {<<"?">>}],
          [text |-> <<"[", "1", ",", "{", "}", "]">>,    sets |-> {}],
          [text |-> <<"t", "r", "u", "e">>,              sets |-> {}]}
Ports == {[text |-> <<"9", "0">>,                        sets |-> {90}],
          [text |-> <<"-", "1">>,                        sets |-> {65535}],
          [text |-> <<"6", "5", "5", "3", "7">>,         sets |-> {1}],
          [text |-> <<"1", ".", "5", "e", "+", "2">>,    sets |-> {150}],
          [text |-> <<"\"", "9", "0", "\"">>,            sets |-> {}],
          [text |-> <<"n", "u", "l", "l">>,              sets |-> {}]}

\* A network section with bind and port in either order, or one of them twice,
\* behind a comment.
Network(pairs) ==
  Braces(<<Pair("_comment", Quoted(<<"{", "\\", "\"", ",">>)), Pair("network", Braces(pairs))>>)
MCHandFiles ==
  {[text |-> Network(<<Pair("bind", b.text), Pair("port", p.text)>>),
    bind |-> b.sets, port |-> p.sets] : b \in Binds, p \in Ports}
  \cup
  {[text |-> Network(<<Pair("port", p.text), Pair("port", q.text)>>),
    bind |-> {}, port |-> q.sets] : p \in Ports, q \in Ports}
  \cup {[text |-> <<"[", "]">>, bind |-> {}, port |-> {}]}

MCNumbers == ("640" :> 640) @@ ("48" :> 48) @@ ("70000" :> 70000) @@ ("-1" :> -1)
Before == {<<"-d", "cam">>, <<"--width", "640">>, <<"--port", "-1">>, <<"--log-file", "log">>,
           <<"-v">>, <<"-c", "other">>}
After  == {<<"-d", "cam2">>, <<"-H", "48">>, <<"-f", "fast">>, <<"-p", "70000">>, <<"-b", "h">>,
           <<"--log-dir", "dir">>, <<"-h">>, <<"-V">>, <<"--what">>, <<"-c", DefaultPath>>,
           <<"-c">>, <<"-p">>, <<"--log-file">>, <<"--log-file", "">>, <<"-b", "-V">>}
MCCommandLines == {<<>>} \cup (Before \X After)
=============================================================================
