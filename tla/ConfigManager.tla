--------------------------- MODULE ConfigManager ----------------------------
(***************************************************************************)
(* ConfigManager (src/modules/config/ConfigManager.cpp): the running       *)
(* configuration, the file it is read from and written to, and what can    *)
(* happen to that file: a user edits it, a save() is cut short by a power  *)
(* failure or a full disk, of which save() tells nobody.                   *)
(*                                                                         *)
(* A text is a sequence of characters, as in JsonHelper; a word that is    *)
(* never looked into ("camera", "0.0.0.0") counts as one character.  The   *)
(* empty text also stands for a file that cannot be read: load() refuses   *)
(* both and changes nothing.                                               *)
(***************************************************************************)
EXTENDS JsonHelper

CONSTANTS Configs,     \* configurations the program may have set
          HandFiles    \* what users write: [text, bind, port], see SetsWhatItNames

VARIABLES conf,        \* camera_, network_, serial_
          loaded,      \* has this ConfigManager loaded a file?  It does once.
          file,        \* the text of the configuration file
          origin       \* history: who wrote the file

confVars == <<conf, loaded, file, origin>>

Default ==
  [camera  |-> [device |-> <<"/dev/video0">>, width |-> 1280, height |-> 720, fps |-> 30],
   network |-> [bind |-> <<"0.0.0.0">>, port |-> 8080],
   serial  |-> [device |-> <<"/dev/ttyS1">>, baud |-> 115200]]

NoOrigin == [by |-> "nobody", whole |-> TRUE, of |-> Default, hand |-> <<>>]
-----------------------------------------------------------------------------
\* The cast to uint16_t, and a cast that keeps the sign.
Int16(n)  == IF n % 65536 < 32768 THEN n % 65536 ELSE (n % 65536) - 65536
Uint16(n) == n % 65536

\* The configuration c after the members of root have been taken over.
Loaded(root, c) ==
  LET Key(n, word)     == Member(n, <<word>>)
      Section(s, new)  == IF Key(root, s).type = "object" THEN new ELSE c[s]
      Str(s, f)        == StringOr(Key(Key(root, s), f), c[s][f])
      Int32(s, f)      == IntOr(Key(Key(root, s), f), c[s][f])
  IN  [camera  |-> Section("camera",
                     [device |-> Str("camera", "device"), width |-> Int32("camera", "width"),
                      height |-> Int32("camera", "height"), fps |-> Int32("camera", "fps")]),
       network |-> Section("network",
                     [bind |-> Str("network", "bind"), port |-> Uint16(Int32("network", "port"))]),
       serial  |-> Section("serial",
                     [device |-> Str("serial", "device"), baud |-> Int32("serial", "baud")])]

\* load(): is a text accepted, and the configuration afterwards.
Accepted(parsed)  == parsed.ok /\ parsed.node.type # "null"
TakeOver(text, c) ==
  LET parsed == Parse(text) IN IF Accepted(parsed) THEN Loaded(parsed.node, c) ELSE c

\* "%d" and "%u".
Decimal[n \in Nat] ==
  IF n < 10 THEN <<Digits[n + 1]>> ELSE Append(Decimal[n \div 10], Digits[(n % 10) + 1])

Quoted(s)        == <<"\"">> \o s \o <<"\"">>
Pair(key, value) == Quoted(<<key>>) \o <<":", " ">> \o value
Braces(pairs)    ==
  <<"{", "LF">> \o FoldLeft(LAMBDA a, b : a \o <<",", "LF">> \o b, Head(pairs), Tail(pairs))
    \o <<"LF", "}">>

\* What save() prints: strings are not escaped.
Text(c) ==
  Braces(<<Pair("camera",  Braces(<<Pair("device", Quoted(c.camera.device)),
                                    Pair("width", Decimal[c.camera.width]),
                                    Pair("height", Decimal[c.camera.height]),
                                    Pair("fps", Decimal[c.camera.fps])>>)),
           Pair("network", Braces(<<Pair("bind", Quoted(c.network.bind)),
                                    Pair("port", Decimal[c.network.port])>>)),
           Pair("serial",  Braces(<<Pair("device", Quoted(c.serial.device)),
                                    Pair("baud", Decimal[c.serial.baud])>>))>>)
-----------------------------------------------------------------------------
ConfigInit == conf = Default /\ loaded = FALSE /\ file = <<>> /\ origin = NoOrigin

\* A new ConfigManager, with what the program then sets through its accessors.
Construct(c) ==
  /\ conf' = c
  /\ loaded' = FALSE
  /\ UNCHANGED <<file, origin>>

Load ==
  /\ ~loaded
  /\ loaded' = TRUE
  /\ conf' = TakeOver(file, conf)
  /\ UNCHANGED <<file, origin>>

\* save() truncates the file, then writes; it looks at no result of a write.
Save ==
  /\ file' = Text(conf)
  /\ origin' = [NoOrigin EXCEPT !.by = "save", !.of = conf]
  /\ UNCHANGED <<conf, loaded>>

\* Power fails or the disk is full: only the first n characters are there.
\* A bound: this, and an edit, only happen to a manager that has not loaded
\* yet; a new one may be made at any time.
SaveCut(n) ==
  /\ ~loaded
  /\ file' = SubSeq(Text(conf), 1, n)
  /\ origin' = [NoOrigin EXCEPT !.by = "save", !.whole = FALSE, !.of = conf]
  /\ UNCHANGED <<conf, loaded>>

EditByHand(h) ==
  /\ ~loaded
  /\ file' = h.text
  /\ origin' = [NoOrigin EXCEPT !.by = "hand", !.hand = h]
  /\ UNCHANGED <<conf, loaded>>

ConfigNext ==
  \/ \E c \in Configs : Construct(c)
  \/ \E n \in 0 .. Len(Text(conf)) - 1 : SaveCut(n)
  \/ \E h \in HandFiles : EditByHand(h)
  \/ Load \/ Save
-----------------------------------------------------------------------------
\* What is loaded from a file save() was cut short in is, section by section,
\* either what was saved or what the program had before: never half of one.
\* (The parser takes an object that ends behind a comma for a whole one.)
SectionsWhole ==
  [][Load /\ origin.by = "save" =>
       \A s \in DOMAIN conf : conf'[s] \in {conf[s], origin.of[s]}]_confVars

\* A file that was saved completely gives back every setting (of texts without
\* quotes and backslashes: save() prints them as they are).
SavedIsLoaded ==
  [][Load /\ origin.by = "save" /\ origin.whole => conf' = origin.of]_confVars

\* A hand-written file sets exactly what it names, with values of the right
\* type, the last one if a key is repeated; everything else keeps its value
\* (ConfigManager.h: "keys that do not appear keep their defaults").  bind and
\* port hold the values the user wrote, or nothing.
SetsWhatItNames ==
  [][Load /\ origin.by = "hand" =>
       conf' = [conf EXCEPT
         !.network.bind = IF origin.hand.bind = {} THEN @ ELSE CHOOSE b \in origin.hand.bind : TRUE,
         !.network.port = IF origin.hand.port = {} THEN @ ELSE CHOOSE p \in origin.hand.port : TRUE]]_confVars

\* load() promises to return false when it fails: a file that was not written
\* to its end is refused.
CutFileIsRefused == origin.by = "save" /\ ~origin.whole => ~Accepted(Parse(file))
=============================================================================
