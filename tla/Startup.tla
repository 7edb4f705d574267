------------------------------ MODULE Startup -------------------------------
(***************************************************************************)
(* main() (src/main.cpp) up to Application::run(): two passes over the     *)
(* command line, the configuration file between them, and what the program *)
(* is started with.  An argument is a string; Numbers says which ones      *)
(* atoi() understands.  No other path than the default one names a file.   *)
(***************************************************************************)
EXTENDS ConfigManager

CONSTANTS CommandLines,   \* command lines, as sequences of words
          Numbers         \* the integers some arguments stand for

VARIABLE outcome          \* what became of the last start of the program

startVars == <<confVars, outcome>>

DefaultPath == "/etc/patrol/config.json"

NoOutcome == [exit |-> "none", app |-> <<>>, logFile |-> "", words |-> <<>>]
-----------------------------------------------------------------------------
Atoi(a) == IF a \in DOMAIN Numbers THEN Numbers[a] ELSE 0

WithValue == {"-d", "--device", "-W", "--width", "-H", "--height", "-f", "--fps",
              "-p", "--port", "-b", "--bind", "--log-dir", "--log-file"}

PathOptions == {"-c", "--config"}

\* A word is an option, with its value if it takes one: any arguments can be
\* split like that.  Only at the end may an option lack its value.
ASSUME StartAssumption ==
  \A words \in CommandLines :
    /\ words \in Seq(Seq(STRING))
    /\ \A i \in DOMAIN words :
         LET takesValue == words[i][1] \in WithValue \cup PathOptions
         IN  \/ Len(words[i]) = 1 /\ (takesValue => i = Len(words))
             \/ Len(words[i]) = 2 /\ takesValue

\* The cfg, verbose, logDir and logFile of main() before the second pass.
FromFile(c) ==
  [device |-> c.camera.device, width |-> c.camera.width, height |-> c.camera.height,
   fps |-> c.camera.fps, port |-> c.network.port, bindAddr |-> c.network.bind,
   verbose |-> FALSE, logDir |-> "", logFile |-> ""]

\* needValue(): the word behind argument i.  Without one the program ends.
HasValue(argv, i)  == i < Len(argv)
NeedValue(argv, i) == argv[i + 1]

\* The first pass: -V ends the program, -c names the file.  One turn of its
\* loop; none when it is over.
ScanTurn(argv, at) ==
  LET a == argv[at.i]
  IN  IF at.version \/ at.i > Len(argv) THEN at
      ELSE IF a \in {"-V", "--version"} THEN [at EXCEPT !.version = TRUE]
      ELSE IF a \in PathOptions /\ HasValue(argv, at.i)
           THEN [at EXCEPT !.i = @ + 2, !.path = NeedValue(argv, at.i)]
      ELSE [at EXCEPT !.i = @ + 1]

Prescan(argv) ==
  LET scan[n \in 0 .. Len(argv)] ==
        IF n = 0 THEN [i |-> 1, version |-> FALSE, path |-> DefaultPath]
                 ELSE ScanTurn(argv, scan[n - 1])
  IN  scan[Len(argv)]

\* A plausible slip: the two sizes exchanged.
AssignSwapped(c, option, value) ==
  CASE option \in {"-W", "--width"}  -> [c EXCEPT !.height = Atoi(value)]
    [] option \in {"-H", "--height"} -> [c EXCEPT !.width = Atoi(value)]
    [] OTHER -> c

\* An option with a value taken into the settings c.
Assign(c, option, value) ==
  CASE option \in {"-d", "--device"} -> [c EXCEPT !.device = <<value>>]
    [] option \in {"-W", "--width"}  -> [c EXCEPT !.width = Atoi(value)]
    [] option \in {"-H", "--height"} -> [c EXCEPT !.height = Atoi(value)]
    [] option \in {"-f", "--fps"}    -> [c EXCEPT !.fps = Atoi(value)]
    [] option \in {"-p", "--port"}   -> [c EXCEPT !.port = Uint16(Atoi(value))]
    [] option \in {"-b", "--bind"}   -> [c EXCEPT !.bindAddr = <<value>>]
    [] option = "--log-dir"          -> [c EXCEPT !.logDir = value]
    [] option = "--log-file"         -> [c EXCEPT !.logFile = value]

\* One turn of the second pass: how main() ends, "run" if it does not, and the
\* settings.
OptionTurn(argv, at) ==
  LET a       == argv[at.i]
      Ends(e) == [at EXCEPT !.exit = e]
  IN  IF at.exit # "run" \/ at.i > Len(argv) THEN at
      ELSE CASE a \in PathOptions -> [at EXCEPT !.i = @ + 2]
             [] a \in WithValue ->
                  IF HasValue(argv, at.i)
                  THEN [at EXCEPT !.i = @ + 2, !.app = Assign(@, a, NeedValue(argv, at.i))]
                  ELSE Ends("2")
             [] a \in {"-v", "--verbose"} -> [at EXCEPT !.i = @ + 1, !.app.verbose = TRUE]
             [] a \in {"-V", "--version", "-h", "--help"} -> Ends("0")
             [] OTHER -> Ends("2")

Options(argv, settings) ==
  LET pass[n \in 0 .. Len(argv)] ==
        IF n = 0 THEN [i |-> 1, exit |-> "run", app |-> settings]
                 ELSE OptionTurn(argv, pass[n - 1])
  IN  pass[Len(argv)]

\* Where the log goes: a directory gets a file named for version and time.
LogFile(app) == CASE app.logFile # "" -> app.logFile
                  [] app.logFile = "" /\ app.logDir # "" -> app.logDir
                  [] OTHER -> "stderr"

Main(words) ==
  LET argv == FlattenSeq(words)
      scan == Prescan(argv)
      text == IF scan.path = DefaultPath THEN file ELSE <<>>
      ran  == Options(argv, FromFile(conf'))
  IN  /\ ~loaded
      /\ conf = Default
      /\ outcome = NoOutcome
      /\ conf' = IF scan.version THEN conf ELSE TakeOver(text, conf)
      /\ loaded' = ~scan.version
      /\ outcome' = [exit |-> IF scan.version THEN "0" ELSE ran.exit,
                     app |-> ran.app, logFile |-> LogFile(ran.app), words |-> words]
      /\ UNCHANGED <<file, origin>>

StartInit == ConfigInit /\ outcome = NoOutcome

StartNext == \/ ConfigNext /\ outcome = NoOutcome /\ UNCHANGED outcome
             \/ \E words \in CommandLines : Main(words)

StartSpec == StartInit /\ [][StartNext]_startVars
-----------------------------------------------------------------------------
\* The options of main() as the usage text has them.
Sets == [device |-> {"-d", "--device"}, width |-> {"-W", "--width"},
         height |-> {"-H", "--height"}, fps |-> {"-f", "--fps"},
         port |-> {"-p", "--port"}, bindAddr |-> {"-b", "--bind"}]

\* A word of a command line that main() understands, with what belongs to it;
\* only a -c at the end may lack its path.
Understood(words, i) ==
  \/ words[i][1] \in WithValue \cup PathOptions /\ Len(words[i]) = 2
  \/ words[i] \in {<<"-v">>, <<"--verbose">>}
  \/ words[i] \in {<<"-c">>, <<"--config">>} /\ i = Len(words)

\* The first pass does not know which options take a value: it takes these for
\* options of their own.
Misread(words) ==
  {i \in DOMAIN words : /\ words[i][1] \in WithValue /\ Len(words[i]) = 2
                        /\ words[i][2] \in PathOptions \cup {"-V", "--version"}}

\* The words an option with one of the names O is used in, with its value, and
\* the last of these values.
UsesOf(words, O) == {i \in DOMAIN words : words[i][1] \in O /\ Len(words[i]) = 2}
LastOf(words, O) == words[Max(UsesOf(words, O))][2]
Given(words, o)  == IF UsesOf(words, {o}) = {} THEN "" ELSE LastOf(words, {o})

\* An option on the command line beats the file (config.json: "command line
\* arguments override the settings of the same name"), the last one if it is
\* repeated.
SettingsAsTold(words, app, settings) ==
  \A f \in DOMAIN Sets :
    LET O == Sets[f]
    IN  app[f] = CASE UsesOf(words, O) = {} -> settings[f]
                   [] UsesOf(words, O) # {} /\ f \in {"device", "bindAddr"} -> <<LastOf(words, O)>>
                   [] UsesOf(words, O) # {} /\ f = "port" -> Atoi(LastOf(words, O)) % 65536
                   [] OTHER -> Atoi(LastOf(words, O))

\* A log file beats a log directory, unless its name is empty.
LogAsTold(words, logFile) ==
  LET path == Given(words, "--log-file")
      dir  == Given(words, "--log-dir")
  IN  logFile = IF path # "" THEN path ELSE IF dir # "" THEN dir ELSE "stderr"

\* Unless a value is misread, the program runs exactly when every word is
\* understood, with what the command line says and, of what it leaves open,
\* the file: also when the file's path comes later or the file is damaged.
StartsAsTold ==
  LET words == outcome.words
      known == UsesOf(words, PathOptions) = {} \/ LastOf(words, PathOptions) = DefaultPath
  IN  outcome # NoOutcome /\ Misread(words) = {} =>
        /\ outcome.exit = "run" <=> \A i \in DOMAIN words : Understood(words, i)
        /\ outcome.exit = "run" =>
             /\ conf = TakeOver(IF known THEN file ELSE <<>>, Default)
             /\ SettingsAsTold(words, outcome.app, FromFile(conf))
             /\ LogAsTold(words, outcome.logFile)
=============================================================================
