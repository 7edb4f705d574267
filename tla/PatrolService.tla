---------------------------- MODULE PatrolService ---------------------------
(***************************************************************************)
(* How systemd brings the program up: patrol-network.service runs          *)
(* setup_network.sh to its end within TimeoutStartSec; patrol.service      *)
(* Requires it and comes After it, runs the health check and the program,  *)
(* and restarts it RestartSec after every exit, unless it was started      *)
(* StartLimitBurst times in StartLimitInterval (systemd's defaults, which  *)
(* the units leave alone): systemd counts the starts in a window that      *)
(* opens with the first start after the last window has passed.  Time is   *)
(* in seconds; a step of the script takes any time up to its longest.      *)
(***************************************************************************)
EXTENDS Integers

CONSTANT LookupTime    \* the longest a name lookup takes without a network

ASSUME LookupAssumption == LookupTime \in Nat

VARIABLES
  script,    \* where setup_network.sh is: the step, the round and the driver
  spent,     \* the time it has taken, 0 when it is over
  network,   \* patrol-network.service: "activating", "active" or "failed"
  program,   \* patrol.service: "waiting", "running", "exited" and to be started
             \* again, "ended" for good, or "failed"
  window,    \* the window its starts are counted in: its age and the starts
  rest       \* the time until it is started again

serviceVars == <<script, spent, network, program, window, rest>>

TimeoutStartSec    == 180
RestartSec         == 3
StartLimitInterval == 10
StartLimitBurst    == 5

CardWait       == 40    \* seq 1 40, a second each
RoundsThree    == 3
Rounds         == 2
Drivers        == 3     \* nl80211, wext, the default one
Association    == 12
DhcpTime       == 8 * 2 \* udhcpc -t 8 -T 2
GatewayPing    == 4     \* ping -c 2 -W 2
HostPing       == 2     \* ping -c 1 -W 2

ServiceInit ==
  /\ script = [step |-> "card", round |-> 1, driver |-> 1]
  /\ spent = 0 /\ network = "activating"
  /\ program = "waiting" /\ rest = 0
  /\ window = [age |-> StartLimitInterval + 1, starts |-> 0]

\* The script takes n seconds and goes to a step; systemd kills it when the time
\* is up.
Takes(n, next) ==
  /\ network = "activating"
  /\ IF spent + n <= TimeoutStartSec
     THEN spent' = spent + n /\ script' = next /\ UNCHANGED network
     ELSE network' = "failed" /\ UNCHANGED <<spent, script>>
  /\ UNCHANGED <<program, window, rest>>

Finishes(status) ==
  /\ network = "activating"
  /\ network' = IF status = 0 THEN "active" ELSE "failed"
  /\ spent' = 0
  /\ UNCHANGED <<script, program, window, rest>>

At(step)   == script.step = step
Goes(step) == [script EXCEPT !.step = step]
-----------------------------------------------------------------------------
CardReady == At("card") /\ \E n \in {0, CardWait} : Takes(n, Goes("round"))

\* The card never appears: the script ends well so that the program still starts.
CardMissing == At("card") /\ Finishes(0)

RoundBegins == At("round") /\ Takes(2, [Goes("driver") EXCEPT !.driver = 1])

\* wpa_supplicant does not start with a driver, or does not associate in time.
NextDriver(n) ==
  Takes(n, IF script.driver < Drivers THEN [script EXCEPT !.driver = @ + 1] ELSE Goes("lost"))
DriverFails   == At("driver") /\ \E n \in {1, 1 + Association} : NextDriver(n)
Associates    == At("driver") /\ \E n \in 1 .. Association : Takes(n, Goes("address"))

RoundFails ==
  At("lost") /\ Takes(2, IF script.round < Rounds
                         THEN [Goes("round") EXCEPT !.round = @ + 1] ELSE Goes("address"))

\* A fixed address takes no time; DHCP may get none.
Address == At("address") /\ \E n \in {0, 2, DhcpTime + 2} : Takes(n, Goes("ping"))

\* The gateway, then the host, neither of which has to answer.
Pings  == At("ping") /\ \E n \in {0, GatewayPing + LookupTime + HostPing} : Takes(n, Goes("end"))
Ends   == At("end") /\ Finishes(0)

Script == CardReady \/ CardMissing \/ RoundBegins \/ DriverFails \/ Associates
          \/ RoundFails \/ Address \/ Pings \/ Ends
-----------------------------------------------------------------------------
WindowOpen == window.age <= StartLimitInterval

\* A start of patrol.service, or systemd gives it up.
StartProgram ==
  /\ network = "active" /\ program \in {"waiting", "exited"} /\ rest = 0
  /\ IF WindowOpen /\ window.starts >= StartLimitBurst
     THEN program' = "failed" /\ UNCHANGED window
     ELSE program' = "running"
          /\ window' = IF WindowOpen THEN [window EXCEPT !.starts = @ + 1]
                       ELSE [age |-> 0, starts |-> 1]
  /\ UNCHANGED <<script, spent, network, rest>>

\* main() returns 0, after a stop request or an error of accept(), or 1 or 2;
\* or a signal kills the program.
Statuses == {"clean", "failure", "signal"}

\* Restart=on-failure, and Restart=always.
RestartsOnFailure(status) == status # "clean"
Restarts(status)          == status \in Statuses

\* The program ends, for whatever reason and however soon.
ProgramExits ==
  /\ program = "running"
  /\ \E status \in Statuses :
       IF Restarts(status)
       THEN program' = "exited" /\ rest' = RestartSec
       ELSE program' = "ended" /\ UNCHANGED rest
  /\ UNCHANGED <<script, spent, network, window>>

SecondPasses ==
  /\ network = "active" /\ (rest > 0 \/ WindowOpen)
  /\ rest' = IF rest > 0 THEN rest - 1 ELSE 0
  /\ window' = [window EXCEPT !.age = IF WindowOpen THEN @ + 1 ELSE @]
  /\ UNCHANGED <<script, spent, network, program>>

ServiceNext == Script \/ StartProgram \/ ProgramExits \/ SecondPasses

ServiceSpec == ServiceInit /\ [][ServiceNext]_serviceVars
-----------------------------------------------------------------------------
\* Whatever happens to card, network and names at boot, the script's retries
\* fit into TimeoutStartSec, so that systemd does not kill it and fail the unit
\* patrol.service requires; and however soon and often the program ends, the
\* pause between two starts keeps it below the start limit.
NeverGivenUp == network # "failed" /\ program # "failed"

\* The program is always started (again): without a network card ("the main
\* service still starts", setup_network.sh:34), without a network, and after
\* every crash, and after every exit whatever its status: an error of accept()
\* ends it with 0 as a stop request does (Application.cpp:94).
ProgramComesBack == []<>(program = "running")
=============================================================================
