--------------------------- MODULE Network_proofs ---------------------------
(***************************************************************************)
(* The parts around the network, for every value of their constants: the   *)
(* client socket, the clock of the telemetry, and the service that sets    *)
(* the network up and restarts the program.                                *)
(***************************************************************************)
EXTENDS TcpClient, SensorClock, PatrolService, FrameProtocol_proofs

-----------------------------------------------------------------------------
\* TcpClient.
ClientTypeOK ==
  /\ created \in Nat /\ fd \in 0 .. created /\ blocking \in BOOLEAN
  /\ doing \in {"idle", "connecting", "sending"}
  /\ left \in 0 .. MessageUnits /\ alive \in BOOLEAN /\ full \in Nat
  /\ wire \in Seq(0 .. MessageUnits)

\* What connect() leaves behind at each of its exits: the socket that is open
\* is the one fd_ names, and it blocks again.
SocketIsFd ==
  /\ open = IF fd = 0 THEN {} ELSE {fd}
  /\ alive \/ doing # "idle" => fd # 0
  /\ fd # 0 => blocking \/ doing = "connecting"
  /\ doing = "connecting" => ~alive /\ wire = <<>>

\* A message is cut only when the connection is gone.
WholeWhileAlive ==
  /\ doing = "sending" => /\ wire # <<>> /\ left > 0
                          /\ wire[Len(wire)] = MessageUnits - left
  /\ \A i \in DOMAIN wire :
       \/ wire[i] = MessageUnits
       \/ doing = "sending" /\ i = Len(wire)
       \/ ~alive

ClientInv == ClientTypeOK /\ SocketIsFd /\ WholeWhileAlive /\ OnlyLastCut

(* A client that was never connected satisfies it.                         *)
LEMMA ClientStarts == ClientInit => ClientInv
<1> SUFFICES ASSUME ClientInit PROVE ClientInv
  OBVIOUS
<1>1. wire \in Seq(0 .. MessageUnits) /\ DOMAIN wire = {} /\ wire = <<>>
  BY DEF ClientInit
<1>2. ClientTypeOK
  <2>1. created \in Nat /\ fd \in 0 .. created /\ left \in 0 .. MessageUnits /\ full \in Nat
    BY ClientAssumption DEF ClientInit
  <2>2. blocking \in BOOLEAN /\ alive \in BOOLEAN
    BY DEF ClientInit
  <2>3. doing \in {"idle", "connecting", "sending"}
    BY DEF ClientInit
  <2> QED
    BY <1>1, <2>1, <2>2, <2>3 DEF ClientTypeOK
<1>3. SocketIsFd
  BY DEF ClientInit, SocketIsFd
<1>4. WholeWhileAlive /\ OnlyLastCut
  BY <1>1 DEF ClientInit, WholeWhileAlive, OnlyLastCut
<1> QED
  BY <1>2, <1>3, <1>4 DEF ClientInv

(* The steps that leave the messages alone.                                *)
LEMMA SocketStepKeeps ==
  ASSUME ClientInv,
         \/ CloseCall \/ ConnectBegins \/ NoSocket \/ ConnectFails \/ Connected
         \/ SendError \/ PeerReads \/ Dies
  PROVE  ClientInv'
<1> USE DEF ClientInv, CloseFd
<1>1. ClientTypeOK'
  <2> USE ClientAssumption
      DEF CloseCall, ConnectBegins, NoSocket, ConnectFails, Connected, SendError, PeerReads, Dies
  <2>1. created' \in Nat /\ fd' \in 0 .. created'
    BY DEF ClientTypeOK
  <2>2. left' \in 0 .. MessageUnits /\ full' \in Nat
    BY DEF ClientTypeOK
  <2>3. blocking' \in BOOLEAN /\ alive' \in BOOLEAN
    BY DEF ClientTypeOK
  <2>4. doing' \in {"idle", "connecting", "sending"}
    BY DEF ClientTypeOK
  <2>5. wire' \in Seq(0 .. MessageUnits)
    <3>1. wire' = wire \/ wire' = <<>>
      OBVIOUS
    <3>2. wire \in Seq(0 .. MessageUnits) /\ <<>> \in Seq(0 .. MessageUnits)
      BY DEF ClientTypeOK
    <3> QED
      BY <3>1, <3>2, Zenon
  <2> QED
    BY <2>1, <2>2, <2>3, <2>4, <2>5 DEF ClientTypeOK
<1>2. SocketIsFd'
  <2> USE DEF ClientTypeOK, SocketIsFd
  <2>1. CASE CloseCall \/ NoSocket \/ ConnectFails
    BY <2>1 DEF CloseCall, NoSocket, ConnectFails
  <2>2. CASE ConnectBegins
    <3>1. open \ {fd} = {}
      BY DEF SocketIsFd
    <3> QED
      BY <2>2, <3>1 DEF ConnectBegins
  <2>3. CASE Connected \/ SendError \/ PeerReads \/ Dies
    BY <2>3 DEF Connected, SendError, PeerReads, Dies
  <2> QED
    BY <2>1, <2>2, <2>3
<1>3. \/ wire' = wire /\ (~alive' \/ alive' = alive \/ wire = <<>>) /\ doing' # "sending"
         /\ (doing = "sending" => ~alive')
      \/ wire' = wire /\ (~alive' \/ alive' = alive) /\ UNCHANGED <<doing, left>>
      \/ wire' = <<>> /\ doing' # "sending"
  BY DEF ClientTypeOK, SocketIsFd, CloseCall, ConnectBegins, NoSocket, ConnectFails, Connected,
         SendError, PeerReads, Dies
<1>4. DOMAIN <<>> = {}
  OBVIOUS
<1>5. WholeWhileAlive' /\ OnlyLastCut'
  BY <1>3, <1>4 DEF WholeWhileAlive, OnlyLastCut
<1> QED
  BY <1>1, <1>2, <1>5

(* sendAll() begins with a message none of which is sent.                  *)
LEMMA SendAllKeeps ==
  ASSUME ClientInv, SendAll
  PROVE  ClientInv'
<1> USE ClientAssumption DEF ClientInv, SendAll
<1>1. /\ Len(wire') = Len(wire) + 1 /\ wire' \in Seq(0 .. MessageUnits)
      /\ DOMAIN wire' = 1 .. Len(wire) + 1 /\ DOMAIN wire = 1 .. Len(wire)
      /\ Len(wire) \in Nat
      /\ \A i \in 1 .. Len(wire) : wire'[i] = wire[i]
      /\ wire'[Len(wire) + 1] = 0
  BY DEF ClientTypeOK
<1>2. ClientTypeOK'
  BY <1>1 DEF ClientTypeOK
<1>3. SocketIsFd'
  BY DEF SocketIsFd, ClientTypeOK
<1>4. WholeWhileAlive'
  BY <1>1 DEF WholeWhileAlive
<1>5. OnlyLastCut'
  BY <1>1 DEF OnlyLastCut
<1> QED
  BY <1>2, <1>3, <1>4, <1>5

(* send() adds to the last message, while the connection works: the ones   *)
(* before it are whole.                                                    *)
LEMMA SendSomeKeeps ==
  ASSUME ClientInv, NEW n \in 1 .. MessageUnits, SendSome(n)
  PROVE  ClientInv'
<1> USE ClientAssumption DEF ClientInv, SendSome
<1>1. /\ Len(wire) \in Nat \ {0}
      /\ Len(wire) \in DOMAIN wire /\ DOMAIN wire = 1 .. Len(wire)
      /\ wire[Len(wire)] = MessageUnits - left
  BY DEF ClientTypeOK, WholeWhileAlive
<1>2. /\ DOMAIN wire' = DOMAIN wire /\ Len(wire') = Len(wire)
      /\ \A i \in DOMAIN wire : i # Len(wire) => wire'[i] = wire[i]
      /\ wire'[Len(wire)] = MessageUnits - left'
      /\ left' \in 0 .. MessageUnits
  BY <1>1 DEF ClientTypeOK
<1>3. wire' \in Seq(0 .. MessageUnits)
  BY <1>1, <1>2 DEF ClientTypeOK
<1>4. ClientTypeOK'
  BY <1>2, <1>3 DEF ClientTypeOK
<1>5. SocketIsFd'
  BY DEF SocketIsFd
<1>6. \A i \in DOMAIN wire : i # Len(wire) => wire'[i] = MessageUnits
  BY <1>2 DEF WholeWhileAlive
<1>7. WholeWhileAlive'
  BY <1>1, <1>2, <1>3, <1>6 DEF WholeWhileAlive
<1>8. OnlyLastCut'
  BY <1>1, <1>2, <1>6 DEF OnlyLastCut
<1> QED
  BY <1>4, <1>5, <1>7, <1>8

(* Whatever a user does with the client, connect()'s exits keep the socket *)
(* and the messages in order.                                              *)
THEOREM ClientInvariance == ClientSpec => []ClientInv
<1>1. ClientInv /\ [ClientNext]_clientVars => ClientInv'
  <2> SUFFICES ASSUME ClientInv, [ClientNext]_clientVars PROVE ClientInv'
    OBVIOUS
  <2>1. CASE UNCHANGED clientVars
    BY <2>1 DEF clientVars, ClientInv, ClientTypeOK, SocketIsFd, WholeWhileAlive, OnlyLastCut
  <2> QED
    BY <2>1, SocketStepKeeps, SendAllKeeps, SendSomeKeeps DEF ClientNext
<1> QED
  BY ClientStarts, <1>1, PTL DEF ClientSpec

(* connect() leaks no socket at any of its exits, for any number of them.  *)
THEOREM ClientLeaksNothing == ClientSpec => []NoSocketLeak
<1>1. ClientInv => NoSocketLeak
  BY DEF ClientInv, SocketIsFd, NoSocketLeak
<1> QED
  BY ClientInvariance, <1>1, PTL

(* Only the last message that reached the peer may be cut, however a user  *)
(* goes on after a failed sendAll().                                       *)
THEOREM PeerGetsWholeMessages == ClientSpec => []OnlyLastCut
<1>1. ClientInv => OnlyLastCut
  BY DEF ClientInv
<1> QED
  BY ClientInvariance, <1>1, PTL
-----------------------------------------------------------------------------
\* SensorClock.  How long ago lastSensorMs seems to be, in ClockWrap.
SinceSent == (ms - lastSensorMs) % ClockWrap

ClockTypeOK ==
  /\ ms \in 0 .. ClockWrap - 1 /\ lastSensorMs \in 0 .. ClockWrap - 1
  /\ serving \in BOOLEAN /\ silence \in Nat
  /\ telemetry = NoFrame
     \/ \E t \in 0 .. ClockWrap - 1 : telemetry = [payload |-> PackSensor(Reading(t)), at |-> t]

\* The silence is what the clock shows, and a turn more: the one after which
\* lastSensorMs, 0 when a client comes, happened to look recent.
SilenceIsShown == silence = 0 \/ (SinceSent < Second /\ silence <= SinceSent + MaxTurn)

ClockInv == ClockTypeOK /\ SilenceIsShown

(* The remainder of a number around 0.                                     *)
LEMMA RemainderNearZero ==
  ASSUME NEW m \in Nat \ {0}, NEW a \in Int
  PROVE  /\ a % m \in 0 .. m - 1
         /\ 0 <= a /\ a < m => a % m = a
         /\ a < 0 /\ 0 <= a + m => a % m = a + m
         /\ m <= a /\ a < 2 * m => a % m = a - m
OBVIOUS

(* A turn that sends nothing moves SinceSent on by as much as the silence. *)
LEMMA TurnMovesOn ==
  ASSUME ClockTypeOK, NEW d \in 0 .. MaxTurn, Turn(d), ~SecondOver(ms')
  PROVE  /\ SinceSent' < Second
         /\ SinceSent < Second => SinceSent' = SinceSent + d
         /\ d <= SinceSent' + MaxTurn /\ SinceSent \in Nat /\ SinceSent' \in Nat
<1>1. /\ ms' = (ms + d) % ClockWrap
      /\ SinceSent = (ms - lastSensorMs) % ClockWrap
      /\ SinceSent' = (ms' - lastSensorMs) % ClockWrap
      /\ ~(SinceSent' >= Second)
  BY DEF Turn, SinceSent, SecondOver
<1>2. /\ ClockWrap \in Nat \ {0} /\ Second \in Nat /\ MaxTurn \in Nat
      /\ Second + MaxTurn < ClockWrap
  BY ClockAssumption
<1>3. ms \in 0 .. ClockWrap - 1 /\ lastSensorMs \in 0 .. ClockWrap - 1 /\ d \in 0 .. MaxTurn
  BY DEF ClockTypeOK
<1>4. ms' \in 0 .. ClockWrap - 1 /\ ms' = IF ms + d < ClockWrap THEN ms + d ELSE ms + d - ClockWrap
  <2>1. ASSUME NEW a \in Int, 0 <= a, a < 2 * ClockWrap
        PROVE  /\ a % ClockWrap \in 0 .. ClockWrap - 1
               /\ a % ClockWrap = IF a < ClockWrap THEN a ELSE a - ClockWrap
    <3>1. /\ a % ClockWrap \in 0 .. ClockWrap - 1
          /\ 0 <= a /\ a < ClockWrap => a % ClockWrap = a
          /\ ClockWrap <= a /\ a < 2 * ClockWrap => a % ClockWrap = a - ClockWrap
      BY <1>2, <2>1, RemainderNearZero, Zenon
    <3> QED
      BY <1>2, <2>1, <3>1
  <2>2. ms + d \in Int /\ 0 <= ms + d /\ ms + d < 2 * ClockWrap
    BY <1>2, <1>3
  <2>3. ms' = (ms + d) % ClockWrap
    BY <1>1, Zenon
  <2>4. ms' \in 0 .. ClockWrap - 1
    BY <2>1, <2>2, <2>3, Zenon
  <2>5. ms' = IF ms + d < ClockWrap THEN ms + d ELSE ms + d - ClockWrap
    BY <1>2, <1>3, <2>1, <2>2, <2>3
  <2> QED
    BY <2>4, <2>5
<1>5. ASSUME NEW m \in 0 .. ClockWrap - 1
      PROVE  /\ (m - lastSensorMs) % ClockWrap \in Nat
             /\ (m - lastSensorMs) % ClockWrap
                  = IF m >= lastSensorMs THEN m - lastSensorMs ELSE m - lastSensorMs + ClockWrap
  <2> DEFINE a == m - lastSensorMs
  <2>1. a \in Int /\ 0 <= a + ClockWrap /\ a < ClockWrap /\ (m >= lastSensorMs <=> 0 <= a)
    BY <1>2, <1>3
  <2> HIDE DEF a
  <2>2. /\ 0 <= a /\ a < ClockWrap => a % ClockWrap = a
        /\ a < 0 /\ 0 <= a + ClockWrap => a % ClockWrap = a + ClockWrap
    BY <1>2, <2>1, RemainderNearZero, Zenon
  <2>3. a % ClockWrap \in Nat /\ a % ClockWrap = IF 0 <= a THEN a ELSE a + ClockWrap
    BY <1>2, <2>1, <2>2
  <2> QED
    BY <2>1, <2>3 DEF a
<1>6. /\ SinceSent \in Nat /\ SinceSent' \in Nat
      /\ SinceSent = IF ms >= lastSensorMs THEN ms - lastSensorMs
                     ELSE ms - lastSensorMs + ClockWrap
      /\ SinceSent' = IF ms' >= lastSensorMs THEN ms' - lastSensorMs
                      ELSE ms' - lastSensorMs + ClockWrap
  BY <1>1, <1>3, <1>4, <1>5
<1>7. SinceSent' < Second
  BY <1>1, <1>2, <1>6
<1>8. SinceSent < Second => SinceSent' = SinceSent + d
  BY <1>2, <1>3, <1>4, <1>6, <1>7
<1> QED
  BY <1>2, <1>3, <1>6, <1>7, <1>8

(* No step of the clock breaks the invariant.                              *)
LEMMA ClockStepKeeps == ClockInv /\ [ClockNext]_clockVars => ClockInv'
<1> SUFFICES ASSUME ClockInv, [ClockNext]_clockVars PROVE ClockInv'
  OBVIOUS
<1> USE ClockAssumption DEF ClockInv
<1>1. CASE ServeBegins \/ ServeEnds
  <2>1. ClockTypeOK'
    <3>1. /\ ms' = ms /\ (lastSensorMs' = lastSensorMs \/ lastSensorMs' = 0)
          /\ serving' \in BOOLEAN /\ silence' = 0 /\ telemetry' = NoFrame
      BY <1>1 DEF ServeBegins, ServeEnds
    <3> QED
      BY <3>1 DEF ClockTypeOK
  <2>2. SilenceIsShown'
    BY <1>1 DEF ServeBegins, ServeEnds, SilenceIsShown
  <2> QED
    BY <2>1, <2>2
<1>2. ASSUME NEW d \in 0 .. MaxTurn, Turn(d) PROVE ClockInv'
  <2>1. ms' \in 0 .. ClockWrap - 1 /\ ms' = (ms + d) % ClockWrap
    BY <1>2, RemainderNearZero DEF Turn, ClockTypeOK
  <2>2. CASE SecondOver(ms')
    <3>1. /\ lastSensorMs' = ms' /\ silence' = 0 /\ serving' = serving
          /\ telemetry' = [payload |-> PackSensor(Reading(ms')), at |-> ms']
      BY <1>2, <2>1, <2>2 DEF Turn
    <3> QED
      BY <2>1, <3>1 DEF ClockTypeOK, SilenceIsShown
  <2>3. CASE ~SecondOver(ms')
    <3>1. /\ lastSensorMs' = lastSensorMs /\ silence' = silence + d /\ serving' = serving
          /\ telemetry' = NoFrame
      BY <1>2, <2>1, <2>3 DEF Turn
    <3>2. ClockTypeOK'
      BY <2>1, <3>1 DEF ClockTypeOK
    <3>3. silence' <= SinceSent' + MaxTurn /\ SinceSent' < Second
      BY <1>2, <2>3, <3>1, TurnMovesOn DEF SilenceIsShown, ClockTypeOK
    <3> QED
      BY <3>2, <3>3 DEF SilenceIsShown
  <2> QED
    BY <2>2, <2>3
<1>3. CASE UNCHANGED clockVars
  BY <1>3 DEF clockVars, ClockTypeOK, SilenceIsShown, SinceSent
<1> QED
  BY <1>1, <1>2, <1>3 DEF ClockNext

(* The clock and the silence agree, wherever the counter of milliseconds   *)
(* wraps.                                                                  *)
THEOREM ClockInvariance == ClockSpec => []ClockInv
<1>1. ASSUME ClockInit PROVE ClockInv
  <2>1. /\ ms \in 0 .. ClockWrap - 1 /\ lastSensorMs \in 0 .. ClockWrap - 1
        /\ silence = 0 /\ silence \in Nat /\ telemetry = NoFrame
    BY <1>1, ClockAssumption DEF ClockInit
  <2>2. serving \in BOOLEAN
    BY <1>1 DEF ClockInit
  <2> QED
    BY <2>1, <2>2 DEF ClockInv, ClockTypeOK, SilenceIsShown
<1> QED
  BY <1>1, ClockStepKeeps, PTL DEF ClockSpec

(* No client is without telemetry for a second and the longest turn.       *)
THEOREM TelemetryIsInTime == ClockSpec => []TelemetryKeepsComing
<1>1. ClockInv => TelemetryKeepsComing
  <2> SUFFICES ASSUME ClockInv PROVE TelemetryKeepsComing
    OBVIOUS
  <2>1. SinceSent \in Nat
    BY ClockAssumption, RemainderNearZero DEF ClockInv, ClockTypeOK, SinceSent
  <2> QED
    BY <2>1, ClockAssumption DEF ClockInv, ClockTypeOK, SilenceIsShown, TelemetryKeepsComing
<1> QED
  BY ClockInvariance, <1>1, PTL

(* LongLook finds the program's values at the offsets it reads, at any     *)
(* time.                                                                   *)
THEOREM TelemetryIsRead == ClockSpec => []TelemetryReadable
<1>1. ASSUME ClockInv PROVE TelemetryReadable
  <2>1. CASE telemetry = NoFrame
    BY <2>1 DEF NoFrame, TelemetryReadable
  <2>2. ASSUME NEW t \in 0 .. ClockWrap - 1,
               telemetry = [payload |-> PackSensor(Reading(t)), at |-> t]
        PROVE  TelemetryReadable
    <3> DEFINE p == PackSensor(Reading(t))
    <3>1. telemetry.payload = p /\ telemetry.at = t
      BY <2>2
    <3>2. Reading(t).timestamp_ms = t /\ Reading(t).temperature_01c = 0
          /\ Reading(t).voltage_mV = 12000 /\ Reading(t).mode = 3
      BY DEF Reading, NoSensorData
    <3>3. Len(p) = 40 /\ p[33] = 3 /\ Put16At(p, 0, t) /\ Put16At(p, 4, 0) /\ Put16At(p, 30, 12000)
      BY <3>2, SMT DEF PackSensor, Put16, Put32, Put16At
    <3> HIDE DEF p
    <3>4. U16(p, 0) = t % 65536 /\ U16(p, 4) = 0 % 65536 /\ U16(p, 30) = 12000 % 65536
      BY <3>3, ReadsHalf, ClockAssumption
    <3> QED
      BY <3>1, <3>3, <3>4, SMT DEF TelemetryReadable, U16
  <2> QED
    BY <1>1, <2>1, <2>2 DEF ClockInv, ClockTypeOK
<1> QED
  BY ClockInvariance, <1>1, PTL
-----------------------------------------------------------------------------
\* PatrolService.  The longest setup_network.sh takes to get where it is.
RoundLasts  == 2 + Drivers * (1 + Association) + 2
BeforeRound(r) == CardWait + RoundLasts * (r - 1)
Longest(s) ==
  CASE s.step = "card"    -> 0
    [] s.step = "round"   -> BeforeRound(s.round)
    [] s.step = "driver"  -> BeforeRound(s.round) + 2 + (1 + Association) * (s.driver - 1)
    [] s.step = "lost"    -> BeforeRound(s.round) + RoundLasts - 2
    [] s.step = "address" -> CardWait + RoundLasts * Rounds
    [] s.step = "ping"    -> CardWait + RoundLasts * Rounds + DhcpTime + 2
    [] s.step = "end"     -> CardWait + RoundLasts * Rounds + DhcpTime + 2
                             + GatewayPing + LookupTime + HostPing

Steps   == {"card", "round", "driver", "lost", "address", "ping", "end"}
Scripts == [step : Steps, round : 1 .. Rounds, driver : 1 .. Drivers]

ScriptInv ==
  /\ script \in Scripts /\ spent \in Nat /\ network \in {"activating", "active"}
  /\ network = "activating" => spent <= Longest(script)

\* However soon the program ends, a window holds one start in RestartSec.
WindowInv ==
  /\ rest \in 0 .. RestartSec /\ program \in {"waiting", "running", "exited"}
  /\ window \in [age : 0 .. StartLimitInterval + 1, starts : Nat]
  /\ rest > 0 => program = "exited"
  /\ WindowOpen => /\ program # "waiting"
                   /\ RestartSec * window.starts
                        <= window.age + rest + IF program = "exited" THEN 0 ELSE RestartSec

ServiceInv == ScriptInv /\ WindowInv

(* The longest times in seconds.                                           *)
LEMMA LongestInSeconds ==
  ASSUME NEW s \in Scripts
  PROVE  /\ s.step = "card"    => Longest(s) = 0
         /\ s.step = "round"   => Longest(s) = 40 + 43 * (s.round - 1)
         /\ s.step = "driver"  => Longest(s) = 42 + 43 * (s.round - 1) + 13 * (s.driver - 1)
         /\ s.step = "lost"    => Longest(s) = 81 + 43 * (s.round - 1)
         /\ s.step = "address" => Longest(s) = 126
         /\ s.step = "ping"    => Longest(s) = 144
         /\ s.step = "end"     => Longest(s) = 150 + LookupTime
         /\ s.step \in Steps /\ s.round \in 1 .. 2 /\ s.driver \in 1 .. 3
<1>1. s.step \in Steps /\ s.round \in 1 .. 2 /\ s.driver \in 1 .. 3
  BY DEF Scripts, Rounds, Drivers
<1> QED
  BY <1>1, LookupAssumption
  DEF Longest, Steps, BeforeRound, RoundLasts, CardWait, Rounds, Drivers, Association, DhcpTime,
      GatewayPing, HostPing

(* A step that is not later at its end than the script may be, and not     *)
(* later than TimeoutStartSec.                                             *)
LEMMA TakesKeeps ==
  ASSUME ScriptInv, NEW n \in Nat, NEW next \in Scripts, Takes(n, next),
         spent <= Longest(script) => spent + n <= Longest(next) /\ spent + n <= 180
  PROVE  ScriptInv'
<1>1. spent \in Nat /\ network = "activating" /\ spent + n <= Longest(next) /\ spent + n <= 180
  BY DEF Takes, ScriptInv
<1>2. spent' = spent + n /\ script' = next /\ network' = network
  BY <1>1 DEF Takes, TimeoutStartSec
<1>3. ScriptInv' <=> /\ next \in Scripts /\ spent + n \in Nat /\ network \in {"activating", "active"}
                     /\ (network = "activating" => spent + n <= Longest(next))
  BY <1>2 DEF ScriptInv, Longest, BeforeRound
<1> QED
  BY <1>1, <1>3

(* The script's steps stay within its time, if names are looked up in at   *)
(* most 30 seconds: two tries of five seconds for each of three servers.   *)
LEMMA ScriptStepKeeps ==
  ASSUME LookupTime <= 30, ScriptInv, Script
  PROVE  ScriptInv'
<1> USE LookupAssumption
<1>1. script \in Scripts /\ spent \in Nat
  BY DEF ScriptInv
<1>2. /\ \A s \in Steps : /\ Goes(s) \in Scripts /\ Goes(s).step = s
                          /\ Goes(s).round = script.round /\ Goes(s).driver = script.driver
      /\ {"round", "driver", "lost", "address", "ping", "end"} \subseteq Steps
  BY <1>1 DEF Goes, Scripts, Steps
<1>3. script.round \in 1 .. 2 /\ script.driver \in 1 .. 3
  BY <1>1, LongestInSeconds
<1>4. /\ script.step = "card"    => Longest(script) = 0
      /\ script.step = "round"   => Longest(script) = 40 + 43 * (script.round - 1)
      /\ script.step = "driver"  =>
           Longest(script) = 42 + 43 * (script.round - 1) + 13 * (script.driver - 1)
      /\ script.step = "lost"    => Longest(script) = 81 + 43 * (script.round - 1)
      /\ script.step = "address" => Longest(script) = 126
      /\ script.step = "ping"    => Longest(script) = 144
  BY <1>1, LongestInSeconds, Zenon
<1>5. /\ Longest(Goes("round"))   = 40 + 43 * (script.round - 1)
      /\ Longest(Goes("lost"))    = 81 + 43 * (script.round - 1)
      /\ Longest(Goes("address")) = 126
      /\ Longest(Goes("ping"))    = 144
      /\ Longest(Goes("end"))     = 150 + LookupTime
  <2>1. /\ Goes("round") \in Scripts /\ Goes("lost") \in Scripts /\ Goes("address") \in Scripts
        /\ Goes("ping") \in Scripts /\ Goes("end") \in Scripts
        /\ Goes("round").step = "round" /\ Goes("lost").step = "lost"
        /\ Goes("address").step = "address" /\ Goes("ping").step = "ping" /\ Goes("end").step = "end"
        /\ Goes("round").round = script.round /\ Goes("lost").round = script.round
    BY <1>2
  <2>2. /\ Longest(Goes("round")) = 40 + 43 * (Goes("round").round - 1)
        /\ Longest(Goes("lost")) = 81 + 43 * (Goes("lost").round - 1)
    BY <2>1, LongestInSeconds, Zenon
  <2>3. /\ Longest(Goes("address")) = 126 /\ Longest(Goes("ping")) = 144
        /\ Longest(Goes("end")) = 150 + LookupTime
    BY <2>1, LongestInSeconds, Zenon
  <2> QED
    BY <2>1, <2>2, <2>3, Zenon
<1>6. CASE CardMissing \/ Ends
  BY <1>6 DEF CardMissing, Ends, Finishes, ScriptInv
<1>7. CASE CardReady
  <2>1. PICK n \in {0, CardWait} : Takes(n, Goes("round"))
    BY <1>7 DEF CardReady
  <2>2. n \in Nat /\ n <= 40 /\ script.step = "card"
    BY <1>7 DEF CardReady, At, CardWait
  <2>3. spent <= Longest(script) => spent + n <= Longest(Goes("round")) /\ spent + n <= 180
    BY <1>1, <1>3, <1>4, <1>5, <2>2
  <2> QED
    BY <1>2, <2>1, <2>2, <2>3, TakesKeeps
<1>8. CASE RoundBegins
  <2> DEFINE next == [Goes("driver") EXCEPT !.driver = 1]
  <2>1. Takes(2, next) /\ script.step = "round"
    BY <1>8 DEF RoundBegins, At
  <2>2. next \in Scripts /\ next.step = "driver" /\ next.round = script.round /\ next.driver = 1
    BY <1>2 DEF Scripts, Drivers
  <2> HIDE DEF next
  <2>3. Longest(next) = 42 + 43 * (next.round - 1) + 13 * (next.driver - 1)
    BY <2>2, LongestInSeconds, Zenon
  <2>4. spent <= Longest(script) => spent + 2 <= Longest(next) /\ spent + 2 <= 180
    BY <1>1, <1>3, <1>4, <2>1, <2>2, <2>3
  <2> QED
    BY <2>1, <2>2, <2>4, TakesKeeps
<1>9. CASE DriverFails
  <2>1. PICK n \in {1, 1 + Association} : NextDriver(n)
    BY <1>9 DEF DriverFails
  <2>2. n \in Nat /\ n <= 13 /\ script.step = "driver"
    BY <1>9 DEF DriverFails, At, Association
  <2>3. CASE script.driver < Drivers
    <3> DEFINE next == [script EXCEPT !.driver = script.driver + 1]
    <3>1. Takes(n, next)
      BY <2>1, <2>3 DEF NextDriver
    <3>2. next \in Scripts /\ next.step = "driver" /\ next.round = script.round
          /\ next.driver = script.driver + 1
      BY <1>1, <2>2, <2>3 DEF Scripts, Drivers
    <3> HIDE DEF next
    <3>3. Longest(next) = 42 + 43 * (next.round - 1) + 13 * (next.driver - 1)
      BY <3>2, LongestInSeconds, Zenon
    <3>4. spent <= Longest(script) => spent + n <= Longest(next) /\ spent + n <= 180
      BY <1>1, <1>3, <1>4, <2>2, <2>3, <3>2, <3>3 DEF Drivers
    <3> QED
      BY <2>2, <3>1, <3>2, <3>4, TakesKeeps
  <2>4. CASE ~(script.driver < Drivers)
    <3>1. Takes(n, Goes("lost"))
      BY <2>1, <2>4 DEF NextDriver
    <3>2. spent <= Longest(script) => spent + n <= Longest(Goes("lost")) /\ spent + n <= 180
      BY <1>1, <1>3, <1>4, <1>5, <2>2
    <3> QED
      BY <1>2, <2>2, <3>1, <3>2, TakesKeeps
  <2> QED
    BY <2>3, <2>4
<1>10. CASE Associates
  <2>1. PICK n \in 1 .. Association : Takes(n, Goes("address"))
    BY <1>10 DEF Associates
  <2>2. n \in Nat /\ n <= 12 /\ script.step = "driver"
    BY <1>10 DEF Associates, At, Association
  <2>3. spent <= Longest(script) => spent + n <= Longest(Goes("address")) /\ spent + n <= 180
    BY <1>1, <1>3, <1>4, <1>5, <2>2
  <2> QED
    BY <1>2, <2>1, <2>2, <2>3, TakesKeeps
<1>11. CASE RoundFails
  <2>1. CASE script.round < Rounds
    <3> DEFINE next == [Goes("round") EXCEPT !.round = Goes("round").round + 1]
    <3>1. Takes(2, next) /\ script.step = "lost"
      BY <1>11, <2>1 DEF RoundFails, At
    <3>2. next \in Scripts /\ next.step = "round" /\ next.round = script.round + 1
      BY <1>2, <2>1 DEF Scripts, Rounds
    <3> HIDE DEF next
    <3>3. Longest(next) = 40 + 43 * (next.round - 1)
      BY <3>2, LongestInSeconds, Zenon
    <3>4. spent <= Longest(script) => spent + 2 <= Longest(next) /\ spent + 2 <= 180
      BY <1>1, <1>3, <1>4, <3>1, <3>2, <3>3
    <3> QED
      BY <3>1, <3>2, <3>4, TakesKeeps
  <2>2. CASE ~(script.round < Rounds)
    <3>1. Takes(2, Goes("address")) /\ script.step = "lost"
      BY <1>11, <2>2 DEF RoundFails, At
    <3>2. spent <= Longest(script) => spent + 2 <= Longest(Goes("address")) /\ spent + 2 <= 180
      BY <1>1, <1>3, <1>4, <1>5, <3>1
    <3> QED
      BY <1>2, <3>1, <3>2, TakesKeeps
  <2> QED
    BY <2>1, <2>2
<1>12. CASE Address
  <2>1. PICK n \in {0, 2, DhcpTime + 2} : Takes(n, Goes("ping"))
    BY <1>12 DEF Address
  <2>2. n \in Nat /\ n <= 18 /\ script.step = "address"
    BY <1>12 DEF Address, At, DhcpTime
  <2>3. spent <= Longest(script) => spent + n <= Longest(Goes("ping")) /\ spent + n <= 180
    BY <1>1, <1>4, <1>5, <2>2
  <2> QED
    BY <1>2, <2>1, <2>2, <2>3, TakesKeeps
<1>13. CASE Pings
  <2>1. PICK n \in {0, GatewayPing + LookupTime + HostPing} : Takes(n, Goes("end"))
    BY <1>13 DEF Pings
  <2>2. n \in Nat /\ n <= 6 + LookupTime /\ script.step = "ping"
    BY <1>13 DEF Pings, At, GatewayPing, HostPing
  <2>3. spent <= Longest(script) => spent + n <= Longest(Goes("end")) /\ spent + n <= 180
    BY <1>1, <1>4, <1>5, <2>2
  <2> QED
    BY <1>2, <2>1, <2>2, <2>3, TakesKeeps
<1> QED
  BY <1>6, <1>7, <1>8, <1>9, <1>10, <1>11, <1>12, <1>13 DEF Script

(* Starts and exits of the program, and the seconds between them.          *)
LEMMA ProgramStepKeeps ==
  ASSUME WindowInv, StartProgram \/ ProgramExits \/ SecondPasses
  PROVE  WindowInv'
<1> USE DEF WindowInv, WindowOpen, StartLimitInterval, StartLimitBurst, RestartSec
<1>1. CASE StartProgram
  <2>1. rest = 0 /\ rest' = 0 /\ program \in {"waiting", "exited"}
    BY <1>1 DEF StartProgram
  <2>2. CASE WindowOpen
    <3>1. 3 * window.starts <= window.age /\ window.age <= 10
      BY <2>1, <2>2
    <3>2. window.starts < 5 /\ window.starts \in Nat /\ window.age \in 0 .. 11
      BY <3>1
    <3>3. program' = "running" /\ window' = [window EXCEPT !.starts = window.starts + 1]
      BY <1>1, <2>2, <3>2 DEF StartProgram
    <3>4. window'.age = window.age /\ window'.starts = window.starts + 1
          /\ window' \in [age : 0 .. 11, starts : Nat]
      BY <3>3, <3>2
    <3> QED
      BY <2>1, <3>1, <3>2, <3>3, <3>4
  <2>3. CASE ~WindowOpen
    <3>1. program' = "running" /\ window' = [age |-> 0, starts |-> 1]
      BY <1>1, <2>3 DEF StartProgram
    <3> QED
      BY <2>1, <3>1
  <2> QED
    BY <2>2, <2>3
<1>2. CASE ProgramExits
  BY <1>2 DEF ProgramExits, Restarts
<1>3. CASE SecondPasses
  <2>1. /\ program' = program /\ rest' = (IF rest > 0 THEN rest - 1 ELSE 0)
        /\ window' = [window EXCEPT !.age = IF WindowOpen THEN window.age + 1 ELSE window.age]
    BY <1>3 DEF SecondPasses
  <2>2. window.age \in 0 .. 11 /\ window.starts \in Nat
    OBVIOUS
  <2>3. /\ window'.age = (IF window.age <= 10 THEN window.age + 1 ELSE window.age)
        /\ window'.starts = window.starts
        /\ window' \in [age : 0 .. 11, starts : Nat]
    BY <2>1, <2>2
  <2> QED
    BY <2>1, <2>2, <2>3
<1> QED
  BY <1>1, <1>2, <1>3

(* The service stays within its limits, whatever happens at boot and       *)
(* however often the program ends.                                         *)
THEOREM ServiceInvariance ==
  ASSUME LookupTime <= 30
  PROVE  ServiceSpec => []ServiceInv
<1>1. ASSUME ServiceInit PROVE ServiceInv
  <2>1. script \in Scripts /\ script.step = "card"
    BY <1>1 DEF ServiceInit, Scripts, Steps, Rounds, Drivers
  <2>2. Longest(script) = 0
    BY <2>1, LongestInSeconds, Zenon
  <2>3. ScriptInv
    BY <1>1, <2>1, <2>2 DEF ServiceInit, ScriptInv
  <2>4. WindowInv
    BY <1>1 DEF ServiceInit, WindowInv, WindowOpen, StartLimitInterval, RestartSec
  <2> QED
    BY <2>3, <2>4 DEF ServiceInv
<1>2. ServiceInv /\ [ServiceNext]_serviceVars => ServiceInv'
  <2> SUFFICES ASSUME ServiceInv, [ServiceNext]_serviceVars PROVE ServiceInv'
    OBVIOUS
  <2> USE DEF ServiceInv
  <2>1. CASE Script
    <3>1. UNCHANGED <<program, window, rest>>
      BY <2>1 DEF Script, CardReady, CardMissing, RoundBegins, DriverFails, NextDriver, Associates,
                  RoundFails, Address, Pings, Ends, Takes, Finishes
    <3> QED
      BY <2>1, <3>1, ScriptStepKeeps DEF WindowInv, WindowOpen
  <2>2. CASE StartProgram \/ ProgramExits \/ SecondPasses
    <3>1. UNCHANGED <<script, spent, network>>
      BY <2>2 DEF StartProgram, ProgramExits, SecondPasses
    <3> QED
      BY <2>2, <3>1, ProgramStepKeeps DEF ScriptInv, Longest, BeforeRound
  <2>3. CASE UNCHANGED serviceVars
    BY <2>3 DEF serviceVars, ScriptInv, Longest, BeforeRound, WindowInv, WindowOpen
  <2> QED
    BY <2>1, <2>2, <2>3 DEF ServiceNext
<1> QED
  BY <1>1, <1>2, PTL DEF ServiceSpec

(* systemd neither kills the script nor gives the program up.              *)
THEOREM ServiceIsNeverGivenUp ==
  ASSUME LookupTime <= 30
  PROVE  ServiceSpec => []NeverGivenUp
<1>1. ServiceInv => NeverGivenUp
  BY DEF ServiceInv, ScriptInv, WindowInv, NeverGivenUp
<1> QED
  BY ServiceInvariance, <1>1, PTL
=============================================================================
