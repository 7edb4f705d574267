----------------------------- MODULE SensorClock ----------------------------
(***************************************************************************)
(* The one-second clock of the telemetry in Application::serveClient, on   *)
(* nowMs(), a millisecond counter of 32 bits.  A turn of the loop takes as *)
(* long as grabbing and sending take; what else a turn does is in module   *)
(* Application.  The clock of the log line about the frame rate works the  *)
(* same way and only logs.                                                 *)
(***************************************************************************)
EXTENDS FrameProtocol

CONSTANTS ClockWrap,   \* 2^32
          Second,      \* 1000
          MaxTurn      \* bound: the longest turn of the loop

ASSUME ClockAssumption ==
  ClockWrap \in Nat /\ Second \in Nat \ {0} /\ MaxTurn \in Nat /\ Second + MaxTurn < ClockWrap

VARIABLES ms,            \* what nowMs() returns
          lastSensorMs,
          serving,       \* is a client served?
          silence,       \* history: the time since its last telemetry frame
          telemetry      \* the telemetry frame of this turn: its payload and time

clockVars == <<ms, lastSensorMs, serving, silence, telemetry>>

NoFrame == [payload |-> <<>>, at |-> 0]

ClockInit ==
  /\ ms \in 0 .. ClockWrap - 1
  /\ lastSensorMs = 0 /\ serving = FALSE /\ silence = 0 /\ telemetry = NoFrame

ServeBegins ==
  /\ ~serving
  /\ serving' = TRUE /\ lastSensorMs' = 0 /\ silence' = 0 /\ telemetry' = NoFrame
  /\ UNCHANGED ms

ServeEnds ==
  /\ serving
  /\ serving' = FALSE /\ silence' = 0 /\ telemetry' = NoFrame
  /\ UNCHANGED <<ms, lastSensorMs>>

\* t - lastSensorMs >= 1000 in 32 bits; compared instead of subtracted.
SecondLater(t) == t >= lastSensorMs + Second
SecondOver(t)  == (t - lastSensorMs) % ClockWrap >= Second

\* The placeholder values the program sends.
Reading(t) == [NoSensorData EXCEPT !.timestamp_ms = t, !.voltage_mV = 12000, !.mode = 3]

\* A turn that ends d ms after the last one: the time is read behind the video
\* frame, and telemetry is sent when a second is over.
Turn(d) ==
  LET t == (ms + d) % ClockWrap IN
  /\ serving
  /\ ms' = t
  /\ IF SecondOver(t)
     THEN /\ lastSensorMs' = t
          /\ silence' = 0
          /\ telemetry' = [payload |-> PackSensor(Reading(t)), at |-> t]
     ELSE /\ silence' = silence + d
          /\ telemetry' = NoFrame
          /\ UNCHANGED lastSensorMs
  /\ UNCHANGED serving

ClockNext == ServeBegins \/ ServeEnds \/ \E d \in 0 .. MaxTurn : Turn(d)

ClockSpec == ClockInit /\ [][ClockNext]_clockVars
-----------------------------------------------------------------------------
\* Wherever the counter stands and wherever it wraps, no turn of the loop leaves
\* a client without telemetry for a second and the longest turn; the turn that
\* crosses the wrap right after its start is why it is not a second.
TelemetryKeepsComing == silence < Second + MaxTurn

\* The payload has the length and the offsets LongLook reads (dispatch in
\* frame_parser_check.py: at least 40 bytes, temperature at 4, voltage at 30).
TelemetryReadable ==
  LET p == telemetry.payload
      U16(offset) == p[offset + 1] + 256 * p[offset + 2]
  IN  p # <<>> => /\ Len(p) >= 40
                  /\ U16(0) = telemetry.at % 65536
                  /\ U16(4) = 0
                  /\ U16(30) = 12000
                  /\ p[33] = 3
=============================================================================
