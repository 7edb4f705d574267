---------------------------- MODULE FrameProtocol ----------------------------
(***************************************************************************)
(* The byte format of the link with LongLook (FrameProtocol.h): how a      *)
(* frame is built, and the two parsers that take frames out of a byte      *)
(* stream, pollCommands of TcpServer.cpp and parse_stream of               *)
(* test/frame_parser_check.py, which repeats the parser of LongLook.       *)
(* A byte is a number, a buffer a sequence of bytes; positions count from  *)
(* 1 where the code counts from 0.                                         *)
(***************************************************************************)
EXTENDS Integers, Sequences

LL_SOF         == 165
LL_HEADER_SIZE == 6
LL_MAX_PAYLOAD == 16777216
FRAME_TEXT     == 48
FRAME_COMMAND  == 64

Byte == 0 .. 255

BuildHeader(type, len) ==
  << LL_SOF, type, len % 256, (len \div 256) % 256,
     (len \div 65536) % 256, (len \div 16777216) % 256 >>

BuildFrame(type, payload) == BuildHeader(type, Len(payload)) \o payload

(* LEN of the header h.                                                    *)
LenOf(h) == h[3] + 256 * h[4] + 65536 * h[5] + 16777216 * h[6]

(* A limit that only looks at the highest byte of LEN.                     *)
TooLongByHighByte(h) == h[6] > 1

(* The comparison of LEN with LL_MAX_PAYLOAD.  The highest byte is looked  *)
(* at first so that LEN is only computed where it is small;                *)
(* FrameProtocol_proofs shows that this is "LenOf(h) > LL_MAX_PAYLOAD".    *)
TooLong(h) == h[6] > 1 \/ LenOf(h) > LL_MAX_PAYLOAD

(* The frame at the beginning of data, as long as its header says.         *)
Need(data) == LL_HEADER_SIZE + LenOf(data)

FrameOf(data) ==
  [type |-> data[2], payload |-> SubSeq(data, LL_HEADER_SIZE + 1, Need(data))]

(* What pollCommands hands out of a frame: commands of two bytes or more.  *)
CommandOf(frame) ==
  IF frame.type = FRAME_COMMAND /\ Len(frame.payload) >= 2
  THEN <<[cmdId |-> frame.payload[1], value |-> frame.payload[2]]>> ELSE <<>>
-----------------------------------------------------------------------------
(* A parser is a loop.  A turn of it, with data before it, drops bytes or  *)
(* takes a frame and goes on behind them, or, when bytes is 0, leaves rest *)
(* in the buffer and ends the loop.                                        *)
Leaves(rest) == [bytes |-> 0, frames |-> <<>>, commands |-> <<>>, rest |-> rest]
Drops(n)     == [bytes |-> n, frames |-> <<>>, commands |-> <<>>, rest |-> <<>>]
Consumes(skipped, data) ==
  [ bytes    |-> skipped + Need(data), frames |-> <<FrameOf(data)>>,
    commands |-> CommandOf(FrameOf(data)), rest |-> <<>> ]

Past(data, n) == SubSeq(data, n + 1, Len(data))

(* What turns find together: found first, then behind it.                  *)
Joined(first, then) ==
  [ frames |-> first.frames \o then.frames, commands |-> first.commands \o then.commands,
    rest |-> then.rest ]

Ended(turn) == [frames |-> <<>>, commands |-> <<>>, rest |-> turn.rest]

(* How far pollCommands moves when it is out of sync.                      *)
ResyncByHeader == LL_HEADER_SIZE

Resync == 1

(* A turn of the loop of pollCommands.                                     *)
ScanTurn(data) ==
  IF Len(data) < LL_HEADER_SIZE THEN Leaves(data)
  ELSE IF data[1] # LL_SOF \/ TooLong(data) THEN Drops(Resync)
  ELSE IF Len(data) < Need(data) THEN Leaves(data)
  ELSE Consumes(0, data)

(* pollCommands: the complete frames of buf in order, the commands of      *)
(* them, and what of buf is kept for the next call.                        *)
Scan[buf \in Seq(Byte)] ==
  LET turn == ScanTurn(buf)
  IN  IF turn.bytes = 0 THEN Ended(turn) ELSE Joined(turn, Scan[Past(buf, turn.bytes)])
-----------------------------------------------------------------------------
(* The bytes before the next SOF, all of them if there is none.            *)
BeforeSof(data) ==
  CHOOSE n \in 0 .. Len(data) :
    /\ n < Len(data) => data[n + 1] = LL_SOF
    /\ \A i \in 1 .. n : data[i] # LL_SOF

(* LongLook has a limit of its own.                                        *)
LongLookLimit == 16 * 1024 * 1024
TooLongForLongLook(h) == h[6] > 1 \/ LenOf(h) > LongLookLimit

(* A turn of parse_stream: jump to the next SOF, leaving nothing if there  *)
(* is none; otherwise the same tests.                                      *)
ParseTurn(data) ==
  LET n   == BeforeSof(data)
      sof == Past(data, n)
  IN  IF Len(sof) < LL_HEADER_SIZE THEN Leaves(sof)
      ELSE IF TooLongForLongLook(sof) THEN Drops(n + 1)
      ELSE IF Len(sof) < Need(sof) THEN Leaves(sof)
      ELSE Consumes(n, sof)

ParseStream[buf \in Seq(Byte)] ==
  LET turn == ParseTurn(buf)
  IN  IF turn.bytes = 0 THEN Ended(turn) ELSE Joined(turn, ParseStream[Past(buf, turn.bytes)])
-----------------------------------------------------------------------------
(* SensorData with its default values.                                     *)
NoSensorData ==
  [timestamp_ms |-> 0, temperature_01c |-> 0, humidity_01 |-> 0, gas_ppm |-> 0,
   pressure_pa |-> 0, distance_cm |-> 0, encoder1 |-> 0, encoder2 |-> 0,
   speed_L |-> 0, speed_R |-> 0, servo_us |-> 0, voltage_mV |-> 0, mode |-> 0,
   fault |-> 0, risk_level |-> 0, flags |-> 0, fan |-> 0, buzzer |-> 0,
   relay |-> 0, led |-> 0]

(* Little-endian; a negative number is cast to its two's complement.       *)
Put16BigEndian(v) == << (v \div 256) % 256, v % 256 >>

Put16(v) == << v % 256, (v \div 256) % 256 >>
Put32(v) == << v % 256, (v \div 256) % 256, (v \div 65536) % 256, (v \div 16777216) % 256 >>

PackSensor(s) ==
  Put32(s.timestamp_ms) \o Put16(s.temperature_01c) \o Put16(s.humidity_01)
    \o Put16(s.gas_ppm) \o Put32(s.pressure_pa) \o Put16(s.distance_cm)
    \o Put32(s.encoder1) \o Put32(s.encoder2) \o Put16(s.speed_L) \o Put16(s.speed_R)
    \o Put16(s.servo_us) \o Put16(s.voltage_mV)
    \o << s.mode, s.fault, s.risk_level, s.flags, s.fan, s.buzzer, s.relay, s.led >>
=============================================================================
