--------------------------- MODULE SerialProtocol ---------------------------
(***************************************************************************)
(* The frames on the serial line between the board and its motor           *)
(* controller (Protocol.h) and the parser of SerialManager::poll.          *)
(*                                                                         *)
(*   SOF1 SOF2 LEN CMD payload CRC      LEN = 1 + length of the payload    *)
(*                                                                         *)
(* Bytes are numbers, positions count from 1.                              *)
(***************************************************************************)
EXTENDS Integers, Sequences, FiniteSetsExt

SOF1      == 170
SOF2      == 85
CMD_ESTOP == 23
RPT_ACK   == 47

Byte == 0 .. 255

(* size_t(0) - 1: stands for 2^64 - 1, more than any buffer holds.         *)
SIZE_MAX == 2147483647

(* The bits of a byte that are set, counted from the lowest, and back.     *)
Bits(byte)   == {b \in 0 .. 7 : (byte \div (2 ^ b)) % 2 = 1}
Number(bits) ==
  LET Value(b) == IF b \in bits THEN 2 ^ b ELSE 0
  IN  Value(0) + Value(1) + Value(2) + Value(3) + Value(4) + Value(5) + Value(6) + Value(7)

Xor(x, y) == Number(SymDiff(Bits(x), Bits(y)))

(* One turn of the inner loop of crc8 that tests the bit after the shift.  *)
CrcShiftLate ==
  [crc \in Byte |-> LET s == (2 * crc) % 256 IN IF s >= 128 THEN Xor(s, 7) ELSE s]

CrcShift ==
  [crc \in Byte |-> IF crc >= 128 THEN Xor((2 * crc) % 256, 7) ELSE 2 * crc]

CrcOfByte ==
  [byte \in Byte |->
     LET shifted[j \in 0 .. 8] == IF j = 0 THEN byte ELSE CrcShift[shifted[j - 1]]
     IN  shifted[8]]

Crc8(data) ==
  LET crc[i \in 0 .. Len(data)] ==
        IF i = 0 THEN 0 ELSE CrcOfByte[Xor(data[i], crc[i - 1])]
  IN  crc[Len(data)]

(* LEN is a byte.  A payload of payloadLen bytes is there: the code also   *)
(* takes a null pointer with a length, and sends LEN without the bytes.    *)
BuildSerialFrame(cmd, payload) ==
  LET body == <<(Len(payload) + 1) % 256, cmd>> \o payload
  IN  <<SOF1, SOF2>> \o body \o <<Crc8(body)>>
-----------------------------------------------------------------------------
(* What poll() tests at position o of its buffer.                          *)
InSyncByFirstByte(buf, o) == buf[o] = SOF1

InSync(buf, o) == buf[o] = SOF1 /\ buf[o + 1] = SOF2

FrameSize(buf, o) == buf[o + 2] + 4

Left(buf, o) == Len(buf) - o + 1

(* A checksum that leaves LEN out.                                         *)
CrcAgreesWithoutLen(buf, o) ==
  LET last == o + FrameSize(buf, o) - 1
  IN  Crc8(SubSeq(buf, o + 3, last - 1)) = buf[last]

CrcAgrees(buf, o) ==
  LET last == o + FrameSize(buf, o) - 1
  IN  Crc8(SubSeq(buf, o + 2, last - 1)) = buf[last]

(* How far poll() moves after a bad checksum.                              *)
SkipWholeFrame(size) == size

SkipAfterBadCrc(size) == 1

(* What the callback is given, and where in the stream it was, if the      *)
(* buffer begins at position at of it.                                     *)
SerialFrameAt(at, buf, o) ==
  LET len == buf[o + 2]
  IN  [ at      |-> at + o - 1,
        cmd     |-> buf[o + 3],
        length  |-> IF len = 0 THEN SIZE_MAX ELSE len - 1,
        payload |-> SubSeq(buf, o + 4, o + 2 + len) ]

(* A turn of the loop of poll(): how far it moves, 0 to end the loop, and  *)
(* the frame it found, if it did.                                          *)
Moves(n) == [bytes |-> n, frames |-> <<>>]

SerialTurn(at, buf, o) ==
  LET size == FrameSize(buf, o)
  IN  IF Left(buf, o) < 5 THEN Moves(0)
      ELSE IF ~InSync(buf, o) THEN Moves(1)
      ELSE IF Left(buf, o) < size THEN Moves(0)
      ELSE IF ~CrcAgrees(buf, o) THEN Moves(SkipAfterBadCrc(size))
      ELSE [bytes |-> size, frames |-> <<SerialFrameAt(at, buf, o)>>]

Joined(first, then) == [frames |-> first.frames \o then.frames, rest |-> then.rest]

(* The loop from position o on: the frames, and what is kept of buf.       *)
SerialScanFrom(at, buf) ==
  LET scan[o \in 1 .. Len(buf) + 1] ==
        LET turn == SerialTurn(at, buf, o)
        IN  IF turn.bytes = 0 THEN [frames |-> <<>>, rest |-> SubSeq(buf, o, Len(buf))]
            ELSE Joined(turn, scan[o + turn.bytes])
  IN  scan

SerialScan(at, buf) == SerialScanFrom(at, buf)[1]
-----------------------------------------------------------------------------
(* The definition of CRC-8 for the polynomial x^8 + x^2 + x + 1 ("poly     *)
(* 0x07"): the message as a polynomial, times x^8, and the remainder of    *)
(* its division.  A polynomial over bits is the set of its exponents, and  *)
(* subtraction is the symmetric difference.                                *)
Message(data) ==
  UNION { {8 * (Len(data) - i + 1) + b : b \in Bits(data[i])} : i \in DOMAIN data }

Remainder(data) ==
  LET top == 8 * Len(data) + 8
      divided[k \in 0 .. top - 8] ==
        IF k = 0 THEN Message(data)
        ELSE LET p == divided[k - 1]
                 e == top - k
             IN  IF e \in p THEN SymDiff(p, {e, e - 6, e - 7, e - 8}) ELSE p
  IN  Number(divided[top - 8])
=============================================================================
