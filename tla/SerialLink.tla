----------------------------- MODULE SerialLink ------------------------------
(***************************************************************************)
(* SerialManager (src/modules/serial/SerialManager.cpp) on a line that     *)
(* cuts, corrupts and loses bytes: the port is opened, closed and opened   *)
(* again, poll() reads whatever has arrived, sendCmd() may find that the   *)
(* port takes only part of a frame.                                        *)
(***************************************************************************)
EXTENDS SerialProtocol

CONSTANTS
  SerialScripts,  \* what may come down the line: sequences of pieces
  ReadMax,        \* the size of the local array read() fills: 256
  MaxOpens,       \* bound: how often the port is opened
  Payloads,       \* the payloads of CMD_ESTOP the program may send: their
                  \* length is a uint8_t
  MaxSends        \* bound: how many commands are sent, on a quiet line only

(* A piece is the bytes of one report with its payload, or what noise left *)
(* of one.                                                                 *)
Pieces == [bytes : Seq(Byte), reports : Seq(Seq(Byte)), noise : BOOLEAN]

Report(cmd, payload) ==
  [bytes |-> BuildSerialFrame(cmd, payload), reports |-> <<payload>>, noise |-> FALSE]

ASSUME SerialAssumption ==
  /\ ReadMax \in Nat \ {0} /\ MaxOpens \in Nat /\ MaxSends \in Nat
  /\ \A payload \in Payloads : payload \in Seq(Byte) /\ Len(payload) <= 255
  /\ \A s \in SerialScripts :
       /\ s \in Seq(Pieces)
       /\ \A i \in DOMAIN s : s[i].noise \/
            LET payload == SubSeq(s[i].bytes, 5, Len(s[i].bytes) - 1)
            IN  Len(payload) < 255 /\ s[i] = Report(s[i].bytes[4], payload)

VARIABLES
  script,     \* the pieces that come down the line
  taken,      \* how many of their bytes were read, or were lost
  isOpen,     \* fd_ >= 0
  opens,      \* how often open() was called
  rxBuf,      \* rxBuf_
  received,   \* every byte read() ever returned
  delivered,  \* every frame the callback was given
  lineOut,    \* the bytes the port accepted for the controller
  confirmed,  \* the commands sendCmd() returned true for
  sends       \* how many commands were sent

rxVars     == <<script, taken, rxBuf, received, delivered>>
txVars     == <<lineOut, confirmed, sends>>
serialVars == <<rxVars, isOpen, opens, txVars>>

(* The bytes of the first i pieces of a script, and their reports.         *)
BytesOf(s)   == LET bytes[i \in 0 .. Len(s)] ==
                      IF i = 0 THEN <<>> ELSE bytes[i - 1] \o s[i].bytes
                IN  bytes
ReportsOf(s) == LET reports[i \in 0 .. Len(s)] ==
                      IF i = 0 THEN <<>> ELSE reports[i - 1] \o s[i].reports
                IN  reports

LineBytes == BytesOf(script)[Len(script)]

SerialFrames == [at : Nat, cmd : Byte, length : Nat, payload : Seq(Byte)]

ReceiverTypeOK ==
  /\ script \in SerialScripts
  /\ taken \in 0 .. Len(LineBytes)
  /\ rxBuf \in Seq(Byte)
  /\ received \in Seq(Byte) /\ Len(received) <= taken
  /\ delivered \in Seq(SerialFrames)

SenderTypeOK ==
  /\ lineOut \in Seq(Byte)
  /\ confirmed \in Seq([at : Nat, payload : Payloads]) /\ Len(confirmed) <= sends
  /\ sends \in 0 .. MaxSends

SerialTypeOK == ReceiverTypeOK /\ SenderTypeOK /\ isOpen \in BOOLEAN /\ opens \in 0 .. MaxOpens

SerialInit ==
  /\ script \in SerialScripts
  /\ taken = 0
  /\ isOpen = FALSE
  /\ opens = 0
  /\ rxBuf = <<>>
  /\ received = <<>>
  /\ delivered = <<>>
  /\ lineOut = <<>>
  /\ confirmed = <<>>
  /\ sends = 0
-----------------------------------------------------------------------------
(* open() closes the port first; a failure leaves it closed.  rxBuf_ stays *)
(* as it is.                                                               *)
OpenPort ==
  /\ opens < MaxOpens
  /\ opens' = opens + 1
  /\ isOpen' \in BOOLEAN
  /\ UNCHANGED <<rxVars, txVars>>

ClosePort ==
  /\ isOpen
  /\ isOpen' = FALSE
  /\ UNCHANGED <<rxVars, opens, txVars>>

(* What arrives while the port is closed is lost, as is what was in its    *)
(* queue.                                                                  *)
LoseInput ==
  /\ ~isOpen
  /\ taken' \in taken + 1 .. Len(LineBytes)
  /\ UNCHANGED <<script, rxBuf, received, delivered, isOpen, opens, txVars>>

(* The loop of poll() on its buffer with chunk appended, and the callback  *)
(* for each frame found.                                                   *)
Parsed(chunk) == SerialScan(Len(received) - Len(rxBuf) + 1, rxBuf \o chunk)

HandOver(chunk) ==
  /\ received' = received \o chunk
  /\ delivered' = delivered \o Parsed(chunk).frames

Incoming(n) == SubSeq(LineBytes, taken + 1, taken + n)
Available   == 1 .. Len(LineBytes) - taken

(* A poll() that starts every time with an empty buffer.                   *)
PollForgetting ==
  /\ isOpen
  /\ \E n \in Available :
       n <= ReadMax /\ taken' = taken + n /\ HandOver(Incoming(n)) /\ rxBuf' = <<>>
  /\ UNCHANGED <<script, isOpen, opens, txVars>>

(* poll(): one read() of what has arrived, then all complete frames.       *)
PollPort ==
  /\ isOpen
  /\ \E n \in Available :
       /\ n <= ReadMax
       /\ taken' = taken + n
       /\ HandOver(Incoming(n))
       /\ rxBuf' = Parsed(Incoming(n)).rest
  /\ UNCHANGED <<script, isOpen, opens, txVars>>

(* The result of sendCmd() when any progress of write() counts.            *)
SentAnything(n, size) == n > 0

SentWhole(n, size) == n = size

(* sendCmd(): one write(), which takes the frame, the beginning of it or   *)
(* nothing; the rest is not tried again.  It shares only fd_ with poll(),  *)
(* so it is enough to send while nothing comes down the line.              *)
SendCmd ==
  /\ isOpen
  /\ script = <<>> /\ sends < MaxSends
  /\ sends' = sends + 1
  /\ \E payload \in Payloads :
       LET frame == BuildSerialFrame(CMD_ESTOP, payload)
       IN  \E n \in 0 .. Len(frame) :
             /\ lineOut' = lineOut \o SubSeq(frame, 1, n)
             /\ confirmed' = IF SentWhole(n, Len(frame))
                             THEN Append(confirmed, [at |-> Len(lineOut) + 1,
                                                     payload |-> payload])
                             ELSE confirmed
  /\ UNCHANGED <<rxVars, isOpen, opens>>

SerialNext == OpenPort \/ ClosePort \/ LoseInput \/ PollPort \/ SendCmd

SerialSpec == SerialInit /\ [][SerialNext]_serialVars
-----------------------------------------------------------------------------
(* However the bytes are cut into reads, and however often the port was    *)
(* closed in between, the callback was given the frames that one pass over *)
(* all bytes read finds, each once, and the same rest is kept.             *)
PollsAddUp ==
  LET whole == SerialScan(1, received)
  IN  delivered = whole.frames /\ rxBuf = whole.rest

(* No good frame is passed over: every frame with a right checksum that is *)
(* all there and begins in the bytes poll() is done with was handed over,  *)
(* or begins inside one that was.                                          *)
NoFrameSkipped ==
  LET doneWith == Len(received) - Len(rxBuf)
  IN  \A o \in 1 .. Len(received) - 4 :
        /\ o <= doneWith
        /\ InSync(received, o)
        /\ o + FrameSize(received, o) - 1 <= Len(received)
        /\ CrcAgrees(received, o)
        => \E i \in DOMAIN delivered :
             LET f == delivered[i].at
             IN  o \in f .. f + FrameSize(received, f) - 1

(* What poll() keeps is too short for a header, or the beginning of one    *)
(* frame: the buffer never grows beyond the longest frame.                 *)
SerialRestIsFrameStart ==
  Len(rxBuf) >= 5 =>
    /\ rxBuf[1] = SOF1 /\ rxBuf[2] = SOF2
    /\ Len(rxBuf) < FrameSize(rxBuf, 1)

(* On a line without noise and on a port opened once, the callback was     *)
(* given the reports that were received in full, in their order.           *)
ReportsWritten ==
  LET Whole(i) == Len(BytesOf(script)[i]) <= taken
      last     == CHOOSE i \in 0 .. Len(script) : Whole(i) /\ (i < Len(script) => ~Whole(i + 1))
  IN  ReportsOf(script)[last]

PayloadsOf(frames) == [i \in DOMAIN frames |-> frames[i].payload]

ReportsLossless ==
  (\A i \in DOMAIN script : ~script[i].noise) /\ Len(received) = taken =>
    PayloadsOf(delivered) = ReportsWritten

(* crc8() is the CRC-8 of polynomial 0x07, on everything that was read.    *)
CrcIsRemainder == Crc8(received) = Remainder(received)

(* Where a confirmed command is on the line, and whether LEN can tell how  *)
(* long it is; the bytes on the line that belong to no such command: those *)
(* of commands that were sent in part.                                     *)
Place(i) == confirmed[i].at .. confirmed[i].at + Len(confirmed[i].payload) + 4

Tells(i) == Len(confirmed[i].payload) < 255

Strays == {p \in 1 .. Len(lineOut) : \A i \in DOMAIN confirmed : p \in Place(i) => ~Tells(i)}

(* A receiver that parses the line as poll() does finds a command for      *)
(* which sendCmd() returned true, at its place and with its payload,       *)
(* unless half a command was sent before it; and then that half made the   *)
(* receiver wait for more, or find a frame nobody sent, and the command    *)
(* begins inside of it.                                                    *)
FoundOrHidden ==
  LET mcu == SerialScan(1, lineOut)
  IN  \A i \in DOMAIN confirmed : Tells(i) =>
        \/ \E k \in DOMAIN mcu.frames :
             /\ mcu.frames[k].at = confirmed[i].at
             /\ mcu.frames[k].payload = confirmed[i].payload
        \/ /\ \E p \in Strays : p < confirmed[i].at
           /\ \/ confirmed[i].at > Len(lineOut) - Len(mcu.rest)
              \/ \E k \in DOMAIN mcu.frames :
                   LET f == mcu.frames[k].at
                   IN  /\ confirmed[i].at \in f + 1 .. f + FrameSize(lineOut, f) - 1
                       /\ \A j \in DOMAIN confirmed : confirmed[j].at # f

(* With no half commands on the line, the receiver gets the confirmed      *)
(* commands, in their order, and nothing else.                             *)
CommandsLossless ==
  LET mcu == SerialScan(1, lineOut)
  IN  Strays = {} => PayloadsOf(mcu.frames) = PayloadsOf(confirmed) /\ mcu.rest = <<>>

(* What sendCmd() confirmed can be received, and nothing else is.          *)
ConfirmedIsReceivable == FoundOrHidden /\ CommandsLossless

(* Protocol.h:12: LEN counts the CMD byte and the payload.  So what the    *)
(* callback is given as the payload's length is the payload's length.      *)
LengthIsPayload ==
  \A i \in DOMAIN delivered : delivered[i].length = Len(delivered[i].payload)
=============================================================================
