--------------------------- MODULE CommandChannel ----------------------------
(***************************************************************************)
(* The direction LongLook -> program of one connection: the byte stream    *)
(* LongLook writes, cut into arbitrary chunks by the network, and          *)
(* TcpServer::pollCommands, which serveClient calls once per turn of its   *)
(* loop with the bytes kept from the last call.                            *)
(***************************************************************************)
EXTENDS FrameProtocol

CONSTANTS
  Scripts,   \* what LongLook may write: sequences of Pieces
  RecvMax    \* the size of the local array one recv() can fill: 512

(* A piece is the bytes of one frame with the command it stands for, if it *)
(* is one, or noise on the line.                                           *)
Pieces ==
  [bytes : Seq(Byte), commands : Seq([cmdId : Byte, value : Byte]), noise : BOOLEAN]

FramePiece(type, payload) ==
  [ bytes |-> BuildFrame(type, payload),
    commands |-> CommandOf([type |-> type, payload |-> payload]), noise |-> FALSE ]

ASSUME ChannelAssumption ==
  /\ RecvMax \in Nat \ {0}
  /\ \A s \in Scripts :
       /\ s \in Seq(Pieces)
       /\ \A i \in DOMAIN s : s[i].noise \/
            \E type \in Byte : LET payload == Past(s[i].bytes, LL_HEADER_SIZE) IN
              Len(payload) <= LL_MAX_PAYLOAD /\ s[i] = FramePiece(type, payload)

VARIABLES
  script,     \* the pieces LongLook writes on this connection
  arrived,    \* how many of their bytes are in the socket's receive queue
              \* or were taken from it
  taken,      \* how many of them recv() has returned
  peer,       \* "open", or what the peer's side did: "closed" or "lost"
  phase,      \* "outside" pollCommands, in its "recv" loop, "parse" after it
  rxBuf,      \* rxBuf of serveClient: the bytes kept between calls
  delivered,  \* the commands handed to serveClient, over all calls
  rc          \* 0, or the error the last call returned

chanVars == <<script, arrived, taken, peer, phase, rxBuf, delivered, rc>>

(* The bytes of the first i pieces of a script, and their commands.        *)
BytesOf(s)    == LET bytes[i \in 0 .. Len(s)] ==
                       IF i = 0 THEN <<>> ELSE bytes[i - 1] \o s[i].bytes
                 IN  bytes
CommandsOf(s) == LET commands[i \in 0 .. Len(s)] ==
                       IF i = 0 THEN <<>> ELSE commands[i - 1] \o s[i].commands
                 IN  commands

Stream == BytesOf(script)[Len(script)]

ChannelTypeOK ==
  /\ script \in Scripts
  /\ arrived \in 0 .. Len(Stream)
  /\ taken \in 0 .. arrived
  /\ peer \in {"open", "closed", "lost"}
  /\ phase \in {"outside", "recv", "parse"}
  /\ rxBuf \in Seq(Byte)
  /\ delivered \in Seq([cmdId : Byte, value : Byte])
  /\ rc \in {0, -1, -2}

ChannelInit ==
  /\ script \in Scripts
  /\ arrived = 0
  /\ taken = 0
  /\ peer = "open"
  /\ phase = "outside"
  /\ rxBuf = <<>>
  /\ delivered = <<>>
  /\ rc = 0
-----------------------------------------------------------------------------
(* The network delivers any number of further bytes.                       *)
Arrive ==
  /\ peer = "open"
  /\ arrived' \in arrived + 1 .. Len(Stream)
  /\ UNCHANGED <<script, taken, peer, phase, rxBuf, delivered, rc>>

(* LongLook closes after what it has written so far.                       *)
PeerCloses ==
  /\ peer = "open"
  /\ peer' = "closed"
  /\ UNCHANGED <<script, arrived, taken, phase, rxBuf, delivered, rc>>

PeerLost ==
  /\ peer = "open"
  /\ peer' = "lost"
  /\ UNCHANGED <<script, arrived, taken, phase, rxBuf, delivered, rc>>

(* serveClient calls again unless the last call failed.                    *)
CallPoll ==
  /\ phase = "outside" /\ rc = 0
  /\ phase' = "recv"
  /\ UNCHANGED <<script, arrived, taken, peer, rxBuf, delivered, rc>>

RecvData ==
  /\ phase = "recv" /\ taken < arrived
  /\ taken' = IF taken + RecvMax < arrived THEN taken + RecvMax ELSE arrived
  /\ rxBuf' = rxBuf \o SubSeq(Stream, taken + 1, taken')
  /\ UNCHANGED <<script, arrived, peer, phase, delivered, rc>>

(* recv() has nothing more: go on to parse.                                *)
RecvEmpty ==
  /\ phase = "recv" /\ taken = arrived /\ peer = "open"
  /\ phase' = "parse"
  /\ UNCHANGED <<script, arrived, taken, peer, rxBuf, delivered, rc>>

(* recv() returns 0 or an error: the call returns at once, whatever it     *)
(* read before.  A lost connection may or may not still give its data.     *)
RecvEnd ==
  /\ phase = "recv"
  /\ \/ peer = "closed" /\ taken = arrived /\ rc' = -1
     \/ peer = "lost" /\ rc' = -2
  /\ phase' = "outside"
  /\ UNCHANGED <<script, arrived, taken, peer, rxBuf, delivered>>

(* A parser that keeps nothing of an incomplete frame.                     *)
ParseDroppingRest ==
  /\ phase = "parse"
  /\ LET parsed == Scan[rxBuf]
     IN  /\ delivered' = delivered \o parsed.commands
         /\ rxBuf' = <<>>
  /\ phase' = "outside"
  /\ rc' = 0
  /\ UNCHANGED <<script, arrived, taken, peer>>

(* A parser that never erases what it consumed.                            *)
ParseKeepingAll ==
  /\ phase = "parse"
  /\ delivered' = delivered \o Scan[rxBuf].commands
  /\ phase' = "outside"
  /\ rc' = 0
  /\ UNCHANGED <<script, arrived, taken, peer, rxBuf>>

Parse ==
  /\ phase = "parse"
  /\ LET parsed == Scan[rxBuf]
     IN  /\ delivered' = delivered \o parsed.commands
         /\ rxBuf' = parsed.rest
  /\ phase' = "outside"
  /\ rc' = 0
  /\ UNCHANGED <<script, arrived, taken, peer>>

Poll == CallPoll \/ RecvData \/ RecvEmpty \/ RecvEnd \/ Parse

ChannelNext == Arrive \/ PeerCloses \/ PeerLost \/ Poll

ChannelSpec == ChannelInit /\ [][ChannelNext]_chanVars
-----------------------------------------------------------------------------
Taken == SubSeq(Stream, 1, taken)

(* However the network cuts the stream, the calls together deliver what    *)
(* one call over all the bytes would have delivered, and keep the same     *)
(* rest.                                                                   *)
ChunkingIrrelevant ==
  phase = "outside" /\ rc = 0 =>
    delivered = Scan[Taken].commands /\ rxBuf = Scan[Taken].rest

(* What is kept between calls is the beginning of one acceptable frame, so *)
(* the buffer of a connection stays below one header and LL_MAX_PAYLOAD.   *)
LeftoverIsOneFrameStart ==
  phase = "outside" /\ rc = 0 /\ Len(rxBuf) >= LL_HEADER_SIZE =>
    /\ rxBuf[1] = LL_SOF
    /\ LenOf(rxBuf) <= LL_MAX_PAYLOAD
    /\ Len(rxBuf) < LL_HEADER_SIZE + LenOf(rxBuf)

(* The parser of the program and the one of LongLook find the same frames  *)
(* and keep the same rest, up to bytes no frame can begin with.            *)
ParsersAgree ==
  phase = "outside" /\ rc = 0 =>
    /\ Scan[Taken].frames = ParseStream[Taken].frames
    /\ ParseStream[rxBuf].rest = ParseStream[Taken].rest

(* The commands of the pieces that recv() has returned in full.            *)
CommandsWritten ==
  LET Whole(i) == Len(BytesOf(script)[i]) <= taken
      last     == CHOOSE i \in 0 .. Len(script) : Whole(i) /\ (i < Len(script) => ~Whole(i + 1))
  IN  CommandsOf(script)[last]

Clean == \A i \in DOMAIN script : ~script[i].noise

(* Without noise on the line every command that was received in full is    *)
(* delivered, once, in the order LongLook wrote them, and no other.        *)
CleanStreamLossless ==
  Clean /\ phase = "outside" /\ rc = 0 => delivered = CommandsWritten

(* TcpServer.h:53: the call reads and parses the commands the peer sent    *)
(* and appends them.  Those received in full are also delivered when the   *)
(* peer closes after them.                                                 *)
LastCommandsDelivered ==
  Clean /\ phase = "outside" /\ rc = -1 => delivered = CommandsWritten
=============================================================================
