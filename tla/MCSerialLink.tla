---------------------------- MODULE MCSerialLink -----------------------------
(* Small instances of SerialLink for TLC.                                   *)
EXTENDS SerialLink

Ack(payload) == Report(RPT_ACK, payload)

Noise(bytes) == [bytes |-> bytes, reports |-> <<>>, noise |-> TRUE]

(* Reports, one with a frame start in its payload, and what noise makes of *)
(* frames: a LEN of zero with its right checksum, a stray SOF1, a lost     *)
(* beginning, a lost end, and a changed byte.                              *)
MCGoodPieces == { Ack(<<>>), Ack(<<23, 0>>), Ack(<<SOF1, SOF2, 1>>) }

MCNoisePieces == {
  Noise(<<SOF1, SOF2, 0, 0>>),
  Noise(<<SOF1>>),
  Noise(<<SOF2, 1, 47, 9>>),
  Noise(<<SOF1, SOF2, 3, 47>>),
  Noise([BuildSerialFrame(RPT_ACK, <<1>>) EXCEPT ![5] = 2]) }

ScriptsOf(pieces, n) == UNION { [1 .. k -> pieces] : k \in 0 .. n }

(* Every two pieces, and every noise between two reports.                  *)
MCSerialScripts ==
  ScriptsOf(MCGoodPieces \cup MCNoisePieces, 2)
    \cup {<<Ack(<<>>), noise, Ack(<<23, 0>>)>> : noise \in MCNoisePieces}
MCEmptyScripts  == ScriptsOf({Ack(<<>>), Noise(<<SOF1, SOF2, 0, 0>>)}, 2)

(* The last one makes half a command, cut behind its LEN, and a whole one  *)
(* look like one frame.                                                    *)
MCPayloads == { <<>>, <<SOF1>>, <<SOF1, SOF2, 1>>,
                <<Crc8(<<4, SOF1, SOF2, 4, CMD_ESTOP>>), 0, 0>> }
=============================================================================
