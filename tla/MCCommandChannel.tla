-------------------------- MODULE MCCommandChannel ---------------------------
(* Small instances of CommandChannel for TLC.                               *)
EXTENDS CommandChannel

Noise(bytes) == [bytes |-> bytes, commands |-> <<>>, noise |-> TRUE]

MCPieces == {
  FramePiece(FRAME_COMMAND, <<6, 1>>),           \* ESTOP
  FramePiece(FRAME_COMMAND, <<5, LL_SOF, 0>>),   \* a longer payload, with a SOF in it
  FramePiece(FRAME_COMMAND, <<1>>),              \* too short for a command
  FramePiece(FRAME_TEXT, <<LL_SOF>>),            \* a frame of another type
  Noise(<<LL_SOF>>),                             \* a stray SOF
  Noise(<<0>>),                                  \* a stray byte
  Noise(<<LL_SOF, FRAME_COMMAND, 1, 0, 0, 1>>),  \* LL_MAX_PAYLOAD + 1
  Noise(<<LL_SOF, FRAME_COMMAND, 0, 0, 0, LL_SOF>>) }

MCScripts == UNION { [1 .. n -> MCPieces] : n \in 1 .. 3 }

CleanPieces == {p \in MCPieces : ~p.noise}

MCCleanScripts == UNION { [1 .. n -> CleanPieces] : n \in 1 .. 2 }
=============================================================================
