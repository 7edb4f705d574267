---------------------------- MODULE MCApplication ----------------------------
(* Small instances of Application for TLC.                                  *)
EXTENDS Application

(* A header and one unit of payload; video frames are longer than the      *)
(* connection can hold, so that sending one always blocks half way.        *)
MCFrameLen == [text |-> 2, video |-> 3, sensor |-> 2]
=============================================================================
