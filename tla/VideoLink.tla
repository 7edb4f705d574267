------------------------------ MODULE VideoLink ------------------------------
(***************************************************************************)
(* What the program promises to LongLook on each TCP connection: first one *)
(* TEXT frame, then whole VIDEO and SENSOR frames, handed over in the      *)
(* order they were sent.  A connection may end at any moment, losing what  *)
(* is still under way, and nothing of one connection reaches the next.     *)
(*                                                                         *)
(* This is the abstract specification that Application implements.         *)
(***************************************************************************)
EXTENDS Sequences

VARIABLES
  link,      \* "up" while a client can be sent to, else "down"
  greeted,   \* the TEXT frame of this connection was sent
  inflight   \* the frames sent in full and not yet received in full

linkVars == <<link, greeted, inflight>>

LinkInit == link = "down" /\ greeted = FALSE /\ inflight = <<>>

Connect ==
  /\ link = "down"
  /\ link' = "up"
  /\ UNCHANGED <<greeted, inflight>>

Greet ==
  /\ link = "up" /\ ~greeted
  /\ greeted' = TRUE
  /\ inflight' = Append(inflight, "text")
  /\ UNCHANGED link

Push ==
  /\ link = "up" /\ greeted
  /\ \E t \in {"video", "sensor"} : inflight' = Append(inflight, t)
  /\ UNCHANGED <<link, greeted>>

Deliver ==
  /\ inflight # <<>>
  /\ inflight' = Tail(inflight)
  /\ UNCHANGED <<link, greeted>>

Disconnect ==
  /\ link = "up"
  /\ link' = "down"
  /\ greeted' = FALSE
  /\ inflight' = <<>>

LinkNext == Connect \/ Greet \/ Push \/ Deliver \/ Disconnect

LinkSpec == LinkInit /\ [][LinkNext]_linkVars
=============================================================================
