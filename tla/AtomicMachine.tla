---------------------------- MODULE AtomicMachine ---------------------------
(***************************************************************************)
(* What the users of a StateMachine may rely on: it changes in one step,   *)
(* along one of its transitions, and current() returns the state it is in. *)
(***************************************************************************)
CONSTANTS Users, Idle, Transitions

VARIABLES state, seen

AtomicInit == state = Idle /\ seen = [u \in Users |-> Idle]

Step == /\ \E k \in DOMAIN Transitions : k[1] = state /\ state' = Transitions[k]
        /\ UNCHANGED seen

Read == /\ \E u \in Users : seen' = [seen EXCEPT ![u] = state]
        /\ UNCHANGED state

AtomicSpec == AtomicInit /\ [][Step \/ Read]_<<state, seen>>
=============================================================================
