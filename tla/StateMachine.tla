---------------------------- MODULE StateMachine ----------------------------
(***************************************************************************)
(* StateMachine (include/core/StateMachine.h): threads call process() and  *)
(* current() on one machine.  process() holds the mutex from its first to  *)
(* its last line, through the guard and the exit, action and enter         *)
(* callbacks; a callback may throw, and unwinding releases the mutex.      *)
(* Callbacks do not call the machine: the mutex is not recursive.          *)
(***************************************************************************)
EXTENDS Integers, FiniteSets

CONSTANTS
  Users,          \* the threads
  Idle,           \* the initial state
  Transitions     \* trans_: <<from, event>> |-> the state it leads to

ASSUME MachineAssumption == "nobody" \notin Users

VARIABLES
  cur,            \* cur_
  holder,         \* who holds mu_, or "nobody"
  prog,           \* where each thread is, with which event and from which state
  inside,         \* history: the states entered and not exited
  disturbed,      \* history: has a callback thrown?
  seen            \* what each thread's last current() returned

machineVars == <<cur, holder, prog, inside, disturbed, seen>>

MachineStates == {Idle} \cup {Transitions[k] : k \in DOMAIN Transitions}
MachineEvents == {k[2] : k \in DOMAIN Transitions}
Outside       == [pc |-> "out", event |-> "none", prev |-> Idle]

MachineInit ==
  /\ cur = Idle
  /\ holder = "nobody"
  /\ prog = [u \in Users |-> Outside]
  /\ inside = {Idle}
  /\ disturbed = FALSE
  /\ seen = [u \in Users |-> Idle]

Goto(u, pc) == prog' = [prog EXCEPT ![u].pc = pc]
Return(u) == prog' = [prog EXCEPT ![u] = Outside] /\ holder' = "nobody"
-----------------------------------------------------------------------------
CallProcess(u, ev) ==
  /\ prog[u].pc = "out"
  /\ prog' = [prog EXCEPT ![u] = [pc |-> "lock", event |-> ev, prev |-> Idle]]
  /\ UNCHANGED <<cur, holder, inside, disturbed, seen>>

\* current() reads under the mutex; a read that does not wait for it.
CanReadAnyTime == TRUE
CanRead        == holder = "nobody"

Current(u) ==
  /\ prog[u].pc = "out" /\ CanRead
  /\ seen' = [seen EXCEPT ![u] = cur]
  /\ UNCHANGED <<cur, holder, prog, inside, disturbed>>

Lock(u) ==
  /\ prog[u].pc = "lock" /\ holder = "nobody"
  /\ holder' = u
  /\ prog' = [prog EXCEPT ![u] = [pc |-> "guard", event |-> @.event, prev |-> cur]]
  /\ UNCHANGED <<cur, inside, disturbed, seen>>

\* No transition for the event, or a guard that says no, or throws.
Refuse(u) ==
  /\ prog[u].pc = "guard"
  /\ Return(u)
  /\ UNCHANGED <<cur, inside, disturbed, seen>>

Accept(u) ==
  /\ prog[u].pc = "guard"
  /\ <<cur, prog[u].event>> \in DOMAIN Transitions
  /\ Goto(u, "exit")
  /\ UNCHANGED <<cur, holder, inside, disturbed, seen>>

\* The exit callback of the state the machine is in; of the one it goes to.
ExitOfTarget(u) == Transitions[<<prog[u].prev, prog[u].event>>]
ExitOf(u)       == prog[u].prev

Exit(u) ==
  /\ prog[u].pc = "exit"
  /\ inside' = inside \ {ExitOf(u)}
  /\ Goto(u, "action")
  /\ UNCHANGED <<cur, holder, disturbed, seen>>

\* cur_ = t.to and the action.
Action(u) ==
  /\ prog[u].pc = "action"
  /\ cur' = Transitions[<<prog[u].prev, prog[u].event>>]
  /\ Goto(u, "enter")
  /\ UNCHANGED <<holder, inside, disturbed, seen>>

Enter(u) ==
  /\ prog[u].pc = "enter"
  /\ inside' = inside \cup {cur}
  /\ Return(u)
  /\ UNCHANGED <<cur, disturbed, seen>>

\* A callback throws: the exit callback before cur_ is set, the others after.
Throw(u) ==
  /\ prog[u].pc \in {"exit", "action", "enter"}
  /\ cur' = IF prog[u].pc = "exit" THEN cur ELSE Transitions[<<prog[u].prev, prog[u].event>>]
  /\ disturbed' = TRUE
  /\ Return(u)
  /\ UNCHANGED <<inside, seen>>

Process(u) == Lock(u) \/ Refuse(u) \/ Accept(u) \/ Exit(u) \/ Action(u) \/ Enter(u) \/ Throw(u)

MachineNext ==
  \E u \in Users : Current(u) \/ Process(u) \/ \E ev \in MachineEvents : CallProcess(u, ev)

MachineSpec == MachineInit /\ [][MachineNext]_machineVars
-----------------------------------------------------------------------------
\* Each state is entered before it is exited and exited before the next one is
\* entered: between calls the machine is inside its current state only, until a
\* callback throws.
EnterExitBalanced == holder = "nobody" /\ ~disturbed => inside = {cur}

\* Threads see a process() call happen in one step, at its return.
Atomic == INSTANCE AtomicMachine
  WITH state <- IF holder = "nobody" THEN cur ELSE prog[holder].prev

ImplementsAtomicMachine == Atomic!AtomicSpec
=============================================================================
