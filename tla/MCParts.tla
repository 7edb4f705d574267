------------------------------- MODULE MCParts ------------------------------
(***************************************************************************)
(* The parts that are used on their own, side by side in one run: every    *)
(* behaviour is one of the part that "part" names, and the others stay in  *)
(* their initial states.                                                   *)
(***************************************************************************)
EXTENDS EventBus, StateMachine, Timer, TaskScheduler, SensorClock, TcpClient, PatrolService

VARIABLE part

vars == <<part, busVars, machineVars, timerVars, schedVars, clockVars, clientVars, serviceVars>>

PartsInit ==
  /\ part \in {"bus", "machine", "timer", "scheduler", "clock", "client", "service"}
  /\ BusInit /\ MachineInit /\ SchedulerInit /\ ClientInit /\ ServiceInit
  /\ TimerInit /\ (part # "timer" => ~timer.repeat /\ \A ms1 \in Spans : timer.interval <= ms1)
  /\ ClockInit /\ (part # "clock" => ms = 0)

Bus       == part = "bus" /\ BusNext
             /\ UNCHANGED <<part, machineVars, timerVars, schedVars, clockVars, clientVars, serviceVars>>
Machine   == part = "machine" /\ MachineNext
             /\ UNCHANGED <<part, busVars, timerVars, schedVars, clockVars, clientVars, serviceVars>>
TimerPart == part = "timer" /\ TimerNext
             /\ UNCHANGED <<part, busVars, machineVars, schedVars, clockVars, clientVars, serviceVars>>
Scheduler == part = "scheduler" /\ SchedulerNext
             /\ UNCHANGED <<part, busVars, machineVars, timerVars, clockVars, clientVars, serviceVars>>
Clock     == part = "clock" /\ ClockNext
             /\ UNCHANGED <<part, busVars, machineVars, timerVars, schedVars, clientVars, serviceVars>>
Client    == part = "client" /\ ClientNext
             /\ UNCHANGED <<part, busVars, machineVars, timerVars, schedVars, clockVars, serviceVars>>
Service(A) == part = "service" /\ A
             /\ UNCHANGED <<part, busVars, machineVars, timerVars, schedVars, clockVars, clientVars>>

PartsNext == Bus \/ Machine \/ TimerPart \/ Scheduler \/ Clock \/ Client
             \/ Service(ServiceNext)

\* The script, systemd and its timers go on.  Nobody has to call anything, or
\* let the program crash.
PartsFairness ==
  WF_vars(Service(Script)) /\ WF_vars(Service(StartProgram)) /\ WF_vars(Service(SecondPasses))

PartsSpec == PartsInit /\ [][PartsNext]_vars /\ PartsFairness

\* ProgramComesBack, in the behaviours of that part.
ProgramOfServiceComesBack == part = "service" => ProgramComesBack

MCTransitions == (<<"idle", "go">> :> "run") @@ (<<"run", "go">> :> "run") @@ (<<"run", "halt">> :> "idle")
=============================================================================
