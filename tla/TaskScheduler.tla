---------------------------- MODULE TaskScheduler ----------------------------
(***************************************************************************)
(* TaskScheduler (include/core/TaskScheduler.h): one thread calls tick(),  *)
(* which samples the clock, takes the mutex and runs every task that is    *)
(* due; addTask() and removeTask() take the same mutex and may be called   *)
(* by the ticking thread between two ticks or by other threads.            *)
(*                                                                         *)
(* The tasks' functions do not call the scheduler: they run with the mutex *)
(* held, and the clock goes on meanwhile: a task runs later than the clock *)
(* was sampled.  Differences of clock values are cast to an unsigned       *)
(* integer, so they are taken modulo Modulus (2^32).                       *)
(***************************************************************************)
EXTENDS Integers, Sequences

CONSTANTS
  Callers,    \* who calls addTask and removeTask: "ticker", "other"
  Intervals,  \* the intervals tasks may have, in ms
  Modulus,    \* 2^32
  MaxTasks,   \* bound: how many tasks are ever added
  MaxClock    \* bound: the last value of the clock

ASSUME SchedulerAssumption ==
  /\ Callers \subseteq {"ticker", "other"}
  /\ Intervals \subseteq Nat
  /\ Modulus \in Nat \ {0}
  /\ MaxTasks \in Nat
  /\ MaxClock \in Nat

VARIABLES
  clock,    \* the steady clock, in ms
  tasks,    \* tasks_: the id, the interval and the last run of each
  nextId,   \* nextId_
  pc,       \* "idle", "lock" before the mutex in tick(), "loop" in its loop
  now,      \* now of tick()
  at,       \* the position of the loop
  since,    \* history: when each task was added or, if later, last ran
  claimed   \* history: when each task was added, plus an interval for each run

schedVars == <<clock, tasks, nextId, pc, now, at, since, claimed>>

Ids   == 0 .. MaxTasks - 1
Tasks == [id : Ids, interval : Intervals, last : 0 .. MaxClock]

SchedulerTypeOK ==
  /\ clock \in 0 .. MaxClock
  /\ \A i \in DOMAIN tasks : tasks[i] \in Tasks /\ tasks[i].id < nextId
  /\ \A i, j \in DOMAIN tasks : i < j => tasks[i].id < tasks[j].id
  /\ nextId \in 0 .. MaxTasks
  /\ pc \in {"idle", "lock", "loop"}
  /\ now \in 0 .. clock
  /\ at \in 1 .. Len(tasks) + 1
  /\ since \in [Ids -> 0 .. MaxClock]
  /\ claimed \in [Ids -> Nat]

SchedulerInit ==
  /\ clock = 0
  /\ tasks = <<>>
  /\ nextId = 0
  /\ pc = "idle"
  /\ now = 0
  /\ at = 1
  /\ since = [id \in Ids |-> 0]
  /\ claimed = [id \in Ids |-> 0]
-----------------------------------------------------------------------------
Advance ==
  /\ clock < MaxClock
  /\ clock' = clock + 1
  /\ UNCHANGED <<tasks, nextId, pc, now, at, since, claimed>>

(* A caller can have the mutex: the ticking thread between two ticks, any  *)
(* other one whenever tick() does not hold it.                             *)
CanCall == \/ "ticker" \in Callers /\ pc = "idle"
           \/ "other" \in Callers /\ pc # "loop"

(* A task that starts with the clock's origin as its last run.             *)
AddTaskAtOrigin ==
  /\ CanCall /\ nextId < MaxTasks
  /\ \E interval \in Intervals :
       tasks' = Append(tasks, [id |-> nextId, interval |-> interval, last |-> 0])
  /\ since' = [since EXCEPT ![nextId] = clock]
  /\ claimed' = [claimed EXCEPT ![nextId] = clock]
  /\ nextId' = nextId + 1
  /\ UNCHANGED <<clock, pc, now, at>>

AddTask ==
  /\ CanCall /\ nextId < MaxTasks
  /\ \E interval \in Intervals :
       tasks' = Append(tasks, [id |-> nextId, interval |-> interval, last |-> clock])
  /\ since' = [since EXCEPT ![nextId] = clock]
  /\ claimed' = [claimed EXCEPT ![nextId] = clock]
  /\ nextId' = nextId + 1
  /\ UNCHANGED <<clock, pc, now, at>>

(* removeTask(id): the task with that id, if there is one, is erased.      *)
RemoveTask ==
  /\ CanCall
  /\ \E i \in DOMAIN tasks :
       tasks' = SubSeq(tasks, 1, i - 1) \o SubSeq(tasks, i + 1, Len(tasks))
  /\ UNCHANGED <<clock, nextId, pc, now, at, since, claimed>>

(* tick(): the clock is read before the mutex is taken.                    *)
TickBegin ==
  /\ pc = "idle"
  /\ now' = clock
  /\ pc' = "lock"
  /\ UNCHANGED <<clock, tasks, nextId, at, since, claimed>>

TickLock ==
  /\ pc = "lock"
  /\ pc' = "loop"
  /\ at' = 1
  /\ UNCHANGED <<clock, tasks, nextId, now, since, claimed>>

(* static_cast<uint32_t>(now - t.last)                                     *)
Elapsed(t) == (now - t.last) % Modulus

Due(t) == Elapsed(t) >= t.interval

(* t.last = now, and the function runs: now, when the clock has gone on.   *)
RunTask(i) ==
  LET t == tasks[i]
  IN  /\ tasks' = [tasks EXCEPT ![i].last = now]
      /\ since' = [since EXCEPT ![t.id] = clock]
      /\ claimed' = [claimed EXCEPT ![t.id] = @ + t.interval]

(* A loop that leaves after the first task that was due.                   *)
TickTaskOnce ==
  /\ pc = "loop" /\ at <= Len(tasks)
  /\ IF Due(tasks[at])
     THEN RunTask(at) /\ at' = Len(tasks) + 1
     ELSE at' = at + 1 /\ UNCHANGED <<tasks, since, claimed>>
  /\ UNCHANGED <<clock, nextId, pc, now>>

(* One turn of the loop.                                                   *)
TickTask ==
  /\ pc = "loop" /\ at <= Len(tasks)
  /\ IF Due(tasks[at])
     THEN RunTask(at)
     ELSE UNCHANGED <<tasks, since, claimed>>
  /\ at' = at + 1
  /\ UNCHANGED <<clock, nextId, pc, now>>

TickEnd ==
  /\ pc = "loop" /\ at > Len(tasks)
  /\ pc' = "idle"
  /\ at' = 1
  /\ UNCHANGED <<clock, tasks, nextId, now, since, claimed>>

Tick == TickBegin \/ TickLock \/ TickTask \/ TickEnd

SchedulerNext == Advance \/ AddTask \/ RemoveTask \/ Tick

SchedulerSpec == SchedulerInit /\ [][SchedulerNext]_schedVars
-----------------------------------------------------------------------------
(* "Periodic task scheduler" (TaskScheduler.h:13): however late the ticks    *)
(* come and however long tasks take, a task has run no more often than its   *)
(* interval has passed since it was added; a late run is not made up for.    *)
(* Two of its runs may still be closer than the interval, when the first was *)
(* held up by another task: t.last is the tick's time, not the run's.        *)
NeverTooOften == \A id \in Ids : claimed[id] <= clock

(* A tick leaves no task behind: when it ends, every task of the list has  *)
(* run since the tick began or had waited less than its interval then, or  *)
(* the tick came so late for it that the unsigned difference had wrapped.  *)
NothingDueAfterTick ==
  [][TickEnd => \A i \in DOMAIN tasks :
       LET t == tasks[i]
       IN  \/ since[t.id] >= now
           \/ now - since[t.id] < t.interval
           \/ now - t.last >= Modulus]_schedVars
=============================================================================
