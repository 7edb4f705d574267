----------------------------- MODULE Core_proofs ----------------------------
(***************************************************************************)
(* The parts of include/core that other code calls back and forth: Timer,  *)
(* TaskScheduler, EventBus and StateMachine, for any intervals, tasks,     *)
(* threads, subscriptions, states and transitions.                         *)
(***************************************************************************)
EXTENDS Timer, TaskScheduler, EventBus, StateMachine, TLAPS, SequenceTheorems

(* The remainder of a number is not more than the number.                  *)
LEMMA RemainderIsLess ==
  ASSUME NEW a \in Nat, NEW m \in Nat \ {0}
  PROVE  a % m \in 0 .. a /\ (a < m => a % m = a)
OBVIOUS

(* The remainder of any number, positive or not.                           *)
LEMMA RemainderIsNat ==
  ASSUME NEW a \in Int, NEW m \in Nat \ {0}
  PROVE  a % m \in 0 .. m - 1
OBVIOUS
-----------------------------------------------------------------------------
\* Timer.  running_ and last_ are what the history says they should be.
TimerRecords == [interval : Spans, repeat : BOOLEAN, running : BOOLEAN, last : Nat]

TimerInv ==
  /\ time \in Nat
  /\ timer \in TimerRecords
  /\ timer.last <= time
  /\ armed = timer.running
  /\ restart = timer.last
  /\ FiresNotEarly

(* What the functions of a timer make of it: a timer with the new values.  *)
LEMMA TimerUpdates ==
  ASSUME NEW t \in TimerRecords, NEW b \in BOOLEAN, NEW at0 \in Nat
  PROVE  /\ [t EXCEPT !.repeat = b] \in TimerRecords
         /\ [t EXCEPT !.running = b] \in TimerRecords
         /\ [t EXCEPT !.last = at0] \in TimerRecords
         /\ [t EXCEPT !.running = TRUE, !.last = at0] \in TimerRecords
         /\ [t EXCEPT !.last = at0, !.running = t.repeat] \in TimerRecords
BY Zenon DEF TimerRecords

(* What the calls leave of the record.                                    *)
LEMMA TimerFields ==
  ASSUME timer \in TimerRecords
  PROVE  /\ ResetTimer => timer'.last = time /\ timer'.running = timer.running
         /\ StartTimer => timer'.last = time /\ timer'.running = TRUE
         /\ StopTimer => timer'.last = timer.last /\ timer'.running = FALSE
         /\ CheckFires => timer'.last = time /\ timer'.running = timer.repeat
BY Zenon DEF ResetTimer, StartTimer, StopTimer, CheckFires, Fired, TimerRecords

(* The inductive invariant of a timer.                                     *)
THEOREM TimerInvariance == TimerSpec => []TimerInv
<1> USE TimerAssumption
<1>1. TimerInit => TimerInv
  <2> SUFFICES ASSUME TimerInit PROVE TimerInv
    OBVIOUS
  <2>1. timer \in TimerRecords /\ timer.last = 0 /\ timer.running = FALSE
    <3>1. 0 \in Nat
      OBVIOUS
    <3> QED
      BY <3>1, Zenon DEF TimerInit, TimerRecords
  <2>2. armed = timer.running
    BY <2>1, Zenon DEF TimerInit
  <2> QED
    BY <2>1, <2>2 DEF TimerInit, TimerInv, FiresNotEarly
<1>2. ASSUME TimerInv, [TimerNext]_timerVars PROVE TimerInv'
  <2> USE <1>2 DEF TimerInv
  <2>1. CASE TimePasses
    <3>1. armed' = timer'.running
      BY <2>1, Zenon DEF TimePasses
    <3> QED
      BY <2>1, <3>1 DEF TimePasses, FiresNotEarly, TimerRecords
  <2>2. ASSUME NEW span \in Spans, SetInterval(span) PROVE TimerInv'
    <3>1. /\ timer' \in TimerRecords
          /\ timer'.last = timer.last /\ timer'.running = timer.running
      BY <2>2, Zenon DEF SetInterval, TimerRecords
    <3> QED
      BY <2>2, <3>1 DEF SetInterval, FiresNotEarly
  <2>3. ASSUME NEW r \in BOOLEAN, SetRepeat(r) PROVE TimerInv'
    <3>1. /\ timer' \in TimerRecords
          /\ timer'.last = timer.last /\ timer'.running = timer.running
      BY <2>3, Zenon DEF SetRepeat, TimerRecords
    <3> QED
      BY <2>3, <3>1 DEF SetRepeat, FiresNotEarly
  <2>4. CASE StartTimer
    <3>1. timer' \in TimerRecords
      BY <2>4, TimerUpdates, Zenon DEF StartTimer
    <3> QED
      BY <2>4, <3>1, TimerFields DEF StartTimer, FiresNotEarly
  <2>5. CASE StopTimer
    <3>1. timer' \in TimerRecords
      BY <2>5, TimerUpdates DEF StopTimer
    <3> QED
      BY <2>5, <3>1, TimerFields DEF StopTimer, FiresNotEarly
  <2>6. CASE ResetTimer
    <3>1. timer' \in TimerRecords
      BY <2>6, TimerUpdates, Zenon DEF ResetTimer
    <3> QED
      BY <2>6, <3>1, TimerFields DEF ResetTimer, FiresNotEarly
  <2>7. CASE CheckFires
    <3>1. timer' \in TimerRecords
      BY <2>7, TimerUpdates, Zenon DEF CheckFires, Fired
    <3>2. time - timer.last >= timer.interval
      <4> DEFINE d == time - timer.last
      <4>a. timer.interval \in Spans /\ timer.last \in Nat
        BY Zenon DEF TimerRecords
      <4>b. timer.interval \in Nat
        BY <4>a, Zenon
      <4>c. time \in Nat /\ timer.last <= time
        BY Zenon
      <4>1. timer.interval \in Nat /\ d \in Nat
        BY <4>a, <4>b, <4>c
      <4>2. d % Wrap \in 0 .. d
        BY <4>1, RemainderIsLess
      <4>3. d % Wrap >= timer.interval
        BY <2>7 DEF CheckFires, IsDue
      <4> HIDE DEF d
      <4>4. d >= timer.interval
        BY <4>1, <4>2, <4>3
      <4> QED
        BY <4>4 DEF d
    <3> QED
      BY <2>7, <3>1, <3>2, TimerFields DEF CheckFires, FiresNotEarly
  <2>8. CASE CallbackReturns
    BY <2>8 DEF CallbackReturns, AfterCallback, FiresNotEarly
  <2>9. CASE UNCHANGED timerVars
    BY <2>9 DEF timerVars, FiresNotEarly
  <2> QED
    BY <1>2, <2>1, <2>2, <2>3, <2>4, <2>5, <2>6, <2>7, <2>8, <2>9 DEF TimerNext
<1> QED
  BY <1>1, <1>2, PTL DEF TimerSpec

(* What a callback did to its timer holds when check() returns.            *)
THEOREM LastWord == TimerSpec => []CallbackHasLastWord
<1>1. TimerInv => CallbackHasLastWord
  BY DEF TimerInv, CallbackHasLastWord
<1> QED
  BY <1>1, TimerInvariance, PTL

(* No timer fires before its interval has passed, whatever the clock's     *)
(* range: a difference taken modulo Wrap is never more than the real one.  *)
THEOREM NeverFiresEarly == TimerSpec => []FiresNotEarly
<1>1. TimerInv => FiresNotEarly
  BY DEF TimerInv, FiresNotEarly
<1> QED
  BY <1>1, TimerInvariance, PTL
-----------------------------------------------------------------------------
(* A sequence without its k-th element: the elements before it, and those  *)
(* behind it one position earlier.                                         *)
LEMMA WithoutOne ==
  ASSUME NEW S, NEW s \in Seq(S), NEW k \in 1 .. Len(s)
  PROVE  LET r == SubSeq(s, 1, k - 1) \o SubSeq(s, k + 1, Len(s))
         IN  /\ r \in Seq(S)
             /\ Len(r) = Len(s) - 1
             /\ \A i \in 1 .. Len(r) : r[i] = s[IF i < k THEN i ELSE i + 1]
<1> DEFINE a == SubSeq(s, 1, k - 1)
           b == SubSeq(s, k + 1, Len(s))
<1>0. Len(s) \in Nat /\ \A i \in 1 .. Len(s) : s[i] \in S
  OBVIOUS
<1>1. a \in Seq(S) /\ Len(a) = k - 1 /\ \A i \in 1 .. k - 1 : a[i] = s[i]
  BY <1>0, SubSeqProperties
<1>2. b \in Seq(S) /\ Len(b) = Len(s) - k /\ \A i \in 1 .. Len(s) - k : b[i] = s[k + i]
  BY <1>0, SubSeqProperties
<1> HIDE DEF a, b
<1>3. /\ a \o b \in Seq(S) /\ Len(a \o b) = Len(s) - 1
      /\ \A i \in 1 .. Len(s) - 1 : (a \o b)[i] = IF i <= k - 1 THEN a[i] ELSE b[i - (k - 1)]
  <2> DEFINE c == a \o b
  <2>1. /\ c \in Seq(S) /\ Len(c) = Len(a) + Len(b)
        /\ \A i \in 1 .. Len(a) + Len(b) : c[i] = IF i <= Len(a) THEN a[i] ELSE b[i - Len(a)]
    BY <1>1, <1>2, ConcatProperties
  <2> HIDE DEF c
  <2>2. k \in Nat /\ k >= 1 /\ k <= Len(s) /\ Len(a) + Len(b) = Len(s) - 1
    BY <1>0, <1>1, <1>2
  <2>3. \A i \in 1 .. Len(s) - 1 : c[i] = IF i <= k - 1 THEN a[i] ELSE b[i - (k - 1)]
    BY <1>1, <2>1, <2>2
  <2> QED
    BY <2>1, <2>2, <2>3 DEF c
<1>4. \A i \in 1 .. Len(s) - 1 : (a \o b)[i] = s[IF i < k THEN i ELSE i + 1]
  BY <1>0, <1>1, <1>2, <1>3
<1> QED
  BY <1>3, <1>4 DEF a, b

\* TaskScheduler.  The list is in the order of the ids, no task ran before its
\* last, and what the loop has passed is not due.
TasksInOrder ==
  /\ tasks \in Seq(Tasks)
  /\ \A i \in 1 .. Len(tasks) : tasks[i].id < nextId /\ tasks[i].last <= clock
  /\ \A i, j \in 1 .. Len(tasks) : i < j => tasks[i].id < tasks[j].id

RunsBehindLast == \A i \in 1 .. Len(tasks) : tasks[i].last <= since[tasks[i].id]

RanOrWaits(t) == \/ t.last = now
                 \/ now - t.last < t.interval
                 \/ now - t.last >= Modulus

PassedAreNotDue ==
  pc = "loop" => \A i \in 1 .. at - 1 : RanOrWaits(tasks[i])

\* A task has claimed no interval that is not over at its last.
ClaimedBeforeLast == \A i \in 1 .. Len(tasks) : claimed[tasks[i].id] <= tasks[i].last

\* Between the clock reading of a tick and its end nobody adds a task that is
\* younger than the reading, if the ticking thread is the only caller.
NothingFromTheFuture ==
  "other" \notin Callers =>
    /\ pc # "idle" => \A i \in 1 .. Len(tasks) : tasks[i].last <= now
    /\ ClaimedBeforeLast
    /\ NeverTooOften

ClockInOrder ==
  /\ clock \in 0 .. MaxClock /\ now \in 0 .. clock /\ nextId \in 0 .. MaxTasks
  /\ pc \in {"idle", "lock", "loop"}
  /\ at \in 1 .. Len(tasks) + 1 /\ (pc # "loop" => at = 1)
  /\ since \in [Ids -> 0 .. MaxClock] /\ claimed \in [Ids -> Nat]

SchedulerInv ==
  ClockInOrder /\ TasksInOrder /\ RunsBehindLast /\ PassedAreNotDue /\ NothingFromTheFuture

(* What the tasks of the list are.                                         *)
LEMMA TaskTypes ==
  ASSUME tasks \in Seq(Tasks)
  PROVE  /\ Len(tasks) \in Nat /\ DOMAIN tasks = 1 .. Len(tasks)
         /\ \A i \in 1 .. Len(tasks) :
              /\ tasks[i] \in Tasks
              /\ tasks[i].id \in Ids /\ tasks[i].id \in Int
              /\ tasks[i].interval \in Nat /\ tasks[i].last \in 0 .. MaxClock
<1>1. \A i \in 1 .. Len(tasks) : tasks[i] \in Tasks
  OBVIOUS
<1>2. \A t \in Tasks : t.id \in Ids /\ t.interval \in Intervals /\ t.last \in 0 .. MaxClock
  BY DEF Tasks
<1>3. Ids \subseteq Int /\ Intervals \subseteq Nat
  BY SchedulerAssumption DEF Ids
<1>4. \A t \in Tasks : /\ t.id \in Ids /\ t.id \in Int
                       /\ t.interval \in Nat /\ t.last \in 0 .. MaxClock
  BY <1>2, <1>3, Zenon
<1>5. Len(tasks) \in Nat /\ DOMAIN tasks = 1 .. Len(tasks)
  OBVIOUS
<1> QED
  BY <1>1, <1>4, <1>5, Zenon

(* A task that is not due has waited less than its interval: differences   *)
(* of less than Modulus are not changed by the cast to 32 bits.            *)
LEMMA NotDueWaits ==
  ASSUME NEW t \in Tasks, now \in 0 .. MaxClock, ~Due(t)
  PROVE  RanOrWaits(t)
<1> USE SchedulerAssumption
<1>1. t.last \in 0 .. MaxClock /\ t.interval \in Nat
  BY DEF Tasks
<1>2. CASE now >= t.last /\ now - t.last < Modulus
  <2>1. (now - t.last) % Modulus = now - t.last
    BY <1>1, <1>2, RemainderIsLess
  <2> QED
    BY <1>1, <1>2, <2>1 DEF Due, Elapsed, RanOrWaits
<1>3. CASE now < t.last
  <2>1. (now - t.last) % Modulus \in Nat
    BY <1>1, RemainderIsNat
  <2> QED
    BY <1>1, <1>3 DEF RanOrWaits
<1>4. CASE now - t.last >= Modulus
  BY <1>4 DEF RanOrWaits
<1> QED
  BY <1>1, <1>2, <1>3, <1>4

(* addTask() appends a task with the highest id and the clock as its last  *)
(* run.                                                                    *)
LEMMA AddTaskKeeps == SchedulerInv /\ AddTask => SchedulerInv'
<1> SUFFICES ASSUME SchedulerInv, AddTask PROVE SchedulerInv'
  OBVIOUS
<1> USE SchedulerAssumption DEF SchedulerInv
<1>1. PICK interval \in Intervals :
        tasks' = Append(tasks, [id |-> nextId, interval |-> interval, last |-> clock])
  BY DEF AddTask
<1> DEFINE new == [id |-> nextId, interval |-> interval, last |-> clock]
<1>2. new \in Tasks /\ new.id = nextId /\ new.last = clock /\ nextId \in Ids
  BY DEF AddTask, ClockInOrder, Tasks, Ids
<1>3. tasks \in Seq(Tasks) /\ tasks' = Append(tasks, new)
  BY <1>1 DEF TasksInOrder
<1> HIDE DEF new
<1>4. /\ tasks' \in Seq(Tasks) /\ Len(tasks') = Len(tasks) + 1
      /\ \A i \in 1 .. Len(tasks) : tasks'[i] = tasks[i]
      /\ tasks'[Len(tasks) + 1] = new
  BY <1>2, <1>3, AppendProperties
<1>5. /\ pc # "loop" /\ pc' = pc /\ at' = at /\ clock' = clock /\ now' = now
      /\ nextId' = nextId + 1 /\ since' = [since EXCEPT ![nextId] = clock]
      /\ claimed' = [claimed EXCEPT ![nextId] = clock]
  BY DEF AddTask, CanCall
<1>6. ClockInOrder'
  <2>1. claimed' \in [Ids -> Nat] /\ since' \in [Ids -> 0 .. MaxClock]
    BY <1>2, <1>5 DEF ClockInOrder
  <2>2. nextId' \in 0 .. MaxTasks
    BY <1>5 DEF AddTask, ClockInOrder
  <2>3. Len(tasks) \in Nat
    BY <1>3
  <2>4. at = 1 /\ at' \in 1 .. Len(tasks') + 1
    BY <1>4, <1>5, <2>3 DEF ClockInOrder
  <2>5. clock' \in 0 .. MaxClock /\ now' \in 0 .. clock' /\ pc' \in {"idle", "lock", "loop"}
    BY <1>5 DEF ClockInOrder
  <2> QED
    BY <1>5, <2>1, <2>2, <2>4, <2>5, Zenon DEF ClockInOrder
<1>a. nextId \in Nat /\ clock \in Nat /\ Len(tasks) \in Nat
  BY <1>3 DEF ClockInOrder
<1>7. TasksInOrder'
  <2>1. \A i \in 1 .. Len(tasks') : tasks'[i].id < nextId' /\ tasks'[i].last <= clock'
    BY <1>2, <1>3, <1>4, <1>5, <1>a, TaskTypes DEF TasksInOrder
  <2>2. \A i, j \in 1 .. Len(tasks') : i < j => tasks'[i].id < tasks'[j].id
    <3>1. TAKE i, j \in 1 .. Len(tasks')
    <3>2. \A k \in 1 .. Len(tasks) : tasks[k].id \in Int /\ tasks[k].id < nextId
      BY <1>3, <1>a, TaskTypes DEF TasksInOrder
    <3>3. i < j => i \in 1 .. Len(tasks) /\ (j \in 1 .. Len(tasks) \/ j = Len(tasks) + 1)
      BY <1>4, <1>a
    <3>4. i < j /\ j \in 1 .. Len(tasks) => tasks[i].id < tasks[j].id
      BY <3>3 DEF TasksInOrder
    <3> QED
      BY <1>2, <1>4, <3>2, <3>3, <3>4
  <2> QED
    BY <1>4, <2>1, <2>2 DEF TasksInOrder
<1>8. \A i \in 1 .. Len(tasks) : tasks[i].id \in Ids /\ tasks[i].id # nextId
  BY <1>3, TaskTypes DEF TasksInOrder, ClockInOrder
<1>9. RunsBehindLast'
  <2>1. since \in [Ids -> 0 .. MaxClock]
    BY DEF ClockInOrder
  <2>2. \A i \in 1 .. Len(tasks) : tasks'[i].last <= since'[tasks'[i].id]
    BY <1>4, <1>5, <1>8, <2>1 DEF RunsBehindLast
  <2>3. new.last <= since'[new.id]
    BY <1>2, <1>5, <1>a, <2>1
  <2> QED
    BY <1>4, <1>a, <2>2, <2>3 DEF RunsBehindLast
<1>10. PassedAreNotDue'
  BY <1>5 DEF PassedAreNotDue
<1>11. ASSUME "other" \notin Callers PROVE ClaimedBeforeLast' /\ NeverTooOften'
  <2>1. claimed \in [Ids -> Nat]
    BY DEF ClockInOrder
  <2>2. \A i \in 1 .. Len(tasks) : claimed'[tasks'[i].id] <= tasks'[i].last
    BY <1>4, <1>5, <1>8, <1>11, <2>1 DEF NothingFromTheFuture, ClaimedBeforeLast
  <2>3. claimed'[new.id] <= new.last
    BY <1>2, <1>5, <1>a, <2>1
  <2>4. ClaimedBeforeLast'
    BY <1>4, <1>a, <2>2, <2>3 DEF ClaimedBeforeLast
  <2>5. NeverTooOften'
    BY <1>2, <1>5, <1>11, <1>a, <2>1 DEF NothingFromTheFuture, NeverTooOften
  <2> QED
    BY <2>4, <2>5
<1>12. NothingFromTheFuture'
  BY <1>5, <1>11 DEF AddTask, CanCall, NothingFromTheFuture, SchedulerAssumption
<1> QED
  BY <1>6, <1>7, <1>9, <1>10, <1>12

(* removeTask() leaves the other tasks as they are, in their order.        *)
LEMMA RemoveTaskKeeps == SchedulerInv /\ RemoveTask => SchedulerInv'
<1> SUFFICES ASSUME SchedulerInv, RemoveTask PROVE SchedulerInv'
  OBVIOUS
<1> USE SchedulerAssumption DEF SchedulerInv
<1>1. tasks \in Seq(Tasks) /\ DOMAIN tasks = 1 .. Len(tasks) /\ Len(tasks) \in Nat
  BY DEF TasksInOrder
<1>2. PICK k \in 1 .. Len(tasks) :
        tasks' = SubSeq(tasks, 1, k - 1) \o SubSeq(tasks, k + 1, Len(tasks))
  BY <1>1 DEF RemoveTask
<1>3. /\ tasks' \in Seq(Tasks) /\ Len(tasks') = Len(tasks) - 1
      /\ \A i \in 1 .. Len(tasks') : tasks'[i] = tasks[IF i < k THEN i ELSE i + 1]
  BY <1>1, <1>2, WithoutOne
<1>4. /\ pc # "loop" /\ pc' = pc /\ at' = at /\ clock' = clock /\ now' = now
      /\ nextId' = nextId /\ since' = since /\ claimed' = claimed
  BY DEF RemoveTask, CanCall
<1>5. ClockInOrder'
  BY <1>1, <1>3, <1>4 DEF ClockInOrder
<1>6. TasksInOrder'
  <2>1. \A i \in 1 .. Len(tasks') : tasks'[i].id < nextId' /\ tasks'[i].last <= clock'
    <3>1. \A i \in 1 .. Len(tasks) : tasks[i].id < nextId /\ tasks[i].last <= clock
      BY DEF TasksInOrder
    <3> SUFFICES ASSUME NEW i \in 1 .. Len(tasks')
                 PROVE  tasks'[i].id < nextId' /\ tasks'[i].last <= clock'
      OBVIOUS
    <3>2. PICK j \in 1 .. Len(tasks) : tasks'[i] = tasks[j]
      <4>1. Len(tasks') = Len(tasks) - 1
        BY <1>3
      <4>2. (IF i < k THEN i ELSE i + 1) \in 1 .. Len(tasks)
        <5> HIDE DEF SchedulerInv
        <5> QED
          BY <1>1, <4>1
      <4> QED
        BY <1>3, <4>2, Zenon
    <3> QED
      BY <1>4, <3>1, <3>2
  <2>2. \A i, j \in 1 .. Len(tasks') : i < j => tasks'[i].id < tasks'[j].id
    BY <1>1, <1>3 DEF TasksInOrder
  <2> QED
    BY <1>3, <2>1, <2>2 DEF TasksInOrder
<1>7. RunsBehindLast'
  BY <1>1, <1>3, <1>4 DEF RunsBehindLast
<1>8. PassedAreNotDue'
  BY <1>4 DEF PassedAreNotDue
<1>9. NothingFromTheFuture'
  <2>1. ClaimedBeforeLast => ClaimedBeforeLast'
    BY <1>1, <1>3, <1>4 DEF ClaimedBeforeLast
  <2> QED
    BY <1>4, <2>1 DEF RemoveTask, CanCall, NothingFromTheFuture, NeverTooOften
<1> QED
  BY <1>5, <1>6, <1>7, <1>8, <1>9

(* A turn of the loop runs the task it stands at or leaves it waiting.     *)
LEMMA TickTaskKeeps ==
  ASSUME SchedulerInv, TickTask
  PROVE  SchedulerInv'
<1> USE SchedulerAssumption DEF SchedulerInv
<1>1. /\ tasks \in Seq(Tasks) /\ Len(tasks) \in Nat /\ at \in 1 .. Len(tasks)
      /\ tasks[at] \in Tasks /\ pc = "loop" /\ pc' = pc /\ at' = at + 1
      /\ clock' = clock /\ now' = now /\ nextId' = nextId
      /\ now \in 0 .. MaxClock /\ clock \in 0 .. MaxClock /\ now <= clock
  BY DEF TickTask, ClockInOrder, TasksInOrder
<1>2. CASE Due(tasks[at])
  <2> DEFINE ran == [tasks[at] EXCEPT !.last = now]
  <2>1. /\ tasks' = [tasks EXCEPT ![at] = ran]
        /\ since' = [since EXCEPT ![tasks[at].id] = clock]
        /\ claimed' = [claimed EXCEPT ![tasks[at].id] = @ + tasks[at].interval]
    BY <1>2 DEF TickTask, RunTask
  <2>2. ran \in Tasks /\ ran.id = tasks[at].id /\ ran.last = now
    BY <1>1 DEF Tasks
  <2> HIDE DEF ran
  <2>3. /\ tasks' \in Seq(Tasks) /\ Len(tasks') = Len(tasks)
        /\ \A i \in 1 .. Len(tasks) : tasks'[i] = IF i = at THEN ran ELSE tasks[i]
    BY <1>1, <2>1, <2>2, ExceptSeq
  <2>4. tasks[at].id \in Ids
    BY <1>1 DEF Tasks
  <2>a. claimed \in [Ids -> Nat] /\ tasks[at].interval \in Nat
    BY <1>1, TaskTypes DEF ClockInOrder
  <2>5. ClockInOrder'
    <3>1. claimed' \in [Ids -> Nat]
      BY <2>1, <2>4, <2>a
    <3> QED
      BY <1>1, <2>1, <2>3, <2>4, <3>1 DEF ClockInOrder
  <2>6. TasksInOrder'
    BY <1>1, <2>2, <2>3 DEF TasksInOrder
  <2>7. \A i \in 1 .. Len(tasks) : i # at => tasks[i].id # tasks[at].id
    BY <1>1, TaskTypes DEF TasksInOrder
  <2>8. \A i \in 1 .. Len(tasks) : tasks[i].id \in Ids
    BY <1>1, TaskTypes
  <2>9. RunsBehindLast'
    BY <1>1, <2>1, <2>2, <2>3, <2>7, <2>8 DEF RunsBehindLast, ClockInOrder
  <2>10. PassedAreNotDue'
    <3>1. \A i \in 1 .. at - 1 : i # at /\ i \in 1 .. Len(tasks)
      BY <1>1
    <3> QED
      BY <1>1, <2>2, <2>3, <3>1 DEF PassedAreNotDue, RanOrWaits
  <2>11. ASSUME "other" \notin Callers PROVE ClaimedBeforeLast' /\ NeverTooOften'
    <3> DEFINE t == tasks[at]
               d == now - t.last
               c == claimed[t.id]
    <3>1. t.last <= now /\ t.last \in 0 .. MaxClock /\ t.interval \in Nat /\ c <= t.last
      BY <1>1, <2>11, TaskTypes DEF NothingFromTheFuture, ClaimedBeforeLast
    <3>2. d \in Nat /\ c \in Nat
      BY <1>1, <2>4, <2>a, <3>1
    <3>3. d % Modulus \in 0 .. d
      BY <3>2, RemainderIsLess
    <3>4. d % Modulus >= t.interval
      BY <1>2 DEF Due, Elapsed
    <3>5. d >= t.interval
      BY <3>1, <3>2, <3>3, <3>4
    <3>6. c + t.interval <= now
      BY <1>1, <3>1, <3>2, <3>5
    <3>7. claimed'[t.id] = c + t.interval
      BY <2>1, <2>4, <2>a
    <3>8. \A id \in Ids : id # t.id => claimed'[id] = claimed[id]
      BY <2>1, <2>a
    <3> HIDE DEF t, d, c
    <3>9. ClaimedBeforeLast'
      BY <1>1, <2>2, <2>3, <2>7, <2>8, <2>11, <3>6, <3>7, <3>8
      DEF NothingFromTheFuture, ClaimedBeforeLast, t
    <3>10. NeverTooOften'
      BY <1>1, <2>4, <2>a, <2>11, <3>2, <3>1, <3>6, <3>7, <3>8 DEF NothingFromTheFuture, NeverTooOften
    <3> QED
      BY <3>9, <3>10
  <2>12. NothingFromTheFuture'
    BY <1>1, <2>2, <2>3, <2>11 DEF NothingFromTheFuture
  <2> QED
    BY <2>5, <2>6, <2>9, <2>10, <2>12
<1>3. CASE ~Due(tasks[at])
  <2>1. tasks' = tasks /\ since' = since /\ claimed' = claimed
    BY <1>3 DEF TickTask
  <2>2. RanOrWaits(tasks[at])
    BY <1>1, <1>3, NotDueWaits
  <2>3. ClockInOrder'
    BY <1>1, <2>1 DEF ClockInOrder
  <2>5. TasksInOrder' /\ RunsBehindLast'
    BY <1>1, <2>1 DEF TasksInOrder, RunsBehindLast
  <2>4. PassedAreNotDue'
    BY <1>1, <2>1, <2>2 DEF PassedAreNotDue, RanOrWaits
  <2>6. NothingFromTheFuture'
    BY <1>1, <1>3, <2>1 DEF TickTask, NothingFromTheFuture, ClaimedBeforeLast, NeverTooOften
  <2> QED
    BY <2>3, <2>4, <2>5, <2>6
<1> QED
  BY <1>2, <1>3

(* A tick begins with a reading no task of the list is younger than.       *)
LEMMA TickBeginKeeps == SchedulerInv /\ TickBegin => SchedulerInv'
<1> SUFFICES ASSUME SchedulerInv, TickBegin PROVE SchedulerInv'
  OBVIOUS
<1>1. ClockInOrder' /\ TasksInOrder' /\ RunsBehindLast' /\ PassedAreNotDue'
  BY DEF TickBegin, SchedulerInv, ClockInOrder, TasksInOrder, RunsBehindLast, PassedAreNotDue
<1>2. NothingFromTheFuture'
  BY DEF TickBegin, SchedulerInv, TasksInOrder, NothingFromTheFuture, ClaimedBeforeLast, NeverTooOften
<1> QED
  BY <1>1, <1>2 DEF SchedulerInv

(* The inductive invariant of the scheduler, whoever calls it.             *)
THEOREM SchedulerInvariance == SchedulerSpec => []SchedulerInv
<1>1. SchedulerInit => SchedulerInv
  BY SchedulerAssumption
  DEF SchedulerInit, SchedulerInv, ClockInOrder, TasksInOrder, RunsBehindLast, PassedAreNotDue,
      NothingFromTheFuture, ClaimedBeforeLast, NeverTooOften
<1>2. ASSUME SchedulerInv, [SchedulerNext]_schedVars PROVE SchedulerInv'
  <2>1. CASE Advance
    <3>1. /\ tasks' = tasks /\ since' = since /\ claimed' = claimed
          /\ clock' = clock + 1 /\ clock' \in 0 .. MaxClock
          /\ clock \in 0 .. MaxClock /\ tasks \in Seq(Tasks)
      BY <1>2, <2>1, SchedulerAssumption DEF Advance, SchedulerInv, ClockInOrder, TasksInOrder
    <3>2. TasksInOrder'
      BY <1>2, <3>1, TaskTypes, <2>1 DEF SchedulerInv, TasksInOrder, Advance
    <3>3. ClockInOrder'
      BY <1>2, <2>1, <3>1 DEF Advance, SchedulerInv, ClockInOrder
    <3>4. RunsBehindLast' /\ PassedAreNotDue'
      BY <1>2, <2>1, <3>1 DEF Advance, SchedulerInv, RunsBehindLast, PassedAreNotDue, RanOrWaits
    <3>5. claimed \in [Ids -> Nat] /\ (NeverTooOften => NeverTooOften')
      BY <1>2, <3>1 DEF SchedulerInv, ClockInOrder, NeverTooOften
    <3>6. NothingFromTheFuture'
      BY <1>2, <2>1, <3>1, <3>5 DEF Advance, SchedulerInv, NothingFromTheFuture, ClaimedBeforeLast
    <3> QED
      BY <3>2, <3>3, <3>4, <3>6 DEF SchedulerInv
  <2>2. CASE AddTask
    BY <1>2, <2>2, AddTaskKeeps
  <2>3. CASE RemoveTask
    BY <1>2, <2>3, RemoveTaskKeeps
  <2>4. CASE TickBegin
    BY <1>2, <2>4, TickBeginKeeps
  <2>5. CASE TickLock
    BY <1>2, <2>5
    DEF TickLock, SchedulerInv, ClockInOrder, TasksInOrder, RunsBehindLast, PassedAreNotDue,
        NothingFromTheFuture, ClaimedBeforeLast, NeverTooOften
  <2>6. CASE TickTask
    BY <1>2, <2>6, TickTaskKeeps
  <2>7. CASE TickEnd
    BY <1>2, <2>7
    DEF TickEnd, SchedulerInv, ClockInOrder, TasksInOrder, RunsBehindLast, PassedAreNotDue,
        NothingFromTheFuture, ClaimedBeforeLast, NeverTooOften
  <2>8. CASE UNCHANGED schedVars
    BY <1>2, <2>8
    DEF schedVars, SchedulerInv, ClockInOrder, TasksInOrder, RunsBehindLast, PassedAreNotDue,
        RanOrWaits, NothingFromTheFuture, ClaimedBeforeLast, NeverTooOften
  <2> QED
    BY <1>2, <2>1, <2>2, <2>3, <2>4, <2>5, <2>6, <2>7, <2>8 DEF SchedulerNext, Tick
<1> QED
  BY <1>1, <1>2, PTL DEF SchedulerSpec

(* A task runs no more often than its interval has passed since it was     *)
(* added, however late ticks come, however long tasks take and however     *)
(* often the clock has wrapped, as long as no other thread adds tasks:     *)
(* with one it may, which run scheduler_threads shows.                     *)
THEOREM NoTaskRunsTooOften ==
  ASSUME "other" \notin Callers
  PROVE  SchedulerSpec => []NeverTooOften
<1>1. SchedulerInv => NeverTooOften
  BY DEF SchedulerInv, NothingFromTheFuture
<1> QED
  BY <1>1, SchedulerInvariance, PTL

(* When a tick ends, every task of the list has run since the tick began   *)
(* or had waited less than its interval then, whoever calls addTask() and  *)
(* removeTask() meanwhile and whatever the clock is, unless the tick came  *)
(* Modulus ms or more after the task's last.                               *)
THEOREM TickLeavesNothingDue == SchedulerSpec => NothingDueAfterTick
<1>1. ASSUME SchedulerInv, TickEnd
      PROVE  \A i \in DOMAIN tasks :
               LET t == tasks[i]
               IN  \/ since[t.id] >= now
                   \/ now - since[t.id] < t.interval
                   \/ now - t.last >= Modulus
  <2>1. /\ pc = "loop" /\ tasks \in Seq(Tasks) /\ Len(tasks) \in Nat /\ at = Len(tasks) + 1
        /\ now \in Nat /\ since \in [Ids -> 0 .. MaxClock]
    BY <1>1 DEF TickEnd, SchedulerInv, ClockInOrder, TasksInOrder
  <2>2. \A i \in 1 .. Len(tasks) :
          RanOrWaits(tasks[i]) /\ tasks[i].last <= since[tasks[i].id]
    BY <1>1, <2>1 DEF SchedulerInv, PassedAreNotDue, RunsBehindLast
  <2>3. \A i \in 1 .. Len(tasks) :
          /\ tasks[i].last \in Nat /\ tasks[i].interval \in Nat
          /\ since[tasks[i].id] \in Nat
    BY <2>1, TaskTypes
  <2>4. ASSUME NEW i \in 1 .. Len(tasks)
        PROVE  LET t == tasks[i]
               IN  \/ since[t.id] >= now
                   \/ now - since[t.id] < t.interval
                   \/ now - t.last >= Modulus
    <3> DEFINE t == tasks[i]
               r == since[t.id]
    <3>1. /\ t.last \in Nat /\ t.interval \in Nat /\ r \in Nat /\ now \in Nat
          /\ t.last <= r /\ Modulus \in Nat
          /\ t.last = now \/ now - t.last < t.interval \/ now - t.last >= Modulus
      BY <2>1, <2>2, <2>3, SchedulerAssumption DEF RanOrWaits
    <3> HIDE DEF t, r
    <3>2. r >= now \/ now - r < t.interval \/ now - t.last >= Modulus
      BY <3>1
    <3> QED
      BY <3>2 DEF t, r
  <2>5. DOMAIN tasks = 1 .. Len(tasks)
    BY <2>1
  <2> QED
    BY <2>4, <2>5
<1> QED
  BY <1>1, SchedulerInvariance, PTL DEF SchedulerSpec, NothingDueAfterTick
-----------------------------------------------------------------------------
\* EventBus.  A publish() call has the handlers it owes a call, in their order,
\* and has called the first of them.
SubIds == 0 .. MaxSubs - 1

BusCalls == [event : Events, hs : Seq(SubIds), called : Seq(SubIds),
             running : BOOLEAN, owed : SUBSET SubIds]

OnCourse(c) ==
  /\ Lists(c.hs, c.owed)
  /\ Len(c.called) <= Len(c.hs)
  /\ \A i \in 1 .. Len(c.called) : c.called[i] = c.hs[i]

GoodCalls == {c \in BusCalls : OnCourse(c)}

Subscribers(e) == {id \in SubIds : subscribedTo[id] = e}

BusInv ==
  /\ subs \in [Events -> Seq(SubIds)]
  /\ nextSub \in 0 .. MaxSubs
  /\ subscribedTo \in [SubIds -> Events \cup {"none"}]
  /\ \A id \in SubIds : id >= nextSub => subscribedTo[id] = "none"
  /\ \A e \in Events : Lists(subs[e], Subscribers(e))
  /\ calls \in [BusThreads -> Seq(GoodCalls)]

(* An id higher than the others at the end of a list.                      *)
LEMMA ListsAppend ==
  ASSUME NEW s \in Seq(SubIds), NEW S, Lists(s, S), NEW n \in SubIds, \A id \in S : id < n
  PROVE  Append(s, n) \in Seq(SubIds) /\ Lists(Append(s, n), S \cup {n})
<1> DEFINE a == Append(s, n)
<1>1. /\ a \in Seq(SubIds) /\ Len(a) = Len(s) + 1 /\ Len(s) \in Nat
      /\ a[Len(s) + 1] = n
      /\ \A i \in 1 .. Len(s) : a[i] = s[i] /\ s[i] \in S
  BY AppendProperties DEF Lists
<1> HIDE DEF a
<1>2. \A i, j \in 1 .. Len(a) : i < j => a[i] < a[j]
  BY <1>1 DEF Lists
<1>3. {a[i] : i \in 1 .. Len(a)} = S \cup {n}
  BY <1>1 DEF Lists
<1> QED
  BY <1>1, <1>2, <1>3 DEF a, Lists

(* An id taken out of a list.                                              *)
LEMMA ListsRemove ==
  ASSUME NEW s \in Seq(SubIds), NEW S, Lists(s, S), NEW id
  PROVE  RemoveFirst(s, id) \in Seq(SubIds) /\ Lists(RemoveFirst(s, id), S \ {id})
<1>1. CASE id \notin S
  <2>1. ~ \E i \in 1 .. Len(s) : s[i] = id
    BY <1>1 DEF Lists
  <2>2. RemoveFirst(s, id) = s
    BY <2>1 DEF RemoveFirst
  <2> QED
    BY <1>1, <2>2
<1>2. CASE id \in S
  <2>1. PICK k \in 1 .. Len(s) : s[k] = id
    BY <1>2 DEF Lists
  <2>2. \A i \in 1 .. Len(s) : s[i] \in Int
    BY BusAssumption DEF SubIds
  <2>3. \A i \in 1 .. Len(s) : s[i] = id <=> i = k
    BY <2>1, <2>2 DEF Lists
  <2>4. SelectInSeq(s, LAMBDA v : v = id) = k
    <3>1. {i \in 1 .. Len(s) : s[i] = id} = {k}
      BY <2>3
    <3>2. Min({k}) = k
      BY DEF Min
    <3> QED
      BY <3>1, <3>2 DEF SelectInSeq
  <2> DEFINE r == SubSeq(s, 1, k - 1) \o SubSeq(s, k + 1, Len(s))
  <2>5. RemoveFirst(s, id) = r
    BY <2>1, <2>4 DEF RemoveFirst, RemoveAt
  <2>a. Len(s) \in Nat
    OBVIOUS
  <2>6. /\ r \in Seq(SubIds) /\ Len(r) = Len(s) - 1
        /\ \A i \in 1 .. Len(r) : r[i] = s[IF i < k THEN i ELSE i + 1]
    BY WithoutOne, Zenon
  <2> HIDE DEF r
  <2>7. ASSUME NEW i \in 1 .. Len(r), NEW j \in 1 .. Len(r), i < j PROVE r[i] < r[j]
    <3> DEFINE p(x) == IF x < k THEN x ELSE x + 1
    <3>1. p(i) \in 1 .. Len(s) /\ p(j) \in 1 .. Len(s) /\ p(i) < p(j)
      BY <2>a, <2>6, <2>7
    <3>2. r[i] = s[p(i)] /\ r[j] = s[p(j)]
      BY <2>6
    <3> HIDE DEF p
    <3> QED
      BY <3>1, <3>2 DEF Lists
  <2>8. ASSUME NEW i \in 1 .. Len(r) PROVE r[i] \in S \ {id}
    BY <2>a, <2>3, <2>6 DEF Lists
  <2>9. ASSUME NEW x \in S \ {id} PROVE \E i \in 1 .. Len(r) : r[i] = x
    <3>1. PICK i \in 1 .. Len(s) : s[i] = x
      BY DEF Lists
    <3>2. i # k
      BY <2>3, <3>1
    <3>3. CASE i < k
      BY <2>a, <2>6, <3>1, <3>3
    <3>4. CASE i > k
      <4>1. i - 1 \in 1 .. Len(r) /\ ~(i - 1 < k) /\ (i - 1) + 1 = i
        BY <2>a, <2>6, <3>4
      <4> QED
        BY <2>6, <3>1, <4>1
    <3> QED
      BY <3>2, <3>3, <3>4
  <2>10. {r[i] : i \in 1 .. Len(r)} = S \ {id}
    BY <2>8, <2>9
  <2> QED
    BY <2>5, <2>6, <2>7, <2>10 DEF Lists
<1> QED
  BY <1>1, <1>2

(* A publish() call begins on course.                                      *)
LEMMA CallBegins ==
  ASSUME BusInv, NEW e \in Events
  PROVE  Call(e) \in GoodCalls
<1>1. subs[e] \in Seq(SubIds) /\ Lists(subs[e], Subscribers(e)) /\ DOMAIN subscribedTo = SubIds
  BY DEF BusInv
<1>2. Call(e) = [event |-> e, hs |-> subs[e], called |-> <<>>, running |-> FALSE,
                 owed |-> Subscribers(e)]
  BY <1>1 DEF Call, Subscribers
<1>3. <<>> \in Seq(SubIds) /\ Len(<<>>) = 0 /\ Len(subs[e]) \in Nat
  BY <1>1
<1>a. Subscribers(e) \in SUBSET SubIds
  BY DEF Subscribers
<1>4. Call(e) \in BusCalls
  BY <1>1, <1>2, <1>3, <1>a DEF BusCalls
<1>5. Call(e).hs = subs[e] /\ Call(e).owed = Subscribers(e) /\ Call(e).called = <<>>
  BY <1>2
<1> QED
  BY <1>1, <1>3, <1>4, <1>5 DEF GoodCalls, OnCourse

(* Calling the next handler and returning from one keep a call on course.  *)
LEMMA CallGoesOn ==
  ASSUME NEW c \in GoodCalls
  PROVE  /\ Pending(c) # <<>> =>
              [c EXCEPT !.called = Append(@, Head(Pending(c))), !.running = TRUE] \in GoodCalls
         /\ [c EXCEPT !.running = FALSE] \in GoodCalls
         /\ Pending(c) = <<>> => Lists(c.called, c.owed)
<1>1. /\ c \in BusCalls /\ c.hs \in Seq(SubIds) /\ c.called \in Seq(SubIds)
      /\ Len(c.hs) \in Nat /\ Len(c.called) \in Nat /\ Len(c.called) <= Len(c.hs)
  BY DEF GoodCalls, BusCalls, OnCourse
<1>2. /\ Pending(c) = <<>> => Len(c.called) = Len(c.hs)
      /\ Pending(c) # <<>> =>
           Len(c.called) < Len(c.hs) /\ Head(Pending(c)) = c.hs[Len(c.called) + 1]
  <2>1. CASE Len(c.called) = Len(c.hs)
    BY <1>1, <2>1, SubSeqEmpty DEF Pending
  <2>2. CASE Len(c.called) < Len(c.hs)
    <3>1. /\ Len(c.called) + 1 \in 1 .. Len(c.hs)
          /\ Len(c.hs) \in Len(c.called) + 1 .. Len(c.hs)
      BY <1>1, <2>2
    <3>2. Head(Pending(c)) = c.hs[Len(c.called) + 1]
      BY <1>1, <3>1, HeadTailOfSubSeq DEF Pending
    <3>3. Len(Pending(c)) # 0
      BY <1>1, <3>1, SubSeqProperties DEF Pending
    <3> QED
      BY <2>2, <3>2, <3>3
  <2> QED
    BY <1>1, <2>1, <2>2
<1>3. ASSUME Pending(c) = <<>> PROVE Lists(c.called, c.owed)
  BY <1>1, <1>2, <1>3 DEF GoodCalls, OnCourse, Lists
<1>4. [c EXCEPT !.running = FALSE] \in GoodCalls
  <2> DEFINE d == [c EXCEPT !.running = FALSE]
  <2>1. d \in BusCalls /\ d.hs = c.hs /\ d.called = c.called /\ d.owed = c.owed
    BY <1>1, Zenon DEF BusCalls
  <2> HIDE DEF d
  <2>2. d \in GoodCalls
    BY <2>1 DEF GoodCalls, OnCourse
  <2> QED
    BY <2>2 DEF d
<1>5. ASSUME Pending(c) # <<>>
      PROVE  [c EXCEPT !.called = Append(@, Head(Pending(c))), !.running = TRUE] \in GoodCalls
  <2> DEFINE more == Append(c.called, Head(Pending(c)))
             d == [c EXCEPT !.called = more, !.running = TRUE]
  <2>1. /\ more \in Seq(SubIds) /\ Len(more) = Len(c.called) + 1
        /\ \A i \in 1 .. Len(c.called) : more[i] = c.called[i]
        /\ more[Len(c.called) + 1] = c.hs[Len(c.called) + 1]
    BY <1>1, <1>2, <1>5, AppendProperties
  <2> HIDE DEF more
  <2>2. d \in BusCalls /\ d.hs = c.hs /\ d.called = more /\ d.owed = c.owed
    BY <1>1, <2>1, Zenon DEF BusCalls
  <2> HIDE DEF d
  <2>3. /\ Len(d.called) <= Len(d.hs)
        /\ \A i \in 1 .. Len(d.called) : d.called[i] = d.hs[i]
    <3>1. \A i \in 1 .. Len(c.called) : c.called[i] = c.hs[i]
      BY DEF GoodCalls, OnCourse
    <3> QED
      BY <1>1, <1>2, <1>5, <2>1, <2>2, <3>1
  <2>4. Lists(d.hs, d.owed)
    BY <2>2 DEF GoodCalls, OnCourse
  <2>5. d \in GoodCalls
    BY <2>2, <2>3, <2>4 DEF GoodCalls, OnCourse
  <2> QED
    BY <2>5 DEF d, more
<1> QED
  BY <1>3, <1>4, <1>5

(* The innermost call of a thread, and what a step does to it.             *)
LEMMA TopIsGood ==
  ASSUME BusInv, NEW t \in BusThreads, calls[t] # <<>>
  PROVE  Top(t) \in GoodCalls
BY DEF BusInv, Top, Last

(* Replacing it, or returning from it, leaves good calls.                  *)
LEMMA TopChanges ==
  ASSUME BusInv, NEW t \in BusThreads, calls[t] # <<>>
  PROVE  /\ \A c \in GoodCalls :
              [calls EXCEPT ![t] = [@ EXCEPT ![Len(calls[t])] = c]]
                \in [BusThreads -> Seq(GoodCalls)]
         /\ [calls EXCEPT ![t] = Front(@)] \in [BusThreads -> Seq(GoodCalls)]
<1>1. /\ calls[t] \in Seq(GoodCalls) /\ Len(calls[t]) \in Nat /\ Len(calls[t]) # 0
      /\ calls \in [BusThreads -> Seq(GoodCalls)]
  BY DEF BusInv
<1>3. \A c \in GoodCalls : [calls[t] EXCEPT ![Len(calls[t])] = c] \in Seq(GoodCalls)
  BY <1>1, ExceptSeq
<1>4. Front(calls[t]) \in Seq(GoodCalls)
  <2>1. \A i \in 1 .. Len(calls[t]) - 1 : calls[t][i] \in GoodCalls
    BY <1>1
  <2> QED
    BY <1>1, <2>1, SubSeqProperties DEF Front
<1> QED
  BY <1>1, <1>3, <1>4

(* The inductive invariant of the bus.                                     *)
THEOREM BusInvariance == BusSpec => []BusInv
<1> USE BusAssumption
<1>1. BusInit => BusInv
  <2> SUFFICES ASSUME BusInit PROVE BusInv
    OBVIOUS
  <2>1. \A e \in Events : subs[e] = <<>> /\ Subscribers(e) = {}
    BY DEF BusInit, Subscribers, SubIds
  <2>2. Lists(<<>>, {})
    BY DEF Lists
  <2>3. \A e \in Events : Lists(subs[e], Subscribers(e))
    BY <2>1, <2>2
  <2>4. subs \in [Events -> Seq(SubIds)] /\ calls \in [BusThreads -> Seq(GoodCalls)]
    BY DEF BusInit
  <2>5. /\ nextSub \in 0 .. MaxSubs /\ subscribedTo \in [SubIds -> Events \cup {"none"}]
        /\ \A id \in SubIds : subscribedTo[id] = "none"
    BY DEF BusInit, SubIds
  <2> QED
    BY <2>3, <2>4, <2>5 DEF BusInv
<1>2. ASSUME BusInv, [BusNext]_busVars PROVE BusInv'
  <2>1. ASSUME NEW t \in BusThreads, NEW e \in Events, Subscribe(t, e) PROVE BusInv'
    <3>1. nextSub \in SubIds /\ nextSub + 1 \in 0 .. MaxSubs /\ subscribedTo[nextSub] = "none"
      BY <1>2, <2>1 DEF Subscribe, BusInv, SubIds
    <3>2. \A id \in Subscribers(e) : id < nextSub
      BY <1>2, <3>1 DEF BusInv, Subscribers, SubIds
    <3>3. Subscribers(e)' = Subscribers(e) \cup {nextSub}
      BY <1>2, <2>1, <3>1 DEF Subscribe, BusInv, Subscribers
    <3>4. \A f \in Events \ {e} : Subscribers(f)' = Subscribers(f)
      BY <1>2, <2>1, <3>1 DEF Subscribe, BusInv, Subscribers
    <3>5. /\ Append(subs[e], nextSub) \in Seq(SubIds)
          /\ Lists(Append(subs[e], nextSub), Subscribers(e) \cup {nextSub})
      BY <1>2, <3>1, <3>2, ListsAppend DEF BusInv
    <3>6. subs' \in [Events -> Seq(SubIds)] /\ \A f \in Events : Lists(subs'[f], Subscribers(f)')
      BY <1>2, <2>1, <3>3, <3>4, <3>5 DEF Subscribe, BusInv
    <3>7. /\ subscribedTo' \in [SubIds -> Events \cup {"none"}]
          /\ \A id \in SubIds : id >= nextSub' => subscribedTo'[id] = "none"
      BY <1>2, <2>1, <3>1 DEF Subscribe, BusInv, SubIds
    <3> QED
      BY <1>2, <2>1, <3>1, <3>6, <3>7 DEF Subscribe, BusInv
  <2>2. ASSUME NEW t \in BusThreads, NEW id \in DOMAIN subscribedTo, Unsubscribe(t, id)
        PROVE  BusInv'
    <3>1. id \in SubIds
      BY <1>2, <2>2 DEF BusInv
    <3>2. \A e \in Events : Subscribers(e)' = Subscribers(e) \ {id}
      BY <1>2, <2>2, <3>1 DEF Unsubscribe, BusInv, Subscribers
    <3>3. \A e \in Events : /\ RemoveFirst(subs[e], id) \in Seq(SubIds)
                           /\ Lists(RemoveFirst(subs[e], id), Subscribers(e) \ {id})
      BY <1>2, ListsRemove DEF BusInv
    <3>4. subs' = [e \in Events |-> RemoveFirst(subs[e], id)]
      BY <2>2 DEF Unsubscribe
    <3>5. subs' \in [Events -> Seq(SubIds)] /\ \A e \in Events : Lists(subs'[e], Subscribers(e)')
      BY <3>2, <3>3, <3>4
    <3>6. /\ subscribedTo' \in [SubIds -> Events \cup {"none"}]
          /\ \A i \in SubIds : i >= nextSub' => subscribedTo'[i] = "none"
      BY <1>2, <2>2, <3>1 DEF Unsubscribe, BusInv
    <3> QED
      BY <1>2, <2>2, <3>5, <3>6 DEF Unsubscribe, BusInv
  <2>3. ASSUME calls' \in [BusThreads -> Seq(GoodCalls)], UNCHANGED <<subs, nextSub, subscribedTo>>
        PROVE  BusInv'
    BY <1>2, <2>3 DEF BusInv, Subscribers
  <2>4. ASSUME NEW t \in BusThreads, NEW e \in Events, Publish(t, e) PROVE BusInv'
    <3>1. Append(calls[t], Call(e)) \in Seq(GoodCalls)
      BY <1>2, CallBegins, AppendProperties DEF BusInv
    <3>2. calls' \in [BusThreads -> Seq(GoodCalls)]
      BY <1>2, <2>4, <3>1 DEF Publish, BusInv
    <3> QED
      BY <2>3, <2>4, <3>2 DEF Publish
  <2>5. ASSUME NEW t \in BusThreads, CallHandler(t) PROVE BusInv'
    <3> DEFINE c == [Top(t) EXCEPT !.called = Append(@, Head(Pending(Top(t)))), !.running = TRUE]
    <3>1. calls[t] # <<>> /\ Top(t) \in GoodCalls /\ Pending(Top(t)) # <<>>
      BY <1>2, <2>5, TopIsGood DEF CallHandler, MayAct
    <3>2. c \in GoodCalls
      BY <3>1, CallGoesOn
    <3>3. calls' = [calls EXCEPT ![t] = [@ EXCEPT ![Len(calls[t])] = c]]
      BY <1>2, <2>5, <3>1 DEF CallHandler, Top, Last, BusInv
    <3> HIDE DEF c
    <3>4. calls' \in [BusThreads -> Seq(GoodCalls)]
      BY <1>2, <3>1, <3>2, <3>3, TopChanges
    <3> QED
      BY <2>3, <2>5, <3>4 DEF CallHandler
  <2>6. ASSUME NEW t \in BusThreads, HandlerReturns(t) PROVE BusInv'
    <3> DEFINE c == [Top(t) EXCEPT !.running = FALSE]
    <3>1. calls[t] # <<>> /\ Top(t) \in GoodCalls
      BY <1>2, <2>6, TopIsGood DEF HandlerReturns
    <3>2. c \in GoodCalls
      BY <3>1, CallGoesOn
    <3>3. calls' = [calls EXCEPT ![t] = [@ EXCEPT ![Len(calls[t])] = c]]
      BY <1>2, <2>6, <3>1 DEF HandlerReturns, Top, Last, BusInv
    <3> HIDE DEF c
    <3>4. calls' \in [BusThreads -> Seq(GoodCalls)]
      BY <1>2, <3>1, <3>2, <3>3, TopChanges
    <3> QED
      BY <2>3, <2>6, <3>4 DEF HandlerReturns
  <2>7. ASSUME NEW t \in BusThreads, PublishReturns(t) PROVE BusInv'
    <3>1. calls[t] # <<>>
      BY <2>7 DEF PublishReturns, MayAct
    <3>2. calls' \in [BusThreads -> Seq(GoodCalls)]
      BY <1>2, <2>7, <3>1, TopChanges DEF PublishReturns
    <3> QED
      BY <2>3, <2>7, <3>2 DEF PublishReturns
  <2>8. CASE UNCHANGED busVars
    BY <1>2, <2>3, <2>8 DEF busVars, BusInv
  <2> QED
    BY <1>2, <2>1, <2>2, <2>4, <2>5, <2>6, <2>7, <2>8 DEF BusNext
<1> QED
  BY <1>1, <1>2, PTL DEF BusSpec

(* Whatever is subscribed, unsubscribed and published meanwhile, a         *)
(* publish() calls exactly the handlers subscribed when it began, in       *)
(* order.                                                                  *)
THEOREM PublishCallsItsRound == BusSpec => PublishIsOneRound
<1>1. ASSUME BusInv, NEW t \in BusThreads, PublishReturns(t)
      PROVE  Lists(Top(t).called, Top(t).owed)
  <2>1. calls[t] # <<>> /\ Pending(Top(t)) = <<>>
    BY <1>1 DEF PublishReturns, MayAct
  <2>2. Top(t) \in GoodCalls
    BY <1>1, <2>1, TopIsGood
  <2>3. \A c \in GoodCalls : Pending(c) = <<>> => Lists(c.called, c.owed)
    BY CallGoesOn
  <2> QED
    BY <2>1, <2>2, <2>3
<1>2. BusInv => \A t \in BusThreads : PublishReturns(t) => Lists(Top(t).called, Top(t).owed)
  BY <1>1
<1> QED
  BY <1>2, BusInvariance, PTL DEF BusSpec, PublishIsOneRound
-----------------------------------------------------------------------------
(* StateMachine: what process() keeps under its mutex, for any threads,    *)
(* states and transitions, and that its callers see it change in one step. *)
InProcess == {"guard", "exit", "action", "enter"}

Progress == [pc : {"out", "lock"} \cup InProcess,
             event : MachineEvents \cup {"none"}, prev : MachineStates]

MachineTypeOK ==
  /\ cur \in MachineStates
  /\ holder \in Users \cup {"nobody"}
  /\ prog \in [Users -> Progress]
  /\ disturbed \in BOOLEAN
  /\ seen \in [Users -> MachineStates]

\* The mutex is held from Lock to the return, by the thread that is in between.
MutexHeld == \A u \in Users : prog[u].pc \in InProcess <=> holder = u

\* The call in progress started from prev, has a transition once the guard has
\* let it pass, and has taken it once the action is through.
CallOnTrack ==
  \A u \in Users :
    /\ prog[u].pc \in {"guard", "exit", "action"} => prog[u].prev = cur
    /\ prog[u].pc \in {"exit", "action", "enter"} =>
         <<prog[u].prev, prog[u].event>> \in DOMAIN Transitions
    /\ prog[u].pc = "enter" => cur = Transitions[<<prog[u].prev, prog[u].event>>]

\* Until a callback throws, the machine is inside its state except between the
\* exit and the enter callback, when it is inside none.
InsideOnTrack ==
  ~disturbed =>
    /\ holder = "nobody" => inside = {cur}
    /\ \A u \in Users :
         /\ prog[u].pc \in {"guard", "exit"} => inside = {cur}
         /\ prog[u].pc \in {"action", "enter"} => inside = {}

MachineInv == MachineTypeOK /\ MutexHeld /\ CallOnTrack /\ InsideOnTrack
-----------------------------------------------------------------------------
(* A transition leads to a state of the machine.                           *)
LEMMA TransitionsLead ==
  /\ Idle \in MachineStates
  /\ \A k \in DOMAIN Transitions : Transitions[k] \in MachineStates
BY DEF MachineStates

(* The inductive invariant of the machine.                                 *)
THEOREM MachineInvariance == MachineSpec => []MachineInv
<1>1. MachineInit => MachineInv
  <2> SUFFICES ASSUME MachineInit PROVE MachineInv
    OBVIOUS
  <2> USE DEF MachineInit
  <2>1. Outside \in Progress
    BY TransitionsLead DEF Outside, Progress
  <2>2. MachineTypeOK
    BY <2>1, TransitionsLead DEF MachineTypeOK
  <2>3. \A u \in Users : prog[u].pc = "out"
    BY DEF Outside
  <2>4. MutexHeld /\ CallOnTrack /\ InsideOnTrack
    BY <2>3, MachineAssumption DEF MutexHeld, CallOnTrack, InsideOnTrack, InProcess
  <2> QED
    BY <2>2, <2>4 DEF MachineInv
<1>2. ASSUME MachineInv, [MachineNext]_machineVars PROVE MachineInv'
  <2>a. MachineTypeOK /\ MutexHeld /\ CallOnTrack /\ InsideOnTrack
    BY <1>2 DEF MachineInv
  <2> USE <2>a, MachineAssumption, TransitionsLead
      DEF MachineTypeOK, MutexHeld, CallOnTrack, InsideOnTrack, InProcess
  <2>1. ASSUME NEW u \in Users, Current(u) PROVE MachineInv'
    BY <2>1 DEF Current, MachineInv, Progress
  <2>2. ASSUME NEW u \in Users, NEW ev \in MachineEvents, CallProcess(u, ev)
        PROVE  MachineInv'
    <3>1. MachineTypeOK'
      BY <2>2 DEF CallProcess, Progress
    <3>2. MutexHeld' /\ CallOnTrack' /\ InsideOnTrack'
      BY <2>2 DEF CallProcess, Progress
    <3> QED
      BY <3>1, <3>2 DEF MachineInv
  <2>3. ASSUME NEW u \in Users, Lock(u) PROVE MachineInv'
    <3>1. MachineTypeOK'
      BY <2>3 DEF Lock, Progress
    <3>2. MutexHeld' /\ CallOnTrack'
      BY <2>3 DEF Lock, Progress
    <3>3. InsideOnTrack'
      BY <2>3 DEF Lock, Progress
    <3> QED
      BY <3>1, <3>2, <3>3 DEF MachineInv
  <2>4. ASSUME NEW u \in Users, Refuse(u) PROVE MachineInv'
    BY <2>4 DEF Refuse, Return, Outside, MachineInv, Progress
  <2>5. ASSUME NEW u \in Users, Accept(u) PROVE MachineInv'
    BY <2>5 DEF Accept, Goto, MachineInv, Progress
  <2>6. ASSUME NEW u \in Users, Exit(u) PROVE MachineInv'
    BY <2>6 DEF Exit, ExitOf, Goto, MachineInv, Progress
  <2>7. ASSUME NEW u \in Users, Action(u) PROVE MachineInv'
    BY <2>7 DEF Action, Goto, MachineInv, Progress
  <2>8. ASSUME NEW u \in Users, Enter(u) PROVE MachineInv'
    BY <2>8 DEF Enter, Return, Outside, MachineInv, Progress
  <2>9. ASSUME NEW u \in Users, Throw(u) PROVE MachineInv'
    BY <2>9 DEF Throw, Return, Outside, MachineInv, Progress
  <2>10. CASE UNCHANGED machineVars
    BY <2>10 DEF Progress, machineVars, MachineInv
  <2> QED
    BY <1>2, <2>1, <2>2, <2>3, <2>4, <2>5, <2>6, <2>7, <2>8, <2>9, <2>10
    DEF MachineNext, Process
<1> QED
  BY <1>1, <1>2, PTL DEF MachineSpec

(* Each state is entered before it is exited and exited before the next    *)
(* one is entered, until a callback throws.                                *)
THEOREM CallbacksBalanced == MachineSpec => []EnterExitBalanced
<1>1. MachineInv => EnterExitBalanced
  BY DEF MachineInv, InsideOnTrack, EnterExitBalanced
<1> QED
  BY <1>1, MachineInvariance, PTL

-----------------------------------------------------------------------------
(* process() looks to its callers like one step along a transition, taken  *)
(* when it returns, also when a callback throws; current() returns the     *)
(* state between two such steps.                                           *)
THEOREM ProcessIsAtomic == MachineSpec => ImplementsAtomicMachine
<1> DEFINE shown == IF holder = "nobody" THEN cur ELSE prog[holder].prev
<1>1. MachineInit => Atomic!AtomicInit
  BY DEF MachineInit, Atomic!AtomicInit
<1>2. ASSUME MachineInv, [MachineNext]_machineVars
      PROVE  [Atomic!Step \/ Atomic!Read]_<<shown, seen>>
  <2>a. MachineTypeOK /\ MutexHeld /\ CallOnTrack
    BY <1>2 DEF MachineInv
  <2> USE <2>a, MachineAssumption DEF MachineTypeOK, Progress, MutexHeld, CallOnTrack, InProcess
  <2>1. ASSUME NEW u \in Users, Current(u) PROVE Atomic!Read
    BY <2>1 DEF Current, CanRead, Atomic!Read
  <2>2. ASSUME NEW u \in Users, NEW ev \in MachineEvents, CallProcess(u, ev)
        PROVE  UNCHANGED <<shown, seen>>
    BY <2>2 DEF CallProcess
  <2>3. ASSUME NEW u \in Users, Lock(u) PROVE UNCHANGED <<shown, seen>>
    BY <2>3 DEF Lock
  <2>4. ASSUME NEW u \in Users, Refuse(u) PROVE UNCHANGED <<shown, seen>>
    BY <2>4 DEF Refuse, Return
  <2>5. ASSUME NEW u \in Users, Accept(u) \/ Exit(u) \/ Action(u)
        PROVE  UNCHANGED <<shown, seen>>
    BY <2>5 DEF Accept, Exit, Action, Goto
  <2>6. ASSUME NEW u \in Users, Enter(u) PROVE Atomic!Step
    BY <2>6 DEF Enter, Return, Atomic!Step
  <2>7. ASSUME NEW u \in Users, Throw(u)
        PROVE  Atomic!Step \/ UNCHANGED <<shown, seen>>
    <3>1. CASE prog[u].pc = "exit"
      BY <2>7, <3>1 DEF Throw, Return
    <3>2. CASE prog[u].pc \in {"action", "enter"}
      BY <2>7, <3>2 DEF Throw, Return, Atomic!Step
    <3> QED
      BY <2>7, <3>1, <3>2 DEF Throw
  <2>8. CASE UNCHANGED machineVars
    BY <2>8 DEF machineVars
  <2> QED
    BY <1>2, <2>1, <2>2, <2>3, <2>4, <2>5, <2>6, <2>7, <2>8 DEF MachineNext, Process
<1> QED
  BY <1>1, <1>2, MachineInvariance, PTL
  DEF MachineSpec, ImplementsAtomicMachine, Atomic!AtomicSpec
=============================================================================
