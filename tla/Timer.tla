------------------------------- MODULE Timer --------------------------------
(***************************************************************************)
(* Timer (include/core/Timer.h): the main loop calls check(), which fires  *)
(* the callback when the interval has passed; the callback may call every  *)
(* function of the timer again but setCallback(), which would destroy the  *)
(* callback that is running.  Milliseconds are counted modulo Wrap (2^32). *)
(***************************************************************************)
EXTENDS Integers

CONSTANTS Spans,     \* the intervals a timer may be given
          Wrap,      \* 2^32
          MaxTime,   \* bound: the last value of the clock
          MaxNesting \* bound: how deep check() is called in callbacks

ASSUME TimerAssumption ==
  Spans \subseteq Nat /\ Wrap \in Nat \ {0} /\ MaxTime \in Nat /\ MaxNesting \in Nat

VARIABLES time,      \* the steady clock
          timer,     \* interval_, repeat_, running_ and last_
          depth,     \* how many calls of the callback are running
          armed,     \* history: started, and neither stopped nor fired for good
          restart,   \* history: the last start(), reset() or firing
          waited     \* history: how long the last firing had been waited for

timerVars == <<time, timer, depth, armed, restart, waited>>

TimerInit ==
  /\ time = 0
  /\ timer \in [interval : Spans, repeat : BOOLEAN, running : {FALSE}, last : {0}]
  /\ depth = 0 /\ armed = FALSE /\ restart = 0
  /\ waited = [ms |-> 0, interval |-> 0]

TimePasses ==
  /\ time < MaxTime
  /\ time' = time + 1
  /\ UNCHANGED <<timer, depth, armed, restart, waited>>

SetInterval(ms) ==
  /\ timer' = [timer EXCEPT !.interval = ms]
  /\ UNCHANGED <<time, depth, armed, restart, waited>>

SetRepeat(r) ==
  /\ timer' = [timer EXCEPT !.repeat = r]
  /\ UNCHANGED <<time, depth, armed, restart, waited>>

StartTimer ==
  /\ timer' = [timer EXCEPT !.running = TRUE, !.last = time]
  /\ armed' = TRUE /\ restart' = time
  /\ UNCHANGED <<time, depth, waited>>

StopTimer ==
  /\ timer' = [timer EXCEPT !.running = FALSE]
  /\ armed' = FALSE
  /\ UNCHANGED <<time, depth, restart, waited>>

ResetTimer ==
  /\ timer' = [timer EXCEPT !.last = time]
  /\ restart' = time
  /\ UNCHANGED <<time, depth, armed, waited>>

IsDue == timer.running /\ (time - timer.last) % Wrap >= timer.interval

\* The timer when the callback is called; last_ kept on the
\* old schedule, as of the moment the timer was due.
FiredOnSchedule == [timer EXCEPT !.last = @ + timer.interval, !.running = timer.repeat]
Fired           == [timer EXCEPT !.last = time, !.running = timer.repeat]

\* check(), also when the callback calls it.
CheckFires ==
  /\ depth < MaxNesting /\ IsDue
  /\ timer' = Fired
  /\ depth' = depth + 1
  /\ armed' = timer.repeat
  /\ restart' = time
  /\ waited' = [ms |-> time - restart, interval |-> timer.interval]
  /\ UNCHANGED time

\* The callback returns and check() with it; a check() that
\* clears running_ only then.
AfterCallbackClears == [timer EXCEPT !.running = timer.repeat]
AfterCallback       == timer

CallbackReturns ==
  /\ depth > 0
  /\ timer' = AfterCallback
  /\ depth' = depth - 1
  /\ UNCHANGED <<time, armed, restart, waited>>

TimerNext == \/ TimePasses \/ StartTimer \/ StopTimer \/ ResetTimer
             \/ \E ms \in Spans : SetInterval(ms)
             \/ \E r \in BOOLEAN : SetRepeat(r)
             \/ CheckFires \/ CallbackReturns

TimerSpec == TimerInit /\ [][TimerNext]_timerVars
-----------------------------------------------------------------------------
\* What a callback did to its timer holds when check() returns: one that starts
\* a one-shot timer again leaves it running, one that stops a repeating timer
\* leaves it stopped.
CallbackHasLastWord == depth = 0 => timer.running = armed

\* No timer fires before the interval it then has has passed since it was last
\* started, reset or fired, however late check() was called before.
FiresNotEarly == waited.ms >= waited.interval
=============================================================================
