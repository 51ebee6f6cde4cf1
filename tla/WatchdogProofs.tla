---------------------------- MODULE WatchdogProofs ----------------------------
(***************************************************************************)
(* Proofs about Watchdog, for a clock with any number of values, any limit  *)
(* and any lateness that the clock can tell apart.                          *)
(*                                                                         *)
(* The argument.  Every deadline that somebody still looks at lies in a     *)
(* window around the clock: at most Slack ticks behind it and at most       *)
(* MaxInterval ahead.  The window is shorter than half the clock, so that   *)
(* IsBefore, which compares modulo the clock, orders deadlines by the ticks *)
(* that are left until them (WindowOrder).                                  *)
(***************************************************************************)
EXTENDS Watchdog, TLAPS

USE WatchdogAssumption

-----------------------------------------------------------------------------
(* Arithmetic modulo the clock.                                             *)

\* The ticks left until a deadline that is looked at.
Window == (-Slack)..MaxInterval

\* A sum that leaves the clock at one end comes back at the other.
LEMMA ModuloCases ==
  ASSUME NEW x \in Int, -Modulus <= x, x < 2 * Modulus
  PROVE  x % Modulus = IF x < 0 THEN x + Modulus
                       ELSE IF x < Modulus THEN x ELSE x - Modulus
<1>1. CASE x < 0
  BY <1>1, SMT
<1>2. CASE 0 <= x /\ x < Modulus
  BY <1>2, SMT
<1>3. CASE Modulus <= x
  BY <1>3, SMT
<1> QED
  BY <1>1, <1>2, <1>3

\* After(t, d) is a time of the clock.
LEMMA AfterInTimes ==
  ASSUME NEW t \in Times, NEW d \in Window
  PROVE  /\ After(t, d) \in Times /\ After(t, d) # NoTime
         /\ After(t, d) = IF t + d < 0 THEN t + d + Modulus
                          ELSE IF t + d < Modulus THEN t + d ELSE t + d - Modulus
<1>1. t + d \in Int /\ -Modulus <= t + d /\ t + d < 2 * Modulus
  BY DEF Times, Window
<1>2. (t + d) % Modulus = IF t + d < 0 THEN t + d + Modulus
                          ELSE IF t + d < Modulus THEN t + d ELSE t + d - Modulus
  BY <1>1, ModuloCases DEF Times, Window
<1>3. (t + d) % Modulus \in Times
  BY <1>1, <1>2 DEF Times
<1> QED
  BY <1>2, <1>3 DEF After, Times, NoTime

\* IsBefore on the window is the order of the ticks that are left.
LEMMA WindowOrder ==
  ASSUME NEW t \in Times, NEW d \in Window, NEW e \in Window
  PROVE  IsBefore(After(t, d), After(t, e)) <=> d < e
<1> DEFINE x == After(t, d)  y == After(t, e)
<1>1. x \in Times /\ y \in Times
  BY AfterInTimes
<1>2. (x - y) % Modulus = IF x - y < 0 THEN x - y + Modulus ELSE x - y
  <2>1. x - y \in Int /\ -Modulus <= x - y /\ x - y < Modulus
    BY <1>1 DEF Times
  <2> QED
    BY <2>1, ModuloCases
<1>3. x - y \in {d - e, d - e + Modulus, d - e - Modulus}
  BY AfterInTimes DEF Times, Window
<1>4. 2 * (d - e) < Modulus /\ 2 * (e - d) < Modulus
  BY DEF Window
<1>5. IsBefore(x, y) <=> 2 * ((x - y) % Modulus) >= Modulus
  BY DEF IsBefore
<1> HIDE DEF x, y
<1>6. IsBefore(x, y) <=> d < e
  BY <1>1, <1>2, <1>3, <1>4, <1>5 DEF Times, Window
<1> QED
  BY <1>6 DEF x, y

\* The clock itself is the deadline with no tick left.
LEMMA NowInWindow ==
  ASSUME NEW t \in Times
  PROVE  0 \in Window /\ After(t, 0) = t
BY AfterInTimes DEF Window, Times

\* When a tick passes, a tick less is left; a deadline that a thread has to
\* meet in time has not left the window.
LEMMA TickInWindow ==
  ASSUME NEW t \in Times, NEW d \in Window,
         (After(t, d) - t) % Modulus # After(0, Modulus - Slack)
  PROVE  /\ d - 1 \in Window
         /\ After(After(t, 1), d - 1) = After(t, d)
<1> DEFINE x == After(t, d)  n == After(t, 1)
<1>1. After(0, Modulus - Slack) = Modulus - Slack
  BY ModuloCases DEF After
<1>2. x \in Times /\ n \in Times /\ 1 \in Window
  BY AfterInTimes DEF Window
<1>3. (x - t) % Modulus = IF x - t < 0 THEN x - t + Modulus ELSE x - t
  <2>1. x - t \in Int /\ -Modulus <= x - t /\ x - t < Modulus
    BY <1>2 DEF Times
  <2> QED
    BY <2>1, ModuloCases
<1>4. x = IF t + d < 0 THEN t + d + Modulus
          ELSE IF t + d < Modulus THEN t + d ELSE t + d - Modulus
  BY AfterInTimes
<1>5. n = IF t + 1 < Modulus THEN t + 1 ELSE t + 1 - Modulus
  BY <1>2, AfterInTimes DEF Times
<1> HIDE DEF x, n
<1>6. d - 1 \in Window
  <2>1. d # -Slack
    BY <1>1, <1>2, <1>3, <1>4 DEF Times, Window, x
  <2> QED
    BY <2>1 DEF Window
<1>7. After(n, d - 1) = IF n + (d - 1) < 0 THEN n + (d - 1) + Modulus
                        ELSE IF n + (d - 1) < Modulus THEN n + (d - 1)
                        ELSE n + (d - 1) - Modulus
  BY <1>2, <1>6, AfterInTimes
<1>8. After(n, d - 1) = x
  BY <1>2, <1>4, <1>5, <1>6, <1>7 DEF Times, Window
<1> QED
  BY <1>6, <1>8 DEF x, n

-----------------------------------------------------------------------------
(* The inductive invariant.                                                 *)

\* Every deadline somebody looks at is in the window, and the history variables
\* count the ticks until it.
DeadlineInv ==
  /\ HasTimeout => timeout = After(now, left)
  /\ mainPc = "schedule" => newTimeout = After(now, newLeft)
  /\ dogPc = "wait" /\ dogWake # NoTime => \E d \in Window : dogWake = After(now, d)

IndInv == TypeOK /\ DeadlineInv /\ WakesInTime /\ SleeperNotForgotten

LEMMA InitIndInv == Init => IndInv
<1> SUFFICES ASSUME Init PROVE IndInv
  OBVIOUS
<1>1. TypeOK
  <2>1. now \in Times /\ 0 \in Window /\ calls \in 0..MaxCalls /\ interval \in 0..MaxInterval
    BY DEF Init, Times, Window
  <2>2. {timeout, newTimeout, wakeup} \subseteq Times \cup {NoTime}
    BY DEF Init
  <2> QED
    BY <2>1, <2>2 DEF Init, TypeOK, Window
<1>2. DeadlineInv
  BY DEF Init, DeadlineInv, HasTimeout
<1>3. WakesInTime /\ SleeperNotForgotten
  BY DEF Init, WakesInTime, SleeperNotForgotten
<1> QED
  BY <1>1, <1>2, <1>3 DEF IndInv

-----------------------------------------------------------------------------
(* Time passes.                                                             *)

\* A deadline that is met in time stays in the window.
LEMMA TickDeadline ==
  ASSUME now \in Times, Tick, NEW t, NEW d \in Window, t = After(now, d), InTime(t)
  PROVE  d - 1 \in Window /\ t = After(now', d - 1)
BY TickInWindow DEF Tick, InTime

LEMMA TickIndInv ==
  ASSUME IndInv, Tick
  PROVE  IndInv'
<1> USE DEF dogVars, mainVars
<1>1. now' \in Times
  BY AfterInTimes DEF IndInv, TypeOK, Tick, Window
<1>2. HasTimeout => left - 1 \in Window /\ timeout = After(now', left - 1)
  BY TickDeadline DEF IndInv, TypeOK, DeadlineInv, Tick, Window
<1>3. mainPc = "schedule" => newLeft - 1 \in Window /\ newTimeout = After(now', newLeft - 1)
  BY TickDeadline DEF IndInv, TypeOK, DeadlineInv, Tick, Window
<1>4. ASSUME dogPc = "wait", dogWake # NoTime
      PROVE  \E d \in Window : dogWake = After(now', d)
  <2>1. PICK d \in Window : dogWake = After(now, d)
    BY <1>4 DEF IndInv, DeadlineInv
  <2>2. d - 1 \in Window /\ dogWake = After(now', d - 1)
    BY <1>4, <2>1, TickDeadline DEF IndInv, TypeOK, Tick
  <2> QED
    BY <2>2
<1>5. TypeOK'
  BY <1>1, <1>2, <1>3 DEF IndInv, TypeOK, Tick, Window
<1>6. DeadlineInv'
  BY <1>2, <1>3, <1>4 DEF Tick, DeadlineInv, HasTimeout
<1>7. WakesInTime' /\ SleeperNotForgotten'
  BY DEF IndInv, Tick, WakesInTime, SleeperNotForgotten, HasTimeout
<1> QED
  BY <1>5, <1>6, <1>7 DEF IndInv

-----------------------------------------------------------------------------
(* The watchdog thread.                                                     *)

\* The head of WatchdogMain's loop: whatever it decides, it does not sleep past
\* the deadline, and the deadlines that are left are in the window.
LEMMA DogLoopStep ==
  ASSUME IndInv, DogLoop, dogNotified' = FALSE,
         UNCHANGED <<now, newLeft, thread, mainPc, newTimeout>>
  PROVE  /\ timeout' \in Times \cup {NoTime} /\ left' \in Window
         /\ dogWake' \in Times \cup {NoTime}
         /\ dogPc' \in {"exit", "cancel", "wait"}
         /\ DeadlineInv' /\ WakesInTime'
<1> USE DEF IndInv, TypeOK, Window
<1>1. CASE ~thread
  BY <1>1 DEF DogLoop, DeadlineInv, WakesInTime, HasTimeout, NoTime
<1>2. CASE thread /\ HasTimeout /\ ~IsBefore(now, timeout)
  BY <1>2 DEF DogLoop, Disarm, DeadlineInv, WakesInTime, HasTimeout, NoTime
<1>3. CASE thread /\ ~(HasTimeout /\ ~IsBefore(now, timeout))
  <2>1. /\ dogPc' = "wait" /\ dogWake' = timeout
        /\ UNCHANGED <<timeout, left>>
    BY <1>3 DEF DogLoop
  <2>2. DeadlineInv'
    BY <2>1 DEF DeadlineInv, HasTimeout
  <2>3. HasTimeout => ~IsBefore(timeout, timeout)
    BY WindowOrder DEF DeadlineInv
  <2>4. WakesInTime'
    BY <2>1, <2>3 DEF WakesInTime, HasTimeout
  <2> QED
    BY <2>1, <2>2, <2>4
<1> QED
  BY <1>1, <1>2, <1>3

LEMMA DogIndInv ==
  ASSUME IndInv, Dog
  PROVE  IndInv'
<1> USE DEF mainVars, clockVars
<1>1. CASE DogRuns
  <2>1. DogLoop /\ dogNotified' = FALSE
        /\ UNCHANGED <<now, newLeft, lateSleep, thread, mainVars, canceled, interrupt>>
    BY <1>1 DEF DogRuns
  <2>2. TypeOK'
    BY <2>1, DogLoopStep DEF IndInv, TypeOK, Window
  <2>3. dogPc \notin {"trigger", "notify"}
    BY <1>1 DEF DogRuns
  <2>4. SleeperNotForgotten'
    BY <2>1, <2>3 DEF IndInv, SleeperNotForgotten
  <2> QED
    BY <2>1, <2>2, <2>4, DogLoopStep DEF IndInv
<1>2. CASE CancelExecution
  BY <1>2 DEF CancelExecution, IndInv, TypeOK, DeadlineInv, WakesInTime, SleeperNotForgotten,
              HasTimeout
<1>3. CASE TriggerOperationCallback
  BY <1>3 DEF TriggerOperationCallback, IndInv, TypeOK, DeadlineInv, WakesInTime,
              SleeperNotForgotten, HasTimeout
<1>4. CASE NotifyAndLoop
  <2>1. DogLoop /\ NotifySleep /\ dogNotified' = FALSE
        /\ UNCHANGED <<now, newLeft, lateSleep, thread, mainPc, newTimeout, wakeup, calls,
                       interval, canceled, interrupt>>
    BY <1>4 DEF NotifyAndLoop
  <2>2. sleepNotified' \in BOOLEAN
    BY <2>1 DEF NotifySleep, IndInv, TypeOK
  <2>3. TypeOK'
    BY <2>1, <2>2, DogLoopStep DEF IndInv, TypeOK, Window
  <2>4. SleeperNotForgotten'
    BY <2>1 DEF NotifySleep, SleeperNotForgotten
  <2> QED
    BY <2>1, <2>3, <2>4, DogLoopStep DEF IndInv
<1> QED
  BY <1>1, <1>2, <1>3, <1>4 DEF Dog

-----------------------------------------------------------------------------
(* The main thread.                                                         *)

\* A deadline that lies t ticks ahead is in the window.
LEMMA ComputeStep ==
  ASSUME IndInv, NEW t \in 1..MaxInterval, ComputeTimeout(t)
  PROVE  /\ newTimeout' \in Times /\ newLeft' \in Window
         /\ newTimeout' = After(now, newLeft')
BY AfterInTimes DEF ComputeTimeout, IndInv, TypeOK, Window

LEMMA ScheduleIndInv ==
  ASSUME IndInv, ScheduleWatchdog
  PROVE  IndInv'
<1> USE DEF IndInv
<1>1. TypeOK'
  <2>1. dogNotified' \in BOOLEAN
    BY DEF ScheduleWatchdog, TypeOK
  <2>2. 0 \in Window
    BY DEF Window
  <2>3. {timeout', newTimeout', wakeup'} \subseteq Times \cup {NoTime}
    BY DEF ScheduleWatchdog, TypeOK
  <2> QED
    BY <2>1, <2>2, <2>3 DEF ScheduleWatchdog, TypeOK, Window
<1>2. DeadlineInv'
  BY DEF ScheduleWatchdog, DeadlineInv, HasTimeout
<1>3. SleeperNotForgotten'
  BY DEF ScheduleWatchdog, SleeperNotForgotten
<1>4. WakesInTime'
  <2> SUFFICES ASSUME dogPc' = "wait", ~dogNotified', thread', HasTimeout'
               PROVE  dogWake # NoTime /\ ~IsBefore(timeout', dogWake)
    BY DEF WakesInTime, ScheduleWatchdog
  <2>1. /\ thread /\ dogPc = "wait" /\ ~dogNotified /\ ~NeedsNotify
        /\ timeout' = newTimeout
    BY DEF ScheduleWatchdog, TypeOK, NeedsNotify
  <2>2. HasTimeout /\ ~IsBefore(newTimeout, timeout)
    BY <2>1 DEF NeedsNotify
  <2>3. dogWake # NoTime /\ ~IsBefore(timeout, dogWake)
    BY <2>1, <2>2 DEF WakesInTime
  <2>4. PICK d \in Window : dogWake = After(now, d)
    BY <2>1, <2>3 DEF DeadlineInv
  <2>5. /\ newTimeout = After(now, newLeft) /\ timeout = After(now, left)
        /\ newLeft \in Window /\ left \in Window /\ now \in Times
    BY <2>2 DEF ScheduleWatchdog, DeadlineInv, TypeOK, Window
  <2>6. ~(newLeft < left) /\ ~(left < d)
    BY <2>2, <2>3, <2>4, <2>5, WindowOrder
  <2>7. ~(newLeft < d)
    BY <2>5, <2>6 DEF Window
  <2> QED
    BY <2>1, <2>3, <2>4, <2>5, <2>7, WindowOrder
<1> QED
  BY <1>1, <1>2, <1>3, <1>4

\* The other steps of the main thread set deadlines aside or compute one.
LEMMA MainIndInv ==
  ASSUME IndInv, Main \/ Script
  PROVE  IndInv'
<1> USE DEF IndInv, dogVars, clockVars
<1>1. CASE Prompt
  <2>1. 0 \in Window /\ 0 \in 0..MaxCalls
    BY DEF Window
  <2>2. TypeOK'
    BY <1>1, <2>1 DEF Prompt, Disarm, TypeOK, Window
  <2> QED
    BY <1>1, <2>2 DEF Prompt, Disarm, DeadlineInv, WakesInTime, SleeperNotForgotten,
                      HasTimeout
<1>2. CASE Arm
  <2>1. CASE interval = 0
    BY <1>2, <2>1 DEF Arm, Disarm, TypeOK, DeadlineInv, WakesInTime, SleeperNotForgotten,
                      HasTimeout
  <2>2. CASE interval # 0
    <3>1. /\ newTimeout' \in Times /\ newLeft' \in Window
          /\ newTimeout' = After(now, newLeft')
      BY <1>2, <2>2, ComputeStep DEF Arm, TypeOK
    <3>2. /\ mainPc' = "schedule"
          /\ UNCHANGED <<timeout, left, now, lateSleep, dogVars, wakeup, sleepNotified, calls,
                         interval, canceled, interrupt>>
      BY <1>2, <2>2 DEF Arm
    <3> QED
      BY <3>1, <3>2 DEF TypeOK, DeadlineInv, WakesInTime, SleeperNotForgotten, HasTimeout,
                        Window
  <2> QED
    BY <2>1, <2>2
<1>3. CASE ScheduleWatchdog
  BY <1>3, ScheduleIndInv
<1>4. CASE SleepWakes
  BY <1>4 DEF SleepWakes, SleepOver, TypeOK, DeadlineInv, WakesInTime, SleeperNotForgotten,
              HasTimeout
<1>5. CASE OperationCallback
  BY <1>5 DEF OperationCallback, TypeOK, DeadlineInv, WakesInTime, SleeperNotForgotten,
              HasTimeout
<1>6. CASE Join
  BY <1>6 DEF Join, TypeOK, DeadlineInv, WakesInTime, SleeperNotForgotten, HasTimeout
<1>7. CASE CommandEnds
  BY <1>7 DEF CommandEnds, TypeOK, DeadlineInv, WakesInTime, SleeperNotForgotten, HasTimeout
<1>8. CASE KillWatchdog
  BY <1>8 DEF KillWatchdog, NotifyKill, TypeOK, DeadlineInv, WakesInTime,
              SleeperNotForgotten, HasTimeout
<1>9. ASSUME NEW t \in 0..MaxInterval, Timeout(t)
      PROVE  IndInv'
  <2>1. calls' \in 0..MaxCalls /\ interval' \in 0..MaxInterval
    BY <1>9 DEF Timeout, TypeOK
  <2>2. UNCHANGED <<now, lateSleep, dogVars, wakeup, sleepNotified, canceled, interrupt>>
        /\ mainPc = "js"
    BY <1>9 DEF Timeout
  <2>3. CASE t = 0
    BY <1>9, <2>1, <2>2, <2>3 DEF Timeout, Disarm, TypeOK, DeadlineInv, WakesInTime,
                                  SleeperNotForgotten, HasTimeout
  <2>4. CASE t # 0
    <3>1. /\ newTimeout' \in Times /\ newLeft' \in Window
          /\ newTimeout' = After(now, newLeft')
      BY <1>9, <2>4, ComputeStep DEF Timeout
    <3>2. mainPc' = "schedule" /\ UNCHANGED <<timeout, left>>
      BY <1>9, <2>4 DEF Timeout
    <3> QED
      BY <2>1, <2>2, <3>1, <3>2 DEF TypeOK, DeadlineInv, WakesInTime, SleeperNotForgotten,
                                    HasTimeout, Window
  <2> QED
    BY <2>3, <2>4
<1>10. ASSUME NEW t \in 0..MaxInterval, Sleep(t)
       PROVE  IndInv'
  <2>1. CASE t = 0
    BY <1>10, <2>1 DEF Sleep, TypeOK, DeadlineInv, WakesInTime, SleeperNotForgotten,
                       HasTimeout
  <2>2. CASE t # 0
    <3>1. wakeup' \in Times
      BY <1>10, <2>2, AfterInTimes DEF Sleep, TypeOK, Window
    <3> QED
      BY <1>10, <2>2, <3>1 DEF Sleep, TypeOK, DeadlineInv, WakesInTime,
                               SleeperNotForgotten, HasTimeout
  <2> QED
    BY <2>1, <2>2
<1> QED
  BY <1>1, <1>2, <1>3, <1>4, <1>5, <1>6, <1>7, <1>8, <1>9, <1>10 DEF Main, Script

LEMMA NextIndInv ==
  ASSUME IndInv, [Next]_vars
  PROVE  IndInv'
<1>1. CASE Done \/ UNCHANGED vars
  BY <1>1 DEF Done, vars, clockVars, dogVars, mainVars, IndInv, TypeOK, DeadlineInv,
              WakesInTime, SleeperNotForgotten, HasTimeout
<1> QED
  BY <1>1, TickIndInv, DogIndInv, MainIndInv DEF Next

-----------------------------------------------------------------------------
(* The theorems.                                                            *)

\* The inductive invariant holds in every reachable state.
THEOREM Invariance == Spec => []IndInv
<1>1. Init => IndInv
  BY InitIndInv
<1>2. IndInv /\ [Next]_vars => IndInv'
  BY NextIndInv
<1> QED
  BY <1>1, <1>2, PTL DEF Spec

\* The watchdog thread does not sleep past the deadline that is set, and a
\* script that sleeps when it is canceled is woken (WatchdogMain, Sleep_fn).
THEOREM NobodySleepsTooLong == Spec => []SleepersWoken
<1>1. IndInv => SleepersWoken
  BY DEF IndInv, SleepersWoken
<1> QED
  BY <1>1, Invariance, PTL

\* The watchdog decides to cancel only at a deadline that has passed, on a clock
\* of any size: the comparison modulo the clock is that of the ticks left.
LEMMA DecisionStep ==
  ASSUME IndInv, [Next]_vars, dogPc' = "cancel", dogPc # "cancel"
  PROVE  left <= 0
<1> USE DEF vars, dogVars, clockVars, mainVars
<1>1. DogLoop
  <2>1. CASE DogRuns \/ NotifyAndLoop
    BY <2>1 DEF DogRuns, NotifyAndLoop
  <2>2. CASE CancelExecution \/ TriggerOperationCallback
    BY <2>2 DEF CancelExecution, TriggerOperationCallback
  <2>3. CASE Tick \/ Main \/ Script \/ Done \/ UNCHANGED vars
    BY <2>3 DEF Tick, Main, Script, Done, Prompt, Arm, ScheduleWatchdog, SleepWakes,
                OperationCallback, Join, CommandEnds, KillWatchdog, Timeout, Sleep
  <2> QED
    BY <2>1, <2>2, <2>3 DEF Next, Dog
<1>2. HasTimeout /\ ~IsBefore(now, timeout)
  BY <1>1 DEF DogLoop
<1>3. /\ now \in Times /\ left \in Window /\ 0 \in Window
      /\ timeout = After(now, left) /\ now = After(now, 0)
  BY <1>2, NowInWindow DEF IndInv, TypeOK, DeadlineInv, Window
<1>4. ~(0 < left)
  BY <1>2, <1>3, WindowOrder
<1> QED
  BY <1>3, <1>4 DEF Window

\* The watchdog never decides to cancel before the deadline armed at that moment
\* has passed (WatchdogMain, IsBefore).  CancelExecution, which follows without
\* the lock, may meet a deadline armed since: the theorem does not speak of it.
THEOREM DecidesInTime == Spec => NeverDecidesEarly
<1>1. IndInv /\ [Next]_vars => [dogPc' = "cancel" /\ dogPc # "cancel" => left <= 0]_vars
  BY DecisionStep
<1> QED
  BY <1>1, Invariance, PTL DEF Spec, NeverDecidesEarly
=============================================================================
