------------------------------- MODULE Watchdog -------------------------------
(***************************************************************************)
(* The watchdog of the JS shell (shell/js.cpp): the thread that cancels a   *)
(* script when its time is over, timeout(), sleep(), the read-eval-print    *)
(* loop that arms and disarms it, and its end.                              *)
(*                                                                         *)
(* gWatchdogLock protects the timeout; one action is one region run with    *)
(* the lock held, or one statement outside it where another thread can see  *)
(* the difference.  Time is PRIntervalTime, a counter that wraps around.    *)
(***************************************************************************)
EXTENDS Integers

CONSTANTS
  Modulus,      \* PRIntervalTime has this many values (2^32)
  MaxInterval,  \* MAX_TIMEOUT_INTERVAL in ticks
  Slack,        \* bound: ticks by which a thread may be late
  MaxCalls      \* bound: calls of timeout() in one command

ASSUME WatchdogAssumption ==
  /\ Modulus \in Nat /\ MaxInterval \in Nat /\ Slack \in Nat /\ MaxCalls \in Nat
  /\ Slack > 0 /\ MaxInterval > 0
  /\ 2 * (MaxInterval + Slack) < Modulus

VARIABLES
  now,          \* PR_IntervalNow()
  timeout,      \* gWatchdogTimeout; NoTime while gWatchdogHasTimeout is false
  thread,       \* gWatchdogThread is not NULL
  canceled,     \* gCanceled
  interrupt,    \* the runtime was asked for its operation callback
  interval,     \* gTimeoutInterval; 0 stands for every value <= 0
  dogPc,        \* of the watchdog thread
  dogWake,      \* when its timed wait ends; NoTime: PR_INTERVAL_NO_TIMEOUT
  dogNotified,  \* gWatchdogWakeup was notified since the wait began
  mainPc,       \* of the main thread
  newTimeout,   \* local of ScheduleWatchdog
  wakeup,       \* local of Sleep_fn: to_wakeup
  sleepNotified,\* gSleepWakeup was notified since the wait began
  calls,        \* calls of timeout() in this command
  left,         \* history: ticks until gWatchdogTimeout, never wrapped
  newLeft,      \* history: ticks until newTimeout
  lateSleep     \* history: the shell was canceled before this sleep() began

clockVars == <<now, timeout, left, newLeft>>
dogVars   == <<dogPc, dogWake, dogNotified, thread>>
mainVars  == <<mainPc, newTimeout, wakeup, sleepNotified, calls, interval>>
vars == <<clockVars, dogVars, mainVars, lateSleep, canceled, interrupt>>

Times  == 0..(Modulus - 1)
NoTime == Modulus
HasTimeout == timeout # NoTime

\* The type invariant.
TypeOK ==
  /\ now \in Times
  /\ {timeout, newTimeout, wakeup} \subseteq Times \cup {NoTime}
  /\ thread \in BOOLEAN /\ canceled \in BOOLEAN
  /\ interrupt \in BOOLEAN /\ dogNotified \in BOOLEAN /\ sleepNotified \in BOOLEAN
  /\ interval \in 0..MaxInterval
  /\ dogPc \in {"off", "loop", "wait", "cancel", "trigger", "notify", "exit"}
  /\ dogWake \in Times \cup {NoTime}
  /\ mainPc \in {"prompt", "arm", "js", "schedule", "sleep", "join", "done"}
  /\ calls \in 0..MaxCalls
  /\ left \in (-Slack)..MaxInterval /\ newLeft \in (-Slack)..MaxInterval
  /\ lateSleep \in BOOLEAN

Init ==
  /\ now = 0
  /\ timeout = NoTime /\ left = 0 /\ newLeft = 0 /\ lateSleep = FALSE
  /\ thread = FALSE /\ canceled = FALSE /\ interrupt = FALSE /\ interval = 0
  /\ dogPc = "off" /\ dogWake = NoTime /\ dogNotified = FALSE
  /\ mainPc = "prompt" /\ newTimeout = NoTime /\ wakeup = NoTime /\ sleepNotified = FALSE
  /\ calls = 0

-----------------------------------------------------------------------------
\* The sum of two PRIntervalTime values.
After(t, d) == (t + d) % Modulus

\* Mutant: the comparison does not wrap.
IsBeforeUnwrapped(t1, t2) == t1 < t2

\* IsBefore: int32_t(t1 - t2) < 0.
IsBefore(t1, t2) == 2 * ((t1 - t2) % Modulus) >= Modulus

\* A thread whose deadline is t has been run in time.
InTime(t) == (t - now) % Modulus # After(0, Modulus - Slack)

\* Time passes.  No deadline is missed by more than Slack.
Tick ==
  /\ HasTimeout => InTime(timeout)
  /\ dogPc = "wait" /\ dogWake # NoTime => InTime(dogWake)
  /\ mainPc = "sleep" => InTime(wakeup)
  /\ mainPc = "schedule" => InTime(newTimeout)
  /\ now' = After(now, 1)
  /\ left' = IF HasTimeout THEN left - 1 ELSE left
  /\ newLeft' = IF mainPc = "schedule" THEN newLeft - 1 ELSE newLeft
  /\ UNCHANGED <<timeout, lateSleep, dogVars, mainVars, canceled, interrupt>>

-----------------------------------------------------------------------------
(* The watchdog thread: WatchdogMain.                                       *)

\* gWatchdogHasTimeout = false.
Disarm == timeout' = NoTime /\ left' = 0

\* The head of the loop, with the lock held.
DogLoop ==
  IF ~thread
  THEN /\ dogPc' = "exit" /\ dogWake' = NoTime
       /\ UNCHANGED <<timeout, left>>
  ELSE IF HasTimeout /\ ~IsBefore(now, timeout)
  THEN /\ Disarm
       /\ dogPc' = "cancel" /\ dogWake' = NoTime
  ELSE /\ dogPc' = "wait"
       /\ dogWake' = timeout
       /\ UNCHANGED <<timeout, left>>

\* The thread starts, or PR_WaitCondVar returns: notified or timed out.
DogRuns ==
  /\ \/ dogPc = "loop"
     \/ dogPc = "wait" /\ dogNotified
     \/ dogPc = "wait" /\ dogWake # NoTime /\ ~IsBefore(now, dogWake)
  /\ DogLoop
  /\ dogNotified' = FALSE
  /\ UNCHANGED <<now, newLeft, lateSleep, thread, mainVars, canceled, interrupt>>

\* CancelExecution, outside the lock.
CancelExecution ==
  /\ dogPc = "cancel"
  /\ canceled' = TRUE
  /\ dogPc' = "trigger"
  /\ UNCHANGED <<clockVars, lateSleep, dogWake, dogNotified, thread, mainVars, interrupt>>

\* Mutant: the flag alone has to stop the script.
TriggerNothing ==
  /\ dogPc = "trigger"
  /\ dogPc' = "notify"
  /\ UNCHANGED <<clockVars, lateSleep, dogWake, dogNotified, thread, mainVars, canceled,
                 interrupt>>

TriggerOperationCallback ==
  /\ dogPc = "trigger"
  /\ interrupt' = TRUE
  /\ dogPc' = "notify"
  /\ UNCHANGED <<clockVars, lateSleep, dogWake, dogNotified, thread, mainVars, canceled>>

\* PR_NotifyAllCondVar(gSleepWakeup).
NotifySleep == sleepNotified' = (sleepNotified \/ mainPc = "sleep")

\* The lock is taken again, sleepers are woken, and the loop goes on.
NotifyAndLoop ==
  /\ dogPc = "notify"
  /\ NotifySleep
  /\ DogLoop
  /\ dogNotified' = FALSE
  /\ UNCHANGED <<now, newLeft, lateSleep, thread, mainPc, newTimeout,
                 wakeup, calls,
                 interval, canceled, interrupt>>

-----------------------------------------------------------------------------
(* The main thread.                                                         *)

\* Mutant: the thread is told of a deadline when it moves away.
NeedsNotifyLater == ~HasTimeout \/ IsBefore(timeout, newTimeout)

\* The watchdog sleeps past the new deadline.
NeedsNotify == ~HasTimeout \/ IsBefore(newTimeout, timeout)

\* ScheduleWatchdog(t) with t > 0, before it takes the lock.
ComputeTimeout(t) ==
  /\ newTimeout' = After(now, t)
  /\ newLeft' = t

\* The rest of it.  The thread is created when there is none, which may fail.
ScheduleWatchdog ==
  /\ mainPc = "schedule"
  /\ \/ /\ thread
        /\ dogNotified' = (dogNotified \/ (NeedsNotify /\ dogPc = "wait"))
        /\ timeout' = newTimeout /\ left' = newLeft
        /\ UNCHANGED <<thread, dogPc>>
     \/ /\ ~thread
        /\ thread' = TRUE /\ dogPc' = "loop"
        /\ timeout' = newTimeout /\ left' = newLeft
        /\ UNCHANGED dogNotified
     \/ ~thread /\ UNCHANGED <<thread, dogPc, dogNotified, timeout, left>>
  /\ newTimeout' = NoTime /\ newLeft' = 0
  /\ mainPc' = "js"
  /\ UNCHANGED <<now, lateSleep, dogWake, wakeup, sleepNotified, calls,
                 interval, canceled, interrupt>>

\* Process, the interactive loop: disarm, forget the last cancellation and
\* read a line.
Prompt ==
  /\ mainPc = "prompt"
  /\ Disarm
  /\ canceled' = FALSE
  /\ calls' = 0
  /\ mainPc' = "arm"
  /\ UNCHANGED <<now, newLeft, lateSleep, dogVars, newTimeout, wakeup, sleepNotified,
                 interval, interrupt>>

\* A line was read: ScheduleWatchdog(gTimeoutInterval), then it is run.
Arm ==
  /\ mainPc = "arm"
  /\ IF interval = 0
     THEN mainPc' = "js" /\ Disarm /\ UNCHANGED <<newTimeout, newLeft>>
     ELSE mainPc' = "schedule" /\ ComputeTimeout(interval) /\ UNCHANGED <<timeout, left>>
  /\ UNCHANGED <<now, lateSleep, dogVars, wakeup, sleepNotified, calls, interval,
                 canceled, interrupt>>

\* timeout(t) in the script: SetTimeoutValue.
Timeout(t) ==
  /\ mainPc = "js" /\ calls < MaxCalls
  /\ calls' = calls + 1
  /\ interval' = t
  /\ IF t = 0
     THEN Disarm /\ UNCHANGED <<mainPc, newTimeout, newLeft>>
     ELSE /\ mainPc' = "schedule" /\ ComputeTimeout(t)
          /\ UNCHANGED <<timeout, left>>
  /\ UNCHANGED <<now, lateSleep, dogVars, wakeup, sleepNotified, canceled, interrupt>>

\* sleep(t) in the script: Sleep_fn takes the lock and waits.  sleep(0) yields
\* without waiting, and fails too when the shell was canceled.
Sleep(t) ==
  /\ mainPc = "js"
  /\ \/ /\ t = 0
        /\ mainPc' = IF canceled THEN "prompt" ELSE "js"
        /\ UNCHANGED <<wakeup, sleepNotified, lateSleep>>
     \/ /\ t # 0
        /\ wakeup' = After(now, t)
        /\ sleepNotified' = FALSE
        /\ mainPc' = "sleep"
        /\ lateSleep' = canceled
  /\ UNCHANGED <<clockVars, dogVars, newTimeout, calls, interval, canceled, interrupt>>

\* The loop of Sleep_fn ends.
SleepOver == canceled \/ ~IsBefore(now, wakeup)

\* PR_WaitCondVar returns; sleep() fails when the shell was canceled.
SleepWakes ==
  /\ mainPc = "sleep"
  /\ sleepNotified \/ ~IsBefore(now, wakeup)
  /\ sleepNotified' = FALSE
  /\ IF SleepOver
     THEN /\ mainPc' = IF canceled THEN "prompt" ELSE "js"
          /\ wakeup' = NoTime /\ lateSleep' = FALSE
     ELSE UNCHANGED <<mainPc, wakeup, lateSleep>>
  /\ UNCHANGED <<clockVars, dogVars, newTimeout, calls, interval, canceled,
                 interrupt>>

\* js_InvokeOperationCallback and ShellOperationCallback.
OperationCallback ==
  /\ mainPc = "js" /\ interrupt
  /\ interrupt' = FALSE
  /\ mainPc' = IF canceled THEN "prompt" ELSE "js"
  /\ UNCHANGED <<clockVars, lateSleep, dogVars, newTimeout, wakeup, sleepNotified, calls,
                 interval, canceled>>

\* The command ends by itself.
CommandEnds ==
  /\ mainPc = "js"
  /\ mainPc' = "prompt"
  /\ UNCHANGED <<clockVars, lateSleep, dogVars, newTimeout, wakeup, sleepNotified, calls,
                 interval, canceled, interrupt>>

\* PR_NotifyCondVar(gWatchdogWakeup) in KillWatchdog.
NotifyKill == dogNotified' = (dogNotified \/ dogPc = "wait")

\* KillWatchdog.
KillWatchdog ==
  /\ mainPc = "prompt"
  /\ IF thread
     THEN thread' = FALSE /\ NotifyKill /\ mainPc' = "join"
     ELSE mainPc' = "done" /\ UNCHANGED <<thread, dogNotified>>
  /\ UNCHANGED <<clockVars, lateSleep, dogPc, dogWake, newTimeout, wakeup, sleepNotified, calls,
                 interval, canceled, interrupt>>

Join ==
  /\ mainPc = "join" /\ dogPc = "exit"
  /\ mainPc' = "done"
  /\ UNCHANGED <<clockVars, lateSleep, dogVars, newTimeout, wakeup, sleepNotified, calls,
                 interval, canceled, interrupt>>

Done == mainPc = "done" /\ UNCHANGED vars

-----------------------------------------------------------------------------
Dog == DogRuns \/ CancelExecution \/ TriggerOperationCallback \/ NotifyAndLoop

Script ==
  \/ CommandEnds \/ KillWatchdog
  \/ \E t \in 0..MaxInterval : Timeout(t) \/ Sleep(t)

Main == Prompt \/ Arm \/ ScheduleWatchdog \/ SleepWakes \/ OperationCallback \/ Join

Next == Tick \/ Dog \/ Main \/ Script \/ Done

Spec == Init /\ [][Next]_vars

\* Time passes and both threads run.  A script may run for ever, but it meets
\* its operation callback again and again.
Fairness ==
  /\ WF_vars(Tick) /\ WF_vars(Dog) /\ WF_vars(Main) /\ SF_vars(OperationCallback)

LiveSpec == Spec /\ Fairness

-----------------------------------------------------------------------------
(* Safety.                                                                  *)

\* WatchdogMain and ScheduleWatchdog: the thread never sleeps past the
\* deadline that is set, however often it is moved, disarmed and set again.
WakesInTime ==
  dogPc = "wait" /\ ~dogNotified /\ thread /\ HasTimeout =>
    dogWake # NoTime /\ ~IsBefore(timeout, dogWake)

\* IsBefore "correctly deals with PRIntervalTime wrap-around": the watchdog
\* decides to cancel, with its lock held, only when the deadline that is armed
\* at that moment has passed, whatever the clock shows.  This is about the
\* decision.  CancelExecution comes later, without the lock, and may meet a
\* deadline that was armed in between: see CanceledWhenDue.
NeverDecidesEarly ==
  [][dogPc' = "cancel" /\ dogPc # "cancel" => left <= 0]_vars

\* "Wake up any threads doing sleep": a script that sleeps when it is canceled
\* has been notified as soon as the watchdog has the lock again.
SleeperNotForgotten ==
  canceled /\ mainPc = "sleep" /\ ~lateSleep =>
    sleepNotified \/ dogPc \in {"trigger", "notify"}

\* Neither the watchdog nor the script sleeps through what it is to see.
SleepersWoken == TypeOK /\ WakesInTime /\ SleeperNotForgotten

(* Liveness.                                                                *)

InCommand == mainPc \in {"js", "schedule", "sleep"}

\* A command that runs with a limit ends or gives up the limit.
LimitEnforced == (InCommand /\ HasTimeout) ~> (~InCommand \/ interval = 0)

\* KillWatchdog returns.
KillReturns == (mainPc = "join") ~> (mainPc = "done")

\* Limits take effect and the watchdog can be stopped.
WatchdogProgress == LimitEnforced /\ KillReturns

(* What the comments say and the code does not.                             *)

\* A script that was canceled does not go on to sleep: the watchdog has yet to
\* notify it, or its time is over.
CanceledDoesNotSleep ==
  canceled /\ mainPc = "sleep" =>
    \/ sleepNotified \/ dogPc \in {"trigger", "notify"}
    \/ ~IsBefore(now, wakeup)

\* The help text of timeout(): a command that starts without a limit, and sets
\* none, has unlimited time.
UnlimitedNotCanceled == canceled /\ InCommand /\ calls = 0 => interval # 0

\* The same text: a command whose limit is running is not canceled before the
\* limit has passed.  (CancelExecution, decided about an earlier deadline.)
CanceledWhenDue ==
  [][~canceled /\ canceled' /\ InCommand /\ HasTimeout => left <= 0]_vars

=============================================================================
