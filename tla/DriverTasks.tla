----------------------------- MODULE DriverTasks -----------------------------
(***************************************************************************)
(* The threads of the driver together, from an open interface to a closed  *)
(* one: the timer thread, which queues commands, the command thread, the   *)
(* MLME thread, here a thread that sets and cancels timers and queues      *)
(* commands (its own queue is the subject of MlmeQueue), the suspend and   *)
(* resume of the adapter, and RTMPDrvClose, which takes the threads down   *)
(* one by one (common/rtmp_init_inf.c, mlme.c, os/linux/rt_usb.c).         *)
(***************************************************************************)
EXTENDS TimerQueue, CmdQueue

CONSTANTS
  Backlog,   \* ticks that the command thread may be behind (a bound)
  Loads      \* the loads that are considered, of LoadKinds

\* "timers": timers are set and cancelled all the time
\* "commands": commands are queued, and the adapter is suspended and resumed
LoadKinds == {"timers", "commands"}

ASSUME TasksAssumption == /\ Tasks = {"mlme", "timer", "cmd"} /\ "tick" \in Commands
                          /\ Loads \subseteq LoadKinds

VARIABLES
  closing,   \* how far RTMPDrvClose has come
  todo,      \* the timers it still cancels
  load

closev == <<closing, todo, load>>
vars   == <<timerv, cmdv, closev, adapterv, taskv>>

TypeOK ==
  /\ TimerTypeOK /\ CmdTypeOK /\ AdapterTypeOK /\ TaskTypeOK
  /\ closing \in {"open", "mlme", "halt", "exit", "stop", "cmd", "timer",
                  "delay", "release", "closed"}
  /\ todo \subseteq Timers /\ load \in Loads

Init == /\ TimerInit /\ CmdInit /\ AdapterInit /\ TaskInit
        /\ closing = "open" /\ todo = {} /\ load \in Loads

-----------------------------------------------------------------------------
(* The timers' handlers, and the contexts that use timers and commands.     *)

\* MlmePeriodicExecTimer
RunHandler ==
  /\ Run /\ UNCHANGED closev
  /\ IF ~suspended /\ pTimer \in Periodic
     THEN RTEnqueueInternalCmd("tick") ELSE UNCHANGED <<cmdv, taskv>>

\* time passes, unless the command thread has Backlog ticks to execute
Ticks == Len(SelectSeq(Append(cmds, cmd), LAMBDA c : c = "tick"))
TimerExpires(t) ==
  /\ Ticks < Backlog \/ (cpc = "wait" /\ ~running["cmd"])
  /\ Expire(t) /\ UNCHANGED <<cmdv, closev, adapterv>>
TimerCallback(t) == Callback(t) /\ UNCHANGED <<cmdv, closev, adapterv>>

\* the MLME thread and the handlers of commands set timers, a handler also if
\* HALT_IN_PROGRESS has been set since it began
SetOrModTimer(t) ==
  /\ load = "timers" /\ t \notin Periodic /\ ((upc = "idle" /\ alive["mlme"]) \/ cpc = "exec")
  /\ RTMPSetTimer(t) \/ RTMPModTimer(t)
  /\ UNCHANGED <<cmdv, closev, adapterv, taskv>>
MlmeCancels(t) ==
  /\ load = "timers" /\ t \notin Periodic /\ alive["mlme"] /\ ~stop["mlme"] /\ CancelTimer(t)
  /\ UNCHANGED <<cmdv, closev, adapterv, taskv>>

\* one command of a kind is in the queue at a time
EnqueueCmd(c) ==
  /\ load = "commands" /\ c # "tick" /\ ~Contains(cmds, c) /\ alive["mlme"]
  /\ RTEnqueueInternalCmd(c) /\ UNCHANGED <<timerv, closev, adapterv>>

\* the MLME thread is told to stop, finishes what it does, and may return (it may
\* also not: see KillReturns of MlmeQueue)
MlmeReturns ==
  /\ stop["mlme"] /\ alive["mlme"] /\ upc = "idle" /\ halt' = TRUE /\ Return("mlme")
  /\ UNCHANGED <<timerv, cmdv, closev, power>>

DelAnyTimer == /\ DelTimer \/ DelTimerSync
               /\ UNCHANGED <<cmdv, closev, adapterv, taskv>>
Removed == /\ RtmpTimerQRemove(closing = "release") /\ todo' = todo \ {utimer}
           /\ UNCHANGED <<cmdv, closing, load, adapterv, taskv>>

-----------------------------------------------------------------------------
(* USB suspend and resume.                                                  *)

Suspend == load = "commands" /\ closing = "open" /\ PMSuspend /\ UNCHANGED <<timerv, cmdv, closev, taskv>>
Wakes   == /\ SuspendHalts \/ PMResume \/ ResumeGoesOn
           /\ UNCHANGED <<timerv, cmdv, closev, taskv>>

-----------------------------------------------------------------------------
(* RTMPDrvClose.  A timer is released only after all threads are gone, and  *)
(* two milliseconds after HALT_IN_PROGRESS is cleared: a callback that had  *)
(* begun by then has ended (an assumption on the scheduling of interrupts). *)

To(from, to) == closing = from /\ closing' = to /\ UNCHANGED load

\* the command thread has been scheduled once by now (a bound)
MlmeHalt ==
  /\ To("open", "mlme") /\ InUse /\ cpc # "start" /\ Kill("mlme")
  /\ UNCHANGED <<timerv, cmdv, todo, adapterv>>
MlmeKilled ==
  /\ To("mlme", "halt") /\ KillReturn("mlme") /\ todo' = Periodic
  /\ UNCHANGED <<timerv, cmdv, adapterv, taskv>>

\* RTMPCancelTimer by MlmeHalt, RTMPReleaseTimer by RTMP_AllTimerListRelease
CloseCancels(t) ==
  /\ closing \in {"halt", "release"} /\ t \in todo /\ CancelTimer(t)
  /\ UNCHANGED <<cmdv, closev, adapterv, taskv>>

\* RtmpMgmtTaskExit
TimerQExit ==
  /\ To("halt", "exit") /\ todo = {} /\ RtmpTimerQExit
  /\ UNCHANGED <<cmdv, todo, adapterv, taskv>>
CmdStops ==
  /\ To("exit", "stop") /\ CmdSetState("stoped")
  /\ UNCHANGED <<timerv, todo, adapterv, taskv>>
KillCmd ==
  /\ To("stop", "cmd") /\ Kill("cmd") /\ UNCHANGED <<timerv, cmdv, todo, adapterv>>
KillTimer ==
  /\ To("cmd", "timer") /\ KillReturn("cmd") /\ CmdSetState("unknown") /\ Kill("timer")
  /\ UNCHANGED <<timerv, todo, adapterv>>
HaltCleared ==
  /\ To("timer", "delay") /\ KillReturn("timer") /\ halt' = FALSE
  /\ UNCHANGED <<timerv, cmdv, todo, power, taskv>>

Delay ==
  /\ To("delay", "release") /\ (\A t \in Timers : ~firing[t]) /\ todo' = Timers
  /\ UNCHANGED <<timerv, cmdv, adapterv, taskv>>
Closed ==
  /\ To("release", "closed") /\ todo = {} /\ UNCHANGED <<timerv, cmdv, todo, adapterv, taskv>>

CloseSteps == \/ MlmeKilled \/ (\E t \in Timers : CloseCancels(t)) \/ TimerQExit \/ CmdStops
              \/ KillCmd \/ KillTimer \/ HaltCleared \/ Delay \/ Closed

-----------------------------------------------------------------------------
Threads ==
  \/ (TimerThread /\ UNCHANGED <<cmdv, closev>>) \/ RunHandler
  \/ MlmeReturns \/ DelAnyTimer \/ Removed

Commanding == CmdThread /\ UNCHANGED <<timerv, closev>>

Next ==
  \/ \E t \in Timers : TimerExpires(t) \/ TimerCallback(t) \/ SetOrModTimer(t) \/ MlmeCancels(t)
  \/ \E c \in Commands : EnqueueCmd(c)
  \/ Threads \/ Commanding \/ Suspend \/ Wakes \/ MlmeHalt \/ CloseSteps
  \/ closing = "closed" /\ UNCHANGED vars

Spec == Init /\ [][Next]_vars

\* Time goes on, the timer and the command thread are scheduled, a suspend ends,
\* and a close goes on; that the MLME thread returns is not assumed.
\* A callback is short: del_timer_sync gets in between two of them.
Fairness ==
  /\ \A t \in Timers : WF_vars(TimerExpires(t)) /\ WF_vars(TimerCallback(t))
  /\ WF_vars((TimerThread /\ UNCHANGED <<cmdv, closev>>) \/ RunHandler)
  /\ SF_vars(DelAnyTimer) /\ WF_vars(Removed)
  /\ WF_vars(Commanding) /\ WF_vars(Wakes) /\ WF_vars(CloseSteps)
FairSpec == Spec /\ Fairness

-----------------------------------------------------------------------------
\* When the interface is closed nothing is left that would touch the adapter,
\* which is freed: no thread, no armed timer, no timer in the queue, no command.
Quiet == closing = "closed" =>
  /\ \A t \in Tasks : ~alive[t]
  /\ \A t \in Timers : ~pending[t]
  /\ TimerQ = <<>> /\ cmds = <<>>

\* A command that was accepted leaves the queue, also one that was queued
\* while the adapter was suspended: its wake-up has been consumed, and it is the
\* periodic timer, still alive after the suspend, that wakes the thread again.
Executed == \A c \in Commands \ {"tick"} : Contains(cmds, c) ~> ~Contains(cmds, c)

\* A close ends once the MLME thread is gone: neither RTMPCancelTimer, which waits
\* for callbacks, nor the threads it takes down after that can keep it waiting.
\* (That the MLME thread goes is not claimed.)
CloseReturns == (closing # "open" /\ ~alive["mlme"]) ~> (closing = "closed")
=============================================================================
