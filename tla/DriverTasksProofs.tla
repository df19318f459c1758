-------------------------- MODULE DriverTasksProofs --------------------------
(***************************************************************************)
(* Four results about the threads of the driver, for every set of timers   *)
(* and of commands, every size of the timer queue and every number of      *)
(* ticks in the queue: a periodic timer is never lost, the close leaves    *)
(* nothing behind, the command queue implements the mailbox, and every     *)
(* variable keeps its type.                                                *)
(***************************************************************************)
EXTENDS DriverTasks, SequenceLemmas, TLAPS

-----------------------------------------------------------------------------
(* Timers.                                                                  *)

\* A context that cancels a timer has cleared Repeat, or found it cancelled; only
\* a timer that was initialised with Repeat can have it; and the thread runs a
\* handler only of a timer it has taken.
TimerInv ==
  /\ pending \in [Timers -> BOOLEAN] /\ firing \in [Timers -> BOOLEAN]
  /\ Valid \in [Timers -> BOOLEAN] /\ State \in [Timers -> BOOLEAN] /\ Repeat \in [Timers -> BOOLEAN]
  /\ TimerQ \in Seq(Timers) /\ pTimer \in Timers \cup {"none"}
  /\ tpc \in {"run", "add"} => pTimer \in Timers
  /\ upc # "idle" => utimer \in Timers /\ (~Repeat[utimer] \/ State[utimer])
  /\ \A t \in Timers : Repeat[t] => t \in Periodic
  /\ PeriodicAlive

USE TimerAssumption DEF TimerInv, osv, structv, queuev, threadv, cancelv, set

LEMMA TimerUnchanged == TimerInv /\ UNCHANGED timerv => TimerInv'
BY DEF timerv, PeriodicAlive, InHands

LEMMA TimerArmed == ASSUME TimerInv, NEW t \in Timers, t \notin Periodic,
                           RTMPSetTimer(t) \/ RTMPModTimer(t)
                    PROVE  TimerInv'
BY ZenonT(30) DEF RTMPSetTimer, RTMPModTimer, PeriodicAlive, InHands

LEMMA TimerCancelled == ASSUME TimerInv, NEW t \in Timers, CancelTimer(t) PROVE TimerInv'
BY DEF CancelTimer, PeriodicAlive, InHands

LEMMA TimerDeleted == TimerInv /\ (DelTimer \/ DelTimerSync) => TimerInv'
BY DEF DelTimer, DelTimerSync, PeriodicAlive, InHands

LEMMA TimerRemoved == ASSUME TimerInv, NEW b \in BOOLEAN, RtmpTimerQRemove(b) PROVE TimerInv'
<1>1. utimer \in Timers /\ (~Repeat[utimer] \/ State[utimer])
  BY DEF RtmpTimerQRemove
<1>2. /\ TimerQ' \in Seq(Timers)
      /\ \A t \in ToSet(TimerQ) : t # utimer => t \in ToSet(TimerQ')
  BY RemoveFirstKeeps DEF RtmpTimerQRemove
<1> QED BY <1>1, <1>2 DEF RtmpTimerQRemove, PeriodicAlive, InHands

LEMMA TimerExpired == ASSUME TimerInv, NEW t \in Timers, Expire(t) PROVE TimerInv'
BY DEF Expire, PeriodicAlive, InHands

LEMMA TimerQueued == ASSUME TimerInv, NEW t \in Timers, Callback(t) PROVE TimerInv'
<1>1. ToSet(Append(TimerQ, t)) = ToSet(TimerQ) \cup {t}
  BY Ends
<1>2. TimerQ' = Append(TimerQ, t) \/ (TimerQ' = TimerQ /\ (status = "inited" => pending'[t]))
  BY DEF Callback, Insert
<1>3. TimerQ' \in Seq(Timers)
  <2>1. TimerQ \in Seq(Timers)
    OBVIOUS
  <2> QED BY <1>2, <2>1
<1>4. pending' \in [Timers -> BOOLEAN]
  BY DEF Callback, Insert
<1> QED BY <1>1, <1>2, <1>3, <1>4 DEF Callback, Insert, PeriodicAlive, InHands

LEMMA TimerThreadStep == TimerInv /\ (TimerThread \/ Run \/ RtmpTimerQExit) => TimerInv'
<1> SUFFICES ASSUME TimerInv, TimerThread \/ Run \/ RtmpTimerQExit PROVE TimerInv'
  OBVIOUS
<1>1. CASE TimerWait
  BY <1>1 DEF TimerWait, PeriodicAlive, InHands
<1>2. CASE While
  BY <1>2 DEF While, PeriodicAlive, InHands
<1>3. CASE Pop
  <2>1. CASE TimerQ = <<>>
    BY <1>3, <2>1 DEF Pop, PeriodicAlive, InHands
  <2>2. CASE TimerQ # <<>>
    <3>1. /\ pTimer' = Head(TimerQ) /\ TimerQ' = Tail(TimerQ)
          /\ Head(TimerQ) \in Timers /\ TimerQ' \in Seq(Timers)
      <4>1. Head(TimerQ) \in Timers /\ Tail(TimerQ) \in Seq(Timers)
        BY <2>2, HeadTailProperties
      <4> QED BY <1>3, <2>2, <4>1 DEF Pop
    <3>2. \A t \in ToSet(TimerQ) : t # pTimer' => t \in ToSet(TimerQ')
      BY <2>2, <3>1, Ends
    <3>3. tpc = "pop" /\ tpc' = "run"
      BY <1>3, <3>1 DEF Pop
    <3> QED BY <1>3, <3>1, <3>2, <3>3 DEF Pop, PeriodicAlive, InHands
  <2> QED BY <2>1, <2>2
<1>4. CASE AddTimer
  BY <1>4 DEF AddTimer, PeriodicAlive, InHands
<1>5. CASE TimerReturn
  BY <1>5, TimerUnchanged DEF TimerReturn
<1>6. CASE Run
  BY <1>6 DEF Run, PeriodicAlive, InHands
<1>7. CASE RtmpTimerQExit
  BY <1>7 DEF RtmpTimerQExit, PeriodicAlive, InHands
<1> QED BY <1>1, <1>2, <1>3, <1>4, <1>5, <1>6, <1>7 DEF TimerThread

LEMMA TimerStep == TimerInv /\ [Next]_vars => TimerInv'
<1> SUFFICES ASSUME TimerInv, [Next]_vars PROVE TimerInv'
  OBVIOUS
<1>1. ASSUME NEW t \in Timers,
             TimerExpires(t) \/ TimerCallback(t) \/ SetOrModTimer(t) \/ MlmeCancels(t) \/ CloseCancels(t)
      PROVE  TimerInv'
  BY <1>1, TimerExpired, TimerQueued, TimerArmed, TimerCancelled
     DEF TimerExpires, TimerCallback, SetOrModTimer, MlmeCancels, CloseCancels
<1>2. ASSUME NEW c \in Commands, EnqueueCmd(c) PROVE TimerInv'
  BY <1>2, TimerUnchanged DEF EnqueueCmd
<1>3. CASE TimerThread \/ RunHandler \/ TimerQExit
  BY <1>3, TimerThreadStep DEF RunHandler, TimerQExit
<1>4. CASE DelAnyTimer \/ Removed
  BY <1>4, TimerDeleted, TimerRemoved DEF DelAnyTimer, Removed
<1>5. CASE MlmeReturns \/ Commanding \/ Suspend \/ Wakes \/ MlmeHalt
  BY <1>5, TimerUnchanged DEF MlmeReturns, Commanding, Suspend, Wakes, MlmeHalt
<1>6. CASE MlmeKilled \/ CmdStops \/ KillCmd \/ KillTimer \/ HaltCleared \/ Delay \/ Closed
  BY <1>6, TimerUnchanged DEF MlmeKilled, CmdStops, KillCmd, KillTimer, HaltCleared, Delay, Closed
<1>7. CASE UNCHANGED vars
  BY <1>7, TimerUnchanged DEF vars
<1> QED BY <1>1, <1>2, <1>3, <1>4, <1>5, <1>6, <1>7 DEF Next, Threads, CloseSteps

LEMMA TimerStart == ASSUME Init PROVE TimerInv
<1>1. /\ pending = [t \in Timers |-> t \in Periodic] /\ Repeat = pending
      /\ firing = [t \in Timers |-> FALSE] /\ State = firing /\ Valid = [t \in Timers |-> TRUE]
      /\ TimerQ = <<>> /\ tpc = "wait" /\ pTimer = "none" /\ upc = "idle"
  BY DEF Init, TimerInit
<1>2. PeriodicAlive
  BY <1>1 DEF PeriodicAlive
<1>3. pending \in [Timers -> BOOLEAN]
  <2>1. \A t \in Timers : (t \in Periodic) \in BOOLEAN
    OBVIOUS
  <2> QED BY <1>1, <2>1, Zenon
<1>4. /\ firing \in [Timers -> BOOLEAN] /\ Valid \in [Timers -> BOOLEAN]
      /\ TimerQ \in Seq(Timers)
  BY <1>1
<1>5. \A t \in Timers : Repeat[t] => t \in Periodic
  BY <1>1
<1> QED BY <1>1, <1>2, <1>3, <1>4, <1>5

\* A periodic timer that was not cancelled is never lost, for every set of timers
\* and every size of the queue, whatever the order in which timers expire, are
\* set and are cancelled, with a full pool and through suspend and resume.
THEOREM PeriodicLives == Spec => []PeriodicAlive
BY TimerStart, TimerStep, PTL DEF Spec, TimerInv

-----------------------------------------------------------------------------
(* The close.                                                               *)

Unqueued == {"exit", "stop", "cmd", "timer", "delay", "release", "closed"}

\* A thread that has returned has left its queue empty and refuses more, and the
\* close goes on only after a thread has returned.
ThreadsDown ==
  /\ alive \in [Tasks -> BOOLEAN]
  /\ ~alive["timer"] => tpc = "gone"
  /\ ~alive["cmd"] => cpc = "gone"
  /\ cpc = "gone" => cmds = <<>> /\ CmdQState \notin {"inited", "running"}
  /\ closing \notin {"open", "mlme"} => ~alive["mlme"]
  /\ closing \in {"timer", "delay", "release", "closed"} => ~alive["cmd"]
  /\ closing \in {"delay", "release", "closed"} => ~alive["timer"]

\* Nobody cancels a timer but the MLME thread while it lives, and then the close,
\* which has done with it when the timer leaves todo.
UserDown ==
  /\ closing \in {"open", "mlme"} /\ ~alive["mlme"] => upc = "idle"
  /\ closing \in {"halt", "release"} /\ upc # "idle" => utimer \in todo
  /\ closing \in Unqueued \ {"release"} => upc = "idle"
  /\ closing = "closed" => todo = {}

QueueDown == closing \in Unqueued => status = "stoped" /\ TimerQ = <<>>

\* When timers are released nobody is left who would arm one.
TimersDown == closing \in {"release", "closed"} =>
  /\ upc = "remove" => ~pending[utimer]
  /\ \A t \in Timers \ todo : ~pending[t]

CloseInv == TimerInv /\ ThreadsDown /\ UserDown /\ QueueDown /\ TimersDown

USE TasksAssumption DEF taskv, cmdv, adapterv, timerv, closev, Unqueued

LEMMA ThreadsStep == CloseInv /\ [Next]_vars => ThreadsDown'
<1> SUFFICES ASSUME CloseInv, [Next]_vars PROVE ThreadsDown'
  BY DEF CloseInv
<1> USE DEF CloseInv, ThreadsDown, UserDown, QueueDown, TimersDown
<1>1. ASSUME NEW t \in Timers, TimerExpires(t) PROVE ThreadsDown'
  BY <1>1 DEF TimerExpires, Expire
<1>2. ASSUME NEW t \in Timers, TimerCallback(t) PROVE ThreadsDown'
  BY <1>2 DEF TimerCallback, Callback, Insert, WakeUp
<1>3. ASSUME NEW t \in Timers, SetOrModTimer(t) PROVE ThreadsDown'
  BY <1>3 DEF SetOrModTimer, RTMPSetTimer, RTMPModTimer
<1>4. ASSUME NEW t \in Timers, MlmeCancels(t) \/ CloseCancels(t) PROVE ThreadsDown'
  BY <1>4 DEF MlmeCancels, CloseCancels, CancelTimer
<1>5. ASSUME NEW c \in Commands, EnqueueCmd(c) PROVE ThreadsDown'
  BY <1>5 DEF EnqueueCmd, RTEnqueueInternalCmd, WakeUp
<1>6. CASE TimerThread /\ UNCHANGED <<cmdv, closev>>
  BY <1>6 DEF TimerThread, TimerWait, While, Pop, AddTimer, TimerReturn, WaitReturns, Return
<1>7. CASE RunHandler
  BY <1>7 DEF RunHandler, Run, RTEnqueueInternalCmd, WakeUp
<1>8. CASE MlmeReturns
  BY <1>8 DEF MlmeReturns, Return
<1>9. CASE DelAnyTimer
  BY <1>9 DEF DelAnyTimer, DelTimer, DelTimerSync
<1>10. CASE Removed
  BY <1>10 DEF Removed, RtmpTimerQRemove
<1>11. CASE Commanding
  BY <1>11 DEF Commanding, CmdThread, CmdStart, CmdWait, CMDHandler, CmdBegins, CmdRefused,
              Execute, Freed, CmdClear, CmdReturn, Return, WaitReturns, Again
<1>12. CASE Suspend \/ Wakes \/ MlmeHalt
  BY <1>12 DEF Suspend, Wakes, PMSuspend, SuspendHalts, PMResume, ResumeGoesOn, Power, MlmeHalt, To, Kill
<1>13. CASE MlmeKilled
  BY <1>13 DEF MlmeKilled, KillReturn, To
<1>14. CASE TimerQExit \/ CmdStops \/ KillCmd
  BY <1>14 DEF TimerQExit, RtmpTimerQExit, CmdStops, CmdSetState, KillCmd, Kill, To
<1>15. CASE KillTimer \/ HaltCleared
  BY <1>15 DEF KillTimer, HaltCleared, KillReturn, Kill, CmdSetState, To
<1>16. CASE Delay \/ Closed
  BY <1>16 DEF Delay, Closed, To
<1>17. CASE UNCHANGED vars
  BY <1>17 DEF vars
<1> QED BY <1>1, <1>2, <1>3, <1>4, <1>5, <1>6, <1>7, <1>8, <1>9, <1>10, <1>11, <1>12, <1>13, <1>14, <1>15, <1>16, <1>17 DEF Next, Threads, CloseSteps

LEMMA UserStep == CloseInv /\ [Next]_vars => UserDown'
<1> SUFFICES ASSUME CloseInv, [Next]_vars PROVE UserDown'
  BY DEF CloseInv
<1> USE DEF CloseInv, ThreadsDown, UserDown, QueueDown, TimersDown
<1>1. ASSUME NEW t \in Timers, TimerExpires(t) PROVE UserDown'
  BY <1>1 DEF TimerExpires, Expire
<1>2. ASSUME NEW t \in Timers, TimerCallback(t) PROVE UserDown'
  BY <1>2 DEF TimerCallback, Callback, Insert, WakeUp
<1>3. ASSUME NEW t \in Timers, SetOrModTimer(t) PROVE UserDown'
  BY <1>3 DEF SetOrModTimer, RTMPSetTimer, RTMPModTimer
<1>4. ASSUME NEW t \in Timers, MlmeCancels(t) \/ CloseCancels(t) PROVE UserDown'
  BY <1>4 DEF MlmeCancels, CloseCancels, CancelTimer
<1>5. ASSUME NEW c \in Commands, EnqueueCmd(c) PROVE UserDown'
  BY <1>5 DEF EnqueueCmd, RTEnqueueInternalCmd, WakeUp
<1>6. CASE TimerThread /\ UNCHANGED <<cmdv, closev>>
  BY <1>6 DEF TimerThread, TimerWait, While, Pop, AddTimer, TimerReturn, WaitReturns, Return
<1>7. CASE RunHandler
  BY <1>7 DEF RunHandler, Run, RTEnqueueInternalCmd, WakeUp
<1>8. CASE MlmeReturns
  BY <1>8 DEF MlmeReturns, Return
<1>9. CASE DelAnyTimer
  BY <1>9 DEF DelAnyTimer, DelTimer, DelTimerSync
<1>10. CASE Removed
  BY <1>10 DEF Removed, RtmpTimerQRemove
<1>11. CASE Commanding
  BY <1>11 DEF Commanding, CmdThread, CmdStart, CmdWait, CMDHandler, CmdBegins, CmdRefused,
              Execute, Freed, CmdClear, CmdReturn, Return, WaitReturns, Again
<1>12. CASE Suspend \/ Wakes \/ MlmeHalt
  BY <1>12 DEF Suspend, Wakes, PMSuspend, SuspendHalts, PMResume, ResumeGoesOn, Power, MlmeHalt, To, Kill
<1>13. CASE MlmeKilled
  BY <1>13 DEF MlmeKilled, KillReturn, To
<1>14. CASE TimerQExit \/ CmdStops \/ KillCmd
  BY <1>14 DEF TimerQExit, RtmpTimerQExit, CmdStops, CmdSetState, KillCmd, Kill, To
<1>15. CASE KillTimer \/ HaltCleared
  BY <1>15 DEF KillTimer, HaltCleared, KillReturn, Kill, CmdSetState, To
<1>16. CASE Delay \/ Closed
  BY <1>16 DEF Delay, Closed, To
<1>17. CASE UNCHANGED vars
  BY <1>17 DEF vars
<1> QED BY <1>1, <1>2, <1>3, <1>4, <1>5, <1>6, <1>7, <1>8, <1>9, <1>10, <1>11, <1>12, <1>13, <1>14, <1>15, <1>16, <1>17 DEF Next, Threads, CloseSteps

LEMMA QueueStep == CloseInv /\ [Next]_vars => QueueDown'
<1> SUFFICES ASSUME CloseInv, [Next]_vars PROVE QueueDown'
  BY DEF CloseInv
<1> USE DEF CloseInv, ThreadsDown, UserDown, QueueDown, TimersDown
<1>1. ASSUME NEW t \in Timers, TimerExpires(t) PROVE QueueDown'
  BY <1>1 DEF TimerExpires, Expire
<1>2. ASSUME NEW t \in Timers, TimerCallback(t) PROVE QueueDown'
  BY <1>2 DEF TimerCallback, Callback, Insert, WakeUp
<1>3. ASSUME NEW t \in Timers, SetOrModTimer(t) PROVE QueueDown'
  BY <1>3 DEF SetOrModTimer, RTMPSetTimer, RTMPModTimer
<1>4. ASSUME NEW t \in Timers, MlmeCancels(t) \/ CloseCancels(t) PROVE QueueDown'
  BY <1>4 DEF MlmeCancels, CloseCancels, CancelTimer
<1>5. ASSUME NEW c \in Commands, EnqueueCmd(c) PROVE QueueDown'
  BY <1>5 DEF EnqueueCmd, RTEnqueueInternalCmd, WakeUp
<1>6. CASE TimerThread /\ UNCHANGED <<cmdv, closev>>
  BY <1>6 DEF TimerThread, TimerWait, While, Pop, AddTimer, TimerReturn, WaitReturns, Return
<1>7. CASE RunHandler
  BY <1>7 DEF RunHandler, Run, RTEnqueueInternalCmd, WakeUp
<1>8. CASE MlmeReturns
  BY <1>8 DEF MlmeReturns, Return
<1>9. CASE DelAnyTimer
  BY <1>9 DEF DelAnyTimer, DelTimer, DelTimerSync
<1>10. CASE Removed
  <2>1. closing \in Unqueued => TimerQ' = <<>>
    BY <1>10 DEF Removed, RtmpTimerQRemove, RemoveFirst
  <2> QED BY <1>10, <2>1 DEF Removed, RtmpTimerQRemove
<1>11. CASE Commanding
  BY <1>11 DEF Commanding, CmdThread, CmdStart, CmdWait, CMDHandler, CmdBegins, CmdRefused,
              Execute, Freed, CmdClear, CmdReturn, Return, WaitReturns, Again
<1>12. CASE Suspend \/ Wakes \/ MlmeHalt
  BY <1>12 DEF Suspend, Wakes, PMSuspend, SuspendHalts, PMResume, ResumeGoesOn, Power, MlmeHalt, To, Kill
<1>13. CASE MlmeKilled
  BY <1>13 DEF MlmeKilled, KillReturn, To
<1>14. CASE TimerQExit \/ CmdStops \/ KillCmd
  BY <1>14 DEF TimerQExit, RtmpTimerQExit, CmdStops, CmdSetState, KillCmd, Kill, To
<1>15. CASE KillTimer \/ HaltCleared
  BY <1>15 DEF KillTimer, HaltCleared, KillReturn, Kill, CmdSetState, To
<1>16. CASE Delay \/ Closed
  BY <1>16 DEF Delay, Closed, To
<1>17. CASE UNCHANGED vars
  BY <1>17 DEF vars
<1> QED BY <1>1, <1>2, <1>3, <1>4, <1>5, <1>6, <1>7, <1>8, <1>9, <1>10, <1>11, <1>12, <1>13, <1>14, <1>15, <1>16, <1>17 DEF Next, Threads, CloseSteps

LEMMA TimersStep == CloseInv /\ [Next]_vars => TimersDown'
<1> SUFFICES ASSUME CloseInv, [Next]_vars PROVE TimersDown'
  BY DEF CloseInv
<1> USE DEF CloseInv, ThreadsDown, UserDown, QueueDown, TimersDown
<1>1. ASSUME NEW t \in Timers, TimerExpires(t) PROVE TimersDown'
  BY <1>1 DEF TimerExpires, Expire
<1>2. ASSUME NEW t \in Timers, TimerCallback(t) PROVE TimersDown'
  BY <1>2 DEF TimerCallback, Callback, Insert, WakeUp
<1>3. ASSUME NEW t \in Timers, SetOrModTimer(t) PROVE TimersDown'
  BY <1>3 DEF SetOrModTimer, RTMPSetTimer, RTMPModTimer
<1>4. ASSUME NEW t \in Timers, MlmeCancels(t) \/ CloseCancels(t) PROVE TimersDown'
  BY <1>4 DEF MlmeCancels, CloseCancels, CancelTimer
<1>5. ASSUME NEW c \in Commands, EnqueueCmd(c) PROVE TimersDown'
  BY <1>5 DEF EnqueueCmd, RTEnqueueInternalCmd, WakeUp
<1>6. CASE TimerThread /\ UNCHANGED <<cmdv, closev>>
  BY <1>6 DEF TimerThread, TimerWait, While, Pop, AddTimer, TimerReturn, WaitReturns, Return
<1>7. CASE RunHandler
  BY <1>7 DEF RunHandler, Run, RTEnqueueInternalCmd, WakeUp
<1>8. CASE MlmeReturns
  BY <1>8 DEF MlmeReturns, Return
<1>9. CASE DelAnyTimer
  BY <1>9 DEF DelAnyTimer, DelTimer, DelTimerSync
<1>10. CASE Removed
  BY <1>10 DEF Removed, RtmpTimerQRemove
<1>11. CASE Commanding
  BY <1>11 DEF Commanding, CmdThread, CmdStart, CmdWait, CMDHandler, CmdBegins, CmdRefused,
              Execute, Freed, CmdClear, CmdReturn, Return, WaitReturns, Again
<1>12. CASE Suspend \/ Wakes \/ MlmeHalt
  BY <1>12 DEF Suspend, Wakes, PMSuspend, SuspendHalts, PMResume, ResumeGoesOn, Power, MlmeHalt, To, Kill
<1>13. CASE MlmeKilled
  BY <1>13 DEF MlmeKilled, KillReturn, To
<1>14. CASE TimerQExit \/ CmdStops \/ KillCmd
  BY <1>14 DEF TimerQExit, RtmpTimerQExit, CmdStops, CmdSetState, KillCmd, Kill, To
<1>15. CASE KillTimer \/ HaltCleared
  BY <1>15 DEF KillTimer, HaltCleared, KillReturn, Kill, CmdSetState, To
<1>16. CASE Delay \/ Closed
  BY <1>16 DEF Delay, Closed, To
<1>17. CASE UNCHANGED vars
  BY <1>17 DEF vars
<1> QED BY <1>1, <1>2, <1>3, <1>4, <1>5, <1>6, <1>7, <1>8, <1>9, <1>10, <1>11, <1>12, <1>13, <1>14, <1>15, <1>16, <1>17 DEF Next, Threads, CloseSteps

LEMMA CloseStep == CloseInv /\ [Next]_vars => CloseInv'
BY TimerStep, ThreadsStep, UserStep, QueueStep, TimersStep DEF CloseInv

\* When the interface is closed no thread, no armed timer, no entry and no command
\* is left that would touch the adapter when it is freed, for every set of timers.
THEOREM NothingLeft == Spec => []Quiet
<1>1. ASSUME Init PROVE CloseInv
  <2>1. /\ alive = [t \in Tasks |-> TRUE] /\ tpc = "wait" /\ upc = "idle"
        /\ cpc = "start" /\ closing = "open"
    BY <1>1 DEF Init, TimerInit, CmdInit, TaskInit
  <2> QED BY <1>1, <2>1, TimerStart
          DEF CloseInv, ThreadsDown, UserDown, QueueDown, TimersDown
<1>2. CloseInv => Quiet
  BY DEF CloseInv, TimerInv, ThreadsDown, UserDown, QueueDown, TimersDown, Quiet
<1> QED BY <1>1, <1>2, CloseStep, PTL DEF Spec

-----------------------------------------------------------------------------
(* Commands.                                                                *)

\* The thread has a command in its hands from when it takes it to when it frees it.
CmdInv == /\ cmds \in Seq(Commands)
          /\ cpc \in {"taken", "exec"} => cmd \in Commands
          /\ cpc \notin {"taken", "exec"} => cmd = "none"

CmdBox   == <<CmdWaiting, CmdWorking, cpc # "gone">>
Contract == CmdPromise!Next \/ UNCHANGED CmdBox

USE CommandsAssumption, TasksAssumption DEF CmdInv, Contract, CmdBox, cmdv, taskv, adapterv

\* the command that was taken is the oldest one of those that wait
LEMMA TakenFirst ==
  ASSUME CmdInv, cpc = "taken"
  PROVE  /\ CmdWaiting # <<>> /\ Head(CmdWaiting) = cmd /\ Tail(CmdWaiting) = cmds
         /\ CmdWorking = "none"
BY DEF CmdWaiting, CmdWorking

\* a command that is queued: accepted at the end of the queue, or refused
LEMMA Enqueued ==
  ASSUME CmdInv, NEW c \in Commands, RTEnqueueInternalCmd(c)
  PROVE  CmdInv' /\ Contract
<1>1. CASE CmdQState \in {"inited", "running"}
  <2>1. cmds' = Append(cmds, c) /\ UNCHANGED <<cpc, cmd>>
    BY <1>1 DEF RTEnqueueInternalCmd
  <2>2. CmdWaiting' = Append(CmdWaiting, c)
    <3>1. CASE cpc = "taken"
      <4>1. <<cmd>> \o Append(cmds, c) = Append(<<cmd>> \o cmds, c)
        BY <3>1
      <4> QED BY <2>1, <3>1, <4>1 DEF CmdWaiting
    <3> QED BY <2>1, <3>1 DEF CmdWaiting
  <2>3. CmdPromise!Post(c)
    BY <2>1, <2>2 DEF CmdPromise!Post, CmdWorking
  <2> QED BY <2>1, <2>3 DEF CmdPromise!Next
<1>2. CASE CmdQState \notin {"inited", "running"}
  BY <1>2 DEF RTEnqueueInternalCmd, CmdWaiting, CmdWorking
<1> QED BY <1>1, <1>2

\* a step of the command thread
LEMMA ThreadStep == CmdInv /\ CmdThread => CmdInv' /\ Contract
<1> SUFFICES ASSUME CmdInv, CmdThread PROVE CmdInv' /\ Contract
  OBVIOUS
<1>1. CASE CmdStart
  BY <1>1 DEF CmdStart, CmdWaiting, CmdWorking
<1>2. CASE CmdWait
  BY <1>2 DEF CmdWait, Again, CmdWaiting, CmdWorking
<1>3. CASE CMDHandler
  <2>1. CASE cmds = <<>>
    BY <1>3, <2>1 DEF CMDHandler, Again, CmdWaiting, CmdWorking
  <2>2. CASE cmds # <<>>
    <3>1. cpc = "handle" /\ cpc' = "taken" /\ cmd' = Head(cmds) /\ cmds' = Tail(cmds)
      BY <1>3, <2>2 DEF CMDHandler
    <3>2. Head(cmds) \in Commands /\ Tail(cmds) \in Seq(Commands)
      BY <2>2
    <3>3. cmds = <<Head(cmds)>> \o Tail(cmds)
      BY <2>2
    <3>4. CmdWaiting' = CmdWaiting /\ CmdWorking' = CmdWorking
      BY <3>1, <3>3 DEF CmdWaiting, CmdWorking
    <3> QED BY <3>1, <3>2, <3>4
  <2> QED BY <2>1, <2>2
<1>4. CASE CmdBegins
  <2>1. cpc = "taken" /\ cpc' = "exec" /\ UNCHANGED <<cmds, cmd>>
    BY <1>4 DEF CmdBegins
  <2>2. CmdPromise!Take
    BY <2>1, TakenFirst DEF CmdPromise!Take, CmdWaiting, CmdWorking
  <2> QED BY <2>1, <2>2 DEF CmdPromise!Next
<1>5. CASE CmdRefused
  <2>1. halt /\ cpc = "taken" /\ cpc' = "handle" /\ cmd' = "none" /\ cmds' = cmds
    BY <1>5 DEF CmdRefused, Freed
  <2>2. CmdPromise!Refuse
    BY <2>1, TakenFirst DEF CmdPromise!Refuse, CmdWaiting, CmdWorking
  <2> QED BY <2>1, <2>2 DEF CmdPromise!Next
<1>6. CASE Execute
  <2>1. cpc = "exec" /\ cpc' = "handle" /\ cmd' = "none" /\ cmds' = cmds
    BY <1>6 DEF Execute, Freed
  <2>2. CmdPromise!Finish
    BY <2>1 DEF CmdPromise!Finish, CmdWaiting, CmdWorking
  <2> QED BY <2>1, <2>2 DEF CmdPromise!Next
<1>7. CASE CmdClear
  <2>1. CmdPromise!Destroy
    BY <1>7 DEF CmdClear, CmdPromise!Destroy, CmdWaiting, CmdWorking
  <2> QED BY <1>7, <2>1 DEF CmdClear, CmdPromise!Next
<1>8. CASE CmdReturn
  BY <1>8 DEF CmdReturn, CmdWaiting, CmdWorking
<1> QED BY <1>1, <1>2, <1>3, <1>4, <1>5, <1>6, <1>7, <1>8 DEF CmdThread

\* what leaves the command queue and its thread alone, but for CmdQState
LEMMA Elsewhere ==
  CmdInv /\ UNCHANGED <<cmds, cpc, cmd>> => CmdInv' /\ Contract
BY DEF CmdWaiting, CmdWorking

LEMMA CmdStep == CmdInv /\ [Next]_vars => CmdInv' /\ Contract
<1> SUFFICES ASSUME CmdInv, [Next]_vars PROVE CmdInv' /\ Contract
  OBVIOUS
<1>1. CASE RunHandler
  <2>1. RTEnqueueInternalCmd("tick") \/ UNCHANGED cmdv
    BY <1>1 DEF RunHandler
  <2> QED BY <2>1, Enqueued, Elsewhere
<1>2. ASSUME NEW c \in Commands, EnqueueCmd(c) PROVE CmdInv' /\ Contract
  BY <1>2, Enqueued DEF EnqueueCmd
<1>3. CASE Commanding
  BY <1>3, ThreadStep DEF Commanding
<1>4. ASSUME NEW t \in Timers,
             TimerExpires(t) \/ TimerCallback(t) \/ SetOrModTimer(t) \/ MlmeCancels(t)
      PROVE  UNCHANGED cmdv
  BY <1>4 DEF TimerExpires, TimerCallback, SetOrModTimer, MlmeCancels
<1>5. CASE (TimerThread /\ UNCHANGED <<cmdv, closev>>) \/ MlmeReturns \/ DelAnyTimer \/ Removed
  BY <1>5, Elsewhere DEF MlmeReturns, DelAnyTimer, Removed
<1>6. CASE Suspend \/ Wakes \/ MlmeHalt
  BY <1>6, Elsewhere DEF Suspend, Wakes, MlmeHalt
<1>7. CASE CloseSteps
  BY <1>7, Elsewhere DEF CloseSteps, MlmeKilled, CloseCancels, TimerQExit, CmdStops,
     KillCmd, KillTimer, HaltCleared, Delay, Closed, CmdSetState
<1>8. CASE UNCHANGED vars
  BY <1>8, Elsewhere DEF vars
<1> QED BY <1>1, <1>2, <1>3, <1>4, <1>5, <1>6, <1>7, <1>8, Elsewhere DEF Next, Threads

\* RTEnqueueInternalCmd, CMDHandler and RTUSBCmdThread implement the mailbox: the
\* handlers of the accepted commands begin once each and in order, but for those
\* whose turn comes under HALT_IN_PROGRESS, and those that wait when the thread
\* ends, which are freed unexecuted, whatever the timers, the suspend and the close
\* do in between.
THEOREM CommandsDelivered == Spec => CommandsInOrder
<1>1. Init => CmdInv /\ CmdPromise!Init
  BY DEF Init, CmdInit, CmdPromise!Init, CmdWaiting, CmdWorking
<1>2. CmdInv /\ [Next]_vars
      => CmdInv' /\ [CmdPromise!Next]_<<CmdWaiting, CmdWorking, cpc # "gone">>
  BY CmdStep
<1> QED BY <1>1, <1>2, PTL DEF Spec, CommandsInOrder, CmdPromise!Spec

-----------------------------------------------------------------------------
(* Types, and the size of the timer queue.                                  *)

LEMMA TimerTypes ==
  ASSUME TimerInv, TimerTypeOK,
         \/ UNCHANGED timerv \/ DelTimer \/ DelTimerSync \/ RtmpTimerQRemove(TRUE)
         \/ RtmpTimerQRemove(FALSE) \/ TimerThread \/ Run \/ RtmpTimerQExit
         \/ \E t \in Timers : RTMPSetTimer(t) \/ RTMPModTimer(t) \/ CancelTimer(t)
                                \/ Expire(t) \/ Callback(t)
  PROVE  TimerInv' => TimerTypeOK'
<1> SUFFICES ASSUME TimerInv' PROVE TimerTypeOK'
  OBVIOUS
<1> DEFINE Places == /\ status \in {"inited", "stoped"}
                     /\ tpc \in {"wait", "while", "pop", "run", "add", "gone"}
                     /\ upc \in {"idle", "delete", "sync", "remove"}
                     /\ utimer \in Timers \cup {"none"} /\ ucancelled \in BOOLEAN
<1>0. Places /\ TimerQ \in Seq(Timers) /\ Len(TimerQ) \in Nat /\ Len(TimerQ) <= Pool
  BY DEF TimerTypeOK
<1>1. Places' /\ Len(TimerQ') <= Pool
  <2>1. CASE UNCHANGED timerv
    BY <1>0, <2>1 DEF timerv
  <2>2. CASE DelTimer \/ DelTimerSync
    BY <1>0, <2>2 DEF DelTimer, DelTimerSync
  <2>3. ASSUME NEW b \in BOOLEAN, RtmpTimerQRemove(b) PROVE Places' /\ Len(TimerQ') <= Pool
    <3>1. TimerQ' = RemoveFirst(TimerQ, utimer) /\ Places'
      BY <1>0, <2>3 DEF RtmpTimerQRemove
    <3>2. Len(TimerQ') <= Len(TimerQ) /\ Len(TimerQ') \in Nat
      BY <3>1, RemoveFirstKeeps, LenProperties
    <3> QED BY <1>0, <3>1, <3>2
  <2>4. CASE TimerThread
    <3>1. Places'
      BY <1>0, <2>4 DEF TimerThread, TimerWait, While, Pop, AddTimer, TimerReturn, timerv
    <3>2. TimerQ' = TimerQ \/ (TimerQ # <<>> /\ TimerQ' = Tail(TimerQ))
      BY <2>4 DEF TimerThread, TimerWait, While, Pop, AddTimer, TimerReturn, timerv
    <3>3. TimerQ # <<>> => Len(Tail(TimerQ)) = Len(TimerQ) - 1
      BY HeadTailProperties
    <3> QED BY <1>0, <3>1, <3>2, <3>3
  <2>5. CASE Run \/ RtmpTimerQExit
    BY <1>0, <2>5 DEF Run, RtmpTimerQExit
  <2>6. ASSUME NEW t \in Timers, RTMPSetTimer(t) \/ RTMPModTimer(t) \/ CancelTimer(t) \/ Expire(t)
        PROVE  Places' /\ Len(TimerQ') <= Pool
    BY <1>0, <2>6 DEF RTMPSetTimer, RTMPModTimer, CancelTimer, Expire
  <2>7. ASSUME NEW t \in Timers, Callback(t) PROVE Places' /\ Len(TimerQ') <= Pool
    <3>1. Places'
      BY <1>0, <2>7 DEF Callback, Insert
    <3>2. TimerQ' = TimerQ \/ (Len(TimerQ) < Pool /\ TimerQ' = Append(TimerQ, t))
      BY <2>7 DEF Callback, Insert
    <3>3. Len(Append(TimerQ, t)) = Len(TimerQ) + 1
      OBVIOUS
    <3> QED BY <1>0, <3>1, <3>2, <3>3
  <2> QED BY <2>1, <2>2, <2>3, <2>4, <2>5, <2>6, <2>7
<1>2. \A f \in {pending, firing, Valid, State, Repeat}' : f \in [Timers -> BOOLEAN]
  OBVIOUS
<1> QED BY <1>1, <1>2 DEF TimerTypeOK

LEMMA CmdTypes ==
  ASSUME CmdTypeOK,
         \/ UNCHANGED cmdv \/ CmdThread \/ CmdSetState("stoped") \/ CmdSetState("unknown")
         \/ \E c \in Commands : RTEnqueueInternalCmd(c)
  PROVE  CmdTypeOK'
<1> USE DEF cmdv, CmdTypeOK
<1>1. CASE UNCHANGED cmdv \/ CmdSetState("stoped") \/ CmdSetState("unknown")
  BY <1>1 DEF CmdSetState
<1>2. CASE CMDHandler
  <2>1. cmds # <<>> => Head(cmds) \in Commands /\ Tail(cmds) \in Seq(Commands)
    BY HeadTailProperties
  <2> QED BY <1>2, <2>1 DEF CMDHandler, Again
<1>3. CASE CmdStart \/ CmdWait \/ CmdBegins \/ CmdRefused \/ Execute \/ CmdClear \/ CmdReturn
  <2>1. CASE CmdWait
    <3>1. cpc' \in {"clear", "wait", "handle"}
      BY <2>1 DEF CmdWait, Again
    <3> QED BY <2>1, <3>1 DEF CmdWait
  <2>2. CASE CmdClear
    BY <2>2, EmptySeq DEF CmdClear
  <2> QED BY <1>3, <2>1, <2>2 DEF CmdStart, CmdBegins, CmdRefused, Execute, Freed, CmdReturn
<1>4. ASSUME NEW c \in Commands, RTEnqueueInternalCmd(c) PROVE CmdTypeOK'
  <2>1. Append(cmds, c) \in Seq(Commands)
    OBVIOUS
  <2> QED BY <1>4, <2>1 DEF RTEnqueueInternalCmd
<1> QED BY <1>1, <1>2, <1>3, <1>4 DEF CmdThread

\* what the tasks and the adapter may do in a step
TaskMoves ==
  \/ UNCHANGED taskv
  \/ \E t \in Tasks : WakeUp(t) \/ Kill(t) \/ Return(t) \/ WaitReturns(t, TRUE) \/ WaitReturns(t, FALSE)

LEMMA TaskTypes == TaskTypeOK /\ TaskMoves => TaskTypeOK'
BY DEF TaskTypeOK, TaskMoves, taskv, WakeUp, Kill, Return, WaitReturns

LEMMA NextTasks == ASSUME Next PROVE TaskMoves
<1> USE TasksAssumption DEF TaskMoves
<1>1. ASSUME NEW t \in Timers, TimerExpires(t) \/ TimerCallback(t) \/ SetOrModTimer(t)
                               \/ MlmeCancels(t) \/ CloseCancels(t)
      PROVE  TaskMoves
  BY <1>1 DEF TimerExpires, Expire, TimerCallback, Callback, Insert, SetOrModTimer, MlmeCancels, CloseCancels
<1>2. ASSUME NEW c \in Commands, EnqueueCmd(c) \/ RTEnqueueInternalCmd(c) PROVE TaskMoves
  BY <1>2 DEF EnqueueCmd, RTEnqueueInternalCmd
<1>3. CASE TimerThread
  BY <1>3 DEF TimerThread, TimerWait, While, Pop, AddTimer, TimerReturn
<1>4. CASE RunHandler
  BY <1>2, <1>4 DEF RunHandler
<1>5. CASE CmdThread
  BY <1>5 DEF CmdThread, CmdStart, CmdWait, CMDHandler, CmdBegins, CmdRefused,
              Execute, Freed, CmdClear, CmdReturn
<1>6. CASE MlmeReturns \/ DelAnyTimer \/ Removed \/ Suspend \/ Wakes \/ MlmeHalt
  BY <1>6 DEF MlmeReturns, DelAnyTimer, Removed, Suspend, Wakes, MlmeHalt
<1>7. CASE MlmeKilled \/ TimerQExit \/ CmdStops \/ KillCmd \/ KillTimer \/ HaltCleared \/ Delay \/ Closed
  BY <1>7 DEF MlmeKilled, TimerQExit, CmdStops, KillCmd, KillTimer, HaltCleared, Delay, Closed
<1>8. CASE UNCHANGED vars
  BY <1>8 DEF vars
<1> QED BY <1>1, <1>2, <1>3, <1>4, <1>5, <1>6, <1>7, <1>8
        DEF Next, Threads, Commanding, CloseSteps

LEMMA NextPower == ASSUME AdapterTypeOK, Next PROVE AdapterTypeOK'
<1> USE DEF AdapterTypeOK, adapterv
<1>1. ASSUME NEW t \in Timers, TimerExpires(t) \/ TimerCallback(t) \/ SetOrModTimer(t)
                               \/ MlmeCancels(t) \/ CloseCancels(t)
      PROVE  AdapterTypeOK'
  BY <1>1 DEF TimerExpires, TimerCallback, SetOrModTimer, MlmeCancels, CloseCancels
<1>2. ASSUME NEW c \in Commands, EnqueueCmd(c) PROVE AdapterTypeOK'
  BY <1>2 DEF EnqueueCmd
<1>3. CASE TimerThread
  BY <1>3 DEF TimerThread, TimerWait, While, Pop, AddTimer, TimerReturn
<1>4. CASE RunHandler
  BY <1>4 DEF RunHandler, Run
<1>5. CASE CmdThread
  BY <1>5 DEF CmdThread, CmdStart, CmdWait, CMDHandler, CmdBegins, CmdRefused,
              Execute, Freed, CmdClear, CmdReturn
<1>6. CASE MlmeReturns \/ DelAnyTimer \/ Removed \/ MlmeHalt
  BY <1>6 DEF MlmeReturns, DelAnyTimer, Removed, MlmeHalt
<1>7. CASE Suspend \/ Wakes
  BY <1>7 DEF Suspend, Wakes, PMSuspend, SuspendHalts, PMResume, ResumeGoesOn, Power
<1>8. CASE MlmeKilled \/ TimerQExit \/ CmdStops \/ KillCmd \/ KillTimer \/ HaltCleared \/ Delay \/ Closed
  BY <1>8 DEF MlmeKilled, TimerQExit, CmdStops, KillCmd, KillTimer, HaltCleared, Delay, Closed
<1>9. CASE UNCHANGED vars
  BY <1>9 DEF vars
<1> QED BY <1>1, <1>2, <1>3, <1>4, <1>5, <1>6, <1>7, <1>8, <1>9
        DEF Next, Threads, Commanding, CloseSteps

LEMMA NextClose ==
  ASSUME closing \in {"open", "mlme", "halt", "exit", "stop", "cmd", "timer",
                      "delay", "release", "closed"},
         todo \subseteq Timers, Next
  PROVE  /\ closing' \in {"open", "mlme", "halt", "exit", "stop", "cmd", "timer",
                          "delay", "release", "closed"}
         /\ todo' \subseteq Timers /\ load' = load
<1> DEFINE Good == /\ closing' \in {"open", "mlme", "halt", "exit", "stop", "cmd", "timer",
                                    "delay", "release", "closed"}
                   /\ todo' \subseteq Timers /\ load' = load
<1> USE TimerAssumption DEF closev, To
<1>1. ASSUME NEW t \in Timers, TimerExpires(t) \/ TimerCallback(t) \/ SetOrModTimer(t)
                               \/ MlmeCancels(t) \/ CloseCancels(t)
      PROVE  Good
  BY <1>1 DEF TimerExpires, TimerCallback, SetOrModTimer, MlmeCancels, CloseCancels
<1>2. ASSUME NEW c \in Commands, EnqueueCmd(c) PROVE Good
  BY <1>2 DEF EnqueueCmd
<1>3. CASE (TimerThread /\ UNCHANGED <<cmdv, closev>>) \/ RunHandler \/ Commanding
  BY <1>3 DEF RunHandler, Commanding
<1>4. CASE MlmeReturns \/ DelAnyTimer \/ Removed \/ MlmeHalt \/ Suspend \/ Wakes
  BY <1>4 DEF MlmeReturns, DelAnyTimer, Removed, MlmeHalt, Suspend, Wakes
<1>5. CASE MlmeKilled \/ TimerQExit \/ CmdStops \/ KillCmd \/ KillTimer \/ HaltCleared \/ Delay \/ Closed
  BY <1>5 DEF MlmeKilled, TimerQExit, CmdStops, KillCmd, KillTimer, HaltCleared, Delay, Closed
<1>6. CASE UNCHANGED vars
  BY <1>6 DEF vars
<1> QED BY <1>1, <1>2, <1>3, <1>4, <1>5, <1>6 DEF Next, Threads, CloseSteps

LEMMA TypeStep == TimerInv /\ TypeOK /\ [Next]_vars => TypeOK'
<1> SUFFICES ASSUME TimerInv, TypeOK, [Next]_vars PROVE TypeOK'
  OBVIOUS
<1>0. TimerInv'
  BY TimerStep
<1>1. CASE UNCHANGED vars
  <2>1. TimerTypeOK'
    BY <1>0, <1>1, TimerTypes DEF TypeOK, vars
  <2> QED BY <1>1, <2>1 DEF TypeOK, vars, cmdv, closev, adapterv, taskv, CmdTypeOK,
                            AdapterTypeOK, TaskTypeOK
<1>2. CASE Next
  <2>1. TaskTypeOK' /\ AdapterTypeOK'
    BY <1>2, NextTasks, NextPower, TaskTypes DEF TypeOK
  <2>2. TimerTypeOK'
    <3>1. ASSUME NEW t \in Timers, TimerExpires(t) \/ TimerCallback(t) \/ SetOrModTimer(t)
                                   \/ MlmeCancels(t) \/ CloseCancels(t)
          PROVE  TimerTypeOK'
      BY <1>0, <3>1, TimerTypes
         DEF TypeOK, TimerExpires, TimerCallback, SetOrModTimer, MlmeCancels, CloseCancels
    <3>2. CASE TimerThread \/ RunHandler \/ TimerQExit \/ DelAnyTimer
      BY <1>0, <3>2, TimerTypes DEF TypeOK, RunHandler, TimerQExit, DelAnyTimer
    <3>3. CASE Removed
      <4>1. RtmpTimerQRemove(TRUE) \/ RtmpTimerQRemove(FALSE)
        BY <3>3 DEF Removed
      <4> QED BY <1>0, <4>1, TimerTypes DEF TypeOK
    <3>4. ASSUME UNCHANGED timerv PROVE TimerTypeOK'
      BY <1>0, <3>4, TimerTypes DEF TypeOK
    <3> QED BY <1>2, <3>1, <3>2, <3>3, <3>4
            DEF Next, Threads, Commanding, CloseSteps, EnqueueCmd, MlmeReturns, Suspend, Wakes,
                MlmeHalt, MlmeKilled, CmdStops, KillCmd, KillTimer, HaltCleared, Delay, Closed, vars
  <2>3. CmdTypeOK'
    <3>1. \/ UNCHANGED cmdv \/ CmdThread \/ CmdSetState("stoped") \/ CmdSetState("unknown")
          \/ \E c \in Commands : RTEnqueueInternalCmd(c)
      BY <1>2, TasksAssumption
         DEF Next, Threads, Commanding, CloseSteps, EnqueueCmd, MlmeReturns, Suspend, Wakes,
             MlmeHalt, MlmeKilled, CmdStops, KillCmd, KillTimer, HaltCleared, Delay, Closed, vars,
             TimerExpires, TimerCallback, SetOrModTimer, MlmeCancels, CloseCancels, RunHandler,
             TimerQExit, DelAnyTimer, Removed
    <3> QED BY <3>1, CmdTypes DEF TypeOK
  <2> QED BY <1>2, <2>1, <2>2, <2>3, NextClose DEF TypeOK
<1> QED BY <1>1, <1>2

LEMMA TypeStart == Init => TypeOK
<1> SUFFICES ASSUME Init PROVE TypeOK
  OBVIOUS
<1>1. TimerTypeOK
  <2>1. Len(TimerQ) <= Pool
    BY EmptySeq, TimerAssumption DEF Init, TimerInit
  <2>2. /\ status = "inited" /\ tpc = "wait" /\ upc = "idle" /\ utimer = "none" /\ ucancelled = FALSE
    BY DEF Init, TimerInit
  <2>3. TimerInv
    BY TimerStart
  <2>4. \A f \in {pending, firing, Valid, State, Repeat} : f \in [Timers -> BOOLEAN]
    BY <2>3
  <2> QED BY <2>1, <2>2, <2>3, <2>4 DEF TimerTypeOK
<1>2. CmdTypeOK
  BY EmptySeq DEF Init, CmdInit, CmdTypeOK
<1>3. AdapterTypeOK
  BY DEF Init, AdapterInit, AdapterTypeOK
<1>4. TaskTypeOK
  BY DEF Init, TaskInit, TaskTypeOK
<1>5. closing = "open" /\ todo = {} /\ load \in Loads
  BY DEF Init
<1> QED BY <1>1, <1>2, <1>3, <1>4, <1>5 DEF TypeOK

\* All variables keep their types, and the timer queue never holds more entries
\* than its pool has, whatever is queued again after a cancellation.
THEOREM TypesHold == Spec => []TypeOK
<1>1. Init => TimerInv /\ TypeOK
  BY TimerStart, TypeStart
<1>2. TimerInv /\ TypeOK /\ [Next]_vars => TimerInv' /\ TypeOK'
  BY TimerStep, TypeStep
<1> QED BY <1>1, <1>2, PTL DEF Spec
=============================================================================
