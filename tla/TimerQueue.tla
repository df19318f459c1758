------------------------------ MODULE TimerQueue ------------------------------
(***************************************************************************)
(* Timers (common/rtmp_init.c, include/rtmp_timer.h) and the timer thread  *)
(* (common/rtmp_timer.c).  A timer of the kernel that expires only queues  *)
(* its entry; the thread runs the handler, in a context that may sleep,    *)
(* and arms a periodic timer again.                                        *)
(***************************************************************************)
EXTENDS Adapter, Naturals, Sequences, SequencesExt

CONSTANTS
  Timers,
  Periodic,   \* the timers that are initialized with Repeat
  Pool        \* TIMER_QUEUE_SIZE_MAX

ASSUME TimerAssumption ==
  Periodic \subseteq Timers /\ "none" \notin Timers /\ Pool \in Nat \ {0}

VARIABLES
  pending, firing,            \* the kernel's timer: armed, in its callback
  Valid, State, Repeat,       \* RALINK_TIMER_STRUCT; State is TRUE if cancelled
  status, TimerQ,             \* TimerQ.status, the timers in the queue
  tpc, pTimer,                \* the timer thread
  upc, utimer, ucancelled     \* RTMPCancelTimer, by one context at a time

osv     == <<pending, firing>>
structv == <<Valid, State, Repeat>>
queuev  == <<status, TimerQ>>
threadv == <<tpc, pTimer>>
cancelv == <<upc, utimer, ucancelled>>
timerv  == <<osv, structv, queuev, threadv, cancelv>>

TimerTypeOK ==
  /\ \A f \in {pending, firing, Valid, State, Repeat} : f \in [Timers -> BOOLEAN]
  /\ status \in {"inited", "stoped"} /\ TimerQ \in Seq(Timers) /\ Len(TimerQ) <= Pool
  /\ tpc \in {"wait", "while", "pop", "run", "add", "gone"}
  /\ pTimer \in Timers \cup {"none"}
  /\ upc \in {"idle", "delete", "sync", "remove"}
  /\ utimer \in Timers \cup {"none"} /\ ucancelled \in BOOLEAN

\* RtmpTimerQInit, RTMPInitTimer, and MlmeInit has set the periodic timers
TimerInit ==
  /\ pending = [t \in Timers |-> t \in Periodic] /\ firing = [t \in Timers |-> FALSE]
  /\ Valid = [t \in Timers |-> TRUE] /\ State = [t \in Timers |-> FALSE]
  /\ Repeat = [t \in Timers |-> t \in Periodic]
  /\ status = "inited" /\ TimerQ = <<>> /\ tpc = "wait" /\ pTimer = "none"
  /\ upc = "idle" /\ utimer = "none" /\ ucancelled = FALSE

set(f, t, b) == [f EXCEPT ![t] = b]

-----------------------------------------------------------------------------
(* Setting and cancelling a timer, under TimerSemLock.                      *)

\* RTMPSetTimer of a timer that is not periodic; a timer that is armed stays so
RTMPSetTimer(t) ==
  /\ Valid[t] /\ ~halt
  /\ State' = set(State, t, FALSE) /\ Repeat' = set(Repeat, t, FALSE)
  /\ pending' = set(pending, t, TRUE)
  /\ UNCHANGED <<firing, Valid, queuev, threadv, cancelv>>

\* RTMPModTimer does not ask whether the driver halts
RTMPModTimer(t) ==
  /\ Valid[t] /\ State' = set(State, t, FALSE) /\ pending' = set(pending, t, TRUE)
  /\ UNCHANGED <<firing, Valid, Repeat, queuev, threadv, cancelv>>

\* RTMPCancelTimer and RTMPReleaseTimer: Repeat is cleared, the lock released,
CancelTimer(t) ==
  /\ upc = "idle" /\ Valid[t] /\ upc' = "delete" /\ utimer' = t
  /\ Repeat' = IF State[t] THEN Repeat ELSE set(Repeat, t, FALSE)
  /\ UNCHANGED <<osv, Valid, State, queuev, threadv, ucancelled>>

\* the kernel's timer deleted: del_timer_sync waits for the callback, but is
\* called only if the timer is armed,
DelTimer ==
  /\ upc = "delete"
  /\ IF pending[utimer] THEN upc' = "sync" /\ UNCHANGED ucancelled
                        ELSE upc' = "remove" /\ ucancelled' = TRUE
  /\ UNCHANGED <<osv, structv, queuev, threadv, utimer>>
DelTimerSync ==
  /\ upc = "sync" /\ ~firing[utimer] /\ upc' = "remove"
  /\ ucancelled' = pending[utimer] /\ pending' = set(pending, utimer, FALSE)
  /\ UNCHANGED <<firing, structv, queuev, threadv, utimer>>

\* and the entry removed: RtmpTimerQRemove takes out the first one it finds
RtmpTimerQRemove(release) ==
  /\ upc = "remove" /\ upc' = "idle" /\ utimer' = "none" /\ ucancelled' = FALSE
  /\ State' = IF ucancelled THEN set(State, utimer, TRUE) ELSE State
  /\ TimerQ' = RemoveFirst(TimerQ, utimer)
  /\ Valid' = IF release THEN set(Valid, utimer, FALSE) ELSE Valid
  /\ UNCHANGED <<osv, Repeat, status, threadv>>

-----------------------------------------------------------------------------
(* The kernel's timers and the callback of BUILD_TIMER_FUNCTION.            *)

Expire(t) ==
  /\ pending[t] /\ ~firing[t]
  /\ pending' = set(pending, t, FALSE) /\ firing' = set(firing, t, TRUE)
  /\ UNCHANGED <<structv, queuev, threadv, cancelv, taskv>>

\* RtmpTimerQInsert; the entry waits for the handler, or the timer for an entry
Insert(t, accepts, retries) ==
  /\ firing[t] /\ firing' = set(firing, t, FALSE)
  /\ IF accepts
     THEN TimerQ' = Append(TimerQ, t) /\ WakeUp("timer") /\ UNCHANGED pending
     ELSE /\ pending' = IF retries THEN set(pending, t, TRUE) ELSE pending
          /\ UNCHANGED <<TimerQ, taskv>>
  /\ UNCHANGED <<structv, status, threadv, cancelv>>

\* Mutants of Callback: the pool is not tested; a full pool drops the timer; the
\* status is not tested, ahead of the insertion, ahead of the retry
CallbackOverflows(t) == Insert(t, status = "inited", FALSE)
CallbackDrops(t)     == Insert(t, status = "inited" /\ Len(TimerQ) < Pool, FALSE)
CallbackAlways(t)    == Insert(t, Len(TimerQ) < Pool, status = "inited")
CallbackRetries(t)   == Insert(t, status = "inited" /\ Len(TimerQ) < Pool, TRUE)

Callback(t) == Insert(t, status = "inited" /\ Len(TimerQ) < Pool, status = "inited")

-----------------------------------------------------------------------------
(* The timer thread: RtmpTimerQHandle.                                      *)

TimerWait ==
  /\ tpc = "wait"
  /\ \/ /\ WaitReturns("timer", TRUE) /\ UNCHANGED halt
        /\ tpc' = (IF status = "stoped" THEN "gone" ELSE "while")
     \/ WaitReturns("timer", FALSE) /\ tpc' = "gone" /\ halt' = TRUE
  /\ UNCHANGED <<osv, structv, queuev, pTimer, cancelv, power>>

\* pQHead is read without the lock; pTimer is cleared ahead of the wait only
While ==
  /\ tpc = "while"
  /\ IF TimerQ = <<>> THEN tpc' = "wait" /\ pTimer' = "none"
                      ELSE tpc' = "pop" /\ UNCHANGED pTimer
  /\ UNCHANGED <<osv, structv, queuev, cancelv, taskv, adapterv>>

\* the queue may be empty by now, and pTimer the timer of the last round
Pop ==
  /\ tpc = "pop"
  /\ IF TimerQ # <<>> THEN pTimer' = Head(TimerQ) /\ TimerQ' = Tail(TimerQ)
                      ELSE UNCHANGED <<pTimer, TimerQ>>
  /\ tpc' = (IF pTimer' = "none" THEN "while" ELSE "run")
  /\ UNCHANGED <<osv, structv, status, cancelv, taskv, adapterv>>

\* Mutant of Run: a timer that expires while the adapter is suspended is lost
RunAwake ==
  /\ tpc = "run"
  /\ tpc' = (IF Repeat[pTimer] /\ ~State[pTimer] /\ ~suspended THEN "add" ELSE "while")
  /\ UNCHANGED <<osv, structv, queuev, pTimer, cancelv, adapterv>>

\* the handler is run, what it does is left to the composition, and Repeat tested
Run ==
  /\ tpc = "run" /\ tpc' = (IF Repeat[pTimer] /\ ~State[pTimer] THEN "add" ELSE "while")
  /\ UNCHANGED <<osv, structv, queuev, pTimer, cancelv, adapterv>>

\* RTMP_OS_Add_Timer; the timer may have been cancelled after it was tested
AddTimer ==
  /\ tpc = "add" /\ tpc' = "while" /\ pending' = set(pending, pTimer, TRUE)
  /\ UNCHANGED <<firing, structv, queuev, pTimer, cancelv, taskv, adapterv>>

TimerReturn ==
  /\ tpc = "gone" /\ alive["timer"] /\ Return("timer") /\ UNCHANGED <<timerv, adapterv>>

TimerThread == TimerWait \/ While \/ Pop \/ AddTimer \/ TimerReturn

RtmpTimerQExit == /\ TimerQ' = <<>> /\ status' = "stoped"
                  /\ UNCHANGED <<osv, structv, threadv, cancelv>>

-----------------------------------------------------------------------------
\* A periodic timer that has not been cancelled goes on for as long as the queue
\* is in use, with a full pool and while the adapter is suspended: it is armed,
\* in its callback, in the queue, or in the hands of the thread.
InHands(t) == pTimer = t /\ tpc \in {"run", "add"}
PeriodicAlive == status = "inited" =>
  \A t \in Timers : Repeat[t] /\ ~State[t] =>
    pending[t] \/ firing[t] \/ t \in ToSet(TimerQ) \/ InHands(t)

TimerPromise == INSTANCE Mailbox WITH Messages <- Timers, Nobody <- "none",
                         Withdrawable <- Timers, box <- TimerQ,
                         hand <- IF tpc = "run" THEN pTimer ELSE "none",
                         open <- status = "inited", shut <- FALSE

\* The timer queue implements the mailbox: pTimerFunc is the "Function to execute
\* when timer expired", once for each entry.
RunsExpired == TimerPromise!Spec
=============================================================================
