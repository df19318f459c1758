-------------------------------- MODULE OsTask --------------------------------
(***************************************************************************)
(* The kernel threads of the driver as it drives them (include/os/         *)
(* rt_linux.h, os/linux/rt_linux.c with KTHREAD_SUPPORT): a flag wakes a   *)
(* thread, and kthread_stop asks it to return and waits until it has.      *)
(***************************************************************************)
CONSTANT Tasks

VARIABLES
  running,   \* kthread_running
  stop,      \* kthread_should_stop()
  alive      \* the thread function has not returned

taskv == <<running, stop, alive>>

TaskTypeOK == /\ running \in [Tasks -> BOOLEAN] /\ stop \in [Tasks -> BOOLEAN]
              /\ alive \in [Tasks -> BOOLEAN]

TaskInit == /\ running = [t \in Tasks |-> FALSE] /\ stop = [t \in Tasks |-> FALSE]
            /\ alive = [t \in Tasks |-> TRUE]

\* WAKE_UP, RtmpOsCmdUp, RtmpOsMlmeUp
WakeUp(t) == running' = [running EXCEPT ![t] = TRUE] /\ UNCHANGED <<stop, alive>>

\* RtmpOSTaskWait returns: TRUE, or FALSE when the thread is to stop
WaitReturns(t, go) ==
  /\ running[t] \/ stop[t]
  /\ go = ~stop[t]
  /\ running' = [running EXCEPT ![t] = FALSE] /\ UNCHANGED <<stop, alive>>

Return(t) == alive' = [alive EXCEPT ![t] = FALSE] /\ UNCHANGED <<running, stop>>

\* RtmpOSTaskKill, in two steps: it returns when the thread has returned
Kill(t)       == stop' = [stop EXCEPT ![t] = TRUE] /\ UNCHANGED <<running, alive>>
KillReturn(t) == stop[t] /\ ~alive[t]
=============================================================================
