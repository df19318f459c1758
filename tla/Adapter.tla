------------------------------- MODULE Adapter -------------------------------
(***************************************************************************)
(* What every thread of the driver looks at: HALT_IN_PROGRESS, and the USB *)
(* suspend and resume, which are ioctls (common/cmm_cfg.c).  An adapter is *)
(* suspended at most once (a bound).                                       *)
(***************************************************************************)
EXTENDS OsTask

VARIABLES
  halt,    \* fRTMP_ADAPTER_HALT_IN_PROGRESS
  power    \* how far a suspend and the resume after it have come

adapterv == <<halt, power>>

AdapterTypeOK == /\ halt \in BOOLEAN
                 /\ power \in {"on", "suspending", "suspended", "resuming", "resumed"}
AdapterInit   == halt = FALSE /\ power = "on"

suspended == power \in {"suspending", "suspended"}   \* PM_FlgSuspend
InUse     == power \in {"on", "resumed"}

Power(from, to, halts) == power = from /\ power' = to /\ halt' = halts

\* PM_FlgSuspend is set, the radio switched off and the driver halted
PMSuspend    == Power("on", "suspending", FALSE)
SuspendHalts == Power("suspending", "suspended", TRUE)
\* PM_FlgSuspend is cleared, then the driver goes on
PMResume     == Power("suspended", "resuming", TRUE)
ResumeGoesOn == Power("resuming", "resumed", FALSE)
=============================================================================
