------------------------------ MODULE CmdQueue ------------------------------
(***************************************************************************)
(* The command queue of a USB adapter (common/cmm_cmd.c, cmm_usb_io.c,     *)
(* os/linux/rt_usb.c): what must not be done where it comes up is queued   *)
(* for the command thread, which executes one command after another.       *)
(* Inserting a command and waking the thread are one step.                 *)
(***************************************************************************)
EXTENDS Adapter, Sequences

CONSTANT Commands

ASSUME CommandsAssumption == "none" \notin Commands

VARIABLES
  CmdQState,
  cmds,        \* the commands in the queue, the oldest one first
  cpc, cmd     \* the command thread, and the command it has taken

cmdv == <<CmdQState, cmds, cpc, cmd>>

CmdTypeOK ==
  /\ CmdQState \in {"inited", "running", "stoped", "unknown"}
  /\ cmds \in Seq(Commands) /\ cmd \in Commands \cup {"none"}
  /\ cpc \in {"start", "wait", "handle", "taken", "exec", "clear", "gone"}

\* RTInitializeCmdQ, and the thread is attached
CmdInit == CmdQState = "inited" /\ cmds = <<>> /\ cpc = "start" /\ cmd = "none"

\* Mutant of RTEnqueueInternalCmd: the newest command goes first
EnqueueFirst(c) ==
  IF CmdQState \in {"inited", "running"}
  THEN cmds' = <<c>> \o cmds /\ WakeUp("cmd") /\ UNCHANGED <<CmdQState, cpc, cmd>>
  ELSE UNCHANGED <<cmdv, taskv>>

RTEnqueueInternalCmd(c) ==
  IF CmdQState \in {"inited", "running"}
  THEN cmds' = Append(cmds, c) /\ WakeUp("cmd") /\ UNCHANGED <<CmdQState, cpc, cmd>>
  ELSE UNCHANGED <<cmdv, taskv>>

-----------------------------------------------------------------------------
(* RTUSBCmdThread.                                                          *)

CmdStart == /\ cpc = "start" /\ cpc' = "wait" /\ CmdQState' = "running"
            /\ UNCHANGED <<cmds, cmd, taskv, adapterv>>

\* the test of the loop
Again == IF CmdQState = "running" THEN "wait" ELSE "clear"

CmdWait ==
  /\ cpc = "wait"
  /\ \/ /\ WaitReturns("cmd", TRUE) /\ UNCHANGED halt
        /\ cpc' = CASE CmdQState = "stoped" -> "clear"
                    [] suspended -> Again
                    [] OTHER -> "handle"
     \/ WaitReturns("cmd", FALSE) /\ cpc' = "clear" /\ halt' = TRUE
  /\ UNCHANGED <<CmdQState, cmds, cmd, power>>

\* CMDHandler takes the next command (RTThreadDequeueCmd) or ends
CMDHandler ==
  /\ cpc = "handle"
  /\ IF cmds = <<>>
     THEN cpc' = Again /\ UNCHANGED <<cmds, cmd>>
     ELSE cpc' = "taken" /\ cmd' = Head(cmds) /\ cmds' = Tail(cmds)
  /\ UNCHANGED <<CmdQState, taskv, adapterv>>

\* the handler of the command begins, unless the driver halts
CmdBegins == /\ cpc = "taken" /\ ~halt /\ cpc' = "exec"
             /\ UNCHANGED <<CmdQState, cmds, cmd, taskv, adapterv>>

\* and the command is freed, as it is or when its handler has ended
Freed(at) == /\ cpc = at /\ cpc' = "handle" /\ cmd' = "none"
             /\ UNCHANGED <<CmdQState, cmds, taskv, adapterv>>
CmdRefused == halt /\ Freed("taken")
Execute    == Freed("exec")

\* "Clear the CmdQElements.", under the lock of the queue
CmdClear  == /\ cpc = "clear" /\ cpc' = "gone" /\ CmdQState' = "stoped" /\ cmds' = <<>>
             /\ UNCHANGED <<cmd, taskv, adapterv>>
CmdReturn == /\ cpc = "gone" /\ alive["cmd"] /\ Return("cmd")
             /\ UNCHANGED <<cmdv, adapterv>>

CmdThread == \/ CmdStart \/ CmdWait \/ CMDHandler \/ CmdBegins
             \/ CmdRefused \/ Execute \/ CmdClear \/ CmdReturn

CmdSetState(s) == CmdQState' = s /\ UNCHANGED <<cmds, cpc, cmd>>

-----------------------------------------------------------------------------
\* a command that has been taken is still waiting until its handler begins
CmdWaiting == IF cpc = "taken" THEN <<cmd>> \o cmds ELSE cmds
CmdWorking == IF cpc = "exec" THEN cmd ELSE "none"
CmdPromise == INSTANCE Mailbox WITH Messages <- Commands, Nobody <- "none",
                                    Withdrawable <- {}, box <- CmdWaiting,
                                    hand <- CmdWorking, open <- cpc # "gone", shut <- halt

\* The command queue implements the mailbox: the handler of a command that was
\* accepted begins once and in order, unless HALT_IN_PROGRESS is set when it is
\* the command's turn (in a suspend as well, after which the thread goes on) or
\* the thread has ended: then the command is freed unexecuted.
CommandsInOrder == CmdPromise!Spec
=============================================================================
