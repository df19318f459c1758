-------------------------------- MODULE Andes --------------------------------
(***************************************************************************)
(* The commands to the firmware: mcu/andes_core.c and the USB half of      *)
(* mcu/andes_mt.c.  AndesSendCmdMsg puts a command on txq, empties txq     *)
(* onto the bus, whoever's commands it finds there, and, for a command     *)
(* that needs an answer, sleeps until the answer or a time limit.  Nothing *)
(* serialises its callers (the MLME thread, ioctls, tasklets); the queues  *)
(* have one spin lock each, and a step of the model ends where the next    *)
(* lock is taken.                                                          *)
(*                                                                         *)
(* A command is sent once, by a context of its own.  The retransmission    *)
(* branch is left out: AndesInitCmdMsg sets need_retransmit to 0.          *)
(***************************************************************************)
EXTENDS Integers, FiniteSets, SequencesExt

CONSTANTS
  Waiting,     \* the commands with need_wait
  Posted,      \* the commands without
  SeqMax,      \* the highest sequence number: 0xf
  FirstSeq,    \* what cmd_seq has come to before the commands of the model
  Faults       \* which of FaultKinds may happen

Cmd    == Waiting \cup Posted
NoCmd  == "nobody"

FaultKinds == {"urb",       \* a URB cannot be submitted, or fails
               "silent",    \* the firmware does not answer, or too late
               "off",       \* the adapter is unplugged or suspended
               "overlap",   \* two commands that wait are sent at the same time
               "race"}      \* the time limit strikes while someone else is at
                            \* work on the command

ASSUME CommandsAssumption == Waiting \cap Posted = {} /\ NoCmd \notin Cmd
ASSUME SeqAssumption == SeqMax \in Nat /\ SeqMax >= 2 /\ FirstSeq \in Nat
ASSUME FaultsAssumption == Faults \subseteq FaultKinds

Queues == {"txq", "ackq", "kickq", "tx_doneq"}

VARIABLES
  (* struct cmd_msg *)
  mem,         \* is it allocated
  state,       \* enum cmd_msg_state
  seq,         \* the number its answer carries
  ackDone,     \* the completion ack_done
  urb,         \* its URB is with the host controller
  (* struct MCU_CTRL *)
  q, cmdSeq,   \* the queues, cmd_seq
  mcuInit,     \* the flag MCU_INIT
  sendOn,      \* the adapter flags let commands through
  (* the contexts *)
  pc, hand,    \* where the sender of a command is, which command it has dequeued
  rx,          \* the command whose answer the RX tasklet is handing over
  fw,          \* the commands the firmware has not answered yet
  mishaps      \* history: what must not happen to a command

msg    == <<mem, state, seq, ackDone, urb>>
ctl    == <<q, cmdSeq, mcuInit, sendOn>>
thread == <<pc, hand>>
vars   == <<msg, ctl, thread, rx, fw, mishaps>>

Final  == {"tx_done", "tx_kickout_fail", "tx_timeout_fail"}
States == {"none", "tx_start", "wait_cmd_out", "wait_cmd_out_and_ack", "wait_ack"} \cup Final
WaitPcs == {"wait", "kill", "unlink", "timedout", "final"}
Pcs    == {"none", "loop", "have", "seq", "seqread", "queue", "submit", "end"}
            \cup WaitPcs

TypeOK ==
  /\ mem \in [Cmd -> {"none", "live", "freed"}]
  /\ state \in [Cmd -> States] /\ seq \in [Cmd -> Nat]
  /\ ackDone \in [Cmd -> BOOLEAN] /\ urb \in [Cmd -> BOOLEAN]
  /\ q \in [Queues -> Seq(Cmd)] /\ cmdSeq \in Nat
  /\ mcuInit \in BOOLEAN /\ sendOn \in BOOLEAN
  /\ pc \in [Cmd -> Pcs] /\ \A c \in Posted : pc[c] \notin WaitPcs
  /\ hand \in [Cmd -> Cmd \cup {NoCmd}]
  /\ rx \in Cmd \cup {NoCmd} /\ fw \subseteq Cmd
  /\ mishaps \subseteq {"unlinked", "queued", "freed", "answer"}

Init ==
  /\ mem = [c \in Cmd |-> "none"] /\ state = [c \in Cmd |-> "none"]
  /\ seq = [c \in Cmd |-> 0] /\ ackDone = [c \in Cmd |-> FALSE]
  /\ urb = [c \in Cmd |-> FALSE]
  /\ q = [n \in Queues |-> <<>>] /\ cmdSeq = FirstSeq
  /\ mcuInit = TRUE /\ sendOn = TRUE
  /\ pc = [c \in Cmd |-> "none"] /\ hand = [c \in Cmd |-> NoCmd]
  /\ rx = NoCmd /\ fw = {} /\ mishaps = {}

Queued(c) == \E n \in Queues : Contains(q[n], c)
Alive(c)  == mem[c] = "live"

\* DlListDel of an item that is not in the list (its pointers are NULL), DlListAddTail
\* of one that is in a list already, and any use of memory that was freed, destroy a
\* list.  What the code does after that cannot be told, and the model ends there.
Destroyed == mishaps \cap {"unlinked", "queued", "freed"} # {}
Mishap(from, to, c) ==
  mishaps' = mishaps \cup (IF Alive(c) THEN {} ELSE {"freed"})
                     \cup (IF from # "" /\ ~Contains(q[from], c) THEN {"unlinked"} ELSE {})
                     \cup (IF to # "" /\ \E n \in Queues \ {from} : Contains(q[n], c)
                           THEN {"queued"} ELSE {})

\* AndesQueueTailCmdMsg, AndesUnlinkCmdMsg, and one after the other
QueueTail(to, c) ==
  q' = [q EXCEPT ![to] = Append(@, c)] /\ Mishap("", to, c)
Unlink(from, c) ==
  q' = [q EXCEPT ![from] = RemoveFirst(@, c)] /\ Mishap(from, "", c)
Move(from, to, c) ==
  q' = [q EXCEPT ![from] = RemoveFirst(@, c), ![to] = Append(@, c)] /\ Mishap(from, to, c)

\* numbers are counted on; the code and the firmware see them modulo SeqMax, from 1
Number(n) == IF n = 0 THEN 0 ELSE ((n - 1) % SeqMax) + 1

Goto(c, to)     == pc' = [pc EXCEPT ![c] = to]
SetState(c, st) == state' = [state EXCEPT ![c] = st]
Leave(c)        == Goto(c, IF c \in Waiting THEN "wait" ELSE "end")
-----------------------------------------------------------------------------
(* AndesSendCmdMsg and AndesDequeueAndKickOutCmdMsgs, in the context of c.   *)

InFlight(c) == pc[c] \notin {"none", "end"}

\* a command is refused while the adapter is off, and to an interrupt if it waits
Send(c) ==
  /\ pc[c] = "none" /\ mcuInit
  /\ \/ /\ sendOn /\ (c \in Waiting /\ "overlap" \notin Faults => \A d \in Waiting : ~InFlight(d))
        /\ mem' = [mem EXCEPT ![c] = "live"] /\ SetState(c, "tx_start")
        /\ q' = [q EXCEPT !["txq"] = Append(@, c)] /\ Goto(c, "loop")
     \/ /\ ~sendOn \/ c \in Waiting
        /\ mem' = [mem EXCEPT ![c] = "freed"] /\ Goto(c, "end") /\ UNCHANGED <<q, state>>
  /\ UNCHANGED <<seq, ackDone, urb, cmdSeq, mcuInit, sendOn, hand, rx, fw, mishaps>>

Dequeue(c) ==
  /\ pc[c] = "loop"
  /\ IF q["txq"] = <<>> THEN Leave(c) /\ UNCHANGED <<q, hand>>
     ELSE /\ hand' = [hand EXCEPT ![c] = Head(q["txq"])]
          /\ q' = [q EXCEPT !["txq"] = Tail(@)] /\ Goto(c, "have")
  /\ UNCHANGED <<msg, cmdSeq, mcuInit, sendOn, rx, fw, mishaps>>

\* Mutant of Drop: the command goes back to txq
DropRequeues(c) ==
  /\ pc[c] = "have" /\ ~sendOn /\ Goto(c, "loop")
  /\ q' = [q EXCEPT !["txq"] = <<hand[c]>> \o @]
  /\ hand' = [hand EXCEPT ![c] = NoCmd]
  /\ UNCHANGED <<msg, cmdSeq, mcuInit, sendOn, rx, fw, mishaps>>

\* commands are not let through any more; who waits for one is not told
Drop(c) ==
  LET m == hand[c] IN
  /\ pc[c] = "have" /\ ~sendOn /\ Goto(c, "loop")
  /\ mem' = [mem EXCEPT ![m] = IF m \in Posted THEN "freed" ELSE @]
  /\ hand' = [hand EXCEPT ![c] = NoCmd]
  /\ UNCHANGED <<state, seq, ackDone, urb, ctl, rx, fw, mishaps>>

\* one answer at a time: back to the head of txq, and the loop goes on
Requeue(c) ==
  LET m == hand[c] IN
  /\ pc[c] = "have" /\ sendOn /\ q["ackq"] # <<>> /\ Goto(c, "loop")
  /\ q' = [q EXCEPT !["txq"] = <<m>> \o @] /\ Mishap("", "txq", m)
  /\ hand' = [hand EXCEPT ![c] = NoCmd]
  /\ UNCHANGED <<msg, cmdSeq, mcuInit, sendOn, rx, fw>>

Accept(c) ==
  /\ pc[c] = "have" /\ sendOn /\ q["ackq"] = <<>>
  /\ Goto(c, IF hand[c] \in Waiting THEN "seq" ELSE "queue")
  /\ UNCHANGED <<msg, ctl, hand, rx, fw, mishaps>>

\* Mutant of AndesGetCmdMsgSeq: the numbers start again with every command
GetSeqRestart(c) ==
  /\ pc[c] = "seq" /\ cmdSeq' = 1 /\ Goto(c, "seqread")
  /\ UNCHANGED <<msg, q, mcuInit, sendOn, hand, rx, fw, mishaps>>

\* under ackq_lock: the next number that no command in ackq has
AndesGetCmdMsgSeq(c) ==
  /\ pc[c] = "seq" /\ Goto(c, "seqread")
  /\ cmdSeq' = Min({n \in cmdSeq + 1 .. cmdSeq + SeqMax :
                      \A m \in Range(q["ackq"]) : Number(seq[m]) # Number(n)})
  /\ UNCHANGED <<msg, q, mcuInit, sendOn, hand, rx, fw, mishaps>>

\* `return ctl->cmd_seq`, after the lock has been released
ReadSeq(c) ==
  /\ pc[c] = "seqread" /\ seq' = [seq EXCEPT ![hand[c]] = cmdSeq]
  /\ Goto(c, "queue")
  /\ UNCHANGED <<mem, state, ackDone, urb, ctl, hand, rx, fw, mishaps>>

\* AndesMTUSBKickOutCmdMsg; MCU_INIT, which it looks at, is set while senders run
KickOut(c) ==
  LET m == hand[c] IN
  /\ pc[c] = "queue"
  /\ IF m \in Waiting THEN QueueTail("ackq", m) /\ SetState(m, "wait_cmd_out_and_ack")
                      ELSE QueueTail("kickq", m) /\ SetState(m, "wait_cmd_out")
  /\ Goto(c, "submit")
  /\ UNCHANGED <<mem, seq, ackDone, urb, cmdSeq, mcuInit, sendOn, hand, rx, fw>>

Submit(c) ==
  LET m == hand[c] IN
  /\ pc[c] = "submit" /\ urb' = [urb EXCEPT ![m] = TRUE] /\ Goto(c, "loop")
  /\ hand' = [hand EXCEPT ![c] = NoCmd]
  /\ UNCHANGED <<mem, state, seq, ackDone, ctl, rx, fw, mishaps>>

\* Mutant of KickOutFails: a posted command is taken off kickq and forgotten
KickOutForgets(m) ==
  /\ SetState(m, "tx_kickout_fail")
  /\ Unlink(IF m \in Waiting THEN "ackq" ELSE "kickq", m)
  /\ ackDone' = [ackDone EXCEPT ![m] = TRUE]

\* what a failed URB does to its command, here and in UsbKickOutCmdMsgComplete
KickOutFails(m) ==
  /\ SetState(m, "tx_kickout_fail")
  /\ IF m \in Waiting
     THEN Unlink("ackq", m) /\ ackDone' = [ackDone EXCEPT ![m] = TRUE]
     ELSE Move("kickq", "tx_doneq", m) /\ UNCHANGED ackDone

SubmitFails(c) ==
  /\ "urb" \in Faults /\ pc[c] = "submit" /\ KickOutFails(hand[c]) /\ Leave(c)
  /\ hand' = [hand EXCEPT ![c] = NoCmd]
  /\ UNCHANGED <<mem, seq, urb, cmdSeq, mcuInit, sendOn, rx, fw>>

-----------------------------------------------------------------------------
(* The sender of a command that waits, after its loop.                       *)

Racing == "race" \in Faults
Held(c) == \E d \in Cmd : hand[d] = c

\* the answer, or the failure of the URB, has come
Woken(c) ==
  /\ pc[c] = "wait" /\ ackDone[c] /\ Goto(c, "final")
  /\ SetState(c, IF state[c] = "tx_kickout_fail" THEN "tx_kickout_fail" ELSE "tx_done")
  /\ UNCHANGED <<mem, seq, ackDone, urb, ctl, hand, rx, fw, mishaps>>

\* No answer within the limit, for a command that was dropped or one the
\* firmware is silent about.  The state is read here, and acted on later.
TimedOut(c) ==
  /\ pc[c] = "wait" /\ ~ackDone[c]
  /\ ~Queued(c) \/ "silent" \in Faults
  /\ Racing \/ (~Contains(q["txq"], c) /\ ~Held(c) /\ rx # c)
  /\ Goto(c, CASE state[c] = "wait_cmd_out_and_ack" -> "kill"
               [] state[c] = "wait_ack" -> "unlink"
               [] OTHER -> "timedout")
  /\ UNCHANGED <<msg, ctl, hand, rx, fw, mishaps>>

\* Mutant of KillUrb: the command is unlinked as well, as on the other buses
KillUrbUnlinks(c) ==
  /\ pc[c] = "kill" /\ Goto(c, "unlink")
  /\ IF urb[c] THEN KickOutFails(c) /\ urb' = [urb EXCEPT ![c] = FALSE]
               ELSE UNCHANGED <<state, q, mishaps, ackDone, urb>>
  /\ UNCHANGED <<mem, seq, cmdSeq, mcuInit, sendOn, hand, rx, fw>>

\* RTUSB_UNLINK_URB is usb_kill_urb: the completion handler has run when it returns
KillUrb(c) ==
  /\ pc[c] = "kill" /\ Goto(c, "timedout")
  /\ IF urb[c] THEN KickOutFails(c) /\ urb' = [urb EXCEPT ![c] = FALSE]
               ELSE UNCHANGED <<state, q, mishaps, ackDone, urb>>
  /\ UNCHANGED <<mem, seq, cmdSeq, mcuInit, sendOn, hand, rx, fw>>

GiveUp(c) ==
  /\ pc[c] = "unlink" /\ Unlink("ackq", c) /\ Goto(c, "timedout")
  /\ UNCHANGED <<msg, cmdSeq, mcuInit, sendOn, hand, rx, fw>>

\* AndesQueueTailCmdMsg(&ctl->tx_doneq, msg, state): the tasklet will free it
Finish(c) ==
  /\ pc[c] \in {"final", "timedout"} /\ Goto(c, "end") /\ QueueTail("tx_doneq", c)
  /\ IF pc[c] = "timedout" THEN SetState(c, "tx_timeout_fail") ELSE UNCHANGED state
  /\ UNCHANGED <<mem, seq, ackDone, urb, cmdSeq, mcuInit, sendOn, hand, rx, fw>>

-----------------------------------------------------------------------------
(* The URBs, the firmware, the RX tasklet and the command tasklet.           *)

Undisturbed(c) == Racing \/ pc[c] \notin {"kill", "unlink"}

\* UsbKickOutCmdMsgComplete
UrbDone(c) ==
  /\ urb[c] /\ Undisturbed(c) /\ urb' = [urb EXCEPT ![c] = FALSE]
  /\ IF ~mcuInit THEN UNCHANGED <<state, q, mishaps, ackDone, fw>>
     ELSE \/ /\ "urb" \in Faults /\ KickOutFails(c) /\ UNCHANGED fw
          \/ /\ c \in Waiting /\ SetState(c, "wait_ack") /\ fw' = fw \cup {c}
             /\ Mishap("", "", c) /\ UNCHANGED <<q, ackDone>>
          \/ /\ c \in Posted /\ SetState(c, "tx_done") /\ Move("kickq", "tx_doneq", c)
             /\ UNCHANGED <<ackDone, fw>>
  /\ UNCHANGED <<mem, seq, cmdSeq, mcuInit, sendOn, thread, rx>>

\* AndesMTRxProcessEvent, under ackq_lock: the first command in ackq with the
\* number of the answer.  The firmware is never so late that SeqMax other
\* numbers have been given out in the meantime.
RxEvent(c) ==
  LET acks == q["ackq"]
      same == {i \in 1..Len(acks) : Number(seq[acks[i]]) = Number(seq[c])}
      m    == acks[Min(same)]
  IN
  /\ c \in fw /\ rx = NoCmd /\ fw' = fw \ {c} /\ cmdSeq - seq[c] < SeqMax
  /\ IF ~mcuInit \/ same = {} THEN UNCHANGED <<q, rx, mishaps>>
     ELSE /\ Undisturbed(m) /\ rx' = m
          /\ q' = [q EXCEPT !["ackq"] = RemoveFirst(@, m)]
          /\ mishaps' = mishaps \cup (IF m = c THEN {} ELSE {"answer"})
  /\ UNCHANGED <<msg, cmdSeq, mcuInit, sendOn, thread>>

\* rsp_handler and the completion, without the lock
RxDone ==
  /\ rx # NoCmd /\ rx' = NoCmd /\ Mishap("", "", rx)
  /\ ackDone' = [ackDone EXCEPT ![rx] = TRUE]
  /\ UNCHANGED <<mem, state, seq, urb, ctl, thread, fw>>

\* AndesCmdMsgBh, and AndesFreeCmdMsg
AndesCmdMsgBh ==
  LET m == Head(q["tx_doneq"]) IN
  /\ q["tx_doneq"] # <<>> /\ q' = [q EXCEPT !["tx_doneq"] = Tail(@)]
  /\ mem' = [mem EXCEPT ![m] = "freed"] /\ Mishap("tx_doneq", "", m)
  /\ UNCHANGED <<state, seq, ackDone, urb, cmdSeq, mcuInit, sendOn, thread, rx, fw>>

\* the adapter is unplugged or suspended
Off ==
  /\ "off" \in Faults /\ sendOn /\ sendOn' = FALSE
  /\ UNCHANGED <<msg, q, cmdSeq, mcuInit, thread, rx, fw, mishaps>>

\* AndesCtrlUsbExit, which rt28xx_close calls when it has stopped the tasklets
\* and the threads; a URB may still be on its way
ExitFlags ==
  /\ mcuInit /\ rx = NoCmd /\ \A c \in Cmd : ~InFlight(c)
  /\ mcuInit' = FALSE /\ sendOn' = FALSE
  /\ UNCHANGED <<msg, q, cmdSeq, thread, rx, fw, mishaps>>

ExitCleanup ==
  /\ ~mcuInit /\ \E c \in Cmd : Queued(c)
  /\ urb' = [c \in Cmd |-> urb[c] /\ ~Contains(q["kickq"] \o q["ackq"], c)]
  /\ mem' = [c \in Cmd |-> IF Queued(c) THEN "freed" ELSE mem[c]]
  /\ q' = [n \in Queues |-> <<>>]
  /\ UNCHANGED <<state, seq, ackDone, cmdSeq, mcuInit, sendOn, thread, rx, fw, mishaps>>

Kick(c) == Dequeue(c) \/ Drop(c) \/ Requeue(c) \/ Accept(c) \/ AndesGetCmdMsgSeq(c)
             \/ ReadSeq(c) \/ KickOut(c) \/ Submit(c) \/ SubmitFails(c)
Wait(c) == Woken(c) \/ TimedOut(c) \/ KillUrb(c) \/ GiveUp(c) \/ Finish(c)

Next ==
  /\ ~Destroyed
  /\ \/ \E c \in Cmd : Send(c) \/ Kick(c) \/ Wait(c) \/ UrbDone(c) \/ RxEvent(c)
     \/ RxDone \/ AndesCmdMsgBh \/ Off \/ ExitFlags \/ ExitCleanup

Spec == Init /\ [][Next]_vars

\* every context runs on, and every URB ends; nothing is said of the firmware
Fairness ==
  /\ \A c \in Cmd : /\ WF_vars(~Destroyed /\ (Kick(c) \/ Wait(c)))
                    /\ WF_vars(~Destroyed /\ UrbDone(c))
  /\ WF_vars(~Destroyed /\ RxDone)
FairSpec == Spec /\ Fairness

-----------------------------------------------------------------------------
\* The queues stay intact: a command is unlinked only from the queue it is in,
\* queued only when it is in none, and never touched after it was freed; and the
\* tasklet knows the state of every command it frees, else it reports "unknow msg
\* state" (and every variable has its type).
Intact ==
  /\ TypeOK /\ mishaps \subseteq {"answer"}
  /\ \A c \in Range(q["tx_doneq"]) : state[c] \in Final

\* An answer is handed to the command that the firmware answers.
AnswerMatches == "answer" \notin mishaps

\* No command is lost, as long as no list is destroyed: until it is freed its sender
\* still has it, or a queue does that the tasklet or AndesCtrlUsbExit will empty.
NoneLost == \A c \in Cmd : Alive(c) => InFlight(c) \/ Queued(c) \/ Held(c)

\* Two commands that wait at the same time have different numbers ("command(seq:
\* %d) is still running").
UniqueSeq == \A c, d \in Range(q["ackq"]) : c # d => Number(seq[c]) # Number(seq[d])

\* AndesSendCmdMsg returns, after the answer or the time limit, as long as the
\* firmware answers in the end (andes_core.c has 3 s, CMD_MSG_TIMEOUT, for this).
FirmwareAnswers == []<>(fw = {})
Returns == FirmwareAnswers => \A c \in Cmd : InFlight(c) ~> ~InFlight(c)
=============================================================================
