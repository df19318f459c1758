------------------------------- MODULE MlmeQueue -------------------------------
(***************************************************************************)
(* The MLME queue (common/mlme.c): a ring of entries, filled by any        *)
(* context of the driver, emptied by the MLME thread, which runs the state *)
(* machines, and destroyed when the interface is closed.                   *)
(*                                                                         *)
(* An EAPOL-Key frame that is taken before the link is up goes back to the *)
(* tail of the ring.  A step ends where the code takes a lock, or where it *)
(* could be interrupted between two accesses that matter.                  *)
(***************************************************************************)
EXTENDS Adapter, Naturals, Sequences

CONSTANTS
  N,          \* MAX_LEN_OF_MLME_QUEUE
  Senders,    \* contexts that call MlmeEnqueue, actions of the state machines too
  Receivers   \* contexts that call MlmeEnqueueForRecv

Kinds     == {"up", "down", "eapol"}      \* what the message does to the link
\* no message, and an EAPOL-Key message whose bytes or whose length are gone
Spoilt    == {"none", "zeroed"}
Contexts  == Senders \cup Receivers
Slots     == 0..(N - 1)

ASSUME QueueAssumption == /\ N \in Nat \ {0, 1}
                          /\ Senders \cap Receivers = {} /\ Tasks = {"mlme"}

VARIABLES
  occupied, kind,        \* MLME_QUEUE_ELEM: Occupied, the message
  head, tail, num,       \* MLME_QUEUE
  tpc, slot,             \* the MLME thread, and the entry Elem points to
  cpc, ckind,            \* the contexts that enqueue, and their messages
  linked,                \* fOP_STATUS_MEDIA_STATE_CONNECTED
  closing,               \* how far RTMPDrvClose has come
  overran                \* a message has been put back into a full ring (history)

entryv == <<occupied, kind>>
ring   == <<head, tail, num>>
thread == <<tpc, slot>>
caller == <<cpc, ckind>>
flags  == <<linked, adapterv>>
vars   == <<entryv, ring, thread, caller, flags, closing, overran, taskv>>

TypeOK ==
  /\ occupied \in [Slots -> BOOLEAN] /\ kind \in [Slots -> Kinds \cup Spoilt]
  /\ head \in Slots /\ tail \in Slots /\ num \in Nat
  /\ tpc \in {"wait", "loop", "take", "work", "free", "gone"} /\ slot \in Slots
  /\ cpc \in [Contexts -> {"idle", "checked", "wake"}] /\ ckind \in [Contexts -> Kinds \cup {"none"}]
  /\ linked \in BOOLEAN
  /\ closing \in {"open", "off", "kill", "killed", "closed"} /\ overran \in BOOLEAN
  /\ TaskTypeOK /\ AdapterTypeOK

\* MlmeQueueInit
Init ==
  /\ occupied = [i \in Slots |-> FALSE] /\ kind = [i \in Slots |-> "none"]
  /\ head = 0 /\ tail = 0 /\ num = 0
  /\ tpc = "wait" /\ slot = 0
  /\ cpc = [c \in Contexts |-> "idle"] /\ ckind = [c \in Contexts |-> "none"]
  /\ linked = FALSE /\ closing = "open" /\ overran = FALSE
  /\ TaskInit /\ AdapterInit

After(i) == (i + 1) % N

-----------------------------------------------------------------------------
(* The contexts that enqueue.                                               *)

MlmeQueueFull(c) ==
  (IF c \in Receivers THEN num >= N \div 2 ELSE num = N) \/ occupied[tail]

\* (A bound: once the ring is overrun no further call is looked at.)
MayCall(c) == cpc[c] = "idle" /\ ~halt /\ ~overran

\* the tests that come before the lock; a receiver that finds the queue full
\* wakes the MLME thread
Enqueue(c, k) ==
  /\ MayCall(c) /\ (k = "eapol" => c \in Receivers)
  /\ IF MlmeQueueFull(c)
     THEN /\ UNCHANGED caller
          /\ IF c \in Receivers THEN WakeUp("mlme") ELSE UNCHANGED taskv
     ELSE /\ cpc' = [cpc EXCEPT ![c] = "checked"] /\ ckind' = [ckind EXCEPT ![c] = k]
          /\ UNCHANGED taskv
  /\ UNCHANGED <<entryv, ring, thread, flags, closing, overran>>

\* Mutant of Insert: "Double check for safety in multi-thread system." is missing
InsertUnchecked(c) ==
  /\ cpc[c] = "checked"
  /\ occupied' = [occupied EXCEPT ![tail] = TRUE]
  /\ kind' = [kind EXCEPT ![tail] = ckind[c]] /\ ckind' = [ckind EXCEPT ![c] = "none"]
  /\ tail' = After(tail) /\ num' = num + 1
  /\ cpc' = [cpc EXCEPT ![c] = "wake"]
  /\ UNCHANGED <<head, thread, flags, closing, overran, taskv>>

\* under the lock of the queue
Insert(c) ==
  /\ cpc[c] = "checked"
  /\ IF occupied[tail]
     THEN cpc' = [cpc EXCEPT ![c] = "idle"] /\ UNCHANGED <<entryv, tail, num>>
     ELSE /\ occupied' = [occupied EXCEPT ![tail] = TRUE]
          /\ kind' = [kind EXCEPT ![tail] = ckind[c]]
          /\ tail' = After(tail) /\ num' = num + 1
          /\ cpc' = [cpc EXCEPT ![c] = "wake"]
  /\ ckind' = [ckind EXCEPT ![c] = "none"]
  /\ UNCHANGED <<head, thread, flags, closing, overran, taskv>>

\* RTMP_MLME_HANDLER, by MlmeEnqueueForRecv or by the caller of MlmeEnqueue
WakeMlme(c) ==
  /\ cpc[c] = "wake" /\ cpc' = [cpc EXCEPT ![c] = "idle"] /\ WakeUp("mlme")
  /\ UNCHANGED <<entryv, ring, thread, ckind, flags, closing, overran>>

-----------------------------------------------------------------------------
(* The MLME thread: MlmeThread and MlmeHandler.                             *)

MlmeWait ==
  /\ tpc = "wait"
  /\ \/ /\ WaitReturns("mlme", TRUE)
        /\ tpc' = (IF suspended THEN "wait" ELSE "loop") /\ UNCHANGED halt
     \/ WaitReturns("mlme", FALSE) /\ tpc' = "gone" /\ halt' = TRUE
  /\ UNCHANGED <<entryv, ring, slot, caller, linked, power, closing, overran>>

\* the thread function returns
MlmeGone ==
  /\ tpc = "gone" /\ alive["mlme"] /\ Return("mlme")
  /\ UNCHANGED <<entryv, ring, thread, caller, flags, closing, overran>>

\* (NIC_NOT_EXIST and fRTMP_ADAPTER_SUSPEND end the loop as well, and a
\* MT2_RESET_CONF message is like another: both left out.)
Loop ==
  /\ tpc = "loop" /\ tpc' = (IF num = 0 \/ halt THEN "wait" ELSE "take")
  /\ UNCHANGED <<entryv, ring, slot, caller, flags, closing, overran, taskv>>

MlmeDequeue ==
  /\ tpc = "take" /\ tpc' = "work"
  /\ slot' = head /\ num' = num - 1 /\ head' = After(head)
  /\ UNCHANGED <<entryv, tail, caller, flags, closing, overran, taskv>>

NotYet == kind[slot] \in {"eapol", "zeroed"} /\ ~linked

\* an EAPOL-Key frame before the link is up is copied to the tail.  The entry is
\* not tested: when the rest of the ring is full it is the one the frame is in,
\* whose message is then zeroed before it is copied, and which is freed as it is
\* queued
PutBack ==
  /\ tpc = "work" /\ NotYet /\ tpc' = "free"
  /\ occupied' = [occupied EXCEPT ![tail] = TRUE]
  /\ kind' = [kind EXCEPT ![tail] = IF tail = slot THEN "zeroed" ELSE kind[slot]]
  /\ tail' = After(tail) /\ num' = num + 1 /\ overran' = (overran \/ tail = slot)
  /\ UNCHANGED <<head, slot, caller, flags, closing, taskv>>

\* StateMachinePerformAction; LinkUp and LinkDown are called by the actions
Perform ==
  /\ tpc = "work" /\ ~NotYet /\ tpc' = "free"
  /\ linked' = CASE kind[slot] = "up" -> TRUE
                 [] kind[slot] = "down" -> FALSE
                 [] OTHER -> linked
  /\ UNCHANGED <<entryv, ring, slot, caller, adapterv, closing, overran, taskv>>

\* Mutant of Free: the entry before it is freed once more
FreeHead ==
  /\ tpc = "free" /\ tpc' = "loop"
  /\ occupied' = [occupied EXCEPT ![head] = FALSE]
  /\ kind' = [kind EXCEPT ![head] = "none"]
  /\ UNCHANGED <<ring, slot, caller, flags, closing, overran, taskv>>

\* "free MLME element": MsgLen becomes 0, Machine and MsgType stay
Free ==
  /\ tpc = "free" /\ tpc' = "loop"
  /\ occupied' = [occupied EXCEPT ![slot] = FALSE]
  /\ kind' = [kind EXCEPT ![slot] = IF @ = "zeroed" THEN @ ELSE "none"]
  /\ UNCHANGED <<ring, slot, caller, flags, closing, overran, taskv>>

-----------------------------------------------------------------------------
(* The commands that run now and then, USB suspend and resume, and close.   *)

\* Mutant of MlmePeriodicExec: it does not wake the thread
MlmePeriodicQuiet ==
  /\ ~suspended /\ closing \in {"open", "off"} /\ UNCHANGED vars

\* MlmePeriodicExec, by the command thread
MlmePeriodicExec ==
  /\ ~suspended /\ closing \in {"open", "off"} /\ WakeUp("mlme")
  /\ UNCHANGED <<entryv, ring, thread, caller, flags, closing, overran>>

\* the link goes down with the radio
Suspend == /\ closing = "open" /\ PMSuspend /\ linked' = FALSE
           /\ UNCHANGED <<entryv, ring, thread, caller, closing, overran, taskv>>
Wakes   == /\ SuspendHalts \/ PMResume \/ ResumeGoesOn
           /\ UNCHANGED <<entryv, ring, thread, caller, linked, closing, overran, taskv>>

\* RTMPDrvClose up to MlmeHalt: MlmeRadioOff takes the link down
RadioOff ==
  /\ closing = "open" /\ InUse /\ closing' = "off" /\ linked' = FALSE
  /\ UNCHANGED <<entryv, ring, thread, caller, adapterv, overran, taskv>>
MlmeHalt ==
  /\ closing = "off" /\ closing' = "kill" /\ Kill("mlme")
  /\ UNCHANGED <<entryv, ring, thread, caller, flags, overran>>
MlmeKilled ==
  /\ closing = "kill" /\ KillReturn("mlme") /\ closing' = "killed"
  /\ UNCHANGED <<entryv, ring, thread, caller, flags, overran, taskv>>
MlmeQueueDestroy ==
  /\ closing = "killed" /\ closing' = "closed"
  /\ head' = 0 /\ tail' = 0 /\ num' = 0
  /\ UNCHANGED <<entryv, thread, caller, flags, overran, taskv>>

Thread == MlmeWait \/ MlmeGone \/ Loop \/ MlmeDequeue \/ PutBack \/ Perform \/ Free
Calls(c) == Insert(c) \/ WakeMlme(c)
Close == MlmeHalt \/ MlmeKilled \/ MlmeQueueDestroy

Next == \/ \E c \in Contexts, k \in Kinds : Enqueue(c, k)
        \/ \E c \in Contexts : Calls(c)
        \/ Thread \/ MlmePeriodicExec \/ Suspend \/ Wakes \/ RadioOff \/ Close
        \/ closing = "closed" /\ UNCHANGED vars

Spec == Init /\ [][Next]_vars

\* threads and calls go on, the periodic timer fires, a suspend ends
Fairness == /\ WF_vars(Thread) /\ \A c \in Contexts : WF_vars(Calls(c))
            /\ WF_vars(MlmePeriodicExec) /\ WF_vars(Wakes) /\ WF_vars(Close)
FairSpec == Spec /\ Fairness

-----------------------------------------------------------------------------
InRing(i) == \E j \in 0..(num - 1) : i = (head + j) % N
InHand(i) == tpc \in {"work", "free"} /\ i = slot

\* Until it is destroyed, and until a frame goes back into a full ring, the ring
\* is coherent: Num entries from Head on hold whole messages, as many as there are
\* entries at most, Tail is the entry after them, and Occupied says which entries
\* are in use, the one the thread is working on among them, whose message is whole
\* (and every variable has its type).
RingCoherent == TypeOK /\ (closing # "closed" /\ ~overran =>
  /\ num <= N /\ tail = (head + num) % N
  /\ \A i \in Slots : occupied[i] <=> InRing(i) \/ InHand(i)
  /\ \A i \in Slots : InRing(i) \/ (tpc = "work" /\ i = slot) => kind[i] \in Kinds)

\* The messages that are never put back, in the order of the ring.
Ordinary(k) == k \in Kinds \ {"eapol"}
\* (SelectSeq written out: to the provers it is a name.)
Ordinaries(s) ==
  LET upTo[n \in 0..Len(s)] == IF n = 0 THEN <<>>
                               ELSE IF Ordinary(s[n]) THEN Append(upTo[n - 1], s[n])
                               ELSE upTo[n - 1]
  IN  upTo[Len(s)]
Messages == [j \in 1..num |-> kind[(head + j - 1) % N]]
\* the queue has neither been destroyed nor overrun
Ordered  == closing # "closed" /\ ~overran
Waiting  == IF overran THEN <<>> ELSE Ordinaries(Messages)
Working  == IF tpc = "work" /\ Ordinary(kind[slot]) /\ ~overran THEN kind[slot] ELSE "nobody"
Promise  == INSTANCE Mailbox WITH Messages <- Kinds, Nobody <- "nobody",
                                  Withdrawable <- {}, box <- Waiting,
                                  hand <- Working, open <- Ordered, shut <- FALSE

\* The ring implements the mailbox: what MlmeEnqueue and MlmeEnqueueForRecv have
\* accepted is handled once, unchanged and in order, until the queue is destroyed
\* or a frame goes back into a full ring, after which nothing is claimed of the
\* order (a message that is accepted then may overwrite, or be freed).
DeliversInOrder == Promise!Spec

\* What was accepted and is not waiting for the link is handled after all, in
\* spite of frames that are put back, of a suspend and of wake-ups that come
\* while the thread is busy, unless the queue is destroyed or overrun.  (Of entry
\* 0: the entries of the ring are alike.)
Handled == (InRing(0) /\ Ordinary(kind[0])) ~> (~InRing(0) \/ ~Ordered)

\* MlmeHalt: "Terminate Mlme Thread".
KillReturns == (closing = "kill") ~> (closing = "killed")
=============================================================================
