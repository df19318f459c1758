--------------------------- MODULE MlmeQueueProofs ---------------------------
(***************************************************************************)
(* The ring of the MLME queue stays coherent and implements the mailbox,   *)
(* for every size and any contexts, until a frame goes back into it while  *)
(* it is full: proofs about MlmeQueue.tla.                                 *)
(***************************************************************************)
EXTENDS MlmeQueue, SequenceLemmas

-----------------------------------------------------------------------------
(* The ring without modulo: entry i is Steps(h, i) entries after entry h,   *)
(* and Entry(h, j) is the one j entries after it.                           *)

Steps(h, i) == IF i >= h THEN i - h ELSE i + N - h
Entry(h, j) == IF h + j >= N THEN h + j - N ELSE h + j

LEMMA Wrap ==
  /\ \A h \in Slots, j \in 0..N : (h + j) % N = Entry(h, j)
  /\ \A h \in Slots : After(h) = Entry(h, 1)
<1>1. ASSUME NEW h \in Slots, NEW j \in 0..N PROVE (h + j) % N = Entry(h, j)
  BY QueueAssumption DEF Slots, Entry
<1>2. ASSUME NEW h \in Slots PROVE After(h) = Entry(h, 1)
  BY <1>1, QueueAssumption DEF Slots, After
<1> QED BY <1>1, <1>2

LEMMA Within ==
  ASSUME NEW h \in Slots, NEW n \in 0..N, NEW i \in Slots
  PROVE  (\E j \in 0..(n - 1) : i = (h + j) % N) <=> Steps(h, i) < n
<1>1. ASSUME NEW j \in 0..(n - 1), i = (h + j) % N PROVE Steps(h, i) < n
  <2>1. j \in 0..N
    BY QueueAssumption
  <2>2. i = Entry(h, j)
    BY <1>1, <2>1, Wrap
  <2> QED BY <2>2, QueueAssumption DEF Slots, Steps, Entry
<1>2. ASSUME Steps(h, i) < n PROVE i = (h + Steps(h, i)) % N /\ Steps(h, i) \in 0..(n - 1)
  <2>1. Steps(h, i) \in 0..N /\ Steps(h, i) \in 0..(n - 1) /\ i = Entry(h, Steps(h, i))
    BY <1>2, QueueAssumption DEF Slots, Steps, Entry
  <2> QED BY <2>1, Wrap
<1> QED BY <1>1, <1>2

-----------------------------------------------------------------------------
(* The inductive invariant.                                                 *)

InUseBy(i) == Steps(head, i) < num      \* InRing, without modulo

\* Num entries from Head on are occupied and hold whole messages, and Tail is the
\* entry after them
Filled ==
  /\ num <= N /\ tail = Entry(head, num)
  /\ \A i \in Slots : InUseBy(i) => occupied[i] /\ kind[i] \in Kinds

\* no other entry is occupied, but the one in hand
Spare == closing # "closed" =>
           \A i \in Slots : occupied[i] => InUseBy(i) \/ InHand(i)

\* the entry in hand is the one before Head, and its message is whole
Handling ==
  /\ tpc \in {"work", "free"} => head = Entry(slot, 1) /\ num < N /\ occupied[slot]
  /\ tpc = "work" => kind[slot] \in Kinds

\* what holds until a frame goes back into a full ring
Sound == Filled /\ Spare /\ Handling

\* the thread takes a message only when there is one
Taking == tpc = "take" => num > 0

\* what is going to be queued is whole
Calling == \A c \in Contexts : cpc[c] = "checked" => ckind[c] \in Kinds

\* the thread ends before the queue is destroyed, and then the driver halts
Ending ==
  /\ closing # "open" => InUse
  /\ stop["mlme"] => closing \in {"kill", "killed", "closed"}
  /\ tpc = "gone" => halt /\ closing # "open"
  /\ ~alive["mlme"] => tpc = "gone"
  /\ closing \in {"killed", "closed"} => tpc = "gone"

\* what always holds
Always == TypeOK /\ Taking /\ Calling /\ Ending

RingInv == Always /\ (~overran => Sound)

-----------------------------------------------------------------------------
(* The steps.                                                               *)

USE DEF Slots, adapterv, taskv, entryv, ring, thread, caller, flags

LEMMA RingStart == Init => RingInv
<1> SUFFICES ASSUME Init PROVE RingInv
  OBVIOUS
<1> USE DEF Init, TaskInit, AdapterInit
<1>1. TypeOK
  <2>1. TaskTypeOK /\ AdapterTypeOK
    BY DEF TaskTypeOK, AdapterTypeOK
  <2>2. occupied \in [Slots -> BOOLEAN] /\ kind \in [Slots -> Kinds \cup Spoilt]
    BY DEF Spoilt
  <2>3. /\ cpc \in [Contexts -> {"idle", "checked", "wake"}]
        /\ ckind \in [Contexts -> Kinds \cup {"none"}]
    OBVIOUS
  <2>4. /\ head \in Slots /\ tail \in Slots /\ num \in Nat /\ slot \in Slots
    BY QueueAssumption
  <2>5. tpc = "wait" /\ linked = FALSE /\ closing = "open" /\ overran = FALSE
    OBVIOUS
  <2> QED BY <2>1, <2>2, <2>3, <2>4, <2>5 DEF TypeOK
<1>2. Sound
  BY QueueAssumption DEF Sound, Filled, Spare, Handling, Entry, InUseBy, Steps
<1>3. Taking /\ Calling /\ Ending
  BY QueueAssumption DEF Taking, Calling, Ending, InUse
<1> QED BY <1>1, <1>2, <1>3 DEF RingInv, Always

LEMMA TaskSteps ==
  ASSUME TaskTypeOK, WakeUp("mlme") \/ Return("mlme") \/ Kill("mlme")
                     \/ WaitReturns("mlme", TRUE) \/ WaitReturns("mlme", FALSE)
                     \/ UNCHANGED taskv
  PROVE  TaskTypeOK'
BY DEF TaskTypeOK, WakeUp, Return, Kill, WaitReturns

LEMMA PowerSteps ==
  ASSUME AdapterTypeOK, PMSuspend \/ SuspendHalts \/ PMResume \/ ResumeGoesOn
  PROVE  AdapterTypeOK'
BY DEF AdapterTypeOK, PMSuspend, SuspendHalts, PMResume, ResumeGoesOn, Power

LEMMA AfterInRing == \A h \in Slots : After(h) \in Slots
<1> SUFFICES ASSUME NEW h \in Slots PROVE After(h) \in Slots
  OBVIOUS
<1>1. After(h) = Entry(h, 1)
  BY Wrap
<1>2. Entry(h, 1) \in Slots
  BY QueueAssumption DEF Entry
<1> QED BY <1>1, <1>2

\* what always holds, kept by the thread
LEMMA ThreadAlways == ASSUME Always, Thread PROVE Always'
<1> USE DEF Always
<1>t. TaskTypeOK /\ AdapterTypeOK /\ halt \in BOOLEAN
  BY DEF TypeOK, AdapterTypeOK
<1>1. CASE MlmeWait
  <2>1. TaskTypeOK' /\ AdapterTypeOK'
    <3>1. TaskTypeOK'
      BY <1>1, <1>t, TaskSteps DEF MlmeWait
    <3> QED BY <1>1, <1>t, <3>1 DEF MlmeWait, AdapterTypeOK
  <2>2. Ending'
    BY <1>1 DEF MlmeWait, Ending, WaitReturns, InUse
  <2> QED BY <1>1, <2>1, <2>2 DEF MlmeWait, TypeOK, Taking, Calling
<1>2. CASE MlmeGone
  <2>1. TaskTypeOK'
    BY <1>2, <1>t, TaskSteps DEF MlmeGone
  <2>2. Ending'
    BY <1>2, QueueAssumption DEF MlmeGone, Return, Ending, InUse, TypeOK, TaskTypeOK
  <2> QED BY <1>2, <2>1, <2>2 DEF MlmeGone, TypeOK, AdapterTypeOK, Taking, Calling
<1>3. CASE Loop
  BY <1>3 DEF Loop, TypeOK, TaskTypeOK, AdapterTypeOK, Taking, Calling, Ending, InUse
<1>4. CASE MlmeDequeue
  <2>1. num' \in Nat /\ head' \in Slots
    BY <1>4, AfterInRing DEF MlmeDequeue, Taking, TypeOK
  <2> QED BY <1>4, <2>1
    DEF MlmeDequeue, TypeOK, TaskTypeOK, AdapterTypeOK, Taking, Calling, Ending, InUse
<1>5. CASE PutBack
  <2>1. num' \in Nat /\ tail' \in Slots
    BY <1>5, AfterInRing DEF PutBack, TypeOK
  <2>2. occupied' \in [Slots -> BOOLEAN] /\ kind' \in [Slots -> Kinds \cup Spoilt]
    BY <1>5 DEF PutBack, TypeOK, Spoilt
  <2> QED BY <1>5, <2>1, <2>2
    DEF PutBack, TypeOK, TaskTypeOK, AdapterTypeOK, Taking, Calling, Ending, InUse
<1>6. CASE Perform
  <2>1. linked' \in BOOLEAN
    BY <1>6 DEF Perform, TypeOK
  <2> QED BY <1>6, <2>1
    DEF Perform, TypeOK, TaskTypeOK, AdapterTypeOK, Taking, Calling, Ending, InUse
<1>7. CASE Free
  <2>1. occupied' \in [Slots -> BOOLEAN] /\ kind' \in [Slots -> Kinds \cup Spoilt]
    BY <1>7 DEF Free, TypeOK, Spoilt
  <2> QED BY <1>7, <2>1
    DEF Free, TypeOK, TaskTypeOK, AdapterTypeOK, Taking, Calling, Ending, InUse
<1> QED BY <1>1, <1>2, <1>3, <1>4, <1>5, <1>6, <1>7 DEF Thread

\* and by the contexts
LEMMA CallsAlways ==
  ASSUME Always, NEW c \in Contexts,
         (\E k \in Kinds : Enqueue(c, k)) \/ Insert(c) \/ WakeMlme(c)
  PROVE  Always'
<1> USE DEF Always
<1>1. ASSUME NEW k \in Kinds, Enqueue(c, k) PROVE Always'
  <2>1. TaskTypeOK'
    BY <1>1, TaskSteps DEF Enqueue, TypeOK
  <2>2. /\ cpc' \in [Contexts -> {"idle", "checked", "wake"}]
        /\ ckind' \in [Contexts -> Kinds \cup {"none"}] /\ Calling'
    BY <1>1 DEF Enqueue, TypeOK, Calling
  <2>3. Ending'
    BY <1>1 DEF Enqueue, WakeUp, Ending, InUse
  <2> QED BY <1>1, <2>1, <2>2, <2>3 DEF Enqueue, TypeOK, AdapterTypeOK, Taking
<1>2. CASE Insert(c)
  <2>1. /\ occupied' \in [Slots -> BOOLEAN] /\ kind' \in [Slots -> Kinds \cup Spoilt]
        /\ num' \in Nat /\ tail' \in Slots
    <3>1. After(tail) \in Slots /\ tail \in Slots /\ num + 1 \in Nat /\ ckind[c] \in Kinds
      BY <1>2, AfterInRing DEF Insert, TypeOK, Calling
    <3>2. CASE occupied[tail]
      BY <1>2, <3>2 DEF Insert, TypeOK
    <3>3. CASE ~occupied[tail]
      BY <1>2, <3>1, <3>3 DEF Insert, TypeOK
    <3> QED BY <3>2, <3>3
  <2>2. /\ cpc' \in [Contexts -> {"idle", "checked", "wake"}]
        /\ ckind' \in [Contexts -> Kinds \cup {"none"}] /\ Calling'
    BY <1>2 DEF Insert, TypeOK, Calling
  <2>3. Taking'
    BY <1>2 DEF Insert, Taking, TypeOK
  <2>4. Ending'
    BY <1>2 DEF Insert, Ending, InUse
  <2> QED BY <1>2, <2>1, <2>2, <2>3, <2>4 DEF Insert, TypeOK, TaskTypeOK, AdapterTypeOK
<1>3. CASE WakeMlme(c)
  <2>1. TaskTypeOK'
    BY <1>3, TaskSteps DEF WakeMlme, TypeOK
  <2>2. cpc' \in [Contexts -> {"idle", "checked", "wake"}] /\ Calling'
    BY <1>3 DEF WakeMlme, TypeOK, Calling
  <2>3. Ending'
    BY <1>3 DEF WakeMlme, WakeUp, Ending, InUse
  <2> QED BY <1>3, <2>1, <2>2, <2>3 DEF WakeMlme, TypeOK, AdapterTypeOK, Taking
<1> QED BY <1>1, <1>2, <1>3

\* and by the commands, suspend and resume, and the close
LEMMA OthersAlways ==
  ASSUME Always,
         MlmePeriodicExec \/ Suspend \/ Wakes \/ RadioOff \/ Close \/ UNCHANGED vars
  PROVE  Always'
<1> USE DEF Always
<1>t. TaskTypeOK /\ AdapterTypeOK
  BY DEF TypeOK
<1>1. CASE MlmePeriodicExec
  <2>1. TaskTypeOK'
    BY <1>1, <1>t, TaskSteps DEF MlmePeriodicExec
  <2>2. Ending'
    BY <1>1 DEF MlmePeriodicExec, WakeUp, Ending, InUse
  <2> QED BY <1>1, <2>1, <2>2 DEF MlmePeriodicExec, TypeOK, AdapterTypeOK, Taking, Calling
<1>2. CASE Suspend
  <2>1. AdapterTypeOK'
    BY <1>2, <1>t, PowerSteps DEF Suspend
  <2>2. Ending'
    BY <1>2 DEF Suspend, PMSuspend, Power, Ending, InUse
  <2> QED BY <1>2, <2>1, <2>2 DEF Suspend, TypeOK, TaskTypeOK, Taking, Calling
<1>3. CASE Wakes
  <2>1. AdapterTypeOK'
    BY <1>3, <1>t, PowerSteps DEF Wakes
  <2>2. Ending'
    BY <1>3 DEF Wakes, SuspendHalts, PMResume, ResumeGoesOn, Power, Ending, InUse
  <2> QED BY <1>3, <2>1, <2>2 DEF Wakes, TypeOK, TaskTypeOK, Taking, Calling
<1>4. CASE RadioOff
  BY <1>4 DEF RadioOff, TypeOK, TaskTypeOK, AdapterTypeOK, Taking, Calling, Ending, InUse
<1>5. CASE MlmeHalt
  <2>1. TaskTypeOK'
    BY <1>5, <1>t, TaskSteps DEF MlmeHalt
  <2>2. Ending'
    BY <1>5 DEF MlmeHalt, Kill, Ending, InUse
  <2> QED BY <1>5, <2>1, <2>2 DEF MlmeHalt, TypeOK, AdapterTypeOK, Taking, Calling
<1>6. CASE MlmeKilled
  BY <1>6
    DEF MlmeKilled, KillReturn, TypeOK, TaskTypeOK, AdapterTypeOK, Taking, Calling, Ending,
        InUse
<1>7. CASE MlmeQueueDestroy
  <2>1. head' \in Slots /\ tail' \in Slots /\ num' \in Nat
    BY <1>7, QueueAssumption DEF MlmeQueueDestroy
  <2>2. Ending' /\ Taking'
    BY <1>7 DEF MlmeQueueDestroy, Ending, InUse, Taking
  <2> QED BY <1>7, <2>1, <2>2
    DEF MlmeQueueDestroy, TypeOK, TaskTypeOK, AdapterTypeOK, Calling
<1>8. CASE UNCHANGED vars
  BY <1>8 DEF vars, TypeOK, TaskTypeOK, AdapterTypeOK, Taking, Calling, Ending, InUse
<1> QED BY <1>1, <1>2, <1>3, <1>4, <1>5, <1>6, <1>7, <1>8 DEF Close

LEMMA AlwaysStep == Always /\ [Next]_vars => Always'
BY ThreadAlways, CallsAlways, OthersAlways DEF Next, Calls

-----------------------------------------------------------------------------
(* The steps while no frame has gone back into a full ring.                 *)

\* steps that do not touch the ring
LEMMA Untouched ==
  ASSUME Sound, UNCHANGED <<entryv, ring, slot>>,
         closing = "closed" => closing' = "closed",
         tpc' = tpc \/ {tpc, tpc'} \cap {"work", "free"} = {}
  PROVE  Sound'
<1> USE DEF Sound
<1>1. Filled'
  BY DEF Filled, InUseBy
<1>2. Spare'
  BY DEF Spare, InUseBy, InHand
<1>3. Handling'
  BY DEF Handling
<1> QED BY <1>1, <1>2, <1>3

LEMMA InsertKeeps == ASSUME Always, Sound, NEW c \in Contexts, Insert(c) PROVE Sound'
<1> USE DEF Sound, Always
<1>1. /\ cpc[c] = "checked" /\ ckind[c] \in Kinds
      /\ UNCHANGED <<head, thread, flags, closing, overran, taskv>>
  BY DEF Insert, Calling
<1>2. CASE occupied[tail]
  BY <1>1, <1>2, Untouched DEF Insert
<1>3. CASE ~occupied[tail]
  <2>1. /\ occupied' = [occupied EXCEPT ![tail] = TRUE]
        /\ kind' = [kind EXCEPT ![tail] = ckind[c]]
        /\ tail' = After(tail) /\ num' = num + 1
    BY <1>3 DEF Insert
  <2>2. num < N
    BY <1>3, QueueAssumption DEF Filled, InUseBy, Steps, Entry, TypeOK
  <2>3. tail' = Entry(tail, 1)
    BY <2>1, Wrap DEF TypeOK
  <2>5. \A i \in Slots : InUseBy(i)' <=> InUseBy(i) \/ i = tail
    BY <1>1, <2>1, <2>2, QueueAssumption DEF InUseBy, Steps, Filled, Entry, TypeOK
  <2>6. Filled'
    <3>1. num' <= N /\ tail' = Entry(head', num')
      BY <1>1, <2>1, <2>2, <2>3, QueueAssumption DEF Filled, Entry, TypeOK
    <3>2. \A i \in Slots : InUseBy(i)' => occupied'[i] /\ kind'[i] \in Kinds
      BY <1>1, <2>1, <2>5 DEF Filled, TypeOK
    <3> QED BY <3>1, <3>2 DEF Filled
  <2>7. Spare'
    BY <1>1, <2>1, <2>5 DEF Spare, InHand, TypeOK
  <2>8. Handling'
    <3>1. tpc \in {"work", "free"} => slot # tail /\ num + 1 < N
      BY <1>3, <2>2, QueueAssumption DEF Handling, Filled, Entry, TypeOK
    <3> QED BY <1>1, <2>1, <3>1 DEF Handling, TypeOK
  <2> QED BY <2>6, <2>7, <2>8
<1> QED BY <1>2, <1>3

LEMMA DequeueKeeps == ASSUME Always, Sound, MlmeDequeue PROVE Sound'
<1> USE DEF Sound, Always
<1>1. /\ tpc = "take" /\ tpc' = "work" /\ slot' = head /\ num' = num - 1 /\ num > 0
      /\ head' = Entry(head, 1)
      /\ UNCHANGED <<entryv, tail, caller, flags, closing, overran, taskv>>
  BY Wrap DEF MlmeDequeue, Taking, TypeOK
<1>2. InUseBy(head) /\ \A i \in Slots : InUseBy(i)' <=> InUseBy(i) /\ i # head
  BY <1>1, QueueAssumption DEF InUseBy, Steps, Entry, TypeOK, Filled
<1>3. Filled'
  <2>1. num' <= N /\ tail' = Entry(head', num')
    BY <1>1, QueueAssumption DEF Filled, Entry, TypeOK
  <2> QED BY <1>1, <1>2, <2>1 DEF Filled
<1>4. Spare'
  BY <1>1, <1>2 DEF Spare, InHand
<1>5. Handling'
  BY <1>1, <1>2, QueueAssumption DEF Handling, Filled, TypeOK
<1> QED BY <1>3, <1>4, <1>5

\* a frame goes back, and the ring is not full
LEMMA PutBackIs ==
  ASSUME Always, Sound, PutBack, ~overran'
  PROVE  /\ kind[slot] = "eapol" /\ num + 1 < N
         /\ tpc = "work" /\ tpc' = "free" /\ tail' = Entry(tail, 1) /\ num' = num + 1
         /\ occupied' = [occupied EXCEPT ![tail] = TRUE]
         /\ kind' = [kind EXCEPT ![tail] = "eapol"]
         /\ UNCHANGED <<head, slot, caller, flags, closing, taskv>>
<1> USE DEF Sound, Always
<1>1. kind[slot] = "eapol" /\ tail # slot
  BY DEF PutBack, NotYet, Handling, Kinds
<1>2. num + 1 < N
  BY <1>1, QueueAssumption DEF PutBack, Handling, Filled, Entry, TypeOK
<1> QED BY <1>1, <1>2, Wrap DEF PutBack, TypeOK

LEMMA PutBackKeeps == ASSUME Always, Sound, PutBack, ~overran' PROVE Sound'
<1> USE DEF Sound, Always
<1>1. /\ num + 1 < N
      /\ tpc = "work" /\ tpc' = "free" /\ tail' = Entry(tail, 1) /\ num' = num + 1
      /\ occupied' = [occupied EXCEPT ![tail] = TRUE]
      /\ kind' = [kind EXCEPT ![tail] = "eapol"]
      /\ UNCHANGED <<head, slot, caller, flags, closing, taskv>>
  BY PutBackIs
<1>2. \A i \in Slots : InUseBy(i)' <=> InUseBy(i) \/ i = tail
  BY <1>1, QueueAssumption DEF InUseBy, Steps, Filled, Entry, TypeOK
<1>3. Filled'
  <2>1. num' <= N /\ tail' = Entry(head', num')
    BY <1>1, QueueAssumption DEF Filled, Entry, TypeOK
  <2>2. \A i \in Slots : InUseBy(i)' => occupied'[i] /\ kind'[i] \in Kinds
    BY <1>1, <1>2 DEF Filled, TypeOK, Kinds
  <2> QED BY <2>1, <2>2 DEF Filled
<1>4. Spare'
  BY <1>1, <1>2 DEF Spare, InHand, TypeOK
<1>5. Handling'
  BY <1>1 DEF Handling, TypeOK
<1> QED BY <1>3, <1>4, <1>5

LEMMA FreeKeeps == ASSUME Always, Sound, Free PROVE Sound'
<1> USE DEF Sound, Always
<1>1. /\ tpc = "free" /\ tpc' = "loop"
      /\ occupied' = [occupied EXCEPT ![slot] = FALSE]
      /\ kind' = [kind EXCEPT ![slot] = IF kind[slot] = "zeroed" THEN kind[slot] ELSE "none"]
      /\ UNCHANGED <<ring, slot, caller, flags, closing, overran, taskv>>
  BY DEF Free
<1>2. ~InUseBy(slot)
  BY <1>1, QueueAssumption DEF InUseBy, Handling, Steps, Entry, TypeOK
<1> QED BY <1>1, <1>2 DEF Filled, Spare, Handling, InUseBy, InHand, TypeOK

LEMMA DestroyKeeps == ASSUME Always, Sound, MlmeQueueDestroy PROVE Sound'
<1> USE DEF Sound, Always
<1>1. closing' = "closed" /\ head' = 0 /\ tail' = 0 /\ num' = 0 /\ tpc = "gone" /\ tpc' = tpc
  BY DEF MlmeQueueDestroy, Ending
<1>2. \A i \in Slots : ~InUseBy(i)'
  BY <1>1, QueueAssumption DEF InUseBy, Steps
<1> QED BY <1>1, <1>2, QueueAssumption DEF Filled, Spare, Handling, Entry

LEMMA SoundStep == ASSUME Always, Sound, [Next]_vars, ~overran' PROVE Sound'
<1>1. CASE \E c \in Contexts, k \in Kinds : Enqueue(c, k)
  BY <1>1, Untouched DEF Enqueue
<1>2. CASE \E c \in Contexts : Calls(c)
  BY <1>2, InsertKeeps, Untouched DEF Calls, WakeMlme
<1>3. CASE Thread
  <2>1. CASE MlmeWait \/ MlmeGone \/ Loop
    BY <2>1, Untouched DEF MlmeWait, MlmeGone, Loop
  <2>2. CASE Perform
    BY <2>2 DEF Perform, Sound, Filled, Spare, Handling, InUseBy, InHand
  <2> QED BY <1>3, <2>1, <2>2, DequeueKeeps, PutBackKeeps, FreeKeeps DEF Thread
<1>4. CASE MlmePeriodicExec \/ Suspend \/ Wakes \/ RadioOff \/ UNCHANGED vars
  BY <1>4, Untouched DEF MlmePeriodicExec, Suspend, Wakes, RadioOff, vars
<1>5. CASE Close
  BY <1>5, DestroyKeeps, Untouched DEF Close, MlmeHalt, MlmeKilled
<1> QED BY <1>1, <1>2, <1>3, <1>4, <1>5 DEF Next

\* a frame that has gone back into a full ring is not forgotten
LEMMA OverranStays == [Next]_vars => (overran => overran')
<1>1. CASE Thread
  BY <1>1 DEF Thread, MlmeWait, MlmeGone, Loop, MlmeDequeue, PutBack, Perform, Free
<1>2. CASE \E c \in Contexts : Calls(c)
  BY <1>2 DEF Calls, Insert, WakeMlme
<1>3. CASE Close \/ RadioOff \/ Wakes \/ Suspend \/ MlmePeriodicExec \/ UNCHANGED vars
  BY <1>3 DEF Close, MlmeHalt, MlmeKilled, MlmeQueueDestroy, RadioOff, Wakes, Suspend,
              MlmePeriodicExec, vars
<1>4. CASE \E c \in Contexts, k \in Kinds : Enqueue(c, k)
  BY <1>4 DEF Enqueue
<1> QED BY <1>1, <1>2, <1>3, <1>4 DEF Next

LEMMA RingStep == RingInv /\ [Next]_vars => RingInv'
BY AlwaysStep, SoundStep, OverranStays DEF RingInv

-----------------------------------------------------------------------------
(* The theorems.                                                            *)

LEMMA RingMeans == RingInv => RingCoherent
<1> SUFFICES ASSUME RingInv PROVE RingCoherent
  OBVIOUS
<1> USE DEF RingInv, Always
<1>1. SUFFICES ASSUME closing # "closed", ~overran
               PROVE  /\ num <= N /\ tail = (head + num) % N
                      /\ \A i \in Slots : occupied[i] <=> InRing(i) \/ InHand(i)
                      /\ \A i \in Slots : InRing(i) \/ (tpc = "work" /\ i = slot) => kind[i] \in Kinds
  BY DEF RingCoherent
<1>2. Sound /\ num \in 0..N
  BY <1>1 DEF Sound, Filled, TypeOK
<1>3. tail = (head + num) % N
  BY <1>2, Wrap DEF Sound, Filled, TypeOK
<1>4. \A i \in Slots : InRing(i) <=> InUseBy(i)
  BY <1>2, Within DEF InRing, InUseBy, TypeOK
<1>5. \A i \in Slots : occupied[i] <=> InRing(i) \/ InHand(i)
  BY <1>1, <1>2, <1>4 DEF Sound, Spare, Filled, Handling, InHand
<1> QED BY <1>2, <1>3, <1>4, <1>5 DEF Sound, Filled, Handling

\* For every size of the ring and any contexts: the ring is coherent until it is
\* destroyed or a frame goes back into it while it is full.
THEOREM RingStaysCoherent == Spec => []RingCoherent
<1>1. Init => RingInv
  BY RingStart
<1> QED BY <1>1, RingStep, RingMeans, PTL DEF Spec

-----------------------------------------------------------------------------
(* The messages that are never put back, as the mailbox sees them.          *)

Pick(f, s, n) == IF n = 0 THEN <<>>
                 ELSE IF Ordinary(s[n]) THEN Append(f[n - 1], s[n]) ELSE f[n - 1]
Picks(f, s) == f \in [0..Len(s) -> Seq(Kinds)] /\ \A n \in 0..Len(s) : f[n] = Pick(f, s, n)

\* there is such a function, for every sequence
LEMMA PicksExist == ASSUME NEW s \in Seq(Kinds) PROVE \E f : Picks(f, s)
<1> DEFINE Good(f, n) == f \in [0..n -> Seq(Kinds)] /\ \A i \in 0..n : f[i] = Pick(f, s, i)
           Some(n) == \E f : Good(f, n)
           I == {n \in Nat : n <= Len(s) => Some(n)}
<1>1. 0 \in I
  <2>1. Good([i \in 0..0 |-> <<>>], 0)
    BY DEF Pick
  <2> QED BY <2>1
<1>2. ASSUME NEW n \in I PROVE n + 1 \in I
  <2> HIDE DEF Some
  <2> SUFFICES ASSUME n + 1 <= Len(s) PROVE Some(n + 1)
    OBVIOUS
  <2>0. n \in Nat /\ Len(s) \in Nat /\ n <= Len(s) /\ Some(n)
    OBVIOUS
  <2> USE DEF Some
  <2>1. PICK f : Good(f, n)
    BY <2>0
  <2> DEFINE g == [i \in 0..(n + 1) |-> IF i = n + 1 THEN Pick(f, s, n + 1) ELSE f[i]]
  <2>2. /\ 0..(n + 1) = 0..n \cup {n + 1} /\ n \in 0..n /\ n + 1 \notin 0..n
        /\ n + 1 # 0 /\ (n + 1) - 1 = n /\ n + 1 \in 1..Len(s)
    BY <2>0
  <2>3. Pick(f, s, n + 1) \in Seq(Kinds)
    <3>1. f[n] \in Seq(Kinds) /\ s[n + 1] \in Kinds
      BY <2>1, <2>2
    <3> QED BY <2>2, <3>1, AppendProperties DEF Pick
  <2>4. g \in [0..(n + 1) -> Seq(Kinds)]
    BY <2>1, <2>2, <2>3
  <2>5. ASSUME NEW i \in 0..(n + 1) PROVE g[i] = Pick(g, s, i)
    <3>1. i # 0 => i - 1 \in 0..n /\ g[i - 1] = f[i - 1]
      BY <2>0, <2>2
    <3>2. Pick(g, s, i) = Pick(f, s, i)
      BY <3>1 DEF Pick
    <3> QED BY <2>1, <2>2, <3>2
  <2> QED BY <2>4, <2>5
<1>3. I = Nat
  <2>1. I \subseteq Nat
    OBVIOUS
  <2> HIDE DEF I
  <2> QED BY <1>1, <1>2, <2>1, Induction
<1>4. Some(Len(s))
  <2> HIDE DEF Some
  <2>1. Len(s) \in Nat /\ Len(s) <= Len(s)
    OBVIOUS
  <2>2. \A n \in Nat : n <= Len(s) => Some(n)
    BY <1>3
  <2> QED BY <2>1, <2>2
<1> QED BY <1>4 DEF Picks

LEMMA PicksGive ==
  ASSUME NEW s \in Seq(Kinds)
  PROVE  \E f : Picks(f, s) /\ Ordinaries(s) = f[Len(s)]
<1> DEFINE Is(f) == f = [n \in 0..Len(s) |-> IF n = 0 THEN <<>>
                                ELSE IF Ordinary(s[n]) THEN Append(f[n - 1], s[n])
                                ELSE f[n - 1]]
<1>1. PICK f : Picks(f, s)
  BY PicksExist
<1>2. Is(f)
  BY <1>1 DEF Picks, Pick
<1>3. Is(CHOOSE g : Is(g))
  BY <1>2
<1>4. Ordinaries(s) = (CHOOSE g : Is(g))[Len(s)]
  BY DEF Ordinaries
<1> DEFINE h == CHOOSE g : Is(g)
<1> HIDE DEF h
<1>5. Is(h) /\ Ordinaries(s) = h[Len(s)]
  BY <1>3, <1>4 DEF h
<1>6. h = f
  <2>0. \A g : Is(g) => \A n \in 0..Len(s) : g[n] = Pick(g, s, n)
    BY DEF Pick
  <2> DEFINE I == {n \in Nat : n <= Len(s) => h[n] = f[n]}
  <2>1. 0 \in I
    BY <1>2, <1>5
  <2>2. ASSUME NEW n \in I PROVE n + 1 \in I
    <3> SUFFICES ASSUME n + 1 <= Len(s) PROVE h[n + 1] = f[n + 1]
      OBVIOUS
    <3>1. n + 1 \in 0..Len(s) /\ n + 1 # 0 /\ (n + 1) - 1 = n /\ h[n] = f[n]
      OBVIOUS
    <3>2. h[n + 1] = Pick(h, s, n + 1) /\ f[n + 1] = Pick(f, s, n + 1)
      BY <1>2, <1>5, <2>0, <3>1
    <3> QED BY <3>1, <3>2 DEF Pick
  <2>3. I = Nat
    <3>1. I \subseteq Nat
      OBVIOUS
    <3> HIDE DEF I
    <3> QED BY <2>1, <2>2, <3>1, Induction
  <2>4. \A n \in 0..Len(s) : h[n] = f[n]
    BY <2>3
  <2> QED BY <2>4, <1>2, <1>5
<1> QED BY <1>1, <1>5, <1>6

\* what is appended to the ring is appended to the box
LEMMA OrdinariesAppend ==
  ASSUME NEW s \in Seq(Kinds), NEW k \in Kinds
  PROVE  Ordinaries(Append(s, k)) = IF Ordinary(k) THEN Append(Ordinaries(s), k) ELSE Ordinaries(s)
<1> DEFINE t == Append(s, k)
<1>1. /\ t \in Seq(Kinds) /\ Len(t) = Len(s) + 1 /\ Len(s) \in Nat
      /\ t[Len(s) + 1] = k /\ \A i \in 1..Len(s) : t[i] = s[i]
  OBVIOUS
<1> HIDE DEF t
<1>2. PICK f : Picks(f, s) /\ Ordinaries(s) = f[Len(s)]
  BY PicksGive
<1>3. PICK g : Picks(g, t) /\ Ordinaries(t) = g[Len(t)]
  BY <1>1, PicksGive
<1> DEFINE I == {n \in Nat : n <= Len(s) => g[n] = f[n]}
<1>4. 0 \in I
  BY <1>1, <1>2, <1>3 DEF Picks, Pick
<1>5. ASSUME NEW n \in I PROVE n + 1 \in I
  <2> SUFFICES ASSUME n + 1 <= Len(s) PROVE g[n + 1] = f[n + 1]
    OBVIOUS
  <2>1. /\ n + 1 \in 0..Len(s) /\ n + 1 \in 0..Len(t) /\ n + 1 \in 1..Len(s)
        /\ n + 1 # 0 /\ (n + 1) - 1 = n /\ g[n] = f[n]
    BY <1>1
  <2>2. t[n + 1] = s[n + 1]
    BY <1>1, <2>1
  <2>3. f[n + 1] = Pick(f, s, n + 1) /\ g[n + 1] = Pick(g, t, n + 1)
    BY <1>2, <1>3, <2>1 DEF Picks
  <2> QED BY <2>1, <2>2, <2>3 DEF Pick
<1>6. I = Nat
  <2>1. I \subseteq Nat
    OBVIOUS
  <2> HIDE DEF I
  <2> QED BY <1>4, <1>5, <2>1, Induction
<1>7. g[Len(s)] = f[Len(s)]
  BY <1>1, <1>6
<1>8. g[Len(s) + 1] = Pick(g, t, Len(s) + 1) /\ Len(s) + 1 # 0 /\ (Len(s) + 1) - 1 = Len(s)
  BY <1>1, <1>3 DEF Picks
<1> QED BY <1>1, <1>2, <1>3, <1>7, <1>8 DEF Pick, t

\* what is taken from the ring is taken from the box
LEMMA OrdinariesTail ==
  ASSUME NEW s \in Seq(Kinds), s # <<>>
  PROVE  IF Ordinary(Head(s))
         THEN /\ Ordinaries(s) # <<>> /\ Head(Ordinaries(s)) = Head(s)
              /\ Tail(Ordinaries(s)) = Ordinaries(Tail(s))
         ELSE Ordinaries(s) = Ordinaries(Tail(s))
<1> DEFINE t == Tail(s)
           h == Head(s)
<1>1. /\ t \in Seq(Kinds) /\ Len(s) \in Nat /\ Len(s) # 0 /\ Len(t) = Len(s) - 1
      /\ h = s[1] /\ h \in Kinds /\ \A i \in 1..Len(t) : t[i] = s[i + 1]
  OBVIOUS
<1> HIDE DEF t, h
<1>2. PICK f : Picks(f, s) /\ Ordinaries(s) = f[Len(s)]
  BY PicksGive
<1>3. PICK g : Picks(g, t) /\ Ordinaries(t) = g[Len(t)]
  BY <1>1, PicksGive
<1> DEFINE Ahead(n) == IF Ordinary(h)
                       THEN f[n + 1] # <<>> /\ Head(f[n + 1]) = h /\ Tail(f[n + 1]) = g[n]
                       ELSE f[n + 1] = g[n]
           I == {n \in Nat : n <= Len(t) => Ahead(n)}
<1>4. 0 \in I
  <2>1. f[0] = <<>> /\ g[0] = <<>>
    BY <1>1, <1>2, <1>3 DEF Picks, Pick
  <2>2. f[1] = IF Ordinary(h) THEN Append(<<>>, h) ELSE <<>>
    <3>1. f[1] = Pick(f, s, 1) /\ 1 - 1 = 0 /\ 1 # 0
      BY <1>1, <1>2 DEF Picks
    <3>2. Pick(f, s, 1) = IF Ordinary(s[1]) THEN Append(f[0], s[1]) ELSE f[0]
      BY <3>1 DEF Pick
    <3> QED BY <1>1, <2>1, <3>1, <3>2
  <2>3. Append(<<>>, h) # <<>> /\ Head(Append(<<>>, h)) = h /\ Tail(Append(<<>>, h)) = <<>>
    BY <1>1
  <2>4. Ahead(0)
    <3>1. 0 + 1 = 1
      OBVIOUS
    <3> QED BY <2>1, <2>2, <2>3, <3>1
  <2> QED BY <2>4
<1>5. ASSUME NEW n \in I PROVE n + 1 \in I
  <2> SUFFICES ASSUME n + 1 <= Len(t) PROVE Ahead(n + 1)
    OBVIOUS
  <2>1. /\ n + 1 \in 0..Len(t) /\ n + 1 \in 1..Len(t) /\ n \in 0..Len(t)
        /\ n + 1 \in 0..Len(s) /\ (n + 1) + 1 \in 0..Len(s)
        /\ n + 1 # 0 /\ (n + 1) - 1 = n /\ (n + 1) + 1 # 0 /\ ((n + 1) + 1) - 1 = n + 1
    BY <1>1
  <2>2. Ahead(n)
    BY <2>1
  <2>3. t[n + 1] = s[(n + 1) + 1] /\ t[n + 1] \in Kinds
    BY <1>1, <2>1
  <2>4. g[n + 1] = Pick(g, t, n + 1) /\ f[(n + 1) + 1] = Pick(f, s, (n + 1) + 1)
    BY <1>2, <1>3, <2>1 DEF Picks
  <2>5. g[n] \in Seq(Kinds) /\ f[n + 1] \in Seq(Kinds)
    BY <1>2, <1>3, <2>1 DEF Picks
  <2> DEFINE k == t[n + 1]
  <2>6. /\ Append(f[n + 1], k) # <<>>
        /\ f[n + 1] # <<>> => /\ Head(Append(f[n + 1], k)) = Head(f[n + 1])
                              /\ Tail(Append(f[n + 1], k)) = Append(Tail(f[n + 1]), k)
    <3> HIDE DEF k
    <3>1. k \in Kinds
      BY <2>3 DEF k
    <3> DEFINE r == f[n + 1]
    <3>2. r \in Seq(Kinds)
      BY <2>5
    <3> HIDE DEF r
    <3>3. Append(r, k) # <<>>
      BY <3>1, <3>2, AppendProperties
    <3>4. r # <<>> => Head(Append(r, k)) = Head(r) /\ Tail(Append(r, k)) = Append(Tail(r), k)
      BY <3>2, HeadTailAppend
    <3> QED BY <3>3, <3>4 DEF r
  <2>7. /\ g[n + 1] = IF Ordinary(k) THEN Append(g[n], k) ELSE g[n]
        /\ f[(n + 1) + 1] = IF Ordinary(k) THEN Append(f[n + 1], k) ELSE f[n + 1]
    BY <2>1, <2>3, <2>4 DEF Pick
  <2> HIDE DEF k
  <2> QED BY <2>2, <2>6, <2>7
<1>6. I = Nat
  <2>1. I \subseteq Nat
    OBVIOUS
  <2> HIDE DEF I
  <2> QED BY <1>4, <1>5, <2>1, Induction
<1>7. Ahead(Len(t))
  <2> HIDE DEF Ahead
  <2>1. Len(t) \in Nat /\ Len(t) <= Len(t)
    BY <1>1
  <2>2. \A n \in Nat : n <= Len(t) => Ahead(n)
    BY <1>6
  <2> QED BY <2>1, <2>2
<1>8. Len(t) + 1 = Len(s)
  BY <1>1
<1> QED BY <1>2, <1>3, <1>7, <1>8 DEF t, h

LEMMA OrdinariesNone == Ordinaries(<<>>) = <<>>
<1>1. PICK f : Picks(f, <<>>) /\ Ordinaries(<<>>) = f[Len(<<>>)]
  BY PicksGive, EmptySeq
<1>2. Len(<<>>) = 0
  BY EmptySeq
<1> QED BY <1>1, <1>2 DEF Picks, Pick

-----------------------------------------------------------------------------
(* The messages in the ring, as a sequence, and what the steps do to it.    *)

InOrder(h, n, m) == [j \in 1..n |-> m[Entry(h, j - 1)]]

LEMMA InOrderIs ==
  ASSUME NEW h \in Slots, NEW n \in 0..N, NEW m
  PROVE  [j \in 1..n |-> m[(h + j - 1) % N]] = InOrder(h, n, m)
<1>1. ASSUME NEW j \in 1..n PROVE (h + j - 1) % N = Entry(h, j - 1)
  <2>1. h + j - 1 = h + (j - 1) /\ j - 1 \in 0..N
    BY QueueAssumption
  <2> QED BY <2>1, Wrap
<1> QED BY <1>1 DEF InOrder

Whole(h, n, m) == \A i \in Slots : Steps(h, i) < n => m[i] \in Kinds

LEMMA InOrderWithin ==
  ASSUME NEW h \in Slots, NEW n \in 0..N, NEW j \in 1..n
  PROVE  Entry(h, j - 1) \in Slots /\ Steps(h, Entry(h, j - 1)) < n
BY QueueAssumption DEF Entry, Steps

LEMMA InOrderType ==
  ASSUME NEW h \in Slots, NEW n \in 0..N, NEW m, Whole(h, n, m)
  PROVE  /\ InOrder(h, n, m) \in Seq(Kinds) /\ Len(InOrder(h, n, m)) = n
         /\ \A j \in 1..n : InOrder(h, n, m)[j] = m[Entry(h, j - 1)]
<1> DEFINE s == InOrder(h, n, m)
<1>1. ASSUME NEW j \in 1..n PROVE Entry(h, j - 1) \in Slots /\ Steps(h, Entry(h, j - 1)) < n
  BY InOrderWithin
<1>2. s \in [1..n -> Kinds] /\ \A j \in 1..n : s[j] = m[Entry(h, j - 1)]
  BY <1>1 DEF InOrder, Whole
<1> HIDE DEF s
<1>3. n \in Nat
  OBVIOUS
<1>4. s \in Seq(Kinds)
  BY <1>2, <1>3, SeqDef
<1>5. Len(s) = n
  <2>1. Len(s) \in Nat /\ DOMAIN s = 1..Len(s) /\ DOMAIN s = 1..n
    BY <1>2, <1>4, LenProperties
  <2>2. \A a, b \in Nat : 1..a = 1..b => a = b
    <3> SUFFICES ASSUME NEW a \in Nat, NEW b \in Nat, 1..a = 1..b, a # b PROVE FALSE
      OBVIOUS
    <3> QED OBVIOUS
  <2> QED BY <1>3, <2>1, <2>2
<1> QED BY <1>2, <1>4, <1>5 DEF s

LEMMA InOrderGrows ==
  ASSUME NEW h \in Slots, NEW n \in 0..(N - 1), NEW m \in [Slots -> Kinds \cup Spoilt],
         NEW k \in Kinds, Whole(h, n, m)
  PROVE  InOrder(h, n + 1, [m EXCEPT ![Entry(h, n)] = k]) = Append(InOrder(h, n, m), k)
<1> DEFINE e == Entry(h, n)
           w == [m EXCEPT ![e] = k]
           s == InOrder(h, n, m)
           t == InOrder(h, n + 1, w)
<1>1. /\ n \in 0..N /\ n + 1 \in 0..N /\ e \in Slots
      /\ w[e] = k /\ \A i \in Slots : i # e => w[i] = m[i]
  BY QueueAssumption DEF Entry
<1>2. \A i \in Slots : Steps(h, i) < n + 1 => Steps(h, i) < n \/ i = e
  BY QueueAssumption DEF Entry, Steps
<1> HIDE DEF e, w
<1>3. Whole(h, n + 1, w)
  BY <1>1, <1>2 DEF Whole
<1>4. s \in Seq(Kinds) /\ Len(s) = n /\ \A j \in 1..n : s[j] = m[Entry(h, j - 1)]
  BY <1>1, InOrderType
<1>5. t \in Seq(Kinds) /\ Len(t) = n + 1 /\ \A j \in 1..(n + 1) : t[j] = w[Entry(h, j - 1)]
  BY <1>1, <1>3, InOrderType
<1> HIDE DEF s, t
<1>6. /\ Append(s, k) \in Seq(Kinds) /\ Len(Append(s, k)) = n + 1
      /\ \A j \in 1..n : Append(s, k)[j] = s[j]
      /\ Append(s, k)[n + 1] = k
  BY <1>4, AppendProperties
<1>7. ASSUME NEW j \in 1..(n + 1) PROVE t[j] = Append(s, k)[j]
  <2>1. CASE j = n + 1
    <3>1. j - 1 = n
      BY <2>1
    <3>2. t[j] = w[Entry(h, n)]
      BY <1>5, <3>1
    <3> QED BY <1>1, <1>6, <2>1, <3>2 DEF e
  <2>2. CASE j \in 1..n
    <3>1. Entry(h, j - 1) \in Slots /\ Entry(h, j - 1) # e
      BY <2>2, QueueAssumption DEF Entry, e
    <3>2. t[j] = m[Entry(h, j - 1)]
      BY <1>1, <1>5, <3>1
    <3> QED BY <1>4, <1>6, <2>2, <3>2
  <2>3. j = n + 1 \/ j \in 1..n
    BY QueueAssumption
  <2> QED BY <2>1, <2>2, <2>3
<1> QED BY <1>5, <1>6, <1>7, SeqEqual DEF s, t, w, e

LEMMA InOrderShrinks ==
  ASSUME NEW h \in Slots, NEW n \in 1..N, NEW m, Whole(h, n, m)
  PROVE  /\ InOrder(h, n, m) # <<>> /\ Head(InOrder(h, n, m)) = m[h]
         /\ InOrder(Entry(h, 1), n - 1, m) = Tail(InOrder(h, n, m))
<1> DEFINE s == InOrder(h, n, m)
           t == InOrder(Entry(h, 1), n - 1, m)
<1>1. /\ n \in 0..N /\ n - 1 \in 0..N /\ Entry(h, 1) \in Slots
      /\ Entry(h, 0) = h /\ h \in Slots
  BY QueueAssumption DEF Entry
<1>2. \A i \in Slots : Steps(Entry(h, 1), i) < n - 1 => Steps(h, i) < n
  BY QueueAssumption DEF Entry, Steps
<1>3. Whole(Entry(h, 1), n - 1, m)
  BY <1>2 DEF Whole
<1>4. s \in Seq(Kinds) /\ Len(s) = n /\ \A j \in 1..n : s[j] = m[Entry(h, j - 1)]
  BY <1>1, InOrderType
<1>5. /\ t \in Seq(Kinds) /\ Len(t) = n - 1
      /\ \A j \in 1..(n - 1) : t[j] = m[Entry(Entry(h, 1), j - 1)]
  BY <1>1, <1>3, InOrderType
<1> HIDE DEF s, t
<1>6. s # <<>> /\ Head(s) = m[h]
  <2>1. s # <<>> /\ Head(s) = s[1]
    BY <1>4
  <2>2. s[1] = m[Entry(h, 1 - 1)] /\ 1 - 1 = 0
    BY <1>4
  <2> QED BY <1>1, <2>1, <2>2
<1>7. /\ Tail(s) \in Seq(Kinds) /\ Len(Tail(s)) = n - 1
      /\ \A j \in 1..(n - 1) : Tail(s)[j] = s[j + 1]
  BY <1>4, <1>6, HeadTailProperties
<1>8. ASSUME NEW j \in 1..(n - 1) PROVE t[j] = Tail(s)[j]
  <2>1. Entry(Entry(h, 1), j - 1) = Entry(h, (j + 1) - 1)
    BY QueueAssumption DEF Entry
  <2>2. s[j + 1] = m[Entry(h, (j + 1) - 1)]
    BY <1>4
  <2> QED BY <1>5, <1>7, <2>1, <2>2
<1> QED BY <1>5, <1>6, <1>7, <1>8, SeqEqual DEF s, t

-----------------------------------------------------------------------------
(* Every step is one of the mailbox, or leaves what it sees as it is.       *)

MailStep == [Promise!Next]_<<Waiting, Working, Ordered>>

LEMMA MessagesAre ==
  ASSUME Always, Sound
  PROVE  /\ Messages = InOrder(head, num, kind) /\ Whole(head, num, kind)
         /\ Messages \in Seq(Kinds)
<1>1. head \in Slots /\ num \in 0..N
  BY DEF Always, Sound, Filled, TypeOK
<1>2. Messages = InOrder(head, num, kind)
  BY <1>1, InOrderIs DEF Messages
<1>3. Whole(head, num, kind)
  BY DEF Sound, Filled, InUseBy, Whole
<1> QED BY <1>1, <1>2, <1>3, InOrderType

\* until a frame goes back into a full ring
LEMMA WhileSound ==
  ASSUME ~overran, ~overran'
  PROVE  /\ Waiting = Ordinaries(Messages) /\ Waiting' = Ordinaries(Messages')
         /\ Working = (IF tpc = "work" /\ Ordinary(kind[slot]) THEN kind[slot] ELSE "nobody")
         /\ Working' = (IF tpc' = "work" /\ Ordinary(kind'[slot']) THEN kind'[slot']
                                                                  ELSE "nobody")
         /\ Ordered = (closing # "closed") /\ Ordered' = (closing' # "closed")
BY DEF Waiting, Working, Ordered

\* steps after which the ring holds the same messages
LEMMA SameMail ==
  ASSUME ~overran, ~overran', Messages' = Messages, closing' = closing,
         Working' = Working \/ (Working # "nobody" /\ Working' = "nobody")
  PROVE  MailStep
<1>1. Waiting' = Waiting /\ Ordered' = Ordered
  BY WhileSound
<1> QED BY <1>1 DEF MailStep, Promise!Next, Promise!Finish

LEMMA InsertMail ==
  ASSUME Always, Sound, ~overran, ~overran', NEW c \in Contexts, Insert(c)
  PROVE  MailStep
<1>1. UNCHANGED <<head, thread, flags, closing, overran, taskv>>
  BY DEF Insert
<1>2. CASE occupied[tail]
  <2>1. Messages' = Messages /\ Working' = Working /\ closing' = closing
    BY <1>1, <1>2 DEF Insert, Messages, Working
  <2> QED BY <2>1, SameMail
<1>3. CASE ~occupied[tail]
  <2> DEFINE k == ckind[c]
  <2>1. k \in Kinds
    BY DEF Insert, Always, Calling
  <2>2. kind' = [kind EXCEPT ![tail] = k] /\ num' = num + 1
    BY <1>3 DEF Insert
  <2> HIDE DEF k
  <2>3. num \in 0..(N - 1) /\ tail = Entry(head, num) /\ head \in Slots
    BY <1>3, QueueAssumption DEF Always, Sound, Filled, InUseBy, Steps, Entry, TypeOK
  <2>4. Messages' = Append(Messages, k)
    <3>1. Messages = InOrder(head, num, kind) /\ Whole(head, num, kind)
      BY MessagesAre
    <3>2. Messages' = InOrder(head, num + 1, kind')
      <4>1. num + 1 \in 0..N
        BY <2>3, QueueAssumption
      <4>2. Messages' = [j \in 1..(num + 1) |-> kind'[(head + j - 1) % N]]
        BY <1>1, <2>2 DEF Messages
      <4> QED BY <2>3, <4>1, <4>2, InOrderIs
    <3>3. kind \in [Slots -> Kinds \cup Spoilt]
      BY DEF Always, TypeOK
    <3> QED BY <2>1, <2>2, <2>3, <3>1, <3>2, <3>3, InOrderGrows
  <2>5. Waiting' = IF Ordinary(k) THEN Append(Waiting, k) ELSE Waiting
    BY <2>1, <2>4, MessagesAre, OrdinariesAppend, WhileSound
  <2>6. Working' = Working
    <3>1. tpc = "work" => slot # tail
      BY <1>3 DEF Sound, Handling
    <3> QED BY <1>1, <2>2, <3>1, WhileSound DEF Always, TypeOK
  <2>7. Ordered' = Ordered
    BY <1>1 DEF Ordered
  <2>8. Waiting' = Waiting \/ Promise!Post(k)
    BY <2>5, <2>6, <2>7 DEF Promise!Post
  <2> QED BY <2>1, <2>6, <2>7, <2>8 DEF MailStep, Promise!Next
<1> QED BY <1>2, <1>3

LEMMA DequeueMail ==
  ASSUME Always, Sound, ~overran, ~overran', MlmeDequeue
  PROVE  MailStep
<1>1. /\ tpc = "take" /\ tpc' = "work" /\ slot' = head /\ num' = num - 1
      /\ head' = Entry(head, 1) /\ kind' = kind /\ closing' = closing
      /\ num \in 1..N /\ head \in Slots
  BY Wrap, QueueAssumption DEF MlmeDequeue, Always, Sound, Filled, Taking, TypeOK
<1>2. /\ Messages # <<>> /\ Head(Messages) = kind[head] /\ Messages' = Tail(Messages)
  <2>1. Messages = InOrder(head, num, kind) /\ Whole(head, num, kind)
    BY MessagesAre
  <2>2. Messages' = InOrder(Entry(head, 1), num - 1, kind)
    <3>1. Entry(head, 1) \in Slots /\ num - 1 \in 0..N
      BY <1>1, QueueAssumption DEF Entry
    <3>2. Messages' = [j \in 1..(num - 1) |-> kind[(Entry(head, 1) + j - 1) % N]]
      BY <1>1 DEF Messages
    <3> QED BY <3>1, <3>2, InOrderIs
  <2> QED BY <1>1, <2>1, <2>2, InOrderShrinks
<1>3. Working = "nobody" /\ Working' = IF Ordinary(kind[head]) THEN kind[head] ELSE "nobody"
  BY <1>1, WhileSound
<1>4. Waiting' = Ordinaries(Tail(Messages)) /\ Waiting = Ordinaries(Messages)
  BY <1>2, WhileSound
<1>5. Ordered' = Ordered
  BY <1>1, WhileSound
<1>6. CASE Ordinary(kind[head])
  <2>1. Waiting # <<>> /\ Head(Waiting) = kind[head] /\ Tail(Waiting) = Waiting'
    BY <1>2, <1>4, <1>6, MessagesAre, OrdinariesTail
  <2>2. Promise!Take
    BY <1>3, <1>5, <1>6, <2>1 DEF Promise!Take
  <2> QED BY <2>2 DEF MailStep, Promise!Next
<1>7. CASE ~Ordinary(kind[head])
  <2>1. Waiting' = Waiting
    BY <1>2, <1>4, <1>7, MessagesAre, OrdinariesTail
  <2> QED BY <1>3, <1>5, <1>7, <2>1 DEF MailStep
<1> QED BY <1>6, <1>7

LEMMA PutBackMail ==
  ASSUME Always, Sound, ~overran, ~overran', PutBack
  PROVE  MailStep
<1>1. /\ kind[slot] = "eapol" /\ num + 1 < N
      /\ tpc = "work" /\ tpc' = "free" /\ num' = num + 1
      /\ kind' = [kind EXCEPT ![tail] = "eapol"]
      /\ head' = head /\ slot' = slot /\ closing' = closing
  BY PutBackIs
<1>2. num \in 0..(N - 1) /\ tail = Entry(head, num) /\ head \in Slots /\ num + 1 \in 0..N
  BY <1>1, QueueAssumption DEF Always, Sound, Filled, TypeOK
<1>3. Messages' = Append(Messages, "eapol")
  <2>1. Messages = InOrder(head, num, kind) /\ Whole(head, num, kind)
    BY MessagesAre
  <2>2. Messages' = InOrder(head, num + 1, kind')
    <3>1. Messages' = [j \in 1..(num + 1) |-> kind'[(head + j - 1) % N]]
      BY <1>1 DEF Messages
    <3> QED BY <1>2, <3>1, InOrderIs
  <2>3. kind \in [Slots -> Kinds \cup Spoilt] /\ "eapol" \in Kinds
    BY DEF Always, TypeOK, Kinds
  <2> QED BY <1>1, <1>2, <2>1, <2>2, <2>3, InOrderGrows
<1>4. Waiting' = Waiting
  BY <1>3, MessagesAre, OrdinariesAppend, WhileSound DEF Kinds, Ordinary
<1>5. Working = "nobody" /\ Working' = "nobody" /\ Ordered' = Ordered
  BY <1>1, WhileSound DEF Ordinary
<1> QED BY <1>4, <1>5 DEF MailStep

\* a frame that goes back into a full ring: the mailbox is destroyed
LEMMA OverrunMail == ASSUME Always, Sound, ~overran, overran', PutBack PROVE MailStep
<1>1. tpc = "work" /\ closing # "closed" /\ ~Ordinary(kind[slot])
  BY DEF PutBack, NotYet, Always, Ending, Ordinary, Kinds
<1>2. Working = "nobody" /\ Working' = "nobody"
  BY <1>1 DEF Working
<1>3. Ordered = TRUE /\ Ordered' = FALSE /\ Waiting' = <<>>
  BY <1>1 DEF Ordered, Waiting
<1> QED BY <1>2, <1>3 DEF MailStep, Promise!Next, Promise!Destroy

LEMMA PerformMail == ASSUME ~overran, ~overran', Perform PROVE MailStep
<1>1. Messages' = Messages /\ closing' = closing /\ Working' = "nobody"
  BY DEF Perform, Messages, Working
<1> QED BY <1>1, SameMail

LEMMA FreeMail == ASSUME Always, Sound, ~overran, ~overran', Free PROVE MailStep
<1>1. /\ tpc = "free" /\ tpc' = "loop" /\ head' = head /\ num' = num /\ closing' = closing
      /\ head \in Slots /\ num \in 0..N /\ slot \in Slots /\ kind \in [Slots -> Kinds \cup Spoilt]
  BY DEF Free, Always, Sound, Filled, TypeOK
<1>2. \A x \in Slots : x # slot => kind'[x] = kind[x]
  BY <1>1 DEF Free
<1>3. ~(Steps(head, slot) < num)
  BY <1>1, QueueAssumption DEF Sound, Handling, Steps, Entry
<1>4. Messages' = InOrder(head, num, kind') /\ Messages = InOrder(head, num, kind)
  <2>1. Messages' = [j \in 1..num |-> kind'[(head + j - 1) % N]]
    BY <1>1 DEF Messages
  <2> QED BY <1>1, <2>1, MessagesAre, InOrderIs
<1>5. Messages' = Messages
  <2>1. ASSUME NEW j \in 1..num PROVE kind'[Entry(head, j - 1)] = kind[Entry(head, j - 1)]
    <3>1. Entry(head, j - 1) \in Slots /\ Steps(head, Entry(head, j - 1)) < num
      BY <1>1, InOrderWithin
    <3> QED BY <1>2, <1>3, <3>1
  <2>2. InOrder(head, num, kind') = InOrder(head, num, kind)
    BY <2>1 DEF InOrder
  <2> QED BY <1>4, <2>2
<1>6. Working' = Working
  BY <1>1 DEF Working
<1> QED BY <1>1, <1>5, <1>6, SameMail

LEMMA DestroyMail == ASSUME Always, ~overran, ~overran', MlmeQueueDestroy PROVE MailStep
<1>1. Ordered = TRUE /\ Ordered' = FALSE /\ num' = 0 /\ tpc = "gone" /\ tpc' = "gone"
  BY DEF MlmeQueueDestroy, Ordered, Always, Ending
<1>2. Messages' = <<>>
  BY <1>1 DEF Messages
<1>3. Waiting' = <<>>
  BY <1>2, OrdinariesNone, WhileSound
<1>4. Working' = Working
  BY <1>1 DEF Working
<1> QED BY <1>1, <1>3, <1>4 DEF MailStep, Promise!Next, Promise!Destroy

LEMMA OtherMail ==
  ASSUME UNCHANGED <<head, num, kind, slot, overran>>,
         (closing' = "closed") <=> (closing = "closed"),
         (tpc' = "work") <=> (tpc = "work")
  PROVE  MailStep
<1>1. Messages' = Messages /\ Working' = Working /\ Ordered' = Ordered
  BY DEF Messages, Working, Ordered
<1>2. Waiting' = Waiting
  BY <1>1 DEF Waiting
<1> QED BY <1>1, <1>2 DEF MailStep

\* after a frame has gone back into a full ring the mailbox is empty for good
LEMMA NoMail == ASSUME overran, overran' PROVE MailStep
BY DEF MailStep, Waiting, Working, Ordered

LEMMA MailKept == RingInv /\ [Next]_vars => MailStep
<1> SUFFICES ASSUME RingInv, [Next]_vars, ~overran PROVE MailStep
  BY NoMail, OverranStays
<1>0. Always /\ Sound
  BY DEF RingInv
<1>1. CASE \E c \in Contexts, k \in Kinds : Enqueue(c, k)
  BY <1>1, OtherMail DEF Enqueue
<1>2. CASE \E c \in Contexts : Calls(c)
  <2>1. ASSUME NEW c \in Contexts, WakeMlme(c) PROVE MailStep
    BY <2>1, OtherMail DEF WakeMlme
  <2>2. ASSUME NEW c \in Contexts, Insert(c) PROVE MailStep
    <3>1. ~overran'
      BY <2>2 DEF Insert
    <3> QED BY <1>0, <2>2, <3>1, InsertMail
  <2> QED BY <1>2, <2>1, <2>2 DEF Calls
<1>3. CASE Thread
  <2>1. CASE MlmeWait \/ MlmeGone \/ Loop
    BY <2>1, OtherMail DEF MlmeWait, MlmeGone, Loop
  <2>2. CASE MlmeDequeue
    BY <1>0, <2>2, DequeueMail DEF MlmeDequeue
  <2>3. CASE PutBack
    BY <1>0, <2>3, PutBackMail, OverrunMail
  <2>4. CASE Perform
    BY <2>4, PerformMail DEF Perform
  <2>5. CASE Free
    BY <1>0, <2>5, FreeMail DEF Free
  <2> QED BY <1>3, <2>1, <2>2, <2>3, <2>4, <2>5 DEF Thread
<1>4. CASE MlmePeriodicExec \/ Suspend \/ Wakes \/ RadioOff \/ UNCHANGED vars
  BY <1>4, OtherMail DEF MlmePeriodicExec, Suspend, Wakes, RadioOff, vars
<1>5. CASE Close
  <2>1. CASE MlmeHalt \/ MlmeKilled
    BY <2>1, OtherMail DEF MlmeHalt, MlmeKilled
  <2>2. CASE MlmeQueueDestroy
    BY <1>0, <2>2, DestroyMail DEF MlmeQueueDestroy
  <2> QED BY <1>5, <2>1, <2>2 DEF Close
<1> QED BY <1>1, <1>2, <1>3, <1>4, <1>5 DEF Next

\* For every size of the ring and any contexts the ring implements the mailbox:
\* what was accepted, and is not put back, is handled once, unchanged and in the
\* order of acceptance, or freed when the queue is destroyed, until a frame goes
\* back into a full ring.
THEOREM MessagesDelivered == Spec => DeliversInOrder
<1>1. Init => RingInv /\ Promise!Init
  <2> SUFFICES ASSUME Init PROVE RingInv /\ Promise!Init
    OBVIOUS
  <2>1. Messages = <<>>
    BY DEF Init, Messages
  <2>2. Waiting = <<>>
    BY <2>1, OrdinariesNone DEF Waiting
  <2>3. Working = "nobody" /\ Ordered = TRUE
    BY DEF Init, Working, Ordered
  <2> QED BY <2>2, <2>3, RingStart DEF Promise!Init
<1>2. RingInv /\ [Next]_vars => RingInv' /\ [Promise!Next]_<<Waiting, Working, Ordered>>
  BY RingStep, MailKept DEF MailStep
<1> QED BY <1>1, <1>2, PTL DEF Spec, DeliversInOrder, Promise!Spec
=============================================================================
