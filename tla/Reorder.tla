-------------------------------- MODULE Reorder --------------------------------
(***************************************************************************)
(* Block-ack reordering on the receive side (driver/common/ba_action.c):   *)
(* the table of recipient sessions, the reordering list of each session,   *)
(* the pool of reordering blocks they share, and the two threads that work *)
(* on them: the RX tasklet (data frames and BARs) and the MLME thread      *)
(* (ADDBA and DELBA).  Around them stand the transmitting stations, each   *)
(* with its own transmit window, and the clock.                            *)
(*                                                                         *)
(* A frame is <<station, n>> with n its number counted from the beginning; *)
(* the code sees only the sequence number n modulo MAXSEQ + 1.  A step of  *)
(* a thread ends where the code takes its next lock.                       *)
(***************************************************************************)
EXTENDS Integers, SequencesExt

CONSTANTS
  Stations,    \* the peers, each with one TID
  Busy,        \* those of them that send frames and BARs
  MaxEntries,  \* MAX_LEN_OF_BA_REC_TABLE - 1: entry 0 is reserved
  PoolSize,    \* MAX_REORDERING_MPDU_NUM
  BAWinSize,   \* the agreed window
  MAXSEQ,      \* 4095 in the code
  FirstNo, MaxNo, \* bounds: the frames a station sends
  MaxGap,      \* bound: how many frames in a row may be lost for good
  MaxAge,      \* 1: the 100 ms timeout is reached, 2: that of 500 ms as well
  Events,      \* which of EventKinds happen
  Racing       \* may the MLME thread run between two steps of the RX tasklet:
               \* "no", "frames" (but not while a BAR of the old kind is
               \* handled), "all"

EventKinds == {"exhaust",   \* other sessions use up the pool
               "eap",       \* EAPOL frames are received out of order
               "bar",       \* BARs are received
               "oldbar",    \* BARs that are not of the compressed kind
               "session"}   \* sessions are torn down and set up again

ASSUME MaxSeqAssumption == /\ MAXSEQ \in Nat /\ (MAXSEQ + 1) % 2 = 0
                           /\ \E k \in 1..16 : MAXSEQ + 1 = 2^k
ASSUME SizesAssumption == /\ Busy \subseteq Stations
                          /\ MaxEntries \in Nat \ {0} /\ PoolSize \in Nat
                          /\ BAWinSize \in Nat \ {0}
\* what a station sends next must not look old (SEQ_SMALLER halves the space)
ASSUME GapAssumption == /\ MaxGap \in Nat
                        /\ 2 * BAWinSize + MaxGap < (MAXSEQ + 1) \div 2
ASSUME BoundsAssumption == /\ MaxNo \in Nat /\ FirstNo \in 0..MaxNo /\ MaxAge \in 0..2
                           /\ Events \subseteq EventKinds /\ Racing \in {"no", "frames", "all"}

VARIABLES
  (* BA_REC_ENTRY, by its index in BARecEntry *)
  status,      \* REC_BA_Status
  list,        \* the reordering list, head first
  lastIndSeq,  \* LastIndSeq
  win,         \* BAWinSize
  owner,       \* Wcid
  age,         \* how far LastIndSeqAtTimer lies back, while list is not empty
  (* the rest of the shared state *)
  numAsRecipient,
  wcidArray,   \* BARecWcidArray of each station: 0 or its entry
  free,        \* blocks on the freelist of the pool
  others,      \* blocks held by the sessions that are not modelled
  (* the two threads *)
  pc, idx, sta, no,
  (* the transmitting stations *)
  txWin,       \* the oldest frame a station may still send
  heard,       \* the newest frame or BAR of it that was received
  (* history *)
  got,         \* what was indicated in this session and may be so again
  top,         \* the newest frame indicated in this session
  mishaps      \* "dup": a frame was indicated twice, "late": after a newer one

entryv == <<status, list, lastIndSeq, win, owner, age>>
table  == <<numAsRecipient, wcidArray>>
pool   == <<free, others>>
thread == <<pc, idx, sta, no>>
tx     == <<txWin, heard>>
hist   == <<got, top, mishaps>>
vars   == <<entryv, table, pool, thread, tx, hist>>

Threads == {"rx", "mlme"}
Entries == 1..MaxEntries
Frames  == Stations \X (0..MaxNo)
Space   == MAXSEQ + 1
RESET_RCV_SEQ == 16 * Space - 1            \* 0xFFFF with 12-bit numbers
Sequence(f)   == f[2] % Space

\* include/mlme.h: `&` with a power of two, on the difference of two ints
SEQ_STEPONE(s1, s2) == s1 = (s2 + 1) % Space
SEQ_SMALLER(s1, s2) == (s1 - s2) % Space >= Space \div 2

RxPcs   == {"flush", "shifted", "decide", "enqueue", "jump", "drain", "bar", "oldbar"}
AddPcs  == {"alloc", "restart", "fill"}
DownPcs == {"down", "refresh", "clear", "release"}

TypeOK ==
  /\ status \in [Entries -> {"none", "used", "accept"}]
  /\ list \in [Entries -> Seq(Frames)]
  /\ lastIndSeq \in [Entries -> (0..MAXSEQ) \cup {RESET_RCV_SEQ}]
  /\ win \in [Entries -> {0, BAWinSize}]
  /\ owner \in [Entries -> Stations \cup {"nobody"}]
  /\ age \in [Entries -> 0..MaxAge]
  /\ numAsRecipient \in 0..MaxEntries
  /\ wcidArray \in [Stations -> {0} \cup Entries]
  /\ free \in 0..PoolSize /\ others \in 0..PoolSize
  /\ pc \in [Threads -> {"idle"} \cup RxPcs \cup AddPcs \cup DownPcs]
  /\ idx \in [Threads -> {0} \cup Entries]
  /\ sta \in [Threads -> Stations \cup {"nobody"}]
  /\ no \in 0..MaxNo
  /\ txWin \in [Stations -> FirstNo..MaxNo]
  /\ heard \in [Stations -> Int]
  /\ got \in [Stations -> SUBSET (0..MaxNo)] /\ top \in [Stations -> Int]
  /\ mishaps \subseteq {"dup", "late"}

Init ==
  /\ status = [e \in Entries |-> "none"] /\ list = [e \in Entries |-> <<>>]
  /\ lastIndSeq = [e \in Entries |-> 0] /\ win = [e \in Entries |-> 0]
  /\ owner = [e \in Entries |-> "nobody"] /\ age = [e \in Entries |-> 0]
  /\ numAsRecipient = 0 /\ wcidArray = [p \in Stations |-> 0]
  /\ free = PoolSize /\ others = 0
  /\ pc = [t \in Threads |-> "idle"] /\ idx = [t \in Threads |-> 0]
  /\ sta = [t \in Threads |-> "nobody"] /\ no = 0
  /\ txWin = [p \in Stations |-> FirstNo]
  /\ heard = [p \in Stations |-> FirstNo - 1]
  /\ got = [p \in Stations |-> {}] /\ top = [p \in Stations |-> -1]
  /\ mishaps = {}

-----------------------------------------------------------------------------
(* The reordering list.                                                     *)

\* the longest prefix of list l whose positions all satisfy P
Prefix(l, P(_)) == Max({k \in 0..Len(l) : \A j \in 1..k : P(j)})

\* how many frames ba_indicate_reordering_mpdus_in_order takes from list l
InOrderCount(l, start) == Prefix(l, LAMBDA j : Sequence(l[j]) = (start + j) % Space)

\* how many ba_indicate_reordering_mpdus_le_seq takes
LeSeqCount(l, s) ==
  Prefix(l, LAMBDA j : Sequence(l[j]) = s \/ SEQ_SMALLER(Sequence(l[j]), s))

\* ba_reordering_mpdu_insertsorted: stops at the first frame that is not
\* smaller, and gives up when that is the same one
InsertSorted(l, f) ==
  LET k == Prefix(l, LAMBDA j : SEQ_SMALLER(Sequence(l[j]), Sequence(f))) + 1
  IN  IF k <= Len(l) /\ Sequence(l[k]) = Sequence(f) THEN l ELSE InsertAt(l, k, f)

\* what is still worth remembering of the frames of p that were indicated
Recent(p, ns, w, l) ==
  {n \in ns : n >= w[p] \/ \E e \in Entries : <<p, n>> \in Range(l[e])}

\* the frames fs go up to the network stack in this order
Announce(fs) ==
  LET of(p) == {fs[j][2] : j \in {j \in DOMAIN fs : fs[j][1] = p}}
      twice == \E j \in DOMAIN fs : \/ fs[j][2] \in got[fs[j][1]]
                                    \/ \E k \in 1..(j - 1) : fs[k] = fs[j]
      late  == \E j \in DOMAIN fs :
                 \/ fs[j][2] < top[fs[j][1]]
                 \/ \E k \in 1..(j - 1) : fs[k][1] = fs[j][1] /\ fs[k][2] > fs[j][2]
  IN  /\ got' = [p \in Stations |-> Recent(p, got[p] \cup of(p), txWin, list')]
      /\ top' = [p \in Stations |-> Max({top[p]} \cup of(p))]
      /\ mishaps' = mishaps \cup {m \in {"dup"} : twice} \cup {m \in {"late"} : late}

\* the first k frames of entry e's list are taken, their blocks freed, and they
\* are announced, after the frames `before`
TakeAfter(before, e, k) ==
  /\ list' = [list EXCEPT ![e] = SubSeq(@, k + 1, Len(@))]
  /\ free' = free + k
  /\ Announce(before \o SubSeq(list[e], 1, k))
Take(e, k) == TakeAfter(<<>>, e, k)

\* ba_refresh_reordering_mpdus, under RxReRingLock
Refresh(e) == /\ Take(e, Len(list[e]))
              /\ lastIndSeq' = [lastIndSeq EXCEPT ![e] = RESET_RCV_SEQ]

SetLast(e, s) == lastIndSeq' = [lastIndSeq EXCEPT ![e] = s]
Goto(t, p) == pc' = [pc EXCEPT ![t] = p] /\ UNCHANGED <<idx, sta, no>>
\* a thread begins something new: only when the other one is done, unless they race
MayStart(t) == /\ pc[t] = "idle"
               /\ \/ \A u \in Threads : pc[u] = "idle"
                  \/ Racing = "all"
                  \/ Racing = "frames" /\ pc["rx"] \notin {"oldbar"} \cup DownPcs
Start(t, p, at) == /\ pc' = [pc EXCEPT ![t] = at]
                   /\ idx' = [idx EXCEPT ![t] = wcidArray[p]]
                   /\ sta' = [sta EXCEPT ![t] = p]

-----------------------------------------------------------------------------
(* The RX tasklet.  Indicate_AMPDU_Packet: look the entry up, flush what has *)
(* waited for too long, decide what the frame is, put it into the list, and  *)
(* indicate what has become in order.                                        *)

\* a frame without a session is indicated as it comes
RxFrame(p, n) ==
  /\ MayStart("rx") /\ p \in Busy /\ n <= MaxNo
  /\ heard' = [heard EXCEPT ![p] = Max({@, n})]
  /\ IF wcidArray[p] = 0 THEN UNCHANGED thread
                          ELSE Start("rx", p, "flush") /\ no' = n
  /\ UNCHANGED <<entryv, table, pool, txWin, hist>>

RxE == idx["rx"]
RxF == <<sta["rx"], no>>
RxSeq == Sequence(RxF)

\* ba_flush_reordering_timeout_mpdus: nothing, everything (500 ms, two frames
\* or more), or all up to the one after LastIndSeq (100 ms).  The time read
\* before it is the LastIndSeqAtTimer of everything that follows.
Timely(e)   == list[e] = <<>> \/ age[e] = 0
FlushAll(e) == ~Timely(e) /\ age[e] = 2 /\ Len(list[e]) > 1
FlushOne(e) == ~Timely(e) /\ ~FlushAll(e)

\* Mutant of RxFlush: LastIndSeq is not moved on
RxFlushStays ==
  /\ pc["rx"] = "flush"
  /\ \/ Timely(RxE) /\ UNCHANGED <<list, free, hist>>
     \/ /\ ~Timely(RxE)
        /\ Take(RxE, LeSeqCount(list[RxE], (lastIndSeq[RxE] + 1) % Space))
  /\ Goto("rx", "decide") /\ age' = [age EXCEPT ![RxE] = 0]
  /\ UNCHANGED <<status, lastIndSeq, win, owner, table, others, tx>>

RxFlush ==
  /\ pc["rx"] = "flush" /\ age' = [age EXCEPT ![RxE] = 0]
  /\ \/ Timely(RxE) /\ Goto("rx", "decide") /\ UNCHANGED <<list, lastIndSeq, free, hist>>
     \/ FlushAll(RxE) /\ Refresh(RxE) /\ Goto("rx", "decide")
     \/ LET next == (lastIndSeq[RxE] + 1) % Space IN
        /\ FlushOne(RxE) /\ Take(RxE, LeSeqCount(list[RxE], next))
        /\ SetLast(RxE, next) /\ Goto("rx", "shifted")
  /\ UNCHANGED <<status, win, owner, table, others, tx>>

\* ba_indicate_reordering_mpdus_in_order and the new LastIndSeq
Drain(e) ==
  LET k == InOrderCount(list[e], lastIndSeq[e])
  IN  /\ Take(e, k)
      /\ IF k = 0 THEN UNCHANGED lastIndSeq ELSE SetLast(e, Sequence(list[e][k]))

RxShifted ==
  /\ pc["rx"] = "shifted" /\ Drain(RxE) /\ Goto("rx", "decide")
  /\ UNCHANGED <<status, win, owner, age, table, others, tx>>

\* the frame itself is passed up
Indicate == Announce(<<RxF>>) /\ UNCHANGED free

\* the cases of Indicate_AMPDU_Packet, in the order in which they are tested
IsReset(e)  == lastIndSeq[e] = RESET_RCV_SEQ
IsNext(e)   == ~IsReset(e) /\ SEQ_STEPONE(RxSeq, lastIndSeq[e])

\* Mutant of IsOld: LastIndSeq itself passes
IsOldStrict(e) == /\ ~IsReset(e) /\ ~IsNext(e)
                  /\ SEQ_SMALLER(RxSeq, lastIndSeq[e])

IsOld(e)    == /\ ~IsReset(e) /\ ~IsNext(e)
               /\ RxSeq = lastIndSeq[e] \/ SEQ_SMALLER(RxSeq, lastIndSeq[e])

\* Mutant of IsInWin: every newer frame is
IsInWinAny(e) == ~IsReset(e) /\ ~IsNext(e) /\ ~IsOld(e)

IsInWin(e)  == /\ ~IsReset(e) /\ ~IsNext(e) /\ ~IsOld(e)
               /\ SEQ_SMALLER(RxSeq, (lastIndSeq[e] + win[e] + 1) % Space)
IsBeyond(e) == ~(IsReset(e) \/ IsNext(e) \/ IsOld(e) \/ IsInWin(e))

RxDecide ==
  /\ pc["rx"] = "decide"
  /\ \/ /\ IsReset(RxE) /\ SetLast(RxE, RxSeq) /\ Goto("rx", "idle")
        /\ UNCHANGED list /\ Indicate
     \/ /\ IsNext(RxE) /\ SetLast(RxE, RxSeq) /\ Goto("rx", "drain")
        /\ UNCHANGED list /\ Indicate
     \/ /\ IsOld(RxE) /\ Goto("rx", "idle")
        /\ UNCHANGED <<list, lastIndSeq, free, hist>>
     \/ /\ IsInWin(RxE) /\ Goto("rx", "enqueue")
        /\ UNCHANGED <<list, lastIndSeq, free, hist>>
     \/ LET start == (RxSeq - win[RxE]) % Space IN
        /\ IsBeyond(RxE) /\ Take(RxE, LeSeqCount(list[RxE], start))
        /\ SetLast(RxE, start) /\ Goto("rx", "jump")
  /\ UNCHANGED <<status, win, owner, age, table, others, tx>>

\* Mutant of RxEnqueue: the block of a duplicate is not given back
RxEnqueueLeaks ==
  /\ pc["rx"] \in {"enqueue", "jump"} /\ free > 0
  /\ list' = [list EXCEPT ![RxE] = InsertSorted(@, RxF)] /\ free' = free - 1
  /\ Goto("rx", IF pc["rx"] = "jump" THEN "drain" ELSE "idle")
  /\ UNCHANGED <<status, lastIndSeq, win, owner, age, table, others, tx, hist>>

\* ba_enqueue_reordering_packet: into the list with a block of the pool, or,
\* without one and for EAPOL, everything up to this frame is passed up; the
\* block that an EAPOL frame got is neither used nor freed
RxEnqueue ==
  /\ pc["rx"] \in {"enqueue", "jump"}
  /\ \/ /\ free > 0
        /\ list' = [list EXCEPT ![RxE] = InsertSorted(@, RxF)]
        /\ free' = free - (Len(list'[RxE]) - Len(list[RxE]))
        /\ UNCHANGED <<lastIndSeq, hist>>
     \/ LET k == LeSeqCount(list[RxE], RxSeq)
            l == SubSeq(list[RxE], 1, k)
        IN  /\ free = 0 \/ "eap" \in Events
            /\ list' = [list EXCEPT ![RxE] = SubSeq(@, k + 1, Len(@))]
            /\ free' = k + (IF free = 0 THEN 0 ELSE free - 1)
            /\ Announce(Append(l, RxF)) /\ SetLast(RxE, RxSeq)
  /\ Goto("rx", IF pc["rx"] = "jump" THEN "drain" ELSE "idle")
  /\ UNCHANGED <<status, win, owner, age, table, others, tx>>

\* Mutant of RxDrain: what has become in order is left for the next frame
RxDrainLater ==
  /\ pc["rx"] = "drain" /\ Goto("rx", "idle")
  /\ UNCHANGED <<entryv, table, pool, tx, hist>>

RxDrain ==
  /\ pc["rx"] = "drain" /\ Drain(RxE) /\ Goto("rx", "idle")
  /\ UNCHANGED <<status, win, owner, age, table, others, tx>>

\* a BAR: what is up to its starting sequence is indicated, but LastIndSeq
\* becomes the one BEFORE it.  A BAR that is not compressed also ends the session.
RxBar(p, at) ==
  /\ MayStart("rx") /\ p \in Busy /\ wcidArray[p] # 0
  /\ at \in {"bar"} \cup {x \in {"oldbar"} : x \in Events} /\ "bar" \in Events
  /\ at = "oldbar" => pc["mlme"] = "idle" \/ Racing = "all"
  /\ Start("rx", p, at) /\ no' = txWin[p]
  /\ heard' = [heard EXCEPT ![p] = Max({@, txWin[p] - 1})]
  /\ UNCHANGED <<entryv, table, pool, txWin, hist>>

CntlEnqueueForRecv ==
  LET start == no % Space IN
  /\ pc["rx"] \in {"bar", "oldbar"}
  /\ IF SEQ_SMALLER(lastIndSeq[RxE], start)
     THEN Take(RxE, LeSeqCount(list[RxE], start)) /\ SetLast(RxE, (start - 1) % Space)
     ELSE UNCHANGED <<list, free, lastIndSeq, hist>>
  /\ Goto("rx", IF pc["rx"] = "bar" THEN "idle" ELSE "down")
  /\ UNCHANGED <<status, win, owner, age, table, others, tx>>

-----------------------------------------------------------------------------
(* BARecSessionTearDown, by the MLME thread for a DELBA of the peer and by   *)
(* the RX tasklet for a BAR of the old kind.                                 *)

MlmeDelBa(p) ==
  /\ "session" \in Events /\ MayStart("mlme") /\ Start("mlme", p, "down")
  /\ UNCHANGED <<entryv, table, pool, no, tx, hist>>

\* the entry of the station, if it has one, and whether it is in use.  The RX
\* tasklet (bPassive is FALSE) needs memory for its DELBA frame, or it gives up.
Down(t) ==
  LET e == wcidArray[sta[t]] IN
  /\ pc[t] = "down"
  /\ idx' = [idx EXCEPT ![t] = e]
  /\ \/ e = 0 /\ pc' = [pc EXCEPT ![t] = "idle"]
     \/ e # 0 /\ status[e] = "accept" /\ pc' = [pc EXCEPT ![t] = "refresh"]
     \/ e # 0 /\ status[e] = "accept" /\ t = "rx" /\ pc' = [pc EXCEPT ![t] = "idle"]
     \/ e # 0 /\ status[e] # "accept" /\ pc' = [pc EXCEPT ![t] = "release"]
  /\ UNCHANGED <<entryv, table, pool, sta, no, tx, hist>>

DownRefresh(t) ==
  /\ pc[t] = "refresh" /\ Refresh(idx[t]) /\ Goto(t, "clear")
  /\ UNCHANGED <<status, win, owner, age, table, others, tx>>

\* under BATabLock
DownClear(t) ==
  /\ pc[t] = "clear" /\ SetLast(idx[t], RESET_RCV_SEQ)
  /\ win' = [win EXCEPT ![idx[t]] = 0]
  /\ wcidArray' = [wcidArray EXCEPT ![sta[t]] = 0]
  /\ Goto(t, "release")
  /\ UNCHANGED <<status, list, owner, age, numAsRecipient, pool, tx, hist>>

\* under BATabLock; the array entry that is cleared is that of the owner
BATableFreeRecEntry(t) ==
  /\ pc[t] = "release"
  /\ IF status[idx[t]] = "none" THEN UNCHANGED <<wcidArray, numAsRecipient, status>>
     ELSE /\ wcidArray' = [p \in Stations |-> IF p = owner[idx[t]] THEN 0 ELSE wcidArray[p]]
          /\ numAsRecipient' = numAsRecipient - 1
          /\ status' = [status EXCEPT ![idx[t]] = "none"]
  /\ Goto(t, "idle")
  /\ UNCHANGED <<list, lastIndSeq, win, owner, age, pool, tx, hist>>

-----------------------------------------------------------------------------
(* BARecSessionAdd, by the MLME thread for an ADDBA request.                 *)

MlmeAddBa(p) ==
  /\ MayStart("mlme")
  /\ "session" \in Events \/ wcidArray[p] = 0
  /\ Start("mlme", p, IF wcidArray[p] = 0 THEN "alloc" ELSE "restart")
  /\ UNCHANGED <<entryv, table, pool, no, tx, hist>>

\* Mutant of AddAlloc: the new session is not counted
AddAllocUncounted ==
  /\ pc["mlme"] = "alloc"
  /\ \E e \in Entries :
       /\ status[e] = "none" /\ status' = [status EXCEPT ![e] = "used"]
       /\ idx' = [idx EXCEPT !["mlme"] = e]
  /\ pc' = [pc EXCEPT !["mlme"] = "fill"]
  /\ UNCHANGED <<list, lastIndSeq, win, owner, age, table, pool, sta, no, tx, hist>>

\* BATableAllocRecEntry, under BATabLock: the first entry that is free; the loop
\* that finds none would leave the last one in hand, not counted
AddAlloc ==
  LET unused == {e \in Entries : status[e] = "none"}
      e == IF unused = {} THEN MaxEntries ELSE Min(unused)
      found == numAsRecipient < MaxEntries
  IN  /\ pc["mlme"] = "alloc"
      /\ status' = [status EXCEPT ![e] = IF found /\ unused # {} THEN "used" ELSE @]
      /\ numAsRecipient' = numAsRecipient + (IF found /\ unused # {} THEN 1 ELSE 0)
      /\ idx' = [idx EXCEPT !["mlme"] = IF found THEN e ELSE 0]
      /\ pc' = [pc EXCEPT !["mlme"] = IF found THEN "fill" ELSE "idle"]
      /\ UNCHANGED <<list, lastIndSeq, win, owner, age, wcidArray, pool, sta, no, tx, hist>>

AddRestart ==
  /\ pc["mlme"] = "restart" /\ Refresh(idx["mlme"]) /\ Goto("mlme", "fill")
  /\ UNCHANGED <<status, win, owner, age, table, others, tx>>

AddFill ==
  LET e == idx["mlme"]  p == sta["mlme"] IN
  /\ pc["mlme"] = "fill"
  /\ status' = [status EXCEPT ![e] = "accept"]
  /\ win' = [win EXCEPT ![e] = BAWinSize]
  /\ owner' = [owner EXCEPT ![e] = p]
  /\ SetLast(e, RESET_RCV_SEQ)
  /\ wcidArray' = [wcidArray EXCEPT ![p] = e]
  /\ got' = [got EXCEPT ![p] = {}] /\ top' = [top EXCEPT ![p] = -1]
  /\ Goto("mlme", "idle")
  /\ UNCHANGED <<list, age, numAsRecipient, pool, tx, mishaps>>

-----------------------------------------------------------------------------
(* The stations, the other sessions and the clock.                           *)

\* a station has seen its oldest frame acknowledged, or gives it up
TxAdvance(p) ==
  /\ p \in Busy /\ txWin[p] + BAWinSize <= MaxNo /\ txWin[p] <= heard[p] + MaxGap
  /\ txWin' = [txWin EXCEPT ![p] = @ + 1]
  /\ got' = [got EXCEPT ![p] = Recent(p, @, txWin', list)]
  /\ UNCHANGED <<entryv, table, pool, thread, heard, top, mishaps>>

OthersTake ==
  /\ "exhaust" \in Events /\ free > 0 /\ free' = free - 1 /\ others' = others + 1
  /\ UNCHANGED <<entryv, table, thread, tx, hist>>
OthersGive ==
  /\ others > 0 /\ free' = free + 1 /\ others' = others - 1
  /\ UNCHANGED <<entryv, table, thread, tx, hist>>

Tick(e) ==
  /\ list[e] # <<>> /\ age[e] < MaxAge /\ age' = [age EXCEPT ![e] = @ + 1]
  /\ UNCHANGED <<status, list, lastIndSeq, win, owner, table, pool, thread, tx, hist>>

Reception == \E p \in Stations, n \in 0..MaxNo :
               n \in txWin[p]..(txWin[p] + BAWinSize - 1) /\ RxFrame(p, n)
RxStep == \/ RxFlush \/ RxShifted \/ RxDecide \/ RxEnqueue \/ RxDrain
          \/ CntlEnqueueForRecv
DownStep(t) == Down(t) \/ DownRefresh(t) \/ DownClear(t) \/ BATableFreeRecEntry(t)
AddStep == AddAlloc \/ AddRestart \/ AddFill
Tasklet == Reception \/ RxStep \/ DownStep("rx")

Next ==
  \/ Tasklet
  \/ \E p \in Stations, at \in {"bar", "oldbar"} : RxBar(p, at)
  \/ \E p \in Stations : MlmeDelBa(p) \/ MlmeAddBa(p) \/ TxAdvance(p)
  \/ DownStep("mlme") \/ AddStep
  \/ OthersTake \/ OthersGive
  \/ \E e \in Entries : Tick(e)

Spec == Init /\ [][Next]_vars

\* the threads go on, the clock runs between two receptions again and again,
\* and the stations keep sending something
Fairness == /\ WF_vars(Tasklet) /\ WF_vars(DownStep("mlme") \/ AddStep)
            /\ \A e \in Entries : WF_vars(Tick(e))
FairSpec == Spec /\ Fairness

-----------------------------------------------------------------------------
\* No frame is indicated twice in one session ("II. Drop Duplicated Packet",
\* "had been already within reordering list don't indicate").
AtMostOnce == "dup" \notin mishaps

\* No frame is indicated twice or after a newer one ("III. Drop Old Received
\* Packet"), whatever was lost, sent again, and stepped over after 100 ms.
OnceInOrder == mishaps = {}

\* The list holds no more than the window agreed on (the ASSERT that ends
\* ba_enqueue_reordering_packet), while the session lasts.
WindowHeld ==
  \A e \in Entries : status[e] = "accept" /\ win[e] > 0 => Len(list[e]) <= win[e]

\* Between two frames the head of a list is waiting for a frame: it is neither
\* next in order nor behind LastIndSeq, where only a timeout would find it.
HeadIsBlocked ==
  pc["rx"] = "idle" => \A e \in Entries : list[e] # <<>> /\ status[e] = "accept" =>
    /\ lastIndSeq[e] # RESET_RCV_SEQ
    /\ SEQ_SMALLER((lastIndSeq[e] + 1) % Space, Sequence(Head(list[e])))

\* the blocks in the lists: a frame has one
Blocks(l) == UNION {{e} \X (1..Len(l[e])) : e \in Entries}

\* Every block of the pool is on the freelist, in a list, or with another session
\* (and every variable has its type).
PoolConserved == TypeOK /\ free + others + Cardinality(Blocks(list)) = PoolSize

\* The number of recipient sessions is that of the entries in use, so that the
\* table is neither full too early nor overrun, and no two stations have the
\* same entry.
TableConsistent ==
  /\ numAsRecipient = Cardinality({e \in Entries : status[e] # "none"})
  /\ \A p, q \in Stations : p # q /\ wcidArray[p] # 0 => wcidArray[p] # wcidArray[q]

\* As long as frames keep coming, now and then after a pause of 100 ms, a frame
\* does not stay in the list for ever: the timeout moves LastIndSeq past what is
\* missing.
Drained == \A f \in Frames, e \in Entries :
  f \in Range(list[e]) ~> f \notin Range(list[e])
=============================================================================
