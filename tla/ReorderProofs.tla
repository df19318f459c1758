---------------------------- MODULE ReorderProofs ----------------------------
(***************************************************************************)
(* Proofs about Reorder.tla, for every number of stations and entries and  *)
(* every size of the window and the pool: the table of recipient sessions  *)
(* stays consistent, the pool loses no block, what waits in a list is in   *)
(* its window and waits for a frame that is missing, and no frame goes up  *)
(* twice or after a newer one.                                             *)
(***************************************************************************)
EXTENDS Reorder, SequenceLemmas, FiniteSetTheorems, TLAPS

InUse == {e \in Entries : status[e] # "none"}

-----------------------------------------------------------------------------
(* The table: the inductive invariant.                                      *)

TableTypes ==
  /\ status \in [Entries -> {"none", "used", "accept"}]
  /\ owner \in [Entries -> Stations \cup {"nobody"}]
  /\ wcidArray \in [Stations -> {0} \cup Entries]
  /\ numAsRecipient \in Nat
  /\ pc \in [Threads -> {"idle"} \cup RxPcs \cup AddPcs \cup DownPcs]
  /\ idx \in [Threads -> {0} \cup Entries]
  /\ sta \in [Threads -> Stations \cup {"nobody"}]

Counted == numAsRecipient = Cardinality(InUse)

\* the entry of a station is in use, and it is that station's
Owned == \A p \in Stations : wcidArray[p] # 0 =>
           status[wcidArray[p]] = "accept" /\ owner[wcidArray[p]] = p

\* the RX tasklet ends a session only when the MLME thread does nothing
Turns == pc["rx"] \in {"oldbar"} \cup DownPcs => pc["mlme"] = "idle"

\* what the MLME thread knows while it sets a session up
Adding ==
  /\ pc["mlme"] \in AddPcs => sta["mlme"] \in Stations
  /\ pc["mlme"] = "alloc" => wcidArray[sta["mlme"]] = 0
  /\ pc["mlme"] = "restart" => /\ idx["mlme"] # 0
                               /\ wcidArray[sta["mlme"]] = idx["mlme"]
  /\ pc["mlme"] = "fill" =>
       /\ idx["mlme"] # 0 /\ status[idx["mlme"]] # "none"
       /\ \A p \in Stations : wcidArray[p] = idx["mlme"] => p = sta["mlme"]

\* a thread that ends a session has one in hand
Ending ==
  /\ \A t \in Threads : pc[t] \in DownPcs => sta[t] \in Stations
  /\ \A t \in Threads : pc[t] \in {"refresh", "clear", "release"} => idx[t] # 0
  /\ pc["rx"] = "oldbar" => sta["rx"] \in Stations
  /\ pc["rx"] \notin AddPcs

TableInv == TableTypes /\ Counted /\ Owned /\ Turns /\ Adding /\ Ending

-----------------------------------------------------------------------------
(* Finite sets.                                                             *)

LEMMA EntriesFinite ==
  /\ IsFiniteSet(Entries) /\ Cardinality(Entries) = MaxEntries
  /\ IsFiniteSet(InUse)
<1>1. IsFiniteSet(Entries) /\ Cardinality(Entries) = MaxEntries
  BY FS_Interval, SizesAssumption DEF Entries
<1> QED BY <1>1, FS_Subset DEF InUse

\* As long as the count is below the limit there is an entry to be found: the
\* loop of BATableAllocRecEntry never comes to its end.
LEMMA RoomFound ==
  TableTypes /\ Counted /\ numAsRecipient < MaxEntries => \E e \in Entries : status[e] = "none"
<1> SUFFICES ASSUME TableTypes, Counted, numAsRecipient < MaxEntries,
                    \A e \in Entries : status[e] # "none"
             PROVE  FALSE
  OBVIOUS
<1>1. InUse = Entries
  BY DEF InUse
<1> QED BY <1>1, EntriesFinite, SizesAssumption DEF Counted, TableTypes

-----------------------------------------------------------------------------
(* The steps.                                                               *)

USE DEF Threads

\* A step that leaves the table alone
LEMMA TableKept ==
  ASSUME TableInv, UNCHANGED <<status, owner, table>>,
         pc' \in [Threads -> {"idle"} \cup RxPcs \cup AddPcs \cup DownPcs],
         idx' \in [Threads -> {0} \cup Entries],
         sta' \in [Threads -> Stations \cup {"nobody"}],
         Turns', Adding', Ending'
  PROVE  TableInv'
BY DEF TableInv, TableTypes, Counted, InUse, Owned, table

\* A step of the RX tasklet inside Indicate_AMPDU_Packet, or the end of a BAR
LEMMA RxMoves ==
  ASSUME TableInv, UNCHANGED <<status, owner, table>>,
         NEW v \in {"idle", "shifted", "decide", "enqueue", "jump", "drain", "down"},
         v = "down" => pc["rx"] = "oldbar",
         Goto("rx", v)
  PROVE  TableInv'
<1>1. /\ pc' = [pc EXCEPT !["rx"] = v] /\ idx' = idx /\ sta' = sta
      /\ wcidArray' = wcidArray /\ status' = status
  BY DEF Goto, table
<1>2. /\ pc' \in [Threads -> {"idle"} \cup RxPcs \cup AddPcs \cup DownPcs]
      /\ pc'["rx"] = v /\ pc'["mlme"] = pc["mlme"]
  BY <1>1 DEF TableInv, TableTypes, RxPcs, DownPcs
<1>3. Turns' /\ Ending'
  BY <1>1, <1>2 DEF TableInv, Turns, Ending, DownPcs, AddPcs
<1>4. Adding'
  BY <1>1, <1>2 DEF TableInv, Adding
<1> QED BY <1>1, <1>2, <1>3, <1>4, TableKept DEF TableInv, TableTypes

\* RxFrame and RxBar
LEMMA RxStarts ==
  ASSUME TableInv, UNCHANGED <<status, owner, table>>, NEW p \in Stations,
         NEW at \in {"flush", "bar", "oldbar"}, at = "oldbar" => pc["mlme"] = "idle",
         Start("rx", p, at)
  PROVE  TableInv'
<1>1. /\ pc' = [pc EXCEPT !["rx"] = at] /\ idx' = [idx EXCEPT !["rx"] = wcidArray[p]]
      /\ sta' = [sta EXCEPT !["rx"] = p]
      /\ wcidArray' = wcidArray /\ status' = status
  BY DEF Start, table
<1>2. /\ pc' \in [Threads -> {"idle"} \cup RxPcs \cup AddPcs \cup DownPcs]
      /\ idx' \in [Threads -> {0} \cup Entries]
      /\ sta' \in [Threads -> Stations \cup {"nobody"}]
      /\ pc'["rx"] = at /\ pc'["mlme"] = pc["mlme"] /\ idx'["mlme"] = idx["mlme"]
      /\ sta'["mlme"] = sta["mlme"] /\ sta'["rx"] = p
  BY <1>1 DEF TableInv, TableTypes, RxPcs, DownPcs
<1>3. Turns' /\ Ending'
  BY <1>1, <1>2 DEF TableInv, Turns, Ending, DownPcs, AddPcs
<1>4. Adding'
  BY <1>1, <1>2 DEF TableInv, Adding
<1> QED BY <1>2, <1>3, <1>4, TableKept

LEMMA RxKeeps ==
  ASSUME TableInv, RxStep
  PROVE  TableInv'
<1>1. CASE RxFlush
  <2>1. UNCHANGED <<status, owner, table>> /\ (Goto("rx", "decide") \/ Goto("rx", "shifted"))
    BY <1>1 DEF RxFlush
  <2> QED BY <2>1, RxMoves
<1>2. CASE RxShifted
  BY <1>2, RxMoves DEF RxShifted
<1>3. CASE RxDecide
  <2>1. /\ UNCHANGED <<status, owner, table>>
        /\ \E v \in {"idle", "drain", "enqueue", "jump"} : Goto("rx", v)
    BY <1>3 DEF RxDecide
  <2> QED BY <2>1, RxMoves
<1>4. CASE RxEnqueue
  <2>1. /\ UNCHANGED <<status, owner, table>>
        /\ \E v \in {"idle", "drain"} : Goto("rx", v)
    BY <1>4 DEF RxEnqueue
  <2> QED BY <2>1, RxMoves
<1>5. CASE RxDrain
  BY <1>5, RxMoves DEF RxDrain
<1>6. CASE CntlEnqueueForRecv
  <2>1. /\ UNCHANGED <<status, owner, table>>
        /\ Goto("rx", IF pc["rx"] = "bar" THEN "idle" ELSE "down")
        /\ pc["rx"] \in {"bar", "oldbar"}
    BY <1>6 DEF CntlEnqueueForRecv
  <2>2. CASE pc["rx"] = "bar"
    BY <2>1, <2>2, RxMoves
  <2>3. CASE pc["rx"] = "oldbar"
    BY <2>1, <2>3, RxMoves
  <2> QED BY <2>1, <2>2, <2>3
<1> QED BY <1>1, <1>2, <1>3, <1>4, <1>5, <1>6 DEF RxStep

\* MlmeDelBa and MlmeAddBa: not while the RX tasklet ends a session
LEMMA MlmeStarts ==
  ASSUME TableInv, Racing # "all", UNCHANGED <<status, owner, table>>,
         NEW p \in Stations, NEW at \in {"down", "alloc", "restart"},
         MayStart("mlme"), Start("mlme", p, at),
         at = "alloc" => wcidArray[p] = 0, at = "restart" => wcidArray[p] # 0
  PROVE  TableInv'
<1>1. /\ pc' = [pc EXCEPT !["mlme"] = at] /\ idx' = [idx EXCEPT !["mlme"] = wcidArray[p]]
      /\ sta' = [sta EXCEPT !["mlme"] = p]
      /\ wcidArray' = wcidArray /\ status' = status
  BY DEF Start, table
<1>2. /\ pc' \in [Threads -> {"idle"} \cup RxPcs \cup AddPcs \cup DownPcs]
      /\ idx' \in [Threads -> {0} \cup Entries]
      /\ sta' \in [Threads -> Stations \cup {"nobody"}]
      /\ pc'["mlme"] = at /\ pc'["rx"] = pc["rx"] /\ idx'["rx"] = idx["rx"]
      /\ sta'["rx"] = sta["rx"] /\ sta'["mlme"] = p /\ idx'["mlme"] = wcidArray[p]
  BY <1>1 DEF TableInv, TableTypes, AddPcs, DownPcs
<1>3. pc["rx"] \notin {"oldbar"} \cup DownPcs
  BY DEF MayStart, DownPcs
<1>4. Turns' /\ Ending'
  BY <1>1, <1>2, <1>3 DEF TableInv, Turns, Ending, DownPcs, AddPcs
<1>5. Adding'
  BY <1>1, <1>2 DEF TableInv, Adding, AddPcs
<1> QED BY <1>2, <1>4, <1>5, TableKept

\* the entry found is counted, and nobody's
LEMMA AddAllocKeeps == ASSUME TableInv, AddAlloc PROVE TableInv'
<1> DEFINE unused == {e \in Entries : status[e] = "none"}
           found  == numAsRecipient < MaxEntries
           e      == Min(unused)
<1>1. /\ TableTypes /\ Counted /\ Owned /\ Turns /\ Adding /\ Ending
      /\ pc["mlme"] = "alloc" /\ sta["mlme"] \in Stations /\ wcidArray[sta["mlme"]] = 0
  BY DEF TableInv, AddAlloc, Adding, AddPcs
<1>2. CASE ~found
  <2>1. /\ status' = status /\ numAsRecipient' = numAsRecipient
        /\ wcidArray' = wcidArray /\ owner' = owner /\ sta' = sta
        /\ idx' = [idx EXCEPT !["mlme"] = 0] /\ pc' = [pc EXCEPT !["mlme"] = "idle"]
    BY <1>1, <1>2 DEF AddAlloc, TableTypes
  <2>2. /\ pc' \in [Threads -> {"idle"} \cup RxPcs \cup AddPcs \cup DownPcs]
        /\ idx' \in [Threads -> {0} \cup Entries]
        /\ pc'["mlme"] = "idle" /\ pc'["rx"] = pc["rx"] /\ idx'["rx"] = idx["rx"]
    BY <1>1, <2>1 DEF TableTypes
  <2>3. Turns' /\ Ending' /\ Adding'
    BY <1>1, <2>1, <2>2 DEF Turns, Ending, Adding, DownPcs, AddPcs
  <2> QED BY <1>1, <2>1, <2>2, <2>3, TableKept DEF TableTypes, table
<1>3. CASE found
  <2>1. e \in Entries /\ status[e] = "none"
    <3>1. unused # {} /\ unused \subseteq Nat
      BY <1>1, <1>3, RoomFound DEF Entries
    <3> HIDE DEF unused
    <3>2. e \in unused
      BY <3>1, Smallest
    <3> QED BY <3>2 DEF unused
  <2>2. /\ status' = [status EXCEPT ![e] = "used"] /\ numAsRecipient' = numAsRecipient + 1
        /\ wcidArray' = wcidArray /\ owner' = owner /\ sta' = sta
        /\ idx' = [idx EXCEPT !["mlme"] = e] /\ pc' = [pc EXCEPT !["mlme"] = "fill"]
    <3>1. unused # {}
      BY <2>1
    <3> QED BY <1>3, <3>1 DEF AddAlloc
  <2> HIDE DEF e, unused
  <2>3. e # 0
    BY <2>1, SizesAssumption DEF Entries
  <2>4. /\ TableTypes' /\ pc'["mlme"] = "fill" /\ pc'["rx"] = pc["rx"] /\ idx'["rx"] = idx["rx"]
        /\ idx'["mlme"] = e /\ status'[e] = "used"
        /\ \A f \in Entries \ {e} : status'[f] = status[f]
    BY <1>1, <2>1, <2>2 DEF TableTypes, AddPcs
  <2>5. Counted'
    <3>1. InUse' = InUse \cup {e} /\ e \notin InUse
      BY <2>1, <2>4 DEF InUse
    <3> QED BY <1>1, <2>2, <3>1, EntriesFinite, FS_AddElement DEF Counted
  <2>6. \A p \in Stations : wcidArray[p] # e
    BY <1>1, <2>1, <2>3 DEF Owned
  <2>7. Owned'
    BY <1>1, <2>2, <2>4, <2>6 DEF Owned, TableTypes
  <2>8. Turns' /\ Ending'
    BY <1>1, <2>2, <2>4 DEF Turns, Ending, DownPcs, AddPcs
  <2>9. Adding'
    BY <1>1, <2>2, <2>3, <2>4, <2>6 DEF Adding, AddPcs
  <2> QED BY <2>4, <2>5, <2>7, <2>8, <2>9 DEF TableInv
<1> QED BY <1>2, <1>3

LEMMA AddRestartKeeps == ASSUME TableInv, AddRestart PROVE TableInv'
<1>1. /\ TableTypes /\ Owned /\ Turns /\ Adding /\ Ending
      /\ pc["mlme"] = "restart" /\ sta["mlme"] \in Stations
      /\ idx["mlme"] # 0 /\ wcidArray[sta["mlme"]] = idx["mlme"]
      /\ UNCHANGED <<status, owner, table, idx, sta>>
      /\ pc' = [pc EXCEPT !["mlme"] = "fill"]
  BY DEF TableInv, AddRestart, Adding, AddPcs, Goto
<1>2. /\ pc' \in [Threads -> {"idle"} \cup RxPcs \cup AddPcs \cup DownPcs]
      /\ pc'["mlme"] = "fill" /\ pc'["rx"] = pc["rx"]
  BY <1>1 DEF TableTypes, AddPcs
<1>3. Turns' /\ Ending'
  BY <1>1, <1>2 DEF Turns, Ending, DownPcs, AddPcs
<1>4. /\ status[idx["mlme"]] # "none"
      /\ \A p \in Stations : wcidArray[p] = idx["mlme"] => p = sta["mlme"]
  BY <1>1 DEF Owned
<1>5. Adding'
  BY <1>1, <1>2, <1>4 DEF Adding, AddPcs, table
<1> QED BY <1>1, <1>2, <1>3, <1>5, TableKept DEF TableTypes

\* the session is in use already, and no other station has its entry
LEMMA AddFillKeeps == ASSUME TableInv, AddFill PROVE TableInv'
<1> DEFINE e == idx["mlme"]
           p == sta["mlme"]
<1>1. /\ TableTypes /\ Counted /\ Owned /\ Turns /\ Ending
      /\ pc["mlme"] = "fill" /\ p \in Stations /\ e # 0 /\ e \in Entries
      /\ status[e] # "none" /\ \A r \in Stations : wcidArray[r] = e => r = p
  BY DEF TableInv, AddFill, Adding, AddPcs, TableTypes
<1>2. /\ status' = [status EXCEPT ![e] = "accept"] /\ owner' = [owner EXCEPT ![e] = p]
      /\ wcidArray' = [wcidArray EXCEPT ![p] = e] /\ numAsRecipient' = numAsRecipient
      /\ pc' = [pc EXCEPT !["mlme"] = "idle"] /\ idx' = idx /\ sta' = sta
  BY DEF AddFill, Goto
<1> HIDE DEF e, p
<1>3. /\ TableTypes' /\ pc'["mlme"] = "idle" /\ pc'["rx"] = pc["rx"]
      /\ status'[e] = "accept" /\ owner'[e] = p /\ wcidArray'[p] = e
      /\ \A f \in Entries \ {e} : status'[f] = status[f] /\ owner'[f] = owner[f]
      /\ \A r \in Stations \ {p} : wcidArray'[r] = wcidArray[r]
  BY <1>1, <1>2 DEF TableTypes
<1>4. InUse' = InUse
  BY <1>1, <1>3 DEF InUse
<1>5. Counted'
  BY <1>1, <1>2, <1>4 DEF Counted
<1>6. Owned'
  BY <1>1, <1>3 DEF Owned, TableTypes
<1>7. Turns' /\ Ending' /\ Adding'
  BY <1>1, <1>2, <1>3 DEF Turns, Ending, Adding, DownPcs, AddPcs
<1> QED BY <1>3, <1>5, <1>6, <1>7 DEF TableInv

LEMMA DownKeeps == ASSUME TableInv, NEW t \in Threads, DownStep(t) PROVE TableInv'
<1> DEFINE e == idx[t]
           p == sta[t]
<1>1. /\ TableTypes /\ Counted /\ Owned /\ Turns /\ Adding /\ Ending
      /\ pc[t] \in DownPcs /\ p \in Stations
  BY DEF TableInv, DownStep, Down, DownRefresh, DownClear, BATableFreeRecEntry,
         DownPcs, Ending
<1>2. ASSUME NEW v \in {"idle"} \cup DownPcs, pc' = [pc EXCEPT ![t] = v], sta' = sta,
             NEW i \in {0} \cup Entries, idx' = [idx EXCEPT ![t] = i],
             v \in {"refresh", "clear", "release"} => i # 0
      PROVE  /\ pc' \in [Threads -> {"idle"} \cup RxPcs \cup AddPcs \cup DownPcs]
             /\ idx' \in [Threads -> {0} \cup Entries]
             /\ Turns' /\ Ending' /\ pc'["mlme"] \notin AddPcs
  <2>1. /\ pc' \in [Threads -> {"idle"} \cup RxPcs \cup AddPcs \cup DownPcs]
        /\ idx' \in [Threads -> {0} \cup Entries]
        /\ pc'[t] = v /\ idx'[t] = i
        /\ \A u \in Threads \ {t} : pc'[u] = pc[u] /\ idx'[u] = idx[u]
    BY <1>1, <1>2 DEF TableTypes
  <2>2. v \notin AddPcs /\ v # "oldbar"
    BY DEF AddPcs, DownPcs
  <2>3. t = "rx" => pc["mlme"] = "idle"
    BY <1>1 DEF Turns
  <2>4. Turns'
    BY <1>1, <2>1, <2>2, <2>3 DEF Turns, DownPcs
  <2>5. Ending'
    BY <1>1, <1>2, <2>1, <2>2 DEF Ending
  <2>6. pc'["mlme"] \notin AddPcs
    BY <2>1, <2>2, <2>3 DEF AddPcs
  <2> QED BY <2>1, <2>4, <2>5, <2>6
<1>3. pc'["mlme"] \notin AddPcs => Adding'
  BY DEF Adding, AddPcs
<1>4. CASE Down(t)
  <2>1. /\ UNCHANGED <<status, owner, table, sta>>
        /\ idx' = [idx EXCEPT ![t] = wcidArray[p]] /\ wcidArray[p] \in {0} \cup Entries
        /\ \E v \in {"idle", "refresh", "release"} :
             pc' = [pc EXCEPT ![t] = v] /\ (v # "idle" => wcidArray[p] # 0)
    <3>1. UNCHANGED <<status, owner, table, sta>> /\ wcidArray[p] \in {0} \cup Entries
      BY <1>1, <1>4 DEF Down, TableTypes, entryv
    <3>2. idx' = [idx EXCEPT ![t] = wcidArray[p]]
      BY <1>4 DEF Down
    <3>3. \E v \in {"idle", "refresh", "release"} :
             pc' = [pc EXCEPT ![t] = v] /\ (v # "idle" => wcidArray[p] # 0)
      BY <1>4 DEF Down
    <3> QED BY <3>1, <3>2, <3>3
  <2>2. /\ pc' \in [Threads -> {"idle"} \cup RxPcs \cup AddPcs \cup DownPcs]
        /\ idx' \in [Threads -> {0} \cup Entries]
        /\ Turns' /\ Ending' /\ pc'["mlme"] \notin AddPcs
    BY <1>2, <2>1 DEF DownPcs
  <2> QED BY <1>1, <1>3, <2>1, <2>2, TableKept DEF TableTypes
<1>5. CASE DownRefresh(t)
  <2>1. /\ UNCHANGED <<status, owner, table, sta>> /\ idx' = idx
        /\ pc' = [pc EXCEPT ![t] = "clear"] /\ e # 0
    BY <1>1, <1>5 DEF DownRefresh, Goto, Ending
  <2>2. idx' = [idx EXCEPT ![t] = e] /\ e \in {0} \cup Entries
    BY <1>1, <2>1 DEF TableTypes
  <2> HIDE DEF e
  <2>3. /\ pc' \in [Threads -> {"idle"} \cup RxPcs \cup AddPcs \cup DownPcs]
        /\ idx' \in [Threads -> {0} \cup Entries]
        /\ Turns' /\ Ending' /\ pc'["mlme"] \notin AddPcs
    BY <1>2, <2>1, <2>2 DEF DownPcs
  <2> QED BY <1>1, <1>3, <2>1, <2>3, TableKept DEF TableTypes
<1>6. CASE DownClear(t)
  <2>1. /\ UNCHANGED <<status, owner, numAsRecipient, sta>> /\ idx' = idx
        /\ wcidArray' = [wcidArray EXCEPT ![p] = 0]
        /\ pc' = [pc EXCEPT ![t] = "release"] /\ e # 0
    BY <1>1, <1>6 DEF DownClear, Goto, Ending
  <2>2. idx' = [idx EXCEPT ![t] = e] /\ e \in {0} \cup Entries
    BY <1>1, <2>1 DEF TableTypes
  <2> HIDE DEF e, p
  <2>3. /\ pc' \in [Threads -> {"idle"} \cup RxPcs \cup AddPcs \cup DownPcs]
        /\ idx' \in [Threads -> {0} \cup Entries]
        /\ Turns' /\ Ending' /\ pc'["mlme"] \notin AddPcs
    BY <1>2, <2>1, <2>2 DEF DownPcs
  <2>4. TableTypes' /\ Counted' /\ Owned'
    BY <1>1, <2>1, <2>3 DEF TableTypes, Counted, InUse, Owned
  <2> QED BY <1>3, <2>3, <2>4 DEF TableInv
<1>7. CASE BATableFreeRecEntry(t)
  <2>1. /\ UNCHANGED <<owner, sta>> /\ idx' = idx /\ e \in Entries
        /\ pc' = [pc EXCEPT ![t] = "idle"]
    BY <1>1, <1>7 DEF BATableFreeRecEntry, Goto, Ending, TableTypes
  <2>2. idx' = [idx EXCEPT ![t] = e]
    BY <1>1, <2>1 DEF TableTypes
  <2>3. \/ UNCHANGED <<status, table>>
        \/ /\ status[e] # "none" /\ status' = [status EXCEPT ![e] = "none"]
           /\ wcidArray' = [r \in Stations |-> IF r = owner[e] THEN 0 ELSE wcidArray[r]]
           /\ numAsRecipient' = numAsRecipient - 1
    BY <1>7 DEF BATableFreeRecEntry, table
  <2> HIDE DEF e
  <2>4. /\ pc' \in [Threads -> {"idle"} \cup RxPcs \cup AddPcs \cup DownPcs]
        /\ idx' \in [Threads -> {0} \cup Entries]
        /\ Turns' /\ Ending' /\ pc'["mlme"] \notin AddPcs
    <3>1. "idle" \in {"idle"} \cup DownPcs /\ "idle" \notin {"refresh", "clear", "release"}
      OBVIOUS
    <3>2. sta' = sta /\ e \in {0} \cup Entries
      BY <2>1
    <3> QED BY <1>2, <2>1, <2>2, <3>1, <3>2
  <2>5. CASE UNCHANGED <<status, table>>
    BY <1>1, <1>3, <2>1, <2>4, <2>5, TableKept DEF TableTypes
  <2>6. CASE ~UNCHANGED <<status, table>>
    <3>1. InUse' = InUse \ {e} /\ e \in InUse
      BY <1>1, <2>1, <2>3, <2>6 DEF InUse, TableTypes
    <3>2. /\ Cardinality(InUse') = Cardinality(InUse) - 1
          /\ Cardinality(InUse) \in Nat /\ Cardinality(InUse') \in Nat
      <4>1. IsFiniteSet(InUse \ {e}) /\ Cardinality(InUse \ {e}) = Cardinality(InUse) - 1
        BY <3>1, EntriesFinite, FS_RemoveElement
      <4> QED BY <3>1, <4>1, EntriesFinite, FS_CardinalityType
    <3>3. TableTypes' /\ Counted'
      BY <1>1, <2>1, <2>3, <2>4, <2>6, <3>2 DEF TableTypes, Counted
    <3>4. Owned'
      BY <1>1, <2>1, <2>3, <2>6 DEF Owned, TableTypes
    <3> QED BY <1>3, <2>4, <3>3, <3>4 DEF TableInv
  <2> QED BY <2>5, <2>6
<1> QED BY <1>4, <1>5, <1>6, <1>7 DEF DownStep

LEMMA TableStart == Init => TableInv
<1> SUFFICES ASSUME Init PROVE TableInv
  OBVIOUS
<1>1. InUse = {}
  BY DEF Init, InUse
<1> QED BY <1>1, FS_EmptySet
        DEF Init, TableInv, TableTypes, Counted, Owned, Turns, Adding, Ending,
            DownPcs, AddPcs

LEMMA TableStep == ASSUME Racing # "all" PROVE TableInv /\ [Next]_vars => TableInv'
<1> SUFFICES ASSUME TableInv, [Next]_vars PROVE TableInv'
  OBVIOUS
<1>1. ASSUME UNCHANGED <<status, owner, table, thread>> PROVE TableInv'
  BY <1>1 DEF thread, table, TableInv, TableTypes, Counted, InUse, Owned, Turns,
              Adding, Ending
<1>2. ASSUME NEW p \in Stations, NEW n \in 0..MaxNo, RxFrame(p, n) PROVE TableInv'
  <2>1. UNCHANGED thread \/ Start("rx", p, "flush")
    BY <1>2 DEF RxFrame
  <2> QED BY <1>1, <1>2, <2>1, RxStarts DEF RxFrame, entryv
<1>3. CASE RxStep
  BY <1>3, RxKeeps
<1>4. ASSUME NEW t \in Threads, DownStep(t) PROVE TableInv'
  BY <1>4, DownKeeps
<1>5. ASSUME NEW p \in Stations, NEW at \in {"bar", "oldbar"}, RxBar(p, at)
      PROVE  TableInv'
  BY <1>5, RxStarts DEF RxBar, entryv
<1>6. ASSUME NEW p \in Stations, MlmeDelBa(p) PROVE TableInv'
  BY <1>6, MlmeStarts DEF MlmeDelBa, entryv
<1>7. ASSUME NEW p \in Stations, MlmeAddBa(p) PROVE TableInv'
  <2>1. /\ UNCHANGED <<status, owner, table>> /\ MayStart("mlme")
        /\ \/ wcidArray[p] = 0 /\ Start("mlme", p, "alloc")
           \/ wcidArray[p] # 0 /\ Start("mlme", p, "restart")
    BY <1>7 DEF MlmeAddBa, entryv
  <2> QED BY <2>1, MlmeStarts
<1>8. CASE AddStep
  BY <1>8, AddAllocKeeps, AddRestartKeeps, AddFillKeeps DEF AddStep
<1>9. ASSUME NEW p \in Stations, TxAdvance(p) PROVE TableInv'
  BY <1>9, <1>1 DEF TxAdvance, entryv
<1>10. CASE OthersTake \/ OthersGive
  BY <1>10, <1>1 DEF OthersTake, OthersGive, entryv
<1>11. ASSUME NEW e \in Entries, Tick(e) PROVE TableInv'
  BY <1>11, <1>1 DEF Tick
<1>12. CASE UNCHANGED vars
  BY <1>12, <1>1 DEF vars, entryv
<1> QED BY <1>2, <1>3, <1>4, <1>5, <1>6, <1>7, <1>8, <1>9, <1>10, <1>11, <1>12
        DEF Next, Tasklet, Reception

-----------------------------------------------------------------------------
\* The count of BATableAllocRecEntry is that of the entries in use, and no two
\* stations have the same entry, unless the RX tasklet ends a session while the
\* MLME thread sets one up.
THEOREM TableStaysConsistent == ASSUME Racing # "all" PROVE Spec => []TableConsistent
<1>1. TableInv => TableConsistent
  <2> SUFFICES ASSUME TableInv PROVE TableConsistent
    OBVIOUS
  <2>1. numAsRecipient = Cardinality({e \in Entries : status[e] # "none"})
    BY DEF TableInv, Counted, InUse
  <2>2. \A p, q \in Stations : p # q /\ wcidArray[p] # 0 => wcidArray[p] # wcidArray[q]
    BY DEF TableInv, Owned
  <2> QED BY <2>1, <2>2 DEF TableConsistent
<1> QED BY <1>1, TableStart, TableStep, PTL DEF Spec

-----------------------------------------------------------------------------
(* Numbers and sequences: the longest prefix of a list whose frames are in  *)
(* order, or not ahead of a number.                                         *)

\* a bounded set of numbers that is not empty has a largest one
LEMMA Largest ==
  ASSUME NEW I, I \subseteq Int, I # {}, NEW b \in Int, \A x \in I : x <= b
  PROVE  Max(I) \in I /\ \A y \in I : y <= Max(I)
<1> DEFINE J == {b - x : x \in I}
<1>1. J \subseteq Nat /\ J # {}
  <2>1. \A x \in I : b - x \in Nat
    OBVIOUS
  <2> QED BY <2>1
<1> HIDE DEF J
<1>2. Min(J) \in J /\ \A y \in J : Min(J) <= y
  BY <1>1, Smallest
<1>3. PICK m \in I : Min(J) = b - m
  BY <1>2 DEF J
<1>4. \A y \in I : y <= m
  <2> SUFFICES ASSUME NEW y \in I PROVE y <= m
    OBVIOUS
  <2>1. b - y \in J
    BY DEF J
  <2>2. b - m <= b - y
    BY <1>2, <1>3, <2>1
  <2> QED BY <2>2
<1> QED BY <1>3, <1>4 DEF Max

\* the longest prefix whose places are all in G ends before a place that is not
LEMMA LongestPrefix ==
  ASSUME NEW n \in Nat, NEW G
  PROVE  LET k == Max({i \in 0..n : \A j \in 1..i : j \in G})
         IN  k \in 0..n /\ (\A j \in 1..k : j \in G) /\ (k < n => k + 1 \notin G)
<1> DEFINE I == {i \in 0..n : \A j \in 1..i : j \in G}
           k == Max(I)
<1>1. I \subseteq Int /\ 0 \in I /\ \A i \in I : i <= n
  OBVIOUS
<1>2. k \in I /\ \A i \in I : i <= k
  <2>1. n \in Int /\ I # {}
    BY <1>1
  <2> HIDE DEF I
  <2> QED BY <1>1, <2>1, Largest
<1>3. ASSUME k < n, k + 1 \in G PROVE FALSE
  <2> HIDE DEF k
  <2>1. k + 1 \in I
    BY <1>2, <1>3
  <2> QED BY <1>2, <2>1
<1> HIDE DEF k
<1>4. k \in 0..n /\ \A j \in 1..k : j \in G
  BY <1>2
<1> QED BY <1>3, <1>4 DEF k

\* ba_indicate_reordering_mpdus_in_order takes frames with consecutive numbers
LEMMA InOrderIs ==
  ASSUME NEW l \in Seq(Frames), NEW start \in Int
  PROVE  LET k == InOrderCount(l, start)
         IN  /\ k \in 0..Len(l) /\ \A j \in 1..k : Sequence(l[j]) = (start + j) % Space
             /\ k < Len(l) => Sequence(l[k + 1]) # (start + k + 1) % Space
<1> DEFINE G == {j \in 1..Len(l) : Sequence(l[j]) = (start + j) % Space}
           I == {i \in 0..Len(l) : \A j \in 1..i : j \in G}
           k == Max(I)
<1>1. InOrderCount(l, start) = k
  <2>1. I = {i \in 0..Len(l) : \A j \in 1..i : Sequence(l[j]) = (start + j) % Space}
    OBVIOUS
  <2> HIDE DEF I
  <2> QED BY <2>1 DEF InOrderCount, Prefix
<1>2. k \in 0..Len(l) /\ (\A j \in 1..k : j \in G) /\ (k < Len(l) => k + 1 \notin G)
  <2>1. Len(l) \in Nat
    OBVIOUS
  <2> HIDE DEF G
  <2> QED BY <2>1, LongestPrefix
<1> HIDE DEF k
<1>3. k < Len(l) => Sequence(l[k + 1]) # (start + k + 1) % Space
  <2>1. k \in Nat /\ start + (k + 1) = start + k + 1
    BY <1>2
  <2> QED BY <1>2, <2>1
<1> QED BY <1>1, <1>2, <1>3

\* ba_indicate_reordering_mpdus_le_seq takes those at or behind s
LEMMA LeSeqIs ==
  ASSUME NEW l \in Seq(Frames), NEW s \in Int
  PROVE  LET k == LeSeqCount(l, s)
             le(j) == Sequence(l[j]) = s \/ SEQ_SMALLER(Sequence(l[j]), s)
         IN  k \in 0..Len(l) /\ (\A j \in 1..k : le(j)) /\ (k < Len(l) => ~le(k + 1))
<1> DEFINE G == {j \in 1..Len(l) : Sequence(l[j]) = s \/ SEQ_SMALLER(Sequence(l[j]), s)}
           I == {i \in 0..Len(l) : \A j \in 1..i : j \in G}
           k == Max(I)
<1>1. LeSeqCount(l, s) = k
  <2>1. I = {i \in 0..Len(l) : \A j \in 1..i : Sequence(l[j]) = s \/ SEQ_SMALLER(Sequence(l[j]), s)}
    OBVIOUS
  <2> HIDE DEF I
  <2> QED BY <2>1 DEF LeSeqCount, Prefix
<1>2. k \in 0..Len(l) /\ (\A j \in 1..k : j \in G) /\ (k < Len(l) => k + 1 \notin G)
  <2>1. Len(l) \in Nat
    OBVIOUS
  <2> HIDE DEF G
  <2> QED BY <2>1, LongestPrefix
<1> HIDE DEF k
<1> QED BY <1>1, <1>2

-----------------------------------------------------------------------------
(* Cutting a list, and putting a frame into one.                            *)

\* what is left of a list without its first k entries
LEMMA Cut ==
  ASSUME NEW S, NEW l \in Seq(S), NEW k \in 0..Len(l)
  PROVE  LET r == SubSeq(l, k + 1, Len(l))
             h == SubSeq(l, 1, k)
         IN  /\ r \in Seq(S) /\ Len(r) = Len(l) - k /\ \A i \in 1..(Len(l) - k) : r[i] = l[k + i]
             /\ h \in Seq(S) /\ Len(h) = k /\ \A i \in 1..k : h[i] = l[i]
<1>1. Len(l) \in Nat /\ k \in Nat /\ k <= Len(l) /\ \A i \in 1..Len(l) : l[i] \in S
  OBVIOUS
<1>2. /\ SubSeq(l, k + 1, Len(l)) \in Seq(S)
      /\ Len(SubSeq(l, k + 1, Len(l))) = IF k + 1 <= Len(l) THEN Len(l) - (k + 1) + 1 ELSE 0
      /\ \A i \in 1..(Len(l) - (k + 1) + 1) : SubSeq(l, k + 1, Len(l))[i] = l[k + 1 + i - 1]
  <2>1. k + 1 \in Int /\ Len(l) \in Int /\ \A i \in (k + 1)..Len(l) : l[i] \in S
    BY <1>1
  <2> HIDE <1>1
  <2> QED BY <2>1, SubSeqProperties
<1>3. /\ SubSeq(l, 1, k) \in Seq(S)
      /\ Len(SubSeq(l, 1, k)) = IF 1 <= k THEN k - 1 + 1 ELSE 0
      /\ \A i \in 1..(k - 1 + 1) : SubSeq(l, 1, k)[i] = l[1 + i - 1]
  <2>1. 1 \in Int /\ k \in Int /\ \A i \in 1..k : l[i] \in S
    BY <1>1
  <2> QED BY <2>1, SubSeqProperties
<1>4. \A i \in 1..(Len(l) - k) : i \in 1..(Len(l) - (k + 1) + 1) /\ k + 1 + i - 1 = k + i
  BY <1>1
<1>5. \A i \in 1..k : i \in 1..(k - 1 + 1) /\ 1 + i - 1 = i
  BY <1>1
<1> QED BY <1>1, <1>2, <1>3, <1>4, <1>5

\* an entry put in before the place m
LEMMA Inserted ==
  ASSUME NEW S, NEW l \in Seq(S), NEW m \in 1..(Len(l) + 1), NEW f \in S
  PROVE  LET r == InsertAt(l, m, f)
         IN  /\ r \in Seq(S) /\ Len(r) = Len(l) + 1 /\ r[m] = f
             /\ \A i \in 1..(m - 1) : r[i] = l[i]
             /\ \A i \in m..Len(l) : r[i + 1] = l[i]
<1> DEFINE k == m - 1
           h == SubSeq(l, 1, k)
           t == SubSeq(l, k + 1, Len(l))
<1>1. k \in 0..Len(l) /\ k + 1 = m /\ k = m - 1 /\ Len(l) \in Nat
  OBVIOUS
<1>2. /\ t \in Seq(S) /\ Len(t) = Len(l) - k /\ \A i \in 1..(Len(l) - k) : t[i] = l[k + i]
      /\ h \in Seq(S) /\ Len(h) = k /\ \A i \in 1..k : h[i] = l[i]
  <2> HIDE DEF k
  <2> QED BY <1>1, Cut
<1>3. InsertAt(l, m, f) = h \o <<f>> \o t
  BY <1>1 DEF InsertAt
<1> DEFINE g == h \o <<f>>
<1>4. /\ g \in Seq(S) /\ Len(g) = m /\ g[m] = f
      /\ \A i \in 1..k : g[i] = l[i]
  <2>1. <<f>> \in Seq(S) /\ Len(<<f>>) = 1 /\ <<f>>[1] = f
    OBVIOUS
  <2> HIDE DEF k, h, t
  <2>2. /\ g \in Seq(S) /\ Len(g) = Len(h) + Len(<<f>>)
        /\ \A i \in 1..(Len(h) + Len(<<f>>)) :
             g[i] = IF i <= Len(h) THEN h[i] ELSE <<f>>[i - Len(h)]
    BY ZenonT(30), <1>2, <2>1, ConcatProperties
  <2>3. g[Len(h) + 1] = f /\ (\A i \in 1..Len(h) : g[i] = h[i]) /\ Len(g) = Len(h) + 1
    <3> HIDE DEF g
    <3>1. Len(h) \in Nat /\ Len(h) + 1 \in 1..(Len(h) + Len(<<f>>)) /\ (Len(h) + 1) - Len(h) = 1
          /\ ~(Len(h) + 1 <= Len(h))
      BY <1>2, <2>1
    <3> QED BY <2>1, <2>2, <3>1
  <2> HIDE DEF g
  <2> QED BY <1>1, <1>2, <2>2, <2>3
<1> HIDE DEF k, h, t, g
<1> DEFINE r == g \o t
<1>5. /\ r \in Seq(S) /\ Len(r) = Len(g) + Len(t)
      /\ \A i \in 1..(Len(g) + Len(t)) : r[i] = IF i <= Len(g) THEN g[i] ELSE t[i - Len(g)]
  <2>1. g \in Seq(S) /\ t \in Seq(S)
    BY <1>2, <1>4
  <2> QED BY <2>1, ConcatProperties
<1> HIDE DEF r
<1>6. Len(r) = Len(l) + 1 /\ r[m] = f /\ \A i \in 1..k : r[i] = l[i]
  <2>1. k \in Int /\ m \in Int /\ Len(t) = Len(l) - k /\ Len(g) = m /\ 1 <= m /\ m <= Len(l) + 1
    BY <1>1, <1>2, <1>4
  <2>2. Len(r) = Len(l) + 1
    BY <1>1, <1>5, <2>1
  <2>3. \A i \in 1..m : r[i] = g[i]
    BY <1>1, <1>5, <2>1
  <2>4. m \in 1..m /\ \A i \in 1..k : i \in 1..m
    BY <1>1, <2>1
  <2> QED BY <1>4, <2>2, <2>3, <2>4
<1>7. \A i \in m..Len(l) : r[i + 1] = l[i]
  <2> SUFFICES ASSUME NEW i \in m..Len(l) PROVE r[i + 1] = l[i]
    OBVIOUS
  <2>1. i - k \in 1..(Len(l) - k) /\ k + (i - k) = i /\ (i + 1) - Len(g) = i - k
    BY <1>1, <1>4
  <2>2. t[i - k] = l[i]
    BY <1>2, <2>1
  <2>3. i + 1 \in 1..(Len(g) + Len(t)) /\ ~(i + 1 <= Len(g))
    BY <1>1, <1>2, <1>4
  <2> QED BY <1>5, <2>1, <2>2, <2>3
<1>8. InsertAt(l, m, f) = r
  BY <1>3 DEF g, r
<1> QED BY <1>1, <1>5, <1>6, <1>7, <1>8

\* ba_reordering_mpdu_insertsorted: a frame goes before the first one that is not smaller
LEMMA InsertSortedIs ==
  ASSUME NEW l \in Seq(Frames), NEW f \in Frames
  PROVE  LET r == InsertSorted(l, f)
         IN  /\ r \in Seq(Frames)
             /\ \/ r = l /\ \E i \in 1..Len(l) : Sequence(l[i]) = Sequence(f)
                \/ /\ Len(r) = Len(l) + 1
                   /\ \E m \in 1..(Len(l) + 1) :
                        /\ r[m] = f
                        /\ \A i \in 1..(m - 1) : r[i] = l[i] /\ SEQ_SMALLER(Sequence(l[i]), Sequence(f))
                        /\ \A i \in m..Len(l) : r[i + 1] = l[i]
                        /\ m <= Len(l) => /\ ~SEQ_SMALLER(Sequence(l[m]), Sequence(f))
                                          /\ Sequence(l[m]) # Sequence(f)
<1> DEFINE G == {j \in 1..Len(l) : SEQ_SMALLER(Sequence(l[j]), Sequence(f))}
           I == {i \in 0..Len(l) : \A j \in 1..i : j \in G}
           k == Max(I)
           P == Prefix(l, LAMBDA j : SEQ_SMALLER(Sequence(l[j]), Sequence(f)))
<1>1. P = k
  <2>1. I = {i \in 0..Len(l) : \A j \in 1..i : SEQ_SMALLER(Sequence(l[j]), Sequence(f))}
    OBVIOUS
  <2> HIDE DEF I
  <2> QED BY <2>1 DEF Prefix
<1>2. k \in 0..Len(l) /\ (\A j \in 1..k : j \in G) /\ (k < Len(l) => k + 1 \notin G)
  <2>1. Len(l) \in Nat
    OBVIOUS
  <2> HIDE DEF G
  <2> QED BY <2>1, LongestPrefix
<1>3. InsertSorted(l, f) = IF P + 1 <= Len(l) /\ Sequence(l[P + 1]) = Sequence(f) THEN l
                           ELSE InsertAt(l, P + 1, f)
  BY DEF InsertSorted
<1> HIDE DEF k, P
<1> DEFINE m == k + 1
<1>4. m \in 1..(Len(l) + 1) /\ m - 1 = k /\ (m <= Len(l) => m \notin G)
  BY <1>2
<1>5. CASE m <= Len(l) /\ Sequence(l[m]) = Sequence(f)
  <2>1. InsertSorted(l, f) = l /\ m \in 1..Len(l)
    BY <1>1, <1>3, <1>4, <1>5
  <2> QED BY <1>5, <2>1
<1>6. CASE ~(m <= Len(l) /\ Sequence(l[m]) = Sequence(f))
  <2> DEFINE r == InsertAt(l, m, f)
  <2>1. InsertSorted(l, f) = r
    BY <1>1, <1>3, <1>6
  <2>2. /\ r \in Seq(Frames) /\ Len(r) = Len(l) + 1 /\ r[m] = f
        /\ \A i \in 1..(m - 1) : r[i] = l[i]
        /\ \A i \in m..Len(l) : r[i + 1] = l[i]
    <3> HIDE DEF m
    <3> QED BY <1>4, Inserted
  <2>3. \A i \in 1..(m - 1) : SEQ_SMALLER(Sequence(l[i]), Sequence(f))
    BY <1>2, <1>4
  <2>4. m <= Len(l) => /\ ~SEQ_SMALLER(Sequence(l[m]), Sequence(f))
                       /\ Sequence(l[m]) # Sequence(f)
    BY <1>4, <1>6
  <2> HIDE DEF m, r
  <2> QED BY <1>4, <2>1, <2>2, <2>3, <2>4
<1> QED BY <1>5, <1>6

-----------------------------------------------------------------------------
(* The blocks in the lists.                                                 *)

\* the lists of all entries
Listing == [Entries -> Seq(Frames)]

\* one list changes: so does the number of blocks
LEMMA BlocksChange ==
  ASSUME NEW l \in Listing, NEW e \in Entries, NEW s \in Seq(Frames), IsFiniteSet(Blocks(l))
  PROVE  LET m == [l EXCEPT ![e] = s]
         IN  /\ m \in Listing /\ IsFiniteSet(Blocks(m))
             /\ Cardinality(Blocks(m)) + Len(l[e]) = Cardinality(Blocks(l)) + Len(s)
             /\ Len(l[e]) <= Cardinality(Blocks(l))
<1> DEFINE Rest == UNION {{x} \X (1..Len(l[x])) : x \in Entries \ {e}}
           m == [l EXCEPT ![e] = s]
<1>1. m \in Listing /\ l[e] \in Seq(Frames)
  BY DEF Listing
<1>2. IsFiniteSet(Rest)
  <2>1. Rest \subseteq Blocks(l)
    BY DEF Blocks
  <2> HIDE DEF Rest
  <2> QED BY <2>1, FS_Subset
<1>3. ASSUME NEW r \in Seq(Frames)
      PROVE  /\ IsFiniteSet(({e} \X (1..Len(r))) \cup Rest)
             /\ Cardinality(({e} \X (1..Len(r))) \cup Rest) = Len(r) + Cardinality(Rest)
  <2> DEFINE Own == {e} \X (1..Len(r))
  <2>1. IsFiniteSet({e}) /\ Cardinality({e}) = 1
    BY FS_Singleton
  <2>2. IsFiniteSet(1..Len(r)) /\ Cardinality(1..Len(r)) = Len(r)
    <3>1. 1 \in Int /\ Len(r) \in Int /\ Len(r) >= 0
      OBVIOUS
    <3>2. /\ IsFiniteSet(1..Len(r))
          /\ Cardinality(1..Len(r)) = IF 1 > Len(r) THEN 0 ELSE Len(r) - 1 + 1
      BY <3>1, FS_Interval
    <3> QED BY <3>1, <3>2
  <2>3. IsFiniteSet(Own) /\ Cardinality(Own) = 1 * Len(r)
    <3> DEFINE A == {e}
               B == 1..Len(r)
    <3> HIDE DEF A, B
    <3>1. IsFiniteSet(A \X B) /\ Cardinality(A \X B) = Cardinality(A) * Cardinality(B)
      BY <2>1, <2>2, FS_Product DEF A, B
    <3> QED BY <2>1, <2>2, <3>1 DEF A, B
  <2>4. Own \cap Rest = {}
    OBVIOUS
  <2>5. Len(r) \in Nat /\ Cardinality(Rest) \in Nat
    BY <1>2, FS_CardinalityType
  <2> HIDE DEF Own, Rest
  <2>6. /\ IsFiniteSet(Own \cup Rest)
        /\ Cardinality(Own \cup Rest)
             = Cardinality(Own) + Cardinality(Rest) - Cardinality(Own \cap Rest)
    BY <1>2, <2>3, FS_Union
  <2>7. Cardinality(Own \cap Rest) = 0
    BY <2>4, FS_EmptySet
  <2> QED BY <2>3, <2>5, <2>6, <2>7 DEF Own
<1>4. Blocks(l) = ({e} \X (1..Len(l[e]))) \cup Rest
  BY DEF Blocks
<1>5. Blocks(m) = ({e} \X (1..Len(s))) \cup Rest
  <2>1. m[e] = s /\ \A x \in Entries \ {e} : m[x] = l[x]
    BY DEF Listing
  <2> HIDE DEF m
  <2> QED BY <2>1 DEF Blocks
<1>6. Len(s) \in Nat /\ Len(l[e]) \in Nat /\ Cardinality(Rest) \in Nat
  BY <1>1, <1>2, FS_CardinalityType
<1> HIDE DEF m, Rest
<1>7. /\ IsFiniteSet(Blocks(m)) /\ Cardinality(Blocks(m)) = Len(s) + Cardinality(Rest)
      /\ Cardinality(Blocks(l)) = Len(l[e]) + Cardinality(Rest)
  BY <1>1, <1>3, <1>4, <1>5
<1> QED BY <1>1, <1>6, <1>7 DEF m

-----------------------------------------------------------------------------
(* The inductive invariant of the pool.                                     *)

\* the RX tasklet has a session in hand
Working == pc["rx"] \in RxPcs => idx["rx"] # 0 /\ sta["rx"] \in Stations

Numbers == (0..MAXSEQ) \cup {RESET_RCV_SEQ}

\* the lists, the history and the counts have their types
RestTypes ==
  /\ list \in Listing /\ lastIndSeq \in [Entries -> Numbers]
  /\ win \in [Entries -> {0, BAWinSize}] /\ age \in [Entries -> 0..MaxAge]
  /\ free \in Nat /\ others \in Nat /\ no \in 0..MaxNo
  /\ txWin \in [Stations -> FirstNo..MaxNo] /\ heard \in [Stations -> Int]
  /\ got \in [Stations -> SUBSET (0..MaxNo)] /\ top \in [Stations -> Int]
  /\ mishaps \subseteq {"dup", "late"}

\* every block is accounted for
Pooled == /\ IsFiniteSet(Blocks(list))
          /\ "eap" \notin Events => free + others + Cardinality(Blocks(list)) = PoolSize

PoolInv == TableInv /\ Working /\ RestTypes /\ Pooled

\* the numbers are those below Space
LEMMA Modulo ==
  /\ Space \in Nat /\ Space >= 2 /\ MAXSEQ \in Nat /\ Space = MAXSEQ + 1
  /\ \A x \in Int : x % Space \in 0..MAXSEQ
<1>1. Space \in Nat /\ Space >= 1 /\ MAXSEQ \in Nat /\ Space = MAXSEQ + 1
  BY MaxSeqAssumption DEF Space
<1>2. Space >= 2
  BY MaxSeqAssumption, <1>1
<1>3. \A x \in Int : x % Space \in 0..(Space - 1)
  <2> HIDE DEF Space
  <2> QED BY <1>1
<1> QED BY <1>1, <1>2, <1>3

\* a number written to LastIndSeq
LEMMA SetLastTyped ==
  ASSUME RestTypes, NEW e \in Entries, NEW s \in Numbers, SetLast(e, s)
  PROVE  lastIndSeq' \in [Entries -> Numbers]
BY DEF RestTypes, SetLast

\* the history keeps its types when frames are passed up
LEMMA AnnounceTypes ==
  ASSUME RestTypes, NEW fs \in Seq(Frames), Announce(fs)
  PROVE  /\ got' \in [Stations -> SUBSET (0..MaxNo)] /\ top' \in [Stations -> Int]
         /\ mishaps' \subseteq {"dup", "late"}
<1> DEFINE of(p) == {fs[j][2] : j \in {j \in DOMAIN fs : fs[j][1] = p}}
<1>1. \A j \in DOMAIN fs : fs[j][2] \in 0..MaxNo
  BY DEF Frames
<1>2. \A p \in Stations : of(p) \subseteq 0..MaxNo
  BY <1>1
<1>3. got' \in [Stations -> SUBSET (0..MaxNo)]
  <2>1. got' = [p \in Stations |-> Recent(p, got[p] \cup of(p), txWin, list')]
    BY DEF Announce
  <2> HIDE DEF of
  <2>2. \A p \in Stations : got[p] \cup of(p) \subseteq 0..MaxNo
    BY <1>2 DEF RestTypes
  <2>3. \A p \in Stations : Recent(p, got[p] \cup of(p), txWin, list') \subseteq 0..MaxNo
    BY <2>2 DEF Recent
  <2> QED BY <2>1, <2>3
<1>4. top' \in [Stations -> Int]
  <2>1. top' = [p \in Stations |-> Max({top[p]} \cup of(p))]
    BY DEF Announce
  <2> HIDE DEF of
  <2>2. ASSUME NEW p \in Stations PROVE Max({top[p]} \cup of(p)) \in Int
    <3> DEFINE I == {top[p]} \cup of(p)
    <3>1. I \subseteq Int /\ I # {} /\ top[p] \in Int /\ MaxNo \in Int
      BY <1>2, BoundsAssumption DEF RestTypes
    <3>2. PICK b \in Int : top[p] <= b /\ MaxNo <= b
      BY <3>1
    <3>3. \A x \in I : x <= b
      BY <1>2, <3>1, <3>2
    <3> HIDE DEF I
    <3>4. Max(I) \in I
      BY <3>1, <3>3, Largest
    <3> QED BY <3>1, <3>4 DEF I
  <2> QED BY <2>1, <2>2
<1>5. mishaps' \subseteq {"dup", "late"}
  BY DEF Announce, RestTypes
<1> QED BY <1>3, <1>4, <1>5

\* frames are taken from a list, and their blocks go back
LEMMA Taken ==
  ASSUME RestTypes, Pooled, NEW e \in Entries, NEW k \in 0..Len(list[e]), NEW before \in Seq(Frames),
         TakeAfter(before, e, k), others' = others
  PROVE  /\ list' \in Listing /\ free' \in Nat /\ Pooled'
         /\ list'[e] = SubSeq(list[e], k + 1, Len(list[e]))
         /\ \A d \in Entries \ {e} : list'[d] = list[d]
         /\ got' \in [Stations -> SUBSET (0..MaxNo)] /\ top' \in [Stations -> Int]
         /\ mishaps' \subseteq {"dup", "late"}
<1> DEFINE l == list[e]
           s == SubSeq(l, k + 1, Len(l))
           h == SubSeq(l, 1, k)
<1>1. l \in Seq(Frames) /\ list \in Listing /\ free \in Nat /\ others \in Nat
  BY DEF RestTypes, Listing
<1>2. /\ s \in Seq(Frames) /\ Len(s) = Len(l) - k /\ h \in Seq(Frames)
      /\ k \in Nat /\ Len(l) \in Nat
  BY <1>1, Cut
<1>3. list' = [list EXCEPT ![e] = s] /\ free' = free + k /\ Announce(before \o h)
  BY DEF TakeAfter
<1> HIDE DEF l, s, h
<1>4. /\ list' \in Listing /\ IsFiniteSet(Blocks(list'))
      /\ Cardinality(Blocks(list')) + Len(l) = Cardinality(Blocks(list)) + Len(s)
  BY <1>1, <1>2, <1>3, BlocksChange DEF Pooled, l
<1>5. Cardinality(Blocks(list)) \in Nat /\ Cardinality(Blocks(list')) \in Nat
  BY <1>4, FS_CardinalityType DEF Pooled
<1>6. ASSUME "eap" \notin Events
      PROVE  free' + others' + Cardinality(Blocks(list')) = PoolSize
  <2> DEFINE c == Cardinality(Blocks(list))
             d == Cardinality(Blocks(list'))
  <2>1. /\ c \in Nat /\ d \in Nat /\ d + Len(l) = c + Len(s) /\ free + others + c = PoolSize
        /\ free' = free + k /\ others' = others /\ Len(s) = Len(l) - k
    BY <1>2, <1>3, <1>4, <1>5, <1>6 DEF Pooled
  <2> HIDE DEF c, d
  <2>2. \A f, o, x, y, n, i \in Nat : y + n = x + (n - i) => (f + i) + o + y = f + o + x
    OBVIOUS
  <2>3. (free + k) + others + d = free + others + c
    BY <1>1, <1>2, <2>1, <2>2
  <2>4. free' + others' + d = PoolSize
    BY <2>1, <2>3
  <2> QED BY <2>4 DEF d
<1>7. before \o h \in Seq(Frames)
  BY <1>2
<1>8. list'[e] = s /\ \A d \in Entries \ {e} : list'[d] = list[d]
  BY <1>1, <1>3 DEF Listing
<1>9. Pooled' /\ free' \in Nat
  BY <1>1, <1>2, <1>3, <1>4, <1>6 DEF Pooled
<1> QED BY <1>3, <1>4, <1>7, <1>8, <1>9, AnnounceTypes DEF s, l

\* what a step must keep, beside the table
PoolRest == Working /\ RestTypes /\ Pooled

\* what the invariant says of the session the tasklet works on
LEMMA PoolParts ==
  ASSUME PoolInv
  PROVE  /\ TableInv /\ TableTypes /\ Working /\ RestTypes /\ Pooled
         /\ \A e \in Entries : list[e] \in Seq(Frames) /\ Len(list[e]) \in Nat
         /\ pc["rx"] \in RxPcs => /\ RxE \in Entries /\ RxF \in Frames
                                  /\ RxSeq \in Int /\ lastIndSeq[RxE] \in Int
         /\ RESET_RCV_SEQ \in Int
<1>1. /\ TableInv /\ TableTypes /\ Working /\ RestTypes /\ Pooled
      /\ \A e \in Entries : list[e] \in Seq(Frames) /\ Len(list[e]) \in Nat
  BY DEF PoolInv, TableInv, RestTypes, Listing
<1>2. RESET_RCV_SEQ \in Int /\ Numbers \subseteq Int
  BY Modulo DEF RESET_RCV_SEQ, Numbers
<1>3. ASSUME pc["rx"] \in RxPcs
      PROVE  RxE \in Entries /\ RxF \in Frames /\ RxSeq \in Int /\ lastIndSeq[RxE] \in Int
  <2>1. RxE \in Entries /\ RxF \in Frames
    <3>1. idx["rx"] \in {0} \cup Entries /\ no \in 0..MaxNo
      BY <1>1 DEF TableTypes, RestTypes, Threads
    <3>2. idx["rx"] # 0 /\ sta["rx"] \in Stations
      BY <1>1, <1>3 DEF Working
    <3> QED BY <3>1, <3>2 DEF RxE, RxF, Frames
  <2>2. lastIndSeq[RxE] \in Int
    BY <1>1, <1>2, <2>1 DEF RestTypes
  <2>3. RxF[2] \in Int /\ RxSeq = RxF[2] % Space
    BY <2>1 DEF Frames, RxSeq, Sequence
  <2>4. RxSeq \in Int
    BY <2>3, Modulo
  <2> QED BY <2>1, <2>2, <2>4
<1> QED BY <1>1, <1>2, <1>3

\* Take, in the terms of the invariant
LEMMA TakenFrom ==
  ASSUME PoolInv, NEW e \in Entries, NEW k \in 0..Len(list[e]), Take(e, k), others' = others
  PROVE  /\ list' \in Listing /\ free' \in Nat /\ Pooled'
         /\ list'[e] = SubSeq(list[e], k + 1, Len(list[e]))
         /\ \A d \in Entries \ {e} : list'[d] = list[d]
         /\ got' \in [Stations -> SUBSET (0..MaxNo)] /\ top' \in [Stations -> Int]
         /\ mishaps' \subseteq {"dup", "late"}
<1>1. <<>> \in Seq(Frames) /\ RestTypes /\ Pooled
  BY PoolParts
<1> QED BY <1>1, Taken DEF Take

\* ba_refresh_reordering_mpdus empties a list, whose blocks go back
LEMMA Refreshed ==
  ASSUME PoolInv, NEW e \in Entries, Refresh(e), UNCHANGED <<win, age, others, tx, no>>
  PROVE  RestTypes' /\ Pooled' /\ list'[e] = <<>> /\ \A d \in Entries \ {e} : list'[d] = list[d]
<1>1. Len(list[e]) \in Nat /\ list[e] \in Seq(Frames)
  BY PoolParts
<1>2. /\ list' \in Listing /\ free' \in Nat /\ Pooled'
      /\ list'[e] = SubSeq(list[e], Len(list[e]) + 1, Len(list[e]))
      /\ \A d \in Entries \ {e} : list'[d] = list[d]
      /\ got' \in [Stations -> SUBSET (0..MaxNo)] /\ top' \in [Stations -> Int]
      /\ mishaps' \subseteq {"dup", "late"}
  <2>1. Len(list[e]) \in 0..Len(list[e]) /\ Take(e, Len(list[e])) /\ others' = others
    BY <1>1 DEF Refresh
  <2> QED BY <2>1, TakenFrom
<1>3. list'[e] = <<>>
  BY <1>1, <1>2, SubSeqEmpty
<1>4. lastIndSeq' \in [Entries -> Numbers]
  BY PoolParts DEF Refresh, RestTypes, Numbers
<1>5. RestTypes'
  BY <1>2, <1>4, PoolParts DEF RestTypes, tx
<1> QED BY <1>2, <1>3, <1>5

\* the steps of the RX tasklet that take frames from the list it works on
LEMMA RxTakes ==
  ASSUME PoolInv, pc["rx"] \in RxPcs, NEW k \in 0..Len(list[RxE]), Take(RxE, k),
         UNCHANGED <<win, others, tx>>, age' = age \/ age' = [age EXCEPT ![RxE] = 0],
         lastIndSeq' = lastIndSeq \/ \E s \in Numbers : SetLast(RxE, s),
         UNCHANGED <<idx, sta, no>>
  PROVE  PoolRest'
<1>1. RestTypes /\ Pooled /\ RxE \in Entries
  BY PoolParts
<1>2. /\ list' \in Listing /\ free' \in Nat /\ Pooled'
      /\ got' \in [Stations -> SUBSET (0..MaxNo)] /\ top' \in [Stations -> Int]
      /\ mishaps' \subseteq {"dup", "late"}
  BY <1>1, TakenFrom
<1>3. lastIndSeq' \in [Entries -> Numbers] /\ age' \in [Entries -> 0..MaxAge]
  <2>1. 0 \in 0..MaxAge
    BY BoundsAssumption
  <2> QED BY <1>1, <2>1, SetLastTyped DEF RestTypes
<1>4. RestTypes'
  BY <1>1, <1>2, <1>3 DEF RestTypes, tx
<1>5. Working'
  BY PoolParts DEF Working
<1> QED BY <1>2, <1>4, <1>5 DEF PoolRest

\* those that leave the lists alone
LEMMA RxLeaves ==
  ASSUME PoolInv, pc["rx"] \in RxPcs, UNCHANGED <<list, free, win, others, tx>>,
         age' = age \/ age' = [age EXCEPT ![RxE] = 0],
         UNCHANGED <<idx, sta, no>>,
         UNCHANGED hist \/ Announce(<<RxF>>),
         lastIndSeq' = lastIndSeq \/ \E s \in Numbers : SetLast(RxE, s)
  PROVE  PoolRest'
<1>1. RestTypes /\ Pooled /\ RxE \in Entries /\ <<RxF>> \in Seq(Frames)
  BY PoolParts
<1>2. /\ got' \in [Stations -> SUBSET (0..MaxNo)] /\ top' \in [Stations -> Int]
      /\ mishaps' \subseteq {"dup", "late"}
  BY <1>1, AnnounceTypes DEF hist, RestTypes
<1>3. lastIndSeq' \in [Entries -> Numbers] /\ age' \in [Entries -> 0..MaxAge]
  <2>1. 0 \in 0..MaxAge
    BY BoundsAssumption
  <2> QED BY <1>1, <2>1, SetLastTyped DEF RestTypes
<1>4. RestTypes' /\ Pooled'
  BY <1>1, <1>2, <1>3 DEF RestTypes, tx, Pooled
<1>5. Working'
  BY PoolParts DEF Working
<1> QED BY <1>4, <1>5 DEF PoolRest

\* the frames in order end at the number LastIndSeq moves to
LEMMA DrainCounts ==
  ASSUME PoolInv, NEW e \in Entries
  PROVE  LET k == InOrderCount(list[e], lastIndSeq[e])
         IN  k \in 0..Len(list[e]) /\ (k # 0 => Sequence(list[e][k]) \in Numbers)
<1>1. list[e] \in Seq(Frames) /\ lastIndSeq[e] \in Int
  BY PoolParts, Modulo DEF RestTypes, Numbers, RESET_RCV_SEQ
<1> DEFINE k == InOrderCount(list[e], lastIndSeq[e])
<1>2. k \in 0..Len(list[e])
  BY <1>1, InOrderIs
<1> HIDE DEF k
<1>3. ASSUME k # 0 PROVE Sequence(list[e][k]) \in Numbers
  <2>1. list[e][k] \in Frames
    BY <1>1, <1>2, <1>3
  <2> QED BY <2>1, Modulo DEF Frames, Sequence, Numbers
<1> QED BY <1>2, <1>3 DEF k

\* and passing them up keeps the pool whole
LEMMA DrainPool ==
  ASSUME PoolInv, pc["rx"] \in RxPcs, Drain(RxE), UNCHANGED <<win, age, others, tx>>,
         UNCHANGED <<idx, sta, no>>
  PROVE  PoolRest'
<1> DEFINE k == InOrderCount(list[RxE], lastIndSeq[RxE])
<1>1. RxE \in Entries /\ k \in 0..Len(list[RxE]) /\ (k # 0 => Sequence(list[RxE][k]) \in Numbers)
  BY PoolParts, DrainCounts
<1>2. Take(RxE, k) /\ (lastIndSeq' = lastIndSeq \/ \E s \in Numbers : SetLast(RxE, s))
  BY <1>1 DEF Drain
<1> HIDE DEF k
<1> QED BY <1>1, <1>2, RxTakes

-----------------------------------------------------------------------------
(* The steps of the RX tasklet keep the pool whole.                         *)

\* the range of sequence numbers and windows
LEMMA SequenceTyped ==
  /\ \A f \in Frames : Sequence(f) \in 0..MAXSEQ
  /\ \A x \in Int : x % Space \in Numbers
  /\ \A w \in {0, BAWinSize} : w \in Int
<1>1. \A x \in Int : x % Space \in 0..MAXSEQ
  BY Modulo
<1>2. \A f \in Frames : f[2] \in Int
  BY DEF Frames
<1> QED BY <1>1, <1>2, SizesAssumption DEF Sequence, Numbers

\* ba_flush_reordering_timeout_mpdus
LEMMA FlushPool == ASSUME PoolInv, RxFlush PROVE PoolRest'
<1>1. pc["rx"] \in RxPcs /\ RxE \in Entries /\ list[RxE] \in Seq(Frames) /\ lastIndSeq[RxE] \in Int
  BY PoolParts DEF RxFlush, RxPcs
<1>2. /\ UNCHANGED <<win, others, tx>> /\ UNCHANGED <<idx, sta, no>>
      /\ age' = [age EXCEPT ![RxE] = 0]
  BY DEF RxFlush, Goto
<1>3. CASE Timely(RxE)
  <2>1. UNCHANGED <<list, lastIndSeq, free, hist>>
    BY <1>3 DEF RxFlush, FlushAll, FlushOne
  <2> QED BY <1>1, <1>2, <2>1, RxLeaves
<1>4. CASE FlushAll(RxE)
  <2>1. Refresh(RxE)
    BY <1>4 DEF RxFlush, FlushAll, FlushOne
  <2>2. Len(list[RxE]) \in 0..Len(list[RxE]) /\ Take(RxE, Len(list[RxE]))
    BY <1>1, <2>1 DEF Refresh
  <2>3. RESET_RCV_SEQ \in Numbers /\ SetLast(RxE, RESET_RCV_SEQ)
    BY <2>1 DEF Refresh, SetLast, Numbers
  <2> QED BY <1>1, <1>2, <2>2, <2>3, RxTakes
<1>5. CASE FlushOne(RxE)
  <2> DEFINE next == (lastIndSeq[RxE] + 1) % Space
             k == LeSeqCount(list[RxE], next)
  <2>1. Take(RxE, k) /\ SetLast(RxE, next)
    BY <1>5 DEF RxFlush, FlushOne, FlushAll
  <2>2. next \in Numbers /\ next \in Int
    <3>1. lastIndSeq[RxE] + 1 \in Int
      BY <1>1
    <3>2. next \in 0..MAXSEQ
      BY <3>1, Modulo
    <3> QED BY <3>1, <3>2, SequenceTyped, Modulo
  <2> HIDE DEF next
  <2>3. k \in 0..Len(list[RxE])
    BY <1>1, <2>2, LeSeqIs
  <2> QED BY <1>1, <1>2, <2>1, <2>2, <2>3, RxTakes
<1> QED BY <1>3, <1>4, <1>5 DEF FlushOne

\* the decision of Indicate_AMPDU_Packet
LEMMA DecidePool == ASSUME PoolInv, RxDecide PROVE PoolRest'
<1>1. /\ pc["rx"] \in RxPcs /\ RxE \in Entries /\ list[RxE] \in Seq(Frames)
      /\ RxF \in Frames /\ RxSeq \in Int /\ win[RxE] \in {0, BAWinSize}
  BY PoolParts DEF RxDecide, RxPcs, RestTypes
<1>2. UNCHANGED <<win, others, tx>> /\ UNCHANGED <<idx, sta, no>> /\ age' = age
  BY DEF RxDecide, Goto
<1>3. RxSeq \in Numbers
  BY <1>1, SequenceTyped DEF RxSeq, Numbers
<1>4. CASE UNCHANGED <<list, lastIndSeq, free, hist>>
  BY <1>1, <1>2, <1>4, RxLeaves
<1>5. CASE SetLast(RxE, RxSeq) /\ UNCHANGED list /\ Indicate
  <2>1. Announce(<<RxF>>) /\ UNCHANGED <<list, free>>
    BY <1>5 DEF Indicate
  <2>2. lastIndSeq' = lastIndSeq \/ \E s \in Numbers : SetLast(RxE, s)
    BY <1>3, <1>5
  <2> QED BY <1>1, <1>2, <2>1, <2>2, RxLeaves
<1> DEFINE start == (RxSeq - win[RxE]) % Space
           k == LeSeqCount(list[RxE], start)
<1>6. CASE Take(RxE, k) /\ SetLast(RxE, start)
  <2>1. start \in Numbers /\ start \in Int
    <3>1. RxSeq - win[RxE] \in Int
      BY <1>1, SizesAssumption
    <3> QED BY <3>1, Modulo, SequenceTyped
  <2> HIDE DEF start
  <2>2. k \in 0..Len(list[RxE])
    BY <1>1, <2>1, LeSeqIs
  <2> QED BY <1>1, <1>2, <1>6, <2>1, <2>2, RxTakes
<1> QED BY <1>4, <1>5, <1>6 DEF RxDecide

\* ba_enqueue_reordering_packet: a block is taken for the frame, if it is no duplicate
LEMMA EnqueuePool == ASSUME PoolInv, RxEnqueue PROVE PoolRest'
<1>1. /\ pc["rx"] \in RxPcs /\ RxE \in Entries /\ list[RxE] \in Seq(Frames)
      /\ RxF \in Frames /\ RxSeq \in Int /\ RestTypes /\ Pooled
  BY PoolParts DEF RxEnqueue, RxPcs
<1>2. UNCHANGED <<win, others, tx>> /\ UNCHANGED <<idx, sta, no>> /\ age' = age
  BY DEF RxEnqueue, Goto
<1>3. RxSeq \in Numbers
  BY <1>1, SequenceTyped DEF RxSeq, Numbers
<1>4. CASE /\ free > 0
           /\ list' = [list EXCEPT ![RxE] = InsertSorted(@, RxF)]
           /\ free' = free - (Len(list'[RxE]) - Len(list[RxE]))
           /\ UNCHANGED <<lastIndSeq, hist>>
  <2> DEFINE r == InsertSorted(list[RxE], RxF)
             c == Cardinality(Blocks(list))
             d == Cardinality(Blocks(list'))
  <2>1. r \in Seq(Frames) /\ (Len(r) = Len(list[RxE]) \/ Len(r) = Len(list[RxE]) + 1)
    BY <1>1, InsertSortedIs
  <2>2. list' = [list EXCEPT ![RxE] = r] /\ list'[RxE] = r /\ list \in Listing
    BY <1>1, <1>4 DEF RestTypes, Listing
  <2>3. free' = free - (Len(r) - Len(list[RxE]))
    BY <1>4, <2>2
  <2> HIDE DEF r
  <2>4. /\ list' \in Listing /\ IsFiniteSet(Blocks(list'))
        /\ d + Len(list[RxE]) = c + Len(r)
    BY <1>1, <2>1, <2>2, BlocksChange DEF Pooled
  <2>5. c \in Nat /\ d \in Nat /\ ("eap" \notin Events => free + others + c = PoolSize)
    BY <1>1, <2>4, FS_CardinalityType DEF Pooled
  <2> HIDE DEF c, d
  <2>6. free' \in Nat
    BY <1>1, <1>4, <2>1, <2>3 DEF RestTypes
  <2>7. ASSUME "eap" \notin Events PROVE free' + others' + d = PoolSize
    <3>1. \A f, o, x, y, m, n \in Nat : y + n = x + m => (f - (m - n)) + o + y = f + o + x
      OBVIOUS
    <3>2. Len(r) \in Nat /\ Len(list[RxE]) \in Nat /\ free \in Nat /\ others \in Nat
      BY <1>1, <2>1 DEF RestTypes
    <3> QED BY <1>2, <2>3, <2>4, <2>5, <2>7, <3>1, <3>2
  <2>8. RestTypes' /\ Pooled'
    BY <1>1, <1>2, <1>4, <2>4, <2>6, <2>7 DEF RestTypes, Pooled, hist, tx, d
  <2>9. Working'
    BY <1>1, <1>2, PoolParts DEF Working
  <2> QED BY <2>8, <2>9 DEF PoolRest
<1> DEFINE k == LeSeqCount(list[RxE], RxSeq)
           l == SubSeq(list[RxE], 1, k)
<1>5. CASE /\ free = 0 \/ "eap" \in Events
           /\ list' = [list EXCEPT ![RxE] = SubSeq(@, k + 1, Len(@))]
           /\ free' = k + (IF free = 0 THEN 0 ELSE free - 1)
           /\ Announce(Append(l, RxF)) /\ SetLast(RxE, RxSeq)
  <2>1. k \in 0..Len(list[RxE])
    BY <1>1, LeSeqIs
  <2> HIDE DEF k
  <2> DEFINE r == SubSeq(list[RxE], k + 1, Len(list[RxE]))
             c == Cardinality(Blocks(list))
             d == Cardinality(Blocks(list'))
  <2>2. /\ l \in Seq(Frames) /\ r \in Seq(Frames) /\ Len(r) = Len(list[RxE]) - k
        /\ Len(list[RxE]) \in Nat /\ k \in Nat
    BY <1>1, <2>1, Cut
  <2>3. list' = [list EXCEPT ![RxE] = r] /\ list \in Listing
    BY <1>1, <1>5 DEF RestTypes
  <2> HIDE DEF r, l
  <2>4. /\ list' \in Listing /\ IsFiniteSet(Blocks(list'))
        /\ d + Len(list[RxE]) = c + Len(r)
    BY <1>1, <2>2, <2>3, BlocksChange DEF Pooled
  <2>5. c \in Nat /\ d \in Nat /\ ("eap" \notin Events => free + others + c = PoolSize)
    BY <1>1, <2>4, FS_CardinalityType DEF Pooled
  <2>6. Append(l, RxF) \in Seq(Frames)
    BY <1>1, <2>2
  <2>7. /\ got' \in [Stations -> SUBSET (0..MaxNo)] /\ top' \in [Stations -> Int]
        /\ mishaps' \subseteq {"dup", "late"}
    BY <1>1, <1>5, <2>6, AnnounceTypes
  <2>8. lastIndSeq' \in [Entries -> Numbers]
    BY <1>1, <1>3, <1>5, SetLastTyped
  <2> HIDE DEF c, d
  <2>9. ASSUME "eap" \notin Events PROVE free' + others' + d = PoolSize
    <3>1. \A f, o, x, y, n, i \in Nat : f = 0 /\ y + n = x + (n - i) => i + o + y = f + o + x
      OBVIOUS
    <3>2. free \in Nat /\ others \in Nat
      BY <1>1 DEF RestTypes
    <3>3. k + others + d = free + others + c
      BY <1>5, <2>2, <2>4, <2>5, <2>9, <3>1, <3>2
    <3>4. free' = k
      BY <1>5, <2>2, <2>9
    <3> QED BY <1>2, <2>5, <2>9, <3>3, <3>4
  <2>10. free' \in Nat
    BY <1>1, <1>5, <2>2 DEF RestTypes
  <2>11. RestTypes' /\ Pooled'
    BY <1>1, <1>2, <1>5, <2>10, <2>4, <2>7, <2>8, <2>9 DEF RestTypes, Pooled, tx, d
  <2>12. Working'
    BY <1>1, <1>2, PoolParts DEF Working
  <2> QED BY <2>11, <2>12 DEF PoolRest
<1> QED BY <1>4, <1>5 DEF RxEnqueue

\* CntlEnqueueForRecv, for a BAR
LEMMA BarPool == ASSUME PoolInv, CntlEnqueueForRecv PROVE PoolRest'
<1> DEFINE start == no % Space
           k == LeSeqCount(list[RxE], start)
<1>1. /\ pc["rx"] \in RxPcs /\ RxE \in Entries /\ list[RxE] \in Seq(Frames) /\ no \in Int
  BY PoolParts DEF CntlEnqueueForRecv, RxPcs, RestTypes
<1>2. UNCHANGED <<win, others, tx>> /\ UNCHANGED <<idx, sta, no>> /\ age' = age
  BY DEF CntlEnqueueForRecv, Goto
<1>3. start \in Int
  BY <1>1, Modulo
<1>4. CASE UNCHANGED <<list, free, lastIndSeq, hist>>
  BY <1>1, <1>2, <1>4, RxLeaves
<1>5. CASE Take(RxE, k) /\ SetLast(RxE, (start - 1) % Space)
  <2> HIDE DEF start
  <2>1. k \in 0..Len(list[RxE]) /\ (start - 1) % Space \in Numbers
    <3>1. start - 1 \in Int
      BY <1>3
    <3> QED BY <1>1, <1>3, <3>1, LeSeqIs, SequenceTyped
  <2> QED BY <1>1, <1>2, <1>5, <2>1, RxTakes
<1> QED BY <1>4, <1>5 DEF CntlEnqueueForRecv

-----------------------------------------------------------------------------
(* The other steps do.                                                      *)

\* the steps that change neither list nor pool
LEMMA ListsLeft ==
  ASSUME PoolInv, UNCHANGED <<list, free, others, mishaps>>, Working',
         lastIndSeq' \in [Entries -> Numbers], win' \in [Entries -> {0, BAWinSize}],
         age' \in [Entries -> 0..MaxAge], no' \in 0..MaxNo,
         txWin' \in [Stations -> FirstNo..MaxNo], heard' \in [Stations -> Int],
         got' \in [Stations -> SUBSET (0..MaxNo)], top' \in [Stations -> Int]
  PROVE  PoolRest'
BY DEF PoolInv, PoolRest, RestTypes, Pooled

\* a step of the RX tasklet
LEMMA TaskletPool == ASSUME PoolInv, RxStep PROVE PoolRest'
<1>1. ASSUME pc["rx"] \in {"shifted", "drain"}, Drain(RxE), UNCHANGED <<win, age, others, tx>>,
             UNCHANGED <<idx, sta, no>>
      PROVE  PoolRest'
  BY <1>1, DrainPool DEF RxPcs
<1>2. CASE RxShifted
  BY <1>1, <1>2 DEF RxShifted, Goto
<1>3. CASE RxDrain
  BY <1>1, <1>3 DEF RxDrain, Goto
<1> QED BY <1>2, <1>3, FlushPool, DecidePool, EnqueuePool, BarPool DEF RxStep

\* a frame or a BAR arrives
LEMMA ReceptionPool ==
  ASSUME PoolInv, NEW p \in Stations, NEW n \in 0..MaxNo, RxFrame(p, n)
  PROVE  PoolRest'
<1>1. TableTypes /\ RestTypes /\ Working
  BY PoolParts
<1>2. heard' \in [Stations -> Int]
  <2>1. Max({heard[p], n}) \in Int
    <3>1. heard[p] \in Int /\ n \in Int
      BY <1>1 DEF RestTypes
    <3>2. PICK b \in Int : heard[p] <= b /\ n <= b
      BY <3>1
    <3> DEFINE I == {heard[p], n}
    <3>3. I \subseteq Int /\ I # {} /\ \A x \in I : x <= b
      BY <3>1, <3>2
    <3> HIDE DEF I
    <3>4. Max(I) \in I
      BY <3>3, Largest
    <3> QED BY <3>3, <3>4 DEF I
  <2> QED BY <1>1, <2>1 DEF RxFrame, RestTypes
<1>3. no' \in 0..MaxNo /\ Working'
  <2>1. CASE wcidArray[p] = 0
    BY <1>1, <2>1 DEF RxFrame, thread, RestTypes, Working
  <2>2. CASE wcidArray[p] # 0
    <3>1. /\ idx' = [idx EXCEPT !["rx"] = wcidArray[p]] /\ sta' = [sta EXCEPT !["rx"] = p]
          /\ no' = n
      BY <2>2 DEF RxFrame, Start
    <3>2. idx'["rx"] # 0 /\ sta'["rx"] \in Stations
      BY <1>1, <2>2, <3>1 DEF TableTypes, Threads
    <3> QED BY <3>1, <3>2 DEF Working
  <2> QED BY <2>1, <2>2
<1>4. UNCHANGED <<list, free, others, lastIndSeq, win, age, txWin, got, top, mishaps>>
  BY DEF RxFrame, entryv, pool, hist
<1> QED BY <1>1, <1>2, <1>3, <1>4, ListsLeft DEF RestTypes

\* a BAR is looked up
LEMMA BarStartPool ==
  ASSUME PoolInv, NEW p \in Stations, NEW at \in {"bar", "oldbar"}, RxBar(p, at)
  PROVE  PoolRest'
<1>1. TableTypes /\ RestTypes /\ Working /\ txWin[p] \in FirstNo..MaxNo
  BY PoolParts DEF RestTypes
<1>2. heard' \in [Stations -> Int] /\ txWin[p] \in 0..MaxNo
  <2>1. txWin[p] - 1 \in Int /\ txWin[p] \in 0..MaxNo
    BY <1>1, BoundsAssumption
  <2>2. Max({heard[p], txWin[p] - 1}) \in Int
    <3>1. heard[p] \in Int
      BY <1>1 DEF RestTypes
    <3>2. PICK b \in Int : heard[p] <= b /\ txWin[p] - 1 <= b
      BY <2>1, <3>1
    <3> DEFINE I == {heard[p], txWin[p] - 1}
    <3>3. I \subseteq Int /\ I # {} /\ \A x \in I : x <= b
      BY <2>1, <3>1, <3>2
    <3> HIDE DEF I
    <3>4. Max(I) \in I
      BY <3>3, Largest
    <3> QED BY <3>3, <3>4 DEF I
  <2> QED BY <1>1, <2>1, <2>2 DEF RxBar, RestTypes
<1>3. no' \in 0..MaxNo /\ Working'
  <2>1. /\ idx' = [idx EXCEPT !["rx"] = wcidArray[p]] /\ sta' = [sta EXCEPT !["rx"] = p]
        /\ no' = txWin[p] /\ wcidArray[p] # 0
    BY DEF RxBar, Start
  <2>2. idx'["rx"] # 0 /\ sta'["rx"] \in Stations
    BY <1>1, <2>1 DEF TableTypes, Threads
  <2> QED BY <1>2, <2>1, <2>2 DEF Working
<1>4. UNCHANGED <<list, free, others, lastIndSeq, win, age, txWin, got, top, mishaps>>
  BY DEF RxBar, entryv, pool, hist
<1> QED BY <1>1, <1>2, <1>3, <1>4, ListsLeft DEF RestTypes

\* a step of the MLME thread: where the RX tasklet is does not change
LEMMA MlmeWorking ==
  ASSUME PoolInv,
         \/ pc'["rx"] = pc["rx"] /\ idx'["rx"] = idx["rx"] /\ sta'["rx"] = sta["rx"]
         \/ pc'["rx"] \notin RxPcs
  PROVE  Working'
BY PoolParts DEF Working

\* a session ends
LEMMA DownPool == ASSUME PoolInv, NEW t \in Threads, DownStep(t) PROVE PoolRest'
<1>1. /\ TableTypes /\ RestTypes /\ Working /\ Ending
      /\ pc[t] \in DownPcs
  BY PoolParts DEF TableInv, DownStep, Down, DownRefresh, DownClear, BATableFreeRecEntry, DownPcs
<1>2. ASSUME NEW v \in {"idle"} \cup DownPcs, pc' = [pc EXCEPT ![t] = v],
             idx' = idx \/ idx' = [idx EXCEPT ![t] = wcidArray[sta[t]]], sta' = sta
      PROVE  Working'
  <2>1. pc'[t] \notin RxPcs /\ \A u \in Threads \ {t} : pc'[u] = pc[u] /\ idx'[u] = idx[u]
    BY <1>1, <1>2 DEF TableTypes, RxPcs, DownPcs
  <2> QED BY <1>2, <2>1, MlmeWorking DEF Threads
<1>3. CASE Down(t)
  <2>1. /\ UNCHANGED <<list, free, others, lastIndSeq, win, age, tx, hist, no, sta>>
        /\ idx' = [idx EXCEPT ![t] = wcidArray[sta[t]]]
        /\ \E v \in {"idle"} \cup DownPcs : pc' = [pc EXCEPT ![t] = v]
    BY <1>3 DEF Down, entryv, pool, DownPcs
  <2>2. Working'
    BY <1>2, <2>1
  <2> QED BY <1>1, <2>1, <2>2, ListsLeft DEF RestTypes, tx, hist
<1>4. CASE DownRefresh(t)
  <2>1. idx[t] \in Entries
    <3>1. pc[t] \in {"refresh", "clear", "release"}
      BY <1>4 DEF DownRefresh
    <3>2. idx[t] # 0 /\ idx[t] \in {0} \cup Entries
      BY <1>1, <3>1 DEF Ending, TableTypes
    <3> QED BY <3>2
  <2>2. /\ Refresh(idx[t]) /\ UNCHANGED <<win, age, others, tx, no, idx, sta>>
        /\ pc' = [pc EXCEPT ![t] = "clear"]
    BY <1>4 DEF DownRefresh, Goto
  <2>3. RestTypes' /\ Pooled'
    BY <2>1, <2>2, Refreshed
  <2>4. Working'
    BY <1>2, <2>2 DEF DownPcs
  <2> QED BY <2>3, <2>4 DEF PoolRest
<1>5. CASE DownClear(t)
  <2>1. idx[t] \in Entries
    <3>1. pc[t] \in {"refresh", "clear", "release"}
      BY <1>5 DEF DownClear
    <3>2. idx[t] # 0 /\ idx[t] \in {0} \cup Entries
      BY <1>1, <3>1 DEF Ending, TableTypes
    <3> QED BY <3>2
  <2>2. /\ UNCHANGED <<list, free, others, age, tx, hist, no, idx, sta>>
        /\ SetLast(idx[t], RESET_RCV_SEQ) /\ win' = [win EXCEPT ![idx[t]] = 0]
        /\ pc' = [pc EXCEPT ![t] = "release"]
    BY <1>5 DEF DownClear, Goto, pool
  <2>3. lastIndSeq' \in [Entries -> Numbers] /\ win' \in [Entries -> {0, BAWinSize}]
    <3>1. RESET_RCV_SEQ \in Numbers
      BY DEF Numbers
    <3>2. lastIndSeq' \in [Entries -> Numbers]
      BY <1>1, <2>1, <2>2, <3>1, SetLastTyped
    <3> QED BY <1>1, <2>2, <3>2 DEF RestTypes
  <2>4. Working'
    BY <1>2, <2>2 DEF DownPcs
  <2> QED BY <1>1, <2>2, <2>3, <2>4, ListsLeft DEF RestTypes, tx, hist
<1>6. CASE BATableFreeRecEntry(t)
  <2>1. /\ UNCHANGED <<list, free, others, lastIndSeq, win, age, tx, hist, no, idx, sta>>
        /\ pc' = [pc EXCEPT ![t] = "idle"]
    BY <1>6 DEF BATableFreeRecEntry, Goto, pool
  <2>2. Working'
    BY <1>2, <2>1
  <2> QED BY <1>1, <2>1, <2>2, ListsLeft DEF RestTypes, tx, hist
<1> QED BY <1>3, <1>4, <1>5, <1>6 DEF DownStep

\* a session is set up
LEMMA AddPool == ASSUME PoolInv, AddStep PROVE PoolRest'
<1>1. TableTypes /\ RestTypes /\ Working /\ Adding
  BY PoolParts DEF TableInv
<1>2. ASSUME NEW v, pc' = [pc EXCEPT !["mlme"] = v], sta' = sta,
             NEW i, idx' = [idx EXCEPT !["mlme"] = i]
      PROVE  Working'
  <2>1. pc'["rx"] = pc["rx"] /\ idx'["rx"] = idx["rx"] /\ sta'["rx"] = sta["rx"]
    BY <1>1, <1>2 DEF TableTypes, Threads
  <2> QED BY <2>1, MlmeWorking
<1>3. idx = [idx EXCEPT !["mlme"] = idx["mlme"]]
  BY <1>1 DEF TableTypes
<1>4. CASE AddAlloc
  <2>1. /\ UNCHANGED <<list, free, others, lastIndSeq, win, age, tx, hist, no, sta>>
        /\ \E v : pc' = [pc EXCEPT !["mlme"] = v]
        /\ \E i : idx' = [idx EXCEPT !["mlme"] = i]
    BY <1>4 DEF AddAlloc, pool
  <2>2. Working'
    BY <1>2, <2>1
  <2> QED BY <1>1, <2>1, <2>2, ListsLeft DEF RestTypes, tx, hist
<1>5. CASE AddRestart
  <2>1. idx["mlme"] \in Entries
    BY <1>1, <1>5 DEF AddRestart, Adding, TableTypes, Threads
  <2>2. /\ Refresh(idx["mlme"]) /\ UNCHANGED <<win, age, others, tx, no, idx, sta>>
        /\ pc' = [pc EXCEPT !["mlme"] = "fill"]
    BY <1>5 DEF AddRestart, Goto
  <2>3. RestTypes' /\ Pooled'
    BY <2>1, <2>2, Refreshed
  <2>4. Working'
    BY <1>2, <1>3, <2>2
  <2> QED BY <2>3, <2>4 DEF PoolRest
<1>6. CASE AddFill
  <2> DEFINE e == idx["mlme"]
             p == sta["mlme"]
  <2>1. e \in Entries /\ p \in Stations
    BY <1>1, <1>6 DEF AddFill, Adding, AddPcs, TableTypes, Threads
  <2>2. /\ UNCHANGED <<list, free, others, age, tx, no, idx, sta, mishaps>>
        /\ pc' = [pc EXCEPT !["mlme"] = "idle"]
        /\ win' = [win EXCEPT ![e] = BAWinSize] /\ SetLast(e, RESET_RCV_SEQ)
        /\ got' = [got EXCEPT ![p] = {}] /\ top' = [top EXCEPT ![p] = -1]
    BY <1>6 DEF AddFill, Goto, pool
  <2> HIDE DEF e, p
  <2>3. /\ lastIndSeq' \in [Entries -> Numbers] /\ win' \in [Entries -> {0, BAWinSize}]
        /\ got' \in [Stations -> SUBSET (0..MaxNo)] /\ top' \in [Stations -> Int]
    <3>1. RESET_RCV_SEQ \in Numbers
      BY DEF Numbers
    <3>2. lastIndSeq' \in [Entries -> Numbers]
      BY <1>1, <2>1, <2>2, <3>1, SetLastTyped
    <3>3. got' \in [Stations -> SUBSET (0..MaxNo)] /\ top' \in [Stations -> Int]
      BY <1>1, <2>1, <2>2 DEF RestTypes
    <3> QED BY <1>1, <2>1, <2>2, <3>2, <3>3 DEF RestTypes
  <2>4. Working'
    BY <1>2, <1>3, <2>2
  <2> QED BY <1>1, <2>2, <2>3, <2>4, ListsLeft DEF RestTypes, tx
<1> QED BY <1>4, <1>5, <1>6 DEF AddStep

\* the originator, the clock and the other sessions
LEMMA OtherPool ==
  ASSUME PoolInv,
         \/ \E p \in Stations : MlmeDelBa(p) \/ MlmeAddBa(p) \/ TxAdvance(p)
         \/ OthersTake \/ OthersGive
         \/ \E e \in Entries : Tick(e)
         \/ UNCHANGED vars
  PROVE  PoolRest'
<1>1. TableTypes /\ RestTypes /\ Working /\ Pooled
  BY PoolParts
<1>2. ASSUME NEW p \in Stations, MlmeDelBa(p) \/ MlmeAddBa(p) PROVE PoolRest'
  <2>1. /\ UNCHANGED <<list, free, others, lastIndSeq, win, age, tx, hist, no>>
        /\ \E v : Start("mlme", p, v)
    BY <1>2 DEF MlmeDelBa, MlmeAddBa, entryv, pool
  <2>2. pc'["rx"] = pc["rx"] /\ idx'["rx"] = idx["rx"] /\ sta'["rx"] = sta["rx"]
    BY <1>1, <2>1 DEF Start, TableTypes, Threads
  <2>3. Working'
    BY <2>2, MlmeWorking
  <2> QED BY <1>1, <2>1, <2>3, ListsLeft DEF RestTypes, tx, hist
<1>3. ASSUME NEW p \in Stations, TxAdvance(p) PROVE PoolRest'
  <2>1. /\ UNCHANGED <<list, free, others, lastIndSeq, win, age, thread, heard, top, mishaps>>
        /\ txWin' = [txWin EXCEPT ![p] = txWin[p] + 1]
        /\ got' = [got EXCEPT ![p] = Recent(p, got[p], txWin', list)]
        /\ txWin[p] + BAWinSize <= MaxNo
    BY <1>3 DEF TxAdvance, entryv, pool
  <2>2. txWin[p] + 1 \in FirstNo..MaxNo
    BY <1>1, <2>1, SizesAssumption, BoundsAssumption DEF RestTypes
  <2>3. Recent(p, got[p], txWin', list) \subseteq got[p]
    BY DEF Recent
  <2>4. /\ txWin' \in [Stations -> FirstNo..MaxNo]
        /\ got' \in [Stations -> SUBSET (0..MaxNo)]
    <3> HIDE DEF Recent
    <3> QED BY <1>1, <2>1, <2>2, <2>3 DEF RestTypes
  <2>5. Working' /\ no' \in 0..MaxNo
    BY <1>1, <2>1 DEF Working, thread, RestTypes
  <2> QED BY <1>1, <2>1, <2>4, <2>5, ListsLeft DEF RestTypes
<1>4. CASE OthersTake \/ OthersGive
  <2>1. UNCHANGED <<list, lastIndSeq, win, age, thread, tx, hist>>
    BY <1>4 DEF OthersTake, OthersGive, entryv
  <2>2. Working'
    BY <1>1, <2>1 DEF Working, thread
  <2>3. \/ free > 0 /\ free' = free - 1 /\ others' = others + 1
        \/ others > 0 /\ free' = free + 1 /\ others' = others - 1
    BY <1>4 DEF OthersTake, OthersGive
  <2>4. free' \in Nat /\ others' \in Nat
    BY <1>1, <2>3 DEF RestTypes
  <2>5. Blocks(list') = Blocks(list) /\ Cardinality(Blocks(list)) \in Nat
    BY <1>1, <2>1, FS_CardinalityType DEF Pooled
  <2>6. free' + others' = free + others
    BY <1>1, <2>3 DEF RestTypes
  <2>7. Pooled'
    BY <1>1, <2>5, <2>6 DEF Pooled
  <2>8. RestTypes'
    BY <1>1, <2>1, <2>4 DEF RestTypes, thread, tx, hist
  <2> QED BY <2>2, <2>7, <2>8 DEF PoolRest
<1>5. ASSUME NEW e \in Entries, Tick(e) PROVE PoolRest'
  <2>1. /\ UNCHANGED <<list, free, others, lastIndSeq, win, thread, tx, hist>>
        /\ age[e] < MaxAge /\ age' = [age EXCEPT ![e] = age[e] + 1]
    BY <1>5 DEF Tick, pool
  <2>2. age' \in [Entries -> 0..MaxAge]
    <3>1. age[e] + 1 \in 0..MaxAge
      BY <1>1, <2>1, BoundsAssumption DEF RestTypes
    <3> QED BY <1>1, <2>1, <3>1 DEF RestTypes
  <2>3. Working' /\ no' \in 0..MaxNo
    BY <1>1, <2>1 DEF Working, thread, RestTypes
  <2> QED BY <1>1, <2>1, <2>2, <2>3, ListsLeft DEF RestTypes, tx, hist
<1>6. CASE UNCHANGED vars
  <2>1. /\ UNCHANGED <<list, free, others, lastIndSeq, win, age, thread, tx, hist>>
    BY <1>6 DEF vars, entryv, pool
  <2>2. Working' /\ no' \in 0..MaxNo
    BY <1>1, <2>1 DEF Working, thread, RestTypes
  <2> QED BY <1>1, <2>1, <2>2, ListsLeft DEF RestTypes, tx, hist
<1> QED BY <1>2, <1>3, <1>4, <1>5, <1>6

\* the table and the pool at the start
LEMMA PoolStart == Init => PoolInv
<1> SUFFICES ASSUME Init PROVE PoolInv
  OBVIOUS
<1>1. Blocks(list) = {}
  BY DEF Init, Blocks
<1>2. Pooled
  <2>1. IsFiniteSet({}) /\ Cardinality({}) = 0
    BY FS_EmptySet
  <2>2. free = PoolSize /\ others = 0 /\ PoolSize + 0 + 0 = PoolSize
    BY SizesAssumption DEF Init
  <2> QED BY <1>1, <2>1, <2>2 DEF Pooled
<1>3. RestTypes
  <2>1. list \in Listing /\ lastIndSeq \in [Entries -> Numbers]
    BY MaxSeqAssumption DEF Init, Listing, Numbers
  <2> QED BY <2>1, SizesAssumption, BoundsAssumption DEF Init, RestTypes
<1>4. Working
  BY DEF Init, Working, RxPcs, Threads
<1> QED BY <1>2, <1>3, <1>4, TableStart DEF PoolInv

\* the invariant is inductive
LEMMA PoolStep ==
  ASSUME Racing # "all" PROVE PoolInv /\ [Next]_vars => PoolInv'
<1> SUFFICES ASSUME PoolInv, [Next]_vars PROVE PoolInv'
  OBVIOUS
<1>1. TableInv'
  BY TableStep, PoolParts
<1>2. PoolRest'
  <2>1. CASE Tasklet
    BY <2>1, TaskletPool, ReceptionPool, DownPool DEF Tasklet, Reception, Threads
  <2>2. CASE DownStep("mlme") \/ AddStep
    BY <2>2, DownPool, AddPool DEF Threads
  <2>3. CASE \E p \in Stations, at \in {"bar", "oldbar"} : RxBar(p, at)
    BY <2>3, BarStartPool
  <2> QED BY <2>1, <2>2, <2>3, OtherPool DEF Next
<1> QED BY <1>1, <1>2 DEF PoolInv, PoolRest

\* The table is never overrun, and no count leaves its range.
LEMMA PoolTypes == ASSUME PoolInv, "eap" \notin Events PROVE TypeOK
<1>1. TableInv /\ TableTypes /\ RestTypes /\ Pooled
  BY PoolParts
<1>2. numAsRecipient \in 0..MaxEntries
  <2>1. InUse \subseteq Entries
    BY DEF InUse
  <2>2. Cardinality(InUse) <= Cardinality(Entries) /\ Cardinality(InUse) \in Nat
    BY <2>1, EntriesFinite, FS_Subset, FS_CardinalityType
  <2> QED BY <1>1, <2>2, EntriesFinite, SizesAssumption DEF TableInv, Counted
<1>3. free \in 0..PoolSize /\ others \in 0..PoolSize
  <2>1. Cardinality(Blocks(list)) \in Nat
    BY <1>1, FS_CardinalityType DEF Pooled
  <2> QED BY <1>1, <2>1, SizesAssumption DEF Pooled, RestTypes
<1> QED BY <1>1, <1>2, <1>3 DEF TypeOK, TableTypes, RestTypes, Listing, Numbers

\* Every block of the pool is on the freelist, in a list or with another session,
\* and no count leaves its range, as long as no EAPOL frame is received out of
\* order (its block is neither used nor given back) and the RX tasklet does not
\* end a session while the MLME thread sets one up.
THEOREM PoolStaysConserved ==
  ASSUME Racing # "all", "eap" \notin Events PROVE Spec => []PoolConserved
<1>1. PoolInv => PoolConserved
  BY PoolTypes DEF PoolConserved, PoolInv, Pooled
<1> QED BY <1>1, PoolStart, PoolStep, PTL DEF Spec

-----------------------------------------------------------------------------
(* Numbers that wrap: SEQ_SMALLER is half of the number space.              *)

\* half of the number space
Half == Space \div 2

\* the remainder of a number one period off
LEMMA Wraps ==
  /\ \A x \in Int : 0 <= x /\ x < Space => x % Space = x
  /\ \A x \in Int : Space <= x /\ x < 2 * Space => x % Space = x - Space
  /\ \A x \in Int : 0 - Space <= x /\ x < 0 => x % Space = x + Space
<1> DEFINE n == Space
<1>1. n \in Nat /\ n >= 2
  BY Modulo
<1> HIDE DEF n
<1>2. \A x \in Int : 0 <= x /\ x < n => x % n = x
  BY <1>1
<1>3. \A x \in Int : n <= x /\ x < 2 * n => x % n = x - n
  BY <1>1
<1>4. \A x \in Int : 0 - n <= x /\ x < 0 => x % n = x + n
  BY <1>1
<1> QED BY <1>2, <1>3, <1>4 DEF n

\* the number space has two halves
LEMMA HalfIs == Half \in Nat /\ Space = 2 * Half /\ Half >= 1
<1> DEFINE n == Space
<1>1. n \in Nat /\ n >= 2
  BY Modulo
<1>2. n % 2 = 0
  BY MaxSeqAssumption DEF Space
<1> HIDE DEF n
<1>3. n = 2 * (n \div 2) /\ n \div 2 \in Nat
  BY <1>1, <1>2
<1> QED BY <1>1, <1>3 DEF n, Half

\* the sequence numbers
Serials == 0..MAXSEQ

\* how far a number s is ahead of a
Dist(s, a) == (s - a) % Space

\* Dist is a number, and SEQ_SMALLER(s, a) says that s is behind a
LEMMA DistIs ==
  ASSUME NEW s \in Serials, NEW a \in Serials
  PROVE  /\ Dist(s, a) = (IF s >= a THEN s - a ELSE s - a + Space)
         /\ Dist(s, a) \in Serials
         /\ SEQ_SMALLER(s, a) <=> Dist(s, a) >= Half
<1>1. s \in Int /\ a \in Int /\ 0 <= s /\ s < Space /\ 0 <= a /\ a < Space /\ MAXSEQ = Space - 1 /\ Space \in Nat
  BY Modulo DEF Serials
<1>2. Dist(s, a) = (IF s >= a THEN s - a ELSE s - a + Space)
  BY <1>1, Wraps DEF Dist
<1>3. Dist(s, a) \in Serials
  BY <1>1, <1>2 DEF Serials
<1>4. SEQ_SMALLER(s, a) <=> Dist(s, a) >= Half
  BY DEF SEQ_SMALLER, Dist, Half
<1> QED BY <1>2, <1>3, <1>4

\* LastIndSeq moves on by k
LEMMA DistMoves ==
  ASSUME NEW s \in Serials, NEW a \in Serials, NEW k \in Serials
  PROVE  LET b == (a + k) % Space
         IN  /\ b \in Serials /\ Dist(b, a) = k
             /\ Dist(s, b) = (IF Dist(s, a) >= k THEN Dist(s, a) - k
                              ELSE Dist(s, a) - k + Space)
             /\ (s = b <=> Dist(s, a) = k)
<1>1. /\ s \in Int /\ a \in Int /\ k \in Int /\ 0 <= s /\ s < Space /\ 0 <= a /\ a < Space
      /\ 0 <= k /\ k < Space /\ MAXSEQ = Space - 1 /\ Space \in Nat
  BY Modulo DEF Serials
<1> DEFINE b == (a + k) % Space
<1>2. b = IF a + k < Space THEN a + k ELSE a + k - Space
  BY <1>1, Wraps
<1>3. b \in Serials
  BY <1>1, <1>2 DEF Serials
<1> HIDE DEF b
<1>4. /\ Dist(s, a) = (IF s >= a THEN s - a ELSE s - a + Space)
      /\ Dist(s, b) = (IF s >= b THEN s - b ELSE s - b + Space)
      /\ Dist(b, a) = (IF b >= a THEN b - a ELSE b - a + Space)
  BY <1>3, DistIs
<1>5. b \in Int /\ 0 <= b /\ b < Space
  BY <1>1, <1>3 DEF Serials
<1>6. Dist(b, a) = k
  BY <1>1, <1>2, <1>4, <1>5
<1>7. Dist(s, b) = (IF Dist(s, a) >= k THEN Dist(s, a) - k ELSE Dist(s, a) - k + Space)
  BY <1>1, <1>2, <1>4, <1>5
<1>8. s = b <=> Dist(s, a) = k
  BY <1>1, <1>2, <1>4, <1>5
<1> QED BY <1>3, <1>6, <1>7, <1>8 DEF b

\* what is in a list lies between lo and hi numbers ahead of a, in this order
InWindow(l, a, lo, hi) ==
  /\ \A j \in 1..Len(l) : Dist(Sequence(l[j]), a) \in lo..hi
  /\ \A i, j \in 1..Len(l) : i < j => Dist(Sequence(l[i]), a) < Dist(Sequence(l[j]), a)

\* the frames of a list have numbers
LEMMA ElementSerial ==
  ASSUME NEW l \in Seq(Frames) PROVE \A j \in 1..Len(l) : Sequence(l[j]) \in Serials /\ l[j] \in Frames
BY SequenceTyped DEF Serials

\* what lies in a window is not longer than the window
LEMMA WindowBounds ==
  ASSUME NEW l \in Seq(Frames), NEW a \in Serials, NEW lo \in Nat, NEW hi \in Nat,
         InWindow(l, a, lo, hi), l # <<>>
  PROVE  lo + Len(l) <= hi + 1
<1> DEFINE d(j) == Dist(Sequence(l[j]), a)
           P(j) == j \in 1..Len(l) => lo + j <= d(j) + 1
           G == {j \in Nat : P(j)}
<1>1. \A j \in 1..Len(l) : d(j) \in Nat /\ d(j) \in lo..hi
  BY ElementSerial, DistIs DEF InWindow, Serials
<1>2. \A i, j \in 1..Len(l) : i < j => d(i) < d(j)
  BY DEF InWindow
<1> HIDE DEF d
<1>3. 0 \in G
  OBVIOUS
<1>4. \A j \in G : j + 1 \in G
  <2>1. ASSUME NEW j \in Nat, j \in 1..Len(l) => lo + j <= d(j) + 1, j + 1 \in 1..Len(l)
        PROVE  lo + (j + 1) <= d(j + 1) + 1
    <3>1. CASE j = 0
      <4>1. 1 \in 1..Len(l) /\ d(1) \in lo..hi
        BY <1>1, <2>1, <3>1
      <4> QED BY <3>1, <4>1
    <3>2. CASE j # 0
      <4>1. j \in 1..Len(l) /\ lo + j <= d(j) + 1
        BY <2>1, <3>2
      <4>2. d(j) < d(j + 1)
        BY <1>2, <2>1, <4>1
      <4> QED BY <1>1, <2>1, <4>1, <4>2
    <3> QED BY <3>1, <3>2
  <2>2. \A j \in Nat : P(j) => P(j + 1)
    BY <2>1
  <2> HIDE DEF P
  <2> QED BY <2>2
<1>5. G = Nat
  <2> HIDE DEF G
  <2>1. G \subseteq Nat
    BY DEF G
  <2> QED BY <1>3, <1>4, <2>1, Induction
<1>6. Len(l) \in 1..Len(l)
  OBVIOUS
<1>7. Len(l) \in G
  BY <1>5, <1>6
<1> QED BY <1>1, <1>6, <1>7

\* what is left of a list in a window
LEMMA WindowTail ==
  ASSUME NEW l \in Seq(Frames), NEW a \in Serials, NEW lo \in Nat, NEW hi \in Nat, NEW low \in Nat,
         NEW k \in 0..Len(l), InWindow(l, a, lo, hi),
         k < Len(l) => low <= Dist(Sequence(l[k + 1]), a)
  PROVE  LET r == SubSeq(l, k + 1, Len(l))
         IN  r \in Seq(Frames) /\ InWindow(r, a, low, hi)
<1> DEFINE r == SubSeq(l, k + 1, Len(l))
<1>1. /\ r \in Seq(Frames) /\ Len(r) = Len(l) - k /\ \A i \in 1..(Len(l) - k) : r[i] = l[k + i]
      /\ Len(l) \in Nat /\ k \in Nat
  BY Cut
<1> HIDE DEF r
<1>2. ASSUME NEW i \in 1..Len(r)
      PROVE  Sequence(r[i]) = Sequence(l[k + i]) /\ k + i \in 1..Len(l)
  BY <1>1
<1>3. ASSUME NEW i \in 1..Len(r), NEW j \in 1..Len(r), i < j
      PROVE  Dist(Sequence(r[i]), a) < Dist(Sequence(r[j]), a)
  <2>1. k + i < k + j
    BY <1>1, <1>3
  <2> QED BY <1>2, <2>1 DEF InWindow
<1>4. ASSUME NEW i \in 1..Len(r) PROVE Dist(Sequence(r[i]), a) \in low..hi
  <2>1. k + 1 \in 1..Len(l) /\ k < Len(l)
    BY <1>1
  <2>2. Dist(Sequence(l[k + i]), a) \in lo..hi /\ Dist(Sequence(l[k + 1]), a) \in lo..hi
    BY <1>2, <2>1 DEF InWindow
  <2>3. i = 1 \/ Dist(Sequence(l[k + 1]), a) < Dist(Sequence(l[k + i]), a)
    <3>1. i = 1 \/ k + 1 < k + i
      BY <1>1
    <3> QED BY <1>2, <2>1, <3>1 DEF InWindow
  <2> QED BY <1>2, <2>1, <2>2, <2>3
<1> QED BY <1>1, <1>3, <1>4 DEF InWindow, r

\* the window itself moves on
LEMMA WindowMoves ==
  ASSUME NEW l \in Seq(Frames), NEW a \in Serials, NEW lo \in Nat, NEW hi \in Nat, hi <= MAXSEQ,
         NEW k \in Serials, k <= lo, InWindow(l, a, lo, hi)
  PROVE  InWindow(l, (a + k) % Space, lo - k, hi - k)
<1> DEFINE b == (a + k) % Space
<1>1. ASSUME NEW j \in 1..Len(l)
      PROVE  /\ Dist(Sequence(l[j]), b) = Dist(Sequence(l[j]), a) - k
             /\ Dist(Sequence(l[j]), a) \in lo..hi
  <2>1. Dist(Sequence(l[j]), a) \in lo..hi /\ Sequence(l[j]) \in Serials
    BY ElementSerial DEF InWindow
  <2>2. Dist(Sequence(l[j]), a) >= k /\ k \in Nat
    BY <2>1 DEF Serials
  <2> QED BY <2>1, <2>2, DistMoves
<1> HIDE DEF b
<1>2. k \in Nat
  BY DEF Serials
<1>3. \A j \in 1..Len(l) : Dist(Sequence(l[j]), b) \in (lo - k)..(hi - k)
  BY <1>1, <1>2
<1>4. \A i, j \in 1..Len(l) : i < j => Dist(Sequence(l[i]), b) < Dist(Sequence(l[j]), b)
  BY <1>1, <1>2 DEF InWindow
<1> QED BY <1>3, <1>4 DEF InWindow, b

\* and a wider one
LEMMA WindowWider ==
  ASSUME NEW l \in Seq(Frames), NEW a \in Serials, NEW lo \in Int, NEW hi \in Int,
         NEW low \in Int, NEW high \in Int, low <= lo, hi <= high, InWindow(l, a, lo, hi)
  PROVE  InWindow(l, a, low, high)
<1>1. \A x \in lo..hi : x \in low..high
  OBVIOUS
<1> QED BY <1>1 DEF InWindow

\* ba_indicate_reordering_mpdus_le_seq leaves what is ahead of the number k further on
LEMMA LeSeqLeaves ==
  ASSUME NEW l \in Seq(Frames), NEW a \in Serials, NEW hi \in Nat, hi < Half,
         NEW k \in Nat, k <= Half, InWindow(l, a, 1, hi)
  PROVE  LET b == (a + k) % Space
             n == LeSeqCount(l, b)
             r == SubSeq(l, n + 1, Len(l))
         IN  n \in 0..Len(l) /\ r \in Seq(Frames) /\ InWindow(r, a, k + 1, hi)
<1> DEFINE b == (a + k) % Space
           n == LeSeqCount(l, b)
<1>1. k \in Serials
  BY HalfIs, Modulo DEF Serials
<1>2. b \in Serials
  BY <1>1, DistMoves
<1>3. ASSUME NEW s \in Serials PROVE SEQ_SMALLER(s, b) <=> Dist(s, b) >= Half
  BY <1>2, DistIs
<1>4. ASSUME NEW s \in Serials
      PROVE  /\ Dist(s, b) = (IF Dist(s, a) >= k THEN Dist(s, a) - k ELSE Dist(s, a) - k + Space)
             /\ (s = b <=> Dist(s, a) = k)
  BY <1>1, DistMoves
<1> HIDE DEF b
<1>5. /\ n \in 0..Len(l)
      /\ n < Len(l) => /\ Sequence(l[n + 1]) # b
                       /\ ~SEQ_SMALLER(Sequence(l[n + 1]), b)
  <2>1. b \in Int
    BY <1>2 DEF Serials
  <2> QED BY <2>1, LeSeqIs
<1> HIDE DEF n
<1>6. n < Len(l) => k + 1 <= Dist(Sequence(l[n + 1]), a)
  <2> SUFFICES ASSUME n < Len(l) PROVE k + 1 <= Dist(Sequence(l[n + 1]), a)
    OBVIOUS
  <2> DEFINE s == Sequence(l[n + 1])
  <2>1. s \in Serials /\ Dist(s, a) \in 1..hi
    BY <1>5, ElementSerial DEF InWindow
  <2>2. s # b /\ Dist(s, b) < Half
    <3>1. Dist(s, b) \in Serials
      BY <1>2, <2>1, DistIs
    <3> QED BY <1>3, <1>5, <2>1, <3>1, HalfIs DEF Serials
  <2> HIDE DEF s
  <2>3. k + 1 <= Dist(s, a)
    BY <1>4, <2>1, <2>2, HalfIs
  <2> QED BY <2>3 DEF s
<1>7. k + 1 \in Nat /\ 1 \in Nat
  OBVIOUS
<1> QED BY <1>5, <1>6, <1>7, WindowTail DEF n, b

-----------------------------------------------------------------------------
(* The helpers of the lists, seen from LastIndSeq.                          *)

\* ba_indicate_reordering_mpdus_in_order leaves a gap before the head
LEMMA InOrderLeaves ==
  ASSUME NEW l \in Seq(Frames), NEW a \in Serials, NEW hi \in Nat, hi < Half,
         InWindow(l, a, 1, hi)
  PROVE  LET n == InOrderCount(l, a)
             r == SubSeq(l, n + 1, Len(l))
             b == IF n = 0 THEN a ELSE Sequence(l[n])
         IN  /\ n \in 0..Len(l) /\ n <= hi /\ r \in Seq(Frames)
             /\ b \in Serials /\ b = (a + n) % Space /\ InWindow(r, b, 2, hi)
             /\ \A j \in 1..n : Dist(Sequence(l[j]), a) = j
<1> DEFINE n == InOrderCount(l, a)
           r == SubSeq(l, n + 1, Len(l))
           b == IF n = 0 THEN a ELSE Sequence(l[n])
<1>1. a \in Int /\ a + 0 = a /\ 0 <= a /\ a < Space /\ Half < Space /\ MAXSEQ = Space - 1 /\ Half \in Nat /\ Space \in Nat
  BY Modulo, HalfIs DEF Serials
<1>2. /\ n \in 0..Len(l) /\ \A j \in 1..n : Sequence(l[j]) = (a + j) % Space
      /\ n < Len(l) => Sequence(l[n + 1]) # (a + n + 1) % Space
  BY <1>1, InOrderIs
<1> HIDE DEF n
<1>3. Len(l) <= hi /\ Len(l) \in Nat
  <2>1. l # <<>> => 1 + Len(l) <= hi + 1
    BY WindowBounds
  <2> QED BY <2>1
<1>4. \A j \in 0..Len(l) : j \in Serials /\ j + 1 \in Serials
  BY <1>1, <1>3 DEF Serials
<1>5. b = (a + n) % Space
  <2>1. CASE n = 0
    BY <1>1, <2>1, Wraps
  <2>2. CASE n # 0
    <3>1. n \in 1..n
      BY <1>2, <2>2
    <3> QED BY <1>2, <2>2, <3>1
  <2> QED BY <2>1, <2>2
<1>6. b \in Serials
  BY <1>2, <1>4, <1>5, DistMoves
<1>7. n < Len(l) => n + 2 <= Dist(Sequence(l[n + 1]), a)
  <2> SUFFICES ASSUME n < Len(l) PROVE n + 2 <= Dist(Sequence(l[n + 1]), a)
    OBVIOUS
  <2>1. /\ n + 1 \in 1..Len(l) /\ Sequence(l[n + 1]) \in Serials
        /\ Dist(Sequence(l[n + 1]), a) \in 1..hi
    BY <1>2, ElementSerial DEF InWindow
  <2>2. Dist(Sequence(l[n + 1]), a) # n + 1
    <3>1. n + 1 \in Serials /\ a + n + 1 = a + (n + 1)
      BY <1>1, <1>2, <1>4
    <3>2. Sequence(l[n + 1]) # (a + (n + 1)) % Space
      BY <1>2, <3>1
    <3> QED BY <2>1, <3>1, <3>2, DistMoves
  <2>3. CASE n = 0
    BY <2>1, <2>2, <2>3
  <2>4. CASE n # 0
    <3>1. n \in 1..Len(l) /\ n < n + 1 /\ n \in 1..n
      BY <1>2, <2>4
    <3>2. Dist(Sequence(l[n]), a) = n
      <4>1. Sequence(l[n]) = (a + n) % Space /\ Sequence(l[n]) \in Serials /\ n \in Serials
        BY <1>2, <1>4, <3>1, ElementSerial
      <4> QED BY <4>1, DistMoves
    <3>3. Dist(Sequence(l[n]), a) < Dist(Sequence(l[n + 1]), a)
      BY <2>1, <3>1 DEF InWindow
    <3> QED BY <1>2, <2>1, <2>2, <3>2, <3>3
  <2> QED BY <2>3, <2>4
<1>8. r \in Seq(Frames) /\ InWindow(r, a, n + 2, hi)
  BY <1>2, <1>7, WindowTail
<1>9. InWindow(r, b, 2, hi)
  <2>1. n \in Serials /\ n <= n + 2 /\ n \in Nat /\ hi <= MAXSEQ /\ n + 2 \in Nat /\ n + 2 - n = 2
    BY <1>1, <1>2, <1>4
  <2> HIDE DEF r
  <2>2. InWindow(r, (a + n) % Space, (n + 2) - n, hi - n)
    BY <1>8, <2>1, WindowMoves
  <2>3. InWindow(r, b, 2, hi - n) /\ hi - n <= hi /\ hi - n \in Int
    BY <1>5, <2>1, <2>2
  <2> QED BY <1>6, <1>8, <2>3, WindowWider
<1>10. \A j \in 1..n : Dist(Sequence(l[j]), a) = j
  <2> SUFFICES ASSUME NEW j \in 1..n PROVE Dist(Sequence(l[j]), a) = j
    OBVIOUS
  <2>1. j \in 1..Len(l) /\ j \in Serials
    BY <1>2, <1>4
  <2>2. Sequence(l[j]) = (a + j) % Space
    BY <1>2
  <2> QED BY <2>1, <2>2, DistMoves
<1>11. n <= hi
  BY <1>2, <1>3
<1> HIDE DEF r, b
<1>12. /\ n \in 0..Len(l) /\ n <= hi /\ r \in Seq(Frames)
       /\ b \in Serials /\ b = (a + n) % Space /\ InWindow(r, b, 2, hi)
       /\ \A j \in 1..n : Dist(Sequence(l[j]), a) = j
  BY <1>2, <1>5, <1>6, <1>8, <1>9, <1>10, <1>11
<1> QED BY <1>12 DEF n, r, b

\* ba_reordering_mpdu_insertsorted keeps the order
LEMMA InsertSortedFits ==
  ASSUME NEW l \in Seq(Frames), NEW a \in Serials, NEW lo \in Nat, NEW hi \in Nat, hi < Half,
         InWindow(l, a, lo, hi), NEW f \in Frames, Dist(Sequence(f), a) \in lo..hi
  PROVE  LET r == InsertSorted(l, f) IN r \in Seq(Frames) /\ InWindow(r, a, lo, hi)
<1> DEFINE r == InsertSorted(l, f)
           d(x) == Dist(Sequence(x), a)
<1>1. /\ r \in Seq(Frames)
      /\ \/ r = l
         \/ /\ Len(r) = Len(l) + 1
            /\ \E m \in 1..(Len(l) + 1) :
                 /\ r[m] = f
                 /\ \A i \in 1..(m - 1) : r[i] = l[i] /\ SEQ_SMALLER(Sequence(l[i]), Sequence(f))
                 /\ \A i \in m..Len(l) : r[i + 1] = l[i]
                 /\ m <= Len(l) => /\ ~SEQ_SMALLER(Sequence(l[m]), Sequence(f))
                                   /\ Sequence(l[m]) # Sequence(f)
  BY InsertSortedIs
<1> HIDE DEF r
<1>2. CASE r = l
  BY <1>1, <1>2 DEF r
<1>3. CASE r # l
  <2>1. Len(r) = Len(l) + 1 /\ Len(l) \in Nat
    BY <1>1, <1>3
  <2>2. PICK m \in 1..(Len(l) + 1) :
                 /\ r[m] = f
                 /\ \A i \in 1..(m - 1) : r[i] = l[i] /\ SEQ_SMALLER(Sequence(l[i]), Sequence(f))
                 /\ \A i \in m..Len(l) : r[i + 1] = l[i]
                 /\ m <= Len(l) => /\ ~SEQ_SMALLER(Sequence(l[m]), Sequence(f))
                                   /\ Sequence(l[m]) # Sequence(f)
    BY <1>1, <1>3
  <2>3. ASSUME NEW i \in 1..Len(l)
        PROVE  /\ d(l[i]) \in lo..hi
               /\ SEQ_SMALLER(Sequence(l[i]), Sequence(f)) <=> d(l[i]) < d(f)
               /\ Sequence(l[i]) # Sequence(f) => d(l[i]) # d(f)
    <3> DEFINE s == Sequence(l[i])
               t == Sequence(f)
    <3>1. s \in Serials /\ t \in Serials /\ Dist(s, a) \in lo..hi
      BY ElementSerial, SequenceTyped DEF InWindow, Serials
    <3> HIDE DEF s, t
    <3>2. /\ Dist(s, a) = (IF s >= a THEN s - a ELSE s - a + Space)
          /\ Dist(t, a) = (IF t >= a THEN t - a ELSE t - a + Space)
          /\ Dist(s, t) = (IF s >= t THEN s - t ELSE s - t + Space)
          /\ SEQ_SMALLER(s, t) <=> Dist(s, t) >= Half
      BY <3>1, DistIs
    <3>3. /\ s \in Nat /\ t \in Nat /\ a \in Nat /\ s < Space /\ t < Space /\ a < Space
          /\ Half \in Nat /\ Space = 2 * Half /\ lo \in Nat /\ hi < Half /\ hi \in Nat
      BY <3>1, Modulo, HalfIs DEF Serials
    <3>4. Dist(t, a) \in lo..hi
      BY DEF t
    <3>5. SEQ_SMALLER(s, t) <=> Dist(s, a) < Dist(t, a)
      BY <3>1, <3>2, <3>3, <3>4
    <3>6. s # t => Dist(s, a) # Dist(t, a)
      BY <3>2, <3>3
    <3> QED BY <3>1, <3>5, <3>6 DEF s, t
  <2>4. \A i, j \in 1..Len(l) : i < j => d(l[i]) < d(l[j])
    BY DEF InWindow
  <2>5. d(f) \in lo..hi
    OBVIOUS
  <2> HIDE DEF d
  <2>6. \A i \in m..Len(l) : d(f) < d(l[i])
    <3> SUFFICES ASSUME NEW i \in m..Len(l) PROVE d(f) < d(l[i])
      OBVIOUS
    <3>1. m <= Len(l) /\ m \in 1..Len(l) /\ i \in 1..Len(l) /\ (m = i \/ m < i)
      BY <2>1
    <3>2. d(l[m]) \in lo..hi /\ ~(d(l[m]) < d(f)) /\ d(l[m]) # d(f)
      BY <2>2, <2>3, <3>1
    <3>3. d(f) < d(l[m])
      BY <2>5, <3>2
    <3>4. m = i \/ d(l[m]) < d(l[i])
      BY <2>4, <3>1
    <3>5. d(l[i]) \in lo..hi
      BY <2>3, <3>1
    <3> QED BY <2>5, <3>2, <3>3, <3>4, <3>5
  <2>7. \A i \in 1..(m - 1) : i \in 1..Len(l) /\ d(l[i]) < d(f)
    <3> SUFFICES ASSUME NEW i \in 1..(m - 1) PROVE i \in 1..Len(l) /\ d(l[i]) < d(f)
      OBVIOUS
    <3>1. i \in 1..Len(l)
      BY <2>1
    <3> QED BY <2>2, <2>3, <3>1
  <2>8. ASSUME NEW i \in 1..Len(r)
        PROVE  \/ i \in 1..(m - 1) /\ r[i] = l[i] /\ i \in 1..Len(l)
               \/ i = m /\ r[i] = f
               \/ i - 1 \in m..Len(l) /\ r[i] = l[i - 1] /\ i - 1 \in 1..Len(l) /\ i - 1 + 1 = i
    <3>1. i \in Nat /\ m \in Nat /\ 1 <= i /\ i <= Len(l) + 1 /\ 1 <= m /\ m <= Len(l) + 1
      BY <2>1
    <3>2. CASE i < m
      BY <2>1, <2>2, <3>1, <3>2
    <3>3. CASE i = m
      BY <2>2, <3>3
    <3>4. CASE i > m
      <4>1. i - 1 \in m..Len(l) /\ (i - 1) + 1 = i /\ i - 1 \in 1..Len(l)
        BY <2>1, <3>1, <3>4
      <4> QED BY <2>2, <4>1
    <3> QED BY <3>1, <3>2, <3>3, <3>4
  <2>9. \A i \in 1..Len(r) : d(r[i]) \in lo..hi
    BY <2>3, <2>5, <2>8
  <2>10. ASSUME NEW i \in 1..Len(r), NEW j \in 1..Len(r), i < j PROVE d(r[i]) < d(r[j])
    <3>1. m \in Int /\ i \in Int /\ j \in Int
      BY <2>1
    <3>2. CASE i \in 1..(m - 1) /\ r[i] = l[i] /\ i \in 1..Len(l)
      <4>1. CASE r[j] = l[j] /\ j \in 1..Len(l)
        BY <2>4, <2>10, <3>2, <4>1
      <4>2. CASE r[j] = f
        BY <2>7, <3>2, <4>2
      <4>3. CASE j - 1 \in m..Len(l) /\ r[j] = l[j - 1] /\ j - 1 \in 1..Len(l)
        <5>1. i < j - 1
          BY <3>1, <3>2, <4>3
        <5> QED BY <2>4, <3>2, <4>3, <5>1
      <4> QED BY <2>8, <4>1, <4>2, <4>3
    <3>3. CASE i = m /\ r[i] = f
      <4>1. j - 1 \in m..Len(l) /\ r[j] = l[j - 1]
        BY <2>8, <2>10, <3>1, <3>3
      <4> QED BY <2>6, <3>3, <4>1
    <3>4. CASE i - 1 \in m..Len(l) /\ r[i] = l[i - 1] /\ i - 1 \in 1..Len(l)
      <4>1. j - 1 \in m..Len(l) /\ r[j] = l[j - 1] /\ j - 1 \in 1..Len(l)
        BY <2>8, <2>10, <3>1, <3>4
      <4>2. i - 1 < j - 1
        BY <2>10, <3>1
      <4> QED BY <2>4, <3>4, <4>1, <4>2
    <3> QED BY <2>8, <3>2, <3>3, <3>4
  <2>11. InWindow(r, a, lo, hi)
    BY <2>9, <2>10 DEF InWindow, d
  <2> QED BY <1>1, <2>11 DEF r
<1> QED BY <1>2, <1>3

-----------------------------------------------------------------------------
(* A session that starts has an empty list, when the handlers run one after *)
(* the other: a part of the inductive invariant of the order.               *)

\* one thread at a time is at the sessions
Alone == pc["rx"] = "idle" \/ pc["mlme"] = "idle"

\* the RX tasklet works for a station that has its session
Serving == pc["rx"] \in RxPcs => wcidArray[sta["rx"]] = idx["rx"]

\* what is in a list came after a first frame, and a session ends with none
Emptied ==
  /\ \A e \in Entries : list[e] # <<>> => lastIndSeq[e] # RESET_RCV_SEQ /\ status[e] = "accept"
  /\ \A t \in Threads : pc[t] \in {"clear", "release"} => list[idx[t]] = <<>>
  /\ pc["mlme"] = "fill" => list[idx["mlme"]] = <<>>
  /\ pc["rx"] \in {"shifted", "enqueue", "jump", "drain"} => lastIndSeq[RxE] # RESET_RCV_SEQ

ResetInv == PoolInv /\ Alone /\ Serving /\ Emptied

-----------------------------------------------------------------------------
(* What the steps of the RX tasklet do to the list it works on.             *)

\* RESET_RCV_SEQ is no sequence number
LEMMA ResetIsApart ==
  /\ \A x \in Numbers : x # RESET_RCV_SEQ <=> x \in Serials
  /\ \A s \in Serials : s # RESET_RCV_SEQ /\ s \in Numbers /\ s \in Int
<1>1. MAXSEQ \in Nat /\ Space = MAXSEQ + 1 /\ RESET_RCV_SEQ = 16 * Space - 1
  BY Modulo DEF RESET_RCV_SEQ
<1>2. RESET_RCV_SEQ > MAXSEQ /\ RESET_RCV_SEQ \in Int
  BY <1>1
<1> QED BY <1>1, <1>2 DEF Numbers, Serials

\* a list and its LastIndSeq after frames were taken, or one was put in
Becomes(e, l, a) ==
  /\ list' \in Listing /\ lastIndSeq' \in [Entries -> Numbers]
  /\ list'[e] = l /\ lastIndSeq'[e] = a
  /\ \A d \in Entries \ {e} : list'[d] = list[d] /\ lastIndSeq'[d] = lastIndSeq[d]

\* the list without its first k frames
After(e, k) == SubSeq(list[e], k + 1, Len(list[e]))

\* TakeAfter and SetLast
LEMMA TakeBecomes ==
  ASSUME PoolInv, NEW e \in Entries, NEW k \in 0..Len(list[e]), NEW before \in Seq(Frames),
         TakeAfter(before, e, k), NEW s \in Numbers, SetLast(e, s)
  PROVE  Becomes(e, After(e, k), s)
<1>1. list \in Listing /\ lastIndSeq \in [Entries -> Numbers] /\ list[e] \in Seq(Frames)
  BY PoolParts DEF RestTypes
<1>2. After(e, k) \in Seq(Frames)
  BY <1>1, Cut DEF After
<1>3. list' = [list EXCEPT ![e] = After(e, k)] /\ lastIndSeq' = [lastIndSeq EXCEPT ![e] = s]
  BY DEF TakeAfter, SetLast, After
<1> QED BY <1>1, <1>2, <1>3 DEF Becomes, Listing

\* Take(e, k) and the LastIndSeq it leaves
LEMMA TakesBecomes ==
  ASSUME PoolInv, NEW e \in Entries, NEW k \in 0..Len(list[e]), Take(e, k), NEW s \in Numbers,
         SetLast(e, s) \/ (s = lastIndSeq[e] /\ UNCHANGED lastIndSeq)
  PROVE  Becomes(e, After(e, k), s)
<1>1. SetLast(e, s)
  BY PoolParts DEF SetLast, RestTypes
<1>2. <<>> \in Seq(Frames)
  OBVIOUS
<1> QED BY <1>1, <1>2, TakeBecomes DEF Take

\* ba_refresh_reordering_mpdus
LEMMA RefreshBecomes ==
  ASSUME PoolInv, NEW e \in Entries, Refresh(e) PROVE Becomes(e, <<>>, RESET_RCV_SEQ)
<1>1. list[e] \in Seq(Frames) /\ Len(list[e]) \in 0..Len(list[e])
  BY PoolParts
<1>2. RESET_RCV_SEQ \in Numbers
  BY DEF Numbers
<1>3. Take(e, Len(list[e])) /\ SetLast(e, RESET_RCV_SEQ)
  BY DEF Refresh, SetLast
<1>4. After(e, Len(list[e])) = <<>>
  BY <1>1, SubSeqEmpty DEF After
<1> QED BY <1>1, <1>2, <1>3, <1>4, TakesBecomes

\* LastIndSeq alone
LEMMA SetBecomes ==
  ASSUME PoolInv, NEW e \in Entries, UNCHANGED list, NEW s \in Numbers,
         SetLast(e, s) \/ (s = lastIndSeq[e] /\ UNCHANGED lastIndSeq)
  PROVE  Becomes(e, list[e], s)
BY PoolParts DEF Becomes, SetLast, RestTypes, Listing

\* what every step of the tasklet leaves alone
LEMMA RxFrames ==
  ASSUME PoolInv, RxStep
  PROVE  /\ UNCHANGED <<status, owner, table, win, idx, sta, no, tx, others>>
         /\ pc["rx"] \in RxPcs /\ RxE \in Entries /\ RxF \in Frames /\ list[RxE] \in Seq(Frames)
         /\ RxSeq \in Serials /\ lastIndSeq[RxE] \in Numbers /\ RxE' = RxE /\ RxF' = RxF
         /\ pc'["mlme"] = pc["mlme"]
<1>1. UNCHANGED <<status, owner, table, win, idx, sta, no, tx, others>> /\ pc["rx"] \in RxPcs
      /\ \E v : Goto("rx", v)
  <2>1. CASE RxFlush
    BY <2>1 DEF RxFlush, Goto, RxPcs
  <2>2. CASE RxShifted
    BY <2>2 DEF RxShifted, Goto, RxPcs
  <2>3. CASE RxDecide
    BY <2>3 DEF RxDecide, Goto, RxPcs
  <2>4. CASE RxEnqueue
    BY <2>4 DEF RxEnqueue, Goto, RxPcs
  <2>5. CASE RxDrain
    BY <2>5 DEF RxDrain, Goto, RxPcs
  <2>6. CASE CntlEnqueueForRecv
    BY <2>6 DEF CntlEnqueueForRecv, Goto, RxPcs
  <2> QED BY <2>1, <2>2, <2>3, <2>4, <2>5, <2>6 DEF RxStep
<1>2. pc'["mlme"] = pc["mlme"]
  BY <1>1, PoolParts DEF Goto, TableTypes, Threads
<1>3. RxE \in Entries /\ RxF \in Frames /\ list[RxE] \in Seq(Frames) /\ lastIndSeq[RxE] \in Numbers
  BY <1>1, PoolParts DEF RestTypes
<1>4. RxSeq \in Serials
  BY <1>3, SequenceTyped DEF RxSeq, Serials
<1>5. RxE' = RxE /\ RxF' = RxF
  BY <1>1 DEF RxE, RxF
<1> QED BY <1>1, <1>2, <1>3, <1>4, <1>5

\* ba_indicate_reordering_mpdus_in_order
LEMMA DrainBecomes ==
  ASSUME PoolInv, NEW e \in Entries, Drain(e)
  PROVE  LET n == InOrderCount(list[e], lastIndSeq[e])
         IN  /\ n \in 0..Len(list[e])
             /\ Becomes(e, After(e, n), IF n = 0 THEN lastIndSeq[e] ELSE Sequence(list[e][n]))
<1> DEFINE n == InOrderCount(list[e], lastIndSeq[e])
           s == IF n = 0 THEN lastIndSeq[e] ELSE Sequence(list[e][n])
<1>1. n \in 0..Len(list[e]) /\ (n # 0 => Sequence(list[e][n]) \in Numbers)
  BY DrainCounts
<1>2. lastIndSeq[e] \in Numbers
  BY PoolParts DEF RestTypes
<1>3. Take(e, n) /\ (SetLast(e, s) \/ (s = lastIndSeq[e] /\ UNCHANGED lastIndSeq))
  BY DEF Drain
<1>4. s \in Numbers
  BY <1>1, <1>2
<1> HIDE DEF n, s
<1>5. Becomes(e, After(e, n), s)
  BY <1>1, <1>3, <1>4, TakesBecomes
<1> QED BY <1>1, <1>5 DEF n, s

\* ba_flush_reordering_timeout_mpdus, by its three ends
LEMMA FlushBecomes ==
  ASSUME PoolInv, RxFlush
  PROVE  LET next == (lastIndSeq[RxE] + 1) % Space
             k == LeSeqCount(list[RxE], next)
         IN  /\ pc["rx"] = "flush" /\ k \in 0..Len(list[RxE]) /\ next \in Serials
             /\ \/ pc'["rx"] = "decide" /\ Becomes(RxE, list[RxE], lastIndSeq[RxE])
                \/ age[RxE] = 2 /\ pc'["rx"] = "decide" /\ Becomes(RxE, <<>>, RESET_RCV_SEQ)
                \/ /\ pc'["rx"] = "shifted" /\ list[RxE] # <<>>
                   /\ Take(RxE, k) /\ Becomes(RxE, After(RxE, k), next)
<1> DEFINE next == (lastIndSeq[RxE] + 1) % Space
           k == LeSeqCount(list[RxE], next)
<1>1. /\ RxE \in Entries /\ list[RxE] \in Seq(Frames) /\ lastIndSeq[RxE] \in Numbers
      /\ pc \in [Threads -> {"idle"} \cup RxPcs \cup AddPcs \cup DownPcs] /\ pc["rx"] = "flush"
      /\ lastIndSeq[RxE] \in Int
  BY RxFrames, PoolParts DEF RxStep, TableTypes, RxFlush, RxPcs
<1>2. ASSUME NEW v, Goto("rx", v) PROVE pc'["rx"] = v
  BY <1>1, <1>2 DEF Goto, Threads
<1>3. next \in Serials
  <2>1. lastIndSeq[RxE] + 1 \in Int
    BY <1>1
  <2> QED BY <2>1, Modulo DEF Serials
<1> HIDE DEF next
<1>4. k \in 0..Len(list[RxE])
  BY <1>1, <1>3, ResetIsApart, LeSeqIs
<1>5. CASE Timely(RxE) /\ Goto("rx", "decide") /\ UNCHANGED <<list, lastIndSeq, free, hist>>
  <2>1. Becomes(RxE, list[RxE], lastIndSeq[RxE])
    BY <1>1, <1>5, SetBecomes
  <2> QED BY <1>1, <1>2, <1>3, <1>4, <1>5, <2>1 DEF next
<1>6. CASE FlushAll(RxE) /\ Refresh(RxE) /\ Goto("rx", "decide")
  <2>1. Becomes(RxE, <<>>, RESET_RCV_SEQ)
    BY <1>1, <1>6, RefreshBecomes
  <2>2. age[RxE] = 2
    BY <1>6 DEF FlushAll
  <2> QED BY <1>1, <1>2, <1>3, <1>4, <1>6, <2>1, <2>2 DEF next
<1>7. CASE FlushOne(RxE) /\ Take(RxE, k) /\ SetLast(RxE, next) /\ Goto("rx", "shifted")
  <2>1. next \in Numbers
    BY <1>3, ResetIsApart
  <2> HIDE DEF k
  <2>2. Becomes(RxE, After(RxE, k), next)
    BY <1>1, <1>4, <1>7, <2>1, TakesBecomes
  <2>3. list[RxE] # <<>>
    BY <1>7 DEF FlushOne, Timely
  <2> QED BY <1>1, <1>2, <1>3, <1>4, <1>7, <2>2, <2>3 DEF next, k
<1> QED BY <1>5, <1>6, <1>7 DEF RxFlush, next

\* the five cases of Indicate_AMPDU_Packet
LEMMA DecideBecomes ==
  ASSUME PoolInv, RxDecide
  PROVE  LET start == (RxSeq - win[RxE]) % Space
             k == LeSeqCount(list[RxE], start)
         IN  /\ pc["rx"] = "decide" /\ k \in 0..Len(list[RxE]) /\ start \in Serials
             /\ \/ /\ IsReset(RxE) /\ pc'["rx"] = "idle" /\ Announce(<<RxF>>)
                   /\ Becomes(RxE, list[RxE], RxSeq)
                \/ /\ IsNext(RxE) /\ pc'["rx"] = "drain" /\ Announce(<<RxF>>)
                   /\ Becomes(RxE, list[RxE], RxSeq)
                \/ /\ IsOld(RxE) /\ pc'["rx"] = "idle" /\ UNCHANGED hist
                   /\ Becomes(RxE, list[RxE], lastIndSeq[RxE])
                \/ /\ IsInWin(RxE) /\ pc'["rx"] = "enqueue" /\ UNCHANGED hist
                   /\ Becomes(RxE, list[RxE], lastIndSeq[RxE])
                \/ /\ IsBeyond(RxE) /\ pc'["rx"] = "jump" /\ Take(RxE, k)
                   /\ Becomes(RxE, After(RxE, k), start)
<1> DEFINE start == (RxSeq - win[RxE]) % Space
           k == LeSeqCount(list[RxE], start)
<1>1. /\ RxE \in Entries /\ list[RxE] \in Seq(Frames) /\ lastIndSeq[RxE] \in Numbers
      /\ pc \in [Threads -> {"idle"} \cup RxPcs \cup AddPcs \cup DownPcs] /\ pc["rx"] = "decide"
      /\ RxSeq \in Serials /\ RxSeq \in Numbers /\ RxSeq \in Int /\ win[RxE] \in {0, BAWinSize}
  BY RxFrames, PoolParts, ResetIsApart DEF RxStep, TableTypes, RxDecide, RestTypes
<1>2. ASSUME NEW v, Goto("rx", v) PROVE pc'["rx"] = v
  BY <1>1, <1>2 DEF Goto, Threads
<1>3. start \in Serials
  <2>1. RxSeq - win[RxE] \in Int
    BY <1>1, SizesAssumption
  <2> QED BY <2>1, Modulo DEF Serials
<1> HIDE DEF start
<1>4. k \in 0..Len(list[RxE])
  BY <1>1, <1>3, ResetIsApart, LeSeqIs
<1>5. CASE IsReset(RxE) /\ SetLast(RxE, RxSeq) /\ Goto("rx", "idle") /\ UNCHANGED list /\ Indicate
  <2>1. Becomes(RxE, list[RxE], RxSeq)
    BY <1>1, <1>5, SetBecomes
  <2> QED BY <1>1, <1>2, <1>3, <1>4, <1>5, <2>1 DEF Indicate, start
<1>6. CASE IsNext(RxE) /\ SetLast(RxE, RxSeq) /\ Goto("rx", "drain") /\ UNCHANGED list /\ Indicate
  <2>1. Becomes(RxE, list[RxE], RxSeq)
    BY <1>1, <1>6, SetBecomes
  <2> QED BY <1>1, <1>2, <1>3, <1>4, <1>6, <2>1 DEF Indicate, start
<1>7. CASE IsOld(RxE) /\ Goto("rx", "idle") /\ UNCHANGED <<list, lastIndSeq, free, hist>>
  <2>1. Becomes(RxE, list[RxE], lastIndSeq[RxE])
    BY <1>1, <1>7, SetBecomes
  <2> QED BY <1>1, <1>2, <1>3, <1>4, <1>7, <2>1 DEF start
<1>8. CASE IsInWin(RxE) /\ Goto("rx", "enqueue") /\ UNCHANGED <<list, lastIndSeq, free, hist>>
  <2>1. Becomes(RxE, list[RxE], lastIndSeq[RxE])
    BY <1>1, <1>8, SetBecomes
  <2> QED BY <1>1, <1>2, <1>3, <1>4, <1>8, <2>1 DEF start
<1>9. CASE IsBeyond(RxE) /\ Take(RxE, k) /\ SetLast(RxE, start) /\ Goto("rx", "jump")
  <2>1. start \in Numbers
    BY <1>3, ResetIsApart
  <2> HIDE DEF k
  <2>2. Becomes(RxE, After(RxE, k), start)
    BY <1>1, <1>4, <1>9, <2>1, TakesBecomes
  <2> QED BY <1>1, <1>2, <1>3, <1>4, <1>9, <2>2 DEF start, k
<1> QED BY <1>5, <1>6, <1>7, <1>8, <1>9 DEF RxDecide, start

\* ba_enqueue_reordering_packet: the frame goes in, or there is no block
LEMMA EnqueueBecomes ==
  ASSUME PoolInv, RxEnqueue
  PROVE  LET k == LeSeqCount(list[RxE], RxSeq)
         IN  /\ pc["rx"] \in {"enqueue", "jump"}
             /\ pc'["rx"] = IF pc["rx"] = "jump" THEN "drain" ELSE "idle"
             /\ k \in 0..Len(list[RxE])
             /\ \/ /\ Becomes(RxE, InsertSorted(list[RxE], RxF), lastIndSeq[RxE])
                   /\ UNCHANGED hist
                \/ /\ free = 0 \/ "eap" \in Events
                   /\ Becomes(RxE, After(RxE, k), RxSeq)
<1> DEFINE k == LeSeqCount(list[RxE], RxSeq)
           r == InsertSorted(list[RxE], RxF)
<1>1. /\ RxE \in Entries /\ list[RxE] \in Seq(Frames) /\ lastIndSeq[RxE] \in Numbers
      /\ pc \in [Threads -> {"idle"} \cup RxPcs \cup AddPcs \cup DownPcs]
      /\ RxF \in Frames /\ RxSeq \in Serials /\ RxSeq \in Numbers /\ RxSeq \in Int
      /\ list \in Listing /\ lastIndSeq \in [Entries -> Numbers]
  BY RxFrames, PoolParts, ResetIsApart DEF RxStep, TableTypes, RestTypes
<1>2. /\ pc["rx"] \in {"enqueue", "jump"}
      /\ pc'["rx"] = IF pc["rx"] = "jump" THEN "drain" ELSE "idle"
  BY <1>1 DEF RxEnqueue, Goto, Threads
<1>3. k \in 0..Len(list[RxE])
  BY <1>1, LeSeqIs
<1>4. CASE list' = [list EXCEPT ![RxE] = InsertSorted(@, RxF)] /\ UNCHANGED <<lastIndSeq, hist>>
  <2>1. r \in Seq(Frames) /\ list' = [list EXCEPT ![RxE] = r]
    BY <1>1, <1>4, InsertSortedIs
  <2> HIDE DEF r
  <2>2. Becomes(RxE, r, lastIndSeq[RxE])
    BY <1>1, <1>4, <2>1 DEF Becomes, Listing
  <2> QED BY <1>2, <1>3, <1>4, <2>2 DEF r
<1>5. CASE /\ free = 0 \/ "eap" \in Events
           /\ list' = [list EXCEPT ![RxE] = SubSeq(@, k + 1, Len(@))] /\ SetLast(RxE, RxSeq)
  <2> HIDE DEF k
  <2>1. After(RxE, k) \in Seq(Frames)
    BY <1>1, <1>3, Cut DEF After
  <2>2. list' = [list EXCEPT ![RxE] = After(RxE, k)] /\ lastIndSeq' = [lastIndSeq EXCEPT ![RxE] = RxSeq]
    BY <1>5 DEF After, SetLast
  <2>3. Becomes(RxE, After(RxE, k), RxSeq)
    BY <1>1, <2>1, <2>2 DEF Becomes, Listing
  <2> QED BY <1>2, <1>3, <1>5, <2>3 DEF k
<1> QED BY <1>4, <1>5 DEF RxEnqueue

\* a BAR behind LastIndSeq changes nothing, one ahead of it moves it
LEMMA BarBecomes ==
  ASSUME PoolInv, CntlEnqueueForRecv
  PROVE  LET start == no % Space
             k == LeSeqCount(list[RxE], start)
         IN  /\ pc["rx"] \in {"bar", "oldbar"} /\ pc'["rx"] \in {"idle", "down"}
             /\ k \in 0..Len(list[RxE]) /\ start \in Serials /\ (start - 1) % Space \in Serials
             /\ \/ Becomes(RxE, list[RxE], lastIndSeq[RxE])
                \/ /\ SEQ_SMALLER(lastIndSeq[RxE], start)
                   /\ Becomes(RxE, After(RxE, k), (start - 1) % Space)
<1> DEFINE start == no % Space
           k == LeSeqCount(list[RxE], start)
<1>1. /\ RxE \in Entries /\ list[RxE] \in Seq(Frames) /\ lastIndSeq[RxE] \in Numbers
      /\ pc \in [Threads -> {"idle"} \cup RxPcs \cup AddPcs \cup DownPcs] /\ no \in Int
  BY RxFrames, PoolParts DEF RxStep, TableTypes, RestTypes
<1>2. pc["rx"] \in {"bar", "oldbar"} /\ pc'["rx"] \in {"idle", "down"}
  BY <1>1 DEF CntlEnqueueForRecv, Goto, Threads
<1>3. start \in Serials
  BY <1>1, Modulo DEF Serials
<1> HIDE DEF start
<1>4. (start - 1) % Space \in Serials /\ k \in 0..Len(list[RxE])
  <2>1. start - 1 \in Int /\ start \in Int
    BY <1>3 DEF Serials
  <2> QED BY <1>1, <2>1, Modulo, LeSeqIs DEF Serials
<1>5. CASE UNCHANGED <<list, free, lastIndSeq, hist>>
  <2>1. Becomes(RxE, list[RxE], lastIndSeq[RxE])
    BY <1>1, <1>5, SetBecomes
  <2> QED BY <1>2, <1>3, <1>4, <2>1 DEF start
<1>6. CASE /\ SEQ_SMALLER(lastIndSeq[RxE], start)
           /\ Take(RxE, k) /\ SetLast(RxE, (start - 1) % Space)
  <2>1. (start - 1) % Space \in Numbers
    BY <1>4, ResetIsApart
  <2> HIDE DEF k
  <2>2. Becomes(RxE, After(RxE, k), (start - 1) % Space)
    BY <1>1, <1>4, <1>6, <2>1, TakesBecomes
  <2> QED BY <1>2, <1>3, <1>4, <1>6, <2>2 DEF start, k
<1> QED BY <1>5, <1>6 DEF CntlEnqueueForRecv, start

-----------------------------------------------------------------------------
(* Every step keeps it.                                                     *)

\* what a step must keep, beside the pool
ResetRest == Alone /\ Serving /\ Emptied

\* what the invariant says
LEMMA ResetParts ==
  ASSUME ResetInv
  PROVE  /\ PoolInv /\ Alone /\ Serving /\ Emptied
         /\ TableTypes /\ Owned /\ Adding /\ Ending /\ RestTypes /\ Working
         /\ pc["rx"] \in RxPcs => status[RxE] = "accept" /\ RxE \in Entries /\ pc["mlme"] = "idle"
<1>1. /\ PoolInv /\ Alone /\ Serving /\ Emptied
      /\ TableTypes /\ Owned /\ Adding /\ Ending /\ RestTypes /\ Working
  BY PoolParts DEF ResetInv, TableInv
<1>2. ASSUME pc["rx"] \in RxPcs
      PROVE  status[RxE] = "accept" /\ RxE \in Entries /\ pc["mlme"] = "idle"
  <2>1. wcidArray[sta["rx"]] = idx["rx"] /\ idx["rx"] # 0 /\ sta["rx"] \in Stations
    BY <1>1, <1>2 DEF Serving, Working
  <2>2. pc["rx"] # "idle"
    BY <1>2 DEF RxPcs
  <2>3. RxE \in Entries
    BY <1>1, <1>2, PoolParts
  <2> QED BY <1>1, <2>1, <2>2, <2>3 DEF Owned, Alone, RxE
<1> QED BY <1>1, <1>2

\* a step of the RX tasklet
LEMMA RxResets ==
  ASSUME ResetInv, RxStep, NEW l, NEW a \in Numbers, Becomes(RxE, l, a),
         l # <<>> => a \in Serials,
         pc'["rx"] \in {"shifted", "enqueue", "jump", "drain"} => a \in Serials,
         pc'["rx"] \in {"idle", "shifted", "decide", "enqueue", "jump", "drain", "down"}
  PROVE  ResetRest'
<1>1. /\ Alone /\ Serving /\ Emptied /\ pc["mlme"] = "idle" /\ status[RxE] = "accept"
      /\ pc["rx"] \in RxPcs /\ RxE \in Entries /\ pc'["mlme"] = "idle"
      /\ UNCHANGED <<status, wcidArray, idx, sta, RxE>>
  BY RxFrames, ResetParts DEF table
<1>2. Alone' /\ Serving'
  BY <1>1 DEF Alone, Serving
<1>3. \A e \in Entries :
        list'[e] # <<>> => lastIndSeq'[e] # RESET_RCV_SEQ /\ status'[e] = "accept"
  BY <1>1, ResetIsApart DEF Becomes, Emptied
<1>4. \A t \in Threads : pc'[t] \notin {"clear", "release"}
  BY <1>1 DEF Threads
<1>5. pc'["rx"] \in {"shifted", "enqueue", "jump", "drain"} => lastIndSeq'[RxE'] # RESET_RCV_SEQ
  BY <1>1, ResetIsApart DEF Becomes
<1> QED BY <1>1, <1>2, <1>3, <1>4, <1>5 DEF ResetRest, Emptied

\* nothing is left of an empty list
LEMMA EmptyAfter ==
  ASSUME NEW e \in Entries, list[e] = <<>>, NEW k \in 0..Len(list[e]) PROVE After(e, k) = <<>>
<1>1. k = 0 /\ Len(list[e]) = 0
  OBVIOUS
<1>2. SubSeq(list[e], 0 + 1, 0) = <<>>
  BY SubSeqEmpty
<1> QED BY <1>1, <1>2 DEF After

\* every step of the RX tasklet
LEMMA TaskletResets == ASSUME ResetInv, RxStep PROVE ResetRest'
<1>1. /\ PoolInv /\ RxE \in Entries /\ Emptied /\ lastIndSeq[RxE] \in Numbers /\ RxSeq \in Serials
  BY RxFrames, ResetParts
<1>2. list[RxE] # <<>> => lastIndSeq[RxE] \in Serials
  BY <1>1, ResetIsApart DEF Emptied
<1>3. pc["rx"] \in {"shifted", "enqueue", "jump", "drain"} => lastIndSeq[RxE] \in Serials
  BY <1>1, ResetIsApart DEF Emptied
<1>4. \A s \in Serials : s \in Numbers
  BY ResetIsApart
<1>5. RESET_RCV_SEQ \in Numbers
  BY DEF Numbers
<1>6. CASE RxFlush
  <2> DEFINE next == (lastIndSeq[RxE] + 1) % Space
             k == LeSeqCount(list[RxE], next)
  <2>1. /\ next \in Serials
        /\ \/ pc'["rx"] = "decide" /\ Becomes(RxE, list[RxE], lastIndSeq[RxE])
           \/ pc'["rx"] = "decide" /\ Becomes(RxE, <<>>, RESET_RCV_SEQ)
           \/ pc'["rx"] = "shifted" /\ Becomes(RxE, After(RxE, k), next)
    BY <1>1, <1>6, FlushBecomes
  <2> HIDE DEF next, k
  <2> QED BY <1>1, <1>2, <1>4, <1>5, <2>1, RxResets
<1>7. CASE RxShifted \/ RxDrain
  <2> DEFINE n == InOrderCount(list[RxE], lastIndSeq[RxE])
             s == IF n = 0 THEN lastIndSeq[RxE] ELSE Sequence(list[RxE][n])
  <2>1. /\ Drain(RxE) /\ pc["rx"] \in {"shifted", "drain"}
        /\ Goto("rx", "decide") \/ Goto("rx", "idle")
    BY <1>7 DEF RxShifted, RxDrain
  <2>2. pc'["rx"] \in {"decide", "idle"}
    BY <1>1, <2>1, PoolParts DEF Goto, TableTypes, Threads
  <2>3. n \in 0..Len(list[RxE]) /\ Becomes(RxE, After(RxE, n), s)
    BY <1>1, <2>1, DrainBecomes
  <2>4. s \in Serials
    <3>1. n # 0 => n \in 1..Len(list[RxE])
      BY <2>3
    <3>2. n # 0 => Sequence(list[RxE][n]) \in Serials
      BY <1>1, <3>1, PoolParts, ElementSerial
    <3> QED BY <1>3, <2>1, <3>2
  <2> HIDE DEF n, s
  <2> QED BY <1>1, <1>4, <2>2, <2>3, <2>4, RxResets
<1>8. CASE RxDecide
  <2> DEFINE start == (RxSeq - win[RxE]) % Space
             k == LeSeqCount(list[RxE], start)
  <2>1. /\ start \in Serials
        /\ \/ pc'["rx"] \in {"idle", "drain"} /\ Becomes(RxE, list[RxE], RxSeq)
           \/ pc'["rx"] = "idle" /\ Becomes(RxE, list[RxE], lastIndSeq[RxE])
           \/ ~IsReset(RxE) /\ pc'["rx"] = "enqueue" /\ Becomes(RxE, list[RxE], lastIndSeq[RxE])
           \/ pc'["rx"] = "jump" /\ Becomes(RxE, After(RxE, k), start)
    BY <1>1, <1>8, DecideBecomes DEF IsInWin
  <2>2. ~IsReset(RxE) => lastIndSeq[RxE] \in Serials
    BY <1>1, ResetIsApart DEF IsReset
  <2> HIDE DEF start, k
  <2> QED BY <1>1, <1>2, <1>4, <2>1, <2>2, RxResets
<1>9. CASE RxEnqueue
  <2> DEFINE k == LeSeqCount(list[RxE], RxSeq)
             r == InsertSorted(list[RxE], RxF)
  <2>1. /\ pc["rx"] \in {"enqueue", "jump"} /\ pc'["rx"] \in {"drain", "idle"}
        /\ \/ Becomes(RxE, r, lastIndSeq[RxE])
           \/ Becomes(RxE, After(RxE, k), RxSeq)
    BY <1>1, <1>9, EnqueueBecomes
  <2> HIDE DEF k, r
  <2> QED BY <1>1, <1>3, <1>4, <2>1, RxResets
<1>10. CASE CntlEnqueueForRecv
  <2> DEFINE start == no % Space
             k == LeSeqCount(list[RxE], start)
             s == (start - 1) % Space
  <2>1. /\ pc'["rx"] \in {"idle", "down"} /\ s \in Serials
        /\ \/ Becomes(RxE, list[RxE], lastIndSeq[RxE])
           \/ Becomes(RxE, After(RxE, k), s)
    BY <1>1, <1>10, BarBecomes
  <2> HIDE DEF k, s
  <2> QED BY <1>1, <1>2, <1>4, <2>1, RxResets
<1> QED BY <1>6, <1>7, <1>8, <1>9, <1>10 DEF RxStep

\* a frame or a BAR arrives
LEMMA ReceptionResets ==
  ASSUME Racing = "no", ResetInv, NEW p \in Stations, NEW n \in 0..MaxNo,
         NEW at \in {"bar", "oldbar"}, RxFrame(p, n) \/ RxBar(p, at)
  PROVE  ResetRest'
<1>1. /\ Alone /\ Serving /\ Emptied /\ TableTypes /\ pc["rx"] = "idle" /\ pc["mlme"] = "idle"
      /\ UNCHANGED <<status, list, lastIndSeq, wcidArray>>
  BY ResetParts DEF RxFrame, RxBar, MayStart, Threads, entryv, table
<1>2. CASE UNCHANGED thread
  BY <1>1, <1>2 DEF thread, ResetRest, Alone, Serving, Emptied, RxE
<1>3. ASSUME NEW v \in {"flush", "bar", "oldbar"}, Start("rx", p, v) PROVE ResetRest'
  <2>1. /\ pc'["rx"] = v /\ pc'["mlme"] = "idle" /\ sta'["rx"] = p /\ idx'["rx"] = wcidArray[p]
    BY <1>1, <1>3 DEF Start, TableTypes, Threads
  <2>2. \A t \in Threads : pc'[t] \notin {"clear", "release"}
    BY <2>1 DEF Threads
  <2> QED BY <1>1, <2>1, <2>2 DEF ResetRest, Alone, Serving, Emptied
<1>4. UNCHANGED thread \/ \E v \in {"flush", "bar", "oldbar"} : Start("rx", p, v)
  BY DEF RxFrame, RxBar
<1> QED BY <1>2, <1>3, <1>4

\* a session ends
LEMMA DownResets == ASSUME ResetInv, NEW t \in Threads, DownStep(t) PROVE ResetRest'
<1>1. /\ PoolInv /\ Alone /\ Emptied /\ TableTypes /\ Ending /\ Owned /\ RestTypes /\ pc[t] \in DownPcs
  BY ResetParts DEF DownStep, Down, DownRefresh, DownClear, BATableFreeRecEntry, DownPcs
<1>2. \A u \in Threads \ {t} : pc[u] = "idle"
  BY <1>1 DEF Alone, DownPcs, Threads
<1>3. ASSUME NEW v \in {"idle"} \cup DownPcs, pc' = [pc EXCEPT ![t] = v]
      PROVE  /\ pc'[t] = v /\ \A u \in Threads \ {t} : pc'[u] = "idle"
             /\ pc'["rx"] \notin RxPcs /\ Alone' /\ pc'["mlme"] # "fill"
  <2>1. pc'[t] = v /\ \A u \in Threads \ {t} : pc'[u] = "idle"
    BY <1>1, <1>2, <1>3 DEF TableTypes
  <2>2. v # "fill" /\ v \notin RxPcs /\ "idle" \notin RxPcs
    BY DEF DownPcs, RxPcs
  <2> QED BY <2>1, <2>2 DEF Alone, Threads
<1>4. ASSUME NEW v \in {"idle"} \cup DownPcs, pc' = [pc EXCEPT ![t] = v],
             \A e \in Entries :
               list'[e] # <<>> => lastIndSeq'[e] # RESET_RCV_SEQ /\ status'[e] = "accept",
             v \in {"clear", "release"} => list'[idx'[t]] = <<>>
      PROVE  ResetRest'
  <2>1. \A u \in Threads : pc'[u] \in {"clear", "release"} => list'[idx'[u]] = <<>>
    BY <1>3, <1>4
  <2>2. pc'["rx"] \notin {"shifted", "enqueue", "jump", "drain"}
    BY <1>3, <1>4 DEF RxPcs
  <2> QED BY <1>3, <1>4, <2>1, <2>2 DEF ResetRest, Serving, Emptied
<1>5. CASE Down(t)
  <2> DEFINE e == wcidArray[sta[t]]
  <2>1. UNCHANGED <<list, lastIndSeq, status>> /\ idx' = [idx EXCEPT ![t] = e]
    BY <1>5 DEF Down, entryv
  <2>2. e \in {0} \cup Entries /\ sta[t] \in Stations
    BY <1>1 DEF Ending, TableTypes
  <2>3. idx'[t] = e
    BY <1>1, <2>1, <2>2 DEF TableTypes
  <2>4. \E v \in {"idle"} \cup DownPcs :
          /\ pc' = [pc EXCEPT ![t] = v]
          /\ v \in {"clear", "release"} => e # 0 /\ status[e] # "accept"
    BY <1>5 DEF Down, DownPcs
  <2> HIDE DEF e
  <2>5. \A x \in Entries : list'[x] # <<>> => lastIndSeq'[x] # RESET_RCV_SEQ /\ status'[x] = "accept"
    BY <1>1, <2>1 DEF Emptied
  <2>6. e # 0 /\ status[e] # "accept" => list'[idx'[t]] = <<>>
    BY <1>1, <2>1, <2>2, <2>3 DEF Emptied
  <2> QED BY <1>4, <2>4, <2>5, <2>6
<1>6. CASE DownRefresh(t)
  <2>1. pc' = [pc EXCEPT ![t] = "clear"] /\ UNCHANGED <<status, idx>> /\ Refresh(idx[t])
    BY <1>6 DEF DownRefresh, Goto
  <2>2. idx[t] \in Entries
    <3>1. pc[t] \in {"refresh", "clear", "release"}
      BY <1>6 DEF DownRefresh
    <3> QED BY <1>1, <3>1 DEF Ending, TableTypes
  <2>3. Becomes(idx[t], <<>>, RESET_RCV_SEQ)
    BY <1>1, <2>1, <2>2, RefreshBecomes
  <2>4. \A x \in Entries : list'[x] # <<>> => lastIndSeq'[x] # RESET_RCV_SEQ /\ status'[x] = "accept"
    BY <1>1, <2>1, <2>2, <2>3 DEF Becomes, Emptied
  <2>5. list'[idx'[t]] = <<>> /\ "clear" \in {"idle"} \cup DownPcs
    BY <2>1, <2>3 DEF Becomes, DownPcs
  <2> QED BY <1>4, <2>1, <2>4, <2>5
<1>7. CASE DownClear(t)
  <2>1. /\ pc' = [pc EXCEPT ![t] = "release"] /\ UNCHANGED <<status, idx, list>>
        /\ SetLast(idx[t], RESET_RCV_SEQ) /\ pc[t] = "clear"
    BY <1>7 DEF DownClear, Goto
  <2>2. list[idx[t]] = <<>>
    BY <1>1, <2>1 DEF Emptied
  <2>3. \A x \in Entries : x # idx[t] => lastIndSeq'[x] = lastIndSeq[x]
    BY <1>1, <2>1 DEF SetLast, RestTypes
  <2>4. \A x \in Entries : list'[x] # <<>> => lastIndSeq'[x] # RESET_RCV_SEQ /\ status'[x] = "accept"
    BY <1>1, <2>1, <2>2, <2>3 DEF Emptied
  <2>5. "release" \in {"idle"} \cup DownPcs
    BY DEF DownPcs
  <2> QED BY <1>4, <2>1, <2>2, <2>4, <2>5
<1>8. CASE BATableFreeRecEntry(t)
  <2>1. /\ pc' = [pc EXCEPT ![t] = "idle"] /\ UNCHANGED <<idx, list, lastIndSeq>> /\ pc[t] = "release"
        /\ \/ status' = status
           \/ status' = [status EXCEPT ![idx[t]] = "none"]
    BY <1>8 DEF BATableFreeRecEntry, Goto
  <2>2. list[idx[t]] = <<>>
    BY <1>1, <2>1 DEF Emptied
  <2>3. \A x \in Entries : x # idx[t] => status'[x] = status[x]
    BY <1>1, <2>1 DEF TableTypes
  <2>4. \A x \in Entries : list'[x] # <<>> => lastIndSeq'[x] # RESET_RCV_SEQ /\ status'[x] = "accept"
    BY <1>1, <2>1, <2>2, <2>3 DEF Emptied
  <2> QED BY <1>4, <2>1, <2>4
<1> QED BY <1>5, <1>6, <1>7, <1>8 DEF DownStep

\* a session is set up: by BARecSessionAdd its list is empty
LEMMA AddResets == ASSUME ResetInv, AddStep PROVE ResetRest'
<1>1. /\ PoolInv /\ Alone /\ Emptied /\ TableTypes /\ Adding /\ Owned /\ RestTypes /\ TableInv
      /\ pc["mlme"] \in AddPcs
  BY ResetParts, PoolParts DEF AddStep, AddAlloc, AddRestart, AddFill, AddPcs
<1>2. pc["rx"] = "idle"
  BY <1>1 DEF Alone, AddPcs
<1>3. ASSUME NEW v \in {"idle", "fill"}, pc' = [pc EXCEPT !["mlme"] = v],
             \A e \in Entries :
               list'[e] # <<>> => lastIndSeq'[e] # RESET_RCV_SEQ /\ status'[e] = "accept",
             v = "fill" => list'[idx'["mlme"]] = <<>>
      PROVE  ResetRest'
  <2>1. pc'["rx"] = "idle" /\ pc'["mlme"] = v
    BY <1>1, <1>2, <1>3 DEF TableTypes, Threads
  <2>2. "idle" \notin RxPcs /\ \A t \in Threads : pc'[t] \notin {"clear", "release"}
    BY <2>1 DEF RxPcs, Threads
  <2> QED BY <1>3, <2>1, <2>2 DEF ResetRest, Alone, Serving, Emptied
<1>4. CASE AddAlloc
  <2> DEFINE unused == {e \in Entries : status[e] = "none"}
             found == numAsRecipient < MaxEntries
             e == Min(unused)
  <2>1. UNCHANGED <<list, lastIndSeq>>
    BY <1>4 DEF AddAlloc
  <2>2. CASE ~found
    <3>1. pc' = [pc EXCEPT !["mlme"] = "idle"] /\ status' = status
      BY <1>1, <1>4, <2>2 DEF AddAlloc, TableTypes
    <3> QED BY <1>1, <1>3, <2>1, <3>1 DEF Emptied
  <2>3. CASE found
    <3>1. unused # {} /\ unused \subseteq Nat
      BY <1>1, <2>3, RoomFound DEF Entries, TableInv
    <3>2. /\ pc' = [pc EXCEPT !["mlme"] = "fill"] /\ idx' = [idx EXCEPT !["mlme"] = e]
          /\ status' = [status EXCEPT ![e] = "used"]
      BY <1>4, <2>3, <3>1 DEF AddAlloc
    <3>3. e \in unused
      <4> HIDE DEF unused
      <4> QED BY <3>1, Smallest
    <3>4. e \in Entries /\ status[e] = "none"
      BY <3>3
    <3> HIDE DEF e, unused
    <3>5. list[e] = <<>> /\ idx'["mlme"] = e
      BY <1>1, <3>2, <3>4 DEF Emptied, TableTypes, Threads
    <3>6. \A x \in Entries : x # e => status'[x] = status[x]
      BY <1>1, <3>2 DEF TableTypes
    <3>7. \A x \in Entries : list'[x] # <<>> => lastIndSeq'[x] # RESET_RCV_SEQ /\ status'[x] = "accept"
      BY <1>1, <2>1, <3>5, <3>6 DEF Emptied
    <3> QED BY <1>3, <2>1, <3>2, <3>5, <3>7
  <2> QED BY <2>2, <2>3
<1>5. CASE AddRestart
  <2>1. /\ pc' = [pc EXCEPT !["mlme"] = "fill"] /\ UNCHANGED <<status, idx>> /\ Refresh(idx["mlme"])
        /\ idx["mlme"] \in Entries
    BY <1>1, <1>5 DEF AddRestart, Goto, Adding, TableTypes, Threads
  <2>2. Becomes(idx["mlme"], <<>>, RESET_RCV_SEQ)
    BY <1>1, <2>1, RefreshBecomes
  <2>3. \A x \in Entries : list'[x] # <<>> => lastIndSeq'[x] # RESET_RCV_SEQ /\ status'[x] = "accept"
    BY <1>1, <2>1, <2>2 DEF Becomes, Emptied
  <2>4. list'[idx'["mlme"]] = <<>>
    BY <2>1, <2>2 DEF Becomes
  <2> QED BY <1>3, <2>1, <2>3, <2>4
<1>6. CASE AddFill
  <2> DEFINE e == idx["mlme"]
  <2>1. /\ pc' = [pc EXCEPT !["mlme"] = "idle"] /\ UNCHANGED list /\ SetLast(e, RESET_RCV_SEQ)
        /\ status' = [status EXCEPT ![e] = "accept"] /\ pc["mlme"] = "fill"
    BY <1>6 DEF AddFill, Goto
  <2>2. list[e] = <<>>
    BY <1>1, <2>1 DEF Emptied
  <2>3. \A x \in Entries : x # e => lastIndSeq'[x] = lastIndSeq[x] /\ status'[x] = status[x]
    BY <1>1, <2>1 DEF SetLast, RestTypes, TableTypes
  <2> HIDE DEF e
  <2>4. \A x \in Entries : list'[x] # <<>> => lastIndSeq'[x] # RESET_RCV_SEQ /\ status'[x] = "accept"
    BY <1>1, <2>1, <2>2, <2>3 DEF Emptied
  <2> QED BY <1>3, <2>1, <2>4
<1> QED BY <1>4, <1>5, <1>6 DEF AddStep

\* the originator, the clock and the other sessions
LEMMA OtherResets ==
  ASSUME Racing = "no", ResetInv,
         \/ \E p \in Stations : MlmeDelBa(p) \/ MlmeAddBa(p) \/ TxAdvance(p)
         \/ OthersTake \/ OthersGive
         \/ \E e \in Entries : Tick(e)
         \/ UNCHANGED vars
  PROVE  ResetRest'
<1>1. Alone /\ Serving /\ Emptied /\ TableTypes
  BY ResetParts
<1>2. UNCHANGED <<list, lastIndSeq, status, wcidArray>>
  BY DEF MlmeDelBa, MlmeAddBa, TxAdvance, OthersTake, OthersGive, Tick, vars, entryv, table
<1>3. ASSUME NEW p \in Stations, MlmeDelBa(p) \/ MlmeAddBa(p) PROVE ResetRest'
  <2>1. pc["rx"] = "idle" /\ pc["mlme"] = "idle"
    BY <1>3 DEF MlmeDelBa, MlmeAddBa, MayStart, Threads
  <2>2. PICK v \in {"down", "alloc", "restart"} : Start("mlme", p, v)
    BY <1>3 DEF MlmeDelBa, MlmeAddBa
  <2>3. pc'["rx"] = "idle" /\ pc'["mlme"] = v
    BY <1>1, <2>1, <2>2 DEF Start, TableTypes, Threads
  <2>4. "idle" \notin RxPcs /\ \A t \in Threads : pc'[t] \notin {"clear", "release"}
    BY <2>3 DEF RxPcs, Threads
  <2> QED BY <1>1, <1>2, <2>3, <2>4 DEF ResetRest, Alone, Serving, Emptied
<1>4. CASE UNCHANGED thread
  BY <1>1, <1>2, <1>4 DEF thread, ResetRest, Alone, Serving, Emptied, RxE
<1> QED BY <1>3, <1>4 DEF TxAdvance, OthersTake, OthersGive, Tick, vars

\* the invariant at the start
LEMMA ResetStart == Init => ResetInv
<1> SUFFICES ASSUME Init PROVE ResetInv
  OBVIOUS
<1>1. PoolInv
  BY PoolStart
<1>2. Alone /\ Serving /\ Emptied
  BY DEF Init, Alone, Serving, Emptied, RxPcs, Threads
<1> QED BY <1>1, <1>2 DEF ResetInv

\* the invariant is inductive when only one thread is at the sessions
LEMMA ResetStep == ASSUME Racing = "no" PROVE ResetInv /\ [Next]_vars => ResetInv'
<1> SUFFICES ASSUME ResetInv, [Next]_vars PROVE ResetInv'
  OBVIOUS
<1>1. PoolInv'
  BY PoolStep DEF ResetInv
<1>2. ResetRest'
  <2>1. CASE Tasklet
    BY <2>1, TaskletResets, ReceptionResets, DownResets DEF Tasklet, Reception, Threads
  <2>2. CASE DownStep("mlme") \/ AddStep
    BY <2>2, DownResets, AddResets DEF Threads
  <2>3. CASE \E p \in Stations, at \in {"bar", "oldbar"} : RxBar(p, at)
    <3>1. 0 \in 0..MaxNo
      BY BoundsAssumption
    <3> QED BY <2>3, <3>1, ReceptionResets
  <2> QED BY <2>1, <2>2, <2>3, OtherResets DEF Next
<1> QED BY <1>1, <1>2 DEF ResetInv, ResetRest

-----------------------------------------------------------------------------
(* The order in the lists: the inductive invariant.                         *)

\* the RX tasklet has just moved LastIndSeq of e, and has not looked yet
\* for what has become in order
Moving(e) == pc["rx"] \in {"shifted", "jump", "drain"} /\ RxE = e

\* what is in a list is in the window, in order, and waits for a frame
Ordered ==
  \A e \in Entries : list[e] # <<>> =>
    /\ win[e] = BAWinSize
    /\ InWindow(list[e], lastIndSeq[e], IF Moving(e) THEN 1 ELSE 2,
                IF pc["rx"] = "jump" /\ RxE = e THEN BAWinSize - 1 ELSE BAWinSize)

\* the frame that is about to be put into the list
InHand ==
  /\ pc["rx"] = "enqueue" => Dist(RxSeq, lastIndSeq[RxE]) \in 2..BAWinSize
  /\ pc["rx"] = "jump" => Dist(RxSeq, lastIndSeq[RxE]) = BAWinSize

\* a session has the window it was given, until it is torn down
Opened ==
  /\ \A p \in Stations : wcidArray[p] # 0 => win[wcidArray[p]] = BAWinSize
  /\ \A t \in Threads : pc[t] \in {"refresh", "clear"} => wcidArray[sta[t]] = idx[t]

OrderInv == ResetInv /\ Ordered /\ InHand /\ Opened /\ others = 0

\* the pool has a block for every number of every window
Sufficient == "exhaust" \notin Events /\ "eap" \notin Events /\ PoolSize >= MaxEntries * BAWinSize

\* the window is less than half of the number space
LEMMA WindowSmall ==
  /\ BAWinSize \in Nat /\ BAWinSize >= 1 /\ BAWinSize + 1 < Half /\ Half \in Nat
  /\ Space = 2 * Half /\ MAXSEQ = Space - 1 /\ Space \in Nat
<1>1. BAWinSize \in Nat /\ BAWinSize >= 1 /\ MaxGap \in Nat /\ 2 * BAWinSize + MaxGap < Half
  BY SizesAssumption, GapAssumption DEF Half, Space
<1>2. BAWinSize + 1 < Half
  BY <1>1, HalfIs
<1> QED BY <1>1, <1>2, HalfIs, Modulo

\* what the invariant says
LEMMA OrderParts ==
  ASSUME OrderInv
  PROVE  /\ ResetInv /\ PoolInv /\ Ordered /\ InHand /\ Opened /\ others = 0 /\ Emptied
         /\ \A e \in Entries : list[e] # <<>> => lastIndSeq[e] \in Serials
         /\ \A e \in Entries : list[e] \in Seq(Frames) /\ Len(list[e]) \in Nat
         /\ pc["rx"] \in RxPcs => win[RxE] = BAWinSize
<1>1. /\ ResetInv /\ PoolInv /\ Ordered /\ InHand /\ Opened /\ others = 0 /\ Emptied
      /\ RestTypes /\ Serving /\ Working
  BY ResetParts DEF OrderInv
<1>2. \A e \in Entries : list[e] # <<>> => lastIndSeq[e] \in Serials
  BY <1>1, ResetIsApart DEF Emptied, RestTypes
<1>3. \A e \in Entries : list[e] \in Seq(Frames) /\ Len(list[e]) \in Nat
  BY <1>1, PoolParts
<1>4. pc["rx"] \in RxPcs => win[RxE] = BAWinSize
  BY <1>1 DEF Serving, Working, Opened, RxE
<1> QED BY <1>1, <1>2, <1>3, <1>4

\* No list is full when a frame is to be put in, and the pool has a block.
LEMMA Ample ==
  ASSUME OrderInv, Sufficient, pc["rx"] \in {"enqueue", "jump"} PROVE free > 0
<1> DEFINE W == BAWinSize - 1
           c == Cardinality(Blocks(list))
<1>1. W \in Nat /\ W + 1 = BAWinSize /\ BAWinSize \in Nat
  BY WindowSmall
<1> HIDE DEF W
<1>2. ASSUME NEW e \in Entries PROVE Len(list[e]) <= W
  <2>1. CASE list[e] = <<>>
    BY <1>1, <2>1
  <2>2. CASE list[e] # <<>>
    <3>1. list[e] \in Seq(Frames) /\ lastIndSeq[e] \in Serials /\ Len(list[e]) \in Nat
      BY <2>2, OrderParts
    <3>2. \/ InWindow(list[e], lastIndSeq[e], 2, BAWinSize)
          \/ InWindow(list[e], lastIndSeq[e], 1, W)
      <4>1. CASE pc["rx"] = "jump" /\ RxE = e
        BY <1>1, <2>2, <4>1, OrderParts DEF Ordered, Moving, W
      <4>2. CASE ~(pc["rx"] = "jump" /\ RxE = e)
        BY <1>1, <2>2, <4>2, OrderParts DEF Ordered, Moving
      <4> QED BY <4>1, <4>2
    <3>3. 2 + Len(list[e]) <= BAWinSize + 1 \/ 1 + Len(list[e]) <= W + 1
      BY <1>1, <2>2, <3>1, <3>2, WindowBounds
    <3> QED BY <1>1, <3>1, <3>3
  <2> QED BY <2>1, <2>2
<1>3. Blocks(list) \subseteq Entries \X (1..W)
  <2>1. \A e \in Entries : 1..Len(list[e]) \subseteq 1..W
    BY <1>1, <1>2, OrderParts
  <2> QED BY <2>1 DEF Blocks
<1>4. IsFiniteSet(Entries) /\ Cardinality(Entries) = MaxEntries /\ MaxEntries \in Nat /\ MaxEntries >= 1
  BY EntriesFinite, SizesAssumption
<1>5. IsFiniteSet(1..W) /\ Cardinality(1..W) = W
  <2>1. /\ IsFiniteSet(1..W)
        /\ Cardinality(1..W) = IF 1 > W THEN 0 ELSE W - 1 + 1
    BY <1>1, FS_Interval
  <2> QED BY <1>1, <2>1
<1>6. IsFiniteSet(Entries \X (1..W)) /\ Cardinality(Entries \X (1..W)) = MaxEntries * W
  BY <1>4, <1>5, FS_Product
<1>7. c <= MaxEntries * W /\ c \in Nat
  <2>1. IsFiniteSet(Blocks(list)) /\ Cardinality(Blocks(list)) <= Cardinality(Entries \X (1..W))
    BY <1>3, <1>6, FS_Subset
  <2>2. Cardinality(Blocks(list)) \in Nat
    BY <2>1, FS_CardinalityType
  <2> QED BY <1>6, <2>1, <2>2
<1>8. free + others + c = PoolSize /\ others = 0 /\ free \in Nat
  BY OrderParts, PoolParts DEF Pooled, Sufficient, RestTypes
<1> HIDE DEF c
<1>9. MaxEntries * W < MaxEntries * BAWinSize
  <2>1. \A m, w \in Nat : m >= 1 => m * w < m * (w + 1)
    OBVIOUS
  <2> QED BY <1>1, <1>4, <2>1
<1>10. PoolSize >= MaxEntries * BAWinSize /\ PoolSize \in Nat
  BY SizesAssumption DEF Sufficient
<1>11. MaxEntries * W \in Nat /\ MaxEntries * BAWinSize \in Nat
  BY <1>1, <1>4
<1> QED BY <1>7, <1>8, <1>9, <1>10, <1>11

OrderRest == Ordered /\ InHand /\ Opened /\ others = 0

\* a step of the RX tasklet
LEMMA RxOrders ==
  ASSUME OrderInv, RxStep, NEW l, NEW a \in Numbers, Becomes(RxE, l, a),
         NEW lo, NEW hi,
         l # <<>> => InWindow(l, a, lo, hi),
         lo = IF pc'["rx"] \in {"shifted", "jump", "drain"} THEN 1 ELSE 2,
         hi = IF pc'["rx"] = "jump" THEN BAWinSize - 1 ELSE BAWinSize,
         pc'["rx"] = "enqueue" => Dist(RxSeq, a) \in 2..BAWinSize,
         pc'["rx"] = "jump" => Dist(RxSeq, a) = BAWinSize,
         pc'["rx"] \notin {"refresh", "clear"}
  PROVE  OrderRest'
<1>1. /\ UNCHANGED <<table, win, idx, sta, no, others>> /\ RxE' = RxE /\ RxF' = RxF
      /\ pc["rx"] \in RxPcs /\ RxE \in Entries /\ win[RxE] = BAWinSize
      /\ pc'["mlme"] = pc["mlme"] /\ Ordered /\ Opened /\ others = 0
  BY RxFrames, OrderParts
<1>2. /\ list'[RxE] = l /\ lastIndSeq'[RxE] = a
      /\ \A d \in Entries \ {RxE} : list'[d] = list[d] /\ lastIndSeq'[d] = lastIndSeq[d]
  BY DEF Becomes
<1>3. ASSUME NEW e \in Entries, list'[e] # <<>>
      PROVE  /\ win'[e] = BAWinSize
             /\ InWindow(list'[e], lastIndSeq'[e],
                         IF pc'["rx"] \in {"shifted", "jump", "drain"} /\ RxE' = e THEN 1 ELSE 2,
                         IF pc'["rx"] = "jump" /\ RxE' = e THEN BAWinSize - 1 ELSE BAWinSize)
  <2>1. CASE e = RxE
    BY <1>1, <1>2, <1>3, <2>1
  <2>2. CASE e # RxE
    <3>1. list[e] # <<>> /\ list'[e] = list[e] /\ lastIndSeq'[e] = lastIndSeq[e]
      BY <1>2, <1>3, <2>2
    <3>2. win[e] = BAWinSize /\ InWindow(list[e], lastIndSeq[e], 2, BAWinSize)
      BY <1>1, <2>2, <3>1 DEF Ordered, Moving
    <3> QED BY <1>1, <2>2, <3>1, <3>2
  <2> QED BY <2>1, <2>2
<1>4. Ordered'
  BY <1>3 DEF Ordered, Moving
<1>5. RxSeq' = RxSeq
  BY <1>1 DEF RxSeq
<1>6. InHand'
  BY <1>1, <1>2, <1>5 DEF InHand
<1>7. Opened'
  BY <1>1 DEF Opened, table, Threads
<1> QED BY <1>1, <1>4, <1>6, <1>7 DEF OrderRest

\* ba_flush_reordering_timeout_mpdus moves LastIndSeq by one
LEMMA FlushOrders == ASSUME OrderInv, RxFlush PROVE OrderRest'
<1> DEFINE next == (lastIndSeq[RxE] + 1) % Space
           k == LeSeqCount(list[RxE], next)
<1>1. /\ pc["rx"] = "flush" /\ k \in 0..Len(list[RxE]) /\ next \in Serials /\ RxStep
      /\ \/ pc'["rx"] = "decide" /\ Becomes(RxE, list[RxE], lastIndSeq[RxE])
         \/ pc'["rx"] = "decide" /\ Becomes(RxE, <<>>, RESET_RCV_SEQ)
         \/ pc'["rx"] = "shifted" /\ list[RxE] # <<>> /\ Becomes(RxE, After(RxE, k), next)
  BY OrderParts, FlushBecomes DEF RxStep
<1>2. /\ RxE \in Entries /\ lastIndSeq[RxE] \in Numbers /\ next \in Numbers /\ RESET_RCV_SEQ \in Numbers
      /\ list[RxE] \in Seq(Frames)
  BY <1>1, RxFrames, OrderParts, ResetIsApart DEF Numbers
<1>3. list[RxE] # <<>> => /\ InWindow(list[RxE], lastIndSeq[RxE], 2, BAWinSize)
                          /\ lastIndSeq[RxE] \in Serials
  BY <1>1, <1>2, OrderParts DEF Ordered, Moving
<1>4. ASSUME list[RxE] # <<>> PROVE InWindow(After(RxE, k), next, 1, BAWinSize)
  <2> DEFINE a == lastIndSeq[RxE]
  <2>1. InWindow(list[RxE], a, 2, BAWinSize) /\ a \in Serials
    BY <1>3, <1>4
  <2>2. /\ 2 \in Nat /\ 1 \in Nat /\ BAWinSize \in Nat /\ BAWinSize < Half /\ BAWinSize <= MAXSEQ /\ 1 <= Half
        /\ 1 + 1 = 2 /\ 2 - 1 = 1 /\ BAWinSize - 1 <= BAWinSize /\ 1 \in Serials /\ 1 <= 2
    BY WindowSmall DEF Serials
  <2>3. InWindow(list[RxE], a, 1, BAWinSize)
    BY <1>2, <2>1, <2>2, WindowWider
  <2>4. After(RxE, k) \in Seq(Frames) /\ InWindow(After(RxE, k), a, 1 + 1, BAWinSize)
    <3> HIDE DEF a
    <3>1. k = LeSeqCount(list[RxE], (a + 1) % Space)
      BY DEF a
    <3> QED BY <1>2, <2>1, <2>2, <2>3, <3>1, LeSeqLeaves DEF After
  <2> HIDE DEF k, a
  <2>5. InWindow(After(RxE, k), (a + 1) % Space, 2 - 1, BAWinSize - 1)
    BY <2>1, <2>2, <2>4, WindowMoves
  <2>6. InWindow(After(RxE, k), next, 1, BAWinSize - 1) /\ BAWinSize - 1 \in Int
    BY <2>2, <2>5 DEF a
  <2> HIDE DEF next
  <2> QED BY <1>1, <2>2, <2>4, <2>6, WindowWider
<1> HIDE DEF next, k
<1>5. CASE pc'["rx"] = "decide" /\ Becomes(RxE, list[RxE], lastIndSeq[RxE])
  BY <1>1, <1>2, <1>3, <1>5, RxOrders
<1>6. CASE pc'["rx"] = "decide" /\ Becomes(RxE, <<>>, RESET_RCV_SEQ)
  BY <1>1, <1>2, <1>6, RxOrders
<1>7. CASE pc'["rx"] = "shifted" /\ list[RxE] # <<>> /\ Becomes(RxE, After(RxE, k), next)
  BY <1>1, <1>2, <1>4, <1>7, RxOrders
<1> QED BY <1>1, <1>5, <1>6, <1>7

\* after ba_indicate_reordering_mpdus_in_order the head waits for a frame
LEMMA DrainOrders ==
  ASSUME OrderInv, RxStep, pc["rx"] \in {"shifted", "drain"}, Drain(RxE), pc'["rx"] \in {"decide", "idle"}
  PROVE  OrderRest'
<1> DEFINE a == lastIndSeq[RxE]
           n == InOrderCount(list[RxE], a)
           s == IF n = 0 THEN a ELSE Sequence(list[RxE][n])
<1>1. RxE \in Entries /\ list[RxE] \in Seq(Frames) /\ a \in Numbers
  BY RxFrames, OrderParts
<1>2. n \in 0..Len(list[RxE]) /\ Becomes(RxE, After(RxE, n), s)
  BY <1>1, OrderParts, DrainBecomes
<1>3. CASE list[RxE] = <<>>
  <2>1. n = 0
    BY <1>2, <1>3
  <2> HIDE DEF n
  <2>2. After(RxE, n) = <<>> /\ s = a
    BY <1>1, <1>2, <1>3, <2>1, EmptyAfter
  <2> HIDE DEF s, a
  <2> QED BY <1>1, <1>2, <2>2, RxOrders
<1>4. CASE list[RxE] # <<>>
  <2>1. InWindow(list[RxE], a, 1, BAWinSize) /\ a \in Serials
    BY <1>1, <1>4, OrderParts DEF Ordered, Moving
  <2>2. BAWinSize \in Nat /\ BAWinSize < Half
    BY WindowSmall
  <2>3. s \in Serials /\ InWindow(After(RxE, n), s, 2, BAWinSize)
    <3> HIDE DEF a
    <3> QED BY <1>1, <2>1, <2>2, InOrderLeaves DEF After
  <2>4. s \in Numbers
    BY <2>3, ResetIsApart
  <2> HIDE DEF n, s, a
  <2> QED BY <1>1, <1>2, <2>3, <2>4, RxOrders
<1> QED BY <1>3, <1>4

\* a frame in the window finds its place
LEMMA EnqueueOrders == ASSUME OrderInv, Sufficient, RxEnqueue PROVE OrderRest'
<1> DEFINE a == lastIndSeq[RxE]
           r == InsertSorted(list[RxE], RxF)
<1>1. free > 0 /\ "eap" \notin Events
  BY Ample DEF RxEnqueue, Sufficient
<1>2. /\ pc["rx"] \in {"enqueue", "jump"} /\ Becomes(RxE, r, a) /\ RxStep
      /\ pc'["rx"] = IF pc["rx"] = "jump" THEN "drain" ELSE "idle"
  <2>1. free # 0
    BY <1>1, OrderParts, PoolParts DEF RestTypes
  <2> QED BY <1>1, <2>1, OrderParts, EnqueueBecomes DEF RxStep
<1>3. /\ RxE \in Entries /\ list[RxE] \in Seq(Frames) /\ a \in Serials /\ a \in Numbers
      /\ RxF \in Frames
  BY <1>2, RxFrames, OrderParts, ResetIsApart DEF Emptied
<1>4. ASSUME NEW lo \in Nat, lo = IF pc["rx"] = "jump" THEN 1 ELSE 2
      PROVE  InWindow(r, a, lo, BAWinSize)
  <2>1. BAWinSize \in Nat /\ BAWinSize < Half /\ BAWinSize >= 1 /\ BAWinSize - 1 \in Int /\ BAWinSize - 1 <= BAWinSize
    BY WindowSmall
  <2>2. Dist(Sequence(RxF), a) \in lo..BAWinSize
    BY <1>2, <1>4, <2>1, OrderParts DEF InHand, RxSeq
  <2>3. InWindow(list[RxE], a, lo, BAWinSize)
    <3>1. CASE list[RxE] = <<>>
      BY <3>1 DEF InWindow
    <3>2. CASE list[RxE] # <<>>
      <4>1. InWindow(list[RxE], a, lo, IF pc["rx"] = "jump" THEN BAWinSize - 1 ELSE BAWinSize)
        BY <1>2, <1>3, <1>4, <3>2, OrderParts DEF Ordered, Moving
      <4> HIDE DEF a
      <4> QED BY <1>3, <2>1, <4>1, WindowWider
    <3> QED BY <3>1, <3>2
  <2> HIDE DEF a
  <2> QED BY <1>3, <2>1, <2>2, <2>3, InsertSortedFits
<1>5. 1 \in Nat /\ 2 \in Nat
  OBVIOUS
<1> HIDE DEF r, a
<1>6. CASE pc["rx"] = "jump"
  BY <1>2, <1>3, <1>4, <1>5, <1>6, RxOrders
<1>7. CASE pc["rx"] = "enqueue"
  BY <1>2, <1>3, <1>4, <1>5, <1>7, RxOrders
<1> QED BY <1>2, <1>6, <1>7

\* the five cases of Indicate_AMPDU_Packet
LEMMA DecideOrders == ASSUME OrderInv, RxDecide PROVE OrderRest'
<1> DEFINE a == lastIndSeq[RxE]
           d == Dist(RxSeq, a)
           start == (RxSeq - win[RxE]) % Space
           k == LeSeqCount(list[RxE], start)
<1>1. /\ pc["rx"] = "decide" /\ k \in 0..Len(list[RxE]) /\ start \in Serials /\ RxStep
      /\ \/ IsReset(RxE) /\ pc'["rx"] = "idle" /\ Becomes(RxE, list[RxE], RxSeq)
         \/ IsNext(RxE) /\ pc'["rx"] = "drain" /\ Becomes(RxE, list[RxE], RxSeq)
         \/ IsOld(RxE) /\ pc'["rx"] = "idle" /\ Becomes(RxE, list[RxE], a)
         \/ IsInWin(RxE) /\ pc'["rx"] = "enqueue" /\ Becomes(RxE, list[RxE], a)
         \/ IsBeyond(RxE) /\ pc'["rx"] = "jump" /\ Becomes(RxE, After(RxE, k), start)
  BY OrderParts, DecideBecomes DEF RxStep
<1>2. /\ RxE \in Entries /\ list[RxE] \in Seq(Frames) /\ a \in Numbers /\ RxSeq \in Serials
      /\ RxSeq \in Numbers /\ start \in Numbers /\ win[RxE] = BAWinSize
  BY <1>1, RxFrames, OrderParts, ResetIsApart DEF RxPcs
<1>3. list[RxE] # <<>> => InWindow(list[RxE], a, 2, BAWinSize) /\ a \in Serials
  BY <1>1, <1>2, OrderParts DEF Ordered, Moving
<1>4. /\ BAWinSize \in Nat /\ BAWinSize >= 1 /\ BAWinSize + 1 < Half /\ Half \in Nat
      /\ Space = 2 * Half /\ MAXSEQ = Space - 1 /\ Space \in Nat
  BY WindowSmall
<1>5. CASE IsReset(RxE) /\ pc'["rx"] = "idle" /\ Becomes(RxE, list[RxE], RxSeq)
  <2>1. list[RxE] = <<>>
    BY <1>2, <1>5, OrderParts DEF IsReset, Emptied
  <2> QED BY <1>1, <1>2, <1>5, <2>1, RxOrders
<1>6. ASSUME ~IsReset(RxE) PROVE a \in Serials
  BY <1>2, <1>6, ResetIsApart DEF IsReset
<1>7. CASE IsNext(RxE) /\ pc'["rx"] = "drain" /\ Becomes(RxE, list[RxE], RxSeq)
  <2>1. a \in Serials /\ RxSeq = (a + 1) % Space
    BY <1>6, <1>7 DEF IsNext, SEQ_STEPONE
  <2>2. list[RxE] # <<>> => InWindow(list[RxE], RxSeq, 1, BAWinSize)
    <3> SUFFICES ASSUME list[RxE] # <<>> PROVE InWindow(list[RxE], RxSeq, 1, BAWinSize)
      OBVIOUS
    <3>1. /\ 2 \in Nat /\ BAWinSize <= MAXSEQ /\ 1 \in Serials /\ 1 <= 2 /\ 2 - 1 = 1
          /\ BAWinSize - 1 <= BAWinSize /\ BAWinSize - 1 \in Int /\ 1 \in Int
      BY <1>4 DEF Serials
    <3> HIDE DEF a
    <3>2. InWindow(list[RxE], (a + 1) % Space, 2 - 1, BAWinSize - 1)
      BY <1>2, <1>3, <1>4, <2>1, <3>1, WindowMoves
    <3>3. InWindow(list[RxE], RxSeq, 1, BAWinSize - 1)
      BY <2>1, <3>1, <3>2
    <3>4. /\ RxSeq \in Serials /\ list[RxE] \in Seq(Frames) /\ BAWinSize \in Int /\ 1 \in Int
          /\ BAWinSize - 1 \in Int /\ 1 <= 1 /\ BAWinSize - 1 <= BAWinSize
      BY <1>2, <1>4, <3>1
    <3> QED BY <3>3, <3>4, WindowWider
  <2> QED BY <1>1, <1>2, <1>7, <2>2, RxOrders
<1>8. CASE IsOld(RxE) /\ pc'["rx"] = "idle" /\ Becomes(RxE, list[RxE], a)
  <2> HIDE DEF a
  <2> QED BY <1>1, <1>2, <1>3, <1>8, RxOrders
\* neither old nor next: ahead of LastIndSeq by two or more, but less than half
<1>9. ASSUME ~IsReset(RxE), ~IsNext(RxE), ~IsOld(RxE)
      PROVE  /\ a \in Serials /\ d \in 2..(Half - 1)
             /\ SEQ_SMALLER(RxSeq, (a + BAWinSize + 1) % Space) <=> d <= BAWinSize
  <2>1. a \in Serials
    BY <1>6, <1>9
  <2> HIDE DEF a
  <2>2. d \in Serials /\ (SEQ_SMALLER(RxSeq, a) <=> d >= Half) /\ (RxSeq = a <=> d = 0)
    <3>1. d \in Serials /\ (SEQ_SMALLER(RxSeq, a) <=> d >= Half)
      BY <1>2, <2>1, DistIs
    <3>2. RxSeq = a <=> d = 0
      <4>1. d = (IF RxSeq >= a THEN RxSeq - a ELSE RxSeq - a + Space)
        BY <1>2, <2>1, DistIs
      <4> QED BY <1>2, <1>4, <2>1, <4>1 DEF Serials
    <3> QED BY <3>1, <3>2
  <2>3. RxSeq = (a + 1) % Space <=> d = 1
    <3>1. 1 \in Serials
      BY <1>4 DEF Serials
    <3> QED BY <1>2, <2>1, <3>1, DistMoves
  <2>4. d >= 0 /\ d < Half /\ d # 0 /\ d # 1 /\ d \in Int
    BY <1>4, <1>9, <2>2, <2>3 DEF IsOld, IsNext, SEQ_STEPONE, Serials, a
  <2>5. SEQ_SMALLER(RxSeq, (a + BAWinSize + 1) % Space) <=> d <= BAWinSize
    <3> DEFINE w == BAWinSize + 1
               b == (a + w) % Space
    <3>1. w \in Serials /\ w \in Nat /\ w < Half /\ a + BAWinSize + 1 = a + w
      BY <1>4, <2>1 DEF Serials
    <3> HIDE DEF w
    <3>2. /\ b \in Serials
          /\ Dist(RxSeq, b) = (IF d >= w THEN d - w ELSE d - w + Space)
      BY <1>2, <2>1, <3>1, DistMoves
    <3> HIDE DEF b
    <3>3. SEQ_SMALLER(RxSeq, b) <=> Dist(RxSeq, b) >= Half
      BY <1>2, <3>2, DistIs
    <3> HIDE DEF d
    <3>4. SEQ_SMALLER(RxSeq, b) <=> d < w
      BY <1>4, <2>4, <3>1, <3>2, <3>3
    <3>5. SEQ_SMALLER(RxSeq, b) <=> d <= BAWinSize
      BY <1>4, <2>4, <3>4 DEF w
    <3> QED BY <3>1, <3>5 DEF b
  <2> HIDE DEF d
  <2> QED BY <1>4, <2>1, <2>4, <2>5
<1>10. CASE IsInWin(RxE) /\ pc'["rx"] = "enqueue" /\ Becomes(RxE, list[RxE], a)
  <2>1. SEQ_SMALLER(RxSeq, (a + BAWinSize + 1) % Space)
    BY <1>2, <1>10 DEF IsInWin
  <2>2. d \in 2..(Half - 1) /\ d <= BAWinSize
    BY <1>9, <1>10, <2>1 DEF IsInWin
  <2>3. d \in 2..BAWinSize
    BY <1>4, <2>2
  <2> HIDE DEF a
  <2> QED BY <1>1, <1>2, <1>3, <1>10, <2>3, RxOrders
<1>11. CASE IsBeyond(RxE) /\ pc'["rx"] = "jump" /\ Becomes(RxE, After(RxE, k), start)
  <2>1. ~IsReset(RxE) /\ ~IsNext(RxE) /\ ~IsOld(RxE)
    BY <1>11 DEF IsBeyond
  <2>2. ~SEQ_SMALLER(RxSeq, (a + BAWinSize + 1) % Space)
    BY <1>2, <1>11, <2>1 DEF IsBeyond, IsInWin
  <2>3. a \in Serials /\ d \in Int /\ d > BAWinSize /\ d < Half
    BY <1>4, <1>9, <2>1, <2>2
  <2> DEFINE m == d - BAWinSize
  <2>4. m \in Nat /\ m >= 1 /\ m < Half /\ m \in Serials /\ d \in Serials
    BY <1>4, <2>3 DEF Serials
  <2>5. start = (a + m) % Space
    <3>1. d = (IF RxSeq >= a THEN RxSeq - a ELSE RxSeq - a + Space)
      BY <1>2, <2>3, DistIs
    <3>2. RxSeq \in Int /\ a \in Int /\ 0 <= a /\ a < Space /\ 0 <= RxSeq /\ RxSeq < Space
      BY <1>2, <1>4, <2>3 DEF Serials
    <3> HIDE DEF a, d
    <3>3. a + m = RxSeq - BAWinSize \/ a + m = RxSeq - BAWinSize + Space
      BY <1>4, <2>3, <3>1, <3>2
    <3>4. a + m \in Int /\ 0 <= a + m /\ a + m < 2 * Space /\ RxSeq - BAWinSize \in Int
          /\ RxSeq - BAWinSize < Space /\ 0 - Space <= RxSeq - BAWinSize
      BY <1>4, <2>4, <3>2
    <3> DEFINE x == a + m
               y == RxSeq - BAWinSize
    <3>5. y % Space = IF 0 <= y THEN y ELSE y + Space
      BY <1>4, <3>4, Wraps
    <3>6. x % Space = IF x < Space THEN x ELSE x - Space
      BY <1>4, <3>4, Wraps
    <3>7. x = y \/ x = y + Space
      BY <3>3
    <3>8. y % Space = x % Space
      <4> HIDE DEF x, y
      <4> QED BY <1>4, <3>4, <3>5, <3>6, <3>7 DEF x, y
    <3> QED BY <1>2, <3>8
  <2>6. After(RxE, k) # <<>> => InWindow(After(RxE, k), start, 1, BAWinSize - 1)
    <3>1. CASE list[RxE] = <<>>
      BY <1>1, <1>2, <3>1, EmptyAfter
    <3>2. CASE list[RxE] # <<>>
      <4> HIDE DEF a, d, m
      <4>1. InWindow(list[RxE], a, 2, BAWinSize)
        BY <1>3, <3>2 DEF a
      <4>2. /\ 2 \in Int /\ 1 \in Nat /\ 1 <= 2 /\ BAWinSize <= BAWinSize /\ BAWinSize < Half /\ m <= Half
            /\ BAWinSize <= MAXSEQ /\ m + 1 \in Nat /\ m <= m + 1 /\ (m + 1) - m = 1
            /\ BAWinSize - m <= BAWinSize - 1 /\ BAWinSize - m \in Int /\ BAWinSize - 1 \in Int
        BY <1>4, <2>4
      <4>3. InWindow(list[RxE], a, 1, BAWinSize)
        <5>1. /\ a \in Serials /\ list[RxE] \in Seq(Frames) /\ BAWinSize \in Int /\ 1 \in Int /\ 2 \in Int
              /\ 1 <= 2 /\ BAWinSize <= BAWinSize
          BY <1>2, <1>4, <2>3
        <5> QED BY <4>1, <5>1, WindowWider
      <4>4. k = LeSeqCount(list[RxE], (a + m) % Space)
        BY <2>5
      <4>5. After(RxE, k) \in Seq(Frames) /\ InWindow(After(RxE, k), a, m + 1, BAWinSize)
        <5> HIDE DEF k
        <5> QED BY <1>2, <1>4, <2>3, <2>4, <4>2, <4>3, <4>4, LeSeqLeaves DEF After
      <4> HIDE DEF k, start
      <4>6. InWindow(After(RxE, k), (a + m) % Space, (m + 1) - m, BAWinSize - m)
        BY <1>4, <2>3, <2>4, <4>2, <4>5, WindowMoves
      <4>7. InWindow(After(RxE, k), start, 1, BAWinSize - m)
        BY <2>5, <4>2, <4>6
      <4> QED BY <1>1, <4>2, <4>5, <4>7, WindowWider
    <3> QED BY <3>1, <3>2
  <2>7. Dist(RxSeq, start) = BAWinSize
    <3>1. Dist(RxSeq, (a + m) % Space) = IF d >= m THEN d - m ELSE d - m + Space
      <4> HIDE DEF a, m
      <4> QED BY <1>2, <2>3, <2>4, DistMoves
    <3>2. d >= m /\ d - m = BAWinSize
      BY <1>4, <2>3
    <3> HIDE DEF a, d, m, start
    <3> QED BY <2>5, <3>1, <3>2
  <2> HIDE DEF start, k
  <2> QED BY <1>1, <1>2, <1>11, <2>6, <2>7, RxOrders
<1> QED BY <1>1, <1>5, <1>7, <1>8, <1>10, <1>11

-----------------------------------------------------------------------------
(* The steps that are not about the window of one list, and the theorems.   *)

\* a BAR moves LastIndSeq to just before its number
LEMMA BarOrders == ASSUME OrderInv, CntlEnqueueForRecv PROVE OrderRest'
<1> DEFINE a == lastIndSeq[RxE]
           start == no % Space
           k == LeSeqCount(list[RxE], start)
           s == (start - 1) % Space
<1>1. /\ pc["rx"] \in {"bar", "oldbar"} /\ pc'["rx"] \in {"idle", "down"} /\ RxStep
      /\ k \in 0..Len(list[RxE]) /\ start \in Serials /\ s \in Serials
      /\ \/ Becomes(RxE, list[RxE], a)
         \/ SEQ_SMALLER(a, start) /\ Becomes(RxE, After(RxE, k), s)
  BY OrderParts, BarBecomes DEF RxStep
<1>2. RxE \in Entries /\ list[RxE] \in Seq(Frames) /\ a \in Numbers /\ s \in Numbers
  BY <1>1, RxFrames, OrderParts, ResetIsApart
<1>3. list[RxE] # <<>> => InWindow(list[RxE], a, 2, BAWinSize) /\ a \in Serials
  BY <1>1, <1>2, OrderParts DEF Ordered, Moving
<1>4. /\ BAWinSize \in Nat /\ BAWinSize >= 1 /\ BAWinSize + 1 < Half /\ Half \in Nat
      /\ Space = 2 * Half /\ MAXSEQ = Space - 1 /\ Space \in Nat
  BY WindowSmall
<1>5. CASE Becomes(RxE, list[RxE], a)
  <2> HIDE DEF a
  <2> QED BY <1>1, <1>2, <1>3, <1>5, RxOrders
<1>6. CASE SEQ_SMALLER(a, start) /\ Becomes(RxE, After(RxE, k), s)
  <2>1. CASE list[RxE] = <<>>
    <3>1. After(RxE, k) = <<>>
      BY <1>1, <1>2, <2>1, EmptyAfter
    <3> HIDE DEF a, k, s
    <3> QED BY <1>1, <1>2, <1>6, <3>1, RxOrders
  <2>2. CASE list[RxE] # <<>>
    <3> DEFINE d == Dist(start, a)
               m == d - 1
    <3>1. a \in Serials /\ InWindow(list[RxE], a, 2, BAWinSize)
      BY <1>3, <2>2
    <3> HIDE DEF a, start
    <3>2. d \in Nat /\ 1 <= d /\ d <= Half /\ start = (a + d) % Space /\ s = (a + m) % Space
      <4>1. /\ start \in Int /\ a \in Int /\ 0 <= a /\ a < Space /\ 0 <= start /\ start < Space
        BY <1>1, <1>4, <3>1 DEF Serials
      <4>2. /\ d = (IF start >= a THEN start - a ELSE start - a + Space)
            /\ Dist(a, start) = (IF a >= start THEN a - start ELSE a - start + Space)
            /\ SEQ_SMALLER(a, start) <=> Dist(a, start) >= Half
        BY <1>1, <3>1, DistIs
      <4>3. d \in Nat /\ 1 <= d /\ d <= Half
        BY <1>4, <1>6, <4>1, <4>2
      <4>4. a + d = start \/ a + d = start + Space
        BY <1>4, <4>1, <4>2
      <4>5. (a + d) % Space = start
        BY <1>4, <4>1, <4>3, <4>4, Wraps
      <4>6. s = (a + m) % Space
        <5> HIDE DEF d
        <5>1. a + m = start - 1 \/ a + m = start - 1 + Space
          BY <1>4, <4>1, <4>3, <4>4
        <5> DEFINE x == a + m
                   y == start - 1
        <5>2. x \in Int /\ y \in Int /\ 0 <= x /\ x < 2 * Space /\ 0 - Space <= y /\ y < Space
          BY <1>4, <4>1, <4>3
        <5>3. y % Space = IF 0 <= y THEN y ELSE y + Space
          BY <1>4, <5>2, Wraps
        <5>4. x % Space = IF x < Space THEN x ELSE x - Space
          BY <1>4, <5>2, Wraps
        <5>5. x = y \/ x = y + Space
          BY <5>1
        <5>6. y % Space = x % Space
          <6> HIDE DEF x, y
          <6> QED BY <1>4, <5>2, <5>3, <5>4, <5>5
        <5> QED BY <5>6
      <4> QED BY <4>3, <4>5, <4>6
    <3> HIDE DEF d
    <3>3. /\ 2 \in Int /\ 1 \in Nat /\ 1 <= 2 /\ BAWinSize <= BAWinSize /\ BAWinSize < Half
          /\ BAWinSize <= MAXSEQ /\ d + 1 \in Nat /\ m \in Serials /\ m <= d + 1 /\ (d + 1) - m = 2
          /\ BAWinSize - m <= BAWinSize /\ BAWinSize - m \in Int /\ BAWinSize \in Int /\ m \in Int
      BY <1>4, <3>2 DEF Serials
    <3>4. InWindow(list[RxE], a, 1, BAWinSize)
      BY <1>2, <3>1, <3>3, WindowWider
    <3>5. After(RxE, k) \in Seq(Frames) /\ InWindow(After(RxE, k), a, d + 1, BAWinSize)
      <4>1. k = LeSeqCount(list[RxE], (a + d) % Space)
        BY <3>2
      <4> HIDE DEF k, m
      <4> QED BY <1>2, <1>4, <3>1, <3>2, <3>3, <3>4, <4>1, LeSeqLeaves DEF After
    <3> HIDE DEF k, s, m
    <3>6. InWindow(After(RxE, k), (a + m) % Space, (d + 1) - m, BAWinSize - m)
      BY <1>4, <3>1, <3>3, <3>5, WindowMoves
    <3>7. InWindow(After(RxE, k), s, 2, BAWinSize - m)
      BY <3>2, <3>3, <3>6
    <3>8. 2 <= 2 /\ 2 \in Int
      OBVIOUS
    <3>9. InWindow(After(RxE, k), s, 2, BAWinSize)
      BY <1>1, <3>3, <3>5, <3>7, <3>8, WindowWider
    <3> QED BY <1>1, <1>2, <1>6, <3>9, RxOrders
  <2> QED BY <2>1, <2>2
<1> QED BY <1>1, <1>5, <1>6

\* every step of the RX tasklet
LEMMA TaskletOrders == ASSUME OrderInv, Sufficient, RxStep PROVE OrderRest'
<1>1. CASE RxShifted \/ RxDrain
  <2>1. /\ Drain(RxE) /\ pc["rx"] \in {"shifted", "drain"}
        /\ Goto("rx", "decide") \/ Goto("rx", "idle")
    BY <1>1 DEF RxShifted, RxDrain
  <2>2. pc'["rx"] \in {"decide", "idle"}
    BY <2>1, OrderParts, PoolParts DEF Goto, TableTypes, Threads
  <2> QED BY <2>1, <2>2, DrainOrders
<1> QED BY <1>1, FlushOrders, DecideOrders, EnqueueOrders, BarOrders DEF RxStep

\* the other steps only take lists away
LEMMA ListsShrink ==
  ASSUME OrderInv, pc'["rx"] \notin {"enqueue", "shifted", "jump", "drain"},
         pc["rx"] \notin {"enqueue", "shifted", "jump", "drain"},
         \A e \in Entries : list'[e] # <<>> =>
           list'[e] = list[e] /\ lastIndSeq'[e] = lastIndSeq[e] /\ win'[e] = win[e]
  PROVE  Ordered' /\ InHand'
<1>1. ASSUME NEW e \in Entries, list'[e] # <<>>
      PROVE  win'[e] = BAWinSize /\ InWindow(list'[e], lastIndSeq'[e], 2, BAWinSize)
  <2>1. list'[e] = list[e] /\ lastIndSeq'[e] = lastIndSeq[e] /\ win'[e] = win[e] /\ list[e] # <<>>
    BY <1>1
  <2>2. win[e] = BAWinSize /\ InWindow(list[e], lastIndSeq[e], 2, BAWinSize)
    BY <2>1, OrderParts DEF Ordered, Moving
  <2> QED BY <2>1, <2>2
<1>2. Ordered'
  BY <1>1 DEF Ordered, Moving
<1> QED BY <1>2 DEF InHand

\* a frame or a BAR arrives
LEMMA ReceptionOrders ==
  ASSUME Racing = "no", OrderInv, NEW p \in Stations, NEW n \in 0..MaxNo,
         NEW at \in {"bar", "oldbar"}, RxFrame(p, n) \/ RxBar(p, at)
  PROVE  OrderRest'
<1>1. /\ OrderInv /\ Opened /\ others = 0 /\ TableTypes /\ pc["rx"] = "idle" /\ pc["mlme"] = "idle"
      /\ UNCHANGED <<list, lastIndSeq, win, wcidArray, others>>
  BY OrderParts, ResetParts DEF RxFrame, RxBar, MayStart, Threads, entryv, table, pool
<1>2. UNCHANGED thread \/ \E v \in {"flush", "bar", "oldbar"} : Start("rx", p, v)
  BY DEF RxFrame, RxBar
<1>3. pc'["rx"] \in {"idle", "flush", "bar", "oldbar"} /\ pc'["mlme"] = "idle"
  BY <1>1, <1>2 DEF thread, Start, TableTypes, Threads
<1>4. Ordered' /\ InHand'
  BY <1>1, <1>3, ListsShrink
<1>5. Opened'
  BY <1>1, <1>3 DEF Opened, Threads
<1> QED BY <1>1, <1>4, <1>5 DEF OrderRest

\* a session ends
LEMMA DownOrders == ASSUME OrderInv, NEW t \in Threads, DownStep(t) PROVE OrderRest'
<1>1. /\ PoolInv /\ Alone /\ Emptied /\ TableTypes /\ Ending /\ Owned /\ RestTypes /\ pc[t] \in DownPcs
      /\ Opened /\ others = 0 /\ OrderInv
  BY ResetParts, OrderParts DEF DownStep, Down, DownRefresh, DownClear, BATableFreeRecEntry, DownPcs
<1>2. \A u \in Threads \ {t} : pc[u] = "idle"
  BY <1>1 DEF Alone, DownPcs, Threads
<1>3. pc["rx"] \notin {"enqueue", "shifted", "jump", "drain"}
  BY <1>1, <1>2 DEF DownPcs, Threads
<1>4. ASSUME NEW v \in {"idle"} \cup DownPcs, pc' = [pc EXCEPT ![t] = v]
      PROVE  /\ pc'[t] = v /\ \A u \in Threads \ {t} : pc'[u] = "idle"
             /\ pc'["rx"] \notin {"enqueue", "shifted", "jump", "drain"}
  <2>1. pc'[t] = v /\ \A u \in Threads \ {t} : pc'[u] = "idle"
    BY <1>1, <1>2, <1>4 DEF TableTypes
  <2> QED BY <1>4, <2>1 DEF Threads, DownPcs
<1>5. ASSUME NEW v \in {"idle"} \cup DownPcs, pc' = [pc EXCEPT ![t] = v], others' = others,
             \A e \in Entries : list'[e] # <<>> =>
               list'[e] = list[e] /\ lastIndSeq'[e] = lastIndSeq[e] /\ win'[e] = win[e],
             \A p \in Stations : wcidArray'[p] # 0 => win'[wcidArray'[p]] = BAWinSize,
             v \in {"refresh", "clear"} => wcidArray'[sta'[t]] = idx'[t]
      PROVE  OrderRest'
  <2>1. Ordered' /\ InHand'
    BY <1>1, <1>3, <1>4, <1>5, ListsShrink
  <2>2. \A u \in Threads : pc'[u] \in {"refresh", "clear"} => wcidArray'[sta'[u]] = idx'[u]
    BY <1>4, <1>5
  <2>3. Opened'
    BY <1>5, <2>2 DEF Opened
  <2> QED BY <1>1, <1>5, <2>1, <2>3 DEF OrderRest
<1>6. CASE Down(t)
  <2> DEFINE e == wcidArray[sta[t]]
  <2>1. /\ UNCHANGED <<list, lastIndSeq, win, wcidArray, others, sta>> /\ idx' = [idx EXCEPT ![t] = e]
        /\ \E v \in {"idle"} \cup DownPcs : pc' = [pc EXCEPT ![t] = v]
    BY <1>6 DEF Down, entryv, table, pool, DownPcs
  <2>2. idx'[t] = e
    BY <1>1, <2>1 DEF TableTypes
  <2>3. \A p \in Stations : wcidArray'[p] # 0 => win'[wcidArray'[p]] = BAWinSize
    BY <1>1, <2>1 DEF Opened
  <2> QED BY <1>5, <2>1, <2>2, <2>3
<1>7. CASE DownRefresh(t)
  <2>1. /\ pc' = [pc EXCEPT ![t] = "clear"] /\ UNCHANGED <<win, wcidArray, others, sta, idx>>
        /\ Refresh(idx[t]) /\ pc[t] = "refresh"
    BY <1>7 DEF DownRefresh, Goto, table
  <2>2. idx[t] \in Entries
    BY <1>1, <2>1 DEF Ending, TableTypes
  <2>3. Becomes(idx[t], <<>>, RESET_RCV_SEQ)
    BY <1>1, <2>1, <2>2, RefreshBecomes
  <2>4. \A x \in Entries : list'[x] # <<>> =>
          list'[x] = list[x] /\ lastIndSeq'[x] = lastIndSeq[x] /\ win'[x] = win[x]
    BY <2>1, <2>2, <2>3 DEF Becomes
  <2>5. /\ \A p \in Stations : wcidArray'[p] # 0 => win'[wcidArray'[p]] = BAWinSize
        /\ wcidArray'[sta'[t]] = idx'[t] /\ "clear" \in {"idle"} \cup DownPcs
    BY <1>1, <2>1 DEF Opened, DownPcs
  <2> QED BY <1>5, <2>1, <2>4, <2>5
<1>8. CASE DownClear(t)
  <2> DEFINE e == idx[t]
             p == sta[t]
  <2>1. /\ pc' = [pc EXCEPT ![t] = "release"] /\ UNCHANGED <<list, others, sta, idx>>
        /\ SetLast(e, RESET_RCV_SEQ) /\ pc[t] = "clear"
        /\ win' = [win EXCEPT ![e] = 0] /\ wcidArray' = [wcidArray EXCEPT ![p] = 0]
    BY <1>8 DEF DownClear, Goto, pool
  <2>2. e \in Entries /\ p \in Stations /\ wcidArray[p] = e /\ e # 0 /\ list[e] = <<>>
    BY <1>1, <2>1 DEF Ending, TableTypes, Opened, Emptied
  <2> HIDE DEF e, p
  <2>3. \A x \in Entries : x # e => lastIndSeq'[x] = lastIndSeq[x] /\ win'[x] = win[x]
    BY <1>1, <2>1 DEF SetLast, RestTypes
  <2>4. \A x \in Entries : list'[x] # <<>> =>
          list'[x] = list[x] /\ lastIndSeq'[x] = lastIndSeq[x] /\ win'[x] = win[x]
    BY <2>1, <2>2, <2>3
  <2>5. ASSUME NEW q \in Stations, wcidArray'[q] # 0 PROVE win'[wcidArray'[q]] = BAWinSize
    <3>1. q # p /\ wcidArray'[q] = wcidArray[q] /\ wcidArray[q] \in Entries
      BY <1>1, <2>1, <2>2, <2>5 DEF TableTypes
    <3>2. wcidArray[q] # e
      BY <1>1, <2>2, <3>1, <2>5 DEF Owned
    <3> QED BY <1>1, <2>3, <2>5, <3>1, <3>2 DEF Opened
  <2>6. "release" \in {"idle"} \cup DownPcs
    BY DEF DownPcs
  <2> QED BY <1>5, <2>1, <2>4, <2>5, <2>6
<1>9. CASE BATableFreeRecEntry(t)
  <2>1. /\ pc' = [pc EXCEPT ![t] = "idle"] /\ UNCHANGED <<list, lastIndSeq, win, others, sta, idx>>
        /\ \/ wcidArray' = wcidArray
           \/ wcidArray' = [p \in Stations |-> IF p = owner[idx[t]] THEN 0 ELSE wcidArray[p]]
    BY <1>9 DEF BATableFreeRecEntry, Goto, pool
  <2>2. \A q \in Stations : wcidArray'[q] # 0 => wcidArray'[q] = wcidArray[q]
    BY <2>1
  <2>3. \A q \in Stations : wcidArray'[q] # 0 => win'[wcidArray'[q]] = BAWinSize
    BY <1>1, <2>1, <2>2 DEF Opened
  <2> QED BY <1>5, <2>1, <2>3
<1> QED BY <1>6, <1>7, <1>8, <1>9 DEF DownStep

\* a session is set up with the window of the code
LEMMA AddOrders == ASSUME OrderInv, AddStep PROVE OrderRest'
<1>1. /\ PoolInv /\ Alone /\ Emptied /\ TableTypes /\ Adding /\ RestTypes /\ pc["mlme"] \in AddPcs
      /\ Opened /\ others = 0 /\ OrderInv
  BY ResetParts, OrderParts DEF AddStep, AddAlloc, AddRestart, AddFill, AddPcs
<1>2. pc["rx"] = "idle"
  BY <1>1 DEF Alone, AddPcs
<1>3. ASSUME NEW v \in {"idle", "fill"}, pc' = [pc EXCEPT !["mlme"] = v], others' = others,
             \A e \in Entries : list'[e] # <<>> =>
               list'[e] = list[e] /\ lastIndSeq'[e] = lastIndSeq[e] /\ win'[e] = win[e],
             \A p \in Stations : wcidArray'[p] # 0 => win'[wcidArray'[p]] = BAWinSize
      PROVE  OrderRest'
  <2>1. pc'["rx"] = "idle" /\ pc'["mlme"] = v
    BY <1>1, <1>2, <1>3 DEF TableTypes, Threads
  <2>2. Ordered' /\ InHand'
    BY <1>1, <1>2, <1>3, <2>1, ListsShrink
  <2>3. \A u \in Threads : pc'[u] \notin {"refresh", "clear"}
    BY <2>1 DEF Threads
  <2> QED BY <1>1, <1>3, <2>2, <2>3 DEF OrderRest, Opened
<1>4. \A p \in Stations : wcidArray[p] # 0 => win[wcidArray[p]] = BAWinSize
  BY <1>1 DEF Opened
<1>5. CASE AddAlloc
  <2>1. /\ UNCHANGED <<list, lastIndSeq, win, wcidArray, others>>
        /\ \E v \in {"idle", "fill"} : pc' = [pc EXCEPT !["mlme"] = v]
    BY <1>5 DEF AddAlloc, pool
  <2> QED BY <1>3, <1>4, <2>1
<1>6. CASE AddRestart
  <2>1. /\ pc' = [pc EXCEPT !["mlme"] = "fill"] /\ UNCHANGED <<win, wcidArray, others>>
        /\ Refresh(idx["mlme"]) /\ idx["mlme"] \in Entries
    BY <1>1, <1>6 DEF AddRestart, Goto, Adding, TableTypes, Threads, table
  <2>2. Becomes(idx["mlme"], <<>>, RESET_RCV_SEQ)
    BY <1>1, <2>1, RefreshBecomes
  <2>3. \A x \in Entries : list'[x] # <<>> =>
          list'[x] = list[x] /\ lastIndSeq'[x] = lastIndSeq[x] /\ win'[x] = win[x]
    BY <2>1, <2>2 DEF Becomes
  <2> QED BY <1>3, <1>4, <2>1, <2>3
<1>7. CASE AddFill
  <2> DEFINE e == idx["mlme"]
             p == sta["mlme"]
  <2>1. /\ pc' = [pc EXCEPT !["mlme"] = "idle"] /\ UNCHANGED <<list, others>>
        /\ SetLast(e, RESET_RCV_SEQ) /\ pc["mlme"] = "fill"
        /\ win' = [win EXCEPT ![e] = BAWinSize] /\ wcidArray' = [wcidArray EXCEPT ![p] = e]
    BY <1>7 DEF AddFill, Goto, pool
  <2>2. e \in Entries /\ p \in Stations /\ list[e] = <<>>
    BY <1>1, <2>1 DEF Emptied, Adding, AddPcs, TableTypes, Threads
  <2> HIDE DEF e, p
  <2>3. \A x \in Entries : x # e => lastIndSeq'[x] = lastIndSeq[x] /\ win'[x] = win[x]
    BY <1>1, <2>1 DEF SetLast, RestTypes
  <2>4. \A x \in Entries : list'[x] # <<>> =>
          list'[x] = list[x] /\ lastIndSeq'[x] = lastIndSeq[x] /\ win'[x] = win[x]
    BY <2>1, <2>2, <2>3
  <2>5. win'[e] = BAWinSize
    BY <1>1, <2>1, <2>2 DEF RestTypes
  <2>6. \A q \in Stations : wcidArray'[q] = wcidArray[q] \/ wcidArray'[q] = e
    BY <1>1, <2>1 DEF TableTypes
  <2>7. \A q \in Stations : wcidArray[q] \in {0} \cup Entries
    BY <1>1 DEF TableTypes
  <2>8. ASSUME NEW q \in Stations, wcidArray'[q] # 0 PROVE win'[wcidArray'[q]] = BAWinSize
    BY <1>4, <2>3, <2>5, <2>6, <2>7, <2>8
  <2> QED BY <1>3, <2>1, <2>4, <2>8
<1> QED BY <1>5, <1>6, <1>7 DEF AddStep

\* the originator, the clock and the other sessions
LEMMA OtherOrders ==
  ASSUME Racing = "no", OrderInv, Sufficient,
         \/ \E p \in Stations : MlmeDelBa(p) \/ MlmeAddBa(p) \/ TxAdvance(p)
         \/ OthersTake \/ OthersGive
         \/ \E e \in Entries : Tick(e)
         \/ UNCHANGED vars
  PROVE  OrderRest'
<1>1. Ordered /\ InHand /\ Opened /\ others = 0 /\ OrderInv /\ TableTypes
  BY OrderParts, ResetParts
<1>2. UNCHANGED <<list, lastIndSeq, win, wcidArray>>
  BY DEF MlmeDelBa, MlmeAddBa, TxAdvance, OthersTake, OthersGive, Tick, vars, entryv, table
<1>3. others' = 0
  BY <1>1 DEF MlmeDelBa, MlmeAddBa, TxAdvance, OthersTake, OthersGive, Tick, vars, pool, Sufficient
<1>4. ASSUME NEW p \in Stations, MlmeDelBa(p) \/ MlmeAddBa(p) PROVE OrderRest'
  <2>1. pc["rx"] = "idle" /\ pc["mlme"] = "idle"
    BY <1>4 DEF MlmeDelBa, MlmeAddBa, MayStart, Threads
  <2>2. PICK v \in {"down", "alloc", "restart"} : Start("mlme", p, v)
    BY <1>4 DEF MlmeDelBa, MlmeAddBa
  <2>3. pc'["rx"] = "idle" /\ pc'["mlme"] = v
    BY <1>1, <2>1, <2>2 DEF Start, TableTypes, Threads
  <2>4. Ordered' /\ InHand'
    BY <1>1, <1>2, <2>1, <2>3, ListsShrink
  <2>5. \A u \in Threads : pc'[u] \notin {"refresh", "clear"}
    BY <2>3 DEF Threads
  <2> QED BY <1>1, <1>2, <1>3, <2>4, <2>5 DEF OrderRest, Opened
<1>5. CASE UNCHANGED thread
  BY <1>1, <1>2, <1>3, <1>5
     DEF thread, OrderRest, Ordered, InHand, Opened, Moving, RxE, RxF, RxSeq
<1> QED BY <1>4, <1>5 DEF TxAdvance, OthersTake, OthersGive, Tick, vars

\* the invariant at the start
LEMMA OrderStart == Init => OrderInv
<1> SUFFICES ASSUME Init PROVE OrderInv
  OBVIOUS
<1>1. ResetInv
  BY ResetStart
<1>2. Ordered /\ InHand /\ Opened /\ others = 0
  BY DEF Init, Ordered, InHand, Opened, Threads
<1> QED BY <1>1, <1>2 DEF OrderInv

\* the invariant is inductive when only one thread is at the sessions and the
\* pool suffices
LEMMA OrderStep ==
  ASSUME Racing = "no", Sufficient PROVE OrderInv /\ [Next]_vars => OrderInv'
<1> SUFFICES ASSUME OrderInv, [Next]_vars PROVE OrderInv'
  OBVIOUS
<1>1. ResetInv'
  BY ResetStep DEF OrderInv
<1>2. OrderRest'
  <2>1. CASE Tasklet
    <3>1. "bar" \in {"bar", "oldbar"}
      OBVIOUS
    <3> QED BY <2>1, <3>1, TaskletOrders, ReceptionOrders, DownOrders DEF Tasklet, Reception, Threads
  <2>2. CASE DownStep("mlme") \/ AddStep
    BY <2>2, DownOrders, AddOrders DEF Threads
  <2>3. CASE \E p \in Stations, at \in {"bar", "oldbar"} : RxBar(p, at)
    <3>1. 0 \in 0..MaxNo
      BY BoundsAssumption
    <3> QED BY <2>3, <3>1, ReceptionOrders
  <2> QED BY <2>1, <2>2, <2>3, OtherOrders DEF Next
<1> QED BY <1>1, <1>2 DEF OrderInv, OrderRest

\* with LastIndSeq behind, no list is longer than its window
LEMMA OrderHolds == ASSUME OrderInv PROVE WindowHeld
<1> SUFFICES ASSUME NEW e \in Entries, win[e] > 0 PROVE Len(list[e]) <= win[e]
  BY DEF WindowHeld
<1>1. BAWinSize \in Nat /\ win[e] \in Int
  BY WindowSmall, OrderParts, PoolParts DEF RestTypes
<1>2. CASE list[e] = <<>>
  BY <1>1, <1>2
<1>3. CASE list[e] # <<>>
  <2>1. list[e] \in Seq(Frames) /\ lastIndSeq[e] \in Serials /\ Len(list[e]) \in Nat
    BY <1>3, OrderParts
  <2>2. win[e] = BAWinSize /\ BAWinSize - 1 \in Nat /\ 1 \in Nat /\ 2 \in Nat
    BY <1>3, WindowSmall, OrderParts DEF Ordered
  <2>3. \E lo \in {1, 2}, hi \in {BAWinSize - 1, BAWinSize} : InWindow(list[e], lastIndSeq[e], lo, hi)
    BY <1>3, OrderParts DEF Ordered
  <2>4. \E lo \in {1, 2}, hi \in {BAWinSize - 1, BAWinSize} : lo + Len(list[e]) <= hi + 1
    BY <1>1, <1>3, <2>1, <2>2, <2>3, WindowBounds
  <2> QED BY <1>1, <2>1, <2>2, <2>4
<1> QED BY <1>2, <1>3

\* and the head of a list is not the frame that is next
LEMMA OrderBlocks == ASSUME OrderInv PROVE HeadIsBlocked
<1> SUFFICES ASSUME pc["rx"] = "idle", NEW e \in Entries, list[e] # <<>>
             PROVE  /\ lastIndSeq[e] # RESET_RCV_SEQ
                    /\ SEQ_SMALLER((lastIndSeq[e] + 1) % Space, Sequence(Head(list[e])))
  BY DEF HeadIsBlocked
<1> DEFINE a == lastIndSeq[e]
           s == Sequence(Head(list[e]))
           b == (a + 1) % Space
<1>1. /\ list[e] \in Seq(Frames) /\ a \in Serials /\ Len(list[e]) \in Nat
      /\ InWindow(list[e], a, 2, BAWinSize)
  BY OrderParts DEF Ordered, Moving
<1>2. s \in Serials /\ Dist(s, a) \in 2..BAWinSize
  <2>1. Head(list[e]) = list[e][1] /\ 1 \in 1..Len(list[e])
    BY <1>1
  <2>2. Dist(Sequence(list[e][1]), a) \in 2..BAWinSize
    BY <1>1, <2>1 DEF InWindow
  <2> QED BY <1>1, <2>1, <2>2, ElementSerial
<1> HIDE DEF s, a
<1>3. /\ BAWinSize \in Nat /\ BAWinSize >= 1 /\ BAWinSize + 1 < Half /\ Half \in Nat
      /\ Space = 2 * Half /\ MAXSEQ = Space - 1 /\ Space \in Nat
  BY WindowSmall
<1>4. b \in Serials /\ Dist(s, b) = Dist(s, a) - 1
  <2>1. 1 \in Serials
    BY <1>3 DEF Serials
  <2>2. /\ b \in Serials
        /\ Dist(s, b) = (IF Dist(s, a) >= 1 THEN Dist(s, a) - 1 ELSE Dist(s, a) - 1 + Space)
    BY <1>1, <1>2, <2>1, DistMoves
  <2> QED BY <1>2, <1>3, <2>2
<1> HIDE DEF b
<1>5. SEQ_SMALLER(b, s)
  <2>1. /\ Dist(s, b) = (IF s >= b THEN s - b ELSE s - b + Space)
        /\ Dist(b, s) = (IF b >= s THEN b - s ELSE b - s + Space)
        /\ SEQ_SMALLER(b, s) <=> Dist(b, s) >= Half
    BY <1>2, <1>4, DistIs
  <2>2. s \in Int /\ b \in Int /\ 0 <= s /\ s < Space /\ 0 <= b /\ b < Space
    BY <1>2, <1>3, <1>4 DEF Serials
  <2>3. Dist(s, b) >= 1 /\ Dist(s, b) < Half
    BY <1>2, <1>3, <1>4
  <2> QED BY <1>3, <2>1, <2>2, <2>3
<1>6. a # RESET_RCV_SEQ
  BY <1>1, ResetIsApart
<1> QED BY <1>5, <1>6 DEF a, b, s

\* What waits in a list has its place in the window behind LastIndSeq, in order
\* and each number once, when the threads take turns and the pool has a block
\* for every number of every window.
THEOREM WindowStaysHeld ==
  ASSUME Racing = "no", Sufficient PROVE Spec => []WindowHeld
BY OrderStart, OrderStep, OrderHolds, PTL DEF Spec

\* Between two frames the head of a list is not the next in order: a frame waits
\* only for one that is missing. The assumptions are those of WindowStaysHeld.
THEOREM HeadStaysBlocked ==
  ASSUME Racing = "no", Sufficient PROVE Spec => []HeadIsBlocked
BY OrderStart, OrderStep, OrderBlocks, PTL DEF Spec

-----------------------------------------------------------------------------
(* Numbers counted from the beginning, seen modulo the number space.        *)

\* numbers that are less than half of the space apart: Dist tells how far
LEMMA Nearby ==
  ASSUME NEW x \in Nat, NEW y \in Nat, x - y < Half, y - x <= Half
  PROVE  Dist(x % Space, y % Space) = IF x >= y THEN x - y ELSE x - y + Space
<1> DEFINE n == Space
<1>1. n \in Nat /\ n > 0 /\ n = 2 * Half /\ Half \in Nat /\ Half >= 1
  BY Modulo, HalfIs
<1> DEFINE u == x % Space
           v == y % Space
<1>2. u \in Serials /\ v \in Serials
  BY Modulo DEF Serials
<1>3. Dist(u, v) = IF u >= v THEN u - v ELSE u - v + n
  <2> HIDE DEF u, v
  <2> QED BY <1>2, DistIs
<1>0. x % n = u /\ y % n = v
  OBVIOUS
<1> HIDE DEF n, u, v
<1>4. PICK k \in Nat, r \in 0..(n - 1) : x = n * k + r /\ x % n = r
  BY <1>1, Division
<1>5. PICK l \in Nat, t \in 0..(n - 1) : y = n * l + t /\ y % n = t
  BY <1>1, Division
<1> DEFINE K == n * k
           L == n * l
<1>6. K \in Int /\ L \in Int /\ x = K + r /\ y = L + t
  BY <1>1, <1>4, <1>5
<1>7. /\ k >= l + 2 => K >= L + 2 * n
      /\ k = l + 1 => K = L + n
      /\ k = l => K = L
      /\ l = k + 1 => L = K + n
      /\ l >= k + 2 => L >= K + 2 * n
  BY <1>1
<1> HIDE DEF K, L
<1>8. k = l \/ k = l + 1 \/ l = k + 1
  <2>1. ~(k >= l + 2) /\ ~(l >= k + 2)
    BY <1>1, <1>6, <1>7
  <2> QED BY <2>1
<1>9. (IF r >= t THEN r - t ELSE r - t + n) = IF x >= y THEN x - y ELSE x - y + n
  BY <1>1, <1>6, <1>7, <1>8
<1>10. u = r /\ v = t
  BY <1>0, <1>4, <1>5
<1>11. Dist(u, v) = IF x >= y THEN x - y ELSE x - y + n
  BY <1>3, <1>9, <1>10
<1> QED BY <1>11 DEF n, u, v

\* how far it tells, as a number
LEMMA AsFar ==
  ASSUME NEW x \in Nat, NEW n \in Nat, n - x <= Half, NEW w \in Nat, w < Half,
         w = IF x >= n THEN x - n ELSE x - n + Space
  PROVE  x = n + w
<1>1. Space = 2 * Half /\ Half \in Nat
  BY HalfIs
<1>2. x >= n
  BY <1>1
<1> QED BY <1>2

\* the number k further on
LEMMA Further ==
  ASSUME NEW x \in Nat, NEW k \in Nat, k < Half
  PROVE  ((x % Space) + k) % Space = (x + k) % Space
<1> DEFINE s == (x + k) % Space
           a == x % Space
<1>1. x + k \in Nat /\ (x + k) - x < Half /\ x - (x + k) <= Half /\ x + k >= x /\ (x + k) - x = k
  BY HalfIs
<1>2. Dist(s, a) = k
  BY <1>1, Nearby
<1>3. s \in Serials /\ a \in Serials /\ k \in Serials
  BY <1>1, Modulo, HalfIs DEF Serials
<1> HIDE DEF s, a
<1>4. s = (a + k) % Space
  BY <1>2, <1>3, DistMoves
<1> QED BY <1>4 DEF s, a

\* and the one that many back
LEMMA Back ==
  ASSUME NEW x \in Nat, NEW k \in Nat, k < Half, k <= x, NEW a \in Serials, Dist(x % Space, a) = k
  PROVE  a = (x - k) % Space
<1> DEFINE s == x % Space
           b == (x - k) % Space
<1>1. x - k \in Nat /\ x - (x - k) < Half /\ (x - k) - x <= Half /\ x >= x - k /\ x - (x - k) = k
  BY HalfIs
<1>2. Dist(s, b) = k
  <2> DEFINE y == x - k
  <2> HIDE DEF y
  <2> QED BY <1>1, Nearby DEF y
<1>3. s \in Serials /\ b \in Serials
  BY <1>1, Modulo DEF Serials
<1> HIDE DEF s, b
<1>4. /\ Dist(s, a) = (IF s >= a THEN s - a ELSE s - a + Space)
      /\ Dist(s, b) = (IF s >= b THEN s - b ELSE s - b + Space)
  BY <1>3, DistIs
<1>5. MAXSEQ = Space - 1 /\ Space \in Nat
  BY Modulo
<1>6. Dist(s, a) = k
  BY DEF s
<1>7. a = b
  BY <1>2, <1>3, <1>4, <1>5, <1>6 DEF Serials
<1> QED BY <1>7 DEF b

-----------------------------------------------------------------------------
(* Nothing goes up twice or after something newer: the inductive invariant. *)

\* the RX tasklet has a frame in hand that it has not compared with LastIndSeq
Undecided == {"flush", "shifted", "decide"}

\* LastIndSeq of entry e stands for the frame n of station p
Tracks(p, e, n) ==
  /\ lastIndSeq[e] = n % Space /\ top[p] <= n /\ n <= heard[p]
  /\ \A j \in 1..Len(list[e]) :
       /\ list[e][j][1] = p /\ list[e][j][2] \in (n + 1)..(n + BAWinSize)
       /\ list[e][j][2] <= heard[p]

\* what was heard of p lies in the window behind n, but for the frame in hand
Within(p, n) ==
  IF pc["rx"] \in Undecided /\ sta["rx"] = p
  THEN /\ no - n <= 2 * BAWinSize + MaxGap
       /\ heard[p] <= n + BAWinSize \/ heard[p] = no
  ELSE /\ heard[p] <= n + BAWinSize
       /\ pc["rx"] \in {"enqueue", "jump"} /\ sta["rx"] = p =>
            no \in (n + 1)..(n + BAWinSize)

\* the MLME thread is about to give the entry to a session that starts, or takes it away
Changing(e) == pc["mlme"] \in {"clear", "fill"} /\ idx["mlme"] = e

\* a session has passed nothing up yet, or LastIndSeq stands for a frame
Following == \A p \in Stations, e \in Entries : wcidArray[p] = e =>
  \/ lastIndSeq[e] = RESET_RCV_SEQ /\ (Changing(e) \/ top[p] = -1)
  \/ \E n \in Nat : Tracks(p, e, n) /\ Within(p, n)

\* a station sends inside its window, and does not lose too much in a row
Sent == \A p \in Stations : /\ heard[p] <= txWin[p] + BAWinSize - 1
                            /\ txWin[p] <= heard[p] + MaxGap + 1

\* nothing newer than top was passed up
Passed == \A p \in Stations : \A x \in got[p] : x <= top[p]

\* the frame in hand
OnAir == /\ pc["rx"] \notin {"bar", "oldbar"} \cup DownPcs
         /\ pc["rx"] \in RxPcs => no <= heard[sta["rx"]]
         /\ pc["rx"] \in Undecided => heard[sta["rx"]] <= no + BAWinSize - 1

OnceRest == mishaps = {} /\ Passed /\ Sent /\ OnAir /\ Following
OnceInv  == OrderInv /\ OnceRest

\* frames of p, none of them newer than n, were passed up in order
Told(p, n) ==
  /\ mishaps' = {} /\ Passed' /\ top'[p] <= n
  /\ \A q \in Stations \ {p} : top'[q] = top[q]

\* frames of one station, each newer than the one before it and than top
LEMMA AnnounceInOrder ==
  ASSUME RestTypes, mishaps = {}, Passed, NEW p \in Stations, NEW n \in Int, top[p] <= n,
         NEW fs \in Seq(Frames), Announce(fs),
         \A j \in 1..Len(fs) : fs[j][1] = p /\ fs[j][2] > top[p] /\ fs[j][2] <= n,
         \A i, j \in 1..Len(fs) : i < j => fs[i][2] < fs[j][2]
  PROVE  Told(p, n)
<1> DEFINE of(q) == {fs[j][2] : j \in {j \in DOMAIN fs : fs[j][1] = q}}
<1>1. DOMAIN fs = 1..Len(fs) /\ Len(fs) \in Nat
  OBVIOUS
<1>2. \A j \in 1..Len(fs) : fs[j] \in Frames /\ fs[j][2] \in Int
  BY BoundsAssumption DEF Frames
<1>3. top \in [Stations -> Int] /\ got \in [Stations -> SUBSET (0..MaxNo)]
  BY DEF RestTypes
<1>4. mishaps' = {}
  <2> DEFINE twice == \E j \in DOMAIN fs : \/ fs[j][2] \in got[fs[j][1]]
                                           \/ \E k \in 1..(j - 1) : fs[k] = fs[j]
             late  == \E j \in DOMAIN fs :
                        \/ fs[j][2] < top[fs[j][1]]
                        \/ \E k \in 1..(j - 1) : fs[k][1] = fs[j][1] /\ fs[k][2] > fs[j][2]
  <2>1. mishaps' = mishaps \cup {m \in {"dup"} : twice} \cup {m \in {"late"} : late}
    BY DEF Announce
  <2>2. ASSUME NEW j \in DOMAIN fs
        PROVE  /\ fs[j][2] \notin got[fs[j][1]] /\ ~(fs[j][2] < top[fs[j][1]])
               /\ \A k \in 1..(j - 1) : fs[k] # fs[j] /\ ~(fs[k][2] > fs[j][2])
    <3>1. j \in 1..Len(fs) /\ fs[j][1] = p /\ fs[j][2] > top[p] /\ fs[j][2] \in Int /\ top[p] \in Int
      BY <1>1, <1>2, <1>3, <2>2
    <3>2. \A x \in got[p] : x <= top[p] /\ x \in Int
      BY <1>3, BoundsAssumption DEF Passed
    <3>3. \A k \in 1..(j - 1) : k \in 1..Len(fs) /\ k < j
      BY <1>1, <3>1
    <3>4. \A k \in 1..(j - 1) : fs[k][2] < fs[j][2] /\ fs[k][2] \in Int
      BY <1>2, <3>1, <3>3
    <3> QED BY <3>1, <3>2, <3>4
  <2>3. ~twice /\ ~late
    BY <2>2
  <2> HIDE DEF twice, late
  <2> QED BY <2>1, <2>3
<1>5. /\ got' = [q \in Stations |-> Recent(q, got[q] \cup of(q), txWin, list')]
      /\ top' = [q \in Stations |-> Max({top[q]} \cup of(q))]
  BY DEF Announce
<1>6. \A q \in Stations \ {p} : of(q) = {}
  BY <1>1
<1>7. \A x \in of(p) : x \in Int /\ x <= n
  BY <1>1, <1>2
<1> HIDE DEF of
<1>8. ASSUME NEW q \in Stations
      PROVE  /\ top'[q] \in {top[q]} \cup of(q)
             /\ \A y \in {top[q]} \cup of(q) : y <= top'[q]
  <2> DEFINE I == {top[q]} \cup of(q)
  <2>1. I \subseteq Int /\ I # {}
    BY <1>3, <1>6, <1>7
  <2>2. \E b \in Int : \A x \in I : x <= b
    <3>1. CASE q = p
      BY <1>7, <3>1
    <3>2. CASE q # p
      <4>1. I = {top[q]} /\ top[q] \in Int
        BY <1>3, <1>6, <3>2
      <4> QED BY <4>1
    <3> QED BY <3>1, <3>2
  <2> HIDE DEF I
  <2>3. Max(I) \in I /\ \A y \in I : y <= Max(I)
    BY <2>1, <2>2, Largest
  <2>4. top'[q] = Max(I)
    BY <1>5 DEF I
  <2> QED BY <2>3, <2>4 DEF I
<1>9. \A q \in Stations \ {p} : top'[q] = top[q]
  BY <1>6, <1>8
<1>10. top'[p] <= n
  BY <1>7, <1>8
<1>11. \A q \in Stations : \A x \in got'[q] : x <= top'[q]
  <2> SUFFICES ASSUME NEW q \in Stations, NEW x \in got'[q] PROVE x <= top'[q]
    OBVIOUS
  <2>1. x \in got[q] \cup of(q)
    BY <1>5 DEF Recent
  <2>2. CASE x \in of(q)
    BY <1>8, <2>2
  <2>3. CASE x \in got[q]
    <3>1. x <= top[q] /\ x \in Int /\ top[q] \in Int
      BY <1>3, <2>3, BoundsAssumption DEF Passed
    <3>2. top[q] <= top'[q] /\ top'[q] \in Int
      BY <1>3, <1>6, <1>7, <1>8
    <3> QED BY <3>1, <3>2
  <2> QED BY <2>1, <2>2, <2>3
<1> QED BY <1>4, <1>9, <1>10, <1>11 DEF Told, Passed

-----------------------------------------------------------------------------
(* What follows from it for the frames of a list.                           *)

\* what the invariant says
LEMMA OnceParts ==
  ASSUME OnceInv
  PROVE  /\ OrderInv /\ ResetInv /\ PoolInv /\ TableTypes /\ RestTypes /\ Ordered /\ InHand /\ Opened
         /\ Alone /\ Serving /\ Emptied /\ Owned /\ Adding /\ Ending /\ Working
         /\ mishaps = {} /\ Passed /\ Sent /\ OnAir /\ Following
         /\ \A e \in Entries : list[e] \in Seq(Frames) /\ Len(list[e]) \in Nat
         /\ BAWinSize \in Nat /\ BAWinSize >= 1 /\ MaxGap \in Nat /\ MaxNo \in Nat
         /\ 2 * BAWinSize + MaxGap < Half /\ Half \in Nat
<1>1. OrderInv /\ mishaps = {} /\ Passed /\ Sent /\ OnAir /\ Following
  BY DEF OnceInv, OnceRest
<1>2. BAWinSize \in Nat /\ BAWinSize >= 1 /\ MaxGap \in Nat /\ 2 * BAWinSize + MaxGap < Half /\ MaxNo \in Nat
  BY SizesAssumption, GapAssumption, BoundsAssumption DEF Half, Space
<1> QED BY <1>1, <1>2, OrderParts, ResetParts, HalfIs

\* the frames of a list are in order, and as far ahead of n as their numbers of LastIndSeq
LEMMA NumbersAhead ==
  ASSUME OnceInv, NEW p \in Stations, NEW e \in Entries, NEW n \in Nat, Tracks(p, e, n)
  PROVE  /\ \A j \in 1..Len(list[e]) :
              /\ list[e][j][2] \in Nat
              /\ Dist(Sequence(list[e][j]), lastIndSeq[e]) = list[e][j][2] - n
         /\ \A i, j \in 1..Len(list[e]) : i < j => list[e][i][2] < list[e][j][2]
<1>1. ASSUME NEW j \in 1..Len(list[e])
      PROVE  /\ list[e][j][2] \in Nat
             /\ Dist(Sequence(list[e][j]), lastIndSeq[e]) = list[e][j][2] - n
  <2> DEFINE x == list[e][j][2]
  <2>1. x \in Nat
    <3>1. list[e] \in Seq(Frames) /\ MaxNo \in Nat
      BY OnceParts
    <3>2. list[e][j] \in Frames
      BY <3>1
    <3> QED BY <3>1, <3>2 DEF Frames
  <2>2. x \in (n + 1)..(n + BAWinSize) /\ lastIndSeq[e] = n % Space
    BY DEF Tracks
  <2> HIDE DEF x
  <2>3. x - n < Half /\ n - x <= Half /\ x >= n
    BY <2>1, <2>2, OnceParts
  <2>4. Dist(x % Space, n % Space) = x - n
    BY <2>1, <2>3, Nearby
  <2> QED BY <2>1, <2>2, <2>4 DEF x, Sequence
<1>2. ASSUME NEW i \in 1..Len(list[e]), NEW j \in 1..Len(list[e]), i < j
      PROVE  list[e][i][2] < list[e][j][2]
  <2>1. Dist(Sequence(list[e][i]), lastIndSeq[e]) < Dist(Sequence(list[e][j]), lastIndSeq[e])
    <3>1. list[e] # <<>>
      BY <1>2
    <3> QED BY <1>2, <3>1, OnceParts DEF Ordered, InWindow
  <2> QED BY <1>1, <1>2, <2>1
<1> QED BY <1>1, <1>2

\* frames taken from a list are passed up in order
LEMMA TakenInOrder ==
  ASSUME OnceInv, NEW p \in Stations, NEW e \in Entries, NEW n \in Nat, Tracks(p, e, n),
         NEW k \in 0..Len(list[e]), NEW m \in Int, n <= m, \A j \in 1..k : list[e][j][2] <= m,
         Take(e, k)
  PROVE  Told(p, m)
<1> DEFINE fs == SubSeq(list[e], 1, k)
<1>1. list[e] \in Seq(Frames) /\ Len(list[e]) \in Nat /\ RestTypes /\ mishaps = {} /\ Passed
  BY OnceParts
<1>2. fs \in Seq(Frames) /\ Len(fs) = k /\ \A i \in 1..k : fs[i] = list[e][i] /\ i \in 1..Len(list[e])
  BY <1>1, Cut
<1>3. Announce(fs)
  <2>1. Announce(<<>> \o fs)
    BY DEF Take, TakeAfter
  <2>2. <<>> \o fs = fs
    BY <1>2
  <2> HIDE DEF fs
  <2> QED BY <2>1, <2>2
<1> HIDE DEF fs
<1>4. top[p] <= n /\ top[p] \in Int
  BY <1>1 DEF Tracks, RestTypes
<1>5. top[p] <= m
  BY <1>4
<1>6. \A j \in 1..Len(fs) : fs[j][1] = p /\ fs[j][2] > top[p] /\ fs[j][2] <= m
  <2> SUFFICES ASSUME NEW j \in 1..Len(fs)
               PROVE  fs[j][1] = p /\ fs[j][2] > top[p] /\ fs[j][2] <= m
    OBVIOUS
  <2>1. fs[j] = list[e][j] /\ j \in 1..Len(list[e]) /\ j \in 1..k
    BY <1>2
  <2>2. list[e][j][1] = p /\ list[e][j][2] \in (n + 1)..(n + BAWinSize)
    BY <2>1 DEF Tracks
  <2>3. list[e][j][2] \in Nat
    BY <2>1, NumbersAhead
  <2>4. list[e][j][2] > top[p]
    <3>1. \A x \in Nat : x \in (n + 1)..(n + BAWinSize) => x > top[p]
      BY <1>4, OnceParts
    <3> QED BY <2>2, <2>3, <3>1
  <2> QED BY <2>1, <2>2, <2>4
<1>7. \A i, j \in 1..Len(fs) : i < j => fs[i][2] < fs[j][2]
  BY <1>2, NumbersAhead
<1> QED BY <1>1, <1>2, <1>3, <1>5, <1>6, <1>7, AnnounceInOrder

\* the frame in hand is passed up
LEMMA InHandInOrder ==
  ASSUME OnceInv, NEW p \in Stations, RxF = <<p, no>>, RxF \in Frames, no > top[p], Announce(<<RxF>>)
  PROVE  Told(p, no)
<1> DEFINE fs == <<RxF>>
<1>1. fs \in Seq(Frames) /\ Len(fs) = 1 /\ \A j \in 1..Len(fs) : fs[j] = <<p, no>> /\ j = 1
  OBVIOUS
<1>2. Announce(fs) /\ no \in Int /\ top[p] \in Int
  BY OnceParts, BoundsAssumption DEF RestTypes
<1> HIDE DEF fs
<1>3. top[p] <= no /\ no <= no
  BY <1>2
<1>4. \A j \in 1..Len(fs) : fs[j][1] = p /\ fs[j][2] > top[p] /\ fs[j][2] <= no
  BY <1>1, <1>3
<1>5. \A i, j \in 1..Len(fs) : i < j => fs[i][2] < fs[j][2]
  BY <1>1
<1> QED BY <1>1, <1>2, <1>3, <1>4, <1>5, OnceParts, AnnounceInOrder

\* a step of the RX tasklet: only its session is touched
LEMMA RxAlone ==
  ASSUME OnceInv, RxStep, NEW p \in Stations, p = sta["rx"], NEW x \in Entries, x = RxE,
         mishaps' = {}, Passed', \A q \in Stations \ {p} : top'[q] = top[q],
         \A d \in Entries \ {RxE} : list'[d] = list[d] /\ lastIndSeq'[d] = lastIndSeq[d],
         pc'["rx"] \in {"idle", "shifted", "decide", "enqueue", "jump", "drain"},
         pc'["rx"] \in Undecided => pc["rx"] \in Undecided,
         \/ lastIndSeq'[x] = RESET_RCV_SEQ /\ top'[p] = -1
         \/ \E n \in Nat : Tracks(p, x, n)' /\ Within(p, n)'
  PROVE  OnceRest'
<1>1. /\ UNCHANGED <<table, idx, sta, no, tx, owner>> /\ pc'["mlme"] = pc["mlme"]
      /\ pc["rx"] \in RxPcs /\ pc["mlme"] = "idle"
  BY RxFrames, OnceParts, ResetParts
<1>2. /\ UNCHANGED <<txWin, heard, wcidArray>> /\ OnAir /\ Sent /\ Following /\ Owned
      /\ wcidArray[p] = x
  BY <1>1, OnceParts DEF tx, table, Serving, RxE, Working
<1>3. Sent'
  BY <1>2 DEF Sent
<1>4. OnAir'
  BY <1>1, <1>2 DEF OnAir, RxPcs, DownPcs, Undecided
<1>5. ASSUME NEW q \in Stations, q # p, NEW e \in Entries, wcidArray[q] = e
      PROVE  /\ lastIndSeq'[e] = lastIndSeq[e] /\ top'[q] = top[q]
             /\ \A n \in Nat : Tracks(q, e, n) /\ Within(q, n) => Tracks(q, e, n)' /\ Within(q, n)'
             /\ Changing(e)' = Changing(e)
  <2>1. e \in Entries \ {RxE}
    BY <1>2, <1>5 DEF Owned, Entries
  <2>2. list'[e] = list[e] /\ lastIndSeq'[e] = lastIndSeq[e] /\ top'[q] = top[q]
    BY <1>5, <2>1
  <2>3. \A n \in Nat : Tracks(q, e, n) => Tracks(q, e, n)'
    BY <1>2, <2>2 DEF Tracks
  <2>4. \A n \in Nat : Within(q, n) => Within(q, n)'
    BY <1>1, <1>2, <1>5 DEF Within
  <2>5. Changing(e)' = Changing(e)
    BY <1>1 DEF Changing
  <2> QED BY <2>2, <2>3, <2>4, <2>5
<1>6. Following'
  <2> SUFFICES ASSUME NEW q \in Stations, NEW e \in Entries, wcidArray[q] = e
               PROVE  \/ /\ lastIndSeq'[e] = RESET_RCV_SEQ
                         /\ Changing(e)' \/ top'[q] = -1
                      \/ \E n \in Nat : Tracks(q, e, n)' /\ Within(q, n)'
    <3>1. \A q \in Stations : wcidArray'[q] = wcidArray[q]
      BY <1>2
    <3> QED BY <3>1 DEF Following
  <2>1. CASE q = p
    BY <1>2, <2>1
  <2>2. CASE q # p
    <3>1. \/ lastIndSeq[e] = RESET_RCV_SEQ /\ (Changing(e) \/ top[q] = -1)
          \/ \E n \in Nat : Tracks(q, e, n) /\ Within(q, n)
      BY <1>2 DEF Following
    <3> QED BY <1>5, <2>2, <3>1
  <2> QED BY <2>1, <2>2
<1> QED BY <1>3, <1>4, <1>6 DEF OnceRest

\* a step of the RX tasklet, after which LastIndSeq stands for frame m
LEMMA RxFollows ==
  ASSUME OnceInv, OrderInv', RxStep, NEW p \in Stations, p = sta["rx"], NEW m \in Nat,
         lastIndSeq'[RxE] = m % Space, m <= heard[p], Told(p, m),
         \A d \in Entries \ {RxE} : list'[d] = list[d] /\ lastIndSeq'[d] = lastIndSeq[d],
         \A j \in 1..Len(list'[RxE]) :
           /\ list'[RxE][j][1] = p /\ list'[RxE][j][2] <= heard[p]
           /\ list'[RxE][j][2] - m < Half /\ m - list'[RxE][j][2] <= Half,
         pc'["rx"] \in {"idle", "shifted", "decide", "enqueue", "jump", "drain"},
         pc'["rx"] \in Undecided => /\ pc["rx"] \in Undecided /\ no - m <= 2 * BAWinSize + MaxGap
                                    /\ heard[p] <= m + BAWinSize \/ heard[p] = no,
         pc'["rx"] \notin Undecided => heard[p] <= m + BAWinSize,
         pc'["rx"] \in {"enqueue", "jump"} => no \in (m + 1)..(m + BAWinSize)
  PROVE  OnceRest'
<1>1. /\ UNCHANGED <<table, idx, sta, no, tx, owner>> /\ RxE' = RxE /\ pc'["mlme"] = pc["mlme"]
      /\ pc["rx"] \in RxPcs /\ RxE \in Entries /\ pc["mlme"] = "idle"
  BY RxFrames, OnceParts, ResetParts
<1>2. /\ UNCHANGED <<txWin, heard, wcidArray>> /\ OnAir /\ Sent /\ Following /\ Owned /\ Serving /\ Passed
      /\ p \in Stations /\ wcidArray[p] = RxE /\ RxE # 0 /\ Working /\ TableTypes
  BY <1>1, OnceParts DEF tx, table, Serving, RxE, Working
<1>3. mishaps' = {} /\ Passed' /\ top'[p] <= m /\ \A q \in Stations \ {p} : top'[q] = top[q]
  BY DEF Told
<1>6. \A j \in 1..Len(list'[RxE]) : list'[RxE][j][2] \in (m + 1)..(m + BAWinSize)
  <2> SUFFICES ASSUME NEW j \in 1..Len(list'[RxE]) PROVE list'[RxE][j][2] \in (m + 1)..(m + BAWinSize)
    OBVIOUS
  <2> DEFINE x == list'[RxE][j][2]
             d == Dist(Sequence(list'[RxE][j]), lastIndSeq'[RxE])
  <2>1. Ordered' /\ PoolInv'
    BY DEF OrderInv, ResetInv
  <2>2. list'[RxE] \in Seq(Frames)
    BY <1>1, <2>1 DEF PoolInv, RestTypes, Listing
  <2>3. x \in Nat
    BY <2>2, BoundsAssumption DEF Frames
  <2>4. d \in 1..BAWinSize
    <3>1. list'[RxE] # <<>>
      BY <2>2
    <3>2. \E lo \in {1, 2}, hi \in {BAWinSize - 1, BAWinSize} : d \in lo..hi
      BY <1>1, <2>1, <3>1 DEF Ordered, InWindow
    <3> QED BY <3>2, OnceParts
  <2>5. d = Dist(x % Space, m % Space)
    BY DEF Sequence
  <2>6. x - m < Half /\ m - x <= Half
    OBVIOUS
  <2> HIDE DEF x, d
  <2>7. d = IF x >= m THEN x - m ELSE x - m + Space
    BY <2>3, <2>5, <2>6, Nearby
  <2>8. x \in (m + 1)..(m + BAWinSize)
    <3>1. Space = 2 * Half /\ BAWinSize < Half /\ Half \in Nat /\ BAWinSize \in Nat /\ Space \in Nat
      BY WindowSmall
    <3> QED BY <2>3, <2>4, <2>6, <2>7, <3>1
  <2> QED BY <2>8 DEF x
<1>7. PICK x \in Entries : x = RxE
  BY <1>1
<1>8. Tracks(p, x, m)' /\ Within(p, m)'
  <2>1. Tracks(p, x, m)'
    BY <1>2, <1>3, <1>6, <1>7 DEF Tracks
  <2>2. Within(p, m)'
    BY <1>1, <1>2 DEF Within
  <2> QED BY <2>1, <2>2
<1> QED BY <1>1, <1>3, <1>7, <1>8, RxAlone

\* a number that is not ahead of that of m is not newer than m
LEMMA NotAhead ==
  ASSUME NEW x \in Nat, NEW m \in Nat, x - m < Half, m - x <= Half,
         x % Space = m % Space \/ SEQ_SMALLER(x % Space, m % Space)
  PROVE  x <= m
<1> DEFINE s == x % Space
           a == m % Space
<1>1. s \in Serials /\ a \in Serials /\ Half \in Nat /\ Space \in Nat
  BY Modulo, HalfIs DEF Serials
<1>2. Dist(s, a) = IF x >= m THEN x - m ELSE x - m + Space
  BY Nearby
<1> HIDE DEF s, a
<1>3. s = a => Dist(s, a) = 0
  BY <1>1, DistIs DEF Serials
<1>4. SEQ_SMALLER(s, a) => Dist(s, a) >= Half
  BY <1>1, DistIs
<1>5. s = a \/ SEQ_SMALLER(s, a)
  BY DEF s, a
<1> QED BY <1>1, <1>2, <1>3, <1>4, <1>5

\* nothing is passed up
LEMMA Untold ==
  ASSUME OnceInv, UNCHANGED hist, NEW p \in Stations, NEW m \in Int, top[p] <= m
  PROVE  Told(p, m)
BY OnceParts DEF Told, Passed, hist

\* what the tasklet knows of the frame in hand
LEMMA RxParts ==
  ASSUME OnceInv, pc["rx"] \in RxPcs
  PROVE  /\ sta["rx"] \in Stations /\ RxE \in Entries /\ RxE # 0 /\ wcidArray[sta["rx"]] = RxE
         /\ RxF = <<sta["rx"], no>> /\ no \in Nat /\ RxF \in Frames /\ RxSeq = no % Space
         /\ no <= heard[sta["rx"]] /\ heard[sta["rx"]] \in Int /\ top[sta["rx"]] \in Int
         /\ pc["rx"] \in {"flush", "shifted", "decide", "enqueue", "jump", "drain"}
         /\ pc["rx"] \in Undecided => heard[sta["rx"]] <= no + BAWinSize - 1
         /\ list[RxE] \in Seq(Frames) /\ Len(list[RxE]) \in Nat
         /\ \/ lastIndSeq[RxE] = RESET_RCV_SEQ /\ top[sta["rx"]] = -1 /\ list[RxE] = <<>>
               /\ pc["rx"] \in {"flush", "decide"}
            \/ \E n \in Nat : Tracks(sta["rx"], RxE, n) /\ Within(sta["rx"], n)
<1>1. /\ sta["rx"] \in Stations /\ RxE \in Entries /\ RxE # 0 /\ wcidArray[sta["rx"]] = RxE
      /\ pc["mlme"] = "idle" /\ RxF \in Frames
  BY OnceParts, PoolParts, ResetParts DEF Working, Serving, RxE
<1>2. RxF = <<sta["rx"], no>> /\ no \in Nat /\ RxSeq = no % Space
  BY OnceParts DEF RxF, RxSeq, Sequence, RestTypes
<1>3. /\ no <= heard[sta["rx"]] /\ heard[sta["rx"]] \in Int /\ top[sta["rx"]] \in Int
      /\ pc["rx"] \in {"flush", "shifted", "decide", "enqueue", "jump", "drain"}
      /\ pc["rx"] \in Undecided => heard[sta["rx"]] <= no + BAWinSize - 1
  BY <1>1, OnceParts DEF OnAir, RestTypes, RxPcs
<1>4. \/ lastIndSeq[RxE] = RESET_RCV_SEQ /\ top[sta["rx"]] = -1
      \/ \E n \in Nat : Tracks(sta["rx"], RxE, n) /\ Within(sta["rx"], n)
  BY <1>1, OnceParts DEF Following, Changing
<1>5. lastIndSeq[RxE] = RESET_RCV_SEQ => list[RxE] = <<>> /\ pc["rx"] \in {"flush", "decide"}
  BY <1>1, <1>3, OnceParts DEF Emptied
<1> QED BY <1>1, <1>2, <1>3, <1>4, <1>5, OnceParts

-----------------------------------------------------------------------------
(* The steps of the RX tasklet pass frames up in order.                     *)

\* numbers of one window are near those that LastIndSeq can have next
LEMMA Apart ==
  ASSUME NEW n \in Nat, NEW m \in Nat, n <= m, m <= n + 2 * BAWinSize + MaxGap,
         NEW x \in (n + 1)..(n + BAWinSize)
  PROVE  x - m < Half /\ m - x <= Half
<1>1. /\ BAWinSize \in Nat /\ BAWinSize >= 1 /\ MaxGap \in Nat /\ 2 * BAWinSize + MaxGap < Half
      /\ Half \in Nat
  BY SizesAssumption, GapAssumption, HalfIs DEF Half, Space
<1> QED BY <1>1

\* the tasklet takes frames, none newer than m, and LastIndSeq stands for m
LEMMA TakeFollows ==
  ASSUME OnceInv, OrderInv', RxStep, NEW p \in Stations, p = sta["rx"], NEW n \in Nat,
         Tracks(p, RxE, n), NEW k \in 0..Len(list[RxE]), Take(RxE, k),
         NEW m \in Nat, n <= m, m <= heard[p], m <= n + 2 * BAWinSize + MaxGap,
         \A j \in 1..k : list[RxE][j][2] <= m,
         lastIndSeq'[RxE] = m % Space,
         \A d \in Entries \ {RxE} : lastIndSeq'[d] = lastIndSeq[d],
         pc'["rx"] \in {"idle", "shifted", "decide", "enqueue", "jump", "drain"},
         pc'["rx"] \in Undecided => /\ pc["rx"] \in Undecided /\ no - m <= 2 * BAWinSize + MaxGap
                                    /\ heard[p] <= m + BAWinSize \/ heard[p] = no,
         pc'["rx"] \notin Undecided => heard[p] <= m + BAWinSize,
         pc'["rx"] \in {"enqueue", "jump"} => no \in (m + 1)..(m + BAWinSize)
  PROVE  OnceRest'
<1>1. /\ RxE \in Entries /\ list[RxE] \in Seq(Frames) /\ Len(list[RxE]) \in Nat
      /\ list \in Listing
  BY RxFrames, OnceParts DEF RestTypes
<1>2. Told(p, m)
  BY <1>1, TakenInOrder
<1>3. list' = [list EXCEPT ![RxE] = SubSeq(list[RxE], k + 1, Len(list[RxE]))]
  BY DEF Take, TakeAfter
<1>4. /\ \A d \in Entries \ {RxE} : list'[d] = list[d]
      /\ list'[RxE] = SubSeq(list[RxE], k + 1, Len(list[RxE]))
  BY <1>1, <1>3 DEF Listing
<1>5. /\ Len(list'[RxE]) = Len(list[RxE]) - k
      /\ \A i \in 1..(Len(list[RxE]) - k) : list'[RxE][i] = list[RxE][k + i]
  BY <1>1, <1>4, Cut
<1>6. \A j \in 1..Len(list'[RxE]) :
        /\ list'[RxE][j][1] = p /\ list'[RxE][j][2] <= heard[p]
        /\ list'[RxE][j][2] - m < Half /\ m - list'[RxE][j][2] <= Half
  <2> SUFFICES ASSUME NEW j \in 1..Len(list'[RxE])
               PROVE  /\ list'[RxE][j][1] = p /\ list'[RxE][j][2] <= heard[p]
                      /\ list'[RxE][j][2] - m < Half /\ m - list'[RxE][j][2] <= Half
    OBVIOUS
  <2>1. PICK i \in 1..Len(list[RxE]) : list'[RxE][j] = list[RxE][i]
    <3>1. k + j \in 1..Len(list[RxE])
      BY <1>1, <1>5
    <3> QED BY <1>5, <3>1
  <2>2. /\ list[RxE][i][1] = p /\ list[RxE][i][2] <= heard[p]
        /\ list[RxE][i][2] \in (n + 1)..(n + BAWinSize)
    BY DEF Tracks
  <2>3. \A x \in (n + 1)..(n + BAWinSize) : x - m < Half /\ m - x <= Half
    BY Apart
  <2> QED BY <2>1, <2>2, <2>3
<1> QED BY <1>2, <1>4, <1>6, RxFollows

\* ba_flush_reordering_timeout_mpdus: nothing, or LastIndSeq moves on by one
LEMMA FlushFollows == ASSUME OnceInv, OrderInv', MaxAge <= 1, RxFlush PROVE OnceRest'
<1> DEFINE next == (lastIndSeq[RxE] + 1) % Space
           k == LeSeqCount(list[RxE], next)
<1>1. /\ RxStep /\ pc["rx"] = "flush" /\ pc["rx"] \in RxPcs /\ pc["rx"] \in Undecided
  BY DEF RxStep, RxFlush, RxPcs, Undecided
<1>0. PICK p \in Stations : p = sta["rx"]
  BY <1>1, RxParts
<1>2. RxE \in Entries /\ TableTypes /\ RestTypes
  BY <1>1, RxParts, OnceParts
<1>3. ~FlushAll(RxE)
  <2>1. age[RxE] \in 0..MaxAge
    BY <1>2 DEF RestTypes
  <2>2. MaxAge \in 0..2
    BY BoundsAssumption
  <2>3. age[RxE] # 2
    BY <2>1, <2>2
  <2> QED BY <2>3 DEF FlushAll
<1>4. CASE Timely(RxE) /\ Goto("rx", "decide") /\ UNCHANGED <<list, lastIndSeq, free, hist>>
  <2>1. pc'["rx"] = "decide" /\ "decide" \in Undecided /\ UNCHANGED <<list, lastIndSeq, hist, top>>
    BY <1>2, <1>4 DEF Goto, TableTypes, Threads, Undecided, hist
  <2>2. UNCHANGED <<idx, sta, no, heard>>
    BY <1>1, RxFrames, OnceParts DEF tx
  <2>3. mishaps' = {} /\ Passed'
    BY <2>1, OnceParts DEF Passed, hist
  <2>4. PICK x \in Entries : x = RxE
    BY <1>2
  <2>5. \/ lastIndSeq'[x] = RESET_RCV_SEQ /\ top'[p] = -1
        \/ \E n \in Nat : Tracks(p, x, n)' /\ Within(p, n)'
    <3>1. CASE lastIndSeq[RxE] = RESET_RCV_SEQ /\ top[p] = -1
      BY <2>1, <2>4, <3>1
    <3>2. CASE \E n \in Nat : Tracks(p, RxE, n) /\ Within(p, n)
      BY <1>1, <2>1, <2>2, <2>4, <3>2 DEF Tracks, Within
    <3> QED BY <1>0, <1>1, <3>1, <3>2, RxParts
  <2>6. /\ \A q \in Stations \ {p} : top'[q] = top[q]
        /\ \A d \in Entries \ {RxE} : list'[d] = list[d] /\ lastIndSeq'[d] = lastIndSeq[d]
    BY <2>1
  <2> QED BY <1>0, <1>1, <1>2, <2>1, <2>3, <2>4, <2>5, <2>6, RxAlone
<1>5. CASE FlushOne(RxE) /\ Take(RxE, k) /\ SetLast(RxE, next) /\ Goto("rx", "shifted")
  <2>1. list[RxE] # <<>>
    BY <1>5 DEF FlushOne, Timely
  <2>2. PICK n \in Nat : Tracks(p, RxE, n) /\ Within(p, n)
    BY <1>0, <1>1, <2>1, RxParts
  <2>3. /\ no - n <= 2 * BAWinSize + MaxGap
        /\ heard[p] <= n + BAWinSize \/ heard[p] = no
        /\ heard[p] \in Int /\ no \in Nat
    BY <1>0, <1>1, <2>2, RxParts DEF Within
  <2>4. next = (n + 1) % Space /\ next \in Int
    <3>1. 1 < Half /\ 1 \in Nat
      BY WindowSmall
    <3>2. next = (n + 1) % Space
      BY <2>2, <3>1, Further DEF Tracks
    <3>3. n + 1 \in Int
      OBVIOUS
    <3> QED BY <3>2, <3>3, Modulo
  <2>5. n + 1 <= heard[p]
    <3>1. 1 \in 1..Len(list[RxE])
      BY <1>1, <2>1, RxParts
    <3>2. list[RxE][1][2] \in (n + 1)..(n + BAWinSize) /\ list[RxE][1][2] <= heard[p]
      BY <2>2, <3>1 DEF Tracks
    <3> QED BY <2>3, <3>2, OnceParts
  <2> HIDE DEF next
  <2>6. k \in 0..Len(list[RxE]) /\ \A j \in 1..k : list[RxE][j][2] <= n + 1
    <3>1. /\ k \in 0..Len(list[RxE])
          /\ \A j \in 1..k : Sequence(list[RxE][j]) = next \/ SEQ_SMALLER(Sequence(list[RxE][j]), next)
      BY <1>1, <2>4, RxParts, LeSeqIs
    <3>2. ASSUME NEW j \in 1..k PROVE list[RxE][j][2] <= n + 1
      <4> DEFINE x == list[RxE][j][2]
      <4>1. j \in 1..Len(list[RxE])
        BY <1>1, <3>1, RxParts
      <4>2. x \in Nat /\ x \in (n + 1)..(n + BAWinSize)
        BY <1>2, <2>2, <4>1, NumbersAhead DEF Tracks
      <4>3. x % Space = (n + 1) % Space \/ SEQ_SMALLER(x % Space, (n + 1) % Space)
        BY <2>4, <3>1 DEF Sequence
      <4> HIDE DEF x
      <4>4. n + 1 \in Nat /\ x - (n + 1) < Half /\ (n + 1) - x <= Half
        BY <4>2, OnceParts
      <4>5. x <= n + 1
        <5> DEFINE m == n + 1
        <5> HIDE DEF m
        <5> QED BY <4>2, <4>3, <4>4, NotAhead DEF m
      <4> QED BY <4>5 DEF x
    <3> QED BY <3>1, <3>2
  <2> HIDE DEF k
  <2>7. /\ pc'["rx"] = "shifted" /\ lastIndSeq'[RxE] = next
        /\ \A d \in Entries \ {RxE} : lastIndSeq'[d] = lastIndSeq[d]
    BY <1>2, <1>5 DEF Goto, SetLast, TableTypes, RestTypes, Threads
  <2> DEFINE m == n + 1
  <2>8. /\ m \in Nat /\ n <= m /\ m <= n + 2 * BAWinSize + MaxGap
        /\ no - m <= 2 * BAWinSize + MaxGap
        /\ heard[p] <= m + BAWinSize \/ heard[p] = no
    <3>1. /\ BAWinSize \in Nat /\ BAWinSize >= 1 /\ MaxGap \in Nat /\ m = n + 1
      BY OnceParts
    <3> QED BY <2>3, <3>1
  <2>9. "shifted" \in Undecided /\ "shifted" \notin {"enqueue", "jump"}
    BY DEF Undecided
  <2>10. m <= heard[p] /\ lastIndSeq'[RxE] = m % Space /\ \A j \in 1..k : list[RxE][j][2] <= m
    BY <2>4, <2>5, <2>6, <2>7
  <2> HIDE DEF m
  <2> QED BY <1>0, <1>1, <1>2, <1>5, <2>2, <2>6, <2>7, <2>8, <2>9, <2>10, TakeFollows
<1> QED BY <1>3, <1>4, <1>5 DEF RxFlush

\* ba_indicate_reordering_mpdus_in_order: LastIndSeq stands for the last frame taken
LEMMA DrainFollows ==
  ASSUME OnceInv, OrderInv', RxShifted \/ RxDrain PROVE OnceRest'
<1> DEFINE k == InOrderCount(list[RxE], lastIndSeq[RxE])
<1>1. /\ RxStep /\ Drain(RxE) /\ pc["rx"] \in RxPcs /\ pc["rx"] \in {"shifted", "drain"}
      /\ pc["rx"] = "shifted" => Goto("rx", "decide")
      /\ pc["rx"] = "drain" => Goto("rx", "idle")
  BY DEF RxStep, RxShifted, RxDrain, RxPcs
<1>2. PICK p \in Stations : p = sta["rx"]
  BY <1>1, RxParts
<1>3. RxE \in Entries /\ TableTypes /\ RestTypes /\ list[RxE] \in Seq(Frames) /\ Len(list[RxE]) \in Nat
  BY <1>1, RxParts, OnceParts
<1>4. PICK n \in Nat : Tracks(p, RxE, n) /\ Within(p, n)
  BY <1>1, <1>2, RxParts
<1>5. k \in 0..Len(list[RxE]) /\ Take(RxE, k)
      /\ IF k = 0 THEN UNCHANGED lastIndSeq ELSE SetLast(RxE, Sequence(list[RxE][k]))
  <2>1. k \in 0..Len(list[RxE])
    BY <1>3, OnceParts, DrainCounts
  <2> QED BY <1>1, <2>1 DEF Drain
<1> HIDE DEF k
<1>6. /\ pc'["rx"] = IF pc["rx"] = "shifted" THEN "decide" ELSE "idle"
      /\ \A d \in Entries \ {RxE} : lastIndSeq'[d] = lastIndSeq[d]
  BY <1>1, <1>3, <1>5 DEF Goto, SetLast, TableTypes, RestTypes, Threads
<1>7. PICK m \in Nat : m = IF k = 0 THEN n ELSE list[RxE][k][2]
  <2>1. k # 0 => list[RxE][k][2] \in Nat
    BY <1>3, <1>4, <1>5, NumbersAhead
  <2> QED BY <2>1
<1>8. /\ n <= m /\ m <= heard[p] /\ m <= n + BAWinSize /\ lastIndSeq'[RxE] = m % Space
      /\ \A j \in 1..k : list[RxE][j][2] <= m
  <2>1. CASE k = 0
    BY <1>4, <1>5, <1>7, <2>1, OnceParts DEF Tracks
  <2>2. CASE k # 0
    <3>1. k \in 1..Len(list[RxE]) /\ m = list[RxE][k][2]
      BY <1>3, <1>5, <1>7, <2>2
    <3>2. m \in (n + 1)..(n + BAWinSize) /\ m <= heard[p]
      BY <1>4, <3>1 DEF Tracks
    <3>3. ASSUME NEW j \in 1..k PROVE list[RxE][j][2] <= m
      <4>1. j \in 1..Len(list[RxE]) /\ (j < k \/ j = k)
        BY <3>1
      <4>2. list[RxE][j][2] \in Nat /\ (j < k => list[RxE][j][2] < m)
        BY <1>3, <1>4, <3>1, <4>1, NumbersAhead
      <4> QED BY <3>1, <4>1, <4>2
    <3>4. lastIndSeq'[RxE] = m % Space
      BY <1>3, <1>5, <2>2, <3>1 DEF SetLast, RestTypes, Sequence
    <3>5. n <= m /\ m <= n + BAWinSize
      BY <3>2, OnceParts
    <3> QED BY <3>2, <3>3, <3>4, <3>5
  <2> QED BY <2>1, <2>2
<1>9. /\ m <= n + 2 * BAWinSize + MaxGap
      /\ pc["rx"] = "shifted" => /\ no - m <= 2 * BAWinSize + MaxGap
                                 /\ heard[p] <= m + BAWinSize \/ heard[p] = no
      /\ pc["rx"] = "drain" => heard[p] <= m + BAWinSize
  <2>1. /\ BAWinSize \in Nat /\ BAWinSize >= 1 /\ MaxGap \in Nat
    BY OnceParts
  <2>2. heard[p] \in Int /\ no \in Nat
    BY <1>1, <1>2, RxParts
  <2>3. /\ pc["rx"] = "shifted" => /\ no - n <= 2 * BAWinSize + MaxGap
                                   /\ heard[p] <= n + BAWinSize \/ heard[p] = no
        /\ pc["rx"] = "drain" => heard[p] <= n + BAWinSize
    BY <1>2, <1>4 DEF Within, Undecided
  <2> QED BY <1>8, <2>1, <2>2, <2>3
<1>10. /\ pc["rx"] = "shifted" => pc'["rx"] = "decide" /\ pc'["rx"] \in Undecided /\ pc["rx"] \in Undecided
       /\ pc["rx"] = "drain" => pc'["rx"] = "idle" /\ pc'["rx"] \notin Undecided
       /\ pc'["rx"] \notin {"enqueue", "jump"}
  BY <1>1, <1>6 DEF Undecided
<1> QED BY <1>1, <1>2, <1>4, <1>5, <1>6, <1>8, <1>9, <1>10, TakeFollows

\* ba_enqueue_reordering_packet: the frame goes into the list
LEMMA EnqueueFollows == ASSUME OnceInv, OrderInv', Sufficient, RxEnqueue PROVE OnceRest'
<1>1. /\ RxStep /\ pc["rx"] \in RxPcs /\ pc["rx"] \in {"enqueue", "jump"}
      /\ Goto("rx", IF pc["rx"] = "jump" THEN "drain" ELSE "idle")
  BY DEF RxStep, RxEnqueue, RxPcs
<1>2. PICK p \in Stations : p = sta["rx"]
  BY <1>1, RxParts
<1>3. /\ RxE \in Entries /\ TableTypes /\ RestTypes /\ list[RxE] \in Seq(Frames) /\ Len(list[RxE]) \in Nat
      /\ RxF \in Frames /\ RxF = <<p, no>> /\ no <= heard[p] /\ no \in Nat /\ list \in Listing
  BY <1>1, <1>2, RxParts, OnceParts DEF RestTypes
<1>4. PICK n \in Nat : Tracks(p, RxE, n) /\ Within(p, n)
  BY <1>1, <1>2, RxParts
<1>5. list' = [list EXCEPT ![RxE] = InsertSorted(list[RxE], RxF)] /\ UNCHANGED <<lastIndSeq, hist>>
  <2>1. free > 0 /\ "eap" \notin Events
    BY <1>1, OnceParts, Ample DEF Sufficient
  <2>2. free # 0
    BY <1>3, <2>1 DEF RestTypes
  <2> QED BY <2>1, <2>2 DEF RxEnqueue
<1> DEFINE r == InsertSorted(list[RxE], RxF)
<1>6. \A j \in 1..Len(r) : r[j] = RxF \/ \E i \in 1..Len(list[RxE]) : r[j] = list[RxE][i]
  <2>1. \/ r = list[RxE]
        \/ /\ Len(r) = Len(list[RxE]) + 1
           /\ \E m \in 1..(Len(list[RxE]) + 1) :
                /\ r[m] = RxF
                /\ \A i \in 1..(m - 1) : r[i] = list[RxE][i]
                /\ \A i \in m..Len(list[RxE]) : r[i + 1] = list[RxE][i]
    <3>1. ASSUME NEW l \in Seq(Frames), NEW f \in Frames
          PROVE  LET s == InsertSorted(l, f) IN
                 \/ s = l
                 \/ /\ Len(s) = Len(l) + 1
                    /\ \E m \in 1..(Len(l) + 1) :
                         /\ s[m] = f
                         /\ \A i \in 1..(m - 1) : s[i] = l[i]
                         /\ \A i \in m..Len(l) : s[i + 1] = l[i]
      <4> DEFINE s == InsertSorted(l, f)
      <4>1. \/ s = l /\ \E i \in 1..Len(l) : Sequence(l[i]) = Sequence(f)
            \/ /\ Len(s) = Len(l) + 1
               /\ \E m \in 1..(Len(l) + 1) :
                    /\ s[m] = f
                    /\ \A i \in 1..(m - 1) : s[i] = l[i] /\ SEQ_SMALLER(Sequence(l[i]), Sequence(f))
                    /\ \A i \in m..Len(l) : s[i + 1] = l[i]
                    /\ m <= Len(l) => /\ ~SEQ_SMALLER(Sequence(l[m]), Sequence(f))
                                      /\ Sequence(l[m]) # Sequence(f)
        BY InsertSortedIs
      <4> HIDE DEF s
      <4>2. \/ s = l
            \/ /\ Len(s) = Len(l) + 1
               /\ \E m \in 1..(Len(l) + 1) :
                    /\ s[m] = f
                    /\ \A i \in 1..(m - 1) : s[i] = l[i]
                    /\ \A i \in m..Len(l) : s[i + 1] = l[i]
        BY <4>1
      <4> QED BY <4>2 DEF s
    <3> QED BY <1>3, <3>1
  <2> HIDE DEF r
  <2>2. CASE r = list[RxE]
    BY <2>2
  <2>3. ASSUME Len(r) = Len(list[RxE]) + 1, NEW m \in 1..(Len(list[RxE]) + 1), r[m] = RxF,
               \A i \in 1..(m - 1) : r[i] = list[RxE][i],
               \A i \in m..Len(list[RxE]) : r[i + 1] = list[RxE][i],
               NEW j \in 1..Len(r)
        PROVE  r[j] = RxF \/ \E i \in 1..Len(list[RxE]) : r[j] = list[RxE][i]
    <3>1. CASE j = m
      BY <2>3, <3>1
    <3>2. CASE j < m
      BY <1>3, <2>3, <3>2
    <3>3. CASE j > m
      <4>1. j - 1 \in m..Len(list[RxE]) /\ (j - 1) + 1 = j /\ j - 1 \in 1..Len(list[RxE])
        BY <1>3, <2>3, <3>3
      <4> QED BY <2>3, <4>1
    <3> QED BY <1>3, <2>3, <3>1, <3>2, <3>3
  <2> QED BY <2>1, <2>2, <2>3
<1>7. list'[RxE] = r /\ \A d \in Entries \ {RxE} : list'[d] = list[d] /\ lastIndSeq'[d] = lastIndSeq[d]
  BY <1>3, <1>5 DEF Listing
<1> HIDE DEF r
<1>8. /\ heard[p] <= n + BAWinSize /\ no \in (n + 1)..(n + BAWinSize)
  BY <1>1, <1>2, <1>4 DEF Within, Undecided
<1>9. \A j \in 1..Len(list'[RxE]) :
        /\ list'[RxE][j][1] = p /\ list'[RxE][j][2] <= heard[p]
        /\ list'[RxE][j][2] - n < Half /\ n - list'[RxE][j][2] <= Half
  <2> SUFFICES ASSUME NEW j \in 1..Len(r)
               PROVE  r[j][1] = p /\ r[j][2] <= heard[p] /\ r[j][2] - n < Half /\ n - r[j][2] <= Half
    BY <1>7
  <2>1. r[j][1] = p /\ r[j][2] <= heard[p] /\ r[j][2] \in (n + 1)..(n + BAWinSize)
    <3>1. CASE r[j] = RxF
      BY <1>3, <1>8, <3>1
    <3>2. CASE \E i \in 1..Len(list[RxE]) : r[j] = list[RxE][i]
      BY <1>4, <3>2 DEF Tracks
    <3> QED BY <1>6, <3>1, <3>2
  <2>2. \A x \in (n + 1)..(n + BAWinSize) : x - n < Half /\ n - x <= Half
    <3>1. BAWinSize \in Nat /\ BAWinSize < Half /\ Half \in Nat
      BY WindowSmall
    <3> QED BY <3>1
  <2> QED BY <2>1, <2>2
<1>10. /\ lastIndSeq'[RxE] = n % Space /\ n <= heard[p] /\ top[p] <= n /\ n \in Int
  BY <1>4, <1>5 DEF Tracks
<1>11. Told(p, n)
  BY <1>5, <1>10, Untold
<1>12. pc'["rx"] \in {"idle", "drain"} /\ pc'["rx"] \notin Undecided
  BY <1>1, <1>3 DEF Goto, TableTypes, Threads, Undecided
<1> QED BY <1>1, <1>2, <1>7, <1>8, <1>9, <1>10, <1>11, <1>12, RxFollows

\* the five cases of Indicate_AMPDU_Packet
LEMMA DecideFollows == ASSUME OnceInv, OrderInv', RxDecide PROVE OnceRest'
<1> DEFINE a == lastIndSeq[RxE]
           start == (RxSeq - win[RxE]) % Space
           k == LeSeqCount(list[RxE], start)
<1>1. RxStep /\ pc["rx"] \in RxPcs /\ pc["rx"] = "decide"
  BY DEF RxStep, RxDecide, RxPcs
<1>2. PICK p \in Stations : p = sta["rx"]
  BY <1>1, RxParts
<1>3. /\ RxE \in Entries /\ TableTypes /\ RestTypes /\ list[RxE] \in Seq(Frames) /\ Len(list[RxE]) \in Nat
      /\ RxF \in Frames /\ RxF = <<p, no>> /\ no <= heard[p] /\ no \in Nat /\ RxSeq = no % Space
      /\ heard[p] \in Int /\ top[p] \in Int /\ heard[p] <= no + BAWinSize - 1
  BY <1>1, <1>2, RxParts, OnceParts DEF Undecided
<1>4. /\ BAWinSize \in Nat /\ BAWinSize >= 1 /\ MaxGap \in Nat /\ 2 * BAWinSize + MaxGap < Half
      /\ Half \in Nat /\ Space = 2 * Half /\ Space \in Nat /\ RxSeq \in Serials /\ win[RxE] = BAWinSize
  BY <1>1, OnceParts, WindowSmall, RxFrames, OrderParts
<1>0. /\ no \in Nat /\ heard[p] \in Int /\ no <= heard[p] /\ heard[p] <= no + BAWinSize - 1
      /\ BAWinSize \in Nat /\ BAWinSize >= 1 /\ MaxGap \in Nat /\ 2 * BAWinSize + MaxGap < Half
      /\ Half \in Nat
  BY <1>3, <1>4
<1>5. \A v : Goto("rx", v) => pc'["rx"] = v
  BY <1>3 DEF Goto, TableTypes, Threads
<1>6. ASSUME NEW s \in Numbers, SetLast(RxE, s)
      PROVE  lastIndSeq'[RxE] = s /\ \A d \in Entries \ {RxE} : lastIndSeq'[d] = lastIndSeq[d]
  BY <1>3, <1>6 DEF SetLast, RestTypes
<1>7. RxSeq \in Numbers /\ start \in Numbers /\ start \in Serials /\ start \in Int
  <2>1. start \in Serials
    BY <1>3, <1>4, Modulo DEF Serials
  <2> HIDE DEF start
  <2> QED BY <1>4, <2>1, ResetIsApart
<1>8. CASE IsReset(RxE) /\ SetLast(RxE, RxSeq) /\ Goto("rx", "idle") /\ UNCHANGED list /\ Indicate
  <2>1. top[p] = -1 /\ list[RxE] = <<>>
    <3>1. ASSUME NEW n \in Nat, Tracks(p, RxE, n) PROVE FALSE
      <4>1. n % Space \in Serials
        BY Modulo DEF Serials
      <4>2. a # RESET_RCV_SEQ
        BY <3>1, <4>1, ResetIsApart DEF Tracks
      <4> QED BY <1>8, <4>2 DEF IsReset
    <3> QED BY <1>1, <1>2, <3>1, RxParts
  <2>2. no > top[p] /\ Announce(<<RxF>>)
    BY <1>3, <1>8, <2>1 DEF Indicate
  <2>3. Told(p, no)
    BY <1>3, <2>2, InHandInOrder
  <2>4. /\ lastIndSeq'[RxE] = no % Space /\ \A d \in Entries \ {RxE} : lastIndSeq'[d] = lastIndSeq[d]
        /\ UNCHANGED list /\ list'[RxE] = <<>> /\ pc'["rx"] = "idle"
    BY <1>3, <1>5, <1>6, <1>7, <1>8, <2>1
  <2>5. heard[p] <= no + BAWinSize /\ "idle" \notin Undecided
    BY <1>0 DEF Undecided
  <2> QED BY <1>1, <1>2, <1>3, <2>3, <2>4, <2>5, RxFollows
<1>9. CASE ~IsReset(RxE)
  <2>1. PICK n \in Nat : Tracks(p, RxE, n) /\ Within(p, n)
    BY <1>1, <1>2, <1>9, RxParts DEF IsReset
  <2>2. /\ a = n % Space /\ a \in Serials /\ top[p] <= n /\ n <= heard[p]
        /\ no - n <= 2 * BAWinSize + MaxGap
        /\ heard[p] <= n + BAWinSize \/ heard[p] = no
    <3>1. n % Space \in Serials
      BY Modulo DEF Serials
    <3>2. pc["rx"] \in Undecided
      BY <1>1 DEF Undecided
    <3> QED BY <1>2, <2>1, <3>1, <3>2 DEF Tracks, Within
  <2>0. n <= heard[p] /\ no - n <= 2 * BAWinSize + MaxGap /\ (heard[p] <= n + BAWinSize \/ heard[p] = no)
    BY <2>2
  <2>3. no - n < Half /\ n - no <= Half /\ n - no < BAWinSize
    BY <1>0, <2>0
  <2>4. Dist(RxSeq, a) = IF no >= n THEN no - n ELSE no - n + Space
    BY <1>3, <2>2, <2>3, Nearby
  <2> HIDE DEF a, start
  <2>5. \A m \in Nat : n <= m /\ m <= n + 1 /\ UNCHANGED list =>
          \A j \in 1..Len(list'[RxE]) :
            /\ list'[RxE][j][1] = p /\ list'[RxE][j][2] <= heard[p]
            /\ list'[RxE][j][2] - m < Half /\ m - list'[RxE][j][2] <= Half
    <3> SUFFICES ASSUME NEW m \in Nat, n <= m, m <= n + 1, NEW j \in 1..Len(list[RxE])
                 PROVE  /\ list[RxE][j][1] = p /\ list[RxE][j][2] <= heard[p]
                        /\ list[RxE][j][2] - m < Half /\ m - list[RxE][j][2] <= Half
      OBVIOUS
    <3>1. \A x \in (n + 1)..(n + BAWinSize) : x - m < Half /\ m - x <= Half
      BY <1>4
    <3> QED BY <2>1, <3>1 DEF Tracks
  <2>6. CASE IsNext(RxE) /\ SetLast(RxE, RxSeq) /\ Goto("rx", "drain") /\ UNCHANGED list /\ Indicate
    <3>1. Dist(RxSeq, a) = 1
      <4>1. RxSeq = (a + 1) % Space /\ 1 \in Serials
        BY <1>4, <2>6, Modulo DEF IsNext, SEQ_STEPONE, a, Serials
      <4> QED BY <1>4, <2>2, <4>1, DistMoves
    <3>2. no = n + 1
      <4>1. 1 < Half /\ 1 \in Nat
        BY <1>0
      <4>2. 1 = IF no >= n THEN no - n ELSE no - n + Space
        BY <2>4, <3>1
      <4> QED BY <1>0, <2>3, <4>1, <4>2, AsFar
    <3>3. no > top[p] /\ Announce(<<RxF>>)
      BY <1>3, <2>2, <2>6, <3>2 DEF Indicate
    <3>4. Told(p, no)
      BY <1>3, <3>3, InHandInOrder
    <3>5. /\ lastIndSeq'[RxE] = no % Space /\ \A d \in Entries \ {RxE} : lastIndSeq'[d] = lastIndSeq[d]
          /\ UNCHANGED list /\ pc'["rx"] = "drain"
      BY <1>3, <1>5, <1>6, <1>7, <2>6
    <3>6. heard[p] <= no + BAWinSize /\ "drain" \notin Undecided /\ n <= no /\ no <= n + 1
      BY <1>0, <3>2 DEF Undecided
    <3> QED BY <1>1, <1>2, <1>3, <2>5, <3>4, <3>5, <3>6, RxFollows
  <2>7. CASE IsOld(RxE) /\ Goto("rx", "idle") /\ UNCHANGED <<list, lastIndSeq, free, hist>>
    <3>1. no <= n
      <4>1. no % Space = n % Space \/ SEQ_SMALLER(no % Space, n % Space)
        BY <1>3, <2>2, <2>7 DEF IsOld, a
      <4> QED BY <1>3, <2>3, <4>1, NotAhead
    <3>2. heard[p] <= n + BAWinSize /\ n <= n + 1 /\ "idle" \notin Undecided
      BY <1>0, <2>0, <3>1 DEF Undecided
    <3>3. Told(p, n)
      BY <2>2, <2>7, Untold
    <3>4. /\ lastIndSeq'[RxE] = n % Space /\ \A d \in Entries \ {RxE} : lastIndSeq'[d] = lastIndSeq[d]
          /\ UNCHANGED list /\ pc'["rx"] = "idle"
      BY <1>5, <2>2, <2>7 DEF a
    <3>5. \A j \in 1..Len(list'[RxE]) :
            /\ list'[RxE][j][1] = p /\ list'[RxE][j][2] <= heard[p]
            /\ list'[RxE][j][2] - n < Half /\ n - list'[RxE][j][2] <= Half
      <4>1. n <= n
        OBVIOUS
      <4> QED BY <2>5, <3>2, <3>4, <4>1
    <3>6. n <= heard[p] /\ \A d \in Entries \ {RxE} : list'[d] = list[d]
      BY <2>0, <3>4
    <3> QED BY <1>1, <1>2, <3>2, <3>3, <3>4, <3>5, <3>6, RxFollows
  <2>8. CASE IsInWin(RxE) /\ Goto("rx", "enqueue") /\ UNCHANGED <<list, lastIndSeq, free, hist>>
    <3>1. pc'["rx"] = "enqueue" /\ RxE' = RxE /\ RxSeq' = RxSeq /\ lastIndSeq' = lastIndSeq
      BY <1>1, <1>5, <2>8, RxFrames, OnceParts DEF RxSeq
    <3>2. Dist(RxSeq, a) \in 2..BAWinSize
      BY <3>1 DEF OrderInv, InHand, a
    <3>3. no \in (n + 1)..(n + BAWinSize)
      <4>1. PICK w \in 2..BAWinSize : w = Dist(RxSeq, a)
        BY <3>2
      <4>2. w \in Nat /\ w < Half
        BY <1>0
      <4>3. w = IF no >= n THEN no - n ELSE no - n + Space
        BY <2>4, <4>1
      <4>4. no \in Nat /\ n - no <= Half
        BY <1>0, <2>3
      <4>5. no = n + w
        BY <4>2, <4>3, <4>4, AsFar
      <4> QED BY <1>0, <4>5
    <3>4. heard[p] <= n + BAWinSize /\ n <= n + 1 /\ "enqueue" \notin Undecided
      BY <1>0, <2>0, <3>3 DEF Undecided
    <3>5. Told(p, n)
      BY <2>2, <2>8, Untold
    <3>6. /\ lastIndSeq'[RxE] = n % Space /\ \A d \in Entries \ {RxE} : lastIndSeq'[d] = lastIndSeq[d]
          /\ UNCHANGED list
      BY <2>2, <2>8 DEF a
    <3>7. \A j \in 1..Len(list'[RxE]) :
            /\ list'[RxE][j][1] = p /\ list'[RxE][j][2] <= heard[p]
            /\ list'[RxE][j][2] - n < Half /\ n - list'[RxE][j][2] <= Half
      <4>1. n <= n
        OBVIOUS
      <4> QED BY <2>5, <3>4, <3>6, <4>1
    <3>8. \A d \in Entries \ {RxE} : list'[d] = list[d]
      BY <3>6
    <3> QED BY <1>1, <1>2, <2>0, <3>1, <3>3, <3>4, <3>5, <3>6, <3>7, <3>8, RxFollows
  <2>9. CASE IsBeyond(RxE) /\ Take(RxE, k) /\ SetLast(RxE, start) /\ Goto("rx", "jump")
    <3>1. no >= n + BAWinSize + 1
      <4> DEFINE w == BAWinSize + 1
                 y == n + w
      <4>1. w \in Nat /\ w < Half /\ y \in Nat /\ no - y < Half /\ y - no <= Half
        BY <1>0, <2>0
      <4>2. (a + BAWinSize + 1) % Space = y % Space
        <5>1. ((n % Space) + w) % Space = (n + w) % Space
          <6> HIDE DEF w
          <6> QED BY <4>1, Further
        <5>2. a + BAWinSize + 1 = (n % Space) + w
          BY <1>4, <2>2 DEF Serials
        <5> QED BY <5>1, <5>2
      <4>3. ~SEQ_SMALLER(RxSeq, y % Space)
        <5>1. ~SEQ_SMALLER(RxSeq, (a + BAWinSize + 1) % Space)
          BY <1>4, <2>9 DEF IsBeyond, IsInWin, a
        <5> HIDE DEF y
        <5> QED BY <4>2, <5>1
      <4>4. Dist(RxSeq, y % Space) = IF no >= y THEN no - y ELSE no - y + Space
        <5> HIDE DEF y
        <5> QED BY <1>3, <4>1, Nearby
      <4>5. y % Space \in Serials
        <5> HIDE DEF y
        <5> QED BY <4>1, Modulo DEF Serials
      <4> HIDE DEF y
      <4>6. SEQ_SMALLER(RxSeq, y % Space) <=> Dist(RxSeq, y % Space) >= Half
        BY <1>4, <4>5, DistIs
      <4>7. no >= y
        BY <1>3, <1>4, <4>1, <4>3, <4>4, <4>6
      <4> QED BY <1>4, <4>7 DEF y
    <3>2. heard[p] = no
      BY <1>0, <2>0, <3>1
    <3>3. PICK m \in Nat : m = no - BAWinSize
      BY <1>0, <3>1
    <3>4. start = m % Space /\ pc'["rx"] = "jump" /\ lastIndSeq'[RxE] = start
          /\ \A d \in Entries \ {RxE} : lastIndSeq'[d] = lastIndSeq[d]
      <4>1. pc'["rx"] = "jump" /\ RxE' = RxE /\ RxSeq' = RxSeq
        BY <1>1, <1>5, <2>9, RxFrames, OnceParts DEF RxSeq
      <4>2. /\ lastIndSeq'[RxE] = start
            /\ \A d \in Entries \ {RxE} : lastIndSeq'[d] = lastIndSeq[d]
        BY <1>6, <1>7, <2>9
      <4>3. Dist(RxSeq, start) = BAWinSize
        BY <4>1, <4>2 DEF OrderInv, InHand
      <4>4. BAWinSize <= no /\ BAWinSize < Half
        BY <1>3, <1>4, <3>1
      <4>5. start = (no - BAWinSize) % Space
        BY <1>3, <1>4, <1>7, <4>3, <4>4, Back
      <4> QED BY <3>3, <4>1, <4>2, <4>5
    <3>5. /\ n <= m /\ m <= heard[p] /\ m <= n + 2 * BAWinSize + MaxGap
          /\ heard[p] <= m + BAWinSize /\ no \in (m + 1)..(m + BAWinSize)
      BY <1>0, <2>0, <3>1, <3>2, <3>3
    <3>6. k \in 0..Len(list[RxE]) /\ \A j \in 1..k : list[RxE][j][2] <= m
      <4>1. /\ k \in 0..Len(list[RxE])
            /\ \A j \in 1..k : Sequence(list[RxE][j]) = start \/ SEQ_SMALLER(Sequence(list[RxE][j]), start)
        BY <1>3, <1>7, LeSeqIs
      <4> HIDE DEF k
      <4>2. ASSUME NEW j \in 1..k PROVE list[RxE][j][2] <= m
        <5> DEFINE x == list[RxE][j][2]
        <5>1. j \in 1..Len(list[RxE])
          BY <1>3, <4>1
        <5>2. x \in Nat /\ x \in (n + 1)..(n + BAWinSize)
          BY <1>3, <2>1, <5>1, NumbersAhead DEF Tracks
        <5>3. x % Space = m % Space \/ SEQ_SMALLER(x % Space, m % Space)
          BY <3>4, <4>1 DEF Sequence
        <5> HIDE DEF x
        <5>4. x - m < Half /\ m - x <= Half
          BY <3>5, <5>2, Apart
        <5> QED BY <5>2, <5>3, <5>4, NotAhead DEF x
      <4> QED BY <4>1, <4>2
    <3> HIDE DEF k
    <3>7. "jump" \notin Undecided
      BY DEF Undecided
    <3>8. lastIndSeq'[RxE] = m % Space
      BY <3>4
    <3> QED BY <1>1, <1>2, <2>1, <2>9, <3>4, <3>5, <3>6, <3>7, <3>8, TakeFollows
  <2> QED BY <1>9, <2>6, <2>7, <2>8, <2>9 DEF RxDecide, a, start
<1> QED BY <1>8, <1>9 DEF RxDecide, IsNext, IsOld, IsInWin, IsBeyond

\* every step of the RX tasklet
LEMMA TaskletFollows ==
  ASSUME OnceInv, OrderInv', Sufficient, MaxAge <= 1, RxStep PROVE OnceRest'
<1>1. ~CntlEnqueueForRecv
  BY OnceParts DEF CntlEnqueueForRecv, OnAir
<1> QED BY <1>1, FlushFollows, DrainFollows, DecideFollows, EnqueueFollows DEF RxStep

-----------------------------------------------------------------------------
(* The other steps, and the theorem.                                        *)

\* a frame arrives
LEMMA ReceptionFollows ==
  ASSUME Racing = "no", OnceInv, NEW p \in Stations, NEW n \in 0..MaxNo,
         n \in txWin[p]..(txWin[p] + BAWinSize - 1), RxFrame(p, n)
  PROVE  OnceRest'
<1>1. /\ pc["rx"] = "idle" /\ pc["mlme"] = "idle" /\ TableTypes /\ RestTypes /\ Sent /\ Following
      /\ mishaps = {} /\ Passed
  BY OnceParts DEF RxFrame, MayStart, Threads
<1>2. /\ UNCHANGED <<list, lastIndSeq, wcidArray, txWin, got, top, mishaps>>
      /\ heard' = [heard EXCEPT ![p] = Max({heard[p], n})]
  BY DEF RxFrame, entryv, table, hist
<1>3. /\ heard[p] \in Int /\ n \in Nat /\ txWin[p] \in Int /\ BAWinSize \in Nat /\ MaxGap \in Nat
      /\ heard[p] <= txWin[p] + BAWinSize - 1 /\ txWin[p] <= heard[p] + MaxGap + 1
      /\ txWin[p] <= n /\ n <= txWin[p] + BAWinSize - 1
  BY <1>1, OnceParts, BoundsAssumption DEF RestTypes, Sent
<1>4. /\ heard'[p] \in {heard[p], n} /\ heard[p] <= heard'[p] /\ n <= heard'[p]
      /\ \A q \in Stations \ {p} : heard'[q] = heard[q]
  <2> DEFINE I == {heard[p], n}
  <2>1. I \subseteq Int /\ I # {} /\ \E b \in Int : \A x \in I : x <= b
    BY <1>3
  <2>2. heard'[p] = Max(I)
    BY <1>1, <1>2 DEF RestTypes
  <2>3. heard[p] \in I /\ n \in I
    OBVIOUS
  <2> HIDE DEF I
  <2>4. heard'[p] \in I /\ heard[p] <= heard'[p] /\ n <= heard'[p]
    BY <2>1, <2>2, <2>3, Largest
  <2> QED BY <1>1, <1>2, <2>4 DEF I, RestTypes
<1>5. Sent'
  <2> SUFFICES ASSUME NEW q \in Stations
               PROVE  heard'[q] <= txWin[q] + BAWinSize - 1 /\ txWin[q] <= heard'[q] + MaxGap + 1
    BY <1>2 DEF Sent
  <2>1. CASE q = p
    BY <1>3, <1>4, <2>1
  <2>2. CASE q # p
    BY <1>1, <1>4, <2>2 DEF Sent
  <2> QED BY <2>1, <2>2
<1>6. Passed' /\ mishaps' = {}
  BY <1>1, <1>2 DEF Passed
<1>7. \A q \in Stations, e \in Entries : \A m \in Nat : Tracks(q, e, m) => Tracks(q, e, m)'
  <2> SUFFICES ASSUME NEW q \in Stations, NEW e \in Entries, NEW m \in Nat, Tracks(q, e, m)
               PROVE  Tracks(q, e, m)'
    OBVIOUS
  <2>1. heard[q] <= heard'[q] /\ heard[q] \in Int /\ heard'[q] \in Int
    BY <1>1, <1>3, <1>4 DEF RestTypes
  <2>2. \A j \in 1..Len(list[e]) : list[e][j][2] \in Int
    BY NumbersAhead
  <2>3. m <= heard'[q]
    BY <2>1 DEF Tracks
  <2>4. \A j \in 1..Len(list[e]) : list[e][j][2] <= heard'[q]
    BY <2>1, <2>2 DEF Tracks
  <2> QED BY <1>2, <2>3, <2>4 DEF Tracks
<1>8. \A q \in Stations : \A m \in Nat : Within(q, m) => heard[q] <= m + BAWinSize
  BY <1>1 DEF Within, Undecided
<1>9. \A e \in Entries : ~Changing(e)
  BY <1>1 DEF Changing
<1>10. CASE wcidArray[p] = 0 /\ UNCHANGED thread
  <2>1. pc' = pc
    BY <1>10 DEF thread
  <2>2. OnAir'
    BY <1>1, <2>1 DEF OnAir, RxPcs, DownPcs, Undecided
  <2>3. Following'
    <3> SUFFICES ASSUME NEW q \in Stations, NEW e \in Entries, wcidArray[q] = e
                 PROVE  \/ lastIndSeq'[e] = RESET_RCV_SEQ /\ (Changing(e)' \/ top'[q] = -1)
                        \/ \E m \in Nat : Tracks(q, e, m)' /\ Within(q, m)'
      BY <1>2 DEF Following
    <3>1. \/ lastIndSeq[e] = RESET_RCV_SEQ /\ top[q] = -1
          \/ \E m \in Nat : Tracks(q, e, m) /\ Within(q, m)
      BY <1>1, <1>9 DEF Following
    <3>2. heard'[q] = heard[q]
      BY <1>4, <1>10 DEF Entries
    <3>3. \A m \in Nat : Within(q, m) => Within(q, m)'
      BY <1>1, <2>1, <3>2 DEF Within, Undecided
    <3> QED BY <1>2, <1>7, <3>1, <3>3
  <2> QED BY <1>5, <1>6, <2>2, <2>3 DEF OnceRest
<1>11. CASE Start("rx", p, "flush") /\ no' = n
  <2>1. pc'["rx"] = "flush" /\ pc'["mlme"] = "idle" /\ sta'["rx"] = p
    BY <1>1, <1>11 DEF Start, TableTypes, Threads
  <2>2. OnAir'
    <3>1. no' <= heard'[p] /\ heard'[p] <= no' + BAWinSize - 1
      BY <1>3, <1>4, <1>11
    <3> QED BY <2>1, <3>1 DEF OnAir, RxPcs, DownPcs, Undecided
  <2>3. Following'
    <3> SUFFICES ASSUME NEW q \in Stations, NEW e \in Entries, wcidArray[q] = e
                 PROVE  \/ lastIndSeq'[e] = RESET_RCV_SEQ /\ (Changing(e)' \/ top'[q] = -1)
                        \/ \E m \in Nat : Tracks(q, e, m)' /\ Within(q, m)'
      BY <1>2 DEF Following
    <3>1. \/ lastIndSeq[e] = RESET_RCV_SEQ /\ top[q] = -1
          \/ \E m \in Nat : Tracks(q, e, m) /\ Within(q, m)
      BY <1>1, <1>9 DEF Following
    <3>2. ASSUME NEW m \in Nat, Within(q, m) PROVE Within(q, m)'
      <4>1. heard[q] <= m + BAWinSize
        BY <1>8, <3>2
      <4>2. CASE q = p
        <5>1. n - m <= 2 * BAWinSize + MaxGap /\ (heard'[p] <= m + BAWinSize \/ heard'[p] = n)
          BY <1>3, <1>4, <4>1, <4>2
        <5> QED BY <1>11, <2>1, <4>2, <5>1 DEF Within, Undecided
      <4>3. CASE q # p
        BY <1>4, <2>1, <4>1, <4>3 DEF Within, Undecided
      <4> QED BY <4>2, <4>3
    <3> QED BY <1>2, <1>7, <3>1, <3>2
  <2> QED BY <1>5, <1>6, <2>2, <2>3 DEF OnceRest
<1> QED BY <1>10, <1>11 DEF RxFrame

\* a step of the MLME thread, while the RX tasklet waits
LEMMA MlmeFollows ==
  ASSUME OnceInv, pc["rx"] = "idle", pc'["rx"] = "idle", UNCHANGED tx, mishaps' = {}, Passed',
         \A q \in Stations, e \in Entries : wcidArray'[q] = e =>
           \/ lastIndSeq'[e] = RESET_RCV_SEQ /\ (Changing(e)' \/ top'[q] = -1)
           \/ /\ wcidArray[q] = e /\ ~Changing(e)
              /\ list'[e] = list[e] /\ lastIndSeq'[e] = lastIndSeq[e] /\ top'[q] = top[q]
  PROVE  OnceRest'
<1>1. Sent /\ Following /\ UNCHANGED <<heard, txWin>>
  BY OnceParts DEF tx
<1>2. Sent'
  BY <1>1 DEF Sent
<1>3. OnAir'
  BY DEF OnAir, RxPcs, DownPcs, Undecided
<1>4. \A q \in Stations : \A m \in Nat : Within(q, m) => Within(q, m)'
  BY <1>1 DEF Within, Undecided
<1>5. ASSUME NEW q \in Stations, NEW e \in Entries, NEW m \in Nat, Tracks(q, e, m),
             list'[e] = list[e], lastIndSeq'[e] = lastIndSeq[e], top'[q] = top[q]
      PROVE  Tracks(q, e, m)'
  BY <1>1, <1>5 DEF Tracks
<1>6. Following'
  <2> SUFFICES ASSUME NEW q \in Stations, NEW e \in Entries, wcidArray'[q] = e
               PROVE  \/ lastIndSeq'[e] = RESET_RCV_SEQ /\ (Changing(e)' \/ top'[q] = -1)
                      \/ \E m \in Nat : Tracks(q, e, m)' /\ Within(q, m)'
    BY DEF Following
  <2>1. CASE /\ wcidArray[q] = e /\ ~Changing(e)
             /\ list'[e] = list[e] /\ lastIndSeq'[e] = lastIndSeq[e] /\ top'[q] = top[q]
    <3>1. \/ lastIndSeq[e] = RESET_RCV_SEQ /\ top[q] = -1
          \/ \E m \in Nat : Tracks(q, e, m) /\ Within(q, m)
      BY <1>1, <2>1 DEF Following
    <3> QED BY <1>4, <1>5, <2>1, <3>1
  <2> QED BY <2>1
<1> QED BY <1>2, <1>3, <1>6 DEF OnceRest

\* ba_refresh_reordering_mpdus passes the whole list up in order
LEMMA RefreshInOrderOf ==
  ASSUME OnceInv, NEW p \in Stations, NEW x \in Entries, wcidArray[p] = x, ~Changing(x), Refresh(x)
  PROVE  mishaps' = {} /\ Passed' /\ \A q \in Stations \ {p} : top'[q] = top[q]
<1> DEFINE k == Len(list[x])
<1>1. /\ list[x] \in Seq(Frames) /\ k \in 0..Len(list[x]) /\ Take(x, k)
      /\ heard[p] \in Int /\ top[p] \in Int
  BY OnceParts DEF Refresh, RestTypes
<1>2. CASE \E n \in Nat : Tracks(p, x, n)
  <2>1. PICK n \in Nat : Tracks(p, x, n)
    BY <1>2
  <2>2. n <= heard[p] /\ \A j \in 1..k : list[x][j][2] <= heard[p]
    BY <2>1 DEF Tracks
  <2> HIDE DEF k
  <2>3. Told(p, heard[p])
    BY <1>1, <2>1, <2>2, TakenInOrder
  <2> QED BY <2>3 DEF Told
<1>3. CASE list[x] = <<>>
  <2>1. SubSeq(list[x], 1, k) = <<>>
    <3>1. k = 0
      BY <1>3
    <3>2. SubSeq(list[x], 1, 0) = <<>>
      BY <1>3
    <3> QED BY <3>1, <3>2
  <2>2. Announce(<<>>)
    <3>1. Announce(<<>> \o SubSeq(list[x], 1, k)) /\ <<>> \o <<>> = <<>>
      BY <1>1 DEF Take, TakeAfter
    <3> HIDE DEF k
    <3> QED BY <2>1, <3>1
  <2> DEFINE fs == <<>>
  <2>3. fs \in Seq(Frames) /\ Len(fs) = 0 /\ 1..0 = {} /\ top[p] <= top[p]
    BY <1>1
  <2>4. Announce(fs)
    BY <2>2
  <2> HIDE DEF fs
  <2>5. Told(p, top[p])
    <3>1. PICK t \in Int : t = top[p]
      BY <1>1
    <3>2. Told(p, t)
      BY <2>3, <2>4, <3>1, OnceParts, AnnounceInOrder
    <3> QED BY <3>1, <3>2 DEF Told
  <2> QED BY <2>5 DEF Told
<1>4. lastIndSeq[x] = RESET_RCV_SEQ => list[x] = <<>>
  BY OnceParts DEF Emptied
<1> QED BY <1>2, <1>3, <1>4, OnceParts DEF Following

\* ba_refresh_reordering_mpdus by the MLME thread, for the session it is about to change
LEMMA RefreshFollows ==
  ASSUME OnceInv, NEW p \in Stations, NEW x \in Entries, wcidArray[p] = x, idx["mlme"] = x,
         pc["mlme"] \in {"refresh", "restart"}, Refresh(x), UNCHANGED <<wcidArray, tx>>,
         NEW v \in {"clear", "fill"}, Goto("mlme", v)
  PROVE  OnceRest'
<1>1. /\ TableTypes /\ RestTypes /\ Alone /\ Owned /\ Following
      /\ UNCHANGED <<wcidArray, txWin, heard>>
  BY OnceParts DEF tx
<1>2. pc["rx"] = "idle" /\ pc'["rx"] = "idle"
  BY <1>1 DEF Alone, Goto, TableTypes, Threads
<1>3. pc'["mlme"] = v /\ idx'["mlme"] = x /\ \A e \in Entries : ~Changing(e)
  BY <1>1 DEF Goto, TableTypes, Threads, Changing
<1>4. mishaps' = {} /\ Passed' /\ \A q \in Stations \ {p} : top'[q] = top[q]
  BY <1>3, RefreshInOrderOf
<1>5. /\ \A e \in Entries \ {x} : list'[e] = list[e] /\ lastIndSeq'[e] = lastIndSeq[e]
      /\ lastIndSeq'[x] = RESET_RCV_SEQ
  BY <1>1 DEF Refresh, Take, TakeAfter, RestTypes, Listing
<1>6. ASSUME NEW q \in Stations, NEW e \in Entries, wcidArray'[q] = e
      PROVE  \/ lastIndSeq'[e] = RESET_RCV_SEQ /\ (Changing(e)' \/ top'[q] = -1)
             \/ /\ wcidArray[q] = e /\ ~Changing(e)
                /\ list'[e] = list[e] /\ lastIndSeq'[e] = lastIndSeq[e] /\ top'[q] = top[q]
  <2>1. CASE e = x
    BY <1>3, <1>5, <2>1 DEF Changing
  <2>2. CASE e # x
    <3>1. q # p /\ wcidArray[q] = e
      BY <1>1, <1>6, <2>2
    <3> QED BY <1>3, <1>4, <1>5, <2>2, <3>1
  <2> QED BY <2>1, <2>2
<1> QED BY <1>2, <1>4, <1>6, MlmeFollows

\* a step of the MLME thread that leaves lists and history alone, and every
\* session that it does not end
LEMMA LeftFollows ==
  ASSUME OnceInv, pc["mlme"] # "idle", pc'["rx"] = pc["rx"], UNCHANGED <<list, hist, tx>>,
         \A q \in Stations, e \in Entries : wcidArray'[q] = e =>
           wcidArray[q] = e /\ ~Changing(e) /\ lastIndSeq'[e] = lastIndSeq[e]
  PROVE  OnceRest'
<1>1. Alone /\ mishaps = {} /\ Passed /\ UNCHANGED <<got, top, mishaps>>
  BY OnceParts DEF hist
<1>2. pc["rx"] = "idle" /\ pc'["rx"] = "idle" /\ mishaps' = {} /\ Passed'
  BY <1>1 DEF Alone, Passed
<1> QED BY <1>1, <1>2, MlmeFollows

\* the MLME thread takes a session away
LEMMA DownFollows == ASSUME OnceInv, DownStep("mlme") PROVE OnceRest'
<1>1. /\ TableTypes /\ RestTypes /\ Alone /\ Owned /\ Ending /\ Opened
      /\ "mlme" \in Threads
  BY OnceParts DEF Threads
<1>2. CASE Down("mlme")
  <2>1. pc["mlme"] = "down" /\ pc'["rx"] = pc["rx"]
    BY <1>1, <1>2 DEF Down, TableTypes, Threads
  <2>2. UNCHANGED <<list, lastIndSeq, wcidArray, hist, tx>>
    BY <1>2 DEF Down, entryv, table
  <2>3. \A e \in Entries : ~Changing(e)
    BY <2>1 DEF Changing
  <2> QED BY <2>1, <2>2, <2>3, LeftFollows
<1>3. CASE DownRefresh("mlme")
  <2>1. /\ pc["mlme"] = "refresh" /\ Refresh(idx["mlme"]) /\ Goto("mlme", "clear")
        /\ UNCHANGED <<wcidArray, tx>>
    BY <1>3 DEF DownRefresh, table
  <2>2. sta["mlme"] \in Stations /\ wcidArray[sta["mlme"]] = idx["mlme"] /\ idx["mlme"] \in Entries
    BY <1>1, <2>1 DEF Ending, Opened, DownPcs, TableTypes
  <2> QED BY <2>1, <2>2, RefreshFollows
<1>4. CASE DownClear("mlme")
  <2>1. /\ pc["mlme"] = "clear" /\ pc'["rx"] = pc["rx"] /\ UNCHANGED <<list, hist, tx>>
        /\ wcidArray' = [wcidArray EXCEPT ![sta["mlme"]] = 0]
        /\ lastIndSeq' = [lastIndSeq EXCEPT ![idx["mlme"]] = RESET_RCV_SEQ]
    BY <1>1, <1>4 DEF DownClear, SetLast, Goto, TableTypes, Threads
  <2>2. sta["mlme"] \in Stations /\ wcidArray[sta["mlme"]] = idx["mlme"] /\ idx["mlme"] # 0
    BY <1>1, <2>1 DEF Ending, Opened, DownPcs
  <2>3. ASSUME NEW q \in Stations, NEW e \in Entries, wcidArray'[q] = e
        PROVE  wcidArray[q] = e /\ ~Changing(e) /\ lastIndSeq'[e] = lastIndSeq[e]
    <3>1. e # 0
      BY DEF Entries
    <3>2. q # sta["mlme"] /\ wcidArray[q] = e
      BY <1>1, <2>1, <2>3, <3>1 DEF TableTypes
    <3>3. e # idx["mlme"]
      BY <1>1, <2>2, <3>1, <3>2 DEF Owned
    <3> QED BY <1>1, <2>1, <3>2, <3>3 DEF Changing, RestTypes
  <2> QED BY <2>1, <2>3, LeftFollows
<1>5. CASE BATableFreeRecEntry("mlme")
  <2>1. /\ pc["mlme"] = "release" /\ pc'["rx"] = pc["rx"] /\ UNCHANGED <<list, lastIndSeq, hist, tx>>
        /\ \/ wcidArray' = wcidArray
           \/ wcidArray' = [p \in Stations |-> IF p = owner[idx["mlme"]] THEN 0 ELSE wcidArray[p]]
    BY <1>1, <1>5 DEF BATableFreeRecEntry, Goto, TableTypes, Threads
  <2>2. \A q \in Stations, e \in Entries : wcidArray'[q] = e => wcidArray[q] = e
    <3>1. \A e \in Entries : e # 0
      BY DEF Entries
    <3> QED BY <2>1, <3>1
  <2>3. \A e \in Entries : ~Changing(e)
    BY <2>1 DEF Changing
  <2> QED BY <2>1, <2>2, <2>3, LeftFollows
<1> QED BY <1>2, <1>3, <1>4, <1>5 DEF DownStep

\* the MLME thread sets a session up
LEMMA AddFollows == ASSUME OnceInv, AddStep PROVE OnceRest'
<1>1. /\ TableTypes /\ RestTypes /\ Alone /\ Adding /\ Passed /\ mishaps = {}
  BY OnceParts
<1>2. CASE AddAlloc
  <2>1. pc["mlme"] = "alloc" /\ pc'["rx"] = pc["rx"]
    BY <1>1, <1>2 DEF AddAlloc, TableTypes, Threads
  <2>2. UNCHANGED <<list, lastIndSeq, wcidArray, hist, tx>>
    BY <1>2 DEF AddAlloc
  <2>3. \A e \in Entries : ~Changing(e)
    BY <2>1 DEF Changing
  <2> QED BY <2>1, <2>2, <2>3, LeftFollows
<1>3. CASE AddRestart
  <2>1. /\ pc["mlme"] = "restart" /\ Refresh(idx["mlme"]) /\ Goto("mlme", "fill")
        /\ UNCHANGED <<wcidArray, tx>>
    BY <1>3 DEF AddRestart, table
  <2>2. sta["mlme"] \in Stations /\ wcidArray[sta["mlme"]] = idx["mlme"] /\ idx["mlme"] \in Entries
    BY <1>1, <2>1 DEF Adding, AddPcs, TableTypes
  <2> QED BY <2>1, <2>2, RefreshFollows
<1>4. CASE AddFill
  <2> DEFINE x == idx["mlme"]
             p == sta["mlme"]
  <2>1. /\ pc["mlme"] = "fill" /\ p \in Stations /\ x \in Entries
        /\ \A q \in Stations : wcidArray[q] = x => q = p
    BY <1>1, <1>4 DEF AddFill, Adding, AddPcs, TableTypes, Threads
  <2>2. /\ UNCHANGED <<list, tx, mishaps>>
        /\ lastIndSeq' = [lastIndSeq EXCEPT ![x] = RESET_RCV_SEQ]
        /\ wcidArray' = [wcidArray EXCEPT ![p] = x]
        /\ got' = [got EXCEPT ![p] = {}] /\ top' = [top EXCEPT ![p] = -1]
    BY <1>4 DEF AddFill, SetLast
  <2>3. pc["rx"] = "idle" /\ pc'["rx"] = "idle"
    BY <1>1, <1>4, <2>1 DEF AddFill, Alone, Goto, TableTypes, Threads
  <2> HIDE DEF x, p
  <2>4. /\ lastIndSeq'[x] = RESET_RCV_SEQ /\ wcidArray'[p] = x /\ top'[p] = -1 /\ got'[p] = {}
        /\ \A e \in Entries \ {x} : lastIndSeq'[e] = lastIndSeq[e]
        /\ \A q \in Stations \ {p} :
             wcidArray'[q] = wcidArray[q] /\ top'[q] = top[q] /\ got'[q] = got[q]
    BY <1>1, <2>1, <2>2 DEF RestTypes, TableTypes
  <2>5. Passed' /\ mishaps' = {}
    BY <1>1, <2>2, <2>4 DEF Passed
  <2>6. ASSUME NEW q \in Stations, NEW e \in Entries, wcidArray'[q] = e
        PROVE  \/ lastIndSeq'[e] = RESET_RCV_SEQ /\ (Changing(e)' \/ top'[q] = -1)
               \/ /\ wcidArray[q] = e /\ ~Changing(e)
                  /\ list'[e] = list[e] /\ lastIndSeq'[e] = lastIndSeq[e] /\ top'[q] = top[q]
    <3>1. CASE q = p
      BY <2>4, <2>6, <3>1
    <3>2. CASE q # p
      <4>1. wcidArray[q] = e /\ e # x
        BY <2>1, <2>4, <2>6, <3>2
      <4> QED BY <2>2, <2>4, <3>2, <4>1 DEF Changing, x
    <3> QED BY <3>1, <3>2
  <2> QED BY <2>2, <2>3, <2>5, <2>6, MlmeFollows
<1> QED BY <1>2, <1>3, <1>4 DEF AddStep

\* the originator, the clock and the other sessions
LEMMA OtherFollows ==
  ASSUME Racing = "no", OnceInv,
         \/ \E p \in Stations : MlmeDelBa(p) \/ MlmeAddBa(p) \/ TxAdvance(p)
         \/ OthersTake \/ OthersGive
         \/ \E e \in Entries : Tick(e)
         \/ UNCHANGED vars
  PROVE  OnceRest'
<1>1. /\ TableTypes /\ RestTypes /\ Passed /\ Sent /\ OnAir /\ Following /\ mishaps = {}
      /\ BAWinSize \in Nat /\ MaxGap \in Nat
  BY OnceParts
<1>2. UNCHANGED <<list, lastIndSeq, wcidArray, heard, top, mishaps>>
  BY DEF MlmeDelBa, MlmeAddBa, TxAdvance, OthersTake, OthersGive, Tick, vars, entryv, table, tx, hist
<1>3. ASSUME NEW p \in Stations, MlmeDelBa(p) \/ MlmeAddBa(p) PROVE OnceRest'
  <2>1. pc["rx"] = "idle" /\ pc["mlme"] = "idle"
    BY <1>3 DEF MlmeDelBa, MlmeAddBa, MayStart, Threads
  <2>2. PICK v \in {"down", "alloc", "restart"} : Start("mlme", p, v)
    BY <1>3 DEF MlmeDelBa, MlmeAddBa
  <2>3. pc'["rx"] = "idle"
    BY <1>1, <2>1, <2>2 DEF Start, TableTypes, Threads
  <2>4. UNCHANGED <<tx, hist>>
    BY <1>3 DEF MlmeDelBa, MlmeAddBa
  <2>5. Passed' /\ mishaps' = {}
    BY <1>1, <2>4 DEF Passed, hist
  <2>6. \A e \in Entries : ~Changing(e)
    BY <2>1 DEF Changing
  <2> QED BY <1>2, <2>1, <2>3, <2>4, <2>5, <2>6, MlmeFollows
<1>4. CASE UNCHANGED thread
  <2>1. Passed' /\ mishaps' = {}
    <3>1. \A q \in Stations : got'[q] \subseteq got[q]
      <4>1. CASE UNCHANGED got
        BY <4>1
      <4>2. ASSUME NEW p \in Stations, TxAdvance(p) PROVE \A q \in Stations : got'[q] \subseteq got[q]
        BY <1>1, <4>2 DEF TxAdvance, Recent, RestTypes
      <4> QED BY <4>1, <4>2, <1>3 DEF OthersTake, OthersGive, Tick, vars, hist, MlmeDelBa, MlmeAddBa
    <3> QED BY <1>1, <1>2, <3>1 DEF Passed
  <2>2. Sent'
    <3>1. CASE UNCHANGED txWin
      BY <1>1, <1>2, <3>1 DEF Sent
    <3>2. ASSUME NEW p \in Stations, TxAdvance(p) PROVE Sent'
      <4>1. /\ txWin[p] \in Int /\ heard[p] \in Int /\ txWin'[p] = txWin[p] + 1
            /\ txWin[p] <= heard[p] + MaxGap
            /\ \A q \in Stations \ {p} : txWin'[q] = txWin[q]
        BY <1>1, <3>2, BoundsAssumption DEF TxAdvance, RestTypes
      <4>2. /\ heard[p] <= txWin'[p] + BAWinSize - 1
            /\ txWin'[p] <= heard[p] + MaxGap + 1
        BY <1>1, <4>1 DEF Sent
      <4> QED BY <1>1, <1>2, <4>1, <4>2 DEF Sent
    <3> QED BY <3>1, <3>2 DEF OthersTake, OthersGive, Tick, vars, tx, MlmeDelBa, MlmeAddBa
  <2>3. OnAir'
    BY <1>1, <1>2, <1>4 DEF thread, OnAir
  <2>4. Following'
    <3>1. \A e \in Entries : Changing(e)' = Changing(e)
      BY <1>4 DEF thread, Changing
    <3>2. \A q \in Stations, e \in Entries : \A m \in Nat : Tracks(q, e, m) => Tracks(q, e, m)'
      BY <1>2 DEF Tracks
    <3>3. \A q \in Stations : \A m \in Nat : Within(q, m) => Within(q, m)'
      BY <1>2, <1>4 DEF thread, Within
    <3> QED BY <1>1, <1>2, <3>1, <3>2, <3>3 DEF Following
  <2> QED BY <2>1, <2>2, <2>3, <2>4 DEF OnceRest
<1> QED BY <1>3, <1>4 DEF TxAdvance, OthersTake, OthersGive, Tick, vars

\* the invariant at the start
LEMMA OnceStart == Init => OnceInv
<1> SUFFICES ASSUME Init PROVE OnceInv
  OBVIOUS
<1>1. OrderInv
  BY OrderStart
<1>2. BAWinSize \in Nat /\ BAWinSize >= 1 /\ MaxGap \in Nat /\ FirstNo \in Nat
  BY SizesAssumption, GapAssumption, BoundsAssumption
<1>3. mishaps = {} /\ Passed /\ OnAir
  BY DEF Init, Passed, OnAir, RxPcs, DownPcs, Undecided, Threads
<1>4. Sent
  <2>1. \A p \in Stations : heard[p] = FirstNo - 1 /\ txWin[p] = FirstNo
    BY DEF Init
  <2>2. FirstNo - 1 <= FirstNo + BAWinSize - 1 /\ FirstNo <= FirstNo - 1 + MaxGap + 1
    BY <1>2
  <2> QED BY <2>1, <2>2 DEF Sent
<1>5. Following
  BY DEF Init, Following, Entries
<1> QED BY <1>1, <1>3, <1>4, <1>5 DEF OnceInv, OnceRest

\* the invariant is inductive when the threads take turns, the pool suffices, no
\* BAR is received and the clock does not reach the 500 ms timeout
LEMMA OnceStep ==
  ASSUME Racing = "no", Sufficient, "bar" \notin Events, MaxAge <= 1
  PROVE  OnceInv /\ [Next]_vars => OnceInv'
<1> SUFFICES ASSUME OnceInv, [Next]_vars PROVE OnceInv'
  OBVIOUS
<1>1. OrderInv'
  BY OrderStep DEF OnceInv
<1>2. OnceRest'
  <2>1. CASE Reception
    BY <2>1, ReceptionFollows DEF Reception
  <2>2. CASE RxStep
    BY <1>1, <2>2, TaskletFollows
  <2>3. ~DownStep("rx")
    BY OnceParts DEF OnAir, DownStep, Down, DownRefresh, DownClear, BATableFreeRecEntry, DownPcs
  <2>4. \A p \in Stations, at \in {"bar", "oldbar"} : ~RxBar(p, at)
    BY DEF RxBar
  <2>5. CASE DownStep("mlme") \/ AddStep
    BY <2>5, DownFollows, AddFollows
  <2> QED BY <2>1, <2>2, <2>3, <2>4, <2>5, OtherFollows DEF Next, Tasklet
<1> QED BY <1>1, <1>2 DEF OnceInv

\* What Indicate_AMPDU_Packet passes up of a session it passes up once, and never
\* after something newer, whatever was lost, sent again, and stepped over after
\* 100 ms: when the threads take turns, the pool suffices, no BAR is received (a
\* BAR sets LastIndSeq back, see AtMostOnce) and the 500 ms timeout is not
\* reached (it forgets LastIndSeq).
THEOREM DeliveredOnceInOrder ==
  ASSUME Racing = "no", Sufficient, "bar" \notin Events, MaxAge <= 1
  PROVE  Spec => []OnceInOrder
<1>1. OnceInv => OnceInOrder
  BY OnceParts DEF OnceInOrder
<1> QED BY <1>1, OnceStart, OnceStep, PTL DEF Spec
=============================================================================
