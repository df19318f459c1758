----------------------------- MODULE AndesProofs -----------------------------
(***************************************************************************)
(* Three results about Andes.tla, for every set of commands.  As long as   *)
(* one command that waits is sent at a time and its time limit strikes     *)
(* alone, the queues stay intact and an answer reaches the command that it *)
(* is meant for.  Without that, no command is lost until a list is         *)
(* destroyed.                                                              *)
(***************************************************************************)
EXTENDS Andes, SequenceLemmas, TLAPS

\* where a sender has a command in hand
Holding == {"have", "seq", "seqread", "queue", "submit"}

In(n, c) == c \in ToSet(q[n])

-----------------------------------------------------------------------------
(* The inductive invariant.                                                 *)

QueueTypes ==
  /\ q \in [Queues -> Seq(Cmd)] /\ pc \in [Cmd -> Pcs]
  /\ hand \in [Cmd -> Cmd \cup {NoCmd}] /\ mem \in [Cmd -> {"none", "live", "freed"}]

\* a sender has a command in hand exactly at these places
Hands == \A c \in Cmd : /\ pc[c] \in Holding => hand[c] \in Cmd
                        /\ pc[c] \notin Holding => hand[c] = NoCmd

\* a command exists only when AndesSendCmdMsg has made it
Made == \A c \in Cmd : Alive(c) => pc[c] # "none"

\* who waits for an answer takes its command to the tasklet
Awaited == \A c \in Waiting : Alive(c) => InFlight(c) \/ In("tx_doneq", c)

Handed(c) == In("kickq", c) \/ In("tx_doneq", c)

\* who does not wait leaves it to the queues, or to the sender who dequeued it
PostedKept == \A c \in Posted : Alive(c) => In("txq", c) \/ Handed(c) \/ Held(c)

\* before a posted command is submitted it is in kickq
Submitted == \A c \in Cmd : pc[c] = "submit" /\ hand[c] \in Posted /\ Alive(hand[c])
                              => Handed(hand[c])

\* what is in txq or in a hand has been sent by someone
Started == \A c \in Cmd : In("txq", c) \/ Held(c) => pc[c] # "none"

KeptInv == /\ QueueTypes /\ Hands /\ Made /\ Started
           /\ Awaited /\ PostedKept /\ Submitted

LEMMA KeptMeansNoneLost == KeptInv => NoneLost
<1> SUFFICES ASSUME KeptInv, NEW c \in Cmd, Alive(c)
             PROVE  InFlight(c) \/ Queued(c) \/ Held(c)
  BY DEF NoneLost
<1>1. ASSUME NEW n \in Queues, In(n, c) PROVE Queued(c)
  <2>1. q[n] \in Seq(Cmd)
    BY DEF KeptInv, QueueTypes
  <2>2. PICK i \in 1..Len(q[n]) : q[n][i] = c
    BY <1>1, <2>1 DEF In, ToSet
  <2> QED BY <2>2 DEF Queued, Contains
<1> QED BY <1>1 DEF KeptInv, Awaited, PostedKept, Handed, Queues, Cmd

-----------------------------------------------------------------------------
(* What the queue operations keep.                                          *)

\* what was with the tasklet, and what was in kickq, stays in one of them
HandedKept == \A c \in Cmd : /\ In("tx_doneq", c) => In("tx_doneq", c)'
                             /\ Handed(c) => Handed(c)'

LEMMA Appended ==
  ASSUME QueueTypes, NEW n \in Queues \ {"txq"}, NEW c \in Cmd, QueueTail(n, c)
  PROVE  /\ q' \in [Queues -> Seq(Cmd)] /\ HandedKept /\ In(n, c)'
         /\ q'["txq"] = q["txq"]
<1>1. q[n] \in Seq(Cmd) /\ q' = [q EXCEPT ![n] = Append(q[n], c)]
  BY DEF QueueTypes, QueueTail
<1>2. /\ Append(q[n], c) \in Seq(Cmd)
      /\ ToSet(Append(q[n], c)) = ToSet(q[n]) \cup {c}
  BY <1>1, Ends
<1> QED BY <1>1, <1>2 DEF QueueTypes, HandedKept, Handed, In, Queues

LEMMA Unlinked ==
  ASSUME QueueTypes, NEW c \in Cmd, Unlink("ackq", c)
  PROVE  /\ q' \in [Queues -> Seq(Cmd)] /\ HandedKept
         /\ q'["txq"] = q["txq"]
<1>1. q["ackq"] \in Seq(Cmd) /\ q' = [q EXCEPT !["ackq"] = RemoveFirst(q["ackq"], c)]
  BY DEF QueueTypes, Unlink, Queues
<1>2. RemoveFirst(q["ackq"], c) \in Seq(Cmd)
  BY <1>1, RemoveFirstKeeps
<1> QED BY <1>1, <1>2 DEF QueueTypes, HandedKept, Handed, In, Queues

LEMMA Moved ==
  ASSUME QueueTypes, NEW c \in Cmd, Move("kickq", "tx_doneq", c)
  PROVE  /\ q' \in [Queues -> Seq(Cmd)] /\ HandedKept /\ In("tx_doneq", c)'
         /\ q'["txq"] = q["txq"]
<1>1. /\ q["kickq"] \in Seq(Cmd) /\ q["tx_doneq"] \in Seq(Cmd)
      /\ q' = [q EXCEPT !["kickq"] = RemoveFirst(q["kickq"], c),
                        !["tx_doneq"] = Append(q["tx_doneq"], c)]
  BY DEF QueueTypes, Move, Queues
<1>2. /\ RemoveFirst(q["kickq"], c) \in Seq(Cmd)
      /\ \A x \in ToSet(q["kickq"]) : x # c => x \in ToSet(RemoveFirst(q["kickq"], c))
  BY <1>1, RemoveFirstKeeps
<1>3. /\ Append(q["tx_doneq"], c) \in Seq(Cmd)
      /\ ToSet(Append(q["tx_doneq"], c)) = ToSet(q["tx_doneq"]) \cup {c}
  BY <1>1, Ends
<1>4. /\ q' \in [Queues -> Seq(Cmd)] /\ q'["txq"] = q["txq"]
      /\ q'["kickq"] = RemoveFirst(q["kickq"], c)
      /\ q'["tx_doneq"] = Append(q["tx_doneq"], c)
  BY <1>1, <1>2, <1>3 DEF QueueTypes, Queues
<1>5. /\ \A d \in Cmd : In("kickq", d) /\ d # c => In("kickq", d)'
      /\ \A d \in Cmd : In("tx_doneq", d) \/ d = c => In("tx_doneq", d)'
  BY <1>2, <1>3, <1>4 DEF In
<1> QED BY <1>4, <1>5 DEF HandedKept, Handed, In

\* a failed URB moves a posted command to the tasklet
LEMMA Failed ==
  ASSUME QueueTypes, NEW c \in Cmd, KickOutFails(c)
  PROVE  /\ q' \in [Queues -> Seq(Cmd)] /\ HandedKept /\ q'["txq"] = q["txq"]
         /\ c \in Posted => In("tx_doneq", c)'
<1>1. CASE c \in Waiting
  <2>1. Unlink("ackq", c) /\ c \notin Posted
    BY <1>1, CommandsAssumption DEF KickOutFails
  <2> QED BY <2>1, Unlinked
<1>2. CASE c \notin Waiting
  BY <1>2, Moved DEF KickOutFails
<1> QED BY <1>1, <1>2

\* A step outside the loop of a sender: it may move the sender of one command that
\* waits, to its next place or, with the command for the tasklet, to its end
LEMMA OutsideKeeps ==
  ASSUME KeptInv, q' \in [Queues -> Seq(Cmd)], HandedKept, hand' = hand, mem' = mem,
         q'["txq"] = q["txq"], pc' \in [Cmd -> Pcs],
         \A d \in Cmd : pc'[d] # pc[d] =>
           /\ pc[d] \in WaitPcs /\ pc'[d] \in WaitPcs \cup {"end"}
           /\ pc'[d] = "end" => In("tx_doneq", d)'
  PROVE  KeptInv'
<1>1. /\ QueueTypes /\ Hands /\ Made /\ Started /\ Awaited /\ PostedKept /\ Submitted
  BY DEF KeptInv
<1>2. QueueTypes'
  BY <1>1 DEF QueueTypes
<1>3. \A d \in Cmd : pc'[d] \in Holding => pc'[d] = pc[d]
  BY DEF Holding, WaitPcs
<1>4. \A d \in Cmd : pc[d] \in Holding => pc'[d] = pc[d]
  BY DEF Holding, WaitPcs
<1>5. Hands'
  BY <1>1, <1>3, <1>4 DEF Hands
<1>6. Made'
  BY <1>1 DEF Made, Alive, WaitPcs
<1>7. Started'
  BY <1>1 DEF Started, In, Held, WaitPcs
<1>8. Awaited' /\ PostedKept'
  <2>1. Awaited'
    BY <1>1 DEF Awaited, Alive, InFlight, HandedKept, WaitPcs, Cmd
  <2>2. PostedKept'
    BY <1>1 DEF PostedKept, Alive, Held, HandedKept, In, Cmd
  <2> QED BY <2>1, <2>2
<1>9. Submitted'
  BY <1>1, <1>3, CommandsAssumption DEF Submitted, Alive, HandedKept, Holding, Cmd
<1> QED BY <1>2, <1>5, <1>6, <1>7, <1>8, <1>9 DEF KeptInv

\* A step of a sender that has started: the command it gave away, and those of
\* txq, are in a queue or in its hand afterwards
LEMMA SenderKeeps ==
  ASSUME KeptInv, NEW c \in Cmd, NEW v \in Pcs, pc' = [pc EXCEPT ![c] = v],
         pc[c] # "none", v # "none", v = "end" => c \in Posted,
         QueueTypes', HandedKept, \A d \in Cmd : Alive(d)' => Alive(d),
         \A d \in Cmd \ {c} : hand'[d] = hand[d],
         v \in Holding => hand'[c] \in Cmd, v \notin Holding => hand'[c] = NoCmd,
         \A d \in Posted : Alive(d)' /\ (In("txq", d) \/ hand[c] = d) =>
           In("txq", d)' \/ Handed(d)' \/ hand'[c] = d,
         \A d \in Cmd : In("txq", d)' \/ hand'[c] = d => In("txq", d) \/ hand[c] = d,
         v = "submit" /\ hand'[c] \in Posted => Handed(hand[c])'
  PROVE  KeptInv'
<1>1. /\ QueueTypes /\ Hands /\ Made /\ Started /\ Awaited /\ PostedKept /\ Submitted
      /\ pc'[c] = v /\ \A d \in Cmd \ {c} : pc'[d] = pc[d]
  BY DEF KeptInv, QueueTypes
<1>2. Hands'
  <2> SUFFICES ASSUME NEW d \in Cmd
               PROVE  /\ pc'[d] \in Holding => hand'[d] \in Cmd
                      /\ pc'[d] \notin Holding => hand'[d] = NoCmd
    BY DEF Hands
  <2>1. CASE d = c
    BY <1>1, <2>1
  <2>2. CASE d # c
    BY <1>1, <2>2 DEF Hands
  <2> QED BY <2>1, <2>2
<1>3. Made'
  <2> SUFFICES ASSUME NEW d \in Cmd, Alive(d)' PROVE pc'[d] # "none"
    BY DEF Made
  <2> QED BY <1>1 DEF Made
<1>4. Started'
  <2> SUFFICES ASSUME NEW d \in Cmd, In("txq", d)' \/ Held(d)' PROVE pc'[d] # "none"
    BY DEF Started
  <2>1. In("txq", d) \/ Held(d)
    <3>1. CASE In("txq", d)' \/ hand'[c] = d
      BY <3>1 DEF Held
    <3>2. CASE \E u \in Cmd \ {c} : hand'[u] = d
      BY <3>2 DEF Held
    <3> QED BY <3>1, <3>2 DEF Held
  <2> QED BY <1>1, <2>1 DEF Started
<1>5. Awaited'
  <2> SUFFICES ASSUME NEW d \in Waiting, Alive(d)' PROVE InFlight(d)' \/ In("tx_doneq", d)'
    BY DEF Awaited
  <2>1. d \in Cmd /\ d \notin Posted /\ (InFlight(d) \/ In("tx_doneq", d))
    BY <1>1, CommandsAssumption DEF Awaited, Cmd
  <2>2. InFlight(d) => InFlight(d)'
    BY <1>1, <2>1 DEF InFlight
  <2> QED BY <2>1, <2>2 DEF HandedKept
<1>6. PostedKept'
  <2> SUFFICES ASSUME NEW d \in Posted, Alive(d)'
               PROVE  In("txq", d)' \/ Handed(d)' \/ Held(d)'
    BY DEF PostedKept
  <2>1. d \in Cmd /\ (In("txq", d) \/ Handed(d) \/ Held(d))
    BY <1>1 DEF PostedKept, Cmd
  <2>2. CASE In("txq", d) \/ hand[c] = d
    BY <2>2 DEF Held
  <2>3. CASE Handed(d)
    BY <2>1, <2>3 DEF HandedKept
  <2>4. CASE Held(d) /\ hand[c] # d
    <3>1. PICK u \in Cmd \ {c} : hand[u] = d
      BY <2>4 DEF Held
    <3> QED BY <3>1 DEF Held
  <2> QED BY <2>1, <2>2, <2>3, <2>4
<1>7. Submitted'
  <2> SUFFICES ASSUME NEW d \in Cmd, pc'[d] = "submit", hand'[d] \in Posted, Alive(hand[d])'
               PROVE  Handed(hand[d])'
    BY DEF Submitted
  <2>1. CASE d = c
    BY <1>1, <2>1
  <2>2. CASE d # c
    <3>1. hand[d] \in Cmd /\ Handed(hand[d]) /\ hand'[d] = hand[d]
      BY <1>1, <2>2 DEF Submitted, Cmd
    <3> QED BY <3>1 DEF HandedKept, Handed, In
  <2> QED BY <2>1, <2>2
<1> QED BY <1>2, <1>3, <1>5, <1>6, <1>7, <1>4 DEF KeptInv

-----------------------------------------------------------------------------
(* The steps of a sender.                                                   *)

LEMMA SendKeeps == ASSUME KeptInv, NEW c \in Cmd, Send(c) PROVE KeptInv'
<1>1. /\ QueueTypes /\ Hands /\ Made /\ Started /\ Awaited /\ PostedKept /\ Submitted
      /\ pc[c] = "none" /\ ~Alive(c) /\ hand' = hand /\ hand[c] = NoCmd
  BY DEF KeptInv, Send, Made, Hands, Holding
<1>2. PICK v \in {"loop", "end"} :
        /\ pc' = [pc EXCEPT ![c] = v]
        /\ v = "loop" => /\ mem' = [mem EXCEPT ![c] = "live"]
                         /\ q' = [q EXCEPT !["txq"] = Append(q["txq"], c)]
        /\ v = "end" => mem' = [mem EXCEPT ![c] = "freed"] /\ q' = q
  BY DEF Send, Goto
<1>3. /\ Append(q["txq"], c) \in Seq(Cmd) /\ q["txq"] \in Seq(Cmd)
      /\ ToSet(Append(q["txq"], c)) = ToSet(q["txq"]) \cup {c}
  BY <1>1, Ends DEF QueueTypes, Queues
<1>4. /\ QueueTypes' /\ pc'[c] = v /\ \A d \in Cmd \ {c} : pc'[d] = pc[d]
      /\ \A d \in Cmd \ {c} : mem'[d] = mem[d]
      /\ v = "end" => mem'[c] = "freed"
  <2>1. CASE v = "loop"
    BY ZenonT(30), <1>1, <1>2, <1>3, <2>1 DEF QueueTypes, Queues, Pcs
  <2>2. CASE v = "end"
    BY <1>1, <1>2, <2>2 DEF QueueTypes, Pcs
  <2> QED BY <1>2, <2>1, <2>2
<1>5. /\ HandedKept /\ \A d \in Cmd : In("txq", d) => In("txq", d)'
      /\ v = "loop" => In("txq", c)'
  BY <1>1, <1>2, <1>3 DEF QueueTypes, Queues, HandedKept, Handed, In
<1>6. Hands'
  BY <1>1, <1>2, <1>4 DEF Hands, Holding
<1>7. Made' /\ Started'
  <2>1. Made'
    BY <1>1, <1>2, <1>4 DEF Made, Alive
  <2>2. \A d \in Cmd \ {c} : In("txq", d)' => In("txq", d)
    BY <1>1, <1>2, <1>3 DEF QueueTypes, Queues, In
  <2>3. Started'
    BY <1>1, <1>2, <1>4, <2>2 DEF Started, Held
  <2> QED BY <2>1, <2>3
<1>8. Awaited'
  BY <1>1, <1>2, <1>4, <1>5 DEF Awaited, Alive, InFlight, HandedKept, Cmd
<1>9. PostedKept'
  BY <1>1, <1>2, <1>4, <1>5 DEF PostedKept, Alive, Held, HandedKept, Cmd
<1>10. Submitted'
  <2> SUFFICES ASSUME NEW d \in Cmd, pc'[d] = "submit", hand[d] \in Posted,
                      Alive(hand[d])'
               PROVE  Handed(hand[d])'
    BY <1>1 DEF Submitted
  <2>1. d # c /\ pc[d] = "submit" /\ hand[d] \in Cmd
    BY <1>2, <1>4 DEF Cmd
  <2>2. hand[d] # c
    BY <1>1 DEF Started, Held
  <2> QED BY <1>1, <1>4, <1>5, <2>1, <2>2 DEF Submitted, Alive, HandedKept
<1> QED BY <1>4, <1>6, <1>7, <1>8, <1>9, <1>10 DEF KeptInv

LEMMA DequeueKeeps == ASSUME KeptInv, NEW c \in Cmd, Dequeue(c) PROVE KeptInv'
<1>1. /\ QueueTypes /\ pc[c] = "loop" /\ hand[c] = NoCmd /\ mem' = mem
      /\ q["txq"] \in Seq(Cmd)
  BY DEF KeptInv, Hands, Holding, Dequeue, msg, QueueTypes, Queues
<1>2. CASE q["txq"] = <<>>
  <2>1. PICK v \in {"wait", "end"} : /\ pc' = [pc EXCEPT ![c] = v]
                                     /\ v = "end" => c \in Posted
    BY <1>2 DEF Dequeue, Leave, Goto, Cmd
  <2>2. hand' = hand /\ q' = q /\ v \in Pcs /\ v \notin Holding
    BY <1>2 DEF Dequeue, Pcs, WaitPcs, Holding
  <2>3. QueueTypes' /\ HandedKept
    BY <1>1, <2>1, <2>2 DEF QueueTypes, HandedKept, Handed, In
  <2>4. \A d \in Cmd : (Alive(d)' => Alive(d)) /\ (In("txq", d)' <=> In("txq", d))
    BY <1>1, <2>2 DEF Alive, In
  <2> QED BY <1>1, <2>1, <2>2, <2>3, <2>4, SenderKeeps DEF Cmd, Holding
<1>3. CASE q["txq"] # <<>>
  <2> DEFINE h == Head(q["txq"])
  <2>1. /\ pc' = [pc EXCEPT ![c] = "have"] /\ hand' = [hand EXCEPT ![c] = h]
        /\ q' = [q EXCEPT !["txq"] = Tail(q["txq"])]
    BY <1>3 DEF Dequeue, Goto
  <2>2. /\ h \in Cmd /\ Tail(q["txq"]) \in Seq(Cmd) /\ h \in ToSet(q["txq"])
        /\ ToSet(Tail(q["txq"])) \subseteq ToSet(q["txq"])
        /\ \A x \in ToSet(q["txq"]) : x # h => x \in ToSet(Tail(q["txq"]))
    BY <1>1, <1>3, Ends, Tails
  <2> HIDE DEF h
  <2>3. /\ QueueTypes' /\ HandedKept /\ hand'[c] = h
        /\ \A d \in Cmd \ {c} : hand'[d] = hand[d]
    BY <1>1, <2>1, <2>2 DEF QueueTypes, HandedKept, Handed, In, Queues, Pcs
  <2>4. /\ \A d \in Cmd : (Alive(d)' => Alive(d)) /\ (In("txq", d)' => In("txq", d))
        /\ In("txq", h) /\ \A d \in Cmd : d # h => (In("txq", d) => In("txq", d)')
    BY <1>1, <2>1, <2>2 DEF Alive, In, QueueTypes, Queues
  <2>5. NoCmd \notin Cmd /\ "have" \in Holding /\ "have" \in Pcs /\ Posted \subseteq Cmd
    BY CommandsAssumption DEF Holding, Pcs, Cmd
  <2>6. \A d \in Posted : Alive(d)' /\ (In("txq", d) \/ hand[c] = d) =>
          In("txq", d)' \/ Handed(d)' \/ hand'[c] = d
    BY <1>1, <2>3, <2>4, <2>5
  <2>7. \A d \in Cmd : In("txq", d)' \/ hand'[c] = d => In("txq", d) \/ hand[c] = d
    BY <2>3, <2>4
  <2>8. pc' = [pc EXCEPT ![c] = "have"] /\ pc[c] # "none" /\ hand'[c] \in Cmd
    BY <1>1, <2>1, <2>2, <2>3
  <2>9. \A d \in Cmd : Alive(d)' => Alive(d)
    BY <2>4
  <2> QED BY <2>3, <2>5, <2>6, <2>7, <2>8, <2>9, SenderKeeps
<1> QED BY <1>2, <1>3

LEMMA DropKeeps == ASSUME KeptInv, NEW c \in Cmd, Drop(c) PROVE KeptInv'
<1> DEFINE m == hand[c]
<1>1. /\ QueueTypes /\ pc[c] = "have" /\ m \in Cmd /\ q' = q
      /\ pc' = [pc EXCEPT ![c] = "loop"] /\ hand' = [hand EXCEPT ![c] = NoCmd]
      /\ mem' = [mem EXCEPT ![m] = IF m \in Posted THEN "freed" ELSE mem[m]]
  BY DEF KeptInv, Hands, Holding, Drop, Goto, ctl
<1> HIDE DEF m
<1>2. /\ QueueTypes' /\ HandedKept /\ hand'[c] = NoCmd
      /\ \A d \in Cmd \ {c} : hand'[d] = hand[d]
  BY <1>1 DEF QueueTypes, HandedKept, Handed, In, Pcs
<1>3. \A d \in Cmd : /\ Alive(d)' => Alive(d)
                     /\ In("txq", d)' <=> In("txq", d)
                     /\ d = m /\ d \in Posted => ~Alive(d)'
  BY <1>1 DEF Alive, In, QueueTypes
<1>4. NoCmd \notin Cmd /\ "loop" \notin Holding /\ "loop" \in Pcs /\ Posted \subseteq Cmd
  BY CommandsAssumption DEF Holding, Pcs, Cmd
<1>5. \A d \in Posted : Alive(d)' /\ (In("txq", d) \/ hand[c] = d) =>
        In("txq", d)' \/ Handed(d)' \/ hand'[c] = d
  BY <1>3, <1>4 DEF m
<1>6. \A d \in Cmd : In("txq", d)' \/ hand'[c] = d => In("txq", d) \/ hand[c] = d
  BY <1>2, <1>3, <1>4
<1> QED BY <1>1, <1>2, <1>3, <1>4, <1>5, <1>6, SenderKeeps

LEMMA RequeueKeeps == ASSUME KeptInv, NEW c \in Cmd, Requeue(c) PROVE KeptInv'
<1> DEFINE m == hand[c]
<1>1. /\ QueueTypes /\ pc[c] = "have" /\ m \in Cmd /\ q["txq"] \in Seq(Cmd) /\ mem' = mem
      /\ pc' = [pc EXCEPT ![c] = "loop"] /\ hand' = [hand EXCEPT ![c] = NoCmd]
      /\ q' = [q EXCEPT !["txq"] = <<m>> \o q["txq"]]
  BY DEF KeptInv, Hands, Holding, Requeue, Goto, msg, QueueTypes, Queues
<1>2. /\ <<m>> \o q["txq"] \in Seq(Cmd)
      /\ ToSet(<<m>> \o q["txq"]) = ToSet(q["txq"]) \cup {m}
  BY <1>1, Prepended
<1> HIDE DEF m
<1>3. /\ QueueTypes' /\ HandedKept /\ hand'[c] = NoCmd
      /\ \A d \in Cmd \ {c} : hand'[d] = hand[d]
  BY <1>1, <1>2 DEF QueueTypes, HandedKept, Handed, In, Pcs, Queues
<1>4. \A d \in Cmd : /\ Alive(d)' => Alive(d)
                     /\ In("txq", d)' <=> In("txq", d) \/ d = m
  BY <1>1, <1>2 DEF Alive, In, QueueTypes, Queues
<1>5. NoCmd \notin Cmd /\ "loop" \notin Holding /\ "loop" \in Pcs /\ Posted \subseteq Cmd
  BY CommandsAssumption DEF Holding, Pcs, Cmd
<1>6. \A d \in Posted : Alive(d)' /\ (In("txq", d) \/ hand[c] = d) =>
        In("txq", d)' \/ Handed(d)' \/ hand'[c] = d
  BY <1>4, <1>5 DEF m
<1>7. \A d \in Cmd : In("txq", d)' \/ hand'[c] = d => In("txq", d) \/ hand[c] = d
  BY <1>3, <1>4, <1>5 DEF m
<1> QED BY <1>1, <1>3, <1>4, <1>5, <1>6, <1>7, SenderKeeps

LEMMA AcceptKeeps ==
  ASSUME KeptInv, NEW c \in Cmd, Accept(c) \/ AndesGetCmdMsgSeq(c) \/ ReadSeq(c)
  PROVE  KeptInv'
<1>1. PICK v \in {"seq", "seqread", "queue"} : pc' = [pc EXCEPT ![c] = v]
  BY DEF Accept, AndesGetCmdMsgSeq, ReadSeq, Goto
<1>2. /\ QueueTypes /\ pc[c] \in Holding /\ hand[c] \in Cmd
      /\ q' = q /\ mem' = mem /\ hand' = hand
  BY DEF KeptInv, Hands, Holding, Accept, AndesGetCmdMsgSeq, ReadSeq, msg, ctl
<1>3. v \in Holding /\ v \in Pcs /\ Posted \subseteq Cmd
  BY DEF Holding, Pcs, Cmd
<1>4. QueueTypes' /\ HandedKept
  BY <1>1, <1>2, <1>3 DEF QueueTypes, HandedKept, Handed, In
<1>5. \A d \in Cmd : (Alive(d)' => Alive(d)) /\ (In("txq", d)' <=> In("txq", d))
  BY <1>2 DEF Alive, In
<1>6. pc[c] # "none"
  BY <1>2 DEF Holding
<1> QED BY <1>1, <1>2, <1>3, <1>4, <1>5, <1>6, SenderKeeps

LEMMA KickOutKeeps == ASSUME KeptInv, NEW c \in Cmd, KickOut(c) PROVE KeptInv'
<1>0. PICK m \in Cmd : m = hand[c]
  BY DEF KeptInv, Hands, Holding, KickOut
<1>1. /\ QueueTypes /\ pc[c] = "queue" /\ hand' = hand /\ mem' = mem
      /\ pc' = [pc EXCEPT ![c] = "submit"]
      /\ \/ m \in Waiting /\ QueueTail("ackq", m)
         \/ m \notin Waiting /\ QueueTail("kickq", m)
  BY <1>0 DEF KeptInv, KickOut, Goto
<1>2. /\ q' \in [Queues -> Seq(Cmd)] /\ HandedKept /\ q'["txq"] = q["txq"]
      /\ m \in Posted => In("kickq", m)'
  <2>1. CASE m \in Waiting /\ QueueTail("ackq", m)
    BY <1>1, <2>1, Appended, CommandsAssumption DEF Queues
  <2>2. CASE m \notin Waiting /\ QueueTail("kickq", m)
    BY <1>1, <2>2, Appended DEF Queues
  <2> QED BY <1>1, <2>1, <2>2
<1>3. QueueTypes'
  BY <1>1, <1>2 DEF QueueTypes, Pcs
<1>4. \A d \in Cmd : (Alive(d)' => Alive(d)) /\ (In("txq", d)' <=> In("txq", d))
  BY <1>1, <1>2 DEF Alive, In
<1>5. "submit" \in Holding /\ "submit" \in Pcs /\ Posted \subseteq Cmd
  BY DEF Holding, Pcs, Cmd
<1>6. hand'[c] \in Posted => Handed(hand[c])'
  <2>1. m \in Posted => Handed(m)'
    BY <1>2 DEF Handed
  <2> QED BY <1>0, <1>1, <2>1 DEF Handed, In
<1>7. hand'[c] \in Cmd
  BY <1>0, <1>1
<1> QED BY <1>1, <1>2, <1>3, <1>4, <1>5, <1>6, <1>7, SenderKeeps

LEMMA SubmitKeeps == ASSUME KeptInv, NEW c \in Cmd, Submit(c) \/ SubmitFails(c) PROVE KeptInv'
<1>0. PICK m \in Cmd : m = hand[c]
  BY DEF KeptInv, Hands, Holding, Submit, SubmitFails
<1>1. /\ QueueTypes /\ pc[c] = "submit"
      /\ hand' = [hand EXCEPT ![c] = NoCmd] /\ mem' = mem
      /\ m \in Posted /\ Alive(m) => Handed(m)
  BY <1>0 DEF KeptInv, Submit, SubmitFails, Submitted
<1>2. PICK v \in {"loop", "wait", "end"} : /\ pc' = [pc EXCEPT ![c] = v]
                                           /\ v = "end" => c \in Posted
  BY DEF Submit, SubmitFails, Leave, Goto, Cmd
<1>3. /\ q' \in [Queues -> Seq(Cmd)] /\ HandedKept /\ q'["txq"] = q["txq"]
      /\ m \in Posted /\ Alive(m) => Handed(m)'
  <2>1. CASE Submit(c)
    <3>1. q' = q
      BY <2>1 DEF Submit, ctl
    <3> QED BY <1>1, <3>1 DEF QueueTypes, HandedKept, Handed, In
  <2>2. CASE SubmitFails(c)
    <3>1. KickOutFails(m)
      BY <1>0, <2>2 DEF SubmitFails
    <3> QED BY <1>1, <3>1, Failed DEF Handed
  <2> QED BY <2>1, <2>2
<1>4. v \notin Holding /\ v \in Pcs /\ v # "none" /\ Posted \subseteq Cmd /\ NoCmd \notin Cmd
  BY CommandsAssumption DEF Holding, Pcs, WaitPcs, Cmd
<1>5. /\ QueueTypes' /\ hand'[c] = NoCmd /\ \A d \in Cmd \ {c} : hand'[d] = hand[d]
  BY <1>1, <1>2, <1>3, <1>4 DEF QueueTypes
<1>6. \A d \in Cmd : (Alive(d)' => Alive(d)) /\ (In("txq", d)' <=> In("txq", d))
  BY <1>1, <1>3 DEF Alive, In
<1>7. \A d \in Posted : Alive(d)' /\ (In("txq", d) \/ hand[c] = d) =>
        In("txq", d)' \/ Handed(d)' \/ hand'[c] = d
  BY <1>0, <1>3, <1>4, <1>6
<1>8. \A d \in Cmd : In("txq", d)' \/ hand'[c] = d => In("txq", d) \/ hand[c] = d
  BY <1>4, <1>5, <1>6
<1>9. pc[c] # "none" /\ v # "submit"
  BY <1>1, <1>2
<1> QED BY <1>2, <1>3, <1>4, <1>5, <1>6, <1>7, <1>8, <1>9, SenderKeeps

LEMMA KickKeeps == ASSUME KeptInv, NEW c \in Cmd, Kick(c) PROVE KeptInv'
BY DequeueKeeps, DropKeeps, RequeueKeeps, AcceptKeeps, KickOutKeeps, SubmitKeeps
   DEF Kick

LEMMA WaitKeeps == ASSUME KeptInv, NEW c \in Cmd, Wait(c) PROVE KeptInv'
<1>1. QueueTypes
  BY DEF KeptInv
<1>2. /\ pc[c] \in WaitPcs /\ hand' = hand /\ mem' = mem
      /\ \E v \in WaitPcs \cup {"end"} :
           pc' = [pc EXCEPT ![c] = v] /\ (v = "end" => QueueTail("tx_doneq", c))
  BY DEF Wait, Woken, TimedOut, KillUrb, GiveUp, Finish, Goto, WaitPcs, msg
<1>3. /\ pc' \in [Cmd -> Pcs] /\ \A d \in Cmd : pc'[d] # pc[d] => d = c
      /\ pc'[c] \in WaitPcs \cup {"end"}
      /\ pc'[c] = "end" => QueueTail("tx_doneq", c)
  BY <1>1, <1>2 DEF QueueTypes, Pcs
<1>4. \/ q' = q \/ KickOutFails(c) \/ Unlink("ackq", c) \/ QueueTail("tx_doneq", c)
  BY DEF Wait, Woken, TimedOut, KillUrb, GiveUp, Finish, ctl
<1>5. /\ q' \in [Queues -> Seq(Cmd)] /\ HandedKept /\ q'["txq"] = q["txq"]
      /\ pc'[c] = "end" => In("tx_doneq", c)'
  <2>1. CASE q' = q /\ ~QueueTail("tx_doneq", c)
    BY <1>1, <1>3, <2>1 DEF QueueTypes, HandedKept, Handed, In
  <2>2. CASE KickOutFails(c) /\ ~QueueTail("tx_doneq", c)
    <3>1. pc'[c] # "end"
      BY <1>3, <2>2
    <3> QED BY <1>1, <2>2, <3>1, Failed
  <2>3. CASE Unlink("ackq", c) /\ ~QueueTail("tx_doneq", c)
    BY <1>1, <1>3, <2>3, Unlinked
  <2>4. CASE QueueTail("tx_doneq", c)
    BY <1>1, <2>4, Appended DEF Queues
  <2> QED BY <1>4, <2>1, <2>2, <2>3, <2>4
<1> QED BY <1>2, <1>3, <1>5, OutsideKeeps

-----------------------------------------------------------------------------
(* The other steps.                                                         *)

LEMMA UrbKeeps == ASSUME KeptInv, NEW c \in Cmd, UrbDone(c) PROVE KeptInv'
<1>1. QueueTypes /\ hand' = hand /\ pc' = pc /\ mem' = mem
  BY DEF KeptInv, UrbDone, thread
<1>2. q' = q \/ KickOutFails(c) \/ Move("kickq", "tx_doneq", c)
  BY DEF UrbDone, Mishap
<1>3. q' \in [Queues -> Seq(Cmd)] /\ HandedKept /\ q'["txq"] = q["txq"]
  <2>1. CASE q' = q
    BY <1>1, <2>1 DEF QueueTypes, HandedKept, Handed, In
  <2>2. CASE KickOutFails(c)
    BY <1>1, <2>2, Failed
  <2>3. CASE Move("kickq", "tx_doneq", c)
    BY <1>1, <2>3, Moved
  <2> QED BY <1>2, <2>1, <2>2, <2>3
<1> QED BY <1>1, <1>3, OutsideKeeps DEF QueueTypes

LEMMA RxKeeps == ASSUME KeptInv, NEW c \in Cmd, RxEvent(c) PROVE KeptInv'
<1>1. QueueTypes /\ hand' = hand /\ pc' = pc /\ mem' = mem /\ q["ackq"] \in Seq(Cmd)
  BY DEF KeptInv, RxEvent, thread, msg, QueueTypes, Queues
<1>2. q' = q \/ \E m : q' = [q EXCEPT !["ackq"] = RemoveFirst(q["ackq"], m)]
  BY DEF RxEvent
<1>3. q' \in [Queues -> Seq(Cmd)] /\ HandedKept /\ q'["txq"] = q["txq"]
  <2>1. CASE q' = q
    BY <1>1, <2>1 DEF QueueTypes, HandedKept, Handed, In
  <2>2. ASSUME NEW m, q' = [q EXCEPT !["ackq"] = RemoveFirst(q["ackq"], m)]
        PROVE  q' \in [Queues -> Seq(Cmd)] /\ HandedKept /\ q'["txq"] = q["txq"]
    <3>1. RemoveFirst(q["ackq"], m) \in Seq(Cmd)
      BY <1>1, RemoveFirstKeeps
    <3> QED BY <1>1, <2>2, <3>1 DEF QueueTypes, HandedKept, Handed, In, Queues
  <2> QED BY <1>2, <2>1, <2>2
<1> QED BY <1>1, <1>3, OutsideKeeps DEF QueueTypes

\* what the tasklet takes from its queue it frees
LEMMA BhKeeps == ASSUME KeptInv, AndesCmdMsgBh PROVE KeptInv'
<1> DEFINE h == Head(q["tx_doneq"])
<1>1. /\ QueueTypes /\ Hands /\ Made /\ Started /\ Awaited /\ PostedKept /\ Submitted
      /\ q["tx_doneq"] \in Seq(Cmd) /\ q["tx_doneq"] # <<>>
      /\ q' = [q EXCEPT !["tx_doneq"] = Tail(q["tx_doneq"])]
      /\ mem' = [mem EXCEPT ![h] = "freed"] /\ pc' = pc /\ hand' = hand
  BY DEF KeptInv, AndesCmdMsgBh, thread, QueueTypes, Queues
<1>2. /\ h \in Cmd /\ Tail(q["tx_doneq"]) \in Seq(Cmd)
      /\ \A x \in ToSet(q["tx_doneq"]) : x # h => x \in ToSet(Tail(q["tx_doneq"]))
  BY <1>1, Ends, Tails
<1>3. PICK m \in Cmd : m = h
  BY <1>2
<1> HIDE DEF h
<1>4. /\ QueueTypes' /\ \A d \in Cmd : Alive(d)' => Alive(d) /\ d # m
      /\ \A d \in Cmd : In("tx_doneq", d) /\ d # m => In("tx_doneq", d)'
      /\ \A d \in Cmd : In("kickq", d)' = In("kickq", d)
      /\ \A d \in Cmd : In("txq", d)' = In("txq", d)
  BY <1>1, <1>2, <1>3 DEF QueueTypes, Queues, Alive, In
<1>5. Hands' /\ Made' /\ Started'
  BY <1>1, <1>4 DEF Hands, Made, Started, Held
<1>6. Awaited'
  BY <1>1, <1>4 DEF Awaited, InFlight, Cmd
<1>7. PostedKept'
  BY <1>1, <1>4 DEF PostedKept, Handed, Held, Cmd
<1>8. Submitted'
  <2> SUFFICES ASSUME NEW d \in Cmd, pc[d] = "submit", hand[d] \in Posted, Alive(hand[d])'
               PROVE  Handed(hand[d])'
    BY <1>1 DEF Submitted
  <2>1. PICK e \in Cmd : e = hand[d]
    BY DEF Cmd
  <2>2. Alive(e)'
    BY <1>1, <2>1 DEF Alive
  <2>3. Handed(e)'
    BY <1>1, <1>4, <2>1, <2>2 DEF Submitted, Handed
  <2> QED BY <1>1, <2>1, <2>3 DEF Handed, In
<1> QED BY <1>4, <1>5, <1>6, <1>7, <1>8 DEF KeptInv

\* AndesCtrlUsbExit frees what the queues have
LEMMA ExitKeeps == ASSUME KeptInv, ExitCleanup PROVE KeptInv'
<1>1. /\ QueueTypes /\ Hands /\ Made /\ Started /\ Awaited /\ PostedKept /\ Submitted
      /\ mem' = [c \in Cmd |-> IF Queued(c) THEN "freed" ELSE mem[c]]
      /\ q' = [n \in Queues |-> <<>>] /\ pc' = pc /\ hand' = hand
  BY DEF KeptInv, ExitCleanup, thread
<1>2. \A n \in Queues, d \in Cmd : In(n, d) => Queued(d)
  <2> SUFFICES ASSUME NEW n \in Queues, NEW d \in Cmd, In(n, d) PROVE Queued(d)
    OBVIOUS
  <2>1. q[n] \in Seq(Cmd)
    BY <1>1 DEF QueueTypes
  <2>2. PICK i \in 1..Len(q[n]) : q[n][i] = d
    BY <2>1 DEF In, ToSet
  <2> QED BY <2>2 DEF Queued, Contains
<1>3. \A d \in Cmd : Alive(d)' =>
        Alive(d) /\ ~In("txq", d) /\ ~In("tx_doneq", d) /\ ~Handed(d)
  BY <1>1, <1>2 DEF Alive, Handed, Queues
<1>4. \A n \in Queues, d \in Cmd : ~In(n, d)'
  BY <1>1 DEF In, ToSet
<1>5. QueueTypes'
  BY <1>1 DEF QueueTypes
<1>6. Hands' /\ Made' /\ Started'
  BY <1>1, <1>3, <1>4 DEF Hands, Made, Started, Held, Queues
<1>7. Awaited'
  BY <1>1, <1>3 DEF Awaited, InFlight, Cmd
<1>8. PostedKept'
  BY <1>1, <1>3 DEF PostedKept, Held, Cmd
<1>9. Submitted'
  <2> SUFFICES ASSUME NEW d \in Cmd, pc[d] = "submit", hand[d] \in Posted, Alive(hand[d])'
               PROVE  FALSE
    BY <1>1 DEF Submitted
  <2>1. PICK e \in Cmd : e = hand[d]
    BY DEF Cmd
  <2>2. Alive(e)'
    BY <1>1, <2>1 DEF Alive
  <2> QED BY <1>1, <1>3, <2>1, <2>2 DEF Submitted
<1> QED BY <1>5, <1>6, <1>7, <1>8, <1>9 DEF KeptInv

LEMMA KeptStart == Init => KeptInv
<1> SUFFICES ASSUME Init PROVE KeptInv
  OBVIOUS
<1>1. \A n \in Queues, c \in Cmd : ~In(n, c)
  BY DEF Init, In, ToSet
<1>2. QueueTypes
  BY DEF Init, QueueTypes, Pcs
<1>3. /\ \A c \in Cmd : pc[c] = "none" /\ hand[c] = NoCmd /\ ~Alive(c)
      /\ NoCmd \notin Cmd
  BY CommandsAssumption DEF Init, Alive
<1> QED BY <1>1, <1>2, <1>3
        DEF KeptInv, Hands, Made, Started, Awaited, PostedKept, Submitted, Held,
            Holding, Queues, Cmd

LEMMA KeptStep == KeptInv /\ [Next]_vars => KeptInv'
<1> SUFFICES ASSUME KeptInv, [Next]_vars PROVE KeptInv'
  OBVIOUS
<1>1. ASSUME UNCHANGED <<mem, q, thread>> PROVE KeptInv'
  <2>1. mem' = mem /\ q' = q /\ pc' = pc /\ hand' = hand
    BY <1>1 DEF thread
  <2>2. HandedKept /\ QueueTypes
    BY <2>1 DEF HandedKept, Handed, In, KeptInv
  <2> QED BY <2>1, <2>2, OutsideKeeps DEF QueueTypes
<1>2. ASSUME NEW c \in Cmd, Send(c) \/ Kick(c) \/ Wait(c) PROVE KeptInv'
  BY <1>2, SendKeeps, KickKeeps, WaitKeeps
<1>3. ASSUME NEW c \in Cmd, UrbDone(c) \/ RxEvent(c) PROVE KeptInv'
  BY <1>3, UrbKeeps, RxKeeps
<1>4. CASE RxDone \/ Off \/ ExitFlags
  BY <1>1, <1>4 DEF RxDone, Off, ExitFlags, ctl, msg
<1>5. CASE AndesCmdMsgBh \/ ExitCleanup
  BY <1>5, BhKeeps, ExitKeeps
<1>6. CASE UNCHANGED vars
  BY <1>1, <1>6 DEF vars, msg, ctl
<1> QED BY <1>2, <1>3, <1>4, <1>5, <1>6 DEF Next

-----------------------------------------------------------------------------
\* No command is lost up to the first mishap that destroys a list, and none at all
\* where QueuesStayIntact excludes such a mishap: until it is freed its sender has
\* it, or a queue that the tasklet or AndesCtrlUsbExit will empty.
THEOREM NoCommandLost == Spec => []NoneLost
BY KeptStart, KeptStep, KeptMeansNoneLost, PTL DEF Spec

-----------------------------------------------------------------------------
(* The queues and the answers: the inductive invariant.  A command is in one *)
(* queue, in the hand of one sender, with the RX tasklet, or nowhere; from   *)
(* where it is follow its state, whether its URB is out and what its sender  *)
(* may be about to do.  TypeOK is proved with it: that the numbers are       *)
(* naturals rests on ackq being empty when one is given out.                 *)

Mild == "overlap" \notin Faults /\ "race" \notin Faults

\* a command that a sender has dequeued and not queued again, and one it submits
Early        == {"have", "seq", "seqread", "queue"}
HeldEarly(c) == \E d \in Cmd : hand[d] = c /\ pc[d] \in Early
HeldLate(c)  == \E d \in Cmd : hand[d] = c /\ pc[d] = "submit"

Nowhere(c) == ~HeldEarly(c) /\ rx # c /\ \A n \in Queues : ~In(n, c)

Out == "wait_cmd_out_and_ack"

\* a command is in one place, and alive there
OnePlace(c) ==
  /\ \A n \in Queues : In(n, c) => /\ ~HeldEarly(c) /\ rx # c
                                   /\ \A k \in Queues \ {n} : ~In(k, c)
  /\ ~(HeldEarly(c) /\ rx = c)
  /\ ~Nowhere(c) => Alive(c)

\* what is known of a command by its place
Known(c) ==
  /\ pc[c] = "none" => ~Alive(c) /\ ~ackDone[c] /\ c \notin fw
  /\ In("txq", c) \/ HeldEarly(c) => state[c] = "tx_start" /\ c \notin fw
  /\ In("kickq", c) => c \in Posted
  /\ In("ackq", c) => c \in Waiting /\ state[c] \in {Out, "wait_ack"}
  /\ rx = c => c \in Waiting /\ state[c] = "wait_ack"
  /\ In("tx_doneq", c) => state[c] \in Final
  /\ c \in fw => c \in Waiting /\ state[c] \notin {Out, "tx_start"} /\ seq[c] >= 1

\* a command that is being submitted, and one that has a URB
SentOut(c) == IF c \in Posted THEN In("kickq", c) ELSE In("ackq", c) /\ state[c] = Out
Underway(c) ==
  /\ HeldLate(c) => SentOut(c) /\ ~urb[c]
  /\ urb[c] /\ mcuInit => SentOut(c)

\* a command that waits, by the place of its own sender
Awaiting(c) ==
  /\ InFlight(c) => Alive(c) /\ ~In("tx_doneq", c)
  /\ ~InFlight(c) \/ ackDone[c] => Nowhere(c) \/ In("tx_doneq", c)
  /\ pc[c] \in {"timedout", "final"} => Nowhere(c)
  /\ pc[c] = "final" => state[c] \in Final
  /\ InFlight(c) /\ ~ackDone[c] /\ pc[c] # "timedout" =>
       /\ state[c] = Out => In("ackq", c) /\ (urb[c] \/ HeldLate(c))
       /\ state[c] = "wait_ack" => In("ackq", c) \/ rx = c
  /\ pc[c] = "kill"   => state[c] = Out /\ In("ackq", c) /\ urb[c]
  /\ pc[c] = "unlink" => state[c] = "wait_ack" /\ In("ackq", c)

Fits(c) == OnePlace(c) /\ Known(c) /\ Underway(c) /\ (c \in Waiting => Awaiting(c))

OneAtATime == \A c, d \in Waiting : InFlight(c) /\ InFlight(d) => c = d
HeldOnce   == \A c, d \in Cmd : hand[c] = hand[d] /\ hand[c] # NoCmd => c = d
NumbersFor == \A d \in Cmd : pc[d] \in {"seq", "seqread"} => hand[d] \in Waiting
Stopped    == ~mcuInit => rx = NoCmd /\ \A c \in Cmd : ~InFlight(c)
Lists      == \A n \in Queues : IsInjective(q[n])

\* the command that waits now has the last number given
Numbered(c) == In("ackq", c) \/ \E d \in Cmd : hand[d] = c /\ pc[d] \in {"queue", "submit"}
Numbers ==
  /\ \A c \in Cmd : seq[c] <= cmdSeq
  /\ \A d \in Cmd : pc[d] = "seqread" => \A c \in Cmd : seq[c] < cmdSeq
  /\ \A c \in Waiting : Numbered(c) =>
       seq[c] = cmdSeq /\ seq[c] >= 1 /\ \A d \in Cmd \ {c} : seq[d] < cmdSeq

Control  == OneAtATime /\ HeldOnce /\ NumbersFor /\ Stopped
Ordered  == /\ Control /\ Lists /\ Numbers /\ mishaps = {}
            /\ \A c \in Cmd : Fits(c)
OrderInv == Mild /\ TypeOK /\ KeptInv /\ Ordered

-----------------------------------------------------------------------------
(* What the operations do to the queues and to the hands.                    *)

LEMMA TailQueued ==
  ASSUME QueueTypes, Lists, NEW n \in Queues, NEW c \in Cmd, ~In(n, c),
         q' = [q EXCEPT ![n] = Append(@, c)]
  PROVE  Lists' /\ \A k \in Queues, d \in Cmd : In(k, d)' <=> In(k, d) \/ (k = n /\ d = c)
<1> DEFINE s == q[n]
<1>1. /\ s \in Seq(Cmd) /\ IsInjective(s) /\ c \notin ToSet(s) /\ q'[n] = Append(s, c)
      /\ \A k \in Queues \ {n} : q'[k] = q[k]
  BY DEF QueueTypes, Lists, In
<1> HIDE DEF s
<1>2. ToSet(Append(s, c)) = ToSet(s) \cup {c} /\ IsInjective(Append(s, c))
  BY <1>1, Ends, Distinct
<1>3. Lists'
  BY <1>1, <1>2 DEF Lists
<1>4. \A k \in Queues, d \in Cmd : In(k, d)' <=> In(k, d) \/ (k = n /\ d = c)
  BY <1>1, <1>2 DEF In, s
<1> QED BY <1>3, <1>4

LEMMA HeadQueued ==
  ASSUME QueueTypes, Lists, NEW n \in Queues, NEW c \in Cmd, ~In(n, c),
         q' = [q EXCEPT ![n] = <<c>> \o @]
  PROVE  Lists' /\ \A k \in Queues, d \in Cmd : In(k, d)' <=> In(k, d) \/ (k = n /\ d = c)
<1> DEFINE s == q[n]
<1>1. /\ s \in Seq(Cmd) /\ IsInjective(s) /\ c \notin ToSet(s) /\ q'[n] = <<c>> \o s
      /\ \A k \in Queues \ {n} : q'[k] = q[k]
  BY DEF QueueTypes, Lists, In
<1> HIDE DEF s
<1>2. ToSet(<<c>> \o s) = ToSet(s) \cup {c} /\ IsInjective(<<c>> \o s)
  BY <1>1, Prepended, Distinct
<1>3. Lists'
  BY <1>1, <1>2 DEF Lists
<1>4. \A k \in Queues, d \in Cmd : In(k, d)' <=> In(k, d) \/ (k = n /\ d = c)
  BY <1>1, <1>2 DEF In, s
<1> QED BY <1>3, <1>4

LEMMA TakenOut ==
  ASSUME QueueTypes, Lists, NEW n \in Queues, NEW c \in Cmd,
         q' = [q EXCEPT ![n] = RemoveFirst(@, c)]
  PROVE  Lists' /\ \A k \in Queues, d \in Cmd : In(k, d)' <=> In(k, d) /\ ~(k = n /\ d = c)
<1> DEFINE s == q[n]
<1>1. /\ s \in Seq(Cmd) /\ IsInjective(s) /\ q'[n] = RemoveFirst(s, c)
      /\ \A k \in Queues \ {n} : q'[k] = q[k]
  BY DEF QueueTypes, Lists
<1> HIDE DEF s
<1>2. ToSet(RemoveFirst(s, c)) = ToSet(s) \ {c} /\ IsInjective(RemoveFirst(s, c))
  BY <1>1, RemoveFirstTakes
<1>3. Lists'
  BY <1>1, <1>2 DEF Lists
<1>4. \A k \in Queues, d \in Cmd : In(k, d)' <=> In(k, d) /\ ~(k = n /\ d = c)
  BY <1>1, <1>2 DEF In, s
<1> QED BY <1>3, <1>4

LEMMA HeadTaken ==
  ASSUME QueueTypes, Lists, NEW n \in Queues, q[n] # <<>>, q' = [q EXCEPT ![n] = Tail(@)]
  PROVE  /\ Lists' /\ Head(q[n]) \in Cmd /\ In(n, Head(q[n]))
         /\ \A k \in Queues, d \in Cmd : In(k, d)' <=> In(k, d) /\ ~(k = n /\ d = Head(q[n]))
<1> DEFINE s == q[n]
<1>1. /\ s \in Seq(Cmd) /\ IsInjective(s) /\ s # <<>> /\ q'[n] = Tail(s)
      /\ \A k \in Queues \ {n} : q'[k] = q[k]
  BY DEF QueueTypes, Lists
<1> HIDE DEF s
<1>2. /\ ToSet(Tail(s)) = ToSet(s) \ {Head(s)} /\ IsInjective(Tail(s))
      /\ Head(s) \in ToSet(s) /\ Head(s) \in Cmd
  BY <1>1, Distinct, Tails
<1>3. Lists'
  BY <1>1, <1>2 DEF Lists
<1>4. \A k \in Queues, d \in Cmd : In(k, d)' <=> In(k, d) /\ ~(k = n /\ d = Head(q[n]))
  BY <1>1, <1>2 DEF In, s
<1> QED BY <1>2, <1>3, <1>4 DEF s, In

LEMMA MovedOn ==
  ASSUME QueueTypes, Lists, NEW c \in Cmd, ~In("tx_doneq", c),
         q' = [q EXCEPT !["kickq"] = RemoveFirst(@, c), !["tx_doneq"] = Append(@, c)]
  PROVE  /\ Lists'
         /\ \A k \in Queues, d \in Cmd :
              In(k, d)' <=> \/ In(k, d) /\ ~(k = "kickq" /\ d = c)
                            \/ k = "tx_doneq" /\ d = c
<1> DEFINE s == q["kickq"]
           t == q["tx_doneq"]
<1>1. /\ s \in Seq(Cmd) /\ IsInjective(s) /\ t \in Seq(Cmd) /\ IsInjective(t)
      /\ c \notin ToSet(t) /\ q'["kickq"] = RemoveFirst(s, c)
      /\ q'["tx_doneq"] = Append(t, c)
      /\ \A k \in Queues \ {"kickq", "tx_doneq"} : q'[k] = q[k]
  BY DEF QueueTypes, Lists, In, Queues
<1> HIDE DEF s, t
<1>2. ToSet(RemoveFirst(s, c)) = ToSet(s) \ {c} /\ IsInjective(RemoveFirst(s, c))
  BY <1>1, RemoveFirstTakes
<1>3. ToSet(Append(t, c)) = ToSet(t) \cup {c} /\ IsInjective(Append(t, c))
  BY <1>1, Ends, Distinct
<1>4. Lists'
  BY <1>1, <1>2, <1>3 DEF Lists
<1>5. \A k \in Queues, d \in Cmd :
        In(k, d)' <=> \/ In(k, d) /\ ~(k = "kickq" /\ d = c)
                      \/ k = "tx_doneq" /\ d = c
  BY <1>1, <1>2, <1>3 DEF In, s, t
<1> QED BY <1>4, <1>5

\* the step of a sender that keeps, takes or gives away what it has in its hand
LEMMA Grip ==
  ASSUME QueueTypes, Hands, HeldOnce, NEW c \in Cmd,
         \A d \in Cmd \ {c} : pc'[d] = pc[d] /\ hand'[d] = hand[d],
         hand'[c] = NoCmd \/ hand'[c] = hand[c] \/ \A d \in Cmd : hand[d] # hand'[c]
  PROVE  /\ HeldOnce'
         /\ \A d \in Cmd : d # hand[c] /\ d # hand'[c] =>
              (HeldEarly(d)' <=> HeldEarly(d)) /\ (HeldLate(d)' <=> HeldLate(d))
         /\ \A d \in Cmd : d = hand'[c] =>
              (HeldEarly(d)' <=> pc'[c] \in Early) /\ (HeldLate(d)' <=> pc'[c] = "submit")
         /\ \A d \in Cmd : d # hand'[c] /\ d = hand[c] => ~HeldEarly(d)' /\ ~HeldLate(d)'
<1>1. NoCmd \notin Cmd
  BY CommandsAssumption
<1>2. HeldOnce'
  BY <1>1 DEF HeldOnce
<1>3. \A d \in Cmd : d # hand[c] /\ d # hand'[c] =>
        (HeldEarly(d)' <=> HeldEarly(d)) /\ (HeldLate(d)' <=> HeldLate(d))
  BY <1>1 DEF HeldEarly, HeldLate
<1>4. \A d \in Cmd : d = hand'[c] =>
        (HeldEarly(d)' <=> pc'[c] \in Early) /\ (HeldLate(d)' <=> pc'[c] = "submit")
  BY <1>1, <1>2 DEF HeldEarly, HeldLate, HeldOnce
<1>5. \A d \in Cmd : d # hand'[c] /\ d = hand[c] => ~HeldEarly(d)' /\ ~HeldLate(d)'
  BY <1>1 DEF HeldEarly, HeldLate, HeldOnce
<1> QED BY <1>2, <1>3, <1>4, <1>5

\* a step that does not change the places of the senders that have a command
LEMMA GripKept ==
  ASSUME QueueTypes, Hands, NEW c \in Cmd, pc[c] \notin Holding, pc'[c] \notin Holding,
         \A d \in Cmd \ {c} : pc'[d] = pc[d], hand' = hand
  PROVE  \A d \in Cmd : (HeldEarly(d)' <=> HeldEarly(d)) /\ (HeldLate(d)' <=> HeldLate(d))
<1>1. hand[c] = NoCmd /\ NoCmd \notin Cmd
  BY CommandsAssumption DEF Hands
<1> QED BY <1>1 DEF HeldEarly, HeldLate

\* where the invariant does not say that a mishap happens, none does
LEMMA NoMishap ==
  ASSUME QueueTypes, mishaps = {}, NEW c \in Cmd, Alive(c), NEW from, NEW to,
         from # "" => from \in Queues /\ In(from, c),
         to # "" => \A n \in Queues \ {from} : ~In(n, c),
         Mishap(from, to, c)
  PROVE  mishaps' = {}
<1>1. \A n \in Queues : Contains(q[n], c) <=> In(n, c)
  <2> SUFFICES ASSUME NEW n \in Queues PROVE Contains(q[n], c) <=> In(n, c)
    OBVIOUS
  <2>1. q[n] \in Seq(Cmd)
    BY DEF QueueTypes
  <2> QED BY <2>1, Containing DEF In
<1> QED BY <1>1 DEF Mishap

-----------------------------------------------------------------------------
(* What a step leaves alone.                                                 *)

\* the sender of c stays where it was, as far as c can tell
Looping == {"loop", "have", "seq", "seqread", "queue", "submit", "wait"}
Stays(c) == \/ pc'[c] = pc[c]
            \/ pc[c] \in Looping /\ pc'[c] \in Looping \cup {"end"}
                 /\ (pc'[c] = "end" => c \in Posted)

Same(c) ==
  /\ \A n \in Queues : In(n, c)' <=> In(n, c)
  /\ HeldEarly(c)' <=> HeldEarly(c)
  /\ HeldLate(c)' <=> HeldLate(c)
  /\ (rx' = c <=> rx = c) /\ (c \in fw' <=> c \in fw) /\ mem'[c] = mem[c]
  /\ state'[c] = state[c] /\ seq'[c] >= seq[c] /\ ackDone'[c] = ackDone[c]
  /\ urb'[c] = urb[c] /\ Stays(c)

LEMMA Unmoved ==
  ASSUME NEW c \in Cmd, Fits(c), Same(c), mcuInit' => mcuInit, seq[c] \in Nat, seq'[c] \in Nat
  PROVE  Fits(c)'
<1>1. /\ \A n \in Queues : In(n, c)' <=> In(n, c)
      /\ (Nowhere(c)' <=> Nowhere(c)) /\ (Alive(c)' <=> Alive(c))
      /\ (HeldEarly(c)' <=> HeldEarly(c)) /\ (HeldLate(c)' <=> HeldLate(c))
      /\ (rx' = c <=> rx = c) /\ (c \in fw' <=> c \in fw)
      /\ state'[c] = state[c] /\ ackDone'[c] = ackDone[c] /\ urb'[c] = urb[c]
      /\ seq[c] >= 1 => seq'[c] >= 1
  BY DEF Same, Nowhere, Alive
<1>2. OnePlace(c)'
  BY <1>1 DEF Fits, OnePlace
<1>3. pc'[c] = "none" => pc[c] = "none"
  BY DEF Same, Stays, Looping
<1>4. Known(c)'
  BY <1>1, <1>3 DEF Fits, Known, Queues
<1>5. Underway(c)'
  BY <1>1 DEF Fits, Underway, SentOut, Queues
<1>6. ASSUME c \in Waiting PROVE Awaiting(c)'
  <2>1. c \notin Posted
    BY <1>6, CommandsAssumption
  <2>2. /\ InFlight(c)' <=> InFlight(c)
        /\ pc'[c] = "kill" => pc[c] = "kill"
        /\ pc'[c] = "unlink" => pc[c] = "unlink"
        /\ pc'[c] = "final" => pc[c] = "final"
        /\ pc'[c] = "timedout" => pc[c] = "timedout"
        /\ pc[c] = "timedout" => pc'[c] = "timedout"
    BY <2>1 DEF Same, Stays, Looping, InFlight
  <2>3. /\ (In("tx_doneq", c)' <=> In("tx_doneq", c)) /\ (In("ackq", c)' <=> In("ackq", c))
    BY <1>1 DEF Queues
  <2>4. Awaiting(c)
    BY <1>6 DEF Fits
  <2> QED BY <1>1, <2>2, <2>3, <2>4 DEF Awaiting
<1> QED BY <1>2, <1>4, <1>5, <1>6 DEF Fits

\* a command that waits and is queued, held or answered is not done yet
LEMMA OnItsWay ==
  ASSUME NEW c \in Waiting, Fits(c),
         In("txq", c) \/ In("ackq", c) \/ rx = c \/ HeldEarly(c) \/ HeldLate(c)
  PROVE  InFlight(c) /\ ~ackDone[c] /\ Alive(c)
<1>1. In("txq", c) \/ In("ackq", c) \/ rx = c \/ HeldEarly(c)
  BY CommandsAssumption DEF Fits, Underway, SentOut, Cmd
<1>2. ~Nowhere(c) /\ ~In("tx_doneq", c)
  BY <1>1 DEF Nowhere, Fits, OnePlace, Queues
<1> QED BY <1>2 DEF Fits, Awaiting, OnePlace

LEMMA NumbersKept ==
  ASSUME Numbers, seq' = seq, cmdSeq' = cmdSeq,
         \A d \in Cmd : pc'[d] = "seqread" => pc[d] = "seqread",
         \A c \in Waiting : Numbered(c)' => Numbered(c)
  PROVE  Numbers'
BY DEF Numbers

LEMMA ControlKept ==
  ASSUME QueueTypes, Control, HeldOnce', NEW c \in Cmd, InFlight(c), mcuInit' = mcuInit,
         \A d \in Cmd \ {c} : pc'[d] = pc[d] /\ hand'[d] = hand[d],
         pc'[c] \in {"seq", "seqread"} => hand'[c] \in Waiting
  PROVE  Control' /\ mcuInit
<1>1. \A d \in Cmd : InFlight(d)' => InFlight(d)
  BY DEF InFlight
<1>2. mcuInit
  BY DEF Control, Stopped
<1>3. OneAtATime'
  <2> SUFFICES ASSUME NEW d \in Waiting, NEW e \in Waiting, InFlight(d)', InFlight(e)' PROVE d = e
    BY DEF OneAtATime
  <2>1. InFlight(d) /\ InFlight(e)
    BY <1>1 DEF Cmd
  <2> QED BY <2>1 DEF Control, OneAtATime
<1>4. NumbersFor'
  BY <1>1 DEF Control, NumbersFor
<1> QED BY <1>2, <1>3, <1>4 DEF Control, Stopped

-----------------------------------------------------------------------------
(* The steps of a sender.                                                    *)

LEMMA Parts ==
  ASSUME OrderInv
  PROVE  /\ QueueTypes /\ Hands /\ Made /\ Control /\ HeldOnce /\ Lists /\ Numbers
         /\ mishaps = {} /\ cmdSeq \in Nat /\ \A d \in Cmd : Fits(d) /\ seq[d] \in Nat
         /\ NoCmd \notin Cmd /\ Waiting \subseteq Cmd /\ Posted \subseteq Cmd
         /\ Waiting \cap Posted = {}
BY CommandsAssumption DEF OrderInv, KeptInv, Ordered, Control, TypeOK, Cmd

LEMMA SendOrdered == ASSUME OrderInv, NEW c \in Cmd, Send(c) PROVE Ordered'
<1>1. /\ QueueTypes /\ Hands /\ Control /\ HeldOnce /\ Lists /\ Numbers /\ mishaps = {}
      /\ cmdSeq \in Nat /\ \A d \in Cmd : Fits(d) /\ seq[d] \in Nat
  BY Parts
<1>2. /\ pc[c] = "none" /\ mcuInit /\ mcuInit' = mcuInit /\ hand' = hand /\ rx' = rx
      /\ fw' = fw /\ seq' = seq /\ ackDone' = ackDone /\ urb' = urb /\ mishaps' = {}
      /\ cmdSeq' = cmdSeq
  BY <1>1 DEF Send, OrderInv, Mild
<1>3. /\ ~Alive(c) /\ ~ackDone[c] /\ c \notin fw /\ ~HeldEarly(c) /\ ~HeldLate(c) /\ rx # c
      /\ ~urb[c] /\ \A n \in Queues : ~In(n, c)
  <2>1. Fits(c)
    BY <1>1
  <2>2. Nowhere(c) /\ ~Alive(c) /\ ~ackDone[c] /\ c \notin fw
    BY <1>2, <2>1 DEF Fits, OnePlace, Known
  <2> QED BY <1>2, <2>1, <2>2 DEF Nowhere, Fits, Underway, SentOut, Queues
<1>4. PICK v \in {"loop", "end"} :
        /\ pc' = [pc EXCEPT ![c] = v]
        /\ v = "loop" => /\ mem' = [mem EXCEPT ![c] = "live"]
                         /\ q' = [q EXCEPT !["txq"] = Append(@, c)]
                         /\ state' = [state EXCEPT ![c] = "tx_start"]
                         /\ (c \in Waiting => \A d \in Waiting : ~InFlight(d))
        /\ v = "end" => mem' = [mem EXCEPT ![c] = "freed"] /\ q' = q /\ state' = state
  BY <1>1 DEF Send, Goto, SetState, OrderInv, Mild
<1>5. /\ pc'[c] = v /\ \A d \in Cmd \ {c} : pc'[d] = pc[d]
      /\ \A d \in Cmd \ {c} : mem'[d] = mem[d] /\ state'[d] = state[d]
      /\ v = "loop" => mem'[c] = "live" /\ state'[c] = "tx_start"
      /\ v = "end" => mem'[c] = "freed"
  BY <1>1, <1>4 DEF QueueTypes, OrderInv, TypeOK
<1>6. /\ Lists'
      /\ \A k \in Queues, d \in Cmd : In(k, d)' <=> In(k, d) \/ (k = "txq" /\ d = c /\ v = "loop")
  <2>1. CASE v = "loop"
    BY <1>1, <1>3, <1>4, <2>1, TailQueued DEF Queues
  <2>2. CASE v = "end"
    BY <1>1, <1>4, <2>2 DEF Lists, In
  <2> QED BY <2>1, <2>2
<1>7. \A d \in Cmd : (HeldEarly(d)' <=> HeldEarly(d)) /\ (HeldLate(d)' <=> HeldLate(d))
  BY <1>1, <1>2, <1>5, GripKept DEF Holding
<1>8. Control'
  <2>1. \A d \in Cmd \ {c} : InFlight(d)' <=> InFlight(d)
    BY <1>5 DEF InFlight
  <2>2. OneAtATime'
    <3> SUFFICES ASSUME NEW d \in Waiting, NEW e \in Waiting, InFlight(d)', InFlight(e)'
                 PROVE  d = e
      BY DEF OneAtATime
    <3>1. CASE c \in Waiting /\ v = "loop"
      BY <1>4, <2>1, <3>1 DEF Cmd
    <3>2. CASE c \notin Waiting \/ v = "end"
      <4>1. ~InFlight(c)' \/ c \notin Waiting
        BY <1>5, <3>2 DEF InFlight
      <4>2. InFlight(d) /\ InFlight(e)
        BY <2>1, <4>1 DEF Cmd
      <4> QED BY <1>1, <4>2 DEF Control, OneAtATime
    <3> QED BY <3>1, <3>2
  <2>3. NumbersFor' /\ HeldOnce'
    BY <1>1, <1>2, <1>5 DEF Control, NumbersFor, HeldOnce
  <2> QED BY <1>2, <2>2, <2>3 DEF Control, Stopped
<1>9. Numbers'
  <2>1. \A d \in Cmd : In("ackq", d)' => In("ackq", d)
    BY <1>6 DEF Queues
  <2>2. \A d \in Cmd : pc'[d] \in {"seqread", "queue", "submit"} => pc'[d] = pc[d]
    BY <1>5
  <2>3. \A d \in Waiting : Numbered(d)' => Numbered(d)
    BY <1>2, <2>1, <2>2 DEF Numbered, Cmd
  <2> QED BY <1>1, <1>2, <2>2, <2>3, NumbersKept
<1>10. ASSUME NEW d \in Cmd, d # c PROVE Fits(d)'
  <2>1. Same(d)
    BY <1>1, <1>2, <1>5, <1>6, <1>7, <1>10 DEF Same, Stays
  <2> QED BY <1>1, <1>2, <2>1, Unmoved
<1>11. Fits(c)'
  <2>1. OnePlace(c)'
    BY <1>2, <1>3, <1>5, <1>6, <1>7 DEF OnePlace, Nowhere, Alive, Queues
  <2>2. Known(c)' /\ Underway(c)'
    BY <1>2, <1>3, <1>5, <1>6, <1>7 DEF Known, Underway, Queues
  <2>3. Awaiting(c)'
    <3>1. CASE v = "loop"
      BY <1>2, <1>3, <1>5, <1>6, <1>7, <3>1 DEF Awaiting, Nowhere, Alive, InFlight, Queues, Out
    <3>2. CASE v = "end"
      BY <1>2, <1>3, <1>5, <1>6, <1>7, <3>2 DEF Awaiting, Nowhere, Alive, InFlight, Queues
    <3> QED BY <3>1, <3>2
  <2> QED BY <2>1, <2>2, <2>3 DEF Fits
<1> QED BY <1>2, <1>6, <1>8, <1>9, <1>10, <1>11 DEF Ordered

LEMMA DequeueOrdered == ASSUME OrderInv, NEW c \in Cmd, Dequeue(c) PROVE Ordered'
<1>1. /\ QueueTypes /\ Hands /\ Control /\ HeldOnce /\ Lists /\ Numbers /\ mishaps = {}
      /\ cmdSeq \in Nat /\ \A d \in Cmd : Fits(d) /\ seq[d] \in Nat
      /\ NoCmd \notin Cmd /\ Waiting \subseteq Cmd /\ Posted \subseteq Cmd
  BY Parts
<1>2. /\ pc[c] = "loop" /\ mcuInit' = mcuInit /\ rx' = rx /\ mem' = mem /\ state' = state
      /\ fw' = fw /\ seq' = seq /\ ackDone' = ackDone /\ urb' = urb /\ mishaps' = {}
      /\ cmdSeq' = cmdSeq /\ hand[c] = NoCmd /\ InFlight(c)
  BY <1>1 DEF Dequeue, msg, InFlight, Hands, Holding
<1>3. CASE q["txq"] = <<>>
  <2>1. PICK v \in {"wait", "end"} : /\ pc' = [pc EXCEPT ![c] = v]
                                     /\ v = "end" => c \in Posted
    BY <1>3 DEF Dequeue, Leave, Goto, Cmd
  <2>2. hand' = hand /\ q' = q /\ v \in Pcs \ Holding
    BY <1>3 DEF Dequeue, Pcs, WaitPcs, Holding
  <2>3. /\ pc'[c] = v /\ \A d \in Cmd \ {c} : pc'[d] = pc[d]
    BY <1>1, <2>1 DEF QueueTypes
  <2>4. \A d \in Cmd : (HeldEarly(d)' <=> HeldEarly(d)) /\ (HeldLate(d)' <=> HeldLate(d))
    BY <1>1, <1>2, <2>2, <2>3, GripKept DEF Holding
  <2>5. HeldOnce'
    BY <1>1, <2>2 DEF HeldOnce
  <2>6. Control'
    BY <1>1, <1>2, <2>1, <2>2, <2>3, <2>5, ControlKept
  <2>7. Lists' /\ \A k \in Queues, d \in Cmd : In(k, d)' <=> In(k, d)
    BY <1>1, <2>2 DEF Lists, In
  <2>8. Numbers'
    BY <1>1, <1>2, <2>2, <2>3, <2>7, NumbersKept DEF Numbered, Queues
  <2>9. ASSUME NEW d \in Cmd PROVE Fits(d)'
    <3>1. Same(d)
      BY <1>1, <1>2, <2>1, <2>3, <2>4, <2>7 DEF Same, Stays, Looping
    <3> QED BY <1>1, <1>2, <3>1, Unmoved
  <2> QED BY <1>2, <2>6, <2>7, <2>8, <2>9 DEF Ordered
<1>4. CASE q["txq"] # <<>>
  <2>a. /\ pc' = [pc EXCEPT ![c] = "have"] /\ hand' = [hand EXCEPT ![c] = Head(q["txq"])]
        /\ q' = [q EXCEPT !["txq"] = Tail(@)]
    BY <1>4 DEF Dequeue, Goto
  <2>b. /\ Lists' /\ Head(q["txq"]) \in Cmd /\ In("txq", Head(q["txq"]))
        /\ \A k \in Queues, d \in Cmd :
             In(k, d)' <=> In(k, d) /\ ~(k = "txq" /\ d = Head(q["txq"]))
    BY <1>1, <1>4, <2>a, HeadTaken DEF Queues
  <2>c. PICK h \in Cmd : h = Head(q["txq"])
    BY <2>b
  <2>1. pc' = [pc EXCEPT ![c] = "have"] /\ hand' = [hand EXCEPT ![c] = h]
    BY <2>a, <2>c
  <2>2. /\ Lists' /\ h \in Cmd /\ In("txq", h)
        /\ \A k \in Queues, d \in Cmd : In(k, d)' <=> In(k, d) /\ ~(k = "txq" /\ d = h)
    BY <2>b, <2>c
  <2>3. /\ Fits(h) /\ ~HeldEarly(h) /\ ~HeldLate(h) /\ rx # h /\ Alive(h) /\ h \notin fw
        /\ state[h] = "tx_start" /\ \A k \in Queues \ {"txq"} : ~In(k, h)
    <3>1. Fits(h)
      BY <1>1, <2>2
    <3>2. /\ ~HeldEarly(h) /\ rx # h /\ \A k \in Queues \ {"txq"} : ~In(k, h)
          /\ ~Nowhere(h)
      BY <2>2, <3>1 DEF Fits, OnePlace, Nowhere, Queues
    <3>3. ~HeldLate(h) /\ state[h] = "tx_start" /\ h \notin fw /\ Alive(h)
      BY <2>2, <3>1, <3>2 DEF Fits, Underway, SentOut, Known, OnePlace, Queues
    <3> QED BY <3>1, <3>2, <3>3
  <2>4. \A d \in Cmd : hand[d] # h
    BY <1>1, <2>2, <2>3 DEF Hands, Holding, HeldEarly, HeldLate, Early
  <2>5. /\ HeldOnce' /\ HeldEarly(h)' /\ ~HeldLate(h)'
        /\ \A d \in Cmd \ {h} : /\ HeldEarly(d)' <=> HeldEarly(d)
                                /\ HeldLate(d)' <=> HeldLate(d)
    <3>1. /\ pc'[c] = "have" /\ hand'[c] = h
          /\ \A d \in Cmd \ {c} : pc'[d] = pc[d] /\ hand'[d] = hand[d]
      BY <1>1, <2>1, <2>2 DEF QueueTypes
    <3>2. /\ HeldOnce'
          /\ \A d \in Cmd : d # hand[c] /\ d # hand'[c] =>
               (HeldEarly(d)' <=> HeldEarly(d)) /\ (HeldLate(d)' <=> HeldLate(d))
          /\ \A d \in Cmd : d = hand'[c] =>
               (HeldEarly(d)' <=> pc'[c] \in Early) /\ (HeldLate(d)' <=> pc'[c] = "submit")
      BY <1>1, <2>4, <3>1, Grip
    <3> QED BY <1>1, <1>2, <2>2, <3>1, <3>2 DEF Early
  <2>6. /\ pc'[c] = "have" /\ \A d \in Cmd \ {c} : pc'[d] = pc[d] /\ hand'[d] = hand[d]
    BY <1>1, <2>1 DEF QueueTypes
  <2>7. Control'
    BY <1>1, <1>2, <2>5, <2>6, ControlKept
  <2>8. Numbers'
    BY <1>1, <1>2, <2>2, <2>6, NumbersKept DEF Numbered, Queues
  <2>9. ASSUME NEW d \in Cmd, d # h PROVE Fits(d)'
    <3>1. Same(d)
      BY <1>1, <1>2, <2>2, <2>5, <2>6, <2>9 DEF Same, Stays, Looping
    <3> QED BY <1>1, <1>2, <3>1, Unmoved
  <2>10. Fits(h)'
    <3>1. OnePlace(h)' /\ Underway(h)' /\ Known(h)'
      BY <1>2, <2>2, <2>3, <2>5, <2>6
         DEF OnePlace, Nowhere, Alive, Underway, Known, Fits, Queues, SentOut
    <3>2. ASSUME h \in Waiting PROVE Awaiting(h)'
      <4>1. /\ InFlight(h) /\ ~ackDone[h] /\ pc[h] \notin {"timedout", "final", "kill", "unlink"}
        BY <2>2, <2>3, <3>2, OnItsWay DEF Fits, Awaiting, Nowhere, Queues, Out
      <4>2. InFlight(h)' /\ pc'[h] \notin {"timedout", "final", "kill", "unlink"}
        BY <4>1, <2>2, <2>6 DEF InFlight
      <4> QED BY <1>2, <2>2, <2>3, <4>1, <4>2 DEF Awaiting, Alive, Queues, Out
    <3> QED BY <3>1, <3>2 DEF Fits
  <2> QED BY <1>2, <2>2, <2>7, <2>8, <2>9, <2>10 DEF Ordered
<1> QED BY <1>3, <1>4

-----------------------------------------------------------------------------
(* The steps of a sender with a command in its hand.                         *)

Waking == {"timedout", "final", "kill", "unlink"}

LEMMA InHand ==
  ASSUME OrderInv, NEW c \in Cmd, NEW m \in Cmd, hand[c] = m
  PROVE  /\ pc[c] \in Holding /\ InFlight(c) /\ Alive(m) /\ ~urb[m]
         /\ pc[c] \in Early => /\ rx # m /\ (\A k \in Queues : ~In(k, m)) /\ m \notin fw
                               /\ state[m] = "tx_start" /\ HeldEarly(m) /\ ~HeldLate(m)
         /\ pc[c] = "submit" => SentOut(m) /\ ~HeldEarly(m) /\ HeldLate(m) /\ rx # m
         /\ m \in Waiting => InFlight(m) /\ ~ackDone[m] /\ pc[m] \notin Waking
<1>1. /\ Hands /\ HeldOnce /\ Fits(m) /\ mcuInit \in BOOLEAN /\ NoCmd \notin Cmd /\ Control
      /\ QueueTypes
  BY Parts DEF OrderInv, TypeOK
<1>2. pc[c] \in Holding /\ InFlight(c) /\ mcuInit
  BY <1>1 DEF Hands, Holding, InFlight, Control, Stopped
<1>3. CASE pc[c] \in Early
  <2>1. HeldEarly(m)
    BY <1>3 DEF HeldEarly
  <2>2. rx # m /\ (\A k \in Queues : ~In(k, m)) /\ Alive(m) /\ m \notin fw /\ state[m] = "tx_start"
    BY <1>1, <2>1 DEF Fits, OnePlace, Nowhere, Known
  <2>3. ~HeldLate(m) /\ ~urb[m]
    BY <1>1, <1>2, <2>2 DEF Fits, Underway, SentOut, Queues
  <2>4. m \in Waiting => InFlight(m) /\ ~ackDone[m] /\ pc[m] \notin Waking
    <3> SUFFICES ASSUME m \in Waiting PROVE InFlight(m) /\ ~ackDone[m] /\ pc[m] \notin Waking
      OBVIOUS
    <3>1. InFlight(m) /\ ~ackDone[m]
      BY <1>1, <2>1, OnItsWay
    <3>2. Awaiting(m) /\ ~Nowhere(m)
      BY <1>1, <2>1 DEF Fits, Nowhere
    <3> QED BY <2>2, <3>1, <3>2 DEF Awaiting, Queues, Waking
  <2>5. pc[c] # "submit"
    BY <1>3 DEF Early
  <2> QED BY <1>2, <2>1, <2>2, <2>3, <2>4, <2>5
<1>4. CASE pc[c] = "submit"
  <2>1. HeldLate(m)
    BY <1>4 DEF HeldLate
  <2>2. SentOut(m) /\ ~urb[m] /\ \E k \in Queues : In(k, m)
    BY <1>1, <2>1 DEF Fits, Underway, SentOut, Queues
  <2>3. rx # m /\ ~HeldEarly(m) /\ Alive(m) /\ ~Nowhere(m)
    BY <1>1, <2>2 DEF Fits, OnePlace, Nowhere
  <2>4. m \in Waiting => InFlight(m) /\ ~ackDone[m] /\ pc[m] \notin Waking
    <3> SUFFICES ASSUME m \in Waiting PROVE InFlight(m) /\ ~ackDone[m] /\ pc[m] \notin Waking
      OBVIOUS
    <3>1. InFlight(m) /\ ~ackDone[m]
      BY <1>1, <2>1, OnItsWay
    <3>2. Awaiting(m) /\ m \notin Posted
      BY <1>1, CommandsAssumption DEF Fits
    <3> QED BY <2>2, <2>3, <3>1, <3>2 DEF Awaiting, SentOut, Waking, Out
  <2>5. pc[c] \notin Early
    BY <1>4 DEF Early
  <2> QED BY <1>2, <2>1, <2>2, <2>3, <2>4, <2>5
<1> QED BY <1>2, <1>3, <1>4 DEF Holding, Early

\* the command in the hand may change, others do not
LEMMA HandStep ==
  ASSUME OrderInv, NEW c \in Cmd, NEW m \in Cmd, hand[c] = m, hand'[c] \in {m, NoCmd},
         \A d \in Cmd \ {c} : pc'[d] = pc[d] /\ hand'[d] = hand[d],
         pc'[c] \in Looping \/ (pc'[c] = "end" /\ c \in Posted),
         pc'[c] \in {"seq", "seqread"} => hand'[c] \in Waiting,
         mcuInit' = mcuInit, rx' = rx, fw' = fw,
         \A d \in Cmd \ {m} : /\ \A k \in Queues : In(k, d)' <=> In(k, d)
                              /\ mem'[d] = mem[d] /\ state'[d] = state[d] /\ seq'[d] = seq[d]
                              /\ ackDone'[d] = ackDone[d] /\ urb'[d] = urb[d]
  PROVE  /\ Control' /\ mcuInit /\ \A d \in Cmd \ {m} : Fits(d)'
         /\ HeldEarly(m)' <=> hand'[c] = m /\ pc'[c] \in Early
         /\ HeldLate(m)' <=> hand'[c] = m /\ pc'[c] = "submit"
         /\ m \in Waiting => InFlight(m)' /\ pc'[m] \notin Waking
<1>1. /\ QueueTypes /\ Hands /\ Control /\ HeldOnce
      /\ \A d \in Cmd : Fits(d) /\ seq[d] \in Nat
      /\ NoCmd \notin Cmd /\ Waiting \subseteq Cmd
  BY Parts
<1>2. pc[c] \in Holding /\ InFlight(c)
  BY InHand
<1>3. /\ HeldOnce'
      /\ \A d \in Cmd \ {m} : /\ HeldEarly(d)' <=> HeldEarly(d)
                              /\ HeldLate(d)' <=> HeldLate(d)
      /\ HeldEarly(m)' <=> hand'[c] = m /\ pc'[c] \in Early
      /\ HeldLate(m)' <=> hand'[c] = m /\ pc'[c] = "submit"
  <2>1. hand'[c] = NoCmd \/ hand'[c] = hand[c]
    OBVIOUS
  <2>2. /\ HeldOnce'
        /\ \A d \in Cmd : d # hand[c] /\ d # hand'[c] =>
             (HeldEarly(d)' <=> HeldEarly(d)) /\ (HeldLate(d)' <=> HeldLate(d))
        /\ \A d \in Cmd : d = hand'[c] =>
             (HeldEarly(d)' <=> pc'[c] \in Early) /\ (HeldLate(d)' <=> pc'[c] = "submit")
        /\ \A d \in Cmd : d # hand'[c] /\ d = hand[c] => ~HeldEarly(d)' /\ ~HeldLate(d)'
    BY <1>1, <2>1, Grip
  <2>3. \A d \in Cmd \ {m} : d # hand'[c] /\ d # hand[c]
    BY <1>1
  <2> QED BY <1>1, <2>2, <2>3
<1>5. Control' /\ mcuInit
  BY <1>1, <1>2, <1>3, ControlKept
<1>6. ASSUME NEW d \in Cmd \ {m} PROVE Fits(d)'
  <2>1. /\ pc[c] \in Looping
    BY <1>2 DEF Holding, Looping
  <2>2. Stays(d)
    BY <2>1 DEF Stays, Looping
  <2>3. Same(d) /\ seq'[d] \in Nat
    BY <1>1, <1>3, <2>2 DEF Same
  <2> QED BY <1>1, <2>3, Unmoved
<1>7. m \in Waiting => InFlight(m)' /\ pc'[m] \notin Waking
  <2>1. m \in Waiting => m \notin Posted /\ InFlight(m) /\ pc[m] \notin Waking
    BY InHand, CommandsAssumption
  <2> QED BY <2>1 DEF InFlight, Looping, Waking
<1> QED BY <1>3, <1>5, <1>6, <1>7

\* a command that waits, is under way and has not been answered
LEMMA AwaitingStill ==
  ASSUME NEW m \in Cmd, InFlight(m)', pc'[m] \notin Waking, Alive(m)', ~ackDone'[m],
         ~In("tx_doneq", m)',
         \/ state'[m] = "tx_start"
         \/ state'[m] = Out /\ In("ackq", m)' /\ (urb'[m] \/ HeldLate(m)')
  PROVE  Awaiting(m)'
BY DEF Awaiting, Waking, Out

LEMMA DropOrdered == ASSUME OrderInv, NEW c \in Cmd, Drop(c) PROVE Ordered'
<1>1. /\ QueueTypes /\ Hands /\ Control /\ HeldOnce /\ Lists /\ Numbers /\ mishaps = {}
      /\ cmdSeq \in Nat /\ \A d \in Cmd : Fits(d) /\ seq[d] \in Nat
      /\ NoCmd \notin Cmd /\ Waiting \subseteq Cmd /\ Waiting \cap Posted = {}
  BY Parts
<1>2. PICK m \in Cmd : m = hand[c]
  BY <1>1 DEF Drop, Hands, Holding
<1>3. /\ pc[c] = "have" /\ pc'[c] = "loop"
      /\ hand'[c] = NoCmd /\ NoCmd # m
      /\ \A d \in Cmd \ {c} : pc'[d] = pc[d] /\ hand'[d] = hand[d]
      /\ mem' = [mem EXCEPT ![m] = IF m \in Posted THEN "freed" ELSE @]
      /\ state' = state /\ seq' = seq /\ ackDone' = ackDone /\ urb' = urb /\ q' = q
      /\ cmdSeq' = cmdSeq /\ mcuInit' = mcuInit /\ rx' = rx /\ fw' = fw /\ mishaps' = {}
  BY <1>1, <1>2 DEF Drop, Goto, ctl, QueueTypes
<1>4. \A k \in Queues, d \in Cmd : In(k, d)' <=> In(k, d)
  BY <1>3 DEF In
<1>5. /\ Control' /\ mcuInit /\ \A d \in Cmd \ {m} : Fits(d)'
      /\ ~HeldEarly(m)' /\ ~HeldLate(m)'
      /\ m \in Waiting => InFlight(m)' /\ pc'[m] \notin Waking
  <2>1. \A d \in Cmd \ {m} : mem'[d] = mem[d]
    BY <1>1, <1>3 DEF QueueTypes
  <2>2. pc'[c] \in Looping /\ hand'[c] \in {m, NoCmd}
    BY <1>3 DEF Looping
  <2>3. \A d \in Cmd \ {m} : /\ \A k \in Queues : In(k, d)' <=> In(k, d)
                             /\ mem'[d] = mem[d] /\ state'[d] = state[d] /\ seq'[d] = seq[d]
                             /\ ackDone'[d] = ackDone[d] /\ urb'[d] = urb[d]
    BY <1>3, <1>4, <2>1
  <2> QED BY <1>2, <1>3, <2>2, <2>3, HandStep
<1>6. /\ Alive(m) /\ ~urb[m] /\ rx # m /\ (\A k \in Queues : ~In(k, m)) /\ m \notin fw
      /\ state[m] = "tx_start" /\ (m \in Waiting => ~ackDone[m])
  BY <1>2, <1>3, InHand DEF Early
<1>7. Fits(m)'
  <2>1. OnePlace(m)' /\ Underway(m)'
    BY <1>3, <1>4, <1>5, <1>6 DEF OnePlace, Nowhere, Underway
  <2>2. pc'[m] # "none"
    <3>1. pc[m] # "none"
      BY <1>6 DEF OrderInv, KeptInv, Made
    <3> QED BY <1>3, <3>1
  <2>3. Known(m)'
    BY <1>3, <1>4, <1>5, <1>6, <2>2 DEF Known, Queues
  <2>4. ASSUME m \in Waiting PROVE Awaiting(m)'
    <3>1. Alive(m)'
      BY <1>1, <1>3, <1>6, <2>4 DEF Alive, QueueTypes
    <3>2. ~ackDone'[m] /\ ~In("tx_doneq", m)' /\ state'[m] = "tx_start"
      BY <1>3, <1>4, <1>6, <2>4 DEF Queues
    <3> QED BY <1>5, <2>4, <3>1, <3>2, AwaitingStill
  <2> QED BY <2>1, <2>3, <2>4 DEF Fits
<1>8. Numbers'
  <2>1. \A d \in Waiting : Numbered(d)' => Numbered(d)
    BY <1>1, <1>3, <1>4, <1>5 DEF Numbered, Queues
  <2> QED BY <1>1, <1>3, <1>5, <2>1, NumbersKept
<1>9. Lists'
  BY <1>1, <1>3 DEF Lists
<1> QED BY <1>3, <1>5, <1>7, <1>8, <1>9 DEF Ordered

LEMMA RequeueOrdered == ASSUME OrderInv, NEW c \in Cmd, Requeue(c) PROVE Ordered'
<1>1. /\ QueueTypes /\ Hands /\ Control /\ HeldOnce /\ Lists /\ Numbers /\ mishaps = {}
      /\ cmdSeq \in Nat /\ \A d \in Cmd : Fits(d) /\ seq[d] \in Nat
      /\ NoCmd \notin Cmd /\ Waiting \subseteq Cmd
  BY Parts
<1>2. PICK m \in Cmd : m = hand[c]
  BY <1>1 DEF Requeue, Hands, Holding
<1>3. /\ pc[c] = "have" /\ pc'[c] = "loop"
      /\ hand'[c] = NoCmd /\ NoCmd # m
      /\ \A d \in Cmd \ {c} : pc'[d] = pc[d] /\ hand'[d] = hand[d]
      /\ q' = [q EXCEPT !["txq"] = <<m>> \o @] /\ Mishap("", "txq", m)
      /\ mem' = mem /\ state' = state /\ seq' = seq /\ ackDone' = ackDone /\ urb' = urb
      /\ cmdSeq' = cmdSeq /\ mcuInit' = mcuInit /\ rx' = rx /\ fw' = fw
  BY <1>1, <1>2 DEF Requeue, Goto, msg, QueueTypes
<1>4. /\ Alive(m) /\ ~urb[m] /\ rx # m /\ (\A k \in Queues : ~In(k, m)) /\ m \notin fw
      /\ state[m] = "tx_start" /\ (m \in Waiting => ~ackDone[m])
  BY <1>2, <1>3, InHand DEF Early
<1>5. /\ Lists'
      /\ \A k \in Queues, d \in Cmd : In(k, d)' <=> In(k, d) \/ (k = "txq" /\ d = m)
  BY <1>1, <1>3, <1>4, HeadQueued DEF Queues
<1>6. /\ Control' /\ mcuInit /\ \A d \in Cmd \ {m} : Fits(d)'
      /\ ~HeldEarly(m)' /\ ~HeldLate(m)'
      /\ m \in Waiting => InFlight(m)' /\ pc'[m] \notin Waking
  <2>1. pc'[c] \in Looping /\ hand'[c] \in {m, NoCmd}
    BY <1>3 DEF Looping
  <2>2. \A d \in Cmd \ {m} : /\ \A k \in Queues : In(k, d)' <=> In(k, d)
                             /\ mem'[d] = mem[d] /\ state'[d] = state[d] /\ seq'[d] = seq[d]
                             /\ ackDone'[d] = ackDone[d] /\ urb'[d] = urb[d]
    BY <1>3, <1>5
  <2> QED BY <1>2, <1>3, <2>1, <2>2, HandStep
<1>7. mishaps' = {}
  BY <1>1, <1>3, <1>4, NoMishap
<1>8. Fits(m)'
  <2>1. pc'[m] # "none"
    <3>1. pc[m] # "none"
      BY <1>4 DEF OrderInv, KeptInv, Made
    <3> QED BY <1>3, <3>1
  <2>2. OnePlace(m)' /\ Underway(m)' /\ Known(m)'
    BY <1>3, <1>4, <1>5, <1>6, <2>1 DEF OnePlace, Nowhere, Underway, Known, Queues, Alive
  <2>3. ASSUME m \in Waiting PROVE Awaiting(m)'
    <3>1. ~ackDone'[m] /\ ~In("tx_doneq", m)' /\ state'[m] = "tx_start" /\ Alive(m)'
      BY <1>3, <1>4, <1>5, <2>3 DEF Queues, Alive
    <3> QED BY <1>6, <2>3, <3>1, AwaitingStill
  <2> QED BY <2>2, <2>3 DEF Fits
<1>9. Numbers'
  <2>1. \A d \in Waiting : Numbered(d)' => Numbered(d)
    BY <1>1, <1>3, <1>5, <1>6 DEF Numbered, Queues
  <2> QED BY <1>1, <1>3, <1>6, <2>1, NumbersKept
<1> QED BY <1>5, <1>6, <1>7, <1>8, <1>9 DEF Ordered

\* the steps that leave the command in the hand, and the queues
LEMMA HoldsOn ==
  ASSUME OrderInv, NEW c \in Cmd, NEW m \in Cmd, hand[c] = m, pc[c] \in Early,
         pc'[c] \in Early, hand'[c] = m,
         \A d \in Cmd \ {c} : pc'[d] = pc[d] /\ hand'[d] = hand[d],
         pc'[c] \in {"seq", "seqread"} => m \in Waiting, UNCHANGED <<q, mcuInit, rx, fw, mishaps>>,
         UNCHANGED <<mem, state, ackDone, urb>>,
         \A d \in Cmd \ {m} : seq'[d] = seq[d]
  PROVE  /\ Control' /\ Lists' /\ mishaps' = {} /\ \A d \in Cmd : Fits(d)'
         /\ \A d \in Cmd : In("ackq", d)' <=> In("ackq", d)
<1>1. /\ QueueTypes /\ Lists /\ mishaps = {} /\ Fits(m)
  BY Parts
<1>2. /\ Alive(m) /\ ~urb[m] /\ rx # m /\ (\A k \in Queues : ~In(k, m)) /\ m \notin fw
      /\ state[m] = "tx_start" /\ (m \in Waiting => ~ackDone[m])
  BY InHand
<1>3. \A k \in Queues, d \in Cmd : In(k, d)' <=> In(k, d)
  BY DEF In
<1>4. pc'[c] \in Looping /\ pc'[c] # "submit"
  BY DEF Early, Looping
<1>5. /\ Control' /\ mcuInit /\ \A d \in Cmd \ {m} : Fits(d)'
      /\ HeldEarly(m)' /\ ~HeldLate(m)'
      /\ m \in Waiting => InFlight(m)' /\ pc'[m] \notin Waking
  <2>1. hand'[c] \in {m, NoCmd} /\ (pc'[c] \in {"seq", "seqread"} => hand'[c] \in Waiting)
    OBVIOUS
  <2>2. \A d \in Cmd \ {m} : /\ \A k \in Queues : In(k, d)' <=> In(k, d)
                             /\ mem'[d] = mem[d] /\ state'[d] = state[d] /\ seq'[d] = seq[d]
                             /\ ackDone'[d] = ackDone[d] /\ urb'[d] = urb[d]
    BY <1>3
  <2>3. mcuInit' = mcuInit /\ rx' = rx /\ fw' = fw
    OBVIOUS
  <2> QED BY <1>4, <2>1, <2>2, <2>3, HandStep
<1>6. Fits(m)'
  <2>1. pc'[m] # "none"
    <3>1. pc[m] # "none"
      BY <1>2 DEF OrderInv, KeptInv, Made
    <3> QED BY <1>4, <1>5, <3>1 DEF Looping
  <2>2. OnePlace(m)' /\ Underway(m)' /\ Known(m)'
    BY <1>2, <1>3, <1>5, <2>1 DEF OnePlace, Nowhere, Underway, Known, Queues, Alive
  <2>3. ASSUME m \in Waiting PROVE Awaiting(m)'
    <3>1. ~ackDone'[m] /\ ~In("tx_doneq", m)' /\ state'[m] = "tx_start" /\ Alive(m)'
      BY <1>2, <1>3, <2>3 DEF Queues, Alive
    <3> QED BY <1>5, <2>3, <3>1, AwaitingStill
  <2> QED BY <2>2, <2>3 DEF Fits
<1>7. Lists'
  BY <1>1 DEF Lists
<1> QED BY <1>1, <1>3, <1>5, <1>6, <1>7 DEF Queues

LEMMA AcceptOrdered == ASSUME OrderInv, NEW c \in Cmd, Accept(c) PROVE Ordered'
<1>1. /\ Hands /\ Numbers /\ NoCmd \notin Cmd /\ Waiting \subseteq Cmd /\ Waiting \cap Posted = {}
      /\ QueueTypes
  BY Parts
<1>2. PICK m \in Cmd : m = hand[c]
  BY <1>1 DEF Accept, Hands, Holding
<1>a. hand'[c] = m /\ \A d \in Cmd \ {c} : hand'[d] = hand[d]
  BY <1>2 DEF Accept
<1>3. /\ pc'[c] = IF m \in Waiting THEN "seq" ELSE "queue"
      /\ \A d \in Cmd \ {c} : pc'[d] = pc[d]
  BY <1>1, <1>2 DEF Accept, Goto, QueueTypes
<1>4. /\ pc[c] \in Early /\ seq' = seq /\ cmdSeq' = cmdSeq
      /\ UNCHANGED <<q, mcuInit, rx, fw, mishaps>> /\ UNCHANGED <<mem, state, ackDone, urb>>
  BY DEF Accept, Early, ctl, msg
<1>5. /\ Control' /\ Lists' /\ mishaps' = {} /\ \A d \in Cmd : Fits(d)'
      /\ \A d \in Cmd : In("ackq", d)' <=> In("ackq", d)
  <2>1. pc'[c] \in Early /\ (pc'[c] \in {"seq", "seqread"} => m \in Waiting)
    BY <1>3 DEF Early
  <2> QED BY <1>2, <1>3, <1>4, <1>a, <2>1, HoldsOn
<1>6. Numbers'
  <2>1. \A d \in Waiting : Numbered(d)' => Numbered(d)
    BY <1>1, <1>2, <1>3, <1>4, <1>5, <1>a DEF Numbered
  <2> QED BY <1>1, <1>3, <1>4, <1>5, <2>1, NumbersKept
<1> QED BY <1>5, <1>6 DEF Ordered

\* a command that gets a number is the only one that waits
LEMMA Alone ==
  ASSUME OrderInv, NEW c \in Cmd, pc[c] \in {"seq", "seqread"}
  PROVE  /\ hand[c] \in Waiting /\ \A d \in Waiting : ~Numbered(d)
         /\ \A d \in Cmd : pc[d] \in {"seq", "seqread"} => d = c
         /\ \A d \in Cmd : ~In("ackq", d)
<1>1. /\ Control /\ HeldOnce /\ NoCmd \notin Cmd /\ Waiting \subseteq Cmd
      /\ \A d \in Cmd : Fits(d)
  BY Parts
<1>2. hand[c] \in Waiting /\ \A d \in Cmd : pc[d] \in {"seq", "seqread"} => hand[d] \in Waiting
  BY <1>1 DEF Control, NumbersFor
<1>3. \A d \in Cmd : hand[d] \in Waiting => InFlight(hand[d])
  BY <1>1, InHand
<1>4. \A d \in Cmd : hand[d] \in Waiting => d = c
  BY <1>1, <1>2, <1>3 DEF Control, OneAtATime, HeldOnce
<1>5. \A d \in Cmd : ~In("ackq", d)
  <2> SUFFICES ASSUME NEW d \in Cmd, In("ackq", d) PROVE FALSE
    OBVIOUS
  <2>1. d \in Waiting /\ InFlight(d)
    BY <1>1, OnItsWay DEF Fits, Known
  <2>2. d = hand[c]
    BY <1>1, <1>2, <1>3, <2>1 DEF Control, OneAtATime
  <2>3. \A k \in Queues : ~In(k, d)
    BY <2>2, InHand DEF Early
  <2> QED BY <2>3 DEF Queues
<1>6. \A d \in Waiting : ~Numbered(d)
  BY <1>1, <1>4, <1>5 DEF Numbered
<1> QED BY <1>2, <1>4, <1>5, <1>6

LEMMA SeqOrdered == ASSUME OrderInv, NEW c \in Cmd, AndesGetCmdMsgSeq(c)
                    PROVE  Ordered' /\ cmdSeq' \in Nat
<1>1. /\ Numbers /\ cmdSeq \in Nat /\ (\A d \in Cmd : seq[d] \in Nat) /\ QueueTypes
  BY Parts
<1>2. /\ pc[c] = "seq" /\ pc'[c] = "seqread" /\ (\A d \in Cmd \ {c} : pc'[d] = pc[d])
      /\ hand' = hand /\ seq' = seq
      /\ UNCHANGED <<q, mcuInit, rx, fw, mishaps>> /\ UNCHANGED <<mem, state, ackDone, urb>>
  BY <1>1 DEF AndesGetCmdMsgSeq, Goto, msg, QueueTypes
<1>3. /\ hand[c] \in Waiting /\ (\A d \in Waiting : ~Numbered(d))
      /\ (\A d \in Cmd : pc[d] \in {"seq", "seqread"} => d = c)
      /\ \A d \in Cmd : ~In("ackq", d)
  BY <1>2, Alone
<1>4. /\ Control' /\ Lists' /\ mishaps' = {} /\ \A d \in Cmd : Fits(d)'
      /\ \A d \in Cmd : In("ackq", d)' <=> In("ackq", d)
  <2>1. PICK m \in Cmd : m = hand[c] /\ m \in Waiting
    BY <1>3 DEF Cmd
  <2>2. hand'[c] = m /\ \A d \in Cmd \ {c} : pc'[d] = pc[d] /\ hand'[d] = hand[d]
    BY <1>2, <2>1
  <2>3. /\ pc[c] \in Early /\ pc'[c] \in Early
        /\ UNCHANGED <<q, mcuInit, rx, fw, mishaps>> /\ UNCHANGED <<mem, state, ackDone, urb>>
        /\ \A d \in Cmd \ {m} : seq'[d] = seq[d]
    BY <1>2 DEF Early
  <2> QED BY <2>1, <2>2, <2>3, HoldsOn
<1>5. cmdSeq' \in Nat /\ cmdSeq' > cmdSeq
  <2> DEFINE I == {n \in cmdSeq + 1 .. cmdSeq + SeqMax :
                     \A m \in Range(q["ackq"]) : Number(seq[m]) # Number(n)}
  <2>1. cmdSeq' = Min(I)
    BY DEF AndesGetCmdMsgSeq
  <2>2. Range(q["ackq"]) = {}
    <3>1. q["ackq"] \in Seq(Cmd)
      BY Parts DEF QueueTypes, Queues
    <3>2. \A i \in DOMAIN q["ackq"] : q["ackq"][i] \in Cmd
      BY <3>1
    <3> QED BY <1>3, <3>2 DEF In, ToSet, Range
  <2>3. cmdSeq + 1 \in I
    BY <1>1, <2>2, SeqAssumption
  <2>4. I \subseteq Nat /\ \A n \in I : n > cmdSeq
    BY <1>1
  <2> HIDE DEF I
  <2>5. Min(I) \in I
    BY <2>3, <2>4, Smallest
  <2> QED BY <2>1, <2>4, <2>5
<1>6. Numbers'
  <2>1. \A d \in Waiting : ~Numbered(d)'
    <3>1. \A d \in Waiting : ~In("ackq", d)'
      BY <1>3, <1>4 DEF Cmd
    <3>2. \A d \in Cmd : pc'[d] \in {"queue", "submit"} => pc'[d] = pc[d]
      BY <1>2
    <3> QED BY <1>2, <1>3, <3>1, <3>2 DEF Numbered
  <2>2. \A d \in Cmd : seq[d] < cmdSeq'
    BY <1>1, <1>5 DEF Numbers
  <2>3. \A d \in Cmd : seq[d] <= cmdSeq'
    BY <1>1, <1>5, <2>2
  <2> QED BY <1>2, <2>1, <2>2, <2>3 DEF Numbers
<1> QED BY <1>4, <1>5, <1>6 DEF Ordered

LEMMA ReadOrdered == ASSUME OrderInv, NEW c \in Cmd, ReadSeq(c) PROVE Ordered'
<1>1. /\ Numbers /\ cmdSeq \in Nat /\ (\A d \in Cmd : seq[d] \in Nat)
      /\ Waiting \subseteq Cmd /\ HeldOnce /\ NoCmd \notin Cmd /\ QueueTypes
  BY Parts
<1>2. /\ pc[c] = "seqread" /\ pc'[c] = "queue" /\ (\A d \in Cmd \ {c} : pc'[d] = pc[d])
      /\ hand' = hand
      /\ cmdSeq' = cmdSeq
      /\ UNCHANGED <<q, mcuInit, rx, fw, mishaps>> /\ UNCHANGED <<mem, state, ackDone, urb>>
  BY <1>1 DEF ReadSeq, Goto, ctl, QueueTypes
<1>3. /\ hand[c] \in Waiting /\ (\A d \in Waiting : ~Numbered(d))
      /\ (\A d \in Cmd : pc[d] \in {"seq", "seqread"} => d = c)
      /\ \A d \in Cmd : ~In("ackq", d)
  BY <1>2, Alone
<1>4. PICK m \in Waiting : m = hand[c]
  BY <1>3
<1>5. /\ seq'[m] = cmdSeq /\ \A d \in Cmd \ {m} : seq'[d] = seq[d]
  BY <1>1, <1>4 DEF ReadSeq, OrderInv, TypeOK
<1>6. /\ Control' /\ Lists' /\ mishaps' = {} /\ \A d \in Cmd : Fits(d)'
      /\ \A d \in Cmd : In("ackq", d)' <=> In("ackq", d)
  <2>1. m \in Cmd /\ hand'[c] = m /\ \A d \in Cmd \ {c} : pc'[d] = pc[d] /\ hand'[d] = hand[d]
    BY <1>1, <1>2, <1>4
  <2>2. /\ pc[c] \in Early /\ pc'[c] = "queue" /\ pc'[c] \in Early
        /\ UNCHANGED <<q, mcuInit, rx, fw, mishaps>> /\ UNCHANGED <<mem, state, ackDone, urb>>
    BY <1>2 DEF Early
  <2> QED BY <1>4, <1>5, <2>1, <2>2, HoldsOn
<1>7. Numbers'
  <2>1. \A d \in Cmd : seq[d] < cmdSeq
    BY <1>1, <1>2 DEF Numbers
  <2>2. \A d \in Waiting : Numbered(d)' => d = m
    <3>1. \A d \in Waiting : ~In("ackq", d)'
      BY <1>1, <1>3, <1>6
    <3>2. \A d \in Cmd : pc'[d] \in {"queue", "submit"} => d = c \/ pc'[d] = pc[d]
      BY <1>2
    <3> QED BY <1>2, <1>3, <1>4, <3>1, <3>2 DEF Numbered
  <2>3. \A d \in Cmd : seq'[d] <= cmdSeq'
    BY <1>1, <1>2, <1>5, <2>1
  <2>4. cmdSeq >= 1 /\ \A d \in Cmd \ {m} : seq'[d] < cmdSeq'
    BY <1>1, <1>2, <1>5, <2>1
  <2>5. \A d \in Cmd : pc'[d] # "seqread"
    BY <1>2, <1>3
  <2> QED BY <1>2, <1>5, <2>2, <2>3, <2>4, <2>5 DEF Numbers
<1> QED BY <1>6, <1>7 DEF Ordered

LEMMA KickOutOrdered == ASSUME OrderInv, NEW c \in Cmd, KickOut(c) PROVE Ordered'
<1>1. /\ QueueTypes /\ Hands /\ Control /\ HeldOnce /\ Lists /\ Numbers /\ mishaps = {}
      /\ cmdSeq \in Nat /\ (\A d \in Cmd : Fits(d) /\ seq[d] \in Nat)
      /\ NoCmd \notin Cmd /\ Waiting \subseteq Cmd /\ Waiting \cap Posted = {}
  BY Parts
<1>2. PICK m \in Cmd : m = hand[c]
  BY <1>1 DEF KickOut, Hands, Holding
<1>3. PICK n \in {"ackq", "kickq"} : n = IF m \in Waiting THEN "ackq" ELSE "kickq"
  OBVIOUS
<1>4. /\ pc[c] = "queue" /\ pc'[c] = "submit" /\ hand'[c] = m
      /\ \A d \in Cmd \ {c} : pc'[d] = pc[d] /\ hand'[d] = hand[d]
      /\ q' = [q EXCEPT ![n] = Append(@, m)] /\ Mishap("", n, m)
      /\ state'[m] = IF m \in Waiting THEN Out ELSE "wait_cmd_out"
      /\ \A d \in Cmd \ {m} : state'[d] = state[d]
      /\ mem' = mem /\ seq' = seq /\ ackDone' = ackDone /\ urb' = urb
      /\ cmdSeq' = cmdSeq /\ mcuInit' = mcuInit /\ rx' = rx /\ fw' = fw
  <2>1. state \in [Cmd -> States]
    BY DEF OrderInv, TypeOK
  <2>2. CASE m \in Waiting
    BY <1>1, <1>2, <1>3, <2>1, <2>2 DEF KickOut, Goto, QueueTail, SetState, QueueTypes, Out
  <2>3. CASE m \notin Waiting
    BY <1>1, <1>2, <1>3, <2>1, <2>3 DEF KickOut, Goto, QueueTail, SetState, QueueTypes, Out
  <2> QED BY <2>2, <2>3
<1>5. /\ Alive(m) /\ ~urb[m] /\ rx # m /\ (\A k \in Queues : ~In(k, m)) /\ m \notin fw
      /\ (m \in Waiting => ~ackDone[m])
  BY <1>2, <1>4, InHand DEF Early
<1>6. /\ Lists'
      /\ \A k \in Queues, d \in Cmd : In(k, d)' <=> In(k, d) \/ (k = n /\ d = m)
  <2>1. n \in Queues /\ ~In(n, m) /\ q' = [q EXCEPT ![n] = Append(@, m)]
    BY <1>4, <1>5 DEF Queues
  <2> QED BY <1>1, <2>1, TailQueued
<1>7. /\ Control' /\ mcuInit /\ (\A d \in Cmd \ {m} : Fits(d)')
      /\ ~HeldEarly(m)' /\ HeldLate(m)'
      /\ m \in Waiting => InFlight(m)' /\ pc'[m] \notin Waking
  <2>1. pc'[c] \in Looping /\ pc'[c] \notin Early /\ hand'[c] \in {m, NoCmd}
    BY <1>4 DEF Looping, Early
  <2>2. \A d \in Cmd \ {m} : /\ \A k \in Queues : In(k, d)' <=> In(k, d)
                             /\ mem'[d] = mem[d] /\ state'[d] = state[d] /\ seq'[d] = seq[d]
                             /\ ackDone'[d] = ackDone[d] /\ urb'[d] = urb[d]
    BY <1>4, <1>6
  <2> QED BY <1>2, <1>4, <2>1, <2>2, HandStep
<1>8. mishaps' = {}
  BY <1>1, <1>4, <1>5, NoMishap
<1>9. Fits(m)'
  <2>1. pc'[m] # "none"
    <3>1. pc[m] # "none"
      BY <1>5 DEF OrderInv, KeptInv, Made
    <3> QED BY <1>4, <3>1
  <2>2. m \in Posted <=> m \notin Waiting
    BY <1>1 DEF Cmd
  <2>3. OnePlace(m)' /\ Underway(m)' /\ Known(m)'
    BY <1>3, <1>4, <1>5, <1>6, <1>7, <2>1, <2>2
       DEF OnePlace, Nowhere, Underway, SentOut, Known, Queues, Alive, Out
  <2>4. ASSUME m \in Waiting PROVE Awaiting(m)'
    <3>1. /\ ~ackDone'[m] /\ ~In("tx_doneq", m)' /\ state'[m] = Out /\ In("ackq", m)' /\ Alive(m)'
      BY <1>3, <1>4, <1>5, <1>6, <2>4 DEF Queues, Alive
    <3> QED BY <1>7, <2>4, <3>1, AwaitingStill
  <2> QED BY <2>3, <2>4 DEF Fits
<1>10. Numbers'
  <2>1. \A d \in Waiting : Numbered(d)' => Numbered(d)
    <3> SUFFICES ASSUME NEW d \in Waiting, Numbered(d)' PROVE Numbered(d)
      OBVIOUS
    <3>1. d = m => Numbered(d)
      BY <1>2, <1>4 DEF Numbered
    <3>2. ASSUME d # m PROVE Numbered(d)
      <4>1. In("ackq", d)' <=> In("ackq", d)
        BY <1>1, <1>6, <3>2 DEF Queues
      <4> QED BY <1>4, <3>2, <4>1 DEF Numbered
    <3> QED BY <3>1, <3>2
  <2> QED BY <1>1, <1>4, <2>1, NumbersKept
<1> QED BY <1>6, <1>7, <1>8, <1>9, <1>10 DEF Ordered

LEMMA SubmitOrdered == ASSUME OrderInv, NEW c \in Cmd, Submit(c) PROVE Ordered'
<1>1. /\ QueueTypes /\ Hands /\ Control /\ HeldOnce /\ Lists /\ Numbers /\ mishaps = {}
      /\ cmdSeq \in Nat /\ (\A d \in Cmd : Fits(d) /\ seq[d] \in Nat)
      /\ NoCmd \notin Cmd /\ Waiting \subseteq Cmd /\ Waiting \cap Posted = {}
  BY Parts
<1>2. PICK m \in Cmd : m = hand[c]
  BY <1>1 DEF Submit, Hands, Holding
<1>3. /\ pc[c] = "submit" /\ pc'[c] = "loop" /\ hand'[c] = NoCmd /\ NoCmd # m
      /\ \A d \in Cmd \ {c} : pc'[d] = pc[d] /\ hand'[d] = hand[d]
      /\ urb'[m] = TRUE /\ (\A d \in Cmd \ {m} : urb'[d] = urb[d])
      /\ mem' = mem /\ seq' = seq /\ ackDone' = ackDone /\ state' = state /\ q' = q
      /\ cmdSeq' = cmdSeq /\ mcuInit' = mcuInit /\ rx' = rx /\ fw' = fw /\ mishaps' = {}
  BY <1>1, <1>2 DEF Submit, Goto, QueueTypes, OrderInv, TypeOK, ctl
<1>4. /\ Alive(m) /\ SentOut(m) /\ ~HeldEarly(m) /\ rx # m
      /\ (m \in Waiting => ~ackDone[m])
  BY <1>2, <1>3, InHand
<1>5. \A k \in Queues, d \in Cmd : In(k, d)' <=> In(k, d)
  BY <1>3 DEF In
<1>6. /\ Control' /\ mcuInit /\ (\A d \in Cmd \ {m} : Fits(d)')
      /\ ~HeldEarly(m)' /\ ~HeldLate(m)'
      /\ m \in Waiting => InFlight(m)' /\ pc'[m] \notin Waking
  <2>1. pc'[c] \in Looping /\ hand'[c] \in {m, NoCmd}
    BY <1>3 DEF Looping
  <2>2. \A d \in Cmd \ {m} : /\ \A k \in Queues : In(k, d)' <=> In(k, d)
                             /\ mem'[d] = mem[d] /\ state'[d] = state[d] /\ seq'[d] = seq[d]
                             /\ ackDone'[d] = ackDone[d] /\ urb'[d] = urb[d]
    BY <1>3, <1>5
  <2> QED BY <1>2, <1>3, <2>1, <2>2, HandStep
<1>7. Fits(m)'
  <2>1. pc'[m] # "none"
    <3>1. pc[m] # "none"
      BY <1>4 DEF OrderInv, KeptInv, Made
    <3> QED BY <1>3, <3>1
  <2>2. Fits(m) /\ (SentOut(m)' <=> SentOut(m)) /\ (Nowhere(m)' => Nowhere(m))
    BY <1>1, <1>3, <1>4, <1>5 DEF SentOut, Nowhere, Queues
  <2>3. OnePlace(m)' /\ Underway(m)'
    BY <1>3, <1>4, <1>5, <1>6, <2>2 DEF Fits, OnePlace, Underway, Alive
  <2>4. Known(m)'
    BY <1>3, <1>4, <1>5, <1>6, <2>1, <2>2 DEF Fits, Known, Queues
  <2>5. ASSUME m \in Waiting PROVE Awaiting(m)'
    <3>1. m \notin Posted /\ In("ackq", m) /\ state[m] = Out /\ ~In("tx_doneq", m)
      BY <1>1, <1>4, <2>2, <2>5 DEF SentOut, Fits, OnePlace, Queues
    <3>2. /\ ~ackDone'[m] /\ ~In("tx_doneq", m)' /\ state'[m] = Out /\ In("ackq", m)' /\ Alive(m)'
      BY <1>3, <1>4, <1>5, <2>5, <3>1 DEF Queues, Alive
    <3> QED BY <1>3, <1>6, <2>5, <3>2, AwaitingStill
  <2> QED BY <2>3, <2>4, <2>5 DEF Fits
<1>8. Numbers'
  <2>1. \A d \in Waiting : Numbered(d)' => Numbered(d)
    BY <1>1, <1>3, <1>5 DEF Numbered, Queues
  <2> QED BY <1>1, <1>3, <2>1, NumbersKept
<1>9. Lists'
  BY <1>1, <1>3 DEF Lists
<1> QED BY <1>3, <1>6, <1>7, <1>8, <1>9 DEF Ordered

\* a failed URB: a command that waits is in no queue afterwards, and told so; a
\* posted one is with the tasklet
LEMMA FailsInOrder ==
  ASSUME OrderInv, NEW m \in Cmd, SentOut(m), KickOutFails(m)
  PROVE  /\ Lists' /\ mishaps' = {}
         /\ \A d \in Cmd \ {m}, k \in Queues : In(k, d)' <=> In(k, d)
         /\ \A k \in Queues : In(k, m)' <=> k = "tx_doneq" /\ m \in Posted
         /\ state'[m] = "tx_kickout_fail" /\ \A d \in Cmd \ {m} : state'[d] = state[d]
         /\ m \in Waiting => ackDone'[m]
         /\ \A d \in Cmd \ {m} : ackDone'[d] = ackDone[d]
         /\ m \in Waiting => In("ackq", m) /\ state[m] = Out
<1>1. /\ QueueTypes /\ Lists /\ mishaps = {} /\ Fits(m) /\ (m \in Posted <=> m \notin Waiting)
      /\ state \in [Cmd -> States] /\ ackDone \in [Cmd -> BOOLEAN]
  <2>1. m \in Posted <=> m \notin Waiting
    BY CommandsAssumption DEF Cmd
  <2> QED BY <2>1, Parts DEF OrderInv, TypeOK
<1>2. /\ state'[m] = "tx_kickout_fail" /\ \A d \in Cmd \ {m} : state'[d] = state[d]
  BY <1>1 DEF KickOutFails, SetState
<1>3. CASE m \in Waiting
  <2>1. /\ q' = [q EXCEPT !["ackq"] = RemoveFirst(@, m)] /\ Mishap("ackq", "", m)
        /\ ackDone' = [ackDone EXCEPT ![m] = TRUE]
    BY <1>3 DEF KickOutFails, Unlink
  <2>2. In("ackq", m) /\ state[m] = Out
    BY <1>1, <1>3 DEF SentOut
  <2>3. Alive(m) /\ \A k \in Queues \ {"ackq"} : ~In(k, m)
    BY <1>1, <2>2 DEF Fits, OnePlace, Nowhere, Queues
  <2>4. Lists' /\ \A k \in Queues, d \in Cmd : In(k, d)' <=> In(k, d) /\ ~(k = "ackq" /\ d = m)
    BY <1>1, <2>1, TakenOut DEF Queues
  <2>5. mishaps' = {}
    BY <1>1, <2>1, <2>2, <2>3, NoMishap DEF Queues
  <2>6. ackDone'[m] /\ \A d \in Cmd \ {m} : ackDone'[d] = ackDone[d]
    BY <1>1, <2>1
  <2>7. /\ \A d \in Cmd \ {m}, k \in Queues : In(k, d)' <=> In(k, d)
        /\ \A k \in Queues : In(k, m)' <=> k = "tx_doneq" /\ m \in Posted
    BY <1>1, <1>3, <2>2, <2>3, <2>4
  <2> QED BY <1>2, <1>3, <2>2, <2>4, <2>5, <2>6, <2>7
<1>4. CASE m \in Posted
  <2>1. /\ q' = [q EXCEPT !["kickq"] = RemoveFirst(@, m), !["tx_doneq"] = Append(@, m)]
        /\ Mishap("kickq", "tx_doneq", m) /\ ackDone' = ackDone
    BY <1>1, <1>4 DEF KickOutFails, Move
  <2>2. In("kickq", m)
    BY <1>1, <1>4 DEF SentOut
  <2>3. Alive(m) /\ \A k \in Queues \ {"kickq"} : ~In(k, m)
    BY <1>1, <2>2 DEF Fits, OnePlace, Nowhere, Queues
  <2>4. /\ Lists'
        /\ \A k \in Queues, d \in Cmd :
             In(k, d)' <=> \/ In(k, d) /\ ~(k = "kickq" /\ d = m)
                           \/ k = "tx_doneq" /\ d = m
    BY <1>1, <2>1, <2>3, MovedOn DEF Queues
  <2>5. mishaps' = {}
    BY <1>1, <2>1, <2>2, <2>3, NoMishap DEF Queues
  <2>6. /\ \A d \in Cmd \ {m}, k \in Queues : In(k, d)' <=> In(k, d)
        /\ \A k \in Queues : In(k, m)' <=> k = "tx_doneq" /\ m \in Posted
    BY <1>4, <2>2, <2>3, <2>4
  <2> QED BY <1>1, <1>2, <1>4, <2>1, <2>4, <2>5, <2>6
<1> QED BY <1>3, <1>4 DEF Cmd

\* such a command fits: its sender goes on, or, with a killed URB, gives up
LEMMA FailedFits ==
  ASSUME OrderInv, NEW m \in Cmd, SentOut(m), KickOutFails(m), rx' = rx, fw' = fw, mem' = mem,
         seq' = seq, ~urb'[m], ~HeldEarly(m)', ~HeldLate(m)',
         m \in Waiting => InFlight(m)' /\ pc'[m] \notin {"kill", "unlink", "final"},
         pc'[m] # "none"
  PROVE  Fits(m)'
<1>1. /\ (\A k \in Queues : In(k, m)' <=> k = "tx_doneq" /\ m \in Posted)
      /\ state'[m] = "tx_kickout_fail" /\ (m \in Waiting => ackDone'[m])
  BY FailsInOrder
<1>2. /\ Fits(m) /\ (m \in Posted <=> m \notin Waiting)
  <2>1. m \in Posted <=> m \notin Waiting
    BY CommandsAssumption DEF Cmd
  <2> QED BY <2>1, Parts
<1>3. rx # m /\ Alive(m) /\ ~In("tx_doneq", m)
  BY <1>2 DEF Fits, SentOut, OnePlace, Nowhere, Queues
<1>4. OnePlace(m)' /\ Underway(m)'
  BY <1>1, <1>2, <1>3 DEF OnePlace, Nowhere, Underway, Alive, Queues
<1>5. Known(m)'
  BY <1>1, <1>2, <1>3 DEF Fits, Known, Queues, Final, Out
<1>6. ASSUME m \in Waiting PROVE Awaiting(m)'
  <2>1. Nowhere(m)' /\ Alive(m)' /\ ~In("tx_doneq", m)'
    BY <1>1, <1>2, <1>3, <1>6 DEF Nowhere, Alive, Queues
  <2> QED BY <1>1, <1>6, <2>1 DEF Awaiting
<1> QED BY <1>4, <1>5, <1>6 DEF Fits

LEMMA SubmitFailsOrdered == ASSUME OrderInv, NEW c \in Cmd, SubmitFails(c) PROVE Ordered'
<1>1. /\ QueueTypes /\ Hands /\ Control /\ HeldOnce /\ Numbers /\ cmdSeq \in Nat
      /\ (\A d \in Cmd : Fits(d) /\ seq[d] \in Nat)
      /\ NoCmd \notin Cmd /\ Waiting \subseteq Cmd /\ Waiting \cap Posted = {}
  BY Parts
<1>2. PICK m \in Cmd : m = hand[c]
  BY <1>1 DEF SubmitFails, Hands, Holding
<1>3. /\ pc[c] = "submit" /\ hand'[c] = NoCmd /\ NoCmd # m /\ KickOutFails(m)
      /\ pc'[c] = IF c \in Waiting THEN "wait" ELSE "end"
      /\ \A d \in Cmd \ {c} : pc'[d] = pc[d] /\ hand'[d] = hand[d]
      /\ mem' = mem /\ seq' = seq /\ urb' = urb
      /\ cmdSeq' = cmdSeq /\ mcuInit' = mcuInit /\ rx' = rx /\ fw' = fw
  BY <1>1, <1>2 DEF SubmitFails, Leave, Goto, QueueTypes
<1>4. /\ Alive(m) /\ SentOut(m) /\ ~urb[m]
  BY <1>2, <1>3, InHand
<1>5. /\ Lists' /\ mishaps' = {}
      /\ \A d \in Cmd \ {m}, k \in Queues : In(k, d)' <=> In(k, d)
      /\ \A k \in Queues : In(k, m)' <=> k = "tx_doneq" /\ m \in Posted
      /\ \A d \in Cmd \ {m} : state'[d] = state[d] /\ ackDone'[d] = ackDone[d]
  BY <1>3, <1>4, FailsInOrder
<1>6. /\ Control' /\ mcuInit /\ (\A d \in Cmd \ {m} : Fits(d)')
      /\ ~HeldEarly(m)' /\ ~HeldLate(m)'
      /\ m \in Waiting => InFlight(m)' /\ pc'[m] \notin Waking
  <2>1. /\ hand'[c] \in {m, NoCmd} /\ pc'[c] \notin {"seq", "seqread"}
        /\ pc'[c] \in Looping \/ (pc'[c] = "end" /\ c \in Posted)
    BY <1>3 DEF Looping, Cmd
  <2>2. \A d \in Cmd \ {m} : /\ \A k \in Queues : In(k, d)' <=> In(k, d)
                             /\ mem'[d] = mem[d] /\ state'[d] = state[d] /\ seq'[d] = seq[d]
                             /\ ackDone'[d] = ackDone[d] /\ urb'[d] = urb[d]
    BY <1>3, <1>5
  <2> QED BY <1>2, <1>3, <2>1, <2>2, HandStep
<1>7. Fits(m)'
  <2>1. pc'[m] # "none"
    <3>1. pc[m] # "none"
      BY <1>4 DEF OrderInv, KeptInv, Made
    <3> QED BY <1>3, <3>1
  <2> QED BY <1>3, <1>4, <1>6, <2>1, FailedFits DEF Waking
<1>8. Numbers'
  <2>1. \A d \in Waiting : Numbered(d)' => Numbered(d)
    BY <1>1, <1>3, <1>5 DEF Numbered, Queues
  <2>2. \A d \in Cmd : pc'[d] # "seqread" \/ pc[d] = "seqread"
    BY <1>3
  <2> QED BY <1>1, <1>3, <2>1, <2>2, NumbersKept
<1> QED BY <1>5, <1>6, <1>7, <1>8 DEF Ordered

LEMMA KickOrdered == ASSUME OrderInv, NEW c \in Cmd, Kick(c) PROVE Ordered'
BY DequeueOrdered, DropOrdered, RequeueOrdered, AcceptOrdered, SeqOrdered, ReadOrdered,
   KickOutOrdered, SubmitOrdered, SubmitFailsOrdered DEF Kick

-----------------------------------------------------------------------------
(* The steps of a sender that waits, of the URBs and of the tasklets.        *)

\* a step that changes one command, and no sender that has one in its hand
LEMMA OneCommand ==
  ASSUME OrderInv, NEW m \in Cmd, hand' = hand, seq' = seq, cmdSeq' = cmdSeq,
         mcuInit' = mcuInit, rx' = rx \/ mcuInit,
         \A d \in Cmd \ {m} :
            /\ \A k \in Queues : In(k, d)' <=> In(k, d)
            /\ mem'[d] = mem[d] /\ state'[d] = state[d] /\ pc'[d] = pc[d]
            /\ ackDone'[d] = ackDone[d] /\ urb'[d] = urb[d]
            /\ (rx' = d <=> rx = d) /\ (d \in fw' <=> d \in fw),
         pc'[m] = pc[m] \/ (pc[m] \in WaitPcs /\ pc'[m] \in WaitPcs \cup {"end"}),
         In("ackq", m)' => In("ackq", m),
         Fits(m)', Lists', mishaps' = {}
  PROVE  Ordered'
<1>1. /\ QueueTypes /\ Hands /\ Control /\ HeldOnce /\ Numbers /\ cmdSeq \in Nat
      /\ (\A d \in Cmd : Fits(d) /\ seq[d] \in Nat)
      /\ NoCmd \notin Cmd /\ Waiting \subseteq Cmd
  BY Parts
<1>2. \A d \in Cmd : (HeldEarly(d)' <=> HeldEarly(d)) /\ (HeldLate(d)' <=> HeldLate(d))
  <2>1. CASE pc'[m] = pc[m]
    BY <2>1 DEF HeldEarly, HeldLate
  <2>2. CASE pc[m] \in WaitPcs /\ pc'[m] \in WaitPcs \cup {"end"}
    <3>1. pc[m] \notin Holding /\ pc'[m] \notin Holding
      BY <2>2 DEF WaitPcs, Holding
    <3> QED BY <1>1, <3>1, GripKept
  <2> QED BY <2>1, <2>2
<1>3. ASSUME NEW d \in Cmd \ {m} PROVE Fits(d)'
  <2>1. Same(d)
    BY <1>1, <1>2 DEF Same, Stays
  <2> QED BY <1>1, <2>1, Unmoved
<1>4. Control'
  <2>1. \A d \in Cmd : InFlight(d)' => InFlight(d)
    BY DEF InFlight, WaitPcs
  <2>2. OneAtATime'
    <3> SUFFICES ASSUME NEW d \in Waiting, NEW e \in Waiting, InFlight(d)', InFlight(e)'
                 PROVE  d = e
      BY DEF OneAtATime
    <3>1. InFlight(d) /\ InFlight(e)
      BY <1>1, <2>1
    <3> QED BY <1>1, <3>1 DEF Control, OneAtATime
  <2>3. HeldOnce'
    BY <1>1 DEF HeldOnce
  <2>4. NumbersFor'
    <3>1. \A d \in Cmd : pc'[d] \in {"seq", "seqread"} => pc'[d] = pc[d]
      BY DEF WaitPcs
    <3> QED BY <1>1, <3>1 DEF Control, NumbersFor
  <2>5. Stopped'
    BY <1>1, <2>1 DEF Control, Stopped
  <2> QED BY <2>2, <2>3, <2>4, <2>5 DEF Control
<1>5. Numbers'
  <2>1. \A d \in Cmd : pc'[d] \in {"seqread", "queue", "submit"} => pc'[d] = pc[d]
    BY DEF WaitPcs
  <2>2. \A d \in Cmd : In("ackq", d)' => In("ackq", d)
    BY DEF Queues
  <2>3. \A d \in Waiting : Numbered(d)' => Numbered(d)
    BY <1>1, <2>1, <2>2 DEF Numbered
  <2> QED BY <1>1, <2>1, <2>3, NumbersKept
<1> QED BY <1>3, <1>4, <1>5 DEF Ordered

LEMMA PcTyped == ASSUME OrderInv, NEW c \in Cmd, NEW v, Goto(c, v)
                 PROVE  pc'[c] = v /\ \A d \in Cmd \ {c} : pc'[d] = pc[d]
BY Parts DEF QueueTypes, Goto

LEMMA WokenOrdered == ASSUME OrderInv, NEW c \in Cmd, Woken(c) PROVE Ordered'
<1>1. /\ Fits(c) /\ Lists /\ mishaps = {} /\ c \in Waiting /\ c \notin Posted
  <2>1. c \in Waiting
    BY DEF Woken, OrderInv, TypeOK, WaitPcs, Cmd
  <2> QED BY <2>1, Parts
<1>2. /\ pc[c] = "wait" /\ ackDone[c] /\ pc'[c] = "final" /\ \A d \in Cmd \ {c} : pc'[d] = pc[d]
      /\ q' = q /\ hand' = hand /\ seq' = seq /\ cmdSeq' = cmdSeq /\ mcuInit' = mcuInit
      /\ rx' = rx /\ fw' = fw /\ mem' = mem /\ ackDone' = ackDone /\ urb' = urb
      /\ mishaps' = mishaps
      /\ state'[c] \in {"tx_kickout_fail", "tx_done"}
      /\ \A d \in Cmd \ {c} : state'[d] = state[d]
  BY PcTyped DEF Woken, SetState, OrderInv, TypeOK, ctl
<1>3. \A k \in Queues, d \in Cmd : In(k, d)' <=> In(k, d)
  BY <1>2 DEF In
<1>4. /\ HeldEarly(c)' <=> HeldEarly(c)
      /\ HeldLate(c)' <=> HeldLate(c)
  BY <1>2, Parts, GripKept DEF Holding
<1>5. InFlight(c) /\ Alive(c) /\ Nowhere(c)
  <2>1. InFlight(c)
    BY <1>2 DEF InFlight
  <2> QED BY <1>1, <1>2, <2>1 DEF Fits, Awaiting
<1>6. ~HeldLate(c) /\ (mcuInit => ~urb[c])
  BY <1>1, <1>5 DEF Fits, Underway, SentOut, Nowhere, Queues
<1>7. Nowhere(c)'
  BY <1>2, <1>3, <1>4, <1>5 DEF Nowhere
<1>8. Fits(c)'
  <2>1. OnePlace(c)' /\ Underway(c)'
    BY <1>2, <1>3, <1>4, <1>5, <1>6, <1>7 DEF OnePlace, Underway, Alive, Nowhere
  <2>2. Known(c)'
    BY <1>1, <1>2, <1>7 DEF Fits, Known, Nowhere, Queues, Out
  <2>3. Awaiting(c)'
    BY <1>2, <1>5, <1>7 DEF Awaiting, Alive, Nowhere, Queues, Final, Out, InFlight
  <2> QED BY <2>1, <2>2, <2>3 DEF Fits
<1>9. Lists'
  BY <1>1, <1>2 DEF Lists
<1> QED BY <1>1, <1>2, <1>3, <1>8, <1>9, OneCommand DEF WaitPcs, Queues

LEMMA TimedOutOrdered == ASSUME OrderInv, NEW c \in Cmd, TimedOut(c) PROVE Ordered'
<1>1. /\ Fits(c) /\ Lists /\ mishaps = {} /\ c \in Waiting /\ c \notin Posted /\ QueueTypes
  <2>1. c \in Waiting
    BY DEF TimedOut, OrderInv, TypeOK, WaitPcs, Cmd
  <2> QED BY <2>1, Parts
<1>2. /\ pc[c] = "wait" /\ ~ackDone[c] /\ \A d \in Cmd \ {c} : pc'[d] = pc[d]
      /\ q' = q /\ hand' = hand /\ seq' = seq /\ cmdSeq' = cmdSeq /\ mcuInit' = mcuInit
      /\ rx' = rx /\ fw' = fw /\ mem' = mem /\ ackDone' = ackDone /\ urb' = urb
      /\ mishaps' = mishaps /\ state' = state
      /\ pc'[c] = IF state[c] = Out THEN "kill"
                  ELSE IF state[c] = "wait_ack" THEN "unlink" ELSE "timedout"
  BY PcTyped DEF TimedOut, ctl, msg, Out
<1>3. ~In("txq", c) /\ ~Held(c) /\ rx # c
  <2>1. q["txq"] \in Seq(Cmd)
    BY <1>1 DEF QueueTypes, Queues
  <2>2. Contains(q["txq"], c) <=> In("txq", c)
    BY <2>1, Containing DEF In
  <2> QED BY <2>2 DEF TimedOut, Racing, OrderInv, Mild
<1>4. \A k \in Queues, d \in Cmd : In(k, d)' <=> In(k, d)
  BY <1>2 DEF In
<1>5. /\ ~HeldEarly(c) /\ ~HeldLate(c) /\ ~HeldEarly(c)' /\ ~HeldLate(c)'
  BY <1>2, <1>3 DEF Held, HeldEarly, HeldLate
<1>6. InFlight(c) /\ InFlight(c)' /\ Alive(c) /\ Alive(c)' /\ ~In("tx_doneq", c)
  <2>1. InFlight(c)
    BY <1>2 DEF InFlight
  <2>2. InFlight(c)'
    BY <1>2 DEF InFlight
  <2> QED BY <1>1, <1>2, <2>1, <2>2 DEF Fits, Awaiting, Alive
<1>7. /\ state[c] = Out => In("ackq", c) /\ urb[c]
      /\ state[c] = "wait_ack" => In("ackq", c)
      /\ In("ackq", c) => state[c] = Out \/ state[c] = "wait_ack"
      /\ ~In("kickq", c)
  BY <1>1, <1>2, <1>3, <1>5, <1>6 DEF Fits, Awaiting, Known
<1>8. Fits(c)'
  <2>1. OnePlace(c)' /\ Underway(c)'
    BY <1>1, <1>2, <1>4, <1>5, <1>6 DEF Fits, OnePlace, Underway, Nowhere, SentOut, Queues
  <2>2. Known(c)'
    BY <1>1, <1>2, <1>4, <1>5, <1>6 DEF Fits, Known, Queues, Out
  <2>3. Awaiting(c)'
    BY <1>2, <1>3, <1>4, <1>5, <1>6, <1>7 DEF Awaiting, Nowhere, Queues, Out
  <2> QED BY <2>1, <2>2, <2>3 DEF Fits
<1>9. Lists'
  BY <1>1, <1>2 DEF Lists
<1> QED BY <1>1, <1>2, <1>4, <1>8, <1>9, OneCommand DEF WaitPcs, Queues

LEMMA KillOrdered == ASSUME OrderInv, NEW c \in Cmd, KillUrb(c) PROVE Ordered'
<1>1. /\ Fits(c) /\ c \in Waiting /\ c \notin Posted
  <2>1. c \in Waiting
    BY DEF KillUrb, OrderInv, TypeOK, WaitPcs, Cmd
  <2> QED BY <2>1, Parts
<1>2. In("ackq", c) /\ urb[c] /\ state[c] = Out /\ pc[c] = "kill" /\ SentOut(c)
  BY <1>1 DEF KillUrb, Fits, Awaiting, SentOut
<1>3. /\ pc'[c] = "timedout" /\ \A d \in Cmd \ {c} : pc'[d] = pc[d]
      /\ hand' = hand /\ seq' = seq /\ cmdSeq' = cmdSeq /\ mcuInit' = mcuInit
      /\ rx' = rx /\ fw' = fw /\ mem' = mem /\ KickOutFails(c)
      /\ ~urb'[c] /\ \A d \in Cmd \ {c} : urb'[d] = urb[d]
  BY <1>2, PcTyped DEF KillUrb, OrderInv, TypeOK
<1>4. /\ Lists' /\ mishaps' = {}
      /\ \A d \in Cmd \ {c}, k \in Queues : In(k, d)' <=> In(k, d)
      /\ \A k \in Queues : In(k, c)' <=> k = "tx_doneq" /\ c \in Posted
      /\ \A d \in Cmd \ {c} : state'[d] = state[d] /\ ackDone'[d] = ackDone[d]
  BY <1>2, <1>3, FailsInOrder
<1>5. Fits(c)'
  <2>1. ~HeldEarly(c) /\ ~HeldLate(c)
    BY <1>1, <1>2 DEF Fits, OnePlace, Underway, Queues
  <2>2. ~HeldEarly(c)' /\ ~HeldLate(c)'
    BY <1>2, <1>3, <2>1, Parts, GripKept DEF Holding
  <2>3. InFlight(c)'
    BY <1>3 DEF InFlight
  <2> QED BY <1>2, <1>3, <2>2, <2>3, FailedFits
<1>6. ~In("ackq", c)'
  BY <1>1, <1>4 DEF Queues
<1> QED BY <1>2, <1>3, <1>4, <1>5, <1>6, OneCommand DEF WaitPcs

LEMMA GiveUpOrdered == ASSUME OrderInv, NEW c \in Cmd, GiveUp(c) PROVE Ordered'
<1>1. /\ Fits(c) /\ c \in Waiting /\ c \notin Posted /\ QueueTypes /\ Lists /\ mishaps = {}
  <2>1. c \in Waiting
    BY DEF GiveUp, OrderInv, TypeOK, WaitPcs, Cmd
  <2> QED BY <2>1, Parts
<1>2. /\ In("ackq", c) /\ state[c] = "wait_ack" /\ pc[c] = "unlink" /\ InFlight(c) /\ Alive(c)
  BY <1>1 DEF GiveUp, Fits, Awaiting, InFlight
<1>3. /\ ~HeldEarly(c) /\ ~HeldLate(c) /\ rx # c /\ (\A k \in Queues \ {"ackq"} : ~In(k, c))
      /\ (mcuInit => ~urb[c])
  BY <1>1, <1>2 DEF Fits, OnePlace, Underway, SentOut, Queues, Out
<1>4. /\ pc'[c] = "timedout" /\ \A d \in Cmd \ {c} : pc'[d] = pc[d]
      /\ hand' = hand /\ seq' = seq /\ cmdSeq' = cmdSeq /\ mcuInit' = mcuInit
      /\ rx' = rx /\ fw' = fw /\ mem' = mem /\ state' = state /\ ackDone' = ackDone /\ urb' = urb
      /\ q' = [q EXCEPT !["ackq"] = RemoveFirst(@, c)] /\ Mishap("ackq", "", c)
  BY PcTyped DEF GiveUp, Unlink, msg
<1>5. /\ Lists'
      /\ \A k \in Queues, d \in Cmd : In(k, d)' <=> In(k, d) /\ ~(k = "ackq" /\ d = c)
  BY <1>1, <1>4, TakenOut DEF Queues
<1>6. mishaps' = {}
  BY <1>1, <1>2, <1>4, NoMishap DEF Queues
<1>7. ~HeldEarly(c)' /\ ~HeldLate(c)'
  BY <1>2, <1>3, <1>4, Parts, GripKept DEF Holding
<1>8. Fits(c)'
  <2>1. Nowhere(c)' /\ Alive(c)' /\ InFlight(c)'
    BY <1>2, <1>3, <1>4, <1>5, <1>7 DEF Nowhere, Alive, InFlight
  <2>2. OnePlace(c)' /\ Underway(c)'
    BY <1>3, <1>4, <1>7, <2>1 DEF OnePlace, Underway, Nowhere
  <2>3. Known(c)'
    BY <1>1, <1>4, <2>1 DEF Fits, Known, Nowhere, Queues, Out
  <2>4. Awaiting(c)'
    BY <1>4, <2>1 DEF Awaiting, Nowhere, Queues
  <2> QED BY <2>2, <2>3, <2>4 DEF Fits
<1> QED BY <1>2, <1>4, <1>5, <1>6, <1>8, OneCommand DEF WaitPcs, Queues

LEMMA FinishOrdered == ASSUME OrderInv, NEW c \in Cmd, Finish(c) PROVE Ordered'
<1>1. /\ Fits(c) /\ c \in Waiting /\ c \notin Posted /\ QueueTypes /\ Lists /\ mishaps = {}
  <2>1. c \in Waiting
    BY DEF Finish, OrderInv, TypeOK, WaitPcs, Cmd
  <2> QED BY <2>1, Parts
<1>2. /\ pc[c] \in {"final", "timedout"} /\ InFlight(c) /\ Alive(c) /\ Nowhere(c)
      /\ pc[c] = "final" => state[c] \in Final
  BY <1>1 DEF Finish, Fits, Awaiting, InFlight
<1>3. ~HeldLate(c) /\ (mcuInit => ~urb[c])
  BY <1>1, <1>2 DEF Fits, Underway, SentOut, Nowhere, Queues
<1>4. /\ pc'[c] = "end" /\ \A d \in Cmd \ {c} : pc'[d] = pc[d]
      /\ hand' = hand /\ seq' = seq /\ cmdSeq' = cmdSeq /\ mcuInit' = mcuInit
      /\ rx' = rx /\ fw' = fw /\ mem' = mem /\ ackDone' = ackDone /\ urb' = urb
      /\ q' = [q EXCEPT !["tx_doneq"] = Append(@, c)] /\ Mishap("", "tx_doneq", c)
      /\ state'[c] \in Final /\ \A d \in Cmd \ {c} : state'[d] = state[d]
  BY <1>2, PcTyped DEF Finish, QueueTail, SetState, OrderInv, TypeOK, Final
<1>5. /\ Lists'
      /\ \A k \in Queues, d \in Cmd : In(k, d)' <=> In(k, d) \/ (k = "tx_doneq" /\ d = c)
  BY <1>1, <1>2, <1>4, TailQueued DEF Queues, Nowhere
<1>6. mishaps' = {}
  BY <1>1, <1>2, <1>4, NoMishap DEF Nowhere
<1>7. ~HeldEarly(c)' /\ ~HeldLate(c)'
  BY <1>2, <1>3, <1>4, Parts, GripKept DEF Holding, Nowhere
<1>8. Fits(c)'
  <2>1. Alive(c)' /\ ~InFlight(c)' /\ rx' # c
    BY <1>2, <1>4 DEF Alive, InFlight, Nowhere
  <2>2. OnePlace(c)' /\ Underway(c)'
    BY <1>2, <1>3, <1>4, <1>5, <1>7, <2>1 DEF OnePlace, Underway, Nowhere, Queues
  <2>3. Known(c)'
    BY <1>1, <1>2, <1>4, <1>5, <1>7, <2>1 DEF Fits, Known, Nowhere, Queues, Out, Final
  <2>4. Awaiting(c)'
    BY <1>4, <1>5, <2>1 DEF Awaiting, Queues
  <2> QED BY <2>2, <2>3, <2>4 DEF Fits
<1> QED BY <1>2, <1>4, <1>5, <1>6, <1>8, OneCommand DEF WaitPcs, Queues

LEMMA WaitOrdered == ASSUME OrderInv, NEW c \in Cmd, Wait(c) PROVE Ordered'
BY WokenOrdered, TimedOutOrdered, KillOrdered, GiveUpOrdered, FinishOrdered DEF Wait

\* the URB of a command is with the host controller
LEMMA OnTheBus ==
  ASSUME OrderInv, NEW c \in Cmd, urb[c], mcuInit, Undisturbed(c)
  PROVE  /\ SentOut(c) /\ Alive(c) /\ rx # c /\ ~HeldEarly(c) /\ ~HeldLate(c) /\ pc[c] # "none"
         /\ c \in Waiting => InFlight(c) /\ pc[c] \notin Waking
<1>1. Fits(c) /\ SentOut(c) /\ ~HeldLate(c)
  BY Parts DEF Fits, Underway
<1>2. rx # c /\ ~HeldEarly(c) /\ Alive(c) /\ ~Nowhere(c)
  BY <1>1 DEF Fits, OnePlace, SentOut, Nowhere, Queues
<1>3. pc[c] # "none"
  BY <1>2 DEF OrderInv, KeptInv, Made
<1>4. ASSUME c \in Waiting PROVE InFlight(c) /\ pc[c] \notin Waking
  <2>1. In("ackq", c)
    BY <1>1, <1>4, CommandsAssumption DEF SentOut
  <2>2. InFlight(c)
    BY <1>1, <1>4, <2>1, OnItsWay
  <2>3. pc[c] \notin {"kill", "unlink"}
    BY DEF Undisturbed, Racing, OrderInv, Mild
  <2>4. pc[c] \notin {"final", "timedout"}
    BY <1>1, <1>2, <1>4 DEF Fits, Awaiting
  <2> QED BY <2>2, <2>3, <2>4 DEF Waking
<1> QED BY <1>1, <1>2, <1>3, <1>4

LEMMA UrbOrdered == ASSUME OrderInv, NEW c \in Cmd, UrbDone(c) PROVE Ordered'
<1>1. /\ QueueTypes /\ Lists /\ Numbers /\ mishaps = {} /\ Fits(c) /\ Control /\ Hands
      /\ (c \in Posted <=> c \notin Waiting)
  <2>1. c \in Posted <=> c \notin Waiting
    BY CommandsAssumption DEF Cmd
  <2> QED BY <2>1, Parts
<1>2. /\ urb[c] /\ Undisturbed(c) /\ mem' = mem /\ seq' = seq /\ cmdSeq' = cmdSeq
      /\ mcuInit' = mcuInit /\ pc' = pc /\ hand' = hand /\ rx' = rx
      /\ ~urb'[c] /\ \A d \in Cmd \ {c} : urb'[d] = urb[d]
  BY DEF UrbDone, thread, OrderInv, TypeOK
<1>3. /\ HeldEarly(c)' <=> HeldEarly(c)
      /\ HeldLate(c)' <=> HeldLate(c)
      /\ InFlight(c)' <=> InFlight(c)
      /\ Alive(c)' <=> Alive(c)
  BY <1>2 DEF HeldEarly, HeldLate, InFlight, Alive
<1>4. CASE ~mcuInit
  <2>1. q' = q /\ state' = state /\ mishaps' = mishaps /\ ackDone' = ackDone /\ fw' = fw
    BY <1>4 DEF UrbDone
  <2>2. \A k \in Queues, d \in Cmd : In(k, d)' <=> In(k, d)
    BY <2>1 DEF In
  <2>3. Lists'
    BY <1>1, <2>1 DEF Lists
  <2>4. ~InFlight(c)
    BY <1>1, <1>4 DEF Control, Stopped
  <2>5. Nowhere(c)' <=> Nowhere(c)
    BY <1>2, <1>3, <2>2 DEF Nowhere
  <2>6. OnePlace(c)' /\ Known(c)'
    BY <1>1, <1>2, <1>3, <2>1, <2>2, <2>5 DEF Fits, OnePlace, Known, Queues
  <2>7. Underway(c)'
    BY <1>1, <1>2, <1>3, <2>1, <2>2 DEF Fits, Underway, SentOut, Queues
  <2>8. c \in Waiting => Awaiting(c)'
    BY <1>1, <1>2, <1>3, <2>1, <2>2, <2>4, <2>5 DEF Fits, Awaiting, Queues, InFlight
  <2>9. Fits(c)'
    BY <2>6, <2>7, <2>8 DEF Fits
  <2> QED BY <1>1, <1>2, <2>1, <2>2, <2>3, <2>9, OneCommand DEF Queues
<1>5. ASSUME mcuInit
      PROVE  /\ SentOut(c) /\ Alive(c) /\ rx # c /\ ~HeldEarly(c) /\ ~HeldLate(c)
             /\ pc[c] # "none" /\ (c \in Waiting => InFlight(c) /\ pc[c] \notin Waking)
  BY <1>2, <1>5, OnTheBus
<1>6. ASSUME mcuInit, KickOutFails(c), fw' = fw PROVE Ordered'
  <2>1. SentOut(c)
    BY <1>5, <1>6
  <2>2. /\ Lists' /\ mishaps' = {}
        /\ \A d \in Cmd \ {c}, k \in Queues : In(k, d)' <=> In(k, d)
        /\ \A k \in Queues : In(k, c)' <=> k = "tx_doneq" /\ c \in Posted
        /\ \A d \in Cmd \ {c} : state'[d] = state[d] /\ ackDone'[d] = ackDone[d]
    BY <1>6, <2>1, FailsInOrder
  <2>3. Fits(c)'
    BY <1>2, <1>3, <1>5, <1>6, <2>1, FailedFits DEF Waking
  <2>4. ~In("ackq", c)'
    BY <2>2 DEF Queues
  <2> QED BY <1>2, <1>6, <2>2, <2>3, <2>4, OneCommand
<1>7. ASSUME mcuInit, c \in Waiting, SetState(c, "wait_ack"), fw' = fw \cup {c},
             Mishap("", "", c), q' = q, ackDone' = ackDone
      PROVE  Ordered'
  <2>1. /\ state'[c] = "wait_ack" /\ \A d \in Cmd \ {c} : state'[d] = state[d]
    BY <1>7 DEF SetState, OrderInv, TypeOK
  <2>2. \A k \in Queues, d \in Cmd : In(k, d)' <=> In(k, d)
    BY <1>7 DEF In
  <2>3. Lists'
    BY <1>1, <1>7 DEF Lists
  <2>4. mishaps' = {}
    BY <1>1, <1>5, <1>7, NoMishap
  <2>5. In("ackq", c) /\ \A k \in Queues \ {"ackq"} : ~In(k, c)
    BY <1>1, <1>5, <1>7 DEF Fits, SentOut, OnePlace, Queues
  <2>6. seq[c] >= 1
    BY <1>1, <1>7, <2>5 DEF Numbers, Numbered
  <2>7. /\ ~Nowhere(c)' /\ In("ackq", c)' /\ \A k \in Queues \ {"ackq"} : ~In(k, c)'
    BY <2>2, <2>5 DEF Nowhere, Queues
  <2>8. OnePlace(c)' /\ Underway(c)'
    BY <1>2, <1>3, <1>5, <1>7, <2>7 DEF OnePlace, Underway
  <2>9. Known(c)'
    BY <1>2, <1>3, <1>5, <1>7, <2>1, <2>6, <2>7 DEF Known, Queues, Out
  <2>10. ~ackDone[c]
    BY <1>1, <1>7, <2>5, OnItsWay
  <2>11. Awaiting(c)'
    BY <1>2, <1>3, <1>5, <1>7, <2>1, <2>7, <2>10 DEF Awaiting, Queues, Out, Waking
  <2>12. Fits(c)'
    BY <2>8, <2>9, <2>11 DEF Fits
  <2> QED BY <1>2, <1>7, <2>1, <2>2, <2>3, <2>4, <2>12, OneCommand DEF Queues
<1>8. ASSUME mcuInit, c \in Posted, SetState(c, "tx_done"), Move("kickq", "tx_doneq", c),
             ackDone' = ackDone, fw' = fw
      PROVE  Ordered'
  <2>1. /\ state'[c] = "tx_done" /\ \A d \in Cmd \ {c} : state'[d] = state[d]
    BY <1>8 DEF SetState, OrderInv, TypeOK
  <2>2. In("kickq", c) /\ \A k \in Queues \ {"kickq"} : ~In(k, c)
    BY <1>1, <1>5, <1>8 DEF Fits, SentOut, OnePlace, Queues
  <2>3. /\ q' = [q EXCEPT !["kickq"] = RemoveFirst(@, c), !["tx_doneq"] = Append(@, c)]
        /\ Mishap("kickq", "tx_doneq", c)
    BY <1>8 DEF Move
  <2>4. /\ Lists'
        /\ \A k \in Queues, d \in Cmd :
             In(k, d)' <=> \/ In(k, d) /\ ~(k = "kickq" /\ d = c)
                           \/ k = "tx_doneq" /\ d = c
    BY <1>1, <2>2, <2>3, MovedOn DEF Queues
  <2>5. mishaps' = {}
    BY <1>1, <1>5, <1>8, <2>2, <2>3, NoMishap DEF Queues
  <2>6. /\ In("tx_doneq", c)' /\ \A k \in Queues \ {"tx_doneq"} : ~In(k, c)'
    BY <2>2, <2>4 DEF Queues
  <2>7. OnePlace(c)' /\ Underway(c)'
    BY <1>2, <1>3, <1>5, <1>8, <2>6 DEF OnePlace, Underway
  <2>8. Known(c)'
    BY <1>1, <1>2, <1>3, <1>5, <1>8, <2>1, <2>6 DEF Fits, Known, Queues, Final
  <2>9. Fits(c)'
    BY <1>1, <1>8, <2>7, <2>8 DEF Fits
  <2>10. \A d \in Cmd \ {c}, k \in Queues : In(k, d)' <=> In(k, d)
    BY <2>4
  <2>11. ~In("ackq", c)'
    BY <2>6 DEF Queues
  <2> QED BY <1>2, <1>8, <2>1, <2>4, <2>5, <2>9, <2>10, <2>11, OneCommand
<1>9. \/ ~mcuInit
      \/ mcuInit /\ KickOutFails(c) /\ fw' = fw
      \/ /\ mcuInit /\ c \in Waiting /\ SetState(c, "wait_ack") /\ fw' = fw \cup {c}
         /\ Mishap("", "", c) /\ q' = q /\ ackDone' = ackDone
      \/ /\ mcuInit /\ c \in Posted /\ SetState(c, "tx_done") /\ Move("kickq", "tx_doneq", c)
         /\ ackDone' = ackDone /\ fw' = fw
  BY DEF UrbDone
<1> QED BY <1>4, <1>6, <1>7, <1>8, <1>9

\* numbers that are less than SeqMax apart are the same when the firmware sees them so
LEMMA SameNumber ==
  ASSUME NEW a \in Nat, NEW b \in Nat, a >= 1, a <= b, b - a < SeqMax, Number(a) = Number(b)
  PROVE  a = b
<1>1. a - 1 \in Nat /\ b - 1 \in Nat /\ SeqMax \in Nat /\ SeqMax >= 2
  BY SeqAssumption
<1>2. (a - 1) % SeqMax = (b - 1) % SeqMax
  <2>1. ((a - 1) % SeqMax) + 1 = ((b - 1) % SeqMax) + 1
    BY DEF Number
  <2>2. (a - 1) % SeqMax \in Int /\ (b - 1) % SeqMax \in Int
    BY <1>1
  <2> QED BY <2>1, <2>2
<1> DEFINE A == a - 1
           B == b - 1
<1>0. A \in Nat /\ B \in Nat /\ SeqMax > 0
  BY <1>1
<1> HIDE DEF A, B
<1>3. PICK k \in Nat, r \in 0..(SeqMax - 1) : A = SeqMax * k + r /\ A % SeqMax = r
  BY <1>0, <1>1, Division
<1>4. PICK l \in Nat, t \in 0..(SeqMax - 1) : B = SeqMax * l + t /\ B % SeqMax = t
  BY <1>0, <1>1, Division
<1>5. b - a = SeqMax * l - SeqMax * k
  BY <1>1, <1>2, <1>3, <1>4 DEF A, B
<1>6. k = l
  <2>1. l >= k + 1 => SeqMax * l >= SeqMax * k + SeqMax
    BY <1>1
  <2>2. k >= l + 1 => SeqMax * k >= SeqMax * l + SeqMax
    BY <1>1
  <2> QED BY <1>1, <1>5, <2>1, <2>2
<1>7. b - a = 0
  <2>1. SeqMax * l - SeqMax * k = 0
    BY <1>1, <1>6
  <2> QED BY <1>5, <2>1
<1> QED BY <1>7

LEMMA AnswerTaken ==
  ASSUME OrderInv, NEW c \in Cmd, In("ackq", c), c \in fw, rx' = c, fw' = fw \ {c}, pc' = pc,
         hand' = hand, UNCHANGED msg, mcuInit' = mcuInit, mcuInit, rx = NoCmd,
         cmdSeq' = cmdSeq, pc[c] \notin {"kill", "unlink"},
         q' = [q EXCEPT !["ackq"] = RemoveFirst(@, c)], mishaps' = {}
  PROVE  Ordered'
<1>1. /\ Fits(c) /\ QueueTypes /\ Lists /\ c \notin Posted /\ c \in Waiting
      /\ mem' = mem /\ state' = state /\ seq' = seq /\ ackDone' = ackDone /\ urb' = urb
  <2>1. c \in Waiting
    BY Parts DEF Fits, Known
  <2> QED BY <2>1, Parts DEF msg
<1>2. /\ Lists'
      /\ \A k \in Queues, d \in Cmd : In(k, d)' <=> In(k, d) /\ ~(k = "ackq" /\ d = c)
  BY <1>1, TakenOut DEF Queues
<1>3. /\ InFlight(c) /\ ~ackDone[c] /\ Alive(c) /\ state[c] = "wait_ack"
  BY <1>1, OnItsWay DEF Fits, Known
<1>4. /\ ~HeldEarly(c) /\ ~HeldLate(c) /\ ~urb[c] /\ ~Nowhere(c)
      /\ \A k \in Queues \ {"ackq"} : ~In(k, c)
  <2>1. ~HeldLate(c) /\ ~urb[c]
    BY <1>1, <1>3 DEF Fits, Underway, SentOut, Out, OrderInv, TypeOK
  <2> QED BY <1>1, <2>1 DEF Fits, OnePlace, Nowhere, Queues
<1>5. /\ ~HeldEarly(c)' /\ ~HeldLate(c)' /\ (\A k \in Queues : ~In(k, c)') /\ ~Nowhere(c)'
      /\ Alive(c)' /\ InFlight(c)'
  <2>1. /\ ~HeldEarly(c)' /\ ~HeldLate(c)'
    BY <1>4 DEF HeldEarly, HeldLate
  <2>2. \A k \in Queues : ~In(k, c)'
    BY <1>2, <1>4
  <2> QED BY <1>1, <1>3, <2>1, <2>2 DEF Nowhere, Alive, InFlight
<1>6. OnePlace(c)' /\ Underway(c)'
  BY <1>1, <1>4, <1>5 DEF OnePlace, Underway
<1>7. Known(c)'
  BY <1>1, <1>3, <1>5 DEF Fits, Known, Queues
<1>8. Awaiting(c)'
  BY <1>1, <1>3, <1>4, <1>5 DEF Fits, Awaiting, Queues, Out
<1>9. Fits(c)'
  BY <1>1, <1>6, <1>7, <1>8 DEF Fits
<1>10. \A d \in Cmd \ {c}, k \in Queues : In(k, d)' <=> In(k, d)
  BY <1>2
<1>11. /\ \A d \in Cmd \ {c} : (rx' = d <=> rx = d) /\ (d \in fw' <=> d \in fw)
       /\ ~In("ackq", c)'
  BY <1>5, Parts DEF Queues
<1> QED BY <1>1, <1>2, <1>9, <1>10, <1>11, OneCommand

\* the answer goes to the command it is meant for: no other that waits has its number
LEMMA AnswersFits ==
  ASSUME OrderInv, NEW c \in Cmd, NEW m \in Cmd, c \in fw, In("ackq", m),
         Number(seq[m]) = Number(seq[c]), cmdSeq - seq[c] < SeqMax
  PROVE  m = c
<1>1. Numbers /\ Fits(m) /\ Fits(c) /\ cmdSeq \in Nat /\ seq[c] \in Nat
  BY Parts
<1>2. m \in Waiting /\ Numbered(m) /\ seq[c] >= 1 /\ seq[c] <= cmdSeq
  BY <1>1 DEF Fits, Known, Numbered, Numbers
<1>3. seq[m] = cmdSeq /\ (c # m => seq[c] < cmdSeq)
  BY <1>1, <1>2 DEF Numbers
<1>4. seq[c] = cmdSeq
  BY <1>1, <1>2, <1>3, SameNumber
<1> QED BY <1>3, <1>4, <1>1

LEMMA RxEventOrdered == ASSUME OrderInv, NEW c \in Cmd, RxEvent(c)
                        PROVE  Ordered' /\ rx' \in Cmd \cup {NoCmd}
<1> DEFINE acks == q["ackq"]
           same == {i \in 1..Len(acks) : Number(seq[acks[i]]) = Number(seq[c])}
<1>1. /\ QueueTypes /\ Lists /\ mishaps = {} /\ Fits(c) /\ acks \in Seq(Cmd)
      /\ NoCmd \notin Cmd
  BY Parts DEF QueueTypes, Queues
<1>2. /\ c \in fw /\ rx = NoCmd /\ fw' = fw \ {c} /\ cmdSeq - seq[c] < SeqMax
      /\ UNCHANGED msg /\ cmdSeq' = cmdSeq /\ mcuInit' = mcuInit /\ pc' = pc /\ hand' = hand
      /\ mem' = mem /\ state' = state /\ seq' = seq /\ ackDone' = ackDone /\ urb' = urb
  BY DEF RxEvent, thread, msg
<1>3. CASE ~mcuInit \/ same = {}
  <2>1. q' = q /\ rx' = rx /\ mishaps' = mishaps
    BY <1>3 DEF RxEvent
  <2>2. \A k \in Queues, d \in Cmd : In(k, d)' <=> In(k, d)
    BY <2>1 DEF In
  <2>3. /\ HeldEarly(c)' <=> HeldEarly(c)
        /\ HeldLate(c)' <=> HeldLate(c)
        /\ InFlight(c)' <=> InFlight(c)
        /\ Alive(c)' <=> Alive(c)
    BY <1>2 DEF HeldEarly, HeldLate, InFlight, Alive
  <2>4. Nowhere(c)' <=> Nowhere(c)
    BY <2>1, <2>2, <2>3 DEF Nowhere
  <2>5. OnePlace(c)' /\ Known(c)'
    BY <1>1, <1>2, <2>1, <2>2, <2>3, <2>4 DEF Fits, OnePlace, Known, Queues
  <2>6. Underway(c)'
    BY <1>1, <1>2, <2>2, <2>3 DEF Fits, Underway, SentOut, Queues
  <2>7. c \in Waiting => Awaiting(c)'
    BY <1>1, <1>2, <2>1, <2>2, <2>3, <2>4 DEF Fits, Awaiting, Queues
  <2>8. Fits(c)'
    BY <2>5, <2>6, <2>7 DEF Fits
  <2>9. Lists'
    BY <1>1, <2>1 DEF Lists
  <2> QED BY <1>1, <1>2, <2>1, <2>2, <2>8, <2>9, OneCommand DEF Queues
<1>4. CASE mcuInit /\ same # {}
  <2> DEFINE i == Min(same)
  <2>1. i \in 1..Len(acks) /\ Number(seq[acks[i]]) = Number(seq[c])
    <3>1. same \subseteq Nat
      OBVIOUS
    <3>2. i \in same
      BY <1>4, <3>1, Smallest
    <3> QED BY <3>2
  <2> HIDE DEF i, same, acks
  <2>2. PICK m \in Cmd : m = acks[i]
    BY <1>1, <2>1
  <2>3. In("ackq", m)
    BY <2>1, <2>2 DEF In, ToSet, acks
  <2>4. m = c
    BY <1>2, <2>1, <2>2, <2>3, AnswersFits
  <2>5. /\ Undisturbed(acks[i]) /\ rx' = acks[i]
        /\ q' = [q EXCEPT !["ackq"] = RemoveFirst(@, acks[i])]
        /\ mishaps' = mishaps \cup (IF acks[i] = c THEN {} ELSE {"answer"})
    BY <1>4 DEF RxEvent, i, same, acks
  <2>6. pc[c] \notin {"kill", "unlink"} /\ mishaps' = {} /\ rx' = c
        /\ q' = [q EXCEPT !["ackq"] = RemoveFirst(@, c)]
    BY <1>1, <2>2, <2>4, <2>5 DEF Undisturbed, Racing, OrderInv, Mild
  <2> QED BY <1>2, <1>4, <2>3, <2>4, <2>6, AnswerTaken
<1> QED BY <1>3, <1>4

LEMMA RxDoneOrdered == ASSUME OrderInv, RxDone PROVE Ordered'
<1>1. PICK c \in Cmd : c = rx
  BY DEF RxDone, OrderInv, TypeOK
<1>2. /\ Fits(c) /\ Lists /\ mishaps = {} /\ Control /\ mcuInit \in BOOLEAN /\ NoCmd \notin Cmd
      /\ c \in Waiting /\ c \notin Posted /\ QueueTypes
  <2>1. c \in Waiting
    BY <1>1, Parts DEF Fits, Known
  <2> QED BY <2>1, Parts DEF OrderInv, TypeOK
<1>3. /\ rx' = NoCmd /\ Mishap("", "", c) /\ ackDone'[c]
      /\ (\A d \in Cmd \ {c} : ackDone'[d] = ackDone[d])
      /\ mem' = mem /\ state' = state /\ seq' = seq /\ urb' = urb /\ q' = q /\ cmdSeq' = cmdSeq
      /\ mcuInit' = mcuInit /\ pc' = pc /\ hand' = hand /\ fw' = fw
  BY <1>1 DEF RxDone, ctl, thread, OrderInv, TypeOK
<1>4. /\ InFlight(c) /\ Alive(c) /\ state[c] = "wait_ack" /\ mcuInit /\ ~HeldEarly(c)
      /\ \A k \in Queues : ~In(k, c)
  <2>1. InFlight(c) /\ Alive(c) /\ state[c] = "wait_ack" /\ ~HeldEarly(c)
    BY <1>1, <1>2, OnItsWay DEF Fits, OnePlace, Known
  <2>2. \A k \in Queues : ~In(k, c)
    BY <1>1, <1>2 DEF Fits, OnePlace
  <2> QED BY <1>2, <2>1, <2>2 DEF Control, Stopped
<1>5. ~HeldLate(c) /\ ~urb[c]
  BY <1>2, <1>4 DEF Fits, Underway, SentOut, Queues, OrderInv, TypeOK
<1>6. \A k \in Queues, d \in Cmd : In(k, d)' <=> In(k, d)
  BY <1>3 DEF In
<1>7. Nowhere(c)' /\ Alive(c)' /\ InFlight(c)' /\ ~HeldEarly(c)' /\ ~HeldLate(c)'
  <2>1. ~HeldEarly(c)' /\ ~HeldLate(c)'
    BY <1>3, <1>4, <1>5 DEF HeldEarly, HeldLate
  <2> QED BY <1>2, <1>3, <1>4, <1>6, <2>1 DEF Nowhere, Alive, InFlight
<1>8. OnePlace(c)' /\ Underway(c)'
  BY <1>3, <1>5, <1>7 DEF OnePlace, Underway, Nowhere
<1>9. Known(c)'
  BY <1>2, <1>3, <1>4, <1>7 DEF Fits, Known, Nowhere, Queues, InFlight
<1>10. Awaiting(c)'
  BY <1>2, <1>3, <1>4, <1>7 DEF Fits, Awaiting, Nowhere, Queues, Out
<1>11. Fits(c)' /\ Lists' /\ mishaps' = {}
  <2>1. mishaps' = {}
    BY <1>2, <1>3, <1>4, NoMishap
  <2>2. Lists'
    BY <1>2, <1>3 DEF Lists
  <2> QED BY <1>8, <1>9, <1>10, <2>1, <2>2 DEF Fits
<1>12. \A d \in Cmd \ {c} : (rx' = d <=> rx = d)
  BY <1>1, <1>2, <1>3
<1> QED BY <1>3, <1>4, <1>6, <1>11, <1>12, OneCommand DEF Queues

LEMMA BhOrdered == ASSUME OrderInv, AndesCmdMsgBh PROVE Ordered'
<1>1. /\ QueueTypes /\ Lists /\ mishaps = {} /\ q["tx_doneq"] # <<>>
      /\ q' = [q EXCEPT !["tx_doneq"] = Tail(@)]
      /\ state' = state /\ seq' = seq /\ urb' = urb /\ ackDone' = ackDone /\ cmdSeq' = cmdSeq
      /\ mcuInit' = mcuInit /\ pc' = pc /\ hand' = hand /\ rx' = rx /\ fw' = fw
  BY Parts DEF AndesCmdMsgBh, thread
<1>2. /\ Lists' /\ Head(q["tx_doneq"]) \in Cmd /\ In("tx_doneq", Head(q["tx_doneq"]))
      /\ \A k \in Queues, d \in Cmd :
           In(k, d)' <=> In(k, d) /\ ~(k = "tx_doneq" /\ d = Head(q["tx_doneq"]))
  BY <1>1, HeadTaken DEF Queues
<1>3. PICK m \in Cmd : m = Head(q["tx_doneq"])
  BY <1>2
<1>4. /\ mem'[m] = "freed" /\ (\A d \in Cmd \ {m} : mem'[d] = mem[d])
      /\ Mishap("tx_doneq", "", m)
  BY <1>1, <1>3 DEF AndesCmdMsgBh, QueueTypes
<1>5. /\ In("tx_doneq", m) /\ Fits(m) /\ (m \in Posted <=> m \notin Waiting)
      /\ \A k \in Queues, d \in Cmd : In(k, d)' <=> In(k, d) /\ ~(k = "tx_doneq" /\ d = m)
  <2>1. m \in Posted <=> m \notin Waiting
    BY CommandsAssumption DEF Cmd
  <2> QED BY <1>2, <1>3, <2>1, Parts
<1>6. /\ Alive(m) /\ ~HeldEarly(m) /\ rx # m /\ \A k \in Queues \ {"tx_doneq"} : ~In(k, m)
  BY <1>5 DEF Fits, OnePlace, Nowhere, Queues
<1>7. ~HeldLate(m) /\ (mcuInit => ~urb[m])
  BY <1>5, <1>6 DEF Fits, Underway, SentOut, Queues
<1>8. mishaps' = {}
  BY <1>1, <1>4, <1>5, <1>6, NoMishap DEF Queues
<1>9. Nowhere(m)' /\ ~Alive(m)' /\ ~HeldLate(m)' /\ (InFlight(m)' <=> InFlight(m))
  <2>1. ~HeldEarly(m)' /\ ~HeldLate(m)'
    BY <1>1, <1>6, <1>7 DEF HeldEarly, HeldLate
  <2> QED BY <1>1, <1>4, <1>5, <1>6, <2>1 DEF Nowhere, Alive, InFlight
<1>10. OnePlace(m)' /\ Underway(m)'
  BY <1>1, <1>7, <1>9 DEF OnePlace, Underway, Nowhere
<1>11. Known(m)'
  BY <1>1, <1>5, <1>9 DEF Fits, Known, Nowhere, Queues
<1>12. m \in Waiting => Awaiting(m)'
  BY <1>1, <1>5, <1>9 DEF Fits, Awaiting, Nowhere, Queues, InFlight
<1>13. Fits(m)'
  BY <1>10, <1>11, <1>12 DEF Fits
<1>14. \A d \in Cmd \ {m}, k \in Queues : In(k, d)' <=> In(k, d)
  BY <1>5
<1>15. In("ackq", m)' => In("ackq", m)
  BY <1>5 DEF Queues
<1> QED BY <1>1, <1>2, <1>4, <1>8, <1>13, <1>14, <1>15, OneCommand

\* a step that changes no command and no queue
LEMMA OutsideOrdered ==
  ASSUME OrderInv, UNCHANGED msg, UNCHANGED thread, q' = q, cmdSeq' = cmdSeq, rx' = rx, fw' = fw,
         mishaps' = mishaps, mcuInit' => mcuInit, Stopped'
  PROVE  Ordered'
<1>1. /\ Control /\ Lists /\ Numbers /\ mishaps = {}
      /\ \A c \in Cmd : Fits(c) /\ seq[c] \in Nat
  BY Parts
<1>2. /\ mem' = mem /\ state' = state /\ seq' = seq /\ ackDone' = ackDone /\ urb' = urb
      /\ pc' = pc /\ hand' = hand
  BY DEF msg, thread
<1>3. Control'
  BY <1>1, <1>2 DEF Control, OneAtATime, HeldOnce, NumbersFor, InFlight
<1>4. Lists' /\ Numbers'
  BY <1>1, <1>2 DEF Lists, Numbers, Numbered, In
<1>5. \A c \in Cmd : Same(c)
  BY <1>1, <1>2 DEF Same, In, HeldEarly, HeldLate, Stays
<1>6. \A c \in Cmd : Fits(c)'
  BY <1>1, <1>2, <1>5, Unmoved
<1> QED BY <1>1, <1>3, <1>4, <1>6 DEF Ordered

LEMMA ExitOrdered == ASSUME OrderInv, ExitCleanup PROVE Ordered'
<1>1. /\ Control /\ Lists /\ Numbers /\ mishaps = {} /\ QueueTypes /\ Hands /\ NoCmd \notin Cmd
      /\ \A c \in Cmd : Fits(c)
  BY Parts
<1>2. /\ mcuInit = FALSE /\ mcuInit' = FALSE /\ rx = NoCmd /\ rx' = NoCmd
      /\ \A c \in Cmd : ~InFlight(c) /\ hand[c] = NoCmd
      /\ state' = state /\ seq' = seq /\ ackDone' = ackDone /\ cmdSeq' = cmdSeq /\ pc' = pc
      /\ hand' = hand /\ fw' = fw /\ mishaps' = {}
      /\ q' = [n \in Queues |-> <<>>]
      /\ mem' = [c \in Cmd |-> IF Queued(c) THEN "freed" ELSE mem[c]]
  <2>1. mcuInit = FALSE /\ mcuInit' = FALSE /\ rx = NoCmd /\ rx' = NoCmd
    BY <1>1 DEF ExitCleanup, Control, Stopped, OrderInv, TypeOK
  <2>2. \A c \in Cmd : ~InFlight(c) /\ hand[c] = NoCmd
    BY <1>1, <2>1 DEF Control, Stopped, InFlight, Hands, Holding
  <2> QED BY <1>1, <2>1, <2>2 DEF ExitCleanup, thread
<1>3. \A n \in Queues, c \in Cmd : ~In(n, c)'
  BY <1>2 DEF In, ToSet
<1>4. \A c \in Cmd : Nowhere(c)' /\ ~InFlight(c)' /\ ~HeldEarly(c)' /\ ~HeldLate(c)'
  BY <1>1, <1>2, <1>3 DEF Nowhere, InFlight, HeldEarly, HeldLate
<1>5. \A c \in Cmd : Alive(c)' => Alive(c)
  BY <1>2 DEF Alive
<1>6. Control'
  BY <1>1, <1>2 DEF Control, OneAtATime, HeldOnce, NumbersFor, Stopped, InFlight
<1>7. Lists'
  BY <1>2 DEF Lists, IsInjective
<1>8. Numbers'
  <2>1. \A c \in Waiting : ~Numbered(c)'
    BY <1>1, <1>2, <1>3, Parts DEF Numbered, Queues
  <2> QED BY <1>1, <1>2, <2>1 DEF Numbers
<1>9. ASSUME NEW c \in Cmd PROVE Fits(c)'
  <2>1. OnePlace(c)' /\ Underway(c)'
    BY <1>1, <1>2, <1>3, <1>4 DEF OnePlace, Underway
  <2>2. Known(c)'
    BY <1>1, <1>2, <1>3, <1>4, <1>5 DEF Fits, Known, Queues
  <2>3. c \in Waiting => Awaiting(c)'
    BY <1>1, <1>2, <1>4 DEF Fits, Awaiting, InFlight
  <2> QED BY <2>1, <2>2, <2>3 DEF Fits
<1> QED BY <1>2, <1>6, <1>7, <1>8, <1>9 DEF Ordered

LEMMA OrderedStep == OrderInv /\ [Next]_vars => Ordered'
<1> SUFFICES ASSUME OrderInv, [Next]_vars PROVE Ordered'
  OBVIOUS
<1>1. ASSUME NEW c \in Cmd, Send(c) \/ Kick(c) \/ Wait(c) PROVE Ordered'
  BY <1>1, SendOrdered, KickOrdered, WaitOrdered
<1>2. ASSUME NEW c \in Cmd, UrbDone(c) \/ RxEvent(c) PROVE Ordered'
  BY <1>2, UrbOrdered, RxEventOrdered
<1>3. CASE RxDone \/ AndesCmdMsgBh \/ ExitCleanup
  BY <1>3, RxDoneOrdered, BhOrdered, ExitOrdered
<1>4. Stopped
  BY Parts DEF Control
<1>5. CASE Off
  <2>1. Stopped'
    BY <1>4, <1>5 DEF Off, Stopped, InFlight, thread
  <2> QED BY <1>5, <2>1, OutsideOrdered DEF Off
<1>6. CASE ExitFlags
  <2>1. Stopped'
    BY <1>6 DEF ExitFlags, Stopped, InFlight, thread
  <2> QED BY <1>6, <2>1, OutsideOrdered DEF ExitFlags
<1>7. CASE UNCHANGED vars
  <2>1. Stopped' /\ UNCHANGED msg /\ UNCHANGED thread
    BY <1>4, <1>7 DEF vars, ctl, Stopped, InFlight, thread
  <2> QED BY <1>7, <2>1, OutsideOrdered DEF vars, ctl
<1> QED BY <1>1, <1>2, <1>3, <1>5, <1>6, <1>7 DEF Next

-----------------------------------------------------------------------------
(* The invariant holds.                                                      *)

\* the types of what QueueTypes does not name
OtherTypes ==
  /\ state \in [Cmd -> States] /\ seq \in [Cmd -> Nat]
  /\ ackDone \in [Cmd -> BOOLEAN] /\ urb \in [Cmd -> BOOLEAN]
  /\ cmdSeq \in Nat /\ mcuInit \in BOOLEAN /\ sendOn \in BOOLEAN
  /\ \A c \in Posted : pc[c] \notin WaitPcs
  /\ rx \in Cmd \cup {NoCmd} /\ fw \subseteq Cmd

LEMMA TypesAre == TypeOK <=> QueueTypes /\ OtherTypes
                             /\ mishaps \subseteq {"unlinked", "queued", "freed", "answer"}
BY DEF TypeOK, QueueTypes, OtherTypes

\* only the sender of a command that waits goes to WaitPcs
LEMMA Waits ==
  ASSUME OrderInv, NEW c \in Cmd, \A d \in Cmd \ {c} : pc'[d] = pc[d],
         pc'[c] \in WaitPcs => c \in Waiting \/ pc[c] \in WaitPcs
  PROVE  \A d \in Posted : pc'[d] \notin WaitPcs
BY CommandsAssumption DEF OrderInv, TypeOK, Cmd

LEMMA SenderTypes ==
  ASSUME OrderInv, NEW c \in Cmd, Send(c) \/ Kick(c) \/ Wait(c) PROVE OtherTypes'
<1>1. /\ OtherTypes /\ QueueTypes /\ Hands /\ NoCmd \notin Cmd
      /\ (pc[c] \in Holding => hand[c] \in Cmd)
  BY Parts, TypesAre DEF OrderInv, Hands
<1>2. /\ mcuInit' = mcuInit /\ sendOn' = sendOn /\ rx' = rx /\ fw' = fw
  BY DEF Send, Kick, Dequeue, Drop, Requeue, Accept, AndesGetCmdMsgSeq, ReadSeq, KickOut, Submit,
         SubmitFails, Wait, Woken, TimedOut, KillUrb, GiveUp, Finish, ctl
<1>3. cmdSeq' \in Nat
  <2>1. CASE AndesGetCmdMsgSeq(c)
    BY <2>1, SeqOrdered
  <2>2. CASE ~AndesGetCmdMsgSeq(c)
    BY <1>1, <2>2 DEF OtherTypes, Send, Kick, Dequeue, Drop, Requeue, Accept, ReadSeq, KickOut,
       Submit, SubmitFails, Wait, Woken, TimedOut, KillUrb, GiveUp, Finish, ctl
  <2> QED BY <2>1, <2>2
<1>4. seq' \in [Cmd -> Nat]
  BY <1>1 DEF OtherTypes, Holding, Send, Kick, Dequeue, Drop, Requeue, Accept, AndesGetCmdMsgSeq,
     ReadSeq, KickOut, Submit, SubmitFails, Wait, Woken, TimedOut, KillUrb, GiveUp, Finish, msg
<1>5. ASSUME NEW m \in Cmd, KickOutFails(m)
      PROVE  state' \in [Cmd -> States] /\ ackDone' \in [Cmd -> BOOLEAN]
  BY <1>1, <1>5 DEF OtherTypes, KickOutFails, SetState, States, Final
<1>6. state' \in [Cmd -> States] /\ ackDone' \in [Cmd -> BOOLEAN]
  <2>1. CASE SubmitFails(c)
    BY <1>1, <1>5, <2>1 DEF SubmitFails, Holding
  <2>2. CASE KillUrb(c)
    BY <1>1, <1>5, <2>2 DEF KillUrb, OtherTypes
  <2>3. CASE Send(c) \/ Dequeue(c) \/ Drop(c) \/ Requeue(c) \/ Accept(c) \/ AndesGetCmdMsgSeq(c)
    BY <1>1, <2>3 DEF OtherTypes, Send, Dequeue, Drop, Requeue, Accept, AndesGetCmdMsgSeq,
       SetState, States, msg
  <2>4. CASE ReadSeq(c) \/ KickOut(c) \/ Submit(c)
    BY <1>1, <2>4 DEF OtherTypes, ReadSeq, KickOut, Submit, SetState, States, Holding
  <2>5. CASE Woken(c) \/ TimedOut(c) \/ GiveUp(c) \/ Finish(c)
    BY <1>1, <2>5 DEF OtherTypes, Woken, TimedOut, GiveUp, Finish, SetState, States, Final, msg
  <2> QED BY <2>1, <2>2, <2>3, <2>4, <2>5 DEF Kick, Wait
<1>7. urb' \in [Cmd -> BOOLEAN]
  BY <1>1 DEF OtherTypes, Holding, Send, Kick, Dequeue, Drop, Requeue, Accept,
     AndesGetCmdMsgSeq, ReadSeq, KickOut, Submit, SubmitFails, Wait, Woken, TimedOut, KillUrb,
     GiveUp, Finish, msg
<1>8. \A d \in Posted : pc'[d] \notin WaitPcs
  <2>1. /\ \A d \in Cmd \ {c} : pc'[d] = pc[d]
        /\ pc'[c] \in WaitPcs => c \in Waiting \/ pc[c] \in WaitPcs
    <3>1. CASE Send(c)
      BY <1>1, <3>1 DEF Send, Goto, QueueTypes, WaitPcs
    <3>2. CASE Kick(c)
      BY <1>1, <3>2 DEF Kick, Dequeue, Drop, Requeue, Accept, AndesGetCmdMsgSeq, ReadSeq,
         KickOut, Submit, SubmitFails, Leave, Goto, QueueTypes, WaitPcs
    <3>3. CASE Wait(c)
      BY <1>1, <3>3 DEF Wait, Woken, TimedOut, KillUrb, GiveUp, Finish, Goto, QueueTypes, WaitPcs
    <3> QED BY <3>1, <3>2, <3>3
  <2> QED BY <2>1, Waits
<1> QED BY <1>1, <1>2, <1>3, <1>4, <1>6, <1>7, <1>8 DEF OtherTypes

LEMMA OthersTypes ==
  ASSUME OrderInv, [Next]_vars, \A c \in Cmd : ~(Send(c) \/ Kick(c) \/ Wait(c))
  PROVE  OtherTypes'
<1>1. OtherTypes /\ QueueTypes
  BY TypesAre DEF OrderInv
<1>2. CASE \E c \in Cmd : UrbDone(c)
  <2>1. PICK c \in Cmd : UrbDone(c)
    BY <1>2
  <2>2. state' \in [Cmd -> States] /\ ackDone' \in [Cmd -> BOOLEAN]
    BY <1>1, <2>1 DEF OtherTypes, UrbDone, KickOutFails, SetState, States, Final
  <2>3. fw' \subseteq Cmd /\ urb' \in [Cmd -> BOOLEAN]
    BY <1>1, <2>1 DEF OtherTypes, UrbDone
  <2> QED BY <1>1, <2>1, <2>2, <2>3 DEF OtherTypes, UrbDone, thread
<1>3. CASE \E c \in Cmd : RxEvent(c)
  <2>1. PICK c \in Cmd : RxEvent(c)
    BY <1>3
  <2>2. rx' \in Cmd \cup {NoCmd}
    BY <2>1, RxEventOrdered
  <2> QED BY <1>1, <2>1, <2>2 DEF OtherTypes, RxEvent, thread, msg
<1>4. CASE RxDone
  BY <1>1, <1>4 DEF OtherTypes, RxDone, ctl, thread
<1>5. CASE AndesCmdMsgBh \/ Off \/ ExitFlags
  BY <1>1, <1>5 DEF OtherTypes, AndesCmdMsgBh, Off, ExitFlags, thread, msg
<1>6. CASE ExitCleanup
  BY <1>1, <1>6 DEF OtherTypes, ExitCleanup, thread
<1>7. CASE UNCHANGED vars
  BY <1>1, <1>7 DEF OtherTypes, vars, msg, ctl, thread
<1> QED BY <1>2, <1>3, <1>4, <1>5, <1>6, <1>7 DEF Next

LEMMA OrderStep == OrderInv /\ [Next]_vars => OrderInv'
<1> SUFFICES ASSUME OrderInv, [Next]_vars PROVE OrderInv'
  OBVIOUS
<1>1. KeptInv' /\ QueueTypes'
  BY KeptStep DEF OrderInv, KeptInv
<1>2. Ordered'
  BY OrderedStep
<1>3. OtherTypes'
  BY SenderTypes, OthersTypes
<1>4. (mishaps \subseteq {"unlinked", "queued", "freed", "answer"})'
  BY <1>2 DEF Ordered
<1>5. TypeOK'
  BY <1>1, <1>3, <1>4 DEF TypeOK, QueueTypes, OtherTypes
<1> QED BY <1>1, <1>2, <1>5 DEF OrderInv, Mild

LEMMA OrderStart == ASSUME Mild, Init PROVE OrderInv
<1>1. NoCmd \notin Cmd /\ FirstSeq \in Nat /\ KeptInv
  BY CommandsAssumption, SeqAssumption, KeptStart
<1>2. /\ q = [n \in Queues |-> <<>>] /\ rx = NoCmd /\ fw = {} /\ mishaps = {}
      /\ mcuInit = TRUE /\ cmdSeq = FirstSeq
      /\ \A c \in Cmd : /\ mem[c] = "none" /\ pc[c] = "none" /\ hand[c] = NoCmd
                        /\ ~ackDone[c] /\ ~urb[c] /\ seq[c] = 0
  BY DEF Init
<1>3. \A n \in Queues, c \in Cmd : ~In(n, c)
  BY <1>2 DEF In, ToSet
<1>4. TypeOK
  <2>1. QueueTypes
    BY <1>1 DEF KeptInv
  <2>2. OtherTypes
    BY <1>1 DEF Init, OtherTypes, States, WaitPcs, Cmd
  <2> QED BY <1>2, <2>1, <2>2, TypesAre
<1>5. \A c \in Cmd : ~InFlight(c) /\ ~HeldEarly(c) /\ ~HeldLate(c) /\ Nowhere(c) /\ ~Alive(c)
  BY <1>1, <1>2, <1>3 DEF InFlight, HeldEarly, HeldLate, Nowhere, Alive
<1>6. Control
  BY <1>1, <1>2, <1>5 DEF Control, OneAtATime, HeldOnce, NumbersFor, Stopped, Cmd
<1>7. Lists
  BY <1>2 DEF Lists, IsInjective
<1>8. Numbers
  BY <1>1, <1>2, <1>3 DEF Numbers, Numbered, Queues, Cmd
<1>9. ASSUME NEW c \in Cmd PROVE Fits(c)
  BY <1>1, <1>2, <1>3, <1>5 DEF Fits, OnePlace, Known, Underway, Awaiting, Queues
<1> QED BY <1>1, <1>2, <1>4, <1>6, <1>7, <1>8, <1>9 DEF OrderInv, Ordered

LEMMA OrderMeansIntact == OrderInv => Intact
<1> SUFFICES ASSUME OrderInv PROVE Intact
  OBVIOUS
<1>1. ASSUME NEW c \in Range(q["tx_doneq"]) PROVE state[c] \in Final
  <2>1. q["tx_doneq"] \in Seq(Cmd)
    BY Parts DEF QueueTypes, Queues
  <2>2. PICK i \in DOMAIN q["tx_doneq"] : c = q["tx_doneq"][i]
    BY DEF Range
  <2>3. c \in Cmd /\ In("tx_doneq", c)
    BY <2>1, <2>2 DEF In, ToSet
  <2>4. Fits(c)
    BY <2>3, Parts
  <2> QED BY <2>3, <2>4 DEF Fits, Known
<1> QED BY <1>1, Parts DEF Intact, OrderInv

-----------------------------------------------------------------------------
\* The queues stay intact, as long as one command that waits is sent at a time and
\* the time limit strikes when nobody else is at work on the command: a command is
\* unlinked only from the queue it is in, queued only when it is in none, never
\* touched after AndesFreeCmdMsg, and freed in a state that AndesCmdMsgBh knows.
THEOREM QueuesStayIntact ==
  ASSUME "overlap" \notin Faults, "race" \notin Faults
  PROVE  Spec => []Intact
<1>1. Init => OrderInv
  BY OrderStart DEF Mild
<1> QED BY <1>1, OrderStep, OrderMeansIntact, PTL DEF Spec

\* Under the same assumptions AndesMTRxProcessEvent hands an answer to the command
\* that the firmware answers, although the firmware has SeqMax numbers only.
THEOREM AnswersMatch ==
  ASSUME "overlap" \notin Faults, "race" \notin Faults
  PROVE  Spec => []AnswerMatches
<1>1. Init => OrderInv
  BY OrderStart DEF Mild
<1>2. OrderInv => AnswerMatches
  BY Parts DEF AnswerMatches
<1> QED BY <1>1, <1>2, OrderStep, PTL DEF Spec
=============================================================================
