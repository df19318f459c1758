---------------------------- MODULE ForwardProofs ----------------------------
(***************************************************************************)
(* The chains keep their shape under every command, failure and foreign    *)
(* change, so that a session that serves decides as its mode says, others  *)
(* are not disturbed, and the undo list covers what is in the kernel: for  *)
(* every list of private networks and any number of foreign rules.         *)
(***************************************************************************)
EXTENDS Forward, SequenceLemmas

-----------------------------------------------------------------------------
(* Sequences.                                                               *)

\* what is where in two sequences that are put together
LEMMA Joined ==
  ASSUME NEW S, NEW u \in Seq(S), NEW v \in Seq(S)
  PROVE  /\ u \o v \in Seq(S) /\ Len(u \o v) = Len(u) + Len(v) /\ Len(u) \in Nat /\ Len(v) \in Nat
         /\ \A i \in 1..Len(u) : (u \o v)[i] = u[i]
         /\ \A i \in 1..Len(v) : (u \o v)[Len(u) + i] = v[i]
<1> DEFINE s == u \o v
<1>1. /\ s \in Seq(S) /\ Len(s) = Len(u) + Len(v)
      /\ \A i \in 1..(Len(u) + Len(v)) : s[i] = IF i <= Len(u) THEN u[i] ELSE v[i - Len(u)]
  BY ConcatProperties
<1> HIDE DEF s
<1>2. Len(u) \in Nat /\ Len(v) \in Nat
  OBVIOUS
<1>3. \A i \in 1..Len(u) : s[i] = u[i]
  BY <1>1, <1>2
<1>4. ASSUME NEW i \in 1..Len(v) PROVE s[Len(u) + i] = v[i]
  <2>1. Len(u) + i \in 1..(Len(u) + Len(v)) /\ ~(Len(u) + i <= Len(u)) /\ (Len(u) + i) - Len(u) = i
    BY <1>2
  <2> QED BY <1>1, <2>1
<1> QED BY <1>1, <1>2, <1>3, <1>4 DEF s

LEMMA Appended ==
  ASSUME NEW S, NEW s \in Seq(S), NEW e \in S
  PROVE  /\ Append(s, e) \in Seq(S) /\ Len(Append(s, e)) = Len(s) + 1 /\ Append(s, e)[Len(s) + 1] = e
         /\ \A i \in 1..Len(s) : Append(s, e)[i] = s[i]
OBVIOUS

LEMMA Pairs ==
  ASSUME NEW S, NEW x \in S, NEW y \in S
  PROVE  Append(<<x>>, y) = <<x, y>> /\ <<x>> \o <<y>> = <<x, y>>
<1> DEFINE u == <<x>>
           v == <<y>>
           w == <<x, y>>
<1>1. u \in Seq(S) /\ Len(u) = 1 /\ u[1] = x
  OBVIOUS
<1>2. v \in Seq(S) /\ Len(v) = 1 /\ v[1] = y
  OBVIOUS
<1>3. w \in Seq(S) /\ Len(w) = 2 /\ w[1] = x /\ w[2] = y
  OBVIOUS
<1> HIDE DEF u, v, w
<1> DEFINE a == Append(u, y)
           c == u \o v
<1>4. /\ a \in Seq(S) /\ Len(a) = Len(u) + 1 /\ a[Len(u) + 1] = y /\ \A i \in 1..Len(u) : a[i] = u[i]
  <2>1. u \in Seq(S) /\ y \in S
    BY <1>1
  <2> QED BY <2>1, Appended
<1>5. /\ c \in Seq(S) /\ Len(c) = Len(u) + Len(v)
      /\ \A i \in 1..Len(u) : c[i] = u[i]
      /\ \A i \in 1..Len(v) : c[Len(u) + i] = v[i]
  <2>1. u \in Seq(S) /\ v \in Seq(S)
    BY <1>1, <1>2
  <2> QED BY <2>1, Joined
<1> HIDE DEF a, c
<1>6. a = w
  <2>1. Len(a) = Len(w) /\ \A i \in 1..Len(a) : a[i] = w[i]
    BY <1>1, <1>3, <1>4
  <2> QED BY <1>3, <1>4, <2>1, SeqEqual
<1>7. c = w
  <2>1. Len(c) = Len(w) /\ \A i \in 1..Len(c) : c[i] = w[i]
    BY <1>1, <1>2, <1>3, <1>5
  <2> QED BY <1>3, <1>5, <2>1, SeqEqual
<1> QED BY <1>6, <1>7 DEF u, v, w, a, c

\* an entry is put after two lists, or after the second
LEMMA AppendedLast ==
  ASSUME NEW S, NEW u \in Seq(S), NEW v \in Seq(S), NEW e \in S
  PROVE  u \o Append(v, e) = Append(u \o v, e)
<1> DEFINE a == Append(v, e)
           b == u \o v
           x == u \o a
           y == Append(b, e)
<1>1. /\ a \in Seq(S) /\ Len(a) = Len(v) + 1 /\ a[Len(v) + 1] = e /\ \A i \in 1..Len(v) : a[i] = v[i]
  BY Appended
<1>2. /\ b \in Seq(S) /\ Len(b) = Len(u) + Len(v) /\ Len(u) \in Nat /\ Len(v) \in Nat
      /\ \A i \in 1..Len(u) : b[i] = u[i]
      /\ \A i \in 1..Len(v) : b[Len(u) + i] = v[i]
  BY Joined
<1> HIDE DEF a, b
<1>3. /\ x \in Seq(S) /\ Len(x) = Len(u) + Len(a)
      /\ \A i \in 1..Len(u) : x[i] = u[i]
      /\ \A i \in 1..Len(a) : x[Len(u) + i] = a[i]
  <2>1. a \in Seq(S)
    BY <1>1
  <2> QED BY <2>1, Joined
<1>4. /\ y \in Seq(S) /\ Len(y) = Len(b) + 1 /\ y[Len(b) + 1] = e /\ \A i \in 1..Len(b) : y[i] = b[i]
  <2>1. b \in Seq(S)
    BY <1>2
  <2> QED BY <2>1, Appended
<1> HIDE DEF x, y
<1>5. Len(x) = Len(y)
  BY <1>1, <1>2, <1>3, <1>4
<1>6. ASSUME NEW i \in 1..Len(x) PROVE x[i] = y[i]
  <2>1. CASE i <= Len(u)
    <3>1. i \in 1..Len(u) /\ i \in 1..Len(b)
      BY <1>2, <2>1
    <3> QED BY <1>2, <1>3, <1>4, <3>1
  <2>2. CASE i > Len(u) /\ i <= Len(u) + Len(v)
    <3>1. PICK k \in 1..Len(v) : k \in 1..Len(a) /\ i \in 1..Len(b) /\ Len(u) + k = i
      <4>1. i - Len(u) \in 1..Len(v) /\ i - Len(u) \in 1..Len(a) /\ i \in 1..Len(b) /\ Len(u) + (i - Len(u)) = i
        BY <1>1, <1>2, <2>2
      <4> QED BY <4>1
    <3>2. x[Len(u) + k] = a[k] /\ a[k] = v[k] /\ b[Len(u) + k] = v[k]
      BY <1>1, <1>2, <1>3, <3>1
    <3> QED BY <1>4, <3>1, <3>2
  <2>3. CASE i > Len(u) + Len(v)
    <3>0. Len(x) = Len(u) + (Len(v) + 1) /\ Len(b) = Len(u) + Len(v) /\ Len(a) = Len(v) + 1
      BY <1>1, <1>2, <1>3
    <3>1. i = Len(u) + (Len(v) + 1) /\ Len(v) + 1 \in 1..Len(a) /\ i = Len(b) + 1
      BY <1>2, <2>3, <3>0
    <3> QED BY <1>1, <1>3, <1>4, <3>1
  <2> QED BY <1>2, <2>1, <2>2, <2>3
<1>7. x = y
  BY <1>3, <1>4, <1>5, <1>6, SeqEqual
<1> QED BY <1>7 DEF x, y, a, b

\* a chain is empty, or it has a last rule
LEMMA LastOf ==
  ASSUME NEW S, NEW s \in Seq(S), s # <<>>
  PROVE  \E u \in Seq(S) : \E e \in S : s = Append(u, e) /\ Len(u) = Len(s) - 1
<1>0. PICK n \in Nat : Len(s) = n + 1
  <2>1. Len(s) \in Nat /\ Len(s) # 0
    BY EmptySeq
  <2>2. Len(s) - 1 \in Nat /\ Len(s) = (Len(s) - 1) + 1
    BY <2>1
  <2> QED BY <2>2
<1> DEFINE u == SubSeq(s, 1, n)
           e == s[n + 1]
           w == Append(u, e)
<1>1. e \in S /\ \A i \in 1..n : s[i] \in S
  BY <1>0, ElementOfSeq
<1>2. u \in Seq(S) /\ Len(u) = n /\ \A i \in 1..n : u[i] = s[i]
  <2>1. 1 \in Int /\ n \in Int /\ n - 1 + 1 = n /\ (1 <= n => TRUE) /\ \A i \in 1..n : 1 + i - 1 = i
    OBVIOUS
  <2>2. /\ u \in Seq(S) /\ Len(u) = IF 1 <= n THEN n - 1 + 1 ELSE 0
        /\ \A i \in 1..(n - 1 + 1) : u[i] = s[1 + i - 1]
    BY <1>1, <2>1, SubSeqProperties
  <2> HIDE DEF u
  <2> QED BY <2>1, <2>2
<1> HIDE DEF u, e
<1>3. w \in Seq(S) /\ Len(w) = n + 1 /\ w[n + 1] = e /\ \A i \in 1..n : w[i] = u[i]
  <2>1. /\ w \in Seq(S) /\ Len(w) = Len(u) + 1 /\ w[Len(u) + 1] = e /\ \A i \in 1..Len(u) : w[i] = u[i]
    BY <1>1, <1>2, Appended
  <2> HIDE DEF w
  <2> QED BY <1>2, <2>1
<1> HIDE DEF w
<1>4. s = w
  <2>1. \A i \in 1..Len(s) : s[i] = w[i]
    BY <1>0, <1>2, <1>3 DEF e
  <2> QED BY <1>0, <1>3, <2>1, SeqEqual
<1> QED BY <1>0, <1>1, <1>2, <1>4 DEF w

\* what is left when an entry is taken out
Cut(s, e, u, v) == s = Append(u, e) \o v /\ RemoveFirst(s, e) = u \o v

LEMMA CutIs ==
  ASSUME NEW S, NEW s \in Seq(S), NEW e \in ToSet(s)
  PROVE  \E u \in Seq(S) : \E v \in Seq(S) : Cut(s, e, u, v)
<1> DEFINE r == RemoveFirst(s, e)
<1>1. PICK m \in 1..Len(s) : /\ s[m] = e /\ r \in Seq(S) /\ Len(r) = Len(s) - 1
                             /\ \A i \in 1..Len(r) : r[i] = s[IF i < m THEN i ELSE i + 1]
  BY RemoveFirstIs
<1> HIDE DEF r
<1> DEFINE n == Len(s)
           u == SubSeq(s, 1, m - 1)
           v == SubSeq(s, m + 1, n)
<1>2. n \in Nat /\ m \in Nat /\ m > 0 /\ m <= n /\ \A i \in 1..n : s[i] \in S
  BY ElementOfSeq
<1>3. u \in Seq(S) /\ Len(u) = m - 1 /\ \A i \in 1..(m - 1) : u[i] = s[i]
  <2>1. /\ 1 \in Int /\ m - 1 \in Int /\ (m - 1) - 1 + 1 = m - 1 /\ (1 <= m - 1 \/ m - 1 = 0)
        /\ \A i \in 1..(m - 1) : 1 + i - 1 = i /\ s[i] \in S
    BY <1>2
  <2>2. /\ u \in Seq(S) /\ Len(u) = IF 1 <= m - 1 THEN (m - 1) - 1 + 1 ELSE 0
        /\ \A i \in 1..((m - 1) - 1 + 1) : u[i] = s[1 + i - 1]
    BY <2>1, SubSeqProperties
  <2> HIDE DEF u
  <2> QED BY <2>1, <2>2
<1>4. v \in Seq(S) /\ Len(v) = n - m /\ \A i \in 1..(n - m) : v[i] = s[m + i]
  <2>0. PICK q \in Nat : q = m + 1
    BY <1>2
  <2>1. /\ q \in Int /\ n \in Int /\ n - q + 1 = n - m /\ (q <= n \/ n - m = 0)
        /\ \A i \in q..n : s[i] \in S
        /\ \A i \in 1..(n - m) : q + i - 1 = m + i
    BY <1>2, <2>0
  <2> DEFINE x == SubSeq(s, q, n)
  <2> HIDE DEF n
  <2>2. /\ x \in Seq(S) /\ Len(x) = IF q <= n THEN n - q + 1 ELSE 0
        /\ \A i \in 1..(n - q + 1) : x[i] = s[q + i - 1]
    BY <2>1, SubSeqProperties
  <2>3. v = x
    BY <2>0
  <2> HIDE DEF v, x
  <2> QED BY <2>1, <2>2, <2>3
<1> HIDE DEF u, v, n
<1> DEFINE a == Append(u, e)
           w == a \o v
           x == u \o v
<1>5. e \in S
  BY <1>1, <1>2 DEF n
<1>6. /\ a \in Seq(S) /\ Len(a) = m /\ a[m] = e /\ \A i \in 1..(m - 1) : a[i] = s[i]
  <2>1. /\ a \in Seq(S) /\ Len(a) = Len(u) + 1 /\ a[Len(u) + 1] = e /\ \A i \in 1..Len(u) : a[i] = u[i]
    BY <1>3, <1>5, Appended
  <2> HIDE DEF a
  <2> QED BY <1>2, <1>3, <2>1
<1> HIDE DEF a
<1>7. /\ w \in Seq(S) /\ Len(w) = m + (n - m) /\ \A i \in 1..m : w[i] = a[i]
      /\ \A i \in 1..(n - m) : w[m + i] = v[i]
  <2>1. /\ w \in Seq(S) /\ Len(w) = Len(a) + Len(v)
        /\ \A i \in 1..Len(a) : w[i] = a[i]
        /\ \A i \in 1..Len(v) : w[Len(a) + i] = v[i]
    <3>1. a \in Seq(S) /\ v \in Seq(S)
      BY <1>4, <1>6
    <3> QED BY <3>1, Joined
  <2> HIDE DEF w
  <2> QED BY <1>4, <1>6, <2>1
<1> HIDE DEF w
<1>8. /\ x \in Seq(S) /\ Len(x) = (m - 1) + (n - m) /\ \A i \in 1..(m - 1) : x[i] = u[i]
      /\ \A i \in 1..(n - m) : x[(m - 1) + i] = v[i]
  <2>1. /\ x \in Seq(S) /\ Len(x) = Len(u) + Len(v)
        /\ \A i \in 1..Len(u) : x[i] = u[i]
        /\ \A i \in 1..Len(v) : x[Len(u) + i] = v[i]
    <3>1. u \in Seq(S) /\ v \in Seq(S)
      BY <1>3, <1>4
    <3> QED BY <3>1, Joined
  <2> HIDE DEF x
  <2> QED BY <1>3, <1>4, <2>1
<1> HIDE DEF x
<1>9. s = w
  <2>1. Len(w) = Len(s)
    BY <1>2, <1>7 DEF n
  <2>2. ASSUME NEW i \in 1..Len(s) PROVE s[i] = w[i]
    <3>1. CASE i < m
      <4>1. i \in 1..(m - 1) /\ i \in 1..m
        BY <1>2, <3>1
      <4> QED BY <1>6, <1>7, <4>1
    <3>2. CASE i = m
      <4>1. m \in 1..m
        BY <1>2
      <4> QED BY <1>1, <1>6, <1>7, <3>2, <4>1
    <3>3. CASE i > m
      <4>1. i - m \in 1..(n - m) /\ m + (i - m) = i
        BY <1>2, <3>3 DEF n
      <4> QED BY <1>4, <1>7, <4>1
    <3> QED BY <1>2, <3>1, <3>2, <3>3
  <2> QED BY <1>7, <2>1, <2>2, SeqEqual
<1>10. r = x
  <2>1. Len(x) = Len(r) /\ Len(r) = n - 1
    BY <1>1, <1>2, <1>8 DEF n
  <2>2. ASSUME NEW i \in 1..Len(r) PROVE r[i] = x[i]
    <3>1. CASE i < m
      <4>1. i \in 1..(m - 1) /\ r[i] = s[i]
        BY <1>1, <1>2, <3>1
      <4> QED BY <1>3, <1>8, <4>1
    <3>2. CASE ~(i < m)
      <4>1. PICK k \in 1..(n - m) : i = (m - 1) + k /\ m + k = i + 1
        <5>1. /\ i - m + 1 \in 1..(n - m) /\ i = (m - 1) + (i - m + 1)
              /\ m + (i - m + 1) = i + 1
          BY <1>2, <2>1, <3>2
        <5> QED BY <5>1
      <4>2. r[i] = s[i + 1]
        BY <1>1, <3>2
      <4>3. x[i] = v[k] /\ v[k] = s[m + k]
        BY <1>4, <1>8, <4>1
      <4> QED BY <4>1, <4>2, <4>3
    <3> QED BY <3>1, <3>2
  <2> QED BY <1>1, <1>8, <2>1, <2>2, SeqEqual
<1>11. Cut(s, e, u, v)
  BY <1>9, <1>10 DEF r, w, x, a, Cut
<1> QED BY <1>3, <1>4, <1>11

-----------------------------------------------------------------------------
(* The rules of the plan.                                                   *)

Bypass     == Rule("wifi", Open, Open, Open, FALSE, "main")
Replies    == Rule(Open, Open, Open, "client", FALSE, "main")
NoIpv6     == Rule("wifi", Open, Open, Open, FALSE, "REJECT")
Wired      == Rule("wifi", "uplink", "client", Open, FALSE, "ACCEPT")
Reject     == Rule("wifi", "uplink", "client", Open, FALSE, "REJECT")
Lan(d)     == Rule("wifi", "uplink", "client", d, FALSE, "ACCEPT")
ToTun      == Rule("wifi", "tun", "client", Open, FALSE, "ACCEPT")
Masquerade == Rule(Open, "uplink", "client", Open, FALSE, "MASQUERADE")

Networks == Range(PRIVATE_NETWORKS)

\* the rules of a mode, by table
RulesOf(m, t) ==
  IF t = "rule" THEN (IF m = "direct" THEN {Bypass, Replies} ELSE {Replies})
  ELSE IF t = "ip6" THEN (IF m = "direct" THEN {} ELSE {NoIpv6})
  ELSE IF t = "nat" THEN {Masquerade}
  ELSE IF m = "direct" THEN {Wired, Established("uplink")}
  ELSE {Reject, ToTun, Established("tun"), Established("uplink")} \cup {Lan(d) : d \in Networks}

\* the rules of FORWARD in proxy mode, in the order in which they are inserted
Forwarding == Append(Forwards("proxy"), Established("uplink"))

Change(t, r) == [table |-> t, rule |-> r]
Changes      == [table : Tables, rule : RuleType]

LEMMA RulesTyped ==
  ASSUME NEW m \in Modes, NEW t \in Tables, NEW r \in RulesOf(m, t)
  PROVE  r \in RuleType /\ r.tag = TAG
<1> DEFINE all == {Bypass, Replies, NoIpv6, Wired, Reject, ToTun, Masquerade,
                   Established("tun"), Established("uplink")}
<1>1. \A d \in Networks : d \in Addrs
  BY DEF Networks, Addrs
<1> DEFINE Ok(x) == x \in RuleType /\ x.tag = TAG
<1>2. /\ "client" \in Addrs \cup {Open} /\ Open \in Addrs \cup {Open}
      /\ "wifi" \in Ifaces \cup {Open} /\ "uplink" \in Ifaces \cup {Open}
      /\ "tun" \in Ifaces \cup {Open} /\ Open \in Ifaces \cup {Open}
  BY DEF Ifaces, Addrs
<1>5. \A x \in all : Ok(x)
  <2> USE <1>2 DEF Rule, RuleType, Targets
  <2>1. Ok(Bypass)
    BY DEF Bypass
  <2>2. Ok(Replies)
    BY DEF Replies
  <2>3. Ok(NoIpv6)
    BY DEF NoIpv6
  <2>4. Ok(Wired)
    BY DEF Wired
  <2>5. Ok(Reject)
    BY DEF Reject
  <2>6. Ok(ToTun)
    BY DEF ToTun
  <2>7. Ok(Masquerade)
    BY DEF Masquerade
  <2>8. Ok(Established("tun")) /\ Ok(Established("uplink"))
    BY DEF Established
  <2> QED BY <2>1, <2>2, <2>3, <2>4, <2>5, <2>6, <2>7, <2>8
<1>6. ASSUME NEW d \in Networks PROVE Ok(Lan(d))
  BY <1>1, <1>2 DEF Lan, Rule, RuleType, Targets
<1>7. r \in all \/ \E d \in Networks : r = Lan(d)
  BY DEF RulesOf
<1> QED BY <1>5, <1>6, <1>7

\* the rejection comes first, so that the exceptions are put ahead of it
LEMMA ForwardsAre ==
  LET n == Len(PRIVATE_NETWORKS)
      s == Forwarding
  IN /\ n \in Nat /\ s \in Seq(RuleType) /\ Len(s) = n + 4 /\ s[1] = Reject
     /\ \A k \in 1..n : s[k + 1] = Lan(PRIVATE_NETWORKS[k])
     /\ s[n + 2] = ToTun /\ s[n + 3] = Established("tun") /\ s[n + 4] = Established("uplink")
<1> DEFINE n == Len(PRIVATE_NETWORKS)
           lan == [k \in DOMAIN PRIVATE_NETWORKS |-> Lan(PRIVATE_NETWORKS[k])]
           a == <<Reject>>
           b == a \o lan
           c == <<ToTun, Established("tun")>>
           f == b \o c
<1>1. n \in Nat /\ DOMAIN PRIVATE_NETWORKS = 1..n
  BY PrivateAssumption
<1>2. {Reject, ToTun, Established("tun"), Established("uplink")} \cup {Lan(d) : d \in Networks} \subseteq RuleType
  BY RulesTyped DEF RulesOf, Modes, Tables
<1>3. lan \in Seq(RuleType) /\ Len(lan) = n /\ \A k \in 1..n : lan[k] = Lan(PRIVATE_NETWORKS[k])
  <2>1. \A k \in 1..n : Lan(PRIVATE_NETWORKS[k]) \in RuleType
    BY <1>1, <1>2 DEF Networks, Range
  <2>2. lan = [k \in 1..n |-> Lan(PRIVATE_NETWORKS[k])]
    BY <1>1
  <2> HIDE DEF lan, n
  <2> QED BY <1>1, <2>1, <2>2
<1>4. a \in Seq(RuleType) /\ Len(a) = 1 /\ a[1] = Reject
  BY <1>2
<1>5. c \in Seq(RuleType) /\ Len(c) = 2 /\ c[1] = ToTun /\ c[2] = Established("tun")
  BY <1>2
<1>6. Forwards("proxy") = f
  BY DEF Forwards, Reject, ToTun, Lan
<1> HIDE DEF n, lan, a, c
<1>7. /\ b \in Seq(RuleType) /\ Len(b) = n + 1 /\ b[1] = Reject
      /\ \A k \in 1..n : b[k + 1] = Lan(PRIVATE_NETWORKS[k])
  <2>1. /\ b \in Seq(RuleType) /\ Len(b) = 1 + n /\ b[1] = a[1]
        /\ \A i \in 1..n : b[1 + i] = lan[i]
    <3>1. 1 \in 1..Len(a)
      BY <1>4
    <3> QED BY <1>3, <1>4, <3>1, Joined
  <2> HIDE DEF b
  <2> QED BY <1>1, <1>3, <1>4, <2>1
<1> HIDE DEF b
<1>8. /\ f \in Seq(RuleType) /\ Len(f) = n + 3 /\ \A i \in 1..(n + 1) : f[i] = b[i]
      /\ f[n + 2] = ToTun /\ f[n + 3] = Established("tun")
  <2>1. /\ f \in Seq(RuleType) /\ Len(f) = (n + 1) + 2 /\ \A i \in 1..(n + 1) : f[i] = b[i]
        /\ \A i \in 1..2 : f[(n + 1) + i] = c[i]
    <3> HIDE DEF f
    <3>1. f = b \o c /\ b \in Seq(RuleType) /\ c \in Seq(RuleType)
      BY <1>5, <1>7 DEF f
    <3>2. /\ f \in Seq(RuleType) /\ Len(f) = Len(b) + Len(c)
          /\ \A i \in 1..Len(b) : f[i] = b[i]
          /\ \A i \in 1..Len(c) : f[Len(b) + i] = c[i]
      BY <3>1, Joined
    <3> QED BY <1>5, <1>7, <3>2
  <2> HIDE DEF f
  <2>2. (n + 1) + 1 = n + 2 /\ (n + 1) + 2 = n + 3 /\ 1 \in 1..2 /\ 2 \in 1..2
    BY <1>1
  <2> QED BY <1>5, <2>1, <2>2
<1> HIDE DEF f
<1> DEFINE e == Established("uplink")
           s == Append(f, e)
<1>9. e \in RuleType
  BY <1>2
<1> HIDE DEF e
<1>10. /\ s \in Seq(RuleType) /\ Len(s) = n + 4 /\ s[n + 4] = e
       /\ \A i \in 1..(n + 3) : s[i] = f[i]
  <2>1. /\ s \in Seq(RuleType) /\ Len(s) = Len(f) + 1 /\ s[Len(f) + 1] = e
        /\ \A i \in 1..Len(f) : s[i] = f[i]
    BY <1>8, <1>9, AppendProperties
  <2> HIDE DEF s
  <2>2. (n + 3) + 1 = n + 4
    BY <1>1
  <2> QED BY <1>8, <2>1, <2>2
<1>11. Forwarding = s
  BY <1>6 DEF Forwarding, e
<1> HIDE DEF s
<1>12. s[1] = Reject /\ \A k \in 1..n : s[k + 1] = Lan(PRIVATE_NETWORKS[k])
  <2>1. \A k \in 1..n : k + 1 \in 1..(n + 1) /\ k + 1 \in 1..(n + 3)
    BY <1>1
  <2>2. 1 \in 1..(n + 1) /\ 1 \in 1..(n + 3)
    BY <1>1
  <2> QED BY <1>7, <1>8, <1>10, <2>1, <2>2
<1>13. s[n + 2] = ToTun /\ s[n + 3] = Established("tun")
  <2>1. n + 2 \in 1..(n + 3) /\ n + 3 \in 1..(n + 3)
    BY <1>1
  <2> QED BY <1>8, <1>10, <2>1
<1> QED BY <1>1, <1>10, <1>11, <1>12, <1>13 DEF n, e

-----------------------------------------------------------------------------
(* The plan, entry by entry.                                                *)

LEMMA InIs ==
  ASSUME NEW t \in Tables, NEW s \in Seq(RuleType)
  PROVE  /\ In(t, s) \in Seq(Changes) /\ Len(In(t, s)) = Len(s) /\ Len(s) \in Nat
         /\ \A k \in 1..Len(s) : In(t, s)[k] = Change(t, s[k])
<1>1. Len(s) \in Nat /\ DOMAIN s = 1..Len(s) /\ \A k \in 1..Len(s) : s[k] \in RuleType
  OBVIOUS
<1>2. In(t, s) = [k \in 1..Len(s) |-> Change(t, s[k])]
  BY <1>1 DEF In, Change
<1>3. \A k \in 1..Len(s) : Change(t, s[k]) \in Changes
  BY <1>1 DEF Change, Changes
<1> DEFINE r == In(t, s)
           n == Len(s)
<1>4. r \in [1..n -> Changes] /\ n \in Nat
  BY <1>1, <1>2, <1>3
<1>5. r \in Seq(Changes) /\ Len(r) = n
  <2> HIDE DEF r, n
  <2> QED BY <1>4
<1> QED BY <1>1, <1>2, <1>5

Assembly(a, b, c, d) == In("rule", a) \o In("ip6", b) \o In("filter", c) \o In("nat", d)
Assembled(s, a, b, c, d) ==
  /\ s \in Seq(Changes) /\ Len(s) = Len(a) + Len(b) + Len(c) + Len(d)
  /\ \A k \in 1..Len(a) : s[k] = Change("rule", a[k])
  /\ \A k \in 1..Len(b) : s[Len(a) + k] = Change("ip6", b[k])
  /\ \A k \in 1..Len(c) : s[Len(a) + Len(b) + k] = Change("filter", c[k])
  /\ \A k \in 1..Len(d) : s[Len(a) + Len(b) + Len(c) + k] = Change("nat", d[k])

\* the plan by parts: the list of each table
LEMMA AssemblyIs ==
  ASSUME NEW a \in Seq(RuleType), NEW b \in Seq(RuleType), NEW c \in Seq(RuleType), NEW d \in Seq(RuleType)
  PROVE  Assembled(Assembly(a, b, c, d), a, b, c, d)
<1> DEFINE A == In("rule", a)
           B == In("ip6", b)
           C == In("filter", c)
           D == In("nat", d)
           u == A \o B
           v == u \o C
           s == Assembly(a, b, c, d)
<1>1. /\ A \in Seq(Changes) /\ Len(A) = Len(a) /\ Len(a) \in Nat
      /\ \A k \in 1..Len(a) : A[k] = Change("rule", a[k])
  BY InIs DEF Tables
<1>2. /\ B \in Seq(Changes) /\ Len(B) = Len(b) /\ Len(b) \in Nat
      /\ \A k \in 1..Len(b) : B[k] = Change("ip6", b[k])
  BY InIs DEF Tables
<1>3. /\ C \in Seq(Changes) /\ Len(C) = Len(c) /\ Len(c) \in Nat
      /\ \A k \in 1..Len(c) : C[k] = Change("filter", c[k])
  BY InIs DEF Tables
<1>4. /\ D \in Seq(Changes) /\ Len(D) = Len(d) /\ Len(d) \in Nat
      /\ \A k \in 1..Len(d) : D[k] = Change("nat", d[k])
  BY InIs DEF Tables
<1> HIDE DEF A, B, C, D
<1>5. /\ u \in Seq(Changes) /\ Len(u) = Len(a) + Len(b)
      /\ \A i \in 1..Len(a) : u[i] = A[i]
      /\ \A i \in 1..Len(b) : u[Len(a) + i] = B[i]
  <2>1. /\ u \in Seq(Changes) /\ Len(u) = Len(A) + Len(B)
        /\ \A i \in 1..Len(A) : u[i] = A[i]
        /\ \A i \in 1..Len(B) : u[Len(A) + i] = B[i]
    <3> HIDE DEF u
    <3>1. u = A \o B /\ A \in Seq(Changes) /\ B \in Seq(Changes)
      BY <1>1, <1>2 DEF u
    <3> QED BY <3>1, Joined
  <2> HIDE DEF u
  <2> QED BY <1>1, <1>2, <2>1
<1> HIDE DEF u
<1>6. /\ v \in Seq(Changes) /\ Len(v) = Len(a) + Len(b) + Len(c)
      /\ \A i \in 1..(Len(a) + Len(b)) : v[i] = u[i]
      /\ \A i \in 1..Len(c) : v[Len(a) + Len(b) + i] = C[i]
  <2>1. /\ v \in Seq(Changes) /\ Len(v) = Len(u) + Len(C)
        /\ \A i \in 1..Len(u) : v[i] = u[i]
        /\ \A i \in 1..Len(C) : v[Len(u) + i] = C[i]
    <3> HIDE DEF v
    <3>1. v = u \o C /\ u \in Seq(Changes) /\ C \in Seq(Changes)
      BY <1>3, <1>5 DEF v
    <3> QED BY <3>1, Joined
  <2> HIDE DEF v
  <2> QED BY <1>3, <1>5, <2>1
<1> HIDE DEF v
<1>7. /\ s \in Seq(Changes) /\ Len(s) = Len(a) + Len(b) + Len(c) + Len(d)
      /\ \A i \in 1..(Len(a) + Len(b) + Len(c)) : s[i] = v[i]
      /\ \A i \in 1..Len(d) : s[Len(a) + Len(b) + Len(c) + i] = D[i]
  <2>1. /\ s \in Seq(Changes) /\ Len(s) = Len(v) + Len(D)
        /\ \A i \in 1..Len(v) : s[i] = v[i]
        /\ \A i \in 1..Len(D) : s[Len(v) + i] = D[i]
    <3> HIDE DEF s
    <3>1. s = v \o D /\ v \in Seq(Changes) /\ D \in Seq(Changes)
      BY <1>4, <1>6 DEF u, v, A, B, C, D, Assembly, s
    <3> QED BY <3>1, Joined
  <2> HIDE DEF s
  <2> QED BY <1>4, <1>6, <2>1
<1> HIDE DEF s
<1>9. \A k \in 1..Len(a) : s[k] = Change("rule", a[k])
  <2>1. \A k \in 1..Len(a) : k \in 1..(Len(a) + Len(b)) /\ k \in 1..(Len(a) + Len(b) + Len(c))
    BY <1>1, <1>2, <1>3
  <2> QED BY <1>1, <1>5, <1>6, <1>7, <2>1
<1>10. \A k \in 1..Len(b) : s[Len(a) + k] = Change("ip6", b[k])
  <2>1. \A k \in 1..Len(b) : /\ Len(a) + k \in 1..(Len(a) + Len(b))
                             /\ Len(a) + k \in 1..(Len(a) + Len(b) + Len(c))
    BY <1>1, <1>2, <1>3
  <2> QED BY <1>2, <1>5, <1>6, <1>7, <2>1
<1>11. \A k \in 1..Len(c) : s[Len(a) + Len(b) + k] = Change("filter", c[k])
  <2>1. \A k \in 1..Len(c) : Len(a) + Len(b) + k \in 1..(Len(a) + Len(b) + Len(c))
    BY <1>1, <1>2, <1>3
  <2> QED BY <1>3, <1>6, <1>7, <2>1
<1>12. \A k \in 1..Len(d) : s[Len(a) + Len(b) + Len(c) + k] = Change("nat", d[k])
  BY <1>4, <1>7
<1> QED BY <1>7, <1>9, <1>10, <1>11, <1>12 DEF s, Assembled

LEMMA PlanDirect ==
  LET s == network_changes("direct")
  IN  /\ s \in Seq(Changes) /\ Len(s) = 5
      /\ s[1] = Change("rule", Bypass) /\ s[2] = Change("rule", Replies)
      /\ s[3] = Change("filter", Wired) /\ s[4] = Change("filter", Established("uplink"))
      /\ s[5] = Change("nat", Masquerade)
<1> DEFINE a == <<Bypass, Replies>>
           b == <<>>
           c == <<Wired, Established("uplink")>>
           d == <<Masquerade>>
           s == Assembly(a, b, c, d)
<1>1. {Bypass, Replies, Wired, Established("uplink"), Masquerade} \subseteq RuleType
  BY RulesTyped DEF RulesOf, Modes, Tables
<1>2. network_changes("direct") = s
  <2>1. Forwards("direct") = <<Wired>>
    BY DEF Forwards, Wired
  <2>2. Append(<<Wired>>, Established("uplink")) = c /\ <<Bypass>> \o <<Replies>> = a
    BY <1>1, Pairs
  <2> QED BY <2>1, <2>2 DEF network_changes, Assembly, Bypass, Replies, Masquerade
<1>3. /\ a \in Seq(RuleType) /\ Len(a) = 2 /\ a[1] = Bypass /\ a[2] = Replies
      /\ b \in Seq(RuleType) /\ Len(b) = 0
      /\ c \in Seq(RuleType) /\ Len(c) = 2 /\ c[1] = Wired /\ c[2] = Established("uplink")
      /\ d \in Seq(RuleType) /\ Len(d) = 1 /\ d[1] = Masquerade
  BY <1>1
<1> HIDE DEF a, b, c, d
<1>4. /\ s \in Seq(Changes) /\ Len(s) = Len(a) + Len(b) + Len(c) + Len(d)
      /\ \A k \in 1..Len(a) : s[k] = Change("rule", a[k])
      /\ \A k \in 1..Len(c) : s[Len(a) + Len(b) + k] = Change("filter", c[k])
      /\ \A k \in 1..Len(d) : s[Len(a) + Len(b) + Len(c) + k] = Change("nat", d[k])
  <2>1. a \in Seq(RuleType) /\ b \in Seq(RuleType) /\ c \in Seq(RuleType) /\ d \in Seq(RuleType)
    BY <1>3
  <2>2. Assembled(s, a, b, c, d)
    BY <2>1, AssemblyIs
  <2> HIDE DEF s
  <2> QED BY <2>2 DEF Assembled
<1> HIDE DEF s
<1>5. Len(a) + Len(b) = 2 /\ Len(a) + Len(b) + Len(c) = 4
  BY <1>3
<1>6. /\ s \in Seq(Changes) /\ Len(s) = 5 /\ s[1] = Change("rule", a[1]) /\ s[2] = Change("rule", a[2])
      /\ s[3] = Change("filter", c[1]) /\ s[4] = Change("filter", c[2])
      /\ s[5] = Change("nat", d[1])
  BY <1>3, <1>4, <1>5
<1> QED BY <1>2, <1>3, <1>6

LEMMA PlanProxy ==
  LET s == network_changes("proxy")
      n == Len(PRIVATE_NETWORKS)
  IN  /\ s \in Seq(Changes) /\ Len(s) = n + 7 /\ n \in Nat
      /\ s[1] = Change("rule", Replies) /\ s[2] = Change("ip6", NoIpv6)
      /\ s[3] = Change("filter", Reject)
      /\ \A k \in 1..n : s[k + 3] = Change("filter", Lan(PRIVATE_NETWORKS[k]))
      /\ s[n + 4] = Change("filter", ToTun) /\ s[n + 5] = Change("filter", Established("tun"))
      /\ s[n + 6] = Change("filter", Established("uplink")) /\ s[n + 7] = Change("nat", Masquerade)
<1> DEFINE n == Len(PRIVATE_NETWORKS)
           a == <<Replies>>
           b == <<NoIpv6>>
           c == Forwarding
           d == <<Masquerade>>
           s == Assembly(a, b, c, d)
<1>1. {Replies, NoIpv6, Masquerade} \subseteq RuleType
  BY RulesTyped DEF RulesOf, Modes, Tables
<1>2. network_changes("proxy") = s
  <2>1. <<>> \o <<Replies>> = a
    OBVIOUS
  <2>2. c = Append(Forwards("proxy"), Established("uplink"))
    BY DEF Forwarding
  <2> QED BY <2>1, <2>2 DEF network_changes, Assembly, Replies, NoIpv6, Masquerade
<1>3. /\ n \in Nat /\ c \in Seq(RuleType) /\ Len(c) = n + 4 /\ c[1] = Reject
      /\ \A k \in 1..n : c[k + 1] = Lan(PRIVATE_NETWORKS[k])
      /\ c[n + 2] = ToTun /\ c[n + 3] = Established("tun") /\ c[n + 4] = Established("uplink")
  BY ForwardsAre
<1>4. /\ a \in Seq(RuleType) /\ Len(a) = 1 /\ a[1] = Replies
      /\ b \in Seq(RuleType) /\ Len(b) = 1 /\ b[1] = NoIpv6
      /\ d \in Seq(RuleType) /\ Len(d) = 1 /\ d[1] = Masquerade
  BY <1>1
<1> HIDE DEF a, b, c, d, n
<1>5. /\ s \in Seq(Changes) /\ Len(s) = Len(a) + Len(b) + Len(c) + Len(d)
      /\ \A k \in 1..Len(a) : s[k] = Change("rule", a[k])
      /\ \A k \in 1..Len(b) : s[Len(a) + k] = Change("ip6", b[k])
      /\ \A k \in 1..Len(c) : s[Len(a) + Len(b) + k] = Change("filter", c[k])
      /\ \A k \in 1..Len(d) : s[Len(a) + Len(b) + Len(c) + k] = Change("nat", d[k])
  <2>1. a \in Seq(RuleType) /\ b \in Seq(RuleType) /\ c \in Seq(RuleType) /\ d \in Seq(RuleType)
    BY <1>3, <1>4
  <2>2. Assembled(s, a, b, c, d)
    BY <2>1, AssemblyIs
  <2> HIDE DEF s
  <2> QED BY <2>2 DEF Assembled
<1> HIDE DEF s
<1>6. /\ Len(s) = n + 7 /\ s[1] = Change("rule", Replies) /\ s[2] = Change("ip6", NoIpv6)
      /\ \A k \in 1..(n + 4) : s[2 + k] = Change("filter", c[k])
      /\ s[n + 7] = Change("nat", Masquerade)
  <2>1. /\ Len(a) + Len(b) = 2 /\ Len(a) + Len(b) + Len(c) = n + 6 /\ (n + 6) + Len(d) = n + 7
        /\ 1 \in 1..Len(a) /\ 1 \in 1..Len(b) /\ 1 \in 1..Len(d) /\ Len(a) + 1 = 2 /\ (n + 6) + 1 = n + 7
    BY <1>3, <1>4
  <2>2. Len(s) = n + 7
    BY <1>5, <2>1
  <2>3. s[1] = Change("rule", Replies) /\ s[2] = Change("ip6", NoIpv6)
    BY <1>4, <1>5, <2>1
  <2>4. s[n + 7] = Change("nat", Masquerade)
    BY <1>4, <1>5, <2>1
  <2>5. \A k \in 1..(n + 4) : s[2 + k] = Change("filter", c[k])
    BY <1>3, <1>5, <2>1
  <2> QED BY <2>2, <2>3, <2>4, <2>5
<1>7. s[3] = Change("filter", Reject)
  <2>1. 1 \in 1..(n + 4) /\ 2 + 1 = 3
    BY <1>3
  <2> QED BY <1>3, <1>6, <2>1
<1>8. \A k \in 1..n : s[k + 3] = Change("filter", Lan(PRIVATE_NETWORKS[k]))
  <2>1. \A k \in 1..n : k + 1 \in 1..(n + 4) /\ 2 + (k + 1) = k + 3
    BY <1>3
  <2> QED BY <1>3, <1>6, <2>1
<1>9. /\ s[n + 4] = Change("filter", ToTun) /\ s[n + 5] = Change("filter", Established("tun"))
      /\ s[n + 6] = Change("filter", Established("uplink"))
  <2>1. /\ n + 2 \in 1..(n + 4) /\ n + 3 \in 1..(n + 4) /\ n + 4 \in 1..(n + 4)
        /\ 2 + (n + 2) = n + 4 /\ 2 + (n + 3) = n + 5 /\ 2 + (n + 4) = n + 6
    BY <1>3
  <2> QED BY <1>3, <1>6, <2>1
<1> QED BY <1>2, <1>3, <1>5, <1>6, <1>7, <1>8, <1>9 DEF n

\* what the plan of a mode is: the rules of the mode, each once, the rejection
\* before every other rule of its chain
IsPlan(s, m) ==
  /\ s \in Seq(Changes) /\ Len(s) \in Nat \ {0}
  /\ \A k \in 1..Len(s) : s[k].table \in Tables /\ s[k].rule \in RulesOf(m, s[k].table)
  /\ \A t \in Tables : \A r \in RulesOf(m, t) : \E k \in 1..Len(s) : s[k] = Change(t, r)
  /\ \A i, k \in 1..Len(s) : s[i] = s[k] => i = k
  /\ \A i, k \in 1..Len(s) : i < k /\ s[i].table = s[k].table => s[k].rule # Reject

LEMMA ChangeIs == \A t, r : Change(t, r).table = t /\ Change(t, r).rule = r
BY DEF Change

LEMMA PlanIsDirect == IsPlan(network_changes("direct"), "direct")
<1> DEFINE s == network_changes("direct")
<1>1. /\ s \in Seq(Changes) /\ Len(s) = 5
      /\ s[1] = Change("rule", Bypass) /\ s[2] = Change("rule", Replies)
      /\ s[3] = Change("filter", Wired) /\ s[4] = Change("filter", Established("uplink"))
      /\ s[5] = Change("nat", Masquerade)
  BY PlanDirect
<1> HIDE DEF s
<1>2. \A k \in 1..Len(s) : k = 1 \/ k = 2 \/ k = 3 \/ k = 4 \/ k = 5
  BY <1>1
<1>3. /\ RulesOf("direct", "rule") = {Bypass, Replies} /\ RulesOf("direct", "ip6") = {}
      /\ RulesOf("direct", "nat") = {Masquerade}
      /\ RulesOf("direct", "filter") = {Wired, Established("uplink")}
  BY DEF RulesOf
<1>4. \A k \in 1..Len(s) : s[k].table \in Tables /\ s[k].rule \in RulesOf("direct", s[k].table)
  BY <1>1, <1>2, <1>3 DEF Change, Tables
<1>5. \A t \in Tables : \A r \in RulesOf("direct", t) : \E k \in 1..Len(s) : s[k] = Change(t, r)
  <2>1. {1, 2, 3, 4, 5} \subseteq 1..Len(s)
    BY <1>1
  <2> QED BY <1>1, <1>3, <2>1 DEF Tables
<1>6. Bypass # Replies /\ Wired # Established("uplink")
  BY DEF Bypass, Replies, Wired, Established, Rule, Open
<1>7. \A i, k \in 1..Len(s) : s[i] = s[k] => i = k
  BY <1>1, <1>2, <1>6 DEF Change
<1>8. \A k \in 1..Len(s) : s[k].rule # Reject
  <2>1. Reject \notin {Bypass, Replies, Wired, Established("uplink"), Masquerade}
    BY DEF Reject, Bypass, Replies, Wired, Masquerade, Established, Rule
  <2> QED BY <1>1, <1>2, <2>1 DEF Change
<1> QED BY <1>1, <1>4, <1>5, <1>7, <1>8 DEF IsPlan, s

LEMMA PlanIsProxy == IsPlan(network_changes("proxy"), "proxy")
<1> DEFINE s == network_changes("proxy")
           n == Len(PRIVATE_NETWORKS)
<1>1. /\ s \in Seq(Changes) /\ Len(s) = n + 7 /\ n \in Nat
      /\ s[1] = Change("rule", Replies) /\ s[2] = Change("ip6", NoIpv6)
      /\ s[3] = Change("filter", Reject)
      /\ \A k \in 1..n : s[k + 3] = Change("filter", Lan(PRIVATE_NETWORKS[k]))
      /\ s[n + 4] = Change("filter", ToTun) /\ s[n + 5] = Change("filter", Established("tun"))
      /\ s[n + 6] = Change("filter", Established("uplink")) /\ s[n + 7] = Change("nat", Masquerade)
  BY PlanProxy
<1>0. /\ \A k \in 1..n : PRIVATE_NETWORKS[k] \in Networks
      /\ \A d \in Networks : \E k \in 1..n : PRIVATE_NETWORKS[k] = d
      /\ \A i, k \in 1..n : PRIVATE_NETWORKS[i] = PRIVATE_NETWORKS[k] => i = k
  <2>1. DOMAIN PRIVATE_NETWORKS = 1..n
    BY PrivateAssumption
  <2> QED BY <2>1, PrivateAssumption DEF Networks, Range, IsInjective
<1> HIDE DEF s, n
<1>2. \A k \in 1..Len(s) : \/ k = 1 \/ k = 2 \/ k = 3 \/ \E i \in 1..n : k = i + 3
                           \/ k = n + 4 \/ k = n + 5 \/ k = n + 6 \/ k = n + 7
  <2> SUFFICES ASSUME NEW k \in 1..Len(s), k > 3, k < n + 4 PROVE \E i \in 1..n : k = i + 3
    BY <1>1
  <2>1. k - 3 \in 1..n /\ k = (k - 3) + 3
    BY <1>1
  <2> QED BY <2>1
<1>3. /\ RulesOf("proxy", "rule") = {Replies} /\ RulesOf("proxy", "ip6") = {NoIpv6}
      /\ RulesOf("proxy", "nat") = {Masquerade}
      /\ RulesOf("proxy", "filter") = {Reject, ToTun, Established("tun"), Established("uplink")}
                                      \cup {Lan(d) : d \in Networks}
  BY DEF RulesOf
<1>4. ASSUME NEW k \in 1..Len(s) PROVE s[k].table \in Tables /\ s[k].rule \in RulesOf("proxy", s[k].table)
  <2>1. CASE \E i \in 1..n : k = i + 3
    <3>1. PICK i \in 1..n : k = i + 3
      BY <2>1
    <3>2. s[k] = Change("filter", Lan(PRIVATE_NETWORKS[i])) /\ PRIVATE_NETWORKS[i] \in Networks
      BY <1>0, <1>1, <3>1
    <3>3. Lan(PRIVATE_NETWORKS[i]) \in RulesOf("proxy", "filter")
      BY <1>3, <3>2
    <3> QED BY <3>2, <3>3, ChangeIs DEF Tables
  <2>2. CASE ~\E i \in 1..n : k = i + 3
    <3>1. CASE k \in {1, 2, n + 7}
      BY <1>1, <1>3, <3>1, ChangeIs DEF Tables
    <3>2. CASE k = 3
      BY <1>1, <1>3, <3>2, ChangeIs DEF Tables
    <3>3. CASE k \in {n + 4, n + 5, n + 6}
      BY <1>1, <1>3, <3>3, ChangeIs DEF Tables
    <3> QED BY <1>2, <2>2, <3>1, <3>2, <3>3
  <2> QED BY <2>1, <2>2
<1>5. ASSUME NEW t \in Tables, NEW r \in RulesOf("proxy", t) PROVE \E k \in 1..Len(s) : s[k] = Change(t, r)
  <2>1. {1, 2, 3, n + 4, n + 5, n + 6, n + 7} \subseteq 1..Len(s) /\ \A i \in 1..n : i + 3 \in 1..Len(s)
    BY <1>1
  <2>2. CASE \E d \in Networks : r = Lan(d) /\ t = "filter"
    <3>1. PICK i \in 1..n : r = Lan(PRIVATE_NETWORKS[i])
      BY <1>0, <2>2
    <3> QED BY <1>1, <2>1, <2>2, <3>1
  <2>3. CASE ~\E d \in Networks : r = Lan(d) /\ t = "filter"
    BY <1>1, <1>3, <2>1, <2>3 DEF Tables
  <2> QED BY <2>2, <2>3
<1> DEFINE at(r) == CHOOSE i \in 1..n : PRIVATE_NETWORKS[i] = r.d
           Number(c) == IF c.table = "rule" THEN 1
                        ELSE IF c.table = "ip6" THEN 2
                        ELSE IF c.table = "nat" THEN n + 7
                        ELSE IF c.rule.j = "REJECT" THEN 3
                        ELSE IF c.rule.i = "tun" THEN n + 5
                        ELSE IF c.rule.i = "uplink" THEN n + 6
                        ELSE IF c.rule.o = "tun" THEN n + 4
                        ELSE at(c.rule) + 3
<1>6. ASSUME NEW k \in 1..Len(s) PROVE Number(s[k]) = k
  <2>1. CASE \E i \in 1..n : k = i + 3
    <3>1. PICK i \in 1..n : k = i + 3
      BY <2>1
    <3> DEFINE r == Lan(PRIVATE_NETWORKS[i])
    <3>2. r.i = "wifi" /\ r.o = "uplink" /\ r.j = "ACCEPT" /\ r.d = PRIVATE_NETWORKS[i]
      BY DEF Lan, Rule
    <3>3. at(r) = i
      BY <1>0, <3>2
    <3>4. s[k].table = "filter" /\ s[k].rule = r
      BY <1>1, <3>1, ChangeIs
    <3> HIDE DEF at, r
    <3> QED BY <3>1, <3>2, <3>3, <3>4
  <2>2. CASE ~\E i \in 1..n : k = i + 3
    <3>1. /\ Reject.j = "REJECT" /\ ToTun.j = "ACCEPT" /\ ToTun.i = "wifi" /\ ToTun.o = "tun"
          /\ Established("tun").j = "ACCEPT" /\ Established("tun").i = "tun"
          /\ Established("uplink").j = "ACCEPT" /\ Established("uplink").i = "uplink"
      BY DEF Reject, ToTun, Established, Rule
    <3> HIDE DEF at
    <3>3. CASE k \in {1, 2, 3, n + 7}
      BY <1>1, <3>1, <3>3, ChangeIs
    <3>4. CASE k \in {n + 4, n + 5, n + 6}
      BY <1>1, <3>1, <3>4, ChangeIs
    <3> QED BY <1>2, <2>2, <3>3, <3>4
  <2> QED BY <2>1, <2>2
<1>7. \A i, k \in 1..Len(s) : s[i] = s[k] => i = k
  <2> HIDE DEF Number
  <2> QED BY <1>6
<1>8. ASSUME NEW i \in 1..Len(s), NEW k \in 1..Len(s), i < k, s[i].table = s[k].table PROVE s[k].rule # Reject
  <2>1. /\ s[1].table = "rule" /\ s[2].table = "ip6" /\ s[3].table = "filter"
        /\ i \in Nat /\ i > 0 /\ k \in Nat
    BY <1>1, ChangeIs
  <2>2. k > 3
    BY <1>8, <2>1
  <2>3. Reject \notin {ToTun, Established("tun"), Established("uplink"), Masquerade}
    BY DEF Reject, ToTun, Masquerade, Established, Rule
  <2>4. \A d : Reject # Lan(d)
    BY DEF Reject, Lan, Rule
  <2>5. CASE \E j \in 1..n : k = j + 3
    <3>1. PICK j \in 1..n : k = j + 3
      BY <2>5
    <3>2. s[k].rule = Lan(PRIVATE_NETWORKS[j])
      BY <1>1, <3>1, ChangeIs
    <3> QED BY <2>4, <3>2
  <2>6. CASE k \in {n + 4, n + 5, n + 6, n + 7}
    BY <1>1, <2>3, <2>6, ChangeIs
  <2> QED BY <1>2, <2>2, <2>5, <2>6
<1>9. s \in Seq(Changes) /\ Len(s) \in Nat \ {0}
  BY <1>1
<1> QED BY <1>4, <1>5, <1>7, <1>8, <1>9 DEF IsPlan, s

LEMMA PlanIs == \A m \in Modes : IsPlan(network_changes(m), m)
BY PlanIsDirect, PlanIsProxy DEF Modes

-----------------------------------------------------------------------------
(* The inductive invariant.                                                 *)

\* a is ahead of b in a chain: a firewall has put nothing ahead of our rules,
\* ours are there once, and none of them is behind the rejection
Fits(a, b) ==
  /\ b.tag = TAG => a.tag # "firewall"
  /\ a.tag = TAG => a # b
  /\ a = Reject => b.tag # TAG

Known(r) == r.tag # TAG => r \in {Docker, Firewall}

Shaped(s) ==
  /\ \A i \in 1..Len(s) : Known(s[i])
  /\ \A i, j \in 1..Len(s) : i < j => Fits(s[i], s[j])

\* the phase says how far the plan is
Placed ==
  /\ phase = "off" => done = 0
  /\ phase = "apply" => done < Len(network_changes(mode))
  /\ phase = "serve" => done = Len(network_changes(mode))
  /\ phase \in {"apply", "serve"} => ~errs

\* nothing is in the kernel that the mode does not have, also when errors were met
Planned == \A t \in Tables : Ours(t) \subseteq RulesOf(mode, t)

Covered ==
  ~errs => \A t \in Tables : /\ Ours(t) \subseteq Recorded(t)
                             /\ phase \in {"apply", "serve"} => Recorded(t) \subseteq Ours(t)

\* nobody else touches the ip rules
Private == \A r \in Range(tables["rule"]) : r.tag = TAG

ChainInv ==
  /\ TypeOK /\ Placed /\ Planned /\ Covered /\ Private
  /\ \A t \in Tables : Shaped(tables[t])

-----------------------------------------------------------------------------
(* What the commands do to a chain.                                         *)

LEMMA RangeIs == \A s : Range(s) = ToSet(s)
BY DEF Range, ToSet

\* a command that inserts
LEMMA ShapedPut ==
  ASSUME NEW s \in Seq(RuleType), Shaped(s), NEW r \in RuleType, Known(r),
         \A b \in ToSet(s) : Fits(r, b)
  PROVE  Shaped(<<r>> \o s)
<1> DEFINE u == <<r>>
           w == u \o s
<1>1. u \in Seq(RuleType) /\ Len(u) = 1 /\ u[1] = r
  OBVIOUS
<1> HIDE DEF u
<1>2. /\ w \in Seq(RuleType) /\ Len(w) = Len(u) + Len(s) /\ Len(s) \in Nat
      /\ \A i \in 1..Len(u) : w[i] = u[i]
      /\ \A i \in 1..Len(s) : w[Len(u) + i] = s[i]
  <2>1. u \in Seq(RuleType) /\ s \in Seq(RuleType)
    BY <1>1
  <2> QED BY <2>1, Joined
<1> HIDE DEF w
<1>3. w[1] = r /\ \A i \in 1..Len(w) : i # 1 => i - 1 \in 1..Len(s) /\ w[i] = s[i - 1]
  <2>1. w[1] = r
    BY <1>1, <1>2
  <2>2. ASSUME NEW i \in 1..Len(w), i # 1 PROVE i - 1 \in 1..Len(s) /\ w[i] = s[i - 1]
    <3>1. i - 1 \in 1..Len(s) /\ Len(u) + (i - 1) = i
      BY <1>1, <1>2, <2>2
    <3> QED BY <1>2, <3>1
  <2> QED BY <2>1, <2>2
<1>4. \A i \in 1..Len(s) : s[i] \in ToSet(s)
  BY DEF ToSet
<1>5. ASSUME NEW i \in 1..Len(w) PROVE Known(w[i])
  BY <1>3 DEF Shaped
<1>6. ASSUME NEW i \in 1..Len(w), NEW j \in 1..Len(w), i < j PROVE Fits(w[i], w[j])
  <2>1. j # 1 /\ j - 1 \in 1..Len(s) /\ w[j] = s[j - 1]
    BY <1>2, <1>3, <1>6
  <2>2. CASE i = 1
    BY <1>3, <1>4, <2>1, <2>2
  <2>3. CASE i # 1
    <3>1. i - 1 \in 1..Len(s) /\ w[i] = s[i - 1] /\ i - 1 < j - 1
      BY <1>2, <1>3, <1>6, <2>3
    <3> QED BY <2>1, <3>1 DEF Shaped
  <2> QED BY <2>2, <2>3
<1>7. Shaped(w)
  BY <1>5, <1>6 DEF Shaped
<1> QED BY <1>7 DEF u, w

\* somebody appends
LEMMA ShapedAppend ==
  ASSUME NEW s \in Seq(RuleType), Shaped(s), NEW r \in RuleType, Known(r),
         \A a \in ToSet(s) : Fits(a, r)
  PROVE  Shaped(Append(s, r))
<1> DEFINE w == Append(s, r)
<1>1. /\ w \in Seq(RuleType) /\ Len(w) = Len(s) + 1 /\ w[Len(s) + 1] = r /\ Len(s) \in Nat
      /\ \A i \in 1..Len(s) : w[i] = s[i]
  BY Appended
<1> HIDE DEF w
<1>2. \A i \in 1..Len(s) : s[i] \in ToSet(s)
  BY DEF ToSet
<1>3. \A i \in 1..Len(w) : i # Len(s) + 1 => i \in 1..Len(s)
  BY <1>1
<1>4. ASSUME NEW i \in 1..Len(w) PROVE Known(w[i])
  BY <1>1, <1>3 DEF Shaped
<1>5. ASSUME NEW i \in 1..Len(w), NEW j \in 1..Len(w), i < j PROVE Fits(w[i], w[j])
  <2>1. i \in 1..Len(s) /\ w[i] = s[i]
    BY <1>1, <1>5
  <2>2. CASE j = Len(s) + 1
    BY <1>1, <1>2, <2>1, <2>2
  <2>3. CASE j # Len(s) + 1
    BY <1>1, <1>3, <1>5, <2>1, <2>3 DEF Shaped
  <2> QED BY <2>2, <2>3
<1>6. Shaped(w)
  BY <1>4, <1>5 DEF Shaped
<1> QED BY <1>6 DEF w

\* a command, or somebody, takes a rule out
LEMMA ShapedRemove ==
  ASSUME NEW s \in Seq(RuleType), Shaped(s), NEW e
  PROVE  /\ RemoveFirst(s, e) \in Seq(RuleType) /\ Shaped(RemoveFirst(s, e))
         /\ ToSet(RemoveFirst(s, e)) \subseteq ToSet(s)
         /\ \A x \in ToSet(s) : x # e => x \in ToSet(RemoveFirst(s, e))
         /\ e \in RuleType /\ e.tag = TAG => e \notin ToSet(RemoveFirst(s, e))
<1> DEFINE w == RemoveFirst(s, e)
<1>1. CASE e \notin ToSet(s)
  BY <1>1, RemoveNone
<1>2. CASE e \in ToSet(s)
  <2>1. PICK m \in 1..Len(s) : /\ s[m] = e /\ w \in Seq(RuleType) /\ Len(w) = Len(s) - 1
                               /\ \A i \in 1..Len(w) : w[i] = s[IF i < m THEN i ELSE i + 1]
    BY <1>2, RemoveFirstIs
  <2>2. \A x \in ToSet(s) : x # e => x \in ToSet(w)
    BY RemoveFirstKeeps
  <2> HIDE DEF w
  <2> DEFINE at(i) == IF i < m THEN i ELSE i + 1
  <2>3. ASSUME NEW i \in 1..Len(w) PROVE at(i) \in 1..Len(s) /\ w[i] = s[at(i)] /\ at(i) # m
    BY <2>1
  <2>4. ASSUME NEW i \in 1..Len(w), NEW j \in 1..Len(w), i < j PROVE at(i) < at(j)
    BY <2>1, <2>4
  <2> HIDE DEF at
  <2>5. Shaped(w)
    BY <2>3, <2>4 DEF Shaped
  <2>6. ToSet(w) \subseteq ToSet(s)
    BY <2>1, <2>3 DEF ToSet
  <2>7. ASSUME e \in RuleType, e.tag = TAG PROVE e \notin ToSet(w)
    <3> SUFFICES ASSUME NEW i \in 1..Len(w), w[i] = e PROVE FALSE
      BY <2>1 DEF ToSet
    <3>1. at(i) \in 1..Len(s) /\ s[at(i)] = e /\ s[m] = e /\ (at(i) < m \/ m < at(i))
      BY <2>1, <2>3
    <3>2. Fits(e, e)
      BY <2>1, <3>1 DEF Shaped
    <3> QED BY <2>7, <3>2 DEF Fits
  <2> QED BY <2>1, <2>2, <2>5, <2>6, <2>7 DEF w
<1> QED BY <1>1, <1>2

LEMMA Appending ==
  ASSUME NEW s \in Seq(RuleType), NEW r \in RuleType
  PROVE  Append(s, r) \in Seq(RuleType) /\ ToSet(Append(s, r)) = ToSet(s) \cup {r}
BY Ends

-----------------------------------------------------------------------------
(* The steps.                                                               *)

\* the undo list of a mode with d commands
RecordedAt(m, d, t) ==
  {network_changes(m)[k].rule : k \in {k \in 1..d : network_changes(m)[k].table = t}}

LEMMA RecordedIs ==
  /\ \A t : Recorded(t) = RecordedAt(mode, done, t)
  /\ \A t : Recorded(t)' = RecordedAt(mode', done', t)
BY DEF Recorded, RecordedAt

\* a command more on the list
LEMMA RecordedGrows ==
  ASSUME NEW m \in Modes, NEW d \in Nat, d < Len(network_changes(m)), NEW t \in Tables
  PROVE  LET c == network_changes(m)[d + 1] IN
         /\ c.table \in Tables /\ c.rule \in RulesOf(m, c.table) /\ c.rule \in RuleType /\ c.rule.tag = TAG
         /\ c.table = t => /\ RecordedAt(m, d + 1, t) = RecordedAt(m, d, t) \cup {c.rule}
                           /\ c.rule \notin RecordedAt(m, d, t)
                           /\ c.rule = Reject => RecordedAt(m, d, t) = {}
         /\ c.table # t => RecordedAt(m, d + 1, t) = RecordedAt(m, d, t)
<1> DEFINE s == network_changes(m)
           c == s[d + 1]
<1>1. IsPlan(s, m)
  BY PlanIs
<1> HIDE DEF s
<1>2. d + 1 \in 1..Len(s) /\ 1..(d + 1) = 1..d \cup {d + 1} /\ 1..d \subseteq 1..Len(s)
  <2>1. Len(s) \in Nat /\ d < Len(s)
    BY <1>1 DEF IsPlan, s
  <2> QED BY <2>1
<1>3. c.table \in Tables /\ c.rule \in RulesOf(m, c.table)
  BY <1>1, <1>2 DEF IsPlan
<1>4. c.rule \in RuleType /\ c.rule.tag = TAG
  BY <1>3, RulesTyped
<1>5. \A n : RecordedAt(m, n, t) = {s[k].rule : k \in {k \in 1..n : s[k].table = t}}
  BY DEF RecordedAt, s
<1>6. ASSUME c.table = t PROVE /\ RecordedAt(m, d + 1, t) = RecordedAt(m, d, t) \cup {c.rule}
                               /\ c.rule \notin RecordedAt(m, d, t)
                               /\ c.rule = Reject => RecordedAt(m, d, t) = {}
  <2>1. RecordedAt(m, d + 1, t) = RecordedAt(m, d, t) \cup {c.rule}
    BY <1>2, <1>5, <1>6
  <2>2. c.rule \notin RecordedAt(m, d, t)
    <3> SUFFICES ASSUME NEW k \in 1..d, s[k].table = t, s[k].rule = c.rule PROVE FALSE
      BY <1>5
    <3>1. s[k] \in Changes /\ c \in Changes
      BY <1>1, <1>2 DEF IsPlan
    <3>2. s[k] = c
      BY <1>6, <3>1 DEF Changes
    <3>3. k = d + 1
      BY <1>1, <1>2, <3>2 DEF IsPlan
    <3> QED BY <3>3
  <2>3. ASSUME c.rule = Reject PROVE RecordedAt(m, d, t) = {}
    <3> SUFFICES ASSUME NEW k \in 1..d, s[k].table = t PROVE FALSE
      BY <1>5
    <3>1. k \in 1..Len(s) /\ d + 1 \in 1..Len(s) /\ k < d + 1
      BY <1>2
    <3> QED BY <1>1, <1>6, <2>3, <3>1 DEF IsPlan
  <2> QED BY <2>1, <2>2, <2>3
<1>7. ASSUME c.table # t PROVE RecordedAt(m, d + 1, t) = RecordedAt(m, d, t)
  <2>1. {k \in 1..(d + 1) : s[k].table = t} = {k \in 1..d : s[k].table = t}
    BY <1>2, <1>7
  <2> QED BY <1>5, <2>1
<1> QED BY <1>3, <1>4, <1>6, <1>7 DEF s

\* the rules of others
LEMMA ForeignRules ==
  /\ Docker \in RuleType /\ Docker.tag = "docker" /\ Firewall \in RuleType /\ Firewall.tag = "firewall"
  /\ Docker.tag # TAG /\ Firewall.tag # TAG
  /\ Known(Docker) /\ Known(Firewall)
<1> DEFINE r == Rule(Open, Open, "container", Open, FALSE, "ACCEPT")
           q == Rule(Open, Open, Open, Open, FALSE, "ACCEPT")
<1>1. r \in RuleType /\ q \in RuleType
  BY DEF Rule, RuleType, Addrs, Targets
<1> HIDE DEF r, q
<1>2. Docker = [r EXCEPT !.tag = "docker"] /\ Firewall = [q EXCEPT !.tag = "firewall"]
  BY DEF Docker, Firewall, r, q
<1>3. Docker \in RuleType /\ Firewall \in RuleType /\ Docker.tag = "docker" /\ Firewall.tag = "firewall"
  BY <1>1, <1>2 DEF RuleType
<1> QED BY <1>3 DEF Known, TAG

LEMMA ChainStart == Init => ChainInv
<1> SUFFICES ASSUME Init PROVE ChainInv
  OBVIOUS
<1>1. \A t \in Tables : tables[t] = <<>> /\ Len(tables[t]) = 0 /\ Range(tables[t]) = {}
  BY DEF Init, Range
<1>2. TypeOK
  <2>1. tables \in [Tables -> Seq(RuleType)]
    BY DEF Init
  <2>2. Len(network_changes(mode)) \in Nat
    BY PlanIs DEF Init, IsPlan
  <2>3. done \in 0..Len(network_changes(mode))
    BY <2>2 DEF Init
  <2> QED BY <2>1, <2>3 DEF Init, TypeOK
<1>3. Placed
  BY DEF Init, Placed
<1>4. \A t \in Tables : Ours(t) = {}
  BY <1>1 DEF Ours
<1>5. Planned /\ Covered
  BY <1>4 DEF Planned, Covered, Init
<1>6. Private
  BY <1>1 DEF Private, Tables
<1>7. \A t \in Tables : Shaped(tables[t])
  BY <1>1 DEF Shaped
<1> QED BY <1>2, <1>3, <1>5, <1>6, <1>7 DEF ChainInv

LEMMA OursIs ==
  /\ \A t : Ours(t) = {r \in ToSet(tables[t]) : r.tag = TAG}
  /\ \A t : Ours(t)' = {r \in ToSet(tables'[t]) : r.tag = TAG}
BY RangeIs DEF Ours

\* what the others do, and the ends of a session
LEMMA ChainForeign ==
  ASSUME ChainInv, NEW t \in Tables, t # "rule", ForeignAdds(t) \/ ForeignDeletes(t)
  PROVE  ChainInv'
<1> DEFINE s == tables[t]
           w == tables'[t]
           Kept == /\ w \in Seq(RuleType) /\ Shaped(w) /\ tables' = [tables EXCEPT ![t] = w]
                   /\ \A r : r.tag = TAG => (r \in ToSet(w) <=> r \in ToSet(s))
<1>1. s \in Seq(RuleType) /\ Shaped(s) /\ tables \in [Tables -> Seq(RuleType)]
  BY DEF ChainInv, TypeOK
<1>2. \A b \in ToSet(s) : Fits(Docker, b) /\ Fits(b, Docker) /\ Fits(b, Firewall)
  BY ForeignRules DEF Fits, Reject, Rule, TAG
<1>3. UNCHANGED <<tunUp, mode, phase, done, errs>>
  BY DEF ForeignAdds, ForeignDeletes
<1>4. Kept
  <2>1. ASSUME tables' = [tables EXCEPT ![t] = <<Docker>> \o @] PROVE Kept
    <3>1. w = <<Docker>> \o s /\ tables' = [tables EXCEPT ![t] = w]
      BY <1>1, <2>1
    <3>2. <<Docker>> \o s \in Seq(RuleType) /\ ToSet(<<Docker>> \o s) = ToSet(s) \cup {Docker}
      BY <1>1, ForeignRules, Prepended
    <3>3. Shaped(<<Docker>> \o s)
      BY <1>1, <1>2, ForeignRules, ShapedPut
    <3> QED BY <3>1, <3>2, <3>3, ForeignRules
  <2>2. ASSUME NEW r \in {Docker, Firewall}, tables' = [tables EXCEPT ![t] = Append(@, r)]
        PROVE  Kept
    <3>1. w = Append(s, r) /\ tables' = [tables EXCEPT ![t] = w]
      BY <1>1, <2>2
    <3>2. Append(s, r) \in Seq(RuleType) /\ ToSet(Append(s, r)) = ToSet(s) \cup {r}
      BY <1>1, <2>2, ForeignRules, Appending
    <3>3. Shaped(Append(s, r))
      BY <1>1, <1>2, <2>2, ForeignRules, ShapedAppend
    <3> QED BY <2>2, <3>1, <3>2, <3>3, ForeignRules
  <2>3. ASSUME NEW r \in Range(s), r.tag # TAG, tables' = [tables EXCEPT ![t] = RemoveFirst(@, r)]
        PROVE  Kept
    <3>1. w = RemoveFirst(s, r) /\ tables' = [tables EXCEPT ![t] = w]
      BY <1>1, <2>3
    <3>2. /\ RemoveFirst(s, r) \in Seq(RuleType) /\ Shaped(RemoveFirst(s, r))
          /\ ToSet(RemoveFirst(s, r)) \subseteq ToSet(s)
          /\ \A x \in ToSet(s) : x # r => x \in ToSet(RemoveFirst(s, r))
      BY <1>1, ShapedRemove
    <3> QED BY <2>3, <3>1, <3>2
  <2> HIDE DEF Kept
  <2> QED BY <2>1, <2>2, <2>3 DEF ForeignAdds, ForeignDeletes
<1> HIDE DEF w
<1>5. \A u \in Tables : tables'[u] = IF u = t THEN w ELSE tables[u]
  BY <1>1, <1>4
<1>6. \A u \in Tables : Ours(u)' = Ours(u)
  BY <1>4, <1>5, OursIs
<1>7. \A u \in Tables : Recorded(u)' = Recorded(u)
  BY <1>3, RecordedIs
<1>8. TypeOK'
  <2>1. tables' \in [Tables -> Seq(RuleType)]
    BY <1>1, <1>4
  <2> QED BY <1>3, <2>1 DEF ChainInv, TypeOK
<1>9. Placed' /\ Planned' /\ Covered'
  BY <1>3, <1>6, <1>7 DEF ChainInv, Placed, Planned, Covered
<1>10. Private'
  BY <1>5 DEF ChainInv, Private, Tables
<1>11. \A u \in Tables : Shaped(tables'[u])
  BY <1>4, <1>5 DEF ChainInv
<1> QED BY <1>8, <1>9, <1>10, <1>11 DEF ChainInv

\* a session starts, perhaps in the other mode
LEMMA ChainOpens == ASSUME ChainInv, Start PROVE ChainInv'
<1>1. /\ phase = "off" /\ ~errs /\ done = 0 /\ mode' \in Modes /\ phase' = "apply"
      /\ UNCHANGED <<tables, tunUp, done, errs>>
  BY DEF Start, ChainInv, Placed
<1>2. Len(network_changes(mode')) \in Nat \ {0}
  BY <1>1, PlanIs DEF IsPlan
<1>3. TypeOK'
  <2>1. done' \in 0..Len(network_changes(mode'))
    BY <1>1, <1>2
  <2> QED BY <1>1, <2>1 DEF ChainInv, TypeOK
<1>4. Placed'
  BY <1>1, <1>2 DEF Placed
<1>5. \A m, t : RecordedAt(m, 0, t) = {}
  BY DEF RecordedAt
<1>6. \A t \in Tables : Ours(t) = {} /\ Ours(t)' = {} /\ Recorded(t)' = {}
  <2>1. \A t \in Tables : Ours(t) = {}
    BY <1>1, <1>5, RecordedIs DEF ChainInv, Covered
  <2> QED BY <1>1, <1>5, <2>1, OursIs, RecordedIs
<1>7. Planned' /\ Covered'
  BY <1>6 DEF Planned, Covered
<1>8. Private' /\ \A t \in Tables : Shaped(tables'[t])
  BY <1>1 DEF ChainInv, Private
<1> QED BY <1>3, <1>4, <1>7, <1>8 DEF ChainInv

\* the command is put on the list, and its rule into the chain
LEMMA Putting ==
  ASSUME ChainInv, phase = "apply"
  PROVE  LET c == network_changes(mode)[done + 1]
             w == <<c.rule>> \o tables[c.table]
         IN  /\ c.table \in Tables /\ c.rule \in RulesOf(mode, c.table) /\ c.rule.tag = TAG
             /\ w \in Seq(RuleType) /\ Shaped(w) /\ ToSet(w) = ToSet(tables[c.table]) \cup {c.rule}
             /\ \A t \in Tables : RecordedAt(mode, done + 1, t) =
                  IF t = c.table THEN Recorded(t) \cup {c.rule} ELSE Recorded(t)
<1> DEFINE c == network_changes(mode)[done + 1]
           s == tables[c.table]
           w == <<c.rule>> \o s
<1>1. mode \in Modes /\ done \in Nat /\ done < Len(network_changes(mode)) /\ ~errs
  BY DEF ChainInv, TypeOK, Placed
<1>2. \A t \in Tables :
        /\ c.table \in Tables /\ c.rule \in RulesOf(mode, c.table) /\ c.rule \in RuleType /\ c.rule.tag = TAG
        /\ c.table = t => /\ RecordedAt(mode, done + 1, t) = RecordedAt(mode, done, t) \cup {c.rule}
                          /\ c.rule \notin RecordedAt(mode, done, t)
                          /\ c.rule = Reject => RecordedAt(mode, done, t) = {}
        /\ c.table # t => RecordedAt(mode, done + 1, t) = RecordedAt(mode, done, t)
  BY <1>1, RecordedGrows
<1> HIDE DEF c
<1>3. c.table \in Tables /\ c.rule \in RulesOf(mode, c.table) /\ c.rule \in RuleType /\ c.rule.tag = TAG
  BY <1>2 DEF Tables
<1>4. s \in Seq(RuleType) /\ Shaped(s)
  BY <1>3 DEF ChainInv, TypeOK
<1>5. \A b \in ToSet(s) : b.tag = TAG => b \in RecordedAt(mode, done, c.table)
  BY <1>1, <1>3, OursIs, RecordedIs DEF ChainInv, Covered
<1>6. \A b \in ToSet(s) : Fits(c.rule, b)
  BY <1>2, <1>3, <1>5 DEF Fits, TAG
<1>7. Known(c.rule)
  BY <1>3 DEF Known
<1> HIDE DEF s
<1>8. w \in Seq(RuleType) /\ Shaped(w) /\ ToSet(w) = ToSet(s) \cup {c.rule}
  BY <1>3, <1>4, <1>6, <1>7, ShapedPut, Prepended
<1>9. \A t \in Tables : RecordedAt(mode, done + 1, t) =
                  IF t = c.table THEN Recorded(t) \cup {c.rule} ELSE Recorded(t)
  BY <1>2, RecordedIs
<1> QED BY <1>3, <1>8, <1>9 DEF c, s

\* a command does its work, or fails before or after it
LEMMA ChainApply == ASSUME ChainInv, Apply PROVE ChainInv'
<1> DEFINE n == Len(network_changes(mode))
           c == network_changes(mode)[done + 1]
           w == <<c.rule>> \o tables[c.table]
           put == [tables EXCEPT ![c.table] = w]
<1>1. /\ phase = "apply" /\ done' = done + 1 /\ UNCHANGED <<tunUp, mode, errs>>
      /\ \/ tables' = put /\ phase' = IF done' = n THEN "serve" ELSE "apply"
         \/ tables' \in {tables, put} /\ phase' = "undo"
  BY DEF Apply, Insert
<1>2. /\ c.table \in Tables /\ c.rule \in RulesOf(mode, c.table) /\ c.rule.tag = TAG
      /\ w \in Seq(RuleType) /\ Shaped(w) /\ ToSet(w) = ToSet(tables[c.table]) \cup {c.rule}
      /\ \A t \in Tables : RecordedAt(mode, done + 1, t) =
            IF t = c.table THEN Recorded(t) \cup {c.rule} ELSE Recorded(t)
  BY <1>1, Putting
<1>3. /\ tables \in [Tables -> Seq(RuleType)] /\ mode \in Modes /\ n \in Nat
      /\ done \in Nat /\ done < n /\ ~errs
  <2>1. tables \in [Tables -> Seq(RuleType)] /\ mode \in Modes /\ done \in Nat
    BY DEF ChainInv, TypeOK
  <2>2. n \in Nat
    BY <2>1, PlanIs DEF IsPlan
  <2>3. done < n /\ ~errs
    BY <1>1 DEF ChainInv, Placed
  <2> QED BY <2>1, <2>2, <2>3
<1> HIDE DEF n, c, w
<1>4. \A t \in Tables : put[t] = IF t = c.table THEN w ELSE tables[t]
  BY <1>3
<1>5. put \in [Tables -> Seq(RuleType)]
  BY <1>2, <1>3
<1>6. tables' = put \/ tables' = tables
  BY <1>1
<1> HIDE DEF put
<1>7. TypeOK'
  <2>1. done' \in 0..n /\ mode' = mode
    BY <1>1, <1>3
  <2>2. tables' \in [Tables -> Seq(RuleType)]
    BY <1>3, <1>5, <1>6
  <2>3. phase' \in {"off", "apply", "serve", "undo"}
    BY <1>1
  <2> QED BY <1>1, <2>1, <2>2, <2>3 DEF ChainInv, TypeOK, n
<1>8. Placed'
  BY <1>1, <1>3 DEF Placed, n
<1>9. \A t \in Tables : /\ Recorded(t)' = IF t = c.table THEN Recorded(t) \cup {c.rule} ELSE Recorded(t)
                        /\ Ours(t) \subseteq Recorded(t) /\ Recorded(t) \subseteq Ours(t)
  <2>1. \A t : Recorded(t)' = RecordedAt(mode, done + 1, t)
    BY <1>1, RecordedIs
  <2>2. \A t \in Tables : Ours(t) \subseteq Recorded(t) /\ Recorded(t) \subseteq Ours(t)
    BY <1>1, <1>3 DEF ChainInv, Covered
  <2> QED BY <1>2, <2>1, <2>2
<1>10. ASSUME tables' = put, NEW t \in Tables
       PROVE  Ours(t)' = IF t = c.table THEN Ours(t) \cup {c.rule} ELSE Ours(t)
  BY <1>2, <1>4, <1>10, OursIs
<1>11. ASSUME tables' = tables, NEW t \in Tables PROVE Ours(t)' = Ours(t)
  BY <1>11, OursIs
<1>12. Planned'
  <2>1. \A t \in Tables : Ours(t) \subseteq RulesOf(mode, t)
    BY DEF ChainInv, Planned
  <2> QED BY <1>1, <1>2, <1>6, <1>10, <1>11, <2>1 DEF Planned
<1>13. Covered'
  <2>1. \A t \in Tables : Ours(t)' \subseteq Recorded(t)'
    BY <1>6, <1>9, <1>10, <1>11
  <2>2. phase' \in {"apply", "serve"} => tables' = put
    BY <1>1
  <2>3. phase' \in {"apply", "serve"} => \A t \in Tables : Recorded(t)' \subseteq Ours(t)'
    BY <1>9, <1>10, <2>2
  <2> QED BY <2>1, <2>3 DEF Covered
<1>14. Private'
  <2>1. \A r \in ToSet(tables["rule"]) : r.tag = TAG
    BY RangeIs DEF ChainInv, Private
  <2>2. \A r \in ToSet(tables'["rule"]) : r.tag = TAG
    BY <1>2, <1>4, <1>6, <2>1 DEF Tables
  <2> QED BY <2>2, RangeIs DEF Private
<1>15. \A t \in Tables : Shaped(tables'[t])
  BY <1>2, <1>4, <1>6 DEF ChainInv
<1> QED BY <1>7, <1>8, <1>12, <1>13, <1>14, <1>15 DEF ChainInv

\* an undo action does its work, or fails before or after it
LEMMA ChainUndo == ASSUME ChainInv, Undo PROVE ChainInv'
<1> DEFINE c == network_changes(mode)[done]
           w == RemoveFirst(tables[c.table], c.rule)
           cut == [tables EXCEPT ![c.table] = w]
<1>1. /\ phase = "undo" /\ done > 0 /\ done' = done - 1 /\ UNCHANGED <<tunUp, mode, phase>>
      /\ \/ tables' = cut /\ UNCHANGED errs
         \/ tables' \in {tables, cut} /\ errs' = TRUE
  BY DEF Undo, Delete
<1>2. mode \in Modes /\ done \in Nat /\ done <= Len(network_changes(mode)) /\ tables \in [Tables -> Seq(RuleType)]
  BY PlanIs DEF ChainInv, TypeOK, IsPlan
<1>3. /\ c.table \in Tables /\ c.rule \in RuleType /\ c.rule.tag = TAG
      /\ \A t \in Tables : Recorded(t) = IF t = c.table THEN Recorded(t)' \cup {c.rule} ELSE Recorded(t)'
  <2>1. /\ done - 1 \in Nat /\ done - 1 < Len(network_changes(mode)) /\ (done - 1) + 1 = done
    BY <1>1, <1>2, PlanIs DEF IsPlan
  <2>2. \A t \in Tables :
          /\ c.table \in Tables /\ c.rule \in RuleType /\ c.rule.tag = TAG
          /\ c.table = t => RecordedAt(mode, done, t) = RecordedAt(mode, done - 1, t) \cup {c.rule}
          /\ c.table # t => RecordedAt(mode, done, t) = RecordedAt(mode, done - 1, t)
    BY <1>2, <2>1, RecordedGrows
  <2>3. \A t : Recorded(t) = RecordedAt(mode, done, t) /\ Recorded(t)' = RecordedAt(mode, done - 1, t)
    BY <1>1, RecordedIs
  <2> HIDE DEF c
  <2> QED BY <2>2, <2>3 DEF Tables
<1> HIDE DEF c
<1>4. /\ w \in Seq(RuleType) /\ Shaped(w) /\ ToSet(w) \subseteq ToSet(tables[c.table])
      /\ \A x \in ToSet(tables[c.table]) : x # c.rule => x \in ToSet(w)
      /\ c.rule \notin ToSet(w)
  <2>1. tables[c.table] \in Seq(RuleType) /\ Shaped(tables[c.table])
    BY <1>2, <1>3 DEF ChainInv
  <2> QED BY <1>3, <2>1, ShapedRemove
<1> HIDE DEF w
<1>5. \A t \in Tables : cut[t] = IF t = c.table THEN w ELSE tables[t]
  BY <1>2
<1>6. cut \in [Tables -> Seq(RuleType)]
  BY <1>2, <1>4
<1>7. tables' = cut \/ tables' = tables
  BY <1>1
<1> HIDE DEF cut
<1>8. TypeOK'
  <2>1. done' \in 0..Len(network_changes(mode)) /\ mode' = mode
    BY <1>1, <1>2, PlanIs DEF IsPlan
  <2>2. tables' \in [Tables -> Seq(RuleType)]
    BY <1>2, <1>6, <1>7
  <2>3. errs' \in BOOLEAN
    BY <1>1 DEF ChainInv, TypeOK
  <2> QED BY <1>1, <2>1, <2>2, <2>3 DEF ChainInv, TypeOK
<1>9. Placed'
  BY <1>1 DEF Placed
<1>10. \A t \in Tables : Ours(t)' \subseteq Ours(t)
  BY <1>4, <1>5, <1>7, OursIs
<1>11. Planned'
  BY <1>1, <1>10 DEF ChainInv, Planned
<1>12. Covered'
  <2> SUFFICES ASSUME ~errs', NEW t \in Tables PROVE Ours(t)' \subseteq Recorded(t)'
    BY <1>1 DEF Covered
  <2>1. tables' = cut /\ ~errs
    BY <1>1
  <2>2. Ours(t) \subseteq Recorded(t)
    BY <2>1 DEF ChainInv, Covered
  <2>3. t = c.table => c.rule \notin Ours(t)'
    BY <1>4, <1>5, <2>1, OursIs
  <2> QED BY <1>3, <1>10, <2>2, <2>3
<1>13. Private'
  <2>1. \A r \in ToSet(tables["rule"]) : r.tag = TAG
    BY RangeIs DEF ChainInv, Private
  <2>2. \A r \in ToSet(tables'["rule"]) : r.tag = TAG
    BY <1>4, <1>5, <1>7, <2>1 DEF Tables
  <2> QED BY <2>2, RangeIs DEF Private
<1>14. \A t \in Tables : Shaped(tables'[t])
  BY <1>4, <1>5, <1>7 DEF ChainInv
<1> QED BY <1>8, <1>9, <1>11, <1>12, <1>13, <1>14 DEF ChainInv

\* steps that leave the chains alone
LEMMA ChainRest ==
  ASSUME ChainInv, Stop \/ Off \/ TunToggles \/ UNCHANGED vars
  PROVE  ChainInv'
<1>1. UNCHANGED <<tables, mode, done, errs>>
  BY DEF Stop, Off, TunToggles, vars
<1>2. TypeOK'
  BY <1>1 DEF ChainInv, TypeOK, Stop, Off, TunToggles, vars
<1>3. Placed'
  BY <1>1 DEF ChainInv, Placed, Stop, Off, TunToggles, vars
<1>4. \A t \in Tables : Ours(t)' = Ours(t) /\ Recorded(t)' = Recorded(t)
  BY <1>1, OursIs, RecordedIs
<1>5. phase' \in {"apply", "serve"} => phase \in {"apply", "serve"}
  BY DEF Stop, Off, TunToggles, vars
<1>6. Planned' /\ Covered'
  BY <1>1, <1>4, <1>5 DEF ChainInv, Planned, Covered
<1>7. Private' /\ \A t \in Tables : Shaped(tables'[t])
  BY <1>1 DEF ChainInv, Private
<1> QED BY <1>2, <1>3, <1>6, <1>7 DEF ChainInv

LEMMA ChainStep == ChainInv /\ [Next]_vars => ChainInv'
<1> SUFFICES ASSUME ChainInv, [Next]_vars PROVE ChainInv'
  OBVIOUS
<1>1. CASE Start
  BY <1>1, ChainOpens
<1>2. CASE Apply
  BY <1>2, ChainApply
<1>3. CASE Undo
  BY <1>3, ChainUndo
<1>4. CASE Stop \/ Off \/ TunToggles \/ UNCHANGED vars
  BY <1>4, ChainRest
<1>5. ASSUME NEW t \in Tables \ {"rule"}, ForeignAdds(t) \/ ForeignDeletes(t) PROVE ChainInv'
  BY <1>5, ChainForeign
<1> QED BY <1>1, <1>2, <1>3, <1>4, <1>5 DEF Next, Worker

LEMMA ChainsHold == Spec => []ChainInv
<1> QED BY ChainStart, ChainStep, PTL DEF Spec

\* For every list of private networks, whatever Docker and a firewall tool do to
\* the same chains and at whatever command a start breaks off: the undo list says
\* what of the project is in the kernel, unless an undo action has failed.
THEOREM UndoKnowsAll == Spec => []UndoCovers
<1>1. ChainInv => UndoCovers
  BY DEF ChainInv, UndoCovers, Placed, Covered
<1> QED BY <1>1, ChainsHold, PTL

-----------------------------------------------------------------------------
(* The rules of others.                                                     *)

Pick(f, s, n) == IF n = 0 THEN <<>>
                 ELSE IF s[n].tag # TAG THEN Append(f[n - 1], s[n]) ELSE f[n - 1]
Picks(f, s) == f \in [0..Len(s) -> Seq(RuleType)] /\ \A n \in 0..Len(s) : f[n] = Pick(f, s, n)

\* there is such a function, for every sequence
LEMMA PicksExist == ASSUME NEW s \in Seq(RuleType) PROVE \E f : Picks(f, s)
<1> DEFINE Good(f, n) == f \in [0..n -> Seq(RuleType)] /\ \A i \in 0..n : f[i] = Pick(f, s, i)
           Some(n) == \E f : Good(f, n)
           I == {n \in Nat : n <= Len(s) => Some(n)}
<1>1. 0 \in I
  <2>1. Good([i \in 0..0 |-> <<>>], 0)
    BY DEF Pick
  <2> QED BY <2>1
<1>2. ASSUME NEW n \in I PROVE n + 1 \in I
  <2> HIDE DEF Some
  <2> SUFFICES ASSUME n + 1 <= Len(s) PROVE Some(n + 1)
    OBVIOUS
  <2>0. n \in Nat /\ Len(s) \in Nat /\ n <= Len(s) /\ Some(n)
    OBVIOUS
  <2> USE DEF Some
  <2>1. PICK f : Good(f, n)
    BY <2>0
  <2> DEFINE g == [i \in 0..(n + 1) |-> IF i = n + 1 THEN Pick(f, s, n + 1) ELSE f[i]]
  <2>2. /\ 0..(n + 1) = 0..n \cup {n + 1} /\ n \in 0..n /\ n + 1 \notin 0..n
        /\ n + 1 # 0 /\ (n + 1) - 1 = n /\ n + 1 \in 1..Len(s)
    BY <2>0
  <2>3. Pick(f, s, n + 1) \in Seq(RuleType)
    <3>1. f[n] \in Seq(RuleType) /\ s[n + 1] \in RuleType
      BY <2>1, <2>2
    <3> QED BY <2>2, <3>1, AppendProperties DEF Pick
  <2>4. g \in [0..(n + 1) -> Seq(RuleType)]
    BY <2>1, <2>2, <2>3
  <2>5. ASSUME NEW i \in 0..(n + 1) PROVE g[i] = Pick(g, s, i)
    <3>1. i # 0 => i - 1 \in 0..n /\ g[i - 1] = f[i - 1]
      BY <2>0, <2>2
    <3>2. Pick(g, s, i) = Pick(f, s, i)
      BY <3>1 DEF Pick
    <3> QED BY <2>1, <2>2, <3>2
  <2> QED BY <2>4, <2>5
<1>3. I = Nat
  <2>1. I \subseteq Nat
    OBVIOUS
  <2> HIDE DEF I
  <2> QED BY <1>1, <1>2, <2>1, Induction
<1>4. Some(Len(s))
  <2> HIDE DEF Some
  <2>1. Len(s) \in Nat /\ Len(s) <= Len(s)
    OBVIOUS
  <2>2. \A n \in Nat : n <= Len(s) => Some(n)
    BY <1>3
  <2> QED BY <2>1, <2>2
<1> QED BY <1>4 DEF Picks

LEMMA PicksGive ==
  ASSUME NEW s \in Seq(RuleType)
  PROVE  \E f : Picks(f, s) /\ Theirs(s) = f[Len(s)]
<1> DEFINE Is(f) == f = [n \in 0..Len(s) |-> IF n = 0 THEN <<>>
                                ELSE IF s[n].tag # TAG THEN Append(f[n - 1], s[n])
                                ELSE f[n - 1]]
<1>1. PICK f : Picks(f, s)
  BY PicksExist
<1>2. Is(f)
  BY <1>1 DEF Picks, Pick
<1>3. Is(CHOOSE g : Is(g))
  BY <1>2
<1>4. Theirs(s) = (CHOOSE g : Is(g))[Len(s)]
  BY DEF Theirs
<1> DEFINE h == CHOOSE g : Is(g)
<1> HIDE DEF h
<1>5. Is(h) /\ Theirs(s) = h[Len(s)]
  BY <1>3, <1>4 DEF h
<1>6. h = f
  <2>0. \A g : Is(g) => \A n \in 0..Len(s) : g[n] = Pick(g, s, n)
    BY DEF Pick
  <2> DEFINE I == {n \in Nat : n <= Len(s) => h[n] = f[n]}
  <2>1. 0 \in I
    BY <1>2, <1>5
  <2>2. ASSUME NEW n \in I PROVE n + 1 \in I
    <3> SUFFICES ASSUME n + 1 <= Len(s) PROVE h[n + 1] = f[n + 1]
      OBVIOUS
    <3>1. n + 1 \in 0..Len(s) /\ n + 1 # 0 /\ (n + 1) - 1 = n /\ h[n] = f[n]
      OBVIOUS
    <3>2. h[n + 1] = Pick(h, s, n + 1) /\ f[n + 1] = Pick(f, s, n + 1)
      BY <1>2, <1>5, <2>0, <3>1
    <3> QED BY <3>1, <3>2 DEF Pick
  <2>3. I = Nat
    <3>1. I \subseteq Nat
      OBVIOUS
    <3> HIDE DEF I
    <3> QED BY <2>1, <2>2, <3>1, Induction
  <2>4. \A n \in 0..Len(s) : h[n] = f[n]
    BY <2>3
  <2> QED BY <2>4, <1>2, <1>5
<1> QED BY <1>1, <1>5, <1>6

\* by the last rule
LEMMA TheirsAppend ==
  ASSUME NEW s \in Seq(RuleType), NEW k \in RuleType
  PROVE  Theirs(Append(s, k)) = IF k.tag # TAG THEN Append(Theirs(s), k) ELSE Theirs(s)
<1> DEFINE t == Append(s, k)
<1>1. /\ t \in Seq(RuleType) /\ Len(t) = Len(s) + 1 /\ Len(s) \in Nat
      /\ t[Len(s) + 1] = k /\ \A i \in 1..Len(s) : t[i] = s[i]
  OBVIOUS
<1> HIDE DEF t
<1>2. PICK f : Picks(f, s) /\ Theirs(s) = f[Len(s)]
  BY PicksGive
<1>3. PICK g : Picks(g, t) /\ Theirs(t) = g[Len(t)]
  BY <1>1, PicksGive
<1> DEFINE I == {n \in Nat : n <= Len(s) => g[n] = f[n]}
<1>4. 0 \in I
  BY <1>1, <1>2, <1>3 DEF Picks, Pick
<1>5. ASSUME NEW n \in I PROVE n + 1 \in I
  <2> SUFFICES ASSUME n + 1 <= Len(s) PROVE g[n + 1] = f[n + 1]
    OBVIOUS
  <2>1. /\ n + 1 \in 0..Len(s) /\ n + 1 \in 0..Len(t) /\ n + 1 \in 1..Len(s)
        /\ n + 1 # 0 /\ (n + 1) - 1 = n /\ g[n] = f[n]
    BY <1>1
  <2>2. t[n + 1] = s[n + 1]
    BY <1>1, <2>1
  <2>3. f[n + 1] = Pick(f, s, n + 1) /\ g[n + 1] = Pick(g, t, n + 1)
    BY <1>2, <1>3, <2>1 DEF Picks
  <2> QED BY <2>1, <2>2, <2>3 DEF Pick
<1>6. I = Nat
  <2>1. I \subseteq Nat
    OBVIOUS
  <2> HIDE DEF I
  <2> QED BY <1>4, <1>5, <2>1, Induction
<1>7. g[Len(s)] = f[Len(s)]
  BY <1>1, <1>6
<1>8. g[Len(s) + 1] = Pick(g, t, Len(s) + 1) /\ Len(s) + 1 # 0 /\ (Len(s) + 1) - 1 = Len(s)
  BY <1>1, <1>3 DEF Picks
<1> QED BY <1>1, <1>2, <1>3, <1>7, <1>8 DEF Pick, t

LEMMA TheirsNone == Theirs(<<>>) = <<>>
<1>1. PICK f : Picks(f, <<>>) /\ Theirs(<<>>) = f[Len(<<>>)]
  BY PicksGive, EmptySeq
<1>2. Len(<<>>) = 0
  BY EmptySeq
<1> QED BY <1>1, <1>2 DEF Picks, Pick

LEMMA TheirsTyped == ASSUME NEW s \in Seq(RuleType) PROVE Theirs(s) \in Seq(RuleType)
<1>1. PICK f : Picks(f, s) /\ Theirs(s) = f[Len(s)]
  BY PicksGive
<1>2. Len(s) \in 0..Len(s)
  OBVIOUS
<1> QED BY <1>1, <1>2 DEF Picks

\* by parts
LEMMA TheirsJoined ==
  ASSUME NEW u \in Seq(RuleType), NEW v \in Seq(RuleType)
  PROVE  Theirs(u \o v) = Theirs(u) \o Theirs(v)
<1> DEFINE Good(s) == Theirs(u \o s) = Theirs(u) \o Theirs(s)
           I == {n \in Nat : \A s \in Seq(RuleType) : Len(s) = n => Good(s)}
<1>1. 0 \in I
  <2> SUFFICES ASSUME NEW s \in Seq(RuleType), Len(s) = 0 PROVE Good(s)
    OBVIOUS
  <2>1. s = <<>>
    BY EmptySeq
  <2>2. u \o <<>> = u /\ Theirs(u) \o <<>> = Theirs(u)
    BY TheirsTyped, ConcatEmptySeq
  <2> QED BY <2>1, <2>2, TheirsNone
<1>2. ASSUME NEW n \in I PROVE n + 1 \in I
  <2> SUFFICES ASSUME NEW s \in Seq(RuleType), Len(s) = n + 1 PROVE Good(s)
    OBVIOUS
  <2>1. PICK w \in Seq(RuleType), e \in RuleType : Len(w) = n /\ s = Append(w, e)
    <3>1. n \in Nat /\ s # <<>> /\ Len(s) - 1 = n
      BY EmptySeq
    <3>2. PICK w \in Seq(RuleType) : \E e \in RuleType : s = Append(w, e) /\ Len(w) = Len(s) - 1
      BY <3>1, LastOf
    <3> QED BY <3>1, <3>2
  <2>2. Good(w)
    BY <2>1
  <2>3. u \o w \in Seq(RuleType) /\ u \o Append(w, e) = Append(u \o w, e)
    BY AppendedLast, Joined
  <2>4. CASE e.tag = TAG
    <3>1. Theirs(Append(u \o w, e)) = Theirs(u \o w) /\ Theirs(Append(w, e)) = Theirs(w)
      BY <2>3, <2>4, TheirsAppend
    <3> QED BY <2>1, <2>2, <2>3, <3>1
  <2>5. CASE e.tag # TAG
    <3>1. Theirs(Append(u \o w, e)) = Append(Theirs(u \o w), e) /\ Theirs(Append(w, e)) = Append(Theirs(w), e)
      BY <2>3, <2>5, TheirsAppend
    <3>2. Theirs(u) \o Append(Theirs(w), e) = Append(Theirs(u) \o Theirs(w), e)
      BY TheirsTyped, AppendedLast
    <3> QED BY <2>1, <2>2, <2>3, <3>1, <3>2
  <2> QED BY <2>4, <2>5
<1>3. I = Nat
  <2>1. I \subseteq Nat
    OBVIOUS
  <2> HIDE DEF I
  <2> QED BY <1>1, <1>2, <2>1, Induction
<1>4. Len(v) \in Nat
  OBVIOUS
<1> QED BY <1>3, <1>4

\* a rule of the project comes or goes: the others do not see it
LEMMA TheirsPut ==
  ASSUME NEW s \in Seq(RuleType), NEW r \in RuleType, r.tag = TAG
  PROVE  Theirs(<<r>> \o s) = Theirs(s)
<1>1. Append(<<>>, r) = <<r>> /\ <<>> \in Seq(RuleType) /\ <<r>> \in Seq(RuleType)
  OBVIOUS
<1>2. Theirs(<<r>>) = <<>>
  BY <1>1, TheirsAppend, TheirsNone
<1>3. Theirs(<<r>> \o s) = Theirs(<<r>>) \o Theirs(s)
  BY <1>1, TheirsJoined
<1>4. <<>> \o Theirs(s) = Theirs(s)
  BY TheirsTyped, ConcatEmptySeq
<1> QED BY <1>2, <1>3, <1>4

LEMMA TheirsCut ==
  ASSUME NEW s \in Seq(RuleType), NEW r \in RuleType, r.tag = TAG
  PROVE  Theirs(RemoveFirst(s, r)) = Theirs(s)
<1>1. CASE r \notin ToSet(s)
  BY <1>1, RemoveNone
<1>2. CASE r \in ToSet(s)
  <2>1. PICK u \in Seq(RuleType) : \E v \in Seq(RuleType) : Cut(s, r, u, v)
    BY <1>2, CutIs
  <2>2. PICK v \in Seq(RuleType) : s = Append(u, r) \o v /\ RemoveFirst(s, r) = u \o v
    BY <2>1 DEF Cut
  <2>3. Append(u, r) \in Seq(RuleType) /\ Theirs(Append(u, r)) = Theirs(u)
    BY TheirsAppend, Appended
  <2>4. Theirs(Append(u, r) \o v) = Theirs(Append(u, r)) \o Theirs(v)
    BY <2>3, TheirsJoined
  <2>5. Theirs(u \o v) = Theirs(u) \o Theirs(v)
    BY TheirsJoined
  <2> QED BY <2>2, <2>3, <2>4, <2>5
<1> QED BY <1>1, <1>2

\* No step of the worker, failed or not, removes or reorders a rule of others.
THEOREM OthersStay == Spec => TheirsKept
<1> DEFINE Kept == Worker => \A t \in Tables : Theirs(tables'[t]) = Theirs(tables[t])
<1>1. ASSUME ChainInv, [Next]_vars PROVE [Kept]_vars
  <2> SUFFICES ASSUME Worker, NEW t \in Tables PROVE Theirs(tables'[t]) = Theirs(tables[t])
    OBVIOUS
  <2>0. tables \in [Tables -> Seq(RuleType)]
    BY <1>1 DEF ChainInv, TypeOK
  <2>1. CASE Apply
    <3> DEFINE c == network_changes(mode)[done + 1]
    <3>1. phase = "apply" /\ tables' \in {tables, [tables EXCEPT ![c.table] = <<c.rule>> \o @]}
      BY <2>1 DEF Apply, Insert
    <3>2. c.rule \in RuleType /\ c.rule.tag = TAG
      <4>1. c.table \in Tables /\ c.rule \in RulesOf(mode, c.table) /\ mode \in Modes
        BY <1>1, <3>1, Putting DEF ChainInv, TypeOK
      <4> HIDE DEF c
      <4> QED BY <4>1, RulesTyped
    <3> HIDE DEF c
    <3>3. tables'[t] \in {tables[t], <<c.rule>> \o tables[t]}
      BY <2>0, <3>1
    <3> QED BY <2>0, <3>2, <3>3, TheirsPut
  <2>2. CASE Undo
    <3> DEFINE c == network_changes(mode)[done]
    <3>1. done > 0 /\ tables' \in {tables, [tables EXCEPT ![c.table] = RemoveFirst(@, c.rule)]}
      BY <2>2 DEF Undo, Delete
    <3>2. c.rule \in RuleType /\ c.rule.tag = TAG
      <4>1. mode \in Modes /\ IsPlan(network_changes(mode), mode) /\ done \in 0..Len(network_changes(mode))
        BY <1>1, PlanIs DEF ChainInv, TypeOK
      <4>2. done \in 1..Len(network_changes(mode))
        BY <3>1, <4>1 DEF IsPlan
      <4>3. c.table \in Tables /\ c.rule \in RulesOf(mode, c.table)
        BY <4>1, <4>2 DEF IsPlan
      <4> HIDE DEF c
      <4> QED BY <4>1, <4>3, RulesTyped
    <3> HIDE DEF c
    <3>3. tables'[t] \in {tables[t], RemoveFirst(tables[t], c.rule)}
      BY <2>0, <3>1
    <3> QED BY <2>0, <3>2, <3>3, TheirsCut
  <2>3. CASE Start \/ Stop \/ Off
    BY <2>3 DEF Start, Stop, Off
  <2> QED BY <2>1, <2>2, <2>3 DEF Worker
<1> QED BY <1>1, ChainsHold, PTL DEF Spec, TheirsKept

-----------------------------------------------------------------------------
(* What the kernel decides.                                                 *)

Hit(s, p) == \E k \in 1..Len(s) : Matches(s[k], p)

\* the first rule that matches decides
LEMMA VerdictIs ==
  ASSUME NEW s \in Seq(RuleType), NEW p
  PROVE  /\ ~Hit(s, p) => Verdict(s, p) = "DEFAULT"
         /\ Hit(s, p) => \E k \in 1..Len(s) : /\ Matches(s[k], p) /\ Verdict(s, p) = s[k].j
                                              /\ \A i \in 1..Len(s) : Matches(s[i], p) => k <= i
<1> DEFINE hits == {k \in DOMAIN s : Matches(s[k], p)}
<1>1. DOMAIN s = 1..Len(s) /\ Len(s) \in Nat
  OBVIOUS
<1>2. Verdict(s, p) = IF hits = {} THEN "DEFAULT" ELSE s[Min(hits)].j
  BY DEF Verdict
<1>3. Hit(s, p) <=> hits # {}
  BY <1>1 DEF Hit
<1>4. hits # {} => Min(hits) \in hits /\ \A i \in hits : Min(hits) <= i
  <2>1. hits \subseteq Nat
    BY <1>1
  <2> HIDE DEF hits
  <2> QED BY <2>1, Smallest
<1>5. \A k : k \in hits <=> k \in 1..Len(s) /\ Matches(s[k], p)
  BY <1>1
<1> HIDE DEF hits
<1>6. ASSUME Hit(s, p)
      PROVE  \E k \in 1..Len(s) : /\ Matches(s[k], p) /\ Verdict(s, p) = s[k].j
                                  /\ \A i \in 1..Len(s) : Matches(s[i], p) => k <= i
  BY <1>2, <1>3, <1>4, <1>5, <1>6
<1> QED BY <1>2, <1>3, <1>6

\* a rule matches, and what is ahead of it and matches too says the same
LEMMA VerdictOf ==
  ASSUME NEW s \in Seq(RuleType), Shaped(s), NEW p, NEW r \in ToSet(s), Matches(r, p),
         \A a \in ToSet(s) : Matches(a, p) /\ (a = r \/ Fits(a, r)) => a.j = r.j
  PROVE  Verdict(s, p) = r.j
<1>1. PICK n \in 1..Len(s) : s[n] = r
  BY DEF ToSet
<1>2. Hit(s, p)
  BY <1>1 DEF Hit
<1>3. PICK k \in 1..Len(s) : /\ Matches(s[k], p) /\ Verdict(s, p) = s[k].j
                             /\ \A i \in 1..Len(s) : Matches(s[i], p) => k <= i
  BY <1>2, VerdictIs
<1>4. k <= n
  BY <1>1, <1>3
<1>5. s[k] = r \/ Fits(s[k], r)
  BY <1>1, <1>4 DEF Shaped
<1>6. s[k] \in ToSet(s)
  BY DEF ToSet
<1> QED BY <1>3, <1>5, <1>6

\* one rule more at the end
LEMMA VerdictAppend ==
  ASSUME NEW s \in Seq(RuleType), NEW e \in RuleType, NEW p
  PROVE  /\ Hit(Append(s, e), p) <=> Hit(s, p) \/ Matches(e, p)
         /\ Verdict(Append(s, e), p) = IF Hit(s, p) THEN Verdict(s, p)
                                       ELSE IF Matches(e, p) THEN e.j ELSE "DEFAULT"
<1> DEFINE w == Append(s, e)
<1>1. /\ w \in Seq(RuleType) /\ Len(w) = Len(s) + 1 /\ w[Len(s) + 1] = e /\ Len(s) \in Nat
      /\ \A i \in 1..Len(s) : w[i] = s[i]
  BY Appended
<1> HIDE DEF w
<1>2. \A i \in 1..Len(w) : i \in 1..Len(s) \/ i = Len(s) + 1
  BY <1>1
<1>3. 1..Len(s) \subseteq 1..Len(w) /\ Len(s) + 1 \in 1..Len(w)
  BY <1>1
<1>4. Hit(w, p) <=> Hit(s, p) \/ Matches(e, p)
  BY <1>1, <1>2, <1>3 DEF Hit
<1>5. CASE ~Hit(w, p)
  <2>1. Verdict(w, p) = "DEFAULT"
    BY <1>1, <1>5, VerdictIs
  <2> QED BY <1>4, <1>5, <2>1 DEF w
<1>6. CASE Hit(w, p)
  <2>1. PICK k \in 1..Len(w) : /\ Matches(w[k], p) /\ Verdict(w, p) = w[k].j
                               /\ \A i \in 1..Len(w) : Matches(w[i], p) => k <= i
    BY <1>1, <1>6, VerdictIs
  <2>2. CASE Hit(s, p)
    <3>1. PICK n \in 1..Len(s) : /\ Matches(s[n], p) /\ Verdict(s, p) = s[n].j
                                 /\ \A i \in 1..Len(s) : Matches(s[i], p) => n <= i
      BY <2>2, VerdictIs
    <3>2. k <= n
      BY <1>1, <1>3, <2>1, <3>1
    <3>3. k \in 1..Len(s)
      BY <1>1, <3>2
    <3>4. n <= k
      BY <1>1, <2>1, <3>1, <3>3
    <3>5. k = n
      BY <1>1, <3>2, <3>3, <3>4
    <3> QED BY <1>1, <1>4, <1>6, <2>1, <2>2, <3>1, <3>5 DEF w
  <2>3. CASE ~Hit(s, p)
    <3>1. k = Len(s) + 1
      BY <1>1, <1>2, <2>1, <2>3 DEF Hit
    <3> QED BY <1>1, <1>4, <1>6, <2>1, <2>3, <3>1 DEF w
  <2> QED BY <2>2, <2>3
<1> QED BY <1>5, <1>6

\* traffic that no rule of the project is about is decided by the rules of others
LEMMA TheirsDecide ==
  ASSUME NEW v \in Seq(RuleType), NEW p, \A r \in ToSet(v) : r.tag = TAG => ~Matches(r, p)
  PROVE  Verdict(Theirs(v), p) = Verdict(v, p)
<1> DEFINE Quiet(s) == \A r \in ToSet(s) : r.tag = TAG => ~Matches(r, p)
           Good(s) == /\ Verdict(Theirs(s), p) = Verdict(s, p)
                      /\ Hit(Theirs(s), p) <=> Hit(s, p)
           I == {n \in Nat : \A s \in Seq(RuleType) : Len(s) = n /\ Quiet(s) => Good(s)}
<1>1. 0 \in I
  <2> SUFFICES ASSUME NEW s \in Seq(RuleType), Len(s) = 0 PROVE Good(s)
    OBVIOUS
  <2>1. s = <<>>
    BY EmptySeq
  <2> QED BY <2>1, TheirsNone
<1>2. ASSUME NEW n \in I PROVE n + 1 \in I
  <2> SUFFICES ASSUME NEW s \in Seq(RuleType), Len(s) = n + 1, Quiet(s) PROVE Good(s)
    OBVIOUS
  <2>1. PICK w \in Seq(RuleType), e \in RuleType : Len(w) = n /\ s = Append(w, e)
    <3>1. n \in Nat /\ s # <<>> /\ Len(s) - 1 = n
      BY EmptySeq
    <3>2. PICK w \in Seq(RuleType) : \E e \in RuleType : s = Append(w, e) /\ Len(w) = Len(s) - 1
      BY <3>1, LastOf
    <3> QED BY <3>1, <3>2
  <2>2. ToSet(s) = ToSet(w) \cup {e}
    BY <2>1, Ends
  <2>3. Good(w)
    BY <2>1, <2>2
  <2>4. e.tag = TAG => ~Matches(e, p)
    BY <2>2
  <2>5. /\ Hit(s, p) <=> Hit(w, p) \/ Matches(e, p)
        /\ Verdict(s, p) = IF Hit(w, p) THEN Verdict(w, p) ELSE IF Matches(e, p) THEN e.j ELSE "DEFAULT"
    BY <2>1, VerdictAppend
  <2>6. CASE e.tag = TAG
    <3>1. Theirs(s) = Theirs(w)
      BY <2>1, <2>6, TheirsAppend
    <3>2. ~Hit(w, p) => Verdict(w, p) = "DEFAULT"
      BY VerdictIs
    <3> QED BY <2>3, <2>4, <2>5, <2>6, <3>1, <3>2
  <2>7. CASE e.tag # TAG
    <3>1. Theirs(s) = Append(Theirs(w), e) /\ Theirs(w) \in Seq(RuleType)
      BY <2>1, <2>7, TheirsAppend, TheirsTyped
    <3>2. /\ Hit(Theirs(s), p) <=> Hit(Theirs(w), p) \/ Matches(e, p)
          /\ Verdict(Theirs(s), p) = IF Hit(Theirs(w), p) THEN Verdict(Theirs(w), p)
                                     ELSE IF Matches(e, p) THEN e.j ELSE "DEFAULT"
      BY <3>1, VerdictAppend
    <3> QED BY <2>3, <2>5, <3>2
  <2> QED BY <2>6, <2>7
<1>3. I = Nat
  <2>1. I \subseteq Nat
    OBVIOUS
  <2> HIDE DEF I
  <2> QED BY <1>1, <1>2, <2>1, Induction
<1>4. Len(v) \in Nat
  OBVIOUS
<1> QED BY <1>3, <1>4

-----------------------------------------------------------------------------
(* A session that serves.                                                   *)

LEMMA ServingIs ==
  ASSUME ChainInv, Serving
  PROVE  \A t \in Tables : Ours(t) = RulesOf(mode, t)
<1> DEFINE s == network_changes(mode)
<1>1. IsPlan(s, mode) /\ done = Len(s) /\ phase = "serve" /\ ~errs
  BY PlanIs DEF ChainInv, TypeOK, Placed, Serving
<1>2. \A t \in Tables : Recorded(t) = {s[k].rule : k \in {k \in 1..Len(s) : s[k].table = t}}
  BY <1>1 DEF Recorded
<1> HIDE DEF s
<1>3. ASSUME NEW t \in Tables PROVE RulesOf(mode, t) \subseteq Recorded(t)
  <2> SUFFICES ASSUME NEW r \in RulesOf(mode, t) PROVE r \in Recorded(t)
    OBVIOUS
  <2>1. PICK k \in 1..Len(s) : s[k] = Change(t, r)
    BY <1>1 DEF IsPlan
  <2> QED BY <1>2, <2>1, ChangeIs
<1>4. ASSUME NEW t \in Tables PROVE Recorded(t) \subseteq Ours(t) /\ Ours(t) \subseteq RulesOf(mode, t)
  BY <1>1 DEF ChainInv, Covered, Planned
<1> QED BY <1>3, <1>4

\* a rule of the mode decides, when no rule of the mode says otherwise but the
\* rejection, and the packet does not come from a container
LEMMA Decides ==
  ASSUME ChainInv, Serving, NEW t \in Tables, NEW r \in RulesOf(mode, t), NEW p,
         Matches(r, p), p.s # "container",
         \A a \in RulesOf(mode, t) : Matches(a, p) => a.j = r.j \/ a = Reject
  PROVE  Verdict(tables[t], p) = r.j
<1> DEFINE s == tables[t]
<1>1. s \in Seq(RuleType) /\ Shaped(s) /\ mode \in Modes
  BY DEF ChainInv, TypeOK
<1>2. \A a \in ToSet(s) : a.tag = TAG => a \in RulesOf(mode, t)
  BY ServingIs, OursIs
<1>3. r \in ToSet(s) /\ r.tag = TAG
  BY <1>1, ServingIs, OursIs, RulesTyped
<1>4. ASSUME NEW a \in ToSet(s), Matches(a, p), a = r \/ Fits(a, r) PROVE a.j = r.j
  <2>1. CASE a = r
    BY <2>1
  <2>2. CASE Fits(a, r) /\ a.tag = TAG
    <3>1. a # Reject
      BY <1>3, <2>2 DEF Fits
    <3> QED BY <1>2, <1>4, <2>2, <3>1
  <2>3. CASE Fits(a, r) /\ a.tag # TAG
    <3>1. Known(a)
      BY <1>1 DEF Shaped, ToSet
    <3>2. a = Docker
      BY <1>3, <2>3, <3>1, ForeignRules DEF Fits, Known
    <3>3. Docker.s = "container"
      BY DEF Docker, Rule
    <3> QED BY <1>4, <3>2, <3>3 DEF Matches, Open
  <2> QED BY <1>4, <2>1, <2>2, <2>3
<1> QED BY <1>1, <1>3, <1>4, VerdictOf

LEMMA PacketIs ==
  ASSUME NEW i, NEW s, NEW d, NEW e
  PROVE  /\ Packet(i, s, d, e).i = i /\ Packet(i, s, d, e).s = s
         /\ Packet(i, s, d, e).d = d /\ Packet(i, s, d, e).est = e
         /\ Packet(i, s, d, e).o = Route(tables["rule"], [i |-> i, o |-> Open, s |-> s, d |-> d, est |-> e])
BY DEF Packet

\* what the rules of the project match
LEMMA OwnMatches ==
  ASSUME NEW p, p.i \in Ifaces, p.o \in Ifaces \cup {Open}, p.s \in Addrs, p.d \in Addrs
  PROVE  /\ Matches(Bypass, p) <=> p.i = "wifi"
         /\ Matches(NoIpv6, p) <=> p.i = "wifi"
         /\ Matches(Replies, p) <=> p.d = "client"
         /\ Matches(Wired, p) <=> p.i = "wifi" /\ p.o = "uplink" /\ p.s = "client"
         /\ Matches(Reject, p) <=> p.i = "wifi" /\ p.o = "uplink" /\ p.s = "client"
         /\ Matches(ToTun, p) <=> p.i = "wifi" /\ p.o = "tun" /\ p.s = "client"
         /\ Matches(Masquerade, p) <=> p.o = "uplink" /\ p.s = "client"
         /\ \A d \in Networks :
              Matches(Lan(d), p) <=> p.i = "wifi" /\ p.o = "uplink" /\ p.s = "client" /\ p.d = d
         /\ \A from \in {"tun", "uplink"} :
              Matches(Established(from), p) <=>
                p.i = from /\ p.o = "wifi" /\ p.d = "client" /\ p.est
<1>1. p.i # Open /\ p.s # Open /\ p.d # Open /\ \A d \in Networks : d # Open
  BY PrivateAssumption DEF Ifaces, Addrs, Open, Networks
<1> USE <1>1 DEF Matches, Rule, Open
<1>2. Matches(Bypass, p) <=> p.i = "wifi"
  BY DEF Bypass
<1>3. Matches(NoIpv6, p) <=> p.i = "wifi"
  BY DEF NoIpv6
<1>4. Matches(Replies, p) <=> p.d = "client"
  BY DEF Replies
<1>5. Matches(Wired, p) <=> p.i = "wifi" /\ p.o = "uplink" /\ p.s = "client"
  BY DEF Wired
<1>6. Matches(Reject, p) <=> p.i = "wifi" /\ p.o = "uplink" /\ p.s = "client"
  BY DEF Reject
<1>7. Matches(ToTun, p) <=> p.i = "wifi" /\ p.o = "tun" /\ p.s = "client"
  BY DEF ToTun
<1>8. Matches(Masquerade, p) <=> p.o = "uplink" /\ p.s = "client"
  BY DEF Masquerade
<1>9. ASSUME NEW d \in Networks
      PROVE  Matches(Lan(d), p) <=> p.i = "wifi" /\ p.o = "uplink" /\ p.s = "client" /\ p.d = d
  BY DEF Lan
<1>10. ASSUME NEW from \in {"tun", "uplink"}
       PROVE  Matches(Established(from), p) <=> p.i = from /\ p.o = "wifi" /\ p.d = "client" /\ p.est
  BY DEF Established
<1> QED BY <1>2, <1>3, <1>4, <1>5, <1>6, <1>7, <1>8, <1>9, <1>10

LEMMA Says ==
  /\ Bypass.j = "main" /\ Replies.j = "main" /\ NoIpv6.j = "REJECT" /\ Masquerade.j = "MASQUERADE"
  /\ Wired.j = "ACCEPT" /\ Reject.j = "REJECT" /\ ToTun.j = "ACCEPT"
  /\ \A d : Lan(d).j = "ACCEPT" /\ Established(d).j = "ACCEPT"
BY DEF Bypass, Replies, NoIpv6, Masquerade, Wired, Reject, ToTun, Lan, Established, Rule

LEMMA AddrsAre ==
  /\ \A d \in Networks : d \in Addrs /\ d \notin {Open, "client", "public", "container"}
  /\ "public" \in Addrs /\ "client" \in Addrs /\ "container" \in Addrs /\ "public" \notin Networks
BY PrivateAssumption DEF Networks, Addrs

\* where a client's packets go
LEMMA ClientRoute ==
  ASSUME ChainInv, Serving, NEW d \in Networks \cup {"public"}
  PROVE  LET p == FromClient(d) IN
         /\ p.i = "wifi" /\ p.s = "client" /\ p.d = d /\ ~p.est
         /\ p.o \in {"uplink", "tun"}
         /\ mode = "direct" \/ d \in Networks => p.o = "uplink"
<1> DEFINE q == [i |-> "wifi", o |-> Open, s |-> "client", d |-> d, est |-> FALSE]
           p == FromClient(d)
<1>1. p.i = "wifi" /\ p.s = "client" /\ p.d = d /\ ~p.est /\ p.o = Route(tables["rule"], q)
  <2>1. PICK e \in BOOLEAN : e = FALSE
    OBVIOUS
  <2> DEFINE x == Packet("wifi", "client", d, e)
             y == [i |-> "wifi", o |-> Open, s |-> "client", d |-> d, est |-> e]
  <2>2. x.i = "wifi" /\ x.s = "client" /\ x.d = d /\ x.est = e /\ x.o = Route(tables["rule"], y)
    BY PacketIs
  <2>3. p = x /\ q = y
    BY <2>1 DEF FromClient
  <2> HIDE DEF x, y, p, q
  <2> QED BY <2>1, <2>2, <2>3
<1>2. q.i = "wifi" /\ q.d = d /\ d # "client" /\ q.s = "client" /\ q.o = Open /\ q.est = FALSE
  BY AddrsAre
<1> HIDE DEF p, q
<1>3. Route(tables["rule"], q) \in {"tun", "uplink"}
  BY <1>2 DEF Route
<1>4. ASSUME mode = "direct" PROVE Route(tables["rule"], q) = "uplink"
  <2>1. Bypass \in RulesOf(mode, "rule") /\ \A a \in RulesOf(mode, "rule") : a.j = Bypass.j
    BY <1>4, Says DEF RulesOf
  <2>2. Matches(Bypass, q)
    BY <1>2, AddrsAre, OwnMatches DEF Ifaces
  <2>3. q.s # "container" /\ "rule" \in Tables
    BY <1>2 DEF Tables
  <2>4. Verdict(tables["rule"], q) = Bypass.j
    BY <2>1, <2>2, <2>3, Decides
  <2> QED BY <1>2, <2>4, Says DEF Route
<1>5. ASSUME d \in Networks PROVE Route(tables["rule"], q) = "uplink"
  BY <1>2, <1>5 DEF Route, MihomoTakes, Networks
<1> QED BY <1>1, <1>3, <1>4, <1>5 DEF p

LEMMA RulesAre ==
  /\ RulesOf("direct", "filter") = {Wired, Established("uplink")}
  /\ RulesOf("proxy", "filter") = {Reject, ToTun, Established("tun"), Established("uplink")}
                                  \cup {Lan(d) : d \in Networks}
  /\ RulesOf("proxy", "ip6") = {NoIpv6}
  /\ \A m : RulesOf(m, "nat") = {Masquerade} /\ Replies \in RulesOf(m, "rule")
  /\ \A m : \A r \in RulesOf(m, "rule") : r \in {Bypass, Replies}
  /\ {"rule", "filter", "nat", "ip6"} = Tables
BY DEF RulesOf, Tables

\* In proxy mode, for every list of private networks and any number of rules of
\* others, those ahead of ours about containers only: public traffic of a client
\* is rejected on the wire, and IPv6 is not forwarded.
THEOREM NothingFallsBack == Spec => []NoFallback
<1>1. ASSUME ChainInv, Serving, mode = "proxy"
      PROVE  LET p == FromClient("public") IN
             /\ p.o = "uplink" => Verdict(tables["filter"], p) = "REJECT"
             /\ Verdict(tables["ip6"], p) = "REJECT"
  <2> DEFINE p == FromClient("public")
  <2>1. /\ p.i = "wifi" /\ p.s = "client" /\ p.d = "public" /\ p.o \in {"uplink", "tun"}
    BY <1>1, ClientRoute
  <2> HIDE DEF p
  <2>2. p.i \in Ifaces /\ p.o \in Ifaces \cup {Open} /\ p.s \in Addrs /\ p.d \in Addrs
    BY <2>1, AddrsAre DEF Ifaces
  <2>3. p.s # "container" /\ "filter" \in Tables /\ "ip6" \in Tables
    BY <2>1, RulesAre
  <2>4. ASSUME p.o = "uplink" PROVE Verdict(tables["filter"], p) = "REJECT"
    <3>1. Matches(Reject, p) /\ Reject \in RulesOf(mode, "filter")
      BY <1>1, <2>1, <2>2, <2>4, OwnMatches, RulesAre
    <3>2. ASSUME NEW a \in RulesOf(mode, "filter"), Matches(a, p) PROVE a.j = Reject.j \/ a = Reject
      <4>1. a \in {Reject, ToTun, Established("tun"), Established("uplink")} \/ \E d \in Networks : a = Lan(d)
        BY <1>1, RulesAre
      <4>2. \A d \in Networks : a # Lan(d)
        BY <2>1, <2>2, <3>2, AddrsAre, OwnMatches
      <4>3. a # ToTun /\ a # Established("tun") /\ a # Established("uplink")
        BY <2>1, <2>2, <2>4, <3>2, OwnMatches
      <4> QED BY <4>1, <4>2, <4>3
    <3> QED BY <1>1, <2>3, <3>1, <3>2, Decides, Says
  <2>5. Verdict(tables["ip6"], p) = "REJECT"
    <3>1. Matches(NoIpv6, p) /\ NoIpv6 \in RulesOf(mode, "ip6")
      BY <1>1, <2>1, <2>2, OwnMatches, RulesAre
    <3>2. \A a \in RulesOf(mode, "ip6") : a.j = NoIpv6.j
      BY <1>1, RulesAre
    <3> QED BY <1>1, <2>3, <3>1, <3>2, Decides, Says
  <2> QED BY <2>4, <2>5 DEF p
<1>2. ChainInv => NoFallback
  BY <1>1 DEF NoFallback
<1> QED BY <1>2, ChainsHold, PTL

\* For every list of private networks and any number of rules of others, those
\* ahead of ours about containers only: what a client may reach it reaches, with
\* an address that answers come back to, and they come back to the adapter.
THEOREM ClientsAreServed == Spec => []Served
<1>1. ASSUME ChainInv, Serving, NEW d \in Networks \cup {"public"},
             LET p == FromClient(d) IN ~(mode = "proxy" /\ d = "public" /\ p.o = "uplink")
      PROVE  LET p == FromClient(d)
                 r == Packet(p.o, d, "client", TRUE)
             IN  /\ Verdict(tables["filter"], p) = "ACCEPT"
                 /\ p.o = "uplink" => Verdict(tables["nat"], p) = "MASQUERADE"
                 /\ r.o = "wifi" /\ Verdict(tables["filter"], r) = "ACCEPT"
  <2> DEFINE p == FromClient(d)
             r == Packet(p.o, d, "client", TRUE)
             q == [i |-> p.o, o |-> Open, s |-> d, d |-> "client", est |-> TRUE]
  <2>0. mode \in {"proxy", "direct"}
    BY <1>1 DEF ChainInv, TypeOK, Modes
  <2>1. /\ p.i = "wifi" /\ p.s = "client" /\ p.d = d /\ p.o \in {"uplink", "tun"}
        /\ mode = "direct" \/ d \in Networks => p.o = "uplink"
        /\ ~p.est /\ ~(mode = "proxy" /\ d = "public" /\ p.o = "uplink")
    BY <1>1, ClientRoute
  <2>2. r.i = p.o /\ r.s = d /\ r.d = "client" /\ r.est /\ r.o = Route(tables["rule"], q)
    <3>1. PICK e \in BOOLEAN : e = TRUE
      OBVIOUS
    <3> DEFINE x == Packet(p.o, d, "client", e)
               y == [i |-> p.o, o |-> Open, s |-> d, d |-> "client", est |-> e]
    <3>2. x.i = p.o /\ x.s = d /\ x.d = "client" /\ x.est = e /\ x.o = Route(tables["rule"], y)
      BY PacketIs
    <3>3. r = x /\ q = y
      BY <3>1
    <3> HIDE DEF x, y, r, q
    <3> QED BY <3>1, <3>2, <3>3
  <2>3. q.i = p.o /\ q.o = Open /\ q.s = d /\ q.d = "client" /\ q.est = TRUE
    OBVIOUS
  <2> HIDE DEF p, q, r
  <2>4. /\ p.i \in Ifaces /\ p.o \in Ifaces /\ p.s \in Addrs /\ p.d \in Addrs
        /\ d # "container" /\ d # "client" /\ d \in Addrs
    BY <2>1, AddrsAre DEF Ifaces
  <2>5. Verdict(tables["filter"], p) = "ACCEPT"
    <3>1. CASE mode = "direct"
      <4>1. Matches(Wired, p) /\ Wired \in RulesOf(mode, "filter") /\ p.s # "container"
        BY <2>1, <2>4, <3>1, OwnMatches, RulesAre
      <4>2. \A a \in RulesOf(mode, "filter") : a.j = Wired.j
        BY <3>1, RulesAre, Says
      <4> QED BY <1>1, <4>1, <4>2, Decides, RulesAre, Says
    <3>2. CASE mode = "proxy"
      <4>1. \A a \in RulesOf(mode, "filter") : a.j = "ACCEPT" \/ a = Reject
        BY <3>2, RulesAre, Says
      <4>2. PICK a \in RulesOf(mode, "filter") : Matches(a, p) /\ a.j = "ACCEPT"
        <5>1. CASE d \in Networks
          <6>1. Matches(Lan(d), p) /\ Lan(d) \in RulesOf(mode, "filter")
            BY <2>1, <2>4, <3>2, <5>1, OwnMatches, RulesAre
          <6> QED BY <6>1, Says
        <5>2. CASE d = "public"
          <6>1. Matches(ToTun, p) /\ ToTun \in RulesOf(mode, "filter")
            BY <2>1, <2>4, <3>2, <5>2, OwnMatches, RulesAre
          <6> QED BY <6>1, Says
        <5> QED BY <5>1, <5>2
      <4>3. p.s # "container"
        BY <2>1
      <4> QED BY <1>1, <4>1, <4>2, <4>3, Decides, RulesAre
    <3> QED BY <2>0, <3>1, <3>2
  <2>6. ASSUME p.o = "uplink" PROVE Verdict(tables["nat"], p) = "MASQUERADE"
    <3>1. Matches(Masquerade, p) /\ Masquerade \in RulesOf(mode, "nat") /\ p.s # "container"
      BY <2>1, <2>4, <2>6, OwnMatches, RulesAre
    <3>2. \A a \in RulesOf(mode, "nat") : a.j = Masquerade.j
      BY RulesAre
    <3> QED BY <1>1, <3>1, <3>2, Decides, RulesAre, Says
  <2>7. r.o = "wifi"
    <3>1. Matches(Replies, q) /\ Replies \in RulesOf(mode, "rule")
      <4>1. q.i \in Ifaces /\ q.o \in Ifaces \cup {Open} /\ q.s \in Addrs /\ q.d \in Addrs
        BY <2>3, <2>4, AddrsAre
      <4> QED BY <2>3, <4>1, OwnMatches, RulesAre
    <3>2. \A a \in RulesOf(mode, "rule") : a.j = Replies.j
      BY RulesAre, Says
    <3>3. q.s # "container"
      BY <2>3, <2>4
    <3>4. Verdict(tables["rule"], q) = "main"
      BY <1>1, <3>1, <3>2, <3>3, Decides, RulesAre, Says
    <3> QED BY <2>2, <2>3, <3>4 DEF Route
  <2>8. Verdict(tables["filter"], r) = "ACCEPT"
    <3>1. r.i \in Ifaces /\ r.o \in Ifaces \cup {Open} /\ r.s \in Addrs /\ r.d \in Addrs /\ r.i # "wifi"
      BY <2>1, <2>2, <2>4, <2>7, AddrsAre DEF Ifaces
    <3>2. PICK a \in RulesOf(mode, "filter") : Matches(a, r) /\ a.j = "ACCEPT"
      <4>1. CASE p.o = "uplink"
        <5>1. Matches(Established("uplink"), r) /\ Established("uplink") \in RulesOf(mode, "filter")
          BY <2>0, <2>2, <2>7, <3>1, <4>1, OwnMatches, RulesAre
        <5> QED BY <5>1, Says
      <4>2. CASE p.o = "tun"
        <5>1. mode = "proxy"
          BY <2>0, <2>1, <4>2
        <5>2. Matches(Established("tun"), r) /\ Established("tun") \in RulesOf(mode, "filter")
          BY <2>2, <2>7, <3>1, <4>2, <5>1, OwnMatches, RulesAre
        <5> QED BY <5>2, Says
      <4> QED BY <2>1, <4>1, <4>2
    <3>3. \A b \in RulesOf(mode, "filter") : b.j = "ACCEPT" \/ b = Reject
      BY <2>0, RulesAre, Says
    <3>4. r.s # "container"
      BY <2>2, <2>4
    <3> QED BY <1>1, <3>2, <3>3, <3>4, Decides, RulesAre
  <2> QED BY <2>5, <2>6, <2>7, <2>8 DEF p, r
<1>2. ChainInv => Served
  BY <1>1 DEF Served, Networks
<1> QED BY <1>2, ChainsHold, PTL

\* For every list of private networks: traffic that neither comes from the
\* adapter nor goes to a client is routed and decided as if there were no rule of
\* this project, while a session starts or stops, and also after a failed stop.
THEOREM OthersAreUntouched == Spec => []UnrelatedUntouched
<1>1. ASSUME ChainInv, NEW i \in Ifaces \ {"wifi"}, NEW s \in {"container", "public"},
             NEW d \in {"container", "public"}, NEW e \in BOOLEAN
      PROVE  LET p == Packet(i, s, d, e) IN
             /\ p.o = Route(<<>>, p)
             /\ \A t \in Tables \ {"rule"} : Verdict(tables[t], p) = Verdict(Theirs(tables[t]), p)
  <2> DEFINE p == Packet(i, s, d, e)
             q == [i |-> i, o |-> Open, s |-> s, d |-> d, est |-> e]
  <2>1. p.i = i /\ p.s = s /\ p.d = d /\ p.est = e /\ p.o = Route(tables["rule"], q)
    BY PacketIs
  <2>2. q.i = i /\ q.s = s /\ q.d = d /\ q.est = e /\ q.o = Open
    OBVIOUS
  <2> HIDE DEF p, q
  <2>3. /\ i \in Ifaces /\ i # "wifi" /\ s \in Addrs /\ s # "client" /\ d \in Addrs /\ d # "client"
        /\ mode \in Modes
    BY <1>1, AddrsAre DEF ChainInv, TypeOK
  <2>4. p.o \in Ifaces
    BY <2>1 DEF Route, Ifaces
  <2>5. ASSUME NEW x \in {p, q}, NEW t \in Tables, NEW r \in RulesOf(mode, t) PROVE ~Matches(r, x)
    <3>1. /\ x.i \in Ifaces /\ x.o \in Ifaces \cup {Open} /\ x.s \in Addrs /\ x.d \in Addrs
          /\ x.i # "wifi" /\ x.s # "client" /\ x.d # "client"
      BY <2>1, <2>2, <2>3, <2>4
    <3>2. \/ r \in {Bypass, Replies, NoIpv6, Wired, Reject, ToTun, Masquerade,
                    Established("tun"), Established("uplink")}
          \/ \E n \in Networks : r = Lan(n)
      BY DEF RulesOf
    <3> QED BY <3>1, <3>2, OwnMatches
  <2>6. ASSUME NEW t \in Tables, NEW r \in ToSet(tables[t]), r.tag = TAG, NEW x \in {p, q}
        PROVE  ~Matches(r, x)
    <3>1. r \in RulesOf(mode, t)
      BY <1>1, <2>6, OursIs DEF ChainInv, Planned
    <3> QED BY <2>5, <3>1
  <2>7. \A t \in Tables : tables[t] \in Seq(RuleType)
    BY <1>1 DEF ChainInv, TypeOK
  <2>8. p.o = Route(<<>>, p)
    <3>1. ~Hit(tables["rule"], q)
      <4>1. \A r \in ToSet(tables["rule"]) : r.tag = TAG
        BY <1>1, RangeIs DEF ChainInv, Private
      <4> QED BY <2>6, <4>1, RulesAre DEF Hit, ToSet
    <3>2. Verdict(tables["rule"], q) = "DEFAULT"
      BY <2>7, <3>1, RulesAre, VerdictIs
    <3>3. ~Hit(<<>>, p) /\ <<>> \in Seq(RuleType)
      BY DEF Hit
    <3>4. Verdict(<<>>, p) = "DEFAULT"
      BY <3>3, VerdictIs
    <3> QED BY <2>1, <2>2, <3>2, <3>4 DEF Route, MihomoTakes
  <2>9. ASSUME NEW t \in Tables \ {"rule"} PROVE Verdict(tables[t], p) = Verdict(Theirs(tables[t]), p)
    BY <2>6, <2>7, TheirsDecide
  <2> QED BY <2>8, <2>9 DEF p
<1>2. ChainInv => UnrelatedUntouched
  BY <1>1 DEF UnrelatedUntouched
<1> QED BY <1>2, ChainsHold, PTL
=============================================================================
