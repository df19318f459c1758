--------------------------- MODULE SequenceLemmas ---------------------------
(***************************************************************************)
(* What the proofs about the driver need of numbers and sequences:         *)
(* induction, division, taking an entry out of the middle of a queue, a    *)
(* step at either end, and sequences without duplicates.                   *)
(***************************************************************************)
EXTENDS Naturals, Sequences, SequencesExt, TLAPS, WellFoundedInduction, SequenceTheorems

\* a set of numbers that is not empty has a smallest one
LEMMA Smallest ==
  ASSUME NEW I, I \subseteq Nat, I # {}
  PROVE  Min(I) \in I /\ \A y \in I : Min(I) <= y
<1>1. PICK x \in I : \A y \in I : ~(<<y, x>> \in OpToRel(<, Nat))
  BY WFMin, NatLessThanWellFounded
<1>2. \A y \in I : x <= y
  <2> SUFFICES ASSUME NEW y \in I, y < x PROVE FALSE
    OBVIOUS
  <2>1. x \in Nat /\ y \in Nat
    OBVIOUS
  <2>2. <<y, x>> \in OpToRel(<, Nat)
    BY <2>1 DEF OpToRel
  <2> QED BY <2>2, <1>1
<1> QED BY <1>2 DEF Min

\* Induction, over a set of numbers.
LEMMA Induction ==
  ASSUME NEW I, I \subseteq Nat, 0 \in I, \A n \in I : n + 1 \in I
  PROVE  I = Nat
<1> DEFINE J == Nat \ I
           m == Min(J)
<1> SUFFICES ASSUME J # {} PROVE FALSE
  OBVIOUS
<1>1. m \in J /\ \A y \in J : m <= y
  <2>1. J \subseteq Nat
    OBVIOUS
  <2> HIDE DEF J
  <2> QED BY <2>1, Smallest
<1> HIDE DEF m
<1>2. m \in Nat /\ m # 0 /\ m \notin I
  BY <1>1
<1>3. m - 1 \in Nat /\ ~(m <= m - 1)
  BY <1>2
<1>4. m - 1 \in I
  BY <1>1, <1>3
<1>5. (m - 1) + 1 \in I /\ (m - 1) + 1 = m
  BY <1>2, <1>4
<1> QED BY <1>2, <1>5

\* what \div and % stand for, which the provers know for constants only
LEMMA Division ==
  ASSUME NEW x \in Nat, NEW n \in Nat, n > 0
  PROVE  \E k \in Nat, r \in 0..(n - 1) : x = n * k + r /\ x % n = r
<1>1. PICK k \in Nat : k = x \div n
  OBVIOUS
<1>2. n * k <= x /\ x < n * k + n
  BY <1>1
<1> DEFINE p == n * k
<1>3. p \in Nat
  OBVIOUS
<1>4. PICK r \in Nat : x = p + r /\ r < n
  <2>1. p <= x /\ x < p + n
    BY <1>2
  <2> HIDE DEF p
  <2>2. x - p \in Nat /\ x = p + (x - p) /\ x - p < n
    BY <1>3, <2>1
  <2> QED BY <2>2
<1>5. x % n = r
  BY <1>4
<1>6. k \in Nat /\ r \in 0..(n - 1)
  BY <1>4
<1> HIDE DEF p
<1>7. x = p + r /\ x % n = r
  BY <1>4, <1>5
<1> QED BY <1>6, <1>7 DEF p

\* RemoveFirst takes one entry out, and those behind it move up
LEMMA RemoveFirstIs ==
  ASSUME NEW S, NEW s \in Seq(S), NEW e \in ToSet(s)
  PROVE  LET r == RemoveFirst(s, e) IN
         /\ r \in Seq(S) /\ Len(r) = Len(s) - 1
         /\ \E m \in 1..Len(s) : /\ s[m] = e
                                 /\ \A i \in 1..Len(r) : r[i] = s[IF i < m THEN i ELSE i + 1]
<1> DEFINE I == {i \in 1..Len(s) : s[i] = e}
           m == Min(I)
<1>1. I \subseteq Nat /\ I # {}
  BY DEF ToSet
<1>2. m \in I
  <2> HIDE DEF I
  <2> QED BY <1>1, Smallest
<1>3. RemoveFirst(s, e) = SubSeq(s, 1, m - 1) \o SubSeq(s, m + 1, Len(s))
  BY <1>1 DEF RemoveFirst, RemoveAt, SelectInSeq
<1> DEFINE a == SubSeq(s, 1, m - 1)
           b == SubSeq(s, m + 1, Len(s))
           r == a \o b
<1>4. m \in 1..Len(s) /\ s[m] = e /\ Len(s) \in Nat
  BY <1>2
<1> HIDE DEF I, m
<1>5. /\ a \in Seq(S) /\ Len(a) = m - 1
      /\ \A i \in 1..(m - 1) : a[i] = s[i]
  BY <1>4, SubSeqProperties
<1>6. /\ b \in Seq(S) /\ Len(b) = Len(s) - m
      /\ \A i \in 1..(Len(s) - m) : b[i] = s[m + i]
  <2>1. \A i \in (m + 1)..Len(s) : s[i] \in S
    BY <1>4
  <2>2. /\ b \in Seq(S) /\ Len(b) = IF m + 1 <= Len(s) THEN Len(s) - (m + 1) + 1 ELSE 0
        /\ \A i \in 1..(Len(s) - (m + 1) + 1) : b[i] = s[(m + 1) + i - 1]
    BY <1>4, <2>1, SubSeqProperties
  <2> QED BY <1>4, <2>2
<1> HIDE DEF a, b
<1>7. /\ r \in Seq(S) /\ Len(r) = Len(s) - 1
      /\ \A i \in 1..Len(r) : r[i] = IF i <= m - 1 THEN a[i] ELSE b[i - (m - 1)]
  <2>1. /\ r \in Seq(S) /\ Len(r) = Len(a) + Len(b)
        /\ \A i \in 1..(Len(a) + Len(b)) : r[i] = IF i <= Len(a) THEN a[i] ELSE b[i - Len(a)]
    BY <1>5, <1>6, ConcatProperties
  <2> HIDE DEF r
  <2>2. Len(a) + Len(b) = Len(s) - 1
    BY <1>4, <1>5, <1>6
  <2> QED BY <1>5, <2>1, <2>2
<1> HIDE DEF r
<1>8. \A i \in 1..Len(r) : r[i] = s[IF i < m THEN i ELSE i + 1]
  <2> SUFFICES ASSUME NEW i \in 1..Len(r) PROVE r[i] = s[IF i < m THEN i ELSE i + 1]
    OBVIOUS
  <2>1. CASE i < m
    BY <1>4, <1>5, <1>7, <2>1
  <2>2. CASE ~(i < m)
    <3>1. i - (m - 1) \in 1..(Len(s) - m) /\ m + (i - (m - 1)) = i + 1 /\ ~(i <= m - 1)
      BY <1>4, <1>7, <2>2
    <3>2. r[i] = b[i - (m - 1)]
      BY <1>7, <3>1
    <3>3. b[i - (m - 1)] = s[m + (i - (m - 1))]
      BY <1>6, <3>1
    <3> QED BY <2>2, <3>1, <3>2, <3>3
  <2> QED BY <2>1, <2>2
<1>9. RemoveFirst(s, e) = r
  BY <1>3 DEF a, b, r
<1> QED BY <1>4, <1>7, <1>8, <1>9

\* what is not in a sequence is not taken out
LEMMA RemoveNone ==
  ASSUME NEW S, NEW s \in Seq(S), NEW e, e \notin ToSet(s)
  PROVE  RemoveFirst(s, e) = s
<1>1. {i \in 1..Len(s) : s[i] = e} = {}
  BY DEF ToSet
<1> QED BY <1>1 DEF RemoveFirst

\* RemoveFirst takes nothing out but the entry it is asked for
LEMMA RemoveFirstKeeps ==
  ASSUME NEW S, NEW s \in Seq(S), NEW e
  PROVE  /\ RemoveFirst(s, e) \in Seq(S) /\ Len(RemoveFirst(s, e)) <= Len(s)
         /\ \A x \in ToSet(s) : x # e => x \in ToSet(RemoveFirst(s, e))
<1> DEFINE r == RemoveFirst(s, e)
<1>1. CASE e \notin ToSet(s)
  BY <1>1, RemoveNone
<1>2. CASE e \in ToSet(s)
  <2>1. r \in Seq(S) /\ Len(r) = Len(s) - 1 /\ Len(s) \in Nat /\ Len(r) \in Nat
    BY <1>2, RemoveFirstIs
  <2>2. PICK m \in 1..Len(s) : /\ s[m] = e
                               /\ \A i \in 1..Len(r) : r[i] = s[IF i < m THEN i ELSE i + 1]
    BY <1>2, RemoveFirstIs
  <2> HIDE DEF r
  <2>3. ASSUME NEW x \in ToSet(s), x # e PROVE x \in ToSet(r)
    <3>1. PICK i \in 1..Len(s) : s[i] = x
      BY DEF ToSet
    <3>2. i # m
      BY <2>2, <2>3, <3>1
    <3>3. CASE i < m
      <4>1. i \in 1..Len(r) /\ r[i] = x
        BY <2>1, <2>2, <3>1, <3>3
      <4> QED BY <4>1, <2>1 DEF ToSet
    <3>4. CASE i > m
      <4>1. i - 1 \in 1..Len(r) /\ ~(i - 1 < m) /\ (i - 1) + 1 = i
        BY <2>1, <3>1, <3>4
      <4>2. r[i - 1] = x
        BY <2>2, <3>1, <4>1
      <4> QED BY <4>1, <4>2, <2>1 DEF ToSet
    <3> QED BY <3>1, <3>2, <3>3, <3>4
  <2>4. r \in Seq(S) /\ Len(r) <= Len(s)
    BY <2>1
  <2> QED BY <2>3, <2>4 DEF r
<1> QED BY <1>1, <1>2

\* in a list without duplicates, and taken out once, it is gone
LEMMA RemoveFirstTakes ==
  ASSUME NEW S, NEW s \in Seq(S), NEW e, IsInjective(s)
  PROVE  /\ IsInjective(RemoveFirst(s, e))
         /\ ToSet(RemoveFirst(s, e)) = ToSet(s) \ {e}
<1> DEFINE r == RemoveFirst(s, e)
<1>1. CASE e \notin ToSet(s)
  BY <1>1, RemoveNone
<1>2. CASE e \in ToSet(s)
  <2>1. /\ r \in Seq(S) /\ Len(r) = Len(s) - 1 /\ Len(s) \in Nat /\ Len(r) \in Nat
        /\ DOMAIN r = 1..Len(r) /\ DOMAIN s = 1..Len(s)
    BY <1>2, RemoveFirstIs
  <2>2. PICK m \in 1..Len(s) : /\ s[m] = e
                               /\ \A i \in 1..Len(r) : r[i] = s[IF i < m THEN i ELSE i + 1]
    BY <1>2, RemoveFirstIs
  <2>3. \A x \in ToSet(s) : x # e => x \in ToSet(r)
    BY RemoveFirstKeeps
  <2> HIDE DEF r
  <2>4. \A i, j \in 1..Len(s) : s[i] = s[j] => i = j
    BY <2>1 DEF IsInjective
  <2>5. ASSUME NEW i \in 1..Len(r), NEW j \in 1..Len(r), r[i] = r[j] PROVE i = j
    <3>1. /\ (IF i < m THEN i ELSE i + 1) \in 1..Len(s)
          /\ (IF j < m THEN j ELSE j + 1) \in 1..Len(s)
      BY <2>1
    <3>2. (IF i < m THEN i ELSE i + 1) = (IF j < m THEN j ELSE j + 1)
      BY <2>2, <2>4, <2>5, <3>1
    <3> QED BY <2>1, <3>2
  <2>6. ASSUME NEW i \in 1..Len(r) PROVE r[i] \in ToSet(s) \ {e}
    <3>1. /\ (IF i < m THEN i ELSE i + 1) \in 1..Len(s)
          /\ (IF i < m THEN i ELSE i + 1) # m
      BY <2>1
    <3> QED BY <2>1, <2>2, <2>4, <3>1 DEF ToSet
  <2>7. IsInjective(r)
    BY <2>1, <2>5 DEF IsInjective
  <2>8. ToSet(r) = ToSet(s) \ {e}
    BY <2>1, <2>3, <2>6 DEF ToSet
  <2> QED BY <2>7, <2>8 DEF r
<1> QED BY <1>1, <1>2

\* what a step at either end of a queue does to the set of its entries
LEMMA Ends ==
  ASSUME NEW S, NEW s \in Seq(S)
  PROVE  /\ \A x \in S : ToSet(Append(s, x)) = ToSet(s) \cup {x}
         /\ s # <<>> => \A x \in ToSet(s) : x # Head(s) => x \in ToSet(Tail(s))
<1>1. ASSUME NEW x \in S PROVE ToSet(Append(s, x)) = ToSet(s) \cup {x}
  <2>1. /\ Append(s, x) \in Seq(S) /\ Len(Append(s, x)) = Len(s) + 1
        /\ \A i \in 1..Len(s) : Append(s, x)[i] = s[i]
        /\ Append(s, x)[Len(s) + 1] = x
    OBVIOUS
  <2>2. DOMAIN Append(s, x) = 1..(Len(s) + 1) /\ DOMAIN s = 1..Len(s) /\ Len(s) \in Nat
    BY <2>1
  <2>3. 1..(Len(s) + 1) = 1..Len(s) \cup {Len(s) + 1}
    BY <2>2
  <2> QED BY <2>1, <2>2, <2>3 DEF ToSet
<1>2. ASSUME s # <<>>, NEW x \in ToSet(s), x # Head(s) PROVE x \in ToSet(Tail(s))
  <2>1. PICK i \in 1..Len(s) : s[i] = x
    BY DEF ToSet
  <2>2. i # 1 /\ Len(Tail(s)) = Len(s) - 1 /\ Tail(s) \in Seq(S)
    BY <1>2, <2>1
  <2>3. i - 1 \in 1..Len(Tail(s)) /\ Tail(s)[i - 1] = x
    BY <1>2, <2>1, <2>2
  <2>4. DOMAIN Tail(s) = 1..Len(Tail(s))
    BY <2>2
  <2> QED BY <2>3, <2>4 DEF ToSet
<1> QED BY <1>1, <1>2

LEMMA Tails ==
  ASSUME NEW S, NEW s \in Seq(S), s # <<>>
  PROVE  /\ Head(s) \in ToSet(s) /\ Head(s) \in S
         /\ Tail(s) \in Seq(S) /\ ToSet(Tail(s)) \subseteq ToSet(s)
<1>1. /\ Tail(s) \in Seq(S) /\ Len(Tail(s)) = Len(s) - 1 /\ Len(s) \in Nat /\ Len(s) > 0
      /\ \A i \in 1..(Len(s) - 1) : Tail(s)[i] = s[i + 1]
  OBVIOUS
<1>2. Head(s) = s[1] /\ 1 \in DOMAIN s /\ s[1] \in S
  BY <1>1
<1>3. ASSUME NEW x \in ToSet(Tail(s)) PROVE x \in ToSet(s)
  <2>1. PICK i \in 1..(Len(s) - 1) : Tail(s)[i] = x
    BY <1>1 DEF ToSet
  <2>2. s[i + 1] = x /\ i + 1 \in DOMAIN s
    BY <1>1, <2>1
  <2> QED BY <2>2 DEF ToSet
<1> QED BY <1>1, <1>2, <1>3 DEF ToSet

LEMMA Prepended ==
  ASSUME NEW S, NEW s \in Seq(S), NEW e \in S
  PROVE  <<e>> \o s \in Seq(S) /\ ToSet(<<e>> \o s) = ToSet(s) \cup {e}
<1> DEFINE r == <<e>> \o s
<1>1. /\ r \in Seq(S) /\ Len(r) = 1 + Len(s)
      /\ r[1] = e /\ \A i \in 1..Len(s) : r[i + 1] = s[i]
  <2>1. <<e>> \in Seq(S) /\ Len(<<e>>) = 1 /\ <<e>>[1] = e
    OBVIOUS
  <2>2. /\ r \in Seq(S) /\ Len(r) = Len(<<e>>) + Len(s)
        /\ \A i \in 1..(Len(<<e>>) + Len(s)) :
             r[i] = IF i <= Len(<<e>>) THEN <<e>>[i] ELSE s[i - Len(<<e>>)]
    BY <2>1, ConcatProperties
  <2> HIDE DEF r
  <2> QED BY <2>1, <2>2
<1> HIDE DEF r
<1>2. DOMAIN r = 1..(Len(s) + 1) /\ DOMAIN s = 1..Len(s) /\ Len(s) \in Nat
  BY <1>1
<1>3. ToSet(r) \subseteq ToSet(s) \cup {e}
  <2> SUFFICES ASSUME NEW i \in 1..(Len(s) + 1), i # 1 PROVE r[i] \in ToSet(s)
    BY <1>1, <1>2 DEF ToSet
  <2>1. i - 1 \in 1..Len(s) /\ r[i] = s[i - 1]
    <3>1. i - 1 \in 1..Len(s) /\ (i - 1) + 1 = i
      BY <1>2
    <3> QED BY <1>1, <3>1
  <2> QED BY <1>2, <2>1 DEF ToSet
<1>4. ToSet(s) \cup {e} \subseteq ToSet(r)
  BY <1>1, <1>2 DEF ToSet
<1> QED BY <1>1, <1>3, <1>4 DEF r

\* the steps at either end of a list without duplicates
LEMMA Distinct ==
  ASSUME NEW S, NEW s \in Seq(S), IsInjective(s)
  PROVE  /\ \A x \in S : x \notin ToSet(s) => IsInjective(Append(s, x))
         /\ \A x \in S : x \notin ToSet(s) => IsInjective(<<x>> \o s)
         /\ s # <<>> => IsInjective(Tail(s)) /\ ToSet(Tail(s)) = ToSet(s) \ {Head(s)}
<1>1. /\ DOMAIN s = 1..Len(s) /\ Len(s) \in Nat
      /\ \A i, j \in 1..Len(s) : s[i] = s[j] => i = j
  BY DEF IsInjective
<1>2. ASSUME NEW x \in S, x \notin ToSet(s) PROVE IsInjective(Append(s, x))
  <2> DEFINE r == Append(s, x)
  <2>1. /\ r \in Seq(S) /\ Len(r) = Len(s) + 1 /\ DOMAIN r = 1..(Len(s) + 1)
        /\ \A i \in 1..Len(s) : r[i] = s[i] /\ r[i] \in ToSet(s)
        /\ r[Len(s) + 1] = x
    BY <1>1 DEF ToSet
  <2> HIDE DEF r
  <2>2. \A i, j \in 1..(Len(s) + 1) : r[i] = r[j] => i = j
    BY <1>1, <1>2, <2>1
  <2> QED BY <2>1, <2>2 DEF IsInjective, r
<1>3. ASSUME NEW x \in S, x \notin ToSet(s) PROVE IsInjective(<<x>> \o s)
  <2> DEFINE r == <<x>> \o s
  <2>1. DOMAIN r = 1..(Len(s) + 1) /\ r[1] = x /\ \A i \in 1..Len(s) : r[i + 1] = s[i]
    <3>1. <<x>> \in Seq(S) /\ Len(<<x>>) = 1 /\ <<x>>[1] = x
      OBVIOUS
    <3>2. /\ r \in Seq(S) /\ Len(r) = Len(<<x>>) + Len(s)
          /\ \A i \in 1..(Len(<<x>>) + Len(s)) :
               r[i] = IF i <= Len(<<x>>) THEN <<x>>[i] ELSE s[i - Len(<<x>>)]
      BY <3>1, ConcatProperties
    <3> HIDE DEF r
    <3> QED BY <1>1, <3>1, <3>2
  <2> HIDE DEF r
  <2>2. \A i \in 2..(Len(s) + 1) : i - 1 \in 1..Len(s) /\ r[i] = s[i - 1] /\ r[i] \in ToSet(s)
    <3> SUFFICES ASSUME NEW i \in 2..(Len(s) + 1)
                 PROVE  i - 1 \in 1..Len(s) /\ r[i] = s[i - 1] /\ r[i] \in ToSet(s)
      OBVIOUS
    <3>1. i - 1 \in 1..Len(s) /\ (i - 1) + 1 = i
      BY <1>1
    <3> QED BY <1>1, <2>1, <3>1 DEF ToSet
  <2>3. \A i, j \in 1..(Len(s) + 1) : r[i] = r[j] => i = j
    <3> SUFFICES ASSUME NEW i \in 1..(Len(s) + 1), NEW j \in 1..(Len(s) + 1), r[i] = r[j]
                 PROVE  i = j
      OBVIOUS
    <3>1. CASE i = 1 \/ j = 1
      BY <1>1, <1>3, <2>1, <2>2, <3>1
    <3>2. CASE i # 1 /\ j # 1
      <4>1. i \in 2..(Len(s) + 1) /\ j \in 2..(Len(s) + 1)
        BY <1>1, <3>2
      <4>2. i - 1 = j - 1
        BY <1>1, <2>2, <4>1
      <4> QED BY <4>1, <4>2
    <3> QED BY <3>1, <3>2
  <2> QED BY <2>1, <2>3 DEF IsInjective, r
<1>4. ASSUME s # <<>> PROVE IsInjective(Tail(s)) /\ ToSet(Tail(s)) = ToSet(s) \ {Head(s)}
  <2> DEFINE r == Tail(s)
  <2>1. /\ r \in Seq(S) /\ Len(r) = Len(s) - 1 /\ Len(s) > 0 /\ Head(s) = s[1]
        /\ DOMAIN r = 1..(Len(s) - 1) /\ \A i \in 1..(Len(s) - 1) : r[i] = s[i + 1]
    BY <1>1, <1>4
  <2>2. \A x \in ToSet(s) : x # Head(s) => x \in ToSet(r)
    BY <1>4, Ends
  <2> HIDE DEF r
  <2>3. \A i \in 1..(Len(s) - 1) : i + 1 \in 1..Len(s) /\ r[i] \in ToSet(s) \ {Head(s)}
    <3> SUFFICES ASSUME NEW i \in 1..(Len(s) - 1)
                 PROVE  i + 1 \in 1..Len(s) /\ r[i] \in ToSet(s) \ {Head(s)}
      OBVIOUS
    <3>1. i + 1 \in 1..Len(s) /\ i + 1 # 1 /\ 1 \in 1..Len(s)
      BY <1>1, <2>1
    <3> QED BY SMTT(20), <1>1, <2>1, <3>1 DEF ToSet
  <2>4. \A i, j \in 1..(Len(s) - 1) : r[i] = r[j] => i = j
    <3> SUFFICES ASSUME NEW i \in 1..(Len(s) - 1), NEW j \in 1..(Len(s) - 1), r[i] = r[j]
                 PROVE  i = j
      OBVIOUS
    <3>1. i + 1 = j + 1
      BY <1>1, <2>1, <2>3
    <3> QED BY <3>1
  <2> QED BY SMTT(20), <2>1, <2>2, <2>3, <2>4 DEF IsInjective, ToSet, r
<1> QED BY <1>2, <1>3, <1>4

LEMMA Containing ==
  ASSUME NEW S, NEW s \in Seq(S), NEW e
  PROVE  Contains(s, e) <=> e \in ToSet(s)
<1>1. DOMAIN s = 1..Len(s)
  OBVIOUS
<1> QED BY <1>1 DEF Contains, ToSet
=============================================================================
