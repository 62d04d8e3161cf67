------------------------------- MODULE SeqFacts -------------------------------
(***************************************************************************)
(* Facts about sequences and sets of numbers that several proofs need: an  *)
(* element taken from a sequence or put into it, with the sets of elements *)
(* and the absence of repetitions kept; sequences joined into one, and     *)
(* those that begin another; the least element of a set.                   *)
(***************************************************************************)
EXTENDS Integers, Sequences, SequencesExt, WellFoundedInduction, TLAPS

(* The least of a set of numbers.                                          *)
LEMMA LeastElement ==
  ASSUME NEW rows \in SUBSET Nat, rows # {}
  PROVE  \E i \in rows : \A j \in rows : i <= j
<1>1. \E i \in rows : \A j \in rows : <<j, i>> \notin OpToRel(<, Nat)
  BY NatLessThanWellFounded, WFMin
<1>2. PICK i \in rows : \A j \in rows : <<j, i>> \notin OpToRel(<, Nat)
  BY <1>1
<1>3. \A j \in rows : ~(j < i)
  BY <1>2 DEF OpToRel
<1> QED BY <1>3

(* A sequence without the element at a place.                              *)
LEMMA RemoveAtFacts ==
  ASSUME NEW S, NEW s \in Seq(S), NEW i \in 1..Len(s)
  PROVE  /\ RemoveAt(s, i) \in Seq(S)
         /\ Len(RemoveAt(s, i)) = Len(s) - 1
         /\ \A j \in 1..Len(s) - 1 : RemoveAt(s, i)[j] = IF j < i THEN s[j] ELSE s[j + 1]
<1> DEFINE a == SubSeq(s, 1, i - 1)
           b == SubSeq(s, i + 1, Len(s))
<1>1. a \in Seq(S) /\ Len(a) = i - 1 /\ \A j \in 1..i - 1 : a[j] = s[j]
  OBVIOUS
<1>2. b \in Seq(S) /\ Len(b) = Len(s) - i /\ \A j \in 1..Len(s) - i : b[j] = s[j + i]
  OBVIOUS
<1> HIDE DEF a, b
<1>3. a \o b \in Seq(S) /\ Len(a \o b) = Len(s) - 1
  <2>1. a \in Seq(S) /\ b \in Seq(S)
    BY <1>1, <1>2
  <2>2. a \o b \in Seq(S) /\ Len(a \o b) = Len(a) + Len(b)
    BY <2>1
  <2>3. Len(a) = i - 1 /\ Len(b) = Len(s) - i /\ Len(s) \in Nat
    BY <1>1, <1>2
  <2> QED BY <2>2, <2>3
<1>4. \A j \in 1..Len(a) + Len(b) : (a \o b)[j] = IF j <= Len(a) THEN a[j] ELSE b[j - Len(a)]
  BY <1>1, <1>2
<1>5. ASSUME NEW j \in 1..Len(s) - 1
      PROVE  (a \o b)[j] = IF j < i THEN s[j] ELSE s[j + 1]
  <2>1. CASE j < i
    BY <1>1, <1>2, <1>4, <2>1
  <2>2. CASE ~(j < i)
    <3>1. j - Len(a) \in 1..Len(s) - i /\ (j - Len(a)) + i = j + 1
      BY <1>1, <2>2
    <3>2. (a \o b)[j] = b[j - Len(a)]
      BY <1>1, <1>2, <1>4, <2>2
    <3> QED BY <1>2, <2>2, <3>1, <3>2
  <2> QED BY <2>1, <2>2
<1>6. RemoveAt(s, i) = a \o b
  BY DEF RemoveAt, a, b
<1> QED BY <1>3, <1>5, <1>6

(* A sequence with an element put in.                                      *)
Joins(S, a, b, t) ==
  /\ t \in Seq(S) /\ Len(t) = Len(a) + Len(b)
  /\ \A j \in 1..Len(a) : t[j] = a[j]
  /\ \A j \in 1..Len(b) : t[Len(a) + j] = b[j]

LEMMA ConcatFacts ==
  ASSUME NEW S, NEW a \in Seq(S), NEW b \in Seq(S)
  PROVE  Joins(S, a, b, a \o b)
  BY DEF Joins

(* t is s with e put behind its first m elements.                          *)
IsInserted(S, s, m, e, t) ==
  /\ t \in Seq(S) /\ Len(t) = Len(s) + 1
  /\ \A j \in 1..m : t[j] = s[j]
  /\ t[m + 1] = e
  /\ \A j \in m + 1..Len(s) : t[j + 1] = s[j]

LEMMA InsertAtFacts ==
  ASSUME NEW S, NEW s \in Seq(S), NEW m \in 0..Len(s), NEW e \in S
  PROVE  IsInserted(S, s, m, e, InsertAt(s, m + 1, e))
<1> DEFINE a == SubSeq(s, 1, m)
           b == <<e>>
           c == SubSeq(s, m + 1, Len(s))
           d == a \o b
           t == d \o c
<1>1. a \in Seq(S) /\ Len(a) = m /\ \A j \in 1..m : a[j] = s[j]
  OBVIOUS
<1>2. b \in Seq(S) /\ Len(b) = 1 /\ b[1] = e
  OBVIOUS
<1>3. c \in Seq(S) /\ Len(c) = Len(s) - m /\ \A j \in 1..Len(s) - m : c[j] = s[j + m]
  OBVIOUS
<1>0. InsertAt(s, m + 1, e) = t
  <2>1. (m + 1) - 1 = m
    OBVIOUS
  <2> QED BY <2>1 DEF InsertAt
<1> HIDE DEF a, b, c
<1>a. Joins(S, a, b, d)
  BY <1>1, <1>2, ConcatFacts
<1> HIDE DEF d
<1>4. /\ d \in Seq(S) /\ Len(d) = Len(a) + Len(b)
      /\ \A j \in 1..Len(a) : d[j] = a[j]
      /\ \A j \in 1..Len(b) : d[Len(a) + j] = b[j]
  BY <1>a DEF Joins
<1>b. Joins(S, d, c, t)
  BY <1>3, <1>4, ConcatFacts
<1> HIDE DEF t
<1>5. /\ t \in Seq(S) /\ Len(t) = Len(d) + Len(c)
      /\ \A j \in 1..Len(d) : t[j] = d[j]
      /\ \A j \in 1..Len(c) : t[Len(d) + j] = c[j]
  BY <1>b DEF Joins
<1>6. Len(d) = m + 1 /\ Len(t) = Len(s) + 1
  BY <1>1, <1>2, <1>3, <1>4, <1>5
<1>7. ASSUME NEW j \in 1..m PROVE t[j] = s[j]
  BY SMTT(30), <1>1, <1>4, <1>5, <1>6
<1>8. t[m + 1] = e
  <2>1. d[m + 1] = e
    BY <1>1, <1>2, <1>4
  <2> QED BY <1>5, <1>6, <2>1
<1>9. ASSUME NEW j \in m + 1..Len(s) PROVE t[j + 1] = s[j]
  <2>0. Len(s) \in Nat /\ Len(c) = Len(s) - m /\ Len(d) = m + 1
    BY <1>3, <1>6
  <2>1. j - m \in 1..Len(c) /\ (m + 1) + (j - m) = j + 1 /\ (j - m) + m = j
    BY <2>0
  <2>2. t[j + 1] = c[j - m]
    BY <1>5, <2>0, <2>1
  <2> QED BY <1>3, <2>1, <2>2
<1>10. IsInserted(S, s, m, e, t)
  BY <1>5, <1>6, <1>7, <1>8, <1>9 DEF IsInserted
<1> QED BY <1>0, <1>10

(* The only occurrence is the first one.                                   *)
LEMMA RemoveFirstIsAt ==
  ASSUME NEW S, NEW s \in Seq(S), IsInjective(s), NEW i \in 1..Len(s)
  PROVE  RemoveFirst(s, s[i]) = RemoveAt(s, i)
<1> DEFINE I == {j \in 1..Len(s) : s[j] = s[i]}
<1>1. I = {i}
  BY DEF IsInjective
<1>2. Min(I) = i
  BY <1>1 DEF Min
<1>3. SelectInSeq(s, LAMBDA v : v = s[i]) = i
  BY <1>1, <1>2 DEF SelectInSeq
<1> QED BY <1>3 DEF RemoveFirst

(* Lists without repetitions: the element removed, the head removed, and a *)
(* new head.                                                               *)
LEMMA Unlinking ==
  ASSUME NEW S, NEW s \in Seq(S), IsInjective(s), NEW c \in ToSet(s)
  PROVE  /\ RemoveFirst(s, c) \in Seq(S)
         /\ Len(RemoveFirst(s, c)) = Len(s) - 1
         /\ IsInjective(RemoveFirst(s, c))
         /\ ToSet(RemoveFirst(s, c)) = ToSet(s) \ {c}
<1>1. PICK i \in 1..Len(s) : s[i] = c
  BY DEF ToSet
<1> DEFINE t == RemoveAt(s, i)
<1>2. RemoveFirst(s, c) = t
  BY <1>1, RemoveFirstIsAt
<1>3. /\ t \in Seq(S) /\ Len(t) = Len(s) - 1
      /\ \A j \in 1..Len(s) - 1 : t[j] = IF j < i THEN s[j] ELSE s[j + 1]
  BY RemoveAtFacts
<1> HIDE DEF t
<1>4. DOMAIN t = 1..Len(s) - 1 /\ DOMAIN s = 1..Len(s) /\ Len(s) \in Nat
  BY <1>3
<1>5. IsInjective(t)
  <2> SUFFICES ASSUME NEW j \in 1..Len(s) - 1, NEW k \in 1..Len(s) - 1, t[j] = t[k]
               PROVE  j = k
    BY <1>4 DEF IsInjective
  <2>1. PICK m \in 1..Len(s) : t[j] = s[m] /\ m = IF j < i THEN j ELSE j + 1
    BY <1>3, <1>4
  <2>2. PICK n \in 1..Len(s) : t[k] = s[n] /\ n = IF k < i THEN k ELSE k + 1
    BY <1>3, <1>4
  <2>3. m = n
    BY <1>4, <2>1, <2>2 DEF IsInjective
  <2> QED BY <2>1, <2>2, <2>3
<1>6. ASSUME NEW x \in ToSet(t) PROVE x \in ToSet(s) \ {c}
  <2>1. PICK j \in 1..Len(s) - 1 : x = t[j]
    BY <1>4 DEF ToSet
  <2>2. x = IF j < i THEN s[j] ELSE s[j + 1]
    BY <1>3, <2>1
  <2> QED BY <1>1, <1>4, <2>2 DEF ToSet, IsInjective
<1>7. ASSUME NEW x \in ToSet(s) \ {c} PROVE x \in ToSet(t)
  <2>1. PICK j \in 1..Len(s) : x = s[j]
    BY <1>4 DEF ToSet
  <2>2. j < i \/ j > i
    BY <1>1, <2>1
  <2>3. CASE j < i
    BY <1>3, <1>4, <2>1, <2>3 DEF ToSet
  <2>4. CASE j > i
    <3>1. j - 1 \in 1..Len(s) - 1 /\ ~(j - 1 < i) /\ (j - 1) + 1 = j
      BY <1>4, <2>4
    <3>2. t[j - 1] = s[j]
      BY <1>3, <3>1
    <3> QED BY <1>4, <2>1, <3>1, <3>2 DEF ToSet
  <2> QED BY <2>2, <2>3, <2>4
<1> QED BY <1>2, <1>3, <1>5, <1>6, <1>7

LEMMA Beheading ==
  ASSUME NEW S, NEW s \in Seq(S), IsInjective(s), s # << >>
  PROVE  /\ Head(s) \in ToSet(s) /\ Tail(s) \in Seq(S) /\ Len(Tail(s)) = Len(s) - 1
         /\ IsInjective(Tail(s)) /\ ToSet(Tail(s)) = ToSet(s) \ {Head(s)}
<1> DEFINE t == Tail(s)
<1>1. /\ Len(s) \in Nat \ {0} /\ DOMAIN s = 1..Len(s) /\ Head(s) = s[1]
  OBVIOUS
<1>2. /\ t \in Seq(S) /\ Len(t) = Len(s) - 1 /\ DOMAIN t = 1..Len(s) - 1
      /\ \A j \in 1..Len(s) - 1 : t[j] = s[j + 1]
  OBVIOUS
<1> HIDE DEF t
<1>3. IsInjective(t)
  <2> SUFFICES ASSUME NEW j \in 1..Len(s) - 1, NEW k \in 1..Len(s) - 1, t[j] = t[k]
               PROVE  j = k
    BY <1>2 DEF IsInjective
  <2>1. j + 1 \in 1..Len(s) /\ k + 1 \in 1..Len(s) /\ s[j + 1] = s[k + 1]
    BY <1>1, <1>2
  <2>2. j + 1 = k + 1
    BY <1>1, <2>1 DEF IsInjective
  <2> QED BY <2>2
<1>4. ASSUME NEW x \in ToSet(t) PROVE x \in ToSet(s) \ {Head(s)}
  <2>1. PICK j \in 1..Len(s) - 1 : x = s[j + 1]
    BY <1>2 DEF ToSet
  <2> QED BY <1>1, <2>1 DEF ToSet, IsInjective
<1>5. ASSUME NEW x \in ToSet(s) \ {Head(s)} PROVE x \in ToSet(t)
  <2>1. PICK j \in 1..Len(s) : x = s[j]
    BY <1>1 DEF ToSet
  <2>2. j - 1 \in 1..Len(s) - 1 /\ (j - 1) + 1 = j
    BY <1>1, <2>1
  <2> QED BY <1>2, <2>1, <2>2 DEF ToSet
<1>6. Head(s) \in ToSet(s)
  BY <1>1 DEF ToSet
<1> QED BY <1>2, <1>3, <1>4, <1>5, <1>6 DEF t

LEMMA Linking ==
  ASSUME NEW S, NEW s \in Seq(S), IsInjective(s), NEW c \in S, c \notin ToSet(s)
  PROVE  /\ <<c>> \o s \in Seq(S) /\ Len(<<c>> \o s) = Len(s) + 1
         /\ IsInjective(<<c>> \o s) /\ ToSet(<<c>> \o s) = ToSet(s) \cup {c}
<1> DEFINE t == <<c>> \o s
<1>1. /\ t \in Seq(S) /\ Len(t) = Len(s) + 1 /\ t[1] = c
      /\ DOMAIN t = 1..Len(s) + 1 /\ DOMAIN s = 1..Len(s) /\ Len(s) \in Nat
  OBVIOUS
<1>2. ASSUME NEW j \in 2..Len(s) + 1 PROVE t[j] = s[j - 1]
  OBVIOUS
<1> HIDE DEF t
<1>3. IsInjective(t)
  <2> SUFFICES ASSUME NEW j \in 1..Len(s) + 1, NEW k \in 1..Len(s) + 1, t[j] = t[k]
               PROVE  j = k
    BY <1>1 DEF IsInjective
  <2>1. ASSUME NEW n \in 2..Len(s) + 1 PROVE n - 1 \in 1..Len(s) /\ t[n] = s[n - 1] /\ t[n] # c
    <3>1. n - 1 \in 1..Len(s) /\ t[n] = s[n - 1]
      BY <1>1, <1>2
    <3> QED BY <1>1, <3>1 DEF ToSet
  <2>2. CASE j = 1 \/ k = 1
    BY <1>1, <2>1, <2>2
  <2>3. CASE j # 1 /\ k # 1
    <3>1. j - 1 \in 1..Len(s) /\ k - 1 \in 1..Len(s) /\ s[j - 1] = s[k - 1]
      BY <1>1, <2>1, <2>3
    <3>2. j - 1 = k - 1
      BY <1>1, <3>1 DEF IsInjective
    <3> QED BY <3>2
  <2> QED BY <2>2, <2>3
<1>4. ASSUME NEW x \in ToSet(t) PROVE x \in ToSet(s) \cup {c}
  <2>1. PICK j \in 1..Len(s) + 1 : x = t[j]
    BY <1>1 DEF ToSet
  <2>2. CASE j = 1
    BY <1>1, <2>1, <2>2
  <2>3. CASE j # 1
    <3>1. j \in 2..Len(s) + 1 /\ j - 1 \in DOMAIN s
      BY <1>1, <2>3
    <3>2. x = s[j - 1]
      BY <1>2, <2>1, <3>1
    <3> QED BY <3>1, <3>2 DEF ToSet
  <2> QED BY <2>2, <2>3
<1>5. ASSUME NEW x \in ToSet(s) PROVE x \in ToSet(t)
  <2>1. PICK j \in 1..Len(s) : x = s[j]
    BY <1>1 DEF ToSet
  <2>2. j + 1 \in 2..Len(s) + 1 /\ (j + 1) - 1 = j /\ j + 1 \in DOMAIN t
    BY <1>1
  <2>3. x = t[j + 1]
    BY <1>2, <2>1, <2>2
  <2> QED BY <2>2, <2>3 DEF ToSet
<1>6. c \in ToSet(t)
  BY <1>1 DEF ToSet
<1> QED BY <1>1, <1>3, <1>4, <1>5, <1>6 DEF t

(* F lists the joins of the first 0, 1, ... sequences of s.                *)
Joined(S, s, F) ==
  /\ F \in [0..Len(s) -> Seq(S)]
  /\ F[0] = << >>
  /\ \A i \in 1..Len(s) : F[i] = F[i - 1] \o s[i]

LEMMA JoinedExists ==
  ASSUME NEW S, NEW s \in Seq(Seq(S))
  PROVE  \E F : Joined(S, s, F)
<1> DEFINE Upto(n, F) == /\ F \in [0..n -> Seq(S)] /\ F[0] = << >>
                         /\ \A i \in 1..n : F[i] = F[i - 1] \o s[i]
           bad == {n \in 0..Len(s) : ~\E F : Upto(n, F)}
<1>1. Len(s) \in Nat /\ \A i \in 1..Len(s) : s[i] \in Seq(S)
  OBVIOUS
<1>2. ASSUME bad # {} PROVE FALSE
  <2>0. bad \in SUBSET Nat
    <3> HIDE DEF Upto
    <3> QED BY <1>1
  <2> HIDE DEF bad
  <2>1. PICK n \in bad : \A m \in bad : n <= m
    BY <1>2, <2>0, LeastElement
  <2>2. n \in 0..Len(s) /\ ~\E F : Upto(n, F)
    <3> HIDE DEF Upto
    <3> QED BY <2>1 DEF bad
  <2>3. CASE n = 0
    <3>1. Upto(0, [i \in 0..0 |-> << >>])
      OBVIOUS
    <3> HIDE DEF Upto
    <3> QED BY <2>2, <2>3, <3>1
  <2>4. CASE n # 0
    <3>1. n - 1 \in 0..Len(s) /\ n - 1 \notin bad
      BY <1>1, <2>0, <2>1, <2>2, <2>4
    <3>2. PICK F : Upto(n - 1, F)
      <4> HIDE DEF Upto
      <4> QED BY <3>1 DEF bad
    <3> DEFINE G == [i \in 0..n |-> IF i = n THEN F[n - 1] \o s[n] ELSE F[i]]
    <3>3. F[n - 1] \in Seq(S) /\ s[n] \in Seq(S) /\ n \in 1..Len(s)
      BY <1>1, <2>2, <2>4, <3>2
    <3>4. F[n - 1] \o s[n] \in Seq(S)
      BY <3>3
    <3>5. Upto(n, G)
      <4>1. G \in [0..n -> Seq(S)]
        BY <3>2, <3>4, <3>3
      <4>2. G[0] = << >>
        BY <2>4, <3>2, <3>3
      <4>3. ASSUME NEW i \in 1..n PROVE G[i] = G[i - 1] \o s[i]
        <5>1. CASE i = n
          <6>1. G[n] = F[n - 1] \o s[n] /\ G[n - 1] = F[n - 1]
            <7>1. n \in 0..n /\ n - 1 \in 0..n /\ n - 1 # n
              BY <3>3
            <7> QED BY <7>1
          <6> QED BY <5>1, <6>1
        <5>2. CASE i # n
          <6>1. i \in 1..n - 1 /\ i - 1 \in 0..n /\ i - 1 # n
            BY <5>2, <3>3
          <6>2. F[i] = F[i - 1] \o s[i]
            BY <6>1, <3>2
          <6>3. G[i] = F[i] /\ G[i - 1] = F[i - 1]
            BY <6>1, <5>2
          <6> QED BY <6>2, <6>3
        <5> QED BY <5>1, <5>2
      <4> QED BY <4>1, <4>2, <4>3
    <3> HIDE DEF Upto, G
    <3> QED BY <2>2, <3>5
  <2> QED BY <2>3, <2>4
<1>3. \E F : Upto(Len(s), F)
  <2> HIDE DEF Upto
  <2> QED BY <1>1, <1>2
<1> QED BY <1>3 DEF Joined

LEMMA FlattenIsJoined ==
  ASSUME NEW S, NEW s \in Seq(Seq(S)), NEW F, Joined(S, s, F)
  PROVE  FlattenSeq(s) = F[Len(s)]
<1>1. Len(s) \in Nat /\ \A i \in 1..Len(s) : s[i] \in Seq(S)
  OBVIOUS
<1>2. CASE Len(s) = 0
  <2>1. s = << >>
    BY <1>2
  <2> QED BY <1>2, <2>1 DEF FlattenSeq, Joined
<1>3. CASE Len(s) # 0
  <2> DEFINE Def(g) == [i \in 1..Len(s) |-> IF i = 1 THEN s[i] ELSE g[i - 1] \o s[i]]
             g == CHOOSE h : h = Def(h)
             k == [i \in 1..Len(s) |-> F[i]]
  <2>1. FlattenSeq(s) = g[Len(s)]
    BY <1>3 DEF FlattenSeq
  <2>2. k = Def(k)
    <3>1. ASSUME NEW i \in 1..Len(s)
          PROVE  F[i] = IF i = 1 THEN s[i] ELSE k[i - 1] \o s[i]
      <4>1. F[i] = F[i - 1] \o s[i] /\ s[i] \in Seq(S)
        BY <1>1 DEF Joined
      <4>2. CASE i = 1
        <5>1. F[i - 1] = << >>
          BY <4>2 DEF Joined
        <5> QED BY <4>1, <4>2, <5>1
      <4>3. CASE i # 1
        <5>1. i - 1 \in 1..Len(s)
          BY <1>1, <4>3
        <5> QED BY <4>1, <4>3, <5>1
      <4> QED BY <4>2, <4>3
    <3> QED BY <3>1
  <2>3. g = Def(g)
    <3> HIDE DEF Def, k
    <3> QED BY <2>2
  <2> HIDE DEF g
  <2> DEFINE bad == {i \in 1..Len(s) : g[i] # F[i]}
  <2>4. ASSUME bad # {} PROVE FALSE
    <3>0. bad \in SUBSET Nat
      OBVIOUS
    <3>1. PICK i \in bad : \A j \in bad : i <= j
      <4> HIDE DEF bad
      <4> QED BY <2>4, <3>0, LeastElement
    <3>2. i \in 1..Len(s) /\ g[i] # F[i]
      BY <3>1
    <3>3. F[i] = IF i = 1 THEN s[i] ELSE k[i - 1] \o s[i]
      BY <2>2, <3>2
    <3>4. g[i] = IF i = 1 THEN s[i] ELSE g[i - 1] \o s[i]
      BY <2>3, <3>2
    <3>5. i # 1 => g[i - 1] = k[i - 1]
      BY <1>1, <3>1, <3>2
    <3> QED BY <3>2, <3>3, <3>4, <3>5
  <2> QED BY <1>1, <1>3, <2>1, <2>4
<1> QED BY <1>2, <1>3

(* The parts of a sequence that was joined, where they begin.              *)
LEMMA FlattenFacts ==
  ASSUME NEW S, NEW s \in Seq(Seq(S))
  PROVE  /\ FlattenSeq(s) \in Seq(S)
         /\ \E F : Joined(S, s, F) /\ FlattenSeq(s) = F[Len(s)]
<1>1. PICK F : Joined(S, s, F)
  BY JoinedExists
<1>2. FlattenSeq(s) = F[Len(s)]
  BY <1>1, FlattenIsJoined
<1>3. F[Len(s)] \in Seq(S)
  BY <1>1 DEF Joined
<1> QED BY <1>1, <1>2, <1>3

(* t begins with s.                                                        *)
Begins(s, t) == Len(s) <= Len(t) /\ \A i \in 1..Len(s) : t[i] = s[i]

LEMMA BeginsFacts ==
  ASSUME NEW S, NEW s \in Seq(S), NEW t \in Seq(S)
  PROVE  /\ Begins(s, s) /\ Begins(<< >>, s) /\ Begins(s, s \o t)
         /\ Begins(s, t) => IsPrefix(s, t)
         /\ (Begins(s, t) /\ Len(s) = Len(t)) => s = t
<1>1. Begins(s, s) /\ Begins(<< >>, s) /\ Begins(s, s \o t)
  BY DEF Begins
<1>2. ASSUME Begins(s, t) PROVE IsPrefix(s, t)
  <2>1. Len(s) <= Len(t) /\ \A i \in 1..Len(s) : t[i] = s[i]
    BY <1>2 DEF Begins
  <2> DEFINE a == SubSeq(s, 1, Len(s))
             b == SubSeq(t, 1, Len(s))
  <2>2. a \in Seq(S) /\ Len(a) = Len(s) /\ \A i \in 1..Len(s) : a[i] = s[i]
    OBVIOUS
  <2>3. b \in Seq(S) /\ Len(b) = Len(s) /\ \A i \in 1..Len(s) : b[i] = t[i]
    BY <2>1
  <2> HIDE DEF a, b
  <2>4. a = b
    BY <2>1, <2>2, <2>3
  <2> QED BY <2>1, <2>4 DEF IsPrefix, a, b
<1>3. ASSUME Begins(s, t), Len(s) = Len(t) PROVE s = t
  BY <1>3 DEF Begins
<1> QED BY <1>1, <1>2, <1>3

LEMMA BeginsOn ==
  ASSUME NEW S, NEW s \in Seq(S), NEW t \in Seq(S), NEW u \in Seq(S), Begins(s, t)
  PROVE  /\ Begins(t, u) => Begins(s, u)
         /\ Begins(u \o s, u \o t)
<1>1. Begins(t, u) => Begins(s, u)
  BY DEF Begins
<1>2. Begins(u \o s, u \o t)
  <2> DEFINE a == u \o s
             b == u \o t
  <2>1. Joins(S, u, s, a) /\ Joins(S, u, t, b)
    BY ConcatFacts
  <2> HIDE DEF a, b
  <2>2. Len(a) = Len(u) + Len(s) /\ Len(b) = Len(u) + Len(t) /\ Len(a) <= Len(b)
    BY <2>1 DEF Joins, Begins
  <2>3. ASSUME NEW i \in 1..Len(a) PROVE b[i] = a[i]
    <3>1. CASE i \in 1..Len(u)
      BY <2>1, <3>1 DEF Joins
    <3>2. CASE i \notin 1..Len(u)
      <4>1. i - Len(u) \in 1..Len(s) /\ Len(u) + (i - Len(u)) = i
        BY <2>2, <3>2
      <4>2. i - Len(u) \in 1..Len(t) /\ t[i - Len(u)] = s[i - Len(u)]
        BY <4>1 DEF Begins
      <4>3. a[i] = s[i - Len(u)] /\ b[i] = t[i - Len(u)]
        BY <2>1, <4>1, <4>2 DEF Joins
      <4> QED BY <4>2, <4>3
    <3> QED BY <3>1, <3>2
  <2>4. Begins(a, b)
    BY <2>2, <2>3 DEF Begins
  <2> QED BY <2>4 DEF a, b
<1> QED BY <1>1, <1>2

(* Each join begins with those before it.                                  *)
LEMMA JoinedBegins ==
  ASSUME NEW S, NEW s \in Seq(Seq(S)), NEW F, Joined(S, s, F)
  PROVE  \A j \in 0..Len(s) : \A i \in 0..j : Begins(F[i], F[j])
<1> DEFINE n == Len(s)
           bad == {j \in 0..n : ~\A i \in 0..j : Begins(F[i], F[j])}
<1>1. /\ n \in Nat /\ \A i \in 0..n : F[i] \in Seq(S)
      /\ \A i \in 1..n : F[i] = F[i - 1] \o s[i]
  <2>1. F \in [0..n -> Seq(S)]
    BY DEF Joined
  <2>2. \A i \in 1..n : F[i] = F[i - 1] \o s[i]
    BY DEF Joined
  <2> QED BY <2>1, <2>2
<1>2. bad \in SUBSET Nat
  BY <1>1
<1>3. ASSUME bad # {} PROVE FALSE
  <2>1. PICK j \in bad : \A k \in bad : j <= k
    <3> HIDE DEF bad
    <3> QED BY <1>2, <1>3, LeastElement
  <2>2. j \in 0..n /\ ~\A i \in 0..j : Begins(F[i], F[j])
    BY <2>1
  <2>3. PICK i \in 0..j : ~Begins(F[i], F[j])
    BY <2>2
  <2>4. i # j
    BY <1>1, <2>2, <2>3, BeginsFacts
  <2>5. j \in 1..n /\ j - 1 \in 0..n /\ i \in 0..j - 1 /\ ~(j <= j - 1) /\ i \in 0..n
    BY <1>1, <2>2, <2>3, <2>4
  <2>6. Begins(F[i], F[j - 1])
    BY <2>1, <2>5
  <2>7. s[j] \in Seq(S)
    BY <2>5
  <2>8. F[j] = F[j - 1] \o s[j] /\ F[j - 1] \in Seq(S) /\ F[i] \in Seq(S) /\ F[j] \in Seq(S)
    BY <1>1, <2>2, <2>5
  <2>9. Begins(F[j - 1], F[j])
    BY <2>7, <2>8, BeginsFacts
  <2>10. Begins(F[i], F[j])
    <3> DEFINE a == F[i]
               b == F[j - 1]
               c == F[j]
    <3>1. a \in Seq(S) /\ b \in Seq(S) /\ c \in Seq(S) /\ Begins(a, b) /\ Begins(b, c)
      BY <2>6, <2>8, <2>9
    <3> HIDE DEF a, b, c
    <3>2. Begins(a, c)
      BY <3>1, BeginsOn
    <3> QED BY <3>2 DEF a, c
  <2> QED BY <2>3, <2>10
<1>4. \A j \in 0..n : \A i \in 0..j : Begins(F[i], F[j])
  BY <1>3
<1> QED BY <1>4

(* The elements of t are in u behind its first m.                          *)
Within(t, m, u) == \A j \in 1..Len(t) : u[m + j] = t[j]

(* Where the elements of s[i] are in the last join.                        *)
LEMMA JoinedAt ==
  ASSUME NEW S, NEW s \in Seq(Seq(S)), NEW F, Joined(S, s, F), NEW i \in 1..Len(s)
  PROVE  /\ F[i - 1] \in Seq(S) /\ F[i] \in Seq(S) /\ F[Len(s)] \in Seq(S) /\ s[i] \in Seq(S)
         /\ Len(F[i]) = Len(F[i - 1]) + Len(s[i])
         /\ Len(F[i]) <= Len(F[Len(s)])
         /\ Within(s[i], Len(F[i - 1]), F[Len(s)])
<1> DEFINE n == Len(s)
           a == F[i - 1]
           b == F[i]
           c == F[n]
           t == s[i]
<1>1. i - 1 \in 0..n /\ i \in 0..n /\ n \in 0..n
  OBVIOUS
<1>2. a \in Seq(S) /\ b \in Seq(S) /\ c \in Seq(S) /\ t \in Seq(S) /\ b = a \o t
  <2>1. F \in [0..n -> Seq(S)] /\ F[i] = F[i - 1] \o s[i]
    BY DEF Joined
  <2>2. s[i] \in Seq(S)
    OBVIOUS
  <2> QED BY <1>1, <2>1, <2>2
<1>3. Begins(b, c)
  BY <1>1, JoinedBegins
<1> HIDE DEF a, b, c, t
<1>4. Joins(S, a, t, b)
  BY <1>2, ConcatFacts
<1>5. ASSUME NEW j \in 1..Len(t) PROVE c[Len(a) + j] = t[j]
  <2>1. b[Len(a) + j] = t[j] /\ Len(a) + j \in 1..Len(b)
    BY <1>2, <1>4 DEF Joins
  <2> QED BY <1>3, <2>1 DEF Begins
<1> QED BY <1>2, <1>3, <1>4, <1>5 DEF Joins, Begins, Within, a, b, c, t

(* Facts in the form that Zenon takes, where many sequences are about.     *)
LEMMA LenIsNat ==
  ASSUME NEW S, NEW s \in Seq(S)
  PROVE  Len(s) \in Nat
  OBVIOUS

LEMMA FirstOf ==
  ASSUME NEW S, NEW s \in Seq(S), 1 \in 1..Len(s)
  PROVE  SubSeq(s, 1, 1) \in Seq(S) /\ Len(SubSeq(s, 1, 1)) = 1 /\ SubSeq(s, 1, 1)[1] = s[1]
  OBVIOUS

LEMMA Regroup ==
  ASSUME NEW S, NEW a \in Seq(S), NEW b \in Seq(S), NEW c \in Seq(S)
  PROVE  (a \o b) \o c = a \o (b \o c)
  OBVIOUS
=============================================================================
