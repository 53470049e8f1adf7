--------------------------- MODULE SequenceFacts ---------------------------
(* Facts about natural numbers and sequences that the proofs of several       *)
(* components need.                                                           *)
EXTENDS Integers, Sequences, TLAPS, WellFoundedInduction, FiniteSetTheorems, SequenceTheorems

(* Any set of natural numbers has a least element: a set of intervals has one  *)
(* that includes no other.                                                    *)
LEMMA LeastNatural ==
  ASSUME NEW S \in SUBSET Nat, S # {}
  PROVE  \E m \in S : \A n \in S : m <= n
<1> DEFINE Below == {0 .. n : n \in S}
<1>1. Below \subseteq FiniteSubsetsOf(Nat)
  <2>1. \A n \in S : n \in Int /\ 0 \in Int /\ 0 .. n \subseteq Nat
    OBVIOUS
  <2>2. \A n \in S : IsFiniteSet(0 .. n)
    BY <2>1, FS_Interval
  <2> QED  BY <2>1, <2>2, Zenon DEF FiniteSubsetsOf
<1>2. IsWellFoundedOn(StrictSubsetOrdering(Nat), FiniteSubsetsOf(Nat))
  BY FS_StrictSubsetOrderingWellFounded
<1>3. Below # {}
  OBVIOUS
<1> HIDE DEF Below
<1>4. PICK B \in Below : \A C \in Below : ~ (<<C, B>> \in StrictSubsetOrdering(Nat))
  BY <1>1, <1>2, <1>3, WFMin, Zenon
<1> USE DEF Below
<1>5. PICK m \in S : B = 0 .. m
  OBVIOUS
<1>6. ASSUME NEW n \in S PROVE m <= n
  <2>1. SUFFICES ASSUME n < m PROVE FALSE
    OBVIOUS
  <2>2. 0 .. n \in Below /\ 0 .. n \subseteq B /\ 0 .. n # B /\ B \in SUBSET Nat
    BY <2>1, <1>5
  <2>3. <<0 .. n, B>> \in StrictSubsetOrdering(Nat)
    BY <2>2 DEF StrictSubsetOrdering
  <2> QED  BY <1>4, <2>2, <2>3
<1> QED  BY <1>6

(* Induction, on a set instead of a predicate. *)
LEMMA Induction ==
  ASSUME NEW S \in SUBSET Nat, 0 \in S, \A n \in S : n + 1 \in S
  PROVE  S = Nat
<1>1. SUFFICES ASSUME Nat \ S # {} PROVE FALSE
  OBVIOUS
<1>2. PICK m \in Nat \ S : \A n \in Nat \ S : m <= n
  <2>1. Nat \ S \in SUBSET Nat
    OBVIOUS
  <2> QED  BY <1>1, <2>1, LeastNatural, Zenon
<1>3. m # 0 /\ m - 1 \in Nat /\ (m - 1) + 1 = m
  OBVIOUS
<1>4. m - 1 \in S
  BY <1>2, <1>3
<1> QED  BY <1>3, <1>4, <1>2

(* One of finitely many numbers is the greatest. *)
LEMMA GreatestOfMany ==
  ASSUME NEW f, NEW n \in Nat \ {0}, \A i \in 1 .. n : f[i] \in Nat
  PROVE  \E i \in 1 .. n : \A j \in 1 .. n : f[j] <= f[i]
<1> DEFINE Has(k) == \E i \in 1 .. k : \A j \in 1 .. k : f[j] <= f[i]
           S == {k \in Nat : k + 1 > n \/ Has(k + 1)}
<1>1. 0 \in S
  OBVIOUS
<1>2. ASSUME NEW k \in S PROVE k + 1 \in S
  <2>1. CASE k + 2 > n
    BY <2>1
  <2>2. CASE k + 2 <= n
    <3>1. PICK i \in 1 .. k + 1 : \A j \in 1 .. k + 1 : f[j] <= f[i]
      BY <2>2
    <3>2. f[i] \in Nat /\ f[k + 2] \in Nat /\ k + 2 \in 1 .. k + 2 /\ i \in 1 .. k + 2
      BY <2>2
    <3>3. \A j \in 1 .. k + 2 : f[j] \in Nat /\ (j \in 1 .. k + 1 \/ j = k + 2)
      BY <2>2
    <3>4. CASE f[k + 2] <= f[i]
      BY <3>1, <3>2, <3>3, <3>4
    <3>5. CASE f[i] < f[k + 2]
      <4>1. \A j \in 1 .. k + 2 : f[j] <= f[k + 2]
        BY <3>1, <3>2, <3>3, <3>5
      <4> QED  BY <4>1, <3>2
    <3> QED  BY <3>2, <3>4, <3>5
  <2> QED  BY <2>1, <2>2
<1>3. S \in SUBSET Nat
  OBVIOUS
<1> HIDE DEF S
<1>4. S = Nat
  BY <1>1, <1>2, <1>3, Induction, Zenon
<1>5. n - 1 \in S
  BY <1>4
<1> QED  BY <1>5 DEF S

(* A part of a sequence. *)
LEMMA PartOf ==
  ASSUME NEW T, NEW s \in Seq(T), NEW a \in Nat \ {0}, NEW b \in 0 .. Len(s)
  PROVE  /\ SubSeq(s, a, b) \in Seq(T)
         /\ Len(SubSeq(s, a, b)) = IF a <= b THEN b - a + 1 ELSE 0
         /\ \A i \in 1 .. b - a + 1 : SubSeq(s, a, b)[i] = s[a + i - 1]
<1>1. a \in Int /\ b \in Int
  OBVIOUS
<1>2. \A i \in a .. b : s[i] \in T
  <2>1. \A i \in a .. b : i \in 1 .. Len(s)
    OBVIOUS
  <2> QED  BY <2>1, ElementOfSeq
<1> QED  BY <1>1, <1>2, SubSeqProperties, SMT

(* A sequence without its i-th element. *)
LEMMA WithoutOne ==
  ASSUME NEW T, NEW s \in Seq(T), NEW i \in 1 .. Len(s)
  PROVE  LET t == SubSeq(s, 1, i - 1) \o SubSeq(s, i + 1, Len(s)) IN
         /\ t \in Seq(T)
         /\ Len(t) = Len(s) - 1
         /\ DOMAIN t = 1 .. Len(s) - 1
         /\ \A j \in 1 .. i - 1 : t[j] = s[j]
         /\ \A j \in i .. Len(s) - 1 : t[j] = s[j + 1]
<1> DEFINE l == SubSeq(s, 1, i - 1)
           r == SubSeq(s, i + 1, Len(s))
<1>1. /\ 1 \in Nat \ {0} /\ i - 1 \in 0 .. Len(s) /\ i + 1 \in Nat \ {0}
      /\ Len(s) \in 0 .. Len(s)
  OBVIOUS
<1>2. /\ l \in Seq(T) /\ Len(l) = i - 1
      /\ \A j \in 1 .. i - 1 : l[j] = s[j]
  <2>1. /\ l \in Seq(T) /\ Len(l) = IF 1 <= i - 1 THEN i - 1 - 1 + 1 ELSE 0
        /\ \A j \in 1 .. i - 1 - 1 + 1 : l[j] = s[1 + j - 1]
    BY <1>1, PartOf
  <2> QED  BY <2>1
<1>3. /\ r \in Seq(T) /\ Len(r) = Len(s) - i
      /\ \A j \in 1 .. Len(s) - i : r[j] = s[i + j]
  <2>1. /\ r \in Seq(T)
        /\ Len(r) = IF i + 1 <= Len(s) THEN Len(s) - (i + 1) + 1 ELSE 0
        /\ \A j \in 1 .. Len(s) - (i + 1) + 1 : r[j] = s[i + 1 + j - 1]
    BY <1>1, PartOf
  <2> QED  BY <2>1
<1> HIDE DEF l, r
<1>4. Len(s) \in Nat /\ Len(l) + Len(r) = Len(s) - 1
  BY <1>2, <1>3
<1>5. /\ l \o r \in Seq(T) /\ Len(l \o r) = Len(l) + Len(r)
      /\ \A j \in 1 .. Len(l) + Len(r) : (l \o r)[j] = IF j <= Len(l) THEN l[j] ELSE r[j - Len(l)]
  BY <1>2, <1>3, ConcatProperties
<1>6. DOMAIN (l \o r) = 1 .. Len(s) - 1
  BY <1>4, <1>5, LenProperties
<1>7. ASSUME NEW j \in 1 .. i - 1 PROVE (l \o r)[j] = s[j]
  BY <1>2, <1>3, <1>5
<1>8. ASSUME NEW j \in i .. Len(s) - 1 PROVE (l \o r)[j] = s[j + 1]
  <2>1. /\ j - Len(l) \in 1 .. Len(s) - i /\ i + (j - Len(l)) = j + 1
        /\ ~ (j <= Len(l)) /\ j \in 1 .. Len(l) + Len(r)
    BY <1>2, <1>3
  <2>2. r[j - Len(l)] = s[i + (j - Len(l))]
    BY <2>1, <1>3, Zenon
  <2>3. (l \o r)[j] = r[j - Len(l)]
    BY <1>5, <2>1
  <2> QED  BY <2>1, <2>2, <2>3
<1> QED  BY <1>4, <1>5, <1>6, <1>7, <1>8 DEF l, r

(* Putting an element in front of a sequence. *)
LEMMA Prefixed ==
  ASSUME NEW S, NEW s \in Seq(S), NEW h \in S
  PROVE  /\ <<h>> \o s # <<>> /\ Head(<<h>> \o s) = h /\ Tail(<<h>> \o s) = s
         /\ \A e \in S : <<h>> \o Append(s, e) = Append(<<h>> \o s, e)
         /\ s # <<>> => <<Head(s)>> \o Tail(s) = s
         /\ \A i \in DOMAIN (<<h>> \o s) :
              (<<h>> \o s)[i] = h \/ \E j \in DOMAIN s : s[j] = (<<h>> \o s)[i]
<1> DEFINE t == <<h>> \o s
<1>1. <<h>> \in Seq(S) /\ Len(<<h>>) = 1 /\ <<h>>[1] = h
  OBVIOUS
<1>2. /\ t \in Seq(S) /\ Len(t) = 1 + Len(s) /\ Len(s) \in Nat
      /\ \A i \in 1 .. 1 + Len(s) : t[i] = IF i <= 1 THEN <<h>>[i] ELSE s[i - 1]
  BY <1>1, ConcatProperties
<1> HIDE DEF t
<1>3. /\ t[1] = h
      /\ \A i \in 1 .. Len(s) : i + 1 \in 1 .. 1 + Len(s) /\ t[i + 1] = s[i]
  BY <1>1, <1>2
<1>4. t # <<>>
  BY <1>2, EmptySeq
<1>5. Head(t) = h
  BY <1>2, <1>3, <1>4
<1>6. Tail(t) = s
  <2>1. /\ Tail(t) \in Seq(S) /\ Len(Tail(t)) = Len(s)
        /\ \A i \in 1 .. Len(Tail(t)) : Tail(t)[i] = t[i + 1]
    BY <1>2, <1>4, HeadTailProperties
  <2>2. \A i \in 1 .. Len(Tail(t)) : Tail(t)[i] = s[i]
    BY <1>3, <2>1
  <2> QED  BY <2>1, <2>2, SeqEqual
<1>7. ASSUME NEW e \in S PROVE <<h>> \o Append(s, e) = Append(t, e)
  <2>1. Append(s, e) = s \o <<e>> /\ Append(t, e) = t \o <<e>> /\ <<e>> \in Seq(S)
    BY <1>2, AppendIsConcat
  <2>2. <<h>> \o (s \o <<e>>) = (<<h>> \o s) \o <<e>>
    BY <1>1, <2>1, ConcatAssociative
  <2> QED  BY <2>1, <2>2 DEF t
<1>8. ASSUME NEW i \in DOMAIN t PROVE t[i] = h \/ \E j \in DOMAIN s : s[j] = t[i]
  <2>1. i \in 1 .. 1 + Len(s) /\ DOMAIN s = 1 .. Len(s)
    BY <1>2
  <2>2. CASE i = 1
    BY <1>3, <2>2
  <2>3. CASE i # 1
    <3>1. i - 1 \in 1 .. Len(s) /\ (i - 1) + 1 = i
      BY <1>2, <2>1, <2>3
    <3> QED  BY <1>3, <2>1, <3>1
  <2> QED  BY <2>2, <2>3
<1>9. ASSUME s # <<>> PROVE <<Head(s)>> \o Tail(s) = s
  <2> DEFINE u == <<Head(s)>> \o Tail(s)
  <2>1. /\ Head(s) \in S /\ Tail(s) \in Seq(S) /\ Len(Tail(s)) = Len(s) - 1 /\ Head(s) = s[1]
        /\ \A i \in 1 .. Len(Tail(s)) : Tail(s)[i] = s[i + 1]
    BY <1>9, HeadTailProperties
  <2>2. <<Head(s)>> \in Seq(S) /\ Len(<<Head(s)>>) = 1 /\ <<Head(s)>>[1] = s[1]
    BY <2>1
  <2>3. /\ u \in Seq(S) /\ Len(u) = 1 + (Len(s) - 1)
        /\ \A i \in 1 .. 1 + (Len(s) - 1) :
             u[i] = IF i <= 1 THEN <<Head(s)>>[i] ELSE Tail(s)[i - 1]
    BY <2>1, <2>2, ConcatProperties
  <2> HIDE DEF u
  <2>4. Len(u) = Len(s)
    BY <1>2, <2>3
  <2>5. ASSUME NEW i \in 1 .. Len(u) PROVE u[i] = s[i]
    <3>1. CASE i = 1
      BY <1>2, <2>2, <2>3, <2>4, <2>5, <3>1
    <3>2. CASE i # 1
      <4>1. i - 1 \in 1 .. Len(Tail(s)) /\ (i - 1) + 1 = i /\ ~(i <= 1)
        BY <1>2, <2>1, <2>4, <2>5, <3>2
      <4>2. u[i] = Tail(s)[i - 1]
        BY <1>2, <2>3, <2>4, <2>5, <4>1
      <4> QED  BY <2>1, <4>1, <4>2
    <3> QED  BY <3>1, <3>2
  <2>6. u = s
    BY <2>3, <2>4, <2>5, SeqEqual
  <2> QED  BY <2>6 DEF u
<1> QED  BY <1>4, <1>5, <1>6, <1>7, <1>8, <1>9 DEF t

=============================================================================
