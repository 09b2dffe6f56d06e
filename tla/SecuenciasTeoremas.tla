------------------------- MODULE SecuenciasTeoremas -------------------------
(* What the proofs need of sequences and of sets of numbers.               *)
EXTENDS Integers, Sequences, SequencesExt, SequenceTheorems, WellFoundedInduction, TLAPS

(* Taking the k-th element out of a sequence shifts the later ones.        *)
LEMMA RemoveAtPropiedades ==
    ASSUME NEW S, NEW s \in Seq(S), NEW k \in 1..Len(s)
    PROVE  /\ RemoveAt(s, k) \in Seq(S)
           /\ Len(RemoveAt(s, k)) = Len(s) - 1
           /\ \A i \in 1..(Len(s) - 1) :
                 RemoveAt(s, k)[i] = IF i < k THEN s[i] ELSE s[i + 1]
<1>1. /\ SubSeq(s, 1, k - 1) \in Seq(S)
      /\ Len(SubSeq(s, 1, k - 1)) = k - 1
      /\ \A i \in 1..(k - 1) : SubSeq(s, 1, k - 1)[i] = s[i]
  OBVIOUS
<1>2. /\ SubSeq(s, k + 1, Len(s)) \in Seq(S)
      /\ Len(SubSeq(s, k + 1, Len(s))) = Len(s) - k
      /\ \A i \in 1..(Len(s) - k) : SubSeq(s, k + 1, Len(s))[i] = s[k + i]
  OBVIOUS
<1> DEFINE s1 == SubSeq(s, 1, k - 1)
           s2 == SubSeq(s, k + 1, Len(s))
<1>3. RemoveAt(s, k) = s1 \o s2
  BY DEF RemoveAt
<1>4. /\ s1 \o s2 \in Seq(S)
      /\ Len(s1 \o s2) = Len(s1) + Len(s2)
      /\ \A i \in 1..(Len(s1) + Len(s2)) :
            (s1 \o s2)[i] = IF i <= Len(s1) THEN s1[i] ELSE s2[i - Len(s1)]
  BY <1>1, <1>2, ConcatProperties
<1>5. Len(s) \in Nat /\ k \in 1..Len(s) /\ Len(s1) = k - 1 /\ Len(s2) = Len(s) - k
  BY <1>1, <1>2
<1> HIDE DEF s1, s2
<1>6. Len(s1) + Len(s2) = Len(s) - 1
  BY <1>5
<1>7. ASSUME NEW i \in 1..(Len(s) - 1)
      PROVE  (s1 \o s2)[i] = IF i < k THEN s[i] ELSE s[i + 1]
  <2>1. CASE i < k
    <3>1. s1[i] = s[i]
      BY <2>1, <1>1, <1>5 DEF s1
    <3>2. QED
      BY <2>1, <3>1, <1>4, <1>5, <1>6
  <2>2. CASE i >= k
    <3>1. i - (k - 1) \in 1..(Len(s) - k) /\ k + (i - (k - 1)) = i + 1
      BY <2>2, <1>5
    <3>2. s2[i - (k - 1)] = s[i + 1]
      BY <3>1, <1>2 DEF s2
    <3>3. QED
      BY <2>2, <3>2, <1>4, <1>5, <1>6
  <2>3. QED
    BY <2>1, <2>2, <1>5
<1>8. QED
  BY <1>3, <1>4, <1>6, <1>7

(* All but the last element.                                               *)
LEMMA FrontPropiedades ==
    ASSUME NEW S, NEW s \in Seq(S), Len(s) > 0
    PROVE  /\ Len(s) \in Nat /\ Front(s) \in Seq(S) /\ Len(Front(s)) = Len(s) - 1
           /\ \A i \in 1..(Len(s) - 1) : Front(s)[i] = s[i]
<1>1. Len(s) \in Nat /\ Len(s) \in 1..Len(s)
  OBVIOUS
<1>2. ASSUME NEW k \in 1..Len(s)
      PROVE  /\ SubSeq(s, 1, k - 1) \in Seq(S) /\ Len(SubSeq(s, 1, k - 1)) = k - 1
             /\ \A i \in 1..(k - 1) : SubSeq(s, 1, k - 1)[i] = s[i]
  OBVIOUS
<1>3. QED
  BY <1>1, <1>2 DEF Front

(* A function of the first numbers is a sequence.                          *)
LEMMA FuncionSecuencia ==
    ASSUME NEW S, NEW n \in Nat, NEW f \in [1..n -> S]
    PROVE  f \in Seq(S) /\ Len(f) = n /\ DOMAIN f = 1..n
<1>1. f \in Seq(S)
  BY SeqDef
<1>2. Len(f) \in Nat /\ DOMAIN f = 1..Len(f) /\ DOMAIN f = 1..n
  BY <1>1, LenProperties
<1>3. Len(f) = n
  <2>1. \A k \in Nat : k \in 1..Len(f) <=> k \in 1..n
    BY <1>2
  <2>2. Len(f) <= n
    BY <2>1, <1>2
  <2>3. n <= Len(f)
    BY <2>1, <1>2
  <2>4. QED
    BY <2>2, <2>3, <1>2
<1>4. QED
  BY <1>1, <1>2, <1>3

(* A set of numbers that is not empty has a first one.                     *)
LEMMA MinimoExiste ==
    ASSUME NEW S \in SUBSET Nat, S # {}
    PROVE  \E x \in S : \A y \in S : x <= y
<1>1. \E x \in S : \A y \in S : ~(<<y, x>> \in OpToRel(<, Nat))
  BY NatLessThanWellFounded, WFMin, Zenon
<1>2. PICK x \in S : \A y \in S : ~(<<y, x>> \in OpToRel(<, Nat))
  BY <1>1
<1>3. ASSUME NEW y \in S PROVE x <= y
  <2>1. ~(<<y, x>> \in OpToRel(<, Nat))
    BY <1>2, Zenon
  <2>2. ~(y < x)
    BY <2>1, x \in Nat, y \in Nat, Zenon DEF OpToRel
  <2>3. QED
    BY <2>2
<1>4. QED
  BY <1>3
=============================================================================
