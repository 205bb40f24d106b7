----------------------------- MODULE DataFacts -----------------------------
(***************************************************************************)
(* Facts about the operators of the community modules that the models are   *)
(* built from, for the proofs about the components.                          *)
(***************************************************************************)
EXTENDS Integers, Sequences, FiniteSets, FiniteSetsExt, SequencesExt,
        SequenceTheorems, FiniteSetTheorems, WellFoundedInduction, TLAPS

\* A set of natural numbers that is not empty has a least element, and Min is it.
LEMMA MinProperty ==
  ASSUME NEW S \in SUBSET Nat, S # {}
  PROVE  Min(S) \in S /\ \A y \in S : Min(S) <= y
<1> DEFINE R == OpToRel(<, Nat)
<1>1. IsWellFoundedOn(R, Nat)
  BY ONLY NatLessThanWellFounded, Zenon
<1>2. R = {ss \in Nat \X Nat : ss[1] < ss[2]}
  BY DEF OpToRel
<1> HIDE DEF R
<1>3. PICK x \in S : \A y \in S : <<y, x>> \notin R
  BY <1>1, WFMin
<1>4. ASSUME NEW y \in S PROVE x <= y
  <2>1. x \in Nat /\ y \in Nat
    OBVIOUS
  <2>2. y < x => <<y, x>> \in R
    BY <1>2, <2>1
  <2> QED BY <1>3, <2>1, <2>2
<1> QED BY <1>4 DEF Min

\* A set of natural numbers with an upper bound has a greatest element, and Max is it.
LEMMA MaxProperty ==
  ASSUME NEW S \in SUBSET Nat, S # {}, NEW n \in Nat, \A y \in S : y <= n
  PROVE  Max(S) \in S /\ \A y \in S : y <= Max(S)
<1> DEFINE U == {u \in Nat : \A y \in S : y <= u}
           m == Min(U)
<1>1. U \in SUBSET Nat /\ U # {}
  OBVIOUS
<1>2. m \in U /\ \A u \in U : m <= u
  <2> HIDE DEF U
  <2> QED BY <1>1, MinProperty
<1>3. m \in Nat /\ \A y \in S : y <= m
  BY <1>2
<1>4. ASSUME m \notin S PROVE FALSE
  <2>1. \A y \in S : y <= m /\ y # m /\ y \in Nat
    BY <1>3, <1>4
  <2> HIDE DEF m
  <2>2. m # 0
    <3>1. PICK y : y \in S
      OBVIOUS
    <3> QED BY <1>3, <2>1, <3>1
  <2>3. m - 1 \in Nat
    BY <1>3, <2>2
  <2>4. \A y \in S : y <= m - 1
    BY <1>3, <2>1
  <2>5. m <= m - 1
    BY <1>2, <2>3, <2>4
  <2> QED BY <1>3, <2>5
<1> HIDE DEF m
<1> QED BY <1>3, <1>4 DEF Max

\* The place of the first occurrence of m in s.
FirstAt(s, m) == Min({i \in 1..Len(s) : s[i] = m})

\* RemoveFirst takes the first occurrence out and closes the gap.
LEMMA RemoveFirstProperty ==
  ASSUME NEW S, NEW s \in Seq(S), NEW m, \E i \in 1..Len(s) : s[i] = m
  PROVE  /\ RemoveFirst(s, m) \in Seq(S)
         /\ Len(RemoveFirst(s, m)) = Len(s) - 1
         /\ FirstAt(s, m) \in 1..Len(s) /\ s[FirstAt(s, m)] = m
         /\ \A k \in 1..FirstAt(s, m) - 1 : s[k] # m
         /\ \A k \in 1..Len(s) - 1 :
              RemoveFirst(s, m)[k] = IF k < FirstAt(s, m) THEN s[k] ELSE s[k + 1]
<1> DEFINE I == {i \in 1..Len(s) : s[i] = m}
           p == FirstAt(s, m)
<1>0. Len(s) \in Nat
  BY LenProperties
<1>1. p \in I /\ \A y \in I : p <= y
  <2>1. I \in SUBSET Nat /\ I # {}
    BY <1>0
  <2>2. p = Min(I)
    BY DEF FirstAt
  <2> HIDE DEF I
  <2> QED BY <2>1, <2>2, MinProperty
<1>2. RemoveFirst(s, m) = RemoveAt(s, p)
  BY <1>1 DEF RemoveFirst, SelectInSeq, FirstAt
<1> HIDE DEF p
<1>3. p \in 1..Len(s) /\ s[p] = m
  BY <1>1
<1>4. \A k \in 1..p - 1 : s[k] # m
  BY <1>0, <1>1
<1> HIDE DEF I
<1> DEFINE a == SubSeq(s, 1, p - 1)
           b == SubSeq(s, p + 1, Len(s))
<1>5. a \in Seq(S) /\ Len(a) = p - 1 /\ \A i \in 1..p - 1 : a[i] = s[i]
  BY <1>0, <1>3, SubSeqProperties, ElementOfSeq
<1>6. b \in Seq(S) /\ Len(b) = Len(s) - p /\ \A i \in 1..Len(s) - p : b[i] = s[p + i]
  <2>1. p + 1 \in Int /\ \A i \in p + 1..Len(s) : s[i] \in S
    BY <1>0, <1>3, ElementOfSeq
  <2> QED BY <1>0, <1>3, <2>1, SubSeqProperties
<1>7. RemoveFirst(s, m) = a \o b
  BY <1>2 DEF RemoveAt
<1> HIDE DEF a, b
<1>8. /\ a \o b \in Seq(S) /\ Len(a \o b) = Len(s) - 1
      /\ \A k \in 1..Len(s) - 1 : (a \o b)[k] = IF k <= p - 1 THEN a[k] ELSE b[k - (p - 1)]
  <2>1. /\ a \o b \in Seq(S) /\ Len(a \o b) = Len(a) + Len(b)
        /\ \A k \in 1..Len(a) + Len(b) : (a \o b)[k] = IF k <= Len(a) THEN a[k] ELSE b[k - Len(a)]
    BY <1>5, <1>6, ConcatProperties
  <2>2. Len(a) + Len(b) = Len(s) - 1
    BY <1>0, <1>3, <1>5, <1>6
  <2> QED BY <1>5, <2>1, <2>2
<1>9. ASSUME NEW k \in 1..Len(s) - 1
      PROVE  (a \o b)[k] = IF k < p THEN s[k] ELSE s[k + 1]
  BY <1>0, <1>3, <1>5, <1>6, <1>8
<1> QED BY <1>3, <1>4, <1>7, <1>8, <1>9 DEF p

-----------------------------------------------------------------------------
(* Sequences of anything: the set of its elements is type enough.           *)

IsSeq(s) == s \in Seq(ToSet(s))

\* A sequence over some set is one.
LEMMA IsSeqIntro ==
  ASSUME NEW S, NEW s \in Seq(S)
  PROVE  IsSeq(s)
<1>1. PICK n \in Nat : s \in [1..n -> S]
  BY SeqDef
<1>2. s \in [1..n -> ToSet(s)]
  BY <1>1 DEF ToSet
<1> QED BY <1>2, SeqDef DEF IsSeq

LEMMA IsSeqLen ==
  ASSUME NEW s, IsSeq(s)
  PROVE  Len(s) \in Nat /\ DOMAIN s = 1..Len(s)
  BY LenProperties DEF IsSeq

\* Append to a sequence of anything.
LEMMA IsSeqAppend ==
  ASSUME NEW s, IsSeq(s), NEW e
  PROVE  /\ IsSeq(Append(s, e)) /\ Len(Append(s, e)) = Len(s) + 1
         /\ \A i \in 1..Len(s) : Append(s, e)[i] = s[i]
         /\ Append(s, e)[Len(s) + 1] = e
<1> DEFINE S == ToSet(s) \cup {e}
<1>1. s \in Seq(S) /\ e \in S
  BY SeqMonotonic DEF IsSeq
<1> HIDE DEF S
<1>2. /\ Append(s, e) \in Seq(S) /\ Len(Append(s, e)) = Len(s) + 1
      /\ \A i \in 1..Len(s) : Append(s, e)[i] = s[i]
      /\ Append(s, e)[Len(s) + 1] = e
  BY <1>1, AppendProperties
<1> QED BY <1>2, IsSeqIntro

\* One element is replaced.
Updated(s, i, e) == [s EXCEPT ![i] = e]

LEMMA IsSeqUpdated ==
  ASSUME NEW s, IsSeq(s), NEW i \in 1..Len(s), NEW e
  PROVE  /\ IsSeq(Updated(s, i, e)) /\ Len(Updated(s, i, e)) = Len(s)
         /\ \A j \in 1..Len(s) : Updated(s, i, e)[j] = IF j = i THEN e ELSE s[j]
<1> DEFINE S == ToSet(s) \cup {e}
<1>1. s \in Seq(S) /\ e \in S
  BY SeqMonotonic DEF IsSeq
<1> HIDE DEF S
<1>2. /\ [s EXCEPT ![i] = e] \in Seq(S) /\ Len([s EXCEPT ![i] = e]) = Len(s)
      /\ \A j \in 1..Len(s) : [s EXCEPT ![i] = e][j] = IF j = i THEN e ELSE s[j]
  BY <1>1, ExceptSeq
<1>3. Updated(s, i, e) \in Seq(S)
  BY <1>2 DEF Updated
<1>4. IsSeq(Updated(s, i, e))
  BY <1>3, IsSeqIntro
<1> QED BY <1>2, <1>4 DEF Updated

\* The first element is taken off.
LEMMA IsSeqTail ==
  ASSUME NEW s, IsSeq(s), Len(s) > 0
  PROVE  /\ IsSeq(Tail(s)) /\ Len(Tail(s)) = Len(s) - 1 /\ Head(s) = s[1]
         /\ \A i \in 1..Len(s) - 1 : Tail(s)[i] = s[i + 1]
<1>1. s # <<>> /\ Len(s) \in Nat
  BY EmptySeq, IsSeqLen DEF IsSeq
<1>2. /\ Tail(s) \in Seq(ToSet(s)) /\ Len(Tail(s)) = Len(s) - 1
      /\ \A i \in 1..Len(Tail(s)) : Tail(s)[i] = s[i + 1]
  BY <1>1, HeadTailProperties DEF IsSeq
<1>3. Head(s) = s[1]
  BY <1>1 DEF IsSeq
<1> QED BY <1>2, <1>3, IsSeqIntro

\* The last element alone.
LEMMA IsSeqLast ==
  ASSUME NEW s, IsSeq(s), Len(s) > 0
  PROVE  /\ IsSeq(SubSeq(s, Len(s), Len(s))) /\ Len(SubSeq(s, Len(s), Len(s))) = 1
         /\ SubSeq(s, Len(s), Len(s))[1] = s[Len(s)]
<1>1. Len(s) \in Nat /\ s[Len(s)] \in ToSet(s)
  BY IsSeqLen, ElementOfSeq DEF IsSeq
<1>2. /\ SubSeq(s, Len(s), Len(s)) \in Seq(ToSet(s)) /\ Len(SubSeq(s, Len(s), Len(s))) = 1
      /\ SubSeq(s, Len(s), Len(s))[1] = s[Len(s)]
  BY <1>1, SubSeqProperties
<1> QED BY <1>2, IsSeqIntro

LEMMA IsSeqEmpty ==
  ASSUME NEW s, IsSeq(s), s # <<>>
  PROVE  Len(s) > 0
  BY EmptySeq, IsSeqLen DEF IsSeq

\* The sequence is cut off.
LEMMA IsSeqPrefix ==
  ASSUME NEW s, IsSeq(s), NEW n \in 0..Len(s)
  PROVE  /\ IsSeq(SubSeq(s, 1, n)) /\ Len(SubSeq(s, 1, n)) = n
         /\ \A i \in 1..n : SubSeq(s, 1, n)[i] = s[i]
<1>1. Len(s) \in Nat
  BY IsSeqLen
<1>2. \A i \in 1..n : s[i] \in ToSet(s)
  BY <1>1, ElementOfSeq DEF IsSeq
<1>3. /\ SubSeq(s, 1, n) \in Seq(ToSet(s)) /\ Len(SubSeq(s, 1, n)) = n
      /\ \A i \in 1..n : SubSeq(s, 1, n)[i] = s[i]
  BY <1>1, <1>2, SubSeqProperties
<1> QED BY <1>3, IsSeqIntro

\* Two sequences one behind the other.
LEMMA IsSeqConcat ==
  ASSUME NEW a, IsSeq(a), NEW b, IsSeq(b)
  PROVE  /\ IsSeq(a \o b) /\ Len(a \o b) = Len(a) + Len(b)
         /\ \A i \in 1..Len(a) + Len(b) : (a \o b)[i] = IF i <= Len(a) THEN a[i] ELSE b[i - Len(a)]
<1> DEFINE S == ToSet(a) \cup ToSet(b)
<1>1. a \in Seq(S) /\ b \in Seq(S)
  BY SeqMonotonic DEF IsSeq
<1> HIDE DEF S
<1>2. /\ a \o b \in Seq(S) /\ Len(a \o b) = Len(a) + Len(b)
      /\ \A i \in 1..Len(a) + Len(b) : (a \o b)[i] = IF i <= Len(a) THEN a[i] ELSE b[i - Len(a)]
  BY <1>1, ConcatProperties
<1> QED BY <1>2, IsSeqIntro

LEMMA IsSeqEqual ==
  ASSUME NEW a, IsSeq(a), NEW b, IsSeq(b), Len(a) = Len(b), \A i \in 1..Len(a) : a[i] = b[i]
  PROVE  a = b
<1> DEFINE S == ToSet(a) \cup ToSet(b)
<1>1. a \in Seq(S) /\ b \in Seq(S)
  BY SeqMonotonic DEF IsSeq
<1> HIDE DEF S
<1> QED BY <1>1, SeqEqual

LEMMA EmptyIsSeq == IsSeq(<<>>) /\ Len(<<>>) = 0
  BY EmptySeq DEF IsSeq

LEMMA OneIsSeq ==
  ASSUME NEW x
  PROVE  IsSeq(<<x>>) /\ Len(<<x>>) = 1 /\ <<x>>[1] = x
<1>1. <<x>> \in Seq({x}) /\ Len(<<x>>) = 1 /\ <<x>>[1] = x
  OBVIOUS
<1> QED BY <1>1, IsSeqIntro

\* The first element of the second one goes to the first one.
LEMMA ConcatShift ==
  ASSUME NEW a, IsSeq(a), NEW b, IsSeq(b), Len(b) > 0
  PROVE  Append(a, Head(b)) \o Tail(b) = a \o b
<1> DEFINE x == Head(b)
           t == Tail(b)
           c == Append(a, x)
<1>1. /\ IsSeq(t) /\ Len(t) = Len(b) - 1 /\ x = b[1]
      /\ \A i \in 1..Len(b) - 1 : t[i] = b[i + 1]
  BY IsSeqTail
<1> HIDE DEF x, t
<1>2. /\ IsSeq(c) /\ Len(c) = Len(a) + 1 /\ c[Len(a) + 1] = x
      /\ \A i \in 1..Len(a) : c[i] = a[i]
  BY IsSeqAppend
<1> HIDE DEF c
<1>3. Len(a) \in Nat /\ Len(b) \in Nat
  BY IsSeqLen
<1>4. /\ IsSeq(c \o t) /\ Len(c \o t) = Len(a) + Len(b)
      /\ \A i \in 1..Len(a) + Len(b) : (c \o t)[i] = IF i <= Len(a) + 1 THEN c[i] ELSE t[i - (Len(a) + 1)]
  <2>1. /\ IsSeq(c \o t) /\ Len(c \o t) = Len(c) + Len(t)
        /\ \A i \in 1..Len(c) + Len(t) : (c \o t)[i] = IF i <= Len(c) THEN c[i] ELSE t[i - Len(c)]
    BY ONLY <1>1, <1>2, IsSeqConcat
  <2>2. Len(c) + Len(t) = Len(a) + Len(b)
    BY <1>1, <1>2, <1>3
  <2> QED BY <1>2, <2>1, <2>2
<1>5. /\ IsSeq(a \o b) /\ Len(a \o b) = Len(a) + Len(b)
      /\ \A i \in 1..Len(a) + Len(b) : (a \o b)[i] = IF i <= Len(a) THEN a[i] ELSE b[i - Len(a)]
  BY IsSeqConcat
<1>6. ASSUME NEW i \in 1..Len(a) + Len(b) PROVE (c \o t)[i] = (a \o b)[i]
  <2>1. CASE i <= Len(a)
    BY <1>2, <1>3, <1>4, <1>5, <2>1
  <2>2. CASE i = Len(a) + 1
    BY <1>1, <1>2, <1>3, <1>4, <1>5, <2>2
  <2>3. CASE i > Len(a) + 1
    <3>1. i - (Len(a) + 1) \in 1..Len(b) - 1 /\ (i - (Len(a) + 1)) + 1 = i - Len(a)
      BY <1>3, <2>3
    <3>2. t[i - (Len(a) + 1)] = b[i - Len(a)]
      BY <1>1, <3>1
    <3> QED BY <1>3, <1>4, <1>5, <2>3, <3>2
  <2>4. i <= Len(a) \/ i = Len(a) + 1 \/ i > Len(a) + 1
    BY <1>3
  <2> QED BY <2>1, <2>2, <2>3, <2>4
<1>7. c \o t = a \o b
  BY <1>4, <1>5, <1>6, IsSeqEqual
<1> QED BY <1>7 DEF c, x, t

LEMMA ConcatAssoc ==
  ASSUME NEW a, IsSeq(a), NEW b, IsSeq(b), NEW c, IsSeq(c)
  PROVE  a \o (b \o c) = (a \o b) \o c
<1> DEFINE S == ToSet(a) \cup ToSet(b) \cup ToSet(c)
<1>1. a \in Seq(S) /\ b \in Seq(S) /\ c \in Seq(S)
  BY SeqMonotonic DEF IsSeq
<1> HIDE DEF S
<1> QED BY <1>1, ConcatAssociative

LEMMA ConcatEmpty ==
  ASSUME NEW a, IsSeq(a)
  PROVE  a \o <<>> = a /\ <<>> \o a = a
  BY ConcatEmptySeq DEF IsSeq

\* The last part of a sequence.
LEMMA IsSeqSuffix ==
  ASSUME NEW s, IsSeq(s), NEW m \in 0..Len(s)
  PROVE  /\ IsSeq(SubSeq(s, m + 1, Len(s))) /\ Len(SubSeq(s, m + 1, Len(s))) = Len(s) - m
         /\ \A i \in 1..Len(s) - m : SubSeq(s, m + 1, Len(s))[i] = s[i + m]
<1>1. Len(s) \in Nat
  BY IsSeqLen
<1>2. \A i \in m + 1..Len(s) : s[i] \in ToSet(s)
  BY <1>1, ElementOfSeq DEF IsSeq
<1>3. /\ SubSeq(s, m + 1, Len(s)) \in Seq(ToSet(s)) /\ Len(SubSeq(s, m + 1, Len(s))) = Len(s) - m
      /\ \A i \in 1..Len(s) - m : SubSeq(s, m + 1, Len(s))[i] = s[m + 1 + i - 1]
  BY <1>1, <1>2, SubSeqProperties
<1>4. \A i \in 1..Len(s) - m : m + 1 + i - 1 = i + m
  BY <1>1
<1> QED BY <1>3, <1>4, IsSeqIntro
=============================================================================
