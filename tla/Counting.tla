------------------------------ MODULE Counting ------------------------------
(***************************************************************************)
(* Lemmas on how often something occurs in a sequence or in a finite set,  *)
(* for the proofs that what is passed on is neither lost nor doubled, and  *)
(* on the least and the greatest of a set of numbers.                      *)
(***************************************************************************)
EXTENDS Integers, Sequences, FiniteSets, TLAPS, FiniteSetTheorems, SequenceTheorems,
        WellFoundedInduction

\* 1 if x is in S, 0 otherwise.
Ind(x, S) == IF x \in S THEN 1 ELSE 0

\* Taking one element out of a finite set.
LEMMA CountWithout ==
    ASSUME NEW S, NEW x, IsFiniteSet(S)
    PROVE  /\ Cardinality(S) \in Nat
           /\ Cardinality(S \ {x}) \in Nat
           /\ Cardinality(S) = Cardinality(S \ {x}) + (IF x \in S THEN 1 ELSE 0)
<1>1. IsFiniteSet(S \ {x}) /\ Cardinality(S) \in Nat /\ Cardinality(S \ {x}) \in Nat
  BY FS_RemoveElement, FS_CardinalityType
<1>2. CASE x \in S
  BY <1>1, <1>2, FS_RemoveElement
<1>3. CASE x \notin S
  <2>1. S \ {x} = S
    BY <1>3
  <2>2. Cardinality(S \ {x}) = Cardinality(S)
    BY <2>1, Zenon
  <2>3. QED
    BY <1>1, <1>3, <2>2
<1>4. QED
  BY <1>2, <1>3, <1>1

\* How often x occurs in q.
CountIn(q, x) == Cardinality({i \in DOMAIN q : q[i] = x})

LEMMA CountFinite ==
    ASSUME NEW T, NEW q \in Seq(T), NEW x
    PROVE  IsFiniteSet({i \in DOMAIN q : q[i] = x}) /\ CountIn(q, x) \in Nat
<1>1. IsFiniteSet(1 .. Len(q))
  BY FS_Interval, LenProperties
<1>2. {i \in DOMAIN q : q[i] = x} \in SUBSET (1 .. Len(q))
  BY LenProperties
<1>3. QED
  BY <1>1, <1>2, FS_Subset, FS_CardinalityType DEF CountIn

\* What is taken from the front of a sequence is one of its first element.
LEMMA PoppedCount ==
    ASSUME NEW T, NEW q \in Seq(T), q # <<>>, NEW x
    PROVE  CountIn(q, x) = CountIn(Tail(q), x) + Ind(x, {Head(q)})
<1> DEFINE A == {i \in DOMAIN q : q[i] = x}
           B == {i \in DOMAIN Tail(q) : Tail(q)[i] = x}
           f == [i \in B |-> i + 1]
<1>1. /\ Tail(q) \in Seq(T) /\ Len(q) \in Nat /\ Len(q) > 0
      /\ DOMAIN q = 1 .. Len(q) /\ DOMAIN Tail(q) = 1 .. (Len(q) - 1)
      /\ \A i \in 1 .. (Len(q) - 1) : Tail(q)[i] = q[i + 1]
      /\ Head(q) = q[1]
  BY HeadTailProperties, LenProperties, EmptySeq
<1>2. IsFiniteSet(A) /\ IsFiniteSet(B)
  BY <1>1, CountFinite
<1>3. f \in Bijection(B, A \ {1})
  <2>1. f \in [B -> A \ {1}]
    BY <1>1
  <2>2. \A i, k \in B : f[i] = f[k] => i = k
    BY <1>1
  <2>3. \A k \in A \ {1} : \E i \in B : f[i] = k
    <3>1. TAKE k \in A \ {1}
    <3>2. k - 1 \in B /\ f[k - 1] = k
      BY <1>1
    <3>3. QED
      BY <3>2
  <2>4. QED
    BY <2>1, <2>2, <2>3 DEF Bijection, Injection, Surjection, IsInjective
<1>4. Cardinality(A \ {1}) = Cardinality(B)
  BY <1>2, <1>3, FS_Bijection DEF ExistsBijection
<1>5. 1 \in A <=> x \in {Head(q)}
  BY <1>1
<1>6. CountIn(q, x) = Cardinality(A) /\ CountIn(Tail(q), x) = Cardinality(B)
  BY DEF CountIn
<1> HIDE DEF A, B, f
<1>7. /\ Cardinality(A \ {1}) \in Nat
      /\ Cardinality(A) = Cardinality(A \ {1}) + (IF 1 \in A THEN 1 ELSE 0)
  BY <1>2, CountWithout
<1>8. QED
  BY <1>4, <1>5, <1>6, <1>7 DEF Ind

\* What is put at the end of a sequence is there once more.
LEMMA AppendedCount ==
    ASSUME NEW T, NEW q \in Seq(T), NEW y \in T, NEW x
    PROVE  CountIn(Append(q, y), x) = CountIn(q, x) + Ind(x, {y})
<1> DEFINE A == {i \in DOMAIN q : q[i] = x}
           B == {i \in DOMAIN Append(q, y) : Append(q, y)[i] = x}
           n == Len(q) + 1
<1>1. /\ Append(q, y) \in Seq(T) /\ Len(q) \in Nat
      /\ DOMAIN q = 1 .. Len(q) /\ DOMAIN Append(q, y) = 1 .. Len(q) + 1
      /\ \A i \in 1 .. Len(q) : Append(q, y)[i] = q[i]
      /\ Append(q, y)[n] = y
  BY AppendProperties
<1>2. IsFiniteSet(B)
  BY <1>1, CountFinite
<1>3. B \ {n} = A
  BY <1>1
<1>4. n \in B <=> x \in {y}
  BY <1>1
<1>5. CountIn(q, x) = Cardinality(A) /\ CountIn(Append(q, y), x) = Cardinality(B)
  BY DEF CountIn
<1> HIDE DEF A, B, n
<1>6. Cardinality(B) = Cardinality(B \ {n}) + (IF n \in B THEN 1 ELSE 0)
  BY <1>2, CountWithout
<1>7. QED
  BY <1>3, <1>4, <1>5, <1>6 DEF Ind

\* What is left when a sequence is cut is not more.
LEMMA PrefixCount ==
    ASSUME NEW T, NEW q \in Seq(T), NEW n \in 0 .. Len(q), NEW x
    PROVE  CountIn(SubSeq(q, 1, n), x) <= CountIn(q, x)
<1>1. /\ Len(SubSeq(q, 1, n)) = n /\ SubSeq(q, 1, n) \in Seq(T)
      /\ \A i \in 1 .. n : SubSeq(q, 1, n)[i] = q[i] /\ i \in DOMAIN q
  BY SubSeqProperties
<1>2. DOMAIN SubSeq(q, 1, n) = 1 .. n
  BY <1>1
<1> DEFINE A == {i \in DOMAIN q : q[i] = x}
           B == {i \in DOMAIN SubSeq(q, 1, n) : SubSeq(q, 1, n)[i] = x}
<1>3. B \in SUBSET A /\ IsFiniteSet(A)
  BY <1>1, <1>2, CountFinite
<1>4. CountIn(q, x) = Cardinality(A) /\ CountIn(SubSeq(q, 1, n), x) = Cardinality(B)
  BY DEF CountIn
<1> HIDE DEF A, B
<1>5. QED
  BY <1>3, <1>4, FS_Subset

\* Two finite sets that differ in w at most.
LEMMA DifferByOne ==
    ASSUME NEW A, NEW B, IsFiniteSet(A), IsFiniteSet(B), NEW w, A \ {w} = B \ {w}
    PROVE  /\ Cardinality(A \ {w}) \in Nat
           /\ Cardinality(A) = Cardinality(A \ {w}) + (IF w \in A THEN 1 ELSE 0)
           /\ Cardinality(B) = Cardinality(A \ {w}) + (IF w \in B THEN 1 ELSE 0)
<1>1. Cardinality(A \ {w}) = Cardinality(B \ {w})
  BY Zenon
<1>2. QED
  BY <1>1, CountWithout

\* A set of numbers has a least one.
LEMMA LeastNatural ==
    ASSUME NEW S \in SUBSET Nat, S # {}
    PROVE  \E m \in S : \A n \in S : m <= n
<1> DEFINE L == OpToRel(<, Nat)
<1>1. IsWellFoundedOn(L, Nat)
  BY NatLessThanWellFounded, Zenon
<1>2. L = {x \in Nat \X Nat : x[1] < x[2]}
  BY DEF OpToRel
<1> HIDE DEF L
<1>3. PICK m \in S : \A n \in S : ~ (<<n, m>> \in L)
  BY <1>1, WFMin
<1>4. \A n \in S : ~ (n < m)
  BY <1>2, <1>3
<1>5. QED
  BY <1>4

\* A set of numbers up to a bound has a greatest one.
LEMMA GreatestNatural ==
    ASSUME NEW S \in SUBSET Nat, S # {}, NEW b \in Nat, \A n \in S : n <= b
    PROVE  \E m \in S : \A n \in S : m >= n
<1> DEFINE T == {b - n : n \in S}
<1>1. T \in SUBSET Nat /\ T # {}
  <2>1. \A n \in S : b - n \in Nat /\ b - n \in T
    OBVIOUS
  <2>2. QED
    BY <2>1
<1>2. PICK m \in T : \A n \in T : m <= n
  <2> HIDE DEF T
  <2>1. QED
    BY <1>1, LeastNatural
<1>3. PICK k \in S : m = b - k
  OBVIOUS
<1>4. ASSUME NEW n \in S PROVE k >= n
  <2>1. b - k <= b - n
    BY <1>2, <1>3
  <2>2. k \in Nat /\ n \in Nat
    OBVIOUS
  <2>3. QED
    BY <2>1, <2>2
<1>5. QED
  BY <1>4
=============================================================================
