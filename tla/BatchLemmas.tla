------------------------------ MODULE BatchLemmas ------------------------------
(***************************************************************************)
(* What the pools of the reviews rely on: a batch is halved into two        *)
(* nonempty parts, and a thread's stack of batches holds each element once. *)
(***************************************************************************)
EXTENDS Integers, FiniteSets, Sequences, FiniteSetTheorems, SequenceTheorems,
        WellFoundedInduction, TLAPS

\* What a stack of batches holds, and that no two of its batches overlap.
Held(s)  == UNION {s[i] : i \in 1..Len(s)}
Apart(s) == \A i, j \in 1..Len(s) : i # j => s[i] \cap s[j] = {}

-----------------------------------------------------------------------------
(* Halving *)

\* Every nonempty set of naturals has a least element.
LEMMA LeastElement ==
  ASSUME NEW S \in SUBSET Nat, S # {}
  PROVE  \E m \in S : \A n \in S : m <= n
<1>1. PICK m \in S : \A n \in S : ~ (<<n, m>> \in OpToRel(<, Nat))
  BY NatLessThanWellFounded, WFMin
<1>2. \A n \in S : n \in Nat /\ ~ (n < m)
  <2>1. ASSUME NEW n \in S, n < m PROVE FALSE
    <3>1. <<n, m>> \in Nat \X Nat /\ <<n, m>>[1] < <<n, m>>[2]
      BY <2>1
    <3>2. <<n, m>> \in {ss \in Nat \X Nat : ss[1] < ss[2]}
      BY <3>1
    <3>3. QED
      BY <1>1, <3>2 DEF OpToRel
  <2>2. QED
    BY <2>1
<1>3. QED
  BY <1>2

\* Every nonempty finite set of naturals has a greatest element: the one with
\* the fewest elements above it.
LEMMA GreatestElement ==
  ASSUME NEW b \in SUBSET Nat, IsFiniteSet(b), b # {}
  PROVE  \E m \in b : \A n \in b : n <= m
<1> DEFINE Above(t) == {u \in b : t < u}
           sizes    == {Cardinality(Above(t)) : t \in b}
<1>1. \A t \in b : IsFiniteSet(Above(t)) /\ Cardinality(Above(t)) \in Nat
  BY FS_Subset, FS_CardinalityType
<1>2. sizes \in SUBSET Nat /\ sizes # {}
  BY <1>1
<1>3. PICK k \in sizes : \A n \in sizes : k <= n
  <2> HIDE DEF sizes
  <2> QED BY <1>2, LeastElement
<1>4. PICK m \in b : k = Cardinality(Above(m))
  BY <1>3
<1>5. ASSUME NEW n \in b, m < n PROVE FALSE
  <2>1. Above(n) \in SUBSET Above(m) /\ n \in Above(m) /\ n \notin Above(n)
    <3>1. \A u \in b : u \in Nat /\ n \in Nat /\ m \in Nat
      OBVIOUS
    <3>2. \A u \in b : n < u => m < u
      BY <1>5, <3>1
    <3>3. ~(n < n)
      BY <3>1
    <3>4. QED
      BY <1>5, <3>2, <3>3
  <2>2. Cardinality(Above(n)) <= Cardinality(Above(m)) /\ Cardinality(Above(n)) # Cardinality(Above(m))
    <3> HIDE DEF Above
    <3> QED BY <1>1, <1>4, <2>1, FS_Subset
  <2>3. Cardinality(Above(m)) <= Cardinality(Above(n))
    BY <1>3, <1>4
  <2>4. Cardinality(Above(n)) \in Nat /\ Cardinality(Above(m)) \in Nat
    BY <1>1
  <2>5. QED
    <3> HIDE DEF Above
    <3> QED BY <2>2, <2>3, <2>4
<1>6. QED
  BY <1>5

\* A batch of several numbered elements is halved into two nonempty parts.
LEMMA HalvesNonempty ==
  ASSUME NEW b \in SUBSET Nat, IsFiniteSet(b), Cardinality(b) > 1,
         NEW lower, lower = {t \in b : Cardinality({u \in b : u < t}) < Cardinality(b) \div 2}
  PROVE  lower # {} /\ b \ lower # {}
<1> DEFINE Below(t) == {u \in b : u < t}
<1>1. Cardinality(b) \in Nat /\ b # {}
  BY FS_CardinalityType, FS_EmptySet
<1>2. PICK least \in b : \A n \in b : least <= n
  BY <1>1, LeastElement
<1>3. Below(least) = {}
  <2>1. \A u \in b : u \in Nat /\ least \in Nat /\ least <= u
    BY <1>2
  <2>2. \A u \in b : ~(u < least)
    BY <2>1
  <2>3. QED
    BY <2>2
<1>4. PICK last \in b : \A n \in b : n <= last
  BY <1>1, GreatestElement
<1>5. Below(last) = b \ {last}
  <2>1. \A u \in b : u \in Nat /\ (u < last <=> u # last)
    BY <1>4
  <2>2. QED
    BY <2>1
<1>6. Cardinality(Below(least)) = 0 /\ Cardinality(Below(last)) = Cardinality(b) - 1
  <2> HIDE DEF Below
  <2> QED BY <1>3, <1>5, FS_EmptySet, FS_RemoveElement
<1>7. Cardinality(b) \div 2 > 0 /\ Cardinality(b) \div 2 <= Cardinality(b) - 1
  BY <1>1
<1>8. lower = {t \in b : Cardinality(Below(t)) < Cardinality(b) \div 2}
  OBVIOUS
<1>9. least \in lower /\ last \notin lower
  <2> HIDE DEF Below
  <2> QED BY <1>1, <1>6, <1>7, <1>8
<1>10. QED
  BY <1>9

-----------------------------------------------------------------------------
(* Stacks *)

\* The head of a stack, and what the rest of it holds.
LEMMA HeldTail ==
  ASSUME NEW S, NEW s \in Seq((SUBSET S) \ {{}}), s # <<>>, Apart(s)
  PROVE  /\ Tail(s) \in Seq((SUBSET S) \ {{}}) /\ Apart(Tail(s))
         /\ Held(s) = Head(s) \cup Held(Tail(s))
         /\ Head(s) \cap Held(Tail(s)) = {}
         /\ Head(s) \in (SUBSET S) \ {{}} /\ Held(s) \in SUBSET S
<1>1. /\ Tail(s) \in Seq((SUBSET S) \ {{}}) /\ Len(Tail(s)) = Len(s) - 1
      /\ \A i \in 1..Len(Tail(s)) : Tail(s)[i] = s[i + 1]
      /\ Head(s) \in (SUBSET S) \ {{}}
  BY HeadTailProperties
<1>2. Len(s) \in Nat /\ Len(s) >= 1 /\ Head(s) = s[1]
  BY EmptySeq
<1>3. \A i \in 1..Len(s) : i # 1 => i - 1 \in 1..Len(Tail(s)) /\ s[i] = Tail(s)[i - 1]
  BY <1>1, <1>2
<1>4. Apart(Tail(s))
  BY <1>1, <1>2 DEF Apart
<1>5. Held(s) = Head(s) \cup Held(Tail(s))
  <2>1. ASSUME NEW x \in Held(s) PROVE x \in Head(s) \cup Held(Tail(s))
    <3>1. PICK i \in 1..Len(s) : x \in s[i]
      BY DEF Held
    <3>2. CASE i = 1
      BY <3>1, <3>2, <1>2
    <3>3. CASE i # 1
      BY <3>1, <3>3, <1>3 DEF Held
    <3>4. QED
      BY <3>2, <3>3
  <2>2. Head(s) \subseteq Held(s)
    BY <1>2 DEF Held
  <2>3. ASSUME NEW x \in Held(Tail(s)) PROVE x \in Held(s)
    <3>1. PICK i \in 1..Len(Tail(s)) : x \in Tail(s)[i]
      BY DEF Held
    <3>2. i + 1 \in 1..Len(s) /\ x \in s[i + 1]
      BY <3>1, <1>1, <1>2
    <3>3. QED
      BY <3>2 DEF Held
  <2>4. QED
    BY <2>1, <2>2, <2>3
<1>6. Head(s) \cap Held(Tail(s)) = {}
  <2>1. ASSUME NEW x \in Head(s), x \in Held(Tail(s)) PROVE FALSE
    <3>1. PICK i \in 1..Len(Tail(s)) : x \in Tail(s)[i]
      BY <2>1 DEF Held
    <3>2. i + 1 \in 1..Len(s) /\ x \in s[i + 1] /\ x \in s[1] /\ i + 1 # 1 /\ 1 \in 1..Len(s)
      BY <3>1, <1>1, <1>2
    <3>3. QED
      BY <3>2 DEF Apart
  <2>2. QED
    BY <2>1
<1>7. Held(s) \in SUBSET S
  BY ElementOfSeq DEF Held
<1>8. QED
  BY <1>1, <1>4, <1>5, <1>6, <1>7

\* Two halves in the place of the head hold what it held.
LEMMA HeldHalved ==
  ASSUME NEW S, NEW s \in Seq((SUBSET S) \ {{}}), s # <<>>, Apart(s),
         NEW l, NEW r, l # {}, r # {}, l \cup r = Head(s), l \cap r = {}
  PROVE  /\ <<l, r>> \o Tail(s) \in Seq((SUBSET S) \ {{}})
         /\ Apart(<<l, r>> \o Tail(s))
         /\ Held(<<l, r>> \o Tail(s)) = Held(s)
<1> DEFINE h == <<l, r>> \o Tail(s)
<1>1. /\ Tail(s) \in Seq((SUBSET S) \ {{}}) /\ Apart(Tail(s))
      /\ Held(s) = Head(s) \cup Held(Tail(s))
      /\ Head(s) \cap Held(Tail(s)) = {} /\ Head(s) \in SUBSET S
  BY HeldTail
<1>2. <<l, r>> \in Seq((SUBSET S) \ {{}}) /\ Len(<<l, r>>) = 2 /\ <<l, r>>[1] = l /\ <<l, r>>[2] = r
  BY <1>1
<1>3. /\ h \in Seq((SUBSET S) \ {{}}) /\ Len(h) = 2 + Len(Tail(s)) /\ Len(Tail(s)) \in Nat
      /\ h[1] = l /\ h[2] = r
      /\ \A i \in 1..Len(h) : i > 2 => i - 2 \in 1..Len(Tail(s)) /\ h[i] = Tail(s)[i - 2]
      /\ \A i \in 1..Len(Tail(s)) : i + 2 \in 1..Len(h) /\ h[i + 2] = Tail(s)[i]
  <2>1. /\ h \in Seq((SUBSET S) \ {{}}) /\ Len(h) = 2 + Len(Tail(s))
        /\ \A i \in 1..2 + Len(Tail(s)) : h[i] = IF i <= 2 THEN <<l, r>>[i] ELSE Tail(s)[i - 2]
    BY <1>1, <1>2, ConcatProperties
  <2>2. Len(Tail(s)) \in Nat
    BY <1>1, LenProperties
  <2> HIDE DEF h
  <2>3. QED
    BY <2>1, <2>2, <1>2
<1> HIDE DEF h
<1>4. \A i \in 1..Len(Tail(s)) : Tail(s)[i] \subseteq Held(Tail(s))
  BY DEF Held
<1>5. Apart(h)
  <2>1. ASSUME NEW i \in 1..Len(h), NEW j \in 1..Len(h), i < j PROVE h[i] \cap h[j] = {}
    <3>1. CASE j = 2
      BY <2>1, <3>1, <1>3
    <3>2. CASE i <= 2 /\ j > 2
      <4>1. h[i] \subseteq Head(s)
        BY <3>2, <1>3
      <4>2. h[j] \subseteq Held(Tail(s))
        BY <3>2, <1>3, <1>4
      <4>3. QED
        BY <4>1, <4>2, <1>1
    <3>3. CASE i > 2
      <4>1. j > 2 /\ i - 2 # j - 2
        BY <3>3, <2>1, <1>3
      <4>2. /\ i - 2 \in 1..Len(Tail(s)) /\ h[i] = Tail(s)[i - 2]
            /\ j - 2 \in 1..Len(Tail(s)) /\ h[j] = Tail(s)[j - 2]
        BY <3>3, <4>1, <1>3
      <4>3. QED
        BY <4>1, <4>2, <1>1 DEF Apart
    <3>4. QED
      BY <2>1, <3>1, <3>2, <3>3, <1>3
  <2>2. \A i, j \in 1..Len(h) : i < j => h[i] \cap h[j] = {}
    BY <2>1
  <2>3. \A i, j \in 1..Len(h) : i # j => i < j \/ j < i
    BY <1>3
  <2>4. QED
    BY <2>2, <2>3 DEF Apart
<1>6. Held(h) = Held(s)
  <2>1. ASSUME NEW x \in Held(h) PROVE x \in Held(s)
    <3>1. PICK i \in 1..Len(h) : x \in h[i]
      BY DEF Held
    <3>2. CASE i <= 2
      BY <3>1, <3>2, <1>1, <1>3
    <3>3. CASE i > 2
      BY <3>1, <3>3, <1>1, <1>3, <1>4
    <3>4. QED
      BY <3>2, <3>3, <1>3
  <2>2. l \cup r \subseteq Held(h)
    <3>1. 1 \in 1..Len(h) /\ 2 \in 1..Len(h)
      BY <1>3
    <3>2. QED
      BY <3>1, <1>3 DEF Held
  <2>3. ASSUME NEW x \in Held(Tail(s)) PROVE x \in Held(h)
    <3>1. PICK i \in 1..Len(Tail(s)) : x \in Tail(s)[i]
      BY DEF Held
    <3>2. QED
      BY <3>1, <1>3 DEF Held
  <2>4. QED
    BY <2>1, <2>2, <2>3, <1>1
<1>7. QED
  BY <1>3, <1>5, <1>6 DEF h

\* An empty stack holds nothing, and one batch is all its stack holds.
LEMMA HeldShort ==
  /\ Held(<<>>) = {} /\ Apart(<<>>)
  /\ \A b : Held(<<b>>) = b /\ Apart(<<b>>)
<1>1. Held(<<>>) = {} /\ Apart(<<>>)
  BY DEF Held, Apart
<1>2. ASSUME NEW b PROVE Held(<<b>>) = b /\ Apart(<<b>>)
  <2>1. Len(<<b>>) = 1 /\ <<b>>[1] = b
    OBVIOUS
  <2>2. QED
    BY <2>1 DEF Held, Apart
<1>3. QED
  BY <1>1, <1>2
=============================================================================
