----------------------------- MODULE ContentProofs -----------------------------
(***************************************************************************)
(* For any parts, meanings, findings, topics, series, threads and budgets:   *)
(* what is published of the introduction and the briefing is what was        *)
(* reviewed, a correction changes only what its review found, a batch of the *)
(* introduction is read in sound parts, every claim of a topic is accounted  *)
(* for, and the coverage ledger agrees with the topics.                      *)
(***************************************************************************)
EXTENDS ValidatedCache, ReadingScope, ChunkReading, WorkPools, TopicClaims, CoverageDelta,
        IntroductionSelection, SummaryDrafting, BriefReview, SummaryReading, ExecutiveBriefing,
        BatchLemmas, FiniteSetTheorems, FunctionTheorems, SequenceTheorems, TLAPS

(* What is to be read is read, once, within its budget: pages are in the     *)
(* route or in one target, chunks and batches are asked for and merged once  *)
(* however they are cut, a decision counts only where it was asked for, and  *)
(* the failure that is raised is the one that came first.                    *)
ReadingAccounted ==
  /\ RouteFits /\ PagesReadOnce /\ CallsBounded
  /\ ProfileWhole /\ CutOffNotRepeated
  /\ BatchesAccounted /\ OwnBatchDecides /\ CauseRaised

(* What is published or kept was accepted in exactly this form: the selected *)
(* meanings, the introduction and the briefing.                              *)
PublishedAsReviewed == AcceptedAsReviewed /\ PublishedCopyAccepted /\ PublishedBriefReviewed

(* A correction changes only what its review found, and a finding is         *)
(* accepted only by both reviews.                                            *)
ReviewsBind == OnlyFoundMeaningsChange /\ AcceptedByBothReviews

(* The coverage ledger holds the decisions of exactly the additions the      *)
(* topics hold, and no synthesis, merge or resumption drops an observation   *)
(* that was accepted.                                                        *)
CoverageSettled == LedgerMatchesTopics /\ AcceptedObservationsKept

-----------------------------------------------------------------------------
(* The pages that are read *)

\* The least and the greatest of an interval are its ends.
LEMMA ExtremesOfRange ==
  ASSUME NEW a \in Int, NEW b \in Int, a <= b
  PROVE  Min(a..b) = a /\ Max(a..b) = b
<1>1. a \in a..b /\ \A y \in a..b : a <= y
  OBVIOUS
<1>2. b \in a..b /\ \A y \in a..b : y <= b
  OBVIOUS
<1>3. \A x \in a..b : (\A y \in a..b : x <= y) => x = a
  BY <1>1
<1>4. \A x \in a..b : (\A y \in a..b : x >= y) => x = b
  BY <1>2
<1>5. QED
  BY <1>1, <1>2, <1>3, <1>4 DEF Min, Max

\* The lesser of two numbers.
LEMMA MinOfTwo == ASSUME NEW a \in Int, NEW b \in Int PROVE Min({a, b}) = IF a <= b THEN a ELSE b
<1> DEFINE m == IF a <= b THEN a ELSE b
<1>1. m \in {a, b} /\ \A y \in {a, b} : m <= y
  OBVIOUS
<1>2. \A x \in {a, b} : (\A y \in {a, b} : x <= y) => x = m
  OBVIOUS
<1>3. QED
  BY <1>1, <1>2 DEF Min

\* Some of the first pages are finitely many.
LEMMA SomePages ==
  ASSUME NEW m \in Nat, NEW S \in SUBSET (1..m)
  PROVE  IsFiniteSet(S) /\ Cardinality(S) \in Nat
<1>1. IsFiniteSet(1..m)
  BY FS_Interval
<1>2. QED
  BY <1>1, FS_Subset, FS_CardinalityType

\* A range has its pages in the document.
LEMMA RangesAre ==
  ASSUME NEW r \in Ranges
  PROVE  /\ r[1] \in 1..LastPage /\ r[2] \in 1..LastPage /\ r[1] <= r[2]
         /\ PagesOf(r) \subseteq 1..LastPage /\ IsFiniteSet(PagesOf(r))
         /\ PagesOf(r) # {}
<1>1. r[1] \in 1..LastPage /\ r[2] \in 1..LastPage /\ r[1] <= r[2]
  BY DEF Ranges
<1>2. PagesOf(r) \subseteq 1..LastPage /\ r[1] \in PagesOf(r)
  BY <1>1, ScopeAssumption DEF PagesOf
<1>3. QED
  BY <1>1, <1>2, SomePages, ScopeAssumption

\* The pages a sequence of ranges covers are those of its ranges.
LEMMA CoveredAre ==
  ASSUME NEW s \in Seq(Ranges)
  PROVE  /\ covered_pages(s) \subseteq 1..LastPage
         /\ IsFiniteSet(covered_pages(s)) /\ Cardinality(covered_pages(s)) \in Nat
         /\ \A p : p \in covered_pages(s) <=> \E i \in 1..Len(s) : p \in PagesOf(s[i])
<1>1. \A r : r \in Range(s) <=> \E i \in 1..Len(s) : r = s[i]
  BY LenProperties DEF Range
<1>2. \A p : p \in covered_pages(s) <=> \E i \in 1..Len(s) : p \in PagesOf(s[i])
  BY <1>1 DEF covered_pages
<1>3. covered_pages(s) \subseteq 1..LastPage
  BY <1>2, RangesAre, ElementOfSeq
<1>4. QED
  BY <1>2, <1>3, SomePages, ScopeAssumption

\* Overlapping and adjacent given are read as one span each, and the spans are disjoint.
LEMMA SpansCover ==
  ASSUME NEW s \in Seq(Ranges)
  PROVE  UNION {PagesOf(r) : r \in Spans(s)} = covered_pages(s)
<1> DEFINE pages == covered_pages(s)
<1>1. pages \subseteq 1..LastPage /\ LastPage \in Nat
  BY CoveredAre, ScopeAssumption
<1> HIDE DEF pages
<1>2. ASSUME NEW p \in pages
      PROVE  \E r \in Ranges : p \in PagesOf(r) /\ PagesOf(r) \subseteq pages /\ r[1] - 1 \notin pages
          /\ r[2] + 1 \notin pages
  <2> DEFINE first == {x \in Nat : x >= 1 /\ x <= p /\ x..p \subseteq pages}
             after == {y \in Nat : p < y /\ y \notin pages}
  <2>1. p \in 1..LastPage
    BY <1>1
  <2>2. p \in first /\ first \subseteq Nat
    BY <2>1
  <2>3. PICK lo \in first : \A n \in first : lo <= n
    <3> HIDE DEF first
    <3> QED BY <2>2, LeastElement
  <2>4. LastPage + 1 \in after /\ after \subseteq Nat
    BY <1>1, <2>1
  <2>5. PICK y \in after : \A n \in after : y <= n
    <3> HIDE DEF after
    <3> QED BY <2>4, LeastElement
  <2>6. lo \in Nat /\ lo >= 1 /\ lo <= p /\ lo..p \subseteq pages
    BY <2>3
  <2>7. y \in Nat /\ p < y /\ y \notin pages
    BY <2>5
  <2>8. \A x \in p + 1..y - 1 : x \in pages
    BY <2>1, <2>5, <2>7
  <2>9. lo..y - 1 \subseteq pages
    <3>1. \A x \in lo..y - 1 : x \in lo..p \/ x \in p + 1..y - 1
      BY <2>1, <2>6, <2>7
    <3>2. QED
      BY <2>6, <2>8, <3>1
  <2>10. lo - 1 \notin pages
    <3>1. SUFFICES ASSUME lo - 1 \in pages PROVE FALSE
      OBVIOUS
    <3>2. lo - 1 \in Nat /\ lo - 1 >= 1 /\ lo - 1 <= p
      BY <1>1, <2>1, <2>6, <3>1
    <3>3. (lo - 1)..p \subseteq pages
      <4>1. \A x \in (lo - 1)..p : x = lo - 1 \/ x \in lo..p
        BY <2>1, <2>6
      <4>2. QED
        BY <2>6, <3>1, <4>1
    <3>4. lo - 1 \in first
      BY <3>2, <3>3
    <3>5. lo <= lo - 1
      BY <2>3, <3>4
    <3>6. QED
      BY <2>6, <3>5
  <2> HIDE DEF first, after
  <2> DEFINE r == <<lo, y - 1>>
  <2>11. y - 1 \in 1..LastPage
    <3>1. y - 1 \in pages
      <4>1. y - 1 \in lo..y - 1
        BY <2>1, <2>6, <2>7
      <4>2. QED
        BY <2>9, <4>1
    <3>2. QED
      BY <1>1, <3>1
  <2>12. r \in Ranges /\ r[1] = lo /\ r[2] = y - 1 /\ PagesOf(r) = lo..y - 1
    BY <1>1, <2>1, <2>6, <2>7, <2>11 DEF Ranges, PagesOf
  <2>13. p \in lo..y - 1 /\ (y - 1) + 1 = y
    BY <2>1, <2>6, <2>7
  <2> HIDE DEF r
  <2>14. QED
    BY <2>7, <2>9, <2>10, <2>12, <2>13
<1>3. \A r : r \in Spans(s) <=> r \in Ranges /\ PagesOf(r) \subseteq pages /\ r[1] - 1 \notin pages
          /\ r[2] + 1 \notin pages
  BY DEF Spans, pages
<1>4. \A p \in pages : \E r \in Spans(s) : p \in PagesOf(r)
  BY <1>2, <1>3
<1>5. \A r \in Spans(s) : PagesOf(r) \subseteq pages
  BY <1>3
<1>6. UNION {PagesOf(r) : r \in Spans(s)} = pages
  BY <1>4, <1>5
<1>7. QED
  BY <1>6 DEF pages

\* No page lies in two spans.
LEMMA SpansApart ==
  ASSUME NEW s, NEW a \in Spans(s), NEW b \in Spans(s), a # b
  PROVE  PagesOf(a) \cap PagesOf(b) = {}
<1>1. SUFFICES ASSUME NEW p \in PagesOf(a), p \in PagesOf(b) PROVE FALSE
  OBVIOUS
<1> DEFINE pages == covered_pages(s)
<1>2. /\ a \in Ranges /\ PagesOf(a) \subseteq pages /\ a[1] - 1 \notin pages /\ a[2] + 1 \notin pages
      /\ b \in Ranges /\ PagesOf(b) \subseteq pages /\ b[1] - 1 \notin pages /\ b[2] + 1 \notin pages
  BY DEF Spans
<1> HIDE DEF pages
<1>3. /\ a[1] \in Int /\ a[2] \in Int /\ b[1] \in Int /\ b[2] \in Int
      /\ PagesOf(a) = a[1]..a[2] /\ PagesOf(b) = b[1]..b[2]
      /\ a = <<a[1], a[2]>> /\ b = <<b[1], b[2]>>
  BY <1>2, ScopeAssumption DEF Ranges, PagesOf
<1>4. p \in Int /\ a[1] <= p /\ p <= a[2] /\ b[1] <= p /\ p <= b[2]
  BY <1>1, <1>3
<1>5. ~(a[1] < b[1])
  <2>1. a[1] < b[1] => b[1] - 1 \in a[1]..a[2]
    BY <1>3, <1>4
  <2>2. QED
    BY <1>2, <1>3, <2>1
<1>6. ~(b[1] < a[1])
  <2>1. b[1] < a[1] => a[1] - 1 \in b[1]..b[2]
    BY <1>3, <1>4
  <2>2. QED
    BY <1>2, <1>3, <2>1
<1>7. ~(a[2] < b[2])
  <2>1. a[2] < b[2] => a[2] + 1 \in b[1]..b[2]
    BY <1>3, <1>4
  <2>2. QED
    BY <1>2, <1>3, <2>1
<1>8. ~(b[2] < a[2])
  <2>1. b[2] < a[2] => b[2] + 1 \in a[1]..a[2]
    BY <1>3, <1>4
  <2>2. QED
    BY <1>2, <1>3, <2>1
<1>9. a[1] = b[1] /\ a[2] = b[2]
  BY <1>3, <1>5, <1>6, <1>7, <1>8
<1>10. a = b
  BY <1>3, <1>9
<1>11. QED
  BY <1>10

\* A clamped proposal is made of ranges of the document.
LEMMA ClampedTyped ==
  ASSUME NEW proposal \in RouteProposals, NEW s \in Clamped(proposal)
  PROVE  s \in Seq(Ranges)
<1> DEFINE cut  == [i \in DOMAIN proposal |-> <<proposal[i][1], Min({LastPage, proposal[i][2]})>>]
           left == {i \in DOMAIN cut : cut[i][1] <= cut[i][2]}
<1>1. proposal \in Seq((Nat \ {0}) \X Nat) /\ DOMAIN proposal = 1..Len(proposal) /\ Len(proposal) \in Nat
  BY ScopeAssumption, LenProperties
<1>2. PICK o \in [1..Cardinality(left) -> left] : s = [k \in DOMAIN o |-> cut[o[k]]]
  BY DEF Clamped
<1>3. \A i \in left : cut[i] \in Ranges
  <2>1. ASSUME NEW i \in left PROVE cut[i] \in Ranges
    <3>1. proposal[i] \in (Nat \ {0}) \X Nat
      BY <1>1, ElementOfSeq
    <3>2. proposal[i][1] \in Nat \ {0} /\ proposal[i][2] \in Nat
      BY <3>1
    <3>3. Min({LastPage, proposal[i][2]}) = IF LastPage <= proposal[i][2] THEN LastPage ELSE proposal[i][2]
      <4>1. LastPage \in Int /\ proposal[i][2] \in Int
        BY <3>2, ScopeAssumption
      <4> HIDE DEF cut, left
      <4>2. QED
        BY <4>1, MinOfTwo
    <3>4. cut[i] = <<proposal[i][1], Min({LastPage, proposal[i][2]})>> /\ cut[i][1] <= cut[i][2]
      OBVIOUS
    <3> DEFINE a == proposal[i][1]
               m == Min({LastPage, proposal[i][2]})
    <3>5. a \in Nat \ {0} /\ m \in Nat /\ m <= LastPage /\ a <= m /\ cut[i] = <<a, m>>
      BY <3>2, <3>3, <3>4, ScopeAssumption
    <3> HIDE DEF a, m, cut
    <3>6. a \in 1..LastPage /\ m \in 1..LastPage
      BY <3>5, ScopeAssumption
    <3>7. QED
      BY <3>5, <3>6 DEF Ranges
  <2>2. QED
    BY <2>1
<1>4. Cardinality(left) \in Nat
  <2>1. left \subseteq 1..Len(proposal)
    BY <1>1
  <2>2. QED
    BY <1>1, <2>1, SomePages
<1> HIDE DEF cut, left
<1>5. s \in [1..Cardinality(left) -> Ranges]
  BY <1>2, <1>3
<1>6. QED
  BY <1>4, <1>5

\* What is ranked is made of ranges of the document.
LEMMA RankingsTyped ==
  ASSUME output \in Seq(Ranges), NEW s \in Rankings
  PROVE  s \in Seq(Ranges)
<1> DEFINE Ranked(t) == [i \in DOMAIN t |-> output[t[i]]]
           orders == {t \in UNION {[1..n -> DOMAIN output] : n \in 1..Len(output)} : IsInjective(t)}
           Within(t) == {x \in (DOMAIN t) \X Ranges : PagesOf(x[2]) \subseteq PagesOf(Ranked(t)[x[1]])}
<1>1. PICK t \in orders : s \in {[Ranked(t) EXCEPT ![x[1]] = x[2]] : x \in Within(t)}
  BY DEF Rankings
<1>2. PICK n \in 1..Len(output) : t \in [1..n -> DOMAIN output]
  BY <1>1
<1>3. PICK x \in Within(t) : s = [Ranked(t) EXCEPT ![x[1]] = x[2]]
  BY <1>1
<1>4. x[2] \in Ranges
  BY <1>3
<1>5. \A i \in DOMAIN output : output[i] \in Ranges
  BY ElementOfSeq, LenProperties
<1>6. Ranked(t) \in [1..n -> Ranges]
  BY <1>2, <1>5
<1>7. s \in [1..n -> Ranges]
  <2> HIDE DEF Ranked, Within
  <2> QED BY <1>3, <1>4, <1>6
<1>8. n \in Nat
  BY LenProperties
<1>9. QED
  BY <1>7, <1>8

-----------------------------------------------------------------------------
\* Induction, for a set of numbers.
LEMMA Upwards ==
  ASSUME NEW m \in Nat, NEW T, 0 \in T, \A n \in 0..m : n + 1 \in 0..m /\ n \in T => n + 1 \in T
  PROVE  0..m \subseteq T
<1>1. SUFFICES ASSUME NEW x \in 0..m, x \notin T PROVE FALSE
  OBVIOUS
<1> DEFINE out == {n \in 0..m : n \notin T}
<1>2. out \in SUBSET Nat /\ x \in out
  BY <1>1
<1>3. PICK least \in out : \A n \in out : least <= n
  <2> HIDE DEF out
  <2> QED BY <1>2, LeastElement
<1>4. least \in 0..m /\ least # 0
  BY <1>3
<1>5. least - 1 \in 0..m /\ (least - 1) + 1 = least
  BY <1>4
<1>6. least - 1 \in T
  <2>1. CASE least - 1 \in out
    <3>1. least <= least - 1
      BY <1>3, <2>1
    <3>2. QED
      BY <1>4, <3>1
  <2>2. QED
    BY <1>5, <2>1
<1>7. QED
  BY <1>3, <1>4, <1>5, <1>6

\* What is rest of the first n given exists, and is what its definition says.
LEMMA FirstFitIs ==
  ASSUME NEW given \in Seq(Ranges)
  PROVE  /\ FirstFit(given)[0] = <<>>
         /\ \A n \in 1..Len(given) : FirstFit(given)[n] = Added(FirstFit(given)[n - 1], given[n])
<1> DEFINE m == Len(given)
           Fits(f, k) == /\ DOMAIN f = 0..k /\ f[0] = <<>>
                         /\ \A n \in 1..k : f[n] = Added(f[n - 1], given[n])
           T == {k \in 0..m : \E f : Fits(f, k)}
<1>1. m \in Nat
  BY LenProperties
<1>2. 0 \in T
  <2>1. \E f : Fits(f, 0)
    <3>1. Fits([n \in 0..0 |-> <<>>], 0)
      OBVIOUS
    <3> HIDE DEF Fits
    <3>2. QED
      BY <3>1
  <2> HIDE DEF Fits
  <2>2. QED
    BY <1>1, <2>1
<1>3. ASSUME NEW k \in 0..m, k + 1 \in 0..m, k \in T PROVE k + 1 \in T
  <2>1. PICK f : Fits(f, k)
    BY <1>3
  <2> DEFINE g == [n \in 0..k + 1 |-> IF n <= k THEN f[n] ELSE Added(f[k], given[k + 1])]
  <2>2. k \in Nat
    BY <1>1
  <2>3. DOMAIN g = 0..k + 1 /\ g[0] = <<>>
    BY <2>1, <2>2
  <2>4. ASSUME NEW n \in 1..k + 1 PROVE g[n] = Added(g[n - 1], given[n])
    <3>1. n - 1 \in 0..k /\ n \in 0..k + 1 /\ n - 1 \in 0..k + 1 /\ n - 1 <= k
      BY <2>2
    <3>2. g[n - 1] = f[n - 1]
      BY <3>1
    <3>3. CASE n <= k
      <4>1. n \in 1..k /\ g[n] = f[n]
        BY <2>2, <3>1, <3>3
      <4>2. QED
        BY <2>1, <3>2, <4>1
    <3>4. CASE n = k + 1
      <4>1. g[n] = Added(f[k], given[n]) /\ n - 1 = k
        BY <2>2, <3>1, <3>4
      <4>2. QED
        BY <3>2, <4>1
    <3>5. QED
      BY <2>2, <3>3, <3>4
  <2> HIDE DEF g
  <2>5. Fits(g, k + 1)
    BY <2>3, <2>4
  <2>6. QED
    BY <1>3, <2>5
<1>4. m \in T
  <2> HIDE DEF T
  <2>1. 0..m \subseteq T
    BY <1>1, <1>2, <1>3, Upwards
  <2>2. QED
    BY <1>1, <2>1
<1>5. PICK f : Fits(f, m)
  BY <1>4
<1> DEFINE Recurs(h) == h = [n \in 0..Len(given) |-> IF n = 0 THEN <<>> ELSE Added(h[n - 1], given[n])]
<1> DEFINE g == [n \in 0..m |-> f[n]]
<1>6. Recurs(g)
  <2>1. ASSUME NEW n \in 0..m PROVE g[n] = IF n = 0 THEN <<>> ELSE Added(g[n - 1], given[n])
    <3>1. CASE n = 0
      BY <1>5, <3>1
    <3>2. CASE n # 0
      <4>1. n \in 1..m /\ n - 1 \in 0..m
        BY <1>1, <3>2
      <4>2. QED
        BY <1>5, <3>2, <4>1
    <3>3. QED
      BY <3>1, <3>2
  <2>2. QED
    BY <2>1
<1>7. FirstFit(given) = CHOOSE h : Recurs(h)
  BY DEF FirstFit
<1> HIDE DEF Recurs, g
<1>8. Recurs(FirstFit(given))
  BY <1>6, <1>7
<1> DEFINE h == FirstFit(given)
<1> HIDE DEF h
<1>9. h = [n \in 0..m |-> IF n = 0 THEN <<>> ELSE Added(h[n - 1], given[n])]
  BY <1>8 DEF Recurs, h
<1>10. h[0] = <<>> /\ \A n \in 1..m : h[n] = Added(h[n - 1], given[n])
  <2>1. 0 \in 0..m /\ \A n \in 1..m : n \in 0..m /\ n # 0
    BY <1>1
  <2>2. QED
    BY <1>9, <2>1
<1>11. QED
  BY <1>10 DEF h

\* Members of a sequence.
In(i, s) == \E n \in 1..Len(s) : s[n] = i

\* A range is added when the budget still holds it, and is left out only then.
LEMMA AddedIs ==
  ASSUME NEW rest \in Seq(Ranges), NEW r \in Ranges, NEW new, new = Added(rest, r),
         Cardinality(covered_pages(rest)) <= PageBudget
  PROVE  /\ new \in Seq(Ranges)
         /\ Cardinality(covered_pages(new)) <= PageBudget
         /\ \A x : In(x, rest) => In(x, new)
         /\ \A x : In(x, new) => In(x, rest) \/ x = r
         /\ In(r, new) \/ Cardinality(covered_pages(rest) \cup PagesOf(r)) > PageBudget
<1> DEFINE more == Cardinality(covered_pages(rest) \cup PagesOf(r))
<1>1. more \in Nat
  BY CoveredAre, RangesAre, SomePages, ScopeAssumption
<1>2. CASE more <= PageBudget
  <2>1. new = Append(rest, r)
    BY <1>2 DEF Added
  <2> DEFINE s == Append(rest, r)
  <2>2. /\ s \in Seq(Ranges) /\ Len(s) = Len(rest) + 1 /\ Len(rest) \in Nat
        /\ \A i \in 1..Len(rest) : s[i] = rest[i]
        /\ s[Len(rest) + 1] = r
    BY AppendProperties, LenProperties
  <2> HIDE DEF s
  <2>3. /\ \A i \in 1..Len(s) : i \in 1..Len(rest) \/ i = Len(rest) + 1
        /\ Len(rest) + 1 \in 1..Len(s) /\ \A i \in 1..Len(rest) : i \in 1..Len(s)
    BY <2>2
  <2>4. covered_pages(s) = covered_pages(rest) \cup PagesOf(r)
    <3>1. \A p : p \in covered_pages(s) <=> \E i \in 1..Len(s) : p \in PagesOf(s[i])
      BY <2>2, CoveredAre
    <3>2. \A p : p \in covered_pages(rest) <=> \E i \in 1..Len(rest) : p \in PagesOf(rest[i])
      BY CoveredAre
    <3>3. QED
      BY <2>2, <2>3, <3>1, <3>2
  <2>5. \A x : In(x, s) <=> In(x, rest) \/ x = r
    BY <2>2, <2>3 DEF In
  <2>6. QED
    BY <1>2, <2>1, <2>2, <2>4, <2>5 DEF s
<1>3. CASE ~(more <= PageBudget)
  <2>1. new = rest
    BY <1>3 DEF Added
  <2>2. more > PageBudget
    BY <1>1, <1>3, ScopeAssumption
  <2>3. QED
    BY <2>1, <2>2
<1>4. QED
  BY <1>2, <1>3

\* The first fit is within the budget, and a range it leaves out would exceed it.
LEMMA FirstFitHolds ==
  ASSUME NEW given \in Seq(Ranges)
  PROVE  LET rest == FirstFit(given)[Len(given)]
         IN /\ rest \in Seq(Ranges)
            /\ Cardinality(covered_pages(rest)) <= PageBudget
            /\ \A i \in 1..Len(given) : ~In(given[i], rest) =>
                 Cardinality(PagesOf(given[i]) \cup
                   UNION {PagesOf(given[j]) : j \in {k \in 1..(i - 1) : In(given[k], rest)}}) > PageBudget
<1> DEFINE h == FirstFit(given)
           m == Len(given)
           rest == h[m]
<1>1. m \in Nat /\ \A n \in 1..m : given[n] \in Ranges
  BY LenProperties, ElementOfSeq
<1>2. h[0] = <<>> /\ \A n \in 1..m : h[n] = Added(h[n - 1], given[n])
  BY FirstFitIs
<1> HIDE DEF h
<1> DEFINE Good(n) == /\ h[n] \in Seq(Ranges) /\ Cardinality(covered_pages(h[n])) <= PageBudget
                      /\ \A x : In(x, h[n]) => \E j \in 1..n : x = given[j]
           T == {n \in 0..m : Good(n)}
<1>3. 0 \in T
  <2>1. h[0] \in Seq(Ranges) /\ Len(h[0]) = 0
    BY <1>2
  <2>2. covered_pages(h[0]) = {}
    BY <2>1, CoveredAre
  <2>3. Cardinality(covered_pages(h[0])) = 0
    BY <2>2, FS_EmptySet
  <2>4. \A x : ~In(x, h[0])
    BY <2>1 DEF In
  <2>5. Good(0)
    BY <2>1, <2>3, <2>4, ScopeAssumption
  <2> HIDE DEF Good
  <2>6. QED
    BY <1>1, <2>5
<1>4. ASSUME NEW n \in 0..m, n + 1 \in 0..m, n \in T PROVE n + 1 \in T
  <2>1. n + 1 \in 1..m /\ (n + 1) - 1 = n /\ n \in Nat
    BY <1>1, <1>4
  <2>2. Good(n)
    BY <1>4
  <2>3. h[n + 1] = Added(h[n], given[n + 1]) /\ given[n + 1] \in Ranges
    BY <1>1, <1>2, <2>1
  <2>4. /\ h[n + 1] \in Seq(Ranges) /\ Cardinality(covered_pages(h[n + 1])) <= PageBudget
        /\ \A x : In(x, h[n + 1]) => In(x, h[n]) \/ x = given[n + 1]
    <3> HIDE DEF Good, T, rest
    <3>1. h[n] \in Seq(Ranges) /\ Cardinality(covered_pages(h[n])) <= PageBudget
      BY <2>2 DEF Good
    <3> DEFINE old == h[n]
               new == h[n + 1]
               r == given[n + 1]
    <3>2. old \in Seq(Ranges) /\ r \in Ranges /\ new = Added(old, r)
              /\ Cardinality(covered_pages(old)) <= PageBudget
      BY <2>3, <3>1
    <3> HIDE DEF old, new, r
    <3>3. /\ new \in Seq(Ranges) /\ Cardinality(covered_pages(new)) <= PageBudget
          /\ \A x : In(x, new) => In(x, old) \/ x = r
      BY <3>2, AddedIs
    <3>4. QED
      BY <3>3 DEF old, new, r
  <2>5. \A x : In(x, h[n + 1]) => \E j \in 1..n + 1 : x = given[j]
    <3>1. n + 1 \in 1..n + 1 /\ \A j \in 1..n : j \in 1..n + 1
      BY <2>1
    <3>2. QED
      BY <2>2, <2>4, <3>1
  <2>6. Good(n + 1)
    BY <2>4, <2>5
  <2> HIDE DEF Good
  <2>7. QED
    BY <1>4, <2>6
<1>5. \A n \in 0..m : Good(n)
  <2>1. 0..m \subseteq T
    <3> HIDE DEF T
    <3> QED BY <1>1, <1>3, <1>4, Upwards
  <2> HIDE DEF Good
  <2>2. QED
    BY <2>1
<1>6. ASSUME NEW n \in 1..m
      PROVE  /\ \A x : In(x, h[n - 1]) => In(x, h[n])
             /\ In(given[n], h[n]) \/ Cardinality(covered_pages(h[n - 1]) \cup PagesOf(given[n])) > PageBudget
  <2>1. n - 1 \in 0..m
    BY <1>1
  <2>2. h[n - 1] \in Seq(Ranges) /\ Cardinality(covered_pages(h[n - 1])) <= PageBudget
    BY <1>5, <2>1
  <2>3. h[n] = Added(h[n - 1], given[n]) /\ given[n] \in Ranges
    BY <1>1, <1>2
  <2> HIDE DEF Good, T, rest
  <2>4. QED
    BY <2>2, <2>3, AddedIs
<1> HIDE DEF Good
<1>7. ASSUME NEW n \in 0..m, NEW x, In(x, h[n]) PROVE In(x, rest)
  <2> DEFINE U == {k \in 0..m : k >= n => In(x, h[k])}
  <2>1. 0 \in U
    BY <1>1, <1>7
  <2>2. ASSUME NEW k \in 0..m, k + 1 \in 0..m, k \in U PROVE k + 1 \in U
    <3>1. k + 1 \in 1..m /\ (k + 1) - 1 = k
      BY <1>1, <2>2
    <3>2. In(x, h[k]) => In(x, h[k + 1])
      BY <1>6, <3>1
    <3>3. k + 1 >= n => k >= n \/ k + 1 = n
      BY <1>1
    <3>4. QED
      BY <1>7, <2>2, <3>2, <3>3
  <2>3. 0..m \subseteq U
    <3> HIDE DEF U
    <3> QED BY <1>1, <2>1, <2>2, Upwards
  <2>4. m \in 0..m /\ m >= n
    BY <1>1
  <2>5. QED
    BY <2>3, <2>4
<1>8. rest \in Seq(Ranges) /\ Cardinality(covered_pages(rest)) <= PageBudget
  BY <1>1, <1>5 DEF Good
<1>9. ASSUME NEW i \in 1..m, ~In(given[i], rest)
      PROVE  Cardinality(PagesOf(given[i]) \cup
               UNION {PagesOf(given[j]) : j \in {k \in 1..(i - 1) : In(given[k], rest)}}) > PageBudget
  <2> DEFINE before == UNION {PagesOf(given[j]) : j \in {k \in 1..(i - 1) : In(given[k], rest)}}
             all == PagesOf(given[i]) \cup before
             some == covered_pages(h[i - 1]) \cup PagesOf(given[i])
  <2>1. i \in 0..m /\ i - 1 \in 0..m /\ \A j \in 1..(i - 1) : j \in 1..m
    BY <1>1
  <2>2. ~In(given[i], h[i])
    BY <1>7, <1>9, <2>1
  <2>3. Cardinality(some) > PageBudget
    BY <1>6, <2>2
  <2>4. h[i - 1] \in Seq(Ranges) /\ \A x : In(x, h[i - 1]) => \E j \in 1..(i - 1) : x = given[j]
    BY <1>5, <2>1 DEF Good
  <2>5. covered_pages(h[i - 1]) \subseteq before
    <3>1. ASSUME NEW p \in covered_pages(h[i - 1]) PROVE p \in before
      <4>1. PICK l \in 1..Len(h[i - 1]) : p \in PagesOf(h[i - 1][l])
        BY <2>4, CoveredAre
      <4>2. In(h[i - 1][l], h[i - 1])
        BY DEF In
      <4>3. PICK j \in 1..(i - 1) : h[i - 1][l] = given[j]
        BY <2>4, <4>2
      <4>4. In(given[j], rest)
        BY <1>7, <2>1, <4>2, <4>3
      <4>5. j \in {k \in 1..(i - 1) : In(given[k], rest)} /\ p \in PagesOf(given[j])
        BY <4>1, <4>3, <4>4
      <4>6. QED
        BY <4>5
    <3>2. QED
      BY <3>1
  <2>6. all \subseteq 1..LastPage
    <3>1. \A n \in 1..m : PagesOf(given[n]) \subseteq 1..LastPage
      BY <1>1, RangesAre
    <3>2. before \subseteq 1..LastPage
      BY <2>1, <3>1
    <3>3. QED
      BY <3>1, <3>2
  <2>7. some \subseteq all
    BY <2>5
  <2> HIDE DEF all, some, before
  <2>8. IsFiniteSet(all) /\ Cardinality(all) \in Nat /\ Cardinality(some) <= Cardinality(all)
            /\ Cardinality(some) \in Nat
    BY <2>6, <2>7, SomePages, FS_Subset, FS_CardinalityType, ScopeAssumption
  <2>9. Cardinality(all) > PageBudget
    BY <2>3, <2>8, ScopeAssumption
  <2>10. QED
    BY <2>9 DEF all, before
<1>10. QED
  BY <1>8, <1>9 DEF h

\* A fitted route is within the budget, and what it leaves out would exceed it.
LEMMA FitHolds ==
  ASSUME NEW given \in Seq(Ranges), NEW s \in Fit(given)
  PROVE  /\ s \in Seq(Ranges)
         /\ Cardinality(covered_pages(s)) <= PageBudget
         /\ \A i \in 1..Len(given) : given[i] \notin Range(s) =>
              Cardinality(PagesOf(given[i]) \cup
                UNION {PagesOf(given[j]) : j \in {k \in 1..(i - 1) : given[k] \in Range(s)}}) > PageBudget
<1> DEFINE rest == FirstFit(given)[Len(given)]
<1>1. /\ rest \in Seq(Ranges)
      /\ Cardinality(covered_pages(rest)) <= PageBudget
      /\ \A i \in 1..Len(given) : ~In(given[i], rest) =>
           Cardinality(PagesOf(given[i]) \cup
             UNION {PagesOf(given[j]) : j \in {k \in 1..(i - 1) : In(given[k], rest)}}) > PageBudget
  BY FirstFitHolds
<1>2. PICK p \in Bijection(DOMAIN rest, DOMAIN rest) : s = [i \in DOMAIN rest |-> rest[p[i]]]
  BY DEF Fit
<1> HIDE DEF rest
<1>3. DOMAIN rest = 1..Len(rest) /\ Len(rest) \in Nat
  BY <1>1, LenProperties
<1>4. p \in [1..Len(rest) -> 1..Len(rest)] /\ \A y \in 1..Len(rest) : \E x \in 1..Len(rest) : p[x] = y
  <2>1. p \in Bijection(1..Len(rest), 1..Len(rest))
    BY <1>2, <1>3
  <2>2. QED
    BY <2>1 DEF Bijection, Injection, Surjection
<1>5. \A i \in 1..Len(rest) : rest[i] \in Ranges
  BY <1>1, ElementOfSeq
<1>6. s \in [1..Len(rest) -> Ranges] /\ \A i \in 1..Len(rest) : s[i] = rest[p[i]]
  BY <1>2, <1>3, <1>4, <1>5
<1>7. s \in Seq(Ranges) /\ Len(s) = Len(rest)
  BY <1>3, <1>6
<1>8. \A x : x \in Range(s) <=> In(x, rest)
  <2>1. DOMAIN s = 1..Len(rest)
    BY <1>6
  <2>2. ASSUME NEW x, In(x, rest) PROVE x \in Range(s)
    <3>1. PICK n \in 1..Len(rest) : rest[n] = x
      BY <2>2 DEF In
    <3>2. PICK i \in 1..Len(rest) : p[i] = n
      BY <1>4
    <3>3. QED
      BY <1>6, <2>1, <3>1, <3>2 DEF Range
  <2>3. ASSUME NEW x, x \in Range(s) PROVE In(x, rest)
    <3>1. PICK i \in 1..Len(rest) : s[i] = x
      BY <2>1, <2>3 DEF Range
    <3>2. QED
      BY <1>4, <1>6, <3>1 DEF In
  <2>4. QED
    BY <2>2, <2>3
<1>9. Range(rest) = Range(s)
  <2>1. \A x : x \in Range(rest) <=> In(x, rest)
    BY <1>3 DEF Range, In
  <2>2. QED
    BY <1>8, <2>1
<1>10. covered_pages(s) = covered_pages(rest)
  BY <1>9 DEF covered_pages
<1>11. QED
  BY <1>1, <1>7, <1>8, <1>10

\* The ledger of checks.
CheckStatuses == {"unchecked", "checked_found", "checked_not_found", "failed", "incomplete"}
CheckRecords == [pages : {PagesOf(r) : r \in Ranges}, status : CheckStatuses]

\* What the variables hold.
ScopeTypes ==
  /\ scopePc \in {"route", "narrow", "scope", "refused", "target", "request", "read"}
  /\ output \in Seq(Ranges) /\ ranked \in Seq(Ranges) /\ targets \in Seq(Targets)
      /\ checks \in Seq(CheckRecords)
  /\ unread \in SUBSET (1..Len(checks)) /\ attempt \in {0, 1} /\ formatUsed \in BOOLEAN
  /\ scopeCalls \in Nat /\ maxScopeCalls \in Nat /\ retries \in Nat

\* Until the scope is settled, nothing was asked for beyond the route.
EarlyInv ==
  scopePc \in {"route", "narrow", "scope", "refused"} =>
    /\ scopeCalls = 0 /\ maxScopeCalls = 1 + 3 * MaxChecks /\ targets = <<>> /\ checks = <<>>
    /\ scopePc \in {"route", "narrow"} => ranked = <<>>

\* Only a check that is being read has used an attempt.
AttemptInv ==
  /\ scopePc # "request" => unread = {} /\ attempt = 0
  /\ scopePc = "request" => unread # {}
  /\ attempt = 0 => ~formatUsed

\* The one repair of a format counts as a call.
FormatCalls == IF formatUsed THEN 1 ELSE 0

\* The calls that were made and those that may follow are within the limit.
CallsInv == scopeCalls + 3 * Len(targets) + 3 * Cardinality(unread) - attempt - FormatCalls <= maxScopeCalls

\* No page is read by two checks.
ChecksApart == \A i, j \in 1..Len(checks) : i # j => checks[i].pages \cap checks[j].pages = {}

\* The inductive invariant.
ScopeInv == ScopeTypes /\ EarlyInv /\ AttemptInv /\ CallsInv /\ ChecksApart /\ RouteFits

\* The least of some numbers is one of them.
LEMMA LeastIn == ASSUME NEW S \in SUBSET Nat, S # {} PROVE Min(S) \in S
<1>1. \E m \in S : \A n \in S : m <= n
  BY LeastElement
<1>2. QED
  BY <1>1 DEF Min

\* The checks to be read are finitely many, and one fewer without the first of them.
LEMMA UnreadIs ==
  ASSUME ScopeInv
  PROVE  /\ IsFiniteSet(unread) /\ Cardinality(unread) \in Nat /\ Len(checks) \in Nat /\ Len(targets) \in Nat
         /\ unread # {} => Min(unread) \in unread /\ Min(unread) \in 1..Len(checks)
                           /\ Cardinality(unread \ {Min(unread)}) = Cardinality(unread) - 1
<1>1. /\ unread \in SUBSET (1..Len(checks)) /\ checks \in Seq(CheckRecords) /\ targets \in Seq(Targets)
  BY DEF ScopeInv, ScopeTypes
<1>2. Len(checks) \in Nat /\ Len(targets) \in Nat
  BY <1>1, LenProperties
<1>3. IsFiniteSet(unread) /\ Cardinality(unread) \in Nat
  BY <1>1, <1>2, SomePages
<1>4. unread # {} => Min(unread) \in unread
  BY <1>1, <1>2, LeastIn
<1>5. unread # {} => Cardinality(unread \ {Min(unread)}) = Cardinality(unread) - 1
  BY <1>3, <1>4, FS_RemoveElement
<1>6. QED
  BY <1>1, <1>2, <1>3, <1>4, <1>5

\* The first state satisfies the invariant.
LEMMA ScopeStart == ScopeInit => ScopeInv
<1> SUFFICES ASSUME ScopeInit PROVE ScopeInv
  OBVIOUS
<1>1. \A S : <<>> \in Seq(S) /\ Len(<<>>) = 0
  OBVIOUS
<1>2. /\ scopePc = "route" /\ output = <<>> /\ ranked = <<>> /\ targets = <<>> /\ checks = <<>>
      /\ unread = {} /\ attempt = 0 /\ formatUsed = FALSE /\ scopeCalls = 0
          /\ maxScopeCalls = 1 + 3 * MaxChecks /\ retries = 0
  BY DEF ScopeInit
<1>3. ScopeTypes
  <2>1. output \in Seq(Ranges) /\ ranked \in Seq(Ranges)
    BY <1>1, <1>2
  <2>2. targets \in Seq(Targets) /\ checks \in Seq(CheckRecords)
    BY <1>1, <1>2
  <2>3. scopeCalls \in Nat /\ maxScopeCalls \in Nat
    BY <1>2, ScopeAssumption
  <2>4. QED
    BY <1>2, <2>1, <2>2, <2>3 DEF ScopeTypes
<1>4. EarlyInv /\ AttemptInv /\ RouteFits
  BY <1>2 DEF EarlyInv, AttemptInv, RouteFits
<1>5. CallsInv
  <2>1. Cardinality(unread) = 0 /\ Len(targets) = 0 /\ FormatCalls = 0
    BY <1>1, <1>2, FS_EmptySet DEF FormatCalls
  <2>2. QED
    BY <1>2, <2>1, ScopeAssumption DEF CallsInv
<1>6. ChecksApart
  <2>1. Len(checks) = 0
    BY <1>1, <1>2
  <2>2. QED
    BY <2>1 DEF ChecksApart
<1>7. QED
  BY <1>3, <1>4, <1>5, <1>6 DEF ScopeInv

\* Steps that touch neither the checks nor what they may ask.
LEMMA ReadingKeeps ==
  ASSUME ScopeInv, UNCHANGED <<checks, unread, attempt, formatUsed>>,
         scopePc # "request", scopePc' # "request"
  PROVE  AttemptInv' /\ ChecksApart' /\ Cardinality(unread) = 0 /\ FormatCalls = 0 /\ FormatCalls' = 0
      /\ attempt = 0
<1>1. unread = {} /\ attempt = 0 /\ ~formatUsed
  BY DEF ScopeInv, AttemptInv
<1>2. AttemptInv'
  BY <1>1 DEF ScopeInv, AttemptInv
<1>3. ChecksApart'
  BY DEF ScopeInv, ChecksApart
<1>4. QED
  BY <1>1, <1>2, <1>3, FS_EmptySet DEF FormatCalls

\* A proposed route keeps the invariant.
LEMMA RouteKeeps == ASSUME ScopeInv, Route PROVE ScopeInv'
<1>1. PICK proposal \in RouteProposals :
        /\ output' \in Clamped(proposal)
        /\ scopePc' = IF output' = <<>> THEN "refused"
                ELSE IF Cardinality(covered_pages(output')) > PageBudget THEN "narrow" ELSE "scope"
  BY DEF Route
<1>2. scopePc = "route" /\ UNCHANGED <<ranked, tries, targets, checks, unread, attempt, formatUsed,
          scopeCalls, maxScopeCalls, retries>>
  BY DEF Route
<1>3. output' \in Seq(Ranges)
  BY <1>1, ClampedTyped
<1>4. scopePc' \in {"refused", "narrow", "scope"}
  BY <1>1
<1>5. ScopeTypes'
  BY <1>2, <1>3, <1>4 DEF ScopeInv, ScopeTypes
<1>6. EarlyInv'
  BY <1>2, <1>4 DEF ScopeInv, EarlyInv
<1>7. AttemptInv' /\ ChecksApart'
  BY <1>2, <1>4, ReadingKeeps
<1>8. CallsInv'
  BY <1>2 DEF ScopeInv, CallsInv, FormatCalls
<1>9. RouteFits'
  <2>1. SUFFICES ASSUME scopePc' = "scope" PROVE RouteFits'
    BY DEF RouteFits
  <2>2. Cardinality(covered_pages(output')) \in Nat
    BY <1>3, CoveredAre
  <2>3. ~(Cardinality(covered_pages(output')) > PageBudget)
    BY <1>1, <2>1
  <2>4. Cardinality(covered_pages(output')) <= PageBudget
    BY <2>2, <2>3, ScopeAssumption
  <2>5. ranked' = <<>> /\ DOMAIN <<>> = {}
    BY <1>2 DEF ScopeInv, EarlyInv
  <2>6. SelectedPages' = covered_pages(output')
    BY DEF SelectedPages, covered_pages, PagesOf
  <2>7. QED
    BY <2>4, <2>5, <2>6 DEF RouteFits
<1>10. QED
  BY <1>5, <1>6, <1>7, <1>8, <1>9 DEF ScopeInv

\* So does a route that is ranked and fitted.
LEMMA NarrowKeeps == ASSUME ScopeInv, Narrow PROVE ScopeInv'
<1>1. scopePc = "narrow" /\ UNCHANGED <<targets, checks, unread, attempt, formatUsed, scopeCalls,
          maxScopeCalls, retries>>
  BY DEF Narrow
<1>2. CASE ranked' \in Rankings /\ output' \in Fit(ranked') /\ scopePc' = "scope"
  <2>1. output \in Seq(Ranges)
    BY DEF ScopeInv, ScopeTypes
  <2>2. ranked' \in Seq(Ranges)
    BY <1>2, <2>1, RankingsTyped
  <2>3. /\ output' \in Seq(Ranges) /\ Cardinality(covered_pages(output')) <= PageBudget
        /\ \A i \in 1..Len(ranked') : ranked'[i] \notin Range(output') =>
             Cardinality(PagesOf(ranked'[i]) \cup
               UNION {PagesOf(ranked'[j]) : j \in {k \in 1..(i - 1) : ranked'[k] \in Range(output')}})
                   > PageBudget
    BY <1>2, <2>2, FitHolds
  <2>4. ScopeTypes'
    BY <1>1, <1>2, <2>2, <2>3 DEF ScopeInv, ScopeTypes
  <2>5. EarlyInv'
    BY <1>1, <1>2 DEF ScopeInv, EarlyInv
  <2>6. AttemptInv' /\ ChecksApart'
    BY <1>1, <1>2, ReadingKeeps
  <2>7. CallsInv'
    BY <1>1 DEF ScopeInv, CallsInv, FormatCalls
  <2>8. RouteFits'
    <3>1. DOMAIN ranked' = 1..Len(ranked')
      BY <2>2, LenProperties
    <3>2. SelectedPages' = covered_pages(output')
      BY DEF SelectedPages, covered_pages, PagesOf
    <3>3. \A r : PagesOf(r)' = PagesOf(r)
      OBVIOUS
    <3>4. QED
      BY <2>3, <3>1, <3>2 DEF RouteFits
  <2>9. QED
    BY <2>4, <2>5, <2>6, <2>7, <2>8 DEF ScopeInv
<1>3. CASE scopePc' \in {"refused", "narrow"} /\ UNCHANGED <<output, ranked>>
  <2>1. ScopeTypes'
    BY <1>1, <1>3 DEF ScopeInv, ScopeTypes
  <2>2. EarlyInv'
    BY <1>1, <1>3 DEF ScopeInv, EarlyInv
  <2>3. AttemptInv' /\ ChecksApart'
    BY <1>1, <1>3, ReadingKeeps
  <2>4. CallsInv'
    BY <1>1 DEF ScopeInv, CallsInv, FormatCalls
  <2>5. RouteFits'
    BY <1>3 DEF RouteFits
  <2>6. QED
    BY <2>1, <2>2, <2>3, <2>4, <2>5 DEF ScopeInv
<1>4. QED
  BY <1>2, <1>3 DEF Narrow

\* So does the end of the scope without further targets.
LEMMA NoTargetsKeeps == ASSUME ScopeInv, NoTargets PROVE ScopeInv'
<1>1. /\ scopePc = "scope" /\ scopePc' = "read" /\ ranked' = <<>> /\ scopeCalls' \in {scopeCalls,
          scopeCalls + 1}
      /\ UNCHANGED <<output, tries, targets, checks, unread, attempt, formatUsed, maxScopeCalls, retries>>
  BY DEF NoTargets
<1>2. scopeCalls = 0 /\ maxScopeCalls = 1 + 3 * MaxChecks /\ targets = <<>>
  BY <1>1 DEF ScopeInv, EarlyInv
<1>3. ScopeTypes'
  <2>1. ranked' \in Seq(Ranges)
    BY <1>1
  <2>2. scopeCalls' \in Nat
    BY <1>1, <1>2
  <2>3. QED
    BY <1>1, <2>1, <2>2 DEF ScopeInv, ScopeTypes
<1>4. AttemptInv' /\ ChecksApart' /\ Cardinality(unread) = 0 /\ FormatCalls' = 0 /\ attempt = 0
  BY <1>1, ReadingKeeps
<1>5. CallsInv'
  <2>1. Len(targets') = 0 /\ Cardinality(unread') = 0 /\ attempt' = 0
    BY <1>1, <1>2, <1>4
  <2>2. scopeCalls' \in {0, 1} /\ maxScopeCalls' = 1 + 3 * MaxChecks
    BY <1>1, <1>2
  <2>3. ~formatUsed'
    BY <1>4 DEF FormatCalls
  <2>4. scopeCalls' + 3 * Len(targets') + 3 * Cardinality(unread') - attempt' - (IF formatUsed' THEN 1 ELSE 0)
          <= maxScopeCalls'
    <3>1. (IF formatUsed' THEN 1 ELSE 0) = 0 /\ MaxChecks \in Nat /\ scopeCalls' \in Nat
      BY <2>2, <2>3, ScopeAssumption
    <3>2. scopeCalls' + 3 * 0 + 3 * 0 - 0 - 0 <= maxScopeCalls'
      <4>1. scopeCalls' <= 1
        BY <2>2
      <4>2. 1 <= 1 + 3 * MaxChecks
        BY <3>1
      <4>3. maxScopeCalls' \in Nat /\ 1 <= maxScopeCalls'
        BY <2>2, <3>1, <4>2
      <4>4. \A n, m \in Nat : n <= 1 /\ 1 <= m => n + 3 * 0 + 3 * 0 - 0 - 0 <= m
        OBVIOUS
      <4>5. scopeCalls' \in Nat
        BY <2>2
      <4>6. QED
        BY <4>1, <4>3, <4>4, <4>5
    <3>3. QED
      BY <2>1, <3>1, <3>2
  <2>5. QED
    BY <2>4 DEF CallsInv, FormatCalls
<1>6. EarlyInv' /\ RouteFits'
  BY <1>1 DEF EarlyInv, RouteFits
<1>7. QED
  BY <1>3, <1>4, <1>5, <1>6 DEF ScopeInv

\* So do the targets that are named.
LEMMA PlanKeeps == ASSUME ScopeInv, Plan PROVE ScopeInv'
<1>1. /\ scopePc = "scope" /\ scopePc' = "target" /\ ranked' = <<>> /\ scopeCalls' = scopeCalls + 1
      /\ UNCHANGED <<output, tries, checks, unread, attempt, formatUsed, maxScopeCalls, retries>>
  BY DEF Plan
<1>2. PICK n \in 1..MaxChecks : targets' \in [1..n -> Targets]
  BY DEF Plan
<1>3. n \in Nat /\ n <= MaxChecks
  BY ScopeAssumption
<1>4. targets' \in Seq(Targets) /\ Len(targets') = n
  <2>1. \A S : \A k \in Nat : \A t \in [1..k -> S] : t \in Seq(S) /\ Len(t) = k
    OBVIOUS
  <2>2. QED
    BY <1>2, <1>3, <2>1
<1>5. scopeCalls = 0 /\ maxScopeCalls = 1 + 3 * MaxChecks
  BY <1>1 DEF ScopeInv, EarlyInv
<1>6. ScopeTypes'
  <2>1. ranked' \in Seq(Ranges) /\ scopeCalls' \in Nat
    BY <1>1, <1>5
  <2>2. QED
    BY <1>1, <1>4, <2>1 DEF ScopeInv, ScopeTypes
<1>7. AttemptInv' /\ ChecksApart' /\ Cardinality(unread) = 0 /\ FormatCalls' = 0 /\ attempt = 0
  BY <1>1, ReadingKeeps
<1>8. CallsInv'
  BY <1>1, <1>3, <1>4, <1>5, <1>7, ScopeAssumption DEF CallsInv
<1>9. EarlyInv' /\ RouteFits'
  BY <1>1 DEF EarlyInv, RouteFits
<1>10. QED
  BY <1>6, <1>7, <1>8, <1>9 DEF ScopeInv

\* A check that is added is that of a target, apart from the others.
LEMMA CheckAdded ==
  ASSUME ScopeInv, NEW r \in Targets, NEW s \in Sections, PagesOf(r) \subseteq PagesOf(s), ApartFromScope(r),
         NEW status \in CheckStatuses, checks' = Append(checks, [pages |-> PagesOf(r), status |-> status])
  PROVE  /\ checks' \in Seq(CheckRecords) /\ Len(checks') = Len(checks) + 1 /\ ChecksApart'
<1> DEFINE new == [pages |-> PagesOf(r), status |-> status]
<1>1. checks \in Seq(CheckRecords) /\ Len(checks) \in Nat /\ DOMAIN checks = 1..Len(checks)
  BY LenProperties DEF ScopeInv, ScopeTypes
<1>2. r \in Ranges
  <2>1. r = <<r[1], r[2]>> /\ r[1] \in Nat /\ r[2] \in Nat /\ r[1] <= r[2]
    BY ScopeAssumption
  <2>2. r[1] \in PagesOf(r) /\ r[2] \in PagesOf(r)
    BY <2>1 DEF PagesOf
  <2>3. PagesOf(s) \subseteq 1..LastPage
    BY ScopeAssumption, RangesAre
  <2>4. QED
    BY <2>1, <2>2, <2>3 DEF Ranges
<1>3. new \in CheckRecords /\ new.pages = PagesOf(r)
  BY <1>2 DEF CheckRecords
<1> HIDE DEF new
<1>4. /\ checks' \in Seq(CheckRecords) /\ Len(checks') = Len(checks) + 1
      /\ \A i \in 1..Len(checks) : checks'[i] = checks[i]
      /\ checks'[Len(checks) + 1] = new
  <2>1. checks' = Append(checks, new)
    BY DEF new
  <2>2. QED
    BY <1>1, <1>3, <2>1, AppendProperties
<1>5. \A i \in 1..Len(checks) : PagesOf(r) \cap checks[i].pages = {}
  <2>1. PagesOf(r) \cap Checked = {}
    BY DEF ApartFromScope
  <2>2. QED
    BY <1>1, <2>1 DEF Checked
<1>6. \A i \in 1..Len(checks') : i \in 1..Len(checks) \/ i = Len(checks) + 1
  BY <1>1, <1>4
<1>7. ChecksApart'
  <2>1. ASSUME NEW i \in 1..Len(checks'), NEW j \in 1..Len(checks'), i # j
        PROVE  checks'[i].pages \cap checks'[j].pages = {}
    <3>1. CASE i \in 1..Len(checks) /\ j \in 1..Len(checks)
      BY <1>4, <2>1, <3>1 DEF ScopeInv, ChecksApart
    <3>2. CASE i \in 1..Len(checks) /\ j = Len(checks) + 1
      BY <1>3, <1>4, <1>5, <3>2
    <3>3. CASE j \in 1..Len(checks) /\ i = Len(checks) + 1
      BY <1>3, <1>4, <1>5, <3>3
    <3>4. QED
      BY <1>6, <2>1, <3>1, <3>2, <3>3
  <2>2. QED
    BY <2>1 DEF ChecksApart
<1>8. QED
  BY <1>4, <1>7

\* A target that is looked at keeps the invariant.
LEMMA TargetKeeps == ASSUME ScopeInv, Target PROVE ScopeInv'
<1>1. /\ scopePc = "target" /\ UNCHANGED <<output, ranked, tries, scopeCalls, maxScopeCalls, retries>>
      /\ targets \in Seq(Targets) /\ checks \in Seq(CheckRecords) /\ Len(checks) \in Nat /\ Len(targets) \in Nat
  BY UnreadIs DEF Target, ScopeInv, ScopeTypes
<1>2. unread = {} /\ attempt = 0 /\ formatUsed = FALSE /\ Cardinality(unread) = 0 /\ FormatCalls = 0
  <2>1. unread = {} /\ attempt = 0 /\ formatUsed = FALSE
    BY <1>1 DEF ScopeInv, ScopeTypes, AttemptInv
  <2>2. QED
    BY <2>1, FS_EmptySet DEF FormatCalls
<1>3. scopePc' \in {"read", "target", "request"} => EarlyInv' /\ RouteFits'
  BY DEF EarlyInv, RouteFits
<1>4. CASE targets = <<>>
  <2>1. scopePc' = "read" /\ UNCHANGED <<targets, checks, unread, attempt, formatUsed>>
    BY <1>4 DEF Target
  <2>2. ScopeTypes'
    BY <1>1, <2>1 DEF ScopeInv, ScopeTypes
  <2>3. AttemptInv' /\ ChecksApart'
    BY <1>1, <2>1, ReadingKeeps
  <2>4. CallsInv'
    BY <1>1, <2>1 DEF ScopeInv, CallsInv, FormatCalls
  <2>5. QED
    BY <1>3, <2>1, <2>2, <2>3, <2>4 DEF ScopeInv
<1>5. CASE targets # <<>>
  <2> DEFINE r == Head(targets)
             valid == /\ \E s \in Sections : PagesOf(r) \subseteq PagesOf(s)
                      /\ Cardinality(PagesOf(r)) <= CheckPages /\ ApartFromScope(r)
  <2>1. r \in Targets /\ targets' \in Seq(Targets) /\ Len(targets') = Len(targets) - 1
    <3>1. targets' = Tail(targets)
      BY <1>5 DEF Target
    <3>2. QED
      BY <1>1, <1>5, <3>1, HeadTailProperties
  <2>2. scopeCalls + 3 * Len(targets) <= maxScopeCalls /\ scopeCalls \in Nat /\ maxScopeCalls \in Nat
    BY <1>1, <1>2 DEF ScopeInv, ScopeTypes, CallsInv
  <2>3. CASE UNCHANGED <<scopePc, checks, unread, attempt, formatUsed>>
    <3>1. ScopeTypes'
      BY <1>1, <2>1, <2>3 DEF ScopeInv, ScopeTypes
    <3>2. AttemptInv' /\ ChecksApart' /\ FormatCalls' = 0
      BY <1>1, <2>3, ReadingKeeps
    <3>3. CallsInv'
      BY <1>1, <1>2, <2>1, <2>2, <2>3, <3>2 DEF CallsInv
    <3>4. QED
      BY <1>1, <1>3, <2>3, <3>1, <3>2, <3>3 DEF ScopeInv
  <2>4. ASSUME valid, checks' = Append(checks, [pages |-> PagesOf(r), status |-> "unchecked"]),
               unread' = {Len(checks')}, scopePc' = "request", attempt' = 0, formatUsed' = FALSE
        PROVE  ScopeInv'
    <3>1. checks' \in Seq(CheckRecords) /\ Len(checks') = Len(checks) + 1 /\ ChecksApart'
      BY <2>1, <2>4, CheckAdded DEF CheckStatuses
    <3>2. unread' \in SUBSET (1..Len(checks')) /\ unread' # {} /\ Cardinality(unread') = 1
      <4>1. Len(checks') \in 1..Len(checks')
        BY <1>1, <3>1
      <4>2. unread' = {Len(checks')}
        BY <2>4
      <4>3. QED
        BY <4>1, <4>2, FS_Singleton
    <3>3. ScopeTypes'
      BY <1>1, <2>1, <2>4, <3>1, <3>2 DEF ScopeInv, ScopeTypes
    <3>4. AttemptInv'
      BY <2>4, <3>2 DEF AttemptInv
    <3>5. CallsInv'
      <4>1. FormatCalls' = 0
        BY <2>4 DEF FormatCalls
      <4>2. QED
        BY <1>1, <2>1, <2>2, <2>4, <3>2, <4>1 DEF CallsInv
    <3>6. QED
      BY <1>3, <2>4, <3>1, <3>3, <3>4, <3>5 DEF ScopeInv
  <2>5. ASSUME valid, checks' = Append(checks, [pages |-> PagesOf(r), status |-> "incomplete"]),
               UNCHANGED <<scopePc, unread, attempt, formatUsed>>
        PROVE  ScopeInv'
    <3>1. checks' \in Seq(CheckRecords) /\ Len(checks') = Len(checks) + 1 /\ ChecksApart'
      BY <2>1, <2>5, CheckAdded DEF CheckStatuses
    <3>2. ScopeTypes'
      BY <1>1, <1>2, <2>1, <2>5, <3>1 DEF ScopeInv, ScopeTypes
    <3>3. AttemptInv'
      BY <2>5 DEF ScopeInv, AttemptInv
    <3>4. CallsInv'
      <4>1. FormatCalls' = 0
        BY <1>2, <2>5 DEF FormatCalls
      <4>2. QED
        BY <1>1, <1>2, <2>1, <2>2, <2>5, <4>1 DEF CallsInv
    <3>5. QED
      BY <1>1, <1>3, <2>5, <3>1, <3>2, <3>3, <3>4 DEF ScopeInv
  <2>6. QED
    BY <1>5, <2>3, <2>4, <2>5 DEF Target
<1>6. QED
  BY <1>4, <1>5

\* A check ends, at the cost its attempts may have had.
LEMMA CallsLeft ==
  ASSUME NEW c \in Nat, NEW d \in Nat, NEW a \in {0, 1}, NEW f \in {0, 1}, NEW t \in Nat, NEW u \in Nat,
      NEW m \in Nat,
         c + 3 * t + 3 * u - a - f <= m
  PROVE  /\ d <= c + 3 - a - f => d + 3 * t + 3 * (u - 1) - 0 - 0 <= m
         /\ \A b, g \in {0, 1} : d - b - g = c - a - f => d + 3 * t + 3 * u - b - g <= m
  OBVIOUS

\* A check that is settled keeps the invariant.
LEMMA SettleKeeps ==
  ASSUME ScopeInv, scopePc = "request", NEW status \in CheckStatuses, SettleCheck(status),
         UNCHANGED <<ranked, targets, maxScopeCalls, retries>>,
         scopeCalls' \in Nat, scopeCalls' <= scopeCalls + 3 - attempt - FormatCalls
  PROVE  ScopeInv'
<1> DEFINE i == Min(unread)
<1>1. unread # {}
  BY DEF ScopeInv, AttemptInv
<1>2. /\ IsFiniteSet(unread) /\ Cardinality(unread) \in Nat /\ Len(checks) \in Nat /\ Len(targets) \in Nat
      /\ i \in unread /\ i \in 1..Len(checks) /\ Cardinality(unread \ {i}) = Cardinality(unread) - 1
  BY <1>1, UnreadIs
<1> HIDE DEF i
<1>3. /\ checks' = [checks EXCEPT ![i].status = status]
      /\ unread' = unread \ {i} /\ attempt' = 0 /\ formatUsed' = FALSE
      /\ output' = IF retries = 0 /\ status \in {"checked_found", "checked_not_found"}
                   THEN Append(output, <<Min(checks[i].pages), Max(checks[i].pages)>>) ELSE output
      /\ scopePc' = IF unread' # {} THEN "request" ELSE IF retries = 0 THEN "target" ELSE "read"
  BY DEF SettleCheck, i
<1>4. checks \in Seq(CheckRecords) /\ output \in Seq(Ranges)
  BY DEF ScopeInv, ScopeTypes
<1>5. checks[i] \in CheckRecords
  BY <1>2, <1>4, ElementOfSeq
<1>6. /\ checks' \in Seq(CheckRecords) /\ Len(checks') = Len(checks)
      /\ \A j \in 1..Len(checks) : checks'[j].pages = checks[j].pages
  <2> DEFINE new == [checks[i] EXCEPT !.status = status]
  <2>1. new \in CheckRecords /\ new.pages = checks[i].pages
    BY <1>5 DEF CheckRecords
  <2>2. checks' = [checks EXCEPT ![i] = new]
    BY <1>3
  <2> HIDE DEF new
  <2>3. checks' \in Seq(CheckRecords) /\ Len(checks') = Len(checks)
            /\ \A j \in 1..Len(checks) : checks'[j] = IF j = i THEN new ELSE checks[j]
    BY <1>2, <1>4, <2>1, <2>2, ExceptSeq
  <2>4. QED
    BY <2>1, <2>3
<1>7. <<Min(checks[i].pages), Max(checks[i].pages)>> \in Ranges
  <2>1. PICK r \in Ranges : checks[i].pages = PagesOf(r)
    BY <1>5 DEF CheckRecords
  <2>2. r[1] \in 1..LastPage /\ r[2] \in 1..LastPage /\ r[1] <= r[2]
    BY RangesAre
  <2>3. Min(PagesOf(r)) = r[1] /\ Max(PagesOf(r)) = r[2]
    BY <2>2, ExtremesOfRange DEF PagesOf
  <2>4. QED
    BY <2>1, <2>2, <2>3 DEF Ranges
<1>8. output' \in Seq(Ranges)
  BY <1>3, <1>4, <1>7, AppendProperties
<1>9. scopePc' \in {"request", "target", "read"}
  BY <1>3
<1>10. ScopeTypes'
  BY <1>2, <1>3, <1>6, <1>8, <1>9 DEF ScopeInv, ScopeTypes
<1>11. AttemptInv'
  BY <1>3 DEF AttemptInv
<1>12. ChecksApart'
  BY <1>6 DEF ScopeInv, ChecksApart
<1>13. CallsInv'
  <2>1. FormatCalls' = 0 /\ FormatCalls \in {0, 1} /\ attempt \in {0, 1} /\ scopeCalls \in Nat
            /\ maxScopeCalls \in Nat
    BY <1>3 DEF FormatCalls, ScopeInv, ScopeTypes
  <2>2. scopeCalls + 3 * Len(targets) + 3 * Cardinality(unread) - attempt - FormatCalls <= maxScopeCalls
    BY DEF ScopeInv, CallsInv
  <2>3. Cardinality(unread') = Cardinality(unread) - 1 /\ attempt' = 0 /\ targets' = targets
            /\ maxScopeCalls' = maxScopeCalls
    BY <1>2, <1>3
  <2> DEFINE u == Cardinality(unread)
             t == Len(targets)
  <2>4. scopeCalls' + 3 * t + 3 * (u - 1) - 0 - 0 <= maxScopeCalls
    <3>1. u \in Nat /\ t \in Nat /\ scopeCalls + 3 * t + 3 * u - attempt - FormatCalls <= maxScopeCalls
      BY <1>2, <2>2
    <3> HIDE DEF u, t
    <3>2. QED
      BY <2>1, <3>1, CallsLeft
  <2>5. QED
    BY <2>1, <2>3, <2>4 DEF CallsInv
<1>14. EarlyInv' /\ RouteFits'
  BY <1>9 DEF EarlyInv, RouteFits
<1>15. QED
  BY <1>10, <1>11, <1>12, <1>13, <1>14 DEF ScopeInv

\* So does a request of a check.
LEMMA RequestKeeps == ASSUME ScopeInv, Request PROVE ScopeInv'
<1>1. PICK repair \in BOOLEAN :
        /\ repair => MayRepair
        /\ scopeCalls' = scopeCalls + (IF repair THEN 2 ELSE 1)
        /\ \/ \E status \in {"checked_found", "checked_not_found", "failed"} : SettleCheck(status)
           \/ /\ attempt = 0 /\ attempt' = 1
              /\ formatUsed' = (formatUsed \/ repair)
              /\ UNCHANGED <<scopePc, checks, unread, output>>
  BY DEF Request
<1>2. scopePc = "request" /\ UNCHANGED <<ranked, tries, targets, maxScopeCalls, retries>>
  BY DEF Request
<1>3. /\ attempt \in {0, 1} /\ formatUsed \in BOOLEAN /\ scopeCalls \in Nat /\ maxScopeCalls \in Nat
      /\ attempt = 0 => ~formatUsed
  BY DEF ScopeInv, ScopeTypes, AttemptInv
<1>4. CASE \E status \in {"checked_found", "checked_not_found", "failed"} : SettleCheck(status)
  <2>1. PICK status \in CheckStatuses : SettleCheck(status)
    BY <1>4 DEF CheckStatuses
  <2>2. scopeCalls' \in Nat /\ scopeCalls' <= scopeCalls + 3 - attempt - FormatCalls
    BY <1>1, <1>3 DEF MayRepair, FormatCalls
  <2>3. QED
    BY <1>2, <2>1, <2>2, SettleKeeps
<1>5. CASE /\ attempt = 0 /\ attempt' = 1
           /\ formatUsed' = (formatUsed \/ repair)
           /\ UNCHANGED <<scopePc, checks, unread, output>>
  <2>1. ~formatUsed /\ (formatUsed' <=> repair) /\ formatUsed' \in BOOLEAN
    BY <1>3, <1>5
  <2>2. ScopeTypes'
    <3>1. scopeCalls' \in Nat
      BY <1>1, <1>3
    <3>2. QED
      BY <1>2, <1>5, <2>1, <3>1 DEF ScopeInv, ScopeTypes
  <2>3. AttemptInv'
    BY <1>2, <1>5 DEF ScopeInv, AttemptInv
  <2>4. CallsInv'
    <3>1. FormatCalls = 0 /\ FormatCalls' = (IF repair THEN 1 ELSE 0)
      BY <2>1 DEF FormatCalls
    <3>2. /\ Cardinality(unread) \in Nat /\ Len(targets) \in Nat
          /\ scopeCalls + 3 * Len(targets) + 3 * Cardinality(unread) - attempt - FormatCalls <= maxScopeCalls
      BY UnreadIs DEF ScopeInv, CallsInv
    <3>3. scopeCalls + 3 * Len(targets) + 3 * Cardinality(unread) <= maxScopeCalls
      BY <1>3, <1>5, <3>1, <3>2
    <3>4. attempt' = 1 /\ (IF formatUsed' THEN 1 ELSE 0) = (IF repair THEN 1 ELSE 0)
      BY <1>5, <2>1
    <3>5. scopeCalls' + 3 * Len(targets) + 3 * Cardinality(unread) - attempt'
            - (IF formatUsed' THEN 1 ELSE 0) <= maxScopeCalls
      <4>1. CASE repair
        <5>1. scopeCalls' = scopeCalls + 2
          BY <1>1, <4>1
        <5>2. scopeCalls + 2 + 3 * Len(targets) + 3 * Cardinality(unread) - 1 - 1 <= maxScopeCalls
          BY <1>3, <3>2, <3>3
        <5>3. QED
          BY <3>4, <4>1, <5>1, <5>2
      <4>2. CASE ~repair
        <5>1. scopeCalls' = scopeCalls + 1
          BY <1>1, <4>2
        <5>2. scopeCalls + 1 + 3 * Len(targets) + 3 * Cardinality(unread) - 1 - 0 <= maxScopeCalls
          BY <1>3, <3>2, <3>3
        <5>3. QED
          BY <3>4, <4>2, <5>1, <5>2
      <4>3. QED
        BY <4>1, <4>2
    <3>6. QED
      BY <1>2, <1>5, <3>5 DEF CallsInv, FormatCalls
  <2>5. ChecksApart'
    BY <1>5 DEF ScopeInv, ChecksApart
  <2>6. EarlyInv' /\ RouteFits'
    BY <1>2, <1>5 DEF EarlyInv, RouteFits
  <2>7. QED
    BY <2>2, <2>3, <2>4, <2>5, <2>6 DEF ScopeInv
<1>6. QED
  BY <1>1, <1>4, <1>5

\* So does a check without a model to ask.
LEMMA UnavailableKeeps == ASSUME ScopeInv, TargetUnavailable PROVE ScopeInv'
<1>1. scopePc = "request" /\ SettleCheck("incomplete") /\ UNCHANGED <<ranked, targets, scopeCalls,
          maxScopeCalls, retries>>
  BY DEF TargetUnavailable
<1>2. scopeCalls' \in Nat /\ scopeCalls' <= scopeCalls + 3 - attempt - FormatCalls
  <2>1. scopeCalls \in Nat /\ attempt \in {0, 1} /\ FormatCalls \in {0, 1}
    BY DEF FormatCalls, ScopeInv, ScopeTypes
  <2>2. QED
    BY <1>1, <2>1
<1>3. QED
  BY <1>1, <1>2, SettleKeeps DEF CheckStatuses

\* So does a retry of the report, which reads what was not read.
LEMMA RetryKeeps == ASSUME ScopeInv, Retry PROVE ScopeInv'
<1> DEFINE undone == {i \in DOMAIN checks : checks[i].status \in {"unchecked", "incomplete", "failed"}}
<1>1. /\ scopePc = "read" /\ undone # {} /\ retries' = retries + 1
      /\ maxScopeCalls' = maxScopeCalls + 3 * Cardinality(undone)
      /\ unread' = undone /\ scopePc' = "request" /\ attempt' = 0 /\ formatUsed' = FALSE
      /\ UNCHANGED <<output, ranked, tries, targets, checks, scopeCalls>>
  BY DEF Retry
<1>2. checks \in Seq(CheckRecords) /\ Len(checks) \in Nat /\ Len(targets) \in Nat
  BY UnreadIs DEF ScopeInv, ScopeTypes
<1>3. undone \in SUBSET (1..Len(checks)) /\ IsFiniteSet(undone) /\ Cardinality(undone) \in Nat
  BY <1>2, SomePages, LenProperties
<1> HIDE DEF undone
<1>4. ScopeTypes'
  <2>1. maxScopeCalls' \in Nat /\ retries' \in Nat
    BY <1>1, <1>3 DEF ScopeInv, ScopeTypes
  <2>2. QED
    BY <1>1, <1>3, <2>1 DEF ScopeInv, ScopeTypes
<1>5. AttemptInv'
  BY <1>1 DEF AttemptInv
<1>6. CallsInv'
  <2>1. Cardinality(unread) = 0 /\ FormatCalls = 0 /\ attempt = 0
    <3>1. unread = {} /\ attempt = 0 /\ ~formatUsed
      BY <1>1 DEF ScopeInv, AttemptInv
    <3>2. QED
      BY <3>1, FS_EmptySet DEF FormatCalls
  <2>2. scopeCalls + 3 * Len(targets) <= maxScopeCalls /\ scopeCalls \in Nat /\ maxScopeCalls \in Nat
    BY <1>2, <2>1 DEF ScopeInv, ScopeTypes, CallsInv
  <2>3. FormatCalls' = 0
    BY <1>1 DEF FormatCalls
  <2>4. QED
    BY <1>1, <1>2, <1>3, <2>2, <2>3 DEF CallsInv
<1>7. ChecksApart' /\ EarlyInv' /\ RouteFits'
  BY <1>1 DEF ScopeInv, ChecksApart, EarlyInv, RouteFits
<1>8. QED
  BY <1>4, <1>5, <1>6, <1>7 DEF ScopeInv

\* Every step keeps the invariant.
LEMMA ScopeStep == ScopeInv /\ [ScopeNext]_scopeVars => ScopeInv'
<1> SUFFICES ASSUME ScopeInv, [ScopeNext]_scopeVars PROVE ScopeInv'
  OBVIOUS
<1>1. CASE UNCHANGED scopeVars
  <2>1. UNCHANGED <<scopePc, output, ranked, tries, targets, checks, unread, attempt, formatUsed,
                    scopeCalls, maxScopeCalls, retries>>
    BY <1>1 DEF scopeVars
  <2>2. ScopeTypes'
    BY <2>1 DEF ScopeInv, ScopeTypes
  <2>3. EarlyInv' /\ AttemptInv'
    BY <2>1 DEF ScopeInv, EarlyInv, AttemptInv
  <2>4. CallsInv'
    BY <2>1 DEF ScopeInv, CallsInv, FormatCalls
  <2>5. ChecksApart'
    BY <2>1 DEF ScopeInv, ChecksApart
  <2>6. RouteFits'
    BY <2>1 DEF ScopeInv, RouteFits, SelectedPages
  <2>7. QED
    BY <2>2, <2>3, <2>4, <2>5, <2>6 DEF ScopeInv
<1>2. QED
  BY <1>1, RouteKeeps, NarrowKeeps, NoTargetsKeeps, PlanKeeps, TargetKeeps, RequestKeeps, UnavailableKeeps,
      RetryKeeps DEF ScopeNext

THEOREM ScopeHolds == ScopeSpec => [](RouteFits /\ PagesReadOnce /\ CallsBounded)
<1>1. ScopeInv => RouteFits
  BY DEF ScopeInv
<1>2. ScopeInv => PagesReadOnce
  <2> SUFFICES ASSUME ScopeInv PROVE PagesReadOnce
    OBVIOUS
  <2>1. output \in Seq(Ranges) /\ DOMAIN checks = 1..Len(checks)
    BY LenProperties DEF ScopeInv, ScopeTypes
  <2>2. UNION {PagesOf(r) : r \in Spans(output)} = SelectedPages
    BY <2>1, SpansCover DEF SelectedPages
  <2>3. \A r, t \in Spans(output) : r # t => PagesOf(r) \cap PagesOf(t) = {}
    BY SpansApart
  <2>4. \A i, j \in DOMAIN checks : i # j => checks[i].pages \cap checks[j].pages = {}
    BY <2>1 DEF ScopeInv, ChecksApart
  <2>5. QED
    BY <2>2, <2>3, <2>4 DEF PagesReadOnce
<1>3. ScopeInv => CallsBounded
  <2> SUFFICES ASSUME ScopeInv PROVE scopeCalls <= maxScopeCalls
    BY DEF CallsBounded
  <2>1. /\ Cardinality(unread) \in Nat /\ Len(targets) \in Nat /\ scopeCalls \in Nat /\ maxScopeCalls \in Nat
        /\ FormatCalls \in {0, 1} /\ attempt \in {0, 1} /\ (attempt = 0 => FormatCalls = 0)
        /\ scopeCalls + 3 * Len(targets) + 3 * Cardinality(unread) - attempt - FormatCalls <= maxScopeCalls
    BY UnreadIs DEF ScopeInv, ScopeTypes, CallsInv, AttemptInv, FormatCalls
  <2>2. attempt = 1 => Cardinality(unread) >= 1
    <3>1. attempt = 1 => unread # {}
      BY DEF ScopeInv, AttemptInv
    <3>2. IsFiniteSet(unread) /\ (unread # {} => Cardinality(unread) # 0)
      BY UnreadIs, FS_EmptySet
    <3>3. QED
      BY <2>1, <3>1, <3>2
  <2>3. QED
    BY <2>1, <2>2
<1>4. QED
  BY <1>1, <1>2, <1>3, ScopeStart, ScopeStep, PTL DEF ScopeSpec

-----------------------------------------------------------------------------
(* The chunks of a document *)

\* What may be left to do of a fragment.
Tasks == {"resolve", "merge"} \X Fragments

\* A fragment was read, or will be before the i-th task of the stack.
InReach(read, s, i, f) ==
  \/ \E p \in read : p[1] = f
  \/ \E j \in 1..(i - 1) : s[j][2] = f

\* A fragment is merged after both its halves, and the chunk itself comes last.
Stacked(read, s) ==
  /\ \A i \in 1..Len(s) : s[i][1] = "merge" =>
       /\ Len(s[i][2]) < Depth /\ s[i][2] \in Splittable
       /\ \A h \in {1, 2} : InReach(read, s, i, Append(s[i][2], h))
  /\ Len(s) > 0 => s[Len(s)][2] = Root

\* Every reading and every result that is stored is that of its whole fragment.
Whole(read) == \A p \in read : p[1] \in Fragments /\ p[2] = Quarters(p[1])

\* So is every value of the cache.
KeptWhole(stored) ==
  \A v \in stored : v[1] \in 1..Chunks /\ v[3] \in {"chunk", "result"} => v[4] = Quarters(v[2])

\* A fragment whose answer was cut off is marked as split.
SplitsMarked(cutOff, stored) == \A r \in cutOff : <<r[1], r[2], "split", <<>>>> \in stored

\* What was read and what is left of a chunk.
StackInv ==
  /\ unfinished \in [1..Chunks -> Seq(Tasks)]
  /\ DOMAIN readings = 1..Chunks /\ DOMAIN chunkOutcome = 1..Chunks
  /\ \A c \in 1..Chunks :
       /\ Whole(readings[c]) /\ Stacked(readings[c], unfinished[c])
       /\ chunkOutcome[c] = "ok" => \E p \in readings[c] : p[1] = Root

\* The inductive invariant.
ChunkInv ==
  /\ StackInv
  /\ untaken \in Seq(1..Chunks)
  /\ KeptWhole(checkpoints)
  /\ refused # {} => cacheOn
  /\ SplitsMarked(refused, checkpoints)
  /\ ProfileWhole

\* The fragments of a chunk.
LEMMA FragmentsAre == Fragments = {<<>>, <<1>>, <<2>>, <<1, 1>>, <<1, 2>>, <<2, 1>>, <<2, 2>>}
<1>1. Fragments = [1..0 -> {1, 2}] \cup [1..1 -> {1, 2}] \cup [1..2 -> {1, 2}]
  <2>1. 0..Depth = {0, 1, 2}
    BY DEF Depth
  <2>2. QED
    BY <2>1 DEF Fragments
<1>2. [1..0 -> {1, 2}] = {<<>>}
  <2>1. ASSUME NEW f \in [1..0 -> {1, 2}] PROVE f = <<>>
    <3>1. f \in Seq({1, 2}) /\ Len(f) = 0
      OBVIOUS
    <3>2. QED
      BY <3>1, EmptySeq
  <2>2. <<>> \in [1..0 -> {1, 2}]
    OBVIOUS
  <2>3. QED
    BY <2>1, <2>2
<1>3. [1..1 -> {1, 2}] = {<<1>>, <<2>>}
  <2>1. ASSUME NEW f \in [1..1 -> {1, 2}] PROVE f = <<f[1]>> /\ f[1] \in {1, 2}
    OBVIOUS
  <2>2. QED
    BY <2>1
<1>4. [1..2 -> {1, 2}] = {<<1, 1>>, <<1, 2>>, <<2, 1>>, <<2, 2>>}
  <2>1. ASSUME NEW f \in [1..2 -> {1, 2}] PROVE f = <<f[1], f[2]>> /\ f[1] \in {1, 2} /\ f[2] \in {1, 2}
    OBVIOUS
  <2>2. QED
    BY <2>1
<1>5. QED
  BY <1>1, <1>2, <1>3, <1>4

\* Two joined lists hold the first and then the second.
LEMMA JoinOf ==
  ASSUME NEW S, NEW s \in Seq(S), NEW t \in Seq(S), NEW u \in Seq(S), Len(u) = Len(s) + Len(t),
         \A i \in 1..Len(u) : u[i] = IF i <= Len(s) THEN s[i] ELSE t[i - Len(s)]
  PROVE  s \o t = u
<1>1. s \o t \in Seq(S) /\ Len(s \o t) = Len(u) /\ \A i \in 1..Len(u) : (s \o t)[i] = u[i]
  BY ConcatProperties
<1>2. QED
  BY <1>1, SeqEqual
LEMMA AppendOne == ASSUME NEW a, NEW b PROVE Append(<<a>>, b) = <<a, b>>
<1> DEFINE S == {a, b}
<1>1. <<a>> \in Seq(S) /\ <<a, b>> \in Seq(S) /\ Len(<<a>>) = 1 /\ Len(<<a, b>>) = 2 /\ b \in S
  OBVIOUS
<1>2. Append(<<a>>, b) \in Seq(S) /\ Len(Append(<<a>>, b)) = 2 /\ Append(<<a>>, b)[1] = a /\ Append(<<a>>,
          b)[2] = b
  BY <1>1, AppendProperties
<1>3. <<a, b>>[1] = a /\ <<a, b>>[2] = b
  OBVIOUS
<1>4. \A i \in 1..2 : Append(<<a>>, b)[i] = <<a, b>>[i]
  <2>1. ASSUME NEW i \in 1..2 PROVE i = 1 \/ i = 2
    OBVIOUS
  <2>2. QED
    BY <1>2, <1>3, <2>1, Zenon
<1>5. QED
  BY <1>1, <1>2, <1>4, SeqEqual, Zenon
LEMMA JoinOnes == ASSUME NEW a, NEW b PROVE <<a>> \o <<b>> = <<a, b>>
<1> DEFINE S == {a, b}
<1>1. <<a>> \in Seq(S) /\ <<b>> \in Seq(S) /\ <<a, b>> \in Seq(S) /\ Len(<<a>>) = 1 /\ Len(<<b>>) = 1
          /\ Len(<<a, b>>) = 2
  OBVIOUS
<1>2. \A i \in 1..2 : <<a, b>>[i] = IF i <= 1 THEN <<a>>[i] ELSE <<b>>[i - 1]
  OBVIOUS
<1>3. \A i \in 1..Len(<<a, b>>) : <<a, b>>[i] = IF i <= Len(<<a>>) THEN <<a>>[i] ELSE <<b>>[i - Len(<<a>>)]
  BY <1>1, <1>2, Zenon
<1>4. Len(<<a, b>>) = Len(<<a>>) + Len(<<b>>)
  BY <1>1
<1>5. QED
  BY <1>1, <1>3, <1>4, JoinOf, Zenon
LEMMA JoinTwos == ASSUME NEW a, NEW b, NEW c, NEW d PROVE <<a, b>> \o <<c, d>> = <<a, b, c, d>>
<1> DEFINE s == <<a, b>>  t == <<c, d>> S == {a, b, c, d}  u == <<a, b, c, d>>
<1>1. s \in Seq(S) /\ t \in Seq(S) /\ u \in Seq(S)
  OBVIOUS
<1>2. Len(s) = 2 /\ Len(t) = 2 /\ Len(u) = 4
  OBVIOUS
<1>4. \A i \in 1..4 : u[i] = IF i <= 2 THEN s[i] ELSE t[i - 2]
  <2> TAKE i \in 1..4
  <2>2. CASE i = 1
     BY <2>2
  <2>3. CASE i = 2
     BY  <2>3
  <2>4. CASE i = 3
    <3>1. i - 2 = 1
      BY <2>4
    <3>2. QED
     BY <3>1, <2>4
  <2>5. CASE i = 4
    <3>1. i - 2 = 2
      BY  <2>5
    <3>2. QED
     BY <3>1, <2>5
  <2>6. QED
     BY <2>2, <2>3, <2>4, <2>5
<1>5. \A i \in 1..Len(u) : u[i] = IF i <= Len(s) THEN s[i] ELSE t[i - Len(s)]
  BY <1>2, <1>4, Zenon
<1>6. Len(u) = Len(s) + Len(t)
  BY <1>2
<1>7. QED
  BY <1>1, <1>5, <1>6, JoinOf, Zenon

\* The quarters of a fragment are those of its first half and then its second.
LEMMA HalvesJoin ==
  ASSUME NEW f \in Fragments, Len(f) < Depth
  PROVE  /\ \A h \in {1, 2} : Append(f, h) \in Fragments
         /\ Quarters(Append(f, 1)) \o Quarters(Append(f, 2)) = Quarters(f)
<1> DEFINE Joins(g) == /\ \A h \in {1, 2} : Append(g, h) \in Fragments
                       /\ Quarters(Append(g, 1)) \o Quarters(Append(g, 2)) = Quarters(g)
<1>1. f \in {<<>>, <<1>>, <<2>>}
  <2>1. Len(<<1, 1>>) = 2 /\ Len(<<1, 2>>) = 2 /\ Len(<<2, 1>>) = 2 /\ Len(<<2, 2>>) = 2 /\ Len(f) # 2
    BY DEF Depth
  <2>2. f # <<1, 1>> /\ f # <<1, 2>> /\ f # <<2, 1>> /\ f # <<2, 2>>
    BY <2>1, Zenon
  <2>3. QED
    BY <2>2, FragmentsAre, Zenon
<1>2. Joins(<<>>)
  <2>1. Append(<<>>, 1) = <<1>> /\ Append(<<>>, 2) = <<2>>
    OBVIOUS
  <2>2. Quarters(<<1>>) = <<1, 2>> /\ Quarters(<<2>>) = <<3, 4>> /\ Quarters(<<>>) = <<1, 2, 3, 4>>
    BY DEF Quarters, Root
  <2>3. <<1>> \in Fragments /\ <<2>> \in Fragments
    BY FragmentsAre, Zenon
  <2>4. \A h \in {1, 2} : Append(<<>>, h) \in Fragments
    BY <2>1, <2>3
  <2>5. <<1, 2>> \o <<3, 4>> = <<1, 2, 3, 4>>
    BY JoinTwos
  <2>6. Quarters(Append(<<>>, 1)) \o Quarters(Append(<<>>, 2)) = Quarters(<<>>)
    BY <2>1, <2>2, <2>5, Zenon
  <2>7. QED
    BY <2>4, <2>6, Zenon
<1>3. ASSUME NEW k \in {1, 2} PROVE Joins(<<k>>)
  <2>1. Quarters(<<k, 1>>) = <<2 * k - 1>> /\ Quarters(<<k, 2>>) = <<2 * k>>
            /\ Quarters(<<k>>) = <<2 * k - 1, 2 * k>>
    BY DEF Quarters, Root
  <2>2. <<k, 1>> \in Fragments /\ <<k, 2>> \in Fragments
    BY FragmentsAre, Zenon
  <2>3. QED
    BY <2>1, <2>2, AppendOne, JoinOnes, Zenon
<1>4. Joins(f)
  BY <1>1, <1>2, <1>3, Zenon
<1>5. QED
  BY <1>4

\* The task at the head of a stack is done.
LEMMA PoppedStack ==
  ASSUME NEW s \in Seq(Tasks), s # <<>>, NEW read, NEW after, read \subseteq after, Stacked(read, s),
         \E p \in after : p[1] = Head(s)[2]
  PROVE  Stacked(after, Tail(s)) /\ Tail(s) \in Seq(Tasks)
<1>1. /\ Tail(s) \in Seq(Tasks) /\ Len(Tail(s)) = Len(s) - 1 /\ Head(s) = s[1] /\ Len(s) \in Nat
      /\ \A i \in 1..Len(Tail(s)) : Tail(s)[i] = s[i + 1]
  OBVIOUS
<1>2. ASSUME NEW i \in 1..Len(Tail(s)), NEW f, InReach(read, s, i + 1, f) PROVE InReach(after, Tail(s), i, f)
  <2>1. ASSUME NEW j \in 1..i, s[j][2] = f, j # 1 PROVE \E k \in 1..(i - 1) : Tail(s)[k][2] = f
    <3>1. j - 1 \in 1..(i - 1) /\ Tail(s)[j - 1] = s[j]
      BY <1>1, <2>1
    <3>2. QED
      BY <2>1, <3>1
  <2>2. i + 1 - 1 = i
    BY <1>1
  <2>3. QED
    BY <1>1, <1>2, <2>1, <2>2 DEF InReach
<1>3. \A i \in 1..Len(Tail(s)) : i + 1 \in 1..Len(s)
  BY <1>1
<1>4. Len(Tail(s)) > 0 => Tail(s)[Len(Tail(s))] = s[Len(s)]
  BY <1>1
<1>5. QED
  BY <1>1, <1>2, <1>3, <1>4 DEF Stacked

\* A fragment gives way to its halves and their merge.
Divided(s, f) == [i \in 1..2 |-> <<"resolve", Children(f)[i]>>] \o <<<<"merge", f>>>> \o Tail(s)

\* Three tasks before the others.
LEMMA ThreeParts ==
  ASSUME NEW S, NEW a \in Seq(S), NEW b \in Seq(S), NEW c \in Seq(S), Len(a) = 2, Len(b) = 1
  PROVE  /\ a \o b \o c \in Seq(S) /\ Len(a \o b \o c) = Len(c) + 3
         /\ (a \o b \o c)[1] = a[1] /\ (a \o b \o c)[2] = a[2] /\ (a \o b \o c)[3] = b[1]
         /\ \A i \in 1..Len(c) : (a \o b \o c)[i + 3] = c[i]
<1>1. /\ a \o b \in Seq(S) /\ Len(a \o b) = 3
      /\ \A i \in 1..3 : (a \o b)[i] = IF i <= 2 THEN a[i] ELSE b[i - 2]
  <2>1. a \o b \in Seq(S) /\ Len(a \o b) = Len(a) + Len(b)
    BY ConcatProperties
  <2>2. \A i \in 1..(Len(a) + Len(b)) : (a \o b)[i] = IF i <= Len(a) THEN a[i] ELSE b[i - Len(a)]
    BY ConcatProperties
  <2>3. Len(a) + Len(b) = 3
    OBVIOUS
  <2>4. QED
    BY <2>1, <2>2, <2>3
<1>2. (a \o b)[1] = a[1] /\ (a \o b)[2] = a[2] /\ (a \o b)[3] = b[1]
  BY <1>1
<1>3. PICK ab \in Seq(S) : ab = a \o b
  BY <1>1
<1>4. Len(ab) = 3 /\ ab[1] = a[1] /\ ab[2] = a[2] /\ ab[3] = b[1]
  BY <1>1, <1>2, <1>3
<1>5. /\ ab \o c \in Seq(S) /\ Len(ab \o c) = Len(c) + 3
      /\ \A i \in 1..Len(c) + 3 : (ab \o c)[i] = IF i <= 3 THEN ab[i] ELSE c[i - 3]
  <2>1. /\ ab \o c \in Seq(S) /\ Len(ab \o c) = Len(ab) + Len(c)
        /\ \A i \in 1..Len(ab) + Len(c) : (ab \o c)[i] = IF i <= Len(ab) THEN ab[i] ELSE c[i - Len(ab)]
    BY ConcatProperties, Zenon
  <2>2. Len(ab) + Len(c) = Len(c) + 3
    BY <1>4
  <2>3. QED
    BY <1>4, <2>1, <2>2, Zenon
<1>6. /\ (ab \o c)[1] = ab[1] /\ (ab \o c)[2] = ab[2] /\ (ab \o c)[3] = ab[3]
      /\ \A i \in 1..Len(c) : (ab \o c)[i + 3] = c[i]
  BY <1>5
<1>7. QED
  BY <1>3, <1>4, <1>5, <1>6

\* The tasks of a split, by place.
LEMMA DividedParts ==
  ASSUME NEW s \in Seq(Tasks), s # <<>>, NEW f \in Fragments \cap Splittable, Len(f) < Depth
  PROVE  /\ Divided(s, f) \in Seq(Tasks) /\ Len(Divided(s, f)) = Len(s) + 2
         /\ Divided(s, f)[1] = <<"resolve", Append(f, 1)>> /\ Divided(s, f)[2] = <<"resolve", Append(f, 2)>>
         /\ Divided(s, f)[3] = <<"merge", f>>
         /\ \A i \in 2..Len(s) : Divided(s, f)[i + 2] = s[i]
<1>1. PICK both : both = [i \in 1..2 |-> <<"resolve", Children(f)[i]>>]
  OBVIOUS
<1>2. PICK merge : merge = <<<<"merge", f>>>>
  OBVIOUS
<1>3. Append(f, 1) \in Fragments /\ Append(f, 2) \in Fragments
  BY HalvesJoin
<1>4. both[1] = <<"resolve", Append(f, 1)>> /\ both[2] = <<"resolve", Append(f, 2)>>
  BY <1>1 DEF Children
<1>5. both[1] \in Tasks /\ both[2] \in Tasks
  <2>1. \A g \in Fragments : <<"resolve", g>> \in Tasks
    BY DEF Tasks
  <2>2. QED
    BY <1>3, <1>4, <2>1, Zenon
<1>6. both \in Seq(Tasks) /\ Len(both) = 2
  BY <1>1, <1>5
<1>7. merge \in Seq(Tasks) /\ Len(merge) = 1 /\ merge[1] = <<"merge", f>>
  BY <1>2 DEF Tasks
<1>8. /\ Tail(s) \in Seq(Tasks) /\ Len(Tail(s)) = Len(s) - 1 /\ Len(s) \in Nat \ {0}
      /\ \A i \in 1..Len(Tail(s)) : Tail(s)[i] = s[i + 1]
  OBVIOUS
<1>9. Divided(s, f) = both \o merge \o Tail(s)
  BY <1>1, <1>2 DEF Divided
<1>10. PICK new : new = both \o merge \o Tail(s)
  OBVIOUS
<1>11. /\ new \in Seq(Tasks) /\ Len(new) = Len(s) + 2
       /\ new[1] = both[1] /\ new[2] = both[2] /\ new[3] = merge[1]
       /\ \A i \in 1..Len(s) - 1 : new[i + 3] = Tail(s)[i]
  <2>1. Len(Tail(s)) + 3 = Len(s) + 2 /\ Len(Tail(s)) = Len(s) - 1
    BY <1>8
  <2>2. QED
    BY <1>6, <1>7, <1>8, <1>10, <2>1, ThreeParts, SMTT(30)
<1>12. ASSUME NEW i \in 2..Len(s) PROVE new[i + 2] = s[i]
  <2>1. i - 1 \in 1..Len(s) - 1 /\ i - 1 + 3 = i + 2 /\ i - 1 + 1 = i
    BY <1>8
  <2>2. new[i - 1 + 3] = Tail(s)[i - 1] /\ Tail(s)[i - 1] = s[i - 1 + 1]
    BY <1>8, <1>11, <2>1
  <2>3. QED
    BY <2>1, <2>2
<1>13. QED
  BY <1>4, <1>7, <1>9, <1>10, <1>11, <1>12

\* A fragment that is split leaves a stack in order.
LEMMA DividedStack ==
  ASSUME NEW s \in Seq(Tasks), s # <<>>, NEW read, Stacked(read, s),
         NEW f \in Splittable, f = s[1][2], Len(f) < Depth,
         NEW new \in Seq(Tasks), Len(new) = Len(s) + 2,
         new[1] = <<"resolve", Append(f, 1)>>, new[2] = <<"resolve", Append(f, 2)>>, new[3] = <<"merge", f>>,
         \A i \in 2..Len(s) : new[i + 2] = s[i]
  PROVE  Stacked(read, new)
<1>1. Len(s) \in Nat \ {0} /\ Len(new) \in Nat
  OBVIOUS
<1>2. ASSUME NEW i \in 2..Len(s), NEW g, InReach(read, s, i, g) PROVE InReach(read, new, i + 2, g)
  <2>1. ASSUME NEW j \in 1..(i - 1), s[j][2] = g PROVE \E k \in 1..(i + 2 - 1) : new[k][2] = g
    <3>1. CASE j = 1
      <4>1. new[3][2] = g /\ 3 \in 1..(i + 2 - 1)
        BY <1>1, <2>1, <3>1
      <4>2. QED
        BY <4>1
    <3>2. CASE j # 1
      <4>1. j \in 2..Len(s) /\ j + 2 \in 1..(i + 2 - 1)
        BY <1>1, <3>2
      <4>2. QED
        BY <2>1, <4>1
    <3>3. QED
      BY <3>1, <3>2
  <2>2. QED
    <3>1. CASE \E p \in read : p[1] = g
      BY <3>1 DEF InReach
    <3>2. CASE \E j \in 1..(i - 1) : s[j][2] = g
      <4>1. \E k \in 1..(i + 2 - 1) : new[k][2] = g
        BY <2>1, <3>2
      <4>2. QED
        BY <4>1 DEF InReach
    <3>3. QED
      BY <1>2, <3>1, <3>2 DEF InReach
<1>3. ASSUME NEW i \in 1..Len(new), new[i][1] = "merge"
      PROVE  /\ Len(new[i][2]) < Depth /\ new[i][2] \in Splittable
             /\ \A h \in {1, 2} : InReach(read, new, i, Append(new[i][2], h))
  <2>1. i # 1 /\ i # 2
    BY <1>3
  <2>2. CASE i = 3
    <3>1. \A g : <<"resolve", g>>[2] = g /\ <<"merge", g>>[2] = g
      OBVIOUS
    <3>2. new[i][2] = f /\ new[1][2] = Append(f, 1) /\ new[2][2] = Append(f, 2)
      BY <2>2, <3>1, Zenon
    <3>3. 1 \in 1..(i - 1) /\ 2 \in 1..(i - 1)
      BY <2>2
    <3>4. ASSUME NEW h \in {1, 2} PROVE h \in 1..(i - 1) /\ new[h][2] = Append(f, h)
      <4>1. h = 1 \/ h = 2
        OBVIOUS
      <4>2. QED
        BY <3>2, <3>3, <4>1, Zenon
    <3>5. QED
      BY <3>2, <3>4 DEF InReach
  <2>3. CASE i > 3
    <3>1. PICK k \in 2..Len(s) : i = k + 2
      <4>1. i - 2 \in 2..Len(s) /\ i = i - 2 + 2
        BY <1>1, <2>3
      <4>2. QED
        BY <4>1
    <3>2. new[i] = s[k] /\ k \in 1..Len(s)
      BY <1>1, <3>1
    <3>3. QED
      BY <1>2, <1>3, <3>1, <3>2 DEF Stacked
  <2>4. QED
    BY <1>1, <2>1, <2>2, <2>3
<1>4. new[Len(new)][2] = Root
  <2>1. CASE Len(s) = 1
    <3>1. f = Root
      BY <2>1 DEF Stacked
    <3>2. Len(new) = 3 /\ \A g : <<"merge", g>>[2] = g
      BY <2>1
    <3>3. QED
      BY <3>1, <3>2, Zenon
  <2>2. CASE Len(s) # 1
    <3>1. Len(s) \in 2..Len(s)
      <4>1. \A n \in Nat \ {0} : n # 1 => n \in 2..n
        OBVIOUS
      <4>2. QED
        BY <1>1, <2>2, <4>1, Zenon
    <3>2. new[Len(new)] = s[Len(s)] /\ Len(s) > 0
      BY <1>1, <3>1
    <3>3. QED
      BY <3>2 DEF Stacked
  <2>3. QED
    BY <2>1, <2>2
<1>5. QED
  BY <1>3, <1>4 DEF Stacked

-----------------------------------------------------------------------------
\* The first task is a task, and the others are tasks.
LEMMA HeadTask ==
  ASSUME StackInv, NEW c \in 1..Chunks, unfinished[c] # <<>>
  PROVE  /\ unfinished[c] \in Seq(Tasks) /\ Len(unfinished[c]) \in Nat \ {0}
         /\ Head(unfinished[c]) = unfinished[c][1] /\ Head(unfinished[c])[2] \in Fragments
         /\ Whole(readings[c]) /\ Stacked(readings[c], unfinished[c])
BY DEF StackInv, Tasks

\* A fragment that is read keeps the invariant.
LEMMA ReadKeeps ==
  ASSUME StackInv, NEW c \in 1..Chunks, unfinished[c] # <<>>,
         Read(c, Head(unfinished[c])[2], Quarters(Head(unfinished[c])[2]))
  PROVE  StackInv'
<1> DEFINE s == unfinished[c]  f == Head(s)[2]  after == readings[c] \cup {<<f, Quarters(f)>>}
<1>1. /\ s \in Seq(Tasks) /\ s # <<>> /\ Len(s) \in Nat \ {0} /\ Head(s) = s[1] /\ f \in Fragments
      /\ Whole(readings[c]) /\ Stacked(readings[c], s)
  BY HeadTask
<1>2. readings' = [readings EXCEPT ![c] = after]
  BY DEF Read
<1>3. Whole(after) /\ <<f, Quarters(f)>> \in after /\ <<f, Quarters(f)>>[1] = f
  BY <1>1 DEF Whole
<1>4. Stacked(after, Tail(s)) /\ Tail(s) \in Seq(Tasks)
  <2>1. readings[c] \subseteq after /\ \E p \in after : p[1] = f
    BY <1>3
  <2>2. QED
    BY <1>1, <2>1, PoppedStack
<1>5. DOMAIN readings' = 1..Chunks /\ readings'[c] = after
          /\ \A d \in 1..Chunks \ {c} : readings'[d] = readings[d]
  BY <1>2 DEF StackInv
<1>6. CASE Len(s) = 1
  <2>1. f = Root
    BY <1>1, <1>6 DEF Stacked
  <2>2. /\ unfinished' = [unfinished EXCEPT ![c] = <<>>]
        /\ chunkOutcome' = [chunkOutcome EXCEPT ![c] = "ok"]
    BY <1>6 DEF Read, Ended
  <2>3. <<>> \in Seq(Tasks) /\ Stacked(after, <<>>)
    BY DEF Stacked
  <2>4. \E p \in after : p[1] = Root
    BY <1>3, <2>1
  <2>5. QED
    BY <1>3, <1>5, <2>2, <2>3, <2>4 DEF StackInv
<1>7. CASE Len(s) # 1
  <2>1. unfinished' = [unfinished EXCEPT ![c] = Tail(s)] /\ chunkOutcome' = chunkOutcome
    BY <1>7 DEF Read
  <2>2. chunkOutcome[c] = "ok" => \E p \in after : p[1] = Root
    BY DEF StackInv
  <2> HIDE DEF after, s
  <2>3. QED
    BY <1>3, <1>4, <1>5, <2>1, <2>2 DEF StackInv
<1>8. QED
  BY <1>6, <1>7

\* So does a chunk that ends without an answer.
LEMMA EndedKeeps ==
  ASSUME StackInv, NEW c \in 1..Chunks, Ended(c, "failed"), readings' = readings
  PROVE  StackInv'
<1>1. <<>> \in Seq(Tasks) /\ Stacked(readings[c], <<>>)
  BY DEF Stacked
<1>2. QED
  BY <1>1 DEF StackInv, Ended

\* So does a fragment that is split and marked so.
LEMMA SplitKeeps ==
  ASSUME StackInv, NEW c \in 1..Chunks, unfinished[c] # <<>>, Split(c, Head(unfinished[c])[2]),
      readings' = readings
  PROVE  StackInv'
<1> DEFINE s == unfinished[c]  f == Head(s)[2]
<1>1. /\ s \in Seq(Tasks) /\ s # <<>> /\ Len(s) \in Nat \ {0} /\ Head(s) = s[1] /\ f \in Fragments
      /\ Whole(readings[c]) /\ Stacked(readings[c], s)
  BY HeadTask
<1>2. CASE Len(f) >= Depth \/ Children(f) = <<>>
  BY <1>2, EndedKeeps DEF Split
<1>3. CASE ~(Len(f) >= Depth \/ Children(f) = <<>>)
  <2>1. unfinished' = [unfinished EXCEPT ![c] = Divided(s, f)] /\ chunkOutcome' = chunkOutcome
    BY <1>3 DEF Split, Divided
  <2>2. f \in Splittable /\ Len(f) < Depth
    <3>1. Len(f) \in Nat /\ Depth \in Nat
      BY <1>1 DEF Fragments, Depth
    <3>2. QED
      BY <1>3, <3>1 DEF Children
  <2>3. Divided(s, f) \in Seq(Tasks) /\ Stacked(readings[c], Divided(s, f))
    <3>1. /\ Divided(s, f) \in Seq(Tasks) /\ Len(Divided(s, f)) = Len(s) + 2
          /\ Divided(s, f)[1] = <<"resolve", Append(f, 1)>> /\ Divided(s, f)[2] = <<"resolve", Append(f, 2)>>
          /\ Divided(s, f)[3] = <<"merge", f>>
          /\ \A i \in 2..Len(s) : Divided(s, f)[i + 2] = s[i]
      BY <1>1, <2>2, DividedParts
    <3>2. QED
      BY <1>1, <2>2, <3>1, DividedStack
  <2> HIDE DEF s, f
  <2>4. QED
    BY <1>1, <2>1, <2>3 DEF StackInv
<1>4. QED
  BY <1>2, <1>3

\* Merging gives what reading the whole fragment would have given.
LEMMA MergedWhole ==
  ASSUME StackInv, NEW c \in 1..Chunks, unfinished[c] # <<>>, Head(unfinished[c])[1] = "merge"
  PROVE  MergedHalves(c, Head(unfinished[c])[2]) = Quarters(Head(unfinished[c])[2])
<1> DEFINE s == unfinished[c]  f == Head(s)[2]
<1>1. /\ s \in Seq(Tasks) /\ Len(s) \in Nat \ {0} /\ Head(s) = s[1] /\ f \in Fragments
      /\ Whole(readings[c]) /\ Stacked(readings[c], s)
  BY HeadTask
<1>2. /\ Len(f) < Depth /\ f \in Splittable
      /\ \A h \in {1, 2} : InReach(readings[c], s, 1, Append(f, h))
  BY <1>1 DEF Stacked
<1>3. \A h \in {1, 2} : \E p \in readings[c] : p[1] = Append(f, h)
  BY <1>2 DEF InReach
<1>4. \A h \in {1, 2} : Children(f)[h] = Append(f, h)
  <2> HIDE DEF s, f
  <2>1. Children(f) = <<Append(f, 1), Append(f, 2)>>
    BY <1>2, Zenon DEF Children
  <2> DEFINE one == Append(f, 1)  two == Append(f, 2)
  <2>2. Children(f)[1] = one /\ Children(f)[2] = two
    <3> HIDE DEF one, two
    <3>1. <<one, two>>[1] = one /\ <<one, two>>[2] = two
      OBVIOUS
    <3>2. QED
      BY <2>1, <3>1, Zenon DEF one, two
  <2>3. QED
    BY <2>2
<1>5. \A h \in {1, 2} : (CHOOSE p \in readings[c] : p[1] = Children(f)[h])[2] = Quarters(Append(f, h))
  BY <1>1, <1>3, <1>4 DEF Whole
<1>6. Quarters(Append(f, 1)) \o Quarters(Append(f, 2)) = Quarters(f)
  BY <1>1, <1>2, HalvesJoin
<1>7. QED
  BY <1>5, <1>6 DEF MergedHalves

\* A kept value is that of the whole fragment.
LEMMA ValueWhole ==
  ASSUME KeptWhole(checkpoints), NEW c \in 1..Chunks, NEW f, NEW k \in Results(c, f)
  PROVE  ValueOf(c, f, k) = Quarters(f)
<1>1. k \in {"chunk", "result"} /\ \E v \in checkpoints : v[1] = c /\ v[2] = f /\ v[3] = k
  BY DEF Results, Kind, Cached
<1>2. PICK v \in checkpoints : v[1] = c /\ v[2] = f /\ v[3] = k /\ ValueOf(c, f, k) = v[4]
  BY <1>1 DEF ValueOf
<1>3. QED
  BY <1>1, <1>2 DEF KeptWhole

\* Every step of a reader keeps the invariant.
LEMMA StepKeeps ==
  ASSUME ChunkInv, NEW c \in 1..Chunks, Step(c)
  PROVE  ChunkInv'
<1> DEFINE f == Head(unfinished[c])[2]
<1>1. /\ unfinished[c] # <<>> /\ cacheOn' = cacheOn /\ untaken' = untaken
      /\ chunkPc' = chunkPc /\ profile' = profile /\ chunkPc # "profile"
  BY DEF Step
<1>2. StackInv /\ f \in Fragments /\ KeptWhole(checkpoints)
  BY <1>1, HeadTask DEF ChunkInv
<1>3. SUFFICES StackInv' /\ KeptWhole(checkpoints') /\ (refused' # {} => cacheOn) /\ SplitsMarked(refused',
          checkpoints')
  BY <1>1 DEF ChunkInv, ProfileWhole
<1>4. ASSUME NEW k \in {"chunk", "result"}, checkpoints' = WithResult(c, f, k, Quarters(f)), refused' = refused
      PROVE  KeptWhole(checkpoints') /\ (refused' # {} => cacheOn) /\ SplitsMarked(refused', checkpoints')
  <2>1. checkpoints' \subseteq checkpoints \cup {<<c, f, k, Quarters(f)>>} /\ checkpoints \subseteq checkpoints'
    BY <1>4 DEF WithResult
  <2>2. QED
    BY <1>4, <2>1 DEF ChunkInv, KeptWhole, SplitsMarked
<1>5. ASSUME checkpoints' = checkpoints, refused' = refused
      PROVE  KeptWhole(checkpoints') /\ (refused' # {} => cacheOn) /\ SplitsMarked(refused', checkpoints')
  BY <1>5 DEF ChunkInv
<1>6. CASE Head(unfinished[c])[1] = "merge" /\ MergeHalves(c, f)
  <2>1. Read(c, f, Quarters(f)) /\ checkpoints' = WithResult(c, f, "result", Quarters(f)) /\ refused' = refused
    BY <1>1, <1>2, <1>6, MergedWhole DEF MergeHalves
  <2>2. QED
    BY <1>1, <1>2, <1>4, <2>1, ReadKeeps
<1>7. CASE FromCache(c, f)
  <2>1. PICK k \in Results(c, f) : Read(c, f, ValueOf(c, f, k))
    BY <1>7 DEF FromCache
  <2>2. Read(c, f, Quarters(f)) /\ checkpoints' = checkpoints /\ refused' = refused
    BY <1>2, <1>7, <2>1, ValueWhole DEF FromCache
  <2>3. QED
    BY <1>1, <1>2, <1>5, <2>2, ReadKeeps
<1>8. CASE FromCheckpoint(c, f)
  BY <1>1, <1>2, <1>5, <1>8, SplitKeeps DEF FromCheckpoint
<1>9. CASE Ask(c, f)
  <2>1. CASE Ended(c, "failed") /\ UNCHANGED <<checkpoints, readings, refused>>
    BY <1>2, <1>5, <2>1, EndedKeeps
  <2>2. CASE Read(c, f, Quarters(f)) /\ checkpoints' = WithResult(c, f, Kind(f), Quarters(f))
            /\ refused' = refused
    <3>1. Kind(f) \in {"chunk", "result"}
      BY DEF Kind
    <3>2. QED
      BY <1>1, <1>2, <1>4, <2>2, <3>1, ReadKeeps
  <2>3. CASE /\ checkpoints' = MarkTruncated(c, f) /\ Split(c, f) /\ readings' = readings
             /\ refused' = IF cacheOn /\ Len(f) < Depth /\ f \in Splittable THEN refused \cup {<<c,
                 f>>} ELSE refused
    <3>1. StackInv'
      BY <1>1, <1>2, <2>3, SplitKeeps
    <3>2. checkpoints' \subseteq checkpoints \cup {<<c, f, "split", <<>>>>}
              /\ checkpoints \subseteq checkpoints'
      BY <2>3 DEF MarkTruncated
    <3>3. KeptWhole(checkpoints')
      BY <1>2, <3>2 DEF KeptWhole
    <3>4. CASE cacheOn /\ Len(f) < Depth /\ f \in Splittable
      <4>1. Children(f) # <<>>
        BY <3>4 DEF Children
      <4>2. <<c, f, "split", <<>>>> \in checkpoints' /\ refused' = refused \cup {<<c, f>>}
        BY <2>3, <3>4, <4>1 DEF MarkTruncated
      <4>3. QED
        BY <3>1, <3>2, <3>3, <3>4, <4>2 DEF ChunkInv, SplitsMarked
    <3>5. CASE ~(cacheOn /\ Len(f) < Depth /\ f \in Splittable)
      <4>1. refused' = refused
        BY <2>3, <3>5
      <4>2. QED
        BY <3>1, <3>2, <3>3, <4>1 DEF ChunkInv, SplitsMarked
    <3>6. QED
      BY <3>4, <3>5
  <2>4. QED
    BY <1>9, <2>1, <2>2, <2>3 DEF Ask
<1>10. QED
  BY <1>6, <1>7, <1>8, <1>9 DEF Step

\* Nothing to do is in order.
LEMMA NothingStacked == <<>> \in Seq(Tasks) /\ \A read : Stacked(read, <<>>)
<1>1. <<>> \in Seq(Tasks) /\ Len(<<>>) = 0
  OBVIOUS
<1>2. QED
  BY <1>1 DEF Stacked

\* The first state satisfies the invariant.
LEMMA ChunkStart == ChunksInit => ChunkInv
<1> SUFFICES ASSUME ChunksInit PROVE ChunkInv
  OBVIOUS
<1>1. StackInv
  <2>1. unfinished \in [1..Chunks -> Seq(Tasks)]
    BY NothingStacked DEF ChunksInit
  <2>2. DOMAIN readings = 1..Chunks /\ DOMAIN chunkOutcome = 1..Chunks
    BY DEF ChunksInit
  <2>3. ASSUME NEW c \in 1..Chunks
        PROVE  unfinished[c] = <<>> /\ readings[c] = {} /\ chunkOutcome[c] = ""
    BY DEF ChunksInit
  <2>4. QED
    BY <2>1, <2>2, <2>3, NothingStacked DEF StackInv, Whole
<1>2. untaken \in Seq(1..Chunks)
  <2>1. untaken = <<>>
    BY DEF ChunksInit
  <2>2. \A S : <<>> \in Seq(S)
    OBVIOUS
  <2>3. QED
    BY <2>1, <2>2
<1>3. checkpoints = {} /\ refused = {} /\ chunkPc = "idle"
  BY DEF ChunksInit
<1>4. QED
  BY <1>1, <1>2, <1>3 DEF ChunkInv, KeptWhole, SplitsMarked, ProfileWhole

\* Every step keeps the invariant.
LEMMA ChunkStep == ChunkInv /\ [ChunksNext]_chunkVars => ChunkInv'
<1> SUFFICES ASSUME ChunkInv, [ChunksNext]_chunkVars PROVE ChunkInv'
  OBVIOUS
<1>1. CASE Begin
  <2>1. StackInv'
    <3>1. unfinished' \in [1..Chunks -> Seq(Tasks)]
      BY <1>1, NothingStacked DEF Begin
    <3>2. DOMAIN readings' = 1..Chunks /\ DOMAIN chunkOutcome' = 1..Chunks
      BY <1>1 DEF Begin
    <3>3. ASSUME NEW c \in 1..Chunks
          PROVE  unfinished'[c] = <<>> /\ readings'[c] = {} /\ chunkOutcome'[c] = ""
      BY <1>1 DEF Begin
    <3>4. QED
      BY <3>1, <3>2, <3>3, NothingStacked DEF StackInv, Whole
  <2>2. untaken' \in Seq(1..Chunks)
    <3>1. [i \in 1..Chunks |-> i] \in [1..Chunks -> 1..Chunks]
      OBVIOUS
    <3>2. [i \in 1..Chunks |-> i] \in Seq(1..Chunks)
      BY <3>1, ChunkAssumption
    <3>3. QED
      BY <1>1, <3>2 DEF Begin
  <2>3. QED
    BY <1>1, <2>1, <2>2 DEF Begin, ChunkInv, ProfileWhole
<1>2. CASE TakeChunk
  <2>1. Head(untaken) \in 1..Chunks /\ untaken' \in Seq(1..Chunks)
    <3>1. untaken \in Seq(1..Chunks) /\ untaken # <<>> /\ untaken' = Tail(untaken)
      BY <1>2 DEF TakeChunk, ChunkInv
    <3>2. QED
      BY <3>1, HeadTailProperties
  <2>2. <<<<"resolve", Root>>>> \in Seq(Tasks) /\ \A read : Stacked(read, <<<<"resolve", Root>>>>)
    <3>1. <<"resolve", Root>> \in Tasks
      BY FragmentsAre DEF Tasks, Root
    <3>2. QED
      BY <3>1 DEF Stacked
  <2>3. StackInv'
    BY <1>2, <2>1, <2>2 DEF TakeChunk, ChunkInv, StackInv
  <2>4. QED
    BY <1>2, <2>1, <2>3 DEF TakeChunk, ChunkInv, ProfileWhole
<1>3. CASE Cancel
  <2>1. StackInv'
    BY <1>3 DEF Cancel, ChunkInv, StackInv
  <2>2. QED
    BY <1>3, <2>1 DEF Cancel, ChunkInv, ProfileWhole
<1>4. CASE RaiseFailure
  BY <1>4 DEF RaiseFailure, ChunkInv, StackInv, ProfileWhole
<1>5. CASE Overview
  <2>1. StackInv'
    BY <1>5 DEF Overview, ChunkInv, StackInv
  <2>2. checkpoints \subseteq checkpoints' /\ \A v \in checkpoints' : v \in checkpoints \/ v[1] = 0
    BY <1>5 DEF Overview
  <2>3. KeptWhole(checkpoints') /\ SplitsMarked(refused, checkpoints')
    BY <2>2 DEF ChunkInv, KeptWhole, SplitsMarked
  <2>4. \A c \in 1..Chunks : Content(c) = Quarters(Root)
    <3>1. ASSUME NEW c \in 1..Chunks PROVE Content(c) = Quarters(Root)
      <4>1. Whole(readings[c]) /\ \E p \in readings[c] : p[1] = Root
        BY <1>5 DEF Overview, EveryChunkRead, ChunkInv, StackInv
      <4>2. QED
        BY <4>1 DEF Whole, Content
    <3>2. QED
      BY <3>1
  <2>5. ProfileWhole'
    <3>1. Quarters(Root) = <<1, 2, 3, 4>>
      BY DEF Quarters
    <3>2. chunkPc' = "profile" => profile' = [c \in 1..Chunks |-> Content(c)]
      BY <1>5 DEF Overview
    <3>3. QED
      BY <2>4, <3>1, <3>2 DEF ProfileWhole
  <2>6. QED
    BY <1>5, <2>1, <2>3, <2>5 DEF Overview, ChunkInv
<1>6. ASSUME NEW c \in 1..Chunks, Step(c) PROVE ChunkInv'
  BY <1>6, StepKeeps
<1>7. CASE UNCHANGED chunkVars
  BY <1>7 DEF chunkVars, ChunkInv, StackInv, ProfileWhole
<1>8. QED
  BY <1>1, <1>2, <1>3, <1>4, <1>5, <1>6, <1>7 DEF ChunksNext

(* A profile holds every chunk in full, and what was cut off is not asked for again. *)
THEOREM ChunksWhole == ChunksSpec => [](ProfileWhole /\ CutOffNotRepeated)
<1>1. ChunkInv => ProfileWhole /\ CutOffNotRepeated
  <2> SUFFICES ASSUME ChunkInv, NEW c \in 1..Chunks, NEW f, <<c, f>> \in refused PROVE Cached(c, f, "split")
    BY DEF ChunkInv, CutOffNotRepeated
  <2>1. <<c, f, "split", <<>>>> \in checkpoints /\ cacheOn
    BY DEF ChunkInv, SplitsMarked
  <2>2. QED
    BY <2>1 DEF Cached
<1>2. QED
  BY <1>1, ChunkStart, ChunkStep, PTL DEF ChunksSpec

-----------------------------------------------------------------------------
(* The batches of a list *)

\* Items in the order of the list.
Lists == {s \in Seq(1..PoolItems) : Len(s) >= 1 /\ \A i, j \in 1..Len(s) : i < j => s[i] < s[j]}
Shorter(s, t) == \A i \in 1..Len(s), j \in 1..Len(t) : s[i] < t[j]

\* What is left to ask for, and what was answered.
PoolParts == [items : Lists, depth : Nat]
PoolAnswers == [asked : Lists, said : Seq(1..PoolItems)]

\* What a batch was asked for and what is left of it are its items, in order.
AskedInFull(b, told, left) ==
  /\ \A k, l \in 1..Len(told) : k < l => Shorter(told[k].asked, told[l].asked)
  /\ \A k, l \in 1..Len(left) : k < l => Shorter(left[k].items, left[l].items)
  /\ \A k \in 1..Len(told), l \in 1..Len(left) : Shorter(told[k].asked, left[l].items)
  /\ \A i \in 1..PoolItems : In(i, Batch(b)) <=>
       \/ \E k \in 1..Len(told) : In(i, told[k].asked)
       \/ \E k \in 1..Len(left) : In(i, left[k].items)

\* Multiples keep their order.
LEMMA Multiples ==
  ASSUME NEW a \in Int, NEW b \in Int, NEW c \in Nat, a <= b
  PROVE  a * c \in Int /\ b * c \in Int /\ a * c <= b * c /\ (a - 1) * c = a * c - c
  OBVIOUS

\* A quotient is the last whole multiple below its dividend.
LEMMA Quotient ==
  ASSUME NEW a \in Nat, NEW c \in Nat \ {0}
  PROVE  (a \div c) \in Nat /\ (a \div c) * c <= a /\ a < (a \div c) * c + c
  OBVIOUS

\* There are as many batches as hold the items, and no empty one.
LEMMA BatchesAre ==
  \E q \in Nat : Batches = 1..q /\ q * BatchSize \in Int /\ PoolItems <= q * BatchSize
      /\ q * BatchSize < PoolItems + BatchSize
<1> DEFINE a == PoolItems + BatchSize - 1
<1>1. a \in Nat /\ BatchSize \in Nat \ {0}
  BY PoolAssumption
<1>2. (a \div BatchSize) \in Nat /\ (a \div BatchSize) * BatchSize <= a
          /\ a < (a \div BatchSize) * BatchSize + BatchSize
  BY <1>1, Quotient
<1>3. (a \div BatchSize) * BatchSize \in Int
  BY <1>1, <1>2
<1>4. Batches = 1..(a \div BatchSize)
  BY DEF Batches
<1> DEFINE q == a \div BatchSize  m == q * BatchSize
<1>5. q \in Nat /\ m \in Int /\ m <= a /\ a < m + BatchSize
  BY <1>2, <1>3
<1> HIDE DEF q, m
<1>6. PoolItems <= m /\ m < PoolItems + BatchSize
  BY <1>5, PoolAssumption
<1>7. QED
  BY <1>4, <1>5, <1>6 DEF q, m

\* The items of a batch are consecutive.
LEMMA BatchIs ==
  ASSUME NEW b \in Batches
  PROVE  /\ Batch(b) \in Lists /\ b \in Nat
         /\ (b - 1) * BatchSize \in Int /\ b * BatchSize \in Int
             /\ b * BatchSize = (b - 1) * BatchSize + BatchSize
         /\ \A i \in 1..PoolItems : In(i, Batch(b)) <=> (b - 1) * BatchSize < i /\ i <= b * BatchSize
<1>1. PICK q \in Nat : Batches = 1..q /\ q * BatchSize \in Int /\ PoolItems <= q * BatchSize
          /\ q * BatchSize < PoolItems + BatchSize
  BY BatchesAre
<1>2. b \in Nat /\ 1 <= b /\ b <= q /\ BatchSize \in Nat /\ BatchSize >= 1 /\ PoolItems \in Nat
  BY <1>1, PoolAssumption
<1>3. b * BatchSize \in Int /\ b * BatchSize <= q * BatchSize /\ (b - 1) * BatchSize = b * BatchSize - BatchSize
  BY <1>2, Multiples
<1>4. 0 <= (b - 1) * BatchSize
  <2>1. 0 * BatchSize <= (b - 1) * BatchSize /\ 0 * BatchSize = 0
    BY <1>2, Multiples
  <2>2. QED
    BY <2>1
<1> DEFINE h == (b - 1) * BatchSize
           m == Min({BatchSize, PoolItems - h})
<1>5. h \in Nat /\ b * BatchSize = h + BatchSize /\ h < PoolItems
  BY <1>1, <1>2, <1>3, <1>4
<1>6. m = IF BatchSize <= PoolItems - h THEN BatchSize ELSE PoolItems - h
  BY <1>2, <1>5, MinOfTwo
<1>7. Batch(b) = [i \in 1..m |-> h + i]
  BY DEF Batch
<1> HIDE DEF h, m
<1>8. m \in Nat /\ m >= 1 /\ h + m <= PoolItems /\ m <= BatchSize
      /\ (m = BatchSize \/ h + m = PoolItems)
  BY <1>2, <1>5, <1>6
<1>9. Batch(b) \in [1..m -> 1..PoolItems]
  BY <1>2, <1>5, <1>7, <1>8
<1>10. Batch(b) \in Seq(1..PoolItems) /\ Len(Batch(b)) = m
  <2>1. \A S : \A n \in Nat : \A s \in [1..n -> S] : s \in Seq(S) /\ Len(s) = n
    OBVIOUS
  <2>2. QED
    BY <1>8, <1>9, <2>1
<1>11. \A i, j \in 1..m : i < j => Batch(b)[i] < Batch(b)[j]
  BY <1>5, <1>7, <1>8
<1>12. Batch(b) \in Lists
  BY <1>8, <1>10, <1>11 DEF Lists
<1>13. ASSUME NEW i \in 1..PoolItems PROVE In(i, Batch(b)) <=> h < i /\ i <= h + BatchSize
  <2>1. In(i, Batch(b)) <=> \E n \in 1..m : h + n = i
    BY <1>7, <1>10 DEF In
  <2>2. (\E n \in 1..m : h + n = i) <=> h < i /\ i <= h + BatchSize
    <3>1. CASE h < i /\ i <= h + BatchSize
      <4>1. i - h \in 1..m /\ h + (i - h) = i
        BY <1>2, <1>5, <1>8, <3>1
      <4>2. QED
        BY <3>1, <4>1
    <3>2. CASE ~(h < i /\ i <= h + BatchSize)
      BY <1>2, <1>5, <1>8, <3>2
    <3>3. QED
      BY <3>1, <3>2
  <2>3. QED
    BY <2>1, <2>2
<1>14. QED
  BY <1>2, <1>3, <1>5, <1>12, <1>13 DEF h

\* Every item is in a batch.
LEMMA BatchOfItem == ASSUME NEW i \in 1..PoolItems PROVE \E b \in Batches : In(i, Batch(b))
<1>1. PICK q \in Nat : Batches = 1..q /\ q * BatchSize \in Int /\ PoolItems <= q * BatchSize
          /\ q * BatchSize < PoolItems + BatchSize
  BY BatchesAre
<1> DEFINE d == (i - 1) \div BatchSize
<1>2. d \in Nat /\ d * BatchSize <= i - 1 /\ i - 1 < d * BatchSize + BatchSize
  BY PoolAssumption, Quotient
<1>3. d * BatchSize \in Int
  BY <1>2, PoolAssumption
<1> HIDE DEF d
<1>4. d + 1 <= q
  <2>1. CASE q <= d
    <3>1. q * BatchSize <= d * BatchSize
      BY <1>1, <1>2, <2>1, PoolAssumption, Multiples
    <3>2. QED
      BY <1>1, <1>2, <1>3, <3>1, PoolAssumption
  <2>2. QED
    BY <1>1, <1>2, <2>1
<1>5. d + 1 \in Batches /\ (d + 1) - 1 = d
  BY <1>1, <1>2, <1>4
<1>6. \A j \in 1..PoolItems : In(j, Batch(d + 1)) <=> ((d + 1) - 1) * BatchSize < j /\ j <= (d + 1) * BatchSize
  BY <1>5, BatchIs
<1>7. (d + 1) * BatchSize = d * BatchSize + BatchSize
  <2>1. (d + 1) * BatchSize = ((d + 1) - 1) * BatchSize + BatchSize
    BY <1>5, BatchIs
  <2>2. QED
    BY <1>5, <2>1
<1>8. d * BatchSize < i /\ i <= d * BatchSize + BatchSize
  BY <1>2, <1>3, PoolAssumption
<1>9. In(i, Batch(d + 1))
  BY <1>5, <1>6, <1>7, <1>8
<1>10. QED
  BY <1>5, <1>9

\* The first part of what is left is answered.
LEMMA AnswerAccounted ==
  ASSUME NEW b, NEW told \in Seq(PoolAnswers), NEW left \in Seq(PoolParts), left # <<>>,
         AskedInFull(b, told, left), NEW said \in Seq(1..PoolItems)
  PROVE  /\ Append(told, [asked |-> Head(left).items, said |-> said]) \in Seq(PoolAnswers)
         /\ Tail(left) \in Seq(PoolParts)
         /\ AskedInFull(b, Append(told, [asked |-> Head(left).items, said |-> said]), Tail(left))
<1> DEFINE new == [asked |-> Head(left).items, said |-> said]
           t == Append(told, new)
           u == Tail(left)
<1>1. /\ Head(left) \in PoolParts /\ u \in Seq(PoolParts) /\ Len(u) = Len(left) - 1 /\ Head(left) = left[1]
      /\ \A i \in 1..Len(u) : u[i] = left[i + 1]
  BY HeadTailProperties
<1>2. Len(left) \in Nat /\ Len(left) >= 1 /\ Len(told) \in Nat
  BY EmptySeq
<1>3. new \in PoolAnswers /\ new.asked = left[1].items
  BY <1>1 DEF PoolAnswers, PoolParts
<1> HIDE DEF new
<1>4. /\ t \in Seq(PoolAnswers) /\ Len(t) = Len(told) + 1 /\ t[Len(told) + 1] = new
      /\ \A i \in 1..Len(told) : t[i] = told[i]
  BY <1>3, AppendProperties
<1> HIDE DEF t, u
<1>5. \A k \in 1..Len(t) : k \in 1..Len(told) \/ k = Len(told) + 1
  BY <1>2, <1>4
<1>6. \A k \in 1..Len(u) : k + 1 \in 1..Len(left)
  BY <1>1, <1>2
<1>7. \A k, l \in 1..Len(t) : k < l => Shorter(t[k].asked, t[l].asked)
  <2>1. ASSUME NEW k \in 1..Len(t), NEW l \in 1..Len(t), k < l PROVE Shorter(t[k].asked, t[l].asked)
    <3>1. k \in 1..Len(told)
      BY <1>2, <1>5, <2>1, <1>4
    <3>2. CASE l \in 1..Len(told)
      BY <1>4, <2>1, <3>1, <3>2 DEF AskedInFull
    <3>3. CASE l = Len(told) + 1
      BY <1>2, <1>3, <1>4, <3>1, <3>3 DEF AskedInFull
    <3>4. QED
      BY <1>5, <3>2, <3>3
  <2>2. QED
    BY <2>1
<1>8. \A k, l \in 1..Len(u) : k < l => Shorter(u[k].items, u[l].items)
  <2>1. ASSUME NEW k \in 1..Len(u), NEW l \in 1..Len(u), k < l PROVE Shorter(u[k].items, u[l].items)
    <3>1. k + 1 \in 1..Len(left) /\ l + 1 \in 1..Len(left) /\ k + 1 < l + 1 /\ u[k] = left[k + 1]
              /\ u[l] = left[l + 1]
      BY <1>1, <1>6, <2>1
    <3>2. QED
      BY <3>1 DEF AskedInFull
  <2>2. QED
    BY <2>1
<1>9. \A k \in 1..Len(t), l \in 1..Len(u) : Shorter(t[k].asked, u[l].items)
  <2>1. ASSUME NEW k \in 1..Len(t), NEW l \in 1..Len(u) PROVE Shorter(t[k].asked, u[l].items)
    <3>1. l + 1 \in 1..Len(left) /\ u[l] = left[l + 1] /\ 1 \in 1..Len(left) /\ 1 < l + 1
      BY <1>1, <1>2, <1>6
    <3>2. CASE k \in 1..Len(told)
      BY <1>4, <3>1, <3>2 DEF AskedInFull
    <3>3. CASE k = Len(told) + 1
      BY <1>3, <1>4, <3>1, <3>3 DEF AskedInFull
    <3>4. QED
      BY <1>5, <3>2, <3>3
  <2>2. QED
    BY <2>1
<1>10. ASSUME NEW i \in 1..PoolItems
       PROVE  In(i, Batch(b)) <=>
                \/ \E k \in 1..Len(t) : In(i, t[k].asked)
                \/ \E k \in 1..Len(u) : In(i, u[k].items)
  <2>1. (\E k \in 1..Len(t) : In(i, t[k].asked)) <=>
          (\E k \in 1..Len(told) : In(i, told[k].asked)) \/ In(i, left[1].items)
    <3>1. Len(told) + 1 \in 1..Len(t) /\ \A k \in 1..Len(told) : k \in 1..Len(t)
      BY <1>2, <1>4
    <3>2. QED
      BY <1>3, <1>4, <1>5, <3>1
  <2>2. (\E k \in 1..Len(left) : In(i, left[k].items)) <=>
          (\E k \in 1..Len(u) : In(i, u[k].items)) \/ In(i, left[1].items)
    <3>1. \A k \in 1..Len(left) : k = 1 \/ (k - 1 \in 1..Len(u) /\ u[k - 1] = left[k])
      BY <1>1, <1>2
    <3>2. 1 \in 1..Len(left)
      BY <1>2
    <3>3. QED
      BY <1>1, <1>6, <3>1, <3>2
  <2>3. QED
    BY <2>1, <2>2 DEF AskedInFull
<1>11. AskedInFull(b, t, u)
  BY <1>7, <1>8, <1>9, <1>10 DEF AskedInFull
<1>12. QED
  BY <1>1, <1>4, <1>11 DEF t, u, new

\* The first part of what is left is replaced by its halves.
LEMMA HalvesAre ==
  ASSUME NEW part \in PoolParts, Halves(part)
  PROVE  LET h == Halved(part)
         IN /\ h \in Seq(PoolParts) /\ Len(h) = 2
            /\ Shorter(h[1].items, h[2].items)
            /\ \A i : In(i, part.items) <=> In(i, h[1].items) \/ In(i, h[2].items)
<1> DEFINE s == part.items
           half == Len(s) \div 2
           one == SubSeq(s, 1, half)
           two == SubSeq(s, half + 1, Len(s))
<1>1. /\ s \in Seq(1..PoolItems) /\ Len(s) \in Nat /\ part.depth \in Nat
      /\ \A i, j \in 1..Len(s) : i < j => s[i] < s[j]
      /\ \A i \in 1..Len(s) : s[i] \in 1..PoolItems
  <2>1. s \in Lists /\ part.depth \in Nat
    BY DEF PoolParts
  <2> HIDE DEF s
  <2>2. s \in Seq(1..PoolItems) /\ \A i, j \in 1..Len(s) : i < j => s[i] < s[j]
    BY <2>1 DEF Lists
  <2>3. Len(s) \in Nat /\ \A i \in 1..Len(s) : s[i] \in 1..PoolItems
    BY <2>2, ElementOfSeq, LenProperties
  <2>4. QED
    BY <2>1, <2>2, <2>3
<1>2. half \in Nat /\ half >= 1 /\ half < Len(s)
  <2>1. Len(s) > 1
    BY DEF Halves
  <2>2. \A n \in Nat : n > 1 => n \div 2 \in Nat /\ n \div 2 >= 1 /\ n \div 2 < n
    OBVIOUS
  <2>3. QED
    BY <1>1, <2>1, <2>2
<1> HIDE DEF half
<1>3. /\ one \in Seq(1..PoolItems) /\ Len(one) = half
      /\ \A i \in 1..half : one[i] = s[i]
  <2>1. \A i \in 1..half : s[i] \in 1..PoolItems
    BY <1>1, <1>2
  <2>2. half - 1 + 1 = half /\ \A i : i \in Int => 1 + i - 1 = i
    BY <1>2
  <2>3. /\ one \in Seq(1..PoolItems)
        /\ Len(one) = IF 1 <= half THEN half - 1 + 1 ELSE 0
        /\ \A i \in 1..half - 1 + 1 : one[i] = s[1 + i - 1]
    BY <1>2, <2>1, SubSeqProperties
  <2>4. QED
    BY <1>2, <2>2, <2>3
<1>4. /\ two \in Seq(1..PoolItems) /\ Len(two) = Len(s) - half
      /\ \A i \in 1..Len(s) - half : two[i] = s[half + i]
  <2>1. \A i \in half + 1..Len(s) : s[i] \in 1..PoolItems
    BY <1>1, <1>2
  <2>2. Len(s) - (half + 1) + 1 = Len(s) - half /\ \A i : i \in Int => half + 1 + i - 1 = half + i
    BY <1>1, <1>2
  <2>3. /\ two \in Seq(1..PoolItems)
        /\ Len(two) = IF half + 1 <= Len(s) THEN Len(s) - (half + 1) + 1 ELSE 0
        /\ \A i \in 1..Len(s) - (half + 1) + 1 : two[i] = s[half + 1 + i - 1]
    BY <1>1, <1>2, <2>1, SubSeqProperties
  <2>4. QED
    BY <1>1, <1>2, <2>2, <2>3
<1> HIDE DEF s, one, two
<1>5. one \in Lists /\ two \in Lists
  <2>1. \A i, j \in 1..Len(one) : i < j => one[i] < one[j]
    BY <1>1, <1>2, <1>3
  <2>2. \A i, j \in 1..Len(two) : i < j => two[i] < two[j]
    <3>1. ASSUME NEW i \in 1..Len(two), NEW j \in 1..Len(two), i < j PROVE two[i] < two[j]
      <4>1. half + i \in 1..Len(s) /\ half + j \in 1..Len(s) /\ half + i < half + j
        BY <1>1, <1>2, <1>4, <3>1
      <4>2. QED
        BY <1>1, <1>4, <4>1
    <3>2. QED
      BY <3>1
  <2>3. Len(one) >= 1 /\ Len(two) >= 1
    BY <1>1, <1>2, <1>3, <1>4
  <2>4. QED
    BY <1>3, <1>4, <2>1, <2>2, <2>3 DEF Lists
<1>6. Shorter(one, two)
  <2>1. ASSUME NEW i \in 1..Len(one), NEW j \in 1..Len(two) PROVE one[i] < two[j]
    <3>1. half + j \in 1..Len(s) /\ i \in 1..Len(s) /\ i < half + j
      BY <1>1, <1>2, <1>3, <1>4
    <3>2. QED
      BY <1>1, <1>3, <1>4, <3>1
  <2>2. QED
    BY <2>1 DEF Shorter
<1>7. ASSUME NEW i PROVE In(i, s) <=> In(i, one) \/ In(i, two)
  <2>1. \A n \in 1..Len(s) : IF n <= half THEN n \in 1..Len(one) /\ one[n] = s[n]
                             ELSE n - half \in 1..Len(two) /\ two[n - half] = s[n]
    <3> TAKE n \in 1..Len(s)
    <3>1. CASE n <= half
      BY <1>1, <1>2, <1>3, <3>1
    <3>2. CASE ~(n <= half)
      <4>1. n - half \in 1..Len(two) /\ half + (n - half) = n
        BY <1>1, <1>2, <1>4, <3>2
      <4>2. QED
        BY <1>4, <3>2, <4>1
    <3>3. QED
      BY <3>1, <3>2
  <2>2. \A n \in 1..Len(one) : n \in 1..Len(s) /\ one[n] = s[n]
    BY <1>1, <1>2, <1>3
  <2>3. \A n \in 1..Len(two) : half + n \in 1..Len(s) /\ two[n] = s[half + n]
    BY <1>1, <1>2, <1>4
  <2>4. QED
    BY <2>1, <2>2, <2>3 DEF In
<1> DEFINE x == [items |-> one, depth |-> part.depth + 1]
           y == [items |-> two, depth |-> part.depth + 1]
<1>8. x \in PoolParts /\ y \in PoolParts /\ x.items = one /\ y.items = two
  BY <1>1, <1>5 DEF PoolParts
<1>9. Halved(part) = <<x, y>>
  BY DEF Halved, one, two, half, s
<1> HIDE DEF x, y
<1>10. <<x, y>> \in Seq(PoolParts) /\ Len(<<x, y>>) = 2 /\ <<x, y>>[1] = x /\ <<x, y>>[2] = y
  BY <1>8
<1>11. QED
  BY <1>6, <1>7, <1>8, <1>9, <1>10 DEF s

\* What is left of a batch after its first part is halved is still asked for in full.
LEMMA HalvedAccounted ==
  ASSUME NEW b, NEW told \in Seq(PoolAnswers), NEW left \in Seq(PoolParts), left # <<>>,
         AskedInFull(b, told, left), Halves(Head(left))
  PROVE  /\ Halved(Head(left)) \o Tail(left) \in Seq(PoolParts) /\ Halved(Head(left)) \o Tail(left) # <<>>
         /\ AskedInFull(b, told, Halved(Head(left)) \o Tail(left))
<1> DEFINE h == Halved(Head(left))
           u == h \o Tail(left)
<1>1. /\ Head(left) \in PoolParts /\ Tail(left) \in Seq(PoolParts) /\ Len(Tail(left)) = Len(left) - 1
          /\ Head(left) = left[1]
      /\ \A i \in 1..Len(Tail(left)) : Tail(left)[i] = left[i + 1]
  BY HeadTailProperties
<1>2. Len(left) \in Nat /\ Len(left) >= 1 /\ Len(told) \in Nat /\ 1 \in 1..Len(left)
  BY EmptySeq
<1>3. /\ h \in Seq(PoolParts) /\ Len(h) = 2 /\ Shorter(h[1].items, h[2].items)
      /\ \A i : In(i, left[1].items) <=> In(i, h[1].items) \/ In(i, h[2].items)
  BY <1>1, HalvesAre
<1> HIDE DEF h
<1>4. /\ u \in Seq(PoolParts) /\ Len(u) = Len(left) + 1
      /\ \A i \in 1..Len(u) : u[i] = IF i <= 2 THEN h[i] ELSE Tail(left)[i - 2]
  <2>1. /\ u \in Seq(PoolParts) /\ Len(u) = Len(h) + Len(Tail(left))
        /\ \A i \in 1..Len(h) + Len(Tail(left)) :
             u[i] = IF i <= Len(h) THEN h[i] ELSE Tail(left)[i - Len(h)]
    BY <1>1, <1>3, ConcatProperties
  <2> HIDE DEF u
  <2>2. 2 + (Len(left) - 1) = Len(left) + 1
    BY <1>2
  <2>3. QED
    BY <1>1, <1>3, <2>1, <2>2
<1> HIDE DEF u
<1>5. \A i \in 1..Len(u) : i > 2 => i - 1 \in 1..Len(left) /\ i - 1 > 1 /\ u[i] = left[i - 1]
  <2> SUFFICES ASSUME NEW i \in 1..Len(u), i > 2 PROVE i - 1 \in 1..Len(left) /\ i - 1 > 1 /\ u[i] = left[i - 1]
    OBVIOUS
  <2>1. i - 2 \in 1..Len(Tail(left)) /\ (i - 2) + 1 = i - 1 /\ i - 1 \in 1..Len(left) /\ i - 1 > 1
    BY <1>1, <1>2, <1>4
  <2>2. u[i] = Tail(left)[i - 2]
    BY <1>2, <1>4
  <2>3. QED
    BY <1>1, <2>1, <2>2
<1>6. 1 \in 1..Len(u) /\ 2 \in 1..Len(u) /\ u[1] = h[1] /\ u[2] = h[2]
  BY <1>2, <1>4
<1>7. \A i \in 1..Len(left) : i > 1 => i + 1 \in 1..Len(u) /\ u[i + 1] = left[i]
  <2> SUFFICES ASSUME NEW i \in 1..Len(left), i > 1 PROVE i + 1 \in 1..Len(u) /\ u[i + 1] = left[i]
    OBVIOUS
  <2>1. i + 1 \in 1..Len(u) /\ i + 1 > 2 /\ (i + 1) - 1 = i
    BY <1>2, <1>4
  <2>2. QED
    BY <1>5, <2>1
<1>8. \A s, t : (\A i : In(i, s) => In(i, t)) =>
        \A r : (Shorter(r, t) => Shorter(r, s)) /\ (Shorter(t, r) => Shorter(s, r))
  BY DEF In, Shorter
<1>9. \A e \in {1, 2} : \A r : (Shorter(r, left[1].items) => Shorter(r, u[e].items)) /\
                               (Shorter(left[1].items, r) => Shorter(u[e].items, r))
  BY <1>3, <1>6, <1>8
<1>10. \A i \in 1..Len(u) : i \in {1, 2} \/ i > 2
  BY <1>4, <1>2
<1>11. \A k, l \in 1..Len(u) : k < l => Shorter(u[k].items, u[l].items)
  <2>1. ASSUME NEW k \in 1..Len(u), NEW l \in 1..Len(u), k < l PROVE Shorter(u[k].items, u[l].items)
    <3>1. CASE l > 2 /\ k > 2
      <4>1. k - 1 \in 1..Len(left) /\ l - 1 \in 1..Len(left) /\ k - 1 < l - 1 /\ u[k] = left[k - 1]
                /\ u[l] = left[l - 1]
        BY <1>5, <1>4, <1>2, <2>1, <3>1
      <4>2. QED
        BY <4>1 DEF AskedInFull
    <3>2. CASE l > 2 /\ k \in {1, 2}
      <4>1. l - 1 \in 1..Len(left) /\ 1 < l - 1 /\ u[l] = left[l - 1]
        BY <1>5, <3>2
      <4>2. Shorter(left[1].items, u[l].items)
        BY <1>2, <4>1 DEF AskedInFull
      <4>3. QED
        BY <1>9, <3>2, <4>2
    <3>3. CASE l \in {1, 2}
      <4>1. k = 1 /\ l = 2
        BY <2>1, <3>3
      <4>2. QED
        BY <1>3, <1>6, <4>1
    <3>4. QED
      BY <1>10, <3>1, <3>2, <3>3
  <2>2. QED
    BY <2>1
<1>12. \A k \in 1..Len(told), l \in 1..Len(u) : Shorter(told[k].asked, u[l].items)
  <2>1. ASSUME NEW k \in 1..Len(told), NEW l \in 1..Len(u) PROVE Shorter(told[k].asked, u[l].items)
    <3>1. CASE l > 2
      BY <1>5, <3>1 DEF AskedInFull
    <3>2. CASE l \in {1, 2}
      <4>1. Shorter(told[k].asked, left[1].items)
        BY <1>2 DEF AskedInFull
      <4>2. QED
        BY <1>9, <3>2, <4>1
    <3>3. QED
      BY <1>10, <3>1, <3>2
  <2>2. QED
    BY <2>1
<1>13. ASSUME NEW i PROVE (\E k \in 1..Len(u) : In(i, u[k].items)) <=> \E k \in 1..Len(left) : In(i,
           left[k].items)
  <2>1. ASSUME NEW k \in 1..Len(u), In(i, u[k].items) PROVE \E l \in 1..Len(left) : In(i, left[l].items)
    <3>1. CASE k > 2
      BY <1>5, <2>1, <3>1
    <3>2. CASE k \in {1, 2}
      BY <1>2, <1>3, <1>6, <2>1, <3>2
    <3>3. QED
      BY <1>10, <3>1, <3>2
  <2>2. ASSUME NEW k \in 1..Len(left), In(i, left[k].items) PROVE \E l \in 1..Len(u) : In(i, u[l].items)
    <3>1. CASE k > 1
      BY <1>7, <2>2, <3>1
    <3>2. CASE k = 1
      BY <1>3, <1>6, <2>2, <3>2
    <3>3. QED
      BY <1>2, <2>2, <3>1, <3>2
  <2>3. QED
    BY <2>1, <2>2
<1>14. AskedInFull(b, told, u)
  BY <1>11, <1>12, <1>13 DEF AskedInFull
<1>15. u # <<>>
  BY <1>2, <1>4
<1>16. QED
  BY <1>4, <1>14, <1>15 DEF u, h

\* A batch that is taken is to be asked for in full.
LEMMA StartAccounted ==
  ASSUME NEW b \in Batches
  PROVE  LET left == <<[items |-> Batch(b), depth |-> 0]>>
         IN left \in Seq(PoolParts) /\ left # <<>> /\ AskedInFull(b, <<>>, left)
<1> DEFINE p == [items |-> Batch(b), depth |-> 0]
<1>1. p \in PoolParts /\ p.items = Batch(b)
  BY BatchIs DEF PoolParts
<1> HIDE DEF p
<1>2. <<p>> \in Seq(PoolParts) /\ Len(<<p>>) = 1 /\ <<p>>[1] = p /\ Len(<<>>) = 0 /\ <<p>> # <<>>
  BY <1>1
<1>3. \A k \in 1..Len(<<>>) : FALSE
  BY <1>2
<1>4. \A k \in 1..Len(<<p>>) : k = 1
  BY <1>2
<1>5. \A k, l \in 1..Len(<<p>>) : ~(k < l)
  BY <1>4
<1>6. \A i : (\E k \in 1..Len(<<p>>) : In(i, <<p>>[k].items)) <=> In(i, Batch(b))
  BY <1>1, <1>2
<1>7. AskedInFull(b, <<>>, <<p>>)
  BY <1>3, <1>5, <1>6 DEF AskedInFull
<1>8. QED
  BY <1>2, <1>7 DEF p

\* No member occurs twice.
Distinct(s) == \A i, j \in 1..Len(s) : i # j => s[i] # s[j]

\* What the variables hold.
PoolTypes ==
  /\ waitingBatches \in Seq(Batches) /\ taken \in Seq(Batches) /\ poolFailures \in Seq(Batches)
  /\ remaining \in [Batches -> Seq(PoolParts)] /\ answers \in [Batches -> Seq(PoolAnswers)]
  /\ state \in [Batches -> {"", "ok", "failed", "cancelled"}]

\* What was asked of a batch, from when it is waiting to when it ended.
BatchInv ==
  /\ Distinct(waitingBatches) /\ Distinct(taken)
  /\ \A i \in 1..Len(taken) : state[taken[i]] = "ok"
  /\ \A b \in Batches :
       /\ In(b, waitingBatches) => state[b] = "" /\ remaining[b] = <<>> /\ answers[b] = <<>>
       /\ remaining[b] # <<>> => state[b] = ""
       /\ remaining[b] # <<>> \/ state[b] = "ok" => AskedInFull(b, answers[b], remaining[b])

\* Of the batches that share a failure, one is the first.
CauseInv ==
  /\ \A b \in Batches :
       /\ state[b] \in {"failed", "cancelled"} /\ Shares => poolFailures # <<>>
       /\ state[b] = "cancelled" /\ ~Shares => poolPc # "working"
  /\ stopped => poolFailures # <<>>
  /\ poolFailures # <<>> => Shares
  /\ poolFailures # <<>> => state[poolFailures[1]] = "failed"
  /\ poolPc \in {"closing", "raised"} => raisedFor \in Batches /\ state[raisedFor] = "failed"

\* A list that is returned was taken in full.
ReturnInv ==
  poolPc = "returned" =>
    Len(taken) = Cardinality(Batches) /\ returned = [joined |-> Joined, accepted |-> Accepted]

\* The inductive invariant.
PoolInv == PoolTypes /\ BatchInv /\ CauseInv /\ ReturnInv

\* The first state satisfies the invariant.
LEMMA PoolStart == PoolInit => PoolInv
<1> SUFFICES ASSUME PoolInit PROVE PoolInv
  OBVIOUS
<1>1. \A S : <<>> \in Seq(S) /\ Len(<<>>) = 0
  OBVIOUS
<1>2. PICK q \in Nat : Batches = 1..q
  BY BatchesAre
<1>3. waitingBatches \in Seq(Batches) /\ Len(waitingBatches) = q /\ \A i \in 1..q : waitingBatches[i] = i
  <2>1. [b \in 1..q |-> b] \in [1..q -> 1..q]
    OBVIOUS
  <2>2. \A s \in [1..q -> 1..q] : s \in Seq(1..q) /\ Len(s) = q
    OBVIOUS
  <2>3. waitingBatches = [b \in 1..q |-> b]
    BY <1>2 DEF PoolInit
  <2>4. QED
    BY <1>2, <2>1, <2>2, <2>3
<1>4. taken = <<>> /\ poolFailures = <<>> /\ stopped = FALSE /\ poolPc = "working"
  BY DEF PoolInit
<1>5. \A b \in Batches : remaining[b] = <<>> /\ answers[b] = <<>> /\ state[b] = ""
  BY DEF PoolInit
<1>6. PoolTypes
  <2>1. remaining \in [Batches -> Seq(PoolParts)]
    BY <1>1 DEF PoolInit
  <2>2. answers \in [Batches -> Seq(PoolAnswers)]
    BY <1>1 DEF PoolInit
  <2>3. state \in [Batches -> {"", "ok", "failed", "cancelled"}]
    BY DEF PoolInit
  <2>4. QED
    BY <1>1, <1>3, <1>4, <2>1, <2>2, <2>3 DEF PoolTypes
<1>7. BatchInv
  <2>1. Len(taken) = 0
    BY <1>1, <1>4
  <2>2. Distinct(waitingBatches) /\ Distinct(taken)
    BY <1>3, <2>1 DEF Distinct
  <2>3. \A i \in 1..Len(taken) : FALSE
    BY <2>1
  <2>4. QED
    BY <1>5, <2>2, <2>3 DEF BatchInv
<1>8. CauseInv /\ ReturnInv
  BY <1>4, <1>5 DEF CauseInv, ReturnInv
<1>9. QED
  BY <1>6, <1>7, <1>8 DEF PoolInv

\* A batch that is taken by a thread keeps the invariant.
LEMMA TakeKeeps == PoolInv /\ TakeBatch => PoolInv'
<1> SUFFICES ASSUME PoolInv, TakeBatch PROVE PoolInv'
  OBVIOUS
<1> USE DEF PoolInv
<1> DEFINE b == Head(waitingBatches)
           part == <<[items |-> Batch(b), depth |-> 0]>>
<1>1. waitingBatches \in Seq(Batches) /\ waitingBatches # <<>>
  BY DEF PoolTypes, TakeBatch
<1>2. /\ b \in Batches /\ waitingBatches' \in Seq(Batches) /\ Len(waitingBatches') = Len(waitingBatches) - 1
      /\ b = waitingBatches[1] /\ Len(waitingBatches) \in Nat /\ Len(waitingBatches) >= 1
      /\ \A i \in 1..Len(waitingBatches') : waitingBatches'[i] = waitingBatches[i + 1]
  <2>1. waitingBatches' = Tail(waitingBatches)
    BY DEF TakeBatch
  <2>2. QED
    BY <1>1, <2>1, HeadTailProperties, EmptySeq
<1>3. part \in Seq(PoolParts) /\ part # <<>> /\ AskedInFull(b, <<>>, part)
  BY <1>2, StartAccounted
<1>4. remaining' = [remaining EXCEPT ![b] = part]
  BY DEF TakeBatch
<1>5. UNCHANGED <<poolPc, poolKind, answers, state, poolFailures, stopped, taken, raisedFor, returned>>
  BY DEF TakeBatch
<1> HIDE DEF b, part
<1>6. remaining' \in [Batches -> Seq(PoolParts)] /\ remaining'[b] = part
          /\ \A c \in Batches : c # b => remaining'[c] = remaining[c]
  BY <1>2, <1>3, <1>4 DEF PoolTypes
<1>7. PoolTypes'
  BY <1>2, <1>5, <1>6 DEF PoolTypes
<1>8. BatchInv'
  <2>1. Distinct(waitingBatches')
    <3>1. ASSUME NEW i \in 1..Len(waitingBatches'), NEW j \in 1..Len(waitingBatches'), i # j
          PROVE  waitingBatches'[i] # waitingBatches'[j]
      <4>1. i + 1 \in 1..Len(waitingBatches) /\ j + 1 \in 1..Len(waitingBatches) /\ i + 1 # j + 1
        BY <1>2, <3>1
      <4>2. Distinct(waitingBatches)
        BY DEF BatchInv
      <4>3. QED
        BY <1>2, <4>1, <4>2 DEF Distinct
    <3>2. QED
      BY <3>1 DEF Distinct
  <2>2. In(b, waitingBatches) /\ \A c : In(c, waitingBatches') => In(c, waitingBatches) /\ c # b
    <3>1. 1 \in 1..Len(waitingBatches)
              /\ \A i \in 1..Len(waitingBatches') : i + 1 \in 1..Len(waitingBatches) /\ i + 1 # 1
      BY <1>2
    <3>2. Distinct(waitingBatches)
      BY DEF BatchInv
    <3>3. QED
      BY <1>2, <3>1, <3>2 DEF In, Distinct
  <2>3. answers[b] = <<>> /\ state[b] = ""
    BY <1>2, <2>2 DEF BatchInv
  <2>4. ASSUME NEW c \in Batches
        PROVE  /\ In(c, waitingBatches') => state'[c] = "" /\ remaining'[c] = <<>> /\ answers'[c] = <<>>
               /\ remaining'[c] # <<>> => state'[c] = ""
               /\ remaining'[c] # <<>> \/ state'[c] = "ok" => AskedInFull(c, answers'[c], remaining'[c])
    <3>1. CASE c = b
      BY <1>3, <1>5, <1>6, <2>2, <2>3, <3>1
    <3>2. CASE c # b
      BY <1>5, <1>6, <2>2, <3>2 DEF BatchInv
    <3>3. QED
      BY <3>1, <3>2
  <2>5. \A c, t, l : AskedInFull(c, t, l)' <=> AskedInFull(c, t, l)
    BY DEF AskedInFull
  <2>6. QED
    BY <1>5, <2>1, <2>4, <2>5 DEF BatchInv
<1>9. CauseInv'
  BY <1>5 DEF CauseInv, Shares
<1>10. ReturnInv'
  BY <1>5 DEF ReturnInv, TakeBatch
<1>11. QED
  BY <1>7, <1>8, <1>9, <1>10

\* Another batch is as it was.
LEMMA OthersKeep ==
  ASSUME BatchInv, NEW b \in Batches, remaining[b] # <<>>,
         waitingBatches' = waitingBatches, taken' = taken,
         \A c \in Batches : c # b => remaining'[c] = remaining[c] /\ answers'[c] = answers[c]
             /\ state'[c] = state[c],
         remaining'[b] # <<>> => state'[b] = "",
         remaining'[b] # <<>> \/ state'[b] = "ok" => AskedInFull(b, answers'[b], remaining'[b]),
         taken \in Seq(Batches)
  PROVE  BatchInv'
<1>1. ~In(b, waitingBatches)
  BY DEF BatchInv
<1>2. state[b] = ""
  BY DEF BatchInv
<1>3. \A i \in 1..Len(taken) : taken[i] \in Batches /\ taken[i] # b
  <2>1. \A i \in 1..Len(taken) : state[taken[i]] = "ok"
    BY DEF BatchInv
  <2>2. QED
    BY <1>2, <2>1, ElementOfSeq
<1>4. \A i \in 1..Len(taken) : state'[taken[i]] = "ok"
  BY <1>3 DEF BatchInv
<1>5. \A c, t, l : AskedInFull(c, t, l)' <=> AskedInFull(c, t, l)
  BY DEF AskedInFull
<1>6. \A s : Distinct(s)' <=> Distinct(s)
  OBVIOUS
<1>7. ASSUME NEW c \in Batches
      PROVE  /\ In(c, waitingBatches') => state'[c] = "" /\ remaining'[c] = <<>> /\ answers'[c] = <<>>
             /\ remaining'[c] # <<>> => state'[c] = ""
             /\ remaining'[c] # <<>> \/ state'[c] = "ok" => AskedInFull(c, answers'[c], remaining'[c])
  <2>1. CASE c = b
    BY <1>1, <2>1
  <2>2. CASE c # b
    BY <2>2 DEF BatchInv
  <2>3. QED
    BY <2>1, <2>2
<1>8. Distinct(waitingBatches) /\ Distinct(taken)
  BY DEF BatchInv
<1>9. QED
  BY <1>4, <1>7, <1>8 DEF BatchInv

\* A batch that ends keeps the invariant.
LEMMA EndsKeeps ==
  ASSUME PoolInv, NEW b \in Batches, remaining[b] # <<>>, poolPc \in {"working", "closing"},
         NEW how \in {"ok", "failed", "cancelled"}, Ends(b, how), how = "cancelled" => stopped,
         UNCHANGED <<poolPc, poolKind, waitingBatches, taken, raisedFor, returned>>,
         answers' \in [Batches -> Seq(PoolAnswers)], \A c \in Batches : c # b => answers'[c] = answers[c],
         how = "ok" => AskedInFull(b, answers'[b], <<>>)
  PROVE  PoolInv'
<1>1. PoolTypes /\ BatchInv /\ CauseInv
  BY DEF PoolInv
<1>2. state' = [state EXCEPT ![b] = how] /\ remaining' = [remaining EXCEPT ![b] = <<>>]
  BY DEF Ends
<1>3. <<>> \in Seq(PoolParts)
  OBVIOUS
<1>4. /\ state'[b] = how /\ remaining'[b] = <<>>
      /\ \A c \in Batches : c # b => state'[c] = state[c] /\ remaining'[c] = remaining[c]
      /\ state' \in [Batches -> {"", "ok", "failed", "cancelled"}] /\ remaining' \in [Batches -> Seq(PoolParts)]
  BY <1>1, <1>2, <1>3 DEF PoolTypes
<1>5. state[b] = ""
  BY <1>1 DEF BatchInv
<1>6. /\ poolFailures' \in Seq(Batches)
      /\ poolFailures # <<>> => poolFailures'[1] = poolFailures[1]
      /\ how # "ok" /\ Shares => poolFailures' # <<>> /\ (poolFailures = <<>> => poolFailures'[1] = b)
      /\ ~(how # "ok" /\ Shares) => poolFailures' = poolFailures
      /\ poolFailures # <<>> => poolFailures' # <<>>
  <2>1. poolFailures \in Seq(Batches)
    BY <1>1 DEF PoolTypes
  <2>2. CASE how # "ok" /\ Shares
    <3>1. poolFailures' = Append(poolFailures, b)
      BY <2>2 DEF Ends
    <3>2. /\ poolFailures' \in Seq(Batches) /\ poolFailures' # <<>>
          /\ \A i \in 1..Len(poolFailures) : poolFailures'[i] = poolFailures[i]
          /\ poolFailures'[Len(poolFailures) + 1] = b
      BY <2>1, <3>1, AppendProperties
    <3>3. CASE poolFailures = <<>>
      <4>1. Len(poolFailures) + 1 = 1
        BY <3>3
      <4>2. QED
        BY <2>2, <3>2, <3>3, <4>1
    <3>4. CASE poolFailures # <<>>
      <4>1. 1 \in 1..Len(poolFailures)
        BY <2>1, <3>4, EmptySeq
      <4>2. QED
        BY <2>2, <3>2, <3>4, <4>1
    <3>5. QED
      BY <3>3, <3>4
  <2>3. CASE ~(how # "ok" /\ Shares)
    <3>1. poolFailures' = poolFailures
      BY <2>3 DEF Ends
    <3>2. QED
      BY <2>1, <2>3, <3>1
  <2>4. QED
    BY <2>2, <2>3
<1>7. PoolTypes'
  BY <1>1, <1>4, <1>6 DEF PoolTypes
<1>8. BatchInv'
  <2>1. taken \in Seq(Batches)
    BY <1>1 DEF PoolTypes
  <2>2. QED
    BY <1>1, <1>4, <2>1, OthersKeep
<1>9. Shares' <=> Shares
  BY DEF Shares
<1>10. CauseInv'
  <2>1. stopped' <=> stopped \/ (how # "ok" /\ Shares)
    BY DEF Ends
  <2>2. \A c \in Batches : state'[c] \in {"failed", "cancelled"} /\ Shares => poolFailures' # <<>>
    BY <1>1, <1>4, <1>6 DEF CauseInv
  <2>3. \A c \in Batches : state'[c] = "cancelled" /\ ~Shares => poolPc # "working"
    <3>1. how = "cancelled" => Shares
      BY <1>1 DEF CauseInv
    <3>2. QED
      BY <1>1, <1>4, <3>1 DEF CauseInv
  <2>4. stopped' => poolFailures' # <<>>
    BY <1>1, <1>6, <2>1 DEF CauseInv
  <2>5. poolFailures' # <<>> => Shares
    BY <1>1, <1>6 DEF CauseInv
  <2>6. poolFailures' # <<>> => state'[poolFailures'[1]] = "failed"
    <3>1. CASE poolFailures # <<>>
      <4>1. state[poolFailures[1]] = "failed" /\ poolFailures[1] \in Batches
        <5>1. 1 \in 1..Len(poolFailures)
          <6>1. poolFailures \in Seq(Batches)
            BY <1>1 DEF PoolTypes
          <6>2. QED
            BY <3>1, <6>1, EmptySeq
        <5>2. QED
          BY <1>1, <3>1, <5>1, ElementOfSeq DEF PoolTypes, CauseInv
      <4>2. QED
        BY <1>4, <1>5, <1>6, <3>1, <4>1
    <3>2. CASE poolFailures = <<>> /\ how # "ok" /\ Shares
      <4>1. how = "failed"
        BY <1>1, <3>2 DEF CauseInv
      <4>2. QED
        BY <1>4, <1>6, <3>2, <4>1
    <3>3. CASE poolFailures = <<>> /\ ~(how # "ok" /\ Shares)
      BY <1>6, <3>3
    <3>4. QED
      BY <3>1, <3>2, <3>3
  <2>7. poolPc \in {"closing", "raised"} => raisedFor \in Batches /\ state'[raisedFor] = "failed"
    BY <1>1, <1>4, <1>5 DEF CauseInv
  <2>8. QED
    BY <1>9, <2>2, <2>3, <2>4, <2>5, <2>6, <2>7 DEF CauseInv
<1>11. ReturnInv'
  BY DEF ReturnInv
<1>12. QED
  BY <1>7, <1>8, <1>10, <1>11 DEF PoolInv

\* So does a batch that works on.
LEMMA WorksOnKeeps ==
  ASSUME PoolInv, NEW b \in Batches, remaining[b] # <<>>, poolPc \in {"working", "closing"},
         NEW left \in Seq(PoolParts), left # <<>>, remaining' = [remaining EXCEPT ![b] = left],
         UNCHANGED <<poolPc, poolKind, waitingBatches, taken, raisedFor, returned>>,
         UNCHANGED <<state, poolFailures, stopped>>,
         answers' \in [Batches -> Seq(PoolAnswers)], \A c \in Batches : c # b => answers'[c] = answers[c],
         AskedInFull(b, answers'[b], left)
  PROVE  PoolInv'
<1>1. PoolTypes /\ BatchInv /\ CauseInv
  BY DEF PoolInv
<1>2. /\ remaining' \in [Batches -> Seq(PoolParts)] /\ remaining'[b] = left
      /\ \A c \in Batches : c # b => remaining'[c] = remaining[c]
  BY <1>1 DEF PoolTypes
<1>3. PoolTypes'
  BY <1>1, <1>2 DEF PoolTypes
<1>4. BatchInv'
  <2>1. taken \in Seq(Batches) /\ state[b] = ""
    BY <1>1 DEF PoolTypes, BatchInv
  <2>2. QED
    BY <1>1, <1>2, <2>1, OthersKeep
<1>5. CauseInv'
  BY <1>1 DEF CauseInv, Shares
<1>6. ReturnInv'
  BY DEF ReturnInv
<1>7. QED
  BY <1>3, <1>4, <1>5, <1>6 DEF PoolInv

\* An answer speaks of items of the list.
LEMMA SaidTyped ==
  ASSUME NEW items \in Lists, NEW said \in AnswersTo(items)
  PROVE  said \in Seq(1..PoolItems)
<1>1. items \in Seq(1..PoolItems) /\ Len(items) >= 1
  BY DEF Lists
<1>2. items # <<>>
  BY <1>1
<1>3. items[1] \in 1..PoolItems
  <2>1. 1 \in 1..Len(items)
    BY <1>1, LenProperties
  <2>2. QED
    BY <1>1, <2>1, ElementOfSeq
<1>4. Tail(items) \in Seq(1..PoolItems)
  BY <1>1, <1>2, HeadTailProperties
<1>5. 1 \in 1..PoolItems /\ PoolItems \in 1..PoolItems
  BY <1>3, PoolAssumption
<1>6. Append(items, items[1]) \in Seq(1..PoolItems) /\ \A i \in {1, PoolItems} : Append(Tail(items),
          i) \in Seq(1..PoolItems)
  BY <1>1, <1>3, <1>4, <1>5, AppendProperties
<1>7. QED
  BY <1>1, <1>4, <1>6 DEF AnswersTo

\* Every step of a batch keeps the invariant.
LEMMA WorkKeeps == ASSUME PoolInv, NEW b \in Batches, Work(b) PROVE PoolInv'
<1>1. PoolTypes /\ BatchInv /\ CauseInv
  BY DEF PoolInv
<1>2. /\ poolPc \in {"working", "closing"} /\ remaining[b] # <<>>
      /\ UNCHANGED <<poolPc, poolKind, waitingBatches, taken, raisedFor, returned>>
  BY DEF Work
<1>3. remaining[b] \in Seq(PoolParts) /\ answers[b] \in Seq(PoolAnswers) /\ AskedInFull(b, answers[b],
          remaining[b])
  BY <1>1, <1>2 DEF PoolTypes, BatchInv
<1> DEFINE part == Head(remaining[b])
<1>4. part \in PoolParts /\ part.items \in Lists
  <2>1. part \in PoolParts
    BY <1>2, <1>3, HeadTailProperties
  <2>2. QED
    BY <2>1 DEF PoolParts
<1>5. CASE stopped /\ Ends(b, "cancelled") /\ UNCHANGED answers
  BY <1>1, <1>2, <1>5, EndsKeeps DEF PoolTypes
<1>6. CASE Ends(b, "failed") /\ UNCHANGED answers
  BY <1>1, <1>2, <1>6, EndsKeeps DEF PoolTypes
<1>7. CASE /\ Halves(part) /\ remaining' = [remaining EXCEPT ![b] = Halved(part) \o Tail(@)]
           /\ UNCHANGED <<answers, state, poolFailures, stopped>>
  <2> DEFINE left == Halved(part) \o Tail(remaining[b])
  <2>1. left \in Seq(PoolParts) /\ left # <<>> /\ AskedInFull(b, answers[b], left)
    BY <1>2, <1>3, <1>7, HalvedAccounted
  <2>2. remaining' = [remaining EXCEPT ![b] = left]
    BY <1>1, <1>7 DEF PoolTypes
  <2> HIDE DEF left
  <2>3. QED
    BY <1>1, <1>2, <1>7, <2>1, <2>2, WorksOnKeeps DEF PoolTypes
<1>8. ASSUME NEW said \in AnswersTo(part.items),
             answers' = [answers EXCEPT ![b] = Append(@, [asked |-> part.items, said |-> said])],
             IF Len(remaining[b]) = 1 THEN Ends(b, "ok")
             ELSE remaining' = [remaining EXCEPT ![b] = Tail(@)] /\ UNCHANGED <<state, poolFailures, stopped>>
      PROVE  PoolInv'
  <2> DEFINE told == Append(answers[b], [asked |-> part.items, said |-> said])
             left == Tail(remaining[b])
  <2>1. said \in Seq(1..PoolItems)
    BY <1>4, SaidTyped
  <2>2. told \in Seq(PoolAnswers) /\ left \in Seq(PoolParts) /\ AskedInFull(b, told, left)
    BY <1>2, <1>3, <2>1, AnswerAccounted
  <2>3. Len(left) = Len(remaining[b]) - 1 /\ Len(remaining[b]) \in Nat
    BY <1>2, <1>3, HeadTailProperties
  <2>4. answers' = [answers EXCEPT ![b] = told]
    BY <1>1, <1>8 DEF PoolTypes
  <2>5. Len(remaining[b]) # 1 => remaining' = [remaining EXCEPT ![b] = left]
    BY <1>1, <1>8 DEF PoolTypes
  <2> HIDE DEF told, left
  <2>6. answers' \in [Batches -> Seq(PoolAnswers)] /\ answers'[b] = told
            /\ \A c \in Batches : c # b => answers'[c] = answers[c]
    BY <1>1, <2>2, <2>4 DEF PoolTypes
  <2>7. CASE Len(remaining[b]) = 1
    <3>1. left = <<>>
      BY <2>2, <2>3, <2>7, EmptySeq
    <3>2. Ends(b, "ok")
      BY <1>8, <2>7
    <3>3. QED
      BY <1>2, <2>2, <2>6, <3>1, <3>2, EndsKeeps
  <2>8. CASE Len(remaining[b]) # 1
    <3>1. left # <<>>
      <4>1. Len(left) # 0
        BY <2>3, <2>8
      <4>2. QED
        BY <2>2, <4>1, EmptySeq
    <3>2. UNCHANGED <<state, poolFailures, stopped>>
      BY <1>8, <2>8
    <3>3. QED
      BY <1>2, <2>2, <2>5, <2>6, <2>8, <3>1, <3>2, WorksOnKeeps
  <2>9. QED
    BY <2>7, <2>8
<1>9. QED
  BY <1>5, <1>6, <1>7, <1>8 DEF Work

\* So does the caller that takes a result or raises a failure.
LEMMA CollectKeeps == ASSUME PoolInv, Collect PROVE PoolInv'
<1>1. PoolTypes /\ BatchInv /\ CauseInv
  BY DEF PoolInv
<1>2. PICK b \in Batches :
        /\ Awaited(b)
        /\ IF state[b] = "ok"
           THEN taken' = Append(taken, b) /\ UNCHANGED <<poolPc, waitingBatches, state, stopped, raisedFor>>
           ELSE /\ poolPc' = "closing" /\ raisedFor' = FirstFailure(b)
                /\ waitingBatches' = <<>> /\ stopped' = (stopped \/ Shares)
                /\ state' = [c \in Batches |-> IF c \in Range(waitingBatches) THEN "cancelled" ELSE state[c]]
                /\ UNCHANGED taken
  BY DEF Collect
<1>3. poolPc = "working" /\ UNCHANGED <<poolKind, remaining, answers, poolFailures, returned>>
  BY DEF Collect
<1>4. taken \in Seq(Batches) /\ waitingBatches \in Seq(Batches) /\ poolFailures \in Seq(Batches)
  BY <1>1 DEF PoolTypes
<1>5. \A c, t, l : AskedInFull(c, t, l)' <=> AskedInFull(c, t, l)
  BY DEF AskedInFull
<1>6. Shares' <=> Shares
  BY <1>3 DEF Shares
<1>7. CASE state[b] = "ok"
  <2>1. taken' = Append(taken, b) /\ UNCHANGED <<poolPc, waitingBatches, state, stopped, raisedFor>>
    BY <1>2, <1>7
  <2>2. /\ taken' \in Seq(Batches) /\ Len(taken') = Len(taken) + 1 /\ Len(taken) \in Nat
        /\ \A i \in 1..Len(taken) : taken'[i] = taken[i]
        /\ taken'[Len(taken) + 1] = b
    BY <1>4, <2>1, AppendProperties, LenProperties
  <2>3. \A i \in 1..Len(taken') : i \in 1..Len(taken) \/ i = Len(taken) + 1
    BY <2>2
  <2>4. \A i \in 1..Len(taken) : taken[i] # b
    <3>1. b \notin Range(taken)
      BY <1>2 DEF Awaited
    <3>2. DOMAIN taken = 1..Len(taken)
      BY <1>4, LenProperties
    <3>3. QED
      BY <3>1, <3>2 DEF Range
  <2>5. Distinct(taken')
    <3>1. ASSUME NEW i \in 1..Len(taken'), NEW j \in 1..Len(taken'), i # j PROVE taken'[i] # taken'[j]
      <4>1. Distinct(taken)
        BY <1>1 DEF BatchInv
      <4>2. QED
        BY <2>2, <2>3, <2>4, <3>1, <4>1 DEF Distinct
    <3>2. QED
      BY <3>1 DEF Distinct
  <2>6. \A i \in 1..Len(taken') : state'[taken'[i]] = "ok"
    <3>1. \A i \in 1..Len(taken) : state[taken[i]] = "ok"
      BY <1>1 DEF BatchInv
    <3>2. QED
      BY <1>7, <2>1, <2>2, <2>3, <3>1
  <2>7. PoolTypes'
    BY <1>1, <1>3, <2>1, <2>2 DEF PoolTypes
  <2>8. BatchInv'
    BY <1>1, <1>3, <1>5, <2>1, <2>5, <2>6 DEF BatchInv
  <2>9. CauseInv'
    BY <1>1, <1>3, <1>6, <2>1 DEF CauseInv
  <2>10. ReturnInv'
    BY <1>3, <2>1 DEF ReturnInv
  <2>11. QED
    BY <2>7, <2>8, <2>9, <2>10 DEF PoolInv
<1>8. CASE state[b] # "ok"
  <2>1. /\ poolPc' = "closing" /\ raisedFor' = FirstFailure(b)
        /\ waitingBatches' = <<>> /\ stopped' = (stopped \/ Shares) /\ UNCHANGED taken
        /\ state' = [c \in Batches |-> IF c \in Range(waitingBatches) THEN "cancelled" ELSE state[c]]
    BY <1>2, <1>8
  <2>2. \A c : c \in Range(waitingBatches) <=> In(c, waitingBatches)
    <3>1. DOMAIN waitingBatches = 1..Len(waitingBatches)
      BY <1>4, LenProperties
    <3>2. QED
      BY <3>1 DEF Range, In
  <2>3. /\ \A c \in Batches : In(c, waitingBatches) => state'[c] = "cancelled" /\ state[c] = ""
            /\ remaining[c] = <<>>
        /\ \A c \in Batches : ~In(c, waitingBatches) => state'[c] = state[c]
    BY <1>1, <2>1, <2>2 DEF BatchInv
  <2>4. state' \in [Batches -> {"", "ok", "failed", "cancelled"}]
    BY <1>1, <2>1 DEF PoolTypes
  <2>5. \A S : <<>> \in Seq(S) /\ Len(<<>>) = 0
    OBVIOUS
  <2>6. PoolTypes'
    BY <1>1, <1>3, <2>1, <2>4, <2>5 DEF PoolTypes
  <2>7. BatchInv'
    <3>1. Distinct(waitingBatches') /\ \A c : ~In(c, waitingBatches')
      BY <2>1, <2>5 DEF Distinct, In
    <3>2. \A i \in 1..Len(taken) : taken[i] \in Batches /\ state[taken[i]] = "ok"
      BY <1>1, <1>4, ElementOfSeq DEF BatchInv
    <3>3. \A i \in 1..Len(taken) : state'[taken[i]] = "ok"
      BY <2>3, <3>2
    <3>4. ASSUME NEW c \in Batches
          PROVE  /\ remaining[c] # <<>> => state'[c] = ""
                 /\ remaining[c] # <<>> \/ state'[c] = "ok" => AskedInFull(c, answers[c], remaining[c])
      BY <1>1, <2>3 DEF BatchInv
    <3>5. Distinct(taken)
      BY <1>1 DEF BatchInv
    <3>6. QED
      BY <1>3, <1>5, <2>1, <3>1, <3>3, <3>4, <3>5 DEF BatchInv
  <2>8. state[b] \in {"failed", "cancelled"} /\ ~In(b, waitingBatches)
    <3>1. state[b] # ""
      BY <1>2 DEF Awaited
    <3>2. QED
      BY <1>1, <1>8, <2>3, <3>1 DEF PoolTypes
  <2>9. poolFailures # <<>> => poolFailures[1] \in Batches /\ state'[poolFailures[1]] = "failed"
    <3>1. ASSUME poolFailures # <<>> PROVE poolFailures[1] \in Batches /\ state'[poolFailures[1]] = "failed"
      <4>1. 1 \in 1..Len(poolFailures)
        BY <1>4, <3>1, EmptySeq
      <4>2. poolFailures[1] \in Batches /\ state[poolFailures[1]] = "failed"
        BY <1>1, <1>4, <3>1, <4>1, ElementOfSeq DEF CauseInv
      <4>3. QED
        BY <2>3, <4>2
    <3>2. QED
      BY <3>1
  <2>10. CauseInv'
    <3>1. Shares => poolFailures # <<>>
      BY <1>1, <2>8 DEF CauseInv
    <3>2. raisedFor' \in Batches /\ state'[raisedFor'] = "failed"
      <4>1. CASE poolFailures # <<>>
        BY <2>1, <2>9, <4>1 DEF FirstFailure
      <4>2. CASE poolFailures = <<>>
        <5>1. state[b] = "failed"
          BY <1>1, <1>3, <2>8, <3>1, <4>2 DEF CauseInv
        <5>2. QED
          BY <2>1, <2>3, <2>8, <4>2, <5>1 DEF FirstFailure
      <4>3. QED
        BY <4>1, <4>2
    <3>3. \A c \in Batches : state'[c] \in {"failed", "cancelled"} /\ Shares => poolFailures # <<>>
      BY <3>1
    <3>4. stopped' => poolFailures # <<>>
      BY <1>1, <2>1, <3>1 DEF CauseInv
    <3>5. poolFailures # <<>> => Shares
      BY <1>1 DEF CauseInv
    <3>6. QED
      BY <1>3, <1>6, <2>1, <2>9, <3>2, <3>3, <3>4, <3>5 DEF CauseInv
  <2>11. ReturnInv'
    BY <2>1 DEF ReturnInv
  <2>12. QED
    BY <2>6, <2>7, <2>10, <2>11 DEF PoolInv
<1>9. QED
  BY <1>7, <1>8

\* Every step keeps the invariant.
LEMMA PoolStep == PoolInv /\ [PoolNext]_poolVars => PoolInv'
<1> SUFFICES ASSUME PoolInv, [PoolNext]_poolVars PROVE PoolInv'
  OBVIOUS
<1>1. \A c, t, l : AskedInFull(c, t, l)' <=> AskedInFull(c, t, l)
  BY DEF AskedInFull
<1>2. CASE Return
  <2>1. PoolTypes' /\ BatchInv'
    BY <1>1, <1>2 DEF Return, PoolInv, PoolTypes, BatchInv
  <2>2. CauseInv'
    BY <1>2 DEF Return, PoolInv, CauseInv, Shares
  <2>3. ReturnInv'
    <3>1. Joined' = Joined
      BY DEF Joined
    <3>2. Accepted' = Accepted
      BY <1>2 DEF Return, Accepted, Decisions, NamedByOwn
    <3>3. QED
      BY <1>2, <3>1, <3>2 DEF Return, ReturnInv
  <2>4. QED
    BY <2>1, <2>2, <2>3 DEF PoolInv
<1>3. CASE RaiseCause
  <2>1. PoolTypes' /\ BatchInv'
    BY <1>1, <1>3 DEF RaiseCause, PoolInv, PoolTypes, BatchInv
  <2>2. CauseInv'
    BY <1>3 DEF RaiseCause, PoolInv, CauseInv, Shares
  <2>3. ReturnInv'
    BY <1>3 DEF RaiseCause, ReturnInv
  <2>4. QED
    BY <2>1, <2>2, <2>3 DEF PoolInv
<1>4. CASE UNCHANGED poolVars
  <2>1. PoolTypes' /\ BatchInv'
    BY <1>1, <1>4 DEF poolVars, PoolInv, PoolTypes, BatchInv
  <2>2. CauseInv'
    BY <1>4 DEF poolVars, PoolInv, CauseInv, Shares
  <2>3. ReturnInv'
    <3>1. Joined' = Joined
      BY DEF Joined
    <3>2. Accepted' = Accepted
      BY <1>4 DEF poolVars, Accepted, Decisions, NamedByOwn
    <3>3. QED
      BY <1>4, <3>1, <3>2 DEF poolVars, PoolInv, ReturnInv
  <2>4. QED
    BY <2>1, <2>2, <2>3 DEF PoolInv
<1>5. QED
  BY <1>2, <1>3, <1>4, TakeKeeps, CollectKeeps, WorkKeeps DEF PoolNext

\* What a pool returns is that of every item, in the order of the list.
LEMMA AllTaken == ASSUME PoolInv, poolPc = "returned" PROVE \A b \in Batches : state[b] = "ok"
<1>1. taken \in Seq(Batches) /\ Len(taken) = Cardinality(Batches) /\ Distinct(taken)
  BY DEF PoolInv, PoolTypes, BatchInv, ReturnInv
<1>2. IsFiniteSet(Batches)
  <2>1. PICK q \in Nat : Batches = 1..q
    BY BatchesAre
  <2>2. QED
    BY <2>1, FS_Interval
<1> DEFINE n == Len(taken)
<1>3. taken \in Injection(1..n, Batches)
  <2>1. taken \in [1..n -> Batches]
    BY <1>1, LenProperties, ElementOfSeq
  <2>2. QED
    BY <1>1, <2>1, Fun_IsInj DEF Distinct
<1>4. Cardinality(1..n) = Cardinality(Batches)
  <2>1. n \in Nat
    BY <1>1, LenProperties
  <2>2. Cardinality(1..n) = IF 1 > n THEN 0 ELSE n - 1 + 1
    BY <2>1, FS_Interval
  <2>3. QED
    BY <1>1, <2>1, <2>2
<1>5. taken \in Surjection(1..n, Batches)
  BY <1>2, <1>3, <1>4, FS_Injection
<1>6. \A b \in Batches : \E i \in 1..n : taken[i] = b
  BY <1>5, Fun_SurjectionProperties DEF Surjection
<1>7. \A i \in 1..n : state[taken[i]] = "ok"
  BY DEF PoolInv, BatchInv
<1>8. QED
  BY <1>6, <1>7

\* A list that is returned has every item asked for once, in order.
LEMMA BatchesHold == PoolInv => BatchesAccounted
<1> SUFFICES ASSUME PoolInv, poolPc = "returned" PROVE BatchesAccounted
  BY DEF BatchesAccounted
<1> DEFINE joined == returned.joined
           Of(x) == answers[joined[x]]
           Places == UNION {UNION {{<<x, k,
               n>> : n \in DOMAIN Of(x)[k].asked} : k \in DOMAIN Of(x)} : x \in DOMAIN joined}
           Item(p) == Of(p[1])[p[2]].asked[p[3]]
           Before(p, q) == \/ p[1] < q[1]
                           \/ p[1] = q[1] /\ p[2] < q[2]
                           \/ p[1] = q[1] /\ p[2] = q[2] /\ p[3] < q[3]
<1>1. joined = [b \in Batches |-> b]
  BY DEF PoolInv, ReturnInv, Joined
<1>2. DOMAIN joined = Batches /\ \A b \in Batches : Of(b) = answers[b]
  BY <1>1
<1>3. \A b \in Batches : answers[b] \in Seq(PoolAnswers) /\ AskedInFull(b, answers[b], <<>>)
  <2>1. ASSUME NEW b \in Batches PROVE answers[b] \in Seq(PoolAnswers) /\ AskedInFull(b, answers[b], <<>>)
    <3>1. state[b] = "ok"
      BY AllTaken
    <3>2. remaining[b] = <<>>
      BY <3>1 DEF PoolInv, BatchInv
    <3>3. QED
      BY <3>1, <3>2 DEF PoolInv, PoolTypes, BatchInv
  <2>2. QED
    BY <2>1
<1>4. \A b \in Batches : \A k \in 1..Len(answers[b]) :
        answers[b][k].asked \in Lists /\ DOMAIN answers[b][k].asked = 1..Len(answers[b][k].asked)
  <2>1. ASSUME NEW b \in Batches, NEW k \in 1..Len(answers[b])
        PROVE  answers[b][k].asked \in Lists /\ DOMAIN answers[b][k].asked = 1..Len(answers[b][k].asked)
    <3>1. answers[b][k] \in PoolAnswers
      BY <1>3, ElementOfSeq
    <3>2. answers[b][k].asked \in Lists
      BY <3>1 DEF PoolAnswers
    <3>3. answers[b][k].asked \in Seq(1..PoolItems)
      BY <3>2 DEF Lists
    <3>4. QED
      BY <3>2, <3>3, LenProperties
  <2>2. QED
    BY <2>1
<1>5. \A b \in Batches : DOMAIN answers[b] = 1..Len(answers[b])
  BY <1>3, LenProperties
<1> HIDE DEF joined
<1>6. \A p : p \in Places <=> \E x \in Batches : \E k \in 1..Len(answers[x]) :
          \E n \in 1..Len(answers[x][k].asked) : p = <<x, k, n>>
  <2>1. \A p : p \in Places <=> \E x \in DOMAIN joined : \E k \in DOMAIN Of(x) :
            \E n \in DOMAIN Of(x)[k].asked : p = <<x, k, n>>
    OBVIOUS
  <2> HIDE DEF Places
  <2>2. ASSUME NEW p
        PROVE  p \in Places <=> \E x \in Batches : \E k \in 1..Len(answers[x]) :
            \E n \in 1..Len(answers[x][k].asked) : p = <<x, k, n>>
    <3>1. ASSUME p \in Places
          PROVE  \E x \in Batches : \E k \in 1..Len(answers[x]) :
              \E n \in 1..Len(answers[x][k].asked) : p = <<x, k, n>>
      <4>1. PICK x \in Batches : \E k \in DOMAIN answers[x] :
                \E n \in DOMAIN answers[x][k].asked : p = <<x, k, n>>
        BY <1>2, <2>1, <3>1
      <4>2. PICK k \in 1..Len(answers[x]) : \E n \in DOMAIN answers[x][k].asked : p = <<x, k, n>>
        BY <1>5, <4>1
      <4>3. PICK n \in 1..Len(answers[x][k].asked) : p = <<x, k, n>>
        BY <1>4, <4>2
      <4>4. QED
        BY <4>3
    <3>2. ASSUME NEW x \in Batches, NEW k \in 1..Len(answers[x]), NEW n \in 1..Len(answers[x][k].asked),
              p = <<x, k, n>>
          PROVE  p \in Places
      <4>1. x \in DOMAIN joined /\ k \in DOMAIN Of(x) /\ n \in DOMAIN Of(x)[k].asked
        BY <1>2, <1>4, <1>5
      <4>2. QED
        BY <2>1, <3>2, <4>1
    <3>3. QED
      BY <3>1, <3>2
  <2>3. QED
    BY <2>2
<1>7. \A x \in Batches : \A k, n : Item(<<x, k, n>>) = answers[x][k].asked[n]
  BY <1>2
<1>8. ASSUME NEW x \in Batches, NEW k \in 1..Len(answers[x]), NEW n \in 1..Len(answers[x][k].asked)
      PROVE  /\ answers[x][k].asked[n] \in 1..PoolItems
             /\ In(answers[x][k].asked[n], answers[x][k].asked)
             /\ In(answers[x][k].asked[n], Batch(x))
  <2>1. answers[x][k].asked[n] \in 1..PoolItems
    BY <1>4, ElementOfSeq DEF Lists
  <2>2. In(answers[x][k].asked[n], answers[x][k].asked)
    BY DEF In
  <2>3. QED
    BY <1>3, <2>1, <2>2 DEF AskedInFull
<1> HIDE DEF Places, Item
<1>9. {Item(p) : p \in Places} = 1..PoolItems
  <2>1. ASSUME NEW p \in Places PROVE Item(p) \in 1..PoolItems
    <3>1. PICK x \in Batches : \E k \in 1..Len(answers[x]) :
              \E n \in 1..Len(answers[x][k].asked) : p = <<x, k, n>>
      BY <1>6
    <3>2. PICK k \in 1..Len(answers[x]) : \E n \in 1..Len(answers[x][k].asked) : p = <<x, k, n>>
      BY <3>1
    <3>3. PICK n \in 1..Len(answers[x][k].asked) : p = <<x, k, n>>
      BY <3>2
    <3>4. Item(p) = answers[x][k].asked[n]
      BY <1>7, <3>3
    <3>5. QED
      BY <1>8, <3>4
  <2>2. ASSUME NEW i \in 1..PoolItems PROVE \E p \in Places : Item(p) = i
    <3>1. PICK b \in Batches : In(i, Batch(b))
      BY BatchOfItem
    <3>2. \A k \in 1..Len(<<>>) : FALSE
      OBVIOUS
    <3>3. PICK k \in 1..Len(answers[b]) : In(i, answers[b][k].asked)
      BY <1>3, <3>1, <3>2 DEF AskedInFull
    <3>4. PICK n \in 1..Len(answers[b][k].asked) : answers[b][k].asked[n] = i
      BY <3>3 DEF In
    <3>5. <<b, k, n>> \in Places /\ Item(<<b, k, n>>) = i
      BY <1>6, <1>7, <3>4
    <3>6. QED
      BY <3>5
  <2>3. QED
    BY <2>1, <2>2
<1>10. ASSUME NEW p \in Places, NEW q \in Places, Before(p, q) PROVE Item(p) < Item(q)
  <2>1. PICK x \in Batches : \E k \in 1..Len(answers[x]) : \E n \in 1..Len(answers[x][k].asked) : p = <<x,
            k, n>>
    BY <1>6
  <2>2. PICK k \in 1..Len(answers[x]) : \E n \in 1..Len(answers[x][k].asked) : p = <<x, k, n>>
    BY <2>1
  <2>91. PICK n \in 1..Len(answers[x][k].asked) : p = <<x, k, n>>
    BY <2>2
  <2>3. PICK y \in Batches : \E l \in 1..Len(answers[y]) : \E m \in 1..Len(answers[y][l].asked) : q = <<y,
            l, m>>
    BY <1>6
  <2>4. PICK l \in 1..Len(answers[y]) : \E m \in 1..Len(answers[y][l].asked) : q = <<y, l, m>>
    BY <2>3
  <2>92. PICK m \in 1..Len(answers[y][l].asked) : q = <<y, l, m>>
    BY <2>4
  <2>5. Item(p) = answers[x][k].asked[n] /\ Item(q) = answers[y][l].asked[m]
    <3>1. Item(p) = answers[x][k].asked[n]
      BY <1>7, <2>91
    <3>2. Item(q) = answers[y][l].asked[m]
      BY <1>7, <2>92
    <3>3. QED
      BY <3>1, <3>2
  <2>6. x < y \/ (x = y /\ k < l) \/ (x = y /\ k = l /\ n < m)
    BY <1>10, <2>91, <2>92
  <2>7. CASE x < y
    <3> DEFINE i == answers[x][k].asked[n]
               j == answers[y][l].asked[m]
    <3>1. i \in 1..PoolItems /\ j \in 1..PoolItems /\ i <= x * BatchSize /\ (y - 1) * BatchSize < j
      BY <1>8, BatchIs
    <3>2. x * BatchSize \in Int /\ (y - 1) * BatchSize \in Int /\ x * BatchSize <= (y - 1) * BatchSize
      <4>1. x \in Nat /\ y \in Nat
        BY BatchIs
      <4>2. x <= y - 1
        BY <2>7, <4>1
      <4>3. QED
        BY <4>1, <4>2, PoolAssumption, Multiples
    <3> HIDE DEF i, j
    <3>3. i < j
      BY <3>1, <3>2
    <3>4. QED
      BY <2>5, <3>3 DEF i, j
  <2>8. CASE x = y /\ k < l
    <3>1. Shorter(answers[x][k].asked, answers[x][l].asked)
      BY <1>3, <2>8 DEF AskedInFull
    <3>2. QED
      BY <2>5, <2>8, <3>1 DEF Shorter
  <2>9. CASE x = y /\ k = l /\ n < m
    BY <1>4, <2>5, <2>9 DEF Lists
  <2>10. QED
    BY <2>6, <2>7, <2>8, <2>9
<1>11. QED
  BY <1>9, <1>10 DEF BatchesAccounted, Places, Item, joined

\* A pool returns its items once and in order, by answers of their own batch, or raises what failed first.
THEOREM PoolsHold == PoolSpec => [](BatchesAccounted /\ OwnBatchDecides /\ CauseRaised)
<1>1. PoolInv => OwnBatchDecides
  <2> SUFFICES ASSUME PoolInv, poolPc = "returned", NEW i \in returned.accepted
               PROVE  \E b \in Batches : \E k \in DOMAIN answers[b] :
                        i \in Range(answers[b][k].asked) /\ i \in Range(answers[b][k].said)
    BY DEF OwnBatchDecides
  <2>1. Decisions(i) # {}
    BY DEF PoolInv, ReturnInv, Accepted
  <2>2. PICK b \in Batches : \E k \in DOMAIN answers[b] : NamedByOwn(answers[b][k], i) # {}
    BY <2>1 DEF Decisions
  <2>3. PICK k \in DOMAIN answers[b] : NamedByOwn(answers[b][k], i) # {}
    BY <2>2
  <2>4. QED
    BY <2>3 DEF NamedByOwn, Range
<1>2. PoolInv => CauseRaised
  BY DEF PoolInv, CauseInv, CauseRaised
<1>3. QED
  BY <1>1, <1>2, PoolStart, PoolStep, BatchesHold, PTL DEF PoolSpec

-----------------------------------------------------------------------------
(* The selection of the introduction *)

UnderCorrection == {"revising", "resolving", "reconsidering", "adding"}

\* A review that was read is bound to the selection it is about, until a correction
\* replaces the selection.
ReviewInv ==
  /\ selection \in Selections
  /\ selectionPc \in {"reviewed", "selected"} \cup UnderCorrection =>
       BoundToDraft(verdict) /\ verdict.findings \subseteq Findings(selection)
  /\ selectionPc \in {"reviewed", "selected"} => ~InvalidDraft
  /\ selectionPc = "selected" => verdict.accepted

LEMMA VerdictOfSelection ==
  ASSUME NEW v \in SelectionVerdicts
  PROVE  v.findings \subseteq Findings(selection)
<1> DEFINE found == {{}} \cup {{f, g} : f, g \in Findings(selection)}
<1>1. CASE \E set \in found, scope \in {"selection", "meanings"} :
             v = [about |-> selection, accepted |-> set = {}, findings |-> set, scope |-> scope]
  <2>1. PICK set \in found, scope \in {"selection", "meanings"} :
             v = [about |-> selection, accepted |-> set = {}, findings |-> set, scope |-> scope]
    BY <1>1
  <2>2. set \subseteq Findings(selection) /\ v.findings = set
    <3> HIDE DEF Findings
    <3>1. QED
    BY <2>1
  <2>3. QED
    BY <2>2
<1>2. CASE v = [NoVerdict EXCEPT !.accepted = TRUE]
  BY <1>2 DEF NoVerdict
<1>3. CASE v = [NoVerdict EXCEPT !.about = selection, !.accepted = TRUE, !.findings = Findings(selection)]
  BY <1>3 DEF NoVerdict
<1>4. QED
  BY <1>1, <1>2, <1>3 DEF SelectionVerdicts

LEMMA RedraftKeeps ==
  ASSUME NEW new \in Selections, Redraft(new)
  PROVE  ReviewInv'
  BY DEF Redraft, ReviewInv, UnderCorrection

\* What a resolution changes belongs to the findings it answers.
FindingsSourced(r) ==
  /\ \A e \in r.edits : /\ e.into \subseteq Meanings /\ e.meaning \in selection[e.part] /\ e.part \in Concerned
                        /\ About(e.part, e.meaning) # {} \/ e.meaning \in e.into
  /\ \A i \in r.inclusions : i.meanings \subseteq Meanings /\ i.part \in Named("omitted")
  /\ \A a \in r.additions : a.meanings \subseteq Meanings /\ a.part \in Concerned
  /\ \A g \in r.merges : About(g.part, g.meaning) # {}

LEMMA FindingsConcern ==
  /\ \A kind : Named(kind) \subseteq Concerned
  /\ \A p, m : About(p, m) # {} => p \in Concerned
  BY DEF Named, Concerned, About

LEMMA EditableSourced ==
  ASSUME NEW e \in [part : SourceParts, meaning : Meanings, into : Copies], Editable(e)
  PROVE  /\ e.into \subseteq Meanings /\ e.meaning \in selection[e.part] /\ e.part \in Concerned
         /\ About(e.part, e.meaning) # {} \/ e.meaning \in e.into
  BY FindingsConcern DEF Editable, Copies

LEMMA ResolutionSourced ==
  ASSUME NEW r \in Resolutions
  PROVE  FindingsSourced(r)
<1> DEFINE rewrites == [part : SourceParts, meaning : Meanings, into : Copies]
           copies   == [part : SourceParts, meanings : Copies]
<1>1. /\ r.edits \in Some({e \in rewrites : Editable(e)})
      /\ r.inclusions \in Some({i \in copies : i.part \in Named("omitted")})
      /\ r.additions \in Some({a \in copies : a.part \in Concerned})
      /\ r.merges \in Some({g \in rewrites : MergeableMeaning(g)})
  BY DEF Resolutions
<1>2. \A set : \A some \in Some(set) : some \subseteq set
  BY DEF Some
<1>3. /\ r.edits \subseteq {e \in rewrites : Editable(e)}
      /\ r.inclusions \subseteq {i \in copies : i.part \in Named("omitted")}
      /\ r.additions \subseteq {a \in copies : a.part \in Concerned}
      /\ r.merges \subseteq {g \in rewrites : MergeableMeaning(g)}
  <2> HIDE DEF rewrites, copies
  <2>1. QED
    BY <1>1, <1>2
<1>4. \A e \in r.edits : /\ e.into \subseteq Meanings /\ e.meaning \in selection[e.part] /\ e.part \in Concerned
                         /\ About(e.part, e.meaning) # {} \/ e.meaning \in e.into
  BY <1>3, EditableSourced
<1>5. \A i \in r.inclusions : i.meanings \subseteq Meanings /\ i.part \in Named("omitted")
  BY <1>3 DEF Copies
<1>6. \A a \in r.additions : a.meanings \subseteq Meanings /\ a.part \in Concerned
  BY <1>3 DEF Copies
<1>7. \A g \in r.merges : About(g.part, g.meaning) # {}
  BY <1>3 DEF MergeableMeaning
<1>8. QED
  BY <1>4, <1>5, <1>6, <1>7 DEF FindingsSourced

\* An edit that is decided alone answers a finding of its own.
LEMMA DecidedSourced ==
  ASSUME NEW r \in Resolutions, NEW e \in r.edits, NEW wording \in Copies \cup {{}}, About(e.part, e.meaning) # {}
  PROVE  FindingsSourced([r EXCEPT !.edits = IF wording = {} THEN {} ELSE {[e EXCEPT !.into = wording]}])
<1> DEFINE settled == [r EXCEPT !.edits = IF wording = {} THEN {} ELSE {[e EXCEPT !.into = wording]}]
<1>1. FindingsSourced(r)
  BY ResolutionSourced
<1>2. /\ DOMAIN r = {"edits", "inclusions", "additions", "merges"}
      /\ e \in [part : SourceParts, meaning : Meanings, into : Copies]
  BY DEF Resolutions, Some
<1>3. settled.inclusions = r.inclusions /\ settled.additions = r.additions /\ settled.merges = r.merges
      /\ settled.edits = (IF wording = {} THEN {} ELSE {[e EXCEPT !.into = wording]})
  BY <1>2
<1>4. LET f == [e EXCEPT !.into = wording]
      IN f.part = e.part /\ f.meaning = e.meaning /\ f.into = wording
  BY <1>2
<1>5. \A f \in settled.edits : /\ f.into \subseteq Meanings /\ f.meaning \in selection[f.part] /\ f.part \in Concerned
                               /\ About(f.part, f.meaning) # {}
  <2>1. CASE wording = {}
    BY <1>3, <2>1
  <2>2. CASE wording # {}
    <3>1. e.meaning \in selection[e.part] /\ e.part \in Concerned /\ wording \subseteq Meanings
      BY <1>1, <2>2 DEF FindingsSourced, Copies
    <3>2. settled.edits = {[e EXCEPT !.into = wording]}
      BY <1>3, <2>2
    <3> HIDE DEF settled
    <3>3. QED
      BY <1>4, <3>1, <3>2
  <2>3. QED
    BY <2>1, <2>2
<1>6. QED
  <2> HIDE DEF settled
  <2>1. QED
    BY <1>1, <1>3, <1>5 DEF FindingsSourced

LEMMA AppliedSelection ==
  ASSUME NEW r, FindingsSourced(r), selection \in Selections
  PROVE  Applied(r) \in Selections
<1>1. ASSUME NEW p \in SourceParts PROVE Applied(r)[p] \subseteq Meanings
  <2> DEFINE edits == {e \in r.edits : e.part = p}
             gone  == {x.meaning : x \in edits \cup {g \in r.merges : g.part = p}}
             more  == {y \in r.additions \cup r.inclusions : y.part = p}
  <2>1. Applied(r)[p] = (selection[p] \ gone) \cup (UNION {e.into : e \in edits}) \cup (UNION {x.meanings : x \in more})
    BY DEF Applied
  <2>2. selection[p] \subseteq Meanings
    BY DEF Selections
  <2>3. \A e \in edits : e.into \subseteq Meanings
    BY DEF FindingsSourced
  <2>4. \A x \in more : x.meanings \subseteq Meanings
    BY DEF FindingsSourced
  <2> HIDE DEF edits, gone, more
  <2>5. QED
    BY <2>1, <2>2, <2>3, <2>4
<1>2. Applied(r) = [p \in SourceParts |-> Applied(r)[p]]
  BY DEF Applied
<1>3. QED
  BY <1>1, <1>2 DEF Selections

\* A resolution changes only what was found.
LEMMA AppliedChanges ==
  ASSUME NEW r, FindingsSourced(r), Applicable(r), NEW p \in SourceParts
  PROVE  /\ Applied(r)[p] # selection[p] => p \in Concerned
         /\ selection[p] = {} /\ Applied(r)[p] # {} => p \in Named("omitted")
         /\ \A m \in selection[p] \ Applied(r)[p] : About(p, m) # {}
<1> DEFINE edits == {e \in r.edits : e.part = p}
           gone  == {x.meaning : x \in edits \cup {g \in r.merges : g.part = p}}
           more  == {y \in r.additions \cup r.inclusions : y.part = p}
<1>1. Applied(r)[p] = (selection[p] \ gone) \cup (UNION {e.into : e \in edits}) \cup (UNION {x.meanings : x \in more})
  BY DEF Applied
<1>2. ASSUME p \notin Concerned PROVE edits = {} /\ more = {} /\ gone = {}
  BY <1>2, FindingsConcern DEF FindingsSourced
<1>3. ASSUME selection[p] = {}, p \notin Named("omitted") PROVE edits = {} /\ more = {}
  BY <1>3 DEF FindingsSourced, Applicable
<1>4. ASSUME NEW m \in selection[p], m \notin Applied(r)[p] PROVE About(p, m) # {}
  <2>1. PICK x \in edits \cup {g \in r.merges : g.part = p} : x.meaning = m
    BY <1>1, <1>4
  <2>2. CASE x \in edits
    BY <1>1, <1>4, <2>1, <2>2 DEF FindingsSourced
  <2>3. CASE x \in r.merges /\ x.part = p
    BY <2>1, <2>3 DEF FindingsSourced
  <2>4. QED
    BY <2>1, <2>2, <2>3
<1>5. p \notin Concerned => Applied(r)[p] = selection[p]
  BY <1>1, <1>2
<1>6. selection[p] = {} /\ p \notin Named("omitted") => Applied(r)[p] = {}
  BY <1>1, <1>3
<1>7. QED
  BY <1>4, <1>5, <1>6

LEMMA ReviewNext == ReviewInv /\ [SelectionNext]_selectionVars => ReviewInv'
<1> SUFFICES ASSUME ReviewInv, [SelectionNext]_selectionVars PROVE ReviewInv'
  OBVIOUS
<1>1. CASE LoseReply
  BY <1>1 DEF LoseReply, FailSelection, ReviewInv, UnderCorrection
<1>2. CASE Draft
  BY <1>2 DEF Draft, ReviewInv, UnderCorrection
<1>3. CASE SettleInventory
  BY <1>3 DEF SettleInventory, ReviewInv, UnderCorrection
<1>4. CASE ReviewMeanings
  <2>1. PICK v \in SelectionVerdicts :
          IF BoundToDraft(v) THEN selectionPc' = "reviewed" /\ verdict' = v /\ UNCHANGED spent
          ELSE /\ verdict' = NoVerdict
               /\ IF "recheck" \in spent THEN selectionPc' = "failed" /\ UNCHANGED spent
                  ELSE spent' = spent \cup {"recheck"} /\ UNCHANGED selectionPc
    BY <1>4 DEF ReviewMeanings
  <2>2. selectionPc = "drafted" /\ ~InvalidDraft /\ UNCHANGED <<selection, unsettled>>
    BY <1>4 DEF ReviewMeanings
  <2>3. CASE BoundToDraft(v)
    <3>1. verdict' = v /\ selectionPc' = "reviewed" /\ verdict'.findings \subseteq Findings(selection)
      BY <2>1, <2>3, VerdictOfSelection
    <3>2. BoundToDraft(verdict)' /\ (~InvalidDraft)'
      BY <2>2, <2>3, <3>1 DEF BoundToDraft, Omissions, InvalidDraft, IncludedParts
    <3>3. Findings(selection)' = Findings(selection)
      BY <2>2 DEF Findings
    <3>4. QED
      BY <2>2, <3>1, <3>2, <3>3 DEF ReviewInv
  <2>4. CASE ~BoundToDraft(v)
    BY <2>1, <2>2, <2>4 DEF ReviewInv, UnderCorrection
  <2>5. QED
    BY <2>3, <2>4
<1>5. CASE AcceptSelection
  BY <1>5 DEF AcceptSelection, ReviewInv, BoundToDraft, Omissions, InvalidDraft, IncludedParts,
     Findings
<1>6. CASE Reject
  <2>1. selectionPc' \in {"revising", "resolving", "adding", "drafting"}
    BY <1>6 DEF Reject, Correction
  <2>2. QED
    BY <1>6, <2>1 DEF Reject, ReviewInv, BoundToDraft, Omissions, Findings
<1>7. CASE ReviseMeanings
  BY <1>7, RedraftKeeps DEF ReviseMeanings
<1>8. CASE AddParts
  BY <1>8, RedraftKeeps DEF AddParts
<1>9. CASE Resolve
  BY <1>9, RedraftKeeps, ResolutionSourced, AppliedSelection DEF Resolve, ReviewInv
<1>10. CASE Reconsider
  BY <1>10 DEF Reconsider, ReviewInv, BoundToDraft, Omissions, Findings, UnderCorrection
<1>11. CASE Adjudicate
  BY <1>11, RedraftKeeps, DecidedSourced, AppliedSelection DEF Adjudicate, ReviewInv
<1>12. CASE UNCHANGED selectionVars
  BY <1>12 DEF selectionVars, ReviewInv, BoundToDraft, Omissions, Findings, InvalidDraft,
     IncludedParts
<1>13. QED
  BY <1>1, <1>2, <1>3, <1>4, <1>5, <1>6, <1>7, <1>8, <1>9, <1>10, <1>11, <1>12 DEF SelectionNext

(* An introduction is selected only as its last review accepted it.            *)
THEOREM SelectionReviewed == SelectionSpec => []AcceptedAsReviewed
<1>1. SelectionInit => ReviewInv
  BY DEF SelectionInit, ReviewInv, NoVerdict, Selections, UnderCorrection
<1>2. ReviewInv => AcceptedAsReviewed
  BY DEF ReviewInv, AcceptedAsReviewed, BoundToDraft, InvalidDraft
<1>3. QED
  BY <1>1, <1>2, ReviewNext, PTL DEF SelectionSpec

LEMMA AddedOnly ==
  ASSUME ReviewInv, AddParts
  PROVE  ChangesFoundOnly
<1> DEFINE found == {f.part : f \in Omissions(verdict)}
<1>1. PICK new \in Selections :
        (\A p \in found : new[p] # {}) /\ (\A p \in SourceParts \ found : new[p] = selection[p]) /\ Redraft(new)
  BY DEF AddParts
<1>2. selection' = new /\ found = Named("omitted") /\ found \subseteq Concerned
  BY <1>1 DEF Redraft, Omissions, Named, Concerned
<1>3. \A f \in Omissions(verdict) : selection[f.part] = {}
  BY DEF AddParts, ReviewInv, UnderCorrection, Omissions, Findings
<1>4. \A p \in found : selection[p] = {}
  BY <1>3
<1>5. QED
  BY <1>1, <1>2, <1>4 DEF ChangesFoundOnly

LEMMA FoundOnly == ReviewInv /\ [SelectionNext]_selectionVars => [ChangesFoundOnly]_selectionVars
<1> SUFFICES ASSUME ReviewInv, SelectionNext PROVE ChangesFoundOnly
  OBVIOUS
<1>1. CASE Resolve
  <2>1. PICK r \in Resolutions : Applicable(r) /\ selection' = Applied(r)
    BY <1>1 DEF Resolve, Redraft
  <2>2. QED
    BY <2>1, ResolutionSourced, AppliedChanges DEF ChangesFoundOnly
<1>2. CASE Adjudicate
  <2>1. PICK r \in Resolutions : \E e \in r.edits, wording \in Copies \cup {{}} :
          /\ About(e.part, e.meaning) # {}
          /\ LET settled == [r EXCEPT !.edits = IF wording = {} THEN {} ELSE {[e EXCEPT !.into = wording]}]
             IN Applicable(settled) /\ selection' = Applied(settled)
    BY <1>2 DEF Adjudicate, Redraft
  <2>2. PICK d : FindingsSourced(d) /\ Applicable(d) /\ selection' = Applied(d)
    BY <2>1, DecidedSourced
  <2>3. QED
    BY <2>2, AppliedChanges DEF ChangesFoundOnly
<1>3. CASE AddParts
  BY <1>3, AddedOnly
<1>4. CASE \/ LoseReply \/ Draft \/ SettleInventory \/ ReviewMeanings
           \/ AcceptSelection \/ Reject \/ ReviseMeanings \/ Reconsider
  BY <1>4 DEF LoseReply, FailSelection, Draft, SettleInventory, ReviewMeanings,
     AcceptSelection, Reject, ReviseMeanings, Reconsider,
    ChangesFoundOnly, Correction
<1>5. QED
  BY <1>1, <1>2, <1>3, <1>4 DEF SelectionNext

(* A correction changes only meanings its review found.                        *)
THEOREM FoundMeaningsChange == SelectionSpec => OnlyFoundMeaningsChange
<1>1. SelectionInit => ReviewInv
  BY DEF SelectionInit, ReviewInv, NoVerdict, Selections, UnderCorrection
<1>2. QED
  BY <1>1, ReviewNext, FoundOnly, PTL DEF SelectionSpec, OnlyFoundMeaningsChange

-----------------------------------------------------------------------------
(* The draft of the introduction *)

\* A verdict of the review under way is of the copy that was reviewed: what is not
\* rejected is in the ledger as it stands, and a selection had every part reviewed.
LedgerInv ==
  /\ copy \in [CopyParts -> Nat] /\ partReviews \in [CopyParts -> Nat] /\ draftAttempt \in Nat
  /\ rejectedParts \subseteq CopyParts
  /\ draftingPc = "judged" =>
       /\ \A p \in CopyParts \ rejectedParts : partReviews[p] = copy[p]
       /\ selected => fresh = CopyParts
  /\ PublishedCopyAccepted

LEMMA LedgerStart == DraftingInit => LedgerInv
  BY DEF DraftingInit, LedgerInv, PublishedCopyAccepted

LEMMA LedgerStep == LedgerInv /\ [DraftingNext]_draftingVars => LedgerInv'
<1> SUFFICES ASSUME LedgerInv, [DraftingNext]_draftingVars PROVE LedgerInv'
  OBVIOUS
<1>1. CASE Write
  <2>1. copy' \in [CopyParts -> Nat]
    <3>1. CASE UNCHANGED copy
      BY <3>1 DEF LedgerInv
    <3>2. CASE \E changed \in SUBSET CopyParts :
                 copy' = [p \in CopyParts |-> IF p \in changed THEN draftAttempt ELSE copy[p]]
      BY <3>2 DEF LedgerInv
    <3>3. CASE copy' = [p \in CopyParts |-> draftAttempt]
      BY <3>3 DEF LedgerInv
    <3>4. QED
      BY <1>1, <3>1, <3>2, <3>3 DEF Write
  <2>2. draftingPc' \in {"failed", "checking", "unusable"} /\ UNCHANGED <<partReviews, draftAttempt, rejectedParts>>
    BY <1>1 DEF Write
  <2>3. QED
    BY <2>1, <2>2 DEF LedgerInv, PublishedCopyAccepted
<1>2. CASE ReviewCopy
  <2>1. fresh' = CopyParts \ Retained /\ UNCHANGED <<copy, draftAttempt, selected>>
    BY <1>2 DEF ReviewCopy
  <2>2. CASE draftingPc' = "failed" /\ UNCHANGED <<partReviews, rejectedParts, missing, others>>
    BY <2>1, <2>2 DEF LedgerInv, PublishedCopyAccepted
  <2>3. CASE \E denied \in SUBSET (CopyParts \ Retained) :
               /\ rejectedParts' = denied /\ draftingPc' = "judged"
               /\ partReviews' = [p \in CopyParts |-> IF p \in fresh' \ denied THEN copy[p] ELSE partReviews[p]]
    <3>1. PICK denied \in SUBSET (CopyParts \ Retained) :
               /\ rejectedParts' = denied /\ draftingPc' = "judged"
               /\ partReviews' = [p \in CopyParts |-> IF p \in fresh' \ denied THEN copy[p] ELSE partReviews[p]]
      BY <2>3
    <3>2. partReviews' \in [CopyParts -> Nat] /\ rejectedParts' \subseteq CopyParts
      BY <3>1 DEF LedgerInv
    <3>3. ASSUME NEW p \in CopyParts \ denied PROVE partReviews'[p] = copy[p]
      <4>1. CASE p \in Retained
        <5>1. partReviews[p] = copy[p]
          BY <4>1 DEF Retained
        <5>2. QED
          BY <3>1, <5>1
      <4>2. CASE p \notin Retained
        BY <2>1, <3>1, <4>2
      <4>3. QED
        BY <4>1, <4>2
    <3>4. selected => fresh' = CopyParts
      BY <2>1 DEF Retained
    <3>5. QED
      BY <2>1, <3>1, <3>2, <3>3, <3>4 DEF LedgerInv, PublishedCopyAccepted
  <2>4. QED
    BY <1>2, <2>2, <2>3 DEF ReviewCopy
<1>3. CASE AcceptCopy
  <2>1. \A p \in CopyParts : partReviews[p] = copy[p]
    BY <1>3 DEF AcceptCopy, LedgerInv
  <2>2. partReviews = copy
    BY <2>1 DEF LedgerInv
  <2>3. QED
    BY <1>3, <2>2 DEF AcceptCopy, LedgerInv, PublishedCopyAccepted
<1>4. CASE CorrectSource
  BY <1>4 DEF CorrectSource, NextAttempt, LedgerInv, PublishedCopyAccepted
<1>5. CASE CorrectMeaning
  BY <1>5 DEF CorrectMeaning, NextAttempt, LedgerInv, PublishedCopyAccepted
<1>6. CASE GiveUpDraft
  BY <1>6 DEF GiveUpDraft, LedgerInv, PublishedCopyAccepted
<1>7. CASE UNCHANGED draftingVars
  BY <1>7 DEF draftingVars, LedgerInv, PublishedCopyAccepted
<1>8. QED
  BY <1>1, <1>2, <1>3, <1>4, <1>5, <1>6, <1>7 DEF DraftingNext

(* The copy that is published was accepted part by part in this form.          *)
THEOREM PublishedAccepted == DraftingSpec => []PublishedCopyAccepted
<1>1. LedgerInv => PublishedCopyAccepted
  BY DEF LedgerInv
<1>2. QED
  BY <1>1, LedgerStart, LedgerStep, PTL DEF DraftingSpec

\* The corrections of each kind stay within their budgets.
BudgetInv ==
  /\ DOMAIN repairs = Kinds /\ repairs["source"] \in 0..2 /\ repairs["meaning"] \in 0..3
  /\ draftAttempt \in Nat
  /\ CorrectionsBounded
  /\ ~late => repairs["meaning"] <= 2

LEMMA BudgetStart == DraftingInit => BudgetInv
  BY DEF DraftingInit, BudgetInv, Kinds, CorrectionsBounded

LEMMA BudgetStep == BudgetInv /\ [DraftingNext]_draftingVars => BudgetInv'
<1> SUFFICES ASSUME BudgetInv, [DraftingNext]_draftingVars PROVE BudgetInv'
  OBVIOUS
<1>1. CASE CorrectSource
  <2>1. /\ repairs["source"] < SourceLimit /\ draftAttempt' = draftAttempt + 1
        /\ repairs' = [repairs EXCEPT !["source"] = @ + 1] /\ UNCHANGED <<late, selected>>
    BY <1>1 DEF CorrectSource, NextAttempt
  <2>2. SourceLimit \in {1, 2}
    BY DEF SourceLimit
  <2>3. repairs'["source"] = repairs["source"] + 1 /\ repairs'["meaning"] = repairs["meaning"] /\ DOMAIN repairs' = Kinds
    BY <2>1 DEF BudgetInv, Kinds
  <2>4. QED
    BY <2>1, <2>2, <2>3 DEF BudgetInv, CorrectionsBounded
<1>2. CASE CorrectMeaning
  <2>1. /\ MeaningGranted /\ ~Strict /\ draftAttempt' = draftAttempt + 1
        /\ repairs' = [repairs EXCEPT !["meaning"] = @ + 1] /\ UNCHANGED selected
    BY <1>2 DEF CorrectMeaning, NextAttempt
  <2>2. repairs'["meaning"] = repairs["meaning"] + 1 /\ repairs'["source"] = repairs["source"] /\ DOMAIN repairs' = Kinds
    BY <2>1 DEF BudgetInv, Kinds
  <2>3. \/ repairs["meaning"] \in {0, 1} /\ UNCHANGED late
        \/ selected /\ repairs["meaning"] = 2 /\ late' = TRUE
    BY <2>1 DEF MeaningGranted
  <2>4. QED
    BY <2>1, <2>2, <2>3 DEF BudgetInv, CorrectionsBounded
<1>3. CASE UNCHANGED <<repairs, draftAttempt, late, selected>>
  BY <1>3 DEF BudgetInv, CorrectionsBounded
<1>4. QED
  BY <1>1, <1>2, <1>3 DEF DraftingNext, draftingVars, Write, ReviewCopy, AcceptCopy, GiveUpDraft

(* However rounds and parts alternate, the corrections stay within their budget. *)
THEOREM BudgetsKept == DraftingSpec => []CorrectionsBounded
<1>1. BudgetInv => CorrectionsBounded
  BY DEF BudgetInv
<1>2. QED
  BY <1>1, BudgetStart, BudgetStep, PTL DEF DraftingSpec

-----------------------------------------------------------------------------
(* The review of the briefing *)

\* The attempt waiting for the context has judged the claims of findings that are
\* still without a verdict.
JoinInv ==
  /\ claims \in [Items -> ItemVerdicts] /\ checked \in [Items -> ItemVerdicts]
  /\ saved \in [Items -> ItemVerdicts] /\ reviewAttempt \in Nat
  /\ pending \subseteq Items
  /\ judged \subseteq Items
  /\ briefPc = "joining" => \A i \in judged : claims[i] \in {"good", "bad"} /\ checked[i] = "none"

LEMMA JoinStart == BriefInit => JoinInv
  BY DEF BriefInit, JoinInv, NothingDecided, ItemVerdicts

LEMMA LoadedVerdicts == ASSUME saved \in [Items -> ItemVerdicts] PROVE Loaded \in [Items -> ItemVerdicts]
  BY DEF Loaded, NothingDecided, ItemVerdicts

\* What judging a set of requested claims leaves.
LEMMA Judged ==
  ASSUME JoinInv, NEW set, set \subseteq Requested, Judge(set), UNCHANGED <<pending, checked, saved, reviewAttempt>>
  PROVE  JoinInv'
<1>1. \A i \in set : i \in Items /\ checked[i] = "none"
  BY DEF JoinInv, Requested
<1>2. PICK good \in SUBSET set :
        claims' = [i \in Items |-> IF i \in good THEN "good" ELSE IF i \in set THEN "bad" ELSE claims[i]]
  BY DEF Judge
<1>3. claims' \in [Items -> ItemVerdicts] /\ \A i \in set : claims'[i] \in {"good", "bad"}
  BY <1>1, <1>2 DEF JoinInv, ItemVerdicts
<1>4. judged' = set
  BY DEF Judge
<1>5. QED
  BY <1>1, <1>3, <1>4 DEF JoinInv

LEMMA JoinStep == JoinInv /\ [BriefNext]_briefVars => JoinInv'
<1> SUFFICES ASSUME JoinInv, [BriefNext]_briefVars PROVE JoinInv'
  OBVIOUS
<1>1. CASE BeginReview
  <2>1. PICK known : /\ known = [i \in Items |-> IF checked[i] # "none" THEN checked[i] ELSE Loaded[i]]
                     /\ checked' = known /\ pending' = Open(known) /\ saved' \in {saved, known}
                     /\ briefPc' \in {"done", "reviewing"}
    BY <1>1 DEF BeginReview
  <2>2. known \in [Items -> ItemVerdicts] /\ Open(known) \subseteq Items
    BY <2>1, LoadedVerdicts DEF JoinInv, ItemVerdicts, Open
  <2>3. claims' \in [Items -> ItemVerdicts] /\ reviewAttempt' = reviewAttempt + 1 /\ judged' = judged
    BY <1>1 DEF BeginReview, JoinInv, NothingDecided, ItemVerdicts
  <2>4. QED
    BY <2>1, <2>2, <2>3 DEF JoinInv
<1>2. CASE Context
  BY <1>2 DEF Context, JoinInv
<1>3. CASE Group
  <2>1. CASE Judge(Requested)
    BY <1>3, <2>1, Judged DEF Group
  <2>2. CASE UNCHANGED <<claims, judged>> /\ briefPc' # "joining"
    BY <1>3, <2>2 DEF Group, JoinInv
  <2>3. QED
    BY <1>3, <2>1, <2>2 DEF Group
<1>4. CASE Single
  <2>1. PICK i \in Requested :
          \/ Judge({i}) /\ UNCHANGED failures
          \/ failures' = failures \cup {i} /\ UNCHANGED <<briefPc, claims, judged>>
    BY <1>4 DEF Single
  <2>2. CASE Judge({i})
    BY <1>4, <2>1, <2>2, Judged DEF Single
  <2>3. CASE UNCHANGED <<briefPc, claims, judged>>
    BY <1>4, <2>3 DEF Single, JoinInv
  <2>4. QED
    BY <2>1, <2>2, <2>3
<1>5. CASE JoinContext
  <2>1. DecidedVerdicts(claims, judged) \in [Items -> ItemVerdicts]
    BY DEF DecidedVerdicts, JoinInv, ItemVerdicts
  <2>2. QED
    BY <1>5, <2>1 DEF JoinContext, JoinInv
<1>6. CASE JoinKept
  <2>1. \A i \in pending : checked[i] = "none" => claims[i] # "none"
    BY <1>6 DEF JoinKept, Requested
  <2>2. judged' = {i \in pending : checked[i] = "none"} /\ UNCHANGED <<claims, checked, saved, reviewAttempt, pending>>
    BY <1>6 DEF JoinKept
  <2>3. QED
    BY <2>1, <2>2 DEF JoinInv, ItemVerdicts
<1>7. CASE Finish
  BY <1>7 DEF Finish, JoinInv
<1>8. CASE Unavailable
  BY <1>8 DEF Unavailable, JoinInv
<1>9. CASE FailReview
  BY <1>9 DEF FailReview, JoinInv
<1>10. CASE Restart
  BY <1>10 DEF Restart, JoinInv, NothingDecided, ItemVerdicts
<1>11. CASE UNCHANGED briefVars
  BY <1>11 DEF briefVars, JoinInv
<1>12. QED
  BY <1>1, <1>2, <1>3, <1>4, <1>5, <1>6, <1>7, <1>8, <1>9, <1>10, <1>11 DEF BriefNext

\* No step completes a verdict other than with both reviews, or changes one.
LEMMA CompletesStep == JoinInv /\ [BriefNext]_briefVars => CompletesBoth
<1> SUFFICES ASSUME JoinInv, [BriefNext]_briefVars PROVE CompletesBoth
  OBVIOUS
<1>1. CASE BeginReview
  <2>1. briefPc = "idle" /\ \A i \in Items : checked[i] # "none" => checked'[i] = checked[i]
    BY <1>1 DEF BeginReview
  <2>2. QED
    BY <2>1 DEF CompletesBoth
<1>2. CASE JoinContext
  <2> SUFFICES ASSUME NEW i \in Items
               PROVE  /\ checked[i] = "none" /\ checked'[i] = "good" =>
                            claims[i] = "good" /\ (split => i \in context.accepted)
                      /\ checked[i] # "none" => checked'[i] = checked[i]
    BY DEF CompletesBoth
  <2>1. CASE i \notin judged
    BY <1>2, <2>1 DEF JoinContext, DecidedVerdicts
  <2>2. CASE i \in judged
    <3>1. claims[i] \in {"good", "bad"} /\ checked[i] = "none"
      BY <1>2, <2>2 DEF JoinContext, JoinInv
    <3>2. checked'[i] = (IF claims[i] = "bad" \/ (split /\ i \notin context.accepted) THEN "bad" ELSE "good")
      BY <1>2, <2>2 DEF JoinContext, DecidedVerdicts
    <3>3. QED
      BY <3>1, <3>2
  <2>3. QED
    BY <2>1, <2>2
<1>3. CASE Restart
  BY <1>3 DEF Restart, CompletesBoth, NothingDecided
<1>4. CASE UNCHANGED checked
  BY <1>4 DEF CompletesBoth
<1>5. QED
  BY <1>1, <1>2, <1>3, <1>4 DEF BriefNext, briefVars, Context, Group, Single, JoinKept, Finish,
     Unavailable, FailReview

\* Every verdict completed is the verdict of both reviews, and stays, in every run.
THEOREM ReviewedByBoth == BriefSpec => AcceptedByBothReviews
<1>1. JoinInv /\ [BriefNext]_briefVars => [CompletesBoth]_briefVars
  BY CompletesStep
<1>2. QED
  BY <1>1, JoinStart, JoinStep, PTL DEF BriefSpec, AcceptedByBothReviews

-----------------------------------------------------------------------------
(* The briefing *)

Sized(b) == \E n \in 0..Most : b \in [1..n -> FindingCopies]

\* A briefing under correction has at most the allowed number of findings, and locks only its own.
BriefingInv ==
  /\ briefingPc \in {"saved", "written", "patching", "sourcing", "correcting", "salvaging"} => Sized(draft)
  /\ briefingPc \in {"patching", "sourcing", "correcting", "salvaging"} => DOMAIN locked \subseteq DOMAIN draft
  /\ review.failed \subseteq DOMAIN review.brief
  /\ PublishedBriefReviewed

LEMMA SizedLength ==
  ASSUME NEW n \in Nat, NEW b \in [1..n -> FindingCopies]
  PROVE  b \in Seq(FindingCopies) /\ Len(b) = n /\ DOMAIN b = 1..n
  OBVIOUS

\* A selection is as long as there are positions, and that of all positions is the whole.
LEMMA OnlySome ==
  ASSUME NEW b, NEW positions, IsFiniteSet(positions)
  PROVE  Len(Only(b, positions)) = Cardinality(positions)
<1>1. Cardinality(positions) \in Nat
  BY FS_CardinalityType
<1>2. QED
  BY <1>1 DEF Only

LEMMA RankAll == ASSUME NEW n \in Nat, NEW i \in 1..n PROVE Rank(1..n, i) = i
<1>1. {j \in 1..n : j <= i} = 1..i
  OBVIOUS
<1>2. Cardinality(1..i) = i
  BY FS_Interval
<1>3. QED
  BY <1>1, <1>2 DEF Rank

LEMMA OnlyAll ==
  ASSUME NEW n \in Nat, NEW b \in [1..n -> FindingCopies]
  PROVE  Only(b, 1..n) = b
<1>1. Cardinality(1..n) = n
  BY FS_Interval
<1>2. ASSUME NEW k \in 1..n PROVE (CHOOSE i \in 1..n : Rank(1..n, i) = k) = k
  BY RankAll
<1>3. QED
  BY <1>1, <1>2 DEF Only

LEMMA BriefSized == ASSUME NEW b \in Briefs PROVE Sized(b)
  BY BriefingAssumption DEF Briefs, Sized

LEMMA SizedNext ==
  ASSUME NEW b, Sized(b)
  PROVE  /\ b \in Seq(FindingCopies) /\ b \in [1..Len(b) -> FindingCopies]
         /\ Len(b) \in Nat /\ Len(b) <= Most /\ DOMAIN b = 1..Len(b)
<1>1. PICK n \in 0..Most : b \in [1..n -> FindingCopies]
  BY DEF Sized
<1>2. QED
  BY <1>1, BriefingAssumption, SizedLength

LEMMA CorrectionSized ==
  ASSUME NEW b, Sized(b), NEW failed, NEW c \in Corrections(b, failed)
  PROVE  Sized(c) /\ DOMAIN c = DOMAIN b
<1>1. PICK n \in 0..Most : b \in [1..n -> FindingCopies]
  BY DEF Sized
<1>2. c \in [1..n -> FindingCopies]
  BY <1>1 DEF Corrections
<1>3. QED
  BY <1>1, <1>2 DEF Sized

LEMMA RejectsWithin ==
  ASSUME NEW b, NEW failed \in Rejects(b), review.failed \subseteq DOMAIN review.brief
  PROVE  failed \subseteq DOMAIN b
  BY DEF Rejects

LEMMA PublishedNow ==
  ASSUME NEW b, Valid(b), Len(b) <= Most, Publish(b)
  PROVE  BriefingInv'
<1>1. Valid(draft)' /\ Len(draft') <= Most /\ review' = [brief |-> draft', failed |-> {}]
  BY DEF Publish, Valid, UnsoundFindings, Covers
<1>2. QED
  BY <1>1 DEF BriefingInv, PublishedBriefReviewed, Publish

LEMMA LoseKeeps == ASSUME BriefingInv, Lose PROVE BriefingInv'
  BY DEF BriefingInv, PublishedBriefReviewed, Lose, RejectBriefing

LEMMA ResumeKeeps == ASSUME BriefingInv, Resume PROVE BriefingInv'
<1>1. CASE briefingPc' = "writing" /\ UNCHANGED <<draft, review>>
  BY <1>1 DEF BriefingInv, PublishedBriefReviewed
<1>2. ASSUME NEW stored \in Briefs, Valid(stored), NEW failed \in Rejects(stored),
             IF failed = {} THEN Publish(stored)
             ELSE /\ briefingPc' \in {"writing", "saved"} /\ draft' = stored
                  /\ review' = [brief |-> stored, failed |-> failed]
      PROVE  BriefingInv'
  <2>1. Sized(stored) /\ Len(stored) <= Most /\ failed \subseteq DOMAIN stored
    BY BriefSized, SizedNext, RejectsWithin DEF BriefingInv
  <2>2. CASE failed = {}
    BY <1>2, <2>1, <2>2, PublishedNow
  <2>3. CASE failed # {}
    <3>1. Sized(draft)'
      BY <1>2, <2>1, <2>3 DEF Sized
    <3>2. QED
      BY <1>2, <2>1, <2>3, <3>1 DEF BriefingInv, PublishedBriefReviewed
  <2>4. QED
    BY <2>2, <2>3
<1>3. QED
  BY <1>1, <1>2 DEF Resume

LEMMA CorrectSavedKeeps == ASSUME BriefingInv, CorrectSaved PROVE BriefingInv'
<1>1. Sized(draft)
  BY DEF BriefingInv, CorrectSaved
<1>2. ASSUME NEW c \in Corrections(draft, review.failed), NEW failed \in Rejects(c),
             IF Valid(c) /\ failed = {} /\ c # draft THEN Publish(c)
             ELSE briefingPc' = "rejected" /\ UNCHANGED <<draft, review>>
      PROVE  BriefingInv'
  <2>1. CASE Valid(c) /\ failed = {} /\ c # draft
    BY <1>1, <1>2, <2>1, CorrectionSized, SizedNext, PublishedNow
  <2>2. CASE ~(Valid(c) /\ failed = {} /\ c # draft)
    BY <1>2, <2>2 DEF BriefingInv, PublishedBriefReviewed
  <2>3. QED
    BY <2>1, <2>2
<1>3. QED
  BY <1>2 DEF CorrectSaved

LEMMA WriteKeeps == ASSUME BriefingInv, WriteBriefing PROVE BriefingInv'
<1>1. Sized(draft')
  BY BriefSized DEF WriteBriefing
<1>2. Sized(draft)'
  BY <1>1 DEF Sized
<1>3. QED
  BY <1>2 DEF BriefingInv, PublishedBriefReviewed, WriteBriefing

\* Where every finding is kept, the candidate is the draft itself.
LEMMA ClassifyKeeps == ASSUME BriefingInv, Classify PROVE BriefingInv'
<1> DEFINE sound == (DOMAIN draft) \ UnsoundFindings(draft)
           candidate == Only(draft, sound)
           keeping(failed) == sound \ Place(sound, failed)
<1>1. Sized(draft)
  BY DEF BriefingInv, Classify
<1>2. PICK failed \in IF sound = {} THEN {{}} ELSE Rejects(candidate) :
        /\ locked' = [i \in keeping(failed) |-> draft[i]]
        /\ review' = [brief |-> candidate, failed |-> failed]
        /\ briefingPc' \in (IF keeping(failed) # DOMAIN draft THEN {"patching"}
                    ELSE IF Covers(draft) THEN {"published", "patching"}
                    ELSE IF Len(draft) < Most THEN {"patching"} ELSE {"rejected"})
  BY DEF Classify
<1>3. draft' = draft
  BY DEF Classify
<1>4. failed \subseteq DOMAIN candidate
  BY RejectsWithin DEF BriefingInv
<1>5. Sized(draft)'
  BY <1>1, <1>3 DEF Sized
<1>6. CASE briefingPc' = "published"
  <2>1. keeping(failed) = DOMAIN draft /\ Covers(draft)
    BY <1>2, <1>6
  <2>2. sound = DOMAIN draft /\ UnsoundFindings(draft) = {} /\ Place(sound, failed) = {}
    BY <2>1 DEF Place, UnsoundFindings
  <2>3. PICK n \in 0..Most : draft \in [1..n -> FindingCopies]
    BY <1>1 DEF Sized
  <2>4. candidate = draft
    BY <2>2, <2>3, BriefingAssumption, OnlyAll
  <2>5. failed = {}
    <3>1. ASSUME NEW k \in failed PROVE FALSE
      <4>1. k \in 1..n /\ n \in Nat
        <5>1. DOMAIN candidate = 1..n /\ n \in Nat
          BY <2>3, <2>4, BriefingAssumption
        <5> HIDE DEF candidate
        <5>2. QED
          BY <1>4, <3>1, <5>1
      <4>2. k \in Place(sound, failed)
        BY <2>2, <2>3, <3>1, <4>1, RankAll DEF Place
      <4>3. QED
        BY <2>2, <4>2
    <3>2. QED
      BY <3>1
  <2>6. draft # <<>>
    BY <2>1 DEF Covers, Range
  <2>7. Valid(draft) /\ Len(draft) <= Most
    BY <1>1, <2>1, <2>2, <2>6, SizedNext DEF Valid
  <2>8. Publish(draft)
    BY <1>2, <1>3, <1>6, <2>4, <2>5 DEF Publish
  <2>9. QED
    BY <2>7, <2>8, PublishedNow
<1>7. CASE briefingPc' # "published"
  BY <1>2, <1>3, <1>4, <1>5, <1>7 DEF BriefingInv, PublishedBriefReviewed
<1>8. QED
  BY <1>6, <1>7

LEMMA PatchSized ==
  ASSUME Sized(draft), NEW b \in Patches
  PROVE  Sized(b) /\ DOMAIN draft \subseteq DOMAIN b
<1> DEFINE room == IF Missing /\ DOMAIN locked # {} THEN Most - Len(draft) ELSE 0
<1>1. PICK prefix \in Rewritten, more \in Additions : b = prefix \o more
  BY DEF Patches
<1>2. PICK n \in 0..room : more \in [1..n -> FindingCopies]
  BY DEF Additions
<1>3. Len(draft) \in Nat /\ Len(draft) <= Most /\ draft \in [1..Len(draft) -> FindingCopies]
  BY SizedNext
<1>4. prefix \in [1..Len(draft) -> FindingCopies]
  BY <1>3 DEF Rewritten, Corrections
<1>5. n \in Nat /\ Len(draft) + n \in 0..Most
  BY <1>2, <1>3, BriefingAssumption
<1>6. /\ prefix \in Seq(FindingCopies) /\ Len(prefix) = Len(draft)
      /\ more \in Seq(FindingCopies) /\ Len(more) = n
  BY <1>2, <1>3, <1>4, <1>5, SizedLength
<1>7. b \in Seq(FindingCopies) /\ Len(b) = Len(draft) + n
  <2>1. b = prefix \o more
    BY <1>1
  <2>2. prefix \o more \in Seq(FindingCopies) /\ Len(prefix \o more) = Len(prefix) + Len(more)
    BY <1>6, ConcatProperties, Zenon
  <2>3. QED
    BY <1>6, <2>1, <2>2, Zenon
<1>8. b \in [1..(Len(draft) + n) -> FindingCopies]
  BY <1>7, LenProperties
<1>9. QED
  <2>1. Sized(b)
    BY <1>5, <1>8 DEF Sized
  <2>2. DOMAIN draft \subseteq DOMAIN b
    BY <1>3, <1>5, <1>8
  <2>3. QED
    BY <2>1, <2>2

LEMMA PatchKeeps == ASSUME BriefingInv, Patch PROVE BriefingInv'
<1>1. Sized(draft) /\ DOMAIN locked \subseteq DOMAIN draft
  BY DEF BriefingInv, Patch
<1>2. locked' = locked
  BY DEF Patch
<1>3. PICK b \in Patches :
       /\ draft' = b
       /\ \/ Valid(b) /\ \E failed \in Rejects(b) :
               /\ review' = [brief |-> b, failed |-> failed]
               /\ briefingPc' = (IF failed = {} THEN "published" ELSE "correcting")
          \/ ~Valid(b) /\ briefingPc' = "sourcing" /\ UNCHANGED review
          \/ briefingPc' = "salvaging" /\ UNCHANGED review
  BY DEF Patch
<1>4. Sized(b) /\ DOMAIN draft \subseteq DOMAIN b /\ Len(b) <= Most
  BY <1>1, PatchSized, SizedNext
<1>5. Sized(draft)' /\ (DOMAIN locked \subseteq DOMAIN draft)'
  BY <1>1, <1>2, <1>3, <1>4 DEF Sized
<1>6. ASSUME Valid(b), NEW failed \in Rejects(b), review' = [brief |-> b, failed |-> failed],
             briefingPc' = (IF failed = {} THEN "published" ELSE "correcting")
      PROVE  BriefingInv'
  <2>1. CASE failed = {}
    <3>1. Publish(b)
      BY <1>3, <1>6, <2>1 DEF Publish
    <3>2. QED
      BY <1>4, <1>6, <3>1, PublishedNow
  <2>2. CASE failed # {}
    BY <1>5, <1>6, <2>2, RejectsWithin DEF BriefingInv, PublishedBriefReviewed
  <2>3. QED
    BY <2>1, <2>2
<1>7. CASE briefingPc' \in {"sourcing", "salvaging"} /\ UNCHANGED review
  BY <1>5, <1>7 DEF BriefingInv, PublishedBriefReviewed
<1>8. QED
  BY <1>3, <1>6, <1>7

LEMMA CorrectSourcesKeeps == ASSUME BriefingInv, CorrectSources PROVE BriefingInv'
<1>1. Sized(draft) /\ DOMAIN locked \subseteq DOMAIN draft
  BY DEF BriefingInv, CorrectSources
<1>2. briefingPc' = "correcting" /\ UNCHANGED <<locked, review>>
  BY DEF CorrectSources
<1>3. \/ draft' = draft
      \/ \E failed : draft' \in Corrections(draft, failed)
  BY DEF CorrectSources
<1>4. Sized(draft') /\ DOMAIN draft' = DOMAIN draft
  BY <1>1, <1>3, CorrectionSized
<1>5. Sized(draft)' /\ (DOMAIN locked \subseteq DOMAIN draft)'
  BY <1>1, <1>2, <1>4 DEF Sized
<1>6. QED
  BY <1>2, <1>5 DEF BriefingInv, PublishedBriefReviewed

\* A whole briefing is published as its last review saw it.
LEMMA CorrectMeaningKeeps == ASSUME BriefingInv, CorrectFindings PROVE BriefingInv'
<1> DEFINE valid == {i \in DOMAIN draft : draft[i] \in Sourced}
           whole == valid = DOMAIN draft
           b     == Only(draft, valid)
           changed(failed, c) == {k \in failed : c[k] # b[k] /\ c[k] \in Sourced}
           merged(failed, c) == [i \in DOMAIN draft |->
                                   IF i \in Place(valid, changed(failed, c))
                                   THEN c[Rank(valid, i)] ELSE draft[i]]
           done(failed, c, again) == failed = {} \/ (Valid(c) /\ c # b /\ again = {})
<1>1. Sized(draft) /\ DOMAIN locked \subseteq DOMAIN draft
  BY DEF BriefingInv, CorrectFindings
<1>2. CASE briefingPc' = "salvaging" /\ UNCHANGED <<draft, locked, review>>
  BY <1>1, <1>2 DEF BriefingInv, PublishedBriefReviewed, Sized
<1>3. ASSUME Valid(b), NEW failed \in Rejects(b), NEW c \in Corrections(b, failed),
             NEW again \in IF Valid(c) /\ c # b THEN SUBSET DOMAIN c ELSE {failed},
             review' = (IF Valid(c) THEN [brief |-> c, failed |-> again]
                                    ELSE [brief |-> b, failed |-> failed]),
             briefingPc' = (IF done(failed, c, again) /\ whole THEN "published" ELSE "salvaging"),
             draft' = merged(failed, c), DOMAIN locked' = DOMAIN locked
      PROVE  BriefingInv'
  <2>1. PICK n \in 0..Most : draft \in [1..n -> FindingCopies]
    BY <1>1 DEF Sized
  <2>2. n \in Nat /\ n <= Most
    BY <2>1, BriefingAssumption
  <2>3. DOMAIN c = DOMAIN b /\ c \in [DOMAIN b -> FindingCopies]
    BY DEF Corrections
  <2>4. failed \subseteq DOMAIN b
    BY <1>3, RejectsWithin DEF BriefingInv
  <2>5. (review.failed \subseteq DOMAIN review.brief)'
    BY <1>3, <2>3, <2>4
  <2>6. ASSUME NEW i \in 1..n PROVE merged(failed, c)[i] \in FindingCopies
    BY <2>1, <2>3, <2>4, <2>6 DEF Place
  <2>7. merged(failed, c) \in [1..n -> FindingCopies]
    BY <2>1, <2>6
  <2>8. Sized(draft)' /\ (DOMAIN locked \subseteq DOMAIN draft)'
    BY <1>1, <1>3, <2>1, <2>7 DEF Sized
  <2>9. CASE briefingPc' = "published"
    <3>1. whole /\ done(failed, c, again)
      BY <1>3, <2>9
    <3>2. valid = 1..n /\ b = draft
      BY <2>1, <2>2, <3>1, OnlyAll
    <3>3. ASSUME NEW i \in 1..n
          PROVE  /\ Rank(valid, i) = i
                 /\ i \in Place(valid, changed(failed, c)) <=> i \in changed(failed, c)
      BY <2>2, <3>2, <3>3, RankAll DEF Place
    <3>4. merged(failed, c) = [i \in 1..n |-> IF i \in changed(failed, c) THEN c[i] ELSE draft[i]]
      BY <2>1, <3>3
    <3>5. c \in [1..n -> FindingCopies] /\ \A i \in 1..n \ failed : c[i] = draft[i]
      BY <2>1, <3>2 DEF Corrections
    <3>6. CASE failed = {}
      <4>1. c = draft
        BY <2>1, <3>5, <3>6
      <4>2. merged(failed, c) = draft
        BY <2>1, <3>4, <3>6
      <4>3. review' = [brief |-> draft, failed |-> {}]
        BY <1>3, <3>2, <3>6, <4>1
      <4>4. Publish(draft)
        BY <1>3, <2>9, <4>2, <4>3 DEF Publish
      <4>5. QED
        BY <1>1, <1>3, <3>2, <4>4, SizedNext, PublishedNow
    <3>7. CASE Valid(c) /\ c # b /\ again = {}
      <4>1. ASSUME NEW i \in 1..n PROVE c[i] \in Sourced
        BY <3>5, <3>7, <4>1 DEF Valid, UnsoundFindings
      <4>2. ASSUME NEW i \in 1..n PROVE c[i] = IF i \in changed(failed, c) THEN c[i] ELSE draft[i]
        BY <3>2, <3>5, <4>1, <4>2
      <4>3. merged(failed, c) = c
        BY <3>4, <3>5, <4>2
      <4>4. Publish(c)
        BY <1>3, <2>9, <3>7, <4>3 DEF Publish
      <4>5. Len(c) <= Most
        BY <2>2, <3>5, SizedLength
      <4>6. QED
        BY <3>7, <4>4, <4>5, PublishedNow
    <3>8. QED
      BY <3>1, <3>6, <3>7
  <2>10. CASE briefingPc' # "published"
    BY <1>3, <2>5, <2>8, <2>10 DEF BriefingInv, PublishedBriefReviewed
  <2>11. QED
    BY <2>9, <2>10
<1>4. CASE ~progress \/ ~Valid(b)
  BY <1>2, <1>4, Zenon DEF CorrectFindings
<1>5. CASE progress /\ Valid(b)
  <2> DEFINE passed(failed, c, again) == IF Valid(c) THEN changed(failed, c) \ again ELSE {}
             next(failed, c) == IF Valid(c) /\ c # b THEN SUBSET DOMAIN c ELSE {failed}
             ends(failed, c, again) ==
               /\ review' = (IF Valid(c) THEN [brief |-> c, failed |-> again]
                                         ELSE [brief |-> b, failed |-> failed])
               /\ briefingPc' = (IF done(failed, c, again) /\ whole THEN "published" ELSE "salvaging")
               /\ draft' = merged(failed, c)
               /\ locked' = [i \in DOMAIN locked |->
                               IF i \in Place(valid, passed(failed, c, again)) THEN merged(failed, c)[i] ELSE locked[i]]
  <2>1. \E failed \in Rejects(b) : \E c \in Corrections(b, failed) :
          \E again \in next(failed, c) : ends(failed, c, again)
    BY <1>5, Zenon DEF CorrectFindings
  <2>2. PICK failed \in Rejects(b) : \E c \in Corrections(b, failed) :
          \E again \in next(failed, c) : ends(failed, c, again)
    BY <2>1, Zenon
  <2>3. PICK c \in Corrections(b, failed) : \E again \in next(failed, c) : ends(failed, c, again)
    BY <2>2, Zenon
  <2>4. PICK again \in next(failed, c) : ends(failed, c, again)
    BY <2>3, Zenon
  <2>5. DOMAIN locked' = DOMAIN locked
    BY <2>4, Zenon
  <2>6. QED
    BY <1>3, <1>5, <2>4, <2>5, Zenon
<1>6. QED
  BY <1>4, <1>5

LEMMA SalvageKeeps == ASSUME BriefingInv, Salvage PROVE BriefingInv'
<1> DEFINE keeping == RetainedFindings
           b    == Only(BriefFindings, keeping)
           left(failed) == keeping \ Place(keeping, failed)
           rest(failed) == Only(BriefFindings, left(failed))
<1>1. Sized(draft) /\ DOMAIN locked \subseteq DOMAIN draft
  BY DEF BriefingInv, Salvage
<1>2. IsFiniteSet(keeping)
  <2>1. IsFiniteSet(DOMAIN draft)
    BY <1>1, SizedNext, FS_Interval
  <2>2. keeping \subseteq DOMAIN draft
    BY <1>1 DEF RetainedFindings
  <2>3. QED
    BY <2>1, <2>2, FS_Subset
<1>3. CASE RejectBriefing
  BY <1>3 DEF BriefingInv, PublishedBriefReviewed, RejectBriefing
<1>4. ASSUME Cardinality(keeping) \in Least..Most, NEW failed \in Rejects(b),
             \/ failed = {} /\ Valid(b) /\ Publish(b)
             \/ \E again \in Selection(rest(failed), [brief |-> b, failed |-> failed]) :
                  /\ again.failed = {} /\ Valid(rest(failed))
                  /\ briefingPc' = "published" /\ draft' = rest(failed) /\ review' = again
             \/ briefingPc' = "rejected" /\ review' = [brief |-> b, failed |-> failed]
      PROVE  BriefingInv'
  <2>1. Cardinality(keeping) \in Nat /\ Cardinality(keeping) <= Most
    BY <1>2, <1>4, BriefingAssumption, FS_CardinalityType
  <2>2. CASE failed = {} /\ Valid(b) /\ Publish(b)
    BY <1>2, <2>1, <2>2, OnlySome, PublishedNow
  <2>3. ASSUME NEW again \in Selection(rest(failed), [brief |-> b, failed |-> failed]),
               again.failed = {}, Valid(rest(failed)),
               briefingPc' = "published", draft' = rest(failed), review' = again
        PROVE  BriefingInv'
    <3>1. again = [brief |-> rest(failed), failed |-> {}]
      BY <2>3 DEF Selection
    <3>2. IsFiniteSet(left(failed)) /\ Cardinality(left(failed)) <= Cardinality(keeping)
      BY <1>2, FS_Subset
    <3>3. Cardinality(left(failed)) \in Nat
      BY <3>2, FS_CardinalityType
    <3>4. Len(rest(failed)) <= Most
      BY <2>1, <3>2, <3>3, OnlySome, BriefingAssumption
    <3>5. Publish(rest(failed))
      BY <2>3, <3>1 DEF Publish
    <3>6. QED
      BY <2>3, <3>4, <3>5, PublishedNow
  <2>4. CASE briefingPc' = "rejected" /\ review' = [brief |-> b, failed |-> failed]
    BY <2>4, RejectsWithin DEF BriefingInv, PublishedBriefReviewed
  <2>5. QED
    BY <1>4, <2>2, <2>3, <2>4
<1>5. QED
  BY <1>3, <1>4 DEF Salvage

(* A briefing is published only as its last review accepted it, whatever was   *)
(* patched, corrected or discarded before.                                     *)
THEOREM BriefingReviewed == BriefingSpec => []PublishedBriefReviewed
<1>1. BriefingInit => BriefingInv
  BY DEF BriefingInit, BriefingInv, PublishedBriefReviewed
<1>2. ASSUME BriefingInv, [BriefingNext]_briefingVars PROVE BriefingInv'
  <2>1. CASE UNCHANGED briefingVars
    <3>1. Sized(draft)' <=> Sized(draft)
      BY <2>1 DEF Sized, briefingVars
    <3>2. Valid(draft)' <=> Valid(draft)
      BY <2>1 DEF Valid, UnsoundFindings, Covers, briefingVars
    <3>3. QED
      BY <1>2, <2>1, <3>1, <3>2 DEF BriefingInv, PublishedBriefReviewed, briefingVars
  <2>2. QED
    BY <1>2, <2>1, LoseKeeps, ResumeKeeps, CorrectSavedKeeps, WriteKeeps, ClassifyKeeps,
       PatchKeeps, CorrectSourcesKeeps, CorrectMeaningKeeps, SalvageKeeps DEF BriefingNext
<1>3. BriefingInv => PublishedBriefReviewed
  BY DEF BriefingInv
<1>4. QED
  BY <1>1, <1>2, <1>3, PTL DEF BriefingSpec

-----------------------------------------------------------------------------
(* Reading the introduction *)

Typed(set) == \A p \in set : p.first \in Lines /\ p.last \in Int /\ p.first <= p.last

\* Parts that a repair must leave alone touch neither one another nor what is asked for.
KeptApart ==
  /\ Typed(retained)
  /\ \A p \in retained : Span(p) \cap ranges = {}
  /\ \A p, q \in retained : p # q => Span(p) \cap Span(q) = {}

ReadInv ==
  /\ readingPc \in {"first", "second"} => retained = {}
  /\ readingPc = "targeted" => KeptApart
  /\ AcceptedPartsKept

LEMMA SpanOwned ==
  ASSUME NEW set, NEW p \in set, Typed(set)
  PROVE  p.first \in Span(p) /\ Span(p) \subseteq Owned(set)
  BY ReadingAssumption DEF Typed, Span, Owned, Lines

LEMMA BoundPart ==
  ASSUME NEW p \in PartReplies, NEW fallback \in BOOLEAN, NEW targeted \in BOOLEAN
  PROVE  LET b == BoundTo(p, fallback, targeted)
         IN b.first \in Lines /\ b.last \in Int /\ b.first <= b.last /\ Span(b) \subseteq Span(p)
<1> DEFINE b == BoundTo(p, fallback, targeted)
<1>1. p.first \in Lines /\ p.last \in 1..LineCount + 1 /\ p.first <= p.last
  BY DEF PartReplies
<1>2. b.first = p.first /\ (b.last = p.last \/ (b.last = LineCount /\ p.last > LineCount))
  BY DEF BoundTo, PartReplies, Outside
<1> HIDE DEF b
<1>3. QED
  BY <1>1, <1>2, ReadingAssumption DEF Lines, Span, b

LEMMA BoundAnswer ==
  ASSUME NEW answer, answer \subseteq PartReplies, NEW fallback \in BOOLEAN, NEW targeted \in BOOLEAN
  PROVE  LET set == {BoundTo(p, fallback, targeted) : p \in answer}
         IN Typed(set) /\ Owned(set) \subseteq Owned(answer)
<1> DEFINE set == {BoundTo(p, fallback, targeted) : p \in answer}
<1>1. ASSUME NEW b \in set
      PROVE  b.first \in Lines /\ b.last \in Int /\ b.first <= b.last /\ Span(b) \subseteq Owned(answer)
  <2>1. PICK p \in answer : b = BoundTo(p, fallback, targeted)
    OBVIOUS
  <2>2. Span(p) \subseteq Owned(answer)
    BY DEF Owned
  <2>3. QED
    BY <2>1, <2>2, BoundPart
<1> HIDE DEF set
<1>2. Typed(set) /\ Owned(set) \subseteq Owned(answer)
  BY <1>1 DEF Typed, Owned
<1>3. QED
  BY <1>2 DEF set

\* A reply whose parts were cut is a reply, and owns no line it did not own.
LEMMA TrimmedAnswer ==
  ASSUME NEW answer, answer \subseteq PartReplies, NEW trimmed \in Trimmed(answer)
  PROVE  trimmed \subseteq PartReplies /\ Owned(trimmed) \subseteq Owned(answer)
<1>1. CASE trimmed = answer
  BY <1>1
<1>2. ASSUME NEW p \in answer, NEW q \in answer, RepeatsLines(p, q),
             trimmed = (answer \ {p}) \cup {Cut(p, q)}
      PROVE  trimmed \subseteq PartReplies /\ Owned(trimmed) \subseteq Owned(answer)
  <2>1. /\ p \in PartReplies /\ q \in PartReplies
        /\ p.first \in 1..LineCount /\ p.last \in 1..LineCount + 1 /\ p.first <= p.last
        /\ q.first \in 1..LineCount /\ q.last \in 1..LineCount + 1 /\ q.first <= q.last
    BY DEF PartReplies, Lines
  <2>2. p.last <= LineCount /\ q.last <= LineCount /\ p.role = "content"
    BY <1>2, <2>1, ReadingAssumption DEF RepeatsLines, Outside
  <2>3. p.first <= q.first /\ q.last <= p.last
    <3>1. q.first \in Span(q) /\ q.last \in Span(q)
      BY <2>1, ReadingAssumption DEF Span
    <3>2. q.first \in Span(p) /\ q.last \in Span(p)
      BY <1>2, <3>1 DEF RepeatsLines
    <3>3. QED
      BY <2>1, <3>2, ReadingAssumption DEF Span
  <2>4. ~(p.first = q.first /\ p.last = q.last)
    BY <1>2 DEF RepeatsLines, Span
  <2>5. p.first = q.first \/ p.last = q.last
    BY <1>2 DEF RepeatsLines
  <2>6. Cut(p, q) \in PartReplies /\ Span(Cut(p, q)) \subseteq Span(p)
    <3>1. CASE p.first = q.first
      <4>1. Cut(p, q) = [p EXCEPT !.first = q.last + 1]
        BY <3>1 DEF Cut
      <4>2. q.last + 1 \in 1..LineCount /\ q.last + 1 <= p.last /\ p.first <= q.last + 1
        BY <2>1, <2>2, <2>3, <2>4, <3>1, ReadingAssumption
      <4>3. QED
        BY <2>1, <2>2, <4>1, <4>2, ReadingAssumption DEF PartReplies, Span, Lines
    <3>2. CASE p.first # q.first
      <4>1. Cut(p, q) = [p EXCEPT !.last = q.first - 1]
        BY <3>2 DEF Cut
      <4>2. q.first - 1 \in 1..LineCount /\ p.first <= q.first - 1 /\ q.first - 1 <= p.last
        BY <2>1, <2>2, <2>3, <3>2, ReadingAssumption
      <4>3. QED
        BY <2>1, <2>2, <4>1, <4>2, ReadingAssumption DEF PartReplies, Span, Lines
    <3>3. QED
      BY <3>1, <3>2
  <2>7. QED
    BY <1>2, <2>6 DEF Owned
<1>3. QED
  BY <1>1, <1>2 DEF Trimmed

\* What a reconciliation is made of, and that the blank runs are apart from the rest.
LEMMA ReconciledParts ==
  ASSUME NEW set, Typed(set), NEW result \in Reconciled(set)
  PROVE  \E keeping, blank :
           /\ result = keeping \cup blank /\ keeping \subseteq set /\ Owned(keeping) = Owned(set)
           /\ \A p \in keeping : ~Redundant(p, keeping)
           /\ \A p \in blank : p.fault = "none" /\ Span(p) \cap Owned(keeping) = {}
           /\ Typed(result)
<1>1. PICK keeping \in SUBSET set : /\ result = keeping \cup BlankRuns(keeping) /\ Owned(keeping) = Owned(set)
                                    /\ \A p \in keeping : ~Redundant(p, keeping)
  BY DEF Reconciled
<1> DEFINE blank == BlankRuns(keeping)
           free  == BlankLines \ Owned(keeping)
<1>2. ASSUME NEW p \in blank
      PROVE  /\ p.fault = "none" /\ p.first \in free /\ p.last \in free /\ p.first <= p.last
             /\ p.first..p.last \subseteq free
  BY DEF BlankRuns
<1> HIDE DEF blank
<1>3. \A p \in blank : /\ p.fault = "none" /\ Span(p) \cap Owned(keeping) = {}
                       /\ p.first \in Lines /\ p.last \in Int /\ p.first <= p.last
  <2> SUFFICES ASSUME NEW p \in blank
               PROVE  /\ p.fault = "none" /\ Span(p) \cap Owned(keeping) = {}
                       /\ p.first \in Lines /\ p.last \in Int /\ p.first <= p.last
    OBVIOUS
  <2>1. Span(p) \cap Owned(keeping) = {}
    BY <1>2 DEF Span
  <2>2. p.first \in BlankLines /\ p.last \in BlankLines /\ p.first <= p.last
    BY <1>2
  <2>3. QED
    <3>0. \A l \in BlankLines : l \in Lines /\ l \in Int
      BY ReadingAssumption DEF Lines
    <3>1. p.first \in Lines /\ p.last \in Int
      BY <2>2, <3>0, Zenon
    <3>2. p.fault = "none"
      BY <1>2
    <3>3. QED
      BY <2>1, <2>2, <3>1, <3>2
<1>4. Typed(result)
  BY <1>1, <1>3 DEF Typed, blank
<1>5. QED
  BY <1>1, <1>3, <1>4 DEF blank

LEMMA ClosureHolds ==
  ASSUME NEW lines, lines \subseteq Lines, NEW set, \A p \in set : Span(p) \subseteq Lines
  PROVE  lines \subseteq Closure(lines, set)
<1> DEFINE Closed(d) == lines \subseteq d /\ \A p \in set : Span(p) \cap d # {} => Span(p) \subseteq d
           c == {l \in Lines : \A d \in SUBSET Lines : Closed(d) => l \in d}
<1>1. c \in SUBSET Lines /\ lines \subseteq c
  OBVIOUS
<1>2. ASSUME NEW p \in set, Span(p) \cap c # {} PROVE Span(p) \subseteq c
  BY <1>2
<1>3. \A d \in SUBSET Lines : Closed(d) => c \subseteq d
  OBVIOUS
<1> HIDE DEF c
<1>4. \E e \in SUBSET Lines : /\ lines \subseteq e
                              /\ \A p \in set : Span(p) \cap e # {} => Span(p) \subseteq e
                              /\ \A d \in SUBSET Lines :
                                   /\ lines \subseteq d
                                   /\ \A p \in set : Span(p) \cap d # {} => Span(p) \subseteq d
                                   => e \subseteq d
  BY <1>1, <1>2, <1>3
<1>5. QED
  BY <1>4 DEF Closure

-----------------------------------------------------------------------------
\* A repair keeps the parts it need not touch, and these are apart from one another.
LEMMA RepairApart ==
  ASSUME NEW set, Typed(set), Targeted(set)
  PROVE  readingPc' = "targeted" /\ KeptApart'
<1> DEFINE bad == Faulty(set) \cup {p \in set : Span(p) \cap Overlaps(set) # {}}
<1>1. /\ Escaping(set) = {} /\ readingPc' = "targeted"
      /\ \E reach \in SUBSET Lines :
           LET lines == Closure(Gaps(set) \cup Owned(bad) \cup reach, set)
           IN  ranges' = lines /\ retained' = {p \in set : Span(p) \cap lines = {}}
  BY DEF Targeted
<1>2. PICK reach \in SUBSET Lines :
        LET lines == Closure(Gaps(set) \cup Owned(bad) \cup reach, set)
        IN  ranges' = lines /\ retained' = {p \in set : Span(p) \cap lines = {}}
  BY <1>1
<1>3. \A p \in set : Span(p) \subseteq Lines /\ p.first \in Span(p)
  BY <1>1, ReadingAssumption DEF Typed, Span, Lines, Escaping, Outside
<1>4. bad \subseteq set
  BY DEF Faulty
<1>5. \A p \in bad : Span(p) \subseteq Owned(bad)
  BY DEF Owned
<1> HIDE DEF bad
<1>6. Gaps(set) \cup Owned(bad) \cup reach \subseteq Lines
  BY <1>2, <1>3, <1>4 DEF Gaps, Owned
<1>7. Owned(bad) \subseteq ranges'
  <2> DEFINE x == Gaps(set) \cup Owned(bad) \cup reach
  <2>1. Owned(bad) \subseteq x /\ x \subseteq Lines /\ ranges' = Closure(x, set)
    BY <1>2, <1>6
  <2> HIDE DEF x
  <2>2. x \subseteq Closure(x, set)
    BY <1>3, <2>1, ClosureHolds
  <2>3. QED
    BY <2>1, <2>2
<1>8. \A p \in retained' : p \in set /\ Span(p) \cap ranges' = {} /\ p \notin bad
  BY <1>2, <1>3, <1>5, <1>7
<1>9. \A p, q \in retained' : p # q => Span(p) \cap Span(q) = {}
  <2> SUFFICES ASSUME NEW p \in retained', NEW q \in retained', p # q, NEW l \in Span(p) \cap Span(q) PROVE FALSE
    OBVIOUS
  <2>1. l \in Overlaps(set)
    BY <1>3, <1>8 DEF Overlaps
  <2>2. QED
    BY <1>8, <2>1 DEF bad
<1>10. Typed(retained)'
  BY <1>8 DEF Typed, Lines
<1>11. QED
  BY <1>1, <1>8, <1>9, <1>10 DEF KeptApart, Span

\* Short layout parts that are decided once more are apart from the rest.
LEMMA LayoutApart ==
  ASSUME NEW all, Typed(all), NEW set \in Reconciled(all), NEW additions, RetryLayout(set, additions)
  PROVE  readingPc' = readingPc /\ KeptApart'
<1> DEFINE bad   == {p \in additions \cap set : p.role = "layout" /\ p.fault # "none"}
           fixed == {[p EXCEPT !.fault = "none"] : p \in bad}
<1>1. readingPc' = readingPc /\ SoundReading((set \ bad) \cup fixed) /\ ranges' = Owned(bad) /\ retained' = set \ bad
  BY DEF RetryLayout
<1>2. PICK keeping, blank :
        /\ set = keeping \cup blank /\ keeping \subseteq all /\ Owned(keeping) = Owned(all)
        /\ \A p \in keeping : ~Redundant(p, keeping)
        /\ \A p \in blank : p.fault = "none" /\ Span(p) \cap Owned(keeping) = {}
        /\ Typed(set)
  BY ReconciledParts
<1>3. \A p \in set : p.first \in Span(p)
  BY <1>2, SpanOwned
<1>4. ASSUME NEW p \in (set \ bad) \cup fixed
      PROVE  /\ Span(p) \subseteq Lines
             /\ \A q \in (set \ bad) \cup fixed : p # q => Span(p) \cap Span(q) = {}
  <2>1. ~Outside(p)
    BY <1>1, <1>4 DEF SoundReading, Escaping
  <2>2. p.first \in Lines /\ p.last \in Int
    <3>1. CASE p \in set
      BY <1>2, <3>1 DEF Typed
    <3>2. CASE p \in fixed
      <4>1. PICK f \in bad : p = [f EXCEPT !.fault = "none"]
        BY <3>2
      <4>2. f \in set /\ p.first = f.first /\ p.last = f.last
        BY <4>1
      <4>3. QED
        BY <1>2, <4>2 DEF Typed
    <3>3. QED
      BY <1>4, <3>1, <3>2
  <2>3. Span(p) \subseteq Lines
    BY <2>1, <2>2, ReadingAssumption DEF Span, Lines, Outside
  <2>4. ASSUME NEW q \in (set \ bad) \cup fixed, p # q PROVE Span(p) \cap Span(q) = {}
    BY <1>1, <1>4, <2>3, <2>4 DEF SoundReading, Overlaps
  <2>5. QED
    BY <2>3, <2>4
<1>5. ASSUME NEW p \in set \ bad, NEW f \in bad PROVE Span(p) \cap Span(f) = {}
  <2> DEFINE g == [f EXCEPT !.fault = "none"]
  <2>1. g \in fixed /\ Span(g) = Span(f)
    BY DEF Span
  <2>2. CASE p # g
    <3> HIDE DEF fixed, bad, g
    <3>1. QED
      BY <1>4, <1>5, <2>1, <2>2
  <2>3. CASE p = g
    <3>1. Span(p) = Span(f)
      BY <2>1, <2>3
    <3>2. f.role = "layout" /\ f.fault # "none" /\ f \in set
      OBVIOUS
    <3>3. f \in keeping
      BY <1>2, <3>2
    <3>4. Span(f) \subseteq Owned(keeping) /\ f.first \in Span(f)
      BY <1>2, <1>3, <3>2, <3>3 DEF Owned
    <3>5. p \in keeping /\ p # f
      BY <1>2, <1>3, <3>1, <3>4
    <3>6. Span(f) \subseteq Owned(keeping \ {f})
      BY <3>1, <3>5 DEF Owned
    <3>7. ~Outside(f)
      <4>1. Span(f) \subseteq Lines /\ f.first <= f.last /\ f.first \in Int /\ f.last \in Int
        BY <1>2, <1>4, <2>1, <3>2, ReadingAssumption DEF Typed, Lines
      <4>2. f.last \in Span(f)
        BY <4>1 DEF Span
      <4>3. QED
        BY <4>1, <4>2, ReadingAssumption DEF Lines, Outside
    <3>8. QED
      BY <1>2, <3>2, <3>3, <3>6, <3>7 DEF Redundant
  <2>4. QED
    BY <2>2, <2>3
<1> HIDE DEF bad, fixed
<1>6. \A p \in retained' : Span(p) \cap ranges' = {}
  BY <1>1, <1>5 DEF Owned
<1>7. \A p, q \in retained' : p # q => Span(p) \cap Span(q) = {}
  BY <1>1, <1>4
<1>8. Typed(retained)'
  BY <1>1, <1>2 DEF Typed, Lines
<1>9. QED
  BY <1>1, <1>6, <1>7, <1>8 DEF KeptApart, Span

\* A reconciliation drops none of the parts that were kept apart.
LEMMA KeptAll ==
  ASSUME KeptApart, NEW additions, Typed(additions), Owned(additions) \subseteq ranges,
         NEW set \in Reconciled(retained \cup additions)
  PROVE  retained \subseteq set /\ Typed(retained \cup additions)
<1>1. Typed(retained \cup additions)
  BY DEF KeptApart, Typed
<1>2. PICK keeping, blank :
        /\ set = keeping \cup blank /\ keeping \subseteq retained \cup additions
        /\ Owned(keeping) = Owned(retained \cup additions)
        /\ \A p \in keeping : ~Redundant(p, keeping)
        /\ \A p \in blank : p.fault = "none" /\ Span(p) \cap Owned(keeping) = {}
        /\ Typed(set)
  <2> DEFINE all == retained \cup additions
  <2>1. Typed(all) /\ set \in Reconciled(all)
    BY <1>1
  <2> HIDE DEF all
  <2>2. \E keeping, blank :
          /\ set = keeping \cup blank /\ keeping \subseteq all /\ Owned(keeping) = Owned(all)
          /\ \A p \in keeping : ~Redundant(p, keeping)
          /\ \A p \in blank : p.fault = "none" /\ Span(p) \cap Owned(keeping) = {}
          /\ Typed(set)
    BY <2>1, ReconciledParts
  <2>3. QED
    BY <2>2 DEF all
<1>3. ASSUME NEW p \in retained, p \notin keeping PROVE FALSE
  <2>1. p.first \in Span(p) /\ p.first \in Owned(keeping)
    BY <1>1, <1>2, SpanOwned
  <2>2. PICK q \in keeping : p.first \in Span(q)
    BY <2>1 DEF Owned
  <2>3. q \notin retained
    BY <1>3, <2>1, <2>2 DEF KeptApart
  <2>4. Span(q) \subseteq ranges
    BY <1>2, <2>3 DEF Owned
  <2>5. QED
    BY <2>1, <2>2, <2>4 DEF KeptApart
<1>4. QED
  BY <1>1, <1>2, <1>3

-----------------------------------------------------------------------------
LEMMA ReadStep == ReadInv /\ [ReadingNext]_readingVars => ReadInv'
<1> SUFFICES ASSUME ReadInv, [ReadingNext]_readingVars PROVE ReadInv'
  OBVIOUS
<1>1. CASE LoseReading
  BY <1>1 DEF LoseReading, FailReading, ReadInv, AcceptedPartsKept
<1>2. CASE Recall
  BY <1>2 DEF Recall, ReadInv, AcceptedPartsKept, SoundReading, Gaps, Overlaps, Faulty,
     Escaping, Owned, Span, Lines, Outside
<1>3. CASE ReadFirst
  BY <1>3 DEF ReadFirst, ReadInv, AcceptedPartsKept, SoundReading, Gaps, Overlaps, Faulty,
     Escaping, Owned, Span, Lines, Outside
<1>7. CASE UNCHANGED readingVars
  BY <1>7 DEF readingVars, ReadInv, AcceptedPartsKept, KeptApart, Typed, SoundReading, Gaps,
     Overlaps, Faulty, Escaping, Owned, Span, Lines, Outside
<1>4. CASE ReadSecond
  <2>1. PICK answer \in Answers : \E cut \in Trimmed(answer) :
        \E set \in Reconciled({BoundTo(p, TRUE, FALSE) : p \in cut}) :
          \/ SoundReading(set) /\ readingPc' = "read" /\ parts' = set /\ UNCHANGED retained
          \/ readingPc' = "missing"
          \/ Targeted(set)
          \/ FailReading
    BY <1>4 DEF ReadSecond
  <2>0. PICK cut \in Trimmed(answer) : \E set \in Reconciled({BoundTo(p, TRUE, FALSE) : p \in cut}) :
          \/ SoundReading(set) /\ readingPc' = "read" /\ parts' = set /\ UNCHANGED retained
          \/ readingPc' = "missing"
          \/ Targeted(set)
          \/ FailReading
    BY <2>1
  <2> DEFINE all == {BoundTo(p, TRUE, FALSE) : p \in cut}
  <2>2. PICK set \in Reconciled(all) :
          \/ SoundReading(set) /\ readingPc' = "read" /\ parts' = set /\ UNCHANGED retained
          \/ readingPc' = "missing"
          \/ Targeted(set)
          \/ FailReading
    BY <2>0
  <2>3. cut \subseteq PartReplies
    BY TrimmedAnswer DEF Answers
  <2>4. Typed(all)
    BY <2>3, BoundAnswer
  <2> HIDE DEF all
  <2>5. Typed(set)
    BY <2>4, ReconciledParts
  <2>6. CASE SoundReading(set) /\ readingPc' = "read" /\ parts' = set /\ UNCHANGED retained
    <3>1. retained' = {}
      BY <1>4, <2>6 DEF ReadSecond, ReadInv
    <3>2. SoundReading(parts)'
      BY <2>6 DEF SoundReading, Gaps, Overlaps, Faulty, Escaping, Owned, Span, Lines, Outside
    <3>3. QED
      BY <2>6, <3>1, <3>2 DEF ReadInv, AcceptedPartsKept
  <2>7. CASE readingPc' = "missing"
    BY <2>7 DEF ReadInv, AcceptedPartsKept
  <2>8. CASE Targeted(set)
    BY <2>5, <2>8, RepairApart DEF ReadInv, AcceptedPartsKept
  <2>9. CASE FailReading
    BY <2>9 DEF FailReading, ReadInv, AcceptedPartsKept
  <2>10. QED
    BY <2>2, <2>6, <2>7, <2>8, <2>9
<1>5. CASE ReadMissing
  <2>1. PICK cut :
          LET set == retained \cup {BoundTo(p, TRUE, FALSE) : p \in cut}
          IN \/ SoundReading(set) /\ readingPc' = "read" /\ parts' = set /\ UNCHANGED retained
             \/ FailReading
    BY <1>5 DEF ReadMissing
  <2> DEFINE set == retained \cup {BoundTo(p, TRUE, FALSE) : p \in cut}
  <2>2. retained \subseteq set
    OBVIOUS
  <2>3. CASE FailReading
    BY <2>3 DEF FailReading, ReadInv, AcceptedPartsKept
  <2>4. CASE SoundReading(set) /\ readingPc' = "read" /\ parts' = set /\ UNCHANGED retained
    <3> HIDE DEF set
    <3>1. SoundReading(parts)'
      BY <2>4 DEF SoundReading, Gaps, Overlaps, Faulty, Escaping, Owned, Span, Lines, Outside
    <3>2. QED
      BY <2>2, <2>4, <3>1 DEF ReadInv, AcceptedPartsKept
  <2>5. QED
    BY <2>1, <2>3, <2>4
<1>6. CASE ReadTargeted
  <2>0. readingPc = "targeted" /\ KeptApart
    BY <1>6 DEF ReadTargeted, ReadInv
  <2>1. PICK answer \in Answers :
          IF Crossing(answer) # {} THEN RetryScope(answer) \/ FailReading
          ELSE IF Scoped(answer) = {} THEN FailReading
          ELSE \E cut \in Trimmed(Scoped(answer)) :
               LET additions == {BoundTo(p, TRUE, TRUE) : p \in cut}
               IN \E set \in Reconciled(retained \cup additions) :
                    \/ /\ SoundReading(set) /\ readingPc' = "read" /\ parts' = set
                       /\ UNCHANGED <<ranges, retained, turn>>
                    \/ ~SoundReading(set) /\ (RetryLayout(set, additions) \/ FailReading)
    BY <1>6 DEF ReadTargeted
  <2>2. CASE FailReading
    BY <2>2 DEF FailReading, ReadInv, AcceptedPartsKept
  <2>3. CASE RetryScope(answer)
    BY <2>0, <2>3 DEF RetryScope, ReadInv, AcceptedPartsKept, KeptApart, Typed, Span, Lines
  <2>4. Scoped(answer) \subseteq PartReplies /\ Owned(Scoped(answer)) \subseteq ranges
    BY DEF Answers, Scoped, Owned
  <2>6. ASSUME NEW cut \in Trimmed(Scoped(answer)),
               LET additions == {BoundTo(p, TRUE, TRUE) : p \in cut}
               IN \E set \in Reconciled(retained \cup additions) :
                    \/ SoundReading(set) /\ readingPc' = "read" /\ parts' = set
                       /\ UNCHANGED <<ranges, retained, turn>>
                    \/ RetryLayout(set, additions)
        PROVE  ReadInv'
    <3> DEFINE additions == {BoundTo(p, TRUE, TRUE) : p \in cut}
    <3>6. cut \subseteq PartReplies /\ Owned(cut) \subseteq ranges
      BY <2>4, TrimmedAnswer
    <3>7. Typed(additions) /\ Owned(additions) \subseteq ranges
      BY <3>6, BoundAnswer
    <3> HIDE DEF additions
    <3>1. PICK set \in Reconciled(retained \cup additions) :
               \/ SoundReading(set) /\ readingPc' = "read" /\ parts' = set /\ UNCHANGED <<ranges, retained, turn>>
               \/ RetryLayout(set, additions)
      BY <2>6 DEF additions
    <3>2. retained \subseteq set /\ Typed(retained \cup additions)
      BY <2>0, <3>7, KeptAll
    <3>3. CASE SoundReading(set) /\ readingPc' = "read" /\ parts' = set /\ UNCHANGED <<ranges, retained, turn>>
      <4>1. SoundReading(parts)'
        BY <3>3 DEF SoundReading, Gaps, Overlaps, Faulty, Escaping, Owned, Span, Lines, Outside
      <4>2. QED
        BY <3>2, <3>3, <4>1 DEF ReadInv, AcceptedPartsKept
    <3>4. CASE RetryLayout(set, additions)
      BY <2>0, <3>2, <3>4, LayoutApart DEF ReadInv, AcceptedPartsKept
    <3>5. QED
      BY <3>1, <3>3, <3>4
  <2>7. QED
    BY <2>1, <2>2, <2>3, <2>6
<1>8. QED
  BY <1>1, <1>2, <1>3, <1>4, <1>5, <1>6, <1>7 DEF ReadingNext

(* A batch is read in sound parts that account for every line, and a repair    *)
(* keeps the parts it was not asked about.                                     *)
THEOREM PartsKept == ReadingSpec => []AcceptedPartsKept
<1>1. ReadingInit => ReadInv
  BY DEF ReadingInit, ReadInv, AcceptedPartsKept
<1>2. ReadInv => AcceptedPartsKept
  BY DEF ReadInv
<1>3. QED
  BY <1>1, <1>2, ReadStep, PTL DEF ReadingSpec

-----------------------------------------------------------------------------
(* The claims of a topic *)

\* A plan is a record of these fields; texts a compiler writes in place of a takeaway.
Shaped(p) == p = [topics |-> p.topics, title |-> p.title, bullet |-> p.bullet, marks |-> p.marks]
Written   == {Asked, Plain, Fixed}

LEMMA ShownTexts ==
  ASSUME NEW p, Errors(p) = {}, NEW t \in p.topics
  PROVE  Fault(t, p.title[t]) = "none" /\ Fault(t, p.bullet[t]) = "none"
<1> DEFINE x == [where |-> "title", topic |-> t]
           y == [where |-> "bullet", topic |-> t]
<1>1. x \in Shown(p) /\ Text(p, x) = p.title[t] /\ x.topic = t
  BY DEF Shown, Text
<1>2. y \in Shown(p) /\ Text(p, y) = p.bullet[t] /\ y.topic = t
  BY DEF Shown, Text
<1> HIDE DEF x, y
<1>3. \A z \in Shown(p) : Fault(z.topic, Text(p, z)) = "none"
  BY DEF Errors
<1>4. QED
  BY <1>1, <1>2, <1>3

LEMMA AffectedTexts ==
  ASSUME NEW p, NEW t \in Affected(p)
  PROVE  t \in p.topics /\ (t \notin owned => Fault(t, p.title[t]) = "loose")
<1>1. PICK e \in Errors(p) : e.at.topic = t /\ e.fault = "loose" /\ (e.at.where = "title" \/ e.at.topic \in owned)
  BY DEF Affected
<1>2. PICK x \in Shown(p) : e = [at |-> x, text |-> Text(p, x), fault |-> Fault(x.topic, Text(p, x))]
  BY <1>1 DEF Errors
<1>3. e.at = x /\ e.fault = Fault(x.topic, Text(p, x))
  BY <1>2
<1>4. x.topic \in p.topics
  BY <1>2 DEF Shown
<1>5. QED
  BY <1>1, <1>3, <1>4 DEF Text

LEMMA ReplacedPlan ==
  ASSUME NEW p, Shaped(p), NEW ts, NEW text
  PROVE  /\ Shaped(Replaced(p, ts, text))
         /\ Replaced(p, ts, text).topics = p.topics /\ Replaced(p, ts, text).marks = p.marks
         /\ \A t \in p.topics : Replaced(p, ts, text).title[t] = (IF t \in ts THEN text ELSE p.title[t])
         /\ \A t \in p.topics : Replaced(p, ts, text).bullet[t] = (IF t \in ts \cap owned THEN text ELSE p.bullet[t])
<1>1. Replaced(p, ts, text) =
        [topics |-> p.topics, title |-> [t \in p.topics |-> IF t \in ts THEN text ELSE p.title[t]],
         bullet |-> [t \in p.topics |-> IF t \in ts \cap owned THEN text ELSE p.bullet[t]], marks |-> p.marks]
  <2> DEFINE title  == [t \in p.topics |-> IF t \in ts THEN text ELSE p.title[t]]
             bullet == [t \in p.topics |-> IF t \in ts \cap owned THEN text ELSE p.bullet[t]]
  <2>1. Replaced(p, ts, text) = [p EXCEPT !.title = title, !.bullet = bullet]
    BY DEF Replaced
  <2> HIDE DEF title, bullet, Replaced
  <2>2. Replaced(p, ts, text) = [topics |-> p.topics, title |-> title, bullet |-> bullet, marks |-> p.marks]
    BY <2>1 DEF Shaped
  <2>3. QED
    BY <2>2 DEF title, bullet
<1> HIDE DEF Replaced
<1>2. QED
  BY <1>1 DEF Shaped

LEMMA CorrectedPlan ==
  ASSUME NEW d, Shaped(d), NEW p \in Corrected(d)
  PROVE  /\ Shaped(p) /\ p.topics = d.topics /\ p.marks = d.marks
         /\ \A t \in d.topics : p.title[t] \in {d.title[t], Fixed} /\ p.bullet[t] \in {d.bullet[t], Fixed}
<1>1. PICK s :
        p = [d EXCEPT !.title = [t \in d.topics |->
                                   IF [where |-> "title", topic |-> t] \in s THEN Fixed ELSE d.title[t]],
                      !.bullet = [t \in d.topics |->
                                   IF [where |-> "bullet", topic |-> t] \in s THEN Fixed ELSE d.bullet[t]]]
  BY DEF Corrected
<1>2. p = [topics |-> d.topics, marks |-> d.marks,
           title |-> [t \in d.topics |->
                        IF [where |-> "title", topic |-> t] \in s THEN Fixed ELSE d.title[t]],
           bullet |-> [t \in d.topics |->
                        IF [where |-> "bullet", topic |-> t] \in s THEN Fixed ELSE d.bullet[t]]]
  BY <1>1 DEF Shaped
<1>3. QED
  BY <1>2 DEF Shaped

\* What a recovery changes: the topics an error is about, which it marks.
LEMMA RecoveredPlan ==
  ASSUME NEW p, Shaped(p), Recovered(p) # p
  PROVE  LET r == Recovered(p)
         IN /\ Shaped(r) /\ r.topics = p.topics
            /\ r.marks = p.marks \cup {Mark(t, takeaway[t]) : t \in Affected(p)}
            /\ \A t \in p.topics :
                 /\ r.title[t] \in (IF t \in Affected(p) THEN {Asked, Plain} ELSE {p.title[t]})
                 /\ r.bullet[t] \in (IF t \in Affected(p) \cap owned THEN {Asked, Plain} ELSE {p.bullet[t]})
<1> DEFINE ts == Affected(p)
           q == Replaced(p, ts, Asked)
           asked == [q EXCEPT !.marks = @ \cup {Mark(t, takeaway[t]) : t \in ts}]
           still == Affected(asked) \cap ts
           r == Replaced(asked, still, Plain)
<1>1. Recovered(p) = r
  BY DEF Recovered
<1>2. /\ Shaped(q) /\ q.topics = p.topics /\ q.marks = p.marks
      /\ \A t \in p.topics : q.title[t] = (IF t \in ts THEN Asked ELSE p.title[t])
      /\ \A t \in p.topics : q.bullet[t] = (IF t \in ts \cap owned THEN Asked ELSE p.bullet[t])
  BY ReplacedPlan
<1> HIDE DEF q, ts
<1>3. /\ Shaped(asked) /\ asked.topics = q.topics /\ asked.title = q.title /\ asked.bullet = q.bullet
      /\ asked.marks = q.marks \cup {Mark(t, takeaway[t]) : t \in ts}
  BY <1>2 DEF Shaped
<1> HIDE DEF asked
<1>4. /\ Shaped(r) /\ r.topics = asked.topics /\ r.marks = asked.marks
      /\ \A t \in asked.topics : r.title[t] = (IF t \in still THEN Plain ELSE asked.title[t])
      /\ \A t \in asked.topics : r.bullet[t] = (IF t \in still \cap owned THEN Plain ELSE asked.bullet[t])
  BY <1>3, ReplacedPlan
<1>5. still \subseteq ts
  OBVIOUS
<1> HIDE DEF r, still
<1>6. QED
  BY <1>1, <1>2, <1>3, <1>4, <1>5 DEF ts

\* A draft and its marks: a marked topic shows none of its own texts.
Draws(d, take) ==
  /\ Shaped(d)
  /\ \A t \in d.topics : /\ d.title[t] \in {take[t]} \cup Written /\ d.bullet[t] = d.title[t]
                         /\ t \in Withheld(d) => d.title[t] \in Written

\* What a validated draft shows: no marked text, nothing that fails a check.
LEMMA ValidatedPlan ==
  ASSUME NEW d, NEW take, Draws(d, take), NEW p \in UNION {Validated(c) : c \in Corrected(d)},
         \A t \in d.topics : take[t] \in Claims \cup {NoTakeaway}, takeaway \in [Topics -> Claims \cup {NoTakeaway}],
         d.topics \subseteq Topics, \A m \in d.marks : m.claim \in Claims \cup {NoTakeaway}
  PROVE  /\ Shaped(p) /\ p.topics = d.topics /\ Errors(p) = {}
         /\ d.marks \subseteq p.marks
         /\ \A m \in p.marks \ d.marks : m.topic \in d.topics /\ m.claim = takeaway[m.topic]
         /\ \A m \in p.marks : m.claim \in Claims \cup {NoTakeaway}
         /\ \A m \in d.marks : m.topic \in d.topics => m.claim \notin {p.title[m.topic], p.bullet[m.topic]}
         /\ \A m \in p.marks \ d.marks :
             take[m.topic] = takeaway[m.topic] => m.claim \notin {p.title[m.topic], p.bullet[m.topic]}
         /\ \A t \in d.topics : t \notin Withheld(p) => p.title[t] \in {d.title[t], Fixed}
<1>1. PICK c \in Corrected(d) : p \in Validated(c)
  OBVIOUS
<1>2. /\ Shaped(c) /\ c.topics = d.topics /\ c.marks = d.marks
      /\ \A t \in d.topics : c.title[t] \in {d.title[t], Fixed} /\ c.bullet[t] \in {d.bullet[t], Fixed}
  BY CorrectedPlan DEF Draws
<1>3. p \in {c, Recovered(c)} /\ Errors(p) = {}
  BY <1>1 DEF Validated
<1>4. \A t \in d.topics : /\ take[t] \notin Written
                          /\ t \in Withheld(d) => c.title[t] \in Written /\ c.bullet[t] \in Written
  BY <1>2, ClaimsAssumption DEF Draws, Written, NoTakeaway, Asked, Plain, Fixed
<1>5. \A m \in d.marks : m.claim \notin Written
  BY ClaimsAssumption DEF Written, NoTakeaway, Asked, Plain, Fixed
<1>6. \A m \in d.marks : m.topic \in Withheld(d)
  BY DEF Withheld
<1>7. CASE p = c
  BY <1>2, <1>3, <1>4, <1>5, <1>6, <1>7
<1>8. CASE p = Recovered(c) /\ p # c
  <2>1. /\ Shaped(p) /\ p.topics = c.topics
        /\ p.marks = c.marks \cup {Mark(t, takeaway[t]) : t \in Affected(c)}
        /\ \A t \in c.topics :
             /\ p.title[t] \in (IF t \in Affected(c) THEN {Asked, Plain} ELSE {c.title[t]})
             /\ p.bullet[t] \in (IF t \in Affected(c) \cap owned THEN {Asked, Plain} ELSE {c.bullet[t]})
    BY <1>2, <1>8, RecoveredPlan
  <2>2. ASSUME NEW m \in p.marks \ d.marks
        PROVE  m.topic \in Affected(c) /\ m.topic \in d.topics /\ m.claim = takeaway[m.topic]
    <3>1. PICK t \in Affected(c) : m = Mark(t, takeaway[t])
      BY <1>2, <2>1
    <3>2. m.topic = t /\ m.claim = takeaway[t]
      BY <3>1 DEF Mark
    <3>3. QED
      BY <1>2, <3>2, AffectedTexts
  <2>3. \A m \in p.marks : m.claim \in Claims \cup {NoTakeaway}
    BY <2>2
  <2>4. \A m \in d.marks : m.topic \in d.topics => m.claim \notin {p.title[m.topic], p.bullet[m.topic]}
    <3> SUFFICES ASSUME NEW m \in d.marks, m.topic \in d.topics PROVE m.claim \notin {p.title[m.topic], p.bullet[m.topic]}
      OBVIOUS
    <3>1. c.title[m.topic] \in Written /\ c.bullet[m.topic] \in Written /\ m.claim \notin Written
      BY <1>4, <1>5, <1>6
    <3>2. p.title[m.topic] \in Written /\ p.bullet[m.topic] \in Written
      BY <1>2, <2>1, <3>1 DEF Written
    <3>3. QED
      BY <3>1, <3>2
  <2>5. ASSUME NEW m \in p.marks \ d.marks, take[m.topic] = takeaway[m.topic]
        PROVE  m.claim \notin {p.title[m.topic], p.bullet[m.topic]}
    <3> DEFINE t == m.topic
    <3>1. t \in Affected(c) /\ t \in d.topics /\ m.claim = takeaway[t] /\ m.claim \notin Written
      BY <1>4, <2>2, <2>5
    <3>2. p.title[t] \in Written
      BY <1>2, <2>1, <3>1 DEF Written
    <3>3. CASE t \in owned
      BY <1>2, <2>1, <3>1, <3>2, <3>3 DEF Written
    <3>4. CASE t \notin owned
      <4>1. Fault(t, c.title[t]) = "loose"
        BY <3>1, <3>4, AffectedTexts
      <4>2. p.bullet[t] = c.bullet[t]
        BY <1>2, <2>1, <3>1, <3>4
      <4>3. Fault(t, p.bullet[t]) = "none"
        BY <1>2, <1>3, <2>1, <3>1, ShownTexts
      <4>4. CASE c.title[t] = take[t]
        BY <2>5, <3>1, <3>2, <4>1, <4>2, <4>3, <4>4
      <4>5. CASE c.title[t] = Fixed /\ d.title[t] = take[t]
        <5>1. Fault(t, Fixed) # "loose"
          BY ClaimsAssumption DEF Fault, Asked, Fixed
        <5>2. QED
          BY <4>1, <4>5, <5>1
      <4>6. CASE d.title[t] \in Written
        <5>1. c.bullet[t] \in Written
          BY <1>2, <3>1, <4>6 DEF Draws, Written
        <5>2. QED
          BY <3>1, <3>2, <4>2, <5>1
      <4>7. QED
        BY <1>2, <3>1, <4>4, <4>5, <4>6 DEF Draws
    <3>5. QED
      BY <3>3, <3>4
  <2>6. \A t \in d.topics : t \notin Withheld(p) => p.title[t] \in {d.title[t], Fixed}
    <3> SUFFICES ASSUME NEW t \in d.topics, t \notin Withheld(p) PROVE p.title[t] \in {d.title[t], Fixed}
      OBVIOUS
    <3>1. t \notin Affected(c)
      <4>1. Mark(t, takeaway[t]).topic = t /\ Mark(t, takeaway[t]) \notin p.marks
        BY DEF Withheld, Mark
      <4>2. QED
        BY <2>1, <4>1
    <3>2. QED
      BY <1>2, <2>1, <3>1
  <2>7. QED
    BY <1>2, <1>3, <2>1, <2>2, <2>3, <2>4, <2>5, <2>6
<1>9. QED
  BY <1>3, <1>7, <1>8

LEMMA DrawnPlan ==
  ASSUME NEW chosen, NEW take, NEW marks
  PROVE  LET d == Drawn(chosen, take, marks)
         IN /\ Draws(d, take) /\ d.topics = chosen /\ d.marks = marks
            /\ \A t \in chosen : d.title[t] \in {take[t], Asked}
            /\ \A t \in chosen : t \in Withheld(d) \cup kinds.paged \/ take[t] = NoTakeaway \/ d.title[t] = take[t]
<1> DEFINE text == [t \in chosen |-> IF t \in {m.topic : m \in marks} \cup kinds.paged \/ take[t] = NoTakeaway
                                     THEN Asked ELSE take[t]]
           d == Drawn(chosen, take, marks)
<1>1. d = [topics |-> chosen, title |-> text, bullet |-> text, marks |-> marks]
  BY DEF Drawn
<1>2. \A t \in chosen : text[t] = (IF t \in {m.topic : m \in marks} \cup kinds.paged \/ take[t] = NoTakeaway
                                     THEN Asked ELSE take[t])
  OBVIOUS
<1> HIDE DEF text, d
<1>3. d.topics = chosen /\ d.title = text /\ d.bullet = text /\ d.marks = marks /\ Shaped(d)
  BY <1>1 DEF Shaped
<1>4. Withheld(d) = {m.topic : m \in marks}
  BY <1>3 DEF Withheld
<1>5. QED
  BY <1>2, <1>3, <1>4 DEF Draws, Written, d

\* Every claim that is marked is one a model may have written.
Claimed(marks) == \A m \in marks : m.claim \in Claims \cup {NoTakeaway}
Taken(take, chosen) == \A t \in chosen : take[t] \in Claims \cup {NoTakeaway}

\* What a plan shows that was compiled for these takeaways: no marked claim, nothing
\* that fails a check, and every other takeaway as it is or corrected.
Compiled(p, chosen, take, marks) ==
  LET old == Carried(marks, chosen, take)
  IN /\ Shaped(p) /\ p.topics = chosen /\ Errors(p) = {} /\ Claimed(p.marks)
     /\ old \subseteq p.marks
     /\ \A m \in old : m.topic \in chosen => /\ m.claim = take[m.topic]
                                             /\ m.claim \notin {p.title[m.topic], p.bullet[m.topic]}
     /\ \A m \in p.marks \ old :
          /\ m.topic \in chosen /\ m.claim = takeaway[m.topic]
          /\ take[m.topic] = takeaway[m.topic] => m.claim \notin {p.title[m.topic], p.bullet[m.topic]}
     /\ \A t \in chosen : t \notin Withheld(p) =>
          /\ p.title[t] \in {take[t], Asked, Fixed}
          /\ take[t] \in {NoTakeaway, p.title[t]} \/ t \in kinds.paged \/ p.title[t] = Fixed

LEMMA CompiledPlan ==
  ASSUME NEW chosen \in SUBSET Topics, NEW take, NEW marks, Claimed(marks), Taken(take, chosen),
         takeaway \in [Topics -> Claims \cup {NoTakeaway}], NEW p \in Compilations(chosen, take, marks)
  PROVE  Compiled(p, chosen, take, marks)
<1> DEFINE old == Carried(marks, chosen, take)
           d == Drawn(chosen, take, old)
<1>1. /\ Draws(d, take) /\ d.topics = chosen /\ d.marks = old
      /\ \A t \in chosen : d.title[t] \in {take[t], Asked}
      /\ \A t \in chosen : t \in Withheld(d) \cup kinds.paged \/ take[t] = NoTakeaway \/ d.title[t] = take[t]
  BY DrawnPlan
<1>2. p \in UNION {Validated(c) : c \in Corrected(d)}
  BY DEF Compilations
<1>3. /\ Claimed(old) /\ \A m \in old : m.topic \in chosen => m.claim = take[m.topic]
  BY DEF Carried, Claimed
<1> HIDE DEF old, d
<1>4. /\ Shaped(p) /\ p.topics = d.topics /\ Errors(p) = {}
      /\ d.marks \subseteq p.marks
      /\ \A m \in p.marks \ d.marks : m.topic \in d.topics /\ m.claim = takeaway[m.topic]
      /\ \A m \in p.marks : m.claim \in Claims \cup {NoTakeaway}
      /\ \A m \in d.marks : m.topic \in d.topics => m.claim \notin {p.title[m.topic], p.bullet[m.topic]}
      /\ \A m \in p.marks \ d.marks :
             take[m.topic] = takeaway[m.topic] => m.claim \notin {p.title[m.topic], p.bullet[m.topic]}
      /\ \A t \in d.topics : t \notin Withheld(p) => p.title[t] \in {d.title[t], Fixed}
  <2>1. \A t \in d.topics : take[t] \in Claims \cup {NoTakeaway}
    BY <1>1 DEF Taken
  <2>2. \A m \in d.marks : m.claim \in Claims \cup {NoTakeaway}
    BY <1>1, <1>3 DEF Claimed
  <2>3. d.topics \subseteq Topics
    BY <1>1
  <2>4. QED
    BY <1>1, <1>2, <2>1, <2>2, <2>3, ValidatedPlan
<1>5. ASSUME NEW t \in chosen, t \notin Withheld(p)
      PROVE  /\ p.title[t] \in {take[t], Asked, Fixed}
             /\ take[t] \in {NoTakeaway, p.title[t]} \/ t \in kinds.paged \/ p.title[t] = Fixed
  <2>1. t \notin Withheld(d)
    BY <1>4, <1>5 DEF Withheld
  <2>2. QED
    BY <1>1, <1>4, <1>5, <2>1
<1>6. QED
  BY <1>1, <1>3, <1>4, <1>5 DEF Claimed, Compiled, old

-----------------------------------------------------------------------------
\* The takeaways a plan was compiled from are those of its topics, and a correction
\* under way has seen the one it corrects.
ClaimInv ==
  /\ takeaway \in [Topics -> Claims \cup {NoTakeaway}]
  /\ kept \subseteq Topics
  /\ Claimed(plan.marks)
  /\ DOMAIN drafts \subseteq Topics /\ \A t \in DOMAIN drafts : drafts[t] \in Claims
  /\ claimsPc = "compiled" =>
       plan.topics = kept /\ \A m \in plan.marks : m.topic \in kept => m.claim = takeaway[m.topic]
  /\ trying = [topic |-> trying.topic, seen |-> trying.seen, left |-> trying.left]
  /\ trying # Idle => /\ claimsPc = "compiled" /\ trying.topic \in kept
                      /\ takeaway[trying.topic] \in trying.seen
  /\ ClaimsAccounted

LEMMA ClaimStart == ClaimsInit => ClaimInv
<1> SUFFICES ASSUME ClaimsInit PROVE ClaimInv
  OBVIOUS
<1>1. /\ takeaway \in [Topics -> Claims \cup {NoTakeaway}] /\ kept \subseteq Topics
      /\ plan.marks = {} /\ claimsPc = "selecting"
  BY DEF ClaimsInit, NoPlan
<1>2. DOMAIN drafts = {} /\ trying = Idle
  BY DEF ClaimsInit
<1>3. QED
  BY <1>1, <1>2 DEF ClaimInv, Claimed, Idle, ClaimsAccounted

\* A plan compiled for the topics of the selection.
LEMMA CompileClaims ==
  ASSUME ClaimInv, NEW p \in Compilations(kept, takeaway, plan.marks)
  PROVE  /\ p.topics = kept /\ Errors(p) = {} /\ Claimed(p.marks)
         /\ \A m \in p.marks : m.topic \in kept => /\ m.claim = takeaway[m.topic]
                                                   /\ m.claim \notin {p.title[m.topic], p.bullet[m.topic]}
         /\ \A t \in kept : \/ takeaway[t] \in {NoTakeaway, p.title[t]}
                             \/ t \in Withheld(p) \cup kinds.paged \/ p.title[t] = Fixed
         /\ \A m \in plan.marks : m.topic \in kept /\ takeaway[m.topic] = m.claim =>
              m.claim \notin {p.title[m.topic], p.bullet[m.topic]}
<1> DEFINE old == Carried(plan.marks, kept, takeaway)
<1>1. /\ Claimed(plan.marks) /\ Taken(takeaway, kept) /\ kept \in SUBSET Topics
      /\ takeaway \in [Topics -> Claims \cup {NoTakeaway}]
  BY DEF ClaimInv, Taken
<1>2. \A m \in plan.marks : m.topic \in kept /\ takeaway[m.topic] = m.claim => m \in old
  BY DEF Carried
<1> HIDE DEF old
<1>3. /\ Shaped(p) /\ p.topics = kept /\ Errors(p) = {} /\ Claimed(p.marks)
      /\ old \subseteq p.marks
      /\ \A m \in old : m.topic \in kept => /\ m.claim = takeaway[m.topic]
                                            /\ m.claim \notin {p.title[m.topic], p.bullet[m.topic]}
      /\ \A m \in p.marks \ old :
           /\ m.topic \in kept /\ m.claim = takeaway[m.topic]
           /\ takeaway[m.topic] = takeaway[m.topic] => m.claim \notin {p.title[m.topic], p.bullet[m.topic]}
      /\ \A t \in kept : t \notin Withheld(p) =>
           /\ p.title[t] \in {takeaway[t], Asked, Fixed}
           /\ takeaway[t] \in {NoTakeaway, p.title[t]} \/ t \in kinds.paged \/ p.title[t] = Fixed
  <2>1. Compiled(p, kept, takeaway, plan.marks)
    BY <1>1, CompiledPlan
  <2>2. QED
    BY <2>1 DEF Compiled, old
<1>4. QED
  BY <1>2, <1>3

\* A plan compiled with another takeaway for one topic, which it shows.
Correcting(t, take, marks, p) ==
  /\ take \in [Topics -> Claims \cup {NoTakeaway}]
  /\ \A u \in kept : u # t => take[u] = takeaway[u]
  /\ \A m : m \in marks <=> m \in plan.marks /\ m.topic # t
  /\ p \in Compilations(kept, take, marks) /\ t \notin Withheld(p)

\* A plan shows every takeaway of the selection that is neither marked nor corrected.
Shows(p, take) ==
  /\ p.topics = kept /\ Errors(p) = {} /\ Claimed(p.marks)
  /\ \A m \in p.marks : m.topic \in kept => /\ m.claim = take[m.topic]
                                            /\ m.claim \notin {p.title[m.topic], p.bullet[m.topic]}
  /\ \A u \in kept : take[u] \in {NoTakeaway, p.title[u]} \/ u \in Withheld(p) \cup kinds.paged \/ p.title[u] = Fixed

\* A corrected takeaway is shown, and no other is withheld for it.
LEMMA CorrectClaims ==
  ASSUME ClaimInv, NEW t, NEW take, NEW marks, NEW p, Correcting(t, take, marks, p)
  PROVE  /\ Shows(p, take)
         /\ \A m \in plan.marks : m.topic # t /\ m.topic \in kept /\ take[m.topic] = m.claim =>
              m.claim \notin {p.title[m.topic], p.bullet[m.topic]}
<1> DEFINE old == Carried(marks, kept, take)
<1>1. /\ Claimed(marks) /\ Taken(take, kept) /\ kept \in SUBSET Topics
      /\ takeaway \in [Topics -> Claims \cup {NoTakeaway}] /\ take \in [Topics -> Claims \cup {NoTakeaway}]
      /\ \A u \in kept : u # t => take[u] = takeaway[u]
  BY DEF ClaimInv, Taken, Claimed, Correcting
<1>2. \A m \in plan.marks : m.topic # t /\ m.topic \in kept /\ take[m.topic] = m.claim => m \in old
  BY DEF Carried, Correcting
<1>3. p \in Compilations(kept, take, marks)
  BY DEF Correcting
<1> HIDE DEF old
<1>4. /\ Shaped(p) /\ p.topics = kept /\ Errors(p) = {} /\ Claimed(p.marks)
      /\ old \subseteq p.marks
      /\ \A m \in old : m.topic \in kept => /\ m.claim = take[m.topic]
                                            /\ m.claim \notin {p.title[m.topic], p.bullet[m.topic]}
      /\ \A m \in p.marks \ old :
           /\ m.topic \in kept /\ m.claim = takeaway[m.topic]
           /\ take[m.topic] = takeaway[m.topic] => m.claim \notin {p.title[m.topic], p.bullet[m.topic]}
      /\ \A u \in kept : u \notin Withheld(p) =>
           /\ p.title[u] \in {take[u], Asked, Fixed}
           /\ take[u] \in {NoTakeaway, p.title[u]} \/ u \in kinds.paged \/ p.title[u] = Fixed
  <2>1. Compiled(p, kept, take, marks)
    BY <1>1, <1>3, CompiledPlan
  <2>2. QED
    BY <2>1 DEF Compiled, old
<1>5. \A m \in p.marks : m.topic # t
  BY DEF Withheld, Correcting
<1>6. \A m \in p.marks : m.topic \in kept => /\ m.claim = take[m.topic]
                                             /\ m.claim \notin {p.title[m.topic], p.bullet[m.topic]}
  BY <1>1, <1>4, <1>5
<1>7. QED
  BY <1>1, <1>2, <1>4, <1>6 DEF Shows

\* What a step of the recovery of rejected drafts makes of the plan.
LEMMA RecoverClaims ==
  ASSUME ClaimInv, RecoverDrafts
  PROVE  /\ takeaway' \in [Topics -> Claims \cup {NoTakeaway}] /\ kept' \subseteq Topics
         /\ Claimed(plan'.marks) /\ claimsPc' = "closed" /\ UNCHANGED <<drafts, trying>>
         /\ StaysWithheld
<1> DEFINE back == {t \in (DOMAIN drafts) \ kept : drafts[t] \notin Invalid /\ t \notin kinds.unusable}
           chosen == kept \cup back
           take == [t \in Topics |-> IF t \in back THEN drafts[t] ELSE takeaway[t]]
           all(p) == p.marks \cup plan.marks
           shown(p) == [t \in chosen |-> IF t \in {m.topic : m \in all(p)} THEN Asked ELSE p.title[t]]
           redrawn(p) == [Drawn(chosen, take, all(p)) EXCEPT !.title = shown(p), !.bullet = shown(p)]
<1>1. /\ takeaway \in [Topics -> Claims \cup {NoTakeaway}] /\ take \in [Topics -> Claims \cup {NoTakeaway}]
      /\ chosen \in SUBSET Topics /\ Taken(take, chosen) /\ Claimed({}) /\ Claimed(plan.marks) /\ kept \in SUBSET Topics
  BY DEF ClaimInv, Taken, Claimed
<1>2. claimsPc' = "closed" /\ UNCHANGED <<drafts, trying>>
  BY DEF RecoverDrafts
<1>3. \/ UNCHANGED <<plan, kept, takeaway>>
      \/ \E p \in Compilations(chosen, take, {}) :
           \E q \in UNION {Validated(r) : r \in Corrected(redrawn(p))} :
             plan' = q /\ kept' = chosen /\ takeaway' = take
  BY DEF RecoverDrafts
<1> HIDE DEF back, chosen, take
<1>4. CASE UNCHANGED <<plan, kept, takeaway>>
  BY <1>1, <1>2, <1>4 DEF StaysWithheld
<1>5. ASSUME NEW p \in Compilations(chosen, take, {}),
             NEW q \in UNION {Validated(r) : r \in Corrected(redrawn(p))},
             plan' = q, kept' = chosen, takeaway' = take
      PROVE  Claimed(plan'.marks) /\ StaysWithheld
  <2> DEFINE d == redrawn(p)
             text == shown(p)
             marks == all(p)
             first == Drawn(chosen, take, marks)
  <2>1. /\ Claimed(p.marks) /\ p.topics = chosen
        /\ \A t \in chosen : t \notin Withheld(p) => p.title[t] \in {take[t], Asked, Fixed}
    <3>1. Compiled(p, chosen, take, {})
      BY <1>1, CompiledPlan
    <3>2. QED
      BY <3>1 DEF Compiled
  <2>2. Shaped(first) /\ first.topics = chosen /\ first.marks = marks
    <3> HIDE DEF marks, d, all, shown, redrawn
    <3>1. Draws(first, take) /\ first.topics = chosen /\ first.marks = marks
      BY DrawnPlan
    <3>2. QED
      BY <3>1 DEF Draws
  <2>3. \A t \in chosen : text[t] = (IF t \in {m.topic : m \in marks} THEN Asked ELSE p.title[t])
    OBVIOUS
  <2>4. \A t \in chosen : t \notin {m.topic : m \in marks} => t \notin Withheld(p)
    BY DEF Withheld
  <2> HIDE DEF first, text
  <2>5. d = [first EXCEPT !.title = text, !.bullet = text]
    BY DEF first, text
  <2> HIDE DEF d, marks
  <2>6. Shaped(d) /\ d.topics = chosen /\ d.marks = marks /\ d.title = text /\ d.bullet = text
    BY <2>2, <2>5 DEF Shaped
  <2>7. Withheld(d) = {m.topic : m \in marks}
    BY <2>6 DEF Withheld
  <2>8. Draws(d, take)
    BY <2>1, <2>3, <2>4, <2>6, <2>7 DEF Draws, Written
  <2>9. \A m \in d.marks : m.claim \in Claims \cup {NoTakeaway}
    BY <1>1, <2>1, <2>6 DEF Claimed, marks
  <2>10. /\ \A m \in q.marks : m.claim \in Claims \cup {NoTakeaway}
         /\ \A m \in d.marks : m.topic \in d.topics => m.claim \notin {q.title[m.topic], q.bullet[m.topic]}
         /\ q.topics = d.topics
    <3>1. \A t \in d.topics : take[t] \in Claims \cup {NoTakeaway}
      BY <1>1, <2>6 DEF Taken
    <3>2. d.topics \subseteq Topics
      BY <1>1, <2>6
    <3>3. q \in UNION {Validated(c) : c \in Corrected(d)}
      BY <1>5 DEF d
    <3>4. takeaway \in [Topics -> Claims \cup {NoTakeaway}]
      BY <1>1
    <3>5. QED
      BY <2>8, <2>9, <3>1, <3>2, <3>3, <3>4, ValidatedPlan, Zenon
  <2>11. plan.marks \subseteq d.marks
    BY <2>6 DEF marks
  <2>12. QED
    BY <1>5, <2>10, <2>11 DEF Claimed, StaysWithheld
<1>6. CASE \/ UNCHANGED <<plan, kept, takeaway>>
           \/ kept' = chosen /\ takeaway' = take /\ Claimed(plan'.marks) /\ StaysWithheld
  BY <1>1, <1>2, <1>4, <1>6
<1>7. QED
  BY <1>3, <1>5, <1>6

\* Every step keeps the invariant, and what was withheld.
LEMMA ClaimStep == ClaimInv /\ [ClaimsNext]_claimsVars => ClaimInv' /\ [StaysWithheld]_claimsVars
<1> SUFFICES ASSUME ClaimInv, [ClaimsNext]_claimsVars PROVE ClaimInv' /\ [StaysWithheld]_claimsVars
  OBVIOUS
<1>1. CASE Select
  <2>1. plan.marks = plan'.marks /\ plan' = plan /\ claimsPc' = "compiling" /\ claimsPc = "selecting" /\ UNCHANGED trying
    BY <1>1 DEF Select
  <2>2. PICK written \in [Topics -> Claims] :
          /\ takeaway' \in [Topics -> Claims \cup {NoTakeaway}] /\ kept' \subseteq Topics
          /\ drafts' = [t \in {u \in Topics : ~SoundClaim(u, written[u])} |-> written[t]]
    BY <1>1 DEF Select
  <2>3. DOMAIN drafts' \subseteq Topics /\ \A t \in DOMAIN drafts' : drafts'[t] \in Claims
    BY <2>2
  <2>4. trying' = Idle
    BY <2>1 DEF ClaimInv
  <2>5. QED
    BY <2>1, <2>2, <2>3, <2>4 DEF ClaimInv, ClaimsAccounted, StaysWithheld
<1>2. CASE Compile
  <2>1. UNCHANGED <<kinds, owned, kept, takeaway, drafts, bindable, trying>> /\ claimsPc = "compiling"
    BY <1>2 DEF Compile
  <2>2. CASE claimsPc' = "resting" /\ UNCHANGED plan
    BY <2>1, <2>2 DEF ClaimInv, ClaimsAccounted, StaysWithheld
  <2>3. CASE plan' \in Compilations(kept, takeaway, plan.marks) /\ claimsPc' = "compiled"
    <3>1. /\ plan'.topics = kept /\ Errors(plan') = {} /\ Claimed(plan'.marks)
          /\ \A m \in plan'.marks : m.topic \in kept => /\ m.claim = takeaway[m.topic]
                                                        /\ m.claim \notin {plan'.title[m.topic], plan'.bullet[m.topic]}
          /\ \A t \in kept : \/ takeaway[t] \in {NoTakeaway, plan'.title[t]}
                              \/ t \in Withheld(plan') \cup kinds.paged \/ plan'.title[t] = Fixed
          /\ \A m \in plan.marks : m.topic \in kept /\ takeaway[m.topic] = m.claim =>
               m.claim \notin {plan'.title[m.topic], plan'.bullet[m.topic]}
      BY <2>3, CompileClaims
    <3>2. Errors(plan)' = Errors(plan')
      BY <2>1 DEF Errors, Fault, Shown, Text
    <3>3. ClaimsAccounted'
      BY <2>1, <3>1, <3>2 DEF ClaimsAccounted, Withheld
    <3>4. StaysWithheld
      BY <2>1, <3>1 DEF StaysWithheld
    <3>5. QED
      BY <2>1, <2>3, <3>1, <3>3, <3>4 DEF ClaimInv
  <2>4. QED
    BY <1>2, <2>2, <2>3 DEF Compile
<1>3. CASE AskTopic
  <2>1. PICK t \in (Withheld(plan) \cap kept) \ repaired : trying' = [topic |-> t, seen |-> {takeaway[t]}, left |-> 2]
    BY <1>3 DEF AskTopic
  <2>2. UNCHANGED <<claimsPc, kinds, owned, kept, takeaway, drafts, bindable, plan>> /\ claimsPc = "compiled"
    BY <1>3 DEF AskTopic
  <2>3. ClaimsAccounted'
    <3>1. Errors(plan)' = Errors(plan) /\ Withheld(plan)' = Withheld(plan)
      BY <2>2 DEF Errors, Fault, Shown, Text, Withheld
    <3>2. QED
      BY <2>2, <3>1 DEF ClaimInv, ClaimsAccounted
  <2>4. QED
    BY <2>1, <2>2, <2>3 DEF ClaimInv, StaysWithheld
<1>4. CASE Correct
  <2>1. /\ claimsPc = "compiled" /\ trying # Idle
        /\ UNCHANGED <<claimsPc, kinds, owned, kept, drafts, bindable>>
        /\ trying.topic \in kept /\ takeaway[trying.topic] \in trying.seen
    BY <1>4 DEF Correct, ClaimInv
  <2>2. CASE \E c \in Claims : Spend(c) /\ UNCHANGED <<plan, takeaway>>
    <3>1. PICK c \in Claims : trying' = [trying EXCEPT !.left = trying.left - 1, !.seen = trying.seen \cup {c}]
                              /\ UNCHANGED <<plan, takeaway>>
      BY <2>2 DEF Spend
    <3>2. trying' = [topic |-> trying.topic, seen |-> trying.seen \cup {c}, left |-> trying.left - 1]
      BY <3>1 DEF ClaimInv
    <3>3. ClaimsAccounted'
      <4>1. Errors(plan)' = Errors(plan) /\ Withheld(plan)' = Withheld(plan)
        BY <2>1, <3>1 DEF Errors, Fault, Shown, Text, Withheld
      <4>2. QED
        BY <2>1, <3>1, <4>1 DEF ClaimInv, ClaimsAccounted
    <3>4. QED
      BY <2>1, <3>1, <3>2, <3>3 DEF ClaimInv, StaysWithheld
  <2>3. CASE \E c \in Claims : /\ c \notin trying.seen
                               /\ plan' \in Compilations(kept, takeaway',
                                                         {m \in plan.marks : m.topic # trying.topic})
                               /\ trying.topic \notin Withheld(plan')
                               /\ takeaway' = [takeaway EXCEPT ![trying.topic] = c] /\ trying' = Idle
    <3>1. PICK c \in Claims : /\ c \notin trying.seen
                              /\ plan' \in Compilations(kept, takeaway',
                                                        {m \in plan.marks : m.topic # trying.topic})
                              /\ trying.topic \notin Withheld(plan')
                              /\ takeaway' = [takeaway EXCEPT ![trying.topic] = c] /\ trying' = Idle
      BY <2>3
    <3> DEFINE marks == {m \in plan.marks : m.topic # trying.topic}
    <3>m. (\A m : m \in marks <=> m \in plan.marks /\ m.topic # trying.topic) /\ plan' \in Compilations(kept, takeaway', marks)
      BY <3>1
    <3>t. /\ takeaway' \in [Topics -> Claims \cup {NoTakeaway}]
          /\ \A u \in kept : u # trying.topic => takeaway'[u] = takeaway[u]
      BY <2>1, <3>1 DEF ClaimInv
    <3> HIDE DEF marks
    <3>c. Correcting(trying.topic, takeaway', marks, plan')
      BY <3>1, <3>m, <3>t DEF Correcting
    <3>2. /\ Shows(plan', takeaway')
          /\ \A m \in plan.marks : m.topic # trying.topic /\ m.topic \in kept /\ takeaway'[m.topic] = m.claim =>
               m.claim \notin {plan'.title[m.topic], plan'.bullet[m.topic]}
      BY <3>c, CorrectClaims
    <3>3. Errors(plan)' = Errors(plan')
      BY <2>1 DEF Errors, Fault, Shown, Text
    <3>4. ClaimsAccounted'
      BY <2>1, <3>2, <3>3 DEF ClaimsAccounted, Withheld, Shows
    <3>5. \A m \in plan.marks : m.topic = trying.topic => takeaway'[m.topic] # m.claim
      <4>1. takeaway'[trying.topic] = c
        BY <2>1, <3>1 DEF ClaimInv
      <4>2. \A m \in plan.marks : m.topic = trying.topic => m.claim = takeaway[trying.topic]
        BY <2>1 DEF ClaimInv
      <4>3. QED
        BY <2>1, <3>1, <4>1, <4>2
    <3>6. StaysWithheld
      BY <2>1, <3>2, <3>5 DEF StaysWithheld, Shows
    <3>7. QED
      BY <2>1, <3>1, <3>2, <3>t, <3>4, <3>6 DEF ClaimInv, Idle, Shows
  <2>4. QED
    BY <1>4, <2>2, <2>3 DEF Correct
<1>5. CASE GiveUpTopic
  <2>1. trying' = Idle /\ UNCHANGED <<claimsPc, kinds, owned, kept, takeaway, drafts, bindable,
                                      plan>>
    BY <1>5 DEF GiveUpTopic
  <2>2. ClaimsAccounted'
    BY <2>1 DEF ClaimInv, ClaimsAccounted, Errors, Fault, Shown, Text, Withheld
  <2>3. QED
    BY <2>1, <2>2 DEF ClaimInv, StaysWithheld, Idle
<1>6. CASE Settle
  BY <1>6 DEF Settle, ClaimInv, ClaimsAccounted, StaysWithheld
<1>7. CASE Reopen
  BY <1>7 DEF Reopen, ClaimInv, ClaimsAccounted, StaysWithheld
<1>8. CASE RecoverDrafts
  <2>1. claimsPc = "reopened"
    BY <1>8 DEF RecoverDrafts
  <2>2. trying = Idle
    BY <2>1 DEF ClaimInv
  <2>3. QED
    BY <1>8, <2>2, RecoverClaims DEF ClaimInv, ClaimsAccounted
<1>9. CASE Recompile
  <2>1. claimsPc = "reopened" /\ claimsPc' = "closed" /\ UNCHANGED <<kept, takeaway, drafts, trying>>
    BY <1>9 DEF Recompile
  <2>2. trying = Idle
    BY <2>1 DEF ClaimInv
  <2>3. CASE UNCHANGED plan
    BY <2>1, <2>2, <2>3 DEF ClaimInv, ClaimsAccounted, StaysWithheld
  <2>4. CASE plan' \in Compilations(kept, takeaway, plan.marks)
    <3>1. /\ plan'.topics = kept /\ Claimed(plan'.marks)
          /\ \A m \in plan.marks : m.topic \in kept /\ takeaway[m.topic] = m.claim =>
               m.claim \notin {plan'.title[m.topic], plan'.bullet[m.topic]}
      BY <2>4, CompileClaims
    <3>2. QED
      BY <2>1, <2>2, <3>1 DEF ClaimInv, ClaimsAccounted, StaysWithheld
  <2>5. QED
    BY <1>9, <2>3, <2>4 DEF Recompile
<1>10. CASE UNCHANGED claimsVars
  <2>1. ClaimsAccounted'
    BY <1>10 DEF claimsVars, ClaimInv, ClaimsAccounted, Errors, Fault, Shown, Text, Withheld
  <2>2. QED
    BY <1>10, <2>1 DEF claimsVars, ClaimInv
<1>11. QED
  BY <1>1, <1>2, <1>3, <1>4, <1>5, <1>6, <1>7, <1>8, <1>9, <1>10 DEF ClaimsNext

(* Every claim of a compiled topic was validated, corrected or withheld.       *)
THEOREM ClaimsSettled == ClaimsSpec => []ClaimsAccounted
<1>1. ClaimInv /\ [ClaimsNext]_claimsVars => ClaimInv'
  BY ClaimStep
<1>2. ClaimInv => ClaimsAccounted
  BY DEF ClaimInv
<1>3. QED
  BY <1>1, <1>2, ClaimStart, PTL DEF ClaimsSpec

(* A takeaway that was withheld never returns without a new draft.             *)
THEOREM WithheldForGood == ClaimsSpec => WithheldStays
<1>1. ClaimInv /\ [ClaimsNext]_claimsVars => ClaimInv' /\ [StaysWithheld]_claimsVars
  BY ClaimStep
<1>2. QED
  BY <1>1, ClaimStart, PTL DEF ClaimsSpec, WithheldStays

-----------------------------------------------------------------------------
(* Coverage *)

RequestFields   == {"about", "attempt", "limit", "asked"}
ReductionFields == {"level", "kept", "rest", "entered"}

\* What is undecided while the deltas run is queued or under review, as long as no
\* thread has failed; what the merge must still decide is what its reduction holds.
Accounted ==
  \A s \in Candidates :
    decided[s] # "none" \/ s \in UNION queue \/ \E w \in DeltaWorkers : s \in request[w].about
StillHeld == IF reduction.rest = {} THEN reduction.entered ELSE Waiting

CoverageInv ==
  /\ DOMAIN request = Requesters /\ \A r \in Requesters : DOMAIN request[r] = RequestFields
  /\ DOMAIN reduction = ReductionFields
  /\ coveragePc \notin {"reducing", "merging"} => request[Caller] = Resting
  /\ \A r \in Requesters : request[r] # Resting => request[r].about # {}
  /\ \A w \in DeltaWorkers : request[w] # Resting => coveragePc = "deltas"
  /\ coveragePc = "deltas" /\ raised = {} => Accounted
  /\ coveragePc \in {"reducing", "merging"} => \A s \in Candidates : decided[s] # "none"
  /\ coveragePc = "reducing" => /\ IncludedSeries \subseteq StillHeld
                                /\ request[Caller] # Resting => reduction.rest # {}
  /\ coveragePc = "merging" => IncludedSeries \subseteq proposed
  /\ LedgerMatchesTopics
  /\ AcceptedObservationsKept

LEMMA CoverageStart == CoverageInit => CoverageInv
<1> SUFFICES ASSUME CoverageInit PROVE CoverageInv
  OBVIOUS
<1>1. \A s \in Original : Points[s] \subseteq Selected(topics)
  BY DEF CoverageInit, Selected
<1>2. QED
  BY <1>1 DEF CoverageInit, CoverageInv, Resting, RequestFields, ReductionFields, NotReduced,
              Requesters, LedgerMatchesTopics, AcceptedObservationsKept

-----------------------------------------------------------------------------
\* A request that fails rests, and only the caller's failure ends the review.
Failed(r) ==
  /\ request' = [request EXCEPT ![r] = Resting]
  /\ IF r = Caller THEN coveragePc' \in {"withdrawn", "unresolved"} /\ UNCHANGED raised
     ELSE raised' # {} /\ UNCHANGED coveragePc

\* A request that is asked again is about what it was about.
AskedAgain(r) ==
  /\ request[r] # Resting
  /\ \E q : /\ request' = [request EXCEPT ![r] = q] /\ DOMAIN q = RequestFields
            /\ q # Resting /\ q.about = request[r].about
  /\ UNCHANGED <<coveragePc, raised>>

LEMMA RequestStep ==
  ASSUME CoverageInv, NEW r \in Requesters, Reserve(r) \/ Truncated(r) \/ Lost(r) \/ Unusable(r)
  PROVE  /\ Failed(r) \/ AskedAgain(r)
         /\ request[r] # Resting
         /\ UNCHANGED <<serial, topics, decided, omissions, queue, cancelled, proposed, reduction>>
<1>1. DOMAIN request = Requesters /\ DOMAIN request[r] = RequestFields
  BY DEF CoverageInv
<1>2. ASSUME NEW kind, FailRequest(r, kind) PROVE Failed(r)
  BY <1>2 DEF FailRequest, Failed
<1>3. CASE Reserve(r)
  <2>1. request[r].about # {} /\ request[r] # Resting
    BY <1>3 DEF Reserve, Resting
  <2>2. CASE FailRequest(r, "review")
    BY <1>2, <1>3, <2>1, <2>2 DEF Reserve
  <2>3. CASE request' = [request EXCEPT ![r].asked = TRUE] /\ UNCHANGED <<coveragePc, raised>>
    <3> DEFINE q == [request[r] EXCEPT !.asked = TRUE]
    <3>1. DOMAIN q = RequestFields /\ q.about = request[r].about /\ request' = [request EXCEPT ![r] = q]
      BY <1>1, <2>3 DEF RequestFields
    <3>2. q # Resting
      BY <2>1, <3>1 DEF Resting
    <3> HIDE DEF q
    <3>3. QED
      BY <1>3, <2>1, <2>3, <3>1, <3>2 DEF AskedAgain, Reserve
  <2>4. QED
    BY <1>3, <2>2, <2>3 DEF Reserve
<1>4. CASE Truncated(r)
  <2>1. request[r].asked /\ request[r] # Resting
    BY <1>4 DEF Truncated, Resting
  <2>2. CASE FailRequest(r, "review")
    BY <1>2, <1>4, <2>1, <2>2 DEF Truncated
  <2>3. CASE /\ request[r].limit = 1 /\ request' = [request EXCEPT ![r].limit = 2, ![r].asked = FALSE]
             /\ UNCHANGED <<coveragePc, raised>>
    <3> DEFINE q == [request[r] EXCEPT !.limit = 2, !.asked = FALSE]
    <3>1. DOMAIN q = RequestFields /\ q.about = request[r].about /\ q.limit = 2 /\ request' = [request EXCEPT ![r] = q]
      BY <1>1, <2>3 DEF RequestFields
    <3> HIDE DEF q
    <3>2. q # Resting
      BY <3>1 DEF Resting
    <3>3. QED
      BY <1>4, <2>1, <2>3, <3>1, <3>2 DEF AskedAgain, Truncated
  <2>4. QED
    BY <1>4, <2>2, <2>3 DEF Truncated
<1>5. CASE Lost(r)
  <2>1. request[r].asked /\ request[r] # Resting
    BY <1>5 DEF Lost, Resting
  <2>2. QED
    BY <1>2, <1>5, <2>1 DEF Lost
<1>6. CASE Unusable(r)
  <2>1. request[r].asked /\ request[r] # Resting
    BY <1>6 DEF Unusable, Resting
  <2>2. CASE FailRequest(r, "review")
    BY <1>2, <1>6, <2>1, <2>2 DEF Unusable
  <2>3. CASE /\ request' = [request EXCEPT ![r] = [AskAbout(r, request[r].about) EXCEPT !.attempt = 2]]
             /\ UNCHANGED <<coveragePc, raised>>
    <3> DEFINE q == [AskAbout(r, request[r].about) EXCEPT !.attempt = 2]
    <3>1. DOMAIN q = RequestFields /\ q.about = request[r].about /\ q.attempt = 2
      BY DEF AskAbout, Resting, RequestFields
    <3>2. q # Resting /\ request' = [request EXCEPT ![r] = q]
      BY <2>3, <3>1 DEF Resting
    <3> HIDE DEF q
    <3>3. QED
      BY <1>6, <2>1, <2>3, <3>1, <3>2 DEF AskedAgain, Unusable
  <2>4. QED
    BY <1>6, <2>2, <2>3 DEF Unusable, CorrectOnce
<1>7. QED
  BY <1>3, <1>4, <1>5, <1>6

\* A request alone decides nothing: the invariant is kept.
LEMMA RequestsKeep ==
  ASSUME CoverageInv, NEW r \in Requesters, Reserve(r) \/ Truncated(r) \/ Lost(r) \/ Unusable(r)
  PROVE  CoverageInv'
<1>1. /\ Failed(r) \/ AskedAgain(r)
      /\ request[r] # Resting
      /\ UNCHANGED <<serial, topics, decided, omissions, queue, cancelled, proposed, reduction>>
  BY RequestStep
<1>2. /\ DOMAIN request = Requesters /\ \A q \in Requesters : DOMAIN request[q] = RequestFields
      /\ Caller \in Requesters /\ DeltaWorkers \subseteq Requesters
  BY DEF CoverageInv, Requesters
<1>3. CASE Failed(r)
  <2>1. /\ DOMAIN request' = Requesters /\ request'[r] = Resting
        /\ \A q \in Requesters : DOMAIN request'[q] = RequestFields
        /\ \A q \in Requesters : request'[q] # Resting => request'[q].about # {}
    BY <1>2, <1>3 DEF Failed, Resting, RequestFields, CoverageInv
  <2>2. CASE r = Caller
    <3>1. coveragePc \in {"reducing", "merging"} /\ coveragePc' \in {"withdrawn", "unresolved"} /\ request'[Caller] = Resting
      BY <1>1, <1>3, <2>1, <2>2 DEF Failed, CoverageInv
    <3>2. \A w \in DeltaWorkers : request'[w] = Resting
      BY <1>2, <1>3, <2>2, <3>1, CoverageAssumption DEF Failed, CoverageInv
    <3>3. QED
      BY <1>1, <2>1, <3>1, <3>2 DEF CoverageInv, LedgerMatchesTopics, AcceptedObservationsKept
  <2>3. CASE r # Caller
    <3>1. coveragePc' = coveragePc /\ raised' # {} /\ request'[Caller] = request[Caller]
      BY <1>2, <1>3, <2>3 DEF Failed
    <3>2. \A w \in DeltaWorkers : request'[w] # Resting => coveragePc' = "deltas"
      BY <1>2, <1>3, <3>1 DEF Failed, CoverageInv
    <3>3. QED
      BY <1>1, <2>1, <3>1, <3>2 DEF CoverageInv, LedgerMatchesTopics, AcceptedObservationsKept,
         StillHeld, Waiting, IncludedSeries, Selected
  <2>4. QED
    BY <2>2, <2>3
<1>4. CASE AskedAgain(r)
  <2>1. PICK q : /\ request' = [request EXCEPT ![r] = q] /\ DOMAIN q = RequestFields
                 /\ q # Resting /\ q.about = request[r].about
    BY <1>4 DEF AskedAgain
  <2>2. /\ DOMAIN request' = Requesters
        /\ \A u \in Requesters : /\ DOMAIN request'[u] = RequestFields /\ request'[u].about = request[u].about
                                 /\ request'[u] = Resting <=> request[u] = Resting
    BY <1>1, <1>2, <2>1
  <2>3. UNCHANGED <<coveragePc, raised>>
    BY <1>4 DEF AskedAgain
  <2>4. Accounted => Accounted'
    BY <1>1, <1>2, <2>2 DEF Accounted
  <2>5. QED
    BY <1>1, <1>2, <2>2, <2>3, <2>4 DEF CoverageInv, LedgerMatchesTopics,
       AcceptedObservationsKept, StillHeld, Waiting, IncludedSeries, Selected
<1>5. QED
  BY <1>1, <1>3, <1>4

-----------------------------------------------------------------------------
\* Decisions that are complete, and agree with what they commit, may be committed.
LEMMA CommitKeeps ==
  ASSUME CoverageInv, NEW chosen, NEW decisions, NEW omitted, Commit(chosen, decisions, omitted),
         \A s \in Candidates : decisions[s] # "none" /\ (decisions[s] = "include" => Represented(s, chosen)),
         \A s \in Original : Points[s] \subseteq Selected(chosen),
         coveragePc \notin {"small", "complete"}
  PROVE  LedgerMatchesTopics' /\ AcceptedObservationsKept' /\ coveragePc' \in {"complete", "unresolved"}
<1>1. CASE /\ coveragePc' = "complete" /\ topics' = chosen
           /\ decided' = Finalized(decisions, chosen) /\ omissions' = omitted \ chosen
  <2>1. \A s \in Candidates : /\ decided'[s] = (IF Represented(s, chosen) THEN "include" ELSE decisions[s])
    BY <1>1 DEF Finalized, Covered
  <2>2. \A s \in Candidates : Represented(s, topics)' <=> Represented(s, chosen)
    BY <1>1 DEF Represented, Selected
  <2>3. LedgerMatchesTopics'
    BY <2>1, <2>2 DEF LedgerMatchesTopics
  <2>4. AcceptedObservationsKept'
    BY <1>1 DEF AcceptedObservationsKept, Selected
  <2>5. QED
    BY <1>1, <2>3, <2>4
<1>2. CASE coveragePc' = "unresolved" /\ UNCHANGED <<topics, decided, omissions>>
  BY <1>2 DEF CoverageInv, LedgerMatchesTopics, AcceptedObservationsKept, Selected
<1>3. QED
  BY <1>1, <1>2 DEF Commit

\* The original topics hold their own observations.
LEMMA OriginalKept ==
  ASSUME CoverageInv, coveragePc \notin {"small", "complete"}
  PROVE  topics = Original /\ \A s \in Original : Points[s] \subseteq Selected(topics)
  BY DEF CoverageInv, AcceptedObservationsKept, Selected

LEMMA MergedDecisions ==
  ASSUME NEW answer, MergeableReply(answer), \A s \in Candidates : decided[s] # "none", IncludedSeries \subseteq proposed
  PROVE  /\ \A s \in Candidates : /\ Merged(answer)[s] # "none"
                                  /\ Merged(answer)[s] = "include" => Represented(s, answer.topics)
         /\ \A s \in Original : Points[s] \subseteq Selected(answer.topics)
<1>1. ASSUME NEW s \in Candidates
      PROVE  Merged(answer)[s] # "none" /\ (Merged(answer)[s] = "include" => Represented(s, answer.topics))
  <2>1. Merged(answer)[s] = (IF s \notin proposed THEN decided[s] ELSE IF s \in answer.include THEN "include" ELSE "omit")
    BY DEF Merged
  <2>2. s \notin proposed => decided[s] # "include"
    BY DEF IncludedSeries
  <2>3. s \in answer.include => Represented(s, answer.topics)
    BY DEF MergeableReply
  <2>4. QED
    BY <2>1, <2>2, <2>3
<1>2. QED
  BY <1>1 DEF MergeableReply, KeepsOriginal

LEMMA DecidedLedger ==
  ASSUME NEW r, NEW include, DecidedIn(r, include)
  PROVE  \A s \in Candidates : decided'[s] = (IF s \notin request[r].about THEN decided[s]
                                             ELSE IF s \in include THEN "include" ELSE "omit")
  BY DEF DecidedIn

-----------------------------------------------------------------------------
\* The requests, and the conjuncts a step of the caller leaves.
Steady ==
  /\ DOMAIN request' = Requesters
  /\ \A r \in Requesters : DOMAIN request'[r] = RequestFields /\ (request'[r] # Resting => request'[r].about # {})

LEMMA CallerSteady ==
  ASSUME CoverageInv,
         \/ UNCHANGED request
         \/ \E r \in Requesters : \E set : request' = [request EXCEPT ![r] = AskAbout(r, set)]
         \/ \E r \in Requesters : request' = [request EXCEPT ![r] = Resting]
  PROVE  Steady
<1>1. \A r, set : DOMAIN AskAbout(r, set) = RequestFields /\ (AskAbout(r, set) # Resting => AskAbout(r, set).about # {})
  BY DEF AskAbout, Resting, RequestFields
<1>2. DOMAIN Resting = RequestFields
  BY DEF Resting, RequestFields
<1> USE DEF CoverageInv, Steady
<1>3. CASE UNCHANGED request
  BY <1>3
<1>4. CASE \E r \in Requesters : \E set : request' = [request EXCEPT ![r] = AskAbout(r, set)]
  <2>1. PICK r \in Requesters : \E set : request' = [request EXCEPT ![r] = AskAbout(r, set)]
    BY <1>4
  <2>2. PICK set : request' = [request EXCEPT ![r] = AskAbout(r, set)]
    BY <2>1
  <2> DEFINE q == AskAbout(r, set)
  <2>3. request' = [request EXCEPT ![r] = q] /\ DOMAIN q = RequestFields /\ (q # Resting => q.about # {})
    BY <1>1, <2>2
  <2> HIDE DEF q
  <2>4. /\ DOMAIN request = Requesters
        /\ \A u \in Requesters : DOMAIN request[u] = RequestFields /\ (request[u] # Resting => request[u].about # {})
    OBVIOUS
  <2>5. DOMAIN request' = Requesters /\ \A u \in Requesters : request'[u] = (IF u = r THEN q ELSE request[u])
    BY <2>3, <2>4
  <2>6. QED
    BY <2>3, <2>4, <2>5
<1>5. CASE \E r \in Requesters : request' = [request EXCEPT ![r] = Resting]
  BY <1>2, <1>5
<1>6. QED
  BY <1>3, <1>4, <1>5

LEMMA StartsKeep ==
  ASSUME CoverageInv, ReviewAtOnce \/ BeginDeltas
  PROVE  CoverageInv'
<1>0. topics = Original /\ Steady /\ request[Caller] = Resting /\ UNCHANGED request
  BY OriginalKept, CallerSteady DEF ReviewAtOnce, BeginDeltas, CoverageInv
<1>1. CASE ReviewAtOnce
  <2>1. CASE coveragePc' = "unresolved" /\ UNCHANGED <<topics, decided, omissions>>
    BY <1>0, <1>1, <2>1 DEF ReviewAtOnce, CoverageInv, Steady, LedgerMatchesTopics,
       AcceptedObservationsKept, Selected
  <2>2. CASE \E chosen \in SUBSET Series : \E omitted \in SUBSET (Original \ chosen) :
               /\ \A s \in Original \ chosen : Points[s] \subseteq Selected(chosen) \/ s \in omitted
               /\ coveragePc' = "small" /\ topics' = chosen /\ omissions' = omitted
               /\ decided' = Finalized([s \in Candidates |-> "omit"], chosen)
    <3>0. PICK chosen \in SUBSET Series : \E omitted \in SUBSET (Original \ chosen) :
               /\ \A s \in Original \ chosen : Points[s] \subseteq Selected(chosen) \/ s \in omitted
               /\ coveragePc' = "small" /\ topics' = chosen /\ omissions' = omitted
               /\ decided' = Finalized([s \in Candidates |-> "omit"], chosen)
      BY <2>2
    <3>1. PICK omitted \in SUBSET (Original \ chosen) :
               /\ \A s \in Original \ chosen : Points[s] \subseteq Selected(chosen) \/ s \in omitted
               /\ coveragePc' = "small" /\ topics' = chosen /\ omissions' = omitted
               /\ decided' = Finalized([s \in Candidates |-> "omit"], chosen)
      BY <3>0
    <3>2. \A s \in Candidates : decided'[s] = (IF Represented(s, chosen) THEN "include" ELSE "omit")
      BY <3>1 DEF Finalized, Covered
    <3>3. \A s \in Candidates : Represented(s, topics)' <=> Represented(s, chosen)
      BY <3>1 DEF Represented, Selected
    <3>4. LedgerMatchesTopics'
      BY <3>2, <3>3 DEF LedgerMatchesTopics
    <3>5. \A s \in Original : Points[s] \subseteq Selected(chosen) \/ s \in omitted
      BY <3>1 DEF Selected
    <3>6. AcceptedObservationsKept'
      BY <3>1, <3>5 DEF AcceptedObservationsKept, Selected
    <3>7. UNCHANGED <<request, raised, reduction, proposed>> /\ \A w \in DeltaWorkers : request[w] = Resting
      BY <1>1 DEF ReviewAtOnce, CoverageInv
    <3>8. QED
      BY <1>0, <3>1, <3>4, <3>6, <3>7 DEF CoverageInv, Steady
  <2>3. QED
    BY <1>1, <2>1, <2>2 DEF ReviewAtOnce
<1>2. CASE BeginDeltas
  <2>1. UNCHANGED <<serial, omissions, topics, decided, request, raised, proposed, reduction>> /\ coveragePc = "idle"
    BY <1>2 DEF BeginDeltas
  <2>2. coveragePc' = "deltas" => Accounted'
    <3> SUFFICES ASSUME coveragePc' = "deltas" PROVE \A s \in Candidates : s \in UNION queue'
      BY DEF Accounted
    <3>1. queue' \in Partitions
      BY <1>2 DEF BeginDeltas
    <3>2. QED
      BY <3>1 DEF Partitions
  <2>3. coveragePc' \in {"deltas", "unresolved"}
    BY <1>2 DEF BeginDeltas
  <2>4. LedgerMatchesTopics' /\ AcceptedObservationsKept'
    BY <2>1, <2>3 DEF CoverageInv, LedgerMatchesTopics, AcceptedObservationsKept, Selected
  <2>5. QED
    BY <1>0, <2>1, <2>2, <2>3, <2>4 DEF CoverageInv, Steady
<1>3. QED
  BY <1>1, <1>2

LEMMA DeltasKeep ==
  ASSUME CoverageInv, \/ \E w \in DeltaWorkers : Take(w) \/ Deliver(w)
                      \/ Observe \/ Abort
  PROVE  CoverageInv'
<1>0. /\ UNCHANGED <<topics, omissions, reduction, proposed>> /\ Caller \notin DeltaWorkers
      /\ DeltaWorkers \subseteq Requesters /\ Caller \in Requesters
  BY CoverageAssumption DEF Take, Deliver, Observe, Abort, Requesters
<1>1. CASE \E w \in DeltaWorkers : Take(w)
  <2>1. PICK w \in DeltaWorkers, b \in queue :
          /\ coveragePc = "deltas" /\ request[w].about = {} /\ UNCHANGED <<coveragePc, decided, raised>>
          /\ queue' = queue \ {b} /\ request' = [request EXCEPT ![w] = AskAbout(w, b)]
    BY <1>1 DEF Take
  <2>2. Steady /\ request'[Caller] = request[Caller]
    BY <1>0, <2>1, CallerSteady DEF CoverageInv
  <2>3. /\ request'[w].about = b
        /\ \A v \in DeltaWorkers : v # w => request'[v] = request[v]
    BY <1>0, <2>1 DEF CoverageInv, AskAbout, Resting
  <2>4. Accounted => Accounted'
    BY <2>1, <2>3 DEF Accounted
  <2>5. LedgerMatchesTopics' /\ AcceptedObservationsKept'
    BY <1>0, <2>1 DEF CoverageInv, LedgerMatchesTopics, AcceptedObservationsKept, Selected
  <2>6. QED
    BY <1>0, <2>1, <2>2, <2>4, <2>5 DEF CoverageInv, Steady
<1>2. CASE \E w \in DeltaWorkers : Deliver(w)
  <2>0. PICK w \in DeltaWorkers : Deliver(w)
    BY <1>2
  <2>1. PICK include : /\ DecidedIn(w, include) /\ request[w].asked
                       /\ request' = [request EXCEPT ![w] = Resting] /\ UNCHANGED <<coveragePc, queue, raised>>
    BY <2>0 DEF Deliver
  <2>2. Steady /\ request'[Caller] = request[Caller]
    BY <1>0, <2>1, CallerSteady DEF CoverageInv
  <2>3. \A v \in DeltaWorkers : v # w => request'[v] = request[v]
    BY <1>0, <2>1 DEF CoverageInv
  <2>4. \A s \in Candidates : decided'[s] = (IF s \notin request[w].about THEN decided[s]
                                            ELSE IF s \in include THEN "include" ELSE "omit")
    BY <2>1, DecidedLedger
  <2>5. Accounted => Accounted'
    BY <2>1, <2>3, <2>4 DEF Accounted
  <2>6. coveragePc = "deltas"
    BY <2>1 DEF CoverageInv, Resting
  <2>7. LedgerMatchesTopics' /\ AcceptedObservationsKept'
    BY <1>0, <2>1, <2>6 DEF CoverageInv, LedgerMatchesTopics, AcceptedObservationsKept, Selected
  <2>8. QED
    BY <1>0, <2>1, <2>2, <2>5, <2>6, <2>7 DEF CoverageInv, Steady
<1>3. CASE Observe
  <2>1. /\ coveragePc = "deltas" /\ UNCHANGED <<coveragePc, decided, request>> /\ queue' = {} /\ raised' # {}
    BY <1>3 DEF Observe
  <2>2. LedgerMatchesTopics' /\ AcceptedObservationsKept'
    BY <1>0, <2>1 DEF CoverageInv, LedgerMatchesTopics, AcceptedObservationsKept, Selected
  <2>3. QED
    BY <1>0, <2>1, <2>2 DEF CoverageInv
<1>4. CASE Abort
  <2>1. /\ coveragePc = "deltas" /\ DeltasDrained /\ coveragePc' \in {"withdrawn", "unresolved"}
        /\ UNCHANGED <<decided, request, queue>>
    BY <1>4 DEF Abort
  <2>2. \A w \in DeltaWorkers : request[w] = Resting
    BY <1>0, <2>1 DEF DeltasDrained, CoverageInv
  <2>3. LedgerMatchesTopics' /\ AcceptedObservationsKept'
    BY <1>0, <2>1 DEF CoverageInv, LedgerMatchesTopics, AcceptedObservationsKept, Selected
  <2>4. QED
    BY <1>0, <2>1, <2>2, <2>3 DEF CoverageInv
<1>5. QED
  BY <1>1, <1>2, <1>3, <1>4

LEMMA JoinKeeps == ASSUME CoverageInv, JoinDeltas PROVE CoverageInv'
<1>1. /\ coveragePc = "deltas" /\ queue = {} /\ raised = {} /\ DeltasDrained /\ proposed' = IncludedSeries
      /\ UNCHANGED <<queue, raised>>
  BY DEF JoinDeltas
<1>2. /\ \A w \in DeltaWorkers : request[w] = Resting
      /\ request[Caller] = Resting
  BY <1>1 DEF DeltasDrained, CoverageInv, Requesters
<1>3. \A s \in Candidates : decided[s] # "none"
  BY <1>1 DEF CoverageInv, Accounted, DeltasDrained
<1>4. CASE IncludedSeries = {} /\ Commit(topics, decided, omissions) /\ UNCHANGED <<request, reduction>>
  <2>1. \A s \in Candidates : decided[s] # "include"
    BY <1>4 DEF IncludedSeries
  <2>2. \A s \in Original : Points[s] \subseteq Selected(topics)
    BY <1>1, OriginalKept
  <2>3. LedgerMatchesTopics' /\ AcceptedObservationsKept' /\ coveragePc' \in {"complete", "unresolved"}
    BY <1>1, <1>3, <1>4, <2>1, <2>2, CommitKeeps
  <2>4. QED
    BY <1>1, <1>2, <1>4, <2>3 DEF CoverageInv
<1>5. CASE /\ coveragePc' = "reducing" /\ UNCHANGED <<topics, decided, omissions, request>>
           /\ reduction' = [level |-> 0, kept |-> {}, rest |-> {}, entered |-> IncludedSeries]
  <2>1. LedgerMatchesTopics' /\ AcceptedObservationsKept'
    BY <1>1, <1>5 DEF CoverageInv, LedgerMatchesTopics, AcceptedObservationsKept, Selected
  <2>2. StillHeld' = IncludedSeries /\ IncludedSeries' = IncludedSeries /\ DOMAIN reduction' = ReductionFields
    BY <1>5 DEF StillHeld, IncludedSeries, ReductionFields
  <2>3. QED
    BY <1>1, <1>2, <1>3, <1>5, <2>1, <2>2 DEF CoverageInv
<1>6. QED
  BY <1>4, <1>5 DEF JoinDeltas

LEMMA ReductionKeeps ==
  ASSUME CoverageInv, StartMerge \/ StartLevel \/ ReduceGroup \/ Reduced
  PROVE  CoverageInv'
<1>0. /\ coveragePc = "reducing" /\ UNCHANGED <<topics, omissions, queue, raised>>
      /\ Caller \in Requesters /\ DeltaWorkers \subseteq Requesters /\ Caller \notin DeltaWorkers
      /\ \A w \in DeltaWorkers : request[w] = Resting
  <2>1. coveragePc = "reducing" /\ UNCHANGED <<topics, omissions, queue, raised>>
    BY Zenon DEF StartMerge, StartLevel, ReduceGroup, Reduced
  <2>2. QED
    BY <2>1, CoverageAssumption DEF Requesters, CoverageInv
<1>1. CASE StartMerge
  <2>1. /\ UNCHANGED <<decided, reduction>>
        /\ proposed' = (IF reduction.rest = {} THEN reduction.entered ELSE Waiting)
        /\ \/ coveragePc' = "unresolved" /\ UNCHANGED request
           \/ \E set : coveragePc' = "merging" /\ request' = [request EXCEPT ![Caller] = AskAbout(Caller, set)]
    BY <1>1 DEF StartMerge
  <2>2. IncludedSeries' = IncludedSeries /\ IncludedSeries \subseteq proposed'
    BY <1>0, <2>1 DEF CoverageInv, StillHeld, IncludedSeries
  <2>3. Steady /\ \A w \in DeltaWorkers : request'[w] = Resting
    BY <1>0, <2>1, CallerSteady DEF CoverageInv
  <2>4. coveragePc' = "unresolved" => request'[Caller] = Resting
    <3>1. request[Caller].about = {}
      BY <1>1 DEF StartMerge
    <3>2. request[Caller] = Resting
      BY <1>0, <3>1 DEF CoverageInv
    <3>3. QED
      BY <2>1, <3>2
  <2>5. LedgerMatchesTopics' /\ AcceptedObservationsKept'
    BY <1>0, <2>1 DEF CoverageInv, LedgerMatchesTopics, AcceptedObservationsKept, Selected
  <2>6. QED
    BY <1>0, <2>1, <2>2, <2>3, <2>4, <2>5 DEF CoverageInv, Steady
<1>2. CASE StartLevel
  <2>1. /\ UNCHANGED <<decided, request, proposed>> /\ reduction.rest = {} /\ request[Caller].about = {}
        /\ \/ coveragePc' = "unresolved" /\ UNCHANGED reduction
           \/ /\ coveragePc' = coveragePc
              /\ reduction' = [level |-> reduction.level + 1, kept |-> {},
                               rest |-> reduction.entered, entered |-> reduction.entered]
    BY <1>2 DEF StartLevel
  <2>2. request[Caller] = Resting
    BY <1>0, <2>1 DEF CoverageInv
  <2>3. DOMAIN reduction' = ReductionFields
    BY <2>1 DEF CoverageInv, ReductionFields
  <2>4. coveragePc' = coveragePc => StillHeld' = StillHeld
    BY <1>0, <2>1 DEF StillHeld, Waiting
  <2>5. LedgerMatchesTopics' /\ AcceptedObservationsKept' /\ IncludedSeries' = IncludedSeries
    BY <1>0, <2>1 DEF CoverageInv, LedgerMatchesTopics, AcceptedObservationsKept, Selected,
       IncludedSeries
  <2>6. QED
    BY <1>0, <2>1, <2>2, <2>3, <2>4, <2>5 DEF CoverageInv
<1>3. CASE ReduceGroup
  <2>1. /\ UNCHANGED <<coveragePc, decided, proposed, reduction>> /\ reduction.rest # {}
        /\ \E set : request' = [request EXCEPT ![Caller] = AskAbout(Caller, set)]
    BY <1>3 DEF ReduceGroup
  <2>2. Steady /\ \A w \in DeltaWorkers : request'[w] = Resting
    BY <1>0, <2>1, CallerSteady DEF CoverageInv
  <2>3. LedgerMatchesTopics' /\ AcceptedObservationsKept' /\ IncludedSeries' = IncludedSeries /\ StillHeld' = StillHeld
    BY <1>0, <2>1 DEF CoverageInv, LedgerMatchesTopics, AcceptedObservationsKept, Selected,
       IncludedSeries, StillHeld, Waiting
  <2>4. QED
    BY <1>0, <2>1, <2>2, <2>3 DEF CoverageInv, Steady
<1>4. CASE Reduced
  <2> DEFINE group == request[Caller].about
             rest  == reduction.rest \ group
  <2>1. PICK include \in SUBSET group :
          /\ DecidedIn(Caller, include) /\ request' = [request EXCEPT ![Caller] = Resting]
          /\ UNCHANGED proposed
          /\ \/ coveragePc' = "unresolved" /\ UNCHANGED reduction
             \/ /\ coveragePc' = coveragePc
                /\ reduction' = [reduction EXCEPT !.kept = reduction.kept \cup include, !.rest = rest,
                                   !.entered = IF rest = {} THEN reduction.kept \cup include ELSE reduction.entered]
    <3>1. PICK include \in SUBSET group :
            /\ DecidedIn(Caller, include)
            /\ IF rest = {} /\ reduction.kept \cup include = reduction.entered
               THEN coveragePc' = "unresolved" /\ UNCHANGED reduction
               ELSE /\ reduction' = [reduction EXCEPT !.kept = reduction.kept \cup include, !.rest = rest,
                                      !.entered = IF rest = {} THEN reduction.kept \cup include ELSE reduction.entered]
                    /\ UNCHANGED coveragePc
      BY <1>4, Zenon DEF Reduced
    <3>2. request' = [request EXCEPT ![Caller] = Resting] /\ UNCHANGED proposed
      BY <1>4, Zenon DEF Reduced
    <3>3. QED
      BY <3>1, <3>2, Zenon
  <2>2. request[Caller] # Resting
    <3>1. request[Caller].asked
      BY <1>4, Zenon DEF Reduced
    <3>2. QED
      BY <3>1 DEF Resting
  <2>3. reduction.rest # {}
    BY <1>0, <2>2 DEF CoverageInv
  <2>4. Steady /\ request'[Caller] = Resting /\ \A w \in DeltaWorkers : request'[w] = Resting
    BY <1>0, <2>1, CallerSteady DEF CoverageInv
  <2>5. \A s \in Candidates : decided'[s] = (IF s \notin group THEN decided[s]
                                            ELSE IF s \in include THEN "include" ELSE "omit")
    BY <2>1, DecidedLedger
  <2>6. (\A s \in Candidates : decided'[s] # "none") /\ IncludedSeries' \subseteq (IncludedSeries \ group) \cup include
    BY <1>0, <2>5 DEF CoverageInv, IncludedSeries
  <2>7. IncludedSeries \subseteq reduction.kept \cup reduction.rest
    BY <1>0, <2>3 DEF CoverageInv, StillHeld, Waiting
  <2>8. DOMAIN reduction' = ReductionFields /\ (coveragePc' = coveragePc => IncludedSeries' \subseteq StillHeld')
    <3> HIDE DEF rest, group
    <3>1. CASE coveragePc' = "unresolved" /\ UNCHANGED reduction
      BY <1>0, <3>1 DEF CoverageInv
    <3>2. CASE reduction' = [reduction EXCEPT !.kept = reduction.kept \cup include, !.rest = rest,
                               !.entered = IF rest = {} THEN reduction.kept \cup include ELSE reduction.entered]
      <4>1. /\ DOMAIN reduction' = ReductionFields /\ reduction'.kept = reduction.kept \cup include /\ reduction'.rest = rest
            /\ reduction'.entered = (IF rest = {} THEN reduction.kept \cup include ELSE reduction.entered)
        BY <3>2 DEF CoverageInv, ReductionFields
      <4>2. IncludedSeries' \subseteq (reduction.kept \cup include) \cup rest
        BY <2>6, <2>7 DEF rest
      <4>3. QED
        BY <4>1, <4>2 DEF StillHeld, Waiting
    <3>3. QED
      BY <2>1, <3>1, <3>2
  <2>9. LedgerMatchesTopics' /\ AcceptedObservationsKept'
    BY <1>0, <2>1 DEF CoverageInv, LedgerMatchesTopics, AcceptedObservationsKept, Selected
  <2> HIDE DEF rest, group
  <2>10. coveragePc' \in {"unresolved", "reducing"}
    BY <1>0, <2>1
  <2>11. QED
    BY <1>0, <2>4, <2>6, <2>8, <2>9, <2>10 DEF CoverageInv, Steady
<1>5. QED
  BY <1>1, <1>2, <1>3, <1>4

LEMMA MergeKeeps == ASSUME CoverageInv, Merge PROVE CoverageInv'
<1>0. /\ coveragePc = "merging" /\ UNCHANGED <<queue, proposed, reduction>> /\ request[Caller] # Resting
      /\ Caller \in Requesters /\ DeltaWorkers \subseteq Requesters /\ Caller \notin DeltaWorkers
      /\ \A w \in DeltaWorkers : request[w] = Resting
      /\ \A s \in Candidates : decided[s] # "none"
      /\ IncludedSeries \subseteq proposed
  BY CoverageAssumption DEF Merge, Requesters, CoverageInv, Resting
<1>1. \/ \E answer : /\ MergeableReply(answer)
                     /\ \E omitted : Commit(answer.topics, Merged(answer), omitted)
                     /\ request' = [request EXCEPT ![Caller] = Resting] /\ UNCHANGED raised
      \/ CorrectOnce(Caller) /\ UNCHANGED <<topics, decided, omissions>>
  <2>1. PICK answer : \/ /\ MergeableReply(answer) /\ Commit(answer.topics, Merged(answer), answer.omitted)
                         /\ request' = [request EXCEPT ![Caller] = Resting] /\ UNCHANGED raised
                      \/ CorrectOnce(Caller) /\ UNCHANGED <<topics, decided, omissions>>
    BY DEF Merge
  <2>2. QED
    BY <2>1
<1>2. CASE \E answer : /\ MergeableReply(answer)
                       /\ \E omitted : Commit(answer.topics, Merged(answer), omitted)
                       /\ request' = [request EXCEPT ![Caller] = Resting] /\ UNCHANGED raised
  <2>1. PICK answer : /\ MergeableReply(answer) /\ (\E omitted : Commit(answer.topics, Merged(answer), omitted))
                      /\ request' = [request EXCEPT ![Caller] = Resting] /\ UNCHANGED raised
    BY <1>2
  <2>2. PICK omitted : Commit(answer.topics, Merged(answer), omitted)
    BY <2>1
  <2>3. LedgerMatchesTopics' /\ AcceptedObservationsKept' /\ coveragePc' \in {"complete", "unresolved"}
    BY <1>0, <2>1, <2>2, MergedDecisions, CommitKeeps
  <2>4. Steady /\ request'[Caller] = Resting /\ \A w \in DeltaWorkers : request'[w] = Resting
    BY <1>0, <2>1, CallerSteady DEF CoverageInv
  <2>5. QED
    BY <1>0, <2>3, <2>4 DEF CoverageInv, Steady
<1>3. CASE CorrectOnce(Caller) /\ UNCHANGED <<topics, decided, omissions>>
  <2>1. CASE FailRequest(Caller, "review")
    <3>1. coveragePc' = "unresolved" /\ request' = [request EXCEPT ![Caller] = Resting]
      BY <2>1 DEF FailRequest
    <3>2. Steady /\ request'[Caller] = Resting /\ \A w \in DeltaWorkers : request'[w] = Resting
      BY <1>0, <3>1, CallerSteady DEF CoverageInv
    <3>3. QED
      BY <1>0, <1>3, <3>1, <3>2 DEF CoverageInv, Steady, LedgerMatchesTopics,
         AcceptedObservationsKept, Selected
  <2>2. CASE /\ request' = [request EXCEPT
                              ![Caller] = [AskAbout(Caller, request[Caller].about) EXCEPT !.attempt = 2]]
             /\ UNCHANGED <<coveragePc, raised>>
    <3>1. PICK q : request' = [request EXCEPT ![Caller] = q] /\ DOMAIN q = RequestFields /\ q.about = request[Caller].about
      <4>1. DOMAIN [AskAbout(Caller, request[Caller].about) EXCEPT !.attempt = 2] = RequestFields
            /\ [AskAbout(Caller, request[Caller].about) EXCEPT !.attempt = 2].about = request[Caller].about
        BY DEF AskAbout, Resting, RequestFields
      <4>2. QED
        BY <2>2, <4>1
    <3>2. Steady /\ \A w \in DeltaWorkers : request'[w] = Resting
      BY <1>0, <3>1 DEF CoverageInv, Steady
    <3>3. QED
      BY <1>0, <1>3, <2>2, <3>2 DEF CoverageInv, Steady, LedgerMatchesTopics,
         AcceptedObservationsKept, Selected, IncludedSeries
  <2>3. QED
    BY <1>3, <2>1, <2>2 DEF CorrectOnce
<1>4. QED
  BY <1>1, <1>2, <1>3

LEMMA ReplayKeeps == ASSUME CoverageInv, Replay PROVE CoverageInv'
<1>1. /\ coveragePc = "unresolved" /\ (\A s \in Candidates : decided[s] # "none") /\ proposed = IncludedSeries
      /\ MergeableReply(reply) /\ Commit(reply.topics, Merged(reply), reply.omitted)
      /\ UNCHANGED <<queue, request, raised, proposed, reduction>>
  BY DEF Replay
<1>2. LedgerMatchesTopics' /\ AcceptedObservationsKept' /\ coveragePc' \in {"complete", "unresolved"}
  BY <1>1, MergedDecisions, CommitKeeps
<1>3. QED
  BY <1>1, <1>2 DEF CoverageInv

LEMMA CoverageStep == CoverageInv /\ [CoverageNext]_coverageVars => CoverageInv'
<1> SUFFICES ASSUME CoverageInv, [CoverageNext]_coverageVars PROVE CoverageInv'
  OBVIOUS
<1>1. CASE UNCHANGED coverageVars
  BY <1>1 DEF coverageVars, CoverageInv, LedgerMatchesTopics, AcceptedObservationsKept,
     Selected, IncludedSeries, StillHeld, Waiting, Accounted, Represented
<1>2. CASE CoverageNext
  BY <1>2, StartsKeep, DeltasKeep, JoinKeeps, ReductionKeeps, MergeKeeps, ReplayKeeps,
     RequestsKeep DEF CoverageNext
<1>3. QED
  BY <1>1, <1>2

(* The coverage ledger holds the decisions of exactly what the topics hold.    *)
THEOREM LedgerSettled == CoverageSpec => []LedgerMatchesTopics
<1>1. CoverageInv => LedgerMatchesTopics
  BY DEF CoverageInv
<1>2. QED
  BY <1>1, CoverageStart, CoverageStep, PTL DEF CoverageSpec

(* No synthesis, merge or resumption drops an observation that was accepted.   *)
THEOREM ObservationsKept == CoverageSpec => []AcceptedObservationsKept
<1>1. CoverageInv => AcceptedObservationsKept
  BY DEF CoverageInv
<1>2. QED
  BY <1>1, CoverageStart, CoverageStep, PTL DEF CoverageSpec

-----------------------------------------------------------------------------
(* What is published, kept and covered *)

\* What is published was accepted in exactly this form.
THEOREM PublishedReviewed == SelectionSpec /\ DraftingSpec /\ BriefingSpec => []PublishedAsReviewed
<1>1. AcceptedAsReviewed /\ PublishedCopyAccepted /\ PublishedBriefReviewed => PublishedAsReviewed
  BY DEF PublishedAsReviewed
<1>2. QED
  BY <1>1, SelectionReviewed, PublishedAccepted, BriefingReviewed, PTL

\* Corrections and verdicts answer to their reviews.
THEOREM ReviewsBinding == SelectionSpec /\ BriefSpec => ReviewsBind
  BY FoundMeaningsChange, ReviewedByBoth DEF ReviewsBind

\* The ledger and the accepted observations stand.
THEOREM CoverageStands == CoverageSpec => []CoverageSettled
<1>1. LedgerMatchesTopics /\ AcceptedObservationsKept => CoverageSettled
  BY DEF CoverageSettled
<1>2. QED
  BY <1>1, LedgerSettled, ObservationsKept, PTL

\* What is to be read is read, once, within its budget.
THEOREM ReadingChecked == ScopeSpec /\ ChunksSpec /\ PoolSpec => []ReadingAccounted
<1>1. (RouteFits /\ PagesReadOnce /\ CallsBounded)
      /\ (ProfileWhole /\ CutOffNotRepeated)
      /\ (BatchesAccounted /\ OwnBatchDecides /\ CauseRaised)
      => ReadingAccounted
  BY DEF ReadingAccounted
<1>2. QED
  BY <1>1, ScopeHolds, ChunksWhole, PoolsHold, PTL

=============================================================================
