--------------------------- MODULE PublicationProofs ---------------------------
(***************************************************************************)
(* For any measures, batch size, threads and number of passes: a measure is  *)
(* approved once, a pass without a failure accounts for all of them, an      *)
(* accepted record was judged for its own sources, and no draft is judged    *)
(* twice.  What the publication gates let through was judged as it is        *)
(* published, with a briefing that knows its assurance and a deck that was   *)
(* measured as it is shown.  For any faults, styles and number of exports: a *)
(* deck that is served is the current one, and was checked.  For any copy,   *)
(* checks and runs: what it shows in another language was reviewed, and what *)
(* a review of further sources accepted is kept.                             *)
(***************************************************************************)
EXTENDS AuditBatches, AuditBatchReview, PublicationGates, ExportGates, ReportTranslation,
        SourceIntegration, BatchLemmas

(* What is published carries verdicts on exactly what is published, its deck *)
(* was measured as it is published, its briefing was written against the     *)
(* audit record it is published with, and the gates paid for at most four; a *)
(* deck that is served is the deck of the current result, approval and       *)
(* style, an approved draft is served as it was approved, its evidence was   *)
(* sound unless its draft was forced or narrowed once more while it was      *)
(* composed, and a refusal names the gate that stopped it.                   *)
PublishedAsChecked ==
  /\ PublishedVerdictsCurrent /\ PublishedDeckFits /\ BriefKnowsAssurance /\ BriefingsBounded
  /\ ServedIsCurrent /\ ApprovedServedAsApproved /\ ServedEvidenceSound /\ DiagnosisNamesCause

(* What the exported deck shows was reviewed for its language and names, and *)
(* no string is lost; a correction of the conclusions against further        *)
(* sources keeps what was accepted, never puts a rejected draft to another   *)
(* review, and ends.                                                         *)
LaterReviewsHold ==
  /\ ExportedCopyReviewed /\ StringsAccounted
  /\ AcceptedDecisionsKept /\ RejectedNotResubmitted /\ AttemptsEnd

-----------------------------------------------------------------------------
(* The audit-scope review: threads, groups and places *)

\* A thread reviews the batch it visits, and only a running pass has work.
ThreadInv ==
  /\ reviewing \in [Workers -> SUBSET Targets]
  /\ pc # "running" => Drained
  /\ pc # "unaccounted"

\* Each measure is in one place: approved, on one thread's stack, or in a group
\* of the queue, of which only what earlier passes approved is approved.
PlaceInv ==
  /\ \A w \in Workers : /\ Apart(stack[w])
                        /\ Held(stack[w]) \cap Covered(partition.approved) = {}
  /\ \A v, w \in Workers : v # w => Held(stack[v]) \cap Held(stack[w]) = {}
  /\ \A t \in Targets : Group(t) \in queue =>
       /\ \A w \in Workers : t \notin Held(stack[w])
       /\ t \in Covered(partition.approved) => t \in Covered(Ready)
  /\ \A g \in queue : Remaining(g, Ready) # {}

\* While no group has failed, no measure is lost; no two approvals overlap.
AccountInv ==
  /\ Disjoint(partition.approved)
  /\ pc = "running" /\ failures = {} =>
       \A t \in Targets : \/ t \in Covered(partition.approved) \/ Group(t) \in queue
                          \/ \E w \in Workers : t \in Held(stack[w])

\* What is on record was judged for the sources of the record or for later ones,
\* and a pass holds what it resumed.
RecordInv ==
  /\ Disjoint(saved.approved)
  /\ saved.complete => Covered(saved.approved) = Targets
  /\ saved.context <= context
  /\ \A t \in Targets : judged[t] <= context
  /\ \A t \in Covered(saved.approved) : judged[t] >= saved.context
  /\ pc = "running" =>
       /\ ~ (saved.complete /\ saved.context = context)
       /\ Ready \subseteq partition.approved
       /\ \A t \in Covered(partition.approved) : judged[t] >= context

Several(bs) == \A b \in bs : Cardinality(b) > 1

\* Only batches of several measures are ever halved.
SplitInv == Several(partition.split) /\ Several(saved.split) /\ Several(known)

IInv ==
  /\ TypeOK
  /\ ThreadInv
  /\ PlaceInv
  /\ AccountInv
  /\ RecordInv
  /\ SplitInv

-----------------------------------------------------------------------------
(* Groups and batches *)

\* The groups are numbered by naturals, and each measure has one.
LEMMA GroupNumbered ==
  /\ GroupNumbers \subseteq Nat
  /\ \A t \in Targets : Group(t) \in GroupNumbers
<1>1. ASSUME NEW t \in Targets PROVE Group(t) \in Nat
  <2>1. Rank(Targets, t) \in Nat
    <3>1. IsFiniteSet({u \in Targets : u < t})
      BY AuditAssumption, FS_Subset
    <3>2. QED
      BY <3>1, FS_CardinalityType DEF Rank
  <2>2. QED
    BY <2>1, AuditAssumption DEF Group
<1>2. QED
  BY <1>1 DEF GroupNumbers

\* A batch belongs to a group.
LEMMA OwnerNumbered ==
  ASSUME NEW b \in Batches \ {{}}
  PROVE  Owner(b) \in GroupNumbers
<1>1. (CHOOSE t \in b : TRUE) \in Targets
  BY DEF Batches
<1>2. QED
  BY <1>1, GroupNumbered DEF Owner

\* What remains of a group are measures of that group without an approval.
LEMMA RemainingOfGroup ==
  ASSUME NEW g, NEW bs
  PROVE  /\ Remaining(g, bs) \in Batches
         /\ \A t \in Targets : t \in Remaining(g, bs) <=> Group(t) = g /\ t \notin Covered(bs)
BY DEF Remaining, GroupOf, Batches

\* A batch of several measures is halved into two disjoint, nonempty batches.
LEMMA ChildrenOfBatch ==
  ASSUME NEW b \in Batches, Cardinality(b) > 1
  PROVE  \E l, r \in Batches \ {{}} : /\ Children(b) = <<l, r>>
                                      /\ l \cup r = b /\ l \cap r = {}
<1> DEFINE l == {t \in b : Rank(b, t) < Cardinality(b) \div 2}
<1>1. IsFiniteSet(b) /\ b \in SUBSET Nat
  BY AuditAssumption, FS_Subset DEF Batches
<1>2. l # {} /\ b \ l # {}
  BY <1>1, HalvesNonempty DEF Rank
<1>3. Children(b) = <<l, b \ l>>
  BY DEF Children
<1>4. l \in Batches \ {{}} /\ b \ l \in Batches \ {{}} /\ l \cup (b \ l) = b /\ l \cap (b \ l) = {}
  BY <1>2 DEF Batches
<1>5. QED
  <2> HIDE DEF l
  <2> QED BY <1>3, <1>4

\* One more batch under Covered.
LEMMA CoveredMore ==
  ASSUME NEW bs, NEW b
  PROVE  Covered(bs \cup {b}) = Covered(bs) \cup b
BY DEF Covered

-----------------------------------------------------------------------------
(* Types *)

LEMMA InitIInv == Init => IInv
<1> SUFFICES ASSUME Init PROVE IInv
  OBVIOUS
<1> USE DEF Init, Empty
<1>1. \A w \in Workers : stack[w] = <<>> /\ reviewing[w] = {}
  OBVIOUS
<1>2. TypeOK
  <2>1. requests \in [GroupNumbers -> Nat] /\ judged \in [Targets -> Nat]
    OBVIOUS
  <2>2. partition \in [approved : SUBSET Batches, split : SUBSET Batches, failed : SUBSET Batches]
    OBVIOUS
  <2>3. saved \in [context : Nat, complete : BOOLEAN,
                   approved : SUBSET Batches, split : SUBSET Batches]
    OBVIOUS
  <2>4. stack \in [Workers -> Seq(Batches \ {{}})]
    <3>1. <<>> \in Seq(Batches \ {{}})
      BY EmptySeq
    <3>2. QED
      BY <3>1
  <2>5. QED
    <3>1. /\ pc \in {"idle", "running", "unaccounted"} /\ serial \in BOOLEAN
          /\ context \in Nat /\ passes \in 0..MaxPasses
          /\ known \subseteq Batches /\ queue \subseteq GroupNumbers
          /\ futures \subseteq GroupNumbers /\ failures \subseteq GroupNumbers
          /\ cancelled \in BOOLEAN
      <4>1. /\ pc = "idle" /\ serial = TRUE /\ context = 1 /\ passes = 0 /\ known = {}
            /\ queue = {} /\ futures = {} /\ failures = {} /\ cancelled = FALSE
        BY Zenon
      <4> HIDE DEF Init
      <4>2. serial \in BOOLEAN /\ cancelled \in BOOLEAN
        BY <4>1, Zenon
      <4>3. context \in Nat /\ passes \in 0..MaxPasses
        BY <4>1, AuditAssumption
      <4>4. QED
        BY <4>1, <4>2, <4>3
    <3>2. QED
      BY <1>1, <2>1, <2>2, <2>3, <2>4, <3>1, Zenon DEF TypeOK
<1>3. ThreadInv
  BY <1>1 DEF ThreadInv, Drained
<1>4. PlaceInv
  BY <1>1, HeldShort DEF PlaceInv
<1>5. AccountInv
  BY DEF AccountInv, Disjoint
<1>6. RecordInv
  BY DEF RecordInv, Disjoint, Covered
<1>7. SplitInv
  BY DEF SplitInv, Several
<1>8. QED
  BY <1>2, <1>3, <1>4, <1>5, <1>6, <1>7 DEF IInv

\* A thread with a batch in flight, or on its stack, belongs to a running pass.
LEMMA ThreadsRun ==
  ASSUME IInv, NEW w \in Workers, reviewing[w] # {} \/ stack[w] # <<>>
  PROVE  /\ pc = "running" /\ stack[w] # <<>> /\ stack[w] \in Seq(Batches \ {{}})
         /\ Head(stack[w]) \in Batches \ {{}} /\ Tail(stack[w]) \in Seq(Batches \ {{}})
         /\ reviewing[w] # {} => reviewing[w] = Head(stack[w])
<1>1. stack[w] # <<>> /\ stack[w] \in Seq(Batches \ {{}})
      /\ (reviewing[w] # {} => reviewing[w] = Head(stack[w]))
  BY DEF IInv, TypeOK
<1>2. pc = "running"
  BY <1>1 DEF IInv, ThreadInv, Drained
<1>3. QED
  BY <1>1, <1>2, HeadTailProperties

\* A thread whose batch has several measures has one in flight.
LEMMA SplitReviews ==
  ASSUME IInv, NEW w \in Workers, Split(w)
  PROVE  reviewing[w] # {}
<1>1. Cardinality(reviewing[w]) > 1
  BY Zenon DEF Split
<1>2. QED
  BY <1>1, FS_EmptySet

\* A halved head leaves a stack of batches that holds what it held.
LEMMA HalvedStack ==
  ASSUME IInv, NEW w \in Workers, stack[w] # <<>>, Cardinality(Head(stack[w])) > 1
  PROVE  LET s == Children(Head(stack[w])) \o Tail(stack[w])
         IN  s \in Seq(Batches \ {{}}) /\ Apart(s) /\ Held(s) = Held(stack[w])
<1>1. /\ stack[w] \in Seq(Batches \ {{}}) /\ Head(stack[w]) \in Batches \ {{}}
      /\ Apart(stack[w])
  BY ThreadsRun DEF IInv, PlaceInv
<1>2. PICK l, r \in Batches \ {{}} : /\ Children(Head(stack[w])) = <<l, r>>
                                     /\ l \cup r = Head(stack[w]) /\ l \cap r = {}
  BY <1>1, ChildrenOfBatch
<1>3. /\ <<l, r>> \o Tail(stack[w]) \in Seq(Batches \ {{}})
      /\ Apart(<<l, r>> \o Tail(stack[w]))
      /\ Held(<<l, r>> \o Tail(stack[w])) = Held(stack[w])
  <2>1. stack[w] \in Seq((SUBSET Targets) \ {{}}) /\ l # {} /\ r # {}
    BY <1>1 DEF Batches
  <2>2. QED
    BY <1>1, <1>2, <2>1, HeldHalved DEF Batches
<1>4. QED
  BY <1>2, <1>3

\* The group a thread takes is one of the queue, the first in source order.
LEMMA TakenFromQueue ==
  ASSUME TypeOK, NEW w \in Workers, Take(w)
  PROVE  \E g \in queue : /\ queue' = queue \ {g}
                          /\ stack' = [stack EXCEPT ![w] = <<Remaining(g, Ready)>>]
<1> DEFINE g == CHOOSE h \in queue : \A k \in queue : h <= k
<1>1. queue \in SUBSET Nat /\ queue # {}
  BY GroupNumbered DEF TypeOK, Take
<1>2. \E h \in queue : \A k \in queue : h <= k
  BY <1>1, LeastElement
<1>3. g \in queue
  BY <1>2
<1>4. queue' = queue \ {g} /\ stack' = [stack EXCEPT ![w] = <<Remaining(g, Ready)>>]
  BY DEF Take
<1>5. QED
  <2> HIDE DEF g
  <2> QED BY <1>3, <1>4

\* TypeOK in three parts: truth values, what a thread has in hand, the rest.
Switches == serial \in BOOLEAN /\ cancelled \in BOOLEAN

InHand ==
  /\ stack \in [Workers -> Seq(Batches \ {{}})]
  /\ reviewing \in [Workers -> SUBSET Targets]
  /\ \A w \in Workers : reviewing[w] # {} => stack[w] # <<>> /\ reviewing[w] = Head(stack[w])

Values ==
  /\ pc \in {"idle", "running", "unaccounted"}
  /\ context \in Nat /\ passes \in 0..MaxPasses
  /\ saved \in [context : Nat, complete : BOOLEAN,
                approved : SUBSET Batches, split : SUBSET Batches]
  /\ known \subseteq Batches
  /\ partition \in [approved : SUBSET Batches, split : SUBSET Batches,
                    failed : SUBSET Batches]
  /\ queue \subseteq GroupNumbers /\ futures \subseteq GroupNumbers
  /\ failures \subseteq GroupNumbers
  /\ requests \in [GroupNumbers -> Nat] /\ judged \in [Targets -> Nat]

LEMMA TypeParts ==
  TypeOK /\ reviewing \in [Workers -> SUBSET Targets] <=> Switches /\ InHand /\ Values
BY Zenon DEF TypeOK, Switches, InHand, Values

\* The two switches of a pass are only ever set to truth values.
LEMMA SwitchesNext ==
  ASSUME Switches, [Next]_vars
  PROVE  Switches'
<1> USE DEF Switches
<1>1. CASE Begin
  BY <1>1, Zenon DEF Begin
<1>2. CASE Observe \/ (\E g \in GroupNumbers : Withdraw(g)) \/ Merge \/ Revise
  BY <1>2, Zenon DEF Observe, Withdraw, Merge, Revise, pool
<1>3. CASE \E w \in Workers : Worker(w)
  BY <1>3, Zenon DEF Worker, Take, Visit, Approve, Split, Fail
<1>4. CASE UNCHANGED vars
  BY <1>4, Zenon DEF vars, pool
<1>5. QED
  BY <1>1, <1>2, <1>3, <1>4, Zenon DEF Next, Caller

\* What a step does to the threads: nothing, all are idle, or one thread's stack
\* is replaced and its request, if any, is the head of the new one.
LEMMA OneStack ==
  ASSUME InHand, NEW w \in Workers, NEW s \in Seq(Batches \ {{}}), NEW b \in SUBSET Targets,
         b # {} => s # <<>> /\ b = Head(s),
         stack' = [stack EXCEPT ![w] = s], reviewing' = [reviewing EXCEPT ![w] = b]
  PROVE  InHand'
BY DEF InHand

\* A halved batch leaves nonempty batches, and a request is for the head.
LEMMA InHandNext ==
  ASSUME IInv, InHand, [Next]_vars
  PROVE  InHand'
<1>0. <<>> \in Seq(Batches \ {{}})
  BY EmptySeq
<1>1. CASE Begin
  BY <1>0, <1>1 DEF Begin, InHand
<1>2. CASE Observe \/ (\E g \in GroupNumbers : Withdraw(g)) \/ Merge \/ Revise \/ UNCHANGED vars
  <2>1. UNCHANGED <<stack, reviewing>>
    BY <1>2 DEF Observe, Withdraw, Merge, Revise, pool, vars
  <2>2. QED
    BY <2>1 DEF InHand
<1>3. ASSUME NEW w \in Workers, NEW g, Raise(w, g) PROVE InHand'
  BY <1>0, <1>3, OneStack DEF Raise
<1>4. ASSUME NEW w \in Workers, Take(w) PROVE InHand'
  <2>1. PICK g \in queue : stack' = [stack EXCEPT ![w] = <<Remaining(g, Ready)>>]
    BY <1>4, TakenFromQueue DEF IInv
  <2>2. Remaining(g, Ready) \in Batches \ {{}}
    BY RemainingOfGroup DEF IInv, PlaceInv
  <2>3. <<Remaining(g, Ready)>> \in Seq(Batches \ {{}})
    BY <2>2
  <2>4. reviewing[w] = {} /\ reviewing' = reviewing
    BY <1>4 DEF Take, InHand
  <2>5. reviewing' = [reviewing EXCEPT ![w] = {}]
    BY <2>4 DEF InHand
  <2>6. QED
    BY <2>1, <2>3, <2>5, OneStack
<1>5. ASSUME NEW w \in Workers, Visit(w) PROVE InHand'
  <2>1. stack[w] # <<>> /\ reviewing[w] = {}
    BY <1>5 DEF Visit
  <2>2. CASE Raise(w, Owner(Head(stack[w])))
    BY <2>2, <1>3
  <2>3. CASE /\ Head(stack[w]) \in known
             /\ stack' = [stack EXCEPT ![w] = Children(Head(stack[w])) \o Tail(@)]
             /\ UNCHANGED reviewing
    <3>1. Cardinality(Head(stack[w])) > 1
      BY <2>3 DEF IInv, SplitInv, Several
    <3>2. Children(Head(stack[w])) \o Tail(stack[w]) \in Seq(Batches \ {{}})
      BY <2>1, <3>1, HalvedStack
    <3>3. reviewing' = [reviewing EXCEPT ![w] = {}]
      BY <2>1, <2>3 DEF InHand
    <3>4. QED
      BY <2>3, <3>2, <3>3, OneStack DEF InHand
  <2>4. CASE reviewing' = [reviewing EXCEPT ![w] = Head(stack[w])] /\ UNCHANGED stack
    <3>1. Head(stack[w]) \in SUBSET Targets
      BY <2>1, ThreadsRun DEF Batches
    <3>2. QED
      BY <2>1, <2>4, <3>1 DEF InHand
  <2>5. QED
    BY <1>5, <2>2, <2>3, <2>4, Zenon DEF Visit
<1>6. ASSUME NEW w \in Workers, Approve(w) PROVE InHand'
  <2>1. /\ reviewing[w] # {} /\ stack' = [stack EXCEPT ![w] = Tail(@)]
        /\ reviewing' = [reviewing EXCEPT ![w] = {}]
    BY <1>6 DEF Approve
  <2>2. Tail(stack[w]) \in Seq(Batches \ {{}})
    BY <2>1, ThreadsRun
  <2>3. QED
    BY <2>1, <2>2, OneStack DEF InHand
<1>7. ASSUME NEW w \in Workers, Split(w) PROVE InHand'
  <2>1. /\ reviewing[w] # {} /\ Cardinality(reviewing[w]) > 1
        /\ stack' = [stack EXCEPT ![w] = Children(Head(stack[w])) \o Tail(stack[w])]
        /\ reviewing' = [reviewing EXCEPT ![w] = {}]
    BY <1>7, SplitReviews DEF Split, InHand
  <2>2. Children(Head(stack[w])) \o Tail(stack[w]) \in Seq(Batches \ {{}})
    BY <2>1, ThreadsRun, HalvedStack
  <2>3. QED
    BY <2>1, <2>2, OneStack
<1>8. ASSUME NEW w \in Workers, Fail(w) PROVE InHand'
  BY <1>8, <1>3 DEF Fail
<1>9. QED
  BY <1>1, <1>2, <1>4, <1>5, <1>6, <1>7, <1>8 DEF Next, Caller, Worker

\* The other variables keep their shapes.
LEMMA ValuesNext ==
  ASSUME IInv, Values, [Next]_vars
  PROVE  Values'
<1>1. CASE Begin
  <2>1. /\ partition' \in [approved : SUBSET Batches, split : SUBSET Batches, failed : SUBSET Batches]
        /\ known' \subseteq Batches
    BY <1>1 DEF Begin, Values, Ready, Known, Empty
  <2>2. passes' \in 0..MaxPasses /\ requests' \in [GroupNumbers -> Nat]
    BY <1>1, AuditAssumption DEF Begin, Values
  <2>3. QED
    BY <1>1, <2>1, <2>2 DEF Begin, Values
<1>2. CASE Observe \/ UNCHANGED vars
  BY <1>2 DEF Observe, vars, pool, Values
<1>3. ASSUME NEW g \in GroupNumbers, Withdraw(g) PROVE Values'
  BY <1>3 DEF Withdraw, Values
<1>4. CASE Merge
  <2>1. saved' \in [context : Nat, complete : BOOLEAN, approved : SUBSET Batches,
                    split : SUBSET Batches]
    BY <1>4 DEF Merge, Values, Kept
  <2>2. pc' \in {"idle", "running", "unaccounted"}
    BY <1>4 DEF Merge
  <2>3. QED
    BY <1>4, <2>1, <2>2 DEF Merge, Values, pool
<1>5. CASE Revise
  <2>1. context' \in Nat
    BY <1>5 DEF Revise, Values
  <2>2. QED
    BY <1>5, <2>1 DEF Revise, Values, pool
<1>6. ASSUME NEW w \in Workers, NEW g \in GroupNumbers, Raise(w, g)
      PROVE  /\ queue' \subseteq GroupNumbers /\ futures' \subseteq GroupNumbers
             /\ failures' \subseteq GroupNumbers
  <2>1. /\ failures' = failures \cup {g}
        /\ queue' = {} \/ queue' = queue
        /\ futures' = futures \/ futures' = futures \cup {g}
    BY <1>6 DEF Raise
  <2>2. QED
    BY <2>1 DEF Values
<1>7. ASSUME NEW w \in Workers, Take(w) PROVE Values'
  <2>1. /\ queue' \subseteq queue
        /\ UNCHANGED <<pc, context, saved, known, futures, failures, partition, requests,
                       judged, passes>>
    BY <1>7, TakenFromQueue DEF IInv, Take
  <2>2. queue' \subseteq GroupNumbers
    BY <2>1 DEF Values
  <2>3. QED
    BY <2>1, <2>2 DEF Values
<1>8. ASSUME NEW w \in Workers, Visit(w) PROVE Values'
  <2>1. /\ stack[w] # <<>> /\ UNCHANGED <<pc, context, saved, known, judged, passes>>
    BY <1>8 DEF Visit
  <2>2. Head(stack[w]) \in Batches /\ Owner(Head(stack[w])) \in GroupNumbers
    BY <2>1, ThreadsRun, OwnerNumbered
  <2>3. CASE Raise(w, Owner(Head(stack[w]))) /\ UNCHANGED <<partition, requests>>
    <3>1. /\ queue' \subseteq GroupNumbers /\ futures' \subseteq GroupNumbers
          /\ failures' \subseteq GroupNumbers
      BY <1>6, <2>2, <2>3
    <3>2. QED
      BY <2>1, <2>3, <3>1 DEF Values
  <2>4. CASE /\ partition' = [partition EXCEPT !.split = @ \cup {Head(stack[w])}]
             /\ UNCHANGED <<queue, futures, failures, requests>>
    BY <2>1, <2>2, <2>4 DEF Values
  <2>5. CASE /\ requests' = [requests EXCEPT ![Owner(Head(stack[w]))] = @ + 1]
             /\ UNCHANGED <<queue, futures, failures, partition>>
    <3>1. requests' \in [GroupNumbers -> Nat]
      BY <2>2, <2>5 DEF Values
    <3>2. QED
      BY <2>1, <2>5, <3>1 DEF Values
  <2>6. QED
    BY <1>8, <2>3, <2>4, <2>5, Zenon DEF Visit
<1>9. ASSUME NEW w \in Workers, Approve(w) PROVE Values'
  <2>1. /\ reviewing[w] # {} /\ UNCHANGED <<pc, context, saved, known, queue, futures, failures,
                                            requests, passes>>
        /\ partition' = [partition EXCEPT !.approved = @ \cup {reviewing[w]}]
        /\ judged' = [t \in Targets |-> IF t \in reviewing[w] THEN context ELSE judged[t]]
    BY <1>9 DEF Approve
  <2>2. judged' \in [Targets -> Nat]
    BY <2>1 DEF Values
  <2>3. reviewing[w] \in Batches
    BY <2>1, ThreadsRun
  <2>4. QED
    BY <2>1, <2>2, <2>3 DEF Values
<1>10. ASSUME NEW w \in Workers, Split(w) PROVE Values'
  <2>1. /\ reviewing[w] \in Batches
        /\ UNCHANGED <<pc, context, saved, known, queue, futures, failures, requests, judged,
                       passes>>
        /\ partition' = [partition EXCEPT !.split = @ \cup {reviewing[w]}]
    BY <1>10, SplitReviews, ThreadsRun DEF Split
  <2>2. QED
    BY <2>1 DEF Values
<1>11. ASSUME NEW w \in Workers, Fail(w) PROVE Values'
  <2>1. /\ reviewing[w] # {} /\ Raise(w, Owner(reviewing[w]))
        /\ partition' = [partition EXCEPT !.failed = @ \cup {reviewing[w]}]
        /\ UNCHANGED <<pc, context, saved, known, requests, judged, passes>>
    BY <1>11 DEF Fail
  <2>2. reviewing[w] \in Batches /\ Owner(reviewing[w]) \in GroupNumbers
    BY <2>1, ThreadsRun, OwnerNumbered
  <2>3. /\ queue' \subseteq GroupNumbers /\ futures' \subseteq GroupNumbers
        /\ failures' \subseteq GroupNumbers
    BY <1>6, <2>1, <2>2
  <2>4. QED
    BY <2>1, <2>2, <2>3 DEF Values
<1>12. QED
  BY <1>1, <1>2, <1>3, <1>4, <1>5, <1>7, <1>8, <1>9, <1>10, <1>11 DEF Next, Caller, Worker

-----------------------------------------------------------------------------
(* Every measure in one place *)

LEMMA ReadyStays ==
  ASSUME UNCHANGED <<saved, context>>
  PROVE  Ready' = Ready
BY DEF Ready

\* A thread that goes on with no more than it had leaves every measure where it is.
LEMMA PlaceShrinks ==
  ASSUME InHand, PlaceInv, NEW w \in Workers, NEW s, Apart(s), Held(s) \subseteq Held(stack[w]),
         stack' = [stack EXCEPT ![w] = s], queue' \subseteq queue,
         UNCHANGED <<saved, context>>, partition'.approved = partition.approved
  PROVE  PlaceInv'
<1>1. \A v \in Workers : Held(stack'[v]) \subseteq Held(stack[v]) /\ Apart(stack'[v])
  BY DEF InHand, PlaceInv
<1>2. Ready' = Ready
  BY ReadyStays
<1>3. \A g : Remaining(g, Ready)' = Remaining(g, Ready)
  BY <1>2 DEF Remaining
<1>4. Covered(partition.approved)' = Covered(partition.approved) /\ Covered(Ready)' = Covered(Ready)
  BY <1>2 DEF Covered
<1>5. \A g \in queue' : Remaining(g, Ready)' # {}
  BY <1>3 DEF PlaceInv
<1>6. \A t \in Targets : Group(t) \in queue' =>
        /\ \A v \in Workers : t \notin Held(stack'[v])
        /\ t \in Covered(partition.approved)' => t \in Covered(Ready)'
  BY <1>1, <1>4 DEF PlaceInv
<1>7. \A v \in Workers : Apart(stack'[v]) /\ Held(stack'[v]) \cap Covered(partition.approved)' = {}
  BY <1>1, <1>4 DEF PlaceInv
<1>8. \A u, v \in Workers : u # v => Held(stack'[u]) \cap Held(stack'[v]) = {}
  BY <1>1 DEF PlaceInv
<1>9. QED
  BY <1>5, <1>6, <1>7, <1>8 DEF PlaceInv

\* What is held is measures, and the head of a stack is a part of what it holds.
LEMMA HeldMeasures ==
  ASSUME IInv, NEW w \in Workers, stack[w] # <<>>
  PROVE  /\ Held(stack[w]) = Head(stack[w]) \cup Held(Tail(stack[w]))
         /\ Head(stack[w]) \cap Held(Tail(stack[w])) = {}
         /\ Apart(Tail(stack[w])) /\ Head(stack[w]) \in SUBSET Targets
<1>1. stack[w] \in Seq((SUBSET Targets) \ {{}}) /\ Apart(stack[w])
  BY ThreadsRun DEF IInv, PlaceInv, Batches
<1>2. QED
  BY <1>1, HeldTail

LEMMA PlaceNext ==
  ASSUME IInv, InHand, [Next]_vars
  PROVE  PlaceInv'
<1>1. CASE Begin
  <2>1. \A w \in Workers : stack'[w] = <<>>
    BY <1>1 DEF Begin
  <2>2. Ready' = Ready
    BY <1>1, ReadyStays DEF Begin
  <2>3. partition'.approved = Ready'
    BY <1>1, <2>2 DEF Begin, Empty
  <2>4. \A g \in queue' : Remaining(g, Ready)' # {}
    BY <1>1, <2>2 DEF Begin, Remaining
  <2>5. QED
    BY <2>1, <2>3, <2>4, HeldShort DEF PlaceInv
<1>2. CASE Observe \/ (\E g \in GroupNumbers : Withdraw(g)) \/ UNCHANGED vars
  <2>1. /\ UNCHANGED <<stack, saved, context, partition>>
        /\ queue' \subseteq queue
    BY <1>2 DEF Observe, Withdraw, vars, pool
  <2>2. PICK w : w \in Workers
    BY AuditAssumption
  <2>3. stack' = [stack EXCEPT ![w] = stack[w]] /\ Apart(stack[w])
    BY <2>1, <2>2 DEF InHand, IInv, PlaceInv
  <2>4. QED
    BY <2>1, <2>2, <2>3, PlaceShrinks DEF IInv
<1>3. CASE Merge \/ Revise
  <2>1. /\ queue' = {} /\ UNCHANGED <<stack, partition>>
    BY <1>3 DEF Merge, Drained, Revise, pool, IInv, ThreadInv
  <2>2. QED
    BY <2>1, Zenon DEF IInv, PlaceInv, Covered
<1>4. ASSUME NEW w \in Workers, NEW g, Raise(w, g), UNCHANGED <<saved, context>>,
             partition'.approved = partition.approved
      PROVE  PlaceInv'
  <2>1. stack' = [stack EXCEPT ![w] = <<>>] /\ queue' \subseteq queue
    BY <1>4 DEF Raise
  <2>2. QED
    BY <1>4, <2>1, HeldShort, PlaceShrinks DEF IInv
<1>5. ASSUME NEW w \in Workers, Take(w) PROVE PlaceInv'
  <2>1. PICK g \in queue : /\ queue' = queue \ {g}
                           /\ stack' = [stack EXCEPT ![w] = <<Remaining(g, Ready)>>]
    BY <1>5, TakenFromQueue DEF IInv
  <2>2. UNCHANGED <<saved, context, partition>> /\ stack[w] = <<>>
    BY <1>5 DEF Take
  <2>3. /\ Ready' = Ready /\ \A h : Remaining(h, Ready)' = Remaining(h, Ready)
        /\ Covered(partition.approved)' = Covered(partition.approved)
        /\ Covered(Ready)' = Covered(Ready)
    BY <2>2, ReadyStays DEF Remaining, Covered
  <2>4. /\ Held(stack'[w]) = Remaining(g, Ready) /\ Apart(stack'[w])
        /\ \A v \in Workers : v # w => stack'[v] = stack[v]
    BY <2>1, HeldShort DEF InHand
  <2>5. \A t \in Remaining(g, Ready) : /\ t \in Targets /\ Group(t) = g
                                       /\ t \notin Covered(Ready)
    BY RemainingOfGroup DEF Batches
  <2>6. \A t \in Remaining(g, Ready) : /\ t \notin Covered(partition.approved)
                                       /\ \A v \in Workers : t \notin Held(stack[v])
    BY <2>5 DEF IInv, PlaceInv
  <2>7. \A v \in Workers : Apart(stack'[v]) /\ Held(stack'[v]) \cap Covered(partition.approved) = {}
    BY <2>4, <2>6 DEF IInv, PlaceInv
  <2>8. \A u, v \in Workers : u # v => Held(stack'[u]) \cap Held(stack'[v]) = {}
    BY <2>4, <2>6 DEF IInv, PlaceInv
  <2>9. \A t \in Targets : Group(t) \in queue' =>
          /\ \A v \in Workers : t \notin Held(stack'[v])
          /\ t \in Covered(partition.approved) => t \in Covered(Ready)
    BY <2>1, <2>4, <2>5 DEF IInv, PlaceInv
  <2>10. \A h \in queue' : Remaining(h, Ready) # {}
    BY <2>1 DEF IInv, PlaceInv
  <2>11. QED
    BY <2>3, <2>7, <2>8, <2>9, <2>10 DEF PlaceInv
<1>6. ASSUME NEW w \in Workers, Visit(w) PROVE PlaceInv'
  <2>1. stack[w] # <<>> /\ UNCHANGED <<saved, context>>
    BY <1>6 DEF Visit
  <2>2. CASE Raise(w, Owner(Head(stack[w]))) /\ UNCHANGED partition
    BY <1>4, <2>1, <2>2
  <2>3. CASE /\ Head(stack[w]) \in known
             /\ partition' = [partition EXCEPT !.split = @ \cup {Head(stack[w])}]
             /\ stack' = [stack EXCEPT ![w] = Children(Head(stack[w])) \o Tail(@)]
             /\ UNCHANGED queue
    <3> DEFINE s == Children(Head(stack[w])) \o Tail(stack[w])
    <3>1. Cardinality(Head(stack[w])) > 1
      BY <2>3 DEF IInv, SplitInv, Several
    <3>2. Apart(s) /\ Held(s) = Held(stack[w])
      BY <2>1, <3>1, HalvedStack
    <3>3. partition'.approved = partition.approved
      BY <2>3 DEF IInv, TypeOK
    <3>4. stack' = [stack EXCEPT ![w] = s] /\ queue' \subseteq queue
      BY <2>3 DEF InHand
    <3> HIDE DEF s
    <3>5. QED
      BY <2>1, <3>2, <3>3, <3>4, PlaceShrinks DEF IInv
  <2>4. CASE UNCHANGED <<queue, stack, partition>>
    <3>1. stack' = [stack EXCEPT ![w] = stack[w]] /\ Apart(stack[w])
      BY <2>4 DEF InHand, IInv, PlaceInv
    <3>2. QED
      BY <2>1, <2>4, <3>1, PlaceShrinks DEF IInv
  <2>5. QED
    BY <1>6, <2>2, <2>3, <2>4, Zenon DEF Visit
<1>7. ASSUME NEW w \in Workers, Approve(w) PROVE PlaceInv'
  <2> DEFINE b == Head(stack[w])
             rest == Tail(stack[w])
  <2>1. /\ reviewing[w] # {} /\ UNCHANGED <<context, saved, queue>>
        /\ partition' = [partition EXCEPT !.approved = @ \cup {reviewing[w]}]
        /\ stack' = [stack EXCEPT ![w] = Tail(@)]
    BY <1>7 DEF Approve
  <2>2. reviewing[w] = b /\ stack[w] # <<>>
    BY <2>1, ThreadsRun
  <2>3. /\ Held(stack[w]) = b \cup Held(rest) /\ b \cap Held(rest) = {}
        /\ Apart(rest) /\ b \in SUBSET Targets
    BY <2>2, HeldMeasures
  <2>4. /\ stack'[w] = rest /\ \A v \in Workers : v # w => stack'[v] = stack[v]
        /\ partition'.approved = partition.approved \cup {b}
    BY <2>1, <2>2 DEF InHand, IInv, TypeOK
  <2> HIDE DEF b, rest
  <2>5. Covered(partition.approved)' = Covered(partition.approved) \cup b
    BY <2>4, CoveredMore DEF Covered
  <2>6. Ready' = Ready /\ Covered(Ready)' = Covered(Ready)
        /\ \A h : Remaining(h, Ready)' = Remaining(h, Ready)
    BY <2>1, ReadyStays DEF Covered, Remaining
  <2>7. \A v \in Workers : v # w => Held(stack[v]) \cap Held(stack[w]) = {}
    BY DEF IInv, PlaceInv
  <2>8. \A v \in Workers : Apart(stack'[v]) /\ Held(stack'[v]) \cap Covered(partition.approved)' = {}
    <3>1. Apart(stack'[w]) /\ Held(stack'[w]) \cap Covered(partition.approved)' = {}
      BY <2>3, <2>4, <2>5 DEF IInv, PlaceInv
    <3>2. ASSUME NEW v \in Workers, v # w
          PROVE  Apart(stack'[v]) /\ Held(stack'[v]) \cap Covered(partition.approved)' = {}
      BY <3>2, <2>3, <2>4, <2>5, <2>7 DEF IInv, PlaceInv
    <3>3. QED
      BY <3>1, <3>2
  <2>9. \A u, v \in Workers : u # v => Held(stack'[u]) \cap Held(stack'[v]) = {}
    <3>1. \A v \in Workers : Held(stack'[v]) \subseteq Held(stack[v])
      BY <2>3, <2>4
    <3>2. QED
      BY <3>1 DEF IInv, PlaceInv
  <2>10. ASSUME NEW t \in Targets, Group(t) \in queue'
         PROVE  /\ \A v \in Workers : t \notin Held(stack'[v])
                /\ t \in Covered(partition.approved)' => t \in Covered(Ready)'
    <3>1. /\ \A v \in Workers : t \notin Held(stack[v])
          /\ t \in Covered(partition.approved) => t \in Covered(Ready)
      BY <2>1, <2>10 DEF IInv, PlaceInv
    <3>2. QED
      BY <3>1, <2>3, <2>4, <2>5, <2>6
  <2>11. \A h \in queue' : Remaining(h, Ready)' # {}
    BY <2>1, <2>6 DEF IInv, PlaceInv
  <2>12. QED
    BY <2>8, <2>9, <2>10, <2>11 DEF PlaceInv
<1>8. ASSUME NEW w \in Workers, Split(w) PROVE PlaceInv'
  <2>1. /\ reviewing[w] # {} /\ Cardinality(reviewing[w]) > 1 /\ UNCHANGED <<context, saved, queue>>
        /\ partition' = [partition EXCEPT !.split = @ \cup {reviewing[w]}]
        /\ stack' = [stack EXCEPT ![w] = Children(Head(stack[w])) \o Tail(stack[w])]
    BY <1>8, SplitReviews DEF Split, InHand
  <2> DEFINE s == Children(Head(stack[w])) \o Tail(stack[w])
  <2>2. Apart(s) /\ Held(s) = Held(stack[w])
    BY <2>1, ThreadsRun, HalvedStack
  <2>3. partition'.approved = partition.approved
    BY <2>1 DEF IInv, TypeOK
  <2>4. stack' = [stack EXCEPT ![w] = s] /\ queue' \subseteq queue
    BY <2>1
  <2> HIDE DEF s
  <2>5. QED
    BY <2>1, <2>2, <2>3, <2>4, PlaceShrinks DEF IInv
<1>9. ASSUME NEW w \in Workers, Fail(w) PROVE PlaceInv'
  <2>1. /\ Raise(w, Owner(reviewing[w])) /\ UNCHANGED <<context, saved>>
        /\ partition' = [partition EXCEPT !.failed = @ \cup {reviewing[w]}]
    BY <1>9 DEF Fail
  <2>2. partition'.approved = partition.approved
    BY <2>1 DEF IInv, TypeOK
  <2>3. QED
    BY <1>4, <2>1, <2>2
<1>10. QED
  BY <1>1, <1>2, <1>3, <1>5, <1>6, <1>7, <1>8, <1>9 DEF Next, Caller, Worker

-----------------------------------------------------------------------------
(* No measure lost, none approved twice *)

\* A thread that holds what it held loses nothing, and a failure is on record.
LEMMA AccountKept ==
  ASSUME IInv, InHand, NEW w \in Workers, NEW s, Held(stack[w]) \subseteq Held(s),
         stack' = [stack EXCEPT ![w] = s], UNCHANGED <<pc, queue, failures>>,
         partition'.approved = partition.approved
  PROVE  AccountInv'
<1>1. \A v \in Workers : Held(stack[v]) \subseteq Held(stack'[v])
  BY DEF InHand
<1>2. Covered(partition.approved)' = Covered(partition.approved)
  BY DEF Covered
<1>3. QED
  BY <1>1, <1>2 DEF IInv, AccountInv, Disjoint

LEMMA AccountFailed ==
  ASSUME IInv, failures' # {}, partition'.approved = partition.approved
  PROVE  AccountInv'
BY DEF IInv, AccountInv, Disjoint

LEMMA AccountNext ==
  ASSUME IInv, InHand, [Next]_vars
  PROVE  AccountInv'
<1>1. CASE Begin
  <2>1. Ready' = Ready /\ Covered(Ready)' = Covered(Ready)
    BY <1>1, ReadyStays DEF Begin, Covered
  <2>2. partition'.approved = Ready /\ Disjoint(Ready)
    BY <1>1, <2>1 DEF Begin, Empty, Ready, IInv, RecordInv, Disjoint
  <2>3. ASSUME NEW t \in Targets
        PROVE  t \in Covered(partition.approved)' \/ Group(t) \in queue'
    <3>1. CASE t \in Covered(Ready)
      BY <2>2, <3>1 DEF Covered
    <3>2. CASE t \notin Covered(Ready)
      <4>1. t \in Remaining(Group(t), Ready)
        BY <3>2, RemainingOfGroup
      <4>2. QED
        BY <1>1, <4>1, GroupNumbered DEF Begin
    <3>3. QED
      BY <3>1, <3>2
  <2>4. QED
    BY <2>2, <2>3 DEF AccountInv, Disjoint
<1>2. CASE Observe \/ UNCHANGED vars
  <2>1. UNCHANGED <<pc, stack, queue, failures, partition>>
    BY <1>2 DEF Observe, vars, pool
  <2>2. QED
    BY <2>1, Zenon DEF IInv, AccountInv, Covered, Disjoint
<1>3. ASSUME NEW g \in GroupNumbers, Withdraw(g) PROVE AccountInv'
  <2>1. failures' # {} /\ UNCHANGED partition
    BY <1>3 DEF Withdraw
  <2>2. QED
    BY <2>1, AccountFailed
<1>4. CASE Merge \/ Revise
  <2>1. pc' # "running" /\ UNCHANGED partition
    BY <1>4 DEF Merge, Revise
  <2>2. QED
    BY <2>1 DEF IInv, AccountInv, Disjoint
<1>5. ASSUME NEW w \in Workers, Take(w) PROVE AccountInv'
  <2>1. PICK g \in queue : /\ queue' = queue \ {g}
                           /\ stack' = [stack EXCEPT ![w] = <<Remaining(g, Ready)>>]
    BY <1>5, TakenFromQueue DEF IInv
  <2>2. /\ UNCHANGED <<pc, failures, partition>> /\ stack[w] = <<>> /\ pc = "running"
    BY <1>5 DEF Take
  <2>3. /\ Held(stack'[w]) = Remaining(g, Ready) /\ Held(stack[w]) = {}
        /\ \A v \in Workers : v # w => stack'[v] = stack[v]
    BY <2>1, <2>2, HeldShort DEF InHand
  <2>4. ASSUME failures = {}, NEW t \in Targets
        PROVE  \/ t \in Covered(partition.approved) \/ Group(t) \in queue'
               \/ \E v \in Workers : t \in Held(stack'[v])
    <3>1. CASE Group(t) = g
      <4>1. t \in Covered(Ready) => t \in Covered(partition.approved)
        BY <2>2 DEF IInv, RecordInv, Covered
      <4>2. t \notin Covered(Ready) => t \in Held(stack'[w])
        BY <2>3, <3>1, RemainingOfGroup
      <4>3. QED
        BY <4>1, <4>2
    <3>2. CASE Group(t) # g
      <4>1. \/ t \in Covered(partition.approved) \/ Group(t) \in queue
            \/ \E v \in Workers : t \in Held(stack[v])
        BY <2>2, <2>4 DEF IInv, AccountInv
      <4>2. QED
        BY <2>1, <2>3, <3>2, <4>1
    <3>3. QED
      BY <3>1, <3>2
  <2>5. Covered(partition.approved)' = Covered(partition.approved)
    BY <2>2 DEF Covered
  <2>6. QED
    BY <2>2, <2>4, <2>5 DEF IInv, AccountInv, Disjoint
<1>6. ASSUME NEW w \in Workers, Visit(w) PROVE AccountInv'
  <2>1. stack[w] # <<>> /\ UNCHANGED pc
    BY <1>6 DEF Visit
  <2>2. CASE Raise(w, Owner(Head(stack[w]))) /\ UNCHANGED partition
    <3>1. failures' # {} /\ UNCHANGED partition
      BY <2>2 DEF Raise
    <3>2. QED
      BY <3>1, AccountFailed
  <2>3. CASE /\ Head(stack[w]) \in known
             /\ partition' = [partition EXCEPT !.split = @ \cup {Head(stack[w])}]
             /\ stack' = [stack EXCEPT ![w] = Children(Head(stack[w])) \o Tail(@)]
             /\ UNCHANGED <<queue, failures>>
    <3> DEFINE s == Children(Head(stack[w])) \o Tail(stack[w])
    <3>1. Cardinality(Head(stack[w])) > 1
      BY <2>3 DEF IInv, SplitInv, Several
    <3>2. Held(s) = Held(stack[w])
      BY <2>1, <3>1, HalvedStack
    <3>3. partition'.approved = partition.approved
      BY <2>3 DEF IInv, TypeOK
    <3>4. stack' = [stack EXCEPT ![w] = s]
      BY <2>3 DEF InHand
    <3> HIDE DEF s
    <3>5. QED
      BY <2>1, <2>3, <3>2, <3>3, <3>4, AccountKept
  <2>4. CASE UNCHANGED <<queue, stack, failures, partition>>
    BY <2>1, <2>4, Zenon DEF IInv, AccountInv, Covered, Disjoint
  <2>5. QED
    BY <1>6, <2>2, <2>3, <2>4, Zenon DEF Visit
<1>7. ASSUME NEW w \in Workers, Approve(w) PROVE AccountInv'
  <2> DEFINE b == Head(stack[w])
             rest == Tail(stack[w])
  <2>1. /\ reviewing[w] # {} /\ UNCHANGED <<pc, queue, failures>>
        /\ partition' = [partition EXCEPT !.approved = @ \cup {reviewing[w]}]
        /\ stack' = [stack EXCEPT ![w] = Tail(@)]
    BY <1>7 DEF Approve
  <2>2. reviewing[w] = b /\ stack[w] # <<>>
    BY <2>1, ThreadsRun
  <2>3. Held(stack[w]) = b \cup Held(rest)
    BY <2>2, HeldMeasures
  <2>4. b \cap Covered(partition.approved) = {}
    BY <2>3 DEF IInv, PlaceInv
  <2>5. /\ stack'[w] = rest /\ \A v \in Workers : v # w => stack'[v] = stack[v]
        /\ partition'.approved = partition.approved \cup {b}
    BY <2>1, <2>2 DEF InHand, IInv, TypeOK
  <2> HIDE DEF b, rest
  <2>6. Covered(partition.approved)' = Covered(partition.approved) \cup b
    BY <2>5, CoveredMore DEF Covered
  <2>7. Disjoint(partition.approved)'
    <3>1. \A a \in partition.approved : a \cap b = {}
      BY <2>4 DEF Covered
    <3>2. QED
      BY <2>5, <3>1 DEF IInv, AccountInv, Disjoint
  <2>8. ASSUME pc = "running", failures = {}, NEW t \in Targets
        PROVE  \/ t \in Covered(partition.approved)' \/ Group(t) \in queue
               \/ \E v \in Workers : t \in Held(stack'[v])
    <3>1. \/ t \in Covered(partition.approved) \/ Group(t) \in queue
          \/ \E v \in Workers : t \in Held(stack[v])
      BY <2>8 DEF IInv, AccountInv
    <3>2. QED
      BY <2>3, <2>5, <2>6, <3>1
  <2>9. QED
    BY <2>1, <2>7, <2>8 DEF AccountInv
<1>8. ASSUME NEW w \in Workers, Split(w) PROVE AccountInv'
  <2>1. /\ reviewing[w] # {} /\ Cardinality(reviewing[w]) > 1 /\ UNCHANGED <<pc, queue, failures>>
        /\ partition' = [partition EXCEPT !.split = @ \cup {reviewing[w]}]
        /\ stack' = [stack EXCEPT ![w] = Children(Head(stack[w])) \o Tail(stack[w])]
    BY <1>8, SplitReviews DEF Split, InHand
  <2> DEFINE s == Children(Head(stack[w])) \o Tail(stack[w])
  <2>2. Held(s) = Held(stack[w])
    BY <2>1, ThreadsRun, HalvedStack
  <2>3. partition'.approved = partition.approved
    BY <2>1 DEF IInv, TypeOK
  <2>4. stack' = [stack EXCEPT ![w] = s]
    BY <2>1
  <2> HIDE DEF s
  <2>5. QED
    BY <2>1, <2>2, <2>3, <2>4, AccountKept
<1>9. ASSUME NEW w \in Workers, Fail(w) PROVE AccountInv'
  <2>1. /\ failures' # {}
        /\ partition' = [partition EXCEPT !.failed = @ \cup {reviewing[w]}]
    BY <1>9 DEF Fail, Raise
  <2>2. partition'.approved = partition.approved
    BY <2>1 DEF IInv, TypeOK
  <2>3. QED
    BY <2>1, <2>2, AccountFailed
<1>10. QED
  BY <1>1, <1>2, <1>3, <1>4, <1>5, <1>6, <1>7, <1>8, <1>9 DEF Next, Caller, Worker

-----------------------------------------------------------------------------
(* The caller's end of a pass, and the record *)

\* A drained pass without a failure has approved exactly the measures.
LEMMA DrainedAggregates ==
  ASSUME IInv, pc = "running", Drained, failures = {}
  PROVE  Aggregates
<1>1. \A w \in Workers : Held(stack[w]) = {}
  BY HeldShort DEF Drained
<1>2. Targets \subseteq Covered(partition.approved)
  BY <1>1 DEF IInv, AccountInv, Drained
<1>3. Covered(partition.approved) \subseteq Targets
  BY DEF IInv, TypeOK, Batches, Covered
<1>4. QED
  BY <1>2, <1>3 DEF Aggregates, IInv, AccountInv

LEMMA ThreadNext ==
  ASSUME IInv, InHand', [Next]_vars
  PROVE  ThreadInv'
<1>1. reviewing' \in [Workers -> SUBSET Targets]
  BY DEF InHand
<1>2. pc' # "unaccounted"
  <2>1. CASE Merge
    BY <2>1, DrainedAggregates DEF Merge
  <2>2. CASE UNCHANGED pc \/ pc' = "running"
    BY <2>2 DEF IInv, ThreadInv
  <2>3. QED
    BY <2>1, <2>2 DEF Next, Caller, Worker, Begin, Observe, Withdraw, Take, Visit, Approve, Split,
       Fail, Revise, vars
<1>3. ASSUME pc' # "running" PROVE Drained'
  <2>1. CASE Merge
    BY <2>1 DEF Merge, Drained, pool
  <2>2. CASE Revise \/ UNCHANGED vars
    BY <1>3, <2>2 DEF Revise, Drained, pool, vars, IInv, ThreadInv
  <2>3. CASE Begin
    BY <1>3, <2>3 DEF Begin
  <2>4. CASE Observe \/ \E g \in GroupNumbers : Withdraw(g)
    BY <1>3, <2>4 DEF Observe, Withdraw, IInv, ThreadInv, Drained
  <2>5. ASSUME NEW w \in Workers, Worker(w) PROVE FALSE
    <3>1. pc = "running"
      BY <2>5, ThreadsRun, SplitReviews DEF Worker, Take, Visit, Approve, Fail
    <3>2. QED
      BY <1>3, <2>5, <3>1 DEF Worker, Take, Visit, Approve, Split, Fail
  <2>6. QED
    BY <2>1, <2>2, <2>3, <2>4, <2>5 DEF Next, Caller
<1>4. QED
  BY <1>1, <1>2, <1>3 DEF ThreadInv

\* A step that leaves record, approvals and sources alone.
LEMMA RecordUntouched ==
  ASSUME IInv, UNCHANGED <<pc, context, saved, judged>>,
         partition'.approved = partition.approved
  PROVE  RecordInv'
<1>1. /\ Ready' = Ready /\ Covered(saved.approved)' = Covered(saved.approved)
      /\ Covered(partition.approved)' = Covered(partition.approved)
      /\ Disjoint(saved.approved)' = Disjoint(saved.approved)
  BY ReadyStays DEF Covered, Disjoint
<1>2. QED
  BY <1>1 DEF IInv, RecordInv

LEMMA RecordNext ==
  ASSUME IInv, [Next]_vars
  PROVE  RecordInv'
<1>0. /\ judged \in [Targets -> Nat] /\ context \in Nat /\ saved.context \in Nat
      /\ \A t \in Covered(partition.approved) : t \in Targets
      /\ \A t \in Covered(saved.approved) : t \in Targets
  BY DEF IInv, TypeOK, Batches, Covered
<1>1. CASE Begin
  <2>1. /\ Ready' = Ready /\ UNCHANGED <<saved, context, judged>>
        /\ ~ (saved.complete /\ saved.context = context)
        /\ partition'.approved = Ready
    BY <1>1, ReadyStays DEF Begin, Empty
  <2>2. \A t \in Covered(Ready) : judged[t] >= context
    BY DEF Ready, Covered, IInv, RecordInv
  <2>3. /\ Disjoint(saved.approved)'
        /\ saved'.complete => Covered(saved.approved)' = Targets
        /\ saved'.context <= context'
        /\ \A t \in Targets : judged'[t] <= context'
        /\ \A t \in Covered(saved.approved)' : judged'[t] >= saved'.context
    BY <2>1 DEF IInv, RecordInv, Disjoint, Covered
  <2>4. \A t \in Covered(partition.approved)' : judged'[t] >= context'
    BY <2>1, <2>2 DEF Covered
  <2>5. QED
    BY <2>1, <2>3, <2>4 DEF RecordInv
<1>2. CASE Observe \/ (\E g \in GroupNumbers : Withdraw(g)) \/ UNCHANGED vars
  <2>1. UNCHANGED <<pc, context, saved, judged, partition>>
    BY <1>2 DEF Observe, Withdraw, vars, pool
  <2>2. QED
    BY <2>1, RecordUntouched
<1>3. CASE Merge
  <2>1. /\ pc = "running" /\ pc' # "running" /\ UNCHANGED <<context, judged>>
        /\ saved'.approved = partition.approved /\ saved'.context = context
        /\ saved'.complete => Aggregates
    BY <1>3 DEF Merge, Kept
  <2>2. Covered(saved.approved)' = Covered(partition.approved)
    BY <2>1 DEF Covered
  <2>3. Disjoint(saved.approved)'
    BY <2>1 DEF IInv, AccountInv, Disjoint
  <2>4. QED
    BY <1>0, <2>1, <2>2, <2>3 DEF IInv, RecordInv, Aggregates
<1>4. CASE Revise
  <2>1. /\ pc' # "running" /\ context' = context + 1 /\ UNCHANGED <<saved, judged>>
    BY <1>4 DEF Revise
  <2>2. saved'.context <= context' /\ \A t \in Targets : judged'[t] <= context'
    BY <1>0, <2>1 DEF IInv, RecordInv
  <2>3. QED
    BY <2>1, <2>2 DEF IInv, RecordInv, Disjoint, Covered
<1>5. ASSUME NEW w \in Workers, Take(w) \/ Visit(w) \/ Split(w) \/ Fail(w) PROVE RecordInv'
  <2>1. UNCHANGED <<pc, context, saved, judged>>
    BY <1>5 DEF Take, Visit, Split, Fail
  <2>2. \/ partition' = partition
        \/ \E b : partition' = [partition EXCEPT !.split = @ \cup {b}]
        \/ \E b : partition' = [partition EXCEPT !.failed = @ \cup {b}]
    BY <1>5, Zenon DEF Take, Visit, Split, Fail
  <2>3. partition'.approved = partition.approved
    BY <2>2 DEF IInv, TypeOK
  <2>4. QED
    BY <2>1, <2>3, RecordUntouched
<1>6. ASSUME NEW w \in Workers, Approve(w) PROVE RecordInv'
  <2>1. /\ reviewing[w] # {} /\ UNCHANGED <<pc, context, saved>>
        /\ partition' = [partition EXCEPT !.approved = @ \cup {reviewing[w]}]
        /\ judged' = [t \in Targets |-> IF t \in reviewing[w] THEN context ELSE judged[t]]
    BY <1>6 DEF Approve
  <2>2. pc = "running" /\ reviewing[w] \in SUBSET Targets
    BY <2>1, ThreadsRun DEF Batches
  <2>3. partition'.approved = partition.approved \cup {reviewing[w]}
    BY <2>1 DEF IInv, TypeOK
  <2>4. Covered(partition.approved)' = Covered(partition.approved) \cup reviewing[w]
    BY <2>3, CoveredMore DEF Covered
  <2>5. /\ Ready' = Ready /\ Covered(saved.approved)' = Covered(saved.approved)
        /\ Disjoint(saved.approved)' = Disjoint(saved.approved)
    BY <2>1, ReadyStays DEF Covered, Disjoint
  <2>6. \A t \in Targets : /\ judged'[t] >= judged[t] /\ judged'[t] <= context
                           /\ t \in reviewing[w] => judged'[t] = context
    BY <1>0, <2>1 DEF IInv, RecordInv
  <2>7. \A t \in Targets : judged'[t] \in Nat /\ judged[t] \in Nat
    BY <1>0, <2>1
  <2>8. \A t \in Covered(saved.approved) : judged'[t] >= saved.context
    BY <1>0, <2>6, <2>7 DEF IInv, RecordInv
  <2>9. \A t \in Covered(partition.approved)' : judged'[t] >= context
    <3>1. ASSUME NEW t \in Covered(partition.approved) PROVE judged'[t] >= context
      BY <1>0, <2>2, <2>6, <2>7 DEF IInv, RecordInv
    <3>2. ASSUME NEW t \in reviewing[w] PROVE judged'[t] >= context
      BY <1>0, <2>2, <2>6
    <3>3. QED
      BY <2>4, <3>1, <3>2
  <2>10. QED
    BY <2>1, <2>2, <2>3, <2>5, <2>6, <2>8, <2>9 DEF IInv, RecordInv
<1>7. QED
  BY <1>1, <1>2, <1>3, <1>4, <1>5, <1>6 DEF Next, Caller, Worker

LEMMA SplitNext ==
  ASSUME IInv, [Next]_vars
  PROVE  SplitInv'
<1>1. CASE Begin
  <2>1. Several(known')
    BY <1>1 DEF Begin, Known, IInv, SplitInv, Several
  <2>2. partition'.split = {} /\ saved' = saved
    BY <1>1 DEF Begin, Empty
  <2>3. QED
    BY <2>1, <2>2 DEF IInv, SplitInv, Several
<1>2. CASE Merge
  <2>1. saved'.split = partition.split \cup known /\ UNCHANGED <<partition, known>>
    BY <1>2 DEF Merge
  <2>2. QED
    BY <2>1 DEF IInv, SplitInv, Several
<1>3. CASE Observe \/ (\E g \in GroupNumbers : Withdraw(g)) \/ Revise \/ UNCHANGED vars
  <2>1. UNCHANGED <<saved, known, partition>>
    BY <1>3 DEF Observe, Withdraw, Revise, vars
  <2>2. QED
    BY <2>1 DEF IInv, SplitInv, Several
<1>4. ASSUME NEW w \in Workers, Worker(w) PROVE SplitInv'
  <2>1. UNCHANGED <<saved, known>>
    BY <1>4 DEF Worker, Take, Visit, Approve, Split, Fail
  <2>2. \/ partition' = partition
        \/ \E b : partition' = [partition EXCEPT !.approved = @ \cup {b}]
        \/ \E b : partition' = [partition EXCEPT !.failed = @ \cup {b}]
        \/ \E b \in known : partition' = [partition EXCEPT !.split = @ \cup {b}]
        \/ \E b : Cardinality(b) > 1 /\ partition' = [partition EXCEPT !.split = @ \cup {b}]
    BY <1>4, Zenon DEF Worker, Take, Visit, Approve, Split, Fail
  <2>3. \/ partition'.split = partition.split
        \/ \E b : Cardinality(b) > 1 /\ partition'.split = partition.split \cup {b}
    BY <2>2 DEF IInv, TypeOK, SplitInv, Several
  <2>4. QED
    BY <2>1, <2>3 DEF IInv, SplitInv, Several
<1>5. QED
  BY <1>1, <1>2, <1>3, <1>4 DEF Next, Caller

\* The strengthening is inductive.
LEMMA NextIInv == IInv /\ [Next]_vars => IInv'
<1> SUFFICES ASSUME IInv, [Next]_vars PROVE IInv'
  OBVIOUS
<1>1. Switches /\ InHand /\ Values
  BY TypeParts DEF IInv, ThreadInv
<1>2. InHand'
  BY <1>1, InHandNext
<1>3. TypeOK'
  BY <1>1, <1>2, TypeParts, SwitchesNext, ValuesNext, PTL
<1>4. QED
  BY <1>1, <1>2, <1>3, PlaceNext, AccountNext, ThreadNext, RecordNext, SplitNext DEF IInv

-----------------------------------------------------------------------------
(* The promises of the review *)

\* Every variable keeps its shape, and a thread reviews the batch it visits
\* (report_audit_parallel.py).
THEOREM AuditTypes == Spec => []TypeOK
<1>1. IInv => TypeOK
  BY DEF IInv
<1>2. QED
  BY InitIInv, NextIInv, <1>1, PTL DEF Spec

\* A measure is under review on one thread at most, and never again once it is
\* approved, whatever was split, cancelled or resumed (report_audit_batches.py).
THEOREM EveryMeasureReviewedOnce == Spec => []ApprovedOnce
<1>1. IInv => ApprovedOnce
  <2> SUFFICES ASSUME IInv, NEW w \in Workers
               PROVE  /\ reviewing[w] \cap Covered(partition.approved) = {}
                      /\ \A v \in Workers \ {w} : reviewing[w] \cap reviewing[v] = {}
    BY DEF ApprovedOnce
  <2>1. \A v \in Workers : reviewing[v] \subseteq Held(stack[v])
    BY ThreadsRun, HeldMeasures
  <2>2. QED
    BY <2>1 DEF IInv, PlaceInv
<1>2. QED
  BY InitIInv, NextIInv, <1>1, PTL DEF Spec

\* A pass in which no group failed is never refused by the aggregation: its
\* approvals are an exact partition of the measures (aggregate_batches).
THEOREM SuccessfulPassesAccount == Spec => []PassesAccount
<1>1. IInv => PassesAccount
  BY DEF IInv, ThreadInv, PassesAccount
<1>2. QED
  BY InitIInv, NextIInv, <1>1, PTL DEF Spec

\* No approval of an accepted record is older than the sources it is kept for,
\* however passes, revisions and resumed batches follow one another.
THEOREM RecordsBelongToTheirSources == Spec => []AcceptedForItsSources
<1>1. IInv => AcceptedForItsSources
  BY DEF IInv, RecordInv, AcceptedForItsSources
<1>2. QED
  BY InitIInv, NextIInv, <1>1, PTL DEF Spec

\* A pass that fails or is cancelled takes no approval off the record of the
\* same sources (_retain_checkpoint_partitions).
THEOREM FailuresEraseNothing == Spec => ApprovalsKept
<1> DEFINE Keeps == saved'.context = saved.context =>
                      Covered(saved.approved) \subseteq Covered(saved'.approved)
<1>1. IInv /\ [Next]_vars => [Keeps]_vars
  <2> SUFFICES ASSUME IInv, [Next]_vars, saved'.context = saved.context
               PROVE  Covered(saved.approved) \subseteq Covered(saved'.approved)
    BY Zenon
  <2>1. CASE Merge
    <3>1. /\ pc = "running" /\ saved'.context = context
          /\ saved'.approved = partition.approved
      BY <2>1 DEF Merge, Kept
    <3>2. Ready = saved.approved /\ Ready \subseteq partition.approved
      BY <3>1 DEF Ready, IInv, RecordInv
    <3>3. QED
      BY <3>1, <3>2 DEF Covered
  <2>2. CASE UNCHANGED saved
    BY <2>2
  <2>3. QED
    BY <2>1, <2>2 DEF Next, Caller, Worker, Begin, Observe, Withdraw, Revise, Take, Visit,
       Approve, Split, Fail, vars
<1>2. QED
  BY InitIInv, NextIInv, <1>1, PTL DEF Spec, ApprovalsKept
-----------------------------------------------------------------------------
(* One batch: no second opinion on a draft *)

\* A pass starts with nothing kept; while it works, a draft in hand that was answered
\* is one whose answer was malformed.
DraftInv ==
  /\ batchPc \in {"idle", "draft", "validate", "review", "complete", "failed"}
  /\ drafts \in Nat /\ draft \in 0..drafts /\ retained \in 0..drafts
  /\ answered \subseteq 0..drafts
  /\ draftAttempt \in 0..MaxDrafts
  /\ batchPc \in {"draft", "validate", "review"} => retained = 0
  /\ batchPc \in {"validate", "review"} /\ draft \in answered => malformed
  /\ batchPc \in {"validate", "review"} => draft # 0
  /\ NoSecondOpinion

\* A reviewer's answer is recorded with the draft it judged.
LEMMA DraftInvNext == DraftInv /\ [BatchNext]_batchVars => DraftInv'
<1> SUFFICES ASSUME DraftInv, [BatchNext]_batchVars PROVE DraftInv'
  OBVIOUS
<1> USE DEF DraftInv, NoSecondOpinion, MaxDrafts, FailKeeping, Correct
<1>1. CASE BeginPass
  BY <1>1 DEF BeginPass
<1>2. CASE Enlarge
  BY <1>2 DEF Enlarge
<1>3. CASE Draft
  BY <1>3 DEF Draft
<1>4. CASE Validate
  BY <1>4 DEF Validate
<1>5. CASE Review
  <2>1. batchPc = "review" /\ UNCHANGED drafts /\ draft # 0 /\ retained = 0
    BY <1>5 DEF Review
  <2>2. CASE batchPc' = "complete" /\ answered' = answered \cup {draft} /\ UNCHANGED <<draft, draftAttempt, retained>>
    BY <2>1, <2>2
  <2>3. CASE Correct("independent_review") /\ answered' = answered \cup {draft}
    BY <2>1, <2>3
  <2>4. CASE Malformed /\ answered' = answered \cup {draft}
    BY <2>1, <2>4 DEF Malformed
  <2>5. CASE FailKeeping(Unanswered) /\ UNCHANGED answered
    BY <2>1, <2>5 DEF Unanswered
  <2>6. QED
    BY <1>5, <2>2, <2>3, <2>4, <2>5 DEF Review
<1>6. CASE UNCHANGED batchVars
  BY <1>6 DEF batchVars
<1>7. QED
  BY <1>1, <1>2, <1>3, <1>4, <1>5, <1>6 DEF BatchNext

\* Whatever the passes, corrections and failures of one batch, a draft that is kept for
\* the next pass was never answered (report_audit_draft_resume.py).
THEOREM DraftsJudgedOnce == BatchSpec => []NoSecondOpinion
<1>1. BatchInit => DraftInv
  BY DEF BatchInit, DraftInv, NoSecondOpinion, MaxDrafts
<1>2. DraftInv => NoSecondOpinion
  BY DEF DraftInv
<1>3. QED
  BY <1>1, <1>2, DraftInvNext, PTL DEF BatchSpec

-----------------------------------------------------------------------------
(* The gates *)

Places == {"cover", "audit", "budget", "fits", "propose", "audit_again", "restored",
           "deferred", "required", "integrate", "integrated", "review", "measure",
           "complete", "localize", "layout", "published", "partial"}

\* Where the deck has been settled, by kind of analysis.
Early     == {"cover", "audit", "budget"}
Weighed   == {"review", "measure", "complete", "localize", "layout", "published"}
Completed == {"localize", "layout", "published"}

\* From here on the gates have required a briefing.
Briefed == {"integrate", "integrated"} \cup Weighed

\* A settled deck changes no more.
SettledInv ==
  /\ kind = "catalog" /\ gatePc \notin Early \cup {"partial"} => deck.prepared
  /\ kind = "retained" /\ gatePc \in Weighed => deck.prepared

\* The completion check compared every verdict with the result as it is.
VerdictInv == gatePc \in Completed => AuditCurrent(deck) /\ IntegrationCurrent /\ CoverageCurrent

\* A briefing is as old as the assurance, but for a candidate that was not taken;
\* where there is none, one is deferred or was found unavailable.
BriefInv ==
  /\ brief # NoBrief => brief.id # 0
  /\ gatePc \notin {"propose", "partial"} /\ brief # NoBrief => brief.assurance = assurance
  /\ gatePc # "partial" /\ brief = NoBrief => deferred \/ unavailable
  /\ gatePc = "required" /\ brief = NoBrief => ~deferred
  /\ gatePc \in Briefed => brief # NoBrief

\* One briefing after the first measurement, one per proposal, one deferred.
PaidInv ==
  /\ gatePc \in Early \cup {"fits"} => attempt = 0 /\ written = 0
  /\ gatePc = "propose" => attempt < Proposals /\ written <= 1 + attempt
  /\ gatePc \in {"audit_again", "restored", "deferred"} => written <= 1 + attempt
  /\ attempt <= Proposals /\ written <= 2 + Proposals

GInv ==
  /\ GatesTypeOK
  /\ SettledInv
  /\ VerdictInv
  /\ BriefInv
  /\ PaidInv
  /\ PublishedDeckFits

\* The groups of variables, visible in every proof below.
USE DEF verdicts, given, gatesVars, NoBrief, NoVerdict, Proposals

-----------------------------------------------------------------------------
(* Types *)

Decks == [topics : Nat, plan : Nat, targets : SUBSET Measures, prepared : BOOLEAN]

\* A deck that is measured is a deck, settled, and unchanged if it was.
LEMMA SettledDeck ==
  ASSUME GatesTypeOK, NEW d \in Settled(deck)
  PROVE  d \in Decks /\ d.prepared /\ (deck.prepared => d = deck)
<1>1. CASE deck.prepared
  BY <1>1 DEF Settled, GatesTypeOK, Decks
<1>2. CASE ~deck.prepared
  <2>1. PICK c \in {0, 1}, t \in SUBSET Measures :
          d = [topics |-> deck.topics + c, plan |-> deck.plan + 1, targets |-> t, prepared |-> TRUE]
    BY <1>2 DEF Settled
  <2>2. deck.topics + c \in Nat /\ deck.plan + 1 \in Nat
    BY DEF GatesTypeOK
  <2>3. QED
    BY <1>2, <2>1, <2>2 DEF Decks
<1>3. QED
  BY <1>1, <1>2

Stages == {"none", "presentation_coverage", "report_audit_scope", "presentation_budget",
           "executive_brief", "source_integration", "final_presentation_layout"}

Ends     == gatePc \in Places /\ stage \in Stages
GateSwitches == /\ kind \in {"catalog", "retained"} /\ sources \in BOOLEAN /\ restored \in BOOLEAN
                /\ deferred \in BOOLEAN /\ unavailable \in BOOLEAN /\ localized \in BOOLEAN
Results  == /\ deck \in Decks /\ accepted \in SUBSET Measures /\ assurance \in Nat
            /\ brief \in [id : Int, assurance : Nat] /\ original \in Int
Judged   == /\ covered \in Nat /\ integrated \in Int \X Nat /\ reviewed \in Nat \X Nat
            /\ measured \in Nat \X Int \X BOOLEAN \X BOOLEAN
Paid     == attempt \in 0..Proposals /\ written \in Nat

\* A gate goes on to another one or leaves a partial result.
LEMMA EndsNext == Ends /\ [GatesNext]_gatesVars => Ends'
<1> SUFFICES ASSUME Ends, [GatesNext]_gatesVars PROVE Ends'
  OBVIOUS
<1> USE DEF Ends, Places, Stages, FailGate
<1>1. CASE Cover \/ AuditFirst \/ SkipBudget \/ MeasureBudget
  BY <1>1 DEF Cover, AuditFirst, SkipBudget, MeasureBudget, RefreshFails
<1>2. CASE BudgetFits \/ AuditAgain \/ Recheck
  BY <1>2 DEF BudgetFits, AuditAgain, Recheck, RefreshFails
<1>3. CASE Propose
  BY <1>3 DEF Propose, Reject, Accept, Discard, RefreshFails, NextProposal
<1>4. CASE CompleteDeferred \/ RequireBrief \/ Integrate
  BY <1>4 DEF CompleteDeferred, RequireBrief, Integrate
<1>5. CASE RequireSources \/ ReviewRetained \/ MeasureFinal
  BY <1>5 DEF RequireSources, ReviewRetained, MeasureFinal
<1>6. CASE CheckComplete \/ Localize \/ CheckLayout \/ UNCHANGED gatesVars
  BY <1>6 DEF CheckComplete, Localize, CheckLayout
<1>7. QED
  BY <1>1, <1>2, <1>3, <1>4, <1>5, <1>6 DEF GatesNext

LEMMA GateSwitchesNext == GateSwitches /\ [GatesNext]_gatesVars => GateSwitches'
<1> SUFFICES ASSUME GateSwitches, [GatesNext]_gatesVars PROVE GateSwitches'
  OBVIOUS
<1>1. UNCHANGED <<kind, sources, restored, unavailable>>
  BY Zenon DEF GatesNext, Cover, AuditFirst, SkipBudget, MeasureBudget, BudgetFits, Propose,
     AuditAgain, Recheck, CompleteDeferred, RequireBrief, Integrate, RequireSources,
     ReviewRetained, MeasureFinal, CheckComplete, Localize, CheckLayout
<1>2. UNCHANGED deferred \/ deferred' = TRUE
  BY Zenon DEF GatesNext, Cover, AuditFirst, SkipBudget, MeasureBudget, BudgetFits, Propose,
     AuditAgain, Recheck, CompleteDeferred, RequireBrief, Integrate, RequireSources,
     ReviewRetained, MeasureFinal, CheckComplete, Localize, CheckLayout, Refresh
<1>3. UNCHANGED localized \/ localized' \in BOOLEAN
  BY Zenon DEF GatesNext, Cover, AuditFirst, SkipBudget, MeasureBudget, BudgetFits, Propose,
     AuditAgain, Recheck, CompleteDeferred, RequireBrief, Integrate, RequireSources,
     ReviewRetained, MeasureFinal, CheckComplete, Localize, CheckLayout
<1>4. QED
  BY <1>1, <1>2, <1>3, Zenon DEF GateSwitches

\* What the gates can change of a result.
LEMMA ResultsNext == GatesTypeOK /\ [GatesNext]_gatesVars => Results'
<1> SUFFICES ASSUME GatesTypeOK, [GatesNext]_gatesVars PROVE Results'
  OBVIOUS
<1> USE DEF Results
<1>0. Results /\ written \in Nat /\ \A d \in Settled(deck) : d \in Decks
  BY SettledDeck DEF GatesTypeOK, Decks
<1>1. \A a \in Nat : NewBrief(a) \in [id : Int, assurance : Nat]
  BY <1>0 DEF NewBrief
<1>2. assurance + 1 \in Nat /\ deck.targets \in SUBSET Measures
  BY <1>0 DEF Decks
<1>3. CASE Cover \/ SkipBudget \/ ReviewRetained \/ CheckComplete \/ Localize \/ UNCHANGED gatesVars
  BY <1>0, <1>3 DEF Cover, SkipBudget, ReviewRetained, CheckComplete, Localize
<1>4. CASE AuditFirst \/ AuditAgain
  BY <1>0, <1>2, <1>4 DEF AuditFirst, AuditAgain, Refresh, RefreshFails
<1>5. CASE MeasureBudget \/ MeasureFinal \/ RequireSources \/ CheckLayout
  <2>1. deck' \in Decks /\ UNCHANGED <<accepted, assurance, brief, original>>
    BY <1>0, <1>5 DEF MeasureBudget, MeasureFinal, RequireSources, CheckLayout
  <2>2. QED
    BY <1>0, <2>1
<1>6. CASE BudgetFits
  BY <1>0, <1>1, <1>2, <1>6 DEF BudgetFits, RefreshFails
<1>7. CASE Propose
  <2>1. UNCHANGED original
    BY <1>7 DEF Propose
  <2>2. CASE Reject
    BY <1>0, <2>1, <2>2 DEF Reject
  <2>3. ASSUME NEW t \in SUBSET Measures, NEW d,
               d = [topics |-> deck.topics + 1, plan |-> deck.plan + 1, targets |-> t, prepared |-> TRUE]
        PROVE  /\ d \in Decks
               /\ Assure(d) /\ (Accept(d) \/ Discard) => Results'
               /\ RefreshFails(d) /\ UNCHANGED <<deck, assurance, brief>> => Results'
    <3>1. deck.topics + 1 \in Nat /\ deck.plan + 1 \in Nat
      BY <1>0 DEF Decks
    <3>2. d \in Decks /\ d.targets \in SUBSET Measures
      BY <2>3, <3>1 DEF Decks
    <3>3. ASSUME Assure(d) PROVE assurance' \in Nat /\ accepted' \in SUBSET Measures
      BY <1>0, <1>2, <3>2, <3>3 DEF Assure
    <3>4. ASSUME Assure(d), Accept(d) PROVE Results'
      BY <1>0, <1>1, <2>1, <3>2, <3>3, <3>4 DEF Accept
    <3>5. ASSUME Assure(d), Discard PROVE Results'
      BY <1>0, <2>1, <3>3, <3>5 DEF Discard
    <3>6. ASSUME RefreshFails(d), UNCHANGED <<deck, assurance, brief>> PROVE Results'
      BY <1>0, <2>1, <3>6 DEF RefreshFails
    <3>7. QED
      BY <3>2, <3>4, <3>5, <3>6
  <2>4. QED
    BY <1>7, <2>2, <2>3 DEF Propose
<1>8. CASE Recheck \/ RequireBrief
  BY <1>0, <1>8 DEF Recheck, RequireBrief
<1>9. CASE CompleteDeferred
  BY <1>0, <1>1, <1>9 DEF CompleteDeferred
<1>10. CASE Integrate
  BY <1>0, <1>10 DEF Integrate
<1>11. QED
  BY <1>3, <1>4, <1>5, <1>6, <1>7, <1>8, <1>9, <1>10 DEF GatesNext

\* The verdicts and measurements are of versions the deck and the briefing had.
LEMMA JudgedNext == GatesTypeOK /\ Results' /\ [GatesNext]_gatesVars => Judged'
<1> SUFFICES ASSUME GatesTypeOK, Results', [GatesNext]_gatesVars PROVE Judged'
  OBVIOUS
<1> USE DEF Judged
<1>1. /\ Judged /\ deck \in Decks /\ deck' \in Decks /\ localized \in BOOLEAN
      /\ assurance \in Nat /\ brief \in [id : Int, assurance : Nat]
      /\ brief' \in [id : Int, assurance : Nat]
  BY DEF GatesTypeOK, Results, Decks
<1>2. /\ deck.topics \in Nat /\ deck'.topics \in Nat /\ deck.plan \in Nat /\ deck'.plan \in Nat
      /\ brief.id \in Int /\ brief'.id \in Int
  BY <1>1 DEF Decks
<1>3. CASE Cover \/ AuditFirst \/ SkipBudget \/ AuditAgain \/ Recheck \/ RequireBrief \/ CheckComplete
           \/ Localize \/ UNCHANGED gatesVars
  BY <1>1, <1>3 DEF Cover, AuditFirst, SkipBudget, AuditAgain, Recheck, RequireBrief, CheckComplete,
     Localize
<1>4. ASSUME NEW b, b \in {brief, brief'}, NEW fits \in BOOLEAN, Measure(deck', b, fits)
      PROVE  measured' \in Nat \X Int \X BOOLEAN \X BOOLEAN
  BY <1>1, <1>2, <1>4 DEF Measure
<1>5. Rebind(deck') => covered' \in Nat
  BY <1>1, <1>2 DEF Rebind
<1>6. CASE MeasureBudget
  BY <1>1, <1>4, <1>5, <1>6 DEF MeasureBudget
<1>7. CASE BudgetFits
  <2>1. covered' = covered /\ integrated' = integrated /\ reviewed' = reviewed /\ deck' = deck
    BY <1>7 DEF BudgetFits
  <2>2. UNCHANGED measured \/ \E fits \in BOOLEAN : Measure(deck', brief', fits)
    BY <1>7, <2>1, Zenon DEF BudgetFits
  <2>3. QED
    BY <1>1, <1>4, <2>1, <2>2
<1>8. CASE Propose
  <2>1. integrated' = integrated /\ reviewed' = reviewed
    BY <1>8 DEF Propose
  <2>2. UNCHANGED <<covered, measured>> \/ (Rebind(deck') /\ Measure(deck', brief', TRUE))
    BY <1>8 DEF Propose, Reject, Accept, Discard
  <2>3. QED
    BY <1>1, <1>4, <1>5, <2>1, <2>2
<1>9. CASE CompleteDeferred
  BY <1>1, <1>4, <1>5, <1>9 DEF CompleteDeferred
<1>10. CASE Integrate
  BY <1>1, <1>2, <1>10 DEF Integrate
<1>11. CASE RequireSources \/ MeasureFinal \/ CheckLayout
  BY <1>1, <1>4, <1>5, <1>11 DEF RequireSources, MeasureFinal, CheckLayout
<1>12. CASE ReviewRetained
  BY <1>1, <1>2, <1>12 DEF ReviewRetained
<1>13. QED
  BY <1>3, <1>6, <1>7, <1>8, <1>9, <1>10, <1>11, <1>12 DEF GatesNext

-----------------------------------------------------------------------------
(* What the gates pay for *)

LEMMA PaidNext == GatesTypeOK /\ PaidInv /\ [GatesNext]_gatesVars => PaidInv' /\ Paid'
<1> SUFFICES ASSUME GatesTypeOK, PaidInv, [GatesNext]_gatesVars PROVE PaidInv' /\ Paid'
  OBVIOUS
<1> USE DEF PaidInv, Paid, Early, FailGate
<1>0. attempt \in 0..Proposals /\ written \in Nat
  BY DEF GatesTypeOK
<1>1. CASE Cover \/ AuditFirst \/ SkipBudget \/ MeasureBudget
  BY <1>0, <1>1 DEF Cover, AuditFirst, SkipBudget, MeasureBudget, RefreshFails
<1>2. CASE BudgetFits \/ AuditAgain \/ Recheck
  BY <1>0, <1>2 DEF BudgetFits, AuditAgain, Recheck, RefreshFails
<1>3. CASE Propose
  <2>1. /\ gatePc = "propose" /\ attempt' = attempt + 1
        /\ written' \in {written, written + 1}
    BY <1>3 DEF Propose, Reject
  <2>2. \/ gatePc' \in {"partial", "audit_again"}
        \/ gatePc' = "propose" /\ attempt + 1 # Proposals
    BY <1>3 DEF Propose, Reject, Accept, Discard, NextProposal, RefreshFails
  <2>3. QED
    BY <1>0, <2>1, <2>2
<1>4. CASE CompleteDeferred \/ RequireBrief \/ Integrate
  <2>1. UNCHANGED attempt /\ gatePc' \in {"required", "integrate", "integrated", "partial"}
    BY <1>4 DEF CompleteDeferred, RequireBrief, Integrate
  <2>2. UNCHANGED written \/ (gatePc = "deferred" /\ written' = written + 1)
    BY <1>4 DEF CompleteDeferred, RequireBrief, Integrate
  <2>3. QED
    BY <1>0, <2>1, <2>2
<1>5. CASE RequireSources \/ ReviewRetained \/ MeasureFinal
  BY <1>0, <1>5 DEF RequireSources, ReviewRetained, MeasureFinal
<1>6. CASE CheckComplete \/ Localize \/ CheckLayout \/ UNCHANGED gatesVars
  BY <1>0, <1>6 DEF CheckComplete, Localize, CheckLayout
<1>7. QED
  BY <1>1, <1>2, <1>3, <1>4, <1>5, <1>6 DEF GatesNext

LEMMA TypesNext == GatesTypeOK /\ PaidInv /\ [GatesNext]_gatesVars => GatesTypeOK'
<1> SUFFICES ASSUME GatesTypeOK, PaidInv, [GatesNext]_gatesVars PROVE GatesTypeOK'
  OBVIOUS
<1>1. Ends /\ GateSwitches
  BY DEF GatesTypeOK, Ends, GateSwitches, Places, Stages
<1>2. Ends' /\ GateSwitches' /\ Results' /\ Paid'
  BY <1>1, EndsNext, GateSwitchesNext, ResultsNext, PaidNext
<1>3. Judged'
  BY <1>2, JudgedNext
<1>4. QED
  BY <1>2, <1>3 DEF GatesTypeOK, Ends, GateSwitches, Results, Judged, Paid, Places, Stages, Decks

-----------------------------------------------------------------------------
(* The deck is settled *)

LEMMA SettledNext == GatesTypeOK /\ SettledInv /\ [GatesNext]_gatesVars => SettledInv'
<1> SUFFICES ASSUME GatesTypeOK, SettledInv, [GatesNext]_gatesVars PROVE SettledInv'
  OBVIOUS
<1> USE DEF SettledInv, Early, Weighed, FailGate
<1>1. \A d \in Settled(deck) : d.prepared
  BY SettledDeck
<1>2. CASE Cover \/ AuditFirst \/ SkipBudget \/ AuditAgain \/ Recheck \/ UNCHANGED gatesVars
  BY <1>2 DEF Cover, AuditFirst, SkipBudget, AuditAgain, Recheck, RefreshFails, GatesTypeOK
<1>3. CASE MeasureBudget
  BY <1>1, <1>3 DEF MeasureBudget
<1>4. CASE BudgetFits
  BY <1>4 DEF BudgetFits, RefreshFails, GatesTypeOK
<1>5. CASE Propose
  <2>0. ASSUME NEW t \in SUBSET Measures, NEW d,
               d = [topics |-> deck.topics + 1, plan |-> deck.plan + 1, targets |-> t, prepared |-> TRUE],
               Accept(d)
        PROVE  deck'.prepared
    BY <2>0 DEF Accept
  <2>1. UNCHANGED kind /\ (UNCHANGED deck \/ deck'.prepared)
    BY <1>5, <2>0 DEF Propose, Reject, Discard
  <2>2. gatePc' \in {"partial", "audit_again", "propose"} /\ gatePc = "propose"
    BY <1>5 DEF Propose, Reject, Accept, Discard, NextProposal, RefreshFails
  <2>3. QED
    BY <2>1, <2>2
<1>6. CASE CompleteDeferred
  BY <1>1, <1>6 DEF CompleteDeferred
<1>7. CASE RequireBrief \/ Integrate \/ ReviewRetained \/ CheckComplete \/ Localize
  BY <1>7 DEF RequireBrief, Integrate, ReviewRetained, CheckComplete, Localize, GatesTypeOK
<1>8. CASE RequireSources \/ MeasureFinal \/ CheckLayout
  BY <1>1, <1>8 DEF RequireSources, MeasureFinal, CheckLayout, GatesTypeOK
<1>9. QED
  BY <1>2, <1>3, <1>4, <1>5, <1>6, <1>7, <1>8 DEF GatesNext

-----------------------------------------------------------------------------
(* The verdicts are of what is published *)

LEMMA VerdictNext == GatesTypeOK /\ SettledInv /\ VerdictInv /\ [GatesNext]_gatesVars => VerdictInv'
<1> SUFFICES ASSUME GatesTypeOK, SettledInv, VerdictInv, [GatesNext]_gatesVars, gatePc' \in Completed
             PROVE  AuditCurrent(deck)' /\ IntegrationCurrent' /\ CoverageCurrent'
  BY DEF VerdictInv
<1> USE DEF Completed
<1>1. CheckComplete \/ Localize \/ CheckLayout \/ UNCHANGED gatesVars
  BY DEF GatesNext, Cover, AuditFirst, SkipBudget, MeasureBudget, BudgetFits, Propose, AuditAgain,
     Recheck, CompleteDeferred, RequireBrief, Integrate, RequireSources, ReviewRetained,
     MeasureFinal, Reject, Accept, Discard, NextProposal, RefreshFails, FailGate
<1>2. CASE CheckComplete \/ Localize \/ UNCHANGED gatesVars
  BY <1>2 DEF CheckComplete, Localize, FailGate, VerdictInv, AuditCurrent, IntegrationCurrent,
     CoverageCurrent
<1>3. CASE CheckLayout
  <2>1. deck.prepared /\ gatePc \in Completed
    BY <1>3 DEF CheckLayout, SettledInv, GatesTypeOK, Weighed, Early
  <2>2. UNCHANGED deck
    BY <1>3, <2>1, SettledDeck DEF CheckLayout
  <2>3. UNCHANGED covered \/ covered' = deck.topics
    BY <1>3, <2>2 DEF CheckLayout, Rebind
  <2>4. UNCHANGED <<kind, sources, accepted, assurance, brief, integrated, reviewed>>
    BY <1>3 DEF CheckLayout
  <2>5. AuditCurrent(deck) /\ IntegrationCurrent /\ CoverageCurrent
    BY <2>1 DEF VerdictInv
  <2>6. QED
    BY <2>2, <2>3, <2>4, <2>5 DEF AuditCurrent, IntegrationCurrent, CoverageCurrent
<1>4. QED
  BY <1>1, <1>2, <1>3

LEMMA FitsNext == PublishedDeckFits /\ [GatesNext]_gatesVars => PublishedDeckFits'
<1> SUFFICES ASSUME PublishedDeckFits, [GatesNext]_gatesVars, gatePc' = "published"
             PROVE  measured' = <<deck'.plan, brief'.id, localized', TRUE>>
  BY DEF PublishedDeckFits, Published
<1>1. CheckLayout \/ UNCHANGED gatesVars
  BY DEF GatesNext, Cover, AuditFirst, SkipBudget, MeasureBudget, BudgetFits, Propose, AuditAgain,
     Recheck, CompleteDeferred, RequireBrief, Integrate, RequireSources, ReviewRetained,
     MeasureFinal, CheckComplete, Localize, Reject, Accept, Discard, NextProposal, RefreshFails,
     FailGate
<1>2. CASE CheckLayout
  BY <1>2 DEF CheckLayout, Measure, FailGate
<1>3. CASE UNCHANGED gatesVars
  BY <1>3 DEF PublishedDeckFits, Published
<1>4. QED
  BY <1>1, <1>2, <1>3

-----------------------------------------------------------------------------
(* The briefing *)

LEMMA BriefNext == GatesTypeOK /\ BriefInv /\ [GatesNext]_gatesVars => BriefInv'
<1> SUFFICES ASSUME GatesTypeOK, BriefInv, [GatesNext]_gatesVars PROVE BriefInv'
  OBVIOUS
<1> USE DEF BriefInv, Briefed, Weighed, FailGate
<1>0. /\ written \in Nat /\ assurance \in Nat /\ brief \in [id : Int, assurance : Nat]
      /\ deferred \in BOOLEAN /\ unavailable \in BOOLEAN
  BY DEF GatesTypeOK
<1>1. \A a : NewBrief(a).id # 0 /\ NewBrief(a) # NoBrief /\ NewBrief(a).assurance = a
  BY <1>0 DEF NewBrief
<1>2. CASE Cover \/ SkipBudget \/ MeasureBudget \/ UNCHANGED gatesVars
  BY <1>2 DEF Cover, SkipBudget, MeasureBudget
<1>3. CASE AuditFirst \/ AuditAgain
  <2>1. UNCHANGED unavailable /\ gatePc \in {"audit", "audit_again"}
    BY <1>3 DEF AuditFirst, AuditAgain
  <2>2. \/ UNCHANGED <<assurance, brief, deferred>>
        \/ brief' = NoBrief /\ deferred' = TRUE
    BY <1>3 DEF AuditFirst, AuditAgain, Refresh
  <2>3. gatePc' \in {"budget", "restored", "partial"}
    BY <1>3 DEF AuditFirst, AuditAgain, RefreshFails
  <2>4. QED
    BY <2>1, <2>2, <2>3
<1>4. CASE BudgetFits
  <2>1. /\ gatePc = "fits" /\ UNCHANGED <<deferred, unavailable>>
        /\ gatePc' \in {"audit_again", "propose", "partial"}
    BY <1>4 DEF BudgetFits, RefreshFails
  <2>2. \/ UNCHANGED <<brief, assurance>>
        \/ brief' = NewBrief(assurance')
        \/ brief' = NoBrief /\ gatePc' = "partial"
    BY <1>4 DEF BudgetFits
  <2>3. QED
    BY <1>1, <2>1, <2>2
<1>5. CASE Propose
  <2>1. /\ gatePc = "propose" /\ UNCHANGED <<deferred, unavailable>>
        /\ gatePc' \in {"audit_again", "propose", "partial"}
    BY <1>5 DEF Propose, Reject, Accept, Discard, NextProposal, RefreshFails
  <2>2. \/ brief' = NewBrief(assurance')
        \/ UNCHANGED brief /\ gatePc' # "audit_again"
    BY <1>5 DEF Propose, Reject, Accept, Discard, NextProposal, RefreshFails
  <2>3. QED
    BY <1>1, <2>1, <2>2
<1>6. CASE Recheck
  BY <1>6 DEF Recheck
<1>7. CASE CompleteDeferred
  <2>1. gatePc = "deferred" /\ gatePc' \in {"required", "partial"} /\ UNCHANGED <<deferred, unavailable, assurance>>
    BY <1>7 DEF CompleteDeferred
  <2>2. \/ brief' = NewBrief(assurance)
        \/ UNCHANGED brief /\ (gatePc' = "partial" \/ ~(deferred /\ brief = NoBrief))
    BY <1>7 DEF CompleteDeferred
  <2>3. QED
    BY <1>1, <2>1, <2>2
<1>8. CASE RequireBrief
  <2>1. /\ gatePc = "required" /\ UNCHANGED <<brief, assurance, deferred, unavailable>>
        /\ \/ gatePc' = "partial"
           \/ gatePc' = "integrate" /\ ~(brief = NoBrief /\ unavailable)
    BY <1>8, <1>0 DEF RequireBrief
  <2>2. QED
    BY <1>0, <2>1
<1>9. CASE Integrate
  <2>1. gatePc = "integrate" /\ gatePc' = "integrated" /\ UNCHANGED <<assurance, deferred, unavailable>>
    BY <1>9 DEF Integrate
  <2>2. brief' \in {brief, [brief EXCEPT !.id = -@]}
    BY <1>9 DEF Integrate
  <2>3. /\ brief # NoBrief /\ brief.id # 0
        /\ brief.assurance = assurance
    BY <2>1
  <2>4. brief'.id # 0 /\ brief'.assurance = assurance
    BY <1>0, <2>2, <2>3
  <2>5. QED
    BY <2>1, <2>4
<1>10. CASE RequireSources \/ ReviewRetained \/ MeasureFinal
  BY <1>10 DEF RequireSources, ReviewRetained, MeasureFinal
<1>11. CASE CheckComplete \/ Localize \/ CheckLayout
  BY <1>11 DEF CheckComplete, Localize, CheckLayout
<1>12. QED
  BY <1>2, <1>3, <1>4, <1>5, <1>6, <1>7, <1>8, <1>9, <1>10, <1>11 DEF GatesNext

-----------------------------------------------------------------------------
(* What is published *)

LEMMA GatesStart == GatesInit => GInv
<1> SUFFICES ASSUME GatesInit PROVE GInv
  OBVIOUS
<1> USE DEF GatesInit
<1>1. GatesTypeOK
  <2>1. restored \in BOOLEAN
    BY Zenon
  <2>2. deck \in [topics : {1}, plan : {1}, targets : SUBSET Measures, prepared : {FALSE}]
    OBVIOUS
  <2>3. deck \in [topics : Nat, plan : Nat, targets : SUBSET Measures, prepared : BOOLEAN]
    <3>1. {1} \subseteq Nat /\ {FALSE} \subseteq BOOLEAN
      OBVIOUS
    <3>2. QED
      BY <2>2, <3>1, Zenon
  <2>4. brief \in {NoBrief, [id |-> 1, assurance |-> 0]}
    OBVIOUS
  <2>5. brief \in [id : Int, assurance : Nat]
    <3> HIDE DEF GatesInit
    <3>1. QED
      BY <2>4
  <2>6. /\ gatePc = "cover" /\ stage = "none" /\ kind \in {"catalog", "retained"}
        /\ sources \in BOOLEAN /\ deferred \in BOOLEAN /\ unavailable \in BOOLEAN
        /\ accepted \in {{}, Measures} /\ covered \in {0, 1} /\ localized = FALSE
        /\ assurance = 0 /\ original = 0 /\ attempt = 0 /\ written = 0
    BY Zenon
  <2>7. integrated = <<0, 0>> /\ reviewed = <<0, 0>> /\ measured = <<0, 0, FALSE, FALSE>>
    BY Zenon
  <2>8. /\ integrated \in Int \X Nat /\ reviewed \in Nat \X Nat
        /\ measured \in Nat \X Int \X BOOLEAN \X BOOLEAN
    <3>1. 0 \in Nat /\ 0 \in Int /\ FALSE \in BOOLEAN
      OBVIOUS
    <3> HIDE DEF GatesInit
    <3>2. integrated \in Int \X Nat /\ reviewed \in Nat \X Nat
      BY <2>7
    <3>3. measured \in Nat \X Int \X BOOLEAN \X BOOLEAN
      BY <2>7, <3>1, Zenon
    <3>4. QED
      BY <3>2, <3>3
  <2>9. covered \in Nat /\ assurance \in Nat /\ original \in Int /\ attempt \in 0..Proposals /\ written \in Nat
    <3> HIDE DEF GatesInit
    <3>1. QED
      BY <2>6
  <2>10. accepted \in SUBSET Measures
    BY <2>6
  <2>11. QED
    <3> HIDE DEF GatesInit
    <3>1. QED
      BY <2>1, <2>3, <2>5, <2>6, <2>8, <2>9, <2>10, Zenon DEF GatesTypeOK
<1>2. SettledInv /\ VerdictInv /\ PublishedDeckFits
  BY DEF SettledInv, Early, Weighed, VerdictInv, Completed, PublishedDeckFits, Published
<1>3. BriefInv
  BY DEF BriefInv, Briefed, Weighed
<1>4. PaidInv
  BY DEF PaidInv, Early
<1>5. QED
  BY <1>1, <1>2, <1>3, <1>4 DEF GInv

LEMMA GatesStep == GInv /\ [GatesNext]_gatesVars => GInv'
  BY TypesNext, SettledNext, VerdictNext, BriefNext, PaidNext, FitsNext DEF GInv

THEOREM GatesHold == GatesSpec => []GInv
  BY GatesStart, GatesStep, PTL DEF GatesSpec

\* Every variable keeps its shape: versions are natural numbers, proposals at most
\* two, a partial result names one of the stages.
THEOREM GateTypes == GatesSpec => []GatesTypeOK
  BY GatesHold, PTL DEF GInv

\* The published deck is the measured one (check_final_presentation_layout).
THEOREM DeckFits == GatesSpec => []PublishedDeckFits
  BY GatesHold, PTL DEF GInv

\* No gate after the completion check changes what the verdicts are of
\* (orchestrator.py:800-954, pipeline_completion.is_complete).
THEOREM VerdictsCurrent == GatesSpec => []PublishedVerdictsCurrent
<1>1. GatesTypeOK /\ VerdictInv => PublishedVerdictsCurrent
  BY DEF GatesTypeOK, VerdictInv, Completed, AuditCurrent, IntegrationCurrent, CoverageCurrent,
     PublishedVerdictsCurrent, Published
<1>2. QED
  BY GatesHold, <1>1, PTL DEF GInv

\* A published briefing was written under the audit scope that is published.
THEOREM BriefCurrent == GatesSpec => []BriefKnowsAssurance
<1>1. BriefInv => BriefKnowsAssurance
  BY DEF BriefInv, Briefed, Weighed, BriefKnowsAssurance, Published
<1>2. QED
  BY GatesHold, <1>1, PTL DEF GInv

\* One briefing beside the first measurement, one for either proposal, one deferred.
THEOREM BriefingsPaid == GatesSpec => []BriefingsBounded
<1>1. GatesTypeOK /\ PaidInv => BriefingsBounded
  BY DEF GatesTypeOK, PaidInv, BriefingsBounded
<1>2. QED
  BY GatesHold, <1>1, PTL DEF GInv

-----------------------------------------------------------------------------
(* The exports *)

\* What a step of an export keeps of its record.
Fields == {"style", "force", "qa", "narrowed", "hit", "deck", "preflight", "visual",
           "outcome", "cause", "stage"}

ShapeInv ==
  /\ faults \in Worlds /\ DOMAIN run = Fields
  /\ result \in [plan : 0..MaxPlan, rest : 1..MaxRest]
  /\ exportPc \in {"idle", "start", "recover", "prepare", "qa", "lookup", "require", "compose",
                   "preflight", "stable", "verify", "store"}

\* An export that runs has no verdict; what it has checked is the result's own.
RunInv ==
  /\ exportPc # "idle" => run.outcome = "running" /\ run.cause = ""
  /\ exportPc \notin {"idle", "start"} => ~Fails("introduction", result)
  /\ exportPc \in {"start", "recover", "prepare", "qa"} => run.preflight = "none" /\ run.visual = "none"
  /\ exportPc \notin {"idle", "store"} => run.visual = "none"
  /\ exportPc \notin {"idle"} => run.preflight # "failed"
  /\ run.outcome \in {"running", "ready", "failed", "blocked", "interrupted", "revised", "none"}

\* From the composition on, the deck is the result's.
DeckInv ==
  /\ exportPc \in {"preflight", "stable", "verify", "store"} => run.deck = Current
  /\ exportPc \in {"preflight", "stable", "verify", "store"} => ~Fails("reviews", result) /\ ~Fails("plan", result)
  /\ exportPc \in {"stable", "verify", "store"} => ~Fails("preflight", result) /\ ~Fails("deck", result)
  /\ exportPc \in {"verify", "store"} => Stable

\* The evidence was checked as it is composed, or narrowed while it was composed.
EvidenceInv ==
  /\ exportPc \in {"lookup", "require", "compose"} /\ Critical(result) => run.force /\ approved = Unset
  /\ exportPc \in {"preflight", "stable", "verify", "store"} /\ Critical(result) =>
       (run.force /\ approved = Unset) \/ (run.narrowed /\ ~run.hit)
  /\ exportPc \notin {"idle", "stable", "verify", "store"} => ~run.hit

\* The cache holds the deck of the result it is keyed by, and no gate failed for it.
BuildInv ==
  build # Unset =>
    /\ build.deck = [plan |-> build.key.result.plan, rest |-> build.key.result.rest, style |-> build.key.style]
    /\ \A g \in {"introduction", "reviews", "plan", "preflight", "deck"} :
         [gate |-> g, plan |-> build.key.result.plan, rest |-> build.key.result.rest,
          style |-> build.key.style] \notin faults

ExportInv ==
  /\ ShapeInv /\ RunInv /\ DeckInv /\ EvidenceInv /\ BuildInv
  /\ ServedIsCurrent /\ ApprovedServedAsApproved /\ ServedEvidenceSound /\ DiagnosisNamesCause
  /\ Served => exportPc = "idle"


USE DEF exportVars

\* A preparation returns a version that is in bounds.
LEMMA PreparedInBounds ==
  ASSUME ShapeInv, NEW r \in Prepared(result)
  PROVE  r \in [plan : 0..MaxPlan, rest : 1..MaxRest] /\ (r.plan = 0 <=> result.plan = 0)
  BY DEF Prepared, ShapeInv

LEMMA RevisedPrepared == ASSUME NEW r, r \in Revised(result) PROVE r \in Prepared(result)
  BY DEF Revised

\* An introduction that is verified is verified in every version.
LEMMA IntroductionKept ==
  ASSUME ShapeInv, ~Fails("introduction", result), NEW r \in [plan : 0..MaxPlan, rest : 1..MaxRest]
  PROVE  ~Fails("introduction", r)
<1>1. SUFFICES ASSUME Fails("introduction", r) PROVE Fails("introduction", result)
  OBVIOUS
<1>2. DEFINE f == [gate |-> "introduction", plan |-> r.plan, rest |-> r.rest, style |-> run.style]
<1>3. f \in faults /\ faults \in Worlds
  BY <1>1 DEF Fails, ShapeInv
<1>4. f.gate = "introduction" /\ f.style = run.style
  OBVIOUS
<1>5. \A p \in 0..MaxPlan, q \in 1..MaxRest :
        [gate |-> "introduction", plan |-> p, rest |-> q, style |-> f.style] \in faults
  BY <1>3, <1>4, ExportAssumption
<1>6. result.plan \in 0..MaxPlan /\ result.rest \in 1..MaxRest
  BY DEF ShapeInv
<1>7. QED
  BY <1>4, <1>5, <1>6 DEF Fails

LEMMA ExportStart == ExportInit => ExportInv
<1> SUFFICES ASSUME ExportInit PROVE ExportInv
  OBVIOUS
<1>1. ShapeInv
  <2>1. PICK p \in {0, 1} : result = [plan |-> p, rest |-> 1]
    BY DEF ExportInit
  <2>2. p \in 0..MaxPlan /\ 1 \in 1..MaxRest
    BY ExportAssumption
  <2>3. result \in [plan : 0..MaxPlan, rest : 1..MaxRest]
    BY <2>1, <2>2
  <2>4. DOMAIN run = Fields
    BY DEF ExportInit, NewRun, Fields
  <2>5. QED
    BY <2>3, <2>4 DEF ExportInit, ShapeInv
<1>2. run.outcome = "none" /\ run.cause = "" /\ run.hit = FALSE
  BY DEF ExportInit, NewRun
<1>3. QED
  BY <1>1, <1>2 DEF ExportInv, ExportInit, RunInv, DeckInv, EvidenceInv, BuildInv, ServedIsCurrent,
    ApprovedServedAsApproved, ServedEvidenceSound, DiagnosisNamesCause, Served

LEMMA ShapeNext == ASSUME ExportInv, [ExportNext]_exportVars PROVE ShapeInv'
<1> USE DEF ExportInv
<1>1. CASE Start BY <1>1 DEF Start, ShapeInv, Fields, NewRun
<1>2. CASE RequireIntroduction BY <1>2 DEF RequireIntroduction, Stop, Goto, ShapeInv, Fields
<1>3. CASE RecoverPlan BY <1>3, ExportAssumption DEF RecoverPlan, Goto, ShapeInv, Fields
<1>4. CASE Prepare BY <1>4, PreparedInBounds DEF Prepare, Goto, ShapeInv, Fields
<1>5. CASE CheckEvidence
  <2>1. result' \in [plan : 0..MaxPlan, rest : 1..MaxRest]
    BY <1>5, PreparedInBounds, RevisedPrepared DEF CheckEvidence, ShapeInv
  <2>2. QED
    BY <1>5, <2>1 DEF CheckEvidence, Stop, Goto, ShapeInv, Fields
<1>6. CASE LookUp BY <1>6 DEF LookUp, Goto, ShapeInv, Fields
<1>7. CASE RequireReviews BY <1>7 DEF RequireReviews, Stop, Goto, ShapeInv, Fields
<1>8. CASE Compose BY <1>8, PreparedInBounds DEF Compose, Stop, Goto, ShapeInv, Fields
<1>9. CASE CheckDeck BY <1>9 DEF CheckDeck, Stop, Goto, ShapeInv, Fields
<1>10. CASE RequireStable BY <1>10 DEF RequireStable, Stop, Goto, ShapeInv, Fields
<1>11. CASE Verify BY <1>11 DEF Verify, Stop, Goto, ShapeInv, Fields
<1>12. CASE Store BY <1>12 DEF Store, ShapeInv, Fields
<1>13. CASE Interrupt BY <1>13 DEF Interrupt, ShapeInv, Fields
<1>14. CASE ApproveDraft BY <1>14, PreparedInBounds, RevisedPrepared DEF ApproveDraft, ShapeInv, Fields
<1>15. CASE ShowQuality BY <1>15, PreparedInBounds, RevisedPrepared DEF ShowQuality, ShapeInv, Fields
<1>16. CASE UNCHANGED exportVars BY <1>16 DEF ShapeInv
<1>17. QED
  BY <1>1, <1>2, <1>3, <1>4, <1>5, <1>6, <1>7, <1>8, <1>9, <1>10, <1>11, <1>12, <1>13, <1>14,
    <1>15, <1>16 DEF ExportNext

\* A stop ends the export, and changes nothing the session keeps.
Halted == exportPc' = "idle" /\ run'.outcome \in {"failed", "blocked"} /\ UNCHANGED <<faults, build>>

\* What a step leaves alone.
KeptRun == UNCHANGED <<run, approved, faults, build>>

LEMMA StopHalts ==
  ASSUME NEW r, DOMAIN r = Fields, NEW o \in {"failed", "blocked"}, NEW c, Stop(r, o, c)
  PROVE  Halted /\ run'.cause = c /\ run'.stage = Stage(r)
  BY DEF Stop, Halted, Fields

LEMMA StartStep ==
  ASSUME Start
  PROVE  /\ exportPc' = "start" /\ UNCHANGED <<result, approved, faults, build>>
         /\ run'.outcome = "running" /\ run'.cause = "" /\ ~run'.hit
         /\ run'.preflight = "none" /\ run'.visual = "none"
<1>1. PICK s \in Styles, f \in BOOLEAN : run' = NewRun(s, f)
  BY DEF Start
<1>2. run'.outcome = "running" /\ run'.cause = "" /\ run'.hit = FALSE
      /\ run'.preflight = "none" /\ run'.visual = "none"
  BY <1>1 DEF NewRun
<1>3. QED
  BY <1>2 DEF Start

LEMMA RequireIntroductionStep ==
  ASSUME ShapeInv, RequireIntroduction
  PROVE  /\ exportPc = "start" /\ UNCHANGED result
         /\ \/ Halted /\ (run'.cause = "introduction" => run'.stage = "introduction") /\ run'.cause \in {"introduction", "unstable"}
            \/ exportPc' = "recover" /\ ~Fails("introduction", result) /\ KeptRun
<1>1. CASE Fails("introduction", result)
  BY <1>1, StopHalts DEF RequireIntroduction, ShapeInv, Stage
<1>2. CASE ~Fails("introduction", result) /\ ~Stable
  BY <1>2, StopHalts DEF RequireIntroduction, ShapeInv
<1>3. CASE ~Fails("introduction", result) /\ Stable
  BY <1>3 DEF RequireIntroduction, Goto, KeptRun
<1>4. QED
  BY <1>1, <1>2, <1>3

LEMMA CheckEvidenceStep ==
  ASSUME ShapeInv, RunInv, CheckEvidence
  PROVE  /\ exportPc = "qa" /\ result' \in [plan : 0..MaxPlan, rest : 1..MaxRest]
         /\ \/ Halted /\ (run'.cause = "financial" => run'.stage = "financial") /\ run'.cause \in {"financial", "unstable"}
            \/ /\ exportPc' = "lookup" /\ ~Blocks(result') /\ UNCHANGED <<approved, faults, build>>
               /\ \E v \in {"critical", "passed"} : run' = [run EXCEPT !.qa = v]
<1>1. PICK r \in Prepared(result) :
        /\ result' = r
        /\ LET checked == [run EXCEPT !.qa = IF Critical(r) THEN "critical" ELSE "passed"]
           IN IF ~Stable THEN Stop(checked, "failed", "unstable")
              ELSE IF Blocks(r) THEN Stop(checked, "blocked", "financial")
              ELSE Goto("lookup") /\ run' = checked
  <2>1. CASE approved = Unset
    BY <2>1, RevisedPrepared DEF CheckEvidence
  <2>2. CASE approved # Unset
    <3>1. result \in Prepared(result)
      BY DEF Prepared, ShapeInv
    <3>2. QED
      BY <2>2, <3>1 DEF CheckEvidence
  <2>3. QED
    BY <2>1, <2>2
<1> DEFINE checked == [run EXCEPT !.qa = IF Critical(r) THEN "critical" ELSE "passed"]
<1>2. exportPc = "qa" /\ result' \in [plan : 0..MaxPlan, rest : 1..MaxRest] /\ ~Fails("introduction", result)
  BY <1>1, PreparedInBounds DEF CheckEvidence, RunInv
<1>3. DOMAIN checked = Fields /\ checked.qa = (IF Critical(r) THEN "critical" ELSE "passed")
      /\ checked.preflight = "none" /\ checked.visual = "none"
  BY <1>2 DEF ShapeInv, RunInv, Fields
<1>4. CASE ~Stable
  BY <1>1, <1>2, <1>3, <1>4, StopHalts
<1>5. CASE Stable /\ Blocks(r)
  <2>1. Stage(checked) = "financial"
    BY <1>2, <1>3, <1>5 DEF Stage, Blocks
  <2>2. Stop(checked, "blocked", "financial")
    BY <1>1, <1>5
  <2>3. QED
    BY <1>2, <1>3, <2>1, <2>2, StopHalts
<1>6. CASE Stable /\ ~Blocks(r)
  <2>1. run' = checked /\ Goto("lookup") /\ result' = r
    BY <1>1, <1>6
  <2>2. QED
    BY <1>2, <1>6, <2>1 DEF Goto
<1>7. QED
  BY <1>4, <1>5, <1>6

LEMMA LookUpStep ==
  ASSUME ShapeInv, RunInv, LookUp
  PROVE  /\ exportPc = "lookup" /\ UNCHANGED <<result, approved, faults, build>>
         /\ UNCHANGED <<run.outcome, run.cause, run.force, run.style, run.visual>>
         /\ \/ exportPc' = "require" /\ UNCHANGED run
            \/ /\ exportPc' = "stable" /\ build # Unset /\ build.key = Key
               /\ run'.deck = build.deck /\ run'.preflight = "passed"
  BY DEF LookUp, Goto, ShapeInv, Fields

LEMMA RequireReviewsStep ==
  ASSUME ShapeInv, RunInv, RequireReviews
  PROVE  /\ exportPc = "require" /\ UNCHANGED result
         /\ \/ Halted /\ run'.cause = "reviews"
            \/ exportPc' = "compose" /\ KeptRun
<1>1. exportPc = "require" /\ UNCHANGED result /\ ~Fails("introduction", result)
  BY DEF RequireReviews, RunInv
<1>2. CASE Fails("reviews", result)
  BY <1>1, <1>2, StopHalts DEF RequireReviews, ShapeInv
<1>3. CASE ~Fails("reviews", result)
  BY <1>1, <1>3 DEF RequireReviews, Goto, KeptRun
<1>4. QED
  BY <1>2, <1>3

LEMMA ComposeStep ==
  ASSUME ShapeInv, RunInv, Compose
  PROVE  /\ exportPc = "compose" /\ result' \in Prepared(result)
         /\ \/ Halted /\ run'.cause \in {"plan", "reviews"}
            \/ /\ exportPc' = "preflight" /\ UNCHANGED <<approved, faults, build>>
               /\ ~Fails("plan", result') /\ ~Fails("reviews", result')
               /\ run' = [run EXCEPT !.deck = [plan |-> result'.plan, rest |-> result'.rest, style |-> run.style],
                                     !.narrowed = (result' # result)]
<1> DEFINE r == [run EXCEPT !.deck = [plan |-> result'.plan, rest |-> result'.rest, style |-> run.style],
                             !.narrowed = (result' # result)]
<1>1. DOMAIN r = Fields /\ exportPc = "compose" /\ result' \in Prepared(result)
  BY DEF ShapeInv, Compose
<1>2. CASE Fails("plan", result')
  BY <1>1, <1>2, StopHalts DEF Compose
<1>3. CASE ~Fails("plan", result') /\ Fails("reviews", result')
  BY <1>1, <1>3, StopHalts DEF Compose
<1>4. CASE ~Fails("plan", result') /\ ~Fails("reviews", result')
  BY <1>1, <1>4 DEF Compose, Goto
<1>5. QED
  BY <1>2, <1>3, <1>4

LEMMA CheckDeckStep ==
  ASSUME ShapeInv, RunInv, CheckDeck
  PROVE  /\ exportPc = "preflight" /\ UNCHANGED result
         /\ \/ Halted /\ (run'.cause = "preflight" => run'.stage = "preflight") /\ run'.cause \in {"preflight", "deck"}
            \/ /\ exportPc' = "stable" /\ UNCHANGED <<approved, faults, build>>
               /\ ~Fails("preflight", result) /\ ~Fails("deck", result)
               /\ run' = [run EXCEPT !.preflight = "passed"]
<1>1. exportPc = "preflight" /\ UNCHANGED result /\ ~Fails("introduction", result) /\ DOMAIN run = Fields
  BY DEF CheckDeck, RunInv, ShapeInv
<1>2. CASE Fails("preflight", result)
  <2> DEFINE r == [run EXCEPT !.preflight = "failed"]
  <2>1. DOMAIN r = Fields /\ r.preflight = "failed"
    BY <1>1 DEF Fields
  <2>2. Stage(r) = "preflight"
    BY <1>1, <2>1 DEF Stage
  <2>3. QED
    BY <1>1, <1>2, <2>1, <2>2, StopHalts DEF CheckDeck
<1>3. CASE ~Fails("preflight", result) /\ Fails("deck", result)
  <2> DEFINE r == [run EXCEPT !.preflight = "passed"]
  <2>1. DOMAIN r = Fields
    BY <1>1
  <2>2. QED
    BY <1>1, <1>3, <2>1, StopHalts DEF CheckDeck
<1>4. CASE ~Fails("preflight", result) /\ ~Fails("deck", result)
  BY <1>1, <1>4 DEF CheckDeck, Goto
<1>5. QED
  BY <1>2, <1>3, <1>4

LEMMA RequireStableStep ==
  ASSUME ShapeInv, RequireStable
  PROVE  /\ exportPc = "stable" /\ UNCHANGED result
         /\ \/ Halted /\ run'.cause = "unstable"
            \/ exportPc' = "verify" /\ Stable /\ KeptRun
<1>1. CASE Stable
  BY <1>1 DEF RequireStable, Goto, KeptRun
<1>2. CASE ~Stable
  BY <1>2, StopHalts DEF RequireStable, ShapeInv
<1>3. QED
  BY <1>1, <1>2

LEMMA VerifyStep ==
  ASSUME ShapeInv, RunInv, Verify
  PROVE  /\ exportPc = "verify" /\ UNCHANGED result
         /\ \/ Halted /\ run'.cause = "rendering" /\ run'.stage = "rendering"
            \/ exportPc' = "store" /\ UNCHANGED <<approved, faults, build>> /\ run' = [run EXCEPT !.visual = "passed"]
<1>1. exportPc = "verify" /\ UNCHANGED result /\ ~Fails("introduction", result) /\ run.preflight # "failed"
      /\ DOMAIN run = Fields
  BY DEF Verify, RunInv, ShapeInv
<1>2. CASE Stop([run EXCEPT !.visual = "failed"], "blocked", "rendering")
  <2> DEFINE r == [run EXCEPT !.visual = "failed"]
  <2>1. DOMAIN r = Fields /\ r.visual = "failed" /\ r.preflight = run.preflight
    BY <1>1 DEF Fields
  <2>2. Stage(r) = "rendering"
    BY <1>1, <2>1 DEF Stage
  <2>3. QED
    BY <1>1, <1>2, <2>1, <2>2, StopHalts
<1>3. CASE exportPc' = "store" /\ run' = [run EXCEPT !.visual = "passed"] /\ UNCHANGED <<approved, faults, build>>
  BY <1>1, <1>3
<1>4. QED
  BY <1>2, <1>3 DEF Verify

LEMMA StoreStep ==
  ASSUME ShapeInv, Store
  PROVE  /\ exportPc = "store" /\ exportPc' = "idle" /\ build' = [key |-> Key, deck |-> run.deck]
         /\ UNCHANGED <<result, approved, faults>> /\ run' = [run EXCEPT !.outcome = "ready"]
  BY DEF Store

LEMMA RunNext == ASSUME ExportInv, [ExportNext]_exportVars PROVE RunInv'
<1> USE DEF ExportInv
<1>1. CASE Start
  BY <1>1, StartStep DEF Halted, KeptRun, ShapeInv, RunInv, Fields, Fails
<1>2. CASE RequireIntroduction
  BY <1>2, RequireIntroductionStep DEF Halted, KeptRun, ShapeInv, RunInv, Fields, Fails
<1>3. CASE RecoverPlan
  <2>1. result' \in [plan : 0..MaxPlan, rest : 1..MaxRest]
    BY <1>3, ExportAssumption DEF RecoverPlan, ShapeInv
  <2>2. ~Fails("introduction", result')
    BY <1>3, <2>1, IntroductionKept DEF RecoverPlan, RunInv
  <2>3. QED
    BY <1>3, <2>2 DEF RecoverPlan, Goto, RunInv, Fails
<1>4. CASE Prepare
  BY <1>4, PreparedInBounds, RevisedPrepared, IntroductionKept DEF Prepare, Goto, ShapeInv,
     RunInv, Fields, Fails
<1>5. CASE CheckEvidence
  BY <1>5, CheckEvidenceStep, PreparedInBounds, RevisedPrepared, IntroductionKept DEF Halted,
     KeptRun, ShapeInv, RunInv, Fields, Fails
<1>6. CASE LookUp
  BY <1>6, LookUpStep DEF Halted, KeptRun, ShapeInv, RunInv, Fields, Fails
<1>7. CASE RequireReviews
  BY <1>7, RequireReviewsStep DEF Halted, KeptRun, ShapeInv, RunInv, Fields, Fails
<1>8. CASE Compose
  BY <1>8, ComposeStep, PreparedInBounds, RevisedPrepared, IntroductionKept DEF Halted,
     KeptRun, ShapeInv, RunInv, Fields, Fails
<1>9. CASE CheckDeck
  BY <1>9, CheckDeckStep DEF Halted, KeptRun, ShapeInv, RunInv, Fields, Fails
<1>10. CASE RequireStable
  BY <1>10, RequireStableStep DEF Halted, KeptRun, ShapeInv, RunInv, Fields, Fails
<1>11. CASE Verify
  BY <1>11, VerifyStep DEF Halted, KeptRun, ShapeInv, RunInv, Fields, Fails
<1>12. CASE Store
  BY <1>12, StoreStep DEF Halted, KeptRun, ShapeInv, RunInv, Fields, Fails
<1>13. CASE Interrupt
  BY <1>13 DEF Interrupt, ShapeInv, RunInv, Fields, Fails
<1>14. CASE ApproveDraft
  BY <1>14 DEF ApproveDraft, ShapeInv, RunInv, Fields, Fails
<1>15. CASE ShowQuality
  BY <1>15 DEF ShowQuality, ShapeInv, RunInv, Fields, Fails
<1>16. CASE UNCHANGED exportVars
  BY <1>16 DEF ShapeInv, RunInv, Fields, Fails
<1>17. QED
  BY <1>1, <1>2, <1>3, <1>4, <1>5, <1>6, <1>7, <1>8, <1>9, <1>10, <1>11, <1>12, <1>13, <1>14,
     <1>15, <1>16 DEF ExportNext

LEMMA DeckNext == ASSUME ExportInv, [ExportNext]_exportVars PROVE DeckInv'
<1> USE DEF ExportInv
<1>1. CASE Start
  BY <1>1, StartStep DEF Halted, KeptRun, ShapeInv, RunInv, DeckInv, BuildInv, Fields, Fails,
     Current, Key, Stable
<1>2. CASE RequireIntroduction
  BY <1>2, RequireIntroductionStep DEF Halted, KeptRun, ShapeInv, RunInv, DeckInv, BuildInv,
     Fields, Fails, Current, Key, Stable
<1>3. CASE RecoverPlan
  BY <1>3 DEF RecoverPlan, Goto, ShapeInv, RunInv, DeckInv, BuildInv, Fields, Fails, Current,
     Key, Stable
<1>4. CASE Prepare
  BY <1>4 DEF Prepare, Goto, ShapeInv, RunInv, DeckInv, BuildInv, Fields, Fails, Current, Key,
     Stable
<1>5. CASE CheckEvidence
  BY <1>5, CheckEvidenceStep DEF Halted, KeptRun, ShapeInv, RunInv, DeckInv, BuildInv, Fields,
     Fails, Current, Key, Stable
<1>6. CASE LookUp
  <2>1. CASE exportPc' = "require"
    BY <2>1 DEF DeckInv
  <2>2. CASE exportPc' = "stable"
    <3>1. /\ UNCHANGED <<result, approved, faults>> /\ run'.style = run.style
          /\ build # Unset /\ build.key = Key /\ run'.deck = build.deck
      BY <1>6, <2>2, LookUpStep
    <3>2. build.key.result = result /\ build.key.style = run.style
      BY <3>1 DEF Key
    <3>3. run'.deck = Current'
      BY <3>1, <3>2 DEF BuildInv, Current
    <3>4. \A g \in {"reviews", "plan", "preflight", "deck"} : ~Fails(g, result)'
      BY <3>1, <3>2 DEF BuildInv, Fails
    <3>5. QED
      BY <2>2, <3>3, <3>4 DEF DeckInv
  <2>3. QED
    BY <1>6, <2>1, <2>2, LookUpStep
<1>7. CASE RequireReviews
  BY <1>7, RequireReviewsStep DEF Halted, KeptRun, ShapeInv, RunInv, DeckInv, BuildInv, Fields,
     Fails, Current, Key, Stable
<1>8. CASE Compose
  <2>1. CASE Halted
    BY <2>1 DEF Halted, DeckInv
  <2>2. CASE exportPc' = "preflight"
    <3>1. run' = [run EXCEPT !.deck = [plan |-> result'.plan, rest |-> result'.rest, style |-> run.style],
                             !.narrowed = (result' # result)]
          /\ faults' = faults /\ ~Fails("plan", result') /\ ~Fails("reviews", result')
      BY <1>8, <2>2, ComposeStep DEF Halted
    <3>2. run'.style = run.style /\ run'.deck = [plan |-> result'.plan, rest |-> result'.rest, style |-> run.style]
      BY <3>1 DEF ShapeInv, Fields
    <3>3. QED
      BY <2>2, <3>1, <3>2 DEF DeckInv, Current, Fails
  <2>3. QED
    BY <1>8, <2>1, <2>2, ComposeStep
<1>9. CASE CheckDeck
  BY <1>9, CheckDeckStep DEF Halted, KeptRun, ShapeInv, RunInv, DeckInv, BuildInv, Fields,
     Fails, Current, Key, Stable
<1>10. CASE RequireStable
  BY <1>10, RequireStableStep DEF Halted, KeptRun, ShapeInv, RunInv, DeckInv, BuildInv, Fields,
     Fails, Current, Key, Stable
<1>11. CASE Verify
  BY <1>11, VerifyStep DEF Halted, KeptRun, ShapeInv, RunInv, DeckInv, BuildInv, Fields, Fails,
     Current, Key, Stable
<1>12. CASE Store
  BY <1>12, StoreStep DEF Halted, KeptRun, ShapeInv, RunInv, DeckInv, BuildInv, Fields, Fails,
     Current, Key, Stable
<1>13. CASE Interrupt
  BY <1>13 DEF Interrupt, ShapeInv, RunInv, DeckInv, BuildInv, Fields, Fails, Current, Key, Stable
<1>14. CASE ApproveDraft
  BY <1>14 DEF ApproveDraft, ShapeInv, RunInv, DeckInv, BuildInv, Fields, Fails, Current, Key,
     Stable
<1>15. CASE ShowQuality
  BY <1>15 DEF ShowQuality, ShapeInv, RunInv, DeckInv, BuildInv, Fields, Fails, Current, Key, Stable
<1>16. CASE UNCHANGED exportVars
  BY <1>16 DEF ShapeInv, RunInv, DeckInv, BuildInv, Fields, Fails, Current, Key, Stable
<1>17. QED
  BY <1>1, <1>2, <1>3, <1>4, <1>5, <1>6, <1>7, <1>8, <1>9, <1>10, <1>11, <1>12, <1>13, <1>14,
     <1>15, <1>16 DEF ExportNext

LEMMA EvidenceNext == ASSUME ExportInv, [ExportNext]_exportVars PROVE EvidenceInv'
<1> USE DEF ExportInv
<1>1. CASE Start
  BY <1>1, StartStep DEF Halted, KeptRun, ShapeInv, EvidenceInv, Fields, Fails, Critical,
     Blocks, RunInv
<1>2. CASE RequireIntroduction
  BY <1>2, RequireIntroductionStep DEF Halted, KeptRun, ShapeInv, EvidenceInv, Fields, Fails,
     Critical, Blocks, RunInv
<1>3. CASE RecoverPlan
  BY <1>3 DEF RecoverPlan, Goto, ShapeInv, EvidenceInv, Fields, Fails, Critical, Blocks, RunInv
<1>4. CASE Prepare
  BY <1>4 DEF Prepare, Goto, ShapeInv, EvidenceInv, Fields, Fails, Critical, Blocks, RunInv
<1>5. CASE CheckEvidence
  BY <1>5, CheckEvidenceStep DEF Halted, KeptRun, ShapeInv, EvidenceInv, Fields, Fails,
     Critical, Blocks, RunInv
<1>6. CASE LookUp
  BY <1>6, LookUpStep DEF Halted, KeptRun, ShapeInv, EvidenceInv, Fields, Fails, Critical,
     Blocks, RunInv
<1>7. CASE RequireReviews
  BY <1>7, RequireReviewsStep DEF Halted, KeptRun, ShapeInv, EvidenceInv, Fields, Fails,
     Critical, Blocks, RunInv
<1>8. CASE Compose
  BY <1>8, ComposeStep DEF Halted, KeptRun, ShapeInv, EvidenceInv, Fields, Fails, Critical,
     Blocks, RunInv
<1>9. CASE CheckDeck
  BY <1>9, CheckDeckStep DEF Halted, KeptRun, ShapeInv, EvidenceInv, Fields, Fails, Critical,
     Blocks, RunInv
<1>10. CASE RequireStable
  BY <1>10, RequireStableStep DEF Halted, KeptRun, ShapeInv, EvidenceInv, Fields, Fails,
     Critical, Blocks, RunInv
<1>11. CASE Verify
  BY <1>11, VerifyStep DEF Halted, KeptRun, ShapeInv, EvidenceInv, Fields, Fails, Critical,
     Blocks, RunInv
<1>12. CASE Store
  BY <1>12, StoreStep DEF Halted, KeptRun, ShapeInv, EvidenceInv, Fields, Fails, Critical,
     Blocks, RunInv
<1>13. CASE Interrupt
  BY <1>13 DEF Interrupt, ShapeInv, EvidenceInv, Fields, Fails, Critical, Blocks, RunInv
<1>14. CASE ApproveDraft
  BY <1>14 DEF ApproveDraft, ShapeInv, EvidenceInv, Fields, Fails, Critical, Blocks, RunInv
<1>15. CASE ShowQuality
  BY <1>15 DEF ShowQuality, ShapeInv, EvidenceInv, Fields, Fails, Critical, Blocks, RunInv
<1>16. CASE UNCHANGED exportVars
  BY <1>16 DEF ShapeInv, EvidenceInv, Fields, Fails, Critical, Blocks, RunInv
<1>17. QED
  BY <1>1, <1>2, <1>3, <1>4, <1>5, <1>6, <1>7, <1>8, <1>9, <1>10, <1>11, <1>12, <1>13, <1>14,
     <1>15, <1>16 DEF ExportNext

LEMMA BuildNext == ASSUME ExportInv, [ExportNext]_exportVars PROVE BuildInv'
<1> USE DEF ExportInv
<1>1. CASE Start
  BY <1>1, StartStep DEF Halted, KeptRun, ShapeInv, RunInv, DeckInv, BuildInv, Fields, Fails,
     Current, Key
<1>2. CASE RequireIntroduction
  BY <1>2, RequireIntroductionStep DEF Halted, KeptRun, ShapeInv, RunInv, DeckInv, BuildInv,
     Fields, Fails, Current, Key
<1>3. CASE RecoverPlan
  BY <1>3 DEF RecoverPlan, Goto, ShapeInv, RunInv, DeckInv, BuildInv, Fields, Fails, Current, Key
<1>4. CASE Prepare
  BY <1>4 DEF Prepare, Goto, ShapeInv, RunInv, DeckInv, BuildInv, Fields, Fails, Current, Key
<1>5. CASE CheckEvidence
  BY <1>5, CheckEvidenceStep DEF Halted, KeptRun, ShapeInv, RunInv, DeckInv, BuildInv, Fields,
     Fails, Current, Key
<1>6. CASE LookUp
  BY <1>6, LookUpStep DEF Halted, KeptRun, ShapeInv, RunInv, DeckInv, BuildInv, Fields, Fails,
     Current, Key
<1>7. CASE RequireReviews
  BY <1>7, RequireReviewsStep DEF Halted, KeptRun, ShapeInv, RunInv, DeckInv, BuildInv, Fields,
     Fails, Current, Key
<1>8. CASE Compose
  BY <1>8, ComposeStep DEF Halted, KeptRun, ShapeInv, RunInv, DeckInv, BuildInv, Fields, Fails,
     Current, Key
<1>9. CASE CheckDeck
  BY <1>9, CheckDeckStep DEF Halted, KeptRun, ShapeInv, RunInv, DeckInv, BuildInv, Fields,
     Fails, Current, Key
<1>10. CASE RequireStable
  BY <1>10, RequireStableStep DEF Halted, KeptRun, ShapeInv, RunInv, DeckInv, BuildInv, Fields,
     Fails, Current, Key
<1>11. CASE Verify
  BY <1>11, VerifyStep DEF Halted, KeptRun, ShapeInv, RunInv, DeckInv, BuildInv, Fields, Fails,
     Current, Key
<1>12. CASE Store
  <2>1. build'.key.result = result /\ build'.key.style = run.style /\ build'.deck = run.deck /\ faults' = faults
    BY <1>12, StoreStep DEF Key
  <2>2. run.deck = Current /\ \A g \in {"introduction", "reviews", "plan", "preflight", "deck"} : ~Fails(g, result)
    BY <1>12, StoreStep DEF DeckInv, RunInv
  <2>3. QED
    BY <2>1, <2>2 DEF BuildInv, Current, Fails
<1>13. CASE Interrupt
  BY <1>13 DEF Interrupt, ShapeInv, RunInv, DeckInv, BuildInv, Fields, Fails, Current, Key
<1>14. CASE ApproveDraft
  BY <1>14 DEF ApproveDraft, ShapeInv, RunInv, DeckInv, BuildInv, Fields, Fails, Current, Key
<1>15. CASE ShowQuality
  BY <1>15 DEF ShowQuality, ShapeInv, RunInv, DeckInv, BuildInv, Fields, Fails, Current, Key
<1>16. CASE UNCHANGED exportVars
  BY <1>16 DEF ShapeInv, RunInv, DeckInv, BuildInv, Fields, Fails, Current, Key
<1>17. QED
  BY <1>1, <1>2, <1>3, <1>4, <1>5, <1>6, <1>7, <1>8, <1>9, <1>10, <1>11, <1>12, <1>13, <1>14,
     <1>15, <1>16 DEF ExportNext

LEMMA ServedNext ==
  ASSUME ExportInv, [ExportNext]_exportVars
  PROVE  /\ (Served => exportPc = "idle")' /\ ServedIsCurrent'
         /\ ApprovedServedAsApproved' /\ ServedEvidenceSound'
<1> USE DEF ExportInv
<1>1. CASE Start
  BY <1>1, StartStep DEF Halted, KeptRun, ShapeInv, RunInv, DeckInv, EvidenceInv, Fields,
     Fails, Current, Critical, Stable, Served, ServedIsCurrent, ApprovedServedAsApproved,
     ServedEvidenceSound
<1>2. CASE RequireIntroduction
  BY <1>2, RequireIntroductionStep DEF Halted, KeptRun, ShapeInv, RunInv, DeckInv, EvidenceInv,
     Fields, Fails, Current, Critical, Stable, Served, ServedIsCurrent,
     ApprovedServedAsApproved, ServedEvidenceSound
<1>3. CASE RecoverPlan
  BY <1>3 DEF RecoverPlan, Goto, ShapeInv, RunInv, DeckInv, EvidenceInv, Fields, Fails,
     Current, Critical, Stable, Served, ServedIsCurrent, ApprovedServedAsApproved,
     ServedEvidenceSound
<1>4. CASE Prepare
  BY <1>4 DEF Prepare, Goto, ShapeInv, RunInv, DeckInv, EvidenceInv, Fields, Fails, Current,
     Critical, Stable, Served, ServedIsCurrent, ApprovedServedAsApproved, ServedEvidenceSound
<1>5. CASE CheckEvidence
  BY <1>5, CheckEvidenceStep DEF Halted, KeptRun, ShapeInv, RunInv, DeckInv, EvidenceInv,
     Fields, Fails, Current, Critical, Stable, Served, ServedIsCurrent,
     ApprovedServedAsApproved, ServedEvidenceSound
<1>6. CASE LookUp
  BY <1>6, LookUpStep DEF Halted, KeptRun, ShapeInv, RunInv, DeckInv, EvidenceInv, Fields,
     Fails, Current, Critical, Stable, Served, ServedIsCurrent, ApprovedServedAsApproved,
     ServedEvidenceSound
<1>7. CASE RequireReviews
  BY <1>7, RequireReviewsStep DEF Halted, KeptRun, ShapeInv, RunInv, DeckInv, EvidenceInv,
     Fields, Fails, Current, Critical, Stable, Served, ServedIsCurrent,
     ApprovedServedAsApproved, ServedEvidenceSound
<1>8. CASE Compose
  BY <1>8, ComposeStep DEF Halted, KeptRun, ShapeInv, RunInv, DeckInv, EvidenceInv, Fields,
     Fails, Current, Critical, Stable, Served, ServedIsCurrent, ApprovedServedAsApproved,
     ServedEvidenceSound
<1>9. CASE CheckDeck
  BY <1>9, CheckDeckStep DEF Halted, KeptRun, ShapeInv, RunInv, DeckInv, EvidenceInv, Fields,
     Fails, Current, Critical, Stable, Served, ServedIsCurrent, ApprovedServedAsApproved,
     ServedEvidenceSound
<1>10. CASE RequireStable
  BY <1>10, RequireStableStep DEF Halted, KeptRun, ShapeInv, RunInv, DeckInv, EvidenceInv,
     Fields, Fails, Current, Critical, Stable, Served, ServedIsCurrent,
     ApprovedServedAsApproved, ServedEvidenceSound
<1>11. CASE Verify
  BY <1>11, VerifyStep DEF Halted, KeptRun, ShapeInv, RunInv, DeckInv, EvidenceInv, Fields,
     Fails, Current, Critical, Stable, Served, ServedIsCurrent, ApprovedServedAsApproved,
     ServedEvidenceSound
<1>12. CASE Store
  <2>1. exportPc = "store" /\ exportPc' = "idle" /\ UNCHANGED <<result, approved, faults>>
    BY <1>12, StoreStep
  <2>2. /\ run'.deck = run.deck /\ run'.style = run.style /\ run'.force = run.force
        /\ run'.narrowed = run.narrowed /\ run'.hit = run.hit
    BY <1>12, StoreStep DEF ShapeInv, Fields
  <2>3. ServedIsCurrent'
    BY <2>1, <2>2 DEF ServedIsCurrent, Current, DeckInv, RunInv, Fails
  <2>4. ApprovedServedAsApproved'
    BY <2>1, <2>2 DEF ApprovedServedAsApproved, Current, DeckInv, Stable
  <2>5. Critical(result)' <=> Critical(result)
    BY <2>1, <2>2 DEF Critical, Fails
  <2>6. ServedEvidenceSound'
    BY <2>1, <2>2, <2>5 DEF ServedEvidenceSound, EvidenceInv
  <2>7. QED
    BY <2>1, <2>3, <2>4, <2>6
<1>13. CASE Interrupt
  BY <1>13 DEF Interrupt, ShapeInv, RunInv, DeckInv, EvidenceInv, Fields, Fails, Current,
     Critical, Stable, Served, ServedIsCurrent, ApprovedServedAsApproved, ServedEvidenceSound
<1>14. CASE ApproveDraft
  BY <1>14 DEF ApproveDraft, ShapeInv, RunInv, DeckInv, EvidenceInv, Fields, Fails, Current,
     Critical, Stable, Served, ServedIsCurrent, ApprovedServedAsApproved, ServedEvidenceSound
<1>15. CASE ShowQuality
  BY <1>15 DEF ShowQuality, ShapeInv, RunInv, DeckInv, EvidenceInv, Fields, Fails, Current,
     Critical, Stable, Served, ServedIsCurrent, ApprovedServedAsApproved, ServedEvidenceSound
<1>16. CASE UNCHANGED exportVars
  BY <1>16 DEF ShapeInv, RunInv, DeckInv, EvidenceInv, Fields, Fails, Current, Critical,
     Stable, Served, ServedIsCurrent, ApprovedServedAsApproved, ServedEvidenceSound
<1>17. QED
  BY <1>1, <1>2, <1>3, <1>4, <1>5, <1>6, <1>7, <1>8, <1>9, <1>10, <1>11, <1>12, <1>13, <1>14,
     <1>15, <1>16 DEF ExportNext

LEMMA DiagnosisNext == ASSUME ExportInv, [ExportNext]_exportVars PROVE DiagnosisNamesCause'
<1> USE DEF ExportInv
<1>1. CASE Start
  BY <1>1, StartStep DEF Halted, KeptRun, ShapeInv, RunInv, Fields, Fails, DiagnosisNamesCause
<1>2. CASE RequireIntroduction
  BY <1>2, RequireIntroductionStep DEF Halted, KeptRun, ShapeInv, RunInv, Fields, Fails,
     DiagnosisNamesCause
<1>3. CASE RecoverPlan
  BY <1>3 DEF RecoverPlan, Goto, ShapeInv, RunInv, Fields, Fails, DiagnosisNamesCause
<1>4. CASE Prepare
  BY <1>4 DEF Prepare, Goto, ShapeInv, RunInv, Fields, Fails, DiagnosisNamesCause
<1>5. CASE CheckEvidence
  BY <1>5, CheckEvidenceStep DEF Halted, KeptRun, ShapeInv, RunInv, Fields, Fails,
     DiagnosisNamesCause
<1>6. CASE LookUp
  BY <1>6, LookUpStep DEF Halted, KeptRun, ShapeInv, RunInv, Fields, Fails, DiagnosisNamesCause
<1>7. CASE RequireReviews
  BY <1>7, RequireReviewsStep DEF Halted, KeptRun, ShapeInv, RunInv, Fields, Fails,
     DiagnosisNamesCause
<1>8. CASE Compose
  BY <1>8, ComposeStep DEF Halted, KeptRun, ShapeInv, RunInv, Fields, Fails, DiagnosisNamesCause
<1>9. CASE CheckDeck
  BY <1>9, CheckDeckStep DEF Halted, KeptRun, ShapeInv, RunInv, Fields, Fails, DiagnosisNamesCause
<1>10. CASE RequireStable
  BY <1>10, RequireStableStep DEF Halted, KeptRun, ShapeInv, RunInv, Fields, Fails,
     DiagnosisNamesCause
<1>11. CASE Verify
  BY <1>11, VerifyStep DEF Halted, KeptRun, ShapeInv, RunInv, Fields, Fails, DiagnosisNamesCause
<1>12. CASE Store
  BY <1>12, StoreStep DEF Halted, KeptRun, ShapeInv, RunInv, Fields, Fails, DiagnosisNamesCause
<1>13. CASE Interrupt
  BY <1>13 DEF Interrupt, ShapeInv, RunInv, Fields, Fails, DiagnosisNamesCause
<1>14. CASE ApproveDraft
  BY <1>14 DEF ApproveDraft, ShapeInv, RunInv, Fields, Fails, DiagnosisNamesCause
<1>15. CASE ShowQuality
  BY <1>15 DEF ShowQuality, ShapeInv, RunInv, Fields, Fails, DiagnosisNamesCause
<1>16. CASE UNCHANGED exportVars
  BY <1>16 DEF ShapeInv, RunInv, Fields, Fails, DiagnosisNamesCause
<1>17. QED
  BY <1>1, <1>2, <1>3, <1>4, <1>5, <1>6, <1>7, <1>8, <1>9, <1>10, <1>11, <1>12, <1>13, <1>14,
     <1>15, <1>16 DEF ExportNext

LEMMA ExportStep == ExportInv /\ [ExportNext]_exportVars => ExportInv'
  BY ShapeNext, RunNext, DeckNext, EvidenceNext, BuildNext, ServedNext, DiagnosisNext DEF ExportInv

THEOREM ExportsHold == ExportSpec => []ExportInv
  BY ExportStart, ExportStep, PTL DEF ExportSpec

\* Whether it was built or taken from the cache, whatever was forced, a served deck
\* is the one of the result, approval and style of now, and every gate of the build
\* holds for it (export_presentation, build_presentation).
THEOREM ServedDecksCurrent == ExportSpec => [](ServedIsCurrent /\ ApprovedServedAsApproved)
  BY ExportsHold, PTL DEF ExportInv

\* Evidence that is not sound is served in two ways only: its draft was forced, or
\* was narrowed once more by the composition (export.py:112-120).
THEOREM ServedEvidenceChecked == ExportSpec => []ServedEvidenceSound
  BY ExportsHold, PTL DEF ExportInv

\* The stage a refusal shows is the gate that refused (export_diagnostics).
THEOREM DiagnosesRight == ExportSpec => []DiagnosisNamesCause
  BY ExportsHold, PTL DEF ExportInv

\* Between a drained result and its file nothing passes that was not checked as it
\* passes: the gates and the exports together.
THEOREM PublicationChecked == GatesSpec /\ ExportSpec => []PublishedAsChecked
  BY VerdictsCurrent, DeckFits, BriefCurrent, BriefingsPaid, ServedDecksCurrent,
     ServedEvidenceChecked, DiagnosesRight, PTL DEF PublishedAsChecked

-----------------------------------------------------------------------------
(* The language of the report *)

USE DEF translationVars

\* A review accepted every translation of this copy for this language and these names.
Approved(copy, for) == \A s \in Strings : copy[s] # 0 => <<s, copy[s], for>> \in approvedCopy

\* What a run translates is approved for its context, and what it stored for the context
\* it stored it for; a string is asked for in its batch alone.
TranslationInv ==
  /\ translationPc \in {"idle", "translating", "raised", "deciding", "exporting", "exported"}
  /\ reportRuns \in Nat /\ batchAttempt \in [CopyBatches -> Nat]
  /\ stored \in [Strings -> Nat] /\ translated \in [Strings -> Nat]
  /\ untranslated \in [CopyBatches -> SUBSET Strings]
  /\ \A b \in CopyBatches : untranslated[b] \subseteq b
  /\ translationPc \in {"translating", "deciding"} => Approved(translated, translationContext)
  /\ translationPc \in {"idle", "exporting", "exported"} => Approved(stored, storedFor)
  /\ translationPc \in {"translating", "deciding", "exporting"} => storedFor = translationContext
  /\ ExportedCopyReviewed /\ StringsAccounted

LEMMA TranslationStart == TranslationInit => TranslationInv
<1> SUFFICES ASSUME TranslationInit PROVE TranslationInv
  OBVIOUS
<1>1. stored = NoCopy /\ translated = NoCopy /\ translationPc = "idle" /\ reportRuns = 0
  BY DEF TranslationInit
<1>2. NoCopy \in [Strings -> Nat] /\ \A s \in Strings : NoCopy[s] = 0
  BY DEF NoCopy
<1>3. /\ untranslated \in [CopyBatches -> SUBSET Strings] /\ batchAttempt \in [CopyBatches -> Nat]
      /\ \A b \in CopyBatches : untranslated[b] \subseteq b
  BY DEF TranslationInit
<1>4. QED
  BY <1>1, <1>2, <1>3 DEF TranslationInv, Approved, ExportedCopyReviewed, StringsAccounted

\* An attempt moves strings of its batch to the translations or to what is lacking.
LEMMA AttemptAccounts ==
  ASSUME TranslationInv, NEW b \in CopyBatches, translationPc = "translating",
         NEW ok \in SUBSET untranslated[b], NEW tooLong, AttemptBatch(b, ok, tooLong),
         UNCHANGED <<translationPc, reportRuns, translationContext, stored, storedFor, pieces, exported>>
  PROVE  TranslationInv'
<1> DEFINE failed == untranslated[b] \ ok
<1>1. PICK v \in {Version(b), SourceCopy} :
        /\ translated' = [s \in Strings |-> IF s \in ok THEN v ELSE translated[s]]
        /\ approvedCopy' = approvedCopy \cup {<<s, v, translationContext>> : s \in ok}
        /\ batchAttempt' = [batchAttempt EXCEPT ![b] = @ + 1]
        /\ \/ untranslated' = [untranslated EXCEPT ![b] = {}] /\ lacking' = lacking \cup failed
           \/ untranslated' = [untranslated EXCEPT ![b] = failed] /\ UNCHANGED lacking
  BY DEF AttemptBatch, StillPending
<1>2. v \in Nat \ {0}
  BY DEF TranslationInv, Version, SourceCopy
<1>3. untranslated[b] \subseteq Strings /\ untranslated[b] \subseteq b
  BY DEF TranslationInv
<1>4. \A c \in CopyBatches : c # b => untranslated[c] \cap untranslated[b] = {}
  BY TranslationAssumption DEF TranslationInv
<1>5. /\ untranslated' \in [CopyBatches -> SUBSET Strings]
      /\ \A c \in CopyBatches : untranslated'[c] \subseteq c
      /\ batchAttempt' \in [CopyBatches -> Nat] /\ translated' \in [Strings -> Nat]
  BY <1>1, <1>2, <1>3 DEF TranslationInv
<1>6. Approved(translated, translationContext)'
  BY <1>1 DEF TranslationInv, Approved
<1>7. StringsAccounted'
  <2> SUFFICES ASSUME NEW s \in Strings
               PROVE  LET open == \E c \in CopyBatches : s \in untranslated'[c]
                      IN /\ translated'[s] # 0 => s \notin lacking' /\ ~open
                         /\ translated'[s] = 0 => (s \in lacking') = ~open
    BY DEF StringsAccounted
  <2> DEFINE before == \E c \in CopyBatches : s \in untranslated[c]
             open   == \E c \in CopyBatches : s \in untranslated'[c]
  <2>1. /\ translated[s] # 0 => s \notin lacking /\ ~before
        /\ translated[s] = 0 => (s \in lacking) = ~before
    BY DEF TranslationInv, StringsAccounted
  <2>2. CASE s \notin untranslated[b]
    <3>1. open <=> before
      BY <1>1, <1>5, <2>2 DEF TranslationInv
    <3>2. translated'[s] = translated[s] /\ (s \in lacking' <=> s \in lacking)
      BY <1>1, <2>2
    <3>3. QED
      BY <2>1, <3>1, <3>2
  <2>3. CASE s \in untranslated[b]
    <3>1. translated[s] = 0 /\ s \notin lacking
      BY <2>1, <2>3
    <3>2. \A c \in CopyBatches : c # b => s \notin untranslated'[c]
      BY <1>1, <1>4, <2>3 DEF TranslationInv
    <3>3. CASE s \in ok
      <4>1. translated'[s] # 0 /\ s \notin lacking'
        BY <1>1, <1>2, <3>1, <3>3
      <4>2. s \notin untranslated'[b]
        BY <1>1, <3>3 DEF TranslationInv
      <4>3. QED
        BY <3>2, <4>1, <4>2
    <3>4. CASE s \notin ok
      <4>1. translated'[s] = 0
        BY <1>1, <3>1, <3>4
      <4>2. (s \in lacking') <=> (s \notin untranslated'[b])
        BY <1>1, <2>3, <3>1, <3>4 DEF TranslationInv
      <4>3. QED
        BY <3>2, <4>1, <4>2
    <3>5. QED
      BY <3>3, <3>4
  <2>4. QED
    BY <2>2, <2>3
<1>8. QED
  BY <1>5, <1>6, <1>7 DEF TranslationInv, Approved, ExportedCopyReviewed

LEMMA BatchGivenUp ==
  ASSUME TranslationInv, NEW b \in CopyBatches, GiveUp(b)
  PROVE  TranslationInv'
<1>1. /\ translationPc = "translating" /\ translationPc' = "translating"
      /\ lacking' = lacking \cup untranslated[b] /\ untranslated' = [untranslated EXCEPT ![b] = {}]
      /\ UNCHANGED <<reportRuns, translationContext, stored, storedFor, batchAttempt, translated,
                     approvedCopy, exported>>
  BY DEF GiveUp
<1>2. untranslated' \in [CopyBatches -> SUBSET Strings] /\ \A c \in CopyBatches : untranslated'[c] \subseteq c
  BY <1>1 DEF TranslationInv
<1>3. StringsAccounted'
  <2> SUFFICES ASSUME NEW s \in Strings
               PROVE  LET open == \E c \in CopyBatches : s \in untranslated'[c]
                      IN /\ translated[s] # 0 => s \notin lacking' /\ ~open
                         /\ translated[s] = 0 => (s \in lacking') = ~open
    BY <1>1 DEF StringsAccounted
  <2> DEFINE before == \E c \in CopyBatches : s \in untranslated[c]
             open   == \E c \in CopyBatches : s \in untranslated'[c]
  <2>1. /\ translated[s] # 0 => s \notin lacking /\ ~before
        /\ translated[s] = 0 => (s \in lacking) = ~before
    BY <1>1 DEF TranslationInv, StringsAccounted
  <2>2. CASE s \notin untranslated[b]
    <3>1. open <=> before
      BY <1>1, <2>2 DEF TranslationInv
    <3>2. QED
      BY <1>1, <2>1, <2>2, <3>1
  <2>3. CASE s \in untranslated[b]
    <3>1. translated[s] = 0 /\ s \in lacking'
      BY <1>1, <2>1, <2>3
    <3>2. \A c \in CopyBatches : s \notin untranslated'[c]
      BY <1>1, <2>3, TranslationAssumption DEF TranslationInv
    <3>3. QED
      BY <3>1, <3>2
  <2>4. QED
    BY <2>2, <2>3
<1>4. QED
  BY <1>1, <1>2, <1>3 DEF TranslationInv, Approved, ExportedCopyReviewed

LEMMA TranslationStep == TranslationInv /\ [TranslationNext]_translationVars => TranslationInv'
<1> SUFFICES ASSUME TranslationInv, [TranslationNext]_translationVars PROVE TranslationInv'
  OBVIOUS
<1>1. CASE BeginTranslation
  <2>1. NoCopy \in [Strings -> Nat] /\ \A s \in Strings : NoCopy[s] = 0
    BY DEF NoCopy
  <2>2. Reusable \in [Strings -> Nat] /\ Approved(Reusable, translationContext)
    BY <1>1, <2>1 DEF BeginTranslation, TranslationInv, Approved, Reusable
  <2>3. /\ reportRuns' \in Nat /\ batchAttempt' \in [CopyBatches -> Nat] /\ storedFor' = translationContext
        /\ UNCHANGED <<translationContext, stored, approvedCopy>>
    BY <1>1 DEF BeginTranslation, TranslationInv
  <2>4. CASE /\ translationPc' = "translating" /\ translated' = Reusable
             /\ untranslated' = [b \in CopyBatches |-> {s \in b : Reusable[s] = 0}]
    <3>1. lacking' = {}
      BY <1>1, <2>4 DEF BeginTranslation
    <3>2. /\ untranslated' \in [CopyBatches -> SUBSET Strings]
          /\ \A b \in CopyBatches : untranslated'[b] \subseteq b
      BY <2>4 DEF Strings
    <3>3. StringsAccounted'
      BY <2>4, <3>1 DEF StringsAccounted, Strings
    <3>4. QED
      BY <2>2, <2>3, <2>4, <3>2, <3>3 DEF TranslationInv, Approved, ExportedCopyReviewed
  <2>5. CASE /\ translationPc' = "deciding" /\ translated' = NoCopy
             /\ untranslated' = [b \in CopyBatches |-> {}]
    BY <2>1, <2>3, <2>5 DEF TranslationInv, Approved, ExportedCopyReviewed, StringsAccounted
  <2>6. QED
    BY <1>1, <2>4, <2>5 DEF BeginTranslation
<1>2. CASE RaiseTranslation
  BY <1>2 DEF RaiseTranslation, TranslationInv, Approved, ExportedCopyReviewed, StringsAccounted
<1>3. CASE Retain
  BY <1>3 DEF Retain, TranslationInv, Approved, ExportedCopyReviewed, StringsAccounted
<1>4. CASE StoreCopy
  BY <1>4 DEF StoreCopy, TranslationInv, Approved, ExportedCopyReviewed, StringsAccounted
<1>5. CASE Export
  <2>1. /\ translationPc = "exporting" /\ translationPc' \in {"idle", "exported"}
        /\ UNCHANGED <<reportRuns, stored, storedFor, untranslated, batchAttempt, translated, approvedCopy>>
    BY <1>5 DEF Export
  <2>2. Approved(stored, translationContext)
    BY <2>1 DEF TranslationInv
  <2>3. ExportedCopyReviewed'
    <3> SUFFICES ASSUME translationPc' = "exported", NEW s \in Strings
                 PROVE  <<s, exported'[s], translationContext'>> \in approvedCopy
      BY <2>1 DEF ExportedCopyReviewed
    <3>1. PICK fitting \in SUBSET (Strings \ Units) :
            PiecesAgree /\ ShowsOnlyChecked(Shows(fitting)) /\ exported' = Shows(fitting)
      BY <1>5 DEF Export
    <3>2. translationContext' = translationContext
      BY <1>5 DEF Export
    <3>3. exported'[s] # 0
      BY <3>1 DEF ShowsOnlyChecked
    <3>4. exported'[s] = stored[s]
      BY <3>1, <3>3 DEF Shows, PiecesAgree
    <3>5. QED
      BY <2>2, <3>2, <3>3, <3>4 DEF Approved
  <2>4. QED
    BY <2>1, <2>3 DEF TranslationInv, Approved, StringsAccounted
<1>6. CASE \E b \in CopyBatches : Translate(b)
  BY <1>6, AttemptAccounts DEF Translate
<1>7. CASE \E b \in CopyBatches : GiveUp(b)
  BY <1>7, BatchGivenUp
<1>8. CASE UNCHANGED translationVars
  BY <1>8 DEF TranslationInv, Approved, ExportedCopyReviewed, StringsAccounted
<1>9. QED
  BY <1>1, <1>2, <1>3, <1>4, <1>5, <1>6, <1>7, <1>8 DEF TranslationNext

\* For any batches, contexts and runs: an exported deck shows only copy that a review
\* accepted for its language and its names, and no string is lost between attempts.
THEOREM CopyReviewed == TranslationSpec => [](ExportedCopyReviewed /\ StringsAccounted)
<1>1. TranslationInv => ExportedCopyReviewed /\ StringsAccounted
  BY DEF TranslationInv
<1>2. QED
  BY <1>1, TranslationStart, TranslationStep, PTL DEF TranslationSpec

-----------------------------------------------------------------------------
(* The supplementary sources *)

USE DEF sourcesVars

\* Outside a round for reopened checks nothing is reopened; in one, what is bound has the
\* judged copy of the checks that stay.
ReopenedAlone ==
  /\ sourcesPc = "shorten" => reopened = {}
  /\ sourcesPc = "reopen" =>
       judgedDraft.draft = [bind |-> judgedDraft.draft.bind, copy |-> judgedDraft.draft.copy]
         /\ ValidDraft(judgedDraft.draft)
  /\ sourcesPc = "bind" /\ reopened # {} =>
       \A s \in Sections \ reopened : \A i \in Additions(judgedDraft.draft, s) :
         i \in DOMAIN integration.copy /\ integration.copy[i] = judgedDraft.draft.copy[i]

\* While the next run would take the draft up, no review rejected one; a recovered draft is
\* reviewed in the first attempt alone.
TakenUpUnrejected ==
  /\ objections \in BOOLEAN /\ NoDraft \notin rejectedDrafts
  /\ ~objections => rejectedDrafts = {}
  /\ recovered => sourcesPc \notin {"shorten", "reopen"}
  /\ recovered /\ sourcesPc \in {"bind", "review"} => sourceAttempt = 0 /\ rejectedDrafts = {}

SourcesInv ==
  /\ sourcesPc # "fell_through"
  /\ sourceAttempt \in Nat /\ recovered \in BOOLEAN
  /\ sourcesPc = "review" =>
       integration = [bind |-> integration.bind, copy |-> integration.copy] /\ ValidDraft(integration)
  /\ ReopenedAlone /\ TakenUpUnrejected /\ AcceptedDecisionsKept

LEMMA NoDraftInvalid == ~ValidDraft(NoDraft)
<1>1. UNION {Additions(NoDraft, s) : s \in Sections} = {}
  BY DEF Additions, NoDraft
<1>2. 1 \in DOMAIN NoDraft.copy
  BY DEF NoDraft
<1>3. QED
  BY <1>1, <1>2 DEF ValidDraft

\* What a correction keeps of a check is its accepted decision, with a copy nothing else
\* rests on; the rest of the copy is the writer's.
LEMMA KeptAsAccepted ==
  ASSUME NEW old, NEW new,
         NEW now, now = KeptDecisions(old, new)
  PROVE  /\ now.draft = [bind |-> now.draft.bind, copy |-> now.draft.copy]
         /\ \A s \in now.kept :
              /\ s \in old.accepted /\ now.draft.bind[s] = old.draft.bind[s]
              /\ \A i \in Additions(now.draft, s) :
                   /\ now.draft.copy[i] = old.draft.copy[i]
                   /\ \A t \in Sections \ {s} : i \notin old.draft.bind[t] \cup now.draft.bind[t]
         /\ \A i \in DOMAIN new.copy :
              new.copy[i] = old.draft.copy[i] => now.draft.copy[i] = old.draft.copy[i]
<1> DEFINE same     == {s \in Sections : Restorable(old, new, s)}
           takenBack == UNION {Additions(old.draft, s) : s \in same}
           binding  == [s \in Sections |-> IF s \in same THEN old.draft.bind[s] ELSE new.bind[s]]
           text     == [i \in DOMAIN new.copy |-> IF i \in takenBack THEN old.draft.copy[i] ELSE new.copy[i]]
<1>1. now = [draft |-> [bind |-> binding, copy |-> text], kept |-> same]
  BY DEF KeptDecisions
<1>2. now.draft = [bind |-> binding, copy |-> text] /\ now.kept = same
  BY <1>1
<1>3. now.draft.bind = binding /\ now.draft.copy = text
  BY <1>2
<1> HIDE DEF same, takenBack
<1>4. ASSUME NEW s \in same
      PROVE  /\ s \in old.accepted /\ binding[s] = old.draft.bind[s]
             /\ \A i \in binding[s] \ Originals :
                  /\ text[i] = old.draft.copy[i]
                  /\ \A t \in Sections \ {s} : i \notin old.draft.bind[t] \cup binding[t]
  <2>1. /\ s \in Sections /\ s \in old.accepted
        /\ Additions(old.draft, s) \subseteq DOMAIN new.copy
        /\ \A d \in {old.draft, new} : \A t \in Sections \ {s} : Additions(old.draft, s) \cap d.bind[t] = {}
    BY DEF same, Restorable
  <2>2. binding[s] = old.draft.bind[s] /\ binding[s] \ Originals = Additions(old.draft, s)
    BY <2>1 DEF Additions
  <2>3. Additions(old.draft, s) \subseteq takenBack
    BY DEF takenBack
  <2>4. ASSUME NEW i \in Additions(old.draft, s) PROVE text[i] = old.draft.copy[i]
    BY <2>1, <2>3
  <2>5. ASSUME NEW i \in Additions(old.draft, s), NEW t \in Sections \ {s}
        PROVE  i \notin old.draft.bind[t] \cup binding[t]
    <3>1. i \notin old.draft.bind[t] /\ i \notin new.bind[t]
      BY <2>1
    <3>2. binding[t] = old.draft.bind[t] \/ binding[t] = new.bind[t]
      OBVIOUS
    <3>3. QED
      BY <3>1, <3>2
  <2>6. QED
    BY <2>1, <2>2, <2>4, <2>5
<1>5. \A i \in DOMAIN new.copy : new.copy[i] = old.draft.copy[i] => text[i] = old.draft.copy[i]
  OBVIOUS
<1> HIDE DEF binding, text
<1>6. QED
  BY <1>2, <1>3, <1>4, <1>5 DEF Additions

\* An attempt that fails ends, or goes on while an attempt is left.
LEMMA FailedAttempt ==
  ASSUME sourceAttempt \in Nat, NEW meaning, FailAttempt(meaning),
         reopened' # {} => sourceAttempt = 1
  PROVE  /\ sourcesPc' \in {"write", "reopen", "unresolved"} /\ sourceAttempt' \in Nat
         /\ sourcesPc' = "reopen" => reopened' # {}
<1>1. Corrects(meaning) => sourceAttempt \in {0, 1}
  BY DEF Corrects
<1>2. QED
  BY <1>1 DEF FailAttempt, ContinueWith, EndUnresolved

LEMMA SourcesStart == SourcesInit => SourcesInv
<1> SUFFICES ASSUME SourcesInit PROVE SourcesInv
  OBVIOUS
<1>1. /\ sourcesPc = "idle" /\ sourceAttempt = 0 /\ recovered = FALSE /\ objections = FALSE
      /\ rejectedDrafts = {}
  BY DEF SourcesInit
<1>2. QED
  BY <1>1 DEF SourcesInv, ReopenedAlone, TakenUpUnrejected, AcceptedDecisionsKept

LEMMA SourcesStep == SourcesInv /\ [SourcesNext]_sourcesVars => SourcesInv'
<1> SUFFICES ASSUME SourcesInv, [SourcesNext]_sourcesVars PROVE SourcesInv'
  OBVIOUS
<1>1. CASE BeginSources
  <2>1. PICK same \in {"all", "sources", "none"} :
          /\ objections' = (objections /\ same # "none")
          /\ recovered' = TakesUp(same)
          /\ IF TakesUp(same)
             THEN sourcesPc' = "bind" /\ integration' = latestDraft /\ UNCHANGED copiesWritten
             ELSE sourcesPc' = "write" /\ integration' = NoDraft /\ copiesWritten' = 0
    BY <1>1 DEF BeginSources
  <2>2. sourceAttempt' = 0 /\ reopened' = {} /\ rejectedDrafts' = rejectedDrafts \cap {integration'}
    BY <1>1 DEF BeginSources
  <2>3. objections' \in BOOLEAN /\ recovered' \in BOOLEAN /\ sourcesPc' \in {"bind", "write"}
    BY <2>1 DEF SourcesInv, TakenUpUnrejected, TakesUp
  <2>4. ~objections' => rejectedDrafts' = {}
    <3>1. CASE ~objections
      BY <2>2, <3>1 DEF SourcesInv, TakenUpUnrejected
    <3>2. CASE objections /\ same = "none"
      <4>1. integration' = NoDraft
        BY <2>1, <3>2 DEF TakesUp
      <4>2. QED
        BY <2>2, <4>1 DEF SourcesInv, TakenUpUnrejected
    <3>3. QED
      BY <2>1, <3>1, <3>2
  <2>5. recovered' => rejectedDrafts' = {}
    BY <2>1, <2>2 DEF TakesUp, SourcesInv, TakenUpUnrejected
  <2>6. QED
    BY <2>2, <2>3, <2>4, <2>5
    DEF SourcesInv, ReopenedAlone, TakenUpUnrejected, AcceptedDecisionsKept
<1>2. CASE RefuseSources
  BY <1>2
  DEF RefuseSources, EndUnresolved, SourcesInv, ReopenedAlone, TakenUpUnrejected, AcceptedDecisionsKept
<1>3. CASE WriteIntegration
  <2>1. /\ recovered' = FALSE /\ reopened' = {} /\ UNCHANGED <<objections, rejectedDrafts>>
        /\ sourcesPc' \in {"bind", "shorten", "write", "unresolved"} /\ sourceAttempt' \in Nat
    BY <1>3 DEF WriteIntegration, ContinueWith, EndUnresolved, SourcesInv
  <2>2. QED
    BY <2>1 DEF SourcesInv, ReopenedAlone, TakenUpUnrejected, AcceptedDecisionsKept
<1>4. CASE Shorten
  <2>1. /\ sourcesPc = "shorten" /\ sourcesPc' \in {"bind", "unresolved"}
        /\ UNCHANGED <<sourceAttempt, reopened, recovered, objections, rejectedDrafts>>
    BY <1>4 DEF Shorten, EndUnresolved
  <2>2. QED
    BY <2>1 DEF SourcesInv, ReopenedAlone, TakenUpUnrejected, AcceptedDecisionsKept
<1>5. CASE Reopen
  <2>1. /\ sourcesPc = "reopen" /\ sourcesPc' \in {"bind", "unresolved"}
        /\ UNCHANGED <<sourceAttempt, judgedDraft, reopened, recovered, objections, rejectedDrafts>>
    BY <1>5 DEF Reopen, EndUnresolved
  <2>2. ASSUME sourcesPc' = "bind", NEW s \in Sections \ reopened, NEW i \in Additions(judgedDraft.draft, s)
        PROVE  i \in DOMAIN integration'.copy /\ integration'.copy[i] = judgedDraft.draft.copy[i]
    <3> DEFINE drafted == judgedDraft.draft
               targets == UNION {Additions(drafted, t) : t \in reopened}
               others == UNION {Additions(drafted, t) : t \in Sections \ reopened}
               text == [j \in DOMAIN drafted.copy |->
                          IF j \in targets THEN copiesWritten + 1 ELSE drafted.copy[j]]
    <3>1. targets \cap others = {} /\ integration' = [drafted EXCEPT !.copy = text]
      BY <1>5, <2>2 DEF Reopen, EndUnresolved
    <3>2. drafted = [bind |-> drafted.bind, copy |-> drafted.copy] /\ ValidDraft(drafted)
      BY <2>1 DEF SourcesInv, ReopenedAlone
    <3>3. integration'.copy = text
      <4> HIDE DEF drafted, text
      <4>1. QED
        BY <3>1, <3>2
    <3>4. i \in others /\ i \in DOMAIN drafted.copy
      BY <2>2, <3>2 DEF ValidDraft
    <3>5. QED
      BY <3>1, <3>3, <3>4
  <2>3. QED
    BY <2>1, <2>2 DEF SourcesInv, ReopenedAlone, TakenUpUnrejected, AcceptedDecisionsKept
<1>6. CASE BindDraft
  <2> DEFINE now == KeptDecisions(judgedDraft, integration)
  <2>1. /\ sourcesPc = "bind"
        /\ UNCHANGED <<judgedDraft, recovered, objections, rejectedDrafts>>
    BY <1>6 DEF BindDraft
  <2>2. CASE /\ ValidDraft(now.draft) /\ sourcesPc' = "review" /\ integration' = now.draft
             /\ preserved' = now.kept /\ UNCHANGED <<sourceAttempt, reopened>>
    <3>1. /\ now.draft = [bind |-> now.draft.bind, copy |-> now.draft.copy]
          /\ \A s \in now.kept :
               /\ s \in judgedDraft.accepted /\ now.draft.bind[s] = judgedDraft.draft.bind[s]
               /\ \A i \in Additions(now.draft, s) :
                    /\ now.draft.copy[i] = judgedDraft.draft.copy[i]
                    /\ \A t \in Sections \ {s} : i \notin judgedDraft.draft.bind[t] \cup now.draft.bind[t]
          /\ \A i \in DOMAIN integration.copy :
               integration.copy[i] = judgedDraft.draft.copy[i] =>
                 now.draft.copy[i] = judgedDraft.draft.copy[i]
      <4>1. now = KeptDecisions(judgedDraft, integration)
        OBVIOUS
      <4> HIDE DEF now
      <4>2. QED
        BY <4>1, KeptAsAccepted
    <3> HIDE DEF now
    <3>2. AcceptedDecisionsKept'
      <4>1. ASSUME reopened # {}, NEW s \in Sections \ reopened, NEW i \in Additions(judgedDraft.draft, s)
            PROVE  now.draft.copy[i] = judgedDraft.draft.copy[i]
        BY <2>1, <3>1, <4>1 DEF SourcesInv, ReopenedAlone
      <4>2. QED
        BY <2>1, <2>2, <3>1, <4>1 DEF AcceptedDecisionsKept, Additions
    <3>3. QED
      BY <2>1, <2>2, <3>1, <3>2 DEF SourcesInv, ReopenedAlone, TakenUpUnrejected, ValidDraft, Additions
  <2>3. CASE reopened' = {} /\ FailAttempt(FALSE)
    <3>1. sourcesPc' \in {"write", "unresolved"} /\ sourceAttempt' \in Nat
      BY <2>3, FailedAttempt DEF SourcesInv
    <3>2. QED
      BY <2>1, <2>3, <3>1 DEF SourcesInv, ReopenedAlone, TakenUpUnrejected, AcceptedDecisionsKept
  <2>4. QED
    BY <1>6, <2>2, <2>3 DEF BindDraft
<1>7. CASE ReviewIntegration
  <2>1. sourcesPc = "review" /\ UNCHANGED <<integration, preserved, recovered>>
    BY <1>7 DEF ReviewIntegration
  <2>2. CASE /\ sourcesPc' \in {"accepted", "review", "unresolved"}
             /\ UNCHANGED <<sourceAttempt, judgedDraft, reopened, objections, rejectedDrafts>>
    BY <2>1, <2>2
    DEF SourcesInv, ReopenedAlone, TakenUpUnrejected, AcceptedDecisionsKept, ValidDraft, Additions
  <2>3. CASE \E refused \in (SUBSET Sections) \ {{}} :
               /\ reopened' = Reopens(refused)
               /\ judgedDraft' = [draft |-> integration, accepted |-> Sections \ refused]
               /\ objections' = TRUE /\ rejectedDrafts' = rejectedDrafts \cup {integration}
               /\ FailAttempt(TRUE) /\ UNCHANGED formatUsed
    <3>1. PICK refused : reopened' = Reopens(refused)
      BY <2>3
    <3>2. reopened' # {} => sourceAttempt = 1
      BY <3>1 DEF Reopens
    <3>3. /\ sourcesPc' \in {"write", "reopen", "unresolved"} /\ sourceAttempt' \in Nat
          /\ sourcesPc' = "reopen" => reopened' # {}
      BY <2>3, <3>2, FailedAttempt DEF SourcesInv
    <3>4. sourcesPc' = "reopen" => ~recovered
      BY <2>1, <3>2, <3>3 DEF SourcesInv, TakenUpUnrejected
    <3>5. /\ integration = [bind |-> integration.bind, copy |-> integration.copy] /\ ValidDraft(integration)
          /\ integration # NoDraft
      BY <2>1, NoDraftInvalid DEF SourcesInv
    <3>6. judgedDraft'.draft = integration /\ ValidDraft(judgedDraft'.draft)
      BY <2>3, <3>5
    <3>7. ReopenedAlone'
      BY <3>3, <3>5, <3>6 DEF ReopenedAlone, ValidDraft, Additions
    <3>8. TakenUpUnrejected'
      BY <2>1, <2>3, <3>3, <3>4, <3>5 DEF SourcesInv, TakenUpUnrejected
    <3>9. QED
      BY <2>1, <3>3, <3>7, <3>8 DEF SourcesInv, AcceptedDecisionsKept
  <2>4. QED
    BY <1>7, <2>1, <2>2, <2>3 DEF ReviewIntegration, EndUnresolved
<1>8. CASE UNCHANGED sourcesVars
  BY <1>8
  DEF SourcesInv, ReopenedAlone, TakenUpUnrejected, AcceptedDecisionsKept, ValidDraft, Additions
<1>9. QED
  BY <1>1, <1>2, <1>3, <1>4, <1>5, <1>6, <1>7, <1>8 DEF SourcesNext

\* For any number of checks, additions and runs: a correction keeps what was accepted, a
\* rejected draft is never put to another review, and the attempts end.
THEOREM IntegrationReviewed ==
  SourcesSpec => [](AcceptedDecisionsKept /\ RejectedNotResubmitted /\ AttemptsEnd)
<1>1. SourcesInv => AcceptedDecisionsKept /\ RejectedNotResubmitted /\ AttemptsEnd
  BY DEF SourcesInv, TakenUpUnrejected, RejectedNotResubmitted, AttemptsEnd
<1>2. QED
  BY <1>1, SourcesStart, SourcesStep, PTL DEF SourcesSpec

\* The reviews after the gates, of the translations and of further sources, together.
THEOREM LaterReviewsChecked == TranslationSpec /\ SourcesSpec => []LaterReviewsHold
  BY CopyReviewed, IntegrationReviewed, PTL DEF LaterReviewsHold
=============================================================================
