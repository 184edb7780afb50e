--------------------------- MODULE TopicReviewProofs ---------------------------
(***************************************************************************)
(* For any topics, batch size, threads and budget: no topic leaves the      *)
(* selector without a reviewer's support for its very draft, only denied    *)
(* topics are omitted, and what the coverage synthesis committed is kept.   *)
(***************************************************************************)
EXTENDS TopicReview, BatchLemmas

Active == {"reviewing", "correcting", "concluding"}

\* A topic some batch of this round still holds.
InPool(t) == (\E b \in queue : t \in b) \/ (\E w \in Workers : t \in Held(stack[w]))

\* What was accepted, approved, returned or judged "yes" was supported as it is.
SupportInv ==
  /\ approved \subseteq supported
  /\ \A t \in accepted : <<t, trial[t]>> \in supported
  /\ \A t \in Topics : verdict[t] = "yes" => <<t, trial[t]>> \in supported
  /\ ReturnedWasReviewed

\* Only rejected topics are reworded, and only while there are any; no decision
\* outlives its review.
TodoInv ==
  /\ pc = "correcting" => correcting
  /\ pc \notin Active => \A t \in Topics : verdict[t] = "none"
  /\ todo # {} <=> pc = "correcting"
  /\ todo \subseteq pending /\ todo \cap accepted = {}
  /\ \A t \in todo : verdict[t] = "no"
  /\ pc = "reviewing" /\ ~correcting => accepted \cap pending = {}
  /\ pc \in Active => pending \cup accepted = kept

\* A topic that is neither accepted nor left without a verdict was denied.
DenialInv ==
  /\ omitted \subseteq denied
  /\ \A t \in Topics : verdict[t] = "no" => t \in denied
  /\ pc \in {"correcting", "concluding"} \/ (pc = "reviewing" /\ correcting) =>
       pending \subseteq accepted \cup unresolved \cup denied

\* The first round, and the second of a covered review, lose no topic unless a
\* thread has raised.
RoundInv ==
  /\ \A w \in Workers : Apart(stack[w])
  /\ pc = "reviewing" /\ ~raised /\ (correcting => covered) =>
       \A t \in pending : \/ t \in accepted \cup unresolved \/ verdict[t] # "none"
                          \/ InPool(t)

\* A covered review holds the committed topics with their rows, and concludes
\* with all of them accepted or with a reason to fail.
CoverInv ==
  /\ pc \in {"failed", "published"} => covered
  /\ covered => /\ kept = committed.topics
                /\ \A t \in Topics : /\ trial[t].rows = committed.drafts[t].rows
                                     /\ recorded[t].rows = committed.drafts[t].rows
                                     /\ draft[t].rows = committed.drafts[t].rows
  /\ covered /\ pc = "correcting" =>
       unresolved = {} /\ \A t \in pending : t \in accepted \/ verdict[t] = "no"
  /\ covered /\ pc = "concluding" => unresolved # {} \/ pending \subseteq accepted

\* A third attempt never starts, and no empty batch waits.
AttemptInv == {} \notin queue /\ \A w \in Workers : attempt[w] = 2 => busy[w]

IInv ==
  /\ TypeOK
  /\ AttemptInv
  /\ SupportInv
  /\ TodoInv
  /\ DenialInv
  /\ RoundInv
  /\ CoverInv

\* The groups of variables, visible in every proof below.
USE DEF selection, audits, review, round, pool, history, vars

-----------------------------------------------------------------------------
(* Batches *)

\* The batches of a round hold its topics, and none of them is empty.
LEMMA BatchesOfRound ==
  ASSUME NEW ts \in SUBSET Topics
  PROVE  /\ Batches(ts) \subseteq SUBSET Topics /\ {} \notin Batches(ts)
         /\ \A t \in ts : \E b \in Batches(ts) : t \in b
<1> DEFINE batch(t) == {u \in ts : Rank(ts, u) \div BatchSize = Rank(ts, t) \div BatchSize}
<1>1. Batches(ts) = {batch(t) : t \in ts}
  BY DEF Batches
<1>2. \A t \in ts : t \in batch(t) /\ batch(t) \in SUBSET Topics
  OBVIOUS
<1> HIDE DEF batch
<1>3. QED
  BY <1>1, <1>2

\* A batch of several topics is halved into two disjoint, nonempty batches.
LEMMA HalvesOfBatch ==
  ASSUME NEW b \in (SUBSET Topics) \ {{}}, Cardinality(b) # 1
  PROVE  \E l, r \in (SUBSET Topics) \ {{}} : /\ Halves(b) = <<l, r>>
                                             /\ l \cup r = b /\ l \cap r = {}
<1> DEFINE l == {t \in b : Rank(b, t) < Cardinality(b) \div 2}
<1>1. IsFiniteSet(b) /\ b \in SUBSET Nat
  BY TopicAssumption, FS_Subset
<1>2. Cardinality(b) > 1
  BY <1>1, FS_CardinalityType, FS_EmptySet
<1>3. l # {} /\ b \ l # {}
  BY <1>1, <1>2, HalvesNonempty DEF Rank
<1>4. Halves(b) = <<l, b \ l>>
  BY DEF Halves
<1>5. l \in (SUBSET Topics) \ {{}} /\ b \ l \in (SUBSET Topics) \ {{}}
      /\ l \cup (b \ l) = b /\ l \cap (b \ l) = {}
  BY <1>3
<1>6. QED
  <2> HIDE DEF l
  <2> QED BY <1>4, <1>5

\* A visited batch is nonempty, and the rest of the stack holds what it does not.
LEMMA VisitedBatch ==
  ASSUME IInv, NEW w \in Workers, stack[w] # <<>>
  PROVE  /\ Batch(w) \in (SUBSET Topics) \ {{}}
         /\ Tail(stack[w]) \in Seq((SUBSET Topics) \ {{}})
         /\ Apart(Tail(stack[w])) /\ Held(stack[w]) = Batch(w) \cup Held(Tail(stack[w]))
<1>1. stack[w] \in Seq((SUBSET Topics) \ {{}}) /\ Apart(stack[w])
  BY DEF IInv, TypeOK, RoundInv
<1>2. QED
  BY <1>1, HeldTail DEF Batch

LEMMA HalvedStack ==
  ASSUME IInv, NEW w \in Workers, stack[w] # <<>>, Cardinality(Batch(w)) # 1
  PROVE  LET s == Halves(Batch(w)) \o Tail(stack[w])
         IN  s \in Seq((SUBSET Topics) \ {{}}) /\ Apart(s) /\ Held(s) = Held(stack[w])
<1>1. /\ stack[w] \in Seq((SUBSET Topics) \ {{}}) /\ Apart(stack[w])
      /\ Batch(w) \in (SUBSET Topics) \ {{}}
  BY VisitedBatch DEF IInv, TypeOK, RoundInv
<1>2. PICK l, r \in (SUBSET Topics) \ {{}} : /\ Halves(Batch(w)) = <<l, r>>
                                            /\ l \cup r = Batch(w) /\ l \cap r = {}
  BY <1>1, HalvesOfBatch
<1>3. l # {} /\ r # {} /\ Batch(w) = Head(stack[w])
  BY DEF Batch
<1>4. /\ <<l, r>> \o Tail(stack[w]) \in Seq((SUBSET Topics) \ {{}})
      /\ Apart(<<l, r>> \o Tail(stack[w]))
      /\ Held(<<l, r>> \o Tail(stack[w])) = Held(stack[w])
  BY <1>1, <1>2, <1>3, HeldHalved
<1>5. QED
  BY <1>2, <1>4

-----------------------------------------------------------------------------
(* What a thread's step does *)

\* A thread changes nothing but its batches, the verdicts and the budget.
LEMMA ThreadFrame ==
  ASSUME NEW w \in Workers, Worker(w)
  PROVE  /\ UNCHANGED <<pc, kept, draft, approved, recorded, spoiled, omitted, covered, pending,
                        passes, accepted, trial, todo, correcting, cancelled, committed>>
         /\ pc = "reviewing"
BY Zenon DEF Worker, Take, Oversized, Reserve, Judge, Truncated, Unusable, Fatal, Proceed, GiveUp,
  Escape, Visiting

Goes(w, s) ==
  /\ stack' = [stack EXCEPT ![w] = s] /\ attempt' = [attempt EXCEPT ![w] = 0]
  /\ busy' = [busy EXCEPT ![w] = FALSE]

\* Decisions change in one way only.
Decides(w, yes) ==
  /\ verdict' = [t \in Topics |-> IF t \in yes THEN "yes"
                                  ELSE IF t \in Batch(w) \ yes THEN "no" ELSE verdict[t]]
  /\ supported' = supported \cup {<<t, trial[t]>> : t \in yes}
  /\ denied' = denied \cup (Batch(w) \ yes)

Silent == UNCHANGED <<verdict, supported, denied>>

\* The five things a thread does with its stack.
Takes(w)   == /\ stack[w] = <<>> /\ UNCHANGED <<busy, raised, unresolved>> /\ Silent
              /\ \E b \in queue : queue' = queue \ {b} /\ stack' = [stack EXCEPT ![w] = <<b>>]
              /\ attempt' = [attempt EXCEPT ![w] = 0]
Drops(w)   == /\ Goes(w, Tail(stack[w])) /\ UNCHANGED <<queue, raised>>
              /\ \/ Silent /\ unresolved' = unresolved \cup Batch(w)
                 \/ UNCHANGED unresolved /\ \E yes \in SUBSET Batch(w) : Decides(w, yes)
Halve(w)   == /\ Cardinality(Batch(w)) # 1
              /\ Goes(w, Halves(Batch(w)) \o Tail(stack[w]))
              /\ UNCHANGED <<queue, raised, unresolved>> /\ Silent
Asks(w)    == /\ UNCHANGED <<queue, raised, stack, unresolved>> /\ Silent
              /\ \/ /\ ~busy[w] /\ attempt' = [attempt EXCEPT ![w] = @ + 1]
                    /\ busy' = [busy EXCEPT ![w] = TRUE]
                 \/ /\ attempt[w] = 1 /\ UNCHANGED attempt
                    /\ busy' = [busy EXCEPT ![w] = FALSE]
Escapes(w) == Goes(w, <<>>) /\ raised' = TRUE /\ UNCHANGED <<queue, unresolved>> /\ Silent

LEMMA ThreadStep ==
  ASSUME IInv, NEW w \in Workers, Worker(w)
  PROVE  Takes(w) \/ (stack[w] # <<>> /\ (Drops(w) \/ Halve(w) \/ Asks(w) \/ Escapes(w)))
<1> USE DEF Goes, Silent
<1>0. ASSUME stack[w] # <<>>
      PROVE  <<>> \o Tail(stack[w]) = Tail(stack[w]) /\ stack \in [Workers -> Seq((SUBSET Topics) \ {{}})]
  BY <1>0, VisitedBatch, ConcatEmptySeq DEF IInv, TypeOK
<1>1. ASSUME stack[w] # <<>>, GiveUp(w), Silent PROVE Drops(w)
  BY <1>0, <1>1 DEF GiveUp, Proceed, Drops
<1>2. ASSUME stack[w] # <<>>, Cardinality(Batch(w)) # 1, Proceed(w, Halves(Batch(w))),
             UNCHANGED unresolved, Silent
      PROVE  Halve(w)
  BY <1>0, <1>2 DEF Proceed, Halve
<1>3. ASSUME Escape(w), Silent PROVE Escapes(w)
  BY <1>3 DEF Escape, Escapes
<1>4. CASE Take(w)
  BY <1>4, Zenon DEF Take, Takes
<1>5. CASE Oversized(w)
  BY <1>1, <1>2, <1>5, Zenon DEF Oversized, Visiting
<1>6. CASE Reserve(w)
  BY <1>1, <1>3, <1>6, Zenon DEF Reserve, Visiting, Asks
<1>7. CASE Judge(w)
  BY <1>0, <1>7 DEF Judge, Visiting, Proceed, Drops, Decides
<1>8. CASE Truncated(w)
  BY <1>1, <1>2, <1>8, Zenon DEF Truncated, Visiting, Asks
<1>9. CASE Unusable(w)
  BY <1>1, <1>9, Zenon DEF Unusable, Visiting
<1>10. CASE Fatal(w)
  BY <1>3, <1>10, Zenon DEF Fatal, Visiting
<1>11. QED
  BY <1>4, <1>5, <1>6, <1>7, <1>8, <1>9, <1>10 DEF Worker

-----------------------------------------------------------------------------
(* What the caller's steps do *)

\* A review that ends keeps nothing of its rounds.
LEMMA Left ==
  ASSUME NEW place, Leave(place)
  PROVE  /\ pc' = place /\ pending' = {} /\ accepted' = {} /\ todo' = {} /\ correcting' = FALSE
         /\ unresolved' = {} /\ verdict' = [t \in Topics |-> "none"] /\ calls' = 0
         /\ queue' = {} /\ raised' = FALSE /\ cancelled' = FALSE
         /\ UNCHANGED <<covered, passes, stack, attempt, busy>>
BY Zenon DEF Leave

\* A correction rewords topics that have a wording left, and nothing else.
LEMMA RevisedTopics ==
  ASSUME TypeOK, NEW ts \in SUBSET Topics, NEW forms, NEW f \in Revisions(ts, forms)
  PROVE  /\ f \in [Topics -> Drafts]
         /\ \A t \in Topics \ ts : f[t] = trial[t]
         /\ \A t \in ts : trial[t].wording < MaxDraft /\ f[t] \in forms[t]
BY DEF Revisions

\* Another wording keeps the rows.
LEMMA RewordedRows ==
  ASSUME NEW d \in Drafts
  PROVE  Reworded(d).rows = d.rows
BY DEF Reworded, Drafts

\* The first of the rejected topics is one of them.
LEMMA ForemostRejected ==
  ASSUME TypeOK, todo # {}
  PROVE  Foremost \in todo
<1>1. todo \in SUBSET Nat
  BY TopicAssumption DEF TypeOK
<1>2. \E t \in todo : \A u \in todo : t <= u
  BY <1>1, LeastElement
<1>3. QED
  BY <1>2 DEF Foremost

-----------------------------------------------------------------------------
(* Types *)

Switches ==
  /\ covered \in BOOLEAN /\ correcting \in BOOLEAN /\ spoiled \in BOOLEAN
  /\ raised \in BOOLEAN /\ cancelled \in BOOLEAN

TopicSets ==
  /\ kept \in SUBSET Topics /\ pending \in SUBSET Topics /\ accepted \in SUBSET Topics
  /\ todo \in SUBSET Topics /\ unresolved \in SUBSET Topics /\ omitted \in SUBSET Topics
  /\ denied \in SUBSET Topics

Forms ==
  /\ draft \in [Topics -> Drafts] /\ recorded \in [Topics -> Drafts] /\ trial \in [Topics -> Drafts]
  /\ approved \in SUBSET (Topics \X Drafts) /\ supported \in SUBSET (Topics \X Drafts)

Counts ==
  /\ pc \in {"selecting", "reviewing", "correcting", "concluding", "reviewed",
             "published", "failed", "ended"}
  /\ verdict \in [Topics -> {"none", "yes", "no"}]
  /\ calls \in 0..CallBudget /\ passes \in 0..MaxPasses

InHand ==
  /\ queue \subseteq SUBSET Topics
  /\ stack \in [Workers -> Seq((SUBSET Topics) \ {{}})]
  /\ attempt \in [Workers -> 0..2] /\ busy \in [Workers -> BOOLEAN]

LEMMA TypeParts == TypeOK <=> Switches /\ TopicSets /\ Forms /\ Counts /\ InHand
BY DEF TypeOK, Switches, TopicSets, Forms, Counts, InHand

\* Switches are only ever set to truth values.
LEMMA SwitchesNext ==
  ASSUME Switches, [Next]_vars
  PROVE  Switches'
<1> USE DEF Switches
<1>1. CASE Select \/ Cover \/ Retry
  <2>1. ASSUME NEW ts, NEW drafts, NEW last, StartReview(ts, drafts, last)
        PROVE  correcting' = FALSE /\ UNCHANGED <<raised, cancelled>>
    BY <2>1, Zenon DEF StartReview, StartRound
  <2>2. CASE Select
    BY <2>1, <2>2, Zenon DEF Select
  <2>3. CASE Cover
    <3>1. correcting' = FALSE /\ UNCHANGED <<raised, cancelled>>
      BY <2>1, <2>3, Zenon DEF Cover
    <3>2. covered' = TRUE /\ spoiled' = FALSE
      BY <2>3, Zenon DEF Cover
    <3>3. QED
      BY <3>1, <3>2, Zenon
  <2>4. CASE Retry
    BY <2>1, <2>4, Zenon DEF Retry
  <2>5. QED
    BY <1>1, <2>2, <2>3, <2>4
<1>2. CASE Observe \/ JoinFirst \/ JoinSecond
  BY <1>2, Zenon DEF Observe, JoinFirst, JoinSecond
<1>3. CASE Correct \/ CorrectInVain \/ Reword
  BY <1>3, Zenon DEF Correct, CorrectInVain, Reword, StartRound
<1>4. CASE Abort \/ RewordInVain \/ CorrectFatally \/ Conclude
  BY <1>4, Zenon DEF Abort, RewordInVain, CorrectFatally, Conclude, Leave
<1>5. ASSUME NEW w \in Workers, Worker(w) PROVE Switches'
  <2>1. UNCHANGED <<covered, correcting, spoiled, cancelled>>
    BY <1>5, ThreadFrame
  <2>2. raised' = raised \/ raised' = TRUE
    BY <1>5, Zenon DEF Worker, Take, Oversized, Reserve, Judge, Truncated, Unusable, Fatal, Proceed,
       GiveUp, Escape
  <2>3. QED
    BY <2>1, <2>2, Zenon
<1>6. CASE UNCHANGED vars
  BY <1>6, Zenon
<1>7. QED
  BY <1>1, <1>2, <1>3, <1>4, <1>5, <1>6, Zenon DEF Next, Caller

\* Sets of topics stay sets of topics.
LEMMA TopicSetsNext ==
  ASSUME IInv, TopicSets, [Next]_vars
  PROVE  TopicSets'
<1>1. ASSUME NEW ts \in SUBSET Topics, NEW drafts, NEW last, StartReview(ts, drafts, last)
      PROVE  /\ pending' \in SUBSET Topics /\ accepted' \in SUBSET Topics /\ todo' = {}
             /\ unresolved' = {} /\ omitted' = {} /\ denied' = {}
  BY <1>1 DEF StartReview, Unreviewed
<1>2. CASE Select \/ Retry
  BY <1>1, <1>2 DEF Select, Retry, TopicSets
<1>3. CASE Cover
  BY <1>1, <1>3 DEF Cover, TopicSets
<1>4. CASE Observe \/ JoinFirst \/ JoinSecond
  BY <1>4 DEF Observe, JoinFirst, JoinSecond, TopicSets, Supported, Rejected
<1>5. CASE Correct \/ CorrectInVain \/ Reword
  <2>1. /\ UNCHANGED <<kept, pending, accepted, unresolved, omitted, denied>>
        /\ todo' = {} \/ todo' = todo \ {Foremost}
    BY <1>5, Zenon DEF Correct, CorrectInVain, Reword
  <2>2. QED
    BY <2>1 DEF TopicSets
<1>6. CASE Abort \/ RewordInVain \/ CorrectFatally
  <2>1. PICK place : Leave(place) /\ UNCHANGED <<kept, omitted, denied>>
    BY <1>6, Zenon DEF Abort, RewordInVain, CorrectFatally
  <2>2. QED
    BY <2>1, Left DEF TopicSets
<1>7. CASE Conclude
  <2>1. PICK place : /\ Leave(place) /\ UNCHANGED denied
                     /\ kept' = kept \/ kept' = accepted
                     /\ omitted' = (pending \ accepted) \ unresolved
    BY <1>7, Zenon DEF Conclude
  <2>2. QED
    BY <2>1, Left DEF TopicSets
<1>8. ASSUME NEW w \in Workers, Worker(w) PROVE TopicSets'
  <2>1. UNCHANGED <<kept, pending, accepted, todo, omitted>>
    BY <1>8, ThreadFrame
  <2>2. unresolved' \in SUBSET Topics /\ denied' \in SUBSET Topics
    <3>1. CASE Takes(w) \/ Halve(w) \/ Asks(w) \/ Escapes(w)
      BY <3>1 DEF Takes, Halve, Asks, Escapes, Silent, TopicSets
    <3>2. CASE stack[w] # <<>> /\ Drops(w)
      BY <3>2, VisitedBatch DEF Drops, Silent, Decides, TopicSets
    <3>3. QED
      BY <1>8, <3>1, <3>2, ThreadStep
  <2>3. QED
    BY <2>1, <2>2 DEF TopicSets
<1>9. CASE UNCHANGED vars
  BY <1>9 DEF TopicSets
<1>10. QED
  BY <1>2, <1>3, <1>4, <1>5, <1>6, <1>7, <1>8, <1>9 DEF Next, Caller

\* A revised draft is a draft.
LEMMA FormsNext ==
  ASSUME IInv, TopicSets, Forms, [Next]_vars
  PROVE  Forms'
<1>1. CASE Select
  BY <1>1, Zenon DEF Select, StartReview, Forms
<1>2. CASE Retry
  BY <1>2, Zenon DEF Retry, StartReview, Forms
<1>3. CASE Cover
  <2>1. PICK f \in [Topics -> Drafts] : draft' = f /\ trial' = f /\ recorded' = f
    BY <1>3 DEF Cover, StartReview, Revisions
  <2>2. UNCHANGED <<approved, supported>>
    BY <1>3 DEF Cover
  <2>3. QED
    BY <2>1, <2>2 DEF Forms
<1>4. CASE Observe \/ JoinFirst \/ JoinSecond \/ CorrectInVain
  BY <1>4 DEF Observe, JoinFirst, JoinSecond, CorrectInVain, Forms
<1>5. CASE Correct
  <2>1. trial' \in [Topics -> Drafts] /\ UNCHANGED <<draft, recorded, approved, supported>>
    BY <1>5 DEF Correct, Revisions
  <2>2. QED
    BY <2>1 DEF Forms
<1>6. CASE Reword
  <2>1. /\ trial' \in [Topics -> Drafts] /\ recorded' = [recorded EXCEPT ![Foremost] = trial'[Foremost]]
        /\ UNCHANGED <<draft, approved, supported>>
    BY <1>6 DEF Reword, Revisions
  <2>2. Foremost \in Topics
    BY <1>6, ForemostRejected DEF Reword, IInv, TodoInv, TopicSets
  <2>3. QED
    BY <2>1, <2>2 DEF Forms
<1>7. ASSUME NEW acc, Record(acc) PROVE approved' \in SUBSET (Topics \X Drafts)
  BY <1>7 DEF Record, TopicSets, Forms
<1>8. CASE Abort \/ CorrectFatally \/ Conclude
  <2>1. /\ Record(accepted) /\ UNCHANGED <<recorded, trial, supported>>
        /\ draft' = draft \/ draft' = trial
    BY <1>8, Zenon DEF Abort, CorrectFatally, Conclude
  <2>2. QED
    BY <1>7, <2>1 DEF Forms
<1>9. CASE RewordInVain
  <2>1. Record(accepted) /\ UNCHANGED <<draft, trial, supported>>
    BY <1>9 DEF RewordInVain
  <2>2. \/ UNCHANGED recorded
        \/ \E f \in [Topics -> Drafts] : recorded' = [recorded EXCEPT ![Foremost] = f[Foremost]]
    BY <1>9 DEF RewordInVain, Revisions
  <2>3. Foremost \in Topics
    BY <1>9, ForemostRejected DEF RewordInVain, IInv, TodoInv, TopicSets
  <2>4. recorded' \in [Topics -> Drafts]
    BY <2>2, <2>3 DEF Forms
  <2>5. QED
    BY <1>7, <2>1, <2>4 DEF Forms
<1>10. ASSUME NEW w \in Workers, Worker(w) PROVE Forms'
  <2>1. UNCHANGED <<draft, recorded, trial, approved>>
    BY <1>10, ThreadFrame
  <2>2. supported' \in SUBSET (Topics \X Drafts)
    <3>1. CASE Takes(w) \/ Halve(w) \/ Asks(w) \/ Escapes(w)
      BY <3>1 DEF Takes, Halve, Asks, Escapes, Silent, Forms
    <3>2. CASE stack[w] # <<>> /\ Drops(w)
      BY <3>2, VisitedBatch DEF Drops, Silent, Decides, Forms
    <3>3. QED
      BY <1>10, <3>1, <3>2, ThreadStep
  <2>3. QED
    BY <2>1, <2>2 DEF Forms
<1>11. CASE UNCHANGED vars
  BY <1>11 DEF Forms
<1>12. QED
  BY <1>1, <1>2, <1>3, <1>4, <1>5, <1>6, <1>8, <1>9, <1>10, <1>11 DEF Next, Caller

\* Threads and corrections together stay within the budget.
LEMMA CountsNext ==
  ASSUME IInv, Counts, [Next]_vars
  PROVE  Counts'
<1>1. ASSUME NEW ts, NEW drafts, NEW last, StartReview(ts, drafts, last)
      PROVE  /\ pc' \in {"published", "reviewed", "reviewing"} /\ calls' = 0
             /\ verdict' \in [Topics -> {"none", "yes", "no"}]
  <2>1. verdict' = verdict \/ verdict' = [t \in Topics |-> "none"]
    BY <1>1, Zenon DEF StartReview, StartRound
  <2>2. pc' \in {"published", "reviewed", "reviewing"} /\ calls' = 0
    BY <1>1 DEF StartReview
  <2>3. QED
    BY <2>1, <2>2 DEF Counts
<1>2. CASE Select \/ Cover \/ Retry
  <2>1. PICK ts, drafts, last : StartReview(ts, drafts, last)
    BY <1>2, Zenon DEF Select, Cover, Retry
  <2>2. passes' \in 0..MaxPasses
    <3>1. passes' = passes \/ passes' = 1 \/ (passes < MaxPasses /\ passes' = passes + 1)
      BY <1>2 DEF Select, Cover, Retry
    <3>2. QED
      BY <3>1, TopicAssumption DEF Counts
  <2>3. QED
    BY <1>1, <2>1, <2>2, TopicAssumption DEF Counts
<1>3. CASE Observe \/ JoinFirst \/ JoinSecond
  BY <1>3 DEF Observe, JoinFirst, JoinSecond, Counts
<1>4. ASSUME Paid PROVE calls' \in 0..CallBudget
  BY <1>4, TopicAssumption DEF Paid, Counts
<1>5. CASE Correct \/ CorrectInVain \/ Reword
  <2>1. UNCHANGED passes /\ (calls' = calls \/ Paid)
    BY <1>5, Zenon DEF Correct, CorrectInVain, Reword
  <2>2. verdict' = verdict \/ verdict' = [t \in Topics |-> "none"]
    BY <1>5, Zenon DEF Correct, CorrectInVain, Reword, StartRound
  <2>3. pc' \in {"reviewing", "concluding", "correcting"}
    BY <1>5 DEF Correct, CorrectInVain, Reword
  <2>4. QED
    BY <1>4, <2>1, <2>2, <2>3 DEF Counts
<1>6. CASE Abort \/ RewordInVain \/ CorrectFatally \/ Conclude
  <2>1. PICK place \in {"ended", "failed", "published", "reviewed"} : Leave(place)
    <3>1. CASE Abort \/ RewordInVain \/ CorrectFatally
      BY <3>1 DEF Abort, RewordInVain, CorrectFatally
    <3>2. CASE Conclude
      <4>1. \/ Leave("failed") \/ Leave("ended")
            \/ Leave(IF covered THEN "published" ELSE "reviewed")
        BY <3>2, Zenon DEF Conclude
      <4>2. QED
        BY <4>1, Zenon
    <3>3. QED
      BY <1>6, <3>1, <3>2
  <2>2. pc' = place /\ verdict' = [t \in Topics |-> "none"] /\ calls' = 0 /\ UNCHANGED passes
    BY <2>1, Left
  <2>3. QED
    BY <2>2, TopicAssumption DEF Counts
<1>7. ASSUME NEW w \in Workers, Worker(w) PROVE Counts'
  <2>1. UNCHANGED <<pc, passes>>
    BY <1>7, ThreadFrame
  <2>2. calls' = calls \/ (~(calls >= CallBudget) /\ calls' = calls + 1)
    BY <1>7, Zenon DEF Worker, Take, Oversized, Reserve, Judge, Truncated, Unusable, Fatal
  <2>3. calls' \in 0..CallBudget
    BY <2>2, TopicAssumption DEF Counts
  <2>4. verdict' \in [Topics -> {"none", "yes", "no"}]
    BY <1>7, ThreadStep DEF Takes, Drops, Halve, Asks, Escapes, Silent, Decides, Counts
  <2>5. QED
    BY <2>1, <2>3, <2>4 DEF Counts
<1>8. CASE UNCHANGED vars
  BY <1>8 DEF Counts
<1>9. QED
  BY <1>2, <1>3, <1>5, <1>6, <1>7, <1>8 DEF Next, Caller

\* Stacks hold nonempty batches of topics; no batch is asked about a third time.
LEMMA InHandNext ==
  ASSUME IInv, TopicSets, InHand, [Next]_vars
  PROVE  InHand' /\ AttemptInv'
<1>0. AttemptInv /\ <<>> \in Seq((SUBSET Topics) \ {{}})
  BY EmptySeq DEF IInv
<1>1. ASSUME NEW ts \in SUBSET Topics, StartRound(ts)
      PROVE  InHand' /\ AttemptInv'
  BY <1>0, <1>1, BatchesOfRound DEF StartRound, InHand, AttemptInv
<1>2. ASSUME UNCHANGED <<queue, stack, attempt, busy>> PROVE InHand' /\ AttemptInv'
  BY <1>0, <1>2 DEF InHand, AttemptInv
<1>3. ASSUME queue' = {}, UNCHANGED <<stack, attempt, busy>> PROVE InHand' /\ AttemptInv'
  BY <1>0, <1>3 DEF InHand, AttemptInv
<1>4. CASE Select \/ Cover \/ Retry
  <2>1. PICK ts, drafts, last : ts \in SUBSET Topics /\ StartReview(ts, drafts, last)
    <3>1. CASE Select \/ Retry
      BY <3>1 DEF Select, Retry, TopicSets
    <3>2. CASE Cover
      BY <3>2 DEF Cover
    <3>3. QED
      BY <1>4, <3>1, <3>2
  <2>2. Unreviewed(ts, drafts) \in SUBSET Topics
    BY <2>1 DEF Unreviewed
  <2>3. StartRound(Unreviewed(ts, drafts)) \/ UNCHANGED <<queue, stack, attempt, busy>>
    BY <2>1, Zenon DEF StartReview
  <2>4. QED
    BY <1>1, <1>2, <2>2, <2>3
<1>5. CASE JoinFirst \/ JoinSecond \/ CorrectInVain \/ UNCHANGED vars
  <2>1. UNCHANGED <<queue, stack, attempt, busy>>
    BY <1>5 DEF JoinFirst, JoinSecond, CorrectInVain
  <2>2. QED
    BY <1>2, <2>1
<1>6. CASE Observe
  BY <1>3, <1>6 DEF Observe
<1>7. CASE Correct \/ Reword
  <2>1. \/ UNCHANGED <<queue, stack, attempt, busy>>
        \/ \E ts \in SUBSET Topics : StartRound(ts)
    <3>1. CASE Correct
      BY <3>1 DEF Correct, TopicSets
    <3>2. CASE Reword
      <4>1. Rejected \in SUBSET Topics
        BY DEF Rejected, TopicSets
      <4>2. StartRound(Rejected) \/ UNCHANGED <<queue, stack, attempt, busy>>
        BY <3>2, Zenon DEF Reword
      <4>3. QED
        BY <4>1, <4>2
    <3>3. QED
      BY <1>7, <3>1, <3>2
  <2>2. QED
    BY <1>1, <1>2, <2>1
<1>8. CASE Abort \/ RewordInVain \/ CorrectFatally \/ Conclude
  <2>1. PICK place : Leave(place)
    BY <1>8, Zenon DEF Abort, RewordInVain, CorrectFatally, Conclude
  <2>2. QED
    BY <1>3, <2>1, Left
<1>9. ASSUME NEW w \in Workers, Worker(w) PROVE InHand' /\ AttemptInv'
  <2>1. ASSUME NEW s \in Seq((SUBSET Topics) \ {{}}), Goes(w, s), UNCHANGED queue
        PROVE  InHand' /\ AttemptInv'
    <3>1. stack' \in [Workers -> Seq((SUBSET Topics) \ {{}})] /\ attempt' \in [Workers -> 0..2]
      BY <2>1 DEF Goes, InHand
    <3>2. busy' \in [Workers -> BOOLEAN]
      BY <2>1, Zenon DEF Goes, InHand
    <3>3. \A v \in Workers : attempt'[v] = 2 => busy'[v]
      <4>1. attempt'[w] = 0 /\ \A v \in Workers \ {w} : attempt'[v] = attempt[v]
        BY <2>1 DEF Goes, InHand
      <4>2. \A v \in Workers \ {w} : busy'[v] = busy[v]
        BY <2>1, Zenon DEF Goes, InHand
      <4>3. QED
        BY <1>0, <4>1, <4>2 DEF AttemptInv
    <3>4. QED
      BY <1>0, <2>1, <3>1, <3>2, <3>3 DEF InHand, AttemptInv
  <2>2. CASE Takes(w)
    <3>1. PICK b \in queue : queue' = queue \ {b} /\ stack' = [stack EXCEPT ![w] = <<b>>]
      BY <2>2 DEF Takes
    <3>2. <<b>> \in Seq((SUBSET Topics) \ {{}})
      <4>1. b \in (SUBSET Topics) \ {{}}
        BY <1>0, <3>1 DEF InHand, AttemptInv
      <4>2. QED
        BY <4>1
    <3>3. attempt' = [attempt EXCEPT ![w] = 0] /\ UNCHANGED busy
      BY <2>2 DEF Takes
    <3>4. queue' \subseteq SUBSET Topics /\ {} \notin queue'
      BY <1>0, <3>1 DEF InHand, AttemptInv
    <3>5. /\ stack' \in [Workers -> Seq((SUBSET Topics) \ {{}})]
          /\ attempt' \in [Workers -> 0..2] /\ busy' \in [Workers -> BOOLEAN]
      <4>1. stack' \in [Workers -> Seq((SUBSET Topics) \ {{}})]
        BY <1>0, <3>1, <3>2 DEF InHand
      <4>2. attempt' \in [Workers -> 0..2]
        BY <1>0, <3>3 DEF InHand
      <4>3. busy' \in [Workers -> BOOLEAN]
        BY <1>0, <3>3, Zenon DEF InHand
      <4>4. QED
        BY <4>1, <4>2, <4>3
    <3>6. \A v \in Workers : attempt'[v] = 2 => busy'[v]
      <4>1. attempt'[w] = 0 /\ \A v \in Workers \ {w} : attempt'[v] = attempt[v]
        BY <1>0, <3>3 DEF InHand
      <4>2. QED
        BY <1>0, <3>3, <4>1 DEF AttemptInv
    <3>7. QED
      BY <3>4, <3>5, <3>6 DEF InHand, AttemptInv
  <2>3. CASE stack[w] # <<>> /\ Drops(w)
    <3>1. Goes(w, Tail(stack[w])) /\ UNCHANGED queue
      BY <2>3 DEF Drops
    <3>2. QED
      BY <2>1, <2>3, <3>1, VisitedBatch
  <2>4. CASE stack[w] # <<>> /\ Halve(w)
    <3>1. /\ Goes(w, Halves(Batch(w)) \o Tail(stack[w])) /\ UNCHANGED queue
          /\ Halves(Batch(w)) \o Tail(stack[w]) \in Seq((SUBSET Topics) \ {{}})
      BY <2>4, HalvedStack DEF Halve
    <3>2. QED
      BY <2>1, <3>1
  <2>5. CASE Asks(w)
    <3>1. UNCHANGED <<queue, stack>> /\ attempt[w] \in 0..2 /\ (attempt[w] = 2 => busy[w])
      BY <1>0, <2>5 DEF Asks, InHand, AttemptInv
    <3>2. CASE /\ ~busy[w] /\ attempt' = [attempt EXCEPT ![w] = @ + 1]
               /\ busy' = [busy EXCEPT ![w] = TRUE]
      <4>1. attempt[w] + 1 \in 0..2
        BY <3>1, <3>2
      <4>2. busy' \in [Workers -> BOOLEAN]
        BY <3>2, Zenon DEF InHand
      <4>3. \A v \in Workers : attempt'[v] = 2 => busy'[v]
        BY <1>0, <3>2, Zenon DEF InHand, AttemptInv
      <4>4. QED
        BY <1>0, <3>1, <3>2, <4>1, <4>2, <4>3 DEF InHand, AttemptInv
    <3>3. CASE /\ attempt[w] = 1 /\ UNCHANGED attempt
               /\ busy' = [busy EXCEPT ![w] = FALSE]
      <4>1. busy' \in [Workers -> BOOLEAN]
        BY <3>3, Zenon DEF InHand
      <4>2. \A v \in Workers : attempt'[v] = 2 => busy'[v]
        BY <1>0, <3>3 DEF InHand, AttemptInv
      <4>3. QED
        BY <1>0, <3>1, <3>3, <4>1, <4>2 DEF InHand, AttemptInv
    <3>4. QED
      BY <2>5, <3>2, <3>3, Zenon DEF Asks
  <2>6. CASE Escapes(w)
    BY <1>0, <2>1, <2>6 DEF Escapes
  <2>7. QED
    BY <1>9, <2>2, <2>3, <2>4, <2>5, <2>6, ThreadStep
<1>10. QED
  BY <1>4, <1>5, <1>6, <1>7, <1>8, <1>9 DEF Next, Caller

-----------------------------------------------------------------------------
(* The start of a review *)

\* Topics with an approval are accepted as they were approved; all the others
\* are in a batch of the first round.
LEMMA StartedReview ==
  ASSUME IInv, pc \notin Active, NEW ts \in SUBSET Topics, NEW drafts, NEW last,
         StartReview(ts, drafts, last), UNCHANGED <<approved, supported>>,
         kept' = ts, draft' = drafts
  PROVE  SupportInv' /\ TodoInv' /\ DenialInv' /\ RoundInv'
<1> DEFINE asked == Unreviewed(ts, drafts)
<1>1. asked \in SUBSET Topics /\ asked \subseteq ts /\ \A t \in ts \ asked : <<t, drafts[t]>> \in approved
  BY DEF Unreviewed
<1> HIDE DEF asked
<1>2. /\ pending' = asked /\ accepted' = ts \ asked /\ trial' = drafts
      /\ todo' = {} /\ correcting' = FALSE /\ omitted' = {} /\ denied' = {}
  BY DEF StartReview, asked
<1>3. \/ pc' = "reviewing" /\ StartRound(asked)
      \/ asked = {} /\ pc' \in {"published", "reviewed"} /\ UNCHANGED <<verdict, stack>>
  BY DEF StartReview, asked
<1>4. \A t \in Topics : verdict'[t] = "none"
  BY <1>3 DEF StartRound, IInv, TodoInv
<1>5. SupportInv'
  <2>1. approved' \subseteq supported' /\ \A t \in ts \ asked : <<t, drafts[t]>> \in supported'
    BY <1>1 DEF IInv, SupportInv
  <2>2. pc' \in {"reviewed", "published"} => \A t \in ts : <<t, drafts[t]>> \in supported'
    BY <1>3, <2>1
  <2>3. QED
    BY <1>2, <1>4, <2>1, <2>2 DEF SupportInv, ReturnedWasReviewed
<1>6. TodoInv'
  BY <1>1, <1>2, <1>3, <1>4 DEF TodoInv, Active
<1>7. DenialInv'
  BY <1>2, <1>3, <1>4 DEF DenialInv
<1>8. RoundInv'
  <2>1. UNCHANGED stack
    BY <1>3 DEF StartRound
  <2>2. pc' = "reviewing" => \A t \in asked : \E b \in queue' : t \in b
    BY <1>1, <1>3, BatchesOfRound DEF StartRound
  <2>3. QED
    BY <1>2, <2>1, <2>2 DEF RoundInv, InPool, IInv
<1>9. QED
  BY <1>5, <1>6, <1>7, <1>8

\* Every review starts this way.
LEMMA ReviewStarts ==
  ASSUME IInv, Select \/ Cover \/ Retry
  PROVE  SupportInv' /\ TodoInv' /\ DenialInv' /\ RoundInv'
<1>1. pc \notin Active /\ UNCHANGED <<approved, supported>>
  BY DEF Select, Cover, Retry, Active
<1>2. PICK ts, drafts, last :
        ts \in SUBSET Topics /\ StartReview(ts, drafts, last) /\ kept' = ts /\ draft' = drafts
  <2>1. CASE Select
    <3>1. StartReview(kept, draft, FALSE) /\ UNCHANGED <<kept, draft>> /\ kept \in SUBSET Topics
      BY <2>1, TypeParts DEF Select, IInv, TopicSets
    <3>2. QED
      BY <3>1, Zenon
  <2>2. CASE Cover
    BY <2>2, Zenon DEF Cover
  <2>3. CASE Retry
    <3>1. StartReview(kept, recorded, TRUE) /\ kept' = kept /\ draft' = recorded /\ kept \in SUBSET Topics
      BY <2>3, TypeParts DEF Retry, IInv, TopicSets
    <3>2. QED
      BY <3>1, Zenon
  <2>4. QED
    BY <2>1, <2>2, <2>3
<1>3. QED
  BY <1>1, <1>2, StartedReview

-----------------------------------------------------------------------------
(* The invariant holds initially *)

LEMMA InitIInv == Init => IInv
<1> SUFFICES ASSUME Init PROVE IInv
  OBVIOUS
<1> DEFINE first == [wording |-> 1, rows |-> 0]
<1>1. TypeOK
  <2>1. first \in Drafts
    BY TopicAssumption DEF Drafts
  <2>2. Switches
    BY Zenon DEF Init, Switches
  <2>3. TopicSets
    BY DEF Init, TopicSets
  <2>4. Forms
    BY <2>1 DEF Init, Forms
  <2>5. Counts
    BY TopicAssumption DEF Init, Counts
  <2>6. InHand
    <3>1. queue \subseteq SUBSET Topics /\ attempt \in [Workers -> 0..2]
      BY DEF Init
    <3>2. stack \in [Workers -> Seq((SUBSET Topics) \ {{}})]
      BY EmptySeq DEF Init
    <3>3. busy \in [Workers -> BOOLEAN]
      BY Zenon DEF Init
    <3>4. QED
      BY <3>1, <3>2, <3>3 DEF InHand
  <2>7. QED
    BY <2>2, <2>3, <2>4, <2>5, <2>6, TypeParts
<1>2. AttemptInv
  BY DEF Init, AttemptInv
<1>3. SupportInv /\ TodoInv /\ DenialInv /\ CoverInv
  BY DEF Init, SupportInv, TodoInv, DenialInv, CoverInv, ReturnedWasReviewed, Active
<1>4. RoundInv
  <2>1. \A w \in Workers : stack[w] = <<>> /\ Len(stack[w]) = 0
    BY DEF Init
  <2>2. pc # "reviewing"
    BY DEF Init
  <2>3. QED
    BY <2>1, <2>2 DEF RoundInv, Apart
<1>5. QED
  BY <1>1, <1>2, <1>3, <1>4 DEF IInv

-----------------------------------------------------------------------------
(* Support *)

\* What is accepted becomes an approval of exactly the draft that was supported.
LEMMA RecordedSupport ==
  ASSUME SupportInv, Record(accepted)
  PROVE  approved' \subseteq supported
BY DEF SupportInv, Record

LEMMA SupportNext ==
  ASSUME IInv, [Next]_vars
  PROVE  SupportInv'
<1>0. SupportInv /\ TypeOK /\ TodoInv
  BY DEF IInv
<1>1. CASE Select \/ Cover \/ Retry
  BY <1>1, ReviewStarts
<1>2. CASE Observe \/ CorrectInVain \/ UNCHANGED vars
  <2>1. /\ UNCHANGED <<approved, supported, accepted, trial, verdict, kept, draft>>
        /\ pc' \in {"reviewed", "published"} => pc \in {"reviewed", "published"}
    BY <1>2 DEF Observe, CorrectInVain
  <2>2. QED
    BY <1>0, <2>1 DEF SupportInv, ReturnedWasReviewed
<1>3. CASE JoinFirst \/ JoinSecond
  <2>1. /\ UNCHANGED <<approved, supported, trial, verdict, pending>>
        /\ accepted' = accepted \cup Supported /\ pc' \notin {"reviewed", "published"}
    BY <1>3 DEF JoinFirst, JoinSecond
  <2>2. \A t \in Supported : <<t, trial[t]>> \in supported
    BY <1>0 DEF Supported, SupportInv, TypeOK
  <2>3. QED
    BY <1>0, <2>1, <2>2 DEF SupportInv, ReturnedWasReviewed
<1>4. CASE Correct
  <2>1. /\ UNCHANGED <<approved, supported, accepted>> /\ pc' = "reviewing"
        /\ \A t \in Topics : verdict'[t] = "none"
    BY <1>4 DEF Correct, StartRound
  <2>2. \A t \in Topics \ todo : trial'[t] = trial[t]
    BY <1>4 DEF Correct, Revisions
  <2>3. accepted \cap todo = {} /\ accepted \subseteq Topics
    BY <1>0 DEF TodoInv, TypeOK
  <2>4. QED
    BY <1>0, <2>1, <2>2, <2>3 DEF SupportInv, ReturnedWasReviewed
<1>5. CASE Reword
  <2>1. Foremost \in todo
    BY <1>0, <1>5, ForemostRejected DEF Reword, TodoInv
  <2>2. UNCHANGED <<approved, supported, accepted>> /\ pc' \in {"reviewing", "correcting"}
    BY <1>5 DEF Reword
  <2>3. \A t \in Topics \ {Foremost} : trial'[t] = trial[t]
    BY <1>5 DEF Reword, Revisions
  <2>4. verdict' = verdict \/ verdict' = [t \in Topics |-> "none"]
    BY <1>5 DEF Reword, StartRound
  <2>5. Foremost \notin accepted /\ verdict[Foremost] = "no" /\ accepted \subseteq Topics
    BY <1>0, <2>1 DEF TodoInv, TypeOK
  <2>6. QED
    BY <1>0, <2>2, <2>3, <2>4, <2>5 DEF SupportInv, ReturnedWasReviewed
<1>6. CASE Abort \/ RewordInVain \/ CorrectFatally
  <2>1. PICK place \in {"ended", "failed"} : Leave(place)
    BY <1>6 DEF Abort, RewordInVain, CorrectFatally
  <2>2. Record(accepted) /\ UNCHANGED <<supported, trial>>
    BY <1>6 DEF Abort, RewordInVain, CorrectFatally
  <2>3. /\ accepted' = {} /\ \A t \in Topics : verdict'[t] = "none"
        /\ pc' \notin {"reviewed", "published"}
    BY <2>1, Left
  <2>4. QED
    BY <1>0, <2>2, <2>3, RecordedSupport DEF SupportInv, ReturnedWasReviewed
<1>7. CASE Conclude
  <2>1. PICK place : /\ Leave(place)
                     /\ \/ place \notin {"reviewed", "published"}
                        \/ kept' = accepted /\ draft' = trial
    <3>1. \/ Leave("failed") \/ Leave("ended")
          \/ /\ Leave(IF covered THEN "published" ELSE "reviewed")
             /\ kept' = accepted /\ draft' = trial
      BY <1>7, Zenon DEF Conclude
    <3>2. QED
      BY <3>1
  <2>2. Record(accepted) /\ UNCHANGED <<supported, trial>>
    BY <1>7 DEF Conclude
  <2>3. accepted' = {} /\ pc' = place /\ \A t \in Topics : verdict'[t] = "none"
    BY <2>1, Left
  <2>4. pc' \in {"reviewed", "published"} => \A t \in kept' : <<t, draft'[t]>> \in supported
    BY <1>0, <2>1, <2>3 DEF SupportInv
  <2>5. QED
    BY <1>0, <2>2, <2>3, <2>4, RecordedSupport DEF SupportInv, ReturnedWasReviewed
<1>8. ASSUME NEW w \in Workers, Worker(w) PROVE SupportInv'
  <2>1. UNCHANGED <<approved, accepted, trial, kept, draft, pc>> /\ pc = "reviewing"
    BY <1>8, ThreadFrame
  <2>2. CASE Silent
    BY <1>0, <2>1, <2>2 DEF Silent, SupportInv, ReturnedWasReviewed
  <2>3. ASSUME NEW yes \in SUBSET Batch(w), Decides(w, yes) PROVE SupportInv'
    <3>1. supported' = supported \cup {<<t, trial[t]>> : t \in yes}
      BY <2>3 DEF Decides
    <3>2. \A t \in Topics : verdict'[t] = "yes" => t \in yes \/ verdict[t] = "yes"
      BY <2>3 DEF Decides
    <3>3. QED
      BY <1>0, <2>1, <3>1, <3>2 DEF SupportInv, ReturnedWasReviewed
  <2>4. QED
    BY <1>8, <2>2, <2>3, ThreadStep DEF Takes, Drops, Halve, Asks, Escapes
<1>9. QED
  BY <1>1, <1>2, <1>3, <1>4, <1>5, <1>6, <1>7, <1>8 DEF Next, Caller

-----------------------------------------------------------------------------
(* Rejected topics and denials *)

LEMMA TodoNext ==
  ASSUME IInv, [Next]_vars
  PROVE  TodoInv'
<1>0. TodoInv /\ TypeOK
  BY DEF IInv
<1> USE DEF Active
<1>1. CASE Select \/ Cover \/ Retry
  BY <1>1, ReviewStarts
<1>2. CASE Observe \/ UNCHANGED vars
  BY <1>0, <1>2 DEF Observe, TodoInv
<1>3. CASE JoinFirst
  <2>1. /\ UNCHANGED <<pending, verdict, kept>> /\ accepted' = accepted \cup Supported
        /\ accepted \cap pending = {} /\ todo = {} /\ pending \cup accepted = kept
    BY <1>0, <1>3 DEF JoinFirst, TodoInv
  <2>2. \/ Rejected # {} /\ pc' = "correcting" /\ correcting' = TRUE /\ todo' = Rejected
        \/ pc' = "concluding" /\ UNCHANGED <<correcting, todo>>
    BY <1>3 DEF JoinFirst
  <2>3. Rejected \subseteq pending /\ Supported \subseteq pending /\ Rejected \cap Supported = {}
        /\ \A t \in Rejected : verdict[t] = "no"
    BY DEF Rejected, Supported
  <2>4. QED
    BY <2>1, <2>2, <2>3 DEF TodoInv
<1>4. CASE JoinSecond
  <2>1. /\ UNCHANGED <<pending, verdict, kept, todo>> /\ accepted' = accepted \cup Supported
        /\ todo = {} /\ pending \cup accepted = kept /\ pc' = "concluding"
    BY <1>0, <1>4 DEF JoinSecond, TodoInv
  <2>2. Supported \subseteq pending
    BY DEF Supported
  <2>3. QED
    BY <2>1, <2>2 DEF TodoInv
<1>5. CASE Correct \/ CorrectInVain
  <2>1. /\ UNCHANGED <<pending, accepted, kept, correcting>> /\ todo' = {}
        /\ pc = "correcting" /\ pc' \in {"reviewing", "concluding"}
    BY <1>5 DEF Correct, CorrectInVain
  <2>2. QED
    BY <1>0, <2>1 DEF TodoInv
<1>6. CASE Reword
  <2>1. /\ UNCHANGED <<pending, accepted, kept, correcting>> /\ todo' = todo \ {Foremost}
        /\ pc = "correcting"
        /\ \/ todo = {Foremost} /\ pc' = "reviewing"
           \/ todo # {Foremost} /\ UNCHANGED <<pc, verdict>>
    BY <1>6 DEF Reword
  <2>2. Foremost \in todo
    BY <1>0, <2>1, ForemostRejected DEF TodoInv
  <2>3. QED
    BY <1>0, <2>1, <2>2 DEF TodoInv
<1>7. CASE Abort \/ RewordInVain \/ CorrectFatally \/ Conclude
  <2>1. PICK place \in {"ended", "failed", "published", "reviewed"} : Leave(place)
    <3>1. CASE Abort \/ RewordInVain \/ CorrectFatally
      BY <3>1 DEF Abort, RewordInVain, CorrectFatally
    <3>2. CASE Conclude
      BY <3>2 DEF Conclude
    <3>3. QED
      BY <1>7, <3>1, <3>2
  <2>2. pc' = place /\ todo' = {} /\ accepted' = {} /\ \A t \in Topics : verdict'[t] = "none"
    BY <2>1, Left
  <2>3. QED
    BY <2>1, <2>2 DEF TodoInv
<1>8. ASSUME NEW w \in Workers, Worker(w) PROVE TodoInv'
  <2>1. UNCHANGED <<pc, kept, pending, accepted, todo, correcting>> /\ pc = "reviewing"
    BY <1>8, ThreadFrame
  <2>2. todo = {}
    BY <1>0, <2>1 DEF TodoInv
  <2>3. QED
    BY <1>0, <2>1, <2>2 DEF TodoInv
<1>9. QED
  BY <1>1, <1>2, <1>3, <1>4, <1>5, <1>6, <1>7, <1>8 DEF Next, Caller

\* When a round has ended without an exception, every topic it was about is
\* accepted, decided or without a verdict.
LEMMA RoundOver ==
  ASSUME IInv, pc = "reviewing", Quiet, ~raised, correcting => covered
  PROVE  \A t \in pending : t \in accepted \cup unresolved \cup Supported \cup Rejected
<1>1. \A t \in pending : ~InPool(t)
  <2>1. \A w \in Workers : Held(stack[w]) = {}
    BY HeldShort DEF Quiet
  <2>2. QED
    BY <2>1 DEF InPool, Quiet
<1>2. \A t \in pending : t \in accepted \cup unresolved \/ verdict[t] # "none"
  BY <1>1 DEF IInv, RoundInv
<1>3. \A t \in pending : verdict[t] \in {"none", "yes", "no"}
  BY DEF IInv, TypeOK
<1>4. QED
  BY <1>2, <1>3 DEF Supported, Rejected

LEMMA DenialNext ==
  ASSUME IInv, [Next]_vars
  PROVE  DenialInv'
<1>0. DenialInv /\ TypeOK /\ TodoInv
  BY DEF IInv
<1>1. CASE Select \/ Cover \/ Retry
  BY <1>1, ReviewStarts
<1>2. CASE Observe \/ CorrectInVain \/ UNCHANGED vars
  <2>1. /\ UNCHANGED <<omitted, denied, pending, accepted, unresolved, correcting, verdict>>
        /\ pc' = pc \/ (pc = "correcting" /\ pc' = "concluding")
    BY <1>2 DEF Observe, CorrectInVain
  <2>2. QED
    BY <1>0, <2>1 DEF DenialInv
<1>3. CASE JoinFirst
  <2>1. /\ UNCHANGED <<omitted, denied, pending, unresolved, verdict>>
        /\ accepted' = accepted \cup Supported
        /\ pc = "reviewing" /\ Quiet /\ ~raised /\ ~correcting
    BY <1>3 DEF JoinFirst
  <2>2. pending \subseteq accepted' \cup unresolved \cup Rejected
    BY <2>1, RoundOver
  <2>3. Rejected \subseteq denied
    BY <1>0 DEF DenialInv, Rejected, TypeOK
  <2>4. QED
    BY <1>0, <2>1, <2>2, <2>3 DEF DenialInv
<1>4. CASE JoinSecond
  <2>1. /\ UNCHANGED <<omitted, denied, pending, verdict>>
        /\ accepted \subseteq accepted' /\ unresolved \subseteq unresolved'
        /\ pc = "reviewing" /\ correcting
    BY <1>4 DEF JoinSecond
  <2>2. QED
    BY <1>0, <2>1 DEF DenialInv
<1>5. CASE Correct \/ Reword
  <2>1. /\ UNCHANGED <<omitted, denied, pending, accepted, unresolved, correcting>>
        /\ pc = "correcting" /\ pc' \in {"reviewing", "correcting"}
    BY <1>5 DEF Correct, Reword
  <2>2. verdict' = verdict \/ verdict' = [t \in Topics |-> "none"]
    BY <1>5, Zenon DEF Correct, Reword, StartRound
  <2>3. QED
    BY <1>0, <2>1, <2>2 DEF DenialInv
<1>6. CASE Abort \/ RewordInVain \/ CorrectFatally
  <2>1. PICK place \in {"ended", "failed"} : Leave(place) /\ UNCHANGED <<omitted, denied>>
    BY <1>6 DEF Abort, RewordInVain, CorrectFatally
  <2>2. pc' = place /\ \A t \in Topics : verdict'[t] = "none"
    BY <2>1, Left
  <2>3. QED
    BY <1>0, <2>1, <2>2 DEF DenialInv
<1>7. CASE Conclude
  <2>1. PICK place \in {"ended", "failed", "published", "reviewed"} : Leave(place)
    BY <1>7 DEF Conclude
  <2>2. pc' = place /\ \A t \in Topics : verdict'[t] = "none"
    BY <2>1, Left
  <2>3. pc = "concluding" /\ omitted' = (pending \ accepted) \ unresolved /\ UNCHANGED denied
    BY <1>7 DEF Conclude
  <2>4. QED
    BY <1>0, <2>1, <2>2, <2>3 DEF DenialInv
<1>8. ASSUME NEW w \in Workers, Worker(w) PROVE DenialInv'
  <2>1. UNCHANGED <<pc, omitted, pending, accepted, correcting>>
    BY <1>8, ThreadFrame
  <2>2. unresolved \subseteq unresolved' /\ (Silent \/ \E yes \in SUBSET Batch(w) : Decides(w, yes))
    BY <1>8, ThreadStep DEF Takes, Drops, Halve, Asks, Escapes
  <2>3. CASE Silent
    BY <1>0, <2>1, <2>2, <2>3 DEF Silent, DenialInv
  <2>4. ASSUME NEW yes \in SUBSET Batch(w), Decides(w, yes) PROVE DenialInv'
    <3>1. denied' = denied \cup (Batch(w) \ yes)
      BY <2>4 DEF Decides
    <3>2. \A t \in Topics : verdict'[t] = "no" => t \in Batch(w) \ yes \/ verdict[t] = "no"
      BY <2>4 DEF Decides
    <3>3. QED
      BY <1>0, <2>1, <2>2, <3>1, <3>2 DEF DenialInv
  <2>5. QED
    BY <2>2, <2>3, <2>4
<1>9. QED
  BY <1>1, <1>2, <1>3, <1>4, <1>5, <1>6, <1>7, <1>8 DEF Next, Caller

-----------------------------------------------------------------------------
(* The topics of a round *)

\* What a thread does to its stack leaves every topic of the round in the pool,
\* gives it a decision or leaves it without a verdict.
LEMMA ThreadRound ==
  ASSUME IInv, NEW w \in Workers, Worker(w)
  PROVE  RoundInv'
<1>0. /\ RoundInv /\ stack \in [Workers -> Seq((SUBSET Topics) \ {{}})]
      /\ UNCHANGED <<pc, pending, accepted, correcting, covered>>
  BY ThreadFrame DEF IInv, TypeOK
<1>1. ASSUME NEW s, Apart(s), stack' = [stack EXCEPT ![w] = s]
      PROVE  /\ \A v \in Workers : Apart(stack'[v])
             /\ stack'[w] = s /\ \A v \in Workers \ {w} : stack'[v] = stack[v]
  BY <1>0, <1>1 DEF RoundInv
<1>2. ASSUME UNCHANGED <<unresolved, raised>>, verdict' = verdict,
             \A v \in Workers : Apart(stack'[v]), \A t \in Topics : InPool(t) => InPool(t)'
      PROVE  RoundInv'
  <2>1. pending \subseteq Topics
    BY DEF IInv, TypeOK
  <2>2. QED
    BY <1>0, <1>2, <2>1 DEF RoundInv
<1>3. CASE Takes(w)
  <2>1. PICK b \in queue : queue' = queue \ {b} /\ stack' = [stack EXCEPT ![w] = <<b>>]
    BY <1>3 DEF Takes
  <2>2. Apart(<<b>>) /\ Held(<<b>>) = b /\ Held(stack[w]) = {}
    BY <1>3, HeldShort DEF Takes
  <2>3. /\ \A v \in Workers : Apart(stack'[v])
        /\ stack'[w] = <<b>> /\ \A v \in Workers \ {w} : stack'[v] = stack[v]
    BY <1>1, <2>1, <2>2
  <2>4. \A t \in Topics : InPool(t) => InPool(t)'
    BY <2>1, <2>2, <2>3 DEF InPool
  <2>5. QED
    BY <1>2, <1>3, <2>3, <2>4 DEF Takes, Silent
<1>4. CASE stack[w] # <<>> /\ Halve(w)
  <2> DEFINE s == Halves(Batch(w)) \o Tail(stack[w])
  <2>1. Apart(s) /\ Held(s) = Held(stack[w]) /\ UNCHANGED queue /\ stack' = [stack EXCEPT ![w] = s]
    BY <1>4, HalvedStack DEF Halve, Goes
  <2> HIDE DEF s
  <2>2. /\ \A v \in Workers : Apart(stack'[v])
        /\ stack'[w] = s /\ \A v \in Workers \ {w} : stack'[v] = stack[v]
    BY <1>1, <2>1
  <2>3. \A t \in Topics : InPool(t) => InPool(t)'
    BY <2>1, <2>2 DEF InPool
  <2>4. QED
    BY <1>2, <1>4, <2>2, <2>3 DEF Halve, Silent
<1>5. CASE Asks(w)
  <2>1. UNCHANGED <<queue, stack>>
    BY <1>5 DEF Asks
  <2>2. \A t \in Topics : InPool(t) => InPool(t)'
    BY <2>1 DEF InPool
  <2>3. QED
    BY <1>0, <1>2, <1>5, <2>1, <2>2 DEF Asks, Silent, RoundInv
<1>6. CASE Escapes(w)
  <2>1. \A v \in Workers : Apart(stack'[v])
    BY <1>1, <1>6, HeldShort DEF Escapes, Goes
  <2>2. QED
    BY <1>6, <2>1 DEF Escapes, RoundInv
<1>7. CASE stack[w] # <<>> /\ Drops(w)
  <2> DEFINE s == Tail(stack[w])
  <2>1. /\ Apart(s) /\ Held(stack[w]) = Batch(w) \cup Held(s) /\ UNCHANGED <<queue, raised>>
        /\ stack' = [stack EXCEPT ![w] = s] /\ Batch(w) \subseteq Topics
    BY <1>7, VisitedBatch DEF Drops, Goes
  <2> HIDE DEF s
  <2>2. /\ \A v \in Workers : Apart(stack'[v])
        /\ stack'[w] = s /\ \A v \in Workers \ {w} : stack'[v] = stack[v]
    BY <1>1, <2>1
  <2>3. \A t \in Topics : InPool(t) => InPool(t)' \/ t \in Batch(w)
    BY <2>1, <2>2 DEF InPool
  <2>4. /\ unresolved \subseteq unresolved' /\ \A t \in Topics : verdict[t] # "none" => verdict'[t] # "none"
        /\ \A t \in Batch(w) : t \in unresolved' \/ verdict'[t] # "none"
    <3>1. CASE Silent /\ unresolved' = unresolved \cup Batch(w)
      BY <3>1 DEF Silent
    <3>2. ASSUME UNCHANGED unresolved, NEW yes \in SUBSET Batch(w), Decides(w, yes)
          PROVE  /\ \A t \in Topics : verdict[t] # "none" => verdict'[t] # "none"
                 /\ \A t \in Batch(w) : verdict'[t] # "none"
      BY <2>1, <3>2 DEF Decides
    <3>3. QED
      BY <1>7, <3>1, <3>2 DEF Drops
  <2>5. pending \subseteq Topics
    BY DEF IInv, TypeOK
  <2>6. QED
    BY <1>0, <2>1, <2>2, <2>3, <2>4, <2>5 DEF RoundInv
<1>8. QED
  BY <1>3, <1>4, <1>5, <1>6, <1>7, ThreadStep

LEMMA RoundNext ==
  ASSUME IInv, [Next]_vars
  PROVE  RoundInv'
<1>0. RoundInv /\ CoverInv /\ TypeOK
  BY DEF IInv
<1>1. CASE Select \/ Cover \/ Retry
  BY <1>1, ReviewStarts
<1>2. ASSUME UNCHANGED stack, pc' # "reviewing" PROVE RoundInv'
  BY <1>0, <1>2 DEF RoundInv
<1>3. CASE JoinFirst \/ JoinSecond \/ CorrectInVain
  BY <1>2, <1>3 DEF JoinFirst, JoinSecond, CorrectInVain
<1>4. CASE Abort \/ RewordInVain \/ CorrectFatally \/ Conclude
  <2>1. PICK place \in {"ended", "failed", "published", "reviewed"} : Leave(place)
    <3>1. CASE Abort \/ RewordInVain \/ CorrectFatally
      BY <3>1 DEF Abort, RewordInVain, CorrectFatally
    <3>2. CASE Conclude
      BY <3>2 DEF Conclude
    <3>3. QED
      BY <1>4, <3>1, <3>2
  <2>2. QED
    BY <1>2, <2>1, Left
<1>5. CASE Observe
  BY <1>0, <1>5 DEF Observe, RoundInv
<1>6. CASE Correct
  <2>1. UNCHANGED <<stack, covered, correcting>> /\ ~covered /\ pc = "correcting"
    BY <1>6 DEF Correct, StartRound
  <2>2. correcting
    BY <2>1 DEF IInv, TodoInv
  <2>3. QED
    BY <1>0, <2>1, <2>2 DEF RoundInv
<1>7. CASE Reword
  <2>1. pc = "correcting" /\ covered /\ UNCHANGED <<pending, accepted>>
    BY <1>7 DEF Reword
  <2>2. CASE todo = {Foremost}
    <3>1. StartRound(Rejected)
      BY <1>7, <2>2 DEF Reword
    <3>2. Rejected \in SUBSET Topics
      BY <1>0 DEF Rejected, TypeOK
    <3>3. UNCHANGED stack /\ \A t \in Rejected : \E b \in queue' : t \in b
      BY <3>1, <3>2, BatchesOfRound DEF StartRound
    <3>4. \A t \in pending : t \in accepted \/ t \in Rejected
      BY <1>0, <2>1 DEF CoverInv, Rejected
    <3>5. QED
      BY <1>0, <2>1, <3>3, <3>4 DEF RoundInv, InPool
  <2>3. CASE todo # {Foremost}
    BY <1>2, <1>7, <2>1, <2>3 DEF Reword
  <2>4. QED
    BY <2>2, <2>3
<1>8. ASSUME NEW w \in Workers, Worker(w) PROVE RoundInv'
  BY <1>8, ThreadRound
<1>9. CASE UNCHANGED vars
  BY <1>0, <1>9 DEF RoundInv, InPool
<1>10. QED
  BY <1>1, <1>3, <1>4, <1>5, <1>6, <1>7, <1>8, <1>9 DEF Next, Caller

-----------------------------------------------------------------------------
(* What the coverage synthesis committed *)

\* Other wordings of topics keep every topic's rows.
LEMMA RewordedKeepRows ==
  ASSUME TypeOK, NEW ts \in SUBSET Topics, NEW f \in Revisions(ts, [u \in ts |-> {Reworded(trial[u])}])
  PROVE  f \in [Topics -> Drafts] /\ \A t \in Topics : f[t].rows = trial[t].rows
<1>1. /\ f \in [Topics -> Drafts] /\ \A t \in Topics \ ts : f[t] = trial[t]
      /\ \A t \in ts : f[t] = Reworded(trial[t])
  BY DEF Revisions
<1>2. \A t \in Topics : Reworded(trial[t]).rows = trial[t].rows
  BY RewordedRows DEF TypeOK
<1>3. QED
  BY <1>1, <1>2

LEMMA CoverNext ==
  ASSUME IInv, [Next]_vars
  PROVE  CoverInv'
<1>0. CoverInv /\ TypeOK /\ TodoInv
  BY DEF IInv
<1>1. CASE Select
  BY <1>0, <1>1 DEF Select, StartReview, CoverInv, selection
<1>2. CASE Cover
  <2>1. PICK ts, f : /\ StartReview(ts, f, TRUE) /\ kept' = ts /\ draft' = f
                     /\ committed' = [topics |-> ts, drafts |-> f]
    BY <1>2, Zenon DEF Cover
  <2>2. trial' = f /\ recorded' = f /\ pc' \in {"published", "reviewing"} /\ covered' = TRUE
    BY <1>2, <2>1 DEF StartReview, Cover
  <2>3. QED
    BY <2>1, <2>2 DEF CoverInv
<1>3. CASE Retry
  <2>1. /\ trial' = recorded /\ recorded' = recorded /\ draft' = recorded /\ kept' = kept
        /\ pc' \in {"published", "reviewing"} /\ UNCHANGED <<covered, committed>> /\ pc = "failed"
    BY <1>3 DEF Retry, StartReview
  <2>2. QED
    BY <1>0, <2>1 DEF CoverInv
<1>4. CASE Observe \/ UNCHANGED vars
  BY <1>0, <1>4 DEF Observe, CoverInv
<1>5. CASE JoinFirst
  <2>1. /\ UNCHANGED <<covered, kept, draft, recorded, trial, committed, pending, unresolved, verdict>>
        /\ accepted' = accepted \cup Supported
        /\ pc = "reviewing" /\ Quiet /\ ~raised /\ ~correcting
    BY <1>5 DEF JoinFirst
  <2>2. \A t \in pending : t \in accepted' \cup unresolved \cup Rejected
    BY <2>1, RoundOver
  <2>3. \/ pc' = "correcting" /\ (covered => unresolved = {})
        \/ pc' = "concluding" /\ (Rejected = {} \/ (covered /\ unresolved # {}))
    BY <1>5 DEF JoinFirst
  <2>4. \A t \in Rejected : verdict[t] = "no"
    BY DEF Rejected
  <2>5. QED
    BY <1>0, <2>1, <2>2, <2>3, <2>4 DEF CoverInv
<1>6. CASE JoinSecond
  <2>1. /\ UNCHANGED <<covered, kept, draft, recorded, trial, committed, pending, verdict>>
        /\ accepted' = accepted \cup Supported
        /\ covered => unresolved' = unresolved \cup Rejected
        /\ pc' = "concluding"
    BY <1>6 DEF JoinSecond
  <2>2. covered => \A t \in pending : t \in accepted' \cup unresolved'
    BY <1>6, <2>1, RoundOver DEF JoinSecond
  <2>3. QED
    BY <1>0, <2>1, <2>2 DEF CoverInv
<1>7. CASE Correct \/ CorrectInVain
  <2>1. ~covered /\ UNCHANGED covered /\ pc' \in {"reviewing", "concluding"}
    BY <1>7 DEF Correct, CorrectInVain
  <2>2. QED
    BY <2>1 DEF CoverInv
<1>8. CASE Reword
  <2>1. Foremost \in todo /\ {Foremost} \in SUBSET Topics
    BY <1>0, <1>8, ForemostRejected DEF Reword, TodoInv, TypeOK
  <2>2. /\ UNCHANGED <<covered, kept, draft, committed, pending, unresolved, accepted>>
        /\ recorded' = [recorded EXCEPT ![Foremost] = trial'[Foremost]]
        /\ pc = "correcting" /\ covered
        /\ \/ pc' = "reviewing"
           \/ UNCHANGED <<pc, verdict>>
    BY <1>8 DEF Reword
  <2>3. \A t \in Topics : trial'[t].rows = trial[t].rows
    BY <1>0, <1>8, <2>1, RewordedKeepRows DEF Reword
  <2>4. \A t \in Topics : recorded'[t] = recorded[t] \/ recorded'[t] = trial'[t]
    BY <1>0, <2>2 DEF TypeOK
  <2>5. \A t \in Topics : trial'[t].rows = committed.drafts[t].rows
    BY <1>0, <2>2, <2>3 DEF CoverInv
  <2>6. \A t \in Topics : recorded'[t].rows = committed.drafts[t].rows
    BY <1>0, <2>2, <2>4, <2>5 DEF CoverInv
  <2>7. QED
    BY <1>0, <2>2, <2>5, <2>6 DEF CoverInv
<1>9. CASE RewordInVain
  <2>1. Foremost \in todo /\ {Foremost} \in SUBSET Topics
    BY <1>0, <1>9, ForemostRejected DEF RewordInVain, TodoInv, TypeOK
  <2>2. /\ UNCHANGED <<kept, draft, trial, committed>> /\ Leave("failed") /\ covered
        /\ \/ UNCHANGED recorded
           \/ \E f \in Revisions({Foremost}, [u \in {Foremost} |-> {Reworded(trial[u])}]) :
                recorded' = [recorded EXCEPT ![Foremost] = f[Foremost]]
    BY <1>9 DEF RewordInVain
  <2>3. pc' = "failed" /\ UNCHANGED covered
    BY <2>2, Left
  <2>4. \A t \in Topics : recorded'[t].rows = committed.drafts[t].rows
    <3>1. CASE UNCHANGED recorded
      BY <1>0, <2>2, <3>1 DEF CoverInv
    <3>2. ASSUME NEW f \in Revisions({Foremost}, [u \in {Foremost} |-> {Reworded(trial[u])}]),
                 recorded' = [recorded EXCEPT ![Foremost] = f[Foremost]]
          PROVE  \A t \in Topics : recorded'[t].rows = committed.drafts[t].rows
      <4>1. \A t \in Topics : recorded'[t] = recorded[t] \/ recorded'[t] = f[t]
        BY <1>0, <3>2 DEF TypeOK
      <4>2. \A t \in Topics : f[t].rows = trial[t].rows
        BY <1>0, <2>1, <3>2, RewordedKeepRows
      <4>3. QED
        BY <1>0, <2>2, <4>1, <4>2 DEF CoverInv
    <3>3. QED
      BY <2>2, <3>1, <3>2
  <2>5. QED
    BY <1>0, <2>2, <2>3, <2>4 DEF CoverInv
<1>10. CASE Abort \/ CorrectFatally
  <2>1. Leave("ended") /\ UNCHANGED <<kept, draft, recorded, trial, committed>>
    BY <1>10 DEF Abort, CorrectFatally
  <2>2. pc' = "ended" /\ UNCHANGED covered
    BY <2>1, Left
  <2>3. QED
    BY <1>0, <2>1, <2>2 DEF CoverInv
<1>11. CASE Conclude
  <2>1. UNCHANGED <<recorded, trial, committed>> /\ pc = "concluding"
    BY <1>11 DEF Conclude
  <2>2. CASE covered /\ unresolved # {}
    <3>1. Leave("failed") /\ UNCHANGED <<kept, draft>>
      BY <1>11, <2>2 DEF Conclude
    <3>2. QED
      BY <1>0, <2>1, <2>2, <3>1, Left DEF CoverInv
  <2>3. CASE accepted = {} /\ ~(covered /\ unresolved # {})
    <3>1. Leave("ended") /\ UNCHANGED <<kept, draft>>
      BY <1>11, <2>3 DEF Conclude
    <3>2. pc' = "ended" /\ UNCHANGED covered
      BY <3>1, Left
    <3>3. QED
      BY <1>0, <2>1, <3>1, <3>2 DEF CoverInv
  <2>4. CASE accepted # {} /\ ~(covered /\ unresolved # {})
    <3>1. /\ Leave(IF covered THEN "published" ELSE "reviewed")
          /\ kept' = accepted /\ draft' = trial
      BY <1>11, <2>4 DEF Conclude
    <3>2. pc' = (IF covered THEN "published" ELSE "reviewed") /\ UNCHANGED covered
      BY <3>1, Left
    <3>3. covered => kept = accepted
      BY <1>0, <2>1, <2>4 DEF CoverInv, TodoInv, Active
    <3>4. QED
      BY <1>0, <2>1, <3>1, <3>2, <3>3 DEF CoverInv
  <2>5. QED
    BY <2>2, <2>3, <2>4
<1>12. ASSUME NEW w \in Workers, Worker(w) PROVE CoverInv'
  <2>1. /\ UNCHANGED <<covered, kept, draft, recorded, trial, committed, pc>>
        /\ pc = "reviewing"
    BY <1>12, ThreadFrame
  <2>2. QED
    BY <1>0, <2>1 DEF CoverInv
<1>13. QED
  BY <1>1, <1>2, <1>3, <1>4, <1>5, <1>6, <1>7, <1>8, <1>9, <1>10, <1>11, <1>12 DEF Next, Caller

-----------------------------------------------------------------------------
(* The theorems *)

LEMMA NextIInv == IInv /\ [Next]_vars => IInv'
<1> SUFFICES ASSUME IInv, [Next]_vars PROVE IInv'
  OBVIOUS
<1>1. Switches /\ TopicSets /\ Forms /\ Counts /\ InHand
  BY TypeParts DEF IInv
<1>2. Switches' /\ TopicSets' /\ Forms' /\ Counts' /\ InHand' /\ AttemptInv'
  BY <1>1, SwitchesNext, TopicSetsNext, FormsNext, CountsNext, InHandNext
<1>3. TypeOK'
  BY <1>2 DEF TypeOK, Switches, TopicSets, Forms, Counts, InHand
<1>4. QED
  BY <1>2, <1>3, SupportNext, TodoNext, DenialNext, RoundNext, CoverNext DEF IInv

LEMMA SpecIInv == Spec => []IInv
BY InitIInv, NextIInv, PTL DEF Spec

\* Every variable keeps its shape; in particular the threads' attempts, halvings
\* and the corrections together never make more physical calls than
\* MAX_REVIEW_CALLS (topic_evidence_review.py reserve).
THEOREM ReviewTypes == Spec => []TypeOK
<1>1. IInv => TypeOK
  BY DEF IInv
<1>2. QED
  BY <1>1, SpecIInv, PTL

\* With any number of threads, rounds and retries, a topic that the selector
\* returns has the very draft that a reviewer supported, in this review or in an
\* earlier one (review_topic_evidence and unreviewed_topics).
THEOREM SelectedTopicsReviewed == Spec => []ReturnedWasReviewed
<1>1. IInv => ReturnedWasReviewed
  BY DEF IInv, SupportInv
<1>2. QED
  BY <1>1, SpecIInv, PTL

\* A topic is omitted only after a reviewer has denied it: no batch that is
\* truncated, halved, out of budget or lost to an error omits a topic.
THEOREM OmissionsDenied == Spec => []OmittedWasDenied
<1>1. IInv => OmittedWasDenied
  BY DEF IInv, DenialInv, OmittedWasDenied
<1>2. QED
  BY <1>1, SpecIInv, PTL

\* What is published after the coverage synthesis has every committed topic and
\* its committed rows, through corrections, failures and retries
\* (preserve_coverage).
THEOREM CommittedCoverageKept == Spec => []CoverageKept
<1>1. IInv => CoverageKept
  BY DEF IInv, CoverInv, CoverageKept, TypeOK
<1>2. QED
  BY <1>1, SpecIInv, PTL
=============================================================================
