------------------------------ MODULE TopicReview ------------------------------
(***************************************************************************)
(* The source-row review of analytical topics (agent/topic_evidence_review *)
(* .py and agent/topic_review_output.py) inside the topic selector: a      *)
(* review that may correct or omit rejected topics, the coverage synthesis *)
(* that may rewrite what passed, and the review of its outcome, which must *)
(* keep every covered topic and is retried from the drafts it recorded.    *)
(* A draft stands for a topic's wording and rows, bound to its source      *)
(* pages; what a draft says is an outcome.                                 *)
(***************************************************************************)
EXTENDS Integers, FiniteSets, Sequences
LOCAL INSTANCE TLC

CONSTANTS
  Topics,      \* topics of the first selection, numbered in source order
  BatchSize,   \* MAX_TOPICS_PER_BATCH
  CallBudget,  \* MAX_REVIEW_CALLS
  Workers,     \* pool threads
  MaxDraft,    \* bound: wordings of one topic
  MaxPasses    \* bound: reviews of the covered topics

ASSUME TopicAssumption ==
  /\ Topics \subseteq Nat /\ IsFiniteSet(Topics) /\ Topics # {}
  /\ BatchSize \in Nat \ {0} /\ CallBudget \in Nat
  /\ Workers # {} /\ IsFiniteSet(Workers)
  /\ MaxDraft \in Nat \ {0} /\ MaxPasses \in Nat \ {0}

VARIABLES
  pc,          \* of the caller
  covered,     \* the review after the coverage synthesis (preserve_coverage)
  kept,        \* topics of the selection
  draft,       \* their drafts
  approved,    \* accepted_bindings of every audit so far
  recorded,    \* last draft of each topic the audits hold
  spoiled,     \* a recorded correction lost its topic's rows
  pending,     \* topics of this review without an approved draft
  accepted,    \* topics that need no further review
  trial,       \* the drafts under review
  todo,        \* rejected topics still to be reworded
  verdict,     \* decisions of the round under way
  correcting,  \* this review has asked for its corrections
  unresolved,  \* topics left without a verdict, or held back
  omitted,     \* omitted_topic_ids of this review's audit
  calls,       \* physical calls of this review
  queue,       \* batches no thread has taken
  stack,       \* per thread, the batches still to visit
  attempt,     \* per thread, physical attempts at the batch it visits
  busy,        \* per thread, whether its request is in flight
  raised,      \* a thread's future holds an exception
  cancelled,   \* the review's Event
  passes,      \* reviews of the covered topics
  committed,   \* history: topics and drafts the coverage synthesis decided
  supported,   \* history: drafts a reviewer supported
  denied       \* history: topics this review has seen denied

selection == <<kept, draft>>
audits    == <<approved, recorded, spoiled, omitted>>
review    == <<covered, pending, passes>>
round     == <<accepted, trial, todo, correcting>>
pool      == <<queue, stack, attempt, busy, raised, cancelled>>
history   == <<committed, supported, denied>>
vars == <<pc, selection, audits, review, round, verdict, unresolved, calls, pool,
          history>>

Drafts == [wording : 1..MaxDraft, rows : 0..1]

\* A new wording, with the rows of the old one or with others.
Reworded(d) == [d EXCEPT !.wording = @ + 1]
Rebound(d)  == [Reworded(d) EXCEPT !.rows = 1 - @]

-----------------------------------------------------------------------------
(* Starting a round *)

Rank(b, t) == Cardinality({u \in b : u < t})

\* Consecutive batches of at most BatchSize topics.
Batches(ts) == {{u \in ts : Rank(ts, u) \div BatchSize = Rank(ts, t) \div BatchSize} :
                  t \in ts}

\* Halves of a batch, the smaller one first.
Halves(b) ==
  LET lower == {t \in b : Rank(b, t) < Cardinality(b) \div 2}
  IN  <<lower, b \ lower>>

StartRound(ts) ==
  /\ queue' = Batches(ts)
  /\ verdict' = [t \in Topics |-> "none"]
  /\ UNCHANGED <<stack, attempt, busy, raised, cancelled>>

\* Mutant: an approval is matched by its rows alone.
UnreviewedRows(ts, drafts) ==
  {t \in ts : \A b \in approved : b[1] = t => b[2].rows # drafts[t].rows}

\* unreviewed_topics: an approval is for one exact draft.
Unreviewed(ts, drafts) == {t \in ts : <<t, drafts[t]>> \notin approved}

\* review_topic_evidence: only topics without an approval are asked about.
StartReview(ts, drafts, last) ==
  LET asked == Unreviewed(ts, drafts) IN
  /\ pending' = asked /\ accepted' = ts \ asked
  /\ trial' = drafts /\ recorded' = drafts
  /\ todo' = {} /\ correcting' = FALSE /\ unresolved' = {} /\ calls' = 0
  /\ omitted' = {} /\ denied' = {}
  /\ IF asked = {}
     THEN /\ pc' = IF last THEN "published" ELSE "reviewed"
          /\ UNCHANGED <<verdict, pool>>
     ELSE pc' = "reviewing" /\ StartRound(asked)

\* The model's selection, validated: every topic is new.
Select ==
  /\ pc = "selecting"
  /\ StartReview(kept, draft, FALSE)
  /\ UNCHANGED <<selection, approved, spoiled, covered, passes, committed, supported>>

-----------------------------------------------------------------------------
(* Pool threads: review_batches and review_request *)

Batch(w) == Head(stack[w])

\* A serial review stops at an exception.
Take(w) ==
  /\ pc = "reviewing" /\ stack[w] = <<>>
  /\ raised => Cardinality(Workers) > 1
  /\ \E b \in queue : /\ queue' = queue \ {b}
                      /\ stack' = [stack EXCEPT ![w] = <<b>>]
  /\ attempt' = [attempt EXCEPT ![w] = 0]
  /\ UNCHANGED <<pc, selection, audits, review, round, verdict, unresolved, calls,
                 busy, raised, cancelled, history>>

\* The thread goes on with the halves of its batch, or with the next one.
Proceed(w, batches) ==
  /\ stack' = [stack EXCEPT ![w] = batches \o Tail(@)]
  /\ attempt' = [attempt EXCEPT ![w] = 0]
  /\ busy' = [busy EXCEPT ![w] = FALSE]
  /\ UNCHANGED <<queue, raised, cancelled>>

\* Mutant: a batch that cannot be reviewed is only skipped.
SkipBatch(w) == Proceed(w, <<>>) /\ UNCHANGED unresolved

\* on_failure: no verdict for any topic of the batch.
GiveUp(w) == Proceed(w, <<>>) /\ unresolved' = unresolved \cup Batch(w)

\* Anything but a response, transport or value error ends the thread's future.
Escape(w) ==
  /\ stack' = [stack EXCEPT ![w] = <<>>]
  /\ attempt' = [attempt EXCEPT ![w] = 0]
  /\ busy' = [busy EXCEPT ![w] = FALSE]
  /\ raised' = TRUE
  /\ UNCHANGED <<queue, cancelled, unresolved>>

Visiting(w) == pc = "reviewing" /\ stack[w] # <<>>

\* A batch too large for the context is halved without a request.
Oversized(w) ==
  /\ Visiting(w) /\ ~busy[w] /\ attempt[w] = 0
  /\ IF Cardinality(Batch(w)) = 1 THEN GiveUp(w)
     ELSE Proceed(w, Halves(Batch(w))) /\ UNCHANGED unresolved
  /\ UNCHANGED <<pc, selection, audits, review, round, verdict, calls, history>>

\* reserve: under the lock, before every physical attempt.
Reserve(w) ==
  /\ Visiting(w) /\ ~busy[w]
  /\ IF cancelled THEN Escape(w) /\ UNCHANGED calls
     ELSE IF calls >= CallBudget THEN GiveUp(w) /\ UNCHANGED calls
     ELSE /\ calls' = calls + 1
          /\ attempt' = [attempt EXCEPT ![w] = @ + 1]
          /\ busy' = [busy EXCEPT ![w] = TRUE]
          /\ UNCHANGED <<queue, stack, raised, cancelled, unresolved>>
  /\ UNCHANGED <<pc, selection, audits, review, round, verdict, history>>

\* One decision for every topic of the batch.
Judge(w) ==
  /\ Visiting(w) /\ busy[w]
  /\ \E yes \in SUBSET Batch(w) :
       LET no == Batch(w) \ yes IN
       /\ verdict' = [t \in Topics |-> IF t \in yes THEN "yes"
                                       ELSE IF t \in no THEN "no" ELSE verdict[t]]
       /\ supported' = supported \cup {<<t, trial[t]>> : t \in yes}
       /\ denied' = denied \cup no
  /\ Proceed(w, <<>>)
  /\ UNCHANGED <<pc, selection, audits, review, round, unresolved, calls, committed>>

\* A proven truncation is asked once more with a larger output, then halved.
Truncated(w) ==
  /\ Visiting(w) /\ busy[w]
  /\ IF attempt[w] = 1
     THEN /\ busy' = [busy EXCEPT ![w] = FALSE]
          /\ UNCHANGED <<queue, stack, attempt, raised, cancelled, unresolved>>
     ELSE IF Cardinality(Batch(w)) = 1 THEN GiveUp(w)
     ELSE Proceed(w, Halves(Batch(w))) /\ UNCHANGED unresolved
  /\ UNCHANGED <<pc, selection, audits, review, round, verdict, calls, history>>

\* Invalid JSON, a transport error, or decisions that miss a topic.
Unusable(w) ==
  /\ Visiting(w) /\ busy[w]
  /\ GiveUp(w)
  /\ UNCHANGED <<pc, selection, audits, review, round, verdict, calls, history>>

\* A privacy violation, a cancellation or the analysis limit.
Fatal(w) ==
  /\ Visiting(w) /\ busy[w]
  /\ Escape(w)
  /\ UNCHANGED <<pc, selection, audits, review, round, verdict, calls, history>>

Worker(w) ==
  \/ Take(w) \/ Oversized(w) \/ Reserve(w) \/ Judge(w)
  \/ Truncated(w) \/ Unusable(w) \/ Fatal(w)

-----------------------------------------------------------------------------
(* The caller *)

Quiet == queue = {} /\ \A w \in Workers : stack[w] = <<>>

\* accepted_bindings, written however the review ends.
Record(acc) == approved' = approved \cup {<<t, trial[t]>> : t \in pending \cap acc}

\* The caller meets an exception: the pool is cancelled and drained.
Observe ==
  /\ pc = "reviewing" /\ raised /\ ~cancelled
  /\ cancelled' = TRUE /\ queue' = {}
  /\ UNCHANGED <<pc, selection, audits, review, round, verdict, unresolved, calls,
                 stack, attempt, busy, raised, history>>

\* The review's own variables are gone.
Leave(place) ==
  /\ pc' = place
  /\ pending' = {} /\ accepted' = {} /\ todo' = {} /\ correcting' = FALSE
  /\ unresolved' = {}
  /\ verdict' = [t \in Topics |-> "none"] /\ calls' = 0
  /\ queue' = {} /\ raised' = FALSE /\ cancelled' = FALSE
  /\ UNCHANGED <<covered, passes, stack, attempt, busy>>

\* The exception leaves the review, with the decisions of its round.
Abort ==
  /\ pc = "reviewing" /\ cancelled /\ Quiet
  /\ Leave("ended") /\ Record(accepted)
  /\ UNCHANGED <<selection, recorded, spoiled, omitted, trial, history>>

Supported == {t \in pending : verdict[t] = "yes"}
Rejected  == {t \in pending : verdict[t] = "no"}

\* Supported siblings survive; rejected topics are corrected once, in the
\* covered review only when every topic has a verdict.
JoinFirst ==
  /\ pc = "reviewing" /\ ~correcting /\ Quiet /\ ~raised
  /\ accepted' = accepted \cup Supported
  /\ IF Rejected # {} /\ (covered => unresolved = {})
     THEN pc' = "correcting" /\ correcting' = TRUE /\ todo' = Rejected
     ELSE pc' = "concluding" /\ UNCHANGED <<correcting, todo>>
  /\ UNCHANGED <<selection, audits, review, trial, verdict, unresolved, calls, pool,
                 history>>

\* Corrections are accepted on their own review only.
JoinSecond ==
  /\ pc = "reviewing" /\ correcting /\ Quiet /\ ~raised
  /\ accepted' = accepted \cup Supported
  /\ unresolved' = IF covered THEN unresolved \cup Rejected ELSE unresolved
  /\ pc' = "concluding"
  /\ UNCHANGED <<selection, audits, review, trial, todo, correcting, verdict, calls,
                 pool, history>>

\* Physical calls of one correction request, after at most one truncation.
Paid == calls' \in {n \in {calls + 1, calls + 2} : n <= CallBudget}

Revisions(ts, forms) ==
  {f \in [Topics -> Drafts] : /\ \A t \in Topics \ ts : f[t] = trial[t]
                              /\ \A t \in ts : trial[t].wording < MaxDraft /\ f[t] \in forms[t]}

\* One request for all rejected topics; it may bind other rows.  Revisions that
\* fail validation and topics it leaves out stay rejected.
Correct ==
  /\ pc = "correcting" /\ ~covered
  /\ Paid
  /\ \E ts \in (SUBSET todo) \ {{}} :
       /\ trial' \in Revisions(ts, [t \in ts |-> {Reworded(trial[t]), Rebound(trial[t])}])
       /\ StartRound(ts)
  /\ pc' = "reviewing" /\ todo' = {}
  /\ UNCHANGED <<selection, audits, review, accepted, correcting, unresolved, history>>

\* No usable correction (or no budget left for it).
CorrectInVain ==
  /\ pc = "correcting" /\ ~covered
  /\ calls' = calls \/ Paid
  /\ pc' = "concluding" /\ todo' = {}
  /\ UNCHANGED <<selection, audits, review, accepted, trial, correcting, verdict,
                 unresolved, pool, history>>

Foremost == CHOOSE t \in todo : \A u \in todo : t <= u

\* Each rejected topic in turn keeps its rows and gets another wording.
Reword ==
  /\ pc = "correcting" /\ covered
  /\ Paid
  /\ LET t == Foremost IN
       /\ trial' \in Revisions({t}, [u \in {t} |-> {Reworded(trial[u])}])
       /\ recorded' = [recorded EXCEPT ![t] = trial'[t]]
       /\ todo' = todo \ {t}
       /\ IF todo = {t} THEN pc' = "reviewing" /\ StartRound(Rejected)
          ELSE UNCHANGED <<pc, verdict, pool>>
  /\ UNCHANGED <<selection, approved, spoiled, omitted, review, accepted, correcting,
                 unresolved, history>>

\* A correction that is missing, refused or comes with omissions ends the
\* review.  Whatever came is recorded; no retry resumes from other rows or a
\* draft that fails validation.
RewordInVain ==
  /\ pc = "correcting" /\ covered
  /\ \/ UNCHANGED <<recorded, spoiled>>
     \/ calls < CallBudget /\ spoiled' = TRUE /\ UNCHANGED recorded
     \/ /\ calls < CallBudget /\ UNCHANGED spoiled
        /\ \E f \in Revisions({Foremost}, [u \in {Foremost} |-> {Reworded(trial[u])}]) :
             recorded' = [recorded EXCEPT ![Foremost] = f[Foremost]]
  /\ Leave("failed") /\ Record(accepted)
  /\ UNCHANGED <<selection, omitted, trial, history>>

\* The correction request itself meets a privacy violation or the time limit.
CorrectFatally ==
  /\ pc = "correcting"
  /\ Leave("ended") /\ Record(accepted)
  /\ UNCHANGED <<selection, recorded, spoiled, omitted, trial, history>>

\* Mutant: a covered topic that is held back is left out instead.
ConcludeWithout ==
  /\ pc = "concluding" /\ accepted # {}
  /\ Record(accepted)
  /\ omitted' = (pending \ accepted) \ unresolved
  /\ Leave(IF covered THEN "published" ELSE "reviewed")
  /\ kept' = accepted /\ draft' = trial
  /\ UNCHANGED <<recorded, spoiled, trial, history>>

\* Retain what was accepted.  A covered topic must not be missing.
Conclude ==
  /\ pc = "concluding"
  /\ Record(accepted)
  /\ omitted' = (pending \ accepted) \ unresolved
  /\ IF covered /\ unresolved # {} THEN Leave("failed") /\ UNCHANGED selection
     ELSE IF accepted = {} THEN Leave("ended") /\ UNCHANGED selection
     ELSE /\ Leave(IF covered THEN "published" ELSE "reviewed")
          /\ kept' = accepted /\ draft' = trial
  /\ UNCHANGED <<recorded, spoiled, trial, history>>

-----------------------------------------------------------------------------
(* Around the two reviews *)

\* The coverage synthesis may regroup the topics and rewrite any of them, and
\* the caveat review then removes duplicated caveats; the result is reviewed.
Cover ==
  /\ pc = "reviewed"
  /\ \E ts \in (SUBSET Topics) \ {{}} : \E new \in SUBSET ts :
     \E f \in Revisions(new, [t \in new |-> {Reworded(trial[t]), Rebound(trial[t])}]) :
       /\ ts \ kept \subseteq new
       /\ kept' = ts /\ draft' = f
       /\ committed' = [topics |-> ts, drafts |-> f]
       /\ StartReview(ts, f, TRUE)
  /\ covered' = TRUE /\ spoiled' = FALSE /\ passes' = 1
  /\ UNCHANGED <<approved, supported>>

\* retry_catalog_topics: the drafts of the failed review, never its verdicts.
Retry ==
  /\ pc = "failed" /\ ~spoiled /\ passes < MaxPasses
  /\ draft' = recorded /\ kept' = kept
  /\ StartReview(kept, recorded, TRUE)
  /\ passes' = passes + 1
  /\ UNCHANGED <<approved, spoiled, covered, committed, supported>>

Init ==
  /\ pc = "selecting" /\ covered = FALSE
  /\ kept = Topics /\ draft = [t \in Topics |-> [wording |-> 1, rows |-> 0]]
  /\ approved = {} /\ recorded = draft /\ spoiled = FALSE /\ omitted = {}
  /\ pending = {} /\ accepted = {} /\ trial = draft /\ todo = {}
  /\ correcting = FALSE /\ verdict = [t \in Topics |-> "none"]
  /\ unresolved = {} /\ calls = 0 /\ queue = {}
  /\ stack = [w \in Workers |-> <<>>] /\ attempt = [w \in Workers |-> 0]
  /\ busy = [w \in Workers |-> FALSE] /\ raised = FALSE /\ cancelled = FALSE
  /\ passes = 0 /\ committed = [topics |-> {}, drafts |-> draft]
  /\ supported = {} /\ denied = {}

Caller ==
  \/ Select \/ Observe \/ Abort \/ JoinFirst \/ JoinSecond \/ Correct
  \/ CorrectInVain \/ Reword \/ RewordInVain \/ CorrectFatally \/ Conclude
  \/ Cover \/ Retry

Next == Caller \/ \E w \in Workers : Worker(w)

Spec == Init /\ [][Next]_vars

\* Threads are interchangeable.
Symmetry == Permutations(Workers)

-----------------------------------------------------------------------------
(* Properties *)

\* Every variable keeps its shape; threads and corrections together never make
\* more physical calls than the budget allows.
TypeOK ==
  /\ pc \in {"selecting", "reviewing", "correcting", "concluding", "reviewed",
             "published", "failed", "ended"}
  /\ covered \in BOOLEAN /\ correcting \in BOOLEAN /\ spoiled \in BOOLEAN
  /\ raised \in BOOLEAN /\ cancelled \in BOOLEAN
  /\ {kept, pending, accepted, todo, unresolved, omitted, denied} \subseteq SUBSET Topics
  /\ {draft, recorded, trial} \subseteq [Topics -> Drafts]
  /\ {approved, supported} \subseteq SUBSET (Topics \X Drafts)
  /\ verdict \in [Topics -> {"none", "yes", "no"}]
  /\ calls \in 0..CallBudget /\ passes \in 0..MaxPasses
  /\ queue \subseteq SUBSET Topics
  /\ stack \in [Workers -> Seq((SUBSET Topics) \ {{}})]
  /\ attempt \in [Workers -> 0..2] /\ busy \in [Workers -> BOOLEAN]

\* Whatever is corrected, rewritten, resumed or approved in an earlier pass, no
\* topic leaves the selector in a draft that no reviewer has supported
\* (topic_evidence_review.py:144-149).
ReturnedWasReviewed ==
  pc \in {"reviewed", "published"} => \A t \in kept : <<t, draft[t]>> \in supported

\* "No verdict is not an unsupported verdict" (topic_evidence_review.py:270):
\* truncated, failed, exhausted or oversized requests never omit a topic.
OmittedWasDenied == omitted \subseteq denied

\* "Coverage has already committed every series disposition" (:277): what is
\* published after it has every covered topic with its rows.
CoverageKept ==
  pc = "published" =>
    /\ kept = committed.topics
    /\ \A t \in kept : draft[t].rows = committed.drafts[t].rows
=============================================================================
