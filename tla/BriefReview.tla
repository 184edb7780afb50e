------------------------------- MODULE BriefReview -------------------------------
(***************************************************************************)
(* The independent review of one briefing (agent/brief_review_execution.py):  *)
(* the claims are reviewed as a group or item by item, their context beside   *)
(* it in another thread; what is complete is saved, so that a later attempt   *)
(* continues where one ended.                                                *)
(***************************************************************************)
EXTENDS Integers, FiniteSets

CONSTANTS
  Items,             \* findings of the briefing
  MaxReviewAttempts  \* bound: attempts of the same briefing in a session

VARIABLES
  briefPc,
  split,         \* the shared context is long enough for a review of its own
  pending,       \* items this attempt must review
  claims,        \* claim verdicts: "none", "good", "bad"; memory of the process
  judged,        \* items whose claims this request decided, still without context
  context,       \* context review: its state, and the items it accepted
  single,        \* the group exceeded the output capacity
  failures,      \* items whose own request failed
  checked,       \* completed verdicts of this process
  saved,         \* completed verdicts in the checkpoint, with its pending items
  blocked,       \* this context is not tried again in this process
  reviewAttempt

briefVars == <<briefPc, split, pending, claims, judged, context, single, failures, checked,
               saved, blocked, reviewAttempt>>

ItemVerdicts == {"none", "good", "bad"}
NothingDecided  == [i \in Items |-> "none"]
Open(f)  == {i \in Items : f[i] = "none"}

-----------------------------------------------------------------------------
(* execute_review *)

\* Mutant: a checkpoint is read although nothing in it was pending.
LoadedAlways == saved

\* load_checks: only a checkpoint with something pending is continued; a complete
\* one must be reviewed afresh.
Loaded == IF Open(saved) = {} THEN NothingDecided ELSE saved

\* meaning_validator and execute_review: completed verdicts are reused, the others
\* reviewed.
BeginReview ==
  /\ briefPc = "idle" /\ ~blocked /\ reviewAttempt < MaxReviewAttempts
  /\ LET known == [i \in Items |-> IF checked[i] # "none" THEN checked[i] ELSE Loaded[i]]
     IN /\ checked' = known /\ pending' = Open(known)
        /\ briefPc' = (IF Open(known) = {} THEN "done" ELSE "reviewing")
        /\ saved' = (IF Open(known) = {} THEN saved ELSE known)
  /\ context' = [state |-> IF split THEN "running" ELSE "joint", accepted |-> {}]
  /\ failures' = {} /\ reviewAttempt' = reviewAttempt + 1
  /\ claims' = (IF split THEN claims ELSE NothingDecided)
  /\ UNCHANGED <<split, judged, single, blocked>>

\* The thread of prepared_context_review ends.
Context ==
  /\ context.state = "running"
  /\ context' \in [state : {"failed", "invalid"}, accepted : {{}}]
                   \cup [state : {"done"}, accepted : SUBSET pending]
  /\ UNCHANGED <<briefPc, split, pending, claims, judged, single, failures, checked, saved,
                 blocked, reviewAttempt>>

Ready == context.state \in {"joint", "done"}

\* Mutant: a claim is complete without its context.
DecidedByClaims(f, set) ==
  [i \in Items |-> IF i \in set THEN f[i] ELSE checked[i]]

\* complete: claim and context errors together.
DecidedVerdicts(f, set) ==
  [i \in Items |->
     IF i \notin set THEN checked[i]
     ELSE IF f[i] = "bad" \/ (split /\ i \notin context.accepted) THEN "bad" ELSE "good"]

\* Items still without a claim verdict are requested.
Requested == {i \in pending : claims[i] = "none" /\ checked[i] = "none" /\ i \notin failures}

\* validate_meaning_response decides these claims; the thread that did so then waits
\* for the context.
Judge(set) ==
  /\ \E good \in SUBSET set :
       claims' = [i \in Items |-> IF i \in good THEN "good" ELSE IF i \in set THEN "bad" ELSE claims[i]]
  /\ judged' = set /\ briefPc' = "joining"

\* complete_meaning_output: one request for all, unless a group was truncated before.
Group ==
  /\ briefPc = "reviewing" /\ ~single /\ Cardinality(Requested) > 1
  /\ \/ Judge(Requested) /\ UNCHANGED <<single, failures>>
     \* truncated twice: item by item, now and in later attempts
     \/ single' = TRUE /\ UNCHANGED <<briefPc, claims, judged, failures>>
     \/ failures' = Requested /\ briefPc' = "unavailable" /\ UNCHANGED <<claims, judged, single>>
  /\ UNCHANGED <<split, pending, context, checked, saved, blocked, reviewAttempt>>

\* One item; its failure does not stop the others.
Single ==
  /\ briefPc = "reviewing" /\ (single \/ Cardinality(Requested) = 1)
  /\ \E i \in Requested :
       \/ Judge({i}) /\ UNCHANGED failures
       \/ failures' = failures \cup {i} /\ UNCHANGED <<briefPc, claims, judged>>
  /\ UNCHANGED <<split, pending, context, single, checked, saved, blocked, reviewAttempt>>

\* finish_context and the checkpoint that follows.  With a context review of its own
\* the verdict of a claim outlives an attempt that fails (literal_source_checks).
JoinContext ==
  /\ briefPc = "joining" /\ Ready
  /\ checked' = DecidedVerdicts(claims, judged)
  /\ saved' = checked' /\ briefPc' = "reviewing"
  /\ UNCHANGED <<split, pending, claims, judged, context, single, failures, blocked, reviewAttempt>>

\* Claims kept from an earlier attempt need only the context.
JoinKept ==
  /\ briefPc = "reviewing" /\ Requested = {} /\ failures = {}
  /\ judged' = {i \in pending : checked[i] = "none"} /\ judged' # {}
  /\ briefPc' = "joining"
  /\ UNCHANGED <<split, pending, claims, context, single, failures, checked, saved, blocked,
                 reviewAttempt>>

Finish ==
  /\ briefPc = "reviewing" /\ pending \subseteq {i \in Items : checked[i] # "none"}
  /\ briefPc' = "done"
  /\ UNCHANGED <<split, pending, claims, judged, context, single, failures, checked, saved,
                 blocked, reviewAttempt>>

\* BriefReviewUnavailable: the rest stays open, and this context is not tried again
\* in this process.
Unavailable ==
  /\ \/ briefPc = "unavailable"
     \/ briefPc = "reviewing" /\ failures # {} /\ Requested = {}
     \/ briefPc = "joining" /\ context.state = "failed"
  /\ blocked' = TRUE /\ briefPc' = "idle" /\ saved' = checked
  /\ UNCHANGED <<split, pending, claims, judged, context, single, failures, checked, reviewAttempt>>

\* Any other error, a cancellation included: it may be tried again.
FailReview ==
  /\ briefPc = "reviewing" \/ (briefPc = "joining" /\ split)
  /\ briefPc' = "idle" /\ saved' = checked
  /\ UNCHANGED <<split, pending, claims, judged, context, single, failures, checked, blocked,
                 reviewAttempt>>

\* A later run of the report has only the checkpoint.
Restart ==
  /\ briefPc \in {"idle", "done"} /\ reviewAttempt < MaxReviewAttempts
  /\ briefPc' = "idle" /\ checked' = NothingDecided /\ claims' = NothingDecided
  /\ judged' = {} /\ single' = FALSE /\ blocked' = FALSE /\ failures' = {} /\ pending' = {}
  /\ context' = [state |-> "joint", accepted |-> {}]
  /\ UNCHANGED <<split, saved, reviewAttempt>>

BriefInit ==
  /\ briefPc = "idle" /\ split \in BOOLEAN /\ pending = {} /\ claims = NothingDecided /\ judged = {}
  /\ context = [state |-> "joint", accepted |-> {}] /\ single = FALSE /\ failures = {} /\ checked = NothingDecided
  /\ saved = NothingDecided /\ blocked = FALSE /\ reviewAttempt = 0

BriefNext ==
  \/ BeginReview \/ Context \/ Group \/ Single \/ JoinContext \/ JoinKept
  \/ Finish \/ Unavailable \/ FailReview \/ Restart

BriefSpec == BriefInit /\ [][BriefNext]_briefVars

-----------------------------------------------------------------------------
(* A finding is only accepted where both reviews accepted it: in a step that      *)
(* completes its verdict its claim is good and, where the context has a review of  *)
(* its own, that review has ended and accepted it; and a verdict once completed    *)
(* does not change within a process, however often the review is continued.       *)
CompletesBoth ==
  \A i \in Items :
    /\ briefPc = "joining" /\ checked[i] = "none" /\ checked'[i] = "good" =>
         claims[i] = "good" /\ (split => i \in context.accepted)
    /\ checked[i] # "none" /\ checked'[i] # checked[i] => checked'[i] = "none"

AcceptedByBothReviews == [][CompletesBoth]_briefVars
=============================================================================
