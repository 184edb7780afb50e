---------------------------- MODULE AuditBatchReview ----------------------------
(***************************************************************************)
(* One batch of measures (agent/report_audit_scope.py:_review_batch): a    *)
(* writer drafts bindings, Python validates them, an independent reviewer  *)
(* judges them.  Every kind of mistake is corrected once, every truncated  *)
(* output is asked for once more with a larger limit, and a draft nobody   *)
(* judged is kept for the next pass (agent/report_audit_draft_resume.py).  *)
(***************************************************************************)
EXTENDS Integers, FiniteSets

CONSTANT MaxBatchPasses   \* bound: passes over this batch

VARIABLES
  batchPc,
  draft,          \* the draft in hand: its number, 0 for none
  drafts,         \* drafts written so far
  draftAttempt,   \* drafting attempts of this pass
  limit,          \* output limit of the request in flight: first or second
  used,           \* corrections used in this pass
  malformed,      \* the reviewer's answer to this draft was malformed
  retained,       \* retained_unreviewed_draft for the next pass, 0 for none
  answered,       \* history: drafts a reviewer gave a complete answer on
  approvedDraft,
  batchRequests,  \* model requests of this pass
  batchPasses

batchVars == <<batchPc, draft, drafts, draftAttempt, limit, used, malformed, retained, answered,
               approvedDraft, batchRequests, batchPasses>>

Kinds     == {"draft_output", "binding_validation", "independent_review", "review_output"}
MaxDrafts == 3

-----------------------------------------------------------------------------
\* The batch fails; `kept` are the drafts its checkpoint may leave.
FailKeeping(kept) ==
  /\ batchPc' = "failed" /\ retained' \in kept
  /\ UNCHANGED <<draft, draftAttempt, limit, used, malformed>>

\* One correction of each kind, at most three drafts; then the batch fails and
\* its answered or invalid draft is not kept.
Correct(kind) ==
  IF kind \in used \/ draftAttempt = MaxDrafts THEN FailKeeping({0})
  ELSE /\ used' = used \cup {kind} /\ draftAttempt' = draftAttempt + 1
       /\ batchPc' = "draft" /\ limit' = 1 /\ draft' = 0 /\ malformed' = FALSE
       /\ UNCHANGED retained

\* Mutant: a malformed review is taken for none.
KeepMalformed == {0, draft}

\* pending_audit_drafts: only a draft no reviewer has answered.
Unanswered == IF malformed THEN {0} ELSE {0, draft}

BeginPass ==
  /\ batchPc \in {"idle", "failed"} /\ batchPasses < MaxBatchPasses
  /\ batchPasses' = batchPasses + 1 /\ batchRequests' = 0
  /\ draftAttempt' = 1 /\ limit' = 1 /\ used' = {} /\ malformed' = FALSE
  /\ draft' = retained /\ retained' = 0
  /\ batchPc' = IF retained = 0 THEN "draft" ELSE "validate"
  /\ UNCHANGED <<drafts, answered, approvedDraft>>

\* complete_budget_output: one more request with the larger limit.
Enlarge ==
  /\ batchPc \in {"draft", "review"} /\ limit = 1
  /\ limit' = 2 /\ batchRequests' = batchRequests + 1
  /\ UNCHANGED <<batchPc, draft, drafts, draftAttempt, used, malformed, retained, answered,
                 approvedDraft, batchPasses>>

Draft ==
  /\ batchPc = "draft"
  /\ batchRequests' = batchRequests + 1
  /\ \/ /\ draft' = drafts + 1 /\ drafts' = drafts + 1
        /\ batchPc' = "validate" /\ UNCHANGED <<draftAttempt, limit, used, malformed, retained>>
     \/ Correct("draft_output") /\ UNCHANGED drafts
     \/ FailKeeping({0}) /\ UNCHANGED drafts  \* truncated again, transport, cancelled
  /\ UNCHANGED <<answered, approvedDraft, batchPasses>>

Validate ==
  /\ batchPc = "validate"
  /\ \/ batchPc' = "review" /\ limit' = 1 /\ UNCHANGED <<draft, draftAttempt, used, malformed, retained>>
     \/ Correct("binding_validation")
  /\ UNCHANGED <<drafts, answered, approvedDraft, batchRequests, batchPasses>>

\* review_draft: the format and ledger of an answer are corrected with the
\* reviewer, once for the whole batch; its verdict goes back to the writer.
Malformed ==
  IF "review_output" \in used THEN FailKeeping({0})
  ELSE /\ used' = used \cup {"review_output"} /\ malformed' = TRUE /\ limit' = 1
       /\ UNCHANGED <<batchPc, draft, draftAttempt, retained>>

Review ==
  /\ batchPc = "review"
  /\ batchRequests' = batchRequests + 1
  /\ \/ /\ batchPc' = "complete" /\ approvedDraft' = draft /\ answered' = answered \cup {draft}
        /\ UNCHANGED <<draft, draftAttempt, limit, used, malformed, retained>>
     \/ /\ Correct("independent_review") \/ Malformed
        /\ answered' = answered \cup {draft} /\ UNCHANGED approvedDraft
     \/ /\ FailKeeping(Unanswered)  \* truncated again, transport, cancelled
        /\ UNCHANGED <<answered, approvedDraft>>
  /\ UNCHANGED <<drafts, batchPasses>>

BatchInit ==
  /\ batchPc = "idle" /\ draft = 0 /\ drafts = 0 /\ draftAttempt = 0 /\ limit = 1
  /\ used = {} /\ malformed = FALSE /\ retained = 0 /\ answered = {} /\ approvedDraft = 0
  /\ batchRequests = 0 /\ batchPasses = 0

BatchNext == BeginPass \/ Enlarge \/ Draft \/ Validate \/ Review

BatchSpec == BatchInit /\ [][BatchNext]_batchVars

-----------------------------------------------------------------------------
(* Properties *)

\* "A substantive or malformed reviewer response must not be erased by requesting
\* a new opinion on the same rejected proposal"
\* (agent/report_audit_draft_resume.py:43): a draft kept for the next pass was
\* never answered.
NoSecondOpinion == retained # 0 => retained \notin answered

=============================================================================
