--------------------------- MODULE TopicFinalization ---------------------------
(***************************************************************************)
(* Controlled finalization of a published presentation: a proposal is      *)
(* prepared from the current draft (services/finalization.py), shown, and  *)
(* applied or discarded (ui/finalization.py).  A widget event supersedes   *)
(* the script run in progress; a superseded run ends at its next access to *)
(* Streamlit, which the rewriting of a topic makes only after it has left  *)
(* its proposal in the session.  Under the draft its evidence is explored; *)
(* the Data Quality view (ui/quality.py) checks the draft with automatic   *)
(* repairs (services/qa_reporter.py).                                      *)
(***************************************************************************)
EXTENDS Integers, FiniteSets

CONSTANTS
  Themes,        \* themes of the plan
  Runners,       \* script runs that may overlap
  MaxRevisions   \* bound: proposals prepared

VARIABLES
  applied,    \* the current draft: its revisions, its locked themes, whether its text
              \* holds what an automatic repair rewords, and whether it was altered
              \* since its content was approved
  pending,    \* the proposal to review, or none
  rewriting,  \* per run, the draft and the theme of a rewrite in progress
  prepared,   \* proposals prepared so far, their revisions numbered in order
  accepted    \* history: revisions applied since the last reset

vars == <<applied, pending, rewriting, prepared, accepted>>

\* The export of the original repaired it before anything could be finalized.
Original == [revisions |-> {}, locks |-> {}, repairable |-> FALSE, altered |-> FALSE]
NoDraft  == [Original EXCEPT !.revisions = {0}]
Resting  == [draft |-> NoDraft, theme |-> CHOOSE t \in Themes : TRUE]

-----------------------------------------------------------------------------
(* services/finalization.py *)

\* record: a revision is added to a copy of the draft it was made from.
Revised(draft) == [draft EXCEPT !.revisions = @ \cup {prepared + 1}]

\* assert_stable, which begins and ends every change: the content of the draft
\* is the content that was approved.
Stable(draft) == ~draft.altered

-----------------------------------------------------------------------------
(* ui/finalization.py *)

\* Save content locks: at once, and any proposal is dropped.
SetLocks ==
  /\ Stable(applied)
  /\ \E locks \in SUBSET Themes : applied' = [applied EXCEPT !.locks = locks]
  /\ pending' = NoDraft
  /\ UNCHANGED <<rewriting, prepared, accepted>>

\* Move topic up or down: the proposal replaces the one under review.
Reorder ==
  /\ Cardinality(Themes) > 1 /\ prepared < MaxRevisions
  /\ Stable(applied)
  /\ pending' = Revised(applied) /\ prepared' = prepared + 1
  /\ UNCHANGED <<applied, rewriting, accepted>>

\* Prepare a revision of an unlocked topic from the draft this run has read.
StartRewrite(r) ==
  /\ rewriting[r] = Resting
  /\ Stable(applied)
  /\ \E t \in Themes \ applied.locks :
       rewriting' = [rewriting EXCEPT ![r] = [draft |-> applied, theme |-> t]]
  /\ pending' = NoDraft
  /\ UNCHANGED <<applied, prepared, accepted>>

\* The model's revision passes or fails the checks; other runs may have come
\* and gone.  The checks repair nothing, and what only a repair would reword (a
\* cause stated as proven, a label to add, a rounding to shorten) is no error.
FinishRewrite(r) ==
  /\ rewriting[r] # Resting
  /\ rewriting' = [rewriting EXCEPT ![r] = Resting]
  /\ \/ /\ prepared < MaxRevisions
        /\ rewriting[r].theme \notin rewriting[r].draft.locks
        /\ \E repairable \in BOOLEAN :
             pending' = [Revised(rewriting[r].draft) EXCEPT !.repairable = @ \/ repairable]
        /\ prepared' = prepared + 1
     \/ UNCHANGED <<pending, prepared>>
  /\ UNCHANGED <<applied, accepted>>

\* Apply reviewed draft: the locks must be those of the current draft.  That a
\* proposal only differs from its own base by its revision holds since then.
Apply ==
  /\ pending # NoDraft
  /\ pending.locks = applied.locks
  /\ applied' = pending /\ pending' = NoDraft
  /\ accepted' = accepted \cup (pending.revisions \ applied.revisions)
  /\ UNCHANGED <<rewriting, prepared>>

Discard ==
  /\ pending # NoDraft /\ pending' = NoDraft
  /\ UNCHANGED <<applied, rewriting, prepared, accepted>>

Restore ==
  /\ applied # Original
  /\ applied' = Original /\ pending' = NoDraft /\ accepted' = {}
  /\ UNCHANGED <<rewriting, prepared>>

\* Another result is shown for the same document: its revisions are dropped,
\* while a rewrite of the earlier one may still be waiting for the model.
Renew ==
  /\ applied' = Original /\ pending' = NoDraft /\ accepted' = {}
  /\ UNCHANGED <<rewriting, prepared>>

\* quality.render: showing the checks of the draft runs them with automatic
\* repairs, on the draft of the session itself.
ShowDataQuality ==
  /\ applied.repairable
  /\ applied' = [applied EXCEPT !.repairable = FALSE, !.altered = TRUE]
  /\ UNCHANGED <<pending, rewriting, prepared, accepted>>

Init ==
  /\ applied = Original /\ pending = NoDraft
  /\ rewriting = [r \in Runners |-> Resting]
  /\ prepared = 0 /\ accepted = {}

Next ==
  \/ SetLocks \/ Reorder \/ Apply \/ Discard \/ Restore \/ Renew \/ ShowDataQuality
  \/ \E r \in Runners : StartRewrite(r) \/ FinishRewrite(r)

Spec == Init /\ [][Next]_vars

-----------------------------------------------------------------------------
(* Properties *)

\* "a prepared proposal cannot bypass a lock or another revision applied after
\* its creation" (ui/finalization.py:56-57): only a restored or another
\* result takes an applied revision back.
AppliedRevisionsSurvive == accepted \subseteq applied.revisions

\* "Facts, charts, briefing, unrelated topics and locked content remain stable.
\* ... export cannot silently repair an approved draft" (README.md:1142-1144):
\* the draft of the session stays what was reviewed and applied.
ApprovedDraftStable == Stable(applied)
=============================================================================
