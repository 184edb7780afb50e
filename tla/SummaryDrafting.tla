----------------------------- MODULE SummaryDrafting -----------------------------
(***************************************************************************)
(* Writing the company introduction (agent/compact_summary.py): a draft is    *)
(* written, laid out, checked against its sources and reviewed part by part;  *)
(* failures are corrected within budgets that depend on what kind of failure  *)
(* it is and on whether the last correction made progress.                   *)
(***************************************************************************)
EXTENDS Integers, FiniteSets

CONSTANTS
  CopyParts,  \* source parts of the introduction, one required meaning each
  MaxDrafts   \* candidates the loop allows (range(6))

Kinds == {"source", "meaning"}

VARIABLES
  draftingPc,
  selected,       \* an audience selection fixes the required meanings
  draftAttempt,
  copy,           \* attempt that last changed the copy of each part
  partReviews,    \* AcceptedPartReviews: copy of each part last accepted, 0 for none
  rejectedParts,  \* parts the review under way rejects
  missing,        \* of these, the parts whose meaning is not covered
  others,         \* opening and identity are accepted
  failing,        \* parts whose source checks fail
  previous,       \* the failures the correction under way answers
  seen,           \* every meaning reported missing so far
  repairs,        \* corrections used, by kind
  late,           \* late_omission_used
  fresh           \* history: parts the last review judged itself

draftingVars == <<draftingPc, selected, draftAttempt, copy, partReviews, rejectedParts,
                  missing, others, failing,
          previous, seen, repairs, late, fresh>>

NothingFound == [rejected |-> {}, missing |-> {}, failing |-> {}]
Strict  == late /\ repairs["meaning"] = 3

-----------------------------------------------------------------------------
(* author_draft, revise_content, paginate_draft *)

\* A new draft, or a revision: a repair changes something, and the layout may
\* rewrite any copy again.  An unchanged
\* or unpatchable revision, a layout that never fits and exhausted format repairs
\* end the introduction.
Write ==
  /\ draftingPc \in {"author", "revise"}
  /\ \/ draftingPc' = "failed" /\ UNCHANGED <<copy, failing>>
     \/ \E changed \in SUBSET CopyParts :
          /\ changed # {} /\ (draftingPc = "author" => changed = CopyParts)
          /\ copy' = [p \in CopyParts |-> IF p \in changed THEN draftAttempt ELSE copy[p]]
          /\ \E faults \in SUBSET CopyParts : failing' = faults
          /\ draftingPc' = "checking"
     \* an appendix, a moved opening or an identity that this theme must not hold:
     \* the draft cannot be patched
     \/ copy' = [p \in CopyParts |-> draftAttempt] /\ failing' = {} /\ draftingPc' = "unusable"
  /\ UNCHANGED <<selected, draftAttempt, partReviews, rejectedParts, missing, others, previous,
                 seen,
                 repairs, late, fresh>>

\* Mutant: a verdict is kept for its part whatever became of the copy.
RetainedByPart == IF selected THEN {} ELSE {p \in CopyParts : partReviews[p] # 0}

\* A verdict counts again only for the same sources and copy; with selected
\* meanings every review is complete.
Retained == IF selected THEN {} ELSE {p \in CopyParts : partReviews[p] = copy[p]}

\* review_compact: one verdict for each part that is not retained.  A reviewer
\* without a usable verdict ends the introduction.
ReviewCopy ==
  /\ draftingPc = "checking" /\ failing = {}
  /\ fresh' = CopyParts \ Retained
  /\ \/ draftingPc' = "failed" /\ UNCHANGED <<partReviews, rejectedParts, missing, others>>
     \/ \E denied \in SUBSET (CopyParts \ Retained), accepted \in BOOLEAN :
        \E absent \in IF selected THEN SUBSET denied ELSE {{}} :
          /\ rejectedParts' = denied /\ missing' = absent /\ others' = accepted
          /\ partReviews' = [p \in CopyParts |->
                          IF p \in fresh' \ denied THEN copy[p] ELSE partReviews[p]]
          /\ draftingPc' = "judged"
  /\ UNCHANGED <<selected, draftAttempt, copy, failing, previous, seen, repairs, late>>

\* Every part, the opening and the identity are accepted; an identity without its
\* literal quotation is still a source failure that cannot be patched.
AcceptCopy ==
  /\ draftingPc = "judged" /\ rejectedParts = {} /\ others
  /\ draftingPc' \in {"published", "unusable"}
  /\ UNCHANGED <<selected, draftAttempt, copy, partReviews, rejectedParts, missing, others, failing,
                 previous, seen, repairs, late, fresh>>

-----------------------------------------------------------------------------
(* Which corrections remain *)

Fewer(set, than) == set # {} /\ than # {} /\ Cardinality(set) < Cardinality(than)

\* Mutant: any second failure may be corrected twice more.
SourceLimitRaised == IF repairs["meaning"] > 0 THEN 3 ELSE 2

\* One source correction, or two after a meaning correction or where a strict
\* subset of the checks still fails.
SourceLimit ==
  IF repairs["meaning"] > 0 \/ (failing # {} /\ previous.failing # {}
                                /\ failing \subseteq previous.failing
                                /\ failing # previous.failing)
  THEN 2 ELSE 1

Resolved == previous.missing \cap (CopyParts \ missing)

\* Without a selection, a second correction may only add where the earlier issues
\* are gone and others are as many, or where a reviewer finds them resolved.
OnlyOthers == /\ previous.rejected # {} /\ rejectedParts # {}
              /\ rejectedParts \cap previous.rejected = {}
              /\ ~Fewer(rejectedParts, previous.rejected)
SamePart   == /\ previous.rejected \cap rejectedParts # {}
              /\ ~Fewer(rejectedParts, previous.rejected)

\* With one: the second needs an issue resolved and none that is back, ...
Progress == Resolved # {} /\ missing \cap (seen \ previous.missing) = {}

\* ... and a third, once, where everything reported before is covered and new
\* meanings are merely missing, if a reviewer authorizes it.
PurelyNew == /\ missing # {} /\ rejectedParts = missing /\ others
             /\ seen \cap missing = {}

MeaningGranted ==
  \/ repairs["meaning"] = 0 /\ UNCHANGED late
  \/ /\ ~selected /\ repairs["meaning"] = 1 /\ UNCHANGED late
     /\ \/ Fewer(rejectedParts, previous.rejected)
        \/ (OnlyOthers \/ SamePart)
  \/ /\ selected /\ repairs["meaning"] = 1 /\ Progress
     /\ UNCHANGED late
  \/ /\ selected /\ repairs["meaning"] = 2 /\ ~late /\ PurelyNew
     /\ late' = TRUE

-----------------------------------------------------------------------------
(* The end of a failed attempt *)

NextAttempt(kind) ==
  /\ draftAttempt < MaxDrafts /\ ~Strict
  /\ draftAttempt' = draftAttempt + 1 /\ repairs' = [repairs EXCEPT ![kind] = @ + 1]

CorrectSource ==
  /\ (draftingPc = "checking" /\ failing # {}) \/ draftingPc = "unusable"
  /\ repairs["source"] < SourceLimit
  /\ NextAttempt("source")
  /\ draftingPc' = (IF draftingPc = "unusable" THEN "author" ELSE "revise")
  /\ previous' = (IF failing = {} THEN previous ELSE [previous EXCEPT !.failing = failing])
  /\ UNCHANGED <<selected, copy, partReviews, rejectedParts, missing, others, failing, seen,
                 late, fresh>>

\* A rejected identity alone cannot be patched.
CorrectMeaning ==
  /\ draftingPc = "judged" /\ ~(rejectedParts = {} /\ others)
  /\ MeaningGranted /\ NextAttempt("meaning")
  /\ draftingPc' \in (IF rejectedParts = {} THEN {"author", "revise"} ELSE {"revise"})
  /\ previous' = [previous EXCEPT !.rejected = rejectedParts, !.missing = missing]
  /\ seen' = seen \cup missing
  /\ UNCHANGED <<selected, copy, partReviews, rejectedParts, missing, others, failing, fresh>>

\* The budget is spent, a reviewer refuses the further correction or fails.
GiveUpDraft ==
  /\ \/ draftingPc = "checking" /\ failing # {}
     \/ draftingPc = "unusable" \/ (draftingPc = "judged" /\ ~(rejectedParts = {} /\ others))
  /\ draftingPc' = "failed"
  /\ UNCHANGED <<selected, draftAttempt, copy, partReviews, rejectedParts, missing, others, failing,
                 previous, seen, repairs, late, fresh>>

DraftingInit ==
  /\ draftingPc = "author" /\ selected \in BOOLEAN /\ draftAttempt = 1
  /\ copy = [p \in CopyParts |-> 0] /\ partReviews = copy /\ fresh = {}
  /\ rejectedParts = {} /\ missing = {} /\ others = FALSE /\ failing = {}
  /\ previous = NothingFound /\ seen = {} /\ repairs = [k \in Kinds |-> 0]
  /\ late = FALSE

DraftingNext == Write \/ ReviewCopy \/ AcceptCopy \/ CorrectSource \/ CorrectMeaning \/ GiveUpDraft

DraftingSpec == DraftingInit /\ [][DraftingNext]_draftingVars

-----------------------------------------------------------------------------
(* What is published was accepted part by part in exactly this wording, through *)
(* all corrections; with a selection, by one review of the whole.               *)
PublishedCopyAccepted ==
  draftingPc = "published" =>
    /\ partReviews = copy
    /\ selected => fresh = CopyParts

(* The budgets of each kind leave the six attempts to the corrections they grant: *)
(* two of the sources, and three of the meaning only after a late omission        *)
(* ("Six candidates globally bound three meaning and two source corrections",     *)
(* agent/compact_summary.py:403).                                                 *)
CorrectionsBounded ==
  /\ repairs["source"] <= 2 /\ repairs["meaning"] <= 3
  /\ repairs["meaning"] = 3 => late /\ selected
  /\ draftAttempt = 1 + repairs["source"] + repairs["meaning"]
=============================================================================
