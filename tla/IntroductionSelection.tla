------------------------- MODULE IntroductionSelection -------------------------
(***************************************************************************)
(* What the company introduction must say (agent/introduction_audience.py):   *)
(* each source part is omitted or included with its required meanings.  The   *)
(* selection is reviewed independently; what a rejection found is corrected   *)
(* by a new selection, a complete revision of the meanings, a resolution of   *)
(* the findings or the inclusion of omitted parts, within a bounded number    *)
(* of reviews.                                                                *)
(***************************************************************************)
EXTENDS Integers, FiniteSets

CONSTANTS
  SourceParts,  \* substantive source parts
  Meanings,     \* assertions a model may write about any part
  MaxReviews    \* MAX_SEMANTIC_REVIEWS

VARIABLES
  selectionPc,
  selection,    \* required meanings of each part, none where it is omitted
  unsettled,    \* parts a draft decides twice, or not at all
  reviewRound,  \* reviews that ended
  spent,        \* corrections that exist once
  base,         \* meaning_revision_base is set
  verdict       \* the review last read

selectionVars == <<selectionPc, selection, unsettled, reviewRound, spent, base, verdict>>

Selections == [SourceParts -> SUBSET Meanings]
IncludedParts(s) == {p \in SourceParts : s[p] # {}}

NoVerdict == [about |-> [p \in SourceParts |-> {}], accepted |-> FALSE, findings |-> {},
              scope |-> "selection"]

-----------------------------------------------------------------------------
(* The draft and its inventory *)

FailSelection == selectionPc' = "failed" /\ UNCHANGED <<selection, unsettled, reviewRound, spent, base, verdict>>

\* A request fails, is truncated twice or its answer never fits the protocol.
LoseReply == selectionPc \notin {"selected", "failed"} /\ FailSelection

\* select_introduction_audience, its first draft or a complete new one; no review of
\* an earlier one is read again.
Draft ==
  /\ selectionPc = "drafting"
  /\ selection' \in Selections /\ unsettled' \in SUBSET SourceParts
  /\ selectionPc' = "drafted" /\ verdict' = NoVerdict
  /\ UNCHANGED <<reviewRound, spent, base>>

InvalidDraft == unsettled # {} \/ IncludedParts(selection) = {}

\* repair_selection_inventory: once; settled decisions are protected unless
\* everything was omitted.
SettleInventory ==
  /\ selectionPc = "drafted" /\ InvalidDraft /\ "inventory" \notin spent
  /\ \E new \in Selections :
       /\ IncludedParts(new) # {}
       /\ IncludedParts(selection) # {} => \A p \in SourceParts \ unsettled : new[p] = selection[p]
       /\ selection' = new
  /\ unsettled' = {} /\ spent' = spent \cup {"inventory"}
  /\ UNCHANGED <<selectionPc, reviewRound, base, verdict>>

-----------------------------------------------------------------------------
(* The independent review *)

\* What a review may say of a selection; the kind of a part-level finding follows
\* from the current decision (bind_finding_scope).
Findings(s) ==
  [kind : {"meaning"}, part : SourceParts, meaning : Meanings, issue : {"atomicity", "wording"}]
    \cup {[kind |-> IF s[p] = {} THEN "omitted" ELSE "included", part |-> p] : p \in SourceParts}

Omissions(v) == {f \in v.findings : f.kind = "omitted"}

\* Mutant: a review that names another draft is taken for this one.
BoundToAny(v) == v.accepted <=> v.findings = {}

\* binding_errors is empty: the review names exactly this draft, and each finding
\* the current meaning.
BoundToDraft(v) ==
  /\ v.about = selection
  /\ v.accepted <=> v.findings = {}
  /\ \A f \in v.findings : f.kind = "meaning" => f.meaning \in selection[f.part]
  /\ Omissions(v) # {} => v.scope = "selection"

\* Bound: at most two findings; one review that approves some other draft, and one
\* that accepts this one although it finds something.
SelectionVerdicts ==
  LET found == {{}} \cup {{f, g} : f, g \in Findings(selection)}
  IN {[about |-> selection, accepted |-> set = {}, findings |-> set, scope |-> scope] :
        set \in found, scope \in {"selection", "meanings"}}
     \cup {[NoVerdict EXCEPT !.accepted = TRUE],
           [NoVerdict EXCEPT !.about = selection, !.accepted = TRUE,
                             !.findings = Findings(selection)]}

\* review_current_selection: one recheck of an unbound review in the whole flow.
ReviewMeanings ==
  /\ selectionPc = "drafted" /\ ~InvalidDraft
  /\ \E v \in SelectionVerdicts :
       IF BoundToDraft(v) THEN selectionPc' = "reviewed" /\ verdict' = v /\ UNCHANGED spent
       ELSE /\ verdict' = NoVerdict
            /\ IF "recheck" \in spent THEN selectionPc' = "failed" /\ UNCHANGED spent
               ELSE spent' = spent \cup {"recheck"} /\ UNCHANGED selectionPc
  /\ UNCHANGED <<selection, unsettled, reviewRound, base>>

\* The accepted selection is stored with its digests.
AcceptSelection ==
  /\ selectionPc = "reviewed" /\ verdict.accepted
  /\ selectionPc' = "selected"
  /\ UNCHANGED <<selection, unsettled, reviewRound, spent, base, verdict>>

-----------------------------------------------------------------------------
(* Which correction follows a rejection *)

Mixed == Omissions(verdict) \notin {{}, verdict.findings}

Correction ==
  IF verdict.scope = "meanings" /\ "revision" \notin spent THEN "revising"
  ELSE IF Mixed THEN "resolving"
  ELSE IF reviewRound >= 1 /\ base /\ Omissions(verdict) # {} THEN "adding"
  ELSE IF reviewRound >= 1 THEN "resolving"
  ELSE "drafting"

\* allow_repair: three reviews, and up to five where a finding is new; a draft that
\* was rejected before for the same reasons is not corrected again, nor one whose
\* findings are not new, which depends on their quotations and lineage.
Reject ==
  /\ selectionPc = "reviewed" /\ ~verdict.accepted
  /\ reviewRound + 1 < MaxReviews
  /\ selectionPc' = Correction /\ reviewRound' = reviewRound + 1
  /\ base' = (base \/ Correction \in {"revising", "resolving"})
  /\ spent' = (IF Correction = "revising" THEN spent \cup {"revision"} ELSE spent)
  /\ UNCHANGED <<selection, unsettled, verdict>>

\* What a correction leaves must still be assertions the next review can name.
Redraft(new) ==
  /\ selection' = new /\ selectionPc' = "drafted" /\ verdict' = NoVerdict
  /\ UNCHANGED <<unsettled, reviewRound, spent, base>>

\* repair_meanings: every current meaning is mapped to at least one; something
\* changes and no part loses its meanings.
ReviseMeanings ==
  /\ selectionPc = "revising"
  /\ \E new \in Selections :
       /\ IncludedParts(new) = IncludedParts(selection) /\ new # selection
       /\ Redraft(new)

\* add_newly_required_parts: exactly the omitted parts that were found.
AddParts ==
  /\ selectionPc = "adding"
  /\ LET found == {f.part : f \in Omissions(verdict)}
     IN \E new \in Selections :
          /\ \A p \in found : new[p] # {}
          /\ \A p \in SourceParts \ found : new[p] = selection[p]
          /\ Redraft(new)

-----------------------------------------------------------------------------
(* apply_meaning_resolution *)

\* Bound: at most one entry of each kind.
Some(set) == {{}} \cup {{x} : x \in set}

Copies == (SUBSET Meanings) \ {{}}

Named(kind) == {f.part : f \in {g \in verdict.findings : g.kind = kind}}

Concerned == {f.part : f \in verdict.findings}

About(p, m) == {f \in verdict.findings : f.kind = "meaning" /\ f.part = p /\ f.meaning = m}

\* Mutant: any meaning of a part with a finding may be edited.
EditableInPart(e) == e.meaning \in selection[e.part] /\ e.part \in Concerned

\* Only a meaning some finding names is edited; otherwise an edit may repeat a
\* meaning, or extend it where a finding concerns its whole part.
Editable(e) ==
  /\ e.meaning \in selection[e.part]
  /\ \/ About(e.part, e.meaning) # {}
     \/ e.meaning \in e.into /\ e.part \in Named("included")
     \/ e.into = {e.meaning} /\ e.part \in Concerned

\* validate_merges: a meaning found not to be one assertion goes, and unchanged
\* ones of its part remain.
MergeableMeaning(g) ==
  /\ About(g.part, g.meaning) # {}
  /\ \A f \in About(g.part, g.meaning) : f.issue = "atomicity"
  /\ g.into \subseteq selection[g.part] \ {g.meaning}

\* Edits, inclusions, additions and merges of a reply.  Whether a finding is
\* corrected, covered already or outside the selection is the model's word: what
\* it changes must belong to a part it answers.
Resolutions ==
  LET rewrites == [part : SourceParts, meaning : Meanings, into : Copies]
      copies   == [part : SourceParts, meanings : Copies]
  IN [edits      : Some({e \in rewrites : Editable(e)}),
      inclusions : Some({i \in copies : i.part \in Named("omitted")}),
      additions  : Some({a \in copies : a.part \in Concerned}),
      merges     : Some({g \in rewrites : MergeableMeaning(g)})]

\* An addition repeats an inclusion or extends an included part, unless an edit
\* extends it already; merged meanings and their keepers are not edited.
Applicable(r) ==
  /\ \A a \in r.additions :
       IF selection[a.part] = {} THEN a \in r.inclusions
       ELSE \A e \in r.edits : e.part = a.part => About(e.part, e.meaning) # {}
  /\ \A g \in r.merges, e \in r.edits : e.part = g.part => e.meaning \notin g.into \cup {g.meaning}

Applied(r) ==
  [p \in SourceParts |->
     LET edits == {e \in r.edits : e.part = p}
         gone  == {x.meaning : x \in edits \cup {g \in r.merges : g.part = p}}
     IN (selection[p] \ gone) \cup (UNION {e.into : e \in edits})
          \cup (UNION {x.meanings : x \in {y \in r.additions \cup r.inclusions : y.part = p}})]

\* resolve_meaning_findings.
Resolve ==
  /\ selectionPc \in {"resolving", "reconsidering"}
  /\ \E r \in Resolutions : Applicable(r) /\ Redraft(Applied(r))

\* resolution_with_feedback: a wrong reference, or a correction that changes nothing,
\* is asked for once more.
Reconsider ==
  /\ selectionPc = "resolving" /\ selectionPc' = "reconsidering"
  /\ UNCHANGED <<selection, unsettled, reviewRound, spent, base, verdict>>

\* adjudicate_unchanged: an edit that only repeats its meaning is decided alone, as
\* covered or as a real correction, and the reply is checked again.
Adjudicate ==
  /\ selectionPc = "resolving"
  /\ \E r \in Resolutions : \E e \in r.edits, copy \in Copies \cup {{}} :
       /\ About(e.part, e.meaning) # {} /\ e.into = {e.meaning} /\ copy # e.into
       /\ LET decided == [r EXCEPT !.edits = IF copy = {} THEN {} ELSE {[e EXCEPT !.into = copy]}]
          IN Applicable(decided) /\ Redraft(Applied(decided))

SelectionInit ==
  /\ selectionPc = "drafting" /\ selection = NoVerdict.about /\ unsettled = {}
  /\ reviewRound = 0 /\ spent = {} /\ base = FALSE /\ verdict = NoVerdict

SelectionNext ==
  \/ LoseReply \/ Draft \/ SettleInventory \/ ReviewMeanings \/ AcceptSelection \/ Reject
  \/ ReviseMeanings \/ AddParts \/ Resolve \/ Reconsider \/ Adjudicate

SelectionSpec == SelectionInit /\ [][SelectionNext]_selectionVars

-----------------------------------------------------------------------------
(* The selection that is kept was accepted in exactly this form: a review of     *)
(* another draft, or one that still holds findings, never approves it.           *)
AcceptedAsReviewed ==
  selectionPc = "selected" =>
    /\ verdict.about = selection /\ verdict.findings = {}
    /\ IncludedParts(selection) # {} /\ unsettled = {}

(* A targeted correction changes only what the review found: parts without a     *)
(* finding keep their decision and wording, a part is included only if its       *)
(* omission was found, and a meaning goes only if a finding named it.            *)
ChangesFoundOnly ==
  selectionPc \in {"resolving", "reconsidering", "adding"} /\ selectionPc' = "drafted" =>
    \A p \in SourceParts :
      /\ selection'[p] # selection[p] => p \in Concerned
      /\ selection[p] = {} /\ selection'[p] # {} => p \in Named("omitted")
      /\ \A m \in selection[p] \ selection'[p] : About(p, m) # {}

OnlyFoundMeaningsChange == [][ChangesFoundOnly]_selectionVars
=============================================================================
