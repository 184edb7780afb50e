---------------------------- MODULE PublicationGates ----------------------------
(***************************************************************************)
(* The gates a drained result passes before it is published                *)
(* (agent/orchestrator.py:800-954): topic coverage, the audit scope of its *)
(* measures, the physical slide budget with at most two proposals, the     *)
(* deferred briefing, supplementary sources, the retained analysis review, *)
(* the completion check and the layout of the final deck.  Every gate may  *)
(* change what an earlier one accepted, so its verdicts carry the version  *)
(* of what they judged.                                                    *)
(***************************************************************************)
EXTENDS Integers

CONSTANT Measures   \* measures whose audit status a caveat may qualify

VARIABLES
  gatePc,
  kind,        \* topics of a catalog (every run has a slide limit), or the
               \* retained analysis (no topics)
  sources,     \* the profile has supplementary source checks
  deck,        \* presentation_topics and presentation_plan: their versions,
               \* the measures the plan qualifies, and whether native
               \* preparation has settled it
  accepted,    \* measures of the accepted audit-scope record
  assurance,   \* audit-scope records accepted so far
  brief,       \* executive_brief: its identity and the assurance it was
               \* written against, NoBrief when there is none
  restored,    \* the briefing was restored from the run this one retries
  deferred,    \* deferred_brief
  unavailable, \* the briefing stage recorded executive_brief_unavailable
  covered,     \* topics version the coverage verdict binds
  integrated,  \* briefing and topics the source integration verdict binds
  reviewed,    \* plan version and assurance of the retained-analysis verdict
  localized,   \* the deck's copy is translated
  measured,    \* last deck measured: plan, briefing, copy, whether it fits
  original,    \* briefing before source integration
  attempt,     \* budget proposals made
  written,     \* briefings paid for by the gates
  stage        \* failed_stage of a partial result

verdicts == <<covered, integrated, reviewed>>
given == <<kind, sources, restored, unavailable>>
gatesVars == <<gatePc, given, deck, accepted, assurance, brief, deferred, verdicts, localized,
          measured, original, attempt, written, stage>>

NoBrief   == [id |-> 0, assurance |-> 0]
NoVerdict == <<0, 0>>
Proposals == 2

\* A gate that raises leaves a partial result with its stage.
FailGate(s) == gatePc' = "partial" /\ stage' = s

-----------------------------------------------------------------------------
(* Operations the gates share *)

\* Mutant: any accepted record will do, whatever measures it covers.
AuditRecorded(d) == sources => (d.targets = {} \/ accepted # {})

\* require_report_audit_scope: the accepted record covers every measure the
\* plan qualifies; without source checks nothing needs an audit review.
AuditCurrent(d) == sources => d.targets \subseteq accepted

\* What measuring leaves of a deck: native preparation may change an unsettled
\* plan, its qualifications and the scope of its topics, once.
Settled(d) ==
  IF d.prepared THEN {d}
  ELSE {[topics |-> d.topics + c, plan |-> d.plan + 1, targets |-> t, prepared |-> TRUE] :
          c \in {0, 1}, t \in SUBSET Measures}

\* Only a kept binding carries the coverage verdict over to changed topics.
Rebind(d) == covered' \in {covered, d.topics}

Measure(d, b, fits) == measured' = <<d.plan, b.id, localized, fits>>

NewBrief(a) == [id |-> written + 2, assurance |-> a]

\* Mutant: a new accepted record leaves the briefing as it was written.
RefreshKeepingBrief(d) ==
  \/ AuditCurrent(d) /\ UNCHANGED <<accepted, assurance, brief, deferred>>
  \/ /\ ~AuditCurrent(d)
     /\ accepted' = d.targets /\ assurance' = assurance + 1
     /\ deferred' = TRUE /\ UNCHANGED brief

\* refresh_report_audit_scope: a new accepted record invalidates the briefing
\* written against the earlier assurance.
Refresh(d) ==
  \/ AuditCurrent(d) /\ UNCHANGED <<accepted, assurance, brief, deferred>>
  \/ /\ ~AuditCurrent(d)
     /\ accepted' = d.targets /\ assurance' = assurance + 1
     /\ deferred' = TRUE /\ brief' = NoBrief

\* A failed review is recorded as unresolved: no record is accepted any more.
RefreshFails(d) ==
  /\ ~AuditCurrent(d)
  /\ accepted' = {}
  /\ FailGate("report_audit_scope")

-----------------------------------------------------------------------------
(* Coverage and audit scope *)

Cover ==
  /\ gatePc = "cover"
  /\ IF kind = "retained" \/ covered = deck.topics
     THEN gatePc' = "audit" /\ UNCHANGED stage
     ELSE FailGate("presentation_coverage")
  /\ UNCHANGED <<given, localized, deck, accepted, assurance, brief, deferred,
                 verdicts, measured, original, attempt, written>>

AuditFirst ==
  /\ gatePc = "audit"
  /\ \/ Refresh(deck) /\ gatePc' = "budget" /\ UNCHANGED stage
     \/ RefreshFails(deck) /\ UNCHANGED <<assurance, brief, deferred>>
  /\ UNCHANGED <<given, localized, deck, verdicts, measured, original, attempt,
                 written>>

-----------------------------------------------------------------------------
(* refine_presentation_budget *)

\* The retained analysis has no topics to choose from: nothing is refined.
SkipBudget ==
  /\ gatePc = "budget" /\ kind # "catalog"
  /\ gatePc' = "audit_again"
  /\ UNCHANGED <<given, localized, deck, accepted, assurance, brief, deferred,
                 verdicts, measured, original, attempt, written, stage>>

MeasureBudget ==
  /\ gatePc = "budget" /\ kind = "catalog"
  /\ deck' \in Settled(deck) /\ Rebind(deck')
  /\ \E fits \in BOOLEAN : /\ Measure(deck', brief, fits)
                           /\ gatePc' = IF fits THEN "fits" ELSE "propose"
  /\ UNCHANGED <<given, localized, accepted, assurance, brief, deferred,
                 integrated, reviewed, original, attempt, written, stage>>

\* A fitting deck keeps its selection; if preparation changed its audit scope
\* the briefing is written again and measured with it.
BudgetFits ==
  /\ gatePc = "fits"
  /\ \/ /\ AuditCurrent(deck)
        /\ gatePc' = "audit_again"
        /\ UNCHANGED <<accepted, assurance, brief, written, measured, stage>>
     \/ /\ RefreshFails(deck)
        /\ UNCHANGED <<assurance, brief, written, measured>>
     \/ /\ ~AuditCurrent(deck)
        /\ accepted' = deck.targets /\ assurance' = assurance + 1
        /\ written' = written + 1
        /\ \/ /\ brief' = NewBrief(assurance')
              /\ \E fits \in BOOLEAN : /\ Measure(deck, brief', fits)
                                       /\ gatePc' = IF fits THEN "audit_again" ELSE "propose"
              /\ UNCHANGED stage
           \/ /\ brief' = NoBrief /\ UNCHANGED measured
              /\ FailGate("executive_brief")
  /\ UNCHANGED <<given, localized, deck, deferred, verdicts, original, attempt>>

\* A proposal is a candidate: its selection, source review, native size, audit
\* scope, briefing and final size all pass, or it is discarded with its number.
\* Mutant: the proposals are counted from zero when they are exhausted.
NextProposalLate ==
  IF attempt = Proposals THEN FailGate("presentation_budget")
                         ELSE gatePc' = "propose" /\ UNCHANGED stage

NextProposal ==
  IF attempt + 1 = Proposals THEN FailGate("presentation_budget")
                             ELSE gatePc' = "propose" /\ UNCHANGED stage

\* Rejected before its audit scope is reviewed, or stopped by a failure that is
\* no verdict on the selection (a transport error, an exhausted output).
Reject ==
  /\ NextProposal \/ FailGate("presentation_budget")
  /\ UNCHANGED <<deck, covered, accepted, assurance, brief, written, measured>>

\* The audit records of a candidate are kept whether it is accepted or not.
Assure(d) ==
  IF AuditCurrent(d) THEN UNCHANGED <<accepted, assurance>>
                     ELSE accepted' = d.targets /\ assurance' = assurance + 1

Accept(d) ==
  /\ deck' = d /\ Rebind(d)
  /\ brief' = NewBrief(assurance') /\ Measure(d, brief', TRUE)
  /\ gatePc' = "audit_again" /\ UNCHANGED stage

Discard ==
  /\ NextProposal \/ FailGate("presentation_budget") \/ FailGate("executive_brief")
  /\ UNCHANGED <<deck, covered, brief, measured>>

Propose ==
  /\ gatePc = "propose"
  /\ attempt' = attempt + 1
  /\ \/ Reject
     \/ \E t \in SUBSET Measures :
          LET d == [topics |-> deck.topics + 1, plan |-> deck.plan + 1,
                    targets |-> t, prepared |-> TRUE]
          IN  \/ Assure(d) /\ written' = written + 1 /\ (Accept(d) \/ Discard)
              \/ /\ RefreshFails(d)
                 /\ UNCHANGED <<deck, covered, assurance, brief, written, measured>>
  /\ UNCHANGED <<given, localized, deferred, integrated, reviewed, original>>

-----------------------------------------------------------------------------
(* The final briefing *)

\* A changed plan may qualify measures nobody reviewed yet.
AuditAgain ==
  /\ gatePc = "audit_again"
  /\ \/ Refresh(deck) /\ gatePc' = "restored" /\ UNCHANGED stage
     \/ RefreshFails(deck) /\ UNCHANGED <<assurance, brief, deferred>>
  /\ UNCHANGED <<given, localized, deck, verdicts, measured, original, attempt,
                 written>>

\* A restored briefing is kept only for the exact plan and assurance it was
\* reviewed with (checked_integration_input, context_key).
Recheck ==
  /\ gatePc = "restored"
  /\ IF restored /\ brief # NoBrief /\ (brief.id # 1 \/ deck.plan # 1 \/ assurance # 0)
     THEN brief' = NoBrief /\ deferred' = TRUE
     ELSE UNCHANGED <<brief, deferred>>
  /\ gatePc' = "deferred"
  /\ UNCHANGED <<given, localized, deck, accepted, assurance, verdicts, measured,
                 original, attempt, written, stage>>

\* complete_deferred_brief: exactly one briefing for the settled plan, measured.
CompleteDeferred ==
  /\ gatePc = "deferred"
  /\ IF deferred /\ brief = NoBrief
     THEN /\ written' = written + 1
          /\ \/ /\ brief' = NewBrief(assurance)
                /\ deck' \in Settled(deck) /\ Rebind(deck')
                /\ \/ /\ Measure(deck', brief', TRUE) /\ gatePc' = "required"
                      /\ UNCHANGED stage
                   \/ /\ Measure(deck', brief', FALSE)
                      /\ FailGate("presentation_budget")
             \/ /\ FailGate("executive_brief")
                /\ UNCHANGED <<brief, deck, covered, measured>>
     ELSE /\ gatePc' = "required"
          /\ UNCHANGED <<brief, deck, covered, measured, written, stage>>
  /\ UNCHANGED <<given, localized, accepted, assurance, deferred, integrated,
                 reviewed, original, attempt>>

RequireBrief ==
  /\ gatePc = "required"
  /\ CASE ~AuditCurrent(deck) -> FailGate("report_audit_scope")
       [] brief = NoBrief /\ unavailable -> FailGate("executive_brief")
       [] OTHER -> gatePc' = "integrate" /\ UNCHANGED stage
  /\ original' = brief.id
  /\ UNCHANGED <<given, localized, deck, accepted, assurance, brief, deferred,
                 verdicts, measured, attempt, written>>

-----------------------------------------------------------------------------
(* Sources, retained analysis and completion *)

\* source_review_complete
IntegrationCurrent ==
  sources => brief # NoBrief /\ integrated = <<brief.id, deck.topics>>

\* review_supplementary_sources may add conclusions; a failure keeps the
\* briefing and leaves the sources unresolved.
Integrate ==
  /\ gatePc = "integrate"
  /\ IF brief = NoBrief \/ IntegrationCurrent
     THEN UNCHANGED <<brief, integrated>>
     ELSE \/ /\ brief' \in {brief, [brief EXCEPT !.id = -@]}
             /\ integrated' = <<brief'.id, deck.topics>>
          \/ /\ UNCHANGED brief /\ integrated' = NoVerdict
  /\ gatePc' = "integrated"
  /\ UNCHANGED <<given, localized, deck, accepted, assurance, deferred, covered,
                 reviewed, measured, original, attempt, written, stage>>

\* The retained analysis was not refined: its deck is measured now.
RequireSources ==
  /\ gatePc = "integrated"
  /\ IF ~IntegrationCurrent
     THEN FailGate("source_integration") /\ UNCHANGED <<deck, covered, measured>>
     ELSE IF kind = "retained"
     THEN /\ deck' \in Settled(deck) /\ Rebind(deck')
          /\ \/ Measure(deck', brief, TRUE) /\ gatePc' = "review" /\ UNCHANGED stage
             \/ Measure(deck', brief, FALSE) /\ FailGate("presentation_budget")
     ELSE gatePc' = "review" /\ UNCHANGED <<deck, covered, measured, stage>>
  /\ UNCHANGED <<given, localized, accepted, assurance, brief, deferred,
                 integrated, reviewed, original, attempt, written>>

\* topic_coverage_complete
CoverageCurrent ==
  IF kind = "retained" THEN reviewed = <<deck.plan, assurance>>
                       ELSE covered = deck.topics

\* One review of the retained pages, then the coverage gate for either kind.
ReviewRetained ==
  /\ gatePc = "review"
  /\ reviewed' \in (IF kind = "retained"
                    THEN {NoVerdict, <<deck.plan, assurance>>} ELSE {reviewed})
  /\ IF kind = "retained" /\ reviewed' = NoVerdict
     THEN FailGate("presentation_coverage")
     ELSE IF kind # "retained" /\ covered # deck.topics
     THEN FailGate("presentation_coverage")
     ELSE gatePc' = "measure" /\ UNCHANGED stage
  /\ UNCHANGED <<given, localized, deck, accepted, assurance, brief, deferred,
                 covered, integrated, measured, original, attempt, written>>

\* Conclusions that integration added are measured with the whole deck.
MeasureFinal ==
  /\ gatePc = "measure"
  /\ IF brief.id = original
     THEN gatePc' = "complete" /\ UNCHANGED <<deck, covered, measured, stage>>
     ELSE /\ deck' \in Settled(deck) /\ Rebind(deck')
          /\ \/ Measure(deck', brief, TRUE) /\ gatePc' = "complete" /\ UNCHANGED stage
             \/ Measure(deck', brief, FALSE) /\ FailGate("presentation_budget")
  /\ UNCHANGED <<given, localized, accepted, assurance, brief, deferred,
                 integrated, reviewed, original, attempt, written>>

\* is_complete verifies every verdict against the result as it is now.
CheckComplete ==
  /\ gatePc = "complete"
  /\ IF AuditCurrent(deck) /\ IntegrationCurrent /\ CoverageCurrent
     THEN gatePc' = "localize" /\ UNCHANGED stage
     ELSE FailGate("none")
  /\ UNCHANGED <<given, localized, deck, accepted, assurance, brief, deferred,
                 verdicts, measured, original, attempt, written>>

\* prepare_report_language: its failures leave the source copy, never the run.
Localize ==
  /\ gatePc = "localize" /\ gatePc' = "layout"
  /\ localized' \in BOOLEAN
  /\ UNCHANGED <<given, deck, accepted, assurance, brief, deferred, verdicts, measured,
                 original, attempt, written, stage>>

\* Mutant: only the localized copy is checked, not the slide budget.
LayoutUnmeasured ==
  /\ gatePc = "layout"
  /\ \/ gatePc' = "published" /\ UNCHANGED stage
     \/ FailGate("final_presentation_layout")
  /\ UNCHANGED <<given, localized, deck, accepted, assurance, brief, deferred,
                 verdicts, measured, original, attempt, written>>

\* check_final_presentation_layout: the deck as it will be shown, translated
\* copy included, is measured once more; overflow stays a retryable failure.
CheckLayout ==
  /\ gatePc = "layout"
  /\ deck' \in Settled(deck) /\ Rebind(deck')
  /\ \/ Measure(deck', brief, TRUE) /\ gatePc' = "published" /\ UNCHANGED stage
     \/ Measure(deck', brief, FALSE) /\ FailGate("final_presentation_layout")
  /\ UNCHANGED <<given, localized, accepted, assurance, brief, deferred,
                 integrated, reviewed, original, attempt, written>>

\* The result as it leaves the briefing stage.
GatesInit ==
  /\ gatePc = "cover" /\ stage = "none"
  /\ kind \in {"catalog", "retained"} /\ sources \in BOOLEAN
  /\ deck \in [topics : {1}, plan : {1}, targets : SUBSET Measures, prepared : {FALSE}]
  /\ covered \in {0, 1}
  /\ brief \in {NoBrief, [id |-> 1, assurance |-> 0]}
  /\ restored \in {FALSE, brief # NoBrief}
  /\ accepted \in {{}, Measures} /\ assurance = 0
  /\ deferred \in BOOLEAN /\ unavailable \in BOOLEAN
  /\ brief = NoBrief => deferred # unavailable
  /\ brief # NoBrief => ~unavailable
  /\ deferred /\ brief # NoBrief => restored
  /\ integrated = NoVerdict /\ reviewed = NoVerdict /\ measured = <<0, 0, FALSE, FALSE>>
  /\ localized = FALSE
  /\ original = 0 /\ attempt = 0 /\ written = 0

GatesNext ==
  \/ Cover \/ AuditFirst \/ SkipBudget \/ MeasureBudget \/ BudgetFits \/ Propose
  \/ AuditAgain \/ Recheck \/ CompleteDeferred \/ RequireBrief \/ Integrate
  \/ RequireSources \/ ReviewRetained \/ MeasureFinal \/ CheckComplete \/ Localize
  \/ CheckLayout

GatesSpec == GatesInit /\ [][GatesNext]_gatesVars

-----------------------------------------------------------------------------
(* Properties *)

\* Every variable keeps its shape.
GatesTypeOK ==
  /\ gatePc \in {"cover", "audit", "budget", "fits", "propose", "audit_again", "restored",
             "deferred", "required", "integrate", "integrated", "review", "measure",
             "complete", "localize", "layout", "published", "partial"}
  /\ kind \in {"catalog", "retained"} /\ sources \in BOOLEAN
  /\ deck \in [topics : Nat, plan : Nat, targets : SUBSET Measures, prepared : BOOLEAN]
  /\ accepted \subseteq Measures /\ assurance \in Nat
  /\ brief \in [id : Int, assurance : Nat]
  /\ restored \in BOOLEAN /\ deferred \in BOOLEAN /\ unavailable \in BOOLEAN
  /\ covered \in Nat /\ integrated \in Int \X Nat /\ reviewed \in Nat \X Nat
  /\ localized \in BOOLEAN /\ measured \in Nat \X Int \X BOOLEAN \X BOOLEAN
  /\ original \in Int /\ attempt \in 0..Proposals /\ written \in Nat
  /\ stage \in {"none", "presentation_coverage", "report_audit_scope",
                "presentation_budget", "executive_brief", "source_integration",
                "final_presentation_layout"}

Published == gatePc = "published"

\* What is published was judged as it is published: the measures its plan
\* qualifies have an accepted audit scope, its sources were weighed against
\* this briefing and these topics, and its topics or retained pages reviewed
\* (services/pipeline_completion.py).
PublishedVerdictsCurrent ==
  Published =>
    /\ sources => /\ deck.targets \subseteq accepted
                  /\ integrated = <<brief.id, deck.topics>>
    /\ kind # "retained" => covered = deck.topics
    /\ kind = "retained" => reviewed[1] = deck.plan

\* "a newly accepted evidence context invalidates any briefing written against
\* the earlier assurance" (agent/report_audit_scope.py:363), and deferring or
\* discarding a briefing never publishes a report without one.
BriefKnowsAssurance ==
  Published => brief # NoBrief /\ brief.assurance = assurance

\* The deck that is published was measured with its own plan and briefing, and
\* fits the slide limits.
PublishedDeckFits == Published => measured = <<deck.plan, brief.id, localized, TRUE>>

\* The gates pay for at most four briefings, whatever they change on the way.
BriefingsBounded == written <= 4
=============================================================================
