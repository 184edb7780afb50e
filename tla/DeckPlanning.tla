------------------------------- MODULE DeckPlanning -------------------------------
(***************************************************************************)
(* A deck planned by the model (agent/presentation_planner.py): one proposal, *)
(* one editorial revision, and a deterministic repair of what fails           *)
(* (agent/presentation_plan_repairer.py), each behind the same validator      *)
(* (validation/presentation_plan_validator.py).                               *)
(***************************************************************************)
EXTENDS Integers, Sequences, FiniteSets, SequencesExt

CONSTANTS
  Charts, Observations, Insights,
  Drafts,           \* analysis slides a model may propose
  Length,           \* bound: analysis slides of a proposal
  ChartLimit,       \* charts of a slide
  BlockLimit,       \* visual blocks of a repaired slide
  AnalysisLimit     \* analysis slides of a repaired plan

VARIABLES
  pc,
  proposed,         \* the first proposal; during a repair the plan under repair
  safe,             \* it passed the validator
  candidate,        \* the plan that is being decided or repaired
  repaired,         \* analysis slides that the repair has kept
  pending,          \* weak slides before the first one that can carry them
  at,               \* next slide of the candidate
  origin            \* of the plan that was returned

vars == <<pc, proposed, safe, candidate, repaired, pending, at, origin>>

\* A slide: the evidence it names itself, the visual blocks with theirs, and the worst
\* fault of its copy.  "fixable" stands for an unknown reference, a foreign page or an
\* unsupported number; "claim" for copy that its own evidence contradicts.
Block == [charts : SUBSET Charts, obs : SUBSET Observations, insights : SUBSET Insights]
Slide == [charts : SUBSET Charts, obs : SUBSET Observations, insights : SUBSET Insights,
          blocks : Seq(Block), copy : {"sound", "fixable", "claim"}]

\* A plan: what is wrong about its required slides or its company profile, the
\* sentences of the risks slide, and the analysis.
Plan(slides) == [frame : {"sound", "structure", "company"}, risks : {{}, {"own"}, {"repeated", "own"}}, slides : slides]
Proposals    == Plan(UNION {[1..n -> Drafts] : n \in 0..Length})
NoPlan       == [frame |-> "structure", risks |-> {}, slides |-> <<>>]

\* The evidence of a slide, its own and that of its blocks.
InBlocks(s) == [charts |-> UNION {b.charts : b \in Range(s.blocks)},
                obs |-> UNION {b.obs : b \in Range(s.blocks)},
                insights |-> UNION {b.insights : b \in Range(s.blocks)}]
Whole(s) == LET in == InBlocks(s)
            IN [charts |-> s.charts \cup in.charts, obs |-> s.obs \cup in.obs, insights |-> s.insights \cup in.insights]

InsightsOf(slides) == UNION {Whole(s).insights : s \in Range(slides)}
ChartsOf(slides)   == UNION {Whole(s).charts : s \in Range(slides)}
HasEvidence(s)     == Whole(s) # [charts |-> {}, obs |-> {}, insights |-> {}]

-----------------------------------------------------------------------------
(* PresentationPlanValidator.validate *)

\* Required slides, their number and order, and the company profile.
FrameErrors(p) == p.frame # "sound"

\* Evidence of the document must be used.
EvidenceErrors(p) ==
  \/ p.slides = <<>> /\ (Charts # {} \/ Cardinality(Observations) >= 2)
  \/ Charts # {} /\ ChartsOf(p.slides) = {}

SlideErrors(p) ==
  \E s \in Range(p.slides) :
    \/ Whole(s).charts = {} /\ Whole(s).obs = {}
    \/ Cardinality(Whole(s).charts) > ChartLimit

\* Numbers, pages and claims that the evidence of the slide does not support.
CopyErrors(p) == \E s \in Range(p.slides) : s.copy # "sound"

RiskErrors(p) == "repeated" \in p.risks

Valid(p) == ~(FrameErrors(p) \/ EvidenceErrors(p) \/ SlideErrors(p) \/ CopyErrors(p) \/ RiskErrors(p))

-----------------------------------------------------------------------------
(* PresentationPlanner.plan *)

Return(p, from) == pc' = "planned" /\ candidate' = p /\ origin' = from

\* A deck of selected topics keeps its preselected pages instead.
Refuse == pc' = "failed" /\ UNCHANGED <<candidate, origin>>

Repair(p) ==
  /\ pc' = "repairing" /\ proposed' = p /\ candidate' = p
  /\ repaired' = <<>> /\ pending' = <<>> /\ at' = 1 /\ UNCHANGED origin

Propose ==
  /\ pc = "proposing" /\ pc' = "reviewing"
  /\ proposed' \in Proposals /\ candidate' = proposed' /\ safe' = Valid(proposed')
  /\ UNCHANGED <<repaired, pending, at, origin>>

\* review_presentation: a valid plan may still be weak.
Review ==
  /\ pc = "reviewing"
  /\ \/ safe /\ Return(proposed, "model")
     \/ pc' = "revising" /\ UNCHANGED <<candidate, origin>>
  /\ UNCHANGED <<proposed, safe, repaired, pending, at>>

\* Mutant: the revision that was rejected is kept.
KeptRevised(revision) == revision

\* What is kept of a valid proposal when its revision fails.
Kept(revision) == proposed

\* The revision; where it fails, a valid proposal is kept as it was, and otherwise the
\* latest copy is repaired.
Revise ==
  /\ pc = "revising"
  /\ \E p \in Proposals :
       \/ Valid(p) /\ Return(p, "repaired") /\ UNCHANGED <<proposed, repaired, pending, at>>
       \* invalid or weak
       \/ safe /\ (Return(Kept(p), "model") \/ Refuse) /\ UNCHANGED <<proposed, repaired, pending, at>>
       \/ ~safe /\ Repair(p)
  /\ UNCHANGED safe

\* No revision at all.
ReviseFails ==
  /\ pc = "revising"
  /\ IF safe THEN (Return(proposed, "model") \/ Refuse) /\ UNCHANGED <<proposed, repaired, pending, at>>
     ELSE Repair(proposed)
  /\ UNCHANGED safe

-----------------------------------------------------------------------------
(* PresentationPlanRepairer.repair *)

\* A plan with themes is validated, and never rewritten.
Themed ==
  /\ pc = "repairing" /\ at = 1
  /\ IF Valid(candidate) THEN Return(candidate, "repaired")
     ELSE Refuse
  /\ UNCHANGED <<proposed, safe, repaired, pending, at>>

\* The first n of a set of charts, in the order the slide names them.
First(charts, n) == LET order == SetToSeq(charts) IN {order[k] : k \in 1..n \cap DOMAIN order}

\* The first blocks that show something; the slide's charts and then theirs fill its limit.
KnownBlocks(s, own) ==
  LET room  == ChartLimit - Cardinality(own)
      fit   == [k \in DOMAIN s.blocks |-> [s.blocks[k] EXCEPT !.charts = First(@, room)]]
      full  == SelectSeq(fit, LAMBDA b : b.charts \cup b.obs \cup b.insights # {})
      kept  == SubSeq(full, 1, IF Len(full) < BlockLimit THEN Len(full) ELSE BlockLimit)
      shown == FoldLeft(LAMBDA all, b : all \cup First(b.charts \ all, ChartLimit - Cardinality(all)), own, kept)
  IN [k \in DOMAIN kept |-> [kept[k] EXCEPT !.charts = @ \cap shown]]

\* Unknown references and unsupported numbers go.
Clean(s) ==
  LET own == First(s.charts, ChartLimit)
  IN [s EXCEPT !.charts = own, !.blocks = KnownBlocks(s, own), !.copy = IF @ = "fixable" THEN "sound" ELSE @]

\* The numbers of the company profile are checked in the same way.
CleanCompany(frame) == IF frame = "company" THEN "sound" ELSE frame

Sufficient(s) == Whole(s).charts # {} \/ Cardinality(Whole(s).obs) >= 2

Worst(a, b) == IF "claim" \in {a, b} THEN "claim" ELSE "sound"

\* Of a slide that is merged its own observations and insights go along, and not its blocks.
Merge(target, s) ==
  [target EXCEPT !.obs = @ \cup s.obs, !.insights = @ \cup s.insights, !.copy = Worst(@, s.copy)]

\* Mutant: a weak slide in front of the first strong one is dropped.
MergeNone(target, weak) == target

MergeAll(target, weak) == FoldSeq(LAMBDA s, t : Merge(t, s), target, weak)

\* A slide without evidence is dropped; a weak one gets the observations of its topic in
\* place of its own, is merged into an earlier slide, or waits for a later one.
RepairSlide ==
  /\ pc = "repairing" /\ at <= Len(candidate.slides)
  /\ LET s == Clean(candidate.slides[at])
     IN \/ ~HasEvidence(s) /\ UNCHANGED <<repaired, pending>>
        \/ /\ HasEvidence(s) /\ Sufficient(s)
           /\ repaired' = Append(repaired, MergeAll(s, pending)) /\ pending' = <<>>
        \/ /\ HasEvidence(s) /\ ~Sufficient(s)
           /\ \/ \E found \in SUBSET Observations :
                   /\ Cardinality(found) >= 2
                   /\ repaired' = Append(repaired, MergeAll([s EXCEPT !.obs = found], pending))
                   /\ pending' = <<>>
              \/ /\ repaired # <<>> /\ UNCHANGED pending
                 /\ \E k \in DOMAIN repaired : repaired' = [repaired EXCEPT ![k] = Merge(@, s)]
              \/ /\ repaired = <<>> /\ UNCHANGED repaired
                 /\ pending' = Append(pending, [s EXCEPT !.blocks = <<>>])
  /\ at' = at + 1
  /\ UNCHANGED <<pc, proposed, safe, candidate, origin>>

\* A weak slide waits under the section of the slide kept before it; where a plan opens
\* with one there is no such slide, and reading its section raises.
OpensWeak ==
  /\ pc = "repairing" /\ at <= Len(candidate.slides) /\ candidate.frame = "structure"
  /\ repaired = <<>> /\ pending = <<>>
  /\ LET s == Clean(candidate.slides[at]) IN HasEvidence(s) /\ ~Sufficient(s)
  /\ Refuse /\ UNCHANGED <<proposed, safe, repaired, pending, at>>

\* Weak slides that are left share one, where any of them has an observation.
Collected ==
  IF \E s \in Range(pending) : s.obs # {} THEN <<MergeAll(Head(pending), Tail(pending))>> ELSE <<>>

\* Charts no slide shows get slides of their own; without charts the observations do.
Backfilled(slides) ==
  LET missing == IF slides = <<>> \/ ChartsOf(slides) = {} THEN Charts
                 ELSE IF Cardinality(ChartsOf(slides)) < 4 THEN Charts \ ChartsOf(slides) ELSE {}
      order   == SetToSeq(missing)
      shown   == [k \in DOMAIN order |->
                   [charts |-> {order[k]}, obs |-> {}, insights |-> {}, blocks |-> <<>>, copy |-> "sound"]]
      all     == slides \o shown
  IN IF all = <<>> /\ Cardinality(Observations) >= 2
     THEN <<[charts |-> {}, obs |-> Observations, insights |-> {}, blocks |-> <<>>, copy |-> "sound"]>> ELSE all

\* _normalise_structure, _fallback_for_type and _deduplicate_risks_vs_summary.
Normalised(p, slides) ==
  [frame |-> CleanCompany(IF p.frame = "structure" THEN "sound" ELSE p.frame), risks |-> p.risks \ {"repeated"},
   slides |-> SubSeq(slides, 1, IF Len(slides) < AnalysisLimit THEN Len(slides) ELSE AnalysisLimit)]

FinishRepair ==
  /\ pc = "repairing" /\ at > Len(candidate.slides)
  /\ LET plan == Normalised(candidate, Backfilled(IF pending = <<>> THEN repaired
                                                  ELSE repaired \o Collected))
     IN (Valid(plan) /\ Return(plan, "repaired")) \/ Refuse
  /\ repaired' = <<>> /\ pending' = <<>>
  /\ UNCHANGED <<proposed, safe, at>>

\* The gateway fails.
Fail ==
  /\ pc = "proposing" /\ pc' = "failed"
  /\ UNCHANGED <<proposed, safe, candidate, repaired, pending, at, origin>>

Init ==
  /\ pc = "proposing" /\ proposed = NoPlan /\ safe = FALSE /\ candidate = NoPlan
  /\ repaired = <<>> /\ pending = <<>> /\ at = 0 /\ origin = "none"

Next == Propose \/ Review \/ Revise \/ ReviseFails \/ Themed \/ RepairSlide \/ OpensWeak \/ FinishRepair \/ Fail

Spec == Init /\ [][Next]_vars

-----------------------------------------------------------------------------
(* Whatever was revised or repaired, the plan that is returned passed the        *)
(* validator as it is; and a proposal that did is replaced by a revision only,    *)
(* never repaired, and kept word for word when it is said to be the model's own.  *)
ReturnedPlanValid ==
  pc = "planned" => Valid(candidate) /\ (origin = "model" => candidate = proposed)

\* The findings of a slide that must go along: those it names itself, and those its
\* first blocks hold where it carries itself.  The blocks of a weak slide may be lost.
Carried(s) == s.insights \cup (IF Sufficient(Clean(s)) THEN InBlocks(Clean(s)).insights ELSE {})

(* A repair moves the findings that slides name, it does not lose them: where the  *)
(* plan that was repaired has a slide that carries itself, every finding that      *)
(* Carried names is on some slide of the repaired plan, whether it stood before or *)
(* behind that one.                                                                *)
FindingsKept ==
  LET before == proposed.slides
  IN pc = "planned" /\ at > 0 /\ Len(before) <= AnalysisLimit
     /\ (\E s \in Range(before) : Sufficient(Clean(s)))
     => UNION {Carried(s) : s \in Range(before)} \subseteq InsightsOf(candidate.slides)
=============================================================================
