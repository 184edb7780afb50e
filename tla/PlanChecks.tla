------------------------------ MODULE PlanChecks ------------------------------
(***************************************************************************)
(* The checks of a presentation plan before every export, and when its     *)
(* quality is shown (run_comprehensive_qa of services/qa_reporter.py, with *)
(* validation/layout_qa.py and validation/cross_slide_validator.py).  They *)
(* repair the plan as they go, each rule on what the ones before it left,  *)
(* or, for an approved draft, only report on a copy.  An export is blocked *)
(* by the critical findings of its own pass; the next export of the same   *)
(* result starts from the plan the last one repaired.                      *)
(*                                                                         *)
(* A text is what it names, the observations whose figures it states, and   *)
(* what the rules would find in it.                                        *)
(***************************************************************************)
EXTENDS Integers, Sequences, FiniteSets, FiniteSetsExt, SequencesExt

CONSTANTS
  Plans,         \* plans to check: their slides, and their charts by name
  Observations,  \* per retained observation its topic, metric, period; adjusted?
  Linked,        \* per insight the observations it links
  Supported,     \* observations a themed slide may show for its source relation
  MaxPasses      \* bound: passes over one result

VARIABLES
  pc,         \* the next rule of the pass, or "done"
  repairing,  \* auto_repair
  pass,
  slides, charts,  \* the plan the pass works on
  criticals,  \* findings that block the export, as code and slide
  result,     \* is the company's name known, are the values those of the source,
              \* is the plan a planned one (planning_origin is not "legacy")
  stored,     \* history: per pass, the plan of the result when it ended
  verdicts    \* history: per pass, its critical findings; did it repair?

vars == <<pc, repairing, pass, slides, charts, criticals, result, stored, verdicts>>

MaxBullets == 5
NoText == [name |-> "", topics |-> {}, values |-> {}, marks |-> {}]

-----------------------------------------------------------------------------
(* Slides *)

Analysis(s) == s.kind = "analysis"
Texts(s) == {s.title, s.message} \cup ToSet(s.bullets)
ChartsOf(s) == s.charts \o FlattenSeq([i \in DOMAIN s.blocks |-> s.blocks[i].charts])
Distinct(q) == FoldLeft(LAMBDA acc, x : IF x \in ToSet(acc) THEN acc ELSE Append(acc, x), <<>>, q)
ShownCharts(s) == ToSet(ChartsOf(s))
BlockObservations(s) == UNION {b.observations : b \in ToSet(s.blocks)}
ChartObservations(names) == UNION {charts[c].observations : c \in names \cap DOMAIN charts}
Known(obs) == obs \cap DOMAIN Observations

Has(t, mark) == mark \in t.marks
Clear(t, marks) == [t EXCEPT !.marks = @ \ marks]

\* Every text of a slide, or of all slides, rewritten by the same rule.
Rewritten(s, Rule(_)) ==
  [s EXCEPT !.title = Rule(@), !.message = Rule(@),
            !.bullets = [i \in DOMAIN @ |-> Rule(@[i])]]
EachSlide(Change(_)) == [i \in DOMAIN slides |-> Change(slides[i])]

Finding(code, s) == [code |-> code, slide |-> s.name]
SlidesWhere(Test(_)) == {s \in ToSet(slides) : Test(s)}

\* is_positive_topic_mismatch: the slide names topics, and none of them is the
\* observation's.  A broad title takes any, and so do the key figures beside a
\* chart; a themed slide may rest on a relation its sources state.
Mismatch(o, s, supporting) ==
  LET named == UNION {t.topics : t \in Texts(s)} IN
  /\ named # {} /\ Observations[o].topic \notin named
  /\ "broad" \notin s.title.topics
  /\ ~supporting
  /\ ~(s.themed /\ o \in Supported)

-----------------------------------------------------------------------------
(* The rules, in their order *)

Go(from, to) == pc = from /\ pc' = to /\ UNCHANGED <<repairing, pass, result, stored, verdicts>>

\* enrich_single_metric_slides: an open slide of one series that nothing else
\* was decided for gets a chart of it, if it has none.
Enrichable(s) ==
  LET obs == s.observations \cup BlockObservations(s) \cup ChartObservations(ShownCharts(s)) IN
  /\ Analysis(s) /\ ~s.themed
  /\ s.layout \in {"auto", "single", "single_metric_hero"} \cup (IF result.planned THEN {} ELSE {"data_overview"})
  /\ s.bullets = <<>> /\ s.insights = {} /\ \A b \in ToSet(s.blocks) : b.charts # <<>> /\ ~b.kpi
  /\ Cardinality(ShownCharts(s)) <= 1 /\ ShownCharts(s) \subseteq DOMAIN charts
  /\ obs \subseteq DOMAIN Observations /\ Cardinality({Observations[o].period : o \in obs}) > 1
  /\ Cardinality({Observations[o].metric : o \in obs}) = 1
  /\ \A o \in obs : ~Mismatch(o, s, FALSE)

OwnChart(s) == s.name \o "-chart"

Enrich ==
  LET open  == IF repairing THEN SlidesWhere(Enrichable) ELSE {}
      drawn == {s \in open : ShownCharts(s) = {}}
      Plot(s) == [observations |-> s.observations \cup BlockObservations(s),
                  kind |-> "line", readable |-> TRUE, crowded |-> FALSE]
      Enriched(s) ==
        IF s \notin open THEN s
        ELSE [s EXCEPT !.layout = "single_metric_hero",
                       !.charts = IF s \in drawn THEN <<OwnChart(s)>> ELSE @]
  IN  /\ Go("enrich", "identity")
      /\ slides' = EachSlide(Enriched)
      /\ charts' = [c \in DOMAIN charts \cup {OwnChart(s) : s \in drawn} |->
                      IF c \in DOMAIN charts THEN charts[c]
                      ELSE Plot(CHOOSE s \in drawn : OwnChart(s) = c)]
      /\ UNCHANGED criticals

\* sanitize_company_identity_contradictions: once the company is named, no text
\* calls it unnamed; a bullet that does is dropped whole.
Identify ==
  LET Named(t) == Clear(t, {"unnamed"})
      Reconciled(s) ==
        [s EXCEPT !.title = Named(@), !.message = Named(@),
                  !.bullets = SelectSeq(@, LAMBDA t : ~Has(t, "unnamed"))]
  IN  /\ Go("identity", "facts")
      /\ slides' = IF result.named THEN EachSlide(Reconciled) ELSE slides
      /\ UNCHANGED <<charts, criticals>>

\* A value a thousand times its source, or a date taken for a year.
CheckFacts ==
  /\ Go("facts", "claims")
  /\ criticals' = criticals
       \cup {[code |-> "fact", slide |-> ""] : x \in {TRUE} \ {result.sound}}
  /\ UNCHANGED <<slides, charts>>

\* repair_presentation_plan_claims and check_evidence_completeness_for_title_
\* claims: contradictory wording that can be corrected is, and a title loses
\* "over the period" when its slide has no two periods.
Periods(s) ==
  {Observations[o].period : o \in Known(s.observations \cup BlockObservations(s))}

RepairClaims ==
  LET Corrected(s) == Rewritten(s, LAMBDA t : Clear(t, {"contradiction"}))
      Bounded(s) == IF s.kind # "cover" /\ Cardinality(Periods(s)) < 2
                    THEN [s EXCEPT !.title = Clear(@, {"periods"})] ELSE s
  IN  /\ Go("claims", "topics")
      /\ slides' = IF repairing THEN EachSlide(LAMBDA s : Bounded(Corrected(s))) ELSE slides
      /\ UNCHANGED <<charts, criticals>>

\* The evidence a slide lists, and the charts it lists, belong to its topic and
\* exist.  What its blocks show is examined at the end.
Hybrid(s) == s.layout \in {"chart_plus_kpis", "table_plus_kpis", "chart_with_data"} /\ s.charts # <<>>

CheckTopics ==
  LET Missing(s) == ToSet(s.charts) \ DOMAIN charts # {}
      Lost(s) == \E c \in ToSet(s.charts) \cap DOMAIN charts :
                   ~(charts[c].observations \subseteq DOMAIN Observations)
      Off(s) == Analysis(s) /\ \E o \in Known(s.observations) : Mismatch(o, s, Hybrid(s))
      ChartOff(s) == Analysis(s) /\ \E c \in ToSet(s.charts) \cap DOMAIN charts :
                       /\ charts[c].observations \subseteq DOMAIN Observations
                       /\ \E o \in charts[c].observations : Mismatch(o, s, FALSE)
  IN  /\ Go("topics", "charts")
      /\ criticals' = criticals
           \cup {Finding("chart_mismatch", s) : s \in SlidesWhere(Missing)}
           \cup {Finding("chart_observation_missing", s) : s \in SlidesWhere(Lost)}
           \cup {Finding("topic_mismatch", s) : s \in SlidesWhere(Off) \cup SlidesWhere(ChartOff)}
      /\ UNCHANGED <<slides, charts>>

\* validate_presentation_layout: a scatter chart that cannot be read becomes a
\* line, or bars, in every block that draws it too.
RepairCharts ==
  LET bad == {c \in DOMAIN charts : charts[c].kind = "scatter" /\ ~charts[c].readable}
      Fallback(c) ==
        IF Cardinality({Observations[o].period : o \in Known(charts[c].observations)}) > 1
        THEN "line" ELSE "bar"
      Redrawn(b) ==
        IF b.kind = "scatter" /\ ToSet(b.charts) \cap bad # {}
        THEN [b EXCEPT !.kind = Fallback(CHOOSE c \in bad : c \in ToSet(b.charts))] ELSE b
  IN  /\ Go("charts", "split")
      /\ IF repairing
         THEN /\ charts' = [c \in DOMAIN charts |->
                              IF c \in bad THEN [charts[c] EXCEPT !.kind = Fallback(c)] ELSE charts[c]]
              /\ slides' = EachSlide(LAMBDA s : [s EXCEPT !.blocks = [i \in DOMAIN @ |-> Redrawn(@[i])]])
         ELSE UNCHANGED <<slides, charts>>
      /\ UNCHANGED criticals

\* _is_cramped_multi_chart_slide: three charts, one of them crowded, or beside
\* other content.
Cramped(s) ==
  /\ Cardinality(ShownCharts(s)) > 2
  /\ \/ /\ s.layout = "hero_plus_supporting"
        /\ s.bullets # <<>> \/ s.insights # {} \/ s.observations # {} \/ BlockObservations(s) # {}
     \/ \E c \in ShownCharts(s) \cap DOMAIN charts : charts[c].crowded

\* The first two charts stay with the slide's copy, the others go to a second
\* part under the same title and message.
FirstCharts(s) == SubSeq(Distinct(ChartsOf(s)), 1, 2)
OtherChartsFromFour(s) == SubSeq(Distinct(ChartsOf(s)), 4, Cardinality(ShownCharts(s)))
OtherCharts(s) == SubSeq(Distinct(ChartsOf(s)), 3, Cardinality(ShownCharts(s)))
BlocksOf(s, names, bare) ==
  LET kept == SelectSeq(s.blocks, LAMBDA b : \/ bare /\ b.charts = <<>>
                                             \/ ToSet(b.charts) \cap names # {})
  IN  [i \in DOMAIN kept |->
         [kept[i] EXCEPT !.charts = SelectSeq(@, LAMBDA c : c \in names)]]

FirstPart(s) ==
  LET first == FirstCharts(s) IN
  [s EXCEPT !.charts = first, !.blocks = BlocksOf(s, ToSet(first), TRUE), !.layout = "two_up",
            !.observations = @ \cup ChartObservations(ToSet(first))]
SecondPart(s) ==
  LET others == OtherCharts(s) IN
  [s EXCEPT !.name = @ \o "_part2", !.charts = others, !.blocks = BlocksOf(s, ToSet(others), FALSE),
            !.bullets = <<>>, !.insights = {}, !.layout = "chart_plus_kpis",
            !.observations = ChartObservations(ToSet(others))]

\* A themed slide is left to the compositor, which paginates it.
SplitCrowded ==
  LET Parts(s) == IF repairing /\ s.kind \in {"analysis", "risks"} /\ Cramped(s) /\ ~s.themed
                  THEN <<FirstPart(s), SecondPart(s)>> ELSE <<s>>
  IN  /\ Go("split", "titles")
      /\ slides' = FlattenSeq(EachSlide(Parts))
      /\ UNCHANGED <<charts, criticals>>

\* A title that is the raw row of a table is rewritten.
CleanTitles ==
  LET Cleaned(s) == IF Analysis(s) THEN [s EXCEPT !.title = Clear(@, {"raw"})] ELSE s
  IN  /\ Go("titles", "density")
      /\ slides' = IF repairing THEN EachSlide(Cleaned) ELSE slides
      /\ UNCHANGED <<charts, criticals>>

\* A slide without a chart and without two observations goes into another one.
Thin(s) ==
  /\ Analysis(s) /\ ShownCharts(s) = {}
  /\ Cardinality(s.observations \cup BlockObservations(s)) < 2

Capped(texts) == SubSeq(texts, 1, Min({MaxBullets, Len(texts)}))
WithBullet(texts, t) == IF t \in ToSet(texts) THEN texts ELSE Capped(Append(texts, t))

AbsorbCopy(target, s) ==
  [target EXCEPT !.insights = @ \cup s.insights, !.bullets = FoldLeft(WithBullet, @, <<s.message>> \o s.bullets)]
AbsorbBullets(target, s) ==
  [target EXCEPT !.insights = @ \cup s.insights, !.observations = @ \cup s.observations,
                 !.bullets = FoldLeft(WithBullet, @, s.bullets)]
Absorb(target, s) ==
  LET copy == IF s.message \in {NoText, target.message} THEN s.bullets ELSE <<s.message>> \o s.bullets
  IN  [target EXCEPT !.insights = @ \cup s.insights, !.observations = @ \cup s.observations,
                     !.bullets = FoldLeft(WithBullet, @, copy)]

\* Into the last earlier slide of its section, else the last earlier one, else
\* the next; the only analysis slide of a deck stays.
MergeThin ==
  LET Place(acc, i) ==
        LET s       == acc.slides[i]
            earlier == {k \in acc.kept : Analysis(acc.slides[k])}
            same    == {k \in earlier : acc.slides[k].section = s.section}
            later   == {k \in (i + 1)..Len(slides) : Analysis(slides[k])}
            target  == IF same # {} THEN Max(same) ELSE IF earlier # {} THEN Max(earlier) ELSE Min(later)
        IN  IF ~Thin(s) \/ earlier \cup later = {}
            THEN [acc EXCEPT !.kept = @ \cup {i}]
            ELSE [acc EXCEPT !.slides[target] = Absorb(@, s)]
      end == FoldLeft(Place, [slides |-> slides, kept |-> {}], [i \in DOMAIN slides |-> i])
      order == SetToSortSeq(end.kept, <)
  IN  /\ Go("density", "placeholders")
      /\ slides' = IF repairing THEN [i \in DOMAIN order |-> end.slides[order[i]]] ELSE slides
      /\ UNCHANGED <<charts, criticals>>

\* CrossSlideValidator.  Placeholders are taken out of every text, and a bullet
\* that was little else goes with them.
RemovePlaceholders ==
  LET Held(t) == Has(t, "placeholder")
      Filled(t) == Clear(t, {"placeholder"})
      Emptied(t) == Held(t) /\ Has(t, "short")
      Cleaned(s) == Rewritten([s EXCEPT !.bullets = SelectSeq(@, LAMBDA t : ~Emptied(t))], Filled)
  IN  /\ Go("placeholders", "numbers")
      /\ IF repairing
         THEN slides' = EachSlide(Cleaned) /\ UNCHANGED criticals
         ELSE /\ criticals' = criticals \cup {Finding("banned_placeholder", s) :
                                s \in SlidesWhere(LAMBDA s : \E t \in Texts(s) : Held(t))}
              /\ UNCHANGED slides
      /\ UNCHANGED charts

\* Digits of a rounding error are cut, and those of an exact figure with them: what is
\* left is a figure no observation has.
Rounded(t) == IF Has(t, "exact") THEN [Clear(t, {"digits", "exact"}) EXCEPT !.marks = @ \cup {"misstated"}]
              ELSE Clear(t, {"digits"})

RoundNumbers ==
  /\ Go("numbers", "capital")
  /\ slides' = IF repairing THEN EachSlide(LAMBDA s : Rewritten(s, Rounded)) ELSE slides
  /\ UNCHANGED <<charts, criticals>>

\* A text that has the cash effect of working capital the wrong way round is
\* corrected for each pattern it matches, each time from the text as it was
\* read: the last correction is the one that stays.
Reversals == <<"reversed receivables", "reversed payables">>
Causes    == <<"cause", "sole cause">>

LastCorrection(t, patterns) ==
  LET hits == SelectSeq(patterns, LAMBDA p : Has(t, p))
  IN  IF hits = <<>> THEN t ELSE Clear(t, {hits[Len(hits)]})

TurnCapital ==
  LET Reversed(s) == \E t \in Texts(s) : t.marks \cap ToSet(Reversals) # {}
  IN  /\ Go("capital", "causes")
      /\ IF repairing
         THEN /\ slides' = EachSlide(LAMBDA s : Rewritten(s, LAMBDA t : LastCorrection(t, Reversals)))
              /\ UNCHANGED criticals
         ELSE /\ criticals' = criticals \cup {Finding("reversed_capital", s) : s \in SlidesWhere(Reversed)}
              /\ UNCHANGED slides
      /\ UNCHANGED charts

\* A bullet that states a cause as proven is softened, in the same way.
SoftenCauses ==
  LET Soft(s) == [s EXCEPT !.bullets = [i \in DOMAIN @ |-> LastCorrection(@[i], Causes)]]
  IN  /\ Go("causes", "labels")
      /\ slides' = IF repairing THEN EachSlide(Soft) ELSE slides
      /\ UNCHANGED <<charts, criticals>>

\* A slide of adjusted measures only says so in its title.
LabelAdjusted ==
  LET Unlabelled(s) == /\ Known(s.observations) # {}
                       /\ \A o \in Known(s.observations) : Observations[o].adjusted
      Labelled(s) == IF Unlabelled(s) THEN [s EXCEPT !.title.marks = @ \cup {"adjusted"}] ELSE s
  IN  /\ Go("labels", "summary")
      /\ slides' = IF repairing THEN EachSlide(Labelled) ELSE slides
      /\ UNCHANGED <<charts, criticals>>

\* The summary is held against the evidence of the whole plan; then the final
\* validators of claims and of data read the plan as it is now.
Summary(s) == s.kind = "executive_summary"

AlignSummary ==
  LET Aligned(s) == IF Summary(s) THEN Rewritten(s, LAMBDA t : Clear(t, {"contradiction"})) ELSE s
      now == IF repairing THEN EachSlide(Aligned) ELSE slides
      Contradicts(s) == \E t \in Texts(s) : t.marks \cap {"contradiction", "false"} # {}
  IN  /\ Go("summary", "data")
      /\ slides' = now
      /\ criticals' = criticals
           \cup {Finding("directional_contradiction", s) : s \in {s \in ToSet(now) : Contradicts(s)}}
      /\ UNCHANGED charts

\* validate_presentation_data, for what blocks show and what a slide holds.
KeyFigure(o, s) == \E b \in ToSet(s.blocks) : b.kpi /\ o \in b.observations

CheckData ==
  LET blockCharts(s) == ShownCharts(s) \ ToSet(s.charts)
      figures(s) == Known(s.observations \cup BlockObservations(s) \cup ChartObservations(ShownCharts(s)))
      Off(s) == \/ ~(blockCharts(s) \subseteq DOMAIN charts)
                \/ \E o \in Known(ChartObservations(blockCharts(s))) : Mismatch(o, s, FALSE)
                \/ \E o \in Known(BlockObservations(s) \ s.observations) : Mismatch(o, s, KeyFigure(o, s))
  IN  /\ Go("data", "plan")
      /\ criticals' = criticals
           \cup {Finding("topic_mismatch", s) : s \in SlidesWhere(LAMBDA s : (Analysis(s) \/ Summary(s)) /\ Off(s))}
           \cup {Finding("insufficient_content", s) :
                   s \in SlidesWhere(LAMBDA s : Analysis(s) /\ figures(s) = {})}
      /\ UNCHANGED <<slides, charts>>

\* PresentationPlanValidator, for a plan that was planned: what the repairs left must
\* still be one.  A slide's figures must be those of its own evidence.
Risks(s) == s.kind = "risks"
Evidence(s) ==
  s.observations \cup BlockObservations(s) \cup ChartObservations(ShownCharts(s)) \cup UNION {Linked[i] : i \in s.insights}

Unsupported(s) ==
  (Analysis(s) \/ Risks(s) \/ Summary(s)) /\ \E t \in Texts(s) : ~(t.values \subseteq Evidence(s)) \/ Has(t, "misstated")

InvalidSlide(s) ==
  \/ ~(ShownCharts(s) \subseteq DOMAIN charts /\ Evidence(s) \subseteq DOMAIN Observations)
  \/ Cardinality(ShownCharts(s)) > 3
  \/ Risks(s) /\ ShownCharts(s) = {} /\ s.insights = {} /\ s.observations \cup BlockObservations(s) = {}
  \/ Analysis(s) /\ (s.message = NoText \/ (ShownCharts(s) = {} /\ s.observations \cup BlockObservations(s) = {}))
  \/ Unsupported(s)

InvalidPlan ==
  LET copy(s) == {t.name : t \in {s.message} \cup ToSet(s.bullets)} \ {""}
      shown   == UNION {ShownCharts(s) : s \in SlidesWhere(Analysis)}
  IN  \/ SlidesWhere(Analysis) = {} /\ (DOMAIN charts # {} \/ Cardinality(DOMAIN Observations) >= 2)
      \/ Cardinality(SlidesWhere(Risks)) > 1
      \/ DOMAIN charts # {} /\ shown \cap DOMAIN charts = {}
      \/ \E s \in ToSet(slides) : InvalidSlide(s)
      \/ \E s \in SlidesWhere(Summary), u \in SlidesWhere(Risks) : copy(s) \cap copy(u) # {}

CheckPlan ==
  /\ Go("plan", "end")
  /\ criticals' = criticals
       \cup {[code |-> "plan_invalid", slide |-> ""] : x \in {TRUE} \cap {result.planned /\ InvalidPlan}}
  /\ UNCHANGED <<slides, charts>>

\* The report is returned.  What was checked without repairs was a copy.
Conclude ==
  LET kept == IF repairing THEN [slides |-> slides, charts |-> charts] ELSE stored[pass] IN
  /\ pc = "end" /\ pc' = "done"
  /\ stored' = Append(stored, kept) /\ verdicts' = Append(verdicts, [found |-> criticals, repaired |-> repairing])
  /\ slides' = kept.slides /\ charts' = kept.charts
  /\ UNCHANGED <<repairing, pass, criticals, result>>

\* The next export, or another look at the quality of the result.
Again ==
  /\ pc = "done" /\ pass < MaxPasses
  /\ pc' = "enrich" /\ pass' = pass + 1 /\ criticals' = {}
  /\ repairing' \in BOOLEAN
  /\ UNCHANGED <<slides, charts, result, stored, verdicts>>

Init ==
  /\ pc = "enrich" /\ pass = 1 /\ criticals = {} /\ verdicts = <<>>
  /\ repairing \in BOOLEAN
  /\ \E p \in Plans :
       /\ slides = p.slides /\ charts = p.charts /\ stored = <<[slides |-> p.slides, charts |-> p.charts]>>
       /\ result \in [named : BOOLEAN, sound : BOOLEAN, planned : {p.planned}]

Next ==
  \/ Enrich \/ Identify \/ CheckFacts \/ RepairClaims \/ CheckTopics \/ RepairCharts \/ SplitCrowded
  \/ CleanTitles \/ MergeThin \/ RemovePlaceholders \/ RoundNumbers \/ TurnCapital
  \/ SoftenCauses \/ LabelAdjusted \/ AlignSummary \/ CheckData \/ CheckPlan \/ Conclude \/ Again

Spec == Init /\ [][Next]_vars

-----------------------------------------------------------------------------
(* Properties *)

Given == stored[Len(stored) - 1]
Left  == stored[Len(stored)]
Over  == pc = "done"
Slides(plan) == ToSet(plan.slides)

\* No repair takes a chart off the deck or shows it twice: over a pass every
\* chart stays on as many slides as before.
ChartsStay ==
  Over => \A c \in UNION {ShownCharts(s) : s \in Slides(Given)} :
    LET On(plan) == Cardinality({i \in DOMAIN plan.slides : c \in ShownCharts(plan.slides[i])})
    IN  On(Left) = On(Given)

\* What an analysis slide lists and says outlives the repairs: each observation
\* and insight is on an analysis slide, and each takeaway and bullet is still
\* said, unless the deck has more of them than one slide takes.  (A bullet that
\* calls a known company unnamed, or was little but a placeholder, goes.)
Said(plan) == UNION {{t.name : t \in Texts(s)} : s \in Slides(plan)}
Full(plan) ==
  MaxBullets < FoldSeq(LAMBDA s, n : n + Len(s.bullets) + (IF s.message = NoText THEN 0 ELSE 1), 0, plan.slides)

EvidenceStays ==
  Over => \A s \in {s \in Slides(Given) : Analysis(s)} :
    /\ s.observations \subseteq UNION {t.observations : t \in {t \in Slides(Left) : Analysis(t)}}
    /\ s.insights \subseteq UNION {t.insights : t \in {t \in Slides(Left) : Analysis(t)}}
    /\ Full(Given) \/ \A t \in {s.message} \cup ToSet(s.bullets) :
         t.name \in Said(Left) \cup {""} \/ t.marks \cap {"unnamed", "short"} # {}

\* An observation that moved to another slide is named there, if the takeaway or
\* a bullet it came with named it and all of them fit.
MovedStaysNamed ==
  Over => \A s \in Slides(Given), t \in Slides(Left) :
    (s.name # t.name /\ s.charts = <<>> /\ ~Full(Given)) =>
      \A o \in Known(s.observations \cap t.observations) :
        Observations[o].topic \in UNION {x.topics : x \in {s.message} \cup ToSet(s.bullets)}
          => ~Mismatch(o, t, FALSE)

\* What one pass lets through is let through by the next: only the topics of
\* slides, which are examined before the layout is repaired, can turn out
\* wrong afterwards; where nothing is repaired, a text that had the cash
\* effect of working capital wrong twice; and the figures of a planned deck,
\* where the evidence moves away from the text.  After a pass that repaired,
\* that takes a slide that is split once it has taken in a thin one; after one
\* that only looked, a merge, a split or a rounding of the first repairs.
Names(plan) == {s.name : s \in Slides(plan)}
Moved ==
  IF verdicts[pass - 1].repaired THEN ~(Names(Left) \subseteq Names(Given))
  ELSE Names(Left) # Names(Given) \/ \E t \in UNION {Texts(s) : s \in Slides(Left)} : Has(t, "misstated")

VerdictStands ==
  (Over /\ pass > 1 /\ verdicts[pass - 1].found = {}) =>
    \A f \in verdicts[pass].found :
      \/ f.code = "topic_mismatch" \/ (~repairing /\ f.code = "reversed_capital")
      \/ f.code = "plan_invalid" /\ repairing /\ Moved

\* Repairs settle: exporting again and again does not go on changing the plan.
\* Two passes are enough for slides of up to five charts; one is not.
RepairsSettle ==
  (Over /\ pass > 2 /\ \A p \in (pass - 2)..pass : verdicts[p].repaired) => Left = Given
=============================================================================
