--------------------------- MODULE ChartPlanning ---------------------------
(***************************************************************************)
(* From observations to the charts of a deck (document_model/series.py,     *)
(* agent/chart_planner.py, services/composition_*.py and the grouping of    *)
(* services/pptx_export.py).  Observations that compare form one series per *)
(* key; a composition shows the parts of a total.  Requested series come    *)
(* first, then those of tasks, compositions and reported series, up to a    *)
(* limit; the charts that show something are drawn in groups.               *)
(*   An observation has a value, a period (0 if it states none; an interim  *)
(* period is not the number of a year), a category ("" or the part it is of  *)
(* its measure), and how its sign is printed.                               *)
(***************************************************************************)
EXTENDS Integers, SequencesExt

CONSTANTS
  Documents,    \* the observations, the requested series and the tasks of a document
  Maximum,      \* how many charts are planned unless more are requested
  Related,      \* pairs of metrics whose names complement one another
  Kin,          \* pairs of metrics whose names share a term
  Generic,      \* metrics whose name is no measure of its own ("others")
  Ambiguous,    \* tables whose columns could not be told apart
  MinPairs,     \* pairs of values a relationship is drawn from
  MaxGroup,     \* charts on one page
  MaxTitle      \* measures a heading has room for

VARIABLES
  facts, requested, only, tasks, \* the document; requested is consumed by next
  next, output, seen, metrics,   \* the plan: charts, the values and the metrics they show
  remaining, groups, pc

document == <<facts, requested, only>>
vars == <<document, tasks, next, output, seen, metrics, remaining, groups, pc>>

Abs(x) == IF x < 0 THEN -x ELSE x
Metric(m) == {o \in facts : o.metric = m}
Periods(s) == {o.period : o \in s}
At(s, p) == {o \in s : o.period = p}
Sum(s) == SumFunction([o \in s |-> o.value])

\* One value printed with and without its sign is not a conflict.
SignVariant(s) ==
  /\ \E o \in s : o.value < 0
  /\ \E o \in s : o.value >= 0
  /\ \A o, q \in s : Abs(o.value) = Abs(q.value)
  /\ {o.signed : o \in s} = BOOLEAN
Conflict(s) == Cardinality({o.value : o \in s}) > 1 /\ ~SignVariant(s)

\* Observations of one place of the document, and those of them that disagree.
Place(o) == <<o.metric, o.period, o.category, o.section, o.unit>>
SamePlace(s, o) == {q \in s : Place(q) = Place(o)}
Conflicting(s) == \E o \in s : Conflict(SamePlace(s, o))

\* Of the tables that print a sign differently the one with most values stays.
Reconciled(s) ==
  LET Of(g, t) == {o \in g : o.table = t}
      Kept(g) == CHOOSE t \in {o.table : o \in g} :
                   \A u \in {o.table : o \in g} : Cardinality(Of(g, t)) >= Cardinality(Of(g, u))
  IN  {o \in s : SignVariant(SamePlace(s, o)) => o.table = Kept(SamePlace(s, o))}

\* Mutant: the values of two sections are in one series.
KeyOfMeasure(o) == <<o.metric, o.unit, o.basis, o.category>>

\* What must be equal to compare observations (canonical_series_partition_key).
Key(o) == <<o.metric, o.unit, o.basis, o.section, o.category>>

Strongest(s) ==
  CHOOSE o \in s : \A q \in s : o.confidence > q.confidence \/ (o.confidence = q.confidence /\ o.id <= q.id)

\* The series of at least two periods, one observation each, without those that conflict.
Comparable(s) ==
  LET dated == {o \in s : o.period # 0}
      Settled(items) == IF Conflict(items) THEN Reconciled(items) ELSE items
      Of(k) == {o \in dated : Key(o) = k}
      Sound(k) == /\ Cardinality(Periods(Of(k))) >= 2
                  /\ \A p \in Periods(Of(k)) : ~Conflict(Settled(At(Of(k), p)))
  IN  {{Strongest(Settled(At(Of(k), p))) : p \in Periods(Of(k))} :
         k \in {x \in {Key(o) : o \in dated} : Sound(x)}}

\* The annual series, or the longest, or the most certain.
Better(a, b) ==
  LET Annual(s) == IF \E o \in s : o.basis = "FY" THEN 1 ELSE 0
      Certain(s) == SumFunction([o \in s |-> o.confidence])
  IN  \/ Annual(a) > Annual(b)
      \/ /\ Annual(a) = Annual(b)
         /\ \/ Cardinality(a) > Cardinality(b)
            \/ Cardinality(a) = Cardinality(b) /\ Certain(a) >= Certain(b)
Best(s) ==
  LET candidates == Comparable(s) IN
  IF candidates = {} THEN {} ELSE CHOOSE a \in candidates : \A b \in candidates : Better(a, b)

\* score_chartability.
Chartable(s) ==
  /\ Cardinality(s) >= 2
  /\ Cardinality({<<o.metric, o.period, o.category, o.section>> : o \in s}) = Cardinality(s)
  /\ \A o, q \in s : o.metric = q.metric => o.unit = q.unit /\ (o.period # 0 /\ q.period # 0 => o.basis = q.basis)
  /\ \A o \in s : ~o.doubtful
-----------------------------------------------------------------------------
\* Mutant: parts are never compared with a total.
AnySum(parts, totals, whole) == TRUE

\* Parts add up to a total of each period, percentages to a hundred.
AddsUp(parts, totals, whole) ==
  IF \A o \in parts : o.unit = "percent"
    THEN whole \/ totals # {} => \A p \in Periods(parts) : Sum(At(parts, p)) = 100
    ELSE whole \/ totals # {} =>
           /\ Periods(totals) = Periods(parts) /\ Cardinality(totals) = Cardinality(Periods(parts))
           /\ \A t \in totals : t.grounded /\ ~t.doubtful /\ t.value = Sum(At(parts, t.period))
           /\ \A t \in totals : \A o \in parts : t.unit = o.unit /\ t.section = o.section

\* composition_data: what may be drawn as parts of a whole.
Composes(kind, parts, totals) ==
  LET categories == {o.category : o \in parts} IN
  /\ \A o \in parts : o.value >= 0 /\ o.period # 0 /\ o.grounded /\ ~o.doubtful /\ o.category # ""
  /\ \A o, q \in parts : o.unit = q.unit /\ o.section = q.section /\ o.basis = q.basis
  /\ Cardinality(categories) \in 2..8
  /\ IF kind = "ring" THEN Cardinality(Periods(parts)) = 1 ELSE Cardinality(Periods(parts)) >= 2
  /\ Cardinality(parts) = Cardinality(categories) * Cardinality(Periods(parts))
  /\ \A p \in Periods(parts) : {o.category : o \in At(parts, p)} = categories /\ Sum(At(parts, p)) > 0
  /\ AddsUp(parts, totals, kind \in {"percent", "ring"})

Composed(kind, parts, totals) == [kind |-> kind, type |-> kind, of |-> parts, totals |-> totals]
\* The compositions of a measure: its shares or amounts, those of its last period, the amounts as shares.
CompositionsOf(m) ==
  LET totals == {o \in Metric(m) : o.category = "total"}
      parts == Metric(m) \ totals
      last == Max(Periods(parts))
      kind == IF Cardinality(Periods(Metric(m))) = 1 THEN "ring"
              ELSE IF \A o \in Metric(m) : o.unit = "percent" THEN "percent" ELSE "stacked"
      first == IF parts # {} /\ Composes(kind, parts, totals) THEN {Composed(kind, parts, totals)} ELSE {}
      ring == IF first # {} /\ kind # "ring" /\ Composes("ring", At(parts, last), At(totals, last))
                THEN {Composed("ring", At(parts, last), At(totals, last))} ELSE {}
      shares == IF first # {} /\ kind = "stacked" /\ Composes("percent", parts, totals)
                  THEN {Composed("percent", parts, totals)} ELSE {}
  IN  first \cup ring \cup shares
Compositions == UNION {CompositionsOf(m) : m \in {o.metric : o \in facts}}

\* presentation_compositions: one view of the same values, as shares where there are shares.
Presented == {c \in Compositions : c.kind = "percent" \/ ~\E d \in Compositions : d.of = c.of /\ d.kind = "percent"}
-----------------------------------------------------------------------------
\* The kind of a chart over periods: the one that is used least.
AreaEligible(s) ==
  Cardinality(s) >= 4 /\ (\A o \in s : o.value >= 0) /\ Periods(s) = Min(Periods(s))..Max(Periods(s))
PeriodType(s) ==
  LET Used(t) == Cardinality({i \in DOMAIN output : output[i].type = t})
  IN  IF Cardinality(Periods(s)) <= 2 THEN "bar"
      ELSE IF AreaEligible(s) /\ Used("area") < Used("line") /\ Used("area") < Used("bar") THEN "area"
      ELSE IF Used("bar") < Used("line") THEN "bar" ELSE "line"
CompleteShare(s) ==
  /\ Cardinality(s) \in 2..8
  /\ \A o \in s : o.value >= 0 /\ o.unit = "percent"
  /\ Sum(s) \in 98..102
\* Two measures at the same times and places, where neither contradicts itself.
Context(o) == <<o.period, o.category>>
Pairs(s, x, y) ==
  LET In(m, c) == {o \in s : o.metric = m /\ Context(o) = c}
      both == {c \in {Context(o) : o \in s} : \A m \in {x, y} : In(m, c) # {} /\ ~Conflict(In(m, c))}
      pairs == {<<Strongest(In(x, c)), Strongest(In(y, c))>> : c \in both}
      Of(i) == {<<a[i].unit, a[i].basis>> : a \in pairs}
  IN  IF Cardinality(Of(1)) = 1 /\ Cardinality(Of(2)) = 1 THEN pairs ELSE {}
Relation(t) ==
  LET pairs == Pairs(t.of \cap facts, t.x, t.y) IN
  IF t.kind = "relation" /\ t.x # t.y /\ Cardinality(pairs) >= MinPairs
     /\ \A i \in 1..2 : Cardinality({a[i].value : a \in pairs}) >= 3
    THEN UNION {Range(a) : a \in pairs} ELSE {}

Chart(kind, type, s) == [kind |-> kind, type |-> type, of |-> s, totals |-> {}]
Add(chart) == output' = Append(output, chart) /\ seen' = seen \cup {chart.of}
Metrics(s) == {o.metric : o \in s}

\* A requested series: a composition of exactly its values, or the best series of them.
FromRequest(s) ==
  LET usable == {o \in s \cap facts : o.grounded}
      series == Best(usable)
      parts == {c \in Presented : c.of \cup c.totals = s}
  IN  IF parts # {} THEN parts
      ELSE IF Conflicting(usable) \/ ~Chartable(series) THEN {}
      ELSE {Chart("requested", PeriodType(series), series)}

PlanRequested ==
  /\ pc = "requested" /\ next <= Len(requested)
  /\ next' = next + 1
  /\ LET fresh == {c \in FromRequest(requested[next]) : c.of \notin seen} IN
     \/ \E c \in fresh :
          /\ Add(c)
          /\ metrics' = IF c.kind = "requested" THEN metrics \cup Metrics(c.of) ELSE metrics
     \/ fresh = {} /\ UNCHANGED <<output, seen, metrics>>
  /\ UNCHANGED <<document, tasks, remaining, groups, pc>>

AllRequested ==
  /\ pc = "requested" /\ next > Len(requested)
  /\ pc' = IF only THEN "close" ELSE "tasks"
  /\ UNCHANGED <<document, tasks, next, output, seen, metrics, remaining, groups>>

\* A plan of requested series only also has the compositions inside of what is requested.
CloseRequested ==
  /\ pc = "close"
  /\ LET more == {c \in Compositions : c.of \subseteq UNION Range(requested) /\ c.of \notin seen} IN
     \/ \E c \in more :
          /\ \A d \in more : Cardinality(c.of) >= Cardinality(d.of)
          /\ Add(c) /\ UNCHANGED pc
     \/ more = {} /\ pc' = "draw" /\ UNCHANGED <<output, seen>>
  /\ UNCHANGED <<document, tasks, next, metrics, remaining, groups>>

\* The values of a task: a relationship, a series where they have periods, else what is compared at one time.
TaskValues(t) ==
  IF Relation(t) # {} THEN Relation(t)
  ELSE IF Cardinality(Periods(t.of \cap facts) \ {0}) >= 2 THEN Best(t.of \cap facts)
  ELSE t.of \cap facts
TaskType(t, s) ==
  CASE Relation(t) # {} -> "scatter"
    [] Relation(t) = {} /\ t.kind = "share" -> IF CompleteShare(s) THEN "pie" ELSE "bar"
    [] Relation(t) = {} /\ t.kind = "rank" -> "bar"
    [] Relation(t) = {} /\ t.kind = "relation" /\ Cardinality(Periods(s) \ {0}) < 2 -> "bar"
    [] OTHER -> PeriodType(s)
PlanTask ==
  /\ pc = "tasks" /\ Len(output) < Maximum
  /\ \E t \in {x \in tasks : \A y \in tasks : x.score >= y.score} :
       LET s == TaskValues(t) IN
       /\ tasks' = tasks \ {t}
       /\ IF t.answered /\ Chartable(s) /\ s \notin seen
            THEN /\ Add(Chart("task", TaskType(t, s), s))
                 /\ metrics' = metrics \cup Metrics(s)
            ELSE UNCHANGED <<output, seen, metrics>>
  /\ UNCHANGED <<document, next, remaining, groups, pc>>

TasksPlanned ==
  /\ pc = "tasks" /\ (tasks = {} \/ Len(output) >= Maximum)
  /\ pc' = "compositions"
  /\ UNCHANGED <<document, tasks, next, output, seen, metrics, remaining, groups>>

\* The largest compositions there is room for, unless their values are shown already.
AddCompositions ==
  /\ pc = "compositions"
  /\ LET room == IF Len(output) < Maximum THEN Maximum - Len(output) ELSE 0
         n == Min({room, Cardinality(Compositions)})
         Larger(c, d) == Cardinality(c.of) > Cardinality(d.of)
     IN  \E most \in kSubset(n, Compositions) :
           /\ \A c \in most : \A d \in Compositions \ most : ~Larger(d, c)
           /\ \E fresh \in SUBSET {c \in most : c.of \notin seen} :
                /\ {c.of : c \in fresh} = {c.of : c \in most} \ seen
                /\ \A c, d \in fresh : c.of = d.of => c = d
                /\ output' = output \o SetToSortSeq(fresh, Larger)
                /\ seen' = seen \cup {c.of : c \in fresh}
                /\ metrics' = metrics \cup UNION {Metrics(c.of) : c \in fresh}
  /\ pc' = "reported"
  /\ UNCHANGED <<document, tasks, next, remaining, groups>>

\* Mutant: any metric may be reported.
AnyMetric == Metrics(facts)
\* Metrics that no chart shows yet.
Unseen == Metrics(facts) \ metrics

Reportable == {m \in Unseen : LET s == Best(Metric(m)) IN
                 ~Conflicting(Metric(m)) /\ Chartable(s) /\ \A o \in s : o.grounded}
AddReported ==
  /\ pc = "reported" /\ Len(output) < Maximum
  /\ \E m \in Reportable :
       LET s == Best(Metric(m)) IN
       /\ Add(Chart("reported", PeriodType(s), s))
       /\ metrics' = metrics \cup {m}
  /\ UNCHANGED <<document, tasks, next, remaining, groups, pc>>

PlanDone ==
  /\ pc = "reported" /\ (Reportable = {} \/ Len(output) >= Maximum)
  /\ pc' = "draw"
  /\ UNCHANGED <<document, tasks, next, output, seen, metrics, remaining, groups>>
-----------------------------------------------------------------------------
\* A chart is worth a page when it has two points that differ; compositions always are.
Usable(c) ==
  /\ \A o \in c.of : o.table \notin Ambiguous
  /\ \/ c.kind \in {"percent", "ring", "stacked"}
     \/ /\ Cardinality({<<o.period, o.category, o.section>> : o \in c.of}) >= 2
        /\ Cardinality(Periods(c.of) \ {0}) >= 2 => Cardinality({o.value : o \in c.of}) >= 2
Draw ==
  /\ pc = "draw"
  /\ remaining' = SelectSeq(output, Usable)
  /\ pc' = "group"
  /\ UNCHANGED <<document, tasks, next, output, seen, metrics, groups>>

\* _charts_belong_together: the same times, and one table, one measure, or measures that go together.
Tables(c) == {t \in {o.table : o \in c.of} : \A o \in c.of : o.table = t}
Units(c) == {o.unit : o \in c.of}
SameTimes(a, b) ==
  LET p == Periods(a.of) \ {0}
      q == Periods(b.of) \ {0}
      snapshot == \E x \in {p, q} : Cardinality(x) = 1 /\ x \subseteq p \cap q
  IN  \/ p = {}
      \/ q = {}
      \/ 5 * Cardinality(p \cap q) >= 3 * Cardinality(p \cup q)
      \/ snapshot /\ Tables(a) \cap Tables(b) # {}
AllPairs(a, b, related) == \A m \in Metrics(a.of) : \A n \in Metrics(b.of) : {m, n} \in related
Belong(a, b) ==
  /\ a.of # b.of /\ SameTimes(a, b)
  /\ \/ Tables(a) \cap Tables(b) # {}
     \/ /\ (Metrics(a.of) \cup Metrics(b.of)) \cap Generic = {}
        /\ \/ Metrics(a.of) = Metrics(b.of) /\ Units(a) = Units(b)
           \/ AllPairs(a, b, Related)
           \/ /\ AllPairs(a, b, Kin) /\ Units(a) = Units(b)
              /\ {o.page : o \in a.of} \cap {o.page : o \in b.of} # {}

\* Mutant: a chart joins a group when it belongs to its first chart.
JoinedToFirst(g, c) == IF Len(g) < MaxGroup /\ Belong(g[1], c) THEN Append(g, c) ELSE g

\* A chart joins a group when it belongs with every chart of it and the heading has room.
Joined(g, c) ==
  IF /\ Len(g) < MaxGroup
     /\ Cardinality(UNION {Metrics(x.of) : x \in Range(g)} \cup Metrics(c.of)) <= MaxTitle
     /\ \A x \in Range(g) : Belong(x, c)
    THEN Append(g, c) ELSE g

Group ==
  /\ pc = "group" /\ remaining # <<>>
  /\ LET group == FoldLeft(Joined, <<Head(remaining)>>, Tail(remaining)) IN
     /\ groups' = Append(groups, group)
     /\ remaining' = SelectSeq(remaining, LAMBDA c : c \notin Range(group))
  /\ UNCHANGED <<document, tasks, next, output, seen, metrics, pc>>

Grouped ==
  /\ pc = "group" /\ remaining = <<>>
  /\ pc' = "done"
  /\ UNCHANGED <<document, tasks, next, output, seen, metrics, remaining, groups>>

Init ==
  /\ \E d \in Documents :
       facts = d.facts /\ requested = d.requested /\ only = d.only /\ tasks = d.tasks
  /\ next = 1 /\ output = <<>> /\ seen = {} /\ metrics = {}
  /\ remaining = <<>> /\ groups = <<>> /\ pc = "requested"

Next ==
  \/ PlanRequested \/ AllRequested \/ CloseRequested \/ PlanTask \/ TasksPlanned \/ AddCompositions
  \/ AddReported \/ PlanDone \/ Draw \/ Group \/ Grouped

Spec == Init /\ [][Next]_vars
-----------------------------------------------------------------------------
Charts == Range(output)

(* A chart over periods shows one fact per period, all of which compare: no  *)
(* chart has the values of two bases, units or sections of a measure, nor a  *)
(* value that another of the values it was chosen from contradicts.          *)
SeriesCompare ==
  \A c \in {x \in Charts : x.kind \in {"requested", "reported"}} :
    /\ Cardinality(Periods(c.of)) = Cardinality(c.of)
    /\ Cardinality({<<o.metric, o.unit, o.basis, o.section, o.category>> : o \in c.of}) = 1
    /\ \A o \in c.of : o.grounded /\ ~o.doubtful
    /\ \/ \E s \in Range(requested) : c.of \subseteq s /\ ~Conflicting({o \in s : o.grounded})
       \/ /\ c.kind = "reported"
          /\ \A o \in c.of : \A q \in SamePlace(facts, o) : Abs(q.value) = Abs(o.value)

(* The parts of a composition are all there is of the whole at each of its   *)
(* times: every category has a value and, where shares are shown, they add   *)
(* up to a hundred or to the total that is reported.                         *)
CompositionsWhole ==
  \A c \in {x \in Charts : x.kind \in {"percent", "ring", "stacked"}} :
    /\ \A o, q \in c.of : \E x \in c.of : x.period = o.period /\ x.category = q.category
    /\ \A o \in c.of : o.category # "total"
    /\ c.kind # "stacked" \/ c.totals # {} => \A p \in Periods(c.of) :
         {Sum(At(c.of, p))} =
           IF \A o \in c.of : o.unit = "percent" THEN {100} ELSE {o.value : o \in At(c.totals, p)}

(* No values are shown by two charts, and no more charts are planned than    *)
(* there is room for or were asked for.                                      *)
ShownOnce ==
  /\ \A i, j \in DOMAIN output : output[i].of = output[j].of => i = j
  /\ ~only => Len(output) <= Max({Maximum, Len(requested)})

(* The charts of a page belong to one another, each to each, and every chart *)
(* that shows something is on exactly one page.                              *)
PagesOfOneStory ==
  /\ \A i \in DOMAIN groups : \A j, k \in DOMAIN groups[i] : j < k => Belong(groups[i][j], groups[i][k])
  /\ pc = "done" =>
       \A c \in Charts : Usable(c) <=> Cardinality({i \in DOMAIN groups : c \in Range(groups[i])}) = 1
=============================================================================
