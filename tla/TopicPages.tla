------------------------------ MODULE TopicPages ------------------------------
(***************************************************************************)
(* The pages of the selected topics.  Every topic is bound to its series,     *)
(* their valid observations and the charts that show them; what no chart      *)
(* shows goes into tables, and a topic too large for one page is paginated.   *)
(* A model may replace the first page of a topic by an advanced view, the     *)
(* closing selects supported conclusions, and a deck omits the tables that    *)
(* repeat a chart (agent/presentation_plan_recovery.py,                        *)
(* agent/presentation_visual_enrichment.py,                                    *)
(* services/presentation_display_plan.py).                                     *)
(***************************************************************************)
EXTENDS Integers, SequencesExt, FiniteSetsExt

CONSTANTS
  Selections,     \* selected topics: sequences of sequences of series
  Points,         \* observations of each series, numbered by period
  Fact,           \* source fact of each observation
  Charts,         \* planned charts, in order: shown and total observations, composition
  Unsound,        \* choices of observations that failed validation
  Conclusions,    \* conclusions in the order of their priority: observations of each
  PageCharts,     \* charts of a page
  BlockRows,      \* rows of a table
  RowLimit,       \* rows a page may carry next to its charts
  WideTopic,      \* series up to which a topic is charted
  Bullets         \* conclusions of the closing

VARIABLES
  pc,
  selection,      \* the selected topics
  valid,          \* valid observations
  usable,         \* charts the deck may draw
  bound,          \* topics that have been bound
  pages,
  supported,      \* conclusions whose own observations support them
  closing,
  enriched        \* topics with an advanced view

vars == <<pc, selection, valid, usable, bound, pages, supported, closing, enriched>>

Observations == UNION {Points[s] : s \in DOMAIN Points}
Sorted(s) == IF s = {} THEN <<>> ELSE SelectSeq([i \in 1..Max(s) |-> i], LAMBDA i : i \in s)

\* A page shows its charts, and rows in tables; "view" is a table of the whole topic.
Page(t, charts, tables, kind) == [topic |-> t, charts |-> charts, tables |-> tables, kind |-> kind]

Charted(c) == Charts[c].shown \cup Charts[c].totals
ShownBy(charts) == UNION {Charted(c) : c \in Range(charts)}
Visible(p) == ShownBy(p.charts) \cup UNION {Range(b) : b \in Range(p.tables)}

PagesOf(t) == SelectSeq(pages, LAMBDA p : p.topic = t)
ShownFor(t) == UNION {Visible(p) : p \in Range(PagesOf(t))}

-----------------------------------------------------------------------------
(* Evidence of a topic *)

Members(t) == UNION {Points[s] : s \in Range(selection[t])} \cap valid

\* A composition covers the series all of whose observations it shows.
Covered(c, t) == {s \in Range(selection[t]) : Points[s] \subseteq Charted(c)}

Compositions(t) ==
  {c \in usable : Charts[c].composed /\ Charts[c].shown \subseteq Members(t) /\ Covered(c, t) # {}}

\* The largest composition comes first.
Larger(c, d) ==
  LET n == Cardinality(Charts[c].shown)  k == Cardinality(Charts[d].shown)
  IN n > k \/ (n = k /\ c < d)

\* Then the first unused chart of each series that is not visible yet.
WithSeries(t, acc, s) ==
  LET fitting == {c \in usable \ Range(acc.charts) :
                    Charts[c].shown # {} /\ Charts[c].shown \subseteq Points[s] \cap Members(t)}
  IN IF s \in acc.visible \/ fitting = {} THEN acc
     ELSE [charts |-> Append(acc.charts, Min(fitting)), visible |-> acc.visible \cup {s}]

ChartsOf(t) ==
  LET first == SetToSortSeq(Compositions(t), Larger)
      start == IF first = <<>> THEN [charts |-> <<>>, visible |-> {}]
               ELSE [charts |-> <<Head(first)>>, visible |-> Covered(Head(first), t)]
  IN FoldLeft(LAMBDA acc, s : WithSeries(t, acc, s), start, selection[t])

\* Mutant: a series with a chart needs no rows.
SupportingUncharted(t) ==
  LET plan == ChartsOf(t)
      rest == Members(t) \ ShownBy(plan.charts)
      Rows(s) == IF s \in plan.visible THEN {} ELSE Points[s] \cap rest
  IN FoldLeft(LAMBDA rows, s : rows \o Sorted(Rows(s) \ Range(rows)), <<>>, selection[t])

\* What no chart of the topic shows stays visible in rows, series by series.
Supporting(t) ==
  LET rest == Members(t) \ ShownBy(ChartsOf(t).charts)
  IN FoldLeft(LAMBDA rows, s : rows \o Sorted((Points[s] \cap rest) \ Range(rows)), <<>>, selection[t])

-----------------------------------------------------------------------------
(* Pagination *)

Ceil(n, k) == (n + k - 1) \div k

\* Even groups in order, the larger ones first (balanced_groups).
Balanced(items) ==
  LET n == Len(items)
      k == Max({1, Ceil(n, PageCharts)})
      End(i) == i * (n \div k) + Min({i, n % k})
  IN SelectSeq([i \in 1..k |-> SubSeq(items, End(i - 1) + 1, End(i))], LAMBDA g : g # <<>>)

Blocks(rows) ==
  [i \in 1..Ceil(Len(rows), BlockRows) |->
     SubSeq(rows, (i - 1) * BlockRows + 1, Min({i * BlockRows, Len(rows)}))]

TopicPagesOf(t) ==
  LET charts == ChartsOf(t).charts  rows == Supporting(t)  groups == Balanced(charts)  blocks == Blocks(rows)
  IN IF Len(charts) > PageCharts \/ Len(rows) > RowLimit
     THEN [i \in DOMAIN groups |-> Page(t, groups[i], <<>>, "part")]
            \o [i \in DOMAIN blocks |-> Page(t, <<>>, <<blocks[i]>>, "part")]
     ELSE <<Page(t, charts, blocks, "whole")>>

\* A wide topic may be one table or matrix; one that cannot be charted and is too
\* long to be shown completely is left out.
PageChoices(t) ==
  LET members == Members(t)
      wide == Len(selection[t]) > WideTopic
  IN IF Cardinality(members) < 2 THEN {<<>>}
     ELSE (IF wide THEN {<<Page(t, <<>>, <<Sorted(members)>>, "view")>>} ELSE {})
          \cup {IF ChartsOf(t).charts = <<>> /\ Cardinality(members) > RowLimit THEN <<>> ELSE TopicPagesOf(t)}

-----------------------------------------------------------------------------
(* Compilation *)

\* The next topic: an unreliable series excludes it.
Bind ==
  /\ pc = "binding" /\ bound < Len(selection)
  /\ bound' = bound + 1
  /\ \E new \in PageChoices(bound + 1) \cup {<<>>} : pages' = pages \o new
  /\ UNCHANGED <<pc, selection, valid, usable, supported, closing, enriched>>

\* Topics of a conclusion: those whose observations it uses.
Concerns(c) == {p.topic : p \in {q \in Range(pages) : Conclusions[c] \cap Members(q.topic) # {}}}

\* Conclusions that concern a topic of their own precede the others.
Representatives(cs) ==
  FoldLeft(LAMBDA acc, c : IF Concerns(c) \subseteq acc.topics
                           THEN [acc EXCEPT !.rest = Append(@, c)]
                           ELSE [acc EXCEPT !.first = Append(@, c), !.topics = @ \cup Concerns(c)],
           [first |-> <<>>, rest |-> <<>>, topics |-> {}], cs)

FirstOf(s) == SubSeq(s, 1, Min({Bullets, Len(s)}))

\* Mutant: conclusions in the order of their priority.
OrderedByPriority(cs) == cs

Ordered(cs) == LET split == Representatives(cs) IN split.first \o split.rest

Concluding == SelectSeq(Sorted(supported), LAMBDA c : Concerns(c) # {})

Compile ==
  /\ pc = "binding" /\ bound = Len(selection)
  /\ IF pages = <<>> THEN pc' = "failed" /\ UNCHANGED closing
     ELSE pc' \in {"compiled", "failed"} /\ closing' = FirstOf(Ordered(Concluding))
  /\ UNCHANGED <<selection, valid, usable, bound, pages, supported, enriched>>

\* No topic could be compiled: generic pages of the usable charts, or some values.
Fallback ==
  /\ pc = "failed"
  /\ pages' = (LET groups == Balanced(Sorted(usable))
               IN IF usable # {} THEN [i \in DOMAIN groups |-> Page(0, groups[i], <<>>, "whole")]
                  ELSE <<Page(0, <<>>, <<FirstOf(Sorted(valid))>>, "whole")>>)
  /\ pc' = "compiled" /\ closing' = <<>>
  /\ UNCHANGED <<selection, valid, usable, bound, supported, enriched>>

-----------------------------------------------------------------------------
(* Advanced views and the deck *)

\* A view replaces the first page of its topic, if it shows all that page shows.
Enrich ==
  /\ pc = "compiled"
  /\ \E i \in DOMAIN pages :
       LET t == pages[i].topic
       IN /\ t \in DOMAIN selection \ enriched
          /\ \A j \in 1..(i - 1) : pages[j].topic # t
          /\ \E chosen \in SUBSET Members(t) :
               /\ chosen # {} /\ Visible(pages[i]) \subseteq chosen
               /\ pages' = [pages EXCEPT ![i] = Page(t, <<>>, <<Sorted(chosen)>>, "view")]
          /\ enriched' = enriched \cup {t}
  /\ UNCHANGED <<pc, selection, valid, usable, bound, supported, closing>>

Facts(obs) == {Fact[o] : o \in obs}

\* A table of complete facts repeats a chart that an earlier page of its topic shows.
Repeats(i) ==
  LET p == pages[i]
  IN /\ p.topic # 0 /\ p.charts = <<>> /\ p.kind # "view"
     /\ Cardinality(Visible(p)) >= 2
     /\ \E j \in 1..(i - 1) : \E c \in Range(pages[j].charts) :
          pages[j].topic = p.topic /\ Facts(Charts[c].shown) = Facts(Visible(p))

\* An owner with another message keeps the table.
Display ==
  /\ pc = "compiled"
  /\ \E omitted \in SUBSET {i \in DOMAIN pages : Repeats(i)} :
       LET shown == Sorted(DOMAIN pages \ omitted)
       IN pages' = [k \in DOMAIN shown |-> pages[shown[k]]]
  /\ pc' = "rebalancing"
  /\ UNCHANGED <<selection, valid, usable, bound, supported, closing, enriched>>

ChartOnly(p) == p.topic # 0 /\ p.charts # <<>> /\ p.tables = <<>> /\ p.kind # "view"

\* Adjacent chart pages of a topic with one message share their charts evenly, on as
\* many pages.
Rebalance ==
  /\ pc = "rebalancing" /\ pc' = "displayed"
  /\ LET Run(t) == Sorted({i \in DOMAIN pages : pages[i].topic = t /\ ChartOnly(pages[i])})
         Even(t) == Balanced(FlattenSeq([k \in DOMAIN Run(t) |-> pages[Run(t)[k]].charts]))
         At(i) == CHOOSE k \in DOMAIN Run(pages[i].topic) : Run(pages[i].topic)[k] = i
     IN \/ UNCHANGED pages
        \/ pages' = [i \in DOMAIN pages |->
                    IF ChartOnly(pages[i]) /\ Len(Even(pages[i].topic)) = Len(Run(pages[i].topic))
                    THEN [pages[i] EXCEPT !.charts = Even(pages[i].topic)[At(i)]] ELSE pages[i]]
  /\ UNCHANGED <<selection, valid, usable, bound, supported, closing, enriched>>

Init ==
  /\ pc = "binding" /\ selection \in Selections
  /\ \E bad \in Unsound : valid = Observations \ bad
  /\ usable \in SUBSET DOMAIN Charts
  /\ bound = 0 /\ pages = <<>> /\ closing = <<>> /\ enriched = {}
  /\ supported \in SUBSET DOMAIN Conclusions

Next == Bind \/ Compile \/ Fallback \/ Enrich \/ Display \/ Rebalance

Spec == Init /\ [][Next]_vars

-----------------------------------------------------------------------------
(* A topic that has pages shows every valid observation of its series on them,     *)
(* or one that reports the same fact, whether it was charted, tabulated,           *)
(* paginated, replaced by a view or omitted as a repetition.                       *)
SelectedEvidenceShown ==
  pc \in {"compiled", "rebalancing", "displayed"} =>
    \A p \in Range(pages) :
      p.topic # 0 => Facts(Members(p.topic)) \subseteq Facts(ShownFor(p.topic))

(* Every topic that a supported conclusion concerns is represented in the closing,  *)
(* unless each of its places went to a conclusion on a topic of its own.            *)
ClosingRepresents ==
  pc = "compiled" /\ closing # <<>> =>
    LET Before(k) == UNION {Concerns(closing[j]) : j \in 1..(k - 1)}
    IN \A c \in Range(Concluding) :
         \/ Concerns(c) \subseteq Before(Len(closing) + 1)
         \/ Len(closing) = Bullets /\ \A k \in DOMAIN closing : ~(Concerns(closing[k]) \subseteq Before(k))
=============================================================================
