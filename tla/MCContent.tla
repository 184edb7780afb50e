------------------------------ MODULE MCContent ------------------------------
(***************************************************************************)
(* From a document to its copy.  Two sessions with pools share the cache of  *)
(* validated replies; the parts that read a document into evidence and those *)
(* that write copy from it run each on an instance of its own: they do not   *)
(* share state, EditorialPipeline composes them.                             *)
(***************************************************************************)
EXTENDS ContentProofs, TLC

CONSTANTS w1, w2, w3, A, B, p1, p2, m1, m2, f1, f2, b1, b2, c1, c2, o1, o2, i1, i2

\* The part under check, and the variables the parts share: one of them runs.
VARIABLES part, partPc, s1, s2, s3, s4, s5, s6, s7, s8, s9, s10

\* The one state of the topics while another part runs.
Unasked ==
  owned = {} /\ kinds.foreign \cup kinds.unusable \cup kinds.ambiguous \cup kinds.paged = {}

MCOwner == [w \in {w1, w2, w3} |-> IF w = w3 THEN B ELSE A]

\* Routes of a document of six pages, its outline and the targets a model may name in it.
Routes == {<<<<1, 2>>>>, <<<<1, 3>>, <<3, 4>>>>, <<<<5, 9>>>>, <<<<1, 3>>, <<2, 4>>, <<5, 6>>>>,
           <<<<1, 5>>>>, <<<<6, 6>>, <<1, 3>>, <<2, 3>>>>}
Outline == {<<1, 3>>, <<4, 6>>}
Further == {<<1, 2>>, <<2, 2>>, <<2, 3>>, <<3, 4>>, <<4, 5>>, <<5, 5>>, <<5, 6>>}

\* A chunk and its first half can be split.
Cuttable == {<<>>, <<1>>}

\* Tables on following pages that do and do not continue one another, two on a page
\* included; lines of text with series.
Part(p, periods, a, proved, s) ==
  [page |-> p, periods |-> periods, audit |-> a, proved |-> proved, scale |-> s, label |-> 0]
Labelled(p, l) == [p EXCEPT !.label = l]
Documents ==
  {<<Part(1, {1}, "audited", TRUE, 3)>>,
   <<Part(1, {1}, "audited", TRUE, 3), Part(2, {}, "audited", TRUE, 0), Part(3, {2}, "audited", TRUE, 0)>>,
   <<Part(1, {}, "audited", TRUE, 0), Part(2, {1}, "audited", TRUE, 3), Part(3, {2}, "audited", TRUE, 0)>>,
   <<Part(1, {1}, "audited", TRUE, 0), Part(2, {1}, "none", TRUE, 3), Part(4, {1}, "none", TRUE, 3)>>,
   <<Part(1, {1}, "audited", TRUE, 0), Part(2, {1}, "audited", FALSE, 3)>>,
   <<Part(1, {}, "audited", TRUE, 0), Part(2, {1}, "audited", TRUE, 3), Part(2, {2}, "audited", TRUE, 0)>>,
   <<Part(1, {1}, "audited", TRUE, 0), Labelled(Part(2, {}, "audited", TRUE, 3), 1),
     Labelled(Part(2, {1}, "audited", TRUE, 0), 2), Labelled(Part(2, {2}, "audited", TRUE, 0), 1)>>}
TextLine(k, o, p) == [kind |-> k, of |-> o, period |-> p]
TextPages ==
  UNION {[1..n -> {TextLine("label", 1, 0), TextLine("label", 2, 0), TextLine("period", 0, 1),
                   TextLine("period", 0, 2), TextLine("other", 0, 0), TextLine("sentence", 1, 1)}] : n \in 1..5}

\* Lines without ruling: full rows that agree and do not, sparse rows, tiers of years.
GridLine(k, e, o) == [kind |-> k, edges |-> e, of |-> o]
Years == GridLine("years", <<20, 40, 60>>, 0)
OneYear == GridLine("years", <<40>>, 0)
FiscalYears == GridLine("years", <<20, 40, 60>>, 1)
GridLines ==
  {GridLine("row", <<20, 40, 60>>, 1), GridLine("row", <<22, 40, 60>>, 0), GridLine("row", <<20, 52, 60>>, 0),
   GridLine("row", <<40>>, 0), GridLine("row", <<40, 42>>, 0), GridLine("row", <<50>>, 1),
   GridLine("row", <<20, 60>>, 1), GridLine("text", <<>>, 0), Years, OneYear, FiscalYears, GridLine("period", <<>>, 1),
   GridLine("prose", <<>>, 0)}
Above == {<<>>, <<Years>>, <<Years, GridLine("period", <<>>, 2)>>}

\* Lines inside ruling, after two headings and a row; small print below.
RuledLine(k, y, c, d) == [kind |-> k, key |-> y, colon |-> c, indent |-> d]
Heading(y) == RuledLine("head", y, FALSE, 0)
Inside ==
  {Heading(1), Heading(2), RuledLine("date", 0, FALSE, 0), RuledLine("label", 0, FALSE, 0),
   RuledLine("label", 0, TRUE, 0), RuledLine("label", 0, FALSE, 1), RuledLine("row", 0, FALSE, 1),
   RuledLine("row", 0, FALSE, 0), RuledLine("text", 0, FALSE, 0)}
Regions == {<<Heading(1), Heading(2), RuledLine("row", 0, FALSE, 0)>> \o s : s \in UNION {[1..n -> Inside] : n \in 0..4}}
Note(k) == RuledLine(k, 0, FALSE, 0)
SmallPrint == {<<Note("marker"), Note("small"), Note("marker")>>, <<Note("marker"), Note("page"), Note("marker")>>,
               <<Note("small"), Note("marker")>>}

\* What the four readers may find in the same and in different places of a page.
Table(m, a, c, ms, s, se, h) ==
  [method |-> m, area |-> a, cells |-> c, metrics |-> ms, score |-> s, series |-> se, heads |-> h]
RuledTables == {<<>>, <<Table("ruled", 1, {1, 2}, {1}, 3, TRUE, 0)>>}
FoundTables == {<<>>, <<Table("found", 1, {1}, {1}, 1, FALSE, 0)>>,
                <<Table("found", 2, {3}, {2}, 3, TRUE, 0), Table("found", 1, {1, 2}, {1}, 1, FALSE, 0)>>}
TextTables ==
  {<<>>, <<Table("borderless", 1, {1, 2}, {1, 3}, 2, TRUE, 0)>>, <<Table("borderless", 2, {3, 4}, {2}, 5, TRUE, 0)>>,
   <<Table("borderless", 2, {3, 5}, {3}, 2, TRUE, 0), Table("borderless", 3, {6}, {3}, 2, TRUE, 0)>>,
   <<Table("borderless", 1, {2, 7}, {1}, 9, TRUE, 0)>>}
GridTables == {<<>>, <<Table("grid", 4, {8}, {}, 0, FALSE, 2)>>,
               <<Table("grid", 2, {9}, {}, 0, FALSE, 0), Table("grid", 3, {8}, {}, 0, FALSE, 0)>>}


\* Introductions of the layout: paragraphs of one to three sentences in one or two groups.
Copy(t, s) == [text |-> t, facts |-> Range(t), says |-> s]
Paragraphs == {Copy(<<f1>>, {f1}), Copy(<<f2>>, {f2}), Copy(<<f1, f2>>, {f1, f2}),
           Copy(<<f1, f1, f1>>, {}), Copy(<<f2>>, {})}
Short == {Copy(<<f1>>, {f1}), Copy(<<f2>>, {f2})}
Wide(t) == Copy(t, Range(t))
Grid == <<Wide(<<f1, f2>>), Wide(<<f2, f1>>), Wide(<<f1, f1>>)>>
Tall == <<Wide(<<f1, f1, f1>>), Wide(<<f1, f2>>), Wide(<<f2, f1>>)>>
GroupOf(items, place) == [items |-> items, placement |-> place]
Groups == {<<p>> : p \in Paragraphs} \cup {<<p, q>> : p, q \in Paragraphs}
LayoutDrafts ==
  {<<GroupOf(s, "body")>> : s \in Groups \cup {<<p, q, r>> : p, q, r \in Short} \cup {Grid, Tall}}
    \cup {<<GroupOf(s, "body"), GroupOf(<<q>>, t)>> :
            s \in Groups \cup {Tall}, q \in Short, t \in {"body", "appendix"}}
    \cup {<<GroupOf(<<p>>, "body"), GroupOf(<<q, r>>, "body")>> : p \in Paragraphs, q, r \in Short}

\* Slides of a planned deck: with and without evidence of their own or in blocks, sound,
\* repairable and unsupported.
Slide(c, o, i, y) == [charts |-> c, obs |-> o, insights |-> i, blocks |-> <<>>, copy |-> y]
BlockOf(c, o, i)  == [charts |-> c, obs |-> o, insights |-> i]
PlanDrafts ==
  {Slide({}, {}, {}, "sound"), Slide({c1}, {}, {}, "sound")}
    \cup {Slide(c, {}, {i1}, y) : c \in {{}, {c1}}, y \in {"sound", "fixable"}}
    \cup {Slide({}, {o1}, {i2}, "sound"), Slide({c1, c2}, {}, {i2}, "claim"),
          Slide({}, {o1, o2}, {}, "sound")}
    \cup {[Slide({}, {}, {i1}, "sound") EXCEPT !.blocks = <<BlockOf({}, {o1}, {i2})>>],
          [Slide({}, {}, {}, "sound") EXCEPT !.blocks = <<BlockOf({c1}, {}, {i1}), BlockOf({c2}, {o2}, {i2})>>]}

\* Series of every family over pairs of values, and slides of one or two claims about them.
SeriesOf(b, v) == [basis |-> b, values |-> v, agrees |-> TRUE]
FactOf(f, s) == [family |-> f, series |-> s]
Movements == {<<1, 2>>, <<2, 1>>, <<-1, -2>>, <<-2, -1>>, <<1, -1>>, <<-1, 1>>, <<1, 1>>}
Measured ==
  {FactOf(f, <<SeriesOf("FY", v)>>) :
     f \in {"expense", "cash", "profit", "loss", "gain", "deficit", "standard"}, v \in Movements}
    \cup {FactOf("standard", <<SeriesOf("6M", <<1, 2>>), SeriesOf("FY", v)>>) : v \in {<<1, 2>>, <<2, 1>>}}
    \cup {FactOf("loss", <<SeriesOf("FY", v), SeriesOf("6M", <<-1, -2>>)>>) : v \in {<<-1, -2>>, <<-2, -1>>}}
    \cup {FactOf("standard", <<SeriesOf("FY", <<3, 1, 2>>)>>),
          FactOf("standard", <<[SeriesOf("FY", <<1, 2>>) EXCEPT !.agrees = FALSE]>>)}
Evidence == {("m" :> a) @@ ("o" :> b) :
               a \in Measured, b \in {FactOf("standard", <<SeriesOf("FY", <<1, 2>>)>>), FactOf("expense", <<SeriesOf("FY", <<2, 1>>)>>)}}
Word(w, of, on) == [word |-> w, of |-> of, on |-> on, range |-> <<>>, cross |-> FALSE, told |-> FALSE]
Claim ==
  {Word(w, {"m"}, on) :
     w \in {"increased", "decreased", "widened", "narrowed", "improved", "deteriorated", "positive",
            "negative", "to profit", "to loss", "loss narrowed", "loss widened"}, on \in {{}, {1}}}
    \cup {Word(w, {"m", "o"}, {}) : w \in {"increased", "decreased", "improved"}}
    \cup {[Word("decreased", {"m"}, {}) EXCEPT !.range = <<2, 3>>], [Word("increased", {"m"}, {}) EXCEPT !.told = TRUE],
          [Word("increased", {"m"}, {1, 2}) EXCEPT !.cross = TRUE], Word("increased", {"m"}, {1, 2}),
          Word("increased", {"m"}, {2})}
OtherClaims == {Word(w, {"m"}, {}) : w \in {"increased", "decreased", "loss widened"}} \cup {Word("decreased", {"o"}, {})}
ClaimedSlides == {<<<<a>>>> : a \in Claim} \cup {<<<<a, b>>>> : a \in Claim, b \in OtherClaims}
                   \cup {<<<<a>>, <<b, a>>>> : a, b \in OtherClaims}

\* Documents of a few series, a matrix of parts, and measures that do and do not go together.
Obs(id, m, p, v) ==
  [id |-> id, metric |-> m, unit |-> "amount", basis |-> IF p > 9 THEN "H" ELSE "FY", section |-> 1, category |-> "",
   period |-> p, value |-> v, signed |-> v < 0, table |-> 1, page |-> 1, confidence |-> 2,
   grounded |-> TRUE, doubtful |-> FALSE]
ChartTask(of, kind, score) == [of |-> of, kind |-> kind, score |-> score, answered |-> TRUE, x |-> "volume", y |-> "price"]
ChartDocument(fs, r, ts) == [facts |-> fs, requested |-> r, only |-> FALSE, tasks |-> ts]
Yearly(m, first, values, t) == {[Obs(first + p, m, p, values[p]) EXCEPT !.table = t] : p \in DOMAIN values}

Sales == {Obs(1, "sales", 1, -10), Obs(2, "sales", 2, -12), Obs(3, "sales", 11, -4), Obs(4, "sales", 12, -5)}
Second(v, c, n, u, g) ==
  [Obs(5, "sales", 2, v) EXCEPT !.table = 2, !.confidence = c, !.section = n, !.unit = u, !.grounded = g]
Costs == Yearly("cost", 5, <<4, 5, 6, 7>>, 3)
SeriesDocuments ==
  {ChartDocument(Sales \cup {Second(v, c, n, u, g)} \cup Costs, r, {}) :
     v \in {12, 13}, c \in {1, 3}, n \in {1, 2}, u \in {"amount", "percent"}, g \in BOOLEAN,
     r \in {<<>>, <<Sales>>, <<Costs, Sales \ {Obs(1, "sales", 1, -10)}>>}}
  \cup {ChartDocument((Sales \ {o}) \cup {[o EXCEPT !.doubtful = TRUE]} \cup Costs, <<Sales, Costs>>, {}) : o \in Sales}

Matrix(u, values) ==
  {[Obs(20 + i, "mix", 1 + ((i - 1) \div 3), values[i]) EXCEPT
      !.category = <<"a", "b", "total">>[1 + ((i - 1) % 3)], !.unit = u, !.table = 4] : i \in DOMAIN values}
Amounts == Matrix("amount", <<3, 4, 7, 5, 6, 11>>)
Mixes ==
  {Amounts, Matrix("amount", <<3, 4, 7, 5, 6, 12>>), Matrix("percent", <<40, 60, 100, 30, 70, 100>>),
   Matrix("percent", <<40, 50, 90, 30, 70, 100>>), Matrix("percent", <<40, 60, 100>>), Matrix("amount", <<3, 4, 7>>),
   {o \in Amounts : o.id # 25}, {o \in Amounts : o.category # "total"}}
MixDocuments ==
  {[ChartDocument(m \cup Costs, r, {t}) EXCEPT !.only = o] :
     m \in Mixes, o \in BOOLEAN, r \in {<<>>, <<Amounts, Costs>>},
     t \in {ChartTask({x \in Matrix("percent", <<40, 60, 100>>) : x.category # "total"}, "share", 2), ChartTask(Costs, "trend", 1)}}

Volumes == Yearly("volume", 30, <<8, 9, 10>>, 5)
Prices(t) == Yearly("price", 40, <<19, 18, 17>>, t)
Pieces == {[o EXCEPT !.page = 2] : o \in Yearly("units", 50, <<1, 2, 3, 4>>, 6)}
Flat == Yearly("flat", 60, <<5, 5>>, 7)
GroupDocuments ==
  UNION {{ChartDocument(Volumes \cup Prices(t) \cup Pieces \cup Flat \cup Costs, r, ts) :
     r \in {<<Prices(t), Volumes, Pieces>>, <<Flat>>},
     ts \in {{ChartTask(Volumes \cup Prices(t), "relation", 2), ChartTask({o \in Flat \cup Pieces : o.period # 2}, "rank", 1)},
             {ChartTask(Costs, "trend", 2), ChartTask({o \in Volumes \cup Pieces : o.period = 1}, "rank", 3)}}} : t \in {5, 6, 7}}
ChartDocuments == SeriesDocuments \cup MixDocuments \cup GroupDocuments
Complements == {{"price", "volume"}, {"price", "units"}}
Kindred == {{"volume", "cost"}, {"units"}}

\* Decks of crowded, thin and flawed slides, alone and beside one another.
Says(n, about, marks) == [name |-> n, topics |-> about, values |-> {}, marks |-> marks]
States(n, values, marks) == [Says(n, {}, marks) EXCEPT !.values = values]
Silent == Says("", {}, {})
Measure(topic, metric, period) ==
  [topic |-> topic, metric |-> metric, period |-> period, adjusted |-> metric = "adjusted"]
DeckFacts == (1 :> Measure("revenue", "sales", 1)) @@ (2 :> Measure("revenue", "sales", 2))
        @@ (3 :> Measure("cash", "cash", 1)) @@ (4 :> Measure("cash", "adjusted", 1))
PlotOf(obs, kind, readable, crowded) ==
  [observations |-> obs, kind |-> kind, readable |-> readable, crowded |-> crowded]
Plots == ("a" :> PlotOf({1, 2}, "bar", TRUE, TRUE)) @@ ("b" :> PlotOf({1}, "scatter", FALSE, FALSE))
      @@ ("c" :> PlotOf({3}, "scatter", FALSE, FALSE)) @@ ("d" :> PlotOf({3, 4}, "scatter", TRUE, FALSE))
Page(n, t, m, b, cs, bl, obs) ==
  [name |-> n, kind |-> "analysis", section |-> "1", themed |-> FALSE, layout |-> "auto", title |-> t,
   message |-> m, bullets |-> b, insights |-> {}, charts |-> cs, blocks |-> bl, observations |-> obs]
Block(cs, kind, obs, kpi) == [charts |-> cs, kind |-> kind, observations |-> obs, kpi |-> kpi]
OfSales == Says("sales", {"revenue"}, {})
OfCash == Says("cash", {"cash"}, {})
Marked(m) == Says("marked", {"cash"}, m)

Crowds ==
  {Page("crowd", OfSales, Silent, <<OfCash>>, <<"a", "b", "c">>, <<>>, {1, 4}),
   Page("crowd", OfSales, Silent, <<>>, <<"a", "b", "c", "d">>, <<>>, {}),
   Page("crowd", OfSales, Silent, <<>>, <<"a">>,
        <<Block(<<"c">>, "scatter", {}, FALSE), Block(<<"b", "d">>, "scatter", {4}, TRUE),
          Block(<<>>, "", {3}, FALSE)>>, {1}),
   Page("crowd", OfSales, OfCash, <<>>, <<"a", "x", "b", "c", "d">>, <<>>, {1})}
OddCopy == <<Says("b1", {}, {"short", "placeholder"}), Says("b2", {}, {"unnamed"}), Says("b3", {"cash"}, {})>>
OwnTitle == Says("own", {}, {"raw", "periods"})
Thins ==
  {Page("thin", OfCash, Silent, <<>>, <<>>, <<>>, {3}),
   Page("thin", OwnTitle, OfCash, <<>>, <<>>, <<>>, {3}),
   Page("thin", OwnTitle, Silent, OddCopy, <<>>, <<>>, {4}),
   [Page("thin", OfCash, Marked({"placeholder"}), OddCopy, <<>>, <<Block(<<>>, "", {4}, FALSE)>>, {})
      EXCEPT !.insights = {"i"}],
   [Page("thin", OwnTitle, OfCash, <<>>, <<>>, <<>>, {}) EXCEPT !.section = "2"]}
Double == Page("pair", OfSales, Silent, <<>>, <<>>, <<>>, {1, 2})
OneFact == [Page("one", OfSales, Silent, <<>>, <<>>, <<>>, {1}) EXCEPT !.section = "2"]
Busy == [Page("busy", OfSales, OfSales, [i \in 1..4 |-> Says("p" \o ToString(i), {}, {})], <<"a">>, <<>>, {1}) EXCEPT !.themed = TRUE]
Flaws == {{"placeholder"}, {"contradiction"}, {"false"}, {"digits"}, {"cause", "sole cause"}, {"reversed receivables"},
          {"reversed receivables", "reversed payables"}, {"unnamed"}}
Worded == {[Page("said", OfSales, Marked(x), <<Marked(x)>>, <<>>, <<>>, {1, 2}) EXCEPT !.kind = k] :
            x \in Flaws, k \in {"analysis", "executive_summary"}}
Decks == {<<s>> : s \in Crowds \cup Thins \cup Worded} \cup {<<OneFact, s, Double>> : s \in Thins \cup Crowds}
   \cup {<<s, OneFact>> : s \in Thins} \cup {<<Busy, s, Double>> : s \in Thins}
   \cup {<<s, [u EXCEPT !.name = "other"]>> : s, u \in Thins}
\* Decks that were planned, whose texts state figures: a full slide and a thin one, a thin one
\* with its evidence in a block, exact figures, a summary, crowded risks.
Hero == [Page("hero", Says("hero", {}, {}), States("first", {1}, {}), <<>>, <<"b", "c", "d">>, <<>>, {})
           EXCEPT !.layout = "hero_plus_supporting"]
Sole == Page("sole", Says("sole", {}, {}), States("second", {3}, {}), <<>>, <<>>, <<>>, {3})
Rest == Page("rest", Says("rest", {}, {}), States("third", {1}, {}), <<>>, <<"b">>, <<>>, {2})
Wary == [Page("wary", Says("wary", {}, {}), States("fourth", {4}, {}), <<>>, <<"a", "b", "d">>, <<>>, {}) EXCEPT !.kind = "risks"]
Brief == [Page("brief", Says("brief", {}, {}), States("fifth", {3}, {}), <<>>, <<>>, <<>>, {})
            EXCEPT !.kind = "executive_summary", !.insights = {"i"}]
PlannedDecks ==
  {<<Hero, Sole>>, <<Sole, Rest>>, <<Brief, Rest, Wary>>, <<[Brief EXCEPT !.message = Wary.message], Rest, Wary>>,
   <<[Sole EXCEPT !.observations = {}, !.blocks = <<Block(<<>>, "", {3}, FALSE)>>], Rest>>}
   \cup {<<[Rest EXCEPT !.message = States("third", {1}, m)]>> : m \in {{"digits"}, {"digits", "exact"}, {"cause"}}}
CheckedPlans == {[slides |-> d, charts |-> Plots, planned |-> FALSE] : d \in Decks}
           \cup {[slides |-> d, charts |-> Plots, planned |-> k] : d \in PlannedDecks, k \in BOOLEAN}

\* One accepted series and three candidates, two of which report one fact.
CandidateSeries == 0..3
SeriesPoints == (0 :> {1, 5}) @@ (1 :> {1, 2, 5}) @@ (2 :> {3, 5}) @@ (3 :> {4})
SeriesFact == (1 :> 1) @@ (2 :> 2) @@ (3 :> 3) @@ (4 :> 3) @@ (5 :> 5)

\* Four series of nine observations, two of which repeat facts of the others; the charts of the
\* planner, one of them a composition; what a page may fail on and what a conclusion quotes.
PagePoints == <<{1, 2, 3}, {4, 5}, {6, 7}, {8, 9}>>
PageFact == [o \in 1..9 |-> IF o = 8 THEN 4 ELSE IF o = 9 THEN 5 ELSE o]
Figure(shown, totals, composed) == [shown |-> shown, totals |-> totals, composed |-> composed]
PageFigures == <<Figure({1, 2}, {}, FALSE), Figure({4, 5}, {}, FALSE), Figure({6, 7}, {}, FALSE),
                Figure({4, 6}, {5, 7}, TRUE)>>
PageSelections == {<<<<1, 2, 3>>, <<4>>>>, <<<<2, 4>>, <<1>>>>, <<<<1, 2, 3, 4>>>>}
PageConclusions == <<{1, 2}, {4}, {1, 8}>>

Rows == INSTANCE TableReading WITH
  Groups <- {1, 2}, Scales <- {3}, Documents <- Documents, Tails <- {0, 1}, NoGroup <- 0,
  MaxRows <- 3, Pages <- TextPages,
  tables <- s1, joined <- s2, rows <- s3, tail <- s4, section <- s5, lines <- s6, at <- s7,
  observations <- s8, pc <- partPc

Unruled == INSTANCE TextGrids WITH
  Lines <- GridLines, MaxLines <- 4, Reach <- 2, Tiers <- Above,
  lines <- s1, groups <- s2, group <- s3, tables <- s4, pc <- partPc

Enclosed == INSTANCE RuledGrids WITH
  Regions <- Regions, Below <- SmallPrint, Window <- 3,
  lines <- s1, below <- s2, index <- s3, cuts <- s4, tables <- s5, notes <- s6,
  collecting <- s7, pc <- partPc

Tables == INSTANCE PageTables WITH
  Pages <- 3, Wanted <- {1, 3}, Ruled <- RuledTables, Found <- FoundTables,
  Borderless <- TextTables, Grids <- GridTables, LeastScore <- 1,
  page <- s1, literal <- s2, outside <- s3, candidates <- s4, result <- s5, read <- s6,
  raw <- s7, failed <- s8, status <- s9, pc <- partPc

Layout == INSTANCE SummaryLayout WITH
  Facts <- {f1, f2}, Drafts <- LayoutDrafts, Capacity <- 4, Cell <- 3, Budgets <- {2, 3},
  selected <- s1, rewritable <- s2, budget <- s3, draft <- s4, protected <- s5,
  attempt <- s6, over <- s7, pc <- partPc

Directions == INSTANCE DirectionClaims WITH
  Metrics <- {"m", "o"}, Evidence <- Evidence, Slides <- ClaimedSlides,
  facts <- s1, before <- s2, slide <- s3, issues <- s4, pc <- partPc

Figures == INSTANCE ChartPlanning WITH
  Documents <- ChartDocuments, Maximum <- 3, Related <- Complements, Kin <- Kindred,
  Generic <- {"others"}, Ambiguous <- {7}, MinPairs <- 3, MaxGroup <- 3, MaxTitle <- 3,
  facts <- s1, requested <- s2, only <- s3, tasks <- s4, next <- s5, output <- s6,
  seen <- s7, metrics <- s8, remaining <- s9, groups <- s10, pc <- partPc

Checks == INSTANCE PlanChecks WITH
  Plans <- CheckedPlans, Observations <- DeckFacts, Linked <- ("i" :> {3}), Supported <- {4}, MaxPasses <- 3,
  repairing <- s1, pass <- s2, slides <- s3, charts <- s4, criticals <- s5, result <- s6,
  stored <- s7, verdicts <- s8, pc <- partPc

Planning == INSTANCE DeckPlanning WITH
  Charts <- {c1, c2}, Observations <- {o1, o2}, Insights <- {i1, i2}, Drafts <- PlanDrafts,
  Length <- 2, ChartLimit <- 1, BlockLimit <- 1, AnalysisLimit <- 3,
  proposed <- s1, safe <- s2, candidate <- s3, repaired <- s4, pending <- s5, at <- s6,
  origin <- s7, pc <- partPc

TopicDeck == INSTANCE TopicPages WITH
  Selections <- PageSelections, Points <- PagePoints, Fact <- PageFact,
  Charts <- PageFigures, Unsound <- {{}, {2}, {7}}, Conclusions <- PageConclusions,
  PageCharts <- 2, BlockRows <- 2, RowLimit <- 3, WideTopic <- 3, Bullets <- 2,
  selection <- s1, valid <- s2, usable <- s3, bound <- s4, pages <- s5, supported <- s6,
  closing <- s7, enriched <- s8, pc <- partPc

partVars == <<partPc, s1, s2, s3, s4, s5, s6, s7, s8, s9, s10>>

baseVars == <<vars, scopeVars, chunkVars, poolVars, claimsVars, coverageVars,
              selectionVars, draftingVars, briefVars, readingVars, briefingVars>>

\* The extended components run in parts of their own, and are in one state in the others.
Extended == {"cache", "scope", "chunks", "pools", "takeaways", "coverage", "selection",
             "drafting", "brief_review", "reading", "briefing"}

MCInit ==
  /\ part \in Extended \cup {"rows", "grids", "ruled", "tables", "layout", "claims",
                             "charts", "checks", "planning", "pages"}
  /\ Init
  /\ ScopeInit
  /\ ChunksInit /\ (part = "chunks" \/ cacheOn)
  /\ PoolInit /\ (part = "pools" \/ poolKind = "scoring")
  /\ ClaimsInit /\ (part = "takeaways" \/ Unasked)
  /\ CoverageInit /\ (part = "coverage" \/ ~serial)
  /\ SelectionInit
  /\ DraftingInit /\ (part = "drafting" \/ selected)
  /\ BriefInit /\ (part = "brief_review" \/ ~split)
  /\ ReadingInit
  /\ BriefingInit
  /\ \/ part \in Extended /\ partPc = 0 /\ s1 = 0 /\ s2 = 0 /\ s3 = 0
        /\ s4 = 0 /\ s5 = 0 /\ s6 = 0 /\ s7 = 0 /\ s8 = 0 /\ s9 = 0 /\ s10 = 0
     \/ /\ part = "rows" /\ Rows!Init
        /\ s9 = 0 /\ s10 = 0
     \/ /\ part = "grids" /\ Unruled!Init
        /\ s5 = 0 /\ s6 = 0 /\ s7 = 0 /\ s8 = 0 /\ s9 = 0 /\ s10 = 0
     \/ /\ part = "ruled" /\ Enclosed!Init
        /\ s8 = 0 /\ s9 = 0 /\ s10 = 0
     \/ /\ part = "tables" /\ Tables!Init
        /\ s10 = 0
     \/ /\ part = "layout" /\ Layout!Init
        /\ s8 = 0 /\ s9 = 0 /\ s10 = 0
     \/ /\ part = "claims" /\ Directions!Init
        /\ s5 = 0 /\ s6 = 0 /\ s7 = 0 /\ s8 = 0 /\ s9 = 0 /\ s10 = 0
     \/ /\ part = "charts" /\ Figures!Init
     \/ /\ part = "checks" /\ Checks!Init
        /\ s9 = 0 /\ s10 = 0
     \/ /\ part = "planning" /\ Planning!Init
        /\ s8 = 0 /\ s9 = 0 /\ s10 = 0
     \/ /\ part = "pages" /\ TopicDeck!Init
        /\ s9 = 0 /\ s10 = 0

MCNext ==
  \/ /\ part = "cache" /\ Next
     /\ UNCHANGED <<part, scopeVars, chunkVars, poolVars, claimsVars, coverageVars,
                    selectionVars, draftingVars, briefVars, readingVars, briefingVars,
                    partVars>>
  \/ /\ part = "scope" /\ ScopeNext
     /\ UNCHANGED <<part, vars, chunkVars, poolVars, claimsVars, coverageVars,
                    selectionVars, draftingVars, briefVars, readingVars, briefingVars,
                    partVars>>
  \/ /\ part = "chunks" /\ ChunksNext
     /\ UNCHANGED <<part, vars, scopeVars, poolVars, claimsVars, coverageVars,
                    selectionVars, draftingVars, briefVars, readingVars, briefingVars,
                    partVars>>
  \/ /\ part = "pools" /\ PoolNext
     /\ UNCHANGED <<part, vars, scopeVars, chunkVars, claimsVars, coverageVars,
                    selectionVars, draftingVars, briefVars, readingVars, briefingVars,
                    partVars>>
  \/ /\ part = "takeaways" /\ ClaimsNext
     /\ UNCHANGED <<part, vars, scopeVars, chunkVars, poolVars, coverageVars,
                    selectionVars, draftingVars, briefVars, readingVars, briefingVars,
                    partVars>>
  \/ /\ part = "coverage" /\ CoverageNext
     /\ UNCHANGED <<part, vars, scopeVars, chunkVars, poolVars, claimsVars, selectionVars,
                    draftingVars, briefVars, readingVars, briefingVars, partVars>>
  \/ /\ part = "selection" /\ SelectionNext
     /\ UNCHANGED <<part, vars, scopeVars, chunkVars, poolVars, claimsVars, coverageVars,
                    draftingVars, briefVars, readingVars, briefingVars, partVars>>
  \/ /\ part = "drafting" /\ DraftingNext
     /\ UNCHANGED <<part, vars, scopeVars, chunkVars, poolVars, claimsVars, coverageVars,
                    selectionVars, briefVars, readingVars, briefingVars, partVars>>
  \/ /\ part = "brief_review" /\ BriefNext
     /\ UNCHANGED <<part, vars, scopeVars, chunkVars, poolVars, claimsVars, coverageVars,
                    selectionVars, draftingVars, readingVars, briefingVars, partVars>>
  \/ /\ part = "reading" /\ ReadingNext
     /\ UNCHANGED <<part, vars, scopeVars, chunkVars, poolVars, claimsVars, coverageVars,
                    selectionVars, draftingVars, briefVars, briefingVars, partVars>>
  \/ /\ part = "briefing" /\ BriefingNext
     /\ UNCHANGED <<part, vars, scopeVars, chunkVars, poolVars, claimsVars, coverageVars,
                    selectionVars, draftingVars, briefVars, readingVars, partVars>>
  \/ /\ part = "rows" /\ Rows!Next
     /\ UNCHANGED <<part, baseVars, s9, s10>>
  \/ /\ part = "grids" /\ Unruled!Next
     /\ UNCHANGED <<part, baseVars, s5, s6, s7, s8, s9, s10>>
  \/ /\ part = "ruled" /\ Enclosed!Next
     /\ UNCHANGED <<part, baseVars, s8, s9, s10>>
  \/ /\ part = "tables" /\ Tables!Next
     /\ UNCHANGED <<part, baseVars, s10>>
  \/ /\ part = "layout" /\ Layout!Next
     /\ UNCHANGED <<part, baseVars, s8, s9, s10>>
  \/ /\ part = "claims" /\ Directions!Next
     /\ UNCHANGED <<part, baseVars, s5, s6, s7, s8, s9, s10>>
  \/ /\ part = "charts" /\ Figures!Next
     /\ UNCHANGED <<part, baseVars>>
  \/ /\ part = "checks" /\ Checks!Next
     /\ UNCHANGED <<part, baseVars, s9, s10>>
  \/ /\ part = "planning" /\ Planning!Next
     /\ UNCHANGED <<part, baseVars, s8, s9, s10>>
  \/ /\ part = "pages" /\ TopicDeck!Next
     /\ UNCHANGED <<part, baseVars, s9, s10>>

MCVars == <<part, baseVars, partVars>>

MCSpec == MCInit /\ [][MCNext]_MCVars

(* A cell keeps its meaning from the page to the observation: its line is   *)
(* in one table, under the years, headings and titles that stand above it   *)
(* there, in the column it is aligned with, in the section that is open,    *)
(* scaled once; tables continue only where they agree.                      *)
CellsKeepMeaning ==
  /\ part = "rows" => Rows!JoinedAgree
  /\ part = "rows" => Rows!SectionsBound
  /\ part = "rows" => Rows!ScaledOnce
  /\ part = "rows" => Rows!LinesReadOnce
  /\ part = "grids" => Unruled!RowsUnderTheirYears
  /\ part = "grids" => Unruled!ValuesInPlace
  /\ part = "grids" => Unruled!PeriodCarried
  /\ part = "ruled" => Enclosed!LinesOfOneTable
  /\ part = "ruled" => Enclosed!HeadingsHeadTheirRows
  /\ part = "ruled" => Enclosed!NotesApart

(* What a reader finds on a page is retained whole, no place is analysed    *)
(* from two readings or added twice, and a page that fails leaves the       *)
(* others as they are.                                                      *)
TablesAccounted ==
  /\ part = "tables" => Tables!ReadFromOneReader
  /\ part = "tables" => Tables!SourcesRetained
  /\ part = "tables" => Tables!AdditionsAddMetrics
  /\ part = "tables" => Tables!FailuresContained

(* Nothing is lost on the way to a page: a layout keeps every paragraph,    *)
(* fact and required meaning however often it is rearranged or compressed,  *)
(* the rearrangements offered before a rewrite are lossless, a repair of    *)
(* the plan, when it is drafted and before each export, moves findings,     *)
(* says them where they went and loses none, and every chart that shows     *)
(* something is on one page, with charts that belong to it, once.           *)
ContentKept ==
  /\ part = "layout" => Layout!LaidOutComplete
  /\ part = "layout" => Layout!OfferedLayoutsLossless
  /\ part = "planning" => Planning!FindingsKept
  /\ part = "checks" => Checks!ChartsStay
  /\ part = "checks" => Checks!EvidenceStays
  /\ part = "checks" => Checks!MovedStaysNamed
  /\ part = "charts" => Figures!ShownOnce
  /\ part = "charts" => Figures!PagesOfOneStory

(* What a slide states stands on its evidence: the plan that is returned    *)
(* passed the validator as it is, and a repair of its claims changes no     *)
(* word that a metric supports, reaches every word it may change and leaves *)
(* none that contradicts its values; what one pass of the export checks     *)
(* lets through the next one does, and their repairs settle; a chart        *)
(* compares what compares and its parts make up their whole.                *)
ClaimsStand ==
  /\ part = "planning" => Planning!ReturnedPlanValid
  /\ part = "claims" => Directions!SupportedWordsKept
  /\ part = "claims" => Directions!RepairsAgree
  /\ part = "checks" => Checks!VerdictStands
  /\ part = "checks" => Checks!RepairsSettle
  /\ part = "charts" => Figures!SeriesCompare
  /\ part = "charts" => Figures!CompositionsWhole

(* Every observation a topic selected is shown on one of its pages, and the *)
(* closing page represents topics of the deck in their order, each once.    *)
PagesShowTopics ==
  /\ part = "pages" => TopicDeck!SelectedEvidenceShown
  /\ part = "pages" => TopicDeck!ClosingRepresents

(* A repaired claim says what the values do.                                *)
RepairsTellTheTruth == part = "claims" => Directions!RepairsTellTheTruth
=============================================================================
