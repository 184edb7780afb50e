------------------------------ MODULE MCPublication ------------------------------
(***************************************************************************)
(* The audit of two groups of the code's batch size, one of them full, by    *)
(* two threads; the requests of one batch; the gates between a drained       *)
(* result and its file, and its exports; each on an instance of its own, the *)
(* deck, the pages of its tables and copy, its language and its sources; and *)
(* the gateway all requests wait for: two callers that compete for one       *)
(* permit while time passes.                                                 *)
(***************************************************************************)
EXTENDS PublicationProofs, TLC

CONSTANTS c1, c2

\* The part under check, and the variables the parts share: one of them runs.
VARIABLES part, partPc, s1, s2, s3, s4, s5, s6, s7, s8, s9, s10, s11, s12, s13, s14, s15

MCTargets == 1..5

\* Two analysis pages, the second of two observations; lost topics one of which the pages cover.
Page(l, obs, c) == [label |-> l, observations |-> obs, chart |-> c]
DeckPages == <<Page("growth", {1}, "c1"), Page("margin", {2, 3}, "c2")>>
DeckDrafts == <<{1, 2}, {2, 4}>>
DeckSourcePage == (1 :> 1) @@ (2 :> 2) @@ (3 :> 1) @@ (4 :> 3)
Form(short, room) == [short |-> short, room |-> room]
TextForms == {<<Form(TRUE, FALSE)>>, <<Form(FALSE, TRUE), Form(TRUE, FALSE)>>}
ChartForms == {<<Form(FALSE, TRUE)>>, <<Form(FALSE, FALSE), Form(FALSE, FALSE)>>}
Introductions == {<<>>, <<"business", "history">>}

\* Requested tables: with spans, with column groups of different headers, with rows higher
\* than others, one of them higher than a page, with a label that fits the room of one
\* group only, and with a header that leaves no room;
\* evidence tables that fit a page alone, in pairs or not at all.
Table(s, h, sp, cells) == [section |-> s, header |-> h, spans |-> sp, cells |-> cells]
Wide(h) == <<1, h, 1, 1>>
Tables ==
  {Table("a", <<1, 1, 1, 1>>, <<>>, <<Wide(1), Wide(5)>>),
   Table("a", <<1, 2, 1, 1>>, <<<<2>>, <<3, 4>>>>, <<Wide(1), Wide(1), Wide(2), Wide(1), <<3, 1, 1, 1>>>>),
   Table("b", <<1, 1>>, <<>>, <<<<1, 1>>>>),
   Table("a", <<1, 1>>, <<>>, <<<<2, 2>>, <<1, 3>>, <<1, 1>>, <<2, 1>>, <<2, 1>>>>),
   Table("b", <<1, 1>>, <<>>, <<<<1, 1>>, <<1, 1>>, <<1, 1>>, <<1, 1>>, <<1, 4>>>>)}
Requests ==
  {<<t, u>> : t, u \in Tables}
    \cup {<<Table("a", <<1, 1, 1, 3>>, <<>>, <<<<h, 1, 1, 1>>>>)>> : h \in 2..5}
    \cup {<<Table("a", <<1, 6>>, <<>>, <<<<1, 1>>>>)>>}
Heights(n, hs) == [i \in DOMAIN hs |-> [name |-> 10 * n + i, loose |-> hs[i], compact |-> hs[i] - 1]]
Shapes == {<<>>, <<3>>, <<4, 3>>, <<2, 2, 2>>}
Evidence == {<<Heights(1, a), Heights(2, b), Heights(3, c)>> : a, b, c \in Shapes}

\* Items of the summary and of the conclusion: short, long, wider than a title, with a table.
Item(t, x) ==
  [title |-> t, text |-> x, table |-> FALSE, technical |-> FALSE, observations |-> {}, periods |-> 0]
Items == {Item(1, 1), Item(1, 3), Item(0, 2), Item(7, 3), Item(1, 11)}
Findings ==
  {<<>>} \cup {<<a, b, c>> : a, b, c \in Items}
    \cup {<<a, [Item(1, 2) EXCEPT !.table = TRUE], b>> : a, b \in Items}
    \cup {<<[Item(1, 1) EXCEPT !.technical = TRUE], a, b, Item(1, 1)>> : a, b \in Items}
Linked(x, obs, p) == [Item(0, x) EXCEPT !.observations = obs, !.periods = p]
Links == {Linked(1, {1}, 1), Linked(3, {1, 2}, 1), Linked(2, {3}, 2), Linked(1, {}, 1), Linked(5, {2}, 2)}
Conclusions == {<<a, b, c>> : a, b, c \in Links} \cup {<<Linked(6, {1}, 1)>>}

\* What a gate finds wrong, by the version of the plan, of the rest and the style it finds it in.
Fault(g, p, r, s) == [gate |-> g, plan |-> p, rest |-> r, style |-> s]
Unverified == {Fault("introduction", p, r, s) : p \in 0..2, r, s \in {1, 2}}
Faulty ==
  {{}, Unverified}
    \cup {{Fault(g, p, r, s) : s \in {1, 2}} : g \in {"claims", "reviews", "plan"}, p, r \in {1, 2}}
    \cup {{Fault(g, p, 1, s)} : g \in {"preflight", "deck"}, p, s \in {1, 2}}

\* The one state the gates and the exports are in while another part runs.
Unworked == kind = "catalog" /\ ~sources /\ deck.targets = {} /\ covered = 0 /\ deferred /\ accepted = {}
              /\ brief = NoBrief
Unexported == faults = {} /\ result.plan = 0
Untranslated == translationContext = 1

\* The copy of the report, the first batch with a unit of a summary claim.
MCBatches == {{"s1", "u1"}, {"s2"}}

\* The second check is bound to the first conclusion of the brief or to none.
MCCited == <<{{}, {0}, {-1}}, {{}, {0}}>>

\* Slides with a chart and a source near or over it, beside one more element or a logo.
Element(k, b) == [kind |-> k, box |-> b, inherited |-> FALSE, fixed |-> FALSE, rendered |-> TRUE]
Inherited(e) == [e EXCEPT !.inherited = TRUE]
Beside ==
  {Element("text", <<150, 66, 20, 8>>), Element("source", <<20, 80, 60, 8>>),
   Element("text", <<30, 90, 40, 10>>), Element("image", <<-5, 70, 30, 8>>),
   Element("chart", <<70, 30, 30, 30>>), Element("table", <<4, 60, 92, 12>>),
   [Element("source", <<-4, 72, 50, 10>>) EXCEPT !.fixed = TRUE],
   [Element("text", <<8, 66, 9, 9>>) EXCEPT !.rendered = FALSE]}
Footer == Inherited(Element("text", <<0, 84, 96, 12>>))
Logo == Inherited(Element("source", <<30, 70, 40, 10>>))
Canvas ==
  {<<Element("chart", <<8, 8, 80, h>>), Element("source", <<x, y, 60, 8>>)>> \o e :
     h \in {40, 52, 60}, x \in {-6, 0, 8, 40}, y \in {56, 64, 78, 86, 92},
     e \in {<<b, Footer>> : b \in Beside} \cup {<<Logo>>}}

Deck == INSTANCE DeckAssembly WITH
  Pages <- DeckPages, Drafts <- DeckDrafts, SourcePage <- DeckSourcePage, ScopePage <- 9,
  TextForms <- TextForms, ChartForms <- ChartForms, Introductions <- Introductions,
  edition <- s1, usable <- s2, agenda <- s3, slides <- s4, trace <- s5, reached <- s6,
  drawn <- s7, pc <- partPc

TableExport == INSTANCE TablePages WITH
  Requests <- Requests, Evidence <- Evidence, GroupWidth <- 2, PageHeight <- 6,
  LabelHeight <- 1,
  tables <- s1, pages <- s2, next <- s3, evidence <- s4, packed <- s5, pc <- partPc

CopyExport == INSTANCE CopyPages WITH
  Findings <- Findings, Conclusions <- Conclusions, Records <- 1..4, First <- 8,
  Continued <- 7, TitleSpace <- 1, RecordRows <- 2,
  items <- s1, layout <- s2, left <- s3, tight <- s4, pages <- s5, pc <- partPc

Gateway == INSTANCE LLMGateway WITH
  Callers <- {c1, c2}, Workers <- 1, Timeout <- 1, Limit <- 0, MaxRequests <- 1,
  limited <- s1, remaining <- s2, slots <- s3, kind <- s4, phase <- s5, log <- s6,
  compat <- s7, net <- s8, left <- s9, outcome <- s10, answer <- s11, cancelled <- s12,
  made <- s13, unbooked <- s14, doomed <- s15, pc <- partPc

Visual == INSTANCE VisualChecks WITH
  Slides <- Canvas, Width <- 96, Height <- 96, MaxRepairs <- 2,
  slide <- s1, original <- s2, before <- s3, attempt <- s4, pc <- partPc

partVars == <<partPc, s1, s2, s3, s4, s5, s6, s7, s8, s9, s10, s11, s12, s13, s14, s15>>

baseVars == <<vars, batchVars, gatesVars, exportVars, translationVars, sourcesVars>>

\* The extended components run in parts of their own, and are in one state in the others.
Extended == {"batches", "review", "gates", "export", "language", "sources"}

MCInit ==
  /\ part \in Extended \cup {"deck", "tables", "copy", "gateway", "visual"}
  /\ Init
  /\ BatchInit
  /\ GatesInit /\ (part = "gates" \/ Unworked)
  /\ ExportInit /\ (part = "export" \/ Unexported)
  /\ TranslationInit /\ (part = "language" \/ Untranslated)
  /\ SourcesInit
  /\ \/ part \in Extended /\ partPc = 0 /\ s1 = 0 /\ s2 = 0 /\ s3 = 0
        /\ s4 = 0 /\ s5 = 0 /\ s6 = 0 /\ s7 = 0 /\ s8 = 0 /\ s9 = 0 /\ s10 = 0 /\
           s11 = 0 /\ s12 = 0 /\ s13 = 0 /\ s14 = 0 /\ s15 = 0
     \/ /\ part = "deck" /\ Deck!Init
        /\ s8 = 0 /\ s9 = 0 /\ s10 = 0 /\ s11 = 0 /\ s12 = 0 /\ s13 = 0 /\ s14 = 0 /\
           s15 = 0
     \/ /\ part = "tables" /\ TableExport!Init
        /\ s6 = 0 /\ s7 = 0 /\ s8 = 0 /\ s9 = 0 /\ s10 = 0 /\ s11 = 0 /\ s12 = 0 /\
           s13 = 0 /\ s14 = 0 /\ s15 = 0
     \/ /\ part = "copy" /\ CopyExport!Init
        /\ s6 = 0 /\ s7 = 0 /\ s8 = 0 /\ s9 = 0 /\ s10 = 0 /\ s11 = 0 /\ s12 = 0 /\
           s13 = 0 /\ s14 = 0 /\ s15 = 0
     \/ /\ part = "gateway" /\ Gateway!Init
     \/ /\ part = "visual" /\ Visual!Init
        /\ s5 = 0 /\ s6 = 0 /\ s7 = 0 /\ s8 = 0 /\ s9 = 0 /\ s10 = 0 /\ s11 = 0 /\
           s12 = 0 /\ s13 = 0 /\ s14 = 0 /\ s15 = 0

MCNext ==
  \/ /\ part = "batches" /\ Next
     /\ UNCHANGED <<part, batchVars, gatesVars, exportVars, translationVars, sourcesVars,
                    partVars>>
  \/ /\ part = "review" /\ BatchNext
     /\ UNCHANGED <<part, vars, gatesVars, exportVars, translationVars, sourcesVars,
                    partVars>>
  \/ /\ part = "gates" /\ GatesNext
     /\ UNCHANGED <<part, vars, batchVars, exportVars, translationVars, sourcesVars,
                    partVars>>
  \/ /\ part = "export" /\ ExportNext
     /\ UNCHANGED <<part, vars, batchVars, gatesVars, translationVars, sourcesVars,
                    partVars>>
  \/ /\ part = "language" /\ TranslationNext
     /\ UNCHANGED <<part, vars, batchVars, gatesVars, exportVars, sourcesVars, partVars>>
  \/ /\ part = "sources" /\ SourcesNext
     /\ UNCHANGED <<part, vars, batchVars, gatesVars, exportVars, translationVars, partVars>>
  \/ /\ part = "deck" /\ Deck!Next
     /\ UNCHANGED <<part, baseVars, s8, s9, s10, s11, s12, s13, s14, s15>>
  \/ /\ part = "tables" /\ TableExport!Next
     /\ UNCHANGED <<part, baseVars, s6, s7, s8, s9, s10, s11, s12, s13, s14, s15>>
  \/ /\ part = "copy" /\ CopyExport!Next
     /\ UNCHANGED <<part, baseVars, s6, s7, s8, s9, s10, s11, s12, s13, s14, s15>>
  \/ /\ part = "gateway" /\ Gateway!Next
     /\ UNCHANGED <<part, baseVars>>
  \/ /\ part = "visual" /\ Visual!Next
     /\ UNCHANGED <<part, baseVars, s5, s6, s7, s8, s9, s10, s11, s12, s13, s14, s15>>

MCVars == <<part, baseVars, partVars>>

gatewayVars == Gateway!vars

MCSpec ==
  /\ MCInit /\ [][MCNext]_MCVars
  /\ WF_vars(part = "batches" /\ (Observe \/ Merge \/ \E g \in GroupNumbers : Withdraw(g)))
  /\ \A w \in Workers : WF_vars(part = "batches" /\ Worker(w))
  /\ WF_gatewayVars(part = "gateway" /\ Gateway!Tick)
  /\ \A c \in {c1, c2} : WF_gatewayVars(part = "gateway" /\ Gateway!Request(c))

(* The finished file is true to itself: the trace names the slides of each  *)
(* section, the contents page lists the sections in the order of their      *)
(* slides, and every requested table, evidence table, finding and           *)
(* conclusion is shown once and in full, on pages it fits; a repair of its  *)
(* boxes mends what it moves, and moves nothing else.                       *)
DeckTrue ==
  /\ part = "deck" => Deck!TraceNamesItsSlides
  /\ part = "deck" => Deck!AgendaInDeckOrder
  /\ part = "tables" => TableExport!RequestedTablesShown
  /\ part = "tables" => TableExport!TablePagesFit
  /\ part = "tables" => TableExport!EvidenceTablesKept
  /\ part = "copy" => CopyExport!CopyComplete
  /\ part = "copy" => CopyExport!CopyFits
  /\ part = "visual" => Visual!RepairsHelp
  /\ part = "visual" => Visual!NothingDrifts

(* QueuedRequestEnds of the gateway: with or without a deadline, a queued    *)
(* request ends once the calls in front of it end or time out.  The callers  *)
(* are interchangeable: c1 is either.                                        *)
QueuedRequestEnds ==
  (part = "gateway" /\ partPc[c1] = "queued") ~> (part = "gateway" => partPc[c1] = "idle")

(* The contents page lists only sections that have a slide.                  *)
AgendaListsOnlyDrawn == part = "deck" => Deck!AgendaListsOnlyDrawn
=============================================================================
