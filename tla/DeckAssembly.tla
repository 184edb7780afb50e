----------------------------- MODULE DeckAssembly -----------------------------
(***************************************************************************)
(* The order of the exported deck.  The agenda is written first, from the    *)
(* plan; each section is then drawn and its slides recorded in a trace;      *)
(* short text pages are folded into the margins of others, the agenda        *)
(* rebuilt, the source indexes placed after the body and the closing         *)
(* artwork appended, with the trace rebased each time                        *)
(* (services/pptx_export.py, presentation_export_trace.py,                   *)
(* presentation_sparse_pages.py, presentation_scope.py,                      *)
(* presentation_data_index.py, presentation_body_budget.py).                 *)
(***************************************************************************)
EXTENDS Integers, SequencesExt, FiniteSetsExt

CONSTANTS
  Pages,          \* planned analysis pages: section label, topic, observations, chart
  Drafts,         \* drafted topics that were not retained: their observations
  SourcePage,     \* page of each observation
  ScopePage,      \* page a coverage boundary cites
  TextForms,      \* how a text section may be laid out: short pages, free margins
  ChartForms,     \* how an analysis page may be laid out
  Introductions   \* labels of the introduction's body pages, in order

VARIABLES
  pc,
  edition,        \* compact file, editorial briefing, introduction, closing items, lost drafts, boundaries
  usable,         \* charts that passed the evidence checks
  agenda,         \* entries of the contents page
  slides,
  trace,          \* slides of each recorded section, by number, and its source pages
  reached,        \* slide numbers recorded for each source page
  drawn           \* analysis pages drawn so far

vars == <<pc, edition, usable, agenda, slides, trace, reached, drawn>>

Form(short, room) == [short |-> short, room |-> room]

Compact == edition.compact
\* A compact file ends with the briefing as its conclusion.
FinalSummary == Compact /\ edition.brief

-----------------------------------------------------------------------------
(* Coverage boundaries *)

Rendered == UNION {Pages[i].observations : i \in {j \in DOMAIN Pages : Pages[j].label \in {r.label : r \in Range(trace)}}}

\* A lost topic whose evidence is shown elsewhere is no boundary; before anything is
\* shown, every lost topic is one.
LostTopics ==
  {d \in edition.lost : Rendered = {} \/ ~(Drafts[d] \subseteq Rendered)}

ScopeItems == LostTopics \cup (IF edition.boundary THEN {0} ELSE {})

-----------------------------------------------------------------------------
(* The agenda *)

\* Mutant: the conclusion is listed where the summary was planned.
EntriesAsPlanned ==
  edition.intro \o <<"summary">> \o [i \in DOMAIN Pages |-> Pages[i].label]
    \o (IF edition.brief /\ ~edition.closing THEN <<>> ELSE <<"risks">>)
    \o (IF ScopeItems = {} THEN <<>> ELSE <<"scope">>) \o <<"index">>

\* Sections in the order they will have: a compact file lists its conclusion before
\* the indexes, a briefing without open checks lists no closing.
Entries ==
  edition.intro \o (IF FinalSummary \/ edition.redundant THEN <<>> ELSE <<"summary">>)
    \o [i \in DOMAIN Pages |-> Pages[i].label]
    \o (IF edition.brief /\ ~edition.closing THEN <<>> ELSE <<"risks">>)
    \o (IF ScopeItems = {} THEN <<>> ELSE <<"scope">>)
    \o (IF FinalSummary THEN <<"conclusion">> ELSE <<>>) \o <<"index">>

\* Sections with one label are one entry.
Distinct(s) == FoldLeft(LAMBDA acc, x : IF x \in Range(acc) THEN acc ELSE Append(acc, x), <<>>, s)

-----------------------------------------------------------------------------
(* Drawing a section *)

NewSlides(label, tag, forms) ==
  [k \in DOMAIN forms |->
     [id |-> 0, label |-> label, tag |-> tag,
      short |-> forms[k].short, room |-> forms[k].room, copies |-> {label}]]

Numbered(s) == [k \in DOMAIN s |-> [s[k] EXCEPT !.id = k]]
OneSlide(label, tag) == NewSlides(label, tag, <<Form(FALSE, FALSE)>>)

PagesOfScope == IF ScopeItems = {} THEN {} ELSE {ScopePage}

\* The slides drawn since the section began are recorded with it (record_section).
Record(label, count, pages) ==
  LET numbers == (Len(slides) + 1)..(Len(slides) + count)
  IN IF count = 0 THEN UNCHANGED <<trace, reached>>
     ELSE /\ trace' = Append(trace, [label |-> label, numbers |-> numbers, pages |-> pages])
          /\ reached' = [p \in DOMAIN reached |-> reached[p] \cup (IF p \in pages THEN numbers ELSE {})]

Add(label, tag, forms, pages) ==
  slides' = Numbered(slides \o NewSlides(label, tag, forms)) /\ Record(label, Len(forms), pages)

Open ==
  /\ pc = "opening" /\ pc' = "introduction"
  /\ agenda' = Distinct(Entries)
  /\ slides' = Numbered(OneSlide("cover", "front") \o OneSlide("contents", "front"))
  /\ UNCHANGED <<edition, usable, trace, reached, drawn>>

\* The introduction's pages are recorded together; one that was reviewed in full is
\* never short.
DrawIntroduction ==
  /\ pc = "introduction" /\ pc' = "summary"
  /\ LET Complete(form) == [k \in DOMAIN form |-> Form(form[k].short /\ ~edition.reviewed, form[k].room)]
         Drawn(form) == FlattenSeq([i \in DOMAIN edition.intro |->
                                      NewSlides(edition.intro[i], "body", Complete(form))])
     IN \E form \in TextForms :
          /\ slides' = Numbered(slides \o Drawn(form))
          /\ Record("introduction", Len(Drawn(form)), {})
  /\ UNCHANGED <<edition, usable, agenda, drawn>>

DrawSummary ==
  /\ pc = "summary" /\ pc' = "analysis"
  /\ IF FinalSummary \/ edition.redundant THEN UNCHANGED <<slides, trace, reached>>
     ELSE \E form \in TextForms : Add("summary", "body", form, {})
  /\ UNCHANGED <<edition, usable, agenda, drawn>>

\* A page whose chart failed the evidence checks fails the export.
DrawAnalysis ==
  /\ pc = "analysis" /\ drawn < Len(Pages)
  /\ LET page == Pages[drawn + 1]
     IN IF page.chart \notin usable
        THEN pc' = "failed" /\ UNCHANGED <<slides, trace, reached, drawn>>
        ELSE /\ \E form \in ChartForms :
                  Add(page.label, "body", form, {SourcePage[o] : o \in page.observations})
             /\ drawn' = drawn + 1 /\ UNCHANGED pc
  /\ UNCHANGED <<edition, usable, agenda>>

DrawRisks ==
  /\ pc = "analysis" /\ drawn = Len(Pages) /\ pc' = "scope"
  /\ IF edition.brief
     THEN IF edition.closing THEN Add("risks", "limits", <<Form(TRUE, FALSE)>>, {})
          ELSE UNCHANGED <<slides, trace, reached>>
     ELSE \E form \in TextForms : Add("risks", "body", form, {})
  /\ UNCHANGED <<edition, usable, agenda, drawn>>

\* The boundaries are read again: the pages drawn meanwhile may cover a lost topic.
DrawScope ==
  /\ pc = "scope" /\ pc' = "index"
  /\ IF ScopeItems = {} THEN UNCHANGED <<slides, trace, reached>>
     ELSE \E form \in TextForms : Add("scope", "body", form, PagesOfScope)
  /\ UNCHANGED <<edition, usable, agenda, drawn>>

DrawIndex ==
  /\ pc = "index" /\ pc' = "conclusion"
  /\ \E form \in ChartForms :
       Add("index", "index", [k \in DOMAIN form |-> Form(FALSE, ~Compact /\ form[k].room)], {})
  /\ UNCHANGED <<edition, usable, agenda, drawn>>

DrawConclusion ==
  /\ pc = "conclusion" /\ pc' = "supporting"
  /\ IF FinalSummary THEN \E form \in TextForms : Add("conclusion", "conclusion", form, {})
     ELSE UNCHANGED <<slides, trace, reached>>
  /\ UNCHANGED <<edition, usable, agenda, drawn>>

\* Introduction pages chosen as supporting context follow; they have no entry.
DrawSupporting ==
  /\ pc = "supporting" /\ pc' = "folding"
  /\ \E n \in 0..1 : slides' = Numbered(slides \o NewSlides("supporting", "appendix", [k \in 1..n |-> Form(FALSE, TRUE)]))
  /\ UNCHANGED <<edition, usable, agenda, trace, reached, drawn>>

-----------------------------------------------------------------------------
(* Folding short pages *)

Short(s) == s.short /\ s.tag \notin {"conclusion", "limits"}
Receives(s) == ~Short(s) /\ s.tag \notin {"limits", "front"}

Nearer(s, a, b) ==
  LET Other(t) == IF t.label = s.label THEN 0 ELSE 1
      Distance(t) == IF t.id > s.id THEN t.id - s.id ELSE s.id - t.id
      Key(t) == <<Other(t), Distance(t), t.id>>
  IN \/ Key(a)[1] < Key(b)[1]
     \/ Key(a)[1] = Key(b)[1] /\ (Key(a)[2] < Key(b)[2] \/ (Key(a)[2] = Key(b)[2] /\ Key(a)[3] < Key(b)[3]))

\* A short page goes to the nearest page with room for all its copy, or stays.
FoldOne(acc, s) ==
  LET candidates == {t \in Range(acc.deck) : Receives(t) /\ t.room}
      target == CHOOSE t \in candidates : \A u \in candidates \ {t} : Nearer(s, t, u)
      Merged(t) == IF t.id = target.id THEN [t EXCEPT !.copies = @ \cup s.copies, !.room = FALSE] ELSE t
      Left == SelectSeq(acc.deck, LAMBDA t : t.id # s.id)
  IN IF candidates = {} THEN acc
     ELSE [deck |-> [k \in DOMAIN Left |-> Merged(Left[k])],
           moved |-> [acc.moved EXCEPT ![s.id] = target.id]]

Identity == [i \in DOMAIN slides |-> i]
Folded == FoldLeft(FoldOne, [deck |-> slides, moved |-> Identity], SelectSeq(slides, Short))

PositionOf(deck, id) == CHOOSE k \in DOMAIN deck : deck[k].id = id

\* Mutant: a removed page keeps its number.
NumberMapWithoutTargets(fold) ==
  [i \in DOMAIN slides |-> IF \E k \in DOMAIN fold.deck : fold.deck[k].id = i
                           THEN PositionOf(fold.deck, i) ELSE i]

\* The number a slide has now, or the number of the page it went to.
NumberMap(fold) == [i \in DOMAIN slides |-> PositionOf(fold.deck, fold.moved[i])]

Rebase(map) ==
  /\ trace' = [k \in DOMAIN trace |-> [trace[k] EXCEPT !.numbers = {map[n] : n \in @}]]
  /\ reached' = [p \in DOMAIN reached |-> {map[n] : n \in reached[p]}]

\* Mutant: entries of removed pages stay.
AgendaUnchanged(fold) == agenda

\* An entry goes when pages with its label were removed and none is left.
AgendaAfter(fold) ==
  LET left == {t.label : t \in Range(fold.deck)}
      gone == {s.label : s \in Range(slides)} \ left
  IN SelectSeq(agenda, LAMBDA x : x \notin gone)

Fold ==
  /\ pc = "folding" /\ pc' = "placing"
  /\ LET fold == Folded
     IN /\ slides' = Numbered(fold.deck)
        /\ agenda' = AgendaAfter(fold)
        /\ Rebase(NumberMap(fold))
  /\ UNCHANGED <<edition, usable, drawn>>

-----------------------------------------------------------------------------
(* Indexes and closing artwork *)

\* Source tables the reader asked for are indexes too.
AddTables ==
  /\ pc = "placing" /\ pc' = "ordering"
  /\ \E n \in 0..1 : slides' = Numbered(slides \o NewSlides("tables", "index", [k \in 1..n |-> Form(FALSE, FALSE)]))
  /\ UNCHANGED <<edition, usable, agenda, trace, reached, drawn>>

IndexNumbers == {n \in DOMAIN slides : slides[n].tag = "index"}

Ascending(s) == IF s = {} THEN <<>> ELSE SelectSeq([i \in 1..Max(s) |-> i], LAMBDA i : i \in s)

\* The body keeps its order, the indexes follow in theirs.
Place ==
  /\ pc = "ordering" /\ pc' = "done"
  /\ LET order == Ascending(DOMAIN slides \ IndexNumbers) \o Ascending(IndexNumbers)
     IN /\ slides' = Numbered([k \in DOMAIN order |-> slides[order[k]]] \o OneSlide("closing", "front"))
        /\ Rebase([n \in DOMAIN slides |-> CHOOSE k \in DOMAIN order : order[k] = n])
  /\ UNCHANGED <<edition, usable, agenda, drawn>>

Init ==
  /\ pc = "opening" /\ drawn = 0
  /\ edition \in [compact : BOOLEAN, brief : BOOLEAN, redundant : BOOLEAN, closing : BOOLEAN,
                  intro : Introductions, reviewed : BOOLEAN,
                  lost : SUBSET DOMAIN Drafts, boundary : BOOLEAN]
  /\ edition.redundant => ~edition.brief
  /\ edition.closing => edition.brief
  /\ edition.reviewed \/ Len(edition.intro) = 1
  /\ usable \in {{Pages[i].chart : i \in 1..n} : n \in {0, Len(Pages)}}
  /\ agenda = <<>> /\ slides = <<>> /\ trace = <<>>
  /\ reached = [p \in Range(SourcePage) \cup {ScopePage} |-> {}]

Next ==
  \/ Open \/ DrawIntroduction \/ DrawSummary \/ DrawAnalysis \/ DrawRisks \/ DrawScope
  \/ DrawIndex \/ DrawConclusion \/ DrawSupporting \/ Fold \/ AddTables \/ Place

Spec == Init /\ [][Next]_vars

-----------------------------------------------------------------------------
Holding(label) == {n \in DOMAIN slides : label \in slides[n].copies}

(* After pages were folded, indexes moved and the agenda rebuilt, a record of the   *)
(* trace names the slides that show its section, and a source page those of the     *)
(* sections that cite it.                                                           *)
TraceNamesItsSlides ==
  pc = "done" =>
    /\ \A r \in Range(trace) :
         LET same == {q \in Range(trace) : q.label = r.label}
             labels == IF r.label = "introduction" THEN Range(edition.intro) ELSE {r.label}
         IN UNION {q.numbers : q \in same} = UNION {Holding(x) : x \in labels}
    /\ \A p \in DOMAIN reached :
         reached[p] = UNION {r.numbers : r \in {q \in Range(trace) : p \in q.pages}}

\* Labels that begin a section of the deck, in the order a reader meets them.
Chapters ==
  SelectSeq(Distinct([n \in DOMAIN slides |-> slides[n].label]),
            LAMBDA x : x \notin {"cover", "contents", "supporting", "tables", "closing"})

(* The finished deck lists every section it draws, in the order of its slides.      *)
AgendaInDeckOrder ==
  pc = "done" => SelectSeq(agenda, LAMBDA x : x # "scope" \/ x \in Range(Chapters)) = Chapters

(* tests/test_phase3_layout_viz_appendix.py: the contents page lists only sections  *)
(* that exist.                                                                      *)
AgendaListsOnlyDrawn == pc = "done" => Range(agenda) \subseteq Range(Chapters)
=============================================================================
