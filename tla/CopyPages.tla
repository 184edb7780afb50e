------------------------------- MODULE CopyPages -------------------------------
(***************************************************************************)
(* Pages of prose in the deck: the findings of the summary                   *)
(* (services/presentation_summary.py), the introduction's profile            *)
(* (services/presentation_brief.py) and the closing, whose conclusions stay  *)
(* beside the values they rest on (services/presentation_closing.py).  Copy  *)
(* is measured in lines; what a page cannot take continues on another, and   *)
(* nothing is shortened.                                                     *)
(***************************************************************************)
EXTENDS Integers, SequencesExt, FiniteSetsExt

CONSTANTS
  Findings,       \* sequences of findings: lines of title and text, table, technical wording
  Conclusions,    \* sequences of conclusions: lines of copy, observations, periods of their table
  Records,        \* observations the closing selected
  First,          \* lines of a section's first page
  Continued,      \* lines of its later pages, whose title is longer
  TitleSpace,     \* lines a page without subtitle gains
  RecordRows      \* rows of a page of further values

VARIABLES
  pc,
  items,          \* the findings or conclusions to show
  layout,         \* of the summary: columns, whether pages are budgeted
  left,           \* pieces that no page shows yet
  tight,          \* pages use the space of the subtitle
  pages           \* pages drawn: the pieces of each, in order

vars == <<pc, items, layout, left, tight, pages>>

Ceil(n, k) == (n + k - 1) \div k
SumOf(s) == FoldLeft(LAMBDA a, b : a + b, 0, s)

\* A piece of an item: lines of its heading, and of the text.  Lines of a title that
\* became text precede the first.
Piece(i, title, from, to) == [item |-> i, title |-> title, from |-> from, to |-> to]
Whole(i) == Piece(i, items[i].title, 1, items[i].text)
Lines(p) == p.to - p.from + 1

Single(p) == p.title + Lines(p) + 1
Small(p) == p.title + Ceil(3 * Lines(p), 4) + 1
Paired(p) == 2 * p.title + 2 * Lines(p) + 1

Heights(ps, Measure(_)) == SumOf([i \in DOMAIN ps |-> Measure(ps[i])])

Capacity == (IF pages = <<>> THEN First ELSE Continued) + (IF tight THEN TitleSpace ELSE 0)

-----------------------------------------------------------------------------
(* The summary *)

\* All ways to divide n findings into consecutive pages, by the number on each.
Divisions(n) ==
  {d \in UNION {[1..k -> 1..n] : k \in 0..n} : SumOf(d) = n}

OnPage(ps, d, k) == SubSeq(ps, SumOf(SubSeq(d, 1, k - 1)) + 1, SumOf(SubSeq(d, 1, k)))

Feasible(ps, capacity, Measure(_)) ==
  {d \in Divisions(Len(ps)) : \A k \in DOMAIN d : Heights(OnPage(ps, d, k), Measure) <= capacity}

Fewest(ps, capacity) ==
  {Len(d) : d \in Feasible(ps, capacity, Single) \cup Feasible(ps, capacity, Small)}

\* The fewest pages, and among them the larger type and the most even pages.
Square(ps, d, Measure(_)) ==
  SumOf([k \in DOMAIN d |-> Heights(OnPage(ps, d, k), Measure) * Heights(OnPage(ps, d, k), Measure)])

Even(ps, capacity, Measure(_), n) ==
  LET ds == {d \in Feasible(ps, capacity, Measure) : Len(d) = n}
  IN {d \in ds : \A e \in ds : Square(ps, d, Measure) <= Square(ps, e, Measure)}

Balanced(ps, capacity) ==
  LET n == Min(Fewest(ps, capacity))
  IN IF Even(ps, capacity, Single, n) # {} THEN Even(ps, capacity, Single, n) ELSE Even(ps, capacity, Small, n)

\* The title and the text in one paragraph.
RunIn(ps) == [i \in DOMAIN ps |-> [ps[i] EXCEPT !.title = 0, !.from = Min({1, 2 - ps[i].title})]]
LongerBy(a, b) == b = {} \/ (a # {} /\ Min(a) < Min(b))

\* Before the first page of a budgeted summary: space of the subtitle, and headings that
\* run into the text, if they save a page.
Prepare ==
  /\ pc = "preparing" /\ pc' = "summary"
  /\ LET plain == Fewest(left, First)
         close == Fewest(left, First + TitleSpace)
         run == Fewest(RunIn(left), First + TitleSpace)
         best == IF LongerBy(close, plain) THEN close ELSE plain
     IN IF layout.columns = 1 /\ layout.budget /\ left # <<>>
        THEN /\ IF (best = {} \/ Min(best) > 1) /\ LongerBy(run, best)
                THEN tight' = TRUE /\ left' = RunIn(left)
                ELSE tight' = LongerBy(close, plain) /\ UNCHANGED left
        ELSE UNCHANGED <<tight, left>>
  /\ UNCHANGED <<items, layout, pages>>

\* Rows of two columns; an odd last finding takes the full width.
RowHeight(ps, i) ==
  IF i = Len(ps) THEN Single(ps[i])
  ELSE IF Paired(ps[i]) > Paired(ps[i + 1]) THEN Paired(ps[i]) ELSE Paired(ps[i + 1])

PairedHeight(ps) == SumOf([k \in 1..Ceil(Len(ps), 2) |-> RowHeight(ps, 2 * k - 1)])

FitsRows(ps) ==
  \/ Heights(ps, Single) <= Capacity
  \/ layout.columns = 2 /\ PairedHeight(ps) <= Capacity

\* Mutant: a title that becomes text is measured without its lines.
SplitUnmeasured(p, capacity) ==
  LET body == IF p.title + 2 > capacity THEN [p EXCEPT !.title = 0] ELSE p
      taken == capacity - body.title - 1
  IN <<[body EXCEPT !.to = Min({p.to, body.from + taken})], [body EXCEPT !.from = Min({p.to, body.from + taken})]>>

\* A long finding continues; a title too long for a page moves into the text.
Split(p, capacity) ==
  LET body == IF p.title + 2 > capacity THEN [p EXCEPT !.title = 0, !.from = p.from - p.title] ELSE p
      taken == capacity - body.title - 1
  IN IF taken >= Lines(body) THEN <<body>>
     ELSE <<[body EXCEPT !.to = body.from + taken - 1], [body EXCEPT !.from = body.from + taken]>>

\* The next page of the summary: balanced pages of complete findings, or as many as fit,
\* or the beginning of one.
SummaryPage ==
  /\ pc = "summary" /\ left # <<>>
  /\ LET balanced == layout.columns = 1 /\ Fewest(left, Capacity) # {}
         counts == {n \in 1..Min({8, Len(left)}) : FitsRows(SubSeq(left, 1, n))}
         Take(n) == /\ pages' = Append(pages, SubSeq(left, 1, n))
                    /\ left' = SubSeq(left, n + 1, Len(left))
     IN IF balanced THEN \E d \in Balanced(left, Capacity) : Take(d[1])
        ELSE IF counts # {} THEN Take(Max(counts))
        ELSE LET parts == Split(left[1], Capacity)
             IN /\ pages' = Append(pages, <<parts[1]>>)
                /\ left' = Tail(parts) \o Tail(left)
  /\ UNCHANGED <<pc, items, layout, tight>>

\* Comparisons follow the plain findings, each complete on pages of its own.
Comparisons ==
  /\ pc = "summary" /\ left = <<>> /\ pc' = "done"
  /\ LET tables == SelectSeq([i \in DOMAIN items |-> i], LAMBDA i : items[i].table)
     IN pages' = pages \o [k \in DOMAIN tables |-> <<Whole(tables[k])>>]
  /\ UNCHANGED <<items, layout, left, tight>>

-----------------------------------------------------------------------------
(* The profile *)

SplitAll(p) ==
  LET size == Continued - p.title - 1
      n == Ceil(Lines(p), size)
  IN [k \in 1..n |-> [p EXCEPT !.from = p.from + (k - 1) * size, !.to = Min({p.from + k * size - 1, p.to})]]

\* Three or four facts share one page if each fits its cell.
Grid(ps) == Len(ps) \in 3..4 /\ \A i \in DOMAIN ps : 2 * Single(ps[i]) <= Continued

\* Mutant: groups are filled without counting what they hold.
GroupedLoosely(ps) == [k \in 1..Ceil(Len(ps), 2) |-> SubSeq(ps, 2 * k - 1, Min({2 * k, Len(ps)}))]

\* Pages are filled in order.
Grouped(ps) ==
  FoldLeft(LAMBDA groups, p :
             IF groups # <<>> /\ Heights(groups[Len(groups)], Single) + Single(p) <= Continued
             THEN [groups EXCEPT ![Len(groups)] = Append(@, p)] ELSE Append(groups, <<p>>), <<>>, ps)

\* Every page reserves the space of a continued title.  A heading of more than two lines
\* has no page.
Profile ==
  /\ pc = "profile"
  /\ IF \E p \in Range(left) : p.title > 2
     THEN pc' = "refused" /\ UNCHANGED <<pages, left>>
     ELSE /\ pc' = "done" /\ left' = <<>>
          /\ pages' = IF Grid(left) THEN <<left>>
                      ELSE Grouped(FlattenSeq([i \in DOMAIN left |-> SplitAll(left[i])]))
  /\ UNCHANGED <<items, layout, tight>>

-----------------------------------------------------------------------------
(* The closing *)

\* Conclusions with tables of the same periods share one; its rows are the union.
Bundle(cs) == [members |-> cs,
               height |-> SumOf([k \in DOMAIN cs |-> items[cs[k]].text])
                            + Cardinality(UNION {items[cs[k]].observations : k \in DOMAIN cs}) + 1]

Periods == {items[i].periods : i \in DOMAIN items}
FirstWith(p) == Min({i \in DOMAIN items : items[i].periods = p})
Batch(p) == SelectSeq([i \in DOMAIN items |-> i], LAMBDA i : items[i].periods = p)
Batches ==
  LET firsts == SelectSeq([i \in DOMAIN items |-> i], LAMBDA i : FirstWith(items[i].periods) = i)
  IN [k \in DOMAIN firsts |-> Batch(items[firsts[k]].periods)]

\* A batch too tall for a page is divided into the fewest bundles that fit.
DivisionsThatFit(batch) ==
  {d \in Divisions(Len(batch)) : \A k \in DOMAIN d : Bundle(OnPage(batch, d, k)).height <= First}

Bundles(batch) ==
  LET ds == DivisionsThatFit(batch)
      n == Min({Len(d) : d \in ds})
      Gaps(d) == SumOf([k \in DOMAIN d |-> (First - Bundle(OnPage(batch, d, k)).height)
                                             * (First - Bundle(OnPage(batch, d, k)).height)])
      best == CHOOSE d \in {e \in ds : Len(e) = n} : \A e \in ds : Len(e) = n => Gaps(d) <= Gaps(e)
  IN [k \in DOMAIN best |-> Bundle(OnPage(batch, best, k))]

\* Mutant: an earlier gap takes a bundle that stays pending.
PlacedTwice(bundles) ==
  FoldLeft(LAMBDA acc, b : IF acc # <<>> /\ SumOf([k \in DOMAIN acc[Len(acc)] |-> acc[Len(acc)][k].height]) + b.height <= First
                           THEN Append([acc EXCEPT ![Len(acc)] = Append(@, b)], <<b>>) ELSE Append(acc, <<b>>), <<>>, bundles)

\* The first pending bundle that fits goes to the current page.
Placed(bundles) ==
  LET Room(page) == First - SumOf([k \in DOMAIN page |-> page[k].height])
      Place(state, step) ==
        LET current == state.pages[Len(state.pages)]
            fitting == {i \in DOMAIN state.pending : state.pending[i].height <= Room(current)}
            taken == Min(fitting)
        IN IF state.pending = <<>> THEN state
           ELSE IF fitting = {} THEN [state EXCEPT !.pages = Append(@, <<>>)]
           ELSE [pages |-> [state.pages EXCEPT ![Len(state.pages)] = Append(@, state.pending[taken])],
                 pending |-> RemoveAt(state.pending, taken)]
  IN FoldLeft(Place, [pages |-> << <<>> >>, pending |-> bundles], [k \in 1..(2 * Len(bundles)) |-> k]).pages

\* Bundles are drawn where they were placed, or below a longer title one page later.
Drawn(bundles) ==
  FoldLeft(LAMBDA acc, b :
             LET used == SumOf([k \in DOMAIN acc[Len(acc)] |-> acc[Len(acc)][k].height])
             IN IF acc[Len(acc)] # <<>> /\ used + b.height > (IF Len(acc) = 1 THEN First ELSE Continued)
                THEN Append(acc, <<b>>) ELSE [acc EXCEPT ![Len(acc)] = Append(@, b)],
           << <<>> >>, bundles)

CopyOf(page) == FlattenSeq([k \in DOMAIN page |-> [j \in DOMAIN page[k].members |-> Whole(page[k].members[j])]])

\* Values no conclusion used follow in tables of their own.
Further == Records \ UNION {items[i].observations : i \in DOMAIN items}
FurtherPages == [k \in 1..Ceil(Cardinality(Further), RecordRows) |-> <<>>]

\* Linked conclusions keep their values beside them.  When a conclusion has no values, or
\* a bundle does not fit a page, the pages of plain copy take over.
Closing ==
  /\ pc = "closing"
  /\ LET linked == \A i \in DOMAIN items : items[i].observations # {} /\ items[i].observations \subseteq Records
         possible == linked /\ \A k \in DOMAIN Batches : DivisionsThatFit(Batches[k]) # {}
         drawn == Drawn(FlattenSeq(Placed(FlattenSeq([k \in DOMAIN Batches |-> Bundles(Batches[k])]))))
         fits == \A k \in 2..Len(drawn) : \A b \in Range(drawn[k]) : b.height <= Continued
     IN IF possible /\ fits
        THEN /\ pages' = [k \in DOMAIN drawn |-> CopyOf(drawn[k])] \o FurtherPages
             /\ left' = <<>> /\ pc' = "done"
        ELSE pc' = "profile" /\ UNCHANGED <<pages, left>>
  /\ UNCHANGED <<items, layout, tight>>

-----------------------------------------------------------------------------
Plain(s) == SelectSeq([i \in DOMAIN s |-> i], LAMBDA i : ~s[i].table)
Pieces(is) == [k \in DOMAIN is |-> Whole(is[k])]

Init ==
  /\ pages = <<>> /\ tight = FALSE
  /\ \/ /\ pc = "preparing" /\ items \in Findings
        /\ layout \in [columns : 1..2, budget : BOOLEAN]
        /\ left = Pieces(Plain(items))
     \/ /\ pc = "profile" /\ items \in Findings /\ layout = [columns |-> 1, budget |-> FALSE]
        /\ \A i \in DOMAIN items : ~items[i].table
        /\ left = Pieces(SelectSeq([i \in DOMAIN items |-> i], LAMBDA i : ~items[i].technical))
     \/ /\ pc = "closing" /\ items \in Conclusions /\ layout = [columns |-> 1, budget |-> FALSE]
        /\ left = Pieces([i \in DOMAIN items |-> i])

Next == Prepare \/ SummaryPage \/ Comparisons \/ Profile \/ Closing

Spec == Init /\ [][Next]_vars

-----------------------------------------------------------------------------
LinesShown(i) ==
  LET shown == SelectSeq(FlattenSeq(pages), LAMBDA p : p.item = i)
  IN FlattenSeq([k \in DOMAIN shown |-> [j \in 1..Lines(shown[k]) |-> shown[k].from + j - 1]])

(* Every line of the copy is shown, once and in order, however it was divided.      *)
CopyComplete ==
  pc = "done" =>
    \A i \in DOMAIN items : items[i].technical \/
      \E from \in (1 - items[i].title)..1 : LinesShown(i) = [j \in 1..(items[i].text - from + 1) |-> from + j - 1]

(* No page of plain copy holds more than it has room for.                           *)
CopyFits ==
  \A k \in DOMAIN pages :
    \/ pages[k] = <<>> \/ items[pages[k][1].item].table \/ Grid(pages[k])
    \/ Heights(pages[k], Small) <= (IF k = 1 THEN First ELSE Continued) + (IF tight THEN TitleSpace ELSE 0)
=============================================================================
