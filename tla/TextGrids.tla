------------------------------- MODULE TextGrids -------------------------------
(***************************************************************************)
(* Tables without ruling (extraction/borderless_table_extractor.py,          *)
(* extraction/borderless_layout.py): lines of a page that end in values are  *)
(* grouped, a group takes the tier of years above it, and a row with fewer   *)
(* values than columns is aligned by the right edges of its values, or left  *)
(* unresolved.                                                               *)
(***************************************************************************)
EXTENDS Integers, SequencesExt, FiniteSetsExt

CONSTANTS
  Lines,      \* lines a page may hold: [kind, edges, of]; a tier of years has one edge per
              \* year, and of = 1 when its years have attached prefixes (FY2023)
  MaxLines,   \* bound: lines of a page
  Reach,      \* the lines a group may skip
  Tiers       \* sequences of lines above the first

VARIABLES
  pc,
  lines,
  groups,    \* candidate rows, as line numbers, in groups
  group,     \* the group to look at
  tables     \* tables: [header, width, rows]

vars == <<pc, lines, groups, group, tables>>

Is(i, kind) == lines[i].kind = kind
Candidates == SelectSeq([i \in DOMAIN lines |-> i], LAMBDA i : Is(i, "row"))
Edges(i) == lines[i].edges

-----------------------------------------------------------------------------
(* Groups of rows *)

\* A tier that names two or more calendar years.
PartingTier(i) == Is(i, "years") /\ Len(Edges(i)) >= 2 /\ lines[i].of = 0

\* Mutant: a tier of years between two rows does not part them.
PartedByProse(a, b) == b - a > Reach \/ \E i \in (a + 1)..(b - 1) : Is(i, "prose")

Parted(a, b) == b - a > Reach \/ \E i \in (a + 1)..(b - 1) : Is(i, "prose") \/ PartingTier(i)

ReadLines ==
  /\ pc = "lines" /\ pc' = "groups" /\ group' = 1
  /\ groups' = FoldLeft(LAMBDA gs, i : IF gs # <<>> /\ ~Parted(Last(Last(gs)), i)
                                       THEN Front(gs) \o <<Append(Last(gs), i)>> ELSE Append(gs, <<i>>),
                        <<>>, Candidates)
  /\ UNCHANGED <<lines, tables>>

-----------------------------------------------------------------------------
(* Columns *)

Width(g) == Max({Len(Edges(i)) : i \in Range(g)})

\* A tier of one year heads a group of one column only.
Heads(i, width) == Is(i, "years") /\ (width = 1 \/ Len(Edges(i)) >= 2)

\* _nearest_year_header
Header(g) ==
  LET above == {i \in 1..(g[1] - 1) : Heads(i, Width(g))} IN IF above = {} THEN 0 ELSE Max(above)

\* The middle of some positions: of the two in the middle of an even number, their mean.
Median(s) ==
  LET t == SortSeq(s, LAMBDA x, y : x < y)
  IN (t[(Len(t) + 1) \div 2] + t[Len(t) \div 2 + 1]) \div 2

Gap(edges) == Min({edges[c + 1] - edges[c] : c \in 1..(Len(edges) - 1)})
Near(x, y) == IF x > y THEN x - y ELSE y - x

\* column_anchors, header_supported_anchors: the right edges of the columns; <<>> when the rows
\* that have every value do not agree, or the only one does not stand under the years.
Anchors(g, width, header) ==
  LET full == SelectSeq(g, LAMBDA i : Len(Edges(i)) = width)
      columns == [c \in 1..width |-> Median([k \in DOMAIN full |-> Edges(full[k])[c]])]
      agree(edges, part) ==
        /\ width > 1 => Gap(edges) > 0
        /\ \A c \in 1..width : width > 1 =>
             100 * Median([k \in DOMAIN full |-> Near(Edges(full[k])[c], edges[c])]) <= part * Gap(edges)
  IN IF width = 1 THEN <<>>
     ELSE IF Len(full) > 1 THEN IF agree(columns, 18) THEN columns ELSE <<>>
     ELSE IF header # 0 /\ Len(Edges(header)) = width /\ agree(Edges(header), 25) THEN columns ELSE <<>>

Blank == 0

\* Mutant: a value goes to the column it is nearest to.
NearestColumn(x, anchors) ==
  {CHOOSE c \in DOMAIN anchors : \A d \in DOMAIN anchors : Near(anchors[c], x) <= Near(anchors[d], x)}

Column(x, anchors) == {c \in DOMAIN anchors : 10 * Near(anchors[c], x) <= 3 * Gap(anchors)}

\* align_sparse_values: the cells, which hold the place of each value; <<>> when a value has
\* no column, or two values have the same.
Aligned(edges, anchors) ==
  LET places == [k \in DOMAIN edges |-> Column(edges[k], anchors)]
  IN IF anchors = <<>> \/ ~IsInjective(places) \/ \E k \in DOMAIN edges : Cardinality(places[k]) # 1
     THEN <<>>
     ELSE [c \in DOMAIN anchors |->
             LET here == {k \in DOMAIN edges : c \in places[k]} IN IF here = {} THEN Blank ELSE Min(here)]

-----------------------------------------------------------------------------
(* Rows *)

Before(g, k) == IF k = 1 THEN {i \in 1..(g[1] - 1) : i >= g[1] - 5} ELSE (g[k - 1] + 1)..(g[k] - 1)

\* Mutant: a period counts for the row below it only.
PeriodBetween(g, k) == {i \in Before(g, k) : Is(i, "period")}

\* active_period: the last one stated above the row.
PeriodsAbove(g, k) == UNION {{i \in Before(g, j) : Is(i, "period")} : j \in 1..k}

RowOf(g, k, width, anchors) ==
  LET edges == Edges(g[k])
      full == Len(edges) = width
      aligned == Aligned(edges, anchors)
      above == PeriodsAbove(g, k)
      packed == [c \in 1..width |-> IF c <= Len(edges) THEN c ELSE Blank]
  IN [line |-> g[k], section |-> FALSE, period |-> IF above = {} THEN 0 ELSE lines[Max(above)].of,
      cells |-> IF full \/ aligned = <<>> THEN packed ELSE aligned, ambiguous |-> ~full /\ aligned = <<>>]

\* Headings between two rows become rows without values.
SectionsOf(g, k) ==
  IF k = 1 THEN <<>>
  ELSE LET texts == SelectSeq([i \in DOMAIN lines |-> i], LAMBDA i : i \in Before(g, k) /\ Is(i, "text"))
       IN [n \in DOMAIN texts |-> [line |-> texts[n], section |-> TRUE, period |-> 0, cells |-> <<>>, ambiguous |-> FALSE]]

Leaders(g) == Cardinality({i \in Range(g) : lines[i].of = 1}) >= 2
OneEdge(g) == Cardinality(UNION {Range(Edges(i)) : i \in Range(g)}) = 1 /\ Len(g) >= 2

\* A group that is too small, or has neither years nor leaders, is no table.
Kept(g) ==
  /\ Width(g) = 1 => (Leaders(g) \/ (Header(g) # 0 /\ OneEdge(g)))
  /\ \/ Len(g) >= 2
     \/ Header(g) # 0 /\ Width(g) >= 3
  /\ Header(g) # 0 \/ Leaders(g)

Tabulate ==
  /\ pc = "groups" /\ group <= Len(groups) /\ group' = group + 1
  /\ LET g == groups[group]
         width == Width(g)
         anchors == Anchors(g, width, Header(g))
     IN tables' = IF ~Kept(g) THEN tables
                  ELSE Append(tables, [header |-> Header(g), width |-> width, anchors |-> anchors,
                         rows |-> FlattenSeq([k \in DOMAIN g |-> Append(SectionsOf(g, k), RowOf(g, k, width, anchors))])])
  /\ UNCHANGED <<pc, lines, groups>>

Init ==
  /\ pc = "lines" /\ groups = <<>> /\ group = 0 /\ tables = <<>>
  /\ \E tier \in Tiers, n \in 1..MaxLines : lines \in {tier \o s : s \in [1..n -> Lines]}

Next == ReadLines \/ Tabulate

Spec == Init /\ [][Next]_vars

-----------------------------------------------------------------------------
(* Every row of a table stands under the years of the table: the tier nearest to its *)
(* first row, and no tier of calendar years is between them.  Only a tier of one     *)
(* year, or of years with attached prefixes, may stand between two rows of a table.  *)
(* A line is in one table, and the lines of a table keep their order.                *)
RowsUnderTheirYears ==
  /\ \A t \in Range(tables) : t.header # 0 => \A r \in Range(t.rows) :
       /\ t.header < r.line
       /\ \A i \in (t.header + 1)..r.line : Heads(i, t.width) =>
            ~PartingTier(i) /\ \E q \in Range(t.rows) : ~q.section /\ q.line < i
  /\ LET all == FlattenSeq([n \in DOMAIN tables |-> tables[n].rows])
     IN \A i, j \in DOMAIN all : i < j => all[i].line < all[j].line

(* A row that is read has every value of its line in a column of its own, within     *)
(* reach of the edge of that column, and the values keep their order.                *)
ValuesInPlace ==
  \A t \in Range(tables) : \A r \in {x \in Range(t.rows) : ~x.section /\ ~x.ambiguous} :
    LET edges == Edges(r.line)
    IN /\ \A k \in DOMAIN edges : Cardinality({c \in DOMAIN r.cells : r.cells[c] = k}) = 1
       /\ \A c, d \in DOMAIN r.cells : (c < d /\ Blank \notin {r.cells[c], r.cells[d]}) => r.cells[c] < r.cells[d]
       /\ Len(edges) < t.width => \A c \in DOMAIN r.cells : r.cells[c] # Blank =>
            10 * Near(t.anchors[c], edges[r.cells[c]]) <= 3 * Gap(t.anchors)

(* Two rows of a table are of the same period unless one is stated between them.     *)
PeriodCarried ==
  \A t \in Range(tables) : \A r, s \in {x \in Range(t.rows) : ~x.section} :
    (r.line < s.line /\ \A i \in (r.line + 1)..(s.line - 1) : ~Is(i, "period")) => r.period = s.period
=============================================================================
