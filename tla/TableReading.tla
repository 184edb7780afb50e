------------------------------ MODULE TableReading ------------------------------
(***************************************************************************)
(* From the tables of a document to its observations: tables of following    *)
(* pages are joined (extraction/table_reconstructor.py), rows are read with  *)
(* the section and the unit that are open (observation_extractor.py,         *)
(* unit_evidence.py), totals name the group before them                      *)
(* (comparison_context.py), and series are read from plain lines.            *)
(***************************************************************************)
EXTENDS Integers, SequencesExt, FiniteSetsExt

CONSTANTS
  Groups,      \* names of headings
  Scales,      \* powers of ten a unit may state
  Documents,   \* sequences of tables by page, several on one page included
  Tails,       \* what the last header line of a table may name, NoGroup included
  NoGroup,
  MaxRows,     \* bound: rows of a table
  Pages        \* sequences of lines a page may hold

VARIABLES
  pc,
  tables,      \* tables not looked at
  joined,      \* joined tables, each a sequence of tables
  rows,        \* rows of the joined table that were read, in order
  tail,
  section,     \* current_section
  lines,       \* lines of a page
  at,          \* the line to look at
  observations

vars == <<pc, tables, joined, rows, tail, section, lines, at, observations>>

-----------------------------------------------------------------------------
(* Tables that continue on the next page *)

\* Mutant: a table is compared with the part joined last.
ComparedToLast(parent) == Last(parent)

ComparedTo(parent) == Head(parent)

Unlabelled == 0

\* Mutant: a context stays that of the first part.
FirstContext(parent) == Head(parent).label

\* The first context a part states becomes that of the joined table.
Context(parent) ==
  LET stated == SelectSeq(parent, LAMBDA t : t.label # Unlabelled)
  IN IF stated = <<>> THEN Unlabelled ELSE Head(stated).label

\* _compatible: the next page, the same assurance of its columns, and no other periods
\* or context; every table of the next page is compared with the parent alone.
Compatible(parent, right) ==
  LET left == ComparedTo(parent)
  IN /\ right.page = left.page + 1 /\ left.proved /\ right.proved
     /\ Unlabelled \in {Context(parent), right.label} \/ Context(parent) = right.label
     /\ left.periods = {} \/ right.periods = {} \/ left.periods = right.periods
     /\ left.audit = right.audit

Join ==
  /\ pc = "join" /\ tables # <<>> /\ tables' = Tail(tables)
  /\ joined' = IF joined # <<>> /\ Compatible(Last(joined), Head(tables))
               THEN Front(joined) \o <<Append(Last(joined), Head(tables))>>
               ELSE Append(joined, <<Head(tables)>>)
  /\ UNCHANGED <<pc, rows, tail, section, lines, at, observations>>

-----------------------------------------------------------------------------
(* The rows of a table *)

NoScale == 0
Row(kind, of, own, cell) == [kind |-> kind, of |-> of, own |-> own, cell |-> cell]

Rows == {Row(k, NoGroup, NoScale, NoScale) : k \in {"ambiguous", "missing", "operator", "bare_total"}} \cup
        {Row(k, g, NoScale, NoScale) : k \in {"heading", "total", "subtotal"}, g \in Groups} \cup
        {Row("unit", NoGroup, s, NoScale) : s \in Scales} \cup
        {Row("item", g, NoScale, NoScale) : g \in Groups} \cup
        {Row("item", NoGroup, o, c) : o, c \in Scales \cup {NoScale}}

Numeric(row) == row.kind \in {"item", "total", "subtotal"}

\* A total of another group is no part of the section.
OtherTotal(row) == row.kind = "total" /\ row.of # section

\* Mutant: a row whose cells could not be aligned leaves its section open.
ClosesResolved(row) == row.kind \in {"unit", "operator", "bare_total", "total"}

Closes(row) == row.kind \in {"ambiguous", "unit", "operator", "bare_total", "total"}

SectionAfter(row) ==
  IF Closes(row) THEN NoGroup ELSE IF row.kind = "heading" THEN row.of ELSE section

\* standalone_unit_declaration: the nearest before the row, or the header of the table.
Declared(header) ==
  LET above == {i \in DOMAIN rows : rows[i].kind = "unit"}
  IN IF above = {} THEN header ELSE rows[Max(above)].own

\* Mutant: the scale a row states multiplies that of the table.
ScaleTwice(row, header) == IF row.cell # NoScale THEN row.cell ELSE row.own + Declared(header)

\* A scale in the cell, the one of the row, or the one of the table: one is applied.
Scale(row, header) ==
  IF row.cell # NoScale THEN row.cell ELSE IF row.own # NoScale THEN row.own ELSE Declared(header)

Observation(row) ==
  [row |-> Len(rows) + 1, section |-> IF OtherTotal(row) THEN NoGroup ELSE section,
   scale |-> Scale(row, joined[1][1].scale)]

ReadRow ==
  /\ pc = "join" /\ tables = <<>> /\ lines = <<>> /\ Len(rows) < MaxRows
  /\ \E row \in Rows :
       /\ rows' = Append(rows, row) /\ section' = SectionAfter(row)
       /\ observations' = IF Numeric(row) THEN Append(observations, Observation(row)) ELSE observations
  /\ UNCHANGED <<pc, tables, joined, tail, lines, at>>

\* Mutant: a group starts at its last heading, however many there are.
StartsLast(end, from) ==
  LET found == {i \in (from + 1)..(end - 1) : rows[i].kind \in {"heading", "item"} /\ rows[i].of = rows[end].of}
  IN IF found = {} THEN {} ELSE {Max(found)}

Starts(end, from) ==
  {i \in (from + 1)..(end - 1) : rows[i].kind \in {"heading", "item"} /\ rows[i].of = rows[end].of}

Named(i) == rows[i].kind \in {"total", "subtotal"}

\* table_comparison_contexts: the total after a row names its group, when one heading, or the
\* last line of the header, begins it.
Parent(i) ==
  LET ends == {e \in DOMAIN rows : e > i /\ Named(e)}
      end == Min(ends)
      from == Max({0} \cup {e \in 1..(end - 1) : Named(e)})
  IN IF Named(i) \/ ends = {} THEN NoGroup
     ELSE IF Cardinality(Starts(end, from)) = 1 /\ i >= Min(Starts(end, from)) /\ rows[i].kind # "ambiguous"
     THEN rows[end].of
     ELSE IF from = 0 /\ tail = rows[end].of /\ \A k \in 1..(end - 1) : rows[k].kind \in {"item", "missing"}
     THEN tail ELSE NoGroup

\* with_comparison_context: only what has no section of its own.
AddContexts ==
  /\ pc = "join" /\ rows # <<>> /\ pc' = "done"
  /\ observations' = [k \in DOMAIN observations |->
       IF observations[k].section # NoGroup THEN observations[k]
       ELSE [observations[k] EXCEPT !.section = Parent(observations[k].row)]]
  /\ UNCHANGED <<tables, joined, rows, tail, section, lines, at>>

-----------------------------------------------------------------------------
(* Series in plain lines *)

\* Mutant: a line between a label and its periods is passed over.
RunPastOthers(i) ==
  {j \in (i + 1)..Len(lines) : lines[j].kind = "period" /\ \A k \in (i + 1)..j : lines[k].kind # "label"}

\* The period lines that follow a label.
Run(i) == {j \in (i + 1)..Len(lines) : \A k \in (i + 1)..j : lines[k].kind = "period"}

ReadLine ==
  /\ pc = "text" /\ at <= Len(lines)
  /\ IF lines[at].kind = "label" /\ Cardinality(Run(at)) >= 2
     THEN /\ observations' = observations \o
               [n \in 1..Cardinality(Run(at)) |-> [metric |-> lines[at].of, period |-> lines[at + n].period, line |-> at + n]]
          /\ at' = at + Cardinality(Run(at)) + 1
     ELSE observations' = observations /\ at' = at + 1
  /\ UNCHANGED <<pc, tables, joined, rows, tail, section, lines>>

\* Mutant: facts are told apart by the line they stand on.
SameLine(a, b) == a = b

SameFact(a, b) == a.metric = b.metric /\ a.period = b.period

\* A fact a page states twice is kept where it stands first.
Dedupe ==
  /\ pc = "text" /\ at > Len(lines) /\ pc' = "done"
  /\ observations' = FoldLeft(LAMBDA kept, o : IF \E k \in Range(kept) : SameFact(k, o) THEN kept ELSE Append(kept, o),
                              <<>>, observations)
  /\ UNCHANGED <<tables, joined, rows, tail, section, lines, at>>

Init ==
  /\ joined = <<>> /\ rows = <<>> /\ section = NoGroup /\ at = 1
  /\ \/ pc = "join" /\ tables \in Documents /\ tail \in Tails /\ lines = <<>> /\ observations = <<>>
     \/ /\ pc = "text" /\ tables = <<>> /\ tail = NoGroup /\ lines \in Pages
        /\ observations = LET said == SelectSeq([i \in DOMAIN lines |-> [line |-> i, kind |-> lines[i].kind, of |-> lines[i].of, period |-> lines[i].period]],
                                                LAMBDA l : l.kind = "sentence")
                          IN [i \in DOMAIN said |->
                               [metric |-> said[i].of, period |-> said[i].period, line |-> said[i].line]]

Next == Join \/ ReadRow \/ AddContexts \/ ReadLine \/ Dedupe

Spec == Init /\ [][Next]_vars

-----------------------------------------------------------------------------
(* All parts of a joined table have the assurance of the same columns, no two state  *)
(* different contexts, and the others stand on the page after the first, whose       *)
(* periods they have or do not state; two of them may differ in their periods only   *)
(* where the first states none.                                                      *)
JoinedAgree ==
  \A n \in DOMAIN joined : \A i, j \in DOMAIN joined[n] :
    LET a == joined[n][i]  b == joined[n][j]
    IN /\ a.audit = b.audit
       /\ Unlabelled \in {a.label, b.label} \/ a.label = b.label
       /\ i = 1 /\ j > 1 => b.page = a.page + 1
       /\ {} \in {a.periods, b.periods, Head(joined[n]).periods} \/ a.periods = b.periods

(* A row is read under a group only when that group was opened before it, or the    *)
(* one total after it names what one heading began, and nothing closed it between.  *)
SectionsBound ==
  lines = <<>> => \A o \in Range(observations) : o.section # NoGroup =>
    \/ \E h \in 1..(o.row - 1) :
         /\ rows[h].kind = "heading" /\ rows[h].of = o.section
         /\ \A k \in (h + 1)..(o.row - 1) : rows[k].kind \in {"item", "subtotal", "missing"}
    \/ \E e \in (o.row + 1)..Len(rows) :
         /\ rows[e].of = o.section /\ Named(e)
         /\ \A k \in o.row..(e - 1) : ~Named(k)
         /\ Cardinality({k \in 1..(e - 1) : /\ rows[k].kind \in {"heading", "item"} /\ rows[k].of = o.section
                                            /\ \A j \in k..(e - 1) : ~Named(j)}) = 1
            \/ tail = o.section

(* One scale is applied to a value: its own, or that of the table, which is the     *)
(* same for two rows unless a unit is declared between them.                        *)
ScaledOnce ==
  lines = <<>> => \A o, p \in Range(observations) :
    /\ rows[o.row].cell # NoScale => o.scale = rows[o.row].cell
    /\ (rows[o.row].cell = NoScale /\ rows[o.row].own # NoScale) => o.scale = rows[o.row].own
    /\ /\ \A r \in {o.row, p.row} : rows[r].own = NoScale /\ rows[r].cell = NoScale
       /\ \A k \in DOMAIN rows : rows[k].kind = "unit" => (k < o.row <=> k < p.row)
       => o.scale = p.scale

(* A page gives each metric of a period once, under the label right above it.       *)
LinesReadOnce ==
  pc = "done" /\ lines # <<>> => \A i, j \in DOMAIN observations :
    /\ /\ observations[i].metric = observations[j].metric /\ observations[i].period = observations[j].period
       => i = j
    /\ LET l == observations[i].line
       IN lines[l].kind = "period" =>
            \E h \in 1..(l - 1) : /\ lines[h].kind = "label" /\ lines[h].of = observations[i].metric
                                  /\ \A k \in (h + 1)..l : lines[k].kind = "period"
=============================================================================
