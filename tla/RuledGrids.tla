------------------------------- MODULE RuledGrids -------------------------------
(***************************************************************************)
(* Tables inside ruling (extraction/ruled_source_tables.py): a region whose  *)
(* column headings are repeated is split into the tables it encloses, the    *)
(* lines of a table are joined into rows, and small print below it becomes   *)
(* its notes.                                                                *)
(***************************************************************************)
EXTENDS Integers, SequencesExt, FiniteSetsExt

CONSTANTS
  Regions,   \* sequences of lines inside the ruling
  Below,     \* sequences of lines below it
  Window     \* how far the first row is looked for, past the length of the headings

VARIABLES
  pc,
  lines,     \* [kind, key, colon, indent]
  below,
  index,     \* the line that is compared with the headings
  cuts,      \* where tables begin, after the first
  tables,    \* sequences of rows: [kind, lines, colon]
  notes,     \* footnotes: sequences of lines
  collecting

vars == <<pc, lines, below, index, cuts, tables, notes, collecting>>

Is(i, kind) == lines[i].kind = kind
HasLabel(i) == lines[i].kind \in {"label", "row"}
HasValues(i) == lines[i].kind \in {"row", "text", "values"}

\* _body_start: the first row with a label and values, and the labels right above it.
BodyStart(from, to) ==
  LET rows == {i \in from..to : Is(i, "row")}
      some == {i \in from..to : Is(i, "values")}
      first == IF rows # {} THEN Min(rows) ELSE IF some # {} THEN Min(some) ELSE to + 1
  IN Min({i \in from..first : \A k \in i..(first - 1) : Is(k, "label")})

Headings == {i \in 1..(BodyStart(1, Len(lines)) - 1) : TRUE}

-----------------------------------------------------------------------------
(* A region that encloses several tables *)

\* Mutant: one line that is repeated begins a table.
RepeatsOne(i, following) == \E h \in Headings : Is(i, "head") /\ lines[h].key = lines[i].key

\* Headings repeated in their order, two of them or more, from a line to the next row.
Repeats(i, following) ==
  \E h \in Headings, j \in i..(following - 1), g \in Headings :
    /\ Is(i, "head") /\ lines[h].key = lines[i].key /\ \A k \in Headings : lines[k].key = lines[i].key => h <= k
    /\ Is(j, "head") /\ g > h /\ lines[g].key = lines[j].key /\ lines[j].key # lines[i].key

\* A date right above the repeated headings belongs to them.
DatesAbove(i, lower) ==
  Min({i} \cup {k \in (i - 3)..(i - 1) : k >= lower /\ \A d \in k..(i - 1) : Is(d, "date")})

Split ==
  /\ pc = "split" /\ index <= Len(lines)
  /\ LET first == BodyStart(1, Len(lines))
         rows == {j \in (index + 1)..Len(lines) : Is(j, "row") /\ j < index + first - 1 + Window}
         following == Min(rows)
     IN IF rows # {} /\ Repeats(index, following)
        THEN /\ cuts' = Append(cuts, DatesAbove(index, IF cuts = <<>> THEN first + 1 ELSE Last(cuts) + 1))
             /\ index' = following + 1
        ELSE cuts' = cuts /\ index' = index + 1
  /\ UNCHANGED <<pc, lines, below, tables, notes, collecting>>

Blocks ==
  LET starts == <<1>> \o cuts
  IN [n \in DOMAIN starts |-> <<starts[n], IF n = Len(starts) THEN Len(lines) ELSE starts[n + 1] - 1>>]

-----------------------------------------------------------------------------
(* The rows of a table *)

RowOf(i) == [label |-> HasLabel(i), values |-> HasValues(i), lines |-> <<i>>, colon |-> lines[i].colon,
             indent |-> lines[i].indent]

\* Mutant: the label above a row is dropped when the row is indented below it.
JoinedWithoutLabel(prior, row) == [row EXCEPT !.label = TRUE]

\* The label of a row begins on the line above it.
JoinedWithLabel(prior, row) == [row EXCEPT !.lines = prior.lines \o row.lines, !.label = TRUE]

\* _grid: a line without values ends the label above it, a label above an indented row
\* begins it, and text without a label continues the row above it.
Merged(rows, i) ==
  LET row == RowOf(i)
      prior == Last(rows)
  IN IF rows = <<>> THEN <<row>>
     ELSE IF ~row.values /\ row.label /\ ~row.colon /\ ~prior.values
     THEN Append(Front(rows), [prior EXCEPT !.lines = Append(@, i), !.colon = FALSE])
     ELSE IF row.values /\ row.label /\ ~prior.values /\ ~prior.colon /\ row.indent > prior.indent
     THEN Append(Front(rows), JoinedWithLabel(prior, row))
     ELSE IF ~row.label /\ Is(i, "text")
     THEN Append(Front(rows), [prior EXCEPT !.lines = Append(@, i)])
     ELSE Append(rows, row)

Grid ==
  /\ pc = "split" /\ index > Len(lines) /\ pc' = "notes"
  /\ tables' = [n \in DOMAIN Blocks |->
       LET from == Blocks[n][1]
           to == Blocks[n][2]
           body == BodyStart(from, to)
       IN [heads |-> from..(body - 1),
           rows |-> FoldLeft(Merged, <<>>, [k \in 1..(to - body + 1) |-> body + k - 1])]]
  /\ UNCHANGED <<lines, below, index, cuts, notes, collecting>>

-----------------------------------------------------------------------------
(* Small print *)

\* Mutant: a new marker continues the note before it.
OneNote(kind) == kind = "marker" /\ notes = <<>>

Opens(kind) == kind = "marker"

\* _notes: a marker begins a note, print of its size continues it, anything else ends the notes.
ReadNote ==
  /\ pc = "notes" /\ below # <<>>
  /\ LET line == Head(below)
     IN IF Opens(line.kind)
        THEN notes' = Append(notes, <<line>>) /\ collecting' = TRUE /\ below' = Tail(below)
        ELSE IF collecting /\ line.kind \in {"small", "marker"}
        THEN notes' = Append(Front(notes), Append(Last(notes), line)) /\ below' = Tail(below) /\ UNCHANGED collecting
        ELSE notes' = notes /\ below' = (IF collecting THEN <<>> ELSE Tail(below)) /\ UNCHANGED collecting
  /\ UNCHANGED <<pc, lines, index, cuts, tables>>

Init ==
  /\ pc = "split" /\ lines \in Regions /\ below \in Below
  /\ index = BodyStart(1, Len(lines)) + 1
  /\ cuts = <<>> /\ tables = <<>> /\ notes = <<>> /\ collecting = FALSE

Next == Split \/ Grid \/ ReadNote

Spec == Init /\ [][Next]_vars

-----------------------------------------------------------------------------
(* No line of a region is lost or read twice: it is a heading of one table or part  *)
(* of one of its rows, in the order of the page.                                    *)
LinesOfOneTable ==
  tables # <<>> =>
    FlattenSeq([n \in DOMAIN tables |->
      SetToSortSeq(tables[n].heads, <) \o FlattenSeq([k \in DOMAIN tables[n].rows |-> tables[n].rows[k].lines])])
      = [i \in DOMAIN lines |-> i]

(* Headings that are repeated before a row head that row: they are never among the   *)
(* rows of the table above.  A single line that is repeated parts nothing.           *)
HeadingsHeadTheirRows ==
  /\ tables # <<>> => \A i \in DOMAIN lines :
       (/\ i > BodyStart(1, Len(lines)) /\ i + 2 <= Len(lines)
        /\ lines[i] = lines[1] /\ lines[i + 1] = lines[2] /\ Is(i + 2, "row"))
       => \E n \in DOMAIN tables : {i, i + 1} \subseteq tables[n].heads
  /\ \A n \in 2..Len(tables) :
     LET heads == {lines[i].key : i \in {k \in tables[n].heads : Is(k, "head")}}
         first == {lines[i].key : i \in {k \in tables[1].heads : Is(k, "head")}}
     IN Cardinality(heads \cap first) >= 2

(* Notes are kept apart: each begins with its marker and holds only what follows it  *)
(* in small print.                                                                   *)
NotesApart ==
  \A n \in DOMAIN notes :
    /\ notes[n][1].kind = "marker"
    /\ \A k \in 2..Len(notes[n]) : notes[n][k].kind = "small"
=============================================================================
