------------------------------ MODULE TablePages ------------------------------
(***************************************************************************)
(* Source tables in the deck.  A table the reader asked for is split into    *)
(* column groups and batches of rows, its long cells into segments; short    *)
(* blocks are then stacked, and every cell is compared with the source       *)
(* before the deck is published (services/requested_tables.py).  Evidence    *)
(* tables that were drawn one to a page are packed without splitting one     *)
(* (services/evidence_page_packing.py).                                      *)
(***************************************************************************)
EXTENDS Integers, SequencesExt, FiniteSetsExt

CONSTANTS
  Requests,       \* requested tables, in order: section, header lines of each column, lines of each cell
  Evidence,       \* evidence pages, in order: its tables, each with a loose and a compact height
  GroupWidth,     \* columns beside the label column
  PageHeight,     \* lines of a page
  LabelHeight     \* lines of a table's label

VARIABLES
  pc,
  tables,         \* the requested tables
  pages,          \* pages of source tables: section, blocks in order, height used
  next,           \* the next table to render, or page to pack
  evidence,       \* evidence pages before packing
  packed          \* evidence pages after it

vars == <<pc, tables, pages, next, evidence, packed>>

Ceil(n, k) == (n + k - 1) \div k
SumOf(s) == FoldLeft(LAMBDA a, b : a + b, 0, s)
MaxOf(s) == FoldLeft(LAMBDA a, b : IF b > a THEN b ELSE a, 0, s)

-----------------------------------------------------------------------------
(* A requested table *)

Columns(t) == Len(t.cells[1])

\* Mutant: a last, incomplete group is left out.
FullGroups(t) ==
  [g \in 1..((Columns(t) - 1) \div GroupWidth) |->
     <<1>> \o [i \in 1..GroupWidth |-> (g - 1) * GroupWidth + i + 1]]

\* A wide table is shown in groups of columns, each after the labels of its rows; spans
\* of the header that cover all columns are its groups.
Groups(t) ==
  IF Columns(t) <= GroupWidth + 1 THEN <<[i \in 1..Columns(t) |-> i]>>
  ELSE IF t.spans # <<>> THEN [g \in DOMAIN t.spans |-> <<1>> \o t.spans[g]]
  ELSE [g \in 1..Ceil(Columns(t) - 1, GroupWidth) |->
          <<1>> \o [i \in 1..Min({GroupWidth, Columns(t) - 1 - (g - 1) * GroupWidth}) |-> (g - 1) * GroupWidth + i + 1]]

HeaderHeight(t, columns) == MaxOf([i \in DOMAIN columns |-> t.header[columns[i]]])

\* Room for rows: each column group has the header of its own columns.
Available(t, columns) == PageHeight - LabelHeight - HeaderHeight(t, columns)

\* The lines of a cell that its segment shows in a group.
SegmentText(t, columns, r, c, s) ==
  s * Available(t, columns) + 1 .. Min({(s + 1) * Available(t, columns), t.cells[r][c]})

\* Each row has as many segments as its longest cell needs.
RowPieces(t, columns) ==
  FlattenSeq([r \in DOMAIN t.cells |->
    LET longest == MaxOf([i \in DOMAIN columns |-> t.cells[r][columns[i]]])
        room == Available(t, columns)
    IN [k \in 1..Max({1, Ceil(longest, room)}) |->
          [row |-> r, segment |-> k - 1, height |-> Max({1, Min({room, longest - (k - 1) * room})})]]])

Height(batch) == SumOf([i \in DOMAIN batch |-> batch[i].height])

Batches(t, columns) ==
  LET Add(batches, piece) ==
        LET last == batches[Len(batches)]
        IN IF last # <<>> /\ Height(last) + piece.height > Available(t, columns) THEN Append(batches, <<piece>>)
           ELSE [batches EXCEPT ![Len(batches)] = Append(@, piece)]
  IN FoldLeft(Add, << <<>> >>, RowPieces(t, columns))

\* Mutant: a short last batch takes rows without regard to the page.
EvenedFreely(t, columns, batches) ==
  LET n == Len(batches)  all == batches[n - 1] \o batches[n]
  IN IF n > 1 /\ Len(batches[n]) < 3
     THEN [batches EXCEPT ![n - 1] = SubSeq(all, 1, Len(all) \div 2), ![n] = SubSeq(all, Len(all) \div 2 + 1, Len(all))]
     ELSE batches

\* A last batch of one or two rows takes rows of the one before while they fit.
Evened(t, columns, batches) ==
  LET n == Len(batches)
      Fits(k) == LET moved == SubSeq(batches[n - 1], Len(batches[n - 1]) - k + 1, Len(batches[n - 1]))
                 IN /\ Len(batches[n - 1]) - k + 1 > Len(batches[n]) + k
                    /\ Height(moved) + Height(batches[n]) <= Available(t, columns)
      counts == {k \in 0..Len(batches[n - 1]) : \A j \in 1..k : Fits(j)}
      k == Max(counts)
      m == Len(batches[n - 1])
  IN IF n = 1 THEN batches
     ELSE IF Len(batches[n]) >= 3 THEN batches
     ELSE [batches EXCEPT ![n - 1] = SubSeq(batches[n - 1], 1, m - k),
                          ![n] = SubSeq(batches[n - 1], m - k + 1, m) \o batches[n]]

Block(i, columns, batch) == [table |-> i, columns |-> columns, pieces |-> batch,
                             height |-> LabelHeight + HeaderHeight(tables[i], columns) + Height(batch)]

\* One page for each batch of each column group; headers that leave no room fail.
RenderTable ==
  /\ pc = "tables" /\ next <= Len(tables)
  /\ LET t == tables[next]
         new == FlattenSeq([g \in DOMAIN Groups(t) |->
                  LET columns == Groups(t)[g]
                      batches == Evened(t, columns, Batches(t, columns))
                  IN [b \in DOMAIN batches |->
                        [section |-> t.section, blocks |-> <<Block(next, columns, batches[b])>>]]])
     IN IF \E columns \in Range(Groups(t)) : Available(t, columns) < 1
        THEN pc' = "refused" /\ UNCHANGED <<pages, next>>
        ELSE pages' = pages \o new /\ next' = next + 1 /\ UNCHANGED pc
  /\ UNCHANGED <<tables, evidence, packed>>

-----------------------------------------------------------------------------
(* Stacking short blocks *)

Used(p) == SumOf([i \in DOMAIN p.blocks |-> p.blocks[i].height])

\* The nearest earlier page of the same section with room, none beyond another section.
Stack(kept, p) ==
  LET run == {i \in DOMAIN kept : \A j \in i..Len(kept) : kept[j].section = p.section}
      fitting == {i \in run : Used(kept[i]) + Used(p) <= PageHeight}
  IN IF fitting = {} THEN Append(kept, p)
     ELSE [kept EXCEPT ![Max(fitting)].blocks = @ \o p.blocks]

StackTables ==
  /\ pc = "tables" /\ next > Len(tables) /\ pc' = "verifying"
  /\ pages' = FoldLeft(Stack, <<>>, pages)
  /\ UNCHANGED <<tables, next, evidence, packed>>

\* The segments of a cell on the pages, each with the lines it shows.
Shown(i, r, c) ==
  LET blocks == {b \in UNION {Range(p.blocks) : p \in Range(pages)} : b.table = i /\ c \in Range(b.columns)}
  IN UNION {{[segment |-> x.segment, text |-> SegmentText(tables[i], b.columns, r, c, x.segment)] :
               x \in {y \in Range(b.pieces) : y.row = r}} : b \in blocks}

\* A segment that column groups repeat has the same text in each ("Repeated requested
\* table cell changed"); the segments follow each other and join up to the cell.
CellComplete(i, r, c) ==
  LET shown == Shown(i, r, c)
  IN /\ shown # {} /\ {x.segment : x \in shown} = 0..(Cardinality(shown) - 1)
     /\ SumOf([k \in 1..Cardinality(shown) |-> Cardinality((CHOOSE x \in shown : x.segment = k - 1).text)]) = tables[i].cells[r][c]

TableComplete(i) ==
  \A r \in DOMAIN tables[i].cells : \A c \in 1..Columns(tables[i]) : CellComplete(i, r, c)

Verify ==
  /\ pc = "verifying" /\ next' = 1
  /\ pc' = IF \A i \in DOMAIN tables : TableComplete(i) THEN "evidence" ELSE "refused"
  /\ UNCHANGED <<tables, pages, evidence, packed>>

-----------------------------------------------------------------------------
(* Evidence tables *)

Loose(ts) == SumOf([i \in DOMAIN ts |-> ts[i].loose])
Compacted(ts) == SumOf([i \in DOMAIN ts |-> ts[i].compact])
FitsPage(ts) == Loose(ts) <= PageHeight \/ Compacted(ts) <= PageHeight

\* Mutant: the page is removed although only some of its tables moved.
PackWhole(target, page) ==
  LET counts == {k \in 1..Len(page) : FitsPage(packed[target] \o SubSeq(page, 1, k))}
  IN [packed EXCEPT ![target] = @ \o SubSeq(page, 1, Max(counts))]

\* The largest prefix of a page's tables that fits moves; the rest stay on it.
PackPrefix(target, page) ==
  LET counts == {k \in 1..Len(page) : IF k = Len(page) THEN FitsPage(packed[target] \o page)
                                      ELSE Compacted(packed[target] \o SubSeq(page, 1, k)) <= PageHeight}
      k == Max(counts)
      moved == [packed EXCEPT ![target] = @ \o SubSeq(page, 1, k)]
  IN IF counts = {} THEN Append(packed, page)
     ELSE IF k = Len(page) THEN moved
     ELSE Append(moved, SubSeq(page, k + 1, Len(page)))

\* First fit looks for an earlier page that takes the page whole; otherwise the last one
\* is tried.
PackNext ==
  /\ pc = "evidence" /\ next <= Len(evidence)
  /\ \E firstFit \in BOOLEAN :
       LET page == evidence[next]
           whole == {i \in DOMAIN packed : packed[i] # <<>> /\ page # <<>> /\ Compacted(packed[i] \o page) <= PageHeight}
           target == IF firstFit /\ whole # {} THEN Min(whole) ELSE Len(packed)
       IN packed' = IF packed = <<>> \/ page = <<>> THEN Append(packed, page)
                    ELSE IF packed[target] = <<>> THEN Append(packed, page)
                    ELSE PackPrefix(target, page)
  /\ next' = next + 1
  /\ UNCHANGED <<pc, tables, pages, evidence>>

Finish ==
  /\ pc = "evidence" /\ next > Len(evidence) /\ pc' = "done"
  /\ UNCHANGED <<tables, pages, next, evidence, packed>>

Init ==
  /\ pc = "tables" /\ next = 1 /\ tables \in Requests /\ evidence \in Evidence
  /\ pages = <<>> /\ packed = <<>>

Next == RenderTable \/ StackTables \/ Verify \/ PackNext \/ Finish

Spec == Init /\ [][Next]_vars

-----------------------------------------------------------------------------
\* A label longer than the room of a column group, cut differently in another.
CutDifferently(t) ==
  \E r \in DOMAIN t.cells, g, h \in Range(Groups(t)) :
    Available(t, g) < t.cells[r][1] /\ Available(t, g) # Available(t, h)

(* Rendering, evening and stacking leave out no line of a requested table, and the   *)
(* verification that follows refuses only a table whose column groups must cut one   *)
(* of its labels differently.                                                        *)
RequestedTablesShown ==
  pc = "verifying" =>
    \A i \in DOMAIN tables :
      /\ \A r \in DOMAIN tables[i].cells : \A c \in 1..Columns(tables[i]) :
           UNION {x.text : x \in Shown(i, r, c)} = 1..tables[i].cells[r][c]
      /\ CutDifferently(tables[i]) \/ TableComplete(i)

(* No page of source tables or of evidence holds more than it can show.             *)
TablePagesFit ==
  /\ \A p \in Range(pages) : Used(p) <= PageHeight
  /\ \A ts \in Range(packed) : ts \in Range(evidence) \/ FitsPage(ts)

(* Packing loses no evidence table and shows none twice.                            *)
EvidenceTablesKept ==
  LET Names(ps) == [i \in DOMAIN FlattenSeq(ps) |-> FlattenSeq(ps)[i].name]
      seen == Names(packed)  given == Names(SubSeq(evidence, 1, next - 1))
  IN pc \in {"evidence", "done"} =>
       /\ Len(seen) = Len(given) /\ Range(seen) = Range(given)
=============================================================================
