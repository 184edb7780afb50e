------------------------------- MODULE PageTables -------------------------------
(***************************************************************************)
(* The tables of the pages of a document (extraction/table_extractor.py,     *)
(* pdf_parser.py): four readers look at a page, what they find is retained   *)
(* as source tables (raw_table_inventory.py), and the better reading is      *)
(* analysed (table_candidate_selector.py).  A page that fails is recorded,   *)
(* and the pages after it are read.                                          *)
(***************************************************************************)
EXTENDS Integers, SequencesExt, FiniteSetsExt

CONSTANTS
  Pages,      \* pages in order: 1..Pages
  Wanted,     \* table_pages
  Ruled,      \* what each reader may find on a page: sequences of tables
  Found,
  Borderless,
  Grids,
  LeastScore  \* of a table that is added to the others

VARIABLES
  pc,
  page,
  literal,     \* ruled tables of the page
  outside,     \* rows outside of them
  candidates,  \* sequence of [area, cells, metrics, score, series, method, heads]
  result,      \* page -> tables to analyse; <<>> when there are none
  read,        \* pages that have a result
  raw,         \* page -> source tables
  failed,      \* pages with an error
  status       \* page -> table_extraction_status

vars == <<pc, page, literal, outside, candidates, result, read, raw, failed, status>>

InsideLiteral(t) == \E l \in Range(literal) : l.area = t.area

Advance ==
  /\ page' = page + 1 /\ literal' = <<>> /\ outside' = FALSE /\ candidates' = <<>>
  /\ pc' = IF page' \in Wanted \/ page' > Pages THEN "ruled" ELSE "skipped"

\* Ruled tables that hold every aligned row of the page are the reading of the page.
ReadRuled ==
  /\ pc = "ruled" /\ page <= Pages
  /\ \E ts \in Ruled, rows \in BOOLEAN :
       IF ts # <<>> /\ ~rows
       THEN /\ raw' = [raw EXCEPT ![page] = ts] /\ result' = [result EXCEPT ![page] = ts]
            /\ read' = read \cup {page} /\ pc' = "close" /\ UNCHANGED <<literal, outside, candidates>>
       ELSE /\ literal' = ts /\ outside' = rows /\ candidates' = ts /\ pc' = "found"
            /\ UNCHANGED <<raw, result, read>>
  /\ UNCHANGED <<page, failed, status>>

\* Mutant: a table in the place of a ruled one is read too.
OutsideOrRich(ts) == SelectSeq(ts, LAMBDA t : ~InsideLiteral(t) \/ t.series)

OutsideLiteral(ts) == SelectSeq(ts, LAMBDA t : ~InsideLiteral(t))

ReadFound ==
  /\ pc = "found" /\ pc' = "borderless"
  /\ \E ts \in Found : candidates' = candidates \o OutsideLiteral(ts)
  /\ UNCHANGED <<page, literal, outside, result, read, raw, failed, status>>

ReadBorderless ==
  /\ pc = "borderless" /\ pc' = "grids"
  /\ \E ts \in Borderless : candidates' = candidates \o OutsideLiteral(ts)
  /\ UNCHANGED <<page, literal, outside, result, read, raw, failed, status>>

\* recover_source_grids: apart from what was found; lines that head a table become rows of it.
Headed(ts, g) ==
  IF \E i \in DOMAIN ts : ts[i].area = g.heads
  THEN [ts EXCEPT ![CHOOSE i \in DOMAIN ts : ts[i].area = g.heads].cells = @ \cup g.cells]
  ELSE IF \E i \in DOMAIN candidates : candidates[i].area = g.area THEN ts ELSE Append(ts, g)

\* Mutant: of two readings in one place the later is retained.
RetainedLast(kept, t) ==
  IF \E i \in DOMAIN kept : kept[i].area = t.area
  THEN [kept EXCEPT ![CHOOSE i \in DOMAIN kept : kept[i].area = t.area] = t] ELSE Append(kept, t)

\* retain_source_tables: only a reading whose cells another has in the same place is left out.
Retained(kept, t) ==
  LET same == {i \in DOMAIN kept : /\ kept[i].area = t.area
                                   /\ kept[i].cells \subseteq t.cells \/ t.cells \subseteq kept[i].cells}
  IN IF same = {} THEN Append(kept, t)
     ELSE IF kept[Min(same)].cells \subseteq t.cells /\ kept[Min(same)].cells # t.cells
     THEN [kept EXCEPT ![Min(same)] = t] ELSE kept

Retain ==
  /\ pc = "grids" /\ pc' = "select"
  /\ \E gs \in Grids :
       LET all == FoldLeft(Headed, candidates, gs)
       IN /\ candidates' = all /\ raw' = [raw EXCEPT ![page] = FoldLeft(Retained, <<>>, all)]
  /\ UNCHANGED <<page, literal, outside, result, read, failed, status>>

By(methods) == SelectSeq(candidates, LAMBDA t : t.method \in methods)
Score(ts) == FoldSeq(LAMBDA t, n : n + t.score, 0, ts)
MetricsOf(ts) == UNION {t.metrics : t \in Range(ts)}

\* Mutant: an addition is compared with the first readings only.
AddedToPrimary(ts, t) ==
  IF t.metrics # {} /\ ~(t.metrics \subseteq MetricsOf(By({"ruled", "found"}))) /\ t.series /\ t.score > LeastScore
  THEN Append(ts, t) ELSE ts

Added(ts, t) ==
  IF t.metrics # {} /\ ~(t.metrics \subseteq MetricsOf(ts)) /\ t.series /\ t.score > LeastScore
  THEN Append(ts, t) ELSE ts

\* merge_or_replace_tables.
Merged(primary, alternatives) ==
  IF alternatives = <<>> THEN primary
  ELSE IF primary = <<>> \/ Score(alternatives) > Score(primary) THEN alternatives
  ELSE FoldLeft(Added, primary, alternatives)

Select ==
  /\ pc = "select"
  /\ result' = [result EXCEPT ![page] = Merged(By({"ruled", "found"}), By({"borderless"}))]
  /\ read' = read \cup {page} /\ pc' = "close"
  /\ UNCHANGED <<page, literal, outside, candidates, raw, failed, status>>

\* Mutant: a page that fails while it is closed keeps its result.
DroppedUnlessClosed(p) == IF pc = "close" THEN read ELSE read \ {p}

\* result.pop: the page has no result, whatever it had.
Dropped(p) == read \ {p}

\* A page fails, also while it is closed.
Fail ==
  /\ page \in 1..Pages /\ page \in Wanted /\ pc \in {"ruled", "found", "borderless", "grids", "select", "close"}
  /\ failed' = failed \cup {page} /\ read' = Dropped(page)
  /\ result' = [result EXCEPT ![page] = <<>>] /\ Advance
  /\ UNCHANGED <<raw, status>>

\* The page is closed, or was not wanted.
Close ==
  /\ pc \in {"skipped", "close"} /\ Advance
  /\ UNCHANGED <<result, read, raw, failed, status>>

\* The document fails: what was read is returned.
FailDocument ==
  /\ pc \in {"ruled", "skipped"} /\ page <= Pages /\ page' = Pages + 1 /\ pc' = "ruled"
  /\ failed' = failed \cup {0}
  /\ UNCHANGED <<literal, outside, candidates, result, read, raw, status>>

\* parse: the status of the pages whose tables were wanted.
Record ==
  /\ pc = "ruled" /\ page > Pages /\ pc' = "done"
  /\ status' = [p \in 1..Pages |-> IF p \notin Wanted THEN "" ELSE IF p \in read THEN "processed" ELSE "failed"]
  /\ UNCHANGED <<page, literal, outside, candidates, result, read, raw, failed>>

Init ==
  /\ page = 1 /\ literal = <<>> /\ outside = FALSE /\ candidates = <<>>
  /\ pc = (IF 1 \in Wanted THEN "ruled" ELSE "skipped")
  /\ result = [p \in 1..Pages |-> <<>>] /\ raw = [p \in 1..Pages |-> <<>>]
  /\ read = {} /\ failed = {} /\ status = [p \in 1..Pages |-> ""]

Next == ReadRuled \/ ReadFound \/ ReadBorderless \/ Retain \/ Select \/ Fail \/ Close \/ FailDocument \/ Record

Spec == Init /\ [][Next]_vars

-----------------------------------------------------------------------------
(* A place is not analysed from its ruled table and from another reading as well.   *)
ReadFromOneReader ==
  \A p \in 1..Pages : \A s, t \in Range(result[p]) : s.method = "ruled" /\ t.method # "ruled" => s.area # t.area

(* Whatever a reader found is among the source tables of the page, with every cell. *)
SourcesRetained ==
  pc = "select" => \A t \in Range(candidates) :
    \E r \in Range(raw[page]) : r.area = t.area /\ t.cells \subseteq r.cells

(* A reading that is added to others states something none of them states.          *)
AdditionsAddMetrics ==
  \A p \in 1..Pages : \A i \in DOMAIN result[p] :
    result[p][i].method = "borderless" /\ result[p][1].method # "borderless" =>
      ~(result[p][i].metrics \subseteq UNION {result[p][j].metrics : j \in 1..(i - 1)})

(* A wanted page is processed when it was read without an error, also after others  *)
(* had failed; without the failure of the document every other page was read.       *)
FailuresContained ==
  pc = "done" => \A p \in Wanted :
    /\ status[p] = "processed" => p \notin failed
    /\ 0 \notin failed /\ p \notin failed => status[p] = "processed"
=============================================================================
