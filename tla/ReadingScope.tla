------------------------------ MODULE ReadingScope ------------------------------
(***************************************************************************)
(* Which pages of a large document are read (agent/document_discovery.py,    *)
(* agent/route_budget.py, agent/source_coverage.py): a model proposes page   *)
(* ranges, ranks and narrows them when they exceed the page budget, and      *)
(* names a few further targets, each read by bounded requests                *)
(* (agent/source_check_repair.py).  A retry of the report reads again only   *)
(* the targets whose reading did not end.                                    *)
(***************************************************************************)
EXTENDS Integers, SequencesExt, FiniteSetsExt

CONSTANTS
  LastPage,
  PageBudget,  \* DEEP_ANALYSIS_PAGE_BUDGET
  RouteProposals,   \* sequences of ranges a model may propose
  Sections,    \* ranges of the outline a target lies in
  Targets,     \* ranges a model may name as targets
  MaxChecks,
  CheckPages,  \* MAX_PAGES_PER_CHECK
  MaxRetries   \* bound: retries of the report

VARIABLES
  scopePc,
  output,         \* ranges of the route
  ranked,         \* history: the ranges fit_ranked_ranges was given last, best first
  tries,
  targets,        \* targets still to look at
  checks,         \* checks of the ledger, in order
  unread,         \* checks to be read now
  attempt,
  formatUsed,
  scopeCalls,
  maxScopeCalls,
  retries

scopeVars == <<scopePc, output, ranked, tries, targets, checks, unread, attempt, formatUsed,
               scopeCalls, maxScopeCalls, retries>>

Ranges == {r \in (1..LastPage) \X (1..LastPage) : r[1] <= r[2]}
PagesOf(r) == r[1]..r[2]

\* RouteProposals are read from numbers of pages; the outline and the targets are of the document.
ASSUME ScopeAssumption ==
  /\ LastPage \in Nat /\ PageBudget \in Nat /\ MaxChecks \in Nat
  /\ RouteProposals \subseteq Seq((Nat \ {0}) \X Nat)
  /\ Sections \subseteq Ranges
  /\ Targets \subseteq {r \in Nat \X Nat : r[1] <= r[2]}

covered_pages(ranges) == UNION {PagesOf(r) : r \in Range(ranges)}

SelectedPages == covered_pages(output)

-----------------------------------------------------------------------------
(* The route *)

\* Ranges are cut to the document; what nothing is left of is dropped, the others keep
\* their order.
Clamped(proposal) ==
  LET cut   == [i \in DOMAIN proposal |-> <<proposal[i][1], Min({LastPage, proposal[i][2]})>>]
      left  == {i \in DOMAIN cut : cut[i][1] <= cut[i][2]}
      Order == {o \in [1..Cardinality(left) -> left] : \A i, j \in DOMAIN o : i < j => o[i] < o[j]}
  IN {[k \in DOMAIN o |-> cut[o[k]]] : o \in Order}

Route ==
  /\ scopePc = "route"
  /\ \E proposal \in RouteProposals :
       /\ output' \in Clamped(proposal)
       /\ scopePc' = IF output' = <<>> THEN "refused"
                ELSE IF Cardinality(covered_pages(output')) > PageBudget THEN "narrow" ELSE "scope"
  /\ UNCHANGED <<ranked, tries, targets, checks, unread, attempt, formatUsed, scopeCalls,
                 maxScopeCalls, retries>>

\* Mutant: overlapping ranges count twice against the budget.
AddedTwice(kept, r) ==
  IF FoldSeq(LAMBDA k, n : n + Cardinality(PagesOf(k)), Cardinality(PagesOf(r)), kept) <= PageBudget
  THEN Append(kept, r) ELSE kept

Added(kept, r) ==
  IF Cardinality(covered_pages(kept) \cup PagesOf(r)) <= PageBudget THEN Append(kept, r) ELSE kept

\* fit_ranked_ranges: whole ranges, the better ranked first; what is kept of the first n.
FirstFit(ranges) ==
  LET kept[n \in 0..Len(ranges)] == IF n = 0 THEN <<>> ELSE Added(kept[n - 1], ranges[n])
  IN kept

\* They are sorted by their first page, those of one page as they were.
Fit(ranges) ==
  LET kept == FirstFit(ranges)[Len(ranges)]
      Sorted(p) == \A i, j \in DOMAIN p : i < j =>
                     \/ kept[p[i]][1] < kept[p[j]][1]
                     \/ kept[p[i]][1] = kept[p[j]][1] /\ p[i] < p[j]
  IN {[i \in DOMAIN kept |-> kept[p[i]]] :
        p \in {q \in Bijection(DOMAIN kept, DOMAIN kept) : Sorted(q)}}

\* ranked_ranges: an order of some candidates, one of them perhaps narrowed.
Rankings ==
  LET orders == {s \in UNION {[1..n -> DOMAIN output] : n \in 1..Len(output)} : IsInjective(s)}
      Ranked(s) == [i \in DOMAIN s |-> output[s[i]]]
      Within(s) == {x \in (DOMAIN s) \X Ranges : PagesOf(x[2]) \subseteq PagesOf(Ranked(s)[x[1]])}
  IN UNION {{[Ranked(s) EXCEPT ![x[1]] = x[2]] : x \in Within(s)} : s \in orders}

Narrow ==
  /\ scopePc = "narrow"
  /\ \/ /\ ranked' \in Rankings /\ \A r \in Range(ranked') : Cardinality(PagesOf(r)) <= PageBudget
        /\ output' \in Fit(ranked')
        /\ scopePc' = "scope" /\ UNCHANGED tries
     \/ /\ tries' = tries + 1    \* no selection, or a range past the budget
        /\ scopePc' = IF tries = 1 THEN "refused" ELSE "narrow"
        /\ UNCHANGED <<output, ranked>>
  /\ UNCHANGED <<targets, checks, unread, attempt, formatUsed, scopeCalls, maxScopeCalls, retries>>

\* contiguous_spans: what is cut into chunks.  Mutant: every range is read for itself.
SpansOfRanges(ranges) == Range(ranges)

Spans(ranges) ==
  LET pages == covered_pages(ranges)
  IN {r \in Ranges : /\ PagesOf(r) \subseteq pages
                     /\ r[1] - 1 \notin pages /\ r[2] + 1 \notin pages}

-----------------------------------------------------------------------------
(* Further targets *)

\* The whole document is selected, the scope was confirmed, or no plan was returned.
NoTargets ==
  /\ scopePc = "scope" /\ scopePc' = "read"
  /\ scopeCalls' \in (IF SelectedPages = 1..LastPage THEN {scopeCalls} ELSE {scopeCalls, scopeCalls + 1})
  /\ ranked' = <<>>
  /\ UNCHANGED <<output, tries, targets, checks, unread, attempt, formatUsed, maxScopeCalls,
                 retries>>

Plan ==
  /\ scopePc = "scope" /\ SelectedPages # 1..LastPage
  /\ targets' \in UNION {[1..n -> Targets] : n \in 1..MaxChecks}
  /\ scopeCalls' = scopeCalls + 1 /\ scopePc' = "target" /\ ranked' = <<>>
  /\ UNCHANGED <<output, tries, checks, unread, attempt, formatUsed, maxScopeCalls, retries>>

Checked == UNION {checks[i].pages : i \in DOMAIN checks}

\* Mutant: a target may repeat the pages of another.
ApartFromRoute(r) == PagesOf(r) \cap covered_pages(SubSeq(output, 1, Len(output) - Len(checks))) = {}

ApartFromScope(r) == PagesOf(r) \cap (SelectedPages \cup Checked) = {}

Unread == [pages |-> {}, status |-> "unchecked"]

\* An invalid or overlapping target is rejected; the text of a target may be unavailable.
Target ==
  /\ scopePc = "target"
  /\ IF targets = <<>> THEN scopePc' = "read" /\ UNCHANGED <<targets, checks, unread, attempt, formatUsed>>
     ELSE LET r == Head(targets)
              valid == /\ \E s \in Sections : PagesOf(r) \subseteq PagesOf(s)
                       /\ Cardinality(PagesOf(r)) <= CheckPages /\ ApartFromScope(r)
          IN /\ targets' = Tail(targets)
             /\ IF ~valid THEN UNCHANGED <<scopePc, checks, unread, attempt, formatUsed>>
                ELSE \/ /\ checks' = Append(checks, [pages |-> PagesOf(r), status |-> "unchecked"])
                        /\ unread' = {Len(checks')} /\ scopePc' = "request"
                        /\ attempt' = 0 /\ formatUsed' = FALSE
                     \/ /\ checks' = Append(checks, [pages |-> PagesOf(r), status |-> "incomplete"])
                        /\ UNCHANGED <<scopePc, unread, attempt, formatUsed>>
  /\ UNCHANGED <<output, ranked, tries, scopeCalls, maxScopeCalls, retries>>

\* A check that was read adds its pages to the scope of a first reading only.
SettleCheck(status) ==
  LET i == Min(unread)
  IN /\ checks' = [checks EXCEPT ![i].status = status]
     /\ unread' = unread \ {i} /\ attempt' = 0 /\ formatUsed' = FALSE
     /\ output' = IF retries = 0 /\ status \in {"checked_found", "checked_not_found"}
                  THEN Append(output, <<Min(checks[i].pages), Max(checks[i].pages)>>) ELSE output
     /\ scopePc' = IF unread' # {} THEN "request" ELSE IF retries = 0 THEN "target" ELSE "read"

\* Mutant: each attempt has its own correction of the format.
MayRepairAgain == TRUE

MayRepair == ~formatUsed

\* source_check_request: two attempts, and one correction of format between them.
Request ==
  /\ scopePc = "request" /\ checks[Min(unread)].status # "incomplete"
  /\ \E repair \in BOOLEAN :
       /\ repair => MayRepair
       /\ scopeCalls' = scopeCalls + (IF repair THEN 2 ELSE 1)
       /\ \/ \E status \in {"checked_found", "checked_not_found", "failed"} : SettleCheck(status)
          \/ /\ attempt = 0 /\ attempt' = 1    \* its evidence is not literal, or too long
             /\ formatUsed' = (formatUsed \/ repair)
             /\ UNCHANGED <<scopePc, checks, unread, output>>
  /\ UNCHANGED <<ranked, tries, targets, maxScopeCalls, retries>>

\* Its text is still not available: nothing is asked.
TargetUnavailable ==
  /\ scopePc = "request" /\ checks[Min(unread)].status = "incomplete" /\ SettleCheck("incomplete")
  /\ UNCHANGED <<ranked, tries, targets, scopeCalls, maxScopeCalls, retries>>

\* retry_failed_source_checks: the targets whose reading did not end, with an allowance.
Retry ==
  /\ scopePc = "read" /\ retries < MaxRetries
  /\ LET pending == {i \in DOMAIN checks : checks[i].status \in {"unchecked", "incomplete", "failed"}}
     IN /\ pending # {} /\ retries' = retries + 1
        /\ maxScopeCalls' = maxScopeCalls + 3 * Cardinality(pending)
        /\ unread' = pending /\ scopePc' = "request" /\ attempt' = 0 /\ formatUsed' = FALSE
  /\ UNCHANGED <<output, ranked, tries, targets, checks, scopeCalls>>

ScopeInit ==
  /\ scopePc = "route" /\ output = <<>> /\ ranked = <<>> /\ tries = 0 /\ targets = <<>> /\ checks = <<>>
  /\ unread = {} /\ attempt = 0 /\ formatUsed = FALSE /\ scopeCalls = 0 /\ maxScopeCalls = 1 + 3 * MaxChecks /\ retries = 0

ScopeNext == Route \/ Narrow \/ NoTargets \/ Plan \/ Target \/ Request \/ TargetUnavailable \/ Retry

ScopeSpec == ScopeInit /\ [][ScopeNext]_scopeVars

-----------------------------------------------------------------------------
(* The route keeps to the budget, and a range was left out only when, with the      *)
(* better ranked ranges that were kept, it would exceed it.                         *)
RouteFits ==
  scopePc = "scope" =>
    /\ Cardinality(SelectedPages) <= PageBudget
    /\ \A i \in DOMAIN ranked :
         ranked[i] \notin Range(output) =>
           Cardinality(PagesOf(ranked[i]) \cup
             UNION {PagesOf(ranked[j]) : j \in {k \in 1..(i - 1) : ranked[k] \in Range(output)}}) > PageBudget

(* Every page in scope is read, and read once: targets overlap neither the route    *)
(* nor one another, and overlapping ranges are read as one.                         *)
PagesReadOnce ==
  scopePc = "read" =>
    /\ UNION {PagesOf(s) : s \in Spans(output)} = SelectedPages
    /\ \A s, t \in Spans(output) : s # t => PagesOf(s) \cap PagesOf(t) = {}
    /\ \A i, j \in DOMAIN checks : i # j => checks[i].pages \cap checks[j].pages = {}

(* Requests for further targets stay within the calls the ledger states, whatever   *)
(* is corrected, failed and retried.                                                *)
CallsBounded == scopeCalls <= maxScopeCalls
=============================================================================
