------------------------------ MODULE AuditBatches ------------------------------
(***************************************************************************)
(* The audit-scope review of a report's measures                           *)
(* (agent/report_audit_batches.py, agent/report_audit_parallel.py): groups *)
(* of measures reviewed by a small pool, halved when an output is proven   *)
(* truncated, cancelled when another group fails, and resumed by a later   *)
(* pass from the batches that were approved.                               *)
(***************************************************************************)
EXTENDS Integers, FiniteSets, Sequences

CONSTANTS
  Targets,     \* measures to review, numbered in source order
  BatchSize,   \* AUDIT_SCOPE_BATCH_SIZE
  Workers,     \* pool threads, at most two
  MaxPasses,   \* bound: reporting retries of one result
  MaxContexts  \* bound: versions of the sources under review

ASSUME AuditAssumption ==
  /\ Targets \subseteq Nat /\ IsFiniteSet(Targets)
  /\ BatchSize \in Nat \ {0} /\ MaxPasses \in Nat /\ MaxContexts \in Nat
  /\ Workers # {} /\ IsFiniteSet(Workers)

VARIABLES
  pc,         \* of the caller
  serial,     \* one thread, or one group left: no pool
  context,    \* version of the sources and observations under review
  saved,      \* latest audit record of the result
  known,      \* batches this pass halves without asking again
  queue,      \* groups no thread has taken
  stack,      \* per thread, the batches of its group still to visit
  reviewing,  \* per thread, the batch whose requests are in flight
  partition,  \* this pass's records: approved, split and failed batches
  futures,    \* groups whose failure the caller has not seen yet
  failures,   \* groups that failed in this pass
  cancelled,  \* the pool's Event
  requests,   \* reviews paid for in this pass, per group
  judged,     \* context each measure was last approved for, 0 for never
  passes

pool == <<queue, stack, reviewing, futures, failures, cancelled>>
vars == <<pc, serial, context, saved, known, pool, partition, requests, judged, passes>>

-----------------------------------------------------------------------------
(* Batches are sets of measures; source order is their numbers' order. *)

Rank(b, t) == Cardinality({u \in b : u < t})

\* batch_targets: consecutive groups of at most BatchSize.
Group(t)      == Rank(Targets, t) \div BatchSize
GroupNumbers  == {Group(t) : t \in Targets}
GroupOf(g)    == {t \in Targets : Group(t) = g}

\* children: the lower half of a batch, then the rest.
Children(b) ==
  LET lower == {t \in b : Rank(b, t) < Cardinality(b) \div 2}
  IN  <<lower, b \ lower>>

Covered(bs)  == UNION bs
Disjoint(bs) == \A a, b \in bs : a # b => a \cap b = {}

Empty == [approved |-> {}, split |-> {}, failed |-> {}]

\* Mutant: approvals are resumed whatever sources they were given for.
ReadyAnyway == IF saved.complete THEN {} ELSE saved.approved

\* resumable_batches: approvals count for the sources they were given for.
Ready == IF saved.context = context /\ ~saved.complete THEN saved.approved ELSE {}

\* _known_capacity_splits: truncations proven by the latest failed record for
\* these sources, unless the model route has changed since.
Known == IF saved.context = context /\ ~saved.complete THEN {saved.split, {}} ELSE {{}}

-----------------------------------------------------------------------------
(* The caller *)

\* Mutant: a group with approved measures is scheduled whole.
RemainingWhole(g, bs) == IF GroupOf(g) \subseteq Covered(bs) THEN {} ELSE GroupOf(g)

\* Work that remains of a group once its approved batches are counted.
Remaining(g, bs) == GroupOf(g) \ Covered(bs)

\* review_partitions: approvals are carried over first, the rest is scheduled.
Begin ==
  /\ pc = "idle" /\ passes < MaxPasses
  /\ ~(saved.complete /\ saved.context = context)
  /\ known' \in Known
  /\ partition' = [Empty EXCEPT !.approved = Ready]
  /\ queue' = {g \in GroupNumbers : Remaining(g, Ready) # {}}
  /\ serial' \in BOOLEAN /\ (Cardinality(queue') <= 1 => serial')
  /\ stack' = [w \in Workers |-> <<>>] /\ reviewing' = [w \in Workers |-> {}]
  /\ futures' = {} /\ failures' = {} /\ cancelled' = FALSE
  /\ requests' = [g \in GroupNumbers |-> 0]
  /\ passes' = passes + 1 /\ pc' = "running"
  /\ UNCHANGED <<context, saved, judged>>

\* Mutant: a pool that is cancelled already waits for no further failure.
ObserveOnce ==
  /\ pc = "running" /\ futures # {} /\ ~cancelled
  /\ futures' = {} /\ cancelled' = TRUE
  /\ UNCHANGED <<pc, serial, context, saved, known, queue, stack, reviewing, failures,
                 partition, requests, judged, passes>>

\* The caller sees a failed future within its poll: the pool is cancelled.
Observe ==
  /\ pc = "running" /\ futures # {}
  /\ futures' = {} /\ cancelled' = TRUE
  /\ UNCHANGED <<pc, serial, context, saved, known, queue, stack, reviewing, failures,
                 partition, requests, judged, passes>>

\* other.cancel(): a group no thread has taken is withdrawn.
Withdraw(g) ==
  /\ cancelled /\ g \in queue
  /\ queue' = queue \ {g} /\ failures' = failures \cup {g}
  /\ UNCHANGED <<pc, serial, context, saved, known, stack, reviewing, futures, cancelled,
                 partition, requests, judged, passes>>

Drained == queue = {} /\ futures = {} /\ \A w \in Workers : stack[w] = <<>>

\* Mutant: a failed pass keeps the batches it approved itself.
KeepNew(bs) == {b \in bs : b \notin Ready}

\* _retain_checkpoint_partitions: what a failed pass leaves for the next one.
Kept(bs) == bs

\* aggregate_batches: the approved batches are exactly the measures.
Aggregates == Covered(partition.approved) = Targets /\ Disjoint(partition.approved)

\* Every worker has drained: the records are merged, and only an exact
\* partition of the measures becomes the accepted record.
Merge ==
  /\ pc = "running" /\ Drained
  /\ LET complete == failures = {} /\ Aggregates
     IN  saved' = [context |-> context, complete |-> complete,
                   approved |-> Kept(partition.approved),
                   split |-> partition.split \cup known]
  /\ pc' = IF failures = {} /\ ~Aggregates THEN "unaccounted" ELSE "idle"
  /\ UNCHANGED <<serial, context, known, pool, partition, requests, judged, passes>>

-----------------------------------------------------------------------------
(* A pool thread *)

\* A group fails: the thread is free again before the caller knows.  A serial
\* review stops there.
Raise(w, g) ==
  /\ stack' = [stack EXCEPT ![w] = <<>>] /\ reviewing' = [reviewing EXCEPT ![w] = {}]
  /\ failures' = failures \cup {g}
  /\ IF serial
     THEN queue' = {} /\ UNCHANGED futures
     ELSE futures' = futures \cup {g} /\ UNCHANGED queue

\* Threads take groups in source order.
Take(w) ==
  /\ pc = "running" /\ stack[w] = <<>> /\ queue # {}
  /\ serial => \A v \in Workers : stack[v] = <<>>
  /\ LET g == CHOOSE h \in queue : \A k \in queue : h <= k
     IN  /\ queue' = queue \ {g}
         /\ stack' = [stack EXCEPT ![w] = <<Remaining(g, Ready)>>]
  /\ UNCHANGED <<pc, serial, context, saved, known, reviewing, futures, failures, cancelled,
                 partition, requests, judged, passes>>

\* Every batch a thread visits belongs to one group.
Owner(b) == Group(CHOOSE t \in b : TRUE)

\* run: a cancelled pool stops, a proven truncation is halved at once, and
\* anything else is reviewed.
Visit(w) ==
  /\ pc = "running" /\ stack[w] # <<>> /\ reviewing[w] = {}
  /\ LET b == Head(stack[w]) IN
       \/ /\ cancelled
          /\ Raise(w, Owner(b)) /\ UNCHANGED <<partition, requests>>
       \/ /\ ~cancelled /\ b \in known
          /\ partition' = [partition EXCEPT !.split = @ \cup {b}]
          /\ stack' = [stack EXCEPT ![w] = Children(b) \o Tail(@)]
          /\ UNCHANGED <<queue, reviewing, futures, failures, requests>>
       \/ /\ ~cancelled /\ b \notin known
          /\ reviewing' = [reviewing EXCEPT ![w] = b]
          /\ requests' = [requests EXCEPT ![Owner(b)] = @ + 1]
          /\ UNCHANGED <<queue, stack, futures, failures, partition>>
  /\ UNCHANGED <<pc, serial, context, saved, known, cancelled, judged, passes>>

Approve(w) ==
  /\ reviewing[w] # {}
  /\ partition' = [partition EXCEPT !.approved = @ \cup {reviewing[w]}]
  /\ judged' = [t \in Targets |-> IF t \in reviewing[w] THEN context ELSE judged[t]]
  /\ stack' = [stack EXCEPT ![w] = Tail(@)]
  /\ reviewing' = [reviewing EXCEPT ![w] = {}]
  /\ UNCHANGED <<pc, serial, context, saved, known, queue, futures, failures, cancelled,
                 requests, passes>>

\* Mutant: a truncated parent stays among the approved batches.
SplitKeepingParent(w) ==
  /\ Cardinality(reviewing[w]) > 1
  /\ partition' = [partition EXCEPT !.split = @ \cup {reviewing[w]},
                                    !.approved = @ \cup {reviewing[w]}]
  /\ stack' = [stack EXCEPT ![w] = Children(Head(@)) \o Tail(@)]
  /\ reviewing' = [reviewing EXCEPT ![w] = {}]
  /\ UNCHANGED <<pc, serial, context, saved, known, queue, futures, failures, cancelled,
                 requests, judged, passes>>

\* Only a proven truncation of several measures is halved; the parent is kept
\* as a diagnostic.
Split(w) ==
  /\ Cardinality(reviewing[w]) > 1
  /\ partition' = [partition EXCEPT !.split = @ \cup {reviewing[w]}]
  /\ stack' = [stack EXCEPT ![w] = Children(Head(@)) \o Tail(@)]
  /\ reviewing' = [reviewing EXCEPT ![w] = {}]
  /\ UNCHANGED <<pc, serial, context, saved, known, queue, futures, failures, cancelled,
                 requests, judged, passes>>

\* A rejection, an exhausted correction, a transport error, the truncation of a
\* single measure, or the pool's cancellation between two requests.
Fail(w) ==
  /\ reviewing[w] # {}
  /\ partition' = [partition EXCEPT !.failed = @ \cup {reviewing[w]}]
  /\ Raise(w, Owner(reviewing[w]))
  /\ UNCHANGED <<pc, serial, context, saved, known, cancelled, requests, judged, passes>>

-----------------------------------------------------------------------------
\* Between passes the observations or source pages may change.
Revise ==
  /\ pc = "idle" /\ context < MaxContexts
  /\ context' = context + 1
  /\ UNCHANGED <<pc, serial, saved, known, pool, partition, requests, judged, passes>>

Init ==
  /\ pc = "idle" /\ serial = TRUE /\ context = 1 /\ passes = 0
  /\ saved = [context |-> 0, complete |-> FALSE, approved |-> {}, split |-> {}]
  /\ known = {} /\ queue = {} /\ futures = {} /\ failures = {} /\ cancelled = FALSE
  /\ stack = [w \in Workers |-> <<>>] /\ reviewing = [w \in Workers |-> {}]
  /\ partition = Empty /\ requests = [g \in GroupNumbers |-> 0]
  /\ judged = [t \in Targets |-> 0]

Worker(w) == Take(w) \/ Visit(w) \/ Approve(w) \/ Split(w) \/ Fail(w)

Caller == Begin \/ Observe \/ (\E g \in GroupNumbers : Withdraw(g)) \/ Merge

Next == Caller \/ (\E w \in Workers : Worker(w)) \/ Revise

Spec == Init /\ [][Next]_vars

FairSpec ==
  /\ Spec
  /\ WF_vars(Observe \/ Merge \/ \E g \in GroupNumbers : Withdraw(g))
  /\ \A w \in Workers : WF_vars(Worker(w))

-----------------------------------------------------------------------------
(* Properties *)

Batches == SUBSET Targets

\* Every variable keeps its shape; a thread reviews the batch it is visiting.
TypeOK ==
  /\ pc \in {"idle", "running", "unaccounted"} /\ serial \in BOOLEAN
  /\ context \in Nat /\ passes \in 0..MaxPasses
  /\ saved \in [context : Nat, complete : BOOLEAN,
                approved : SUBSET Batches, split : SUBSET Batches]
  /\ known \subseteq Batches
  /\ partition \in [approved : SUBSET Batches, split : SUBSET Batches,
                    failed : SUBSET Batches]
  /\ queue \subseteq GroupNumbers /\ futures \subseteq GroupNumbers
  /\ failures \subseteq GroupNumbers /\ cancelled \in BOOLEAN
  /\ stack \in [Workers -> Seq(Batches \ {{}})]
  /\ \A w \in Workers : reviewing[w] # {} => /\ stack[w] # <<>>
                                             /\ reviewing[w] = Head(stack[w])
  /\ requests \in [GroupNumbers -> Nat] /\ judged \in [Targets -> Nat]

\* "every target is reviewed exactly once" (agent/report_audit_batches.py:17):
\* no measure that is approved already is under review again, whatever was
\* split, resumed or halved before, and no two threads review the same one.
ApprovedOnce ==
  \A w \in Workers :
    /\ reviewing[w] \cap Covered(partition.approved) = {}
    /\ \A v \in Workers \ {w} : reviewing[w] \cap reviewing[v] = {}

\* A pass without a failure always merges into an exact partition of the
\* measures: aggregate_batches never refuses it.
PassesAccount == pc # "unaccounted"

\* An accepted record holds no measure whose last approval was for sources
\* older than its own.
AcceptedForItsSources ==
  saved.complete => \A t \in Targets : judged[t] >= saved.context

\* "Cancelled/unreached groups must not erase approved work from the latest
\* checkpoint" (agent/report_audit_batches.py:308).
ApprovalsKept ==
  [][saved'.context = saved.context
       => Covered(saved.approved) \subseteq Covered(saved'.approved)]_vars

\* Every pass ends, however its groups fail.
PassEnds == [](pc = "running" => <>(pc # "running"))
=============================================================================
