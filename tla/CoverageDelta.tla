----------------------------- MODULE CoverageDelta -----------------------------
(***************************************************************************)
(* The coverage review of series the selected topics leave out             *)
(* (agent/topic_coverage_review.py, agent/coverage_delta_review.py): small  *)
(* payloads are reviewed at once; larger ones in independent deltas by a    *)
(* pool, whose complete ledger is narrowed until one merge can hold it, and *)
(* committed only with a merge that represents what it includes.  A failed  *)
(* merge may be replayed later from its retained reply.                     *)
(***************************************************************************)
EXTENDS Integers, FiniteSets

CONSTANTS
  Series,        \* series, numbered in source order
  Points,        \* observations of each series
  Fact,          \* source fact of each observation (another may repeat it)
  Original,      \* series of the topics under review
  DeltaWorkers,  \* pool threads
  GroupLimit,    \* series whose complete context fits one delta
  MergeLimit,    \* proposals whose complete context fits the merge
  CallLimit      \* MAX_REVIEW_CALLS

VARIABLES
  coveragePc,  \* of the caller
  serial,      \* discovery_workers = 1
  topics,      \* series of the selection
  decided,     \* decision on each candidate
  omissions,   \* accepted series the committed reply omits explicitly
  queue,       \* deltas no thread has taken
  request,     \* per requester, the series it asks about and its attempts
  raised,      \* failures the caller has not seen
  cancelled,   \* the pool's Event
  calls,       \* physical calls reserved
  proposed,    \* provisional inclusions
  reduction,   \* level of the reduction, what it kept and has still to ask
  reply        \* merge reply its last attempt left in the audit

coverageVars == <<coveragePc, serial, topics, decided, omissions, queue, request, raised, cancelled,
                  calls, proposed, reduction, reply>>

Caller     == "caller"
Requesters == DeltaWorkers \cup {Caller}

\* The thread that waits for the pool is none of its threads.
ASSUME CoverageAssumption == Caller \notin DeltaWorkers

Resting    == [about |-> {}, attempt |-> 1, limit |-> 1, asked |-> FALSE]
NoReply    == [topics |-> {}, include |-> {}, omitted |-> {}]
NotReduced == [level |-> 0, kept |-> {}, rest |-> {}, entered |-> {}]

-----------------------------------------------------------------------------
(* Which facts a selection represents *)

Selected(chosen) == UNION {Points[s] : s \in chosen}

\* Mutant: one matching fact represents a series.
RepresentedInPart(s, chosen) ==
  \E o \in Points[s] : \E p \in Selected(chosen) : p = o \/ Fact[p] = Fact[o]

\* representation_links: each observation is selected itself or by its exact fact.
Represented(s, chosen) ==
  \A o \in Points[s] : \E p \in Selected(chosen) : p = o \/ Fact[p] = Fact[o]

\* uncovered_series
Candidates == {s \in Series : ~Represented(s, Original)}

Covered(chosen) == {s \in Candidates : Represented(s, chosen)}

\* finalize_decisions: what the topics represent is included, whatever was said.
Finalized(decisions, chosen) ==
  [s \in Candidates |-> IF s \in Covered(chosen) THEN "include" ELSE decisions[s]]

-----------------------------------------------------------------------------
(* _request: one correction; every physical attempt is reserved first *)

AskAbout(r, set) == [Resting EXCEPT !.about = set]

\* The failure of a thread waits in its future; the caller's is recorded at once.
FailRequest(r, kind) ==
  /\ request' = [request EXCEPT ![r] = Resting]
  /\ IF r = Caller
     THEN /\ coveragePc' = (IF kind = "introduction" THEN "withdrawn" ELSE "unresolved")
          /\ UNCHANGED raised
     ELSE raised' = raised \cup {kind} /\ UNCHANGED coveragePc

Reserve(r) ==
  /\ request[r].about # {} /\ ~request[r].asked
  /\ IF (cancelled /\ request[r].limit = 1) \/ calls = CallLimit
     THEN FailRequest(r, "review") /\ UNCHANGED <<calls, reply>>
     ELSE /\ calls' = calls + 1
          /\ request' = [request EXCEPT ![r].asked = TRUE]
          /\ reply' = (IF r = Caller THEN NoReply ELSE reply)
          /\ UNCHANGED <<coveragePc, raised>>
  /\ UNCHANGED <<serial, topics, decided, omissions, queue, cancelled, proposed, reduction>>

\* complete_budget_output: a proven truncation is asked once more with a larger
\* limit, unless the first was the absolute ceiling.
Truncated(r) ==
  /\ request[r].asked
  /\ \/ /\ request[r].limit = 1
        /\ request' = [request EXCEPT ![r].limit = 2, ![r].asked = FALSE]
        /\ UNCHANGED <<coveragePc, raised>>
     \/ FailRequest(r, "review")
  /\ UNCHANGED <<serial, omissions, topics, decided, queue, cancelled,
                 calls, proposed, reduction, reply>>

\* Transport, privacy and introduction failures are never repaired.
Lost(r) ==
  /\ request[r].asked
  /\ \E kind \in {"review", "introduction"} : FailRequest(r, kind)
  /\ UNCHANGED <<serial, omissions, topics, decided, queue, cancelled,
                 calls, proposed, reduction, reply>>

\* correction_messages: one correction, if its context fits the request.
CorrectOnce(r) ==
  \/ /\ request[r].attempt = 1
     /\ request' = [request EXCEPT ![r] = [AskAbout(r, @.about) EXCEPT !.attempt = 2]]
     /\ UNCHANGED <<coveragePc, raised>>
  \/ FailRequest(r, "review")

\* A reply that fails its schema, or leaves a requested decision out.
Unusable(r) ==
  /\ request[r].asked /\ CorrectOnce(r)
  /\ UNCHANGED <<serial, omissions, topics, decided, queue, cancelled,
                 calls, proposed, reduction, reply>>

\* _decisions: exactly one decision for each requested series.
DecidedIn(r, include) ==
  decided' = [s \in Candidates |->
    IF s \notin request[r].about THEN decided[s]
    ELSE IF s \in include THEN "include" ELSE "omit"]

-----------------------------------------------------------------------------
(* The deltas *)

First(set, n) == {s \in set : Cardinality({t \in set : t < s}) < n}

\* _partition: consecutive batches whose complete context fits.
Partitions ==
  {p \in SUBSET ((SUBSET Candidates) \ {{}}) :
     /\ UNION p = Candidates
     /\ \A b \in p : Cardinality(b) <= GroupLimit
     /\ \A b, c \in p : b # c => \/ \A s \in b, t \in c : s < t
                                \/ \A s \in b, t \in c : t < s}

\* One reviewed payload decides everything: every decision matches its topics,
\* and a removed series needs an explicit omission.
ReviewAtOnce ==
  /\ coveragePc = "idle" /\ Candidates # {}
  /\ \/ coveragePc' = "unresolved" /\ UNCHANGED <<topics, decided, omissions>>
     \/ \E chosen \in SUBSET Series : \E omitted \in SUBSET (Original \ chosen) :
          /\ \A s \in Original \ chosen :
               Points[s] \subseteq Selected(chosen) \/ s \in omitted
          /\ coveragePc' = "small" /\ topics' = chosen /\ omissions' = omitted
          /\ decided' = Finalized([s \in Candidates |-> "omit"], chosen)
  /\ UNCHANGED <<serial, queue, request, raised, cancelled, calls, proposed, reduction, reply>>

BeginDeltas ==
  /\ coveragePc = "idle" /\ Candidates # {}
  /\ \/ \E p \in Partitions : queue' = p /\ coveragePc' = "deltas"
     \/ queue' = {} /\ coveragePc' = "unresolved"
  /\ UNCHANGED <<serial, omissions, topics, decided, request, raised, cancelled,
                 calls, proposed, reduction, reply>>

\* A serial review stops at its first failure.
Take(w) ==
  /\ coveragePc = "deltas" /\ request[w].about = {}
  /\ serial => raised = {} /\ \A v \in DeltaWorkers : request[v].about = {}
  /\ \E b \in queue :
       queue' = queue \ {b} /\ request' = [request EXCEPT ![w] = AskAbout(w, b)]
  /\ UNCHANGED <<coveragePc, serial, omissions, topics, decided, raised, cancelled,
                 calls, proposed, reduction, reply>>

Deliver(w) ==
  /\ w \in DeltaWorkers /\ request[w].asked
  /\ \E include \in SUBSET request[w].about : DecidedIn(w, include)
  /\ request' = [request EXCEPT ![w] = Resting]
  /\ UNCHANGED <<coveragePc, serial, omissions, topics, queue, raised, cancelled,
                 calls, proposed, reduction, reply>>

\* The first failure the caller sees cancels the deltas that have not started.
Observe ==
  /\ coveragePc = "deltas" /\ raised # {} /\ ~cancelled
  /\ cancelled' = TRUE /\ queue' = {}
  /\ \E kind \in raised : raised' = {kind}
  /\ UNCHANGED <<coveragePc, serial, omissions, topics, decided, request,
                 calls, proposed, reduction, reply>>

DeltasDrained == \A w \in DeltaWorkers : request[w].about = {}

\* The pool has been drained: nothing is committed.
Abort ==
  /\ coveragePc = "deltas" /\ cancelled /\ DeltasDrained
  /\ coveragePc' = (IF "introduction" \in raised THEN "withdrawn" ELSE "unresolved")
  /\ raised' = {}
  /\ UNCHANGED <<serial, omissions, topics, decided, queue, request, cancelled,
                 calls, proposed, reduction, reply>>

-----------------------------------------------------------------------------
(* The reduction and the merge *)

\* finalize_decisions, then the ordinary validators once more.
Commit(chosen, decisions, omitted) ==
  \/ /\ coveragePc' = "complete" /\ topics' = chosen
     /\ decided' = Finalized(decisions, chosen) /\ omissions' = omitted \ chosen
  \/ coveragePc' = "unresolved" /\ UNCHANGED <<topics, decided, omissions>>

IncludedSeries == {s \in Candidates : decided[s] = "include"}

\* Mutant: a ledger with undecided series goes on to the merge.
JoinEarly ==
  /\ coveragePc = "deltas" /\ raised = {} /\ DeltasDrained
  /\ proposed' = IncludedSeries
  /\ IF IncludedSeries = {} THEN Commit(topics, decided, omissions) /\ UNCHANGED <<request, reduction>>
     ELSE /\ coveragePc' = "reducing" /\ UNCHANGED <<topics, decided, omissions, request>>
          /\ reduction' = [level |-> 0, kept |-> {}, rest |-> {}, entered |-> IncludedSeries]
  /\ UNCHANGED <<serial, queue, raised, cancelled, calls, reply>>

\* A complete ledger: nothing proposed, or one merge of every proposal.
JoinDeltas ==
  /\ coveragePc = "deltas" /\ queue = {} /\ raised = {} /\ DeltasDrained
  /\ proposed' = IncludedSeries
  /\ IF IncludedSeries = {} THEN Commit(topics, decided, omissions) /\ UNCHANGED <<request, reduction>>
     ELSE /\ coveragePc' = "reducing" /\ UNCHANGED <<topics, decided, omissions, request>>
          /\ reduction' = [level |-> 0, kept |-> {}, rest |-> {}, entered |-> IncludedSeries]
  /\ UNCHANGED <<serial, queue, raised, cancelled, calls, reply>>

Waiting == reduction.kept \cup reduction.rest

\* reduce_proposals: as soon as the rest fits, it is merged.  An empty proposal
\* has no merge.
StartMerge ==
  /\ coveragePc = "reducing" /\ request[Caller].about = {}
  /\ LET fitting == IF reduction.rest = {} THEN reduction.entered ELSE Waiting
     IN /\ reduction.rest = {} => reduction.level = 0 \/ reduction.kept = reduction.entered
        /\ Cardinality(fitting) <= MergeLimit
        /\ proposed' = fitting
        /\ IF fitting = {} THEN coveragePc' = "unresolved" /\ UNCHANGED request
           ELSE /\ coveragePc' = "merging"
                /\ request' = [request EXCEPT ![Caller] = AskAbout(Caller, fitting)]
  /\ UNCHANGED <<serial, omissions, topics, decided, queue, raised,
                 cancelled, calls, reduction, reply>>

\* A level over all that is left, at most three of them.
StartLevel ==
  /\ coveragePc = "reducing" /\ reduction.rest = {} /\ request[Caller].about = {}
  /\ reduction.level = 0 \/ reduction.kept = reduction.entered
  /\ Cardinality(reduction.entered) > MergeLimit
  /\ IF reduction.level = 3 THEN coveragePc' = "unresolved" /\ UNCHANGED reduction
     ELSE /\ reduction' = [level |-> reduction.level + 1, kept |-> {},
                           rest |-> reduction.entered, entered |-> reduction.entered]
          /\ UNCHANGED coveragePc
  /\ UNCHANGED <<serial, omissions, topics, decided, queue, request, raised,
                 cancelled, calls, proposed, reply>>

ReduceGroup ==
  /\ coveragePc = "reducing" /\ reduction.rest # {} /\ request[Caller].about = {}
  /\ Cardinality(Waiting) > MergeLimit
  /\ request' = [request EXCEPT ![Caller] = AskAbout(Caller, First(reduction.rest, GroupLimit))]
  /\ UNCHANGED <<coveragePc, serial, omissions, topics, decided, queue, raised, cancelled,
                 calls, proposed, reduction, reply>>

\* The end of a level that kept everything fails; otherwise what it kept enters
\* the next one.
Reduced ==
  /\ coveragePc = "reducing" /\ request[Caller].asked
  /\ LET group == request[Caller].about
         rest  == reduction.rest \ group
     IN \E include \in SUBSET group :
        LET kept == reduction.kept \cup include
        IN /\ DecidedIn(Caller, include)
           /\ IF rest = {} /\ kept = reduction.entered
              THEN coveragePc' = "unresolved" /\ UNCHANGED reduction
              ELSE /\ reduction' = [reduction EXCEPT !.kept = kept, !.rest = rest,
                                    !.entered = IF rest = {} THEN kept ELSE @]
                   /\ UNCHANGED coveragePc
  /\ request' = [request EXCEPT ![Caller] = Resting]
  /\ UNCHANGED <<serial, omissions, topics, queue, raised,
                 cancelled, calls, proposed, reply>>

-----------------------------------------------------------------------------
(* _merge: the proposals decided once more, the accepted observations kept *)

\* Mutant: only the series of the accepted topics are looked for, not their points.
KeepsSomeOriginal(chosen) == Points[CHOOSE s \in Original : TRUE] \cap Selected(chosen) # {}

KeepsOriginal(chosen) == \A s \in Original : Points[s] \subseteq Selected(chosen)

MergeableReply(answer) ==
  /\ answer.topics \subseteq Original \cup proposed
  /\ KeepsOriginal(answer.topics)
  /\ \A s \in answer.include : Represented(s, answer.topics)

\* decisions.update(final): of the proposals only.
Merged(answer) ==
  [s \in Candidates |-> IF s \notin proposed THEN decided[s]
                       ELSE IF s \in answer.include THEN "include" ELSE "omit"]

Merge ==
  /\ coveragePc = "merging" /\ request[Caller].asked
  /\ \E chosen \in SUBSET Series, include \in SUBSET proposed,
        omitted \in SUBSET Original :
       LET answer == [topics |-> chosen, include |-> include, omitted |-> omitted]
       IN /\ reply' = answer
          /\ \/ /\ MergeableReply(answer)
                /\ Commit(chosen, Merged(answer), omitted)
                /\ request' = [request EXCEPT ![Caller] = Resting]
                /\ UNCHANGED raised
             \/ CorrectOnce(Caller) /\ UNCHANGED <<topics, decided, omissions>>
  /\ UNCHANGED <<serial, queue, cancelled, calls, proposed, reduction>>

\* replay_merge: a complete ledger and its retained reply, against the validators
\* of today; a failure leaves the review unresolved.
Replay ==
  /\ coveragePc = "unresolved" /\ reply # NoReply
  /\ \A s \in Candidates : decided[s] # "none"
  /\ proposed = IncludedSeries /\ MergeableReply(reply)
  /\ Commit(reply.topics, Merged(reply), reply.omitted)
  /\ UNCHANGED <<serial, queue, request, raised, cancelled, calls, proposed,
                 reduction, reply>>

-----------------------------------------------------------------------------
CoverageInit ==
  /\ coveragePc = "idle" /\ serial \in BOOLEAN /\ topics = Original
  /\ decided = [s \in Candidates |-> "none"] /\ omissions = {}
  /\ queue = {} /\ request = [r \in Requesters |-> Resting]
  /\ raised = {} /\ cancelled = FALSE /\ calls = 0
  /\ proposed = {} /\ reduction = NotReduced /\ reply = NoReply

CoverageNext ==
  \/ ReviewAtOnce \/ BeginDeltas \/ Observe \/ Abort \/ JoinDeltas
  \/ StartMerge \/ StartLevel \/ ReduceGroup \/ Reduced \/ Merge \/ Replay
  \/ \E w \in DeltaWorkers : Take(w) \/ Deliver(w)
  \/ \E r \in Requesters : Reserve(r) \/ Truncated(r) \/ Lost(r) \/ Unusable(r)

CoverageSpec == CoverageInit /\ [][CoverageNext]_coverageVars

-----------------------------------------------------------------------------
(* A committed review has decided every candidate, and "include" means that the *)
(* topics represent it, although the decisions came from deltas, a reduction    *)
(* and a merge that each saw a part: a partial ledger never reaches the merge.  *)
LedgerMatchesTopics ==
  coveragePc \in {"small", "complete"} =>
    \A s \in Candidates :
      /\ decided[s] # "none"
      /\ (decided[s] = "include") <=> Represented(s, topics)

(* No committed regrouping loses an observation the topics had, unless its series *)
(* is omitted explicitly; a review that did not complete changes nothing.         *)
AcceptedObservationsKept ==
  /\ \A s \in Original : Points[s] \subseteq Selected(topics) \/ s \in omissions
  /\ coveragePc \notin {"small", "complete"} => topics = Original
=============================================================================
