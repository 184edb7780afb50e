------------------------------- MODULE WorkPools -------------------------------
(***************************************************************************)
(* The pools that read a list in batches: candidate scoring                  *)
(* (agent/value_scorer.py), insight writing (agent/insight_batches.py),      *)
(* metric names (agent/semantic_resolver.py) and chapter navigation          *)
(* (agent/requirement_navigation.py).  A batch whose answer was cut off is   *)
(* halved; two of the pools stop their siblings at the first failure.        *)
(***************************************************************************)
EXTENDS Integers, SequencesExt, FiniteSetsExt

CONSTANTS
  PoolItems,   \* items, in order: 1..PoolItems
  BatchSize,
  PoolWorkers

ASSUME PoolAssumption == PoolItems \in Nat /\ BatchSize \in Nat \ {0}

VARIABLES
  poolPc,
  poolKind,
  waitingBatches,  \* batches no thread has taken
  remaining,       \* batch -> halves still to ask for, with their depth
  answers,         \* batch -> answers, each with the items it was asked for
  state,           \* batch -> "", "ok", "failed", "cancelled"
  poolFailures,    \* batches that failed, in order
  stopped,         \* the event shared by the threads
  taken,           \* batches whose result was taken, in order
  raisedFor,       \* batch whose failure is raised, and whether it was itself cancelled
  returned

poolVars == <<poolPc, poolKind, waitingBatches, remaining, answers, state, poolFailures, stopped,
              taken, raisedFor, returned>>

PoolKinds == {"scoring", "insight", "semantic", "navigation"}
Batches == 1..((PoolItems + BatchSize - 1) \div BatchSize)
Batch(b) == [i \in 1..Min({BatchSize, PoolItems - (b - 1) * BatchSize}) |-> (b - 1) * BatchSize + i]

\* Scoring and insights share one event and the first failure.
Shares == poolKind \in {"scoring", "insight"}
\* All but scoring take the results in the order of the list.
InOrder == poolKind # "scoring"

Running == {b \in Batches : remaining[b] # <<>>}

TakeBatch ==
  /\ poolPc = "working" /\ waitingBatches # <<>> /\ Cardinality(Running) < PoolWorkers
  /\ PoolWorkers = 1 => \A b \in Batches : state[b] \in {"", "ok"}
  /\ LET b == Head(waitingBatches)
     IN /\ waitingBatches' = Tail(waitingBatches) /\ remaining' = [remaining EXCEPT ![b] = <<[items |-> Batch(b), depth |-> 0]>>]
  /\ UNCHANGED <<poolPc, poolKind, answers, state, poolFailures, stopped, taken, raisedFor, returned>>

Ends(b, how) ==
  /\ state' = [state EXCEPT ![b] = how] /\ remaining' = [remaining EXCEPT ![b] = <<>>]
  /\ poolFailures' = IF how # "ok" /\ Shares THEN Append(poolFailures, b) ELSE poolFailures
  /\ stopped' = (stopped \/ (how # "ok" /\ Shares))

\* How far a batch that was cut off is halved.
Halves(part) ==
  /\ Len(part.items) > 1
  /\ CASE poolKind = "semantic" -> part.depth < 2
       [] poolKind = "navigation" -> FALSE
       [] OTHER -> TRUE

\* Mutant: the middle item of an odd half is asked for twice.
HalvedUnevenly(part) ==
  LET half == (Len(part.items) + 1) \div 2
  IN <<[items |-> SubSeq(part.items, 1, half), depth |-> part.depth + 1],
       [items |-> SubSeq(part.items, Len(part.items) \div 2 + 1, Len(part.items)), depth |-> part.depth + 1]>>

Halved(part) ==
  LET half == Len(part.items) \div 2
  IN <<[items |-> SubSeq(part.items, 1, half), depth |-> part.depth + 1],
       [items |-> SubSeq(part.items, half + 1, Len(part.items)), depth |-> part.depth + 1]>>

\* An answer may leave an item out, repeat it, or name one of another batch.
AnswersTo(items) ==
  {items} \cup {Tail(items)} \cup {Append(items, items[1])} \cup {Append(Tail(items), i) : i \in {1, PoolItems}}

Work(b) ==
  /\ poolPc \in {"working", "closing"} /\ remaining[b] # <<>>
  /\ LET part == Head(remaining[b])
     IN \/ /\ stopped /\ Ends(b, "cancelled") /\ UNCHANGED answers
        \/ /\ ~stopped
           /\ \/ /\ \E said \in AnswersTo(part.items) :
                      answers' = [answers EXCEPT ![b] = Append(@, [asked |-> part.items, said |-> said])]
                 /\ IF Len(remaining[b]) = 1 THEN Ends(b, "ok")
                    ELSE remaining' = [remaining EXCEPT ![b] = Tail(@)] /\ UNCHANGED <<state, poolFailures, stopped>>
              \/ /\ Halves(part)
                 /\ remaining' = [remaining EXCEPT ![b] = Halved(part) \o Tail(@)]
                 /\ UNCHANGED <<answers, state, poolFailures, stopped>>
              \/ Ends(b, "failed") /\ UNCHANGED answers   \* also a single item that is cut off
  /\ UNCHANGED <<poolPc, poolKind, waitingBatches, taken, raisedFor, returned>>

-----------------------------------------------------------------------------
(* The thread that started the pool *)

Awaited(b) == state[b] # "" /\ b \notin Range(taken) /\ (InOrder => b = Len(taken) + 1)

\* Mutant: the failure of the batch that is awaited is raised.
Awaits(b) == b

FirstFailure(b) == IF poolFailures # <<>> THEN poolFailures[1] ELSE b

\* The result of a batch is taken, or its failure stops the pool: batches not started
\* are cancelled, those that run are waited for.
Collect ==
  /\ poolPc = "working"
  /\ \E b \in Batches :
       /\ Awaited(b)
       /\ IF state[b] = "ok"
          THEN taken' = Append(taken, b) /\ UNCHANGED <<poolPc, waitingBatches, state, stopped, raisedFor>>
          ELSE /\ poolPc' = "closing" /\ raisedFor' = FirstFailure(b)
               /\ waitingBatches' = <<>> /\ stopped' = (stopped \/ Shares)
               /\ state' = [c \in Batches |-> IF c \in Range(waitingBatches) THEN "cancelled" ELSE state[c]]
               /\ UNCHANGED taken
  /\ UNCHANGED <<poolKind, remaining, answers, poolFailures, returned>>

\* Mutant: results are joined as they ended.
JoinedAsTaken == taken

\* The order in which the results of the batches are joined.
Joined == [b \in Batches |-> b]

\* Mutant: an item is decided by whichever answer names it.
NamedAnywhere(answer, i) == {n \in DOMAIN answer.said : answer.said[n] = i}

\* Decisions on items another request asked for do not count.
NamedByOwn(answer, i) == {n \in DOMAIN answer.said : answer.said[n] = i /\ i \in Range(answer.asked)}

Decisions(i) ==
  UNION {UNION {{<<b, k, n>> : n \in NamedByOwn(answers[b][k], i)} : k \in DOMAIN answers[b]} : b \in Batches}

\* A candidate needs exactly one decision; an insight cites only results of its batch; a
\* metric takes the last mapping of its own batch.
Accepted ==
  {i \in 1..PoolItems : Decisions(i) # {} /\ (poolKind = "scoring" => Cardinality(Decisions(i)) = 1)}

Return ==
  /\ poolPc = "working" /\ Len(taken) = Cardinality(Batches)
  /\ poolPc' = "returned"
  /\ returned' = [joined |-> Joined, accepted |-> Accepted]
  /\ UNCHANGED <<poolKind, waitingBatches, remaining, answers, state, poolFailures, stopped, taken,
                 raisedFor>>

RaiseCause ==
  /\ poolPc = "closing" /\ Running = {} /\ poolPc' = "raised"
  /\ UNCHANGED <<poolKind, waitingBatches, remaining, answers, state, poolFailures, stopped, taken,
                 raisedFor, returned>>

PoolInit ==
  /\ poolPc = "working" /\ poolKind \in PoolKinds
  /\ waitingBatches = [b \in Batches |-> b] /\ remaining = [b \in Batches |-> <<>>] /\ answers = [b \in Batches |-> <<>>]
  /\ state = [b \in Batches |-> ""] /\ poolFailures = <<>> /\ stopped = FALSE /\ taken = <<>> /\ raisedFor = 0
  /\ returned = [joined |-> <<>>, accepted |-> {}]

PoolNext == TakeBatch \/ Collect \/ Return \/ RaiseCause \/ \E b \in Batches : Work(b)

PoolSpec == PoolInit /\ [][PoolNext]_poolVars

-----------------------------------------------------------------------------
(* What a pool returns asked for every item once, in the order of the list, however *)
(* its batches were halved and in whatever order they ended.                        *)
BatchesAccounted ==
  poolPc = "returned" =>
    LET joined == returned.joined
        Of(x) == answers[joined[x]]
        Places == UNION {UNION {{<<x, k, n>> : n \in DOMAIN Of(x)[k].asked} : k \in DOMAIN Of(x)} : x \in DOMAIN joined}
        Item(p) == Of(p[1])[p[2]].asked[p[3]]
        Before(p, q) == \/ p[1] < q[1]
                        \/ p[1] = q[1] /\ p[2] < q[2]
                        \/ p[1] = q[1] /\ p[2] = q[2] /\ p[3] < q[3]
    IN /\ {Item(p) : p \in Places} = 1..PoolItems
       /\ \A p, q \in Places : Before(p, q) => Item(p) < Item(q)

(* A candidate is decided only by the request that asked for it, and once.          *)
OwnBatchDecides ==
  poolPc = "returned" =>
    \A i \in returned.accepted :
      \E b \in Batches : \E k \in DOMAIN answers[b] :
        i \in Range(answers[b][k].asked) /\ i \in Range(answers[b][k].said)

(* The failure a pool raises is never that of a batch that was merely stopped       *)
(* because another had failed.                                                      *)
CauseRaised == poolPc = "raised" => state[raisedFor] = "failed"
=============================================================================
