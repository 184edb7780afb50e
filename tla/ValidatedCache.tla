--------------------------- MODULE ValidatedCache ---------------------------
(***************************************************************************)
(* The gateway's disk cache under validated cache scopes                    *)
(* (services/llm/gateway.py, utils/caching.py), as the topic evidence and   *)
(* coverage reviews use it: a stage opens a scope, its pool workers run in  *)
(* copies of the stage's context and so share one key set, a failure        *)
(* cancels and drains the pool, and only then revokes every noted key.      *)
(* Two stages are two sessions analysing the same document over one cache   *)
(* directory.  A reply is <<worker, round, key>>.                           *)
(***************************************************************************)
EXTENDS Integers, FiniteSets, TLAPS

CONSTANTS
  Stages,      \* sessions, each running one validated stage
  Workers,     \* pool workers over all stages
  Owner,       \* the stage of a worker
  Keys,        \* request identities
  MaxRounds,   \* bound: times a stage is started (first run and retries)
  None

ASSUME CacheAssumption ==
  /\ Owner \in [Workers -> Stages]
  /\ MaxRounds \in Nat
  /\ Keys # {}
  /\ None \notin Workers \X (1..MaxRounds) \X Keys

VARIABLES
  stage,      \* closed | running | draining | revoking | accepted
  round,      \* how often the stage has started
  pc,         \* a worker's place in its request
  key,        \* the key of the worker's request
  cache,      \* the reply kept under each key
  keys,       \* _validation_cache_keys of the open scope
  todo,       \* keys the revocation has still to remove
  used,       \* history: replies the scope's workers took or stored
  rejected    \* history: replies whose scope was rejected

vars == <<stage, round, pc, key, cache, keys, todo, used, rejected>>

Replies == Workers \X (1..MaxRounds) \X Keys
Team(s) == {w \in Workers : Owner[w] = s}
Active  == {"lookup", "fetch", "store"}
Over    == {"done", "failed", "dropped"}

\* validated_cache_scope and the pool are set up: one task per worker.
OpenScope(s) ==
  /\ stage[s] \in {"closed", "accepted"}
  /\ round[s] < MaxRounds
  /\ stage' = [stage EXCEPT ![s] = "running"]
  /\ round' = [round EXCEPT ![s] = @ + 1]
  /\ keys' = [keys EXCEPT ![s] = {}]
  /\ used' = [used EXCEPT ![s] = {}]
  /\ pc' = [w \in Workers |-> IF Owner[w] = s THEN "pending" ELSE pc[w]]
  /\ UNCHANGED <<key, cache, todo, rejected>>

\* A pool thread picks its task up; the key is that of its messages.
StartTask(w, k) ==
  /\ stage[Owner[w]] = "running"
  /\ pc[w] = "pending"
  /\ pc' = [pc EXCEPT ![w] = "lookup"]
  /\ key' = [key EXCEPT ![w] = k]
  /\ UNCHANGED <<stage, round, cache, keys, todo, used, rejected>>

\* Mutant: only a request that must be fetched notes its key.
NotedOnMiss(w, hit) ==
  IF hit THEN keys ELSE [keys EXCEPT ![Owner[w]] = @ \union {key[w]}]

\* scoped_keys.add precedes the lookup.
Noted(w, hit) == [keys EXCEPT ![Owner[w]] = @ \union {key[w]}]

Hit(w) ==
  /\ pc[w] = "lookup"
  /\ cache[key[w]] # None
  /\ keys' = Noted(w, TRUE)
  /\ used' = [used EXCEPT ![Owner[w]] = @ \union {cache[key[w]]}]
  /\ pc' = [pc EXCEPT ![w] = "done"]
  /\ UNCHANGED <<stage, round, key, cache, todo, rejected>>

\* Missing, or present but unreadable (get_model swallows OSError, ValueError).
Miss(w) ==
  /\ pc[w] = "lookup"
  /\ keys' = Noted(w, FALSE)
  /\ pc' = [pc EXCEPT ![w] = "fetch"]
  /\ UNCHANGED <<stage, round, key, cache, todo, used, rejected>>

\* The provider's reply passes the schema, or the request fails; a cancelled
\* one may do either, depending on whether it was admitted already.
Fetch(w, ok) ==
  /\ pc[w] = "fetch"
  /\ pc' = [pc EXCEPT ![w] = IF ok THEN "store" ELSE "failed"]
  /\ UNCHANGED <<stage, round, key, cache, keys, todo, used, rejected>>

\* set_model replaces the file atomically.
Store(w) ==
  LET reply == <<w, round[Owner[w]], key[w]>> IN
  /\ pc[w] = "store"
  /\ cache' = [cache EXCEPT ![key[w]] = reply]
  /\ used' = [used EXCEPT ![Owner[w]] = @ \union {reply}]
  /\ pc' = [pc EXCEPT ![w] = "done"]
  /\ UNCHANGED <<stage, round, key, keys, todo, rejected>>

\* as_completed meets a failure: set the Event (from here on the stage is
\* draining), cancel what has not started.
NoticeFailure(s) ==
  /\ stage[s] = "running"
  /\ \E w \in Team(s) : pc[w] = "failed"
  /\ stage' = [stage EXCEPT ![s] = "draining"]
  /\ pc' = [w \in Workers |-> IF Owner[w] = s /\ pc[w] = "pending"
                              THEN "dropped" ELSE pc[w]]
  /\ UNCHANGED <<round, key, cache, keys, todo, used, rejected>>

\* Mutant: the scope is left without waiting for the pool.
Impatient(s) == TRUE

\* The pool's context manager waits for every thread.
Drained(s) == \A w \in Team(s) : pc[w] \in Over

\* Mutant: the replies are handed to the removal in place of their keys.
RevokeReplies(s) ==
  /\ stage' = [stage EXCEPT ![s] = "revoking"]
  /\ todo' = [todo EXCEPT ![s] = used[s]]
  /\ rejected' = rejected \union used[s]
  /\ UNCHANGED <<round, pc, key, cache, keys, used>>

\* discard_validation_cache: every key the scope noted.
Revoke(s) ==
  /\ stage' = [stage EXCEPT ![s] = "revoking"]
  /\ todo' = [todo EXCEPT ![s] = keys[s]]
  /\ rejected' = rejected \union used[s]
  /\ UNCHANGED <<round, pc, key, cache, keys, used>>

\* The failure leaves the scope: discard_validation_cache begins.
FailScope(s) == stage[s] = "draining" /\ Drained(s) /\ Revoke(s)

\* Every task answered, but the stage's own validation refuses the whole, or
\* its caller revokes the scope explicitly and keeps the diagnostics.
RejectScope(s) ==
  /\ stage[s] = "running"
  /\ \A w \in Team(s) : pc[w] = "done"
  /\ Revoke(s)

AcceptScope(s) ==
  /\ stage[s] = "running"
  /\ \A w \in Team(s) : pc[w] = "done"
  /\ stage' = [stage EXCEPT ![s] = "accepted"]
  /\ UNCHANGED <<round, pc, key, cache, keys, todo, used, rejected>>

RemoveModel(s, k) ==
  /\ stage[s] = "revoking"
  /\ k \in todo[s]
  /\ cache' = [cache EXCEPT ![k] = None]
  /\ todo' = [todo EXCEPT ![s] = @ \ {k}]
  /\ UNCHANGED <<stage, round, pc, key, keys, used, rejected>>

CloseScope(s) ==
  /\ stage[s] = "revoking"
  /\ todo[s] = {}
  /\ stage' = [stage EXCEPT ![s] = "closed"]
  /\ UNCHANGED <<round, pc, key, cache, keys, todo, used, rejected>>

Init ==
  /\ stage = [s \in Stages |-> "closed"]
  /\ round = [s \in Stages |-> 0]
  /\ pc = [w \in Workers |-> "done"]
  /\ key = [w \in Workers |-> CHOOSE k \in Keys : TRUE]
  /\ cache = [k \in Keys |-> None]
  /\ keys = [s \in Stages |-> {}]
  /\ todo = [s \in Stages |-> {}]
  /\ used = [s \in Stages |-> {}]
  /\ rejected = {}

Task(w) ==
  \/ \E k \in Keys : StartTask(w, k)
  \/ Hit(w) \/ Miss(w) \/ Store(w)
  \/ \E ok \in BOOLEAN : Fetch(w, ok)

Scope(s) ==
  \/ OpenScope(s) \/ NoticeFailure(s) \/ FailScope(s) \/ RejectScope(s)
  \/ AcceptScope(s) \/ CloseScope(s)
  \/ \E k \in Keys : RemoveModel(s, k)

Next == (\E w \in Workers : Task(w)) \/ (\E s \in Stages : Scope(s))

Spec == Init /\ [][Next]_vars

-----------------------------------------------------------------------------
(* Properties *)

\* Every variable keeps its shape; a revocation holds keys, never replies.
TypeOK ==
  /\ stage \in [Stages -> {"closed", "running", "draining", "revoking", "accepted"}]
  /\ round \in [Stages -> 0..MaxRounds]
  /\ pc \in [Workers -> {"pending"} \union Active \union Over]
  /\ key \in [Workers -> Keys]
  /\ cache \in [Keys -> Replies \union {None}]
  /\ keys \in [Stages -> SUBSET Keys]
  /\ todo \in [Stages -> SUBSET Keys]
  /\ used \in [Stages -> SUBSET Replies]
  /\ rejected \subseteq Replies

\* A reply that a failed scope used, its own or one it found in the cache, is
\* gone once the revocation has passed its key: no straggling worker of the
\* stage and no other session puts it back ("evict a failed final
\* wording/review", agent/topic_evidence_review.py:133).
RejectedReplyNotRetained ==
  \A k \in Keys : cache[k] \in rejected =>
    \E s \in Stages : stage[s] = "revoking" /\ k \in todo[s]

\* The key set is iterated by the revocation only when nobody can add to it
\* any more (a set changed during iteration would raise and strand the rest).
RevocationSeesFinalKeys ==
  \A s \in Stages : stage[s] = "revoking" =>
    \A w \in Team(s) : pc[w] \notin Active \union {"pending"}

\* A revocation is complete: nothing adds to its keys while it runs, and nothing of them is left
\* in the cache once it is over.
RevocationComplete == RejectedReplyNotRetained /\ RevocationSeesFinalKeys

-----------------------------------------------------------------------------
(* Proofs: for any number of stages, workers, keys and rounds, what a failed *)
(* validation scope used does not stay in the cache.                         *)

\* Only the workers of a running or draining stage have work left.
TeamInv ==
  \A w \in Workers : pc[w] \in Active \union {"pending"} =>
    stage[Owner[w]] \in {"running", "draining"}

\* A scope that is not closed has been opened.
RoundInv == \A s \in Stages : stage[s] # "closed" => round[s] \in 1..MaxRounds

\* A scope has noted the key of everything its workers used or may still store.
NotedInv ==
  /\ \A s \in Stages : \A r \in used[s] : r[3] \in keys[s]
  /\ \A w \in Workers : pc[w] \in {"fetch", "store"} => key[w] \in keys[Owner[w]]

\* A reply lies under its own key.
PlacedInv == \A k \in Keys : cache[k] # None => cache[k][3] = k

\* A reply exists only once its worker has stored it.
Stored(r) ==
  \/ r[2] < round[Owner[r[1]]]
  \/ r[2] = round[Owner[r[1]]] /\ pc[r[1]] = "done"

StoredInv ==
  /\ \A k \in Keys : cache[k] # None => Stored(cache[k])
  /\ \A s \in Stages : \A r \in used[s] : Stored(r)
  /\ \A r \in rejected : Stored(r)

IInv ==
  /\ TypeOK
  /\ RoundInv
  /\ TeamInv
  /\ NotedInv
  /\ PlacedInv
  /\ StoredInv
  /\ RejectedReplyNotRetained

LEMMA InitIInv == Init => IInv
<1> SUFFICES ASSUME Init PROVE IInv
  OBVIOUS
<1>1. (CHOOSE k \in Keys : TRUE) \in Keys
  BY CacheAssumption
<1>2. TypeOK
  BY <1>1, CacheAssumption DEF Init, TypeOK, Over
<1>3. None \notin Replies
  BY CacheAssumption DEF Replies
<1>4. QED
  BY <1>2, <1>3 DEF Init, IInv, RoundInv, TeamInv, NotedInv, PlacedInv, StoredInv,
     RejectedReplyNotRetained, Active, Stored

\* Every step keeps the types.
LEMMA TypeNext == IInv /\ [Next]_vars => TypeOK'
<1> SUFFICES ASSUME IInv, [Next]_vars PROVE TypeOK'
  OBVIOUS
<1> USE CacheAssumption DEF IInv, TypeOK, RoundInv, TeamInv, Active, Over, Replies
<1>1. ASSUME NEW w \in Workers, NEW k \in Keys, StartTask(w, k) PROVE TypeOK'
  BY <1>1 DEF StartTask
<1>2. ASSUME NEW w \in Workers, Hit(w) PROVE TypeOK'
  BY <1>2 DEF Hit, Noted
<1>3. ASSUME NEW w \in Workers, Miss(w) PROVE TypeOK'
  BY <1>3 DEF Miss, Noted
<1>4. ASSUME NEW w \in Workers, NEW ok \in BOOLEAN, Fetch(w, ok) PROVE TypeOK'
  BY <1>4 DEF Fetch
<1>5. ASSUME NEW w \in Workers, Store(w) PROVE TypeOK'
  BY <1>5 DEF Store
<1>6. ASSUME NEW s \in Stages, OpenScope(s) PROVE TypeOK'
  BY <1>6 DEF OpenScope
<1>7. ASSUME NEW s \in Stages, NoticeFailure(s) PROVE TypeOK'
  BY <1>7 DEF NoticeFailure
<1>8. ASSUME NEW s \in Stages, FailScope(s) PROVE TypeOK'
  BY <1>8 DEF FailScope, Revoke, Drained
<1>9. ASSUME NEW s \in Stages, RejectScope(s) PROVE TypeOK'
  BY <1>9 DEF RejectScope, Revoke
<1>10. ASSUME NEW s \in Stages, AcceptScope(s) PROVE TypeOK'
  BY <1>10 DEF AcceptScope
<1>11. ASSUME NEW s \in Stages, CloseScope(s) PROVE TypeOK'
  BY <1>11 DEF CloseScope
<1>12. ASSUME NEW s \in Stages, NEW k \in Keys, RemoveModel(s, k) PROVE TypeOK'
  BY <1>12 DEF RemoveModel
<1>13. CASE UNCHANGED vars
  BY <1>13 DEF vars
<1>14. QED
  BY <1>1, <1>2, <1>3, <1>4, <1>5, <1>6, <1>7, <1>8, <1>9, <1>10, <1>11, <1>12, <1>13
     DEF Next, Task, Scope

\* An open scope has a round.
LEMMA RoundNext == IInv /\ [Next]_vars => RoundInv'
<1> SUFFICES ASSUME IInv, [Next]_vars PROVE RoundInv'
  OBVIOUS
<1> USE CacheAssumption DEF IInv, TypeOK, RoundInv
<1>1. ASSUME NEW w \in Workers, NEW k \in Keys, StartTask(w, k) PROVE RoundInv'
  BY <1>1 DEF StartTask
<1>2. ASSUME NEW w \in Workers, Hit(w) PROVE RoundInv'
  BY <1>2 DEF Hit, Noted
<1>3. ASSUME NEW w \in Workers, Miss(w) PROVE RoundInv'
  BY <1>3 DEF Miss, Noted
<1>4. ASSUME NEW w \in Workers, NEW ok \in BOOLEAN, Fetch(w, ok) PROVE RoundInv'
  BY <1>4 DEF Fetch
<1>5. ASSUME NEW w \in Workers, Store(w) PROVE RoundInv'
  BY <1>5 DEF Store
<1>6. ASSUME NEW s \in Stages, OpenScope(s) PROVE RoundInv'
  BY <1>6 DEF OpenScope
<1>7. ASSUME NEW s \in Stages, NoticeFailure(s) PROVE RoundInv'
  BY <1>7 DEF NoticeFailure
<1>8. ASSUME NEW s \in Stages, FailScope(s) PROVE RoundInv'
  BY <1>8 DEF FailScope, Revoke, Drained
<1>9. ASSUME NEW s \in Stages, RejectScope(s) PROVE RoundInv'
  BY <1>9 DEF RejectScope, Revoke
<1>10. ASSUME NEW s \in Stages, AcceptScope(s) PROVE RoundInv'
  BY <1>10 DEF AcceptScope
<1>11. ASSUME NEW s \in Stages, CloseScope(s) PROVE RoundInv'
  BY <1>11 DEF CloseScope
<1>12. ASSUME NEW s \in Stages, NEW k \in Keys, RemoveModel(s, k) PROVE RoundInv'
  BY <1>12 DEF RemoveModel
<1>13. CASE UNCHANGED vars
  BY <1>13 DEF vars
<1>14. QED
  BY <1>1, <1>2, <1>3, <1>4, <1>5, <1>6, <1>7, <1>8, <1>9, <1>10, <1>11, <1>12, <1>13
     DEF Next, Task, Scope

\* No worker outlives its scope.
LEMMA TeamNext == IInv /\ [Next]_vars => TeamInv'
<1> SUFFICES ASSUME IInv, [Next]_vars PROVE TeamInv'
  OBVIOUS
<1> USE CacheAssumption DEF IInv, TypeOK, TeamInv, Active, Over, Team
<1>1. ASSUME NEW w \in Workers, NEW k \in Keys, StartTask(w, k) PROVE TeamInv'
  BY <1>1 DEF StartTask
<1>2. ASSUME NEW w \in Workers, Hit(w) PROVE TeamInv'
  BY <1>2 DEF Hit, Noted
<1>3. ASSUME NEW w \in Workers, Miss(w) PROVE TeamInv'
  BY <1>3 DEF Miss, Noted
<1>4. ASSUME NEW w \in Workers, NEW ok \in BOOLEAN, Fetch(w, ok) PROVE TeamInv'
  BY <1>4 DEF Fetch
<1>5. ASSUME NEW w \in Workers, Store(w) PROVE TeamInv'
  BY <1>5 DEF Store
<1>6. ASSUME NEW s \in Stages, OpenScope(s) PROVE TeamInv'
  BY <1>6 DEF OpenScope
<1>7. ASSUME NEW s \in Stages, NoticeFailure(s) PROVE TeamInv'
  BY <1>7 DEF NoticeFailure
<1>8. ASSUME NEW s \in Stages, FailScope(s) PROVE TeamInv'
  BY <1>8 DEF FailScope, Revoke, Drained
<1>9. ASSUME NEW s \in Stages, RejectScope(s) PROVE TeamInv'
  BY <1>9 DEF RejectScope, Revoke
<1>10. ASSUME NEW s \in Stages, AcceptScope(s) PROVE TeamInv'
  BY <1>10 DEF AcceptScope
<1>11. ASSUME NEW s \in Stages, CloseScope(s) PROVE TeamInv'
  BY <1>11 DEF CloseScope
<1>12. ASSUME NEW s \in Stages, NEW k \in Keys, RemoveModel(s, k) PROVE TeamInv'
  BY <1>12 DEF RemoveModel
<1>13. CASE UNCHANGED vars
  BY <1>13 DEF vars
<1>14. QED
  BY <1>1, <1>2, <1>3, <1>4, <1>5, <1>6, <1>7, <1>8, <1>9, <1>10, <1>11, <1>12, <1>13
     DEF Next, Task, Scope

\* Whatever is used is noted first.
LEMMA NotedNext == IInv /\ [Next]_vars => NotedInv'
<1> SUFFICES ASSUME IInv, [Next]_vars PROVE NotedInv'
  OBVIOUS
<1> USE CacheAssumption DEF IInv, TypeOK, TeamInv, NotedInv, PlacedInv, Replies, Active
<1>1. ASSUME NEW w \in Workers, NEW k \in Keys, StartTask(w, k) PROVE NotedInv'
  BY <1>1 DEF StartTask
<1>2. ASSUME NEW w \in Workers, Hit(w) PROVE NotedInv'
  BY <1>2 DEF Hit, Noted
<1>3. ASSUME NEW w \in Workers, Miss(w) PROVE NotedInv'
  BY <1>3 DEF Miss, Noted
<1>4. ASSUME NEW w \in Workers, NEW ok \in BOOLEAN, Fetch(w, ok) PROVE NotedInv'
  BY <1>4 DEF Fetch
<1>5. ASSUME NEW w \in Workers, Store(w) PROVE NotedInv'
  BY <1>5 DEF Store
<1>6. ASSUME NEW s \in Stages, OpenScope(s) PROVE NotedInv'
  BY <1>6 DEF OpenScope
<1>7. ASSUME NEW s \in Stages, NoticeFailure(s) PROVE NotedInv'
  BY <1>7 DEF NoticeFailure
<1>8. ASSUME NEW s \in Stages, FailScope(s) PROVE NotedInv'
  BY <1>8 DEF FailScope, Revoke, Drained
<1>9. ASSUME NEW s \in Stages, RejectScope(s) PROVE NotedInv'
  BY <1>9 DEF RejectScope, Revoke
<1>10. ASSUME NEW s \in Stages, AcceptScope(s) PROVE NotedInv'
  BY <1>10 DEF AcceptScope
<1>11. ASSUME NEW s \in Stages, CloseScope(s) PROVE NotedInv'
  BY <1>11 DEF CloseScope
<1>12. ASSUME NEW s \in Stages, NEW k \in Keys, RemoveModel(s, k) PROVE NotedInv'
  BY <1>12 DEF RemoveModel
<1>13. CASE UNCHANGED vars
  BY <1>13 DEF vars
<1>14. QED
  BY <1>1, <1>2, <1>3, <1>4, <1>5, <1>6, <1>7, <1>8, <1>9, <1>10, <1>11, <1>12, <1>13
     DEF Next, Task, Scope

\* Replies stay under their keys.
LEMMA PlacedNext == IInv /\ [Next]_vars => PlacedInv'
<1> SUFFICES ASSUME IInv, [Next]_vars PROVE PlacedInv'
  OBVIOUS
<1> USE CacheAssumption DEF IInv, TypeOK, PlacedInv, Replies
<1>1. ASSUME NEW w \in Workers, NEW k \in Keys, StartTask(w, k) PROVE PlacedInv'
  BY <1>1 DEF StartTask
<1>2. ASSUME NEW w \in Workers, Hit(w) PROVE PlacedInv'
  BY <1>2 DEF Hit, Noted
<1>3. ASSUME NEW w \in Workers, Miss(w) PROVE PlacedInv'
  BY <1>3 DEF Miss, Noted
<1>4. ASSUME NEW w \in Workers, NEW ok \in BOOLEAN, Fetch(w, ok) PROVE PlacedInv'
  BY <1>4 DEF Fetch
<1>5. ASSUME NEW w \in Workers, Store(w) PROVE PlacedInv'
  BY <1>5 DEF Store
<1>6. ASSUME NEW s \in Stages, OpenScope(s) PROVE PlacedInv'
  BY <1>6 DEF OpenScope
<1>7. ASSUME NEW s \in Stages, NoticeFailure(s) PROVE PlacedInv'
  BY <1>7 DEF NoticeFailure
<1>8. ASSUME NEW s \in Stages, FailScope(s) PROVE PlacedInv'
  BY <1>8 DEF FailScope, Revoke, Drained
<1>9. ASSUME NEW s \in Stages, RejectScope(s) PROVE PlacedInv'
  BY <1>9 DEF RejectScope, Revoke
<1>10. ASSUME NEW s \in Stages, AcceptScope(s) PROVE PlacedInv'
  BY <1>10 DEF AcceptScope
<1>11. ASSUME NEW s \in Stages, CloseScope(s) PROVE PlacedInv'
  BY <1>11 DEF CloseScope
<1>12. ASSUME NEW s \in Stages, NEW k \in Keys, RemoveModel(s, k) PROVE PlacedInv'
  BY <1>12 DEF RemoveModel
<1>13. CASE UNCHANGED vars
  BY <1>13 DEF vars
<1>14. QED
  BY <1>1, <1>2, <1>3, <1>4, <1>5, <1>6, <1>7, <1>8, <1>9, <1>10, <1>11, <1>12, <1>13
     DEF Next, Task, Scope

\* No reply is used or rejected before it is stored.
LEMMA StoredNext == IInv /\ [Next]_vars => StoredInv'
<1> SUFFICES ASSUME IInv, [Next]_vars PROVE StoredInv'
  OBVIOUS
<1> USE CacheAssumption DEF IInv, TypeOK, RoundInv, TeamInv, StoredInv, Stored, Replies, Active
<1>1. ASSUME NEW w \in Workers, NEW k \in Keys, StartTask(w, k) PROVE StoredInv'
  BY <1>1 DEF StartTask
<1>2. ASSUME NEW w \in Workers, Hit(w) PROVE StoredInv'
  BY <1>2 DEF Hit, Noted
<1>3. ASSUME NEW w \in Workers, Miss(w) PROVE StoredInv'
  BY <1>3 DEF Miss, Noted
<1>4. ASSUME NEW w \in Workers, NEW ok \in BOOLEAN, Fetch(w, ok) PROVE StoredInv'
  BY <1>4 DEF Fetch
<1>5. ASSUME NEW w \in Workers, Store(w) PROVE StoredInv'
  BY <1>5 DEF Store
<1>6. ASSUME NEW s \in Stages, OpenScope(s) PROVE StoredInv'
  BY <1>6 DEF OpenScope
<1>7. ASSUME NEW s \in Stages, NoticeFailure(s) PROVE StoredInv'
  BY <1>7 DEF NoticeFailure
<1>8. ASSUME NEW s \in Stages, FailScope(s) PROVE StoredInv'
  BY <1>8 DEF FailScope, Revoke, Drained
<1>9. ASSUME NEW s \in Stages, RejectScope(s) PROVE StoredInv'
  BY <1>9 DEF RejectScope, Revoke
<1>10. ASSUME NEW s \in Stages, AcceptScope(s) PROVE StoredInv'
  BY <1>10 DEF AcceptScope
<1>11. ASSUME NEW s \in Stages, CloseScope(s) PROVE StoredInv'
  BY <1>11 DEF CloseScope
<1>12. ASSUME NEW s \in Stages, NEW k \in Keys, RemoveModel(s, k) PROVE StoredInv'
  BY <1>12 DEF RemoveModel
<1>13. CASE UNCHANGED vars
  BY <1>13 DEF vars
<1>14. QED
  BY <1>1, <1>2, <1>3, <1>4, <1>5, <1>6, <1>7, <1>8, <1>9, <1>10, <1>11, <1>12, <1>13
     DEF Next, Task, Scope

\* The revocation removes every rejected reply.
LEMMA RetainedNext == IInv /\ [Next]_vars => RejectedReplyNotRetained'
<1> SUFFICES ASSUME IInv, [Next]_vars PROVE RejectedReplyNotRetained'
  OBVIOUS
<1> USE CacheAssumption DEF IInv, TypeOK, RoundInv, TeamInv, NotedInv, PlacedInv, StoredInv, Stored, RejectedReplyNotRetained, Replies, Active
<1>1. ASSUME NEW w \in Workers, NEW k \in Keys, StartTask(w, k) PROVE RejectedReplyNotRetained'
  BY <1>1 DEF StartTask
<1>2. ASSUME NEW w \in Workers, Hit(w) PROVE RejectedReplyNotRetained'
  BY <1>2 DEF Hit, Noted
<1>3. ASSUME NEW w \in Workers, Miss(w) PROVE RejectedReplyNotRetained'
  BY <1>3 DEF Miss, Noted
<1>4. ASSUME NEW w \in Workers, NEW ok \in BOOLEAN, Fetch(w, ok) PROVE RejectedReplyNotRetained'
  BY <1>4 DEF Fetch
<1>5. ASSUME NEW w \in Workers, Store(w) PROVE RejectedReplyNotRetained'
  BY <1>5 DEF Store
<1>6. ASSUME NEW s \in Stages, OpenScope(s) PROVE RejectedReplyNotRetained'
  BY <1>6 DEF OpenScope
<1>7. ASSUME NEW s \in Stages, NoticeFailure(s) PROVE RejectedReplyNotRetained'
  BY <1>7 DEF NoticeFailure
<1>8. ASSUME NEW s \in Stages, FailScope(s) PROVE RejectedReplyNotRetained'
  BY <1>8 DEF FailScope, Revoke, Drained
<1>9. ASSUME NEW s \in Stages, RejectScope(s) PROVE RejectedReplyNotRetained'
  BY <1>9 DEF RejectScope, Revoke
<1>10. ASSUME NEW s \in Stages, AcceptScope(s) PROVE RejectedReplyNotRetained'
  BY <1>10 DEF AcceptScope
<1>11. ASSUME NEW s \in Stages, CloseScope(s) PROVE RejectedReplyNotRetained'
  BY <1>11 DEF CloseScope
<1>12. ASSUME NEW s \in Stages, NEW k \in Keys, RemoveModel(s, k) PROVE RejectedReplyNotRetained'
  BY <1>12 DEF RemoveModel
<1>13. CASE UNCHANGED vars
  BY <1>13 DEF vars
<1>14. QED
  BY <1>1, <1>2, <1>3, <1>4, <1>5, <1>6, <1>7, <1>8, <1>9, <1>10, <1>11, <1>12, <1>13
     DEF Next, Task, Scope

\* A reply whose scope failed is never left behind in the cache.
THEOREM RejectedRepliesLeave == Spec => []RejectedReplyNotRetained
<1>1. IInv /\ [Next]_vars => IInv'
  BY TypeNext, RoundNext, TeamNext, NotedNext, PlacedNext, StoredNext,
     RetainedNext DEF IInv
<1>2. IInv => RejectedReplyNotRetained
  BY DEF IInv
<1>3. QED
  BY InitIInv, <1>1, <1>2, PTL DEF Spec

\* The revocation iterates over a key set nobody adds to any more.
THEOREM RevocationIsFinal == Spec => []RevocationSeesFinalKeys
<1>1. IInv /\ [Next]_vars => IInv'
  BY TypeNext, RoundNext, TeamNext, NotedNext, PlacedNext, StoredNext,
     RetainedNext DEF IInv
<1>2. IInv => RevocationSeesFinalKeys
  BY DEF IInv, TeamInv, RevocationSeesFinalKeys, Team
<1>3. QED
  BY InitIInv, <1>1, <1>2, PTL DEF Spec

\* Both halves together, as the run checks them.
THEOREM RevocationsAreComplete == Spec => []RevocationComplete
<1>1. RejectedReplyNotRetained /\ RevocationSeesFinalKeys => RevocationComplete
  BY DEF RevocationComplete
<1>2. QED
  BY <1>1, RejectedRepliesLeave, RevocationIsFinal, PTL
=============================================================================
