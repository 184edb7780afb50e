--------------------------- MODULE AnalysisAttempt ---------------------------
(***************************************************************************)
(* One document scope in one browser session (ui/app.py, ui/analysis_job.py,*)
(* agent/analysis_time_limit.py): overlapping script runs claim, observe    *)
(* and publish analysis attempts, each executed by a worker thread that     *)
(* writes the attempt under its lock and its terminal state last.  A script *)
(* run may be stopped at any of its accesses to Streamlit, and one that a   *)
(* newer run has superseded does not get past its next UI write.            *)
(***************************************************************************)
EXTENDS Integers

CONSTANTS
  Runners,       \* script runs that can overlap
  MaxAttempts    \* bound: attempts claimed for the scope

ASSUME AttemptAssumption == MaxAttempts \in Nat \ {0}

VARIABLES
  current,    \* analysis_attempts[scope_key], 0 when absent
  state,      \* state of an attempt, "absent" before it is claimed
  result,     \* its result: none | complete | partial
  failure,    \* whether its failure record is there
  published,  \* its published flag
  expired,    \* its fifteen minutes are over
  worker,     \* place of its worker thread
  outcome,    \* what analyse_pdf returned or raised
  session,    \* session_state: attempt behind result, failure, partial
  disk,       \* attempt whose complete result is in the disk cache
  stored,     \* history: attempts whose result a run has written there
  late,       \* history: the last write there was that of a superseded run
  pc,         \* place of a script run
  explicit,   \* the run was asked for by force or retry
  snap,       \* the attempt snapshot a run is publishing
  newest,     \* the run begun last; the others are superseded
  implicit    \* history: attempts claimed by a run nobody asked for

attemptVars == <<current, state, result, failure, published, expired,
                 worker, outcome, implicit>>
runVars == <<pc, explicit, snap, newest>>
diskVars == <<disk, stored, late>>
vars == <<attemptVars, session, diskVars, runVars>>

Ids      == 1..MaxAttempts
Failed   == {"failed", "interrupted", "partial"}
Terminal == Failed \union {"complete"}

\* A snapshot names its attempt before it copies it.
Unread(i) == [id |-> i, result |-> "none", failure |-> FALSE, state |-> "absent"]
NoSnap == Unread(0)

\* The attempt's lock is held while its outcome is written.
Locked(i) == worker[i] \in {"result", "failure", "state"}

-----------------------------------------------------------------------------
(* The worker thread: execute() *)

\* The monotonic clock passes the deadline of a running attempt.
Expire(i) ==
  /\ state[i] = "running"
  /\ expired' = [expired EXCEPT ![i] = TRUE]
  /\ UNCHANGED <<current, state, result, failure, published, worker, outcome,
                 implicit, session, diskVars, runVars>>

\* Mutant: an exception is taken for a result.
ReturnAnything(i, o) ==
  /\ worker[i] = "working"
  /\ outcome' = [outcome EXCEPT ![i] = o]
  /\ worker' = [worker EXCEPT ![i] = "returned"]
  /\ UNCHANGED <<current, state, result, failure, published, expired,
                 implicit, session, diskVars, runVars>>

\* analyse_pdf returns, or raises (a deadline check counts as an exception).
Return(i, o) ==
  /\ worker[i] = "working"
  /\ outcome' = [outcome EXCEPT ![i] = o]
  /\ worker' = [worker EXCEPT ![i] = IF o \in {"complete", "partial"}
                                     THEN "returned" ELSE "failure"]
  /\ UNCHANGED <<current, state, result, failure, published, expired,
                 implicit, session, diskVars, runVars>>

\* A result that arrives after the deadline is retained as a partial one.
CheckLimit(i) ==
  /\ worker[i] = "returned"
  /\ outcome' = [outcome EXCEPT ![i] = IF expired[i] THEN "partial" ELSE @]
  /\ worker' = [worker EXCEPT ![i] = "result"]
  /\ UNCHANGED <<current, state, result, failure, published, expired,
                 implicit, session, diskVars, runVars>>

StoreResult(i) ==
  /\ worker[i] = "result"
  /\ result' = [result EXCEPT ![i] = outcome[i]]
  /\ worker' = [worker EXCEPT ![i] = IF outcome[i] = "complete"
                                     THEN "state" ELSE "failure"]
  /\ UNCHANGED <<current, state, failure, published, expired, outcome,
                 implicit, session, diskVars, runVars>>

StoreFailure(i) ==
  /\ worker[i] = "failure"
  /\ failure' = [failure EXCEPT ![i] = TRUE]
  /\ worker' = [worker EXCEPT ![i] = "state"]
  /\ UNCHANGED <<current, state, result, published, expired, outcome,
                 implicit, session, diskVars, runVars>>

\* Mutant: a failing attempt announces its end before its failure record.
StoreStateEarly(i) ==
  /\ worker[i] \in {"failure", "state"}
  /\ state' = [state EXCEPT ![i] = outcome[i]]
  /\ UNCHANGED <<current, result, failure, published, expired, worker, outcome,
                 implicit, session, diskVars, runVars>>

StoreState(i) ==
  /\ worker[i] = "state"
  /\ state' = [state EXCEPT ![i] = outcome[i]]
  /\ worker' = [worker EXCEPT ![i] = "ended"]
  /\ UNCHANGED <<current, result, failure, published, expired, outcome,
                 implicit, session, diskVars, runVars>>

Work(i) ==
  \/ \E o \in Terminal : Return(i, o)
  \/ CheckLimit(i) \/ StoreResult(i) \/ StoreFailure(i) \/ StoreState(i)

-----------------------------------------------------------------------------
(* A script run: _analyse_upload() and _publish_attempt() *)

Go(r, place) == pc' = [pc EXCEPT ![r] = place]

\* After a publication an asked-for run goes on to claim, any other returns.
Onward(r) == IF explicit[r] THEN "claim" ELSE "idle"

\* Upload, widget rerun, or poll (not asked for); retry or reanalysis.
Begin(r, asked) ==
  /\ pc[r] = "idle"
  /\ asked => current # 0
  /\ Go(r, "enter")
  /\ explicit' = [explicit EXCEPT ![r] = asked]
  /\ newest' = r
  /\ UNCHANGED <<attemptVars, session, diskVars, snap>>

Active      == current # 0 /\ state[current] = "running"
Unpublished == current # 0 /\ ~published[current]

\* First section under _ATTEMPT_LOCK and the early returns behind it.  The
\* state is read without the attempt's own lock.
Enter(r) ==
  /\ pc[r] = "enter"
  /\ \/ Active /\ Go(r, "idle") /\ UNCHANGED snap
     \/ /\ ~Active /\ Unpublished
        /\ Go(r, "snapshot") /\ snap' = [snap EXCEPT ![r] = Unread(current)]
     \/ /\ ~Active /\ ~Unpublished
        /\ Go(r, IF explicit[r] THEN "claim" ELSE "lookup") /\ UNCHANGED snap
  /\ UNCHANGED <<attemptVars, session, diskVars, explicit, newest>>

\* _analysis_failure: a failed attempt or a failure kept by the session.
LookupFailure(r) ==
  /\ pc[r] = "lookup"
  /\ Go(r, IF (current # 0 /\ state[current] \in Failed) \/ session.failure # 0
           THEN "idle" ELSE "session")
  /\ UNCHANGED <<attemptVars, session, diskVars, explicit, snap, newest>>

SessionComplete == session.result # 0 /\ session.kind = "complete"

LookupSession(r) ==
  /\ pc[r] = "session"
  /\ Go(r, IF SessionComplete THEN "idle" ELSE "disk")
  /\ UNCHANGED <<attemptVars, session, diskVars, explicit, snap, newest>>

LookupDisk(r) ==
  /\ pc[r] = "disk"
  /\ \/ /\ disk # 0 /\ r = newest
        /\ session' = [session EXCEPT !.result = disk, !.kind = "complete"]
        /\ Go(r, "idle")
     \/ disk = 0 /\ Go(r, "claim") /\ UNCHANGED session
  /\ UNCHANGED <<attemptVars, diskVars, explicit, snap, newest>>

\* Mutant: the second section trusts what the first one read.
Unclaimed(r) == TRUE

\* Mutant: only running and unpublished attempts are looked for.
UnclaimedOrOver(r) ==
  current # 0 => state[current] # "running" /\ published[current]

\* Second section under _ATTEMPT_LOCK: nothing running, nothing unpublished,
\* and without force or retry no failure and no complete result.  A published
\* partial attempt is not among the failures it looks for.
MayClaim(r) ==
  /\ current # 0 => /\ state[current] # "running"
                    /\ published[current]
                    /\ state[current] \in {"failed", "interrupted"} => explicit[r]
  /\ SessionComplete => explicit[r]

Claim(r) ==
  /\ pc[r] = "claim"
  /\ MayClaim(r)
  /\ current < MaxAttempts
  /\ current' = current + 1
  /\ state' = [state EXCEPT ![current + 1] = "running"]
  /\ implicit' = IF explicit[r] THEN implicit ELSE implicit \union {current + 1}
  /\ snap' = [snap EXCEPT ![r] = Unread(current + 1)]
  /\ Go(r, "start")
  /\ UNCHANGED <<result, failure, published, expired, worker, outcome,
                 session, diskVars, explicit, newest>>

\* The section found an attempt instead: render or publish it.
Refuse(r) ==
  /\ pc[r] = "claim"
  /\ ~MayClaim(r)
  /\ \/ /\ ~Active /\ Unpublished
        /\ Go(r, "snapshot")
        /\ snap' = [snap EXCEPT ![r] = Unread(current)]
        /\ explicit' = [explicit EXCEPT ![r] = FALSE]
     \/ /\ Active \/ ~Unpublished
        /\ Go(r, "idle") /\ UNCHANGED <<snap, explicit>>
  /\ UNCHANGED <<attemptVars, session, diskVars, newest>>

\* start_worker; when it raises, the run records the failure itself under the
\* attempt's lock, in the same order as the worker would.
StartWorker(r, ok) ==
  LET i == snap[r].id IN
  /\ pc[r] = "start"
  /\ worker' = [worker EXCEPT ![i] = IF ok THEN "working" ELSE "failure"]
  /\ outcome' = [outcome EXCEPT ![i] = IF ok THEN @ ELSE "failed"]
  /\ Go(r, "observe")
  /\ UNCHANGED <<current, state, result, failure, published, expired,
                 implicit, session, diskVars, explicit, snap, newest>>

\* Is the attempt over already?  If not, the fragment polls it.
Observe(r) ==
  LET i == snap[r].id IN
  /\ pc[r] = "observe"
  /\ ~Locked(i)
  /\ Go(r, IF state[i] = "running" THEN "idle" ELSE "snapshot")
  /\ explicit' = [explicit EXCEPT ![r] = FALSE]
  /\ UNCHANGED <<attemptVars, session, diskVars, snap, newest>>

\* _publish_attempt copies the attempt under its lock.
Snapshot(r) ==
  LET i == snap[r].id IN
  /\ pc[r] = "snapshot"
  /\ ~Locked(i)
  /\ snap' = [snap EXCEPT ![r] = [id |-> i, result |-> result[i],
                                  failure |-> failure[i], state |-> state[i]]]
  /\ Go(r, IF published[i] THEN Onward(r) ELSE "result")
  /\ UNCHANGED <<attemptVars, session, diskVars, explicit, newest>>

\* A session write of the publication: only the newest run gets there.
MayWrite(r, place) == pc[r] = place /\ r = newest

\* Mutant: the flag is set as soon as the result is in the session.
PublishResultMarking(r) ==
  /\ MayWrite(r, "result")
  /\ session' = IF snap[r].result = "none" THEN session
                ELSE [session EXCEPT !.result = snap[r].id, !.kind = snap[r].result]
  /\ published' = [published EXCEPT ![snap[r].id] = TRUE]
  /\ Go(r, IF snap[r].failure THEN "failure" ELSE "cache")
  /\ UNCHANGED <<current, state, result, failure, expired, worker, outcome,
                 implicit, diskVars, explicit, snap, newest>>

PublishResult(r) ==
  /\ MayWrite(r, "result")
  /\ session' = IF snap[r].result = "none" THEN session
                ELSE [session EXCEPT !.result = snap[r].id, !.kind = snap[r].result]
  /\ Go(r, IF snap[r].failure THEN "failure" ELSE "cache")
  /\ UNCHANGED <<attemptVars, diskVars, explicit, snap, newest>>

PublishFailure(r) ==
  /\ MayWrite(r, "failure")
  /\ session' = [session EXCEPT !.failure = snap[r].id]
  /\ Go(r, IF snap[r].state = "partial" THEN "partial" ELSE "mark")
  /\ UNCHANGED <<attemptVars, diskVars, explicit, snap, newest>>

PublishPartial(r) ==
  /\ MayWrite(r, "partial")
  /\ session' = [session EXCEPT !.partial = snap[r].id]
  /\ Go(r, "mark")
  /\ UNCHANGED <<attemptVars, diskVars, explicit, snap, newest>>

\* cache.set_model is no access to Streamlit: a run that has just been
\* superseded still gets through it.
CacheResult(r) ==
  /\ pc[r] = "cache"
  /\ disk' = snap[r].id
  /\ stored' = stored \union {snap[r].id}
  /\ late' = (r # newest)
  /\ Go(r, "clear")
  /\ UNCHANGED <<attemptVars, session, explicit, snap, newest>>

\* Mutant: a success leaves the failure of the attempt before it.
ClearPartialOnly(r) ==
  /\ MayWrite(r, "clear")
  /\ session' = [session EXCEPT !.partial = 0]
  /\ Go(r, "mark")
  /\ UNCHANGED <<attemptVars, diskVars, explicit, snap, newest>>

ClearFailure(r) ==
  /\ MayWrite(r, "clear")
  /\ session' = [session EXCEPT !.failure = 0, !.partial = 0]
  /\ Go(r, "mark")
  /\ UNCHANGED <<attemptVars, diskVars, explicit, snap, newest>>

MarkPublished(r) ==
  /\ pc[r] = "mark"
  /\ published' = [published EXCEPT ![snap[r].id] = TRUE]
  /\ Go(r, Onward(r))
  /\ UNCHANGED <<current, state, result, failure, expired, worker, outcome,
                 implicit, session, diskVars, explicit, snap, newest>>

\* Streamlit stops the run at an access to it.  There is none between the
\* claim and the start of the worker, nor before the published flag.
Interrupt(r) ==
  /\ pc[r] \notin {"idle", "start", "mark"}
  /\ Go(r, "idle")
  /\ UNCHANGED <<attemptVars, session, diskVars, explicit, snap, newest>>

Publish(r) ==
  \/ Snapshot(r) \/ PublishResult(r) \/ PublishFailure(r) \/ PublishPartial(r)
  \/ CacheResult(r) \/ ClearFailure(r) \/ MarkPublished(r)

Run(r) ==
  \/ Enter(r) \/ LookupFailure(r) \/ LookupSession(r) \/ LookupDisk(r)
  \/ Claim(r) \/ Refuse(r) \/ (\E ok \in BOOLEAN : StartWorker(r, ok))
  \/ Observe(r) \/ Publish(r)

Init ==
  /\ current = 0
  /\ state = [i \in Ids |-> "absent"]
  /\ result = [i \in Ids |-> "none"]
  /\ failure = [i \in Ids |-> FALSE]
  /\ published = [i \in Ids |-> FALSE]
  /\ expired = [i \in Ids |-> FALSE]
  /\ worker = [i \in Ids |-> "unborn"]
  /\ outcome = [i \in Ids |-> "none"]
  /\ session = [result |-> 0, kind |-> "none", failure |-> 0, partial |-> 0]
  /\ disk = 0 /\ stored = {} /\ late = FALSE
  /\ pc = [r \in Runners |-> "idle"]
  /\ explicit = [r \in Runners |-> FALSE]
  /\ snap = [r \in Runners |-> NoSnap]
  /\ newest \in Runners
  /\ implicit = {}

Next ==
  \/ \E i \in Ids : Work(i) \/ Expire(i)
  \/ \E r \in Runners : \/ Run(r) \/ Interrupt(r)
                        \/ \E asked \in BOOLEAN : Begin(r, asked)

Spec == Init /\ [][Next]_vars

-----------------------------------------------------------------------------
(* Properties *)

Places == {"idle", "enter", "lookup", "session", "disk", "claim", "start",
           "observe", "snapshot", "result", "failure", "partial", "cache",
           "clear", "mark"}

\* Every variable keeps its shape.
TypeOK ==
  /\ current \in 0..MaxAttempts
  /\ state \in [Ids -> {"absent", "running"} \union Terminal]
  /\ result \in [Ids -> {"none", "complete", "partial"}]
  /\ failure \in [Ids -> BOOLEAN] /\ published \in [Ids -> BOOLEAN]
  /\ expired \in [Ids -> BOOLEAN]
  /\ worker \in [Ids -> {"unborn", "working", "returned", "result", "failure",
                         "state", "ended"}]
  /\ outcome \in [Ids -> {"none"} \union Terminal]
  /\ session \in [result : 0..MaxAttempts, kind : {"none", "complete", "partial"},
                  failure : 0..MaxAttempts, partial : 0..MaxAttempts]
  /\ disk \in 0..MaxAttempts /\ stored \subseteq Ids /\ late \in BOOLEAN
  /\ pc \in [Runners -> Places]
  /\ explicit \in [Runners -> BOOLEAN]
  /\ snap \in [Runners -> [id : 0..MaxAttempts, failure : BOOLEAN,
                           result : {"none", "complete", "partial"},
                           state : {"absent", "running"} \union Terminal]]
  /\ newest \in Runners
  /\ implicit \subseteq Ids

\* However script runs overlap, the scope pays for one analysis at a time: the
\* attempt the session shows is the only one whose worker has not ended
\* (_ATTEMPT_LOCK around both sections, ui/app.py:147 and 196).
OneWorkerAtATime ==
  \A i \in Ids : worker[i] \notin {"unborn", "ended"} =>
    /\ i = current
    /\ \A r \in Runners : pc[r] # "start"

\* A run that meets a terminal state without taking the attempt's lock finds
\* the failure record or the result it is about to read
\* ("Publish terminal state last", ui/analysis_job.py:38), and an attempt whose
\* thread has ended is not left running.
OutcomeBeforeState ==
  \A i \in Ids :
    /\ worker[i] = "ended" => state[i] \in Terminal
    /\ state[i] \in Failed => failure[i]
    /\ state[i] \in {"complete", "partial"} => result[i] = state[i]

\* The result of attempt i has been written to the disk cache and no older one
\* has taken its place, unless a superseded run, stopped nowhere between its
\* session update and its cache write, wrote the older one last.
Recorded(i) == i \in stored /\ (disk >= i \/ late)

\* What the flag claims: the attempt is over, and the result of every published
\* complete attempt is on the disk or was replaced there by a newer one,
\* whichever run published it and wherever other runs were stopped.
PublishedIsRecorded ==
  \A i \in Ids : published[i] =>
    /\ state[i] \in Terminal
    /\ state[i] = "complete" => Recorded(i)

\* What the session shows is the newest published attempt, its result and its
\* failure, never those of an attempt a retry has replaced.
NewestOutcomeShown ==
  (current # 0 /\ published[current]) =>
    /\ session.failure = (IF failure[current] THEN current ELSE 0)
    /\ result[current] # "none" =>
         session.result = current /\ session.kind = result[current]

\* A run nobody asked for starts a second attempt only over a partial one.
QuietRunsRepeatOnlyPartials ==
  \A i \in implicit : i > 1 => state[i - 1] = "partial"

\* "Polling does not start another attempt; an explicit user retry starts a new
\* 15-minute budget" (docs/ANALYSIS_TIME_LIMIT.md): a run nobody asked for only
\* ever starts the first attempt.
OnlyRetriesRepeat == implicit \subseteq {1}

=============================================================================
