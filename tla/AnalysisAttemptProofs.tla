------------------------ MODULE AnalysisAttemptProofs ------------------------
(***************************************************************************)
(* For any number of overlapping script runs and of attempts: one worker at *)
(* a time, outcomes written before they are announced, and a session that   *)
(* shows the newest published attempt.                                      *)
(***************************************************************************)
EXTENDS AnalysisAttempt, TLAPS

Writing == {"result", "failure", "partial", "cache", "clear", "mark"}

\* TypeOK in three parts: the attempts, the session and the script runs.
AttemptTypes ==
  /\ current \in 0..MaxAttempts
  /\ state \in [Ids -> {"absent", "running"} \union Terminal]
  /\ result \in [Ids -> {"none", "complete", "partial"}]
  /\ failure \in [Ids -> BOOLEAN] /\ published \in [Ids -> BOOLEAN]
  /\ expired \in [Ids -> BOOLEAN]
  /\ worker \in [Ids -> {"unborn", "working", "returned", "result", "failure",
                         "state", "ended"}]
  /\ outcome \in [Ids -> {"none"} \union Terminal]
  /\ implicit \subseteq Ids

Sessions == [result : 0..MaxAttempts, kind : {"none", "complete", "partial"},
             failure : 0..MaxAttempts, partial : 0..MaxAttempts]

SessionTypes ==
  /\ session \in Sessions
  /\ disk \in 0..MaxAttempts /\ stored \subseteq Ids /\ late \in BOOLEAN

Snaps == [id : 0..MaxAttempts, failure : BOOLEAN,
          result : {"none", "complete", "partial"},
          state : {"absent", "running"} \union Terminal]

RunTypes ==
  /\ pc \in [Runners -> Places]
  /\ explicit \in [Runners -> BOOLEAN]
  /\ snap \in [Runners -> Snaps]
  /\ newest \in Runners

\* A worker runs exactly while its attempt, the current one, is running.
WorkerInv ==
  \A i \in Ids :
    /\ worker[i] \notin {"unborn", "ended"} => state[i] = "running"
    /\ state[i] \in Terminal <=> worker[i] = "ended"
    /\ state[i] # "absent" <=> i <= current
    /\ state[i] = "running" => i = current

\* What a worker has written at each of its places.
OutcomeInv ==
  \A i \in Ids :
    /\ worker[i] \in {"returned", "result"} => outcome[i] \in {"complete", "partial"}
    /\ worker[i] = "failure" => /\ outcome[i] \in Failed
                                /\ outcome[i] = "partial" => result[i] = "partial"
    /\ worker[i] \in {"state", "ended"} =>
         /\ outcome[i] \in Terminal
         /\ outcome[i] \in Failed <=> failure[i]
         /\ outcome[i] \in {"complete", "partial"} => result[i] = outcome[i]
    /\ worker[i] = "ended" => state[i] = outcome[i]
    /\ worker[i] \notin {"state", "ended"} => ~failure[i]

\* Between its claim and the start of its worker an attempt has one run.
StartInv ==
  /\ \A r \in Runners : pc[r] = "start" =>
       /\ current # 0 /\ snap[r].id = current
       /\ worker[current] = "unborn" /\ state[current] = "running"
  /\ \A r, q \in Runners : pc[r] = "start" /\ pc[q] = "start" => r = q

\* What a run copied of a finished attempt stays true of it.
SnapInv ==
  \A r \in Runners :
    /\ snap[r].id <= current
    /\ pc[r] \in {"observe", "snapshot"} \union Writing => snap[r].id # 0
    /\ pc[r] \in {"snapshot"} \union Writing => state[snap[r].id] \in Terminal
    /\ pc[r] \in Writing => /\ snap[r].result = result[snap[r].id]
                            /\ snap[r].failure = failure[snap[r].id]
                            /\ snap[r].state = state[snap[r].id]
    /\ pc[r] \in {"failure", "partial"} => snap[r].failure
    /\ pc[r] \in {"cache", "clear"} => ~snap[r].failure

ResultShown == result[current] # "none" =>
  session.result = current /\ session.kind = result[current]

FailureShown == session.failure = IF failure[current] THEN current ELSE 0

\* The run has written the current attempt's result to the session.
Wrote(r) == current # 0 /\ snap[r].id = current /\ pc[r] \in Writing \ {"result"}

Untouched == current = 0 \/ (~published[current] /\ \A r \in Runners : ~Wrote(r))

\* What runs have written of the current attempt is what the session shows.
ShownInv ==
  /\ \A r \in Runners : Wrote(r) =>
       ResultShown /\ (pc[r] \in {"partial", "mark"} => FailureShown)
  /\ NewestOutcomeShown

\* Only the newest run writes: unless nothing of the current attempt has been
\* written, that is the attempt it has at hand.
NewestInv ==
  /\ pc[newest] \in {"observe", "snapshot"} \union Writing =>
       snap[newest].id = current \/ Untouched
  /\ pc[newest] = "lookup"  => Untouched \/ published[current]
  /\ pc[newest] = "session" => Untouched \/ (published[current] /\ state[current] = "complete")
  /\ pc[newest] = "disk"    => Untouched

\* No run that writes, and no published attempt, is ahead of the newest run's.
OrderInv == pc[newest] \in {"observe", "snapshot"} \union Writing =>
  /\ \A r \in Runners : pc[r] \in Writing \ {"result"} => snap[r].id <= snap[newest].id
  /\ \A i \in Ids : published[i] => i <= snap[newest].id

\* A run behind its cache write has a recorded result.
StoredInv == \A r \in Runners :
  pc[r] \in {"clear", "mark"} /\ snap[r].state = "complete" => Recorded(snap[r].id)

ImplicitInv ==
  /\ \A i \in implicit : i <= current
  /\ QuietRunsRepeatOnlyPartials

IInv ==
  /\ TypeOK
  /\ WorkerInv
  /\ OutcomeInv
  /\ StartInv
  /\ SnapInv
  /\ PublishedIsRecorded
  /\ ShownInv
  /\ NewestInv
  /\ OrderInv
  /\ StoredInv
  /\ ImplicitInv

\* The vocabulary of the actions, visible in every proof below.
USE AttemptAssumption DEF vars, attemptVars, runVars, diskVars, Ids, Failed, Terminal, NoSnap,
  Unread, Go, Writing, Places, Snaps

-----------------------------------------------------------------------------
(* Every step keeps each part of the invariant *)

\* A worker hands on outcomes, and a run starts only what it claimed.
LEMMA AttemptTypesNext ==
  ASSUME AttemptTypes, RunTypes, OutcomeInv, StartInv, [Next]_vars
  PROVE  AttemptTypes'
<1> USE DEF AttemptTypes, RunTypes, OutcomeInv, StartInv
<1>1. ASSUME NEW i \in Ids, NEW o \in Terminal, Return(i, o) PROVE AttemptTypes'
  BY <1>1 DEF Return
<1>2. ASSUME NEW i \in Ids, CheckLimit(i) PROVE AttemptTypes'
  BY <1>2 DEF CheckLimit
<1>3. ASSUME NEW i \in Ids, StoreResult(i) PROVE AttemptTypes'
  BY <1>3 DEF StoreResult
<1>4. ASSUME NEW i \in Ids, StoreFailure(i) PROVE AttemptTypes'
  BY <1>4 DEF StoreFailure
<1>5. ASSUME NEW i \in Ids, StoreState(i) PROVE AttemptTypes'
  BY <1>5 DEF StoreState
<1>6. ASSUME NEW i \in Ids, Expire(i) PROVE AttemptTypes'
  BY <1>6 DEF Expire
<1>7. ASSUME NEW r \in Runners, NEW asked \in BOOLEAN, Begin(r, asked)
      PROVE  AttemptTypes'
  BY <1>7 DEF Begin
<1>8. ASSUME NEW r \in Runners, Interrupt(r) PROVE AttemptTypes'
  BY <1>8 DEF Interrupt
<1>9. ASSUME NEW r \in Runners, Enter(r) PROVE AttemptTypes'
  BY <1>9 DEF Enter, Active, Unpublished
<1>10. ASSUME NEW r \in Runners, LookupFailure(r) PROVE AttemptTypes'
  BY <1>10 DEF LookupFailure
<1>11. ASSUME NEW r \in Runners, LookupSession(r) PROVE AttemptTypes'
  BY <1>11 DEF LookupSession, SessionComplete
<1>12. ASSUME NEW r \in Runners, LookupDisk(r) PROVE AttemptTypes'
  BY <1>12 DEF LookupDisk
<1>13. ASSUME NEW r \in Runners, Claim(r) PROVE AttemptTypes'
  BY <1>13 DEF Claim, MayClaim, SessionComplete
<1>14. ASSUME NEW r \in Runners, Refuse(r) PROVE AttemptTypes'
  BY <1>14 DEF Refuse, Active, Unpublished, MayClaim, SessionComplete
<1>15. ASSUME NEW r \in Runners, NEW ok \in BOOLEAN, StartWorker(r, ok)
      PROVE  AttemptTypes'
  BY <1>15 DEF StartWorker
<1>16. ASSUME NEW r \in Runners, Observe(r) PROVE AttemptTypes'
  BY <1>16 DEF Observe, Locked
<1>17. ASSUME NEW r \in Runners, Snapshot(r) PROVE AttemptTypes'
  BY <1>17 DEF Snapshot, Locked, Onward
<1>18. ASSUME NEW r \in Runners, PublishResult(r) \/ PublishFailure(r) \/
              PublishPartial(r)
      PROVE  AttemptTypes'
  BY <1>18 DEF PublishResult, PublishFailure, PublishPartial, MayWrite
<1>19. ASSUME NEW r \in Runners, CacheResult(r) PROVE AttemptTypes'
  BY <1>19 DEF CacheResult, MayWrite
<1>20. ASSUME NEW r \in Runners, ClearFailure(r) PROVE AttemptTypes'
  BY <1>20 DEF ClearFailure, MayWrite
<1>21. ASSUME NEW r \in Runners, MarkPublished(r) PROVE AttemptTypes'
  BY <1>21 DEF MarkPublished, Onward
<1> HIDE DEF AttemptTypes, RunTypes, OutcomeInv, StartInv
<1>22. CASE UNCHANGED vars
  BY <1>22 DEF AttemptTypes, RunTypes, OutcomeInv, StartInv
<1>23. QED
  BY <1>1, <1>2, <1>3, <1>4, <1>5, <1>6, <1>7, <1>8, <1>9, <1>10, <1>11,
    <1>12, <1>13, <1>14, <1>15, <1>16, <1>17, <1>18, <1>19, <1>20, <1>21,
    <1>22 DEF Next, Work, Run, Publish

\* What a run publishes was copied from an attempt.
LEMMA SessionTypesNext ==
  ASSUME SessionTypes, RunTypes, SnapInv, [Next]_vars
  PROVE  SessionTypes'
<1> USE DEF SessionTypes, RunTypes, SnapInv, Sessions
<1>1. ASSUME NEW i \in Ids, NEW o \in Terminal, Return(i, o) PROVE SessionTypes'
  BY <1>1 DEF Return
<1>2. ASSUME NEW i \in Ids, CheckLimit(i) \/ StoreResult(i) \/ StoreFailure(i) \/
              StoreState(i) \/ Expire(i)
      PROVE  SessionTypes'
  BY <1>2 DEF CheckLimit, StoreResult, StoreFailure, StoreState, Expire
<1>3. ASSUME NEW r \in Runners, NEW asked \in BOOLEAN, Begin(r, asked)
      PROVE  SessionTypes'
  BY <1>3 DEF Begin
<1>4. ASSUME NEW r \in Runners, Interrupt(r) \/ LookupFailure(r) \/ LookupSession(r)
              \/ Observe(r)
      PROVE  SessionTypes'
  BY <1>4 DEF Interrupt, LookupFailure, LookupSession, Observe, SessionComplete,
    Locked
<1>5. ASSUME NEW r \in Runners, Enter(r) PROVE SessionTypes'
  BY <1>5 DEF Enter, Active, Unpublished
<1>6. ASSUME NEW r \in Runners, LookupDisk(r) PROVE SessionTypes'
  <2>1. [session EXCEPT !.result = disk] \in Sessions
    BY DEF Sessions
  <2>2. [[session EXCEPT !.result = disk] EXCEPT !.kind = "complete"] \in Sessions
    BY <2>1 DEF Sessions
  <2>3. UNCHANGED diskVars /\ session' \in Sessions
    BY <1>6, <2>2 DEF LookupDisk
  <2> HIDE DEF Sessions
  <2>4. QED
    BY <2>3
<1>7. ASSUME NEW r \in Runners, Claim(r) PROVE SessionTypes'
  BY <1>7 DEF Claim, MayClaim, SessionComplete
<1>8. ASSUME NEW r \in Runners, Refuse(r) PROVE SessionTypes'
  BY <1>8 DEF Refuse, Active, Unpublished, MayClaim, SessionComplete
<1>9. ASSUME NEW r \in Runners, NEW ok \in BOOLEAN, StartWorker(r, ok)
      PROVE  SessionTypes'
  BY <1>9 DEF StartWorker
<1>10. ASSUME NEW r \in Runners, Snapshot(r) PROVE SessionTypes'
  BY <1>10 DEF Snapshot, Locked, Onward
<1>11. ASSUME NEW r \in Runners, PublishResult(r) PROVE SessionTypes'
  BY <1>11 DEF PublishResult, MayWrite
<1>12. ASSUME NEW r \in Runners, PublishFailure(r) PROVE SessionTypes'
  BY <1>12 DEF PublishFailure, MayWrite
<1>13. ASSUME NEW r \in Runners, PublishPartial(r) PROVE SessionTypes'
  BY <1>13 DEF PublishPartial, MayWrite
<1>14. ASSUME NEW r \in Runners, CacheResult(r) \/ MarkPublished(r) PROVE SessionTypes'
  <2>1. CASE CacheResult(r)
    <3>1. snap[r].id \in Ids
      BY <2>1 DEF CacheResult
    <3>2. /\ UNCHANGED session /\ disk' = snap[r].id
          /\ stored' = stored \union {snap[r].id} /\ late' = (r # newest)
      BY <2>1 DEF CacheResult
    <3>3. late' \in BOOLEAN
      BY <3>2, Zenon
    <3>4. QED
      BY <3>1, <3>2, <3>3
  <2>2. CASE MarkPublished(r)
    BY <2>2 DEF MarkPublished
  <2>3. QED
    BY <1>14, <2>1, <2>2
<1>15. ASSUME NEW r \in Runners, ClearFailure(r) PROVE SessionTypes'
  <2>1. [session EXCEPT !.failure = 0] \in Sessions
    BY DEF Sessions
  <2>2. [[session EXCEPT !.failure = 0] EXCEPT !.partial = 0] \in Sessions
    BY <2>1 DEF Sessions
  <2>3. QED
    BY <1>15, <2>2 DEF ClearFailure, MayWrite, Sessions
<1> HIDE DEF SessionTypes, RunTypes, SnapInv
<1>16. CASE UNCHANGED vars
  BY <1>16 DEF SessionTypes, RunTypes, SnapInv, Sessions
<1>17. QED
  BY <1>1, <1>2, <1>3, <1>4, <1>5, <1>6, <1>7, <1>8, <1>9, <1>10, <1>11,
    <1>12, <1>13, <1>14, <1>15, <1>16 DEF Next, Work, Run, Publish

\* A run copies an attempt there is.
LEMMA RunTypesNext ==
  ASSUME AttemptTypes, RunTypes, SnapInv, [Next]_vars
  PROVE  RunTypes'
<1>1. ASSUME NEW i \in Ids, NEW o \in Terminal, Return(i, o) PROVE RunTypes'
  BY <1>1 DEF Return, AttemptTypes, RunTypes, SnapInv
<1>2. ASSUME NEW i \in Ids, CheckLimit(i) \/ StoreResult(i) \/ StoreFailure(i) \/
              StoreState(i) \/ Expire(i)
      PROVE  RunTypes'
  BY <1>2 DEF CheckLimit, StoreResult, StoreFailure, StoreState, Expire, AttemptTypes,
    RunTypes, SnapInv
<1>3. ASSUME NEW r \in Runners, NEW asked \in BOOLEAN, Begin(r, asked) PROVE RunTypes'
  BY <1>3 DEF Begin, AttemptTypes, RunTypes, SnapInv
<1>4. ASSUME NEW r \in Runners, Interrupt(r) PROVE RunTypes'
  BY <1>4 DEF Interrupt, AttemptTypes, RunTypes, SnapInv
<1>5. ASSUME NEW r \in Runners, Enter(r) PROVE RunTypes'
  <2>1. pc' \in [Runners -> Places]
    BY <1>5 DEF Enter, RunTypes
  <2>2. snap' = snap \/ snap' = [snap EXCEPT ![r] = Unread(current)]
    BY <1>5 DEF Enter
  <2>3. current \in 0..MaxAttempts /\ UNCHANGED <<explicit, newest>>
    BY <1>5 DEF Enter, AttemptTypes
  <2>4. Unread(current) \in Snaps
    BY <2>3 DEF Snaps
  <2> HIDE DEF Unread
  <2>5. QED
    BY <2>1, <2>2, <2>3, <2>4 DEF RunTypes
<1>6. ASSUME NEW r \in Runners, LookupFailure(r) PROVE RunTypes'
  BY <1>6 DEF LookupFailure, AttemptTypes, RunTypes, SnapInv
<1>7. ASSUME NEW r \in Runners, LookupSession(r) PROVE RunTypes'
  BY <1>7 DEF LookupSession, SessionComplete, AttemptTypes, RunTypes, SnapInv
<1>8. ASSUME NEW r \in Runners, LookupDisk(r) PROVE RunTypes'
  BY <1>8 DEF LookupDisk, RunTypes
<1>9. ASSUME NEW r \in Runners, Claim(r) PROVE RunTypes'
  BY <1>9 DEF Claim, MayClaim, SessionComplete, AttemptTypes, RunTypes, SnapInv
<1>10. ASSUME NEW r \in Runners, Refuse(r) PROVE RunTypes'
  <2>1. pc' \in [Runners -> Places] /\ explicit' \in [Runners -> BOOLEAN]
    BY <1>10 DEF Refuse, RunTypes
  <2>2. snap' = snap \/ snap' = [snap EXCEPT ![r] = Unread(current)]
    BY <1>10 DEF Refuse
  <2>3. current \in 0..MaxAttempts /\ UNCHANGED newest
    BY <1>10 DEF Refuse, AttemptTypes
  <2>4. Unread(current) \in Snaps
    BY <2>3 DEF Snaps
  <2> HIDE DEF Unread
  <2>5. QED
    BY <2>1, <2>2, <2>3, <2>4 DEF RunTypes
<1>11. ASSUME NEW r \in Runners, NEW ok \in BOOLEAN, StartWorker(r, ok) PROVE RunTypes'
  BY <1>11 DEF StartWorker, AttemptTypes, RunTypes, SnapInv
<1>12. ASSUME NEW r \in Runners, Observe(r) PROVE RunTypes'
  BY <1>12 DEF Observe, Locked, AttemptTypes, RunTypes, SnapInv
<1>13. ASSUME NEW r \in Runners, Snapshot(r) PROVE RunTypes'
  BY <1>13 DEF Snapshot, Locked, Onward, AttemptTypes, RunTypes, SnapInv
<1>14. ASSUME NEW r \in Runners, PublishResult(r) PROVE RunTypes'
  BY <1>14 DEF PublishResult, MayWrite, AttemptTypes, RunTypes, SnapInv
<1>15. ASSUME NEW r \in Runners, PublishFailure(r) PROVE RunTypes'
  BY <1>15 DEF PublishFailure, MayWrite, AttemptTypes, RunTypes, SnapInv
<1>16. ASSUME NEW r \in Runners, PublishPartial(r) PROVE RunTypes'
  BY <1>16 DEF PublishPartial, MayWrite, AttemptTypes, RunTypes, SnapInv
<1>17. ASSUME NEW r \in Runners, CacheResult(r) PROVE RunTypes'
  BY <1>17 DEF CacheResult, MayWrite, AttemptTypes, RunTypes, SnapInv
<1>18. ASSUME NEW r \in Runners, ClearFailure(r) PROVE RunTypes'
  BY <1>18 DEF ClearFailure, MayWrite, AttemptTypes, RunTypes, SnapInv
<1>19. ASSUME NEW r \in Runners, MarkPublished(r) PROVE RunTypes'
  BY <1>19 DEF MarkPublished, Onward, AttemptTypes, RunTypes, SnapInv
<1>20. CASE UNCHANGED vars
  BY <1>20 DEF AttemptTypes, RunTypes, SnapInv, Snaps
<1>21. QED
  BY <1>1, <1>2, <1>3, <1>4, <1>5, <1>6, <1>7, <1>8, <1>9, <1>10, <1>11,
    <1>12, <1>13, <1>14, <1>15, <1>16, <1>17, <1>18, <1>19, <1>20 DEF Next,
    Work, Run, Publish

\* A run claims only where no attempt is running.
LEMMA WorkerInvNext ==
  ASSUME AttemptTypes, RunTypes, WorkerInv, OutcomeInv, StartInv, [Next]_vars
  PROVE  WorkerInv'
<1> USE DEF AttemptTypes, RunTypes, WorkerInv, OutcomeInv, StartInv
<1>1. ASSUME NEW i \in Ids, NEW o \in Terminal, Return(i, o) PROVE WorkerInv'
  BY <1>1 DEF Return
<1>2. ASSUME NEW i \in Ids, CheckLimit(i) \/ StoreResult(i) \/ StoreFailure(i) \/
              StoreState(i) \/ Expire(i)
      PROVE  WorkerInv'
  BY <1>2 DEF CheckLimit, StoreResult, StoreFailure, StoreState, Expire
<1>3. ASSUME NEW r \in Runners, NEW asked \in BOOLEAN, Begin(r, asked) PROVE WorkerInv'
  BY <1>3 DEF Begin
<1>4. ASSUME NEW r \in Runners, Interrupt(r) \/ LookupFailure(r) \/ LookupSession(r)
              \/ Observe(r)
      PROVE  WorkerInv'
  BY <1>4 DEF Interrupt, LookupFailure, LookupSession, Observe, SessionComplete,
    Locked
<1>5. ASSUME NEW r \in Runners, Enter(r) PROVE WorkerInv'
  BY <1>5 DEF Enter, Active, Unpublished
<1>6. ASSUME NEW r \in Runners, LookupDisk(r) PROVE WorkerInv'
  BY <1>6 DEF LookupDisk
<1>7. ASSUME NEW r \in Runners, Claim(r) PROVE WorkerInv'
  BY <1>7 DEF Claim, MayClaim, SessionComplete
<1>8. ASSUME NEW r \in Runners, Refuse(r) PROVE WorkerInv'
  BY <1>8 DEF Refuse, Active, Unpublished, MayClaim, SessionComplete
<1>9. ASSUME NEW r \in Runners, NEW ok \in BOOLEAN, StartWorker(r, ok) PROVE WorkerInv'
  BY <1>9 DEF StartWorker
<1>10. ASSUME NEW r \in Runners, Snapshot(r) PROVE WorkerInv'
  BY <1>10 DEF Snapshot, Locked, Onward
<1>11. ASSUME NEW r \in Runners, PublishResult(r) \/ PublishFailure(r) \/
              PublishPartial(r)
      PROVE  WorkerInv'
  BY <1>11 DEF PublishResult, PublishFailure, PublishPartial, MayWrite
<1>12. ASSUME NEW r \in Runners, CacheResult(r) \/ ClearFailure(r) \/ MarkPublished(r)
      PROVE  WorkerInv'
  BY <1>12 DEF CacheResult, ClearFailure, MarkPublished, MayWrite, Onward
<1> HIDE DEF AttemptTypes, RunTypes, WorkerInv, OutcomeInv, StartInv
<1>13. CASE UNCHANGED vars
  BY <1>13 DEF AttemptTypes, RunTypes, WorkerInv, OutcomeInv, StartInv
<1>14. QED
  BY <1>1, <1>2, <1>3, <1>4, <1>5, <1>6, <1>7, <1>8, <1>9, <1>10, <1>11,
    <1>12, <1>13 DEF Next, Work, Run, Publish

\* Each place of the worker adds to what the one before it wrote.
LEMMA OutcomeInvNext ==
  ASSUME AttemptTypes, RunTypes, WorkerInv, OutcomeInv, StartInv, [Next]_vars
  PROVE  OutcomeInv'
<1> USE DEF AttemptTypes, RunTypes, WorkerInv, OutcomeInv, StartInv
<1>1. ASSUME NEW i \in Ids, NEW o \in Terminal, Return(i, o) PROVE OutcomeInv'
  BY <1>1 DEF Return
<1>2. ASSUME NEW i \in Ids, CheckLimit(i) \/ StoreResult(i) \/ StoreFailure(i) \/
              StoreState(i) \/ Expire(i)
      PROVE  OutcomeInv'
  BY <1>2 DEF CheckLimit, StoreResult, StoreFailure, StoreState, Expire
<1>3. ASSUME NEW r \in Runners, NEW asked \in BOOLEAN, Begin(r, asked) PROVE OutcomeInv'
  BY <1>3 DEF Begin
<1>4. ASSUME NEW r \in Runners, Interrupt(r) \/ LookupFailure(r) \/ LookupSession(r)
              \/ Observe(r)
      PROVE  OutcomeInv'
  BY <1>4 DEF Interrupt, LookupFailure, LookupSession, Observe, SessionComplete,
    Locked
<1>5. ASSUME NEW r \in Runners, Enter(r) PROVE OutcomeInv'
  BY <1>5 DEF Enter, Active, Unpublished
<1>6. ASSUME NEW r \in Runners, LookupDisk(r) PROVE OutcomeInv'
  BY <1>6 DEF LookupDisk
<1>7. ASSUME NEW r \in Runners, Claim(r) PROVE OutcomeInv'
  BY <1>7 DEF Claim, MayClaim, SessionComplete
<1>8. ASSUME NEW r \in Runners, Refuse(r) PROVE OutcomeInv'
  BY <1>8 DEF Refuse, Active, Unpublished, MayClaim, SessionComplete
<1>9. ASSUME NEW r \in Runners, NEW ok \in BOOLEAN, StartWorker(r, ok) PROVE OutcomeInv'
  BY <1>9 DEF StartWorker
<1>10. ASSUME NEW r \in Runners, Snapshot(r) PROVE OutcomeInv'
  BY <1>10 DEF Snapshot, Locked, Onward
<1>11. ASSUME NEW r \in Runners, PublishResult(r) \/ PublishFailure(r) \/
              PublishPartial(r)
      PROVE  OutcomeInv'
  BY <1>11 DEF PublishResult, PublishFailure, PublishPartial, MayWrite
<1>12. ASSUME NEW r \in Runners, CacheResult(r) \/ ClearFailure(r) \/ MarkPublished(r)
      PROVE  OutcomeInv'
  BY <1>12 DEF CacheResult, ClearFailure, MarkPublished, MayWrite, Onward
<1> HIDE DEF AttemptTypes, RunTypes, WorkerInv, OutcomeInv, StartInv
<1>13. CASE UNCHANGED vars
  BY <1>13 DEF AttemptTypes, RunTypes, WorkerInv, OutcomeInv, StartInv
<1>14. QED
  BY <1>1, <1>2, <1>3, <1>4, <1>5, <1>6, <1>7, <1>8, <1>9, <1>10, <1>11,
    <1>12, <1>13 DEF Next, Work, Run, Publish

\* The claim makes the attempt current, and no other run can claim before it ends.
LEMMA StartInvNext ==
  ASSUME AttemptTypes, RunTypes, WorkerInv, StartInv, [Next]_vars
  PROVE  StartInv'
<1> USE DEF AttemptTypes, RunTypes, WorkerInv, StartInv
<1>1. ASSUME NEW i \in Ids, NEW o \in Terminal, Return(i, o) PROVE StartInv'
  BY <1>1 DEF Return
<1>2. ASSUME NEW i \in Ids, CheckLimit(i) \/ StoreResult(i) \/ StoreFailure(i) \/
              StoreState(i) \/ Expire(i)
      PROVE  StartInv'
  BY <1>2 DEF CheckLimit, StoreResult, StoreFailure, StoreState, Expire
<1>3. ASSUME NEW r \in Runners, NEW asked \in BOOLEAN, Begin(r, asked) PROVE StartInv'
  BY <1>3 DEF Begin
<1>4. ASSUME NEW r \in Runners, Interrupt(r) \/ LookupFailure(r) \/ LookupSession(r)
              \/ Observe(r)
      PROVE  StartInv'
  BY <1>4 DEF Interrupt, LookupFailure, LookupSession, Observe, SessionComplete,
    Locked
<1>5. ASSUME NEW r \in Runners, Enter(r) PROVE StartInv'
  BY <1>5 DEF Enter, Active, Unpublished
<1>6. ASSUME NEW r \in Runners, LookupDisk(r) PROVE StartInv'
  <2>1. CASE disk = 0
    BY <1>6, <2>1 DEF LookupDisk
  <2>2. CASE disk # 0
    BY <1>6, <2>2 DEF LookupDisk
  <2>3. QED
    BY <1>6, <2>1, <2>2 DEF LookupDisk
<1>7. ASSUME NEW r \in Runners, Claim(r) PROVE StartInv'
  <2>1. /\ current < MaxAttempts
        /\ pc' = [pc EXCEPT ![r] = "start"]
        /\ snap' = [snap EXCEPT ![r] = Unread(current + 1)]
        /\ current' = current + 1 /\ UNCHANGED worker
        /\ state' = [state EXCEPT ![current + 1] = "running"]
    BY <1>7 DEF Claim
  <2>2. current + 1 \in Ids /\ ~(current + 1 <= current)
    BY <2>1
  <2>3. worker[current + 1] = "unborn"
    BY <2>2
  <2>4. \A q \in Runners : pc[q] # "start"
    BY <1>7 DEF Claim, MayClaim
  <2>5. QED
    BY <2>1, <2>2, <2>3, <2>4
<1>8. ASSUME NEW r \in Runners, Refuse(r) PROVE StartInv'
  <2>1. /\ pc[r] = "claim" /\ UNCHANGED <<current, worker, state>>
        /\ \/ pc' = [pc EXCEPT ![r] = "idle"] /\ UNCHANGED snap
           \/ /\ pc' = [pc EXCEPT ![r] = "snapshot"]
              /\ snap' = [snap EXCEPT ![r] = Unread(current)]
    BY <1>8 DEF Refuse
  <2>2. \A q \in Runners : pc'[q] = "start" =>
          pc[q] = "start" /\ snap'[q] = snap[q]
    BY <2>1
  <2>3. QED
    BY <2>1, <2>2
<1>9. ASSUME NEW r \in Runners, NEW ok \in BOOLEAN, StartWorker(r, ok) PROVE StartInv'
  BY <1>9 DEF StartWorker
<1>10. ASSUME NEW r \in Runners, Snapshot(r) PROVE StartInv'
  BY <1>10 DEF Snapshot, Locked, Onward
<1>11. ASSUME NEW r \in Runners, PublishResult(r) \/ PublishFailure(r) \/
              PublishPartial(r)
      PROVE  StartInv'
  BY <1>11 DEF PublishResult, PublishFailure, PublishPartial, MayWrite
<1>12. ASSUME NEW r \in Runners, CacheResult(r) \/ ClearFailure(r) \/ MarkPublished(r)
      PROVE  StartInv'
  BY <1>12 DEF CacheResult, ClearFailure, MarkPublished, MayWrite, Onward
<1> HIDE DEF AttemptTypes, RunTypes, WorkerInv, StartInv
<1>13. CASE UNCHANGED vars
  BY <1>13 DEF AttemptTypes, RunTypes, WorkerInv, StartInv
<1>14. QED
  BY <1>1, <1>2, <1>3, <1>4, <1>5, <1>6, <1>7, <1>8, <1>9, <1>10, <1>11,
    <1>12, <1>13 DEF Next, Work, Run, Publish

\* An attempt that is over does not change any more.
LEMMA SnapInvNext ==
  ASSUME AttemptTypes, RunTypes, SessionTypes, WorkerInv, OutcomeInv, StartInv,
         SnapInv, [Next]_vars
  PROVE  SnapInv'
<1> USE DEF AttemptTypes, RunTypes, SessionTypes, WorkerInv, OutcomeInv, StartInv,
  SnapInv
<1>1. ASSUME NEW i \in Ids, NEW o \in Terminal, Return(i, o) PROVE SnapInv'
  BY <1>1 DEF Return
<1>2. ASSUME NEW i \in Ids, CheckLimit(i) \/ StoreResult(i) \/ StoreState(i) \/
              Expire(i)
      PROVE  SnapInv'
  BY <1>2 DEF CheckLimit, StoreResult, StoreState, Expire
<1>3. ASSUME NEW i \in Ids, StoreFailure(i) PROVE SnapInv'
  <2>1. \A r \in Runners : pc[r] \in {"snapshot"} \union Writing => snap[r].id # i
    BY <1>3 DEF StoreFailure
  <2>2. UNCHANGED <<current, state, result, disk, pc, snap>>
    BY <1>3 DEF StoreFailure
  <2>3. \A r \in Runners : pc[r] \in Writing =>
          snap[r].id \in Ids /\ failure'[snap[r].id] = failure[snap[r].id]
    <3>1. \A j \in Ids \ {i} : failure'[j] = failure[j]
      BY <1>3 DEF StoreFailure
    <3>2. \A r \in Runners : pc[r] \in Writing => snap[r].id \in Ids /\ snap[r].id # i
      BY <2>1
    <3>3. QED
      BY <3>1, <3>2
  <2>4. QED
    BY <2>2, <2>3
<1>4. ASSUME NEW r \in Runners, NEW asked \in BOOLEAN, Begin(r, asked) PROVE SnapInv'
  BY <1>4 DEF Begin
<1>5. ASSUME NEW r \in Runners, Interrupt(r) \/ LookupFailure(r) \/ LookupSession(r)
              \/ Observe(r)
      PROVE  SnapInv'
  BY <1>5 DEF Interrupt, LookupFailure, LookupSession, Observe, SessionComplete,
    Locked
<1>6. ASSUME NEW r \in Runners, Enter(r) PROVE SnapInv'
  <2>1. /\ UNCHANGED <<current, state, result, failure>>
        /\ \A q \in Runners \ {r} : pc'[q] = pc[q] /\ snap'[q] = snap[q]
    BY <1>6 DEF Enter
  <2>2. \/ pc'[r] \in {"idle", "claim", "lookup"} /\ snap'[r] = snap[r]
        \/ /\ pc'[r] = "snapshot" /\ snap'[r].id = current
           /\ current # 0 /\ state[current] # "running"
    BY <1>6 DEF Enter, Active, Unpublished
  <2>3. current # 0 /\ state[current] # "running" => state[current] \in Terminal
    OBVIOUS
  <2>4. QED
    BY <2>1, <2>2, <2>3
<1>7. ASSUME NEW r \in Runners, LookupDisk(r) PROVE SnapInv'
  <2>1. CASE disk = 0
    BY <1>7, <2>1 DEF LookupDisk
  <2>2. CASE disk # 0
    BY <1>7, <2>2 DEF LookupDisk
  <2>3. QED
    BY <1>7, <2>1, <2>2 DEF LookupDisk
<1>8. ASSUME NEW r \in Runners, Claim(r) PROVE SnapInv'
  BY <1>8 DEF Claim, MayClaim, SessionComplete
<1>9. ASSUME NEW r \in Runners, Refuse(r) PROVE SnapInv'
  <2>1. CASE ~Active /\ Unpublished /\ pc' = [pc EXCEPT ![r] = "snapshot"]
    BY <1>9, <2>1 DEF Refuse, Active, Unpublished, MayClaim, SessionComplete
  <2>2. CASE pc' = [pc EXCEPT ![r] = "idle"] /\ UNCHANGED <<snap, explicit>>
    BY <1>9, <2>2 DEF Refuse, Active, Unpublished, MayClaim, SessionComplete
  <2>3. QED
    BY <1>9, <2>1, <2>2 DEF Refuse, Active, Unpublished, MayClaim, SessionComplete
<1>10. ASSUME NEW r \in Runners, NEW ok \in BOOLEAN, StartWorker(r, ok) PROVE SnapInv'
  BY <1>10 DEF StartWorker
<1>11. ASSUME NEW r \in Runners, Snapshot(r) PROVE SnapInv'
  BY <1>11 DEF Snapshot, Locked, Onward
<1>12. ASSUME NEW r \in Runners, PublishResult(r) PROVE SnapInv'
  BY <1>12 DEF PublishResult, MayWrite
<1>13. ASSUME NEW r \in Runners, PublishFailure(r) PROVE SnapInv'
  <2>1. snap[r].state \in Failed
    BY <1>13 DEF PublishFailure, MayWrite
  <2>2. QED
    BY <1>13, <2>1 DEF PublishFailure, MayWrite
<1>14. ASSUME NEW r \in Runners, PublishPartial(r) PROVE SnapInv'
  <2>1. snap[r].state \in Failed
    BY <1>14 DEF PublishPartial, MayWrite
  <2>2. QED
    BY <1>14, <2>1 DEF PublishPartial, MayWrite
<1>15. ASSUME NEW r \in Runners, CacheResult(r) \/ ClearFailure(r) \/ MarkPublished(r)
      PROVE  SnapInv'
  BY <1>15 DEF CacheResult, ClearFailure, MarkPublished, MayWrite, Onward
<1> HIDE DEF AttemptTypes, RunTypes, SessionTypes, WorkerInv, OutcomeInv, StartInv,
  SnapInv
<1>16. CASE UNCHANGED vars
  BY <1>16 DEF AttemptTypes, RunTypes, SessionTypes, WorkerInv, OutcomeInv, StartInv,
    SnapInv
<1>17. QED
  BY <1>1, <1>2, <1>3, <1>4, <1>5, <1>6, <1>7, <1>8, <1>9, <1>10, <1>11,
    <1>12, <1>13, <1>14, <1>15, <1>16 DEF Next, Work, Run, Publish

\* A run's own step keeps the order if it stays where it was with the same
\* attempt, if it is the newest one, or if it takes up the current attempt.
LEMMA OrderFrame ==
  ASSUME AttemptTypes, RunTypes, WorkerInv, SnapInv, PublishedIsRecorded, OrderInv,
         NEW r \in Runners,
         UNCHANGED <<published, newest>>,
         \A q \in Runners \ {r} : pc'[q] = pc[q] /\ snap'[q] = snap[q],
         pc'[r] \in Writing \ {"result"} =>
           /\ snap'[r].id = snap[r].id
           /\ pc[r] \in Writing \ {"result"} \/ r = newest,
         r = newest /\ pc'[r] \in {"observe", "snapshot"} \union Writing =>
           \/ /\ snap'[r].id = snap[r].id
              /\ pc[r] \in {"observe", "snapshot"} \union Writing
           \/ snap'[r].id = current
  PROVE  OrderInv'
<1> USE DEF AttemptTypes, RunTypes, WorkerInv, SnapInv, PublishedIsRecorded, OrderInv
<1>1. /\ \A i \in Ids : published[i] => i <= current
      /\ \A q \in Runners : snap[q].id <= current
  OBVIOUS
<1>2. CASE r # newest
  <2>1. UNCHANGED <<pc[newest], snap[newest].id>> /\ newest' = newest
    BY <1>2
  <2>2. \A q \in Runners : pc'[q] \in Writing \ {"result"} =>
          pc[q] \in Writing \ {"result"} /\ snap'[q].id = snap[q].id
    BY <1>2
  <2>3. QED
    BY <2>1, <2>2
<1>3. CASE r = newest /\ pc'[r] \in {"observe", "snapshot"} \union Writing
  <2>1. CASE /\ snap'[r].id = snap[r].id
             /\ pc[r] \in {"observe", "snapshot"} \union Writing
    <3>1. \A q \in Runners \ {r} : pc'[q] \in Writing \ {"result"} =>
            snap'[q].id <= snap[r].id
      BY <1>3, <2>1
    <3>2. /\ snap'[r].id <= snap[r].id
          /\ \A i \in Ids : published[i] => i <= snap[r].id
      BY <1>3, <2>1
    <3>3. \A q \in Runners : pc'[q] \in Writing \ {"result"} => snap'[q].id <= snap[r].id
      BY <3>1, <3>2
    <3>4. newest' = r /\ published' = published /\ snap'[r].id = snap[r].id
      BY <1>3, <2>1
    <3> HIDE DEF AttemptTypes, RunTypes, WorkerInv, SnapInv, PublishedIsRecorded
    <3>5. QED
      BY <3>2, <3>3, <3>4
  <2>2. CASE snap'[r].id = current
    BY <1>1, <1>3, <2>2
  <2>3. QED
    BY <1>3, <2>1, <2>2
<1>4. CASE r = newest /\ ~(pc'[r] \in {"observe", "snapshot"} \union Writing)
  BY <1>4
<1>5. QED
  BY <1>2, <1>3, <1>4

\* A run that begins later has a later attempt at hand.
LEMMA OrderInvNext ==
  ASSUME AttemptTypes, RunTypes, WorkerInv, OutcomeInv, StartInv, SnapInv,
         PublishedIsRecorded, OrderInv, [Next]_vars
  PROVE  OrderInv'
<1>1. ASSUME NEW i \in Ids, Work(i) \/ Expire(i) PROVE OrderInv'
  <2>1. UNCHANGED <<pc, snap, newest, published>>
    BY <1>1 DEF Work, Return, CheckLimit, StoreResult, StoreFailure, StoreState, Expire
  <2>2. QED
    BY <2>1 DEF OrderInv
<1>2. ASSUME NEW r \in Runners, NEW asked \in BOOLEAN, Begin(r, asked) PROVE OrderInv'
  <2>1. newest' = r /\ pc'[r] = "enter"
    BY <1>2 DEF Begin, RunTypes
  <2>2. QED
    BY <2>1 DEF OrderInv
<1>3. ASSUME NEW r \in Runners, Interrupt(r) PROVE OrderInv'
  BY <1>3, OrderFrame DEF Interrupt, RunTypes
<1>4. ASSUME NEW r \in Runners, LookupFailure(r) \/ LookupSession(r) PROVE OrderInv'
  BY <1>4, OrderFrame DEF LookupFailure, LookupSession, RunTypes
<1>5. ASSUME NEW r \in Runners, LookupDisk(r) PROVE OrderInv'
  BY <1>5, OrderFrame DEF LookupDisk, RunTypes
<1>6. ASSUME NEW r \in Runners, Observe(r) PROVE OrderInv'
  BY <1>6, OrderFrame DEF Observe, RunTypes
<1>7. ASSUME NEW r \in Runners, Snapshot(r) PROVE OrderInv'
  BY <1>7, OrderFrame DEF Snapshot, Onward, RunTypes
<1>8. ASSUME NEW r \in Runners, PublishResult(r) PROVE OrderInv'
  BY <1>8, OrderFrame DEF PublishResult, MayWrite, RunTypes
<1>9. ASSUME NEW r \in Runners, PublishFailure(r) PROVE OrderInv'
  BY <1>9, OrderFrame DEF PublishFailure, MayWrite, RunTypes
<1>10. ASSUME NEW r \in Runners, PublishPartial(r) PROVE OrderInv'
  BY <1>10, OrderFrame DEF PublishPartial, MayWrite, RunTypes
<1>11. ASSUME NEW r \in Runners, CacheResult(r) PROVE OrderInv'
  BY <1>11, OrderFrame DEF CacheResult, RunTypes
<1>12. ASSUME NEW r \in Runners, ClearFailure(r) PROVE OrderInv'
  BY <1>12, OrderFrame DEF ClearFailure, MayWrite, RunTypes
<1>13. ASSUME NEW r \in Runners, Enter(r) \/ Refuse(r) PROVE OrderInv'
  <2>1. /\ UNCHANGED <<published, newest>>
        /\ pc[r] \in {"enter", "claim"}
        /\ \A q \in Runners \ {r} : pc'[q] = pc[q] /\ snap'[q] = snap[q]
        /\ pc'[r] \in {"idle", "claim", "lookup"} \/
             (pc'[r] = "snapshot" /\ snap'[r].id = current)
    BY <1>13 DEF Enter, Refuse, RunTypes
  <2>2. QED
    BY <2>1, OrderFrame
<1>14. ASSUME NEW r \in Runners, Claim(r) PROVE OrderInv'
  BY <1>14, OrderFrame DEF Claim, RunTypes
<1>15. ASSUME NEW r \in Runners, NEW ok \in BOOLEAN, StartWorker(r, ok) PROVE OrderInv'
  <2>1. /\ snap[r].id = current /\ pc'[r] = "observe"
        /\ \A q \in Runners \ {r} : pc'[q] = pc[q]
        /\ UNCHANGED <<published, newest, snap>>
    BY <1>15 DEF StartWorker, StartInv, RunTypes
  <2>2. QED
    BY <2>1, OrderFrame
<1>16. ASSUME NEW r \in Runners, MarkPublished(r) PROVE OrderInv'
  <2>1. /\ pc[r] = "mark" /\ pc'[r] \in {"claim", "idle"}
        /\ \A q \in Runners \ {r} : pc'[q] = pc[q]
        /\ UNCHANGED <<newest, snap>>
        /\ published' = [published EXCEPT ![snap[r].id] = TRUE]
    BY <1>16 DEF MarkPublished, Onward, RunTypes
  <2>2. SUFFICES ASSUME pc'[newest] \in {"observe", "snapshot"} \union Writing
        PROVE  /\ \A q \in Runners : pc'[q] \in Writing \ {"result"} =>
                                         snap[q].id <= snap[newest].id
               /\ \A i \in Ids : published'[i] => i <= snap[newest].id
    BY <2>1 DEF OrderInv
  <2>3. newest # r /\ pc[newest] = pc'[newest] /\ newest \in Runners
    BY <2>1, <2>2 DEF RunTypes
  <2>4. snap[r].id <= snap[newest].id
    BY <2>1, <2>2, <2>3 DEF OrderInv
  <2>5. \A q \in Runners : pc'[q] \in Writing \ {"result"} => pc[q] = pc'[q]
    BY <2>1
  <2>6. QED
    BY <2>1, <2>2, <2>3, <2>4, <2>5 DEF OrderInv, AttemptTypes
<1>17. CASE UNCHANGED vars
  BY <1>17 DEF OrderInv
<1>18. QED
  BY <1>1, <1>2, <1>3, <1>4, <1>5, <1>6, <1>7, <1>8, <1>9, <1>10, <1>11,
    <1>12, <1>13, <1>14, <1>15, <1>16, <1>17 DEF Next,
    Work, Run, Publish

\* The flag is set by a run that has gone through the writes before it, and
\* only a superseded run takes a result back from the disk.
LEMMA RecordedNext ==
  ASSUME AttemptTypes, RunTypes, SessionTypes, WorkerInv, OutcomeInv, SnapInv,
         PublishedIsRecorded, OrderInv, StoredInv, [Next]_vars
  PROVE  PublishedIsRecorded' /\ StoredInv'
<1> USE DEF AttemptTypes, RunTypes, WorkerInv, OutcomeInv, SnapInv, SessionTypes,
  PublishedIsRecorded, OrderInv, StoredInv, Recorded
<1>1. ASSUME NEW i \in Ids, NEW o \in Terminal, Return(i, o)
      PROVE  PublishedIsRecorded' /\ StoredInv'
  BY <1>1 DEF Return
<1>2. ASSUME NEW i \in Ids, CheckLimit(i) \/ StoreResult(i) \/ StoreFailure(i) \/
              StoreState(i) \/ Expire(i)
      PROVE  PublishedIsRecorded' /\ StoredInv'
  BY <1>2 DEF CheckLimit, StoreResult, StoreFailure, StoreState, Expire
<1>3. ASSUME NEW r \in Runners, NEW asked \in BOOLEAN, Begin(r, asked)
      PROVE  PublishedIsRecorded' /\ StoredInv'
  BY <1>3 DEF Begin
<1>4. ASSUME NEW r \in Runners, Interrupt(r) \/ LookupFailure(r) \/ LookupSession(r)
              \/ Observe(r)
      PROVE  PublishedIsRecorded' /\ StoredInv'
  BY <1>4 DEF Interrupt, LookupFailure, LookupSession, Observe, SessionComplete,
    Locked
<1>5. ASSUME NEW r \in Runners, Enter(r) PROVE PublishedIsRecorded' /\ StoredInv'
  BY <1>5 DEF Enter, Active, Unpublished
<1>6. ASSUME NEW r \in Runners, LookupDisk(r)
      PROVE  PublishedIsRecorded' /\ StoredInv'
  BY <1>6 DEF LookupDisk
<1>7. ASSUME NEW r \in Runners, Claim(r) PROVE PublishedIsRecorded' /\ StoredInv'
  BY <1>7 DEF Claim
<1>8. ASSUME NEW r \in Runners, Refuse(r) PROVE PublishedIsRecorded' /\ StoredInv'
  BY <1>8 DEF Refuse
<1>9. ASSUME NEW r \in Runners, NEW ok \in BOOLEAN, StartWorker(r, ok)
      PROVE  PublishedIsRecorded' /\ StoredInv'
  BY <1>9 DEF StartWorker
<1>10. ASSUME NEW r \in Runners, Snapshot(r)
      PROVE  PublishedIsRecorded' /\ StoredInv'
  BY <1>10 DEF Snapshot, Locked, Onward
<1>11. ASSUME NEW r \in Runners, PublishResult(r)
      PROVE  PublishedIsRecorded' /\ StoredInv'
  BY <1>11 DEF PublishResult, MayWrite
<1>12. ASSUME NEW r \in Runners, PublishFailure(r) \/ PublishPartial(r)
      PROVE  PublishedIsRecorded' /\ StoredInv'
  <2>1. snap[r].state # "complete"
    <3>1. pc[r] \in {"failure", "partial"}
      BY <1>12 DEF PublishFailure, PublishPartial, MayWrite
    <3>2. snap[r].id \in Ids /\ snap[r].state \in Terminal /\ failure[snap[r].id]
      BY <3>1
    <3>3. worker[snap[r].id] = "ended"
      BY <3>1, <3>2
    <3>4. QED
      BY <3>1, <3>2, <3>3
  <2>2. /\ \A q \in Runners \ {r} : pc'[q] = pc[q]
        /\ UNCHANGED <<published, state, snap, disk, stored, late>>
    BY <1>12 DEF PublishFailure, PublishPartial, MayWrite
  <2>3. QED
    BY <2>1, <2>2
<1>13. ASSUME NEW r \in Runners, CacheResult(r)
      PROVE  PublishedIsRecorded' /\ StoredInv'
  <2>1. /\ pc[r] = "cache" /\ disk' = snap[r].id /\ snap[r].id \in Ids
        /\ stored' = stored \union {snap[r].id} /\ late' = (r # newest)
        /\ UNCHANGED <<published, state, snap>>
        /\ \A q \in Runners \ {r} : pc'[q] = pc[q]
    BY <1>13 DEF CacheResult
  <2>2. \A i \in Ids : published[i] => i <= disk' \/ late'
    BY <2>1
  <2>3. \A q \in Runners : pc[q] \in {"clear", "mark"} => snap[q].id <= disk' \/ late'
    BY <2>1
  <2>4. stored \subseteq stored' /\ snap[r].id \in stored'
    BY <2>1
  <2>5. PublishedIsRecorded'
    BY <2>1, <2>2, <2>4
  <2>6. StoredInv'
    BY <2>1, <2>3, <2>4
  <2>7. QED
    BY <2>5, <2>6
<1>14. ASSUME NEW r \in Runners, ClearFailure(r)
      PROVE  PublishedIsRecorded' /\ StoredInv'
  BY <1>14 DEF ClearFailure, MayWrite
<1>15. ASSUME NEW r \in Runners, MarkPublished(r)
      PROVE  PublishedIsRecorded' /\ StoredInv'
  BY <1>15 DEF MarkPublished, Onward
<1> HIDE DEF AttemptTypes, RunTypes, WorkerInv, OutcomeInv, SnapInv, SessionTypes,
  PublishedIsRecorded, OrderInv, StoredInv
<1>16. CASE UNCHANGED vars
  BY <1>16 DEF AttemptTypes, RunTypes, WorkerInv, OutcomeInv, SnapInv,
    PublishedIsRecorded, OrderInv, StoredInv, Recorded
<1>17. QED
  BY <1>1, <1>2, <1>3, <1>4, <1>5, <1>6, <1>7, <1>8, <1>9, <1>10, <1>11, <1>12,
    <1>13, <1>14, <1>15, <1>16 DEF Next, Work, Run, Publish

\* All runs that write the current attempt write the same of it.
LEMMA ShownInvNext ==
  ASSUME AttemptTypes, RunTypes, SessionTypes, WorkerInv, OutcomeInv, StartInv,
         SnapInv, PublishedIsRecorded, ShownInv, NewestInv, [Next]_vars
  PROVE  ShownInv'
<1> USE DEF AttemptTypes, RunTypes, SessionTypes, WorkerInv, OutcomeInv, StartInv,
  SnapInv, PublishedIsRecorded, ShownInv, NewestInv, NewestOutcomeShown, ResultShown,
  FailureShown, Wrote, Untouched
<1>1. ASSUME NEW i \in Ids, NEW o \in Terminal, Return(i, o) PROVE ShownInv'
  BY <1>1 DEF Return
<1>2. ASSUME NEW i \in Ids, CheckLimit(i) \/ StoreResult(i) \/ StoreFailure(i) \/
              StoreState(i) \/ Expire(i)
      PROVE  ShownInv'
  BY <1>2 DEF CheckLimit, StoreResult, StoreFailure, StoreState, Expire
<1>3. ASSUME NEW r \in Runners, NEW asked \in BOOLEAN, Begin(r, asked) PROVE ShownInv'
  BY <1>3 DEF Begin
<1>4. ASSUME NEW r \in Runners, Interrupt(r) \/ LookupFailure(r) \/ LookupSession(r)
              \/ Observe(r)
      PROVE  ShownInv'
  BY <1>4 DEF Interrupt, LookupFailure, LookupSession, Observe, SessionComplete,
    Locked
<1>5. ASSUME NEW r \in Runners, Enter(r) PROVE ShownInv'
  <2>1. /\ UNCHANGED <<attemptVars, session>> /\ pc[r] = "enter"
        /\ \A q \in Runners \ {r} : pc'[q] = pc[q] /\ snap'[q] = snap[q]
    BY <1>5 DEF Enter
  <2>2. ~Wrote(r)'
    BY <1>5 DEF Enter
  <2>3. \A q \in Runners \ {r} : Wrote(q)' = Wrote(q)
    BY <2>1
  <2>4. QED
    BY <2>1, <2>2, <2>3
<1>6. ASSUME NEW r \in Runners, LookupDisk(r) PROVE ShownInv'
  <2>1. CASE disk = 0
    BY <1>6, <2>1 DEF LookupDisk
  <2>2. CASE disk # 0
    <3>1. Untouched /\ pc' = [pc EXCEPT ![r] = "idle"] /\ UNCHANGED <<attemptVars, snap>>
      BY <1>6, <2>2 DEF LookupDisk
    <3>2. (\A q \in Runners : ~Wrote(q)') /\ (current' = 0 \/ ~published'[current'])
      BY <3>1 DEF Untouched
    <3>3. QED
      BY <3>2
  <2>3. QED
    BY <2>1, <2>2
<1>7. ASSUME NEW r \in Runners, Claim(r) PROVE ShownInv'
  <2>1. current' = current + 1 /\ current' \in Ids /\ UNCHANGED published
    BY <1>7 DEF Claim
  <2>2. ~published[current']
    <3>1. state[current'] = "absent"
      BY <2>1
    <3>2. QED
      BY <2>1, <3>1
  <2>3. \A q \in Runners : ~Wrote(q)'
    BY <1>7, <2>1 DEF Claim
  <2>4. QED
    BY <2>1, <2>2, <2>3
<1>8. ASSUME NEW r \in Runners, Refuse(r) PROVE ShownInv'
  <2>1. CASE ~Active /\ Unpublished /\ pc' = [pc EXCEPT ![r] = "snapshot"]
    BY <1>8, <2>1 DEF Refuse, Active, Unpublished, MayClaim, SessionComplete
  <2>2. CASE pc' = [pc EXCEPT ![r] = "idle"] /\ UNCHANGED <<snap, explicit>>
    BY <1>8, <2>2 DEF Refuse, Active, Unpublished, MayClaim, SessionComplete
  <2>3. QED
    BY <1>8, <2>1, <2>2 DEF Refuse, Active, Unpublished, MayClaim, SessionComplete
<1>9. ASSUME NEW r \in Runners, NEW ok \in BOOLEAN, StartWorker(r, ok) PROVE ShownInv'
  BY <1>9 DEF StartWorker
<1>10. ASSUME NEW r \in Runners, Snapshot(r) PROVE ShownInv'
  BY <1>10 DEF Snapshot, Locked, Onward
<1>11. ASSUME NEW r \in Runners, PublishResult(r) PROVE ShownInv'
  BY <1>11 DEF PublishResult, MayWrite
<1>12. ASSUME NEW r \in Runners, PublishFailure(r) PROVE ShownInv'
  BY <1>12 DEF PublishFailure, MayWrite
<1>13. ASSUME NEW r \in Runners, PublishPartial(r) PROVE ShownInv'
  BY <1>13 DEF PublishPartial, MayWrite
<1>14. ASSUME NEW r \in Runners, CacheResult(r) PROVE ShownInv'
  BY <1>14 DEF CacheResult, MayWrite
<1>15. ASSUME NEW r \in Runners, ClearFailure(r) PROVE ShownInv'
  BY <1>15 DEF ClearFailure, MayWrite
<1>16. ASSUME NEW r \in Runners, MarkPublished(r) PROVE ShownInv'
  BY <1>16 DEF MarkPublished, Onward
<1> HIDE DEF AttemptTypes, RunTypes, SessionTypes, WorkerInv, OutcomeInv, StartInv,
  SnapInv, PublishedIsRecorded, ShownInv, NewestInv
<1>17. CASE UNCHANGED vars
  BY <1>17 DEF AttemptTypes, RunTypes, SessionTypes, WorkerInv, OutcomeInv, StartInv,
    SnapInv, PublishedIsRecorded, ShownInv, NewestInv, NewestOutcomeShown,
    ResultShown, FailureShown, Wrote, Untouched
<1>18. QED
  BY <1>1, <1>2, <1>3, <1>4, <1>5, <1>6, <1>7, <1>8, <1>9, <1>10, <1>11,
    <1>12, <1>13, <1>14, <1>15, <1>16, <1>17 DEF Next, Work, Run, Publish

\* An older attempt at hand means that the current one has just been claimed.
LEMMA NewestInvNext ==
  ASSUME AttemptTypes, RunTypes, WorkerInv, OutcomeInv, StartInv, SnapInv,
         PublishedIsRecorded, ShownInv, NewestInv, [Next]_vars
  PROVE  NewestInv'
<1> USE DEF AttemptTypes, RunTypes, WorkerInv, OutcomeInv, StartInv, SnapInv,
  PublishedIsRecorded, ShownInv, NewestInv, NewestOutcomeShown, ResultShown,
  FailureShown, Wrote, Untouched
<1>1. ASSUME NEW i \in Ids, NEW o \in Terminal, Return(i, o) PROVE NewestInv'
  BY <1>1 DEF Return
<1>2. ASSUME NEW i \in Ids, CheckLimit(i) \/ StoreResult(i) \/ StoreFailure(i) \/
              StoreState(i) \/ Expire(i)
      PROVE  NewestInv'
  BY <1>2 DEF CheckLimit, StoreResult, StoreFailure, StoreState, Expire
<1>3. ASSUME NEW r \in Runners, NEW asked \in BOOLEAN, Begin(r, asked) PROVE NewestInv'
  BY <1>3 DEF Begin
<1>4. ASSUME NEW r \in Runners, Interrupt(r) \/ LookupFailure(r) \/ LookupSession(r)
              \/ Observe(r)
      PROVE  NewestInv'
  BY <1>4 DEF Interrupt, LookupFailure, LookupSession, Observe, SessionComplete,
    Locked
<1>5. ASSUME NEW r \in Runners, Enter(r) PROVE NewestInv'
  <2>1. UNCHANGED <<attemptVars, newest>> /\ pc[r] = "enter"
    BY <1>5 DEF Enter
  <2>2. Untouched => Untouched'
    BY <1>5 DEF Enter
  <2>3. r # newest => UNCHANGED <<pc[newest], snap[newest]>>
    BY <1>5 DEF Enter
  <2>4. CASE r # newest
    BY <2>1, <2>2, <2>3, <2>4 DEF NewestInv
  <2>5. CASE r = newest
    BY <1>5, <2>1, <2>2, <2>5 DEF Enter, Active, Unpublished
  <2>6. QED
    BY <2>4, <2>5
<1>6. ASSUME NEW r \in Runners, LookupDisk(r) PROVE NewestInv'
  <2>1. CASE disk = 0
    BY <1>6, <2>1, SMTT(30) DEF LookupDisk
  <2>2. CASE disk # 0
    BY <1>6, <2>2, SMTT(30) DEF LookupDisk
  <2>3. QED
    BY <2>1, <2>2
<1>7. ASSUME NEW r \in Runners, Claim(r) PROVE NewestInv'
  BY <1>7 DEF Claim, MayClaim, SessionComplete
<1>8. ASSUME NEW r \in Runners, Refuse(r) PROVE NewestInv'
  <2>1. /\ UNCHANGED <<attemptVars, newest>> /\ pc[r] = "claim"
        /\ \/ pc' = [pc EXCEPT ![r] = "idle"] /\ UNCHANGED snap
           \/ /\ pc' = [pc EXCEPT ![r] = "snapshot"]
              /\ snap' = [snap EXCEPT ![r] = Unread(current)]
    BY <1>8 DEF Refuse
  <2>2. \A q \in Runners : Wrote(q)' => Wrote(q)
    BY <2>1
  <2>3. Untouched => Untouched'
    BY <2>1, <2>2
  <2>4. CASE r # newest
    BY <2>1, <2>3, <2>4
  <2>5. CASE r = newest
    BY <2>1, <2>5
  <2>6. QED
    BY <2>4, <2>5
<1>9. ASSUME NEW r \in Runners, NEW ok \in BOOLEAN, StartWorker(r, ok) PROVE NewestInv'
  BY <1>9 DEF StartWorker
<1>10. ASSUME NEW r \in Runners, Snapshot(r) PROVE NewestInv'
  BY <1>10 DEF Snapshot, Locked, Onward
<1>11. ASSUME NEW r \in Runners, PublishResult(r) \/ PublishFailure(r) \/
              PublishPartial(r)
      PROVE  NewestInv'
  <2>1. CASE PublishResult(r)
    BY <2>1 DEF PublishResult, MayWrite
  <2>2. CASE PublishFailure(r)
    BY <2>2 DEF PublishFailure, MayWrite
  <2>3. CASE PublishPartial(r)
    BY <2>3 DEF PublishPartial, MayWrite
  <2>4. QED
    BY <1>11, <2>1, <2>2, <2>3
<1>12. ASSUME NEW r \in Runners, CacheResult(r) PROVE NewestInv'
  BY <1>12 DEF CacheResult, MayWrite
<1>13. ASSUME NEW r \in Runners, ClearFailure(r) PROVE NewestInv'
  BY <1>13 DEF ClearFailure, MayWrite
<1>14. ASSUME NEW r \in Runners, MarkPublished(r) PROVE NewestInv'
  BY <1>14 DEF MarkPublished, Onward
<1> HIDE DEF AttemptTypes, RunTypes, WorkerInv, OutcomeInv, StartInv, SnapInv,
  PublishedIsRecorded, ShownInv, NewestInv
<1>15. CASE UNCHANGED vars
  BY <1>15 DEF AttemptTypes, RunTypes, WorkerInv, OutcomeInv, StartInv, SnapInv,
    PublishedIsRecorded, ShownInv, NewestInv, NewestOutcomeShown, ResultShown,
    FailureShown, Wrote, Untouched
<1>16. QED
  BY <1>1, <1>2, <1>3, <1>4, <1>5, <1>6, <1>7, <1>8, <1>9, <1>10, <1>11,
    <1>12, <1>13, <1>14, <1>15 DEF Next, Work, Run, Publish

\* A quiet run that may claim over a published attempt met a partial one.
LEMMA ImplicitInvNext ==
  ASSUME AttemptTypes, RunTypes, WorkerInv, OutcomeInv, PublishedIsRecorded, ShownInv,
         ImplicitInv, [Next]_vars
  PROVE  ImplicitInv'
<1> USE DEF AttemptTypes, RunTypes, WorkerInv, OutcomeInv, PublishedIsRecorded,
  ShownInv, ImplicitInv, QuietRunsRepeatOnlyPartials, NewestOutcomeShown, ResultShown,
  FailureShown, Wrote
<1>1. ASSUME NEW i \in Ids, NEW o \in Terminal, Return(i, o) PROVE ImplicitInv'
  BY <1>1 DEF Return
<1>2. ASSUME NEW i \in Ids, CheckLimit(i) PROVE ImplicitInv'
  BY <1>2 DEF CheckLimit
<1>3. ASSUME NEW i \in Ids, StoreResult(i) PROVE ImplicitInv'
  BY <1>3 DEF StoreResult
<1>4. ASSUME NEW i \in Ids, StoreFailure(i) PROVE ImplicitInv'
  BY <1>4 DEF StoreFailure
<1>5. ASSUME NEW i \in Ids, StoreState(i) PROVE ImplicitInv'
  BY <1>5 DEF StoreState
<1>6. ASSUME NEW i \in Ids, Expire(i) PROVE ImplicitInv'
  BY <1>6 DEF Expire
<1>7. ASSUME NEW r \in Runners, NEW asked \in BOOLEAN, Begin(r, asked)
      PROVE  ImplicitInv'
  BY <1>7 DEF Begin
<1>8. ASSUME NEW r \in Runners, Interrupt(r) PROVE ImplicitInv'
  BY <1>8 DEF Interrupt
<1>9. ASSUME NEW r \in Runners, Enter(r) PROVE ImplicitInv'
  BY <1>9 DEF Enter, Active, Unpublished
<1>10. ASSUME NEW r \in Runners, LookupFailure(r) PROVE ImplicitInv'
  BY <1>10 DEF LookupFailure
<1>11. ASSUME NEW r \in Runners, LookupSession(r) PROVE ImplicitInv'
  BY <1>11 DEF LookupSession, SessionComplete
<1>12. ASSUME NEW r \in Runners, LookupDisk(r) PROVE ImplicitInv'
  BY <1>12 DEF LookupDisk
<1>13. ASSUME NEW r \in Runners, Claim(r) PROVE ImplicitInv'
  BY <1>13 DEF Claim, MayClaim, SessionComplete
<1>14. ASSUME NEW r \in Runners, Refuse(r) PROVE ImplicitInv'
  BY <1>14 DEF Refuse, Active, Unpublished, MayClaim, SessionComplete
<1>15. ASSUME NEW r \in Runners, NEW ok \in BOOLEAN, StartWorker(r, ok)
      PROVE  ImplicitInv'
  BY <1>15 DEF StartWorker
<1>16. ASSUME NEW r \in Runners, Observe(r) PROVE ImplicitInv'
  BY <1>16 DEF Observe, Locked
<1>17. ASSUME NEW r \in Runners, Snapshot(r) PROVE ImplicitInv'
  BY <1>17 DEF Snapshot, Locked, Onward
<1>18. ASSUME NEW r \in Runners, PublishResult(r) \/ PublishFailure(r) \/
              PublishPartial(r)
      PROVE  ImplicitInv'
  BY <1>18 DEF PublishResult, PublishFailure, PublishPartial, MayWrite
<1>19. ASSUME NEW r \in Runners, CacheResult(r) \/ ClearFailure(r) \/ MarkPublished(r)
      PROVE  ImplicitInv'
  BY <1>19 DEF CacheResult, ClearFailure, MarkPublished, MayWrite, Onward
<1> HIDE DEF AttemptTypes, RunTypes, WorkerInv, OutcomeInv, PublishedIsRecorded,
  ShownInv, ImplicitInv
<1>20. CASE UNCHANGED vars
  BY <1>20 DEF AttemptTypes, RunTypes, WorkerInv, OutcomeInv, PublishedIsRecorded,
    ShownInv, ImplicitInv, QuietRunsRepeatOnlyPartials, NewestOutcomeShown,
    ResultShown, FailureShown, Wrote
<1>21. QED
  BY <1>1, <1>2, <1>3, <1>4, <1>5, <1>6, <1>7, <1>8, <1>9, <1>10, <1>11,
    <1>12, <1>13, <1>14, <1>15, <1>16, <1>17, <1>18, <1>19, <1>20 DEF Next,
    Work, Run, Publish

-----------------------------------------------------------------------------
(* The invariant *)

LEMMA TypeParts == TypeOK <=> AttemptTypes /\ SessionTypes /\ RunTypes
BY DEF TypeOK, AttemptTypes, SessionTypes, Sessions, RunTypes

LEMMA InitIInv == Init => IInv
<1> SUFFICES ASSUME Init PROVE IInv
  OBVIOUS
<1>1. AttemptTypes /\ SessionTypes /\ RunTypes
  <2>1. AttemptTypes
    BY DEF Init, AttemptTypes
  <2>2. SessionTypes
    <3>1. session \in Sessions /\ disk \in 0..MaxAttempts
      BY DEF Init, Sessions
    <3>2. stored \subseteq Ids /\ late \in BOOLEAN
      BY Zenon DEF Init
    <3>3. QED
      BY <3>1, <3>2 DEF SessionTypes
  <2>3. RunTypes
    BY DEF Init, RunTypes
  <2>4. QED
    BY <2>1, <2>2, <2>3
<1>2. TypeOK
  BY <1>1, TypeParts
<1>3. WorkerInv /\ OutcomeInv /\ PublishedIsRecorded
  BY DEF Init, WorkerInv, OutcomeInv, PublishedIsRecorded
<1>4. StartInv /\ SnapInv /\ OrderInv /\ StoredInv
  BY DEF Init, StartInv, SnapInv, OrderInv, StoredInv
<1>5. ShownInv /\ NewestInv /\ ImplicitInv
  BY DEF Init, ShownInv, NewestInv, ImplicitInv, Wrote, NewestOutcomeShown,
    QuietRunsRepeatOnlyPartials
<1>6. QED
  BY <1>2, <1>3, <1>4, <1>5 DEF IInv

LEMMA NextIInv == IInv /\ [Next]_vars => IInv'
<1> SUFFICES ASSUME IInv, [Next]_vars PROVE IInv'
  OBVIOUS
<1>1. AttemptTypes /\ SessionTypes /\ RunTypes
  BY TypeParts DEF IInv
<1>2. AttemptTypes' /\ SessionTypes' /\ RunTypes'
  BY <1>1, AttemptTypesNext, SessionTypesNext, RunTypesNext DEF IInv
<1>3. TypeOK'
  BY <1>2 DEF TypeOK, AttemptTypes, SessionTypes, Sessions, RunTypes
<1>4. WorkerInv' /\ OutcomeInv' /\ StartInv'
  BY <1>1, WorkerInvNext, OutcomeInvNext, StartInvNext DEF IInv
<1>5. SnapInv' /\ PublishedIsRecorded' /\ OrderInv' /\ StoredInv'
  BY <1>1, SnapInvNext, OrderInvNext, RecordedNext DEF IInv
<1>6. ShownInv' /\ NewestInv' /\ ImplicitInv'
  BY <1>1, ShownInvNext, NewestInvNext, ImplicitInvNext DEF IInv
<1>7. QED
  BY <1>3, <1>4, <1>5, <1>6 DEF IInv

LEMMA IInvHolds == Spec => []IInv
BY InitIInv, NextIInv, PTL DEF Spec

(* Every variable keeps its shape, for any script runs and attempts.        *)
THEOREM AttemptTypeCorrect == Spec => []TypeOK
<1>1. IInv => TypeOK
  BY DEF IInv
<1>2. QED
  BY <1>1, IInvHolds, PTL

(* However many script runs overlap, the scope pays for one analysis at a   *)
(* time, and nobody is about to start another.                              *)
THEOREM ScopePaysForOneWorker == Spec => []OneWorkerAtATime
<1>1. IInv => OneWorkerAtATime
  BY DEF IInv, TypeOK, WorkerInv, StartInv, OneWorkerAtATime
<1>2. QED
  BY <1>1, IInvHolds, PTL

(* Whoever reads a terminal state without the attempt's lock finds the      *)
(* result or the failure record that belongs to it.                         *)
THEOREM TerminalStateWrittenLast == Spec => []OutcomeBeforeState
<1>1. IInv => OutcomeBeforeState
  BY DEF IInv, TypeOK, WorkerInv, OutcomeInv, OutcomeBeforeState
<1>2. QED
  BY <1>1, IInvHolds, PTL

(* Wherever script runs are stopped, the result of every published complete  *)
(* attempt has been written to the disk, and nothing older stands there      *)
(* unless a superseded run wrote it last.                                    *)
THEOREM PublicationReachesDisk == Spec => []PublishedIsRecorded
<1>1. IInv => PublishedIsRecorded
  BY DEF IInv
<1>2. QED
  BY <1>1, IInvHolds, PTL

(* A superseded run never puts an older attempt in place of the newest.      *)
THEOREM SessionShowsNewest == Spec => []NewestOutcomeShown
<1>1. IInv => NewestOutcomeShown
  BY DEF IInv, ShownInv
<1>2. QED
  BY <1>1, IInvHolds, PTL

(* Only after a partial attempt does a run nobody asked for pay again.       *)
THEOREM QuietRunsDoNotPayTwice == Spec => []QuietRunsRepeatOnlyPartials
<1>1. IInv => QuietRunsRepeatOnlyPartials
  BY DEF IInv, ImplicitInv
<1>2. QED
  BY <1>1, IInvHolds, PTL
=============================================================================
