----------------------- MODULE EditorialPipelineProofs -----------------------
(***************************************************************************)
(* For any number of runs: what a run publishes belongs together, its       *)
(* workers end before it hands anything over, and the runs of a session     *)
(* keep the contract AnalysisRun states.                                    *)
(***************************************************************************)
EXTENDS EditorialPipeline, TLAPS

Unwinding == {"unwind", "unwind_intro", "unwind_wait", "handed"}
Closing   == Unwinding \union {"discard", "gates", "present", "idle"}

\* Until the run ends nothing has ended it, and what ends it says so.
EndingInv ==
  /\ pc \in Stages => ending = NoEnding
  /\ ending = NoEnding \/ ending.kind # "none"
  /\ pc = "handed" => ending # NoEnding

\* A worker is closed only where nothing is left to be asked of it, and a run or
\* a worker is limited only when its deadline has passed or it was closed.
LimitInv ==
  /\ introClosed => pc \in Closing \union {"drained", "brief"}
  /\ briefClosed => pc \in Closing
  /\ intro = "stopped" => introClosed \/ expired
  /\ prepared = "stopped" => briefClosed \/ expired
  /\ ending.kind = "limited" => expired

\* The briefing ends before the introduction is closed, and both before the gates.
DrainInv ==
  /\ pc \in {"unwind_wait", "handed"} => prepared # "running"
  /\ pc = "handed" => intro # "running"
  /\ DrainedBeforeGates

\* A plan that is not being attached, or given up, carries the introduction.
AttachInv ==
  /\ attached => intro = "verified" /\ pc \notin {"read", "discover"}
  /\ plan # "none" => \/ attached \/ pc = "attach"
                      \/ ending # NoEnding /\ pc \in Unwinding \union {"idle"}

\* What a stage, a checkpoint and an ending have behind them.
EvidenceInv ==
  /\ pc \in {"read", "discover", "extract"} => resumed = NoResult
  /\ pc \in {"read", "discover", "extract", "score"} => ~ready /\ resumed.retry # "reporting"
  /\ ready => kept >= Analysis
  /\ pc # "idle" /\ resumed.retry = "reporting" => ready
  /\ pc = "handed" /\ ending.kind \in {"partial", "complete"} => kept = ending.level
  /\ pc \in Stages \ {"read", "discover", "extract", "score", "check"} => kept >= Analysis
  /\ ending.retry = "reporting" \/ (ready /\ ending.kind \in {"partial", "complete"}) => ending.level >= Analysis
  /\ ending.retry = "candidate_scoring" => ending.level >= Observations
  /\ Contract!Sufficient(saved)

\* No briefing exists before the topics are final, and it is one for them.
BriefInv ==
  /\ pc \in Stages \ {"brief", "discard", "gates", "present"} => brief = NoBrief
  /\ brief \in Editions => brief = topics

\* The retry of a timed-out report, and the least it may leave behind.
Retrying == resumed.limited /\ resumed.retry = "reporting"
Least    == IF resumed.level < Report THEN resumed.level ELSE Report

\* Only what the run returns can take the place of the report.
KeepInv == Retrying =>
  /\ pc # "idle" => saved = resumed
  /\ kept >= Least \/ (pc \in {"handed", "idle"} /\ HandedBack)
  /\ saved.level >= Least \/ (pc = "idle" /\ HandedBack)
  /\ ending.kind \in {"partial", "complete"} => HandedBack \/ ending.level >= Least

\* TypeOK in two parts: what is true or false, and the rest.
Switches ==
  /\ parallel \in BOOLEAN /\ ready \in BOOLEAN /\ failed \in BOOLEAN
  /\ introClosed \in BOOLEAN /\ guarded \in BOOLEAN /\ attached \in BOOLEAN
  /\ briefClosed \in BOOLEAN /\ seeded \in BOOLEAN /\ deferred \in BOOLEAN
  /\ expired \in BOOLEAN

Values ==
  /\ pc \in Stages \union {"idle", "unwind", "unwind_intro", "unwind_wait", "handed"}
  /\ resumed \in Results /\ saved \in Results /\ kept \in 0..Final
  /\ intro \in {"none", "deferred", "running", "verified", "failed", "broken", "stopped"}
  /\ plan \in {"none", "retained", "planned"}
  /\ prepared \in {"none", "running", "written", "failed", "broken", "stopped"}
  /\ topics \in {0} \union Editions /\ source \in {0} \union Editions
  /\ brief \in {NoBrief, Unavailable} \union Editions
  /\ ending \in [kind : {"none", "partial", "complete", "error", "limited", "rejected"},
                 level : 0..Final, retry : {"none", "candidate_scoring", "reporting"}]
  /\ runs \in 0..MaxRuns

IInv ==
  /\ TypeOK
  /\ EndingInv
  /\ LimitInv
  /\ DrainInv
  /\ AttachInv
  /\ EvidenceInv
  /\ BriefInv
  /\ KeepInv

\* The vocabulary of the actions, visible in every proof below.
USE DEF vars, runVars, keptVars, introVars, briefVars, End, Partial, Raised, Complete,
  NoResult, NoEnding, Document, Observations, Analysis, Report, Plan, Final,
  NoBrief, Unavailable, Editions, IntroFailed, IntroEnding, Stages, Unwinding, Closing, Results

-----------------------------------------------------------------------------
(* Types *)

LEMMA TypeParts == TypeOK <=> Switches /\ Values
BY DEF TypeOK, Switches, Values

\* A switch is only ever set to a truth value.
LEMMA SwitchesNext ==
  ASSUME Switches, [Next]_vars
  PROVE  Switches'
<1> USE DEF Switches
<1>1. CASE Begin
  BY <1>1, Zenon DEF Begin, Fresh
<1>2. CASE Retry
  BY <1>2, Zenon DEF Retry, Fresh, Offered
<1>3. CASE RejectRetry
  BY <1>3, Zenon DEF RejectRetry, Offered
<1>4. CASE ReadDocument \/ Discover \/ Extract \/ Score
  BY <1>4 DEF ReadDocument, Discover, Extract, Score
<1>5. CASE Checkpoint
  <2>1. CASE IntroFailed
    BY <1>5, <2>1, Zenon DEF Checkpoint
  <2>2. CASE ~IntroFailed
    <3>1. ready' = TRUE /\ guarded' = (intro # "none") /\ UNCHANGED failed
      BY <1>5, <2>2 DEF Checkpoint
    <3>2. guarded' \in BOOLEAN
      BY <3>1
    <3>3. QED
      BY <1>5, <3>1, <3>2, Zenon DEF Checkpoint
  <2>3. QED
    BY <2>1, <2>2
<1>6. CASE GuardStops \/ Reporting \/ RetainPlan
  <2>1. CASE GuardStops \/ Reporting
    BY <2>1 DEF GuardStops, Reporting, GuardPasses
  <2>2. CASE RetainPlan
    BY <2>2, Zenon DEF RetainPlan, GuardPasses
  <2>3. QED
    BY <1>6, <2>1, <2>2
<1>7. CASE StartPlanning
  BY <1>7, Zenon DEF StartPlanning, GuardPasses
<1>8. CASE SeedBrief
  BY <1>8, Zenon DEF SeedBrief
<1>9. CASE StartBrief
  BY <1>9, Zenon DEF StartBrief
<1>10. CASE PlanSlides
  BY <1>10, Zenon DEF PlanSlides
<1>11. CASE PlanFails
  BY <1>11 DEF PlanFails
<1>12. CASE AbandonIntro
  BY <1>12, Zenon DEF AbandonIntro, GuardPasses
<1>13. CASE AbandonedIntro
  BY <1>13 DEF AbandonedIntro
<1>14. CASE WriteIntro
  BY <1>14 DEF WriteIntro
<1>15. CASE Attach
  BY <1>15 DEF Attach
<1>16. CASE SkipBrief
  BY <1>16, Zenon DEF SkipBrief
<1>17. CASE DeferBrief
  BY <1>17 DEF DeferBrief
<1>18. CASE Discarded
  BY <1>18 DEF Discarded
<1>19. CASE TakePrepared
  BY <1>19 DEF TakePrepared
<1>20. CASE WriteBrief
  BY <1>20 DEF WriteBrief
<1>21. CASE CloseBrief
  BY <1>21, Zenon DEF CloseBrief
<1>22. CASE CloseIntro
  BY <1>22 DEF CloseIntro
<1>23. CASE Assemble \/ Gates \/ Present
  BY <1>23 DEF Assemble, Gates, Present
<1>24. CASE HandOver \/ Finish \/ Raise
  BY <1>24 DEF HandOver, Finish, Raise, Retained, Returned
<1>25. CASE IntroEnds \/ BriefEnds
  BY <1>25 DEF IntroEnds, BriefEnds
<1>26. CASE Expire
  BY <1>26, Zenon DEF Expire
<1>27. CASE UNCHANGED vars
  BY <1>27
<1>28. QED
  BY <1>1, <1>2, <1>3, <1>4, <1>5, <1>6, <1>7, <1>8, <1>9, <1>10, <1>11,
    <1>12, <1>13, <1>14, <1>15, <1>16, <1>17, <1>18, <1>19, <1>20, <1>21,
    <1>22, <1>23, <1>24, <1>25, <1>26, <1>27 DEF Next, Caller

\* Everything else keeps its range; a run is started within the bound.
LEMMA ValuesNext ==
  ASSUME Switches, Values, LimitInv, [Next]_vars
  PROVE  Values'
<1> USE PipelineAssumption DEF Switches, Values, LimitInv
<1>1. CASE Begin
  BY <1>1 DEF Begin, Fresh
<1>2. CASE Retry
  BY <1>2 DEF Retry, Fresh, Offered
<1>3. CASE RejectRetry
  BY <1>3 DEF RejectRetry, Offered
<1>4. CASE ReadDocument \/ Discover \/ Extract \/ Score \/ Checkpoint
  BY <1>4 DEF ReadDocument, Discover, Extract, Score, Checkpoint,
    KeepCheckpoint
<1>5. CASE GuardStops \/ Reporting \/ RetainPlan \/ StartPlanning
  BY <1>5 DEF GuardStops, Reporting, RetainPlan, StartPlanning, GuardPasses
<1>6. CASE SeedBrief
  BY <1>6 DEF SeedBrief
<1>7. CASE StartBrief
  BY <1>7 DEF StartBrief
<1>8. CASE PlanSlides
  BY <1>8 DEF PlanSlides
<1>9. CASE PlanFails
  BY <1>9 DEF PlanFails
<1>10. CASE AbandonIntro \/ AbandonedIntro \/ WriteIntro \/ Attach
  BY <1>10 DEF AbandonIntro, AbandonedIntro, WriteIntro, Attach, GuardPasses
<1>11. CASE DeferBrief \/ Discarded \/ SkipBrief \/ TakePrepared \/ WriteBrief
  BY <1>11 DEF DeferBrief, Discarded, SkipBrief, TakePrepared, WriteBrief
<1>12. CASE CloseBrief \/ CloseIntro \/ Assemble \/ Gates \/ Present
  BY <1>12 DEF CloseBrief, CloseIntro, Assemble, Gates, Present
<1>13. CASE HandOver \/ Finish
  <2>1. CASE HandOver
    BY <2>1 DEF HandOver
  <2>2. CASE Finish
    <3>1. Retained \in Results /\ (ending.kind \notin {"error", "limited", "rejected"} => Returned \in Results)
      BY DEF Retained, Returned
    <3>2. ending.kind = "limited" => expired
      OBVIOUS
    <3>3. saved' \in Results
      BY <2>2, <3>1, <3>2 DEF Finish
    <3>4. QED
      BY <2>2, <3>3 DEF Finish
  <2>3. QED
    BY <1>13, <2>1, <2>2
<1>14. CASE Raise
  BY <1>14 DEF Raise
<1>15. CASE IntroEnds \/ BriefEnds \/ Expire
  BY <1>15 DEF IntroEnds, BriefEnds, Expire
<1>16. CASE UNCHANGED vars
  BY <1>16
<1>17. QED
  BY <1>1, <1>2, <1>3, <1>4, <1>5, <1>6, <1>7, <1>8, <1>9, <1>10, <1>11,
    <1>12, <1>13, <1>14, <1>15, <1>16 DEF Next, Caller

-----------------------------------------------------------------------------
(* The parts of the invariant *)

\* An ending takes the caller out of its stages.
LEMMA EndingInvNext ==
  ASSUME TypeOK, EndingInv, [Next]_vars
  PROVE  EndingInv'
<1> USE DEF TypeOK, EndingInv
<1>1. CASE Begin \/ Retry \/ RejectRetry
  BY <1>1 DEF Begin, Retry, RejectRetry, Fresh, Offered
<1>2. CASE ReadDocument \/ Discover \/ Extract \/ Score \/ Checkpoint
  BY <1>2 DEF ReadDocument, Discover, Extract, Score, Checkpoint,
    KeepCheckpoint
<1>3. CASE GuardStops \/ Reporting \/ RetainPlan \/ StartPlanning
  BY <1>3 DEF GuardStops, Reporting, RetainPlan, StartPlanning, GuardPasses
<1>4. CASE SeedBrief
  BY <1>4 DEF SeedBrief
<1>5. CASE StartBrief
  BY <1>5 DEF StartBrief
<1>6. CASE PlanSlides
  BY <1>6 DEF PlanSlides
<1>7. CASE PlanFails
  BY <1>7 DEF PlanFails
<1>8. CASE AbandonIntro \/ AbandonedIntro \/ WriteIntro \/ Attach
  BY <1>8 DEF AbandonIntro, AbandonedIntro, WriteIntro, Attach, GuardPasses
<1>9. CASE DeferBrief \/ Discarded \/ SkipBrief \/ TakePrepared \/ WriteBrief
  BY <1>9 DEF DeferBrief, Discarded, SkipBrief, TakePrepared, WriteBrief
<1>10. CASE CloseBrief \/ CloseIntro \/ Assemble \/ Gates \/ Present
  BY <1>10 DEF CloseBrief, CloseIntro, Assemble, Gates, Present
<1>11. CASE HandOver \/ Finish \/ Raise
  BY <1>11 DEF HandOver, Finish, Raise, Retained, Returned
<1>12. CASE IntroEnds \/ BriefEnds \/ Expire
  BY <1>12 DEF IntroEnds, BriefEnds, Expire
<1>13. CASE UNCHANGED vars
  BY <1>13
<1>14. QED
  BY <1>1, <1>2, <1>3, <1>4, <1>5, <1>6, <1>7, <1>8, <1>9, <1>10, <1>11,
    <1>12, <1>13 DEF Next, Caller

\* Only a passed deadline, or a closed worker, limits anything.
LEMMA LimitInvNext ==
  ASSUME TypeOK, EndingInv, LimitInv, [Next]_vars
  PROVE  LimitInv'
<1> USE DEF TypeOK, EndingInv, LimitInv
<1>1. CASE Begin \/ Retry \/ RejectRetry
  BY <1>1 DEF Begin, Retry, RejectRetry, Fresh, Offered
<1>2. CASE ReadDocument \/ Discover \/ Extract \/ Score \/ Checkpoint
  BY <1>2 DEF ReadDocument, Discover, Extract, Score, Checkpoint,
    KeepCheckpoint
<1>3. CASE GuardStops \/ Reporting \/ RetainPlan \/ StartPlanning
  BY <1>3 DEF GuardStops, Reporting, RetainPlan, StartPlanning, GuardPasses
<1>4. CASE SeedBrief
  BY <1>4 DEF SeedBrief
<1>5. CASE StartBrief
  BY <1>5 DEF StartBrief
<1>6. CASE PlanSlides
  BY <1>6 DEF PlanSlides
<1>7. CASE PlanFails
  BY <1>7 DEF PlanFails
<1>8. CASE AbandonIntro \/ AbandonedIntro \/ WriteIntro \/ Attach
  BY <1>8 DEF AbandonIntro, AbandonedIntro, WriteIntro, Attach, GuardPasses
<1>9. CASE DeferBrief \/ Discarded \/ SkipBrief \/ TakePrepared \/ WriteBrief
  BY <1>9 DEF DeferBrief, Discarded, SkipBrief, TakePrepared, WriteBrief
<1>10. CASE CloseBrief \/ CloseIntro \/ Assemble \/ Gates \/ Present
  BY <1>10 DEF CloseBrief, CloseIntro, Assemble, Gates, Present
<1>11. CASE HandOver \/ Finish \/ Raise
  BY <1>11 DEF HandOver, Finish, Raise, Retained, Returned
<1>12. CASE IntroEnds \/ BriefEnds \/ Expire
  BY <1>12 DEF IntroEnds, BriefEnds, Expire
<1>13. CASE UNCHANGED vars
  BY <1>13
<1>14. QED
  BY <1>1, <1>2, <1>3, <1>4, <1>5, <1>6, <1>7, <1>8, <1>9, <1>10, <1>11,
    <1>12, <1>13 DEF Next, Caller

\* Each close waits for its worker before the next is closed.
LEMMA DrainInvNext ==
  ASSUME TypeOK, EndingInv, DrainInv, [Next]_vars
  PROVE  DrainInv'
<1> USE DEF TypeOK, EndingInv, DrainInv, DrainedBeforeGates
<1>1. CASE Begin \/ Retry \/ RejectRetry
  BY <1>1 DEF Begin, Retry, RejectRetry, Fresh, Offered
<1>2. CASE ReadDocument \/ Discover \/ Extract \/ Score \/ Checkpoint
  BY <1>2 DEF ReadDocument, Discover, Extract, Score, Checkpoint,
    KeepCheckpoint
<1>3. CASE GuardStops \/ Reporting \/ RetainPlan \/ StartPlanning
  BY <1>3 DEF GuardStops, Reporting, RetainPlan, StartPlanning, GuardPasses
<1>4. CASE SeedBrief
  BY <1>4 DEF SeedBrief
<1>5. CASE StartBrief
  BY <1>5 DEF StartBrief
<1>6. CASE PlanSlides
  BY <1>6 DEF PlanSlides
<1>7. CASE PlanFails
  BY <1>7 DEF PlanFails
<1>8. CASE AbandonIntro \/ AbandonedIntro \/ WriteIntro \/ Attach
  BY <1>8 DEF AbandonIntro, AbandonedIntro, WriteIntro, Attach, GuardPasses
<1>9. CASE DeferBrief \/ Discarded \/ SkipBrief \/ TakePrepared \/ WriteBrief
  BY <1>9 DEF DeferBrief, Discarded, SkipBrief, TakePrepared, WriteBrief
<1>10. CASE CloseBrief \/ CloseIntro \/ Assemble \/ Gates \/ Present
  BY <1>10 DEF CloseBrief, CloseIntro, Assemble, Gates, Present
<1>11. CASE HandOver \/ Finish \/ Raise
  BY <1>11 DEF HandOver, Finish, Raise, Retained, Returned
<1>12. CASE IntroEnds \/ BriefEnds \/ Expire
  BY <1>12 DEF IntroEnds, BriefEnds, Expire
<1>13. CASE UNCHANGED vars
  BY <1>13
<1>14. QED
  BY <1>1, <1>2, <1>3, <1>4, <1>5, <1>6, <1>7, <1>8, <1>9, <1>10, <1>11,
    <1>12, <1>13 DEF Next, Caller

\* A plan waits for the introduction or the run ends without it.
LEMMA AttachInvNext ==
  ASSUME TypeOK, EndingInv, AttachInv, [Next]_vars
  PROVE  AttachInv'
<1> USE DEF TypeOK, EndingInv, AttachInv
<1>1. CASE Begin \/ Retry \/ RejectRetry
  BY <1>1 DEF Begin, Retry, RejectRetry, Fresh, Offered
<1>2. CASE ReadDocument \/ Discover \/ Extract \/ Score \/ Checkpoint
  BY <1>2 DEF ReadDocument, Discover, Extract, Score, Checkpoint,
    KeepCheckpoint
<1>3. CASE GuardStops \/ Reporting \/ RetainPlan \/ StartPlanning
  BY <1>3 DEF GuardStops, Reporting, RetainPlan, StartPlanning, GuardPasses
<1>4. CASE SeedBrief
  BY <1>4 DEF SeedBrief
<1>5. CASE StartBrief
  BY <1>5 DEF StartBrief
<1>6. CASE PlanSlides
  BY <1>6 DEF PlanSlides
<1>7. CASE PlanFails
  BY <1>7 DEF PlanFails
<1>8. CASE AbandonIntro \/ AbandonedIntro \/ WriteIntro \/ Attach
  BY <1>8 DEF AbandonIntro, AbandonedIntro, WriteIntro, Attach, GuardPasses
<1>9. CASE DeferBrief \/ Discarded \/ SkipBrief \/ TakePrepared \/ WriteBrief
  BY <1>9 DEF DeferBrief, Discarded, SkipBrief, TakePrepared, WriteBrief
<1>10. CASE CloseBrief \/ CloseIntro \/ Assemble \/ Gates \/ Present
  BY <1>10 DEF CloseBrief, CloseIntro, Assemble, Gates, Present
<1>11. CASE HandOver \/ Finish \/ Raise
  BY <1>11 DEF HandOver, Finish, Raise, Retained, Returned
<1>12. CASE IntroEnds \/ BriefEnds \/ Expire
  BY <1>12 DEF IntroEnds, BriefEnds, Expire
<1>13. CASE UNCHANGED vars
  BY <1>13
<1>14. QED
  BY <1>1, <1>2, <1>3, <1>4, <1>5, <1>6, <1>7, <1>8, <1>9, <1>10, <1>11,
    <1>12, <1>13 DEF Next, Caller

\* A stage leaves the evidence the later ones, and a retry, start from.
LEMMA EvidenceInvNext ==
  ASSUME TypeOK, EndingInv, EvidenceInv, [Next]_vars
  PROVE  EvidenceInv'
<1> USE DEF TypeOK, EndingInv, EvidenceInv, Contract!Sufficient,
    Contract!Analysis, Contract!Observations
<1>1. CASE Begin \/ Retry \/ RejectRetry
  <2>1. CASE Begin
    BY <2>1 DEF Begin, Fresh
  <2>2. CASE Retry
    <3>1. /\ saved.kind = "partial" /\ saved.retry \in {"candidate_scoring", "reporting"}
          /\ resumed' = saved /\ kept' = saved.level /\ saved' = saved
          /\ ready' = (saved.retry = "reporting") /\ ending' = NoEnding
          /\ pc' = IF saved.retry = "reporting" THEN "check" ELSE "score"
      BY <2>2 DEF Retry, Fresh, Offered
    <3>2. saved.retry = "reporting" => saved.level >= Analysis
      BY <3>1
    <3>3. Contract!Sufficient(saved')
      BY <3>1
    <3>4. ready' <=> saved.retry = "reporting"
      BY <3>1
    <3>5. QED
      BY <3>1, <3>2, <3>3, <3>4
  <2>3. CASE RejectRetry
    BY <2>3 DEF RejectRetry, Offered
  <2>4. QED
    BY <1>1, <2>1, <2>2, <2>3
<1>2. CASE ReadDocument \/ Discover \/ Extract \/ Score \/ Checkpoint
  BY <1>2 DEF ReadDocument, Discover, Extract, Score, Checkpoint,
    KeepCheckpoint
<1>3. CASE GuardStops \/ Reporting \/ RetainPlan \/ StartPlanning
  BY <1>3 DEF GuardStops, Reporting, RetainPlan, StartPlanning, GuardPasses
<1>4. CASE SeedBrief
  BY <1>4 DEF SeedBrief
<1>5. CASE StartBrief
  BY <1>5 DEF StartBrief
<1>6. CASE PlanSlides
  BY <1>6 DEF PlanSlides
<1>7. CASE PlanFails
  BY <1>7 DEF PlanFails
<1>8. CASE AbandonIntro \/ AbandonedIntro \/ WriteIntro \/ Attach
  BY <1>8 DEF AbandonIntro, AbandonedIntro, WriteIntro, Attach, GuardPasses
<1>9. CASE DeferBrief \/ Discarded \/ SkipBrief \/ TakePrepared \/ WriteBrief
  BY <1>9 DEF DeferBrief, Discarded, SkipBrief, TakePrepared, WriteBrief
<1>10. CASE CloseBrief \/ CloseIntro \/ Assemble \/ Gates \/ Present
  BY <1>10 DEF CloseBrief, CloseIntro, Assemble, Gates, Present
<1>11. CASE HandOver \/ Finish \/ Raise
  BY <1>11 DEF HandOver, Finish, Raise, Retained, Returned
<1>12. CASE IntroEnds \/ BriefEnds \/ Expire
  BY <1>12 DEF IntroEnds, BriefEnds, Expire
<1>13. CASE UNCHANGED vars
  BY <1>13
<1>14. QED
  BY <1>1, <1>2, <1>3, <1>4, <1>5, <1>6, <1>7, <1>8, <1>9, <1>10, <1>11,
    <1>12, <1>13 DEF Next, Caller

\* Topics move only before a briefing is taken, and one for others is not taken.
LEMMA BriefInvNext ==
  ASSUME TypeOK, BriefInv, [Next]_vars
  PROVE  BriefInv'
<1> USE DEF TypeOK, BriefInv
<1>1. CASE Begin \/ Retry \/ RejectRetry
  BY <1>1 DEF Begin, Retry, RejectRetry, Fresh, Offered
<1>2. CASE ReadDocument \/ Discover \/ Extract \/ Score \/ Checkpoint
  BY <1>2 DEF ReadDocument, Discover, Extract, Score, Checkpoint,
    KeepCheckpoint
<1>3. CASE GuardStops \/ Reporting \/ RetainPlan \/ StartPlanning
  BY <1>3 DEF GuardStops, Reporting, RetainPlan, StartPlanning, GuardPasses
<1>4. CASE SeedBrief
  BY <1>4 DEF SeedBrief
<1>5. CASE StartBrief
  BY <1>5 DEF StartBrief
<1>6. CASE PlanSlides
  BY <1>6 DEF PlanSlides
<1>7. CASE PlanFails
  BY <1>7 DEF PlanFails
<1>8. CASE AbandonIntro \/ AbandonedIntro \/ WriteIntro \/ Attach
  BY <1>8 DEF AbandonIntro, AbandonedIntro, WriteIntro, Attach, GuardPasses
<1>9. CASE DeferBrief \/ Discarded \/ SkipBrief \/ TakePrepared \/ WriteBrief
  BY <1>9 DEF DeferBrief, Discarded, SkipBrief, TakePrepared, WriteBrief
<1>10. CASE CloseBrief \/ CloseIntro \/ Assemble \/ Gates \/ Present
  BY <1>10 DEF CloseBrief, CloseIntro, Assemble, Gates, Present
<1>11. CASE HandOver \/ Finish \/ Raise
  BY <1>11 DEF HandOver, Finish, Raise, Retained, Returned
<1>12. CASE IntroEnds \/ BriefEnds \/ Expire
  BY <1>12 DEF IntroEnds, BriefEnds, Expire
<1>13. CASE UNCHANGED vars
  BY <1>13
<1>14. QED
  BY <1>1, <1>2, <1>3, <1>4, <1>5, <1>6, <1>7, <1>8, <1>9, <1>10, <1>11,
    <1>12, <1>13 DEF Next, Caller

\* Until the report is rebuilt its predecessor stays the result, and only the
\* bare analysis a run hands over replaces it.
LEMMA KeepInvNext ==
  ASSUME TypeOK, EndingInv, LimitInv, EvidenceInv, KeepInv, [Next]_vars
  PROVE  KeepInv'
<1> USE DEF TypeOK, EndingInv, LimitInv, EvidenceInv, KeepInv, Retrying, Least, HandedBack,
    Contract!Sufficient, Contract!Analysis, Contract!Observations
<1>1. CASE Begin \/ Retry \/ RejectRetry
  BY <1>1 DEF Begin, Retry, RejectRetry, Fresh, Offered
<1>2. CASE ReadDocument \/ Discover \/ Extract \/ Score \/ Checkpoint
  BY <1>2 DEF ReadDocument, Discover, Extract, Score, Checkpoint,
    KeepCheckpoint
<1>3. CASE GuardStops \/ Reporting \/ RetainPlan \/ StartPlanning
  BY <1>3 DEF GuardStops, Reporting, RetainPlan, StartPlanning, GuardPasses
<1>4. CASE SeedBrief
  BY <1>4 DEF SeedBrief
<1>5. CASE StartBrief
  BY <1>5 DEF StartBrief
<1>6. CASE PlanSlides
  BY <1>6 DEF PlanSlides
<1>7. CASE PlanFails
  BY <1>7 DEF PlanFails
<1>8. CASE AbandonIntro \/ AbandonedIntro \/ WriteIntro \/ Attach
  BY <1>8 DEF AbandonIntro, AbandonedIntro, WriteIntro, Attach, GuardPasses
<1>9. CASE DeferBrief \/ Discarded \/ SkipBrief \/ TakePrepared \/ WriteBrief
  BY <1>9 DEF DeferBrief, Discarded, SkipBrief, TakePrepared, WriteBrief
<1>10. CASE CloseBrief \/ CloseIntro \/ Assemble \/ Gates \/ Present
  BY <1>10 DEF CloseBrief, CloseIntro, Assemble, Gates, Present
<1>11. CASE HandOver \/ Finish \/ Raise
  <2>1. CASE HandOver
    BY <2>1 DEF HandOver
  <2>2. CASE Finish
    <3>1. CASE saved' = saved
      BY <2>2, <3>1 DEF Finish
    <3>2. CASE saved' = Retained /\ kept # 0
      BY <2>2, <3>2 DEF Finish, Retained
    <3>3. CASE saved' = Returned /\ ending.kind \in {"partial", "complete"}
      BY <2>2, <3>3 DEF Finish, Returned
    <3>4. QED
      BY <2>2, <3>1, <3>2, <3>3 DEF Finish
  <2>3. CASE Raise
    BY <2>3 DEF Raise
  <2>4. QED
    BY <1>11, <2>1, <2>2, <2>3
<1>12. CASE IntroEnds \/ BriefEnds \/ Expire
  BY <1>12 DEF IntroEnds, BriefEnds, Expire
<1>13. CASE UNCHANGED vars
  BY <1>13
<1>14. QED
  BY <1>1, <1>2, <1>3, <1>4, <1>5, <1>6, <1>7, <1>8, <1>9, <1>10, <1>11,
    <1>12, <1>13 DEF Next, Caller

-----------------------------------------------------------------------------
(* The invariant *)

LEMMA InitIInv == Init => IInv
<1> SUFFICES ASSUME Init PROVE IInv
  OBVIOUS
<1>1. Switches
  BY Zenon DEF Init, Switches
<1>2. Values
  BY PipelineAssumption DEF Init, Values
<1>3. TypeOK
  BY <1>1, <1>2 DEF TypeOK, Switches, Values
<1>4. EndingInv /\ LimitInv /\ DrainInv /\ AttachInv
  BY DEF Init, EndingInv, LimitInv, DrainInv, DrainedBeforeGates, AttachInv
<1>5. EvidenceInv /\ BriefInv /\ KeepInv
  BY DEF Init, EvidenceInv, Contract!Sufficient, BriefInv, KeepInv, Retrying
<1>6. QED
  BY <1>3, <1>4, <1>5 DEF IInv

LEMMA NextIInv == IInv /\ [Next]_vars => IInv'
<1> SUFFICES ASSUME IInv, [Next]_vars PROVE IInv'
  OBVIOUS
<1>1. TypeOK'
  <2>1. Switches /\ Values
    BY TypeParts DEF IInv
  <2>2. Switches' /\ Values'
    BY <2>1, SwitchesNext, ValuesNext DEF IInv
  <2>3. QED
    BY <2>2 DEF TypeOK, Switches, Values
<1>2. EndingInv' /\ LimitInv' /\ DrainInv'
  BY EndingInvNext, LimitInvNext, DrainInvNext DEF IInv
<1>3. AttachInv' /\ EvidenceInv'
  BY AttachInvNext, EvidenceInvNext DEF IInv
<1>4. BriefInv' /\ KeepInv'
  BY BriefInvNext, KeepInvNext DEF IInv
<1>5. QED
  BY <1>1, <1>2, <1>3, <1>4 DEF IInv

LEMMA IInvHolds == Spec => []IInv
BY InitIInv, NextIInv, PTL DEF Spec

(* Every variable keeps its shape, for any number of runs.                  *)
THEOREM PipelineTypes == Spec => []TypeOK
<1>1. IInv => TypeOK
  BY DEF IInv
<1>2. QED
  BY <1>1, IInvHolds, PTL

(* However the planner, the briefing's snapshot and the worker interleave, a *)
(* plan reaches the publication gates only with the verified introduction.   *)
THEOREM GatesSeeVerifiedIntro == Spec => []PublishedIntroVerified
<1>1. IInv => PublishedIntroVerified
  BY DEF IInv, EndingInv, AttachInv, PublishedIntroVerified
<1>2. QED
  BY <1>1, IInvHolds, PTL

(* No worker of a run still pays for requests when its result is assembled, *)
(* nor when the session is handed it.                                       *)
THEOREM WorkersDrained == Spec => []DrainedBeforeGates
<1>1. IInv => DrainedBeforeGates
  BY DEF IInv, DrainInv
<1>2. QED
  BY <1>1, IInvHolds, PTL

(* Whether it was prepared from a snapshot, written in the foreground or     *)
(* restored by a retry, a briefing at the gates is one for their topics.     *)
THEOREM BriefingNeverStale == Spec => []BriefMatchesTopics
<1>1. IInv => BriefMatchesTopics
  BY DEF IInv, BriefInv, BriefMatchesTopics
<1>2. QED
  BY <1>1, IInvHolds, PTL

(* However often a session times out and retries, the report of a timed-out  *)
(* run is lost only where a retry hands over its own bare analysis.          *)
THEOREM ReportSurvivesTimeouts == Spec => []TimedOutRetryKeepsReport
<1>1. IInv => TimedOutRetryKeepsReport
  BY DEF IInv, TypeOK, KeepInv, Retrying, Least, TimedOutRetryKeepsReport
<1>2. QED
  BY <1>1, IInvHolds, PTL

-----------------------------------------------------------------------------
(* The runs of the session keep the contract *)

LEMMA ContractInit == Init => Contract!Init
BY DEF Init, Contract!Init, Contract!Checkpoint, Contract!Levels, Contract!Retries, Owned

\* What a step leaves alone, seen from the contract.
Same == (pc # "idle")' = (pc # "idle") /\ UNCHANGED <<Owned, saved>>

LEMMA ContractNext ==
  ASSUME TypeOK, EndingInv, LimitInv, DrainInv, EvidenceInv, [Next]_vars
  PROVE  [Contract!Next]_(Contract!vars)
<1> USE DEF TypeOK, EndingInv, LimitInv, DrainInv, DrainedBeforeGates, EvidenceInv
<1>1. CASE Begin \/ Retry \/ RejectRetry
  <2>1. pc = "idle" /\ pc' # "idle" /\ saved' = saved
    BY <1>1 DEF Begin, Retry, RejectRetry, Fresh
  <2>2. Contract!Begin
    BY <2>1 DEF Contract!Begin, Owned
  <2>3. QED
    BY <2>2 DEF Contract!Next
<1>2. CASE Finish
  <2>1. /\ pc # "idle" /\ pc' = "idle"
        /\ intro # "running" /\ prepared # "running" /\ UNCHANGED Owned
    BY <1>2 DEF Finish, Owned
  <2>2. saved' = saved \/ (saved' \in Contract!Checkpoint /\ Contract!Sufficient(saved'))
    BY <1>2 DEF Finish, Retained, Returned, Contract!Checkpoint,
      Contract!Levels, Contract!Retries, Contract!Sufficient, Contract!Analysis,
      Contract!Observations
  <2>3. Contract!Deliver
    BY <2>1, <2>2 DEF Contract!Deliver, Owned
  <2>4. QED
    BY <2>3 DEF Contract!Next
<1>3. CASE IntroEnds
  <2>1. Owned' = Owned \ {"introduction"} /\ "introduction" \in Owned
    BY <1>3 DEF IntroEnds, Owned
  <2>2. Contract!Leave
    BY <2>1, <1>3 DEF Contract!Leave, IntroEnds
  <2>3. QED
    BY <2>2 DEF Contract!Next
<1>4. CASE BriefEnds
  <2>1. Owned' = Owned \ {"briefing"} /\ "briefing" \in Owned
    BY <1>4 DEF BriefEnds, Owned
  <2>2. Contract!Leave
    BY <2>1, <1>4 DEF Contract!Leave, BriefEnds
  <2>3. QED
    BY <2>2 DEF Contract!Next
<1>5. CASE Discover \/ WriteIntro
  <2>1. pc # "idle" /\ pc' # "idle" /\ UNCHANGED <<saved, prepared>>
    BY <1>5 DEF Discover, WriteIntro
  <2>2. CASE intro' = "running" /\ intro # "running"
    <3>1. Owned' = Owned \union {"introduction"} /\ "introduction" \notin Owned
      BY <2>1, <2>2 DEF Owned
    <3>2. QED
      BY <2>1, <3>1 DEF Contract!Next, Contract!Hire
  <2>3. CASE intro' # "running" /\ intro = "running"
    <3>1. Owned' = Owned \ {"introduction"} /\ "introduction" \in Owned
      BY <2>1, <2>3 DEF Owned
    <3>2. QED
      BY <2>1, <3>1 DEF Contract!Next, Contract!Leave
  <2>4. CASE (intro' = "running") <=> (intro = "running")
    <3>1. UNCHANGED Owned
      BY <2>1, <2>4 DEF Owned
    <3>2. QED
      BY <2>1, <3>1 DEF Contract!vars
  <2>5. QED
    BY <2>2, <2>3, <2>4
<1>6. CASE StartBrief
  <2>1. /\ pc # "idle" /\ pc' # "idle" /\ UNCHANGED <<saved, intro>>
        /\ prepared' = prepared \/ prepared' = "running"
    BY <1>6 DEF StartBrief
  <2>2. CASE prepared' = "running" /\ prepared # "running"
    <3>1. Owned' = Owned \union {"briefing"} /\ "briefing" \notin Owned
      BY <2>1, <2>2 DEF Owned
    <3>2. QED
      BY <2>1, <3>1 DEF Contract!Next, Contract!Hire
  <2>3. CASE prepared' = prepared
    <3>1. UNCHANGED Owned
      BY <2>1, <2>3 DEF Owned
    <3>2. QED
      BY <2>1, <3>1 DEF Contract!vars
  <2>4. QED
    BY <2>1, <2>2, <2>3
<1>7. CASE ReadDocument \/ Extract \/ Score \/ Checkpoint
  <2>1. Same
    BY <1>7 DEF ReadDocument, Extract, Score, Checkpoint, Owned, Same
  <2>2. QED
    BY <2>1 DEF Contract!vars, Same
<1>8. CASE GuardStops \/ Reporting \/ RetainPlan \/ StartPlanning
  <2>1. /\ pc # "idle" /\ pc' # "idle" /\ UNCHANGED <<saved, prepared>>
        /\ intro' = "running" <=> intro = "running"
    BY <1>8 DEF GuardStops, Reporting, RetainPlan, StartPlanning
  <2>2. Same
    BY <2>1 DEF Owned, Same
  <2>3. QED
    BY <2>2 DEF Contract!vars, Same
<1>9. CASE SeedBrief \/ PlanSlides \/ PlanFails \/ AbandonIntro \/ AbandonedIntro \/ Attach
  <2>1. pc # "idle" /\ pc' # "idle" /\ UNCHANGED <<saved, intro, prepared>>
    BY <1>9 DEF SeedBrief, PlanSlides, PlanFails, AbandonIntro, AbandonedIntro, Attach
  <2>2. Same
    BY <2>1 DEF Owned, Same
  <2>3. QED
    BY <2>2 DEF Contract!vars, Same
<1>10. CASE DeferBrief \/ Discarded \/ SkipBrief \/ TakePrepared \/ WriteBrief
  <2>1. Same
    BY <1>10 DEF DeferBrief, Discarded, SkipBrief, TakePrepared, WriteBrief, Owned, Same
  <2>2. QED
    BY <2>1 DEF Contract!vars, Same
<1>11. CASE CloseBrief \/ CloseIntro \/ Assemble \/ Gates \/ Present \/ HandOver
               \/ Raise \/ Expire
  <2>1. Same
    BY <1>11 DEF CloseBrief, CloseIntro, Assemble, Gates, Present, HandOver, Raise,
      Expire, Owned, Same
  <2>2. QED
    BY <2>1 DEF Contract!vars, Same
<1>12. CASE UNCHANGED vars
  <2>1. Same
    BY <1>12 DEF Owned, Same
  <2>2. QED
    BY <2>1 DEF Contract!vars, Same
<1>13. QED
  BY <1>1, <1>2, <1>3, <1>4, <1>5, <1>6, <1>7, <1>8, <1>9, <1>10, <1>11, <1>12
  DEF Next, Caller

(* Every run hands over once its workers have ended, with a checkpoint that  *)
(* supports the retry it asks for.                                           *)
THEOREM RunsHonourContract == Spec => HonoursContract
<1>1. IInv /\ [Next]_vars => [Contract!Next]_(Contract!vars)
  BY ContractNext DEF IInv
<1>2. QED
  BY <1>1, ContractInit, IInvHolds, PTL DEF Spec, HonoursContract, Contract!Spec
=============================================================================
