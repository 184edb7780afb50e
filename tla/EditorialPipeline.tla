--------------------------- MODULE EditorialPipeline ---------------------------
(***************************************************************************)
(* The analysis runs of one session (agent/orchestrator.py): the caller     *)
(* thread works through extraction, calculation, reporting and planning     *)
(* while two workers of the run prepare the company introduction and the    *)
(* executive briefing.  A known introduction failure stops the editorial    *)
(* stages; any exception, and the fifteen-minute deadline, unwinds the run  *)
(* through its ExitStack, and the evidence retained so far becomes the      *)
(* session's retry checkpoint.                                              *)
(***************************************************************************)
EXTENDS Integers

CONSTANTS
  MaxRuns     \* bound: runs started in the session

ASSUME PipelineAssumption == MaxRuns \in Nat \ {0}

VARIABLES
  parallel,   \* gateway.discovery_workers > 1
  pc,         \* place of the caller thread
  resumed,    \* checkpoint the run resumes, NoResult for a fresh run
  kept,       \* evidence level of run_state['result']
  ready,      \* run_state['reporting_ready']
  failed,     \* a selected page lost its tables
  intro,      \* work of PreparedCompanyIntroduction
  introClosed,
  guarded,    \* editorial requests pass IntroductionGuardedGateway
  attached,   \* the plan carries the verified introduction
  plan,       \* presentation_plan: none | retained | planned
  prepared,   \* work of PreparedExecutiveBrief
  briefClosed,
  seeded,     \* prepare_stable_topic_brief was called
  deferred,   \* deferred_brief
  topics,     \* edition of presentation_topics, 0 before they are selected
  source,     \* edition in the prepared briefing's snapshot, 0 without one
  brief,      \* edition executive_brief was written for, or NoBrief, Unavailable
  ending,     \* what the run is about to return or raise
  expired,    \* the run's deadline has passed
  saved,      \* the result the session holds
  runs

introVars == <<intro, introClosed, guarded, attached>>
briefVars == <<prepared, briefClosed, seeded, deferred, topics, source, brief>>
keptVars  == <<kept, ready, failed>>
runVars   == <<parallel, resumed, plan>>
vars == <<pc, runVars, keptVars, introVars, briefVars, ending, expired, saved, runs>>

\* How much evidence a result holds (each level includes those below it).
Document == 1  Observations == 2  Analysis == 3
Report   == 4  Plan         == 5  Final    == 6

NoResult == [kind |-> "none", level |-> 0, retry |-> "none",
             limited |-> FALSE, failed |-> FALSE]
NoEnding == [kind |-> "none", level |-> 0, retry |-> "none"]

\* Topics are corrected at most once after they were selected.
Editions    == 1..2
NoBrief     == 0
Unavailable == -1

Partial(level, retry) == [kind |-> "partial", level |-> level, retry |-> retry]
Raised(kind)          == [kind |-> kind, level |-> 0, retry |-> "none"]
Complete              == [kind |-> "complete", level |-> Final, retry |-> "none"]

\* The caller leaves its stages: the ExitStack closes what the run opened.
End(e) == pc' = "unwind" /\ ending' = e

\* failed(): its future is done and holds an exception.
IntroFailed == intro \in {"failed", "broken", "stopped"}

\* What re-raising the introduction's exception ends the run with: a failed
\* verification is reported, anything else propagates.
IntroEnding(level, retry) ==
  IF intro = "failed" THEN Partial(level, retry)
  ELSE Raised(IF intro = "stopped" THEN "limited" ELSE "error")

-----------------------------------------------------------------------------
(* Starting a run *)

Fresh(w) ==
  /\ failed' = FALSE /\ introClosed' = FALSE /\ guarded' = FALSE
  /\ attached' = FALSE /\ plan' = "none" /\ prepared' = "none"
  /\ briefClosed' = FALSE /\ seeded' = FALSE /\ deferred' = FALSE
  /\ topics' = 0 /\ source' = 0 /\ brief' = NoBrief /\ ending' = NoEnding
  /\ expired' = FALSE /\ intro' = w /\ runs' = runs + 1
  /\ UNCHANGED <<parallel, saved>>

Begin ==
  /\ pc = "idle" /\ runs < MaxRuns
  /\ Fresh("none")
  /\ resumed' = NoResult /\ kept' = 0 /\ ready' = FALSE
  /\ pc' = "read"

\* The session offers every partial result without failed pages for a retry.
Offered(c) == c.kind = "partial" /\ ~c.failed

\* The checkpoint's introduction is prepared again, or reused with its plan.
Retry ==
  /\ pc = "idle" /\ runs < MaxRuns
  /\ Offered(saved) /\ saved.retry # "none"
  /\ \E w \in {IF parallel THEN "running" ELSE "deferred"} \union
              (IF saved.retry = "reporting" /\ saved.level >= Plan
               THEN {"verified"} ELSE {}) : Fresh(w)
  /\ resumed' = saved /\ kept' = saved.level
  /\ ready' = (saved.retry = "reporting")
  /\ pc' = IF saved.retry = "reporting" THEN "check" ELSE "score"

\* "Retry checkpoint does not match this analysis": the run raises at once.
RejectRetry ==
  /\ pc = "idle" /\ runs < MaxRuns
  /\ Offered(saved) /\ saved.retry = "none"
  /\ failed' = FALSE /\ introClosed' = FALSE /\ guarded' = FALSE
  /\ attached' = FALSE /\ plan' = "none" /\ prepared' = "none"
  /\ briefClosed' = FALSE /\ seeded' = FALSE /\ deferred' = FALSE
  /\ topics' = 0 /\ source' = 0 /\ brief' = NoBrief /\ expired' = FALSE
  /\ intro' = "none" /\ runs' = runs + 1
  /\ resumed' = saved /\ kept' = saved.level /\ ready' = FALSE
  /\ End(Raised("rejected"))
  /\ UNCHANGED <<parallel, saved>>

-----------------------------------------------------------------------------
(* Extraction and calculation *)

ReadDocument ==
  /\ pc = "read"
  /\ kept' = Document
  /\ pc' = "discover"
  /\ UNCHANGED <<runVars, ready, failed, introVars, briefVars, ending, expired, saved, runs>>

\* Discovery is the earliest stable source for the introduction's worker.
Discover ==
  /\ pc = "discover"
  /\ intro' = IF parallel THEN "running" ELSE "none"
  /\ pc' = "extract"
  /\ UNCHANGED <<runVars, keptVars, introClosed, guarded, attached, briefVars,
                 ending, expired, saved, runs>>

Extract ==
  /\ pc = "extract"
  /\ failed' \in BOOLEAN
  /\ kept' = Observations
  /\ pc' = "score"
  /\ UNCHANGED <<runVars, ready, introVars, briefVars, ending, expired, saved, runs>>

\* A known introduction failure stops before candidates are scored.
Score ==
  /\ pc = "score"
  /\ IF IntroFailed
     THEN End(IntroEnding(Observations, "candidate_scoring"))
     ELSE pc' = "check" /\ UNCHANGED ending
  /\ UNCHANGED <<runVars, keptVars, introVars, briefVars, expired, saved, runs>>

\* Mutant: the bare analysis replaces the more complete prior checkpoint.
KeepAnalysis == Analysis

\* A timed-out reporting checkpoint is not replaced before its successor.
KeepCheckpoint ==
  IF resumed.limited /\ resumed.retry = "reporting" THEN kept ELSE Analysis

\* Calculated results become the checkpoint; unfinished source reads end here.
Checkpoint ==
  /\ pc = "check"
  /\ IF IntroFailed
     THEN /\ End(IntroEnding(Analysis, "reporting"))
          /\ UNCHANGED <<keptVars, guarded>>
     ELSE /\ kept' = KeepCheckpoint
          /\ ready' = TRUE
          /\ guarded' = (intro # "none")
          /\ \/ pc' = "report" /\ UNCHANGED ending
             \/ End(Partial(Analysis, "reporting"))
          /\ UNCHANGED failed
  /\ UNCHANGED <<runVars, intro, introClosed, attached, briefVars, expired, saved, runs>>

-----------------------------------------------------------------------------
(* Reporting and planning *)

\* IntroductionGuardedGateway.check: dependent requests stop here.
GuardPasses == ~(guarded /\ IntroFailed)

\* Until the report is made the run hands over its own calculations, whatever
\* the retry checkpoint holds.
GuardStops ==
  /\ pc \in {"report", "plan", "planning", "attach", "abandon"}
  /\ ~GuardPasses
  /\ End(IntroEnding(IF pc = "report" THEN Analysis ELSE kept, "reporting"))
  /\ UNCHANGED <<runVars, keptVars, introVars, briefVars, expired, saved, runs>>

\* Insights, topics and charts, generated or restored from a catalog retry; a
\* failed selection is retained before the briefing is paid for.
Reporting ==
  /\ pc = "report" /\ GuardPasses
  /\ kept' = Report /\ topics' = 1
  /\ \/ pc' = "plan" /\ UNCHANGED ending
     \/ End(Partial(Report, "reporting"))
  /\ UNCHANGED <<runVars, ready, failed, introVars, prepared, briefClosed, seeded,
                 deferred, source, brief, expired, saved, runs>>

\* A retry of a failed briefing or integration keeps its validated plan, which
\* already carries the introduction; the briefing of a failed integration stays
\* if it is still the reviewed one for these topics (checked_integration_input).
RetainPlan ==
  /\ pc = "report" /\ GuardPasses
  /\ resumed.retry = "reporting" /\ resumed.level >= Plan /\ intro = "verified"
  /\ kept' = Plan /\ plan' = "retained" /\ attached' = TRUE
  /\ topics' = 1
  /\ brief' \in {NoBrief} \union
                 (IF resumed.level = Final /\ ~resumed.limited THEN {topics'} ELSE {})
  /\ pc' = "brief"
  /\ UNCHANGED <<parallel, resumed, ready, failed, intro, introClosed, guarded, prepared,
                 briefClosed, seeded, deferred, source, ending, expired, saved, runs>>

\* Serial clients prepare the introduction only now, to be written on attaching.
StartPlanning ==
  /\ pc = "plan" /\ GuardPasses
  /\ intro' = IF intro = "none" THEN "deferred" ELSE intro
  /\ guarded' = TRUE
  /\ pc' = "planning"
  /\ UNCHANGED <<runVars, keptVars, introClosed, attached, briefVars, ending,
                 expired, saved, runs>>

\* The compiled topics are ready: a briefing worker may start from a snapshot
\* that carries the introduction, unless the budget or the audit will move it.
SeedBrief ==
  /\ pc = "planning" /\ parallel /\ ~seeded
  /\ seeded' = TRUE
  /\ kept' = Plan
  /\ \/ deferred' = TRUE /\ pc' = "planning"
     \/ deferred' = FALSE /\ pc' = "seed"
  /\ UNCHANGED <<runVars, ready, failed, introVars, prepared, briefClosed, topics, source,
                 brief, ending, expired, saved, runs>>

\* The snapshot waits for the introduction and takes it, or fails the run.
StartBrief ==
  /\ pc = "seed" /\ intro \notin {"running", "deferred"}
  /\ IF IntroFailed
     THEN End(IntroEnding(kept, "reporting")) /\ UNCHANGED <<prepared, source, deferred>>
     ELSE /\ \/ prepared' = "running" /\ source' = topics /\ UNCHANGED deferred
             \/ deferred' = TRUE /\ UNCHANGED <<prepared, source>>
          /\ pc' = "planning" /\ UNCHANGED ending
  /\ UNCHANGED <<runVars, keptVars, introVars, briefClosed, seeded, topics, brief,
                 expired, saved, runs>>

\* The planner returns a plan, or recovery replaces a failed one; it may correct
\* topics while a briefing is being written from an earlier edition.
PlanSlides ==
  /\ pc = "planning"
  /\ plan' = "planned"
  /\ kept' = Plan
  /\ topics' \in {1, 2}
  /\ pc' = "attach"
  /\ UNCHANGED <<parallel, resumed, ready, failed, introVars, prepared, briefClosed, seeded,
                 deferred, source, brief, ending, expired, saved, runs>>

\* Neither a plan nor a fallback, or a retained selection nothing can replace.
PlanFails ==
  /\ pc = "planning"
  /\ \/ pc' = "abandon" /\ UNCHANGED ending
     \/ End(Partial(kept, "reporting"))
  /\ UNCHANGED <<runVars, keptVars, introVars, briefVars, expired, saved, runs>>

\* Without a plan nobody consumes the introduction: it is cancelled and drained,
\* which is not a failure of the run.
AbandonIntro ==
  /\ pc = "abandon" /\ GuardPasses
  /\ introClosed' = TRUE
  /\ guarded' = FALSE
  /\ pc' = "drained"
  /\ UNCHANGED <<runVars, keptVars, intro, attached, briefVars, ending, expired, saved, runs>>

AbandonedIntro ==
  /\ pc = "drained" /\ intro # "running"
  /\ pc' = "brief"
  /\ UNCHANGED <<runVars, keptVars, introVars, briefVars, ending, expired, saved, runs>>

\* Mutant: only the briefing's snapshot starts a deferred introduction.
WriteIntroForBrief ==
  /\ pc = "seed" /\ intro = "deferred"
  /\ intro' = "running"
  /\ UNCHANGED <<pc, runVars, keptVars, introClosed, guarded, attached, briefVars,
                 ending, expired, saved, runs>>

\* A deferred introduction is written when the caller asks for it, once.
WriteIntro ==
  /\ pc \in {"attach", "seed"} /\ intro = "deferred"
  /\ intro' = "running"
  /\ UNCHANGED <<pc, runVars, keptVars, introClosed, guarded, attached, briefVars,
                 ending, expired, saved, runs>>

\* Mutant: a failed introduction leaves the plan without one.
AttachAnyway ==
  /\ pc = "attach" /\ intro \notin {"running", "deferred"}
  /\ attached' = ~IntroFailed
  /\ pc' = "brief"
  /\ UNCHANGED <<runVars, keptVars, intro, introClosed, guarded, briefVars, ending,
                 expired, saved, runs>>

\* The final plan takes the verified introduction.
Attach ==
  /\ pc = "attach" /\ intro = "verified"
  /\ attached' = TRUE
  /\ pc' = "brief"
  /\ UNCHANGED <<runVars, keptVars, intro, introClosed, guarded, briefVars, ending,
                 expired, saved, runs>>

-----------------------------------------------------------------------------
(* The briefing *)

\* The plan needs an audit review first: an earlier draft is discarded and its
\* worker drained (defer_brief_for_audit).
DeferBrief ==
  /\ pc = "brief" /\ plan # "none"
  /\ deferred' = TRUE
  /\ briefClosed' = TRUE
  /\ pc' = "discard"
  /\ UNCHANGED <<runVars, keptVars, introVars, prepared, seeded, topics, source, brief,
                 ending, expired, saved, runs>>

Discarded ==
  /\ pc = "discard" /\ prepared # "running"
  /\ pc' = "unwind"
  /\ UNCHANGED <<runVars, keptVars, introVars, briefVars, ending, expired, saved, runs>>

\* Nothing to write now: deferred to the budget, or restored with the plan.
SkipBrief ==
  /\ pc = "brief"
  /\ \/ deferred /\ UNCHANGED deferred
     \/ prepared = "none" /\ plan # "none" /\ deferred' = TRUE
     \/ brief # NoBrief /\ UNCHANGED deferred
  /\ pc' = "unwind"
  /\ UNCHANGED <<runVars, keptVars, introVars, prepared, briefClosed, seeded,
                 topics, source, brief, ending, expired, saved, runs>>

\* Mutant: a prepared briefing is accepted without comparing its inputs.
TakePreparedUnchecked ==
  /\ pc = "brief" /\ ~deferred /\ prepared \in {"written", "failed"}
  /\ brief' = IF prepared = "failed" THEN Unavailable ELSE source
  /\ pc' = "unwind"
  /\ UNCHANGED <<runVars, keptVars, introVars, prepared, briefClosed, seeded,
                 deferred, topics, source, ending, expired, saved, runs>>

\* The caller waits for the prepared briefing and compares what it was written
\* from.  With other topics it is discarded and written once more, in the
\* foreground; with other inputs, or with errors that validate_executive_brief
\* finds, there is none.
TakePrepared ==
  /\ pc = "brief" /\ ~deferred /\ prepared \notin {"none", "running"}
  /\ \/ /\ prepared \in {"broken", "stopped"}
        /\ End(Raised(IF prepared = "broken" THEN "error" ELSE "limited"))
        /\ UNCHANGED brief
     \/ /\ prepared = "failed" /\ brief' = Unavailable
        /\ pc' = "unwind" /\ UNCHANGED ending
     \/ /\ prepared = "written" /\ source = topics
        /\ brief' \in {source, Unavailable}
        /\ pc' = "unwind" /\ UNCHANGED ending
     \/ /\ prepared = "written" /\ source # topics
        /\ brief' \in {topics, Unavailable}
        /\ pc' = "unwind" /\ UNCHANGED ending
  /\ UNCHANGED <<runVars, keptVars, introVars, prepared, briefClosed, seeded,
                 deferred, topics, source, expired, saved, runs>>

\* Nothing was prepared: the caller writes the briefing, restores the reviewed
\* one of a failed integration, or records that it is unavailable.
WriteBrief ==
  /\ pc = "brief" /\ ~deferred /\ prepared = "none" /\ brief = NoBrief
  /\ brief' \in {topics, Unavailable}
  /\ pc' = "unwind"
  /\ UNCHANGED <<runVars, keptVars, introVars, prepared, briefClosed, seeded,
                 deferred, topics, source, ending, expired, saved, runs>>

-----------------------------------------------------------------------------
(* Draining, publication gates and the end of the run *)

\* The ExitStack closes the briefing before the introduction, each close waits
\* for its worker.
CloseBrief ==
  /\ pc = "unwind"
  /\ briefClosed' = TRUE
  /\ pc' = "unwind_intro"
  /\ UNCHANGED <<runVars, keptVars, introVars, prepared, seeded, deferred, topics, source,
                 brief, ending, expired, saved, runs>>

\* Mutant: closing cancels the briefing's future and does not wait for it.
CloseIntroAtOnce ==
  /\ pc = "unwind_intro"
  /\ introClosed' = TRUE
  /\ pc' = "unwind_wait"
  /\ UNCHANGED <<runVars, keptVars, intro, guarded, attached, briefVars, ending,
                 expired, saved, runs>>

CloseIntro ==
  /\ pc = "unwind_intro" /\ prepared # "running"
  /\ introClosed' = TRUE
  /\ pc' = "unwind_wait"
  /\ UNCHANGED <<runVars, keptVars, intro, guarded, attached, briefVars, ending,
                 expired, saved, runs>>

\* The final result is assembled once every worker has been drained.
Assemble ==
  /\ pc = "unwind_wait" /\ intro # "running" /\ ending = NoEnding
  /\ kept' = Final
  /\ pc' = "gates"
  /\ UNCHANGED <<runVars, ready, failed, introVars, briefVars, ending, expired, saved, runs>>

\* The publication gates accept, or the result stays partial; failed pages are
\* never reporting-ready.
Gates ==
  /\ pc = "gates"
  /\ \/ ~failed /\ pc' = "present" /\ UNCHANGED ending
     \/ End(Partial(Final, "reporting"))
  /\ UNCHANGED <<runVars, keptVars, introVars, briefVars, expired, saved, runs>>

\* Localization, and the layout of the final deck, which may still fail.
Present ==
  /\ pc = "present"
  /\ \E e \in {Complete, Partial(Final, "reporting")} : End(e)
  /\ UNCHANGED <<runVars, keptVars, introVars, briefVars, expired, saved, runs>>

Stages == {"read", "discover", "extract", "score", "check", "report", "plan",
           "planning", "seed", "attach", "abandon", "drained", "brief",
           "discard", "gates", "present"}

\* Any stage may raise; the deadline is seen by its next notification or request.
Raise ==
  /\ pc \in Stages
  /\ End(Raised("error")) \/ (expired /\ End(Raised("limited")))
  /\ UNCHANGED <<runVars, keptVars, introVars, briefVars, expired, saved, runs>>

\* What a run returns replaces run_state['result'] even where that holds more;
\* its last notification may still meet the deadline before.
HandOver ==
  /\ pc = "unwind_wait" /\ intro # "running" /\ ending # NoEnding
  /\ \/ ending.kind \in {"partial", "complete"} /\ kept' = ending.level /\ UNCHANGED ending
     \/ ending.kind \in {"partial", "complete"} /\ expired
        /\ ending' = Raised("limited") /\ UNCHANGED kept
     \/ ending.kind \notin {"partial", "complete"} /\ UNCHANGED <<kept, ending>>
  /\ pc' = "handed"
  /\ UNCHANGED <<runVars, ready, failed, introVars, briefVars, expired, saved, runs>>

\* Mutant: a timed-out result always asks for a reporting retry.
RetainedAlways ==
  [kind |-> "partial", level |-> kept, retry |-> "reporting",
   limited |-> TRUE, failed |-> failed]

\* retain_timed_out_result
Retained ==
  [kind |-> "partial", level |-> kept,
   retry |-> IF ready THEN "reporting" ELSE "none",
   limited |-> TRUE, failed |-> failed]

Returned ==
  [kind |-> ending.kind, level |-> ending.level, retry |-> ending.retry,
   limited |-> FALSE, failed |-> failed]

\* analyse_pdf returns or raises; a raised run leaves the session's result.
Finish ==
  /\ pc = "handed"
  /\ saved' = IF ending.kind \in {"error", "rejected"} \/ (expired /\ kept = 0) THEN saved
              ELSE IF expired THEN Retained ELSE Returned
  /\ pc' = "idle"
  /\ UNCHANGED <<runVars, keptVars, introVars, briefVars, ending, expired, runs>>

-----------------------------------------------------------------------------
(* The workers and the clock *)

\* The introduction's worker ends; cancelled or late, it starts no new request.
IntroEnds ==
  /\ intro = "running"
  /\ intro' \in {"verified", "failed", "broken"} \union
                (IF introClosed \/ expired THEN {"stopped"} ELSE {})
  /\ UNCHANGED <<pc, runVars, keptVars, introClosed, guarded, attached, briefVars,
                 ending, expired, saved, runs>>

BriefEnds ==
  /\ prepared = "running"
  /\ prepared' \in {"written", "failed", "broken"} \union
                   (IF briefClosed \/ expired THEN {"stopped"} ELSE {})
  /\ UNCHANGED <<pc, runVars, keptVars, introVars, briefClosed, seeded, deferred,
                 topics, source, brief, ending, expired, saved, runs>>

Expire ==
  /\ pc # "idle" /\ ~expired
  /\ expired' = TRUE
  /\ UNCHANGED <<pc, runVars, keptVars, introVars, briefVars, ending, saved, runs>>

Init ==
  /\ parallel \in BOOLEAN
  /\ pc = "idle" /\ resumed = NoResult /\ kept = 0 /\ ready = FALSE
  /\ failed = FALSE /\ intro = "none" /\ introClosed = FALSE /\ guarded = FALSE
  /\ attached = FALSE /\ plan = "none" /\ prepared = "none"
  /\ briefClosed = FALSE /\ seeded = FALSE /\ deferred = FALSE
  /\ topics = 0 /\ source = 0 /\ brief = NoBrief /\ ending = NoEnding /\ expired = FALSE
  /\ saved = NoResult /\ runs = 0

Caller ==
  \/ ReadDocument \/ Discover \/ Extract \/ Score \/ Checkpoint
  \/ GuardStops \/ Reporting \/ RetainPlan \/ StartPlanning \/ SeedBrief
  \/ StartBrief \/ PlanSlides \/ PlanFails \/ AbandonIntro \/ AbandonedIntro
  \/ WriteIntro \/ Attach \/ DeferBrief \/ Discarded \/ SkipBrief
  \/ TakePrepared \/ WriteBrief \/ CloseBrief \/ CloseIntro \/ Assemble
  \/ Gates \/ Present \/ HandOver \/ Finish

Next == \/ Begin \/ Retry \/ RejectRetry \/ Caller \/ Raise
        \/ IntroEnds \/ BriefEnds \/ Expire

Spec == Init /\ [][Next]_vars

\* Every stage and every worker ends, without counting on an exception: the
\* gateway bounds each request by its timeouts.
FairSpec == Spec /\ WF_vars(Caller) /\ WF_vars(IntroEnds) /\ WF_vars(BriefEnds)

-----------------------------------------------------------------------------
(* Properties *)

Results == [kind : {"none", "partial", "complete"}, level : 0..Final,
            retry : {"none", "candidate_scoring", "reporting"},
            limited : BOOLEAN, failed : BOOLEAN]

\* Every variable keeps its shape.
TypeOK ==
  /\ pc \in Stages \union {"idle", "unwind", "unwind_intro", "unwind_wait", "handed"}
  /\ parallel \in BOOLEAN /\ resumed \in Results /\ saved \in Results
  /\ kept \in 0..Final /\ ready \in BOOLEAN /\ failed \in BOOLEAN
  /\ intro \in {"none", "deferred", "running", "verified", "failed", "broken", "stopped"}
  /\ introClosed \in BOOLEAN /\ guarded \in BOOLEAN /\ attached \in BOOLEAN
  /\ plan \in {"none", "retained", "planned"}
  /\ prepared \in {"none", "running", "written", "failed", "broken", "stopped"}
  /\ briefClosed \in BOOLEAN /\ seeded \in BOOLEAN /\ deferred \in BOOLEAN
  /\ topics \in {0} \union Editions /\ source \in {0} \union Editions
  /\ brief \in {NoBrief, Unavailable} \union Editions
  /\ ending \in [kind : {"none", "partial", "complete", "error", "limited", "rejected"},
                 level : 0..Final, retry : {"none", "candidate_scoring", "reporting"}]
  /\ expired \in BOOLEAN /\ runs \in 0..MaxRuns

\* A plan reaches the publication gates only with the verified introduction,
\* however the planner, the briefing's snapshot and the worker interleave
\* (agent/orchestrator.py:646-653).
PublishedIntroVerified ==
  (pc \in {"gates", "present"} /\ plan # "none") => attached /\ intro = "verified"

\* The final result is assembled from the complete usage ledger: no worker of
\* the run can still be paying for requests (agent/orchestrator.py:768-771).
DrainedBeforeGates ==
  pc \in {"gates", "present", "idle"} => intro # "running" /\ prepared # "running"

\* The briefing that goes to the gates was written for the topics it is
\* published with, although its worker starts from a snapshot while the planner
\* may still correct them, and a retry may bring back an earlier one
\* (current_executive_brief, agent/prepared_executive_brief.py:21-38).
BriefMatchesTopics ==
  (pc \in {"gates", "present"} /\ brief \in Editions) => brief = topics

\* The bare analysis takes the place of a report only where the run itself hands
\* it over: its introduction failed, or its source reads are incomplete.
HandedBack == ending = Partial(Analysis, "reporting")

\* "keep the more complete prior checkpoint until its replacement has been
\* validated" (agent/orchestrator.py:361): whatever else ends the retry of a
\* timed-out report, another timeout included, the session still holds a report.
TimedOutRetryKeepsReport ==
  (resumed.limited /\ resumed.retry = "reporting") =>
    \/ HandedBack
    \/ LET least == IF resumed.level < Report THEN resumed.level ELSE Report IN
       kept >= least /\ saved.level >= least

\* "an explicit user retry starts a new 15-minute budget"
\* (docs/ANALYSIS_TIME_LIMIT.md:17): the retry the session offers is accepted.
OfferedRetryIsAccepted == ending.kind # "rejected"

\* Every run hands over once its workers have ended, with a checkpoint that
\* supports the retry it asks for.
Owned == {w \in {"introduction", "briefing"} :
            IF w = "introduction" THEN intro = "running" ELSE prepared = "running"}

Contract == INSTANCE AnalysisRun WITH
  Workers <- {"introduction", "briefing"}, running <- (pc # "idle"),
  active <- Owned, saved <- saved

HonoursContract == Contract!Spec

\* A run that was started ends: neither worker, nor waiting for one while it
\* is cancelled, nor a retry holds it for ever.
RunEnds == (pc # "idle") ~> (pc = "idle")
=============================================================================
