# TLA+ models of the adaptive document agent

The program reads a financial PDF, extracts observations and calculations from
it, lets a language model choose and word topics, and publishes a presentation
with a company introduction and an executive briefing. Three things are hard
about it. Paid requests of several threads share one gateway and one deadline,
and a Streamlit script may be stopped and started again at any access to the UI.
Every model output passes through reviews whose verdicts are kept and resumed,
while later stages change what earlier stages accepted. And between the page and
the slide the evidence passes through long deterministic algorithms that join,
split, repair and rearrange it, in which a row, a finding or a chart can be lost
without an exception. These modules model that control and those algorithms;
what a document or a model output says is an outcome.

All paths below are relative to `src/adaptive_document_agent/`.

Contents: [inventory](#inventory) · [modules](#modules) · [runs](#runs) ·
[fairness](#fairness) · [proofs](#proofs) · [disagreements found](#disagreements-found) ·
[peculiarities](#peculiarities-met-while-modelling) ·
[not modelled](#not-modelled) · [limits](#what-is-not-shown) · [plan](#plan)

Run everything from this directory:

    tlc -workers 2 -config MCPublication.cfg MCPublication.tla
    tlapm PublicationProofs.tla

## Inventory

`PROJECT.json` lists every component with its sources, and every hazard at its
line with the properties about it. This section says how the parts fit together.

### How the parts interact

    browser event -> script run (ui/app.py)
       claims an attempt under _ATTEMPT_LOCK, starts a worker thread, polls it,
       publishes its outcome into the session and the disk cache
    worker thread (ui/analysis_job.py)
       analyse_pdf (agent/orchestrator.py): stages of one run, in order
         |-- extraction           pages, tables, observations
         |-- discovery            route through a large document, pool of chunks
         |-- pools                scoring, metric names, insights, navigation
         |-- company introduction own worker, withdrawn when the run stops
         |-- topics               drafting, source review, coverage, pages
         |-- executive briefing   own worker, from a snapshot of the topics
         |-- planning             charts, deck plan, claims, repairs
         `-- publication gates    sequential, after every worker has ended
    published result
       |-- finalization           locks, rewrites and revisions of a draft
       `-- export                 plan checks, composition of the deck, tables,
                                  copy, boxes, session cache of one deck
    every request of every thread -> LLMGateway (services/llm/gateway.py)
       validated disk cache, bounded admission, retries, usage ledger,
       fifteen-minute deadline

### Sessions, runs and requests

**LLM gateway** (`services/llm/gateway.py`, `litellm_provider.py`,
`services/analysis_deadline.py`). State: a semaphore of `discovery_workers`
permits, the usage ledger, per request an attempt log and two retry rights.
Hard: every path out of the admission context must give its permit back; the
deadline may strike between two attempts that are already paid for. Correct when
permits are conserved, the ledger is complete, no call outlives the deadline,
and a queued request ends.

**Validated disk cache** (`gateway.py`, `utils/caching.py`). State: one file per
request key, shared by all sessions; per scope, the keys it used. Hard: pool
threads share the scope and may store after it has failed; another session may
have written the same key. Correct when a retry can never find the reply that
made its predecessor fail.

**Analysis attempts of a session** (`ui/app.py`, `ui/analysis_job.py`,
`agent/analysis_time_limit.py`). State: attempts per document scope, the
session's result, failure and partial checkpoint, the complete result on disk.
Hard: script runs overlap, and a superseded run stops at any of its accesses to
Streamlit. Correct when one analysis is paid for at a time and its outcome is
shown exactly as recorded.

**Analysis pipeline and its background workers** (`agent/orchestrator.py`,
`company_introduction.py`, `prepared_executive_brief.py`,
`introduction_checkpoint.py`). State: the retained result, the plan, two
workers. Hard: a known introduction failure stops editorial work at the next
guarded request; the briefing is written from a snapshot while topics may still
move; a run may time out anywhere, and what it retained becomes the next run's
start. Correct when the published result belongs together, no worker outlives
its run, and every run ends.

### From a document to its observations

**PDF extraction** (`extraction/`). State: the tables of the pages, the section,
unit and period that are open while rows are read. Hard: four readers look at the
same page and the better reading wins; headings, totals and units govern rows at
a distance. Correct when no line is lost or read twice and every cell keeps the
period, section and scale that stand above it.

**Document discovery and page routing** (`agent/document_discovery.py`,
`chunk_discovery_recovery.py`, `route_budget.py`, `source_check_repair.py`).
State: the route, further targets, chunks and their splits in a cache. Correct
when every page in scope is read once within the budget, however requests fail.

**Work pools** (`value_scorer.py`, `insight_batches.py`, `semantic_resolver.py`,
`requirement_navigation.py`). State: batches, their halves, futures. Correct when
every item is asked for once, in order, and the failure raised is the one that
came first.

### From observations to copy

**Company introduction** (`summary_reader.py`, `introduction_*.py`,
`compact_summary.py`, `summary_layout_repair.py`): reading source lines into
parts, selecting meanings, writing, laying out. **Executive briefing**
(`executive_brief.py`, `brief_*.py`): writing, two reviews, resumption.
**Topics** (`topic_evidence_review.py`, `coverage_delta_review.py`,
`presentation_plan_recovery.py`, `topic_*_repair.py`): source review, coverage
synthesis, pages, takeaways. **Deck planning** (`presentation_planner.py`,
`presentation_plan_repairer.py`) and **charts** (`chart_planner.py`,
`document_model/series.py`, `services/composition_*.py`). **Claims**
(`validation/claim_validator.py`). Their state is a draft with the verdicts on
it; all of them correct a draft after a review, under budgets that several kinds
of error share. Correct when what is kept was accepted in exactly this form, a
correction leaves what was accepted, and nothing selected is lost on the way.

### Publication, finalization, export

**Publication gates** (`orchestrator.py:800-954`,
`presentation_budget_refinement.py`, `report_audit_scope.py`,
`pipeline_completion.py`, `final_presentation_layout.py`): each gate may change
what an earlier gate accepted. **Audit-scope review** (`report_audit_*.py`):
batches, halves, a pool of two, approvals resumed by later passes.
**Localization** (`report_localization.py`) and **supplementary sources**
(`source_integration_*.py`): reviews of what is already accepted. **Topic
finalization** (`services/finalization.py`, `ui/finalization.py`): a rewrite waits
for the model while the user goes on. **Export** (`services/export.py`,
`services/pptx_export.py`, `services/qa_reporter.py`, `validation/layout_qa.py`,
`services/presentation_visual_qa.py`): a plan that is repaired by every export, a
deck whose order, contents page and trace are rebuilt after pages are folded, and
a cache of one deck. Correct when everything served was judged as it is served,
and nothing of it was lost on the way.

## Modules

| Module | Role | Checked in |
|---|---|---|
| `LLMGateway`, `LLMGatewayProofs` | concurrent requests, permits, retries, repair, deadline; proofs | `gateway`, `publication` |
| `ValidatedCache` | cached replies under validated scopes of several sessions, with its proofs | `content` |
| `AnalysisAttempt`, `AnalysisAttemptProofs` | script runs and attempt workers over one document scope; proofs | `attempt`, `attempt_repeat` |
| `AnalysisRun` | what a run promises its session (abstract specification) | `pipeline` |
| `EditorialPipeline`, `EditorialPipelineProofs` | the runs of a session; implements `AnalysisRun`; proofs | `pipeline`, `pipeline_retry` |
| `PageTables` | the four readers of a page and the choice between them | `content` |
| `TextGrids`, `RuledGrids` | tables without ruling, and inside it | `content` |
| `TableReading` | joined tables, rows, sections, scales, series in text | `content` |
| `ReadingScope` | route, budget, further targets and their retries | `content` |
| `ChunkReading` | the pool of chunks, splits, cache, overview | `content` |
| `WorkPools` | scoring, insights, metric names, navigation | `content` |
| `SummaryReading`, `IntroductionSelection`, `SummaryDrafting`, `SummaryLayout` | the four stages of the company introduction | `content` |
| `ExecutiveBriefing`, `BriefReview` | writing a briefing; its two reviews | `content` |
| `ChartPlanning` | series, compositions, chart plan, chart pages | `content` |
| `DeckPlanning` | the planned deck, its revision and repair | `content` |
| `DirectionClaims` | words of movement against values, and their repair | `content`, `claim_repair` |
| `PlanChecks` | the checks and repairs of a plan before every export | `content` |
| `TopicReview`, `TopicReviewProofs` | the source review, before and after coverage; proofs | `topic_review` |
| `CoverageDelta` | the coverage synthesis | `content` |
| `TopicPages` | the pages of the selected topics | `content` |
| `TopicClaims` | takeaways: validated, corrected or withheld | `content` |
| `ContentProofs` | proofs about what is read, the introduction, the briefing, takeaways and coverage | `content` |
| `AuditBatches`, `AuditBatchReview` | the audit-scope review: pool and passes; one batch | `publication` |
| `PublicationGates` | the gates, each verdict with the version it binds | `publication` |
| `ReportTranslation` | translation and what an export shows of it | `publication` |
| `SourceIntegration` | conclusions against supplementary sources | `publication` |
| `DeckAssembly` | order, contents page and trace of the deck | `publication`, `contents` |
| `TablePages`, `CopyPages` | pages of tables; pages of prose | `publication` |
| `ExportGates` | the gates, the cache and the approval of an export | `publication` |
| `PublicationProofs` | proofs about the audit, the gates, the exports, the translation and the further sources | `publication` |
| `VisualChecks` | boxes on a slide and their repairs | `publication` |
| `BatchLemmas` | halving a batch, and stacks of disjoint batches: lemmas of both review pools | proofs |
| `TopicFinalization` | proposals over a published presentation | `finalization`, `approved_draft` |

The modules share no variables: a component appears in another's module as an
outcome. The gateway as a whole is "a request ends" in the other modules
(`QueuedRequestEnds` discharges it); the gates are one step of
`EditorialPipeline`; one visit of a batch in `AuditBatches` is a behaviour of
`AuditBatchReview`; the coverage synthesis that `TopicReview` takes as any
rewriting of the topics is `CoverageDelta`; what `PublicationGates` calls
translation, source review and layout are `ReportTranslation`,
`SourceIntegration` and the deck modules; `ExportGates` takes the verdicts of
`PlanChecks` (evidence), `DeckAssembly` with its pages (deck) and `VisualChecks`
(rendering) as outcomes.

**Composite MC modules.** `MCContent` and `MCPublication` check several modules
in one run: the variable `part`, chosen at the start, says which of them runs,
and the rest stutters. The parts do not interact. Each composite extends the
proof module of its field, and with it the modules that are proved about, so
that a run checks the very definitions the theorems are about and evaluates
their assumptions: `MCPublication` extends `AuditBatches`, `AuditBatchReview`,
`PublicationGates`, `ExportGates`, `ReportTranslation` and `SourceIntegration`;
`MCContent` extends `ValidatedCache`, `ReadingScope`, `ChunkReading`, `WorkPools`,
`TopicClaims`, `CoverageDelta`, `IntroductionSelection`, `SummaryDrafting`, `BriefReview`, `SummaryReading` and
`ExecutiveBriefing`. These have variables of their own, and names that do not
clash (`ClaimsInit`, `ClaimsNext`, `claimsVars`); while another part runs, each
of them rests in an initial state, in one chosen state where it has several
(`Unasked`, `Unworked`, `Unexported`, …), which keeps the product of the parts
small and loses no behaviour of any. The other parts are instances over shared
variable slots `s1`, `s2`, …. A property of instances, such as
`CellsKeepMeaning`, is the conjunction of the parts' properties, each for the
states of its part; a property of extended modules, such as
`PublishedAsReviewed`, is defined beside its proof and holds of them in every
state. The other runs check a module as it is; the configuration gives it its
constants.

In some modules definitions marked as mutants stand beside an action or an
operator. They are plausible errors in it, used to see that the properties depend
on it; no specification uses them.

### LLMGateway

One `Callers` element is a thread of the run. `Call` is `generate_text` or
`generate_structured` with or without repair; `Lookup` the cache;
`EnterAdmission`, `Acquire`, `LeaveQueue`, `Admit` are `_admit`, in which the
caller's event and the deadline are read before and after the semaphore;
`Attempt` … `TimeOut` the loop of `litellm_provider.py`, `Leave` the release of
the permit, `Record` the booking in `finally` and the decision about a repair.
Time is a counter `remaining` in ticks; reading a timeout and starting the call
are one instant. `limited` says whether the run has a deadline, chosen at the
start. The provider (`Provider`) and the caller's event (`Cancel`) are
environment.

### ValidatedCache

A stage of a session opens a scope (`OpenScope`), its workers look up, fetch and
store in a copied context that shares the scope's key set (`Hit`, `Miss`,
`Fetch`, `Store`). A failure cancels the pool (`NoticeFailure`), which drains
(`Drained`) before the keys are revoked one by one (`RemoveModel`). A reply
carries its writer, round and key, so a reply put back by anyone else is seen.

### AnalysisAttempt

`Begin` … `Run` are the accesses of a script run in their order, each a step,
as Streamlit may stop a run at each of them (`Interrupt`); a run that a newer
one superseded does not pass a write to the UI (`MayWrite`). The two locked
sections of `ui/app.py` (147, 196) are steps of their own, the disk and session
lookups between them are not under the lock. `Work` is the worker: the outcome
is checked against the deadline, result and failure are stored, the terminal
state comes last. `cache_for_session` (`ui/deployment.py:21-41`) always returns a
disk cache, so runs without one do not occur in the application. Writing it is no
access to Streamlit: a run superseded after it updated the session still writes an
older result over a newer one. `stored` and `late` record which attempts were
written and whether the last write was of that kind; `PublishedIsRecorded` asks of
every complete attempt shown as published that it was itself written, and that the
disk still holds it or a newer one unless the last write was late.

### EditorialPipeline and AnalysisRun

`pc` walks through the stages of `_analyse_pdf`; `kept` is the level of evidence
of the retained result (nothing, document, observations, analysis, report, plan,
final). `IntroEnds` and `BriefEnds` are the two workers; `Raise` is an exception
at any stage, unwinding through `AbandonIntro`, `CloseBrief`, `CloseIntro`;
`Expire` the deadline. `Retained` is what `analysis_time_limit.py` makes of a
timeout, `Retry` and `RejectRetry` the validation of a resumed checkpoint. `topics`
counts the editions of the topics, `source` is the one in the briefing's snapshot
and `brief` the one the briefing was written for, or that it is unavailable, as also
when `validate_executive_brief` finds errors (`TakePrepared`). `HandOver` is
`orchestrator.py:84-92`: whatever a run returns replaces `run_state['result']`, and
its last notification may still meet the deadline.

`AnalysisRun` is the same seen from the session: a run owns workers, hands over
only when none is active, and the checkpoint it hands over holds the evidence its
retry will not compute again. `EditorialPipeline` implements it (`HonoursContract`)
under the mapping *running* = the caller is not idle, *active* = the workers that
are running, *saved* = the session's result.

### PageTables, TextGrids, RuledGrids, TableReading

`PageTables` reads the pages of a document in order: `ReadRuled`, `ReadFound`,
`ReadBorderless` are the readers, `Retain` keeps what they found as source
tables, `Select` decides what is analysed, `Fail` is an exception in any of
these, `FailDocument` one that ends the reading. `TextGrids` takes the lines of a
page one by one (`ReadLines`), as the loop of
`borderless_table_extractor.py` does, and aligns the values of sparse rows by
their right edges (`Tabulate`); `RuledGrids` splits a region at repeated headings
(`Split`), joins its lines into rows (`Grid`) and reads the small print
(`ReadNote`). A tier parts the rows of `TextGrids` if it names two calendar years
(`PartingTier`), and heads the rows below it if it names two years, or one above a
single column (`Heads`). `TableReading` joins following tables (`Join`), reads rows under
the open section and unit (`ReadRow`), lets a total name the group before it
(`AddContexts`), and reads series from plain lines (`ReadLine`, `Dedupe`). What a
line is (a heading, a row, a date) is given; its parsing is not modelled.

### ReadingScope, ChunkReading, WorkPools

`ReadingScope`: `Route`, `Narrow` and `Plan` are the three requests that settle
which pages are read, `Target` and `Request` the further checks under a budget of
calls, `Retry` the report's retry. `ChunkReading`: `TakeChunk` and `Step` are the
threads; a cut answer is split at most twice, splits and results go into the
cache, a later `Begin` starts from them. `WorkPools`: the four pools differ in
whether they stop their siblings, halve their batches and order their results;
`Work` is a batch in its thread, `Collect` the caller.

### The company introduction

`SummaryReading`: `ReadFirst` … `ReadTargeted` are the attempts at one batch of
lines, of which only the first two may replace everything. From the second reply on
a part that repeats the lines of a narrower one is cut first (`Trimmed`).
`IntroductionSelection`: `Review` judges the selection; `ReviseMeanings`,
`AddParts`, `Resolve`, `Reconsider` and `Adjudicate` are the corrections, each
allowed to change what a finding named. `SummaryDrafting`: the writing loop with
its repair budget per kind of error. `SummaryLayout`: `Overflow` decides between
rearrangements (`ChooseLayout`, `ChooseAllocation`, `Reallocate`) and a rewrite by
the model (`Compress`), whose result is measured against the first draft.

### ExecutiveBriefing and BriefReview

`ExecutiveBriefing`: `Resume` takes a saved briefing, `Write` a new one;
`Classify` locks findings whose sources and meaning hold; `Patch`,
`CorrectSources`, `CorrectMeaning` and `Salvage` replace or discard the rest.
`BriefReview`: `Group` and `Single` review the claims, `Context` their context in
another thread, `Join` completes verdicts that have both halves; `Restart` is a
later attempt from what was saved.

### TopicReview, CoverageDelta, TopicPages, TopicClaims

`TopicReview`: `StartReview` asks only about drafts without an approval; `Take` …
`GiveUp` are the threads of the pool (each has the batches it still has to
visit), `Reserve` the shared budget, `Judge` the decisions; `Observe` and `Abort`
the caller. `Correct` is the one request for all rejected topics, which may bind
other rows; `Reword` the one per topic, which may not; both are followed by their
own review. `Cover` is the coverage synthesis with the caveat review, and may
rewrite any topic; `Retry` resumes from recorded drafts. A recorded correction
that lost its rows (`spoiled`) makes `retry_catalog_topics` start afresh. The
legacy field `recheck_ids` is left out.

`CoverageDelta`: `ReviewAtOnce` for small payloads, otherwise `Take`, `Reserve`,
`Deliver` are the threads of the deltas, `Observe` and `Abort` the caller, `Join`
the complete ledger, `StartLevel`, `ReduceGroup`, `Reduced` its narrowing,
`Merge` the one commit and `Replay` the later use of its retained reply.
`TopicPages`: `Bind` takes the valid observations and the charts of each topic,
`Compile` makes pages with tables for what no chart shows, `Enrich` may replace a
page, `Display` drops repeated tables, `Rebalance` paginates. `TopicClaims`:
takeaways through selection, compilation, withholding, two corrections and
recompilation.

### ChartPlanning, DeckPlanning, DirectionClaims, PlanChecks

`ChartPlanning` follows `plan_charts`: requested series, tasks, compositions,
reported series, each skipping what is already shown, then the grouping of charts
on pages (`Draw`, `Group`). Series keys, conflicts, sign variants, composition
checks and relationships are operators over observations with values.
`DeckPlanning`: one proposal, one revision, then `RepairSlide` over the slides;
the validator is an operator of the candidate. A slide lists insights and charts and
shows more in its blocks. A weak slide goes into its neighbour without its blocks, and
a slide keeps its first four (`BlockLimit`), as in the code: what only they showed is
lost, and `FindingsKept` is about the rest. A weak analysis slide before any other ends the
repair with an error, since the code reads its section before assigning it (`OpensWeak`).
`DirectionClaims`: a table of words
per family and movement (`Contradicting`, `Replacement`) is the table of the code;
`Check` finds the issues, `Repair` edits from right to left, `Keep` restores a
slide whose repair broke a claim. `PlanChecks`: one action per rule of
`run_comprehensive_qa` in its order, over passes (`Again`), either repairing or
reporting on a copy. The last rule, `CheckPlan`, is the validation of a planned deck:
the figures of every text, and the form and evidence of analysis and risk slides. Left
out of it are the slides a deck must have and their number, pages, themes, titles of
charts, compact tables and which of two equal figures a text means.

### AuditBatches and AuditBatchReview

`AuditBatches`: measures are numbered in source order and a batch is a set of
them. `Begin` computes what a pass still has to review from the record it
resumes; `Take` and `Worker` are the threads; `Observe`, `Withdraw` and `Merge`
the caller: it sees the first failed future, cancels what has not been taken and
drains the rest. `Revise` changes the sources between passes; supplementary
source discovery is part of the sources a pass starts from.
`AuditBatchReview`: one batch. Each kind of mistake is corrected once, each
truncated output asked for once with a larger limit, and only an unanswered
draft is kept for the next pass. Not modelled: revalidating a kept raw draft
under an upgraded schema.

### PublicationGates

One action per gate in the order of `orchestrator.py`. The deck is the version
of its topics and of its plan, the measures the plan qualifies and whether native
preparation has settled it; a briefing has an identity and the assurance it was
written against. A budget proposal (`Propose`) is one step: candidates are not
visible until accepted, except for their audit records, which stay either way.
Assumed: a plan exists (without one the run ends earlier), and every catalogue run
has a slide limit (`orchestrator.py:67`). `review_content_requirements` is left
out.

### ReportTranslation and SourceIntegration

`ReportTranslation`: batches by one thread or two (`Translate`, with a second
attempt at what failed, `GiveUp`), `Retain` and `StoreCopy` what a later run may reuse,
`Export` what the deck shows. `SourceIntegration`: `WriteIntegration`, `Shorten`,
`BindDraft`, `ReviewIntegration`, `Reopen` share three attempts; `BeginSources` of a
later run may take up a draft no reviewer rejected. `KeptDecisions` restores the
accepted decisions all at once where the code goes check by check: what is restored of
one check is never an addition that another check rests on, so the order does not
matter.

### DeckAssembly, TablePages, CopyPages

`DeckAssembly`: `Open` writes the agenda from the plan, `DrawIntroduction` …
`DrawSupporting` draw sections and record slides in the trace, `Fold` merges short
pages into others, `AddTables` and `Place` move and append slides; the trace is
rebased each time. `TablePages`: requested tables are cut into column groups, each
with the header and so the room of its own columns, row batches and segments of long
cells (`RenderTable`), short blocks stacked (`StackTables`), every cell verified and
every segment that groups repeat compared (`Verify`); evidence tables are packed
(`PackNext`). `CopyPages`: pages of findings, profile and closing by line counts.

### ExportGates and VisualChecks

`ExportGates`: the result is a version of its plan and of the rest; a gate fails
for the versions the chosen world names. `Start` … `Store` are the steps of one
export in their order, with a session cache of one deck (`LookUp`, `Key`);
`Interrupt` stops the script run, `Approve` and `ShowQuality` change the result
between exports. `VisualChecks`: `Render` inspects the boxes of a slide, `Repair`
moves what it may, twice at most.

### TopicFinalization

A draft is the set of revisions it contains and its locked themes. Operations
that need no model are one step; a rewrite reads the draft in `StartRewrite` and
leaves its proposal in `FinishRewrite`, since its script run reaches the
assignment without another access to Streamlit. `ShowDataQuality` is the view that
repairs the draft it shows. `Renew` is another result under the same scope.

## Runs

All runs disable the deadlock check: the bounds, and the ends of the modelled
protocols, stop every system. Every passing run explores its whole state space.

| Run | Configuration | Distinct states | What it shows |
|---|---|---|---|
| `gateway` | `MCLLMGateway.cfg` | 3,646,659 | permits are conserved, the ledger is complete, no call outlives the deadline |
| `attempt` | `MCAnalysisAttempt.cfg` | 8,894,076 | one paid worker at a time; outcomes before states; publications that survive being stopped; the newest outcome shown |
| `pipeline` | `MCEditorialPipeline.cfg` | 454,606 | verified introduction, drained workers, briefing of its topics, kept reports, the contract with the session, every run ends |
| `topic_review` | `MCTopicReview.cfg` | 1,295,696 | no unreviewed draft leaves, nothing undenied is omitted, committed coverage is kept |
| `content` | `MCContent.cfg` | 3,256,672 | what is to be read is read once; cells keep their meaning; accepted parts, findings, charts, facts and coverage survive every repair; selected evidence is shown and withheld takeaways stay withheld; published copy is the reviewed copy; rejected replies are revoked |
| `publication` | `MCPublication.cfg` | 1,486,108 | exact partitions and approvals of the audit; verdicts on exactly what is published and served; a deck that is true to itself; later reviews keep what was accepted; every pass and every queued request ends |
| `attempt_repeat` | `MCAnalysisAttemptRepeat.cfg` | violation | an attempt nobody asked for |
| `pipeline_retry` | `MCEditorialPipelineRetry.cfg` | violation | a retry that is offered and refused |
| `contents` | `MCPublicationContents.cfg` | violation | a contents entry without a slide |
| `finalization` | `MCTopicFinalization.cfg` | violation | an applied revision is lost |
| `approved_draft` | `MCTopicFinalizationViews.cfg` | violation | a view rewrites an approved draft |
| `claim_repair` | `MCContentRepairs.cfg` | violation | a repair turns a true word into a false one |

### Properties of the composites

| Property | Parts it is about |
|---|---|
| `ReadingAccounted` | `ReadingScope`: `RouteFits`, `PagesReadOnce`, `CallsBounded`; `ChunkReading`: `ProfileWhole`, `CutOffNotRepeated`; `WorkPools`: `BatchesAccounted`, `OwnBatchDecides`, `CauseRaised` |
| `CellsKeepMeaning` | `TableReading`: `JoinedAgree`, `SectionsBound`, `ScaledOnce`, `LinesReadOnce`; `TextGrids`: `RowsUnderTheirYears`, `ValuesInPlace`, `PeriodCarried`; `RuledGrids`: `LinesOfOneTable`, `HeadingsHeadTheirRows`, `NotesApart` |
| `TablesAccounted` | `PageTables`: `ReadFromOneReader`, `SourcesRetained`, `AdditionsAddMetrics`, `FailuresContained` |
| `AcceptedPartsKept` | `SummaryReading` |
| `PublishedAsReviewed` | `IntroductionSelection`: `AcceptedAsReviewed`; `SummaryDrafting`: `PublishedCopyAccepted`; `ExecutiveBriefing`: `PublishedBriefReviewed` |
| `ContentKept` | `SummaryLayout`: `LaidOutComplete`, `OfferedLayoutsLossless`; `DeckPlanning`: `FindingsKept`; `PlanChecks`: `ChartsStay`, `EvidenceStays`, `MovedStaysNamed`; `ChartPlanning`: `ShownOnce`, `PagesOfOneStory` |
| `ClaimsStand` | `DeckPlanning`: `ReturnedPlanValid`; `DirectionClaims`: `SupportedWordsKept`, `RepairsAgree`; `PlanChecks`: `VerdictStands`, `RepairsSettle`; `ChartPlanning`: `SeriesCompare`, `CompositionsWhole` |
| `ReviewsBind` (action) | `IntroductionSelection`: `ChangesFoundOnly`; `BriefReview`: `CompletesBoth` |
| `CoverageSettled` | `CoverageDelta`: `LedgerMatchesTopics`, `AcceptedObservationsKept` |
| `PagesShowTopics` | `TopicPages`: `SelectedEvidenceShown`, `ClosingRepresents` |
| `ClaimsAccounted`, `WithheldStays` (action) | `TopicClaims` |
| `NoSecondOpinion` | `AuditBatchReview` |
| `PublishedAsChecked` | `PublicationGates`: `PublishedVerdictsCurrent`, `PublishedDeckFits`, `BriefKnowsAssurance`, `BriefingsBounded`; `ExportGates`: `ServedIsCurrent`, `ApprovedServedAsApproved`, `ServedEvidenceSound`, `DiagnosisNamesCause` |
| `DeckTrue` | `DeckAssembly`: `TraceNamesItsSlides`, `AgendaInDeckOrder`; `TablePages`: `RequestedTablesShown`, `TablePagesFit`, `EvidenceTablesKept`; `CopyPages`: `CopyComplete`, `CopyFits`; `VisualChecks`: `RepairsHelp`, `NothingDrifts` |
| `LaterReviewsHold` | `ReportTranslation`: `ExportedCopyReviewed`, `StringsAccounted`; `SourceIntegration`: `AcceptedDecisionsKept`, `RejectedNotResubmitted`, `AttemptsEnd` |

Several of them compare the algorithm with a definition of its result that does
not follow it: `LaidOutComplete` with every division of the paragraphs on slides,
`CopyComplete` with the numbered lines of the copy, `RequestedTablesShown` with
the cells of the request, `TraceNamesItsSlides` with the slides as drawn,
`SectionsBound` with the rows between a heading and a row, `BatchesAccounted` with
the list itself.

### Bounds

| Part | Bounds | Why they are enough |
|---|---|---|
| `LLMGateway` in `gateway` | 2 callers, 1 permit, timeout 2, limit 3, 2 requests each, with and without deadline | one caller queues while the other holds the permit; an attempt fits the deadline whole, is cut by it, or meets it before it starts. The proofs remove the bounds |
| `LLMGateway` in `publication` | timeout 1, 1 request each, no deadline (a deadline only ends requests earlier) | fairness does not depend on the length of a timeout |
| `ValidatedCache` | 2 sessions, 3 workers (two in one pool), 2 keys, 2 rounds | a straggler beside a failed sibling, a foreign writer of the same key, and a retry. The proofs remove the bounds |
| `AnalysisAttempt` | 2 overlapping script runs, 3 attempts | a run between its lookups while the other claims and publishes; a retry of a retry |
| `EditorialPipeline` | 3 runs, serial or concurrent | a run, its retry and the retry of that; more retries start from the same kinds of checkpoint |
| `PageTables` | 3 pages of which 2 are wanted, up to two tables per reader in the same and in other places | a page between wanted ones; every choice between readers, also of a page after a failed one |
| `TextGrids`, `RuledGrids` | every sequence of 4 lines of 13 kinds below three tiers; of 4 lines of 9 kinds below two headings and a row | a heading needs two lines and a row, so a table is closed and another begun; the rules look at most 3 lines away |
| `TableReading` | 3 rows of two groups with and without scales; up to 4 tables, two on a page; pages of 5 lines | heading, item, total, and a second total; a continuation of a continuation, and two continuations of one table |
| `ReadingScope` | 6 pages, budget 3, up to 3 ranges, 2 targets of up to 2 pages, 1 retry | a range over the budget, overlapping ranges and targets, a failed target that is read again |
| `ChunkReading`, `WorkPools` | 2 chunks split twice, 2 threads, 2 runs; 5 items in batches of 3, 2 threads | both halves of a half; a full and a smaller batch, each halved |
| `SummaryReading` | 3 lines, one of them blank | a gap, an overlap and a rejected part beside an accepted one |
| `IntroductionSelection`, `SummaryDrafting` | 2 parts, 2 meanings, 5 reviews; 2 parts, the code's 6 attempts | one part is corrected while the other must stay; every mix of error kinds |
| `SummaryLayout` | groups of up to 3 paragraphs of up to 3 sentences of 2 facts, pages of 4, budgets 2 and 3 | over the budget by one and by two, with and without a lossless rearrangement |
| `ExecutiveBriefing`, `BriefReview` | 2 to 3 of 4 findings; 2 findings, 3 attempts | a locked finding beside a patched one; a review continued twice |
| `ChartPlanning` | families of documents: sales in two signs and two bases with a second value, matrices of parts over two periods, related and unrelated measures | each key field of a series differs once; parts that do and do not make up a whole; groups at their limit of 3 |
| `DeckPlanning` | 2 slides, 1 chart and 1 block per slide, 3 slides at most | a merge, a drop, a split and a block over the limit in one repair |
| `DirectionClaims` | every family over 7 movements; slides of one and two words of 12, with one and two metrics and series | every cell of the tables of words; two edits in one sentence |
| `PlanChecks` | decks of one to three slides, crowded, thin, flawed, and planned ones whose texts state figures; 3 passes | a merge across sections, a split, text that two rules change; the third pass shows whether two settle it |
| `TopicReview` | 3 topics, batches of 2 (code: 3), budget 3 (code: 24), 2 threads, 3 wordings, 2 passes | two batches, one that can be halved; the budget runs out in every phase. The proofs remove the bounds |
| `CoverageDelta` | 3 candidate series of which two report one fact, groups of 2, merges of 1, 5 calls, 2 threads | a ledger that must be reduced before it can be merged; the calls run out in every phase |
| `TopicPages` | 4 series of 9 observations, 4 charts, rows of 3 | a topic that is charted in part, paginated, and replaced; a closing at its limit |
| `TopicClaims` | 2 topics, one claim of each kind | withheld on one page and in the summary, corrected twice, recompiled |
| `AuditBatches` | 5 measures in batches of 3 (the code's size), 2 threads (the code's), 3 passes, sources revised once | a full and a smaller group, halves of unequal size, an approval resumed twice. The proofs remove the bounds |
| `AuditBatchReview` | 3 passes | a kept draft may be kept, used and kept again |
| `PublicationGates` | 2 measures | an accepted record that covers some but not all of what the plan qualifies. `Proposals` is the code's 2. The proofs remove the bound |
| `ReportTranslation`, `SourceIntegration` | 3 strings in 2 batches, 2 languages, 2 runs; 2 checks, 2 conclusions and 1 addition, the code's 3 attempts, 2 runs | a summary claim of two pieces of which one fails; a correction of one check while the other rests on its copy |
| `DeckAssembly` | 2 analysis pages, 2 dropped drafts, 2 forms of each section | a fold before and after other sections, an index of two slides |
| `TablePages`, `CopyPages` | pages of 6 rows and 2 columns; pages of 8 and 7 lines | a cell higher than a page, spans over column groups; an item longer than a page |
| `ExportGates` | 2 styles, 2 plans and 2 rests, 2 exports | a deck from the cache after each of its inputs changed; a fault of each gate, and of none |
| `VisualChecks` | a canvas of 96 by 96 with a chart and a source at 20 places, beside one of 9 elements | every side on which a source can leave or overlap; a repair that is blocked |
| `TopicFinalization` | 2 themes, 2 script runs, 3 proposals | a rewrite overtaken by another proposal |

### Fairness

- `LLMGateway` (in `publication`): `WF(Tick)` and `WF(Request(c))` for each thread.
  Time passes and threads are scheduled. The provider is not fair: a call may stay
  silent until its timeout, which the HTTP client enforces. The permit itself needs
  no strong fairness, because each caller makes finitely many requests.
- `EditorialPipeline`: `WF(Caller)`, `WF(IntroEnds)`, `WF(BriefEnds)`: every stage
  and worker ends, because each of its requests does. No exception and no
  deadline is assumed to come.
- `AuditBatches`: `WF` of the caller's waiting part and of each thread. Starting a
  pass is not fair: nobody has to retry.

The other specifications are checked for safety only.

## Proofs

The proof modules hold for every value of the constants that satisfies the named
assumption of the module. The assumptions are what the code gives:

| Module | Assumption |
|---|---|
| `LLMGateway` | finitely many callers, at least one permit and one tick of timeout |
| `ValidatedCache` | each worker belongs to a stage, there is a key, `None` is not a reply |
| `AnalysisAttempt`, `EditorialPipeline` | at least one attempt, at least one run; any number of script runs |
| `AuditBatches` | finitely many numbered measures (source order), batches of at least one, at least one thread, any number of passes and of source revisions |
| `ReadingScope` | numbers of pages, budget and checks; a model proposes pages from 1 on (the schema of its answer), sections and targets are ranges |
| `ChunkReading`, `WorkPools` | any number of chunks, readers and runs, any fragments that can be split; any list, batches of at least one, any threads |
| `TopicReview` | finitely many numbered topics (selector order), batches of at least one, any budget, at least one thread, draft and pass |
| `PublicationGates`, `AuditBatchReview` | none: any measures, any number of passes |
| `ReportTranslation` | the units of the summary are strings of the report, and a string is in one batch: the code batches the distinct strings, in order (`report_localization.py:82`) |
| `SourceIntegration` | none: any number of checks, additions and runs |
| `ExportGates` | at least one style; an introduction that is refused is refused in every version of the plan and the rest, since what an export prepares is topics, slides and notes |
| `IntroductionSelection`, `SummaryDrafting`, `BriefReview` | none: any parts, meanings, findings and budgets |
| `ExecutiveBriefing` | the least and the greatest number of findings are numbers |
| `SummaryReading` | a number of lines, any of them blank |
| `TopicClaims` | loose takeaways are takeaways, and the wording of the compiler is not |
| `CoverageDelta` | the thread that waits for the pool is none of its threads; any series, observations, facts, limits |

Each component's theorems rest on an inductive invariant, stated as a conjunction of
named parts. TLC checked it on the run's instance before it was proved; the step
is proved part by part, with a step per action. A listed theorem that names no
property of a run states a part of one that is, or a fact about the model that the
others rest on.

**`LLMGatewayProofs`** proves `TypeCorrect`, `PermitsConserved`,
`LedgerAccountsForAttempts`, `RetriesBounded`, `NothingOutlivesTheDeadline` and
`CancelledRequestsStayHome`. The type invariant is not inductive by itself:
`slots <= Workers` needs the permit accounting. So the base invariant is `Shape`
(types without the upper bound), and `SlotAccounting` is proved over it from one
lemma about counting, `MoveHolder`: moving one caller changes the number of
holders by the difference of the two places. `StepSettlesPermit` then says that
every action moves at most one caller and changes `slots` by the same amount.
`AttemptsInv` ties the attempt log, the retry rights and the unbooked attempts to
the caller's place; the ledger and the retry theorem both follow from it.
`InFlightWithinLimit` is inductive over `Shape` because a call in flight and the
deadline lose a tick together. `DoomedInv` says why a doomed request
is never sent: it has not passed admission, and its event stays set. `RetriesBounded`
and `CancelledRequestsStayHome` are not among the properties of a run: their
invariants are bounds on a log and on an outcome that the runs' other properties
already rest on.

The end of **`ValidatedCache`** proves `RejectedRepliesLeave`, `RevocationIsFinal` and
`RevocationsAreComplete`, the property of the run. That a rejected reply is gone
needs to know why nobody brings it back, hence the strengthening `IInv`: workers
with work left belong to a stage that is running or draining (`TeamInv`); a scope
has noted the key of everything its workers used or may still store (`NotedInv`); a
reply lies under its own key (`PlacedInv`); a reply exists only once its worker has
stored it in that round (`StoredInv`), so that a new reply is never one that was
rejected. `IInv` is preserved conjunct by conjunct, one lemma each with a step per
action.

**`AnalysisAttemptProofs`** proves the type invariant and all five properties of the
run `attempt`. `WorkerInv` and `StartInv` give one worker at a time: an attempt is
running exactly while a run is about to start its worker or the worker has not
ended, and a run claims only where nothing is running. `OutcomeInv` says what the
worker has written at each of its places, so that the last write, the state, finds
the others. `SnapInv` says that a copy of a finished attempt stays true of it. The
hard one is `NewestOutcomeShown`, since a run holding an older attempt may still be
alive: `NewestInv` says that if the newest run, the only one that may write, has an
older attempt at hand, nothing of the current attempt has been written yet; and
`ShownInv` that whatever runs have written of the current attempt agrees.
`PublishedIsRecorded` rests on `StoredInv`, that a run past its write of the cache
has a recorded result at hand, and on `OrderInv`: while the newest run holds an
attempt, neither a run that is writing nor what is published is newer than it, so
that its write replaces nothing newer.

**`EditorialPipelineProofs`** proves `PipelineTypes`, the four safety properties of
the run `pipeline` and `RunsHonourContract`: the runs implement `AnalysisRun`, each
step being one of its steps or a stutter. `DrainInv` follows the order of the two
closes; `AttachInv` says that a plan which is neither being attached nor given up
carries the introduction; `EvidenceInv` gives for every place of the caller, and for
the checkpoint it resumes, the evidence behind it, from which `Finish` delivers a
checkpoint that supports its retry; `LimitInv` keeps "limited" endings to runs whose
deadline has passed, without which a worker that was merely closed could end a run
as limited. `BriefInv` says that topics move only while there is no briefing;
`KeepInv` follows a timed-out report through its retry, in the retained result, the
session and the ending, up to the one ending that replaces it, the bare analysis. `TypeOK` is proved in parts because the two provers share the work: truth
values, and everything else.

**`BatchLemmas`** holds what both review pools need: the lower half of a batch of
two or more by rank is neither empty nor the whole (`HalvesNonempty`), and a stack
of disjoint batches stays one when its first batch is taken (`HeldTail`) or halved
(`HeldHalved`).

**`PublicationProofs`** has five parts. *The audit.* It proves the properties of
the run `publication` that are about the pool, `ApprovedOnce`,
`AcceptedForItsSources` and the action property `ApprovalsKept`, and beside them
`PassesAccount`. Why a measure is approved at most once: it is in one place at a
time, in an approved batch, on the stack of one thread, or in a queued group of
which only what earlier passes approved is approved (`PlaceInv`). Why a pass
without a failure may be aggregated: while no group has failed, no measure is
lost between these places (`AccountInv`); with `ThreadInv`, an ended pass has no
unfinished thread, and `SuccessfulPassesAccount` says that the refusal in
`aggregate_batches` is dead code for it. Why a record belongs to its sources:
each approval is at least as recent as the record's sources, and a pass holds
only approvals of the sources it started from (`RecordInv`). `SplitInv` keeps
resumed splits to batches that can be halved. The action property
`ApprovalsKept` follows from `RecordInv` and `Disjoint`: merging a partition
into the saved one drops nothing. For one batch, `DraftsJudgedOnce` proves
`NoSecondOpinion`: a draft that is put before a reviewer again is one whose
answer was malformed, and a pass keeps a draft for the next only where no answer
to it was read (`DraftInv`).

*The gates.* It proves the types of `PublicationGates` and the four properties
that are its part of `PublishedAsChecked`. `SettledInv` is the reason the
verdicts stay true: native preparation may change a plan once, and by the time
the completion check has compared the verdicts the deck is settled for either
kind of analysis, so measuring the final layout changes nothing that was judged
(`VerdictInv`). `BriefInv` follows the briefing: it is as old as the assurance
at every gate except between a discarded candidate and the next proposal, and
where there is none it is deferred or was found unavailable, which
`RequireBrief` turns into a failure. `PaidInv` counts the briefings by gate.

*The exports.* `ExportInv` proves the four properties of `ExportGates`, and with the
gates `PublicationChecked` proves the whole of `PublishedAsChecked`. `DeckInv` and
`BuildInv` are about the session's one deck: it is the deck of the key it is stored
under, and no gate fails for that key, so a deck taken from the cache is as sound as
one built now. `RunInv` says which gates an export has passed at each of its stages;
`DeckInv` that the deck is the current result's from its composition to its delivery, and that an
approved plan has been compared again by then. `EvidenceInv` is the exact statement of
what the evidence gate gives: critical evidence behind it is there by `force` without
an approval, or because composing prepared the result once more, which is the one
exception `ServedEvidenceSound` names; a deck from the cache is never such a case.

*The language.* `TranslationInv`: what a run translates is approved for its context,
and what it stored for a context it stored whole (`Approved`), so a run of another
language or other names that reuses the store starts from nothing. Because a string is
in one batch, an attempt at a batch moves strings of that batch alone, from what is
asked for to what is translated or lacking (`AttemptAccounts`, `BatchGivenUp`).

*The further sources.* `SourcesInv`. `KeptAsAccepted`, a lemma about the operator
`KeptDecisions`, is what a correction promises for any two drafts; `ReopenedAlone` says
that a round for reopened checks leaves the copy of the others, and
`TakenUpUnrejected` that a draft can be taken up only while no review of the run
rejected one. `FailedAttempt` bounds the attempts: the third never asks for a fourth.
`LaterReviewsChecked` combines both parts for `LaterReviewsHold`.

**`TopicReviewProofs`** proves the run `topic_review`. `SupportInv` ties acceptance,
approval and return to one thing, a draft that a reviewer supported as it is. The
omissions need the negative: that a topic is neither accepted nor unresolved must
mean that it was denied, although batches are truncated, halved, run out of budget
or are lost with their thread. `RoundInv` says where a topic without a verdict is, in
the queue or on a stack, so that a drained round has judged every topic unless a
thread raised; `DenialInv` carries this to the end. `CoverInv` gives for the second
review, over the committed topics, that no rewording touches their rows and that it
concludes with all of them accepted or fails. `TodoInv` and `AttemptInv` are the
bookkeeping of the rounds: only denied topics are reworded, and a batch is asked
twice at most, which is half of `TypeOK`, the bound on physical calls.

**`ContentProofs`** is about the three components that decide what is read and the seven
between the selected observations and the published copy; each has an inductive invariant
of its own.

- *Routes and further targets*: `ScopeInv`. The calls made, with three for every target that
  waits and what the check under way has left, stay within the limit (`CallsInv`); a check is
  added only apart from the route and the other checks, and a retry keeps the pages of what
  it reads again. That the fitted route is within the budget and leaves out only what would
  exceed it (`FitHolds`) needs the recursion of `FirstFit` by induction over the length
  (`Upwards`, from the least counterexample); that the spans of a route cover its pages
  without overlap is `SpansCover` and `SpansApart`.
- *Chunks*: `ChunkInv`. Every reading, and every value in the cache, is that of its whole
  fragment (`Whole`, `KeptWhole`), and the tasks a thread has left are ordered so that both
  halves are there when a merge comes (`Stacked`); hence a profile holds every chunk in full
  over any number of runs. A fragment that was cut off is marked as split in the cache
  (`SplitsMarked`), so no later run asks for it.
- *Pools*: `PoolInv`. What a batch was asked for and what is left of it are its items, in
  order (`AskedInFull`), which halving and answering keep; when every batch was taken, the
  joined answers hold every item once, in the order of the list (`BatchesHold`).
  `CauseInv` says that whoever was cancelled in a pool that shares failures has a failed
  sibling noted before it, so the failure that is raised is one that happened.

- *Introduction selection*: `ReviewInv`. A verdict that was read is of the selection as
  it stands until a correction replaces that selection, so what is accepted is what the
  last review read (`SelectionReviewed`). That a correction changes only parts and
  meanings that a finding names (`FoundMeaningsChange`) is proved for every
  form of it: edits, inclusions, additions, merges and reconsidered parts
  (`FindingsConcern`, `FindingsSourced`).
- *Drafting*: `LedgerInv`. When a draft has been judged, every part that was not
  rejected has the copy its ledger entry is of, so what is published was accepted in the
  form it has; `BudgetInv` counts the corrections of each kind.
- *Brief review*: `JoinInv`. While the caller waits for the context, it holds claims that
  are judged and have no verdict yet; so a verdict completed at the join has both halves
  and none is overwritten (`ReviewedByBoth`).
- *Briefing*: `BriefingInv`. Every candidate, patched, corrected or salvaged, is a sequence
  within the limit whose locked positions are its own. `Only`, which keeps some positions
  of a briefing, needs lemmas of its own: its length (`OnlySome`), and that keeping every
  position keeps the briefing (from `RankAll`): where nothing is wrong, what is published is
  the briefing, and what the reviewer read is this selection of it.
- *Reading*: `ReadInv`. What is read passed the check of the whole batch, so its parts
  cover it without overlap; what a targeted repair must leave alone does not touch what it
  asks for (`KeptApart`), so the repair joins both without losing a part.
- *Takeaways*: `ClaimInv`. The claims of a compiled plan are those of its topics, and a
  correction under way has seen the claim it corrects; then withholding, correcting and
  recompiling leave no claim unaccounted for (`ClaimsSettled`), and a withheld takeaway
  returns only with a new draft (`WithheldForGood`).
- *Coverage*: `CoverageInv`. While the deltas run and no thread has failed, a series without
  a decision is queued or in some thread's hands (`Accounted`), hence the ledger is
  complete when the pool has ended; while a ledger is reduced, what it includes is still
  held by the level or by what waits for it (`Held`), hence the merge is asked about all
  of it. The topics change in one step, with the ledger they agree with.

`ReadingChecked`, `PublishedReviewed`, `ReviewsBinding` and `CoverageStands` combine these
for the properties the run `content` names.

Out of the prover's reach, and left to TLC: `QueuedRequestEnds`, `RunEnds` and
`PassEnds` (liveness under fairness); what the folds and the recursive functions of
the algorithmic modules compute for every input (`SummaryLayout`, `TablePages`,
`CopyPages`, `TextGrids`, `RuledGrids`, `PlanChecks`, `TopicPages`, …). Model-checked
only: `DeckTrue` of the run `publication`;
`CellsKeepMeaning`, `TablesAccounted`, `ContentKept`, `ClaimsStand`
and `PagesShowTopics` of the run `content`. Their parts are the algorithms over sequences
named above.

## Disagreements found

1. **A partial attempt is repeated without being asked for**
   (`ui/app.py:201`, run `attempt_repeat`). A script run that passed the failure
   check and is in its cache lookup while another run publishes a *partial*
   attempt claims a second paid attempt: the second locked section refuses only
   after `failed` and `interrupted`. The documentation says that polling does not
   start another attempt. `QuietRunsRepeatOnlyPartials`, in `attempt`, says that
   this is the only case.
2. **An offered retry is refused** (`agent/analysis_time_limit.py:13`, run
   `pipeline_retry`). A run that times out before its calculations are complete is
   retained without a retry stage; the session offers it for a retry, and
   `_analyse_pdf` raises at once, every time.
3. **A phantom entry of the contents page** (`services/pptx_export.py:407`, run
   `contents`). "Coverage and limits" is listed when any draft was dropped, read
   before anything is drawn; the section is drawn only for a dropped draft whose
   evidence no page shows.
4. **An applied revision is lost** (`ui/finalization.py:59`, run `finalization`).
   Applying compares locks only. A rewrite that was waiting for the model while
   another proposal was applied replaces the draft by one made from the older
   draft, against the comment three lines above.
5. **A view rewrites an approved draft** (`ui/quality.py:9`, run `approved_draft`).
   The Data Quality view repairs the draft it is given. Afterwards every export,
   lock and revision refuses the draft as changed outside an approved revision.
6. **A repair makes a true claim false** (`validation/claim_validator.py:1033`, run
   `claim_repair`). For a loss that widened, "deteriorated" is replaced by
   "improved", which the validator does not flag.

## Peculiarities met while modelling

Behaviour of the code that the modules keep and that no document contradicts
clearly enough to call it an error. Where a property would be violated by one of
them, the property names it as an exception.

*Extraction.* Of a table that continues over three pages the first two parts are
joined, the third begins another. Every table of the next page is compared with the
first part alone, so one that states no periods takes in two tables with different
ones. Tiers of one year, which head a group of one column, and tiers of years with
attached prefixes (FY2023) do not part a group. A page that fails after its source
tables were retained keeps them. A borderless reading with a higher score replaces
the whole primary reading of a page, its ruled tables included.
`cell_unit_defaults` is documented never to search other body rows and searches
earlier standalone unit rows. Titles that end in a colon are joined with wrapped
labels (`ruled_source_tables.py:245-246` says otherwise).

*Copy.* A reduction that omits every proposal of a coverage review ends
"unresolved". A paginated topic shows its question in the summary as well. An
analysis slide without observations is skipped although the contents list it. A
failed localization run leaves the summary pieces of an earlier one, and the export
refuses. The budget of six requests for the recovery of a cut chunk equals its whole
tree of splits, so it never binds alone.

*Charts and claims.* Compositions are limited before they are deduplicated, so fewer
may be planned than there is room for. A requested series is checked for conflicts
among the requested observations only. A profit that rose under "loss narrowed"
becomes "loss expanded". A claim about the periods of two series may be repaired for
one and contradict the other. The repair of a plan drops the visual blocks of a slide it
merges and those after a slide's fourth (`presentation_plan_repairer.py:77`, `178-212`),
although their observations count as evidence elsewhere (147-149); it raises if the
first slide is a weak analysis slide (`section_id`, 183 and 198, is assigned at 227).

*Runs.* "Keep the more complete prior checkpoint until its replacement has been
validated" (`orchestrator.py:361`) holds until the run returns. A retry of a timed-out
report whose introduction has failed (350-355), or whose source reads are incomplete
(366), returns its bare analysis, which replaces the report, also if the deadline
passes in that moment; `TimedOutRetryKeepsReport` names this ending (`HandedBack`).
A script run that is superseded between its update of the session and its write of
the cache leaves an older complete result on disk.

*Plan checks.* The repairs of working capital and of causes substitute from the text
before the first of two matching patterns (`cross_slide_validator.py:229-254`,
`273-277`). Merging thin slides loses block-level insights and bullets beyond five;
a placeholder bullet that is removed later may take the last place. Topics are
checked before the layout is repaired, so a merged slide may block the *next*
export. A slide that took in a thin one may be split by the next export; its second part
keeps the message without the observations it states, and that export is blocked by
`presentation_plan_invalid_after_repair` (`qa_reporter.py:625-634`), though the first
one passed. Cutting the digits of an exact figure of five decimals or more leaves a
figure no observation has, which blocks a planned deck. `VerdictStands` names these. A slide of five charts needs two passes; a themed slide is never split.

*Export.* The label of a row is repeated in every column group. If it is longer than
the room of one and the headers of the groups differ in height, it is cut at
different places and the check of repeated cells (`requested_tables.py:285-287`)
refuses the deck, though no line is missing (`CutDifferently`). Composing prepares the result once more after its evidence was checked.
Preparing may change an approved draft, which is then refused. Two boxes moved by one
repair may meet. A shape that cannot be moved yields an action without effect. With
`force`, which the UI does not use, a later failure is diagnosed as financial.

## Not modelled

| Component | Why, and what stands for it |
|---|---|
| Retained-analysis selection | the strategy for native decks without a catalogue; `PublicationGates` has its final review |
| Periods, topics and metric names | pure recognition of words; the modules take the recognised period, topic or metric as given |
| Further validators (`topic_period_consistency.py`, `consistency_checker.py`) | wording of periods; their verdict is an outcome |
| Deterministic analysis tools | arithmetic on real-valued series, outside what TLC checks |
| Export preflight | edits of text in drawn shapes; its verdict is a gate of `ExportGates` |
| Offline rendering | a subprocess with a time limit around an external renderer |
| Deterministic caches | least-recently-used maps over pure functions |
| Model settings and costs, data models, user interface widgets | configuration, schemas, layout |

Partly modelled components say in `PROJECT.json` what is missing. The recurring
reason is the same: a text, a number or a geometry is parsed by rules that a model
would have to transliterate; the modules start from what was recognised.

## What is not shown

- Whether a review judges well, a translation is right or a number is parsed
  correctly. Verdicts, outcomes and versions are modelled, contents are not.
- Anything about the file system below one atomic replacement, about Streamlit
  beyond "stops at an access", or about the provider beyond "answers, fails or
  stays silent".
- That an attempt is eventually published: it depends on the browser polling.
- Interaction between the parts of one composite: they are checked next to each
  other, not against each other. What one hands to the next is an outcome there.
- The algorithms beyond their bounded inputs. `MCContent` and `MCPublication` name
  these inputs; they are families chosen to reach each rule and each pair of rules
  that meet, not all inputs.

## Plan

The order was: what every request passes (gateway, cache), what every run passes
(attempt, pipeline), what every publication passes (gates), the reviews the gates
depend on, then the algorithms between the document and the deck, in the order of
the lines they decide about. What is left, most valuable first:

1. Connect parts that are checked side by side: `TopicReview.Cover` as an abstract
   specification implemented by `CoverageDelta`; the gates of `ExportGates` with the
   passes of `PlanChecks`.
2. One abstract promise for the reviews, *accepted stays accepted until its inputs
   change*, which `AuditBatches`, `BriefReview`, `ReportTranslation` and
   `SourceIntegration` implement.
3. Export preflight as a sequence of edits over recognised phrases.
4. Proofs: the claims of slides (`DirectionClaims`) and the plan checks, whose folds would first have to become recursive functions.
