------------------------------ MODULE ExportGates ------------------------------
(***************************************************************************)
(* Exports of one result in a session (services/export.py and              *)
(* build_presentation of services/pptx_export.py, shown by                 *)
(* ui/deliverables.py).  Every script run exports again: the evidence is    *)
(* prepared and checked, a deck is built or taken from the session's cache *)
(* of one deck, and what was built is verified as it is rendered.  Between *)
(* exports the draft is approved, revised, or changed by the repairs of a  *)
(* view; an export may be interrupted wherever it reports progress.        *)
(*                                                                         *)
(* What a deck shows is the version of the plan and of the rest of the     *)
(* result it was composed from, and its style: template, artwork, source.  *)
(***************************************************************************)
EXTENDS Integers, FiniteSets

CONSTANTS
  Styles,
  Worlds,      \* sets of faults: a gate, and the plan, rest and style it fails for
  MaxPlan, MaxRest, MaxExports,  \* bounds: versions, exports of the session
  Unset

\* No version of the plan or the rest repairs the introduction, or breaks it: the
\* preparations of an export change topics, slides and notes.
ASSUME ExportAssumption ==
  /\ Styles # {} /\ MaxPlan \in Nat \ {0} /\ MaxRest \in Nat \ {0}
  /\ \A w \in Worlds : \A f \in w :
       f.gate = "introduction" =>
         \A p \in 0..MaxPlan, q \in 1..MaxRest :
           [gate |-> "introduction", plan |-> p, rest |-> q, style |-> f.style] \in w

VARIABLES
  exportPc,
  result,    \* the plan and the rest of the result, by version; plan 0 is missing
  approved,  \* the plan a finalization has approved, or Unset
  faults,
  run,       \* the export that runs or ran last
  build,     \* session: the deck built last, and what it was built from
  shown,     \* session: the deck verified last
  exports

exportVars == <<exportPc, result, approved, faults, run, build, shown, exports>>

NewRun(style, force) ==
  [style |-> style, force |-> force, qa |-> "none", narrowed |-> FALSE, hit |-> FALSE, deck |-> Unset,
   preflight |-> "none", visual |-> "none", outcome |-> "running", cause |-> "", stage |-> ""]

Fails(gate, r) == [gate |-> gate, plan |-> r.plan, rest |-> r.rest, style |-> run.style] \in faults
Critical(r) == r.plan = 0 \/ Fails("claims", r)
BlocksUnlessForced(r) == Critical(r) /\ ~run.force
Blocks(r) == Critical(r) /\ (~run.force \/ approved # Unset)

\* The cache key digests the whole result, the finalization it is in, and the style.
KeyOfPlan == [result |-> result.plan, approved |-> approved, style |-> run.style]
Key == [result |-> result, approved |-> approved, style |-> run.style]
StableUnlessForced == approved \in {Unset, result.plan} \/ run.force
Stable == approved \in {Unset, result.plan}

\* export_diagnostics: the stage an export stopped at.  Without a report of the
\* checks the result is checked again, on a copy.
StageOfEvidence(r) ==
  IF Fails("introduction", result) THEN "introduction"
  ELSE IF r.qa = "critical" \/ (r.qa = "none" /\ Critical(result)) THEN "financial"
  ELSE IF r.preflight = "failed" THEN "preflight"
  ELSE IF r.visual = "failed" THEN "rendering"
  ELSE "generation"
Stage(r) ==
  IF Fails("introduction", result) THEN "introduction"
  ELSE IF r.preflight = "failed" THEN "preflight"
  ELSE IF r.visual = "failed" THEN "rendering"
  ELSE IF r.qa = "critical" \/ (r.qa = "none" /\ Critical(result)) THEN "financial"
  ELSE "generation"

\* An error is blocked by a gate or a failure; it is shown with its stage and
\* without a deck.
Stop(r, outcome, cause) ==
  /\ exportPc' = "idle" /\ UNCHANGED <<approved, faults, build, shown, exports>>
  /\ run' = [r EXCEPT !.outcome = outcome, !.cause = cause, !.stage = Stage(r), !.deck = Unset]

Goto(next) == exportPc' = next /\ UNCHANGED <<approved, faults, build, shown, exports>>

\* Preparations that need no model may change the plan, or only what it rests on.
Prepared(r) ==
  {[plan |-> p, rest |-> q] : p \in {r.plan, r.plan + 1} \cap (IF r.plan = 0 THEN {0} ELSE 1..MaxPlan),
                              q \in {r.rest, r.rest + 1} \cap 1..MaxRest}
Revised(r) == {x \in Prepared(r) : x.rest = r.rest}

-----------------------------------------------------------------------------
(* One export *)

Start ==
  /\ exportPc = "idle" /\ exports < MaxExports /\ exports' = exports + 1
  /\ \E s \in Styles, f \in BOOLEAN : run' = NewRun(s, f)
  /\ exportPc' = "start" /\ UNCHANGED <<result, approved, faults, build, shown>>

RequireIntroduction ==
  /\ exportPc = "start" /\ UNCHANGED result
  /\ IF Fails("introduction", result) THEN Stop(run, "failed", "introduction")
     ELSE IF ~Stable THEN Stop(run, "failed", "unstable")
     ELSE Goto("recover") /\ UNCHANGED run

\* A missing plan is compiled again from the retained questions, if that works.
RecoverPlan ==
  /\ exportPc = "recover" /\ Goto("prepare") /\ UNCHANGED run
  /\ \/ UNCHANGED result
     \/ approved = Unset /\ result.plan = 0 /\ result' = [result EXCEPT !.plan = 1]

Prepare ==
  /\ exportPc = "prepare" /\ Goto("qa") /\ UNCHANGED run
  /\ result' \in Prepared(result)

\* The checks repair a draft, and report on an approved one.
CheckEvidence ==
  LET checked(r) == [run EXCEPT !.qa = IF Critical(r) THEN "critical" ELSE "passed"] IN
  /\ exportPc = "qa"
  /\ \E r \in (IF approved = Unset THEN Revised(result) ELSE {result}) :
       /\ result' = r
       /\ IF ~Stable THEN Stop(checked(r), "failed", "unstable")
          ELSE IF Blocks(r) THEN Stop(checked(r), "blocked", "financial")
          ELSE Goto("lookup") /\ run' = checked(r)

LookUp ==
  LET hit == build # Unset /\ build.key = Key IN
  /\ exportPc = "lookup" /\ UNCHANGED result
  /\ Goto(IF hit THEN "stable" ELSE "require")
  /\ run' = IF hit THEN [run EXCEPT !.hit = TRUE, !.deck = build.deck, !.preflight = "passed"] ELSE run

\* build_presentation: a finished analysis, its introduction verified here too,
\* whose reviews are those of its content.
RequireReviews ==
  /\ exportPc = "require" /\ UNCHANGED result
  /\ IF Fails("introduction", result) THEN Stop(run, "failed", "introduction")
     ELSE IF Fails("reviews", result) THEN Stop(run, "failed", "reviews")
     ELSE Goto("compose") /\ UNCHANGED run

\* Preparing once more, composing the planned slides, and the reviews again.
ComposeReviewed ==
  /\ exportPc = "compose" /\ result' \in Prepared(result)
  /\ LET deck == [plan |-> result'.plan, rest |-> result'.rest, style |-> run.style]
         r    == [run EXCEPT !.deck = deck, !.narrowed = result' # result]
     IN  IF Fails("plan", result') THEN Stop(r, "failed", "plan") ELSE Goto("preflight") /\ run' = r
Compose ==
  /\ exportPc = "compose" /\ result' \in Prepared(result)
  /\ LET deck == [plan |-> result'.plan, rest |-> result'.rest, style |-> run.style]
         r    == [run EXCEPT !.deck = deck, !.narrowed = result' # result]
     IN  IF Fails("plan", result') THEN Stop(r, "failed", "plan")
         ELSE IF Fails("reviews", result') THEN Stop(r, "failed", "reviews")
         ELSE Goto("preflight") /\ run' = r

\* The deck holds the introduction, then passes the preflight, which also
\* corrects it, then holds the introduction still, and the requested tables,
\* budgets, geometry, brand and language.
CheckDeck ==
  /\ exportPc = "preflight" /\ UNCHANGED result
  /\ IF Fails("preflight", result) THEN Stop([run EXCEPT !.preflight = "failed"], "blocked", "preflight")
     ELSE IF Fails("deck", result) THEN Stop([run EXCEPT !.preflight = "passed"], "failed", "deck")
     ELSE Goto("stable") /\ run' = [run EXCEPT !.preflight = "passed"]

RequireStable ==
  /\ exportPc = "stable" /\ UNCHANGED result
  /\ IF Stable THEN Goto("verify") /\ UNCHANGED run ELSE Stop(run, "failed", "unstable")

\* verify_presentation, with the deck it verified last.
Verify ==
  /\ exportPc = "verify" /\ UNCHANGED result
  /\ \/ shown # run.deck /\ Stop([run EXCEPT !.visual = "failed"], "blocked", "rendering")
     \/ /\ exportPc' = "store" /\ shown' = run.deck /\ run' = [run EXCEPT !.visual = "passed"]
        /\ UNCHANGED <<approved, faults, build, exports>>

Store ==
  /\ exportPc = "store" /\ exportPc' = "idle"
  /\ build' = [key |-> Key, deck |-> run.deck]
  /\ run' = [run EXCEPT !.outcome = "ready"]
  /\ UNCHANGED <<result, approved, faults, shown, exports>>

\* The user's next action stops the script where it reports progress.
Interrupt ==
  /\ exportPc \in {"recover", "lookup", "verify"} /\ exportPc' = "idle"
  /\ run' = [run EXCEPT !.outcome = "interrupted", !.deck = Unset]
  /\ UNCHANGED <<result, approved, faults, build, shown, exports>>

-----------------------------------------------------------------------------
(* Between exports *)

\* A draft is approved, or an approved one revised (ui/finalization.py).
ApproveDraft ==
  /\ exportPc = "idle" /\ exports > 0 /\ result.plan > 0 /\ Stable
  /\ \E r \in Revised(result) : result' = r /\ approved' = r.plan
  /\ run' = [run EXCEPT !.outcome = "revised", !.deck = Unset]
  /\ UNCHANGED <<exportPc, faults, build, shown, exports>>

\* The Data Quality view repairs what it shows (ui/quality.py).
ShowQuality ==
  /\ exportPc = "idle" /\ exports > 0
  /\ result' \in Revised(result)
  /\ run' = [run EXCEPT !.outcome = "revised", !.deck = Unset]
  /\ UNCHANGED <<exportPc, approved, faults, build, shown, exports>>

ExportInit ==
  /\ exportPc = "idle" /\ approved = Unset /\ faults \in Worlds /\ exports = 0
  /\ result \in {[plan |-> p, rest |-> 1] : p \in {0, 1}}
  /\ run = [NewRun(CHOOSE s \in Styles : TRUE, FALSE) EXCEPT !.outcome = "none"]
  /\ build = Unset /\ shown = Unset

ExportNext ==
  \/ Start \/ RequireIntroduction \/ RecoverPlan \/ Prepare \/ CheckEvidence \/ LookUp \/ RequireReviews
  \/ Compose \/ CheckDeck \/ RequireStable \/ Verify \/ Store \/ Interrupt \/ ApproveDraft \/ ShowQuality

ExportSpec == ExportInit /\ [][ExportNext]_exportVars

-----------------------------------------------------------------------------
(* Properties *)

Served == run.outcome = "ready"
Current == [plan |-> result.plan, rest |-> result.rest, style |-> run.style]

\* A deck is served as the result is now, in the style asked for, and no gate of
\* the build fails for it, wherever it comes from and whatever was forced.
ServedIsCurrent ==
  Served => /\ run.deck = Current
           /\ \A g \in {"introduction", "reviews", "plan", "preflight", "deck"} : ~Fails(g, result)

\* An approved draft is served as it was approved, or not at all.
ApprovedServedAsApproved == Served => approved \in {Unset, run.deck.plan}

\* The evidence of a served deck is sound, unless a draft was forced (an approved
\* one cannot be) or the composition itself prepared the result once more, after
\* it was checked; a deck that is served again has been checked as it is.
ServedEvidenceSound ==
  (Served /\ Critical(result)) =>
    \/ run.force /\ approved = Unset
    \/ run.narrowed /\ ~run.hit

\* The diagnosis names the gate that stopped the export.
DiagnosisNamesCause ==
  run.cause \in {"introduction", "preflight", "rendering", "financial"} => run.stage = run.cause
=============================================================================
