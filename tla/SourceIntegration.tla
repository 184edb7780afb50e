--------------------------- MODULE SourceIntegration ---------------------------
(***************************************************************************)
(* Supplementary sources against the final conclusions                       *)
(* (agent/source_integration_review.py).  A writer binds every check to      *)
(* conclusions, old or added; Python keeps what the last review accepted     *)
(* (source_integration_bindings.py) and validates; a reviewer judges the     *)
(* whole.  One semantic correction, one correction of format, one shortening *)
(* of overlong copy (source_integration_copy.py) and one round for sections  *)
(* the review reopened share three attempts.  A later run of the report may  *)
(* take up a draft no reviewer rejected.                                     *)
(***************************************************************************)
EXTENDS Integers, Sequences, FiniteSets, Functions

CONSTANTS
  Checks,        \* number of supplementary checks
  BriefItems,    \* conclusions of the brief itself
  Cited,         \* bound: the sets of them a writer binds each check to
  MaxAdditions,  \* bound: conclusions a writer adds; shortening may split one more off
  MaxSourceRuns  \* bound: runs of the report

VARIABLES
  sourcesPc,
  sourceRuns,
  sourceAttempt,
  integration,    \* conclusions each check is bound to, and the copy of each addition
  judgedDraft,    \* the last judged draft, and the checks its review accepted
  preserved,      \* checks whose accepted decision this draft keeps
  reopened,       \* checks to revise alone
  shortened,      \* this attempt shortened copy
  formatUsed,     \* the correction of a review's format was used
  recovered,      \* the draft is that of an earlier run
  latestDraft,    \* the last valid draft of the run
  objections,     \* reviewers' objections reach the next run
  copiesWritten,  \* copies written so far
  rejectedDrafts  \* history: drafts of the run a review rejected, and a recovered one

sourcesVars == <<sourcesPc, sourceRuns, sourceAttempt, integration, judgedDraft, preserved,
                 reopened, shortened, formatUsed, recovered, latestDraft, objections,
                 copiesWritten, rejectedDrafts>>

Sections == 1..Checks
NoDraft == [bind |-> [s \in Sections |-> {}], copy |-> <<0>>]
NoPrior == [draft |-> NoDraft, accepted |-> {}]

\* The conclusions of the brief are 0, -1, -2..., the additions are 1, 2...
Originals == {1 - i : i \in 1..BriefItems}
Additions(d, s) == d.bind[s] \ Originals

\* Every addition is bound; a draft that is not valid is refused by _validate.
ValidDraft(d) == UNION {Additions(d, s) : s \in Sections} = DOMAIN d.copy

-----------------------------------------------------------------------------
(* What a correction keeps *)

\* An accepted check may gain conclusions of the brief, nothing else.
SameBinding(old, new) ==
  \/ new = old
  \/ old \ Originals # {} /\ old \subseteq new /\ new \ old \subseteq Originals

\* Mutant: an addition that another check also rests on is restored.
RestorableShared(old, new, s) ==
  /\ s \in old.accepted /\ SameBinding(old.draft.bind[s], new.bind[s])
  /\ Additions(old.draft, s) \subseteq DOMAIN new.copy

Restorable(old, new, s) ==
  /\ s \in old.accepted /\ SameBinding(old.draft.bind[s], new.bind[s])
  /\ Additions(old.draft, s) \subseteq DOMAIN new.copy
  /\ \A d \in {old.draft, new} : \A t \in Sections \ {s} : Additions(old.draft, s) \cap d.bind[t] = {}

\* keep_accepted_dispositions.  What is restored of a check neither adds nor removes an
\* addition that another check rests on, so the order of the checks does not matter.
KeptDecisions(old, new) ==
  LET same     == {s \in Sections : Restorable(old, new, s)}
      restored == UNION {Additions(old.draft, s) : s \in same}
      binding  == [s \in Sections |-> IF s \in same THEN old.draft.bind[s] ELSE new.bind[s]]
      text     == [i \in DOMAIN new.copy |-> IF i \in restored THEN old.draft.copy[i] ELSE new.copy[i]]
  IN  [draft |-> [bind |-> binding, copy |-> text], kept |-> same]

-----------------------------------------------------------------------------
EndUnresolved == sourcesPc' = "unresolved"

\* The next attempt: the checks the review reopened, overlong copy, or the whole draft.
ContinueWith(next) ==
  /\ sourcesPc' = IF sourceAttempt = 2 THEN "fell_through" ELSE next
  /\ sourceAttempt' = sourceAttempt + 1

\* Mutant: every rejected review is corrected.
CorrectsAlways(judged) == TRUE

\* Without a draft judged for its meaning, an attempt is corrected once.
Corrects(judged) == sourceAttempt = 0 \/ reopened' # {} \/ (sourceAttempt = 1 /\ shortened /\ judged)

FailAttempt(judged) ==
  IF Corrects(judged) THEN ContinueWith(IF reopened' # {} THEN "reopen" ELSE "write")
  ELSE EndUnresolved /\ UNCHANGED sourceAttempt

\* A copy a writer returns: new, or that of the judged draft.
Copies(n) ==
  [1..n -> {copiesWritten + 1} \cup (Range(judgedDraft.draft.copy) \ {0})]

Drafts ==
  {d \in UNION {[bind : [Sections -> SUBSET (Originals \cup 1..n)], copy : Copies(n)] : n \in 0..MaxAdditions} :
     ValidDraft(d) /\ \A s \in Sections : d.bind[s] \cap Originals \in Cited[s]}

\* Mutant: the last valid draft is taken up whatever a reviewer said of it.
TakesUpAny(same) == same = "all" /\ latestDraft # NoDraft

\* Objections of a review reach the writer of the next run with the same sources; a draft
\* is taken up again only when there are none and the brief is the same.
TakesUp(same) == same = "all" /\ latestDraft # NoDraft /\ ~objections

BeginSources ==
  /\ sourcesPc \in {"idle", "unresolved"} /\ sourceRuns < MaxSourceRuns
  /\ sourceRuns' = sourceRuns + 1 /\ sourceAttempt' = 0
  /\ judgedDraft' = NoPrior /\ latestDraft' = NoDraft /\ preserved' = {} /\ reopened' = {}
  /\ shortened' = FALSE /\ formatUsed' = FALSE
  /\ \E same \in {"all", "sources", "none"} :
       /\ objections' = (objections /\ same # "none")
       /\ recovered' = TakesUp(same)
       /\ IF TakesUp(same)
          THEN sourcesPc' = "bind" /\ integration' = latestDraft /\ UNCHANGED copiesWritten
          ELSE sourcesPc' = "write" /\ integration' = NoDraft /\ copiesWritten' = 0
  /\ rejectedDrafts' = rejectedDrafts \cap {integration'}

\* A source that was not read, or a context past its bound: no attempt is made and
\* nothing of the earlier run is carried.
RefuseSources ==
  /\ sourcesPc \in {"idle", "unresolved"} /\ sourceRuns < MaxSourceRuns /\ sourceRuns' = sourceRuns + 1
  /\ EndUnresolved /\ latestDraft' = NoDraft /\ objections' = FALSE /\ rejectedDrafts' = {}
  /\ UNCHANGED <<sourceAttempt, integration, judgedDraft, preserved, reopened, shortened,
                 formatUsed, recovered, copiesWritten>>

WriteIntegration ==
  /\ sourcesPc = "write"
  /\ shortened' = FALSE /\ recovered' = FALSE /\ reopened' = {} /\ preserved' = {}
  /\ \/ /\ integration' \in Drafts /\ sourcesPc' = "bind" /\ copiesWritten' = copiesWritten + 1
        /\ UNCHANGED sourceAttempt
     \/ /\ sourceAttempt = 0 \/ (sourceAttempt = 1 /\ judgedDraft # NoPrior)  \* only its copy is too long
        /\ integration' \in {d \in Drafts : d.copy # <<>>}
        /\ copiesWritten' = copiesWritten + 1 /\ ContinueWith("shorten")
     \/ /\ integration' = NoDraft /\ UNCHANGED copiesWritten  \* an answer of another form, or none
        /\ \/ sourceAttempt = 0 /\ ContinueWith("write")
           \/ EndUnresolved /\ UNCHANGED sourceAttempt
  /\ UNCHANGED <<sourceRuns, judgedDraft, formatUsed, latestDraft, objections, rejectedDrafts>>

\* shorten_additions: overlong copy is rewritten; a finding of one check may become two.
Shorten ==
  /\ sourcesPc = "shorten"
  /\ \/ /\ \E long \in SUBSET DOMAIN integration.copy \ {{}} : \E split \in {0} \cup long :
             LET owners == {s \in Sections : split \in integration.bind[s]}
                 shorter == [i \in DOMAIN integration.copy |->
                               IF i \in long THEN copiesWritten + 1 ELSE integration.copy[i]]
             IN /\ split = 0 \/ (Cardinality(owners) = 1 /\ Len(shorter) <= MaxAdditions)
                /\ integration' = IF split = 0 THEN [integration EXCEPT !.copy = shorter]
                            ELSE [bind |-> [s \in Sections |-> integration.bind[s] \cup
                                              (IF s \in owners THEN {Len(shorter) + 1} ELSE {})],
                                  copy |-> Append(shorter, copiesWritten + 1)]
        /\ shortened' = TRUE /\ copiesWritten' = copiesWritten + 1 /\ sourcesPc' = "bind"
     \/ EndUnresolved /\ UNCHANGED <<integration, shortened, copiesWritten>>
  /\ UNCHANGED <<sourceRuns, sourceAttempt, judgedDraft, preserved, reopened, formatUsed,
                 recovered, latestDraft, objections, rejectedDrafts>>

\* revise_reopened_additions: new copy for the additions those checks alone rest on.
Reopen ==
  /\ sourcesPc = "reopen"
  /\ LET targets == UNION {Additions(judgedDraft.draft, s) : s \in reopened}
         others == UNION {Additions(judgedDraft.draft, s) : s \in Sections \ reopened}
     IN \/ /\ targets # {} /\ targets \cap others = {}
           /\ integration' = [judgedDraft.draft EXCEPT !.copy =
                                [i \in DOMAIN @ |-> IF i \in targets THEN copiesWritten + 1 ELSE @[i]]]
           /\ copiesWritten' = copiesWritten + 1 /\ sourcesPc' = "bind"
        \/ EndUnresolved /\ UNCHANGED <<integration, copiesWritten>>
  /\ shortened' = FALSE
  /\ UNCHANGED <<sourceRuns, sourceAttempt, judgedDraft, preserved, reopened, formatUsed,
                 recovered, latestDraft, objections, rejectedDrafts>>

\* Accepted decisions are restored, then the draft is validated.
BindDraft ==
  /\ sourcesPc = "bind"
  /\ LET result == KeptDecisions(judgedDraft, integration)
     IN \/ /\ ValidDraft(result.draft) /\ sourcesPc' = "review"
           /\ integration' = result.draft /\ latestDraft' = result.draft
           /\ preserved' = result.kept /\ UNCHANGED <<sourceAttempt, reopened>>
        \/ /\ integration' = NoDraft /\ preserved' = {} /\ reopened' = {}  \* a quotation or binding is wrong
           /\ FailAttempt(FALSE) /\ UNCHANGED latestDraft
  /\ UNCHANGED <<sourceRuns, judgedDraft, shortened, formatUsed, recovered, objections,
                 copiesWritten, rejectedDrafts>>

\* A check kept unchanged and rejected only after another changed is revised once alone.
Reopens(refused) ==
  IF sourceAttempt = 1 /\ refused \subseteq preserved /\ integration.copy # judgedDraft.draft.copy
  THEN refused ELSE {}

ReviewIntegration ==
  /\ sourcesPc = "review"
  /\ \/ /\ sourcesPc' = "accepted"
        /\ UNCHANGED <<sourceAttempt, judgedDraft, reopened, formatUsed, objections, rejectedDrafts>>
     \/ \E refused \in (SUBSET Sections) \ {{}} :
          /\ reopened' = Reopens(refused)
          /\ judgedDraft' = [draft |-> integration, accepted |-> Sections \ refused]
          /\ objections' = TRUE /\ rejectedDrafts' = rejectedDrafts \cup {integration}
          /\ FailAttempt(TRUE) /\ UNCHANGED formatUsed
     \/ /\ ~formatUsed /\ formatUsed' = TRUE
        /\ UNCHANGED <<sourcesPc, sourceAttempt, judgedDraft, reopened, objections, rejectedDrafts>>
     \/ /\ EndUnresolved    \* its format again, its length, or the transport
        /\ UNCHANGED <<sourceAttempt, judgedDraft, reopened, formatUsed, objections, rejectedDrafts>>
  /\ UNCHANGED <<sourceRuns, integration, preserved, shortened, recovered, latestDraft,
                 copiesWritten>>

SourcesInit ==
  /\ sourcesPc = "idle" /\ sourceRuns = 0 /\ sourceAttempt = 0
  /\ integration = NoDraft /\ judgedDraft = NoPrior /\ preserved = {} /\ reopened = {}
  /\ shortened = FALSE /\ formatUsed = FALSE /\ recovered = FALSE
  /\ latestDraft = NoDraft /\ objections = FALSE /\ copiesWritten = 0 /\ rejectedDrafts = {}

SourcesNext ==
  \/ BeginSources \/ RefuseSources \/ WriteIntegration \/ Shorten \/ Reopen
  \/ BindDraft \/ ReviewIntegration

SourcesSpec == SourcesInit /\ [][SourcesNext]_sourcesVars

-----------------------------------------------------------------------------
(* A decision that is kept is the accepted one, with its copy, and nothing else     *)
(* rests on that copy: keeping it restores no copy a review rejected.  A round for  *)
(* reopened checks leaves the copy of the others.                                   *)
AcceptedDecisionsKept ==
  sourcesPc = "review" =>
    /\ \A s \in preserved :
         /\ s \in judgedDraft.accepted /\ integration.bind[s] = judgedDraft.draft.bind[s]
         /\ \A i \in Additions(integration, s) :
              /\ integration.copy[i] = judgedDraft.draft.copy[i]
              /\ \A t \in Sections \ {s} : i \notin judgedDraft.draft.bind[t] \cup integration.bind[t]
    /\ reopened # {} =>
         \A s \in Sections \ reopened :
           \A i \in Additions(judgedDraft.draft, s) : integration.copy[i] = judgedDraft.draft.copy[i]

(* A draft of an earlier run that a reviewer rejected is never put to another.      *)
RejectedNotResubmitted == sourcesPc = "review" /\ recovered => integration \notin rejectedDrafts

(* Three attempts always end with a verdict or as unresolved: the review never ends *)
(* without a briefing.                                                              *)
AttemptsEnd == sourcesPc # "fell_through"
=============================================================================
