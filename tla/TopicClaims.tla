------------------------------ MODULE TopicClaims ------------------------------
(***************************************************************************)
(* The takeaways of the selected topics, from their validation to the deck.   *)
(* A topic whose optional claim fails keeps its question; a claim that cannot  *)
(* be bound to unique evidence is withheld on its pages and in the summary,    *)
(* durably, and two corrections may replace it (agent/topic_selection_repair,  *)
(* agent/presentation_topic_scope_recovery, agent/topic_takeaway_repair,       *)
(* agent/presentation_topic_audit_recovery).                                   *)
(***************************************************************************)
EXTENDS Integers, FiniteSets

CONSTANTS
  Topics,
  Claims,   \* takeaways a model may write about a topic
  Invalid,  \* those that fail the validation of their topic
  Loose,    \* those whose scope may not be unique
  Wrong     \* those that contradict their evidence

VARIABLES
  claimsPc,
  kinds,     \* topics: of another page range, unusable, ambiguous question, paginated
  owned,     \* topics whose summary finding identifies them
  kept,      \* topics of the selection
  takeaway,  \* their takeaways; NoTakeaway where there is none
  drafts,    \* audited first drafts of rejected topics
  bindable,  \* loose takeaways that the evidence of the deck binds now
  plan,
  trying,    \* the topic under correction, the takeaways seen and attempts left
  repaired   \* topics whose correction has ended

claimsVars == <<claimsPc, kinds, owned, kept, takeaway, drafts, bindable, plan, trying, repaired>>

NoTakeaway == "none"
Asked == "question"         \* the selected question
Plain == "neutral"          \* the neutral question
Fixed == "fixed"            \* wording of a deterministic correction

\* The texts a compiler or a correction writes are no takeaway of a model.
ASSUME ClaimsAssumption == Loose \subseteq Claims /\ Claims \cap {Asked, Plain, Fixed} = {}

NoPlan == [topics |-> {}, title |-> <<>>, bullet |-> <<>>, marks |-> {}]
Idle   == [topic |-> NoTakeaway, seen |-> {}, left |-> 0]
Mark(t, c) == [topic |-> t, claim |-> c]
Withheld(p) == {m.topic : m \in p.marks}

-----------------------------------------------------------------------------
(* The claims a plan shows; a text is judged alike on the pages and in the summary *)

Fault(t, text) ==
  CASE text \in Wrong -> "wrong"
    [] text \in Loose \ bindable -> "loose"
    [] text = Asked /\ t \in kinds.ambiguous -> "loose"
    [] OTHER -> "none"

Shown(p) ==
  [where : {"title"}, topic : p.topics] \cup [where : {"bullet"}, topic : p.topics]
Text(p, x) == IF x.where = "title" THEN p.title[x.topic] ELSE p.bullet[x.topic]
Errors(p) ==
  {[at |-> x, text |-> Text(p, x), fault |-> Fault(x.topic, Text(p, x))] :
     x \in {y \in Shown(p) : Fault(y.topic, Text(p, y)) # "none"}}

\* The topic an error is about: a summary finding may not identify one.
Affected(p) ==
  {e.at.topic : e \in {f \in Errors(p) : f.fault = "loose" /\ (f.at.where = "title" \/ f.at.topic \in owned)}}

\* Their pages, and the findings they own, show this text instead.
Replaced(p, ts, text) ==
  [p EXCEPT !.title = [t \in p.topics |-> IF t \in ts THEN text ELSE @[t]],
            !.bullet = [t \in p.topics |-> IF t \in ts \cap owned THEN text ELSE @[t]]]

\* The takeaway is withdrawn to its question, and an ambiguous question to a neutral
\* one; no error may be added.
Recovered(p) ==
  LET ts == Affected(p)
      asked == [Replaced(p, ts, Asked) EXCEPT !.marks = @ \cup {Mark(t, takeaway[t]) : t \in ts}]
      still == Affected(asked) \cap ts
      result == Replaced(asked, still, Plain)
  IN IF ts # {} /\ Errors(result) \subseteq Errors(p) /\ Errors(result) # Errors(p) THEN result ELSE p

\* Mutant: what the recovery returns is not validated again.
ValidatedOnce(p) == IF Errors(p) = {} \/ Recovered(p) # p THEN {Recovered(p)} ELSE {}

\* A deterministic correction may have reworded some failing texts before; what
\* fails after the recovery fails the plan.
Validated(p) == {r \in {p, Recovered(p)} : Errors(r) = {}}

Corrected(p) ==
  {[p EXCEPT !.title = [t \in p.topics |-> IF [where |-> "title", topic |-> t] \in s THEN Fixed ELSE @[t]],
             !.bullet = [t \in p.topics |-> IF [where |-> "bullet", topic |-> t] \in s THEN Fixed ELSE @[t]]] :
     s \in SUBSET {e.at : e \in Errors(p)}}

-----------------------------------------------------------------------------
(* Compilation *)

\* Mutant: the marks of the plan before are not carried over.
CarriedAnew(marks, topics, take) == {}

\* A mark is kept until its topic has another takeaway.
Carried(marks, topics, take) == {m \in marks : m.topic \in topics => take[m.topic] = m.claim}

\* A marked or paginated topic shows its question, on its pages and in the summary.
Drawn(topics, take, marks) ==
  LET text == [t \in topics |-> IF t \in {m.topic : m \in marks} \cup kinds.paged \/ take[t] = NoTakeaway
                                THEN Asked ELSE take[t]]
  IN [topics |-> topics, title |-> text, bullet |-> text, marks |-> marks]

Compilations(topics, take, marks) ==
  UNION {Validated(p) : p \in Corrected(Drawn(topics, take, Carried(marks, topics, take)))}

-----------------------------------------------------------------------------
(* Selection *)

SoundClaim(t, c) == c \notin Invalid /\ t \notin kinds.foreign \cup kinds.unusable

\* A correction keeps the topic's series, and cannot repair their pages; else the
\* optional claim goes, and a topic that fails without one is dropped.
Kept(t, c) ==
  IF SoundClaim(t, c) THEN {c}
  ELSE IF t \in kinds.foreign \cup kinds.unusable THEN {}
  ELSE {NoTakeaway} \cup (Claims \ Invalid)

Select ==
  /\ claimsPc = "selecting"
  /\ \E draft \in [Topics -> Claims] :
       /\ kept' = {t \in Topics : Kept(t, draft[t]) # {}}
       /\ takeaway' \in {f \in [Topics -> Claims \cup {NoTakeaway}] :
                           \A t \in Topics : f[t] \in (IF t \in kept' THEN Kept(t, draft[t]) ELSE {NoTakeaway})}
       /\ drafts' = [t \in {u \in Topics : ~SoundClaim(u, draft[u])} |-> draft[t]]
  /\ kept' # {} /\ claimsPc' = "compiling"
  /\ UNCHANGED <<kinds, owned, bindable, plan, trying, repaired>>

Compile ==
  /\ claimsPc = "compiling"
  /\ LET results == Compilations(kept, takeaway, plan.marks)
     IN \/ \E p \in results : plan' = p /\ claimsPc' = "compiled"
        \/ results = {} /\ claimsPc' = "resting" /\ UNCHANGED plan
  /\ UNCHANGED <<kinds, owned, kept, takeaway, drafts, bindable, trying, repaired>>

-----------------------------------------------------------------------------
(* Correction of withheld takeaways: two attempts each *)

AskTopic ==
  /\ claimsPc = "compiled" /\ trying = Idle
  /\ \E t \in (Withheld(plan) \cap kept) \ repaired :
       trying' = [topic |-> t, seen |-> {takeaway[t]}, left |-> 2]
  /\ UNCHANGED <<claimsPc, kinds, owned, kept, takeaway, drafts, bindable, plan, repaired>>

Spend(c) == trying' = [trying EXCEPT !.left = @ - 1, !.seen = @ \cup {c}]

\* A proposal counts once the source review accepted it and the deck compiles with
\* it: the takeaway is shown, and no other one was withheld for it.
Correct ==
  /\ claimsPc = "compiled" /\ trying # Idle /\ trying.left > 0
  /\ LET t == trying.topic
         marks == {m \in plan.marks : m.topic # t}
     IN \E c \in Claims \ {NoTakeaway} :
          \/ Spend(c) /\ UNCHANGED <<plan, takeaway, repaired>>
          \/ /\ c \notin trying.seen /\ c \notin Invalid
             /\ LET take == [takeaway EXCEPT ![t] = c]
                IN \E p \in Compilations(kept, take, marks) :
                     /\ t \notin Withheld(p) /\ Withheld(p) \subseteq Withheld(plan)
                     /\ plan' = p /\ takeaway' = take
             /\ trying' = Idle /\ repaired' = repaired \cup {t}
  /\ UNCHANGED <<claimsPc, kinds, owned, kept, drafts, bindable>>

GiveUpTopic ==
  /\ trying # Idle /\ trying.left = 0
  /\ trying' = Idle /\ repaired' = repaired \cup {trying.topic}
  /\ UNCHANGED <<claimsPc, kinds, owned, kept, takeaway, drafts, bindable, plan>>

Settle ==
  /\ claimsPc = "compiled" /\ trying = Idle /\ (Withheld(plan) \cap kept) \subseteq repaired
  /\ claimsPc' = "resting"
  /\ UNCHANGED <<kinds, owned, kept, takeaway, drafts, bindable, plan, trying, repaired>>

-----------------------------------------------------------------------------
(* A retained result *)

\* Its evidence may bind other claims than before.
Reopen ==
  /\ claimsPc = "resting" /\ claimsPc' = "reopened" /\ bindable' \in SUBSET Loose
  /\ UNCHANGED <<kinds, owned, kept, takeaway, drafts, plan, trying, repaired>>

\* Rejected drafts that were of another page range come back as they were written;
\* everything withheld stays so.  A failure leaves the result as it was.
RecoverDrafts ==
  /\ claimsPc = "reopened"
  /\ LET back == {t \in (DOMAIN drafts) \ kept : drafts[t] \notin Invalid /\ t \notin kinds.unusable}
         topics == kept \cup back
         take == [t \in Topics |-> IF t \in back THEN drafts[t] ELSE takeaway[t]]
     IN /\ back # {}
        /\ \/ \E p \in Compilations(topics, take, {}) :
                LET all == p.marks \cup plan.marks
                    redrawn == [Drawn(topics, take, all) EXCEPT
                                  !.title = [t \in topics |-> IF t \in {m.topic : m \in all} THEN Asked ELSE p.title[t]],
                                  !.bullet = [t \in topics |-> IF t \in {m.topic : m \in all} THEN Asked ELSE p.title[t]]]
                IN \E q \in UNION {Validated(r) : r \in Corrected(redrawn)} :
                     plan' = q /\ kept' = topics /\ takeaway' = take
           \/ UNCHANGED <<plan, kept, takeaway>>
  /\ claimsPc' = "closed"
  /\ UNCHANGED <<kinds, owned, drafts, bindable, trying, repaired>>

\* A missing or degraded plan is compiled again from the retained questions.
Recompile ==
  /\ claimsPc = "reopened"
  /\ \/ \E p \in Compilations(kept, takeaway, plan.marks) : plan' = p
     \/ UNCHANGED plan
  /\ claimsPc' = "closed"
  /\ UNCHANGED <<kinds, owned, kept, takeaway, drafts, bindable, trying, repaired>>

ClaimsInit ==
  /\ claimsPc = "selecting" /\ kept = {} /\ takeaway = [t \in Topics |-> NoTakeaway] /\ drafts = <<>>
  /\ kinds \in [foreign : SUBSET Topics, unusable : {{}}, ambiguous : SUBSET Topics, paged : {{}}]
       \cup [foreign : {{}}, unusable : SUBSET Topics, ambiguous : {{}}, paged : SUBSET Topics]
  /\ owned \in SUBSET Topics
  /\ bindable = {} /\ plan = NoPlan /\ trying = Idle /\ repaired = {}

ClaimsNext == Select \/ Compile \/ AskTopic \/ Correct \/ GiveUpTopic \/ Settle \/ Reopen \/ RecoverDrafts \/ Recompile

ClaimsSpec == ClaimsInit /\ [][ClaimsNext]_claimsVars

-----------------------------------------------------------------------------
(* When a plan is made, no text it shows fails its checks, no withheld takeaway is   *)
(* shown, and a takeaway that is not shown is accounted for: it was withheld,       *)
(* reworded, or its topic has several pages.                                        *)
ClaimsAccounted ==
  claimsPc = "compiled" =>
    /\ Errors(plan) = {}
    /\ \A t \in plan.topics :
         /\ \A m \in plan.marks : m.topic = t => m.claim \notin {plan.title[t], plan.bullet[t]}
         /\ takeaway[t] \in {NoTakeaway, plan.title[t]} \/ t \in Withheld(plan) \cup kinds.paged \/ plan.title[t] = Fixed

(* A takeaway that was withheld is not shown by any later plan while it is the        *)
(* topic's takeaway, even where its evidence would bind it now ("Never restore the   *)
(* rejected takeaway", agent/presentation_summary_selection.py:100).                 *)
StaysWithheld ==
  \A m \in plan.marks :
    plan' # plan /\ m.topic \in plan'.topics /\ takeaway'[m.topic] = m.claim =>
      m.claim \notin {plan'.title[m.topic], plan'.bullet[m.topic]}

WithheldStays == [][StaysWithheld]_claimsVars
=============================================================================
