----------------------------- MODULE LLMGateway -----------------------------
(***************************************************************************)
(* services/llm/gateway.py and the retry loop of litellm_provider.py:       *)
(* concurrent callers (pipeline thread and pool workers) share one gateway. *)
(* A request missing from the disk cache is admitted through a bounded      *)
(* semaphore, sent with at most one compatibility and one network retry,    *)
(* booked in the usage ledger after its slot is released, and repaired once *)
(* when its format is invalid.  What the cache holds is ValidatedCache's    *)
(* subject; here a lookup hits or misses.                                   *)
(*                                                                          *)
(* "remaining" is the analysis deadline's remaining time in ticks; reading  *)
(* a timeout and starting the provider call are one instant of that clock.  *)
(***************************************************************************)
EXTENDS Integers, FiniteSets
LOCAL INSTANCE TLC

CONSTANTS
  Callers,       \* threads that call the gateway
  Workers,       \* discovery_workers: capacity of _request_slots
  Timeout,       \* settings.timeout_seconds, in ticks
  Limit,         \* ticks between the gateway's first use and the deadline
  MaxRequests    \* bound: requests each caller makes

ASSUME GatewayAssumption ==
  /\ IsFiniteSet(Callers)
  /\ Workers \in Nat \ {0}
  /\ Timeout \in Nat \ {0}
  /\ Limit \in Nat
  /\ MaxRequests \in Nat

VARIABLES
  limited,     \* whether run_deadline is set
  remaining,   \* AnalysisDeadline.remaining
  slots,       \* free permits of the semaphore
  pc,          \* where each caller is in its request
  kind,        \* text | structured | strict (allow_repair=False) | repair
  phase,       \* initial | format_repair
  log,         \* attempt_log length of the current provider operation
  compat,      \* compatibility_retry_used
  net,         \* transient_retries
  left,        \* ticks until the provider call times out
  outcome,     \* how the provider operation ended
  answer,      \* what the last gateway call returned or raised
  cancelled,   \* the caller's Event
  made,        \* requests made so far (bound)
  unbooked,    \* history: attempts sent that the usage ledger lacks
  doomed       \* history: cancelled before the phase had a checked slot

reqVars == <<kind, phase>>
opVars  == <<log, compat, net, left, outcome>>
vars == <<limited, remaining, slots, pc, reqVars, opVars, answer, cancelled, made,
          unbooked, doomed>>

Kinds    == {"text", "structured", "strict", "repair"}
Outcomes == {"none", "valid", "invalid", "truncated", "transport", "time_limit"}
Answers  == {"none", "value", "invalid", "truncated", "failed", "transport",
             "time_limit", "cancelled"}
Holding  == {"admitted", "attempt", "inflight", "leaving"}
Waiting  == {"lookup", "entering", "queued", "admitted"}
PCs      == {"idle", "record"} \union Holding \union Waiting

\* AnalysisDeadline.check of the run's deadline fails.
Expired == limited /\ remaining = 0

\* Mutant: a late attempt gets the full configured timeout.
ConfiguredTimeout == Timeout

\* request_timeout: never longer than the time the analysis has left.
RequestTimeout ==
  IF limited /\ remaining < Timeout THEN remaining ELSE Timeout

\* A call returns or raises; its locals are gone.
End(c, how) ==
  /\ pc' = [pc EXCEPT ![c] = "idle"]
  /\ answer' = [answer EXCEPT ![c] = how]
  /\ kind' = [kind EXCEPT ![c] = "text"]
  /\ phase' = [phase EXCEPT ![c] = "initial"]
  /\ log' = [log EXCEPT ![c] = 0]
  /\ compat' = [compat EXCEPT ![c] = FALSE]
  /\ net' = [net EXCEPT ![c] = 0]
  /\ left' = [left EXCEPT ![c] = 0]
  /\ outcome' = [outcome EXCEPT ![c] = "none"]
  /\ cancelled' = [cancelled EXCEPT ![c] = FALSE]
  /\ doomed' = [doomed EXCEPT ![c] = FALSE]

\* The call goes on at another place.
Go(c, at) ==
  /\ pc' = [pc EXCEPT ![c] = at]
  /\ UNCHANGED <<answer, kind, phase, opVars, cancelled, doomed>>

-----------------------------------------------------------------------------
(* Calls *)

Begin(c, what, first, at) ==
  /\ pc[c] = "idle"
  /\ made[c] < MaxRequests
  /\ made' = [made EXCEPT ![c] = @ + 1]
  /\ kind' = [kind EXCEPT ![c] = what]
  /\ phase' = [phase EXCEPT ![c] = first]
  /\ pc' = [pc EXCEPT ![c] = at]
  /\ answer' = [answer EXCEPT ![c] = "none"]
  /\ UNCHANGED <<limited, remaining, slots, opVars, cancelled, unbooked, doomed>>

GenerateText(c) == Begin(c, "text", "initial", "entering")

GenerateStructured(c, what) == Begin(c, what, "initial", "lookup")

\* repair_structured_output: offered for a reply that was complete but invalid.
RepairStructuredOutput(c) ==
  /\ answer[c] = "invalid"
  /\ Begin(c, "repair", "format_repair", "entering")

Lookup(c) ==
  /\ pc[c] = "lookup"
  /\ End(c, "value") \/ Go(c, "entering")
  /\ UNCHANGED <<limited, remaining, slots, made, unbooked>>

\* A stage sets its Event while its request waits or runs.
Cancel(c) ==
  /\ pc[c] # "idle"
  /\ kind[c] # "text"
  /\ ~cancelled[c]
  /\ cancelled' = [cancelled EXCEPT ![c] = TRUE]
  /\ doomed' = [doomed EXCEPT ![c] = pc[c] \in Waiting]
  /\ UNCHANGED <<limited, remaining, slots, pc, reqVars, opVars, answer, made, unbooked>>

-----------------------------------------------------------------------------
(* _request_admission *)

EnterAdmission(c) ==
  /\ pc[c] = "entering"
  /\ \/ Expired /\ End(c, "time_limit")
     \/ ~Expired /\ Go(c, "queued")
  /\ UNCHANGED <<limited, remaining, slots, made, unbooked>>

Acquire(c) ==
  /\ pc[c] = "queued"
  /\ slots > 0
  /\ slots' = slots - 1
  /\ Go(c, "admitted")
  /\ UNCHANGED <<limited, remaining, made, unbooked>>

\* acquire(timeout=0.1) came back empty-handed.
LeaveQueue(c) ==
  /\ pc[c] = "queued"
  /\ \/ Expired /\ End(c, "time_limit")
     \/ ~Expired /\ cancelled[c] /\ End(c, "cancelled")
  /\ UNCHANGED <<limited, remaining, slots, made, unbooked>>

\* Mutant: the Event is only read while queued.
AdmitUnchecked(c) ==
  /\ pc[c] = "admitted"
  /\ \/ Expired /\ End(c, "time_limit") /\ slots' = slots + 1
     \/ ~Expired /\ Go(c, "attempt") /\ UNCHANGED slots
  /\ UNCHANGED <<limited, remaining, made, unbooked>>

\* Mutant: a request refused with the slot held does not give it back.
AdmitLeaking(c) ==
  /\ pc[c] = "admitted"
  /\ \/ cancelled[c] /\ End(c, "cancelled")
     \/ ~cancelled[c] /\ Expired /\ End(c, "time_limit")
     \/ ~cancelled[c] /\ ~Expired /\ Go(c, "attempt")
  /\ UNCHANGED <<limited, remaining, slots, made, unbooked>>

\* With the slot held: the Event first, then the deadline; finally releases.
Admit(c) ==
  /\ pc[c] = "admitted"
  /\ \/ cancelled[c] /\ End(c, "cancelled") /\ slots' = slots + 1
     \/ ~cancelled[c] /\ Expired /\ End(c, "time_limit") /\ slots' = slots + 1
     \/ ~cancelled[c] /\ ~Expired /\ Go(c, "attempt") /\ UNCHANGED slots
  /\ UNCHANGED <<limited, remaining, made, unbooked>>

-----------------------------------------------------------------------------
(* The provider operation: litellm_provider._completion *)

Finish(c, how) ==
  /\ outcome' = [outcome EXCEPT ![c] = how]
  /\ pc' = [pc EXCEPT ![c] = "leaving"]

\* Top of the retry loop.
Attempt(c) ==
  /\ pc[c] = "attempt"
  /\ \/ Expired /\ Finish(c, "time_limit") /\ UNCHANGED <<log, left, unbooked>>
     \/ /\ ~Expired
        /\ pc' = [pc EXCEPT ![c] = "inflight"]
        /\ left' = [left EXCEPT ![c] = RequestTimeout]
        /\ log' = [log EXCEPT ![c] = @ + 1]
        /\ unbooked' = [unbooked EXCEPT ![c] = @ + 1]
        /\ UNCHANGED outcome
  /\ UNCHANGED <<limited, remaining, slots, reqVars, compat, net, answer, cancelled,
                 made, doomed>>

\* The provider answers; the format of a text reply is nobody's business.
Reply(c, how) ==
  /\ pc[c] = "inflight"
  /\ kind[c] = "text" => how = "valid"
  /\ Finish(c, how)
  /\ UNCHANGED <<limited, remaining, slots, reqVars, log, compat, net, left, answer,
                 cancelled, made, unbooked, doomed>>

\* One retry for a rejected optional parameter, one for a transient failure.
AfterFailure(c, failure) ==
  \/ /\ failure = "rejected" /\ ~compat[c]
     /\ compat' = [compat EXCEPT ![c] = TRUE]
     /\ pc' = [pc EXCEPT ![c] = "attempt"]
     /\ UNCHANGED <<net, outcome>>
  \/ /\ failure = "transient" /\ net[c] = 0
     /\ net' = [net EXCEPT ![c] = 1]
     /\ pc' = [pc EXCEPT ![c] = "attempt"]
     /\ UNCHANGED <<compat, outcome>>
  \/ /\ \/ failure = "rejected" /\ compat[c]
        \/ failure = "transient" /\ net[c] = 1
        \/ failure = "permanent"
     /\ Finish(c, "transport")
     /\ UNCHANGED <<compat, net>>

Fail(c, failure) ==
  /\ pc[c] = "inflight"
  /\ left[c] > 0
  /\ AfterFailure(c, failure)
  /\ UNCHANGED <<limited, remaining, slots, reqVars, log, left, answer, cancelled, made,
                 unbooked, doomed>>

\* The provider call's own timeout, a transient failure.
TimeOut(c) ==
  /\ pc[c] = "inflight"
  /\ left[c] = 0
  /\ AfterFailure(c, "transient")
  /\ UNCHANGED <<limited, remaining, slots, reqVars, log, left, answer, cancelled, made,
                 unbooked, doomed>>

\* Mutant: the slot is not released.
LeaveHolding(c) ==
  /\ pc[c] = "leaving"
  /\ Go(c, "record")
  /\ UNCHANGED <<limited, remaining, slots, made, unbooked>>

\* Mutant: the slot is released by the context and by the caller.
LeaveTwice(c) ==
  /\ pc[c] = "leaving"
  /\ slots' = slots + 2
  /\ Go(c, "record")
  /\ UNCHANGED <<limited, remaining, made, unbooked>>

\* Leaving the admission context releases the slot, before anything is booked.
Leave(c) ==
  /\ pc[c] = "leaving"
  /\ slots' = slots + 1
  /\ Go(c, "record")
  /\ UNCHANGED <<limited, remaining, made, unbooked>>

-----------------------------------------------------------------------------
(* Ledger and format repair *)

\* Mutant: a request stopped by the analysis limit is not booked at all.
BookedUnlessExpired(c) == IF outcome[c] = "time_limit" THEN 0 ELSE log[c]

\* _record and _record_failure append the operation's attempts; a time limit
\* that sent nothing leaves no entry.
BookedAttempts(c) == log[c]

\* What generate_text / generate_structured / _repair_structured answer.
AnswerOf(c) ==
  CASE outcome[c] = "valid" -> "value"
    [] outcome[c] \in {"transport", "time_limit"} -> outcome[c]
    [] phase[c] = "format_repair" -> "failed"
    [] OTHER -> outcome[c]

NeedsRepair(c) ==
  outcome[c] = "invalid" /\ kind[c] = "structured" /\ phase[c] = "initial"

\* The repair is a second admission and a second provider operation.
StartRepair(c) ==
  /\ phase' = [phase EXCEPT ![c] = "format_repair"]
  /\ pc' = [pc EXCEPT ![c] = "entering"]
  /\ log' = [log EXCEPT ![c] = 0]
  /\ compat' = [compat EXCEPT ![c] = FALSE]
  /\ net' = [net EXCEPT ![c] = 0]
  /\ left' = [left EXCEPT ![c] = 0]
  /\ outcome' = [outcome EXCEPT ![c] = "none"]
  /\ doomed' = [doomed EXCEPT ![c] = cancelled[c]]
  /\ UNCHANGED <<kind, answer, cancelled>>

Record(c) ==
  /\ pc[c] = "record"
  /\ unbooked' = [unbooked EXCEPT ![c] = @ - BookedAttempts(c)]
  /\ IF NeedsRepair(c) THEN StartRepair(c) ELSE End(c, AnswerOf(c))
  /\ UNCHANGED <<limited, remaining, slots, made>>

-----------------------------------------------------------------------------
\* Time passes for the deadline and for every call in flight.
Tick ==
  /\ \/ limited /\ remaining > 0
     \/ \E c \in Callers : pc[c] = "inflight"
  /\ \A c \in Callers : pc[c] = "inflight" => left[c] > 0
  /\ remaining' = IF limited /\ remaining > 0 THEN remaining - 1 ELSE 0
  /\ left' = [c \in Callers |-> IF pc[c] = "inflight" THEN left[c] - 1
                                ELSE left[c]]
  /\ UNCHANGED <<limited, slots, pc, reqVars, log, compat, net, outcome, answer,
                 cancelled, made, unbooked, doomed>>

Init ==
  /\ limited \in BOOLEAN /\ remaining = Limit
  /\ slots = Workers
  /\ pc = [c \in Callers |-> "idle"]
  /\ kind = [c \in Callers |-> "text"]
  /\ phase = [c \in Callers |-> "initial"]
  /\ log = [c \in Callers |-> 0]
  /\ compat = [c \in Callers |-> FALSE]
  /\ net = [c \in Callers |-> 0]
  /\ left = [c \in Callers |-> 0]
  /\ outcome = [c \in Callers |-> "none"]
  /\ answer = [c \in Callers |-> "none"]
  /\ cancelled = [c \in Callers |-> FALSE]
  /\ made = [c \in Callers |-> 0]
  /\ unbooked = [c \in Callers |-> 0]
  /\ doomed = [c \in Callers |-> FALSE]

\* The steps the calling thread itself takes once a request is under way.
Request(c) ==
  \/ Lookup(c) \/ EnterAdmission(c) \/ Acquire(c) \/ LeaveQueue(c) \/ Admit(c)
  \/ Attempt(c) \/ TimeOut(c) \/ Leave(c) \/ Record(c)

Call(c) ==
  \/ GenerateText(c)
  \/ \E what \in {"structured", "strict"} : GenerateStructured(c, what)
  \/ RepairStructuredOutput(c)

Provider(c) ==
  \/ \E how \in {"valid", "invalid", "truncated"} : Reply(c, how)
  \/ \E failure \in {"rejected", "transient", "permanent"} : Fail(c, failure)

Next ==
  \/ Tick
  \/ \E c \in Callers : Call(c) \/ Cancel(c) \/ Request(c) \/ Provider(c)

Spec == Init /\ [][Next]_vars

\* Threads run and time passes; a provider may stay silent for ever.
Fairness == WF_vars(Tick) /\ \A c \in Callers : WF_vars(Request(c))

FairSpec == Spec /\ Fairness

\* Callers are interchangeable wherever no fairness is asked of one of them.
Symmetry == Permutations(Callers)

-----------------------------------------------------------------------------
(* Properties *)

\* Every variable keeps its shape; the semaphore never holds more permits than
\* it was created with (BoundedSemaphore would raise).
TypeOK ==
  /\ limited \in BOOLEAN /\ remaining \in 0..Limit
  /\ slots \in 0..Workers
  /\ pc \in [Callers -> PCs]
  /\ kind \in [Callers -> Kinds]
  /\ phase \in [Callers -> {"initial", "format_repair"}]
  /\ log \in [Callers -> Nat]
  /\ compat \in [Callers -> BOOLEAN]
  /\ net \in [Callers -> 0..1]
  /\ left \in [Callers -> 0..Timeout]
  /\ outcome \in [Callers -> Outcomes]
  /\ answer \in [Callers -> Answers]
  /\ cancelled \in [Callers -> BOOLEAN]
  /\ made \in [Callers -> 0..MaxRequests]
  /\ unbooked \in [Callers -> Int]
  /\ doomed \in [Callers -> BOOLEAN]

Holders == {c \in Callers : pc[c] \in Holding}

\* Every permit is either free or held by exactly one request on its way
\* through the provider: no path out of the admission context (cancelled,
\* expired, failed, answered) leaks a permit or gives one back twice, so at
\* most Workers calls ever run at once.
SlotAccounting == slots + Cardinality(Holders) = Workers

\* Whatever the attempts of a request came to, success, rejection, timeout or
\* the analysis limit in the middle of a retry, the usage ledger accounts for
\* each physical attempt once the call is over.
LedgerComplete == \A c \in Callers : pc[c] = "idle" => unbooked[c] = 0

\* No provider call may outlive the analysis: what is in flight times out no
\* later than the deadline, also for retries and repairs that began late.
InFlightWithinLimit ==
  limited => \A c \in Callers : pc[c] = "inflight" => left[c] <= remaining

\* A stage that cancels while its request is still queued (initial or repair
\* phase) never pays for a provider call of that phase.
CancelledBeforeAdmission ==
  \A c \in Callers : doomed[c] => pc[c] \notin {"attempt", "inflight", "leaving"}

\* A provider operation makes at most three attempts, and a further one only
\* by using up one of its two retry rights.
RetryBudget ==
  \A c \in Callers : pc[c] \in {"attempt", "inflight"} =>
    log[c] = net[c] + (IF compat[c] THEN 1 ELSE 0)
             + (IF pc[c] = "inflight" THEN 1 ELSE 0)

\* A queued request always ends: permits come back and every attempt times
\* out, even when no deadline bounds the run.
QueuedRequestEnds ==
  \A c \in Callers : pc[c] = "queued" ~> pc[c] = "idle"
=============================================================================
