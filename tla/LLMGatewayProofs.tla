-------------------------- MODULE LLMGatewayProofs --------------------------
(***************************************************************************)
(* Machine-checked proofs about the gateway, for any finite set of callers, *)
(* any number of permits, any timeout and any deadline.                     *)
(***************************************************************************)
EXTENDS LLMGateway, FiniteSetTheorems, TLAPS

-----------------------------------------------------------------------------
(* Counting the holders of a permit *)

HoldersOf(f) == {c \in Callers : f[c] \in Holding}

Weight(at) == IF at \in Holding THEN 1 ELSE 0

\* Moving one caller from f[c] to at changes the number of holders by the
\* difference of the two places' weights.
LEMMA MoveHolder ==
  ASSUME NEW f \in [Callers -> PCs], NEW c \in Callers, NEW at \in PCs
  PROVE  /\ Cardinality(HoldersOf(f)) \in Nat
         /\ Cardinality(HoldersOf([f EXCEPT ![c] = at]))
              = Cardinality(HoldersOf(f)) + Weight(at) - Weight(f[c])
<1> DEFINE H == HoldersOf(f)
           G == HoldersOf([f EXCEPT ![c] = at])
<1>1. IsFiniteSet(H)
  BY FS_Subset, GatewayAssumption DEF HoldersOf
<1>2. Cardinality(H) \in Nat
  BY <1>1, FS_CardinalityType
<1>3. CASE (at \in Holding) = (f[c] \in Holding)
  <2>1. G = H
    BY <1>3 DEF HoldersOf
  <2>2. Weight(at) = Weight(f[c])
    BY <1>3 DEF Weight
  <2>3. QED
    BY <1>2, <2>1, <2>2 DEF Weight
<1>4. CASE at \in Holding /\ f[c] \notin Holding
  <2>1. G = H \union {c} /\ c \notin H
    BY <1>4 DEF HoldersOf
  <2>2. Cardinality(G) = Cardinality(H) + 1
    BY <1>1, <2>1, FS_AddElement
  <2>3. QED
    BY <1>2, <1>4, <2>2 DEF Weight
<1>5. CASE at \notin Holding /\ f[c] \in Holding
  <2>1. G = H \ {c} /\ c \in H
    BY <1>5 DEF HoldersOf
  <2>2. Cardinality(G) = Cardinality(H) - 1
    BY <1>1, <2>1, FS_RemoveElement
  <2>3. QED
    BY <1>2, <1>5, <2>2 DEF Weight
<1>6. QED
  BY <1>3, <1>4, <1>5

-----------------------------------------------------------------------------
(* Types and permits *)

\* What a caller's own return or move may change.
LocalShape ==
  /\ pc \in [Callers -> PCs]
  /\ kind \in [Callers -> Kinds]
  /\ phase \in [Callers -> {"initial", "format_repair"}]
  /\ log \in [Callers -> Nat]
  /\ compat \in [Callers -> BOOLEAN]
  /\ net \in [Callers -> 0..1]
  /\ left \in [Callers -> 0..Timeout]
  /\ outcome \in [Callers -> Outcomes]
  /\ answer \in [Callers -> Answers]
  /\ cancelled \in [Callers -> BOOLEAN]
  /\ doomed \in [Callers -> BOOLEAN]

\* TypeOK without the upper bound on slots, which only SlotAccounting gives.
Shape ==
  /\ LocalShape
  /\ limited \in BOOLEAN
  /\ remaining \in 0..Limit
  /\ slots \in Nat
  /\ made \in [Callers -> 0..MaxRequests]
  /\ unbooked \in [Callers -> Int]

\* What a step does to the permits: one caller moves and pays or is repaid.
PermitStep(c) ==
  \E at \in PCs : /\ pc' = [pc EXCEPT ![c] = at]
                  /\ slots' = slots + Weight(pc[c]) - Weight(at)

LEMMA ShapeInit == Init => Shape
BY GatewayAssumption DEF Init, Shape, LocalShape, PCs, Kinds, Outcomes, Answers

\* Returning from a call resets its locals to values of their types.
LEMMA EndShape ==
  ASSUME LocalShape, NEW c \in Callers, NEW how \in Answers, End(c, how)
  PROVE  LocalShape'
<1>1. "idle" \in PCs /\ "text" \in Kinds /\ "none" \in Outcomes
  BY DEF PCs, Kinds, Outcomes
<1>2. 0 \in 0..Timeout
  BY GatewayAssumption
<1>3. QED
  BY <1>1, <1>2 DEF LocalShape, End

\* Going on at another place changes that place only.
LEMMA GoShape ==
  ASSUME LocalShape, NEW c \in Callers, NEW at \in PCs, Go(c, at)
  PROVE  LocalShape'
BY DEF LocalShape, Go, opVars

\* A caller waiting for or holding a permit keeps the shape.
LEMMA ShapeCall ==
  ASSUME Shape, NEW c \in Callers,
         Call(c) \/ Cancel(c) \/ Lookup(c) \/ EnterAdmission(c) \/ Acquire(c)
         \/ LeaveQueue(c) \/ Admit(c) \/ Leave(c)
  PROVE  Shape'
<1>a. {"entering", "lookup", "queued", "admitted", "attempt", "record"}
        \subseteq PCs
  BY DEF PCs, Holding, Waiting
<1>b. {"none", "value", "time_limit", "cancelled"} \subseteq Answers
  BY DEF Answers
<1>c. LocalShape
  BY DEF Shape
<1>1. CASE Call(c)
  <2>1. PICK what \in Kinds, first \in {"initial", "format_repair"},
             at \in {"entering", "lookup"} : Begin(c, what, first, at)
    BY <1>1 DEF Call, GenerateText, GenerateStructured, RepairStructuredOutput,
                Kinds
  <2>2. at \in PCs /\ "none" \in Answers
    BY <1>a, <1>b
  <2>3. LocalShape'
    BY <1>c, <2>1, <2>2 DEF Begin, LocalShape, opVars
  <2>4. made' \in [Callers -> 0..MaxRequests]
    BY <2>1, GatewayAssumption DEF Begin, Shape
  <2>5. QED
    BY <2>1, <2>3, <2>4 DEF Begin, Shape
<1>2. CASE Cancel(c)
  <2>1. LocalShape'
    BY <1>2, <1>c DEF Cancel, LocalShape, reqVars, opVars
  <2>2. QED
    BY <1>2, <2>1 DEF Cancel, Shape
<1>3. CASE Lookup(c)
  BY <1>3, <1>a, <1>b, <1>c, EndShape, GoShape DEF Lookup, Shape
<1>4. CASE EnterAdmission(c)
  BY <1>4, <1>a, <1>b, <1>c, EndShape, GoShape DEF EnterAdmission, Shape
<1>5. CASE Acquire(c)
  BY <1>5, <1>a, <1>c, GoShape DEF Acquire, Shape
<1>6. CASE LeaveQueue(c)
  BY <1>6, <1>b, <1>c, EndShape DEF LeaveQueue, Shape
<1>7. CASE Admit(c)
  BY <1>7, <1>a, <1>b, <1>c, EndShape, GoShape DEF Admit, Shape
<1>8. CASE Leave(c)
  BY <1>8, <1>a, <1>c, GoShape DEF Leave, Shape
<1>9. QED
  BY <1>1, <1>2, <1>3, <1>4, <1>5, <1>6, <1>7, <1>8

\* The provider operation and the ledger keep the shape.
LEMMA ShapeOperation ==
  ASSUME Shape, NEW c \in Callers,
         Attempt(c) \/ TimeOut(c) \/ Provider(c) \/ Record(c)
  PROVE  Shape'
<1>a. {"entering", "attempt", "inflight", "leaving"} \subseteq PCs
  BY DEF PCs, Holding, Waiting
<1>b. {"none", "valid", "invalid", "truncated", "transport", "time_limit"}
        \subseteq Outcomes
  BY DEF Outcomes
<1>c. LocalShape
  BY DEF Shape
<1>1. CASE Attempt(c)
  <2>1. RequestTimeout \in 0..Timeout
    BY GatewayAssumption DEF RequestTimeout, Shape
  <2>2. LocalShape'
    BY <1>1, <1>a, <1>b, <1>c, <2>1 DEF Attempt, Finish, LocalShape, reqVars
  <2>3. QED
    BY <1>1, <2>2 DEF Attempt, Shape
<1>2. CASE TimeOut(c)
  <2>1. LocalShape'
    BY <1>2, <1>a, <1>b, <1>c
       DEF TimeOut, AfterFailure, Finish, LocalShape, reqVars
  <2>2. QED
    BY <1>2, <2>1 DEF TimeOut, Shape
<1>3. ASSUME NEW how \in {"valid", "invalid", "truncated"}, Reply(c, how)
      PROVE Shape'
  <2>1. LocalShape'
    BY <1>3, <1>a, <1>b, <1>c DEF Reply, Finish, LocalShape, reqVars
  <2>2. QED
    BY <1>3, <2>1 DEF Reply, Shape
<1>4. ASSUME NEW failure \in {"rejected", "transient", "permanent"},
             Fail(c, failure)
      PROVE Shape'
  <2>0. /\ pc' \in [Callers -> PCs]
        /\ compat' \in [Callers -> BOOLEAN]
        /\ net' \in [Callers -> 0..1]
        /\ outcome' \in [Callers -> Outcomes]
    <3> USE <1>4, <1>a, <1>b, <1>c DEF Fail, AfterFailure, Finish, LocalShape
    <3>1. pc' \in [Callers -> PCs]
      OBVIOUS
    <3>2. compat' \in [Callers -> BOOLEAN]
      OBVIOUS
    <3>3. net' \in [Callers -> 0..1]
      OBVIOUS
    <3>4. outcome' \in [Callers -> Outcomes]
      OBVIOUS
    <3>5. QED
      BY <3>1, <3>2, <3>3, <3>4
  <2>1. LocalShape'
    BY <1>4, <1>c, <2>0 DEF Fail, LocalShape, reqVars
  <2>2. QED
    BY <1>4, <2>1 DEF Fail, Shape
<1>5. CASE Record(c)
  <2>1. AnswerOf(c) \in Answers
    BY <1>c DEF AnswerOf, LocalShape, Outcomes, Answers
  <2>2. ASSUME NeedsRepair(c) PROVE LocalShape'
    <3>1. StartRepair(c)
      BY <1>5, <2>2 DEF Record
    <3>2. 0 \in 0..Timeout
      BY GatewayAssumption
    <3>3. QED
      BY <3>1, <3>2, <1>a, <1>b, <1>c DEF StartRepair, LocalShape
  <2>3. ASSUME ~NeedsRepair(c) PROVE LocalShape'
    BY <1>5, <2>1, <2>3, <1>c, EndShape DEF Record
  <2>4. LocalShape'
    BY <2>2, <2>3
  <2>5. unbooked' \in [Callers -> Int]
    BY <1>5 DEF Record, BookedAttempts, Shape, LocalShape
  <2>6. QED
    BY <1>5, <2>4, <2>5 DEF Record, Shape
<1>6. QED
  BY <1>1, <1>2, <1>3, <1>4, <1>5 DEF Provider

LEMMA ShapeTick == Shape /\ Tick => Shape'
BY GatewayAssumption DEF Shape, LocalShape, Tick, reqVars

\* Every step keeps the shape of the state.
LEMMA ShapeNext == Shape /\ [Next]_vars => Shape'
<1> SUFFICES ASSUME Shape, [Next]_vars PROVE Shape'
  OBVIOUS
<1>1. CASE Tick
  BY <1>1, ShapeTick
<1>2. CASE \E c \in Callers : Call(c) \/ Cancel(c) \/ Request(c) \/ Provider(c)
  BY <1>2, ShapeCall, ShapeOperation DEF Request
<1>3. CASE UNCHANGED vars
  BY <1>3 DEF vars, reqVars, opVars, Shape, LocalShape
<1>4. QED
  BY <1>1, <1>2, <1>3 DEF Next

\* Every step of a caller moves it and settles its permit.
LEMMA StepSettlesPermit ==
  ASSUME Shape, NEW c \in Callers,
         Call(c) \/ Cancel(c) \/ Request(c) \/ Provider(c)
  PROVE  PermitStep(c) \/ UNCHANGED <<pc, slots>>
<1> USE DEF Shape, LocalShape, PermitStep, Weight, PCs, Holding, Waiting
<1>1. CASE Call(c)
  <2>1. PICK what \in Kinds, first \in {"initial", "format_repair"},
             at \in {"entering", "lookup"} : Begin(c, what, first, at)
    BY <1>1 DEF Call, GenerateText, GenerateStructured, RepairStructuredOutput,
                Kinds
  <2>2. at \in PCs /\ Weight(at) = 0 /\ Weight("idle") = 0
    BY <2>1
  <2>3. slots' = slots + Weight(pc[c]) - Weight(at)
    BY <2>1, <2>2 DEF Begin
  <2>4. QED
    BY <2>1, <2>2, <2>3 DEF Begin
<1>2. CASE Cancel(c)
  BY <1>2 DEF Cancel
<1>3. CASE Lookup(c)
  BY <1>3 DEF Lookup, End, Go
<1>4. CASE EnterAdmission(c)
  BY <1>4 DEF EnterAdmission, End, Go
<1>5. CASE Acquire(c)
  BY <1>5 DEF Acquire, Go
<1>6. CASE LeaveQueue(c)
  BY <1>6 DEF LeaveQueue, End
<1>7. CASE Admit(c)
  BY <1>7 DEF Admit, End, Go
<1>8. CASE Attempt(c)
  BY <1>8 DEF Attempt, Finish
<1>9. CASE TimeOut(c) \/ Provider(c)
  BY <1>9 DEF TimeOut, Provider, Reply, Fail, AfterFailure, Finish
<1>10. CASE Leave(c)
  BY <1>10 DEF Leave, Go
<1>11. CASE Record(c)
  BY <1>11 DEF Record, StartRepair, End
<1>12. QED
  BY <1>1, <1>2, <1>3, <1>4, <1>5, <1>6, <1>7, <1>8, <1>9, <1>10, <1>11
     DEF Request

\* Permits are neither lost nor invented.
LEMMA PermitsNext == Shape /\ SlotAccounting /\ [Next]_vars => SlotAccounting'
<1> SUFFICES ASSUME Shape, SlotAccounting, [Next]_vars PROVE SlotAccounting'
  OBVIOUS
<1>1. Holders = HoldersOf(pc) /\ Holders' = HoldersOf(pc')
  BY DEF Holders, HoldersOf
<1>2. CASE UNCHANGED <<pc, slots>>
  BY <1>1, <1>2 DEF SlotAccounting
<1>3. ASSUME NEW c \in Callers, PermitStep(c) PROVE SlotAccounting'
  <2>1. PICK at \in PCs : /\ pc' = [pc EXCEPT ![c] = at]
                          /\ slots' = slots + Weight(pc[c]) - Weight(at)
    BY <1>3 DEF PermitStep
  <2>2. pc \in [Callers -> PCs] /\ slots \in Nat
    BY DEF Shape, LocalShape
  <2>3. /\ Cardinality(HoldersOf(pc)) \in Nat
        /\ Cardinality(HoldersOf(pc'))
             = Cardinality(HoldersOf(pc)) + Weight(at) - Weight(pc[c])
    BY <2>1, <2>2, MoveHolder
  <2>4. Weight(at) \in Int /\ Weight(pc[c]) \in Int
    BY DEF Weight
  <2>5. QED
    BY <1>1, <2>1, <2>2, <2>3, <2>4 DEF SlotAccounting
<1>4. CASE Tick \/ UNCHANGED vars
  BY <1>2, <1>4 DEF Tick, vars
<1>5. QED
  BY <1>2, <1>3, <1>4, StepSettlesPermit DEF Next

LEMMA PermitsInit == Init => SlotAccounting
<1> SUFFICES ASSUME Init PROVE SlotAccounting
  OBVIOUS
<1>1. Holders = {}
  BY DEF Init, Holders, Holding
<1>2. QED
  BY <1>1, FS_EmptySet, GatewayAssumption DEF Init, SlotAccounting

\* No run of the gateway, however its requests end, leaks a permit or returns
\* one twice.
THEOREM PermitsConserved == Spec => []SlotAccounting
<1>1. Init => Shape /\ SlotAccounting
  BY ShapeInit, PermitsInit
<1>2. Shape /\ SlotAccounting /\ [Next]_vars => (Shape /\ SlotAccounting)'
  BY ShapeNext, PermitsNext
<1>3. QED
  BY <1>1, <1>2, PTL DEF Spec

\* Type correctness, with the semaphore's bound as a consequence of the
\* accounting.
THEOREM TypeCorrect == Spec => []TypeOK
<1>1. Shape /\ SlotAccounting => TypeOK
  <2> SUFFICES ASSUME Shape, SlotAccounting PROVE TypeOK
    OBVIOUS
  <2>1. IsFiniteSet(Holders)
    BY FS_Subset, GatewayAssumption DEF Holders
  <2>2. Cardinality(Holders) \in Nat
    BY <2>1, FS_CardinalityType
  <2>3. slots \in 0..Workers
    BY <2>2, GatewayAssumption DEF SlotAccounting, Shape
  <2>4. QED
    BY <2>3 DEF Shape, LocalShape, TypeOK
<1>2. Init => Shape /\ SlotAccounting
  BY ShapeInit, PermitsInit
<1>3. Shape /\ SlotAccounting /\ [Next]_vars => (Shape /\ SlotAccounting)'
  BY ShapeNext, PermitsNext
<1>4. QED
  BY <1>1, <1>2, <1>3, PTL DEF Spec

-----------------------------------------------------------------------------
(* Attempts, ledger and retries *)

\* The attempts of a caller's current operation are exactly those the ledger
\* still lacks, none before the operation starts, and each after the first
\* has used up one retry right.
AttemptsOf(c) ==
  /\ unbooked[c] = log[c]
  /\ pc[c] \in {"idle"} \union Waiting =>
       log[c] = 0 /\ net[c] = 0 /\ compat[c] = FALSE
  /\ pc[c] \in {"attempt", "inflight"} =>
       log[c] = net[c] + (IF compat[c] THEN 1 ELSE 0)
                + (IF pc[c] = "inflight" THEN 1 ELSE 0)

AttemptsInv == \A c \in Callers : AttemptsOf(c)

\* A step of one caller keeps the attempts of every caller accounted for.
LEMMA AttemptsStep ==
  ASSUME Shape, AttemptsInv, NEW c \in Callers,
         Call(c) \/ Cancel(c) \/ Request(c) \/ Provider(c)
  PROVE  AttemptsInv'
<1> SUFFICES ASSUME NEW d \in Callers PROVE AttemptsOf(d)'
  BY DEF AttemptsInv
<1>0. AttemptsOf(c) /\ AttemptsOf(d)
  BY DEF AttemptsInv
<1> USE <1>0 DEF AttemptsOf, Shape, LocalShape, Waiting
<1>1. CASE Call(c)
  <2>1. PICK what \in Kinds, first \in {"initial", "format_repair"},
             at \in {"entering", "lookup"} : Begin(c, what, first, at)
    BY <1>1 DEF Call, GenerateText, GenerateStructured, RepairStructuredOutput,
                Kinds
  <2>2. QED
    BY <2>1 DEF Begin, opVars
<1>2. CASE Cancel(c)
  BY <1>2 DEF Cancel, opVars
<1>3. CASE Lookup(c)
  BY <1>3 DEF Lookup, End, Go, opVars
<1>4. CASE EnterAdmission(c)
  BY <1>4 DEF EnterAdmission, End, Go, opVars
<1>5. CASE Acquire(c)
  BY <1>5 DEF Acquire, Go, opVars
<1>6. CASE LeaveQueue(c)
  BY <1>6 DEF LeaveQueue, End
<1>7. CASE Admit(c)
  BY <1>7 DEF Admit, End, Go, opVars
<1>8. CASE Attempt(c)
  <2>1. CASE c = d
    BY <1>8, <2>1 DEF Attempt, Finish
  <2>2. CASE c # d
    BY <1>8, <2>2 DEF Attempt, Finish
  <2>3. QED
    BY <2>1, <2>2
<1>9. ASSUME NEW failure \in {"rejected", "transient", "permanent"},
             Fail(c, failure) \/ TimeOut(c)
      PROVE AttemptsOf(d)'
  <2>1. UNCHANGED <<log, unbooked>> /\ pc[c] = "inflight"
    BY <1>9 DEF Fail, TimeOut
  <2>2. PICK f \in {"rejected", "transient", "permanent"} : AfterFailure(c, f)
    BY <1>9 DEF Fail, TimeOut
  <2>3. CASE c = d
    BY <2>1, <2>2, <2>3 DEF AfterFailure, Finish
  <2>4. CASE c # d
    BY <2>1, <2>2, <2>4 DEF AfterFailure, Finish
  <2>5. QED
    BY <2>3, <2>4
<1>10. ASSUME NEW how \in {"valid", "invalid", "truncated"}, Reply(c, how)
       PROVE AttemptsOf(d)'
  BY <1>10 DEF Reply, Finish
<1>11. CASE Leave(c)
  BY <1>11 DEF Leave, Go, opVars
<1>12. CASE Record(c)
  <2>1. CASE NeedsRepair(c)
    BY <1>12, <2>1 DEF Record, StartRepair, BookedAttempts
  <2>2. CASE ~NeedsRepair(c)
    BY <1>12, <2>2 DEF Record, End, BookedAttempts
  <2>3. QED
    BY <2>1, <2>2
<1>13. QED
  BY <1>1, <1>2, <1>3, <1>4, <1>5, <1>6, <1>7, <1>8, <1>9, <1>10, <1>11, <1>12
     DEF Request, Provider

LEMMA AttemptsNext == Shape /\ AttemptsInv /\ [Next]_vars => AttemptsInv'
<1> SUFFICES ASSUME Shape, AttemptsInv, [Next]_vars PROVE AttemptsInv'
  OBVIOUS
<1>1. CASE Tick
  BY <1>1 DEF Tick, AttemptsInv, AttemptsOf, reqVars
<1>2. CASE UNCHANGED vars
  BY <1>2 DEF vars, opVars, AttemptsInv, AttemptsOf
<1>3. QED
  BY <1>1, <1>2, AttemptsStep DEF Next

LEMMA AttemptsInit == Init => AttemptsInv
BY DEF Init, AttemptsInv, AttemptsOf, Waiting

\* The usage ledger accounts for every physical attempt of a finished call.
THEOREM LedgerAccountsForAttempts == Spec => []LedgerComplete
<1>1. Shape /\ AttemptsInv => LedgerComplete
  BY DEF AttemptsInv, AttemptsOf, LedgerComplete
<1>2. Init => Shape /\ AttemptsInv
  BY ShapeInit, AttemptsInit
<1>3. Shape /\ AttemptsInv /\ [Next]_vars => (Shape /\ AttemptsInv)'
  BY ShapeNext, AttemptsNext
<1>4. QED
  BY <1>1, <1>2, <1>3, PTL DEF Spec

\* A provider operation never exceeds its two retry rights.
THEOREM RetriesBounded == Spec => []RetryBudget
<1>1. Shape /\ AttemptsInv => RetryBudget
  BY DEF AttemptsInv, AttemptsOf, RetryBudget
<1>2. Init => Shape /\ AttemptsInv
  BY ShapeInit, AttemptsInit
<1>3. Shape /\ AttemptsInv /\ [Next]_vars => (Shape /\ AttemptsInv)'
  BY ShapeNext, AttemptsNext
<1>4. QED
  BY <1>1, <1>2, <1>3, PTL DEF Spec

-----------------------------------------------------------------------------
(* The deadline *)

\* A caller's own step starts a call no longer than the remaining time and
\* leaves the clocks of the others alone.
LEMMA LimitStep ==
  ASSUME Shape, InFlightWithinLimit, NEW c \in Callers,
         Call(c) \/ Cancel(c) \/ Request(c) \/ Provider(c)
  PROVE  InFlightWithinLimit'
<1> SUFFICES ASSUME limited', NEW d \in Callers, pc'[d] = "inflight"
             PROVE left'[d] <= remaining'
  BY DEF InFlightWithinLimit
<1>1. /\ limited' = limited /\ remaining' = remaining
      /\ remaining \in Nat /\ left \in [Callers -> Nat] /\ pc \in [Callers -> PCs]
  <2>1. remaining \in Nat /\ left \in [Callers -> Nat] /\ pc \in [Callers -> PCs]
    BY GatewayAssumption DEF Shape, LocalShape
  <2>2. limited' = limited /\ remaining' = remaining
    <3>1. CASE Call(c) \/ Cancel(c) \/ Provider(c)
      BY <3>1 DEF Call, Begin, GenerateText, GenerateStructured,
         RepairStructuredOutput, Cancel, Provider, Reply, Fail
    <3>2. CASE Request(c)
      BY <3>2 DEF Request, Lookup, EnterAdmission, Acquire, LeaveQueue, Admit,
         Attempt, TimeOut, Leave, Record
    <3>3. QED
      BY <3>1, <3>2
  <2>3. QED
    BY <2>1, <2>2
<1>2. CASE Attempt(c)
  <2>1. RequestTimeout <= remaining
    BY <1>1, GatewayAssumption DEF RequestTimeout
  <2>2. QED
    BY <1>1, <1>2, <2>1 DEF Attempt, Finish, InFlightWithinLimit
<1>3. CASE ~Attempt(c)
  <2>1. pc[d] = "inflight" /\ left'[d] = left[d]
    BY <1>1, <1>3 DEF Call, Begin, GenerateText, GenerateStructured,
       RepairStructuredOutput, Cancel, Request, Lookup, EnterAdmission,
       Acquire, LeaveQueue, Admit, TimeOut, Leave, Record, StartRepair,
       Provider, Reply, Fail, AfterFailure, Finish, End, Go, opVars
  <2>2. QED
    BY <1>1, <2>1 DEF InFlightWithinLimit
<1>4. QED
  BY <1>2, <1>3

LEMMA LimitNext ==
  Shape /\ InFlightWithinLimit /\ [Next]_vars => InFlightWithinLimit'
<1> SUFFICES ASSUME Shape, InFlightWithinLimit, [Next]_vars
             PROVE InFlightWithinLimit'
  OBVIOUS
<1>1. CASE Tick
  BY <1>1, GatewayAssumption DEF Tick, InFlightWithinLimit, Shape, LocalShape
<1>2. CASE UNCHANGED vars
  BY <1>2 DEF vars, opVars, InFlightWithinLimit
<1>3. QED
  BY <1>1, <1>2, LimitStep DEF Next

\* Whatever is in flight times out no later than the analysis deadline.
THEOREM NothingOutlivesTheDeadline == Spec => []InFlightWithinLimit
<1>1. Init => Shape /\ InFlightWithinLimit
  BY ShapeInit DEF Init, InFlightWithinLimit
<1>2. Shape /\ InFlightWithinLimit /\ [Next]_vars
        => (Shape /\ InFlightWithinLimit)'
  BY ShapeNext, LimitNext
<1>3. QED
  BY <1>1, <1>2, PTL DEF Spec

-----------------------------------------------------------------------------
(* Cancellation *)

\* A doomed request still has its Event set and has not passed admission.
DoomedInv ==
  \A c \in Callers : doomed[c] => cancelled[c] /\ pc[c] \in Waiting

LEMMA DoomedNext == Shape /\ DoomedInv /\ [Next]_vars => DoomedInv'
<1> SUFFICES ASSUME Shape, DoomedInv, [Next]_vars, NEW d \in Callers,
                    doomed'[d]
             PROVE cancelled'[d] /\ pc'[d] \in Waiting
  BY DEF DoomedInv
<1> USE DEF DoomedInv, Shape, LocalShape, Waiting
<1>1. CASE Tick \/ UNCHANGED vars
  BY <1>1 DEF Tick, vars
<1>2. ASSUME NEW c \in Callers, Call(c) \/ Cancel(c)
      PROVE cancelled'[d] /\ pc'[d] \in Waiting
  BY <1>2 DEF Call, GenerateText, GenerateStructured, RepairStructuredOutput,
     Begin, Cancel
<1>3. ASSUME NEW c \in Callers,
             Lookup(c) \/ EnterAdmission(c) \/ Acquire(c) \/ LeaveQueue(c)
             \/ Admit(c) \/ Leave(c)
      PROVE cancelled'[d] /\ pc'[d] \in Waiting
  BY <1>3 DEF Lookup, EnterAdmission, Acquire, LeaveQueue, Admit, Leave, End, Go
<1>4. ASSUME NEW c \in Callers, Attempt(c) \/ TimeOut(c) \/ Provider(c)
      PROVE cancelled'[d] /\ pc'[d] \in Waiting
  BY <1>4 DEF Attempt, TimeOut, Provider, Reply, Fail, AfterFailure, Finish
<1>5. ASSUME NEW c \in Callers, Record(c)
      PROVE cancelled'[d] /\ pc'[d] \in Waiting
  BY <1>5 DEF Record, StartRepair, End
<1>6. QED
  BY <1>1, <1>2, <1>3, <1>4, <1>5 DEF Next, Request

\* Cancelling a queued request keeps it away from the provider.
THEOREM CancelledRequestsStayHome == Spec => []CancelledBeforeAdmission
<1>1. Shape /\ DoomedInv => CancelledBeforeAdmission
  BY DEF DoomedInv, CancelledBeforeAdmission, Waiting
<1>2. Init => Shape /\ DoomedInv
  BY ShapeInit DEF Init, DoomedInv
<1>3. Shape /\ DoomedInv /\ [Next]_vars => (Shape /\ DoomedInv)'
  BY ShapeNext, DoomedNext
<1>4. QED
  BY <1>1, <1>2, <1>3, PTL DEF Spec
=============================================================================
