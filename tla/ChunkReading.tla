------------------------------ MODULE ChunkReading ------------------------------
(***************************************************************************)
(* Reading the chunks of a document (agent/document_discovery.py) by a pool  *)
(* of threads.  A chunk whose answer was cut off is split, at most twice, at *)
(* boundaries of its source (agent/chunk_discovery_recovery.py); splits and  *)
(* results are kept in a cache, and a run after a failure starts from them.  *)
(* The overview is written when every chunk was read.                        *)
(***************************************************************************)
EXTENDS Integers, SequencesExt, FiniteSetsExt

CONSTANTS
  Chunks,
  Readers,
  Splittable,  \* fragments with a boundary to split at
  MaxRuns      \* bound: runs over the document

ASSUME ChunkAssumption == Chunks \in Nat

Depth == 2       \* MAX_RECOVERY_DEPTH
MaxRequests == 6 \* MAX_RECOVERY_REQUESTS

\* A fragment of a chunk: the halves taken to reach it.  A chunk has four quarters.
Root == <<>>
Fragments == UNION {[1..n -> {1, 2}] : n \in 0..Depth}

VARIABLES
  chunkPc,
  runs,
  cacheOn,
  checkpoints,   \* chunk, fragment, kind -> value
  untaken,       \* chunks no thread has taken, in order
  unfinished,    \* chunk -> fragments to resolve or merge, next first
  readings,      \* chunk -> what was read in this run, by fragment
  requests,      \* chunk -> requests of its recovery in this run
  chunkOutcome,  \* chunk -> "" / "ok" / "failed" / "cancelled"
  overview,      \* attempts at the overview
  profile,       \* what the returned profile was merged from
  refused        \* history: splittable fragments whose answer was cut off

chunkVars == <<chunkPc, runs, cacheOn, checkpoints, untaken, unfinished, readings, requests,
               chunkOutcome, overview, profile, refused>>

Quarters(f) ==
  IF f = Root THEN <<1, 2, 3, 4>> ELSE IF Len(f) = 2 THEN <<2 * f[1] + f[2] - 2>>
  ELSE <<2 * f[1] - 1, 2 * f[1]>>

\* split_fragment: both halves, in the order of the source.
Children(f) == IF f \in Splittable THEN <<Append(f, 1), Append(f, 2)>> ELSE <<>>

\* A cut-off answer leaves a checkpoint where a split can follow; mutant: it leaves none.
UnmarkedTruncated(c, f) == checkpoints

MarkTruncated(c, f) ==
  IF cacheOn /\ Len(f) < Depth /\ Children(f) # <<>> THEN checkpoints \cup {<<c, f, "split", <<>>>>} ELSE checkpoints

Cached(c, f, kind) == cacheOn /\ \E v \in checkpoints : v[1] = c /\ v[2] = f /\ v[3] = kind
ValueOf(c, f, kind) == (CHOOSE v \in checkpoints : v[1] = c /\ v[2] = f /\ v[3] = kind)[4]

\* Of a whole chunk, a result in one piece is kept apart from one that was recovered.
Kind(f) == IF f = Root THEN "chunk" ELSE "result"
Results(c, f) == {k \in {Kind(f), "result"} : Cached(c, f, k)}

WithResult(c, f, kind, value) == IF cacheOn THEN checkpoints \cup {<<c, f, kind, value>>} ELSE checkpoints

-----------------------------------------------------------------------------
Begin ==
  /\ chunkPc \in {"idle", "failed"} /\ runs < MaxRuns
  /\ runs' = runs + 1 /\ chunkPc' = "reading" /\ overview' = 0 /\ profile' = <<>>
  /\ untaken' = [i \in 1..Chunks |-> i]
  /\ unfinished' = [c \in 1..Chunks |-> <<>>] /\ readings' = [c \in 1..Chunks |-> {}]
  /\ requests' = [c \in 1..Chunks |-> 0] /\ chunkOutcome' = [c \in 1..Chunks |-> ""]
  /\ UNCHANGED <<cacheOn, checkpoints, refused>>

BusyChunks == {c \in 1..Chunks : unfinished[c] # <<>>}

\* A thread takes the next chunk; the one thread of a serial run stops at a failure.
TakeChunk ==
  /\ chunkPc = "reading" /\ untaken # <<>> /\ Cardinality(BusyChunks) < Readers
  /\ Readers = 1 => \A c \in 1..Chunks : chunkOutcome[c] # "failed"
  /\ untaken' = Tail(untaken) /\ unfinished' = [unfinished EXCEPT ![Head(untaken)] = <<<<"resolve", Root>>>>]
  /\ UNCHANGED <<chunkPc, runs, cacheOn, checkpoints, readings, requests, chunkOutcome, overview,
                 profile, refused>>

Ended(c, how) == unfinished' = [unfinished EXCEPT ![c] = <<>>] /\ chunkOutcome' = [chunkOutcome EXCEPT ![c] = how]

\* A fragment is read; the chunk ends with its last one.
Read(c, f, value) ==
  /\ readings' = [readings EXCEPT ![c] = @ \cup {<<f, value>>}]
  /\ IF Len(unfinished[c]) = 1 THEN Ended(c, "ok") ELSE unfinished' = [unfinished EXCEPT ![c] = Tail(@)] /\ UNCHANGED chunkOutcome

\* _split_and_recover: the halves in order, then their merge.
Split(c, f) ==
  IF Len(f) >= Depth \/ Children(f) = <<>> THEN Ended(c, "failed")
  ELSE /\ unfinished' = [unfinished EXCEPT ![c] = [i \in 1..2 |-> <<"resolve", Children(f)[i]>>] \o <<<<"merge", f>>>> \o Tail(@)]
       /\ UNCHANGED chunkOutcome

FromCache(c, f) ==
  /\ \E k \in Results(c, f) : Read(c, f, ValueOf(c, f, k))
  /\ UNCHANGED <<checkpoints, requests, refused>>

FromCheckpoint(c, f) ==
  /\ Results(c, f) = {} /\ Cached(c, f, "split") /\ Split(c, f)
  /\ UNCHANGED <<checkpoints, readings, requests, refused>>

Ask(c, f) ==
  /\ Results(c, f) = {} /\ ~Cached(c, f, "split")
  /\ IF f # Root /\ requests[c] >= MaxRequests
     THEN Ended(c, "failed") /\ UNCHANGED <<checkpoints, readings, requests, refused>>
     ELSE /\ requests' = [requests EXCEPT ![c] = @ + (IF f = Root THEN 0 ELSE 1)]
          /\ \/ /\ Read(c, f, Quarters(f)) /\ checkpoints' = WithResult(c, f, Kind(f), Quarters(f))
                /\ UNCHANGED refused
             \/ /\ checkpoints' = MarkTruncated(c, f) /\ Split(c, f)
                /\ refused' = IF cacheOn /\ Len(f) < Depth /\ f \in Splittable THEN refused \cup {<<c, f>>} ELSE refused
                /\ UNCHANGED readings
             \/ Ended(c, "failed") /\ UNCHANGED <<checkpoints, readings, refused>>

\* What the two halves said, in order.  Mutant: what the second repeats is not kept.
FirstHalf(c, f) == (CHOOSE p \in readings[c] : p[1] = Children(f)[1])[2]

MergedHalves(c, f) ==
  LET part(i) == (CHOOSE p \in readings[c] : p[1] = Children(f)[i])[2]
  IN part(1) \o part(2)

MergeHalves(c, f) ==
  /\ Read(c, f, MergedHalves(c, f)) /\ checkpoints' = WithResult(c, f, "result", MergedHalves(c, f))
  /\ UNCHANGED <<requests, refused>>

Step(c) ==
  /\ chunkPc \in {"reading", "ending"} /\ unfinished[c] # <<>>
  /\ LET f == Head(unfinished[c])[2]
     IN IF Head(unfinished[c])[1] = "merge" THEN MergeHalves(c, f) ELSE FromCache(c, f) \/ FromCheckpoint(c, f) \/ Ask(c, f)
  /\ UNCHANGED <<chunkPc, runs, cacheOn, untaken, overview, profile>>

\* The failure of a chunk cancels those not started; those that run are waited for.
Cancel ==
  /\ chunkPc = "reading" /\ \E c \in 1..Chunks : chunkOutcome[c] = "failed"
  /\ chunkPc' = "ending" /\ untaken' = <<>>
  /\ chunkOutcome' = [c \in 1..Chunks |-> IF c \in Range(untaken) THEN "cancelled" ELSE chunkOutcome[c]]
  /\ UNCHANGED <<runs, cacheOn, checkpoints, unfinished, readings, requests, overview, profile,
                 refused>>

RaiseFailure ==
  /\ chunkPc = "ending" /\ BusyChunks = {} /\ chunkPc' = "failed"
  /\ UNCHANGED <<runs, cacheOn, checkpoints, untaken, unfinished, readings, requests,
                 chunkOutcome, overview, profile, refused>>

\* Mutant: the chunks that were read are merged without the others.
EveryOneThatEnded == \A c \in 1..Chunks : chunkOutcome[c] # ""

EveryChunkRead == \A c \in 1..Chunks : chunkOutcome[c] = "ok"

Content(c) ==
  IF \E p \in readings[c] : p[1] = Root THEN (CHOOSE p \in readings[c] : p[1] = Root)[2] ELSE <<>>

\* The overview is asked for twice at most, and kept for a run with the same readings.
Overview ==
  /\ chunkPc = "reading" /\ EveryChunkRead
  /\ LET kept == \E v \in checkpoints : v[1] = 0 /\ v[4] = [c \in 1..Chunks |-> Content(c)]
     IN \/ /\ chunkPc' = "profile" /\ profile' = [c \in 1..Chunks |-> Content(c)]
           /\ checkpoints' = IF cacheOn THEN checkpoints \cup {<<0, Root, "overview", profile'>>} ELSE checkpoints
           /\ UNCHANGED overview
        \/ /\ ~(cacheOn /\ kept) /\ overview' = overview + 1
           /\ chunkPc' \in (IF overview = 1 THEN {"failed"} ELSE {"reading", "failed"})
           /\ UNCHANGED <<checkpoints, profile>>
  /\ UNCHANGED <<runs, cacheOn, untaken, unfinished, readings, requests, chunkOutcome, refused>>

ChunksInit ==
  /\ chunkPc = "idle" /\ runs = 0 /\ cacheOn \in BOOLEAN /\ checkpoints = {} /\ untaken = <<>>
  /\ unfinished = [c \in 1..Chunks |-> <<>>] /\ readings = [c \in 1..Chunks |-> {}]
  /\ requests = [c \in 1..Chunks |-> 0] /\ chunkOutcome = [c \in 1..Chunks |-> ""]
  /\ overview = 0 /\ profile = <<>> /\ refused = {}

ChunksNext == Begin \/ TakeChunk \/ Cancel \/ RaiseFailure \/ Overview \/ \E c \in 1..Chunks : Step(c)

ChunksSpec == ChunksInit /\ [][ChunksNext]_chunkVars

-----------------------------------------------------------------------------
(* A profile is merged from every chunk, read in full and in the order of its       *)
(* source, however it was split, failed, cached and resumed.                        *)
ProfileWhole ==
  chunkPc = "profile" => \A c \in 1..Chunks : profile[c] = <<1, 2, 3, 4>>

(* A fragment whose answer was cut off and that can be split is not asked for again *)
(* by a later run: it starts from the halves.                                       *)
CutOffNotRepeated ==
  \A c \in 1..Chunks : unfinished[c] # <<>> /\ Head(unfinished[c])[1] = "resolve" =>
    (<<c, Head(unfinished[c])[2]>> \in refused => Cached(c, Head(unfinished[c])[2], "split"))
=============================================================================
