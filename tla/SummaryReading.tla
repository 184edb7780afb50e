----------------------------- MODULE SummaryReading -----------------------------
(***************************************************************************)
(* Reading one batch of source passages for the company introduction         *)
(* (agent/summary_reader.py, agent/summary_read_repair.py): the model divides *)
(* the numbered lines into parts, and every line belongs to exactly one.     *)
(* After one complete correction only gaps, or only the rejected parts, are  *)
(* read again; parts that were accepted are not touched.                     *)
(***************************************************************************)
EXTENDS Integers, FiniteSets

CONSTANTS
  LineCount,  \* source lines of the batch
  BlankLines  \* those with whitespace only

VARIABLES
  readingPc,
  parts,      \* the parts of the batch, once it is read
  ranges,     \* spans a further request may assign
  retained,   \* parts that request must leave alone
  turn        \* targeted_attempt

readingVars == <<readingPc, parts, ranges, retained, turn>>

\* The blank lines are lines of the batch.
ASSUME ReadingAssumption == LineCount \in Nat /\ BlankLines \subseteq 1..LineCount

Lines == 1..LineCount

\* A quotation outside its part is a "binding" fault, as is a layout part with
\* unproved lines; a statement its quotation does not support is a "wording" one.
PartReplies ==
  {p \in [first : Lines, last : 1..LineCount + 1, role : {"content", "layout"},
          fault : {"none", "wording", "binding"}] :
     p.first <= p.last /\ (p.role = "layout" => p.fault # "wording")}

\* Bound: replies of one or two parts.
Answers == {{p, q} : p, q \in PartReplies}

Span(p) == p.first..p.last
Owned(set) == UNION {Span(p) : p \in set}
Outside(p) == p.last > LineCount

-----------------------------------------------------------------------------
(* bind_reading and reconcile_layout *)

\* The part without the other's lines, where that is its beginning or its end.
Cut(p, q) == IF p.first = q.first THEN [p EXCEPT !.first = q.last + 1]
                                  ELSE [p EXCEPT !.last = q.first - 1]

RepeatsLines(p, q) ==
  /\ Span(q) \subseteq Span(p) /\ Span(q) # Span(p) /\ (p.first = q.first \/ p.last = q.last)
  /\ \A o \in {p, q} : o.role = "content" /\ o.fault # "binding" /\ ~Outside(o)

\* A correction may give a part lines that belong to a narrower one; they are cut
\* off where no quotation of the part needs them.
Trimmed(answer) ==
  {answer} \cup {(answer \ {s[1]}) \cup {Cut(s[1], s[2])} :
                  s \in {t \in answer \X answer : RepeatsLines(t[1], t[2])}}

\* From the second reply on, an unsupported statement is replaced by its literal
\* passage, and a layout part that ends one line late is cut; targeted readings
\* also recover facts that cross parts.
BoundTo(p, fallback, targeted) ==
  [p EXCEPT !.fault = IF p.role = "content" /\ ~Outside(p)
                         /\ (targeted \/ (fallback /\ @ = "wording")) THEN "none" ELSE @,
            !.last = IF fallback /\ p.role = "layout" /\ Outside(p) THEN LineCount ELSE @]

\* Blank lines nobody assigned, as maximal runs.
BlankRuns(set) ==
  LET free == BlankLines \ Owned(set)
  IN {[first |-> r[1], last |-> r[2], role |-> "layout", fault |-> "none"] :
        r \in {s \in free \X free : /\ s[1] <= s[2] /\ s[1]..s[2] \subseteq free
                                   /\ s[1] - 1 \notin free /\ s[2] + 1 \notin free}}

Redundant(p, set) ==
  p.role = "layout" /\ ~Outside(p) /\ Span(p) \subseteq Owned(set \ {p})

\* Layout parts whose lines all belong to others go, in the order of the reply.
Reconciled(set) ==
  {kept \cup BlankRuns(kept) : kept \in {k \in SUBSET set :
     /\ \A p \in set \ k : p.role = "layout" /\ ~Outside(p)
     /\ Owned(k) = Owned(set)
     /\ \A p \in k : ~Redundant(p, k)}}

-----------------------------------------------------------------------------
(* reading_errors and line_coverage *)

Gaps(set)     == Lines \ Owned(set)
Overlaps(set) == {l \in Lines : \E p, q \in set : p # q /\ l \in Span(p) \cap Span(q)}
Faulty(set)   == {p \in set : p.fault # "none"}
Escaping(set) == {p \in set : Outside(p)}

SoundReading(set) == Gaps(set) \cup Overlaps(set) = {} /\ Faulty(set) \cup Escaping(set) = {}

\* missing_ranges: gaps only, where nothing overlaps or escapes.
GapsOnly(set) == Gaps(set) # {} /\ Overlaps(set) = {} /\ Faulty(set) \cup Escaping(set) = {}

\* _whole_part_ranges: the lines grow to whole parts; what they touch is replaced.
Closure(lines, set) ==
  CHOOSE c \in SUBSET Lines :
    /\ lines \subseteq c
    /\ \A p \in set : Span(p) \cap c # {} => Span(p) \subseteq c
    /\ \A d \in SUBSET Lines :
         /\ lines \subseteq d
         /\ \A p \in set : Span(p) \cap d # {} => Span(p) \subseteq d
         => c \subseteq d

-----------------------------------------------------------------------------
FailReading == readingPc' = "failed" /\ UNCHANGED <<parts, ranges, retained, turn>>

\* A request fails, is truncated, or its format repair fails; or the reading is
\* cancelled.
LoseReading == readingPc \notin {"read", "failed"} /\ FailReading

\* cached_reading: a stored batch counts only if it passes today's checks.
Recall ==
  /\ readingPc = "first"
  /\ \E stored \in Answers : SoundReading(stored) /\ readingPc' = "read" /\ parts' = stored
  /\ UNCHANGED <<ranges, retained, turn>>

\* _read_batch_impl, first reply.
ReadFirst ==
  /\ readingPc = "first"
  /\ \E answer \in Answers : \E set \in Reconciled({BoundTo(p, FALSE, FALSE) : p \in answer}) :
       IF SoundReading(set) THEN readingPc' = "read" /\ parts' = set
       ELSE readingPc' = "second" /\ UNCHANGED parts
  /\ UNCHANGED <<ranges, retained, turn>>

\* repair_rejected_parts: faulty and overlapping parts are read again with the
\* gaps and the lines their quotations reach.
Targeted(set) ==
  LET rejected == Faulty(set) \cup {p \in set : Span(p) \cap Overlaps(set) # {}}
  IN  /\ Escaping(set) = {} /\ rejected # {}
      /\ \E reach \in SUBSET Lines :
           /\ (\A p \in rejected : p.fault = "none") => reach = {}
           /\ LET lines == Closure(Gaps(set) \cup Owned(rejected) \cup reach, set)
              IN  /\ ranges' = lines
                  /\ retained' = {p \in set : Span(p) \cap lines = {}}
      /\ readingPc' = "targeted" /\ turn' = 0

\* The second reply; failing that, only its gaps or its rejected parts.
ReadSecond ==
  /\ readingPc = "second"
  /\ \E answer \in Answers : \E cut \in Trimmed(answer) :
     \E set \in Reconciled({BoundTo(p, TRUE, FALSE) : p \in cut}) :
       \/ SoundReading(set) /\ readingPc' = "read" /\ parts' = set /\ UNCHANGED <<ranges, retained, turn>>
       \/ /\ GapsOnly(set)
          /\ readingPc' = "missing" /\ ranges' = Gaps(set) /\ retained' = set
          /\ UNCHANGED <<parts, turn>>
       \/ ~SoundReading(set) /\ ~GapsOnly(set) /\ Targeted(set) /\ UNCHANGED parts
       \/ Escaping(set) # {} /\ FailReading

\* _read_missing: the gaps only, and the whole must then pass.
ReadMissing ==
  /\ readingPc = "missing"
  /\ \E answer \in Answers : \E cut \in Trimmed(answer) :
       LET set == retained \cup {BoundTo(p, TRUE, FALSE) : p \in cut}
       IN IF Owned(answer) \subseteq ranges /\ SoundReading(set)
          THEN readingPc' = "read" /\ parts' = set /\ UNCHANGED <<ranges, retained, turn>>
          ELSE FailReading

\* Mutant: a candidate needs only to touch a requested range.
ScopedLoosely(answer) == {p \in answer : Span(p) \cap ranges # {}}

\* _owned_replacements: candidates inside the ranges; repeated accepted lines are
\* ignored, anything that crosses is refused.
Scoped(answer) == {p \in answer : Span(p) \subseteq ranges}

Crossing(answer) ==
  {p \in answer \ Scoped(answer) : ~(Span(p) \subseteq Owned(retained))}

\* A crossing proposal has one fresh reading of the same ranges.
RetryScope(answer) ==
  /\ Crossing(answer) # {} /\ turn = 0
  /\ \A p \in Crossing(answer) : Span(p) \subseteq Lines /\ Span(p) \cap ranges # {}
  /\ turn' = 1 /\ UNCHANGED <<readingPc, parts, ranges, retained>>

\* Short layout parts that are still unproved are decided once more.
RetryLayout(set, additions) ==
  LET failed == {p \in additions \cap set : p.role = "layout" /\ p.fault # "none"}
  IN  /\ turn = 0 /\ failed # {} /\ SoundReading((set \ failed) \cup {[p EXCEPT !.fault = "none"] : p \in failed})
      /\ turn' = 1 /\ ranges' = Owned(failed) /\ retained' = set \ failed
      /\ UNCHANGED <<readingPc, parts>>

ReadTargeted ==
  /\ readingPc = "targeted"
  /\ \E answer \in Answers :
       IF Crossing(answer) # {} THEN RetryScope(answer) \/ FailReading
       ELSE IF Scoped(answer) = {} THEN FailReading
       ELSE \E cut \in Trimmed(Scoped(answer)) :
            LET additions == {BoundTo(p, TRUE, TRUE) : p \in cut}
            IN \E set \in Reconciled(retained \cup additions) :
                 \/ /\ SoundReading(set) /\ readingPc' = "read" /\ parts' = set
                    /\ UNCHANGED <<ranges, retained, turn>>
                 \/ ~SoundReading(set) /\ (RetryLayout(set, additions) \/ FailReading)

ReadingInit == readingPc = "first" /\ parts = {} /\ ranges = {} /\ retained = {} /\ turn = 0

ReadingNext == LoseReading \/ Recall \/ ReadFirst \/ ReadSecond \/ ReadMissing \/ ReadTargeted

ReadingSpec == ReadingInit /\ [][ReadingNext]_readingVars

-----------------------------------------------------------------------------
(* A batch is read when every line belongs to exactly one sound part, and a     *)
(* repair has kept every part it was not asked about, although the final        *)
(* reconciliation may drop parts as redundant ("accepted parts are neither      *)
(* clipped nor rebound", agent/summary_read_repair.py:119).                     *)
AcceptedPartsKept == readingPc = "read" => SoundReading(parts) /\ retained \subseteq parts
=============================================================================
