----------------------------- MODULE VisualChecks -----------------------------
(***************************************************************************)
(* The last gate of an export (services/presentation_visual_qa.py): the    *)
(* deck is rendered and what the pages show is inspected; sources that     *)
(* overlap other content and boxes that leave the canvas are moved, twice  *)
(* at most, and what is still wrong then blocks the export.  Slides are    *)
(* repaired apart from one another: the model has one.  A box is           *)
(* <<left, top, width, height>> in the renderer's pixels.                  *)
(***************************************************************************)
EXTENDS Integers, Sequences, FiniteSets, FiniteSetsExt, SequencesExt

CONSTANTS Slides, Width, Height, MaxRepairs

VARIABLES
  pc,        \* "render", "repair", "passed" or "blocked"
  slide,     \* the elements of the slide, those its layout adds after its own
  original,  \* history: the slide of the export
  before,    \* history: the slide as it was last rendered
  attempt

vars == <<pc, slide, original, before, attempt>>

Abs(n) == IF n < 0 THEN -n ELSE n
Lower(a, b) == IF a < b THEN a ELSE b
Upper(a, b) == IF a < b THEN b ELSE a
Span(a, m, b, n) == Upper(0, Lower(a + m, b + n) - Upper(a, b))

\* The area two boxes share, in square pixels.
Intersection(a, b) == Span(a[1], a[3], b[1], b[3]) * Span(a[2], a[4], b[2], b[4])
Area(b) == b[3] * b[4]

Data(e) == e.kind \in {"chart", "table"}
Worded(e) == e.kind \in {"text", "source"}
BodyOfAll(s) == DOMAIN s
Body(s) == {i \in DOMAIN s : ~s[i].inherited}

-----------------------------------------------------------------------------
(* What an inspection finds *)

OutOfBounds(b) == b[1] < -2 \/ b[2] < -2 \/ b[1] + b[3] > Width + 2 \/ b[2] + b[4] > Height + 2

Overlapped(s, i) ==
  /\ s[i].kind = "source"
  /\ \E j \in DOMAIN s \ {i} : Intersection(s[i].box, s[j].box) > 8 /\ (Worded(s[j]) \/ Data(s[j]))

\* Two charts or tables over one another; two texts are a warning only.
Colliding(a, b) ==
  Data(a) /\ Data(b) /\ 100 * Intersection(a.box, b.box) > 15 * Lower(Area(a.box), Area(b.box))

Issue(code, of) == [code |-> code, of |-> of]
Critical(s) ==
  {Issue("out_of_bounds", {i}) : i \in {i \in Body(s) : OutOfBounds(s[i].box)}}
    \cup {Issue("source_overlap", {i}) : i \in {i \in Body(s) : Overlapped(s, i)}}
    \cup {Issue("data_overlap", p) : p \in {p \in kSubset(2, Body(s)) : \A i, j \in p : i = j \/ Colliding(s[i], s[j])}}
    \cup {Issue("missing", {i}) : i \in {i \in Body(s) : ~s[i].rendered}}

\* In the order of the report: element by element.
Movable ==
  FlattenSeq([i \in DOMAIN slide |->
    SelectSeq(<<Issue("out_of_bounds", {i}), Issue("source_overlap", {i})>>, LAMBDA f : f \in Critical(slide))])

-----------------------------------------------------------------------------
(* Repairs *)

\* A source goes up in steps of eight pixels, a box at the edge comes back in.
Places(f, b) ==
  IF f.code = "source_overlap"
  THEN [k \in 1..((Height \div 4 - 1) \div 8) |-> <<b[1], b[2] - 8 * k>>]
  ELSE IF b[3] <= Width - 8 /\ b[4] <= Height - 8
  THEN <<<<Lower(Upper(4, b[1]), Width - b[3] - 4), Lower(Upper(4, b[2]), Height - b[4] - 4)>>>>
  ELSE <<>>

Padded(b) == <<b[1] - 3, b[2] - 3, b[3] + 6, b[4] + 6>>

\* Free: near, on the canvas, and not over another element where that was rendered.
FreeOfBody(i, b) ==
  LET old == slide[i].box IN
  /\ b[1] >= 0 /\ b[2] >= 0 /\ b[1] + b[3] <= Width /\ b[2] + b[4] <= Height
  /\ 4 * (Abs(b[1] - old[1]) + Abs(b[2] - old[2])) <= Height
  /\ \A j \in Body(slide) \ {i} : Intersection(Padded(b), slide[j].box) <= 1
FreeAnywhere(i, b) ==
  /\ b[1] >= 0 /\ b[2] >= 0 /\ b[1] + b[3] <= Width /\ b[2] + b[4] <= Height
  /\ \A j \in DOMAIN slide \ {i} : Intersection(Padded(b), slide[j].box) <= 1
Free(i, b) ==
  LET old == slide[i].box IN
  /\ b[1] >= 0 /\ b[2] >= 0 /\ b[1] + b[3] <= Width /\ b[2] + b[4] <= Height
  /\ 4 * (Abs(b[1] - old[1]) + Abs(b[2] - old[2])) <= Height
  /\ \A j \in DOMAIN slide \ {i} : Intersection(Padded(b), slide[j].box) <= 1

\* The new boxes: the first free place of each element with an issue.
Moves ==
  LET Try(acc, f) ==
        LET i    == CHOOSE i \in f.of : TRUE
            old  == slide[i].box
            put  == [k \in DOMAIN Places(f, old) |-> Places(f, old)[k] \o <<old[3], old[4]>>]
            free == SelectSeq(put, LAMBDA b : Free(i, b))
        IN  IF i \in DOMAIN acc \/ free = <<>> THEN acc
            ELSE [j \in DOMAIN acc \cup {i} |-> IF j = i THEN free[1] ELSE acc[j]]
  IN  FoldLeft(Try, [i \in {} |-> <<>>], Movable)

\* An element without a transform of its own stays where it is.
Moved == [i \in DOMAIN slide |->
  IF i \in DOMAIN Moves /\ ~slide[i].fixed THEN [slide[i] EXCEPT !.box = Moves[i]] ELSE slide[i]]

-----------------------------------------------------------------------------
(* verify_presentation *)

\* The renderer may fail, or leave out pages, at every attempt.
Render ==
  /\ pc = "render" /\ before' = slide /\ attempt' = attempt + 1
  /\ \/ pc' = "blocked"
     \/ pc' = IF Critical(slide) = {} THEN "passed" ELSE IF attempt = MaxRepairs THEN "blocked" ELSE "repair"
  /\ UNCHANGED <<slide, original>>

\* A repair without an effect may still give a package of other bytes.
Repair ==
  /\ pc = "repair" /\ slide' = Moved
  /\ \/ DOMAIN Moves # {} /\ pc' = "render"
     \/ Moved = slide /\ pc' = "blocked"
  /\ UNCHANGED <<original, before, attempt>>

Init == pc = "render" /\ attempt = 0 /\ slide \in Slides /\ original = slide /\ before = slide
Next == Render \/ Repair
Spec == Init /\ [][Next]_vars

-----------------------------------------------------------------------------
(* Properties *)

Displaced == {i \in DOMAIN slide : slide[i].box # before[i].box}

\* A repair helps: whatever it moved has no issue any more, and no issue is new.
\* Only two boxes moved by the same repair may meet, for each was measured
\* against where the other had been.
RepairsHelp ==
  \A f \in Critical(slide) : pc = "render" =>
    \/ f \in Critical(before) /\ (f.code = "missing" \/ f.of \cap Displaced = {})
    \/ \E i \in f.of \cap Displaced, j \in Displaced : i # j /\ Intersection(slide[i].box, slide[j].box) > 0

\* Nothing drifts: a box keeps its size, stays on the canvas once there, and ends
\* within reach of where the export put it; a chart or a text on the canvas is
\* not touched at all, nor is what the layout adds.
NothingDrifts ==
  \A i \in DOMAIN slide :
    LET e == original[i]
        b == slide[i].box
    IN  /\ b[3] = e.box[3] /\ b[4] = e.box[4]
        /\ ~OutOfBounds(e.box) => ~OutOfBounds(b)
        /\ 4 * (Abs(b[1] - e.box[1]) + Abs(b[2] - e.box[2])) <= MaxRepairs * Height
        /\ (e.inherited \/ e.fixed \/ (e.kind # "source" /\ ~OutOfBounds(e.box))) => slide[i] = e
=============================================================================
