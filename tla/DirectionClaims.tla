--------------------------- MODULE DirectionClaims ---------------------------
(***************************************************************************)
(* The words of a slide that state a movement, checked against the values   *)
(* they are about and repaired (validation/claim_validator.py).  A metric   *)
(* has a family, which decides what its movements are called, and one       *)
(* series per period basis.  A word of the copy names the metrics it is     *)
(* about, the series whose periods it states and the part of them.  Text is *)
(* its words of movement, each at an offset; a repair replaces one of them, *)
(* from right to left, and a slide whose repair breaks a claim is restored. *)
(***************************************************************************)
EXTENDS Integers, SequencesExt

CONSTANTS
  Metrics,
  Evidence,    \* functions from Metrics to [family, series], series of [basis, values, agrees]
  Slides       \* sequences of components, each a sequence of words

VARIABLES
  facts,       \* the evidence of the slide
  before,      \* the slide as it was written
  slide,       \* the slide under repair
  issues,      \* issues that are still to be repaired
  pc

vars == <<facts, before, slide, issues, pc>>

Abs(x) == IF x < 0 THEN -x ELSE x

\* A movement of magnitude, one that keeps its sign, and one that crosses zero.
Magnitude(a, b, more, less) == IF Abs(b) > Abs(a) THEN more ELSE less
Signed(a, b) == IF b > a THEN "increased" ELSE "decreased"
Crossing(a, b, up, down) == IF b > a THEN up ELSE down

\* determine_trend_state: the family is decided first, then the signs.
Trend(f, a, b) ==
  CASE a = b -> "flat"
    [] f \in {"expense", "deficit"} /\ a * b < 0 -> Crossing(a, b, "positive", "negative")
    [] f = "expense" -> Magnitude(a, b, "increased", "decreased")
    [] f = "deficit" -> Magnitude(a, b, "deficit widened", "deficit narrowed")
    [] f = "gain" /\ a * b < 0 -> Crossing(a, b, "loss to gain", "gain to loss")
    [] f = "profit" /\ a * b < 0 -> Crossing(a, b, "loss to profit", "profit to loss")
    [] f = "loss" /\ a * b < 0 -> "ambiguous"
    [] f \in {"gain", "profit", "loss"} /\ a < 0 /\ b < 0 -> Magnitude(a, b, "loss widened", "loss narrowed")
    [] f = "loss" /\ a > 0 /\ b > 0 -> Magnitude(a, b, "loss widened", "loss narrowed")
    [] f = "cash" /\ a < 0 /\ b < 0 -> Magnitude(a, b, "outflow increased", "outflow narrowed")
    [] f \in {"cash", "standard"} /\ a * b < 0 -> Crossing(a, b, "positive", "negative")
    [] OTHER -> Signed(a, b)

\* Families whose movements may be called by the words of profit and loss.
OfProfitAndLoss == {"profit", "loss", "gain"}
LossWords == {"to profit", "to loss", "loss narrowed", "loss widened"}

To(words, new) == [w \in words |-> new]
\* The words that contradict a plain movement, and what each of them is replaced by.
PlainWords(state, family) ==
  CASE state = "increased" /\ family = "cash" ->
         To({"decreased"}, "increased") @@ To({"widened", "loss narrowed", "loss widened"}, "narrowed")
    [] state = "increased" /\ family = "expense" ->
         To({"decreased", "widened", "narrowed", "loss narrowed", "loss widened"}, "increased")
    [] state = "increased" /\ family \notin {"cash", "expense"} -> To({"decreased", "narrowed", "loss narrowed"}, "increased")
    [] state = "decreased" /\ family = "expense" ->
         To({"increased", "widened", "narrowed", "loss narrowed", "loss widened"}, "decreased")
    [] state = "decreased" /\ family # "expense" -> To({"increased", "widened", "loss widened"}, "decreased")
    [] state = "positive" ->
         To({"to profit", "to loss", "loss narrowed", "loss widened", "decreased", "deteriorated",
             "widened", "narrowed"}, "positive")
    [] state = "negative" -> To({"to profit", "to loss", "improved", "increased"}, "negative")
    [] OTHER -> <<>>

\* The same for a movement of a loss, a deficit or an outflow.
LossesAndDeficits(state) ==
  CASE state = "loss narrowed" ->
         To({"widened", "increased"}, "narrowed") @@ To({"loss widened"}, "loss narrowed")
           @@ To({"deteriorated"}, "improved")
    [] state = "loss widened" ->
         To({"narrowed", "decreased"}, "widened") @@ To({"loss narrowed"}, "loss widened")
           @@ To({"deteriorated"}, "improved")
    [] state = "loss to profit" ->
         To({"loss narrowed", "loss widened", "widened", "narrowed", "deteriorated", "decreased"}, "to profit")
    [] state = "profit to loss" -> To({"improved", "increased"}, "to loss")
    [] state = "deficit widened" -> To({"decreased", "narrowed"}, "widened") @@ To({"improved"}, "deteriorated")
    [] state = "deficit narrowed" -> To({"increased", "widened"}, "narrowed") @@ To({"deteriorated"}, "improved")
    [] state = "gain to loss" ->
         To({"improved", "increased", "to profit", "positive", "narrowed", "loss narrowed"}, "gain to loss")
    [] state = "loss to gain" ->
         To({"deteriorated", "decreased", "to loss", "negative", "widened", "loss widened"}, "loss to gain")
    [] state = "outflow increased" -> To({"narrowed", "decreased", "improved"}, "increased")
    [] state = "outflow narrowed" -> To({"increased", "widened"}, "narrowed") @@ To({"deteriorated"}, "improved")
    [] OTHER -> <<>>

Replacements(state, family) == PlainWords(state, family) @@ LossesAndDeficits(state)

\* What a movement is called when its table has no word for the one that is replaced.
Plainly(state) ==
  CASE state = "loss to profit" -> "to profit" [] state = "profit to loss" -> "to loss"
    [] state \in {"loss widened", "deficit widened"} -> "widened"
    [] state \in {"loss narrowed", "deficit narrowed", "outflow narrowed"} -> "narrowed"
    [] state = "outflow increased" -> "increased" [] OTHER -> state

\* _detect_offending_in_text; two words also state the sign a series ends with.
Contradicts(word, state, family) ==
  \/ family \notin OfProfitAndLoss /\ word \in LossWords
  \/ word \in DOMAIN Replacements(state, family)
Offends(word, state, family, last) ==
  \/ Contradicts(word, state, family)
  \/ word = "negative" /\ last >= 0
  \/ word = "positive" /\ last <= 0

\* What apply_structured_issue_replacement writes: never a word of loss about another family.
NewWord(word, state, family) ==
  LET table == Replacements(state, family)
      found == IF word \in DOMAIN table THEN table[word] ELSE Plainly(state)
  IN  IF family \notin OfProfitAndLoss /\ found \in LossWords
        THEN IF state = "increased" THEN "increased" ELSE "decreased"
        ELSE found
-----------------------------------------------------------------------------
SeriesOf(m) == facts[m].series
Family(m) == facts[m].family
StateOf(m, values) == Trend(Family(m), Head(values), Last(values))
Reverses(values) ==
  \E i, j \in 1..(Len(values) - 1) : values[i + 1] > values[i] /\ values[j + 1] < values[j]

\* The values a word is about in one series: the stated part of it, or all of it.
Scoped(m, n, w) ==
  LET values == SeriesOf(m)[n].values IN
  IF w.range = <<>> THEN values ELSE SubSeq(values, w.range[1], w.range[2])
Missing(m, n, w) == w.range # <<>> /\ w.range[2] > Len(SeriesOf(m)[n].values)

\* The series whose periods the word states; the only one needs no period.
Matching(m, w) ==
  IF w.on = {} /\ Len(SeriesOf(m)) = 1 THEN {1} ELSE w.on \cap DOMAIN SeriesOf(m)

\* Offsets: a phrase is longer than a word, and a stated period follows it.
Width(w) == IF w.word \in {"increased", "decreased", "widened", "narrowed", "improved", "deteriorated"} THEN 1 ELSE 2
Length(w) == Width(w) + 2 * Cardinality(w.on)
Start(text, k) == SumFunction([i \in 1..(k - 1) |-> Length(text[i])])
Span(text, k) == <<Start(text, k), Start(text, k) + Width(text[k])>>

Issue(c, m, expected, word, span, periods) ==
  [component |-> c, metric |-> m, expected |-> expected, word |-> word, span |-> span,
   periods |-> periods, blocked |-> FALSE]

\* A movement across series, or between observations that do not compare: reported once a component.
Incomparable(m, w) == w.cross \/ \E n \in DOMAIN SeriesOf(m) : ~SeriesOf(m)[n].agrees
\* A movement that states no period although the metric has several series: also reported once.
Unqualified(m, w) == ~Incomparable(m, w) /\ Matching(m, w) = {}
First(k, words) == k \in words /\ ~\E j \in words : j < k
WordsOf(s, c, m) == {j \in DOMAIN s[c] : m \in s[c][j].of}

\* What an unqualified movement may be bound to: all series when they agree, or the first that
\* supports the word, or the annual one.
Bound(m, word) ==
  LET states == [n \in DOMAIN SeriesOf(m) |-> StateOf(m, SeriesOf(m)[n].values)]
      supporting == {n \in DOMAIN states : ~Contradicts(word, states[n], Family(m))}
      annual == {n \in DOMAIN states : SeriesOf(m)[n].basis = "FY"}
      one == IF supporting # {} THEN Min(supporting) ELSE IF annual # {} THEN Min(annual) ELSE 1
  IN  IF \A n \in DOMAIN states : states[n] = states[1]
        THEN [state |-> states[1], series |-> DOMAIN states]
        ELSE [state |-> states[one], series |-> {one}]

\* The issues of one word for one of its metrics.
WordIssues(s, c, k, m) ==
  LET w == s[c][k]
      bound == Bound(m, w.word)
      Told(n) == w.told /\ w.range = <<>> /\ Reverses(SeriesOf(m)[n].values)
  IN  IF Incomparable(m, w)
        THEN IF First(k, {j \in WordsOf(s, c, m) : Incomparable(m, s[c][j])}) THEN {Issue(c, m, "incompatible", w.word, <<>>, {})} ELSE {}
      ELSE IF Unqualified(m, w)
        THEN IF First(k, {j \in WordsOf(s, c, m) : Unqualified(m, s[c][j])}) THEN {Issue(c, m, bound.state, w.word, <<>>, bound.series)} ELSE {}
      ELSE UNION {
        IF Missing(m, n, w) THEN {Issue(c, m, "unresolved", w.word, <<>>, {})}
        ELSE LET values == Scoped(m, n, w)
                 state == StateOf(m, values)
             IN  IF state = "ambiguous" THEN {Issue(c, m, state, w.word, <<>>, {})}
                 ELSE IF Offends(w.word, state, Family(m), Last(values)) /\ ~Told(n)
                   THEN {Issue(c, m, state, w.word, Span(s[c], k), {})}
                 ELSE {} : n \in Matching(m, w)}

\* Bind every issue without an offset to the only place its word stands at, if there is one.
Placed(s, i) ==
  LET places == {k \in DOMAIN s[i.component] : s[i.component][k].word = i.word /\ i.metric \in s[i.component][k].of}
  IN  IF i.span = <<>> /\ Cardinality(places) = 1
        THEN [i EXCEPT !.span = Span(s[i.component], CHOOSE k \in places : TRUE)] ELSE i

\* A word about several metrics is repaired for all of them or for none.
OthersSupported(s, i, all) ==
  \E k \in DOMAIN s[i.component] :
    /\ Cardinality(s[i.component][k].of) > 1
    /\ i.span = Span(s[i.component], k)
    /\ {j.metric : j \in {x \in all : x.component = i.component /\ x.span = i.span}} # s[i.component][k].of

\* Mutant: a word is repaired for the metric it is wrong about.
EachAlone(s, i, all) == FALSE

Blocked(s, i, all) == OthersSupported(s, i, all)

\* validate_slide.
Validate(s) ==
  LET found == {Placed(s, i) : i \in UNION {UNION {UNION {
                  WordIssues(s, c, k, m) : m \in s[c][k].of} : k \in DOMAIN s[c]} : c \in DOMAIN s}}
  IN  {[i EXCEPT !.blocked = Blocked(s, i, found)] : i \in found}

\* repair_presentation_plan validates the slide and edits it by the issues it finds.
Check ==
  /\ pc = "check"
  /\ issues' = Validate(slide)
  /\ pc' = "repair"
  /\ UNCHANGED <<facts, before, slide>>

\* Mutant: the first issue is repaired first.
LeftToRight(i) == ~\E j \in issues : j.component = i.component /\ j.span # <<>> /\ i.span # <<>> /\ j.span[1] < i.span[1]

\* Edits go from right to left, so that the offsets of the earlier ones stay valid.
Rightmost(i) == ~\E j \in issues : j.component = i.component /\ j.span # <<>> /\ i.span # <<>> /\ j.span[1] > i.span[1]

OneExpectation(i) ==
  \A j \in Validate(before) : j.component = i.component /\ j.span = i.span => j.expected = i.expected

\* The issues that may be repaired, and where: the word must still stand at its offset.
Repairable(i) ==
  /\ i.span # <<>> /\ ~i.blocked /\ OneExpectation(i)
  /\ i.expected \notin {"ambiguous", "incompatible", "unresolved", "flat"}
Place(i) == {k \in DOMAIN slide[i.component] : Span(slide[i.component], k) = i.span /\ slide[i.component][k].word = i.word}

Replace(i, k) ==
  [slide EXCEPT ![i.component][k].word = NewWord(i.word, i.expected, Family(i.metric)),
                ![i.component][k].on = @ \cup i.periods]

Repair ==
  /\ pc = "repair" /\ issues # {}
  /\ \E i \in {x \in issues : Rightmost(x)} :
       /\ issues' = issues \ {i}
       /\ \/ Repairable(i) /\ \E k \in Place(i) : slide' = Replace(i, k)
          \/ ~(Repairable(i) /\ Place(i) # {}) /\ UNCHANGED slide
  /\ UNCHANGED <<facts, before, pc>>

\* An issue is known by what it says, not by where it stands.
KeyOf(i) == <<i.component, i.metric, i.expected>>
Introduced == {i \in Validate(slide) : KeyOf(i) \notin {KeyOf(j) : j \in Validate(before)}}

\* Mutant: only the number of issues counts.
MoreThanBefore == Cardinality(Validate(slide)) > Cardinality(Validate(before))

\* A repair that introduces an issue is taken back with its whole slide.
Unsafe == Introduced # {}

Keep ==
  /\ pc = "repair" /\ issues = {}
  /\ slide' = IF Unsafe THEN before ELSE slide
  /\ pc' = "done"
  /\ UNCHANGED <<facts, before, issues>>

Init ==
  /\ facts \in Evidence /\ before \in Slides
  /\ slide = before /\ issues = {} /\ pc = "check"

Next == Check \/ Repair \/ Keep

Spec == Init /\ [][Next]_vars
-----------------------------------------------------------------------------
\* The issues at one word of a slide.
At(s, c, k) == UNION {WordIssues(s, c, k, m) : m \in s[c][k].of}

(* A word that the values of one of its metrics support is never changed for *)
(* another of them, and every issue that may be repaired is: an edit moves   *)
(* no word that a later edit still has to find.                              *)
SupportedWordsKept ==
  /\ \A c \in DOMAIN before : \A k \in DOMAIN before[c] :
       (\E m \in before[c][k].of : ~Unqualified(m, before[c][k]) /\ ~Incomparable(m, before[c][k])
                                   /\ WordIssues(before, c, k, m) = {})
         => slide[c][k] = before[c][k]
  /\ pc = "repair" /\ issues = {} =>
       \A i \in Validate(before) : \A k \in DOMAIN before[i.component] :
         Repairable(i) /\ Span(before[i.component], k) = i.span /\ before[i.component][k].word = i.word
           => slide[i.component][k] # before[i.component][k]

(* A repair contradicts nothing that was not contradicted before, and a      *)
(* changed word agrees with every series whose periods it now states.  (One  *)
(* with the periods of two series may be changed for one of them and contradict   *)
(* the other under a key that an issue of the component already has.)        *)
RepairsAgree ==
  pc = "done" =>
    /\ {KeyOf(i) : i \in Validate(slide)} \subseteq {KeyOf(i) : i \in Validate(before)}
    /\ \A c \in DOMAIN slide : \A k \in DOMAIN slide[c] :
         slide[c][k] # before[c][k] /\ Cardinality(before[c][k].on) < 2 =>
           \A m \in slide[c][k].of : Unqualified(m, slide[c][k]) \/ WordIssues(slide, c, k, m) = {}

(* What is repaired says what the values do: a loss that grows is never      *)
(* called an improvement, nor one that shrinks a deterioration.              *)
Better(m, n, w) ==
  StateOf(m, Scoped(m, n, w)) \in {"loss narrowed", "loss to profit", "loss to gain", "deficit narrowed", "outflow narrowed"}
Worse(m, n, w) ==
  StateOf(m, Scoped(m, n, w)) \in {"loss widened", "profit to loss", "gain to loss", "deficit widened", "outflow increased"}
RepairsTellTheTruth ==
  \A c \in DOMAIN slide : \A k \in DOMAIN slide[c] : slide[c][k] # before[c][k] =>
    \A m \in slide[c][k].of : \A n \in Matching(m, slide[c][k]) :
      /\ slide[c][k].word = "improved" => ~Worse(m, n, slide[c][k])
      /\ slide[c][k].word = "deteriorated" => ~Better(m, n, slide[c][k])
=============================================================================
