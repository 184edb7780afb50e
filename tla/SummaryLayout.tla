------------------------------ MODULE SummaryLayout ------------------------------
(***************************************************************************)
(* Laying out an authored introduction (agent/summary_layout_repair.py): its  *)
(* paragraphs are packed on physical slides; a draft over its budget is       *)
(* rearranged without loss where that is possible, or compressed by a model,  *)
(* against the sources of the draft as it was first written.                  *)
(***************************************************************************)
EXTENDS Integers, FiniteSets, SequencesExt

CONSTANTS
  Facts,        \* source facts, each with one required meaning
  Drafts,       \* drafts a model may write: groups of paragraphs, with their
                \* text, the facts they cite and the meanings they say
  Capacity,     \* height of a slide
  Cell,         \* height of a cell of the three or four paragraph grid
  Budgets       \* values of max_intro_slides

VARIABLES
  pc,
  selected,     \* an audience selection fixes the required meanings
  rewritable,   \* allow_rewrite
  budget,       \* max_intro_slides
  draft,        \* groups of paragraphs
  protected,    \* facts the original draft cites
  attempt,      \* compressions so far
  over          \* the draft was measured and exceeds its budget

vars == <<pc, selected, rewritable, budget, draft, protected, attempt, over>>

Limit == IF selected THEN 2 ELSE 1

Paragraphs(d) == UNION {Range(d[g].items) : g \in DOMAIN d}
Cited(d)      == UNION {p.facts : p \in Paragraphs(d)}
Body(d)       == {g \in DOMAIN d : d[g].placement = "body"}

-----------------------------------------------------------------------------
(* Physical slides *)

Height(p)   == 1 + Len(p.text)
Load(items) == LET sum[i \in 0..Len(items)] == IF i = 0 THEN 0 ELSE sum[i - 1] + Height(items[i])
               IN sum[Len(items)]

\* native_summary_capacity: one column, or a grid of three or four.
FitsSlide(items) ==
  \/ Load(items) <= Capacity
  \/ Len(items) \in {3, 4} /\ \A i \in DOMAIN items : Height(items[i]) <= Cell

\* split_compact_item: a paragraph taller than a slide continues on others, bound
\* to the same facts.
Pieces(p) ==
  LET size == Capacity - 1
      RECURSIVE From(_)
      From(i) == IF i > Len(p.text) THEN <<>>
                 ELSE <<[p EXCEPT !.text = SubSeq(@, i, IF i + size > Len(@) THEN Len(@) ELSE i + size - 1)]>> \o From(i + size)
  IN IF Height(p) <= Capacity THEN <<p>> ELSE From(1)

Expanded(items) == FlattenSeq([i \in DOMAIN items |-> Pieces(items[i])])

Square(n) == n * n
Balance(pages) == LET sum[i \in 0..Len(pages)] == IF i = 0 THEN 0 ELSE sum[i - 1] + Square(Load(pages[i]))
                  IN sum[Len(pages)]

\* Mutant: a slide ends at the first paragraph that does not fit.
PackGreedily(items) ==
  LET RECURSIVE From(_)
      From(i) ==
        IF i > Len(items) THEN <<>>
        ELSE LET ends == {e \in i..Len(items) : \A f \in i..e : FitsSlide(SubSeq(items, i, f))}
                 end  == CHOOSE e \in ends : \A f \in ends : f <= e
             IN <<SubSeq(items, i, end)>> \o From(end + 1)
  IN From(1)

\* pack_theme_items: the fewest slides of up to four consecutive paragraphs, then
\* the most even, then the fullest first.
Pack(items) ==
  LET Better(p, q) ==
        \/ Len(p) < Len(q)
        \/ Len(p) = Len(q) /\ Balance(p) < Balance(q)
        \/ Len(p) = Len(q) /\ Balance(p) = Balance(q) /\ (p = q \/ Len(p[1]) > Len(q[1]))
      RECURSIVE From(_)
      From(i) ==
        LET ends == {e \in i..Len(items) : e <= i + 3 /\ FitsSlide(SubSeq(items, i, e))}
            runs == {<<SubSeq(items, i, e)>> \o From(e + 1) : e \in ends}
        IN IF i > Len(items) THEN <<>> ELSE CHOOSE p \in runs : \A q \in runs : Better(p, q)
  IN From(1)

Slides(group) == Len(Pack(Expanded(group.items)))
Sum(set, Op(_)) == FoldSet(LAMBDA g, sum : sum + Op(g), 0, set)
BodySlides(d) == Sum(Body(d), LAMBDA g : Slides(d[g]))

-----------------------------------------------------------------------------
(* What a draft must keep *)

\* deduplicate_draft: identical paragraphs of a group become one that covers both.
Deduplicated(d) ==
  LET Same(p, q) == p.text = q.text /\ p.facts = q.facts
      First(items, i) == \A j \in 1..(i - 1) : ~Same(items[j], items[i])
      Merged(items, i) ==
        [items[i] EXCEPT !.says = UNION {items[j].says : j \in {k \in DOMAIN items : Same(items[k], items[i])}}]
      Once(items) ==
        LET kept == SetToSortSeq({i \in DOMAIN items : First(items, i)}, <)
        IN [k \in DOMAIN kept |-> Merged(items, kept[k])]
  IN [g \in DOMAIN d |-> [d[g] EXCEPT !.items = Once(@)]]

\* Mutant: only the current draft's own facts are compared.
PreservingItself(d) == Cited(d) \subseteq Cited(d) /\ d[1].placement = "body"
                         /\ (selected => Body(d) = DOMAIN d)

\* compression_binding_errors, and what a compression may not do to the opening.
Preserving(d) ==
  /\ protected \subseteq Cited(d)
  /\ d[1].placement = "body"
  /\ selected => Body(d) = DOMAIN d

\* authored_coverage_errors: a cited meaning needs its fact and its sentence in the
\* very paragraph that cites it; every required meaning is cited once so.
Cites(p, f) == f \in p.says \cap p.facts \cap Range(p.text)
Unbound(d) == \E p \in Paragraphs(d) : \E f \in p.says : ~Cites(p, f)
Missing(d) == {f \in Facts : \A p \in Paragraphs(d) : ~Cites(p, f)}
Covering(d) == selected => ~Unbound(d) /\ Missing(d) = {}

-----------------------------------------------------------------------------
(* paginate_draft: one attempt *)

Sound == attempt = 0 \/ (Preserving(Deduplicated(draft)) /\ Covering(Deduplicated(draft)))

End(how) == pc' = how /\ draft' = Deduplicated(draft)
              /\ UNCHANGED <<selected, rewritable, budget, protected, attempt, over>>

Keep ==
  /\ pc = "measuring" /\ Sound /\ BodySlides(Deduplicated(draft)) <= budget
  /\ End("laid_out")

\* Over the budget, or a title, label or paragraph that never fits, which depends
\* on its wording.
Overflow ==
  /\ pc = "measuring" /\ Sound
  /\ over' \in {BodySlides(Deduplicated(draft)) > budget, FALSE}
  /\ pc' = (IF rewritable /\ attempt < Limit THEN "overflowing" ELSE "failed")
  /\ draft' = Deduplicated(draft)
  /\ UNCHANGED <<selected, rewritable, budget, protected, attempt>>

\* restore_selected_meanings: a compression that only lost meanings is written again
\* from the original, within the same budget.
Restore ==
  /\ pc = "measuring" /\ ~Sound /\ selected /\ rewritable /\ attempt < Limit
  /\ Preserving(Deduplicated(draft)) /\ ~Unbound(Deduplicated(draft))
  /\ draft' \in Drafts /\ attempt' = attempt + 1
  /\ UNCHANGED <<pc, selected, rewritable, budget, protected, over>>

Reject == pc = "measuring" /\ ~Sound /\ End("failed")

-----------------------------------------------------------------------------
(* layout_choices, allocation_choices *)

\* inline_group: one paragraph with every text, fact and meaning of the group.
Inlined(group) ==
  LET set == Range(group.items)
  IN [group EXCEPT !.items =
        <<[text  |-> FlattenSeq([i \in DOMAIN group.items |-> group.items[i].text]),
           facts |-> UNION {p.facts : p \in set}, says |-> UNION {p.says : p \in set}]>>]

Inlinable(d) ==
  LET better == {g \in Body(d) : Len(d[g].items) > 1 /\ Slides(Inlined(d[g])) < Slides(d[g])}
      least  == Sum(Body(d), LAMBDA g : IF g \in better THEN Slides(Inlined(d[g])) ELSE Slides(d[g]))
  IN IF least <= budget THEN better ELSE {}

Transferred(d, from, i, to) ==
  [d EXCEPT ![from].items = RemoveAt(@, i), ![to].items = Append(@, d[from].items[i])]

\* Mutant: the opening may be moved like any other paragraph.
MovableAlways(d, from, i) == TRUE

\* The opening paragraph stays in place.
Movable(d, from, i) == ~(i = 1 /\ \A g \in Body(d) : from <= g)

\* A transfer must shrink its source and bring the draft within its budget.  The
\* first eight of 48 probes are offered: more than these drafts have.
Transfers(d) ==
  {t \in Body(d) \X (1..Cardinality(Facts) * 4) \X Body(d) :
     LET from == t[1]  to == t[3]  moved == Transferred(d, from, t[2], to)
     IN /\ from # to /\ t[2] \in DOMAIN d[from].items /\ Len(d[from].items) > 1
        /\ Slides(d[from]) > 1 /\ Movable(d, from, t[2])
        /\ Slides(moved[from]) < Slides(d[from]) /\ BodySlides(moved) <= budget}

Final == selected /\ over /\ attempt = Limit - 1
Offered == IF Final THEN Inlinable(draft) ELSE {}
Moves   == IF Final /\ Offered = {} THEN Transfers(draft) ELSE {}

\* An unchanged draft ends an introduction without a selection.
Revise(d) ==
  /\ draft' = d /\ attempt' = attempt + 1
  /\ pc' = (IF d = draft /\ ~selected THEN "failed" ELSE "measuring")
  /\ UNCHANGED <<selected, rewritable, budget, protected, over>>

\* choose_layout: some of the offered groups, or other pages instead.
ChooseLayout ==
  /\ pc = "overflowing" /\ Offered # {}
  /\ \/ \E chosen \in SUBSET Offered :
          Revise([g \in DOMAIN draft |-> IF g \in chosen THEN Inlined(draft[g]) ELSE draft[g]])
     \/ \E d \in Drafts : Revise(d)

\* choose_allocation.
ChooseAllocation ==
  /\ pc = "overflowing" /\ Moves # {}
  /\ \/ Revise(draft)
     \/ \E t \in Moves : Revise(Transferred(draft, t[1], t[2], t[3]))
     \/ \E d \in Drafts : Revise(d)

Appendices == DOMAIN draft \ Body(draft)

\* reallocate_body: every body paragraph stays or goes to one existing appendix.
Reallocate ==
  /\ pc = "overflowing" /\ Offered = {} /\ Moves = {} /\ over /\ Appendices # {}
  /\ LET places == UNION {{g} \X DOMAIN draft[g].items : g \in Body(draft)}
         Copied(set) == LET order == SetToSortSeq(set, LAMBDA x, y : x[1] < y[1] \/ (x[1] = y[1] /\ x[2] < y[2]))
                        IN [k \in DOMAIN order |-> draft[order[k][1]].items[order[k][2]]]
     IN \E to \in [places -> Appendices \cup {0}] :
          LET kept  == {x \in places : to[x] = 0}
              moved == [g \in DOMAIN draft |->
                          [draft[g] EXCEPT !.items =
                             IF g \in Body(draft) THEN Copied({x \in kept : x[1] = g})
                             ELSE @ \o Copied({x \in places : to[x] = g})]]
          IN /\ Cardinality(kept) \in 1..(IF budget < 5 THEN budget ELSE 5)
             /\ Revise(SelectSeq(moved, LAMBDA g : g.placement = "body" /\ g.items # <<>>)
                         \o SelectSeq(moved, LAMBDA g : g.placement = "appendix"))

\* compress_pages.
Compress ==
  /\ pc = "overflowing" /\ Offered = {} /\ Moves = {} /\ ~(over /\ Appendices # {})
  /\ \E d \in Drafts : Revise(d)

\* The model's answer is lost or does not fit its schema.
Lose == pc = "overflowing" /\ pc' = "failed"
          /\ UNCHANGED <<selected, rewritable, budget, draft, protected, attempt, over>>

Init ==
  /\ pc = "measuring" /\ selected \in BOOLEAN /\ rewritable \in BOOLEAN /\ budget \in Budgets
  /\ draft \in Drafts /\ protected = Cited(draft)
  /\ attempt = 0 /\ over = FALSE

Next ==
  \/ Keep \/ Overflow \/ Restore \/ Reject
  \/ ChooseLayout \/ ChooseAllocation \/ Reallocate \/ Compress \/ Lose

Spec == Init /\ [][Next]_vars

-----------------------------------------------------------------------------
(* Every division of consecutive paragraphs on slides that fit. *)
Divisions(items) ==
  LET n == Len(items)
      Ends(cuts) == SetToSortSeq(cuts \cup {n}, <)
      Cut(cuts) == [k \in DOMAIN Ends(cuts) |->
                      SubSeq(items, IF k = 1 THEN 1 ELSE Ends(cuts)[k - 1] + 1, Ends(cuts)[k])]
  IN {d \in {Cut(cuts) : cuts \in SUBSET (1..(n - 1))} :
        \A k \in DOMAIN d : FitsSlide(d[k]) /\ Len(d[k]) <= 4}

(* A laid-out introduction fits its slides: every group keeps its paragraphs in   *)
(* order, no other division of them needs fewer slides, and the body is within    *)
(* the budget.  However often it was compressed it still cites every fact of the   *)
(* draft first written and, for a selection, says every required meaning.         *)
LaidOutComplete ==
  pc = "laid_out" =>
    /\ BodySlides(draft) <= budget
    /\ \A g \in DOMAIN draft :
         LET items == Expanded(draft[g].items)
         IN /\ FlattenSeq(Pack(items)) = items
            /\ \A d \in Divisions(items) : Len(Pack(items)) <= Len(d)
    /\ protected \subseteq Cited(draft)
    /\ attempt > 0 /\ selected => Missing(draft) = {} /\ Body(draft) = DOMAIN draft

(* The rearrangements offered to the model before it may rewrite anything lose     *)
(* nothing: the same sentences, facts and meanings, the same opening, and no       *)
(* more slides.                                                                   *)
OfferedLayoutsLossless ==
  pc = "overflowing" =>
    LET Sentences(d) == [f \in Facts |-> Sum(DOMAIN d, LAMBDA g : Sum(DOMAIN d[g].items,
                           LAMBDA i : Cardinality({k \in DOMAIN d[g].items[i].text : d[g].items[i].text[k] = f})))]
        results == {[draft EXCEPT ![g] = Inlined(@)] : g \in Offered}
                     \cup {Transferred(draft, t[1], t[2], t[3]) : t \in Moves}
    IN \A d \in results :
         /\ Sentences(d) = Sentences(draft) /\ Cited(d) = Cited(draft)
         /\ Missing(d) \subseteq Missing(draft)
         /\ d[1].items[1].text[1] = draft[1].items[1].text[1]
         /\ BodySlides(d) < BodySlides(draft)
=============================================================================
