---------------------------- MODULE ExecutiveBriefing ----------------------------
(***************************************************************************)
(* Writing the executive briefing (agent/executive_brief.py and               *)
(* agent/brief_item_repair.py): a saved briefing is rechecked or a new one is *)
(* written; findings whose sources and meaning hold are locked, the others    *)
(* are patched once, corrected once, and otherwise discarded.                 *)
(***************************************************************************)
EXTENDS Integers, FiniteSets, Sequences, Functions

CONSTANTS
  FindingCopies,  \* findings a model may write
  Sourced,        \* those whose quotations and quantities support them
  Topical,        \* those that cite a selected analysis topic
  Least, Most     \* findings of a briefing

VARIABLES
  briefingPc,
  draft,       \* findings, in order
  locked,      \* verified findings by position
  faults,      \* positions whose sources failed at first
  progress,    \* the patch changed something, or there were such positions
  review       \* the briefing last reviewed, and the positions rejected

ASSUME BriefingAssumption == Least \in Nat /\ Most \in Nat

briefingVars == <<briefingPc, draft, locked, faults, progress, review>>

\* Bound: a response of fewer findings than a briefing needs is not sent.
Briefs == UNION {[1..n -> FindingCopies] : n \in Least..Most}

-----------------------------------------------------------------------------
(* Checks *)

\* _item_errors, and a repeated finding.
UnsoundFindings(b) == {i \in DOMAIN b : b[i] \notin Sourced \/ \E j \in 1..(i - 1) : b[j] = b[i]}

Covers(b) == Topical \cap Range(b) # {}

Valid(b) == b # <<>> /\ UnsoundFindings(b) = {} /\ Covers(b)

\* meaning_validator: a briefing that was reviewed is not reviewed again (only the
\* last review is remembered here).
Rejects(b) == IF b = review.brief THEN {review.failed} ELSE SUBSET DOMAIN b

\* Its place among these positions.
Rank(positions, i) == Cardinality({j \in positions : j <= i})

Only(b, positions) ==
  [k \in 1..Cardinality(positions) |-> b[CHOOSE i \in positions : Rank(positions, i) = k]]

\* The positions of b that the k-th elements of a subsequence stand for.
Place(positions, ks) == {i \in positions : Rank(positions, i) \in ks}

RejectBriefing == briefingPc' = "rejected" /\ UNCHANGED <<draft, locked, faults, progress, review>>

Publish(b) == briefingPc' = "published" /\ draft' = b /\ review' = [brief |-> b, failed |-> {}]

-----------------------------------------------------------------------------
(* resume_brief_review, correct_saved_rejection *)

\* A review that stays incomplete, a transport failure or an answer that never fits
\* its schema ends the briefing.
Lose == briefingPc \notin {"published", "rejected"} /\ RejectBriefing

\* A saved briefing is rechecked as a whole; one that was rejected is corrected, any
\* other that fails now is written anew.
Resume ==
  /\ briefingPc = "resuming"
  /\ \/ briefingPc' = "writing" /\ UNCHANGED <<draft, review>>
     \/ \E saved \in {b \in Briefs : Valid(b)} : \E failed \in Rejects(saved) :
          IF failed = {} THEN Publish(saved)
          ELSE /\ briefingPc' \in {"writing", "saved"} /\ draft' = saved
               /\ review' = [brief |-> saved, failed |-> failed]
  /\ UNCHANGED <<locked, faults, progress>>

\* What a correction may do: rewrite rejected findings only.
Corrections(b, failed) ==
  {c \in [DOMAIN b -> FindingCopies] : \A i \in (DOMAIN b) \ failed : c[i] = b[i]}

CorrectSaved ==
  /\ briefingPc = "saved"
  /\ \E c \in Corrections(draft, review.failed) :
       \E failed \in Rejects(c) :
         IF Valid(c) /\ failed = {} /\ c # draft THEN Publish(c)
         ELSE briefingPc' = "rejected" /\ UNCHANGED <<draft, review>>
  /\ UNCHANGED <<locked, faults, progress>>

-----------------------------------------------------------------------------
(* generate_with_item_repair *)

\* A new response, reduced to the allowed number by a selection, or a saved
\* candidate whose sources still match.
WriteBriefing ==
  /\ briefingPc = "writing" /\ draft' \in Briefs /\ briefingPc' = "written"
  /\ UNCHANGED <<locked, faults, progress, review>>

\* _classify: the findings whose sources hold are reviewed together.
Classify ==
  /\ briefingPc = "written"
  /\ LET sound == (DOMAIN draft) \ UnsoundFindings(draft)  candidate == Only(draft, sound)
     IN \E failed \in IF sound = {} THEN {{}} ELSE Rejects(candidate) :
          LET kept == sound \ Place(sound, failed)
          IN /\ locked' = [i \in kept |-> draft[i]]
             /\ review' = [brief |-> candidate, failed |-> failed]
             \* a title of its own may need the patch, too
             /\ briefingPc' \in (IF kept # DOMAIN draft THEN {"patching"}
                         ELSE IF Covers(draft) THEN {"published", "patching"}
                         ELSE IF Len(draft) < Most THEN {"patching"} ELSE {"rejected"})
  /\ faults' = UnsoundFindings(draft) /\ progress' = (UnsoundFindings(draft) # {})
  /\ UNCHANGED draft

Missing == ~Covers(Only(draft, DOMAIN locked))

\* The patch: a copy for each position that is not locked, and additions where the
\* locked findings miss the topics.
Rewritten == Corrections(draft, (DOMAIN draft) \ DOMAIN locked)

Additions ==
  LET room == IF Missing /\ DOMAIN locked # {} THEN Most - Len(draft) ELSE 0
  IN UNION {[1..n -> FindingCopies] : n \in 0..room}

Patches == {base \o more : base \in Rewritten, more \in Additions}

\* generate_patch, review_patch: a patch with any error goes on to the corrections,
\* one that does not fit its schema to the salvage, with the items that do.
Patch ==
  /\ briefingPc = "patching"
  /\ \E b \in Patches :
       /\ draft' = b /\ progress' = (progress \/ b # draft)
       /\ \/ Valid(b) /\ \E failed \in Rejects(b) :
               /\ review' = [brief |-> b, failed |-> failed]
               /\ briefingPc' = (IF failed = {} THEN "published" ELSE "correcting")
          \/ ~Valid(b) /\ briefingPc' = "sourcing" /\ UNCHANGED review
          \/ briefingPc' = "salvaging" /\ UNCHANGED review
  /\ UNCHANGED <<locked, faults>>

-----------------------------------------------------------------------------
(* The corrections of a patch *)

\* correct_residual_source_errors: only where fewer or other source errors remain
\* than before; each rewritten finding must hold by itself.
CorrectSources ==
  /\ briefingPc = "sourcing" /\ briefingPc' = "correcting"
  /\ LET failed == {i \in DOMAIN draft : draft[i] \notin Sourced}
         meaning == (DOMAIN draft) \ (faults \cup DOMAIN locked)
     IN \/ UNCHANGED draft
        \/ /\ failed # {} /\ (failed \subseteq faults \/ failed \subseteq meaning)
           /\ \E c \in Corrections(draft, failed) :
                /\ \A i \in failed : c[i] # draft[i] => c[i] \in Sourced
                /\ draft' = c
  /\ UNCHANGED <<locked, faults, progress, review>>

\* correct_new_meaning_errors: the source-valid findings are reviewed as a briefing
\* of their own, and the rejected ones rewritten once.  A rewritten finding that
\* passes its review replaces a lock.
CorrectFindings ==
  /\ briefingPc = "correcting"
  /\ LET valid == {i \in DOMAIN draft : draft[i] \in Sourced}
         whole == valid = DOMAIN draft
         b     == Only(draft, valid)
     IN IF ~progress \/ ~Valid(b) THEN briefingPc' = "salvaging" /\ UNCHANGED <<draft, locked, review>>
        ELSE \E failed \in Rejects(b) : \E c \in Corrections(b, failed) :
          \E again \in IF Valid(c) /\ c # b THEN SUBSET DOMAIN c ELSE {failed} :
            LET changed == {k \in failed : c[k] # b[k] /\ c[k] \in Sourced}
                passed  == IF Valid(c) THEN changed \ again ELSE {}
                merged  == [i \in DOMAIN draft |->
                              IF i \in Place(valid, changed)
                              THEN c[Rank(valid, i)] ELSE draft[i]]
                done    == failed = {} \/ (Valid(c) /\ c # b /\ again = {})
            IN /\ review' = (IF Valid(c) THEN [brief |-> c, failed |-> again]
                                         ELSE [brief |-> b, failed |-> failed])
               /\ briefingPc' = (IF done /\ whole THEN "published" ELSE "salvaging")
               /\ draft' = merged
               /\ locked' = [i \in DOMAIN locked |->
                               IF i \in Place(valid, passed) THEN merged[i] ELSE locked[i]]
  /\ UNCHANGED <<faults, progress>>

-----------------------------------------------------------------------------
(* _salvage *)

RetainedFindings ==
  LET Seen(i) == {locked[j] : j \in DOMAIN locked} \cup {draft[j] : j \in {k \in DOMAIN draft : k < i /\ draft[k] \in Sourced}}
  IN (DOMAIN locked) \cup {i \in (DOMAIN draft) \ DOMAIN locked : draft[i] \in Sourced \ Seen(i)}

BriefFindings == [i \in DOMAIN draft |-> IF i \in DOMAIN locked THEN locked[i] ELSE draft[i]]

\* Mutant: what remains after a rejection is not reviewed again.
SelectionTrusted(rest, last) == {[last EXCEPT !.failed = {}]}

\* A selection is reviewed as a briefing of its own.
Selection(rest, last) == {[brief |-> rest, failed |-> f] : f \in Rejects(rest)}

\* What is verified is kept as a whole or not at all; the others may go, and what
\* remains is reviewed once more.
Salvage ==
  /\ briefingPc = "salvaging"
  /\ LET kept == RetainedFindings  b == Only(BriefFindings, kept)
     IN \/ Cardinality(kept) \notin Least..Most /\ RejectBriefing
        \/ /\ Cardinality(kept) \in Least..Most
           /\ \E failed \in Rejects(b) :
                LET left == kept \ Place(kept, failed)  rest == Only(BriefFindings, left)
                IN \/ failed = {} /\ Valid(b) /\ Publish(b)
                   \/ /\ failed # {} /\ DOMAIN locked \subseteq left
                      /\ Cardinality(left) >= Least
                      /\ \E again \in Selection(rest, [brief |-> b, failed |-> failed]) :
                           /\ again.failed = {} /\ Valid(rest)
                           /\ briefingPc' = "published" /\ draft' = rest /\ review' = again
                   \/ briefingPc' = "rejected" /\ UNCHANGED draft
                      /\ review' = [brief |-> b, failed |-> failed]
           /\ UNCHANGED <<locked, faults, progress>>

BriefingInit ==
  /\ briefingPc = "resuming" /\ draft = <<>> /\ locked = <<>> /\ faults = {}
  /\ progress = FALSE /\ review = [brief |-> <<>>, failed |-> {}]

BriefingNext ==
  \/ Lose \/ Resume \/ CorrectSaved \/ WriteBriefing \/ Classify \/ Patch
  \/ CorrectSources \/ CorrectFindings \/ Salvage

BriefingSpec == BriefingInit /\ [][BriefingNext]_briefingVars

-----------------------------------------------------------------------------
(* A briefing is published only as it was reviewed: every finding is supported,   *)
(* none is repeated, a selected topic is covered, and the reviewer accepted all    *)
(* findings side by side in exactly this selection, whatever was patched,          *)
(* corrected or discarded before.                                                 *)
PublishedBriefReviewed ==
  briefingPc = "published" =>
    Valid(draft) /\ Len(draft) <= Most /\ review = [brief |-> draft, failed |-> {}]
=============================================================================
