--------------------------- MODULE ReportTranslation ---------------------------
(***************************************************************************)
(* Translation of the report's display copy (agent/report_localization.py):  *)
(* batches of strings, by one thread or two, translated, reviewed and        *)
(* measured, with a second attempt at the strings that failed; and the       *)
(* export, which shows a translation only where it was verified and fits     *)
(* (services/report_language.py, services/localized_summary_copy.py,         *)
(* services/presentation_language.py).                                       *)
(***************************************************************************)
EXTENDS Integers, FiniteSets

CONSTANTS
  CopyBatches,         \* sets of display strings; a batch is one request
  Units,               \* strings that are claims of the introduction, shown in several pieces
  MaxReportRuns,       \* bound: reporting runs over one result
  TranslationContexts  \* language and literal names a translation is made for

VARIABLES
  translationPc,
  reportRuns,
  translationContext,  \* of this run
  stored,              \* copy_translations: the translation of each string, 0 for none
  storedFor,           \* translation_context_fingerprint
  pieces,              \* summary_copy_translations: the translation whose pieces a claim shows
  untranslated,        \* strings a batch has still to translate
  batchAttempt,        \* attempts at a batch
  fitOnly,             \* strings of a batch whose last translation failed only for its size
  translated,          \* translations of this run
  lacking,             \* strings that failed
  approvedCopy,        \* history: translations a review accepted, with their context
  exported             \* translation each string shows in the exported deck

translationVars == <<translationPc, reportRuns, translationContext, stored, storedFor, pieces,
                     untranslated, batchAttempt, fitOnly, translated, lacking, approvedCopy,
                     exported>>

Strings == UNION CopyBatches

\* Display copy is collected once, the claims of the introduction with it.
ASSUME TranslationAssumption ==
  /\ Units \subseteq Strings
  /\ \A a, b \in CopyBatches : a # b => a \cap b = {}

NoCopy == [s \in Strings |-> 0]

\* A translation: the run and the attempt that wrote it, or the source copy itself.
Version(b) == 10 * reportRuns + batchAttempt[b] + 1
SourceCopy == 1

-----------------------------------------------------------------------------
\* Mutant: translations are reused for another language or other names.
ReusableAlways == stored

\* previous: translations made for the same language and names.
Reusable == IF storedFor = translationContext THEN stored ELSE NoCopy

\* Strings that have a translation are not asked for again.
BeginTranslation ==
  /\ translationPc = "idle" /\ reportRuns < MaxReportRuns
  /\ reportRuns' = reportRuns + 1
  /\ \/ /\ translationPc' = "translating"
        /\ translated' = Reusable
        /\ untranslated' = [b \in CopyBatches |-> {s \in b : Reusable[s] = 0}]
     \/ /\ translationPc' = "deciding"   \* no model, or the deck cannot be composed
        /\ translated' = NoCopy
        /\ untranslated' = [b \in CopyBatches |-> {}]
  /\ storedFor' = translationContext
  /\ batchAttempt' = [b \in CopyBatches |-> 0] /\ fitOnly' = [b \in CopyBatches |-> {}]
  /\ lacking' = IF translationPc' = "deciding" THEN {"copy_discovery"} ELSE {}
  /\ UNCHANGED <<translationContext, stored, pieces, approvedCopy, exported>>

\* Mutant: the second attempt is made for the whole batch.
StillPendingAll(b, failed) == IF failed = {} THEN {} ELSE b

StillPending(b, failed) == failed

\* One attempt: accepted strings leave the batch, failed ones are tried once more.  A
\* string that only did not fit may be offered again as it stands in the source.
AttemptBatch(b, ok, tooLong) ==
  LET failed == untranslated[b] \ ok
      version == IF batchAttempt[b] = 1 /\ untranslated[b] \subseteq fitOnly[b]
                 THEN {Version(b), SourceCopy} ELSE {Version(b)}
  IN \E v \in version :
       /\ translated' = [s \in Strings |-> IF s \in ok THEN v ELSE translated[s]]
       /\ approvedCopy' = approvedCopy \cup {<<s, v, translationContext>> : s \in ok}
       /\ fitOnly' = [fitOnly EXCEPT ![b] = tooLong]
       /\ batchAttempt' = [batchAttempt EXCEPT ![b] = @ + 1]
       /\ IF failed # {} /\ batchAttempt[b] = 1
          THEN untranslated' = [untranslated EXCEPT ![b] = {}] /\ lacking' = lacking \cup failed
          ELSE untranslated' = [untranslated EXCEPT ![b] = StillPending(b, failed)] /\ UNCHANGED lacking

Translate(b) ==
  /\ translationPc = "translating" /\ untranslated[b] # {} /\ batchAttempt[b] < 2
  /\ \E ok \in SUBSET untranslated[b] :
       \E tooLong \in SUBSET (untranslated[b] \ ok) : AttemptBatch(b, ok, tooLong)
  /\ UNCHANGED <<translationPc, reportRuns, translationContext, stored, storedFor, pieces,
                 exported>>

\* A request that was cut off, or that the transport gave up, is not repeated.
GiveUp(b) ==
  /\ translationPc = "translating" /\ untranslated[b] # {} /\ batchAttempt[b] < 2
  /\ lacking' = lacking \cup untranslated[b] /\ untranslated' = [untranslated EXCEPT ![b] = {}]
  /\ UNCHANGED <<translationPc, reportRuns, translationContext, stored, storedFor, pieces,
                 batchAttempt, fitOnly, translated, approvedCopy, exported>>

RaiseTranslation ==
  /\ translationPc = "translating" /\ \E b \in CopyBatches : untranslated[b] # {}
  /\ translationPc' = "raised"    \* a privacy violation ends the run
  /\ UNCHANGED <<reportRuns, translationContext, stored, storedFor, pieces, untranslated,
                 batchAttempt, fitOnly, translated, lacking, approvedCopy, exported>>

\* retain_summary_translations: a translation is divided among the pieces of its claim,
\* or, when it is shorter than they are many, none is stored.
Retain ==
  /\ translationPc = "translating" /\ \A b \in CopyBatches : untranslated[b] = {}
  /\ translationPc' = "deciding"
  /\ \/ pieces' = [u \in Units |-> translated[u]] /\ UNCHANGED lacking
     \/ /\ \E u \in Units : translated[u] # 0
        /\ lacking' = lacking \cup {"copy_discovery"} /\ UNCHANGED pieces
  /\ UNCHANGED <<reportRuns, translationContext, stored, storedFor, untranslated, batchAttempt,
                 fitOnly, translated, approvedCopy, exported>>

StoreCopy ==
  /\ translationPc = "deciding" /\ translationPc' = "exporting"
  /\ stored' = translated
  /\ UNCHANGED <<reportRuns, translationContext, storedFor, pieces, untranslated, batchAttempt,
                 fitOnly, translated, lacking, approvedCopy, exported>>

-----------------------------------------------------------------------------
(* The export *)

PiecesAgree == \A u \in Units : pieces[u] # 0 => pieces[u] = stored[u]

\* Mutant: a translation that does not fit is left out without a refusal.
ShowsOnlyCheckedLoosely(copy) == TRUE

\* require_consistent_language: every string shown is a checked translation.
ShowsOnlyChecked(copy) == \A s \in Strings : copy[s] # 0

Shows(fitting) ==
  [s \in Strings |-> IF s \in Units THEN pieces[s]
                     ELSE IF s \in fitting \/ stored[s] = SourceCopy THEN stored[s] ELSE 0]

\* A translation that does not fit the final layout is not applied; a deck with copy no
\* review accepted is refused, and the report is retried.
Export ==
  /\ translationPc = "exporting"
  /\ \E fitting \in SUBSET (Strings \ Units) :
       IF PiecesAgree /\ ShowsOnlyChecked(Shows(fitting))
       THEN translationPc' = "exported" /\ exported' = Shows(fitting)
       ELSE translationPc' = "idle" /\ UNCHANGED exported
  /\ \E c \in TranslationContexts :
       translationContext' = IF translationPc' = "idle" THEN c ELSE translationContext
  /\ UNCHANGED <<reportRuns, stored, storedFor, pieces, untranslated, batchAttempt, fitOnly,
                 translated, lacking, approvedCopy>>

TranslationInit ==
  /\ translationPc = "idle" /\ reportRuns = 0 /\ translationContext \in TranslationContexts
  /\ stored = NoCopy /\ storedFor = 0 /\ pieces = [u \in Units |-> 0]
  /\ untranslated = [b \in CopyBatches |-> {}] /\ fitOnly = [b \in CopyBatches |-> {}]
  /\ batchAttempt = [b \in CopyBatches |-> 0]
  /\ translated = NoCopy /\ lacking = {} /\ approvedCopy = {} /\ exported = NoCopy

TranslationNext ==
  \/ BeginTranslation \/ RaiseTranslation \/ Retain \/ StoreCopy \/ Export
  \/ \E b \in CopyBatches : Translate(b) \/ GiveUp(b)

TranslationSpec == TranslationInit /\ [][TranslationNext]_translationVars

-----------------------------------------------------------------------------
(* What an exported deck shows was accepted by a review for the language and the    *)
(* names of this run, whichever run or attempt wrote it.                            *)
ExportedCopyReviewed ==
  translationPc = "exported" =>
    \A s \in Strings : <<s, exported[s], translationContext>> \in approvedCopy

(* When the batches are done every string was translated or is reported missing,    *)
(* never both.                                                                      *)
StringsAccounted ==
  translationPc = "translating" =>
    \A s \in Strings :
      LET open == \E b \in CopyBatches : s \in untranslated[b]
      IN /\ translated[s] # 0 => s \notin lacking /\ ~open
         /\ translated[s] = 0 => (s \in lacking) = ~open
=============================================================================
