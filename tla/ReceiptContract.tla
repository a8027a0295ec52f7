--------------------------- MODULE ReceiptContract ---------------------------
(***************************************************************************)
(* One review result on its way to the merge request.  review_runner.py     *)
(* admits what OCR reported, removes what may not be published, binds a     *)
(* receipt to the rest and replaces the file; posting/workflow.py loads the *)
(* file in another job, validates all of it again and decides whether the   *)
(* review may be published and approved.  The two sides agree on the result *)
(* only through the rules modelled here.                                    *)
(***************************************************************************)
EXTENDS Integers, Sequences, FiniteSets

CONSTANTS
  ReportGroups, \* what may be reported: records of sets, one per part of a review
  MaxFindings   \* MAX_APPROVABLE_FINDINGS

(* A text is changed by preparation ("markup"), refused only once rendered   *)
(* ("compound"), refused everywhere ("secret") or refused against the values *)
(* of this run, which the posting job no longer has ("forbidden").           *)
ProseText == {"plain", "markup", "compound", "secret", "forbidden"}

(* What was redacted outside the rendered fields: nothing, a reserved key    *)
(* (removed, counted as a field, without a reason), or a text that posting   *)
(* and approval do not read ("detached") or read ("bound").                  *)
PrivateText == {"none", "reservedKey", "detached", "bound"}

(* The run's own settings; "local" has no provider identity.                 *)
Target == {"protected", "auto", "unprotected", "local"}
RunSettings == [dlp: BOOLEAN, target: Target, degraded: BOOLEAN, partial: BOOLEAN,
                private: BOOLEAN, diagram: {"off", "on", "broken"}]

(* What OCR may report: its outcome, its tool counts, and its texts.         *)
ReportedOutcome == [manifest: BOOLEAN, status: STRING, budget: BOOLEAN, completed: Nat, failed: Nat,
            waived: Nat, budgetItem: BOOLEAN, runFailure: {"none", "budget", "other"}]
ToolCounts == [total: Nat, evidence: Nat, received: Nat, summary: Nat, diagram: Nat, submissions: Nat,
               failures: {"absent", "invalid", "valid"}, failedEvidence: Nat, failedDiagram: Nat,
               failedOther: Nat]
ReportedFinding == [content: ProseText, code: ProseText, low: BOOLEAN]
ReportedText == [message: ProseText, comments: Seq(ReportedFinding), warnings: Seq(ProseText),
                 privateText: PrivateText]

ASSUME ReceiptAssumption ==
  /\ MaxFindings \in Nat
  /\ \A g \in ReportGroups :
       /\ g.settings \subseteq RunSettings /\ g.outcome \subseteq ReportedOutcome
       /\ g.tools \subseteq ToolCounts /\ g.prose \subseteq ReportedText

VARIABLES
  review,       \* what this run was asked and what OCR reported
  stage,
  receipt,      \* metadata bound to the result
  artifact,     \* the result file: its state and what it carries
  loaded,       \* what the posting job holds
  approvable

receiptVars == <<review, stage, receipt, artifact, loaded, approvable>>

NoFile == [kind |-> "absent"]
NoReceipt == [bound |-> FALSE]
setup == review.settings
native == review.outcome
tools == review.tools
prose == review.prose

-----------------------------------------------------------------------------
(* parse_result_outcome.  A manifest partitions the selected items; its      *)
(* terminal state must be the one its coverage implies.                      *)
SelectedItems(o) == o.completed + o.failed + o.waived
BudgetFailed(o) == o.runFailure = "budget" \/ (o.failed > 0 /\ o.budgetItem)
LegacyKind(s) ==
  CASE s = "success" -> "clean" [] s = "completed_with_warnings" -> "warning"
    [] s \in {"completed_with_errors", "budget_exceeded"} -> "partial"
    [] s = "skipped" -> "skipped" [] OTHER -> "invalid"
ManifestKind(o) ==
  IF o.runFailure # "none" THEN "failed"
  ELSE IF SelectedItems(o) = 0 THEN "skipped"
  ELSE IF o.failed = 0 THEN "clean"
  ELSE IF o.failed = SelectedItems(o) THEN "failed"
  ELSE "partial"
BudgetAgrees(o) ==
  IF o.manifest THEN o.budget => BudgetFailed(o) /\ ManifestKind(o) \notin {"clean", "skipped"}
                ELSE o.budget = (o.status = "budget_exceeded")
KindOf(o) ==
  IF ~BudgetAgrees(o) THEN "invalid"
  ELSE IF o.manifest THEN ManifestKind(o) ELSE LegacyKind(o.status)
RequiresEvidence(o) == KindOf(o) \in {"clean", "warning", "partial"}

(* admit_native_range: a manifest names the reviewed range or is refused;    *)
(* without one no range is proven.                                           *)
RangeState(o) == IF o.manifest THEN "verified" ELSE "unverified"

-----------------------------------------------------------------------------
(* _tool_failure_telemetry: three counters that agree or none that count.    *)
Failed == IF tools.failures = "valid"
          THEN tools.failedEvidence + tools.failedDiagram + tools.failedOther ELSE 0
EvidenceFailed == IF tools.failures = "valid" THEN tools.failedEvidence ELSE 0

(* verified_evidence_actions: what the toolkit's own server received may not *)
(* exceed what OCR counted, and the summary was read when it had to be.      *)
ActionsVerified ==
  /\ tools.summary <= tools.received /\ tools.received <= tools.evidence
  /\ RequiresEvidence(native) => tools.summary >= 1

(* OCR's failure counters against the toolkit's own count                    *)
FailureState ==
  IF tools.failures # "valid" THEN tools.failures
  ELSE IF tools.summary > tools.evidence - EvidenceFailed THEN "conflicting" ELSE "verified"

(* DiagramExecution.finish: any loss omits the diagram, never the review.    *)
DiagramState ==
  IF setup.diagram = "off" THEN "disabled"
  ELSE IF \/ setup.diagram = "broken" \/ tools.submissions # tools.diagram
          \/ tools.failures = "valid" /\ tools.failedDiagram > 0
       THEN "omitted"
  ELSE IF tools.diagram = 0 THEN "not-generated"
  ELSE IF RangeState(native) = "unverified" THEN "omitted" ELSE "generated"
Registered == setup.diagram = "on"
DiagramCalls == IF Registered THEN tools.diagram ELSE 0
DiagramFailed == IF Registered /\ tools.failures = "valid" THEN tools.failedDiagram ELSE 0

(* _review_receipt: the facts of the run, or the review is rejected.         *)
KnownUsage == tools.evidence + (IF Registered THEN tools.diagram ELSE 0)
SkippedAsExpected == KindOf(native) = "skipped" => prose.comments = <<>> /\ tools.total = 0
CountsAgree == tools.total >= KnownUsage
Receipted ==
  /\ KindOf(native) # "invalid" /\ SkippedAsExpected /\ CountsAgree
  /\ RequiresEvidence(native) => tools.evidence > 0
  /\ ActionsVerified
Attached == Receipted /\ (setup.partial => native.manifest)

-----------------------------------------------------------------------------
(* check_text against the run's forbidden values, or without them.           *)
Refused(t, own) == t = "secret" \/ (own /\ t = "forbidden")
RefusedRendered(t, own) == Refused(t, own) \/ t = "compound"
Prepared(t) == IF t = "markup" THEN "plain" ELSE t

UnsafeComment(c) == RefusedRendered(c.content, TRUE) \/ Refused(c.code, TRUE)
SinksUnsafe ==
  \/ RefusedRendered(prose.message, TRUE)
  \/ \E i \in DOMAIN prose.comments : UnsafeComment(prose.comments[i])
  \/ \E i \in DOMAIN prose.warnings : RefusedRendered(prose.warnings[i], TRUE)

(* _publication_projection.  A redaction outside the rendered fields is      *)
(* private unless it changes what posting or approval reads.                 *)
PublicationChanged == SinksUnsafe \/ prose.privateText = "bound"
PrivateReasons == prose.privateText \in {"detached", "bound"}
AdmissionState ==
  IF ~setup.dlp THEN "disabled"
  ELSE IF PublicationChanged THEN "publication-filtered"
  ELSE IF PrivateReasons THEN "private-sanitized" ELSE "passed"

(* What the receipt counts: reasons of the sinks, private fields, and the    *)
(* reasons of those fields.  Only whether a count is zero matters.           *)
NoReasons == [sink |-> FALSE, fields |-> FALSE, private |-> FALSE]
CountedReasons ==
  [sink |-> SinksUnsafe, fields |-> prose.privateText # "none", private |-> PrivateReasons]

(* _safe_publication_comments, _safe_publication_warnings: an unsafe field   *)
(* is dropped, an unsafe content drops its finding.  What is kept of a list  *)
(* is a function on the positions that stay.                                 *)
PreparedComment(c) == [c EXCEPT !.content = Prepared(@)]
SafeComment(c) == [PreparedComment(c) EXCEPT !.code = IF Refused(@, TRUE) THEN "plain" ELSE @]
LeafSafeComments ==                                      \* slip: leaves only
  [i \in {k \in DOMAIN prose.comments : ~Refused(prose.comments[k].content, TRUE)} |->
     SafeComment(prose.comments[i])]
SafeComments ==
  [i \in {k \in DOMAIN prose.comments : ~RefusedRendered(prose.comments[k].content, TRUE)} |->
     SafeComment(prose.comments[i])]
SafeWarnings ==
  [i \in {k \in DOMAIN prose.warnings : ~RefusedRendered(prose.warnings[k], TRUE)} |-> prose.warnings[i]]

(* What the file will say: the outcome of a filtered result is a stand-in.   *)
FilteredOutcome ==
  [manifest |-> FALSE, budget |-> native.budget,
   status |-> IF native.budget THEN "budget_exceeded" ELSE "completed_with_errors",
   completed |-> 0, failed |-> 0, waived |-> 0, budgetItem |-> FALSE, runFailure |-> "none"]
Projected ==
  CASE AdmissionState = "disabled" ->
         [outcome |-> native, message |-> prose.message, comments |-> prose.comments,
          warnings |-> prose.warnings]
    [] AdmissionState = "publication-filtered" ->
         [outcome |-> FilteredOutcome, message |-> "plain", comments |-> SafeComments,
          warnings |-> SafeWarnings]
    [] OTHER ->
         [outcome |-> native, message |-> Prepared(prose.message),
          comments |-> [i \in DOMAIN prose.comments |-> PreparedComment(prose.comments[i])],
          warnings |-> prose.warnings]

Counts(o) == IF o.manifest THEN <<o.completed, o.failed, o.waived>> ELSE <<0, 0, 0>>
OriginalFacts == [kind |-> KindOf(native), counts |-> Counts(native)]

-----------------------------------------------------------------------------
(* automatic_approval_metadata_reason, called by both sides: "invalid", a    *)
(* reason not to approve, or nothing.                                        *)
OriginalKinds(c) ==
  {"failed"} \cup (IF c = <<0, 0, 0>> THEN {"skipped"}
                   ELSE IF c[2] = 0 THEN {"clean", "warning"}
                   ELSE IF c[1] + c[3] = 0 THEN {"failed"} ELSE {"partial"})
(* Private fields are counted with their reasons, a sanitized receipt has    *)
(* some, and a filtered one names a reason of a sink and a kind that its     *)
(* counts can have.                                                          *)
AdmissionValid(r) ==
  /\ r.dlp <=> r.admission # "disabled"
  /\ r.admission \in {"private-sanitized", "publication-filtered"} => (r.reasons.fields <=> r.reasons.private)
  /\ r.admission = "private-sanitized" => r.reasons.fields
  /\ r.admission = "publication-filtered" =>
       r.reasons.sink /\ r.original.kind \in OriginalKinds(r.original.counts)
UsageBound(r) == r.usage = r.calls + r.diagramCalls
ReceiptValid(r) ==
  /\ UsageBound(r)
  /\ r.mandatory => r.summary >= 1
  /\ r.partial => r.range = "verified"
  /\ r.diagramFailed > 0 => r.failureState = "verified" /\ r.diagramFailed <= r.failed
  /\ r.diagram = "generated" => r.range = "verified" /\ r.diagramCalls > 0
  /\ AdmissionValid(r)
ApprovalUnblocked(r) ==
  /\ r.target = "protected" /\ r.dlp /\ r.admission # "publication-filtered"
  /\ r.failureState \notin {"invalid", "conflicting"}
  /\ r.failureState = "verified" => r.failed <= r.diagramFailed
  /\ ~r.degraded /\ r.range = "verified" /\ ~r.partial

-----------------------------------------------------------------------------
(* The review job                                                            *)
OcrReports ==
  /\ stage = "start"
  /\ \E g \in ReportGroups : \E s \in g.settings, o \in g.outcome, t \in g.tools, p \in g.prose :
       review' = [settings |-> s, outcome |-> o, tools |-> t, prose |-> p]
  /\ stage' = "reported" /\ artifact' = [kind |-> "raw"]
  /\ UNCHANGED <<receipt, loaded, approvable>>

(* transform_ocr_result fails: a result that was not replaced is removed, or *)
(* kept as private diagnostics when that was asked for.                      *)
Discard ==
  /\ stage' = "rejected"
  /\ artifact' = IF setup.private THEN [kind |-> "diagnostic"] ELSE NoFile
  /\ UNCHANGED <<review, loaded, approvable>>

(* _review_receipt: what it says before the publication is admitted.         *)
RunReceipt ==
  [bound |-> TRUE, dlp |-> setup.dlp, target |-> setup.target, degraded |-> setup.degraded,
   partial |-> setup.partial, range |-> RangeState(native), mandatory |-> RequiresEvidence(native),
   usage |-> KnownUsage, calls |-> tools.evidence, summary |-> tools.summary,
   failureState |-> FailureState, failed |-> Failed, diagram |-> DiagramState,
   diagramCalls |-> DiagramCalls, diagramFailed |-> DiagramFailed, admission |-> "none",
   reasons |-> NoReasons, original |-> OriginalFacts]

AttachReceipt ==
  /\ stage = "reported"
  /\ IF Attached
     THEN /\ stage' = "receipted" /\ receipt' = RunReceipt
          /\ UNCHANGED <<review, artifact, loaded, approvable>>
     ELSE Discard /\ UNCHANGED receipt

ProjectPublication ==
  /\ stage = "receipted"
  /\ receipt' = [receipt EXCEPT !.admission = AdmissionState, !.reasons = CountedReasons]
  /\ stage' = "projected"
  /\ UNCHANGED <<review, artifact, loaded, approvable>>

(* The runner validates its own receipt as a hostile reader would, and       *)
(* discards the whole review when it is refused.                             *)
WriteResult ==
  /\ stage = "projected"
  /\ IF setup.target # "local" /\ ~ReceiptValid(receipt)
     THEN Discard /\ UNCHANGED receipt
     ELSE /\ stage' = "finalized" /\ UNCHANGED <<review, receipt, loaded, approvable>>
          /\ artifact' =
               IF setup.private THEN [kind |-> "diagnostic"]
               ELSE [kind |-> IF setup.target = "local" THEN "unbound" ELSE "final",
                     body |-> Projected]

(* the file was exchanged under the transformation, or could not be replaced *)
WriteFails ==
  /\ stage = "projected"
  /\ stage' = "rejected"
  /\ artifact' = IF setup.private THEN NoFile ELSE artifact
  /\ UNCHANGED <<review, receipt, loaded, approvable>>

-----------------------------------------------------------------------------
(* The posting job                                                           *)
(* load_ocr_result: a current receipt claims prepared prose; that is checked *)
(* without the run's forbidden values.                                       *)
Unprepared(t) == RefusedRendered(t, FALSE) \/ Prepared(t) # t
ProsePrepared(b) ==
  /\ ~Unprepared(b.message)
  /\ \A i \in DOMAIN b.comments : ~Unprepared(b.comments[i].content)
  /\ \A i \in DOMAIN b.warnings : ~RefusedRendered(b.warnings[i], FALSE)

(* publication_range_and_diagram, verified_partial_repository_coverage       *)
RangeBound(b) ==
  receipt.range = "verified" =>
    (b.outcome.manifest \/ receipt.admission = "publication-filtered")

LoadResult ==
  /\ stage \in {"finalized", "rejected"}
  /\ loaded' = IF artifact.kind = "final" THEN artifact.body.comments ELSE <<>>
  /\ stage' = IF /\ artifact.kind = "final"
                 /\ receipt.dlp => ProsePrepared(artifact.body)
                 /\ ReceiptValid(receipt) /\ RangeBound(artifact.body)
              THEN "loaded" ELSE "refused"
  /\ UNCHANGED <<review, receipt, artifact, approvable>>

(* publication_outcome_for_summary: a filtered result speaks for the outcome *)
(* its receipt kept.                                                         *)
RestoresOutcome == receipt.admission = "publication-filtered"
SummaryKind(b) == IF RestoresOutcome THEN receipt.original.kind ELSE KindOf(b.outcome)
SummaryRefused(b) ==
  \/ KindOf(b.outcome) = "invalid"
  \/ RestoresOutcome /\ b.outcome.budget /\ receipt.original.kind # "partial"

(* evaluate_approval_policy                                                  *)
Approvable(b) ==
  /\ ApprovalUnblocked(receipt)
  /\ receipt.mandatory = RequiresEvidence(b.outcome)
  /\ b.outcome.manifest /\ KindOf(b.outcome) = "clean" /\ ~b.outcome.budget
  /\ b.outcome.failed = 0 /\ b.outcome.waived = 0
  /\ DOMAIN b.warnings = {} /\ Cardinality(DOMAIN b.comments) <= MaxFindings
  /\ \A i \in DOMAIN b.comments : b.comments[i].low

Publish ==
  LET b == artifact.body IN
  /\ stage = "loaded"
  /\ stage' = IF SummaryRefused(b) THEN "refused"
              ELSE IF SummaryKind(b) = "failed" THEN "failed" ELSE "published"
  /\ approvable' = (stage' = "published" /\ Approvable(b))
  /\ UNCHANGED <<review, receipt, artifact, loaded>>

-----------------------------------------------------------------------------
ReceiptInit ==
  /\ review = [settings |-> "none"] /\ stage = "start" /\ receipt = NoReceipt
  /\ artifact = NoFile /\ loaded = <<>> /\ approvable = FALSE

ReceiptNext ==
  \/ OcrReports \/ AttachReceipt \/ ProjectPublication \/ WriteResult \/ WriteFails
  \/ LoadResult \/ Publish

ReceiptSpec == ReceiptInit /\ [][ReceiptNext]_receiptVars

-----------------------------------------------------------------------------
(* The posting job takes every result the review job finalized for it: what  *)
(* one side writes the other side's loader, receipt parser and summary agree *)
(* on.  The one exception is a failed run whose budget failure was filtered, *)
(* which is not published either way (_original_outcome).                    *)
WrittenIsAccepted ==
  stage = "refused" /\ artifact.kind = "final" =>
    native.budget /\ KindOf(native) = "failed" /\ receipt.admission = "publication-filtered"

(* Nothing the run's own text policy refused reaches the merge request, as a *)
(* leaf or rendered (_publication_projection before load_ocr_result).        *)
PublishedIsAdmitted ==
  stage = "published" /\ setup.dlp =>
    /\ ~RefusedRendered(artifact.body.message, TRUE)
    /\ \A i \in DOMAIN loaded : ~UnsafeComment(loaded[i]) /\ loaded[i].content = "plain"
    /\ \A i \in DOMAIN artifact.body.warnings : ~Refused(artifact.body.warnings[i], TRUE)

(* A published review misses a finding only if its receipt says it was       *)
(* filtered, and then the outcome it states is the one OCR reported.         *)
LossIsDeclared ==
  stage = "published" =>
    /\ DOMAIN loaded # DOMAIN prose.comments => receipt.admission = "publication-filtered"
    /\ SummaryKind(artifact.body) = KindOf(native)

(* Automatic approval is earned: OCR reported a complete, clean review of a  *)
(* protected target with the evidence read, and all of it is published.      *)
ApprovalIsEarned ==
  approvable =>
    /\ KindOf(native) = "clean" /\ native.manifest /\ native.waived = 0
    /\ setup.target = "protected" /\ setup.dlp /\ ~setup.partial /\ ~setup.degraded
    /\ tools.summary >= 1 /\ tools.failures # "invalid"
    /\ tools.failures = "valid" => tools.failedEvidence + tools.failedOther = 0
    /\ DOMAIN loaded = DOMAIN prose.comments /\ prose.warnings = <<>>
    /\ \A i \in DOMAIN prose.comments : ~UnsafeComment(prose.comments[i])

(* A receipt of the run is refused by the run itself, and the review lost,   *)
(* in two cases only.  A filtered result: no sink gave a reason, a reserved  *)
(* key was counted without one, or no manifest counts what was reviewed.     *)
(* And a failed diagram call beside counters that disagree, although         *)
(* _review_receipt says that such a disagreement discards no review.         *)
FilteredUnstated ==
  /\ AdmissionState = "publication-filtered"
  /\ \/ ~SinksUnsafe \/ prose.privateText = "reservedKey"
     \/ ~native.manifest /\ KindOf(native) # "skipped"
DiagramFailureUnverified == FailureState = "conflicting" /\ DiagramFailed > 0
RefusalIsKnown ==
  stage = "projected" /\ ~ReceiptValid(receipt) => FilteredUnstated \/ DiagramFailureUnverified

ReceiptContractSafe ==
  WrittenIsAccepted /\ PublishedIsAdmitted /\ LossIsDeclared /\ ApprovalIsEarned /\ RefusalIsKnown

-----------------------------------------------------------------------------
(* The inductive invariant: what has been reported is of its type, the       *)
(* receipt is the one of this run, and a final file is the projection of     *)
(* what was reported, with a receipt its own writer accepted.                *)
Reported ==
  setup \in RunSettings /\ native \in ReportedOutcome /\ tools \in ToolCounts /\ prose \in ReportedText
AdmittedReceipt == [RunReceipt EXCEPT !.admission = AdmissionState, !.reasons = CountedReasons]
FinalIsOfThisRun ==
  artifact.kind = "final" =>
    /\ Receipted /\ receipt = AdmittedReceipt /\ ReceiptValid(receipt)
    /\ artifact.body = Projected

ReceiptInv ==
  /\ stage \in {"start", "reported", "receipted", "projected", "finalized", "rejected", "loaded",
                "refused", "failed", "published"}
  /\ stage # "start" => Reported
  /\ stage = "receipted" => Attached /\ receipt = RunReceipt
  /\ stage = "projected" => Attached /\ receipt = AdmittedReceipt
  /\ stage \in {"start", "reported", "receipted", "projected", "rejected"} => artifact.kind # "final"
  /\ FinalIsOfThisRun
  /\ stage \in {"loaded", "failed", "published"} =>
       artifact.kind = "final" /\ loaded = artifact.body.comments
  /\ approvable => stage = "published" /\ Approvable(artifact.body)
  /\ WrittenIsAccepted
=============================================================================
