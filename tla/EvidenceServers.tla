-------------------------- MODULE EvidenceServers --------------------------
(* The servers of one review at work, and what the runner makes of the two   *)
(* shared files when OCR has ended (review_runner.py, review_receipt.py,     *)
(* diagrams/admission.py).  A server may still be busy with a request then,  *)
(* and may die at any step.  Files of this run only: no process of an        *)
(* earlier run still works in the checkout.                                  *)
EXTENDS ActionReceipt, DiagramCollector

CONSTANT MaxRequests   \* bound on the tool requests of a run

VARIABLES
  runner,     \* "ocr", "exited", "read", "captured", then how the review ended
  taken,      \* the action counts the runner read
  snapshot,   \* the collector as the runner captured it
  diagram     \* the diagram admitted to the result

runnerVars == <<runner, taken, snapshot, diagram>>
vars == <<at, byTool, receiptVars, collectorVars, runnerVars>>

Ended == {"reviewed", "unmandated", "rejected"}

TypeOK ==
  /\ ServerTypes /\ ReceiptTypes /\ CollectorTypes
  /\ runner \in {"ocr", "exited", "read", "captured"} \cup Ended
  /\ taken \in Counts \cup {None} /\ snapshot \in Snapshot \cup {None} /\ diagram \in Value

Init ==
  /\ ServerInit /\ ReceiptInit /\ CollectorInit
  /\ runner = "ocr" /\ taken = None /\ snapshot = None /\ diagram = None

UsedBy(tools) == MapThenSumSet(LAMBDA t : byTool[t], tools)
Asking == runner = "ocr" /\ UsedBy(Tool) < MaxRequests

(* OCR's model calls a tool of the group's server.                           *)
Request(s) ==
  /\ Asking
  /\ \/ \E b \in Bucket : EvidenceRequest(s, b) /\ UNCHANGED collectorVars
     \/ \E value \in Value, size \in Sizes :
          SubmitRequest(s, value, size) /\ UNCHANGED receiptVars
  /\ UNCHANGED runnerVars

(* OCR counts a request whose arguments it cannot parse; no server sees it.  *)
Undispatched(t) ==
  /\ Asking
  /\ Counted(t)
  /\ proposed' = IF t = "diagram" THEN proposed \cup {None} ELSE proposed
  /\ UNCHANGED <<at, receiptVars, collector, collectorLock, submission, previous, runnerVars>>

Handles(s) ==
  /\ \/ Records(s) /\ UNCHANGED collectorVars
     \/ Collects(s) /\ UNCHANGED receiptVars
  /\ UNCHANGED runnerVars

(* The kernel releases what a dead process held.                             *)
Dies(s) ==
  /\ at[s] # "dead"
  /\ Moves(s, "dead")
  /\ receiptLock' = IF receiptLock = s THEN None ELSE receiptLock
  /\ collectorLock' = IF collectorLock = s THEN None ELSE collectorLock
  /\ action' = [action EXCEPT ![s] = "unattributed"]
  /\ attemptRecorded' = [attemptRecorded EXCEPT ![s] = FALSE]
  /\ read' = [read EXCEPT ![s] = NoCounts]
  /\ submission' = [submission EXCEPT ![s] = NoSubmission]
  /\ previous' = [previous EXCEPT ![s] = Fresh]
  /\ UNCHANGED <<byTool, receipt, recorded, served, collector, proposed, runnerVars>>

OcrExits ==
  /\ runner = "ocr" /\ runner' = "exited"
  /\ UNCHANGED <<at, byTool, receiptVars, collectorVars, taken, snapshot, diagram>>

(* read_action_receipt takes no lock; an unreadable file gives None.         *)
ReadReceipt ==
  /\ runner = "exited" /\ runner' = "read"
  /\ taken' \in {receipt, None}
  /\ UNCHANGED <<at, byTool, receiptVars, collectorVars, snapshot, diagram>>

(* DiagramExecution.capture: the collector is read under its lock.           *)
Capture ==
  /\ runner = "read" /\ runner' = "captured"
  /\ snapshot' \in {None} \cup (IF collectorLock = None THEN {collector} ELSE {})
  /\ UNCHANGED <<at, byTool, receiptVars, collectorVars, taken, diagram>>

Received(counts, t) ==
  MapThenSumSet(LAMBDA b : counts.attempted[b], {b \in Bucket : ToolOf(b) = t})

(* verified_evidence_actions, and the call of the primary tool that a        *)
(* mandatory review must show.                                               *)
Verified(mandatory) ==
  LET counts == CountsOf(taken) IN
  /\ taken = None => UsedBy(EvidenceTool) = 0
  /\ \A a \in Action : counts.completed[a] <= counts.attempted[a]
  /\ mandatory => counts.completed["summary"] >= 1 /\ byTool["evidence"] > 0
  /\ \A t \in EvidenceTool : Received(counts, t) <= byTool[t]

AnyCount == TRUE  \* slip: OCR's own count is not compared
CountMatches == snapshot.submissions = byTool["diagram"]

(* admit_diagram and admit_candidate; the text and source checks and OCR's   *)
(* failure count may still refuse any candidate.                             *)
Admissible ==
  IF snapshot # None /\ snapshot.reason = "none" /\ CountMatches
  THEN {snapshot.candidate, None} ELSE {None}

Finalize(mandatory) ==
  /\ runner = "captured"
  /\ Verified(mandatory)
  /\ runner' = IF mandatory THEN "reviewed" ELSE "unmandated"
  /\ diagram' \in Admissible
  /\ UNCHANGED <<at, byTool, receiptVars, collectorVars, taken, snapshot>>

(* What is not verified is rejected; the other checks of the result may fail *)
(* as well.                                                                  *)
Reject ==
  /\ runner = "captured" /\ runner' = "rejected"
  /\ UNCHANGED <<at, byTool, receiptVars, collectorVars, taken, snapshot, diagram>>

Runner == OcrExits \/ ReadReceipt \/ Capture \/ Reject \/ \E m \in BOOLEAN : Finalize(m)

Next ==
  \/ \E s \in Server : Request(s) \/ Handles(s) \/ Dies(s)
  \/ \E s \in Server : LockFails(s) /\ UNCHANGED <<collectorVars, runnerVars>>
  \/ \E t \in Tool : Undispatched(t)
  \/ Runner

(* A process that handles a request takes its next step, once the lock it    *)
(* waits for is free; no wait is ended by a failure that need not happen.    *)
Fairness == \A s \in Server : WF_vars(Handles(s))
Spec == Init /\ [][Next]_vars
FairSpec == Spec /\ Fairness

-----------------------------------------------------------------------------

(* No increment of any process is lost or made twice, whatever processes     *)
(* interleave, fail half-way or die: the file is the sum of what was written.*)
CountsExact == CountsOf(receipt) = recorded

(* A review that is finalized for publication was served an evidence summary *)
(* in this very run, and no action is attributed that was not served.        *)
VerifiedEvidenceWasServed ==
  /\ runner = "reviewed" => served["summary"] >= 1
  /\ runner \in {"reviewed", "unmandated"} =>
       \A a \in Action : CountsOf(taken).completed[a] <= served[a]

(* The order of arrival selects no winner: an admitted diagram is the only   *)
(* thing this run ever tried to submit, lost and unparsed requests included. *)
DiagramIsUnanimous == diagram # None => proposed = {diagram}

(* Every request ends, unless its process dies: nobody keeps a lock that     *)
(* others wait for.                                                          *)
RequestsEnd == \A s \in Server : at[s] # "idle" ~> at[s] \in {"idle", "dead"}
=============================================================================
