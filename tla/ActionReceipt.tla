--------------------------- MODULE ActionReceipt ---------------------------
(* The count-only receipt of built-in evidence actions (evidence/actions.py) *)
(* and the request handler that writes it (evidence/mcp.py): an attempt is   *)
(* recorded before the action is served and a completion after it, each as   *)
(* a read, an increment and an atomic replacement under one flock.           *)
EXTENDS EvidenceServer

VARIABLES
  action,           \* the bucket of the request a process handles
  attemptRecorded,  \* its local variable of that name
  read,             \* the counts it read under the lock
  receipt,          \* the file, None while absent
  receiptLock,      \* holder of the flock
  recorded,         \* every increment that reached the file (history)
  served            \* actions whose result was produced (history)

receiptVars == <<action, attemptRecorded, read, receipt, receiptLock, recorded, served>>

Counts == [attempted : [Bucket -> Nat], completed : [Action -> Nat]]
NoCounts == [attempted |-> [b \in Bucket |-> 0], completed |-> [a \in Action |-> 0]]
CountsOf(r) == IF r = None THEN NoCounts ELSE r

ASSUME ReceiptAssumption == None \notin Counts

ReceiptTypes ==
  /\ action \in [Server -> Bucket] /\ attemptRecorded \in [Server -> BOOLEAN]
  /\ read \in [Server -> Counts] /\ receipt \in Counts \cup {None}
  /\ receiptLock \in Server \cup {None}
  /\ recorded \in Counts /\ served \in [Action -> Nat]

ReceiptInit ==
  /\ action = [s \in Server |-> "unattributed"]
  /\ attemptRecorded = [s \in Server |-> FALSE]
  /\ read = [s \in Server |-> NoCounts]
  /\ receipt = None /\ receiptLock = None
  /\ recorded = NoCounts /\ served = [a \in Action |-> 0]

EvidenceRequest(s, b) ==
  /\ at[s] = "idle"
  /\ Moves(s, "attempt")
  /\ Counted(ToolOf(b))
  /\ action' = [action EXCEPT ![s] = b]
  /\ attemptRecorded' = [attemptRecorded EXCEPT ![s] = FALSE]
  /\ UNCHANGED <<read, receipt, receiptLock, recorded, served>>

(* What a process knew of the request is forgotten with the request.         *)
ForgetCounts(s) == read' = [read EXCEPT ![s] = NoCounts]
LeaveAt(s, step) ==
  /\ Moves(s, step)
  /\ action' = [action EXCEPT ![s] = IF step = "idle" THEN "unattributed" ELSE @]

(* _serialized_receipt_update: flock waits without a deadline.               *)
ReceiptOpen == TRUE  \* slip: the lock is not taken
ReceiptFree == receiptLock = None

LockReceipt(s) ==
  /\ at[s] \in {"attempt", "complete"}
  /\ ReceiptFree
  /\ receiptLock' = s
  /\ read' = [read EXCEPT ![s] = CountsOf(receipt)]
  /\ Moves(s, IF at[s] = "attempt" THEN "attempting" ELSE "completing")
  /\ UNCHANGED <<byTool, action, attemptRecorded, receipt, recorded, served>>

Raised(counts, s) ==
  IF at[s] = "attempting" THEN [counts EXCEPT !.attempted[action[s]] = @ + 1]
                          ELSE [counts EXCEPT !.completed[action[s]] = @ + 1]

(* A completion is of an action, and needs an attempt not completed yet.     *)
Countable(s) ==
  at[s] = "completing" =>
    action[s] \in Action /\ read[s].completed[action[s]] < read[s].attempted[action[s]]

AfterRecord(s) == IF at[s] \in {"attempt", "attempting"} THEN "serve" ELSE "idle"

(* record_action replaces the file; an error after the replacement (ok is    *)
(* FALSE) leaves the count in it although the caller believes it failed.     *)
RecordAction(s, ok) ==
  /\ at[s] \in {"attempting", "completing"} /\ Countable(s)
  /\ receipt' = Raised(read[s], s)
  /\ recorded' = Raised(recorded, s)
  /\ receiptLock' = None
  /\ attemptRecorded' = [attemptRecorded EXCEPT ![s] = ok /\ at[s] = "attempting"]
  /\ ForgetCounts(s) /\ LeaveAt(s, AfterRecord(s))
  /\ UNCHANGED <<byTool, served>>

Unreleased(s) == UNCHANGED receiptLock  \* slip: the descriptor of the lock stays open
Released(s) == receiptLock' = IF receiptLock = s THEN None ELSE receiptLock

GoesOnWithoutCount(s) ==
  /\ attemptRecorded' = [attemptRecorded EXCEPT ![s] = FALSE]
  /\ ForgetCounts(s) /\ LeaveAt(s, AfterRecord(s))
  /\ UNCHANGED <<byTool, receipt, recorded, served>>

(* The lock file cannot be opened or locked.                                 *)
LockFails(s) ==
  /\ at[s] \in {"attempt", "complete"}
  /\ UNCHANGED receiptLock
  /\ GoesOnWithoutCount(s)

(* An error under the lock, before the replacement.                          *)
RecordFails(s) ==
  /\ at[s] \in {"attempting", "completing"}
  /\ Released(s)
  /\ GoesOnWithoutCount(s)

AfterServed(s) == IF attemptRecorded[s] THEN "complete" ELSE "idle"
AfterRefusedCompleting(s) == AfterServed(s)  \* slip: an error counts as a completion
AfterRefused(s) == "idle"

(* call_named_tool; an unattributed request always is an error.              *)
ServeAction(s) ==
  /\ at[s] = "serve" /\ action[s] \in Action
  /\ served' = [served EXCEPT ![action[s]] = @ + 1]
  /\ LeaveAt(s, AfterServed(s))
  /\ UNCHANGED <<byTool, attemptRecorded, read, receipt, receiptLock, recorded>>

RefuseAction(s) ==
  /\ at[s] = "serve"
  /\ LeaveAt(s, AfterRefused(s))
  /\ attemptRecorded' = [attemptRecorded EXCEPT ![s] = @ /\ AfterRefused(s) # "idle"]
  /\ UNCHANGED <<byTool, read, receipt, receiptLock, recorded, served>>

Records(s) ==
  \/ LockReceipt(s) \/ RecordFails(s) \/ ServeAction(s) \/ RefuseAction(s)
  \/ \E ok \in BOOLEAN : RecordAction(s, ok)
=============================================================================
