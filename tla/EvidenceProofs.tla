--------------------------- MODULE EvidenceProofs ---------------------------
(* Proofs about EvidenceServers, for any number of servers, requests,        *)
(* diagrams and any limits.                                                  *)
EXTENDS EvidenceInvariant, FiniteSetTheorems, TLAPS

-----------------------------------------------------------------------------
(* The steps by name: what a proof about every step has to look at.          *)

Receives(s) == \E b \in Bucket : EvidenceRequest(s, b)
Proposes(s) == \E value \in Value, size \in Sizes : SubmitRequest(s, value, size)
Replaces(s) == \E ok \in BOOLEAN : RecordAction(s, ok)

LEMMA Steps ==
  ASSUME [Next]_vars
  PROVE  \/ \E s \in Server :
              /\ UNCHANGED <<collectorVars, runnerVars>>
              /\ \/ Receives(s) /\ Asking
                 \/ LockReceipt(s) \/ RecordFails(s) \/ LockFails(s)
                 \/ ServeAction(s) \/ RefuseAction(s) \/ Replaces(s)
         \/ \E s \in Server :
              /\ UNCHANGED <<receiptVars, runnerVars>>
              /\ \/ Proposes(s) /\ Asking
                 \/ LockCollector(s) \/ LockTimesOut(s) \/ Submit(s) \/ SubmitFails(s)
         \/ \E s \in Server : Dies(s)
         \/ \E t \in Tool : Undispatched(t)
         \/ Runner
         \/ UNCHANGED vars
<1>1. ASSUME NEW s \in Server, Request(s)
      PROVE  \/ Receives(s) /\ Asking /\ UNCHANGED <<collectorVars, runnerVars>>
             \/ Proposes(s) /\ Asking /\ UNCHANGED <<receiptVars, runnerVars>>
  BY <1>1 DEF Request, Receives, Proposes
<1>2. ASSUME NEW s \in Server, Handles(s)
      PROVE  \/ Records(s) /\ UNCHANGED <<collectorVars, runnerVars>>
             \/ Collects(s) /\ UNCHANGED <<receiptVars, runnerVars>>
  BY <1>2 DEF Handles
<1> QED
  BY <1>1, <1>2 DEF Next, Records, Collects, Replaces

-----------------------------------------------------------------------------
(* Types                                                                     *)

USE DEF receiptVars, collectorVars, runnerVars

LEMMA RaisedCounts ==
  ASSUME NEW c \in Counts, NEW s \in Server, action \in [Server -> Bucket], Countable(s)
  PROVE  /\ Raised(c, s) \in Counts
         /\ \A a \in Action : Raised(c, s).completed[a] =
              c.completed[a] + IF at[s] # "attempting" /\ action[s] = a THEN 1 ELSE 0
<1>1. action[s] \in Bucket /\ c.attempted \in [Bucket -> Nat] /\ c.completed \in [Action -> Nat]
  BY DEF Counts
<1>2. CASE at[s] = "attempting"
  BY <1>1, <1>2 DEF Raised, Counts
<1>3. CASE at[s] # "attempting"
  BY <1>1, <1>3 DEF Raised, Counts, Bucket
<1> QED
  BY <1>2, <1>3

LEMMA SubmittedType ==
  ASSUME ServerAssumption, CollectorAssumption, NEW old \in Snapshot, NEW v \in Value, NEW n \in Sizes
  PROVE  Submitted(old, v, n) \in Snapshot
<1> DEFINE count == Saturated(MaxSubmissions, old.submissions + 1)
           total == Saturated(MaxBytes, old.inputBytes + n)
           reason == Verdict(old, v, count, total)
<1>1. old.submissions \in Nat /\ old.inputBytes \in Nat /\ n \in Nat /\ old.reason \in Reason
  BY DEF Snapshot, CollectorAssumption
<1>2. count \in 0 .. MaxSubmissions + 1 /\ total \in 0 .. MaxBytes + 1
  BY <1>1 DEF Saturated, UpTo, CollectorAssumption
<1>3. reason \in Reason
  BY <1>1 DEF Verdict, Reason
<1>4. (IF reason = "none" THEN v ELSE None) \in Value
  BY DEF Value
<1> HIDE DEF count, total, reason
<1> QED
  BY <1>2, <1>3, <1>4 DEF Submitted, Snapshot, count, total, reason

LEMMA ReceiptTypeStep ==
  ASSUME TypeOK, NEW s \in Server, UNCHANGED <<collectorVars, runnerVars>>,
         \/ Receives(s) \/ LockReceipt(s) \/ RecordFails(s) \/ LockFails(s)
         \/ ServeAction(s) \/ RefuseAction(s) \/ Replaces(s)
  PROVE  TypeOK'
<1> USE DEF TypeOK, ServerTypes, ReceiptTypes, Moves
<1>1. NoCounts \in Counts /\ CountsOf(receipt) \in Counts
  BY DEF NoCounts, Counts, CountsOf
<1>2. CollectorTypes' /\ runner' = runner /\ taken' = taken /\ snapshot' = snapshot /\ diagram' = diagram
  BY DEF CollectorTypes
<1>3. ASSUME NEW b \in Bucket, EvidenceRequest(s, b) PROVE TypeOK'
  <2>1. ToolOf(b) \in Tool
    BY DEF Tool, EvidenceTool
  <2> QED
    BY <1>2, <1>3, <2>1 DEF EvidenceRequest, Counted, Step
<1>4. CASE LockReceipt(s)
  BY <1>1, <1>2, <1>4 DEF LockReceipt, Step
<1>5. AfterRecord(s) \in Step /\ AfterServed(s) \in Step /\ AfterRefused(s) \in Step
  BY DEF AfterRecord, AfterServed, AfterRefused, Step
<1>6. ASSUME NEW step \in Step, LeaveAt(s, step)
      PROVE  at' \in [Server -> Step] /\ action' \in [Server -> Bucket]
  BY <1>6 DEF LeaveAt, Bucket
<1>7. CASE RecordFails(s)
  BY <1>1, <1>2, <1>5, <1>6, <1>7 DEF RecordFails, GoesOnWithoutCount, ForgetCounts, Released
<1>8. CASE LockFails(s)
  BY <1>1, <1>2, <1>5, <1>6, <1>8 DEF LockFails, GoesOnWithoutCount, ForgetCounts
<1>9. CASE ServeAction(s)
  BY <1>2, <1>5, <1>6, <1>9 DEF ServeAction
<1>10. CASE RefuseAction(s)
  BY <1>2, <1>5, <1>6, <1>10 DEF RefuseAction
<1>11. ASSUME NEW ok \in BOOLEAN, RecordAction(s, ok) PROVE TypeOK'
  <2>1. Raised(read[s], s) \in Counts /\ Raised(recorded, s) \in Counts
    BY <1>11, RaisedCounts DEF RecordAction
  <2> QED
    BY <1>1, <1>2, <1>5, <1>6, <1>11, <2>1 DEF RecordAction, ForgetCounts
<1> QED
  BY <1>3, <1>4, <1>7, <1>8, <1>9, <1>10, <1>11 DEF Receives, Replaces

LEMMA CollectorTypeStep ==
  ASSUME TypeOK, NEW s \in Server, UNCHANGED <<receiptVars, runnerVars>>,
         \/ Proposes(s) \/ LockCollector(s) \/ LockTimesOut(s) \/ Submit(s) \/ SubmitFails(s)
  PROVE  TypeOK'
<1> USE DEF TypeOK, ServerTypes, CollectorTypes, Moves
<1>1. Fresh \in Snapshot /\ NoSubmission \in [value : Value, size : Sizes]
  BY CollectorAssumption DEF Fresh, Snapshot, NoSubmission, Reason, Value
<1>2. ReceiptTypes' /\ runner' = runner /\ taken' = taken /\ snapshot' = snapshot /\ diagram' = diagram
  BY DEF ReceiptTypes
<1>3. ASSUME NEW value \in Value, NEW size \in Sizes, SubmitRequest(s, value, size) PROVE TypeOK'
  BY <1>2, <1>3 DEF SubmitRequest, Counted, Step, Tool
<1>4. CASE LockCollector(s)
  BY <1>2, <1>4 DEF LockCollector, Step
<1>5. ASSUME Answer(s)
      PROVE  /\ at' \in [Server -> Step] /\ submission' \in [Server -> [value : Value, size : Sizes]]
             /\ previous' \in [Server -> Snapshot] /\ byTool' = byTool /\ proposed' = proposed
  BY <1>1, <1>5 DEF Answer, Step
<1>6. CASE LockTimesOut(s)
  BY <1>2, <1>5, <1>6 DEF LockTimesOut
<1>7. CASE Submit(s)
  <2>1. Submitted(previous[s], submission[s].value, submission[s].size) \in Snapshot
    BY ServerAssumption, CollectorAssumption, SubmittedType
  <2> QED
    BY <1>2, <1>5, <1>7, <2>1 DEF Submit
<1>8. CASE SubmitFails(s)
  BY <1>2, <1>5, <1>8 DEF SubmitFails
<1> QED
  BY <1>3, <1>4, <1>6, <1>7, <1>8 DEF Proposes

LEMMA OtherTypeStep ==
  ASSUME TypeOK, (\E s \in Server : Dies(s)) \/ (\E t \in Tool : Undispatched(t)) \/ Runner
  PROVE  TypeOK'
<1> USE DEF TypeOK
<1>1. ASSUME NEW s \in Server, Dies(s) PROVE TypeOK'
  <2>1. Fresh \in Snapshot /\ NoSubmission \in [value : Value, size : Sizes]
    BY CollectorAssumption DEF Fresh, Snapshot, NoSubmission, Reason, Value
  <2>2. NoCounts \in Counts
    BY DEF NoCounts, Counts
  <2> QED
    BY <1>1, <2>1, <2>2 DEF Dies, Moves, Step, Bucket, ServerTypes, ReceiptTypes, CollectorTypes
<1>2. ASSUME NEW t \in Tool, Undispatched(t) PROVE TypeOK'
  BY <1>2 DEF Undispatched, Counted, Value, ServerTypes, ReceiptTypes, CollectorTypes
<1>3. CASE OcrExits \/ ReadReceipt \/ Capture \/ Reject
  BY <1>3 DEF OcrExits, ReadReceipt, Capture, Reject, ServerTypes, ReceiptTypes, CollectorTypes, Ended
<1>4. ASSUME NEW m \in BOOLEAN, Finalize(m) PROVE TypeOK'
  <2>1. Admissible \subseteq Value
    BY SnapshotAssumption DEF Admissible, Value, Snapshot
  <2> QED
    BY <1>4, <2>1 DEF Finalize, ServerTypes, ReceiptTypes, CollectorTypes, Ended
<1> QED
  BY <1>1, <1>2, <1>3, <1>4 DEF Runner

LEMMA TypeCorrectInit == Init => TypeOK
BY ServerAssumption, CollectorAssumption DEF Init, TypeOK, ServerInit, ReceiptInit, CollectorInit, ServerTypes,
   ReceiptTypes, CollectorTypes, Counts, NoCounts, Bucket, Value, Snapshot, Fresh, NoSubmission, Reason, Tool, Step

LEMMA TypeStep == TypeOK /\ [Next]_vars => TypeOK'
<1>1. TypeOK /\ UNCHANGED vars => TypeOK'
  BY DEF TypeOK, vars, ServerTypes, ReceiptTypes, CollectorTypes
<1> QED
  BY <1>1, Steps, ReceiptTypeStep, CollectorTypeStep, OtherTypeStep

(* Every variable keeps its type; the collector's counters stay saturated.   *)
THEOREM TypeCorrect == Spec => []TypeOK
BY TypeCorrectInit, TypeStep, PTL DEF Spec

-----------------------------------------------------------------------------
(* The locks and the counts                                                  *)

LEMMA AfterRecordIdle ==
  ASSUME NEW s \in Server
  PROVE  AfterRecord(s) \in {"serve", "idle"} /\ AfterServed(s) \in {"complete", "idle"} /\ AfterRefused(s) = "idle"
BY DEF AfterRecord, AfterServed, AfterRefused

(* A step of one process leaves what the others know alone, since none of    *)
(* them is between a read and a replacement of the file it replaces.         *)
LEMMA LockStep ==
  ASSUME TypeOK, LockInv, [Next]_vars
  PROVE  LockInv'
<1> USE DEF LockInv, Moves, TypeOK, ServerTypes
<1>1. ASSUME NEW s \in Server, UNCHANGED <<collectorVars, runnerVars>>,
             Receives(s) \/ LockReceipt(s) \/ RecordFails(s) \/ LockFails(s)
      PROVE  LockInv'
  <2>1. CASE Receives(s)
    BY <1>1, <2>1 DEF Receives, EvidenceRequest, CountsOf
  <2>2. CASE LockReceipt(s)
    BY <1>1, <2>2, ServerAssumption DEF LockReceipt, ReceiptFree, ReceiptTypes, CountsOf
  <2>3. CASE RecordFails(s)
    BY <1>1, <2>3, AfterRecordIdle DEF RecordFails, GoesOnWithoutCount, ForgetCounts, LeaveAt, Released, CountsOf
  <2>4. CASE LockFails(s)
    BY <1>1, <2>4, AfterRecordIdle DEF LockFails, GoesOnWithoutCount, ForgetCounts, LeaveAt, CountsOf
  <2> QED
    BY <1>1, <2>1, <2>2, <2>3, <2>4
<1>2. ASSUME NEW s \in Server, UNCHANGED <<collectorVars, runnerVars>>,
             ServeAction(s) \/ RefuseAction(s)
      PROVE  LockInv'
  BY <1>2, AfterRecordIdle DEF ServeAction, RefuseAction, LeaveAt
<1>3. ASSUME NEW s \in Server, UNCHANGED <<collectorVars, runnerVars>>, Replaces(s)
      PROVE  LockInv'
  BY <1>3, AfterRecordIdle DEF Replaces, RecordAction, LeaveAt, ForgetCounts, ReceiptTypes
<1>4. ASSUME NEW s \in Server, UNCHANGED <<receiptVars, runnerVars>>,
             Proposes(s) \/ LockCollector(s) \/ LockTimesOut(s) \/ Submit(s) \/ SubmitFails(s)
      PROVE  LockInv'
  BY <1>4, ServerAssumption DEF Proposes, SubmitRequest, LockCollector, LockTimesOut, Submit, SubmitFails, Answer,
     CollectorTypes, CountsOf
<1>5. ASSUME NEW s \in Server, Dies(s) PROVE LockInv'
  BY <1>5 DEF Dies, ReceiptTypes, CollectorTypes, CountsOf
<1>6. CASE (\E t \in Tool : Undispatched(t)) \/ Runner \/ UNCHANGED vars
  BY <1>6 DEF Undispatched, Runner, OcrExits, ReadReceipt, Capture, Reject, Finalize, vars, CountsOf
<1> QED
  BY <1>1, <1>2, <1>3, <1>4, <1>5, <1>6, Steps

(* Only a replacement changes the file, and the file is what was read.       *)
LEMMA CountsStep ==
  ASSUME TypeOK, LockInv, CountsExact, [Next]_vars
  PROVE  CountsExact'
<1> USE DEF CountsExact, CountsOf
<1>1. ASSUME NEW s \in Server, NEW ok \in BOOLEAN, RecordAction(s, ok) PROVE CountsExact'
  <2>1. read[s] = recorded
    BY <1>1 DEF RecordAction, LockInv
  <2>2. Raised(recorded, s) \in Counts
    BY <1>1, RaisedCounts DEF RecordAction, TypeOK, ReceiptTypes
  <2> QED
    BY <1>1, <2>1, <2>2, ReceiptAssumption DEF RecordAction
<1>2. ASSUME NEW s \in Server, UNCHANGED <<collectorVars, runnerVars>>,
             \/ Receives(s) \/ LockReceipt(s) \/ RecordFails(s) \/ LockFails(s)
             \/ ServeAction(s) \/ RefuseAction(s)
      PROVE  CountsExact'
  BY <1>2 DEF Receives, EvidenceRequest, LockReceipt, RecordFails, LockFails, GoesOnWithoutCount, ServeAction,
     RefuseAction
<1>3. CASE \/ UNCHANGED <<receiptVars, runnerVars>> \/ (\E s \in Server : Dies(s))
           \/ (\E t \in Tool : Undispatched(t)) \/ Runner \/ UNCHANGED vars
  BY <1>3 DEF Dies, Undispatched, Runner, OcrExits, ReadReceipt, Capture, Reject, Finalize, vars
<1> QED
  BY <1>1, <1>2, <1>3, Steps DEF Replaces

-----------------------------------------------------------------------------
(* What is counted as completed was served                                   *)

LEMMA FiniteServers ==
  ASSUME NEW S \in SUBSET Server
  PROVE  IsFiniteSet(S) /\ Cardinality(S) \in Nat
BY ServerAssumption, FS_Subset, FS_CardinalityType

LEMMA Grows ==
  ASSUME NEW S \in SUBSET Server, NEW s \in Server
  PROVE  /\ S \cup {s} \in SUBSET Server /\ S \ {s} \in SUBSET Server
         /\ Cardinality(S \cup {s}) <= Cardinality(S) + 1
         /\ s \notin S => Cardinality(S \cup {s}) = Cardinality(S) + 1
         /\ Cardinality(S \ {s}) <= Cardinality(S)
         /\ s \in S => Cardinality(S \ {s}) = Cardinality(S) - 1
BY FiniteServers, FS_AddElement, FS_RemoveElement

LEMMA ServedStep ==
  ASSUME TypeOK, LockInv, CountsExact, ServedInv, [Next]_vars
  PROVE  ServedInv'
<1> USE DEF Moves
<1> DEFINE Bounded == \A a \in Action : recorded.completed[a] + Cardinality(Completing(a)) <= served[a]
<1>0. /\ at \in [Server -> Step] /\ action \in [Server -> Bucket] /\ served \in [Action -> Nat]
      /\ recorded \in Counts /\ taken \in Counts \cup {None}
      /\ Bounded
  BY DEF TypeOK, ServerTypes, ReceiptTypes, ServedInv
<1>1. \A a \in Action : /\ recorded.completed[a] \in Nat /\ served[a] \in Nat
                        /\ CountsOf(taken).completed[a] \in Nat
                        /\ Completing(a) \in SUBSET Server /\ Cardinality(Completing(a)) \in Nat
  BY <1>0, FiniteServers DEF Counts, CountsOf, NoCounts, Completing
<1>2. ASSUME NEW s \in Server, recorded' = recorded, served' = served,
             \A a \in Action : Completing(a)' = Completing(a) \/ Completing(a)' = Completing(a) \ {s}
      PROVE  Bounded'
  <2> SUFFICES ASSUME NEW a \in Action
               PROVE  recorded.completed[a] + Cardinality(Completing(a)') <= served[a]
    BY <1>2
  <2>1. /\ Cardinality(Completing(a) \ {s}) <= Cardinality(Completing(a))
        /\ Cardinality(Completing(a) \ {s}) \in Nat
    BY <1>1, Grows, FiniteServers
  <2>2. \/ Cardinality(Completing(a)') = Cardinality(Completing(a))
        \/ Cardinality(Completing(a)') = Cardinality(Completing(a) \ {s})
    BY <1>2
  <2> QED
    BY <1>0, <1>1, <2>1, <2>2
<1>3. ASSUME NEW s \in Server, Receives(s) \/ LockReceipt(s) \/ RecordFails(s) \/ LockFails(s) \/ RefuseAction(s)
      PROVE  Bounded'
  <2>1. \A a \in Action : Completing(a)' = Completing(a) \/ Completing(a)' = Completing(a) \ {s}
    BY <1>3, <1>0, AfterRecordIdle DEF Completing, Receives, EvidenceRequest, LockReceipt, RecordFails, LockFails,
       GoesOnWithoutCount, LeaveAt, RefuseAction
  <2> QED
    BY <1>2, <1>3, <2>1 DEF Receives, EvidenceRequest, LockReceipt, RecordFails, LockFails, GoesOnWithoutCount, RefuseAction
<1>4. ASSUME NEW s \in Server, ServeAction(s) PROVE Bounded'
  <2> SUFFICES ASSUME NEW a \in Action
               PROVE  recorded.completed[a] + Cardinality(Completing(a)') <= served'[a]
    BY <1>4 DEF ServeAction
  <2>0. /\ Cardinality(Completing(a) \ {s}) <= Cardinality(Completing(a))
        /\ Cardinality(Completing(a) \ {s}) \in Nat
        /\ Cardinality(Completing(a) \cup {s}) <= Cardinality(Completing(a)) + 1
        /\ Cardinality(Completing(a) \cup {s}) \in Nat
    BY <1>1, Grows, FiniteServers
  <2>1. CASE a = action[s]
    <3>1. Completing(a)' = Completing(a) \cup {s} \/ Completing(a)' = Completing(a) \ {s}
      BY <1>4, <2>1, <1>0, AfterRecordIdle DEF Completing, ServeAction, LeaveAt
    <3>2. \/ Cardinality(Completing(a)') = Cardinality(Completing(a) \cup {s})
          \/ Cardinality(Completing(a)') = Cardinality(Completing(a) \ {s})
      BY <3>1
    <3>3. served'[a] = served[a] + 1
      BY <1>0, <1>4, <2>1 DEF ServeAction
    <3> QED
      BY <1>0, <1>1, <2>0, <3>2, <3>3
  <2>2. CASE a # action[s]
    <3>1. Completing(a)' = Completing(a) \/ Completing(a)' = Completing(a) \ {s}
      BY <1>4, <2>2, <1>0, AfterRecordIdle DEF Completing, ServeAction, LeaveAt
    <3>2. \/ Cardinality(Completing(a)') = Cardinality(Completing(a))
          \/ Cardinality(Completing(a)') = Cardinality(Completing(a) \ {s})
      BY <3>1
    <3>3. served'[a] = served[a]
      BY <1>0, <1>4, <2>2 DEF ServeAction
    <3> QED
      BY <1>0, <1>1, <2>0, <3>2, <3>3
  <2> QED
    BY <2>1, <2>2
<1>5. ASSUME NEW s \in Server, NEW ok \in BOOLEAN, RecordAction(s, ok) PROVE Bounded'
  <2> SUFFICES ASSUME NEW a \in Action
               PROVE  recorded'.completed[a] + Cardinality(Completing(a)') <= served[a]
    BY <1>5 DEF RecordAction
  <2>1. recorded'.completed[a] =
          recorded.completed[a] + IF at[s] # "attempting" /\ action[s] = a THEN 1 ELSE 0
    BY <1>0, <1>5, RaisedCounts DEF RecordAction
  <2>2. Completing(a)' = IF at[s] # "attempting" /\ action[s] = a THEN Completing(a) \ {s} ELSE Completing(a)
    BY <1>0, <1>5 DEF RecordAction, Completing, LeaveAt, AfterRecord
  <2>3. at[s] # "attempting" /\ action[s] = a => s \in Completing(a)
    BY <1>5 DEF RecordAction, Completing
  <2> QED
    BY <1>0, <1>1, <2>1, <2>2, <2>3, Grows
<1>6. ASSUME NEW s \in Server, Dies(s) PROVE Bounded'
  <2>1. \A a \in Action : Completing(a)' = Completing(a) \/ Completing(a)' = Completing(a) \ {s}
    BY <1>0, <1>6 DEF Completing, Dies
  <2> QED
    BY <1>2, <1>6, <2>1 DEF Dies
<1>7. ASSUME NEW s \in Server, UNCHANGED <<receiptVars, runnerVars>>,
             Proposes(s) \/ LockCollector(s) \/ LockTimesOut(s) \/ Submit(s) \/ SubmitFails(s)
      PROVE  Bounded'
  <2>1. \A a \in Action : Completing(a)' = Completing(a)
    BY <1>0, <1>7 DEF Completing, Proposes, SubmitRequest, LockCollector, LockTimesOut, Submit, SubmitFails, Answer
  <2> QED
    BY <1>2, <1>7, <2>1
<1>8. ASSUME (\E t \in Tool : Undispatched(t)) \/ Runner \/ UNCHANGED vars PROVE Bounded'
  <2>1. recorded' = recorded /\ served' = served /\ at' = at /\ action' = action
    BY <1>8 DEF Undispatched, Runner, OcrExits, ReadReceipt, Capture, Reject, Finalize, vars
  <2> SUFFICES ASSUME NEW a \in Action
               PROVE  recorded.completed[a] + Cardinality(Completing(a)') <= served[a]
    BY <2>1
  <2>2. Cardinality(Completing(a)') = Cardinality(Completing(a))
    BY <2>1 DEF Completing
  <2> QED
    BY <1>0, <2>2
<1>9. Bounded'
  <2> HIDE DEF Bounded
  <2>1. ASSUME NEW s \in Server, Replaces(s) PROVE Bounded'
    BY <1>5, <2>1 DEF Replaces
  <2> QED
    BY <1>3, <1>4, <1>6, <1>7, <1>8, <2>1, Steps
<1>10. \A a \in Action : served'[a] >= served[a] /\ served'[a] \in Nat
  <2>1. served' = served \/ \E s \in Server : ServeAction(s)
    BY Steps DEF Receives, EvidenceRequest, LockReceipt, RecordFails, LockFails, GoesOnWithoutCount, RefuseAction,
       Replaces, RecordAction, Dies, Undispatched, Runner, OcrExits, ReadReceipt, Capture, Reject, Finalize, vars
  <2> QED
    BY <1>0, <1>1, <2>1 DEF ServeAction
<1>11. CASE ReadReceipt
  <2>1. \A a \in Action : recorded.completed[a] <= served[a]
    BY <1>0, <1>1
  <2>2. CountsOf(taken') = recorded \/ CountsOf(taken') = NoCounts
    BY <1>11 DEF ReadReceipt, CountsExact, CountsOf
  <2> QED
    BY <1>0, <1>1, <1>9, <1>11, <2>1, <2>2 DEF ReadReceipt, NoCounts, ServedInv
<1>12. CASE ~ReadReceipt
  <2>1. taken' = taken
    BY <1>12, Steps DEF Dies, Undispatched, Runner, OcrExits, Capture, Reject, Finalize, vars
  <2>2. CountsOf(taken)' = CountsOf(taken)
    BY <2>1 DEF CountsOf
  <2>3. runner' = "reviewed" => runner = "reviewed" \/ CountsOf(taken).completed["summary"] >= 1
    BY <1>12, Steps DEF Dies, Undispatched, Runner, OcrExits, Capture, Reject, Finalize, Verified, vars
  <2>4. \A a \in Action : CountsOf(taken').completed[a] <= served'[a]
    BY <1>1, <1>10, <2>2 DEF ServedInv
  <2> QED
    BY <1>9, <2>1, <2>2, <2>3, <2>4 DEF ServedInv
<1> QED
  BY <1>11, <1>12

-----------------------------------------------------------------------------
(* The collector: nothing that was proposed is forgotten while OCR's count    *)
(* and the collector's agree.                                                *)

LEMMA SubmittedMeans ==
  ASSUME CollectorAssumption, NEW old \in Snapshot, NEW v \in Value, NEW n \in Sizes
  PROVE  LET new == Submitted(old, v, n) IN
         /\ new.submissions <= old.submissions + 1
         /\ new.reason = "none" =>
              old.reason = "none" /\ v # None /\ new.candidate = v /\ old.candidate \in {None, v}
         /\ new.candidate \in {None, v}
<1>1. old.submissions \in 0 .. MaxSubmissions + 1 /\ MaxSubmissions \in Nat
  BY DEF Snapshot, CollectorAssumption
<1>2. Saturated(MaxSubmissions, old.submissions + 1) <= old.submissions + 1
  BY <1>1 DEF Saturated, UpTo
<1> QED
  BY <1>2 DEF Submitted, Verdict

(* A step that adds to no count and loses at most one submission.            *)
LEMMA CollectorLess ==
  ASSUME TypeOK, CollectorInv, NEW s \in Server,
         collector' = collector, proposed' = proposed, byTool' = byTool,
         Submitting' = Submitting \ {s},
         \A r \in Server \ {s} : submission'[r] = submission[r]
  PROVE  CollectorInv'
<1>1. /\ Submitting \in SUBSET Server /\ Cardinality(Submitting) \in Nat
      /\ Cardinality(Submitting \ {s}) \in Nat
      /\ Cardinality(Submitting \ {s}) <= Cardinality(Submitting)
      /\ s \in Submitting => Cardinality(Submitting \ {s}) = Cardinality(Submitting) - 1
  BY FiniteServers, Grows DEF Submitting
<1>2. collector.submissions \in Nat /\ byTool["diagram"] \in Nat
  BY CollectorAssumption DEF TypeOK, CollectorTypes, ServerTypes, Snapshot, Tool
<1>3. Cardinality(Submitting') = Cardinality(Submitting \ {s})
  OBVIOUS
<1>4. Held(collector)' = Held(collector)
  BY DEF Held
<1>5. CASE s \in Submitting
  BY <1>1, <1>2, <1>3, <1>4, <1>5 DEF CollectorInv
<1>6. CASE s \notin Submitting
  <2>1. Submitting' = Submitting /\ \A r \in Submitting : submission'[r] = submission[r]
    BY <1>1, <1>6
  <2> QED
    BY <1>4, <2>1 DEF CollectorInv
<1> QED
  BY <1>5, <1>6

LEMMA CollectorSame ==
  ASSUME CollectorInv, collector' = collector, proposed' = proposed, byTool'["diagram"] = byTool["diagram"],
         Submitting' = Submitting, submission' = submission
  PROVE  CollectorInv'
<1>1. Cardinality(Submitting') = Cardinality(Submitting) /\ Held(collector)' = Held(collector)
  BY DEF Held
<1> QED
  BY <1>1 DEF CollectorInv

LEMMA CollectorStep ==
  ASSUME TypeOK, LockInv, CollectorInv, [Next]_vars
  PROVE  CollectorInv'
<1> USE DEF Moves
<1>0. /\ at \in [Server -> Step] /\ byTool \in [Tool -> Nat] /\ collector \in Snapshot
      /\ submission \in [Server -> [value : Value, size : Sizes]]
      /\ collector.submissions \in Nat /\ "diagram" \in Tool
      /\ Submitting \in SUBSET Server /\ Cardinality(Submitting) \in Nat
  BY FiniteServers, CollectorAssumption DEF TypeOK, ServerTypes, CollectorTypes, Snapshot, Submitting, Tool
<1>1. ASSUME NEW s \in Server, UNCHANGED <<collectorVars, runnerVars>>,
             \/ Receives(s) \/ LockReceipt(s) \/ RecordFails(s) \/ LockFails(s)
             \/ ServeAction(s) \/ RefuseAction(s) \/ Replaces(s)
      PROVE  CollectorInv'
  <2>1. Submitting' = Submitting
    BY <1>0, <1>1, AfterRecordIdle DEF Submitting, Receives, EvidenceRequest, LockReceipt, RecordFails, LockFails,
       GoesOnWithoutCount, ServeAction, RefuseAction, Replaces, RecordAction, LeaveAt
  <2>2. byTool'["diagram"] = byTool["diagram"]
    <3>1. \A b \in Bucket : ToolOf(b) # "diagram"
      BY DEF ToolOf
    <3> QED
      BY <1>0, <1>1, <3>1 DEF Receives, EvidenceRequest, Counted, LockReceipt, RecordFails, LockFails,
         GoesOnWithoutCount, ServeAction, RefuseAction, Replaces, RecordAction
  <2> QED
    BY <1>1, <2>1, <2>2, CollectorSame
<1>2. ASSUME NEW s \in Server, NEW value \in Value, NEW size \in Sizes, SubmitRequest(s, value, size)
      PROVE  CollectorInv'
  <2>1. s \notin Submitting /\ Submitting' = Submitting \cup {s}
    BY <1>0, <1>2 DEF SubmitRequest, Submitting
  <2>2. Cardinality(Submitting') = Cardinality(Submitting) + 1
    BY <1>0, <2>1, Grows
  <2>3. byTool'["diagram"] = byTool["diagram"] + 1 /\ byTool["diagram"] \in Nat
    BY <1>0, <1>2 DEF SubmitRequest, Counted
  <2>4. /\ collector' = collector /\ Held(collector)' = Held(collector) /\ proposed' = proposed \cup {value}
        /\ submission'[s].value = value /\ \A r \in Submitting : submission'[r] = submission[r]
    BY <1>0, <1>2, <2>1 DEF SubmitRequest, Held
  <2> QED
    BY <1>0, <2>1, <2>2, <2>3, <2>4 DEF CollectorInv
<1>3. ASSUME NEW s \in Server, LockCollector(s) PROVE CollectorInv'
  <2>1. Submitting' = Submitting
    BY <1>0, <1>3 DEF LockCollector, Submitting
  <2> QED
    BY <1>3, <2>1, CollectorSame DEF LockCollector
<1>4. ASSUME NEW s \in Server, Answer(s)
      PROVE  /\ Submitting' = Submitting \ {s} /\ byTool' = byTool /\ proposed' = proposed
             /\ \A r \in Server \ {s} : submission'[r] = submission[r]
  BY <1>0, <1>4 DEF Answer, Submitting
<1>5. ASSUME NEW s \in Server, LockTimesOut(s) \/ SubmitFails(s) PROVE CollectorInv'
  BY <1>4, <1>5, CollectorLess DEF LockTimesOut, SubmitFails
<1>6. ASSUME NEW s \in Server, Submit(s) PROVE CollectorInv'
  <2> DEFINE v == submission[s].value
             new == Submitted(collector, v, submission[s].size)
  <2>1. Answer(s) /\ collector' = new /\ s \in Submitting
    BY <1>6 DEF Submit, LockInv, Submitting
  <2>2. v \in Value /\ submission[s].size \in Sizes
    BY <1>0
  <2>3. /\ new.submissions <= collector.submissions + 1 /\ new.submissions \in Nat
        /\ new.reason = "none" =>
             collector.reason = "none" /\ v # None /\ new.candidate = v /\ collector.candidate \in {None, v}
        /\ new.candidate \in {None, v}
    <3>1. new \in Snapshot
      BY <1>0, <2>2, ServerAssumption, CollectorAssumption, SubmittedType
    <3>2. new.submissions \in Nat
      BY <3>1, CollectorAssumption DEF Snapshot
    <3> HIDE DEF v
    <3> QED
      BY <1>0, <2>2, <3>2, CollectorAssumption, SubmittedMeans
  <2>4. /\ Cardinality(Submitting') = Cardinality(Submitting) - 1
        /\ Submitting' = Submitting \ {s} /\ byTool' = byTool /\ proposed' = proposed
        /\ \A r \in Submitting' : submission'[r] = submission[r]
    BY <1>0, <1>4, <2>1, Grows
  <2>5. v \in proposed
    BY <2>1 DEF CollectorInv
  <2>6. Held(collector)' \subseteq {v}
    BY <2>1, <2>3 DEF Held
  <2>7. byTool["diagram"] \in Nat
    BY <1>0
  <2>8. collector'.submissions + Cardinality(Submitting') <= byTool'["diagram"]
    <3>1. collector.submissions + Cardinality(Submitting) <= byTool["diagram"]
      BY DEF CollectorInv
    <3> HIDE DEF new
    <3> QED
      BY <1>0, <2>1, <2>3, <2>4, <2>7, <3>1
  <2>9. ASSUME collector'.reason = "none",
               collector'.submissions + Cardinality(Submitting') = byTool'["diagram"]
        PROVE  proposed' \subseteq Held(collector)' \cup {submission'[r].value : r \in Submitting'}
    <3> HIDE DEF new
    <3>1. collector.submissions + Cardinality(Submitting) = byTool["diagram"]
      <4>1. collector.submissions + Cardinality(Submitting) <= byTool["diagram"]
        BY DEF CollectorInv
      <4>2. new.submissions + (Cardinality(Submitting) - 1) = byTool["diagram"]
        BY <2>1, <2>4, <2>9
      <4>3. new.submissions <= collector.submissions + 1 /\ new.submissions \in Nat
        BY <2>3
      <4>4. collector.submissions \in Nat /\ Cardinality(Submitting) \in Nat
        BY <1>0
      <4> QED
        BY ONLY <2>7, <4>1, <4>2, <4>3, <4>4
    <3>2. collector.reason = "none" /\ Held(collector)' = {v} /\ Held(collector) \subseteq {v}
      BY <2>1, <2>3, <2>9 DEF Held
    <3>3. proposed \subseteq {v} \cup {submission[r].value : r \in Submitting}
      BY <3>1, <3>2 DEF CollectorInv
    <3> QED
      BY <2>4, <3>2, <3>3
  <2>10. \A r \in Submitting' : submission'[r].value \in proposed'
    BY <2>4 DEF CollectorInv
  <2>11. Held(collector)' \subseteq proposed'
    BY <2>4, <2>5, <2>6
  <2> QED
    BY <2>8, <2>9, <2>10, <2>11 DEF CollectorInv
<1>7. ASSUME NEW s \in Server, Dies(s) PROVE CollectorInv'
  <2>1. Submitting' = Submitting \ {s}
    BY <1>0, <1>7 DEF Dies, Submitting
  <2> QED
    BY <1>0, <1>7, <2>1, CollectorLess DEF Dies
<1>8. ASSUME NEW t \in Tool, Undispatched(t) PROVE CollectorInv'
  <2>1. /\ Submitting' = Submitting /\ collector' = collector /\ submission' = submission
        /\ Held(collector)' = Held(collector) /\ Cardinality(Submitting') = Cardinality(Submitting)
    BY <1>8 DEF Undispatched, Submitting, Held
  <2>2. CASE t = "diagram"
    <3>1. byTool'["diagram"] = byTool["diagram"] + 1 /\ byTool["diagram"] \in Nat /\ proposed \subseteq proposed'
      BY <1>0, <1>8, <2>2 DEF Undispatched, Counted
    <3> QED
      BY <1>0, <2>1, <3>1 DEF CollectorInv
  <2>3. CASE t # "diagram"
    <3>1. byTool'["diagram"] = byTool["diagram"] /\ proposed' = proposed
      BY <1>0, <1>8, <2>3 DEF Undispatched, Counted
    <3> QED
      BY <2>1, <3>1, CollectorSame
  <2> QED
    BY <2>2, <2>3
<1>9. ASSUME Runner \/ UNCHANGED vars PROVE CollectorInv'
  <2>1. collector' = collector /\ proposed' = proposed /\ byTool' = byTool /\ at' = at /\ submission' = submission
    BY <1>9 DEF Runner, OcrExits, ReadReceipt, Capture, Reject, Finalize, vars
  <2>2. Submitting' = Submitting
    BY <2>1 DEF Submitting
  <2> QED
    BY <2>1, <2>2, CollectorSame
<1> QED
  BY <1>1, <1>2, <1>3, <1>5, <1>6, <1>7, <1>8, <1>9, Steps DEF Proposes

-----------------------------------------------------------------------------
(* The snapshot and the admitted diagram                                     *)

(* OCR asks for tools only until it exits.                                   *)
LEMMA AskingEnds ==
  ASSUME TypeOK, [Next]_vars, runner # "ocr"
  PROVE  proposed' = proposed /\ byTool' = byTool
BY Steps DEF Asking, Undispatched, LockReceipt, RecordFails, LockFails, GoesOnWithoutCount, ServeAction, RefuseAction,
   Replaces, RecordAction, LockCollector, LockTimesOut, Submit, SubmitFails, Answer, Dies, Runner, OcrExits,
   ReadReceipt, Capture, Reject, Finalize, vars

LEMMA SnapshotStep ==
  ASSUME TypeOK, CollectorInv, SnapshotInv, [Next]_vars
  PROVE  SnapshotInv'
<1>1. CASE UNCHANGED runnerVars
  <2>1. CASE runner = "ocr"
    BY <1>1, <2>1 DEF SnapshotInv, Ended
  <2>2. CASE runner # "ocr"
    BY <1>1, <2>2, AskingEnds DEF SnapshotInv, Held
  <2> QED
    BY <2>1, <2>2
<1>2. CASE OcrExits \/ ReadReceipt
  BY <1>2 DEF OcrExits, ReadReceipt, SnapshotInv, Ended
<1>3. CASE Capture
  <2>1. /\ proposed' = proposed /\ byTool' = byTool /\ diagram = None /\ diagram' = diagram
        /\ runner' = "captured" /\ snapshot' \in {None, collector}
    BY <1>3 DEF Capture, SnapshotInv, Ended
  <2>2. Held(collector) \subseteq proposed
    BY DEF CollectorInv
  <2>3. ASSUME collector.reason = "none", collector.submissions = byTool["diagram"]
        PROVE  proposed \subseteq Held(collector)
    <3>1. /\ Submitting \in SUBSET Server /\ IsFiniteSet(Submitting) /\ Cardinality(Submitting) \in Nat
          /\ collector.submissions \in Nat
      BY FiniteServers, CollectorAssumption DEF Submitting, TypeOK, CollectorTypes, Snapshot
    <3>2. Cardinality(Submitting) = 0
      BY <2>3, <3>1 DEF CollectorInv
    <3>3. Submitting = {}
      BY <3>1, <3>2, FS_EmptySet
    <3> QED
      BY <2>3, <3>1, <3>2, <3>3 DEF CollectorInv
  <2>4. CASE snapshot' = None
    BY <2>1, <2>4 DEF SnapshotInv
  <2>5. CASE snapshot' = collector
    <3>1. Held(snapshot)' = Held(collector)
      BY <2>5 DEF Held
    <3> QED
      BY <2>1, <2>2, <2>3, <2>5, <3>1 DEF SnapshotInv
  <2> QED
    BY <2>1, <2>4, <2>5
<1>4. CASE Reject
  BY <1>4 DEF Reject, SnapshotInv, Ended, Held
<1>5. ASSUME NEW m \in BOOLEAN, Finalize(m) PROVE SnapshotInv'
  <2>1. /\ proposed' = proposed /\ byTool' = byTool /\ snapshot' = snapshot
        /\ runner' \in Ended /\ runner' \notin {"ocr", "exited", "read"} /\ diagram' \in Admissible
    BY <1>5 DEF Finalize, Ended
  <2>2. ASSUME diagram' # None PROVE proposed = {diagram'}
    <3>1. /\ snapshot # None /\ snapshot.reason = "none" /\ snapshot.submissions = byTool["diagram"]
          /\ diagram' = snapshot.candidate
      BY <2>1, <2>2 DEF Admissible, CountMatches
    <3>2. Held(snapshot) = {diagram'}
      BY <2>2, <3>1 DEF Held
    <3> QED
      BY <3>1, <3>2 DEF SnapshotInv
  <2> QED
    BY <2>1, <2>2 DEF SnapshotInv, Held
<1>6. UNCHANGED runnerVars \/ Runner
  BY Steps DEF Dies, Undispatched, vars
<1> QED
  BY <1>1, <1>2, <1>3, <1>4, <1>5, <1>6 DEF Runner

-----------------------------------------------------------------------------
(* The theorems                                                              *)

(* Locks protect what they guard, and OCR's own counts bound the servers'.   *)
THEOREM EvidenceInvariant == Spec => [](TypeOK /\ EvidenceInv)
<1>1. Init => TypeOK /\ EvidenceInv
  <2> SUFFICES ASSUME Init PROVE EvidenceInv
    BY TypeCorrectInit
  <2>1. Submitting = {} /\ \A a \in Action : Completing(a) = {}
    BY DEF Init, ServerInit, Submitting, Completing
  <2>2. Cardinality({}) = 0
    BY FS_EmptySet
  <2>3. Cardinality(Submitting) = 0 /\ \A a \in Action : Cardinality(Completing(a)) = 0
    BY <2>1, <2>2
  <2>4. LockInv /\ CountsExact
    BY DEF Init, ServerInit, ReceiptInit, LockInv, CountsExact, CountsOf
  <2>5. ServedInv
    BY <2>3 DEF Init, ReceiptInit, ServedInv, CountsOf, NoCounts
  <2>6. CollectorInv
    <3>1. byTool["diagram"] = 0 /\ collector = Fresh /\ proposed = {}
      BY DEF Init, ServerInit, CollectorInit, Tool
    <3> QED
      BY <2>1, <2>3, <3>1 DEF CollectorInv, Held, Fresh
  <2>7. SnapshotInv
    BY DEF Init, SnapshotInv
  <2> QED
    BY <2>4, <2>5, <2>6, <2>7 DEF EvidenceInv
<1>2. TypeOK /\ EvidenceInv /\ [Next]_vars => TypeOK' /\ EvidenceInv'
  BY TypeStep, LockStep, CountsStep, ServedStep, CollectorStep, SnapshotStep DEF EvidenceInv
<1> QED
  BY <1>1, <1>2, PTL DEF Spec

(* No increment of any server is lost or made twice.                         *)
THEOREM CountsAreExact == Spec => []CountsExact
BY EvidenceInvariant, PTL DEF EvidenceInv

(* What the runner accepts as used evidence was produced in this run.        *)
THEOREM VerifiedWasServed == Spec => []VerifiedEvidenceWasServed
<1>1. TypeOK /\ EvidenceInv => VerifiedEvidenceWasServed
  BY ServerAssumption DEF EvidenceInv, ServedInv, VerifiedEvidenceWasServed, TypeOK, ReceiptTypes, Counts, CountsOf, NoCounts
<1> QED
  BY <1>1, EvidenceInvariant, PTL

(* An admitted diagram is the only thing the run ever tried to submit.       *)
THEOREM NoWinnerByOrder == Spec => []DiagramIsUnanimous
<1>1. EvidenceInv => DiagramIsUnanimous
  BY DEF EvidenceInv, SnapshotInv, DiagramIsUnanimous
<1> QED
  BY <1>1, EvidenceInvariant, PTL
=============================================================================
