--------------------------- MODULE PostingProofs ---------------------------
(* Proofs about Posting for every value of its constants.                   *)
EXTENDS PostingInvariant, FiniteSetTheorems, TLAPS

(* The ids of notes and their parts.                                        *)
LEMMA IdFacts ==
  /\ \A x \in Author, i \in Item : Draft(x, i) \in Id /\ Live(x, i) \in Id
  /\ \A id \in Id : id[2] \in Author /\ id[3] \in Item
  /\ \A x \in Author, i \in Item : Draft(x, i)[2] = x /\ Live(x, i)[2] = x
  /\ \A x \in Author, i \in Item : Draft(x, i)[3] = i /\ Live(x, i)[3] = i
BY DEF Id, Draft, Live

LEMMA RunFacts == Run \subseteq Author /\ Inline \subseteq Item /\ Plain \subseteq Item
BY DEF Author, Item

LEMMA InitTypeOK == Init => TypeOK
<1> SUFFICES ASSUME Init PROVE TypeOK
  OBVIOUS
<1>1. OldIds \subseteq Id
  BY IdFacts, PostingAssumption DEF OldIds, Author, Item, Plain
<1>2. [draft |-> FALSE, identity |-> FALSE, strict |-> FALSE,
       kind |-> "complete", eligible |-> FALSE] \in Config
  BY DEF Config
<1> QED BY <1>1, <1>2 DEF Init, TypeOK, Author, Ended, Reaction

(* What the answers and the writes of a step do to the provider and job state. *)
LEMMA WriteTypeOK ==
  ASSUME TypeOK, NEW r \in Run, Write(r)
  PROVE  fresh' \in [Run -> BOOLEAN] /\ late' \in [Run -> Nat]
BY DEF TypeOK, Write

LEMMA AnswerTypeOK ==
  ASSUME TypeOK, Fault \/ NoFault
  PROVE  faults' \in Nat
BY DEF TypeOK, Fault, NoFault

LEMMA DeleteTypeOK ==
  ASSUME TypeOK, NEW a, NEW id, DeleteAnswer(a, id)
  PROVE  notes' \subseteq Id /\ faults' \in Nat
BY DEF TypeOK, DeleteAnswer, Fault, NoFault

(* However a job ends, it is left with a place, an exit status and ids to delete. *)
EndTypeOK ==
  /\ pc' \in [Run -> {"idle"} \cup Running \cup Ended]
  /\ exit' \in [Run -> {-1, 0, 1}]
  /\ doomed' \in [Run -> SUBSET Id]

LEMMA StopTypeOK ==
  ASSUME TypeOK, NEW r \in Run,
         \/ StopCurrentReview(r) \/ Rollback(r, 1) \/ Rollback(r, StrictCode(r))
         \/ Halt(r, 1) \/ Halt(r, StrictCode(r)) \/ UNCHANGED <<pc, exit, doomed>>
  PROVE  EndTypeOK
BY DEF TypeOK, EndTypeOK, StopCurrentReview, Rollback, RollbackIds, UnattemptedIds, Halt,
       StrictCode, Goto, Exit, Running, Ended

LEMMA StepTypeOK == TypeOK /\ [Next]_vars => TypeOK'
<1> SUFFICES ASSUME TypeOK, [Next]_vars PROVE TypeOK'
  OBVIOUS
<1> USE PostingAssumption, IdFacts, RunFacts
<1> USE DEF vars, provider, plan, snapshot, drafts, history
<1>1. ASSUME NEW r \in Run, Start(r) PROVE TypeOK'
  BY <1>1 DEF Start, Goto, TypeOK, Running
<1>2. ASSUME NEW r \in Run, SnapshotPlain(r) PROVE TypeOK'
  BY <1>2 DEF SnapshotPlain, SeenNotes, Goto, TypeOK, Running
<1>3. ASSUME NEW r \in Run, SnapshotThreads(r) PROVE TypeOK'
  <2> DEFINE human == {id \in {i \in notes : i[1] = "live" /\ i[3] \in Inline} :
                         touched[ThreadOf(id)] # "no"}
  <2>1. \A id \in human : id \in Id /\ ThreadOf(id) \in Thread
    BY DEF TypeOK, ThreadOf, Thread
  <2>2. toResolve' \in [Run -> SUBSET Thread]
    BY <1>3, <2>1 DEF SnapshotThreads, TypeOK
  <2>3. preserved' \in [Run -> SUBSET Id]
    BY <1>3, <2>1 DEF SnapshotThreads, TypeOK
  <2>4. baseline' \in [Run -> SUBSET Id] /\ replaceable' \in [Run -> SUBSET Id]
    BY <1>3 DEF SnapshotThreads, SeenNotes, TypeOK
  <2>5. pc' \in [Run -> {"idle"} \cup Running \cup Ended]
        /\ order' \in [Run -> Nat] /\ snapshots' \in Nat
    <3>1. \/ Goto(r, "snapDrafts") /\ UNCHANGED <<order, snapshots>>
          \/ SnapshotComplete(r)
      BY <1>3 DEF SnapshotThreads
    <3>2. pc \in [Run -> {"idle"} \cup Running \cup Ended]
          /\ order \in [Run -> Nat] /\ snapshots \in Nat
      BY DEF TypeOK
    <3>3. CASE Goto(r, "snapDrafts") /\ UNCHANGED <<order, snapshots>>
      BY <3>2, <3>3 DEF Goto, Running
    <3>4. CASE SnapshotComplete(r)
      BY <3>2, <3>4 DEF SnapshotComplete, Goto, Running
    <3> QED BY <3>1, <3>3, <3>4
  <2> HIDE DEF human
  <2> QED
    BY <1>3, <2>2, <2>3, <2>4, <2>5 DEF SnapshotThreads, TypeOK
<1>4. ASSUME NEW r \in Run, SnapshotDrafts(r) PROVE TypeOK'
  BY <1>4 DEF SnapshotDrafts, SeenNotes, SnapshotComplete, Goto, TypeOK, Running
<1>5. ASSUME NEW r \in Run, SnapshotFails(r) PROVE TypeOK'
  BY <1>5 DEF SnapshotFails, Fault, Halt, Goto, Exit, StrictCode, TypeOK, Ended
<1>6. ASSUME NEW r \in Run, Plan(r) PROVE TypeOK'
  BY <1>6 DEF Plan, Goto, TypeOK, Running
<1>7. ASSUME NEW r \in Run, CheckPasses(r) PROVE TypeOK'
  BY <1>7 DEF CheckPasses, Goto, AfterCheck, TypeOK, Running
<1>8. ASSUME NEW r \in Run, CheckFails(r) PROVE TypeOK'
  <2>1. EndTypeOK
    BY <1>8, StopTypeOK DEF CheckFails, StopWhenStale
  <2> QED BY <1>8, <2>1, AnswerTypeOK DEF CheckFails, EndTypeOK, TypeOK
<1>9. ASSUME NEW r \in Run, NEW i \in Inline, SkipInline(r, i) PROVE TypeOK'
  BY <1>9 DEF SkipInline, TypeOK
<1>10. ASSUME NEW r \in Run, NEW i \in Inline, PostInline(r, i) PROVE TypeOK'
  <2>1. PICK a \in {"ok", "invalid", "lost", "rejected"} :
          /\ IF a = "invalid" THEN NoFault ELSE Answer(a)
          /\ notes' = IF a \in {"ok", "lost"} THEN notes \cup {NewId(r, i)} ELSE notes
          /\ transaction' = [transaction EXCEPT ![r] =
                               IF a = "ok" THEN @ \cup {NewId(r, i)} ELSE @]
          /\ fallback' = [fallback EXCEPT ![r] = IF a = "invalid" THEN @ \cup {i} ELSE @]
          /\ pending' = [pending EXCEPT ![r] = @ \ {i}]
          /\ IF a \in {"ok", "invalid"} THEN UNCHANGED <<pc, doomed, exit>> ELSE Rollback(r, 1)
    BY <1>10 DEF PostInline
  <2>2. EndTypeOK
    BY <2>1, StopTypeOK
  <2>3. NewId(r, i) \in Id
    BY DEF NewId
  <2>4. faults' \in Nat
    BY <2>1, AnswerTypeOK DEF Answer
  <2>5. fresh' \in [Run -> BOOLEAN] /\ late' \in [Run -> Nat]
    BY <1>10, WriteTypeOK DEF PostInline
  <2>6. notes' \subseteq Id /\ transaction' \in [Run -> SUBSET Id]
    BY <2>1, <2>3 DEF TypeOK
  <2>7. fallback' \in [Run -> SUBSET Inline] /\ pending' \in [Run -> SUBSET Inline]
    BY <2>1 DEF TypeOK
  <2> QED BY <1>10, <2>2, <2>4, <2>5, <2>6, <2>7 DEF PostInline, EndTypeOK, TypeOK
<1>11. ASSUME NEW r \in Run, PostPlain(r) PROVE TypeOK'
  <2> DEFINE item == PlainDue(r)
  <2>1. PICK a \in {"ok", "lost", "rejected"} :
          /\ Answer(a)
          /\ notes' = IF a = "rejected" THEN notes ELSE notes \cup {NewId(r, item)}
          /\ transaction' = [transaction EXCEPT ![r] =
                               IF a = "ok" THEN @ \cup {NewId(r, item)} ELSE @]
          /\ IF a # "ok" THEN Rollback(r, StrictCode(r)) /\ UNCHANGED unattempted
             ELSE /\ UNCHANGED <<doomed, exit>>
                  /\ IF item # "summary" THEN UNCHANGED <<pc, unattempted>>
                     ELSE IF conf[r].identity THEN Goto(r, "finalcheck") /\ UNCHANGED unattempted
                     ELSE /\ Goto(r, "publish")
                          /\ unattempted' = [unattempted EXCEPT ![r] =
                               IF conf[r].draft THEN transaction'[r] ELSE {}]
    BY <1>11 DEF PostPlain
  <2>2. EndTypeOK
    <3>1. CASE a # "ok"
      BY <2>1, <3>1, StopTypeOK
    <3>2. CASE a = "ok"
      <4>1. UNCHANGED <<doomed, exit>>
        BY <2>1, <3>2
      <4>2. UNCHANGED pc \/ Goto(r, "finalcheck") \/ Goto(r, "publish")
        BY <2>1, <3>2
      <4> QED BY <4>1, <4>2 DEF EndTypeOK, TypeOK, Goto, Running
    <3> QED BY <3>1, <3>2
  <2>3. NewId(r, item) \in Id
    BY DEF NewId, PlainDue, Plain
  <2>4. faults' \in Nat
    BY <2>1, AnswerTypeOK DEF Answer
  <2>5. fresh' \in [Run -> BOOLEAN] /\ late' \in [Run -> Nat]
    BY <1>11, WriteTypeOK DEF PostPlain
  <2>6. transaction' \in [Run -> SUBSET Id]
    BY <2>1, <2>3 DEF TypeOK
  <2>7. unattempted' \in [Run -> SUBSET Id]
    BY <2>1, <2>6 DEF TypeOK
  <2>8. notes' \subseteq Id
    BY <2>1, <2>3 DEF TypeOK
  <2> HIDE DEF item
  <2> QED BY <1>11, <2>2, <2>4, <2>5, <2>6, <2>7, <2>8 DEF PostPlain, EndTypeOK, TypeOK
<1>12. ASSUME NEW r \in Run, NEW id \in unattempted[r], PublishDraft(r, id) PROVE TypeOK'
  <2>1. fresh' \in [Run -> BOOLEAN] /\ late' \in [Run -> Nat]
    BY <1>12, WriteTypeOK DEF PublishDraft
  <2>2. unattempted' \in [Run -> SUBSET Id] /\ attempted' \in [Run -> SUBSET Id]
    BY <1>12 DEF PublishDraft, TypeOK
  <2>3. Live(id[2], id[3]) \in Id
    BY DEF TypeOK
  <2>4. PICK a \in {"ok", "lost", "rejected"} :
          /\ IF a = "rejected" /\ id \notin notes THEN NoFault ELSE Answer(a)
          /\ notes' = IF a = "rejected" THEN notes
                      ELSE (notes \ {id}) \cup {Live(id[2], id[3])}
          /\ IF a = "ok" THEN UNCHANGED <<pc, doomed, exit>>
             ELSE /\ Goto(r, "undo") /\ Exit(r, 1)
                  /\ doomed' = [doomed EXCEPT ![r] =
                       IF conf[r].identity THEN UnattemptedIds(r)' \ baseline[r]
                       ELSE transaction[r]]
    BY <1>12 DEF PublishDraft
  <2>5. faults' \in Nat
    BY <2>4, AnswerTypeOK DEF Answer
  <2>6. EndTypeOK
    <3>1. CASE a = "ok"
      BY <2>4, <3>1 DEF EndTypeOK, TypeOK
    <3>2. CASE a # "ok"
      <4>1. doomed' \in [Run -> SUBSET Id]
        <5> DEFINE D == IF conf[r].identity THEN UnattemptedIds(r)' \ baseline[r]
                        ELSE transaction[r]
        <5>1. D \subseteq Id
          BY <2>2 DEF TypeOK, UnattemptedIds
        <5>2. doomed' = [doomed EXCEPT ![r] = D]
          BY <2>4, <3>2
        <5> HIDE DEF D
        <5> QED BY <5>1, <5>2 DEF TypeOK
      <4>2. Goto(r, "undo") /\ Exit(r, 1)
        BY <2>4, <3>2
      <4> QED BY <4>1, <4>2 DEF EndTypeOK, TypeOK, Goto, Exit, Running
    <3> QED BY <3>1, <3>2
  <2>7. notes' \subseteq Id
    BY <2>3, <2>4 DEF TypeOK
  <2> QED BY <1>12, <2>1, <2>2, <2>5, <2>6, <2>7 DEF PublishDraft, EndTypeOK, TypeOK
<1>13. ASSUME NEW r \in Run, PublishDone(r) PROVE TypeOK'
  BY <1>13 DEF PublishDone, AllPublished, Goto, TypeOK, Running
<1>14. ASSUME NEW r \in Run, ApprovalUnsynchronized(r) PROVE TypeOK'
  <2>1. EndTypeOK
    BY <1>14, StopTypeOK DEF ApprovalUnsynchronized
  <2> QED BY <1>14, <2>1, AnswerTypeOK DEF ApprovalUnsynchronized, EndTypeOK, TypeOK
<1>15. ASSUME NEW r \in Run, ApprovalNotNeeded(r) PROVE TypeOK'
  BY <1>15 DEF ApprovalNotNeeded, Goto, TypeOK, Running
<1>16. ASSUME NEW r \in Run, Approve(r) PROVE TypeOK'
  <2>1. fresh' \in [Run -> BOOLEAN] /\ late' \in [Run -> Nat]
    BY <1>16, WriteTypeOK DEF Approve
  <2>2. EndTypeOK
    <3>1. CASE StopCurrentReview(r)
      BY <3>1, StopTypeOK
    <3>2. CASE Goto(r, "amend") /\ UNCHANGED <<doomed, exit>>
      BY <3>2 DEF EndTypeOK, TypeOK, Goto, Running
    <3> QED BY <1>16, <3>1, <3>2 DEF Approve
  <2>3. faults' \in Nat
    BY <1>16, AnswerTypeOK DEF Approve, Answer
  <2>4. approval' \in [Run -> {"none", "approved", "skipped", "failed"}]
        /\ approved' \subseteq Run
    BY <1>16 DEF Approve, ApprovalStatus, TypeOK
  <2> QED BY <1>16, <2>1, <2>2, <2>3, <2>4 DEF Approve, EndTypeOK, TypeOK
<1>17. ASSUME NEW r \in Run, AmendSummary(r) PROVE TypeOK'
  <2>1. fresh' \in [Run -> BOOLEAN] /\ late' \in [Run -> Nat]
    BY <1>17, WriteTypeOK DEF AmendSummary, TypeOK
  <2>2. EndTypeOK
    <3>1. CASE StopCurrentReview(r)
      BY <3>1, StopTypeOK
    <3>2. CASE Goto(r, "recheck") /\ UNCHANGED <<doomed, exit>>
      BY <3>2 DEF EndTypeOK, TypeOK, Goto, Running
    <3> QED BY <1>17, <3>1, <3>2 DEF AmendSummary
  <2>3. faults' \in Nat
    BY <1>17, AnswerTypeOK DEF AmendSummary
  <2> QED BY <1>17, <2>1, <2>2, <2>3 DEF AmendSummary, EndTypeOK, TypeOK
<1>18. ASSUME NEW r \in Run, NEW id \in replaceable[r], DeletePrevious(r, id) PROVE TypeOK'
  <2>1. fresh' \in [Run -> BOOLEAN] /\ late' \in [Run -> Nat]
    BY <1>18, WriteTypeOK DEF DeletePrevious
  <2>2. EndTypeOK
    BY <1>18, StopTypeOK DEF DeletePrevious, CleanupAnswer
  <2>3. notes' \subseteq Id /\ faults' \in Nat
    BY <1>18, DeleteTypeOK DEF DeletePrevious
  <2> QED
    BY <1>18, <2>1, <2>2, <2>3 DEF DeletePrevious, BeginCleanup, EndTypeOK, TypeOK
<1>19. ASSUME NEW r \in Run, NEW t \in toResolve[r], ResolveDiscussion(r, t) PROVE TypeOK'
  <2>1. fresh' \in [Run -> BOOLEAN] /\ late' \in [Run -> Nat]
    BY <1>19, WriteTypeOK DEF ResolveDiscussion
  <2>2. EndTypeOK
    BY <1>19, StopTypeOK DEF ResolveDiscussion, CleanupAnswer
  <2>3. faults' \in Nat
    BY <1>19, AnswerTypeOK DEF ResolveDiscussion, Answer
  <2>4. touched' \in [Thread -> {"no"} \cup Reaction]
    BY <1>19 DEF ResolveDiscussion, TypeOK, Reaction
  <2>5. toResolve' \in [Run -> SUBSET Thread]
    BY <1>19 DEF ResolveDiscussion, TypeOK
  <2>6. cleanupStarted' \in [Run -> BOOLEAN] /\ leader' \in Author
    BY <1>19 DEF ResolveDiscussion, BeginCleanup, TypeOK
  <2> QED
    BY <1>19, <2>1, <2>2, <2>3, <2>4, <2>5, <2>6 DEF ResolveDiscussion, EndTypeOK, TypeOK
<1>20. ASSUME NEW r \in Run, Finish(r) PROVE TypeOK'
  BY <1>20 DEF Finish, Goto, Exit, StrictCode, TypeOK, Ended
<1>21. ASSUME NEW r \in Run, NEW id \in doomed[r], UndoOne(r, id) PROVE TypeOK'
  <2>1. notes' \subseteq Id /\ faults' \in Nat
    BY <1>21, DeleteTypeOK DEF UndoOne
  <2> QED BY <1>21, <2>1 DEF UndoOne, StillDoomed, TypeOK
<1>22. ASSUME NEW r \in Run, UndoDone(r) PROVE TypeOK'
  BY <1>22 DEF UndoDone, Goto, TypeOK, Ended
<1>23. CASE Environment
  <2>1. ASSUME NEW x \in Author, NEW i \in Inline, HumanActs(x, i) PROVE TypeOK'
    <3>1. touched' \in [Thread -> {"no"} \cup Reaction]
      <4>1. PICK t \in Reaction : touched' = [touched EXCEPT ![<<x, i>>] = t]
        BY <2>1 DEF HumanActs
      <4>2. touched \in [Thread -> {"no"} \cup Reaction]
        BY DEF TypeOK
      <4> QED BY <4>1, <4>2
    <3> QED BY <2>1, <3>1 DEF HumanActs, TypeOK
  <2>2. ASSUME ReviewedTupleMoves PROVE TypeOK'
    BY <2>2 DEF ReviewedTupleMoves, TypeOK
  <2>3. ASSUME NEW r \in Run, Kill(r) PROVE TypeOK'
    BY <2>3 DEF Kill, Fault, Goto, TypeOK, Ended
  <2> QED BY <1>23, <2>1, <2>2, <2>3 DEF Environment
<1>24. CASE UNCHANGED vars
  BY <1>24 DEF TypeOK
<1> QED
  BY <1>1, <1>2, <1>3, <1>4, <1>5, <1>6, <1>7, <1>8, <1>9, <1>10, <1>11, <1>12, <1>13,
     <1>14, <1>15, <1>16, <1>17, <1>18, <1>19, <1>20, <1>21, <1>22, <1>23, <1>24
  DEF Next, Job

(* Every variable of the posting workflow keeps its type, whatever the number *)
(* of jobs, findings, faults and moves.                                       *)
THEOREM TypeCorrect == Spec => []TypeOK
BY InitTypeOK, StepTypeOK, PTL DEF Spec

-----------------------------------------------------------------------------
(* What the steps of one job do to freshness, late writes and the tuple.     *)
FreshnessStep(r) ==
  \/ /\ fresh' = [fresh EXCEPT ![r] = TRUE] \/ fresh' = [fresh EXCEPT ![r] = FALSE]
     /\ Current(r) /\ UNCHANGED late
  \/ Write(r)
  \/ fresh' = [fresh EXCEPT ![r] = FALSE] /\ UNCHANGED late
  \/ UNCHANGED <<fresh, late>>

LEMMA JobFreshness ==
  ASSUME TypeOK, NEW r \in Run, Job(r), ~Start(r)
  PROVE  /\ FreshnessStep(r)
         /\ UNCHANGED <<moves, reviewed, conf>>
         /\ pc[r] # "idle"
         /\ \E where \in Running \cup Ended : pc' = [pc EXCEPT ![r] = where]
<1> USE DEF provider, plan, snapshot, drafts, history, FreshnessStep
<1>0. pc \in [Run -> {"idle"} \cup Running \cup Ended]
  BY DEF TypeOK
<1> DEFINE Moved == \E where \in Running \cup Ended : pc' = [pc EXCEPT ![r] = where]
<1>1. ASSUME UNCHANGED pc, pc[r] # "idle" PROVE Moved
  BY <1>0, <1>1
<1>2. ASSUME NEW where \in Running \cup Ended, Goto(r, where) PROVE Moved
  BY <1>2 DEF Goto
<1>3. ASSUME \/ StopCurrentReview(r) \/ Rollback(r, 1) \/ Rollback(r, StrictCode(r))
             \/ Halt(r, 1) \/ Halt(r, StrictCode(r))
      PROVE Moved
  BY <1>2, <1>3 DEF StopCurrentReview, Rollback, Halt, Running, Ended
<1> DEFINE Goal == FreshnessStep(r) /\ UNCHANGED <<moves, reviewed, conf>> /\ pc[r] # "idle" /\ Moved
<1>4. CASE \/ SnapshotPlain(r) \/ SnapshotThreads(r) \/ SnapshotDrafts(r) \/ SnapshotFails(r)
           \/ Plan(r)
  <2>1. UNCHANGED <<moves, reviewed, conf, fresh, late>> /\ pc[r] # "idle"
    BY <1>4 DEF SnapshotPlain, SnapshotThreads, SnapshotDrafts, SnapshotFails, Plan
  <2>2. Moved
    BY <1>2, <1>3, <1>4
    DEF SnapshotPlain, SnapshotThreads, SnapshotDrafts, SnapshotFails, SnapshotComplete, Plan, Running
  <2> QED BY <2>1, <2>2
<1>5. CASE CheckPasses(r)
  <2>1. AfterCheck(r) \in Running
    BY <1>0, <1>5 DEF CheckPasses, WriteDue, AfterCheck, Running
  <2> QED BY <1>2, <1>5, <2>1 DEF CheckPasses, WriteDue
<1>6. CASE CheckFails(r)
  BY <1>3, <1>6 DEF CheckFails, StopWhenStale, WriteDue
<1>7. ASSUME NEW i \in Inline, SkipInline(r, i) PROVE Goal
  BY <1>1, <1>7 DEF SkipInline
<1>8. ASSUME NEW i \in Inline, PostInline(r, i) PROVE Goal
  BY <1>1, <1>3, <1>8 DEF PostInline
<1>9. CASE PostPlain(r)
  BY <1>1, <1>2, <1>3, <1>9 DEF PostPlain, Running
<1>10. ASSUME NEW id \in unattempted[r], PublishDraft(r, id) PROVE Goal
  BY <1>1, <1>2, <1>10 DEF PublishDraft, Running
<1>11. CASE PublishDone(r)
  BY <1>2, <1>11 DEF PublishDone, AllPublished, Running
<1>12. CASE ApprovalUnsynchronized(r)
  BY <1>3, <1>12 DEF ApprovalUnsynchronized
<1>13. CASE ApprovalNotNeeded(r)
  BY <1>2, <1>13 DEF ApprovalNotNeeded, Running
<1>14. CASE Approve(r)
  BY <1>2, <1>3, <1>14 DEF Approve, Running
<1>15. CASE AmendSummary(r)
  BY <1>2, <1>3, <1>15 DEF AmendSummary, Running
<1>16. ASSUME NEW id \in replaceable[r], DeletePrevious(r, id) PROVE Goal
  BY <1>1, <1>3, <1>16 DEF DeletePrevious, CleanupAnswer
<1>17. ASSUME NEW t \in toResolve[r], ResolveDiscussion(r, t) PROVE Goal
  BY <1>1, <1>3, <1>17 DEF ResolveDiscussion, CleanupAnswer
<1>18. CASE Finish(r)
  BY <1>2, <1>18 DEF Finish, Ended
<1>19. ASSUME NEW id \in doomed[r], UndoOne(r, id) PROVE Goal
  BY <1>1, <1>19 DEF UndoOne
<1>20. CASE UndoDone(r)
  BY <1>2, <1>20 DEF UndoDone, Ended
<1> QED
  BY <1>4, <1>5, <1>6, <1>7, <1>8, <1>9, <1>10, <1>11, <1>12, <1>13, <1>14, <1>15, <1>16,
     <1>17, <1>18, <1>19, <1>20
  DEF Job

LEMMA LateStep == TypeOK /\ LateInv /\ [Next]_vars => LateInv'
<1> SUFFICES ASSUME TypeOK, LateInv, [Next]_vars, NEW q \in Run
             PROVE  (/\ reviewed[q] <= moves
                     /\ late[q] <= 1
                     /\ late[q] = 1 => moves # reviewed[q] /\ ~fresh[q]
                     /\ pc[q] = "idle" => late[q] = 0 /\ ~fresh[q])'
  BY DEF LateInv
<1> USE DEF vars, provider, plan, snapshot, drafts, history
<1>0. /\ moves \in Nat /\ reviewed \in [Run -> Nat] /\ late \in [Run -> Nat]
      /\ fresh \in [Run -> BOOLEAN] /\ pc \in [Run -> {"idle"} \cup Running \cup Ended]
      /\ reviewed[q] <= moves /\ late[q] <= 1
      /\ late[q] = 1 => moves # reviewed[q] /\ ~fresh[q]
      /\ pc[q] = "idle" => late[q] = 0 /\ ~fresh[q]
  BY DEF TypeOK, LateInv
<1>1. ASSUME NEW r \in Run, Start(r)
      PROVE  /\ UNCHANGED <<moves, late, fresh>> /\ pc[r] = "idle"
             /\ reviewed' = [reviewed EXCEPT ![r] = moves]
             /\ pc' = [pc EXCEPT ![r] = "snapPlain"]
  BY <1>1 DEF Start, Goto
<1>2. CASE \E r \in Run : Start(r)
  BY <1>0, <1>1, <1>2
<1>3. ASSUME NEW r \in Run, Job(r), ~Start(r)
      PROVE  (/\ reviewed[q] <= moves
              /\ late[q] <= 1
              /\ late[q] = 1 => moves # reviewed[q] /\ ~fresh[q]
              /\ pc[q] = "idle" => late[q] = 0 /\ ~fresh[q])'
  <2>1. /\ UNCHANGED <<moves, reviewed>>
        /\ pc[r] # "idle" /\ pc'[r] # "idle"
        /\ q # r => UNCHANGED pc[q]
    BY <1>0, <1>3, JobFreshness DEF Running, Ended
  <2>2. CASE Write(r)
    BY <1>0, <2>1, <2>2 DEF Write, Checked, Current
  <2>3. CASE ~Write(r)
    BY <1>0, <1>3, <2>1, <2>3, JobFreshness DEF FreshnessStep, Current
  <2> QED BY <2>2, <2>3
<1>4. CASE Environment
  <2>1. /\ UNCHANGED <<reviewed, late, fresh>>
        /\ moves' = moves \/ moves' = moves + 1
        /\ UNCHANGED pc \/ \E r \in Run : pc' = [pc EXCEPT ![r] = "dead"]
    BY <1>4 DEF Environment, HumanActs, ReviewedTupleMoves, Kill, Goto
  <2>2. pc'[q] = "idle" => pc[q] = "idle"
    BY <1>0, <2>1
  <2> QED BY <1>0, <2>1, <2>2
<1>5. CASE UNCHANGED vars
  BY <1>0, <1>5
<1> QED BY <1>2, <1>3, <1>4, <1>5 DEF Next

(* Checking freshness before every write leaves at most one late write,      *)
(* however many writes a job sends and however often the merge request moves. *)
THEOREM LateWrites == Spec => []AtMostOneLateWrite
<1>1. Init => LateInv
  BY DEF Init, LateInv
<1>2. LateInv => AtMostOneLateWrite
  BY DEF LateInv, AtMostOneLateWrite
<1> QED BY <1>1, <1>2, LateStep, TypeCorrect, PTL DEF Spec

-----------------------------------------------------------------------------
(* Some review always stands.  The part of StandingInv that speaks of one job: *)
Mine(r) ==
  /\ order[r] > 0 => pc[r] \notin Early
  /\ pc[r] \in Running \ Early => order[r] > 0
  /\ \A id \in transaction[r] :
       id[2] = r /\ order[r] > 0 /\ (id[1] = "draft" <=> conf[r].draft)
  /\ \A id \in unattempted[r] : id[1] = "draft"
  /\ \A id \in doomed[r] : id[2] = r
  /\ unattempted[r] \cup attempted[r] \subseteq transaction[r]
  /\ pc[r] \in Early \cup Unpublished => attempted[r] = {} /\ unattempted[r] = {}
  /\ pc[r] \in {"plan", "precheck"} => transaction[r] = {}
  /\ pc[r] = "publish" /\ conf[r].draft => transaction[r] \subseteq attempted[r] \cup unattempted[r]
  /\ (pc[r] \in Complete \/ cleanupStarted[r]) /\ conf[r].draft => transaction[r] \subseteq attempted[r]
  /\ pc[r] \in {"finalcheck", "publish"} \cup Complete \/ cleanupStarted[r]
       => "summary" \in Confirmed(r)
  /\ cleanupStarted[r] => pc[r] \in {"cleanup"} \cup Ended /\ order[r] > 0
  /\ pc[r] \in {"posting", "finalcheck", "publish"} \cup Complete \/ cleanupStarted[r] =>
       Superseded(r) \/ \A id \in transaction[r] : Place(r, id) \in notes

LEMMA MineFacts == ASSUME StandingInv, NEW r \in Run PROVE Mine(r)
BY DEF StandingInv, SnapshotOrder, OwnNotes, Attempts, Committed, Intact, Mine

(* A step that touches only the state and the notes of its own job has to be  *)
(* shown harmless for that job alone.                                         *)
OwnStep(r) ==
  /\ UNCHANGED <<baseline, replaceable, order, snapshots, cleanupStarted, leader>>
  /\ \A q \in Run \ {r} :
       UNCHANGED <<pc[q], conf[q], transaction[q], doomed[q], unattempted[q], attempted[q]>>
  /\ \A id \in notes \cup notes' : id[2] # r => (id \in notes <=> id \in notes')
  /\ order[r] > 0 \/ UNCHANGED notes

LEMMA OwnStepStanding ==
  ASSUME TypeOK, StandingInv, NEW r \in Run, OwnStep(r), Mine(r)'
  PROVE  StandingInv'
<1> USE DEF OwnStep
<1>0. Old \notin Run
  BY PostingAssumption
<1>1. SnapshotOrder'
  BY DEF StandingInv, SnapshotOrder, Mine
<1>2. SeenEarlier'
  BY DEF StandingInv, SeenEarlier
<1>3. OwnNotes'
  BY DEF StandingInv, OwnNotes, Mine
<1>4. Attempts'
  BY DEF StandingInv, Attempts, Mine, Confirmed
<1>5. Committed'
  <2>1. leader = Old => OldIds \subseteq notes'
    BY <1>0, IdFacts, PostingAssumption DEF StandingInv, Committed, OldIds, Live
  <2> QED BY <2>1 DEF StandingInv, Committed, Mine
<1>6. Intact'
  <2> SUFFICES ASSUME NEW q \in Run,
                      (pc[q] \in {"posting", "finalcheck", "publish"} \cup Complete \/ cleanupStarted[q])'
               PROVE  (Superseded(q) \/ \A id \in transaction[q] : Place(q, id) \in notes)'
    BY DEF Intact
  <2>1. CASE q = r
    BY <2>1 DEF Mine
  <2>2. CASE q # r
    <3>1. \A id \in transaction[q] : Place(q, id)[2] = q
      BY DEF StandingInv, OwnNotes, Place, Live
    <3>2. Superseded(q) => Superseded(q)'
      BY DEF Superseded
    <3>3. \A id \in transaction[q] : Place(q, id)' = Place(q, id)
      BY <2>2 DEF Place
    <3> QED BY <2>2, <3>1, <3>2, <3>3 DEF StandingInv, Intact
  <2> QED BY <2>1, <2>2
<1> QED BY <1>1, <1>2, <1>3, <1>4, <1>5, <1>6 DEF StandingInv

(* The steps of a job before and after its notes are written.                *)
LEMMA QuietStanding ==
  ASSUME TypeOK, StandingInv, NEW r \in Run,
         \/ Start(r) \/ SnapshotFails(r) \/ Plan(r) \/ CheckPasses(r)
         \/ \E i \in Inline : SkipInline(r, i)
         \/ PublishDone(r) \/ ApprovalNotNeeded(r) \/ Finish(r) \/ UndoDone(r) \/ Kill(r)
  PROVE  StandingInv'
<1> USE DEF provider, plan, snapshot, drafts, history
<1>0. Mine(r) /\ pc \in [Run -> {"idle"} \cup Running \cup Ended]
      /\ conf \in [Run -> Config] /\ unattempted \in [Run -> SUBSET Id]
  BY MineFacts DEF TypeOK
<1>1. CASE Start(r)
  <2>1. OwnStep(r)
    BY <1>0, <1>1, TypeOK DEF Start, Goto, OwnStep, TypeOK
  <2>2. transaction[r] = {} /\ ~cleanupStarted[r]
    BY <1>0, <1>1 DEF Start, Mine, Early, Ended
  <2>3. Mine(r)'
    BY <1>0, <1>1, <2>2 DEF Start, Goto, Mine, Early, Running, Complete
  <2> QED BY <2>1, <2>3, OwnStepStanding
<1>2. CASE SnapshotFails(r)
  <2>1. OwnStep(r)
    BY <1>0, <1>2 DEF SnapshotFails, Halt, Goto, OwnStep
  <2>2. Mine(r)'
    BY <1>0, <1>2 DEF SnapshotFails, Halt, Goto, Mine, Early, Unpublished, Complete, Running, Ended
  <2> QED BY <2>1, <2>2, OwnStepStanding
<1>3. CASE Plan(r)
  <2>1. OwnStep(r)
    BY <1>0, <1>3 DEF Plan, Goto, OwnStep
  <2>2. Mine(r)'
    BY <1>0, <1>3 DEF Plan, Goto, Mine, Early, Unpublished, Complete, Running, Ended
  <2> QED BY <2>1, <2>2, OwnStepStanding
<1>4. CASE CheckPasses(r)
  <2>1. OwnStep(r)
    BY <1>0, <1>4 DEF CheckPasses, AfterCheck, WriteDue, Goto, Superseded, Place, Confirmed, OwnStep
  <2>2. Mine(r)'
    BY <1>0, <1>4 DEF CheckPasses, AfterCheck, WriteDue, Goto, Superseded, Place, Confirmed, Mine, Early, Unpublished, Complete, Running, Ended
  <2> QED BY <2>1, <2>2, OwnStepStanding
<1>5. CASE \E i \in Inline : SkipInline(r, i)
  <2>1. OwnStep(r)
    BY <1>0, <1>5 DEF SkipInline, Superseded, Place, OwnStep
  <2>2. Mine(r)'
    BY <1>0, <1>5 DEF SkipInline, Superseded, Place, Mine, Early, Unpublished, Complete, Running, Ended
  <2> QED BY <2>1, <2>2, OwnStepStanding
<1>6. CASE PublishDone(r)
  <2>1. OwnStep(r)
    BY <1>0, <1>6 DEF PublishDone, AllPublished, Goto, Superseded, Place, Confirmed, OwnStep
  <2>2. Mine(r)'
    BY <1>0, <1>6 DEF PublishDone, AllPublished, Goto, Superseded, Place, Confirmed, Mine, Early, Unpublished, Complete, Running, Ended
  <2> QED BY <2>1, <2>2, OwnStepStanding
<1>7. CASE ApprovalNotNeeded(r)
  <2>1. OwnStep(r)
    BY <1>0, <1>7 DEF ApprovalNotNeeded, Goto, Superseded, Place, Confirmed, OwnStep
  <2>2. Mine(r)'
    BY <1>0, <1>7 DEF ApprovalNotNeeded, Goto, Superseded, Place, Confirmed, Mine, Early, Unpublished, Complete, Running, Ended
  <2> QED BY <2>1, <2>2, OwnStepStanding
<1>8. CASE Finish(r)
  <2>1. OwnStep(r)
    BY <1>0, <1>8 DEF Finish, Goto, Superseded, Place, Confirmed, OwnStep
  <2>2. Mine(r)'
    BY <1>0, <1>8 DEF Finish, Goto, Superseded, Place, Confirmed, Mine, Early, Unpublished, Complete, Running, Ended
  <2> QED BY <2>1, <2>2, OwnStepStanding
<1>9. CASE UndoDone(r)
  <2>1. OwnStep(r)
    BY <1>0, <1>9 DEF UndoDone, Goto, Superseded, Place, Confirmed, OwnStep
  <2>2. Mine(r)'
    BY <1>0, <1>9 DEF UndoDone, Goto, Superseded, Place, Confirmed, Mine, Early, Unpublished, Complete, Running, Ended
  <2> QED BY <2>1, <2>2, OwnStepStanding
<1>10. CASE Kill(r)
  <2>1. OwnStep(r)
    BY <1>0, <1>10 DEF Kill, Goto, Superseded, Place, Confirmed, OwnStep
  <2>2. Mine(r)'
    BY <1>0, <1>10 DEF Kill, Goto, Superseded, Place, Confirmed, Mine, Early, Unpublished, Complete, Running, Ended
  <2> QED BY <2>1, <2>2, OwnStepStanding
<1> QED
  BY <1>1, <1>2, <1>3, <1>4, <1>5, <1>6, <1>7, <1>8, <1>9, <1>10

(* A job that gives up before cleanup keeps its own part of the invariant,    *)
(* whatever its last request did to the merge request.                        *)
LEMMA StopMine ==
  ASSUME TypeOK, NEW r \in Run, Mine(r), pc[r] \in Running \ Early, ~cleanupStarted[r],
         \/ StopCurrentReview(r) \/ Rollback(r, 1) \/ Rollback(r, StrictCode(r)) \/ Halt(r, 1),
         UNCHANGED <<order, conf, transaction, unattempted, attempted, cleanupStarted>>
  PROVE  /\ Mine(r)'
         /\ \A q \in Run \ {r} : UNCHANGED <<pc[q], doomed[q]>>
<1>1. \A q \in Run \ {r} : UNCHANGED <<pc[q], doomed[q]>>
  BY DEF TypeOK, StopCurrentReview, Rollback, Halt, Goto
<1>2. pc'[r] \in {"undo", "stopped"} /\ (\A id \in doomed'[r] : id[2] = r)
  BY DEF TypeOK, Mine, StopCurrentReview, Rollback, RollbackIds, UnattemptedIds, Halt, Goto
<1> QED BY <1>1, <1>2 DEF Mine, Early, Unpublished, Complete, Running, Ended

LEMMA CheckFailsStanding ==
  ASSUME TypeOK, StandingInv, NEW r \in Run, CheckFails(r)
  PROVE  StandingInv'
<1> USE DEF provider, plan, snapshot, drafts, history
<1>0. Mine(r) /\ pc[r] \in Running \ Early
  BY MineFacts DEF CheckFails, WriteDue, Early, Running
<1>1. CASE cleanupStarted[r]
  <2>1. Halt(r, 1)
    BY <1>0, <1>1 DEF CheckFails, WriteDue, StopWhenStale, RetainCurrent, Mine, Ended
  <2>2. OwnStep(r)
    BY <2>1, TypeOK DEF TypeOK, CheckFails, Halt, Goto, OwnStep
  <2>3. Mine(r)'
    BY <1>0, <1>1, <2>1, TypeOK
    DEF TypeOK, CheckFails, Halt, Goto, Mine, Early, Unpublished, Complete, Ended, Running,
        Superseded, Place, Confirmed
  <2> QED BY <2>2, <2>3, OwnStepStanding
<1>2. CASE ~cleanupStarted[r]
  <2>1. \/ StopCurrentReview(r) \/ Rollback(r, 1) \/ Halt(r, 1)
    BY DEF CheckFails, StopWhenStale
  <2>2. UNCHANGED <<order, conf, transaction, unattempted, attempted, cleanupStarted>>
    BY DEF CheckFails
  <2>3. Mine(r)' /\ \A q \in Run \ {r} : UNCHANGED <<pc[q], doomed[q]>>
    BY <1>0, <1>2, <2>1, <2>2, StopMine
  <2>4. OwnStep(r)
    BY <2>2, <2>3 DEF CheckFails, OwnStep
  <2> QED BY <2>3, <2>4, OwnStepStanding
<1> QED BY <1>1, <1>2

(* Creating notes.                                                           *)
LEMMA PostStanding ==
  ASSUME TypeOK, StandingInv, NEW r \in Run, NEW item \in Item, NEW a,
         pc[r] = "posting",
         UNCHANGED <<baseline, replaceable, order, snapshots, cleanupStarted, leader,
                     conf, attempted>>,
         notes' \in {notes, notes \cup {NewId(r, item)}},
         \/ /\ a = "ok" /\ NewId(r, item) \in notes'
            /\ transaction' = [transaction EXCEPT ![r] = @ \cup {NewId(r, item)}]
         \/ UNCHANGED transaction,
         \/ Rollback(r, 1) /\ UNCHANGED <<unattempted, transaction>>
         \/ Rollback(r, StrictCode(r)) /\ UNCHANGED <<unattempted, transaction>>
         \/ UNCHANGED <<pc, doomed, unattempted>>
         \/ /\ "summary" \in Confirmed(r)' /\ UNCHANGED <<doomed, unattempted>>
            /\ Goto(r, "finalcheck")
         \/ /\ "summary" \in Confirmed(r)' /\ UNCHANGED doomed
            /\ Goto(r, "publish")
            /\ unattempted' = [unattempted EXCEPT ![r] = IF conf[r].draft THEN transaction'[r] ELSE {}]
  PROVE  StandingInv'
<1>0. Mine(r) /\ pc[r] \in Running \ Early /\ ~cleanupStarted[r] /\ order[r] > 0
      /\ attempted[r] = {} /\ unattempted[r] = {}
  BY MineFacts DEF Mine, Early, Running, Unpublished, Ended
<1>1. NewId(r, item)[2] = r /\ (NewId(r, item)[1] = "draft" <=> conf[r].draft)
  BY DEF NewId, Draft, Live, TypeOK, Config
<1>2. \A q \in Run \ {r} : UNCHANGED <<transaction[q], unattempted[q]>>
  BY DEF TypeOK
<1>3. \A id \in notes \cup notes' : id[2] # r => (id \in notes <=> id \in notes')
  BY <1>1
<1>4. CASE (Rollback(r, 1) \/ Rollback(r, StrictCode(r))) /\ UNCHANGED <<unattempted, transaction>>
  <2>1. Mine(r)' /\ \A q \in Run \ {r} : UNCHANGED <<pc[q], doomed[q]>>
    BY <1>0, <1>4, StopMine
  <2>2. OwnStep(r)
    BY <1>0, <1>2, <1>3, <2>1 DEF OwnStep
  <2> QED BY <2>1, <2>2, OwnStepStanding
<1>5. CASE ~((Rollback(r, 1) \/ Rollback(r, StrictCode(r))) /\ UNCHANGED <<unattempted, transaction>>)
  <2>1. \A q \in Run \ {r} : UNCHANGED <<pc[q], doomed[q]>>
    BY <1>5 DEF TypeOK, Goto
  <2>2. OwnStep(r)
    BY <1>0, <1>2, <1>3, <2>1 DEF OwnStep
  <2>3. /\ \A id \in transaction'[r] : id \in transaction[r] \/ id = NewId(r, item)
        /\ \A id \in transaction'[r] : id \in transaction[r] \/ id \in notes'
        /\ notes \subseteq notes'
    BY DEF TypeOK
  <2>4. /\ \A id \in transaction'[r] : id[2] = r /\ order[r] > 0 /\ (id[1] = "draft" <=> conf[r].draft)
        /\ Superseded(r)' \/ \A id \in transaction'[r] : Place(r, id)' \in notes'
    BY <1>0, <1>1, <2>3 DEF Mine, Superseded, Place
  <2>5. CASE UNCHANGED <<pc, doomed, unattempted>>
    BY <1>0, <2>2, <2>4, <2>5, OwnStepStanding DEF Mine, Complete
  <2>6. CASE "summary" \in Confirmed(r)' /\ UNCHANGED <<doomed, unattempted>> /\ Goto(r, "finalcheck")
    <3>1. pc'[r] = "finalcheck"
      BY <2>6 DEF TypeOK, Goto
    <3> QED BY <1>0, <2>2, <2>4, <2>6, <3>1, OwnStepStanding DEF Mine, Complete, Early, Running
  <2>7. CASE /\ "summary" \in Confirmed(r)' /\ UNCHANGED doomed /\ Goto(r, "publish")
             /\ unattempted' = [unattempted EXCEPT ![r] = IF conf[r].draft THEN transaction'[r] ELSE {}]
    <3>1. pc'[r] = "publish" /\ unattempted'[r] = IF conf[r].draft THEN transaction'[r] ELSE {}
      BY <2>7 DEF TypeOK, Goto
    <3> QED BY <1>0, <2>2, <2>4, <2>7, <3>1, OwnStepStanding
            DEF Mine, Complete, Early, Running, Unpublished
  <2> QED BY <1>5, <2>5, <2>6, <2>7
<1> QED BY <1>4, <1>5

LEMMA CreateStanding ==
  ASSUME TypeOK, StandingInv, NEW r \in Run,
         PostPlain(r) \/ \E i \in Inline : PostInline(r, i)
  PROVE  StandingInv'
<1> USE DEF provider, plan, snapshot, drafts, history
<1>1. ASSUME NEW i \in Inline, PostInline(r, i) PROVE StandingInv'
  <2>1. PICK a \in {"ok", "invalid", "lost", "rejected"} :
          /\ notes' = IF a \in {"ok", "lost"} THEN notes \cup {NewId(r, i)} ELSE notes
          /\ transaction' = [transaction EXCEPT ![r] =
                               IF a = "ok" THEN @ \cup {NewId(r, i)} ELSE @]
          /\ IF a \in {"ok", "invalid"} THEN UNCHANGED <<pc, doomed, exit>> ELSE Rollback(r, 1)
    BY <1>1 DEF PostInline
  <2>2. a # "ok" => UNCHANGED transaction
    BY <2>1 DEF TypeOK
  <2>3. i \in Item
    BY RunFacts
  <2>4. /\ pc[r] = "posting"
        /\ UNCHANGED <<baseline, replaceable, order, snapshots, cleanupStarted, leader,
                       conf, attempted, unattempted>>
    BY <1>1 DEF PostInline
  <2> QED BY <2>1, <2>2, <2>3, <2>4, PostStanding
<1>2. CASE PostPlain(r)
  <2> DEFINE item == PlainDue(r)
  <2>1. PICK a \in {"ok", "lost", "rejected"} :
          /\ notes' = IF a = "rejected" THEN notes ELSE notes \cup {NewId(r, item)}
          /\ transaction' = [transaction EXCEPT ![r] =
                               IF a = "ok" THEN @ \cup {NewId(r, item)} ELSE @]
          /\ IF a # "ok" THEN Rollback(r, StrictCode(r)) /\ UNCHANGED unattempted
             ELSE /\ UNCHANGED <<doomed, exit>>
                  /\ IF item # "summary" THEN UNCHANGED <<pc, unattempted>>
                     ELSE IF conf[r].identity THEN Goto(r, "finalcheck") /\ UNCHANGED unattempted
                     ELSE /\ Goto(r, "publish")
                          /\ unattempted' = [unattempted EXCEPT ![r] =
                               IF conf[r].draft THEN transaction'[r] ELSE {}]
    BY <1>2 DEF PostPlain
  <2>2. a # "ok" => UNCHANGED transaction
    BY <2>1 DEF TypeOK
  <2>3. item \in Item
    BY RunFacts DEF PlainDue, Plain
  <2>4. /\ pc[r] = "posting"
        /\ UNCHANGED <<baseline, replaceable, order, snapshots, cleanupStarted, leader,
                       conf, attempted>>
    BY <1>2 DEF PostPlain
  <2>5. a = "ok" /\ item = "summary" => "summary" \in Confirmed(r)'
    <3>1. NewId(r, item)[3] = item
      BY DEF NewId, Draft, Live
    <3> QED BY <2>1, <3>1 DEF Confirmed, TypeOK
  <2> HIDE DEF item
  <2>6. \/ Rollback(r, StrictCode(r)) /\ UNCHANGED <<unattempted, transaction>>
        \/ UNCHANGED <<pc, doomed, unattempted>>
        \/ /\ "summary" \in Confirmed(r)' /\ UNCHANGED <<doomed, unattempted>>
           /\ Goto(r, "finalcheck")
        \/ /\ "summary" \in Confirmed(r)' /\ UNCHANGED doomed
           /\ Goto(r, "publish")
           /\ unattempted' = [unattempted EXCEPT ![r] = IF conf[r].draft THEN transaction'[r] ELSE {}]
    BY <2>1, <2>2, <2>5
  <2>7. \/ /\ a = "ok" /\ NewId(r, item) \in notes'
           /\ transaction' = [transaction EXCEPT ![r] = @ \cup {NewId(r, item)}]
        \/ UNCHANGED transaction
    BY <2>1, <2>2
  <2>8. notes' \in {notes, notes \cup {NewId(r, item)}}
    BY <2>1
  <2> QED BY <2>3, <2>4, <2>6, <2>7, <2>8, PostStanding
<1> QED BY <1>1, <1>2

(* Publishing a draft moves one own note from its place to the visible one.   *)
LEMMA PublishStanding ==
  ASSUME TypeOK, StandingInv, NEW r \in Run, NEW id \in unattempted[r], PublishDraft(r, id)
  PROVE  StandingInv'
<1> USE DEF provider, plan, snapshot, drafts, history
<1>0. Mine(r) /\ order[r] > 0 /\ ~cleanupStarted[r] /\ pc[r] = "publish"
  BY MineFacts DEF PublishDraft, Mine, Ended, Running, Early
<1>1. /\ id \in transaction[r] /\ id[2] = r /\ id \in Id
      /\ Live(id[2], id[3])[2] = r /\ Live(id[2], id[3])[1] = "live"
  BY <1>0 DEF Mine, Live, TypeOK
<1>2. PICK a \in {"ok", "lost", "rejected"} :
        /\ notes' = IF a = "rejected" THEN notes
                    ELSE (notes \ {id}) \cup {Live(id[2], id[3])}
        /\ IF a = "ok" THEN UNCHANGED <<pc, doomed, exit>>
           ELSE /\ Goto(r, "undo") /\ Exit(r, 1)
                /\ doomed' = [doomed EXCEPT ![r] =
                     IF conf[r].identity THEN UnattemptedIds(r)' \ baseline[r]
                     ELSE transaction[r]]
  BY DEF PublishDraft
<1>3. /\ unattempted' = [unattempted EXCEPT ![r] = @ \ {id}]
      /\ attempted' = [attempted EXCEPT ![r] = @ \cup {id}]
      /\ UNCHANGED <<baseline, replaceable, order, snapshots, cleanupStarted, leader, conf,
                     transaction>>
  BY DEF PublishDraft
<1>4. /\ unattempted'[r] = unattempted[r] \ {id} /\ attempted'[r] = attempted[r] \cup {id}
      /\ \A q \in Run \ {r} : UNCHANGED <<unattempted[q], attempted[q]>>
  BY <1>3 DEF TypeOK
<1>5. \A i \in notes \cup notes' : i[2] # r => (i \in notes <=> i \in notes')
  BY <1>1, <1>2
<1>6. \A q \in Run \ {r} : UNCHANGED <<pc[q], doomed[q]>>
  BY <1>2 DEF TypeOK, Goto
<1>7. OwnStep(r)
  BY <1>0, <1>3, <1>4, <1>5, <1>6 DEF OwnStep
<1>8. CASE a = "ok"
  <2>1. /\ UNCHANGED <<pc, doomed>> /\ notes' = (notes \ {id}) \cup {Live(id[2], id[3])}
    BY <1>2, <1>8
  <2>2. \A i \in transaction[r] : Place(r, i)' =
          IF i = id THEN Live(id[2], id[3]) ELSE Place(r, i)
    BY <1>4 DEF Place
  <2>3. conf[r].draft
    BY <1>0, <1>1 DEF Mine
  <2>4. Superseded(r)' \/ \A i \in transaction[r] : Place(r, i)' \in notes'
    <3>1. \A i \in transaction[r] : i # id => Place(r, i) # id
      BY <1>0, <1>1 DEF Place, Mine, Live
    <3> QED BY <1>0, <1>3, <2>1, <2>2, <3>1 DEF Mine, Superseded
  <2>5. Mine(r)'
    BY <1>0, <1>3, <1>4, <2>1, <2>4 DEF Mine, Complete, Early, Unpublished, Confirmed
  <2> QED BY <1>7, <2>5, OwnStepStanding
<1>9. CASE a # "ok"
  <2>1. pc'[r] = "undo" /\ \A i \in doomed'[r] : i[2] = r
    BY <1>0, <1>2, <1>4, <1>9 DEF TypeOK, Goto, UnattemptedIds, Mine
  <2>2. Mine(r)'
    BY <1>0, <1>3, <1>4, <2>1 DEF Mine, Complete, Early, Unpublished, Ended
  <2> QED BY <1>7, <2>2, OwnStepStanding
<1> QED BY <1>8, <1>9

LEMMA ApprovalStanding ==
  ASSUME TypeOK, StandingInv, NEW r \in Run,
         ApprovalUnsynchronized(r) \/ Approve(r) \/ AmendSummary(r)
  PROVE  StandingInv'
<1> USE DEF provider, plan, snapshot, drafts, history
<1>0. /\ Mine(r) /\ pc[r] \in {"approve", "amend"} /\ ~cleanupStarted[r]
      /\ UNCHANGED <<notes, baseline, replaceable, order, snapshots, cleanupStarted, leader, conf,
                     transaction, unattempted, attempted>>
  BY MineFacts DEF ApprovalUnsynchronized, Approve, AmendSummary, Mine, Ended
<1>1. CASE StopCurrentReview(r)
  <2>1. Mine(r)' /\ \A q \in Run \ {r} : UNCHANGED <<pc[q], doomed[q]>>
    BY <1>0, <1>1, StopMine DEF Early, Running
  <2> QED BY <1>0, <2>1, OwnStepStanding DEF OwnStep
<1>2. CASE (Goto(r, "amend") \/ Goto(r, "recheck")) /\ UNCHANGED doomed
  <2>1. pc'[r] \in {"amend", "recheck"} /\ \A q \in Run \ {r} : UNCHANGED pc[q]
    BY <1>2 DEF Goto, TypeOK
  <2>2. OwnStep(r)
    BY <1>0, <1>2, <2>1 DEF OwnStep
  <2>3. Mine(r)'
    BY <1>0, <1>2, <2>1
    DEF Mine, Complete, Early, Unpublished, Running, Confirmed, Superseded, Place
  <2> QED BY <2>2, <2>3, OwnStepStanding
<1> QED BY <1>1, <1>2 DEF ApprovalUnsynchronized, Approve, AmendSummary

LEMMA UndoStanding ==
  ASSUME TypeOK, StandingInv, NEW r \in Run, NEW id \in doomed[r], UndoOne(r, id)
  PROVE  StandingInv'
<1> USE DEF provider, plan, snapshot, drafts, history
<1>0. /\ Mine(r) /\ pc[r] = "undo" /\ ~cleanupStarted[r] /\ order[r] > 0 /\ id[2] = r
      /\ UNCHANGED <<pc, baseline, replaceable, order, snapshots, cleanupStarted, leader, conf,
                     transaction, unattempted, attempted>>
  BY MineFacts DEF UndoOne, Mine, Ended, Running, Early
<1>1. notes' \in {notes, notes \ {id}}
  BY DEF UndoOne, DeleteAnswer
<1>2. doomed' = [doomed EXCEPT ![r] = @ \ {id}]
  BY DEF UndoOne, StillDoomed
<1>3. OwnStep(r)
  BY <1>0, <1>1, <1>2 DEF OwnStep
<1>4. Mine(r)'
  BY <1>0, <1>2 DEF Mine, Complete, TypeOK
<1> QED BY <1>3, <1>4, OwnStepStanding

(* Reading the merge request.  A note that the snapshot sees belongs to a job *)
(* whose own snapshot is complete, and is numbered before this one.           *)
LEMMA SnapshotStanding ==
  ASSUME TypeOK, StandingInv, NEW r \in Run,
         SnapshotPlain(r) \/ SnapshotThreads(r) \/ SnapshotDrafts(r)
  PROVE  StandingInv'
<1> USE DEF provider, plan, snapshot, drafts, history
<1>0. /\ pc[r] \in Early /\ Mine(r) /\ order[r] = 0 /\ transaction[r] = {} /\ ~cleanupStarted[r]
      /\ leader # r
      /\ UNCHANGED <<notes, cleanupStarted, leader, conf, transaction, unattempted, attempted, doomed>>
  <2>1. Mine(r) /\ pc[r] \in Early
    BY MineFacts DEF SnapshotPlain, SnapshotThreads, SnapshotDrafts, Early
  <2>2. order[r] = 0 /\ transaction[r] = {} /\ ~cleanupStarted[r]
    BY <2>1 DEF Mine, TypeOK, Early, Ended
  <2>3. leader # r
    BY <2>2 DEF StandingInv, Committed
  <2> QED BY <2>1, <2>2, <2>3 DEF SnapshotPlain, SnapshotThreads, SnapshotDrafts
<1>1. PICK ids \in SUBSET notes, own \in SUBSET notes : SeenNotes(r, ids, own) /\ own \subseteq ids
  BY DEF SnapshotPlain, SnapshotThreads, SnapshotDrafts
<1>2. \/ \E w \in {"snapThreads", "snapDrafts"} : Goto(r, w) /\ UNCHANGED <<order, snapshots>>
      \/ SnapshotComplete(r)
  BY DEF SnapshotPlain, SnapshotThreads, SnapshotDrafts
<1>3. \/ /\ pc'[r] \in {"snapThreads", "snapDrafts"}
         /\ UNCHANGED <<order, snapshots>>
      \/ /\ pc'[r] = "plan" /\ snapshots' = snapshots + 1 /\ order'[r] = snapshots + 1
  BY <1>2 DEF Goto, SnapshotComplete, TypeOK
<1>4. \A q \in Run \ {r} : UNCHANGED <<pc[q], order[q], baseline[q], replaceable[q]>>
  BY <1>1, <1>2 DEF Goto, SnapshotComplete, SeenNotes, TypeOK
<1>5. snapshots \in Nat /\ (\A q \in Run : order[q] \in Nat /\ order[q] <= snapshots)
  BY DEF StandingInv, SnapshotOrder, TypeOK
<1>6. SnapshotOrder'
  BY <1>0, <1>3, <1>4, <1>5 DEF StandingInv, SnapshotOrder, Early, Running
<1>7. SeenEarlier'
  <2>1. baseline'[r] = baseline[r] \cup ids /\ replaceable'[r] = replaceable[r] \cup own
    BY <1>1 DEF SeenNotes, TypeOK
  <2>2. \A q \in Run : order[q] > 0 => q # r /\ order'[q] = order[q]
    BY <1>0, <1>4
  <2>3. \A q \in Run : replaceable'[q] \subseteq baseline'[q]
    BY <1>1, <1>4, <2>1 DEF StandingInv, SeenEarlier
  <2>4. \A id \in notes' : id[2] \in Run => order'[id[2]] > 0
    BY <1>0, <2>2 DEF StandingInv, SeenEarlier
  <2>5. \A id \in baseline'[r] : id[2] \in Run => order[id[2]] > 0
    BY <2>1 DEF StandingInv, SeenEarlier
  <2>6. ASSUME NEW q \in Run, NEW id \in baseline'[q], id[2] \in Run
        PROVE  order'[id[2]] > 0 /\ (order'[q] = 0 \/ order'[id[2]] < order'[q])
    <3>1. CASE q = r
      BY <1>0, <1>3, <1>5, <2>2, <2>5, <2>6, <3>1
    <3>2. CASE q # r
      BY <1>4, <2>2, <2>6, <3>2 DEF StandingInv, SeenEarlier
    <3> QED BY <3>1, <3>2
  <2> QED BY <2>3, <2>4, <2>6 DEF SeenEarlier
<1>8. OwnNotes'
  BY <1>0, <1>4 DEF StandingInv, OwnNotes
<1>9. Attempts'
  BY <1>0, <1>3, <1>4
  DEF StandingInv, Attempts, Mine, Early, Unpublished, Complete, Confirmed
<1>10. Committed'
  BY <1>0, <1>4 DEF StandingInv, Committed
<1>11. Intact'
  BY <1>0, <1>3, <1>4 DEF StandingInv, Intact, Superseded, Place, Complete
<1> QED BY <1>6, <1>7, <1>8, <1>9, <1>10, <1>11 DEF StandingInv

(* Removing earlier notes.  A job whose notes go has an earlier snapshot than  *)
(* the one that removes them, hence than the leader.                          *)
LEMMA CleanupStanding ==
  ASSUME TypeOK, StandingInv, NEW r \in Run, NEW a,
         pc[r] = "cleanup", BeginCleanup(r), CleanupAnswer(r, a),
         notes' \subseteq notes,
         \A id \in notes \ notes' : id \in replaceable[r],
         \A q \in Run : replaceable'[q] \subseteq replaceable[q],
         UNCHANGED <<baseline, order, snapshots, conf, transaction, unattempted, attempted>>
  PROVE  StandingInv'
<1>0. /\ Mine(r) /\ order[r] > 0 /\ Old \notin Run
      /\ \A q \in Run : order[q] \in Nat
      /\ leader \in Author
  BY MineFacts, PostingAssumption DEF Mine, Running, Early, TypeOK
<1>1. /\ UNCHANGED doomed
      /\ pc'[r] \in {"cleanup", "stopped"} /\ \A q \in Run \ {r} : UNCHANGED pc[q]
  BY DEF CleanupAnswer, Halt, Goto, TypeOK
<1>2. cleanupStarted'[r] /\ \A q \in Run \ {r} : UNCHANGED cleanupStarted[q]
  BY DEF BeginCleanup, TypeOK
<1>3. /\ leader' \in Run /\ order[r] <= order[leader']
      /\ leader \in Run => order[leader] <= order[leader']
      /\ leader' \in {r, leader}
  BY <1>0 DEF BeginCleanup, Author
<1>4. \A q \in Run : Superseded(q) => Superseded(q)'
  BY <1>0, <1>3 DEF Superseded
<1>5. SnapshotOrder'
  BY <1>0, <1>1 DEF StandingInv, SnapshotOrder, Early, Running
<1>6. SeenEarlier'
  BY DEF StandingInv, SeenEarlier
<1>7. OwnNotes'
  BY <1>1 DEF StandingInv, OwnNotes
<1>8. Attempts'
  BY <1>0, <1>1, <1>2
  DEF StandingInv, Attempts, Mine, Early, Unpublished, Complete, Confirmed
<1>9. Committed'
  <2>1. \A q \in Run : cleanupStarted'[q] =>
          pc'[q] \in {"cleanup"} \cup Ended /\ order[q] > 0 /\ order[q] <= order[leader']
    BY <1>0, <1>1, <1>2, <1>3 DEF StandingInv, Committed, Ended
  <2>2. cleanupStarted'[leader']
    BY <1>2, <1>3 DEF StandingInv, Committed
  <2> QED BY <1>0, <1>3, <2>1, <2>2 DEF Committed
<1>10. Intact'
  <2> SUFFICES ASSUME NEW q \in Run,
                      (pc[q] \in {"posting", "finalcheck", "publish"} \cup Complete \/ cleanupStarted[q])',
                      ~Superseded(q)', NEW id \in transaction[q]
               PROVE  Place(q, id)' \in notes'
    BY DEF Intact
  <2>1. Place(q, id)' = Place(q, id) /\ Place(q, id)[2] = q
    BY DEF Place, Live, StandingInv, OwnNotes
  <2>2. Place(q, id) \in notes
    BY <1>0, <1>1, <1>2, <1>4 DEF StandingInv, Intact, Complete
  <2>3. CASE Place(q, id) \in replaceable[r]
    <3>1. order[q] < order[r]
      BY <1>0, <2>1, <2>3 DEF StandingInv, SeenEarlier
    <3> QED BY <1>0, <1>3, <3>1 DEF Superseded
  <2> QED BY <2>1, <2>2, <2>3
<1> QED BY <1>5, <1>6, <1>7, <1>8, <1>9, <1>10 DEF StandingInv

LEMMA RemoveStanding ==
  ASSUME TypeOK, StandingInv, NEW r \in Run,
         \/ \E id \in replaceable[r] : DeletePrevious(r, id)
         \/ \E t \in toResolve[r] : ResolveDiscussion(r, t)
  PROVE  StandingInv'
<1> USE DEF provider, plan, snapshot, drafts, history
<1>1. ASSUME NEW id \in replaceable[r], DeletePrevious(r, id) PROVE StandingInv'
  <2>1. PICK a \in {"ok", "lost", "rejected"} : DeleteAnswer(a, id) /\ CleanupAnswer(r, a)
    BY <1>1 DEF DeletePrevious
  <2>2. notes' \in {notes, notes \ {id}}
    BY <2>1 DEF DeleteAnswer
  <2>3. \A q \in Run : replaceable'[q] \subseteq replaceable[q]
    BY <1>1 DEF DeletePrevious, TypeOK
  <2>4. /\ pc[r] = "cleanup" /\ BeginCleanup(r)
        /\ UNCHANGED <<baseline, order, snapshots, conf, transaction, unattempted, attempted>>
    BY <1>1 DEF DeletePrevious
  <2> QED BY <2>1, <2>2, <2>3, <2>4, CleanupStanding
<1>2. ASSUME NEW t \in toResolve[r], ResolveDiscussion(r, t) PROVE StandingInv'
  <2>1. PICK a \in {"ok", "lost", "rejected"} : CleanupAnswer(r, a)
    BY <1>2 DEF ResolveDiscussion
  <2>2. /\ pc[r] = "cleanup" /\ BeginCleanup(r)
        /\ UNCHANGED <<notes, replaceable, baseline, order, snapshots, conf, transaction,
                       unattempted, attempted>>
    BY <1>2 DEF ResolveDiscussion
  <2> QED BY <2>1, <2>2, CleanupStanding
<1> QED BY <1>1, <1>2

LEMMA InitStanding == Init => StandingInv
<1> SUFFICES ASSUME Init PROVE StandingInv
  OBVIOUS
<1> QED
  BY PostingAssumption
  DEF Init, StandingInv, SnapshotOrder, SeenEarlier, OwnNotes, Attempts, Committed, Intact,
      OldIds, Live, Early, Running, Complete, Unpublished

LEMMA StepStanding == TypeOK /\ StandingInv /\ [Next]_vars => StandingInv'
<1> SUFFICES ASSUME TypeOK, StandingInv, [Next]_vars PROVE StandingInv'
  OBVIOUS
<1> USE DEF vars, provider, plan, snapshot, drafts, history
<1>1. ASSUME NEW r \in Run, Job(r) PROVE StandingInv'
  BY <1>1, QuietStanding, SnapshotStanding, CheckFailsStanding, CreateStanding,
     PublishStanding, ApprovalStanding, RemoveStanding, UndoStanding
  DEF Job
<1>2. ASSUME UNCHANGED <<notes, pc, conf, transaction, baseline, replaceable, unattempted,
                         attempted, cleanupStarted, doomed, order, snapshots, leader>>
      PROVE  StandingInv'
  BY <1>2 DEF StandingInv, SnapshotOrder, SeenEarlier, OwnNotes, Attempts, Committed, Intact,
              Confirmed, Superseded, Place
<1>3. CASE Environment
  BY <1>2, <1>3, QuietStanding DEF Environment, HumanActs, ReviewedTupleMoves
<1>4. CASE UNCHANGED vars
  BY <1>2, <1>4
<1> QED BY <1>1, <1>3, <1>4 DEF Next

LEMMA LeaderFromStanding == TypeOK /\ StandingInv => LeaderStands
<1> SUFFICES ASSUME TypeOK, StandingInv PROVE Stands(leader)
  BY DEF LeaderStands
<1>1. CASE leader = Old
  BY <1>1 DEF StandingInv, Committed, Stands
<1>2. CASE leader # Old
  <2>1. leader \in Run /\ cleanupStarted[leader] /\ order[leader] \in Nat
    BY <1>2 DEF TypeOK, Author, StandingInv, Committed
  <2>2. "summary" \in Confirmed(leader)
    BY <2>1 DEF StandingInv, Attempts
  <2>3. ASSUME NEW id \in transaction[leader] PROVE Live(id[2], id[3]) \in notes
    <3>1. Place(leader, id) \in notes
      BY <2>1 DEF StandingInv, Intact, Superseded
    <3>2. Place(leader, id) = Live(id[2], id[3])
      <4>1. CASE conf[leader].draft
        BY <2>1, <4>1 DEF StandingInv, Attempts, Place
      <4>2. CASE ~conf[leader].draft
        <5>1. id \in Id /\ id[1] # "draft"
          BY <2>1, <4>2 DEF StandingInv, OwnNotes, TypeOK
        <5> QED BY <5>1 DEF Place, Id, Live
      <4> QED BY <4>1, <4>2
    <3> QED BY <3>1, <3>2
  <2> QED BY <1>2, <2>2, <2>3 DEF Stands, Posted
<1> QED BY <1>1, <1>2

THEOREM StandingInvariant == Spec => []StandingInv
BY TypeCorrect, InitStanding, StepStanding, PTL DEF Spec

(* However many jobs overlap, lose answers or are killed, the review of the   *)
(* leader is complete and visible ...                                         *)
THEOREM LeaderAlwaysStands == Spec => []LeaderStands
BY TypeCorrect, StandingInvariant, LeaderFromStanding, PTL

(* ... so some complete review always is.                                     *)
THEOREM ReviewAlwaysStands == Spec => []ReviewStands
<1>1. TypeOK /\ LeaderStands => ReviewStands
  BY DEF TypeOK, LeaderStands, ReviewStands
<1> QED BY <1>1, TypeCorrect, LeaderAlwaysStands, PTL

-----------------------------------------------------------------------------
(* Posting implements ReviewReplacement, for every value of its constants.  *)
Standing == {x \in Author : Stands(x)}
Entitled == {Old} \cup {r \in Run : cleanupStarted[r]}

LEMMA InitRefines == Init => Replacement!Init
<1> SUFFICES ASSUME Init PROVE Replacement!Init
  OBVIOUS
<1>1. Stands(Old)
  BY DEF Init, Stands
<1>2. \A r \in Run : ~Stands(r)
  BY PostingAssumption DEF Init, Stands, Confirmed
<1> QED BY <1>1, <1>2 DEF Init, Replacement!Init, Author

(* A step that leaves notes, records and the leader alone is a stutter.      *)
LEMMA QuietRefines ==
  ASSUME UNCHANGED <<notes, transaction, cleanupStarted, leader>>
  PROVE  UNCHANGED Replacement!vars
BY DEF Replacement!vars, Stands, Posted, Confirmed

(* A job that has not begun to remove notes can complete or lose its own      *)
(* review and no other.                                                       *)
LEMMA OwnRefines ==
  ASSUME TypeOK, StandingInv, NEW r \in Run, ~cleanupStarted[r],
         UNCHANGED <<cleanupStarted, leader>>,
         \A id \in notes \cup notes' : id[2] # r => (id \in notes <=> id \in notes'),
         \A q \in Run \ {r} : UNCHANGED transaction[q]
  PROVE  [Replacement!Next]_Replacement!vars
<1>1. Old \notin Run /\ r \in Author
  BY PostingAssumption DEF Author
<1>2. ASSUME NEW x \in Author, x # r PROVE Stands(x)' <=> Stands(x)
  <2>1. CASE x = Old
    BY <1>1, <2>1 DEF Stands, OldIds, Live
  <2>2. CASE x # Old
    <3>1. x \in Run /\ UNCHANGED transaction[x]
      BY <1>2, <2>2 DEF Author
    <3>2. \A id \in Posted(x) : id[2] = x
      BY <3>1 DEF Posted, Live, StandingInv, OwnNotes
    <3> QED BY <1>2, <2>2, <3>1, <3>2 DEF Stands, Posted, Confirmed
  <2> QED BY <2>1, <2>2
<1>3. r # leader /\ r \notin Entitled
  BY <1>1 DEF StandingInv, Committed, Entitled
<1>4. Entitled' = Entitled
  BY DEF Entitled
<1>5. CASE Stands(r)' <=> Stands(r)
  <2>1. Standing' = Standing
    BY <1>2, <1>5 DEF Standing
  <2> QED BY <1>4, <2>1 DEF Replacement!vars, Standing, Entitled
<1>6. CASE Stands(r)' /\ ~Stands(r)
  <2>1. r \notin Standing /\ Standing' = Standing \cup {r}
    BY <1>1, <1>2, <1>6 DEF Standing
  <2>2. Replacement!Complete(r)
    BY <1>1, <1>3, <1>4, <2>1 DEF Replacement!Complete, Standing, Entitled
  <2> QED BY <1>1, <2>2 DEF Replacement!Next
<1>7. CASE ~Stands(r)' /\ Stands(r)
  <2>1. r \in Standing /\ Standing' = Standing \ {r}
    BY <1>1, <1>2, <1>7 DEF Standing
  <2>2. Replacement!Lose(r)
    BY <1>1, <1>3, <1>4, <2>1 DEF Replacement!Lose, Standing, Entitled
  <2> QED BY <1>1, <2>2 DEF Replacement!Next
<1> QED BY <1>5, <1>6, <1>7

(* A removal takes down one review at most, never the leader's.              *)
LEMMA CleanupRefines ==
  ASSUME TypeOK, StandingInv, Stands(leader)', NEW r \in Run, NEW x \in Author,
         BeginCleanup(r), order[r] \in Nat, UNCHANGED transaction,
         notes' \subseteq notes, \A id \in notes \ notes' : id[2] = x
  PROVE  [Replacement!Next]_Replacement!vars
<1>1. Old \notin Run /\ r \in Author /\ Old \in Author /\ leader \in Author
      /\ \A q \in Run : order[q] \in Nat
  BY PostingAssumption DEF Author, TypeOK
<1>2. leader' \in Run /\ leader' \in {r, leader} /\ leader' \in Author
  BY <1>1 DEF BeginCleanup, Author
<1>3. Entitled' = Entitled \cup {r}
  BY <1>1 DEF Entitled, BeginCleanup, TypeOK
<1>4. ASSUME NEW y \in Author, y # x PROVE Stands(y)' <=> Stands(y)
  <2>1. CASE y = Old
    BY <1>1, <1>4, <2>1 DEF Stands, OldIds, Live
  <2>2. CASE y # Old
    <3>1. y \in Run
      BY <2>2 DEF Author
    <3>2. \A id \in Posted(y) : id[2] = y
      BY <3>1 DEF Posted, Live, StandingInv, OwnNotes
    <3> QED BY <1>4, <2>2, <3>2 DEF Stands, Posted, Confirmed
  <2> QED BY <2>1, <2>2
<1>5. ASSUME NEW y \in Author, Stands(y)' PROVE Stands(y)
  BY <1>5 DEF Stands, Posted, Confirmed
<1>6. leader' \in Standing /\ leader' \in Standing'
  BY <1>2, <1>5 DEF Standing
<1>7. \/ Standing' = Standing
      \/ x \in Standing /\ x # leader' /\ Standing' = Standing \ {x}
  BY <1>4, <1>5, <1>6 DEF Standing
<1>8. CASE cleanupStarted[r]
  <2>1. leader' = leader /\ Entitled' = Entitled
    BY <1>1, <1>3, <1>8 DEF StandingInv, Committed, BeginCleanup, Entitled
  <2>2. CASE Standing' = Standing
    BY <2>1, <2>2 DEF Replacement!vars, Standing, Entitled
  <2>3. CASE x \in Standing /\ x # leader' /\ Standing' = Standing \ {x}
    BY <2>1, <2>3 DEF Replacement!Next, Replacement!Lose, Standing, Entitled
  <2> QED BY <1>7, <2>2, <2>3
<1>9. CASE ~cleanupStarted[r]
  <2>1. r \in Author \ Entitled
    BY <1>1, <1>9 DEF Entitled
  <2>2. (r \in Standing /\ leader' = r) \/ leader' = leader
    BY <1>2, <1>6
  <2>3. \E lost \in Author \ {leader'} : Standing' \in {Standing, Standing \ {lost}}
    <3>1. Old \in Author \ {leader'}
      BY <1>1, <1>2
    <3> QED BY <1>7, <3>1
  <2>4. Replacement!Begin(r)
    BY <1>3, <2>1, <2>2, <2>3 DEF Replacement!Begin, Standing, Entitled
  <2> QED BY <1>1, <2>4 DEF Replacement!Next
<1> QED BY <1>8, <1>9

LEMMA StepRefines ==
  TypeOK /\ StandingInv /\ LeaderStands' /\ [Next]_vars => [Replacement!Next]_Replacement!vars
<1> SUFFICES ASSUME TypeOK, StandingInv, LeaderStands', [Next]_vars
             PROVE  [Replacement!Next]_Replacement!vars
  OBVIOUS
<1> USE DEF vars, provider, plan, snapshot, drafts, history
<1>1. ASSUME NEW r \in Run,
             \/ Start(r) \/ SnapshotPlain(r) \/ SnapshotThreads(r) \/ SnapshotDrafts(r)
             \/ SnapshotFails(r) \/ Plan(r) \/ CheckPasses(r) \/ CheckFails(r)
             \/ \E i \in Inline : SkipInline(r, i)
             \/ PublishDone(r) \/ ApprovalUnsynchronized(r) \/ ApprovalNotNeeded(r) \/ Approve(r)
             \/ AmendSummary(r) \/ Finish(r) \/ UndoDone(r) \/ Kill(r)
      PROVE  [Replacement!Next]_Replacement!vars
  BY <1>1, QuietRefines
  DEF Start, SnapshotPlain, SnapshotThreads, SnapshotDrafts, SnapshotComplete, SnapshotFails, Plan,
      CheckPasses, CheckFails, SkipInline, PublishDone, ApprovalUnsynchronized, ApprovalNotNeeded,
      Approve, AmendSummary, Finish, UndoDone, Kill
<1>2. ASSUME NEW r \in Run, PostPlain(r) \/ \E i \in Inline : PostInline(r, i)
      PROVE  [Replacement!Next]_Replacement!vars
  <2>1. ~cleanupStarted[r] /\ UNCHANGED <<cleanupStarted, leader>>
    BY <1>2 DEF PostPlain, PostInline, StandingInv, Committed, Ended
  <2>2. PICK item : notes' \in {notes, notes \cup {NewId(r, item)}}
    BY <1>2 DEF PostPlain, PostInline
  <2>3. NewId(r, item)[2] = r
    BY DEF NewId, Draft, Live
  <2>4. \A q \in Run \ {r} : UNCHANGED transaction[q]
    BY <1>2 DEF PostPlain, PostInline, TypeOK
  <2> QED BY <2>1, <2>2, <2>3, <2>4, OwnRefines
<1>3. ASSUME NEW r \in Run, NEW id \in unattempted[r], PublishDraft(r, id)
      PROVE  [Replacement!Next]_Replacement!vars
  <2>1. ~cleanupStarted[r] /\ UNCHANGED <<cleanupStarted, leader, transaction>>
    BY <1>3 DEF PublishDraft, StandingInv, Committed, Ended
  <2>2. id[2] = r
    BY DEF StandingInv, OwnNotes
  <2>3. notes' \in {notes, (notes \ {id}) \cup {Live(id[2], id[3])}}
    BY <1>3 DEF PublishDraft
  <2>4. Live(id[2], id[3])[2] = r
    BY <2>2 DEF Live
  <2> QED BY <2>1, <2>2, <2>3, <2>4, OwnRefines
<1>4. ASSUME NEW r \in Run, NEW id \in doomed[r], UndoOne(r, id)
      PROVE  [Replacement!Next]_Replacement!vars
  <2>1. ~cleanupStarted[r] /\ UNCHANGED <<cleanupStarted, leader, transaction>>
    BY <1>4 DEF UndoOne, StandingInv, Committed, Ended
  <2>2. id[2] = r
    BY DEF StandingInv, OwnNotes
  <2>3. notes' \in {notes, notes \ {id}}
    BY <1>4 DEF UndoOne, DeleteAnswer
  <2> QED BY <2>1, <2>2, <2>3, OwnRefines
<1>5. ASSUME NEW r \in Run, NEW id \in replaceable[r], DeletePrevious(r, id)
      PROVE  [Replacement!Next]_Replacement!vars
  <2>1. BeginCleanup(r) /\ UNCHANGED transaction /\ order[r] \in Nat
    BY <1>5 DEF DeletePrevious, TypeOK
  <2>2. notes' \in {notes, notes \ {id}}
    BY <1>5 DEF DeletePrevious, DeleteAnswer
  <2>3. id[2] \in Author
    BY IdFacts DEF TypeOK
  <2> QED BY <2>1, <2>2, <2>3, CleanupRefines DEF LeaderStands
<1>6. ASSUME NEW r \in Run, NEW t \in toResolve[r], ResolveDiscussion(r, t)
      PROVE  [Replacement!Next]_Replacement!vars
  <2>1. BeginCleanup(r) /\ UNCHANGED <<transaction, notes>> /\ order[r] \in Nat
    BY <1>6 DEF ResolveDiscussion, TypeOK
  <2>2. Old \in Author
    BY DEF Author
  <2> QED BY <2>1, <2>2, CleanupRefines DEF LeaderStands
<1>7. CASE \/ \E x \in Author, i \in Inline : HumanActs(x, i)
           \/ ReviewedTupleMoves \/ UNCHANGED vars
  BY <1>7, QuietRefines DEF HumanActs, ReviewedTupleMoves
<1> QED
  BY <1>1, <1>2, <1>3, <1>4, <1>5, <1>6, <1>7 DEF Next, Job, Environment

(* Whatever the number of jobs, findings and faults: reviews are replaced only *)
(* the way ReviewReplacement allows.                                          *)
THEOREM Implementation == Spec => ReplacesReviews
<1>1. Init /\ [][Next]_vars /\ []TypeOK /\ []StandingInv /\ []LeaderStands
        => Replacement!Init /\ [][Replacement!Next]_Replacement!vars
  BY InitRefines, StepRefines, PTL
<1> QED
  BY <1>1, TypeCorrect, StandingInvariant, LeaderAlwaysStands, PTL
  DEF Spec, ReplacesReviews, Replacement!Spec

-----------------------------------------------------------------------------
(* What a posting job reports about its outcome is true.                    *)

(* An id is known by its parts.                                              *)
LEMMA IdParts ==
  /\ \A id \in Id : id[1] \in {"draft", "live"}
  /\ \A id \in Id : id[1] = "draft" => id = Draft(id[2], id[3])
  /\ \A id \in Id : id[1] = "live" => id = Live(id[2], id[3])
  /\ \A x, i : Draft(x, i)[1] = "draft" /\ Live(x, i)[1] = "live"
  /\ \A x, i : Draft(x, i)[2] = x /\ Live(x, i)[2] = x
  /\ \A x, i : Draft(x, i)[3] = i /\ Live(x, i)[3] = i
BY DEF Id, Draft, Live

(* Counting what a step adds to a set by at most one element.                *)
LEMMA CountLess ==
  ASSUME NEW S, NEW T, T \subseteq S, IsFiniteSet(S), NEW n \in Nat, NEW m \in Nat,
         Cardinality(S) <= n, n <= m
  PROVE  IsFiniteSet(T) /\ Cardinality(T) <= m
<1>1. IsFiniteSet(T) /\ Cardinality(T) <= Cardinality(S)
  BY FS_Subset
<1>2. Cardinality(S) \in Nat /\ Cardinality(T) \in Nat
  BY <1>1, FS_CardinalityType
<1> QED BY <1>1, <1>2

LEMMA CountMore ==
  ASSUME NEW S, NEW T, NEW x, T \subseteq S \cup {x}, IsFiniteSet(S), NEW n \in Nat,
         Cardinality(S) <= n
  PROVE  IsFiniteSet(T) /\ Cardinality(T) <= n + 1
<1>1. IsFiniteSet(S \cup {x}) /\ Cardinality(S \cup {x}) \in {Cardinality(S), Cardinality(S) + 1}
  BY FS_AddElement
<1>2. Cardinality(S) \in Nat
  BY FS_CardinalityType
<1> QED BY <1>1, <1>2, CountLess

(* What a job owns is not in its own baseline.                               *)
LEMMA OwnUnseen ==
  ASSUME TypeOK, StandingInv, NEW r \in Run
  PROVE  \A id \in baseline[r] : id[2] # r
<1> SUFFICES ASSUME NEW id \in baseline[r], id[2] = r PROVE FALSE
  OBVIOUS
<1> QED BY DEF StandingInv, SeenEarlier, TypeOK

(* Before its snapshot a job has neither notes nor a record of any.          *)
LEMMA EarlyNothing ==
  ASSUME TypeOK, StandingInv, NEW r \in Run, pc[r] \in Early
  PROVE  /\ order[r] = 0 /\ notes \cap IdsOf(r) = {} /\ transaction[r] = {}
         /\ attempted[r] = {} /\ unattempted[r] = {} /\ ~cleanupStarted[r]
<1>1. Mine(r)
  BY MineFacts
<1>2. order[r] = 0
  BY <1>1 DEF Mine, TypeOK
<1>3. \A id \in notes : id[2] = r => FALSE
  BY <1>2 DEF StandingInv, SeenEarlier
<1> QED BY <1>1, <1>2, <1>3 DEF Mine, IdsOf, Early, Ended

-----------------------------------------------------------------------------
(* What a step of another job, a person or the merge request leaves alone.   *)
Beside(r) ==
  /\ UNCHANGED <<pc[r], conf[r], found[r], pending[r], fallback[r], omitted[r],
                 transaction[r], baseline[r], replaceable[r], preserved[r],
                 unattempted[r], attempted[r], cleanupStarted[r], doomed[r], order[r]>>
  /\ \A id \in notes' : id[2] \in {r, Old} => id \in notes
  /\ faults' \in Nat /\ faults <= faults'
  /\ \A x \in Run : fallback[x] \subseteq fallback'[x]

LEMMA BesideOutcome ==
  ASSUME TypeOK, NEW r \in Run, Outcome(r), Beside(r)
  PROVE  Outcome(r)'
<1> USE DEF Outcome, Beside
<1>1. Sorted(r)'
  BY DEF Sorted
<1>2. OldSeen(r)'
  BY IdParts DEF OldSeen
<1>3. Gone(r)'
  BY DEF Gone, Replaced
<1>4. Unrepeated(r)'
  <2>1. notes' \cap IdsOf(r) \subseteq notes
    BY DEF IdsOf, TypeOK
  <2>2. \A i : {Draft(r, i), Live(r, i)} \cap notes' \subseteq notes
    BY IdParts
  <2>3. Barred(r)' = Barred(r)
    BY DEF Barred, Suppressed, SeenInline
  <2> QED BY <2>1, <2>2, <2>3 DEF Unrepeated, IdsOf
<1>5. Accounted(r)'
  <2>1. PublishedBefore(r) \subseteq PublishedBefore(r)'
    BY DEF PublishedBefore
  <2>2. Confirmed(r)' = Confirmed(r) /\ Suppressed(r)' = Suppressed(r)
    BY DEF Confirmed, Suppressed
  <2> QED BY <2>1, <2>2 DEF Accounted
<1>6. Retained(r)'
  BY DEF Retained
<1>7. Tally(r)'
  <2>1. Leftover(r)' \subseteq Leftover(r)
    BY DEF Leftover, Known, IdsOf, TypeOK
  <2>2. faults \in Nat
    BY DEF TypeOK
  <2> QED BY <2>1, <2>2, CountLess DEF Tally
<1> QED BY <1>1, <1>2, <1>3, <1>4, <1>5, <1>6, <1>7

(* A job writes notes in its own name only.                                  *)
LEMMA OwnNotesWritten ==
  ASSUME TypeOK, StandingInv, NEW q \in Run, Job(q)
  PROVE  \A id \in notes' : id \in notes \/ id[2] = q
<1> USE DEF provider, plan, snapshot, drafts, history
<1>1. CASE \E id \in unattempted[q] : PublishDraft(q, id)
  <2>1. \A id \in unattempted[q] : id[2] = q
    BY MineFacts DEF Mine
  <2> QED BY <1>1, <2>1, IdParts DEF PublishDraft
<1>2. CASE PostPlain(q) \/ \E i \in Inline : PostInline(q, i)
  BY <1>2, IdParts DEF PostPlain, PostInline, NewId
<1>3. CASE \/ \E id \in replaceable[q] : DeletePrevious(q, id)
           \/ \E id \in doomed[q] : UndoOne(q, id)
  BY <1>3 DEF DeletePrevious, UndoOne, DeleteAnswer
<1>4. CASE UNCHANGED notes
  BY <1>4
<1> QED BY <1>1, <1>2, <1>3, <1>4
        DEF Job, Start, SnapshotPlain, SnapshotThreads, SnapshotDrafts, SnapshotFails, Plan,
            CheckPasses, CheckFails, SkipInline, PublishDone, ApprovalUnsynchronized,
            ApprovalNotNeeded, Approve, AmendSummary, ResolveDiscussion, Finish, UndoDone

(* The budget of faults is only spent.                                       *)
LEMMA FaultsGrow ==
  ASSUME TypeOK, Next
  PROVE  faults' \in Nat /\ faults <= faults'
<1> USE DEF provider, plan, snapshot, drafts, history
<1>1. ASSUME Fault \/ NoFault PROVE faults' \in Nat /\ faults <= faults'
  BY <1>1 DEF TypeOK, Fault, NoFault
<1>2. ASSUME NEW r \in Run, Job(r) PROVE Fault \/ NoFault
  BY <1>2 DEF Job, Start, SnapshotPlain, SnapshotThreads, SnapshotDrafts, SnapshotFails, Plan,
            CheckPasses, CheckFails, SkipInline, PostInline, PostPlain, PublishDraft, PublishDone,
            ApprovalUnsynchronized, ApprovalNotNeeded, Approve, AmendSummary, DeletePrevious,
            DeleteAnswer, ResolveDiscussion, Finish, UndoOne, UndoDone, Answer, NoFault
<1>3. ASSUME Environment PROVE Fault \/ NoFault
  BY <1>3 DEF Environment, HumanActs, ReviewedTupleMoves, Kill, NoFault
<1> QED BY <1>1, <1>2, <1>3 DEF Next

(* Nor does it touch the state of another.                                   *)
LEMMA JobBeside ==
  ASSUME TypeOK, StandingInv, NEW q \in Run, Job(q), NEW r \in Run, r # q
  PROVE  Beside(r)
<1> USE DEF provider, plan, snapshot, drafts, history
<1>1. /\ \A id \in notes' : id[2] \in {r, Old} => id \in notes
      /\ faults' \in Nat /\ faults <= faults'
  BY OwnNotesWritten, FaultsGrow, PostingAssumption DEF Next
<1>2. UNCHANGED <<pc[r], doomed[r]>>
  BY DEF TypeOK, Job, Start, SnapshotPlain, SnapshotThreads, SnapshotDrafts, SnapshotFails, Plan,
         CheckPasses, CheckFails, SkipInline, PostInline, PostPlain, PublishDraft, PublishDone,
         ApprovalUnsynchronized, ApprovalNotNeeded, Approve, AmendSummary, DeletePrevious,
         ResolveDiscussion, Finish, UndoOne, UndoDone, StopWhenStale, StopCurrentReview,
         Rollback, Halt, Goto, CleanupAnswer, SnapshotComplete
<1>3. /\ UNCHANGED <<conf[r], found[r], pending[r], omitted[r]>>
      /\ UNCHANGED fallback[r] /\ \A x \in Run : fallback[x] \subseteq fallback'[x]
  BY DEF TypeOK, Job, Start, SnapshotPlain, SnapshotThreads, SnapshotDrafts, SnapshotFails, Plan,
         CheckPasses, CheckFails, SkipInline, PostInline, PostPlain, PublishDraft, PublishDone,
         ApprovalUnsynchronized, ApprovalNotNeeded, Approve, AmendSummary, DeletePrevious,
         ResolveDiscussion, Finish, UndoOne, UndoDone
<1>4. UNCHANGED <<transaction[r], unattempted[r], attempted[r], cleanupStarted[r]>>
  BY DEF TypeOK, Job, Start, SnapshotPlain, SnapshotThreads, SnapshotDrafts, SnapshotFails, Plan,
         CheckPasses, CheckFails, SkipInline, PostInline, PostPlain, PublishDraft, PublishDone,
         ApprovalUnsynchronized, ApprovalNotNeeded, Approve, AmendSummary, DeletePrevious,
         ResolveDiscussion, Finish, UndoOne, UndoDone, BeginCleanup
<1>5. UNCHANGED <<baseline[r], replaceable[r], preserved[r], order[r]>>
  BY DEF TypeOK, Job, Start, SnapshotPlain, SnapshotThreads, SnapshotDrafts, SnapshotFails, Plan,
         CheckPasses, CheckFails, SkipInline, PostInline, PostPlain, PublishDraft, PublishDone,
         ApprovalUnsynchronized, ApprovalNotNeeded, Approve, AmendSummary, DeletePrevious,
         ResolveDiscussion, Finish, UndoOne, UndoDone, SeenNotes, SnapshotComplete, BeginCleanup
<1> QED BY <1>1, <1>2, <1>3, <1>4, <1>5 DEF Beside

-----------------------------------------------------------------------------
(* The steps of the job itself.  Reading the merge request:                  *)
LEMMA StartOutcome ==
  ASSUME TypeOK, StandingInv, NEW r \in Run, Outcome(r), Start(r)
  PROVE  Outcome(r)'
<1> USE DEF provider, plan, snapshot, drafts, history, Outcome
<1>1. /\ pc[r] = "idle" /\ pc'[r] = "snapPlain" /\ pending'[r] = found'[r]
      /\ UNCHANGED <<notes, faults, fallback, omitted, transaction, baseline, replaceable, preserved,
                     unattempted, attempted, cleanupStarted, doomed, order>>
  BY DEF Start, Goto, TypeOK
<1>2. /\ order[r] = 0 /\ notes \cap IdsOf(r) = {} /\ transaction[r] = {}
      /\ attempted[r] = {} /\ unattempted[r] = {} /\ ~cleanupStarted[r]
  BY <1>1, EarlyNothing DEF Early
<1>3. Sorted(r)' /\ OldSeen(r)'
  BY <1>1, <1>2 DEF Sorted, OldSeen
<1>4. Gone(r)' /\ Unrepeated(r)'
  BY <1>1, <1>2 DEF Gone, Sorted, Unrepeated, Unplanned, Early
<1>5. Accounted(r)' /\ Retained(r)'
  BY <1>1, <1>2 DEF Accounted, Retained, Unplanned, Early, Going, Complete
<1>6. Tally(r)'
  BY <1>1, <1>2 DEF Tally, Leftover, Known, Ended
<1> QED BY <1>3, <1>4, <1>5, <1>6

LEMMA SnapshotOutcome ==
  ASSUME TypeOK, StandingInv, NEW r \in Run, Outcome(r),
         SnapshotPlain(r) \/ SnapshotThreads(r) \/ SnapshotDrafts(r)
  PROVE  Outcome(r)'
<1> USE DEF provider, plan, snapshot, drafts, history, Outcome
<1>1. /\ pc[r] \in {"snapPlain", "snapThreads", "snapDrafts"}
      /\ UNCHANGED <<notes, faults, conf, found, pending, fallback, omitted, transaction,
                     unattempted, attempted, cleanupStarted, doomed>>
  BY DEF SnapshotPlain, SnapshotThreads, SnapshotDrafts
<1>2. /\ order[r] = 0 /\ notes \cap IdsOf(r) = {} /\ transaction[r] = {}
      /\ attempted[r] = {} /\ unattempted[r] = {} /\ ~cleanupStarted[r]
  BY <1>1, EarlyNothing DEF Early
<1>3. /\ pc'[r] \in {"snapThreads", "snapDrafts", "plan"}
      /\ pc'[r] = "snapThreads" <=> SnapshotPlain(r)
      /\ SnapshotPlain(r) => order' = order
  BY DEF SnapshotPlain, SnapshotThreads, SnapshotDrafts, SnapshotComplete, Goto, TypeOK
<1>4. Sorted(r)' /\ OldSeen(r)'
        /\ \A id \in baseline'[r] \ (preserved'[r] \cup replaceable'[r]) :
              id \in baseline[r] \ (preserved[r] \cup replaceable[r])
  <2>1. CASE SnapshotPlain(r)
    <3>1. /\ pc[r] = "snapPlain" /\ UNCHANGED preserved
          /\ baseline'[r] = baseline[r] \cup {id \in notes : id[1] = "live" /\ id[3] \in Plain}
          /\ replaceable'[r] = replaceable[r] \cup {id \in notes : id[1] = "live" /\ id[3] \in Plain}
      BY <2>1 DEF SnapshotPlain, SeenNotes, TypeOK
    <3> QED BY <1>2, <1>3, <2>1, <3>1 DEF Sorted, OldSeen
  <2>2. CASE SnapshotThreads(r)
    <3> DEFINE seen == {id \in notes : id[1] = "live" /\ id[3] \in Inline}
               human == {id \in seen : touched[ThreadOf(id)] # "no"}
    <3>1. {id \in seen : HumanTouched(id[2], id[3])} = human
      BY DEF HumanTouched, ThreadOf
    <3>2. /\ pc[r] = "snapThreads"
          /\ baseline'[r] = baseline[r] \cup seen
          /\ replaceable'[r] = replaceable[r] \cup (seen \ human)
          /\ preserved'[r] = human
      BY <2>2, <3>1 DEF SnapshotThreads, SeenNotes, TypeOK
    <3>3. replaceable[r] \subseteq baseline[r] /\ Inline \cap Plain = {}
      BY PostingAssumption DEF StandingInv, SeenEarlier
    <3>4. \A i \in Inline : Live(Old, i) \in notes => Live(Old, i) \in seen
      BY IdParts
    <3>5. Sorted(r)'
      BY <1>3, <3>2, <3>3 DEF Sorted, SnapshotPlain
    <3>6. OldSeen(r)'
      BY <1>1, <3>2, <3>4 DEF OldSeen
    <3> HIDE DEF seen, human
    <3> QED BY <3>2, <3>5, <3>6 DEF Sorted
  <2>3. CASE SnapshotDrafts(r)
    <3>1. /\ pc[r] = "snapDrafts" /\ UNCHANGED preserved
          /\ baseline'[r] = baseline[r] \cup {id \in notes : id[1] = "draft"}
          /\ replaceable'[r] = replaceable[r] \cup {id \in notes : id[1] = "draft"}
      BY <2>3 DEF SnapshotDrafts, SeenNotes, TypeOK
    <3> QED BY <1>1, <1>3, <3>1 DEF Sorted, OldSeen, SnapshotPlain
  <2> QED BY <2>1, <2>2, <2>3
<1>5. Gone(r)' /\ Unrepeated(r)'
  BY <1>1, <1>2, <1>3, <1>4 DEF Gone, Unrepeated, Unplanned, Early
<1>6. Accounted(r)' /\ Retained(r)'
  BY <1>1, <1>2, <1>3 DEF Accounted, Retained, Unplanned, Early, Going, Complete
<1>7. Tally(r)'
  BY <1>1, <1>2, <1>3 DEF Tally, Leftover, Known, Ended
<1> QED BY <1>4, <1>5, <1>6, <1>7

LEMMA SnapshotFailsOutcome ==
  ASSUME TypeOK, StandingInv, NEW r \in Run, Outcome(r), SnapshotFails(r)
  PROVE  Outcome(r)'
<1> USE DEF provider, plan, snapshot, drafts, history, Outcome
<1>1. /\ pc[r] \in {"snapPlain", "snapThreads", "snapDrafts"} /\ pc'[r] = "stopped"
      /\ UNCHANGED <<notes, conf, found, pending, fallback, omitted, transaction, baseline,
                     replaceable, preserved, unattempted, attempted, cleanupStarted, doomed, order>>
      /\ faults \in Nat /\ faults' \in Nat /\ faults <= faults'
  BY DEF SnapshotFails, Halt, Goto, Fault, TypeOK
<1>2. /\ order[r] = 0 /\ notes \cap IdsOf(r) = {} /\ transaction[r] = {}
      /\ attempted[r] = {} /\ unattempted[r] = {} /\ ~cleanupStarted[r]
  BY <1>1, EarlyNothing DEF Early
<1>3. Sorted(r)' /\ OldSeen(r)' /\ Gone(r)'
  BY <1>1, <1>2 DEF Sorted, OldSeen, Gone
<1>4. Unrepeated(r)'
  <2>1. \A i : {Draft(r, i), Live(r, i)} \cap notes = {}
    BY <1>2, IdParts DEF IdsOf, Id, TypeOK
  <2> QED BY <1>1, <1>2, <2>1 DEF Unrepeated, Unplanned, Early
<1>5. Accounted(r)' /\ Retained(r)'
  BY <1>1, <1>2 DEF Accounted, Retained, Unplanned, Early, Going, Complete
<1>6. Tally(r)'
  <2>1. Leftover(r)' = Leftover(r)
    BY <1>1, <1>2 DEF Leftover, Known, Ended
  <2> QED BY <1>1, <1>2, <2>1, CountLess DEF Tally
<1> QED BY <1>3, <1>4, <1>5, <1>6

(* What the plan drops is kept visible, what it keeps is not barred.         *)
LEMMA PlanOutcome ==
  ASSUME TypeOK, StandingInv, NEW r \in Run, Outcome(r), Plan(r)
  PROVE  Outcome(r)'
<1> USE DEF provider, plan, snapshot, drafts, history, Outcome
<1> DEFINE kept == pending[r] \ (Suppressed(r) \cup
                     (IF conf[r].kind = "filtered" THEN PublishedBefore(r) ELSE {}))
<1>1. PICK chosen \in SUBSET kept :
        /\ pending' = [pending EXCEPT ![r] = chosen]
        /\ omitted' = [omitted EXCEPT ![r] = kept \ chosen]
  BY DEF Plan
<1>2. /\ pc[r] = "plan" /\ pc'[r] \in {"precheck", "posting"}
      /\ pending'[r] = chosen /\ omitted'[r] = kept \ chosen
      /\ UNCHANGED <<notes, faults, conf, found, fallback, transaction, baseline,
                     replaceable, preserved, unattempted, attempted, cleanupStarted, doomed, order>>
  BY <1>1 DEF Plan, Goto, TypeOK
<1>3. Sorted(r)' /\ OldSeen(r)' /\ Gone(r)'
  BY <1>2 DEF Sorted, OldSeen, Gone
<1>4. /\ kept \cap Barred(r) = {} /\ Barred(r)' = Barred(r)
      /\ Suppressed(r)' = Suppressed(r) /\ PublishedBefore(r)' = PublishedBefore(r)
  BY <1>2 DEF Barred, PublishedBefore, Suppressed, SeenInline
<1>5. Unrepeated(r)'
  <2>1. notes \cap IdsOf(r) = {} /\ fallback[r] = {}
    BY <1>2 DEF Unrepeated, Unplanned
  <2>2. \A i : {Draft(r, i), Live(r, i)} \cap notes = {}
    BY <2>1, IdParts DEF IdsOf, Id, TypeOK
  <2>3. pending'[r] \cap Barred(r)' = {}
    BY <1>2, <1>4
  <2> HIDE DEF kept
  <2> QED BY <1>2, <2>1, <2>2, <2>3 DEF Unrepeated, Unplanned, Early
<1>6. Accounted(r)'
  BY <1>2, <1>4 DEF Accounted, Unplanned, Early, Complete
<1>7. Retained(r)' /\ Tally(r)'
  BY <1>2 DEF Retained, Tally, Leftover, Known, Ended
<1> QED BY <1>3, <1>5, <1>6, <1>7

-----------------------------------------------------------------------------
(* A class of deletions is due as long as something is left to delete.       *)
LEMMA NothingDue ==
  ASSUME TypeOK, NEW r \in Run, Due(r) = {}
  PROVE  Replaced(r) = {}
<1>1. \A id \in Replaced(r) : Class(r, id) \in {1, 2, 3}
  BY DEF Class
<1>2. \A id \in Replaced(r) : Class(r, id) # 1
  <2> SUFFICES ASSUME NEW id \in Replaced(r), Class(r, id) = 1 PROVE id \in Due(r)
    OBVIOUS
  <2> QED BY <1>1 DEF Due
<1>3. \A id \in Replaced(r) : Class(r, id) # 2
  <2> SUFFICES ASSUME NEW id \in Replaced(r), Class(r, id) = 2 PROVE id \in Due(r)
    OBVIOUS
  <2> QED BY <1>1, <1>2 DEF Due
<1>4. \A id \in Replaced(r) : Class(r, id) # 3
  <2> SUFFICES ASSUME NEW id \in Replaced(r), Class(r, id) = 3 PROVE id \in Due(r)
    OBVIOUS
  <2> QED BY <1>1, <1>2, <1>3 DEF Due
<1> QED BY <1>1, <1>2, <1>3, <1>4

(* Going on to the next phase writes nothing.                                *)
LEMMA ProceedOutcome ==
  ASSUME TypeOK, StandingInv, NEW r \in Run, Outcome(r),
         UNCHANGED <<notes, faults, conf, found, pending, fallback, omitted, transaction, baseline,
                     replaceable, preserved, attempted, cleanupStarted, doomed, order>>,
         \/ UNCHANGED pc /\ UNCHANGED unattempted
         \/ pc[r] = "precheck" /\ pc'[r] = "posting" /\ UNCHANGED unattempted
         \/ /\ pc[r] = "finalcheck" /\ pc'[r] = "publish"
            /\ unattempted'[r] \subseteq transaction[r]
         \/ /\ pc[r] \in {"publish", "approve", "amend", "recheck"}
            /\ pc'[r] \in {"approve", "amend", "recheck", "cleanup"}
            /\ UNCHANGED unattempted
         \/ pc[r] = "cleanup" /\ pc'[r] = "replaced" /\ Replaced(r) = {} /\ UNCHANGED unattempted
  PROVE  Outcome(r)'
<1> USE DEF Outcome
<1>0. Mine(r)
  BY MineFacts
<1>1. Sorted(r)' /\ OldSeen(r)'
  BY DEF Sorted, OldSeen
<1>2. Gone(r)'
  BY DEF Gone, Replaced
<1>3. Unrepeated(r)'
  BY DEF Unrepeated, Unplanned, Early, Barred, Suppressed, SeenInline, IdsOf
<1>4. Accounted(r)'
  BY DEF Accounted, Unplanned, Early, Going, Complete, Confirmed, Suppressed, PublishedBefore
<1>5. Retained(r)'
  BY <1>0 DEF Retained, Mine, Unpublished
<1>6. Tally(r)'
  BY DEF Tally, Leftover, Known, Ended, IdsOf
<1> QED BY <1>1, <1>2, <1>3, <1>4, <1>5, <1>6

LEMMA MoveOutcome ==
  ASSUME TypeOK, StandingInv, NEW r \in Run, Outcome(r),
         \/ CheckPasses(r) \/ PublishDone(r) \/ ApprovalNotNeeded(r) \/ Finish(r)
  PROVE  Outcome(r)'
<1> USE DEF provider, plan, snapshot, drafts, history
<1>1. CASE CheckPasses(r)
  <2>1. /\ UNCHANGED <<notes, faults, conf, found, pending, fallback, omitted, transaction, baseline,
                     replaceable, preserved, attempted, cleanupStarted, doomed, order>>
        /\ pc' = [pc EXCEPT ![r] = AfterCheck(r)]
        /\ unattempted' = [unattempted EXCEPT ![r] =
                       IF pc[r] = "finalcheck" /\ conf[r].draft THEN transaction[r] ELSE @]
    BY <1>1 DEF CheckPasses, Goto
  <2>2. pc[r] = "finalcheck" => unattempted[r] = {}
    BY MineFacts DEF Mine, Unpublished
  <2>3. pc[r] # "finalcheck" => UNCHANGED unattempted
    BY <2>1 DEF TypeOK
  <2>4. pc[r] \notin {"precheck", "finalcheck", "recheck"} => UNCHANGED pc
    BY <2>1 DEF AfterCheck, TypeOK
  <2>5. pc[r] \in {"precheck", "finalcheck", "recheck"} => pc'[r] = AfterCheck(r)
    BY <2>1 DEF TypeOK
  <2>6. /\ pc[r] = "precheck" => AfterCheck(r) = "posting"
        /\ pc[r] = "finalcheck" => AfterCheck(r) = "publish"
        /\ pc[r] = "recheck" => AfterCheck(r) = "cleanup"
    BY DEF AfterCheck
  <2>7. unattempted'[r] \subseteq transaction[r] \/ pc[r] # "finalcheck"
    BY <2>1, <2>2 DEF TypeOK
  <2> QED BY <2>1, <2>3, <2>4, <2>5, <2>6, <2>7, ProceedOutcome
<1>2. CASE PublishDone(r) \/ ApprovalNotNeeded(r)
  <2>1. /\ UNCHANGED <<notes, faults, conf, found, pending, fallback, omitted, transaction, baseline,
                     replaceable, preserved, unattempted, attempted, cleanupStarted, doomed, order>>
        /\ pc[r] \in {"publish", "approve"}
        /\ pc'[r] \in {"approve", "amend", "recheck", "cleanup"}
    BY <1>2 DEF PublishDone, ApprovalNotNeeded, Goto, TypeOK
  <2> QED BY <2>1, ProceedOutcome
<1>3. CASE Finish(r)
  <2>1. /\ UNCHANGED <<notes, faults, conf, found, pending, fallback, omitted, transaction, baseline,
                     replaceable, preserved, unattempted, attempted, cleanupStarted, doomed, order>>
        /\ pc[r] = "cleanup" /\ pc'[r] = "replaced" /\ Due(r) = {}
    BY <1>3 DEF Finish, Goto, TypeOK
  <2> QED BY <2>1, NothingDue, ProceedOutcome
<1> QED BY <1>1, <1>2, <1>3

(* A job killed where it stands has told nobody anything.                    *)
LEMMA KillOutcome ==
  ASSUME TypeOK, StandingInv, NEW r \in Run, Outcome(r), Kill(r)
  PROVE  Outcome(r)'
<1> USE DEF provider, plan, snapshot, drafts, history, Outcome
<1>1. /\ pc[r] \in Running /\ pc'[r] = "dead"
      /\ UNCHANGED <<notes, conf, found, pending, fallback, omitted, transaction, baseline,
                     replaceable, preserved, unattempted, attempted, cleanupStarted, doomed, order>>
  BY DEF Kill, Goto, TypeOK
<1>2. Sorted(r)' /\ OldSeen(r)' /\ Gone(r)'
  BY <1>1 DEF Sorted, OldSeen, Gone
<1>3. Unrepeated(r)'
  <2>1. CASE pc[r] \in Unplanned
    <3>1. fallback[r] = {} /\ \A i : {Draft(r, i), Live(r, i)} \cap notes = {}
      BY <2>1, IdParts DEF Unrepeated, IdsOf, Id, TypeOK
    <3> QED BY <1>1, <3>1 DEF Unrepeated, Unplanned, Early
  <2>2. CASE pc[r] \notin Unplanned
    BY <1>1, <2>2 DEF Unrepeated, Unplanned, Early, Barred, Suppressed, SeenInline
  <2> QED BY <2>1, <2>2
<1>4. Accounted(r)' /\ Retained(r)' /\ Tally(r)'
  BY <1>1 DEF Accounted, Retained, Tally, Unplanned, Early, Going, Complete
<1> QED BY <1>2, <1>3, <1>4

(* A job that gives up after its plan, its last request having left behind    *)
(* nothing, or one note at the price of a fault.                             *)
LEMMA GiveUpOutcome ==
  ASSUME TypeOK, StandingInv, NEW r \in Run, Outcome(r),
         pc[r] \in Going \ {"replaced"},
         \/ StopCurrentReview(r)
         \/ attempted[r] = {} /\ (Rollback(r, 1) \/ Rollback(r, StrictCode(r)))
         \/ Halt(r, 1) /\ (pc[r] = "precheck" \/ attempted[r] # {} \/ cleanupStarted[r]),
         UNCHANGED <<conf, found, omitted, transaction, baseline, fallback,
                     replaceable, preserved, unattempted, attempted, cleanupStarted, order>>,
         faults' \in Nat, faults <= faults',
         \/ UNCHANGED notes
         \/ \E i \in Item \ Barred(r) :
              notes' = notes \cup {NewId(r, i)} /\ faults' = faults + 1
  PROVE  Outcome(r)'
<1> USE DEF Outcome
<1>0. Mine(r) /\ doomed[r] = {} /\ \A id \in transaction[r] : id[2] = r
  BY MineFacts DEF Mine, Retained, Going, Complete
<1>1. RollbackIds(r) = transaction[r]
  BY <1>0, OwnUnseen DEF RollbackIds
<1>2. pc'[r] \in {"undo", "stopped"}
  BY DEF StopCurrentReview, Rollback, Halt, Goto, TypeOK
<1>3. \/ pc'[r] = "undo" /\ doomed'[r] = transaction[r] /\ attempted[r] = {}
      \/ pc'[r] = "undo" /\ doomed'[r] \subseteq unattempted[r] /\ attempted[r] # {}
      \/ /\ pc'[r] = "stopped" /\ doomed'[r] = {}
         /\ pc[r] = "precheck" \/ attempted[r] # {} \/ cleanupStarted[r]
  BY <1>0, <1>1 DEF StopCurrentReview, Rollback, Halt, Goto, TypeOK, UnattemptedIds
<1>4. \A id : id[2] = Old /\ id \in notes' => id \in notes
  BY PostingAssumption, IdParts DEF NewId
<1>5. Sorted(r)' /\ OldSeen(r)' /\ Gone(r)'
  BY <1>2, <1>4, IdParts DEF Sorted, OldSeen, Gone, Going, Complete, Ended
<1>6. Unrepeated(r)'
  <2>1. Barred(r)' = Barred(r)
    BY DEF Barred, Suppressed, SeenInline
  <2>2. pc[r] \notin Unplanned /\ pc'[r] \notin Unplanned \cup {"precheck", "posting"}
    BY <1>2 DEF Going, Complete, Unplanned, Early
  <2>3. \A i \in Barred(r) : {Draft(r, i), Live(r, i)} \cap notes' = {}
    BY <2>2, IdParts DEF Unrepeated, NewId
  <2> QED BY <2>1, <2>2, <2>3 DEF Unrepeated
<1>7. Accounted(r)'
  BY <1>2 DEF Accounted, Unplanned, Early, Going, Complete
<1>8. Retained(r)'
  BY <1>2, <1>3 DEF Retained
<1>9. Tally(r)'
  <2> SUFFICES ASSUME attempted[r] = {}, ~cleanupStarted[r]
               PROVE  IsFiniteSet(Leftover(r)') /\ Cardinality(Leftover(r)') <= faults'
    BY DEF Tally
  <2>1. pc[r] = "precheck" => transaction[r] = {}
    BY <1>0 DEF Mine
  <2>2. Known(r)' = transaction[r] /\ Known(r) = transaction[r]
    BY <1>3, <2>1 DEF Known, Ended, Going, Complete
  <2>3. IsFiniteSet(Leftover(r)) /\ Cardinality(Leftover(r)) <= faults
    BY DEF Tally, Going, Complete
  <2>4. faults \in Nat
    BY DEF TypeOK
  <2>5. CASE UNCHANGED notes
    <3>1. Leftover(r)' = Leftover(r)
      BY <2>2, <2>5 DEF Leftover, IdsOf
    <3> QED BY <2>3, <2>4, <3>1, CountLess
  <2>6. ASSUME NEW i, notes' = notes \cup {NewId(r, i)}, faults' = faults + 1
        PROVE  IsFiniteSet(Leftover(r)') /\ Cardinality(Leftover(r)') <= faults'
    <3>1. Leftover(r)' \subseteq Leftover(r) \cup {NewId(r, i)}
      BY <2>2, <2>6 DEF Leftover, IdsOf
    <3> QED BY <2>3, <2>4, <2>6, <3>1, CountMore
  <2> QED BY <2>5, <2>6
<1> QED BY <1>5, <1>6, <1>7, <1>8, <1>9

LEMMA StopOutcome ==
  ASSUME TypeOK, StandingInv, NEW r \in Run, Outcome(r),
         CheckFails(r) \/ ApprovalUnsynchronized(r) \/ Approve(r) \/ AmendSummary(r)
  PROVE  Outcome(r)'
<1> USE DEF provider, plan, snapshot, drafts, history
<1>0. /\ UNCHANGED <<notes, conf, found, pending, omitted, transaction, baseline, fallback,
                     replaceable, preserved, unattempted, attempted, cleanupStarted, order>>
      /\ Mine(r)
  BY MineFacts DEF CheckFails, ApprovalUnsynchronized, Approve, AmendSummary
<1>1. faults' \in Nat /\ faults <= faults'
  BY FaultsGrow DEF Next, Job
<1>2. pc[r] \in Going \ {"replaced"}
  BY DEF CheckFails, WriteDue, ApprovalUnsynchronized, Approve, AmendSummary, Going, Complete
<1>3. CASE CheckFails(r)
  <2>1. pc[r] = "posting" => attempted[r] = {}
    BY <1>0 DEF Mine, Unpublished
  <2>2. \/ StopCurrentReview(r)
        \/ attempted[r] = {} /\ (Rollback(r, 1) \/ Rollback(r, StrictCode(r)))
        \/ Halt(r, 1) /\ (pc[r] = "precheck" \/ attempted[r] # {} \/ cleanupStarted[r])
    BY <1>3, <2>1 DEF CheckFails, StopWhenStale, RetainCurrent
  <2> QED BY <1>0, <1>1, <1>2, <2>2, GiveUpOutcome
<1>4. CASE StopCurrentReview(r)
  BY <1>0, <1>1, <1>2, <1>4, GiveUpOutcome
<1>5. CASE (Goto(r, "amend") \/ Goto(r, "recheck")) /\ UNCHANGED doomed /\ pc[r] \in {"approve", "amend"}
  <2>1. pc'[r] \in {"amend", "recheck"}
    BY <1>5 DEF Goto, TypeOK
  <2>2. Tally(r)'
    <3>1. Leftover(r)' = Leftover(r) /\ faults \in Nat
      BY <1>0, <1>5, <2>1 DEF Leftover, Known, Ended, IdsOf, TypeOK
    <3> QED BY <1>0, <1>1, <1>2, <3>1, CountLess DEF Outcome, Tally, Going, Complete
  <2>3. Sorted(r)' /\ OldSeen(r)' /\ Gone(r)' /\ Unrepeated(r)'
    BY <1>0, <1>5, <2>1
    DEF Outcome, Sorted, OldSeen, Gone, Unrepeated, Unplanned, Early, Barred, Suppressed, SeenInline
  <2>4. Accounted(r)' /\ Retained(r)'
    BY <1>0, <1>5, <2>1
    DEF Outcome, Accounted, Retained, Unplanned, Early, Going, Complete, Confirmed, Suppressed,
        PublishedBefore
  <2> QED BY <2>2, <2>3, <2>4 DEF Outcome
<1> QED BY <1>3, <1>4, <1>5 DEF ApprovalUnsynchronized, Approve, AmendSummary

-----------------------------------------------------------------------------
(* Creating the review: a finding leaves the pending ones for a note, the     *)
(* fallback note or a rollback.                                              *)
LEMMA CreateOutcome ==
  ASSUME TypeOK, StandingInv, NEW r \in Run, Outcome(r), pc[r] = "posting",
         NEW item \in Item \ Barred(r),
         UNCHANGED <<faults, conf, found, omitted, baseline, replaceable, preserved, attempted,
                     cleanupStarted, doomed, order>>,
         pending'[r] \subseteq pending[r], fallback[r] \subseteq fallback'[r],
         fallback'[r] \cap Barred(r) = {},
         \/ transaction'[r] = transaction[r] \cup {NewId(r, item)} /\ notes' = notes \cup {NewId(r, item)}
         \/ UNCHANGED transaction[r] /\ UNCHANGED notes,
         pending[r] \subseteq pending'[r] \cup fallback'[r] \cup Confirmed(r)',
         \A x \in Run : fallback[x] \subseteq fallback'[x],
         \/ UNCHANGED <<pc, unattempted>>
         \/ /\ pending'[r] = {} /\ pc'[r] \in {"finalcheck", "publish"}
            /\ fallback'[r] # {} => "fallback" \in Confirmed(r)'
            /\ omitted'[r] # {} => "omitted" \in Confirmed(r)'
  PROVE  Outcome(r)'
<1> USE DEF Outcome
<1>0. Mine(r) /\ attempted[r] = {} /\ ~cleanupStarted[r]
  BY MineFacts DEF Mine, Unpublished, Ended
<1>1. \A id : id[2] = Old /\ id \in notes' => id \in notes
  BY PostingAssumption, IdParts DEF NewId
<1>2. pc'[r] \in {"posting", "finalcheck", "publish"}
  OBVIOUS
<1>3. Sorted(r)' /\ OldSeen(r)' /\ Gone(r)'
  BY <1>1, <1>2, IdParts DEF Sorted, OldSeen, Gone, Going, Complete, Ended
<1>4. Barred(r)' = Barred(r) /\ Suppressed(r)' = Suppressed(r)
  BY DEF Barred, Suppressed, SeenInline
<1>5. Unrepeated(r)'
  <2>1. \A i \in Barred(r) : {Draft(r, i), Live(r, i)} \cap notes' = {}
    BY IdParts DEF Unrepeated, NewId, Unplanned, Early
  <2> QED BY <1>2, <1>4, <2>1 DEF Unrepeated, Unplanned, Early
<1>6. Accounted(r)'
  <2>1. PublishedBefore(r) \subseteq PublishedBefore(r)'
    BY DEF PublishedBefore
  <2>2. Confirmed(r) \subseteq Confirmed(r)'
    BY DEF Confirmed
  <2>3. found[r] \subseteq pending[r] \cup fallback[r] \cup omitted[r] \cup Confirmed(r)
           \cup Suppressed(r) \cup (IF conf[r].kind = "filtered" THEN PublishedBefore(r) ELSE {})
    BY DEF Accounted, Going
  <2>4. found'[r] \subseteq pending'[r] \cup fallback'[r] \cup omitted'[r] \cup Confirmed(r)'
           \cup Suppressed(r)' \cup (IF conf'[r].kind = "filtered" THEN PublishedBefore(r)' ELSE {})
    BY <1>4, <2>1, <2>2, <2>3
  <2> QED BY <1>2, <2>4 DEF Accounted, Unplanned, Early, Going, Complete
<1>7. Retained(r)'
  BY <1>0, <1>2 DEF Retained
<1>8. Tally(r)'
  <2>1. Leftover(r)' \subseteq Leftover(r)
    BY <1>2 DEF Leftover, Known, Ended, IdsOf
  <2>2. IsFiniteSet(Leftover(r)) /\ Cardinality(Leftover(r)) <= faults /\ faults \in Nat
    BY <1>0 DEF Tally, TypeOK
  <2> QED BY <2>1, <2>2, CountLess DEF Tally
<1> QED BY <1>3, <1>5, <1>6, <1>7, <1>8

LEMMA PostInlineOutcome ==
  ASSUME TypeOK, StandingInv, NEW r \in Run, Outcome(r), NEW i \in Inline,
         SkipInline(r, i) \/ PostInline(r, i)
  PROVE  Outcome(r)'
<1> USE DEF provider, plan, snapshot, drafts, history
<1>0. /\ pc[r] = "posting" /\ i \in pending[r] /\ attempted[r] = {} /\ i \in Item \ Barred(r)
      /\ UNCHANGED <<conf, found, omitted, baseline, replaceable, preserved, attempted,
                     unattempted, cleanupStarted, order>>
  BY MineFacts, RunFacts DEF SkipInline, PostInline, Mine, Unpublished, Outcome, Unrepeated
<1>1. NewId(r, i)[3] = i
  BY IdParts DEF NewId
<1>2. i \notin Barred(r) /\ Barred(r) \cap fallback[r] = {}
  BY <1>0 DEF Outcome, Unrepeated, Unplanned, Early
<1>3. CASE SkipInline(r, i)
  <2>1. /\ pending'[r] = pending[r] \ {i} /\ fallback'[r] = fallback[r] \cup {i}
        /\ UNCHANGED <<notes, faults, transaction, pc, doomed>>
        /\ \A x \in Run : fallback[x] \subseteq fallback'[x]
    BY <1>3 DEF SkipInline, TypeOK
  <2> QED BY <1>0, <1>2, <2>1, CreateOutcome
<1>4. CASE PostInline(r, i)
  <2>1. PICK a \in {"ok", "invalid", "lost", "rejected"} :
          /\ IF a = "invalid" THEN NoFault ELSE Answer(a)
          /\ notes' = IF a \in {"ok", "lost"} THEN notes \cup {NewId(r, i)} ELSE notes
          /\ transaction' = [transaction EXCEPT ![r] =
                               IF a = "ok" THEN @ \cup {NewId(r, i)} ELSE @]
          /\ fallback' = [fallback EXCEPT ![r] = IF a = "invalid" THEN @ \cup {i} ELSE @]
          /\ pending' = [pending EXCEPT ![r] = @ \ {i}]
          /\ IF a \in {"ok", "invalid"} THEN UNCHANGED <<pc, doomed, exit>> ELSE Rollback(r, 1)
    BY <1>4 DEF PostInline
  <2>2. /\ pending'[r] = pending[r] \ {i}
        /\ fallback'[r] = IF a = "invalid" THEN fallback[r] \cup {i} ELSE fallback[r]
        /\ transaction'[r] = IF a = "ok" THEN transaction[r] \cup {NewId(r, i)} ELSE transaction[r]
        /\ \A x \in Run : fallback[x] \subseteq fallback'[x]
        /\ a # "ok" => UNCHANGED transaction
        /\ a # "invalid" => UNCHANGED fallback
    BY <2>1 DEF TypeOK
  <2>3. CASE a = "ok"
    <3>1. i \in Confirmed(r)' /\ UNCHANGED faults
      BY <1>1, <2>1, <2>2, <2>3 DEF Confirmed, Answer, NoFault
    <3> QED BY <1>0, <1>2, <2>1, <2>2, <2>3, <3>1, CreateOutcome
  <2>4. CASE a = "invalid"
    <3>1. UNCHANGED faults
      BY <2>1, <2>4 DEF NoFault
    <3> QED BY <1>0, <1>2, <2>1, <2>2, <2>4, <3>1, CreateOutcome
  <2>5. CASE a \in {"lost", "rejected"}
    <3>1. faults' = faults + 1 /\ faults \in Nat
      BY <2>1, <2>5 DEF Answer, Fault, TypeOK
    <3>2. pc[r] \in Going \ {"replaced"}
      BY <1>0 DEF Going
    <3>3. faults' \in Nat /\ faults <= faults'
      BY <3>1
    <3>4. Rollback(r, 1) /\ UNCHANGED <<transaction, fallback>>
      BY <2>1, <2>2, <2>5
    <3>5. UNCHANGED notes \/ notes' = notes \cup {NewId(r, i)}
      BY <2>1
    <3> QED BY <1>0, <3>1, <3>2, <3>3, <3>4, <3>5, GiveUpOutcome
  <2> QED BY <2>3, <2>4, <2>5
<1> QED BY <1>3, <1>4

LEMMA PostPlainOutcome ==
  ASSUME TypeOK, StandingInv, NEW r \in Run, Outcome(r), PostPlain(r)
  PROVE  Outcome(r)'
<1> USE DEF provider, plan, snapshot, drafts, history
<1> DEFINE item == PlainDue(r)
<1>1. PICK a \in {"ok", "lost", "rejected"} :
        /\ Answer(a)
        /\ notes' = IF a = "rejected" THEN notes ELSE notes \cup {NewId(r, item)}
        /\ transaction' = [transaction EXCEPT ![r] =
                             IF a = "ok" THEN @ \cup {NewId(r, item)} ELSE @]
        /\ IF a # "ok" THEN Rollback(r, StrictCode(r)) /\ UNCHANGED unattempted
           ELSE /\ UNCHANGED <<doomed, exit>>
                /\ IF item # "summary" THEN UNCHANGED <<pc, unattempted>>
                   ELSE IF conf[r].identity THEN Goto(r, "finalcheck") /\ UNCHANGED unattempted
                   ELSE /\ Goto(r, "publish")
                        /\ unattempted' = [unattempted EXCEPT ![r] =
                             IF conf[r].draft THEN transaction'[r] ELSE {}]
  BY DEF PostPlain
<1>2. /\ pc[r] = "posting" /\ pending[r] = {} /\ attempted[r] = {}
      /\ UNCHANGED <<conf, found, pending, fallback, omitted, baseline, replaceable, preserved,
                     attempted, cleanupStarted, order>>
  BY MineFacts DEF PostPlain, Mine, Unpublished
<1>3. item \in Plain /\ item \in Item \ Barred(r)
  <2>1. item \in Plain
    BY DEF PlainDue, Plain
  <2>2. Barred(r) \subseteq Inline
    BY DEF Outcome, Sorted, Barred, Suppressed, SeenInline
  <2> QED BY <2>1, <2>2, RunFacts, PostingAssumption
<1>4. /\ item = "summary" => /\ fallback[r] # {} => "fallback" \in Confirmed(r)
                             /\ omitted[r] # {} => "omitted" \in Confirmed(r)
  BY DEF PlainDue
<1>5. fallback[r] \cap Barred(r) = {}
  BY <1>2 DEF Outcome, Unrepeated, Unplanned, Early
<1> HIDE DEF item
<1>6. CASE a = "ok"
  <2>1. /\ transaction'[r] = transaction[r] \cup {NewId(r, item)}
        /\ notes' = notes \cup {NewId(r, item)} /\ UNCHANGED <<faults, doomed>>
    BY <1>1, <1>6 DEF TypeOK, Answer, NoFault
  <2>2. Confirmed(r) \subseteq Confirmed(r)'
    BY <2>1 DEF Confirmed
  <2>3. \/ UNCHANGED <<pc, unattempted>>
        \/ /\ pc'[r] \in {"finalcheck", "publish"}
           /\ item = "summary"
    BY <1>1, <1>6 DEF Goto, TypeOK
  <2> QED BY <1>2, <1>3, <1>4, <1>5, <2>1, <2>2, <2>3, CreateOutcome
<1>7. CASE a # "ok"
  <2>1. faults' = faults + 1 /\ faults \in Nat
    BY <1>1, <1>7 DEF Answer, Fault, TypeOK
  <2>2. pc[r] \in Going \ {"replaced"}
    BY <1>2 DEF Going
  <2>3. faults' \in Nat /\ faults <= faults'
    BY <2>1
  <2>4. Rollback(r, StrictCode(r)) /\ UNCHANGED <<transaction, unattempted>>
    BY <1>1, <1>7 DEF TypeOK
  <2>5. UNCHANGED notes \/ notes' = notes \cup {NewId(r, item)}
    BY <1>1
  <2> QED BY <1>2, <1>3, <2>1, <2>2, <2>3, <2>4, <2>5, GiveUpOutcome
<1> QED BY <1>6, <1>7

(* Publishing a draft: it is no longer a leftover a rollback answers for.    *)
LEMMA PublishOutcome ==
  ASSUME TypeOK, StandingInv, NEW r \in Run, Outcome(r),
         NEW id \in unattempted[r], PublishDraft(r, id)
  PROVE  Outcome(r)'
<1> USE DEF provider, plan, snapshot, drafts, history, Outcome
<1>1. PICK a \in {"ok", "lost", "rejected"} :
        /\ a # "rejected" => id \in notes
        /\ notes' = IF a = "rejected" THEN notes
                    ELSE (notes \ {id}) \cup {Live(id[2], id[3])}
        /\ IF a = "ok" THEN UNCHANGED <<pc, doomed, exit>>
           ELSE /\ Goto(r, "undo") /\ Exit(r, 1)
                /\ doomed' = [doomed EXCEPT ![r] =
                     IF conf[r].identity THEN UnattemptedIds(r)' \ baseline[r]
                     ELSE transaction[r]]
  BY DEF PublishDraft
<1>2. /\ pc[r] = "publish" /\ Mine(r) /\ doomed[r] = {} /\ id \in Id /\ id[1] = "draft" /\ id[2] = r
      /\ unattempted'[r] = unattempted[r] \ {id} /\ attempted'[r] = attempted[r] \cup {id}
      /\ UNCHANGED <<conf, found, pending, fallback, omitted, transaction, baseline,
                     replaceable, preserved, cleanupStarted, order>>
  BY MineFacts DEF PublishDraft, Retained, Mine, TypeOK
<1>3. pc'[r] \in {"publish", "undo"}
  BY <1>1, <1>2 DEF Goto, TypeOK
<1>4. id = Draft(r, id[3]) /\ Live(id[2], id[3]) = Live(r, id[3])
  BY <1>2, IdParts
<1>5. Sorted(r)' /\ OldSeen(r)' /\ Gone(r)'
  <2>1. \A n : n[2] = Old /\ n \in notes' => n \in notes
    BY <1>1, <1>2, PostingAssumption, IdParts
  <2> QED BY <1>2, <1>3, <2>1, IdParts DEF Sorted, OldSeen, Gone
<1>6. Unrepeated(r)'
  <2>1. Barred(r)' = Barred(r)
    BY <1>2 DEF Barred, Suppressed, SeenInline
  <2>2. ASSUME NEW i \in Barred(r) PROVE {Draft(r, i), Live(r, i)} \cap notes' = {}
    <3>1. {Draft(r, i), Live(r, i)} \cap notes = {}
      BY <1>2 DEF Unrepeated, Unplanned, Early
    <3>2. a # "rejected" => i # id[3]
      BY <1>1, <1>4, <3>1
    <3> QED BY <1>1, <1>4, <3>1, <3>2, IdParts
  <2> QED BY <1>2, <1>3, <2>1, <2>2 DEF Unrepeated, Unplanned, Early
<1>7. Accounted(r)'
  BY <1>2, <1>3
  DEF Accounted, Unplanned, Early, Going, Complete, Confirmed, Suppressed, PublishedBefore
<1>8. Retained(r)'
  <2>1. a # "ok" => /\ pc'[r] = "undo"
                    /\ conf[r].identity => doomed'[r] = unattempted'[r] \ baseline[r]
    BY <1>1, <1>2 DEF Goto, TypeOK, UnattemptedIds
  <2> QED BY <1>1, <1>2, <2>1 DEF Retained
<1>9. Tally(r)'
  BY <1>2 DEF Tally
<1> QED BY <1>5, <1>6, <1>7, <1>8, <1>9

(* Removing the earlier review: with an identity only an answered deletion   *)
(* lets the job go on.                                                       *)
LEMMA RemoveOutcome ==
  ASSUME TypeOK, StandingInv, NEW r \in Run, Outcome(r),
         \/ \E id \in replaceable[r] : DeletePrevious(r, id)
         \/ \E t \in toResolve[r] : ResolveDiscussion(r, t)
  PROVE  Outcome(r)'
<1> USE DEF provider, plan, snapshot, drafts, history, Outcome
<1>1. /\ pc[r] = "cleanup" /\ cleanupStarted'[r]
      /\ UNCHANGED <<conf, found, pending, fallback, omitted, transaction, baseline, preserved,
                     unattempted, attempted, order>>
  BY DEF DeletePrevious, ResolveDiscussion, BeginCleanup, TypeOK
<1> DEFINE Removed ==
      /\ notes' \subseteq notes /\ replaceable'[r] \subseteq replaceable[r]
      /\ pc'[r] \in {"cleanup", "stopped"} /\ UNCHANGED doomed
      /\ \/ pc'[r] = "stopped" \/ ~conf[r].identity
         \/ \A id \in replaceable[r] \ replaceable'[r] : id \notin notes'
<1>2. Removed
  <2>1. ASSUME NEW id \in replaceable[r], DeletePrevious(r, id)
        PROVE  Removed
    <3>1. PICK a \in {"ok", "lost", "rejected"} : DeleteAnswer(a, id) /\ CleanupAnswer(r, a)
      BY <2>1 DEF DeletePrevious
    <3>2. replaceable'[r] = replaceable[r] \ {id}
      BY <2>1 DEF DeletePrevious, TypeOK
    <3>3. notes' \subseteq notes /\ (a = "ok" => id \notin notes')
      BY <3>1 DEF DeleteAnswer
    <3>4. /\ pc'[r] \in {"cleanup", "stopped"} /\ UNCHANGED doomed
          /\ a # "ok" /\ conf[r].identity => pc'[r] = "stopped"
      BY <1>1, <3>1 DEF CleanupAnswer, Halt, Goto, TypeOK
    <3> QED BY <3>2, <3>3, <3>4
  <2>2. ASSUME NEW t \in toResolve[r], ResolveDiscussion(r, t)
        PROVE  Removed
    BY <1>1, <2>2 DEF ResolveDiscussion, CleanupAnswer, Halt, Goto, TypeOK
  <2> QED BY <2>1, <2>2
<1>3. Sorted(r)' /\ OldSeen(r)' /\ Gone(r)'
  BY <1>1, <1>2 DEF Sorted, OldSeen, Gone
<1>4. Unrepeated(r)'
  <2>1. Barred(r)' = Barred(r)
    BY <1>1 DEF Barred, Suppressed, SeenInline
  <2>2. \A i \in Barred(r) : {Draft(r, i), Live(r, i)} \cap notes' = {}
    BY <1>1, <1>2 DEF Unrepeated, Unplanned, Early
  <2> QED BY <1>1, <1>2, <2>1, <2>2 DEF Unrepeated, Unplanned, Early
<1>5. Accounted(r)'
  BY <1>1, <1>2
  DEF Accounted, Unplanned, Early, Going, Complete, Confirmed, Suppressed, PublishedBefore
<1>6. Retained(r)' /\ Tally(r)'
  BY <1>1, <1>2 DEF Retained, Tally
<1> QED BY <1>3, <1>4, <1>5, <1>6

(* Taking notes back: one that stays behind was rejected by the provider.    *)
LEMMA UndoOutcome ==
  ASSUME TypeOK, StandingInv, NEW r \in Run, Outcome(r),
         UndoDone(r) \/ \E id \in doomed[r] : UndoOne(r, id)
  PROVE  Outcome(r)'
<1> USE DEF provider, plan, snapshot, drafts, history, Outcome
<1>1. /\ pc[r] = "undo" /\ pc'[r] \in {"undo", "stopped"} /\ notes' \subseteq notes
      /\ doomed'[r] \subseteq doomed[r]
      /\ UNCHANGED <<conf, found, pending, fallback, omitted, transaction, baseline, preserved,
                     replaceable, cleanupStarted, unattempted, attempted, order>>
  BY DEF UndoDone, UndoOne, DeleteAnswer, StillDoomed, Goto, TypeOK
<1>2. Sorted(r)' /\ OldSeen(r)' /\ Gone(r)'
  BY <1>1 DEF Sorted, OldSeen, Gone
<1>3. Unrepeated(r)'
  <2>1. Barred(r)' = Barred(r)
    BY <1>1 DEF Barred, Suppressed, SeenInline
  <2>2. \A i \in Barred(r) : {Draft(r, i), Live(r, i)} \cap notes' = {}
    BY <1>1 DEF Unrepeated, Unplanned, Early
  <2> QED BY <1>1, <2>1, <2>2 DEF Unrepeated, Unplanned, Early
<1>4. Accounted(r)'
  BY <1>1 DEF Accounted, Unplanned, Early, Going, Complete
<1>5. Retained(r)'
  BY <1>1 DEF Retained, UndoDone, UndoOne, Goto, TypeOK
<1>6. Tally(r)'
  <2> SUFFICES ASSUME attempted[r] = {}, ~cleanupStarted[r]
               PROVE  IsFiniteSet(Leftover(r)') /\ Cardinality(Leftover(r)') <= faults'
    BY <1>1 DEF Tally
  <2>1. IsFiniteSet(Leftover(r)) /\ Cardinality(Leftover(r)) <= faults /\ faults \in Nat
    BY <1>1 DEF Tally, TypeOK
  <2>2. CASE UndoDone(r)
    <3>1. Leftover(r)' = Leftover(r) /\ UNCHANGED faults
      BY <1>1, <2>2 DEF UndoDone, Leftover, Known, Ended, IdsOf, Goto, TypeOK
    <3> QED BY <2>1, <3>1
  <2>3. ASSUME NEW id \in doomed[r], UndoOne(r, id)
        PROVE  IsFiniteSet(Leftover(r)') /\ Cardinality(Leftover(r)') <= faults'
    <3>1. PICK a \in {"ok", "lost", "rejected"} :
            DeleteAnswer(a, id) /\ doomed'[r] = doomed[r] \ {id}
      BY <2>3 DEF UndoOne, StillDoomed, TypeOK
    <3>2. Leftover(r)' \subseteq Leftover(r) \cup {id} /\ pc'[r] = "undo"
      BY <1>1, <2>3, <3>1 DEF Leftover, Known, IdsOf, UndoOne
    <3>3. CASE faults' = faults + 1
      BY <2>1, <3>2, <3>3, CountMore
    <3>4. CASE id \notin notes' /\ UNCHANGED faults
      <4>1. Leftover(r)' \subseteq Leftover(r)
        BY <3>2, <3>4 DEF Leftover
      <4> QED BY <2>1, <3>4, <4>1, CountLess
    <3> QED BY <3>1, <3>3, <3>4 DEF DeleteAnswer, Fault, NoFault
  <2> QED BY <2>2, <2>3
<1> QED BY <1>2, <1>3, <1>4, <1>5, <1>6

-----------------------------------------------------------------------------
LEMMA OwnOutcome ==
  ASSUME TypeOK, StandingInv, NEW r \in Run, Outcome(r), Job(r)
  PROVE  Outcome(r)'
BY StartOutcome, SnapshotOutcome, SnapshotFailsOutcome, PlanOutcome, MoveOutcome, StopOutcome,
   PostInlineOutcome, PostPlainOutcome, PublishOutcome, RemoveOutcome, UndoOutcome
DEF Job

LEMMA InitOutcome == Init => OutcomeInv
<1> SUFFICES ASSUME Init, NEW r \in Run PROVE Outcome(r)
  BY DEF OutcomeInv
<1>1. notes \cap IdsOf(r) = {}
  BY PostingAssumption, IdParts DEF Init, OldIds, IdsOf
<1>2. Sorted(r) /\ OldSeen(r) /\ Gone(r)
  BY DEF Init, Sorted, OldSeen, Gone
<1>3. Unrepeated(r) /\ Accounted(r) /\ Retained(r)
  BY <1>1 DEF Init, Unrepeated, Accounted, Retained, Unplanned, Early, Going, Complete
<1>4. Tally(r)
  <2>1. Leftover(r) = {} /\ faults = 0
    BY <1>1 DEF Leftover, Init
  <2> QED BY <2>1, FS_EmptySet DEF Tally
<1> QED BY <1>2, <1>3, <1>4 DEF Outcome

LEMMA StepOutcome == TypeOK /\ StandingInv /\ OutcomeInv /\ [Next]_vars => OutcomeInv'
<1> SUFFICES ASSUME TypeOK, StandingInv, OutcomeInv, [Next]_vars, NEW r \in Run
             PROVE  Outcome(r)'
  BY DEF OutcomeInv
<1> USE DEF vars, provider, plan, snapshot, drafts, history
<1>0. Outcome(r)
  BY DEF OutcomeInv
<1>1. ASSUME NEW q \in Run, Job(q) PROVE Outcome(r)'
  BY <1>0, <1>1, OwnOutcome, JobBeside, BesideOutcome
<1>2. CASE \/ \E x \in Author, i \in Inline : HumanActs(x, i)
           \/ ReviewedTupleMoves \/ UNCHANGED vars
  <2>0. UNCHANGED <<notes, faults, pc, conf, found, pending, fallback, omitted, transaction, baseline,
                   replaceable, preserved, unattempted, attempted, cleanupStarted, doomed, order>>
    BY <1>2 DEF HumanActs, ReviewedTupleMoves
  <2>1. Beside(r)
    BY <2>0 DEF Beside, TypeOK
  <2> QED BY <1>0, <2>1, BesideOutcome
<1>3. ASSUME NEW q \in Run, Kill(q) PROVE Outcome(r)'
  <2>1. CASE q = r
    BY <1>0, <1>3, <2>1, KillOutcome
  <2>2. CASE q # r
    <3>1. Beside(r)
      BY <1>3, <2>2 DEF Kill, Fault, Goto, Beside, TypeOK
    <3> QED BY <1>0, <3>1, BesideOutcome
  <2> QED BY <2>1, <2>2
<1> QED BY <1>1, <1>2, <1>3 DEF Next, Environment

(* The outcome invariant holds however many jobs overlap, fail or are killed. *)
THEOREM OutcomeInvariant == Spec => []OutcomeInv
BY TypeCorrect, StandingInvariant, InitOutcome, StepOutcome, PTL DEF Spec

(* A job that stopped before publishing or cleaning up left at most one note  *)
(* behind per provider fault, whatever other jobs did meanwhile.              *)
THEOREM LeftoversExplained == Spec => []LeftoversExplainedByFaults
<1>1. TypeOK /\ OutcomeInv => LeftoversExplainedByFaults
  <2> SUFFICES ASSUME TypeOK, OutcomeInv, NEW r \in Run, pc[r] = "stopped", attempted[r] = {},
                      ~cleanupStarted[r]
               PROVE  Cardinality(notes \cap IdsOf(r)) <= faults
    BY DEF LeftoversExplainedByFaults
  <2>1. Leftover(r) = notes \cap IdsOf(r)
    BY DEF Leftover, Known, Ended
  <2> QED BY <2>1 DEF OutcomeInv, Outcome, Tally
<1> QED BY <1>1, TypeCorrect, OutcomeInvariant, PTL

(* No job repeats a finding whose thread a person owned when it looked.       *)
THEOREM SuppressedStayUnrepeated == Spec => []SuppressedNotRepeated
<1>1. OutcomeInv => SuppressedNotRepeated
  BY DEF OutcomeInv, Outcome, Unrepeated, SuppressedNotRepeated, Barred, Suppressed, Unplanned, Early
<1> QED BY <1>1, OutcomeInvariant, PTL

(* A filtered review publishes nothing the standing review still shows.       *)
THEOREM FilteredStayUnrepeated == Spec => []FilteredAddsNoDuplicate
<1>1. TypeOK /\ StandingInv /\ OutcomeInv => FilteredAddsNoDuplicate
  <2> SUFFICES ASSUME TypeOK, StandingInv, OutcomeInv, NEW r \in Run, NEW i \in Inline,
                      conf[r].kind = "filtered", Live(Old, i) \in notes
               PROVE  /\ Live(r, i) \notin notes
                      /\ pc[r] \in Running \ Unplanned => i \notin fallback[r]
    BY DEF FilteredAddsNoDuplicate, Unplanned, Early
  <2>1. Outcome(r) /\ Mine(r)
    BY MineFacts DEF OutcomeInv
  <2>2. order[r] > 0 => i \in Barred(r)
    <3> SUFFICES ASSUME order[r] > 0 PROVE i \in Barred(r)
      OBVIOUS
    <3>1. Live(Old, i) \in SeenInline(r) /\ Live(Old, i)[3] = i
      BY <2>1, IdParts DEF Outcome, OldSeen, SeenInline
    <3> QED BY <3>1 DEF Barred
  <2>3. Live(r, i) \in notes => order[r] > 0 /\ pc[r] \notin Unplanned
    <3> SUFFICES ASSUME Live(r, i) \in notes PROVE order[r] > 0 /\ pc[r] \notin Unplanned
      OBVIOUS
    <3>1. Live(r, i) \in IdsOf(r) /\ Live(r, i)[2] = r
      BY IdParts DEF IdsOf, TypeOK
    <3> QED BY <2>1, <3>1 DEF StandingInv, SeenEarlier, Outcome, Unrepeated
  <2>4. pc[r] \in Running \ Unplanned => order[r] > 0
    BY <2>1 DEF Mine, Unplanned
  <2> QED BY <2>1, <2>2, <2>3, <2>4 DEF Outcome, Unrepeated
<1> QED BY <1>1, TypeCorrect, StandingInvariant, OutcomeInvariant, PTL

-----------------------------------------------------------------------------
(* Everything a step of a job removes: a draft it publishes, a note of the    *)
(* replaced review, a note it takes back.                                     *)
LEMMA Removals ==
  ASSUME TypeOK, StandingInv, NEW q \in Run, Job(q), NEW id \in notes \ notes'
  PROVE  \/ id \in unattempted[q] /\ id[1] = "draft" /\ Live(id[2], id[3]) \in notes'
         \/ id \in Replaced(q) /\ pc[q] = "cleanup" /\ BeginCleanup(q) /\ UNCHANGED order
         \/ id \in doomed[q]
<1> USE DEF provider, plan, snapshot, drafts, history
<1>1. CASE \E n \in unattempted[q] : PublishDraft(q, n)
  <2>1. \A n \in unattempted[q] : n[1] = "draft"
    BY MineFacts DEF Mine
  <2> QED BY <1>1, <2>1 DEF PublishDraft
<1>2. CASE \E n \in replaceable[q] : DeletePrevious(q, n)
  BY <1>2 DEF DeletePrevious, DeleteAnswer, Due
<1>3. CASE \E n \in doomed[q] : UndoOne(q, n)
  BY <1>3 DEF UndoOne, DeleteAnswer
<1>4. CASE notes \subseteq notes'
  BY <1>4
<1> QED BY <1>1, <1>2, <1>3, <1>4
        DEF Job, Start, SnapshotPlain, SnapshotThreads, SnapshotDrafts, SnapshotFails, Plan,
            CheckPasses, CheckFails, SkipInline, PostInline, PostPlain, PublishDone,
            ApprovalUnsynchronized, ApprovalNotNeeded, Approve, AmendSummary, ResolveDiscussion,
            Finish, UndoDone

LEMMA ReplacedSeen ==
  ASSUME TypeOK, StandingInv, NEW q \in Run
  PROVE  Replaced(q) \subseteq replaceable[q] /\ replaceable[q] \subseteq baseline[q]
BY DEF Replaced, StandingInv, SeenEarlier

(* Nothing else removes a note.                                               *)
LEMMA OnlyJobsRemove ==
  ASSUME [Next]_vars, notes # notes'
  PROVE  \E q \in Run : Job(q)
BY DEF Next, Environment, HumanActs, ReviewedTupleMoves, Kill, vars, provider

(* No job deletes a thread that its own snapshot saw a person own.            *)
OwnSurvives(r) == Job(r) => preserved[r] \cap notes \subseteq notes'
LEMMA OwnJobSpares ==
  ASSUME TypeOK, StandingInv, OutcomeInv, NEW r \in Run
  PROVE  OwnSurvives(r)
<1> SUFFICES ASSUME Job(r), NEW id \in preserved[r], id \in notes, id \notin notes'
             PROVE  FALSE
  BY DEF OwnSurvives
<1>1. Sorted(r) /\ Mine(r)
  BY MineFacts DEF OutcomeInv, Outcome
<1>2. id[1] = "live" /\ id[2] # r /\ id \notin replaceable[r]
  BY <1>1, OwnUnseen DEF Sorted
<1>3. \A n \in doomed[r] : n[2] = r
  BY <1>1 DEF Mine
<1> QED BY <1>2, <1>3, Removals, ReplacedSeen

THEOREM OwnJobSparesPeople == Spec => [][\A r \in Run : OwnSurvives(r)]_vars
<1>1. TypeOK /\ StandingInv /\ OutcomeInv /\ [Next]_vars => [\A r \in Run : OwnSurvives(r)]_vars
  BY OwnJobSpares
<1> QED BY <1>1, TypeCorrect, StandingInvariant, OutcomeInvariant, PTL DEF Spec

(* With one job on the merge request nobody does.                             *)
THEOREM PeopleKeepThreads ==
  ASSUME NEW only, Run = {only}
  PROVE  Spec => HumanOwnedSurvives
<1>1. TypeOK /\ StandingInv /\ OutcomeInv /\ [Next]_vars
        => [\A r \in Run : preserved[r] \cap notes \subseteq notes']_vars
  BY OwnJobSpares, OnlyJobsRemove DEF OwnSurvives
<1>2. Spec => [][\A r \in Run : preserved[r] \cap notes \subseteq notes']_vars
  BY <1>1, TypeCorrect, StandingInvariant, OutcomeInvariant, PTL DEF Spec
<1> QED BY <1>2 DEF HumanOwnedSurvives

(* A draft whose publication was attempted goes only when a review with a      *)
(* later snapshot replaces it.                                                *)
KeptOrReplaced(r) ==
  conf[r].identity => \A id \in attempted[r] :
    id \in notes /\ id \notin notes' => Live(id[2], id[3]) \in notes' \/ Superseded(r)'

LEMMA StepKeepsAttempted ==
  ASSUME TypeOK, StandingInv, OutcomeInv, [Next]_vars, NEW r \in Run
  PROVE  KeptOrReplaced(r)
<1> SUFFICES ASSUME conf[r].identity, NEW id \in attempted[r], id \in notes, id \notin notes',
                    Live(id[2], id[3]) \notin notes'
             PROVE  Superseded(r)'
  BY DEF KeptOrReplaced
<1>1. PICK q \in Run : Job(q)
  BY OnlyJobsRemove
<1>2. Mine(r) /\ Mine(q) /\ Retained(r) /\ id[2] = r /\ order[r] > 0
  BY MineFacts DEF OutcomeInv, Outcome, Mine
<1>3. id \notin doomed[q]
  BY <1>2 DEF Retained, Mine
<1>4. id \in replaceable[q] /\ pc[q] = "cleanup" /\ BeginCleanup(q) /\ UNCHANGED order
  BY <1>1, <1>3, Removals, ReplacedSeen
<1>5. id \in baseline[q]
  BY <1>4, ReplacedSeen
<1>6. q # r
  BY <1>2, <1>5, OwnUnseen
<1>7. \A x \in Run : order[x] \in Nat
  BY DEF TypeOK
<1>8. order[q] > 0
  BY <1>2, <1>4 DEF Mine, Running, Early
<1>9. order[r] < order[q]
  BY <1>2, <1>5, <1>7, <1>8 DEF StandingInv, SeenEarlier
<1>10. leader' \in Run /\ order[q] <= order[leader']
  BY <1>4, <1>7, PostingAssumption DEF BeginCleanup, TypeOK, Author
<1> QED BY <1>4, <1>7, <1>9, <1>10 DEF Superseded

THEOREM AttemptedKeptOrReplaced == Spec => [][\A r \in Run : KeptOrReplaced(r)]_vars
<1>1. TypeOK /\ StandingInv /\ OutcomeInv /\ [Next]_vars => [\A r \in Run : KeptOrReplaced(r)]_vars
  BY StepKeepsAttempted
<1> QED BY <1>1, TypeCorrect, StandingInvariant, OutcomeInvariant, PTL DEF Spec

(* With one job there is no later review.                                     *)
LEMMA NoOtherReview ==
  ASSUME NEW only, Run = {only}, TypeOK, NEW r \in Run
  PROVE  ~Superseded(r)
BY DEF Superseded, TypeOK

THEOREM AttemptedStay ==
  ASSUME NEW only, Run = {only}
  PROVE  Spec => AttemptedDraftRetained
<1>1. TypeOK /\ TypeOK' /\ StandingInv /\ OutcomeInv /\ [Next]_vars
        => [\A r \in Run : conf[r].identity => \A id \in attempted[r] :
              id \in notes /\ id \notin notes' => Live(id[2], id[3]) \in notes']_vars
  <2> SUFFICES ASSUME TypeOK, TypeOK', StandingInv, OutcomeInv, [Next]_vars, NEW r \in Run
               PROVE  conf[r].identity => \A id \in attempted[r] :
                        id \in notes /\ id \notin notes' => Live(id[2], id[3]) \in notes'
    OBVIOUS
  <2>1. ~Superseded(r)'
    BY DEF Superseded, TypeOK
  <2> QED BY <2>1, StepKeepsAttempted DEF KeptOrReplaced
<1>2. Spec => [][\A r \in Run : conf[r].identity => \A id \in attempted[r] :
              id \in notes /\ id \notin notes' => Live(id[2], id[3]) \in notes']_vars
  BY <1>1, TypeCorrect, StandingInvariant, OutcomeInvariant, PTL DEF Spec
<1> QED BY <1>2 DEF AttemptedDraftRetained

-----------------------------------------------------------------------------
(* From publication on every note a job confirmed is the visible one.         *)
LEMMA AllVisible ==
  ASSUME TypeOK, StandingInv, NEW r \in Run, pc[r] \in Complete, ~Superseded(r)
  PROVE  Posted(r) \subseteq notes /\ "summary" \in Confirmed(r)
<1>1. Mine(r)
  BY MineFacts
<1>2. ASSUME NEW id \in transaction[r] PROVE Live(id[2], id[3]) \in notes
  <2>1. Place(r, id) \in notes
    BY <1>1 DEF Mine
  <2>2. conf[r].draft => id \in attempted[r]
    BY <1>1 DEF Mine
  <2>3. ~conf[r].draft => id = Live(id[2], id[3])
    BY <1>1, IdParts DEF Mine, TypeOK
  <2> QED BY <2>1, <2>2, <2>3 DEF Place
<1> QED BY <1>1, <1>2 DEF Posted, Mine

(* An approval is sent over a complete and visible review, or over one that a *)
(* later review is already replacing.                                         *)
ApprovedWhole(r) == Stands(r) \/ Superseded(r)

LEMMA StepApproves ==
  ASSUME TypeOK, StandingInv, [Next]_vars, NEW r \in approved' \ approved
  PROVE  r \in Run /\ ApprovedWhole(r)
<1>1. PICK q \in Run : Approve(q) /\ r = q
  <2> USE DEF provider, plan, snapshot, drafts, history, vars
  <2>1. CASE Environment \/ UNCHANGED vars
    BY <2>1 DEF Environment, HumanActs, ReviewedTupleMoves, Kill
  <2>2. ASSUME NEW q \in Run, Job(q) PROVE Approve(q) /\ r = q
    <3>1. CASE Approve(q)
      BY <3>1 DEF Approve
    <3> QED BY <2>2, <3>1
        DEF Job, Start, SnapshotPlain, SnapshotThreads, SnapshotDrafts, SnapshotFails, Plan,
            CheckPasses, CheckFails, SkipInline, PostInline, PostPlain, PublishDraft, PublishDone,
            ApprovalUnsynchronized, ApprovalNotNeeded, AmendSummary, DeletePrevious,
            ResolveDiscussion, Finish, UndoOne, UndoDone
  <2> QED BY <2>1, <2>2 DEF Next
<1>2. r \in Run /\ pc[r] \in Complete /\ r # Old
  BY <1>1, PostingAssumption DEF Approve, Complete
<1> QED BY <1>2, AllVisible DEF ApprovedWhole, Stands

THEOREM ApprovalOverWholeReview == Spec => [][\A r \in approved' \ approved : ApprovedWhole(r)]_vars
<1>1. TypeOK /\ StandingInv /\ [Next]_vars => [\A r \in approved' \ approved : ApprovedWhole(r)]_vars
  BY StepApproves
<1> QED BY <1>1, TypeCorrect, StandingInvariant, PTL DEF Spec

THEOREM ApprovalFollowsPublication ==
  ASSUME NEW only, Run = {only}
  PROVE  Spec => ApprovalAfterPublication
<1>1. TypeOK /\ StandingInv /\ [Next]_vars => [\A r \in approved' \ approved : Stands(r)]_vars
  BY StepApproves, NoOtherReview DEF ApprovedWhole
<1>2. Spec => [][\A r \in approved' \ approved : Stands(r)]_vars
  BY <1>1, TypeCorrect, StandingInvariant, PTL DEF Spec
<1> QED BY <1>2 DEF ApprovalAfterPublication

-----------------------------------------------------------------------------
(* A reported replacement happened: of the review that stood before, only what *)
(* people owned is left, and the new one is whole or is being replaced itself. *)
ReallyReplaced(r) ==
  pc[r] = "replaced" /\ conf[r].identity /\ conf[r].kind = "complete" =>
    /\ \A id \in baseline[r] \ preserved[r] : id[2] = Old => id \notin notes
    /\ Superseded(r) \/ Posted(r) \subseteq notes

LEMMA RealReplacement ==
  ASSUME TypeOK, StandingInv, OutcomeInv, NEW r \in Run
  PROVE  ReallyReplaced(r)
<1>1. Gone(r)
  BY DEF OutcomeInv, Outcome
<1>2. pc[r] = "replaced" /\ conf[r].kind = "complete" => replaceable[r] = {}
  BY <1>1 DEF Gone, Replaced
<1> QED BY <1>1, <1>2, AllVisible DEF ReallyReplaced, Gone, Complete

THEOREM ReplacementIsReal == Spec => [](\A r \in Run : ReallyReplaced(r))
<1>1. TypeOK /\ StandingInv /\ OutcomeInv => \A r \in Run : ReallyReplaced(r)
  BY RealReplacement
<1> QED BY <1>1, TypeCorrect, StandingInvariant, OutcomeInvariant, PTL

(* One job at a time: neither of its outcomes lies.                           *)
THEOREM OutcomesTrue ==
  ASSUME NEW only, Run = {only}
  PROVE  Spec => []OutcomeIsTrue
<1>1. TypeOK /\ StandingInv /\ OutcomeInv => SuccessMeansReplaced
  <2> SUFFICES ASSUME TypeOK, StandingInv, OutcomeInv, NEW r \in Run, pc[r] = "replaced",
                      conf[r].identity, conf[r].kind = "complete"
               PROVE  /\ (baseline[r] \ preserved[r]) \cap notes = {}
                      /\ Posted(r) \subseteq notes
    BY DEF SuccessMeansReplaced
  <2>1. ReallyReplaced(r) /\ ~Superseded(r)
    BY RealReplacement, NoOtherReview
  <2>2. \A id \in baseline[r] : id[2] = Old
    BY OwnUnseen, IdFacts DEF TypeOK, Author
  <2> QED BY <2>1, <2>2 DEF ReallyReplaced
<1>2. TypeOK /\ StandingInv /\ OutcomeInv /\ LeftoversExplainedByFaults => OutcomeIsTrue
  BY <1>1 DEF OutcomeIsTrue
<1> QED BY <1>2, TypeCorrect, StandingInvariant, OutcomeInvariant, LeftoversExplained, PTL

(* One job at a time: what it counts on being kept is kept.                   *)
SparedBy(r) ==
  /\ preserved[r] \subseteq notes
  /\ conf[r].kind = "filtered" => SeenInline(r) \subseteq notes

LEMMA SparedStays ==
  ASSUME TypeOK, StandingInv, OutcomeInv, NEW r \in Run, SparedBy(r), Job(r)
  PROVE  SparedBy(r)'
<1> USE DEF provider, plan, snapshot, drafts, history
<1>0. Sorted(r) /\ Mine(r)
  BY MineFacts DEF OutcomeInv, Outcome
<1>1. CASE Start(r)
  <2>1. baseline'[r] = {} /\ UNCHANGED <<preserved, notes>>
    BY <1>0, <1>1 DEF Start, Sorted
  <2> QED BY <2>1 DEF SparedBy, SeenInline
<1>2. CASE SnapshotPlain(r) \/ SnapshotThreads(r) \/ SnapshotDrafts(r)
  <2>1. /\ UNCHANGED notes /\ conf' = conf
        /\ preserved'[r] \subseteq preserved[r] \cup notes
        /\ baseline'[r] \subseteq baseline[r] \cup notes
    BY <1>2 DEF SnapshotPlain, SnapshotThreads, SnapshotDrafts, SeenNotes, TypeOK
  <2> QED BY <2>1 DEF SparedBy, SeenInline
<1>3. CASE UNCHANGED <<conf, baseline, preserved>>
  <2>1. SeenInline(r)' = SeenInline(r)
    BY <1>3 DEF SeenInline
  <2>2. \A id \in preserved[r] \cup SeenInline(r) : id[1] = "live" /\ id[2] # r
    BY <1>0, OwnUnseen DEF Sorted, SeenInline
  <2>3. \A id \in doomed[r] : id[2] = r
    BY <1>0 DEF Mine
  <2>4. \A id \in Replaced(r) : id \notin preserved[r]
    BY <1>0 DEF Replaced, Sorted
  <2>5. conf[r].kind = "filtered" => \A id \in Replaced(r) : id \notin SeenInline(r)
    BY PostingAssumption DEF Replaced, SeenInline, Plain
  <2> QED BY <1>3, <2>1, <2>2, <2>3, <2>4, <2>5, Removals DEF SparedBy
<1> QED BY <1>1, <1>2, <1>3
        DEF Job, SnapshotFails, Plan, CheckPasses, CheckFails, SkipInline, PostInline, PostPlain,
            PublishDraft, PublishDone, ApprovalUnsynchronized, ApprovalNotNeeded, Approve,
            AmendSummary, DeletePrevious, ResolveDiscussion, Finish, UndoOne, UndoDone

THEOREM KeptStays ==
  ASSUME NEW only, Run = {only}
  PROVE  Spec => []Spared
<1>1. Init => Spared
  BY DEF Init, Spared, SeenInline
<1>2. TypeOK /\ StandingInv /\ OutcomeInv /\ Spared /\ [Next]_vars => Spared'
  <2> SUFFICES ASSUME TypeOK, StandingInv, OutcomeInv, Spared, [Next]_vars, NEW r \in Run
               PROVE  SparedBy(r)'
    BY DEF Spared, SparedBy
  <2>1. SparedBy(r)
    BY DEF Spared, SparedBy
  <2>2. CASE Job(r)
    BY <2>1, <2>2, SparedStays
  <2>3. CASE UNCHANGED <<notes, preserved, baseline, conf>>
    BY <2>1, <2>3 DEF SparedBy, SeenInline
  <2> QED BY <2>2, <2>3
          DEF Next, Environment, HumanActs, ReviewedTupleMoves, Kill, vars, provider, plan, snapshot
<1> QED BY <1>1, <1>2, TypeCorrect, StandingInvariant, OutcomeInvariant, PTL DEF Spec

(* Every finding of a review reported as published is on the merge request.   *)
LEMMA FoundIsVisible ==
  ASSUME NEW only, Run = {only}, TypeOK, StandingInv, OutcomeInv, Spared,
         NEW r \in Run, pc[r] = "replaced", NEW i \in found[r]
  PROVE  Visible(r, i)
<1>1. Outcome(r) /\ Mine(r) /\ Posted(r) \subseteq notes
  BY MineFacts, AllVisible, NoOtherReview DEF OutcomeInv, Complete
<1>2. \A item \in Confirmed(r) : Live(r, item) \in notes
  BY <1>1 DEF Confirmed, Posted, Mine
<1>3. CASE i \in fallback[r] \cup omitted[r] \cup Confirmed(r)
  <2>1. /\ fallback[r] # {} => "fallback" \in Confirmed(r)
        /\ omitted[r] # {} => "omitted" \in Confirmed(r)
    BY <1>1 DEF Outcome, Accounted, Complete
  <2> QED BY <1>2, <1>3, <2>1, RunFacts DEF Visible
<1>4. ASSUME NEW id \in notes, id[1] = "live", id[3] = i PROVE Visible(r, i)
  <2>1. id \in Id /\ id = Live(id[2], i) /\ id[2] \in Author
    BY <1>4, IdParts, IdFacts DEF TypeOK
  <2> QED BY <1>4, <2>1 DEF Visible
<1>5. CASE i \in Suppressed(r)
  <2>1. PICK id \in preserved[r] : id[3] = i
    BY <1>5 DEF Suppressed
  <2>2. id \in notes /\ id[1] = "live"
    BY <1>1, <2>1 DEF Spared, Outcome, Sorted
  <2> QED BY <1>4, <2>1, <2>2
<1>6. CASE conf[r].kind = "filtered" /\ i \in PublishedBefore(r)
  <2>1. \A x \in Run : Live(x, "fallback") \notin baseline[r]
    BY OwnUnseen, IdParts
  <2>2. i \in {b[3] : b \in SeenInline(r)}
    BY <1>6, <2>1 DEF PublishedBefore, SeenInline
  <2>3. PICK id \in SeenInline(r) : id[3] = i
    BY <2>2
  <2> QED BY <1>4, <1>6, <2>3 DEF Spared, SeenInline
<1> QED BY <1>1, <1>3, <1>5, <1>6 DEF Outcome, Accounted, Going, Complete

THEOREM FindingsStayVisible ==
  ASSUME NEW only, Run = {only}
  PROVE  Spec => []FindingsShownOnce
<1>1. TypeOK /\ StandingInv /\ OutcomeInv /\ Spared => NoFindingLost
  BY FoundIsVisible DEF NoFindingLost
<1> QED BY <1>1, TypeCorrect, StandingInvariant, OutcomeInvariant, KeptStays,
           SuppressedStayUnrepeated, FilteredStayUnrepeated, PTL DEF FindingsShownOnce
=============================================================================
