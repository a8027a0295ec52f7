---------------------------- MODULE ForgeProofs ----------------------------
(***************************************************************************)
(* Proofs about the GitLab side of posting: StatusNotes and GitLabClient,   *)
(* for any number of jobs, notes, pages, faults and attempts.               *)
(***************************************************************************)
EXTENDS PartsInvariant, FiniteSetTheorems, SequenceTheorems, TLAPS

-----------------------------------------------------------------------------
(* Types                                                                     *)

Steps == Early \cup Late \cup TerminalSteps \cup {"done"}
StepTypes == step \in [StatusJob -> Steps] /\ statusExit \in [StatusJob -> {-1, 0, 1}]

LEMMA StepMoves ==
  ASSUME StepTypes, NEW j \in StatusJob
  PROVE  /\ \A where \in Steps : Move(j, where) => StepTypes'
         /\ \A code \in {0, 1} : Leave(j, code) => StepTypes'
         /\ StatusStale(j) => StepTypes'
         /\ StrictExit(j) \in {0, 1}
<1>1. "done" \in Steps /\ "undo" \in Steps /\ 1 \in {0, 1}
  BY DEF Steps, Late
<1>2. \A where \in Steps : Move(j, where) => StepTypes'
  BY DEF StepTypes, Move
<1>3. \A code \in {0, 1} : Leave(j, code) => StepTypes'
  BY <1>1 DEF StepTypes, Leave
<1>4. StatusStale(j) => StepTypes'
  <2>1. CASE Leave(j, 1)
    BY <1>1, <1>3, <2>1
  <2>2. CASE step' = [step EXCEPT ![j] = "undo"] /\ statusExit' = [statusExit EXCEPT ![j] = 1]
    BY <1>1, <2>2 DEF StepTypes
  <2> QED
    BY <2>1, <2>2 DEF StatusStale
<1> QED
  BY <1>2, <1>3, <1>4 DEF StrictExit

(* A fault is counted, and whatever is not answered "ok" is one.             *)
LEMMA FaultsAdd ==
  ASSUME statusFaults \in Nat
  PROVE  /\ StatusFault => statusFaults' \in Nat /\ statusFaults' # 0
         /\ \A a : StatusReply(a) =>
              statusFaults' \in Nat /\ (statusFaults' = 0 => statusFaults = 0 /\ a = "ok")
BY DEF StatusFault, StatusReply

LEMMA StatusTypeStep ==
  ASSUME StatusAssumption, StatusTypes, NEW j \in StatusJob, StatusStart(j) \/ StatusJobStep(j)
  PROVE  StatusTypes'
<1> USE DEF mergeRequest, statusHistory
<1>1. /\ StepTypes /\ statusFaults \in Nat /\ statusPlan[j] \in StatusPlan
      /\ noteBoard \subseteq StatusNote /\ listed[j] \subseteq StatusNote /\ ownNote[j] \subseteq StatusNote
  BY DEF StatusTypes, StepTypes, Steps
<1>2. Created(j) \in StatusNote /\ \A n \in StatusNote : Visible(n) \in StatusNote
  BY DEF Created, Visible, StatusNote
<1>3. ASSUME StepTypes', statusFaults' \in Nat,
             UNCHANGED <<noteBoard, mergeRequest, statusPlan, ownNote, listed, inCleanup, upserted,
                         lateWrites>>,
             overlapped' \in BOOLEAN
      PROVE  StatusTypes'
  BY <1>3 DEF StatusTypes, StepTypes, Steps
<1>4. CASE StatusStart(j)
  <2>1. StepTypes'
    BY <1>1, <1>4, StepMoves DEF StatusStart, Steps, Early, TerminalSteps
  <2> QED
    BY <1>1, <1>3, <1>4, <2>1 DEF StatusStart
<1>5. CASE StatusCheck(j)
  <2>1. StatusCurrent(j) => AfterCheck(j) \in Steps
    BY <1>5 DEF StatusCheck, AfterCheck, Steps, Early, Late
  <2>2. StepTypes'
    BY <1>1, <1>5, <2>1, StepMoves DEF StatusCheck
  <2>3. statusFaults' \in Nat
    BY <1>1, <1>5, FaultsAdd DEF StatusCheck
  <2> QED
    BY <1>3, <1>5, <2>2, <2>3 DEF StatusCheck, StatusTypes
<1>6. CASE VerifyNoModelCoverage(j) \/ StatusLifecycle(j) \/ StatusPosted(j) \/ TerminalLifecycle(j)
           \/ TerminalExit(j)
  <2>1. StepTypes'
    BY <1>1, <1>6, StepMoves DEF VerifyNoModelCoverage, StatusLifecycle, StatusPosted,
       TerminalLifecycle, TerminalExit, Steps, Early, TerminalSteps
  <2>2. statusFaults' \in Nat
    BY <1>1, <1>6, FaultsAdd DEF VerifyNoModelCoverage, StatusLifecycle, StatusPosted,
       TerminalLifecycle, TerminalExit
  <2> QED
    BY <1>3, <1>6, <2>1, <2>2 DEF VerifyNoModelCoverage, StatusLifecycle, StatusPosted,
       TerminalLifecycle, TerminalExit, StatusTypes
<1>7. CASE CollectPrevious(j) \/ CollectTerminal(j)
  <2>1. StepTypes'
    BY <1>1, <1>7, StepMoves DEF CollectPrevious, CollectTerminal, Steps, Early, TerminalSteps
  <2>2. statusFaults' \in Nat
    BY <1>1, <1>7, FaultsAdd DEF CollectPrevious, CollectTerminal
  <2>3. Replaceable(j) \subseteq StatusNote /\ TerminalNotes(j) \subseteq StatusNote
    BY <1>1 DEF Replaceable, TerminalNotes
  <2>4. listed' \in [StatusJob -> SUBSET StatusNote]
    BY <1>7, <2>3 DEF CollectPrevious, CollectTerminal, StatusTypes
  <2>5. UNCHANGED <<noteBoard, mergeRequest, statusPlan, ownNote, inCleanup, upserted, statusHistory>>
    BY <1>7 DEF CollectPrevious, CollectTerminal
  <2> QED
    BY <2>1, <2>2, <2>4, <2>5 DEF StatusTypes, StepTypes, Steps
<1>8. StatusWrite(j) => lateWrites' \in [StatusJob -> Nat]
  BY DEF StatusWrite, StatusTypes
<1>9. CASE PostStatusNote(j)
  <2>1. PICK a \in {"ok", "lost", "rejected"} :
          /\ StatusReply(a)
          /\ noteBoard' = IF a = "rejected" THEN noteBoard ELSE noteBoard \cup {Created(j)}
          /\ IF a = "ok" THEN /\ ownNote' = [ownNote EXCEPT ![j] = {Created(j)}]
                              /\ Move(j, AfterPost(j))
                         ELSE UNCHANGED ownNote /\ Leave(j, StrictExit(j))
    BY <1>9 DEF PostStatusNote
  <2>2. StepTypes' /\ statusFaults' \in Nat
    BY <1>1, <2>1, StepMoves, FaultsAdd DEF AfterPost, Steps, Late
  <2>3. noteBoard' \subseteq StatusNote /\ ownNote' \in [StatusJob -> SUBSET StatusNote]
    BY <1>1, <1>2, <2>1 DEF StatusTypes
  <2> QED
    BY <1>8, <1>9, <2>2, <2>3 DEF PostStatusNote, StatusTypes, StepTypes, Steps
<1>10. CASE PublishStatusNote(j)
  <2>1. PICK a \in {"ok", "lost", "rejected"}, n \in ownNote[j] :
          /\ IF n \in noteBoard THEN StatusReply(a) ELSE a = "rejected" /\ UNCHANGED statusFaults
          /\ noteBoard' = IF a = "rejected" THEN noteBoard ELSE (noteBoard \ {n}) \cup {Visible(n)}
          /\ IF a = "ok" THEN Move(j, "prune") ELSE Leave(j, 1)
    BY <1>10 DEF PublishStatusNote
  <2>2. StepTypes' /\ statusFaults' \in Nat
    BY <1>1, <2>1, StepMoves, FaultsAdd DEF Steps, Late
  <2>3. noteBoard' \subseteq StatusNote
    BY <1>1, <1>2, <2>1
  <2> QED
    BY <1>8, <1>10, <2>2, <2>3 DEF PublishStatusNote, StatusTypes, StepTypes, Steps
<1>11. ASSUME NEW n \in listed[j], DeleteSetupNote(j, n) PROVE StatusTypes'
  <2>1. PICK a \in {"ok", "lost", "rejected"} :
          /\ IF n \in noteBoard THEN StatusReply(a) ELSE a = "rejected" /\ UNCHANGED statusFaults
          /\ noteBoard' = IF a = "rejected" THEN noteBoard ELSE noteBoard \ {n}
          /\ IF a = "ok" THEN Move(j, "prune") ELSE Leave(j, 1)
    BY <1>11 DEF DeleteSetupNote
  <2>2. StepTypes' /\ statusFaults' \in Nat
    BY <1>1, <2>1, StepMoves, FaultsAdd DEF Steps, Late
  <2>3. /\ noteBoard' \subseteq StatusNote /\ listed' \in [StatusJob -> SUBSET StatusNote]
        /\ inCleanup' \in [StatusJob -> BOOLEAN]
    BY <1>1, <1>11, <2>1 DEF DeleteSetupNote, StatusTypes
  <2> QED
    BY <1>8, <1>11, <2>2, <2>3 DEF DeleteSetupNote, StatusTypes, StepTypes, Steps
<1>12. CASE UndoStatusNote(j)
  <2>1. PICK a \in {"ok", "lost", "rejected"}, n \in ownNote[j] :
          /\ IF n \in noteBoard THEN StatusReply(a) ELSE a = "rejected" /\ UNCHANGED statusFaults
          /\ noteBoard' = IF a = "rejected" THEN noteBoard ELSE noteBoard \ {n}
    BY <1>12 DEF UndoStatusNote
  <2>2. StepTypes' /\ statusFaults' \in Nat
    BY <1>1, <1>12, <2>1, FaultsAdd DEF UndoStatusNote, StepTypes, Steps
  <2> QED
    BY <1>1, <1>12, <2>1, <2>2 DEF UndoStatusNote, StatusTypes, StepTypes, Steps
<1>13. CASE UpsertTerminal(j)
  <2> DEFINE n == IF listed[j] = {} THEN <<"live", j, "terminal">> ELSE CHOOSE m \in listed[j] : TRUE
  <2>1. n \in StatusNote
    BY <1>1 DEF StatusNote
  <2> HIDE DEF n
  <2>2. PICK a \in {"ok", "lost", "rejected"} :
          /\ StatusReply(a)
          /\ noteBoard' = IF a = "rejected" THEN noteBoard ELSE noteBoard \cup {n}
          /\ upserted' = [upserted EXCEPT ![j] = IF a = "ok" THEN {n} ELSE {}]
    BY <1>13 DEF UpsertTerminal, n
  <2>3. StepTypes' /\ statusFaults' \in Nat
    BY <1>1, <1>13, <2>2, StepMoves, FaultsAdd DEF UpsertTerminal, Steps, TerminalSteps
  <2>4. noteBoard' \subseteq StatusNote /\ upserted' \in [StatusJob -> SUBSET StatusNote]
    BY <1>1, <2>1, <2>2 DEF StatusTypes
  <2> QED
    BY <1>13, <2>3, <2>4 DEF UpsertTerminal, StatusTypes, StepTypes, Steps
<1>14. CASE ReadbackTerminal(j)
  <2>1. StepTypes' /\ statusFaults' \in Nat
    BY <1>1, <1>14, StepMoves, FaultsAdd DEF ReadbackTerminal, Steps, TerminalSteps
  <2>2. upserted' \in [StatusJob -> SUBSET StatusNote]
    BY <1>14 DEF ReadbackTerminal, StatusTypes
  <2> QED
    BY <1>14, <2>1, <2>2 DEF ReadbackTerminal, StatusTypes, StepTypes, Steps
<1> QED
  BY <1>4, <1>5, <1>6, <1>7, <1>9, <1>10, <1>11, <1>12, <1>13, <1>14 DEF StatusJobStep

-----------------------------------------------------------------------------
(* What a job's own step keeps of its invariant                              *)

(* A step that only reads: the job goes on, or gives up with 1.              *)
OnlyAsks(j) ==
  /\ UNCHANGED <<noteBoard, mergeRequest, statusPlan, ownNote, inCleanup, lateWrites>>
  /\ statusFaults' = 0 => statusFaults = 0
  /\ statusFaults' \in Nat

LEMMA GiveUp ==
  ASSUME StatusTypes, NEW j \in StatusJob, StatusJobInv(j), OnlyAsks(j), UNCHANGED <<listed, upserted>>,
         Leave(j, 1),
         ownNote[j] # {} => inCleanup[j] \/ Created(j) \notin noteBoard
  PROVE  StatusJobInv(j)'
<1>1. /\ step'[j] = "done" /\ statusExit'[j] = 1
  BY DEF Leave, StatusTypes
<1>2. StatusAsked(j)' /\ StatusListed(j)' /\ StatusLate(j)' /\ StatusStrict(j)' /\ StatusTaken(j)'
  <2>1. StatusAsked(j)'
    BY <1>1 DEF OnlyAsks, StatusJobInv, StatusAsked, Created, Early, Late, TerminalSteps
  <2>2. StatusListed(j)'
    BY <1>1 DEF OnlyAsks, StatusJobInv, MayList, StatusListed, Created, Early
  <2>3. StatusLate(j)'
    BY <1>1 DEF OnlyAsks, mergeRequest, StatusJobInv, StatusLate, GoneForGood, ExactPolicy
  <2>4. StatusStrict(j)'
    BY <1>1 DEF OnlyAsks, StatusJobInv, StatusStrict
  <2>5. StatusTaken(j)'
    BY <1>1 DEF OnlyAsks, StatusJobInv, StatusTaken, Created
  <2> QED
    BY <2>1, <2>2, <2>3, <2>4, <2>5
<1> QED
  BY <1>2 DEF StatusJobInv

(* Going on is safe wherever the new step fits what was asked.               *)
LEMMA StatusGoesOn ==
  ASSUME StatusTypes, NEW j \in StatusJob, StatusJobInv(j), OnlyAsks(j),
         NEW where \in Steps \ {"idle", "undo", "done"}, Move(j, where),
         where \in Early => step[j] \in Early,
         where \in Early \cup Late => statusPlan[j].reason \notin {"silent", "terminal"},
         where \in TerminalSteps => statusPlan[j].reason = "terminal" /\ step[j] \in TerminalSteps \cup {"idle"},
         where \in Late => step[j] \in Late,
         where = "publish" => statusPlan[j].draft,
         inCleanup[j] => where \in {"prune", "delete"},
         where \in {"post", "publish", "delete"} => ~GoneForGood(j),
         where \in {"prune", "delete"} => step[j] \in {"prune", "delete"},
         \A n \in listed'[j] : n \in listed[j] \/ n \in noteBoard,
         \A k \in StatusJob : k # j => listed'[k] = listed[k],
         \A n \in listed'[j] : MayList(j, n),
         statusPlan[j].reason \notin {"terminal", "setup"} => listed'[j] = {},
         \A n \in upserted'[j] : n \in noteBoard /\ n[1] = "live" /\ n[3] = "terminal"
  PROVE  StatusJobInv(j)'
<1>1. step'[j] = where
  BY DEF Move, StatusTypes
<1>2. StatusAsked(j)'
  BY <1>1 DEF OnlyAsks, StatusJobInv, StatusAsked, Created, Early, Late, TerminalSteps, Steps
<1>3. StatusListed(j)'
  BY <1>1 DEF OnlyAsks, StatusJobInv, MayList, StatusListed, Created, Early
<1>4. StatusLate(j)'
  BY <1>1 DEF OnlyAsks, mergeRequest, StatusJobInv, StatusLate, GoneForGood, ExactPolicy
<1>5. StatusStrict(j)'
  BY <1>1 DEF OnlyAsks, StatusStrict
<1>6. StatusTaken(j)'
  BY <1>1 DEF OnlyAsks, StatusTaken
<1> QED
  BY <1>2, <1>3, <1>4, <1>5, <1>6 DEF StatusJobInv

LEMMA StatusReads ==
  ASSUME StatusTypes, NEW j \in StatusJob, StatusJobInv(j),
         \/ StatusStart(j) \/ StatusCheck(j) \/ VerifyNoModelCoverage(j) \/ StatusLifecycle(j)
         \/ CollectPrevious(j) \/ TerminalLifecycle(j) \/ CollectTerminal(j) \/ ReadbackTerminal(j)
  PROVE  StatusJobInv(j)'
<1> USE DEF mergeRequest, statusHistory
<1>1. /\ OnlyAsks(j)
      /\ step[j] \in Steps /\ statusPlan[j] \in StatusPlan /\ statusFaults \in Nat
  <2>1. UNCHANGED <<noteBoard, mergeRequest, statusPlan, ownNote, inCleanup, lateWrites>>
    BY DEF StatusStart, StatusCheck, VerifyNoModelCoverage, StatusLifecycle, CollectPrevious,
       TerminalLifecycle, CollectTerminal, ReadbackTerminal
  <2>2. StatusFault \/ UNCHANGED statusFaults
    BY DEF StatusStart, StatusCheck, VerifyNoModelCoverage, StatusLifecycle, CollectPrevious,
       TerminalLifecycle, CollectTerminal, ReadbackTerminal
  <2>3. statusFaults \in Nat
    BY DEF StatusTypes
  <2> QED
    BY <2>1, <2>2, <2>3 DEF OnlyAsks, StatusFault, StatusTypes, Steps
<1>2. /\ \A n \in listed[j] : MayList(j, n)
      /\ statusPlan[j].reason \notin {"terminal", "setup"} => listed[j] = {}
      /\ \A n \in upserted[j] : n \in noteBoard /\ n[1] = "live" /\ n[3] = "terminal"
      /\ step[j] \in (Early \ {"idle"}) \cup Late => statusPlan[j].reason \notin {"silent", "terminal"}
      /\ step[j] \in TerminalSteps => statusPlan[j].reason = "terminal"
      /\ step[j] \in Early \cup TerminalSteps => ownNote[j] = {}
      /\ step[j] \in Late => ownNote[j] = {Created(j)}
      /\ inCleanup[j] => step[j] \in {"prune", "delete", "done"}
      /\ statusPlan[j].draft /\ (step[j] \in {"prune", "delete"} \/ inCleanup[j]) => Created(j) \notin noteBoard
  BY DEF StatusJobInv, StatusAsked, MayList, StatusListed, StatusStrict
<1>3. CASE StatusStart(j)
  <2>1. UNCHANGED <<listed, upserted>> /\ step[j] = "idle" /\ ~inCleanup[j] /\ ownNote[j] = {}
    BY <1>2, <1>3 DEF StatusStart, Early
  <2>2. CASE Leave(j, 1)
    BY <1>1, <2>1, <2>2, GiveUp
  <2>3. CASE statusPlan[j].reason = "terminal" /\ Move(j, "termLife")
    BY <1>1, <1>2, <2>1, <2>3, StatusGoesOn DEF Steps, Early, Late, TerminalSteps
  <2>4. CASE statusPlan[j].reason \notin {"terminal", "silent"} /\ Move(j, "fresh")
    BY <1>1, <1>2, <2>1, <2>4, StatusGoesOn DEF Steps, Early, Late, TerminalSteps
  <2> QED
    BY <1>3, <2>2, <2>3, <2>4 DEF StatusStart
<1>4. CASE StatusCheck(j)
  <2>1. UNCHANGED <<listed, upserted>> /\ step[j] \in {"fresh", "prepost", "final", "prune"}
    BY <1>4 DEF StatusCheck
  <2>2. CASE StatusCurrent(j) /\ Move(j, AfterCheck(j))
    <3>1. ~GoneForGood(j)
      BY <2>2 DEF StatusCurrent, GoneForGood
    <3>2. /\ AfterCheck(j) \in {"coverage", "lifecycle", "post", "publish", "prune", "delete"}
          /\ AfterCheck(j) \in {"coverage", "lifecycle"} => step[j] = "fresh"
          /\ AfterCheck(j) = "post" => step[j] = "prepost"
          /\ AfterCheck(j) = "publish" => step[j] = "final" /\ statusPlan[j].draft
          /\ AfterCheck(j) = "prune" => step[j] = "final"
          /\ AfterCheck(j) = "delete" => step[j] = "prune"
      BY <2>1 DEF AfterCheck
    <3>3. CASE AfterCheck(j) # "prune"
      BY <1>1, <1>2, <2>1, <2>2, <3>1, <3>2, <3>3, StatusGoesOn DEF Steps, Early, Late, TerminalSteps
    <3>4. CASE AfterCheck(j) = "prune"
      <4>1. step'[j] = "prune" /\ step[j] = "final" /\ ~statusPlan[j].draft
        BY <2>1, <2>2, <3>2, <3>4 DEF AfterCheck, Move, StatusTypes
      <4>2. StatusAsked(j)' /\ StatusListed(j)' /\ StatusLate(j)' /\ StatusStrict(j)' /\ StatusTaken(j)'
        <5>1. StatusAsked(j)'
          BY <1>1, <1>2, <4>1 DEF OnlyAsks, StatusJobInv, StatusAsked, Created, Early, Late, TerminalSteps
        <5>2. StatusListed(j)'
          BY <1>1, <1>2, <2>1, <4>1 DEF OnlyAsks, MayList, StatusListed, Early
        <5>3. StatusLate(j)'
          BY <1>1, <3>1, <4>1 DEF OnlyAsks, mergeRequest, StatusJobInv, StatusLate, GoneForGood, ExactPolicy
        <5> QED
          BY <1>1, <1>2, <2>1, <4>1, <5>1, <5>2, <5>3 DEF OnlyAsks, StatusStrict, StatusTaken
      <4> QED
        BY <4>2 DEF StatusJobInv
    <3> QED
      BY <3>3, <3>4
  <2>3. CASE StatusStale(j)
    <3>1. CASE ownNote[j] # {} /\ TakesBack(j)
      <4>1. step'[j] = "undo" /\ step[j] \in Late /\ ~inCleanup[j] /\ statusExit'[j] = 1
        BY <1>2, <2>1, <2>3, <3>1 DEF StatusStale, StatusTypes, TakesBack, Early, Late
      <4>2. StatusAsked(j)'
        BY <1>1, <1>2, <4>1 DEF OnlyAsks, StatusJobInv, StatusAsked, Created, Early, Late, TerminalSteps
      <4>3. StatusListed(j)'
        BY <1>1, <1>2, <2>1, <4>1 DEF OnlyAsks, MayList, StatusListed, Early
      <4>4. StatusLate(j)'
        BY <1>1, <4>1 DEF OnlyAsks, mergeRequest, StatusJobInv, StatusLate, GoneForGood, ExactPolicy
      <4>5. StatusStrict(j)' /\ StatusTaken(j)'
        BY <1>1, <1>2, <2>1, <4>1 DEF OnlyAsks, StatusStrict, StatusTaken
      <4> QED
        BY <4>2, <4>3, <4>4, <4>5 DEF StatusJobInv
    <3>2. CASE ~(ownNote[j] # {} /\ TakesBack(j))
      <4>1. Leave(j, 1)
        BY <2>3, <3>2 DEF StatusStale
      <4>2. ownNote[j] # {} => inCleanup[j] \/ Created(j) \notin noteBoard
        BY <1>2, <3>2 DEF TakesBack
      <4> QED
        BY <1>1, <2>1, <4>1, <4>2, GiveUp
    <3> QED
      BY <3>1, <3>2
  <2> QED
    BY <1>4, <2>2, <2>3 DEF StatusCheck
<1>5. CASE VerifyNoModelCoverage(j) \/ StatusLifecycle(j)
  <2>1. /\ UNCHANGED <<listed, upserted>>
        /\ step[j] \in {"coverage", "lifecycle"}
        /\ Move(j, "lifecycle") \/ Move(j, "collect") \/ Leave(j, 1)
    BY <1>5 DEF VerifyNoModelCoverage, StatusLifecycle
  <2>2. step[j] \in Early \ {"idle"} /\ ~inCleanup[j] /\ ownNote[j] = {}
    BY <1>2, <2>1 DEF Early
  <2>3. CASE Leave(j, 1)
    BY <1>1, <2>1, <2>2, <2>3, GiveUp
  <2>4. CASE Move(j, "lifecycle")
    BY <1>1, <1>2, <2>1, <2>2, <2>4, StatusGoesOn DEF Steps, Early, Late, TerminalSteps
  <2>5. CASE Move(j, "collect")
    BY <1>1, <1>2, <2>1, <2>2, <2>5, StatusGoesOn DEF Steps, Early, Late, TerminalSteps
  <2> QED
    BY <2>1, <2>3, <2>4, <2>5
<1>6. CASE CollectPrevious(j)
  <2>1. step[j] = "collect" /\ ~inCleanup[j] /\ ownNote[j] = {} /\ UNCHANGED upserted
    BY <1>2, <1>6 DEF CollectPrevious, Early
  <2>2. CASE Leave(j, 1) /\ UNCHANGED listed
    BY <1>1, <2>1, <2>2, GiveUp
  <2>3. CASE Move(j, "prepost") /\ listed' = [listed EXCEPT ![j] = Replaceable(j)]
    <3>1. /\ listed'[j] = Replaceable(j)
          /\ \A k \in StatusJob : k # j => listed'[k] = listed[k]
      BY <2>3 DEF StatusTypes
    <3>2. /\ \A n \in listed'[j] : n \in noteBoard /\ MayList(j, n)
          /\ statusPlan[j].reason # "setup" => listed'[j] = {}
      BY <1>2, <2>1, <3>1 DEF Replaceable, MayList, Early
    <3> QED
      BY <1>1, <1>2, <2>1, <2>3, <3>1, <3>2, StatusGoesOn DEF Steps, Early, Late, TerminalSteps
  <2> QED
    BY <1>6, <2>2, <2>3 DEF CollectPrevious
<1>7. CASE TerminalLifecycle(j)
  <2>1. step[j] = "termLife" /\ ~inCleanup[j] /\ ownNote[j] = {} /\ UNCHANGED <<listed, upserted>>
    BY <1>2, <1>7 DEF TerminalLifecycle, TerminalSteps
  <2>2. CASE Leave(j, 1)
    BY <1>1, <2>1, <2>2, GiveUp
  <2>3. CASE Move(j, "termList")
    BY <1>1, <1>2, <2>1, <2>3, StatusGoesOn DEF Steps, Early, Late, TerminalSteps
  <2> QED
    BY <1>7, <2>2, <2>3 DEF TerminalLifecycle
<1>8. CASE CollectTerminal(j)
  <2>1. step[j] = "termList" /\ ~inCleanup[j] /\ UNCHANGED upserted /\ statusPlan[j].reason = "terminal"
    BY <1>2, <1>8 DEF CollectTerminal, TerminalSteps
  <2>2. /\ \A n \in listed'[j] : (n \in noteBoard \/ n \in listed[j]) /\ MayList(j, n)
        /\ \A k \in StatusJob : k # j => listed'[k] = listed[k]
    <3>1. CASE UNCHANGED listed BY <1>2, <3>1
    <3>2. CASE listed' = [listed EXCEPT ![j] = TerminalNotes(j)]
      BY <2>1, <3>2 DEF MayList, TerminalNotes, StatusTypes
    <3> QED BY <1>8, <3>1, <3>2 DEF CollectTerminal
  <2>3. CASE Move(j, "termExit")
    BY <1>1, <1>2, <2>1, <2>2, <2>3, StatusGoesOn DEF Steps, Early, Late, TerminalSteps
  <2>4. CASE Move(j, "termWrite")
    BY <1>1, <1>2, <2>1, <2>2, <2>4, StatusGoesOn DEF Steps, Early, Late, TerminalSteps
  <2>5. CASE Leave(j, 1)
    <3>1. OnlyAsks(j) /\ ownNote[j] = {} /\ UNCHANGED listed
      BY <1>1, <1>2, <1>8, <2>1, <2>5 DEF CollectTerminal, Move, Leave, StatusTypes, TerminalSteps
    <3> QED BY <2>1, <2>5, <3>1, GiveUp
  <2> QED
    BY <1>8, <2>3, <2>4, <2>5 DEF CollectTerminal
<1>9. CASE ReadbackTerminal(j)
  <2>1. /\ step[j] = "termRead" /\ ~inCleanup[j] /\ UNCHANGED listed /\ Move(j, "termExit")
        /\ statusPlan[j].reason = "terminal" /\ upserted'[j] \subseteq upserted[j]
    BY <1>2, <1>9 DEF ReadbackTerminal, TerminalSteps, StatusTypes
  <2> QED
    BY <1>1, <1>2, <2>1, StatusGoesOn DEF Steps, Early, Late, TerminalSteps
<1> QED
  BY <1>3, <1>4, <1>5, <1>6, <1>7, <1>8, <1>9

(* After a write the merge request is where the write found it.              *)
LEMMA LateOnce ==
  ASSUME StatusTypes, NEW j \in StatusJob, StatusJobInv(j), step[j] \in {"post", "publish", "delete"},
         StatusWrite(j), UNCHANGED <<mergeRequest, statusPlan>>, step'[j] \notin {"post", "publish", "delete"}
  PROVE  StatusLate(j)'
<1>1. lateWrites[j] = 0
  BY DEF StatusJobInv, StatusLate
<1>2. lateWrites'[j] = IF GoneForGood(j) THEN 1 ELSE 0
  BY <1>1 DEF StatusWrite, StatusTypes
<1> QED
  BY <1>2 DEF StatusLate, GoneForGood, ExactPolicy, mergeRequest

LEMMA StatusWrites ==
  ASSUME StatusTypes, NEW j \in StatusJob, StatusJobInv(j),
         \/ PostStatusNote(j) \/ PublishStatusNote(j) \/ (\E n \in listed[j] : DeleteSetupNote(j, n))
         \/ StatusPosted(j) \/ UndoStatusNote(j) \/ UpsertTerminal(j) \/ TerminalExit(j)
  PROVE  StatusJobInv(j)'
<1> USE DEF mergeRequest, statusHistory
<1>1. /\ step[j] \in Steps /\ statusPlan[j] \in StatusPlan /\ statusFaults \in Nat
      /\ lateWrites[j] \in Nat /\ noteBoard \subseteq StatusNote /\ listed[j] \subseteq StatusNote
      /\ step \in [StatusJob -> Steps] /\ statusExit \in [StatusJob -> {-1, 0, 1}]
  BY DEF StatusTypes, Steps
<1>2. /\ \A n \in listed[j] : MayList(j, n)
      /\ statusPlan[j].reason \notin {"terminal", "setup"} => listed[j] = {}
      /\ \A n \in upserted[j] : n \in noteBoard /\ n[1] = "live" /\ n[3] = "terminal"
      /\ step[j] \in (Early \ {"idle"}) \cup Late => statusPlan[j].reason \notin {"silent", "terminal"}
      /\ step[j] \in TerminalSteps => statusPlan[j].reason = "terminal"
      /\ step[j] \in Early \cup TerminalSteps => ownNote[j] = {}
      /\ step[j] \in Late => ownNote[j] = {Created(j)}
      /\ step[j] = "publish" => statusPlan[j].draft
      /\ inCleanup[j] => step[j] \in {"prune", "delete", "done"}
      /\ statusPlan[j].draft /\ (step[j] \in {"prune", "delete"} \/ inCleanup[j]) => Created(j) \notin noteBoard
  BY DEF StatusJobInv, StatusAsked, MayList, StatusListed, StatusStrict
<1>3. /\ Created(j)[1] = (IF statusPlan[j].draft THEN "draft" ELSE "live")
      /\ Created(j)[3] \in {"setup", "advice"}
      /\ Visible(Created(j))[1] = "live" /\ Visible(Created(j))[3] = Created(j)[3]
  BY DEF Created, Visible
<1>4. CASE PostStatusNote(j)
  <2>1. PICK a \in {"ok", "lost", "rejected"} :
          /\ StatusReply(a)
          /\ noteBoard' = IF a = "rejected" THEN noteBoard ELSE noteBoard \cup {Created(j)}
          /\ IF a = "ok" THEN /\ ownNote' = [ownNote EXCEPT ![j] = {Created(j)}]
                              /\ Move(j, AfterPost(j))
                         ELSE UNCHANGED ownNote /\ Leave(j, StrictExit(j))
    BY <1>4 DEF PostStatusNote
  <2>2. /\ step[j] = "post" /\ StatusWrite(j) /\ ownNote[j] = {} /\ ~inCleanup[j]
        /\ UNCHANGED <<mergeRequest, statusPlan, listed, inCleanup, upserted>>
    BY <1>2, <1>4 DEF PostStatusNote, Early
  <2>3. CASE a = "ok"
    <3>1. step'[j] = "final" /\ ownNote'[j] = {Created(j)}
      BY <2>1, <2>3 DEF Move, AfterPost, StatusTypes
    <3>2. StatusAsked(j)'
      BY <1>2, <2>2, <3>1 DEF StatusAsked, Created, Early, Late, TerminalSteps
    <3>3. StatusListed(j)'
      BY <1>2, <2>2, <3>1 DEF MayList, StatusListed, Early
    <3>4. StatusLate(j)'
      BY <2>2, <3>1, LateOnce
    <3>5. StatusStrict(j)' /\ StatusTaken(j)'
      BY <1>2, <2>1, <2>2, <3>1 DEF StatusStrict, StatusTaken
    <3> QED
      BY <3>2, <3>3, <3>4, <3>5 DEF StatusJobInv
  <2>4. CASE a # "ok"
    <3>1. step'[j] = "done" /\ ownNote'[j] = {} /\ statusExit'[j] = StrictExit(j)
      BY <1>1, <2>1, <2>2, <2>4 DEF Leave
    <3>2. StatusAsked(j)'
      BY <1>2, <2>2, <3>1 DEF StatusAsked, Created, Early, Late, TerminalSteps
    <3>3. StatusListed(j)'
      BY <1>2, <2>2, <3>1 DEF MayList, StatusListed, Early
    <3>4. StatusLate(j)'
      BY <2>2, <3>1, LateOnce
    <3>5. StatusStrict(j)' /\ StatusTaken(j)'
      BY <1>2, <2>1, <2>2, <3>1 DEF StatusStrict, StatusTaken, StrictExit
    <3> QED
      BY <3>2, <3>3, <3>4, <3>5 DEF StatusJobInv
  <2> QED
    BY <2>3, <2>4
<1>5. CASE PublishStatusNote(j)
  <2>1. /\ step[j] = "publish" /\ StatusWrite(j) /\ ownNote[j] = {Created(j)} /\ ~inCleanup[j]
        /\ UNCHANGED <<mergeRequest, statusPlan, ownNote, listed, inCleanup, upserted>>
    BY <1>2, <1>5 DEF PublishStatusNote, Late
  <2>2. PICK a \in {"ok", "lost", "rejected"} :
          /\ IF Created(j) \in noteBoard THEN StatusReply(a) ELSE a = "rejected" /\ UNCHANGED statusFaults
          /\ noteBoard' = IF a = "rejected" THEN noteBoard
                          ELSE (noteBoard \ {Created(j)}) \cup {Visible(Created(j))}
          /\ IF a = "ok" THEN Move(j, "prune") ELSE Leave(j, 1)
    BY <1>5, <2>1 DEF PublishStatusNote
  <2>3. \A n \in noteBoard : n[3] = "terminal" => n \in noteBoard'
    BY <1>3, <2>2
  <2>4. step'[j] = "prune" \/ (step'[j] = "done" /\ statusExit'[j] = 1)
    BY <1>1, <2>2 DEF Move, Leave
  <2>5. StatusAsked(j)'
    BY <1>2, <2>1, <2>4 DEF StatusAsked, Created, Early, Late, TerminalSteps
  <2>6. StatusListed(j)'
    <3>1. step'[j] = "prune" => Created(j) \notin noteBoard'
      BY <1>1, <1>2, <1>3, <2>1, <2>2 DEF Leave
    <3> QED
      BY <1>2, <2>1, <2>4, <3>1 DEF MayList, StatusListed, Early, Created
  <2>7. StatusLate(j)'
    BY <2>1, <2>4, LateOnce
  <2>8. StatusStrict(j)'
    BY <1>2, <2>1, <2>3, <2>4 DEF StatusStrict
  <2>9. StatusTaken(j)'
    BY <1>1, <2>1, <2>2, <2>4 DEF StatusTaken, StatusReply, StatusFault, Move, Created
  <2> QED
    BY <2>5, <2>6, <2>7, <2>8, <2>9 DEF StatusJobInv
<1>6. ASSUME NEW n \in listed[j], DeleteSetupNote(j, n) PROVE StatusJobInv(j)'
  <2>1. /\ step[j] = "delete" /\ StatusWrite(j) /\ ownNote[j] = {Created(j)} /\ inCleanup'[j] = TRUE
        /\ UNCHANGED <<mergeRequest, statusPlan, ownNote, upserted>>
        /\ listed' = [listed EXCEPT ![j] = @ \ {n}]
    BY <1>2, <1>6 DEF DeleteSetupNote, Late, StatusTypes
  <2>2. PICK a \in {"ok", "lost", "rejected"} :
          /\ noteBoard' = IF a = "rejected" THEN noteBoard ELSE noteBoard \ {n}
          /\ IF a = "ok" THEN Move(j, "prune") ELSE Leave(j, 1)
    BY <1>6 DEF DeleteSetupNote
  <2>3. statusPlan[j].reason = "setup" /\ n[3] = "setup"
    BY <1>2, <2>1 DEF Late, MayList
  <2>4. /\ \A m \in noteBoard : m[3] = "terminal" => m \in noteBoard'
        /\ noteBoard' \subseteq noteBoard
    BY <2>2, <2>3
  <2>5. step'[j] = "prune" \/ (step'[j] = "done" /\ statusExit'[j] = 1)
    BY <1>1, <2>2 DEF Move, Leave
  <2>6. StatusAsked(j)'
    BY <1>2, <2>1, <2>3, <2>5 DEF StatusAsked, Created, Early, Late, TerminalSteps
  <2>7. StatusListed(j)'
    <3>1. listed'[j] \subseteq listed[j]
      BY <2>1 DEF StatusTypes
    <3> QED
      BY <1>2, <2>1, <2>4, <2>5, <3>1, <2>3 DEF MayList, StatusListed, Early, Created
  <2>8. StatusLate(j)'
    BY <2>1, <2>5, LateOnce
  <2>9. StatusStrict(j)' /\ StatusTaken(j)'
    BY <1>2, <2>1, <2>4, <2>5 DEF StatusStrict, StatusTaken
  <2> QED
    BY <2>6, <2>7, <2>8, <2>9 DEF StatusJobInv
<1>7. CASE StatusPosted(j)
  <2>1. /\ step[j] = "prune" /\ ownNote[j] = {Created(j)} /\ step'[j] = "done" /\ statusExit'[j] = StrictExit(j)
        /\ UNCHANGED <<noteBoard, mergeRequest, statusFaults, statusPlan, ownNote, listed, inCleanup,
                       upserted, lateWrites>>
    BY <1>1, <1>2, <1>7 DEF StatusPosted, Late, Leave
  <2>2. StatusAsked(j)' /\ StatusListed(j)'
    BY <1>2, <2>1 DEF StatusJobInv, StatusAsked, MayList, StatusListed, Created, Early, Late, TerminalSteps
  <2>3. StatusLate(j)'
    BY <2>1 DEF StatusJobInv, StatusLate, GoneForGood, ExactPolicy
  <2>4. StatusStrict(j)' /\ StatusTaken(j)'
    BY <1>2, <2>1 DEF StatusStrict, StatusTaken, StrictExit
  <2> QED
    BY <2>2, <2>3, <2>4 DEF StatusJobInv
<1>8. CASE UndoStatusNote(j)
  <2>1. /\ step[j] = "undo" /\ ownNote[j] = {Created(j)} /\ step'[j] = "done" /\ ~inCleanup[j]
        /\ UNCHANGED <<mergeRequest, statusPlan, ownNote, listed, inCleanup, upserted, statusExit, lateWrites>>
    BY <1>1, <1>2, <1>8 DEF UndoStatusNote, Late
  <2>2. PICK a \in {"ok", "lost", "rejected"} :
          /\ IF Created(j) \in noteBoard THEN StatusReply(a) ELSE a = "rejected" /\ UNCHANGED statusFaults
          /\ noteBoard' = IF a = "rejected" THEN noteBoard ELSE noteBoard \ {Created(j)}
    BY <1>8, <2>1 DEF UndoStatusNote
  <2>3. \A m \in noteBoard : m[3] = "terminal" => m \in noteBoard'
    BY <1>3, <2>2
  <2>4. statusFaults' = 0 => Created(j) \notin noteBoard'
    BY <1>1, <2>2 DEF StatusReply, StatusFault
  <2>5. StatusAsked(j)' /\ StatusListed(j)'
    BY <1>2, <2>1, <2>2 DEF StatusJobInv, StatusAsked, MayList, StatusListed, Created, Early, Late, TerminalSteps
  <2>6. StatusLate(j)'
    BY <2>1 DEF StatusJobInv, StatusLate, GoneForGood, ExactPolicy
  <2>7. statusExit[j] = 1
    BY <2>1 DEF StatusJobInv, StatusTaken
  <2>8. StatusStrict(j)' /\ StatusTaken(j)'
    BY <1>2, <2>1, <2>3, <2>4, <2>7 DEF StatusStrict, StatusTaken, Created
  <2> QED
    BY <2>5, <2>6, <2>8 DEF StatusJobInv, OnlyAsks
<1>9. CASE UpsertTerminal(j)
  <2> DEFINE n == IF listed[j] = {} THEN <<"live", j, "terminal">> ELSE CHOOSE m \in listed[j] : TRUE
  <2>1. n[1] = "live" /\ n[3] = "terminal"
    <3>1. listed[j] = {} => n = <<"live", j, "terminal">>
      OBVIOUS
    <3>2. listed[j] # {} => n \in listed[j]
      OBVIOUS
    <3>3. \A m \in listed[j] : m[1] = "live" /\ m[3] = "terminal"
      BY <1>2, <1>9 DEF UpsertTerminal, TerminalSteps, MayList
    <3> HIDE DEF n
    <3> QED
      BY <3>1, <3>2, <3>3
  <2> HIDE DEF n
  <2>2. PICK a \in {"ok", "lost", "rejected"} :
          /\ StatusReply(a)
          /\ noteBoard' = IF a = "rejected" THEN noteBoard ELSE noteBoard \cup {n}
          /\ upserted' = [upserted EXCEPT ![j] = IF a = "ok" THEN {n} ELSE {}]
    BY <1>9 DEF UpsertTerminal, n
  <2>3. /\ step[j] = "termWrite" /\ statusPlan[j].reason = "terminal" /\ ownNote[j] = {} /\ ~inCleanup[j]
        /\ step'[j] = "termRead"
        /\ UNCHANGED <<mergeRequest, statusPlan, ownNote, listed, inCleanup, lateWrites>>
    BY <1>1, <1>2, <1>9 DEF UpsertTerminal, TerminalSteps, Move
  <2>4. StatusAsked(j)' /\ StatusListed(j)'
    BY <1>2, <2>2, <2>3 DEF StatusJobInv, StatusAsked, MayList, StatusListed, Created, Early, Late, TerminalSteps
  <2>5. StatusLate(j)'
    BY <2>3 DEF StatusJobInv, StatusLate, GoneForGood, ExactPolicy
  <2>6. upserted'[j] = IF a = "ok" THEN {n} ELSE {}
    BY <2>2 DEF StatusTypes
  <2>7. StatusStrict(j)' /\ StatusTaken(j)'
    BY <1>2, <2>1, <2>2, <2>3, <2>6 DEF StatusStrict, StatusTaken
  <2> QED
    BY <2>4, <2>5, <2>7 DEF StatusJobInv
<1>10. CASE TerminalExit(j)
  <2>1. /\ step[j] = "termExit" /\ ownNote[j] = {} /\ ~inCleanup[j] /\ step'[j] = "done"
        /\ UNCHANGED <<noteBoard, mergeRequest, statusPlan, ownNote, listed, inCleanup, upserted, lateWrites>>
    BY <1>1, <1>2, <1>10 DEF TerminalExit, TerminalSteps, Leave
  <2>2. StatusAsked(j)' /\ StatusListed(j)'
    BY <1>2, <2>1 DEF StatusJobInv, StatusAsked, MayList, StatusListed, Created, Early, Late, TerminalSteps
  <2>3. StatusLate(j)'
    BY <2>1 DEF StatusJobInv, StatusLate, GoneForGood, ExactPolicy
  <2>4. statusExit'[j] = 0 => BoundToHead /\ mrState # "opened" /\ ~StrictlyRefused(j)
    BY <1>1, <1>10 DEF TerminalExit, Leave
  <2>5. mrState \in {"opened", "closed", "merged"}
    BY DEF StatusTypes, Terminal
  <2>6. StatusStrict(j)' /\ StatusTaken(j)'
    BY <1>2, <2>1, <2>4, <2>5 DEF StatusStrict, StatusTaken, StrictlyRefused
  <2> QED
    BY <2>2, <2>3, <2>6 DEF StatusJobInv
<1> QED
  BY <1>4, <1>5, <1>6, <1>7, <1>8, <1>9, <1>10

-----------------------------------------------------------------------------
(* What a step of job k leaves of the invariant of job j                     *)

StepOf(k) == StatusStart(k) \/ StatusJobStep(k)

LEMMA StatusBesideFacts ==
  ASSUME StatusTypes, NEW k \in StatusJob, StatusJobInv(k), StepOf(k)
  PROVE  /\ UNCHANGED <<mergeRequest, statusPlan>>
         /\ statusFaults' = 0 => statusFaults = 0
         /\ \A j \in StatusJob \ {k} :
              /\ step'[j] = step[j] /\ statusExit'[j] = statusExit[j] /\ ownNote'[j] = ownNote[j]
              /\ listed'[j] = listed[j] /\ inCleanup'[j] = inCleanup[j]
              /\ upserted'[j] = upserted[j] /\ lateWrites'[j] = lateWrites[j]
         /\ listed'[k] \subseteq listed[k] \cup noteBoard
         /\ \A n \in noteBoard' : n \in noteBoard \/ n[2] = k \/ (n[3] = "terminal" /\ n \in listed[k])
         /\ \A n \in noteBoard : n[3] = "terminal" /\ n[1] = "live" => n \in noteBoard'
<1> USE DEF mergeRequest, statusHistory
<1>1. /\ step \in [StatusJob -> Steps] /\ statusExit \in [StatusJob -> {-1, 0, 1}] /\ statusFaults \in Nat
      /\ ownNote[k] \in {{}, {Created(k)}} /\ Created(k)[2] = k /\ Created(k)[3] # "terminal"
      /\ Visible(Created(k))[2] = k
      /\ \A n \in listed[k] : MayList(k, n)
      /\ step[k] = "delete" => statusPlan[k].reason # "terminal"
      /\ step[k] = "termWrite" => statusPlan[k].reason = "terminal"
      /\ ownNote \in [StatusJob -> SUBSET StatusNote] /\ listed \in [StatusJob -> SUBSET StatusNote]
      /\ upserted \in [StatusJob -> SUBSET StatusNote] /\ lateWrites \in [StatusJob -> Nat]
      /\ inCleanup \in [StatusJob -> BOOLEAN]
  BY DEF StatusTypes, Steps, StatusJobInv, StatusAsked, StatusListed, Created, Visible, Late, TerminalSteps
<1>2. /\ \A where : Move(k, where) => \A j \in StatusJob \ {k} :
             step'[j] = step[j] /\ statusExit'[j] = statusExit[j]
      /\ \A code : Leave(k, code) => \A j \in StatusJob \ {k} :
             step'[j] = step[j] /\ statusExit'[j] = statusExit[j]
      /\ StatusStale(k) => \A j \in StatusJob \ {k} :
             step'[j] = step[j] /\ statusExit'[j] = statusExit[j]
      /\ StatusWrite(k) => \A j \in StatusJob \ {k} : lateWrites'[j] = lateWrites[j]
  BY <1>1 DEF Move, Leave, StatusStale, StatusWrite
<1>3. CASE \/ StatusStart(k) \/ StatusCheck(k) \/ VerifyNoModelCoverage(k) \/ StatusLifecycle(k)
           \/ TerminalLifecycle(k) \/ StatusPosted(k) \/ TerminalExit(k)
  <2>1. UNCHANGED <<mergeRequest, statusPlan, ownNote, listed, inCleanup, upserted, lateWrites, noteBoard>>
    BY <1>3 DEF StatusStart, StatusCheck, VerifyNoModelCoverage, StatusLifecycle, TerminalLifecycle,
       StatusPosted, TerminalExit
  <2>2. statusFaults' = 0 => statusFaults = 0
    BY <1>1, <1>3 DEF StatusStart, StatusCheck, VerifyNoModelCoverage, StatusLifecycle, TerminalLifecycle,
       StatusPosted, TerminalExit, StatusFault
  <2>3. \A j \in StatusJob \ {k} : step'[j] = step[j] /\ statusExit'[j] = statusExit[j]
    BY <1>2, <1>3 DEF StatusStart, StatusCheck, VerifyNoModelCoverage, StatusLifecycle, TerminalLifecycle,
       StatusPosted, TerminalExit
  <2> QED
    BY <2>1, <2>2, <2>3
<1>4. CASE CollectPrevious(k) \/ CollectTerminal(k)
  <2>1. UNCHANGED <<mergeRequest, statusPlan, ownNote, inCleanup, upserted, lateWrites, noteBoard>>
    BY <1>4 DEF CollectPrevious, CollectTerminal
  <2>2. statusFaults' = 0 => statusFaults = 0
    BY <1>1, <1>4 DEF CollectPrevious, CollectTerminal, StatusFault
  <2>3. \A j \in StatusJob \ {k} : step'[j] = step[j] /\ statusExit'[j] = statusExit[j]
    BY <1>2, <1>4 DEF CollectPrevious, CollectTerminal
  <2>4. /\ listed'[k] \subseteq listed[k] \cup noteBoard
        /\ \A j \in StatusJob \ {k} : listed'[j] = listed[j]
    BY <1>1, <1>4 DEF CollectPrevious, CollectTerminal, Replaceable, TerminalNotes
  <2> QED
    BY <2>1, <2>2, <2>3, <2>4
<1>5. CASE PostStatusNote(k)
  <2>1. PICK a \in {"ok", "lost", "rejected"} :
          /\ StatusReply(a)
          /\ noteBoard' = IF a = "rejected" THEN noteBoard ELSE noteBoard \cup {Created(k)}
          /\ IF a = "ok" THEN /\ ownNote' = [ownNote EXCEPT ![k] = {Created(k)}]
                              /\ Move(k, AfterPost(k))
                         ELSE UNCHANGED ownNote /\ Leave(k, StrictExit(k))
    BY <1>5 DEF PostStatusNote
  <2>2. UNCHANGED <<mergeRequest, statusPlan, listed, inCleanup, upserted>> /\ StatusWrite(k)
    BY <1>5 DEF PostStatusNote
  <2> QED
    BY <1>1, <1>2, <2>1, <2>2 DEF StatusReply, StatusFault
<1>6. CASE PublishStatusNote(k)
  <2>1. PICK a \in {"ok", "lost", "rejected"}, n \in ownNote[k] :
          /\ IF n \in noteBoard THEN StatusReply(a) ELSE a = "rejected" /\ UNCHANGED statusFaults
          /\ noteBoard' = IF a = "rejected" THEN noteBoard ELSE (noteBoard \ {n}) \cup {Visible(n)}
          /\ IF a = "ok" THEN Move(k, "prune") ELSE Leave(k, 1)
    BY <1>6 DEF PublishStatusNote
  <2>2. UNCHANGED <<mergeRequest, statusPlan, ownNote, listed, inCleanup, upserted>> /\ StatusWrite(k)
    BY <1>6 DEF PublishStatusNote
  <2>3. n = Created(k)
    BY <1>1
  <2> QED
    BY <1>1, <1>2, <2>1, <2>2, <2>3 DEF StatusReply, StatusFault
<1>7. ASSUME NEW n \in listed[k], DeleteSetupNote(k, n)
      PROVE  /\ UNCHANGED <<mergeRequest, statusPlan>>
             /\ statusFaults' = 0 => statusFaults = 0
             /\ \A j \in StatusJob \ {k} :
                  /\ step'[j] = step[j] /\ statusExit'[j] = statusExit[j] /\ ownNote'[j] = ownNote[j]
                  /\ listed'[j] = listed[j] /\ inCleanup'[j] = inCleanup[j]
                  /\ upserted'[j] = upserted[j] /\ lateWrites'[j] = lateWrites[j]
             /\ listed'[k] \subseteq listed[k] \cup noteBoard
             /\ \A m \in noteBoard' : m \in noteBoard
             /\ \A m \in noteBoard : m[3] = "terminal" /\ m[1] = "live" => m \in noteBoard'
  <2>1. PICK a \in {"ok", "lost", "rejected"} :
          /\ IF n \in noteBoard THEN StatusReply(a) ELSE a = "rejected" /\ UNCHANGED statusFaults
          /\ noteBoard' = IF a = "rejected" THEN noteBoard ELSE noteBoard \ {n}
          /\ IF a = "ok" THEN Move(k, "prune") ELSE Leave(k, 1)
    BY <1>7 DEF DeleteSetupNote
  <2>2. /\ UNCHANGED <<mergeRequest, statusPlan, ownNote, upserted>> /\ StatusWrite(k)
        /\ inCleanup' = [inCleanup EXCEPT ![k] = TRUE]
        /\ listed' = [listed EXCEPT ![k] = @ \ {n}]
    BY <1>7 DEF DeleteSetupNote
  <2>3. n[3] = "setup"
    BY <1>1, <1>7 DEF DeleteSetupNote, MayList
  <2> QED
    BY <1>1, <1>2, <2>1, <2>2, <2>3 DEF StatusReply, StatusFault
<1>8. CASE UndoStatusNote(k)
  <2>1. PICK a \in {"ok", "lost", "rejected"}, n \in ownNote[k] :
          /\ IF n \in noteBoard THEN StatusReply(a) ELSE a = "rejected" /\ UNCHANGED statusFaults
          /\ noteBoard' = IF a = "rejected" THEN noteBoard ELSE noteBoard \ {n}
    BY <1>8 DEF UndoStatusNote
  <2>2. /\ UNCHANGED <<mergeRequest, statusPlan, ownNote, listed, inCleanup, upserted, statusExit, lateWrites>>
        /\ step' = [step EXCEPT ![k] = "done"]
    BY <1>8 DEF UndoStatusNote
  <2>3. n = Created(k)
    BY <1>1
  <2> QED
    BY <1>1, <2>1, <2>2, <2>3 DEF StatusReply, StatusFault
<1>9. CASE UpsertTerminal(k)
  <2> DEFINE n == IF listed[k] = {} THEN <<"live", k, "terminal">> ELSE CHOOSE m \in listed[k] : TRUE
  <2>1. n[2] = k \/ (n \in listed[k] /\ n[3] = "terminal")
    <3>1. listed[k] = {} => n = <<"live", k, "terminal">>
      OBVIOUS
    <3>2. listed[k] # {} => n \in listed[k]
      OBVIOUS
    <3>3. \A m \in listed[k] : m[3] = "terminal"
      BY <1>1, <1>9 DEF UpsertTerminal, MayList
    <3> HIDE DEF n
    <3> QED
      BY <3>1, <3>2, <3>3
  <2> HIDE DEF n
  <2>2. PICK a \in {"ok", "lost", "rejected"} :
          /\ StatusReply(a)
          /\ noteBoard' = IF a = "rejected" THEN noteBoard ELSE noteBoard \cup {n}
          /\ upserted' = [upserted EXCEPT ![k] = IF a = "ok" THEN {n} ELSE {}]
    BY <1>9 DEF UpsertTerminal, n
  <2>3. UNCHANGED <<mergeRequest, statusPlan, ownNote, listed, inCleanup, lateWrites>> /\ Move(k, "termRead")
    BY <1>9 DEF UpsertTerminal
  <2> QED
    BY <1>1, <1>2, <2>1, <2>2, <2>3 DEF StatusReply, StatusFault
<1>10. CASE ReadbackTerminal(k)
  <2>1. /\ UNCHANGED <<mergeRequest, statusPlan, ownNote, listed, inCleanup, lateWrites, noteBoard>>
        /\ Move(k, "termExit")
        /\ \A j \in StatusJob \ {k} : upserted'[j] = upserted[j]
        /\ statusFaults' = 0 => statusFaults = 0
    BY <1>1, <1>10 DEF ReadbackTerminal, StatusFault
  <2> QED
    BY <1>2, <2>1
<1> QED
  BY <1>3, <1>4, <1>5, <1>6, <1>7, <1>8, <1>9, <1>10 DEF StepOf, StatusJobStep

LEMMA StatusBeside ==
  ASSUME StatusTypes, \A i \in StatusJob : StatusJobInv(i), NEW k \in StatusJob, StepOf(k),
         NEW j \in StatusJob, j # k
  PROVE  StatusJobInv(j)'
<1>1. /\ UNCHANGED <<mergeRequest, statusPlan>>
      /\ statusFaults' = 0 => statusFaults = 0
      /\ step'[j] = step[j] /\ statusExit'[j] = statusExit[j] /\ ownNote'[j] = ownNote[j]
      /\ listed'[j] = listed[j] /\ inCleanup'[j] = inCleanup[j]
      /\ upserted'[j] = upserted[j] /\ lateWrites'[j] = lateWrites[j]
  BY StatusBesideFacts
<1>2. /\ \A i \in StatusJob : listed'[i] \subseteq listed[i] \cup noteBoard
      /\ \A n \in noteBoard' : n \in noteBoard \/ n[2] = k \/ (n[3] = "terminal" /\ n \in listed[k])
      /\ \A n \in noteBoard : n[3] = "terminal" /\ n[1] = "live" => n \in noteBoard'
  BY StatusBesideFacts
<1>3. StatusAsked(j) /\ StatusListed(j) /\ StatusLate(j) /\ StatusStrict(j) /\ StatusTaken(j)
  BY DEF StatusJobInv
<1>4. StatusAsked(j)'
  BY <1>1, <1>3 DEF StatusAsked, Created
<1>5. Created(j) \notin noteBoard => Created(j) \notin noteBoard'
  BY <1>2 DEF Created
<1>6. StatusListed(j)'
  <2>1. step[j] \in Early => /\ \A n \in noteBoard' : n[2] # j
                             /\ \A i \in StatusJob : \A n \in listed'[i] : n[2] # j
    BY <1>2, <1>3 DEF StatusListed
  <2> QED
    BY <1>1, <1>3, <1>5, <2>1 DEF StatusListed, MayList, Created
<1>7. StatusLate(j)'
  BY <1>1, <1>3 DEF StatusLate, GoneForGood, ExactPolicy, mergeRequest
<1>8. StatusStrict(j)'
  BY <1>1, <1>2, <1>3 DEF StatusStrict, mergeRequest
<1>9. StatusTaken(j)'
  BY <1>1, <1>3, <1>5 DEF StatusTaken, Created
<1> QED
  BY <1>4, <1>6, <1>7, <1>8, <1>9 DEF StatusJobInv

(* People move the merge request: what is gone for good stays gone.          *)
LEMMA MovesKeep ==
  ASSUME StatusTypes, MergeRequestMoves
  PROVE  /\ StatusTypes'
         /\ \A j \in StatusJob : StatusJobInv(j) => StatusJobInv(j)'
         /\ StatusAlone => StatusAlone'
<1> USE DEF statusHistory
<1>1. UNCHANGED <<noteBoard, named, statusFaults, statusPlan, step, ownNote, listed, inCleanup,
                  readState, upserted, statusExit, lateWrites, overlapped>>
  BY DEF MergeRequestMoves
<1>2. /\ mrState' \in {"opened"} \cup Terminal /\ headMoved' \in BOOLEAN /\ policyMoved' \in BOOLEAN
      /\ headMoved => headMoved'
      /\ policyMoved => policyMoved'
      /\ mrState = "merged" => mrState' = "merged"
  BY DEF MergeRequestMoves, StatusTypes, Terminal
<1>3. StatusTypes'
  BY <1>1, <1>2 DEF StatusTypes
<1>4. ASSUME NEW j \in StatusJob, StatusJobInv(j) PROVE StatusJobInv(j)'
  <2>1. StatusAsked(j)' /\ StatusListed(j)' /\ StatusTaken(j)'
    BY <1>1, <1>4 DEF StatusJobInv, StatusAsked, StatusListed, StatusTaken, MayList, Created
  <2>2. StatusLate(j)' /\ StatusStrict(j)'
    BY <1>1, <1>2, <1>4 DEF StatusJobInv, StatusLate, StatusStrict, GoneForGood, ExactPolicy
  <2> QED
    BY <2>1, <2>2 DEF StatusJobInv
<1>5. StatusAlone => StatusAlone'
  BY <1>1 DEF StatusAlone, TerminalOnBoard, StatusRunning
<1> QED
  BY <1>3, <1>4, <1>5

-----------------------------------------------------------------------------
(* Jobs that do not overlap leave one terminal note at most                  *)

LEMMA Running ==
  ASSUME NEW j \in StatusJob
  PROVE  /\ StatusJobStep(j) => StatusRunning(j) /\ UNCHANGED overlapped
         /\ StatusStart(j) => /\ overlapped' = (overlapped \/ \E k \in StatusJob : StatusRunning(k))
                              /\ UNCHANGED noteBoard
BY DEF StatusJobStep, StatusStart, StatusRunning, StatusCheck, VerifyNoModelCoverage, StatusLifecycle,
   CollectPrevious, PostStatusNote, PublishStatusNote, StatusPosted, UndoStatusNote, DeleteSetupNote,
   TerminalLifecycle, CollectTerminal, UpsertTerminal, ReadbackTerminal, TerminalExit, statusHistory

(* Only the terminal upsert writes a terminal note, and no status job takes  *)
(* one away.                                                                 *)
LEMMA TerminalBoardSteps ==
  ASSUME StatusTypes, NEW j \in StatusJob, StatusJobInv(j), StepOf(j), ~UpsertTerminal(j)
  PROVE  TerminalOnBoard' \subseteq TerminalOnBoard
<1>1. /\ ownNote[j] \in {{}, {Created(j)}} /\ Created(j)[3] # "terminal"
      /\ Visible(Created(j))[3] # "terminal"
  BY DEF StatusJobInv, StatusAsked, Created, Visible
<1>2. CASE PostStatusNote(j)
  <2>1. noteBoard' \subseteq noteBoard \cup {Created(j)}
    BY <1>2 DEF PostStatusNote
  <2> QED
    BY <1>1, <2>1 DEF TerminalOnBoard
<1>3. CASE PublishStatusNote(j)
  <2>1. noteBoard' \subseteq noteBoard \cup {Visible(Created(j))}
    BY <1>1, <1>3 DEF PublishStatusNote
  <2> QED
    BY <1>1, <2>1 DEF TerminalOnBoard
<1>4. CASE UndoStatusNote(j) \/ \E n \in listed[j] : DeleteSetupNote(j, n)
  <2>1. noteBoard' \subseteq noteBoard
    BY <1>4 DEF UndoStatusNote, DeleteSetupNote
  <2> QED
    BY <2>1 DEF TerminalOnBoard
<1>5. CASE \/ StatusStart(j) \/ StatusCheck(j) \/ VerifyNoModelCoverage(j) \/ StatusLifecycle(j)
           \/ CollectPrevious(j) \/ StatusPosted(j) \/ TerminalLifecycle(j) \/ CollectTerminal(j)
           \/ ReadbackTerminal(j) \/ TerminalExit(j)
  <2>1. noteBoard' = noteBoard
    BY <1>5 DEF StatusStart, StatusCheck, VerifyNoModelCoverage, StatusLifecycle, CollectPrevious,
       StatusPosted, TerminalLifecycle, CollectTerminal, ReadbackTerminal, TerminalExit
  <2> QED
    BY <2>1 DEF TerminalOnBoard
<1> QED
  BY <1>2, <1>3, <1>4, <1>5 DEF StepOf, StatusJobStep

LEMMA AloneStep ==
  ASSUME StatusTypes, \A i \in StatusJob : StatusJobInv(i), StatusAlone,
         NEW j \in StatusJob, StepOf(j)
  PROVE  StatusAlone'
<1>1. /\ step \in [StatusJob -> Steps] /\ overlapped \in BOOLEAN
      /\ StatusJobInv(j)
  BY DEF StatusTypes, Steps
<1>2. \A i \in StatusJob \ {j} : step'[i] = step[i] /\ listed'[i] = listed[i]
  BY StatusBesideFacts, <1>1
<1>3. ~overlapped' =>
        /\ ~overlapped
        /\ \A i \in StatusJob \ {j} : ~StatusRunning(i)
  BY <1>1, Running DEF StatusAlone, StepOf
<1>4. ~overlapped' => \A i, k \in StatusJob : StatusRunning(i)' /\ StatusRunning(k)' => i = k
  BY <1>2, <1>3 DEF StatusRunning
<1>5. CASE UpsertTerminal(j)
  <2> DEFINE n == IF listed[j] = {} THEN <<"live", j, "terminal">> ELSE CHOOSE m \in listed[j] : TRUE
  <2>1. step[j] = "termWrite" /\ statusPlan[j].reason = "terminal"
    BY <1>5 DEF UpsertTerminal, StatusJobInv, StatusAsked, TerminalSteps
  <2>2. /\ n[1] = "live" /\ n[3] = "terminal"
        /\ listed[j] # {} => n \in listed[j]
    <3>1. listed[j] = {} => n = <<"live", j, "terminal">>
      OBVIOUS
    <3>2. listed[j] # {} => n \in listed[j]
      OBVIOUS
    <3>3. \A m \in listed[j] : m[1] = "live" /\ m[3] = "terminal"
      BY <2>1 DEF StatusJobInv, StatusListed, MayList
    <3> HIDE DEF n
    <3> QED
      BY <3>1, <3>2, <3>3
  <2> HIDE DEF n
  <2>3. /\ noteBoard' \subseteq noteBoard \cup {n}
        /\ step'[j] = "termRead"
    BY <1>1, <1>5 DEF UpsertTerminal, Move, n
  <2>4. \A m \in TerminalOnBoard' : m[1] = "live"
    BY <2>2, <2>3 DEF TerminalOnBoard, StatusAlone
  <2>5. ~overlapped' => \A l, m \in TerminalOnBoard' : l = m
    <3>1. ~overlapped' => listed[j] = TerminalOnBoard /\ \A l, m \in TerminalOnBoard : l = m
      BY <1>3, <2>1 DEF StatusAlone
    <3> QED
      BY <2>2, <2>3, <3>1 DEF TerminalOnBoard
  <2>6. ~overlapped' => \A i \in StatusJob : step'[i] # "termWrite"
    BY <1>2, <1>3, <2>3 DEF StatusRunning
  <2> QED
    BY <1>4, <2>4, <2>5, <2>6 DEF StatusAlone
<1>6. CASE ~UpsertTerminal(j)
  <2>1. TerminalOnBoard' \subseteq TerminalOnBoard
    BY <1>1, <1>6, TerminalBoardSteps
  <2>2. /\ \A m \in TerminalOnBoard' : m[1] = "live"
        /\ ~overlapped' => \A l, m \in TerminalOnBoard' : l = m
    BY <1>3, <2>1 DEF StatusAlone
  <2>3. ASSUME ~overlapped', step'[j] = "termWrite" PROVE listed'[j] = TerminalOnBoard'
    <3>1. CollectTerminal(j)
      <4>1. \A where : Move(j, where) => where = "termWrite"
        BY <1>1, <2>3 DEF Move
      <4>2. \A code : ~Leave(j, code)
        BY <1>1, <2>3 DEF Leave
      <4>3. ~StatusStale(j)
        BY <1>1, <2>3, <4>2 DEF StatusStale
      <4>4. ~StatusStart(j) /\ ~StatusLifecycle(j) /\ ~VerifyNoModelCoverage(j) /\ ~CollectPrevious(j)
            /\ ~StatusPosted(j) /\ ~TerminalLifecycle(j) /\ ~ReadbackTerminal(j) /\ ~TerminalExit(j)
        BY <4>1, <4>2 DEF StatusStart, StatusLifecycle, VerifyNoModelCoverage, CollectPrevious, StatusPosted,
           TerminalLifecycle, ReadbackTerminal, TerminalExit
      <4>5. ~StatusCheck(j)
        BY <4>1, <4>3 DEF StatusCheck, AfterCheck
      <4>6. ~PostStatusNote(j) /\ ~PublishStatusNote(j) /\ \A n \in listed[j] : ~DeleteSetupNote(j, n)
        BY <4>1, <4>2 DEF PostStatusNote, PublishStatusNote, DeleteSetupNote, AfterPost
      <4>7. ~UndoStatusNote(j)
        BY <1>1, <2>3 DEF UndoStatusNote
      <4> QED
        BY <1>6, <4>4, <4>5, <4>6, <4>7 DEF StepOf, StatusJobStep
    <3>2. listed'[j] = TerminalNotes(j) /\ UNCHANGED noteBoard
      BY <1>1, <2>3, <3>1 DEF CollectTerminal, Move, Leave, StatusTypes
    <3>3. TerminalNotes(j) = TerminalOnBoard
      BY DEF TerminalNotes, TerminalOnBoard, StatusAlone
    <3> QED
      BY <3>2, <3>3 DEF TerminalOnBoard
  <2>4. ASSUME ~overlapped', NEW i \in StatusJob, step'[i] = "termWrite" PROVE listed'[i] = TerminalOnBoard'
    <3>1. CASE i = j
      BY <2>3, <2>4, <3>1
    <3>2. CASE i # j
      BY <1>2, <1>3, <2>4, <3>2 DEF StatusRunning
    <3> QED
      BY <3>1, <3>2
  <2> QED
    BY <1>4, <2>2, <2>4 DEF StatusAlone
<1> QED
  BY <1>5, <1>6

-----------------------------------------------------------------------------
(* The order in which the jobs wrote their notes                             *)

SomeOrder == StatusOrder(Nat)
Old == <<"live", Before, "setup">>

(* Reading, terminal notes and a give-up change nothing of the order: notes  *)
(* that count stay, no list of a job with a note grows, and nobody new       *)
(* counts on a note.                                                         *)
LEMMA OrderKept ==
  ASSUME NEW rank, NEW next, Ordered(rank, next),
         UNCHANGED inCleanup,
         \A j \in StatusJob : ownNote'[j] # {} => ownNote[j] # {} /\ listed'[j] \subseteq listed[j],
         \A j \in StatusJob : Created(j)' = Created(j),
         \A j \in StatusJob : Confirmed(j)' => Confirmed(j) \/ Visible(Created(j)) \in noteBoard',
         \A j \in StatusJob : Confirmed(j)' /\ Visible(Created(j)) \in noteBoard => Visible(Created(j)) \in noteBoard',
         Old \in noteBoard => Old \in noteBoard'
  PROVE  Ordered(rank, next)'
<1>1. Cleaning' = Cleaning
  BY DEF Cleaning
<1>2. /\ \A j \in StatusJob : rank[j] < next
      /\ \A j \in StatusJob : \A n \in listed'[j] : ownNote'[j] # {} /\ n[2] # Before => rank[n[2]] < rank[j]
      /\ IF Cleaning = {} THEN Old \in noteBoard'
         ELSE \E newest \in Cleaning : \A j \in Cleaning : rank[j] <= rank[newest]
  BY DEF Ordered, Old
<1>3. ASSUME NEW j \in StatusJob, Confirmed(j)'
      PROVE  Visible(Created(j))' \in noteBoard' \/ \E k \in Cleaning : rank[j] < rank[k]
  <2>1. Visible(Created(j))' = Visible(Created(j))
    BY DEF Visible
  <2> QED
    BY <1>3, <2>1 DEF Ordered
<1> QED
  BY <1>1, <1>2, <1>3 DEF Ordered, Old, Visible

(* Where a step leaves its own job, for the steps that write no note.        *)
LEMMA ConfirmedBefore ==
  ASSUME StatusTypes, NEW j \in StatusJob, StatusJobInv(j),
         \/ StatusStart(j) \/ StatusCheck(j) \/ VerifyNoModelCoverage(j) \/ StatusLifecycle(j)
         \/ CollectPrevious(j) \/ StatusPosted(j) \/ TerminalLifecycle(j) \/ CollectTerminal(j)
         \/ UpsertTerminal(j) \/ ReadbackTerminal(j) \/ TerminalExit(j),
         Confirmed(j)'
  PROVE  Confirmed(j)
<1> USE DEF mergeRequest, statusHistory
<1>1. UNCHANGED <<inCleanup, statusPlan>> /\ step \in [StatusJob -> Steps]
  BY DEF StatusStart, StatusCheck, VerifyNoModelCoverage, StatusLifecycle, CollectPrevious, StatusPosted,
     TerminalLifecycle, CollectTerminal, UpsertTerminal, ReadbackTerminal, TerminalExit, StatusTypes, Steps
<1>2. CASE inCleanup[j]
  BY <1>2 DEF Confirmed
<1>3. CASE ~inCleanup[j]
  <2>1. step'[j] \in {"prune", "delete", "final"} /\ (step'[j] = "final" => ~statusPlan[j].draft)
    BY <1>1, <1>3 DEF Confirmed
  <2>2. /\ \A where : Move(j, where) => step'[j] = where
        /\ \A code : ~Leave(j, code)
        /\ ~StatusStale(j)
    BY <1>1, <2>1 DEF Move, Leave, StatusStale
  <2>3. StatusCheck(j)
    BY <2>1, <2>2 DEF StatusStart, VerifyNoModelCoverage, StatusLifecycle, CollectPrevious, StatusPosted,
       TerminalLifecycle, CollectTerminal, UpsertTerminal, ReadbackTerminal, TerminalExit
  <2>4. Move(j, AfterCheck(j)) /\ step[j] \in {"fresh", "prepost", "final", "prune"}
    BY <2>2, <2>3 DEF StatusCheck
  <2>5. step'[j] = AfterCheck(j)
    BY <2>2, <2>4
  <2>6. \/ step[j] = "final" /\ ~statusPlan[j].draft
        \/ step[j] = "prune"
    BY <2>1, <2>4, <2>5 DEF AfterCheck
  <2> QED
    BY <2>6 DEF Confirmed
<1> QED
  BY <1>2, <1>3

LEMMA OrderBeside ==
  ASSUME StatusTypes, NEW j \in StatusJob, StatusJobInv(j), StepOf(j)
  PROVE  /\ \A i \in StatusJob : Created(i)' = Created(i)
         /\ \A i \in StatusJob \ {j} : /\ Confirmed(i)' = Confirmed(i)
                                       /\ ownNote'[i] = ownNote[i] /\ listed'[i] = listed[i]
                                       /\ inCleanup'[i] = inCleanup[i]
<1>1. /\ UNCHANGED statusPlan
      /\ \A i \in StatusJob \ {j} : /\ step'[i] = step[i] /\ inCleanup'[i] = inCleanup[i]
                                    /\ ownNote'[i] = ownNote[i] /\ listed'[i] = listed[i]
  BY StatusBesideFacts
<1> QED
  BY <1>1 DEF Created, Confirmed

LEMMA OrderStep ==
  ASSUME StatusAssumption, StatusTypes, \A i \in StatusJob : StatusJobInv(i), SomeOrder,
         NEW j \in StatusJob, StepOf(j)
  PROVE  SomeOrder'
<1>1. PICK rank \in [StatusJob -> Nat], next \in Nat : Ordered(rank, next)
  BY DEF SomeOrder, StatusOrder
<1>2. /\ StatusJobInv(j) /\ Before \notin StatusJob
      /\ step \in [StatusJob -> Steps] /\ noteBoard \subseteq StatusNote
      /\ inCleanup \in [StatusJob -> BOOLEAN] /\ statusPlan \in [StatusJob -> StatusPlan]
      /\ ownNote \in [StatusJob -> SUBSET StatusNote] /\ listed \in [StatusJob -> SUBSET StatusNote]
  BY DEF StatusTypes, Steps, StatusAssumption
<1>3. /\ \A i \in StatusJob : Created(i)' = Created(i)
      /\ \A i \in StatusJob \ {j} : /\ Confirmed(i)' = Confirmed(i)
                                    /\ ownNote'[i] = ownNote[i] /\ listed'[i] = listed[i]
                                    /\ inCleanup'[i] = inCleanup[i]
  BY <1>2, OrderBeside
<1>4. /\ \A i \in StatusJob : Created(i)[2] = i /\ Visible(Created(i))[2] = i
                              /\ Visible(Created(i))[1] = "live"
      /\ Old[1] = "live" /\ Old[2] = Before
      /\ \A i \in StatusJob : ~statusPlan[i].draft => Visible(Created(i)) = Created(i)
      /\ \A i \in StatusJob : statusPlan[i].draft => Created(i)[1] = "draft"
  BY DEF Created, Visible, Old
<1>5. /\ step[j] \in Early \cup TerminalSteps => ownNote[j] = {}
      /\ step[j] \in Late => ownNote[j] = {Created(j)}
      /\ step[j] = "publish" => statusPlan[j].draft
      /\ inCleanup[j] => step[j] \in {"prune", "delete", "done"}
      /\ step[j] \in Early => \A k \in StatusJob : \A n \in listed[k] : n[2] # j
      /\ step[j] = "undo" => ~inCleanup[j]
  BY <1>2 DEF StatusJobInv, StatusAsked, StatusListed, StatusTaken
<1>6. ASSUME Ordered(rank, next)' PROVE SomeOrder'
  BY <1>1, <1>6 DEF SomeOrder, StatusOrder
<1>7. CASE \/ StatusStart(j) \/ StatusCheck(j) \/ VerifyNoModelCoverage(j) \/ StatusLifecycle(j)
           \/ CollectPrevious(j) \/ StatusPosted(j) \/ TerminalLifecycle(j) \/ CollectTerminal(j)
           \/ UpsertTerminal(j) \/ ReadbackTerminal(j) \/ TerminalExit(j)
  <2>1. UNCHANGED <<inCleanup, ownNote>> /\ noteBoard \subseteq noteBoard'
    BY <1>7 DEF StatusStart, StatusCheck, VerifyNoModelCoverage, StatusLifecycle, CollectPrevious,
       StatusPosted, TerminalLifecycle, CollectTerminal, UpsertTerminal, ReadbackTerminal, TerminalExit
  <2>2. ownNote[j] # {} => listed'[j] = listed[j]
    <3>1. CollectPrevious(j) \/ CollectTerminal(j) => ownNote[j] = {}
      BY <1>5 DEF CollectPrevious, CollectTerminal, Early, TerminalSteps
    <3>2. ~CollectPrevious(j) /\ ~CollectTerminal(j) => UNCHANGED listed
      BY <1>7 DEF StatusStart, StatusCheck, VerifyNoModelCoverage, StatusLifecycle,
         StatusPosted, TerminalLifecycle, UpsertTerminal, ReadbackTerminal, TerminalExit
    <3> QED
      BY <3>1, <3>2
  <2>3. Confirmed(j)' => Confirmed(j)
    BY <1>2, <1>7, ConfirmedBefore
  <2>4. Ordered(rank, next)'
    BY <1>1, <1>3, <2>1, <2>2, <2>3, OrderKept
  <2> QED
    BY <1>6, <2>4
<1>8. CASE PostStatusNote(j)
  <2>1. PICK a \in {"ok", "lost", "rejected"} :
          /\ noteBoard' = IF a = "rejected" THEN noteBoard ELSE noteBoard \cup {Created(j)}
          /\ IF a = "ok" THEN /\ ownNote' = [ownNote EXCEPT ![j] = {Created(j)}]
                              /\ Move(j, AfterPost(j))
                         ELSE UNCHANGED ownNote /\ Leave(j, StrictExit(j))
    BY <1>8 DEF PostStatusNote
  <2>2. UNCHANGED <<listed, inCleanup, statusPlan>> /\ step[j] = "post" /\ ~inCleanup[j] /\ noteBoard \subseteq noteBoard'
    BY <1>5, <1>8, <2>1 DEF PostStatusNote
  <2>3. CASE a # "ok"
    <3>1. ~Confirmed(j)'
      BY <1>2, <2>1, <2>2, <2>3 DEF Leave, Confirmed
    <3>2. UNCHANGED <<ownNote, listed, inCleanup>>
      BY <2>1, <2>2, <2>3
    <3>3. Ordered(rank, next)'
      BY <1>1, <1>3, <2>2, <3>1, <3>2, OrderKept
    <3> QED
      BY <1>6, <3>3
  <2>4. CASE a = "ok"
    <3> DEFINE later == [rank EXCEPT ![j] = next]
    <3>1. /\ later \in [StatusJob -> Nat] /\ later[j] = next
          /\ \A i \in StatusJob \ {j} : later[i] = rank[i]
          /\ \A i \in StatusJob : rank[i] < next
      BY <1>1 DEF Ordered
    <3>2. /\ ownNote'[j] = {Created(j)} /\ step'[j] = "final"
          /\ Created(j) \in noteBoard'
      BY <1>2, <2>1, <2>4 DEF Move, AfterPost
    <3>3. Cleaning' = Cleaning /\ j \notin Cleaning
      BY <2>2 DEF Cleaning
    <3> HIDE DEF later
    <3>4. \A i \in StatusJob : later[i] < next + 1
      BY <1>1, <3>1
    <3>5. ASSUME NEW i \in StatusJob, NEW n \in listed'[i], ownNote'[i] # {}, n[2] # Before
          PROVE  later[n[2]] < later[i]
      <4>1. n[2] \in StatusJob /\ n[2] # j /\ n \in listed[i]
        <5>1. n \in listed[i] /\ n \in StatusNote
          BY <1>2, <2>2, <3>5
        <5> QED
          BY <1>5, <2>2, <3>5, <5>1 DEF StatusNote, Early
      <4>2. CASE i = j
        BY <3>1, <4>1, <4>2
      <4>3. CASE i # j
        BY <1>1, <1>3, <3>1, <3>5, <4>1, <4>3 DEF Ordered
      <4> QED
        BY <4>2, <4>3
    <3>6. ASSUME NEW i \in StatusJob, Confirmed(i)'
          PROVE  Visible(Created(i))' \in noteBoard' \/ \E k \in Cleaning : later[i] < later[k]
      <4>1. Visible(Created(i))' = Visible(Created(i))
        BY <1>3 DEF Visible
      <4>2. CASE i = j
        BY <1>2, <1>4, <2>2, <3>2, <3>6, <4>1, <4>2 DEF Confirmed
      <4>3. CASE i # j
        <5>1. Visible(Created(i)) \in noteBoard \/ \E k \in Cleaning : rank[i] < rank[k]
          BY <1>1, <1>3, <3>6, <4>3 DEF Ordered
        <5> QED
          BY <2>2, <3>1, <3>3, <4>1, <4>3, <5>1 DEF Cleaning
      <4> QED
        BY <4>2, <4>3
    <3>7. IF Cleaning = {} THEN Old \in noteBoard'
          ELSE \E newest \in Cleaning : \A i \in Cleaning : later[i] <= later[newest]
      <4>1. IF Cleaning = {} THEN Old \in noteBoard
            ELSE \E newest \in Cleaning : \A i \in Cleaning : rank[i] <= rank[newest]
        BY <1>1 DEF Ordered, Old
      <4>2. \A i \in Cleaning : later[i] = rank[i]
        BY <3>1, <3>3 DEF Cleaning
      <4> QED
        BY <2>2, <4>1, <4>2
    <3>8. Ordered(later, next + 1)'
      BY <3>3, <3>4, <3>5, <3>6, <3>7 DEF Ordered, Old
    <3> QED
      BY <1>1, <3>1, <3>8 DEF SomeOrder, StatusOrder
  <2> QED
    BY <2>3, <2>4
<1>9. CASE PublishStatusNote(j)
  <2>1. /\ step[j] = "publish" /\ ownNote[j] = {Created(j)} /\ ~inCleanup[j] /\ Created(j)[1] = "draft"
        /\ UNCHANGED <<ownNote, listed, inCleanup, statusPlan>>
    BY <1>4, <1>5, <1>9 DEF PublishStatusNote, Late
  <2>2. PICK a \in {"ok", "lost", "rejected"} :
          /\ Created(j) \notin noteBoard => a = "rejected"
          /\ noteBoard' = IF a = "rejected" THEN noteBoard
                          ELSE (noteBoard \ {Created(j)}) \cup {Visible(Created(j))}
          /\ IF a = "ok" THEN Move(j, "prune") ELSE Leave(j, 1)
    BY <1>9, <2>1 DEF PublishStatusNote
  <2>3. \A n \in noteBoard : n[1] = "live" => n \in noteBoard'
    BY <2>1, <2>2
  <2>4. Confirmed(j)' => Visible(Created(j)) \in noteBoard'
    <3>1. Confirmed(j)' => step'[j] # "done"
      BY <2>1 DEF Confirmed
    <3> QED
      BY <1>2, <2>2, <3>1 DEF Leave
  <2>5. Ordered(rank, next)'
    BY <1>1, <1>3, <1>4, <2>1, <2>3, <2>4, OrderKept
  <2> QED
    BY <1>6, <2>5
<1>10. CASE UndoStatusNote(j)
  <2>1. /\ step[j] = "undo" /\ ownNote[j] = {Created(j)} /\ ~inCleanup[j]
        /\ UNCHANGED <<ownNote, listed, inCleanup, statusPlan>> /\ step'[j] = "done"
    BY <1>2, <1>5, <1>10 DEF UndoStatusNote, Late
  <2>2. \A n \in noteBoard : n[2] # j => n \in noteBoard'
    BY <1>4, <1>10, <2>1 DEF UndoStatusNote
  <2>3. ~Confirmed(j)'
    BY <2>1 DEF Confirmed
  <2>4. Ordered(rank, next)'
    BY SMTT(60), <1>1, <1>2, <1>3, <1>4, <2>1, <2>2, <2>3, OrderKept
  <2> QED
    BY <1>6, <2>4
<1>11. ASSUME NEW n \in listed[j], DeleteSetupNote(j, n) PROVE SomeOrder'
  <2>1. /\ step[j] = "delete" /\ ownNote[j] = {Created(j)}
        /\ UNCHANGED <<ownNote, statusPlan>> /\ inCleanup' = [inCleanup EXCEPT ![j] = TRUE]
        /\ listed' = [listed EXCEPT ![j] = @ \ {n}]
        /\ noteBoard \ {n} \subseteq noteBoard'
    BY <1>5, <1>11 DEF DeleteSetupNote, Late
  <2>2. /\ Cleaning' = Cleaning \cup {j}
        /\ \A i \in StatusJob : listed'[i] \subseteq listed[i]
    BY <1>2, <2>1 DEF Cleaning
  <2>3. Confirmed(j) /\ \A i \in StatusJob : Confirmed(i)' => Confirmed(i)
    BY <1>3, <2>1 DEF Confirmed
  <2>4. n[2] # Before => n[2] \in StatusJob /\ rank[n[2]] < rank[j]
    <3>1. n \in StatusNote /\ ownNote[j] # {}
      BY <1>2, <2>1
    <3>2. n[2] \in StatusJob \cup {Before}
      BY <3>1 DEF StatusNote
    <3>3. n[2] # Before => rank[n[2]] < rank[j]
      BY <1>1, <1>11, <3>1 DEF Ordered
    <3> QED
      BY <3>2, <3>3
  <2>5. ASSUME NEW i \in StatusJob, Confirmed(i)'
        PROVE  Visible(Created(i))' \in noteBoard' \/ \E k \in Cleaning' : rank[i] < rank[k]
    <3>1. Visible(Created(i))' = Visible(Created(i))
      BY <1>3 DEF Visible
    <3>2. CASE \E k \in Cleaning : rank[i] < rank[k]
      BY <2>2, <3>2
    <3>3. CASE Visible(Created(i)) \in noteBoard /\ Visible(Created(i)) # n
      BY <2>1, <3>1, <3>3
    <3>4. CASE Visible(Created(i)) = n
      BY <1>2, <1>4, <2>2, <2>4, <3>4
    <3> QED
      BY <1>1, <2>3, <2>5, <3>2, <3>3, <3>4 DEF Ordered
  <2>6. \E newest \in Cleaning' : \A i \in Cleaning' : rank[i] <= rank[newest]
    <3>1. \A i \in StatusJob : rank[i] \in Nat
      BY <1>1
    <3>2. CASE Cleaning = {}
      BY <2>2, <3>1, <3>2
    <3>3. ASSUME NEW newest \in Cleaning, \A i \in Cleaning : rank[i] <= rank[newest]
          PROVE  \E newer \in Cleaning' : \A i \in Cleaning' : rank[i] <= rank[newer]
      <4>1. newest \in StatusJob /\ \A i \in Cleaning : i \in StatusJob
        BY DEF Cleaning
      <4>2. CASE rank[j] <= rank[newest]
        BY <2>2, <3>3, <4>2
      <4>3. CASE rank[newest] < rank[j]
        BY <2>2, <3>1, <3>3, <4>1, <4>3
      <4> QED
        BY <3>1, <4>1, <4>2, <4>3
    <3> QED
      BY <1>1, <3>2, <3>3 DEF Ordered
  <2>7. \A i \in StatusJob : \A m \in listed'[i] : ownNote'[i] # {} /\ m[2] # Before => rank[m[2]] < rank[i]
    BY <1>1, <2>1, <2>2 DEF Ordered
  <2>8. Cleaning' # {} /\ \A i \in StatusJob : rank[i] < next
    BY <1>1, <2>2 DEF Ordered
  <2>9. Ordered(rank, next)'
    BY <2>5, <2>6, <2>7, <2>8 DEF Ordered
  <2> QED
    BY <1>6, <2>9
<1> QED
  BY <1>7, <1>8, <1>9, <1>10, <1>11 DEF StepOf, StatusJobStep

-----------------------------------------------------------------------------
(* The invariant, and what follows from it                                   *)

LEMMA StatusStarts ==
  ASSUME StatusAssumption, StatusInit
  PROVE  StatusInv /\ SomeOrder
<1>1. statusPlan \in [StatusJob -> StatusPlan]
  BY DEF StatusAssumption, StatusInit
<1>2. StatusTypes
  <2>1. Old \in StatusNote /\ "idle" \in Steps
    BY DEF Old, StatusNote, Steps, Early
  <2>2. noteBoard \subseteq StatusNote
    BY <2>1 DEF StatusInit, Old
  <2>3. step \in [StatusJob -> Steps]
    BY <2>1 DEF StatusInit
  <2> QED
    BY <1>1, <2>2, <2>3 DEF StatusInit, StatusTypes, Steps, Terminal
<1>3. \A j \in StatusJob : StatusJobInv(j)
  <2> SUFFICES ASSUME NEW j \in StatusJob PROVE StatusJobInv(j)
    OBVIOUS
  <2>1. /\ step[j] = "idle" /\ ownNote[j] = {} /\ ~inCleanup[j] /\ lateWrites[j] = 0
        /\ upserted[j] = {} /\ noteBoard = {Old} /\ Old[2] = Before /\ Before # j
        /\ \A i \in StatusJob : listed[i] = {}
    BY DEF StatusInit, StatusAssumption, Old
  <2>2. StatusAsked(j) /\ StatusLate(j) /\ StatusStrict(j) /\ StatusTaken(j)
    BY <2>1 DEF StatusAsked, StatusLate, StatusStrict, StatusTaken, Early, Late, TerminalSteps
  <2>3. StatusListed(j)
    BY <2>1 DEF StatusListed, Early
  <2> QED
    BY <2>2, <2>3 DEF StatusJobInv
<1>4. StatusAlone
  BY DEF StatusInit, StatusAlone, TerminalOnBoard, StatusRunning
<1>5. SomeOrder
  <2> DEFINE rank == [j \in StatusJob |-> 0]
  <2>1. Cleaning = {} /\ \A j \in StatusJob : ~Confirmed(j) /\ listed[j] = {}
    BY DEF StatusInit, Cleaning, Confirmed
  <2>2. rank \in [StatusJob -> Nat] /\ \A j \in StatusJob : rank[j] < 1
    OBVIOUS
  <2>3. <<"live", Before, "setup">> \in noteBoard
    BY DEF StatusInit
  <2> HIDE DEF rank
  <2>4. Ordered(rank, 1)
    BY <2>1, <2>2, <2>3 DEF Ordered
  <2> QED
    BY <2>2, <2>4 DEF SomeOrder, StatusOrder
<1> QED
  BY <1>2, <1>3, <1>4, <1>5 DEF StatusInv

LEMMA StatusKept ==
  ASSUME StatusAssumption, StatusInv, SomeOrder, [StatusNext]_statusVars
  PROVE  (StatusInv /\ SomeOrder)'
<1>1. StatusTypes /\ (\A i \in StatusJob : StatusJobInv(i)) /\ StatusAlone
  BY DEF StatusInv
<1>2. ASSUME NEW j \in StatusJob, StepOf(j) PROVE (StatusInv /\ SomeOrder)'
  <2>1. StatusTypes'
    BY <1>1, <1>2, StatusTypeStep DEF StepOf
  <2>2. StatusJobInv(j)'
    BY <1>1, <1>2, StatusReads, StatusWrites DEF StepOf, StatusJobStep
  <2>3. \A i \in StatusJob : StatusJobInv(i)'
    BY <1>1, <1>2, <2>2, StatusBeside
  <2>4. StatusAlone' /\ SomeOrder'
    BY <1>1, <1>2, AloneStep, OrderStep
  <2> QED
    BY <2>1, <2>3, <2>4 DEF StatusInv
<1>3. ASSUME MergeRequestMoves PROVE (StatusInv /\ SomeOrder)'
  <2>1. StatusInv'
    BY <1>1, <1>3, MovesKeep DEF StatusInv
  <2>2. SomeOrder'
    BY <1>3 DEF MergeRequestMoves, SomeOrder, StatusOrder, Ordered, Confirmed, Cleaning, Created, Visible
  <2> QED
    BY <2>1, <2>2
<1>4. ASSUME UNCHANGED statusVars PROVE (StatusInv /\ SomeOrder)'
  <2>1. UNCHANGED <<noteBoard, mrState, headMoved, policyMoved, statusFaults, statusPlan, step, ownNote,
                    listed, inCleanup, upserted, statusExit, lateWrites, overlapped>>
    BY <1>4 DEF statusVars, mergeRequest, statusHistory
  <2>2. StatusTypes'
    BY <1>1, <2>1 DEF StatusTypes
  <2>3. \A i \in StatusJob : StatusJobInv(i)'
    BY <1>1, <2>1 DEF StatusJobInv, StatusAsked, StatusListed, StatusLate, StatusStrict, StatusTaken,
       MayList, Created, GoneForGood, ExactPolicy
  <2>4. StatusAlone'
    BY <1>1, <2>1 DEF StatusAlone, TerminalOnBoard, StatusRunning
  <2>5. SomeOrder'
    BY <2>1 DEF SomeOrder, StatusOrder, Ordered, Confirmed, Cleaning, Created, Visible
  <2> QED
    BY <2>2, <2>3, <2>4, <2>5 DEF StatusInv
<1> QED
  BY <1>2, <1>3, <1>4 DEF StatusNext, StepOf

LEMMA NotesAreSafe ==
  ASSUME StatusInv, SomeOrder
  PROVE  StatusNotesSafe
<1>1. /\ statusExit \in [StatusJob -> {-1, 0, 1}] /\ noteBoard \subseteq StatusNote
      /\ \A j \in StatusJob : /\ StatusAsked(j) /\ StatusListed(j) /\ StatusLate(j)
                             /\ StatusStrict(j) /\ StatusTaken(j)
  BY DEF StatusInv, StatusTypes, StatusJobInv
<1>2. SetupNoteStands
  <2>1. PICK rank \in [StatusJob -> Nat], next \in Nat : Ordered(rank, next)
    BY DEF SomeOrder, StatusOrder
  <2>2. CASE Cleaning = {}
    <3>1. Old \in noteBoard
      BY <2>1, <2>2 DEF Ordered, Old
    <3> QED
      BY <3>1 DEF SetupNoteStands, Old
  <2>3. ASSUME NEW newest \in Cleaning, \A j \in Cleaning : rank[j] <= rank[newest] PROVE SetupNoteStands
    <3>1. newest \in StatusJob /\ Confirmed(newest) /\ statusPlan[newest].reason = "setup"
      BY <1>1 DEF Cleaning, Confirmed, StatusAsked
    <3>2. \A j \in Cleaning : rank[j] \in Nat
      BY <2>1 DEF Cleaning
    <3>3. Visible(Created(newest)) \in noteBoard
      <4>1. Visible(Created(newest)) \in noteBoard \/ \E k \in Cleaning : rank[newest] < rank[k]
        BY <2>1, <3>1 DEF Ordered
      <4>2. \A k \in Cleaning : ~(rank[newest] < rank[k])
        BY <2>3, <3>2
      <4> QED
        BY <4>1, <4>2
    <3>4. Visible(Created(newest))[3] = "setup"
      BY <3>1 DEF Created, Visible
    <3> QED
      BY <3>3, <3>4 DEF SetupNoteStands
  <2> QED
    BY <2>1, <2>2, <2>3 DEF Ordered
<1>3. OneLateStatusWrite
  BY <1>1 DEF OneLateStatusWrite, StatusLate
<1>4. StrictTerminalIsFinal
  BY <1>1 DEF StrictTerminalIsFinal, StatusStrict
<1>5. TerminalNoteUpserted
  <2> SUFFICES ASSUME ~overlapped PROVE Cardinality(TerminalOnBoard) <= 1
    BY DEF TerminalNoteUpserted, TerminalOnBoard
  <2>1. \A m, n \in TerminalOnBoard : m = n
    BY DEF StatusInv, StatusAlone
  <2>2. CASE TerminalOnBoard = {}
    BY <2>2, FS_EmptySet
  <2>3. ASSUME NEW n \in TerminalOnBoard PROVE Cardinality(TerminalOnBoard) <= 1
    <3>1. TerminalOnBoard = {n}
      BY <2>1, <2>3
    <3>2. Cardinality({n}) = 1
      BY FS_Singleton
    <3> QED
      BY <3>1, <3>2
  <2> QED
    BY <2>2, <2>3
<1>6. RefusedTakesNoteBack
  BY <1>1 DEF RefusedTakesNoteBack, StatusTaken, StatusAsked
<1> QED
  BY <1>2, <1>3, <1>4, <1>5, <1>6 DEF StatusNotesSafe

(* A status job, whatever other jobs, people and the network do meanwhile:   *)
(* some setup note always stands, at most one write comes late, a strict     *)
(* gate passes only on a merged request whose note it saw, jobs that do not  *)
(* overlap leave one terminal note, and a refused job takes its note back    *)
(* (post_pre_execution_status, post_terminal_merge_request_status).          *)
THEOREM StatusNotesHold ==
  ASSUME StatusAssumption
  PROVE  StatusSpec => []StatusNotesSafe
<1>1. StatusInit => StatusInv /\ SomeOrder
  BY StatusStarts
<1>2. StatusInv /\ SomeOrder /\ [StatusNext]_statusVars => (StatusInv /\ SomeOrder)'
  BY StatusKept
<1>3. StatusInv /\ SomeOrder => StatusNotesSafe
  BY NotesAreSafe
<1> QED
  BY <1>1, <1>2, <1>3, PTL DEF StatusSpec

-----------------------------------------------------------------------------
(* GitLabClient: lists and pages                                             *)

LEMMA OnAppend ==
  ASSUME NEW S, NEW s \in Seq(S), NEW x \in S
  PROVE  /\ Append(s, x) \in Seq(S) /\ Len(Append(s, x)) = Len(s) + 1
         /\ \A i \in 1..Len(s) : Append(s, x)[i] = s[i]
         /\ Append(s, x)[Len(s) + 1] = x
         /\ On(Append(s, x)) = On(s) \cup {x}
<1>1. /\ Append(s, x) \in Seq(S) /\ Len(Append(s, x)) = Len(s) + 1
      /\ \A i \in 1..Len(s) : Append(s, x)[i] = s[i]
      /\ Append(s, x)[Len(s) + 1] = x
  OBVIOUS
<1>2. DOMAIN Append(s, x) = DOMAIN s \cup {Len(s) + 1} /\ DOMAIN s = 1..Len(s)
  OBVIOUS
<1>3. On(Append(s, x)) = On(s) \cup {x}
  BY <1>1, <1>2 DEF On
<1> QED
  BY <1>1, <1>3

LEMMA WithoutFacts ==
  ASSUME NEW S, NEW s \in Seq(S), NEW i \in DOMAIN s
  PROVE  /\ Without(s, i) \in Seq(S)
         /\ On(Without(s, i)) \subseteq On(s)
         /\ \A n \in On(s) : n # s[i] => n \in On(Without(s, i))
         /\ \A a, b \in DOMAIN Without(s, i) :
              Without(s, i)[a] = Without(s, i)[b] => a = b \/ \E c, d \in DOMAIN s :
                c # d /\ s[c] = Without(s, i)[a] /\ s[d] = Without(s, i)[a]
<1> DEFINE t == Without(s, i)
           from(k) == IF k < i THEN k ELSE k + 1
<1>1. /\ Len(s) \in Nat /\ DOMAIN s = 1..Len(s) /\ i \in 1..Len(s) /\ Len(s) - 1 \in Nat
      /\ \A k \in 1..Len(s) : s[k] \in S
  OBVIOUS
<1>2. \A k \in 1..Len(s) - 1 : from(k) \in 1..Len(s) /\ from(k) # i
  BY <1>1
<1>3. t = [k \in 1..Len(s) - 1 |-> s[from(k)]]
  BY DEF Without
<1>4. t \in Seq(S) /\ DOMAIN t = 1..Len(s) - 1 /\ \A k \in DOMAIN t : t[k] = s[from(k)]
  BY <1>1, <1>2, <1>3
<1>5. \A k \in 1..Len(s) : k # i => \E m \in DOMAIN t : from(m) = k
  <2> SUFFICES ASSUME NEW k \in 1..Len(s), k # i PROVE \E m \in DOMAIN t : from(m) = k
    OBVIOUS
  <2>1. CASE k < i
    BY <1>1, <1>4, <2>1
  <2>2. CASE k > i
    <3>1. k - 1 \in DOMAIN t /\ from(k - 1) = k
      BY <1>1, <1>4, <2>2
    <3> QED
      BY <3>1
  <2> QED
    BY <1>1, <2>1, <2>2
<1>6. \A a, b \in DOMAIN t : a # b => from(a) # from(b)
  BY <1>1, <1>4
<1> HIDE DEF t, from
<1>7. On(t) \subseteq On(s)
  BY <1>1, <1>2, <1>4 DEF On
<1>8. \A n \in On(s) : n # s[i] => n \in On(t)
  BY <1>1, <1>4, <1>5 DEF On
<1>9. \A a, b \in DOMAIN t : t[a] = t[b] => a = b \/ \E c, d \in DOMAIN s : c # d /\ s[c] = t[a] /\ s[d] = t[a]
  BY <1>1, <1>2, <1>4, <1>6
<1> QED
  BY <1>4, <1>7, <1>8, <1>9 DEF t

LEMMA PageStarts ==
  ASSUME ClientAssumption, NEW p \in Nat \ {0}
  PROVE  /\ (p - 1) * PageSize \in Nat
         /\ (p + 1 - 1) * PageSize = (p - 1) * PageSize + PageSize
<1>1. PageSize \in Nat /\ p - 1 \in Nat
  BY DEF ClientAssumption
<1>2. \A q \in Nat, m \in Nat : (q + 1) * m = q * m + m
  OBVIOUS
<1>3. p + 1 - 1 = (p - 1) + 1
  OBVIOUS
<1> QED
  BY <1>1, <1>2, <1>3

PageLength(n, from, limit) == IF n <= from THEN 0 ELSE IF n - from < limit THEN n - from ELSE limit

LEMMA PageLengths ==
  ASSUME NEW n \in Nat, NEW from \in Nat, NEW limit \in Nat \ {0}
  PROVE  /\ PageLength(n, from, limit) \in Nat
         /\ PageLength(n, from, limit) = 0 <=> n <= from
         /\ \A i \in 1..PageLength(n, from, limit) : from + i \in 1..n
         /\ PageLength(n, from, limit) < limit =>
              n < from + limit /\ (n > from => PageLength(n, from, limit) = n - from)
         /\ ~(PageLength(n, from, limit) < limit) =>
              n >= from + limit /\ PageLength(n, from, limit) = limit
<1>1. CASE n <= from
  BY <1>1 DEF PageLength
<1>2. CASE n > from /\ n - from < limit
  BY <1>2 DEF PageLength
<1>3. CASE n > from /\ ~(n - from < limit)
  BY <1>3 DEF PageLength
<1> QED
  BY <1>1, <1>2, <1>3

LEMMA PageFacts ==
  ASSUME ClientAssumption, NEW S, NEW s \in Seq(S), NEW p \in Nat \ {0}, NEW from \in Nat,
         from = (p - 1) * PageSize
  PROVE  /\ PageOf(s, p) \in Seq(S)
         /\ \A i \in 1..Len(PageOf(s, p)) : PageOf(s, p)[i] = s[from + i] /\ from + i \in 1..Len(s)
         /\ PageOf(s, p) = <<>> <=> Len(s) <= from
         /\ IF Len(PageOf(s, p)) < PageSize
            THEN Len(s) < from + PageSize /\ (Len(s) > from => Len(PageOf(s, p)) = Len(s) - from)
            ELSE Len(s) >= from + PageSize /\ Len(PageOf(s, p)) = PageSize
<1> DEFINE n == Len(s)
           size == PageLength(n, from, PageSize)
           got == [i \in 1..size |-> s[from + i]]
<1>1. PageOf(s, p) = got
  BY DEF PageOf, PageLength
<1>2. n \in Nat /\ PageSize \in Nat \ {0} /\ DOMAIN s = 1..n /\ \A i \in 1..n : s[i] \in S
  BY DEF ClientAssumption
<1> HIDE DEF n, size
<1>3. /\ size \in Nat
      /\ size = 0 <=> n <= from
      /\ \A i \in 1..size : from + i \in 1..n
      /\ size < PageSize => n < from + PageSize /\ (n > from => size = n - from)
      /\ ~(size < PageSize) => n >= from + PageSize /\ size = PageSize
  BY ONLY <1>2, from \in Nat, PageLengths DEF size
<1>4. got \in Seq(S) /\ Len(got) = size /\ \A i \in 1..size : got[i] = s[from + i]
  BY <1>2, <1>3
<1> HIDE DEF got
<1>5. got = <<>> <=> size = 0
  BY ONLY <1>3, <1>4, EmptySeq
<1> QED
  BY <1>1, <1>3, <1>4, <1>5 DEF n

LEMMA Joined ==
  ASSUME NEW S, NEW s \in Seq(S), NEW t \in Seq(S)
  PROVE  /\ s \o t \in Seq(S) /\ Len(s \o t) = Len(s) + Len(t)
         /\ \A i \in 1..Len(s) : (s \o t)[i] = s[i]
         /\ \A i \in 1..Len(t) : (s \o t)[Len(s) + i] = t[i]
         /\ On(s \o t) = On(s) \cup On(t)
<1>1. /\ s \o t \in Seq(S) /\ Len(s \o t) = Len(s) + Len(t)
      /\ \A i \in 1..Len(s) : (s \o t)[i] = s[i]
      /\ \A i \in 1..Len(t) : (s \o t)[Len(s) + i] = t[i]
      /\ Len(s) \in Nat /\ Len(t) \in Nat
      /\ DOMAIN s = 1..Len(s) /\ DOMAIN t = 1..Len(t) /\ DOMAIN (s \o t) = 1..(Len(s) + Len(t))
  OBVIOUS
<1> DEFINE u == s \o t
           m == Len(s)
           n == Len(t)
<1> HIDE DEF u, m, n
<1>2. /\ m \in Nat /\ n \in Nat /\ DOMAIN s = 1..m /\ DOMAIN t = 1..n /\ DOMAIN u = 1..(m + n)
      /\ \A i \in 1..m : u[i] = s[i]
      /\ \A i \in 1..n : u[m + i] = t[i]
  BY <1>1 DEF u, m, n
<1>3. \A i \in 1..(m + n) : i \in 1..m \/ (i - m \in 1..n /\ m + (i - m) = i)
  BY <1>2
<1>4. \A i \in 1..n : m + i \in 1..(m + n)
  BY <1>2
<1>5. \A i \in 1..m : i \in 1..(m + n)
  BY <1>2
<1>6. \A i \in DOMAIN u : u[i] \in On(s) \cup On(t)
  <2> SUFFICES ASSUME NEW i \in 1..(m + n) PROVE u[i] \in On(s) \cup On(t)
    BY <1>2
  <2>1. CASE i \in 1..m
    BY <1>2, <2>1 DEF On
  <2>2. CASE i - m \in 1..n /\ m + (i - m) = i
    <3>1. u[i] = t[i - m]
      BY <1>2, <2>2
    <3> QED
      BY <1>2, <2>2, <3>1 DEF On
  <2> QED
    BY <1>3, <2>1, <2>2
<1>7. (\A i \in 1..m : s[i] \in On(u)) /\ (\A i \in 1..n : t[i] \in On(u))
  BY <1>2, <1>4, <1>5 DEF On
<1>8. On(u) = On(s) \cup On(t)
  BY ZenonT(60), <1>2, <1>6, <1>7 DEF On
<1> QED
  BY <1>1, <1>8 DEF u

LEMMA Backwards ==
  ASSUME NEW S, NEW s \in Seq(S)
  PROVE  /\ Reversed(s) \in Seq(S) /\ Len(Reversed(s)) = Len(s)
         /\ \A i \in 1..Len(s) : Reversed(s)[i] = s[Len(s) + 1 - i]
         /\ On(Reversed(s)) = On(s)
<1>1. /\ Len(s) \in Nat /\ DOMAIN s = 1..Len(s)
      /\ \A i \in 1..Len(s) : s[i] \in S /\ Len(s) + 1 - i \in 1..Len(s)
  OBVIOUS
<1>2. Reversed(s) = [i \in 1..Len(s) |-> s[Len(s) + 1 - i]]
  BY <1>1 DEF Reversed
<1>3. Reversed(s) \in Seq(S) /\ Len(Reversed(s)) = Len(s) /\ DOMAIN Reversed(s) = 1..Len(s)
  BY <1>1, <1>2
<1>4. \A i \in 1..Len(s) : Reversed(s)[i] = s[Len(s) + 1 - i]
  BY <1>2
<1>5. \A i \in 1..Len(s) : Len(s) + 1 - (Len(s) + 1 - i) = i
  BY <1>1
<1>6. On(Reversed(s)) = On(s)
  <2> DEFINE r == Reversed(s)
             m == Len(s)
  <2> HIDE DEF r, m
  <2>1. /\ DOMAIN s = 1..m /\ DOMAIN r = 1..m
        /\ \A i \in 1..m : m + 1 - i \in 1..m /\ r[i] = s[m + 1 - i] /\ m + 1 - (m + 1 - i) = i
    BY <1>1, <1>3, <1>4, <1>5 DEF r, m
  <2>2. \A i \in 1..m : r[i] \in On(s) /\ s[i] \in On(r)
    BY <2>1 DEF On
  <2>3. On(r) = On(s)
    BY <2>1, <2>2 DEF On
  <2> QED
    BY <2>3 DEF r
<1> QED
  BY <1>3, <1>4, <1>6

-----------------------------------------------------------------------------
(* What one page adds                                                        *)

Notes == Others \cup {Mine}

LEMMA ReadStarts ==
  ASSUME ClientAssumption, ClientTypes
  PROVE  /\ page \in Nat \ {0} /\ Read \in Nat /\ PageSize \in Nat \ {0} /\ MaxPages \in Nat \ {0}
         /\ page = 1 => Read = 0
         /\ page' = page + 1 => Read' = Read + PageSize
         /\ page' = 1 => Read' = 0
<1>1. page \in Nat \ {0} /\ PageSize \in Nat \ {0} /\ MaxPages \in Nat \ {0}
  BY DEF ClientTypes, ClientAssumption
<1>2. Read \in Nat /\ (page + 1 - 1) * PageSize = Read + PageSize
  BY <1>1, PageStarts DEF Read
<1>3. (1 - 1) * PageSize = 0
  BY <1>1
<1> QED
  BY <1>1, <1>2, <1>3 DEF Read

(* Newest first: a lasting note still to come is on this page or further on. *)
LEMMA SnapshotPage ==
  ASSUME ClientAssumption, ClientTypes, NEW n, ToCome(n), NEW got, got = PageOf(Reversed(shelf), page)
  PROVE  /\ n \in On(got) \/ \E i \in DOMAIN shelf : shelf[i] = n /\ Len(shelf) - i >= Read + PageSize
         /\ Len(got) < PageSize => n \in On(got)
         /\ got # <<>>
<1> DEFINE m == Len(shelf)
           s == Reversed(shelf)
           size == Len(got)
<1>1. shelf \in Seq(Notes) /\ m \in Nat /\ DOMAIN shelf = 1..m
  BY DEF ClientTypes, Notes
<1>2. s \in Seq(Notes) /\ Len(s) = m /\ \A i \in 1..m : s[i] = shelf[m + 1 - i]
  BY <1>1, Backwards
<1>3. page \in Nat \ {0} /\ Read \in Nat /\ PageSize \in Nat \ {0}
  BY ReadStarts
<1> HIDE DEF m, s
<1>4. got = PageOf(s, page) /\ Read = (page - 1) * PageSize
  BY DEF s, Read
<1>5. /\ got \in Seq(Notes)
      /\ \A i \in 1..size : got[i] = s[Read + i]
      /\ got = <<>> <=> m <= Read
      /\ IF size < PageSize THEN m < Read + PageSize /\ (m > Read => size = m - Read)
         ELSE m >= Read + PageSize /\ size = PageSize
  BY ONLY <1>2, <1>3, <1>4, PageFacts, ClientAssumption
<1>6. size \in Nat /\ DOMAIN got = 1..size
  BY <1>5
<1> HIDE DEF size
<1>7. PICK i \in 1..m : shelf[i] = n /\ m - i >= Read
  BY <1>1 DEF ToCome, m
<1>8. m > Read /\ m - i + 1 \in 1..m /\ m + 1 - (m - i + 1) = i
  BY ONLY <1>1, <1>3, <1>7
<1>9. CASE m - i + 1 <= Read + PageSize
  <2> DEFINE k == m - i + 1 - Read
  <2>1. k \in 1..size /\ Read + k = m - i + 1
    BY ONLY <1>1, <1>3, <1>5, <1>6, <1>7, <1>8, <1>9
  <2> HIDE DEF k
  <2>2. got[k] = n
    BY ONLY <1>2, <1>5, <1>7, <1>8, <2>1
  <2>3. n \in On(got)
    BY <1>6, <2>1, <2>2 DEF On
  <2>4. got # <<>>
    BY <1>3, <1>1, <1>5, <1>8
  <2> QED
    BY <2>3, <2>4
<1>10. CASE ~(m - i + 1 <= Read + PageSize)
  <2>1. m - i >= Read + PageSize /\ ~(m < Read + PageSize) /\ ~(m <= Read)
    BY ONLY <1>1, <1>3, <1>7, <1>8, <1>10
  <2>2. ~(size < PageSize) /\ got # <<>>
    BY ONLY <1>5, <2>1
  <2> QED
    BY <1>1, <1>7, <2>1, <2>2 DEF m, size
<1> QED
  BY <1>9, <1>10

(* Oldest first: what was read stays the beginning of the list.              *)
LEMMA ReconcilePage ==
  ASSUME ClientAssumption, ClientTypes, Len(items) = Read, Read <= Len(shelf),
         \A i \in 1..Read : items[i] = shelf[i],
         NEW got, got = PageOf(shelf, page),
         NEW all, all = items \o got
  PROVE  /\ \A i \in 1..Len(all) : all[i] = shelf[i]
         /\ Len(got) < PageSize => Len(all) = Len(shelf)
         /\ ~(Len(got) < PageSize) => Len(all) = Read + PageSize /\ Len(all) <= Len(shelf)
         /\ got = <<>> => Len(items) = Len(shelf)
         /\ got # <<>> => Len(shelf) > Read
<1> DEFINE m == Len(shelf)
           size == Len(got)
           whole == Len(all)
<1>1. shelf \in Seq(Notes) /\ m \in Nat /\ items \in Seq(Notes)
  BY DEF ClientTypes, Notes
<1>2. page \in Nat \ {0} /\ Read \in Nat /\ PageSize \in Nat \ {0} /\ Read = (page - 1) * PageSize
  BY ReadStarts DEF Read
<1>3. /\ got \in Seq(Notes)
      /\ \A i \in 1..size : got[i] = shelf[Read + i]
      /\ got = <<>> <=> m <= Read
      /\ IF size < PageSize THEN m < Read + PageSize /\ (m > Read => size = m - Read)
         ELSE m >= Read + PageSize /\ size = PageSize
  BY ONLY <1>1, <1>2, PageFacts, ClientAssumption, got = PageOf(shelf, page)
<1>4. /\ whole = Len(items) + size
      /\ \A i \in 1..Len(items) : all[i] = items[i]
      /\ \A i \in 1..size : all[Len(items) + i] = got[i]
  <2>1. items \in Seq(Notes) /\ got \in Seq(Notes)
    BY <1>1, <1>3
  <2> QED
    BY ONLY <2>1, Joined, all = items \o got
<1>5. size \in Nat /\ (size = 0 <=> got = <<>>)
  <2>1. got \in Seq(Notes)
    BY <1>3
  <2> QED
    BY ONLY <2>1, EmptySeq
<1> HIDE DEF m, size, whole
<1>6. whole = Read + size /\ Read <= m
  BY <1>4 DEF m
<1>7. \A i \in 1..whole : all[i] = shelf[i]
  <2> SUFFICES ASSUME NEW i \in 1..whole PROVE all[i] = shelf[i]
    OBVIOUS
  <2>1. CASE i <= Read
    <3>1. i \in 1..Read
      BY ONLY <1>2, <1>5, <1>6, <2>1, i \in 1..whole
    <3> QED
      BY <1>4, <3>1
  <2>2. CASE i > Read
    <3>1. i - Read \in 1..size /\ Read + (i - Read) = i
      BY ONLY <1>2, <1>5, <1>6, <2>2, i \in 1..whole
    <3>2. all[Read + (i - Read)] = got[i - Read] /\ got[i - Read] = shelf[Read + (i - Read)]
      BY <1>3, <1>4, <3>1
    <3> QED
      BY <3>1, <3>2
  <2>3. i <= Read \/ i > Read
    BY ONLY <1>2, <1>5, <1>6, i \in 1..whole
  <2> QED
    BY <2>1, <2>2, <2>3
<1>8. size < PageSize => whole = m
  BY ONLY <1>1, <1>2, <1>3, <1>5, <1>6
<1>9. ~(size < PageSize) => whole = Read + PageSize /\ whole <= m
  BY ONLY <1>1, <1>2, <1>3, <1>5, <1>6
<1>10. (got = <<>> => Read = m) /\ (got # <<>> => m > Read)
  BY ONLY <1>1, <1>2, <1>3, <1>6
<1> QED
  BY <1>7, <1>8, <1>9, <1>10 DEF m, size, whole

LEMMA Matching ==
  ASSUME NEW found \in Seq(Notes)
  PROVE  /\ Cardinality(MatchesIn(found)) = 1 => Mine \in On(found)
         /\ Len(found) = Len(shelf) /\ shelf \in Seq(Notes)
              /\ (\A i \in 1..Len(found) : found[i] = shelf[i])
              /\ (\A i, j \in DOMAIN shelf : shelf[i] = Mine /\ shelf[j] = Mine => i = j)
              /\ Mine \in On(shelf)
            => Cardinality(MatchesIn(found)) = 1
<1>1. Cardinality(MatchesIn(found)) = 1 => Mine \in On(found)
  <2>1. CASE MatchesIn(found) = {}
    BY <2>1, FS_EmptySet
  <2>2. CASE MatchesIn(found) # {}
    BY <2>2 DEF MatchesIn, On
  <2> QED
    BY <2>1, <2>2
<1>2. ASSUME Len(found) = Len(shelf), shelf \in Seq(Notes),
             \A i \in 1..Len(found) : found[i] = shelf[i],
             \A i, j \in DOMAIN shelf : shelf[i] = Mine /\ shelf[j] = Mine => i = j,
             Mine \in On(shelf)
      PROVE  Cardinality(MatchesIn(found)) = 1
  <2>1. DOMAIN found = 1..Len(found) /\ DOMAIN shelf = 1..Len(found)
    BY <1>2
  <2>2. PICK i \in DOMAIN found : shelf[i] = Mine
    BY <1>2, <2>1 DEF On
  <2>3. MatchesIn(found) = {i}
    BY <1>2, <2>1, <2>2 DEF MatchesIn
  <2>4. Cardinality({i}) = 1
    BY FS_Singleton
  <2> QED
    BY <2>3, <2>4
<1> QED
  BY <1>1, <1>2

-----------------------------------------------------------------------------
(* The client's invariant, step by step                                      *)

LEMMA PeopleMove ==
  ASSUME ClientAssumption, ClientInv, phase \notin ClientEnded,
         \/ \E n \in Others : OthersAdd(n)
         \/ \E i \in DOMAIN shelf : OthersDelete(i)
  PROVE  ClientInv'
<1>1. ClientTypes /\ Believed /\ SnapshotSoFar /\ ReconciledSoFar
  BY DEF ClientInv
<1>2. shelf \in Seq(Notes) /\ DOMAIN shelf = 1..Len(shelf) /\ Len(shelf) \in Nat /\ lasting \subseteq On(shelf)
  BY <1>1 DEF ClientTypes, Notes
<1>3. UNCHANGED <<phase, attempt, page, items, outcome, recorded, badAnswers, creates>>
  BY DEF OthersAdd, OthersDelete, clientCall, clientHistory
<1>4. Read' = Read /\ Read \in Nat
  BY <1>1, <1>3, ReadStarts DEF Read
<1>5. ASSUME NEW n \in Others, OthersAdd(n) PROVE ClientInv'
  <2>1. /\ n \in Notes /\ n # Mine /\ shelf' = Append(shelf, n) /\ unborn' \subseteq unborn
        /\ UNCHANGED <<lasting, deleted>>
    BY <1>5 DEF OthersAdd, ClientAssumption, Notes, clientHistory
  <2>2. /\ shelf' \in Seq(Notes) /\ Len(shelf') = Len(shelf) + 1
        /\ \A i \in 1..Len(shelf) : shelf'[i] = shelf[i]
        /\ shelf'[Len(shelf) + 1] = n
        /\ On(shelf') = On(shelf) \cup {n} /\ DOMAIN shelf' = 1..Len(shelf')
    BY <1>2, <2>1, OnAppend
  <2>3. \A i \in DOMAIN shelf' : i \in DOMAIN shelf \/ i = Len(shelf) + 1
    BY <1>2, <2>2
  <2>4. ClientTypes'
    BY <1>1, <1>2, <1>3, <2>1, <2>2 DEF ClientTypes, Notes
  <2>5. Believed'
    <3>1. \A i, j \in DOMAIN shelf' : shelf'[i] = Mine /\ shelf'[j] = Mine => i = j
      BY <1>1, <1>2, <2>1, <2>2, <2>3 DEF Believed
    <3>2. Mine \in On(shelf') <=> Mine \in On(shelf)
      BY <2>1, <2>2
    <3> QED
      BY <1>1, <1>3, <2>1, <3>1, <3>2 DEF Believed
  <2>6. \A m : ToCome(m) => ToCome(m)'
    <3> SUFFICES ASSUME NEW m, NEW i \in DOMAIN shelf, shelf[i] = m, Len(shelf) - i >= Read PROVE ToCome(m)'
      BY DEF ToCome
    <3>1. i \in DOMAIN shelf' /\ shelf'[i] = m /\ Len(shelf') - i >= Read'
      BY <1>2, <1>4, <2>2
    <3> QED
      BY <3>1 DEF ToCome
  <2>7. SnapshotSoFar'
    BY <1>1, <1>3, <2>1, <2>6 DEF SnapshotSoFar
  <2>8. ReconciledSoFar'
    <3> SUFFICES ASSUME phase = "reconcile", ~deleted
                 PROVE  /\ Len(items) = Read /\ Read <= Len(shelf')
                        /\ \A i \in 1..Read : items[i] = shelf'[i]
      BY <1>3, <1>4, <2>1 DEF ReconciledSoFar
    <3>1. Len(items) = Read /\ Read <= Len(shelf) /\ \A i \in 1..Read : items[i] = shelf[i]
      BY <1>1 DEF ReconciledSoFar
    <3>2. \A i \in 1..Read : i \in 1..Len(shelf)
      BY <1>2, <1>4, <3>1
    <3> QED
      BY <1>2, <1>4, <2>2, <3>1, <3>2
  <2>9. AmbiguousCreateIsFound'
    BY <1>3 DEF AmbiguousCreateIsFound, ClientEnded
  <2> QED
    BY <2>4, <2>5, <2>7, <2>8, <2>9 DEF ClientInv
<1>6. ASSUME NEW i \in DOMAIN shelf, OthersDelete(i) PROVE ClientInv'
  <2>1. /\ shelf[i] # Mine /\ shelf' = Without(shelf, i) /\ lasting' = lasting \ {shelf[i]}
        /\ deleted' = (deleted \/ (phase \in Listing /\ page > 1)) /\ UNCHANGED unborn
    BY <1>6 DEF OthersDelete
  <2>2. /\ shelf' \in Seq(Notes) /\ On(shelf') \subseteq On(shelf)
        /\ \A n \in On(shelf) : n # shelf[i] => n \in On(shelf')
        /\ \A a, b \in DOMAIN shelf' : shelf'[a] = shelf'[b] => a = b \/ \E c, d \in DOMAIN shelf :
             c # d /\ shelf[c] = shelf'[a] /\ shelf[d] = shelf'[a]
        /\ DOMAIN shelf' = 1..Len(shelf') /\ Len(shelf') \in Nat
    <3> DEFINE t == Without(shelf, i)
    <3>1. /\ t \in Seq(Notes) /\ On(t) \subseteq On(shelf)
          /\ \A n \in On(shelf) : n # shelf[i] => n \in On(t)
          /\ \A a, b \in DOMAIN t : t[a] = t[b] => a = b \/ \E c, d \in DOMAIN shelf :
               c # d /\ shelf[c] = t[a] /\ shelf[d] = t[a]
      <4>1. shelf \in Seq(Notes) /\ i \in DOMAIN shelf
        BY <1>2
      <4> QED
        BY ONLY <4>1, WithoutFacts
    <3> HIDE DEF t
    <3>2. shelf' = t
      BY <2>1 DEF t
    <3>3. On(shelf') = On(t)
      BY <3>2 DEF On
    <3>4. DOMAIN shelf' = 1..Len(shelf') /\ Len(shelf') \in Nat
      BY <3>1, <3>2
    <3> QED
      BY <3>1, <3>2, <3>3, <3>4
  <2>3. lasting' \subseteq On(shelf') /\ deleted' \in BOOLEAN
    BY <1>1, <1>2, <2>1, <2>2 DEF ClientTypes
  <2>4. ClientTypes'
    BY <1>1, <1>3, <2>1, <2>2, <2>3 DEF ClientTypes, Notes
  <2>5. Believed'
    <3>1. \A a, b \in DOMAIN shelf' : shelf'[a] = Mine /\ shelf'[b] = Mine => a = b
      BY <1>1, <2>2 DEF Believed
    <3>2. Mine \in On(shelf') <=> Mine \in On(shelf)
      BY <2>1, <2>2
    <3> QED
      BY <1>1, <1>3, <2>1, <3>1, <3>2 DEF Believed
  <2>6. ~deleted' /\ phase \in Listing => ~deleted /\ page = 1 /\ Read = 0
    <3>1. page \in Nat \ {0} /\ (page = 1 => Read = 0)
      BY <1>1, ReadStarts
    <3>2. ~deleted' /\ phase \in Listing => ~deleted /\ ~(page > 1)
      BY <2>1
    <3> QED
      BY <3>1, <3>2
  <2>7. SnapshotSoFar'
    <3>1. ASSUME phase = "snapshot", ~deleted', NEW n \in lasting' PROVE ToCome(n)'
      <4>1. PICK k \in DOMAIN shelf' : shelf'[k] = n
        BY <2>3, <3>1 DEF On
      <4>2. Len(shelf') - k >= Read'
        BY <1>4, <2>2, <2>6, <3>1 DEF Listing
      <4> QED
        BY <4>1, <4>2 DEF ToCome
    <3>2. phase = "create" /\ ~deleted' => lasting' \subseteq On(items)
      BY <1>1, <2>1 DEF SnapshotSoFar
    <3> QED
      BY <1>3, <3>1, <3>2 DEF SnapshotSoFar
  <2>8. ReconciledSoFar'
    <3> SUFFICES ASSUME phase = "reconcile", ~deleted'
                 PROVE  /\ Len(items) = Read /\ Read <= Len(shelf')
                        /\ \A k \in 1..Read : items[k] = shelf'[k]
      BY <1>3, <1>4 DEF ReconciledSoFar
    <3>1. Read = 0 /\ Len(items) = Read
      BY <1>1, <2>6 DEF ReconciledSoFar, Listing
    <3> QED
      BY <2>2, <3>1
  <2>9. AmbiguousCreateIsFound'
    BY <1>3 DEF AmbiguousCreateIsFound, ClientEnded
  <2> QED
    BY <2>4, <2>5, <2>7, <2>8, <2>9 DEF ClientInv
<1> QED
  BY <1>5, <1>6

LEMMA ClientBegins ==
  ASSUME ClientAssumption, ClientInv, ClientStart \/ ResolveUser
  PROVE  ClientInv'
<1>1. ClientTypes /\ Believed
  BY DEF ClientInv
<1>2. shelf \in Seq(Notes) /\ DOMAIN shelf = 1..Len(shelf) /\ Len(shelf) \in Nat
  BY <1>1 DEF ClientTypes, Notes
<1>3. /\ phase \in {"idle", "user"} /\ items = <<>> /\ page = 1 /\ lasting = {} /\ Mine \notin On(shelf)
      /\ UNCHANGED <<page, items, outcome, recorded, creates, deleted>>
  BY <1>1 DEF ClientStart, ResolveUser, Believed, clientHistory
<1>4. CASE ClientStart
  <2>1. /\ shelf' \in Seq(Others) /\ phase' = "user" /\ unborn' \subseteq Newcomers
        /\ UNCHANGED <<attempt, badAnswers, lasting>>
    BY <1>4 DEF ClientStart, ClientAssumption, clientHistory
  <2>2. shelf' \in Seq(Notes) /\ Mine \notin On(shelf')
    BY <2>1 DEF Notes, On, ClientAssumption
  <2>3. ClientTypes'
    BY <1>1, <1>3, <2>1, <2>2 DEF ClientTypes, Notes
  <2>4. Believed'
    BY <1>1, <1>3, <2>1, <2>2 DEF Believed, On
  <2> QED
    BY <2>1, <2>3, <2>4 DEF ClientInv, SnapshotSoFar, ReconciledSoFar, AmbiguousCreateIsFound
<1>5. CASE ResolveUser
  <2>1. UNCHANGED <<shelf, unborn>> /\ phase = "user"
    BY <1>5 DEF ResolveUser
  <2>2. PICK a \in ReadAnswer :
          /\ Answered(a)
          /\ IF a = "ok" THEN phase' = "snapshot" /\ attempt' = 1 /\ lasting' = On(shelf)
             ELSE /\ UNCHANGED lasting
                  /\ IF GivesUp(a) THEN phase' = "refused" /\ UNCHANGED attempt
                                   ELSE attempt' = attempt + 1 /\ UNCHANGED phase
    BY <1>5 DEF ResolveUser
  <2>3. badAnswers' \in Nat
    BY <1>1, <2>2 DEF Answered, BadAnswer, ClientTypes
  <2>4. attempt' \in 1..MaxAttempts
    BY <1>1, <2>2 DEF GivesUp, ClientTypes, ClientAssumption, ReadAnswer
  <2>5. /\ phase' \in {"snapshot", "refused", "user"}
        /\ lasting' \subseteq On(shelf)
        /\ phase' = "user" => lasting' = {}
    BY <1>3, <2>1, <2>2
  <2>6. ClientTypes'
    BY <1>1, <1>3, <2>1, <2>3, <2>4, <2>5 DEF ClientTypes, ClientEnded, Listing
  <2>7. Believed'
    BY <1>1, <1>3, <2>1, <2>5 DEF Believed
  <2>8. SnapshotSoFar'
    <3>1. ASSUME NEW n \in lasting' PROVE ToCome(n)'
      <4>1. PICK k \in DOMAIN shelf : shelf[k] = n
        BY <2>5, <3>1 DEF On
      <4>2. Read' = 0 /\ Len(shelf') - k >= 0
        BY <1>1, <1>2, <1>3, <2>1, ReadStarts
      <4> QED
        BY <2>1, <4>1, <4>2 DEF ToCome
    <3> QED
      BY <2>5, <3>1 DEF SnapshotSoFar
  <2> QED
    BY <2>5, <2>6, <2>7, <2>8 DEF ClientInv, ReconciledSoFar, AmbiguousCreateIsFound
<1> QED
  BY <1>4, <1>5

LEMMA CreateStep ==
  ASSUME ClientAssumption, ClientInv, CreateInline
  PROVE  ClientInv'
<1>1. ClientTypes /\ Believed
  BY DEF ClientInv
<1>2. /\ shelf \in Seq(Notes) /\ DOMAIN shelf = 1..Len(shelf) /\ Len(shelf) \in Nat /\ items \in Seq(Notes)
      /\ phase = "create" /\ creates = 0 /\ Mine \notin On(shelf) /\ Mine \notin On(items) /\ Mine \in Notes
      /\ creates' = 1 /\ UNCHANGED unborn
  BY <1>1 DEF ClientTypes, Notes, CreateInline, Believed
<1>3. PICK a \in CreateAnswer, applied \in BOOLEAN :
        /\ applied => MayApply(a)
        /\ a \in {"created", "unusable"} => applied
        /\ IF a = "created" THEN UNCHANGED badAnswers ELSE BadAnswer
        /\ shelf' = SendCreate(applied)
        /\ outcome' = WriteOutcome(a)
        /\ recorded' = IdentifiedBy(a)
        /\ IF outcome' = "ambiguous_create"
           THEN /\ phase' = "reconcile" /\ items' = <<>> /\ page' = 1 /\ attempt' = 1
                /\ lasting' = On(shelf') /\ deleted' = FALSE
           ELSE /\ phase' = IF CreateAgain(outcome') THEN "create" ELSE "finished"
                /\ UNCHANGED <<items, page, attempt, lasting, deleted>>
  BY <1>2 DEF CreateInline
<1>4. /\ shelf' \in Seq(Notes) /\ On(shelf) \subseteq On(shelf')
      /\ IF applied THEN Mine \in On(shelf') ELSE shelf' = shelf
      /\ \A i, j \in DOMAIN shelf' : shelf'[i] = Mine /\ shelf'[j] = Mine => i = j
  <2>1. CASE applied
    <3>1. shelf' = Append(shelf, Mine)
      BY <1>3, <2>1 DEF SendCreate
    <3>2. /\ shelf' \in Seq(Notes) /\ Len(shelf') = Len(shelf) + 1
          /\ \A i \in 1..Len(shelf) : shelf'[i] = shelf[i]
          /\ On(shelf') = On(shelf) \cup {Mine} /\ DOMAIN shelf' = 1..Len(shelf')
      BY <1>2, <3>1, OnAppend
    <3>3. \A i \in DOMAIN shelf' : i \in DOMAIN shelf \/ i = Len(shelf) + 1
      BY <1>2, <3>2
    <3>4. \A i \in DOMAIN shelf : shelf'[i] # Mine
      BY <1>2, <3>2 DEF On
    <3> QED
      BY <2>1, <3>2, <3>3, <3>4
  <2>2. CASE ~applied
    BY <1>2, <1>3, <2>2 DEF SendCreate, On
  <2> QED
    BY <2>1, <2>2
<1>5. /\ badAnswers' \in Nat
      /\ a # "created" => badAnswers' >= 1
      /\ outcome' \in Outcome \ {"none"} /\ recorded' \subseteq {Mine}
      /\ phase' = IF outcome' = "ambiguous_create" THEN "reconcile" ELSE "finished"
      /\ outcome' = "posted" <=> a = "created"
      /\ outcome' \in {"invalid_position", "definite_failure"} => ~applied
      /\ recorded' = IF a = "created" THEN {Mine} ELSE {}
  BY <1>1, <1>3 DEF ClientTypes, BadAnswer, WriteOutcome, Outcome, IdentifiedBy, CreateAnswer, MayApply,
     CreateAgain
<1>6. ClientTypes'
  <2>1. items' \in Seq(Notes) /\ lasting' \subseteq On(shelf') /\ deleted' \in BOOLEAN
    <3>1. CASE outcome' = "ambiguous_create"
      <4>1. items' = <<>> /\ lasting' = On(shelf') /\ deleted' = FALSE
        BY <1>3, <3>1
      <4> QED
        BY <4>1, EmptySeq
    <3>2. CASE outcome' # "ambiguous_create"
      <4>1. UNCHANGED <<items, lasting, deleted>>
        BY <1>3, <3>2
      <4> QED
        BY <1>1, <1>2, <1>4, <4>1 DEF ClientTypes
    <3> QED
      BY <3>1, <3>2
  <2>2. attempt' \in 1..MaxAttempts /\ page' \in 1..MaxPages + 1
    BY <1>1, <1>3 DEF ClientTypes, ClientAssumption
  <2> QED
    BY <1>1, <1>2, <1>4, <1>5, <2>1, <2>2 DEF ClientTypes, Notes, ClientEnded, Listing
<1>7. Believed'
  <2>1. Mine \notin On(items')
    BY <1>2, <1>3 DEF On
  <2> QED
    BY <1>2, <1>3, <1>4, <1>5, <2>1 DEF Believed
<1>8. ReconciledSoFar'
  <2>1. phase' = "reconcile" => items' = <<>> /\ page' = 1
    BY <1>3, <1>5
  <2>2. page' = 1 => Read' = 0
    BY <1>1, ReadStarts
  <2>3. Len(shelf') \in Nat
    BY <1>4
  <2> QED
    BY <2>1, <2>2, <2>3 DEF ReconciledSoFar
<1> QED
  BY <1>5, <1>6, <1>7, <1>8 DEF ClientInv, SnapshotSoFar, AmbiguousCreateIsFound

LEMMA PageStep ==
  ASSUME ClientAssumption, ClientInv, ReadPage
  PROVE  ClientInv'
<1> DEFINE got == PageOf(Listed, page)
           all == IF page > MaxPages THEN items ELSE items \o got
<1>1. ClientTypes /\ Believed /\ SnapshotSoFar /\ ReconciledSoFar
  BY DEF ClientInv
<1>2. /\ shelf \in Seq(Notes) /\ items \in Seq(Notes) /\ Len(shelf) \in Nat /\ DOMAIN shelf = 1..Len(shelf)
      /\ lasting \subseteq On(shelf) /\ phase \in {"snapshot", "reconcile"}
      /\ page \in 1..MaxPages + 1 /\ Read \in Nat /\ page \in Nat \ {0}
      /\ PageSize \in Nat \ {0} /\ MaxPages \in Nat \ {0}
      /\ UNCHANGED <<shelf, unborn, creates, lasting, deleted>>
  BY <1>1, ReadStarts DEF ClientTypes, Notes, ReadPage, Listing, clientHistory
<1>3. /\ Listed \in Seq(Notes) /\ Len(Listed) = Len(shelf) /\ On(Listed) = On(shelf)
  BY <1>2, Backwards DEF Listed
<1>4. got \in Seq(Notes) /\ On(got) \subseteq On(shelf)
  <2> DEFINE s == Listed
  <2> HIDE DEF s
  <2>1. s \in Seq(Notes) /\ Read = (page - 1) * PageSize
    BY <1>3 DEF s, Read
  <2>2. /\ PageOf(s, page) \in Seq(Notes)
        /\ \A i \in 1..Len(PageOf(s, page)) : PageOf(s, page)[i] = s[Read + i] /\ Read + i \in 1..Len(s)
    BY ONLY <1>2, <2>1, PageFacts, ClientAssumption
  <2>3. On(PageOf(s, page)) \subseteq On(s)
    <3> DEFINE g == PageOf(s, page)
    <3>1. DOMAIN g = 1..Len(g) /\ DOMAIN s = 1..Len(s)
      BY <2>1, <2>2
    <3>2. \A i \in 1..Len(g) : g[i] = s[Read + i] /\ Read + i \in 1..Len(s)
      BY <2>2
    <3> HIDE DEF g
    <3>3. On(g) \subseteq On(s)
      BY <3>1, <3>2 DEF On
    <3> QED
      BY <3>3 DEF g
  <2> QED
    BY <1>3, <2>2, <2>3 DEF s
<1> HIDE DEF got
<1>5. all \in Seq(Notes) /\ On(all) \subseteq On(items) \cup On(got)
      /\ (page <= MaxPages => all = items \o got /\ On(all) = On(items) \cup On(got))
  <2>1. items \o got \in Seq(Notes) /\ On(items \o got) = On(items) \cup On(got)
    BY <1>2, <1>4, Joined
  <2> QED
    BY <1>2, <2>1
<1>6. PICK a \in ReadAnswer :
        /\ Answered(a)
        /\ IF a = "ok"
           THEN /\ attempt' = 1
                /\ items' = all
                /\ IF PageEndsList(got) THEN page' = 1 /\ ListingDone(items')
                   ELSE IF page > MaxPages THEN UNCHANGED page /\ ListingFails
                   ELSE page' = page + 1 /\ UNCHANGED <<phase, outcome, recorded>>
           ELSE /\ UNCHANGED <<page, items>>
                /\ IF GivesUp(a) THEN UNCHANGED attempt /\ ListingFails
                   ELSE attempt' = attempt + 1 /\ UNCHANGED <<phase, outcome, recorded>>
  BY DEF ReadPage, got
<1> HIDE DEF all
<1>7. /\ badAnswers' \in Nat /\ badAnswers' >= badAnswers
      /\ a # "ok" => badAnswers' = badAnswers + 1
      /\ badAnswers \in Nat
  BY <1>1, <1>6 DEF Answered, BadAnswer, ClientTypes
<1>8. /\ attempt' \in 1..MaxAttempts
      /\ page' \in 1..MaxPages + 1
      /\ items' \in Seq(Notes) /\ On(items') \subseteq On(items) \cup On(shelf)
      /\ phase' \in {"snapshot", "reconcile", "create", "refused", "finished"}
      /\ phase = "snapshot" => phase' \in {"snapshot", "create", "refused"} /\ UNCHANGED <<outcome, recorded>>
      /\ phase = "reconcile" => phase' \in {"reconcile", "finished"}
  <2>1. attempt' \in 1..MaxAttempts
    BY <1>1, <1>6 DEF GivesUp, ClientTypes, ClientAssumption, ReadAnswer
  <2>2. page' \in 1..MaxPages + 1
    BY <1>2, <1>6
  <2>3. items' \in Seq(Notes) /\ On(items') \subseteq On(items) \cup On(shelf)
    BY <1>2, <1>4, <1>5, <1>6
  <2>4. /\ phase = "snapshot" => phase' \in {"snapshot", "create", "refused"} /\ UNCHANGED <<outcome, recorded>>
        /\ phase = "reconcile" => phase' \in {"reconcile", "finished"}
    BY <1>6 DEF ListingDone, ListingFails
  <2> QED
    BY <1>2, <2>1, <2>2, <2>3, <2>4
<1>9. Mine \in On(items') => Mine \in On(shelf)
  BY <1>1, <1>8 DEF Believed
<1>10. \/ UNCHANGED <<outcome, recorded>>
       \/ /\ phase = "reconcile" /\ phase' = "finished" /\ outcome' = "posted" /\ recorded' = {Mine}
          /\ Mine \in On(shelf)
  <2>1. CASE a = "ok" /\ PageEndsList(got)
    <3>1. Cardinality(MatchesIn(items')) = 1 => Mine \in On(items')
      BY <1>8, Matching
    <3> QED
      BY <1>2, <1>6, <1>9, <2>1, <3>1 DEF ListingDone
  <2>2. CASE ~(a = "ok" /\ PageEndsList(got))
    BY <1>6, <2>2 DEF ListingFails
  <2> QED
    BY <2>1, <2>2
<1>11. ClientTypes'
  <2>1. outcome' \in Outcome /\ recorded' \subseteq {Mine}
    BY <1>1, <1>10 DEF ClientTypes, Outcome
  <2>2. lasting' \subseteq On(shelf')
    BY <1>2
  <2> QED
    BY <1>1, <1>2, <1>7, <1>8, <2>1, <2>2 DEF ClientTypes, Notes, ClientEnded, Listing
<1>12. Believed'
  <2>1. On(shelf') = On(shelf)
    BY <1>2
  <2>2. phase' = "reconcile" => UNCHANGED <<outcome, recorded>> /\ phase = "reconcile"
    BY <1>2, <1>8, <1>10
  <2> QED
    BY <1>1, <1>2, <1>7, <1>8, <1>9, <1>10, <2>1, <2>2 DEF Believed
<1>13. SnapshotSoFar'
  <2>1. CASE a # "ok"
    <3>1. UNCHANGED <<page, items>> /\ phase' # "create" /\ (phase' = "snapshot" => phase = "snapshot")
      BY <1>2, <1>6, <2>1 DEF ListingFails
    <3>2. \A n : ToCome(n)' <=> ToCome(n)
      BY <1>2, <3>1 DEF ToCome, Read
    <3> QED
      BY <1>1, <1>2, <3>1, <3>2 DEF SnapshotSoFar
  <2>2. CASE a = "ok" /\ phase = "snapshot" /\ ~deleted
    <3>1. ASSUME NEW n \in lasting
          PROVE  /\ PageEndsList(got) => n \in On(items')
                 /\ ~PageEndsList(got) /\ page <= MaxPages => n \in On(items') \/ ToCome(n)'
      <4>1. n \in On(items) \/ ToCome(n)
        BY <1>1, <2>2, <3>1 DEF SnapshotSoFar
      <4>2. On(items) \subseteq On(items')
        <5>1. CASE page <= MaxPages
          BY <1>5, <1>6, <2>2, <5>1
        <5>2. CASE page > MaxPages
          <6>1. all = items
            BY <5>2 DEF all
          <6> QED
            BY <1>6, <2>2, <6>1
        <5> QED
          BY <1>2, <5>1, <5>2
      <4>3. CASE n \in On(items)
        BY <4>2, <4>3
      <4>4. CASE ToCome(n)
        <5>1. got = PageOf(Reversed(shelf), page)
          BY <2>2 DEF got, Listed
        <5>2. /\ n \in On(got) \/ \E i \in DOMAIN shelf : shelf[i] = n /\ Len(shelf) - i >= Read + PageSize
              /\ Len(got) < PageSize => n \in On(got)
              /\ got # <<>>
          BY <1>1, <4>4, <5>1, SnapshotPage
        <5>3. PageEndsList(got) => page <= MaxPages /\ Len(got) < PageSize
          BY <1>2, <5>2 DEF PageEndsList
        <5>4. page <= MaxPages => On(got) \subseteq On(items')
          BY <1>5, <1>6, <2>2
        <5>5. ~PageEndsList(got) /\ page <= MaxPages => page' = page + 1
          BY <1>2, <1>6, <2>2
        <5>6. page' = page + 1 => Read' = Read + PageSize
          BY <1>1, ReadStarts
        <5>7. page' = page + 1 /\ (\E i \in DOMAIN shelf : shelf[i] = n /\ Len(shelf) - i >= Read + PageSize)
                => ToCome(n)'
          BY <1>2, <5>6 DEF ToCome
        <5> QED
          BY <5>2, <5>3, <5>4, <5>5, <5>7
      <4> QED
        BY <4>1, <4>3, <4>4
    <3>2. phase' = "create" => PageEndsList(got)
      BY <1>6, <2>2 DEF ListingFails
    <3>3. phase' = "snapshot" => ~PageEndsList(got) /\ page <= MaxPages
      BY <1>2, <1>6, <2>2 DEF ListingFails, ListingDone
    <3> QED
      BY <1>2, <3>1, <3>2, <3>3 DEF SnapshotSoFar
  <2>3. CASE phase = "reconcile" \/ deleted
    BY <1>2, <1>8, <2>3 DEF SnapshotSoFar
  <2> QED
    BY <1>2, <2>1, <2>2, <2>3
<1>14. ASSUME a = "ok", phase = "reconcile", ~deleted
       PROVE  ReconciledSoFar' /\ AmbiguousCreateIsFound'
  <2>1. Len(items) = Read /\ Read <= Len(shelf) /\ \A i \in 1..Read : items[i] = shelf[i]
    BY <1>1, <1>14 DEF ReconciledSoFar
  <2> DEFINE whole == items \o got
  <2>2. got = PageOf(shelf, page)
    BY <1>14 DEF got, Listed
  <2>3. /\ \A i \in 1..Len(whole) : whole[i] = shelf[i]
        /\ Len(got) < PageSize => Len(whole) = Len(shelf)
        /\ ~(Len(got) < PageSize) => Len(whole) = Read + PageSize /\ Len(whole) <= Len(shelf)
        /\ got = <<>> => Len(items) = Len(shelf)
        /\ got # <<>> => Len(shelf) > Read
    <3>1. \A g, w : g = PageOf(shelf, page) /\ w = items \o g =>
            /\ \A i \in 1..Len(w) : w[i] = shelf[i]
            /\ Len(g) < PageSize => Len(w) = Len(shelf)
            /\ ~(Len(g) < PageSize) => Len(w) = Read + PageSize /\ Len(w) <= Len(shelf)
            /\ g = <<>> => Len(items) = Len(shelf)
            /\ g # <<>> => Len(shelf) > Read
      BY <1>1, <2>1, ReconcilePage
    <3> QED
      BY <2>2, <3>1
  <2>4. page <= MaxPages => items' = whole
    BY <1>5, <1>6, <1>14
  <2>5. page > MaxPages => items' = items
    BY SMTT(60), <1>2, <1>6, <1>14 DEF all
  <2> HIDE DEF whole
  <2>6. ReconciledSoFar'
    <3>1. phase' = "reconcile" => ~PageEndsList(got) /\ page <= MaxPages /\ page' = page + 1
      BY <1>2, <1>6, <1>14 DEF ListingFails, ListingDone
    <3>2. ~PageEndsList(got) /\ page <= MaxPages => ~(Len(got) < PageSize)
      BY <1>2 DEF PageEndsList
    <3>3. page' = page + 1 => Read' = Read + PageSize
      BY <1>1, ReadStarts
    <3> QED
      BY <1>2, <2>3, <2>4, <3>1, <3>2, <3>3 DEF ReconciledSoFar
  <2>7. AmbiguousCreateIsFound'
    <3>1. CASE PageEndsList(got)
      <4>1. Len(items') = Len(shelf) /\ \A i \in 1..Len(items') : items'[i] = shelf[i]
        <5>1. CASE page <= MaxPages
          <6>1. Len(got) < PageSize
            BY <1>2, <3>1, <5>1 DEF PageEndsList
          <6> QED
            BY <2>3, <2>4, <5>1, <6>1
        <5>2. CASE page > MaxPages
          <6>1. got = <<>>
            BY <3>1, <5>2 DEF PageEndsList
          <6> QED
            BY <2>1, <2>3, <2>5, <5>2, <6>1
        <5> QED
          BY <1>2, <5>1, <5>2
      <4>2. Mine \in On(shelf) => Cardinality(MatchesIn(items')) = 1
        <5>1. \A i, j \in DOMAIN shelf : shelf[i] = Mine /\ shelf[j] = Mine => i = j
          BY <1>1 DEF Believed
        <5> QED
          BY <1>2, <1>8, <4>1, <5>1, Matching
      <4>3. Mine \in On(shelf) => outcome' = "posted"
        BY <1>6, <1>14, <3>1, <4>2 DEF ListingDone
      <4>4. On(shelf') = On(shelf)
        BY <1>2
      <4> QED
        BY <4>3, <4>4 DEF AmbiguousCreateIsFound
    <3>2. CASE ~PageEndsList(got) /\ page > MaxPages
      <4>1. got # <<>>
        BY <3>2 DEF PageEndsList
      <4>2. page = MaxPages + 1 /\ MaxPages + 1 - 1 = MaxPages
        BY <1>2, <3>2
      <4>3. Read = MaxPages * PageSize
        BY <4>2 DEF Read
      <4> QED
        BY <1>2, <2>3, <4>1, <4>3 DEF AmbiguousCreateIsFound
    <3>3. CASE ~PageEndsList(got) /\ page <= MaxPages
      BY <1>2, <1>6, <1>14, <3>3 DEF AmbiguousCreateIsFound
    <3> QED
      BY <1>2, <3>1, <3>2, <3>3
  <2> QED
    BY <2>6, <2>7
<1>15. ReconciledSoFar'
  <2>1. CASE a # "ok"
    <3>1. UNCHANGED <<page, items>> /\ (phase' = "reconcile" => phase = "reconcile")
      BY <1>2, <1>6, <2>1 DEF ListingFails
    <3> QED
      BY <1>1, <1>2, <3>1 DEF ReconciledSoFar, Read
  <2>2. CASE a = "ok" /\ phase = "reconcile" /\ ~deleted
    BY <1>14, <2>2
  <2>3. CASE phase = "snapshot" \/ deleted
    BY <1>2, <1>8, <2>3 DEF ReconciledSoFar
  <2> QED
    BY <1>2, <2>1, <2>2, <2>3
<1>16. AmbiguousCreateIsFound'
  <2>1. CASE a = "ok" /\ phase = "reconcile" /\ ~deleted
    BY <1>14, <2>1
  <2>2. CASE phase = "snapshot" \/ deleted
    BY <1>2, <1>8, <2>2 DEF AmbiguousCreateIsFound
  <2>3. CASE a # "ok" /\ phase = "reconcile"
    <3>1. badAnswers >= 1
      BY <1>1, <2>3 DEF Believed
    <3>2. badAnswers' # 1
      BY <1>7, <2>3, <3>1
    <3> QED
      BY <3>2 DEF AmbiguousCreateIsFound
  <2> QED
    BY <1>2, <2>1, <2>2, <2>3
<1> QED
  BY <1>11, <1>12, <1>13, <1>15, <1>16 DEF ClientInv

(* The GitLab client, whatever other people add and delete and whichever     *)
(* answers fail: what it concludes from its one create is true, a listing it *)
(* acts on misses no note that was there all along, and the note of an       *)
(* ambiguous create is found (api_get_paginated, post_review_discussion,     *)
(* reconcile_ambiguous_inline_create).                                       *)
THEOREM ClientHolds ==
  ASSUME ClientAssumption
  PROVE  ClientSpec => []GitLabClientSafe
<1>1. ClientInit => ClientInv
  <2> SUFFICES ASSUME ClientInit PROVE ClientInv
    OBVIOUS
  <2>1. <<>> \in Seq(Notes) /\ On(<<>>) = {}
    BY DEF On
  <2>2. 1 \in 1..MaxAttempts /\ 1 \in 1..MaxPages + 1
    BY DEF ClientAssumption
  <2>3. ClientTypes
    BY <2>1, <2>2 DEF ClientInit, ClientTypes, Notes, ClientEnded, Outcome
  <2>4. Believed
    BY <2>1 DEF ClientInit, Believed
  <2> QED
    BY <2>3, <2>4 DEF ClientInit, ClientInv, SnapshotSoFar, ReconciledSoFar, AmbiguousCreateIsFound
<1>2. ClientInv /\ [ClientNext]_clientVars => ClientInv'
  <2> SUFFICES ASSUME ClientInv, [ClientNext]_clientVars PROVE ClientInv'
    OBVIOUS
  <2>1. CASE ClientNext
    BY <2>1, PeopleMove, ClientBegins, CreateStep, PageStep DEF ClientNext, ClientStep
  <2>2. CASE UNCHANGED clientVars
    BY <2>2 DEF clientVars, clientCall, clientHistory, ClientInv, ClientTypes, Believed, SnapshotSoFar,
       ReconciledSoFar, AmbiguousCreateIsFound, ToCome, Read, On
  <2> QED
    BY <2>1, <2>2
<1>3. ClientInv => GitLabClientSafe
  <2> SUFFICES ASSUME ClientInv PROVE GitLabClientSafe
    OBVIOUS
  <2>1. CreateOutcomeIsTrue
    BY DEF ClientInv, ClientTypes, Believed, CreateOutcomeIsTrue, ClientEnded, Listing
  <2> QED
    BY <2>1 DEF ClientInv, SnapshotSoFar, GitLabClientSafe, ListingMissesNothing
<1> QED
  BY <1>1, <1>2, <1>3, PTL DEF ClientSpec
====
