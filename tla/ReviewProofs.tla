--------------------------- MODULE ReviewProofs ----------------------------
(* Proofs about ReviewRun and ReviewHandoff for any number of processes in   *)
(* one checkout, local or not, preserving or not, and any number of signals; *)
(* then about the two observers of a run, its progress lines and its debug   *)
(* bundle, for any number of phases, messages, trace records and mishaps.    *)
EXTENDS ReviewHandoff, DebugBundle, FiniteSetTheorems, SequenceTheorems, TLAPS

LEMMA InitTypeOK == Init => TypeOK
<1> SUFFICES ASSUME Init PROVE TypeOK
  OBVIOUS
<1>1. PICK r \in {"absent", "old"} : run = [j \in Jobs |-> [Fresh EXCEPT !.result = r]]
  BY DEF Init
<1>2. [Fresh EXCEPT !.result = r] \in Run
  BY DEF Fresh, Run, Place, Body, Masked, Code, Exit, Result
<1>3. status \in Status
  BY DEF Init, Status, NoStatus, StatusKind
<1> QED BY <1>1, <1>2, <1>3, RunAssumption DEF Init, TypeOK, Owner

(* A run record stays one when a field gets a value of its type.             *)
LEMMA SetAt == \A r \in Run, p \in Place : [r EXCEPT !.at = p] \in Run
BY DEF Run
LEMMA SetCode == \A r \in Run, c \in Code : [r EXCEPT !.code = c] \in Run
BY DEF Run
LEMMA SetExit == \A r \in Run, e \in Exit : [r EXCEPT !.exit = e] \in Run
BY DEF Run
LEMMA SetResult == \A r \in Run, v \in Result : [r EXCEPT !.result = v] \in Run
BY DEF Run
LEMMA SetReport == \A r \in Run, v \in {"none", "admitted", "failed"} : [r EXCEPT !.report = v] \in Run
BY DEF Run
LEMMA SetTermination ==
  \A r \in Run, t \in {"default", "handled", "blocked"} : [r EXCEPT !.termination = t] \in Run
BY DEF Run
LEMMA SetRaising == \A r \in Run, b \in BOOLEAN : [r EXCEPT !.raising = b] \in Run
BY DEF Run
LEMMA SetTrouble == \A r \in Run, b \in BOOLEAN : [r EXCEPT !.trouble = b] \in Run
BY DEF Run
LEMMA SetHome == \A r \in Run, b \in BOOLEAN : [r EXCEPT !.home = b] \in Run
BY DEF Run
LEMMA SetAdmitted == \A r \in Run, b \in BOOLEAN : [r EXCEPT !.admitted = b] \in Run
BY DEF Run
LEMMA SetPending == \A r \in Run, b \in BOOLEAN : [r EXCEPT !.pending = b] \in Run
BY DEF Run

LEMMA SetDecided ==
  ASSUME NEW r \in Run
  PROVE  [r EXCEPT !.at = "restore", !.result = "private", !.admitted = TRUE, !.raising = TRUE]
           \in Run
BY DEF Run, Place, Masked, Result

LEMMA RunTypes ==
  ASSUME NEW r \in Run
  PROVE  r.code \in Code /\ r.result \in Result /\ r.report \in {"none", "admitted", "failed"}
BY DEF Run

LEMMA Values ==
  /\ "returned" \in Place /\ "cleanup" \in Place /\ "validate" \in Place /\ "restore" \in Place
  /\ "after" \in Place /\ "reporting" \in Place /\ "leaving" \in Place /\ "done" \in Place
  /\ "ok" \in Code /\ "refused" \in Code /\ "ocrFailed" \in Code /\ Code \subseteq Exit
  /\ "refused" \in Exit /\ "killed" \in Exit
  /\ "absent" \in Result /\ "raw" \in Result /\ "final" \in Result /\ "private" \in Result
BY DEF Place, Body, Masked, Code, Exit, Result

LEMMA StepTypeOK == TypeOK /\ [Next]_vars => TypeOK'
<1> SUFFICES ASSUME TypeOK, [Next]_vars PROVE TypeOK'
  OBVIOUS
<1> USE RunAssumption
<1> USE DEF TypeOK, Owner, Status, StatusKind, At, Moves, Raises, Refuses, Ends, Releases
<1>1. ASSUME NEW j \in Jobs, Claiming(j) PROVE TypeOK'
  BY <1>1 DEF Claiming, RefusedUnclaimed, Claim, CannotClaim, ClearStatus, ClearStatusFails,
              Options, OptionsRefused, NoStatus, Run, Place, Body, Masked, Code, Exit
<1>2. ASSUME NEW j \in Jobs, Preparing(j) PROVE TypeOK'
  BY SMTT(60), <1>2 DEF Preparing, ClearInputs, ClearInputsFails, Identity, IdentityFails,
              PrepareOutputs, OutputsFail, SessionHome, InstallHandlers, Run, Place, Body, Masked, Code, Exit, Result
<1>3. ASSUME NEW j \in Jobs, Trying(j) PROVE TypeOK'
  BY SMTT(60), <1>3 DEF Trying, Configure, PolicyContext, PolicyRefuses, CollectEvidence, Enrich,
              StartGateway, Bootstrap, BodyFails, PreviewAccepts, PreviewStops, RunModel, EvidenceUsed,
              EnterFinally, Writes, File, Run, Place, Body, Masked, Code, Exit, Result
<1>4. ASSUME NEW j \in Jobs, OcrReturns(j) PROVE TypeOK'
  <2>1. PICK c \in {"ok", "ocrFailed"} :
          run' = [run EXCEPT ![j].at = "returned", ![j].code = c]
    BY <1>4 DEF OcrReturns
  <2>2. run' \in [Jobs -> Run]
    BY <2>1, Values, SetAt, SetCode
  <2> QED BY <1>4, <2>2 DEF OcrReturns
<1>5. ASSUME NEW j \in Jobs, Finishing(j) PROVE TypeOK'
  <2>1. CASE BlockSignals(j) \/ Restore(j)
    <3>1. CASE BlockSignals(j)
      BY <3>1, Values, SetAt, SetTermination DEF BlockSignals
    <3>2. CASE Restore(j)
      BY <3>2, Values, SetAt, SetTermination DEF Restore
    <3> QED BY <2>1, <3>1, <3>2
  <2>2. CASE Cleanup(j)
    <3>1. PICK gatewayLeft \in BOOLEAN, left \in {{}} \cup {{f} : f \in File}, homeLeft \in BOOLEAN :
            /\ files' = [f \in File |-> IF Kept(j) \/ f \in left \/ f \notin Ephemeral
                                       THEN files[f] ELSE NoJob]
            /\ run' = [run EXCEPT ![j].at = "validate",
                                  ![j].home = homeLeft \/ Kept(j),
                                  ![j].trouble = gatewayLeft \/ left # {} \/ homeLeft]
      BY ZenonT(60), <2>2 DEF Cleanup
    <3>2. [run[j] EXCEPT !.at = "validate", !.home = homeLeft \/ Kept(j)] \in Run
      BY Values, SetAt, SetHome
    <3>3. run' \in [Jobs -> Run]
      BY <3>1, <3>2, SetTrouble
    <3>4. files' \in [File -> Owner]
      BY <3>1
    <3> QED BY <2>2, <3>3, <3>4 DEF Cleanup
  <2>3. CASE Finalize(j) \/ DecisionsFail(j)
    <3>1. Finalized(j) \in Result
      BY Values DEF Finalized
    <3>2. \A v \in Result : [run[j] EXCEPT !.at = "restore", !.result = v] \in Run
      BY Values, SetAt, SetResult
    <3>3. \A v \in Result, b \in BOOLEAN :
            [run[j] EXCEPT !.at = "restore", !.result = v, !.admitted = b] \in Run
      BY <3>2, SetAdmitted
    <3>4. run' \in [Jobs -> Run]
      <4>1. CASE Finalize(j)
        <5>1. (j \in Local) \in BOOLEAN
          OBVIOUS
        <5>2. [run[j] EXCEPT !.at = "restore", !.result = Finalized(j), !.admitted = j \in Local]
                \in Run
          BY <3>1, <3>3, <5>1
        <5> QED BY <4>1, <5>2 DEF Finalize
      <4>2. CASE DecisionsFail(j)
        <5>1. run' = [run EXCEPT ![j].at = "restore", ![j].result = "private",
                                 ![j].admitted = TRUE, ![j].raising = TRUE]
          BY <4>2 DEF DecisionsFail
        <5>2. run \in [Jobs -> Run]
          OBVIOUS
        <5> HIDE DEF TypeOK
        <5> QED BY <5>1, <5>2, SetDecided
      <4> QED BY <2>3, <4>1, <4>2
    <3>5. files' \in [File -> Owner]
      BY <2>3 DEF Finalize, DecisionsFail
    <3> QED BY <2>3, <3>4, <3>5 DEF Finalize, DecisionsFail
  <2>4. CASE FinalizeFails(j)
    <3>1. PICK v \in Result :
            run' = [run EXCEPT ![j].at = "restore", ![j].result = v, ![j].raising = TRUE]
      BY <2>4, Values DEF FinalizeFails, Discarded
    <3>2. [run[j] EXCEPT !.at = "restore", !.result = v] \in Run
      BY Values, SetAt, SetResult
    <3>3. run' \in [Jobs -> Run]
      BY <3>1, <3>2, SetRaising
    <3> QED BY <2>4, <3>3 DEF FinalizeFails
  <2>5. CASE NotFinalized(j)
    <3>1. PICK v \in Result : run' = [run EXCEPT ![j].at = "restore", ![j].result = v]
      BY <2>5, Values, RunTypes DEF NotFinalized, Unfinalized
    <3>2. run' \in [Jobs -> Run]
      BY <3>1, Values, SetAt, SetResult
    <3> QED BY <2>5, <3>2 DEF NotFinalized
  <2>6. CASE CleanupVerdict(j)
    <3>1. CASE run[j].trouble
      <4>1. PICK v \in Result :
              run' = [run EXCEPT ![j].at = "leaving", ![j].raising = TRUE, ![j].result = v]
        BY <2>6, <3>1, Values, RunTypes DEF CleanupVerdict
      <4>2. [run[j] EXCEPT !.at = "leaving", !.raising = TRUE] \in Run
        BY Values, SetAt, SetRaising
      <4>3. run' \in [Jobs -> Run]
        BY <4>1, <4>2, SetResult
      <4> QED BY <2>6, <4>3 DEF CleanupVerdict
    <3>2. CASE ~run[j].trouble
      BY <2>6, <3>2, Values, SetAt DEF CleanupVerdict
    <3> QED BY <3>1, <3>2
  <2>7. CASE Report(j) \/ Leave(j)
    <3>1. PICK v \in {"none", "admitted", "failed"}, e \in Exit :
            run' = [run EXCEPT ![j].report = v, ![j].at = "done", ![j].exit = e]
      <4>1. CASE Report(j)
        <5>1. PICK delivered \in BOOLEAN :
                run' = [run EXCEPT ![j].report = Verdict(j), ![j].at = "done",
                                   ![j].exit = IF delivered THEN run[j].code ELSE "refused"]
          BY <4>1 DEF Report
        <5>2. Verdict(j) \in {"none", "admitted", "failed"}
          BY DEF Verdict
        <5>3. (IF delivered THEN run[j].code ELSE "refused") \in Exit
          BY Values, RunTypes
        <5> QED BY <5>1, <5>2, <5>3
      <4>2. CASE Leave(j)
        <5>1. PICK v \in {run[j].report} \cup (IF run[j].destination THEN {"failed"} ELSE {}) :
                run' = [run EXCEPT ![j].report = v, ![j].at = "done", ![j].exit = "refused"]
          BY <4>2 DEF Leave
        <5>2. v \in {"none", "admitted", "failed"}
          BY RunTypes
        <5> QED BY <5>1, <5>2, Values
      <4> QED BY <2>7, <4>1, <4>2
    <3>2. [run[j] EXCEPT !.report = v, !.at = "done"] \in Run
      BY Values, SetReport, SetAt
    <3>3. run' \in [Jobs -> Run]
      BY <3>1, <3>2, SetExit
    <3> QED BY <2>7, <3>3 DEF Report, Leave
  <2>8. CASE RestoreDelivers(j) \/ ReportFails(j) \/ Return(j)
    BY <2>8, Values, RunTypes, SetAt, SetExit DEF RestoreDelivers, ReportFails, Return
  <2> QED BY <1>5, <2>1, <2>2, <2>3, <2>4, <2>5, <2>6, <2>7, <2>8 DEF Finishing
<1>6. ASSUME NEW j \in Jobs, Terminated(j) PROVE TypeOK'
  <2>1. CASE Interrupt(j)
    BY <2>1 DEF Interrupt, Run, Place, Body, Masked
  <2>2. CASE InterruptBlocked(j)
    <3>1. run' \in [Jobs -> Run]
      BY <2>2, SetPending DEF InterruptBlocked
    <3>2. signals' \in 0 .. MaxSignals
      BY <2>2 DEF InterruptBlocked
    <3> QED BY <2>2, <3>1, <3>2 DEF InterruptBlocked
  <2>3. CASE Dies(j)
    BY <2>3, Values, SetAt, SetExit DEF Dies
  <2> QED BY <1>6, <2>1, <2>2, <2>3 DEF Terminated
<1>7. CASE UNCHANGED vars
  BY <1>7 DEF vars
<1> QED BY <1>1, <1>2, <1>3, <1>4, <1>5, <1>6, <1>7 DEF Next, Works

(* TypeOK: every variable of a run holds a value of its type at every moment.  *)
THEOREM TypeCorrect == Spec => []TypeOK
BY InitTypeOK, StepTypeOK, PTL DEF Spec
-----------------------------------------------------------------------------
(* What a step of one process does to another: it writes its own name or     *)
(* nobody's, files only while it holds the checkout, and takes the lock only *)
(* when it is free.                                                          *)
Beside(j) ==
  /\ \A k \in Jobs \ {j} : run'[k] = run[k]
  /\ lock' = lock \/ lock = NoJob \/ lock = j
  /\ \A f \in File : files'[f] \in {files[f], j, NoJob}
  /\ files' = files \/ lock = j
  /\ status' = status \/ status'.by \in {j, NoJob}

LEMMA StepBeside ==
  ASSUME TypeOK, NEW j \in Jobs, Holds(j), Works(j) \/ OcrReturns(j) \/ Terminated(j)
  PROVE  Beside(j)
<1> USE RunAssumption DEF TypeOK, Beside, Holds, Unclaimed, At, Moves, Raises, Refuses, Ends,
                          Releases
<1>1. CASE Claiming(j)
  <2>1. CASE RefusedUnclaimed(j)
    BY <2>1 DEF RefusedUnclaimed
  <2>2. CASE Claim(j)
    BY <2>2 DEF Claim
  <2>3. CASE CannotClaim(j)
    BY <2>3 DEF CannotClaim
  <2>4. CASE ClearStatus(j)
    BY <2>4 DEF ClearStatus, NoStatus
  <2>5. CASE ClearStatusFails(j)
    BY <2>5 DEF ClearStatusFails
  <2>6. CASE Options(j)
    BY <2>6 DEF Options
  <2>7. CASE OptionsRefused(j)
    BY <2>7 DEF OptionsRefused
  <2> QED BY <1>1, <2>1, <2>2, <2>3, <2>4, <2>5, <2>6, <2>7 DEF Claiming
<1>2. CASE Preparing(j)
  <2>1. CASE ClearInputs(j)
    BY <2>1 DEF ClearInputs, Stale
  <2>2. CASE ClearInputsFails(j)
    BY <2>2 DEF ClearInputsFails
  <2>3. CASE Identity(j)
    BY <2>3 DEF Identity
  <2>4. CASE IdentityFails(j)
    BY <2>4 DEF IdentityFails
  <2>5. CASE PrepareOutputs(j)
    BY <2>5 DEF PrepareOutputs
  <2>6. CASE OutputsFail(j)
    BY <2>6 DEF OutputsFail
  <2>7. CASE SessionHome(j)
    BY <2>7 DEF SessionHome
  <2>8. CASE InstallHandlers(j)
    BY <2>8 DEF InstallHandlers
  <2> QED BY <1>2, <2>1, <2>2, <2>3, <2>4, <2>5, <2>6, <2>7, <2>8 DEF Preparing
<1>3. CASE Trying(j)
  <2>1. CASE Configure(j)
    BY <2>1 DEF Configure
  <2>2. CASE PolicyContext(j)
    BY <2>2 DEF PolicyContext, Writes
  <2>3. CASE PolicyRefuses(j)
    BY <2>3 DEF PolicyRefuses
  <2>4. CASE CollectEvidence(j)
    BY <2>4 DEF CollectEvidence, Writes
  <2>5. CASE Enrich(j)
    BY <2>5 DEF Enrich, Writes
  <2>6. CASE StartGateway(j)
    BY <2>6 DEF StartGateway
  <2>7. CASE Bootstrap(j)
    BY <2>7 DEF Bootstrap, Writes
  <2>8. CASE BodyFails(j)
    BY <2>8 DEF BodyFails, Body
  <2>9. CASE PreviewAccepts(j)
    BY <2>9 DEF PreviewAccepts
  <2>10. CASE PreviewStops(j)
    BY <2>10 DEF PreviewStops
  <2>11. CASE RunModel(j)
    BY <2>11 DEF RunModel
  <2>12. CASE EvidenceUsed(j)
    BY <2>12 DEF EvidenceUsed, Writes
  <2>13. CASE EnterFinally(j)
    BY <2>13 DEF EnterFinally
  <2> QED BY <1>3, <2>1, <2>2, <2>3, <2>4, <2>5, <2>6, <2>7, <2>8, <2>9, <2>10, <2>11, <2>12,
     <2>13 DEF Trying
<1>4. CASE Finishing(j)
  <2>1. CASE BlockSignals(j)
    BY <2>1 DEF BlockSignals
  <2>2. CASE Cleanup(j)
    BY <2>2 DEF Cleanup, Ephemeral
  <2>3. CASE Finalize(j)
    BY <2>3 DEF Finalize, Finalizable
  <2>4. CASE FinalizeFails(j)
    BY <2>4 DEF FinalizeFails, Finalizable, Discarded
  <2>5. CASE DecisionsFail(j)
    BY <2>5 DEF DecisionsFail, Finalizable
  <2>6. CASE NotFinalized(j)
    BY <2>6 DEF NotFinalized, Finalizable, Unfinalized
  <2>7. CASE Restore(j)
    BY <2>7 DEF Restore
  <2>8. CASE RestoreDelivers(j)
    BY <2>8 DEF RestoreDelivers
  <2>9. CASE CleanupVerdict(j)
    BY <2>9 DEF CleanupVerdict
  <2>10. CASE Report(j)
    BY <2>10 DEF Report, Verdict
  <2>11. CASE ReportFails(j)
    BY <2>11 DEF ReportFails
  <2>12. CASE Return(j)
    BY <2>12 DEF Return
  <2>13. CASE Leave(j)
    BY <2>13 DEF Leave
  <2> QED BY <1>4, <2>1, <2>2, <2>3, <2>4, <2>5, <2>6, <2>7, <2>8, <2>9, <2>10, <2>11, <2>12,
     <2>13 DEF Finishing
<1>5. CASE Terminated(j)
  <2>1. CASE Interrupt(j)
    BY <2>1 DEF Interrupt, Body
  <2>2. CASE InterruptBlocked(j)
    BY <2>2 DEF InterruptBlocked
  <2>3. CASE Dies(j)
    BY <2>3 DEF Dies
  <2> QED BY <1>5, <2>1, <2>2, <2>3 DEF Terminated
<1>6. CASE OcrReturns(j)
  BY <1>6 DEF OcrReturns
<1> QED BY <1>1, <1>2, <1>3, <1>4, <1>5, <1>6 DEF Works

LEMMA ClaimingInv == ASSUME TypeOK, NEW j \in Jobs, JobInv(j), Claiming(j) PROVE JobInv(j)'
<1> USE RunAssumption DEF TypeOK, Run, At
<1> USE DEF JobInv, Holds, OwnsPrepared, Since, WithBootstrap, WithContext, WithStore, WithRules, WithoutOld,
            Marks, Cleaned, Tidy, Clean, Finished, StatusTrue
<1> USE DEF Unclaimed, Unstarted, Sessionless, Finishes, Masked, Code
<1>1. CASE RefusedUnclaimed(j)
  BY <1>1 DEF RefusedUnclaimed, Refuses
<1>2. CASE Claim(j)
  BY <1>2 DEF Claim, Moves
<1>3. CASE CannotClaim(j)
  BY <1>3 DEF CannotClaim, Ends, Releases
<1>4. CASE ClearStatus(j)
  BY <1>4 DEF ClearStatus, Moves, NoStatus
<1>5. CASE ClearStatusFails(j)
  BY <1>5 DEF ClearStatusFails, Ends, Releases
<1>6. CASE Options(j)
  BY <1>6 DEF Options
<1>7. CASE OptionsRefused(j)
  BY <1>7 DEF OptionsRefused
<1> QED BY <1>1, <1>2, <1>3, <1>4, <1>5, <1>6, <1>7 DEF Claiming

LEMMA PreparingInv == ASSUME TypeOK, NEW j \in Jobs, JobInv(j), Preparing(j) PROVE JobInv(j)'
<1> USE RunAssumption DEF TypeOK, Run, At
<1> USE DEF JobInv, Holds, OwnsPrepared, Since, WithBootstrap, WithContext, WithStore, WithRules, WithoutOld,
            Marks, Cleaned, Tidy, Clean, Finished, StatusTrue
<1> USE DEF Unclaimed, Unstarted, Sessionless, Finishes, Masked, Code
<1>1. CASE ClearInputs(j)
  BY <1>1 DEF ClearInputs, Moves, Stale, File
<1>2. CASE ClearInputsFails(j)
  BY <1>2 DEF ClearInputsFails, Refuses
<1>3. CASE Identity(j)
  BY <1>3 DEF Identity, Moves
<1>4. CASE IdentityFails(j)
  BY <1>4 DEF IdentityFails, Refuses
<1>5. CASE PrepareOutputs(j)
  BY <1>5 DEF PrepareOutputs
<1>6. CASE OutputsFail(j)
  BY <1>6 DEF OutputsFail, Refuses
<1>7. CASE SessionHome(j)
  BY <1>7 DEF SessionHome
<1>8. CASE InstallHandlers(j)
  BY SMTT(60), <1>8 DEF InstallHandlers
<1> QED BY <1>1, <1>2, <1>3, <1>4, <1>5, <1>6, <1>7, <1>8 DEF Preparing

LEMMA TryingInv == ASSUME TypeOK, NEW j \in Jobs, JobInv(j), Trying(j) PROVE JobInv(j)'
<1> USE RunAssumption DEF TypeOK, Run, At
<1> USE DEF JobInv, Holds, OwnsPrepared, Since, WithBootstrap, WithContext, WithStore, WithRules, WithoutOld,
            Marks, Cleaned, Tidy, Clean, Finished, StatusTrue
<1> USE DEF Unclaimed, Unstarted, Sessionless, Finishes, Masked, Code
<1>1. CASE Configure(j)
  BY <1>1 DEF Configure, Moves
<1>2. CASE PolicyContext(j)
  BY <1>2 DEF PolicyContext, Writes, Raises, Moves
<1>3. CASE PolicyRefuses(j)
  BY <1>3 DEF PolicyRefuses, Raises
<1>4. CASE CollectEvidence(j)
  BY <1>4 DEF CollectEvidence, Writes, Moves
<1>5. CASE Enrich(j)
  BY <1>5 DEF Enrich, Writes, Moves
<1>6. CASE StartGateway(j)
  BY <1>6 DEF StartGateway, Moves
<1>7. CASE Bootstrap(j)
  BY <1>7 DEF Bootstrap, Writes, Moves
<1>8. CASE BodyFails(j)
  BY <1>8 DEF BodyFails, Body, Raises
<1>9. CASE PreviewAccepts(j)
  BY <1>9 DEF PreviewAccepts, Moves
<1>10. CASE PreviewStops(j)
  BY <1>10 DEF PreviewStops
<1>11. CASE RunModel(j)
  BY <1>11 DEF RunModel
<1>12. CASE EvidenceUsed(j)
  BY <1>12 DEF EvidenceUsed, Writes
<1>13. CASE EnterFinally(j)
  BY SMTT(60), <1>13 DEF EnterFinally, Moves
<1> QED BY <1>1, <1>2, <1>3, <1>4, <1>5, <1>6, <1>7, <1>8, <1>9, <1>10, <1>11, <1>12, <1>13
   DEF Trying

LEMMA FinishingInv == ASSUME TypeOK, NEW j \in Jobs, JobInv(j), Finishing(j) PROVE JobInv(j)'
<1> USE RunAssumption DEF TypeOK, Run, At
<1> USE DEF JobInv, Holds, OwnsPrepared, Since, WithBootstrap, WithContext, WithStore, WithRules, WithoutOld,
            Marks, Cleaned, Tidy, Clean, Finished, StatusTrue
<1> USE DEF Unclaimed, Unstarted, Sessionless, Finishes, Masked, Code
<1>1. CASE BlockSignals(j)
  BY <1>1 DEF BlockSignals
<1>2. CASE Cleanup(j)
  BY <1>2 DEF Cleanup, Ephemeral
<1>3. CASE Finalize(j)
  BY <1>3 DEF Finalize, Finalizable
<1>4. CASE FinalizeFails(j)
  BY <1>4 DEF FinalizeFails, Finalizable, Discarded
<1>5. CASE DecisionsFail(j)
  BY <1>5 DEF DecisionsFail, Finalizable
<1>6. CASE NotFinalized(j)
  BY <1>6 DEF NotFinalized, Finalizable, Unfinalized
<1>7. CASE Restore(j)
  BY <1>7 DEF Restore
<1>8. CASE RestoreDelivers(j)
  BY <1>8 DEF RestoreDelivers, Ends, Releases
<1>9. CASE CleanupVerdict(j)
  BY <1>9 DEF CleanupVerdict, Moves
<1>10. CASE Report(j)
  BY <1>10 DEF Report, Verdict, Releases
<1>11. CASE ReportFails(j)
  BY <1>11 DEF ReportFails, Ends, Releases
<1>12. CASE Return(j)
  BY <1>12 DEF Return, Ends, Releases
<1>13. CASE Leave(j)
  BY <1>13 DEF Leave, Releases
<1> QED BY <1>1, <1>2, <1>3, <1>4, <1>5, <1>6, <1>7, <1>8, <1>9, <1>10, <1>11, <1>12, <1>13
   DEF Finishing

LEMMA TerminatedInv == ASSUME TypeOK, NEW j \in Jobs, JobInv(j), Terminated(j) PROVE JobInv(j)'
<1> USE RunAssumption DEF TypeOK, Run, At
<1> USE DEF JobInv, Holds, OwnsPrepared, Since, WithBootstrap, WithContext, WithStore, WithRules, WithoutOld,
            Marks, Cleaned, Tidy, Clean, Finished, StatusTrue
<1> USE DEF Unclaimed, Unstarted, Sessionless, Finishes, Masked, Code
<1>1. CASE Interrupt(j)
  BY <1>1 DEF Interrupt, Body, Raises
<1>2. CASE InterruptBlocked(j)
  BY <1>2 DEF InterruptBlocked
<1>3. CASE Dies(j)
  BY <1>3 DEF Dies, Ends, Releases
<1> QED BY <1>1, <1>2, <1>3 DEF Terminated

LEMMA OcrReturnsInv == ASSUME TypeOK, NEW j \in Jobs, JobInv(j), OcrReturns(j) PROVE JobInv(j)'
BY RunAssumption DEF OcrReturns, TypeOK, Run, At, JobInv, Holds, OwnsPrepared, Since,
   WithBootstrap, WithContext, WithStore, WithRules, WithoutOld,
            Marks, Cleaned, Tidy, Clean, Finished, StatusTrue,
   Unclaimed, Unstarted, Sessionless, Finishes, Masked, Code

(* What one process relies on, another one leaves alone.                     *)
LEMMA BesideInv ==
  ASSUME TypeOK, NEW j \in Jobs, NEW k \in Jobs \ {j}, JobInv(k), Beside(j)
  PROVE  JobInv(k)'
<1> USE RunAssumption DEF TypeOK, Beside, At
<1>1. Holds(k)' /\ OwnsPrepared(k)'
  BY DEF JobInv, Holds, OwnsPrepared, Since, WithBootstrap, WithContext, WithStore, WithRules,
     WithoutOld, Unclaimed
<1>2. Marks(k)'
  BY DEF JobInv, Marks
<1>3. Clean(k) => Clean(k)'
  BY DEF Clean
<1>4. Cleaned(k)' /\ Finished(k)'
  BY <1>3 DEF JobInv, Cleaned, Tidy, Finished, Finalized
<1>5. StatusTrue(k)'
  BY DEF JobInv, StatusTrue
<1> QED BY <1>1, <1>2, <1>4, <1>5 DEF JobInv

LEMMA InitReviewInv == Init => ReviewInv
<1> SUFFICES ASSUME Init PROVE ReviewInv
  OBVIOUS
<1>1. TypeOK
  BY InitTypeOK
<1>2. PICK r \in {"absent", "old"} : run = [j \in Jobs |-> [Fresh EXCEPT !.result = r]]
  BY DEF Init
<1>3. ASSUME NEW j \in Jobs PROVE JobInv(j)
  <2>1. /\ At(j, "start") /\ run[j].exit = "none" /\ run[j].code = "refused"
        /\ ~run[j].ran /\ ~run[j].home /\ ~run[j].trouble /\ ~run[j].escaped
        /\ run[j].result \in {"absent", "old"}
    BY <1>2 DEF Fresh, At
  <2>2. status.by # j /\ \A f \in File : files[f] # j
    BY RunAssumption DEF Init, NoStatus
  <2> QED
    BY <2>1, <2>2 DEF JobInv, Holds, OwnsPrepared, Since, WithBootstrap, WithContext,
       WithStore, WithRules, WithoutOld, Marks, Cleaned, Tidy, Clean, Finished, StatusTrue,
       Unclaimed, Unstarted, Sessionless, Finishes, At, Code
<1> QED BY <1>1, <1>3 DEF ReviewInv

LEMMA StepReviewInv == ReviewInv /\ [Next]_vars => ReviewInv'
<1> SUFFICES ASSUME ReviewInv, [Next]_vars PROVE ReviewInv'
  OBVIOUS
<1>1. TypeOK /\ TypeOK'
  BY StepTypeOK DEF ReviewInv
<1>2. ASSUME NEW j \in Jobs, Works(j) \/ OcrReturns(j) \/ Terminated(j)
      PROVE  \A k \in Jobs : JobInv(k)'
  <2>1. JobInv(j)'
    BY <1>1, <1>2, ClaimingInv, PreparingInv, TryingInv, FinishingInv, OcrReturnsInv,
       TerminatedInv DEF ReviewInv, Works
  <2>2. Beside(j)
    BY <1>1, <1>2, StepBeside DEF ReviewInv, JobInv
  <2>3. \A k \in Jobs \ {j} : JobInv(k)'
    BY <1>1, <2>2, BesideInv DEF ReviewInv
  <2> QED BY <2>1, <2>3
<1>3. CASE UNCHANGED vars
  <2>1. \A k \in Jobs : JobInv(k) => JobInv(k)'
    BY <1>3 DEF vars, JobInv, Holds, OwnsPrepared, Marks, Cleaned, Tidy, Clean, Finished,
                StatusTrue, At
  <2> QED BY <1>1, <2>1 DEF ReviewInv
<1> QED BY <1>1, <1>2, <1>3 DEF Next, ReviewInv

(* The inductive invariant: what the holder of the checkout and the place of *)
(* every process say about the files, the status and the result.             *)
THEOREM ReviewInvariant == Spec => []ReviewInv
BY InitReviewInv, StepReviewInv, PTL DEF Spec

(* Two processes are never between claiming and leaving at the same time.    *)
THEOREM OneReviewAtATime ==
  Spec => [](\A j, k \in Jobs : run[j].at \notin Unclaimed /\ run[k].at \notin Unclaimed => j = k)
<1>1. ReviewInv => \A j, k \in Jobs : run[j].at \notin Unclaimed /\ run[k].at \notin Unclaimed => j = k
  BY DEF ReviewInv, JobInv, Holds
<1> QED BY <1>1, ReviewInvariant, PTL

(* ModelSeesOwnInputs: whatever killed, failed or concurrent runs left, OCR  *)
(* sees inputs of its own run only.                                          *)
THEOREM OwnInputs == Spec => []ModelSeesOwnInputs
<1>1. ReviewInv => ModelSeesOwnInputs
  BY DEF ReviewInv, JobInv, OwnsPrepared, Since, WithBootstrap, WithContext, WithStore,
         WithRules, WithoutOld, File, ModelSeesOwnInputs
<1> QED BY <1>1, ReviewInvariant, PTL

(* EndsClean: a run that ends by itself leaves nothing private behind.       *)
THEOREM LeavesNothing == Spec => []EndsClean
<1>1. ReviewInv => EndsClean
  BY DEF ReviewInv, JobInv, Cleaned, Tidy, Clean, EndsClean
<1> QED BY <1>1, ReviewInvariant, PTL

(* ResultIsTrue: the result file and the exit code agree with the run.       *)
THEOREM TrueResult == Spec => []ResultIsTrue
<1>1. ReviewInv => ResultIsTrue
  BY DEF ReviewInv, JobInv, Finished, Clean, ResultIsTrue, PostableIsClean, SuccessIsWhole
<1> QED BY <1>1, ReviewInvariant, PTL

-----------------------------------------------------------------------------
(* The handoff.                                                              *)

(* A review that ended stays as it is, but for a signal it still gets.       *)
Same(j) == /\ run'[j].at = run[j].at /\ run'[j].exit = run[j].exit
           /\ run'[j].result = run[j].result /\ run'[j].ran = run[j].ran
LEMMA DoneStays ==
  ASSUME TypeOK, NEW j \in Jobs, At(j, "done"), Works(j) \/ OcrReturns(j) \/ Terminated(j)
  PROVE  Same(j)
<1>1. ~Claiming(j)
  BY DEF Claiming, RefusedUnclaimed, Claim, CannotClaim, ClearStatus, ClearStatusFails,
         Options, OptionsRefused, At
<1>2. ~Preparing(j)
  BY DEF Preparing, ClearInputs, ClearInputsFails, Identity, IdentityFails, PrepareOutputs,
         OutputsFail, SessionHome, InstallHandlers, At
<1>3. ~Trying(j)
  BY DEF Trying, Configure, PolicyContext, PolicyRefuses, CollectEvidence, Enrich,
         StartGateway, Bootstrap, BodyFails, Body, PreviewAccepts, PreviewStops, RunModel,
         EvidenceUsed, EnterFinally, At
<1>4. ~Finishing(j)
  BY DEF Finishing, BlockSignals, Cleanup, Finalize, FinalizeFails, DecisionsFail,
         NotFinalized, Restore, RestoreDelivers, CleanupVerdict, Report, ReportFails, Return,
         Leave, At
<1>5. ~OcrReturns(j) /\ ~Interrupt(j) /\ ~Dies(j)
  BY DEF OcrReturns, Interrupt, Body, Dies, At
<1>6. InterruptBlocked(j)
  BY <1>1, <1>2, <1>3, <1>4, <1>5 DEF Works, Terminated
<1> QED BY <1>6 DEF InterruptBlocked, Same, TypeOK, Run

LEMMA HandedTyped ==
  ASSUME TypeOK, NEW j \in Jobs
  PROVE  Handed(j) \in Posted
BY DEF Handed, ResultPosted, StatusPosted, Posted, Nothing, TypeOK, Status, StatusKind

LEMMA StepHandoffInv == HandoffInv /\ [HandoffNext]_handoffVars => HandoffInv'
<1> SUFFICES ASSUME HandoffInv, [HandoffNext]_handoffVars PROVE HandoffInv'
  OBVIOUS
<1> USE DEF HandoffInv, PostedTrue
<1>1. TypeOK /\ \A j \in Jobs : JobInv(j)
  BY DEF ReviewInv
<1>2. ASSUME NEW j \in Jobs, Works(j) \/ OcrReturns(j) \/ Terminated(j), UNCHANGED posted
      PROVE  HandoffInv'
  <2>1. ReviewInv'
    BY <1>2, StepReviewInv DEF Next
  <2>2. \A k \in Jobs \ {j} : run'[k] = run[k]
    BY <1>1, <1>2, StepBeside DEF JobInv, Beside
  <2>3. \A k \in Jobs \ {j} : PostedTrue(k)'
    BY <1>2, <2>2 DEF At
  <2>4. CASE At(j, "done")
    BY <1>1, <1>2, <2>1, <2>3, <2>4, DoneStays DEF Same, At
  <2>5. CASE ~At(j, "done")
    BY <1>2, <2>1, <2>3, <2>5 DEF Waiting, Nothing
  <2> QED BY <2>4, <2>5
<1>3. ASSUME NEW j \in Jobs, Post(j) PROVE HandoffInv'
  <2>1. ReviewInv'
    BY <1>3, StepReviewInv DEF Post
  <2>2. UNCHANGED run /\ posted' = [posted EXCEPT ![j] = Handed(j)]
    BY <1>3 DEF Post, vars
  <2>3. posted' \in [Jobs -> Posted]
    BY <1>1, <2>2, HandedTyped
  <2>4. Handed(j).kind = "review" => run[j].exit = "ok" /\ run[j].result = "final"
    BY DEF Handed, ResultPosted, StatusPosted, Nothing
  <2>5. Handed(j).kind = "note" => Handed(j).by = j /\ ~run[j].ran
    BY <1>1 DEF Handed, ResultPosted, StatusPosted, StatusBound, Nothing, JobInv, StatusTrue
  <2>6. run[j].exit = "noHandoff" => Handed(j) = Nothing
    BY DEF Handed
  <2>7. PostedTrue(j)'
    BY <1>3, <2>2, <2>4, <2>5, <2>6 DEF Post, At
  <2> QED BY <2>1, <2>2, <2>3, <2>7 DEF At
<1>4. CASE UNCHANGED handoffVars
  <2>1. ReviewInv'
    BY <1>4, StepReviewInv DEF handoffVars
  <2> QED BY <1>4, <2>1 DEF handoffVars, vars, At
<1> QED BY <1>2, <1>3, <1>4 DEF HandoffNext, Reviews, Next

LEMMA InitHandoffInv == HandoffInit => HandoffInv
<1> SUFFICES ASSUME HandoffInit PROVE HandoffInv
  OBVIOUS
<1>1. ReviewInv
  BY InitReviewInv DEF HandoffInit
<1>2. Waiting \in Posted /\ Waiting.kind = "waiting"
  BY DEF Waiting, Posted
<1> QED BY <1>1, <1>2 DEF HandoffInit, HandoffInv, PostedTrue

THEOREM HandoffInvariant == HandoffSpec => []HandoffInv
BY InitHandoffInv, StepHandoffInv, PTL DEF HandoffSpec

(* PostsOwnRun: what post puts on the merge request is true of its own job's  *)
(* review, and a job that lost the checkout puts nothing there.              *)
THEOREM PostIsTrue == HandoffSpec => []PostsOwnRun
<1>1. HandoffInv => PostsOwnRun
  BY DEF HandoffInv, PostedTrue, ReviewInv, JobInv, Finished, Clean, PostsOwnRun, HandoffTypes,
         OnlyWholeReviewsPosted, NoteMeansNotStarted, LoserPostsNothing
<1> QED BY <1>1, HandoffInvariant, PTL

-----------------------------------------------------------------------------
(* The progress lines.                                                        *)
LEMMA ProgressStarts == ProgressInit => ProgressInv
<1> SUFFICES ASSUME ProgressInit PROVE ProgressInv OBVIOUS
<1>1. lines = <<>> /\ Len(lines) = 0 /\ DOMAIN lines = {} BY DEF ProgressInit
<1>2. ProgressTypeOK
  <2>1. lines \in Seq([phase : Nat, waiting : BOOLEAN]) BY <1>1
  <2> QED BY <2>1 DEF ProgressInit, ProgressTypeOK
<1>3. LockInOrder BY DEF ProgressInit, LockInOrder
<1>4. PhasesInOrder BY <1>1, ProgressAssumption DEF ProgressInit, PhasesInOrder, Telling
<1>5. ReviewProgressSafe
  BY <1>1, ProgressAssumption DEF ProgressInit, ReviewProgressSafe, ClosedIsSilent,
     JoinCannotHang, LinesTellPhases
<1> QED BY <1>2, <1>3, <1>4, <1>5 DEF ProgressInv

LEMMA LockKept ==
  ASSUME ProgressInv, ProgressNext
  PROVE  LockInOrder'
<1> USE DEF ProgressInv, ProgressTypeOK, LockInOrder, Telling
<1>1. ASSUME NEW t \in Threads, EmitBegins(t) PROVE LockInOrder'
  <2>0. Len(lines) \in Nat /\ MaxMessages \in Nat BY ProgressAssumption
  <2>1. CASE t = "main" BY <1>1, <2>0, <2>1 DEF EmitBegins, Emits, EmitDone, Threads
  <2>2. CASE t = "beat" BY <1>1, <2>0, <2>2 DEF EmitBegins, Emits, EmitDone, Threads
  <2> QED BY <2>1, <2>2 DEF Threads
<1>2. ASSUME NEW t \in Threads, EmitEnds(t) PROVE LockInOrder'
  BY <1>2 DEF EmitEnds, EmitDone, Threads
<1>3. EnterPhase => LockInOrder' BY DEF EnterPhase
<1>4. Spawn => LockInOrder' BY DEF Spawn
<1>5. AssignHandle => LockInOrder' BY DEF AssignHandle
<1>6. CloseBegins => LockInOrder' BY DEF CloseBegins
<1>7. CloseEnds => LockInOrder' BY DEF CloseEnds
<1>8. HeartbeatWakes => LockInOrder' BY DEF HeartbeatWakes
<1> QED BY <1>1, <1>2, <1>3, <1>4, <1>5, <1>6, <1>7, <1>8 DEF ProgressNext

LEMMA ProgressTypeKept ==
  ASSUME ProgressInv, ProgressNext
  PROVE  ProgressTypeOK'
<1> USE DEF ProgressInv, ProgressTypeOK
<1>1. ASSUME NEW t \in Threads, EmitBegins(t) PROVE ProgressTypeOK'
  BY <1>1 DEF EmitBegins, EmitDone, Threads
<1>2. ASSUME NEW t \in Threads, EmitEnds(t) PROVE ProgressTypeOK'
  <2>1. [phase |-> phaseNow, waiting |-> t = "beat"] \in [phase : Nat, waiting : BOOLEAN] OBVIOUS
  <2>2. lines' \in Seq([phase : Nat, waiting : BOOLEAN])
    <3>1. lines' = lines \/ lines' = Append(lines, [phase |-> phaseNow, waiting |-> t = "beat"]) BY <1>2 DEF EmitEnds
    <3>2. lines \in Seq([phase : Nat, waiting : BOOLEAN]) OBVIOUS
    <3> DEFINE L == [phase : Nat, waiting : BOOLEAN]
               x == [phase |-> phaseNow, waiting |-> t = "beat"]
    <3>3. x \in L /\ lines \in Seq(L) /\ (lines' = lines \/ lines' = Append(lines, x)) BY ONLY <2>1, <3>1, <3>2
    <3>4. lines' \in Seq(L)
      <4> HIDE DEF L, x
      <4> QED BY ONLY <3>3
    <3> QED BY ONLY <3>4
  <2>3. stopFlag' \in BOOLEAN
    <3>1. stopFlag' = (stopFlag \/ Len(lines') >= MaxMessages) \/ stopFlag' = TRUE BY <1>2 DEF EmitEnds
    <3> QED BY ONLY <3>1
  <2> QED BY <1>2, <2>2, <2>3 DEF EmitEnds, EmitDone, Threads
<1>3. EnterPhase => ProgressTypeOK' BY DEF EnterPhase
<1>4. Spawn => ProgressTypeOK' BY DEF Spawn
<1>5. AssignHandle => ProgressTypeOK' BY DEF AssignHandle
<1>6. CloseBegins => ProgressTypeOK' BY DEF CloseBegins
<1>7. CloseEnds => ProgressTypeOK' BY DEF CloseEnds
<1>8. HeartbeatWakes => ProgressTypeOK' BY DEF HeartbeatWakes
<1> QED BY <1>1, <1>2, <1>3, <1>4, <1>5, <1>6, <1>7, <1>8 DEF ProgressNext

(* Only the end of a telling changes the lines.                               *)
LEMMA SilentKept ==
  ASSUME ProgressInv, ProgressNext
  PROVE  ClosedIsSilent' /\ JoinCannotHang'
<1> USE DEF ProgressInv, ProgressTypeOK, LockInOrder, Telling, ReviewProgressSafe
<1>1. ClosedIsSilent'
  <2> USE DEF ClosedIsSilent
  <2>1. ASSUME NEW t \in Threads, EmitBegins(t) PROVE ClosedIsSilent'
    BY <2>1 DEF EmitBegins, Emits, EmitDone, Threads
  <2>2. ASSUME NEW t \in Threads, EmitEnds(t) PROVE ClosedIsSilent'
    BY <2>2 DEF EmitEnds, EmitDone, Threads
  <2>3. EnterPhase => ClosedIsSilent' BY DEF EnterPhase
  <2>4. Spawn => ClosedIsSilent' BY DEF Spawn
  <2>5. AssignHandle => ClosedIsSilent' BY DEF AssignHandle
  <2>6. CloseBegins => ClosedIsSilent' BY DEF CloseBegins
  <2>7. CloseEnds => ClosedIsSilent' BY DEF CloseEnds, Joined
  <2>8. HeartbeatWakes => ClosedIsSilent' BY DEF HeartbeatWakes
  <2> QED BY <2>1, <2>2, <2>3, <2>4, <2>5, <2>6, <2>7, <2>8 DEF ProgressNext
<1>2. JoinCannotHang'
  BY LockKept, ProgressTypeKept DEF JoinCannotHang, HeartbeatMoves, Emits, Threads
<1> QED BY <1>1, <1>2

LEMMA PhasesKept ==
  ASSUME ProgressInv, ProgressNext
  PROVE  PhasesInOrder' /\ LinesTellPhases'
<1> DEFINE Line == [phase : Nat, waiting : BOOLEAN]
<1>1. /\ phaseNow \in Nat /\ lines \in Seq(Line) /\ stopFlag \in BOOLEAN /\ LockInOrder /\ PhasesInOrder /\ LinesTellPhases
      /\ MaxMessages \in Nat \ {0}
  BY ProgressAssumption DEF ProgressInv, ProgressTypeOK, ReviewProgressSafe
<1>2. DOMAIN lines = 1..Len(lines) /\ Len(lines) \in Nat /\ \A i \in DOMAIN lines : lines[i].phase \in Nat
  <2>1. DOMAIN lines = 1..Len(lines) /\ Len(lines) \in Nat /\ \A i \in DOMAIN lines : lines[i] \in Line
    <3> HIDE DEF Line
    <3> QED BY <1>1
  <2> QED BY <2>1
<1>3. ASSUME UNCHANGED <<lines, phaseNow>>, stopFlag => stopFlag',
             Telling' => Telling, Telling /\ ~Telling' => stopFlag' \/ PhaseTold(phaseNow),
             mainAt' = "run" => mainAt # "new"
      PROVE  PhasesInOrder' /\ LinesTellPhases'
  <2>1. \A p : PhaseTold(p)' <=> PhaseTold(p) BY <1>3 DEF PhaseTold
  <2>2. PhasesInOrder' BY <1>1, <1>3, <2>1 DEF PhasesInOrder
  <2>3. mainAt' = "run" => ~Telling' BY DEF Telling
  <2> QED BY <1>1, <1>3, <2>1, <2>2, <2>3 DEF PhasesInOrder, LinesTellPhases
<1>4. ASSUME NEW t \in Threads, EmitBegins(t) PROVE PhasesInOrder' /\ LinesTellPhases'
  <2>1. UNCHANGED <<lines, phaseNow, stopFlag>> BY <1>4 DEF EmitBegins
  <2>2. Telling' => Telling BY <1>4 DEF EmitBegins, EmitDone, Telling
  <2>3. Telling /\ ~Telling' => stopFlag \/ Len(lines) >= MaxMessages BY <1>4 DEF EmitBegins, EmitDone, Telling
  <2>4. Len(lines) >= MaxMessages => stopFlag BY <1>1 DEF PhasesInOrder
  <2>5. mainAt' = "run" => mainAt # "new" BY <1>4 DEF EmitBegins, Emits, EmitDone
  <2> QED BY <1>3, <2>1, <2>2, <2>3, <2>4, <2>5
<1>5. ASSUME NEW t \in Threads, EmitEnds(t) PROVE PhasesInOrder' /\ LinesTellPhases'
  <2>1. /\ lineLock = t /\ Len(lines) < MaxMessages /\ phaseNow' = phaseNow
        /\ IF t = "main" THEN Telling /\ ~Telling' ELSE mainAt' = mainAt
    BY <1>1, <1>5 DEF EmitEnds, EmitDone, LockInOrder, Threads, Telling
  <2>2. CASE UNCHANGED lines /\ stopFlag' = TRUE
    <3>1. mainAt' = "run" => mainAt # "new" BY <1>5, <2>1 DEF EmitEnds, EmitDone, Telling
    <3>2. Telling' => Telling BY <2>1 DEF Telling
    <3> QED BY <1>3, <2>1, <2>2, <3>1, <3>2
  <2>3. CASE /\ lines' = Append(lines, [phase |-> phaseNow, waiting |-> t = "beat"])
             /\ stopFlag' = (stopFlag \/ Len(lines') >= MaxMessages)
    <3> DEFINE new == [phase |-> phaseNow, waiting |-> t = "beat"]
               n == Len(lines) + 1
    <3>1. /\ new \in Line /\ new.phase = phaseNow /\ (new.waiting <=> t = "beat")
      <4>1. new.phase = phaseNow /\ new.waiting = (t = "beat") OBVIOUS
      <4>2. new \in Line BY <1>1
      <4> QED BY <4>1, <4>2
    <3> HIDE DEF new
    <3>2. /\ lines' \in Seq(Line) /\ Len(lines') = n /\ DOMAIN lines' = 1..n /\ lines'[n] = new
          /\ \A i \in 1..Len(lines) : lines'[i] = lines[i]
      BY <1>1, <2>3, <3>1 DEF new
    <3>3. \A p : PhaseTold(p) => PhaseTold(p)' BY <1>2, <3>2 DEF PhaseTold
    <3>4. t # "beat" => PhaseTold(phaseNow)'
      <4>1. n \in DOMAIN lines' BY <1>2, <3>2
      <4>2. t # "beat" => lines'[n].phase = phaseNow /\ ~lines'[n].waiting BY <3>1, <3>2
      <4> HIDE DEF n
      <4> QED BY <2>1, <4>1, <4>2 DEF PhaseTold
    <3>5. Telling' => Telling BY <2>1 DEF Telling
    <3>6. t # "beat" => t = "main" BY DEF Threads
    <3>7. \A i \in DOMAIN lines' : lines'[i].phase <= phaseNow'
      BY SMTT(60), <1>1, <1>2, <2>1, <3>1, <3>2 DEF PhasesInOrder
    <3>8. Telling' => \A i \in DOMAIN lines' : ~lines'[i].waiting => lines'[i].phase < phaseNow'
      BY <1>1, <1>2, <2>1, <3>1, <3>2, <3>5, <3>6 DEF PhasesInOrder
    <3>9. Len(lines') >= MaxMessages => stopFlag' BY <2>3
    <3>10. ~stopFlag' => \A p \in 1..phaseNow' : PhaseTold(p)' \/ (p = phaseNow' /\ Telling')
      <4> SUFFICES ASSUME ~stopFlag', NEW p \in 1..phaseNow PROVE PhaseTold(p)' \/ (p = phaseNow /\ Telling')
        BY <2>1
      <4>1. ~stopFlag BY <2>3
      <4>2. PhaseTold(p) \/ (p = phaseNow /\ Telling) BY <1>1, <4>1 DEF PhasesInOrder
      <4>3. CASE t = "beat"
        <5>1. Telling' <=> Telling BY <2>1, <4>3 DEF Telling
        <5> QED BY <3>3, <4>2, <5>1
      <4>4. CASE t # "beat"
        <5>1. PhaseTold(phaseNow)' BY <3>4, <4>4
        <5>2. p = phaseNow => PhaseTold(p)' BY <2>1, <5>1
        <5> QED BY <3>3, <4>2, <5>2
      <4> QED BY <4>3, <4>4
    <3>11. PhasesInOrder' BY <3>7, <3>8, <3>9, <3>10 DEF PhasesInOrder
    <3>12. \A i, j \in DOMAIN lines' : i < j =>
             /\ lines'[i].phase <= lines'[j].phase
             /\ ~lines'[i].waiting /\ ~lines'[j].waiting => lines'[i].phase < lines'[j].phase
      <4> SUFFICES ASSUME NEW i \in DOMAIN lines', NEW j \in DOMAIN lines', i < j
                   PROVE  /\ lines'[i].phase <= lines'[j].phase
                          /\ ~lines'[i].waiting /\ ~lines'[j].waiting => lines'[i].phase < lines'[j].phase
        OBVIOUS
      <4>1. i \in DOMAIN lines /\ lines'[i] = lines[i] BY <1>2, <3>2
      <4>2. CASE j \in DOMAIN lines
        BY <1>1, <1>2, <3>2, <4>1, <4>2 DEF LinesTellPhases
      <4>3. CASE j = n
        <5>1. lines[i].phase <= phaseNow BY <1>1, <4>1 DEF PhasesInOrder
        <5>2. t # "beat" => Telling BY <2>1, <3>6
        <5>3. t # "beat" /\ ~lines[i].waiting => lines[i].phase < phaseNow BY <1>1, <4>1, <5>2 DEF PhasesInOrder
        <5> QED BY <3>1, <3>2, <4>1, <4>3, <5>1, <5>3
      <4> QED BY <1>2, <3>2, <4>2, <4>3
    <3>13. Len(lines') <= MaxMessages BY <1>1, <1>2, <2>1, <3>2
    <3>14. mainAt' = "run" => ~Telling' BY DEF Telling
    <3> QED BY <3>10, <3>11, <3>12, <3>13, <3>14 DEF LinesTellPhases
  <2> QED BY <1>5, <2>2, <2>3 DEF EmitEnds
<1>6. ASSUME EnterPhase PROVE PhasesInOrder' /\ LinesTellPhases'
  <2>1. phaseNow' = phaseNow + 1 /\ UNCHANGED <<lines, stopFlag>> /\ Telling' /\ mainAt' # "run" /\ ~Telling
    BY <1>6 DEF EnterPhase, Telling
  <2>2. \A p : PhaseTold(p)' <=> PhaseTold(p) BY <2>1 DEF PhaseTold
  <2>3. \A i \in DOMAIN lines : lines[i].phase < phaseNow' BY <1>1, <1>2, <2>1 DEF PhasesInOrder
  <2>4. ~stopFlag' => \A p \in 1..phaseNow' : PhaseTold(p)' \/ (p = phaseNow' /\ Telling')
    BY <1>1, <2>1, <2>2 DEF PhasesInOrder
  <2>5. PhasesInOrder' BY <1>1, <1>2, <2>1, <2>3, <2>4 DEF PhasesInOrder
  <2> QED BY <1>1, <2>1, <2>5 DEF LinesTellPhases
<1>7. ASSUME Spawn \/ AssignHandle \/ CloseBegins \/ CloseEnds \/ HeartbeatWakes
      PROVE  PhasesInOrder' /\ LinesTellPhases'
  <2>1. UNCHANGED <<lines, phaseNow>> BY <1>7 DEF Spawn, AssignHandle, CloseBegins, CloseEnds, HeartbeatWakes
  <2>2. /\ stopFlag => stopFlag'
        /\ Telling' => Telling
        /\ Telling /\ ~Telling' => stopFlag'
        /\ mainAt' = "run" => mainAt # "new"
    BY <1>1, <1>7 DEF Spawn, AssignHandle, CloseBegins, CloseEnds, HeartbeatWakes, Telling
  <2> QED BY <1>3, <2>1, <2>2
<1> QED BY <1>4, <1>5, <1>6, <1>7 DEF ProgressNext

LEMMA ProgressStands == ProgressInv /\ [ProgressNext]_progressVars => ProgressInv'
<1>1. ASSUME ProgressInv, ProgressNext PROVE ProgressInv'
  BY <1>1, LockKept, ProgressTypeKept, SilentKept, PhasesKept DEF ProgressInv, ReviewProgressSafe
<1>2. ASSUME ProgressInv, UNCHANGED progressVars PROVE ProgressInv'
  BY <1>2 DEF progressVars, ProgressInv, ProgressTypeOK, LockInOrder, PhasesInOrder, PhaseTold,
     Telling, ReviewProgressSafe,
              ClosedIsSilent, JoinCannotHang, HeartbeatMoves, Emits, LinesTellPhases
<1> QED BY <1>1, <1>2

(* Whatever the interleaving of the run's threads, its closing and the        *)
(* heartbeat, the progress lines come in the order of the phases, a closed    *)
(* run is silent, and joining the heartbeat never waits for a held lock.      *)
THEOREM ProgressHolds == ProgressSpec => []ReviewProgressSafe
<1>1. ProgressSpec => []ProgressInv BY ProgressStarts, ProgressStands, PTL DEF ProgressSpec
<1>2. ProgressInv => ReviewProgressSafe BY DEF ProgressInv
<1> QED BY <1>1, <1>2, PTL

(* The debug bundle.  The stages by their names.                              *)
Stages == {"configuration", "identity", "evidence", "mcp-preflight", "preview", "subprocess", "cleanup", "mcp-use", "dlp",
           "result-validation", "reporting"}
LEMMA StagesAre ==
  /\ DebugStage = Stages
  /\ Range(PreparingStages) = {"configuration", "identity", "evidence", "mcp-preflight"}
  /\ CheckingStages[1] = "mcp-use" /\ CheckingStages[2] = "dlp" /\ CheckingStages[3] = "result-validation"
<1>1. Range(PreparingStages) = {"configuration", "identity", "evidence", "mcp-preflight"}
  <2>1. DOMAIN PreparingStages = 1..4 BY DEF PreparingStages
  <2>2. PreparingStages[1] = "configuration" /\ PreparingStages[2] = "identity" /\ PreparingStages[3] = "evidence"
        /\ PreparingStages[4] = "mcp-preflight"
    BY DEF PreparingStages
  <2>3. \A i \in 1..4 : i = 1 \/ i = 2 \/ i = 3 \/ i = 4 OBVIOUS
  <2>4. 1 \in 1..4 /\ 2 \in 1..4 /\ 3 \in 1..4 /\ 4 \in 1..4 OBVIOUS
  <2> QED BY <2>1, <2>2, <2>3, <2>4 DEF Range
<1>2. /\ DOMAIN CheckingStages = 1..3
      /\ CheckingStages[1] = "mcp-use" /\ CheckingStages[2] = "dlp" /\ CheckingStages[3] = "result-validation"
  BY DEF CheckingStages
<1>3. Range(CheckingStages) = {"mcp-use", "dlp", "result-validation"}
  <2>1. \A i \in 1..3 : i = 1 \/ i = 2 \/ i = 3 OBVIOUS
  <2>2. 1 \in 1..3 /\ 2 \in 1..3 /\ 3 \in 1..3 OBVIOUS
  <2> QED BY <1>2, <2>1, <2>2 DEF Range
<1> QED BY <1>1, <1>2, <1>3 DEF DebugStage, Stages

LEMMA NextStages ==
  NextStage("configuration") = "identity" /\ NextStage("identity") = "evidence" /\ NextStage("evidence") = "mcp-preflight"
<1>1. /\ DOMAIN PreparingStages = 1..4 /\ PreparingStages[1] = "configuration" /\ PreparingStages[2] = "identity"
      /\ PreparingStages[3] = "evidence" /\ PreparingStages[4] = "mcp-preflight"
  BY DEF PreparingStages
<1>2. \A i \in 1..4 : i = 1 \/ i = 2 \/ i = 3 \/ i = 4 OBVIOUS
<1>3. (CHOOSE i \in DOMAIN PreparingStages : PreparingStages[i] = "configuration") = 1 BY <1>1, <1>2
<1>4. (CHOOSE i \in DOMAIN PreparingStages : PreparingStages[i] = "identity") = 2 BY <1>1, <1>2
<1>5. (CHOOSE i \in DOMAIN PreparingStages : PreparingStages[i] = "evidence") = 3 BY <1>1, <1>2
<1> QED BY <1>1, <1>3, <1>4, <1>5 DEF NextStage

(* What a write of a diagnostic leaves, whether it fails or not.               *)
CopiedWords == {"text", "raw", "large", "final", "report", "failure"}
OnlyFile(a) ==
  /\ bundle' \in [Artifact -> BundleText] /\ keptNotes' \in [Artifact -> BundleNote] /\ mishaps' \in Nat
  /\ \A b \in Artifact : b # a => bundle'[b] = bundle[b] /\ keptNotes'[b] = keptNotes[b]
KeptAs(a, content, mark) ==
  /\ OnlyFile(a) /\ bundle'[a] \in {bundle[a], content}
  /\ \/ mishaps' = mishaps /\ bundle'[a] = content /\ keptNotes'[a] = [status |-> mark, holds |-> content]
     \/ mishaps' = mishaps + 1 /\ keptNotes'[a] = Unavailable
CapturedAs(a, source) ==
  /\ OnlyFile(a)
  /\ source = "none" => bundle'[a] = bundle[a] /\ mishaps' = mishaps /\ keptNotes'[a] = Missing
  /\ source # "none" =>
       /\ bundle'[a] \in {bundle[a], <<source>>}
       /\ \/ /\ mishaps' = mishaps /\ bundle'[a] = <<source>> /\ keptNotes'[a].holds = <<source>>
             /\ keptNotes'[a].status \in {"degraded", "passed"}
          \/ mishaps' = mishaps + 1 /\ keptNotes'[a] = Unavailable
TornAs(a, source) ==
  /\ OnlyFile(a) /\ keptNotes' = keptNotes /\ torn' = TRUE /\ mishaps' = mishaps + 1
  /\ source # "none" /\ bundle'[a] = <<source>>
JournaledAs(c) ==
  /\ mishaps' \in Nat /\ journal'.complete \in BOOLEAN
  /\ \/ mishaps' = mishaps + 1 /\ journal' = journal
     \/ /\ mishaps' = mishaps \/ mishaps' = mishaps + 1
        /\ journal'.complete = c /\ journal'.notes = keptNotes /\ journal'.phases = observed
ObservedAs(s, v) ==
  /\ observed' \in [DebugStage -> {"not-run", "passed", "failed"}] /\ observed'[s] = v
  /\ \A r \in DebugStage : r # s => observed'[r] = observed[r]

LEMMA WriteKept ==
  ASSUME DebugTypeOK, NEW a \in Artifact, NEW content \in BundleText, NEW mark \in {"degraded", "passed"},
         Keep(a, content, mark)
  PROVE  KeptAs(a, content, mark)
<1>1. /\ bundle \in [Artifact -> BundleText] /\ keptNotes \in [Artifact -> BundleNote] /\ mishaps \in Nat BY DEF DebugTypeOK
<1>2. PICK w \in Replacement(bundle[a], content) :
        /\ bundle' = [bundle EXCEPT ![a] = w.file]
        /\ keptNotes' = [keptNotes EXCEPT ![a] = IF w.ok THEN [status |-> mark, holds |-> content] ELSE Unavailable]
        /\ mishaps' = mishaps + w.cost
  BY DEF Keep
<1>3. /\ w.file \in {bundle[a], content}
      /\ (w.file = content /\ w.ok /\ w.cost = 0) \/ (~w.ok /\ w.cost = 1)
  <2>1. \/ w = [file |-> content, ok |-> TRUE, cost |-> 0]
        \/ \E f \in {bundle[a], content} : w = [file |-> f, ok |-> FALSE, cost |-> 1]
    BY DEF Replacement
  <2>2. CASE w = [file |-> content, ok |-> TRUE, cost |-> 0] BY <2>2
  <2>3. ASSUME NEW f \in {bundle[a], content}, w = [file |-> f, ok |-> FALSE, cost |-> 1]
        PROVE  w.file \in {bundle[a], content} /\ ~w.ok /\ w.cost = 1
    BY <2>3
  <2> QED BY <2>1, <2>2, <2>3
<1> DEFINE good == [status |-> mark, holds |-> content]
<1>4. good \in BundleNote /\ Unavailable \in BundleNote
  BY DEF BundleNote, Unavailable, BundleText, Session
<1> HIDE DEF good
<1>. USE DEF KeptAs, OnlyFile
<1>5. CASE w.file = content /\ w.ok /\ w.cost = 0
  <2>1. keptNotes' = [keptNotes EXCEPT ![a] = good] BY <1>2, <1>5 DEF good
  <2> QED BY <1>1, <1>2, <1>4, <1>5, <2>1 DEF good
<1>6. CASE ~w.ok /\ w.cost = 1
  <2>1. keptNotes' = [keptNotes EXCEPT ![a] = Unavailable] BY <1>2, <1>6
  <2> QED BY <1>1, <1>2, <1>3, <1>4, <1>6, <2>1
<1> QED BY <1>3, <1>5, <1>6

LEMMA CopyCaptured ==
  ASSUME DebugTypeOK, NEW a \in Artifact, NEW source \in CopiedWords \cup {"none"}, Capture(a, source)
  PROVE  CapturedAs(a, source)
<1>1. CASE source = "none"
  <2>1. keptNotes' = [keptNotes EXCEPT ![a] = Missing] /\ UNCHANGED <<bundle, mishaps>> BY <1>1 DEF Capture
  <2>2. Missing \in BundleNote BY DEF BundleNote, Missing, BundleText, Session
  <2> QED BY <1>1, <2>1, <2>2 DEF DebugTypeOK, CapturedAs, OnlyFile
<1>2. CASE source # "none"
  <2> DEFINE content == <<source>>
  <2>1. content \in BundleText BY <1>2 DEF BundleText, CopiedWords
  <2>2. PICK mark \in {"degraded", "passed"} : Keep(a, content, mark) BY <1>2 DEF Capture
  <2> HIDE DEF content
  <2>3. KeptAs(a, content, mark) BY <2>1, <2>2, WriteKept
  <2>4. [status |-> mark, holds |-> content].status = mark /\ [status |-> mark, holds |-> content].holds = content
    OBVIOUS
  <2>5. OnlyFile(a) /\ bundle'[a] \in {bundle[a], content}
        /\ \/ /\ mishaps' = mishaps /\ bundle'[a] = content /\ keptNotes'[a].holds = content
              /\ keptNotes'[a].status \in {"degraded", "passed"}
           \/ mishaps' = mishaps + 1 /\ keptNotes'[a] = Unavailable
    BY <2>3, <2>4 DEF KeptAs
  <2> QED BY <1>2, <2>5 DEF CapturedAs, content
<1> QED BY <1>1, <1>2

LEMMA CopyTorn ==
  ASSUME DebugTypeOK, NEW a \in Artifact, NEW source \in CopiedWords \cup {"none"}, CaptureTorn(a, source)
  PROVE  TornAs(a, source)
<1>1. source # "none" /\ bundle' = [bundle EXCEPT ![a] = <<source>>] /\ torn' = TRUE /\ keptNotes' = keptNotes
      /\ mishaps' = mishaps + 1
  BY DEF CaptureTorn
<1>2. <<source>> \in BundleText BY <1>1 DEF BundleText, CopiedWords
<1> QED BY <1>1, <1>2 DEF DebugTypeOK, TornAs, OnlyFile

LEMMA JournalFlushed ==
  ASSUME DebugTypeOK, NEW c \in BOOLEAN, Flushes(c)
  PROVE  JournaledAs(c)
<1> DEFINE new == [complete |-> c, notes |-> keptNotes, phases |-> observed]
<1>1. PICK w \in Replacement(journal, new) : journal' = w.file /\ mishaps' = mishaps + w.cost BY DEF Flushes
<1>2. new.complete = c /\ new.notes = keptNotes /\ new.phases = observed OBVIOUS
<1> HIDE DEF new
<1>3. \/ w = [file |-> new, ok |-> TRUE, cost |-> 0]
      \/ \E f \in {journal, new} : w = [file |-> f, ok |-> FALSE, cost |-> 1]
  BY DEF Replacement
<1>4. (w.file = new /\ w.cost = 0) \/ (w.file \in {journal, new} /\ w.cost = 1)
  <2>1. CASE w = [file |-> new, ok |-> TRUE, cost |-> 0] BY <2>1
  <2>2. ASSUME NEW f \in {journal, new}, w = [file |-> f, ok |-> FALSE, cost |-> 1]
        PROVE  w.file \in {journal, new} /\ w.cost = 1
    BY <2>2
  <2> QED BY <1>3, <2>1, <2>2
<1> QED BY <1>1, <1>2, <1>4 DEF DebugTypeOK, JournaledAs

(* One stage is observed.                                                     *)
LEMMA StageObserved ==
  ASSUME DebugTypeOK, NEW s \in DebugStage, NEW v \in {"not-run", "passed", "failed"}, Observe(s, v)
  PROVE  ObservedAs(s, v)
BY DEF Observe, DebugTypeOK, ObservedAs

(* What the steps do to the files, the notes and the stages.                  *)
LEMMA ArtifactWords ==
  /\ "bootstrap" \in Artifact /\ "raw" \in Artifact /\ "diagram" \in Artifact /\ "trace" \in Artifact
  /\ "summary" \in Artifact /\ "safe" \in Artifact
  /\ DebugTypeOK => resultFile \in CopiedWords \cup {"none"} /\ told \in CopiedWords \cup {"none"}
  /\ "text" \in CopiedWords /\ "failure" \in CopiedWords
BY DEF Artifact, CopiedWords, DebugTypeOK

LEMMA StageSteps ==
  ASSUME DebugTypeOK
  PROVE  /\ CreateBundle => JournaledAs(FALSE)
         /\ FinalJournal => JournaledAs(TRUE)
         /\ StagePasses => ObservedAs(debugAt, "passed")
         /\ PreflightPasses => ObservedAs("mcp-preflight", "passed")
         /\ PreviewEnds => ObservedAs("preview", "passed") \/ ObservedAs("preview", "failed")
         /\ CleanUp => ObservedAs("cleanup", "passed") \/ ObservedAs("cleanup", "failed")
         /\ Console => ObservedAs("reporting", "passed") \/ observed' = observed
         /\ TellFailure => ObservedAs(stageNow, "failed")
         /\ PublishFailure => ObservedAs("reporting", "passed") \/ ObservedAs("reporting", "failed")
<1> USE StagesAre DEF Stages
<1>1. CreateBundle => JournaledAs(FALSE) BY JournalFlushed DEF CreateBundle
<1>2. FinalJournal => JournaledAs(TRUE) BY JournalFlushed DEF FinalJournal
<1>3. StagePasses => ObservedAs(debugAt, "passed") BY StageObserved DEF StagePasses
<1>4. PreflightPasses => ObservedAs("mcp-preflight", "passed") BY StageObserved DEF PreflightPasses
<1>5. PreviewEnds => ObservedAs("preview", "passed") \/ ObservedAs("preview", "failed") BY StageObserved DEF PreviewEnds
<1>6. CleanUp => ObservedAs("cleanup", "passed") \/ ObservedAs("cleanup", "failed") BY StageObserved DEF CleanUp
<1>7. Console => ObservedAs("reporting", "passed") \/ observed' = observed BY StageObserved DEF Console
<1>8. TellFailure => ObservedAs(stageNow, "failed") BY StageObserved DEF TellFailure, DebugTypeOK
<1>9. PublishFailure => ObservedAs("reporting", "passed") \/ ObservedAs("reporting", "failed")
  BY StageObserved DEF PublishFailure
<1> QED BY <1>1, <1>2, <1>3, <1>4, <1>5, <1>6, <1>7, <1>8, <1>9

LEMMA FileSteps ==
  ASSUME DebugTypeOK
  PROVE  /\ CaptureBootstrap =>
              \/ CapturedAs("bootstrap", "text") /\ debugAt' = "mcp-preflight" /\ UNCHANGED <<outcomeNow, torn>>
              \/ TornAs("bootstrap", "text") /\ debugAt' = "diagram" /\ outcomeNow' = "failing"
         /\ CaptureRaw =>
              \/ /\ CapturedAs("raw", resultFile) /\ UNCHANGED <<outcomeNow, torn>>
                 /\ \/ outcomeNow = "failing" /\ observed' = observed
                    \/ outcomeNow = "rejected" /\ ObservedAs("subprocess", "failed")
                    \/ outcomeNow \notin {"failing", "rejected"} /\ ObservedAs("subprocess", "passed")
              \/ TornAs("raw", resultFile) /\ outcomeNow' = "failing" /\ UNCHANGED observed
         /\ CaptureDiagram => \E source \in {"none", "text"} : CapturedAs("diagram", source)
         /\ CaptureReport => CapturedAs("summary", told)
         /\ CaptureSafe => IF admitted THEN CapturedAs("safe", resultFile) ELSE UNCHANGED <<bundle, keptNotes, mishaps>>
<1> USE StagesAre, ArtifactWords DEF Stages
<1>1. CaptureBootstrap =>
        \/ CapturedAs("bootstrap", "text") /\ debugAt' = "mcp-preflight" /\ UNCHANGED <<outcomeNow, torn>>
        \/ TornAs("bootstrap", "text") /\ debugAt' = "diagram" /\ outcomeNow' = "failing"
  BY CopyCaptured, CopyTorn DEF CaptureBootstrap
<1>2. CaptureRaw =>
        \/ /\ CapturedAs("raw", resultFile) /\ UNCHANGED <<outcomeNow, torn>>
           /\ \/ outcomeNow = "failing" /\ observed' = observed
              \/ outcomeNow = "rejected" /\ ObservedAs("subprocess", "failed")
              \/ outcomeNow \notin {"failing", "rejected"} /\ ObservedAs("subprocess", "passed")
        \/ TornAs("raw", resultFile) /\ outcomeNow' = "failing" /\ UNCHANGED observed
  BY CopyCaptured, CopyTorn, StageObserved DEF CaptureRaw
<1>3. CaptureDiagram => \E source \in {"none", "text"} : CapturedAs("diagram", source)
  <2> SUFFICES ASSUME CaptureDiagram PROVE \E source \in {"none", "text"} : CapturedAs("diagram", source) OBVIOUS
  <2>1. PICK source \in {"none", "text"} : Capture("diagram", source) BY DEF CaptureDiagram
  <2>2. CapturedAs("diagram", source) BY <2>1, CopyCaptured
  <2> QED BY <2>2
<1>4. CaptureReport => CapturedAs("summary", told) BY CopyCaptured DEF CaptureReport
<1>5. CaptureSafe => IF admitted THEN CapturedAs("safe", resultFile) ELSE UNCHANGED <<bundle, keptNotes, mishaps>>
  BY CopyCaptured DEF CaptureSafe
<1> QED BY <1>1, <1>2, <1>3, <1>4, <1>5

LEMMA SummarySteps ==
  ASSUME DebugTypeOK
  PROVE  /\ TellFailure => \/ UNCHANGED <<bundle, keptNotes, mishaps>> /\ stageNow = "reporting" /\ debugAt' = "safe"
                           \/ KeptAs("summary", <<"failure">>, "passed") /\ stageNow # "reporting" /\ debugAt' = "publish"
         /\ PublishFailure => \/ CapturedAs("summary", "failure") /\ told' = "failure"
                              \/ UNCHANGED <<bundle, keptNotes, mishaps>> /\ told' \in {told, "failure"}
         /\ ReportResult =>
              LET report == IF admitted THEN "report" ELSE "failure" IN
              \/ told' = report /\ debugAt' = "reported" /\ UNCHANGED <<outcomeNow, bundle, keptNotes, mishaps>>
              \/ /\ told' \in {told, report} /\ KeptAs("summary", <<"failure">>, "passed")
                 /\ debugAt' = "tell" /\ outcomeNow' = "failing"
         /\ InterruptedReport =>
              \/ mishaps' = mishaps + 1 /\ UNCHANGED <<told, bundle, keptNotes, torn>>
              \/ debugAt = "reported" /\ TornAs("summary", told) /\ UNCHANGED told
              \/ debugAt = "publish" /\ TornAs("summary", "failure") /\ told' = "failure"
<1> USE ArtifactWords
<1>0. <<"failure">> \in BundleText BY DEF BundleText
<1>1. TellFailure => \/ UNCHANGED <<bundle, keptNotes, mishaps>> /\ stageNow = "reporting" /\ debugAt' = "safe"
                     \/ KeptAs("summary", <<"failure">>, "passed") /\ stageNow # "reporting" /\ debugAt' = "publish"
  BY <1>0, WriteKept DEF TellFailure
<1>2. PublishFailure => \/ CapturedAs("summary", "failure") /\ told' = "failure"
                        \/ UNCHANGED <<bundle, keptNotes, mishaps>> /\ told' \in {told, "failure"}
  BY CopyCaptured DEF PublishFailure, HalfPublished
<1>3. ASSUME ReportResult
      PROVE LET report == IF admitted THEN "report" ELSE "failure" IN
              \/ told' = report /\ debugAt' = "reported" /\ UNCHANGED <<outcomeNow, bundle, keptNotes, mishaps>>
              \/ /\ told' \in {told, report} /\ KeptAs("summary", <<"failure">>, "passed")
                 /\ debugAt' = "tell" /\ outcomeNow' = "failing"
  BY <1>0, <1>3, WriteKept DEF ReportResult, HalfPublished
<1>4. InterruptedReport =>
        \/ mishaps' = mishaps + 1 /\ UNCHANGED <<told, bundle, keptNotes, torn>>
        \/ debugAt = "reported" /\ TornAs("summary", told) /\ UNCHANGED told
        \/ debugAt = "publish" /\ TornAs("summary", "failure") /\ told' = "failure"
  BY CopyTorn DEF InterruptedReport
<1> QED BY <1>1, <1>2, <1>3, <1>4

(* The trace: what is noted of it, and what is kept.                          *)
LEMMA TraceSteps ==
  ASSUME DebugTypeOK
  PROVE  /\ TraceKept => KeptAs("trace", tracing.kept, IF TracePassed(tracing) /\ ~shifted THEN "passed" ELSE "degraded")
         /\ \A note : note \in {Missing, Unavailable} /\ TraceNoted(note) =>
              /\ keptNotes' \in [Artifact -> BundleNote] /\ keptNotes'["trace"] = note
              /\ \A b \in Artifact : b # "trace" => keptNotes'[b] = keptNotes[b]
              /\ debugAt' = "clean" /\ tracing' = Untraced
         /\ BindSession =>
              \/ pinned' = TRUE /\ UNCHANGED <<keptNotes, mishaps>>
              \/ /\ mishaps' = mishaps + 1 /\ keptNotes' \in [Artifact -> BundleNote] /\ keptNotes'["trace"] = Unavailable
                 /\ (\A b \in Artifact : b # "trace" => keptNotes'[b] = keptNotes[b]) /\ UNCHANGED pinned
<1> USE ArtifactWords
<1>1. Missing \in BundleNote /\ Unavailable \in BundleNote BY DEF Missing, Unavailable, BundleNote, BundleText, Session
<1>2. keptNotes \in [Artifact -> BundleNote] BY DEF DebugTypeOK
<1>3. tracing.kept \in BundleText
  <2>1. tracing.kept \in Seq(KeptLine) BY DEF DebugTypeOK, TraceReading
  <2>2. KeptLine \subseteq TraceLine BY DEF TraceLine
  <2>3. tracing.kept \in Seq(TraceLine)
    <3> HIDE DEF KeptLine, TraceLine
    <3> QED BY <2>1, <2>2
  <2> QED BY <2>3 DEF BundleText, Session
<1>4. TraceKept => KeptAs("trace", tracing.kept, IF TracePassed(tracing) /\ ~shifted THEN "passed" ELSE "degraded")
  BY <1>3, WriteKept DEF TraceKept
<1>5. ASSUME NEW note \in {Missing, Unavailable}, TraceNoted(note)
      PROVE  /\ keptNotes' \in [Artifact -> BundleNote] /\ keptNotes'["trace"] = note
             /\ \A b \in Artifact : b # "trace" => keptNotes'[b] = keptNotes[b]
             /\ debugAt' = "clean" /\ tracing' = Untraced
  BY <1>1, <1>2, <1>5 DEF TraceNoted
<1>6. BindSession =>
        \/ pinned' = TRUE /\ UNCHANGED <<keptNotes, mishaps>>
        \/ /\ mishaps' = mishaps + 1 /\ keptNotes' \in [Artifact -> BundleNote] /\ keptNotes'["trace"] = Unavailable
           /\ (\A b \in Artifact : b # "trace" => keptNotes'[b] = keptNotes[b]) /\ UNCHANGED pinned
  BY <1>1, <1>2 DEF BindSession
<1> QED BY <1>4, <1>5, <1>6

(* One turn of the reading: it ends, or the trace is refused, or it goes on.  *)
LEMMA ReadingTurns ==
  ASSUME DebugTypeOK, TraceInOrder, ReadRecord
  PROVE  LET t == tracing
             line == nativeFile[t.at + 1] IN
         /\ debugAt = "reading"
         /\ \/ /\ tracing' = t /\ debugAt' = "traced" /\ UNCHANGED keptNotes
               /\ t.at = Len(nativeFile) /\ (t.at < MaxTraceRecords => t.read < SourceRoom)
            \/ /\ tracing' = CutShort(t) /\ debugAt' = "traced" /\ UNCHANGED keptNotes
               /\ \/ t.at = MaxTraceRecords /\ t.at # Len(nativeFile)
                  \/ t.read >= SourceRoom /\ t.at # MaxTraceRecords
                  \/ t.at < Len(nativeFile) /\ (line = "long" \/ t.read + LineRoom(line) > SourceRoom)
            \/ /\ t.at < Len(nativeFile) /\ t.at # MaxTraceRecords /\ t.read < SourceRoom
               /\ line # "long" /\ t.read + LineRoom(line) <= SourceRoom
               /\ LineRead(line, [t EXCEPT !.at = @ + 1, !.read = @ + LineRoom(line)])
<1> DEFINE t == tracing
           line == nativeFile[t.at + 1]
           whole == t.at = Len(nativeFile)
           u == [t EXCEPT !.at = @ + 1, !.read = @ + LineRoom(line)]
<1>1. debugAt = "reading" BY DEF ReadRecord
<1>2. t \in TraceReading /\ t.at \in Nat /\ t.read \in Nat BY DEF DebugTypeOK, TraceReading
<1>3. nativeFile \in Seq(TraceLine) /\ t.at <= Len(nativeFile) /\ Len(nativeFile) \in Nat
  <2>1. nativeFile # NoCopy /\ t.at <= Len(nativeFile) BY <1>1 DEF TraceInOrder, ReadSoFar
  <2>2. nativeFile \in Seq(TraceLine) BY <2>1 DEF DebugTypeOK, Session
  <2> HIDE DEF TraceLine
  <2> QED BY <2>1, <2>2
<1>4. line \in TraceLine \/ whole
  <2> HIDE DEF TraceLine
  <2> QED BY <1>2, <1>3
<1>5. LineRoom(line) \in Nat BY DEF LineRoom
<1>6. u.read = t.read + LineRoom(line) /\ u.at = t.at + 1 BY <1>2 DEF TraceReading
<1>7. IF t.at = MaxTraceRecords THEN TraceEnds(CutShortIf(~whole, t))
      ELSE IF t.read >= SourceRoom THEN TraceEnds(CutShort(t))
      ELSE IF whole THEN TraceEnds(t)
      ELSE IF line = "long" \/ u.read > SourceRoom THEN TraceEnds(CutShort(t))
      ELSE LineRead(line, u)
  BY DEF ReadRecord
<1>8. CutShortIf(TRUE, t) = CutShort(t) BY DEF CutShort
<1>9. CutShortIf(FALSE, t) = t
  <2>1. [t EXCEPT !.cutShort = t.cutShort \/ FALSE] = t BY <1>2 DEF TraceReading
  <2> QED BY <2>1 DEF CutShortIf
<1> HIDE DEF t, line, u
<1>10. MaxTraceRecords \in Nat /\ SourceRoom \in Nat BY DebugAssumption
<1>11. CASE t.at = MaxTraceRecords
  <2>1. whole => TraceEnds(t) BY <1>7, <1>9, <1>11
  <2>2. ~whole => TraceEnds(CutShort(t)) BY <1>7, <1>8, <1>11
  <2> QED BY <1>1, <1>10, <1>11, <2>1, <2>2 DEF TraceEnds, t
<1>12. CASE t.at # MaxTraceRecords /\ t.read >= SourceRoom BY <1>1, <1>7, <1>12 DEF TraceEnds, t
<1>13. CASE t.at # MaxTraceRecords /\ t.read < SourceRoom /\ whole BY <1>1, <1>2, <1>7, <1>10, <1>13 DEF TraceEnds, t
<1>14. CASE t.at # MaxTraceRecords /\ t.read < SourceRoom /\ ~whole /\ (line = "long" \/ u.read > SourceRoom)
  BY <1>1, <1>2, <1>3, <1>6, <1>7, <1>10, <1>14 DEF TraceEnds, t, line
<1>15. CASE t.at # MaxTraceRecords /\ t.read < SourceRoom /\ ~whole /\ ~(line = "long" \/ u.read > SourceRoom)
  <2>1. LineRead(line, u) BY <1>2, <1>7, <1>10, <1>15
  <2>2. t.read + LineRoom(line) <= SourceRoom BY <1>2, <1>5, <1>6, <1>10, <1>15
  <2> QED BY <1>1, <1>2, <1>3, <1>15, <2>1, <2>2 DEF t, line, u
<1> QED BY <1>2, <1>10, <1>11, <1>12, <1>13, <1>14, <1>15

(* One turn of the reading, field by field.                                   *)
SameRest(t) == tracing'.kept = t.kept /\ tracing'.filled = t.filled /\ tracing'.complete = t.complete
ReadStops(t, line) ==
  /\ debugAt' = "traced" /\ keptNotes' = keptNotes /\ tracing' \in TraceReading /\ SameRest(t)
  /\ \/ /\ tracing' = t /\ t.at = Len(nativeFile) /\ (t.at < MaxTraceRecords => t.read < SourceRoom)
     \/ /\ tracing'.cutShort /\ tracing'.at = t.at /\ tracing'.read = t.read
        /\ \/ t.at = MaxTraceRecords /\ t.at # Len(nativeFile)
           \/ t.read >= SourceRoom /\ t.at # MaxTraceRecords
           \/ t.at < Len(nativeFile) /\ (line = "long" \/ t.read + LineRoom(line) > SourceRoom)
     \/ /\ t.at < Len(nativeFile) /\ t.at # MaxTraceRecords /\ t.read + LineRoom(line) <= SourceRoom
        /\ tracing'.at = t.at + 1 /\ tracing'.read = t.read + LineRoom(line)
        /\ \/ line \in {"garbled", "open"} /\ t.at >= 1 /\ (t.cutShort => tracing'.cutShort)
           \/ IsKept(line) /\ tracing'.cutShort /\ t.filled + KeptRoom(line) > TraceRoom
ReadRefused(t, line) ==
  /\ debugAt' = "clean" /\ tracing' = Untraced /\ keptNotes' = [keptNotes EXCEPT !["trace"] = Unavailable]
  /\ t.at < Len(nativeFile) /\ (line \in {"garbled", "open"} \/ RecordRefused(line, t.at + 1))
ReadGoesOn(t, line) ==
  /\ debugAt' = "reading" /\ keptNotes' = keptNotes /\ tracing' \in TraceReading
  /\ t.at < Len(nativeFile) /\ t.at # MaxTraceRecords
  /\ tracing'.at = t.at + 1 /\ tracing'.read = t.read + LineRoom(line) /\ tracing'.read <= SourceRoom
  /\ line \notin {"garbled", "open", "long"} /\ ~RecordRefused(line, t.at + 1)
  /\ tracing'.ended = (line \in {"end", "openEnd", "unfitEnd"}) /\ tracing'.cutShort = (t.cutShort \/ line = "openEnd")
  /\ \/ ~IsKept(line) /\ SameRest(t)
     \/ /\ IsKept(line) /\ tracing'.kept = Append(t.kept, line) /\ tracing'.complete = tracing'.ended
        /\ tracing'.filled = t.filled + KeptRoom(line) /\ tracing'.filled <= TraceRoom

LEMMA TurnOfReading ==
  ASSUME DebugTypeOK, TraceInOrder, ReadRecord
  PROVE  LET line == nativeFile[tracing.at + 1] IN
         ReadStops(tracing, line) \/ ReadRefused(tracing, line) \/ ReadGoesOn(tracing, line)
<1> DEFINE line == nativeFile[tracing.at + 1]
<1>1. PICK t : t = tracing OBVIOUS
<1>2. PICK l : l = line OBVIOUS
<1>3. t \in TraceReading BY <1>1 DEF DebugTypeOK
<1>4. /\ t.at \in Nat /\ t.read \in Nat /\ t.filled \in Nat /\ t.kept \in Seq(KeptLine)
      /\ t.ended \in BOOLEAN /\ t.complete \in BOOLEAN /\ t.cutShort \in BOOLEAN
  BY <1>3 DEF TraceReading
<1>5. LineRoom(l) \in Nat /\ KeptRoom(l) \in Nat BY DEF LineRoom, KeptRoom
<1> DEFINE u == [t EXCEPT !.at = @ + 1, !.read = @ + LineRoom(l)]
<1>6. /\ debugAt = "reading"
      /\ \/ /\ tracing' = t /\ debugAt' = "traced" /\ UNCHANGED keptNotes
            /\ t.at = Len(nativeFile) /\ (t.at < MaxTraceRecords => t.read < SourceRoom)
         \/ /\ tracing' = CutShort(t) /\ debugAt' = "traced" /\ UNCHANGED keptNotes
            /\ \/ t.at = MaxTraceRecords /\ t.at # Len(nativeFile)
               \/ t.read >= SourceRoom /\ t.at # MaxTraceRecords
               \/ t.at < Len(nativeFile) /\ (l = "long" \/ t.read + LineRoom(l) > SourceRoom)
         \/ /\ t.at < Len(nativeFile) /\ t.at # MaxTraceRecords /\ t.read < SourceRoom
            /\ l # "long" /\ t.read + LineRoom(l) <= SourceRoom
            /\ LineRead(l, u)
  BY <1>1, <1>2, ReadingTurns
<1>7. /\ u \in TraceReading /\ u.at = t.at + 1 /\ u.read = t.read + LineRoom(l) /\ u.kept = t.kept /\ u.filled = t.filled
      /\ u.ended = t.ended /\ u.complete = t.complete /\ u.cutShort = t.cutShort
  <2>1. PICK a \in Nat, r \in Nat : a = t.at + 1 /\ r = t.read + LineRoom(l) BY <1>4, <1>5
  <2>2. u = [t EXCEPT !.at = a, !.read = r] BY <2>1
  <2> HIDE DEF u
  <2>3. /\ u \in TraceReading /\ u.at = a /\ u.read = r /\ u.kept = t.kept /\ u.filled = t.filled
        /\ u.ended = t.ended /\ u.complete = t.complete /\ u.cutShort = t.cutShort
    BY <1>3, <2>2 DEF TraceReading
  <2> QED BY <2>1, <2>3
<1>8. ASSUME NEW r \in TraceReading, NEW c \in BOOLEAN
      PROVE  /\ CutShortIf(c, r) \in TraceReading /\ CutShortIf(c, r).cutShort = (r.cutShort \/ c)
             /\ CutShortIf(c, r).at = r.at /\ CutShortIf(c, r).read = r.read /\ CutShortIf(c, r).kept = r.kept
             /\ CutShortIf(c, r).filled = r.filled /\ CutShortIf(c, r).complete = r.complete
             /\ CutShortIf(c, r).ended = r.ended
  BY DEF CutShortIf, TraceReading
<1>9. ASSUME NEW r \in TraceReading
      PROVE  /\ CutShort(r) \in TraceReading /\ CutShort(r).cutShort = TRUE
             /\ CutShort(r).at = r.at /\ CutShort(r).read = r.read /\ CutShort(r).kept = r.kept
             /\ CutShort(r).filled = r.filled /\ CutShort(r).complete = r.complete
  BY DEF CutShort, CutShortIf, TraceReading
<1> HIDE DEF u
<1>10. SUFFICES ReadStops(t, l) \/ ReadRefused(t, l) \/ ReadGoesOn(t, l) BY <1>1, <1>2
<1>11. CASE tracing' = t /\ debugAt' = "traced" /\ UNCHANGED keptNotes
            /\ t.at = Len(nativeFile) /\ (t.at < MaxTraceRecords => t.read < SourceRoom)
  BY <1>3, <1>11 DEF ReadStops, SameRest
<1>12. CASE /\ tracing' = CutShort(t) /\ debugAt' = "traced" /\ UNCHANGED keptNotes
            /\ \/ t.at = MaxTraceRecords /\ t.at # Len(nativeFile)
               \/ t.read >= SourceRoom /\ t.at # MaxTraceRecords
               \/ t.at < Len(nativeFile) /\ (l = "long" \/ t.read + LineRoom(l) > SourceRoom)
  BY <1>3, <1>9, <1>12 DEF ReadStops, SameRest
<1>13. CASE /\ t.at < Len(nativeFile) /\ t.at # MaxTraceRecords /\ t.read < SourceRoom
            /\ l # "long" /\ t.read + LineRoom(l) <= SourceRoom
            /\ LineRead(l, u)
  <2>1. CASE l \in {"garbled", "open"}
    <3>1. CASE u.at > 1 /\ TraceEnds(CutShortIf(l = "open", u))
      <4>1. t.at >= 1 BY <1>4, <1>7, <3>1
      <4> QED BY ZenonT(60), <1>7, <1>8, <1>13, <2>1, <3>1, <4>1 DEF TraceEnds, ReadStops, SameRest
    <3>2. CASE TraceNoted(Unavailable) BY <1>13, <2>1, <3>2 DEF TraceNoted, ReadRefused
    <3> QED BY <1>13, <2>1, <3>1, <3>2 DEF LineRead
  <2>2. CASE l \notin {"garbled", "open"} /\ RecordRefused(l, u.at)
    <3>1. TraceNoted(Unavailable) BY <1>13, <2>2 DEF LineRead
    <3> QED BY <1>7, <1>13, <2>2, <3>1 DEF TraceNoted, ReadRefused
  <2>3. CASE l \notin {"garbled", "open"} /\ ~RecordRefused(l, u.at)
    <3> DEFINE w == [u EXCEPT !.ended = l \in {"end", "openEnd", "unfitEnd"}]
               v == CutShortIf(l = "openEnd", w)
               x == [v EXCEPT !.kept = Append(@, l), !.filled = @ + KeptRoom(l), !.complete = v.ended]
    <3>1. /\ w \in TraceReading /\ w.at = u.at /\ w.read = u.read /\ w.kept = u.kept /\ w.filled = u.filled
          /\ w.ended = (l \in {"end", "openEnd", "unfitEnd"}) /\ w.complete = u.complete /\ w.cutShort = u.cutShort
      <4> DEFINE isEnd == l \in {"end", "openEnd", "unfitEnd"}
      <4>0. isEnd \in BOOLEAN OBVIOUS
      <4>1. PICK e \in BOOLEAN : e = isEnd BY <4>0
      <4>2. w = [u EXCEPT !.ended = e] BY <4>1
      <4> HIDE DEF w
      <4>3. /\ w \in TraceReading /\ w.at = u.at /\ w.read = u.read /\ w.kept = u.kept /\ w.filled = u.filled
            /\ w.ended = e /\ w.complete = u.complete /\ w.cutShort = u.cutShort
        BY <1>7, <4>2 DEF TraceReading
      <4> QED BY <4>1, <4>3
    <3> HIDE DEF w
    <3>2. /\ v \in TraceReading /\ v.at = t.at + 1 /\ v.read = t.read + LineRoom(l) /\ v.kept = t.kept /\ v.filled = t.filled
          /\ v.ended = (l \in {"end", "openEnd", "unfitEnd"}) /\ v.complete = t.complete
          /\ v.cutShort = (t.cutShort \/ l = "openEnd")
      BY ZenonT(60), <1>7, <1>8, <3>1
    <3>3. IF ~IsKept(l) THEN TraceGoesOn(v)
          ELSE IF v.filled + KeptRoom(l) > TraceRoom THEN TraceEnds(CutShort(v))
          ELSE TraceGoesOn(x)
      BY <1>13, <2>3 DEF LineRead, v, w, x
    <3>4. ~RecordRefused(l, t.at + 1) BY <1>7, <2>3
    <3>5. debugAt = "reading" BY <1>6
    <3> HIDE DEF v
    <3>6. CASE ~IsKept(l)
      BY <1>13, <2>3, <3>2, <3>3, <3>4, <3>5, <3>6 DEF TraceGoesOn, ReadGoesOn, SameRest
    <3>7. CASE IsKept(l) /\ v.filled + KeptRoom(l) > TraceRoom
      <4>1. tracing' = CutShort(v) /\ debugAt' = "traced" /\ keptNotes' = keptNotes BY <3>3, <3>7 DEF TraceEnds
      <4> QED BY <1>9, <1>13, <3>2, <3>7, <4>1 DEF ReadStops, SameRest
    <3>8. CASE IsKept(l) /\ ~(v.filled + KeptRoom(l) > TraceRoom)
      <4>1. tracing' = x /\ debugAt' = debugAt /\ keptNotes' = keptNotes BY <3>3, <3>8 DEF TraceGoesOn
      <4>2. l \in KeptLine BY <3>8 DEF IsKept
      <4>3. Append(v.kept, l) \in Seq(KeptLine)
        <5> HIDE DEF KeptLine
        <5> QED BY <1>4, <3>2, <4>2
      <4>4. /\ x \in TraceReading /\ x.at = v.at /\ x.read = v.read /\ x.kept = Append(v.kept, l)
            /\ x.filled = v.filled + KeptRoom(l) /\ x.ended = v.ended /\ x.complete = v.ended /\ x.cutShort = v.cutShort
        <5> HIDE DEF KeptLine
        <5>1. PICK k : k = Append(v.kept, l) OBVIOUS
        <5>2. PICK f \in Nat : f = v.filled + KeptRoom(l) BY <1>4, <1>5, <3>2
        <5>3. PICK e \in BOOLEAN : e = v.ended BY <3>2 DEF TraceReading
        <5>4. x = [v EXCEPT !.kept = k, !.filled = f, !.complete = e] BY <5>1, <5>2, <5>3
        <5>5. k \in Seq(KeptLine) BY <4>3, <5>1
        <5> HIDE DEF x
        <5>6. /\ x \in TraceReading /\ x.at = v.at /\ x.read = v.read /\ x.kept = k
              /\ x.filled = f /\ x.ended = v.ended /\ x.complete = e /\ x.cutShort = v.cutShort
          BY <3>2, <5>4, <5>5 DEF TraceReading
        <5> QED BY <5>1, <5>2, <5>3, <5>6
      <4>5. v.filled + KeptRoom(l) <= TraceRoom BY <1>4, <1>5, <3>2, <3>8, DebugAssumption
      <4> HIDE DEF x, KeptLine
      <4> QED BY <1>13, <2>3, <3>2, <3>4, <3>5, <3>8, <4>1, <4>4, <4>5 DEF ReadGoesOn
    <3> QED BY <3>6, <3>7, <3>8
  <2> QED BY <2>1, <2>2, <2>3
<1> QED BY <1>6, <1>11, <1>12, <1>13

(* The checks of the result: all three pass, or the run fails in one of them. *)
CheckedStages == {"mcp-use", "dlp", "result-validation"}
LEMMA Validated ==
  ASSUME DebugTypeOK, Validate
  PROVE  /\ observed' \in [DebugStage -> {"not-run", "passed", "failed"}]
         /\ \A s \in DebugStage : s \notin CheckedStages => observed'[s] = observed[s]
         /\ \/ /\ resultFile = "raw" /\ resultFile' = "final" /\ admitted' = TRUE /\ debugAt' = "report"
               /\ UNCHANGED <<outcomeNow, stageNow>> /\ \A s \in CheckedStages : observed'[s] = "passed"
            \/ /\ resultFile' = "none" /\ debugAt' = "tell" /\ outcomeNow' = "failing" /\ UNCHANGED admitted
               /\ stageNow' \in DebugStage
<1>0. DebugStage = Stages BY StagesAre
<1>1. PICK n \in 0..3 :
        /\ n > 0 => resultFile = "raw"
        /\ observed' = [s \in DebugStage |-> IF \E i \in 1..n : CheckingStages[i] = s THEN "passed" ELSE observed[s]]
        /\ IF n = 3 THEN resultFile' = "final" /\ admitted' = TRUE /\ debugAt' = "report" /\ UNCHANGED <<outcomeNow, stageNow>>
           ELSE /\ resultFile' = "none" /\ debugAt' = "tell" /\ outcomeNow' = "failing" /\ UNCHANGED admitted
                /\ stageNow' \in {CheckingStages[n + 1]} \cup (IF n = 0 THEN {stageNow} ELSE {})
  BY DEF Validate
<1>2. CheckingStages[1] = "mcp-use" /\ CheckingStages[2] = "dlp" /\ CheckingStages[3] = "result-validation" BY StagesAre
<1>3. \A i \in 1..n : CheckingStages[i] \in CheckedStages
  <2>1. \A i \in 1..n : i = 1 \/ i = 2 \/ i = 3 BY <1>1
  <2> QED BY <1>2, <2>1 DEF CheckedStages
<1>4. CheckedStages \subseteq DebugStage BY StagesAre DEF CheckedStages, Stages
<1>5. observed \in [DebugStage -> {"not-run", "passed", "failed"}] BY DEF DebugTypeOK
<1>6. observed' \in [DebugStage -> {"not-run", "passed", "failed"}] BY <1>1, <1>5
<1>7. \A s \in DebugStage : s \notin CheckedStages => observed'[s] = observed[s] BY <1>1, <1>3
<1>8. CASE n = 3
  <2>1. 1 \in 1..n /\ 2 \in 1..n /\ 3 \in 1..n BY <1>8
  <2>2. \A s \in CheckedStages : \E i \in 1..n : CheckingStages[i] = s BY <1>2, <2>1 DEF CheckedStages
  <2>3. \A s \in CheckedStages : observed'[s] = "passed" BY <1>1, <1>4, <2>2
  <2>4. resultFile = "raw" BY <1>1, <1>8
  <2> QED BY <1>1, <1>6, <1>7, <1>8, <2>3, <2>4
<1>9. CASE n # 3
  <2>1. n + 1 = 1 \/ n + 1 = 2 \/ n + 1 = 3 BY <1>1, <1>9
  <2>2. CheckingStages[n + 1] \in DebugStage BY <1>2, <1>4, <2>1 DEF CheckedStages
  <2>3. stageNow' \in DebugStage BY <1>1, <1>9, <2>2 DEF DebugTypeOK
  <2> QED BY <1>1, <1>6, <1>7, <1>9, <2>3
<1> QED BY <1>8, <1>9

(* Every run of the diagnostics starts in order.                              *)
LEMMA DebugStarts == DebugInit => DebugInv
<1> SUFFICES ASSUME DebugInit PROVE DebugInv OBVIOUS
<1>1. NoCopy \in BundleText /\ NotRun \in BundleNote /\ NoCopy \in Session /\ Untraced \in TraceReading
      /\ NoJournal.complete = FALSE /\ NotRun.status = "not-run"
  <2>1. NoCopy \in BundleText /\ NoCopy \in Session BY DEF BundleText, Session
  <2>2. NotRun \in BundleNote BY <2>1 DEF NotRun, BundleNote
  <2>3. Untraced \in TraceReading
    <3>1. <<>> \in Seq(KeptLine) OBVIOUS
    <3> QED BY <3>1 DEF Untraced, TraceReading
  <2> QED BY <2>1, <2>2, <2>3 DEF NoJournal, NotRun
<1>2. DebugTypeOK BY <1>1, StagesAre DEF DebugInit, DebugTypeOK, BeforeClean, BeforeTrace, BeforeModel, Stages
<1>3. JournalInOrder BY <1>1 DEF DebugInit, JournalInOrder
<1>4. NotesInOrder BY <1>1, ArtifactWords DEF DebugInit, NotesInOrder
<1>5. ResultInOrder
  <2>1. NoCopy # <<"report">> BY DEF NoCopy
  <2> QED BY <2>1, ArtifactWords DEF DebugInit, ResultInOrder, RawIsOriginal
<1>6. OutcomeInOrder
  <2>1. \A s \in DebugStage : PassedBehind(s)
    BY StagesAre DEF DebugInit, PassedBehind, Stages, BeforeClean, BeforeTrace, BeforeModel
  <2> QED BY <2>1, StagesAre DEF DebugInit, OutcomeInOrder, LastSteps, ReportSteps, Stages
<1>7. TraceInOrder BY <1>1, ArtifactWords DEF DebugInit, TraceInOrder, TraceIsTrue
<1>8. QuietInOrder BY DEF DebugInit, QuietInOrder
<1> QED BY <1>2, <1>3, <1>4, <1>5, <1>6, <1>7, <1>8 DEF DebugInv

(* The types.                                                                 *)

LEMMA DebugTypeKept ==
  ASSUME DebugInv, DebugNext
  PROVE  DebugTypeOK'
<1>1. DebugTypeOK /\ TraceInOrder BY DEF DebugInv
<1>2. DebugStage = Stages BY StagesAre
<1> USE DEF BeforeClean, BeforeTrace, BeforeModel, ReportSteps, LastSteps
<1>3. CreateBundle => DebugTypeOK'
  BY <1>1, StageSteps DEF CreateBundle, DebugTypeOK, JournaledAs, runFacts, traceVars
<1>4. StartSession => DebugTypeOK'
  BY <1>1, <1>2 DEF StartSession, DebugTypeOK, runFacts, traceVars, bundleFiles, Stages
<1>5. StagePasses => DebugTypeOK'
  <2> SUFFICES ASSUME StagePasses PROVE DebugTypeOK' OBVIOUS
  <2>1. observed' \in [DebugStage -> {"not-run", "passed", "failed"}] BY <1>1, StageSteps DEF ObservedAs
  <2>2. pinned' \in BOOLEAN /\ keptNotes' \in [Artifact -> BundleNote] /\ mishaps' \in Nat
    <3>1. BindSession \/ UNCHANGED <<pinned, keptNotes, mishaps>> BY DEF StagePasses
    <3>2. CASE UNCHANGED <<pinned, keptNotes, mishaps>> BY <1>1, <3>2 DEF DebugTypeOK
    <3>3. CASE BindSession
      <4>1. \/ pinned' = TRUE /\ UNCHANGED <<keptNotes, mishaps>>
            \/ mishaps' = mishaps + 1 /\ keptNotes' \in [Artifact -> BundleNote] /\ UNCHANGED pinned
        BY <1>1, <3>3, TraceSteps
      <4>2. pinned \in BOOLEAN /\ keptNotes \in [Artifact -> BundleNote] /\ mishaps \in Nat BY <1>1 DEF DebugTypeOK
      <4>3. CASE pinned' = TRUE /\ UNCHANGED <<keptNotes, mishaps>> BY <4>2, <4>3
      <4>4. CASE mishaps' = mishaps + 1 /\ keptNotes' \in [Artifact -> BundleNote] /\ UNCHANGED pinned BY <4>2, <4>4
      <4> QED BY <4>1, <4>3, <4>4
    <3> QED BY <3>1, <3>2, <3>3
  <2>3. stageNow' \in DebugStage /\ debugAt' \in BeforeClean
    <3>1. /\ stageNow' = NextStage(debugAt) /\ debugAt \in {"configuration", "identity", "evidence"}
          /\ debugAt' \in {"bootstrap", NextStage(debugAt)}
      BY DEF StagePasses
    <3> QED BY <1>2, <3>1, NextStages DEF Stages
  <2> QED BY <1>1, <2>1, <2>2, <2>3 DEF StagePasses, DebugTypeOK, runFacts
<1>6. CaptureBootstrap => DebugTypeOK'
  BY <1>1, FileSteps DEF CaptureBootstrap, DebugTypeOK, CapturedAs, TornAs, OnlyFile, runFacts,
     traceVars
<1>7. PreflightPasses => DebugTypeOK'
  BY ZenonT(90), <1>1, <1>2, StageSteps DEF PreflightPasses, DebugTypeOK, ObservedAs, runFacts, bundleFiles,
     traceVars, Stages
<1>8. StageFails => DebugTypeOK'
  BY <1>1 DEF StageFails, DebugTypeOK, runFacts, bundleFiles, traceVars
<1>9. PreviewEnds => DebugTypeOK'
  BY ZenonT(90), <1>1, <1>2, StageSteps DEF PreviewEnds, DebugTypeOK, ObservedAs, runFacts, bundleFiles,
     traceVars, Stages
<1>10. ModelRuns => DebugTypeOK'
  <2> SUFFICES ASSUME ModelRuns PROVE DebugTypeOK' OBVIOUS
  <2>1. PICK e \in ModelEnds : resultFile' = e.result /\ nativeFile' = e.session /\ outcomeNow' = e.leads BY DEF ModelRuns
  <2>2. e.result \in {"none", "raw", "large"} /\ e.session \in Session /\ e.leads \in {"running", "rejected", "failing"}
    BY DebugAssumption
  <2> QED BY <1>1, <2>1, <2>2 DEF ModelRuns, DebugTypeOK, bundleFiles
<1>11. CaptureRaw => DebugTypeOK'
  BY <1>1, <1>2, FileSteps DEF CaptureRaw, DebugTypeOK, CapturedAs, TornAs, OnlyFile, ObservedAs,
     runFacts, traceVars
<1>12. CaptureDiagram => DebugTypeOK'
  BY <1>1, FileSteps DEF CaptureDiagram, DebugTypeOK, CapturedAs, OnlyFile, runFacts, traceVars
<1>13. TraceOpens => DebugTypeOK'
  <2>1. Untraced \in TraceReading
    <3>1. <<>> \in Seq(KeptLine) OBVIOUS
    <3> QED BY <3>1 DEF Untraced, TraceReading
  <2> SUFFICES ASSUME TraceOpens PROVE DebugTypeOK' OBVIOUS
  <2>2. /\ \/ UNCHANGED <<keptNotes, tracing>> /\ debugAt' \in {"clean", "reading"}
           \/ TraceNoted(Missing) \/ TraceNoted(Unavailable)
        /\ mishaps' \in {mishaps, mishaps + 1}
    BY DEF TraceOpens
  <2>3. TraceNoted(Missing) \/ TraceNoted(Unavailable) =>
          keptNotes' \in [Artifact -> BundleNote] /\ debugAt' = "clean" /\ tracing' = Untraced
    BY <1>1, TraceSteps
  <2>4. keptNotes' \in [Artifact -> BundleNote] /\ debugAt' \in {"clean", "reading"} /\ tracing' \in TraceReading
        /\ mishaps' \in Nat
    BY <1>1, <2>1, <2>2, <2>3 DEF DebugTypeOK
  <2> QED BY <1>1, <2>4 DEF TraceOpens, DebugTypeOK, runFacts
<1>14. SessionShifts => DebugTypeOK'
  <2> SUFFICES ASSUME SessionShifts PROVE DebugTypeOK' OBVIOUS
  <2>1. nativeFile' \in Session
    <3>1. nativeFile # NoCopy BY <1>1 DEF SessionShifts, TraceInOrder
    <3>2. nativeFile \in Seq(TraceLine) BY <1>1, <3>1 DEF DebugTypeOK, Session
    <3>3. LateLines \subseteq TraceLine BY DebugAssumption
    <3>4. nativeFile' = nativeFile \/ \E l \in TraceLine : nativeFile' = Append(nativeFile, l)
      BY <3>3 DEF SessionShifts
    <3> HIDE DEF TraceLine
    <3>5. nativeFile' \in Seq(TraceLine) BY <3>2, <3>4
    <3> QED BY <3>5 DEF Session
  <2> QED BY <1>1, <2>1 DEF SessionShifts, DebugTypeOK, runFacts, bundleFiles
<1>15. ReadRecord => DebugTypeOK'
  <2> SUFFICES ASSUME ReadRecord PROVE DebugTypeOK' OBVIOUS
  <2>1. Untraced \in TraceReading /\ Unavailable \in BundleNote
    <3>1. <<>> \in Seq(KeptLine) OBVIOUS
    <3> QED BY <3>1 DEF Untraced, TraceReading, BundleNote, Unavailable, BundleText, Session
  <2>2. tracing' \in TraceReading /\ debugAt' \in {"traced", "clean", "reading"} /\ keptNotes' \in [Artifact -> BundleNote]
    BY <1>1, <2>1, TurnOfReading DEF ReadStops, ReadRefused, ReadGoesOn, DebugTypeOK
  <2> QED BY <1>1, <2>2 DEF ReadRecord, DebugTypeOK, runFacts
<1>16. TraceKept => DebugTypeOK'
  <2>1. Untraced \in TraceReading
    <3>1. <<>> \in Seq(KeptLine) OBVIOUS
    <3> QED BY <3>1 DEF Untraced, TraceReading
  <2> QED BY <1>1, <2>1, TraceSteps DEF TraceKept, DebugTypeOK, KeptAs, OnlyFile, runFacts
<1>17. CleanUp => DebugTypeOK'
  BY ZenonT(90), <1>1, <1>2, StageSteps DEF CleanUp, DebugTypeOK, ObservedAs, bundleFiles, traceVars, Stages
<1>18. Validate => DebugTypeOK'
  <2> SUFFICES ASSUME Validate PROVE DebugTypeOK' OBVIOUS
  <2>1. UNCHANGED <<told, bundleFiles, traceVars, mishaps, torn>> BY DEF Validate
  <2> QED BY <1>1, <2>1, Validated DEF DebugTypeOK, bundleFiles, traceVars
<1>19. ReportResult => DebugTypeOK'
  BY <1>1, <1>2, SummarySteps DEF ReportResult, DebugTypeOK, KeptAs, OnlyFile, traceVars, Stages
<1>20. CaptureReport => DebugTypeOK'
  BY <1>1, FileSteps DEF CaptureReport, DebugTypeOK, CapturedAs, OnlyFile, runFacts, traceVars
<1>21. Console => DebugTypeOK'
  BY <1>1, StageSteps DEF Console, DebugTypeOK, ObservedAs, runFacts, bundleFiles, traceVars
<1>22. TellFailure => DebugTypeOK'
  BY <1>1, StageSteps, SummarySteps DEF TellFailure, DebugTypeOK, ObservedAs, KeptAs, OnlyFile,
     runFacts, traceVars
<1>23. PublishFailure => DebugTypeOK'
  BY <1>1, StageSteps, SummarySteps DEF PublishFailure, DebugTypeOK, ObservedAs, CapturedAs,
     OnlyFile, traceVars
<1>24. InterruptedReport => DebugTypeOK'
  <2> SUFFICES ASSUME InterruptedReport PROVE DebugTypeOK' OBVIOUS
  <2>1. /\ bundle' \in [Artifact -> BundleText] /\ keptNotes' \in [Artifact -> BundleNote] /\ mishaps' \in Nat
        /\ torn' \in BOOLEAN /\ told' \in {told, "failure"}
    <3>1. \/ mishaps' = mishaps + 1 /\ UNCHANGED <<told, bundle, keptNotes, torn>>
          \/ TornAs("summary", told) /\ UNCHANGED told
          \/ TornAs("summary", "failure") /\ told' = "failure"
      BY <1>1, SummarySteps
    <3>2. bundle \in [Artifact -> BundleText] /\ keptNotes \in [Artifact -> BundleNote] /\ mishaps \in Nat
          /\ torn \in BOOLEAN
      BY <1>1 DEF DebugTypeOK
    <3>3. CASE mishaps' = mishaps + 1 /\ UNCHANGED <<told, bundle, keptNotes, torn>> BY <3>2, <3>3
    <3>4. CASE TornAs("summary", told) /\ UNCHANGED told BY <3>4 DEF TornAs, OnlyFile
    <3>5. CASE TornAs("summary", "failure") /\ told' = "failure" BY <3>5 DEF TornAs, OnlyFile
    <3> QED BY <3>1, <3>3, <3>4, <3>5
  <2> QED BY <1>1, <2>1 DEF InterruptedReport, DebugTypeOK, traceVars
<1>25. CaptureSafe => DebugTypeOK'
  BY <1>1, FileSteps DEF CaptureSafe, DebugTypeOK, CapturedAs, OnlyFile, runFacts, traceVars
<1>26. FinalJournal => DebugTypeOK'
  BY <1>1, StageSteps DEF FinalJournal, DebugTypeOK, JournaledAs, runFacts, traceVars
<1> QED
  BY <1>3, <1>4, <1>5, <1>6, <1>7, <1>8, <1>9, <1>10, <1>11, <1>12, <1>13, <1>14, <1>15, <1>16,
     <1>17, <1>18, <1>19,
     <1>20, <1>21, <1>22, <1>23, <1>24, <1>25, <1>26 DEF DebugNext

(* The last journal is the last step.                                         *)
LEMMA JournalKept ==
  ASSUME DebugInv, DebugNext
  PROVE  JournalInOrder'
<1>1. DebugTypeOK /\ JournalInOrder BY DEF DebugInv
<1>2. debugAt # "closed" /\ (debugAt' = "closed" => FinalJournal)
  <2>1. CreateBundle \/ StartSession \/ CaptureBootstrap \/ PreflightPasses \/ PreviewEnds \/ ModelRuns \/ CaptureRaw
        \/ CaptureDiagram \/ ReadRecord \/ TraceKept \/ CleanUp \/ ReportResult \/ CaptureReport \/ Console =>
          debugAt # "closed" /\ debugAt' # "closed"
    BY <1>1, TurnOfReading DEF CreateBundle, StartSession, CaptureBootstrap, PreflightPasses,
       PreviewEnds, ModelRuns, CaptureRaw,
       CaptureDiagram, TraceKept, CleanUp, ReportResult, CaptureReport, Console, ReadRecord, TraceNoted, TraceEnds,
       TraceGoesOn, LineRead
  <2>2. StagePasses => debugAt # "closed" /\ debugAt' # "closed" BY NextStages DEF StagePasses
  <2>3. StageFails => debugAt # "closed" /\ debugAt' # "closed" BY StagesAre DEF StageFails
  <2>4. Validate => debugAt # "closed" /\ debugAt' # "closed" BY <1>1, Validated DEF Validate
  <2>5. TraceOpens \/ SessionShifts \/ TellFailure \/ PublishFailure \/ InterruptedReport \/ CaptureSafe =>
          debugAt # "closed" /\ debugAt' # "closed"
    BY DEF TraceOpens, TraceNoted, SessionShifts, TellFailure, PublishFailure, InterruptedReport,
       CaptureSafe
  <2>6. FinalJournal => debugAt # "closed" BY DEF FinalJournal
  <2> QED BY <2>1, <2>2, <2>3, <2>4, <2>5, <2>6 DEF DebugNext
<1>3. ~journal.complete BY <1>1, <1>2 DEF JournalInOrder
<1>4. CASE FinalJournal
  <2>1. JournaledAs(TRUE) /\ UNCHANGED <<keptNotes, observed>> /\ debugAt' = "closed" BY <1>1, <1>4, StageSteps DEF FinalJournal
  <2>2. mishaps \in Nat BY <1>1 DEF DebugTypeOK
  <2> QED BY <1>3, <2>1, <2>2 DEF JournalInOrder, JournaledAs
<1>5. CASE ~FinalJournal
  <2>1. journal'.complete = FALSE
    <3>1. CreateBundle => journal'.complete = FALSE BY <1>1, <1>3, StageSteps DEF JournaledAs, DebugTypeOK
    <3>2. ~CreateBundle => journal' = journal
      BY <1>5 DEF DebugNext, StartSession, CaptureBootstrap, PreflightPasses, PreviewEnds,
         ModelRuns, CaptureRaw,
       CaptureDiagram, TraceKept, CleanUp, ReportResult, CaptureReport, Console, StagePasses, StageFails, Validate, ReadRecord,
       TraceOpens, SessionShifts, TellFailure, PublishFailure, InterruptedReport, CaptureSafe, bundleFiles
    <3> QED BY <1>1, <1>3, <3>1, <3>2 DEF DebugTypeOK
  <2>2. debugAt' # "closed" BY <1>2, <1>5
  <2> QED BY <2>1, <2>2 DEF JournalInOrder
<1> QED BY <1>4, <1>5

(* The notes and the files.                                                   *)
TrueOf(a) ==
  /\ keptNotes[a].status \in {"passed", "degraded"} => bundle[a] = keptNotes[a].holds
  /\ keptNotes[a].status \in {"not-run", "missing"} => bundle[a] = NoCopy
LEMMA OneFile ==
  /\ \A a \in Artifact : OnlyFile(a) /\ TrueOf(a)' /\ (\A b \in Artifact : TrueOf(b)) => \A b \in Artifact : TrueOf(b)'
  /\ \A a \in Artifact : \A content, mark : KeptAs(a, content, mark) /\ mark \in {"passed", "degraded"} => TrueOf(a)'
  /\ \A a \in Artifact : \A source : CapturedAs(a, source) /\ (source # "none" \/ bundle[a] = NoCopy) => TrueOf(a)'
<1>1. Unavailable.status = "unavailable" /\ Missing.status = "missing" BY DEF Unavailable, Missing
<1>2. \A a \in Artifact : OnlyFile(a) /\ TrueOf(a)' /\ (\A b \in Artifact : TrueOf(b)) => \A b \in Artifact : TrueOf(b)'
  BY DEF OnlyFile, TrueOf
<1>3. ASSUME NEW a \in Artifact, NEW content, NEW mark \in {"passed", "degraded"}, KeptAs(a, content, mark) PROVE TrueOf(a)'
  <2>1. [status |-> mark, holds |-> content].status = mark /\ [status |-> mark, holds |-> content].holds = content
    OBVIOUS
  <2> QED BY <1>1, <1>3, <2>1 DEF KeptAs, TrueOf
<1>4. \A a \in Artifact : \A source : CapturedAs(a, source) /\ (source # "none" \/ bundle[a] = NoCopy) => TrueOf(a)'
  BY <1>1 DEF CapturedAs, TrueOf
<1> QED BY <1>2, <1>3, <1>4

LEMMA NotesKept ==
  ASSUME DebugInv, DebugNext
  PROVE  NotesInOrder'
<1>1. DebugTypeOK /\ NotesInOrder /\ ResultInOrder /\ TraceInOrder BY DEF DebugInv
<1>2. ~torn => \A a \in Artifact : TrueOf(a) BY <1>1 DEF NotesInOrder, TrueOf
<1>3. /\ debugAt \in BeforeModel \cup {"rawResult"} => bundle["raw"] = NoCopy
      /\ debugAt \in BeforeTrace => bundle["diagram"] = NoCopy
      /\ debugAt \in BeforeClean => bundle["trace"] = NoCopy /\ keptNotes["trace"].status \in {"not-run", "unavailable"}
  BY <1>1 DEF NotesInOrder
<1>4. Unavailable.status = "unavailable" /\ Missing.status = "missing" BY DEF Unavailable, Missing
<1>5. torn \in BOOLEAN BY <1>1 DEF DebugTypeOK
<1>6. SUFFICES /\ ~torn' => \A a \in Artifact : TrueOf(a)'
               /\ debugAt' \in BeforeModel \cup {"rawResult"} => bundle'["raw"] = NoCopy
               /\ debugAt' \in BeforeTrace => bundle'["diagram"] = NoCopy
               /\ debugAt' \in BeforeClean => bundle'["trace"] = NoCopy /\ keptNotes'["trace"].status \in {"not-run", "unavailable"}
  BY DEF NotesInOrder, TrueOf
<1> USE ArtifactWords DEF BeforeModel, BeforeTrace, BeforeClean
<1>7. CASE UNCHANGED <<bundle, keptNotes, torn>>
  <2>1. \A a \in Artifact : TrueOf(a)' = TrueOf(a) BY <1>7 DEF TrueOf
  <2>2. /\ debugAt' \in BeforeModel \cup {"rawResult"} => debugAt \in BeforeModel \cup {"rawResult"}
        /\ debugAt' \in BeforeTrace => debugAt \in BeforeTrace
        /\ debugAt' \in BeforeClean => debugAt \in BeforeClean
    <3>1. CreateBundle \/ StartSession \/ CaptureBootstrap \/ PreflightPasses \/ PreviewEnds \/ ModelRuns \/ CaptureRaw
          \/ CaptureDiagram \/ TraceOpens => debugAt \in BeforeTrace \cup {"trace"} /\
          (debugAt' \in BeforeModel \cup {"rawResult"} => debugAt \in BeforeModel \cup {"rawResult"})
          /\ (debugAt' \in BeforeTrace => debugAt \in BeforeTrace)
      BY DEF CreateBundle, StartSession, CaptureBootstrap, PreflightPasses, PreviewEnds,
         ModelRuns, CaptureRaw,
       CaptureDiagram, TraceOpens, TraceNoted
    <3>2. StagePasses => debugAt \in BeforeModel BY DEF StagePasses
    <3>3. StageFails => debugAt \in BeforeModel BY StagesAre DEF StageFails
    <3>4. SessionShifts => debugAt' = debugAt BY DEF SessionShifts
    <3>5. ReadRecord \/ TraceKept => debugAt \in {"reading", "traced"} /\ debugAt' \in {"reading", "traced", "clean"}
      BY <1>1, TurnOfReading DEF ReadRecord, TraceKept, ReadStops, ReadRefused, ReadGoesOn
    <3>6. CleanUp \/ ReportResult \/ CaptureReport \/ Console
          \/ TellFailure \/ PublishFailure \/ InterruptedReport \/ CaptureSafe \/ FinalJournal => debugAt' \notin BeforeClean
      BY DEF CleanUp, ReportResult, CaptureReport, Console, TellFailure, PublishFailure,
         InterruptedReport, CaptureSafe,
         FinalJournal
    <3>7. Validate => debugAt' \notin BeforeClean BY <1>1, Validated
    <3> QED BY <3>1, <3>2, <3>3, <3>4, <3>5, <3>6, <3>7 DEF DebugNext
  <2> QED BY <1>2, <1>3, <1>7, <2>1, <2>2
<1>8. CreateBundle \/ StartSession \/ PreflightPasses \/ StageFails \/ PreviewEnds \/ ModelRuns \/ SessionShifts \/ CleanUp
      \/ Validate \/ Console \/ FinalJournal => UNCHANGED <<bundle, keptNotes, torn>>
  BY DEF CreateBundle, StartSession, PreflightPasses, StageFails, PreviewEnds, ModelRuns,
     SessionShifts, CleanUp, Validate,
     Console, FinalJournal, bundleFiles
<1>9. CASE StagePasses
  <2>1. UNCHANGED <<bundle, torn>> /\ debugAt \in BeforeModel BY <1>9 DEF StagePasses
  <2>2. \/ UNCHANGED keptNotes
        \/ /\ keptNotes'["trace"] = Unavailable
           /\ \A b \in Artifact : b # "trace" => keptNotes'[b] = keptNotes[b]
    <3>1. BindSession \/ UNCHANGED keptNotes BY <1>9 DEF StagePasses
    <3> QED BY <1>1, <3>1, TraceSteps
  <2>3. CASE ~UNCHANGED keptNotes
    <3>1. (\A a \in Artifact : TrueOf(a)) => \A a \in Artifact : TrueOf(a)' BY <1>4, <2>1, <2>2, <2>3 DEF TrueOf
    <3> QED BY <1>2, <1>3, <1>4, <2>1, <2>2, <2>3, <3>1
  <2> QED BY <1>7, <2>1, <2>3
<1>10. CASE CaptureBootstrap
  <2>1. debugAt = "bootstrap" BY <1>10 DEF CaptureBootstrap
  <2>2. CASE CapturedAs("bootstrap", "text") /\ UNCHANGED torn
    <3>1. OnlyFile("bootstrap") /\ TrueOf("bootstrap")' BY <2>2, OneFile DEF CapturedAs
    <3>2. ~torn' => \A a \in Artifact : TrueOf(a)' BY <1>2, <2>2, <3>1, OneFile
    <3> QED BY <1>3, <2>1, <3>1, <3>2 DEF OnlyFile
  <2>3. CASE TornAs("bootstrap", "text") BY <1>3, <2>1, <2>3 DEF TornAs, OnlyFile
  <2> QED BY <1>1, <1>10, <2>2, <2>3, FileSteps
<1>11. CASE CaptureRaw
  <2>1. debugAt = "rawResult" /\ debugAt' = "diagram" BY <1>11 DEF CaptureRaw
  <2>2. CASE CapturedAs("raw", resultFile) /\ UNCHANGED torn
    <3>1. bundle["raw"] = NoCopy BY <1>3, <2>1
    <3>2. OnlyFile("raw") /\ TrueOf("raw")' BY <2>2, <3>1, OneFile DEF CapturedAs
    <3>3. ~torn' => \A a \in Artifact : TrueOf(a)' BY <1>2, <2>2, <3>2, OneFile
    <3> QED BY <1>3, <2>1, <3>2, <3>3 DEF OnlyFile
  <2>3. CASE TornAs("raw", resultFile) BY <1>3, <2>1, <2>3 DEF TornAs, OnlyFile
  <2> QED BY <1>1, <1>11, <2>2, <2>3, FileSteps
<1>12. CASE CaptureDiagram
  <2>1. debugAt = "diagram" /\ debugAt' = "trace" /\ UNCHANGED torn BY <1>12 DEF CaptureDiagram
  <2>2. PICK source \in {"none", "text"} : CapturedAs("diagram", source) BY <1>1, <1>12, FileSteps
  <2> QED BY <1>2, <1>3, <2>1, <2>2, OneFile DEF CapturedAs, OnlyFile
<1>13. CASE TraceOpens
  <2>1. UNCHANGED <<bundle, torn>> /\ debugAt = "trace" /\ debugAt' \in {"clean", "reading"}
    BY <1>13 DEF TraceOpens, TraceNoted
  <2>2. UNCHANGED keptNotes \/ (debugAt' = "clean" /\ (TraceNoted(Missing) \/ TraceNoted(Unavailable)))
    BY <1>13 DEF TraceOpens, TraceNoted
  <2>3. CASE debugAt' = "clean" /\ (TraceNoted(Missing) \/ TraceNoted(Unavailable))
    <3>1. /\ keptNotes'["trace"] \in {Missing, Unavailable}
          /\ \A b \in Artifact : b # "trace" => keptNotes'[b] = keptNotes[b]
      BY <1>1, <2>3, TraceSteps
    <3>2. (\A a \in Artifact : TrueOf(a)) => \A a \in Artifact : TrueOf(a)' BY <1>3, <1>4, <2>1, <3>1 DEF TrueOf
    <3> QED BY <1>2, <2>1, <2>3, <3>2
  <2> QED BY <1>7, <2>1, <2>2, <2>3
<1>14. CASE ReadRecord
  <2>1. UNCHANGED <<bundle, torn>> BY <1>14 DEF ReadRecord
  <2>2. UNCHANGED keptNotes \/ (debugAt' = "clean" /\ keptNotes' = [keptNotes EXCEPT !["trace"] = Unavailable])
    BY <1>1, <1>14, TurnOfReading DEF ReadStops, ReadRefused, ReadGoesOn
  <2>3. CASE debugAt' = "clean" /\ keptNotes' = [keptNotes EXCEPT !["trace"] = Unavailable]
    <3>1. /\ keptNotes'["trace"] = Unavailable
          /\ \A b \in Artifact : b # "trace" => keptNotes'[b] = keptNotes[b]
      BY <1>1, <2>3 DEF DebugTypeOK
    <3>2. (\A a \in Artifact : TrueOf(a)) => \A a \in Artifact : TrueOf(a)' BY <1>4, <2>1, <3>1 DEF TrueOf
    <3> QED BY <1>2, <2>1, <2>3, <3>2
  <2> QED BY <1>7, <2>1, <2>2, <2>3
<1>15. CASE TraceKept
  <2>1. UNCHANGED torn /\ debugAt' = "clean" BY <1>15 DEF TraceKept
  <2>2. PICK mark \in {"passed", "degraded"} : KeptAs("trace", tracing.kept, mark) BY <1>1, <1>15, TraceSteps
  <2> QED BY <1>2, <2>1, <2>2, OneFile DEF KeptAs, OnlyFile
<1>16. CASE ReportResult
  <2>1. UNCHANGED torn /\ debugAt' \in {"reported", "tell"} BY <1>16 DEF ReportResult
  <2>2. UNCHANGED <<bundle, keptNotes>> \/ KeptAs("summary", <<"failure">>, "passed") BY <1>1, <1>16, SummarySteps
  <2>3. CASE KeptAs("summary", <<"failure">>, "passed") BY <1>2, <2>1, <2>3, OneFile DEF KeptAs, OnlyFile
  <2> QED BY <1>7, <2>1, <2>2, <2>3
<1>17. CASE CaptureReport
  <2>1. UNCHANGED torn /\ debugAt' = "console" /\ told # "none" BY <1>1, <1>17 DEF CaptureReport, ResultInOrder
  <2>2. CapturedAs("summary", told) BY <1>1, <1>17, FileSteps
  <2> QED BY SMTT(60), <1>2, <2>1, <2>2, OneFile DEF CapturedAs, OnlyFile
<1>18. CASE TellFailure
  <2>1. UNCHANGED torn /\ debugAt' \in {"safe", "publish"} BY <1>18 DEF TellFailure
  <2>2. UNCHANGED <<bundle, keptNotes>> \/ KeptAs("summary", <<"failure">>, "passed") BY <1>1, <1>18, SummarySteps
  <2>3. CASE KeptAs("summary", <<"failure">>, "passed") BY <1>2, <2>1, <2>3, OneFile DEF KeptAs, OnlyFile
  <2> QED BY <1>7, <2>1, <2>2, <2>3
<1>19. CASE PublishFailure
  <2>1. UNCHANGED torn /\ debugAt' = "safe" BY <1>19 DEF PublishFailure
  <2>2. UNCHANGED <<bundle, keptNotes>> \/ CapturedAs("summary", "failure") BY <1>1, <1>19, SummarySteps
  <2>3. CASE CapturedAs("summary", "failure") BY <1>2, <2>1, <2>3, OneFile DEF CapturedAs, OnlyFile
  <2> QED BY <1>7, <2>1, <2>2, <2>3
<1>20. CASE InterruptedReport
  <2>1. debugAt' = "safe" BY <1>20 DEF InterruptedReport
  <2>2. UNCHANGED <<bundle, keptNotes, torn>> \/ TornAs("summary", told) \/ TornAs("summary", "failure")
    BY <1>1, <1>20, SummarySteps
  <2>3. CASE torn' = TRUE BY <2>1, <2>3
  <2> QED BY <1>7, <2>2, <2>3 DEF TornAs
<1>21. CASE CaptureSafe
  <2>1. UNCHANGED torn /\ debugAt' = "flush" BY <1>21 DEF CaptureSafe
  <2>2. UNCHANGED <<bundle, keptNotes>> \/ (CapturedAs("safe", resultFile) /\ resultFile # "none")
    BY <1>1, <1>21, FileSteps DEF ResultInOrder
  <2>3. CASE CapturedAs("safe", resultFile) /\ resultFile # "none" BY <1>2, <2>1, <2>3, OneFile DEF CapturedAs, OnlyFile
  <2> QED BY <1>7, <2>1, <2>2, <2>3
<1> QED BY <1>7, <1>8, <1>9, <1>10, <1>11, <1>12, <1>13, <1>14, <1>15, <1>16, <1>17, <1>18,
   <1>19, <1>20, <1>21 DEF DebugNext

(* The result, its copies and what is told of it.                             *)
LEMMA ResultKept ==
  ASSUME DebugInv, DebugNext
  PROVE  ResultInOrder'
<1>1. DebugTypeOK /\ NotesInOrder /\ ResultInOrder /\ TraceInOrder BY DEF DebugInv
<1>2. <<"failure">> # <<"report">> /\ NoCopy # <<"report">> BY DEF NoCopy
<1>3. resultFile \in {"none", "raw", "large", "final"} /\ told \in {"none", "report", "failure"} /\ mishaps \in Nat
  BY <1>1 DEF DebugTypeOK
<1>4. bundle["raw"] # <<"final">> /\ admitted \in BOOLEAN
  <2>1. NoCopy # <<"final">> /\ <<"raw">> # <<"final">> /\ <<"large">> # <<"final">> BY DEF NoCopy
  <2> QED BY <1>1, <2>1 DEF ResultInOrder, RawIsOriginal, DebugTypeOK
<1>5. /\ debugAt \in BeforeModel => resultFile = "none" /\ nativeFile = NoCopy
      /\ debugAt = "rawResult" => resultFile # "final"
      /\ admitted => resultFile = "final" /\ debugAt \in ReportSteps \cup LastSteps
      /\ debugAt = "reported" => told # "none"
      /\ debugAt \in {"diagram", "trace"} /\ mishaps = 0 /\ resultFile # "none" => bundle["raw"] = <<resultFile>>
      /\ bundle["raw"] \in {NoCopy, <<"raw">>, <<"large">>} /\ bundle["safe"] \in {NoCopy, <<"final">>}
      /\ told = "report" \/ bundle["summary"] = <<"report">> => admitted
  BY <1>1 DEF ResultInOrder, RawIsOriginal
<1>6. SUFFICES
      /\ debugAt' \in BeforeModel => resultFile' = "none" /\ nativeFile' = NoCopy
      /\ debugAt' = "rawResult" => resultFile' # "final"
      /\ admitted' => resultFile' = "final" /\ debugAt' \in ReportSteps \cup LastSteps
      /\ debugAt' = "reported" => told' # "none"
      /\ debugAt' \in {"diagram", "trace"} /\ mishaps' = 0 /\ resultFile' # "none" => bundle'["raw"] = <<resultFile'>>
      /\ bundle'["raw"] \in {NoCopy, <<"raw">>, <<"large">>} /\ bundle'["safe"] \in {NoCopy, <<"final">>}
      /\ told' = "report" \/ bundle'["summary"] = <<"report">> => admitted'
  BY DEF ResultInOrder, RawIsOriginal
<1>7. UNCHANGED bundle => bundle'["raw"] = bundle["raw"] /\ bundle'["safe"] = bundle["safe"] /\ bundle'["summary"] = bundle["summary"]
  OBVIOUS
<1> USE ArtifactWords DEF BeforeModel, BeforeTrace, BeforeClean, ReportSteps, LastSteps
<1> DEFINE SameRun == UNCHANGED <<resultFile, told, admitted, bundle>>
<1>8. CASE CreateBundle \/ StartSession \/ StagePasses \/ PreflightPasses
  <2>1. /\ SameRun /\ nativeFile' = nativeFile /\ debugAt \in BeforeModel
        /\ debugAt' \notin ReportSteps \cup {"rawResult", "diagram", "trace"}
    BY <1>8, NextStages DEF CreateBundle, StartSession, StagePasses, PreflightPasses, runFacts,
       traceVars, bundleFiles
  <2> QED BY <1>5, <1>7, <2>1
<1>9. CASE StageFails \/ PreviewEnds
  <2>1. SameRun /\ nativeFile' = nativeFile /\ debugAt \in BeforeModel /\ debugAt' \in {"model", "diagram"}
    BY <1>9, StagesAre DEF StageFails, PreviewEnds, runFacts, traceVars, bundleFiles
  <2> QED BY <1>5, <1>7, <2>1
<1>10. CASE CaptureBootstrap
  <2>1. UNCHANGED <<resultFile, told, admitted, nativeFile>> /\ debugAt = "bootstrap"
    BY <1>10 DEF CaptureBootstrap, runFacts, traceVars
  <2>2. OnlyFile("bootstrap") /\ debugAt' \in {"mcp-preflight", "diagram"} BY <1>1, <1>10, FileSteps DEF CapturedAs, TornAs
  <2>3. bundle'["raw"] = bundle["raw"] /\ bundle'["safe"] = bundle["safe"] /\ bundle'["summary"] = bundle["summary"]
    BY <2>2 DEF OnlyFile
  <2> QED BY <1>5, <2>1, <2>2, <2>3
<1>11. CASE ModelRuns
  <2>1. UNCHANGED <<told, admitted, bundle>> /\ debugAt = "model" /\ debugAt' = "rawResult"
    BY <1>11 DEF ModelRuns, bundleFiles
  <2>2. resultFile' \in {"none", "raw", "large"} BY <1>11, DebugAssumption DEF ModelRuns
  <2> QED BY <1>5, <1>7, <2>1, <2>2
<1>12. CASE CaptureRaw
  <2>1. UNCHANGED <<resultFile, told, admitted>> /\ debugAt = "rawResult" /\ debugAt' = "diagram"
    BY <1>12 DEF CaptureRaw, runFacts
  <2>2. OnlyFile("raw") /\ bundle'["raw"] \in {bundle["raw"], <<resultFile>>}
        /\ (mishaps' # 0 \/ resultFile = "none" \/ bundle'["raw"] = <<resultFile>>)
        /\ (resultFile = "none" => bundle'["raw"] = bundle["raw"])
    <3>1. CapturedAs("raw", resultFile) \/ TornAs("raw", resultFile) BY <1>1, <1>12, FileSteps
    <3>2. CASE CapturedAs("raw", resultFile) BY <1>3, <3>2 DEF CapturedAs
    <3>3. CASE TornAs("raw", resultFile) BY <1>3, <3>3 DEF TornAs
    <3> QED BY <3>1, <3>2, <3>3
  <2>3. bundle'["safe"] = bundle["safe"] /\ bundle'["summary"] = bundle["summary"] BY <2>2 DEF OnlyFile
  <2>4. bundle'["raw"] \in {NoCopy, <<"raw">>, <<"large">>} BY <1>3, <1>5, <2>1, <2>2
  <2> QED BY <1>5, <2>1, <2>2, <2>3, <2>4
<1>13. CASE CaptureDiagram
  <2>1. UNCHANGED <<resultFile, told, admitted>> /\ debugAt = "diagram" /\ debugAt' = "trace"
    BY <1>13 DEF CaptureDiagram, runFacts
  <2>2. OnlyFile("diagram") /\ (mishaps' = mishaps \/ mishaps' = mishaps + 1)
    BY <1>1, <1>13, FileSteps DEF CapturedAs
  <2>3. bundle'["raw"] = bundle["raw"] /\ bundle'["safe"] = bundle["safe"] /\ bundle'["summary"] = bundle["summary"]
    BY <2>2 DEF OnlyFile
  <2> QED BY <1>3, <1>5, <2>1, <2>2, <2>3
<1>14. CASE TraceOpens \/ SessionShifts \/ ReadRecord
  <2>1. SameRun /\ debugAt \in {"trace", "reading", "traced"} /\ debugAt' \in {"clean", "reading", "traced"}
    <3>1. CASE ReadRecord BY <1>1, <3>1, TurnOfReading DEF ReadRecord, ReadStops, ReadRefused, ReadGoesOn, runFacts
    <3>2. CASE TraceOpens \/ SessionShifts BY <3>2 DEF TraceOpens, TraceNoted, SessionShifts, runFacts, bundleFiles
    <3> QED BY <1>14, <3>1, <3>2
  <2> QED BY <1>5, <1>7, <2>1
<1>15. CASE TraceKept
  <2>1. UNCHANGED <<resultFile, told, admitted>> /\ debugAt = "traced" /\ debugAt' = "clean" BY <1>15 DEF TraceKept, runFacts
  <2>2. OnlyFile("trace") BY <1>1, <1>15, TraceSteps DEF KeptAs
  <2>3. bundle'["raw"] = bundle["raw"] /\ bundle'["safe"] = bundle["safe"] /\ bundle'["summary"] = bundle["summary"]
    BY <2>2 DEF OnlyFile
  <2> QED BY <1>5, <2>1, <2>3
<1>16. CASE CleanUp
  <2>1. UNCHANGED <<told, admitted, bundle>> /\ debugAt = "clean" /\ debugAt' \in {"tell", "validate", "report"}
    BY <1>16 DEF CleanUp, bundleFiles
  <2> QED BY <1>5, <1>7, <2>1
<1>17. CASE Validate
  <2>1. UNCHANGED <<told, bundle>> /\ debugAt = "validate" BY <1>17 DEF Validate, bundleFiles
  <2>2. \/ resultFile' = "final" /\ admitted' = TRUE /\ debugAt' = "report"
        \/ debugAt' = "tell" /\ UNCHANGED admitted
    BY <1>1, <1>17, Validated
  <2> QED BY <1>5, <1>7, <2>1, <2>2
<1>18. CASE ReportResult
  <2>1. UNCHANGED <<resultFile, admitted>> /\ debugAt = "report" BY <1>18 DEF ReportResult
  <2>2. \/ told' = (IF admitted THEN "report" ELSE "failure") /\ debugAt' = "reported" /\ UNCHANGED bundle
        \/ /\ told' \in {told, IF admitted THEN "report" ELSE "failure"} /\ debugAt' = "tell"
           /\ KeptAs("summary", <<"failure">>, "passed")
    BY <1>1, <1>18, SummarySteps
  <2>3. CASE told' = (IF admitted THEN "report" ELSE "failure") /\ debugAt' = "reported" /\ UNCHANGED bundle
    BY <1>4, <1>5, <1>7, <2>1, <2>3
  <2>4. CASE /\ told' \in {told, IF admitted THEN "report" ELSE "failure"} /\ debugAt' = "tell"
             /\ KeptAs("summary", <<"failure">>, "passed")
    <3>1. bundle'["raw"] = bundle["raw"] /\ bundle'["safe"] = bundle["safe"]
          /\ bundle'["summary"] \in {bundle["summary"], <<"failure">>}
      BY <2>4 DEF KeptAs, OnlyFile
    <3> QED BY <1>2, <1>4, <1>5, <2>1, <2>4, <3>1
  <2> QED BY <2>2, <2>3, <2>4
<1>19. CASE CaptureReport
  <2>1. UNCHANGED <<resultFile, told, admitted>> /\ debugAt = "reported" /\ debugAt' = "console"
    BY <1>19 DEF CaptureReport, runFacts
  <2>2. CapturedAs("summary", told) BY <1>1, <1>19, FileSteps
  <2>3. bundle'["raw"] = bundle["raw"] /\ bundle'["safe"] = bundle["safe"]
        /\ bundle'["summary"] \in {bundle["summary"], <<told>>}
    BY <2>2 DEF CapturedAs, OnlyFile
  <2>4. told = "failure" => <<told>> # <<"report">> BY <1>2
  <2> QED BY <1>3, <1>5, <2>1, <2>3, <2>4
<1>20. CASE Console
  <2>1. SameRun /\ debugAt = "console" /\ debugAt' \in {"safe", "tell"} BY <1>20 DEF Console, runFacts, bundleFiles
  <2> QED BY <1>5, <1>7, <2>1
<1>21. CASE TellFailure
  <2>1. UNCHANGED <<resultFile, told, admitted>> /\ debugAt = "tell" /\ debugAt' \in {"safe", "publish"}
    BY <1>21 DEF TellFailure, runFacts
  <2>2. UNCHANGED bundle \/ KeptAs("summary", <<"failure">>, "passed") BY <1>1, <1>21, SummarySteps
  <2>3. bundle'["raw"] = bundle["raw"] /\ bundle'["safe"] = bundle["safe"]
        /\ bundle'["summary"] \in {bundle["summary"], <<"failure">>}
    BY <1>7, <2>2 DEF KeptAs, OnlyFile
  <2> QED BY <1>2, <1>5, <2>1, <2>3
<1>22. CASE PublishFailure
  <2>1. UNCHANGED <<resultFile, admitted>> /\ debugAt = "publish" /\ debugAt' = "safe" BY <1>22 DEF PublishFailure
  <2>2. (UNCHANGED bundle \/ CapturedAs("summary", "failure")) /\ told' \in {told, "failure"} BY <1>1, <1>22, SummarySteps
  <2>3. bundle'["raw"] = bundle["raw"] /\ bundle'["safe"] = bundle["safe"]
        /\ bundle'["summary"] \in {bundle["summary"], <<"failure">>}
    BY <1>7, <2>2 DEF CapturedAs, OnlyFile
  <2> QED BY <1>2, <1>5, <2>1, <2>2, <2>3
<1>23. CASE InterruptedReport
  <2>1. UNCHANGED <<resultFile, admitted>> /\ debugAt \in ReportSteps \cup LastSteps /\ debugAt' = "safe"
    BY <1>23 DEF InterruptedReport
  <2>2. \/ UNCHANGED <<told, bundle>> \/ (TornAs("summary", told) /\ UNCHANGED told)
        \/ (TornAs("summary", "failure") /\ told' = "failure")
    BY <1>1, <1>23, SummarySteps
  <2>3. bundle'["raw"] = bundle["raw"] /\ bundle'["safe"] = bundle["safe"] /\ told' \in {told, "failure"}
        /\ bundle'["summary"] \in {bundle["summary"], <<"failure">>, <<told>>}
    BY <1>7, <2>2 DEF TornAs, OnlyFile
  <2>4. told # "report" => <<told>> # <<"report">> OBVIOUS
  <2> QED BY <1>2, <1>3, <1>5, <2>1, <2>3, <2>4
<1>24. CASE CaptureSafe
  <2>1. UNCHANGED <<resultFile, told, admitted>> /\ debugAt = "safe" /\ debugAt' = "flush" BY <1>24 DEF CaptureSafe, runFacts
  <2>2. UNCHANGED bundle \/ (admitted /\ CapturedAs("safe", resultFile)) BY <1>1, <1>24, FileSteps
  <2>3. bundle'["raw"] = bundle["raw"] /\ bundle'["summary"] = bundle["summary"]
        /\ bundle'["safe"] \in {bundle["safe"], <<"final">>}
    BY <1>5, <1>7, <2>2 DEF CapturedAs, OnlyFile
  <2> QED BY <1>5, <2>1, <2>3
<1>25. CASE FinalJournal
  <2>1. SameRun /\ debugAt = "flush" /\ debugAt' = "closed" BY <1>25 DEF FinalJournal, runFacts
  <2> QED BY <1>5, <1>7, <2>1
<1> QED
  BY <1>8, <1>9, <1>10, <1>11, <1>12, <1>13, <1>14, <1>15, <1>16, <1>17, <1>18, <1>19, <1>20,
     <1>21, <1>22, <1>23, <1>24,
     <1>25 DEF DebugNext

(* How the run ends, and what was observed of its stages.                     *)
LEMMA OutcomeKept ==
  ASSUME DebugInv, DebugNext
  PROVE  OutcomeInOrder'
<1>1. DebugTypeOK /\ ResultInOrder /\ OutcomeInOrder /\ TraceInOrder BY DEF DebugInv
<1>2. /\ outcomeNow \in {"running", "rejected", "nothing", "failing", "ok", "failed", "interrupted"}
      /\ admitted \in BOOLEAN /\ stageNow \in DebugStage
  BY <1>1 DEF DebugTypeOK
<1>3. DebugStage = Stages BY StagesAre
<1>4. ASSUME UNCHANGED observed PROVE \A s \in DebugStage : observed'[s] = observed[s] BY <1>4
<1> USE DEF BeforeModel, BeforeTrace, BeforeClean, ReportSteps, LastSteps
<1>5. CASE CreateBundle
  BY <1>1, <1>2, <1>3, <1>5 DEF CreateBundle, OutcomeInOrder, PassedBehind, runFacts, Stages
<1>6. CASE StartSession
  BY <1>1, <1>2, <1>3, <1>6 DEF StartSession, OutcomeInOrder, PassedBehind, runFacts, Stages
<1>7. CASE StagePasses
  <2>1. debugAt \in {"configuration", "identity", "evidence"} /\ UNCHANGED <<outcomeNow, told, admitted>>
    BY <1>7 DEF StagePasses, runFacts
  <2>2. ObservedAs(debugAt, "passed") BY <1>1, <1>7, StageSteps
  <2>3. CASE debugAt = "configuration"
    <3>1. debugAt' = "identity" BY <1>7, <2>3, NextStages DEF StagePasses
    <3> QED BY <1>1, <1>2, <1>3, <2>1, <2>2, <2>3, <3>1 DEF OutcomeInOrder, PassedBehind,
       ObservedAs, Stages
  <2>4. CASE debugAt = "identity"
    <3>1. debugAt' = "evidence" BY <1>7, <2>4, NextStages DEF StagePasses
    <3> QED BY <1>1, <1>2, <1>3, <2>1, <2>2, <2>4, <3>1 DEF OutcomeInOrder, PassedBehind,
       ObservedAs, Stages
  <2>5. CASE debugAt = "evidence"
    <3>1. debugAt' = "bootstrap" BY <1>7, <2>5 DEF StagePasses
    <3> QED BY <1>1, <1>2, <1>3, <2>1, <2>2, <2>5, <3>1 DEF OutcomeInOrder, PassedBehind,
       ObservedAs, Stages
  <2> QED BY <2>1, <2>3, <2>4, <2>5
<1>8. CASE CaptureBootstrap
  <2>1. /\ debugAt = "bootstrap" /\ UNCHANGED <<observed, stageNow, told, admitted>>
        /\ \/ debugAt' = "mcp-preflight" /\ UNCHANGED outcomeNow
           \/ debugAt' = "diagram" /\ outcomeNow' = "failing"
    BY <1>8 DEF CaptureBootstrap, runFacts
  <2> QED BY <1>1, <1>2, <1>3, <2>1 DEF OutcomeInOrder, PassedBehind, Stages
<1>9. CASE PreflightPasses
  <2>1. debugAt = "mcp-preflight" /\ debugAt' = "preview" /\ UNCHANGED <<outcomeNow, told, admitted>>
        /\ ObservedAs("mcp-preflight", "passed")
    BY <1>1, <1>9, StageSteps DEF PreflightPasses, runFacts
  <2> QED BY <1>1, <1>2, <1>3, <2>1 DEF OutcomeInOrder, PassedBehind, ObservedAs, Stages
<1>10. CASE StageFails
  <2>1. debugAt \in BeforeModel /\ debugAt' = "diagram" /\ outcomeNow' = "failing" /\ UNCHANGED observed
    BY <1>10, StagesAre DEF StageFails
  <2> QED BY <1>1, <1>2, <1>3, <2>1 DEF OutcomeInOrder, PassedBehind, Stages
<1>11. CASE PreviewEnds
  <2>1. /\ debugAt = "preview" /\ UNCHANGED <<told, admitted>>
        /\ \/ ObservedAs("preview", "passed") /\ debugAt' = "model" /\ UNCHANGED outcomeNow
           \/ ObservedAs("preview", "failed") /\ debugAt' = "diagram" /\ outcomeNow' = "rejected"
           \/ ObservedAs("preview", "passed") /\ debugAt' = "diagram" /\ outcomeNow' \in {"nothing", "failing"}
    BY <1>1, <1>3, <1>11, StageObserved DEF PreviewEnds, runFacts, Stages
  <2> QED BY <1>1, <1>2, <1>3, <2>1 DEF OutcomeInOrder, PassedBehind, ObservedAs, Stages
<1>12. CASE ModelRuns
  <2>1. debugAt = "model" /\ debugAt' = "rawResult" /\ UNCHANGED <<observed, told, admitted>>
        /\ outcomeNow' \in {"running", "rejected", "failing"}
    BY <1>12, DebugAssumption DEF ModelRuns
  <2> QED BY <1>1, <1>2, <1>3, <2>1 DEF OutcomeInOrder, PassedBehind, Stages
<1>13. CASE CaptureRaw
  <2>1. /\ debugAt = "rawResult" /\ debugAt' = "diagram" /\ UNCHANGED <<told, admitted>>
        /\ \/ /\ UNCHANGED outcomeNow
              /\ \/ outcomeNow = "failing" /\ observed' = observed
                 \/ outcomeNow = "rejected" /\ ObservedAs("subprocess", "failed")
                 \/ outcomeNow \notin {"failing", "rejected"} /\ ObservedAs("subprocess", "passed")
           \/ outcomeNow' = "failing" /\ UNCHANGED observed
    BY <1>1, <1>13, FileSteps DEF CaptureRaw, runFacts
  <2> QED BY <1>1, <1>2, <1>3, <2>1 DEF OutcomeInOrder, PassedBehind, ObservedAs, Stages
<1>14. CASE CaptureDiagram \/ TraceOpens \/ SessionShifts \/ ReadRecord \/ TraceKept
  <2>1. /\ UNCHANGED <<observed, outcomeNow, told, admitted>>
        /\ debugAt \in {"diagram", "trace", "reading", "traced"} /\ debugAt' \in {"trace", "reading", "traced", "clean"}
    <3>1. CASE ReadRecord BY <1>1, <3>1, TurnOfReading DEF ReadRecord, ReadStops, ReadRefused, ReadGoesOn, runFacts
    <3>2. CASE CaptureDiagram \/ TraceOpens \/ SessionShifts \/ TraceKept
      BY <3>2 DEF CaptureDiagram, TraceOpens, TraceNoted, SessionShifts, TraceKept, runFacts
    <3> QED BY <1>14, <3>1, <3>2
  <2> QED BY <1>1, <1>2, <1>3, <2>1 DEF OutcomeInOrder, PassedBehind, Stages
<1>15. CASE CleanUp
  <2>1. /\ debugAt = "clean" /\ UNCHANGED <<told, admitted>>
        /\ \/ /\ ObservedAs("cleanup", "passed") /\ UNCHANGED outcomeNow
              /\ \/ outcomeNow = "failing" /\ debugAt' = "tell"
                 \/ outcomeNow = "running" /\ debugAt' = "validate"
                 \/ outcomeNow \notin {"failing", "running"} /\ debugAt' = "report"
           \/ ObservedAs("cleanup", "failed") /\ debugAt' = "tell" /\ outcomeNow' = "failing"
    BY <1>1, <1>3, <1>15, StageObserved DEF CleanUp, Stages
  <2> QED BY <1>1, <1>2, <1>3, <2>1 DEF OutcomeInOrder, PassedBehind, ObservedAs, Stages
<1>16. CASE Validate
  <2>1. /\ debugAt = "validate" /\ UNCHANGED told
        /\ \A s \in DebugStage : s \notin CheckedStages => observed'[s] = observed[s]
        /\ \/ /\ admitted' = TRUE /\ debugAt' = "report"
              /\ UNCHANGED outcomeNow /\ \A s \in CheckedStages : observed'[s] = "passed"
           \/ debugAt' = "tell" /\ outcomeNow' = "failing"
    BY <1>1, <1>16, Validated DEF Validate
  <2> QED BY <1>1, <1>2, <1>3, <2>1 DEF OutcomeInOrder, PassedBehind, CheckedStages, Stages
<1>17. CASE ReportResult
  <2>1. /\ debugAt = "report" /\ UNCHANGED <<admitted, observed>>
        /\ \/ told' = (IF admitted THEN "report" ELSE "failure") /\ debugAt' = "reported" /\ UNCHANGED outcomeNow
           \/ debugAt' = "tell" /\ outcomeNow' = "failing"
    BY <1>17 DEF ReportResult
  <2> QED BY <1>1, <1>2, <1>3, <2>1 DEF OutcomeInOrder, PassedBehind, Stages
<1>18. CASE CaptureReport
  <2>1. debugAt = "reported" /\ debugAt' = "console" /\ UNCHANGED <<outcomeNow, observed, told, admitted>>
    BY <1>18 DEF CaptureReport, runFacts
  <2> QED BY <1>1, <1>2, <1>3, <2>1 DEF OutcomeInOrder, PassedBehind, Stages
<1>19. CASE Console
  <2>1. /\ debugAt = "console" /\ UNCHANGED <<told, admitted>>
        /\ \/ /\ ObservedAs("reporting", "passed") /\ debugAt' = "safe"
              /\ outcomeNow' = IF outcomeNow = "running" THEN "ok" ELSE outcomeNow
           \/ debugAt' = "tell" /\ outcomeNow' = "failing" /\ UNCHANGED observed
    BY <1>1, <1>3, <1>19, StageObserved DEF Console, runFacts, Stages
  <2> QED BY <1>1, <1>2, <1>3, <2>1 DEF OutcomeInOrder, PassedBehind, ObservedAs, Stages
<1>20. CASE TellFailure
  <2>1. /\ debugAt = "tell" /\ UNCHANGED <<stageNow, told, admitted>> /\ outcomeNow' = "failed"
        /\ ObservedAs(stageNow, "failed")
        /\ (stageNow = "reporting" /\ debugAt' = "safe") \/ (stageNow # "reporting" /\ debugAt' = "publish")
    BY <1>1, <1>20, StageSteps DEF TellFailure, runFacts
  <2> QED BY <1>1, <1>2, <1>3, <2>1 DEF OutcomeInOrder, PassedBehind, ObservedAs, Stages
<1>21. CASE PublishFailure
  <2>1. /\ debugAt = "publish" /\ debugAt' = "safe" /\ UNCHANGED <<stageNow, outcomeNow, admitted>>
        /\ ObservedAs("reporting", "passed") \/ ObservedAs("reporting", "failed")
    BY <1>1, <1>21, StageSteps DEF PublishFailure
  <2> QED BY <1>1, <1>2, <1>3, <2>1 DEF OutcomeInOrder, PassedBehind, ObservedAs, Stages
<1>22. CASE InterruptedReport
  <2>1. debugAt \in ReportSteps \cup LastSteps /\ debugAt' = "safe" /\ outcomeNow' = "interrupted" /\ UNCHANGED observed
    BY <1>22 DEF InterruptedReport
  <2> QED BY <1>1, <1>2, <1>3, <2>1 DEF OutcomeInOrder, PassedBehind, Stages
<1>23. CASE CaptureSafe \/ FinalJournal
  <2>1. UNCHANGED <<stageNow, observed, outcomeNow, told, admitted>> /\ debugAt \in {"safe", "flush"}
        /\ debugAt' \in {"flush", "closed"}
    BY <1>23 DEF CaptureSafe, FinalJournal, runFacts
  <2> QED BY <1>1, <1>2, <1>3, <2>1 DEF OutcomeInOrder, PassedBehind, Stages
<1> QED
  BY <1>5, <1>6, <1>7, <1>8, <1>9, <1>10, <1>11, <1>12, <1>13, <1>14, <1>15, <1>16, <1>17, <1>18,
     <1>19, <1>20, <1>21, <1>22,
     <1>23 DEF DebugNext

(* Counting the kept lines of a session file.                                 *)
LEMMA KeptLinesCount ==
  ASSUME NEW file, NEW n \in Nat
  PROVE  /\ KeptUpTo(file, n) \in Nat /\ KeptUpTo(file, n) <= n /\ KeptUpTo(file, 0) = 0
         /\ KeptUpTo(file, n + 1) = KeptUpTo(file, n) + (IF IsKept(file[n + 1]) THEN 1 ELSE 0)
         /\ \A m \in 1..n : IsKept(file[m]) => KeptUpTo(file, m) \in 1..KeptUpTo(file, n)
<1> DEFINE K(m) == {i \in 1..m : IsKept(file[i])}
<1>1. ASSUME NEW m \in Nat PROVE IsFiniteSet(K(m)) /\ Cardinality(K(m)) \in Nat /\ Cardinality(K(m)) <= m
  <2>1. IsFiniteSet(1..m) /\ Cardinality(1..m) = m BY FS_Interval
  <2>2. K(m) \subseteq 1..m OBVIOUS
  <2> QED BY <2>1, <2>2, FS_Subset, FS_CardinalityType
<1>2. K(0) = {} OBVIOUS
<1>3. Cardinality(K(n + 1)) = Cardinality(K(n)) + (IF IsKept(file[n + 1]) THEN 1 ELSE 0)
  <2>1. n + 1 \notin K(n) OBVIOUS
  <2>2. CASE IsKept(file[n + 1])
    <3>1. K(n + 1) = K(n) \cup {n + 1} BY <2>2
    <3> HIDE DEF K
    <3> QED BY <1>1, <2>1, <2>2, <3>1, FS_AddElement
  <2>3. CASE ~IsKept(file[n + 1])
    <3>1. K(n + 1) = K(n) BY <2>3
    <3> HIDE DEF K
    <3> QED BY <1>1, <2>3, <3>1
  <2> QED BY <2>2, <2>3
<1>4. ASSUME NEW m \in 1..n, IsKept(file[m]) PROVE Cardinality(K(m)) \in 1..Cardinality(K(n))
  <2>1. m \in K(m) /\ K(m) \subseteq K(n) BY <1>4
  <2> HIDE DEF K
  <2>2. IsFiniteSet(K(m)) /\ IsFiniteSet(K(n)) /\ Cardinality(K(m)) \in Nat /\ Cardinality(K(n)) \in Nat BY <1>1
  <2>3. Cardinality(K(m)) <= Cardinality(K(n)) BY <2>1, <2>2, FS_Subset
  <2>4. Cardinality(K(m)) # 0 BY <2>1, <2>2, FS_EmptySet
  <2> QED BY <2>2, <2>3, <2>4
<1>5. \A m : KeptUpTo(file, m) = Cardinality(K(m)) BY DEF KeptUpTo
<1>6. Cardinality(K(0)) = 0 BY <1>2, FS_EmptySet
<1> HIDE DEF K
<1> QED BY <1>1, <1>3, <1>4, <1>5, <1>6

(* A reading that holds what the first lines say takes the next one.          *)
LEMMA HoldsNext ==
  ASSUME NEW file, NEW n \in Nat, NEW trace \in Seq(KeptLine), HoldsFirst(trace, file, n)
  PROVE  /\ IsKept(file[n + 1]) => HoldsFirst(Append(trace, file[n + 1]), file, n + 1)
         /\ ~IsKept(file[n + 1]) => HoldsFirst(trace, file, n + 1)
<1>1. Len(trace) = KeptUpTo(file, n) /\ Len(trace) \in Nat BY DEF HoldsFirst
<1>2. \A m \in 1..n : IsKept(file[m]) => trace[KeptUpTo(file, m)] = file[m] /\ KeptUpTo(file, m) \in 1..Len(trace)
  BY <1>1, KeptLinesCount DEF HoldsFirst
<1>3. KeptUpTo(file, n + 1) = KeptUpTo(file, n) + (IF IsKept(file[n + 1]) THEN 1 ELSE 0) BY KeptLinesCount
<1>4. \A m \in 1..(n + 1) : m \in 1..n \/ m = n + 1 OBVIOUS
<1>5. ASSUME ~IsKept(file[n + 1]) PROVE HoldsFirst(trace, file, n + 1)
  BY <1>1, <1>2, <1>3, <1>4, <1>5 DEF HoldsFirst
<1>6. ASSUME IsKept(file[n + 1]) PROVE HoldsFirst(Append(trace, file[n + 1]), file, n + 1)
  <2>1. PICK l \in KeptLine : l = file[n + 1] BY <1>6 DEF IsKept
  <2> HIDE DEF KeptLine
  <2>2. PICK more : more = Append(trace, l) OBVIOUS
  <2>3. Len(more) = Len(trace) + 1 /\ more[Len(trace) + 1] = l /\ \A i \in 1..Len(trace) : more[i] = trace[i] BY <2>2
  <2>4. Len(more) = KeptUpTo(file, n + 1) BY <1>1, <1>3, <1>6, <2>3
  <2>5. ASSUME NEW m \in 1..(n + 1), IsKept(file[m]) PROVE more[KeptUpTo(file, m)] = file[m]
    <3>1. CASE m \in 1..n BY <1>2, <2>3, <2>5, <3>1
    <3>2. CASE m = n + 1 BY <1>1, <2>1, <2>3, <2>4, <3>2
    <3> QED BY <1>4, <3>1, <3>2
  <2>6. HoldsFirst(more, file, n + 1) BY <2>4, <2>5 DEF HoldsFirst
  <2> QED BY <2>1, <2>2, <2>6
<1> QED BY <1>5, <1>6

(* What a first part holds does not depend on the rest.                       *)
LEMMA SameBeginning ==
  ASSUME NEW file, NEW other, NEW n \in Nat, \A m \in 1..n : other[m] = file[m]
  PROVE  \A k \in 0..n : \A trace : HoldsFirst(trace, file, k) => HoldsFirst(trace, other, k)
<1>1. ASSUME NEW k \in 0..n PROVE KeptUpTo(other, k) = KeptUpTo(file, k)
  <2>1. {m \in 1..k : IsKept(other[m])} = {m \in 1..k : IsKept(file[m])} OBVIOUS
  <2> QED BY <2>1 DEF KeptUpTo
<1>2. SUFFICES ASSUME NEW k \in 0..n, NEW trace, HoldsFirst(trace, file, k) PROVE HoldsFirst(trace, other, k) OBVIOUS
<1>3. \A m \in 1..k : m \in 0..n /\ m \in 1..n OBVIOUS
<1> QED BY <1>1, <1>2, <1>3 DEF HoldsFirst

(* The room that lines take, unit by unit.                                    *)
LEMMA UnitsCount ==
  ASSUME NEW room \in [Nat -> 1..4], NEW n \in Nat
  PROVE  LET U(m) == {u \in (1..m) \X (1..4) : u[2] <= room[u[1]]} IN
         /\ Cardinality(U(n)) \in Nat /\ Cardinality(U(0)) = 0
         /\ Cardinality(U(n + 1)) = Cardinality(U(n)) + room[n + 1]
         /\ \A m \in 0..n : Cardinality(U(m)) \in Nat /\ Cardinality(U(m)) <= Cardinality(U(n))
<1> DEFINE U(m) == {u \in (1..m) \X (1..4) : u[2] <= room[u[1]]}
           New == {n + 1} \X (1..room[n + 1])
<1>1. ASSUME NEW m \in Nat PROVE IsFiniteSet(U(m)) /\ Cardinality(U(m)) \in Nat
  <2>0. 1 \in Int /\ 4 \in Int /\ m \in Int OBVIOUS
  <2>1. IsFiniteSet(1..m) /\ IsFiniteSet(1..4)
    <3> HIDE DEF U, New
    <3> QED BY <2>0, FS_Interval
  <2>2. IsFiniteSet((1..m) \X (1..4)) BY <2>1, FS_Product
  <2>3. U(m) \subseteq (1..m) \X (1..4) OBVIOUS
  <2> HIDE DEF U
  <2> QED BY <2>2, <2>3, FS_Subset, FS_CardinalityType
<1>2. U(0) = {} OBVIOUS
<1>3. IsFiniteSet(New) /\ Cardinality(New) = room[n + 1]
  <2>1. room[n + 1] \in 1..4 OBVIOUS
  <2>2. IsFiniteSet(1..room[n + 1]) /\ Cardinality(1..room[n + 1]) = room[n + 1] BY <2>1, FS_Interval
  <2>3. IsFiniteSet({n + 1}) /\ Cardinality({n + 1}) = 1 BY FS_Singleton
  <2>4. PICK S, T : S = {n + 1} /\ T = 1..room[n + 1] /\ New = S \X T OBVIOUS
  <2> HIDE DEF U, New
  <2>5. IsFiniteSet(S \X T) /\ Cardinality(S \X T) = Cardinality(S) * Cardinality(T) BY <2>2, <2>3, <2>4, FS_Product
  <2>6. Cardinality(S) = 1 /\ Cardinality(T) = room[n + 1] BY <2>2, <2>3, <2>4
  <2>7. Cardinality(New) = 1 * room[n + 1] BY <2>4, <2>5, <2>6
  <2> QED BY <2>1, <2>4, <2>5, <2>7
<1>4. U(n + 1) = U(n) \cup New
  <2>1. ASSUME NEW u \in U(n + 1) PROVE u \in U(n) \cup New
    <3>1. PICK i \in 1..(n + 1), j \in 1..4 : u = <<i, j>> /\ j <= room[i] OBVIOUS
    <3>2. CASE i = n + 1 BY <3>1, <3>2
    <3>3. CASE i # n + 1
      <4>1. i \in 1..n BY <3>3
      <4> QED BY <3>1, <4>1
    <3> QED BY <3>2, <3>3
  <2>2. ASSUME NEW u \in U(n) PROVE u \in U(n + 1)
    <3>1. PICK i \in 1..n, j \in 1..4 : u = <<i, j>> /\ j <= room[i] OBVIOUS
    <3>2. i \in 1..(n + 1) OBVIOUS
    <3> QED BY <3>1, <3>2
  <2>3. ASSUME NEW u \in New PROVE u \in U(n + 1)
    <3>1. PICK j \in 1..room[n + 1] : u = <<n + 1, j>> OBVIOUS
    <3>2. room[n + 1] \in 1..4 /\ n + 1 \in 1..(n + 1) OBVIOUS
    <3>3. j \in 1..4 /\ j <= room[n + 1] BY <3>2
    <3> QED BY <3>1, <3>2, <3>3
  <2> QED BY <2>1, <2>2, <2>3
<1>5. U(n) \cap New = {} OBVIOUS
<1>6. ASSUME NEW m \in 0..n PROVE Cardinality(U(m)) \in Nat /\ Cardinality(U(m)) <= Cardinality(U(n))
  <2>1. U(m) \subseteq U(n)
    <3>1. ASSUME NEW u \in U(m) PROVE u \in U(n)
      <4>1. PICK i \in 1..m, j \in 1..4 : u = <<i, j>> /\ j <= room[i] OBVIOUS
      <4>2. i \in 1..n OBVIOUS
      <4> QED BY <4>1, <4>2
    <3> QED BY <3>1
  <2> HIDE DEF U
  <2> QED BY <1>1, <2>1, FS_Subset
<1> HIDE DEF U, New
<1>7. Cardinality(U(n + 1)) = Cardinality(U(n)) + room[n + 1]
  <2>1. Cardinality(U(n) \cup New) = Cardinality(U(n)) + Cardinality(New) - Cardinality(U(n) \cap New)
    BY <1>1, <1>3, FS_Union
  <2>2. Cardinality({}) = 0 BY FS_EmptySet
  <2>3. room[n + 1] \in 1..4 OBVIOUS
  <2>4. Cardinality(U(n)) \in Nat BY <1>1
  <2>5. Cardinality(U(n) \cap New) = 0 BY <1>5, <2>2
  <2>6. Cardinality(U(n + 1)) = Cardinality(U(n)) + room[n + 1] - 0 BY <1>3, <1>4, <2>1, <2>5
  <2> QED BY <2>3, <2>4, <2>6
<1>8. Cardinality(U(0)) = 0 BY <1>2, FS_EmptySet
<1>9. /\ Cardinality(U(n)) \in Nat /\ Cardinality(U(0)) = 0
      /\ Cardinality(U(n + 1)) = Cardinality(U(n)) + room[n + 1]
      /\ \A m \in 0..n : Cardinality(U(m)) \in Nat /\ Cardinality(U(m)) <= Cardinality(U(n))
  BY <1>1, <1>6, <1>7, <1>8
<1> QED BY <1>9 DEF U

LEMMA RoomCount ==
  ASSUME NEW file, NEW n \in Nat
  PROVE  /\ Cardinality(SourceUnits(file, n)) \in Nat /\ Cardinality(SourceUnits(file, 0)) = 0
         /\ Cardinality(SourceUnits(file, n + 1)) = Cardinality(SourceUnits(file, n)) + LineRoom(file[n + 1])
         /\ \A m \in 0..n : Cardinality(SourceUnits(file, m)) <= Cardinality(SourceUnits(file, n))
         /\ Cardinality(TraceUnits(file, n)) \in Nat /\ Cardinality(TraceUnits(file, 0)) = 0
         /\ Cardinality(TraceUnits(file, n + 1)) = Cardinality(TraceUnits(file, n)) + KeptRoom(file[n + 1])
         /\ \A m \in 0..n : Cardinality(TraceUnits(file, m)) <= Cardinality(TraceUnits(file, n))
         /\ LineRoom(file[n + 1]) \in 1..4 /\ KeptRoom(file[n + 1]) \in 1..4
<1>1. PICK room \in [Nat -> 1..4] : \A i \in Nat : room[i] = LineRoom(file[i])
  <2>1. \A i \in Nat : LineRoom(file[i]) \in 1..4 BY DEF LineRoom
  <2>2. [i \in Nat |-> LineRoom(file[i])] \in [Nat -> 1..4] BY <2>1
  <2> QED BY <2>2
<1>2. PICK held \in [Nat -> 1..4] : \A i \in Nat : held[i] = KeptRoom(file[i])
  <2>1. \A i \in Nat : KeptRoom(file[i]) \in 1..4 BY DEF KeptRoom
  <2>2. [i \in Nat |-> KeptRoom(file[i])] \in [Nat -> 1..4] BY <2>1
  <2> QED BY <2>2
<1> DEFINE U(m) == {u \in (1..m) \X (1..4) : u[2] <= room[u[1]]}
           V(m) == {u \in (1..m) \X (1..4) : u[2] <= held[u[1]]}
<1>3. ASSUME NEW m \in Nat PROVE SourceUnits(file, m) = U(m) /\ TraceUnits(file, m) = V(m)
  <2>1. \A u \in (1..m) \X (1..4) : u[1] \in Nat OBVIOUS
  <2>2. \A u \in (1..m) \X (1..4) : room[u[1]] = LineRoom(file[u[1]]) /\ held[u[1]] = KeptRoom(file[u[1]])
    BY <1>1, <1>2, <2>1
  <2> QED BY <2>2 DEF SourceUnits, TraceUnits
<1>4. /\ Cardinality(U(n)) \in Nat /\ Cardinality(U(0)) = 0
      /\ Cardinality(U(n + 1)) = Cardinality(U(n)) + room[n + 1]
      /\ \A m \in 0..n : Cardinality(U(m)) \in Nat /\ Cardinality(U(m)) <= Cardinality(U(n))
  BY UnitsCount
<1>5. /\ Cardinality(V(n)) \in Nat /\ Cardinality(V(0)) = 0
      /\ Cardinality(V(n + 1)) = Cardinality(V(n)) + held[n + 1]
      /\ \A m \in 0..n : Cardinality(V(m)) \in Nat /\ Cardinality(V(m)) <= Cardinality(V(n))
  BY UnitsCount
<1> HIDE DEF U, V
<1>6. n + 1 \in Nat /\ 0 \in Nat /\ \A m \in 0..n : m \in Nat OBVIOUS
<1>7. room[n + 1] \in 1..4 /\ held[n + 1] \in 1..4 BY <1>6
<1> QED BY <1>1, <1>2, <1>3, <1>4, <1>5, <1>6, <1>7

(* Where the trace is not touched.                                            *)
LEMMA TraceIdle ==
  ASSUME DebugInv, DebugNext
  PROVE  \/ ModelRuns \/ TraceOpens \/ SessionShifts \/ ReadRecord \/ TraceKept
         \/ /\ UNCHANGED <<tracing, shifted, nativeFile>> /\ bundle'["trace"] = bundle["trace"]
            /\ \/ keptNotes'["trace"] = keptNotes["trace"]
               \/ debugAt = "identity" /\ mishaps' = mishaps + 1 /\ keptNotes'["trace"] = Unavailable
            /\ debugAt \notin {"reading", "traced"} /\ debugAt' \notin {"reading", "traced"}
<1>1. DebugTypeOK BY DEF DebugInv
<1> DEFINE Away == debugAt \notin {"reading", "traced"} /\ debugAt' \notin {"reading", "traced"}
           FileStays == UNCHANGED <<tracing, shifted, nativeFile>>
           Goal == /\ UNCHANGED <<tracing, shifted, nativeFile>> /\ bundle'["trace"] = bundle["trace"]
                   /\ \/ keptNotes'["trace"] = keptNotes["trace"]
                      \/ debugAt = "identity" /\ mishaps' = mishaps + 1 /\ keptNotes'["trace"] = Unavailable
                   /\ debugAt \notin {"reading", "traced"} /\ debugAt' \notin {"reading", "traced"}
<1> USE ArtifactWords
<1>2. ASSUME UNCHANGED <<bundle, keptNotes>> PROVE bundle'["trace"] = bundle["trace"] /\ keptNotes'["trace"] = keptNotes["trace"]
  BY <1>2
<1>3. ASSUME NEW a \in Artifact, a # "trace", OnlyFile(a)
      PROVE  bundle'["trace"] = bundle["trace"] /\ keptNotes'["trace"] = keptNotes["trace"]
  BY <1>3 DEF OnlyFile
<1>4. CreateBundle \/ StartSession \/ PreflightPasses \/ PreviewEnds \/ CleanUp \/ Validate \/ Console \/ FinalJournal => Goal
  <2>1. CreateBundle \/ StartSession \/ PreflightPasses \/ PreviewEnds \/ CleanUp \/ Console \/ FinalJournal =>
          FileStays /\ UNCHANGED <<bundle, keptNotes>> /\ Away
    BY DEF CreateBundle, StartSession, PreflightPasses, PreviewEnds, CleanUp, Console,
       FinalJournal, traceVars, bundleFiles
  <2>2. Validate => FileStays /\ UNCHANGED <<bundle, keptNotes>> /\ Away
    BY <1>1, Validated DEF Validate, traceVars, bundleFiles
  <2> QED BY <1>2, <2>1, <2>2
<1>5. StageFails => Goal
  <2>1. StageFails => FileStays /\ UNCHANGED <<bundle, keptNotes>> /\ Away
    BY StagesAre DEF StageFails, traceVars, bundleFiles
  <2> QED BY <1>2, <2>1
<1>6. ASSUME StagePasses PROVE Goal
  <2>1. FileStays /\ UNCHANGED bundle /\ Away BY <1>6, NextStages DEF StagePasses
  <2>2. (debugAt = "identity" /\ BindSession) \/ UNCHANGED keptNotes BY <1>6 DEF StagePasses
  <2>3. BindSession => UNCHANGED keptNotes \/ (mishaps' = mishaps + 1 /\ keptNotes'["trace"] = Unavailable)
    BY <1>1, TraceSteps
  <2> QED BY <2>1, <2>2, <2>3
<1>7. ASSUME CaptureBootstrap PROVE Goal
  <2>1. FileStays /\ Away BY <1>7 DEF CaptureBootstrap, traceVars
  <2>2. OnlyFile("bootstrap") BY <1>1, <1>7, FileSteps DEF CapturedAs, TornAs
  <2> QED BY <1>3, <2>1, <2>2
<1>8. ASSUME CaptureRaw PROVE Goal
  <2>1. FileStays /\ Away BY <1>8 DEF CaptureRaw, traceVars
  <2>2. OnlyFile("raw") BY <1>1, <1>8, FileSteps DEF CapturedAs, TornAs
  <2> QED BY <1>3, <2>1, <2>2
<1>9. ASSUME CaptureDiagram PROVE Goal
  <2>1. FileStays /\ Away BY <1>9 DEF CaptureDiagram, traceVars
  <2>2. OnlyFile("diagram") BY <1>1, <1>9, FileSteps DEF CapturedAs
  <2> QED BY <1>3, <2>1, <2>2
<1>10. ASSUME ReportResult PROVE Goal
  <2>1. FileStays /\ Away BY <1>10 DEF ReportResult, traceVars
  <2>2. UNCHANGED <<bundle, keptNotes>> \/ OnlyFile("summary") BY <1>1, <1>10, SummarySteps DEF KeptAs
  <2> QED BY <1>2, <1>3, <2>1, <2>2
<1>11. ASSUME CaptureReport PROVE Goal
  <2>1. FileStays /\ Away BY <1>11 DEF CaptureReport, traceVars
  <2>2. OnlyFile("summary") BY <1>1, <1>11, FileSteps DEF CapturedAs
  <2> QED BY <1>3, <2>1, <2>2
<1>12. ASSUME TellFailure PROVE Goal
  <2>1. FileStays /\ Away BY <1>12 DEF TellFailure, traceVars
  <2>2. UNCHANGED <<bundle, keptNotes>> \/ OnlyFile("summary") BY <1>1, <1>12, SummarySteps DEF KeptAs
  <2> QED BY <1>2, <1>3, <2>1, <2>2
<1>13. ASSUME PublishFailure PROVE Goal
  <2>1. FileStays /\ Away BY <1>13 DEF PublishFailure, traceVars
  <2>2. UNCHANGED <<bundle, keptNotes>> \/ OnlyFile("summary") BY <1>1, <1>13, SummarySteps DEF CapturedAs
  <2> QED BY <1>2, <1>3, <2>1, <2>2
<1>14. ASSUME InterruptedReport PROVE Goal
  <2>1. FileStays /\ Away BY <1>14 DEF InterruptedReport, traceVars
  <2>2. UNCHANGED <<bundle, keptNotes>> \/ OnlyFile("summary") BY <1>1, <1>14, SummarySteps DEF TornAs
  <2> QED BY <1>2, <1>3, <2>1, <2>2
<1>15. ASSUME CaptureSafe PROVE Goal
  <2>1. FileStays /\ Away BY <1>15 DEF CaptureSafe, traceVars
  <2>2. UNCHANGED <<bundle, keptNotes>> \/ OnlyFile("safe") BY <1>1, <1>15, FileSteps DEF CapturedAs
  <2> QED BY <1>2, <1>3, <2>1, <2>2
<1> QED BY <1>4, <1>5, <1>6, <1>7, <1>8, <1>9, <1>10, <1>11, <1>12, <1>13, <1>14, <1>15
   DEF DebugNext

(* A reading that goes on, and one that stops.                                *)
LEMMA GoesOnInOrder ==
  ASSUME DebugTypeOK, TraceInOrder, debugAt = "reading", ReadGoesOn(tracing, nativeFile[tracing.at + 1])
  PROVE  ReadSoFar(tracing', nativeFile) /\ GoingOn(tracing', nativeFile)
<1>1. PICK t : t = tracing OBVIOUS
<1>2. PICK u : u = tracing' OBVIOUS
<1>3. PICK file : file = nativeFile OBVIOUS
<1>4. PICK line : line = file[t.at + 1] OBVIOUS
<1>5. ReadSoFar(t, file) /\ GoingOn(t, file) /\ file \in Seq(TraceLine) BY <1>1, <1>3 DEF TraceInOrder, DebugTypeOK, Session
<1>6. /\ t.at \in Nat /\ t.kept \in Seq(KeptLine) /\ t.ended \in BOOLEAN /\ t.cutShort \in BOOLEAN /\ t.complete \in BOOLEAN
      /\ u.ended \in BOOLEAN /\ u.cutShort \in BOOLEAN /\ u.complete \in BOOLEAN
  BY <1>1, <1>2 DEF DebugTypeOK, TraceReading, ReadGoesOn
<1>7. /\ t.at < Len(file) /\ u.at = t.at + 1
      /\ line \notin {"garbled", "open", "long"}
      /\ u.ended = (line \in {"end", "openEnd", "unfitEnd"}) /\ u.cutShort = (t.cutShort \/ line = "openEnd")
      /\ \/ ~IsKept(line) /\ u.kept = t.kept /\ u.complete = t.complete
         \/ IsKept(line) /\ u.kept = Append(t.kept, line) /\ u.complete = u.ended
  BY <1>1, <1>2, <1>3, <1>4 DEF ReadGoesOn, SameRest
<1>8. (t.at = 0 => line = "start") /\ (t.at > 0 => line # "start" /\ ~t.ended)
  <2>1. ~RecordRefused(line, t.at + 1) BY <1>1, <1>3, <1>4 DEF ReadGoesOn
  <2> QED BY <1>1, <1>6, <2>1 DEF RecordRefused
<1>9. Len(file) \in Nat /\ Len(t.kept) \in Nat /\ Len(t.kept) <= t.at
  <2> HIDE DEF KeptLine, TraceLine
  <2> QED BY <1>5, <1>6 DEF ReadSoFar
<1>10. \A i \in 1..Len(t.kept) : t.kept[i] # "end" /\ (t.kept[i] = "start" <=> i = 1)
  BY <1>5, <1>6, <1>8, <1>9 DEF ReadSoFar, GoingOn
<1>11. HoldsFirst(u.kept, file, u.at) BY <1>4, <1>5, <1>6, <1>7, HoldsNext DEF GoingOn
<1>12. t.at > 0 => t.kept # <<>> BY <1>5 DEF GoingOn
<1>13. CASE ~IsKept(line)
  <2>1. u.kept = t.kept /\ u.complete = t.complete /\ u.at = t.at + 1 BY <1>7, <1>13
  <2>2. line # "start" /\ line # "openEnd" BY <1>13 DEF IsKept, KeptLine
  <2>3. t.at > 0 /\ u.kept # <<>> BY <1>6, <1>8, <1>12, <2>1, <2>2
  <2>4. u.cutShort = t.cutShort BY <1>6, <1>7, <2>2
  <2>5. ReadSoFar(u, file)
    <3>1. u.at <= Len(file) /\ Len(u.kept) < u.at BY <1>6, <1>7, <1>9, <2>1
    <3>2. u.complete /\ ~u.cutShort => u.kept # <<>> /\ u.kept[Len(u.kept)] = "end" BY <1>5, <2>1, <2>4 DEF ReadSoFar
    <3>3. (\E i \in 1..Len(u.kept) : u.kept[i] = "openEnd") => u.cutShort BY <1>5, <2>1, <2>4 DEF ReadSoFar
    <3>4. Len(u.kept) <= u.at /\ Len(u.kept) # u.at BY <1>6, <1>9, <2>1
    <3> QED BY <1>10, <2>1, <3>1, <3>2, <3>3, <3>4 DEF ReadSoFar
  <2>6. GoingOn(u, file) BY <1>10, <1>11, <2>1, <2>3 DEF GoingOn
  <2> QED BY <1>2, <1>3, <2>5, <2>6
<1>14. CASE IsKept(line)
  <2>1. u.kept = Append(t.kept, line) /\ u.complete = u.ended BY <1>7, <1>14
  <2>2. line \in KeptLine BY <1>14 DEF IsKept
  <2>3. /\ Len(u.kept) = Len(t.kept) + 1 /\ u.kept[Len(t.kept) + 1] = line
        /\ \A i \in 1..Len(t.kept) : u.kept[i] = t.kept[i]
    <3> HIDE DEF KeptLine
    <3> QED BY <1>6, <2>1, <2>2
  <2>4. Len(t.kept) = 0 <=> t.at = 0
    <3>1. t.at > 0 => Len(t.kept) > 0
      <4> HIDE DEF KeptLine
      <4> QED BY <1>6, <1>9, <1>12
    <3> QED BY <1>6, <1>9, <3>1
  <2>5. \A i \in 1..Len(u.kept) : i \in 1..Len(t.kept) \/ i = Len(t.kept) + 1 BY <1>9, <2>3
  <2>6. u.kept # <<>>
    <3>1. Len(<<>>) = 0 OBVIOUS
    <3> QED BY <1>9, <2>3, <3>1
  <2>7. ReadSoFar(u, file)
    <3>1. u.at <= Len(file) /\ Len(u.kept) <= u.at BY <1>6, <1>7, <1>9, <2>3
    <3>2. Len(u.kept) = u.at => \A m \in 1..u.at : u.kept[m] = file[m]
      <4>1. SUFFICES ASSUME Len(t.kept) = t.at, NEW m \in 1..u.at PROVE u.kept[m] = file[m] BY <1>6, <1>7, <1>9, <2>3
      <4>2. CASE m \in 1..t.at BY <1>5, <2>3, <4>1, <4>2 DEF ReadSoFar
      <4>3. CASE m = t.at + 1 BY <1>4, <2>3, <4>1, <4>3
      <4> QED BY <1>6, <1>7, <4>2, <4>3
    <3>3. u.complete /\ ~u.cutShort => u.kept[Len(u.kept)] = "end"
      <4>1. line # "unfitEnd" BY <2>2 DEF KeptLine
      <4> QED BY <1>6, <1>7, <2>1, <2>3, <4>1
    <3>4. \A i \in 1..Len(u.kept) : (u.kept[i] = "start" <=> i = 1) /\ (u.kept[i] = "end" => i = Len(u.kept))
      BY <1>6, <1>8, <1>9, <1>10, <2>3, <2>4, <2>5
    <3>5. (\E i \in 1..Len(u.kept) : u.kept[i] = "openEnd") => u.cutShort
      BY <1>5, <1>6, <1>7, <2>3, <2>5 DEF ReadSoFar
    <3> QED BY <2>6, <3>1, <3>2, <3>3, <3>4, <3>5 DEF ReadSoFar
  <2>8. (\E i \in 1..Len(u.kept) : u.kept[i] = "end") => u.ended BY <1>6, <1>7, <1>10, <2>3, <2>5
  <2>9. GoingOn(u, file) BY <1>11, <2>6, <2>8 DEF GoingOn
  <2> QED BY <1>2, <1>3, <2>7, <2>9
<1> QED BY <1>13, <1>14

LEMMA StopsInOrder ==
  ASSUME DebugTypeOK, TraceInOrder, debugAt = "reading", ReadStops(tracing, nativeFile[tracing.at + 1])
  PROVE  ReadSoFar(tracing', nativeFile) /\ HoldsPart(tracing'.kept, nativeFile) /\ ReadAll(tracing', nativeFile)
<1>1. PICK t : t = tracing OBVIOUS
<1>2. PICK u : u = tracing' OBVIOUS
<1>3. PICK file : file = nativeFile OBVIOUS
<1>4. ReadSoFar(t, file) /\ GoingOn(t, file) /\ file \in Seq(TraceLine) BY <1>1, <1>3 DEF TraceInOrder, DebugTypeOK, Session
<1>5. /\ t.at \in Nat /\ t.kept \in Seq(KeptLine) /\ t.cutShort \in BOOLEAN /\ u.cutShort \in BOOLEAN
      /\ u.kept = t.kept /\ u.complete = t.complete
  BY <1>1, <1>2 DEF DebugTypeOK, TraceReading, ReadStops, SameRest
<1>6. Len(file) \in Nat /\ Len(t.kept) \in Nat /\ Len(t.kept) <= t.at /\ t.at <= Len(file)
  <2> HIDE DEF KeptLine, TraceLine
  <2> QED BY <1>4, <1>5 DEF ReadSoFar
<1>7. \/ u = t /\ t.at = Len(file) /\ (t.at < MaxTraceRecords => t.read < SourceRoom)
      \/ u.at = t.at /\ u.cutShort
      \/ u.at = t.at + 1 /\ t.at < Len(file) /\ (t.cutShort => u.cutShort)
  BY <1>1, <1>2, <1>3 DEF ReadStops
<1>8. /\ u.at <= Len(file) /\ Len(u.kept) <= u.at /\ (t.cutShort => u.cutShort)
      /\ (Len(u.kept) = u.at => u.at = t.at)
  BY <1>5, <1>6, <1>7
<1>9. ReadSoFar(u, file)
  <2>1. /\ Len(t.kept) = t.at => \A m \in 1..t.at : t.kept[m] = file[m]
        /\ t.complete /\ ~t.cutShort => t.kept # <<>> /\ t.kept[Len(t.kept)] = "end"
        /\ \A i \in 1..Len(t.kept) : (t.kept[i] = "start" <=> i = 1) /\ (t.kept[i] = "end" => i = Len(t.kept))
        /\ (\E i \in 1..Len(t.kept) : t.kept[i] = "openEnd") => t.cutShort
    BY <1>4 DEF ReadSoFar
  <2> QED BY <1>5, <1>8, <2>1 DEF ReadSoFar
<1>10. HoldsPart(u.kept, file)
  <2>1. HoldsFirst(u.kept, file, t.at) BY <1>4, <1>5 DEF GoingOn
  <2>2. t.at \in 0..Len(file) BY <1>5, <1>6
  <2> QED BY <2>1, <2>2 DEF HoldsPart
<1>11. ReadAll(u, file) BY <1>5, <1>6, <1>7 DEF ReadAll
<1> QED BY <1>2, <1>3, <1>9, <1>10, <1>11

(* What is kept of the trace is what the session file holds.                  *)
LEMMA TraceOrderKept ==
  ASSUME DebugInv, DebugNext
  PROVE  TraceInOrder'
<1>1. DebugTypeOK /\ NotesInOrder /\ TraceInOrder BY DEF DebugInv
<1>2. Unavailable.status = "unavailable" /\ Missing.status = "missing" BY DEF Unavailable, Missing
<1>3. /\ debugAt \in {"reading", "traced"} => nativeFile # NoCopy /\ ReadSoFar(tracing, nativeFile)
      /\ debugAt = "reading" => GoingOn(tracing, nativeFile)
      /\ debugAt = "traced" => HoldsPart(tracing.kept, nativeFile) /\ (~shifted => ReadAll(tracing, nativeFile))
      /\ debugAt \notin {"reading", "traced"} => tracing = Untraced
      /\ TraceIsTrue
  BY <1>1 DEF TraceInOrder
<1>4. debugAt \in BeforeClean => bundle["trace"] = NoCopy /\ keptNotes["trace"].status \in {"not-run", "unavailable"}
  BY <1>1 DEF NotesInOrder
<1>5. nativeFile # NoCopy => nativeFile \in Seq(TraceLine) BY <1>1 DEF DebugTypeOK, Session
<1>6. ASSUME bundle'["trace"] = NoCopy, keptNotes'["trace"].status # "passed" PROVE TraceIsTrue' BY <1>6 DEF TraceIsTrue
<1> USE DEF BeforeClean, BeforeTrace, BeforeModel
<1>7. CASE ModelRuns
  <2>1. UNCHANGED <<tracing, bundle, keptNotes>> /\ debugAt = "model" /\ debugAt' = "rawResult"
    BY <1>7 DEF ModelRuns, bundleFiles
  <2>2. TraceIsTrue' BY <1>4, <1>6, <2>1
  <2> QED BY <1>3, <2>1, <2>2 DEF TraceInOrder
<1>8. CASE TraceOpens
  <2>1. UNCHANGED <<bundle, nativeFile, shifted>> /\ debugAt = "trace" BY <1>8 DEF TraceOpens
  <2>2. tracing' = Untraced
        /\ \/ debugAt' = "reading" /\ nativeFile # NoCopy /\ UNCHANGED keptNotes
           \/ debugAt' = "clean" /\ (UNCHANGED keptNotes \/ TraceNoted(Missing) \/ TraceNoted(Unavailable))
    BY <1>3, <1>8, <2>1 DEF TraceOpens, TraceNoted
  <2>3. keptNotes'["trace"].status # "passed"
    <3>1. \A note \in {Missing, Unavailable} : TraceNoted(note) => keptNotes'["trace"] = note BY <1>1, TraceSteps
    <3> QED BY <1>2, <1>4, <2>1, <2>2, <3>1
  <2>4. TraceIsTrue' BY <1>4, <1>6, <2>1, <2>3
  <2>5. CASE debugAt' = "clean" BY <2>2, <2>4, <2>5 DEF TraceInOrder
  <2>6. CASE debugAt' = "reading" /\ nativeFile # NoCopy
    <3>1. Untraced.at = 0 /\ Untraced.kept = <<>> /\ Untraced.complete = FALSE /\ Len(<<>>) = 0 BY DEF Untraced
    <3>2. nativeFile' \in Seq(TraceLine) /\ nativeFile' # NoCopy BY <1>5, <2>1, <2>6
    <3>3. Len(nativeFile') \in Nat
      <4> HIDE DEF TraceLine
      <4> QED BY <3>2
    <3>4. ReadSoFar(Untraced, nativeFile') BY <3>1, <3>3 DEF ReadSoFar
    <3>5. HoldsFirst(<<>>, nativeFile', 0) BY <3>1, KeptLinesCount DEF HoldsFirst
    <3>6. GoingOn(Untraced, nativeFile') BY <3>1, <3>5 DEF GoingOn
    <3> QED BY <2>2, <2>4, <2>6, <3>2, <3>4, <3>6 DEF TraceInOrder
  <2> QED BY <2>2, <2>5, <2>6
<1>9. CASE SessionShifts
  <2>1. UNCHANGED <<debugAt, bundle, keptNotes, tracing>> /\ debugAt \in {"reading", "traced"} /\ shifted' = TRUE
    BY <1>9 DEF SessionShifts, bundleFiles
  <2>2. PICK old, new : old = nativeFile /\ new = nativeFile' OBVIOUS
  <2>3. old \in Seq(TraceLine) BY <1>3, <1>5, <2>1, <2>2
  <2>4. new = old \/ \E l \in TraceLine : new = Append(old, l) BY <1>9, <2>2, DebugAssumption DEF SessionShifts
  <2>5. /\ new \in Seq(TraceLine) /\ Len(old) \in Nat /\ Len(new) \in Nat /\ Len(old) <= Len(new)
        /\ \A m \in 1..Len(old) : new[m] = old[m]
    <3> HIDE DEF TraceLine
    <3> QED BY <2>3, <2>4
  <2>6. new # NoCopy
    <3>1. "none" \notin TraceLine BY DEF TraceLine, KeptLine
    <3>2. NoCopy[1] = "none" /\ Len(NoCopy) = 1 BY DEF NoCopy
    <3> HIDE DEF TraceLine
    <3> QED BY <2>5, <3>1, <3>2
  <2>7. PICK t : t = tracing OBVIOUS
  <2>8. t.at \in Nat /\ ReadSoFar(t, old) BY <1>1, <1>3, <2>1, <2>2, <2>7 DEF DebugTypeOK, TraceReading
  <2>9. ReadSoFar(t, new)
    <3>1. t.at <= Len(new) /\ \A m \in 1..t.at : new[m] = old[m] BY <2>5, <2>8 DEF ReadSoFar
    <3> QED BY <2>8, <3>1 DEF ReadSoFar
  <2>10. \A k \in 0..Len(old) : \A trace : HoldsFirst(trace, old, k) => HoldsFirst(trace, new, k) BY <2>5, SameBeginning
  <2>11. debugAt = "reading" => GoingOn(t, new)
    <3>1. t.at \in 0..Len(old) BY <2>5, <2>8 DEF ReadSoFar
    <3> QED BY <1>3, <2>2, <2>7, <2>10, <3>1 DEF GoingOn
  <2>12. debugAt = "traced" => HoldsPart(t.kept, new)
    <3>1. SUFFICES ASSUME debugAt = "traced" PROVE HoldsPart(t.kept, new) OBVIOUS
    <3>2. PICK n \in 0..Len(old) : HoldsFirst(t.kept, old, n) BY <1>3, <2>2, <2>7, <3>1 DEF HoldsPart
    <3>3. n \in 0..Len(new) BY <2>5
    <3> QED BY <2>10, <3>2, <3>3 DEF HoldsPart
  <2>13. TraceIsTrue' BY <1>4, <1>6, <2>1
  <2>14. nativeFile' = new /\ tracing' = t BY <2>1, <2>2, <2>7
  <2> QED BY <2>1, <2>6, <2>9, <2>11, <2>12, <2>13, <2>14 DEF TraceInOrder
<1>10. CASE ReadRecord
  <2>1. debugAt = "reading" /\ UNCHANGED <<bundle, nativeFile, shifted>> BY <1>10 DEF ReadRecord
  <2> DEFINE line == nativeFile[tracing.at + 1]
  <2>2. CASE ReadStops(tracing, line)
    <3>1. debugAt' = "traced" /\ keptNotes' = keptNotes BY <2>2 DEF ReadStops
    <3>2. ReadSoFar(tracing', nativeFile) /\ HoldsPart(tracing'.kept, nativeFile) /\ ReadAll(tracing', nativeFile)
      BY <1>1, <2>1, <2>2, StopsInOrder
    <3>3. TraceIsTrue' BY <1>4, <1>6, <2>1, <3>1
    <3> QED BY <1>3, <2>1, <3>1, <3>2, <3>3 DEF TraceInOrder
  <2>3. CASE ReadRefused(tracing, line)
    <3>1. debugAt' = "clean" /\ tracing' = Untraced /\ keptNotes'["trace"] = Unavailable
      BY <1>1, <2>3, ArtifactWords DEF ReadRefused, DebugTypeOK
    <3>2. TraceIsTrue' BY <1>2, <1>4, <1>6, <2>1, <3>1
    <3> QED BY <3>1, <3>2 DEF TraceInOrder
  <2>4. CASE ReadGoesOn(tracing, line)
    <3>1. debugAt' = "reading" /\ keptNotes' = keptNotes BY <2>4 DEF ReadGoesOn
    <3>2. ReadSoFar(tracing', nativeFile) /\ GoingOn(tracing', nativeFile) BY <1>1, <2>1, <2>4, GoesOnInOrder
    <3>3. TraceIsTrue' BY <1>4, <1>6, <2>1, <3>1
    <3> QED BY <1>3, <2>1, <3>1, <3>2, <3>3 DEF TraceInOrder
  <2> QED BY <1>1, <1>10, <2>2, <2>3, <2>4, TurnOfReading
<1>11. CASE TraceKept
  <2>1. debugAt = "traced" /\ debugAt' = "clean" /\ tracing' = Untraced /\ UNCHANGED <<nativeFile, shifted>>
    BY <1>11 DEF TraceKept
  <2>2. PICK t, file : t = tracing /\ file = nativeFile OBVIOUS
  <2>3. /\ ReadSoFar(t, file) /\ HoldsPart(t.kept, file) /\ (~shifted => ReadAll(t, file)) /\ file \in Seq(TraceLine)
        /\ t.kept \in Seq(KeptLine) /\ t.at \in Nat
    BY <1>1, <1>3, <1>5, <2>1, <2>2 DEF DebugTypeOK, TraceReading
  <2>4. PICK mark : /\ mark = (IF TracePassed(t) /\ ~shifted THEN "passed" ELSE "degraded")
                      /\ KeptAs("trace", t.kept, mark)
    BY <1>1, <1>11, <2>2, TraceSteps
  <2>5. /\ bundle'["trace"] \in {bundle["trace"], t.kept}
        /\ keptNotes'["trace"] = [status |-> mark, holds |-> t.kept] \/ keptNotes'["trace"] = Unavailable
    BY <2>4 DEF KeptAs
  <2>6. bundle["trace"] = NoCopy BY <1>4, <2>1
  <2>7. t.kept # <<>> => 1 \in 1..Len(t.kept)
    <3> HIDE DEF KeptLine
    <3> QED BY <2>3
  <2>8. DOMAIN t.kept = 1..Len(t.kept) BY <2>3
  <2>9. bundle'["trace"] # NoCopy =>
          /\ HoldsPart(bundle'["trace"], nativeFile')
          /\ bundle'["trace"] # <<>> => bundle'["trace"][1] = "start"
          /\ \A i \in DOMAIN bundle'["trace"] : bundle'["trace"][i] = "end" => i = Len(bundle'["trace"])
    <3>1. SUFFICES ASSUME bundle'["trace"] = t.kept
                   PROVE  /\ HoldsPart(t.kept, file) /\ (t.kept # <<>> => t.kept[1] = "start")
                          /\ \A i \in DOMAIN t.kept : t.kept[i] = "end" => i = Len(t.kept)
      BY <2>1, <2>2, <2>5, <2>6
    <3> QED BY <2>3, <2>7, <2>8 DEF ReadSoFar
  <2>10. keptNotes'["trace"].status = "passed" => keptNotes'["trace"].holds = file /\ Last(file) = "end" /\ ~shifted
    <3>1. SUFFICES ASSUME keptNotes'["trace"].status = "passed"
                   PROVE  keptNotes'["trace"].holds = file /\ Last(file) = "end" /\ ~shifted
      OBVIOUS
    <3>2. keptNotes'["trace"].status = mark /\ keptNotes'["trace"].holds = t.kept BY <1>2, <2>5, <3>1
    <3>3. TracePassed(t) /\ ~shifted BY <2>4, <3>1, <3>2
    <3>4. t.complete /\ ~t.cutShort /\ t.at = Len(t.kept) BY <3>3 DEF TracePassed
    <3>5. t.at = Len(file) /\ (\A m \in 1..t.at : t.kept[m] = file[m]) /\ t.kept # <<>> /\ t.kept[Len(t.kept)] = "end"
      BY <2>3, <3>3, <3>4 DEF ReadSoFar, ReadAll
    <3>6. t.kept = file
      <4>1. t.kept \in Seq(TraceLine)
        <5>1. KeptLine \subseteq TraceLine BY DEF TraceLine
        <5> HIDE DEF KeptLine, TraceLine
        <5> QED BY <2>3, <5>1
      <4> HIDE DEF TraceLine
      <4> QED BY <2>3, <3>4, <3>5, <4>1, SeqEqual
    <3>7. Last(file) = "end" BY <3>4, <3>5, <3>6 DEF Last
    <3> QED BY <3>2, <3>3, <3>6, <3>7
  <2>11. TraceIsTrue' BY <2>1, <2>2, <2>9, <2>10 DEF TraceIsTrue
  <2> QED BY <2>1, <2>11 DEF TraceInOrder
<1>12. CASE /\ UNCHANGED <<tracing, shifted, nativeFile>> /\ bundle'["trace"] = bundle["trace"]
            /\ \/ keptNotes'["trace"] = keptNotes["trace"]
               \/ debugAt = "identity" /\ mishaps' = mishaps + 1 /\ keptNotes'["trace"] = Unavailable
            /\ debugAt \notin {"reading", "traced"} /\ debugAt' \notin {"reading", "traced"}
  <2>1. TraceIsTrue'
    <3>1. CASE keptNotes'["trace"] = keptNotes["trace"] BY <1>3, <1>12, <3>1 DEF TraceIsTrue
    <3>2. CASE debugAt = "identity" /\ keptNotes'["trace"] = Unavailable BY <1>2, <1>4, <1>6, <1>12, <3>2
    <3> QED BY <1>12, <3>1, <3>2
  <2> QED BY <1>3, <1>12, <2>1 DEF TraceInOrder
<1> QED BY <1>7, <1>8, <1>9, <1>10, <1>11, <1>12, TraceIdle

(* A turn of an undisturbed reading keeps the room that the lines take.       *)
LEMMA RoomKept ==
  ASSUME DebugTypeOK, TraceInOrder, debugAt = "reading", WithinRoom(tracing, nativeFile),
         \/ ReadStops(tracing, nativeFile[tracing.at + 1]) \/ ReadGoesOn(tracing, nativeFile[tracing.at + 1])
  PROVE  WithinRoom(tracing', nativeFile)
<1>1. PICK t, u, file : t = tracing /\ u = tracing' /\ file = nativeFile OBVIOUS
<1>2. PICK line : line = file[t.at + 1] OBVIOUS
<1>3. /\ t.at \in Nat /\ t.read \in Nat /\ t.filled \in Nat /\ t.kept \in Seq(KeptLine)
      /\ u.at \in Nat /\ u.read \in Nat /\ u.filled \in Nat
  BY <1>1 DEF DebugTypeOK, TraceReading, ReadStops, ReadGoesOn
<1>4. /\ t.read = Cardinality(SourceUnits(file, t.at)) /\ t.read <= SourceRoom /\ t.at <= MaxTraceRecords
      /\ t.filled <= TraceRoom /\ (Len(t.kept) = t.at => t.filled = Cardinality(TraceUnits(file, t.at)))
  BY <1>1 DEF WithinRoom
<1>5. Len(t.kept) \in Nat /\ Len(t.kept) <= t.at
  <2>1. Len(t.kept) <= t.at BY <1>1 DEF TraceInOrder, ReadSoFar
  <2> HIDE DEF KeptLine
  <2> QED BY <1>3, <2>1
<1>6. /\ Cardinality(SourceUnits(file, t.at + 1)) = Cardinality(SourceUnits(file, t.at)) + LineRoom(line)
      /\ Cardinality(TraceUnits(file, t.at + 1)) = Cardinality(TraceUnits(file, t.at)) + KeptRoom(line)
      /\ LineRoom(line) \in 1..4 /\ KeptRoom(line) \in 1..4
  BY <1>2, <1>3, RoomCount
<1>7. MaxTraceRecords \in Nat /\ SourceRoom \in Nat /\ TraceRoom \in Nat BY DebugAssumption
<1>8. CASE ReadStops(t, line)
  <2>1. /\ u.kept = t.kept /\ u.filled = t.filled
        /\ \/ u.at = t.at /\ u.read = t.read
           \/ /\ t.at # MaxTraceRecords /\ t.read + LineRoom(line) <= SourceRoom
              /\ u.at = t.at + 1 /\ u.read = t.read + LineRoom(line)
    BY <1>1, <1>2, <1>8 DEF ReadStops, SameRest
  <2>2. CASE u.at = t.at /\ u.read = t.read
    <3>1. u.read = Cardinality(SourceUnits(file, u.at)) /\ u.read <= SourceRoom /\ u.at <= MaxTraceRecords BY <1>4, <2>2
    <3>2. u.filled <= TraceRoom /\ (Len(u.kept) = u.at => u.filled = Cardinality(TraceUnits(file, u.at)))
      BY <1>4, <2>1, <2>2
    <3>3. WithinRoom(u, file) BY <3>1, <3>2 DEF WithinRoom
    <3> QED BY <1>1, <3>3
  <2>3. CASE /\ t.at # MaxTraceRecords /\ t.read + LineRoom(line) <= SourceRoom
             /\ u.at = t.at + 1 /\ u.read = t.read + LineRoom(line)
    <3>1. u.at <= MaxTraceRecords /\ Len(u.kept) # u.at BY <1>3, <1>4, <1>5, <1>7, <2>1, <2>3
    <3>2. u.read = Cardinality(SourceUnits(file, u.at)) /\ u.read <= SourceRoom BY <1>4, <1>6, <2>3
    <3>3. u.filled <= TraceRoom BY <1>4, <2>1
    <3>4. WithinRoom(u, file) BY <3>1, <3>2, <3>3 DEF WithinRoom
    <3> QED BY <1>1, <3>4
  <2> QED BY <2>1, <2>2, <2>3
<1>9. CASE ReadGoesOn(t, line)
  <2>1. /\ t.at # MaxTraceRecords /\ u.at = t.at + 1 /\ u.read = t.read + LineRoom(line) /\ u.read <= SourceRoom
        /\ \/ u.kept = t.kept /\ u.filled = t.filled
           \/ /\ u.kept = Append(t.kept, line) /\ IsKept(line)
              /\ u.filled = t.filled + KeptRoom(line) /\ u.filled <= TraceRoom
    BY <1>1, <1>2, <1>9 DEF ReadGoesOn, SameRest
  <2>2. u.at <= MaxTraceRecords BY <1>3, <1>4, <1>7, <2>1
  <2>3. u.read = Cardinality(SourceUnits(file, u.at)) BY <1>4, <1>6, <2>1
  <2>4. CASE u.kept = t.kept /\ u.filled = t.filled
    <3>1. Len(u.kept) # u.at BY <1>3, <1>5, <2>1, <2>4
    <3>2. WithinRoom(u, file) BY <1>4, <2>1, <2>2, <2>3, <2>4, <3>1 DEF WithinRoom
    <3> QED BY <1>1, <3>2
  <2>5. CASE /\ u.kept = Append(t.kept, line) /\ IsKept(line)
             /\ u.filled = t.filled + KeptRoom(line) /\ u.filled <= TraceRoom
    <3>1. Len(u.kept) = Len(t.kept) + 1
      <4>1. line \in KeptLine BY <2>5 DEF IsKept
      <4> HIDE DEF KeptLine
      <4> QED BY <1>3, <2>5, <4>1
    <3>2. Len(u.kept) = u.at => u.filled = Cardinality(TraceUnits(file, u.at))
      BY SMTT(60), <1>3, <1>4, <1>5, <1>6, <2>1, <2>5, <3>1
    <3>3. WithinRoom(u, file) BY <2>1, <2>2, <2>3, <2>5, <3>2 DEF WithinRoom
    <3> QED BY <1>1, <3>3
  <2> QED BY <2>1, <2>4, <2>5
<1> QED BY <1>1, <1>2, <1>8, <1>9

(* An undisturbed reading of a whole session that fits ends with its end, and *)
(* any other one does not pass.                                               *)
LEMMA SoundIsRead ==
  ASSUME DebugTypeOK, TraceInOrder, debugAt = "reading", WithinRoom(tracing, nativeFile), Len(nativeFile) > 0,
         Sound(nativeFile) => ReadsOn(tracing, nativeFile)
  PROVE  LET line == nativeFile[tracing.at + 1] IN
         /\ ReadGoesOn(tracing, line) /\ Sound(nativeFile) => ReadsOn(tracing', nativeFile)
         /\ ReadStops(tracing, line) /\ Sound(nativeFile) => TracePassed(tracing')
         /\ ReadRefused(tracing, line) => ~Sound(nativeFile)
<1>1. PICK t, u, file : t = tracing /\ u = tracing' /\ file = nativeFile OBVIOUS
<1>2. PICK line : line = file[t.at + 1] OBVIOUS
<1>3. SUFFICES ASSUME Sound(file)
               PROVE  /\ ReadGoesOn(t, line) => ReadsOn(u, file)
                      /\ ReadStops(t, line) => TracePassed(u)
                      /\ ~ReadRefused(t, line)
  BY <1>1, <1>2
<1>4. PICK n : n = Len(file) OBVIOUS
<1>5. /\ t.at \in Nat /\ t.read \in Nat /\ t.filled \in Nat /\ t.kept \in Seq(KeptLine)
      /\ t.ended \in BOOLEAN /\ t.complete \in BOOLEAN /\ t.cutShort \in BOOLEAN
  BY <1>1 DEF DebugTypeOK, TraceReading
<1>6. n \in Nat /\ n > 0 /\ t.at <= n
  <2>1. file \in Seq(TraceLine) /\ t.at <= n BY <1>1, <1>4 DEF TraceInOrder, ReadSoFar, DebugTypeOK, Session
  <2> HIDE DEF TraceLine
  <2> QED BY <1>1, <1>4, <2>1
<1>7. ~t.cutShort /\ t.at = Len(t.kept) /\ (t.ended <=> t.at = n) /\ (t.complete <=> t.at = n)
  BY <1>1, <1>3, <1>4 DEF ReadsOn
<1>8. /\ \A i \in 1..n : file[i] \in KeptLine \ {"openEnd"} /\ (file[i] = "start" <=> i = 1) /\ (file[i] = "end" <=> i = n)
      /\ n <= MaxTraceRecords /\ (n < MaxTraceRecords => Cardinality(SourceUnits(file, n)) < SourceRoom)
      /\ Cardinality(SourceUnits(file, n)) <= SourceRoom /\ Cardinality(TraceUnits(file, n)) <= TraceRoom
  BY <1>3, <1>4 DEF Sound
<1>9. /\ t.read = Cardinality(SourceUnits(file, t.at)) /\ t.at <= MaxTraceRecords
      /\ t.filled = Cardinality(TraceUnits(file, t.at))
  BY <1>1, <1>7 DEF WithinRoom
<1>10. MaxTraceRecords \in Nat /\ SourceRoom \in Nat /\ TraceRoom \in Nat BY DebugAssumption
<1>11. t.at < n => /\ IsKept(line) /\ line # "openEnd" /\ (line = "start" <=> t.at = 0) /\ (line = "end" <=> t.at + 1 = n)
                   /\ ~t.ended /\ ~t.complete
  <2>1. SUFFICES ASSUME t.at < n
                 PROVE  /\ IsKept(line) /\ line # "openEnd" /\ (line = "start" <=> t.at = 0) /\ (line = "end" <=> t.at + 1 = n)
                        /\ ~t.ended /\ ~t.complete
    OBVIOUS
  <2>2. t.at + 1 \in 1..n BY <1>5, <1>6, <2>1
  <2>3. line \in KeptLine \ {"openEnd"} /\ (line = "start" <=> t.at + 1 = 1) /\ (line = "end" <=> t.at + 1 = n)
    BY <1>2, <1>8, <2>2
  <2> QED BY <1>5, <1>6, <1>7, <2>1, <2>3 DEF IsKept
<1>12. t.at < n => /\ t.read + LineRoom(line) <= Cardinality(SourceUnits(file, n)) /\ LineRoom(line) \in 1..4
                   /\ t.filled + KeptRoom(line) <= Cardinality(TraceUnits(file, n))
  <2>1. SUFFICES ASSUME t.at < n
                 PROVE  /\ t.read + LineRoom(line) <= Cardinality(SourceUnits(file, n)) /\ LineRoom(line) \in 1..4
                        /\ t.filled + KeptRoom(line) <= Cardinality(TraceUnits(file, n))
    OBVIOUS
  <2>2. t.at + 1 \in 0..n BY <1>5, <1>6, <2>1
  <2>3. /\ Cardinality(SourceUnits(file, t.at + 1)) <= Cardinality(SourceUnits(file, n))
        /\ Cardinality(TraceUnits(file, t.at + 1)) <= Cardinality(TraceUnits(file, n))
    BY <1>6, <2>2, RoomCount
  <2>4. /\ Cardinality(SourceUnits(file, t.at + 1)) = Cardinality(SourceUnits(file, t.at)) + LineRoom(line)
        /\ Cardinality(TraceUnits(file, t.at + 1)) = Cardinality(TraceUnits(file, t.at)) + KeptRoom(line)
        /\ LineRoom(line) \in 1..4
    BY <1>2, <1>5, RoomCount
  <2> QED BY <1>9, <2>3, <2>4
<1>13. /\ Cardinality(SourceUnits(file, n)) \in Nat /\ Cardinality(TraceUnits(file, n)) \in Nat
  BY <1>6, RoomCount
<1>14. ASSUME ReadGoesOn(t, line) PROVE ReadsOn(u, file)
  <2>1. /\ t.at < n /\ u.at = t.at + 1 /\ u.ended = (line \in {"end", "openEnd", "unfitEnd"})
        /\ u.cutShort = (t.cutShort \/ line = "openEnd")
        /\ \/ ~IsKept(line)
           \/ u.kept = Append(t.kept, line) /\ u.complete = u.ended
    BY <1>1, <1>2, <1>4, <1>14 DEF ReadGoesOn
  <2>2. line \in KeptLine /\ line # "unfitEnd" /\ line # "openEnd" /\ ~u.cutShort
    BY <1>7, <1>11, <2>1 DEF IsKept, KeptLine
  <2>3. u.kept = Append(t.kept, line) /\ u.complete = u.ended BY <1>11, <2>1
  <2>4. u.ended <=> u.at = n BY <1>11, <2>1, <2>2
  <2>5. Len(u.kept) = u.at
    <3> HIDE DEF KeptLine
    <3> QED BY <1>5, <1>7, <2>1, <2>2, <2>3
  <2> QED BY <1>4, <2>2, <2>3, <2>4, <2>5 DEF ReadsOn
<1>15. ASSUME ReadStops(t, line) PROVE TracePassed(u)
  <2>1. /\ u.kept = t.kept /\ u.complete = t.complete
        /\ \/ u = t /\ t.at = n
           \/ t.at = MaxTraceRecords /\ t.at # n
           \/ t.read >= SourceRoom /\ t.at # MaxTraceRecords
           \/ t.at < n /\ (line = "long" \/ t.read + LineRoom(line) > SourceRoom)
           \/ t.at < n /\ line \in {"garbled", "open"}
           \/ t.at < n /\ t.filled + KeptRoom(line) > TraceRoom
    BY <1>1, <1>2, <1>4, <1>15 DEF ReadStops, SameRest
  <2>2. ~(t.at = MaxTraceRecords /\ t.at # n) BY <1>5, <1>6, <1>8, <1>10
  <2>3. ~(t.read >= SourceRoom /\ t.at # MaxTraceRecords)
    <3>1. CASE t.at = n BY <1>5, <1>6, <1>8, <1>9, <1>10, <1>13, <3>1
    <3>2. CASE t.at < n BY <1>5, <1>6, <1>8, <1>10, <1>12, <1>13, <3>2
    <3> QED BY <1>5, <1>6, <3>1, <3>2
  <2>4. t.at < n => line \notin {"long", "garbled", "open"} BY <1>11 DEF IsKept, KeptLine
  <2>5. ~(t.at < n /\ t.read + LineRoom(line) > SourceRoom) BY SMTT(60), <1>5, <1>8, <1>10, <1>12, <1>13
  <2>6. ~(t.at < n /\ t.filled + KeptRoom(line) > TraceRoom)
    <3>1. KeptRoom(line) \in Nat BY DEF KeptRoom
    <3> QED BY <1>5, <1>8, <1>10, <1>12, <1>13, <3>1
  <2>7. u = t /\ t.at = n BY <2>1, <2>2, <2>3, <2>4, <2>5, <2>6
  <2> QED BY <1>7, <2>7 DEF TracePassed
<1>16. ~ReadRefused(t, line)
  <2>1. SUFFICES ASSUME t.at < n, line \in {"garbled", "open"} \/ RecordRefused(line, t.at + 1) PROVE FALSE
    BY <1>1, <1>4 DEF ReadRefused
  <2>2. line \notin {"garbled", "open", "foreign", "elsewhere"} BY <1>11, <2>1 DEF IsKept, KeptLine
  <2>3. RecordRefused(line, t.at + 1) BY <2>1, <2>2
  <2> QED BY <1>1, <1>5, <1>11, <2>1, <2>2, <2>3 DEF RecordRefused
<1> QED BY <1>14, <1>15, <1>16

LEMMA PassedIsSound ==
  ASSUME NEW t \in TraceReading, NEW file \in Seq(TraceLine), Len(file) > 0, ReadSoFar(t, file), ReadAll(t, file),
         WithinRoom(t, file), TracePassed(t)
  PROVE  Sound(file)
<1>1. t.complete /\ ~t.cutShort /\ t.at = Len(t.kept) /\ t.kept \in Seq(KeptLine) /\ t.at \in Nat
  BY DEF TracePassed, TraceReading
<1>2. t.at = Len(file) /\ (t.at < MaxTraceRecords => t.read < SourceRoom) BY <1>1 DEF ReadAll
<1>3. /\ \A m \in 1..t.at : t.kept[m] = file[m]
      /\ t.kept[Len(t.kept)] = "end"
      /\ \A i \in 1..Len(t.kept) : (t.kept[i] = "start" <=> i = 1) /\ (t.kept[i] = "end" => i = Len(t.kept))
      /\ \A i \in 1..Len(t.kept) : t.kept[i] # "openEnd"
  BY <1>1 DEF ReadSoFar
<1>4. \A i \in 1..t.at : t.kept[i] \in KeptLine
  <2> HIDE DEF KeptLine
  <2> QED BY <1>1
<1>5. \A i \in 1..t.at : file[i] \in KeptLine \ {"openEnd"} /\ (file[i] = "start" <=> i = 1) /\ (file[i] = "end" <=> i = t.at)
  BY <1>1, <1>3, <1>4
<1>6. /\ t.read = Cardinality(SourceUnits(file, t.at)) /\ t.read <= SourceRoom /\ t.at <= MaxTraceRecords
      /\ t.filled <= TraceRoom /\ t.filled = Cardinality(TraceUnits(file, t.at))
  BY <1>1 DEF WithinRoom
<1> QED BY <1>2, <1>5, <1>6 DEF Sound

(* Where nothing goes wrong, every count of mishaps stays where it is.        *)
LEMMA NoMishap ==
  ASSUME DebugTypeOK, TraceInOrder, DebugNext, mishaps' = 0
  PROVE  mishaps = 0 /\ ~SessionShifts
<1>1. mishaps \in Nat BY DEF DebugTypeOK
<1>2. SUFFICES mishaps' \in {mishaps, mishaps + 1} /\ (SessionShifts => mishaps' = mishaps + 1) BY <1>1
<1>3. SessionShifts => mishaps' = mishaps + 1 BY DEF SessionShifts
<1>4. StartSession \/ PreflightPasses \/ StageFails \/ PreviewEnds \/ ModelRuns \/ ReadRecord \/ CleanUp \/ Validate
      \/ Console => mishaps' = mishaps
  BY DEF StartSession, PreflightPasses, StageFails, PreviewEnds, ModelRuns, ReadRecord, CleanUp,
     Validate, Console
<1>5. CreateBundle \/ FinalJournal => mishaps' \in {mishaps, mishaps + 1} BY StageSteps DEF JournaledAs
<1>6. StagePasses => mishaps' \in {mishaps, mishaps + 1} BY DEF StagePasses, BindSession
<1>7. CaptureBootstrap \/ CaptureDiagram \/ CaptureReport => mishaps' \in {mishaps, mishaps + 1}
  BY FileSteps DEF CapturedAs, TornAs
<1>8. CaptureRaw => mishaps' \in {mishaps, mishaps + 1}
  <2>1. CaptureRaw => CapturedAs("raw", resultFile) \/ TornAs("raw", resultFile) BY FileSteps
  <2> QED BY <2>1 DEF CapturedAs, TornAs
<1>9. CaptureSafe => mishaps' \in {mishaps, mishaps + 1}
  <2>1. CaptureSafe => CapturedAs("safe", resultFile) \/ mishaps' = mishaps BY FileSteps
  <2> QED BY <2>1 DEF CapturedAs
<1>10. TraceOpens => mishaps' \in {mishaps, mishaps + 1} BY DEF TraceOpens
<1>11. TraceKept => mishaps' \in {mishaps, mishaps + 1} BY TraceSteps DEF KeptAs
<1>12. ReportResult \/ TellFailure => mishaps' \in {mishaps, mishaps + 1} BY SummarySteps DEF KeptAs
<1>13. PublishFailure => mishaps' \in {mishaps, mishaps + 1} BY SummarySteps DEF CapturedAs
<1>14. InterruptedReport => mishaps' \in {mishaps, mishaps + 1} BY SummarySteps DEF TornAs
<1> QED BY <1>3, <1>4, <1>5, <1>6, <1>7, <1>8, <1>9, <1>10, <1>11, <1>12, <1>13, <1>14
   DEF DebugNext

(* The home that was bound stays bound, and its trace is what was noted.      *)
PinnedPlaces == {"evidence", "bootstrap", "mcp-preflight", "preview", "model"}
LEMMA HomeKept ==
  ASSUME DebugTypeOK, DebugNext, mishaps' = mishaps, ~ReadRecord, ~TraceOpens, ~TraceKept
  PROVE  /\ pinned' = TRUE \/ (pinned' = pinned /\ (debugAt' \in PinnedPlaces => debugAt \in PinnedPlaces))
         /\ debugAt' \in {"clean", "validate"} => debugAt \in {"clean", "validate"}
<1>1. mishaps \in Nat BY DEF DebugTypeOK
<1>2. StagePasses => \/ pinned' = TRUE
                     \/ pinned' = pinned /\ (debugAt' \in PinnedPlaces => debugAt \in PinnedPlaces)
  <2> SUFFICES ASSUME StagePasses
               PROVE pinned' = TRUE \/ (pinned' = pinned /\ (debugAt' \in PinnedPlaces => debugAt \in PinnedPlaces))
    OBVIOUS
  <2>1. CASE debugAt = "identity" BY <1>1, <2>1 DEF StagePasses, BindSession
  <2>2. CASE debugAt # "identity"
    <3>1. pinned' = pinned /\ debugAt \in {"configuration", "evidence"} BY <2>2 DEF StagePasses
    <3>2. debugAt = "configuration" => debugAt' = "identity" BY NextStages DEF StagePasses
    <3> QED BY <3>1, <3>2 DEF PinnedPlaces
  <2> QED BY <2>1, <2>2
<1>3. StagePasses => debugAt' \notin {"clean", "validate"} BY NextStages DEF StagePasses
<1>4. CreateBundle \/ StartSession \/ CaptureBootstrap \/ PreflightPasses \/ PreviewEnds \/ ModelRuns \/ CaptureRaw
      \/ CaptureDiagram \/ CleanUp \/ ReportResult \/ CaptureReport \/ Console \/ TellFailure \/ PublishFailure
      \/ InterruptedReport \/ CaptureSafe \/ FinalJournal =>
        /\ pinned' = pinned /\ (debugAt' \in PinnedPlaces => debugAt \in PinnedPlaces)
        /\ debugAt' \in {"clean", "validate"} => debugAt \in {"clean", "validate"}
  BY DEF CreateBundle, StartSession, CaptureBootstrap, PreflightPasses, PreviewEnds, ModelRuns,
     CaptureRaw,
     CaptureDiagram, CleanUp, ReportResult, CaptureReport, Console, TellFailure, PublishFailure,
     InterruptedReport, CaptureSafe, FinalJournal, traceVars, PinnedPlaces
<1>5. StageFails => pinned' = pinned /\ debugAt' = "diagram" BY DEF StageFails, traceVars
<1>6. Validate => pinned' = pinned /\ debugAt' \in {"report", "tell"} BY Validated DEF Validate, traceVars
<1>7. SessionShifts => pinned' = pinned /\ debugAt' = debugAt BY DEF SessionShifts
<1> QED BY <1>2, <1>3, <1>4, <1>5, <1>6, <1>7 DEF DebugNext, PinnedPlaces

(* An undisturbed run.                                                        *)
LEMMA QuietKept ==
  ASSUME DebugInv, DebugNext
  PROVE  QuietInOrder'
<1>1. DebugTypeOK /\ NotesInOrder /\ ResultInOrder /\ TraceInOrder /\ QuietInOrder BY DEF DebugInv
<1>2. SUFFICES ASSUME mishaps' = 0 PROVE QuietInOrder' BY DEF QuietInOrder
<1>3. mishaps = 0 /\ ~SessionShifts BY <1>1, <1>2, NoMishap
<1>4. /\ ~shifted
      /\ debugAt \in PinnedPlaces \/ nativeFile # NoCopy => pinned
      /\ debugAt \in {"reading", "traced"} => WithinRoom(tracing, nativeFile)
      /\ nativeFile # NoCopy /\ nativeFile # <<>> =>
           /\ debugAt = "reading" /\ Sound(nativeFile) => ReadsOn(tracing, nativeFile)
           /\ debugAt = "traced" => (TracePassed(tracing) <=> Sound(nativeFile))
           /\ debugAt \in {"clean", "validate"} => (keptNotes["trace"].status = "passed" <=> Sound(nativeFile))
  BY <1>1, <1>3 DEF QuietInOrder, PinnedPlaces
<1>5. SUFFICES /\ ~shifted'
               /\ debugAt' \in PinnedPlaces \/ nativeFile' # NoCopy => pinned'
               /\ debugAt' \in {"reading", "traced"} => WithinRoom(tracing', nativeFile')
               /\ nativeFile' # NoCopy /\ nativeFile' # <<>> =>
                    /\ debugAt' = "reading" /\ Sound(nativeFile') => ReadsOn(tracing', nativeFile')
                    /\ debugAt' = "traced" => (TracePassed(tracing') <=> Sound(nativeFile'))
                    /\ debugAt' \in {"clean", "validate"} => (keptNotes'["trace"].status = "passed" <=> Sound(nativeFile'))
  BY DEF QuietInOrder, PinnedPlaces
<1>6. nativeFile # NoCopy /\ nativeFile # <<>> => nativeFile \in Seq(TraceLine) /\ Len(nativeFile) > 0
  <2>1. nativeFile # NoCopy => nativeFile \in Seq(TraceLine) BY <1>1 DEF DebugTypeOK, Session
  <2> HIDE DEF TraceLine
  <2> QED BY <2>1
<1>7. Unavailable.status = "unavailable" /\ Missing.status = "missing" BY DEF Unavailable, Missing
<1>8. CASE ModelRuns
  <2>1. UNCHANGED <<shifted, pinned>> /\ debugAt = "model" /\ debugAt' = "rawResult" BY <1>8 DEF ModelRuns
  <2> QED BY <1>4, <2>1 DEF PinnedPlaces
<1>9. CASE TraceOpens
  <2>1. UNCHANGED <<shifted, pinned, nativeFile>> /\ debugAt = "trace" /\ tracing = Untraced
    BY <1>1, <1>9 DEF TraceOpens, TraceInOrder
  <2>2. mishaps' = mishaps BY <1>2, <1>3
  <2>3. \/ ~pinned /\ debugAt' = "clean"
        \/ nativeFile = NoCopy /\ debugAt' = "clean"
        \/ debugAt' = "reading" /\ tracing' = tracing
    BY <1>3, <1>9, <2>2 DEF TraceOpens, TraceNoted
  <2>4. WithinRoom(Untraced, nativeFile)
    <3>1. Untraced.at = 0 /\ Untraced.read = 0 /\ Untraced.filled = 0 BY DEF Untraced
    <3>2. Cardinality(SourceUnits(nativeFile, 0)) = 0 /\ Cardinality(TraceUnits(nativeFile, 0)) = 0 BY RoomCount
    <3> QED BY <3>1, <3>2, DebugAssumption DEF WithinRoom
  <2>5. nativeFile # NoCopy /\ nativeFile # <<>> => ReadsOn(Untraced, nativeFile)
    <3>1. Untraced.at = 0 /\ ~Untraced.cutShort /\ Untraced.kept = <<>> /\ ~Untraced.ended /\ ~Untraced.complete /\ Len(<<>>) = 0
      BY DEF Untraced
    <3> QED BY <1>6, <3>1 DEF ReadsOn
  <2> QED BY <1>4, <2>1, <2>3, <2>4, <2>5 DEF PinnedPlaces
<1>10. CASE ReadRecord
  <2>1. debugAt = "reading" /\ UNCHANGED <<shifted, pinned, nativeFile>> BY <1>10 DEF ReadRecord
  <2>2. PICK line : line = nativeFile[tracing.at + 1] OBVIOUS
  <2>3. ReadStops(tracing, line) \/ ReadRefused(tracing, line) \/ ReadGoesOn(tracing, line)
    BY <1>1, <1>10, <2>2, TurnOfReading
  <2>4. nativeFile # NoCopy /\ nativeFile # <<>> =>
          /\ ReadGoesOn(tracing, line) /\ Sound(nativeFile) => ReadsOn(tracing', nativeFile)
          /\ ReadStops(tracing, line) /\ Sound(nativeFile) => TracePassed(tracing')
          /\ ReadRefused(tracing, line) => ~Sound(nativeFile)
    BY <1>1, <1>4, <1>6, <2>1, <2>2, SoundIsRead
  <2>5. CASE ReadStops(tracing, line)
    <3>1. debugAt' = "traced" /\ WithinRoom(tracing', nativeFile) BY <1>1, <1>4, <2>1, <2>2, <2>5, RoomKept DEF ReadStops
    <3>2. nativeFile # NoCopy /\ nativeFile # <<>> /\ TracePassed(tracing') => Sound(nativeFile)
      <4>1. ReadSoFar(tracing', nativeFile) /\ ReadAll(tracing', nativeFile) BY <1>1, <2>1, <2>2, <2>5, StopsInOrder
      <4>2. tracing' \in TraceReading BY <2>5 DEF ReadStops
      <4> QED BY <1>6, <3>1, <4>1, <4>2, PassedIsSound
    <3> QED BY <1>4, <2>1, <2>4, <2>5, <3>1, <3>2 DEF PinnedPlaces
  <2>6. CASE ReadRefused(tracing, line)
    <3>1. debugAt' = "clean" /\ keptNotes'["trace"] = Unavailable BY <1>1, <2>6, ArtifactWords DEF ReadRefused, DebugTypeOK
    <3> QED BY <1>4, <1>7, <2>1, <2>4, <2>6, <3>1 DEF PinnedPlaces
  <2>7. CASE ReadGoesOn(tracing, line)
    <3>1. debugAt' = "reading" /\ WithinRoom(tracing', nativeFile) BY <1>1, <1>4, <2>1, <2>2, <2>7, RoomKept DEF ReadGoesOn
    <3> QED BY <1>4, <2>1, <2>4, <2>7, <3>1 DEF PinnedPlaces
  <2> QED BY <2>3, <2>5, <2>6, <2>7
<1>11. CASE TraceKept
  <2>1. debugAt = "traced" /\ debugAt' = "clean" /\ UNCHANGED <<shifted, pinned, nativeFile>> BY <1>11 DEF TraceKept
  <2>2. PICK mark : /\ mark = (IF TracePassed(tracing) /\ ~shifted THEN "passed" ELSE "degraded")
                      /\ KeptAs("trace", tracing.kept, mark)
    BY <1>1, <1>11, TraceSteps
  <2>3. keptNotes'["trace"].status = mark BY <1>2, <1>3, <2>2 DEF KeptAs
  <2>4. mark = "passed" <=> TracePassed(tracing) BY <1>4, <2>2
  <2> QED BY <1>4, <2>1, <2>3, <2>4 DEF PinnedPlaces
<1>12. CASE /\ UNCHANGED <<tracing, shifted, nativeFile>> /\ bundle'["trace"] = bundle["trace"]
            /\ \/ keptNotes'["trace"] = keptNotes["trace"]
               \/ debugAt = "identity" /\ mishaps' = mishaps + 1 /\ keptNotes'["trace"] = Unavailable
            /\ debugAt \notin {"reading", "traced"} /\ debugAt' \notin {"reading", "traced"}
  <2>1. keptNotes'["trace"] = keptNotes["trace"] BY <1>2, <1>3, <1>12
  <2>2. (~ReadRecord /\ ~TraceOpens /\ ~TraceKept) \/ TraceOpens BY <1>12 DEF ReadRecord, TraceKept
  <2>3. CASE ~ReadRecord /\ ~TraceOpens /\ ~TraceKept
    <3>1. /\ pinned' = TRUE \/ (pinned' = pinned /\ (debugAt' \in PinnedPlaces => debugAt \in PinnedPlaces))
          /\ debugAt' \in {"clean", "validate"} => debugAt \in {"clean", "validate"}
      BY <1>1, <1>2, <1>3, <2>3, HomeKept
    <3> QED BY <1>4, <1>12, <2>1, <3>1
  <2> QED BY <1>9, <2>2, <2>3
<1> QED BY <1>3, <1>8, <1>9, <1>10, <1>11, <1>12, TraceIdle

(* A step of the debug bundle keeps its invariant.                            *)
LEMMA DebugStands ==
  ASSUME DebugInv, [DebugNext]_debugVars
  PROVE  DebugInv'
<1>1. CASE DebugNext
  BY <1>1, DebugTypeKept, JournalKept, NotesKept, ResultKept, OutcomeKept, TraceOrderKept,
     QuietKept DEF DebugInv
<1>2. CASE UNCHANGED debugVars
  <2>1. UNCHANGED <<debugAt, stageNow, outcomeNow, resultFile, told, admitted, observed, bundle, keptNotes, journal,
                    pinned, nativeFile, shifted, tracing, mishaps, torn>>
    BY <1>2 DEF debugVars
  <2>2. DebugTypeOK' BY <2>1 DEF DebugInv, DebugTypeOK
  <2>3. JournalInOrder' /\ NotesInOrder' BY <2>1 DEF DebugInv, JournalInOrder, NotesInOrder
  <2>4. ResultInOrder' BY <2>1 DEF DebugInv, ResultInOrder, RawIsOriginal
  <2>5. OutcomeInOrder'
    <3>1. \A s : PassedBehind(s)' = PassedBehind(s) BY <2>1 DEF PassedBehind
    <3> QED BY <2>1, <3>1 DEF DebugInv, OutcomeInOrder
  <2>6. TraceInOrder' BY <2>1 DEF DebugInv, TraceInOrder, TraceIsTrue
  <2>7. QuietInOrder' BY <2>1 DEF DebugInv, QuietInOrder
  <2> QED BY <2>2, <2>3, <2>4, <2>5, <2>6, <2>7 DEF DebugInv
<1> QED BY <1>1, <1>2

(* The invariant says everything the bundle promises.                         *)
LEMMA DebugInvSafe == DebugInv => DebugBundleSafe
<1> SUFFICES ASSUME DebugInv PROVE DebugBundleSafe OBVIOUS
<1>1. /\ DebugTypeOK /\ JournalInOrder /\ NotesInOrder /\ ResultInOrder /\ OutcomeInOrder /\ TraceInOrder /\ QuietInOrder
  BY DEF DebugInv
<1>2. JournalIsTrue
  <2>1. journal.complete => journal.notes = keptNotes BY <1>1 DEF JournalInOrder
  <2>2. debugAt = "closed" /\ mishaps = 0 => journal.complete BY <1>1 DEF JournalInOrder
  <2> QED BY <1>1, <2>1, <2>2 DEF JournalIsTrue, NotesInOrder
<1>3. RawIsOriginal BY <1>1 DEF ResultInOrder
<1>4. TraceIsTrue BY <1>1 DEF TraceInOrder
<1>5. QuietTraceIsPassed BY <1>1 DEF QuietInOrder, QuietTraceIsPassed
<1>6. FailureIsTold
  <2>1. journal.complete => journal.phases = observed BY <1>1 DEF JournalInOrder
  <2> QED BY <1>1, <2>1, StagesAre DEF OutcomeInOrder, FailureIsTold, Stages
<1>7. CleanupReached BY <1>1 DEF OutcomeInOrder, CleanupReached, BeforeClean, BeforeTrace, BeforeModel
<1> QED BY <1>2, <1>3, <1>4, <1>5, <1>6, <1>7 DEF DebugBundleSafe

(* For every trace OCR may leave, every end of its process and any number of  *)
(* mishaps, the journal, the raw result and the kept trace are true, a quiet  *)
(* trace counts as passed only when read to its end, a failure is told and    *)
(* the cleanup is always reached.                                             *)
THEOREM DebugHolds == DebugSpec => []DebugBundleSafe
<1>1. DebugInit => DebugInv BY DebugStarts
<1>2. DebugInv /\ [DebugNext]_debugVars => DebugInv' BY DebugStands
<1>3. DebugInv => DebugBundleSafe BY DebugInvSafe
<1> QED BY <1>1, <1>2, <1>3, PTL DEF DebugSpec

(* What a maintainer watches of a run is what happened: both observers keep   *)
(* their promises, for every number of phases, of messages and of trace       *)
(* records, every way OCR may end and any number of mishaps.                  *)
THEOREM ObserversHold == ProgressSpec /\ DebugSpec => []ObserversSafe
<1>1. ReviewProgressSafe /\ DebugBundleSafe => ObserversSafe BY DEF ObserversSafe
<1> QED BY <1>1, ProgressHolds, DebugHolds, PTL
=============================================================================
