----------------------------- MODULE ReviewRun -----------------------------
(* The life of "ocr-ci review" (review_runner.py): one process per job, all  *)
(* in one checkout, whose private directory .review-context holds one lock,  *)
(* one pre-execution status and the inputs of the model.  A run claims the   *)
(* lock, clears what an earlier run left, prepares the evidence in a private *)
(* session home, lets OCR preview and review, and cleans up, finalizes and   *)
(* reports in a finally block with the termination signals blocked.          *)
(* Every step may fail with the exception the code turns into an exit code;  *)
(* SIGINT and SIGTERM arrive at any point, and a process may die at any.     *)
EXTENDS Naturals, FiniteSets

CONSTANTS Jobs,        \* review processes that use the checkout
          Local,       \* the jobs started with --local; the others are GitLab jobs
          Preserving,  \* the jobs started with --preserve-private-artifacts
          Earlier,     \* stands for a run that used the checkout before
          NoJob,       \* nobody
          MaxSignals   \* bound: termination signals sent to the jobs

ASSUME RunAssumption == /\ Local \subseteq Jobs /\ Preserving \subseteq Jobs
                        /\ {Earlier, NoJob} \cap Jobs = {} /\ Earlier # NoJob
                        /\ MaxSignals \in Nat

VARIABLES lock,        \* who holds .review-run.lock
          status,      \* pre-execution-status.json: who wrote it, and of which kind
          files,       \* whose is each private input of the model
          run,         \* what each process knows
          signals      \* termination signals still to come

vars == <<lock, status, files, run, signals>>

File == {"store", "bootstrap", "rules", "context", "actions", "decisions"}
Owner == Jobs \cup {Earlier, NoJob}
(* What post makes of a status: "jobOnly" never reaches the merge request,   *)
(* "terminal" is posted for the merge request, "note" for one job's review.  *)
StatusKind == {"jobOnly", "terminal", "note"}
Status == [by : Jobs \cup {Earlier}, kind : StatusKind] \cup {[by |-> NoJob, kind |-> "none"]}
NoStatus == [by |-> NoJob, kind |-> "none"]

Body == {"config", "policy", "collect", "enrich", "connect", "bootstrap", "preview", "model",
         "ocr", "returned"}
Masked == {"cleanup", "validate", "restore"}
Place == {"start", "claimed", "options", "inputs", "identity", "outputs", "house", "housed"}
           \cup Body \cup {"unwind"} \cup Masked
           \cup {"after", "reporting", "leaving", "done"}
Code == {"ok", "refused", "ocrFailed"}
Exit == Code \cup {"none", "noHandoff", "killed"}
Result == {"absent", "old", "empty", "raw", "final", "private"}
Run == [at : Place, code : Code, raising : BOOLEAN, trouble : BOOLEAN, home : BOOLEAN,
        termination : {"default", "handled", "blocked"}, pending : BOOLEAN,
        result : Result, admitted : BOOLEAN, destination : BOOLEAN,
        report : {"none", "admitted", "failed"}, ran : BOOLEAN, escaped : BOOLEAN, exit : Exit]

TypeOK == /\ lock \in Jobs \cup {NoJob}
          /\ status \in Status
          /\ files \in [File -> Owner]
          /\ run \in [Jobs -> Run]
          /\ signals \in 0 .. MaxSignals

Fresh == [at |-> "start", code |-> "refused", raising |-> FALSE, trouble |-> FALSE,
          home |-> FALSE, termination |-> "default", pending |-> FALSE, result |-> "absent",
          admitted |-> FALSE, destination |-> FALSE, report |-> "none", ran |-> FALSE,
          escaped |-> FALSE, exit |-> "none"]

(* The checkout is new, or an earlier run left its status there, or was      *)
(* killed and left its private inputs; a result path may be one used before. *)
Init == /\ lock = NoJob
        /\ status \in {NoStatus} \cup [by : {Earlier}, kind : StatusKind]
        /\ files \in {[f \in File |-> NoJob], [f \in File |-> Earlier]}
        /\ \E r \in {"absent", "old"} : run = [j \in Jobs |-> [Fresh EXCEPT !.result = r]]
        /\ signals = MaxSignals

At(j, place) == run[j].at = place
Moves(j, place) == run' = [run EXCEPT ![j].at = place]
(* An exception on the way to the finally block, or out of the whole run.    *)
Raises(j) == run' = [run EXCEPT ![j].at = "unwind", ![j].raising = TRUE]
Refuses(j) == run' = [run EXCEPT ![j].at = "leaving", ![j].raising = TRUE]
\* slip: the descriptor of the lock stays open
KeepsLock(j) == UNCHANGED lock
Releases(j) == lock' = IF lock = j THEN NoJob ELSE lock
Ends(j, e) == /\ run' = [run EXCEPT ![j].at = "done", ![j].exit = e]
              /\ Releases(j)

-----------------------------------------------------------------------------
(* Claiming the checkout.                                                    *)

(* A bad diagram mode, or local context inputs, before any private file.     *)
RefusedUnclaimed(j) ==
    /\ At(j, "start")
    /\ Refuses(j)
    /\ UNCHANGED <<lock, status, files, signals>>

Claim(j) ==
    /\ At(j, "start") /\ lock = NoJob
    /\ lock' = j
    /\ Moves(j, "claimed")
    /\ UNCHANGED <<status, files, signals>>

(* Somebody else holds the lock, or the lock file is unsafe: no handoff.     *)
CannotClaim(j) ==
    /\ At(j, "start")
    /\ Ends(j, "noHandoff")
    /\ UNCHANGED <<status, files, signals>>

ClearStatus(j) ==
    /\ At(j, "claimed")
    /\ status' = NoStatus
    /\ Moves(j, "options")
    /\ UNCHANGED <<lock, files, signals>>

ClearStatusFails(j) ==
    /\ At(j, "claimed")
    /\ Ends(j, "noHandoff")
    /\ UNCHANGED <<status, files, signals>>

(* Local options, report destination, debug directory, DLP and progress      *)
(* settings.  Once the report destination is known a failure is reported     *)
(* there.                                                                    *)
Options(j) ==
    /\ At(j, "options")
    /\ run' = [run EXCEPT ![j].at = "inputs", ![j].destination = j \in Local]
    /\ UNCHANGED <<lock, status, files, signals>>

OptionsRefused(j) ==
    /\ At(j, "options")
    /\ \E known \in {FALSE, (j \in Local)} :
         run' = [run EXCEPT ![j].at = "leaving", ![j].raising = TRUE, ![j].destination = known]
    /\ UNCHANGED <<lock, status, files, signals>>

-----------------------------------------------------------------------------
(* Before the session home exists: nothing to clean up yet.                  *)

StaleActions == {"actions"}  \* slip: the decisions of a preserved session stay
Stale == {"actions", "decisions"}
ClearInputs(j) ==
    /\ At(j, "inputs")
    /\ files' = [f \in File |-> IF f \in Stale THEN NoJob ELSE files[f]]
    /\ Moves(j, "identity")
    /\ UNCHANGED <<lock, status, signals>>

ClearInputsFails(j) ==
    /\ At(j, "inputs")
    /\ \E gone \in {{}, {"actions"}} :
         files' = [f \in File |-> IF f \in gone THEN NoJob ELSE files[f]]
    /\ Refuses(j)
    /\ UNCHANGED <<lock, status, signals>>

(* The review refs resolve, and a GitLab job has its merge request.          *)
Identity(j) ==
    /\ At(j, "identity")
    /\ Moves(j, "outputs")
    /\ UNCHANGED <<lock, status, files, signals>>

IdentityFails(j) ==
    /\ At(j, "identity")
    /\ \/ UNCHANGED status
       \/ j \notin Local /\ status' = [by |-> j, kind |-> "jobOnly"]
    /\ Refuses(j)
    /\ UNCHANGED <<lock, files, signals>>

(* Whatever an earlier run left at the result path is gone before the        *)
(* preview.                                                                  *)
PrepareOutputs(j) ==
    /\ At(j, "outputs")
    /\ run' = [run EXCEPT ![j].at = "house", ![j].result = "empty"]
    /\ UNCHANGED <<lock, status, files, signals>>

OutputsFail(j) ==
    /\ At(j, "outputs")
    /\ Refuses(j)
    /\ UNCHANGED <<lock, status, files, signals>>

SessionHome(j) ==
    /\ At(j, "house")
    /\ run' = [run EXCEPT ![j].at = "housed", ![j].home = TRUE]
    /\ UNCHANGED <<lock, status, files, signals>>

InstallHandlers(j) ==
    /\ At(j, "housed")
    /\ run' = [run EXCEPT ![j].at = "config", ![j].termination = "handled"]
    /\ UNCHANGED <<lock, status, files, signals>>

-----------------------------------------------------------------------------
(* Inside the try block.                                                     *)

Writes(f, j) == files' = [files EXCEPT ![f] = j]

Configure(j) ==
    /\ At(j, "config")
    /\ Moves(j, "policy")
    /\ UNCHANGED <<lock, status, files, signals>>

(* The policy context: rules of the captured policy commit, or none.  Asking *)
(* to preserve artifacts of a GitLab review is refused right after.          *)
PolicyContext(j) ==
    /\ At(j, "policy")
    /\ \E rules \in {j, NoJob} : Writes("rules", rules)
    /\ IF j \in Preserving \ Local THEN Raises(j) ELSE Moves(j, "collect")
    /\ UNCHANGED <<lock, status, signals>>

(* The provider says why there will be no review, for a GitLab job only.     *)
PolicyRefuses(j) ==
    /\ At(j, "policy") /\ j \notin Local
    /\ \E kind \in StatusKind : status' = [by |-> j, kind |-> kind]
    /\ Raises(j)
    /\ UNCHANGED <<lock, files, signals>>

CollectEvidence(j) ==
    /\ At(j, "collect")
    /\ Writes("store", j)
    /\ Moves(j, "enrich")
    /\ UNCHANGED <<lock, status, signals>>

(* Enriched context is acquired for a GitLab review; any other mode removes  *)
(* the file.                                                                 *)
Enrich(j) ==
    /\ At(j, "enrich")
    /\ \E context \in {NoJob} \cup ({j} \ Local) : Writes("context", context)
    /\ Moves(j, "connect")
    /\ UNCHANGED <<lock, status, signals>>

StartGateway(j) ==
    /\ At(j, "connect")
    /\ Moves(j, "bootstrap")
    /\ UNCHANGED <<lock, status, files, signals>>

Bootstrap(j) ==
    /\ At(j, "bootstrap")
    /\ Writes("bootstrap", j)
    /\ Moves(j, "preview")
    /\ UNCHANGED <<lock, status, signals>>

(* Any other exception of the try block, the preview's included.             *)
BodyFails(j) ==
    /\ run[j].at \in Body \ {"returned"}
    /\ Raises(j)
    /\ UNCHANGED <<lock, status, files, signals>>

(* OCR's preview accepts the background and selects files.                   *)
PreviewAccepts(j) ==
    /\ At(j, "preview")
    /\ Moves(j, "model")
    /\ UNCHANGED <<lock, status, files, signals>>

(* A changed gitlink, a rejected or unclassified background, or no selected  *)
(* file: the model does not run; a GitLab job says so in a status.           *)
PreviewStops(j) ==
    /\ At(j, "preview")
    /\ status' = IF j \in Local THEN status ELSE [by |-> j, kind |-> "note"]
    /\ run' = [run EXCEPT ![j].at = "returned", ![j].code = "refused"]
    /\ UNCHANGED <<lock, files, signals>>

RunModel(j) ==
    /\ At(j, "model")
    /\ run' = [run EXCEPT ![j].at = "ocr", ![j].ran = TRUE, ![j].result = "raw"]
    /\ UNCHANGED <<lock, status, files, signals>>

(* The evidence server of this OCR process counts an action.                 *)
EvidenceUsed(j) ==
    /\ At(j, "ocr") /\ files["actions"] # j
    /\ Writes("actions", j)
    /\ UNCHANGED <<lock, status, run, signals>>

OcrReturns(j) ==
    /\ At(j, "ocr")
    /\ \E c \in {"ok", "ocrFailed"} :
         run' = [run EXCEPT ![j].at = "returned", ![j].code = c]
    /\ UNCHANGED <<lock, status, files, signals>>

EnterFinally(j) ==
    /\ At(j, "returned")
    /\ Moves(j, "unwind")
    /\ UNCHANGED <<lock, status, files, signals>>

-----------------------------------------------------------------------------
(* The finally block.                                                        *)

BlockSignals(j) ==
    /\ At(j, "unwind")
    /\ run' = [run EXCEPT ![j].at = "cleanup", ![j].termination = "blocked"]
    /\ UNCHANGED <<lock, status, files, signals>>

(* A preserved session is kept; only a local job is authorized to.           *)
Kept(j) == j \in Preserving \cap Local

EphemeralBefore == File \ {"rules"}  \* slip: a new file missing from the list
(* What an ordinary run removes.                                             *)
Ephemeral == File

(* The gateway is closed, the action receipt is read, and the private inputs *)
(* and the session home are removed, unless a removal fails.  Each failure   *)
(* is remembered as cleanup_error and the removals go on.                    *)
Cleanup(j) ==
    /\ At(j, "cleanup")
    /\ \E gatewayLeft \in BOOLEAN, left \in {{}} \cup {{f} : f \in File}, homeLeft \in BOOLEAN :
         /\ Kept(j) => left = {} /\ ~homeLeft
         /\ left \subseteq {f \in Ephemeral : files[f] # NoJob}
         /\ files' = [f \in File |-> IF Kept(j) \/ f \in left \/ f \notin Ephemeral
                                    THEN files[f] ELSE NoJob]
         /\ run' = [run EXCEPT ![j].at = "validate",
                               ![j].home = homeLeft \/ Kept(j),
                               ![j].trouble = gatewayLeft \/ left # {} \/ homeLeft]
    /\ UNCHANGED <<lock, status, signals>>

Discarded == {"absent", "raw"}   \* the result is unlinked, if unlink works
Finalizable(j) == ~run[j].trouble /\ run[j].code = "ok"

(* The result is validated, projected and replaced in one atomic step; a     *)
(* local run admits its report.  A kept session gets no postable result.     *)
Finalized(j) == IF Kept(j) THEN "private" ELSE "final"
Finalize(j) ==
    /\ At(j, "validate") /\ Finalizable(j)
    /\ run' = [run EXCEPT ![j].at = "restore", ![j].result = Finalized(j),
                          ![j].admitted = j \in Local]
    /\ files' = IF Kept(j) THEN [files EXCEPT !["decisions"] = j] ELSE files
    /\ UNCHANGED <<lock, status, signals>>

(* Drifted gitlinks, rejected evidence use, a malformed result.              *)
FinalizeFails(j) ==
    /\ At(j, "validate") /\ Finalizable(j)
    /\ \E r \in Discarded \cup (IF Kept(j) THEN {"private"} ELSE {}) :
         run' = [run EXCEPT ![j].at = "restore", ![j].result = r, ![j].raising = TRUE]
    /\ UNCHANGED <<lock, status, files, signals>>

(* The value-free decisions of a kept session are written last.              *)
DecisionsFail(j) ==
    /\ At(j, "validate") /\ Finalizable(j) /\ Kept(j)
    /\ run' = [run EXCEPT ![j].at = "restore", ![j].result = "private",
                          ![j].admitted = TRUE, ![j].raising = TRUE]
    /\ UNCHANGED <<lock, status, files, signals>>

(* Nothing to finalize; a kept session marks its result as private, or        *)
(* unlinks it when there is no result to mark.                               *)
Unfinalized(j) ==
    {run[j].result} \cup (IF Kept(j) /\ ~run[j].trouble
                        THEN {"absent"} \cup (IF run[j].ran THEN {"private"} ELSE {})
                        ELSE {})
NotFinalized(j) ==
    /\ At(j, "validate") /\ ~Finalizable(j)
    /\ \E r \in Unfinalized(j) :
         run' = [run EXCEPT ![j].at = "restore", ![j].result = r]
    /\ UNCHANGED <<lock, status, files, signals>>

(* The old handlers first, then the old mask.                                *)
Restore(j) ==
    /\ At(j, "restore") /\ ~run[j].pending
    /\ run' = [run EXCEPT ![j].termination = "default",
                          ![j].at = IF run[j].raising THEN "leaving" ELSE "after"]
    /\ UNCHANGED <<lock, status, files, signals>>

(* A signal that waited is delivered now: SIGTERM to the default action,     *)
(* SIGINT as a KeyboardInterrupt, which no except clause of the run takes.   *)
RestoreDelivers(j) ==
    /\ At(j, "restore") /\ run[j].pending
    /\ Ends(j, "killed")
    /\ UNCHANGED <<status, files, signals>>

-----------------------------------------------------------------------------
(* After the finally block.                                                  *)

(* A run that could not clean up hands nothing over.                         *)
CleanupVerdict(j) ==
    /\ At(j, "after")
    /\ IF run[j].trouble
       THEN \E r \in {"absent", run[j].result} :
              run' = [run EXCEPT ![j].at = "leaving", ![j].raising = TRUE, ![j].result = r]
       ELSE Moves(j, "reporting")
    /\ UNCHANGED <<lock, status, files, signals>>

(* A local run publishes its report, the admitted one or one of the failure. *)
Verdict(j) == IF run[j].code = "ok" THEN "admitted" ELSE "failed"
\* slip: a delivered report counts as a success
ReportDelivered(j) ==
    /\ At(j, "reporting") /\ j \in Local
    /\ run' = [run EXCEPT ![j].report = Verdict(j), ![j].at = "done", ![j].exit = "ok"]
    /\ Releases(j)
    /\ UNCHANGED <<status, files, signals>>
Report(j) ==
    /\ At(j, "reporting") /\ j \in Local
    /\ run[j].code = "ok" => run[j].admitted
    /\ \E delivered \in BOOLEAN :
         /\ run' = [run EXCEPT ![j].report = Verdict(j), ![j].at = "done",
                               ![j].exit = IF delivered THEN run[j].code ELSE "refused"]
         /\ Releases(j)
    /\ UNCHANGED <<status, files, signals>>

ReportFails(j) ==
    /\ At(j, "reporting") /\ j \in Local
    /\ Ends(j, "refused")
    /\ UNCHANGED <<status, files, signals>>

Return(j) ==
    /\ At(j, "reporting") /\ j \notin Local
    /\ Ends(j, run[j].code)
    /\ UNCHANGED <<status, files, signals>>

(* The except clause: a local run reports the failure, if it can; the lock   *)
(* is released last.                                                         *)
Leave(j) ==
    /\ At(j, "leaving")
    /\ \E report \in {run[j].report} \cup (IF run[j].destination THEN {"failed"} ELSE {}) :
         /\ run' = [run EXCEPT ![j].report = report, ![j].at = "done", ![j].exit = "refused"]
         /\ Releases(j)
    /\ UNCHANGED <<status, files, signals>>

-----------------------------------------------------------------------------
(* Termination.                                                              *)

(* A handled signal raises in the try block; OCR is killed by the unwinding  *)
(* of subprocess.run.  In the finally block, before the signals are blocked, *)
(* it raises past the cleanup.                                               *)
Interrupt(j) ==
    /\ signals > 0 /\ run[j].termination = "handled"
    /\ signals' = signals - 1
    /\ \/ run[j].at \in Body /\ Raises(j)
       \/ /\ At(j, "unwind")
          /\ run' = [run EXCEPT ![j].at = "leaving", ![j].raising = TRUE, ![j].escaped = TRUE]
    /\ UNCHANGED <<lock, status, files>>

InterruptBlocked(j) ==
    /\ signals > 0 /\ run[j].termination = "blocked"
    /\ signals' = signals - 1
    /\ run' = [run EXCEPT ![j].pending = TRUE]
    /\ UNCHANGED <<lock, status, files>>

(* SIGKILL at any point, or a signal where none is handled: the kernel frees *)
(* the lock, the files stay.                                                 *)
Dies(j) ==
    /\ ~At(j, "done")
    /\ Ends(j, "killed")
    /\ UNCHANGED <<status, files, signals>>

Claiming(j) == \/ RefusedUnclaimed(j) \/ Claim(j) \/ CannotClaim(j)
               \/ ClearStatus(j) \/ ClearStatusFails(j)
               \/ Options(j) \/ OptionsRefused(j)
Preparing(j) == \/ ClearInputs(j) \/ ClearInputsFails(j) \/ Identity(j) \/ IdentityFails(j)
                \/ PrepareOutputs(j) \/ OutputsFail(j) \/ SessionHome(j) \/ InstallHandlers(j)
Trying(j) == \/ Configure(j) \/ PolicyContext(j) \/ PolicyRefuses(j) \/ CollectEvidence(j)
             \/ Enrich(j) \/ StartGateway(j) \/ Bootstrap(j) \/ BodyFails(j)
             \/ PreviewAccepts(j) \/ PreviewStops(j) \/ RunModel(j) \/ EvidenceUsed(j)
             \/ EnterFinally(j)
Finishing(j) == \/ BlockSignals(j) \/ Cleanup(j) \/ Finalize(j) \/ FinalizeFails(j)
                \/ DecisionsFail(j) \/ NotFinalized(j) \/ Restore(j) \/ RestoreDelivers(j)
                \/ CleanupVerdict(j) \/ Report(j) \/ ReportFails(j) \/ Return(j) \/ Leave(j)
Works(j) == Claiming(j) \/ Preparing(j) \/ Trying(j) \/ Finishing(j)
Terminated(j) == Interrupt(j) \/ InterruptBlocked(j) \/ Dies(j)

Next == \E j \in Jobs : Works(j) \/ OcrReturns(j) \/ Terminated(j)

Spec == Init /\ [][Next]_vars

-----------------------------------------------------------------------------
(* What the runs promise.                                                    *)

(* While OCR reviews, every private input it could open was prepared by this *)
(* very run: nothing of a killed, failed or preserved earlier run, and       *)
(* nothing of a concurrent one.                                              *)
ModelSeesOwnInputs ==
    \A j \in Jobs : run[j].at \in {"model", "ocr"} =>
        \A f \in File : files[f] \in {j, NoJob}

(* A result that may be posted exists only after the private session of its  *)
(* run is gone: no session home, no private input, no failed removal.        *)
PostableIsClean ==
    \A j \in Jobs : run[j].result = "final" =>
        /\ run[j].ran /\ ~run[j].home /\ ~run[j].trouble
        /\ \A f \in File : files[f] # j

(* A run that ends by itself after it had a session leaves nothing private   *)
(* behind, interrupted or not, unless it was told to keep it, or a removal   *)
(* failed (which it reports), or a signal took it past the cleanup.          *)
EndsClean ==
    \A j \in Jobs :
        run[j].exit \in Code /\ ~run[j].trouble /\ ~run[j].escaped /\ ~Kept(j) =>
            /\ ~run[j].home
            /\ \A f \in File : files[f] # j

(* Exit code 0 vouches for the whole run: the model ran, nothing failed on   *)
(* the way out, a GitLab job has its finalized result and a local run its    *)
(* admitted report.                                                          *)
SuccessIsWhole ==
    \A j \in Jobs : run[j].exit = "ok" =>
        /\ run[j].ran /\ ~run[j].trouble /\ ~run[j].raising
        /\ run[j].result = Finalized(j)
        /\ j \in Local => run[j].report = "admitted"

(* The two marks a caller goes by, the result file and the exit code, agree  *)
(* with what the run did.                                                    *)
ResultIsTrue == PostableIsClean /\ SuccessIsWhole

(* The promise of _install_termination_handlers and _block_termination_      *)
(* signals: a termination signal unwinds through the private cleanup.        *)
InterruptedRunsCleanUp ==
    \A j \in Jobs : run[j].exit \in Code /\ ~run[j].trouble /\ ~Kept(j) => ~run[j].home

(* Whoever claims the checkout gives it back, and an interrupted run ends    *)
(* although OCR would have gone on.                                          *)
CheckoutComesFree ==
    \A j \in Jobs : run[j].raising ~> (lock # j /\ At(j, "done"))
=============================================================================
