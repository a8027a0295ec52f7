--------------------------- MODULE ReviewHandoff ---------------------------
(* What "ocr-ci post" (posting/workflow.py main) makes of the exit code, the *)
(* result and the private status that the review of its job left behind.     *)
(* Every GitLab job runs post once after its review, whatever the review's   *)
(* exit code; the jobs share a checkout and its status file, and were        *)
(* started for the same revision of one merge request.                       *)
EXTENDS ReviewRun

VARIABLE posted   \* what post put on the merge request for each job

handoffVars == <<vars, posted>>

Nothing == [kind |-> "nothing", by |-> NoJob]
Waiting == [kind |-> "waiting", by |-> NoJob]
Posted == {Waiting, Nothing} \cup [kind : {"review"} \cup StatusKind, by : Jobs \cup {Earlier}]

HandoffTypes == TypeOK /\ posted \in [Jobs -> Posted]

(* A result is posted with its receipt, which names the CI job; a result     *)
(* that is raw or marked private is refused.                                 *)
ResultPosted(j) == IF run[j].result = "final" THEN [kind |-> "review", by |-> j] ELSE Nothing

(* A note-capable status names the CI job of its review and is refused in    *)
(* another job; a terminal status carries only the merge request.            *)
StatusBound(j) == status.kind = "note" => status.by = j
StatusPosted(j) == IF status.kind \in {"terminal", "note"} /\ StatusBound(j)
                   THEN [kind |-> status.kind, by |-> status.by] ELSE Nothing

\* slip: exit code 75 is a failure like any other
HandedToLoser(j) == IF run[j].exit = "ok" THEN ResultPosted(j) ELSE StatusPosted(j)
(* Exit code 75 ends post before any private state is read; exit code 0      *)
(* reads the result; any other reads the status.                             *)
Handed(j) == CASE run[j].exit = "noHandoff" -> Nothing
               [] run[j].exit = "ok" -> ResultPosted(j)
               [] OTHER -> StatusPosted(j)

Post(j) == /\ At(j, "done") /\ j \notin Local /\ posted[j] = Waiting
           /\ posted' = [posted EXCEPT ![j] = Handed(j)]
           /\ UNCHANGED vars

HandoffInit == Init /\ posted = [j \in Jobs |-> Waiting]
Reviews == Next /\ UNCHANGED posted
HandoffNext == Reviews \/ \E j \in Jobs : Post(j)
HandoffSpec == HandoffInit /\ [][HandoffNext]_handoffVars

(* A started process takes its next step; OCR need not ever return, and post *)
(* need not ever be started.                                                 *)
Fairness == \A j \in Jobs : WF_handoffVars(Works(j) /\ UNCHANGED posted)
FairHandoffSpec == HandoffSpec /\ Fairness

-----------------------------------------------------------------------------

(* Only a review that succeeded as a whole is posted, from a session that is *)
(* gone, and never the result of another job.                                *)
OnlyWholeReviewsPosted ==
    \A j \in Jobs : posted[j].kind = "review" =>
        run[j].exit = "ok" /\ run[j].result = "final" /\ ~run[j].home

(* A note that says the review was not started is posted for a job only if   *)
(* that job's model never ran.                                               *)
NoteMeansNotStarted ==
    \A j \in Jobs : posted[j].kind = "note" => posted[j].by = j /\ ~run[j].ran

(* A job that did not claim the checkout posts nothing, whatever status the  *)
(* concurrent or the earlier run left there.                                 *)
LoserPostsNothing ==
    \A j \in Jobs : run[j].exit = "noHandoff" => posted[j] \in {Waiting, Nothing}

(* Every post speaks of its own job's run, and of the whole of it.           *)
PostsOwnRun == HandoffTypes /\ OnlyWholeReviewsPosted /\ NoteMeansNotStarted /\ LoserPostsNothing

-----------------------------------------------------------------------------
(* Why the properties of ReviewRun and of this module hold: what is true of   *)
(* one process, place by place, while the others move.                        *)
Unclaimed == {"start", "leaving", "done"}
Sessionless == {"start", "claimed", "options", "inputs", "identity", "outputs", "house"}
Finishes == {"restore", "after", "reporting", "leaving", "done"}
Unstarted == Sessionless \cup {"housed", "config", "policy", "collect", "enrich", "connect",
                               "bootstrap", "preview", "model"}

(* Between claiming and leaving the checkout is held, so nobody else writes  *)
(* its status or its private inputs.                                         *)
Holds(j) == run[j].at \notin Unclaimed => lock = j

(* The places from which on each private input is this run's own or absent.  *)
WithBootstrap == {"preview", "model", "ocr"}
WithContext == WithBootstrap \cup {"connect", "bootstrap"}
WithStore == WithContext \cup {"enrich"}
WithRules == WithStore \cup {"collect"}
WithoutOld == WithRules \cup {"identity", "outputs", "house", "housed", "config", "policy"}
Since(f) == CASE f = "bootstrap" -> WithBootstrap
              [] f = "context"   -> WithContext
              [] f = "store"     -> WithStore
              [] f = "rules"     -> WithRules
              [] OTHER           -> WithoutOld
OwnsPrepared(j) == \A f \in File : run[j].at \in Since(f) => files[f] \in {j, NoJob}

(* What the marks of a run say about how far it came.                        *)
Marks(j) ==
    /\ run[j].exit = "none" <=> ~At(j, "done")
    /\ run[j].at \in Unstarted => ~run[j].ran /\ run[j].code = "refused"
    /\ At(j, "ocr") \/ run[j].code = "ok" => run[j].ran
    /\ At(j, "after") \/ At(j, "reporting") => ~run[j].raising
    /\ run[j].at \notin Finishes => run[j].result # "final" /\ ~run[j].escaped
    /\ run[j].at \notin Finishes \cup {"validate"} \/ At(j, "reporting") => ~run[j].trouble

(* Before its session and after its cleanup a run has nothing private; one   *)
(* that was killed, or that passed its cleanup by, is not said to.           *)
Clean(j) == ~run[j].home /\ \A f \in File : files[f] # j
Tidy(j) == \/ run[j].at \in {"validate", "restore", "after", "reporting", "leaving"}
           \/ run[j].exit \in Code
Cleaned(j) ==
    /\ run[j].at \in Sessionless => Clean(j)
    /\ Tidy(j) /\ ~run[j].trouble /\ ~run[j].escaped /\ ~Kept(j) => Clean(j)

(* The only way to a verdict "ok" that is not taken back is a finalized      *)
(* result of a whole run.                                                    *)
Finished(j) ==
    /\ run[j].result = "final" => run[j].ran /\ ~run[j].trouble /\ Clean(j)
    /\ run[j].at \in {"restore", "after", "reporting"} /\ run[j].code = "ok" =>
         run[j].raising \/ run[j].trouble \/ run[j].result = Finalized(j)
    /\ run[j].exit = "ok" =>
         /\ run[j].ran /\ ~run[j].trouble /\ ~run[j].raising
         /\ run[j].result = Finalized(j)
         /\ j \in Local => run[j].report = "admitted"

(* A status speaks of a run whose model did not and will not start.          *)
StatusTrue(j) == status.by = j => run[j].at \notin Unstarted /\ ~run[j].ran

JobInv(j) == /\ Holds(j) /\ OwnsPrepared(j) /\ Marks(j)
             /\ Cleaned(j) /\ Finished(j) /\ StatusTrue(j)
ReviewInv == TypeOK /\ \A j \in Jobs : JobInv(j)

-----------------------------------------------------------------------------
(* What was posted for a job was posted after its review ended, and what the *)
(* review had done by then does not change.                                  *)
PostedTrue(j) ==
    /\ posted[j] # Waiting => At(j, "done")
    /\ posted[j].kind = "review" => run[j].exit = "ok" /\ run[j].result = "final"
    /\ posted[j].kind = "note" => posted[j].by = j /\ ~run[j].ran
    /\ run[j].exit = "noHandoff" => posted[j] \in {Waiting, Nothing}
HandoffInv == ReviewInv /\ posted \in [Jobs -> Posted] /\ \A j \in Jobs : PostedTrue(j)
=============================================================================
