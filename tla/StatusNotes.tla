---------------------------- MODULE StatusNotes ----------------------------
(***************************************************************************)
(* The notes a posting job writes when no review ran: a pre-execution       *)
(* status is explained on the merge request, and only a status note is ever *)
(* replaced (post_pre_execution_status and                                  *)
(* post_terminal_merge_request_status of posting/workflow.py).  Each GitLab *)
(* call is one step; people close, reopen, merge and push meanwhile, and    *)
(* jobs of several pipelines may overlap.                                   *)
(***************************************************************************)
EXTENDS Integers, FiniteSets

CONSTANTS
  StatusJob,       \* posting jobs of one merge request
  Before,          \* author of the setup note that stands already
  StatusPlans,     \* what the jobs are asked to post: functions [StatusJob -> StatusPlan]
  MaxStatusFaults  \* bound: lost or rejected answers and unavailable reads

(* Reasons of a status; "advisory" stands for the gitlink and unclassified   *)
(* preview reasons, "silent" for the two that never write a note.            *)
Reason == {"silent", "terminal", "advisory", "noReviewable", "background", "setup"}
StatusPlan == [reason: Reason, draft: BOOLEAN, strict: BOOLEAN]

ASSUME StatusAssumption ==
  /\ Before \notin StatusJob
  /\ StatusPlans \subseteq [StatusJob -> StatusPlan]
  /\ MaxStatusFaults \in Nat

(* A note has one id as a draft and another once it is visible.              *)
StatusNote == {"draft", "live"} \X (StatusJob \cup {Before}) \X {"setup", "terminal", "advice"}
Visible(n) == <<"live", n[2], n[3]>>
Terminal == {"closed", "merged"}

VARIABLES
  noteBoard,         \* status notes on the merge request
  named,         \* lifecycle state each terminal note names, by its author
  mrState, headMoved, policyMoved,   \* the merge request, against the jobs' identity
  statusFaults,
  statusPlan, step,
  ownNote,       \* PostingTransaction: the note the provider confirmed
  listed,        \* earlier setup or terminal notes collected before writing
  inCleanup,
  readState,     \* lifecycle state read first: the one the terminal note is to name
  upserted,      \* the terminal note the write confirmed
  statusExit,
  (* history *)
  lateWrites, overlapped

mergeRequest == <<mrState, headMoved, policyMoved>>
statusHistory == <<lateWrites, overlapped>>
statusVars == <<noteBoard, named, mergeRequest, statusFaults, statusPlan, step, ownNote, listed,
                inCleanup, readState, upserted, statusExit, statusHistory>>

(* parse_merge_request_lifecycle answers only for the head the job is about. *)
BoundToHead == ~headMoved

StatusRunning(j) == step[j] \notin {"idle", "done"}

-----------------------------------------------------------------------------
StatusFault == statusFaults < MaxStatusFaults /\ statusFaults' = statusFaults + 1
StatusReply(a) == IF a = "ok" THEN UNCHANGED statusFaults ELSE StatusFault

Move(j, where) == step' = [step EXCEPT ![j] = where] /\ UNCHANGED statusExit
Leave(j, code) ==
  /\ step' = [step EXCEPT ![j] = "done"]
  /\ statusExit' = [statusExit EXCEPT ![j] = code]
StrictExit(j) == IF statusPlan[j].strict THEN 1 ELSE 0

(* pre_execution_status_fresh_or_exit: the identity and the lifecycle, and   *)
(* for a pending rules path the exact policy commit.                         *)
ExactPolicy(j) == statusPlan[j].reason = "setup"
StatusCurrent(j) ==
  ~headMoved /\ mrState = "opened" /\ (ExactPolicy(j) => ~policyMoved)

(* a closed merge request may be reopened; these changes are for good        *)
GoneForGood(j) == headMoved \/ mrState = "merged" \/ (ExactPolicy(j) /\ policyMoved)
StatusWrite(j) ==
  lateWrites' = [lateWrites EXCEPT ![j] = IF GoneForGood(j) THEN @ + 1 ELSE @]

(* current_or_rollback: the new note is taken back only while it is certain  *)
(* that nobody relies on it, before an old note may be gone or a draft was   *)
(* published.                                                                *)
RollbackAlways(j) == TRUE                               \* slip: old notes may be gone
TakesBack(j) == ~inCleanup[j] /\ ~(step[j] = "prune" /\ statusPlan[j].draft)
StatusStale(j) ==
  IF ownNote[j] # {} /\ TakesBack(j)
  THEN step' = [step EXCEPT ![j] = "undo"] /\ statusExit' = [statusExit EXCEPT ![j] = 1]
  ELSE Leave(j, 1)

-----------------------------------------------------------------------------
(* People and pushes                                                         *)
MergeRequestMoves ==
  /\ \/ mrState = "opened" /\ mrState' \in Terminal /\ UNCHANGED <<headMoved, policyMoved>>
     \/ mrState = "closed" /\ mrState' = "opened" /\ UNCHANGED <<headMoved, policyMoved>>
     \/ mrState # "merged" /\ ~headMoved /\ headMoved' = TRUE /\ UNCHANGED <<mrState, policyMoved>>
     \/ ~policyMoved /\ policyMoved' = TRUE /\ UNCHANGED <<mrState, headMoved>>
  /\ UNCHANGED <<noteBoard, named, statusFaults, statusPlan, step, ownNote, listed, inCleanup,
                 readState, upserted, statusExit, statusHistory>>

(* post_pre_execution_status dispatches on the reason; the silent reasons    *)
(* only explain themselves in the job's log.                                 *)
StatusStart(j) ==
  /\ step[j] = "idle"
  /\ CASE statusPlan[j].reason = "silent"   -> Leave(j, 1)
       [] statusPlan[j].reason = "terminal" -> Move(j, "termLife")
       [] OTHER                             -> Move(j, "fresh")
  /\ overlapped' = (overlapped \/ \E k \in StatusJob : StatusRunning(k))
  /\ UNCHANGED <<noteBoard, named, mergeRequest, statusFaults, statusPlan, ownNote, listed,
                 inCleanup, readState, upserted, lateWrites>>

(* Freshness is read first, before each write and before each deletion; a    *)
(* read that fails counts as stale.                                          *)
AfterCheck(j) ==
  CASE step[j] = "fresh"   -> IF statusPlan[j].reason = "noReviewable" THEN "coverage" ELSE "lifecycle"
    [] step[j] = "prepost" -> "post"
    [] step[j] = "final"   -> IF statusPlan[j].draft THEN "publish" ELSE "prune"
    [] step[j] = "prune"   -> "delete"

StatusCheck(j) ==
  /\ step[j] \in {"fresh", "prepost", "final", "prune"}
  /\ step[j] = "prune" => listed[j] # {}
  /\ \/ StatusCurrent(j) /\ UNCHANGED statusFaults /\ Move(j, AfterCheck(j))
     \/ ~StatusCurrent(j) /\ UNCHANGED statusFaults /\ StatusStale(j)
     \/ StatusFault /\ StatusStale(j)
  /\ UNCHANGED <<noteBoard, named, mergeRequest, statusPlan, ownNote, listed, inCleanup,
                 readState, upserted, statusHistory>>

(* verified_no_model_repository_coverage reads the repository again.         *)
VerifyNoModelCoverage(j) ==
  /\ step[j] = "coverage"
  /\ Move(j, "lifecycle") \/ Leave(j, 1)
  /\ UNCHANGED <<noteBoard, named, mergeRequest, statusFaults, statusPlan, ownNote, listed,
                 inCleanup, readState, upserted, statusHistory>>

(* current_merge_request_lifecycle: bound to the head the job was asked about *)
StatusLifecycle(j) ==
  /\ step[j] = "lifecycle"
  /\ \/ BoundToHead /\ mrState = "opened" /\ Move(j, "collect") /\ UNCHANGED statusFaults
     \/ ~(BoundToHead /\ mrState = "opened") /\ Leave(j, 1) /\ UNCHANGED statusFaults
     \/ StatusFault /\ Leave(j, 1)
  /\ UNCHANGED <<noteBoard, named, mergeRequest, statusPlan, ownNote, listed, inCleanup,
                 readState, upserted, statusHistory>>

(* collect_previous_bot_comment_refs: drafts are only listed in draft mode;  *)
(* only a setup note replaces earlier ones.                                  *)
ListedEverywhere(j) == {n \in noteBoard : n[3] = "setup"}   \* slip: advice replaces setup too
Replaceable(j) ==
  {n \in noteBoard : /\ n[3] = "setup" /\ statusPlan[j].reason = "setup"
                     /\ n[1] = "draft" => statusPlan[j].draft}
CollectPrevious(j) ==
  /\ step[j] = "collect"
  /\ \/ Move(j, "prepost") /\ listed' = [listed EXCEPT ![j] = Replaceable(j)] /\ UNCHANGED statusFaults
     \/ StatusFault /\ Leave(j, 1) /\ UNCHANGED listed
  /\ UNCHANGED <<noteBoard, named, mergeRequest, statusPlan, ownNote, inCleanup,
                 readState, upserted, statusHistory>>

(* post_review_note_bounded; an answer that is lost leaves a note the        *)
(* transaction does not know, and posting_failure_exit has nothing to delete. *)
Created(j) ==
  <<IF statusPlan[j].draft THEN "draft" ELSE "live", j,
    IF statusPlan[j].reason = "setup" THEN "setup" ELSE "advice">>
UncheckedPublish(j) == IF statusPlan[j].draft THEN "publish" ELSE "prune"  \* slip
AfterPost(j) == "final"
PostStatusNote(j) ==
  /\ step[j] = "post"
  /\ StatusWrite(j)
  /\ \E a \in {"ok", "lost", "rejected"} :
       /\ StatusReply(a)
       /\ noteBoard' = IF a = "rejected" THEN noteBoard ELSE noteBoard \cup {Created(j)}
       /\ IF a = "ok" THEN /\ ownNote' = [ownNote EXCEPT ![j] = {Created(j)}]
                           /\ Move(j, AfterPost(j))
                      ELSE UNCHANGED ownNote /\ Leave(j, StrictExit(j))
  /\ UNCHANGED <<named, mergeRequest, statusPlan, listed, inCleanup, readState, upserted,
                 overlapped>>

(* finalize_posting: a draft whose publication is not confirmed stays.       *)
PublishStatusNote(j) ==
  /\ step[j] = "publish"
  /\ StatusWrite(j)
  /\ \E a \in {"ok", "lost", "rejected"}, n \in ownNote[j] :
       /\ IF n \in noteBoard THEN StatusReply(a) ELSE a = "rejected" /\ UNCHANGED statusFaults
       /\ noteBoard' = IF a = "rejected" THEN noteBoard ELSE (noteBoard \ {n}) \cup {Visible(n)}
       /\ IF a = "ok" THEN Move(j, "prune") ELSE Leave(j, 1)
  /\ UNCHANGED <<named, mergeRequest, statusPlan, ownNote, listed, inCleanup, readState,
                 upserted, overlapped>>

(* remove_setup_if_current: plain notes before drafts; the first unconfirmed *)
(* deletion ends the job.                                                    *)
DeleteSetupNote(j, n) ==
  /\ step[j] = "delete" /\ n \in listed[j]
  /\ n[1] = "draft" => \A m \in listed[j] : m[1] = "draft"
  /\ StatusWrite(j)
  /\ inCleanup' = [inCleanup EXCEPT ![j] = TRUE]
  /\ listed' = [listed EXCEPT ![j] = @ \ {n}]
  /\ \E a \in {"ok", "lost", "rejected"} :
       /\ IF n \in noteBoard THEN StatusReply(a) ELSE a = "rejected" /\ UNCHANGED statusFaults
       /\ noteBoard' = IF a = "rejected" THEN noteBoard ELSE noteBoard \ {n}
       /\ IF a = "ok" THEN Move(j, "prune") ELSE Leave(j, 1)
  /\ UNCHANGED <<named, mergeRequest, statusPlan, ownNote, readState, upserted, overlapped>>

StatusPosted(j) ==
  /\ step[j] = "prune" /\ listed[j] = {}
  /\ Leave(j, StrictExit(j))
  /\ UNCHANGED <<noteBoard, named, mergeRequest, statusFaults, statusPlan, ownNote, listed,
                 inCleanup, readState, upserted, statusHistory>>

UndoStatusNote(j) ==
  /\ step[j] = "undo"
  /\ step' = [step EXCEPT ![j] = "done"]
  /\ \E a \in {"ok", "lost", "rejected"}, n \in ownNote[j] :
       /\ IF n \in noteBoard THEN StatusReply(a) ELSE a = "rejected" /\ UNCHANGED statusFaults
       /\ noteBoard' = IF a = "rejected" THEN noteBoard ELSE noteBoard \ {n}
  /\ UNCHANGED <<named, mergeRequest, statusPlan, ownNote, listed, inCleanup, readState,
                 upserted, statusExit, statusHistory>>

-----------------------------------------------------------------------------
(* The terminal note: read the lifecycle, find the one earlier note, update  *)
(* or create, read it back, and read the lifecycle again.                    *)
TerminalLifecycle(j) ==
  /\ step[j] = "termLife"
  /\ \/ /\ BoundToHead /\ mrState \in Terminal /\ UNCHANGED statusFaults
        /\ readState' = [readState EXCEPT ![j] = mrState]
        /\ Move(j, "termList")
     \/ ~(BoundToHead /\ mrState \in Terminal) /\ Leave(j, 1) /\ UNCHANGED <<statusFaults, readState>>
     \/ StatusFault /\ Leave(j, 1) /\ UNCHANGED readState
  /\ UNCHANGED <<noteBoard, named, mergeRequest, statusPlan, ownNote, listed, inCleanup,
                 upserted, statusHistory>>

NoTerminalNotes(j) == {}                                \* slip: never looks for its note
TerminalNotes(j) == {n \in noteBoard : n[1] = "live" /\ n[3] = "terminal"}
(* several earlier notes end the job at once; a failed listing still reads   *)
(* the lifecycle                                                             *)
CollectTerminal(j) ==
  /\ step[j] = "termList"
  /\ \/ /\ Cardinality(TerminalNotes(j)) <= 1 /\ UNCHANGED statusFaults
        /\ listed' = [listed EXCEPT ![j] = TerminalNotes(j)] /\ Move(j, "termWrite")
     \/ Cardinality(TerminalNotes(j)) > 1 /\ Leave(j, 1) /\ UNCHANGED <<statusFaults, listed>>
     \/ StatusFault /\ Move(j, "termExit") /\ UNCHANGED listed
  /\ UNCHANGED <<noteBoard, named, mergeRequest, statusPlan, ownNote, inCleanup, readState,
                 upserted, statusHistory>>

UpsertTerminal(j) ==
  LET n == IF listed[j] = {} THEN <<"live", j, "terminal">> ELSE CHOOSE m \in listed[j] : TRUE IN
  /\ step[j] = "termWrite"
  /\ \E a \in {"ok", "lost", "rejected"} :
       /\ StatusReply(a)
       /\ noteBoard' = IF a = "rejected" THEN noteBoard ELSE noteBoard \cup {n}
       /\ named' = IF a = "rejected" THEN named ELSE [named EXCEPT ![n[2]] = readState[j]]
       /\ upserted' = [upserted EXCEPT ![j] = IF a = "ok" THEN {n} ELSE {}]
  /\ Move(j, "termRead")
  /\ UNCHANGED <<mergeRequest, statusPlan, ownNote, listed, inCleanup, readState, statusHistory>>

(* the note must be read back with exactly the body this job wrote           *)
ReadbackTerminal(j) ==
  /\ step[j] = "termRead"
  /\ \/ /\ UNCHANGED statusFaults
        /\ upserted' = [upserted EXCEPT ![j] = {n \in @ : named[n[2]] = readState[j]}]
     \/ upserted[j] # {} /\ StatusFault /\ upserted' = [upserted EXCEPT ![j] = {}]
  /\ Move(j, "termExit")
  /\ UNCHANGED <<noteBoard, named, mergeRequest, statusPlan, ownNote, listed, inCleanup,
                 readState, statusHistory>>

(* terminal_status_exit: a strict gate needs the note and a merge request    *)
(* that can no longer be reopened.                                           *)
StrictIgnoresClosed(j) == statusPlan[j].strict /\ upserted[j] = {}   \* slip
StrictlyRefused(j) == statusPlan[j].strict /\ (upserted[j] = {} \/ mrState = "closed")
TerminalExit(j) ==
  /\ step[j] = "termExit"
  /\ \/ StatusFault /\ Leave(j, 1)
     \/ /\ UNCHANGED statusFaults
        /\ Leave(j, IF ~BoundToHead \/ mrState = "opened" \/ StrictlyRefused(j) THEN 1 ELSE 0)
  /\ UNCHANGED <<noteBoard, named, mergeRequest, statusPlan, ownNote, listed, inCleanup,
                 readState, upserted, statusHistory>>

-----------------------------------------------------------------------------
StatusInit ==
  /\ noteBoard = {<<"live", Before, "setup">>}
  /\ named = [x \in StatusJob \cup {Before} |-> "none"]
  /\ mrState = "opened" /\ headMoved = FALSE /\ policyMoved = FALSE
  /\ statusFaults = 0
  /\ statusPlan \in StatusPlans
  /\ step = [j \in StatusJob |-> "idle"]
  /\ ownNote = [j \in StatusJob |-> {}] /\ listed = [j \in StatusJob |-> {}]
  /\ inCleanup = [j \in StatusJob |-> FALSE]
  /\ readState = [j \in StatusJob |-> "none"] /\ upserted = [j \in StatusJob |-> {}]
  /\ statusExit = [j \in StatusJob |-> -1]
  /\ lateWrites = [j \in StatusJob |-> 0] /\ overlapped = FALSE

StatusJobStep(j) ==
  \/ StatusCheck(j) \/ VerifyNoModelCoverage(j) \/ StatusLifecycle(j) \/ CollectPrevious(j)
  \/ PostStatusNote(j) \/ PublishStatusNote(j) \/ StatusPosted(j) \/ UndoStatusNote(j)
  \/ \E n \in listed[j] : DeleteSetupNote(j, n)
  \/ TerminalLifecycle(j) \/ CollectTerminal(j) \/ UpsertTerminal(j) \/ ReadbackTerminal(j)
  \/ TerminalExit(j)

StatusNext ==
  \/ \E j \in StatusJob : StatusStart(j) \/ StatusJobStep(j)
  \/ MergeRequestMoves

-----------------------------------------------------------------------------
(* Some setup note is always there once one was: an old one goes only after  *)
(* a job saw its own confirmed, and that one is not taken back any more,     *)
(* however jobs overlap (remove_setup_if_current, current_or_rollback).      *)
SetupNoteStands == \E n \in noteBoard : n[3] = "setup"

(* At most one write of a job reaches a merge request that left the state    *)
(* its status describes for good (current_or_rollback before every write).   *)
OneLateStatusWrite == \A j \in StatusJob : lateWrites[j] <= 1

(* A strict gate passes on a terminal status only for a merge request that   *)
(* can never be reopened, and whose note was seen (terminal_status_exit).    *)
StrictTerminalIsFinal ==
  \A j \in StatusJob :
    step[j] = "done" /\ statusExit[j] = 0 /\ statusPlan[j].strict
      => mrState = "merged" /\ upserted[j] \subseteq noteBoard /\ upserted[j] # {}

(* The terminal note is upserted: jobs that did not overlap leave at most    *)
(* one, whatever answers were lost (collect_terminal_status_note_ids).       *)
TerminalNoteUpserted ==
  ~overlapped => Cardinality({n \in noteBoard : n[3] = "terminal"}) <= 1

(* A job refused before it cleaned up takes its unpublished note with it,    *)
(* unless a fault hid it (rollback_current_run_comments).                    *)
RefusedTakesNoteBack ==
  \A j \in StatusJob :
    statusExit[j] = 1 /\ step[j] = "done" /\ ~statusPlan[j].strict /\ ~inCleanup[j]
      /\ statusFaults = 0 => ownNote[j] \cap noteBoard = {}

StatusNotesSafe ==
  /\ SetupNoteStands
  /\ OneLateStatusWrite
  /\ StrictTerminalIsFinal
  /\ TerminalNoteUpserted
  /\ RefusedTakesNoteBack
=============================================================================
