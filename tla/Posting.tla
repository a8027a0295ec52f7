------------------------------ MODULE Posting ------------------------------
(***************************************************************************)
(* The merge-request posting transaction of posting/workflow.py: a CI job   *)
(* that owns a review result snapshots the toolkit's notes on the merge     *)
(* request, publishes the new review, approves if it may, and only then     *)
(* removes the review it replaces.  Every GitLab call is one step, because  *)
(* the merge request, its reviewers and other jobs change between calls and *)
(* a response may be lost after the provider applied the request.           *)
(***************************************************************************)
EXTENDS Integers, FiniteSets

CONSTANTS
  Run,          \* posting jobs on one merge request
  Old,          \* author of the review that stands before any job starts
  OldItems,     \* what that review left on the merge request
  Inline,       \* findings; equal findings share a position and a fingerprint
  FoundSets,    \* the finding sets a review may report
  Reactions,    \* what people do in these instances, a subset of Reaction
  Configs,      \* job configurations, a subset of Config
  Cap,          \* OCR_MAX_POST_COMMENTS
  MaxFaults,    \* bound: lost, rejected or unavailable provider answers, kills
  MaxMoves      \* bound: changes of the merge request's reviewed tuple

Plain == {"fallback", "omitted", "summary", "terminal"}
Item == Inline \cup Plain
Author == Run \cup {Old}

Config == [draft: BOOLEAN, identity: BOOLEAN, strict: BOOLEAN,
           kind: {"complete", "partial", "filtered"}, eligible: BOOLEAN]

(* A reply (or "/ocr suppress"), "/ocr resolve" as newest command, resolved. *)
Reaction == {"reply", "ask", "resolved"}

ASSUME PostingAssumption ==
  /\ Old \notin Run
  /\ Inline \cap Plain = {}
  /\ OldItems \subseteq Inline \cup {"omitted", "summary", "terminal"}
  /\ FoundSets \subseteq SUBSET Inline
  /\ Reactions \subseteq Reaction
  /\ Configs \subseteq Config
  /\ \A c \in Configs : c.eligible => c.identity /\ c.kind = "complete"
  /\ Cap \in Nat /\ MaxFaults \in Nat /\ MaxMoves \in Nat

(***************************************************************************)
(* GitLab gives a draft and the visible note it becomes different ids, so a *)
(* note of author x about item i has two: <<"draft", x, i>>, <<"live", x, i>>. *)
(***************************************************************************)
Id == {"draft", "live"} \X Author \X Item
Draft(x, i) == <<"draft", x, i>>
Live(x, i) == <<"live", x, i>>
Thread == Author \X Inline
IdsOf(x) == {id \in Id : id[2] = x}
ThreadOf(id) == <<id[2], id[3]>>

VARIABLES
  notes,          \* ids that exist on the merge request
  touched,        \* what people did to each finding thread
  moves,          \* version of the reviewed tuple (source, target, diff, policy)
  approved,       \* runs whose approval GitLab recorded
  faults,         \* provider faults and kills so far
  pc, conf, reviewed, found,
  fresh,          \* the freshness check before the next write has passed
  pending,        \* findings still to post
  fallback,       \* findings GitLab cannot anchor, posted in one plain note
  omitted,        \* findings over the cap
  transaction,    \* PostingTransaction: ids the provider confirmed to this run
  baseline,       \* BotCommentRefs.all_*: ids seen by the snapshot
  replaceable,    \* BotCommentRefs: bot-owned ids this run would delete
  preserved,      \* human-owned threads seen by the snapshot
  toResolve,      \* discussions_to_resolve
  unattempted, attempted,  \* drafts of this run by publication attempt
  approval,       \* ApprovalResult status
  cleanupStarted, \* an old note deletion or resolution was attempted
  doomed,         \* ids a rollback still has to delete
  exit,           \* exit status of the job
  (* history *)
  late,           \* writes sent after the reviewed tuple had changed
  order, snapshots, leader

provider == <<notes, touched, moves, approved, faults>>
plan     == <<conf, reviewed, found, pending, fallback, omitted>>
snapshot == <<baseline, replaceable, preserved, toResolve>>
drafts   == <<unattempted, attempted>>
history  == <<order, snapshots, leader>>
vars == <<provider, pc, plan, fresh, transaction, snapshot, drafts, approval,
          cleanupStarted, doomed, exit, late, history>>

Running == {"snapPlain", "snapThreads", "snapDrafts", "plan", "precheck",
            "posting", "finalcheck", "publish", "approve", "amend", "recheck",
            "cleanup", "undo"}
Ended == {"replaced", "stopped", "dead"}

-----------------------------------------------------------------------------
(* Provider answers.  A write is "ok", "lost" (applied, answer lost) or     *)
(* "rejected" (not applied).  Only the last two spend the fault budget.     *)
Fault == faults < MaxFaults /\ faults' = faults + 1
NoFault == UNCHANGED faults
Answer(a) == IF a = "ok" THEN NoFault ELSE Fault

(* Deleting an id that is already gone is a 404, whatever the budget.       *)
DeleteAnswer(a, id) ==
  \/ a = "ok" /\ id \in notes /\ notes' = notes \ {id} /\ NoFault
  \/ a = "lost" /\ id \in notes /\ notes' = notes \ {id} /\ Fault
  \/ a = "rejected" /\ id \in notes /\ UNCHANGED notes /\ Fault
  \/ a = "rejected" /\ id \notin notes /\ UNCHANGED notes /\ NoFault

(* slip: a write that trusts an earlier freshness check.  Definitions marked *)
(* "slip" are plausible mistakes, kept to show that a property notices them. *)
CheckedNever(r) == TRUE

Current(r) == moves = reviewed[r]
Checked(r) == conf[r].identity => fresh[r]

(* Every write of a current result consumes its freshness check.            *)
Write(r) ==
  /\ Checked(r)
  /\ fresh' = [fresh EXCEPT ![r] = FALSE]
  /\ late' = [late EXCEPT ![r] = IF conf[r].identity /\ ~Current(r) THEN @ + 1 ELSE @]

-----------------------------------------------------------------------------
(* Where a job ends                                                          *)
Goto(r, where) == pc' = [pc EXCEPT ![r] = where]
Exit(r, code) == exit' = [exit EXCEPT ![r] = code]
StrictCode(r) == IF conf[r].strict THEN 1 ELSE 0

(* Return without touching the merge request any more.                       *)
Halt(r, code) == Goto(r, "stopped") /\ Exit(r, code) /\ UNCHANGED doomed

RollbackByMarker(r) == notes \ baseline[r]              \* slip: another job's notes

(* rollback_current_run_comments: delete the recorded ids outside the baseline *)
RollbackIds(r) == transaction[r] \ baseline[r]
Rollback(r, code) ==
  /\ Goto(r, "undo") /\ Exit(r, code)
  /\ doomed' = [doomed EXCEPT ![r] = RollbackIds(r)]

(* stop_current_review: after a publication attempt only the drafts that were *)
(* never attempted are deleted.                                              *)
EveryDraft(r) == unattempted[r] \cup attempted[r]        \* slip: attempted ones too
UnattemptedIds(r) == unattempted[r]

StopCurrentReview(r) ==
  IF attempted[r] # {}
  THEN /\ Goto(r, "undo") /\ Exit(r, 1)
       /\ doomed' = [doomed EXCEPT ![r] = UnattemptedIds(r) \ baseline[r]]
  ELSE Rollback(r, 1)

-----------------------------------------------------------------------------
(* The environment: reviewers act on visible threads, the merge request      *)
(* moves, CI kills jobs.                                                     *)
HumanActs(x, i) ==
  /\ Live(x, i) \in notes
  /\ touched[<<x, i>>] # "resolved"
  /\ \E t \in Reactions \ {touched[<<x, i>>]} :
       touched' = [touched EXCEPT ![<<x, i>>] = t]
  /\ UNCHANGED <<notes, moves, approved, faults, pc, plan, fresh, transaction, snapshot,
                 drafts, approval, cleanupStarted, doomed, exit, late, history>>

ReviewedTupleMoves ==
  /\ moves < MaxMoves
  /\ moves' = moves + 1
  /\ UNCHANGED <<notes, touched, approved, faults, pc, plan, fresh, transaction, snapshot,
                 drafts, approval, cleanupStarted, doomed, exit, late, history>>

Kill(r) ==
  /\ pc[r] \in Running
  /\ Fault /\ Goto(r, "dead")
  /\ UNCHANGED <<notes, touched, moves, approved, plan, fresh, transaction, snapshot,
                 drafts, approval, cleanupStarted, doomed, exit, late, history>>

-----------------------------------------------------------------------------
(* post_results: read the result, then snapshot the merge request            *)
Start(r) ==
  /\ pc[r] = "idle"
  /\ Goto(r, "snapPlain")
  /\ \E c \in Configs, F \in FoundSets :
       /\ conf' = [conf EXCEPT ![r] = c]
       /\ found' = [found EXCEPT ![r] = F]
       /\ pending' = [pending EXCEPT ![r] = F]
  /\ reviewed' = [reviewed EXCEPT ![r] = moves]
  /\ UNCHANGED <<provider, fallback, omitted, fresh, transaction, snapshot, drafts,
                 approval, cleanupStarted, doomed, exit, late, history>>

(* collect_previous_bot_comment_refs reads three endpoints one after the     *)
(* other; the run's place in the order of snapshots is fixed by the last one. *)
SeenNotes(r, ids, own) ==
  /\ baseline' = [baseline EXCEPT ![r] = @ \cup ids]
  /\ replaceable' = [replaceable EXCEPT ![r] = @ \cup own]

SnapshotComplete(r) ==
  /\ Goto(r, "plan")
  /\ snapshots' = snapshots + 1
  /\ order' = [order EXCEPT ![r] = snapshots + 1]

SnapshotPlain(r) ==
  LET seen == {id \in notes : id[1] = "live" /\ id[3] \in Plain} IN
  /\ pc[r] = "snapPlain"
  /\ SeenNotes(r, seen, seen)
  /\ Goto(r, "snapThreads")
  /\ UNCHANGED <<provider, plan, fresh, transaction, preserved, toResolve, drafts,
                 approval, cleanupStarted, doomed, exit, late, history>>

(* process_discussion_for_refs: a thread a person resolved or answered is    *)
(* preserved, "/ocr resolve" also schedules its resolution.                  *)
HumanCommanded(x, i) == touched[<<x, i>>] \in {"ask", "resolved"}  \* slip: replies lost
HumanTouched(x, i) == touched[<<x, i>>] # "no"

SnapshotThreads(r) ==
  LET seen == {id \in notes : id[1] = "live" /\ id[3] \in Inline}
      human == {id \in seen : touched[ThreadOf(id)] # "no"}
      kept == {id \in seen : HumanTouched(id[2], id[3])}
  IN
  /\ pc[r] = "snapThreads"
  /\ SeenNotes(r, seen, seen \ kept)
  /\ preserved' = [preserved EXCEPT ![r] = human]
  /\ toResolve' = [toResolve EXCEPT ![r] =
                     {ThreadOf(id) : id \in {h \in human : touched[ThreadOf(h)] = "ask"}}]
  /\ IF conf[r].draft THEN Goto(r, "snapDrafts") /\ UNCHANGED <<order, snapshots>>
                      ELSE SnapshotComplete(r)
  /\ UNCHANGED <<provider, plan, fresh, transaction, drafts, approval, cleanupStarted,
                 doomed, exit, late, leader>>

SnapshotDrafts(r) ==
  LET seen == {id \in notes : id[1] = "draft"} IN
  /\ pc[r] = "snapDrafts"
  /\ SeenNotes(r, seen, seen)
  /\ SnapshotComplete(r)
  /\ UNCHANGED <<provider, plan, fresh, transaction, preserved, toResolve, drafts,
                 approval, cleanupStarted, doomed, exit, late, leader>>

SnapshotFails(r) ==
  /\ pc[r] \in {"snapPlain", "snapThreads", "snapDrafts"}
  /\ Fault /\ Halt(r, StrictCode(r))
  /\ UNCHANGED <<notes, touched, moves, approved, plan, fresh, transaction, snapshot,
                 drafts, approval, cleanupStarted, late, history>>

(* filter_suppressed_comments, filter_previously_published_comments and the  *)
(* publication cap; a partial review will later replace summaries only.      *)
Suppressed(r) == {id[3] : id \in preserved[r]}
PublishedBefore(r) ==
  {id[3] : id \in {b \in baseline[r] : b[1] = "live" /\ b[3] \in Inline}}
    \cup UNION {fallback[x] : x \in {y \in Run : Live(y, "fallback") \in baseline[r]}}

Plan(r) ==
  LET kept == pending[r] \ (Suppressed(r) \cup
                (IF conf[r].kind = "filtered" THEN PublishedBefore(r) ELSE {}))
  IN
  /\ pc[r] = "plan"
  /\ \E chosen \in SUBSET kept :
       /\ chosen = kept \/ Cardinality(chosen) = Cap
       /\ Cardinality(chosen) <= Cap
       /\ pending' = [pending EXCEPT ![r] = chosen]
       /\ omitted' = [omitted EXCEPT ![r] = kept \ chosen]
  /\ Goto(r, IF conf[r].identity THEN "precheck" ELSE "posting")
  /\ UNCHANGED <<provider, conf, reviewed, found, fallback, fresh, transaction, snapshot, drafts,
                 approval, cleanupStarted, doomed, exit, late, history>>

-----------------------------------------------------------------------------
(* Freshness: publication_freshness_or_exit before every write               *)
Confirmed(r) == {id[3] : id \in transaction[r]}

(* the next plain note: fallback chunks, then the omission note, then summary *)
PlainDueNoFallback(r) ==                                \* slip: fallback dropped
  IF omitted[r] # {} /\ "omitted" \notin Confirmed(r) THEN "omitted" ELSE "summary"
PlainDue(r) ==
  IF fallback[r] # {} /\ "fallback" \notin Confirmed(r) THEN "fallback"
  ELSE IF omitted[r] # {} /\ "omitted" \notin Confirmed(r) THEN "omitted"
  ELSE "summary"

(* finalize_previous_review_state: the ids a run deletes, in class order     *)
Replaced(r) ==
  IF conf[r].kind = "complete" THEN replaceable[r]
  ELSE {id \in replaceable[r] :
          id[3] = "summary" \/ (id[1] = "live" /\ id[3] = "terminal")}
Class(r, id) ==
  IF conf[r].kind = "complete"
  THEN IF id[1] = "draft" THEN 3 ELSE IF id[3] \in Inline THEN 2 ELSE 1
  ELSE IF id[3] = "terminal" THEN 3 ELSE IF id[1] = "draft" THEN 2 ELSE 1
Due(r) == {id \in Replaced(r) : \A other \in Replaced(r) : Class(r, id) <= Class(r, other)}
ResolveDue(r) ==
  IF Replaced(r) = {} /\ (conf[r].kind = "complete" \/ ~conf[r].identity)
  THEN toResolve[r] ELSE {}

WriteDue(r) ==
  \/ pc[r] \in {"precheck", "posting", "finalcheck", "approve", "amend", "recheck"}
  \/ pc[r] = "publish" /\ unattempted[r] # {}
  \/ pc[r] = "cleanup" /\ Due(r) \cup ResolveDue(r) # {}

(* Some checks guard a whole phase: before posting, at the head of           *)
(* finalize_review_approval, and before old-review cleanup.                  *)
AfterCheckApproving(r) ==                               \* slip: approves first
  CASE pc[r] = "precheck"   -> "posting"
    [] pc[r] = "finalcheck" -> IF conf[r].eligible THEN "approve" ELSE "publish"
    [] pc[r] = "recheck"    -> "cleanup"
    [] OTHER                -> pc[r]
AfterCheck(r) ==
  CASE pc[r] = "precheck"   -> "posting"
    [] pc[r] = "finalcheck" -> "publish"
    [] pc[r] = "recheck"    -> "cleanup"
    [] OTHER                -> pc[r]

CheckPasses(r) ==
  /\ conf[r].identity /\ ~fresh[r] /\ WriteDue(r)
  /\ Current(r)
  /\ Goto(r, AfterCheck(r))
  /\ fresh' = [fresh EXCEPT ![r] = AfterCheck(r) = pc[r]]
  /\ unattempted' = [unattempted EXCEPT ![r] =
                       IF pc[r] = "finalcheck" /\ conf[r].draft THEN transaction[r] ELSE @]
  /\ UNCHANGED <<provider, plan, transaction, snapshot, attempted, approval,
                 cleanupStarted, doomed, exit, late, history>>

(* What a stale or unavailable identity does in each phase: once an old note *)
(* may be gone or a draft may be visible, the new review is kept.            *)
RetainPublished(r) == attempted[r] # {}                 \* slip: old notes may be gone
RetainCurrent(r) == cleanupStarted[r] \/ attempted[r] # {}

StopWhenStale(r) ==
  CASE pc[r] = "precheck" -> Halt(r, 1)
    [] pc[r] = "posting"  -> Rollback(r, 1)
    [] pc[r] = "cleanup"  -> IF RetainCurrent(r)
                             THEN Halt(r, 1) ELSE Rollback(r, 1)
    [] OTHER              -> StopCurrentReview(r)

CheckFails(r) ==
  /\ conf[r].identity /\ ~fresh[r] /\ WriteDue(r)
  /\ \/ ~Current(r) /\ NoFault
     \/ Fault
  /\ StopWhenStale(r)
  /\ UNCHANGED <<notes, touched, moves, approved, plan, fresh, transaction, snapshot,
                 drafts, approval, cleanupStarted, late, history>>

-----------------------------------------------------------------------------
(* Creating the new review                                                   *)
NewId(r, i) == IF conf[r].draft THEN Draft(r, i) ELSE Live(r, i)

(* no diff refs, path or line: no request is made, the finding falls back    *)
SkipInline(r, i) ==
  /\ pc[r] = "posting" /\ i \in pending[r] /\ ~fresh[r]
  /\ pending' = [pending EXCEPT ![r] = @ \ {i}]
  /\ fallback' = [fallback EXCEPT ![r] = @ \cup {i}]
  /\ UNCHANGED <<provider, pc, conf, reviewed, found, omitted, fresh, transaction, snapshot,
                 drafts, approval, cleanupStarted, doomed, exit, late, history>>

(* post_review_discussion with its one reconciliation read: an applied create *)
(* that the read recovers is "ok"; only invalid_position may fall back.      *)
PostInline(r, i) ==
  /\ pc[r] = "posting" /\ i \in pending[r]
  /\ Write(r)
  /\ \E a \in {"ok", "invalid", "lost", "rejected"} :
       /\ IF a = "invalid" THEN NoFault ELSE Answer(a)
       /\ notes' = IF a \in {"ok", "lost"} THEN notes \cup {NewId(r, i)} ELSE notes
       /\ transaction' = [transaction EXCEPT ![r] =
                            IF a = "ok" THEN @ \cup {NewId(r, i)} ELSE @]
       /\ fallback' = [fallback EXCEPT ![r] = IF a = "invalid" THEN @ \cup {i} ELSE @]
       /\ pending' = [pending EXCEPT ![r] = @ \ {i}]
       /\ IF a \in {"ok", "invalid"} THEN UNCHANGED <<pc, doomed, exit>> ELSE Rollback(r, 1)
  /\ UNCHANGED <<touched, moves, approved, conf, reviewed, found, omitted, snapshot, drafts,
                 approval, cleanupStarted, history>>

(* post_review_note_bounded has no reconciliation: a lost answer leaves a    *)
(* note the transaction does not know.                                       *)
PostPlain(r) ==
  LET item == PlainDue(r) IN
  /\ pc[r] = "posting" /\ pending[r] = {}
  /\ Write(r)
  /\ \E a \in {"ok", "lost", "rejected"} :
       /\ Answer(a)
       /\ notes' = IF a = "rejected" THEN notes ELSE notes \cup {NewId(r, item)}
       /\ transaction' = [transaction EXCEPT ![r] =
                            IF a = "ok" THEN @ \cup {NewId(r, item)} ELSE @]
       /\ IF a # "ok" THEN Rollback(r, StrictCode(r)) /\ UNCHANGED unattempted
          ELSE /\ UNCHANGED <<doomed, exit>>
               /\ IF item # "summary" THEN UNCHANGED <<pc, unattempted>>
                  ELSE IF conf[r].identity THEN Goto(r, "finalcheck") /\ UNCHANGED unattempted
                  ELSE /\ Goto(r, "publish")
                       /\ unattempted' = [unattempted EXCEPT ![r] =
                            IF conf[r].draft THEN transaction'[r] ELSE {}]
  /\ UNCHANGED <<touched, moves, approved, plan, snapshot, attempted, approval,
                 cleanupStarted, history>>

-----------------------------------------------------------------------------
(* Publishing drafts: each at most once, in the order of their creation      *)
CreationRank(id) ==
  CASE id[3] = "fallback" -> 1 [] id[3] = "omitted" -> 2 [] id[3] = "summary" -> 3
    [] OTHER -> 0

PublishDraft(r, id) ==
  /\ pc[r] = "publish" /\ id \in unattempted[r]
  /\ \A other \in unattempted[r] : CreationRank(id) <= CreationRank(other)
  /\ Write(r)
  /\ unattempted' = [unattempted EXCEPT ![r] = @ \ {id}]
  /\ attempted' = [attempted EXCEPT ![r] = @ \cup {id}]
  /\ \E a \in {"ok", "lost", "rejected"} :
       /\ IF a = "rejected" /\ id \notin notes THEN NoFault ELSE Answer(a)
       /\ a # "rejected" => id \in notes
       /\ notes' = IF a = "rejected" THEN notes
                   ELSE (notes \ {id}) \cup {Live(id[2], id[3])}
       /\ IF a = "ok" THEN UNCHANGED <<pc, doomed, exit>>
          ELSE /\ Goto(r, "undo") /\ Exit(r, 1)
               \* with an identity: the drafts never attempted; without one,
               \* publish_failure_exit names every draft of the run
               /\ doomed' = [doomed EXCEPT ![r] =
                    IF conf[r].identity THEN UnattemptedIds(r)' \ baseline[r]
                    ELSE transaction[r]]
  /\ UNCHANGED <<touched, moves, approved, plan, transaction, snapshot, approval,
                 cleanupStarted, history>>

AllPublished(r) == unattempted[r] = {}

PublishDone(r) ==
  /\ pc[r] = "publish" /\ AllPublished(r)
  /\ Goto(r, IF ~conf[r].identity THEN "cleanup"
             ELSE IF conf[r].eligible /\ omitted[r] = {} THEN "approve" ELSE "recheck")
  /\ UNCHANGED <<provider, plan, fresh, transaction, snapshot, drafts, approval,
                 cleanupStarted, doomed, exit, late, history>>

-----------------------------------------------------------------------------
(* Approval and its summary (execute_approval is detailed in Approval.tla)   *)
ApprovalUnsynchronized(r) ==
  /\ pc[r] = "approve" /\ ~fresh[r]
  /\ Fault /\ StopCurrentReview(r)
  /\ UNCHANGED <<notes, touched, moves, approved, plan, fresh, transaction, snapshot,
                 drafts, approval, cleanupStarted, late, history>>

ApprovalNotNeeded(r) ==
  /\ pc[r] = "approve" /\ fresh[r]
  /\ Goto(r, "amend")
  /\ approval' = [approval EXCEPT ![r] = "skipped"]
  /\ fresh' = [fresh EXCEPT ![r] = FALSE]
  /\ UNCHANGED <<provider, plan, transaction, snapshot, drafts, cleanupStarted, doomed,
                 exit, late, history>>

ApprovalStatus(a) ==
  IF a = "ok" THEN "approved" ELSE IF a = "conflict" THEN "skipped" ELSE "failed"

Approve(r) ==
  /\ pc[r] = "approve"
  /\ Write(r)
  /\ \E a \in {"ok", "lost", "rejected", "conflict"} :
       /\ Answer(a)
       /\ approved' = IF a \in {"ok", "lost"} THEN approved \cup {r} ELSE approved
       /\ approval' = [approval EXCEPT ![r] = ApprovalStatus(a)]
       /\ IF a = "conflict" THEN StopCurrentReview(r)
                            ELSE Goto(r, "amend") /\ UNCHANGED <<doomed, exit>>
  /\ UNCHANGED <<notes, touched, moves, plan, transaction, snapshot, drafts,
                 cleanupStarted, history>>

(* replace_current_summary: find the one visible summary, PUT it, read back  *)
AmendSummary(r) ==
  /\ pc[r] = "amend"
  /\ \/ /\ Write(r)
        /\ Live(r, "summary") \in notes
        /\ NoFault
        /\ Goto(r, "recheck") /\ UNCHANGED <<doomed, exit>>
     \/ /\ IF fresh[r] THEN Write(r) ELSE UNCHANGED <<fresh, late>>
        /\ IF Live(r, "summary") \in notes THEN Fault ELSE NoFault
        /\ StopCurrentReview(r)
  /\ UNCHANGED <<notes, touched, moves, approved, plan, transaction, snapshot, drafts,
                 approval, cleanupStarted, history>>

-----------------------------------------------------------------------------
(* finalize_previous_review_state.  With an identity the first unconfirmed   *)
(* answer ends the job; without one every deletion is best effort.           *)
BeginCleanup(r) ==
  /\ cleanupStarted' = [cleanupStarted EXCEPT ![r] = TRUE]
  /\ leader' = IF leader = Old \/ order[r] > order[leader] THEN r ELSE leader

CleanupBestEffort(r, a) == UNCHANGED <<pc, exit, doomed>>  \* slip: goes on
CleanupAnswer(r, a) ==
  IF a # "ok" /\ conf[r].identity THEN Halt(r, 1) ELSE UNCHANGED <<pc, exit, doomed>>

DeletePrevious(r, id) ==
  /\ pc[r] = "cleanup" /\ id \in Due(r)
  /\ Write(r)
  /\ BeginCleanup(r)
  /\ replaceable' = [replaceable EXCEPT ![r] = @ \ {id}]
  /\ \E a \in {"ok", "lost", "rejected"} : DeleteAnswer(a, id) /\ CleanupAnswer(r, a)
  /\ UNCHANGED <<touched, moves, approved, plan, transaction, baseline, preserved,
                 toResolve, drafts, approval, order, snapshots>>

ResolveDiscussion(r, t) ==
  /\ pc[r] = "cleanup" /\ t \in ResolveDue(r)
  /\ Write(r)
  /\ BeginCleanup(r)
  /\ toResolve' = [toResolve EXCEPT ![r] = @ \ {t}]
  /\ \E a \in {"ok", "lost", "rejected"} :
       /\ IF Live(t[1], t[2]) \in notes THEN Answer(a) ELSE a = "rejected" /\ NoFault
       /\ touched' = IF a = "rejected" THEN touched ELSE [touched EXCEPT ![t] = "resolved"]
       /\ CleanupAnswer(r, a)
  /\ UNCHANGED <<notes, moves, approved, plan, transaction, baseline, replaceable,
                 preserved, drafts, approval, order, snapshots>>

Finish(r) ==
  /\ pc[r] = "cleanup" /\ Due(r) \cup ResolveDue(r) = {}
  /\ Goto(r, "replaced")
  /\ Exit(r, IF approval[r] = "failed" THEN StrictCode(r) ELSE 0)
  /\ UNCHANGED <<provider, plan, fresh, transaction, snapshot, drafts, approval,
                 cleanupStarted, doomed, late, history>>

-----------------------------------------------------------------------------
(* Rollback deletions are best effort: their answers are not looked at.      *)
DoomedUntilDeleted(r, id, a) == IF a = "ok" THEN doomed[r] \ {id} ELSE doomed[r]  \* slip
StillDoomed(r, id, a) == doomed[r] \ {id}

UndoOne(r, id) ==
  /\ pc[r] = "undo" /\ id \in doomed[r]
  /\ \E a \in {"ok", "lost", "rejected"} :
       /\ DeleteAnswer(a, id)
       /\ doomed' = [doomed EXCEPT ![r] = StillDoomed(r, id, a)]
  /\ UNCHANGED <<touched, moves, approved, pc, plan, fresh, transaction, snapshot, drafts,
                 approval, cleanupStarted, exit, late, history>>

UndoDone(r) ==
  /\ pc[r] = "undo" /\ doomed[r] = {}
  /\ Goto(r, "stopped")
  /\ UNCHANGED <<provider, plan, fresh, transaction, snapshot, drafts, approval,
                 cleanupStarted, doomed, exit, late, history>>

-----------------------------------------------------------------------------
OldIds == {Live(Old, i) : i \in OldItems}

Init ==
  /\ notes = OldIds
  /\ touched = [t \in Thread |-> "no"]
  /\ moves = 0 /\ approved = {} /\ faults = 0
  /\ pc = [r \in Run |-> "idle"]
  /\ conf = [r \in Run |-> [draft |-> FALSE, identity |-> FALSE, strict |-> FALSE,
                            kind |-> "complete", eligible |-> FALSE]]
  /\ reviewed = [r \in Run |-> 0]
  /\ fresh = [r \in Run |-> FALSE]
  /\ found = [r \in Run |-> {}]
  /\ pending = [r \in Run |-> {}] /\ fallback = [r \in Run |-> {}]
  /\ omitted = [r \in Run |-> {}] /\ transaction = [r \in Run |-> {}]
  /\ baseline = [r \in Run |-> {}] /\ replaceable = [r \in Run |-> {}]
  /\ preserved = [r \in Run |-> {}] /\ toResolve = [r \in Run |-> {}]
  /\ unattempted = [r \in Run |-> {}] /\ attempted = [r \in Run |-> {}]
  /\ approval = [r \in Run |-> "none"]
  /\ cleanupStarted = [r \in Run |-> FALSE]
  /\ doomed = [r \in Run |-> {}]
  /\ exit = [r \in Run |-> -1]
  /\ late = [r \in Run |-> 0]
  /\ order = [r \in Run |-> 0] /\ snapshots = 0 /\ leader = Old

Job(r) ==
  \/ Start(r) \/ SnapshotPlain(r) \/ SnapshotThreads(r) \/ SnapshotDrafts(r)
  \/ SnapshotFails(r) \/ Plan(r) \/ CheckPasses(r) \/ CheckFails(r)
  \/ \E i \in Inline : SkipInline(r, i) \/ PostInline(r, i)
  \/ PostPlain(r)
  \/ \E id \in unattempted[r] : PublishDraft(r, id)
  \/ PublishDone(r)
  \/ ApprovalUnsynchronized(r) \/ ApprovalNotNeeded(r) \/ Approve(r) \/ AmendSummary(r)
  \/ \E id \in replaceable[r] : DeletePrevious(r, id)
  \/ \E t \in toResolve[r] : ResolveDiscussion(r, t)
  \/ Finish(r)
  \/ \E id \in doomed[r] : UndoOne(r, id)
  \/ UndoDone(r)

Environment ==
  \/ \E x \in Author, i \in Inline : HumanActs(x, i)
  \/ ReviewedTupleMoves
  \/ \E r \in Run : Kill(r)

Next == (\E r \in Run : Job(r)) \/ Environment

Spec == Init /\ [][Next]_vars

(* A started job is one single-threaded program whose requests all time out: *)
(* it keeps taking steps until it ends.  The environment owes nothing.       *)
FairSpec == Spec /\ \A r \in Run : WF_vars(pc[r] # "idle" /\ Job(r))

-----------------------------------------------------------------------------
(* Every variable holds a value of the type its Python counterpart has.      *)
TypeOK ==
  /\ notes \subseteq Id /\ touched \in [Thread -> {"no"} \cup Reaction]
  /\ moves \in Nat /\ approved \subseteq Run /\ faults \in Nat
  /\ pc \in [Run -> {"idle"} \cup Running \cup Ended]
  /\ conf \in [Run -> Config] /\ reviewed \in [Run -> Nat]
  /\ fresh \in [Run -> BOOLEAN] /\ cleanupStarted \in [Run -> BOOLEAN]
  /\ found \in [Run -> SUBSET Inline]
  /\ pending \in [Run -> SUBSET Inline] /\ fallback \in [Run -> SUBSET Inline]
  /\ omitted \in [Run -> SUBSET Inline]
  /\ transaction \in [Run -> SUBSET Id] /\ baseline \in [Run -> SUBSET Id]
  /\ replaceable \in [Run -> SUBSET Id] /\ preserved \in [Run -> SUBSET Id]
  /\ toResolve \in [Run -> SUBSET Thread]
  /\ unattempted \in [Run -> SUBSET Id] /\ attempted \in [Run -> SUBSET Id]
  /\ approval \in [Run -> {"none", "approved", "skipped", "failed"}]
  /\ doomed \in [Run -> SUBSET Id]
  /\ exit \in [Run -> {-1, 0, 1}] /\ late \in [Run -> Nat]
  /\ order \in [Run -> Nat] /\ snapshots \in Nat /\ leader \in Author

(* A review stands when its summary was confirmed and every note the run     *)
(* confirmed is visible; the old review stands while nothing of it is gone.  *)
Posted(r) == {Live(id[2], id[3]) : id \in transaction[r]}
Stands(x) ==
  IF x = Old THEN OldIds \subseteq notes
  ELSE "summary" \in Confirmed(x) /\ Posted(x) \subseteq notes

(* Whatever jobs overlap, fail, lose answers or are killed, some complete    *)
(* review is visible: an old review goes only after a whole new one is there *)
(* and never has its replacement rolled back behind it                       *)
(* (finalize_previous_review_state, stop_current_review).                    *)
ReviewStands == \E x \in Author : Stands(x)

(* The same claim naming its witness: of the reviews whose job began to      *)
(* remove others, the one with the latest snapshot is intact, because only a *)
(* later snapshot can have listed its notes for deletion.                    *)
LeaderStands == Stands(leader)

(* Checking freshness before every mutation leaves one race: at most one     *)
(* write of a job reaches a merge request that moved after its review.       *)
AtMostOneLateWrite == \A r \in Run : late[r] <= 1

(* A thread a person owned when the job took its snapshot outlives the job:  *)
(* neither cleanup nor rollback deletes it (one job at a time).              *)
HumanOwnedSurvives == [][\A r \in Run : preserved[r] \cap notes \subseteq notes']_vars

(* No new note repeats a finding whose thread a person owned at the snapshot, *)
(* inline or in the fallback note (filter_suppressed_comments).              *)
SuppressedNotRepeated ==
  \A r \in Run :
    pc[r] \notin {"idle", "snapPlain", "snapThreads", "snapDrafts", "plan"} =>
      \A id \in preserved[r] :
        id[3] \notin fallback[r] /\ {Draft(r, id[3]), Live(r, id[3])} \cap notes = {}

(* A filtered review keeps the earlier findings, so it must not publish one  *)
(* of them again: each finding has at most one visible thread of old and new *)
(* (filter_previously_published_comments), whatever overlaps its job.        *)
FilteredAddsNoDuplicate ==
  \A r \in Run, i \in Inline :
    conf[r].kind = "filtered" /\ Live(Old, i) \in notes /\ pc[r] # "idle" =>
      Live(r, i) \notin notes /\ (pc[r] \in Running \ {"snapPlain", "snapThreads",
        "snapDrafts", "plan"} => i \notin fallback[r])

(* When a job reports a replaced review, every finding it reported is on the *)
(* merge request: in its own thread or fallback note, in a thread kept from  *)
(* before, or counted in the omission note (one job at a time).              *)
Visible(r, i) ==
  \/ \E x \in Author : Live(x, i) \in notes
  \/ i \in fallback[r] /\ Live(r, "fallback") \in notes
  \/ i \in omitted[r] /\ Live(r, "omitted") \in notes
NoFindingLost ==
  \A r \in Run : pc[r] = "replaced" => \A i \in found[r] : Visible(r, i)

(* What happens to a finding between suppression, publication filter, cap    *)
(* and fallback: it is shown once, or not at all where a person said so.     *)
FindingsShownOnce == NoFindingLost /\ SuppressedNotRepeated /\ FilteredAddsNoDuplicate

(* A reported replacement is the truth: every note the snapshot saw and no   *)
(* person owned is gone, and the whole new review is visible (with an        *)
(* identity, one job at a time; finalize_previous_review_state).             *)
SuccessMeansReplaced ==
  \A r \in Run :
    pc[r] = "replaced" /\ conf[r].identity /\ conf[r].kind = "complete" =>
      /\ (baseline[r] \ preserved[r]) \cap notes = {}
      /\ Posted(r) \subseteq notes

(* A job that stopped before publishing or cleaning up leaves nothing behind *)
(* but what a provider fault explains, one note per fault.                   *)
LeftoversExplainedByFaults ==
  \A r \in Run :
    pc[r] = "stopped" /\ attempted[r] = {} /\ ~cleanupStarted[r] =>
      Cardinality(notes \cap IdsOf(r)) <= faults

(* Neither outcome lies: a reported replacement happened, and a stopped job  *)
(* took its notes back.                                                      *)
OutcomeIsTrue == SuccessMeansReplaced /\ LeftoversExplainedByFaults

(* A draft whose publication was attempted is never deleted by its own run:  *)
(* the note may be visible already (stop_current_review).  A result without  *)
(* a receipt is outside this promise: publish_failure_exit deletes every     *)
(* draft it recorded.                                                        *)
AttemptedDraftRetained ==
  [][\A r \in Run : conf[r].identity => \A id \in attempted[r] :
       id \in notes /\ id \notin notes' => Live(id[2], id[3]) \in notes']_vars

(* Approval is sent only over a completely visible review.                   *)
ApprovalAfterPublication ==
  [][\A r \in approved' \ approved : Stands(r)]_vars

(* Ordinary approval-management trouble (no identity change) does not        *)
(* retract the review that was already published.                            *)
AdvisoryReviewNotRetracted ==
  [][\A r \in Run : pc[r] = "amend" /\ fresh[r] /\ Current(r) /\ pc'[r] = "undo" =>
       doomed'[r] \cap Posted(r) = {}]_vars

(* A conversation a person joined is kept whole.                             *)
HumanConversationKept ==
  [][\A t \in Thread : touched[t] = "reply" /\ Live(t[1], t[2]) \in notes
       => Live(t[1], t[2]) \in notes']_vars

(* Every job that started ends.                                              *)
EveryJobEnds == \A r \in Run : (pc[r] \in Running) ~> (pc[r] \in Ended)

=============================================================================
