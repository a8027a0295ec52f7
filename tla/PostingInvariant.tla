------------------------- MODULE PostingInvariant --------------------------
(* The inductive invariants behind the safety properties of Posting: what   *)
(* TLC checks on small instances and PostingProofs proves for all of them.  *)
EXTENDS Posting

(* At most one late write: a merge request that moved stays moved, so after  *)
(* the first late write no confirmation can be had again.                    *)
LateInv ==
  \A r \in Run :
    /\ reviewed[r] <= moves
    /\ late[r] <= 1
    /\ late[r] = 1 => moves # reviewed[r] /\ ~fresh[r]
    /\ pc[r] = "idle" => late[r] = 0 /\ ~fresh[r]

-----------------------------------------------------------------------------
(* Why some review always stands.                                            *)
Early == {"idle", "snapPlain", "snapThreads", "snapDrafts"}
Unpublished == {"plan", "precheck", "posting", "finalcheck"}
Complete == {"approve", "amend", "recheck", "cleanup", "replaced"}

(* Snapshots are numbered in the order in which they complete ...            *)
SnapshotOrder ==
  \A r \in Run :
    /\ order[r] <= snapshots
    /\ order[r] > 0 => pc[r] \notin Early
    /\ pc[r] \in Running \ Early => order[r] > 0

(* ... a job writes only after its own, so a note that a snapshot saw belongs *)
(* to a job with an earlier one, and only such notes are replaced ...         *)
SeenEarlier ==
  /\ \A id \in notes : id[2] \in Run => order[id[2]] > 0
  /\ \A q \in Run : replaceable[q] \subseteq baseline[q]
  /\ \A q \in Run : \A id \in baseline[q] : id[2] \in Run =>
       order[id[2]] > 0 /\ (order[q] = 0 \/ order[id[2]] < order[q])

(* ... while everything a job records, publishes or rolls back is its own.    *)
OwnNotes ==
  \A r \in Run :
    /\ \A id \in transaction[r] :
         id[2] = r /\ order[r] > 0 /\ (id[1] = "draft" <=> conf[r].draft)
    /\ \A id \in unattempted[r] : id[1] = "draft"
    /\ \A id \in doomed[r] : id[2] = r
    /\ unattempted[r] \cup attempted[r] \subseteq transaction[r]

(* Before posting nothing was created, before publication nothing was         *)
(* attempted, after it everything was.                                        *)
Attempts ==
  \A r \in Run :
    /\ pc[r] \in Early \cup Unpublished => attempted[r] = {} /\ unattempted[r] = {}
    /\ pc[r] \in {"plan", "precheck"} => transaction[r] = {}
    /\ pc[r] = "publish" /\ conf[r].draft => transaction[r] \subseteq attempted[r] \cup unattempted[r]
    /\ (pc[r] \in Complete \/ cleanupStarted[r]) /\ conf[r].draft => transaction[r] \subseteq attempted[r]
    /\ pc[r] \in {"finalcheck", "publish"} \cup Complete \/ cleanupStarted[r]
         => "summary" \in Confirmed(r)

(* A job that has begun to remove notes is past every rollback, and the leader *)
(* is the one of them with the latest snapshot.                               *)
Committed ==
  /\ \A r \in Run : cleanupStarted[r] =>
       pc[r] \in {"cleanup"} \cup Ended /\ order[r] > 0 /\ leader \in Run /\ order[r] <= order[leader]
  /\ leader \in Run => cleanupStarted[leader]
  /\ leader = Old => OldIds \subseteq notes

(* What a job confirmed is there, visible if its publication was attempted,   *)
(* unless a job with a later snapshot has taken over.                         *)
Place(r, id) == IF id \in attempted[r] THEN Live(id[2], id[3]) ELSE id
Superseded(r) == leader \in Run /\ order[r] < order[leader]
Intact ==
  \A r \in Run :
    pc[r] \in {"posting", "finalcheck", "publish"} \cup Complete \/ cleanupStarted[r] =>
      Superseded(r) \/ \A id \in transaction[r] : Place(r, id) \in notes

StandingInv ==
  SnapshotOrder /\ SeenEarlier /\ OwnNotes /\ Attempts /\ Committed /\ Intact

-----------------------------------------------------------------------------
(* Why the outcome a posting job reports is true: what its snapshot sorted,  *)
(* where each of its findings is, and which of its own notes it has lost     *)
(* sight of.  Everything but Spared holds however many jobs overlap.         *)
Unplanned == Early \cup {"plan"}
Going == {"precheck", "posting", "finalcheck", "publish"} \cup Complete

(* The snapshot sorts what it sees: a thread a person owned is never on the  *)
(* list of notes to delete.                                                  *)
Sorted(r) ==
  /\ preserved[r] \subseteq baseline[r] /\ preserved[r] \cap replaceable[r] = {}
  /\ \A id \in preserved[r] : id[1] = "live" /\ id[3] \in Inline
  /\ pc[r] \in {"idle", "snapPlain"} => baseline[r] = {}
  /\ pc[r] = "snapThreads" => preserved[r] = {} /\ \A id \in baseline[r] : id[3] \in Plain

(* Nobody posts in the name of the old review, so what is left of it now was *)
(* seen by every snapshot ...                                                *)
OldSeen(r) ==
  pc[r] = "snapDrafts" \/ order[r] > 0 =>
    \A i \in Inline : Live(Old, i) \in notes => Live(Old, i) \in baseline[r]

(* ... and a deletion that was answered is final, so at a reported replacement *)
(* only what a person owned can be left of it.                               *)
Gone(r) ==
  /\ conf[r].identity /\ pc[r] \notin {"stopped", "dead"} =>
       \A id \in baseline[r] \ (preserved[r] \cup replaceable[r]) :
         id[2] = Old => id \notin notes
  /\ pc[r] = "replaced" => Replaced(r) = {}

(* Findings a job must not repeat never reach a note of its own.             *)
SeenInline(r) == {b \in baseline[r] : b[1] = "live" /\ b[3] \in Inline}
Barred(r) ==
  Suppressed(r) \cup
    (IF conf[r].kind = "filtered" THEN {b[3] : b \in SeenInline(r)} ELSE {})
Unrepeated(r) ==
  /\ pc[r] \in Unplanned => fallback[r] = {}
  /\ pc[r] \in Unplanned \cup {"precheck"} => notes \cap IdsOf(r) = {}
  /\ pc[r] \in {"precheck", "posting"} => pending[r] \cap Barred(r) = {}
  /\ pc[r] \notin Unplanned =>
       \A i \in Barred(r) : i \notin fallback[r] /\ {Draft(r, i), Live(r, i)} \cap notes = {}

(* Every reported finding has one place, and the plain notes that stand for  *)
(* several findings are confirmed before the summary is.                     *)
Accounted(r) ==
  /\ pc[r] \in Unplanned => pending[r] = found[r]
  /\ pc[r] \in Going =>
       found[r] \subseteq pending[r] \cup fallback[r] \cup omitted[r] \cup Confirmed(r)
                    \cup Suppressed(r)
                    \cup (IF conf[r].kind = "filtered" THEN PublishedBefore(r) ELSE {})
  /\ pc[r] \in {"finalcheck", "publish"} \cup Complete =>
       /\ pending[r] = {}
       /\ fallback[r] # {} => "fallback" \in Confirmed(r)
       /\ omitted[r] # {} => "omitted" \in Confirmed(r)

(* A draft is attempted once, and with an identity a rollback spares it.     *)
Retained(r) ==
  /\ unattempted[r] \cap attempted[r] = {}
  /\ doomed[r] # {} => pc[r] \in {"undo", "dead"}
  /\ conf[r].identity => doomed[r] \cap attempted[r] = {}

(* Own notes the job will not take back: each one cost a provider fault.     *)
Known(r) ==
  IF pc[r] = "undo" THEN doomed[r] ELSE IF pc[r] \in Ended THEN {} ELSE transaction[r]
Leftover(r) == (notes \cap IdsOf(r)) \ Known(r)
Tally(r) ==
  attempted[r] = {} /\ ~cleanupStarted[r] /\ pc[r] \notin {"replaced", "dead"} =>
    IsFiniteSet(Leftover(r)) /\ Cardinality(Leftover(r)) <= faults

Outcome(r) ==
  Sorted(r) /\ OldSeen(r) /\ Gone(r) /\ Unrepeated(r) /\ Accounted(r) /\ Retained(r) /\ Tally(r)
OutcomeInv == \A r \in Run : Outcome(r)

(* One job at a time: what it found to be kept is still there.               *)
Spared ==
  \A r \in Run :
    /\ preserved[r] \subseteq notes
    /\ conf[r].kind = "filtered" => SeenInline(r) \subseteq notes

-----------------------------------------------------------------------------
(* The refinement: a review stands when its confirmed notes are visible and  *)
(* is entitled once its job attempted a removal.                             *)
Replacement == INSTANCE ReviewReplacement WITH
  Review   <- Author,
  First    <- Old,
  standing <- {x \in Author : Stands(x)},
  entitled <- {Old} \cup {r \in Run : cleanupStarted[r]}

(* Posting jobs, however they overlap and fail, only ever replace reviews the *)
(* way ReviewReplacement allows (post_results, finalize_review_approval and   *)
(* finalize_previous_review_state together).                                  *)
ReplacesReviews == Replacement!Spec
=============================================================================
