--------------------------- MODULE GitlinkReview ---------------------------
(***************************************************************************)
(* The review of a commit range that changes submodule pointers             *)
(* (evidence/gitlinks.py, evidence/gitlink_projection.py,                   *)
(* repository_coverage.py, their callers in review_runner.py and            *)
(* posting/workflow.py).  OCR reviews only the ordinary files; the toolkit  *)
(* proves from the two immutable trees what those are, freezes what Git     *)
(* shows of them, lets OCR preview and review them, and states how much was *)
(* covered.  The posting job, later and perhaps elsewhere, proves all of it *)
(* again.  The trees cannot change, but the local configuration under which *)
(* Git shows their difference can, between any two of these readings.       *)
(***************************************************************************)
EXTENDS Integers, FiniteSets, SequencesExt

CONSTANTS
  CommitRanges,  \* ranges a review may be asked for
  MaxDrifts      \* bound: changes of the local configuration, and Git commands that fail

(* A tree maps each path, a sequence of names, to an entry <<type, object>>. *)
(*   base, head   the two trees                                              *)
(*   renames      the paths that left and came which Git takes for one file  *)
(*   readable     ls-tree answers within its bounds                          *)
(*   modules      the .gitmodules of both: "fine", "unsafe" names, "broken"  *)
(*   capable      the installed OCR supports the projection, and the base is *)
(*                the merge base                                             *)
NoEntry == <<"none", 0>>

(* What the local configuration makes of a diff: as committed, with other    *)
(* hunk headers, with another line count, with the pointers shown although   *)
(* they are to be ignored, or with one change hidden; or an input that is    *)
(* not read: a link, an include, too large, or replaced while it was opened. *)
LocalGit == {"plain", "headers", "binary", "links", "hiding", "unsafe"}

Entries == {NoEntry} \cup ({"file", "link", "symlink"} \X (Nat \ {0}))

IsLink(e) == e[1] = "link"

(* Git (external) pairs a path that left with at most one that came, and a   *)
(* pointer only with the same pointer; files need not be the same, but alike.*)
Renamed(r) ==
  /\ r.renames \subseteq {m \in (DOMAIN r.base) \X (DOMAIN r.base) :
                            /\ r.base[m[1]] # NoEntry /\ r.head[m[1]] = NoEntry
                            /\ r.base[m[2]] = NoEntry /\ r.head[m[2]] # NoEntry
                            /\ IsLink(r.base[m[1]]) \/ IsLink(r.head[m[2]]) => r.base[m[1]] = r.head[m[2]]}
  /\ \A m, n \in r.renames : m[1] = n[1] \/ m[2] = n[2] => m = n

ASSUME GitlinkAssumption == MaxDrifts \in Nat
ASSUME RangeAssumption ==
  \A r \in CommitRanges :
    LET paths == DOMAIN r.base IN
    /\ IsFiniteSet(paths) /\ <<>> \notin paths
    /\ r.base \in [paths -> Entries] /\ r.head \in [paths -> Entries]
    /\ Renamed(r)

VARIABLES
  glRange,   \* the commit range of this review
  localGit,  \* the local configuration now
  drifts,
  glStage,
  glPart,    \* the next part of a reading of several Git commands
  frozen,    \* GitlinkProjection of the current job
  chosen,    \* selected_diff: the records OCR is to review
  seen,      \* what OCR reviewed and says of it
  glResult   \* the result or the status handed to the posting job

gitlinkVars == <<glRange, localGit, drifts, glStage, glPart, frozen, chosen, seen, glResult>>

TreePaths == DOMAIN glRange.base
OldAt(p) == glRange.base[p]
NewAt(p) == glRange.head[p]
Pointer(e) == IF IsLink(e) THEN e[2] ELSE 0

-----------------------------------------------------------------------------
(* The input plan (plan_gitlink_input).                                      *)

LinkPaths == {p \in TreePaths : Pointer(OldAt(p)) # Pointer(NewAt(p))}
LinkKind(p) ==
  IF OldAt(p) # NoEntry /\ NewAt(p) # NoEntry /\ IsLink(OldAt(p)) # IsLink(NewAt(p)) THEN "transition"
  ELSE IF Pointer(OldAt(p)) = 0 THEN "added"
  ELSE IF Pointer(NewAt(p)) = 0 THEN "deleted" ELSE "updated"
LinksOfKind(k) == {p \in LinkPaths : LinkKind(p) = k}

OrdinaryPaths == {p \in TreePaths : OldAt(p) # NewAt(p) /\ ~IsLink(OldAt(p)) /\ ~IsLink(NewAt(p))}

(* A pointer takes the place of a directory, or a directory of a pointer.    *)
DirectoryTransition(p) ==
  \E q \in TreePaths : /\ IsStrictPrefix(p, q)
                       /\ \/ LinkKind(p) = "added" /\ OldAt(q) # NoEntry
                          \/ LinkKind(p) = "deleted" /\ NewAt(q) # NoEntry

Moves == {m \in LinksOfKind("deleted") \X LinksOfKind("added") : OldAt(m[1]) = NewAt(m[2])}
MoveIsAmbiguous == \E m, n \in Moves : m # n /\ (m[1] = n[1] \/ m[2] = n[2])

PlanRefused == \/ LinksOfKind("transition") # {}
               \/ \E p \in LinkPaths : DirectoryTransition(p)
               \/ MoveIsAmbiguous
               \/ glRange.modules = "broken"

(* GitlinkInputPlan.counts: a move is counted once, and neither as an        *)
(* addition nor as a deletion.                                               *)
MovedPaths == UNION {{m[1], m[2]} : m \in Moves}
LinkCounts == [added |-> Cardinality(LinksOfKind("added") \ MovedPaths),
               updated |-> Cardinality(LinksOfKind("updated")),
               deleted |-> Cardinality(LinksOfKind("deleted") \ MovedPaths),
               moved |-> Cardinality(Moves)]

-----------------------------------------------------------------------------
(* Git (external): the records of a raw diff.                                *)

NoPath == <<>>
RawRecord(old, new) == [old |-> old, new |-> new]
RawRecords ==
  LET inPlace == {p \in TreePaths : OldAt(p) # NewAt(p) /\ \A m \in glRange.renames : p # m[1] /\ p # m[2]}
  IN {RawRecord(m[1], m[2]) : m \in glRange.renames}
     \cup {RawRecord(IF OldAt(p) = NoEntry THEN NoPath ELSE p, IF NewAt(p) = NoEntry THEN NoPath ELSE p) : p \in inPlace}
OldEntry(r) == IF r.old = NoPath THEN NoEntry ELSE OldAt(r.old)
NewEntry(r) == IF r.new = NoPath THEN NoEntry ELSE NewAt(r.new)
OfLink(r) == IsLink(OldEntry(r)) \/ IsLink(NewEntry(r))

RawDiff(reveal) ==
  LET shown == {r \in RawRecords : reveal \/ localGit = "links" \/ ~OfLink(r)}
  IN IF localGit = "hiding" /\ shown # {} THEN shown \ {CHOOSE r \in shown : TRUE} ELSE shown

(* The patch of an ordinary record: what its fingerprint and what its line   *)
(* counts depend on besides the record.                                      *)
PatchText == IF localGit \in {"headers", "binary"} THEN localGit ELSE "plain"
PatchLines == IF localGit = "binary" THEN "binary" ELSE "plain"

-----------------------------------------------------------------------------
(* Freezing and checking again.                                              *)

NotFrozen == [digest |-> "none", original |-> {}, ordinary |-> {}, text |-> "none", lines |-> "none"]
NoReview == [selected |-> {}, completed |-> {}, text |-> "none"]
NoGitlinkResult == [kind |-> "none"]

ReadingParts == <<"digest", "reveal", "project", "patch", "redigest">>
Freezing == {"freeze", "postFreeze"}
Verifying == {"before", "after", "postVerify"}

(* _check_tree_identity: every changed endpoint once, and nothing else.      *)
NothingElse(records) ==  \* slip: an endpoint that is missing goes unnoticed
  /\ {r.old : r \in records} \ {NoPath} \subseteq LinkPaths \cup OrdinaryPaths
  /\ {r.new : r \in records} \ {NoPath} \subseteq LinkPaths \cup OrdinaryPaths
TreesAgree(records) ==
  /\ \A r, s \in records : r # s => (r.old = NoPath \/ r.old # s.old) /\ (r.new = NoPath \/ r.new # s.new)
  /\ {r.old : r \in records} \ {NoPath} = {p \in LinkPaths \cup OrdinaryPaths : OldAt(p) # NoEntry}
  /\ {r.new : r \in records} \ {NoPath} = {p \in LinkPaths \cup OrdinaryPaths : NewAt(p) # NoEntry}
Regular(e) == e[1] \in {"none", "file"}
InputDigest == localGit
InputsSafe == localGit # "unsafe"

(* make_gitlink_projection                                                   *)
Qualifies(part) ==
  CASE part = "digest"   -> glRange.modules = "fine" /\ InputsSafe
    [] part = "reveal"   -> TreesAgree(RawDiff(TRUE))
    [] part = "project"  -> /\ RawDiff(FALSE) = {r \in frozen.original : ~OfLink(r)}
                            /\ \A r \in RawDiff(FALSE) : Regular(OldEntry(r)) /\ Regular(NewEntry(r))
    [] part = "patch"    -> TRUE
    [] part = "redigest" -> frozen.digest = InputDigest
Reading(part) ==
  CASE part = "digest"   -> [frozen EXCEPT !.digest = InputDigest]
    [] part = "reveal"   -> [frozen EXCEPT !.original = RawDiff(TRUE)]
    [] part = "project"  -> [frozen EXCEPT !.ordinary = RawDiff(FALSE)]
    [] part = "patch"    -> [frozen EXCEPT !.text = PatchText, !.lines = PatchLines]
    [] part = "redigest" -> frozen

(* verify_gitlink_projection: the plan is immutable, all else is read again. *)
Unchanged(part) ==
  CASE part = "digest"  -> frozen.digest = InputDigest /\ InputsSafe
    [] part = "reveal"  -> frozen.original = RawDiff(TRUE)
    [] part = "project" -> frozen.ordinary = RawDiff(FALSE)
    [] part = "patch"   -> frozen.text = PatchText /\ frozen.lines = PatchLines

WhenDone(stage) ==
  CASE stage = "freeze"     -> "preview"
    [] stage = "before"     -> "model"
    [] stage = "after"      -> "finalize"
    [] stage = "postFreeze" -> "bind"
    [] stage = "postVerify" -> "published"
WhenRefused(stage) ==
  CASE stage = "freeze" -> "unqualified"
    [] stage \in {"before", "after"} -> "error"
    [] stage \in {"postPlan", "postFreeze", "bind", "postVerify"} -> "refused"

GoesTo(stage) == glStage' = stage /\ glPart' = 1

(* _git_output: a command that is late, too long or complains ends the       *)
(* reading it is part of.                                                    *)
GitFails ==
  /\ glStage \in Freezing \cup Verifying /\ drifts < MaxDrifts
  /\ drifts' = drifts + 1 /\ GoesTo(WhenRefused(glStage))
  /\ UNCHANGED <<glRange, localGit, frozen, chosen, seen, glResult>>

FreezePart ==
  /\ glStage \in Freezing
  /\ IF ~Qualifies(ReadingParts[glPart]) THEN GoesTo(WhenRefused(glStage)) /\ UNCHANGED frozen
     ELSE /\ frozen' = Reading(ReadingParts[glPart])
          /\ IF glPart = Len(ReadingParts) THEN GoesTo(WhenDone(glStage)) ELSE glPart' = glPart + 1 /\ UNCHANGED glStage
  /\ UNCHANGED <<glRange, localGit, drifts, chosen, seen, glResult>>

VerifyPart ==
  /\ glStage \in Verifying
  /\ IF ~Unchanged(ReadingParts[glPart]) THEN GoesTo(WhenRefused(glStage))
     ELSE IF ReadingParts[glPart] = "patch" THEN GoesTo(WhenDone(glStage)) ELSE glPart' = glPart + 1 /\ UNCHANGED glStage
  /\ UNCHANGED <<glRange, localGit, drifts, frozen, chosen, seen, glResult>>

-----------------------------------------------------------------------------
(* The review job.                                                           *)

(* A range without a changed pointer is reviewed as usual; one that cannot   *)
(* be planned or projected ends with a status and no review.                 *)
PlanInput ==
  /\ glStage = "plan"
  /\ IF ~glRange.readable THEN GoesTo("error")
     ELSE IF LinkPaths = {} THEN GoesTo("ordinary")
     ELSE IF PlanRefused \/ ~glRange.capable THEN GoesTo("unqualified")
     ELSE GoesTo("freeze")
  /\ UNCHANGED <<glRange, localGit, drifts, frozen, chosen, seen, glResult>>

(* coverage_from_projection                                                  *)
CoverageOf(items, state) ==
  [state |-> state, changed |-> Cardinality(frozen.ordinary), selected |-> Cardinality(items),
   completed |-> IF state = "partial" THEN Cardinality(items) ELSE 0,
   excluded |-> Cardinality(frozen.ordinary) - Cardinality(items),
   links |-> LinkCounts, changes |-> Cardinality(LinkPaths)]

(* parse_repository_coverage                                                 *)
CoverageIsValid(c) ==
  /\ c.selected <= c.changed /\ c.completed <= c.selected /\ c.excluded = c.changed - c.selected
  /\ c.changes > 0
  /\ c.changes = c.links.added + c.links.updated + c.links.deleted + 2 * c.links.moved
  /\ c.state = "partial" => c.selected > 0 /\ c.completed = c.selected
  /\ c.state = "not_started" => c.selected = 0 /\ c.completed = 0

(* OCR previews the diff it sees; every record must be there with its line   *)
(* counts (qualify_gitlink_preview).  With nothing to review no model runs.  *)
Preview ==
  /\ glStage = "preview"
  /\ IF RawDiff(FALSE) = frozen.ordinary /\ PatchLines = frozen.lines
     THEN \E items \in SUBSET frozen.ordinary :
            /\ items = {} => CoverageIsValid(CoverageOf({}, "not_started"))
            /\ chosen' = items
            /\ IF items = {} THEN /\ glResult' = [kind |-> "advice", coverage |-> CoverageOf({}, "not_started")]
                                  /\ GoesTo("postPlan")
                             ELSE GoesTo("before") /\ UNCHANGED glResult
     ELSE GoesTo("error") /\ UNCHANGED <<chosen, glResult>>
  /\ UNCHANGED <<glRange, localGit, drifts, frozen, seen>>

(* OCR (external) reviews the chosen records of the diff it sees now, or all *)
(* of it, and may fail on one.                                               *)
ModelReviews ==
  /\ glStage = "model"
  /\ \E items \in {chosen \cap RawDiff(FALSE), RawDiff(FALSE)} :
     \E failed \in {{}} \cup {{r} : r \in items} :
       seen' = [selected |-> items, completed |-> items \ failed, text |-> PatchText]
  /\ GoesTo("after")
  /\ UNCHANGED <<glRange, localGit, drifts, frozen, chosen, glResult>>

(* qualify_gitlink_manifest: exactly the chosen records, all completed, each *)
(* with the fingerprint that was frozen.                                     *)
ManifestProves(items, manifest) ==
  manifest.selected = items /\ manifest.completed = items /\ manifest.text = frozen.text

(* A filtered result loses its manifest and carries the selection proof.     *)
FinalizeResult ==
  /\ glStage = "finalize"
  /\ IF ManifestProves(chosen, seen) /\ CoverageIsValid(CoverageOf(chosen, "partial"))
     THEN \E kind \in {"manifest", "proof"} :
            /\ glResult' = [kind |-> kind, coverage |-> CoverageOf(chosen, "partial"),
                            items |-> IF kind = "proof" THEN chosen ELSE seen.selected,
                            text |-> IF kind = "proof" THEN frozen.text ELSE seen.text]
            /\ GoesTo("postPlan")
     ELSE GoesTo("error") /\ UNCHANGED glResult
  /\ UNCHANGED <<glRange, localGit, drifts, frozen, chosen, seen>>

-----------------------------------------------------------------------------
(* The posting job (verified_partial_repository_coverage and                 *)
(* verified_no_model_repository_coverage).                                   *)

PostPlan ==
  /\ glStage = "postPlan"
  /\ frozen' = NotFrozen /\ GoesTo("postFreeze")
  /\ UNCHANGED <<glRange, localGit, drifts, chosen, seen, glResult>>

(* What the result says was selected must be records of the new projection;  *)
(* a manifest proves them as at the review, a proof carries their digest.    *)
EntriesOfManifest ==
  /\ glResult.kind = "manifest" /\ glResult.items \subseteq frozen.ordinary
  /\ ManifestProves(glResult.items, [selected |-> glResult.items, completed |-> glResult.items,
                                     text |-> glResult.text])
EntriesOfProof ==
  /\ glResult.kind = "proof" /\ glResult.items \subseteq frozen.ordinary /\ glResult.items # {}
  /\ glResult.text = frozen.text
ResultBinds ==
  /\ CoverageIsValid(glResult.coverage)
  /\ IF glResult.kind = "advice" THEN glResult.coverage = CoverageOf({}, "not_started")
     ELSE /\ EntriesOfManifest \/ EntriesOfProof
          /\ glResult.coverage = CoverageOf(glResult.items, "partial")
BindResult ==
  /\ glStage = "bind"
  /\ IF ResultBinds THEN GoesTo("postVerify") ELSE GoesTo("refused")
  /\ UNCHANGED <<glRange, localGit, drifts, frozen, chosen, seen, glResult>>

-----------------------------------------------------------------------------
(* Somebody, or another step of the pipeline, changes the configuration.     *)
GitDrifts ==
  /\ drifts < MaxDrifts /\ glStage \notin {"plan", "error", "refused", "unqualified", "ordinary", "published"}
  /\ drifts' = drifts + 1
  /\ \E l \in LocalGit \ {localGit} : localGit' = l
  /\ UNCHANGED <<glRange, glStage, glPart, frozen, chosen, seen, glResult>>

GitlinkInit ==
  /\ glRange \in CommitRanges /\ localGit = "plain" /\ drifts = 0
  /\ glStage = "plan" /\ glPart = 1 /\ frozen = NotFrozen
  /\ chosen = {} /\ seen = NoReview /\ glResult = NoGitlinkResult

GitlinkNext == \/ PlanInput \/ FreezePart \/ VerifyPart \/ Preview \/ ModelReviews \/ FinalizeResult
               \/ GitFails \/ PostPlan \/ BindResult \/ GitDrifts

-----------------------------------------------------------------------------
(* What a published review says it covered is what the two trees differ in   *)
(* and what the model completed: every changed path is counted once, as a    *)
(* completed, an excluded or an unreviewed one, whatever the configuration   *)
(* did in between.                                                           *)
OrdinaryRecords == {r \in RawRecords : ~OfLink(r)}
CoverageIsTrue ==
  glStage = "published" =>
    LET c == glResult.coverage IN
    /\ c.changed = Cardinality(OrdinaryRecords)
    /\ c.completed = Cardinality(seen.completed) /\ seen.completed \subseteq OrdinaryRecords
    /\ c.excluded = Cardinality(OrdinaryRecords \ seen.completed)
    /\ c.links.added + c.links.updated + c.links.deleted + 2 * c.links.moved
         = Cardinality({p \in TreePaths : OldAt(p) # NewAt(p) /\ (IsLink(OldAt(p)) \/ IsLink(NewAt(p)))})

(* The text the model read is the text the posting job proves again, even if *)
(* the configuration was changed and changed back around the model.          *)
ReviewedTextIsProven ==
  glStage = "published" /\ glResult.kind # "advice" =>
    seen.text = frozen.text /\ seen.completed = glResult.items

(* Under one configuration, with Git answering, the posting job accepts whatever the review job   *)
(* handed over: the two prove the same thing.                                *)
ProvenIsAccepted == glStage = "refused" => drifts > 0

(* A status that says no model ran is true of this run.                      *)
AdviceMeansNoModel ==
  glStage = "published" /\ glResult.kind = "advice" => seen = NoReview

GitlinkReviewSafe ==
  CoverageIsTrue /\ ReviewedTextIsProven /\ ProvenIsAccepted /\ AdviceMeansNoModel
=============================================================================
