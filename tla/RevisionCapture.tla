--------------------------- MODULE RevisionCapture ---------------------------
(***************************************************************************)
(* Which revision of a merge request is reviewed, under whose policy, and   *)
(* whether it is still the current one when the review is posted            *)
(* (providers/gitlab.py, review_identity.py, posting/freshness.py,          *)
(* evidence/review_range.py, the fetches and the ancestry proof of          *)
(* evidence/repository.py, _prepare_policy_context of review_runner.py).    *)
(* GitLab offers no reading of all of it at once: the merge request, its    *)
(* diff version, the target branch, the project and its default branch are  *)
(* five requests, and people push, retarget, protect and rewrite between    *)
(* any two of them.  The review job reads them once, the posting job again. *)
(***************************************************************************)
EXTENDS Integers, FiniteSets, SequencesExt

CONSTANTS
  CommitSteps,    \* what a commit may make of its parent, "s", "r", "t" and "w" among it
  Setups,         \* what a pipeline may start from: settings, forge and clone
  FetchDepth,     \* MAX_ANCESTRY_FETCH_DEPTH
  MaxForgeMoves,  \* bound: changes by other people
  MaxReadFaults   \* bound: requests and fetches that fail

(* A commit is its lineage: the sequence of steps from the root commit to    *)
(* it.  Its ancestors are the prefixes, its parent is the front.             *)
(*                                                                           *)
(* A setup:                                                                  *)
(*   mode       OCR_GITLAB_TARGET_PROTECTION_MODE: auto, required, unprotected *)
(*   event      the pipeline: "detached" or another form                     *)
(*   commit     CI_COMMIT_SHA: the "head" or a "synthetic" merge             *)
(*   sourceSha  CI_MERGE_REQUEST_SOURCE_BRANCH_SHA: "unset", "head", "other" *)
(*   enriched   OCR_REVIEW_CONTEXT_MODE asks for enriched context            *)
(*   rule       --rule: "none", "external", or a "repository" path           *)
(*   ruleIn     trees that have that path: "policy", "base", "head", or      *)
(*              "link" when the head has it as a symbolic link               *)
(*   forge      the merge request and the branches when the pipeline starts  *)
(*   sameJob    the posting step runs in the job that reviewed               *)
(*   depth      the depth of the runner's clone; 0 is a full one             *)
Commit == Seq(CommitSteps)
ASSUME RevisionAssumption ==
  /\ {"s", "r", "t", "w"} \subseteq CommitSteps
  /\ FetchDepth \in Nat \ {0} /\ MaxForgeMoves \in Nat /\ MaxReadFaults \in Nat

(* A merge request has a diff of its head, unless the diff is being made.    *)
ASSUME SetupAssumption ==
  \A s \in Setups :
    LET mr == s.forge.mr
        names == DOMAIN s.forge.branches
    IN  /\ s.mode \in {"auto", "required", "unprotected"} /\ s.sameJob \in BOOLEAN /\ s.depth \in Nat
        /\ DOMAIN mr = {"head", "target", "life", "version", "refs", "pending"}
        /\ mr.head \in Commit /\ mr.target \in names /\ mr.version \in Nat \ {0} /\ mr.pending \in BOOLEAN
        /\ ~mr.pending => mr.refs[3] = mr.head
        /\ s.forge.branches \in [names -> [head : Commit, protected : BOOLEAN]]
        /\ s.forge.default \in names

VARIABLES
  origin,        \* the setup this pipeline started from
  liveMr,  \* [head, target, life, version, refs, pending]
  branches,      \* [head, protected] of each branch
  defaultBranch,
  moves,         \* what others did: <<kind, branch>>
  readFaults,
  clone,         \* the job's clone: [have, cut], cut being the shallow commits
  captured,      \* GitLabReviewSnapshot, as far as it is read
  identity,      \* ReceiptReviewIdentity that the posting job is handed
  handover,      \* "none", "reviewed", "error" or the reason of a status
  verdict,       \* of the posting job: "none", "current", or why it refuses
  rcStep,
  moments        \* ghost: every <<step's job, merge request>> there was

rcVars == <<origin, liveMr, branches, defaultBranch, moves, readFaults, clone, captured, identity,
            handover, verdict, rcStep, moments>>
forgeState == <<liveMr, branches, defaultBranch, moves, moments>>

NothingRead ==
  [head |-> <<>>, target |-> "none", refs |-> <<>>, version |-> 0, targetHead |-> <<>>, targetProtected |-> FALSE,
   policyBranch |-> "none", policy |-> <<>>, policyProtected |-> FALSE]

PostingSteps ==
  {"post", "bind", "postMr", "postVersions", "postTarget", "postProject", "postDefault", "compare", "fetchOld",
   "fetchNew", "prove", "fetchHistory", "proveAgain", "posted"}
JobAt(s) == IF s \in PostingSteps THEN "posting" ELSE "review"

-----------------------------------------------------------------------------
(* The forge (external).  A diff's refs are its merge base, the target's     *)
(* head when it was computed, and the source head.                           *)

CommonAncestor(a, b) == CHOOSE p \in {SubSeq(a, 1, n) : n \in 0..Len(a)} :
                          /\ IsPrefix(p, b)
                          /\ \A n \in Len(p) + 1..Len(a) : ~IsPrefix(SubSeq(a, 1, n), b)
DiffRefs(head, target) == <<CommonAncestor(head, branches[target].head), branches[target].head, head>>

OtherDoes(kind, branch) ==
  /\ Cardinality(moves) < MaxForgeMoves /\ rcStep # "posted"
  /\ <<kind, branch>> \notin moves /\ moves' = moves \cup {<<kind, branch>>}
MergeRequestBecomes(mr) ==
  /\ liveMr' = mr /\ moments' = moments \cup {<<JobAt(rcStep), mr>>}
  /\ UNCHANGED <<origin, branches, defaultBranch, readFaults, clone, captured, identity, handover, verdict, rcStep>>
BranchBecomes(b, branch) ==
  /\ branches' = [branches EXCEPT ![b] = branch]
  /\ UNCHANGED <<origin, liveMr, defaultBranch, readFaults, clone, captured, identity, handover, verdict,
                 rcStep, moments>>

Pushed ==
  /\ OtherDoes("push", "source") /\ liveMr.life = "opened"
  /\ \E head \in {Append(liveMr.head, "s"), Append(Front(liveMr.head), "r"),
                  Append(branches[liveMr.target].head, "s")} :
       MergeRequestBecomes([liveMr EXCEPT !.head = head, !.pending = TRUE])

(* The new diff is there some time after the push.                           *)
DiffReady ==
  /\ liveMr.pending /\ rcStep # "posted"
  /\ MergeRequestBecomes([liveMr EXCEPT !.pending = FALSE, !.version = @ + 1,
                                              !.refs = DiffRefs(liveMr.head, liveMr.target)])
  /\ UNCHANGED moves

Retargeted ==
  \E b \in DOMAIN branches \ {liveMr.target} :
    /\ OtherDoes("retarget", b) /\ liveMr.life = "opened"
    /\ MergeRequestBecomes([liveMr EXCEPT !.target = b, !.version = @ + 1,
                                                !.refs = DiffRefs(liveMr.head, b)])

LifeChanged ==
  \E life \in {"merged", "closed", "opened"} \ {liveMr.life} :
    /\ liveMr.life # "merged" /\ OtherDoes("life", life)
    /\ MergeRequestBecomes([liveMr EXCEPT !.life = life])

BranchMoved ==
  \E b \in DOMAIN branches :
    \/ /\ OtherDoes("advance", b)
       /\ \E n \in {1, FetchDepth} :
            BranchBecomes(b, [branches[b] EXCEPT !.head = @ \o [i \in 1..n |-> "t"]])
    \/ /\ OtherDoes("rewrite", b) /\ branches[b].head # <<>>
       /\ BranchBecomes(b, [branches[b] EXCEPT !.head = Append(Front(@), "w")])
    \/ /\ OtherDoes("protect", b)
       /\ BranchBecomes(b, [branches[b] EXCEPT !.protected = ~@])

DefaultChanged ==
  \E b \in DOMAIN branches \ {defaultBranch} :
    /\ OtherDoes("default", b) /\ defaultBranch' = b
    /\ UNCHANGED <<origin, liveMr, branches, readFaults, clone, captured, identity, handover, verdict, rcStep,
                   moments>>

-----------------------------------------------------------------------------
(* The job's clone (external: git).                                          *)

Lineage(c) == {SubSeq(c, 1, n) : n \in 0..Len(c)}
Newest(c, depth) == {p \in Lineage(c) : Len(p) > Len(c) - depth}

(* git fetch --depth: the last commits of the line, and a cut below them.    *)
Deepened(c, depth) ==
  [have |-> clone.have \cup Newest(c, depth),
   cut |-> (clone.cut \ Newest(c, depth)) \cup {p \in Newest(c, depth) : Len(p) = Len(c) - depth + 1 /\ p # <<>>}]

(* merge-base --is-ancestor sees a commit's line down to the first cut.      *)
LineSeen(c) == {p \in Lineage(c) : \A q \in Lineage(c) : Len(q) > Len(p) => q \in clone.have \ clone.cut}

(* is_ancestor: an absence below a cut proves nothing.                       *)
DeniesWhenShallow(older, newer) == IF older \in LineSeen(newer) THEN "yes" ELSE "no"  \* slip
IsAncestor(older, newer) ==
  IF older \in LineSeen(newer) THEN "yes" ELSE IF clone.cut # {} THEN "shallow" ELSE "no"

-----------------------------------------------------------------------------
(* The identities (review_identity.py, _parse_review_identity).              *)

ReviewedHead == origin.forge.mr.head
ReviewedBase == origin.forge.mr.refs[1]

PipelineIsOf(head) ==
  /\ origin.event = "detached" /\ origin.commit = "head" /\ head = ReviewedHead
  /\ origin.sourceSha \in {"unset", "head"}

SeparatePolicy(i) == ~i.targetProtected /\ origin.mode = "auto"
Readable(i) ==
  /\ i # NothingRead /\ i.head = i.refs[3]
  /\ IF i.targetProtected \/ origin.mode = "unprotected"
     THEN /\ i.policyBranch = i.target /\ i.policy = i.targetHead
          /\ i.policyProtected = i.targetProtected
     ELSE origin.mode = "auto" /\ i.policyBranch # i.target /\ i.policyProtected

-----------------------------------------------------------------------------
(* How a reading ends.                                                       *)

OnlyReads == UNCHANGED <<origin, forgeState, readFaults, clone>>

(* The review job writes a status in the job's private directory, or none.   *)
ReviewEnds(reason) ==
  /\ handover' = reason /\ rcStep' = "post" /\ UNCHANGED <<captured, identity, verdict>>
PostingEnds(reason) ==
  /\ verdict' = reason /\ rcStep' = "posted" /\ UNCHANGED <<captured, identity, handover>>

PostingReason == [stale |-> "source_changed", terminal |-> "terminal", unavailable |-> "provider_unavailable"]
AcquisitionEnds(reason) ==
  IF JobAt(rcStep) = "review" THEN ReviewEnds(reason) ELSE PostingEnds(PostingReason[reason])

In(step) == rcStep \in {step[1], step[2]}
Next2(step) == IF JobAt(rcStep) = "review" THEN step[1] ELSE step[2]

MrStep == <<"mr", "postMr">>
VersionsStep == <<"versions", "postVersions">>
TargetStep == <<"target", "postTarget">>
ProjectStep == <<"project", "postProject">>
DefaultStep == <<"default", "postDefault">>
ReadStep == <<"refs", "compare">>

-----------------------------------------------------------------------------
(* acquire_review_snapshot, request by request.                              *)

(* A request fails, is late, or its answer is too large or no JSON.          *)
RequestFails ==
  /\ In(MrStep) \/ In(VersionsStep) \/ In(TargetStep) \/ In(ProjectStep) \/ In(DefaultStep)
  /\ readFaults < MaxReadFaults /\ readFaults' = readFaults + 1
  /\ AcquisitionEnds("unavailable")
  /\ UNCHANGED <<origin, forgeState, clone>>

ReadMergeRequest ==
  /\ In(MrStep)
  /\ IF liveMr.head # ReviewedHead THEN AcquisitionEnds("stale")
     ELSE IF liveMr.life # "opened" THEN AcquisitionEnds("terminal")
     ELSE IF liveMr.pending THEN AcquisitionEnds("unavailable")
     ELSE /\ captured' = [NothingRead EXCEPT !.head = liveMr.head, !.target = liveMr.target,
                                             !.refs = liveMr.refs]
          /\ rcStep' = Next2(VersionsStep) /\ UNCHANGED <<identity, handover, verdict>>
  /\ OnlyReads

(* The newest diff version must have the refs the merge request had.         *)
ReadVersions ==
  /\ In(VersionsStep)
  /\ IF liveMr.refs # captured.refs THEN AcquisitionEnds("unavailable")
     ELSE /\ captured' = [captured EXCEPT !.version = liveMr.version]
          /\ rcStep' = Next2(TargetStep) /\ UNCHANGED <<identity, handover, verdict>>
  /\ OnlyReads

ReadTarget ==
  /\ In(TargetStep)
  /\ LET b == branches[captured.target]
         target == [captured EXCEPT !.targetHead = b.head, !.targetProtected = b.protected]
     IN IF ~b.protected /\ origin.mode = "required" THEN AcquisitionEnds("unavailable")
        ELSE /\ UNCHANGED <<identity, handover, verdict>>
             /\ IF ~b.protected /\ origin.mode = "auto"
                THEN captured' = target /\ rcStep' = Next2(ProjectStep)
                ELSE /\ captured' = [target EXCEPT !.policyBranch = captured.target, !.policy = b.head,
                                                   !.policyProtected = b.protected]
                     /\ rcStep' = Next2(ReadStep)
  /\ OnlyReads

ReadProject ==
  /\ In(ProjectStep)
  /\ captured' = [captured EXCEPT !.policyBranch = defaultBranch]
  /\ rcStep' = Next2(DefaultStep) /\ UNCHANGED <<identity, handover, verdict>>
  /\ OnlyReads

ReadDefault ==
  /\ In(DefaultStep)
  /\ LET b == branches[captured.policyBranch] IN
     IF ~b.protected THEN AcquisitionEnds("unavailable")
     ELSE /\ captured' = [captured EXCEPT !.policy = b.head, !.policyProtected = TRUE]
          /\ rcStep' = Next2(ReadStep) /\ UNCHANGED <<identity, handover, verdict>>
  /\ OnlyReads

-----------------------------------------------------------------------------
(* The review job (ReviewRunState, _prepare_policy_context).                 *)

GoOn(step) == rcStep' = step /\ UNCHANGED <<captured, identity, handover, verdict>>

(* resolve_review_range: the base must be seen to be an ancestor, in a clone *)
(* that is not fetched into for it.                                          *)
ProveRange ==
  /\ rcStep = "range"
  /\ IF IsAncestor(ReviewedBase, ReviewedHead) = "yes" THEN GoOn("pipeline") ELSE ReviewEnds("error")
  /\ OnlyReads

CheckPipeline ==
  /\ rcStep = "pipeline"
  /\ IF PipelineIsOf(ReviewedHead) THEN GoOn("mr") ELSE ReviewEnds("unavailable")
  /\ OnlyReads

CompareRefs ==
  /\ rcStep = "refs"
  /\ IF captured.refs[1] # ReviewedBase \/ captured.refs[3] # ReviewedHead THEN ReviewEnds("stale")
     ELSE GoOn("fetchTarget")
  /\ OnlyReads

(* The rules come from the captured policy commit.  A path that only the     *)
(* reviewed head has is a setup that waits for the policy branch.            *)
SetupIsPending == "base" \notin origin.ruleIn /\ {"head", "link"} \cap origin.ruleIn # {}
SetupIsRecorded == "link" \notin origin.ruleIn /\ Readable(captured)
MaterializeRules ==
  /\ rcStep = "rules"
  /\ LET hands(reason) == /\ handover' = reason /\ identity' = captured /\ rcStep' = "post"
                          /\ UNCHANGED <<captured, verdict>>
     IN IF ~captured.policyProtected /\ origin.enriched THEN ReviewEnds("error")
        ELSE IF origin.rule # "repository"
             THEN IF captured.targetProtected THEN hands("reviewed") ELSE ReviewEnds("error")
        ELSE IF "policy" \in origin.ruleIn THEN hands("reviewed")
        ELSE IF captured.policyProtected /\ SetupIsPending /\ SetupIsRecorded THEN hands("setup")
        ELSE ReviewEnds("error")
  /\ OnlyReads

-----------------------------------------------------------------------------
(* The posting job (validate_review_freshness,                               *)
(* post_failure_note for a status without a note).                           *)

AcceptIdentity ==
  IF handover = "setup" /\ captured.policy # identity.policy THEN PostingEnds("policy_changed")
  ELSE PostingEnds("current")

StartPosting ==
  /\ rcStep = "post"
  /\ CASE handover = "error" -> PostingEnds("failed")
       [] handover \in {"stale", "terminal", "unavailable"} ->
            PostingEnds(IF PipelineIsOf(ReviewedHead) THEN "noted" ELSE "no_identity")
       [] handover \in {"reviewed", "setup"} ->
            IF Readable(identity) THEN GoOn("bind") ELSE PostingEnds("receipt_unavailable")
  /\ moments' = moments \cup {<<"posting", liveMr>>}
  /\ UNCHANGED <<origin, liveMr, branches, defaultBranch, moves, readFaults, clone>>

BindInvocation ==
  /\ rcStep = "bind"
  /\ IF ~origin.sameJob \/ ~PipelineIsOf(identity.head) THEN PostingEnds("invocation_changed")
     ELSE IF identity.refs[1] # ReviewedBase THEN PostingEnds("diff_changed")
     ELSE GoOn("postMr")
  /\ OnlyReads

DiffRefsOnly == captured.refs = identity.refs  \* slip
DiffStands == captured.refs = identity.refs /\ captured.version = identity.version
TargetStands ==
  /\ captured.target = identity.target /\ captured.targetHead = identity.targetHead
  /\ captured.targetProtected = identity.targetProtected
AuthorityStands ==
  captured.policyBranch = identity.policyBranch /\ captured.policyProtected = identity.policyProtected

CompareTuple ==
  /\ rcStep = "compare"
  /\ IF ~DiffStands THEN PostingEnds("diff_changed")
     ELSE IF ~TargetStands THEN PostingEnds("target_changed")
     ELSE IF ~AuthorityStands THEN PostingEnds("authority_changed")
     ELSE IF captured.policy = identity.policy THEN AcceptIdentity
     ELSE IF ~SeparatePolicy(identity) THEN PostingEnds("authority_changed")
     ELSE GoOn("fetchOld")
  /\ OnlyReads

(* Only a policy that moved forward on its own branch is accepted.           *)
ProveForward ==
  /\ rcStep \in {"prove", "proveAgain"}
  /\ LET answer == IsAncestor(identity.policy, captured.policy) IN
     CASE answer = "yes" -> AcceptIdentity
       [] answer = "no" -> PostingEnds("policy_rewritten")
       [] answer = "shallow" /\ rcStep = "prove" -> GoOn("fetchHistory")
       [] answer = "shallow" /\ rcStep = "proveAgain" -> PostingEnds("ancestry_unavailable")
  /\ OnlyReads

-----------------------------------------------------------------------------
(* The fetches of both jobs (fetch_commit, fetch_commit_history).            *)

FetchSteps ==
  [fetchTarget |-> [commit |-> captured.targetHead, next |-> "fetchPolicy", depth |-> 1],
   fetchPolicy |-> [commit |-> captured.policy, next |-> "rules", depth |-> 1],
   fetchOld |-> [commit |-> identity.policy, next |-> "fetchNew", depth |-> 1],
   fetchNew |-> [commit |-> captured.policy, next |-> "prove", depth |-> 1],
   fetchHistory |-> [commit |-> captured.policy, next |-> "proveAgain", depth |-> FetchDepth]]
Needed(fetch) == fetch.depth > 1 \/ fetch.commit \notin clone.have

Fetches ==
  /\ rcStep \in DOMAIN FetchSteps
  /\ LET fetch == FetchSteps[rcStep] IN
     /\ clone' = IF Needed(fetch) THEN Deepened(fetch.commit, fetch.depth) ELSE clone
     /\ GoOn(fetch.next)
  /\ UNCHANGED <<origin, forgeState, readFaults>>

FetchFails ==
  /\ rcStep \in DOMAIN FetchSteps /\ Needed(FetchSteps[rcStep])
  /\ readFaults < MaxReadFaults /\ readFaults' = readFaults + 1
  /\ IF JobAt(rcStep) = "review" THEN ReviewEnds("unavailable") ELSE PostingEnds("ancestry_unavailable")
  /\ UNCHANGED <<origin, forgeState, clone>>

-----------------------------------------------------------------------------
CloneOf(head, depth) ==
  IF depth = 0 THEN [have |-> Lineage(head), cut |-> {}]
  ELSE [have |-> Newest(head, depth), cut |-> {p \in Newest(head, depth) : Len(p) = Len(head) - depth + 1 /\ p # <<>>}]

RevisionInit ==
  /\ origin \in Setups
  /\ liveMr = origin.forge.mr /\ branches = origin.forge.branches /\ defaultBranch = origin.forge.default
  /\ moves = {} /\ readFaults = 0 /\ clone = CloneOf(origin.forge.mr.head, origin.depth)
  /\ captured = NothingRead /\ identity = NothingRead /\ handover = "none" /\ verdict = "none"
  /\ rcStep = "range" /\ moments = {<<"review", origin.forge.mr>>}

OthersMove == Pushed \/ DiffReady \/ Retargeted \/ LifeChanged \/ BranchMoved \/ DefaultChanged
Reads == RequestFails \/ ReadMergeRequest \/ ReadVersions \/ ReadTarget \/ ReadProject \/ ReadDefault
RevisionNext ==
  \/ OthersMove \/ Reads
  \/ ProveRange \/ CheckPipeline \/ CompareRefs \/ MaterializeRules
  \/ StartPosting \/ BindInvocation \/ CompareTuple \/ ProveForward
  \/ Fetches \/ FetchFails

-----------------------------------------------------------------------------
(* What is published was, at one moment of the posting job, what the merge   *)
(* request was: its source, diff, version and target all together, although  *)
(* no reading returns them together and the review job's reading may have    *)
(* mixed two moments.                                                        *)
PublishedWasWhole ==
  verdict = "current" =>
    \E m \in moments :
      /\ m[1] = "posting" /\ m[2].life = "opened"
      /\ m[2].head = identity.head /\ m[2].target = identity.target
      /\ m[2].refs = identity.refs /\ m[2].version = identity.version

(* The policy a published review followed is the authority's, or one the     *)
(* authority moved forward from; nothing a shallow clone cannot show is      *)
(* taken for forward, and "rewritten" is said only of a policy that was.     *)
PolicyStands ==
  /\ verdict = "current" =>
       /\ IsPrefix(identity.policy, captured.policy)
       /\ captured.policy # identity.policy => SeparatePolicy(identity) /\ captured.policyProtected
  /\ verdict = "policy_rewritten" => ~IsPrefix(identity.policy, captured.policy)

(* A status that sends everybody home is true: the merge request really was  *)
(* another one, or was over, at some moment of the review job.               *)
StatusIsTrue ==
  /\ handover = "stale" =>
       \E m \in moments : m[1] = "review" /\ (m[2].head # ReviewedHead \/ m[2].refs[1] # ReviewedBase)
  /\ handover = "terminal" => \E m \in moments : m[1] = "review" /\ m[2].life # "opened"

(* What the review job hands over the posting job can read, unless the       *)
(* protection of a branch changed between two requests.                      *)
CapturedIsReadable ==
  handover \in {"reviewed", "setup"} /\ ~Readable(identity) => \E b \in DOMAIN branches : <<"protect", b>> \in moves

(* A review is not refused for nothing: with every request answered, and no  *)
(* change but the authority's branch moving forward within the fetched depth, *)
(* it is published.                                                          *)
QuietReviewIsAccepted ==
  /\ verdict \notin {"none", "current"} /\ handover = "reviewed" /\ readFaults = 0 /\ origin.sameJob
  /\ moves \subseteq {<<"advance", defaultBranch>>} /\ identity.policyBranch # identity.target
  => Len(captured.policy) - Len(identity.policy) >= FetchDepth

RevisionCaptureSafe ==
  PublishedWasWhole /\ PolicyStands /\ StatusIsTrue /\ CapturedIsReadable /\ QuietReviewIsAccepted
=============================================================================
