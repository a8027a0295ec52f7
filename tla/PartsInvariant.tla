---------------------------- MODULE PartsInvariant ----------------------------
(***************************************************************************)
(* Why the properties of the smaller components hold: for each of them an   *)
(* invariant that every step preserves and that implies its properties.     *)
(***************************************************************************)
EXTENDS StatusNotes, GitLabClient, DlpAudit, RevisionCapture, GitlinkReview

-----------------------------------------------------------------------------
(* The status notes (StatusNotes): what a status job and the merge request   *)
(* know of each other at every step, and in which order the jobs that clean   *)
(* up wrote their notes.                                                      *)
StatusSpec == StatusInit /\ [][StatusNext]_statusVars

Early == {"idle", "fresh", "coverage", "lifecycle", "collect", "prepost", "post"}
Late == {"final", "publish", "prune", "delete", "undo"}
TerminalSteps == {"termLife", "termList", "termWrite", "termRead", "termExit"}

StatusTypes ==
  /\ noteBoard \subseteq StatusNote
  /\ mrState \in {"opened"} \cup Terminal /\ headMoved \in BOOLEAN /\ policyMoved \in BOOLEAN
  /\ statusFaults \in Nat
  /\ statusPlan \in [StatusJob -> StatusPlan]
  /\ step \in [StatusJob -> Early \cup Late \cup TerminalSteps \cup {"done"}]
  /\ ownNote \in [StatusJob -> SUBSET StatusNote]
  /\ listed \in [StatusJob -> SUBSET StatusNote]
  /\ upserted \in [StatusJob -> SUBSET StatusNote]
  /\ inCleanup \in [StatusJob -> BOOLEAN]
  /\ statusExit \in [StatusJob -> {-1, 0, 1}]
  /\ lateWrites \in [StatusJob -> Nat]
  /\ overlapped \in BOOLEAN

(* What a job is doing fits what it was asked to do, and it owns one note    *)
(* from the confirmed write on.                                              *)
StatusAsked(j) ==
  /\ step[j] \in (Early \ {"idle"}) \cup Late => statusPlan[j].reason \notin {"silent", "terminal"}
  /\ step[j] \in TerminalSteps => statusPlan[j].reason = "terminal"
  /\ step[j] \in Early \cup TerminalSteps => ownNote[j] = {}
  /\ step[j] \in Late => ownNote[j] = {Created(j)}
  /\ step[j] = "publish" => statusPlan[j].draft
  /\ ownNote[j] \in {{}, {Created(j)}}
  /\ inCleanup[j] => /\ ownNote[j] = {Created(j)} /\ statusPlan[j].reason = "setup"
                     /\ step[j] \in {"prune", "delete", "done"}

(* A terminal note replaces its like; what a job may delete are setup notes. *)
MayList(j, n) ==
  IF statusPlan[j].reason = "terminal" THEN n[1] = "live" /\ n[3] = "terminal" ELSE n[3] = "setup"

(* Nothing of a job that has not written yet is on the merge request or in   *)
(* anybody's list, and none of the drafts a job has published.               *)
StatusListed(j) ==
  /\ \A n \in listed[j] : MayList(j, n)
  /\ statusPlan[j].reason \notin {"terminal", "setup"} => listed[j] = {}
  /\ step[j] \in Early =>
       /\ \A n \in noteBoard : n[2] # j
       /\ \A k \in StatusJob : \A n \in listed[k] : n[2] # j
  /\ statusPlan[j].draft /\ (step[j] \in {"prune", "delete"} \/ inCleanup[j]) => Created(j) \notin noteBoard

(* A late write closes the way to the next.                                  *)
StatusLate(j) ==
  /\ lateWrites[j] \in {0, 1}
  /\ lateWrites[j] = 1 => GoneForGood(j) /\ step[j] \notin {"post", "publish", "delete"}

(* A terminal note that was confirmed stays; a strict job that passed saw    *)
(* the merge request merged.                                                 *)
StatusStrict(j) ==
  /\ \A n \in upserted[j] : n \in noteBoard /\ n[1] = "live" /\ n[3] = "terminal"
  /\ step[j] = "done" /\ statusExit[j] = 0 /\ statusPlan[j].strict
       => mrState = "merged" /\ upserted[j] # {}

(* Without a fault the note of a refused job is gone.                        *)
StatusTaken(j) ==
  /\ step[j] = "undo" => ~inCleanup[j] /\ statusExit[j] = 1
  /\ statusExit[j] = 1 /\ step[j] = "done" /\ ~statusPlan[j].strict /\ ~inCleanup[j]
       /\ statusFaults = 0 => Created(j) \notin noteBoard \/ ownNote[j] = {}

StatusJobInv(j) ==
  StatusAsked(j) /\ StatusListed(j) /\ StatusLate(j) /\ StatusStrict(j) /\ StatusTaken(j)

(* Without overlap there is one active job at most, and it knows every       *)
(* terminal note.                                                            *)
TerminalOnBoard == {n \in noteBoard : n[3] = "terminal"}
StatusAlone ==
  /\ \A n \in TerminalOnBoard : n[1] = "live"
  /\ ~overlapped =>
       /\ \A j, k \in StatusJob : StatusRunning(j) /\ StatusRunning(k) => j = k
       /\ \A m, n \in TerminalOnBoard : m = n
       /\ \A j \in StatusJob : step[j] = "termWrite" => listed[j] = TerminalOnBoard

(* The order in which jobs wrote: a job deletes only notes older than its    *)
(* own, so the newest of the jobs that clean up keeps its note, and it will  *)
(* not be taken back.                                                        *)
Cleaning == {j \in StatusJob : inCleanup[j]}
Confirmed(j) ==
  \/ inCleanup[j]
  \/ step[j] \in {"prune", "delete"}
  \/ ~statusPlan[j].draft /\ step[j] = "final"
Ordered(rank, next) ==
  /\ \A j \in StatusJob : rank[j] < next
  /\ \A j \in StatusJob : \A n \in listed[j] :
       ownNote[j] # {} /\ n[2] # Before => rank[n[2]] < rank[j]
  /\ \A j \in StatusJob : Confirmed(j) =>
       Visible(Created(j)) \in noteBoard \/ \E k \in Cleaning : rank[j] < rank[k]
  /\ IF Cleaning = {} THEN <<"live", Before, "setup">> \in noteBoard
     ELSE \E newest \in Cleaning : \A j \in Cleaning : rank[j] <= rank[newest]
StatusOrder(Ranks) == \E rank \in [StatusJob -> Ranks], next \in Ranks : Ordered(rank, next)

StatusInv == StatusTypes /\ (\A j \in StatusJob : StatusJobInv(j)) /\ StatusAlone

-----------------------------------------------------------------------------
(* The client (GitLabClient): what has been read of the list at every page,  *)
(* and what is known of the one note the client creates.                     *)
ClientSpec == ClientInit /\ [][ClientNext]_clientVars

ClientTypes ==
  /\ shelf \in Seq(Others \cup {Mine}) /\ items \in Seq(Others \cup {Mine})
  /\ unborn \subseteq Newcomers
  /\ phase \in ClientEnded \cup Listing \cup {"user", "create"}
  /\ attempt \in 1..MaxAttempts /\ page \in 1..MaxPages + 1
  /\ outcome \in Outcome /\ recorded \subseteq {Mine}
  /\ badAnswers \in Nat /\ creates \in Nat
  /\ lasting \subseteq On(shelf) /\ deleted \in BOOLEAN

Read == (page - 1) * PageSize        \* notes of the pages read so far

(* The note is on GitLab once at most, sent once, and only after everything  *)
(* was listed; what the client believes of it is true.                       *)
Believed ==
  /\ \A i, j \in DOMAIN shelf : shelf[i] = Mine /\ shelf[j] = Mine => i = j
  /\ phase \in {"idle", "user", "snapshot", "refused", "create"} =>
       creates = 0 /\ outcome = "none" /\ recorded = {} /\ Mine \notin On(shelf)
  /\ phase \in {"reconcile", "finished"} => creates = 1
  /\ phase = "reconcile" => outcome = "ambiguous_create" /\ recorded = {} /\ badAnswers >= 1
  /\ outcome = "posted" => recorded = {Mine} /\ Mine \in On(shelf)
  /\ outcome \in {"invalid_position", "definite_failure"} => Mine \notin On(shelf)
  /\ Mine \in On(items) => Mine \in On(shelf)
  /\ phase \in {"idle", "user"} => items = <<>> /\ page = 1 /\ lasting = {}

(* Newest first, a lasting note is among those read or still to be read: a   *)
(* note added meanwhile only moves it further away.                          *)
ToCome(n) == \E i \in DOMAIN shelf : shelf[i] = n /\ Len(shelf) - i >= Read
SnapshotSoFar ==
  /\ phase = "snapshot" /\ ~deleted => \A n \in lasting : n \in On(items) \/ ToCome(n)
  /\ phase = "create" /\ ~deleted => lasting \subseteq On(items)

(* Oldest first, what was read is the beginning of the list.                 *)
ReconciledSoFar ==
  phase = "reconcile" /\ ~deleted =>
    /\ Len(items) = Read /\ Read <= Len(shelf)
    /\ \A i \in 1..Read : items[i] = shelf[i]

ClientInv == ClientTypes /\ Believed /\ SnapshotSoFar /\ ReconciledSoFar /\ AmbiguousCreateIsFound

-----------------------------------------------------------------------------
(* The private audit (DlpAudit): how far a key, a capture and a scan are at   *)
(* each step, and what is stored by then.                                    *)
AuditSpec == AuditInit /\ [][AuditNext]_auditVars

Keying == {"keying", "linking", "unlinking"}
Capturing == {"first", "second", "manifest"}
Storing == {"directory", "slots"}
Evaluating == {"files", "exchange"}
AuditStep == {"idle", "scan", "assess", "told", "removing"} \cup Keying \cup Capturing \cup Storing \cup Evaluating

Hit == UNION {RejectedIn(s, k, f, t) : s \in AuditScanners, k \in AuditSecrets, f \in AuditFile, t \in AuditTexts}
Omission == [file : AuditFile, reason : {"unsupported_input", "scan_deadline", "worker", "output_budget"}]
AuditRun ==
  [scanner : AuditScanners, secret : AuditSecrets, done : SUBSET AuditFile, errors : SUBSET Omission,
   hits : SUBSET Hit, complete : BOOLEAN]
ScanJob ==
  [kind : {"scan"}, scanner : AuditScanners, secret : AuditSecrets,
   stopped : {"no", "scan_deadline", "output_budget"}, text : AuditContents \cup {"none"},
   done : SUBSET AuditFile, errors : SUBSET Omission, hits : SUBSET Hit]
CaptureJob(j) ==
  /\ j = [kind |-> j.kind, read |-> j.read, next |-> j.next]
  /\ j.kind \in Inputs \cup {"replay"} /\ DOMAIN j.read \subseteq AuditFile /\ j.next \in Nat

StoreTypes ==
  /\ auditKey \in {"absent", "unpublished", "doubled", "ready"} /\ rawDir \in BOOLEAN
  /\ corpus = [files |-> corpus.files, input |-> corpus.input, removed |-> corpus.removed]
  /\ DOMAIN corpus.files \subseteq AuditFile /\ corpus.input \in Inputs \cup {"none"}
  /\ corpus.removed \in BOOLEAN /\ (corpus.input = "none" => corpus = NoCorpus)
  /\ auditRuns \in Seq(AuditRun)
  /\ marks = [secret |-> marks.secret, entries |-> marks.entries]
  /\ \A e \in marks.entries : e.label \in {"benign", "protection"}
JobTypes ==
  /\ auditAt \in AuditStep
  /\ auditAt \in Keying \cup Capturing \cup Storing \cup {"scan"} => CaptureJob(auditJob)
  /\ auditAt \in Evaluating => auditJob \in ScanJob
WorldTypes ==
  /\ scannerNow \in AuditScanners /\ secretNow \in AuditSecrets
  /\ auditSource \in [AuditFile -> AuditContents] /\ middle \in [AuditFile -> AuditContents]
  /\ moved \in [AuditFile -> Nat] /\ auditLeft \in [runs : Nat, drifts : Nat]
AuditTypes == StoreTypes /\ JobTypes /\ WorldTypes

(* The key goes through its states with the operation that makes it; every   *)
(* step that writes anything else comes after.                               *)
KeyStages ==
  /\ auditAt = "keying" => auditKey = "absent"
  /\ auditAt = "linking" => auditKey = "unpublished"
  /\ auditAt = "unlinking" => auditKey = "doubled"
  /\ auditAt \notin Keying \cup {"idle"} => auditKey = "ready"
  /\ auditAt \in Keying => auditJob.kind \in Inputs /\ auditJob.read = <<>> /\ auditJob.next = 1

(* Nothing precedes the manifest, and slots are in the directory.            *)
Stored ==
  /\ rawDir => ~corpus.removed /\ DOMAIN rawSlots \subseteq Accepted(corpus.files)
  /\ ~rawDir => rawSlots = <<>>
  /\ corpus = NoCorpus => ~rawDir /\ auditRuns = <<>>
  /\ auditAt \in Keying \cup Capturing => corpus = NoCorpus /\ auditJob.kind \in Inputs
  /\ auditAt \in Storing => corpus.files = auditJob.read /\ ~corpus.removed
  /\ auditAt = "slots" => rawDir
  /\ auditAt \in Storing \cup Evaluating \cup {"removing"} => corpus # NoCorpus

(* What the two readings of a selection know of the moment between them.  A  *)
(* file that is not as it was then was changed before it, and to be read     *)
(* again as it was first it had to be changed back.                          *)
OfFiles == auditJob.kind \in {"files", "metadata"}
Steady(files, f) == files[f] \in AuditTexts => files[f] = middle[f] \/ moved[f] > 1
TwoReadings ==
  /\ auditAt = "first" => auditJob.next \in DOMAIN Selection
  /\ auditAt = "first" /\ OfFiles =>
       /\ DOMAIN auditJob.read = {Selection[i] : i \in 1..auditJob.next - 1}
       /\ \A f \in DOMAIN auditJob.read : auditJob.read[f] = auditSource[f] \/ moved[f] > 0
  /\ auditAt = "second" =>
       /\ OfFiles /\ auditJob.next \in DOMAIN Selection /\ DOMAIN auditJob.read = AuditFile
       /\ \A f \in AuditFile : auditJob.read[f] # middle[f] =>
            moved[f] > 0 /\ (auditSource[f] # middle[f] => moved[f] > 1)
       /\ \A i \in 1..auditJob.next - 1 : Steady(auditJob.read, Selection[i])
  /\ auditAt = "manifest" /\ OfFiles => \A f \in AuditFile : Steady(auditJob.read, f)

(* A scan: what is done and what is omitted, by one scanner with one set of  *)
(* secrets; the worker, if there is one, was started with these secrets.     *)
OmittedFiles(errors) == {e.file : e \in errors}
Progress ==
  /\ auditJob.secret = secretNow
  /\ auditJob.done \subseteq Accepted(corpus.files)
  /\ OmittedFiles(auditJob.errors) \subseteq DOMAIN corpus.files \ auditJob.done
  /\ \A e \in auditJob.errors : e.file \notin Accepted(corpus.files) <=> e.reason = "unsupported_input"
  /\ IsFiniteSet(auditJob.errors) /\ IsFiniteSet(OmittedFiles(auditJob.errors))
  /\ Cardinality(OmittedFiles(auditJob.errors)) = Cardinality(auditJob.errors)
  /\ auditJob.hits = Truth(corpus.files, auditJob, auditJob.done) /\ FitsBudget(auditJob.hits)
  /\ peer = NoPeer \/ peer.secret = secretNow
Asked ==
  /\ peer.secret = secretNow
  /\ \E f \in Accepted(corpus.files) : Turn(f) /\ auditJob.text = corpus.files[f]
Scanning ==
  /\ auditAt \in Evaluating => Progress
  /\ auditAt = "exchange" => Asked
  /\ auditAt \notin Evaluating => peer = NoPeer
  /\ auditAt = "assess" => auditRuns # <<>>

AuditInv == AuditTypes /\ KeyStages /\ Stored /\ TwoReadings /\ Scanning /\ DlpAuditSafe

-----------------------------------------------------------------------------
(* Revision capture (RevisionCapture): which moments a reading may have      *)
(* mixed, what the clone can show of a line, and what a quiet forge leaves   *)
(* of a reading.                                                             *)
RevisionSpec == RevisionInit /\ [][RevisionNext]_rcVars

ReviewRead == {"refs", "fetchTarget", "fetchPolicy", "rules"}
Compared == {"fetchOld", "fetchNew", "prove", "fetchHistory", "proveAgain"}
HasPolicy == ReviewRead \cup {"compare"} \cup Compared
HasTarget == {"project", "default", "postProject", "postDefault"} \cup HasPolicy
HasVersion == {"target", "postTarget"} \cup HasTarget
HasMr == {"versions", "postVersions"} \cup HasVersion
Answering == {"postMr", "postVersions", "postTarget", "postProject", "postDefault", "compare"} \cup Compared

MrTyped(mr) ==
  /\ DOMAIN mr = {"head", "target", "life", "version", "refs", "pending"}
  /\ mr.head \in Commit /\ mr.target \in DOMAIN branches /\ mr.version \in Nat \ {0}
  /\ mr.pending \in BOOLEAN /\ (~mr.pending => mr.refs[3] = mr.head)
ReadingTyped(r) ==
  /\ DOMAIN r = DOMAIN NothingRead
  /\ r.version \in Nat /\ r.policy \in Commit /\ r.targetHead \in Commit
  /\ r.targetProtected \in BOOLEAN /\ r.policyProtected \in BOOLEAN
RevisionTypes ==
  /\ origin \in Setups /\ MrTyped(liveMr)
  /\ branches \in [DOMAIN origin.forge.branches -> [head : Commit, protected : BOOLEAN]]
  /\ defaultBranch \in DOMAIN branches /\ readFaults \in Nat
  /\ ReadingTyped(captured) /\ ReadingTyped(identity)
  /\ rcStep \in {"range", "pipeline", "mr"} \cup HasMr \cup PostingSteps

(* The versions of the diff only grow, so a merge request that had the same   *)
(* version before and after a moment had it then.                            *)
Moments ==
  /\ rcStep # "post" => <<JobAt(rcStep), liveMr>> \in moments
  /\ \A m \in moments : m[2].version \in Nat \ {0} /\ m[2].version <= liveMr.version

OneMoment(r) ==
  \E m \in moments :
    /\ m[1] = JobAt(rcStep) /\ m[2].life = "opened"
    /\ m[2].head = r.head /\ m[2].target = r.target /\ m[2].refs = r.refs
    /\ JobAt(rcStep) = "posting" => identity.version <= m[2].version
    /\ rcStep \in HasVersion => m[2].version <= r.version
Readings ==
  /\ rcStep \in HasMr =>
       /\ captured.head = ReviewedHead /\ captured.refs[3] = captured.head
       /\ captured.target \in DOMAIN branches /\ OneMoment(captured)
  /\ rcStep \in HasVersion => captured.version \in 1..liveMr.version
  /\ rcStep \in {"default", "postDefault"} => captured.policyBranch \in DOMAIN branches
  /\ identity.version <= liveMr.version

(* What was checked before a step is reached.                                *)
PassedChecks ==
  /\ rcStep \in {"mr"} \cup (HasMr \ PostingSteps) => PipelineIsOf(ReviewedHead)
  /\ rcStep \in ReviewRead \ {"refs"} => captured.refs[1] = ReviewedBase
  /\ handover \in {"reviewed", "setup"} =>
       PipelineIsOf(ReviewedHead) /\ identity.head = ReviewedHead /\ identity.refs[1] = ReviewedBase
  /\ rcStep \in {"bind"} \cup Answering => handover \in {"reviewed", "setup"} /\ Readable(identity)
  /\ rcStep \in Compared => DiffStands /\ TargetStands /\ AuthorityStands /\ SeparatePolicy(identity)
  /\ rcStep \in {"project", "default", "postProject", "postDefault"} =>
       ~captured.targetProtected /\ origin.mode = "auto"
  /\ rcStep \notin PostingSteps => handover = "none" /\ identity = NothingRead
  /\ rcStep # "posted" => verdict = "none"
  /\ rcStep = "post" => handover \in {"reviewed", "setup", "error", "stale", "terminal", "unavailable"}

(* What the clone lacks of a line is below a cut of that line.               *)
CutBelow(p, c) == \E q \in clone.cut : p \in Lineage(q) /\ q \in Lineage(c)
Covered ==
  /\ clone.cut \subseteq clone.have /\ clone.have \subseteq Commit
  /\ \A c \in clone.have : \A p \in Lineage(c) : p \in clone.have \/ CutBelow(p, c)
CloneShown ==
  /\ Covered
  /\ rcStep \in {"prove", "fetchHistory", "proveAgain"} => captured.policy \in clone.have
  /\ rcStep = "proveAgain" =>
       \A q \in Lineage(captured.policy) :
         Len(q) > Len(captured.policy) - FetchDepth + 1 => q \in clone.have \ clone.cut

(* Unless a protection was changed, a branch has the one it had at first.    *)
Protections == \A b \in DOMAIN branches : <<"protect", b>> \notin moves
ProtectionsKept ==
  Protections =>
    /\ \A b \in DOMAIN branches : branches[b].protected = origin.forge.branches[b].protected
    /\ rcStep \in HasTarget =>
         captured.targetProtected = origin.forge.branches[captured.target].protected
    /\ rcStep \in ReviewRead => Readable(captured)

(* While the forge is quiet, a reading stays what the forge would answer, but *)
(* for the policy branch, which has moved forward.                           *)
Quiet == readFaults = 0 /\ origin.sameJob /\ moves \subseteq {<<"advance", defaultBranch>>}
Trunk == branches[defaultBranch]
Unmoved(r) ==
  /\ ~liveMr.pending /\ liveMr.life = "opened" /\ liveMr.head = ReviewedHead
  /\ r.target = liveMr.target /\ r.refs = liveMr.refs
SameTarget(r) ==
  r.target # defaultBranch =>
    r.targetHead = branches[r.target].head /\ r.targetProtected = branches[r.target].protected
FromTrunk(r) ==
  /\ r.policyBranch # r.target => ~r.targetProtected /\ origin.mode = "auto"
  /\ ~r.targetProtected /\ origin.mode = "auto" =>
       /\ r.policyBranch = defaultBranch /\ r.policyProtected /\ Trunk.protected
       /\ IsPrefix(r.policy, Trunk.head)
QuietReadings ==
  Quiet =>
    /\ rcStep \in HasMr => Unmoved(captured)
    /\ rcStep \in HasVersion => captured.version = liveMr.version
    /\ rcStep \in HasTarget => SameTarget(captured)
    /\ rcStep \in {"default", "postDefault"} => captured.policyBranch = defaultBranch
    /\ rcStep \in HasPolicy => FromTrunk(captured)
    /\ handover = "reviewed" =>
         /\ Unmoved(identity) /\ identity.version = liveMr.version
         /\ SameTarget(identity) /\ FromTrunk(identity)
    /\ handover = "reviewed" /\ identity.policyBranch # identity.target /\ rcStep \in {"compare"} \cup Compared =>
         IsPrefix(identity.policy, captured.policy)

RevisionInv ==
  /\ RevisionTypes /\ Moments /\ Readings /\ PassedChecks /\ CloneShown /\ ProtectionsKept /\ QuietReadings
  /\ RevisionCaptureSafe

-----------------------------------------------------------------------------
(* The range with gitlinks (GitlinkReview): whatever passed the comparison    *)
(* with the trees is all they differ in, so everything that is said of the    *)
(* range later is of one set of records.                                      *)
GitlinkSpec == GitlinkInit /\ [][GitlinkNext]_gitlinkVars

GitlinkStages == {"plan", "freeze", "preview", "before", "model", "after", "finalize", "postPlan", "postFreeze",
                  "bind", "postVerify", "published", "error", "refused", "unqualified", "ordinary"}
UntilModel == {"plan", "freeze", "preview", "before", "model"}
ForModel == {"before", "model", "after", "finalize"}
Posted == {"postPlan", "postFreeze", "bind", "postVerify", "published", "refused"}
Frozen == {"preview", "bind", "postVerify", "published"} \cup ForModel
Unplanned == {"plan", "error", "unqualified", "ordinary"}

HasRead(part) == (glStage \in Freezing /\ glPart > part) \/ glStage \in Frozen

GitlinkTypes ==
  /\ glRange \in CommitRanges /\ localGit \in LocalGit /\ drifts \in Nat
  /\ glStage \in GitlinkStages /\ glPart \in 1..5
  /\ glStage \in Verifying => glPart \in 1..4
  /\ frozen = [digest |-> frozen.digest, original |-> frozen.original, ordinary |-> frozen.ordinary,
               text |-> frozen.text, lines |-> frozen.lines]

OnlyFiles == \A r \in OrdinaryRecords : Regular(OldEntry(r)) /\ Regular(NewEntry(r))

(* What is frozen at this part of the reading, and what it was held against.  *)
GitlinkFrozen ==
  /\ glStage \notin Unplanned => ~PlanRefused
  /\ HasRead(1) \/ glStage \in Posted => glRange.modules = "fine"
  /\ HasRead(2) => frozen.original = RawRecords
  /\ HasRead(2) \/ glStage \in Posted => TreesAgree(RawRecords)
  /\ HasRead(3) => frozen.ordinary = OrdinaryRecords
  /\ HasRead(3) \/ glStage \in Posted => OnlyFiles

(* What a review of these records says, whatever is frozen.                   *)
CoverageStated(picked, state) ==
  [state |-> state, changed |-> Cardinality(OrdinaryRecords), selected |-> Cardinality(picked),
   completed |-> IF state = "partial" THEN Cardinality(picked) ELSE 0,
   excluded |-> Cardinality(OrdinaryRecords) - Cardinality(picked),
   links |-> LinkCounts, changes |-> Cardinality(LinkPaths)]

AdviceStands ==
  /\ glResult = [kind |-> "advice", coverage |-> CoverageStated({}, "not_started")]
  /\ seen = NoReview
ReviewStated ==
  /\ glResult.kind \in {"manifest", "proof"}
  /\ glResult.items = seen.completed /\ glResult.text = seen.text
  /\ seen.completed \subseteq OrdinaryRecords /\ seen.completed # {}
  /\ glResult.coverage = CoverageStated(seen.completed, "partial")
GitlinkHandover ==
  /\ glStage \in UntilModel => seen = NoReview
  /\ glStage \in ForModel => chosen \subseteq OrdinaryRecords /\ chosen # {}
  /\ glStage \in Posted => (AdviceStands \/ ReviewStated) /\ CoverageIsValid(glResult.coverage)
  /\ glStage \in {"postVerify", "published"} /\ glResult.kind # "advice" => glResult.text = frozen.text

(* Nothing moved: every reading shows the same.                               *)
GitlinkQuiet ==
  drifts = 0 =>
    /\ localGit = "plain" /\ glStage # "refused"
    /\ HasRead(1) => frozen.digest = "plain"
    /\ HasRead(4) => frozen.text = "plain" /\ frozen.lines = "plain"
    /\ glStage \in {"after", "finalize"} => seen.text = "plain"
    /\ glStage \in Posted /\ glResult.kind # "advice" => glResult.text = "plain"

GitlinkInv == GitlinkTypes /\ GitlinkFrozen /\ GitlinkHandover /\ GitlinkQuiet
=============================================================================
