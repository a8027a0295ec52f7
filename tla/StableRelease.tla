--------------------------- MODULE StableRelease ----------------------------
(* The stable release (release.yml and scripts/): one run at a time checks a   *)
(* merged pull request, builds it, publishes the distributions on two          *)
(* registries, tags the commit, fills and publishes a GitHub Release and tells *)
(* the tracked issues.  A run may stop between any two steps: a check does not *)
(* hold, a read fails, an answer is lost or the runner dies.  Its failed jobs  *)
(* may be run again with the outputs of the others, all its jobs, or another   *)
(* run.                                                                        *)
EXTENDS Integers, FiniteSets, Sequences

CONSTANTS
  ReleaseRun,      \* dispatches of the workflow
  Build,           \* what building the reviewed tree may give
  Tracked,         \* the tracked issues, in their order
  RequiredChecks,  \* check contexts the rules of main require
  ReleaseNumber,           \* the numbers of the repository's releases: a bound
  ReleasesPerPage, \* RELEASES_PER_PAGE
  ReleasePages,    \* MAX_RELEASE_LIST_PAGES
  ReleaseWorlds    \* [request, others, attempts, moves]: the pull request, how many
                   \* other releases there are, how often runs may be started and
                   \* how often people interfere: bounds

ASSUME ReleaseAssumption ==
  /\ ReleaseRun \subseteq Nat \ {0}
  /\ Tracked \in Seq(Nat) /\ ReleaseNumber \subseteq Nat \ {0} /\ IsFiniteSet(ReleaseNumber)
  /\ ReleasesPerPage \in Nat \ {0} /\ ReleasePages \in Nat \ {0}
  /\ Build \cap {"missing", "broken"} = {}

Registry == {"testpypi", "pypi"}
Dists == <<"wheel", "sdist">>          \* in the order they are uploaded
Dist == {"wheel", "sdist"}
Assets == <<"wheel", "sdist", "sums", "receipt">>
Asset == {"wheel", "sdist", "sums", "receipt"}
TrackedIssue == {Tracked[j] : j \in DOMAIN Tracked}

(* What a file or an asset holds: the build it is of, and who made it, which   *)
(* is a run or 0, a person.  A broken asset is one whose upload was cut off.   *)
Content == [build : Build \cup {"missing", "broken"}, by : ReleaseRun \cup {0}]
NoContent == [build |-> "missing", by |-> 0]
Broken == [build |-> "broken", by |-> 0]
NoAssets == [a \in Asset |-> NoContent]

VARIABLES
  world,      \* the world of this behaviour, its bounds counting down
  index,      \* by registry and file: its content
  gitTag,     \* "none", "annotated" on the reviewed commit, "plain" on it, or "other"
  releases,      \* by number: the repository's releases
  issue,      \* by issue: its state, the bot's receipts, whether others wrote its marker
  dispatch,   \* by run: where it is, and what it knows
  worker,     \* the run that works, or 0
  handled, swapped, pageMoved, \* ghosts: what people did (below)
  closed      \* ghost: the issues closed by the workflow that people left so

releaseVars == <<world, index, gitTag, releases, issue, dispatch, worker, handled, swapped, pageMoved, closed>>
siteVars == <<world, index, gitTag, releases, issue, handled, swapped, pageMoved, closed>>
runVars == <<dispatch, worker>>
ghosts == <<handled, swapped, pageMoved>>

-----------------------------------------------------------------------------
(* release_authorization.py: what must hold of the pull request and of what   *)
(* was asked for, of its two commits, of the release's metadata in the merge, *)
(* and of the rules of main.                                                  *)
RequestFacts == {"merged", "dated", "main", "origin", "branch", "titled", "identified", "asked"}
CommitFacts == {"responses", "tree", "parent"}
MetadataFile == {"file", "size", "json"}
MetadataFacts == {"schema", "version", "issues"}
RuleFacts == {"rules", "strict", "checks"}
Facts == RequestFacts \cup CommitFacts \cup MetadataFile \cup MetadataFacts \cup RuleFacts

CheckRun == [check : RequiredChecks \cup {"other"}, onHead : BOOLEAN, passed : BOOLEAN]
World == [request : [facts : SUBSET Facts, runs : Seq(CheckRun)], others : Nat, attempts : Nat, moves : Nat]
ASSUME ReleaseWorldsAssumption == ReleaseWorlds \subseteq World

(* Exactly one successful run on the reviewed head of every required check.   *)
ChecksPass(checks) ==
  /\ RequiredChecks # {}
  /\ \A c \in RequiredChecks : \E i \in DOMAIN checks :
       /\ \A j \in DOMAIN checks : checks[j].check = c <=> j = i
       /\ checks[i].onHead /\ checks[i].passed
Authorized == Facts \subseteq world.request.facts /\ ChecksPass(world.request.runs)

(* issue_state: open, reopened, or closed as completed.                       *)
IssueStands(i) == issue[i].state \in {"open", "completed"}

(* classify_index: nothing there, or exactly these distributions.             *)
Unpublished(r) == \A f \in Dist \cup {"extra"} : index[r][f] = NoContent
AlreadyPublished(r, b) == index[r]["extra"] = NoContent /\ \A f \in Dist : index[r][f].build = b

(* artifact_manifest: both files, with the reviewed digests;                  *)
(* verify_provenance: each published by this workflow.                        *)
ReviewedDigests(r, b) == \A f \in Dist : index[r][f].build = b
FromThisWorkflow(r) == \A f \in Dist : index[r][f].by # 0
Verified(r, b) == ReviewedDigests(r, b) /\ FromThisWorkflow(r)

(* build_receipt: it names what was built and the run; validate_receipt: one  *)
(* that is there must be of this build, whichever run wrote it.               *)
NewReceipt(n) == [build |-> dispatch[n].build, by |-> n]
ReceiptFits(n, receipt) == receipt.build = dispatch[n].build

(* What the run has on disk for an asset.                                     *)
LocalAsset(n, a) ==
  IF a = "receipt" THEN dispatch[n].receipt ELSE [build |-> dispatch[n].build, by |-> 0]

OnShelf(k) == releases[k].state \in {"draft", "public", "locked"}
Ours(k) == OnShelf(k) /\ releases[k].ours

(* validate_release: tag, target, title and notes are the expected ones; the  *)
(* release is asked for under its number (_read_release).                     *)
Exact(k) == releases[k].exact
ReadRelease(k) == OnShelf(k) /\ Exact(k)
WholeSet(k) == \A a \in Asset : releases[k].assets[a] # NoContent

-----------------------------------------------------------------------------
(* The workflow's concurrency group lets one run work; the others wait.       *)
NewRun == [at |-> "authorize", build |-> "missing", state |-> [r \in Registry |-> "refused"],
           kept |-> FALSE, next |-> 1, page |-> 0, found |-> {}, release |-> 0, draft |-> FALSE,
           seen |-> NoAssets, receipt |-> NoContent, open |-> FALSE]

(* The first step of the job a step belongs to.                               *)
JobOf(at) ==
  CASE at = "authorize" -> "authorize"
    [] at \in {"build", "testpypi-state", "pypi-state"} -> "build"
    [] at \in {"testpypi", "testpypi-check", "pypi", "pypi-check"} -> at
    [] OTHER -> "tag"

StartRun(n) ==
  /\ worker = 0 /\ world.attempts > 0
  /\ worker' = n
  /\ \E at \in {"authorize", JobOf(dispatch[n].at)} :
       dispatch' = [dispatch EXCEPT ![n].at = at, ![n].next = 1, ![n].page = 0, ![n].found = {}]
  /\ world' = [world EXCEPT !.attempts = @ - 1]
  /\ UNCHANGED <<index, gitTag, releases, issue, ghosts, closed>>

StopRun ==
  /\ worker # 0 /\ worker' = 0
  /\ UNCHANGED <<siteVars, dispatch>>

Now(n, at) == worker = n /\ dispatch[n].at = at
Becomes(n, new) == dispatch' = [dispatch EXCEPT ![n] = new] /\ UNCHANGED worker
Continues(n, new) == Becomes(n, new) /\ UNCHANGED siteVars

Authorize(n) ==
  /\ Now(n, "authorize")
  /\ Authorized
  /\ \A i \in TrackedIssue : IssueStands(i)
  /\ Continues(n, [dispatch[n] EXCEPT !.at = "build"])

BuildIt(n) ==
  /\ Now(n, "build")
  /\ gitTag # "other"
  /\ \E b \in Build : Continues(n, [dispatch[n] EXCEPT !.at = "testpypi-state", !.build = b])

(* The states of the registries are outputs of the build job: later jobs act  *)
(* on them, however old they are.  Its last step uploads what was built.      *)
Classify(n, r, at, after) ==
  /\ Now(n, at)
  /\ \E state \in {"publish", "already"} :
       /\ state = "publish" => Unpublished(r)
       /\ state = "already" => AlreadyPublished(r, dispatch[n].build)
       /\ Continues(n, [dispatch[n] EXCEPT !.at = after, !.state[r] = state, !.kept = r = "pypi"])

(* A published file can never be replaced: the registry refuses its name.     *)
UploadDist(n, r, after) ==
  LET d == Dists[dispatch[n].next]
      last == dispatch[n].next = Len(Dists) IN
  /\ Now(n, r) /\ dispatch[n].state[r] = "publish" /\ dispatch[n].kept
  /\ index[r][d] = NoContent
  /\ index' = [index EXCEPT ![r][d] = [build |-> dispatch[n].build, by |-> n]]
  /\ Becomes(n, [dispatch[n] EXCEPT !.at = IF last THEN after ELSE @, !.next = IF last THEN 1 ELSE @ + 1])
  /\ UNCHANGED <<world, gitTag, releases, issue, ghosts, closed>>

(* A job whose registry has the files is skipped; GitHub may also skip one    *)
(* when an earlier job was.                                                   *)
SkipPublication(n, r, after) ==
  /\ Now(n, r)
  /\ dispatch[n].state[r] = "already" \/ (r = "pypi" /\ dispatch[n].state["testpypi"] = "already")
  /\ Continues(n, [dispatch[n] EXCEPT !.at = after])

VerifyRegistry(n, r, at, after) ==
  /\ Now(n, at) /\ dispatch[n].kept
  /\ Verified(r, dispatch[n].build)
  /\ Continues(n, [dispatch[n] EXCEPT !.at = after])

-----------------------------------------------------------------------------
(* The last job.  A tag that is there must be annotated and on the commit.    *)
PushTag(n) ==
  /\ Now(n, "tag") /\ dispatch[n].kept
  /\ gitTag \in {"none", "annotated"}
  /\ gitTag' = "annotated"
  /\ Becomes(n, [dispatch[n] EXCEPT !.at = "discover"])
  /\ UNCHANGED <<world, index, releases, issue, ghosts, closed>>

(* What is kept of the release that was found: its number, whether it is a    *)
(* draft, and its assets as they are now.                                     *)
Retains(n, k, r) ==
  [dispatch[n] EXCEPT !.at = "receipt", !.release = k, !.draft = r.state = "draft", !.seen = r.assets,
                      !.page = 0, !.found = {}, !.next = 1]

(* ensure_release asks by tag first, which only shows what is public.         *)
DiscoverRelease(n) ==
  LET public == {k \in ReleaseNumber : Ours(k) /\ releases[k].state # "draft"} IN
  /\ Now(n, "discover")
  /\ \/ public = {} /\ Continues(n, [dispatch[n] EXCEPT !.at = "list", !.page = 1, !.found = {}])
     \/ \E k \in public : Exact(k) /\ Continues(n, Retains(n, k, releases[k]))

(* Then it lists, newest first and page by page; every entry of ours counts,  *)
(* one that is met twice too; the page beyond the last one must be empty.     *)
ListedOn(p) ==
  {k \in ReleaseNumber : OnShelf(k) /\ Cardinality({j \in ReleaseNumber : j > k /\ OnShelf(j)}) \div ReleasesPerPage = p - 1}

ListPage(n) ==
  LET page == dispatch[n].page
      found == dispatch[n].found \cup {<<page, k>> : k \in {j \in ListedOn(page) : releases[j].ours}} IN
  /\ Now(n, "list")
  /\ page > ReleasePages => ListedOn(page) = {}
  /\ \/ /\ Cardinality(ListedOn(page)) = ReleasesPerPage
        /\ Continues(n, [dispatch[n] EXCEPT !.page = @ + 1, !.found = found])
     \/ /\ Cardinality(ListedOn(page)) # ReleasesPerPage /\ found = {}
        /\ Continues(n, [dispatch[n] EXCEPT !.at = "create", !.page = 0])
     \/ /\ Cardinality(ListedOn(page)) # ReleasesPerPage
        /\ \E f \in found : found = {f} /\ Exact(f[2]) /\ Continues(n, Retains(n, f[2], releases[f[2]]))

(* A release starts as a draft: it has a number, and no public tag.           *)
Fresh(k) == \A j \in ReleaseNumber : j >= k <=> releases[j].state = "unused"
NewDraft == [state |-> "draft", ours |-> TRUE, exact |-> TRUE, assets |-> NoAssets]

CreateDraft(n) ==
  /\ Now(n, "create")
  /\ \E k \in ReleaseNumber :
       /\ Fresh(k)
       /\ releases' = [releases EXCEPT ![k] = NewDraft]
       /\ Becomes(n, Retains(n, k, NewDraft))
  /\ UNCHANGED <<world, index, gitTag, issue, ghosts, closed>>

(* A receipt that is there is downloaded and validated; only a draft gets a   *)
(* new one.                                                                   *)
ChooseReceipt(n) ==
  LET there == releases[dispatch[n].release].assets["receipt"] IN
  /\ Now(n, "receipt")
  /\ \/ /\ dispatch[n].seen["receipt"] = NoContent /\ dispatch[n].draft
        /\ Continues(n, [dispatch[n] EXCEPT !.at = "asset", !.receipt = NewReceipt(n)])
     \/ /\ dispatch[n].seen["receipt"] # NoContent
        /\ OnShelf(dispatch[n].release) /\ ReceiptFits(n, there)
        /\ Continues(n, [dispatch[n] EXCEPT !.at = "asset", !.receipt = there])

Proceeds(n) ==
  IF dispatch[n].next = Len(Assets) THEN [dispatch[n] EXCEPT !.at = "publish", !.next = 1]
  ELSE [dispatch[n] EXCEPT !.at = "asset", !.next = @ + 1]

(* An asset that was seen is downloaded and compared.                         *)
CompareAsset(n) ==
  LET a == Assets[dispatch[n].next]
      k == dispatch[n].release IN
  /\ Now(n, "asset") /\ dispatch[n].seen[a] # NoContent
  /\ OnShelf(k) /\ releases[k].assets[a] = LocalAsset(n, a)
  /\ Continues(n, Proceeds(n))

(* upload_asset: one that was not is sent, after another look at the release. *)
CheckUpload(n) ==
  LET a == Assets[dispatch[n].next]
      k == dispatch[n].release IN
  /\ Now(n, "asset") /\ dispatch[n].seen[a] = NoContent /\ dispatch[n].draft
  /\ ReadRelease(k) /\ releases[k].state = "draft" /\ releases[k].assets[a] = NoContent
  /\ Continues(n, [dispatch[n] EXCEPT !.at = "send"])

Sends(n, content, after) ==
  LET a == Assets[dispatch[n].next]
      k == dispatch[n].release IN
  /\ Now(n, "send")
  /\ releases[k].state \in {"draft", "public"} /\ releases[k].assets[a] = NoContent
  /\ releases' = [releases EXCEPT ![k].assets[a] = content]
  /\ dispatch' = [dispatch EXCEPT ![n] = after]
  /\ UNCHANGED <<world, index, gitTag, issue, ghosts, closed>>

SendAsset(n) == Sends(n, LocalAsset(n, Assets[dispatch[n].next]), Proceeds(n)) /\ UNCHANGED worker

(* An upload that is cut off leaves the asset's name behind; the run stops.   *)
SendBroken(n) == Sends(n, Broken, dispatch[n]) /\ worker' = 0

(* publish_release: the asset set is complete; the patch does not ask again.  *)
CheckPublication(n) ==
  LET k == dispatch[n].release IN
  /\ Now(n, "publish")
  /\ ReadRelease(k) /\ WholeSet(k)
  /\ Continues(n, [dispatch[n] EXCEPT !.at = IF releases[k].state = "draft" THEN "patch" ELSE "readback"])

(* GitHub publishes one release of a tag.                                     *)
TagFree(k) == \A j \in ReleaseNumber : Ours(j) /\ releases[j].state # "draft" => j = k

PublishRelease(n) ==
  LET k == dispatch[n].release IN
  /\ Now(n, "patch")
  /\ OnShelf(k) /\ TagFree(k)
  /\ releases' = [releases EXCEPT ![k].state = IF @ = "draft" THEN "public" ELSE @]
  /\ Becomes(n, [dispatch[n] EXCEPT !.at = IF Exact(k) THEN "readback" ELSE "failed"])
  /\ UNCHANGED <<world, index, gitTag, issue, ghosts, closed>>

(* Every asset is downloaded again and compared.                              *)
ReadBack(n) ==
  LET k == dispatch[n].release IN
  /\ Now(n, "readback")
  /\ OnShelf(k) /\ \A a \in Asset : releases[k].assets[a] = LocalAsset(n, a)
  /\ Continues(n, [dispatch[n] EXCEPT !.at = "await"])

(* GitHub makes a public release immutable, at once or a little later.        *)
LockRelease(k) ==
  /\ Ours(k) /\ releases[k].state = "public"
  /\ releases' = [releases EXCEPT ![k].state = "locked"]
  /\ UNCHANGED <<world, index, gitTag, issue, runVars, ghosts, closed>>

AwaitLock(n) ==
  /\ Now(n, "await")
  /\ \E k \in ReleaseNumber : Ours(k) /\ releases[k].state = "locked" /\ WholeSet(k)
  /\ Continues(n, [dispatch[n] EXCEPT !.at = IF Tracked = <<>> THEN "done" ELSE "issue", !.next = 1])

-----------------------------------------------------------------------------
(* receipt_body: the marker and the receipt's digest; comment_state: no       *)
(* marked comment, or exactly one, the bot's, with this body.                 *)
ReceiptBody(n) == dispatch[n].receipt
Unmarked(i) == issue[i].told = <<>> /\ ~issue[i].imitated
Told(n, i) == issue[i].told = <<ReceiptBody(n)>> /\ ~issue[i].imitated

ReadIssue(n) ==
  LET i == Tracked[dispatch[n].next] IN
  /\ Now(n, "issue") /\ IssueStands(i)
  /\ \E after \in {"comment", "close"} :
       /\ after = "comment" => Unmarked(i)
       /\ after = "close" => Told(n, i)
       /\ Continues(n, [dispatch[n] EXCEPT !.at = after, !.open = issue[i].state = "open"])

Comment(n) ==
  LET i == Tracked[dispatch[n].next] IN
  /\ Now(n, "comment")
  /\ issue' = [issue EXCEPT ![i].told = Append(@, ReceiptBody(n))]
  /\ Becomes(n, [dispatch[n] EXCEPT !.at = "recheck"])
  /\ UNCHANGED <<world, index, gitTag, releases, ghosts, closed>>

Recheck(n) ==
  /\ Now(n, "recheck") /\ Told(n, Tracked[dispatch[n].next])
  /\ Continues(n, [dispatch[n] EXCEPT !.at = "close"])

(* It closes an issue it saw open; one that was closed since stays as it is.  *)
CloseIssue(n) ==
  LET i == Tracked[dispatch[n].next]
      closes == dispatch[n].open /\ issue[i].state = "open" IN
  /\ Now(n, "close")
  /\ issue' = IF closes THEN [issue EXCEPT ![i].state = "completed"] ELSE issue
  /\ closed' = IF closes THEN closed \cup {i} ELSE closed
  /\ Becomes(n, [dispatch[n] EXCEPT !.at = "confirm"])
  /\ UNCHANGED <<world, index, gitTag, releases, ghosts>>

ConfirmIssue(n) ==
  LET next == dispatch[n].next IN
  /\ Now(n, "confirm")
  /\ issue[Tracked[next]].state = "completed"
  /\ Continues(n, IF next = Len(Tracked) THEN [dispatch[n] EXCEPT !.at = "done"]
                  ELSE [dispatch[n] EXCEPT !.at = "issue", !.next = @ + 1])

-----------------------------------------------------------------------------
(* People, who owe nothing.  `handled`: somebody changed our release before   *)
(* it was locked; `swapped`: while it was public; `pageMoved`: somebody deleted *)
(* another release while ours were listed.                                    *)
Interferes == world.moves > 0 /\ world' = [world EXCEPT !.moves = @ - 1]

UploadByHand(r, f, b) ==
  /\ Interferes /\ index[r][f] = NoContent
  /\ index' = [index EXCEPT ![r][f] = [build |-> b, by |-> 0]]
  /\ UNCHANGED <<gitTag, releases, issue, runVars, ghosts, closed>>

TagByHand(kind) ==
  /\ Interferes /\ gitTag = "none" /\ gitTag' = kind
  /\ UNCHANGED <<index, releases, issue, runVars, ghosts, closed>>

EditRelease(k, r) ==
  /\ Interferes /\ Ours(k) /\ releases[k].state # "locked" /\ r # releases[k]
  /\ releases' = [releases EXCEPT ![k] = r]
  /\ handled' = TRUE /\ swapped' = (swapped \/ releases[k].state = "public")
  /\ UNCHANGED <<index, gitTag, issue, runVars, pageMoved, closed>>

EditByHand(k) ==
  \/ EditRelease(k, [releases[k] EXCEPT !.exact = FALSE])
  \/ \E s \in {"draft", "public", "deleted"} :
       (s = "public" => TagFree(k)) /\ EditRelease(k, [releases[k] EXCEPT !.state = s])
  \/ \E a \in Asset, c \in {NoContent} \cup [build : Build, by : {0}] :
       releases[k].assets[a] # NoContent /\ EditRelease(k, [releases[k] EXCEPT !.assets[a] = c])

(* A release of another version, which has its own tag.                       *)
Other == [state |-> "locked", ours |-> FALSE, exact |-> TRUE, assets |-> NoAssets]
AddOther(k) ==
  /\ Interferes /\ Fresh(k)
  /\ releases' = [releases EXCEPT ![k] = Other]
  /\ UNCHANGED <<index, gitTag, issue, runVars, ghosts, closed>>

DeleteOther(k) ==
  /\ Interferes /\ OnShelf(k) /\ ~releases[k].ours
  /\ releases' = [releases EXCEPT ![k].state = "deleted"]
  /\ pageMoved' = (pageMoved \/ \E n \in ReleaseRun : dispatch[n].page > 1)
  /\ UNCHANGED <<index, gitTag, issue, runVars, handled, swapped, closed>>

TouchIssue(i, new) ==
  /\ Interferes /\ new # issue[i] /\ issue' = [issue EXCEPT ![i] = new]
  /\ closed' = closed \ {i}
  /\ UNCHANGED <<index, gitTag, releases, runVars, ghosts>>

IssueByHand(i) ==
  \/ \E s \in {"open", "completed", "rejected"} : TouchIssue(i, [issue[i] EXCEPT !.state = s])
  \/ TouchIssue(i, [issue[i] EXCEPT !.imitated = TRUE])

(* What a run uploaded for its later jobs is kept for two days.               *)
ExpireArtifact(n) ==
  /\ Interferes /\ dispatch[n].kept
  /\ dispatch' = [dispatch EXCEPT ![n].kept = FALSE]
  /\ UNCHANGED <<index, gitTag, releases, issue, worker, ghosts, closed>>

-----------------------------------------------------------------------------
Unused == [state |-> "unused", ours |-> FALSE, exact |-> FALSE, assets |-> NoAssets]

ReleaseInit ==
  /\ world \in ReleaseWorlds
  /\ index = [r \in Registry |-> [f \in Dist \cup {"extra"} |-> NoContent]]
  /\ gitTag = "none"
  /\ releases = [k \in ReleaseNumber |-> IF k <= world.others THEN Other ELSE Unused]
  /\ issue = [i \in TrackedIssue |-> [state |-> "open", told |-> <<>>, imitated |-> FALSE]]
  /\ dispatch = [n \in ReleaseRun |-> NewRun] /\ worker = 0
  /\ handled = FALSE /\ swapped = FALSE /\ pageMoved = FALSE /\ closed = {}

Publishing(n) ==
  \/ Authorize(n) \/ BuildIt(n)
  \/ Classify(n, "testpypi", "testpypi-state", "pypi-state")
  \/ Classify(n, "pypi", "pypi-state", "testpypi")
  \/ UploadDist(n, "testpypi", "testpypi-check") \/ SkipPublication(n, "testpypi", "testpypi-check")
  \/ VerifyRegistry(n, "testpypi", "testpypi-check", "pypi")
  \/ UploadDist(n, "pypi", "pypi-check") \/ SkipPublication(n, "pypi", "pypi-check")
  \/ VerifyRegistry(n, "pypi", "pypi-check", "tag")

Releasing(n) ==
  \/ PushTag(n) \/ DiscoverRelease(n) \/ ListPage(n) \/ CreateDraft(n)
  \/ ChooseReceipt(n) \/ CompareAsset(n) \/ CheckUpload(n) \/ SendAsset(n) \/ SendBroken(n)
  \/ CheckPublication(n) \/ PublishRelease(n) \/ ReadBack(n) \/ AwaitLock(n)
  \/ ReadIssue(n) \/ Comment(n) \/ Recheck(n) \/ CloseIssue(n) \/ ConfirmIssue(n)

Interfering ==
  \/ \E r \in Registry, f \in Dist \cup {"extra"}, b \in Build : UploadByHand(r, f, b)
  \/ \E kind \in {"plain", "other"} : TagByHand(kind)
  \/ \E k \in ReleaseNumber : EditByHand(k) \/ AddOther(k) \/ DeleteOther(k)
  \/ \E i \in TrackedIssue : IssueByHand(i)
  \/ \E n \in ReleaseRun : ExpireArtifact(n)

ReleaseNext ==
  \/ \E n \in ReleaseRun : StartRun(n) \/ Publishing(n) \/ Releasing(n)
  \/ StopRun
  \/ \E k \in ReleaseNumber : LockRelease(k)
  \/ Interfering

ReleaseSpec == ReleaseInit /\ [][ReleaseNext]_releaseVars

-----------------------------------------------------------------------------
ReleaseSteps == {"receipt", "asset", "send", "publish", "patch", "failed", "readback", "await",
                 "issue", "comment", "recheck", "close", "confirm"}
TagSteps == {"tag", "discover", "list", "create", "done"} \cup ReleaseSteps
PypiSteps == {"pypi", "pypi-check"} \cup TagSteps
BuiltSteps == {"testpypi-state", "pypi-state", "testpypi", "testpypi-check"} \cup PypiSteps
Dispatch == [at : {"authorize", "build"} \cup BuiltSteps, build : Build \cup {"missing"},
             state : [Registry -> {"refused", "publish", "already"}], kept : BOOLEAN, next : Nat \ {0},
             page : Nat, found : SUBSET (Nat \X ReleaseNumber), release : ReleaseNumber \cup {0},
             draft : BOOLEAN, seen : [Asset -> Content], receipt : Content, open : BOOLEAN]
StoredRelease == [state : {"unused", "draft", "public", "locked", "deleted"}, ours : BOOLEAN, exact : BOOLEAN,
                  assets : [Asset -> Content]]
StoredIssue == [state : {"open", "completed", "rejected"}, told : Seq(Content), imitated : BOOLEAN]

ReleaseTypeOK ==
  /\ world \in World
  /\ index \in [Registry -> [Dist \cup {"extra"} -> Content]]
  /\ gitTag \in {"none", "annotated", "plain", "other"}
  /\ releases \in [ReleaseNumber -> StoredRelease] /\ issue \in [TrackedIssue -> StoredIssue]
  /\ dispatch \in [ReleaseRun -> Dispatch] /\ worker \in ReleaseRun \cup {0}
  /\ closed \subseteq TrackedIssue

(* What the workflow may have published of build b on every registry.         *)
Delivered(k, b) ==
  /\ \A a \in Asset : releases[k].assets[a].build = b
  /\ \A r \in Registry : Verified(r, b)
  /\ gitTag = "annotated"

(* An issue the workflow closed, and nobody touched since, has one receipt,   *)
(* which is the receipt asset of an immutable release of one build; both      *)
(* registries hold that build from this workflow and the annotated tag is     *)
(* there: unless somebody changed the release while it was public (before the *)
(* lock, after the comparison).                                               *)
ClosedIsDelivered ==
  \A i \in closed : swapped \/
    \E k \in ReleaseNumber, b \in Build :
      /\ Ours(k) /\ releases[k].state = "locked" /\ Delivered(k, b)
      /\ issue[i].told = <<releases[k].assets["receipt"]>>

(* A public release is whole and of one build, with what it stands for        *)
(* already delivered, unless people handled it: also after answers were lost, *)
(* uploads cut off and jobs run again.                                        *)
PublicIsWhole ==
  \A k \in ReleaseNumber : Ours(k) /\ releases[k].state # "draft" /\ ~handled => \E b \in Build : Delivered(k, b)

(* However often the answer to its creation is lost, there is one release of  *)
(* this tag: unless the listing was pageMoved while it was read.                *)
OneRelease ==
  \A k, j \in ReleaseNumber : Ours(k) /\ Ours(j) /\ ~pageMoved => k = j

(* An issue is told once.                                                     *)
OneReceipt == \A i \in TrackedIssue : Len(issue[i].told) <= 1

(* What the workflow put on a registry is of one build, and nothing is on     *)
(* PyPI before the same build is whole on TestPyPI: with outputs of jobs that *)
(* are not run again, and runs that alternate.                                *)
RegistriesAgree ==
  \A r \in Registry, f \in Dist : index[r][f].by # 0 =>
    /\ \A g \in Dist : index[r][g].by # 0 => index[r][g].build = index[r][f].build
    /\ r = "pypi" => Verified("testpypi", index[r][f].build)

(* Nothing is published, tagged or said for a request that is not authorized. *)
OnlyAuthorized ==
  \/ Authorized
  \/ /\ \A r \in Registry, f \in Dist : index[r][f].by = 0
     /\ gitTag # "annotated" /\ \A k \in ReleaseNumber : ~releases[k].ours
     /\ \A i \in TrackedIssue : issue[i].told = <<>> /\ closed = {}

ReleaseSafe ==
  /\ ClosedIsDelivered /\ PublicIsWhole /\ OneRelease /\ OneReceipt /\ RegistriesAgree /\ OnlyAuthorized
-----------------------------------------------------------------------------
(* The inductive invariant.  Whatever job a run is in, also one that stopped: *)
(* it did not get there before what its jobs need was published.              *)
JobInOrder(n) ==
  /\ dispatch[n].at \in BuiltSteps => dispatch[n].build \in Build
  /\ dispatch[n].at \in PypiSteps => Verified("testpypi", dispatch[n].build)
  /\ dispatch[n].at \in TagSteps => Verified("pypi", dispatch[n].build)
  /\ dispatch[n].at \in TagSteps \ {"tag"} => gitTag = "annotated"

(* The second file of a registry follows the first of the same run.           *)
UploadInOrder(n) ==
  /\ dispatch[n].at \in {"authorize", "build", "testpypi-state", "pypi-state", "testpypi-check"} => dispatch[n].next = 1
  /\ \A r \in Registry : dispatch[n].at = r =>
       \/ dispatch[n].next = 1
       \/ /\ dispatch[n].next = 2 /\ dispatch[n].state[r] = "publish"
          /\ index[r]["wheel"] = [build |-> dispatch[n].build, by |-> n]
RegistriesInOrder ==
  /\ \A r \in Registry : index[r]["sdist"].by # 0 =>
       index[r]["wheel"].by # 0 /\ index[r]["wheel"].build = index[r]["sdist"].build
  /\ \A f \in Dist : index["pypi"][f].by # 0 => Verified("testpypi", index["pypi"][f].build)

(* A release of ours has been met or is on a page still to come, so that one  *)
(* is created only where there is none.                                       *)
OneOfOurs(k) == releases[k].ours /\ releases[k].state # "unused"   \* also one that was deleted
PagesAbove(k) == Cardinality({j \in ReleaseNumber : j > k /\ OnShelf(j)}) \div ReleasesPerPage
ListInOrder(n) ==
  /\ dispatch[n].at = "list" =>
       /\ dispatch[n].page # 0 /\ \A f \in dispatch[n].found : OneOfOurs(f[2])
       /\ \A k \in ReleaseNumber : Ours(k) /\ ~pageMoved =>
            (\E f \in dispatch[n].found : f[2] = k) \/ PagesAbove(k) >= dispatch[n].page - 1
  /\ dispatch[n].at = "create" /\ ~pageMoved => \A k \in ReleaseNumber : ~Ours(k)
  /\ dispatch[n].at \in ReleaseSteps => dispatch[n].release # 0 /\ OneOfOurs(dispatch[n].release)
OnePublic == \A k \in ReleaseNumber : Ours(k) /\ releases[k].state # "draft" => TagFree(k)

(* Of the release that is worked on: what has been compared or sent is what   *)
(* this run has on disk, until people change it.                              *)
Filled(n, k, last) == \A j \in 1..last : releases[k].assets[Assets[j]] = LocalAsset(n, Assets[j])
FilledInOrder(n) ==
  LET k == dispatch[n].release
      at == dispatch[n].at IN
  /\ at = "receipt" => dispatch[n].next = 1
  /\ at \in ReleaseSteps \ {"receipt", "failed"} => dispatch[n].receipt.build = dispatch[n].build
  /\ at \in {"asset", "send"} => dispatch[n].next \in 1..4 /\ (~handled => Filled(n, k, dispatch[n].next - 1))
  /\ at = "send" /\ ~handled => releases[k].state = "draft"
  /\ at \in {"publish", "patch"} /\ ~handled => Filled(n, k, 4)
  /\ at \in {"readback", "await"} /\ ~swapped => releases[k].state \in {"public", "locked"}
  /\ at = "await" /\ ~swapped => Filled(n, k, 4)

(* An issue is told what an immutable release holds, and once.                *)
ToldInOrder(n) ==
  LET i == Tracked[dispatch[n].next] IN
  dispatch[n].at \in {"issue", "comment", "recheck", "close", "confirm"} =>
    /\ dispatch[n].next \in 1..Len(Tracked)
    /\ swapped \/ \E k \in ReleaseNumber : Ours(k) /\ releases[k].state = "locked" /\ Filled(n, k, 4)
    /\ dispatch[n].at = "comment" => issue[i].told = <<>>
    /\ dispatch[n].at = "close" => issue[i].told = <<ReceiptBody(n)>>

WorkInOrder(n) == UploadInOrder(n) /\ ListInOrder(n) /\ FilledInOrder(n) /\ ToldInOrder(n)
NothingUnauthorized == OnlyAuthorized /\ (Authorized \/ \A n \in ReleaseRun : dispatch[n].at = "authorize")

ReleaseInv ==
  /\ ReleaseTypeOK
  /\ \A n \in ReleaseRun : JobInOrder(n) /\ (worker = n => WorkInOrder(n))
  /\ RegistriesInOrder /\ OneRelease /\ OnePublic /\ OneReceipt
  /\ ClosedIsDelivered /\ PublicIsWhole /\ NothingUnauthorized
=============================================================================
