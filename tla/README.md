# A verification of open-code-review-toolkit

This directory holds TLA+ models of the toolkit, the TLC runs that check them and proofs that TLAPS
checks. Every definition is translated from the Python source; `PROJECT.json` names the lines each
one stands for. Paths below are relative to `src/src/ocr_toolkit/`.

## 1. The system

`ocr-ci review` prepares private evidence about one revision of a repository, lets the OCR binary
review it, and leaves one finalized JSON result or a private status that says why there is none.
`ocr-ci post` puts that result on a GitLab merge request in place of the toolkit's earlier review.
While OCR runs, it reaches the toolkit's evidence, and the operator's external tools, through
servers the toolkit starts.

| component | state it keeps | operations | what makes it hard |
|---|---|---|---|
| Review run (`review_runner.py`, `evidence/artifacts.py`, `pre_execution.py`) | the checkout's lock, status file and private inputs; the session home; signal handlers; the result path | claim, clear, prepare, preview, run OCR, clean up, finalize, report | two runs in one checkout, death at any step, signals during cleanup, cleanup that fails half-way |
| Handoff (`posting/workflow.py` `main`, `ocr_result.py`) | exit code, result and status of the paired review | read the result or the status of the review of the same job | state in a path every job of the checkout shares |
| Posting transaction (`posting/workflow.py`, `snapshot.py`, `transaction.py`, `gitlab.py`, `gitlab_approval.py`) | ids the run created, what the snapshot saw, drafts by publication attempt, approval | snapshot, create notes, publish drafts, approve, amend the summary, remove the old review, roll back; the notes of a review that did not run | every write is a separate request that may be lost, rejected or overtaken by people and other jobs |
| Result contract and receipt (`result_contract.py`, `review_receipt.py`) | one file between two jobs | admit, filter, bind, write, load, approve | two programs that must agree on every rule |
| Reporting (`posting/suggestions.py`, `source_suggestions.py`, `formatting.py`) | cached Git reads of one post | find quoted code, place a note, offer a suggestion, cut a fallback note | a finding written about one version and shown on another |
| Revision capture (`providers/gitlab.py`, `posting/freshness.py`) | the merge request's tuple, read in parts, twice | read, compare, fetch, refuse | several reads assumed to be one moment |
| Discussion context, enriched context (`providers/`, `context/`) | two readings, one private store | read twice, project, bound, commit, list | changes between pages; every loss must be declared |
| Repository evidence (`evidence/`) | records under limits per kind and in all; cursors of one session | collect, admit, compare, serialize, serve | who is refused when the store is full; what may be called absent |
| Source reading (`evidence/source_reader.py`, `text_excerpts.py`) | one streaming session, two budgets | look up, stream once, cut spans | a span in two chunks, a path that shares an object |
| Gitlink projection (`evidence/gitlink_projection.py`) | a frozen input and its proof | plan, freeze, verify, bind | configuration that moves between two readings of Git |
| Action receipt (`evidence/actions.py`, `evidence/mcp.py`, `review_receipt.py`) | counts in a locked file | attempt, serve, complete, read, verify | several server processes that fail or die between a read and a replacement |
| Diagrams (`diagrams/`) | counters and one candidate in a locked file | initialize, submit, capture, admit | order of submitters, submissions that never arrive |
| Federation gateway (`federation/gateway.py`, `runtime.py`) | one account per tool, running dispatches, a bounded cache, the relay connection, an owning thread | answer a call, share an upstream request, cancel, stop, issue a receipt | coroutines that share a future, cancellation, budgets, a thread that must be stopped from another |
| Federation transport (`federation/relay.py`, `transport.py`) | two bounded buffers, frames, a process group or a session | copy, frame, charge, filter, stop | half-closed streams, a cut that must not look like an end, processes that outlive their leader |
| Progress (`review_progress.py`) | one thread, a stop flag, a count of lines | tell, repeat, close | a line after close, a join that hangs |
| Debug bundle (`review_debug.py`, `review_trace.py`) | copied files, a note of each, phases, a journal | observe, capture, project the native session, flush | every write may fail or be interrupted; the session file may still change while it is read |
| DLP audit (`dlp_audit/`) | key, corpus, runs and annotations in one directory | capture, scan, compare, annotate, clean up | a stop after any step, files and secrets that change |
| Release and cleanup (`scripts/release_*.py`, `scripts/actions_cleanup.py`, `.github/workflows/release.yml`) | two package registries, a tag, GitHub releases and their assets, issues; caches, artifacts, runs and logs | authorize, build, publish, tag, fill and publish a release, close issues; list, plan, remove | a run that stops anywhere and is run again in parts; nothing published can be taken back; lists that move while they are read |
| DLP admission, ecosystem parsers, policy files, configuration, compatibility and qualification scripts | none across calls | text to verdict or text | text formats; not modelled (section 6) |

Interactions. A review hands over by three things only: its exit code, the result path and the
status file in `.review-context`. The post reads nothing else of the review. The runner starts the
gateway's thread, points OCR's configuration at a relay that connects to it, and reads the
gateway's publication filter and receipt after OCR has ended. The merge request is shared with
people, with GitLab, and with the post of every other job. The evidence servers share two locked
files with one another and with the runner. All other components are used by one caller at a time
and share no state with one another.

What must be right, per component, is the list `hazards` of `PROJECT.json`: each names the line
where it bites and the property that would notice.

## 2. Modules

    ReviewReplacement          what a reader of a merge request is promised
      ^ implemented by
    Posting                    the posting transaction, request by request
      PostingInvariant         its inductive invariants and the refinement mapping
        PostingProofs          types, late writes, standing reviews, the refinement,
                               and what a finished job can say
      MCPosting                instances for TLC

    Gateway                    calls, dispatches, cache, account, connection
      FederationRuntime        + the owning thread, the runner and close
        FederationInvariant    its inductive invariants     FederationProofs
        MCFederation           instances for TLC

    ReviewRun                  the life of ocr-ci review
      ReviewHandoff            + the paired ocr-ci post, and the inductive invariants of both
        ReviewProofs           also about the two observers of a run, below
        MCHandoff              instances for TLC

    EvidenceServer             a server process: where it is, what OCR counted
      ActionReceipt            the shared count of evidence actions
      DiagramCollector         the shared diagram submission
      EvidenceServers          + their composition and the runner that reads both files
        EvidenceInvariant      its inductive invariant      EvidenceProofs
        MCEvidence             instances for TLC

    MCParts                    instances of the components that share no state
      StatusNotes              the notes of a review that did not run        (ForgeProofs)
      GitLabClient             retries, pages and uncertain creates          (ForgeProofs)
      RevisionCapture          the reviewed tuple, read by two jobs          (PartsProofs)
      DlpAudit                 the private audit directory                   (PartsProofs)
      GitlinkReview            a range with submodule pointers, proved twice (BoundaryProofs)
      FederationWire           OCR, relay and gateway: bytes and frames
        UpstreamTransport      + a tool server and its end, and the
                               inductive invariants of both                  (BoundaryProofs)
      ReceiptContract          one result, from OCR's report to the approval
                               in another job, with its inductive invariant  (BoundaryProofs)
      PartsInvariant           the inductive invariants of the first five
      ForgeContext             discussions and CI jobs, read twice
        ContextStore           + the private store and the pages the model lists
      EvidenceCollection       from three trees to a store and back
      EvidenceQueries          one evidence server and its client
      SourceText               lines, spans and widths
        SourceExcerpts         the session that reads the reviewed source
        FindingPlacement       where a finding is shown
      ReviewProgress           the progress lines and their thread
        DebugBundle            what a local run keeps for its maintainers; with the
                               inductive invariant of each of the two       (ReviewProofs)
      StableRelease            one version, from a merged pull request to closed issues
        ActionsCleanup         caches, artifacts, runs and logs that are due; with the
                               inductive invariant of each of the two       (MaintenanceProofs)

**Posting.** The provider is `notes` (ids that exist), `touched` (what people did to each thread),
`moves` (a version of the reviewed tuple) and `approved`. A job's `pc` walks through
`post_results`: three snapshot requests, planning (`Plan`: suppression, filtering, the cap), a
freshness check before every write (`fresh`, consumed by the write), inline notes with their
fallback, the summary, publication of drafts, approval, the summary's amendment, cleanup, and the
two ways back: `rollback_current_run_comments` and `publish_failure_exit`. An item of the model is
a finding or one of the four plain notes; bodies, markers and positions are reduced to whether two
findings have the same fingerprint. A write is answered `ok`, `lost` (applied, answer lost) or
`rejected`.

**Gateway, FederationRuntime.** A call is `idle`, `waiting` or ended; `task` is the state of the
dispatch it started, `waitsFor` whose dispatch it awaits, `counts` the account of
`contracts.py` COUNTERS. Each `await` of `call_tool` and `_dispatch` is a step, so everything
between two awaits is atomic, as asyncio makes it. `thread` and `parent` are the phases of
`RunningGateway._serve` and of the runner's start, wait and `close`.

**ReviewRun, ReviewHandoff.** `run[j].at` walks through `run_evidence_review` and
`_run_evidence_review`; `run[j].termination` says whether the termination signals act by default,
are handled or are blocked. `files[f]` says whose each private input is. A failure of a step is an
action beside its success. The handoff adds `posted`, what the post of the job puts on the merge
request, decided by `main`, `post_ocr_failure` and the identity checks of result and status.

**EvidenceServer, ActionReceipt, DiagramCollector, EvidenceServers.** `at[s]` is where the process
of a review group is in the request it handles (`handle_request`). `record_action` and `submit` are
two steps each, the read under the flock and the atomic replacement, so that a process may fail or
die between them; an error after the replacement leaves the count in the file although the caller
believes it failed. OCR counts every request (`byTool`), also one whose arguments it cannot parse
(`Undispatched`). `runner` reads the receipt without its lock and the collector under its lock, and
`Finalize` is `verified_evidence_actions` and `admit_diagram` over what it read. `recorded`,
`served` and `proposed` are histories. A request's locals are reset when it ends, so that the
instance stays small. Assumed is that no server of an earlier review still works in the checkout:
the receipt names no run, so a server that outlived a killed review could count into the next one
(the collector does name its run). A late server of this review may create the receipt again after
the cleanup; it holds counts only, and the next run clears it before OCR starts.

**StatusNotes.** `post_pre_execution_status` and `post_terminal_merge_request_status`, one GitLab
request per step, by overlapping jobs on one merge request. `shelf` holds the status notes by
author and kind; people close, reopen, merge and push between any two requests. A job that reads
back more than one terminal note gives up at once; that takes three overlapping jobs, which the
instance does not have and the theorem does.

**GitLabClient.** What Posting takes for one request: attempts of a read, pages addressed by
offset, a create that is sent once, its classified answer, and the one look-up by write marker
after an ambiguous one. Other people add and delete notes between two pages.

**ReceiptContract.** The rules on both sides of the result file. A text has the kind that decides
its fate (clean, changed by preparation, refused when rendered, refused everywhere, refused against
values of this run only). `review_runner.py` admits, filters, binds the receipt and replaces the
file; `posting/workflow.py` loads, validates again, publishes and approves. Outside the rendered
fields a reserved key may be removed, or a text redacted that posting and approval read ("bound") or
do not read ("detached"); the receipt counts the reasons of sinks, the private fields and the reasons
of these, of which the model keeps whether they are zero (`CountedReasons`), since that is what
`reporting/dlp.py:149` and `:212` refuse. The runner validates its own receipt (`WriteResult`) and
discards the review when it is refused.

**ForgeContext, ContextStore.** Two readings of the discussions, page by page, and of the CI jobs,
while people write; the split of threads into discussion records and remediation bundles with
every reason to leave one out, a CI record whose check text is refused included (`CIPrepared`); then
the aggregate bounds, the private store with its write and read
checks, and the model's traversal of the listing.

**EvidenceCollection.** A tree is a sequence of files with facts. Collection, deduplication,
admission under the limits by kind, by count and by bytes, comparison of base and head, optional
facts of the target branch, writing, reading back, and the answer to a question about a path.

**EvidenceQueries.** `handle_request` and its tools over one immutable store: lines read under a
limit, pages and cursors, searches, the attempt and completion counts of each answer, and a client
that pipelines, follows cursors with other questions and closes in the middle of a line.

**GitlinkReview.** The two trees of a range are immutable; the local configuration under which Git
shows their difference is not (`localGit`). Planning, the five readings of
`make_gitlink_projection`, the four of its verification, the preview, what OCR says it covered, and
the posting job that proves all of it again.

**RevisionCapture.** A commit is its lineage, so ancestry is `IsPrefix` and a shallow clone is what
it can still see of it. The requests of `capture_gitlab_identity`, the fetches, the ancestry proof
and the posting job's second reading, with people who push, retarget, protect and rewrite.

**SourceText, SourceExcerpts, FindingPlacement.** A text is a sequence of characters that differ in
line end, width and validity. `SourceExcerpts` streams each object once in chunks of any size and
keeps the requested spans within two budgets; `FindingPlacement` searches quoted code, places
inline notes, offers suggestions and cuts fallback notes.

**ReviewProgress.** Each access to the stop flag, the handle, the lock and the stream is a step of
one of the two threads.

**DebugBundle.** A local run from the creation of its bundle to the last journal, told by the stages
it enters: `observed`, `keptNotes` and `bundle` are `phases`, `artifacts` and the files. A write may
fail before or after the file is replaced, and an interrupt may fall between a file and its note.
`ReadRecord` is one turn of `_project`: a line is a kind (kept, not kept, refused, cut off), with a
length in the source and one in the projection, read against three limits while `SessionShifts` may
still append to the file or replace it. A stage observed as degraded counts as passed, and the
bundle's copy of the stderr stream is one with that of the result.

**FederationWire, UpstreamTransport.** A byte is its position in its stream; what ends a frame is
the world's choice. `relay.py` copies both directions through bounded buffers; the gateway's reader
and writer frame and charge them: bytes of each, and a request for each message that asks something
(`Cost`), which alone is answered. The upstream side is a process group (leader and child) stopped in
three rounds, or an HTTPS session with bounded exchanges, behind the filter of unsolicited messages.

**DlpAudit.** The state directory document by document (key, corpus, slots, runs, annotations) under
its exclusive lock, with a stop after any step.

**StableRelease.** `release.yml` allows one run at a time; `dispatch[n]` is what run n knows: its
step, the outputs of its build job (they stay when only failed jobs are run again), what it saw of
the release and which receipt it holds. `index`, `gitTag`, `releases` and `issue` are the sites it
writes to. A run may stop between any two steps and be started again from its first job or from the
job that failed; people publish, tag, edit, delete and comment meanwhile. What GitHub itself refuses is part of the
world: a second public release of one tag (`TagFree`), and any change of an immutable one.

**ActionsCleanup.** One listing page, one plan and one removal per step, while jobs save, restore
and finish. An entry of a list keeps the page it was on, so that one cache may be listed twice.

**MCParts.** These components share no state, so their composition is their disjoint union:
the variable `part` is chosen in the initial state, the variables of all others rest. Each
component's parameters are its *worlds*: small families of inputs, chosen where the inputs interact
and varied one at a time otherwise.

Definitions marked "slip" are plausible mistakes in the definition that follows them. The module
does not use them: they are there to show that replacing the definition by its slip violates the
property `PROJECT.json` pairs it with.

## 3. What the runs check

| run | question | instance | distinct states |
|---|---|---|---|
| PostingOneJob | one job, with a receipt or without, every provider answer, a moving merge request, people: no finding twice, an outcome that is true, no note a person owns removed | 3 findings of which 2 are equal to old ones or fit the cap of 2, 1 fault, 1 move | 3.84 M |
| PostingTwoJobs | overlapping jobs: a review always stands, the refinement and the inductive invariant | 2 jobs, 1 finding, 1 fault, symmetric | 0.74 M |
| PostingLiveness | every job ends | 1 job, 2 faults, 1 move, fair scheduling | 0.18 M |
| FederationSharing | shared requests, a cache that evicts by count and by bytes, stop at any await | 3 calls, 3 argument sets, 2 sizes, cache of 2 entries | 0.86 M |
| FederationOutcomes | the receipt after every refusal, failure and a call over the limit; each call answered; the thread ends | 3 calls, 2 allowed, 1 tool, fair scheduling | 0.36 M |
| ReviewPair | two GitLab reviews and posts in one checkout: what the model reads, what is left behind, what is posted | 2 jobs, 1 signal, clean and dirty checkout | 2.10 M |
| ReviewMixed | preserved private sessions never give a postable result; an interrupted run gives the checkout back | 1 GitLab and 1 local job, fair scheduling | 0.36 M |
| EvidenceGroups | shared counts, submissions and the runner's reading of both | 2 servers, 3 requests over 2 actions and 2 diagrams, 2 submissions and 4 bytes allowed, fair scheduling | 0.64 M |
| Parts | seventeen components by themselves, thirteen invariants (below) | as below | 0.74 M |

The invariants of Parts. Each is a conjunction of named properties, stated and commented in its
module.

| invariant | what it says | instance |
|---|---|---|
| StatusNotesSafe | at most one status write after the merge request changed; a setup note stands while one is due; a terminal note is strict and unique; a refused job takes its note back | 1 job with every reason and mode, 2 jobs that post a draft and a visible setup note, or both the terminal one; 1 fault |
| GitLabClientSafe | an outcome other than "unknown" is true; a note that stayed while a list was read is in it; an ambiguous create that arrived is found | pages of 2, at most 2, lists of 1, 4 and 5 notes, 2 attempts, 2 bad answers |
| ReceiptContractSafe | what the review writes the post accepts; what is published was admitted; a loss is declared; an approval is earned; the run refuses a receipt of its own in the named cases only | every kind of text and of private redaction, statistics and outcome, each against the usual value of the others; 1 approvable finding |
| ForgeContextSafe | a snapshot is one moment of the forge; "complete" means whole; a required loss blocks approval; losses are counted; what is prepared is accepted by the reader | boards of up to 4 threads, 2 a page, 2 lists of pipelines, 7 policies over every bound, 1 change by others |
| EvidenceStoreSafe | a complete scope lacks nothing; a difference is a difference of the trees or of a declared loss; what is written is readable; the target is optional | trees of up to 4 files in every combination of base, head and target, 6 tight budgets for the trees without a target and with one of its own |
| EvidenceQueriesSafe | one reply per request line; following a cursor shows each record once; tools agree; what is shown can be asked for; completed means said | stores of up to 7 items, some too long to be answered; clients that list, search, ask wrongly or send broken lines, with 5 filters and pages of 1 and 3 |
| GitlinkReviewSafe | published coverage is what the trees differ in and the model completed; the text read is the text proved; what was proved is accepted | 15 ranges, 6 configurations, 2 changes or failures of Git |
| RevisionCaptureSafe | the published review was of one moment's tuple; a status that ends the job is true; what is captured is readable; a quiet review is accepted | 2 moves by people, 1 failed request, fetches of depth 3 into whole clones and clones of depth 1 and 2 |
| SourceTextSafe | excerpts: chunks do not show; excerpts are source; a limit is reached when reported; paths that share an object are all served, and it is charged once. Findings: an offered suggestion fits; a finding is moved only to the one place its code is; equal findings are treated alike; every finding is shown once | texts of up to 10 characters of every width and line end, 1 failure; up to 3 findings, 3 paths, limits of 8, 10 and 11 characters, 1 failure |
| ObserversSafe | progress: nothing is written after close, join returns, lines tell the phases in order; bundle: the last journal says what the files hold and which stage failed, a trace is passed exactly if it is the whole session, raw and safe copies stay apart, the cleanup is reached | 3 phases, 4 lines, 3 kinds of stream; 30 session files of up to 5 lines around every limit, 1 failed write, change or interrupt |
| TransportSafe | calls are whole; nothing moves without being charged; a clean exit delivers; an end is not a cut; no process or session survives unnoticed; only answers have authority | buffers of 3 bytes written by 2, frames of up to 3, 8 bytes of budget, 2 members of a process group, both kinds of peer |
| DlpAuditSafe | a directory refused for its key holds nothing; raw content is inventoried; a capture is one moment; runs are true of their inputs; annotations are of runs; zero hides nothing | 2 files, 2 contents, 2 scanners and sets of secrets, bounds on runs and changes by world |
| MaintenanceSafe | release: a closed issue is delivered; what is public is whole; one release, one comment; the registries agree and PyPI comes last; nothing without authorization. Cleanup: a warm cache stays; only what is old goes; checks can be looked up; a quiet cleanup is complete | a good request started twice, one beside 2 other releases with 1 interference, one request for each fact or check it may lack; 4 caches on pages of 2, 2 artifacts, 4 runs, 1 job step |

The bounds. One lost answer already splits every request into applied and not applied; the
second matters only where a recovery step can itself fail for ever (PostingLiveness). Three
findings with a cap of two are the least in which one is suppressed, one already published and one
over the cap. Two jobs are what overlap means: a third adds only another author whose notes are
foreign to both. Three calls are needed for a shared request whose owner is cancelled while
another waits, and, with three argument sets, for an insertion into a full cache. One signal
reaches each phase of a run; death is unbounded. Three tool requests of two servers are needed for a
submission over the budget, and for a conflict beside a lost submission; two actions are one of each
kind of tool. In Parts, a limit of the code is made as small as leaves both of its sides reachable
(two pages of two, a span of one line, a chunk in the middle of a character), and two changes by
others are the least that can undo each other (a configuration set and set back, a branch moved
between two reads and again before the third). The worlds of Parts are as many as its questions
need. All of Parts was also checked, once and outside the runs, on worlds with the further
combinations (two jobs with any two setup notes, eight more setups of RevisionCapture, every
budget with every target, longer requests and answers, both worlds of DlpAudit with one more run or
change; 1.49 M states). MaintenanceSafe was also checked, once and outside the
runs, on larger worlds: a release started three times with one interference, twice with two, and
twice with two beside two other releases (13.0 M states); cleanups beside two job steps and two
cleanups in a row (139 387 states). The code keeps logs and runs for the same two days, so that it
never removes a log by itself; the instance keeps logs for one day so that this part is checked.

Faults, moves, signals, drifts and the number of calls are the only bounded counters
(`MaxFaults`, `MaxStatusFaults`, `MaxBadAnswers`, `MaxGitFaults`, `MaxReadFaults`, `MaxHitches`,
`MaxMiscounts`, `MaxMishaps`, `MaxMoves`, `MaxForgeMoves`, `MaxForgeChanges`, `MaxDrifts`, `MaxSignals`,
`MaxRequests`, `MaxPosts`, `MaxChunks`, `MaxAnswers`, `LastPhase`, `PipeRoom`, the bounds inside a
world, and `MaxCalls`, which is the code's own limit made small, as are `MaxSubmissions`, `MaxBytes`
and the limits of Parts).

**Fairness.** `Posting!FairSpec`: a job that is not dead takes its next step, since it is a
sequential program whose requests have time-outs; people, other jobs and the merge request owe
nothing. `FederationRuntime!FairSpec`: the event loop runs what is ready, deadlines fire, a joined
thread is noticed; the relay and OCR owe nothing, so a connection may stay open for ever, which is
why the thread's end needs `close` to cancel it (Python 3.12 and later wait for open connections in
`Server.wait_closed`). `ReviewHandoff!FairHandoffSpec`: a started review takes its next step; OCR
need not return and a post need not be started. `EvidenceServers!FairSpec`: a process takes its next
step when the lock it waits for is free; that a wait ends by an error is not assumed.

`CHECK_DEADLOCK FALSE` is set where jobs end: a finished job and an ended call have no next step.

## 4. Where the code and its documents disagree

Three runs expect a violation, each of one property taken from a document or a docstring.

1. *PostingTOCTOU.* A person's reply that arrives after the snapshot does not protect the note it
   answers: the cleanup deletes by the classification it made before posting.
2. *PostingAdvisory.* If the summary that records an approval cannot be updated, a direct-mode
   review is rolled back, although the documents say an approval failure never retracts it.
3. *ReviewInterrupted.* A termination signal handled at the start of the finally block, before the
   signals are blocked, raises past the private cleanup.

Two more disagreements are part of the models, without a run of their own. For a result without a
receipt `publish_failure_exit` deletes the draft whose publication failed too, although
docs/operations.md:295 keeps attempted drafts (`AttemptedDraftRetained` is therefore stated for
results with an identity). A terminal status names no CI job, so the post of another job of the
checkout publishes it, although docs/operations.md:267 says a post rejects another job's status
(`StatusBound` compares the job of a note-capable status only).

### Observations

What follows was met while modelling. None of it has a run; where a property would fail on it, the
property excepts it by a named definition, so that the exception is visible.

*Posting and forge.* Notes are listed newest first by offset, so a note added between two pages
shows another one twice; the second delete of it answers 404 and the cleanup counts as partial. Two
overlapping jobs of a terminal status may create two terminal notes, after which every later upsert
refuses. A change of protection between the request for the target branch and the one for the
default branch gives an identity that its own reader refuses (`CapturedIsReadable`).

*The result.* The run refuses its own receipt and discards the review (`review_runner.py:2074`) in
cases in which docs/review-decision-flow.md:154 and :329 have a filtered result published as safe
partial output, and tests/test_review_runner.py:2513-2526 and :2563-2580 take the projection for a
filtered one (`FilteredUnstated`): when only a bound text outside the sinks was redacted, so that
no sink gives a reason (`reporting/dlp.py:212`); when beside an unsafe sink only a reserved key went,
counted as a field without a reason (`dlp.py:149`); and when a result without a manifest is filtered,
whose counts are all zero while its kind is neither "skipped" nor "failed" (`dlp.py:252`). The same
happens when OCR's counters disagree with the toolkit's and a diagram call failed
(`review_receipt.py:629`, `DiagramFailureUnverified`), although review_runner.py:740 says that such a
disagreement discards no review, as docs/compatibility.md:142 does. `RefusalIsKnown` says that there
is no other case. The result of a run that failed by its budget and was then filtered is refused by
`_original_outcome` (`WrittenIsAccepted`). A remediation policy may admit an account class whose
label is then forbidden in what is published.

*Findings.* `head_file_lines` numbers lines as Python's `splitlines` does, Git's changed lines count
LF only (`OtherLineEnds`). `format_fallback_comment_chunks` measures characters, although notes are
limited in bytes (`wide`). A failed or oversized read of one candidate file makes an ambiguous
finding look unambiguous. A requested span past the end of a file consumes excerpt budget.

*Evidence.* `_coverage_query` may call an absence authoritative although facts of the kind exist
(`AbsenceIsTrue` of EvidenceCollection is that statement of docs/configuration.md:357; no run checks
it). The limit of topology facts in `collectors/orchestration.py:456` drops facts silently
(`SilentLimit`). The target's context may fill the byte budget before the runner adds its own records
without a check. Two large facts of the same identity make the whole write fail. A text within the
budget of `_text_result` can exceed `MAX_RESPONSE_BYTES` once escaped: the client gets an error for an
action the receipt counts as completed, and a call without id is carried out, counted and not
answered (`CompletedWasSaid`). A stored value may be longer than an answer: such a record can never be
read, and it stops a listing at its place. The summary counts records only, while a listing by
component also returns coverage. An optional legacy reference is "unavailable" without being counted
unless something required is lost.

*Threads and files.* An interrupt between `thread.start()` and the assignment of the handle
(`review_progress.py:47`) leaves a heartbeat that close does not join (`ClosedIsSilent`). An interrupt between the replacement of
a debug file and its note leaves a journal that says "not run" of a file that is there (`torn` in
`JournalIsTrue`); a session file of exactly 32,000,000 bytes is noted as cut short
(`QuietTraceIsPassed`); a report whose publication fails after the link stays, although the run
failed (`HalfPublished`). A stop
between link and unlink of the audit's key leaves a directory every operation refuses
(`NothingIsLockedIn` says that it holds nothing yet). Skipped inputs are not read again in the second
pass of a capture; a
metadata-only scan past its deadline saves no run; after a rotation of secrets annotations are
refused until the old ones return. If the gateway closes while OCR still sends, the relay exits with 1
and drops answers it still holds; when OCR closes its end, the relay ends with 0 although answers may
be pending (`CleanExitDelivers` promises one direction only).

*Release and cleanup.* Releases are listed by offset: when another release is deleted between two
pages, the draft of this version can be missed and a second one is created (`pageMoved` in
`OneRelease`). An upload that was cut off leaves an asset that stops every later attempt. A run that
finds TestPyPI already published may skip the job of PyPI too, since it needs a skipped one. The
states of the registries are outputs of the build job and are as old as it when a later job is run
again. A cache saved or restored between two pages pushes another onto the next one, which lists it
twice: the plan then keeps one entry of it and removes the other, hence the cache itself (`doubled`
in `WarmCacheStays`).

## 5. What is proved

TLAPS proves, for any number of jobs, findings, calls, tools, faults and any limits:

| module | theorem | says |
|---|---|---|
| PostingProofs | TypeCorrect | types |
| | LateWrites | at most one write is sent after the reviewed tuple moved |
| | StandingInvariant | the inductive invariant of standing reviews |
| | LeaderAlwaysStands, ReviewAlwaysStands | some complete review is visible at every moment |
| | Implementation | Posting implements ReviewReplacement |
| | OutcomeInvariant | the inductive invariant of a job's outcome |
| | LeftoversExplained | a job that stopped left at most one note per fault |
| | SuppressedStayUnrepeated, FilteredStayUnrepeated | no finding is repeated that a person owned, or that a review still shows |
| | OwnJobSparesPeople, PeopleKeepThreads | no thread the snapshot saw a person own is deleted |
| | AttemptedKeptOrReplaced, AttemptedStay | a draft whose publication was attempted stays, or a later review replaced it |
| | ApprovalOverWholeReview, ApprovalFollowsPublication | approval is sent over a complete visible review |
| | ReplacementIsReal, OutcomesTrue | a reported replacement happened |
| | FindingsStayVisible | every finding of a published review is visible, and once |
| ReviewProofs | TypeCorrect, ReviewInvariant | types; the inductive invariant |
| | OneReviewAtATime | two reviews never work in one checkout |
| | OwnInputs | the model sees inputs of its own run only |
| | LeavesNothing | a run that ends by itself leaves nothing private, or says so |
| | TrueResult | a postable result is of a finished and cleaned-up run |
| | HandoffInvariant, PostIsTrue | what is posted is the whole review of the same job, or the note of one whose model never ran |
| | ProgressHolds | the progress lines: the phases in order, a close that cannot hang, silence after it |
| | DebugHolds | the debug bundle: a true journal, a trace that is passed exactly if it is the whole session |
| | ObserversHold | ObserversSafe: both of them |
| FederationProofs | TypeCorrect, FederationInvariant | types; the inductive invariant |
| | OneFlight | equal concurrent calls share one upstream request |
| | CacheAccounted | the byte account of the cache is exact and within its limits |
| | Accounted | every attempt has one outcome or still waits |
| | FilterCovers | what OCR can have seen is known to the publication filter |
| | ReceiptWhole | a returned receipt is whole |
| | SharedSurvives | only the stop of the gateway cancels a shared request |
| EvidenceProofs | TypeCorrect, EvidenceInvariant | types; the inductive invariant |
| | CountsAreExact | no increment of the receipt is lost or made twice |
| | VerifiedWasServed | what is verified as used evidence was served in this run |
| | NoWinnerByOrder | an admitted diagram is the only thing ever proposed |
| ForgeProofs | StatusNotesHold | StatusNotesSafe |
| | ClientHolds | GitLabClientSafe |
| PartsProofs | AuditHolds | DlpAuditSafe |
| | CaptureHolds | RevisionCaptureSafe |
| BoundaryProofs | CoverageHolds | GitlinkReviewSafe |
| | TransportHolds | TransportSafe |
| | ContractHolds | ReceiptContractSafe |
| MaintenanceProofs | ReleaseHolds | what a release publishes, tags, tells and closes, in order and once |
| | CleanupHolds | a cleanup keeps the last warm cache and removes what is old and nothing else |
| | MaintenanceHolds | MaintenanceSafe: both of them |

Assumptions are the named `ASSUME`s of the modules: the author of the old review is no job of the
model, limits are natural numbers (chunks and buffers positive), eligible configurations carry an
identity, server processes are finitely many, None is neither a server nor the content of a file,
GitHub stores finitely many caches, artifacts and runs, no two caches were accessed at one moment,
and the worlds of a component have the types their comment gives. The theorems about one job
(`PeopleKeepThreads`, `AttemptedStay`, `ApprovalFollowsPublication`, `OutcomesTrue`,
`FindingsStayVisible`) state the properties of the run PostingOneJob and have its hypothesis, one
job on the merge request; beside each stands what holds of any number of overlapping jobs.

TLC checked every inductive invariant before it was proved, as an additional invariant of the run
of its component: `StandingInv` and `FederationInv` are properties of the runs for good;
`OutcomeInv` (3.84 M states with one job, 3.33 M with two and people), `ReviewInv` and `HandoffInv`
(ReviewPair and ReviewMixed, 2.45 M) and `CacheInv` (FederationSharing) were added to it for that;
`StatusInv`, `ClientInv`, `AuditInv`, `RevisionInv`, `GitlinkInv`, `WireInv`, `UpstreamInv`,
`ReceiptInv`, `ReleaseInv`, `CleanupInv`, `ProgressInv` and `DebugInv` to Parts, on its own worlds
and on the larger ones named in section 3.

*Why the standing invariant is needed.* "Some review stands" is not inductive: a state in which a
job deletes notes it does not know to be replaced satisfies it and leads to one that does not.
`StandingInv` says what makes the deletion safe. Snapshots are numbered by their completion, a job
writes only after its own, so a snapshot contains only notes of jobs with earlier ones
(`SeenEarlier`); what a job records, publishes or rolls back is its own (`OwnNotes`); before
cleanup all of its notes were confirmed and published (`Attempts`), and after it began there is no
rollback (`Committed`). Hence the review of the job with the latest snapshot among those that
began cleanup (`leader`) is in nobody's delete list.

*The outcome of a post.* What a job reports at its end is about the whole of its run, so
`OutcomeInv` follows each finding through it: how the snapshot sorted the old threads, that nobody
posts in the name of the old review, whether a finding is still planned, written, lost or taken
back, and that what was lost is no more than the faults there were. Other jobs only delete what
their own snapshots saw, which keeps every part of it in an overlap, up to notes a later review
replaces.

*The review run.* Everything follows from who holds the lock: the holder writes only its own name
into the private inputs, and `ReviewInv` says at each place of the run which of the earlier run's
files have been replaced or removed, what the marks of a run (a failed cleanup, a signal, a kept
session) say about how far it came, and that a status is written only by the run it is about. Two
reviews in one checkout are excluded by the lock alone, however they die. `HandoffInv` adds that
what was posted was read after the review of the same job ended, and agrees with it.

*The observers of a run.* A progress line is written by two steps under a lock, so `ProgressInv` says
who may hold it and that the phase being told has not been told; a close then meets a heartbeat that
sleeps, has the lock or can take it. The bundle follows a run through its stages: `DebugInv` says at
each place which stages have passed, which files may have been written, and that a note is true of
its file, unless an interrupt fell between the two: a failed write leaves a note that promises
nothing. Of the projection it says at every turn what the lines read so far hold (`GoingOn`) and, as long as nothing
disturbs the run, how much of each limit they take (`WithinRoom`); at the end of a sound session no
limit was met, and at the end of any other one was. What the first lines hold is said place by place,
a kept line standing where the number of kept lines up to it says, and their room is the number
of units in a set: a filter and a sum over any session become cardinalities, and the step from n lines
to n + 1 adds the elements of one line.

*Why the federation invariant is needed.* That equal calls share a request holds because a running
dispatch is found under its key, which needs that a settled one removes only itself; that the
receipt is whole because the account adds up at every await, and the only attempt missing from it
spoils the receipt; that the filter covers what was seen because a result is registered before it
is delivered, and the runner reads the filter when OCR is gone. The bytes of the cache are a sum,
and a sum over any number of entries is an induction: `Weight` is therefore the number of elements
of a set, a byte of an entry being a pair of both, so that an insertion is a disjoint union
and an eviction a difference. Nothing is ever replaced, because nothing is cached under a key whose
request runs; the eviction stops where the rest fits, or at the end, where everything does.

*Why the evidence invariant is needed.* That counts are exact holds because only the holder of a
lock is between a read and a replacement, and what it read is still the file. That no diagram wins
by order needs a count of what is missing: OCR's count is never less than the collector's plus the
submissions on their way, and where the two are equal, everything proposed is the candidate or on
its way. A lost, refused or undispatched submission breaks the equality for ever, a different one
the reason; so when the runner finds both counts equal and no reason, nobody else proposed anything.

*Status notes and the client.* A setup note always stands although jobs remove each other's: a job
deletes only notes older than its own, so the note of the newest cleaner is in nobody's list; a
write that came late closes the way to a second one. Whether a lasting note is missed by a listing
that shifts depends on its order: newest first, such a note has been read or is still to come;
oldest first, what has been read is the beginning of the list.

*Audit and capture.* `AuditInv` ties each document to the one written before it: the key to its
stages, the inventory to what is stored raw, two readings to one moment, the secrets of one worker
to those of the scan, and every omission to one count. `RevisionInv` rests on what cannot go back:
the version of a diff only grows, so that between two equal readings everything asked was of that
version; what a shallow clone lacks of a line is below a cut of it; and while people leave the
forge alone, a second capture differs from the first in the policy branch alone, which moves forward.

*Gitlinks.* No two records of a listing share an end, so what agrees with the trees is all of it:
that makes the projection, which every later reading is compared with, a fact about the two trees,
whatever the local configuration was in between.

*The transport.* Since a byte is its position, every buffer on the way is an interval of its stream,
and `WireInv` says of each where it begins and ends; then nothing can be lost, repeated or moved.
The relay's count of an unfinished frame is the distance to the last end before it, so both sides
refuse the same frames for their length. Where the next end is, is the least element of a set of
numbers: that it exists is shown by counting instead of induction. An ended source has nothing more
to give, which is what makes a clean exit an answer. `UpstreamInv` is nearly `TransportSafe` itself:
who may have outlived a round of the stop is followed by what the round saw.

*The result contract.* A file the post reads was written by another program; what ties the two is
that a final file is the projection of what this run reported, with a receipt its own writer
accepted (`FinalIsOfThisRun`). Then each clause of the loader is met: it repeats the writer's checks
on the same fields, its text policy is milder than the one the projection already applied, and its
summary finds the outcome's kind among the counts the writer kept. That the writer refuses its own
receipt in the named cases only follows from the facts of `RunReceipt` check by check
(`RefusalHolds`). Approval needs an unfiltered
receipt, for which the projection is the report itself.

*The release.* A run acts on what earlier runs left, with outputs that may be as old as its build
job. `ReleaseInv` says for each step what must have been published before a run can be there
(`JobInOrder`), also of a run that stopped and is started again at that step; these facts last,
because what is in a registry, the tag and a locked release cannot be taken back. Of the one run at
work it says what lasts only until somebody interferes: a second file follows the first of the same
run, what was compared is what is on disk, an issue is told once and of what is locked. That only
one release is created needs a fact about the listing: a release of this version has been found, or
it is on a page still to come, since others that are added only push it further back; one that is
deleted is the exception (`pageMoved`).

*The cleanup.* It plans from lists that were read page by page. `CleanupInv` says what an entry
still says of a cache when jobs have used others since (never its place, always its kind, branch and
platform), and that without a shift of the pages no cache is listed twice; so the newest uv cache of
a platform among the entries is one cache, and it is not planned. That an undisturbed cleanup leaves
nothing out needs more: what is not listed is behind a full page, hence not missed when the listing
ends at a short one. Ranks, pages and the newest of finitely many are cardinalities of sets, counted
instead of computed, which keeps induction out.

### Only model-checked

* Liveness (`EveryJobEnds`, `EveryCallAnswered`, `ThreadEnds`, `RequestsEnd`, `CheckoutComesFree`):
  the prover has neither fairness nor ENABLED.
* `SourceTextSafe`: the texts are read by recursive operators, with which the prover loses its
  arithmetic, and what they compute for every text is an induction.
* `ForgeContextSafe`, `EvidenceStoreSafe`, `EvidenceQueriesSafe`: projections of
  sequences by `SelectSeq` and folds, whose results for sequences of any length are inductions too.

## 6. What is not modelled

Text: parsing, redaction, formatting, digests. Where it decides something, the decision is a
choice of the model (a refused call, a filtered finding, a rejected preview) or a kind a value has
(a text that is refused when rendered, an object that does not parse). A digest is the value it is made
of, so collisions are left out.

OCR itself, which may use any evidence, return or never return; Git and GitLab, which are what their
callers can see of them, marked external in `PROJECT.json`.

Components without a module: the recognition of ecosystems and frameworks, policy and accepted
decisions, DLP admission and the configuration are stateless readers of text or write one file
atomically, so a state machine has nothing to add to their unit tests; compatibility and
qualification scripts compare recorded outputs and are maintainers' tools outside the program. Of
the release, the steps GitHub's own actions take are one step each. Of the debug bundle,
the list of DLP decisions and the digests are left out; of the review run, the optional diagram
files, which never change its outcome, and OCR's children end with it;
of the handoff, the note about a failed provider; of the posting transaction, the exits before its
first request. `PROJECT.json` says of every component what is left out.

## 7. Plan

Done, in this order: the posting transaction (the only part whose mistakes cannot be undone), its
abstract specification and proofs; the federation gateway and its proofs; the review run and its
handoff; the evidence servers and their proofs; then, in Parts, status notes, the client with its
paginated reads, identity capture, the result contract, the forge context and its store, the
evidence store and its server, gitlinks, progress and debug bundle, source reading and placement, the
relay and the upstream transport, the audit, the release and the cleanup; then the proofs of the
review run, of the outcome of a post, of the cache, of ten of the parts.

Left, most important first:

1. the evidence store and the context store, stated without `SelectSeq`, as the trace is;
2. an abstract ledger of calls that the gateway implements;
3. the note about a failed provider and the exits of a post before its first request.
