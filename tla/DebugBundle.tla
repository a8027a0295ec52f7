----------------------------- MODULE DebugBundle -----------------------------
(* The private debug bundle of a local review (review_debug.py,               *)
(* review_trace.py and their calls in review_runner.py): files copied at the  *)
(* moments the run passes, a projection of OCR's own session file, read while *)
(* something may still write to it, and a journal that says what was kept.    *)
(* Every diagnostic write may fail; the review, its cleanup and what the      *)
(* journal says must not depend on it.                                        *)
EXTENDS ReviewProgress, FiniteSets, SequencesExt

CONSTANTS
  ModelEnds,       \* how OCR may end: its result, its session (NoCopy or lines), and what follows
  LateLines,       \* lines that may still be written while the file is read
  MaxTraceRecords, \* MAX_RECORDS
  SourceRoom,      \* MAX_SOURCE_BYTES, in lines of usual length
  TraceRoom,       \* MAX_TRACE_BYTES, in records of usual length
  MaxMishaps       \* bound: diagnostic writes that fail, a session file that changes, an interrupt

Artifact == {"bootstrap", "raw", "diagram", "trace", "summary", "safe"}
PreparingStages == <<"configuration", "identity", "evidence", "mcp-preflight">>
CheckingStages == <<"mcp-use", "dlp", "result-validation">>
DebugStage == Range(PreparingStages) \cup Range(CheckingStages) \cup {"preview", "subprocess", "cleanup", "reporting"}

(* Lines of a session file.  "other" is of a kind that is not kept, "unfit"   *)
(* and "unfitEnd" cannot be projected, "garbled" is no JSON, "foreign" is of  *)
(* another session or breaks the chain of records, "elsewhere" is a header of *)
(* another range, "open" and "openEnd" have no line end yet, "long" is over   *)
(* MAX_RECORD_BYTES, "dense" and "big" are tasks of some length, of which the *)
(* projection keeps all, or little.                                           *)
KeptLine == {"start", "task", "dense", "big", "end", "openEnd"}
TraceLine == KeptLine \cup {"other", "unfit", "unfitEnd", "garbled", "foreign", "elsewhere", "open", "long"}
LineRoom(l) == CASE l = "big" -> 4 [] l = "dense" -> 2 [] OTHER -> 1
KeptRoom(l) == IF l = "dense" THEN 2 ELSE 1
IsKept(l) == l \in KeptLine

(* What a file holds is a sequence; a copied text is one word of it.          *)
NoCopy == <<"none">>
Session == Seq(TraceLine) \cup {NoCopy}

ASSUME DebugAssumption ==
  /\ {MaxTraceRecords, SourceRoom, TraceRoom} \subseteq Nat \ {0} /\ MaxMishaps \in Nat
  /\ ModelEnds \subseteq [result : {"none", "raw", "large"}, session : Session, leads : {"running", "rejected", "failing"}]
  /\ LateLines \subseteq TraceLine

NotRun == [status |-> "not-run", holds |-> NoCopy]
Missing == [status |-> "missing", holds |-> NoCopy]
Unavailable == [status |-> "unavailable", holds |-> NoCopy]
NoJournal == [complete |-> FALSE, notes |-> <<>>, phases |-> <<>>]
Untraced == [at |-> 0, read |-> 0, kept |-> <<>>, filled |-> 0, ended |-> FALSE, complete |-> FALSE, cutShort |-> FALSE]

VARIABLES
  debugAt,      \* where the run is
  stageNow,     \* ReviewRunState.stage
  outcomeNow,      \* "running", "rejected", "nothing" (ended without a review), "failing"
                \* (an exception is on its way), "ok", "failed", "interrupted"
  resultFile,   \* what the result path holds: "none", "raw", "large", "final"
  told,         \* what the report destination holds: "none", "report", "failure"
  admitted,     \* state.report
  observed,     \* DebugBundle.phases
  bundle,       \* what the file of each artifact holds
  keptNotes,        \* DebugBundle.artifacts
  journal,      \* journal.json
  pinned,       \* the private home is bound
  nativeFile,   \* the session file in it
  shifted,      \* the file was changed or replaced since it was opened
  tracing,      \* the reading of it
  mishaps,
  torn          \* ghost: an interrupt fell between a file and its note

bundleFiles == <<bundle, keptNotes, journal>>
traceVars == <<pinned, nativeFile, shifted, tracing>>
runFacts == <<resultFile, told, admitted>>
debugVars == <<debugAt, stageNow, outcomeNow, resultFile, told, admitted, observed, bundle, keptNotes, journal,
               pinned, nativeFile, shifted, tracing, mishaps, torn>>

-----------------------------------------------------------------------------
(* _write replaces a file atomically; it may fail before the replacement, or  *)
(* after it.                                                                  *)
Replacement(now, content) ==
  {[file |-> content, ok |-> TRUE, cost |-> 0]}
  \cup (IF mishaps < MaxMishaps THEN {[file |-> f, ok |-> FALSE, cost |-> 1] : f \in {now, content}} ELSE {})

(* capture, capture_parts: the note follows the file.                         *)
Keep(a, content, status) ==
  \E w \in Replacement(bundle[a], content) :
    /\ bundle' = [bundle EXCEPT ![a] = w.file]
    /\ keptNotes' = [keptNotes EXCEPT ![a] = IF w.ok THEN [status |-> status, holds |-> content] ELSE Unavailable]
    /\ mishaps' = mishaps + w.cost
Capture(a, source) ==
  IF source = "none" THEN keptNotes' = [keptNotes EXCEPT ![a] = Missing] /\ UNCHANGED <<bundle, mishaps>>
  ELSE Keep(a, <<source>>, IF source = "large" THEN "degraded" ELSE "passed")

(* An interrupt that acts between the replacement and the note.               *)
CaptureTorn(a, source) ==
  /\ mishaps < MaxMishaps /\ source # "none" /\ mishaps' = mishaps + 1
  /\ bundle' = [bundle EXCEPT ![a] = <<source>>] /\ torn' = TRUE
  /\ UNCHANGED keptNotes

(* flush: a journal that is too long is a failed write too.                   *)
Flushes(complete) ==
  \E w \in Replacement(journal, [complete |-> complete, notes |-> keptNotes, phases |-> observed]) :
    journal' = w.file /\ mishaps' = mishaps + w.cost

Observe(stage, status) == observed' = [observed EXCEPT ![stage] = status]

-----------------------------------------------------------------------------
(* The bundle is prepared before the review; without a first journal there is *)
(* no review.                                                                 *)
CreateBundle ==
  /\ debugAt = "create" /\ Flushes(FALSE)
  /\ IF mishaps' = mishaps THEN debugAt' = "refs" /\ UNCHANGED outcomeNow
     ELSE debugAt' = "tell" /\ outcomeNow' = "failing"
  /\ UNCHANGED <<stageNow, runFacts, observed, bundle, keptNotes, traceVars, torn>>

(* Options and the range are settled before the private home exists.          *)
StartSession ==
  /\ debugAt = "refs"
  /\ \/ debugAt' = "configuration" /\ UNCHANGED <<outcomeNow, stageNow>>
     \/ debugAt' = "tell" /\ outcomeNow' = "failing" /\ stageNow' \in {"configuration", "identity"}
  /\ UNCHANGED <<runFacts, observed, bundleFiles, traceVars, mishaps, torn>>

NextStage(s) == PreparingStages[1 + CHOOSE i \in DOMAIN PreparingStages : PreparingStages[i] = s]

(* bind_native_session: what cannot be bound is noted, and not read.          *)
BindSession ==
  \/ pinned' = TRUE /\ UNCHANGED <<keptNotes, mishaps>>
  \/ /\ mishaps < MaxMishaps /\ mishaps' = mishaps + 1
     /\ keptNotes' = [keptNotes EXCEPT !["trace"] = Unavailable] /\ UNCHANGED pinned

(* configuration, identity and evidence; identity binds the private home.  A  *)
(* stage observed as degraded counts as passed.                               *)
StagePasses ==
  /\ debugAt \in {"configuration", "identity", "evidence"} /\ stageNow' = NextStage(debugAt)
  /\ debugAt' = IF debugAt = "evidence" THEN "bootstrap" ELSE NextStage(debugAt)
  /\ Observe(debugAt, "passed")
  /\ IF debugAt = "identity"
     THEN BindSession
     ELSE UNCHANGED <<pinned, keptNotes, mishaps>>
  /\ UNCHANGED <<outcomeNow, runFacts, bundle, journal, nativeFile, shifted, tracing, torn>>

CaptureBootstrap ==
  /\ debugAt = "bootstrap"
  /\ \/ Capture("bootstrap", "text") /\ debugAt' = "mcp-preflight" /\ UNCHANGED <<outcomeNow, torn>>
     \/ CaptureTorn("bootstrap", "text") /\ debugAt' = "diagram" /\ outcomeNow' = "failing"
  /\ UNCHANGED <<stageNow, runFacts, observed, journal, traceVars>>

PreflightPasses ==
  /\ debugAt = "mcp-preflight" /\ Observe("mcp-preflight", "passed")
  /\ debugAt' = "preview" /\ stageNow' = "preview"
  /\ UNCHANGED <<outcomeNow, runFacts, bundleFiles, traceVars, mishaps, torn>>

(* Any step of the review may fail; the private session is removed then too.  *)
StageFails ==
  /\ debugAt \in Range(PreparingStages) \cup {"bootstrap", "preview"}
  /\ debugAt' = "diagram" /\ outcomeNow' = "failing"
  /\ UNCHANGED <<stageNow, runFacts, observed, bundleFiles, traceVars, mishaps, torn>>

(* The preview admits the review, rejects it, or finds nothing to review; or  *)
(* the inputs changed before the model could run.                             *)
PreviewEnds ==
  /\ debugAt = "preview"
  /\ \/ /\ Observe("preview", "passed") /\ debugAt' = "model"
        /\ stageNow' = "subprocess" /\ UNCHANGED outcomeNow
     \/ Observe("preview", "failed") /\ debugAt' = "diagram" /\ outcomeNow' = "rejected" /\ UNCHANGED stageNow
     \/ Observe("preview", "passed") /\ debugAt' = "diagram" /\ outcomeNow' \in {"nothing", "failing"} /\ UNCHANGED stageNow
  /\ UNCHANGED <<runFacts, bundleFiles, traceVars, mishaps, torn>>

(* OCR (external) writes a result and a session, or neither.                  *)
ModelRuns ==
  /\ debugAt = "model" /\ debugAt' = "rawResult"
  /\ \E e \in ModelEnds : resultFile' = e.result /\ nativeFile' = e.session /\ outcomeNow' = e.leads
  /\ UNCHANGED <<stageNow, told, admitted, observed, bundleFiles, pinned, shifted, tracing, mishaps, torn>>

(* The original output is copied whatever the end of OCR was.                 *)
CaptureRaw ==
  /\ debugAt = "rawResult" /\ debugAt' = "diagram"
  /\ \/ /\ Capture("raw", resultFile) /\ UNCHANGED <<outcomeNow, torn>>
        /\ IF outcomeNow = "failing" THEN UNCHANGED observed
           ELSE Observe("subprocess", IF outcomeNow = "rejected" THEN "failed" ELSE "passed")
     \/ CaptureTorn("raw", resultFile) /\ outcomeNow' = "failing" /\ UNCHANGED observed
  /\ UNCHANGED <<stageNow, runFacts, journal, traceVars>>

(* The cleanup begins, with signals held back.                                *)
CaptureDiagram ==
  /\ debugAt = "diagram" /\ debugAt' = "trace"
  /\ \E source \in {"none", "text"} : Capture("diagram", source)
  /\ UNCHANGED <<stageNow, outcomeNow, runFacts, observed, journal, traceVars, torn>>

-----------------------------------------------------------------------------
(* NativeTraceSource.capture                                                  *)

TraceNoted(note) ==
  keptNotes' = [keptNotes EXCEPT !["trace"] = note] /\ debugAt' = "clean" /\ tracing' = Untraced

(* The home of a run that never bound it is not looked at; an inventory that  *)
(* is ambiguous or not private is not read.                                   *)
TraceOpens ==
  /\ debugAt = "trace"
  /\ \/ ~pinned /\ debugAt' = "clean" /\ UNCHANGED <<keptNotes, mishaps, tracing>>
     \/ pinned /\ nativeFile = NoCopy /\ TraceNoted(Missing) /\ UNCHANGED mishaps
     \/ pinned /\ nativeFile # NoCopy /\ debugAt' = "reading" /\ UNCHANGED <<keptNotes, mishaps, tracing>>
     \/ pinned /\ mishaps < MaxMishaps /\ mishaps' = mishaps + 1 /\ TraceNoted(Unavailable)
  /\ UNCHANGED <<stageNow, outcomeNow, runFacts, observed, bundle, journal, pinned, nativeFile, shifted, torn>>

(* Somebody still writes, or puts another file in its place: the one that was *)
(* opened is read on.                                                         *)
SessionShifts ==
  /\ debugAt \in {"reading", "traced"} /\ mishaps < MaxMishaps /\ mishaps' = mishaps + 1 /\ shifted' = TRUE
  /\ \/ /\ nativeFile # <<>> => Last(nativeFile) \notin {"open", "openEnd"}
        /\ \E l \in LateLines : nativeFile' = Append(nativeFile, l)
     \/ UNCHANGED nativeFile
  /\ UNCHANGED <<debugAt, stageNow, outcomeNow, runFacts, observed, bundleFiles, pinned, tracing, torn>>

TraceEnds(t) == tracing' = t /\ debugAt' = "traced" /\ UNCHANGED keptNotes
TraceGoesOn(t) == tracing' = t /\ UNCHANGED <<debugAt, keptNotes>>
CutShortIf(c, t) == [t EXCEPT !.cutShort = @ \/ c]
CutShort(t) == CutShortIf(TRUE, t)

(* One turn of _project's loop.                                               *)
RecordRefused(line, at) ==
  \/ line \in {"foreign", "elsewhere"}
  \/ at = 1 /\ line # "start"
  \/ at > 1 /\ (line = "start" \/ tracing.ended)

(* A whole line within the limits: t is the reading once it is counted.       *)
LineRead(line, t) ==
  \/ line \in {"garbled", "open"} /\ t.at > 1 /\ TraceEnds(CutShortIf(line = "open", t))
  \/ line \in {"garbled", "open"} /\ t.at = 1 /\ TraceNoted(Unavailable)
  \/ line \notin {"garbled", "open"} /\ RecordRefused(line, t.at) /\ TraceNoted(Unavailable)
  \/ /\ line \notin {"garbled", "open"} /\ ~RecordRefused(line, t.at)
     /\ LET u == CutShortIf(line = "openEnd", [t EXCEPT !.ended = line \in {"end", "openEnd", "unfitEnd"}]) IN
        IF ~IsKept(line) THEN TraceGoesOn(u)
        ELSE IF u.filled + KeptRoom(line) > TraceRoom THEN TraceEnds(CutShort(u))
        ELSE TraceGoesOn([u EXCEPT !.kept = Append(@, line), !.filled = @ + KeptRoom(line), !.complete = u.ended])

ReadRecord ==
  /\ debugAt = "reading"
  /\ LET whole == tracing.at = Len(nativeFile)
         line == nativeFile[tracing.at + 1]
         t == [tracing EXCEPT !.at = @ + 1, !.read = @ + LineRoom(line)]
     IN IF tracing.at = MaxTraceRecords THEN TraceEnds(CutShortIf(~whole, tracing))
        ELSE IF tracing.read >= SourceRoom THEN TraceEnds(CutShort(tracing))
        ELSE IF whole THEN TraceEnds(tracing)
        ELSE IF line = "long" \/ t.read > SourceRoom THEN TraceEnds(CutShort(tracing))
        ELSE LineRead(line, t)
  /\ UNCHANGED <<stageNow, outcomeNow, runFacts, observed, bundle, journal, pinned, nativeFile, shifted, mishaps, torn>>

(* What was read is whole if it ends with the session's end and nothing was   *)
(* left out, or changed meanwhile.                                            *)
EndIsEnough(t) == t.complete /\ ~t.cutShort  \* slip
TracePassed(t) == t.complete /\ ~t.cutShort /\ t.at = Len(t.kept)
TraceKept ==
  /\ debugAt = "traced" /\ debugAt' = "clean" /\ tracing' = Untraced
  /\ Keep("trace", tracing.kept, IF TracePassed(tracing) /\ ~shifted THEN "passed" ELSE "degraded")
  /\ UNCHANGED <<stageNow, outcomeNow, runFacts, observed, journal, pinned, nativeFile, shifted, torn>>

-----------------------------------------------------------------------------
(* The private session is removed; only then is the result validated.         *)
CleanUp ==
  /\ debugAt = "clean"
  /\ \/ /\ Observe("cleanup", "passed") /\ UNCHANGED <<outcomeNow, resultFile>>
        /\ debugAt' = CASE outcomeNow = "failing" -> "tell" [] outcomeNow = "running" -> "validate" [] OTHER -> "report"
        /\ stageNow' = IF outcomeNow = "running" THEN "result-validation" ELSE stageNow
     \/ /\ Observe("cleanup", "failed") /\ debugAt' = "tell" /\ outcomeNow' = "failing"
        /\ IF outcomeNow = "failing" THEN UNCHANGED <<stageNow, resultFile>>
           ELSE stageNow' = "cleanup" /\ resultFile' = "none"
  /\ UNCHANGED <<told, admitted, bundleFiles, traceVars, mishaps, torn>>

(* _finalize_ocr_result: n of its three checks pass.                          *)
Validate ==
  /\ debugAt = "validate"
  /\ \E n \in 0..3 :
       /\ n > 0 => resultFile = "raw"
       /\ observed' = [s \in DebugStage |-> IF \E i \in 1..n : CheckingStages[i] = s THEN "passed" ELSE observed[s]]
       /\ IF n = 3 THEN resultFile' = "final" /\ admitted' = TRUE /\ debugAt' = "report" /\ UNCHANGED <<outcomeNow, stageNow>>
          ELSE /\ resultFile' = "none" /\ debugAt' = "tell" /\ outcomeNow' = "failing" /\ UNCHANGED admitted
               /\ stageNow' \in {CheckingStages[n + 1]} \cup (IF n = 0 THEN {stageNow} ELSE {})
  /\ UNCHANGED <<told, bundleFiles, traceVars, mishaps, torn>>

(* publish_local_report may fail before the destination is linked, or after.  *)
HalfPublished(content) == {told, content}

(* The publication, and then the copy of what was published.                  *)
ReportResult ==
  /\ debugAt = "report" /\ stageNow' = "reporting"
  /\ LET report == IF admitted THEN "report" ELSE "failure" IN
     \/ told' = report /\ debugAt' = "reported" /\ UNCHANGED <<outcomeNow, bundle, keptNotes, mishaps>>
     \/ /\ told' \in HalfPublished(report) /\ Keep("summary", <<"failure">>, "passed")
        /\ debugAt' = "tell" /\ outcomeNow' = "failing"
  /\ UNCHANGED <<resultFile, admitted, observed, journal, traceVars, torn>>

CaptureReport ==
  /\ debugAt = "reported" /\ Capture("summary", told) /\ debugAt' = "console"
  /\ UNCHANGED <<stageNow, outcomeNow, runFacts, observed, journal, traceVars, torn>>

Console ==
  /\ debugAt = "console"
  /\ \/ /\ Observe("reporting", "passed") /\ debugAt' = "safe"
        /\ outcomeNow' = IF outcomeNow = "running" THEN "ok" ELSE outcomeNow
     \/ debugAt' = "tell" /\ outcomeNow' = "failing" /\ UNCHANGED observed
  /\ UNCHANGED <<stageNow, runFacts, bundleFiles, traceVars, mishaps, torn>>

(* The handler of every exception: the stage that failed, and the failure     *)
(* summary, as it was meant and as it was published.                          *)
TellFailure ==
  /\ debugAt = "tell" /\ Observe(stageNow, "failed") /\ outcomeNow' = "failed"
  /\ IF stageNow = "reporting" THEN debugAt' = "safe" /\ UNCHANGED <<bundle, keptNotes, mishaps>>
     ELSE Keep("summary", <<"failure">>, "passed") /\ debugAt' = "publish"
  /\ UNCHANGED <<stageNow, runFacts, journal, traceVars, torn>>

PublishFailure ==
  /\ debugAt = "publish" /\ debugAt' = "safe"
  /\ \/ /\ told' = "failure" /\ Capture("summary", "failure")
        /\ \E s \in {"passed", "failed"} : Observe("reporting", s)
     \/ told' \in HalfPublished("failure") /\ Observe("reporting", "failed") /\ UNCHANGED <<bundle, keptNotes, mishaps>>
  /\ UNCHANGED <<stageNow, outcomeNow, resultFile, admitted, journal, traceVars, torn>>

(* An interrupt of the reporting, or one held back until the cleanup is done, *)
(* is no Exception: only the finally block runs.                              *)
InterruptedReport ==
  /\ debugAt \in {"report", "reported", "console", "tell", "publish"} /\ debugAt' = "safe" /\ outcomeNow' = "interrupted"
  /\ \/ mishaps < MaxMishaps /\ mishaps' = mishaps + 1 /\ UNCHANGED <<told, bundle, keptNotes, torn>>
     \/ debugAt = "reported" /\ CaptureTorn("summary", told) /\ UNCHANGED told
     \/ debugAt = "publish" /\ CaptureTorn("summary", "failure") /\ told' = "failure"
  /\ UNCHANGED <<stageNow, resultFile, admitted, observed, journal, traceVars>>

(* The finally block: the safe result, and the last journal.                  *)
CaptureSafe ==
  /\ debugAt = "safe" /\ debugAt' = "flush"
  /\ IF admitted THEN Capture("safe", resultFile) ELSE UNCHANGED <<bundle, keptNotes, mishaps>>
  /\ UNCHANGED <<stageNow, outcomeNow, runFacts, observed, journal, traceVars, torn>>

FinalJournal ==
  /\ debugAt = "flush" /\ Flushes(TRUE) /\ debugAt' = "closed"
  /\ UNCHANGED <<stageNow, outcomeNow, runFacts, observed, bundle, keptNotes, traceVars, torn>>

DebugInit ==
  /\ debugAt = "create" /\ stageNow = "configuration" /\ outcomeNow = "running"
  /\ resultFile = "none" /\ told = "none" /\ admitted = FALSE
  /\ observed = [s \in DebugStage |-> "not-run"]
  /\ bundle = [a \in Artifact |-> NoCopy] /\ keptNotes = [a \in Artifact |-> NotRun] /\ journal = NoJournal
  /\ pinned = FALSE /\ nativeFile = NoCopy /\ shifted = FALSE /\ tracing = Untraced
  /\ mishaps = 0 /\ torn = FALSE

DebugNext ==
  \/ CreateBundle \/ StartSession \/ StagePasses \/ CaptureBootstrap \/ PreflightPasses \/ StageFails \/ PreviewEnds
  \/ ModelRuns \/ CaptureRaw \/ CaptureDiagram \/ TraceOpens \/ SessionShifts \/ ReadRecord \/ TraceKept
  \/ CleanUp \/ Validate \/ ReportResult \/ CaptureReport \/ Console \/ TellFailure \/ PublishFailure
  \/ InterruptedReport \/ CaptureSafe \/ FinalJournal

DebugSpec == DebugInit /\ [][DebugNext]_debugVars

-----------------------------------------------------------------------------
(* What the last journal says of the files is so, whichever write failed: a   *)
(* file noted as kept holds what the note says, and none is there of which it *)
(* says there is none; unless an interrupt fell between the two.              *)
JournalIsTrue ==
  debugAt = "closed" =>
    /\ mishaps = 0 => journal.complete
    /\ journal.complete /\ ~torn => \A a \in Artifact :
         /\ journal.notes[a].status \in {"passed", "degraded"} => bundle[a] = journal.notes[a].holds
         /\ journal.notes[a].status \in {"not-run", "missing"} => bundle[a] = NoCopy

(* Raw and safe stay apart: the raw copy is taken before finalization touches *)
(* the result, the safe one only after it was admitted, and so the admitted   *)
(* report, which failures of diagnostics never take back.                     *)
RawIsOriginal ==
  /\ bundle["raw"] \in {NoCopy, <<"raw">>, <<"large">>} /\ bundle["safe"] \in {NoCopy, <<"final">>}
  /\ debugAt = "trace" /\ mishaps = 0 /\ resultFile # "none" => bundle["raw"] = <<resultFile>>
  /\ told = "report" \/ bundle["summary"] = <<"report">> => admitted
  /\ admitted => resultFile = "final"

(* What the first n lines of a session file hold: each kept line stands where *)
(* the number of kept lines up to it says, and there are no others.           *)
KeptUpTo(file, n) == Cardinality({m \in 1..n : IsKept(file[m])})
HoldsFirst(trace, file, n) ==
  Len(trace) = KeptUpTo(file, n) /\ \A m \in 1..n : IsKept(file[m]) => trace[KeptUpTo(file, m)] = file[m]
HoldsPart(trace, file) == \E n \in 0..Len(file) : HoldsFirst(trace, file, n)

(* A trace noted as passed is the whole session file, from its start to its   *)
(* end; every other one is what a first part of the file holds.               *)
TraceIsTrue ==
  /\ keptNotes["trace"].status = "passed" => keptNotes["trace"].holds = nativeFile /\ Last(nativeFile) = "end" /\ ~shifted
  /\ bundle["trace"] # NoCopy =>
       /\ HoldsPart(bundle["trace"], nativeFile)
       /\ bundle["trace"] # <<>> => bundle["trace"][1] = "start"
       /\ \A i \in DOMAIN bundle["trace"] : bundle["trace"][i] = "end" => i = Len(bundle["trace"])

(* The room of the first n lines: what each takes, unit by unit.              *)
SourceUnits(file, n) == {u \in (1..n) \X (1..4) : u[2] <= LineRoom(file[u[1]])}
TraceUnits(file, n) == {u \in (1..n) \X (1..4) : u[2] <= KeptRoom(file[u[1]])}

(* A whole session that fits the limits and that nothing disturbs is passed.  *)
Sound(file) ==
  LET n == Len(file)
      room == Cardinality(SourceUnits(file, n)) IN
  /\ \A i \in 1..n : file[i] \in KeptLine \ {"openEnd"} /\ (file[i] = "start" <=> i = 1) /\ (file[i] = "end" <=> i = n)
  /\ n <= MaxTraceRecords /\ (n < MaxTraceRecords => room < SourceRoom)
  /\ room <= SourceRoom /\ Cardinality(TraceUnits(file, n)) <= TraceRoom
QuietTraceIsPassed ==
  debugAt = "validate" /\ mishaps = 0 /\ nativeFile # NoCopy /\ nativeFile # <<>> =>
    (keptNotes["trace"].status = "passed" <=> Sound(nativeFile))

(* The last journal names the stage that failed, and none when the review     *)
(* succeeded; a success was cleaned up, admitted and told.                    *)
FailureIsTold ==
  debugAt = "closed" =>
    /\ journal.complete /\ outcomeNow = "failed" => journal.phases[stageNow] = "failed"
    /\ journal.complete /\ outcomeNow = "rejected" => \E s \in {"preview", "subprocess"} : journal.phases[s] = "failed"
    /\ outcomeNow = "ok" =>
         /\ told = "report" /\ admitted /\ observed["cleanup"] = "passed"
         /\ \A s \in DebugStage : observed[s] = "passed"

(* However the run ends, a private home that was used has been cleaned up, or *)
(* the journal says that it could not be.                                     *)
CleanupReached ==
  debugAt = "closed" /\ observed["configuration"] = "passed" => observed["cleanup"] # "not-run"

DebugBundleSafe ==
  JournalIsTrue /\ RawIsOriginal /\ TraceIsTrue /\ QuietTraceIsPassed /\ FailureIsTold /\ CleanupReached

(* What a maintainer watches of a run, by its progress lines or by the debug  *)
(* bundle, is what happened (ReviewProgressSafe, DebugBundleSafe).            *)
ObserversSafe == ReviewProgressSafe /\ DebugBundleSafe

-----------------------------------------------------------------------------
(* The inductive invariant.  First where a run can be, and what it can hold.  *)
BeforeModel ==
  {"create", "refs", "configuration", "identity", "evidence", "bootstrap", "mcp-preflight", "preview", "model"}
BeforeTrace == BeforeModel \cup {"rawResult", "diagram"}
BeforeClean == BeforeTrace \cup {"trace", "reading", "traced"}
ReportSteps == {"report", "reported", "console"}
LastSteps == {"tell", "publish", "safe", "flush", "closed"}
BundleText == Session \cup {<<w>> : w \in {"text", "raw", "large", "final", "report", "failure"}}
BundleNote == [status : {"not-run", "missing", "unavailable", "degraded", "passed"}, holds : BundleText]
TraceReading == [at : Nat, read : Nat, kept : Seq(KeptLine), filled : Nat, ended : BOOLEAN, complete : BOOLEAN, cutShort : BOOLEAN]

DebugTypeOK ==
  /\ debugAt \in BeforeClean \cup {"clean", "validate"} \cup ReportSteps \cup LastSteps
  /\ stageNow \in DebugStage /\ outcomeNow \in {"running", "rejected", "nothing", "failing", "ok", "failed", "interrupted"}
  /\ resultFile \in {"none", "raw", "large", "final"} /\ told \in {"none", "report", "failure"}
  /\ observed \in [DebugStage -> {"not-run", "passed", "failed"}]
  /\ bundle \in [Artifact -> BundleText] /\ keptNotes \in [Artifact -> BundleNote] /\ nativeFile \in Session
  /\ {admitted, journal.complete, pinned, shifted, torn} \subseteq BOOLEAN /\ mishaps \in Nat
  /\ tracing \in TraceReading

(* The last journal is the last step, and it repeats what the run holds.      *)
JournalInOrder ==
  /\ journal.complete => debugAt = "closed" /\ journal.notes = keptNotes /\ journal.phases = observed
  /\ debugAt = "closed" /\ mishaps = 0 => journal.complete

(* Each note is true of its file at every moment, and a file that is noted as *)
(* missing was never written.                                                 *)
NotesInOrder ==
  /\ ~torn => \A a \in Artifact :
       /\ keptNotes[a].status \in {"passed", "degraded"} => bundle[a] = keptNotes[a].holds
       /\ keptNotes[a].status \in {"not-run", "missing"} => bundle[a] = NoCopy
  /\ debugAt \in BeforeModel \cup {"rawResult"} => bundle["raw"] = NoCopy
  /\ debugAt \in BeforeTrace => bundle["diagram"] = NoCopy
  /\ debugAt \in BeforeClean => bundle["trace"] = NoCopy /\ keptNotes["trace"].status \in {"not-run", "unavailable"}

ResultInOrder ==
  /\ debugAt \in BeforeModel => resultFile = "none" /\ nativeFile = NoCopy
  /\ debugAt = "rawResult" => resultFile # "final"
  /\ admitted => resultFile = "final" /\ debugAt \in ReportSteps \cup LastSteps
  /\ debugAt = "reported" => told # "none"
  /\ debugAt \in {"diagram", "trace"} /\ mishaps = 0 /\ resultFile # "none" => bundle["raw"] = <<resultFile>>
  /\ RawIsOriginal

(* While the run goes well, every stage behind it has passed.                 *)
PassedBehind(s) ==
  debugAt \in CASE s = "configuration" -> {"create", "refs", "configuration"}
                [] s = "identity" -> {"create", "refs", "configuration", "identity"}
                [] s = "evidence" -> {"create", "refs", "configuration", "identity", "evidence"}
                [] s = "mcp-preflight" -> BeforeModel \ {"preview", "model"}
                [] s = "preview" -> BeforeModel \ {"model"}
                [] s = "subprocess" -> BeforeModel \cup {"rawResult"}
                [] s = "cleanup" -> BeforeClean \cup {"clean"}
                [] s = "reporting" -> BeforeClean \cup {"clean", "validate"} \cup ReportSteps
                [] OTHER -> BeforeClean \cup {"clean", "validate"}
OutcomeInOrder ==
  /\ debugAt \in BeforeModel \cup {"validate"} => outcomeNow = "running"
  /\ outcomeNow = "running" =>
       /\ debugAt \notin LastSteps
       /\ \A s \in DebugStage : PassedBehind(s) \/ observed[s] = "passed"
       /\ debugAt \in ReportSteps => admitted /\ (debugAt # "report" => told = "report")
  /\ outcomeNow = "ok" =>
       /\ debugAt \in {"safe", "flush", "closed"} /\ told = "report" /\ admitted
       /\ \A s \in DebugStage : observed[s] = "passed"
  /\ outcomeNow = "rejected" => debugAt = "rawResult" \/ \E s \in {"preview", "subprocess"} : observed[s] = "failed"
  /\ outcomeNow = "failed" =>
       /\ debugAt \in LastSteps \ {"tell"} /\ observed[stageNow] = "failed"
       /\ debugAt = "publish" => stageNow # "reporting"
  /\ debugAt \in {"create", "refs", "configuration"} => observed["configuration"] = "not-run"
  /\ observed["configuration"] = "passed" => debugAt \in BeforeClean \cup {"clean"} \/ observed["cleanup"] # "not-run"

(* What has been read of the session file, line by line; as long as no end is *)
(* met; and when an end is.                                                   *)
ReadSoFar(t, file) ==
  LET kept == t.kept IN
  /\ t.at <= Len(file) /\ Len(kept) <= t.at
  /\ Len(kept) = t.at => \A m \in 1..t.at : kept[m] = file[m]
  /\ t.complete /\ ~t.cutShort => kept # <<>> /\ kept[Len(kept)] = "end"
  /\ \A i \in 1..Len(kept) : (kept[i] = "start" <=> i = 1) /\ (kept[i] = "end" => i = Len(kept))
  /\ (\E i \in 1..Len(kept) : kept[i] = "openEnd") => t.cutShort
GoingOn(t, file) ==
  /\ HoldsFirst(t.kept, file, t.at) /\ (t.at > 0 => t.kept # <<>>)
  /\ (\E i \in 1..Len(t.kept) : t.kept[i] = "end") => t.ended
ReadAll(t, file) ==
  ~t.cutShort /\ t.at = Len(t.kept) => t.at = Len(file) /\ (t.at < MaxTraceRecords => t.read < SourceRoom)
TraceInOrder ==
  /\ debugAt \in {"reading", "traced"} => nativeFile # NoCopy /\ ReadSoFar(tracing, nativeFile)
  /\ debugAt = "reading" => GoingOn(tracing, nativeFile)
  /\ debugAt = "traced" => HoldsPart(tracing.kept, nativeFile) /\ (~shifted => ReadAll(tracing, nativeFile))
  /\ debugAt \notin {"reading", "traced"} => tracing = Untraced
  /\ TraceIsTrue

(* While nothing disturbs the run, the limits are met as far as it has read.  *)
WithinRoom(t, file) ==
  /\ t.read = Cardinality(SourceUnits(file, t.at)) /\ t.read <= SourceRoom /\ t.at <= MaxTraceRecords
  /\ t.filled <= TraceRoom /\ (Len(t.kept) = t.at => t.filled = Cardinality(TraceUnits(file, t.at)))
ReadsOn(t, file) ==
  ~t.cutShort /\ t.at = Len(t.kept) /\ (t.ended <=> t.at = Len(file)) /\ (t.complete <=> t.at = Len(file))
QuietInOrder ==
  mishaps = 0 =>
    /\ ~shifted
    /\ debugAt \in {"evidence", "bootstrap", "mcp-preflight", "preview", "model"} \/ nativeFile # NoCopy => pinned
    /\ debugAt \in {"reading", "traced"} => WithinRoom(tracing, nativeFile)
    /\ nativeFile # NoCopy /\ nativeFile # <<>> =>
         /\ debugAt = "reading" /\ Sound(nativeFile) => ReadsOn(tracing, nativeFile)
         /\ debugAt = "traced" => (TracePassed(tracing) <=> Sound(nativeFile))
         /\ debugAt \in {"clean", "validate"} => (keptNotes["trace"].status = "passed" <=> Sound(nativeFile))

DebugInv ==
  DebugTypeOK /\ JournalInOrder /\ NotesInOrder /\ ResultInOrder /\ OutcomeInOrder /\ TraceInOrder /\ QuietInOrder
=============================================================================
