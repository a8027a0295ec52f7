------------------------------- MODULE DlpAudit -------------------------------
(* The private audit of the publication checks (dlp_audit): one state         *)
(* directory holds a key, a captured corpus with its raw slots, the runs of    *)
(* the scanner over it and the operator's annotations.  An exclusive lock      *)
(* admits one operation at a time; an operation may stop after any step.       *)
EXTENDS Integers, FiniteSets, Sequences, SequencesExt, Functions

CONSTANTS
  Selection,       \* the selected files, in the order they are read
  AuditTexts,      \* contents that are read and scanned
  RefusedInputs,   \* contents that are not: binary, unreadable, oversize
  AuditScanners, FirstScanner,  \* scanner identities
  AuditSecrets, FirstSecrets,   \* sets of known secrets
  Rejections,      \* by scanner, secrets and text: what is rejected of it, [role, fact]
  AuditWorlds,     \* the files at first, and two bounds: runs that are kept, and
                   \* drifts, the changes of files, slots, scanner and secrets
  MaxHits          \* MAX_HITS

ASSUME DlpAuditAssumption ==
  /\ MaxHits \in Nat
  /\ AuditTexts \cap RefusedInputs = {}
  /\ DOMAIN Rejections = AuditScanners \X AuditSecrets \X AuditTexts
  /\ FirstScanner \in AuditScanners /\ FirstSecrets \in AuditSecrets

AuditFile == Range(Selection)
AuditContents == AuditTexts \cup RefusedInputs

(* A selection names its files once and is not empty.                         *)
ASSUME SelectionAssumption ==
  /\ Selection \in Seq(AuditFile) /\ Selection # <<>>
  /\ \A i, j \in DOMAIN Selection : Selection[i] = Selection[j] => i = j
  /\ AuditWorlds \subseteq [files : [AuditFile -> AuditContents], runs : Nat, drifts : Nat]

Inputs == {"files", "metadata", "git", "snippet"}
NoCorpus == [files |-> <<>>, input |-> "none", removed |-> FALSE]

VARIABLES
  auditKey,     \* "absent", "unpublished", "doubled" (two names) or "ready"
  corpus,       \* the manifest: what each file held, the kind of input, raw_removed
  rawDir, rawSlots, \* the raw directory and what its slots hold
  auditRuns, marks, \* saved runs; annotations with the secrets they were made under
  auditAt,      \* the operation's step, "idle" between operations
  auditJob,     \* its local state
  peer,         \* the worker process and what it was started with, or NoPeer
  auditSource, scannerNow, secretNow, \* the world outside
  middle, moved, \* ghost: the files between the two readings, how often each changed
  auditLeft

auditStore == <<auditKey, corpus, rawDir, rawSlots, auditRuns, marks>>
worldVars == <<auditSource, scannerNow, secretNow, middle, moved, auditLeft>>
auditVars == <<auditStore, auditAt, auditJob, peer, worldVars>>

NoPeer == [scanner |-> "none", secret |-> "none"]
NoJob == [kind |-> "none"]
NoMarks == [secret |-> "none", entries |-> {}]
Including(files, f, content) ==
  [g \in DOMAIN files \cup {f} |-> IF g = f THEN content ELSE files[g]]
Accepted(files) == {f \in DOMAIN files : files[f] \in AuditTexts}
OnSnapshot == corpus.input # "metadata"

(* The population of evaluation: every role of every unit of a text, named    *)
(* by its file, with what the scanner says of it.                             *)
RejectedIn(scanner, secret, f, text) ==
  {[file |-> f, role |-> r.role, fact |-> r.fact] : r \in Rejections[<<scanner, secret, text>>]}
UnitId(hit) == [file |-> hit.file, role |-> hit.role]

-----------------------------------------------------------------------------
(* State.__init__: only a scan that captures creates a key, and only in an    *)
(* empty directory; a key with a second name is refused like any other link.  *)
Opens(create) == auditAt = "idle" /\ (auditKey = "ready" \/ (create /\ auditKey = "absent"))

Begins(kind) ==
  /\ Opens(kind # "replay")
  /\ kind \in Inputs => corpus = NoCorpus
  /\ auditJob' = [kind |-> kind, read |-> <<>>, next |-> 1]
  /\ auditAt' = IF auditKey = "absent" THEN "keying" ELSE IF kind = "replay" THEN "scan" ELSE "first"
  /\ moved' = IF kind \in Inputs THEN [f \in AuditFile |-> 0] ELSE moved
  /\ UNCHANGED <<auditStore, peer, auditSource, scannerNow, secretNow, middle, auditLeft>>

(* The key is written under a temporary name, linked exclusively, and the     *)
(* temporary name is dropped.                                                 *)
KeyStep(from, to, step) ==
  /\ auditAt = from /\ auditAt' = step /\ auditKey' = to
  /\ UNCHANGED <<corpus, rawDir, rawSlots, auditRuns, marks, auditJob, peer, worldVars>>
KeyWritten == KeyStep("keying", "unpublished", "linking")
KeyLinked == KeyStep("linking", "doubled", "unlinking")
KeyPublished == KeyStep("unlinking", "ready", "first")
KeyWithdrawn == KeyStep("linking", "absent", "idle")

-----------------------------------------------------------------------------
(* capture.  The selection is read file by file, then every accepted file is  *)
(* read again; a commit or a snippet holds still.                             *)
Captures(step) == auditAt = step /\ UNCHANGED <<peer, worldVars>>
FileAt(n) == Selection[n]

ReadsFirst ==
  /\ auditAt = "first" /\ auditJob.kind \in {"files", "metadata"}
  /\ LET f == FileAt(auditJob.next)
         last == auditJob.next = Len(Selection)
     IN /\ auditJob' = [auditJob EXCEPT !.read = Including(@, f, auditSource[f]),
                                           !.next = IF last THEN 1 ELSE @ + 1]
        /\ auditAt' = IF last THEN "second" ELSE "first"
        /\ middle' = IF last THEN auditSource ELSE middle
  /\ UNCHANGED <<auditStore, peer, auditSource, scannerNow, secretNow, moved, auditLeft>>

StillHolds(f) == auditJob.read[f] \in AuditTexts => auditSource[f] = auditJob.read[f]

ReadsAgain ==
  /\ Captures("second")
  /\ StillHolds(FileAt(auditJob.next))
  /\ auditJob' = [auditJob EXCEPT !.next = @ + 1]
  /\ auditAt' = IF auditJob.next = Len(Selection) THEN "manifest" ELSE "second"
  /\ UNCHANGED auditStore

ReadsStill ==
  /\ Captures("first") /\ auditJob.kind \in {"git", "snippet"}
  /\ auditJob' = [auditJob EXCEPT !.read = IF auditJob.kind = "git" THEN auditSource
                                           ELSE Restrict(auditSource, {FileAt(1)})]
  /\ auditAt' = "manifest" /\ UNCHANGED auditStore

(* The inventory is saved before the first raw byte.                          *)
SavesManifest ==
  /\ Captures("manifest")
  /\ corpus' = [files |-> auditJob.read, input |-> auditJob.kind, removed |-> auditJob.kind = "metadata"]
  /\ auditAt' = IF auditJob.kind = "metadata" THEN "scan" ELSE "directory"
  /\ UNCHANGED <<auditKey, rawDir, rawSlots, auditRuns, marks, auditJob>>

MakesRawDirectory ==
  /\ Captures("directory") /\ rawDir' = TRUE /\ auditAt' = "slots"
  /\ UNCHANGED <<auditKey, corpus, rawSlots, auditRuns, marks, auditJob>>

WritesSlot ==
  /\ Captures("slots")
  /\ LET left == Accepted(corpus.files) \ DOMAIN rawSlots
     IN IF left = {} THEN auditAt' = "scan" /\ UNCHANGED rawSlots
        ELSE \E f \in left : rawSlots' = Including(rawSlots, f, auditJob.read[f]) /\ UNCHANGED auditAt
  /\ UNCHANGED <<auditKey, corpus, rawDir, auditRuns, marks, auditJob>>

-----------------------------------------------------------------------------
(* scan.  The bytes a file is evaluated on are those of the manifest, from    *)
(* the slot or, for a corpus of originals, from the file itself.              *)
SlotBytes(f) == IF f \in DOMAIN rawSlots THEN rawSlots[f] ELSE "missing"
BytesOf(f) == IF OnSnapshot THEN SlotBytes(f) ELSE auditSource[f]
SourceReadable(f) == BytesOf(f) \in AuditTexts  \* slip
SourceMatches(f) == BytesOf(f) = corpus.files[f]
OriginalsMatch == OnSnapshot \/ \A f \in Accepted(corpus.files) : SourceMatches(f)

(* manifest: what is read back of a corpus; one of originals has no raw bytes. *)
ManifestLoads == corpus # NoCorpus /\ (corpus.input = "metadata" => corpus.removed)

ScanBegins ==
  /\ auditAt = "scan" /\ ManifestLoads /\ Len(auditRuns) < auditLeft.runs
  /\ IF OnSnapshot THEN ~corpus.removed /\ rawDir ELSE OriginalsMatch
  /\ auditJob' = [kind |-> "scan", scanner |-> scannerNow, secret |-> secretNow, stopped |-> "no", text |-> "none",
                  done |-> {}, errors |-> {}, hits |-> {}]
  /\ auditAt' = "files" /\ UNCHANGED <<auditStore, peer, worldVars>>

(* The files of the corpus are taken in their order, one at a time.           *)
Unscanned == DOMAIN corpus.files \ (auditJob.done \cup {e.file : e \in auditJob.errors})
Turn(f) ==
  f \in Unscanned /\ \A i, j \in DOMAIN Selection : Selection[i] = f /\ Selection[j] \in Unscanned => i <= j
AtFile(f) == auditAt = "files" /\ Turn(f)
Omits(f, reason, stopped) ==
  auditJob' = [auditJob EXCEPT !.errors = @ \cup {[file |-> f, reason |-> reason]},
                               !.text = "none", !.stopped = stopped]

SkipsFile(f) ==
  /\ AtFile(f) /\ UNCHANGED <<auditStore, peer, worldVars, auditAt>>
  /\ \/ f \notin Accepted(corpus.files) /\ Omits(f, "unsupported_input", auditJob.stopped)
     \/ /\ f \in Accepted(corpus.files)
        /\ \/ auditJob.stopped # "no" /\ Omits(f, auditJob.stopped, auditJob.stopped)
           \/ auditJob.stopped = "no" /\ Omits(f, "scan_deadline", "scan_deadline")

(* A worker is launched for the first file and after every failure; it keeps  *)
(* the scanner and the secrets it was started with, and evaluates the bytes   *)
(* it is sent.                                                                *)
Launched == [scanner |-> scannerNow, secret |-> secretNow]
AsksWorker(f) ==
  /\ AtFile(f) /\ f \in Accepted(corpus.files) /\ auditJob.stopped = "no" /\ SourceMatches(f)
  /\ \/ /\ auditAt' = "exchange" /\ auditJob' = [auditJob EXCEPT !.text = BytesOf(f)]
        /\ peer' = IF peer = NoPeer THEN Launched ELSE peer
     \/ peer = NoPeer /\ Omits(f, "worker", "no") /\ UNCHANGED <<peer, auditAt>>
  /\ UNCHANGED <<auditStore, worldVars>>

(* The worker checks the scanner it is asked for; a file that is not answered *)
(* (a timeout, a death, no memory, a broken frame) is omitted and the worker  *)
(* closed.                                                                    *)
ServesScanner == peer.scanner = auditJob.scanner

WorkerFails(f) ==
  /\ auditAt = "exchange" /\ Turn(f) /\ auditAt' = "files" /\ peer' = NoPeer
  /\ Omits(f, "worker", "no")
  /\ UNCHANGED <<auditStore, worldVars>>

(* A file whose own hits are too many fails in the worker; one that the scan   *)
(* has no room for stops the scan.                                            *)
FitsBudget(hits) == Cardinality(hits) <= MaxHits

WorkerAnswers(f) ==
  /\ auditAt = "exchange" /\ Turn(f) /\ auditAt' = "files" /\ ServesScanner
  /\ LET found == RejectedIn(peer.scanner, peer.secret, f, auditJob.text)
     IN IF ~FitsBudget(found) THEN Omits(f, "output_budget", "no") /\ peer' = NoPeer
        ELSE /\ UNCHANGED peer
             /\ IF ~FitsBudget(auditJob.hits \cup found) THEN Omits(f, "output_budget", "output_budget")
                ELSE auditJob' = [auditJob EXCEPT !.hits = @ \cup found, !.done = @ \cup {f}, !.text = "none"]
  /\ UNCHANGED <<auditStore, worldVars>>

SameScanner == auditJob.scanner = scannerNow /\ auditJob.secret = secretNow

(* The end: originals are verified again, against a deadline that an omission *)
(* may have used up, and the scanner is still the one the scan began with.    *)
ScanEnds ==
  /\ auditAt = "files" /\ Unscanned = {}
  /\ OnSnapshot \/ (OriginalsMatch /\ auditJob.stopped # "scan_deadline")
  /\ SameScanner
  /\ auditRuns' = Append(auditRuns,
        [scanner |-> auditJob.scanner, secret |-> auditJob.secret, done |-> auditJob.done,
         errors |-> auditJob.errors, hits |-> auditJob.hits,
         complete |-> auditJob.errors = {} /\ auditJob.done = Accepted(corpus.files)])
  /\ auditAt' = "assess" /\ auditJob' = [kind |-> "assess"] /\ peer' = NoPeer
  /\ UNCHANGED <<auditKey, corpus, rawDir, rawSlots, marks, worldVars>>

-----------------------------------------------------------------------------
(* load_run: what a saved run must satisfy to be read again.                  *)
RunLoads(files, run) ==
  LET failed == {e.file : e \in run.errors}
      unsupported == DOMAIN files \ Accepted(files)
  IN /\ failed \subseteq DOMAIN files /\ Cardinality(failed) = Cardinality(run.errors)
     /\ \A e \in run.errors : (e.file \in unsupported) <=> (e.reason = "unsupported_input")
     /\ unsupported \subseteq failed
     /\ run.done = DOMAIN files \ failed
     /\ run.complete <=> (failed = {} /\ run.done = Accepted(files))
     /\ FitsBudget(run.hits)
     /\ \A h \in run.hits : h.file \notin failed

(* expectations: annotations count only under the secrets they were made.     *)
MarksLoad == marks = NoMarks \/ marks.secret = secretNow
Of(id, hits) == {h \in hits : UnitId(h) = id}
Marked(id) == {e \in marks.entries : e.id = id}

(* assess: a hit nobody has classified, one classified as benign, one that    *)
(* changed its fact, or a protection that is gone.                            *)
Unsettled(hits) ==
  \/ \E h \in hits : \A e \in Marked(UnitId(h)) : e.label = "benign" \/ e.fact # h.fact
  \/ \E e \in marks.entries : e.label # "benign" /\ Of(e.id, hits) = {}

Tells(code) == auditAt' = "told" /\ auditJob' = code /\ UNCHANGED <<auditStore, peer, worldVars>>

ScanTold ==
  /\ auditAt = "assess" /\ MarksLoad
  /\ LET run == Last(auditRuns)
     IN Tells([kind |-> "scan", before |-> Len(auditRuns), after |-> Len(auditRuns),
               code |-> IF ~run.complete THEN 2 ELSE IF Unsettled(run.hits) THEN 1 ELSE 0])

(* compare: complete runs with the same secrets, which are still known.       *)
Comparable(old, new) ==
  /\ RunLoads(corpus.files, old) /\ RunLoads(corpus.files, new) /\ old.complete /\ new.complete
  /\ old.secret = new.secret /\ new.secret = secretNow
UnexplainedAdmission(old, new) == \E h \in old : Of(UnitId(h), new) = {} /\ Marked(UnitId(h)) = {}
UnreviewedChange(old, new) ==
  \E h \in old, n \in new : UnitId(h) = UnitId(n) /\ h.fact # n.fact
                            /\ \A e \in Marked(UnitId(n)) : e.fact # n.fact

Compares(i, j) ==
  /\ Opens(FALSE) /\ MarksLoad /\ Comparable(auditRuns[i], auditRuns[j])
  /\ LET old == auditRuns[i].hits
         new == auditRuns[j].hits
     IN Tells([kind |-> "compare", before |-> i, after |-> j,
               code |-> IF UnexplainedAdmission(old, new) \/ UnreviewedChange(old, new) \/ Unsettled(new)
                        THEN 1 ELSE 0])

Finishes == auditAt = "told" /\ auditAt' = "idle" /\ auditJob' = NoJob /\ UNCHANGED <<auditStore, peer, worldVars>>

(* annotate: hits of a complete run under the present secrets; an entry of    *)
(* the same identity is replaced.                                             *)
Annotates(i, h, label) ==
  /\ Opens(FALSE) /\ MarksLoad /\ RunLoads(corpus.files, auditRuns[i]) /\ auditRuns[i].complete
  /\ auditRuns[i].secret = secretNow /\ h \in auditRuns[i].hits
  /\ marks' = [secret |-> auditRuns[i].secret,
               entries |-> (marks.entries \ Marked(UnitId(h)))
                           \cup {[id |-> UnitId(h), label |-> label, fact |-> h.fact]}]
  /\ UNCHANGED <<auditKey, corpus, rawDir, rawSlots, auditRuns, auditAt, auditJob, peer, worldVars>>

-----------------------------------------------------------------------------
(* cleanup: the inventoried slots, the directory, and only then the mark that *)
(* they are gone; it may be repeated after a stop anywhere.                   *)
CleanupBegins ==
  /\ Opens(FALSE) /\ ManifestLoads /\ DOMAIN rawSlots \subseteq Accepted(corpus.files)
  /\ auditAt' = "removing" /\ auditJob' = [kind |-> "cleanup"]
  /\ UNCHANGED <<auditStore, peer, worldVars>>

Removes ==
  /\ auditAt = "removing" /\ rawDir
  /\ IF rawSlots = <<>> THEN rawDir' = FALSE /\ UNCHANGED rawSlots
     ELSE \E f \in DOMAIN rawSlots : rawSlots' = Restrict(rawSlots, DOMAIN rawSlots \ {f}) /\ UNCHANGED rawDir
  /\ UNCHANGED <<auditKey, corpus, auditRuns, marks, auditAt, auditJob, peer, worldVars>>

RemovalSaved ==
  /\ auditAt = "removing" /\ ~rawDir
  /\ corpus' = [corpus EXCEPT !.removed = TRUE]
  /\ auditAt' = "idle" /\ auditJob' = NoJob
  /\ UNCHANGED <<auditKey, rawDir, rawSlots, auditRuns, marks, peer, worldVars>>

(* An error, a deadline or a kill ends the operation where it is; the lock    *)
(* goes with the process, and so does the worker.                             *)
Stops ==
  /\ auditAt # "idle" /\ auditAt' = "idle" /\ auditJob' = NoJob /\ peer' = NoPeer
  /\ UNCHANGED <<auditStore, worldVars>>

-----------------------------------------------------------------------------
(* The world: files, slots and the installed scanner change at any time, the  *)
(* environment with the secrets only from one operation to the next.          *)
Drifts == auditLeft.drifts > 0 /\ auditLeft' = [auditLeft EXCEPT !.drifts = @ - 1]
          /\ UNCHANGED <<auditKey, corpus, rawDir, auditRuns, marks, auditAt, auditJob, peer, middle>>

FileChanges(f) ==
  /\ Drifts /\ \E c \in AuditContents \ {auditSource[f]} :
                  auditSource' = [auditSource EXCEPT ![f] = c]
  /\ moved' = IF auditAt \in {"first", "second"} THEN [moved EXCEPT ![f] = @ + 1] ELSE moved
  /\ UNCHANGED <<rawSlots, scannerNow, secretNow>>

SlotDamaged(f) ==
  /\ Drifts /\ f \in DOMAIN rawSlots
  /\ \E c \in AuditTexts \ {rawSlots[f]} : rawSlots' = [rawSlots EXCEPT ![f] = c]
  /\ UNCHANGED <<auditSource, moved, scannerNow, secretNow>>

ScannerChanges ==
  /\ Drifts /\ scannerNow' \in AuditScanners \ {scannerNow}
  /\ UNCHANGED <<auditSource, moved, rawSlots, secretNow>>

SecretsChange ==
  /\ auditAt = "idle" /\ Drifts /\ secretNow' \in AuditSecrets \ {secretNow}
  /\ UNCHANGED <<auditSource, moved, rawSlots, scannerNow>>

-----------------------------------------------------------------------------
AuditInit ==
  /\ auditKey = "absent" /\ corpus = NoCorpus /\ rawDir = FALSE /\ rawSlots = <<>>
  /\ auditRuns = <<>> /\ marks = NoMarks
  /\ auditAt = "idle" /\ auditJob = NoJob /\ peer = NoPeer
  /\ \E world \in AuditWorlds : auditSource = world.files /\ auditLeft = [runs |-> world.runs, drifts |-> world.drifts]
  /\ scannerNow = FirstScanner /\ secretNow = FirstSecrets
  /\ middle = auditSource /\ moved = [f \in AuditFile |-> 0]

AuditNext ==
  \/ \E kind \in Inputs \cup {"replay"} : Begins(kind)
  \/ KeyWritten \/ KeyLinked \/ KeyPublished \/ KeyWithdrawn
  \/ ReadsFirst \/ ReadsAgain \/ ReadsStill \/ SavesManifest \/ MakesRawDirectory \/ WritesSlot
  \/ ScanBegins \/ (\E f \in AuditFile : SkipsFile(f) \/ AsksWorker(f) \/ WorkerFails(f) \/ WorkerAnswers(f))
  \/ ScanEnds \/ ScanTold \/ Finishes
  \/ \E i, j \in DOMAIN auditRuns : Compares(i, j)
  \/ \E i \in DOMAIN auditRuns : \E h \in auditRuns[i].hits, label \in {"benign", "protection"} :
        Annotates(i, h, label)
  \/ CleanupBegins \/ Removes \/ RemovalSaved \/ Stops
  \/ \E f \in AuditFile : FileChanges(f) \/ SlotDamaged(f)
  \/ ScannerChanges \/ SecretsChange

-----------------------------------------------------------------------------
(* A state directory that is refused for its key holds nothing an operator    *)
(* could lose: the key is published before any document.                      *)
NothingIsLockedIn == auditKey # "ready" => corpus = NoCorpus /\ ~rawDir /\ auditRuns = <<>>

(* Raw bytes are always named by a saved manifest that does not call them     *)
(* removed, wherever a capture or a cleanup stopped.                          *)
RawIsInventoried ==
  rawDir \/ rawSlots # <<>> => ~corpus.removed /\ DOMAIN rawSlots \subseteq Accepted(corpus.files)

(* The files of a corpus stood together at one moment, unless one of them was *)
(* changed and changed back between its two readings.                         *)
CaptureIsOneMoment ==
  corpus.input \in {"files", "metadata"} =>
    \A f \in Accepted(corpus.files) : corpus.files[f] = middle[f] \/ moved[f] > 1

(* A saved run says of each file it does not omit exactly what its scanner,   *)
(* with its secrets, rejects in the captured text, whatever happened to       *)
(* files, slots, workers and the installed scanner meanwhile.                 *)
Truth(files, run, done) == UNION {RejectedIn(run.scanner, run.secret, f, files[f]) : f \in done}
RunIsTrue ==
  \A i \in DOMAIN auditRuns :
    LET run == auditRuns[i]
    IN /\ run.hits = Truth(corpus.files, run, run.done)
       /\ run.complete => run.done = DOMAIN corpus.files

(* Every saved run can be read again: the writer meets the reader's checks.   *)
RunsLoad == \A i \in DOMAIN auditRuns : RunLoads(corpus.files, auditRuns[i])

(* An annotation is of a rejection some complete run found under the secrets  *)
(* the annotations are bound to.                                              *)
MarksAreOfRuns ==
  \A e \in marks.entries : \E i \in DOMAIN auditRuns :
    /\ auditRuns[i].complete /\ auditRuns[i].secret = marks.secret
    /\ \E h \in auditRuns[i].hits : UnitId(h) = e.id /\ h.fact = e.fact

(* A scan or a comparison that ends with 0 hides nothing: whatever the later  *)
(* scanner rejects is a classified protection with the same fact, and what    *)
(* the earlier one rejected and the later one admits was classified benign.   *)
ZeroHidesNothing ==
  auditAt = "told" /\ auditJob.code = 0 =>
    LET old == Truth(corpus.files, auditRuns[auditJob.before], DOMAIN corpus.files)
        new == Truth(corpus.files, auditRuns[auditJob.after], DOMAIN corpus.files)
    IN /\ \A h \in new : \E e \in Marked(UnitId(h)) : e.label = "protection" /\ e.fact = h.fact
       /\ \A h \in old : Of(UnitId(h), new) = {} => \E e \in Marked(UnitId(h)) : e.label = "benign"

(* All of the above, of the private audit.                                    *)
DlpAuditSafe ==
  /\ NothingIsLockedIn /\ RawIsInventoried /\ CaptureIsOneMoment
  /\ RunIsTrue /\ RunsLoad /\ MarksAreOfRuns /\ ZeroHidesNothing
=============================================================================
