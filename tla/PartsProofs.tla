----------------------------- MODULE PartsProofs -----------------------------
(* Proofs that the private audit (DlpAudit) keeps its promises for every     *)
(* selection, table of rejections and number of runs and drifts, and that    *)
(* what is captured of a revision (RevisionCapture) is judged rightly for    *)
(* every setup, fetch depth and number of changes by other people.           *)
EXTENDS PartsInvariant, FiniteSetTheorems, SequenceTheorems, TLAPS

(* What is found in a text is a hit like the table's.                        *)
LEMMA FoundIsHit ==
  ASSUME NEW s \in AuditScanners, NEW k \in AuditSecrets, NEW f \in AuditFile, NEW c \in AuditTexts
  PROVE  RejectedIn(s, k, f, c) \subseteq Hit
  BY DEF Hit

(* A hit names the file it was found in.                                     *)
LEMMA FoundInFile ==
  ASSUME NEW s, NEW k, NEW f, NEW c, NEW h \in RejectedIn(s, k, f, c)
  PROVE  h.file = f
  BY DEF RejectedIn

(* A selection is a sequence of its files.                                   *)
LEMMA SelectionFacts ==
  /\ Len(Selection) \in Nat \ {0} /\ DOMAIN Selection = 1..Len(Selection)
  /\ \A i \in DOMAIN Selection : Selection[i] \in AuditFile
  BY SelectionAssumption, EmptySeq DEF Range

(* A file that is omitted joins the omissions, and nothing else is recorded. *)
LEMMA OmitsOne ==
  ASSUME auditJob \in ScanJob, NEW f \in AuditFile,
         NEW reason \in {"unsupported_input", "scan_deadline", "worker", "output_budget"},
         NEW stopped \in {"no", "scan_deadline", "output_budget"}, Omits(f, reason, stopped)
  PROVE  /\ auditJob' \in ScanJob
         /\ auditJob'.errors = auditJob.errors \cup {[file |-> f, reason |-> reason]}
         /\ auditJob'.scanner = auditJob.scanner /\ auditJob'.secret = auditJob.secret
         /\ auditJob'.done = auditJob.done /\ auditJob'.hits = auditJob.hits
<1>1. [file |-> f, reason |-> reason] \in Omission
  BY DEF Omission
<1> QED BY <1>1 DEF Omits, ScanJob

(* A file that is scanned joins the files that are done, with its hits.      *)
LEMMA ScansOne ==
  ASSUME auditJob \in ScanJob, NEW f \in AuditFile, NEW found \in SUBSET Hit,
         auditJob' = [auditJob EXCEPT !.hits = @ \cup found, !.done = @ \cup {f}, !.text = "none"]
  PROVE  /\ auditJob' \in ScanJob
         /\ auditJob'.errors = auditJob.errors /\ auditJob'.done = auditJob.done \cup {f}
         /\ auditJob'.scanner = auditJob.scanner /\ auditJob'.secret = auditJob.secret
         /\ auditJob'.hits = auditJob.hits \cup found
  BY DEF ScanJob

(* A worker is asked for one file at a time: the first that is left.         *)
LEMMA TurnIsOne ==
  ASSUME DOMAIN corpus.files \subseteq AuditFile, NEW f, NEW g, Turn(f), Turn(g)
  PROVE  f = g
<1>1. PICK i \in DOMAIN Selection : Selection[i] = f
  BY DEF Turn, Unscanned, AuditFile, Range
<1>2. PICK j \in DOMAIN Selection : Selection[j] = g
  BY DEF Turn, Unscanned, AuditFile, Range
<1>3. f \in Unscanned /\ g \in Unscanned /\ i <= j /\ j <= i
  BY <1>1, <1>2 DEF Turn
<1> QED BY <1>1, <1>2, <1>3, SelectionFacts

(* What the worker finds in a file it was asked for is what its scanner, with *)
(* the secrets of the scan, rejects in the captured text.                    *)
LEMMA AnswerIsOfCapture ==
  ASSUME AuditInv, auditAt = "exchange", NEW f \in AuditFile, Turn(f), ServesScanner
  PROVE  /\ f \in Accepted(corpus.files) /\ f \notin auditJob.done
         /\ RejectedIn(peer.scanner, peer.secret, f, auditJob.text)
              = RejectedIn(auditJob.scanner, auditJob.secret, f, corpus.files[f])
         /\ RejectedIn(peer.scanner, peer.secret, f, auditJob.text) \subseteq Hit
<1>1. /\ Progress /\ Asked /\ DOMAIN corpus.files \subseteq AuditFile /\ auditJob \in ScanJob
      /\ secretNow \in AuditSecrets
  BY DEF AuditInv, Scanning, Evaluating, AuditTypes, StoreTypes, JobTypes, WorldTypes
<1>2. f \in Accepted(corpus.files) /\ auditJob.text = corpus.files[f]
  BY <1>1, TurnIsOne DEF Asked
<1>3. peer.secret = auditJob.secret /\ peer.scanner = auditJob.scanner /\ f \notin auditJob.done
  BY <1>1 DEF Asked, Progress, ServesScanner, Turn, Unscanned
<1>4. auditJob.scanner \in AuditScanners /\ auditJob.secret \in AuditSecrets /\ auditJob.text \in AuditTexts
  BY <1>1, <1>2 DEF ScanJob, Accepted
<1> QED BY <1>2, <1>3, <1>4, FoundIsHit
(* Every step keeps the types of the world outside.                          *)
LEMMA AuditWorldTypes ==
  ASSUME WorldTypes, [AuditNext]_auditVars
  PROVE  WorldTypes'
<1>begins. ASSUME NEW kind \in Inputs \cup {"replay"}, Begins(kind) PROVE WorldTypes'
  BY <1>begins DEF Begins, Opens, auditStore, WorldTypes, auditStore, worldVars
<1>keyWritten. ASSUME KeyWritten PROVE WorldTypes'
  BY <1>keyWritten DEF KeyWritten, KeyStep, worldVars, WorldTypes, auditStore, worldVars
<1>keyLinked. ASSUME KeyLinked PROVE WorldTypes'
  BY <1>keyLinked DEF KeyLinked, KeyStep, worldVars, WorldTypes, auditStore, worldVars
<1>keyPublished. ASSUME KeyPublished PROVE WorldTypes'
  BY <1>keyPublished DEF KeyPublished, KeyStep, worldVars, WorldTypes, auditStore, worldVars
<1>keyWithdrawn. ASSUME KeyWithdrawn PROVE WorldTypes'
  BY <1>keyWithdrawn DEF KeyWithdrawn, KeyStep, worldVars, WorldTypes, auditStore, worldVars
<1>readsFirst. ASSUME ReadsFirst PROVE WorldTypes'
  BY <1>readsFirst DEF ReadsFirst, FileAt, auditStore, WorldTypes, auditStore, worldVars
<1>readsAgain. ASSUME ReadsAgain PROVE WorldTypes'
  BY <1>readsAgain DEF ReadsAgain, Captures, FileAt, auditStore, worldVars, WorldTypes,
     auditStore, worldVars
<1>readsStill. ASSUME ReadsStill PROVE WorldTypes'
  BY <1>readsStill DEF ReadsStill, Captures, FileAt, auditStore, worldVars, WorldTypes,
     auditStore, worldVars
<1>savesManifest. ASSUME SavesManifest PROVE WorldTypes'
  BY <1>savesManifest DEF SavesManifest, Captures, worldVars, WorldTypes, auditStore, worldVars
<1>makesRaw. ASSUME MakesRawDirectory PROVE WorldTypes'
  BY <1>makesRaw DEF MakesRawDirectory, Captures, worldVars, WorldTypes, auditStore, worldVars
<1>writesSlot. ASSUME WritesSlot PROVE WorldTypes'
  BY <1>writesSlot DEF WritesSlot, Captures, worldVars, WorldTypes, auditStore, worldVars
<1>scanBegins. ASSUME ScanBegins PROVE WorldTypes'
  BY <1>scanBegins DEF ScanBegins, auditStore, worldVars, WorldTypes, auditStore, worldVars
<1>skips. ASSUME NEW f \in AuditFile, SkipsFile(f) PROVE WorldTypes'
  BY <1>skips DEF SkipsFile, AtFile, Omits, auditStore, worldVars, WorldTypes, auditStore,
     worldVars
<1>asks. ASSUME NEW f \in AuditFile, AsksWorker(f) PROVE WorldTypes'
  BY <1>asks DEF AsksWorker, AtFile, Omits, auditStore, worldVars, WorldTypes, auditStore,
     worldVars
<1>fails. ASSUME NEW f \in AuditFile, WorkerFails(f) PROVE WorldTypes'
  BY <1>fails DEF WorkerFails, Omits, auditStore, worldVars, WorldTypes, auditStore, worldVars
<1>answers. ASSUME NEW f \in AuditFile, WorkerAnswers(f) PROVE WorldTypes'
  BY <1>answers DEF WorkerAnswers, Omits, auditStore, worldVars, WorldTypes, auditStore, worldVars
<1>scanEnds. ASSUME ScanEnds PROVE WorldTypes'
  BY <1>scanEnds DEF ScanEnds, worldVars, WorldTypes, auditStore, worldVars
<1>scanTold. ASSUME ScanTold PROVE WorldTypes'
  BY <1>scanTold DEF ScanTold, Tells, auditStore, worldVars, WorldTypes, auditStore, worldVars
<1>finishes. ASSUME Finishes PROVE WorldTypes'
  BY <1>finishes DEF Finishes, auditStore, worldVars, WorldTypes, auditStore, worldVars
<1>compares. ASSUME NEW i \in DOMAIN auditRuns, NEW j \in DOMAIN auditRuns, Compares(i, j) PROVE WorldTypes'
  BY <1>compares DEF Compares, Opens, Tells, auditStore, worldVars, WorldTypes, auditStore,
     worldVars
<1>annotates. ASSUME NEW i \in DOMAIN auditRuns, NEW h \in auditRuns[i].hits,
                    NEW label \in {"benign", "protection"}, Annotates(i, h, label) PROVE WorldTypes'
  BY <1>annotates DEF Annotates, Opens, worldVars, WorldTypes, auditStore, worldVars
<1>cleanupBegins. ASSUME CleanupBegins PROVE WorldTypes'
  BY <1>cleanupBegins DEF CleanupBegins, Opens, auditStore, worldVars, WorldTypes, auditStore,
     worldVars
<1>removes. ASSUME Removes PROVE WorldTypes'
  BY <1>removes DEF Removes, worldVars, WorldTypes, auditStore, worldVars
<1>removalSaved. ASSUME RemovalSaved PROVE WorldTypes'
  BY <1>removalSaved DEF RemovalSaved, worldVars, WorldTypes, auditStore, worldVars
<1>stops. ASSUME Stops PROVE WorldTypes'
  BY <1>stops DEF Stops, auditStore, worldVars, WorldTypes, auditStore, worldVars
<1>fileChanges. ASSUME NEW f \in AuditFile, FileChanges(f) PROVE WorldTypes'
  BY <1>fileChanges DEF FileChanges, Drifts, WorldTypes, auditStore, worldVars
<1>slotDamaged. ASSUME NEW f \in AuditFile, SlotDamaged(f) PROVE WorldTypes'
  BY <1>slotDamaged DEF SlotDamaged, Drifts, WorldTypes, auditStore, worldVars
<1>scannerChanges. ASSUME ScannerChanges PROVE WorldTypes'
  BY <1>scannerChanges DEF ScannerChanges, Drifts, WorldTypes, auditStore, worldVars
<1>secretsChange. ASSUME SecretsChange PROVE WorldTypes'
  BY <1>secretsChange DEF SecretsChange, Drifts, WorldTypes, auditStore, worldVars
<1>unchanged. CASE UNCHANGED auditVars
  BY <1>unchanged DEF auditVars, auditStore, worldVars, WorldTypes, auditStore, worldVars
<1> QED BY <1>begins, <1>keyWritten, <1>keyLinked, <1>keyPublished, <1>keyWithdrawn,
   <1>readsFirst,
     <1>readsAgain, <1>readsStill, <1>savesManifest, <1>makesRaw, <1>writesSlot, <1>scanBegins, <1>skips,
     <1>asks, <1>fails, <1>answers, <1>scanEnds, <1>scanTold, <1>finishes, <1>compares, <1>annotates,
     <1>cleanupBegins, <1>removes, <1>removalSaved, <1>stops, <1>fileChanges, <1>slotDamaged,
     <1>scannerChanges, <1>secretsChange, <1>unchanged DEF AuditNext

(* Every step leaves the operation at a step, with a job of its kind.        *)
LEMMA AuditJobTypes ==
  ASSUME AuditInv, [AuditNext]_auditVars
  PROVE  JobTypes'
<1>begins. ASSUME NEW kind \in Inputs \cup {"replay"}, Begins(kind) PROVE JobTypes'
  BY <1>begins DEF Begins, Opens, auditStore, AuditInv, AuditTypes, JobTypes, CaptureJob,
     AuditStep, Keying,
       Capturing, Storing, Evaluating
<1>keyWritten. ASSUME KeyWritten PROVE JobTypes'
  BY <1>keyWritten DEF KeyWritten, KeyStep, worldVars, AuditInv, AuditTypes, JobTypes,
     CaptureJob, AuditStep,
       Keying, Capturing, Storing, Evaluating
<1>keyLinked. ASSUME KeyLinked PROVE JobTypes'
  BY <1>keyLinked DEF KeyLinked, KeyStep, worldVars, AuditInv, AuditTypes, JobTypes, CaptureJob,
     AuditStep,
       Keying, Capturing, Storing, Evaluating
<1>keyPublished. ASSUME KeyPublished PROVE JobTypes'
  BY <1>keyPublished DEF KeyPublished, KeyStep, worldVars, AuditInv, AuditTypes, JobTypes,
     CaptureJob,
       AuditStep, Keying, Capturing, Storing, Evaluating
<1>keyWithdrawn. ASSUME KeyWithdrawn PROVE JobTypes'
  BY <1>keyWithdrawn DEF KeyWithdrawn, KeyStep, worldVars, AuditInv, AuditTypes, JobTypes,
     CaptureJob,
       AuditStep, Keying, Capturing, Storing, Evaluating
<1>readsFirst. ASSUME ReadsFirst PROVE JobTypes'
  <2> DEFINE f == Selection[auditJob.next]
             read == Including(auditJob.read, f, auditSource[f])
  <2>1. CaptureJob(auditJob) /\ auditJob.next \in DOMAIN Selection
    BY <1>readsFirst DEF ReadsFirst, AuditInv, AuditTypes, JobTypes, TwoReadings, Capturing
  <2>2. DOMAIN read \subseteq AuditFile
    BY <2>1, SelectionFacts DEF CaptureJob, Including
  <2>3. PICK next \in Nat : auditJob' = [auditJob EXCEPT !.read = read, !.next = next]
    <3> DEFINE next == IF auditJob.next = Len(Selection) THEN 1 ELSE auditJob.next + 1
    <3>1. next \in Nat
      BY <2>1 DEF CaptureJob
    <3>2. auditJob' = [auditJob EXCEPT !.read = read, !.next = next]
      BY <1>readsFirst, <2>1 DEF ReadsFirst, FileAt, CaptureJob
    <3> QED BY <3>1, <3>2
  <2>4. CaptureJob(auditJob')
    <3> HIDE DEF read
    <3> QED BY <2>1, <2>2, <2>3 DEF CaptureJob
  <2> QED BY <1>readsFirst, <2>4 DEF ReadsFirst, JobTypes, AuditStep, Capturing, Evaluating
<1>readsAgain. ASSUME ReadsAgain PROVE JobTypes'
  BY <1>readsAgain DEF ReadsAgain, Captures, FileAt, auditStore, worldVars, AuditInv, AuditTypes,
     JobTypes,
       CaptureJob, AuditStep, Keying, Capturing, Storing, Evaluating
<1>readsStill. ASSUME ReadsStill PROVE JobTypes'
  BY <1>readsStill, SelectionFacts DEF ReadsStill, Captures, FileAt, auditStore, worldVars,
     AuditInv,
       AuditTypes, JobTypes, CaptureJob, AuditStep, Keying, Capturing, Storing, Evaluating, TwoReadings,
       WorldTypes, Restrict
<1>savesManifest. ASSUME SavesManifest PROVE JobTypes'
  BY <1>savesManifest DEF SavesManifest, Captures, worldVars, AuditInv, AuditTypes, JobTypes,
     CaptureJob,
       AuditStep, Keying, Capturing, Storing, Evaluating
<1>makesRaw. ASSUME MakesRawDirectory PROVE JobTypes'
  BY <1>makesRaw DEF MakesRawDirectory, Captures, worldVars, AuditInv, AuditTypes, JobTypes,
     CaptureJob,
       AuditStep, Keying, Capturing, Storing, Evaluating
<1>writesSlot. ASSUME WritesSlot PROVE JobTypes'
  BY <1>writesSlot DEF WritesSlot, Captures, worldVars, AuditInv, AuditTypes, JobTypes,
     CaptureJob, AuditStep,
       Keying, Capturing, Storing, Evaluating
<1>scanBegins. ASSUME ScanBegins PROVE JobTypes'
  <2>1. [kind |-> "scan", scanner |-> scannerNow, secret |-> secretNow, stopped |-> "no", text |-> "none",
         done |-> {}, errors |-> {}, hits |-> {}] \in ScanJob
    BY DEF ScanJob, AuditInv, AuditTypes, WorldTypes
  <2> QED BY <1>scanBegins, <2>1 DEF ScanBegins, auditStore, worldVars, JobTypes, AuditStep,
     Keying, Capturing, Storing, Evaluating
<1>skips. ASSUME NEW f \in AuditFile, SkipsFile(f) PROVE JobTypes'
  <2>1. auditJob \in ScanJob /\ auditAt' = "files"
    BY <1>skips DEF SkipsFile, AtFile, AuditInv, AuditTypes, JobTypes, Evaluating
  <2>2. PICK reason \in {"unsupported_input", "scan_deadline", "output_budget"},
             stopped \in {"no", "scan_deadline", "output_budget"} : Omits(f, reason, stopped)
    BY <1>skips, <2>1 DEF SkipsFile, ScanJob
  <2>3. auditJob' \in ScanJob
    BY <2>1, <2>2, OmitsOne
  <2> QED BY <2>1, <2>3 DEF JobTypes, AuditStep, Keying, Capturing, Storing, Evaluating
<1>asks. ASSUME NEW f \in AuditFile, AsksWorker(f) PROVE JobTypes'
  <2>1. auditJob \in ScanJob /\ auditAt = "files"
    BY <1>asks DEF AsksWorker, AtFile, AuditInv, AuditTypes, JobTypes, Evaluating
  <2>2. CASE auditAt' = "exchange" /\ auditJob' = [auditJob EXCEPT !.text = BytesOf(f)]
    <3>1. BytesOf(f) \in AuditContents
      BY <1>asks DEF AsksWorker, SourceMatches, Accepted, AuditContents
    <3>2. auditJob' \in ScanJob
      BY <2>1, <2>2, <3>1 DEF ScanJob
    <3> QED BY <2>2, <3>2 DEF JobTypes, AuditStep, Keying, Capturing, Storing, Evaluating
  <2>3. CASE Omits(f, "worker", "no") /\ auditAt' = auditAt
    <3>1. auditJob' \in ScanJob
      BY <2>1, <2>3, OmitsOne
    <3> QED BY <2>1, <2>3, <3>1 DEF JobTypes, AuditStep, Keying, Capturing, Storing, Evaluating
  <2> QED BY <1>asks, <2>2, <2>3 DEF AsksWorker
<1>fails. ASSUME NEW f \in AuditFile, WorkerFails(f) PROVE JobTypes'
  <2>1. auditJob \in ScanJob /\ auditAt' = "files"
    BY <1>fails DEF WorkerFails, AuditInv, AuditTypes, JobTypes, Evaluating
  <2>2. auditJob' \in ScanJob
    BY <1>fails, <2>1, OmitsOne DEF WorkerFails
  <2> QED BY <2>1, <2>2 DEF JobTypes, AuditStep, Keying, Capturing, Storing, Evaluating
<1>answers. ASSUME NEW f \in AuditFile, WorkerAnswers(f) PROVE JobTypes'
  <2> DEFINE found == RejectedIn(peer.scanner, peer.secret, f, auditJob.text)
  <2>1. auditJob \in ScanJob /\ auditAt' = "files"
    BY <1>answers DEF WorkerAnswers, AuditInv, AuditTypes, JobTypes, Evaluating
  <2>2. found \subseteq Hit
    BY <1>answers, AnswerIsOfCapture DEF WorkerAnswers
  <2>3. \/ Omits(f, "output_budget", "no") \/ Omits(f, "output_budget", "output_budget")
        \/ auditJob' = [auditJob EXCEPT !.hits = @ \cup found, !.done = @ \cup {f}, !.text = "none"]
    BY <1>answers DEF WorkerAnswers
  <2>4. auditJob' \in ScanJob
    <3> HIDE DEF found
    <3> QED BY <2>1, <2>2, <2>3, OmitsOne, ScansOne
  <2> QED BY <2>1, <2>4 DEF JobTypes, AuditStep, Keying, Capturing, Storing, Evaluating
<1>scanEnds. ASSUME ScanEnds PROVE JobTypes'
  BY <1>scanEnds DEF ScanEnds, worldVars, AuditInv, AuditTypes, JobTypes, CaptureJob, AuditStep,
     Keying,
       Capturing, Storing, Evaluating
<1>scanTold. ASSUME ScanTold PROVE JobTypes'
  BY <1>scanTold DEF ScanTold, Tells, auditStore, worldVars, AuditInv, AuditTypes, JobTypes,
     CaptureJob,
       AuditStep, Keying, Capturing, Storing, Evaluating
<1>finishes. ASSUME Finishes PROVE JobTypes'
  BY <1>finishes DEF Finishes, auditStore, worldVars, AuditInv, AuditTypes, JobTypes, CaptureJob,
     AuditStep,
       Keying, Capturing, Storing, Evaluating
<1>compares. ASSUME NEW i \in DOMAIN auditRuns, NEW j \in DOMAIN auditRuns, Compares(i, j) PROVE JobTypes'
  BY <1>compares DEF Compares, Opens, Tells, auditStore, worldVars, AuditInv, AuditTypes,
     JobTypes, CaptureJob,
       AuditStep, Keying, Capturing, Storing, Evaluating
<1>annotates. ASSUME NEW i \in DOMAIN auditRuns, NEW h \in auditRuns[i].hits,
                    NEW label \in {"benign", "protection"}, Annotates(i, h, label) PROVE JobTypes'
  BY <1>annotates DEF Annotates, Opens, worldVars, AuditInv, AuditTypes, JobTypes, CaptureJob,
     AuditStep,
       Keying, Capturing, Storing, Evaluating
<1>cleanupBegins. ASSUME CleanupBegins PROVE JobTypes'
  BY <1>cleanupBegins DEF CleanupBegins, Opens, auditStore, worldVars, AuditInv, AuditTypes,
     JobTypes,
       CaptureJob, AuditStep, Keying, Capturing, Storing, Evaluating
<1>removes. ASSUME Removes PROVE JobTypes'
  BY <1>removes DEF Removes, worldVars, AuditInv, AuditTypes, JobTypes, CaptureJob, AuditStep,
     Keying,
       Capturing, Storing, Evaluating
<1>removalSaved. ASSUME RemovalSaved PROVE JobTypes'
  BY <1>removalSaved DEF RemovalSaved, worldVars, AuditInv, AuditTypes, JobTypes, CaptureJob,
     AuditStep, Keying,
       Capturing, Storing, Evaluating
<1>stops. ASSUME Stops PROVE JobTypes'
  BY <1>stops DEF Stops, auditStore, worldVars, AuditInv, AuditTypes, JobTypes, CaptureJob,
     AuditStep, Keying,
       Capturing, Storing, Evaluating
<1>fileChanges. ASSUME NEW f \in AuditFile, FileChanges(f) PROVE JobTypes'
  BY <1>fileChanges DEF FileChanges, Drifts, AuditInv, AuditTypes, JobTypes, CaptureJob,
     AuditStep, Keying,
       Capturing, Storing, Evaluating
<1>slotDamaged. ASSUME NEW f \in AuditFile, SlotDamaged(f) PROVE JobTypes'
  BY <1>slotDamaged DEF SlotDamaged, Drifts, AuditInv, AuditTypes, JobTypes, CaptureJob,
     AuditStep, Keying,
       Capturing, Storing, Evaluating
<1>scannerChanges. ASSUME ScannerChanges PROVE JobTypes'
  BY <1>scannerChanges DEF ScannerChanges, Drifts, AuditInv, AuditTypes, JobTypes, CaptureJob,
     AuditStep,
       Keying, Capturing, Storing, Evaluating
<1>secretsChange. ASSUME SecretsChange PROVE JobTypes'
  BY <1>secretsChange DEF SecretsChange, Drifts, AuditInv, AuditTypes, JobTypes, CaptureJob,
     AuditStep, Keying,
       Capturing, Storing, Evaluating
<1>unchanged. CASE UNCHANGED auditVars
  BY <1>unchanged DEF auditVars, auditStore, worldVars, AuditInv, AuditTypes, JobTypes,
     CaptureJob, AuditStep,
       Keying, Capturing, Storing, Evaluating
<1> QED BY <1>begins, <1>keyWritten, <1>keyLinked, <1>keyPublished, <1>keyWithdrawn,
   <1>readsFirst,
     <1>readsAgain, <1>readsStill, <1>savesManifest, <1>makesRaw, <1>writesSlot, <1>scanBegins, <1>skips,
     <1>asks, <1>fails, <1>answers, <1>scanEnds, <1>scanTold, <1>finishes, <1>compares, <1>annotates,
     <1>cleanupBegins, <1>removes, <1>removalSaved, <1>stops, <1>fileChanges, <1>slotDamaged,
     <1>scannerChanges, <1>secretsChange, <1>unchanged DEF AuditNext

(* Every step keeps the types of what is stored.                            *)
LEMMA AuditStoreTypes ==
  ASSUME AuditInv, [AuditNext]_auditVars
  PROVE  StoreTypes'
<1>begins. ASSUME NEW kind \in Inputs \cup {"replay"}, Begins(kind) PROVE StoreTypes'
  BY <1>begins DEF Begins, Opens, auditStore, AuditInv, AuditTypes, StoreTypes, auditStore
<1>keyWritten. ASSUME KeyWritten PROVE StoreTypes'
  BY <1>keyWritten DEF KeyWritten, KeyStep, worldVars, AuditInv, AuditTypes, StoreTypes,
     auditStore
<1>keyLinked. ASSUME KeyLinked PROVE StoreTypes'
  BY <1>keyLinked DEF KeyLinked, KeyStep, worldVars, AuditInv, AuditTypes, StoreTypes, auditStore
<1>keyPublished. ASSUME KeyPublished PROVE StoreTypes'
  BY <1>keyPublished DEF KeyPublished, KeyStep, worldVars, AuditInv, AuditTypes, StoreTypes,
     auditStore
<1>keyWithdrawn. ASSUME KeyWithdrawn PROVE StoreTypes'
  BY <1>keyWithdrawn DEF KeyWithdrawn, KeyStep, worldVars, AuditInv, AuditTypes, StoreTypes,
     auditStore
<1>readsFirst. ASSUME ReadsFirst PROVE StoreTypes'
  BY <1>readsFirst DEF ReadsFirst, FileAt, auditStore, AuditInv, AuditTypes, StoreTypes,
     auditStore
<1>readsAgain. ASSUME ReadsAgain PROVE StoreTypes'
  BY <1>readsAgain DEF ReadsAgain, Captures, FileAt, auditStore, worldVars, AuditInv, AuditTypes,
     StoreTypes,
       auditStore
<1>readsStill. ASSUME ReadsStill PROVE StoreTypes'
  BY <1>readsStill DEF ReadsStill, Captures, FileAt, auditStore, worldVars, AuditInv, AuditTypes,
     StoreTypes,
       auditStore
<1>savesManifest. ASSUME SavesManifest PROVE StoreTypes'
  <2>1. CaptureJob(auditJob) /\ auditJob.kind \in Inputs /\ DOMAIN auditJob.read \subseteq AuditFile
    BY <1>savesManifest DEF SavesManifest, Captures, AuditInv, AuditTypes, JobTypes, Capturing,
       CaptureJob, Stored
  <2>2. corpus' = [files |-> auditJob.read, input |-> auditJob.kind, removed |-> auditJob.kind = "metadata"]
    BY <1>savesManifest DEF SavesManifest
  <2>3. corpus'.files = auditJob.read /\ corpus'.input = auditJob.kind /\ corpus'.removed = (auditJob.kind = "metadata")
    BY <2>2
  <2>4. UNCHANGED <<auditKey, rawDir, auditRuns, marks>>
    BY <1>savesManifest DEF SavesManifest
  <2> QED BY <2>1, <2>2, <2>3, <2>4 DEF AuditInv, AuditTypes, StoreTypes, Inputs
<1>makesRaw. ASSUME MakesRawDirectory PROVE StoreTypes'
  BY <1>makesRaw DEF MakesRawDirectory, Captures, worldVars, AuditInv, AuditTypes, StoreTypes,
     auditStore
<1>writesSlot. ASSUME WritesSlot PROVE StoreTypes'
  BY <1>writesSlot DEF WritesSlot, Captures, worldVars, AuditInv, AuditTypes, StoreTypes,
     auditStore
<1>scanBegins. ASSUME ScanBegins PROVE StoreTypes'
  BY <1>scanBegins DEF ScanBegins, auditStore, worldVars, AuditInv, AuditTypes, StoreTypes,
     auditStore
<1>skips. ASSUME NEW f \in AuditFile, SkipsFile(f) PROVE StoreTypes'
  BY <1>skips DEF SkipsFile, AtFile, Omits, auditStore, worldVars, AuditInv, AuditTypes,
     StoreTypes, auditStore
<1>asks. ASSUME NEW f \in AuditFile, AsksWorker(f) PROVE StoreTypes'
  BY <1>asks DEF AsksWorker, AtFile, Omits, auditStore, worldVars, AuditInv, AuditTypes,
     StoreTypes, auditStore
<1>fails. ASSUME NEW f \in AuditFile, WorkerFails(f) PROVE StoreTypes'
  BY <1>fails DEF WorkerFails, Omits, auditStore, worldVars, AuditInv, AuditTypes, StoreTypes,
     auditStore
<1>answers. ASSUME NEW f \in AuditFile, WorkerAnswers(f) PROVE StoreTypes'
  BY <1>answers DEF WorkerAnswers, Omits, auditStore, worldVars, AuditInv, AuditTypes,
     StoreTypes, auditStore
<1>scanEnds. ASSUME ScanEnds PROVE StoreTypes'
  <2> DEFINE run == [scanner |-> auditJob.scanner, secret |-> auditJob.secret, done |-> auditJob.done,
                     errors |-> auditJob.errors, hits |-> auditJob.hits,
                     complete |-> auditJob.errors = {} /\ auditJob.done = Accepted(corpus.files)]
  <2>1. auditJob \in ScanJob
    BY <1>scanEnds DEF ScanEnds, AuditInv, AuditTypes, JobTypes, Evaluating
  <2>2. run \in AuditRun
    BY <2>1 DEF ScanJob, AuditRun
  <2>3. auditRuns' \in Seq(AuditRun)
    <3>1. auditRuns' = Append(auditRuns, run) /\ auditRuns \in Seq(AuditRun)
      BY <1>scanEnds DEF ScanEnds, AuditInv, AuditTypes, StoreTypes
    <3> HIDE DEF run
    <3> QED BY <2>2, <3>1
  <2>4. UNCHANGED <<auditKey, corpus, rawDir, marks>>
    BY <1>scanEnds DEF ScanEnds
  <2> QED BY <2>3, <2>4 DEF AuditInv, AuditTypes, StoreTypes
<1>scanTold. ASSUME ScanTold PROVE StoreTypes'
  BY <1>scanTold DEF ScanTold, Tells, auditStore, worldVars, AuditInv, AuditTypes, StoreTypes,
     auditStore
<1>finishes. ASSUME Finishes PROVE StoreTypes'
  BY <1>finishes DEF Finishes, auditStore, worldVars, AuditInv, AuditTypes, StoreTypes, auditStore
<1>compares. ASSUME NEW i \in DOMAIN auditRuns, NEW j \in DOMAIN auditRuns, Compares(i, j) PROVE StoreTypes'
  BY <1>compares DEF Compares, Opens, Tells, auditStore, worldVars, AuditInv, AuditTypes,
     StoreTypes, auditStore
<1>annotates. ASSUME NEW i \in DOMAIN auditRuns, NEW h \in auditRuns[i].hits,
                    NEW label \in {"benign", "protection"}, Annotates(i, h, label) PROVE StoreTypes'
  BY <1>annotates DEF Annotates, Opens, worldVars, AuditInv, AuditTypes, StoreTypes, auditStore
<1>cleanupBegins. ASSUME CleanupBegins PROVE StoreTypes'
  BY <1>cleanupBegins DEF CleanupBegins, Opens, auditStore, worldVars, AuditInv, AuditTypes,
     StoreTypes,
       auditStore
<1>removes. ASSUME Removes PROVE StoreTypes'
  BY <1>removes DEF Removes, worldVars, AuditInv, AuditTypes, StoreTypes, auditStore
<1>removalSaved. ASSUME RemovalSaved PROVE StoreTypes'
  BY <1>removalSaved DEF RemovalSaved, worldVars, AuditInv, AuditTypes, StoreTypes, auditStore,
     Stored,
       Evaluating, Storing
<1>stops. ASSUME Stops PROVE StoreTypes'
  BY <1>stops DEF Stops, auditStore, worldVars, AuditInv, AuditTypes, StoreTypes, auditStore
<1>fileChanges. ASSUME NEW f \in AuditFile, FileChanges(f) PROVE StoreTypes'
  BY <1>fileChanges DEF FileChanges, Drifts, AuditInv, AuditTypes, StoreTypes, auditStore
<1>slotDamaged. ASSUME NEW f \in AuditFile, SlotDamaged(f) PROVE StoreTypes'
  BY <1>slotDamaged DEF SlotDamaged, Drifts, AuditInv, AuditTypes, StoreTypes, auditStore
<1>scannerChanges. ASSUME ScannerChanges PROVE StoreTypes'
  BY <1>scannerChanges DEF ScannerChanges, Drifts, AuditInv, AuditTypes, StoreTypes, auditStore
<1>secretsChange. ASSUME SecretsChange PROVE StoreTypes'
  BY <1>secretsChange DEF SecretsChange, Drifts, AuditInv, AuditTypes, StoreTypes, auditStore
<1>unchanged. CASE UNCHANGED auditVars
  BY <1>unchanged DEF auditVars, auditStore, worldVars, AuditInv, AuditTypes, StoreTypes,
     auditStore
<1> QED BY <1>begins, <1>keyWritten, <1>keyLinked, <1>keyPublished, <1>keyWithdrawn,
   <1>readsFirst,
     <1>readsAgain, <1>readsStill, <1>savesManifest, <1>makesRaw, <1>writesSlot, <1>scanBegins, <1>skips,
     <1>asks, <1>fails, <1>answers, <1>scanEnds, <1>scanTold, <1>finishes, <1>compares, <1>annotates,
     <1>cleanupBegins, <1>removes, <1>removalSaved, <1>stops, <1>fileChanges, <1>slotDamaged,
     <1>scannerChanges, <1>secretsChange, <1>unchanged DEF AuditNext

(* Every step keeps the key and the operation together, and nothing is saved *)
(* before the key is published.                                              *)
LEMMA AuditKeyStages ==
  ASSUME AuditInv, [AuditNext]_auditVars
  PROVE  KeyStages' /\ NothingIsLockedIn'
<1> USE DEF AuditInv, AuditTypes, JobTypes, StoreTypes, KeyStages, Stored, DlpAuditSafe,
            NothingIsLockedIn, AuditStep, Keying, Capturing, Storing, Evaluating
<1>begins. ASSUME NEW kind \in Inputs \cup {"replay"}, Begins(kind) PROVE KeyStages' /\ NothingIsLockedIn'
  BY <1>begins DEF Begins, Opens, auditStore
<1>keyWritten. ASSUME KeyWritten PROVE KeyStages' /\ NothingIsLockedIn'
  BY <1>keyWritten DEF KeyWritten, KeyStep, worldVars
<1>keyLinked. ASSUME KeyLinked PROVE KeyStages' /\ NothingIsLockedIn'
  BY <1>keyLinked DEF KeyLinked, KeyStep, worldVars
<1>keyPublished. ASSUME KeyPublished PROVE KeyStages' /\ NothingIsLockedIn'
  BY <1>keyPublished DEF KeyPublished, KeyStep, worldVars
<1>keyWithdrawn. ASSUME KeyWithdrawn PROVE KeyStages' /\ NothingIsLockedIn'
  BY <1>keyWithdrawn DEF KeyWithdrawn, KeyStep, worldVars
<1>readsFirst. ASSUME ReadsFirst PROVE KeyStages' /\ NothingIsLockedIn'
  BY <1>readsFirst DEF ReadsFirst, FileAt, auditStore
<1>readsAgain. ASSUME ReadsAgain PROVE KeyStages' /\ NothingIsLockedIn'
  BY <1>readsAgain DEF ReadsAgain, Captures, FileAt, auditStore, worldVars
<1>readsStill. ASSUME ReadsStill PROVE KeyStages' /\ NothingIsLockedIn'
  BY <1>readsStill DEF ReadsStill, Captures, FileAt, auditStore, worldVars
<1>savesManifest. ASSUME SavesManifest PROVE KeyStages' /\ NothingIsLockedIn'
  BY <1>savesManifest DEF SavesManifest, Captures, worldVars
<1>makesRaw. ASSUME MakesRawDirectory PROVE KeyStages' /\ NothingIsLockedIn'
  BY <1>makesRaw DEF MakesRawDirectory, Captures, worldVars
<1>writesSlot. ASSUME WritesSlot PROVE KeyStages' /\ NothingIsLockedIn'
  BY <1>writesSlot DEF WritesSlot, Captures, worldVars
<1>scanBegins. ASSUME ScanBegins PROVE KeyStages' /\ NothingIsLockedIn'
  BY <1>scanBegins DEF ScanBegins, auditStore, worldVars
<1>skips. ASSUME NEW f \in AuditFile, SkipsFile(f) PROVE KeyStages' /\ NothingIsLockedIn'
  BY <1>skips DEF SkipsFile, AtFile, Omits, auditStore, worldVars
<1>asks. ASSUME NEW f \in AuditFile, AsksWorker(f) PROVE KeyStages' /\ NothingIsLockedIn'
  BY <1>asks DEF AsksWorker, AtFile, Omits, auditStore, worldVars
<1>fails. ASSUME NEW f \in AuditFile, WorkerFails(f) PROVE KeyStages' /\ NothingIsLockedIn'
  BY <1>fails DEF WorkerFails, Omits, auditStore, worldVars
<1>answers. ASSUME NEW f \in AuditFile, WorkerAnswers(f) PROVE KeyStages' /\ NothingIsLockedIn'
  BY <1>answers DEF WorkerAnswers, Omits, auditStore, worldVars
<1>scanEnds. ASSUME ScanEnds PROVE KeyStages' /\ NothingIsLockedIn'
  BY <1>scanEnds DEF ScanEnds, worldVars
<1>scanTold. ASSUME ScanTold PROVE KeyStages' /\ NothingIsLockedIn'
  BY <1>scanTold DEF ScanTold, Tells, auditStore, worldVars
<1>finishes. ASSUME Finishes PROVE KeyStages' /\ NothingIsLockedIn'
  BY <1>finishes DEF Finishes, auditStore, worldVars
<1>compares. ASSUME NEW i \in DOMAIN auditRuns, NEW j \in DOMAIN auditRuns, Compares(i, j) PROVE KeyStages' /\ NothingIsLockedIn'
  BY <1>compares DEF Compares, Opens, Tells, auditStore, worldVars
<1>annotates. ASSUME NEW i \in DOMAIN auditRuns, NEW h \in auditRuns[i].hits,
                    NEW label \in {"benign", "protection"}, Annotates(i, h, label) PROVE KeyStages' /\ NothingIsLockedIn'
  BY <1>annotates DEF Annotates, Opens, worldVars
<1>cleanupBegins. ASSUME CleanupBegins PROVE KeyStages' /\ NothingIsLockedIn'
  BY <1>cleanupBegins DEF CleanupBegins, Opens, auditStore, worldVars
<1>removes. ASSUME Removes PROVE KeyStages' /\ NothingIsLockedIn'
  BY <1>removes DEF Removes, worldVars
<1>removalSaved. ASSUME RemovalSaved PROVE KeyStages' /\ NothingIsLockedIn'
  BY <1>removalSaved DEF RemovalSaved, worldVars
<1>stops. ASSUME Stops PROVE KeyStages' /\ NothingIsLockedIn'
  BY <1>stops DEF Stops, auditStore, worldVars
<1>fileChanges. ASSUME NEW f \in AuditFile, FileChanges(f) PROVE KeyStages' /\ NothingIsLockedIn'
  BY <1>fileChanges DEF FileChanges, Drifts
<1>slotDamaged. ASSUME NEW f \in AuditFile, SlotDamaged(f) PROVE KeyStages' /\ NothingIsLockedIn'
  BY <1>slotDamaged DEF SlotDamaged, Drifts
<1>scannerChanges. ASSUME ScannerChanges PROVE KeyStages' /\ NothingIsLockedIn'
  BY <1>scannerChanges DEF ScannerChanges, Drifts
<1>secretsChange. ASSUME SecretsChange PROVE KeyStages' /\ NothingIsLockedIn'
  BY <1>secretsChange DEF SecretsChange, Drifts
<1>unchanged. CASE UNCHANGED auditVars
  BY <1>unchanged DEF auditVars, auditStore, worldVars
<1> QED BY <1>begins, <1>keyWritten, <1>keyLinked, <1>keyPublished, <1>keyWithdrawn,
   <1>readsFirst,
     <1>readsAgain, <1>readsStill, <1>savesManifest, <1>makesRaw, <1>writesSlot, <1>scanBegins, <1>skips,
     <1>asks, <1>fails, <1>answers, <1>scanEnds, <1>scanTold, <1>finishes, <1>compares, <1>annotates,
     <1>cleanupBegins, <1>removes, <1>removalSaved, <1>stops, <1>fileChanges, <1>slotDamaged,
     <1>scannerChanges, <1>secretsChange, <1>unchanged DEF AuditNext

(* Every step keeps raw bytes behind their inventory.                        *)
LEMMA AuditStored ==
  ASSUME AuditInv, [AuditNext]_auditVars
  PROVE  Stored'
<1> USE DEF AuditInv, AuditTypes, StoreTypes, Stored, Keying, Capturing, Storing, Evaluating
<1>begins. ASSUME NEW kind \in Inputs \cup {"replay"}, Begins(kind) PROVE Stored'
  BY <1>begins DEF Begins, Opens, auditStore, JobTypes, CaptureJob, KeyStages, AuditStep
<1>keyWritten. ASSUME KeyWritten PROVE Stored'
  BY <1>keyWritten DEF KeyWritten, KeyStep, worldVars, JobTypes, CaptureJob, KeyStages, AuditStep
<1>keyLinked. ASSUME KeyLinked PROVE Stored'
  BY <1>keyLinked DEF KeyLinked, KeyStep, worldVars, JobTypes, CaptureJob, KeyStages, AuditStep
<1>keyPublished. ASSUME KeyPublished PROVE Stored'
  BY <1>keyPublished DEF KeyPublished, KeyStep, worldVars, JobTypes, CaptureJob, KeyStages,
     AuditStep
<1>keyWithdrawn. ASSUME KeyWithdrawn PROVE Stored'
  BY <1>keyWithdrawn DEF KeyWithdrawn, KeyStep, worldVars, JobTypes, CaptureJob, KeyStages,
     AuditStep
<1>readsFirst. ASSUME ReadsFirst PROVE Stored'
  BY <1>readsFirst DEF ReadsFirst, FileAt, auditStore, JobTypes, CaptureJob, KeyStages, AuditStep
<1>readsAgain. ASSUME ReadsAgain PROVE Stored'
  BY <1>readsAgain DEF ReadsAgain, Captures, FileAt, auditStore, worldVars, JobTypes, CaptureJob,
     KeyStages, AuditStep
<1>readsStill. ASSUME ReadsStill PROVE Stored'
  BY <1>readsStill DEF ReadsStill, Captures, FileAt, auditStore, worldVars, JobTypes, CaptureJob,
     KeyStages, AuditStep
<1>savesManifest. ASSUME SavesManifest PROVE Stored'
  <2>1. /\ CaptureJob(auditJob) /\ auditJob.kind \in Inputs /\ corpus = NoCorpus
        /\ rawDir = FALSE /\ rawSlots = <<>> /\ auditKey = "ready"
    BY <1>savesManifest DEF SavesManifest, Captures, JobTypes, KeyStages
  <2>2. corpus' = [files |-> auditJob.read, input |-> auditJob.kind, removed |-> auditJob.kind = "metadata"]
    BY <1>savesManifest DEF SavesManifest
  <2>3. /\ corpus'.files = auditJob.read /\ corpus' # NoCorpus /\ corpus'.removed = (auditJob.kind = "metadata")
        /\ auditJob.kind = "metadata" => auditAt' = "scan"
        /\ auditJob.kind # "metadata" => auditAt' = "directory"
    BY <1>savesManifest, <2>1, <2>2 DEF SavesManifest, Inputs, NoCorpus
  <2>4. UNCHANGED <<rawDir, rawSlots, auditRuns, auditJob>>
    BY <1>savesManifest DEF SavesManifest
  <2> QED BY <2>1, <2>3, <2>4
<1>makesRaw. ASSUME MakesRawDirectory PROVE Stored'
  BY <1>makesRaw DEF MakesRawDirectory, Captures, worldVars, JobTypes, CaptureJob, KeyStages,
     AuditStep
<1>writesSlot. ASSUME WritesSlot PROVE Stored'
  <2> HIDE DEF AuditInv, AuditTypes, StoreTypes, Stored, Keying, Capturing, Storing, Evaluating
  <2>1. /\ auditAt = "slots" /\ UNCHANGED <<auditKey, corpus, rawDir, auditRuns, marks, auditJob>>
        /\ auditAt' \in {"slots", "scan"} /\ DOMAIN rawSlots' \subseteq DOMAIN rawSlots \cup Accepted(corpus.files)
    BY <1>writesSlot DEF WritesSlot, Captures, Including
  <2>2. /\ Stored /\ rawDir /\ corpus # NoCorpus /\ DOMAIN rawSlots \subseteq Accepted(corpus.files) /\ ~corpus.removed
    BY <2>1 DEF AuditInv, Stored, Storing
  <2> QED BY <2>1, <2>2 DEF Stored, Keying, Capturing, Storing, Evaluating, Accepted
<1>scanBegins. ASSUME ScanBegins PROVE Stored'
  BY <1>scanBegins DEF ScanBegins, auditStore, worldVars, JobTypes, CaptureJob, KeyStages,
     AuditStep, ManifestLoads
<1>skips. ASSUME NEW f \in AuditFile, SkipsFile(f) PROVE Stored'
  BY <1>skips DEF SkipsFile, AtFile, Omits, auditStore, worldVars, JobTypes, CaptureJob,
     KeyStages, AuditStep
<1>asks. ASSUME NEW f \in AuditFile, AsksWorker(f) PROVE Stored'
  BY <1>asks DEF AsksWorker, AtFile, Omits, auditStore, worldVars, JobTypes, CaptureJob,
     KeyStages, AuditStep
<1>fails. ASSUME NEW f \in AuditFile, WorkerFails(f) PROVE Stored'
  BY <1>fails DEF WorkerFails, Omits, auditStore, worldVars, JobTypes, CaptureJob, KeyStages,
     AuditStep
<1>answers. ASSUME NEW f \in AuditFile, WorkerAnswers(f) PROVE Stored'
  BY <1>answers DEF WorkerAnswers, Omits, auditStore, worldVars, JobTypes, CaptureJob, KeyStages,
     AuditStep
<1>scanEnds. ASSUME ScanEnds PROVE Stored'
  BY <1>scanEnds DEF ScanEnds, worldVars, JobTypes, CaptureJob, KeyStages, AuditStep
<1>scanTold. ASSUME ScanTold PROVE Stored'
  BY <1>scanTold DEF ScanTold, Tells, auditStore, worldVars, JobTypes, CaptureJob, KeyStages,
     AuditStep
<1>finishes. ASSUME Finishes PROVE Stored'
  BY <1>finishes DEF Finishes, auditStore, worldVars, JobTypes, CaptureJob, KeyStages, AuditStep
<1>compares. ASSUME NEW i \in DOMAIN auditRuns, NEW j \in DOMAIN auditRuns, Compares(i, j) PROVE Stored'
  BY <1>compares DEF Compares, Opens, Tells, auditStore, worldVars, JobTypes, CaptureJob,
     KeyStages, AuditStep
<1>annotates. ASSUME NEW i \in DOMAIN auditRuns, NEW h \in auditRuns[i].hits,
                    NEW label \in {"benign", "protection"}, Annotates(i, h, label) PROVE Stored'
  BY <1>annotates DEF Annotates, Opens, worldVars, JobTypes, CaptureJob, KeyStages, AuditStep
<1>cleanupBegins. ASSUME CleanupBegins PROVE Stored'
  BY <1>cleanupBegins DEF CleanupBegins, Opens, auditStore, worldVars, JobTypes, CaptureJob,
     KeyStages, AuditStep, ManifestLoads
<1>removes. ASSUME Removes PROVE Stored'
  <2>1. /\ auditAt = "removing" /\ rawDir /\ UNCHANGED <<auditKey, corpus, auditRuns, marks, auditAt, auditJob>>
        /\ DOMAIN rawSlots' \subseteq DOMAIN rawSlots
        /\ rawDir' \/ (rawSlots' = <<>> /\ ~rawDir')
    BY <1>removes DEF Removes, Restrict
  <2> QED BY <2>1 DEF Accepted
<1>removalSaved. ASSUME RemovalSaved PROVE Stored'
  <2>1. /\ auditAt = "removing" /\ ~rawDir /\ corpus # NoCorpus /\ auditAt' = "idle"
        /\ corpus = [files |-> corpus.files, input |-> corpus.input, removed |-> corpus.removed]
        /\ corpus.input \in Inputs \cup {"none"} /\ (corpus.input = "none" => corpus = NoCorpus) /\ rawSlots = <<>>
    BY <1>removalSaved DEF RemovalSaved
  <2>2. /\ corpus' = [corpus EXCEPT !.removed = TRUE] /\ UNCHANGED <<rawDir, rawSlots, auditRuns>>
    BY <1>removalSaved DEF RemovalSaved
  <2>3. corpus'.input = corpus.input /\ corpus.input # "none"
    BY <2>1, <2>2
  <2>4. corpus' # NoCorpus
    BY <2>1, <2>3 DEF NoCorpus
  <2> QED BY <2>1, <2>2, <2>4
<1>stops. ASSUME Stops PROVE Stored'
  BY <1>stops DEF Stops, auditStore, worldVars, JobTypes, CaptureJob, KeyStages, AuditStep
<1>fileChanges. ASSUME NEW f \in AuditFile, FileChanges(f) PROVE Stored'
  BY <1>fileChanges DEF FileChanges, Drifts, JobTypes, CaptureJob, KeyStages, AuditStep
<1>slotDamaged. ASSUME NEW f \in AuditFile, SlotDamaged(f) PROVE Stored'
  BY <1>slotDamaged DEF SlotDamaged, Drifts, JobTypes, CaptureJob, KeyStages, AuditStep
<1>scannerChanges. ASSUME ScannerChanges PROVE Stored'
  BY <1>scannerChanges DEF ScannerChanges, Drifts, JobTypes, CaptureJob, KeyStages, AuditStep
<1>secretsChange. ASSUME SecretsChange PROVE Stored'
  BY <1>secretsChange DEF SecretsChange, Drifts, JobTypes, CaptureJob, KeyStages, AuditStep
<1>unchanged. CASE UNCHANGED auditVars
  BY <1>unchanged DEF auditVars, auditStore, worldVars, JobTypes, CaptureJob, KeyStages, AuditStep
<1> QED BY <1>begins, <1>keyWritten, <1>keyLinked, <1>keyPublished, <1>keyWithdrawn,
   <1>readsFirst,
     <1>readsAgain, <1>readsStill, <1>savesManifest, <1>makesRaw, <1>writesSlot, <1>scanBegins, <1>skips,
     <1>asks, <1>fails, <1>answers, <1>scanEnds, <1>scanTold, <1>finishes, <1>compares, <1>annotates,
     <1>cleanupBegins, <1>removes, <1>removalSaved, <1>stops, <1>fileChanges, <1>slotDamaged,
     <1>scannerChanges, <1>secretsChange, <1>unchanged DEF AuditNext

(* How far the readings of a selection are when the next file is read.       *)
LEMMA FilesRead ==
  ASSUME NEW n \in DOMAIN Selection
  PROVE  /\ Selection[n] \notin {Selection[i] : i \in 1..n - 1}
         /\ {Selection[i] : i \in 1..n - 1} \cup {Selection[n]} = {Selection[i] : i \in 1..n}
         /\ n = Len(Selection) => {Selection[i] : i \in 1..n} = AuditFile
<1>1. n \in 1..Len(Selection) /\ Len(Selection) \in Nat
  BY SelectionFacts
<1>2. 1..n = (1..n - 1) \cup {n}
  BY <1>1
<1>3. Selection[n] \notin {Selection[i] : i \in 1..n - 1}
  BY <1>1, SelectionFacts, SelectionAssumption
<1>4. n = Len(Selection) => {Selection[i] : i \in 1..n} = AuditFile
  BY SelectionFacts DEF AuditFile, Range
<1> QED BY <1>2, <1>3, <1>4

(* Every step keeps what is known of the two readings.                       *)
LEMMA AuditTwoReadings ==
  ASSUME AuditInv, [AuditNext]_auditVars
  PROVE  TwoReadings'
<1>begins. ASSUME NEW kind \in Inputs \cup {"replay"}, Begins(kind) PROVE TwoReadings'
  BY <1>begins, SelectionFacts DEF Begins, Opens, auditStore, AuditInv, AuditTypes, JobTypes,
     WorldTypes,
       CaptureJob, Stored, KeyStages, TwoReadings, OfFiles, Steady, AuditStep, Keying, Capturing, Storing,
       Evaluating
<1>keyWritten. ASSUME KeyWritten PROVE TwoReadings'
  BY <1>keyWritten, SelectionFacts DEF KeyWritten, KeyStep, worldVars, AuditInv, AuditTypes,
     JobTypes,
       WorldTypes, CaptureJob, Stored, KeyStages, TwoReadings, OfFiles, Steady, AuditStep, Keying, Capturing,
       Storing, Evaluating
<1>keyLinked. ASSUME KeyLinked PROVE TwoReadings'
  BY <1>keyLinked, SelectionFacts DEF KeyLinked, KeyStep, worldVars, AuditInv, AuditTypes,
     JobTypes, WorldTypes,
       CaptureJob, Stored, KeyStages, TwoReadings, OfFiles, Steady, AuditStep, Keying, Capturing, Storing,
       Evaluating
<1>keyPublished. ASSUME KeyPublished PROVE TwoReadings'
  BY <1>keyPublished, SelectionFacts DEF KeyPublished, KeyStep, worldVars, AuditInv, AuditTypes,
     JobTypes,
       WorldTypes, CaptureJob, Stored, KeyStages, TwoReadings, OfFiles, Steady, AuditStep, Keying, Capturing,
       Storing, Evaluating
<1>keyWithdrawn. ASSUME KeyWithdrawn PROVE TwoReadings'
  BY <1>keyWithdrawn, SelectionFacts DEF KeyWithdrawn, KeyStep, worldVars, AuditInv, AuditTypes,
     JobTypes,
       WorldTypes, CaptureJob, Stored, KeyStages, TwoReadings, OfFiles, Steady, AuditStep, Keying, Capturing,
       Storing, Evaluating
<1>readsFirst. ASSUME ReadsFirst PROVE TwoReadings'
  <2> DEFINE n == auditJob.next
             f == Selection[n]
             read == Including(auditJob.read, f, auditSource[f])
             last == n = Len(Selection)
  <2>1. /\ CaptureJob(auditJob) /\ n \in DOMAIN Selection /\ auditAt = "first" /\ OfFiles
        /\ DOMAIN auditJob.read = {Selection[i] : i \in 1..n - 1}
        /\ \A g \in DOMAIN auditJob.read : auditJob.read[g] = auditSource[g] \/ moved[g] > 0
        /\ moved \in [AuditFile -> Nat]
    BY <1>readsFirst DEF ReadsFirst, OfFiles, AuditInv, AuditTypes, JobTypes, WorldTypes,
       TwoReadings, Capturing
  <2>2. /\ auditJob' = [auditJob EXCEPT !.read = read, !.next = IF last THEN 1 ELSE n + 1]
        /\ auditAt' = (IF last THEN "second" ELSE "first")
        /\ middle' = (IF last THEN auditSource ELSE middle) /\ UNCHANGED <<auditSource, moved>>
    BY <1>readsFirst, <2>1 DEF ReadsFirst, FileAt, CaptureJob
  <2>3. /\ auditJob'.read = read /\ auditJob'.next = (IF last THEN 1 ELSE n + 1) /\ auditJob'.kind = auditJob.kind
    <3> HIDE DEF read
    <3> QED BY <2>1, <2>2 DEF CaptureJob
  <2>4. /\ DOMAIN read = {Selection[i] : i \in 1..n} /\ (last => DOMAIN read = AuditFile)
        /\ \A g \in DOMAIN auditJob.read : read[g] = auditJob.read[g]
        /\ read[f] = auditSource[f]
    <3>1. DOMAIN read = {Selection[i] : i \in 1..n} /\ (last => DOMAIN read = AuditFile)
      BY <2>1, FilesRead DEF Including
    <3>2. f \notin DOMAIN auditJob.read
      BY <2>1, FilesRead
    <3> QED BY <3>1, <3>2 DEF Including
  <2>5. \A g \in DOMAIN read : read[g] = auditSource[g] \/ moved[g] > 0
    <3>1. DOMAIN read = DOMAIN auditJob.read \cup {f}
      BY DEF Including
    <3> HIDE DEF read
    <3> QED BY <2>1, <2>4, <3>1
  <2>6. n \in 1..Len(Selection) /\ Len(Selection) \in Nat \ {0} /\ DOMAIN Selection = 1..Len(Selection)
    BY <2>1, SelectionFacts
  <2> HIDE DEF read, f
  <2>7. CASE last
    BY <2>1, <2>2, <2>3, <2>4, <2>5, <2>6, <2>7 DEF TwoReadings, OfFiles
  <2>8. CASE ~last
    BY <2>1, <2>2, <2>3, <2>4, <2>5, <2>6, <2>8 DEF TwoReadings, OfFiles
  <2> QED BY <2>7, <2>8
<1>readsAgain. ASSUME ReadsAgain PROVE TwoReadings'
  <2> DEFINE n == auditJob.next
             f == Selection[n]
  <2>1. /\ CaptureJob(auditJob) /\ n \in DOMAIN Selection /\ auditAt = "second" /\ OfFiles
        /\ DOMAIN auditJob.read = AuditFile
        /\ \A g \in AuditFile : auditJob.read[g] # middle[g] =>
             moved[g] > 0 /\ (auditSource[g] # middle[g] => moved[g] > 1)
        /\ \A i \in 1..n - 1 : Steady(auditJob.read, Selection[i])
    BY <1>readsAgain DEF ReadsAgain, Captures, AuditInv, AuditTypes, JobTypes, TwoReadings,
       Capturing
  <2>2. /\ auditJob' = [auditJob EXCEPT !.next = n + 1] /\ UNCHANGED <<auditSource, middle, moved>>
        /\ auditAt' = (IF n = Len(Selection) THEN "manifest" ELSE "second")
        /\ auditJob.read[f] \in AuditTexts => auditSource[f] = auditJob.read[f]
    BY <1>readsAgain DEF ReadsAgain, Captures, worldVars, StillHolds, FileAt
  <2>3. auditJob'.read = auditJob.read /\ auditJob'.next = n + 1 /\ auditJob'.kind = auditJob.kind
    BY <2>1, <2>2 DEF CaptureJob
  <2>4. n \in 1..Len(Selection) /\ Len(Selection) \in Nat \ {0} /\ DOMAIN Selection = 1..Len(Selection) /\ f \in AuditFile
    BY <2>1, SelectionFacts
  <2>5. Steady(auditJob.read, f)
    BY <2>1, <2>2, <2>4 DEF Steady
  <2>6. \A i \in 1..n : Steady(auditJob.read, Selection[i])
    BY <2>1, <2>4, <2>5
  <2>7. n = Len(Selection) => \A g \in AuditFile : Steady(auditJob.read, g)
    BY <2>4, <2>6 DEF AuditFile, Range
  <2>8. n # Len(Selection) => n + 1 \in DOMAIN Selection /\ (n + 1) - 1 = n
    BY <2>4
  <2>9. \A g : Steady(auditJob.read, g)' <=> Steady(auditJob.read, g)
    BY <2>2, <2>3 DEF Steady
  <2> QED BY <2>1, <2>2, <2>3, <2>6, <2>7, <2>8, <2>9 DEF TwoReadings, OfFiles, Steady
<1>readsStill. ASSUME ReadsStill PROVE TwoReadings'
  BY <1>readsStill, SelectionFacts DEF ReadsStill, Captures, FileAt, auditStore, worldVars,
     AuditInv,
       AuditTypes, JobTypes, WorldTypes, CaptureJob, Stored, KeyStages, TwoReadings, OfFiles, Steady,
       AuditStep, Keying, Capturing, Storing, Evaluating
<1>savesManifest. ASSUME SavesManifest PROVE TwoReadings'
  BY <1>savesManifest, SelectionFacts DEF SavesManifest, Captures, worldVars, AuditInv,
     AuditTypes, JobTypes,
       WorldTypes, CaptureJob, Stored, KeyStages, TwoReadings, OfFiles, Steady, AuditStep, Keying, Capturing,
       Storing, Evaluating
<1>makesRaw. ASSUME MakesRawDirectory PROVE TwoReadings'
  BY <1>makesRaw, SelectionFacts DEF MakesRawDirectory, Captures, worldVars, AuditInv,
     AuditTypes, JobTypes,
       WorldTypes, CaptureJob, Stored, KeyStages, TwoReadings, OfFiles, Steady, AuditStep, Keying, Capturing,
       Storing, Evaluating
<1>writesSlot. ASSUME WritesSlot PROVE TwoReadings'
  BY <1>writesSlot, SelectionFacts DEF WritesSlot, Captures, worldVars, AuditInv, AuditTypes,
     JobTypes,
       WorldTypes, CaptureJob, Stored, KeyStages, TwoReadings, OfFiles, Steady, AuditStep, Keying, Capturing,
       Storing, Evaluating
<1>scanBegins. ASSUME ScanBegins PROVE TwoReadings'
  BY <1>scanBegins, SelectionFacts DEF ScanBegins, auditStore, worldVars, AuditInv, AuditTypes,
     JobTypes,
       WorldTypes, CaptureJob, Stored, KeyStages, TwoReadings, OfFiles, Steady, AuditStep, Keying, Capturing,
       Storing, Evaluating
<1>skips. ASSUME NEW f \in AuditFile, SkipsFile(f) PROVE TwoReadings'
  BY <1>skips, SelectionFacts DEF SkipsFile, AtFile, Omits, auditStore, worldVars, AuditInv,
     AuditTypes,
       JobTypes, WorldTypes, CaptureJob, Stored, KeyStages, TwoReadings, OfFiles, Steady, AuditStep, Keying,
       Capturing, Storing, Evaluating
<1>asks. ASSUME NEW f \in AuditFile, AsksWorker(f) PROVE TwoReadings'
  BY <1>asks, SelectionFacts DEF AsksWorker, AtFile, Omits, auditStore, worldVars, AuditInv,
     AuditTypes,
       JobTypes, WorldTypes, CaptureJob, Stored, KeyStages, TwoReadings, OfFiles, Steady, AuditStep, Keying,
       Capturing, Storing, Evaluating
<1>fails. ASSUME NEW f \in AuditFile, WorkerFails(f) PROVE TwoReadings'
  BY <1>fails, SelectionFacts DEF WorkerFails, Omits, auditStore, worldVars, AuditInv,
     AuditTypes, JobTypes,
       WorldTypes, CaptureJob, Stored, KeyStages, TwoReadings, OfFiles, Steady, AuditStep, Keying, Capturing,
       Storing, Evaluating
<1>answers. ASSUME NEW f \in AuditFile, WorkerAnswers(f) PROVE TwoReadings'
  BY <1>answers, SelectionFacts DEF WorkerAnswers, Omits, auditStore, worldVars, AuditInv,
     AuditTypes, JobTypes,
       WorldTypes, CaptureJob, Stored, KeyStages, TwoReadings, OfFiles, Steady, AuditStep, Keying, Capturing,
       Storing, Evaluating
<1>scanEnds. ASSUME ScanEnds PROVE TwoReadings'
  BY <1>scanEnds, SelectionFacts DEF ScanEnds, worldVars, AuditInv, AuditTypes, JobTypes,
     WorldTypes,
       CaptureJob, Stored, KeyStages, TwoReadings, OfFiles, Steady, AuditStep, Keying, Capturing, Storing,
       Evaluating
<1>scanTold. ASSUME ScanTold PROVE TwoReadings'
  BY <1>scanTold, SelectionFacts DEF ScanTold, Tells, auditStore, worldVars, AuditInv,
     AuditTypes, JobTypes,
       WorldTypes, CaptureJob, Stored, KeyStages, TwoReadings, OfFiles, Steady, AuditStep, Keying, Capturing,
       Storing, Evaluating
<1>finishes. ASSUME Finishes PROVE TwoReadings'
  BY <1>finishes, SelectionFacts DEF Finishes, auditStore, worldVars, AuditInv, AuditTypes,
     JobTypes,
       WorldTypes, CaptureJob, Stored, KeyStages, TwoReadings, OfFiles, Steady, AuditStep, Keying, Capturing,
       Storing, Evaluating
<1>compares. ASSUME NEW i \in DOMAIN auditRuns, NEW j \in DOMAIN auditRuns, Compares(i, j) PROVE TwoReadings'
  BY <1>compares, SelectionFacts DEF Compares, Opens, Tells, auditStore, worldVars, AuditInv,
     AuditTypes,
       JobTypes, WorldTypes, CaptureJob, Stored, KeyStages, TwoReadings, OfFiles, Steady, AuditStep, Keying,
       Capturing, Storing, Evaluating
<1>annotates. ASSUME NEW i \in DOMAIN auditRuns, NEW h \in auditRuns[i].hits,
                    NEW label \in {"benign", "protection"}, Annotates(i, h, label) PROVE TwoReadings'
  BY <1>annotates, SelectionFacts DEF Annotates, Opens, worldVars, AuditInv, AuditTypes,
     JobTypes, WorldTypes,
       CaptureJob, Stored, KeyStages, TwoReadings, OfFiles, Steady, AuditStep, Keying, Capturing, Storing,
       Evaluating
<1>cleanupBegins. ASSUME CleanupBegins PROVE TwoReadings'
  BY <1>cleanupBegins, SelectionFacts DEF CleanupBegins, Opens, auditStore, worldVars, AuditInv,
     AuditTypes,
       JobTypes, WorldTypes, CaptureJob, Stored, KeyStages, TwoReadings, OfFiles, Steady, AuditStep, Keying,
       Capturing, Storing, Evaluating
<1>removes. ASSUME Removes PROVE TwoReadings'
  BY <1>removes, SelectionFacts DEF Removes, worldVars, AuditInv, AuditTypes, JobTypes,
     WorldTypes, CaptureJob,
       Stored, KeyStages, TwoReadings, OfFiles, Steady, AuditStep, Keying, Capturing, Storing, Evaluating
<1>removalSaved. ASSUME RemovalSaved PROVE TwoReadings'
  BY <1>removalSaved, SelectionFacts DEF RemovalSaved, worldVars, AuditInv, AuditTypes, JobTypes,
     WorldTypes,
       CaptureJob, Stored, KeyStages, TwoReadings, OfFiles, Steady, AuditStep, Keying, Capturing, Storing,
       Evaluating
<1>stops. ASSUME Stops PROVE TwoReadings'
  BY <1>stops, SelectionFacts DEF Stops, auditStore, worldVars, AuditInv, AuditTypes, JobTypes,
     WorldTypes,
       CaptureJob, Stored, KeyStages, TwoReadings, OfFiles, Steady, AuditStep, Keying, Capturing, Storing,
       Evaluating
<1>fileChanges. ASSUME NEW f \in AuditFile, FileChanges(f) PROVE TwoReadings'
  BY SMTT(60), <1>fileChanges, SelectionFacts DEF FileChanges, Drifts, AuditInv, AuditTypes, JobTypes,
     WorldTypes,
       CaptureJob, Stored, KeyStages, TwoReadings, OfFiles, Steady, AuditStep, Keying, Capturing, Storing,
       Evaluating
<1>slotDamaged. ASSUME NEW f \in AuditFile, SlotDamaged(f) PROVE TwoReadings'
  BY <1>slotDamaged, SelectionFacts DEF SlotDamaged, Drifts, AuditInv, AuditTypes, JobTypes,
     WorldTypes,
       CaptureJob, Stored, KeyStages, TwoReadings, OfFiles, Steady, AuditStep, Keying, Capturing, Storing,
       Evaluating
<1>scannerChanges. ASSUME ScannerChanges PROVE TwoReadings'
  BY <1>scannerChanges, SelectionFacts DEF ScannerChanges, Drifts, AuditInv, AuditTypes,
     JobTypes, WorldTypes,
       CaptureJob, Stored, KeyStages, TwoReadings, OfFiles, Steady, AuditStep, Keying, Capturing, Storing,
       Evaluating
<1>secretsChange. ASSUME SecretsChange PROVE TwoReadings'
  BY <1>secretsChange, SelectionFacts DEF SecretsChange, Drifts, AuditInv, AuditTypes, JobTypes,
     WorldTypes,
       CaptureJob, Stored, KeyStages, TwoReadings, OfFiles, Steady, AuditStep, Keying, Capturing, Storing,
       Evaluating
<1>unchanged. CASE UNCHANGED auditVars
  BY <1>unchanged, SelectionFacts DEF auditVars, auditStore, worldVars, AuditInv, AuditTypes,
     JobTypes,
       WorldTypes, CaptureJob, Stored, KeyStages, TwoReadings, OfFiles, Steady, AuditStep, Keying, Capturing,
       Storing, Evaluating
<1> QED BY <1>begins, <1>keyWritten, <1>keyLinked, <1>keyPublished, <1>keyWithdrawn,
   <1>readsFirst,
     <1>readsAgain, <1>readsStill, <1>savesManifest, <1>makesRaw, <1>writesSlot, <1>scanBegins, <1>skips,
     <1>asks, <1>fails, <1>answers, <1>scanEnds, <1>scanTold, <1>finishes, <1>compares, <1>annotates,
     <1>cleanupBegins, <1>removes, <1>removalSaved, <1>stops, <1>fileChanges, <1>slotDamaged,
     <1>scannerChanges, <1>secretsChange, <1>unchanged DEF AuditNext

(* What is known of a scan depends on its job, the corpus, the secrets and   *)
(* the worker only.                                                          *)
LEMMA ScanUnmoved ==
  ASSUME UNCHANGED <<corpus, auditJob, peer, secretNow>>
  PROVE  (Progress => Progress') /\ (Asked => Asked')
<1>1. Truth(corpus.files, auditJob, auditJob.done)' = Truth(corpus.files, auditJob, auditJob.done)
  BY DEF Truth
<1>2. Progress => Progress'
  BY <1>1 DEF Progress
<1>3. Asked => Asked'
  BY DEF Asked, Accepted, Turn, Unscanned
<1> QED BY <1>2, <1>3

(* An omission is counted once.                                              *)
LEMMA OmissionCounts ==
  ASSUME NEW errors, IsFiniteSet(errors), IsFiniteSet(OmittedFiles(errors)),
         Cardinality(OmittedFiles(errors)) = Cardinality(errors),
         NEW e, e.file \notin OmittedFiles(errors), NEW more, more = errors \cup {e}
  PROVE  /\ IsFiniteSet(more) /\ OmittedFiles(more) = OmittedFiles(errors) \cup {e.file}
         /\ IsFiniteSet(OmittedFiles(more)) /\ Cardinality(OmittedFiles(more)) = Cardinality(more)
<1>1. OmittedFiles(more) = OmittedFiles(errors) \cup {e.file}
  BY DEF OmittedFiles
<1>2. e \notin errors
  BY DEF OmittedFiles
<1>3. IsFiniteSet(more) /\ Cardinality(more) = Cardinality(errors) + 1
  BY <1>2, FS_AddElement
<1>4. IsFiniteSet(OmittedFiles(more)) /\ Cardinality(OmittedFiles(more)) = Cardinality(OmittedFiles(errors)) + 1
  BY ZenonT(60), <1>1, FS_AddElement
<1> QED BY <1>1, <1>3, <1>4

(* A scan that omits a file is as good as before, if the reason is true.     *)
LEMMA OmitsProgress ==
  ASSUME Progress, auditJob \in ScanJob, NEW f \in AuditFile, Turn(f),
         NEW reason \in {"unsupported_input", "scan_deadline", "worker", "output_budget"},
         NEW stopped \in {"no", "scan_deadline", "output_budget"}, Omits(f, reason, stopped),
         f \notin Accepted(corpus.files) <=> reason = "unsupported_input",
         UNCHANGED <<corpus, secretNow>>, peer' \in {peer, NoPeer}
  PROVE  Progress'
<1>1. /\ auditJob'.errors = auditJob.errors \cup {[file |-> f, reason |-> reason]}
      /\ auditJob'.scanner = auditJob.scanner /\ auditJob'.secret = auditJob.secret
      /\ auditJob'.done = auditJob.done /\ auditJob'.hits = auditJob.hits
  BY OmitsOne
<1>2. f \in DOMAIN corpus.files /\ f \notin auditJob.done /\ f \notin OmittedFiles(auditJob.errors)
  BY DEF Turn, Unscanned, OmittedFiles
<1>3. /\ IsFiniteSet(auditJob.errors) /\ IsFiniteSet(OmittedFiles(auditJob.errors))
      /\ Cardinality(OmittedFiles(auditJob.errors)) = Cardinality(auditJob.errors)
      /\ OmittedFiles(auditJob.errors) \subseteq DOMAIN corpus.files \ auditJob.done
      /\ \A e \in auditJob.errors : e.file \notin Accepted(corpus.files) <=> e.reason = "unsupported_input"
  BY DEF Progress
<1>4. /\ IsFiniteSet(auditJob'.errors) /\ OmittedFiles(auditJob'.errors) = OmittedFiles(auditJob.errors) \cup {f}
      /\ IsFiniteSet(OmittedFiles(auditJob'.errors))
      /\ Cardinality(OmittedFiles(auditJob'.errors)) = Cardinality(auditJob'.errors)
  <2> DEFINE errors == auditJob.errors
             more == auditJob'.errors
             e == [file |-> f, reason |-> reason]
  <2>1. /\ IsFiniteSet(errors) /\ IsFiniteSet(OmittedFiles(errors)) /\ e.file = f /\ f \notin OmittedFiles(errors)
        /\ Cardinality(OmittedFiles(errors)) = Cardinality(errors) /\ more = errors \cup {e}
    BY <1>1, <1>2, <1>3
  <2> HIDE DEF errors, more, e
  <2>2. /\ IsFiniteSet(more) /\ OmittedFiles(more) = OmittedFiles(errors) \cup {e.file}
        /\ IsFiniteSet(OmittedFiles(more)) /\ Cardinality(OmittedFiles(more)) = Cardinality(more)
    BY ONLY <2>1, OmissionCounts
  <2> QED BY <2>1, <2>2 DEF errors, more
<1>5. OmittedFiles(auditJob'.errors) \subseteq DOMAIN corpus'.files \ auditJob'.done
  BY <1>1, <1>2, <1>3, <1>4
<1>6. \A e \in auditJob'.errors : e.file \notin Accepted(corpus'.files) <=> e.reason = "unsupported_input"
  BY <1>1, <1>3
<1>7. auditJob'.hits = Truth(corpus.files, auditJob, auditJob.done)' /\ FitsBudget(auditJob'.hits)
  <2>1. Truth(corpus.files, auditJob, auditJob.done)' = Truth(corpus.files, auditJob, auditJob.done)
    BY <1>1 DEF Truth
  <2> QED BY <1>1, <2>1 DEF Progress
<1>8. /\ auditJob'.secret = secretNow' /\ auditJob'.done \subseteq Accepted(corpus'.files)
      /\ peer' = NoPeer \/ peer'.secret = secretNow'
  BY <1>1 DEF Progress
<1> QED BY <1>4, <1>5, <1>6, <1>7, <1>8 DEF Progress

(* A scan that is answered for a file says the truth of one file more.       *)
LEMMA AnswerProgress ==
  ASSUME Progress, auditJob \in ScanJob, NEW f \in AuditFile, Turn(f), f \in Accepted(corpus.files),
         NEW found \in SUBSET Hit,
         found = RejectedIn(auditJob.scanner, auditJob.secret, f, corpus.files[f]),
         FitsBudget(auditJob.hits \cup found),
         auditJob' = [auditJob EXCEPT !.hits = @ \cup found, !.done = @ \cup {f}, !.text = "none"],
         UNCHANGED <<corpus, secretNow, peer>>
  PROVE  Progress'
<1>1. /\ auditJob'.errors = auditJob.errors /\ auditJob'.done = auditJob.done \cup {f}
      /\ auditJob'.scanner = auditJob.scanner /\ auditJob'.secret = auditJob.secret
      /\ auditJob'.hits = auditJob.hits \cup found
  BY ScansOne
<1>2. f \in DOMAIN corpus.files /\ f \notin OmittedFiles(auditJob.errors)
  BY DEF Turn, Unscanned, OmittedFiles
<1>3. auditJob'.hits = Truth(corpus.files, auditJob, auditJob.done)'
  <2>1. Truth(corpus.files, auditJob, auditJob.done)' = Truth(corpus.files, auditJob, auditJob.done) \cup found
    BY <1>1 DEF Truth
  <2> QED BY <1>1, <2>1 DEF Progress
<1>4. OmittedFiles(auditJob.errors) \subseteq DOMAIN corpus.files \ auditJob'.done
  BY <1>1, <1>2 DEF Progress
<1> QED BY <1>1, <1>3, <1>4 DEF Progress

(* Every step keeps what is known of a scan.                                 *)
LEMMA AuditScanning ==
  ASSUME AuditInv, [AuditNext]_auditVars
  PROVE  Scanning'
<1>begins. ASSUME NEW kind \in Inputs \cup {"replay"}, Begins(kind) PROVE Scanning'
  BY <1>begins DEF Begins, Opens, auditStore, AuditInv, Scanning, AuditStep, Keying, Capturing,
     Storing,
       Evaluating
<1>keyWritten. ASSUME KeyWritten PROVE Scanning'
  BY <1>keyWritten DEF KeyWritten, KeyStep, worldVars, AuditInv, Scanning, AuditStep, Keying,
     Capturing,
       Storing, Evaluating
<1>keyLinked. ASSUME KeyLinked PROVE Scanning'
  BY <1>keyLinked DEF KeyLinked, KeyStep, worldVars, AuditInv, Scanning, AuditStep, Keying,
     Capturing, Storing,
       Evaluating
<1>keyPublished. ASSUME KeyPublished PROVE Scanning'
  BY <1>keyPublished DEF KeyPublished, KeyStep, worldVars, AuditInv, Scanning, AuditStep, Keying,
     Capturing,
       Storing, Evaluating
<1>keyWithdrawn. ASSUME KeyWithdrawn PROVE Scanning'
  BY <1>keyWithdrawn DEF KeyWithdrawn, KeyStep, worldVars, AuditInv, Scanning, AuditStep, Keying,
     Capturing,
       Storing, Evaluating
<1>readsFirst. ASSUME ReadsFirst PROVE Scanning'
  BY <1>readsFirst DEF ReadsFirst, FileAt, auditStore, AuditInv, Scanning, AuditStep, Keying,
     Capturing,
       Storing, Evaluating
<1>readsAgain. ASSUME ReadsAgain PROVE Scanning'
  BY <1>readsAgain DEF ReadsAgain, Captures, FileAt, auditStore, worldVars, AuditInv, Scanning,
     AuditStep,
       Keying, Capturing, Storing, Evaluating
<1>readsStill. ASSUME ReadsStill PROVE Scanning'
  BY <1>readsStill DEF ReadsStill, Captures, FileAt, auditStore, worldVars, AuditInv, Scanning,
     AuditStep,
       Keying, Capturing, Storing, Evaluating
<1>savesManifest. ASSUME SavesManifest PROVE Scanning'
  BY <1>savesManifest DEF SavesManifest, Captures, worldVars, AuditInv, Scanning, AuditStep,
     Keying, Capturing,
       Storing, Evaluating
<1>makesRaw. ASSUME MakesRawDirectory PROVE Scanning'
  BY <1>makesRaw DEF MakesRawDirectory, Captures, worldVars, AuditInv, Scanning, AuditStep,
     Keying, Capturing,
       Storing, Evaluating
<1>writesSlot. ASSUME WritesSlot PROVE Scanning'
  BY <1>writesSlot DEF WritesSlot, Captures, worldVars, AuditInv, Scanning, AuditStep, Keying,
     Capturing,
       Storing, Evaluating
<1>scanBegins. ASSUME ScanBegins PROVE Scanning'
  <2>1. /\ auditJob' = [kind |-> "scan", scanner |-> scannerNow, secret |-> secretNow, stopped |-> "no",
                        text |-> "none", done |-> {}, errors |-> {}, hits |-> {}]
        /\ auditAt = "scan" /\ auditAt' = "files" /\ UNCHANGED <<corpus, secretNow, peer>>
    BY <1>scanBegins DEF ScanBegins, auditStore, worldVars
  <2>2. peer = NoPeer
    BY <2>1 DEF AuditInv, Scanning, Evaluating
  <2>3. IsFiniteSet({}) /\ Cardinality({}) = 0 /\ OmittedFiles({}) = {}
    BY FS_EmptySet DEF OmittedFiles
  <2>4. Truth(corpus.files, auditJob, {})' = {}
    BY DEF Truth
  <2>5. Progress'
    BY <2>1, <2>2, <2>3, <2>4, DlpAuditAssumption DEF Progress, FitsBudget, OmittedFiles
  <2> QED BY <2>1, <2>5 DEF Scanning, Evaluating
<1>skips. ASSUME NEW f \in AuditFile, SkipsFile(f) PROVE Scanning'
  <2>1. /\ auditAt = "files" /\ auditAt' = "files" /\ Turn(f) /\ UNCHANGED <<corpus, secretNow, peer>>
        /\ auditJob \in ScanJob /\ Progress
    BY <1>skips DEF SkipsFile, AtFile, auditStore, worldVars, AuditInv, AuditTypes, JobTypes,
       Scanning, Evaluating
  <2>2. PICK reason \in {"unsupported_input", "scan_deadline", "output_budget"},
             stopped \in {"no", "scan_deadline", "output_budget"} :
               Omits(f, reason, stopped) /\ (f \notin Accepted(corpus.files) <=> reason = "unsupported_input")
    BY <1>skips, <2>1 DEF SkipsFile, ScanJob
  <2>3. Progress'
    BY <2>1, <2>2, OmitsProgress
  <2> QED BY <2>1, <2>3 DEF Scanning, Evaluating
<1>asks. ASSUME NEW f \in AuditFile, AsksWorker(f) PROVE Scanning'
  <2>1. /\ auditAt = "files" /\ Turn(f) /\ UNCHANGED <<corpus, secretNow>> /\ f \in Accepted(corpus.files)
        /\ auditJob \in ScanJob /\ Progress /\ BytesOf(f) = corpus.files[f]
    BY <1>asks DEF AsksWorker, AtFile, SourceMatches, auditStore, worldVars, AuditInv,
       AuditTypes, JobTypes,
                   Scanning, Evaluating
  <2>2. CASE /\ auditAt' = "exchange" /\ auditJob' = [auditJob EXCEPT !.text = BytesOf(f)]
             /\ peer' = IF peer = NoPeer THEN Launched ELSE peer
    <3>1. peer'.secret = secretNow'
      BY <2>1, <2>2 DEF Progress, Launched
    <3>2. /\ auditJob'.errors = auditJob.errors /\ auditJob'.done = auditJob.done
          /\ auditJob'.scanner = auditJob.scanner /\ auditJob'.secret = auditJob.secret
          /\ auditJob'.hits = auditJob.hits /\ auditJob'.text = BytesOf(f)
      BY <2>1, <2>2 DEF ScanJob
    <3>3. Progress'
      <4>1. Truth(corpus.files, auditJob, auditJob.done)' = Truth(corpus.files, auditJob, auditJob.done)
        BY <2>1, <3>2 DEF Truth
      <4> QED BY <2>1, <3>1, <3>2, <4>1 DEF Progress
    <3>4. Turn(f)'
      BY <2>1, <3>2 DEF Turn, Unscanned
    <3>5. Asked'
      BY <2>1, <3>1, <3>2, <3>4 DEF Asked, Accepted
    <3> QED BY <2>2, <3>3, <3>5 DEF Scanning, Evaluating
  <2>3. CASE Omits(f, "worker", "no") /\ auditAt' = auditAt /\ UNCHANGED peer
    <3>1. Progress'
      BY <2>1, <2>3, OmitsProgress
    <3> QED BY <2>1, <2>3, <3>1 DEF Scanning, Evaluating
  <2> QED BY <1>asks, <2>2, <2>3 DEF AsksWorker
<1>fails. ASSUME NEW f \in AuditFile, WorkerFails(f) PROVE Scanning'
  <2>1. /\ auditAt = "exchange" /\ auditAt' = "files" /\ Turn(f) /\ UNCHANGED <<corpus, secretNow>>
        /\ peer' = NoPeer /\ auditJob \in ScanJob /\ Progress /\ Asked /\ Omits(f, "worker", "no")
    BY <1>fails DEF WorkerFails, auditStore, worldVars, AuditInv, AuditTypes, JobTypes, Scanning,
       Evaluating
  <2>2. f \in Accepted(corpus.files)
    BY <2>1, TurnIsOne DEF Asked, AuditInv, AuditTypes, StoreTypes
  <2>3. Progress'
    BY <2>1, <2>2, OmitsProgress
  <2> QED BY <2>1, <2>3 DEF Scanning, Evaluating
<1>answers. ASSUME NEW f \in AuditFile, WorkerAnswers(f) PROVE Scanning'
  <2> DEFINE found == RejectedIn(peer.scanner, peer.secret, f, auditJob.text)
  <2>1. /\ auditAt = "exchange" /\ auditAt' = "files" /\ Turn(f) /\ ServesScanner
        /\ UNCHANGED <<corpus, secretNow>> /\ auditJob \in ScanJob /\ Progress
    BY <1>answers DEF WorkerAnswers, auditStore, worldVars, AuditInv, AuditTypes, JobTypes,
       Scanning, Evaluating
  <2>2. /\ f \in Accepted(corpus.files) /\ found \subseteq Hit
        /\ found = RejectedIn(auditJob.scanner, auditJob.secret, f, corpus.files[f])
    BY <2>1, AnswerIsOfCapture
  <2>3. \/ (Omits(f, "output_budget", "no") \/ Omits(f, "output_budget", "output_budget")) /\ peer' \in {peer, NoPeer}
        \/ /\ auditJob' = [auditJob EXCEPT !.hits = @ \cup found, !.done = @ \cup {f}, !.text = "none"]
           /\ FitsBudget(auditJob.hits \cup found) /\ UNCHANGED peer
    BY <1>answers DEF WorkerAnswers
  <2> HIDE DEF found
  <2>4. Progress'
    <3>1. CASE Omits(f, "output_budget", "no") /\ peer' \in {peer, NoPeer}
      BY <2>1, <2>2, <3>1, OmitsProgress
    <3>2. CASE Omits(f, "output_budget", "output_budget") /\ peer' \in {peer, NoPeer}
      BY <2>1, <2>2, <3>2, OmitsProgress
    <3>3. CASE /\ auditJob' = [auditJob EXCEPT !.hits = @ \cup found, !.done = @ \cup {f}, !.text = "none"]
               /\ FitsBudget(auditJob.hits \cup found) /\ UNCHANGED peer
      BY <2>1, <2>2, <3>3, AnswerProgress
    <3> QED BY <2>3, <3>1, <3>2, <3>3
  <2> QED BY <2>1, <2>4 DEF Scanning, Evaluating
<1>scanEnds. ASSUME ScanEnds PROVE Scanning'
  <2>1. auditAt' = "assess" /\ peer' = NoPeer
    BY <1>scanEnds DEF ScanEnds
  <2>2. auditRuns' # <<>>
    <3> DEFINE run == [scanner |-> auditJob.scanner, secret |-> auditJob.secret, done |-> auditJob.done,
                       errors |-> auditJob.errors, hits |-> auditJob.hits,
                       complete |-> auditJob.errors = {} /\ auditJob.done = Accepted(corpus.files)]
    <3>1. auditRuns' = Append(auditRuns, run) /\ auditRuns \in Seq(AuditRun)
      BY <1>scanEnds DEF ScanEnds, AuditInv, AuditTypes, StoreTypes
    <3> HIDE DEF run
    <3> QED BY <3>1
  <2> QED BY <2>1, <2>2 DEF Scanning, Evaluating
<1>scanTold. ASSUME ScanTold PROVE Scanning'
  BY <1>scanTold DEF ScanTold, Tells, auditStore, worldVars, AuditInv, Scanning, AuditStep,
     Keying, Capturing,
       Storing, Evaluating
<1>finishes. ASSUME Finishes PROVE Scanning'
  BY <1>finishes DEF Finishes, auditStore, worldVars, AuditInv, Scanning, AuditStep, Keying,
     Capturing, Storing,
       Evaluating
<1>compares. ASSUME NEW i \in DOMAIN auditRuns, NEW j \in DOMAIN auditRuns, Compares(i, j) PROVE Scanning'
  BY <1>compares DEF Compares, Opens, Tells, auditStore, worldVars, AuditInv, Scanning,
     AuditStep, Keying,
       Capturing, Storing, Evaluating
<1>annotates. ASSUME NEW i \in DOMAIN auditRuns, NEW h \in auditRuns[i].hits,
                    NEW label \in {"benign", "protection"}, Annotates(i, h, label) PROVE Scanning'
  BY <1>annotates DEF Annotates, Opens, worldVars, AuditInv, Scanning, AuditStep, Keying,
     Capturing, Storing,
       Evaluating
<1>cleanupBegins. ASSUME CleanupBegins PROVE Scanning'
  BY <1>cleanupBegins DEF CleanupBegins, Opens, auditStore, worldVars, AuditInv, Scanning,
     AuditStep, Keying,
       Capturing, Storing, Evaluating
<1>removes. ASSUME Removes PROVE Scanning'
  BY <1>removes DEF Removes, worldVars, AuditInv, Scanning, AuditStep, Keying, Capturing,
     Storing, Evaluating
<1>removalSaved. ASSUME RemovalSaved PROVE Scanning'
  BY <1>removalSaved DEF RemovalSaved, worldVars, AuditInv, Scanning, AuditStep, Keying,
     Capturing, Storing,
       Evaluating
<1>stops. ASSUME Stops PROVE Scanning'
  BY <1>stops DEF Stops, auditStore, worldVars, AuditInv, Scanning, AuditStep, Keying, Capturing,
     Storing,
       Evaluating
<1>fileChanges. ASSUME NEW f \in AuditFile, FileChanges(f) PROVE Scanning'
  <2>1. UNCHANGED <<corpus, auditJob, peer, secretNow, auditAt, auditRuns>>
    BY <1>fileChanges DEF FileChanges, Drifts
  <2> QED BY <2>1, ScanUnmoved DEF AuditInv, Scanning, Evaluating
<1>slotDamaged. ASSUME NEW f \in AuditFile, SlotDamaged(f) PROVE Scanning'
  <2>1. UNCHANGED <<corpus, auditJob, peer, secretNow, auditAt, auditRuns>>
    BY <1>slotDamaged DEF SlotDamaged, Drifts
  <2> QED BY <2>1, ScanUnmoved DEF AuditInv, Scanning, Evaluating
<1>scannerChanges. ASSUME ScannerChanges PROVE Scanning'
  <2>1. UNCHANGED <<corpus, auditJob, peer, secretNow, auditAt, auditRuns>>
    BY <1>scannerChanges DEF ScannerChanges, Drifts
  <2> QED BY <2>1, ScanUnmoved DEF AuditInv, Scanning, Evaluating
<1>secretsChange. ASSUME SecretsChange PROVE Scanning'
  BY <1>secretsChange DEF SecretsChange, Drifts, AuditInv, Scanning, AuditStep, Keying,
     Capturing, Storing,
       Evaluating
<1>unchanged. CASE UNCHANGED auditVars
  <2>1. UNCHANGED <<corpus, auditJob, peer, secretNow, auditAt, auditRuns>>
    BY <1>unchanged DEF auditVars, auditStore, worldVars
  <2> QED BY <2>1, ScanUnmoved DEF AuditInv, Scanning, Evaluating
<1> QED BY <1>begins, <1>keyWritten, <1>keyLinked, <1>keyPublished, <1>keyWithdrawn,
   <1>readsFirst,
     <1>readsAgain, <1>readsStill, <1>savesManifest, <1>makesRaw, <1>writesSlot, <1>scanBegins, <1>skips,
     <1>asks, <1>fails, <1>answers, <1>scanEnds, <1>scanTold, <1>finishes, <1>compares, <1>annotates,
     <1>cleanupBegins, <1>removes, <1>removalSaved, <1>stops, <1>fileChanges, <1>slotDamaged,
     <1>scannerChanges, <1>secretsChange, <1>unchanged DEF AuditNext

(* Every step keeps a captured corpus one of one moment.                     *)
LEMMA AuditMoment ==
  ASSUME AuditInv, [AuditNext]_auditVars
  PROVE  CaptureIsOneMoment'
<1> USE DEF AuditInv, AuditTypes, StoreTypes, DlpAuditSafe, CaptureIsOneMoment, Accepted
<1>begins. ASSUME NEW kind \in Inputs \cup {"replay"}, Begins(kind) PROVE CaptureIsOneMoment'
  BY <1>begins DEF Begins, Opens, auditStore, Inputs, NoCorpus
<1>keyWritten. ASSUME KeyWritten PROVE CaptureIsOneMoment'
  BY <1>keyWritten DEF KeyWritten, KeyStep, worldVars
<1>keyLinked. ASSUME KeyLinked PROVE CaptureIsOneMoment'
  BY <1>keyLinked DEF KeyLinked, KeyStep, worldVars
<1>keyPublished. ASSUME KeyPublished PROVE CaptureIsOneMoment'
  BY <1>keyPublished DEF KeyPublished, KeyStep, worldVars
<1>keyWithdrawn. ASSUME KeyWithdrawn PROVE CaptureIsOneMoment'
  BY <1>keyWithdrawn DEF KeyWithdrawn, KeyStep, worldVars
<1>readsFirst. ASSUME ReadsFirst PROVE CaptureIsOneMoment'
  BY <1>readsFirst DEF ReadsFirst, FileAt, auditStore, Stored, Capturing, NoCorpus
<1>readsAgain. ASSUME ReadsAgain PROVE CaptureIsOneMoment'
  BY <1>readsAgain DEF ReadsAgain, Captures, FileAt, auditStore, worldVars
<1>readsStill. ASSUME ReadsStill PROVE CaptureIsOneMoment'
  BY <1>readsStill DEF ReadsStill, Captures, FileAt, auditStore, worldVars
<1>savesManifest. ASSUME SavesManifest PROVE CaptureIsOneMoment'
  <2>1. /\ corpus' = [files |-> auditJob.read, input |-> auditJob.kind, removed |-> auditJob.kind = "metadata"]
        /\ UNCHANGED <<middle, moved>> /\ auditAt = "manifest" /\ CaptureJob(auditJob)
    BY <1>savesManifest DEF SavesManifest, Captures, worldVars, JobTypes, Capturing
  <2>2. corpus'.files = auditJob.read /\ corpus'.input = auditJob.kind
    BY <2>1
  <2>3. OfFiles => \A f \in AuditFile : Steady(auditJob.read, f)
    BY <2>1 DEF AuditInv, TwoReadings
  <2> QED BY <2>1, <2>2, <2>3 DEF OfFiles, Steady, CaptureJob
<1>makesRaw. ASSUME MakesRawDirectory PROVE CaptureIsOneMoment'
  BY <1>makesRaw DEF MakesRawDirectory, Captures, worldVars
<1>writesSlot. ASSUME WritesSlot PROVE CaptureIsOneMoment'
  BY <1>writesSlot DEF WritesSlot, Captures, worldVars
<1>scanBegins. ASSUME ScanBegins PROVE CaptureIsOneMoment'
  BY <1>scanBegins DEF ScanBegins, auditStore, worldVars
<1>skips. ASSUME NEW f \in AuditFile, SkipsFile(f) PROVE CaptureIsOneMoment'
  BY <1>skips DEF SkipsFile, AtFile, Omits, auditStore, worldVars
<1>asks. ASSUME NEW f \in AuditFile, AsksWorker(f) PROVE CaptureIsOneMoment'
  BY <1>asks DEF AsksWorker, AtFile, Omits, auditStore, worldVars
<1>fails. ASSUME NEW f \in AuditFile, WorkerFails(f) PROVE CaptureIsOneMoment'
  BY <1>fails DEF WorkerFails, Omits, auditStore, worldVars
<1>answers. ASSUME NEW f \in AuditFile, WorkerAnswers(f) PROVE CaptureIsOneMoment'
  BY <1>answers DEF WorkerAnswers, Omits, auditStore, worldVars
<1>scanEnds. ASSUME ScanEnds PROVE CaptureIsOneMoment'
  BY <1>scanEnds DEF ScanEnds, worldVars
<1>scanTold. ASSUME ScanTold PROVE CaptureIsOneMoment'
  BY <1>scanTold DEF ScanTold, Tells, auditStore, worldVars
<1>finishes. ASSUME Finishes PROVE CaptureIsOneMoment'
  BY <1>finishes DEF Finishes, auditStore, worldVars
<1>compares. ASSUME NEW i \in DOMAIN auditRuns, NEW j \in DOMAIN auditRuns, Compares(i, j) PROVE CaptureIsOneMoment'
  BY <1>compares DEF Compares, Opens, Tells, auditStore, worldVars
<1>annotates. ASSUME NEW i \in DOMAIN auditRuns, NEW h \in auditRuns[i].hits,
                    NEW label \in {"benign", "protection"}, Annotates(i, h, label) PROVE CaptureIsOneMoment'
  BY <1>annotates DEF Annotates, Opens, worldVars
<1>cleanupBegins. ASSUME CleanupBegins PROVE CaptureIsOneMoment'
  BY <1>cleanupBegins DEF CleanupBegins, Opens, auditStore, worldVars
<1>removes. ASSUME Removes PROVE CaptureIsOneMoment'
  BY <1>removes DEF Removes, worldVars
<1>removalSaved. ASSUME RemovalSaved PROVE CaptureIsOneMoment'
  BY <1>removalSaved DEF RemovalSaved, worldVars
<1>stops. ASSUME Stops PROVE CaptureIsOneMoment'
  BY <1>stops DEF Stops, auditStore, worldVars
<1>fileChanges. ASSUME NEW f \in AuditFile, FileChanges(f) PROVE CaptureIsOneMoment'
  BY <1>fileChanges DEF FileChanges, Drifts, Stored, Capturing, NoCorpus, WorldTypes
<1>slotDamaged. ASSUME NEW f \in AuditFile, SlotDamaged(f) PROVE CaptureIsOneMoment'
  BY <1>slotDamaged DEF SlotDamaged, Drifts
<1>scannerChanges. ASSUME ScannerChanges PROVE CaptureIsOneMoment'
  BY <1>scannerChanges DEF ScannerChanges, Drifts
<1>secretsChange. ASSUME SecretsChange PROVE CaptureIsOneMoment'
  BY <1>secretsChange DEF SecretsChange, Drifts
<1>unchanged. CASE UNCHANGED auditVars
  BY <1>unchanged DEF auditVars, auditStore, worldVars
<1> QED BY <1>begins, <1>keyWritten, <1>keyLinked, <1>keyPublished, <1>keyWithdrawn,
   <1>readsFirst,
     <1>readsAgain, <1>readsStill, <1>savesManifest, <1>makesRaw, <1>writesSlot, <1>scanBegins, <1>skips,
     <1>asks, <1>fails, <1>answers, <1>scanEnds, <1>scanTold, <1>finishes, <1>compares, <1>annotates,
     <1>cleanupBegins, <1>removes, <1>removalSaved, <1>stops, <1>fileChanges, <1>slotDamaged,
     <1>scannerChanges, <1>secretsChange, <1>unchanged DEF AuditNext

(* A saved run stays true and readable as long as the corpus is the same.    *)
LEMMA RunsStay ==
  ASSUME AuditInv, UNCHANGED auditRuns, auditRuns # <<>> => corpus'.files = corpus.files
  PROVE  RunIsTrue' /\ RunsLoad'
<1>1. RunIsTrue /\ RunsLoad
  BY DEF AuditInv, DlpAuditSafe
<1>2. CASE auditRuns = <<>>
  BY <1>2 DEF RunIsTrue, RunsLoad
<1>3. CASE corpus'.files = corpus.files
  BY <1>1, <1>3 DEF RunIsTrue, RunsLoad
<1> QED BY <1>2, <1>3

(* The run a scan ends with is true, and can be read again.                  *)
LEMMA NewRun ==
  ASSUME AuditInv, ScanEnds, NEW run,
         run = [scanner |-> auditJob.scanner, secret |-> auditJob.secret, done |-> auditJob.done,
                errors |-> auditJob.errors, hits |-> auditJob.hits,
                complete |-> auditJob.errors = {} /\ auditJob.done = Accepted(corpus.files)]
  PROVE  run.hits = Truth(corpus.files, run, run.done) /\ (run.complete => run.done = DOMAIN corpus.files) /\ RunLoads(corpus.files, run)
<1> DEFINE failed == OmittedFiles(auditJob.errors)
           files == corpus.files
<1>1. Progress /\ Unscanned = {}
  BY DEF ScanEnds, AuditInv, Scanning, Evaluating
<1>2. /\ run.scanner = auditJob.scanner /\ run.secret = auditJob.secret /\ run.done = auditJob.done
      /\ run.errors = auditJob.errors /\ run.hits = auditJob.hits
      /\ run.complete <=> auditJob.errors = {} /\ auditJob.done = Accepted(files)
  OBVIOUS
<1>3. Truth(corpus.files, run, run.done) = Truth(corpus.files, auditJob, auditJob.done)
  BY <1>2 DEF Truth
<1>4. run.hits = Truth(corpus.files, run, run.done)
  BY <1>1, <1>2, <1>3 DEF Progress
<1>5. /\ failed \subseteq DOMAIN files /\ run.done = DOMAIN files \ failed /\ run.done \subseteq Accepted(files)
      /\ Accepted(files) \subseteq DOMAIN files
  BY <1>1, <1>2 DEF Progress, Unscanned, OmittedFiles, Accepted
<1>6. failed = {} <=> auditJob.errors = {}
  BY DEF OmittedFiles
<1>7. \A h \in run.hits : h.file \in run.done
  <2> SUFFICES ASSUME NEW h \in run.hits PROVE h.file \in run.done
    OBVIOUS
  <2>1. PICK f \in run.done : h \in RejectedIn(run.scanner, run.secret, f, corpus.files[f])
    BY <1>4 DEF Truth
  <2> QED BY <2>1, FoundInFile
<1>8. /\ Cardinality(failed) = Cardinality(run.errors) /\ FitsBudget(run.hits)
      /\ \A e \in run.errors : e.file \notin Accepted(files) <=> e.reason = "unsupported_input"
  BY <1>1, <1>2 DEF Progress
<1>9. RunLoads(corpus.files, run)
  <2>1. {e.file : e \in run.errors} = failed
    BY <1>2 DEF OmittedFiles
  <2>2. \A e \in run.errors : e.file \in failed
    BY <1>2 DEF OmittedFiles
  <2> HIDE DEF failed
  <2> QED BY <1>2, <1>5, <1>6, <1>7, <1>8, <2>1, <2>2 DEF RunLoads
<1> QED BY <1>2, <1>4, <1>5, <1>6, <1>9

(* Every step keeps the saved runs true and readable.                        *)
LEMMA AuditRuns ==
  ASSUME AuditInv, [AuditNext]_auditVars
  PROVE  RunIsTrue' /\ RunsLoad'
<1>begins. ASSUME NEW kind \in Inputs \cup {"replay"}, Begins(kind) PROVE RunIsTrue' /\ RunsLoad'
  BY <1>begins, RunsStay DEF Begins, Opens, auditStore, AuditInv, auditStore
<1>keyWritten. ASSUME KeyWritten PROVE RunIsTrue' /\ RunsLoad'
  BY <1>keyWritten, RunsStay DEF KeyWritten, KeyStep, worldVars, AuditInv, auditStore
<1>keyLinked. ASSUME KeyLinked PROVE RunIsTrue' /\ RunsLoad'
  BY <1>keyLinked, RunsStay DEF KeyLinked, KeyStep, worldVars, AuditInv, auditStore
<1>keyPublished. ASSUME KeyPublished PROVE RunIsTrue' /\ RunsLoad'
  BY <1>keyPublished, RunsStay DEF KeyPublished, KeyStep, worldVars, AuditInv, auditStore
<1>keyWithdrawn. ASSUME KeyWithdrawn PROVE RunIsTrue' /\ RunsLoad'
  BY <1>keyWithdrawn, RunsStay DEF KeyWithdrawn, KeyStep, worldVars, AuditInv, auditStore
<1>readsFirst. ASSUME ReadsFirst PROVE RunIsTrue' /\ RunsLoad'
  BY <1>readsFirst, RunsStay DEF ReadsFirst, FileAt, auditStore, AuditInv, auditStore
<1>readsAgain. ASSUME ReadsAgain PROVE RunIsTrue' /\ RunsLoad'
  BY <1>readsAgain, RunsStay DEF ReadsAgain, Captures, FileAt, auditStore, worldVars, AuditInv,
     auditStore
<1>readsStill. ASSUME ReadsStill PROVE RunIsTrue' /\ RunsLoad'
  BY <1>readsStill, RunsStay DEF ReadsStill, Captures, FileAt, auditStore, worldVars, AuditInv,
     auditStore
<1>savesManifest. ASSUME SavesManifest PROVE RunIsTrue' /\ RunsLoad'
  BY <1>savesManifest, RunsStay DEF SavesManifest, Captures, worldVars, AuditInv, auditStore,
     Stored, Capturing
<1>makesRaw. ASSUME MakesRawDirectory PROVE RunIsTrue' /\ RunsLoad'
  BY <1>makesRaw, RunsStay DEF MakesRawDirectory, Captures, worldVars, AuditInv, auditStore
<1>writesSlot. ASSUME WritesSlot PROVE RunIsTrue' /\ RunsLoad'
  BY <1>writesSlot, RunsStay DEF WritesSlot, Captures, worldVars, AuditInv, auditStore
<1>scanBegins. ASSUME ScanBegins PROVE RunIsTrue' /\ RunsLoad'
  BY <1>scanBegins, RunsStay DEF ScanBegins, auditStore, worldVars, AuditInv, auditStore
<1>skips. ASSUME NEW f \in AuditFile, SkipsFile(f) PROVE RunIsTrue' /\ RunsLoad'
  BY <1>skips, RunsStay DEF SkipsFile, AtFile, Omits, auditStore, worldVars, AuditInv, auditStore
<1>asks. ASSUME NEW f \in AuditFile, AsksWorker(f) PROVE RunIsTrue' /\ RunsLoad'
  BY <1>asks, RunsStay DEF AsksWorker, AtFile, Omits, auditStore, worldVars, AuditInv, auditStore
<1>fails. ASSUME NEW f \in AuditFile, WorkerFails(f) PROVE RunIsTrue' /\ RunsLoad'
  BY <1>fails, RunsStay DEF WorkerFails, Omits, auditStore, worldVars, AuditInv, auditStore
<1>answers. ASSUME NEW f \in AuditFile, WorkerAnswers(f) PROVE RunIsTrue' /\ RunsLoad'
  BY <1>answers, RunsStay DEF WorkerAnswers, Omits, auditStore, worldVars, AuditInv, auditStore
<1>scanEnds. ASSUME ScanEnds PROVE RunIsTrue' /\ RunsLoad'
  <2> DEFINE run == [scanner |-> auditJob.scanner, secret |-> auditJob.secret, done |-> auditJob.done,
                     errors |-> auditJob.errors, hits |-> auditJob.hits,
                     complete |-> auditJob.errors = {} /\ auditJob.done = Accepted(corpus.files)]
  <2>1. auditRuns' = Append(auditRuns, run) /\ auditRuns \in Seq(AuditRun) /\ UNCHANGED corpus
    BY <1>scanEnds DEF ScanEnds, AuditInv, AuditTypes, StoreTypes
  <2>2. run.hits = Truth(corpus.files, run, run.done) /\ (run.complete => run.done = DOMAIN corpus.files) /\ RunLoads(corpus.files, run)
    BY <1>scanEnds, NewRun
  <2> HIDE DEF run
  <2>3. /\ DOMAIN auditRuns' = DOMAIN auditRuns \cup {Len(auditRuns) + 1} /\ auditRuns'[Len(auditRuns) + 1] = run
        /\ \A i \in DOMAIN auditRuns : auditRuns'[i] = auditRuns[i]
    BY <2>1
  <2>4. RunIsTrue /\ RunsLoad
    BY DEF AuditInv, DlpAuditSafe
  <2>5. \A i \in DOMAIN auditRuns' : LET r == auditRuns'[i]
                                     IN /\ r.hits = Truth(corpus.files, r, r.done) /\ (r.complete => r.done = DOMAIN corpus.files)
                                        /\ RunLoads(corpus.files, r)
    BY <2>2, <2>3, <2>4 DEF RunIsTrue, RunsLoad
  <2> QED BY <2>1, <2>5 DEF RunIsTrue, RunsLoad
<1>scanTold. ASSUME ScanTold PROVE RunIsTrue' /\ RunsLoad'
  BY <1>scanTold, RunsStay DEF ScanTold, Tells, auditStore, worldVars, AuditInv, auditStore
<1>finishes. ASSUME Finishes PROVE RunIsTrue' /\ RunsLoad'
  BY <1>finishes, RunsStay DEF Finishes, auditStore, worldVars, AuditInv, auditStore
<1>compares. ASSUME NEW i \in DOMAIN auditRuns, NEW j \in DOMAIN auditRuns, Compares(i, j) PROVE RunIsTrue' /\ RunsLoad'
  BY <1>compares, RunsStay DEF Compares, Opens, Tells, auditStore, worldVars, AuditInv, auditStore
<1>annotates. ASSUME NEW i \in DOMAIN auditRuns, NEW h \in auditRuns[i].hits,
                    NEW label \in {"benign", "protection"}, Annotates(i, h, label) PROVE RunIsTrue' /\ RunsLoad'
  BY <1>annotates, RunsStay DEF Annotates, Opens, worldVars, AuditInv, auditStore
<1>cleanupBegins. ASSUME CleanupBegins PROVE RunIsTrue' /\ RunsLoad'
  BY <1>cleanupBegins, RunsStay DEF CleanupBegins, Opens, auditStore, worldVars, AuditInv,
     auditStore
<1>removes. ASSUME Removes PROVE RunIsTrue' /\ RunsLoad'
  BY <1>removes, RunsStay DEF Removes, worldVars, AuditInv, auditStore
<1>removalSaved. ASSUME RemovalSaved PROVE RunIsTrue' /\ RunsLoad'
  BY <1>removalSaved, RunsStay DEF RemovalSaved, worldVars, AuditInv, auditStore, AuditTypes,
     StoreTypes
<1>stops. ASSUME Stops PROVE RunIsTrue' /\ RunsLoad'
  BY <1>stops, RunsStay DEF Stops, auditStore, worldVars, AuditInv, auditStore
<1>fileChanges. ASSUME NEW f \in AuditFile, FileChanges(f) PROVE RunIsTrue' /\ RunsLoad'
  BY <1>fileChanges, RunsStay DEF FileChanges, Drifts, AuditInv, auditStore
<1>slotDamaged. ASSUME NEW f \in AuditFile, SlotDamaged(f) PROVE RunIsTrue' /\ RunsLoad'
  BY <1>slotDamaged, RunsStay DEF SlotDamaged, Drifts, AuditInv, auditStore
<1>scannerChanges. ASSUME ScannerChanges PROVE RunIsTrue' /\ RunsLoad'
  BY <1>scannerChanges, RunsStay DEF ScannerChanges, Drifts, AuditInv, auditStore
<1>secretsChange. ASSUME SecretsChange PROVE RunIsTrue' /\ RunsLoad'
  BY <1>secretsChange, RunsStay DEF SecretsChange, Drifts, AuditInv, auditStore
<1>unchanged. CASE UNCHANGED auditVars
  BY <1>unchanged, RunsStay DEF auditVars, auditStore, worldVars, AuditInv, auditStore
<1> QED BY <1>begins, <1>keyWritten, <1>keyLinked, <1>keyPublished, <1>keyWithdrawn,
   <1>readsFirst,
     <1>readsAgain, <1>readsStill, <1>savesManifest, <1>makesRaw, <1>writesSlot, <1>scanBegins, <1>skips,
     <1>asks, <1>fails, <1>answers, <1>scanEnds, <1>scanTold, <1>finishes, <1>compares, <1>annotates,
     <1>cleanupBegins, <1>removes, <1>removalSaved, <1>stops, <1>fileChanges, <1>slotDamaged,
     <1>scannerChanges, <1>secretsChange, <1>unchanged DEF AuditNext

(* Every step keeps the annotations ones of saved runs.                      *)
LEMMA AuditMarks ==
  ASSUME AuditInv, [AuditNext]_auditVars
  PROVE  MarksAreOfRuns'
<1> USE DEF auditStore, AuditInv, DlpAuditSafe, MarksAreOfRuns
<1>begins. ASSUME NEW kind \in Inputs \cup {"replay"}, Begins(kind) PROVE MarksAreOfRuns'
  BY <1>begins DEF Begins, Opens
<1>keyWritten. ASSUME KeyWritten PROVE MarksAreOfRuns'
  BY <1>keyWritten DEF KeyWritten, KeyStep, worldVars
<1>keyLinked. ASSUME KeyLinked PROVE MarksAreOfRuns'
  BY <1>keyLinked DEF KeyLinked, KeyStep, worldVars
<1>keyPublished. ASSUME KeyPublished PROVE MarksAreOfRuns'
  BY <1>keyPublished DEF KeyPublished, KeyStep, worldVars
<1>keyWithdrawn. ASSUME KeyWithdrawn PROVE MarksAreOfRuns'
  BY <1>keyWithdrawn DEF KeyWithdrawn, KeyStep, worldVars
<1>readsFirst. ASSUME ReadsFirst PROVE MarksAreOfRuns'
  BY <1>readsFirst DEF ReadsFirst, FileAt
<1>readsAgain. ASSUME ReadsAgain PROVE MarksAreOfRuns'
  BY <1>readsAgain DEF ReadsAgain, Captures, FileAt, worldVars
<1>readsStill. ASSUME ReadsStill PROVE MarksAreOfRuns'
  BY <1>readsStill DEF ReadsStill, Captures, FileAt, worldVars
<1>savesManifest. ASSUME SavesManifest PROVE MarksAreOfRuns'
  BY <1>savesManifest DEF SavesManifest, Captures, worldVars
<1>makesRaw. ASSUME MakesRawDirectory PROVE MarksAreOfRuns'
  BY <1>makesRaw DEF MakesRawDirectory, Captures, worldVars
<1>writesSlot. ASSUME WritesSlot PROVE MarksAreOfRuns'
  BY <1>writesSlot DEF WritesSlot, Captures, worldVars
<1>scanBegins. ASSUME ScanBegins PROVE MarksAreOfRuns'
  BY <1>scanBegins DEF ScanBegins, worldVars
<1>skips. ASSUME NEW f \in AuditFile, SkipsFile(f) PROVE MarksAreOfRuns'
  BY <1>skips DEF SkipsFile, AtFile, Omits, worldVars
<1>asks. ASSUME NEW f \in AuditFile, AsksWorker(f) PROVE MarksAreOfRuns'
  BY <1>asks DEF AsksWorker, AtFile, Omits, worldVars
<1>fails. ASSUME NEW f \in AuditFile, WorkerFails(f) PROVE MarksAreOfRuns'
  BY <1>fails DEF WorkerFails, Omits, worldVars
<1>answers. ASSUME NEW f \in AuditFile, WorkerAnswers(f) PROVE MarksAreOfRuns'
  BY <1>answers DEF WorkerAnswers, Omits, worldVars
<1>scanEnds. ASSUME ScanEnds PROVE MarksAreOfRuns'
  <2>1. PICK run : auditRuns' = Append(auditRuns, run) /\ auditRuns' \in Seq(AuditRun)
    BY <1>scanEnds, AuditStoreTypes DEF ScanEnds, StoreTypes
  <2>2. auditRuns \in Seq(AuditRun) /\ UNCHANGED marks /\ MarksAreOfRuns
    BY <1>scanEnds DEF ScanEnds, AuditTypes, StoreTypes
  <2>3. /\ DOMAIN auditRuns \subseteq DOMAIN auditRuns'
        /\ \A i \in DOMAIN auditRuns : auditRuns'[i] = auditRuns[i]
    BY <2>1, <2>2
  <2> QED BY <2>2, <2>3 DEF MarksAreOfRuns
<1>scanTold. ASSUME ScanTold PROVE MarksAreOfRuns'
  BY <1>scanTold DEF ScanTold, Tells, worldVars
<1>finishes. ASSUME Finishes PROVE MarksAreOfRuns'
  BY <1>finishes DEF Finishes, worldVars
<1>compares. ASSUME NEW i \in DOMAIN auditRuns, NEW j \in DOMAIN auditRuns, Compares(i, j) PROVE MarksAreOfRuns'
  BY <1>compares DEF Compares, Opens, Tells, worldVars
<1>annotates. ASSUME NEW i \in DOMAIN auditRuns, NEW h \in auditRuns[i].hits,
                    NEW label \in {"benign", "protection"}, Annotates(i, h, label) PROVE MarksAreOfRuns'
  <2> DEFINE e == [id |-> UnitId(h), label |-> label, fact |-> h.fact]
             run == auditRuns[i]
  <2>1. /\ marks' = [secret |-> run.secret, entries |-> (marks.entries \ Marked(UnitId(h))) \cup {e}]
        /\ run.complete /\ run.secret = secretNow /\ h \in run.hits /\ MarksLoad /\ UNCHANGED auditRuns
    BY <1>annotates DEF Annotates
  <2>2. marks'.secret = run.secret /\ marks'.entries \subseteq marks.entries \cup {e}
    BY <2>1
  <2>3. marks.entries = {} \/ marks.secret = run.secret
    BY <2>1 DEF MarksLoad, NoMarks
  <2>4. e.id = UnitId(h) /\ e.fact = h.fact
    OBVIOUS
  <2> HIDE DEF e
  <2>5. ASSUME NEW m \in marks'.entries
        PROVE  \E n \in DOMAIN auditRuns : /\ auditRuns[n].complete /\ auditRuns[n].secret = run.secret
                                           /\ \E g \in auditRuns[n].hits : UnitId(g) = m.id /\ g.fact = m.fact
    <3>1. CASE m = e
      BY <2>1, <2>4, <3>1
    <3>2. CASE m \in marks.entries
      <4>1. MarksAreOfRuns
        BY DEF AuditInv, DlpAuditSafe
      <4> QED BY <2>3, <3>2, <4>1 DEF MarksAreOfRuns
    <3> QED BY <2>2, <3>1, <3>2
  <2> QED BY <2>1, <2>2, <2>5 DEF MarksAreOfRuns
<1>cleanupBegins. ASSUME CleanupBegins PROVE MarksAreOfRuns'
  BY <1>cleanupBegins DEF CleanupBegins, Opens, worldVars
<1>removes. ASSUME Removes PROVE MarksAreOfRuns'
  BY <1>removes DEF Removes, worldVars
<1>removalSaved. ASSUME RemovalSaved PROVE MarksAreOfRuns'
  BY <1>removalSaved DEF RemovalSaved, worldVars
<1>stops. ASSUME Stops PROVE MarksAreOfRuns'
  BY <1>stops DEF Stops, worldVars
<1>fileChanges. ASSUME NEW f \in AuditFile, FileChanges(f) PROVE MarksAreOfRuns'
  BY <1>fileChanges DEF FileChanges, Drifts
<1>slotDamaged. ASSUME NEW f \in AuditFile, SlotDamaged(f) PROVE MarksAreOfRuns'
  BY <1>slotDamaged DEF SlotDamaged, Drifts
<1>scannerChanges. ASSUME ScannerChanges PROVE MarksAreOfRuns'
  BY <1>scannerChanges DEF ScannerChanges, Drifts
<1>secretsChange. ASSUME SecretsChange PROVE MarksAreOfRuns'
  BY <1>secretsChange DEF SecretsChange, Drifts
<1>unchanged. CASE UNCHANGED auditVars
  BY <1>unchanged DEF auditVars, worldVars
<1> QED BY <1>begins, <1>keyWritten, <1>keyLinked, <1>keyPublished, <1>keyWithdrawn,
   <1>readsFirst,
     <1>readsAgain, <1>readsStill, <1>savesManifest, <1>makesRaw, <1>writesSlot, <1>scanBegins, <1>skips,
     <1>asks, <1>fails, <1>answers, <1>scanEnds, <1>scanTold, <1>finishes, <1>compares, <1>annotates,
     <1>cleanupBegins, <1>removes, <1>removalSaved, <1>stops, <1>fileChanges, <1>slotDamaged,
     <1>scannerChanges, <1>secretsChange, <1>unchanged DEF AuditNext

(* The hits of a complete run are all that its scanner rejects in the corpus. *)
LEMMA CompleteSaysAll ==
  ASSUME AuditInv, NEW i \in DOMAIN auditRuns, auditRuns[i].complete
  PROVE  auditRuns[i].hits = Truth(corpus.files, auditRuns[i], DOMAIN corpus.files)
  BY DEF AuditInv, DlpAuditSafe, RunIsTrue

(* What an assessment that finds nothing says of the hits it assessed.       *)
LEMMA SettledHits ==
  ASSUME AuditInv, NEW hits, ~Unsettled(hits)
  PROVE  /\ \A h \in hits : \E e \in Marked(UnitId(h)) : e.label = "protection" /\ e.fact = h.fact
         /\ \A h : Of(UnitId(h), hits) = {} => \A e \in Marked(UnitId(h)) : e.label = "benign"
<1>1. \A e \in marks.entries : e.label \in {"benign", "protection"}
  BY DEF AuditInv, AuditTypes, StoreTypes
<1>2. \A h \in hits : \E e \in Marked(UnitId(h)) : e.label # "benign" /\ e.fact = h.fact
  BY DEF Unsettled
<1>3. \A e \in marks.entries : e.label # "benign" => Of(e.id, hits) # {}
  BY DEF Unsettled
<1> QED BY <1>1, <1>2, <1>3 DEF Marked

(* A report that was already told says the same of what has not changed.     *)
LEMMA TellingStays ==
  ASSUME AuditInv, auditAt' = "told" => auditAt = "told" /\ UNCHANGED <<corpus, marks, auditRuns, auditJob>>
  PROVE  ZeroHidesNothing'
<1>1. ZeroHidesNothing
  BY DEF AuditInv, DlpAuditSafe
<1>2. CASE auditAt' # "told"
  BY <1>2 DEF ZeroHidesNothing
<1>3. CASE auditAt = "told" /\ UNCHANGED <<corpus, marks, auditRuns, auditJob>>
  BY <1>1, <1>3 DEF ZeroHidesNothing, Marked
<1> QED BY <1>2, <1>3

(* Every step keeps a report that ends with 0 one that hides nothing.        *)
LEMMA AuditZero ==
  ASSUME AuditInv, [AuditNext]_auditVars
  PROVE  ZeroHidesNothing'
<1>begins. ASSUME NEW kind \in Inputs \cup {"replay"}, Begins(kind) PROVE ZeroHidesNothing'
  BY <1>begins, TellingStays DEF Begins, Opens, auditStore, auditStore
<1>keyWritten. ASSUME KeyWritten PROVE ZeroHidesNothing'
  BY <1>keyWritten, TellingStays DEF KeyWritten, KeyStep, worldVars, auditStore
<1>keyLinked. ASSUME KeyLinked PROVE ZeroHidesNothing'
  BY <1>keyLinked, TellingStays DEF KeyLinked, KeyStep, worldVars, auditStore
<1>keyPublished. ASSUME KeyPublished PROVE ZeroHidesNothing'
  BY <1>keyPublished, TellingStays DEF KeyPublished, KeyStep, worldVars, auditStore
<1>keyWithdrawn. ASSUME KeyWithdrawn PROVE ZeroHidesNothing'
  BY <1>keyWithdrawn, TellingStays DEF KeyWithdrawn, KeyStep, worldVars, auditStore
<1>readsFirst. ASSUME ReadsFirst PROVE ZeroHidesNothing'
  BY <1>readsFirst, TellingStays DEF ReadsFirst, FileAt, auditStore, auditStore
<1>readsAgain. ASSUME ReadsAgain PROVE ZeroHidesNothing'
  BY <1>readsAgain, TellingStays DEF ReadsAgain, Captures, FileAt, auditStore, worldVars,
     auditStore
<1>readsStill. ASSUME ReadsStill PROVE ZeroHidesNothing'
  BY <1>readsStill, TellingStays DEF ReadsStill, Captures, FileAt, auditStore, worldVars,
     auditStore
<1>savesManifest. ASSUME SavesManifest PROVE ZeroHidesNothing'
  BY <1>savesManifest, TellingStays DEF SavesManifest, Captures, worldVars, auditStore
<1>makesRaw. ASSUME MakesRawDirectory PROVE ZeroHidesNothing'
  BY <1>makesRaw, TellingStays DEF MakesRawDirectory, Captures, worldVars, auditStore
<1>writesSlot. ASSUME WritesSlot PROVE ZeroHidesNothing'
  BY <1>writesSlot, TellingStays DEF WritesSlot, Captures, worldVars, auditStore
<1>scanBegins. ASSUME ScanBegins PROVE ZeroHidesNothing'
  BY <1>scanBegins, TellingStays DEF ScanBegins, auditStore, worldVars, auditStore
<1>skips. ASSUME NEW f \in AuditFile, SkipsFile(f) PROVE ZeroHidesNothing'
  BY <1>skips, TellingStays DEF SkipsFile, AtFile, Omits, auditStore, worldVars, auditStore
<1>asks. ASSUME NEW f \in AuditFile, AsksWorker(f) PROVE ZeroHidesNothing'
  BY <1>asks, TellingStays DEF AsksWorker, AtFile, Omits, auditStore, worldVars, auditStore
<1>fails. ASSUME NEW f \in AuditFile, WorkerFails(f) PROVE ZeroHidesNothing'
  BY <1>fails, TellingStays DEF WorkerFails, Omits, auditStore, worldVars, auditStore
<1>answers. ASSUME NEW f \in AuditFile, WorkerAnswers(f) PROVE ZeroHidesNothing'
  BY <1>answers, TellingStays DEF WorkerAnswers, Omits, auditStore, worldVars, auditStore
<1>scanEnds. ASSUME ScanEnds PROVE ZeroHidesNothing'
  BY <1>scanEnds, TellingStays DEF ScanEnds, worldVars, auditStore
<1>scanTold. ASSUME ScanTold PROVE ZeroHidesNothing'
  <2> DEFINE n == Len(auditRuns)
             run == auditRuns[n]
  <2>1. /\ UNCHANGED <<corpus, marks, auditRuns>> /\ auditAt = "assess"
        /\ auditJob' = [kind |-> "scan", before |-> n, after |-> n,
                        code |-> IF ~run.complete THEN 2 ELSE IF Unsettled(run.hits) THEN 1 ELSE 0]
    BY <1>scanTold DEF ScanTold, Tells, auditStore, Last
  <2>2. n \in DOMAIN auditRuns
    <3>1. auditRuns # <<>> /\ auditRuns \in Seq(AuditRun)
      BY <2>1 DEF AuditInv, Scanning, AuditTypes, StoreTypes
    <3> QED BY <3>1, EmptySeq
  <2>3. auditJob'.before = n /\ auditJob'.after = n /\ (auditJob'.code = 0 => run.complete /\ ~Unsettled(run.hits))
    BY <2>1
  <2>4. CASE auditJob'.code = 0
    <3>1. run.hits = Truth(corpus.files, run, DOMAIN corpus.files)
      BY <2>2, <2>3, <2>4, CompleteSaysAll
    <3>2. \A h \in run.hits : \E e \in Marked(UnitId(h)) : e.label = "protection" /\ e.fact = h.fact
      BY <2>3, <2>4, SettledHits
    <3>3. \A h \in run.hits : Of(UnitId(h), run.hits) # {}
      BY DEF Of
    <3> HIDE DEF run, n
    <3> QED BY <2>1, <2>3, <3>1, <3>2, <3>3 DEF ZeroHidesNothing, Marked, run
  <2> QED BY <2>4 DEF ZeroHidesNothing
<1>finishes. ASSUME Finishes PROVE ZeroHidesNothing'
  BY <1>finishes, TellingStays DEF Finishes, auditStore, worldVars, auditStore
<1>compares. ASSUME NEW i \in DOMAIN auditRuns, NEW j \in DOMAIN auditRuns, Compares(i, j) PROVE ZeroHidesNothing'
  <2> DEFINE old == auditRuns[i].hits
             new == auditRuns[j].hits
  <2>1. /\ UNCHANGED <<corpus, marks, auditRuns>> /\ auditRuns[i].complete /\ auditRuns[j].complete
        /\ auditJob' = [kind |-> "compare", before |-> i, after |-> j,
              code |-> IF UnexplainedAdmission(old, new) \/ UnreviewedChange(old, new) \/ Unsettled(new) THEN 1 ELSE 0]
    BY <1>compares DEF Compares, Tells, auditStore, Comparable
  <2>2. /\ auditJob'.before = i /\ auditJob'.after = j
        /\ auditJob'.code = 0 => ~UnexplainedAdmission(old, new) /\ ~Unsettled(new)
    BY <2>1
  <2>3. CASE auditJob'.code = 0
    <3>1. /\ old = Truth(corpus.files, auditRuns[i], DOMAIN corpus.files)
          /\ new = Truth(corpus.files, auditRuns[j], DOMAIN corpus.files)
      BY <2>1, CompleteSaysAll
    <3>2. /\ \A h \in new : \E e \in Marked(UnitId(h)) : e.label = "protection" /\ e.fact = h.fact
          /\ \A h : Of(UnitId(h), new) = {} => \A e \in Marked(UnitId(h)) : e.label = "benign"
      BY <2>2, <2>3, SettledHits
    <3>3. \A h \in old : Of(UnitId(h), new) = {} => \E e \in Marked(UnitId(h)) : e.label = "benign"
      <4>1. \A h \in old : Of(UnitId(h), new) = {} => Marked(UnitId(h)) # {}
        BY <2>2, <2>3 DEF UnexplainedAdmission
      <4> QED BY <3>2, <4>1
    <3> HIDE DEF old, new
    <3> QED BY <2>1, <2>2, <3>1, <3>2, <3>3 DEF ZeroHidesNothing, Marked
  <2> QED BY <2>3 DEF ZeroHidesNothing
<1>annotates. ASSUME NEW i \in DOMAIN auditRuns, NEW h \in auditRuns[i].hits,
                    NEW label \in {"benign", "protection"}, Annotates(i, h, label) PROVE ZeroHidesNothing'
  BY <1>annotates, TellingStays DEF Annotates, Opens, worldVars, auditStore
<1>cleanupBegins. ASSUME CleanupBegins PROVE ZeroHidesNothing'
  BY <1>cleanupBegins, TellingStays DEF CleanupBegins, Opens, auditStore, worldVars, auditStore
<1>removes. ASSUME Removes PROVE ZeroHidesNothing'
  BY <1>removes, TellingStays DEF Removes, worldVars, auditStore
<1>removalSaved. ASSUME RemovalSaved PROVE ZeroHidesNothing'
  BY <1>removalSaved, TellingStays DEF RemovalSaved, worldVars, auditStore
<1>stops. ASSUME Stops PROVE ZeroHidesNothing'
  BY <1>stops, TellingStays DEF Stops, auditStore, worldVars, auditStore
<1>fileChanges. ASSUME NEW f \in AuditFile, FileChanges(f) PROVE ZeroHidesNothing'
  BY <1>fileChanges, TellingStays DEF FileChanges, Drifts, auditStore
<1>slotDamaged. ASSUME NEW f \in AuditFile, SlotDamaged(f) PROVE ZeroHidesNothing'
  BY <1>slotDamaged, TellingStays DEF SlotDamaged, Drifts, auditStore
<1>scannerChanges. ASSUME ScannerChanges PROVE ZeroHidesNothing'
  BY <1>scannerChanges, TellingStays DEF ScannerChanges, Drifts, auditStore
<1>secretsChange. ASSUME SecretsChange PROVE ZeroHidesNothing'
  BY <1>secretsChange, TellingStays DEF SecretsChange, Drifts, auditStore
<1>unchanged. CASE UNCHANGED auditVars
  BY <1>unchanged, TellingStays DEF auditVars, auditStore, worldVars, auditStore
<1> QED BY <1>begins, <1>keyWritten, <1>keyLinked, <1>keyPublished, <1>keyWithdrawn,
   <1>readsFirst,
     <1>readsAgain, <1>readsStill, <1>savesManifest, <1>makesRaw, <1>writesSlot, <1>scanBegins, <1>skips,
     <1>asks, <1>fails, <1>answers, <1>scanEnds, <1>scanTold, <1>finishes, <1>compares, <1>annotates,
     <1>cleanupBegins, <1>removes, <1>removalSaved, <1>stops, <1>fileChanges, <1>slotDamaged,
     <1>scannerChanges, <1>secretsChange, <1>unchanged DEF AuditNext

-----------------------------------------------------------------------------
LEMMA AuditStart == AuditInit => AuditInv
<1> SUFFICES ASSUME AuditInit PROVE AuditInv
  OBVIOUS
<1>1. PICK world \in AuditWorlds :
        auditSource = world.files /\ auditLeft = [runs |-> world.runs, drifts |-> world.drifts]
  BY DEF AuditInit
<1>2. world \in [files : [AuditFile -> AuditContents], runs : Nat, drifts : Nat]
  BY SelectionAssumption
<1>3. /\ corpus.files = <<>> /\ corpus.input = "none" /\ corpus.removed = FALSE /\ corpus = NoCorpus
      /\ marks.entries = {} /\ marks = NoMarks
  BY DEF AuditInit, NoCorpus, NoMarks
<1>4. DOMAIN corpus.files = {}
  BY <1>3
<1>5. StoreTypes
  <2>1. auditKey \in {"absent", "unpublished", "doubled", "ready"} /\ rawDir \in BOOLEAN
    BY DEF AuditInit
  <2>2. /\ corpus = [files |-> corpus.files, input |-> corpus.input, removed |-> corpus.removed]
        /\ marks = [secret |-> marks.secret, entries |-> marks.entries]
    BY DEF AuditInit, NoCorpus, NoMarks
  <2>3. auditRuns \in Seq(AuditRun)
    BY EmptySeq DEF AuditInit
  <2>4. \A e \in marks.entries : e.label \in {"benign", "protection"}
    BY <1>3
  <2> QED BY ONLY <1>3, <1>4, <2>1, <2>2, <2>3, <2>4 DEF StoreTypes
<1>6. JobTypes
  BY DEF AuditInit, JobTypes, AuditStep, Keying, Capturing, Storing, Evaluating
<1>7. WorldTypes
  BY <1>1, <1>2, DlpAuditAssumption DEF AuditInit, WorldTypes
<1>8. KeyStages /\ Stored /\ TwoReadings /\ Scanning
  BY <1>3, <1>4 DEF AuditInit, KeyStages, Stored, TwoReadings, Scanning, Keying, Capturing,
     Storing, Evaluating, OfFiles
<1>9. DlpAuditSafe
  <2>1. NothingIsLockedIn /\ RawIsInventoried /\ CaptureIsOneMoment
    BY <1>3, <1>4 DEF AuditInit, NothingIsLockedIn, RawIsInventoried, CaptureIsOneMoment, Accepted
  <2>2. RunIsTrue /\ RunsLoad
    BY DEF AuditInit, RunIsTrue, RunsLoad
  <2>3. MarksAreOfRuns /\ ZeroHidesNothing
    BY <1>3 DEF AuditInit, MarksAreOfRuns, ZeroHidesNothing
  <2> QED BY <2>1, <2>2, <2>3 DEF DlpAuditSafe
<1> QED BY <1>5, <1>6, <1>7, <1>8, <1>9 DEF AuditInv, AuditTypes

LEMMA AuditStepKeeps == AuditInv /\ [AuditNext]_auditVars => AuditInv'
<1> SUFFICES ASSUME AuditInv, [AuditNext]_auditVars PROVE AuditInv'
  OBVIOUS
<1>1. AuditTypes'
  BY AuditStoreTypes, AuditJobTypes, AuditWorldTypes DEF AuditInv, AuditTypes
<1>2. KeyStages' /\ NothingIsLockedIn' /\ Stored' /\ TwoReadings' /\ Scanning'
  BY AuditKeyStages, AuditStored, AuditTwoReadings, AuditScanning
<1>3. RawIsInventoried'
  BY <1>2 DEF Stored, RawIsInventoried
<1>4. CaptureIsOneMoment' /\ RunIsTrue' /\ RunsLoad' /\ MarksAreOfRuns' /\ ZeroHidesNothing'
  BY AuditMoment, AuditRuns, AuditMarks, AuditZero
<1> QED BY <1>1, <1>2, <1>3, <1>4 DEF AuditInv, DlpAuditSafe

(* The private audit keeps its promises whatever the selection, the          *)
(* scanners, the number of runs and the changes of the world are: nothing is  *)
(* locked in behind a key, raw text is inventoried, a captured corpus is of   *)
(* one moment, saved runs are true and readable, annotations are of them, and *)
(* an operation that ends with 0 hides nothing (dlp_audit/corpus.py,          *)
(* dlp_audit/scanner.py, dlp_audit/cli.py).                                   *)
THEOREM AuditHolds == AuditSpec => []DlpAuditSafe
<1>1. AuditInv => DlpAuditSafe
  BY DEF AuditInv
<1> QED BY <1>1, AuditStart, AuditStepKeeps, PTL DEF AuditSpec

-----------------------------------------------------------------------------
(* Revision capture (RevisionCapture).                                       *)

(* The lineage of a commit is what it begins with.                           *)
LEMMA LineagePart ==
  ASSUME NEW c \in Commit, NEW n \in 0..Len(c)
  PROVE  /\ SubSeq(c, 1, n) \in Commit /\ Len(SubSeq(c, 1, n)) = n
         /\ \A i \in 1..n : SubSeq(c, 1, n)[i] = c[i]
  BY SubSeqProperties DEF Commit

LEMMA LineageMember ==
  ASSUME NEW c \in Commit, NEW p
  PROVE  p \in Lineage(c) <=> /\ p \in Commit /\ Len(p) <= Len(c)
                              /\ \A i \in 1..Len(p) : p[i] = c[i]
<1>0. Len(c) \in Nat
  BY DEF Commit
<1>1. ASSUME p \in Lineage(c)
      PROVE  p \in Commit /\ Len(p) <= Len(c) /\ \A i \in 1..Len(p) : p[i] = c[i]
  <2>1. PICK n \in 0..Len(c) : p = SubSeq(c, 1, n)
    BY SMTT(60), <1>1 DEF Lineage
  <2> QED BY <1>0, <2>1, LineagePart
<1>2. ASSUME p \in Commit, Len(p) <= Len(c), \A i \in 1..Len(p) : p[i] = c[i]
      PROVE  p \in Lineage(c)
  <2>1. Len(p) \in 0..Len(c)
    BY <1>0, <1>2 DEF Commit
  <2>2. SubSeq(c, 1, Len(p)) \in Commit /\ Len(SubSeq(c, 1, Len(p))) = Len(p)
    BY <2>1, LineagePart
  <2>3. \A i \in 1..Len(p) : SubSeq(c, 1, Len(p))[i] = p[i]
    BY <2>1, <1>2, LineagePart
  <2>4. p = SubSeq(c, 1, Len(p))
    BY <1>2, <2>2, <2>3, SeqEqual DEF Commit
  <2> QED BY <2>1, <2>4 DEF Lineage
<1> QED BY <1>1, <1>2

LEMMA PrefixIsLineage ==
  ASSUME NEW p \in Commit, NEW c \in Commit
  PROVE  IsPrefix(p, c) <=> p \in Lineage(c)
<1>0. Len(p) \in Nat /\ Len(c) \in Nat
  BY DEF Commit
<1>1. SubSeq(p, 1, Len(p)) = p
  BY SMTT(60), <1>0, LineagePart, SeqEqual DEF Commit
<1>2. ASSUME IsPrefix(p, c) PROVE p \in Lineage(c)
  <2>1. p = SubSeq(c, 1, Len(p)) /\ Len(p) \in 0..Len(c)
    BY <1>0, <1>1, <1>2 DEF IsPrefix
  <2> QED BY <2>1 DEF Lineage
<1>3. ASSUME p \in Lineage(c) PROVE IsPrefix(p, c)
  <2>1. PICK n \in 0..Len(c) : p = SubSeq(c, 1, n)
    BY <1>3 DEF Lineage
  <2>2. Len(p) = n
    BY <2>1, LineagePart
  <2> QED BY <1>0, <1>1, <2>1, <2>2 DEF IsPrefix
<1> QED BY <1>2, <1>3

LEMMA LineageFacts ==
  /\ \A c \in Commit : c \in Lineage(c) /\ Lineage(c) \subseteq Commit
  /\ \A c \in Commit : \A q \in Lineage(c) : \A p \in Lineage(q) : p \in Lineage(c)
  /\ \A c \in Commit : \A p, q \in Lineage(c) : Len(p) <= Len(q) => p \in Lineage(q)
  /\ \A c \in Commit : \A p \in Lineage(c) : Len(p) \in Nat /\ Len(p) <= Len(c)
<1>1. \A c \in Commit : Len(c) \in Nat
  BY DEF Commit
<1>2. ASSUME NEW c \in Commit
      PROVE  c \in Lineage(c) /\ Lineage(c) \subseteq Commit
  BY <1>1, LineageMember
<1>3. ASSUME NEW c \in Commit, NEW q \in Lineage(c), NEW p \in Lineage(q)
      PROVE  p \in Lineage(c)
  <2>1. q \in Commit /\ Len(q) <= Len(c) /\ \A i \in 1..Len(q) : q[i] = c[i]
    BY LineageMember
  <2>2. p \in Commit /\ Len(p) <= Len(q) /\ \A i \in 1..Len(p) : p[i] = q[i]
    BY <2>1, LineageMember
  <2>3. \A i \in 1..Len(p) : p[i] = c[i]
    BY <1>1, <2>1, <2>2
  <2> QED BY <1>1, <2>1, <2>2, <2>3, LineageMember
<1>4. ASSUME NEW c \in Commit, NEW p \in Lineage(c), NEW q \in Lineage(c), Len(p) <= Len(q)
      PROVE  p \in Lineage(q)
  <2>1. q \in Commit /\ \A i \in 1..Len(q) : q[i] = c[i]
    BY LineageMember
  <2>2. p \in Commit /\ \A i \in 1..Len(p) : p[i] = c[i]
    BY LineageMember
  <2>3. \A i \in 1..Len(p) : p[i] = q[i]
    BY <1>1, <1>4, <2>1, <2>2
  <2> QED BY <1>4, <2>1, <2>2, <2>3, LineageMember
<1>5. ASSUME NEW c \in Commit, NEW p \in Lineage(c)
      PROVE  Len(p) \in Nat /\ Len(p) <= Len(c)
  BY <1>1, LineageMember
<1> QED BY <1>2, <1>3, <1>4, <1>5

(* A line that goes on still begins with what it began with.                 *)
LEMMA AppendingKeeps ==
  ASSUME NEW c \in Commit, NEW more \in Commit
  PROVE  /\ c \o more \in Commit
         /\ \A p \in Commit : IsPrefix(p, c) => IsPrefix(p, c \o more)
<1>1. c \o more \in Commit /\ Len(c) \in Nat /\ Len(more) \in Nat /\ Len(c \o more) = Len(c) + Len(more)
  BY DEF Commit
<1>2. \A i \in 1..Len(c) : (c \o more)[i] = c[i]
  BY <1>1 DEF Commit
<1>3. c \in Lineage(c \o more)
  <2> DEFINE longer == c \o more
  <2>1. longer \in Commit /\ Len(c) <= Len(longer) /\ \A i \in 1..Len(c) : c[i] = longer[i]
    BY <1>1, <1>2
  <2> HIDE DEF longer
  <2>2. c \in Lineage(longer)
    BY <2>1, LineageMember
  <2> QED BY <2>2 DEF longer
<1> QED BY <1>1, <1>3, PrefixIsLineage, LineageFacts

(* Deepening leaves nothing of a line missing without a cut above it.        *)
LEMMA DeepeningCovers ==
  ASSUME Covered, NEW c \in Commit, NEW depth \in Nat \ {0}, clone' = Deepened(c, depth)
  PROVE  /\ Covered' /\ c \in clone'.have
         /\ \A q \in Lineage(c) : Len(q) > Len(c) - depth + 1 => q \in clone'.have \ clone'.cut
<1> DEFINE new == Newest(c, depth)
           bottom == {p \in Newest(c, depth) : Len(p) = Len(c) - depth + 1 /\ p # <<>>}
<1>0. Len(c) \in Nat /\ depth \in Nat /\ depth # 0
  BY DEF Commit
<1>1. clone'.have = clone.have \cup new /\ clone'.cut = (clone.cut \ new) \cup bottom
  BY DEF Deepened
<1>2. \A p : p \in new <=> p \in Lineage(c) /\ Len(p) > Len(c) - depth
  BY DEF Newest
<1>3. \A p : p \in bottom <=> p \in new /\ Len(p) = Len(c) - depth + 1 /\ p # <<>>
  OBVIOUS
<1> HIDE DEF new, bottom
<1>4. clone'.cut \subseteq clone'.have /\ clone'.have \subseteq Commit
  BY <1>1, <1>2, <1>3, LineageFacts DEF Covered
<1>5. ASSUME NEW d \in clone'.have, NEW p \in Lineage(d), p \notin clone'.have
      PROVE  \E q \in clone'.cut : p \in Lineage(q) /\ q \in Lineage(d)
  <2>1. ASSUME NEW e \in new, NEW r \in Lineage(e), r \notin clone'.have
        PROVE  \E q \in clone'.cut : r \in Lineage(q) /\ q \in Lineage(e)
    <3>1. e \in Lineage(c) /\ Len(e) > Len(c) - depth /\ e \in Commit /\ Len(e) \in Nat /\ Len(e) <= Len(c)
      BY <1>0, <1>2, LineageFacts
    <3>2. r \in Lineage(c) /\ r \in Commit /\ Len(r) \in Nat
      BY <3>1, LineageFacts
    <3>3. Len(r) <= Len(c) - depth
      BY <1>0, <1>1, <1>2, <2>1, <3>2
    <3>4. Len(c) - depth + 1 \in 0..Len(c)
      BY <1>0, <3>2, <3>3
    <3> DEFINE b == SubSeq(c, 1, Len(c) - depth + 1)
    <3>5. b \in Lineage(c) /\ b \in Commit /\ Len(b) = Len(c) - depth + 1
      BY <3>4, LineagePart DEF Lineage
    <3> HIDE DEF b
    <3>6. b # <<>>
      BY <1>0, <3>2, <3>3, <3>5
    <3>7. b \in bottom
      BY <1>0, <1>2, <1>3, <3>5, <3>6
    <3>8. r \in Lineage(b) /\ b \in Lineage(e)
      BY <1>0, <3>1, <3>2, <3>3, <3>5, LineageFacts
    <3> QED BY <1>1, <3>7, <3>8
  <2>2. CASE d \in new
    BY <1>5, <2>1, <2>2
  <2>3. CASE d \in clone.have
    <3>1. PICK q \in clone.cut : p \in Lineage(q) /\ q \in Lineage(d)
      BY <1>1, <1>5, <2>3 DEF Covered, CutBelow
    <3>2. CASE q \notin new
      BY <1>1, <3>1, <3>2
    <3>3. CASE q \in new
      <4>1. PICK r \in clone'.cut : p \in Lineage(r) /\ r \in Lineage(q)
        BY <1>5, <2>1, <3>1, <3>3
      <4>2. d \in Commit
        BY <2>3 DEF Covered
      <4> QED BY <3>1, <4>1, <4>2, LineageFacts
    <3> QED BY <3>2, <3>3
  <2> QED BY <1>1, <2>2, <2>3
<1>6. c \in clone'.have
  BY <1>0, <1>1, <1>2, LineageFacts
<1>7. \A q \in Lineage(c) : Len(q) > Len(c) - depth + 1 => q \in clone'.have \ clone'.cut
  BY <1>0, <1>1, <1>2, <1>3, LineageFacts
<1> QED BY <1>4, <1>5, <1>6, <1>7 DEF Covered, CutBelow

(* What git says of two commits: a line that is seen is the line, a line that *)
(* is not is another one if nothing is cut, and behind a cut nothing is said. *)
LEMMA AncestryIsTrue ==
  ASSUME Covered, NEW older \in Commit, NEW newer \in Commit
  PROVE  /\ IsAncestor(older, newer) \in {"yes", "no", "shallow"}
         /\ IsAncestor(older, newer) = "yes" => IsPrefix(older, newer)
         /\ IsAncestor(older, newer) = "no" /\ newer \in clone.have => ~IsPrefix(older, newer)
<1>1. LineSeen(newer) \subseteq Lineage(newer)
  BY DEF LineSeen
<1>2. ASSUME IsAncestor(older, newer) = "yes" PROVE IsPrefix(older, newer)
  BY <1>1, <1>2, PrefixIsLineage DEF IsAncestor
<1>3. ASSUME IsAncestor(older, newer) = "no", newer \in clone.have PROVE ~IsPrefix(older, newer)
  <2>1. clone.cut = {} /\ older \notin LineSeen(newer)
    BY <1>3 DEF IsAncestor
  <2>2. Lineage(newer) \subseteq clone.have
    BY <1>3, <2>1 DEF Covered, CutBelow
  <2>3. older \notin Lineage(newer)
    BY <2>1, <2>2 DEF LineSeen
  <2> QED BY <2>3, PrefixIsLineage
<1> QED BY <1>2, <1>3 DEF IsAncestor

(* A fetch of enough of the line shows an ancestor that is near.             *)
LEMMA NearIsSeen ==
  ASSUME NEW older \in Commit, NEW newer \in Commit, IsPrefix(older, newer),
         Len(newer) - Len(older) < FetchDepth,
         \A q \in Lineage(newer) : Len(q) > Len(newer) - FetchDepth + 1 => q \in clone.have \ clone.cut
  PROVE  IsAncestor(older, newer) = "yes"
<1>1. Len(older) \in Nat /\ Len(newer) \in Nat /\ FetchDepth \in Nat
  BY RevisionAssumption DEF Commit
<1>2. older \in Lineage(newer)
  BY PrefixIsLineage
<1>3. \A q \in Lineage(newer) : Len(q) > Len(older) => q \in clone.have \ clone.cut
  BY <1>1, LineageFacts
<1> QED BY <1>2, <1>3 DEF IsAncestor, LineSeen

(* The fetches of the two jobs.                                              *)
LEMMA FetchFacts ==
  /\ DOMAIN FetchSteps = {"fetchTarget", "fetchPolicy", "fetchOld", "fetchNew", "fetchHistory"}
  /\ FetchSteps["fetchTarget"] = [commit |-> captured.targetHead, next |-> "fetchPolicy", depth |-> 1]
  /\ FetchSteps["fetchPolicy"] = [commit |-> captured.policy, next |-> "rules", depth |-> 1]
  /\ FetchSteps["fetchOld"] = [commit |-> identity.policy, next |-> "fetchNew", depth |-> 1]
  /\ FetchSteps["fetchNew"] = [commit |-> captured.policy, next |-> "prove", depth |-> 1]
  /\ FetchSteps["fetchHistory"] = [commit |-> captured.policy, next |-> "proveAgain", depth |-> FetchDepth]
BY DEF FetchSteps

LEMMA PartsOfReading ==
  DOMAIN NothingRead = {"head", "target", "refs", "version", "targetHead", "targetProtected",
                        "policyBranch", "policy", "policyProtected"}
BY DEF NothingRead

LEMMA SetupFacts ==
  ASSUME RevisionTypes
  PROVE  /\ origin.mode \in {"auto", "required", "unprotected"} /\ origin.sameJob \in BOOLEAN
         /\ \A b \in DOMAIN branches : branches[b] \in [head : Commit, protected : BOOLEAN]
BY SetupAssumption DEF RevisionTypes

(* Every step of other people makes a commit of a commit.                    *)
LEMMA StepsAreCommits ==
  /\ \A c \in Commit : Append(c, "s") \in Commit /\ Append(c, "r") \in Commit /\ Append(c, "w") \in Commit
  /\ \A n \in Nat : [i \in 1..n |-> "t"] \in Commit
<1>1. "s" \in CommitSteps /\ "r" \in CommitSteps /\ "w" \in CommitSteps /\ "t" \in CommitSteps
  BY RevisionAssumption
<1>2. \A S : \A c \in Seq(S) : \A e \in S : Append(c, e) \in Seq(S)
  BY AppendProperties
<1>3. \A S : \A e \in S : \A n \in Nat : [i \in 1..n |-> e] \in Seq(S)
  OBVIOUS
<1> QED BY <1>1, <1>2, <1>3 DEF Commit

(* What other people do changes the forge and no reading of it; while they    *)
(* are quiet, no more than the head of the default branch, forward.          *)
LEMMA OthersOnlyMove ==
  ASSUME RevisionTypes, Moments, OthersMove
  PROVE  /\ UNCHANGED <<origin, readFaults, clone, captured, identity, handover, verdict, rcStep>>
         /\ moves \subseteq moves' /\ moments \subseteq moments' /\ rcStep # "posted"
         /\ DOMAIN branches' = DOMAIN branches /\ liveMr.version <= liveMr'.version
         /\ RevisionTypes'
         /\ moments' \subseteq moments \cup {<<JobAt(rcStep), liveMr'>>}
         /\ \/ UNCHANGED <<liveMr, moments>>
            \/ <<JobAt(rcStep), liveMr'>> \in moments'
         /\ \A b \in DOMAIN branches : <<"protect", b>> \notin moves' => branches'[b].protected = branches[b].protected
         /\ Quiet' => /\ Quiet /\ UNCHANGED defaultBranch /\ (~liveMr.pending => UNCHANGED liveMr)
                      /\ \A b \in DOMAIN branches : b # defaultBranch => branches'[b] = branches[b]
                      /\ Trunk'.protected = Trunk.protected
                      /\ \A p \in Commit : IsPrefix(p, Trunk.head) => IsPrefix(p, Trunk'.head)
<1> DEFINE Goal ==
         /\ UNCHANGED <<origin, readFaults, clone, captured, identity, handover, verdict, rcStep>>
         /\ moves \subseteq moves' /\ moments \subseteq moments' /\ rcStep # "posted"
         /\ DOMAIN branches' = DOMAIN branches /\ liveMr.version <= liveMr'.version
         /\ RevisionTypes'
         /\ moments' \subseteq moments \cup {<<JobAt(rcStep), liveMr'>>}
         /\ \/ UNCHANGED <<liveMr, moments>>
            \/ <<JobAt(rcStep), liveMr'>> \in moments'
         /\ \A b \in DOMAIN branches : <<"protect", b>> \notin moves' => branches'[b].protected = branches[b].protected
         /\ Quiet' => /\ Quiet /\ UNCHANGED defaultBranch /\ (~liveMr.pending => UNCHANGED liveMr)
                      /\ \A b \in DOMAIN branches : b # defaultBranch => branches'[b] = branches[b]
                      /\ Trunk'.protected = Trunk.protected
                      /\ \A p \in Commit : IsPrefix(p, Trunk.head) => IsPrefix(p, Trunk'.head)
<1> SUFFICES Goal
  OBVIOUS
<1>1. ASSUME NEW mr, MergeRequestBecomes(mr), MrTyped(mr), liveMr.version <= mr.version, rcStep # "posted",
             moves \subseteq moves',
             Quiet' => liveMr.pending /\ moves' = moves
      PROVE  Goal
  <2>1. /\ liveMr' = mr /\ moments' = moments \cup {<<JobAt(rcStep), mr>>}
        /\ UNCHANGED <<origin, branches, defaultBranch, readFaults, clone, captured, identity, handover, verdict,
                       rcStep>>
    BY <1>1 DEF MergeRequestBecomes
  <2>2. RevisionTypes'
    BY <1>1, <2>1 DEF RevisionTypes, MrTyped, ReadingTyped
  <2> QED BY <1>1, <2>1, <2>2 DEF Quiet, Trunk, JobAt
<1>2. ASSUME NEW b \in DOMAIN branches, NEW branch \in [head : Commit, protected : BOOLEAN],
             BranchBecomes(b, branch), rcStep # "posted",
             moves \subseteq moves', branch.protected # branches[b].protected => <<"protect", b>> \in moves',
             Quiet' => /\ Quiet /\ b = defaultBranch /\ branch.protected = branches[b].protected
                       /\ \A p \in Commit : IsPrefix(p, branches[b].head) => IsPrefix(p, branch.head)
      PROVE  Goal
  <2>1. /\ branches' = [branches EXCEPT ![b] = branch]
        /\ UNCHANGED <<origin, liveMr, defaultBranch, readFaults, clone, captured, identity, handover, verdict,
                       rcStep, moments>>
    BY <1>2 DEF BranchBecomes
  <2>2. DOMAIN branches' = DOMAIN branches /\ branches'[b] = branch
        /\ \A c \in DOMAIN branches : c # b => branches'[c] = branches[c]
    BY <2>1
  <2>3. RevisionTypes'
    BY <1>2, <2>1, <2>2 DEF RevisionTypes, MrTyped, ReadingTyped
  <2>4. liveMr.version <= liveMr'.version
    BY <2>1 DEF RevisionTypes, MrTyped
  <2> QED BY <1>2, <2>1, <2>2, <2>3, <2>4 DEF Trunk
<1>3. CASE Pushed
  <2>1. /\ rcStep # "posted" /\ moves' = moves \cup {<<"push", "source">>}
    BY <1>3 DEF Pushed, OtherDoes
  <2>2. PICK head \in {Append(liveMr.head, "s"), Append(Front(liveMr.head), "r"),
                       Append(branches[liveMr.target].head, "s")} :
          MergeRequestBecomes([liveMr EXCEPT !.head = head, !.pending = TRUE])
    BY <1>3 DEF Pushed
  <2>3. head \in Commit
    <3>1. liveMr.head \in Commit /\ branches[liveMr.target].head \in Commit
      BY SetupFacts DEF RevisionTypes, MrTyped
    <3>2. \A c \in Commit : Append(c, "s") \in Commit /\ Append(c, "r") \in Commit
      BY StepsAreCommits
    <3>3. Front(liveMr.head) \in Commit
      BY <3>1, SubSeqProperties DEF Commit, Front
    <3> QED BY <2>2, <3>1, <3>2, <3>3
  <2>4. MrTyped([liveMr EXCEPT !.head = head, !.pending = TRUE])
    BY <2>3 DEF RevisionTypes, MrTyped
  <2>5. ~Quiet'
    BY <2>1 DEF Quiet
  <2>6. liveMr.version <= [liveMr EXCEPT !.head = head, !.pending = TRUE].version
    BY DEF RevisionTypes, MrTyped
  <2> QED BY <1>1, <2>1, <2>2, <2>4, <2>5, <2>6
<1>4. CASE DiffReady
  <2> DEFINE mr == [liveMr EXCEPT !.pending = FALSE, !.version = @ + 1, !.refs = DiffRefs(liveMr.head, liveMr.target)]
  <2>1. liveMr.pending /\ rcStep # "posted" /\ MergeRequestBecomes(mr) /\ moves' = moves
    BY <1>4 DEF DiffReady
  <2>2. MrTyped(mr) /\ liveMr.version <= mr.version
    BY DEF RevisionTypes, MrTyped, DiffRefs
  <2> HIDE DEF mr
  <2> QED BY <1>1, <2>1, <2>2
<1>5. CASE Retargeted
  <2>1. PICK b \in DOMAIN branches \ {liveMr.target} :
          /\ OtherDoes("retarget", b) /\ liveMr.life = "opened"
          /\ MergeRequestBecomes([liveMr EXCEPT !.target = b, !.version = @ + 1, !.refs = DiffRefs(liveMr.head, b)])
    BY <1>5 DEF Retargeted
  <2> DEFINE mr == [liveMr EXCEPT !.target = b, !.version = @ + 1, !.refs = DiffRefs(liveMr.head, b)]
  <2>2. MrTyped(mr) /\ liveMr.version <= mr.version
    BY DEF RevisionTypes, MrTyped, DiffRefs
  <2>3. rcStep # "posted" /\ moves' = moves \cup {<<"retarget", b>>}
    BY <2>1 DEF OtherDoes
  <2>4. ~Quiet'
    BY <2>3 DEF Quiet
  <2> HIDE DEF mr
  <2>5. MergeRequestBecomes(mr)
    BY <2>1 DEF mr
  <2> QED BY <1>1, <2>2, <2>3, <2>4, <2>5
<1>6. CASE LifeChanged
  <2>1. PICK life \in {"merged", "closed", "opened"} \ {liveMr.life} :
          OtherDoes("life", life) /\ MergeRequestBecomes([liveMr EXCEPT !.life = life])
    BY <1>6 DEF LifeChanged
  <2>2. MrTyped([liveMr EXCEPT !.life = life]) /\ liveMr.version <= [liveMr EXCEPT !.life = life].version
    BY DEF RevisionTypes, MrTyped
  <2>3. rcStep # "posted" /\ moves' = moves \cup {<<"life", life>>}
    BY <2>1 DEF OtherDoes
  <2>4. ~Quiet'
    BY <2>3 DEF Quiet
  <2> QED BY <1>1, <2>1, <2>2, <2>3, <2>4
<1>7. CASE BranchMoved
  <2>1. PICK b \in DOMAIN branches :
          \/ /\ OtherDoes("advance", b)
             /\ \E n \in {1, FetchDepth} :
                  BranchBecomes(b, [branches[b] EXCEPT !.head = @ \o [i \in 1..n |-> "t"]])
          \/ /\ OtherDoes("rewrite", b)
             /\ BranchBecomes(b, [branches[b] EXCEPT !.head = Append(Front(@), "w")])
          \/ /\ OtherDoes("protect", b)
             /\ BranchBecomes(b, [branches[b] EXCEPT !.protected = ~@])
    BY <1>7 DEF BranchMoved
  <2>2. branches[b] \in [head : Commit, protected : BOOLEAN]
    BY SetupFacts
  <2>3. ASSUME OtherDoes("advance", b), NEW n \in {1, FetchDepth},
               BranchBecomes(b, [branches[b] EXCEPT !.head = @ \o [i \in 1..n |-> "t"]])
        PROVE  Goal
    <3> DEFINE more == [i \in 1..n |-> "t"]
               branch == [branches[b] EXCEPT !.head = @ \o more]
    <3>1. rcStep # "posted" /\ moves' = moves \cup {<<"advance", b>>}
      BY <2>3 DEF OtherDoes
    <3>2. more \in Commit
      BY RevisionAssumption, StepsAreCommits
    <3> HIDE DEF more
    <3>3. /\ branch \in [head : Commit, protected : BOOLEAN] /\ branch.protected = branches[b].protected
          /\ \A p \in Commit : IsPrefix(p, branches[b].head) => IsPrefix(p, branch.head)
      <4>1. branch.head = branches[b].head \o more /\ branch.protected = branches[b].protected
        BY <2>2
      <4>2. branches[b].head \in Commit /\ branches[b].protected \in BOOLEAN
        BY <2>2
      <4>3. branches[b].head \o more \in Commit
        BY <3>2, <4>2, AppendingKeeps
      <4>4. branch \in [head : Commit, protected : BOOLEAN]
        BY <2>2, <4>3
      <4> QED BY <3>2, <4>1, <4>2, <4>4, AppendingKeeps
    <3>4. BranchBecomes(b, branch)
      BY <2>3 DEF more
    <3>5. Quiet' => Quiet /\ b = defaultBranch
      BY <3>1, <3>4 DEF Quiet, BranchBecomes
    <3> HIDE DEF branch
    <3> QED BY <1>2, <3>1, <3>3, <3>4, <3>5
  <2>4. ASSUME OtherDoes("rewrite", b), BranchBecomes(b, [branches[b] EXCEPT !.head = Append(Front(@), "w")])
        PROVE  Goal
    <3> DEFINE branch == [branches[b] EXCEPT !.head = Append(Front(@), "w")]
    <3>1. rcStep # "posted" /\ moves' = moves \cup {<<"rewrite", b>>}
      BY <2>4 DEF OtherDoes
    <3>2. Front(branches[b].head) \in Commit
      BY <2>2, SubSeqProperties DEF Commit, Front
    <3>3. branch \in [head : Commit, protected : BOOLEAN] /\ branch.protected = branches[b].protected
      BY <2>2, <3>2, StepsAreCommits
    <3>4. ~Quiet'
      BY <3>1 DEF Quiet
    <3> HIDE DEF branch
    <3>5. BranchBecomes(b, branch)
      BY <2>4 DEF branch
    <3> QED BY <1>2, <3>1, <3>3, <3>4, <3>5
  <2>5. ASSUME OtherDoes("protect", b), BranchBecomes(b, [branches[b] EXCEPT !.protected = ~@])
        PROVE  Goal
    <3> DEFINE branch == [branches[b] EXCEPT !.protected = ~@]
    <3>1. rcStep # "posted" /\ moves' = moves \cup {<<"protect", b>>}
      BY <2>5 DEF OtherDoes
    <3>2. branch \in [head : Commit, protected : BOOLEAN]
      BY <2>2
    <3>3. ~Quiet'
      BY <3>1 DEF Quiet
    <3> HIDE DEF branch
    <3>4. BranchBecomes(b, branch)
      BY <2>5 DEF branch
    <3> QED BY <1>2, <3>1, <3>2, <3>3, <3>4
  <2> QED BY <2>1, <2>3, <2>4, <2>5
<1>8. CASE DefaultChanged
  <2>1. PICK b \in DOMAIN branches \ {defaultBranch} :
          /\ OtherDoes("default", b) /\ defaultBranch' = b
          /\ UNCHANGED <<origin, liveMr, branches, readFaults, clone, captured, identity, handover, verdict, rcStep,
                         moments>>
    BY <1>8 DEF DefaultChanged
  <2>2. rcStep # "posted" /\ moves' = moves \cup {<<"default", b>>}
    BY <2>1 DEF OtherDoes
  <2>3. ~Quiet'
    BY <2>2 DEF Quiet
  <2>4. RevisionTypes'
    BY <2>1 DEF RevisionTypes, MrTyped, ReadingTyped
  <2>5. liveMr.version <= liveMr'.version
    BY <2>1 DEF RevisionTypes, MrTyped
  <2> QED BY <2>1, <2>2, <2>3, <2>4, <2>5
<1> HIDE DEF Goal
<1> QED BY <1>3, <1>4, <1>5, <1>6, <1>7, <1>8 DEF OthersMove

(* How a reading ends in either job.                                         *)
LEMMA EndOfReading ==
  ASSUME NEW reason \in {"stale", "terminal", "unavailable"}, AcquisitionEnds(reason)
  PROVE  /\ UNCHANGED <<captured, identity>>
         /\ \/ rcStep \notin PostingSteps /\ handover' = reason /\ rcStep' = "post" /\ UNCHANGED verdict
            \/ /\ rcStep \in PostingSteps /\ rcStep' = "posted" /\ UNCHANGED handover
               /\ verdict' \in {"source_changed", "terminal", "provider_unavailable"}
BY DEF AcquisitionEnds, ReviewEnds, PostingEnds, PostingReason, JobAt

(* What each request of a reading does, in either job.                       *)
LEMMA MergeRequestAnswer ==
  ASSUME ReadMergeRequest
  PROVE  /\ rcStep \in {"mr", "postMr"} /\ UNCHANGED <<origin, forgeState, readFaults, clone>>
         /\ \/ AcquisitionEnds("stale") /\ liveMr.head # ReviewedHead
            \/ AcquisitionEnds("terminal") /\ liveMr.head = ReviewedHead /\ liveMr.life # "opened"
            \/ AcquisitionEnds("unavailable") /\ liveMr.pending
            \/ /\ liveMr.head = ReviewedHead /\ liveMr.life = "opened" /\ ~liveMr.pending
               /\ DOMAIN captured' = DOMAIN NothingRead
               /\ captured'.head = liveMr.head /\ captured'.target = liveMr.target /\ captured'.refs = liveMr.refs
               /\ captured'.version = 0 /\ captured'.policy = <<>> /\ captured'.targetHead = <<>>
               /\ captured'.targetProtected = FALSE /\ captured'.policyProtected = FALSE
               /\ rcStep' = (IF rcStep = "mr" THEN "versions" ELSE "postVersions")
               /\ UNCHANGED <<identity, handover, verdict>>
<1>1. /\ rcStep \in {"mr", "postMr"} /\ UNCHANGED <<origin, forgeState, readFaults, clone>>
      /\ Next2(VersionsStep) = (IF rcStep = "mr" THEN "versions" ELSE "postVersions")
  BY DEF ReadMergeRequest, In, MrStep, Next2, VersionsStep, JobAt, PostingSteps, OnlyReads
<1> DEFINE read == [NothingRead EXCEPT !.head = liveMr.head, !.target = liveMr.target, !.refs = liveMr.refs]
<1>2. /\ DOMAIN read = DOMAIN NothingRead /\ read.head = liveMr.head /\ read.target = liveMr.target
      /\ read.refs = liveMr.refs /\ read.version = 0 /\ read.policy = <<>> /\ read.targetHead = <<>>
      /\ read.targetProtected = FALSE /\ read.policyProtected = FALSE
  BY DEF NothingRead
<1> HIDE DEF read
<1>3. \/ AcquisitionEnds("stale") /\ liveMr.head # ReviewedHead
      \/ AcquisitionEnds("terminal") /\ liveMr.head = ReviewedHead /\ liveMr.life # "opened"
      \/ AcquisitionEnds("unavailable") /\ liveMr.pending
      \/ /\ liveMr.head = ReviewedHead /\ liveMr.life = "opened" /\ ~liveMr.pending
         /\ captured' = read /\ rcStep' = Next2(VersionsStep) /\ UNCHANGED <<identity, handover, verdict>>
  BY DEF ReadMergeRequest, read
<1> QED BY <1>1, <1>2, <1>3

LEMMA VersionsAnswer ==
  ASSUME ReadVersions, ReadingTyped(captured)
  PROVE  /\ rcStep \in {"versions", "postVersions"} /\ UNCHANGED <<origin, forgeState, readFaults, clone>>
         /\ \/ AcquisitionEnds("unavailable") /\ liveMr.refs # captured.refs
            \/ /\ liveMr.refs = captured.refs /\ captured' = [captured EXCEPT !.version = liveMr.version]
               /\ rcStep' = (IF rcStep = "versions" THEN "target" ELSE "postTarget")
               /\ UNCHANGED <<identity, handover, verdict>>
BY DEF ReadVersions, In, VersionsStep, Next2, TargetStep, JobAt, PostingSteps, OnlyReads

LEMMA TargetAnswer ==
  ASSUME ReadTarget, ReadingTyped(captured)
  PROVE  /\ rcStep \in {"target", "postTarget"} /\ UNCHANGED <<origin, forgeState, readFaults, clone>>
         /\ LET b == branches[captured.target] IN
            \/ AcquisitionEnds("unavailable") /\ ~b.protected /\ origin.mode = "required"
            \/ /\ b.protected \/ origin.mode # "required"
               /\ DOMAIN captured' = DOMAIN NothingRead
               /\ captured'.head = captured.head /\ captured'.target = captured.target
               /\ captured'.refs = captured.refs /\ captured'.version = captured.version
               /\ captured'.targetHead = b.head /\ captured'.targetProtected = b.protected
               /\ UNCHANGED <<identity, handover, verdict>>
               /\ \/ /\ ~b.protected /\ origin.mode = "auto"
                     /\ captured'.policy = captured.policy /\ captured'.policyProtected = captured.policyProtected
                     /\ rcStep' = (IF rcStep = "target" THEN "project" ELSE "postProject")
                  \/ /\ ~(~b.protected /\ origin.mode = "auto")
                     /\ captured'.policyBranch = captured.target /\ captured'.policy = b.head
                     /\ captured'.policyProtected = b.protected
                     /\ rcStep' = (IF rcStep = "target" THEN "refs" ELSE "compare")
<1> DEFINE b == branches[captured.target]
           target == [captured EXCEPT !.targetHead = b.head, !.targetProtected = b.protected]
           whole == [target EXCEPT !.policyBranch = captured.target, !.policy = b.head, !.policyProtected = b.protected]
<1>1. /\ rcStep \in {"target", "postTarget"} /\ UNCHANGED <<origin, forgeState, readFaults, clone>>
      /\ Next2(ProjectStep) = (IF rcStep = "target" THEN "project" ELSE "postProject")
      /\ Next2(ReadStep) = (IF rcStep = "target" THEN "refs" ELSE "compare")
  BY DEF ReadTarget, In, TargetStep, Next2, ProjectStep, ReadStep, JobAt, PostingSteps, OnlyReads
<1>2. \/ AcquisitionEnds("unavailable") /\ ~b.protected /\ origin.mode = "required"
      \/ /\ ~(~b.protected /\ origin.mode = "required") /\ UNCHANGED <<identity, handover, verdict>>
         /\ \/ ~b.protected /\ origin.mode = "auto" /\ captured' = target /\ rcStep' = Next2(ProjectStep)
            \/ ~(~b.protected /\ origin.mode = "auto") /\ captured' = whole /\ rcStep' = Next2(ReadStep)
  BY DEF ReadTarget
<1>3. /\ DOMAIN target = DOMAIN NothingRead /\ target.head = captured.head /\ target.target = captured.target
      /\ target.refs = captured.refs /\ target.version = captured.version /\ target.targetHead = b.head
      /\ target.targetProtected = b.protected /\ target.policy = captured.policy
      /\ target.policyProtected = captured.policyProtected
  BY PartsOfReading DEF ReadingTyped
<1> HIDE DEF target
<1>4. /\ DOMAIN whole = DOMAIN NothingRead /\ whole.head = captured.head /\ whole.target = captured.target
      /\ whole.refs = captured.refs /\ whole.version = captured.version /\ whole.targetHead = b.head
      /\ whole.targetProtected = b.protected /\ whole.policyBranch = captured.target
      /\ whole.policy = b.head /\ whole.policyProtected = b.protected
  BY <1>3, PartsOfReading
<1> HIDE DEF whole, b
<1>5. LET c == branches[captured.target] IN c = b
  BY DEF b
<1> QED BY <1>1, <1>2, <1>3, <1>4 DEF b

LEMMA ProjectAnswer ==
  ASSUME ReadProject
  PROVE  /\ rcStep \in {"project", "postProject"} /\ UNCHANGED <<origin, forgeState, readFaults, clone>>
         /\ captured' = [captured EXCEPT !.policyBranch = defaultBranch]
         /\ rcStep' = (IF rcStep = "project" THEN "default" ELSE "postDefault")
         /\ UNCHANGED <<identity, handover, verdict>>
BY DEF ReadProject, In, ProjectStep, Next2, DefaultStep, JobAt, PostingSteps, OnlyReads

LEMMA DefaultAnswer ==
  ASSUME ReadDefault
  PROVE  /\ rcStep \in {"default", "postDefault"} /\ UNCHANGED <<origin, forgeState, readFaults, clone>>
         /\ LET b == branches[captured.policyBranch] IN
            \/ AcquisitionEnds("unavailable") /\ ~b.protected
            \/ /\ b.protected /\ captured' = [captured EXCEPT !.policy = b.head, !.policyProtected = TRUE]
               /\ rcStep' = (IF rcStep = "default" THEN "refs" ELSE "compare")
               /\ UNCHANGED <<identity, handover, verdict>>
BY DEF ReadDefault, In, DefaultStep, Next2, ReadStep, JobAt, PostingSteps, OnlyReads

LEMMA FailedAnswer ==
  ASSUME RequestFails
  PROVE  /\ rcStep \in {"mr", "postMr", "versions", "postVersions", "target", "postTarget", "project", "postProject",
                        "default", "postDefault"}
         /\ AcquisitionEnds("unavailable") /\ readFaults' = readFaults + 1 /\ UNCHANGED <<origin, forgeState, clone>>
BY DEF RequestFails, In, MrStep, VersionsStep, TargetStep, ProjectStep, DefaultStep

(* What the job goes on to.                                                  *)
LEMMA RangeProved ==
  ASSUME ProveRange
  PROVE  /\ rcStep = "range" /\ UNCHANGED <<origin, forgeState, readFaults, clone, captured, identity, verdict>>
         /\ \/ rcStep' = "pipeline" /\ UNCHANGED handover
            \/ rcStep' = "post" /\ handover' = "error"
BY DEF ProveRange, GoOn, ReviewEnds, OnlyReads

LEMMA PipelineChecked ==
  ASSUME CheckPipeline
  PROVE  /\ rcStep = "pipeline" /\ UNCHANGED <<origin, forgeState, readFaults, clone, captured, identity, verdict>>
         /\ \/ PipelineIsOf(ReviewedHead) /\ rcStep' = "mr" /\ UNCHANGED handover
            \/ rcStep' = "post" /\ handover' = "unavailable"
BY DEF CheckPipeline, GoOn, ReviewEnds, OnlyReads

LEMMA RefsCompared ==
  ASSUME CompareRefs
  PROVE  /\ rcStep = "refs" /\ UNCHANGED <<origin, forgeState, readFaults, clone, captured, identity, verdict>>
         /\ \/ captured.refs[1] = ReviewedBase /\ rcStep' = "fetchTarget" /\ UNCHANGED handover
            \/ /\ captured.refs[1] # ReviewedBase \/ captured.refs[3] # ReviewedHead
               /\ rcStep' = "post" /\ handover' = "stale"
BY DEF CompareRefs, GoOn, ReviewEnds, OnlyReads

LEMMA RulesMaterialized ==
  ASSUME MaterializeRules
  PROVE  /\ rcStep = "rules" /\ UNCHANGED <<origin, forgeState, readFaults, clone, captured, verdict>>
         /\ rcStep' = "post"
         /\ \/ handover' \in {"reviewed", "setup"} /\ identity' = captured
            \/ handover' = "error" /\ UNCHANGED identity
BY DEF MaterializeRules, ReviewEnds, OnlyReads

LEMMA PostingStarted ==
  ASSUME StartPosting,
         rcStep = "post" => handover \in {"reviewed", "setup", "error", "stale", "terminal", "unavailable"}
  PROVE  /\ rcStep = "post" /\ moments' = moments \cup {<<"posting", liveMr>>}
         /\ UNCHANGED <<origin, liveMr, branches, defaultBranch, moves, readFaults, clone, captured, identity, handover>>
         /\ \/ /\ handover \in {"reviewed", "setup"} /\ Readable(identity) /\ rcStep' = "bind" /\ UNCHANGED verdict
            \/ /\ handover = "reviewed" => ~Readable(identity)
               /\ rcStep' = "posted" /\ verdict' \in {"failed", "noted", "no_identity", "receipt_unavailable"}
BY DEF StartPosting, GoOn, PostingEnds

LEMMA InvocationBound ==
  ASSUME BindInvocation
  PROVE  /\ rcStep = "bind" /\ UNCHANGED <<origin, forgeState, readFaults, clone, captured, identity, handover>>
         /\ \/ /\ origin.sameJob /\ PipelineIsOf(identity.head) /\ identity.refs[1] = ReviewedBase
               /\ rcStep' = "postMr" /\ UNCHANGED verdict
            \/ /\ ~(origin.sameJob /\ PipelineIsOf(identity.head) /\ identity.refs[1] = ReviewedBase)
               /\ rcStep' = "posted" /\ verdict' \in {"invocation_changed", "diff_changed"}
BY DEF BindInvocation, GoOn, PostingEnds, OnlyReads

LEMMA IdentityAccepted ==
  ASSUME AcceptIdentity
  PROVE  /\ rcStep' = "posted" /\ UNCHANGED <<captured, identity, handover>>
         /\ \/ verdict' = "policy_changed" /\ handover = "setup"
            \/ verdict' = "current"
BY DEF AcceptIdentity, PostingEnds

LEMMA TupleCompared ==
  ASSUME CompareTuple
  PROVE  /\ rcStep = "compare" /\ UNCHANGED <<origin, forgeState, readFaults, clone, captured, identity, handover>>
         /\ \/ /\ DiffStands /\ TargetStands /\ AuthorityStands /\ captured.policy = identity.policy
               /\ AcceptIdentity
            \/ /\ DiffStands /\ TargetStands /\ AuthorityStands /\ SeparatePolicy(identity)
               /\ rcStep' = "fetchOld" /\ UNCHANGED verdict
            \/ /\ ~(DiffStands /\ TargetStands /\ AuthorityStands /\ SeparatePolicy(identity))
               /\ DiffStands /\ TargetStands /\ AuthorityStands => captured.policy # identity.policy
               /\ rcStep' = "posted" /\ verdict' \in {"diff_changed", "target_changed", "authority_changed"}
<1>1. /\ rcStep = "compare" /\ UNCHANGED <<origin, forgeState, readFaults, clone>>
      /\ (IF ~DiffStands THEN PostingEnds("diff_changed")
          ELSE IF ~TargetStands THEN PostingEnds("target_changed")
          ELSE IF ~AuthorityStands THEN PostingEnds("authority_changed")
          ELSE IF captured.policy = identity.policy THEN AcceptIdentity
          ELSE IF ~SeparatePolicy(identity) THEN PostingEnds("authority_changed")
          ELSE GoOn("fetchOld"))
  BY DEF CompareTuple, OnlyReads
<1>2. \A reason : PostingEnds(reason) => verdict' = reason /\ rcStep' = "posted" /\ UNCHANGED <<captured, identity, handover>>
  BY DEF PostingEnds
<1>3. GoOn("fetchOld") => rcStep' = "fetchOld" /\ UNCHANGED <<captured, identity, handover, verdict>>
  BY DEF GoOn
<1> QED BY <1>1, <1>2, <1>3, IdentityAccepted

LEMMA ForwardProved ==
  ASSUME ProveForward, Covered, identity.policy \in Commit, captured.policy \in Commit
  PROVE  /\ rcStep \in {"prove", "proveAgain"}
         /\ UNCHANGED <<origin, forgeState, readFaults, clone, captured, identity, handover>>
         /\ LET answer == IsAncestor(identity.policy, captured.policy) IN
            \/ answer = "yes" /\ AcceptIdentity
            \/ answer = "no" /\ rcStep' = "posted" /\ verdict' = "policy_rewritten"
            \/ answer = "shallow" /\ rcStep = "prove" /\ rcStep' = "fetchHistory" /\ UNCHANGED verdict
            \/ answer = "shallow" /\ rcStep = "proveAgain" /\ rcStep' = "posted" /\ verdict' = "ancestry_unavailable"
<1>1. IsAncestor(identity.policy, captured.policy) \in {"yes", "no", "shallow"}
  BY AncestryIsTrue
<1> DEFINE answer == IsAncestor(identity.policy, captured.policy)
<1>2. /\ rcStep \in {"prove", "proveAgain"} /\ UNCHANGED <<origin, forgeState, readFaults, clone>>
      /\ CASE answer = "yes" -> AcceptIdentity
           [] answer = "no" -> PostingEnds("policy_rewritten")
           [] answer = "shallow" /\ rcStep = "prove" -> GoOn("fetchHistory")
           [] answer = "shallow" /\ rcStep = "proveAgain" -> PostingEnds("ancestry_unavailable")
  BY DEF ProveForward, OnlyReads
<1>3. \A reason : PostingEnds(reason) => verdict' = reason /\ rcStep' = "posted" /\ UNCHANGED <<captured, identity, handover>>
  BY DEF PostingEnds
<1>4. GoOn("fetchHistory") => rcStep' = "fetchHistory" /\ UNCHANGED <<captured, identity, handover, verdict>>
  BY DEF GoOn
<1> HIDE DEF answer
<1>5. \/ answer = "yes" /\ AcceptIdentity
      \/ answer = "no" /\ PostingEnds("policy_rewritten")
      \/ answer = "shallow" /\ rcStep = "prove" /\ GoOn("fetchHistory")
      \/ answer = "shallow" /\ rcStep = "proveAgain" /\ PostingEnds("ancestry_unavailable")
  BY <1>1, <1>2 DEF answer
<1> QED BY <1>2, <1>3, <1>4, <1>5, IdentityAccepted DEF answer

LEMMA CommitFetched ==
  ASSUME Fetches
  PROVE  /\ UNCHANGED <<origin, forgeState, readFaults, captured, identity, handover, verdict>>
         /\ \E c \in {captured.targetHead, captured.policy, identity.policy}, depth \in Nat \ {0} :
              /\ clone' = Deepened(c, depth) \/ (depth = 1 /\ c \in clone.have /\ UNCHANGED clone)
              /\ \/ rcStep = "fetchTarget" /\ c = captured.targetHead /\ rcStep' = "fetchPolicy"
                 \/ rcStep = "fetchPolicy" /\ c = captured.policy /\ rcStep' = "rules"
                 \/ rcStep = "fetchOld" /\ c = identity.policy /\ rcStep' = "fetchNew"
                 \/ rcStep = "fetchNew" /\ c = captured.policy /\ rcStep' = "prove"
                 \/ rcStep = "fetchHistory" /\ c = captured.policy /\ depth = FetchDepth /\ rcStep' = "proveAgain"
<1> DEFINE fetch == FetchSteps[rcStep]
<1>1. /\ rcStep \in {"fetchTarget", "fetchPolicy", "fetchOld", "fetchNew", "fetchHistory"}
      /\ UNCHANGED <<origin, forgeState, readFaults, captured, identity, handover, verdict>>
      /\ clone' = (IF Needed(fetch) THEN Deepened(fetch.commit, fetch.depth) ELSE clone)
      /\ rcStep' = fetch.next
  BY FetchFacts DEF Fetches, GoOn
<1>2. \/ rcStep = "fetchTarget" /\ fetch.commit = captured.targetHead /\ fetch.next = "fetchPolicy" /\ fetch.depth = 1
      \/ rcStep = "fetchPolicy" /\ fetch.commit = captured.policy /\ fetch.next = "rules" /\ fetch.depth = 1
      \/ rcStep = "fetchOld" /\ fetch.commit = identity.policy /\ fetch.next = "fetchNew" /\ fetch.depth = 1
      \/ rcStep = "fetchNew" /\ fetch.commit = captured.policy /\ fetch.next = "prove" /\ fetch.depth = 1
      \/ /\ rcStep = "fetchHistory" /\ fetch.commit = captured.policy /\ fetch.next = "proveAgain"
         /\ fetch.depth = FetchDepth
  BY <1>1, FetchFacts
<1>3. fetch.depth \in Nat \ {0}
  BY <1>2, RevisionAssumption
<1>4. ~Needed(fetch) => fetch.depth = 1 /\ fetch.commit \in clone.have
  BY <1>3 DEF Needed
<1> HIDE DEF fetch
<1> QED BY <1>1, <1>2, <1>3, <1>4

LEMMA FetchFailed ==
  ASSUME FetchFails
  PROVE  /\ rcStep \in {"fetchTarget", "fetchPolicy", "fetchOld", "fetchNew", "fetchHistory"}
         /\ UNCHANGED <<origin, forgeState, clone, captured, identity>> /\ readFaults' = readFaults + 1
         /\ \/ rcStep \in ReviewRead /\ rcStep' = "post" /\ handover' = "unavailable" /\ UNCHANGED verdict
            \/ rcStep \in Compared /\ rcStep' = "posted" /\ verdict' = "ancestry_unavailable" /\ UNCHANGED handover
BY FetchFacts DEF FetchFails, JobAt, PostingSteps, ReviewEnds, PostingEnds, ReviewRead, Compared

LEMMA EmptyIsCommit == <<>> \in Commit
  BY EmptySeq DEF Commit

(* Every step keeps the types.                                               *)
LEMMA RevisionTyped ==
  ASSUME RevisionInv, [RevisionNext]_rcVars
  PROVE  RevisionTypes'
<1>others. CASE OthersMove
  BY <1>others, OthersOnlyMove, EmptyIsCommit, PartsOfReading DEF RevisionInv, RevisionTypes,
     MrTyped, ReadingTyped, forgeState, HasMr, HasVersion, HasTarget, HasPolicy, ReviewRead,
     Compared, PostingSteps
<1>requestFails. CASE RequestFails
  BY <1>requestFails, FailedAnswer, EndOfReading, EmptyIsCommit, PartsOfReading DEF RevisionInv,
     RevisionTypes, MrTyped, ReadingTyped, forgeState, HasMr, HasVersion, HasTarget,
     HasPolicy, ReviewRead, Compared, PostingSteps
<1>readMr. CASE ReadMergeRequest
  <2>1. CASE \E reason \in {"stale", "terminal", "unavailable"} : AcquisitionEnds(reason)
    <3>1. UNCHANGED <<captured, identity>> /\ rcStep' \in {"post", "posted"}
      BY <2>1, EndOfReading
    <3> QED BY <1>readMr, <3>1, MergeRequestAnswer DEF RevisionInv, RevisionTypes, MrTyped,
       ReadingTyped, forgeState, PostingSteps
  <2>2. CASE ~\E reason \in {"stale", "terminal", "unavailable"} : AcquisitionEnds(reason)
    <3>1. /\ UNCHANGED <<origin, forgeState, readFaults, identity>> /\ rcStep' \in HasMr
      BY <1>readMr, <2>2, MergeRequestAnswer DEF RevisionInv, RevisionTypes, HasMr, HasVersion,
         HasTarget, HasPolicy, ReviewRead
    <3>2. ReadingTyped(captured)'
      <4>1. /\ DOMAIN captured' = DOMAIN NothingRead
            /\ captured'.version \in Nat /\ captured'.policy \in Commit /\ captured'.targetHead \in Commit
        <5>1. captured'.policy = <<>> /\ captured'.targetHead = <<>> /\ captured'.version = 0 /\ DOMAIN captured' = DOMAIN NothingRead
          BY <1>readMr, <2>2, MergeRequestAnswer
        <5>2. captured'.policy \in Commit /\ captured'.targetHead \in Commit
          BY ONLY <5>1, EmptyIsCommit
        <5> QED BY <5>1, <5>2
      <4>2. captured'.targetProtected \in BOOLEAN /\ captured'.policyProtected \in BOOLEAN
        BY <1>readMr, <2>2, MergeRequestAnswer, SetupFacts DEF RevisionInv, RevisionTypes,
           MrTyped, ReadingTyped
      <4> QED BY <4>1, <4>2 DEF ReadingTyped
    <3> QED BY <3>1, <3>2 DEF RevisionInv, RevisionTypes, MrTyped, ReadingTyped, forgeState
  <2> QED BY <2>1, <2>2
<1>readVersions. CASE ReadVersions
  BY <1>readVersions, VersionsAnswer, EndOfReading, EmptyIsCommit, PartsOfReading DEF RevisionInv,
     RevisionTypes, MrTyped, ReadingTyped, forgeState, HasMr, HasVersion, HasTarget,
     HasPolicy, ReviewRead, Compared, PostingSteps
<1>readTarget. CASE ReadTarget
  <2>1. CASE \E reason \in {"stale", "terminal", "unavailable"} : AcquisitionEnds(reason)
    <3>1. UNCHANGED <<captured, identity>> /\ rcStep' \in {"post", "posted"}
      BY <2>1, EndOfReading
    <3> QED BY <1>readTarget, <3>1, TargetAnswer DEF RevisionInv, RevisionTypes, MrTyped,
       ReadingTyped, forgeState, PostingSteps
  <2>2. CASE ~\E reason \in {"stale", "terminal", "unavailable"} : AcquisitionEnds(reason)
    <3>1. /\ UNCHANGED <<origin, forgeState, readFaults, identity>> /\ rcStep' \in HasMr
      BY <1>readTarget, <2>2, TargetAnswer DEF RevisionInv, RevisionTypes, HasMr, HasVersion,
         HasTarget, HasPolicy, ReviewRead
    <3>2. ReadingTyped(captured)'
      <4>1. /\ DOMAIN captured' = DOMAIN NothingRead
            /\ captured'.version \in Nat /\ captured'.policy \in Commit /\ captured'.targetHead \in Commit
        BY <1>readTarget, <2>2, TargetAnswer, EmptyIsCommit, SetupFacts DEF RevisionInv,
           RevisionTypes, MrTyped, ReadingTyped, Readings, HasMr, HasVersion
      <4>2. captured'.targetProtected \in BOOLEAN /\ captured'.policyProtected \in BOOLEAN
        BY <1>readTarget, <2>2, TargetAnswer, SetupFacts DEF RevisionInv, RevisionTypes, MrTyped,
           ReadingTyped, Readings, HasMr, HasVersion
      <4> QED BY <4>1, <4>2 DEF ReadingTyped
    <3> QED BY <3>1, <3>2 DEF RevisionInv, RevisionTypes, MrTyped, ReadingTyped, forgeState
  <2> QED BY <2>1, <2>2
<1>readProject. CASE ReadProject
  BY <1>readProject, ProjectAnswer, EmptyIsCommit, PartsOfReading DEF RevisionInv, RevisionTypes,
     MrTyped, ReadingTyped, forgeState, HasMr, HasVersion, HasTarget, HasPolicy, ReviewRead,
     Compared, PostingSteps
<1>readDefault. CASE ReadDefault
  <2>1. CASE \E reason \in {"stale", "terminal", "unavailable"} : AcquisitionEnds(reason)
    <3>1. UNCHANGED <<captured, identity>> /\ rcStep' \in {"post", "posted"}
      BY <2>1, EndOfReading
    <3> QED BY <1>readDefault, <3>1, DefaultAnswer DEF RevisionInv, RevisionTypes, MrTyped,
       ReadingTyped, forgeState, PostingSteps
  <2>2. CASE ~\E reason \in {"stale", "terminal", "unavailable"} : AcquisitionEnds(reason)
    <3>1. /\ UNCHANGED <<origin, forgeState, readFaults, identity>> /\ rcStep' \in HasMr
      BY <1>readDefault, <2>2, DefaultAnswer DEF RevisionInv, RevisionTypes, HasMr, HasVersion,
         HasTarget, HasPolicy, ReviewRead
    <3>2. ReadingTyped(captured)'
      <4>1. /\ DOMAIN captured' = DOMAIN NothingRead
            /\ captured'.version \in Nat /\ captured'.policy \in Commit /\ captured'.targetHead \in Commit
        BY <1>readDefault, <2>2, DefaultAnswer, EmptyIsCommit, SetupFacts, PartsOfReading
           DEF RevisionInv, RevisionTypes, MrTyped, ReadingTyped, Readings
      <4>2. captured'.targetProtected \in BOOLEAN /\ captured'.policyProtected \in BOOLEAN
        BY <1>readDefault, <2>2, DefaultAnswer, SetupFacts, PartsOfReading DEF RevisionInv,
           RevisionTypes, MrTyped, ReadingTyped, Readings
      <4> QED BY <4>1, <4>2 DEF ReadingTyped
    <3> QED BY <3>1, <3>2 DEF RevisionInv, RevisionTypes, MrTyped, ReadingTyped, forgeState
  <2> QED BY <2>1, <2>2
<1>proveRange. CASE ProveRange
  BY <1>proveRange, RangeProved, EmptyIsCommit, PartsOfReading DEF RevisionInv, RevisionTypes,
     MrTyped, ReadingTyped, forgeState, HasMr, HasVersion, HasTarget, HasPolicy, ReviewRead,
     Compared, PostingSteps
<1>checkPipeline. CASE CheckPipeline
  BY <1>checkPipeline, PipelineChecked, EmptyIsCommit, PartsOfReading DEF RevisionInv,
     RevisionTypes, MrTyped, ReadingTyped, forgeState, HasMr, HasVersion, HasTarget,
     HasPolicy, ReviewRead, Compared, PostingSteps
<1>compareRefs. CASE CompareRefs
  BY <1>compareRefs, RefsCompared, EmptyIsCommit, PartsOfReading DEF RevisionInv, RevisionTypes,
     MrTyped, ReadingTyped, forgeState, HasMr, HasVersion, HasTarget, HasPolicy, ReviewRead,
     Compared, PostingSteps
<1>materialize. CASE MaterializeRules
  BY <1>materialize, RulesMaterialized, EmptyIsCommit, PartsOfReading DEF RevisionInv,
     RevisionTypes, MrTyped, ReadingTyped, forgeState, HasMr, HasVersion, HasTarget,
     HasPolicy, ReviewRead, Compared, PostingSteps
<1>startPosting. CASE StartPosting
  BY <1>startPosting, PostingStarted, EmptyIsCommit, PartsOfReading DEF RevisionInv, RevisionTypes,
     MrTyped, ReadingTyped, forgeState, HasMr, HasVersion, HasTarget, HasPolicy, ReviewRead,
     Compared, PostingSteps, PassedChecks
<1>bind. CASE BindInvocation
  BY <1>bind, InvocationBound, EmptyIsCommit, PartsOfReading DEF RevisionInv, RevisionTypes,
     MrTyped, ReadingTyped, forgeState, HasMr, HasVersion, HasTarget, HasPolicy, ReviewRead,
     Compared, PostingSteps
<1>compare. CASE CompareTuple
  BY <1>compare, TupleCompared, IdentityAccepted, EmptyIsCommit, PartsOfReading DEF RevisionInv,
     RevisionTypes, MrTyped, ReadingTyped, forgeState, HasMr, HasVersion, HasTarget,
     HasPolicy, ReviewRead, Compared, PostingSteps
<1>proveForward. CASE ProveForward
  BY <1>proveForward, ForwardProved, IdentityAccepted, EmptyIsCommit, PartsOfReading
     DEF RevisionInv, RevisionTypes, MrTyped, ReadingTyped, forgeState, HasMr, HasVersion,
     HasTarget, HasPolicy, ReviewRead, Compared, PostingSteps, CloneShown
<1>fetches. CASE Fetches
  BY <1>fetches, CommitFetched, EmptyIsCommit, PartsOfReading DEF RevisionInv, RevisionTypes,
     MrTyped, ReadingTyped, forgeState, HasMr, HasVersion, HasTarget, HasPolicy, ReviewRead,
     Compared, PostingSteps
<1>fetchFails. CASE FetchFails
  BY <1>fetchFails, FetchFailed, EmptyIsCommit, PartsOfReading DEF RevisionInv, RevisionTypes,
     MrTyped, ReadingTyped, forgeState, HasMr, HasVersion, HasTarget, HasPolicy, ReviewRead,
     Compared, PostingSteps
<1>unchanged. CASE UNCHANGED rcVars
  BY <1>unchanged DEF rcVars, RevisionInv, RevisionTypes, MrTyped, ReadingTyped, forgeState,
     HasMr, HasVersion, HasTarget, HasPolicy, ReviewRead, Compared, PostingSteps
<1> QED BY <1>others, <1>requestFails, <1>readMr, <1>readVersions, <1>readTarget, <1>readProject,
   <1>readDefault, <1>proveRange, <1>checkPipeline, <1>compareRefs, <1>materialize,
   <1>startPosting, <1>bind, <1>compare, <1>proveForward, <1>fetches, <1>fetchFails,
   <1>unchanged DEF RevisionNext, Reads

(* Every step keeps the moments of the merge request in order.               *)
LEMMA RevisionMoments ==
  ASSUME RevisionInv, [RevisionNext]_rcVars
  PROVE  Moments'
<1> USE DEF RevisionInv, RevisionTypes, MrTyped, Moments, JobAt, forgeState, HasMr, HasVersion,
            HasTarget, HasPolicy, ReviewRead, Compared, PostingSteps
<1>others. CASE OthersMove
  BY <1>others, OthersOnlyMove
<1>requestFails. CASE RequestFails
  BY <1>requestFails, FailedAnswer, EndOfReading
<1>readMr. CASE ReadMergeRequest
  BY <1>readMr, MergeRequestAnswer, EndOfReading
<1>readVersions. CASE ReadVersions
  BY <1>readVersions, VersionsAnswer, EndOfReading
<1>readTarget. CASE ReadTarget
  BY <1>readTarget, TargetAnswer, EndOfReading
<1>readProject. CASE ReadProject
  BY <1>readProject, ProjectAnswer
<1>readDefault. CASE ReadDefault
  BY <1>readDefault, DefaultAnswer, EndOfReading
<1>proveRange. CASE ProveRange
  BY <1>proveRange, RangeProved
<1>checkPipeline. CASE CheckPipeline
  BY <1>checkPipeline, PipelineChecked
<1>compareRefs. CASE CompareRefs
  BY <1>compareRefs, RefsCompared
<1>materialize. CASE MaterializeRules
  BY <1>materialize, RulesMaterialized
<1>startPosting. CASE StartPosting
  BY <1>startPosting, PostingStarted DEF PassedChecks
<1>bind. CASE BindInvocation
  BY <1>bind, InvocationBound
<1>compare. CASE CompareTuple
  BY <1>compare, TupleCompared, IdentityAccepted
<1>proveForward. CASE ProveForward
  BY <1>proveForward, ForwardProved, IdentityAccepted DEF CloneShown, ReadingTyped
<1>fetches. CASE Fetches
  BY <1>fetches, CommitFetched
<1>fetchFails. CASE FetchFails
  BY <1>fetchFails, FetchFailed
<1>unchanged. CASE UNCHANGED rcVars
  BY <1>unchanged DEF rcVars
<1> QED BY <1>others, <1>requestFails, <1>readMr, <1>readVersions, <1>readTarget, <1>readProject,
   <1>readDefault, <1>proveRange, <1>checkPipeline, <1>compareRefs, <1>materialize,
   <1>startPosting, <1>bind, <1>compare, <1>proveForward, <1>fetches, <1>fetchFails,
   <1>unchanged DEF RevisionNext, Reads

(* Every step keeps a reading one of a moment of its job.                     *)
LEMMA RevisionReadings ==
  ASSUME RevisionInv, [RevisionNext]_rcVars
  PROVE  Readings'
<1> USE DEF RevisionInv, HasMr, HasVersion, HasTarget, HasPolicy, ReviewRead, Compared, Readings
<1>others. CASE OthersMove
  <2>1. /\ UNCHANGED <<captured, identity, rcStep>> /\ DOMAIN branches' = DOMAIN branches
        /\ moments \subseteq moments' /\ liveMr.version <= liveMr'.version /\ UNCHANGED origin
        /\ liveMr'.version \in Nat /\ liveMr.version \in Nat /\ captured.version \in Nat /\ identity.version \in Nat
    BY <1>others, OthersOnlyMove DEF RevisionTypes, MrTyped, ReadingTyped
  <2>2. Readings
    BY DEF RevisionInv
  <2>3. rcStep \in HasMr => OneMoment(captured)'
    BY <2>1, <2>2 DEF Readings, OneMoment
  <2> QED BY <2>1, <2>2, <2>3 DEF Readings, ReviewedHead
<1>requestFails. CASE RequestFails
  BY <1>requestFails, FailedAnswer, EndOfReading DEF RevisionTypes, MrTyped, forgeState,
     PostingSteps, OneMoment, ReviewedHead, JobAt
<1>readMr. CASE ReadMergeRequest
  <2>1. CASE \E reason \in {"stale", "terminal", "unavailable"} : AcquisitionEnds(reason)
    <3>1. UNCHANGED <<identity, liveMr>> /\ rcStep' \in {"post", "posted"}
      BY <1>readMr, <2>1, EndOfReading, MergeRequestAnswer DEF forgeState
    <3> QED BY <3>1
  <2>2. CASE ~\E reason \in {"stale", "terminal", "unavailable"} : AcquisitionEnds(reason)
    <3>1. /\ UNCHANGED <<origin, liveMr, branches, moments, identity>>
          /\ liveMr.head = ReviewedHead /\ liveMr.life = "opened" /\ ~liveMr.pending
          /\ captured'.head = liveMr.head /\ captured'.target = liveMr.target /\ captured'.refs = liveMr.refs
          /\ rcStep \in {"mr", "postMr"} /\ rcStep' = (IF rcStep = "mr" THEN "versions" ELSE "postVersions")
      BY <1>readMr, <2>2, MergeRequestAnswer DEF forgeState
    <3>2. <<JobAt(rcStep'), liveMr>> \in moments
      BY <3>1 DEF Moments, JobAt, PostingSteps
    <3>3. identity.version <= liveMr.version /\ liveMr.target \in DOMAIN branches /\ liveMr.refs[3] = liveMr.head
      BY <3>1 DEF RevisionTypes, MrTyped
    <3>4. rcStep' \notin HasVersion
      BY <3>1
    <3>5. OneMoment(captured)'
      BY <3>1, <3>2, <3>3, <3>4 DEF OneMoment
    <3> QED BY <3>1, <3>3, <3>4, <3>5 DEF ReviewedHead
  <2> QED BY <2>1, <2>2
<1>readVersions. CASE ReadVersions
  <2>1. CASE AcquisitionEnds("unavailable")
    <3>1. UNCHANGED <<identity, liveMr>> /\ rcStep' \in {"post", "posted"}
      BY <1>readVersions, <2>1, EndOfReading, VersionsAnswer DEF forgeState, RevisionTypes
    <3> QED BY <3>1
  <2>2. CASE ~AcquisitionEnds("unavailable")
    <3>1. /\ UNCHANGED <<origin, liveMr, branches, moments, identity>>
          /\ captured' = [captured EXCEPT !.version = liveMr.version]
          /\ rcStep \in {"versions", "postVersions"}
          /\ rcStep' = (IF rcStep = "versions" THEN "target" ELSE "postTarget")
      BY <1>readVersions, <2>2, VersionsAnswer DEF forgeState, RevisionTypes
    <3>2. /\ captured'.version = liveMr.version /\ captured'.head = captured.head /\ captured'.target = captured.target
          /\ captured'.refs = captured.refs
      BY <3>1, PartsOfReading DEF RevisionTypes, ReadingTyped
    <3>3. /\ rcStep \in HasMr /\ rcStep' \notin {"default", "postDefault"} /\ JobAt(rcStep') = JobAt(rcStep)
      BY <3>1 DEF JobAt, PostingSteps
    <3>4. Readings
      BY DEF RevisionInv
    <3>5. \A m \in moments : m[2].version <= liveMr.version
      BY DEF RevisionInv, Moments
    <3>6. OneMoment(captured)'
      BY <3>1, <3>2, <3>3, <3>4, <3>5 DEF OneMoment, Readings
    <3>7. liveMr.version \in 1..liveMr.version
      BY DEF RevisionTypes, MrTyped
    <3> QED BY <3>1, <3>2, <3>3, <3>4, <3>6, <3>7 DEF Readings, ReviewedHead
  <2> QED BY <2>1, <2>2
<1>readTarget. CASE ReadTarget
  BY <1>readTarget, TargetAnswer, EndOfReading DEF RevisionTypes, MrTyped, forgeState,
     PostingSteps, OneMoment, ReviewedHead, JobAt
<1>readProject. CASE ReadProject
  BY <1>readProject, ProjectAnswer, PartsOfReading DEF RevisionTypes, MrTyped, forgeState,
     PostingSteps, OneMoment, ReviewedHead, JobAt, ReadingTyped
<1>readDefault. CASE ReadDefault
  BY ZenonT(60), <1>readDefault, DefaultAnswer, EndOfReading, PartsOfReading DEF RevisionTypes,
     MrTyped, forgeState, PostingSteps, OneMoment, ReviewedHead, JobAt, ReadingTyped
<1>proveRange. CASE ProveRange
  BY <1>proveRange, RangeProved DEF RevisionTypes, MrTyped, forgeState, PostingSteps, OneMoment,
     ReviewedHead, JobAt
<1>checkPipeline. CASE CheckPipeline
  BY <1>checkPipeline, PipelineChecked DEF RevisionTypes, MrTyped, forgeState, PostingSteps,
     OneMoment, ReviewedHead, JobAt
<1>compareRefs. CASE CompareRefs
  BY <1>compareRefs, RefsCompared DEF RevisionTypes, MrTyped, forgeState, PostingSteps,
     OneMoment, ReviewedHead, JobAt
<1>materialize. CASE MaterializeRules
  BY <1>materialize, RulesMaterialized DEF RevisionTypes, MrTyped, forgeState, PostingSteps,
     OneMoment, ReviewedHead, JobAt
<1>startPosting. CASE StartPosting
  BY <1>startPosting, PostingStarted DEF RevisionTypes, MrTyped, forgeState, PostingSteps,
     OneMoment, ReviewedHead, JobAt, PassedChecks
<1>bind. CASE BindInvocation
  BY <1>bind, InvocationBound DEF RevisionTypes, MrTyped, forgeState, PostingSteps, OneMoment,
     ReviewedHead, JobAt
<1>compare. CASE CompareTuple
  BY <1>compare, TupleCompared, IdentityAccepted DEF RevisionTypes, MrTyped, forgeState,
     PostingSteps, OneMoment, ReviewedHead, JobAt
<1>proveForward. CASE ProveForward
  BY <1>proveForward, ForwardProved, IdentityAccepted DEF RevisionTypes, MrTyped, forgeState,
     PostingSteps, OneMoment, ReviewedHead, JobAt, CloneShown, ReadingTyped
<1>fetches. CASE Fetches
  BY <1>fetches, CommitFetched DEF RevisionTypes, MrTyped, forgeState, PostingSteps, OneMoment,
     ReviewedHead, JobAt
<1>fetchFails. CASE FetchFails
  BY <1>fetchFails, FetchFailed DEF RevisionTypes, MrTyped, forgeState, PostingSteps, OneMoment,
     ReviewedHead, JobAt
<1>unchanged. CASE UNCHANGED rcVars
  BY SMTT(60), <1>unchanged DEF rcVars, RevisionTypes, MrTyped, forgeState, PostingSteps, OneMoment,
     ReviewedHead, JobAt
<1> QED BY <1>others, <1>requestFails, <1>readMr, <1>readVersions, <1>readTarget, <1>readProject,
   <1>readDefault, <1>proveRange, <1>checkPipeline, <1>compareRefs, <1>materialize,
   <1>startPosting, <1>bind, <1>compare, <1>proveForward, <1>fetches, <1>fetchFails,
   <1>unchanged DEF RevisionNext, Reads

(* Every step keeps what was checked before.                                 *)
LEMMA RevisionPassed ==
  ASSUME RevisionInv, [RevisionNext]_rcVars
  PROVE  PassedChecks'
<1> USE DEF RevisionInv, RevisionTypes, MrTyped, forgeState, HasMr, HasVersion, HasTarget,
            HasPolicy, ReviewRead, Compared, PostingSteps, PassedChecks, Answering,
            PipelineIsOf, ReviewedHead, ReviewedBase, Readable, DiffStands, TargetStands,
            AuthorityStands, SeparatePolicy
<1>others. CASE OthersMove
  BY <1>others, OthersOnlyMove
<1>requestFails. CASE RequestFails
  BY <1>requestFails, FailedAnswer, EndOfReading
<1>readMr. CASE ReadMergeRequest
  BY ZenonT(60), <1>readMr, MergeRequestAnswer, EndOfReading
<1>readVersions. CASE ReadVersions
  BY <1>readVersions, VersionsAnswer, EndOfReading DEF ReadingTyped
<1>readTarget. CASE ReadTarget
  BY <1>readTarget, TargetAnswer, EndOfReading DEF ReadingTyped
<1>readProject. CASE ReadProject
  BY <1>readProject, ProjectAnswer, PartsOfReading DEF ReadingTyped
<1>readDefault. CASE ReadDefault
  BY <1>readDefault, DefaultAnswer, EndOfReading, PartsOfReading DEF ReadingTyped
<1>proveRange. CASE ProveRange
  BY <1>proveRange, RangeProved
<1>checkPipeline. CASE CheckPipeline
  BY <1>checkPipeline, PipelineChecked
<1>compareRefs. CASE CompareRefs
  BY <1>compareRefs, RefsCompared
<1>materialize. CASE MaterializeRules
  BY <1>materialize, RulesMaterialized DEF Readings
<1>startPosting. CASE StartPosting
  BY <1>startPosting, PostingStarted
<1>bind. CASE BindInvocation
  BY <1>bind, InvocationBound
<1>compare. CASE CompareTuple
  BY <1>compare, TupleCompared, IdentityAccepted
<1>proveForward. CASE ProveForward
  BY <1>proveForward, ForwardProved, IdentityAccepted DEF CloneShown, ReadingTyped
<1>fetches. CASE Fetches
  BY <1>fetches, CommitFetched
<1>fetchFails. CASE FetchFails
  BY <1>fetchFails, FetchFailed
<1>unchanged. CASE UNCHANGED rcVars
  BY <1>unchanged DEF rcVars
<1> QED BY <1>others, <1>requestFails, <1>readMr, <1>readVersions, <1>readTarget, <1>readProject,
   <1>readDefault, <1>proveRange, <1>checkPipeline, <1>compareRefs, <1>materialize,
   <1>startPosting, <1>bind, <1>compare, <1>proveForward, <1>fetches, <1>fetchFails,
   <1>unchanged DEF RevisionNext, Reads

(* Every step keeps what the clone shows.                                    *)
LEMMA RevisionShown ==
  ASSUME RevisionInv, [RevisionNext]_rcVars
  PROVE  CloneShown'
<1>others. CASE OthersMove
  BY <1>others, OthersOnlyMove DEF RevisionInv, RevisionTypes, MrTyped, forgeState, HasMr,
     HasVersion, HasTarget, HasPolicy, ReviewRead, Compared, PostingSteps, CloneShown, Covered,
     CutBelow
<1>requestFails. CASE RequestFails
  BY <1>requestFails, FailedAnswer, EndOfReading DEF RevisionInv, RevisionTypes, MrTyped,
     forgeState, HasMr, HasVersion, HasTarget, HasPolicy, ReviewRead, Compared, PostingSteps,
     CloneShown, Covered, CutBelow
<1>readMr. CASE ReadMergeRequest
  BY <1>readMr, MergeRequestAnswer, EndOfReading DEF RevisionInv, RevisionTypes, MrTyped,
     forgeState, HasMr, HasVersion, HasTarget, HasPolicy, ReviewRead, Compared, PostingSteps,
     CloneShown, Covered, CutBelow
<1>readVersions. CASE ReadVersions
  BY <1>readVersions, VersionsAnswer, EndOfReading DEF RevisionInv, RevisionTypes, MrTyped,
     forgeState, HasMr, HasVersion, HasTarget, HasPolicy, ReviewRead, Compared, PostingSteps,
     CloneShown, Covered, CutBelow
<1>readTarget. CASE ReadTarget
  BY <1>readTarget, TargetAnswer, EndOfReading DEF RevisionInv, RevisionTypes, MrTyped,
     forgeState, HasMr, HasVersion, HasTarget, HasPolicy, ReviewRead, Compared, PostingSteps,
     CloneShown, Covered, CutBelow
<1>readProject. CASE ReadProject
  BY <1>readProject, ProjectAnswer DEF RevisionInv, RevisionTypes, MrTyped, forgeState, HasMr,
     HasVersion, HasTarget, HasPolicy, ReviewRead, Compared, PostingSteps, CloneShown, Covered,
     CutBelow
<1>readDefault. CASE ReadDefault
  BY <1>readDefault, DefaultAnswer, EndOfReading DEF RevisionInv, RevisionTypes, MrTyped,
     forgeState, HasMr, HasVersion, HasTarget, HasPolicy, ReviewRead, Compared, PostingSteps,
     CloneShown, Covered, CutBelow
<1>proveRange. CASE ProveRange
  BY <1>proveRange, RangeProved DEF RevisionInv, RevisionTypes, MrTyped, forgeState, HasMr,
     HasVersion, HasTarget, HasPolicy, ReviewRead, Compared, PostingSteps, CloneShown, Covered,
     CutBelow
<1>checkPipeline. CASE CheckPipeline
  BY <1>checkPipeline, PipelineChecked DEF RevisionInv, RevisionTypes, MrTyped, forgeState,
     HasMr, HasVersion, HasTarget, HasPolicy, ReviewRead, Compared, PostingSteps, CloneShown,
     Covered, CutBelow
<1>compareRefs. CASE CompareRefs
  BY <1>compareRefs, RefsCompared DEF RevisionInv, RevisionTypes, MrTyped, forgeState, HasMr,
     HasVersion, HasTarget, HasPolicy, ReviewRead, Compared, PostingSteps, CloneShown, Covered,
     CutBelow
<1>materialize. CASE MaterializeRules
  BY <1>materialize, RulesMaterialized DEF RevisionInv, RevisionTypes, MrTyped, forgeState,
     HasMr, HasVersion, HasTarget, HasPolicy, ReviewRead, Compared, PostingSteps, CloneShown,
     Covered, CutBelow
<1>startPosting. CASE StartPosting
  BY <1>startPosting, PostingStarted DEF RevisionInv, RevisionTypes, MrTyped, forgeState, HasMr,
     HasVersion, HasTarget, HasPolicy, ReviewRead, Compared, PostingSteps, CloneShown, Covered,
     CutBelow, PassedChecks
<1>bind. CASE BindInvocation
  BY <1>bind, InvocationBound DEF RevisionInv, RevisionTypes, MrTyped, forgeState, HasMr,
     HasVersion, HasTarget, HasPolicy, ReviewRead, Compared, PostingSteps, CloneShown, Covered,
     CutBelow
<1>compare. CASE CompareTuple
  BY <1>compare, TupleCompared, IdentityAccepted DEF RevisionInv, RevisionTypes, MrTyped,
     forgeState, HasMr, HasVersion, HasTarget, HasPolicy, ReviewRead, Compared, PostingSteps,
     CloneShown, Covered, CutBelow
<1>proveForward. CASE ProveForward
  BY <1>proveForward, ForwardProved, IdentityAccepted DEF RevisionInv, RevisionTypes, MrTyped,
     forgeState, HasMr, HasVersion, HasTarget, HasPolicy, ReviewRead, Compared, PostingSteps,
     CloneShown, Covered, CutBelow, ReadingTyped
<1>fetches. CASE Fetches
  <2>1. PICK c \in {captured.targetHead, captured.policy, identity.policy}, depth \in Nat \ {0} :
          /\ clone' = Deepened(c, depth) \/ (depth = 1 /\ c \in clone.have /\ UNCHANGED clone)
          /\ \/ rcStep = "fetchTarget" /\ c = captured.targetHead /\ rcStep' = "fetchPolicy"
             \/ rcStep = "fetchPolicy" /\ c = captured.policy /\ rcStep' = "rules"
             \/ rcStep = "fetchOld" /\ c = identity.policy /\ rcStep' = "fetchNew"
             \/ rcStep = "fetchNew" /\ c = captured.policy /\ rcStep' = "prove"
             \/ rcStep = "fetchHistory" /\ c = captured.policy /\ depth = FetchDepth /\ rcStep' = "proveAgain"
    BY <1>fetches, CommitFetched
  <2>2. c \in Commit /\ captured' = captured /\ Covered
    BY <1>fetches, <2>1, CommitFetched DEF RevisionInv, RevisionTypes, ReadingTyped, CloneShown
  <2>3. CASE clone' = Deepened(c, depth)
    <3>1. /\ Covered' /\ c \in clone'.have
          /\ \A q \in Lineage(c) : Len(q) > Len(c) - depth + 1 => q \in clone'.have \ clone'.cut
      BY <2>2, <2>3, DeepeningCovers
    <3> QED BY <2>1, <2>2, <3>1 DEF CloneShown
  <2>4. CASE depth = 1 /\ c \in clone.have /\ UNCHANGED clone
    <3>1. Covered'
      BY <2>2, <2>4 DEF Covered, CutBelow
    <3>2. \A q \in Lineage(c) : ~(Len(q) > Len(c) - depth + 1)
      BY <2>2, <2>4, LineageFacts DEF Commit
    <3> QED BY <2>1, <2>2, <2>4, <3>1, <3>2 DEF CloneShown
  <2> QED BY <2>1, <2>3, <2>4
<1>fetchFails. CASE FetchFails
  BY <1>fetchFails, FetchFailed DEF RevisionInv, RevisionTypes, MrTyped, forgeState, HasMr,
     HasVersion, HasTarget, HasPolicy, ReviewRead, Compared, PostingSteps, CloneShown, Covered,
     CutBelow
<1>unchanged. CASE UNCHANGED rcVars
  BY <1>unchanged DEF rcVars, RevisionInv, RevisionTypes, MrTyped, forgeState, HasMr,
     HasVersion, HasTarget, HasPolicy, ReviewRead, Compared, PostingSteps, CloneShown, Covered,
     CutBelow
<1> QED BY <1>others, <1>requestFails, <1>readMr, <1>readVersions, <1>readTarget, <1>readProject,
   <1>readDefault, <1>proveRange, <1>checkPipeline, <1>compareRefs, <1>materialize,
   <1>startPosting, <1>bind, <1>compare, <1>proveForward, <1>fetches, <1>fetchFails,
   <1>unchanged DEF RevisionNext, Reads

(* Every step keeps what unchanged protections say of a reading.              *)
LEMMA RevisionProtected ==
  ASSUME RevisionInv, [RevisionNext]_rcVars
  PROVE  ProtectionsKept'
<1>others. CASE OthersMove
  BY ZenonT(60), <1>others, OthersOnlyMove DEF RevisionInv, RevisionTypes, MrTyped, forgeState, HasMr,
     HasVersion, HasTarget, HasPolicy, ReviewRead, Compared, PostingSteps, ProtectionsKept,
     Protections, Readable
<1>requestFails. CASE RequestFails
  BY <1>requestFails, FailedAnswer, EndOfReading DEF RevisionInv, RevisionTypes, MrTyped,
     forgeState, HasMr, HasVersion, HasTarget, HasPolicy, ReviewRead, Compared, PostingSteps,
     ProtectionsKept, Protections, Readable
<1>readMr. CASE ReadMergeRequest
  BY <1>readMr, MergeRequestAnswer, EndOfReading DEF RevisionInv, RevisionTypes, MrTyped,
     forgeState, HasMr, HasVersion, HasTarget, HasPolicy, ReviewRead, Compared, PostingSteps,
     ProtectionsKept, Protections, Readable
<1>readVersions. CASE ReadVersions
  BY <1>readVersions, VersionsAnswer, EndOfReading DEF RevisionInv, RevisionTypes, MrTyped,
     forgeState, HasMr, HasVersion, HasTarget, HasPolicy, ReviewRead, Compared, PostingSteps,
     ProtectionsKept, Protections, Readable, ReadingTyped
<1>readTarget. CASE ReadTarget
  <2>1. CASE AcquisitionEnds("unavailable")
    <3>1. UNCHANGED <<origin, branches, moves>> /\ rcStep' \in {"post", "posted"}
      BY <1>readTarget, <2>1, EndOfReading, TargetAnswer DEF forgeState, RevisionInv,
         RevisionTypes
    <3> QED BY <3>1 DEF RevisionInv, ProtectionsKept, Protections, HasTarget, HasPolicy,
       ReviewRead, Compared
  <2>2. CASE ~AcquisitionEnds("unavailable")
    <3> DEFINE b == branches[captured.target]
    <3>1. /\ UNCHANGED <<origin, branches, moves>> /\ rcStep \in {"target", "postTarget"}
          /\ captured'.head = captured.head /\ captured'.target = captured.target /\ captured'.refs = captured.refs
          /\ captured'.version = captured.version /\ captured'.targetHead = b.head
          /\ captured'.targetProtected = b.protected
      BY <1>readTarget, <2>2, TargetAnswer DEF forgeState, RevisionInv, RevisionTypes
    <3>2. rcStep' = "refs" => /\ b.protected \/ origin.mode = "unprotected"
                              /\ captured'.policyBranch = captured.target /\ captured'.policy = b.head
                              /\ captured'.policyProtected = b.protected
      BY <1>readTarget, <2>2, TargetAnswer, SetupFacts DEF RevisionInv, RevisionTypes
    <3>3. rcStep' \in {"project", "postProject", "refs", "compare"}
      BY <1>readTarget, <2>2, TargetAnswer DEF RevisionInv, RevisionTypes
    <3>4. /\ captured.target \in DOMAIN branches /\ captured.version \in 1..liveMr.version
          /\ captured.refs[3] = captured.head /\ liveMr.version \in Nat
      BY <3>1 DEF RevisionInv, RevisionTypes, MrTyped, Readings, HasMr, HasVersion
    <3> HIDE DEF b
    <3>5. captured'.version # 0
      BY <3>1, <3>4
    <3>9. captured' # NothingRead
      BY <3>5 DEF NothingRead
    <3>6. rcStep' = "refs" => Readable(captured)'
      BY <3>1, <3>2, <3>4, <3>9 DEF Readable
    <3>7. Protections' => captured'.targetProtected = origin'.forge.branches[captured'.target].protected
      BY <3>1, <3>4 DEF b, RevisionInv, ProtectionsKept, Protections
    <3> QED BY <3>1, <3>3, <3>6, <3>7 DEF RevisionInv, ProtectionsKept, Protections, ReviewRead
  <2> QED BY <2>1, <2>2
<1>readProject. CASE ReadProject
  BY <1>readProject, ProjectAnswer, PartsOfReading DEF RevisionInv, RevisionTypes, MrTyped,
     forgeState, HasMr, HasVersion, HasTarget, HasPolicy, ReviewRead, Compared, PostingSteps,
     ProtectionsKept, Protections, Readable, ReadingTyped
<1>readDefault. CASE ReadDefault
  <2>1. CASE AcquisitionEnds("unavailable")
    <3>1. UNCHANGED <<origin, branches, moves>> /\ rcStep' \in {"post", "posted"}
      BY <1>readDefault, <2>1, EndOfReading, DefaultAnswer DEF forgeState
    <3> QED BY <3>1 DEF RevisionInv, ProtectionsKept, Protections, HasTarget, HasPolicy,
       ReviewRead, Compared
  <2>2. CASE ~AcquisitionEnds("unavailable")
    <3> DEFINE b == branches[captured.policyBranch]
    <3>1. /\ UNCHANGED <<origin, branches, moves>> /\ rcStep \in {"default", "postDefault"} /\ b.protected
          /\ captured' = [captured EXCEPT !.policy = b.head, !.policyProtected = TRUE]
          /\ rcStep' = (IF rcStep = "default" THEN "refs" ELSE "compare")
      BY <1>readDefault, <2>2, DefaultAnswer DEF forgeState
    <3>2. /\ captured'.head = captured.head /\ captured'.target = captured.target /\ captured'.refs = captured.refs
          /\ captured'.version = captured.version /\ captured'.targetProtected = captured.targetProtected
          /\ captured'.policyBranch = captured.policyBranch /\ captured'.policyProtected = TRUE
      BY <3>1, PartsOfReading DEF RevisionInv, RevisionTypes, ReadingTyped
    <3>3. /\ captured.target \in DOMAIN branches /\ captured.policyBranch \in DOMAIN branches
          /\ captured.version \in 1..liveMr.version /\ captured.refs[3] = captured.head /\ liveMr.version \in Nat
      BY <3>1 DEF RevisionInv, RevisionTypes, MrTyped, Readings, HasMr, HasVersion, HasTarget
    <3>4. ~captured.targetProtected /\ origin.mode = "auto"
      BY <3>1 DEF RevisionInv, PassedChecks
    <3>5. Protections' => /\ Protections
                          /\ captured.targetProtected = origin.forge.branches[captured.target].protected
                          /\ b.protected = origin.forge.branches[captured.policyBranch].protected
      BY <3>1, <3>3 DEF RevisionInv, ProtectionsKept, Protections, HasTarget
    <3> HIDE DEF b
    <3>6. captured'.version # 0
      BY <3>2, <3>3
    <3>7. captured' # NothingRead
      BY <3>6 DEF NothingRead
    <3>8. Protections' => captured.policyBranch # captured.target
      BY <3>1, <3>4, <3>5
    <3>9. Protections' => Readable(captured)'
      BY <3>1, <3>2, <3>3, <3>4, <3>7, <3>8 DEF Readable
    <3>10. Protections' => captured'.targetProtected = origin'.forge.branches[captured'.target].protected
      BY <3>1, <3>2, <3>5
    <3> QED BY <3>1, <3>5, <3>9, <3>10 DEF RevisionInv, ProtectionsKept
  <2> QED BY <2>1, <2>2
<1>proveRange. CASE ProveRange
  BY <1>proveRange, RangeProved DEF RevisionInv, RevisionTypes, MrTyped, forgeState, HasMr,
     HasVersion, HasTarget, HasPolicy, ReviewRead, Compared, PostingSteps, ProtectionsKept,
     Protections, Readable
<1>checkPipeline. CASE CheckPipeline
  BY <1>checkPipeline, PipelineChecked DEF RevisionInv, RevisionTypes, MrTyped, forgeState,
     HasMr, HasVersion, HasTarget, HasPolicy, ReviewRead, Compared, PostingSteps,
     ProtectionsKept, Protections, Readable
<1>compareRefs. CASE CompareRefs
  BY <1>compareRefs, RefsCompared DEF RevisionInv, RevisionTypes, MrTyped, forgeState, HasMr,
     HasVersion, HasTarget, HasPolicy, ReviewRead, Compared, PostingSteps, ProtectionsKept,
     Protections, Readable
<1>materialize. CASE MaterializeRules
  BY <1>materialize, RulesMaterialized DEF RevisionInv, RevisionTypes, MrTyped, forgeState,
     HasMr, HasVersion, HasTarget, HasPolicy, ReviewRead, Compared, PostingSteps,
     ProtectionsKept, Protections, Readable
<1>startPosting. CASE StartPosting
  BY <1>startPosting, PostingStarted DEF RevisionInv, RevisionTypes, MrTyped, forgeState, HasMr,
     HasVersion, HasTarget, HasPolicy, ReviewRead, Compared, PostingSteps, ProtectionsKept,
     Protections, Readable, PassedChecks
<1>bind. CASE BindInvocation
  BY <1>bind, InvocationBound DEF RevisionInv, RevisionTypes, MrTyped, forgeState, HasMr,
     HasVersion, HasTarget, HasPolicy, ReviewRead, Compared, PostingSteps, ProtectionsKept,
     Protections, Readable
<1>compare. CASE CompareTuple
  BY <1>compare, TupleCompared, IdentityAccepted DEF RevisionInv, RevisionTypes, MrTyped,
     forgeState, HasMr, HasVersion, HasTarget, HasPolicy, ReviewRead, Compared, PostingSteps,
     ProtectionsKept, Protections, Readable
<1>proveForward. CASE ProveForward
  BY <1>proveForward, ForwardProved, IdentityAccepted DEF RevisionInv, RevisionTypes, MrTyped,
     forgeState, HasMr, HasVersion, HasTarget, HasPolicy, ReviewRead, Compared, PostingSteps,
     ProtectionsKept, Protections, Readable, CloneShown, ReadingTyped
<1>fetches. CASE Fetches
  BY <1>fetches, CommitFetched DEF RevisionInv, RevisionTypes, MrTyped, forgeState, HasMr,
     HasVersion, HasTarget, HasPolicy, ReviewRead, Compared, PostingSteps, ProtectionsKept,
     Protections, Readable
<1>fetchFails. CASE FetchFails
  BY <1>fetchFails, FetchFailed DEF RevisionInv, RevisionTypes, MrTyped, forgeState, HasMr,
     HasVersion, HasTarget, HasPolicy, ReviewRead, Compared, PostingSteps, ProtectionsKept,
     Protections, Readable
<1>unchanged. CASE UNCHANGED rcVars
  BY <1>unchanged DEF rcVars, RevisionInv, RevisionTypes, MrTyped, forgeState, HasMr,
     HasVersion, HasTarget, HasPolicy, ReviewRead, Compared, PostingSteps, ProtectionsKept,
     Protections, Readable
<1> QED BY <1>others, <1>requestFails, <1>readMr, <1>readVersions, <1>readTarget, <1>readProject,
   <1>readDefault, <1>proveRange, <1>checkPipeline, <1>compareRefs, <1>materialize,
   <1>startPosting, <1>bind, <1>compare, <1>proveForward, <1>fetches, <1>fetchFails,
   <1>unchanged DEF RevisionNext, Reads

(* Every step keeps what a quiet forge leaves of a reading.                  *)
LEMMA RevisionQuiet ==
  ASSUME RevisionInv, [RevisionNext]_rcVars
  PROVE  QuietReadings'
<1>others. CASE OthersMove
  <2>1. /\ UNCHANGED <<origin, captured, identity, handover, rcStep>>
        /\ Quiet' => /\ Quiet /\ UNCHANGED defaultBranch /\ (~liveMr.pending => UNCHANGED liveMr)
                     /\ \A b \in DOMAIN branches : b # defaultBranch => branches'[b] = branches[b]
                     /\ Trunk'.protected = Trunk.protected
                     /\ \A p \in Commit : IsPrefix(p, Trunk.head) => IsPrefix(p, Trunk'.head)
    BY <1>others, OthersOnlyMove DEF RevisionInv
  <2> SUFFICES ASSUME Quiet' PROVE QuietReadings'
    BY DEF QuietReadings
  <2>2. QuietReadings /\ captured.policy \in Commit /\ identity.policy \in Commit /\ liveMr.target \in DOMAIN branches
    BY DEF RevisionInv, RevisionTypes, MrTyped, ReadingTyped
  <2>3. ASSUME NEW r, Unmoved(r) PROVE Unmoved(r)'
    BY <2>1, <2>3 DEF Unmoved, ReviewedHead
  <2>4. ASSUME Unmoved(captured), SameTarget(captured) PROVE SameTarget(captured)'
    BY <2>1, <2>2, <2>4 DEF Unmoved, SameTarget
  <2>5. ASSUME Unmoved(identity), SameTarget(identity) PROVE SameTarget(identity)'
    BY <2>1, <2>2, <2>5 DEF Unmoved, SameTarget
  <2>6. FromTrunk(captured) => FromTrunk(captured)'
    BY <2>1, <2>2 DEF FromTrunk
  <2>7. FromTrunk(identity) => FromTrunk(identity)'
    BY <2>1, <2>2 DEF FromTrunk
  <2>8. (Unmoved(captured) => Unmoved(captured)' /\ UNCHANGED liveMr) /\ (Unmoved(identity) => Unmoved(identity)' /\ UNCHANGED liveMr)
    BY <2>1 DEF Unmoved, ReviewedHead
  <2>9. rcStep \in HasTarget => rcStep \in HasMr
    BY DEF HasMr, HasVersion
  <2>10. rcStep \in HasVersion => rcStep \in HasMr
    BY DEF HasMr
  <2> QED BY <2>1, <2>2, <2>4, <2>5, <2>6, <2>7, <2>8, <2>9, <2>10 DEF QuietReadings
<1>requestFails. CASE RequestFails
  BY <1>requestFails, FailedAnswer, EndOfReading DEF RevisionInv, RevisionTypes, MrTyped,
     forgeState, HasMr, HasVersion, HasTarget, HasPolicy, ReviewRead, Compared, PostingSteps,
     QuietReadings, Quiet, Unmoved, SameTarget, FromTrunk, Trunk, ReviewedHead
<1>readMr. CASE ReadMergeRequest
  <2>1. CASE \E reason \in {"stale", "terminal", "unavailable"} : AcquisitionEnds(reason)
    <3>1. /\ UNCHANGED <<origin, liveMr, branches, defaultBranch, moves, readFaults, captured, identity>>
          /\ rcStep' \in {"post", "posted"} /\ (handover' = "reviewed" => handover = "reviewed")
      BY <1>readMr, <2>1, EndOfReading, MergeRequestAnswer DEF forgeState, RevisionInv,
         RevisionTypes
    <3> QED BY <3>1 DEF RevisionInv, QuietReadings, Quiet, Unmoved, SameTarget, FromTrunk, Trunk,
       ReviewedHead,
                    HasMr, HasVersion, HasTarget, HasPolicy, ReviewRead, Compared
  <2>2. CASE ~\E reason \in {"stale", "terminal", "unavailable"} : AcquisitionEnds(reason)
    <3>1. /\ UNCHANGED <<origin, liveMr, branches, defaultBranch, moves, readFaults, identity, handover>>
          /\ liveMr.head = ReviewedHead /\ liveMr.life = "opened" /\ ~liveMr.pending
          /\ captured'.target = liveMr.target /\ captured'.refs = liveMr.refs
          /\ rcStep' \in {"versions", "postVersions"}
      BY <1>readMr, <2>2, MergeRequestAnswer DEF forgeState
    <3>2. (Quiet' => Quiet) /\ QuietReadings
      BY <3>1 DEF RevisionInv, Quiet
    <3>3. Unmoved(captured)'
      BY <3>1 DEF Unmoved, ReviewedHead
    <3>4. Quiet' /\ handover' = "reviewed" => /\ Unmoved(identity)' /\ identity'.version = liveMr'.version
                                  /\ SameTarget(identity)' /\ FromTrunk(identity)'
      BY <3>1, <3>2 DEF QuietReadings, Unmoved, SameTarget, FromTrunk, Trunk, ReviewedHead
    <3> QED BY <3>1, <3>2, <3>3, <3>4 DEF QuietReadings, HasMr, HasVersion, HasTarget,
       HasPolicy, ReviewRead, Compared
  <2> QED BY <2>1, <2>2
<1>readVersions. CASE ReadVersions
  <2>1. CASE AcquisitionEnds("unavailable")
    <3>1. /\ UNCHANGED <<origin, liveMr, branches, defaultBranch, moves, readFaults, captured, identity>>
          /\ rcStep' \in {"post", "posted"} /\ (handover' = "reviewed" => handover = "reviewed")
      BY <1>readVersions, <2>1, EndOfReading, VersionsAnswer DEF forgeState, RevisionInv,
         RevisionTypes
    <3> QED BY <3>1 DEF RevisionInv, QuietReadings, Quiet, Unmoved, SameTarget, FromTrunk, Trunk,
       ReviewedHead,
                    HasMr, HasVersion, HasTarget, HasPolicy, ReviewRead, Compared
  <2>2. CASE ~AcquisitionEnds("unavailable")
    <3>1. /\ UNCHANGED <<origin, liveMr, branches, defaultBranch, moves, readFaults, identity, handover>>
          /\ captured' = [captured EXCEPT !.version = liveMr.version]
          /\ rcStep \in {"versions", "postVersions"} /\ rcStep' \in {"target", "postTarget"}
      BY <1>readVersions, <2>2, VersionsAnswer DEF forgeState, RevisionInv, RevisionTypes
    <3>2. (Quiet' => Quiet) /\ QuietReadings
      BY <3>1 DEF RevisionInv, Quiet
    <3>3. captured'.version = liveMr.version /\ captured'.target = captured.target /\ captured'.refs = captured.refs
      BY <3>1, PartsOfReading DEF RevisionInv, RevisionTypes, ReadingTyped
    <3>5. Quiet' => Unmoved(captured)'
      BY <3>1, <3>2, <3>3 DEF QuietReadings, Unmoved, ReviewedHead, HasMr
    <3>4. Quiet' /\ handover' = "reviewed" => /\ Unmoved(identity)' /\ identity'.version = liveMr'.version
                                  /\ SameTarget(identity)' /\ FromTrunk(identity)'
      BY <3>1, <3>2 DEF QuietReadings, Unmoved, SameTarget, FromTrunk, Trunk, ReviewedHead
    <3> QED BY <3>1, <3>2, <3>3, <3>4, <3>5 DEF QuietReadings, HasTarget, HasPolicy,
       ReviewRead, Compared
  <2> QED BY <2>1, <2>2
<1>readTarget. CASE ReadTarget
  <2>1. CASE AcquisitionEnds("unavailable")
    <3>1. /\ UNCHANGED <<origin, liveMr, branches, defaultBranch, moves, readFaults, captured, identity>>
          /\ rcStep' \in {"post", "posted"} /\ (handover' = "reviewed" => handover = "reviewed")
      BY <1>readTarget, <2>1, EndOfReading, TargetAnswer DEF forgeState, RevisionInv,
         RevisionTypes
    <3> QED BY <3>1 DEF RevisionInv, QuietReadings, Quiet, Unmoved, SameTarget, FromTrunk, Trunk,
       ReviewedHead,
                    HasMr, HasVersion, HasTarget, HasPolicy, ReviewRead, Compared
  <2>2. CASE ~AcquisitionEnds("unavailable")
    <3> DEFINE b == branches[captured.target]
    <3>1. /\ UNCHANGED <<origin, liveMr, branches, defaultBranch, moves, readFaults, identity, handover>>
          /\ captured'.target = captured.target /\ captured'.refs = captured.refs /\ captured'.version = captured.version
          /\ captured'.targetHead = b.head /\ captured'.targetProtected = b.protected
          /\ rcStep \in {"target", "postTarget"} /\ rcStep' \in {"project", "postProject", "refs", "compare"}
      BY <1>readTarget, <2>2, TargetAnswer DEF forgeState, RevisionInv, RevisionTypes
    <3>2. (Quiet' => Quiet) /\ QuietReadings
      BY <3>1 DEF RevisionInv, Quiet
    <3>3. rcStep' \in {"refs", "compare"} =>
            ~(~b.protected /\ origin.mode = "auto") /\ captured'.policyBranch = captured.target
      BY <1>readTarget, <2>2, TargetAnswer DEF RevisionInv, RevisionTypes
    <3>5. Quiet' => Unmoved(captured)' /\ captured'.version = liveMr'.version
      BY <3>1, <3>2 DEF QuietReadings, Unmoved, ReviewedHead, HasMr, HasVersion
    <3>6. SameTarget(captured)'
      BY <3>1 DEF SameTarget
    <3>7. rcStep' \in {"refs", "compare"} => FromTrunk(captured)'
      BY <3>1, <3>3 DEF FromTrunk
    <3>8. Quiet' /\ handover' = "reviewed" /\ identity'.policyBranch # identity'.target =>
            rcStep' \notin {"refs", "compare"}
      <4> SUFFICES ASSUME Quiet', handover' = "reviewed", identity'.policyBranch # identity'.target
                   PROVE  rcStep' \notin {"refs", "compare"}
        OBVIOUS
      <4>1. /\ Unmoved(identity) /\ SameTarget(identity) /\ FromTrunk(identity) /\ Unmoved(captured)
            /\ identity.policyBranch # identity.target
        BY <3>1, <3>2 DEF QuietReadings, HasMr, HasVersion
      <4>2. /\ captured.target = identity.target /\ ~identity.targetProtected /\ origin.mode = "auto"
            /\ identity.policyBranch = defaultBranch /\ identity.target # defaultBranch
        BY <4>1 DEF Unmoved, FromTrunk
      <4>3. ~b.protected
        BY <4>1, <4>2 DEF SameTarget
      <4> QED BY <3>3, <4>2, <4>3
    <3>4. Quiet' /\ handover' = "reviewed" => /\ Unmoved(identity)' /\ identity'.version = liveMr'.version
                                  /\ SameTarget(identity)' /\ FromTrunk(identity)'
      BY <3>1, <3>2 DEF QuietReadings, Unmoved, SameTarget, FromTrunk, Trunk, ReviewedHead
    <3> HIDE DEF b
    <3> QED BY <3>1, <3>2, <3>4, <3>5, <3>6, <3>7, <3>8 DEF QuietReadings, HasPolicy,
       ReviewRead, Compared
  <2> QED BY <2>1, <2>2
<1>readProject. CASE ReadProject
  <2>1. /\ UNCHANGED <<origin, liveMr, branches, defaultBranch, moves, readFaults, identity, handover>>
        /\ captured' = [captured EXCEPT !.policyBranch = defaultBranch]
        /\ rcStep \in {"project", "postProject"} /\ rcStep' \in {"default", "postDefault"}
    BY <1>readProject, ProjectAnswer DEF forgeState
  <2>2. /\ captured'.policyBranch = defaultBranch /\ captured'.target = captured.target
        /\ captured'.refs = captured.refs /\ captured'.version = captured.version
        /\ captured'.targetHead = captured.targetHead /\ captured'.targetProtected = captured.targetProtected
    BY <2>1, PartsOfReading DEF RevisionInv, RevisionTypes, ReadingTyped
  <2> QED BY <2>1, <2>2 DEF RevisionInv, QuietReadings, Quiet, Unmoved, SameTarget, FromTrunk,
     Trunk, ReviewedHead,
                    HasMr, HasVersion, HasTarget, HasPolicy, ReviewRead, Compared
<1>readDefault. CASE ReadDefault
  <2>1. CASE AcquisitionEnds("unavailable")
    <3>1. /\ UNCHANGED <<origin, liveMr, branches, defaultBranch, moves, readFaults, captured, identity>>
          /\ rcStep' \in {"post", "posted"} /\ (handover' = "reviewed" => handover = "reviewed")
      BY <1>readDefault, <2>1, EndOfReading, DefaultAnswer DEF forgeState, RevisionInv,
         RevisionTypes
    <3> QED BY <3>1 DEF RevisionInv, QuietReadings, Quiet, Unmoved, SameTarget, FromTrunk, Trunk,
       ReviewedHead,
                    HasMr, HasVersion, HasTarget, HasPolicy, ReviewRead, Compared
  <2>2. CASE ~AcquisitionEnds("unavailable")
    <3> DEFINE b == branches[captured.policyBranch]
    <3>1. /\ UNCHANGED <<origin, liveMr, branches, defaultBranch, moves, readFaults, identity, handover>>
          /\ b.protected /\ captured' = [captured EXCEPT !.policy = b.head, !.policyProtected = TRUE]
          /\ rcStep \in {"default", "postDefault"} /\ rcStep' \in {"refs", "compare"}
      BY <1>readDefault, <2>2, DefaultAnswer DEF forgeState
    <3>2. (Quiet' => Quiet) /\ QuietReadings
      BY <3>1 DEF RevisionInv, Quiet
    <3>3. /\ captured'.target = captured.target /\ captured'.refs = captured.refs /\ captured'.version = captured.version
          /\ captured'.targetHead = captured.targetHead /\ captured'.targetProtected = captured.targetProtected
          /\ captured'.policyBranch = captured.policyBranch /\ captured'.policyProtected = TRUE
          /\ captured'.policy = b.head
      BY <3>1, PartsOfReading DEF RevisionInv, RevisionTypes, ReadingTyped
    <3>5. Quiet' => /\ Unmoved(captured)' /\ SameTarget(captured)' /\ captured'.version = liveMr'.version
                    /\ captured.policyBranch = defaultBranch
      BY <3>1, <3>2, <3>3 DEF QuietReadings, Unmoved, SameTarget, ReviewedHead, HasMr,
         HasVersion, HasTarget
    <3>6. captured.policyBranch \in DOMAIN branches /\ ~captured.targetProtected /\ origin.mode = "auto"
      BY <3>1 DEF RevisionInv, Readings, PassedChecks
    <3>7. b.head \in Commit
      BY <3>6, SetupFacts DEF RevisionInv
    <3>8. IsPrefix(b.head, b.head)
      BY <3>7, LineageFacts, PrefixIsLineage
    <3>9. Quiet' => FromTrunk(captured)' /\ b = Trunk
      BY <3>1, <3>3, <3>5, <3>6, <3>8 DEF FromTrunk, Trunk
    <3>10. Quiet' /\ handover' = "reviewed" /\ identity'.policyBranch # identity'.target =>
            IsPrefix(identity'.policy, captured'.policy)
      BY <3>1, <3>2, <3>3, <3>9 DEF QuietReadings, FromTrunk
    <3>4. Quiet' /\ handover' = "reviewed" => /\ Unmoved(identity)' /\ identity'.version = liveMr'.version
                                  /\ SameTarget(identity)' /\ FromTrunk(identity)'
      BY <3>1, <3>2 DEF QuietReadings, Unmoved, SameTarget, FromTrunk, Trunk, ReviewedHead
    <3> HIDE DEF b
    <3> QED BY <3>1, <3>2, <3>3, <3>4, <3>5, <3>9, <3>10 DEF QuietReadings
  <2> QED BY <2>1, <2>2
<1>proveRange. CASE ProveRange
  BY <1>proveRange, RangeProved DEF RevisionInv, RevisionTypes, MrTyped, forgeState, HasMr,
     HasVersion, HasTarget, HasPolicy, ReviewRead, Compared, PostingSteps, QuietReadings,
     Quiet, Unmoved, SameTarget, FromTrunk, Trunk, ReviewedHead
<1>checkPipeline. CASE CheckPipeline
  BY <1>checkPipeline, PipelineChecked DEF RevisionInv, RevisionTypes, MrTyped, forgeState,
     HasMr, HasVersion, HasTarget, HasPolicy, ReviewRead, Compared, PostingSteps,
     QuietReadings, Quiet, Unmoved, SameTarget, FromTrunk, Trunk, ReviewedHead
<1>compareRefs. CASE CompareRefs
  BY <1>compareRefs, RefsCompared DEF RevisionInv, RevisionTypes, MrTyped, forgeState, HasMr,
     HasVersion, HasTarget, HasPolicy, ReviewRead, Compared, PostingSteps, QuietReadings,
     Quiet, Unmoved, SameTarget, FromTrunk, Trunk, ReviewedHead
<1>materialize. CASE MaterializeRules
  BY <1>materialize, RulesMaterialized DEF RevisionInv, RevisionTypes, MrTyped, forgeState,
     HasMr, HasVersion, HasTarget, HasPolicy, ReviewRead, Compared, PostingSteps,
     QuietReadings, Quiet, Unmoved, SameTarget, FromTrunk, Trunk, ReviewedHead
<1>startPosting. CASE StartPosting
  BY <1>startPosting, PostingStarted DEF RevisionInv, RevisionTypes, MrTyped, forgeState, HasMr,
     HasVersion, HasTarget, HasPolicy, ReviewRead, Compared, PostingSteps, QuietReadings,
     Quiet, Unmoved, SameTarget, FromTrunk, Trunk, ReviewedHead, PassedChecks
<1>bind. CASE BindInvocation
  BY <1>bind, InvocationBound DEF RevisionInv, RevisionTypes, MrTyped, forgeState, HasMr,
     HasVersion, HasTarget, HasPolicy, ReviewRead, Compared, PostingSteps, QuietReadings,
     Quiet, Unmoved, SameTarget, FromTrunk, Trunk, ReviewedHead
<1>compare. CASE CompareTuple
  BY <1>compare, TupleCompared, IdentityAccepted DEF RevisionInv, RevisionTypes, MrTyped,
     forgeState, HasMr, HasVersion, HasTarget, HasPolicy, ReviewRead, Compared, PostingSteps,
     QuietReadings, Quiet, Unmoved, SameTarget, FromTrunk, Trunk, ReviewedHead
<1>proveForward. CASE ProveForward
  BY <1>proveForward, ForwardProved, IdentityAccepted DEF RevisionInv, RevisionTypes, MrTyped,
     forgeState, HasMr, HasVersion, HasTarget, HasPolicy, ReviewRead, Compared, PostingSteps,
     QuietReadings, Quiet, Unmoved, SameTarget, FromTrunk, Trunk, ReviewedHead, CloneShown,
     ReadingTyped
<1>fetches. CASE Fetches
  BY <1>fetches, CommitFetched DEF RevisionInv, RevisionTypes, MrTyped, forgeState, HasMr,
     HasVersion, HasTarget, HasPolicy, ReviewRead, Compared, PostingSteps, QuietReadings,
     Quiet, Unmoved, SameTarget, FromTrunk, Trunk, ReviewedHead
<1>fetchFails. CASE FetchFails
  BY <1>fetchFails, FetchFailed DEF RevisionInv, RevisionTypes, MrTyped, forgeState, HasMr,
     HasVersion, HasTarget, HasPolicy, ReviewRead, Compared, PostingSteps, QuietReadings,
     Quiet, Unmoved, SameTarget, FromTrunk, Trunk, ReviewedHead
<1>unchanged. CASE UNCHANGED rcVars
  BY <1>unchanged DEF rcVars, RevisionInv, RevisionTypes, MrTyped, forgeState, HasMr,
     HasVersion, HasTarget, HasPolicy, ReviewRead, Compared, PostingSteps, QuietReadings,
     Quiet, Unmoved, SameTarget, FromTrunk, Trunk, ReviewedHead
<1> QED BY <1>others, <1>requestFails, <1>readMr, <1>readVersions, <1>readTarget, <1>readProject,
   <1>readDefault, <1>proveRange, <1>checkPipeline, <1>compareRefs, <1>materialize,
   <1>startPosting, <1>bind, <1>compare, <1>proveForward, <1>fetches, <1>fetchFails,
   <1>unchanged DEF RevisionNext, Reads

(* A review is accepted only where one moment of the posting job was all that *)
(* it was compared with.                                                      *)
LEMMA AgreedIsWhole ==
  ASSUME RevisionInv, rcStep \in {"compare"} \cup Compared, DiffStands, TargetStands
  PROVE  \E m \in moments :
           /\ m[1] = "posting" /\ m[2].life = "opened"
           /\ m[2].head = identity.head /\ m[2].target = identity.target
           /\ m[2].refs = identity.refs /\ m[2].version = identity.version
<1>1. /\ rcStep \in HasMr /\ rcStep \in HasVersion /\ rcStep \in Answering /\ JobAt(rcStep) = "posting"
  BY DEF HasMr, HasVersion, HasTarget, HasPolicy, Answering, Compared, JobAt, PostingSteps
<1>2. captured.head = ReviewedHead /\ OneMoment(captured)
  BY <1>1 DEF RevisionInv, Readings
<1>3. PICK m \in moments :
        /\ m[1] = "posting" /\ m[2].life = "opened" /\ m[2].head = captured.head /\ m[2].target = captured.target
        /\ m[2].refs = captured.refs /\ identity.version <= m[2].version /\ m[2].version <= captured.version
  BY <1>1, <1>2 DEF OneMoment
<1>4. identity.head = ReviewedHead
  BY <1>1 DEF RevisionInv, PassedChecks
<1>5. m[2].version \in Nat /\ identity.version \in Nat
  BY DEF RevisionInv, Moments, RevisionTypes, ReadingTyped
<1>6. m[2].version = identity.version
  BY <1>3, <1>5 DEF DiffStands
<1> QED BY <1>2, <1>3, <1>4, <1>6 DEF DiffStands, TargetStands

(* Every step keeps a published review one of a moment.                       *)
LEMMA RevisionWhole ==
  ASSUME RevisionInv, [RevisionNext]_rcVars
  PROVE  PublishedWasWhole'
<1> USE DEF RevisionInv, RevisionTypes, MrTyped, forgeState, HasMr, HasVersion, HasTarget,
            HasPolicy, ReviewRead, Compared, PostingSteps, RevisionCaptureSafe,
            PublishedWasWhole, PassedChecks
<1>others. CASE OthersMove
  <2>1. rcStep # "posted" /\ verdict = "none" /\ UNCHANGED verdict
    BY <1>others, OthersOnlyMove DEF RevisionInv, PassedChecks
  <2> QED BY <2>1 DEF PublishedWasWhole
<1>requestFails. CASE RequestFails
  BY <1>requestFails, FailedAnswer, EndOfReading
<1>readMr. CASE ReadMergeRequest
  BY <1>readMr, MergeRequestAnswer, EndOfReading
<1>readVersions. CASE ReadVersions
  BY <1>readVersions, VersionsAnswer, EndOfReading
<1>readTarget. CASE ReadTarget
  BY <1>readTarget, TargetAnswer, EndOfReading
<1>readProject. CASE ReadProject
  BY <1>readProject, ProjectAnswer
<1>readDefault. CASE ReadDefault
  BY <1>readDefault, DefaultAnswer, EndOfReading
<1>proveRange. CASE ProveRange
  BY <1>proveRange, RangeProved
<1>checkPipeline. CASE CheckPipeline
  BY <1>checkPipeline, PipelineChecked
<1>compareRefs. CASE CompareRefs
  BY <1>compareRefs, RefsCompared
<1>materialize. CASE MaterializeRules
  BY <1>materialize, RulesMaterialized
<1>startPosting. CASE StartPosting
  BY <1>startPosting, PostingStarted
<1>bind. CASE BindInvocation
  BY <1>bind, InvocationBound
<1>compare. CASE CompareTuple
  <2>1. rcStep = "compare" /\ UNCHANGED <<moments, identity>> /\ verdict = "none"
    BY <1>compare, TupleCompared
  <2>2. verdict' = "current" => DiffStands /\ TargetStands
    BY <1>compare, <2>1, TupleCompared
  <2> QED BY <2>1, <2>2, AgreedIsWhole DEF PublishedWasWhole
<1>proveForward. CASE ProveForward
  <2>1. Covered /\ identity.policy \in Commit /\ captured.policy \in Commit
    BY DEF CloneShown, ReadingTyped
  <2>2. rcStep \in Compared /\ UNCHANGED <<moments, identity>>
    BY <1>proveForward, <2>1, ForwardProved DEF forgeState, Compared
  <2>3. DiffStands /\ TargetStands
    BY <2>2 DEF RevisionInv, PassedChecks
  <2> QED BY <2>2, <2>3, AgreedIsWhole DEF PublishedWasWhole
<1>fetches. CASE Fetches
  BY <1>fetches, CommitFetched
<1>fetchFails. CASE FetchFails
  BY <1>fetchFails, FetchFailed
<1>unchanged. CASE UNCHANGED rcVars
  BY <1>unchanged DEF rcVars
<1> QED BY <1>others, <1>requestFails, <1>readMr, <1>readVersions, <1>readTarget, <1>readProject,
   <1>readDefault, <1>proveRange, <1>checkPipeline, <1>compareRefs, <1>materialize,
   <1>startPosting, <1>bind, <1>compare, <1>proveForward, <1>fetches, <1>fetchFails,
   <1>unchanged DEF RevisionNext, Reads

(* Every step keeps the policy of a published review the authority's.         *)
LEMMA RevisionPolicy ==
  ASSUME RevisionInv, [RevisionNext]_rcVars
  PROVE  PolicyStands'
<1> USE DEF RevisionInv, RevisionTypes, MrTyped, forgeState, HasMr, HasVersion, HasTarget,
            HasPolicy, ReviewRead, Compared, PostingSteps, RevisionCaptureSafe, PolicyStands,
            PassedChecks
<1>others. CASE OthersMove
  <2>1. rcStep # "posted" /\ verdict = "none" /\ UNCHANGED verdict
    BY <1>others, OthersOnlyMove DEF RevisionInv, PassedChecks
  <2> QED BY <2>1 DEF PolicyStands
<1>requestFails. CASE RequestFails
  BY <1>requestFails, FailedAnswer, EndOfReading
<1>readMr. CASE ReadMergeRequest
  BY <1>readMr, MergeRequestAnswer, EndOfReading
<1>readVersions. CASE ReadVersions
  BY <1>readVersions, VersionsAnswer, EndOfReading
<1>readTarget. CASE ReadTarget
  BY <1>readTarget, TargetAnswer, EndOfReading
<1>readProject. CASE ReadProject
  BY <1>readProject, ProjectAnswer
<1>readDefault. CASE ReadDefault
  BY <1>readDefault, DefaultAnswer, EndOfReading
<1>proveRange. CASE ProveRange
  BY <1>proveRange, RangeProved
<1>checkPipeline. CASE CheckPipeline
  BY <1>checkPipeline, PipelineChecked
<1>compareRefs. CASE CompareRefs
  BY <1>compareRefs, RefsCompared
<1>materialize. CASE MaterializeRules
  BY <1>materialize, RulesMaterialized
<1>startPosting. CASE StartPosting
  BY <1>startPosting, PostingStarted
<1>bind. CASE BindInvocation
  BY <1>bind, InvocationBound
<1>compare. CASE CompareTuple
  <2>1. rcStep = "compare" /\ UNCHANGED <<captured, identity>> /\ verdict = "none"
    BY <1>compare, TupleCompared DEF RevisionInv, PassedChecks
  <2>2. /\ verdict' # "policy_rewritten"
        /\ verdict' = "current" => captured.policy = identity.policy
    BY <1>compare, <2>1, TupleCompared, IdentityAccepted
  <2>3. captured.policy \in Commit
    BY DEF ReadingTyped
  <2>4. IsPrefix(captured.policy, captured.policy)
    BY <2>3, LineageFacts, PrefixIsLineage
  <2> QED BY <2>1, <2>2, <2>4 DEF PolicyStands
<1>proveForward. CASE ProveForward
  <2>1. Covered /\ identity.policy \in Commit /\ captured.policy \in Commit
    BY DEF CloneShown, ReadingTyped
  <2>2. /\ rcStep \in {"prove", "proveAgain"} /\ UNCHANGED <<origin, captured, identity, branches>>
        /\ verdict' = "current" => IsAncestor(identity.policy, captured.policy) = "yes"
        /\ verdict' = "policy_rewritten" => IsAncestor(identity.policy, captured.policy) = "no"
    <3>1. verdict = "none"
      BY <1>proveForward, <2>1, ForwardProved DEF RevisionInv, PassedChecks
    <3> QED BY <1>proveForward, <2>1, <3>1, ForwardProved, IdentityAccepted DEF forgeState
  <2>3. captured.policy \in clone.have /\ SeparatePolicy(identity) /\ AuthorityStands /\ Readable(identity)
    BY <2>2 DEF CloneShown, Answering
  <2>4. captured.policyProtected
    BY <2>3 DEF SeparatePolicy, AuthorityStands, Readable
  <2>5. SeparatePolicy(identity)'
    BY <2>2, <2>3 DEF SeparatePolicy
  <2> QED BY <2>1, <2>2, <2>3, <2>4, <2>5, AncestryIsTrue DEF PolicyStands
<1>fetches. CASE Fetches
  BY <1>fetches, CommitFetched
<1>fetchFails. CASE FetchFails
  BY <1>fetchFails, FetchFailed
<1>unchanged. CASE UNCHANGED rcVars
  BY <1>unchanged DEF SeparatePolicy, rcVars
<1> QED BY <1>others, <1>requestFails, <1>readMr, <1>readVersions, <1>readTarget, <1>readProject,
   <1>readDefault, <1>proveRange, <1>checkPipeline, <1>compareRefs, <1>materialize,
   <1>startPosting, <1>bind, <1>compare, <1>proveForward, <1>fetches, <1>fetchFails,
   <1>unchanged DEF RevisionNext, Reads

(* Every step keeps a status that sends everybody home true.                 *)
LEMMA RevisionStatus ==
  ASSUME RevisionInv, [RevisionNext]_rcVars
  PROVE  StatusIsTrue'
<1> USE DEF RevisionInv, HasMr, HasVersion, HasTarget, HasPolicy, ReviewRead, PostingSteps,
            RevisionCaptureSafe, StatusIsTrue, ReviewedHead, ReviewedBase
<1>others. CASE OthersMove
  BY <1>others, OthersOnlyMove DEF RevisionTypes, MrTyped, forgeState, Compared, PassedChecks
<1>requestFails. CASE RequestFails
  BY <1>requestFails, FailedAnswer, EndOfReading DEF RevisionTypes, MrTyped, forgeState,
     Compared, PassedChecks
<1>readMr. CASE ReadMergeRequest
  <2>1. /\ UNCHANGED <<origin, moments>> /\ rcStep \in {"mr", "postMr"}
        /\ \/ rcStep = "mr" /\ handover' = "stale" /\ liveMr.head # ReviewedHead
           \/ rcStep = "mr" /\ handover' = "terminal" /\ liveMr.life # "opened"
           \/ handover' = handover
           \/ handover' = "unavailable"
    BY <1>readMr, MergeRequestAnswer, EndOfReading DEF forgeState, PostingSteps
  <2>2. rcStep = "mr" => <<"review", liveMr>> \in moments
    BY DEF Moments, JobAt
  <2> QED BY <2>1, <2>2
<1>readVersions. CASE ReadVersions
  BY <1>readVersions, VersionsAnswer, EndOfReading DEF RevisionTypes, MrTyped, forgeState,
     Compared, PassedChecks
<1>readTarget. CASE ReadTarget
  BY <1>readTarget, TargetAnswer, EndOfReading DEF RevisionTypes, MrTyped, forgeState, Compared,
     PassedChecks
<1>readProject. CASE ReadProject
  BY <1>readProject, ProjectAnswer DEF RevisionTypes, MrTyped, forgeState, Compared, PassedChecks
<1>readDefault. CASE ReadDefault
  BY <1>readDefault, DefaultAnswer, EndOfReading DEF RevisionTypes, MrTyped, forgeState,
     Compared, PassedChecks
<1>proveRange. CASE ProveRange
  BY <1>proveRange, RangeProved DEF RevisionTypes, MrTyped, forgeState, Compared, PassedChecks
<1>checkPipeline. CASE CheckPipeline
  BY <1>checkPipeline, PipelineChecked DEF RevisionTypes, MrTyped, forgeState, Compared,
     PassedChecks
<1>compareRefs. CASE CompareRefs
  <2>1. /\ rcStep = "refs" /\ UNCHANGED <<origin, moments>>
        /\ \/ UNCHANGED handover
           \/ handover' = "stale" /\ (captured.refs[1] # ReviewedBase \/ captured.refs[3] # ReviewedHead)
    BY <1>compareRefs, RefsCompared DEF forgeState
  <2>2. /\ rcStep \in HasMr /\ JobAt(rcStep) = "review"
    BY <2>1 DEF JobAt
  <2>3. captured.head = ReviewedHead /\ captured.refs[3] = captured.head /\ OneMoment(captured)
    BY <2>2 DEF RevisionInv, Readings
  <2>4. \E m \in moments : m[1] = "review" /\ m[2].refs = captured.refs
    BY <2>2, <2>3 DEF OneMoment
  <2> QED BY <2>1, <2>3, <2>4
<1>materialize. CASE MaterializeRules
  BY <1>materialize, RulesMaterialized DEF RevisionTypes, MrTyped, forgeState, Compared,
     PassedChecks
<1>startPosting. CASE StartPosting
  BY <1>startPosting, PostingStarted DEF RevisionTypes, MrTyped, forgeState, Compared,
     PassedChecks
<1>bind. CASE BindInvocation
  BY <1>bind, InvocationBound DEF RevisionTypes, MrTyped, forgeState, Compared, PassedChecks
<1>compare. CASE CompareTuple
  BY <1>compare, TupleCompared, IdentityAccepted DEF RevisionTypes, MrTyped, forgeState,
     Compared, PassedChecks
<1>proveForward. CASE ProveForward
  BY <1>proveForward, ForwardProved, IdentityAccepted DEF RevisionTypes, MrTyped, forgeState,
     Compared, PassedChecks, CloneShown, ReadingTyped
<1>fetches. CASE Fetches
  BY <1>fetches, CommitFetched DEF RevisionTypes, MrTyped, forgeState, Compared, PassedChecks
<1>fetchFails. CASE FetchFails
  BY <1>fetchFails, FetchFailed DEF RevisionTypes, MrTyped, forgeState, Compared, PassedChecks
<1>unchanged. CASE UNCHANGED rcVars
  BY <1>unchanged DEF rcVars, RevisionTypes, MrTyped, forgeState, Compared, PassedChecks
<1> QED BY <1>others, <1>requestFails, <1>readMr, <1>readVersions, <1>readTarget, <1>readProject,
   <1>readDefault, <1>proveRange, <1>checkPipeline, <1>compareRefs, <1>materialize,
   <1>startPosting, <1>bind, <1>compare, <1>proveForward, <1>fetches, <1>fetchFails,
   <1>unchanged DEF RevisionNext, Reads

(* Every step keeps what is handed over readable.                             *)
LEMMA RevisionReadable ==
  ASSUME RevisionInv, [RevisionNext]_rcVars
  PROVE  CapturedIsReadable'
<1> USE DEF RevisionInv, RevisionTypes, MrTyped, forgeState, HasMr, HasVersion, HasTarget,
            HasPolicy, ReviewRead, Compared, PostingSteps, RevisionCaptureSafe,
            CapturedIsReadable, Readable
<1>others. CASE OthersMove
  BY <1>others, OthersOnlyMove
<1>requestFails. CASE RequestFails
  BY <1>requestFails, FailedAnswer, EndOfReading
<1>readMr. CASE ReadMergeRequest
  BY <1>readMr, MergeRequestAnswer, EndOfReading
<1>readVersions. CASE ReadVersions
  BY <1>readVersions, VersionsAnswer, EndOfReading
<1>readTarget. CASE ReadTarget
  BY <1>readTarget, TargetAnswer, EndOfReading
<1>readProject. CASE ReadProject
  BY <1>readProject, ProjectAnswer
<1>readDefault. CASE ReadDefault
  BY <1>readDefault, DefaultAnswer, EndOfReading
<1>proveRange. CASE ProveRange
  BY <1>proveRange, RangeProved
<1>checkPipeline. CASE CheckPipeline
  BY <1>checkPipeline, PipelineChecked
<1>compareRefs. CASE CompareRefs
  BY <1>compareRefs, RefsCompared
<1>materialize. CASE MaterializeRules
  <2>1. /\ rcStep = "rules" /\ UNCHANGED <<origin, branches, moves, captured>>
        /\ \/ handover' \in {"reviewed", "setup"} /\ identity' = captured
           \/ handover' = "error"
    BY <1>materialize, RulesMaterialized DEF forgeState
  <2>2. Protections => Readable(captured)
    BY <2>1 DEF ProtectionsKept
  <2> QED BY <2>1, <2>2 DEF Protections
<1>startPosting. CASE StartPosting
  BY <1>startPosting, PostingStarted DEF PassedChecks
<1>bind. CASE BindInvocation
  BY <1>bind, InvocationBound
<1>compare. CASE CompareTuple
  BY <1>compare, TupleCompared, IdentityAccepted
<1>proveForward. CASE ProveForward
  BY <1>proveForward, ForwardProved, IdentityAccepted DEF CloneShown, ReadingTyped
<1>fetches. CASE Fetches
  BY <1>fetches, CommitFetched
<1>fetchFails. CASE FetchFails
  BY <1>fetchFails, FetchFailed
<1>unchanged. CASE UNCHANGED rcVars
  BY <1>unchanged DEF rcVars
<1> QED BY <1>others, <1>requestFails, <1>readMr, <1>readVersions, <1>readTarget, <1>readProject,
   <1>readDefault, <1>proveRange, <1>checkPipeline, <1>compareRefs, <1>materialize,
   <1>startPosting, <1>bind, <1>compare, <1>proveForward, <1>fetches, <1>fetchFails,
   <1>unchanged DEF RevisionNext, Reads

(* While the forge is quiet, a review that was handed over with a policy of its *)
(* own finds at every step of the posting job what it was captured with.      *)
LEMMA QuietHandover ==
  ASSUME RevisionInv, Quiet, handover = "reviewed", identity.policyBranch # identity.target
  PROVE  /\ Readable(identity) /\ origin.mode = "auto" /\ identity.target # defaultBranch
         /\ liveMr.head = ReviewedHead /\ liveMr.life = "opened" /\ ~liveMr.pending
         /\ Trunk.protected /\ PipelineIsOf(identity.head) /\ identity.refs[1] = ReviewedBase
         /\ rcStep \in HasMr => captured.refs = liveMr.refs
         /\ rcStep \in {"default", "postDefault"} => captured.policyBranch = defaultBranch
         /\ rcStep \in {"compare"} \cup Compared =>
              /\ DiffStands /\ TargetStands /\ AuthorityStands /\ SeparatePolicy(identity)
              /\ IsPrefix(identity.policy, captured.policy)
<1>1. /\ Unmoved(identity) /\ identity.version = liveMr.version
      /\ SameTarget(identity) /\ FromTrunk(identity)
      /\ rcStep \in HasMr => Unmoved(captured)
      /\ rcStep \in HasVersion => captured.version = liveMr.version
      /\ rcStep \in HasTarget => SameTarget(captured)
      /\ rcStep \in {"default", "postDefault"} => captured.policyBranch = defaultBranch
      /\ rcStep \in HasPolicy => FromTrunk(captured)
      /\ rcStep \in {"compare"} \cup Compared => IsPrefix(identity.policy, captured.policy)
  BY DEF RevisionInv, QuietReadings
<1>2. /\ ~identity.targetProtected /\ origin.mode = "auto" /\ identity.policyBranch = defaultBranch
      /\ identity.policyProtected /\ Trunk.protected /\ identity.target # defaultBranch
      /\ identity.targetHead = branches[identity.target].head
      /\ identity.targetProtected = branches[identity.target].protected
  BY <1>1 DEF FromTrunk, SameTarget
<1>3. PipelineIsOf(ReviewedHead) /\ identity.head = ReviewedHead /\ identity.refs[1] = ReviewedBase
  BY DEF RevisionInv, PassedChecks
<1>4. Readable(identity)
  <2>1. \A b \in DOMAIN branches : <<"protect", b>> \notin moves
    BY DEF Quiet
  <2> QED BY <2>1 DEF RevisionInv, RevisionCaptureSafe, CapturedIsReadable
<1>5. ASSUME rcStep \in {"compare"} \cup Compared
      PROVE  DiffStands /\ TargetStands /\ AuthorityStands /\ SeparatePolicy(identity)
  <2>1. rcStep \in HasMr /\ rcStep \in HasVersion /\ rcStep \in HasTarget /\ rcStep \in HasPolicy
    BY <1>5 DEF HasMr, HasVersion, HasTarget, HasPolicy
  <2>2. captured.target = liveMr.target /\ captured.refs = liveMr.refs
        /\ identity.target = liveMr.target /\ identity.refs = liveMr.refs
    BY <1>1, <2>1 DEF Unmoved
  <2>3. captured.targetHead = identity.targetHead /\ captured.targetProtected = identity.targetProtected
    BY <1>1, <1>2, <2>1, <2>2 DEF SameTarget
  <2>4. captured.policyBranch = defaultBranch /\ captured.policyProtected = identity.policyProtected
    <3>1. ReadingTyped(captured) /\ ReadingTyped(identity)
      BY DEF RevisionInv, RevisionTypes
    <3> QED BY <1>1, <1>2, <2>1, <2>3, <3>1 DEF FromTrunk, ReadingTyped
  <2> QED BY <1>1, <1>2, <2>1, <2>2, <2>3, <2>4 DEF DiffStands, TargetStands, AuthorityStands,
     SeparatePolicy
<1> QED BY <1>1, <1>2, <1>3, <1>4, <1>5 DEF Unmoved

(* Every step keeps a quiet review from being refused.                        *)
LEMMA RevisionAccepts ==
  ASSUME RevisionInv, [RevisionNext]_rcVars
  PROVE  QuietReviewIsAccepted'
<1> DEFINE Refused == /\ verdict' \notin {"none", "current"} /\ handover' = "reviewed" /\ Quiet'
                      /\ identity'.policyBranch # identity'.target
<1> SUFFICES ASSUME Refused PROVE Len(captured'.policy) - Len(identity'.policy) >= FetchDepth
  BY DEF QuietReviewIsAccepted, Quiet
<1>from. ASSUME UNCHANGED <<origin, defaultBranch, moves, readFaults, identity, handover>>
         PROVE  Quiet /\ handover = "reviewed" /\ identity.policyBranch # identity.target
  BY <1>from DEF Quiet
<1>none. rcStep # "posted" => verdict = "none"
  BY DEF RevisionInv, PassedChecks
<1>faults. readFaults' # readFaults + 1
  BY DEF Quiet, RevisionInv, RevisionTypes
<1>others. CASE OthersMove
  <2>1. rcStep # "posted" /\ UNCHANGED verdict
    BY <1>others, OthersOnlyMove DEF RevisionInv
  <2> QED BY <1>none, <2>1
<1>requestFails. CASE RequestFails
  BY <1>requestFails, <1>faults, FailedAnswer
<1>readMr. CASE ReadMergeRequest
  <2>1. rcStep \in {"mr", "postMr"} /\ UNCHANGED <<origin, defaultBranch, moves, readFaults, liveMr>>
        /\ \/ UNCHANGED <<identity, handover>>
           \/ handover' \in {"stale", "terminal", "unavailable"}
    BY <1>readMr, MergeRequestAnswer, EndOfReading DEF forgeState
  <2>2. Quiet /\ handover = "reviewed" /\ identity.policyBranch # identity.target
    BY <1>from, <2>1
  <2>3. liveMr.head = ReviewedHead /\ liveMr.life = "opened" /\ ~liveMr.pending
    BY <2>2, QuietHandover
  <2> QED BY <1>readMr, <1>none, <2>1, <2>3, MergeRequestAnswer
<1>readVersions. CASE ReadVersions
  <2>1. rcStep \in {"versions", "postVersions"} /\ UNCHANGED <<origin, defaultBranch, moves, readFaults, liveMr>>
        /\ \/ UNCHANGED <<identity, handover>>
           \/ handover' \in {"stale", "terminal", "unavailable"}
    BY <1>readVersions, VersionsAnswer, EndOfReading DEF forgeState, RevisionInv, RevisionTypes
  <2>2. Quiet /\ handover = "reviewed" /\ identity.policyBranch # identity.target
    BY <1>from, <2>1
  <2>3. captured.refs = liveMr.refs
    BY <2>1, <2>2, QuietHandover DEF HasMr
  <2> QED BY <1>readVersions, <1>none, <2>1, <2>3, VersionsAnswer DEF RevisionInv, RevisionTypes
<1>readTarget. CASE ReadTarget
  <2>1. rcStep \in {"target", "postTarget"} /\ UNCHANGED <<origin, defaultBranch, moves, readFaults>>
        /\ \/ UNCHANGED <<identity, handover>>
           \/ handover' \in {"stale", "terminal", "unavailable"}
    BY <1>readTarget, TargetAnswer, EndOfReading DEF forgeState, RevisionInv, RevisionTypes
  <2>2. Quiet /\ handover = "reviewed" /\ identity.policyBranch # identity.target
    BY <1>from, <2>1
  <2>3. origin.mode = "auto"
    BY <2>2, QuietHandover
  <2> QED BY <1>readTarget, <1>none, <2>1, <2>3, TargetAnswer DEF RevisionInv, RevisionTypes
<1>readProject. CASE ReadProject
  <2>1. rcStep # "posted" /\ UNCHANGED verdict
    BY <1>readProject, ProjectAnswer
  <2> QED BY <1>none, <2>1
<1>readDefault. CASE ReadDefault
  <2>1. rcStep \in {"default", "postDefault"} /\ UNCHANGED <<origin, defaultBranch, moves, readFaults>>
        /\ \/ UNCHANGED <<identity, handover>>
           \/ handover' \in {"stale", "terminal", "unavailable"}
    BY <1>readDefault, DefaultAnswer, EndOfReading DEF forgeState
  <2>2. Quiet /\ handover = "reviewed" /\ identity.policyBranch # identity.target
    BY <1>from, <2>1
  <2>3. captured.policyBranch = defaultBranch /\ Trunk.protected
    BY <2>1, <2>2, QuietHandover
  <2> QED BY <1>readDefault, <1>none, <2>1, <2>3, DefaultAnswer DEF Trunk
<1>proveRange. CASE ProveRange
  BY <1>proveRange, RangeProved DEF Quiet, RevisionInv, RevisionTypes, ReadingTyped,
     PassedChecks, forgeState
<1>checkPipeline. CASE CheckPipeline
  BY <1>checkPipeline, PipelineChecked DEF Quiet, RevisionInv, RevisionTypes, ReadingTyped,
     PassedChecks, forgeState
<1>compareRefs. CASE CompareRefs
  BY <1>compareRefs, RefsCompared DEF Quiet, RevisionInv, RevisionTypes, ReadingTyped,
     PassedChecks, forgeState
<1>materialize. CASE MaterializeRules
  BY <1>materialize, RulesMaterialized DEF Quiet, RevisionInv, RevisionTypes, ReadingTyped,
     PassedChecks, forgeState
<1>startPosting. CASE StartPosting
  <2>1. rcStep = "post" /\ UNCHANGED <<origin, defaultBranch, moves, readFaults, identity, handover>>
        /\ \/ UNCHANGED verdict
           \/ handover = "reviewed" => ~Readable(identity)
    BY <1>startPosting, PostingStarted DEF RevisionInv, PassedChecks
  <2>2. Quiet /\ handover = "reviewed" /\ identity.policyBranch # identity.target
    BY <1>from, <2>1
  <2> QED BY <1>none, <2>1, <2>2, QuietHandover
<1>bind. CASE BindInvocation
  <2>1. rcStep = "bind" /\ UNCHANGED <<origin, defaultBranch, moves, readFaults, identity, handover>>
        /\ \/ UNCHANGED verdict
           \/ ~(origin.sameJob /\ PipelineIsOf(identity.head) /\ identity.refs[1] = ReviewedBase)
    BY <1>bind, InvocationBound DEF forgeState
  <2>2. Quiet /\ handover = "reviewed" /\ identity.policyBranch # identity.target
    BY <1>from, <2>1
  <2> QED BY <1>none, <2>1, <2>2, QuietHandover DEF Quiet
<1>compare. CASE CompareTuple
  <2>1. rcStep = "compare" /\ UNCHANGED <<origin, defaultBranch, moves, readFaults, identity, handover>>
        /\ \/ UNCHANGED verdict
           \/ AcceptIdentity
           \/ ~(DiffStands /\ TargetStands /\ AuthorityStands /\ SeparatePolicy(identity))
    BY <1>compare, TupleCompared DEF forgeState
  <2>2. Quiet /\ handover = "reviewed" /\ identity.policyBranch # identity.target
    BY <1>from, <2>1
  <2>3. DiffStands /\ TargetStands /\ AuthorityStands /\ SeparatePolicy(identity)
    BY <2>1, <2>2, QuietHandover
  <2>4. ~AcceptIdentity
    BY <2>2, IdentityAccepted
  <2> QED BY <1>none, <2>1, <2>3, <2>4
<1>proveForward. CASE ProveForward
  <2> DEFINE old == identity.policy
             new == captured.policy
  <2>1. Covered /\ old \in Commit /\ new \in Commit
    BY DEF RevisionInv, CloneShown, RevisionTypes, ReadingTyped
  <2>2. /\ rcStep \in {"prove", "proveAgain"}
        /\ UNCHANGED <<origin, defaultBranch, moves, readFaults, clone, captured, identity, handover>>
        /\ \/ UNCHANGED verdict
           \/ AcceptIdentity
           \/ IsAncestor(old, new) = "no"
           \/ IsAncestor(old, new) = "shallow" /\ rcStep = "proveAgain"
    BY <1>proveForward, <2>1, ForwardProved DEF forgeState
  <2>3. Quiet /\ handover = "reviewed" /\ identity.policyBranch # identity.target
    BY <1>from, <2>2
  <2>4. IsPrefix(old, new) /\ new \in clone.have
    BY <2>2, <2>3, QuietHandover DEF Compared, RevisionInv, CloneShown
  <2>5. IsAncestor(old, new) # "no"
    BY <2>1, <2>4, AncestryIsTrue
  <2>6. ~AcceptIdentity
    BY <2>3, IdentityAccepted
  <2>7. IsAncestor(old, new) = "shallow" /\ rcStep = "proveAgain"
    BY <1>none, <2>2, <2>5, <2>6
  <2>8. \A q \in Lineage(new) : Len(q) > Len(new) - FetchDepth + 1 => q \in clone.have \ clone.cut
    BY <2>7 DEF RevisionInv, CloneShown
  <2>9. ~(Len(new) - Len(old) < FetchDepth)
    BY <2>1, <2>4, <2>7, <2>8, NearIsSeen
  <2>10. Len(old) \in Nat /\ Len(new) \in Nat /\ FetchDepth \in Nat
    BY <2>1, RevisionAssumption DEF Commit
  <2>11. Len(new) - Len(old) >= FetchDepth
    <3> HIDE DEF old, new
    <3>1. \A a, b, d \in Nat : ~(a - b < d) => a - b >= d
      OBVIOUS
    <3> QED BY <2>9, <2>10, <3>1
  <2> QED BY <2>2, <2>11
<1>fetches. CASE Fetches
  <2>1. rcStep # "posted" /\ UNCHANGED verdict
    BY <1>fetches, CommitFetched
  <2> QED BY <1>none, <2>1
<1>fetchFails. CASE FetchFails
  BY <1>fetchFails, <1>faults, FetchFailed
<1>unchanged. CASE UNCHANGED rcVars
  BY <1>unchanged DEF rcVars, RevisionCaptureSafe, QuietReviewIsAccepted, Quiet, RevisionInv,
     RevisionTypes, ReadingTyped, PassedChecks, forgeState
<1> QED BY <1>others, <1>requestFails, <1>readMr, <1>readVersions, <1>readTarget, <1>readProject,
   <1>readDefault, <1>proveRange, <1>checkPipeline, <1>compareRefs, <1>materialize,
   <1>startPosting, <1>bind, <1>compare, <1>proveForward, <1>fetches, <1>fetchFails,
   <1>unchanged DEF RevisionNext, Reads

(* What the runner cloned shows every line it has down to its cut.           *)
LEMMA ClonedIsCovered ==
  ASSUME NEW head \in Commit, NEW depth \in Nat, clone = CloneOf(head, depth)
  PROVE  Covered
<1>0. Len(head) \in Nat
  BY DEF Commit
<1>1. CASE depth = 0
  <2>1. clone.have = Lineage(head) /\ clone.cut = {}
    BY <1>1 DEF CloneOf
  <2> QED BY <2>1, LineageFacts DEF Covered
<1>2. CASE depth # 0
  <2> DEFINE bottom == {p \in Newest(head, depth) : Len(p) = Len(head) - depth + 1 /\ p # <<>>}
  <2>1. clone.have = Newest(head, depth) /\ clone.cut = bottom
    BY <1>2 DEF CloneOf
  <2>2. \A p : p \in clone.have <=> p \in Lineage(head) /\ Len(p) > Len(head) - depth
    BY <2>1 DEF Newest
  <2>3. \A p : p \in clone.cut <=> p \in clone.have /\ Len(p) = Len(head) - depth + 1 /\ p # <<>>
    BY <2>1
  <2> HIDE DEF bottom
  <2>4. clone.cut \subseteq clone.have /\ clone.have \subseteq Commit
    BY <2>2, <2>3, LineageFacts
  <2>5. ASSUME NEW c \in clone.have, NEW p \in Lineage(c), p \notin clone.have
        PROVE  \E q \in clone.cut : p \in Lineage(q) /\ q \in Lineage(c)
    <3>1. c \in Lineage(head) /\ c \in Commit /\ Len(c) \in Nat /\ Len(c) > Len(head) - depth
      BY <1>0, <2>2, LineageFacts
    <3>2. p \in Lineage(head) /\ p \in Commit /\ Len(p) \in Nat /\ Len(p) <= Len(head) - depth
      BY <1>0, <2>2, <2>5, <3>1, LineageFacts
    <3>3. Len(head) - depth + 1 \in 0..Len(head)
      BY <1>0, <1>2, <3>2
    <3> DEFINE b == SubSeq(head, 1, Len(head) - depth + 1)
    <3>4. b \in Lineage(head) /\ b \in Commit /\ Len(b) = Len(head) - depth + 1
      BY <3>3, LineagePart DEF Lineage
    <3> HIDE DEF b
    <3>5. b # <<>>
      BY <1>0, <3>2, <3>4
    <3>6. b \in clone.cut
      BY <1>0, <2>2, <2>3, <3>4, <3>5
    <3>7. p \in Lineage(b) /\ b \in Lineage(c)
      BY <1>0, <3>1, <3>2, <3>4, LineageFacts
    <3> QED BY <3>6, <3>7
  <2> QED BY <2>4, <2>5 DEF Covered, CutBelow
<1> QED BY <1>1, <1>2

(* The invariant holds when the pipeline starts.                             *)
LEMMA RevisionStarts ==
  ASSUME RevisionInit
  PROVE  RevisionInv
<1>1. /\ origin \in Setups /\ liveMr = origin.forge.mr /\ branches = origin.forge.branches
      /\ defaultBranch = origin.forge.default /\ moves = {} /\ readFaults = 0
      /\ clone = CloneOf(origin.forge.mr.head, origin.depth)
      /\ captured = NothingRead /\ identity = NothingRead /\ handover = "none" /\ verdict = "none"
      /\ rcStep = "range" /\ moments = {<<"review", origin.forge.mr>>}
  BY DEF RevisionInit
<1>2. /\ origin.depth \in Nat
      /\ DOMAIN liveMr = {"head", "target", "life", "version", "refs", "pending"}
      /\ liveMr.head \in Commit /\ liveMr.target \in DOMAIN branches /\ liveMr.version \in Nat \ {0}
      /\ liveMr.pending \in BOOLEAN /\ (~liveMr.pending => liveMr.refs[3] = liveMr.head)
      /\ branches \in [DOMAIN origin.forge.branches -> [head : Commit, protected : BOOLEAN]]
      /\ defaultBranch \in DOMAIN branches
  BY <1>1, SetupAssumption
<1>3. /\ rcStep \notin HasMr /\ rcStep \notin HasVersion /\ rcStep \notin HasTarget /\ rcStep \notin HasPolicy
      /\ rcStep \notin ReviewRead /\ rcStep \notin Answering /\ rcStep \notin Compared /\ rcStep \notin PostingSteps
  BY <1>1 DEF HasMr, HasVersion, HasTarget, HasPolicy, ReviewRead, Answering, Compared,
     PostingSteps
<1>4. ReadingTyped(NothingRead)
  BY EmptyIsCommit DEF ReadingTyped, NothingRead
<1>5. RevisionTypes
  BY <1>1, <1>2, <1>4 DEF RevisionTypes, MrTyped
<1>6. Moments /\ Readings /\ PassedChecks
  <2>1. NothingRead.version = 0
    BY DEF NothingRead
  <2> QED BY <1>1, <1>2, <1>3, <2>1 DEF Moments, Readings, PassedChecks, JobAt
<1>7. CloneShown
  <2>1. Covered
    BY <1>1, <1>2, ClonedIsCovered
  <2> QED BY <1>1, <2>1 DEF CloneShown
<1>8. ProtectionsKept /\ QuietReadings
  BY <1>1, <1>3 DEF ProtectionsKept, QuietReadings
<1>9. RevisionCaptureSafe
  BY <1>1 DEF RevisionCaptureSafe, PublishedWasWhole, PolicyStands, StatusIsTrue,
     CapturedIsReadable,
              QuietReviewIsAccepted
<1> QED BY <1>5, <1>6, <1>7, <1>8, <1>9 DEF RevisionInv

(* What is published was whole at one moment, follows the authority's policy, *)
(* and is not refused for nothing; a status is true; a capture is readable    *)
(* (acquire_review_snapshot of providers/gitlab.py,                           *)
(* validate_review_freshness of posting/freshness.py).                        *)
THEOREM CaptureHolds == RevisionSpec => []RevisionCaptureSafe
<1>1. RevisionInit => RevisionInv
  BY RevisionStarts
<1>2. RevisionInv /\ [RevisionNext]_rcVars => RevisionInv'
  BY RevisionTyped, RevisionMoments, RevisionReadings, RevisionPassed, RevisionShown,
     RevisionProtected,
     RevisionQuiet, RevisionWhole, RevisionPolicy, RevisionStatus, RevisionReadable, RevisionAccepts
     DEF RevisionInv, RevisionCaptureSafe
<1>3. RevisionInv => RevisionCaptureSafe
  BY DEF RevisionInv
<1> QED BY <1>1, <1>2, <1>3, PTL DEF RevisionSpec
==============================================================================
