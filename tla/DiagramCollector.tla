-------------------------- MODULE DiagramCollector --------------------------
(* The private collector of one run's diagram (diagrams/collector.py): the   *)
(* server processes submit through one locked file that counts every         *)
(* submission and keeps a candidate only while all of them agree.            *)
EXTENDS EvidenceServer

CONSTANTS
  Diagram,          \* normalized valid submissions, "not-applicable" included
  Sizes,            \* wire bytes of a submission
  MaxSubmissions, MaxBytes

ASSUME CollectorAssumption ==
  /\ None \notin Diagram
  /\ Sizes # {} /\ Sizes \subseteq Nat \ {0} /\ MaxSubmissions \in Nat \ {0} /\ MaxBytes \in Nat \ {0}

VARIABLES
  collector,        \* the file, as a CollectorSnapshot
  collectorLock,    \* holder of the flock
  submission,       \* what each process is submitting
  previous,         \* what it read under the lock
  proposed          \* what OCR asked to submit in this run (history)

collectorVars == <<collector, collectorLock, submission, previous, proposed>>

(* A value that parse_submission refuses is None.                            *)
Value == Diagram \cup {None}
Reason == {"none", "invalid", "conflict", "budget"}
Snapshot == [submissions : 0 .. MaxSubmissions + 1, inputBytes : 0 .. MaxBytes + 1,
             reason : Reason, candidate : Value]
Fresh == [submissions |-> 0, inputBytes |-> 0, reason |-> "none", candidate |-> None]

ASSUME SnapshotAssumption == None \notin Snapshot

NoSubmission == [value |-> None, size |-> CHOOSE n \in Sizes : TRUE]

CollectorTypes ==
  /\ collector \in Snapshot /\ collectorLock \in Server \cup {None}
  /\ submission \in [Server -> [value : Value, size : Sizes]]
  /\ previous \in [Server -> Snapshot] /\ proposed \subseteq Value

CollectorInit ==
  /\ collector = Fresh /\ collectorLock = None
  /\ submission = [s \in Server |-> NoSubmission]
  /\ previous = [s \in Server |-> Fresh] /\ proposed = {}

UpTo(limit, n) == IF n > limit THEN limit + 1 ELSE n
Saturated(limit, n) == UpTo(limit, n)

(* submit: the first reason to omit stays, an exhausted budget outranks it.  *)
Verdict(old, value, count, total) ==
  IF count > MaxSubmissions \/ total > MaxBytes THEN "budget"
  ELSE IF old.reason # "none" THEN old.reason
  ELSE IF value = None THEN "invalid"
  ELSE IF old.candidate \notin {None, value} THEN "conflict" ELSE "none"

Submitted(old, value, size) ==
  LET count == Saturated(MaxSubmissions, old.submissions + 1)
      total == Saturated(MaxBytes, old.inputBytes + size)
      reason == Verdict(old, value, count, total)
  IN [submissions |-> count, inputBytes |-> total, reason |-> reason,
      candidate |-> IF reason = "none" THEN value ELSE None]

SubmitRequest(s, value, size) ==
  /\ at[s] = "idle"
  /\ Moves(s, "submit")
  /\ Counted("diagram")
  /\ submission' = [submission EXCEPT ![s] = [value |-> value, size |-> size]]
  /\ proposed' = proposed \cup {value}
  /\ UNCHANGED <<collector, collectorLock, previous>>

LockCollector(s) ==
  /\ at[s] = "submit" /\ collectorLock = None
  /\ collectorLock' = s
  /\ previous' = [previous EXCEPT ![s] = collector]
  /\ Moves(s, "submitting")
  /\ UNCHANGED <<byTool, collector, submission, proposed>>

Answer(s) ==
  /\ Moves(s, "idle")
  /\ submission' = [submission EXCEPT ![s] = NoSubmission]
  /\ previous' = [previous EXCEPT ![s] = Fresh]
  /\ UNCHANGED <<byTool, proposed>>

(* Another process held the lock for a second: the submission is not counted.*)
LockTimesOut(s) ==
  /\ at[s] = "submit" /\ collectorLock # None
  /\ Answer(s)
  /\ UNCHANGED <<collector, collectorLock>>

Submit(s) ==
  /\ at[s] = "submitting"
  /\ collector' = Submitted(previous[s], submission[s].value, submission[s].size)
  /\ collectorLock' = None
  /\ Answer(s)

(* Any other error: the optional tool answers "unavailable".                 *)
SubmitFails(s) ==
  /\ at[s] \in {"submit", "submitting"}
  /\ collectorLock' = IF collectorLock = s THEN None ELSE collectorLock
  /\ Answer(s)
  /\ UNCHANGED collector

Collects(s) == LockCollector(s) \/ LockTimesOut(s) \/ Submit(s) \/ SubmitFails(s)
=============================================================================
