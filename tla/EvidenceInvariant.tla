------------------------- MODULE EvidenceInvariant -------------------------
(* Why the properties of EvidenceServers hold: what the holder of a lock     *)
(* knows of the file, and how OCR's own count bounds what the servers did.   *)
EXTENDS EvidenceServers

(* Only the holder of a lock is between the read and the replacement, and    *)
(* what it read is the file.                                                 *)
LockInv ==
  \A s \in Server :
    /\ at[s] \in {"attempting", "completing"} => receiptLock = s /\ read[s] = CountsOf(receipt)
    /\ at[s] = "submitting" => collectorLock = s /\ previous[s] = collector

Completing(a) == {s \in Server : at[s] \in {"complete", "completing"} /\ action[s] = a}

(* A completion is counted, or still to be counted, of something served.     *)
ServedInv ==
  /\ \A a \in Action : recorded.completed[a] + Cardinality(Completing(a)) <= served[a]
  /\ \A a \in Action : CountsOf(taken).completed[a] <= served[a]
  /\ runner = "reviewed" => CountsOf(taken).completed["summary"] >= 1

Submitting == {s \in Server : at[s] \in {"submit", "submitting"}}
Held(c) == {c.candidate} \ {None}

(* A submission that is neither in the collector nor on its way makes OCR's  *)
(* count larger; as long as none is missing, the candidate and what is on    *)
(* its way are all that was ever proposed.                                   *)
CollectorInv ==
  /\ collector.submissions + Cardinality(Submitting) <= byTool["diagram"]
  /\ Held(collector) \subseteq proposed
  /\ collector.reason = "none" /\ collector.submissions + Cardinality(Submitting) = byTool["diagram"] =>
       proposed \subseteq Held(collector) \cup {submission[s].value : s \in Submitting}
  /\ \A s \in Submitting : submission[s].value \in proposed

(* The captured snapshot keeps saying so, since OCR no longer asks.          *)
SnapshotInv ==
  /\ runner \in {"ocr", "exited", "read"} => snapshot = None
  /\ snapshot # None =>
       /\ Held(snapshot) \subseteq proposed
       /\ snapshot.reason = "none" /\ snapshot.submissions = byTool["diagram"] =>
            proposed \subseteq Held(snapshot)
  /\ diagram # None => runner \in Ended /\ proposed = {diagram}

EvidenceInv == LockInv /\ CountsExact /\ ServedInv /\ CollectorInv /\ SnapshotInv
=============================================================================
