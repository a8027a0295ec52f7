------------------------ MODULE FederationInvariant ------------------------
(***************************************************************************)
(* Why the properties of FederationRuntime hold: what a dispatch, a call,   *)
(* the account and the thread know of each other at every step.             *)
(***************************************************************************)
EXTENDS FederationRuntime

(* A running dispatch is found under its key, so nobody starts a second one. *)
FlightInv ==
  \A c \in Call :
    /\ task[c] # "none" => key[c] \in Key
    /\ call[c] = "waiting" => key[c] \in Key /\ waitsFor[c] \in Call
    /\ call[c] = "idle" => task[c] = "none"
    /\ task[c] \in Live => dispatches[key[c]] = c

(* Every delivered result is known to the publication filter, and the runner *)
(* reads the filter after OCR used the last result.                          *)
PublicationInv ==
  /\ returned \subseteq publication
  /\ parent = "exited" => seen \subseteq returned
  /\ parent \in {"joining", "cancelling", "returned"} => seen \subseteq forbidden

(* The diagnostic counters are subsets of the outcomes they explain.         *)
Diagnosed(t) ==
  /\ Denials(t) <= counts[t]["denied"]
  /\ counts[t]["cache_hits"] + counts[t]["single_flight"] <= counts[t]["attempted"]
  /\ counts[t]["gate_protected"] = counts[t]["dlp_rejected"]
  /\ counts[t]["gate_limit"] <= counts[t]["oversized"]

(* Only a call over the limit is missing from the account, and it spoils the *)
(* receipt.                                                                  *)
AccountInv ==
  /\ AttemptsAccounted
  /\ \A t \in Tool : Diagnosed(t)
  /\ totalCalls <= MaxCalls
  /\ ~cleanupFailed => totalCalls = Cardinality({c \in Call : call[c] # "idle"})

(* Once upstream sessions are being closed nothing can start any more.       *)
ThreadInv ==
  /\ thread \in {"tearing", "done"} => AllSettled
  /\ receipt => thread = "done" /\ sessions = "closed" /\ ~cleanupFailed
  /\ parent = "returned" => receipt

(* While a request runs nothing is cached under its key, so its result       *)
(* replaces no entry.                                                        *)
CacheInv ==
  /\ CacheExact
  /\ \A i \in DOMAIN cache : cache[i].size <= CacheBytes
  /\ \A c \in Call : task[c] \in Live => Cached(key[c]) = {}

FederationInv == FlightInv /\ PublicationInv /\ AccountInv /\ ThreadInv /\ CacheInv
=============================================================================
