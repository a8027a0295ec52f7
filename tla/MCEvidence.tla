----------------------------- MODULE MCEvidence -----------------------------
(* Instances of EvidenceServers for TLC: two review groups.                  *)
EXTENDS EvidenceServers

CONSTANTS s1, s2, d1, d2

TwoActions == {"summary", "search"}
OneSize == {2}

TwoServers == {s1, s2}
TwoDiagrams == {d1, d2}
=============================================================================
