----------------------------- MODULE MCHandoff -----------------------------
(* Instances of ReviewHandoff for TLC: a GitLab job, a second GitLab job and *)
(* a local run in one checkout.                                              *)
EXTENDS ReviewHandoff, TLC

CONSTANTS g1, g2, l1
MCPair == {g1, g2}
MCMixed == {g1, l1}
MCLocal == {l1}
MCNone == {}
=============================================================================
