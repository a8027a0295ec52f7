----------------------------- MODULE MCPosting -----------------------------
(* Instances of Posting for TLC: the configurations of a posting job.       *)
EXTENDS PostingInvariant, TLC

CONSTANTS r1, r2, i1, i2, i3

Job1 == {r1}
Job2 == {r1, r2}
Inline1 == {i1}
Inline3 == {i1, i2, i3}

AllConfigs ==
  {c \in Config : /\ c.eligible => c.identity /\ c.kind = "complete"
                  /\ ~c.identity => c.kind # "filtered"}
CurrentConfigs == {c \in AllConfigs : c.identity}
DirectApproving == {c \in AllConfigs : c.eligible /\ ~c.draft}
OverlapConfigs ==
  {c \in AllConfigs : c.strict /\ ~c.eligible /\ c.kind # "filtered"}

OldPlainReview == {i1, "summary"}
JobSymmetry == Permutations(Run)
OldShort == {i1, "summary", "terminal"}
OldSummary == {"summary"}
Nobody == {}
People == Reaction
OneFound == {{i1}}
AllFound == {Inline3}
=============================================================================
