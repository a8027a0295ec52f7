---------------------------- MODULE MCFederation ----------------------------
(* Instances of FederationRuntime: calls and arguments are interchangeable.  *)
EXTENDS FederationInvariant, TLC

CONSTANTS c1, c2, c3, t1, a1, a2, a3

ThreeCalls == {c1, c2, c3}
OneTool == {t1}
OneArgument == {a1}
ThreeArguments == {a1, a2, a3}

NoErrors == {}
Rejections == {"arguments_invalid", "limit"}
Failures == {"tool_failed", "dlp_rejected", "oversized"}
FailureOnly == {"tool_failed"}

OneSize == {1}
TwoSizes == {1, 2}

Symmetric == Permutations(Call) \cup Permutations(Argument)
=============================================================================
