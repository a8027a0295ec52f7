------------------------------- MODULE MCParts -------------------------------
(* Instances for TLC of the components that share no state with one another. *)
(* A behaviour is one component's: `part` says whose, and never changes; the *)
(* variables of the others rest on one initial value, the smallest there is. *)
EXTENDS PartsInvariant, ReceiptContract, ContextStore, EvidenceCollection,
        GitlinkReview, DebugBundle, SourceExcerpts,
        FindingPlacement, EvidenceQueries, UpstreamTransport, StableRelease, ActionsCleanup, TLC

VARIABLE part

partsVars == <<statusVars, clientVars, receiptVars, contextVars, evidenceVars, gitlinkVars, rcVars,
              progressVars, debugVars, auditVars, sourceVars, placementVars, queryVars, wireVars, upstreamVars,
              releaseVars, cleanupVars>>

-----------------------------------------------------------------------------
(* StatusNotes: one active job with any request, or two overlapping ones.    *)
StatusRequest(r, d, s) == [reason |-> r, draft |-> d, strict |-> s]
MCStatusPlans ==
    {[j \in StatusJob |-> IF j = "j1" THEN StatusRequest(r, d, s) ELSE StatusRequest("silent", FALSE, FALSE)] :
        r \in Reason, d \in BOOLEAN, s \in BOOLEAN}
    \cup {[j \in StatusJob |-> StatusRequest("setup", j = "j1", FALSE)]}
    \cup {[j \in StatusJob |-> StatusRequest("terminal", FALSE, TRUE)]}

(* GitLabClient: less than a page, exactly two full pages, one note more.    *)
MCShelves == {<<"a">>, <<"a", "b", "c", "d">>, <<"a", "b", "c", "d", "e">>}

-----------------------------------------------------------------------------
(* ReceiptContract: every way a text may be written, every combination of    *)
(* tool statistics, and every outcome, each against the others' usual value. *)
BaseSettings == [dlp |-> TRUE, target |-> "protected", degraded |-> FALSE, partial |-> FALSE,
                 private |-> FALSE, diagram |-> "on"]
MCSettings ==
    {BaseSettings, [BaseSettings EXCEPT !.dlp = FALSE], [BaseSettings EXCEPT !.degraded = TRUE],
     [BaseSettings EXCEPT !.partial = TRUE], [BaseSettings EXCEPT !.private = TRUE]}
    \cup {[BaseSettings EXCEPT !.target = t] : t \in {"auto", "local", "unprotected"}}
    \cup {[BaseSettings EXCEPT !.diagram = d] : d \in {"off", "broken"}}
NoManifest(s, b) == [manifest |-> FALSE, status |-> s, budget |-> b, completed |-> 0, failed |-> 0,
                     waived |-> 0, budgetItem |-> FALSE, runFailure |-> "none"]
MCNoManifest ==
    {NoManifest(s, s = "budget_exceeded") : s \in
        {"success", "completed_with_warnings", "completed_with_errors", "budget_exceeded", "skipped"}}
    \cup {NoManifest("success", TRUE)}
MCManifest ==
    [manifest : {TRUE}, status : {"manifest"}, budget : BOOLEAN, completed : 0..1, failed : 0..1,
     waived : 0..1, budgetItem : BOOLEAN, runFailure : {"none", "budget", "other"}]
Completed == [manifest |-> TRUE, status |-> "manifest", budget |-> FALSE, completed |-> 1, failed |-> 0,
              waived |-> 0, budgetItem |-> FALSE, runFailure |-> "none"]
UsualTools == [total |-> 2, evidence |-> 1, received |-> 1, summary |-> 1, diagram |-> 1, submissions |-> 1,
               failures |-> "absent", failedEvidence |-> 0, failedDiagram |-> 0, failedOther |-> 0]
NoTools == [UsualTools EXCEPT !.total = 0, !.evidence = 0, !.received = 0, !.summary = 0, !.diagram = 0,
                              !.submissions = 0]
MCTools ==
    {t \in [total : {0, 3}, evidence : 0..2, received : 0..2, summary : 0..1, diagram : 0..1,
            submissions : 0..1, failures : {"absent", "invalid", "valid"}, failedEvidence : 0..1,
            failedDiagram : 0..1, failedOther : 0..1] :
        /\ t.summary <= t.received
        /\ t.failedEvidence <= t.evidence /\ t.failedDiagram <= t.diagram
        /\ t.failures # "valid" => t.failedEvidence + t.failedDiagram + t.failedOther = 0}
Finding(x, y, l) == [content |-> x, code |-> y, low |-> l]
PlainFinding == Finding("plain", "plain", TRUE)
MCFindings ==
    {<<>>, <<PlainFinding>>}
    \cup {<<Finding(x, y, TRUE)>> : x \in ProseText, y \in ProseText \ {"markup", "compound"}}
    \cup {<<PlainFinding, Finding(x, "plain", l)>> : x \in ProseText, l \in BOOLEAN}
UsualProse == [message |-> "plain", comments |-> <<PlainFinding>>, warnings |-> <<>>, privateText |-> "none"]
MCWarnings == {<<>>} \cup {<<t>> : t \in ProseText}
MCProse ==
    {[message |-> m, comments |-> UsualProse.comments, warnings |-> w, privateText |-> p] :
        m \in ProseText, w \in MCWarnings, p \in PrivateText}
    \cup {[UsualProse EXCEPT !.comments = c, !.privateText = p] : c \in MCFindings, p \in PrivateText}
    \cup {[UsualProse EXCEPT !.comments = c, !.message = m] : c \in MCFindings, m \in ProseText}
    \cup {[UsualProse EXCEPT !.comments = c, !.warnings = w] : c \in MCFindings, w \in MCWarnings}
ReportGroup(s, o, t, p) == [settings |-> s, outcome |-> o, tools |-> t, prose |-> p]
MCReports ==
    {ReportGroup({BaseSettings}, {Completed}, {UsualTools}, MCProse),
     ReportGroup({s \in MCSettings : s.target = "protected" /\ ~s.private}, {Completed}, MCTools, {UsualProse}),
     ReportGroup({BaseSettings}, {NoManifest("success", FALSE)}, MCTools, {UsualProse}),
     ReportGroup(MCSettings, MCNoManifest \cup MCManifest, {UsualTools, NoTools},
                 {UsualProse, [UsualProse EXCEPT !.comments = <<>>]}),
     ReportGroup(MCSettings, MCNoManifest \cup {Completed, [Completed EXCEPT !.failed = 1]}, {UsualTools},
                 [message : {"plain", "secret"}, comments : {UsualProse.comments}, warnings : {<<>>},
                  privateText : PrivateText])}

-----------------------------------------------------------------------------
(* ForgeContext and ContextStore: boards whose threads are cut, refused and   *)
(* admitted by every rule, over two pages of two threads.                     *)
BoardThread(m, kinds) == [marked |-> m, notes |-> [i \in DOMAIN kinds |-> Note(kinds[i], 1)]]
MCBoards ==
    {<<>>,
     <<BoardThread(FALSE, <<"good", "private">>), BoardThread(TRUE, <<"good", "good">>), BoardThread(FALSE, <<"good">>)>>,
     <<BoardThread(TRUE, <<"good", "command">>), BoardThread(FALSE, <<"long">>), BoardThread(TRUE, <<"good", "good">>)>>,
     <<BoardThread(FALSE, <<"stranger", "good">>), BoardThread(TRUE, <<"good", "unfit">>)>>,
     <<BoardThread(FALSE, <<"unsafe">>), BoardThread(TRUE, <<"unsafe", "good">>),
       BoardThread(TRUE, <<"good", "good">>), BoardThread(FALSE, <<"good">>)>>}
CIJob(i, d) == [id |-> i, done |-> d]
MCPipelines ==
    {<<[id |-> 1, jobs |-> {CIJob(1, 2)}], [id |-> 2, jobs |-> {CIJob(2, 1)}]>>,
     <<[id |-> 2, jobs |-> {CIJob(2, 0)}], [id |-> 1, jobs |-> {CIJob(1, 2)}], [id |-> 3, jobs |-> {}]>>}
SourcePolicy(on, required, threads, replies, all, size) ==
    [on |-> on, required |-> required, threads |-> threads, replies |-> replies, items |-> all, units |-> size]
SourceOff == SourcePolicy(FALSE, FALSE, 9, 9, 9, 9)
ContextPolicy(talk, fix, ciOn, oldest, text, legacy, all, size) ==
    [talk |-> talk, fix |-> fix, ci |-> [on |-> ciOn, required |-> TRUE, oldest |-> oldest, checks |-> 1,
                                         text |-> "good"],
     schema |-> IF legacy = "none" THEN 4 ELSE 3, publishesText |-> text, legacy |-> legacy,
     records |-> all, units |-> size]
MCContextPolicies ==
    {ContextPolicy(SourceOff, SourceOff, TRUE, 0, FALSE, "none", 0, 9),
     ContextPolicy(SourcePolicy(TRUE, FALSE, 9, 9, 9, 9), SourcePolicy(TRUE, TRUE, 9, 9, 9, 9), FALSE, 0, FALSE, "none", 9, 9),
     ContextPolicy(SourcePolicy(TRUE, TRUE, 9, 9, 9, 9), SourceOff, FALSE, 0, TRUE, "none", 2, 9),
     ContextPolicy(SourceOff, SourcePolicy(TRUE, TRUE, 1, 1, 2, 9), FALSE, 1, FALSE, "required", 9, 9),
     ContextPolicy(SourceOff, SourceOff, TRUE, 1, FALSE, "optional", 9, 9),
     ContextPolicy(SourcePolicy(TRUE, TRUE, 1, 1, 2, 1), SourcePolicy(TRUE, FALSE, 1, 1, 3, 2), FALSE, 1, FALSE, "none", 9, 9),
     ContextPolicy(SourcePolicy(TRUE, FALSE, 9, 9, 9, 9), SourcePolicy(TRUE, TRUE, 9, 9, 9, 9), FALSE, 0, FALSE, "none", 9, 2)}
    \cup {[ContextPolicy(SourceOff, SourceOff, TRUE, 0, FALSE, "none", 9, 9) EXCEPT !.ci.text = "private", !.ci.required = r] :
            r \in BOOLEAN}

-----------------------------------------------------------------------------
(* EvidenceCollection: five trees of up to four files, in every combination   *)
(* of base, head and target; under the tight store budgets, a policy or a     *)
(* failing reading, the target is a tree of its own or none.                  *)
TreeFact(k, i, v) == [kind |-> k, id |-> i, value |-> v]
TreeFile(p, b, r, s, facts) == [path |-> p, blob |-> b, read |-> r, scope |-> s, facts |-> facts]
MCTrees ==
    {<<TreeFile(1, "x", "ok", 8, <<TreeFact("group", 1, "a")>>), TreeFile(2, "x", "ok", 8, <<TreeFact("group", 2, "a")>>),
       TreeFile(4, "x", "ok", 0, <<TreeFact("manifest", 1, "a"), TreeFact("framework", 1, "large")>>)>>,
     <<TreeFile(1, "x", "ok", 8, <<TreeFact("group", 1, "a")>>), TreeFile(2, "y", "omitted", 8, <<TreeFact("group", 2, "a")>>),
       TreeFile(4, "y", "ok", 0, <<TreeFact("manifest", 1, "secret1"), TreeFact("framework", 1, "a")>>),
       TreeFile(5, "x", "ok", 0, <<TreeFact("framework", 1, "b"), TreeFact("manifest", 2, "a")>>)>>,
     <<TreeFile(1, "z", "dynamic", 8, <<TreeFact("group", 1, "a")>>), TreeFile(3, "x", "ok", 0, <<TreeFact("playbook", 1, "a")>>),
       TreeFile(4, "z", "ok", 0, <<TreeFact("manifest", 1, "ambiguous"), TreeFact("manifest", 2, "b")>>)>>,
     <<TreeFile(1, "w", "ok", 8, <<TreeFact("group", 1, "a"), TreeFact("group", 2, "a"), TreeFact("group", 3, "a")>>),
       TreeFile(2, "v", "ok", 9, <<TreeFact("group", 2, "a")>>),
       TreeFile(4, "y", "ok", 0, <<TreeFact("manifest", 1, "secret2"), TreeFact("framework", 1, "large")>>),
       TreeFile(5, "w", "ok", 0, <<TreeFact("framework", 1, "large")>>)>>,
     <<TreeFile(1, "x", "link", 8, <<>>), TreeFile(3, "y", "ok", 0, <<TreeFact("playbook", 1, "a")>>),
       TreeFile(4, "u", "broken", 0, <<TreeFact("manifest", 1, "a")>>)>>}
Playbook(p) == TreeFile(p, "x", "ok", 0, <<TreeFact("playbook", 1, "a")>>)
StoreBudget(all, kind, size, topology, targets) ==
    [records |-> all, kind |-> kind, bytes |-> size, topology |-> topology, targets |-> targets]
MCPlaybooks ==
    {[base |-> <<Playbook(2), Playbook(3)>>, head |-> <<Playbook(1), Playbook(2), Playbook(3)>>, target |-> <<>>,
      targetIs |-> "none", policy |-> <<>>, budget |-> StoreBudget(99, 99, 99, 2, 1), failing |-> {},
      invocation |-> 1, tie |-> "head"]}
MCNothing == [base |-> <<>>, head |-> <<>>, target |-> <<>>, targetIs |-> "none", policy |-> <<>>,
              budget |-> StoreBudget(1, 1, 1, 1, 1), failing |-> {}, invocation |-> 1, tie |-> "head"]
WideBudget == StoreBudget(99, 99, 99, 99, 9)
MCBudgets ==
    {StoreBudget(10, 3, 99, 3, 1), StoreBudget(99, 2, 99, 2, 9),
     StoreBudget(99, 99, 26, 99, 9), StoreBudget(14, 99, 99, 99, 9), StoreBudget(99, 4, 34, 2, 9),
     StoreBudget(12, 4, 34, 9, 9)}
CommitsOf(b, h, t, p, u) ==
    [base |-> b, head |-> h, target |-> t[1], targetIs |-> t[2], policy |-> p[1], budget |-> u, failing |-> p[2],
     invocation |-> 1, tie |-> "head"]
OtherTargets == (MCTrees \X {"other"}) \cup {<<<<>>, "none">>}
MCTargets == OtherTargets \cup (MCTrees \X {"head"})
MCCommits ==
    {MCNothing} \cup MCPlaybooks \cup
    {CommitsOf(b, h, t, <<<<>>, {}>>, WideBudget) : b \in MCTrees, h \in MCTrees, t \in MCTargets}
    \cup {CommitsOf(b, h, t, p, WideBudget) : b \in MCTrees, h \in MCTrees, t \in OtherTargets,
                                              p \in {<<<<"a">>, {}>>, <<<<>>, {"head"}>>}}
    \cup {CommitsOf(b, h, t, <<<<>>, {}>>, u) : b \in MCTrees, h \in MCTrees, t \in OtherTargets, u \in MCBudgets}

-----------------------------------------------------------------------------
(* GitlinkReview: ordinary changes beside a pointer that is added, updated,  *)
(* deleted or moved, ambiguous moves, a pointer in place of a directory, a   *)
(* symbolic link, files that are only alike, and ranges that cannot be       *)
(* planned.                                                                  *)
TreeOf(a, b, m, x, n) == (<<"a">> :> a) @@ (<<"b">> :> b) @@ (<<"m">> :> m) @@ (<<"m", "x">> :> x) @@ (<<"n">> :> n)
Blob(x) == <<"file", x>>
Link(x) == <<"link", x>>
Renaming(b, h, pairs) ==
    [base |-> b, head |-> h, renames |-> pairs, readable |-> TRUE, modules |-> "fine", capable |-> TRUE]
CommitRange(b, h) ==
    Renaming(b, h, {m \in (DOMAIN b) \X (DOMAIN b) : /\ b[m[1]] # NoEntry /\ h[m[1]] = NoEntry
                                                 /\ b[m[2]] = NoEntry /\ h[m[2]] = b[m[1]]})
TwoAdded == CommitRange(TreeOf(Blob(1), NoEntry, NoEntry, NoEntry, NoEntry),
                        TreeOf(Blob(2), NoEntry, Link(1), NoEntry, Link(2)))
MCRanges ==
    {CommitRange(TreeOf(Blob(1), NoEntry, Link(1), NoEntry, NoEntry), TreeOf(Blob(2), NoEntry, Link(2), NoEntry, NoEntry)),
     CommitRange(TreeOf(Blob(1), Blob(3), Link(1), NoEntry, NoEntry), TreeOf(Blob(2), NoEntry, NoEntry, NoEntry, Link(1))),
     CommitRange(TreeOf(Blob(1), NoEntry, Link(1), NoEntry, NoEntry), TreeOf(NoEntry, Blob(1), Link(1), NoEntry, Link(2))),
     CommitRange(TreeOf(Blob(1), NoEntry, Link(1), NoEntry, NoEntry), TreeOf(Blob(1), NoEntry, Link(2), NoEntry, NoEntry)),
     CommitRange(TreeOf(Blob(1), Blob(2), Link(1), NoEntry, Link(2)), TreeOf(Blob(3), NoEntry, NoEntry, Blob(4), Link(3))),
     CommitRange(TreeOf(Blob(1), Blob(2), NoEntry, Blob(4), NoEntry), TreeOf(Blob(3), NoEntry, Link(1), NoEntry, NoEntry)),
     CommitRange(TreeOf(Blob(1), Blob(2), NoEntry, NoEntry, Link(1)), TreeOf(Blob(3), Blob(2), NoEntry, Blob(4), Blob(5))),
     CommitRange(TreeOf(Blob(1), <<"symlink", 2>>, Link(1), NoEntry, NoEntry),
                 TreeOf(Blob(3), <<"symlink", 3>>, NoEntry, NoEntry, NoEntry)),
     Renaming(TreeOf(Blob(1), NoEntry, Link(1), NoEntry, Link(1)), TreeOf(Blob(2), Link(1), NoEntry, NoEntry, NoEntry),
              {<<<<"m">>, <<"b">>>>}),
     Renaming(TreeOf(Blob(1), NoEntry, Link(1), NoEntry, Blob(1)), TreeOf(NoEntry, Blob(2), Link(2), NoEntry, NoEntry),
              {<<<<"a">>, <<"b">>>>}),
     CommitRange(TreeOf(Blob(1), NoEntry, NoEntry, NoEntry, NoEntry), TreeOf(Blob(2), NoEntry, NoEntry, NoEntry, NoEntry)),
     TwoAdded, [TwoAdded EXCEPT !.modules = "unsafe"], [TwoAdded EXCEPT !.modules = "broken"],
     [TwoAdded EXCEPT !.capable = FALSE], [TwoAdded EXCEPT !.readable = FALSE]}

-----------------------------------------------------------------------------
(* RevisionCapture: a merge request against the protected default branch or  *)
(* another one, under every mode, form of pipeline, place of the rules and   *)
(* depth of the clone.                                                       *)
MergeRequestOf(head, target, trunk) ==
  [head |-> head, target |-> target, life |-> "opened", version |-> 1, pending |-> FALSE,
   refs |-> <<CommonAncestor(head, trunk), trunk, head>>]
ForgeOf(head, target, main, dev, prot) ==
  [mr |-> MergeRequestOf(head, target, IF target = "main" THEN main ELSE dev), default |-> "main",
   branches |-> [main |-> [head |-> main, protected |-> TRUE], dev |-> [head |-> dev, protected |-> prot]]]
BaseSetup == [mode |-> "auto", event |-> "detached", commit |-> "head", sourceSha |-> "head", enriched |-> FALSE, sameJob |-> TRUE,
              rule |-> "repository", ruleIn |-> {"policy", "base", "head"}, depth |-> 0,
              forge |-> ForgeOf(<<"m", "m", "s">>, "dev", <<"m", "m">>, <<"m", "m">>, FALSE)]
MainForge == ForgeOf(<<"m", "m", "s">>, "main", <<"m", "m">>, <<"m">>, FALSE)
FullForges == {BaseSetup.forge, MainForge, ForgeOf(<<"m", "s">>, "dev", <<"m", "m">>, <<"m", "d">>, FALSE)}
MainSetup == [BaseSetup EXCEPT !.forge = MainForge]
MCSetups ==
  {[BaseSetup EXCEPT !.forge = f] : f \in FullForges} \cup {[BaseSetup EXCEPT !.depth = 1], [MainSetup EXCEPT !.depth = 2]}
  \cup {[BaseSetup EXCEPT !.mode = "required"], [MainSetup EXCEPT !.mode = "unprotected"],
        [MainSetup EXCEPT !.ruleIn = {"link"}], [BaseSetup EXCEPT !.ruleIn = {"base", "head"}],
        [BaseSetup EXCEPT !.rule = "external"], [BaseSetup EXCEPT !.event = "merged"],
        [BaseSetup EXCEPT !.commit = "synthetic"], [MainSetup EXCEPT !.sourceSha = "other"],
        [MainSetup EXCEPT !.sameJob = FALSE], [BaseSetup EXCEPT !.enriched = TRUE, !.mode = "unprotected"]}

-----------------------------------------------------------------------------
(* DebugBundle: no session, an empty one, a whole one, and sessions with every *)
(* kind of line first, in the middle and last, and of every limit's length.    *)
MCNativeSessions ==
    {NoCopy, <<>>, <<"start", "end">>, <<"start", "task">>, <<"start", "openEnd">>, <<"open">>, <<"start", "unfitEnd">>}
    \cup {<<"start", l, "end">> : l \in TraceLine \ {"open", "openEnd"}}
    \cup {<<l, "end">> : l \in {"task", "garbled", "elsewhere", "long"}}
    \cup {<<"start", "end", "task">>, <<"start", "task", "open">>, <<"start", "task", "task", "end">>,
          <<"start", "dense", "task", "end">>, <<"start", "big", "dense", "end">>, <<"start", "task", "task", "end", "end">>,
          <<"start", "other", "task", "task", "end">>, <<"start", "task", "unfitEnd", "task">>}
ModelEnd(r, s, l) == [result |-> r, session |-> s, leads |-> l]
MCModelEnds ==
    {ModelEnd("raw", s, "running") : s \in MCNativeSessions}
    \cup {ModelEnd(r, s, l) : r \in {"none", "raw", "large"}, s \in {NoCopy, <<"start", "task">>},
                             l \in {"running", "rejected", "failing"}}

-----------------------------------------------------------------------------
(* DlpAudit: a scanner that rejects two roles of one text and another that    *)
(* admits it, a text rejected for a known secret only, two runs with a change  *)
(* before or between them, and files that may change and change back.         *)
MCSelection == <<"f", "g">>
Rejected(scanner, secret, text) ==
  CASE text = "mixed" /\ scanner = "s1" -> {[role |-> r, fact |-> "pii"] : r \in {"text", "code"}}
    [] text = "token" /\ secret = "k1" -> {[role |-> "text", fact |-> IF scanner = "s1" THEN "secret" ELSE "pii"]}
    [] OTHER -> {}
MCRejections ==
  [d \in {"s1", "s2"} \X {"k1", "k2"} \X {"mixed", "token"} |-> Rejected(d[1], d[2], d[3])]
OneWorld == [files |-> [f |-> "mixed", g |-> "token"], runs |-> 1, drifts |-> 1]
MCAuditWorlds ==
  {OneWorld} \cup
  {[files |-> [f |-> "token", g |-> "binary"], runs |-> w[1], drifts |-> w[2]] : w \in {<<2, 1>>, <<0, 2>>}}

-----------------------------------------------------------------------------
(* SourceExcerpts: two paths with one blob, overlapping spans that fit, fit   *)
(* in part and never fit, text that is not UTF-8, a symbolic link, an absent  *)
(* path and a file over the limit.                                            *)
MCTexts ==
    ("x1" :> <<"a", "n", "b", "b", "n", "a">>) @@ ("x2" :> <<"a", "a", "a", "a", "a", "a", "n", "b", "n", "a">>)
    @@ ("x3" :> <<"w", "r", "n", "a", "n">>) @@ ("x4" :> <<"a", "n", "x">>)
SourceFile(b, r) == [blob |-> b, regular |-> r]
Request(p, spans) == [path |-> p, spans |-> spans]
SourceWorld(f, plan, file, all, syntax, chars) ==
    [files |-> f, texts |-> MCTexts, plan |-> plan, maxFile |-> file, maxTotal |-> all, syntax |-> syntax,
     syntaxChars |-> chars]
NoReading == [SourceWorld(<<>>, <<>>, 1, 1, FALSE, 1) EXCEPT !.texts = <<>>]
MCSourceWorlds ==
    {NoReading} \cup {SourceWorld([p |-> SourceFile("x1", TRUE), q |-> SourceFile("x1", TRUE), r |-> SourceFile("x2", TRUE)],
           <<Request("p", {<<1, 2>>, <<2, 2>>}), Request("q", {<<2, 3>>}),
             Request("r", {<<1, 1>>, <<1, 2>>, <<3, 3>>})>>, 10, all, TRUE, 6) : all \in {7, 10, 20}}
    \cup {SourceWorld([p |-> SourceFile("x4", TRUE), q |-> SourceFile("x3", TRUE)],
                <<Request("p", {<<1, 1>>}), Request("q", {<<1, 2>>, <<2, 2>>})>>, 8, all, FALSE, 8) : all \in {9, 20}}
    \cup {SourceWorld([p |-> SourceFile("x3", TRUE), q |-> SourceFile("x1", FALSE)],
                <<Request("p", {<<1, 1>>, <<1, 2>>}), Request("q", {<<2, 3>>}), Request("r", {})>>, file, 9, TRUE, 8) :
        file \in {7, 8}}

-----------------------------------------------------------------------------
(* FindingPlacement: two findings, the first quoting code in one place, in    *)
(* two or in none; the second alike or at a line of its own, with every kind  *)
(* of replacement; and three findings for two fallback notes.                 *)
OcrFinding(p, s, l, e, x, g, c, w) ==
    [path |-> p, start |-> s, line |-> l, end |-> e, existing |-> x, suggestion |-> g,
     odd |-> Len(g) = 2, chars |-> c, width |-> w]
Quoting(p, x) == OcrFinding(p, Absent, Absent, Absent, x, <<"c">>, 3, 1)
AtLines(p, s, e, x, g) == OcrFinding(p, s, 1, e, x, g, 3, 1)
AtFour(c, w) == OcrFinding("p", 4, 4, 4, <<"a">>, <<"c">>, c, w)
MCHead ==
    ("p" :> <<"a", "n", "b", "s", "n", "n", "a", "n">>) @@ ("q" :> <<"a", "r", "n", "d", "n", "b", "n", "d">>)
    @@ ("z" :> <<"f", "d", "n", "e">>)
PlacementOf(findings, refs, paths) ==
    [findings |-> findings, refs |-> refs, paths |-> paths, texts |-> MCHead,
     changed |-> ("p" :> {2, 4}) @@ ("q" :> {2, 3, 4}) @@ ("z" :> {1, 2})]
FirstFindings ==
    {Quoting("", <<"b">>), Quoting("p", <<"a">>), Quoting("", <<"e">>), Quoting("", <<"b", "n", "a">>),
     Quoting("q", <<"d", "n", "b">>), Quoting("", <<"a">>), Quoting("p", <<"a", "n", "b">>), Quoting("q", <<"d">>),
     Quoting("z", <<"d">>)}
LineFindings ==
    {AtLines("p", 1, 2, <<"a", "n", "b", "s", "n">>, <<"c">>), AtLines("q", 1, Absent, <<"a">>, <<"c">>),
     AtLines("p", 0, 2, <<"a">>, <<"c">>), AtLines("q", 2, 3, <<"d", "n", "b">>, <<"d", "r", "n", "b">>),
     AtLines("p", 4, 4, <<"a">>, <<>>), AtLines("p", 4, 5, <<"a">>, <<"c">>), AtLines("p", 1, 9, <<"a">>, <<"c">>),
     AtLines("p", Absent, 1, <<"a">>, <<"s">>), AtLines("p", 4, 4, <<>>, <<"c">>), AtLines("p", 4, 4, <<"a">>, <<"c", "c">>),
     AtFour(8, 1), OcrFinding("", 4, 4, 4, <<"a">>, <<"c">>, 2, 4), AtFour(2, 4)}
NoPlacement == [findings |-> <<>>, refs |-> FALSE, paths |-> <<>>, texts |-> <<>>, changed |-> <<>>]
MCPlacements ==
    {PlacementOf(<<f, g>>, r, <<"p", "q">>) : f \in FirstFindings, g \in FirstFindings, r \in BOOLEAN}
    \cup {PlacementOf(<<f, g>>, TRUE, <<"p", "q">>) :
            f \in {Quoting("", <<"b">>), Quoting("q", <<"d", "n", "b">>)}, g \in LineFindings}
    \cup {PlacementOf(<<g>>, FALSE, <<"p", "q">>) : g \in LineFindings}
    \cup {PlacementOf(<<f, g, h>>, TRUE, <<"p", "q">>) : f, g, h \in {AtFour(2, 4), AtFour(4, 1)}}
    \cup {PlacementOf(<<f, f>>, TRUE, <<"p", "q", "z">>) : f \in FirstFindings} \cup {NoPlacement}

-----------------------------------------------------------------------------
(* EvidenceQueries: listings by every filter and page size, searches beside    *)
(* listings and single records, items over the limit and lines of every shape, *)
(* each in a session of its own.                                               *)
ItemOf(id, kind, component, ref, place, leaves, size, quotes) ==
    [id |-> id, kind |-> kind, component |-> component, ref |-> ref, place |-> place, leaves |-> leaves,
     size |-> size, quotes |-> quotes]
Leaf(k, s, w) == [key |-> k, shape |-> s, word |-> w]
Lean == <<ItemOf("r1", "ci", "x", "head", "f", {Leaf("image", "scalar", "w"), Leaf("stage", "scalar", "v")}, 2, 0),
          ItemOf("r2", "ci", "y", "base", "g", {Leaf("image", "listed", "w"), Leaf("tag", "scalar", "w")}, 3, 1),
          ItemOf("r3", "ci", "x", "head", "g", {Leaf("image", "nested", "w")}, 3, 1),
          ItemOf("r4", "dependency", "x", "head", "w", {Leaf("version", "scalar", "v")}, 3, 0)>>
Bulky == <<ItemOf("r5", "ci", "x", "base", "f", {Leaf("image", "scalar", "w")}, 9, 0),
           ItemOf("r6", "ci", "x", "head", "f", {Leaf("image", "scalar", "w")}, 6, 3)>>
MCCoverage == <<ItemOf("c1", CoverageKind, "x", "head", "f", {}, 1, 0)>>
MCDeltas == <<ItemOf("d1", "ci", "x", "none", "w", {Leaf("image", "scalar", "v")}, 2, 1),
              ItemOf("d2", "ci", "y", "none", "w", {}, 2, 0)>>
Question(what) ==
    [what |-> what, id |-> "plain", filters |-> NoFilters, size |-> 2, words |-> <<>>, target |-> "r1",
     chars |-> 3, bytes |-> 3, ends |-> TRUE]
ListOf(f, n) == [Question("list") EXCEPT !.filters = f, !.size = n]
KindFilter(k) == [NoFilters EXCEPT !.kind = k]
SearchOf(f, words, n) == [Question("search") EXCEPT !.filters = f, !.words = words, !.size = n]
Plain(w) == [text |-> w, style |-> "plain"]
MCFilters == {NoFilters, KindFilter("ci"), KindFilter(DeltaKind), [KindFilter(DeltaKind) EXCEPT !.deltaKind = "ci"],
              [NoFilters EXCEPT !.component = "x", !.ref = "head"]}
BadFilters == {[NoFilters EXCEPT !.deltaKind = "ci"], [KindFilter(DeltaKind) EXCEPT !.ref = "head"],
               [NoFilters EXCEPT !.component = "unsafe"], KindFilter(CoverageKind)}
BadWords == {<<>>, <<Plain("w"), Plain("w"), Plain("w")>>, <<Plain("and")>>,
             <<[text |-> "w", style |-> "foldedOperator"]>>}
MCQuestions ==
    [list |-> {ListOf(f, 1) : f \in MCFilters} \cup {ListOf(f, 3) : f \in {NoFilters, KindFilter("ci")}}
              \cup {ListOf(KindFilter(CoverageKind), 2)},
     find |-> {SearchOf(f, <<Plain("w")>>, n) : f \in {KindFilter("ci"), [KindFilter(DeltaKind) EXCEPT !.deltaKind = "ci"], NoFilters}, n \in {1, 3}}
              \cup {SearchOf(KindFilter("ci"), <<[text |-> "w", style |-> "folded"], Plain("x")>>, 2)}
              \cup {ListOf(f, 3) : f \in MCFilters} \cup {[Question("get") EXCEPT !.target = i] : i \in {"r1", "r5", "r6", "d1"}},
     bad |-> {ListOf(f, 2) : f \in BadFilters} \cup {ListOf(NoFilters, 0), ListOf(NoFilters, 4)}
              \cup {SearchOf(KindFilter("ci"), w, 2) : w \in BadWords} \cup {SearchOf(NoFilters, <<Plain("w")>>, 0)}
              \cup {[Question("get") EXCEPT !.target = "gone"]}
              \cup {[Question("coverage") EXCEPT !.filters = f] : f \in {KindFilter("ci"), [KindFilter("ci") EXCEPT !.ref = "head"]}},
     line |-> {Question("summary"), [Question("summary") EXCEPT !.id = "wide"], [Question("list") EXCEPT !.id = "none"]}
              \cup {[Question("ping") EXCEPT !.id = i] : i \in {"plain", "none", "wide"}}
              \cup {Question(w) : w \in {"list", "badAction", "badMethod", "garbage"}}
              \cup {[Question("ping") EXCEPT !.chars = n, !.bytes = n, !.ends = (n # 9)] : n \in {5, 6, 7, 9, 13}}
              \cup {[Question("ping") EXCEPT !.bytes = 5], [Question("ping") EXCEPT !.ends = FALSE]}]
ArchiveOf(r, c, d, n, q, diagram, client, questions, ahead) ==
    [records |-> r, coverage |-> c, deltas |-> d, summary |-> n, quotes |-> q, diagram |-> diagram,
     client |-> client, questions |-> questions, ahead |-> ahead]
NoArchive == ArchiveOf(<<>>, <<>>, <<>>, 1, 0, 0, "line", 0, 0)
MCArchives ==
    {NoArchive, ArchiveOf(Lean, MCCoverage, MCDeltas, 4, 1, 3, "list", 3, 1),
     ArchiveOf(Lean, MCCoverage, MCDeltas, 4, 1, 0, "find", 2, 1),
     ArchiveOf(Lean, MCCoverage, MCDeltas, 4, 1, 0, "bad", 2, 1),
     ArchiveOf(Bulky, <<>>, MCDeltas, 7, 2, 0, "find", 2, 1),
     ArchiveOf(<<>>, MCCoverage, <<>>, 3, 0, 2, "line", 3, 1), ArchiveOf(<<>>, MCCoverage, <<>>, 3, 0, 2, "line", 2, 2),
     ArchiveOf(Lean, <<>>, <<>>, 9, 0, 0, "line", 1, 1)}

-----------------------------------------------------------------------------
(* FederationWire: requests and answers of which both fit, one is too long or *)
(* cut off, one is no JSON, one asks nothing, and a budget others spend too.  *)
WireWorld(asks, bytes, back, bad, n) ==
    [ask |-> asks, askBytes |-> bytes, answer |-> back, invalid |-> bad, notices |-> {}, charges |-> n]
MCWireWorlds ==
    {WireWorld(<<1, 3>>, 3, <<2, 3>>, {}, 0), WireWorld(<<3>>, 3, <<3, 6>>, {}, 0), WireWorld(<<3>>, 5, <<4>>, {}, 0),
     WireWorld(<<5>>, 5, <<1>>, {}, 0), WireWorld(<<1, 2>>, 3, <<1>>, {2}, 1),
     [WireWorld(<<1, 2, 3, 4>>, 4, <<1, 2>>, {}, 0) EXCEPT !.notices = {1, 3}]}

-----------------------------------------------------------------------------
(* StableRelease: a good request that is started twice, one that people meddle *)
(* with next to two other releases, and requests that lack one thing.          *)
MCTracked == <<7>>
Passed == [check |-> "ci", onHead |-> TRUE, passed |-> TRUE]
MCReleaseWorld(facts, checks, n, starts, meddling) ==
    [request |-> [facts |-> facts, runs |-> checks], others |-> n, attempts |-> starts, moves |-> meddling]
BadChecks == {<<>>, <<[Passed EXCEPT !.passed = FALSE]>>, <<[Passed EXCEPT !.onHead = FALSE]>>, <<Passed, Passed>>,
              <<[Passed EXCEPT !.check = "other"]>>}
MCReleaseWorlds ==
    {MCReleaseWorld(Facts, <<Passed>>, 0, 2, 0), MCReleaseWorld(Facts, <<Passed>>, 2, 1, 1)}
    \cup {MCReleaseWorld(Facts \ {f}, <<Passed>>, 0, 1, 0) : f \in Facts}
    \cup {MCReleaseWorld(Facts, checks, 0, 1, 0) : checks \in BadChecks}

(* ActionsCleanup: caches of two platforms on more than a page; one of every   *)
(* kind with old artifacts and runs of every age; all old logs.                *)
MCCache(k, m, p, u) == [there |-> TRUE, kind |-> k, main |-> m, platform |-> p, used |-> u]
NoCache == [there |-> FALSE, kind |-> "uv", main |-> FALSE, platform |-> "linux", used |-> 0]
MCWorkflowRun(a, c) == [there |-> TRUE, class |-> "ordinary", age |-> a, completed |-> c, logs |-> TRUE]
MCArtifact(a, e) == [there |-> TRUE, age |-> a, expired |-> e]
NoArtifact == [there |-> FALSE, age |-> 0, expired |-> FALSE]
MCStore(cs, as, rs, all) == [caches |-> cs, artifacts |-> as, runs |-> rs, clock |-> 5, all |-> all]
MCCleanupWorlds ==
    {MCStore(<<>>, <<>>, <<>>, FALSE),
     MCStore(<<MCCache("uv", TRUE, "linux", 4), MCCache("uv", TRUE, "macos", 3), MCCache("uv", TRUE, "linux", 2), NoCache>>,
             <<MCArtifact(0, FALSE), NoArtifact>>, <<MCWorkflowRun(0, FALSE)>>, FALSE),
     MCStore(<<MCCache("codeql", TRUE, "linux", 1), MCCache("uv", FALSE, "linux", 3),
               MCCache("gitleaks", TRUE, "unknown", 2), MCCache("gitleaks", TRUE, "unknown", 4)>>,
             <<MCArtifact(2, FALSE), MCArtifact(0, TRUE)>>,
             <<MCWorkflowRun(0, TRUE), MCWorkflowRun(1, TRUE), MCWorkflowRun(2, TRUE), MCWorkflowRun(4, TRUE)>>, FALSE),
     MCStore(<<NoCache>>, <<MCArtifact(2, FALSE), MCArtifact(1, FALSE)>>,
             <<MCWorkflowRun(0, TRUE), MCWorkflowRun(1, FALSE), MCWorkflowRun(2, TRUE), MCWorkflowRun(4, TRUE)>>, TRUE)}
MCLogDays == [c \in RunClass |-> 1]
MCRunDays == [c \in RunClass |-> 2]

-----------------------------------------------------------------------------
OnePlan == CHOOSE p \in MCStatusPlans : TRUE
OneBoard == CHOOSE b \in MCBoards : TRUE
OneList == CHOOSE l \in MCPipelines : TRUE
OneContextPolicy == CHOOSE p \in MCContextPolicies : TRUE
OneCommits == MCNothing
OneRange == CHOOSE r \in MCRanges : TRUE
OneSetup == CHOOSE s \in MCSetups : TRUE

PartsInit ==
    /\ part \in {"status", "client", "receipt", "context", "evidence", "gitlink", "revision", "progress", "debug", "audit", "source", "placement", "queries", "wire", "upstream", "release", "cleanup"}
    /\ part = "status" \/ statusPlan = OnePlan
    /\ part = "context" \/ (board = OneBoard /\ pipelines = OneList /\ contextPolicy = OneContextPolicy)
    /\ part = "evidence" \/ commits = OneCommits
    /\ part = "gitlink" \/ glRange = OneRange
    /\ part = "revision" \/ origin = OneSetup
    /\ part = "progress" \/ progressStream = "text"
    /\ part = "audit" \/ auditSource = OneWorld.files
    /\ part = "source" \/ reading = NoReading
    /\ part = "placement" \/ job = NoPlacement
    /\ part = "queries" \/ archive = NoArchive
    /\ part = "wire" \/ wire = CHOOSE w \in WireWorlds : TRUE
    /\ part = "upstream" \/ toolServer = "https"
    /\ part = "release" \/ world = CHOOSE w \in ReleaseWorlds : TRUE
    /\ part = "cleanup" \/ caches = <<>>
    /\ StatusInit /\ ClientInit /\ ReceiptInit /\ ContextInit /\ EvidenceCollectionInit /\ GitlinkInit
    /\ RevisionInit /\ ProgressInit /\ DebugInit /\ AuditInit /\ SourceInit /\ PlacementInit /\ QueriesInit
    /\ WireInit /\ UpstreamInit /\ ReleaseInit /\ CleanupInit
    /\ contextPolicy.ci.on \/ pipelines = OneList   \* not asked for pipelines
    /\ contextPolicy.talk.on \/ contextPolicy.fix.on \/ board = OneBoard   \* not asked for threads

(* The variables of every part but the one whose behaviour it is.            *)
OthersRest ==
    /\ part' = part
    /\ part # "status" => UNCHANGED statusVars
    /\ part # "client" => UNCHANGED clientVars
    /\ part # "receipt" => UNCHANGED receiptVars
    /\ part # "context" => UNCHANGED contextVars
    /\ part # "evidence" => UNCHANGED evidenceVars
    /\ part # "gitlink" => UNCHANGED gitlinkVars
    /\ part # "revision" => UNCHANGED rcVars
    /\ part # "progress" => UNCHANGED progressVars
    /\ part # "debug" => UNCHANGED debugVars
    /\ part # "audit" => UNCHANGED auditVars
    /\ part # "source" => UNCHANGED sourceVars
    /\ part # "placement" => UNCHANGED placementVars
    /\ part # "queries" => UNCHANGED queryVars
    /\ part # "wire" => UNCHANGED wireVars
    /\ part # "upstream" => UNCHANGED upstreamVars
    /\ part # "release" => UNCHANGED releaseVars
    /\ part # "cleanup" => UNCHANGED cleanupVars

PartsNext ==
    \/ part = "status" /\ OthersRest /\ StatusNext
    \/ part = "client" /\ OthersRest /\ ClientNext
    \/ part = "receipt" /\ OthersRest /\ ReceiptNext
    \/ part = "context" /\ OthersRest /\ ContextNext
    \/ part = "evidence" /\ OthersRest /\ EvidenceNext
    \/ part = "gitlink" /\ OthersRest /\ GitlinkNext
    \/ part = "revision" /\ OthersRest /\ RevisionNext
    \/ part = "progress" /\ OthersRest /\ ProgressNext
    \/ part = "debug" /\ OthersRest /\ DebugNext
    \/ part = "audit" /\ OthersRest /\ AuditNext
    \/ part = "source" /\ OthersRest /\ SourceNext
    \/ part = "placement" /\ OthersRest /\ PlacementNext
    \/ part = "queries" /\ OthersRest /\ QueriesNext
    \/ part = "wire" /\ OthersRest /\ WireNext
    \/ part = "upstream" /\ OthersRest /\ UpstreamNext
    \/ part = "release" /\ OthersRest /\ ReleaseNext
    \/ part = "cleanup" /\ OthersRest /\ CleanupNext

PartsSpec == PartsInit /\ [][PartsNext]_<<part, partsVars>>

-----------------------------------------------------------------------------
(* What is quoted of a file is in it, within its limits, and what is said of   *)
(* a finding is shown once, where its code is.                                 *)
SourceTextSafe == SourceExcerptsSafe /\ FindingPlacementSafe
=============================================================================
