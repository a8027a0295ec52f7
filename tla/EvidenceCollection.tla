------------------------- MODULE EvidenceCollection -------------------------
(***************************************************************************)
(* How the repository evidence of a review comes about: facts are collected *)
(* from the trees of two commits, admitted one by one to a store with       *)
(* budgets, compared, completed with optional facts of the actual target,   *)
(* written, read back by the evidence server and queried by the model       *)
(* (evidence/collectors/orchestration.py, evidence/collect.py,              *)
(* evidence/store/, evidence/mcp.py).  A fact may be lost at every one of   *)
(* these steps; what is served about the rest must not deny it.             *)
(***************************************************************************)
EXTENDS Integers, FiniteSets, SequencesExt, TLC

CONSTANTS
  Commits  \* what a run may meet: trees, target, budgets, as described below

(* A commit's tree is a sequence of files, in path order.                    *)
(*   path, blob       identity of the file and of its content                *)
(*   read             "ok", "dynamic" (an inventory that is a program),       *)
(*                    "broken" (does not parse), "omitted" (read budget),     *)
(*                    "link" (not followed)                                   *)
(*   scope            directory whose coverage it decides, 0 for none         *)
(*   facts            [kind, id, value]                                       *)
(* Next to the trees: policy values, targetIs ("none", "base", "head" or         *)
(* "other"), what cannot be read ("base", "head", "target": the batch of blobs;  *)
(* "targetTree": a tree over its entry limit), the budget, the number of          *)
(* invocation records, and whose digests sort first.                             *)
TopologyKind == {"group", "playbook"}      \* the ansible facts: all or nothing
FactKind == TopologyKind \cup {"manifest", "framework"}
TargetKind == {"file", "manifest"}
(* "secret" values are masked, "large" ones pass alone, "ambiguous" and       *)
(* "oversized" ones are refused by safe_value.                                *)
FactValue == {"a", "b", "secret1", "secret2", "masked", "large", "ambiguous", "oversized"}

VARIABLES
  commits,     \* the member of Commits this run reviews
  evStage,
  evStore,     \* EvidenceStore: records, coverage, notes (diagnostics), deltas, target
  answer       \* the last answer of the coverage tool

evidenceVars == <<commits, evStage, evStore, answer>>
budget == commits.budget
NoAnswer == [ref |-> "none", name |-> "none", path |-> 0, absent |-> FALSE]

Tree(ref) == CASE ref = "base" -> commits.base [] ref = "head" -> commits.head [] OTHER -> commits.target
FilesOf(ref) == {Tree(ref)[i] : i \in DOMAIN Tree(ref)}
BlobAt(ref, p) == {f.blob : f \in {g \in FilesOf(ref) : g.path = p}}
Changed == {f.path : f \in {g \in FilesOf("base") \cup FilesOf("head") :
                              BlobAt("base", g.path) # BlobAt("head", g.path)}}

-----------------------------------------------------------------------------
(* collect_ref_facts: one bounded batch of blobs per commit; a batch that      *)
(* fails leaves no facts at all.                                               *)
ReadIn(ref) == ref \notin commits.failing
Parsed(ref, f) == ReadIn(ref) /\ f.read \in {"ok", "dynamic"}
Stated(ref, f) == [i \in DOMAIN f.facts |->
                     [kind |-> f.facts[i].kind, path |-> f.path, ref |-> ref,
                      id |-> f.facts[i].id, value |-> f.facts[i].value, scope |-> f.scope]]
StatedFacts(ref) == FlattenSeq([i \in DOMAIN Tree(ref) |->
                      IF Parsed(ref, Tree(ref)[i]) THEN Stated(ref, Tree(ref)[i]) ELSE <<>>])
OfKind(k, facts) == Cardinality({i \in DOMAIN facts : facts[i].kind = k})
(* MAX_TOPOLOGY_FACTS_PER_KIND: the coverage of the scope says what was cut    *)
TakeFact(got, f) ==
  IF f.kind \in TopologyKind /\ OfKind(f.kind, got.facts) >= budget.topology
  THEN [got EXCEPT !.cut = @ \cup {f.scope}]
  ELSE [got EXCEPT !.facts = Append(@, f)]
Collected(ref) == FoldLeft(TakeFact, [facts |-> <<>>, cut |-> {}], StatedFacts(ref))

Observation(ref, f) == IF ~ReadIn(ref) \/ f.read \in {"omitted", "link", "broken"} THEN "unavailable"
                       ELSE IF f.read = "dynamic" THEN "runtime" ELSE "complete"
AnyComplete(obs) ==  IF "complete" \in obs THEN "complete" ELSE "unavailable"   \* slip: the best source decides
Compose(obs) == IF "runtime" \in obs THEN "runtime"
                ELSE IF obs = {"complete"} THEN "complete"
                ELSE IF obs \cap {"complete", "partial"} # {} THEN "partial"
                ELSE "unavailable"
Scopes(ref) == {f.scope : f \in FilesOf(ref)} \ {0}
Coverage(ref) == {[ref |-> ref, scope |-> s,
                   state |-> Compose({Observation(ref, f) : f \in {g \in FilesOf(ref) : g.scope = s}}
                                     \cup IF s \in Collected(ref).cut THEN {"partial"} ELSE {})]
                  : s \in Scopes(ref)}
Notices(ref) == IF ~ReadIn(ref) THEN {<<"batch", ref>>}
                ELSE {<<"unread", ref, f.path>> : f \in {g \in FilesOf(ref) : g.read \in {"omitted", "broken"}}}
LinkNotices(ref) == {<<"link", ref, f.path>> : f \in {g \in FilesOf(ref) : g.read = "link" /\ g.path \in Changed}}

(* build_file_snapshot: what is at the changed paths, no content               *)
FileRecord(ref, f) == [kind |-> "file", path |-> f.path, ref |-> ref, id |-> 0, value |-> f.blob]
FileSnapshot(ref) == {FileRecord(ref, f) : f \in {g \in FilesOf(ref) : g.path \in Changed}}
PolicySnapshot == {[kind |-> "policy", path |-> i, ref |-> "policy", id |-> 0, value |-> commits.policy[i]]
                   : i \in DOMAIN commits.policy}

-----------------------------------------------------------------------------
(* EvidenceStore._add: what is stored is the redacted record.                  *)
Redact(v) == IF v \in {"secret1", "secret2"} THEN "masked" ELSE v
RecordOf(f) == [kind |-> f.kind, path |-> f.path, ref |-> f.ref, id |-> f.id, value |-> Redact(f.value)]
Held(s) == Cardinality(s.records) + Cardinality(s.coverage)
Full(s) == Held(s) >= budget.records
KindFull(s, k) == Cardinality({r \in s.records : r.kind = k}) >= budget.kind
Refuse(s, note) == [s EXCEPT !.notes = @ \cup {note}, !.ok = FALSE]
Admit(s, f) ==
  IF f.value \in {"ambiguous", "oversized"} THEN Refuse(s, <<"omitted", f.kind>>)
  ELSE IF RecordOf(f) \in s.records THEN [s EXCEPT !.ok = TRUE]
  ELSE IF Full(s) THEN Refuse(s, <<"full">>)
  ELSE IF KindFull(s, f.kind) THEN Refuse(s, <<"kindFull", f.kind>>)
  ELSE [s EXCEPT !.records = @ \cup {RecordOf(f)}, !.ok = TRUE]
AdmitCoverage(s, c) ==
  IF c \in s.coverage THEN [s EXCEPT !.ok = TRUE]
  ELSE IF Full(s) THEN Refuse(s, <<"full">>)
  ELSE [s EXCEPT !.coverage = @ \cup {c}, !.ok = TRUE]
AllOrNothing(step(_, _), s, items) ==
  FoldLeft(LAMBDA t, x : IF t.ok THEN step(t, x) ELSE t, [s EXCEPT !.ok = TRUE], items)

(* a fixed order; which one does not matter where it is used                    *)
InOneOrder(S) == FoldSet(LAMBDA x, seq : Append(seq, x), <<>>, S)

EmptyStore == [records |-> {}, coverage |-> {}, notes |-> {}, deltas |-> {}, target |-> "none", ok |-> TRUE]

(* collect_repository_evidence: the snapshots and their coverage are one        *)
(* atomic contract.                                                             *)
SnapshotRecords == InOneOrder(FileSnapshot("base") \cup FileSnapshot("head")) \o InOneOrder(PolicySnapshot)
WithSnapshots ==
  LET s == AllOrNothing(Admit, EmptyStore, SnapshotRecords)
  IN IF s.ok THEN AllOrNothing(AdmitCoverage, s, InOneOrder(Coverage("base") \cup Coverage("head"))) ELSE s

(* Topology facts first, then by kind and path; between the commits the order   *)
(* is that of content digests.                                                  *)
KindRank(k) == CASE k = "group" -> 1 [] k = "playbook" -> 2 [] k = "manifest" -> 3 [] OTHER -> 4
Rank(f) == KindRank(f.kind) * 100 + f.path * 2 + IF f.ref = commits.tie THEN 0 ELSE 1
TypedFacts == SortSeq(Collected("base").facts \o Collected("head").facts, LAMBDA f, g : Rank(f) < Rank(g))

AdmitFact(a, f) ==
  IF a.halted THEN [a EXCEPT !.incomplete = @ \cup {f.kind}]
  ELSE IF a.failed \/ f.kind \in a.exhausted THEN a
  ELSE LET s == Admit(a.store, f)
       IN IF s.ok THEN [a EXCEPT !.store = s]
          ELSE IF f.kind \in TopologyKind THEN [a EXCEPT !.failed = TRUE]
          ELSE [store      |-> s,
                incomplete |-> a.incomplete \cup {f.kind},
                halted     |-> Full(s),
                exhausted  |-> a.exhausted \cup IF KindFull(s, f.kind) THEN {f.kind} ELSE {},
                failed     |-> FALSE]
AdmitFacts(s) ==
  FoldLeft(AdmitFact, [store |-> s, incomplete |-> {}, halted |-> FALSE, exhausted |-> {}, failed |-> FALSE],
           TypedFacts)

-----------------------------------------------------------------------------
(* fact_deltas, file_deltas and coverage_deltas                                 *)
Identity(r) == IF r.kind = "framework" THEN <<r.kind, 0, r.id>> ELSE <<r.kind, r.path, r.id>>
Shown(own, peer) ==
  IF Cardinality(own) = 1 /\ (peer = {} \/ (Cardinality(peer) = 1 /\ {r.path : r \in peer} = {r.path : r \in own}))
  THEN {<<0, r.value>> : r \in own} ELSE {<<r.path, r.value>> : r \in own}
Delta(key, before, after) == [key |-> key, before |-> Shown(before, after), after |-> Shown(after, before)]
Differs(d) == d.before # d.after
At(records, ref, key) == {r \in records : r.ref = ref /\ Identity(r) = key}
KeysOf(records, kinds) == {Identity(r) : r \in {x \in records : x.kind \in kinds /\ x.ref \in {"base", "head"}}}
DeltasOf(records, kinds) ==
  {d \in {Delta(k, At(records, "base", k), At(records, "head", k)) : k \in KeysOf(records, kinds)} : Differs(d)}
ComparesAll(records, incomplete) == DeltasOf(records, FactKind)  \* slip: truncated kinds are compared too
FactDeltas(records, incomplete) == DeltasOf(records, FactKind \ incomplete)
CoverageDeltas ==
  {d \in {[key    |-> <<"coverage", s, 0>>,
           before |-> {<<0, c.state>> : c \in {x \in Coverage("base") : x.scope = s}},
           after  |-> {<<0, c.state>> : c \in {x \in Coverage("head") : x.scope = s}}]
          : s \in Scopes("base") \cup Scopes("head")} : Differs(d)}

(* change categories come last and may be cut                                   *)
Category(p) == [kind |-> "category", path |-> p, id |-> 0, value |-> "a",
                ref |-> IF BlobAt("head", p) # {} THEN "head" ELSE "base"]
AdmitNoted(s, f) == LET t == Admit(s, f) IN IF t.ok THEN t ELSE [t EXCEPT !.notes = @ \cup {<<"cut", f.kind>>}]
WithComparisons(a) ==
  LET s == [a.store EXCEPT !.notes = @ \cup {<<"incomplete", k>> : k \in a.incomplete}
                                       \cup (IF a.halted THEN {<<"truncated">>} ELSE {}),
                           !.deltas = DeltasOf(FileSnapshot("base") \cup FileSnapshot("head"), {"file"})
                                      \cup FactDeltas(a.store.records, a.incomplete) \cup CoverageDeltas]
      t == FoldLeft(AdmitNoted, s, [i \in 1..Cardinality(Changed) |-> Category(InOneOrder(Changed)[i])])
  IN [t EXCEPT !.notes = @ \cup UNION {Notices(r) \cup LinkNotices(r) : r \in {"base", "head"}}]

-----------------------------------------------------------------------------
(* Serialized size in units: a record takes two, everything else one.           *)
Size(s) == 2 * Cardinality(s.records) + Cardinality(s.coverage) + Cardinality(s.deltas)
           + Cardinality(s.notes) + IF s.target = "none" THEN 0 ELSE 1
Serializes(s) == Size(s) <= budget.bytes
TargetReserve == 1  \* the room add_target_context leaves for a notice

TargetNote(s, note) == LET t == [s EXCEPT !.notes = @ \cup {note}] IN IF Serializes(t) THEN t ELSE s

(* add_target_context: the record, its snapshot entry and the size together     *)
KeepsOverflow(s, f) == Admit(s, f)                                 \* slip: no byte bound
AddTarget(s, f) ==
  LET t == Admit(s, f) IN
  IF \/ ~t.ok /\ Serializes(t)
     \/ t.ok /\ (t.records = s.records \/ Size(t) <= budget.bytes - TargetReserve)
  THEN t ELSE [s EXCEPT !.ok = FALSE]
AddTargets(s, facts) ==
  FoldLeft(LAMBDA a, f : LET t == AddTarget(a.store, f) IN [store |-> t, omitted |-> a.omitted \/ ~t.ok],
           [store |-> s, omitted |-> FALSE], facts)

TargetTree == IF commits.targetIs = "other" THEN "target" ELSE commits.targetIs
TargetFiles == InOneOrder({[r EXCEPT !.ref = "target"] : r \in FileSnapshot(TargetTree)})
TargetFacts == LET near == SelectSeq(Collected(TargetTree).facts, LAMBDA f : f.kind \in TargetKind)
               IN [i \in DOMAIN near |-> [near[i] EXCEPT !.ref = "target"]]
FirstOf(n, seq) == SubSeq(seq, 1, IF n < Len(seq) THEN n ELSE Len(seq))
TargetWanted == FirstOf(budget.targets, TargetFiles) \o FirstOf(budget.targets, TargetFacts)
(* a target that is one of the commits brings no notices of its facts           *)
TargetNotices == LinkNotices(TargetTree) \cup IF commits.targetIs = "other" THEN Notices(TargetTree) ELSE {}

WithTarget(s) ==
  LET h == [s EXCEPT !.target = "bound"]
      a == AddTargets(h, TargetWanted)
      cut == a.omitted \/ Len(TargetFiles) > budget.targets \/ Len(TargetFacts) > budget.targets
      said == IF cut THEN TargetNote(a.store, <<"targetCut">>) ELSE a.store
  IN IF Size(h) > budget.bytes - TargetReserve THEN TargetNote(s, <<"targetOmitted">>)
     ELSE IF commits.targetIs = "other" /\ "targetTree" \in commits.failing THEN TargetNote(h, <<"targetTree">>)
     ELSE IF TargetNotices = {} THEN said ELSE TargetNote(said, <<"targetUnread">>)

-----------------------------------------------------------------------------
EvidenceCollectionInit ==
  /\ commits \in Commits
  /\ evStage = "start" /\ evStore = EmptyStore /\ answer = NoAnswer

EvidenceFails == evStage' = "failed" /\ UNCHANGED evStore
CollectSnapshots ==
  /\ evStage = "start"
  /\ IF WithSnapshots.ok THEN evStage' = "snapshots" /\ evStore' = WithSnapshots ELSE EvidenceFails
  /\ UNCHANGED <<commits, answer>>
CompareFacts ==
  /\ evStage = "snapshots"
  /\ LET a == AdmitFacts(evStore)
     IN IF a.failed THEN EvidenceFails ELSE evStage' = "compared" /\ evStore' = WithComparisons(a)
  /\ UNCHANGED <<commits, answer>>
(* B/H/P must serialize before the target is looked at                          *)
AddTargetContext ==
  /\ evStage = "compared"
  /\ IF commits.targetIs = "none" THEN evStage' = "targeted" /\ UNCHANGED evStore
     ELSE IF ~Serializes(evStore) THEN EvidenceFails
     ELSE evStage' = "targeted" /\ evStore' = WithTarget(evStore)
  /\ UNCHANGED <<commits, answer>>
(* run_review: what the invocation itself says, then the merge request's text   *)
InvocationRecord(i) == [kind |-> "invocation", path |-> 0, ref |-> "shared", id |-> i, value |-> "a"]
AddInvocation ==
  /\ evStage = "targeted"
  /\ evStage' = "filled"
  /\ evStore' = FoldLeft(AdmitNoted, evStore, [i \in 1..commits.invocation |-> InvocationRecord(i)])
  /\ UNCHANGED <<commits, answer>>

(* to_dict: snapshots may only refer to records of the store; two large sources *)
(* of one identity make a delta that exceeds the value budget.                  *)
TargetRecords(s) == {r \in s.records : r.ref = "target"}
Bound(s) == /\ FileSnapshot("base") \cup FileSnapshot("head") \subseteq s.records
            /\ Coverage("base") \cup Coverage("head") \subseteq s.coverage
            /\ TargetRecords(s) # {} => s.target = "bound"
LargeDelta(d) == \E side \in {d.before, d.after} : Cardinality({x \in side : x[2] = "large"}) > 1
WriteStore ==
  /\ evStage = "filled"
  /\ evStage' = IF ~Bound(evStore) THEN "unbound"
                ELSE IF ~Serializes(evStore) \/ \E d \in evStore.deltas : LargeDelta(d) THEN "failed"
                ELSE "written"
  /\ UNCHANGED <<commits, evStore, answer>>

(* read_store admits every record and coverage record again                     *)
Reread(s) ==
  LET records == AllOrNothing(Admit, EmptyStore, InOneOrder(s.records))
      all == IF records.ok THEN AllOrNothing(AdmitCoverage, records, InOneOrder(s.coverage)) ELSE records
  IN [all EXCEPT !.notes = @ \cup s.notes, !.deltas = s.deltas, !.target = s.target]
ReadStore ==
  /\ evStage = "written"
  /\ evStage' = IF Reread(evStore).ok /\ Bound(Reread(evStore)) /\ Cardinality(evStore.deltas) <= budget.records
                THEN "served" ELSE "unreadable"
  /\ evStore' = [Reread(evStore) EXCEPT !.ok = TRUE]
  /\ UNCHANGED <<commits, answer>>

-----------------------------------------------------------------------------
(* _coverage_query: one name is both the record kind and the coverage domain.   *)
(* The collector publishes the coverage of group facts as domain "inventory".   *)
Truncated(name) == evStore.notes \cap {<<"full">>, <<"kindFull", name>>, <<"omitted", name>>, <<"incomplete", name>>} # {}
Matches(name, ref, p) == {r \in evStore.records : r.kind = name /\ r.ref = ref /\ r.path = p}
Applicable(name, ref, p) == {c \in evStore.coverage : name = "inventory" /\ c.ref = ref /\ c.scope = p}
CompleteAnswer(name, ref, p) ==
  /\ Applicable(name, ref, p) # {} /\ ~Truncated(name)
  /\ \A c \in Applicable(name, ref, p) : c.state = "complete"
QueryCoverage ==     \* one question; the next one would be answered alike
  /\ evStage = "served" /\ answer = NoAnswer
  /\ \E name \in FactKind \cup {"inventory"}, ref \in {"base", "head"},
        p \in {f.path : f \in FilesOf("head") \cup FilesOf("base")} \cup Scopes("base") \cup Scopes("head") :
       answer' = [ref |-> ref, name |-> name, path |-> p,
                  absent |-> CompleteAnswer(name, ref, p) /\ Matches(name, ref, p) = {}]
  /\ UNCHANGED <<commits, evStage, evStore>>

EvidenceNext == CollectSnapshots \/ CompareFacts \/ AddTargetContext \/ AddInvocation \/ WriteStore \/ ReadStore
                \/ QueryCoverage

-----------------------------------------------------------------------------
(* What the trees really say, as far as a store may say it.                     *)
RealRecords(ref) == UNION {{RecordOf(Stated(ref, f)[i]) : i \in DOMAIN f.facts}
                           : f \in {g \in FilesOf(ref) : g.read # "link"}}
InScope(ref, s) == UNION {{RecordOf(Stated(ref, f)[i]) : i \in DOMAIN f.facts}
                          : f \in {g \in FilesOf(ref) : g.scope = s /\ g.read # "link"}}

(* A scope served as complete lost nothing on the way: every fact of every one   *)
(* of its files is in the store that is served.                                 *)
CompleteScopeIsWhole ==
  evStage = "served" =>
    \A c \in evStore.coverage : c.state = "complete" =>
      \A r \in InScope(c.ref, c.scope) : r.kind \in TopologyKind => r \in evStore.records

(* A delta that is not what the trees say is never served silently: the store    *)
(* says that a source of that fact was not read, or its coverage is not complete *)
(* (the per-kind limit of playbooks, which have no coverage, is the exception).  *)
TrueDelta(k) == Delta(k, At(RealRecords("base"), "base", k), At(RealRecords("head"), "head", k))
NotRead(ref, r) == {<<"batch", ref>>, <<"unread", ref, r.path>>} \cap evStore.notes # {}
Uncovered(ref, r) == \E f \in FilesOf(ref) : /\ f.path = r.path /\ f.scope # 0
                                             /\ \E c \in evStore.coverage : c.ref = ref /\ c.scope = f.scope
                                                                            /\ c.state # "complete"
SilentLimit(ref, r) == r.kind \in TopologyKind /\ OfKind(r.kind, StatedFacts(ref)) > budget.topology
                       /\ \E f \in FilesOf(ref) : f.path = r.path /\ f.scope = 0
DeltaIsExplained ==
  evStage = "served" =>
    \A d \in evStore.deltas :
      \/ d.key[1] \in {"file", "coverage"}
      \/ d = TrueDelta(d.key)
      \/ \E ref \in {"base", "head"} : \E r \in At(RealRecords(ref), ref, d.key) :
           NotRead(ref, r) \/ Uncovered(ref, r) \/ SilentLimit(ref, r)

(* What is written can be read back, and refers to nothing it does not hold.      *)
WrittenIsReadable == evStage \notin {"unreadable", "unbound"}

(* Optional target facts never use up the room of what was there before them:     *)
(* the store still serializes, and what is missing of the target is said.         *)
TargetIsOptional ==
  evStage = "targeted" /\ commits.targetIs # "none" =>
    /\ Serializes(evStore)
    /\ evStore.target = "bound" /\ (\E i \in DOMAIN TargetWanted : RecordOf(TargetWanted[i]) \notin evStore.records)
         => evStore.notes \cap ({<<"targetCut">>, <<"targetTree">>, <<"full">>} \cup {<<w, k>> : w \in {"kindFull", "omitted"}, k \in TargetKind}) # {}

EvidenceStoreSafe == CompleteScopeIsWhole /\ DeltaIsExplained /\ WrittenIsReadable /\ TargetIsOptional

(* docs/configuration.md, Repository evidence: only complete coverage and zero     *)
(* matches produce authoritative absence.                                          *)
AbsenceIsTrue == answer.absent => ~\E r \in InScope(answer.ref, answer.path) : r.kind = "group"
=============================================================================
