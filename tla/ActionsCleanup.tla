--------------------------- MODULE ActionsCleanup ---------------------------
(* scripts/actions_cleanup.py: it lists the caches, artifacts and completed    *)
(* runs of the repository page by page, plans what to remove from these lists, *)
(* and removes it, object by object.  Jobs save, restore and finish meanwhile; *)
(* any request may fail, which ends the cleanup; the next one starts anew.     *)
EXTENDS StableRelease

CONSTANTS
  RunClass,                     \* classes of workflows
  LogDays, RunDays,             \* by class: *_LOG_RETENTION_DAYS, *_RUN_RETENTION_DAYS
  ArtifactDays,                 \* ARTIFACT_RETENTION_DAYS
  GraceDays,                    \* LOG_RETRY_WINDOW_DAYS and RUN_LIST_GRACE_DAYS
  PerPage, PageLimit,           \* PER_PAGE, MAX_PAGES
  CleanupWorlds,                \* [caches, artifacts, runs, clock, all]: what is stored and what
                                \* may be (all by number, later ones are greater), the time,
                                \* and whether --include-all-old-logs is given
  MaxCleanups, LastMoment       \* cleanups, and the times at which jobs act: bounds

Platform == {"linux", "macos", "windows", "unknown"}
StoredCache == [there : BOOLEAN, kind : {"uv", "gitleaks", "codeql"}, main : BOOLEAN, platform : Platform, used : Nat]
StoredArtifact == [there : BOOLEAN, age : Nat, expired : BOOLEAN]
StoredRun == [there : BOOLEAN, class : RunClass, age : Nat, completed : BOOLEAN, logs : BOOLEAN]

(* What is stored at a time: finitely much; no two caches were accessed at    *)
(* one moment, and none later than now.                                       *)
CachesAt(f, now) ==
  /\ f \in [DOMAIN f -> StoredCache] /\ IsFiniteSet(DOMAIN f)
  /\ \A x \in DOMAIN f : f[x].used < now /\ (f[x].there => f[x].used > 0)
  /\ \A x, y \in DOMAIN f : f[x].used > 0 /\ f[x].used = f[y].used => x = y
Numbered(f, thing) == f \in [DOMAIN f -> thing] /\ DOMAIN f \subseteq Nat /\ IsFiniteSet(DOMAIN f)

ASSUME CleanupAssumption ==
  /\ ArtifactDays \in Nat /\ GraceDays \in Nat
  /\ RunClass # {} /\ IsFiniteSet(RunClass)
  /\ \A w \in CleanupWorlds :
       /\ w.clock \in Nat /\ w.all \in BOOLEAN /\ CachesAt(w.caches, w.clock)
       /\ Numbered(w.artifacts, StoredArtifact) /\ Numbered(w.runs, StoredRun)
  /\ LogDays \in [RunClass -> Nat] /\ RunDays \in [RunClass -> Nat]
  /\ PerPage \in Nat \ {0} /\ PageLimit \in Nat \ {0}

VARIABLES
  caches,     \* by number: [there, kind, main, platform, used], `used` the time of the last
              \* access, 0 when there never was such a cache
  artifacts,  \* by number: [there, age, expired]
  runs,       \* by number: [there, class, age, completed, logs]
  allOld,     \* --include-all-old-logs
  cleaner,    \* where the cleanup is, and what it listed
  cleanups, clock,          \* how many there were, and the time
  removed,    \* ghost: what cleanups removed, as it was
  touched, doubled, evicted \* ghosts: a job acted since this cleanup began; a list named a
                            \* cache twice; GitHub evicted a cache

cleanupVars == <<caches, artifacts, runs, allOld, cleaner, cleanups, clock, removed, touched, doubled, evicted>>
actionsVars == <<caches, artifacts, runs>>
jobVars == <<clock, touched, evicted>>

Existing(f) == {x \in DOMAIN f : f[x].there}

-----------------------------------------------------------------------------
(* plan_cache_cleanup: of what was listed, CodeQL's, uv's that are not of     *)
(* main, and all but the newest of a platform's uv caches and of Gitleaks'.   *)
(* An entry of the list is [page, id, cache]; one cache may be in two.        *)
NewestOf(entries) ==
  {e \in entries : \A f \in entries :
     e.cache.used > f.cache.used \/ (e.cache.used = f.cache.used /\ e.page <= f.page)}
Superseded(entries) == {e.id : e \in entries \ NewestOf(entries)}
EntriesOf(entries, kind) == {e \in entries : e.cache.kind = kind}
OfMain(entries) == {e \in EntriesOf(entries, "uv") : e.cache.main}
OnPlatform(entries, p) == {e \in OfMain(entries) : e.cache.platform = p}

OneWarmCache(entries) ==   \* slip: one for all platforms
  {e.id : e \in EntriesOf(entries, "codeql") \cup (EntriesOf(entries, "uv") \ OfMain(entries))}
  \cup Superseded(OfMain(entries)) \cup Superseded(EntriesOf(entries, "gitleaks"))

CachePlan(entries) ==
  {e.id : e \in EntriesOf(entries, "codeql") \cup (EntriesOf(entries, "uv") \ OfMain(entries))}
  \cup (UNION {Superseded(OnPlatform(entries, p)) : p \in Platform})
  \cup Superseded(EntriesOf(entries, "gitleaks"))

(* plan_artifact_cleanup, plan_run_cleanup and plan_log_cleanup: the age of   *)
(* what was listed does not change.                                           *)
Due(a) == artifacts[a].expired \/ artifacts[a].age >= ArtifactDays
OldRun(r) == runs[r].age >= RunDays[runs[r].class]
OldLog(r) ==
  /\ runs[r].age >= LogDays[runs[r].class]
  /\ allOld \/ runs[r].age < LogDays[runs[r].class] + GraceDays

Objects(kind, ids) == {[kind |-> kind, id |-> x] : x \in ids}
KindOrder == [cache |-> 1, artifact |-> 2, log |-> 3, run |-> 4]
Earlier(c, d) == KindOrder[c.kind] < KindOrder[d.kind] \/ (c.kind = d.kind /\ c.id <= d.id)

-----------------------------------------------------------------------------
(* A page of what is stored now, in the order of its listing.                 *)
PageAmong(things, key, p) ==
  {x \in things : Cardinality({y \in things : key[y] > key[x]}) \div PerPage = p - 1}
CachePage(p) == PageAmong(Existing(caches), [x \in Existing(caches) |-> caches[x].used], p)
ArtifactPage(p) == PageAmong(Existing(artifacts), [x \in Existing(artifacts) |-> x], p)
CompletedRuns == {r \in Existing(runs) : runs[r].completed}
RunPage(day, p) ==
  LET shard == {r \in CompletedRuns : allOld \/ runs[r].age = day} IN
  PageAmong(shard, [r \in shard |-> r], p)

Retentions == {LogDays[c] : c \in RunClass} \cup {RunDays[c] : c \in RunClass}
Lookback == GraceDays + CHOOSE d \in Retentions : \A e \in Retentions : e <= d

NoCleanup == [at |-> "idle", page |-> 1, day |-> 0, caches |-> {}, artifacts |-> {}, runs |-> {}, todo |-> {}]

StartCleanup ==
  /\ cleaner.at \in {"idle", "done", "failed"} /\ cleanups < MaxCleanups
  /\ cleanups' = cleanups + 1 /\ touched' = FALSE
  /\ cleaner' = [NoCleanup EXCEPT !.at = "caches"]
  /\ UNCHANGED <<actionsVars, allOld, clock, removed, doubled, evicted>>

(* A request fails, an answer is not as it should be, a list is too long.     *)
Fail ==
  /\ cleaner.at \in {"caches", "artifacts", "runs", "deleting"}
  /\ cleaner' = [NoCleanup EXCEPT !.at = "failed"]
  /\ UNCHANGED <<actionsVars, allOld, cleanups, jobVars, removed, doubled>>

(* _list_paginated: a full page is followed by another, up to the limit.      *)
Lists(page, more, last) ==
  /\ Cardinality(page) = PerPage => cleaner.page < PageLimit
  /\ cleaner' = IF Cardinality(page) = PerPage THEN [more EXCEPT !.page = @ + 1] ELSE [last EXCEPT !.page = 1]
  /\ UNCHANGED <<actionsVars, allOld, cleanups, jobVars, removed>>

ListCaches ==
  LET page == CachePage(cleaner.page)
      new == [cleaner EXCEPT !.caches = @ \cup {[page |-> cleaner.page, id |-> x, cache |-> caches[x]] : x \in page}] IN
  /\ cleaner.at = "caches"
  /\ Lists(page, new, [new EXCEPT !.at = "artifacts"])
  /\ doubled' = (doubled \/ \E e \in cleaner.caches : e.id \in page)

ListArtifacts ==
  LET page == ArtifactPage(cleaner.page)
      new == [cleaner EXCEPT !.artifacts = @ \cup {a \in page : Due(a)}] IN
  /\ cleaner.at = "artifacts"
  /\ Lists(page, new, [new EXCEPT !.at = "runs", !.day = Lookback])
  /\ UNCHANGED doubled

(* collect_plan: the log of a run that goes is not removed by itself.         *)
WithPlan(c) ==
  LET old == {r \in c.runs : OldRun(r)} IN
  [c EXCEPT !.at = "deleting",
            !.todo = Objects("cache", CachePlan(c.caches)) \cup Objects("artifact", c.artifacts)
                       \cup Objects("log", {r \in c.runs : OldLog(r)} \ old) \cup Objects("run", old)]

(* _list_recent_completed_runs: a list for every day, which must not overlap; *)
(* with --include-all-old-logs one list of all runs, in which they may.       *)
ListRuns ==
  LET page == RunPage(cleaner.day, cleaner.page)
      new == [cleaner EXCEPT !.runs = @ \cup page] IN
  /\ cleaner.at = "runs"
  /\ allOld \/ page \cap cleaner.runs = {}
  /\ Lists(page, new, IF allOld \/ cleaner.day = 0 THEN WithPlan(new) ELSE [new EXCEPT !.day = @ - 1])
  /\ UNCHANGED doubled

(* _delete, in the order of the plan: what is gone already is skipped.        *)
RemovesNext(c, was) ==
  /\ cleaner.at = "deleting" /\ c \in cleaner.todo
  /\ \A d \in cleaner.todo : Earlier(c, d)
  /\ removed' = IF was.there THEN removed \cup {[kind |-> c.kind, id |-> c.id, was |-> was]} ELSE removed
  /\ cleaner' = [cleaner EXCEPT !.todo = @ \ {c}]
  /\ UNCHANGED <<allOld, cleanups, jobVars, doubled>>

DeleteCache(x) ==
  /\ RemovesNext([kind |-> "cache", id |-> x], caches[x])
  /\ caches' = [caches EXCEPT ![x].there = FALSE]
  /\ UNCHANGED <<artifacts, runs>>

DeleteArtifact(x) ==
  /\ RemovesNext([kind |-> "artifact", id |-> x], artifacts[x])
  /\ artifacts' = [artifacts EXCEPT ![x].there = FALSE]
  /\ UNCHANGED <<caches, runs>>

(* GitHub refuses both while the run works.                                   *)
DeleteLog(x) ==
  /\ RemovesNext([kind |-> "log", id |-> x], [runs[x] EXCEPT !.there = @ /\ runs[x].logs])
  /\ runs[x].there => runs[x].completed
  /\ runs' = [runs EXCEPT ![x].logs = FALSE]
  /\ UNCHANGED <<caches, artifacts>>

DeleteRun(x) ==
  /\ RemovesNext([kind |-> "run", id |-> x], runs[x])
  /\ runs[x].there => runs[x].completed
  /\ runs' = [runs EXCEPT ![x].there = FALSE]
  /\ UNCHANGED <<caches, artifacts>>

FinishCleanup ==
  /\ cleaner.at = "deleting" /\ cleaner.todo = {}
  /\ cleaner' = [NoCleanup EXCEPT !.at = "done"]
  /\ UNCHANGED <<actionsVars, allOld, cleanups, jobVars, removed, doubled>>

-----------------------------------------------------------------------------
(* Jobs of other workflows, and GitHub.                                       *)
JobStep ==
  /\ clock < LastMoment /\ clock' = clock + 1 /\ touched' = TRUE
  /\ UNCHANGED <<allOld, cleaner, cleanups, removed, doubled>>

SaveCache(x, kind, main, platform) ==
  /\ JobStep /\ caches[x].used = 0
  /\ caches' = [caches EXCEPT ![x] = [there |-> TRUE, kind |-> kind, main |-> main, platform |-> platform,
                                      used |-> clock]]
  /\ UNCHANGED <<artifacts, runs, evicted>>

RestoreCache(x) ==
  /\ JobStep /\ caches[x].there
  /\ caches' = [caches EXCEPT ![x].used = clock]
  /\ UNCHANGED <<artifacts, runs, evicted>>

EvictCache(x) ==
  /\ JobStep /\ caches[x].there
  /\ caches' = [caches EXCEPT ![x].there = FALSE] /\ evicted' = TRUE
  /\ UNCHANGED <<artifacts, runs>>

(* A run ends, or is run again; its age is that of its creation.              *)
TurnRun(r) ==
  /\ JobStep /\ runs[r].there
  /\ runs' = [runs EXCEPT ![r].completed = ~@, ![r].logs = TRUE]
  /\ UNCHANGED <<caches, artifacts, evicted>>

AddArtifact(a) ==
  /\ JobStep /\ ~artifacts[a].there /\ \A b \in DOMAIN artifacts : b >= a => ~artifacts[b].there
  /\ artifacts' = [artifacts EXCEPT ![a] = [there |-> TRUE, age |-> 0, expired |-> FALSE]]
  /\ UNCHANGED <<caches, runs, evicted>>

-----------------------------------------------------------------------------
CleanupInit ==
  /\ \E w \in CleanupWorlds :
       caches = w.caches /\ artifacts = w.artifacts /\ runs = w.runs /\ allOld = w.all /\ clock = w.clock
  /\ cleaner = NoCleanup /\ cleanups = 0 /\ removed = {}
  /\ touched = FALSE /\ doubled = FALSE /\ evicted = FALSE

CleanupNext ==
  \/ StartCleanup \/ Fail \/ ListCaches \/ ListArtifacts \/ ListRuns \/ FinishCleanup
  \/ \E x \in DOMAIN caches : DeleteCache(x) \/ RestoreCache(x) \/ EvictCache(x)
  \/ \E x \in DOMAIN caches, kind \in {"uv", "gitleaks", "codeql"}, main \in BOOLEAN, p \in {"linux", "macos"} :
       SaveCache(x, kind, main, p)
  \/ \E x \in DOMAIN artifacts : DeleteArtifact(x) \/ AddArtifact(x)
  \/ \E x \in DOMAIN runs : DeleteLog(x) \/ DeleteRun(x) \/ TurnRun(x)

CleanupSpec == CleanupInit /\ [][CleanupNext]_cleanupVars

-----------------------------------------------------------------------------
(* A cleanup that removed a uv cache of main has left one for that platform,  *)
(* so that pull requests still restore a warm cache: whatever was saved,      *)
(* restored or run again between its requests, and when it failed midway; but *)
(* for a cache its lists named twice, and for GitHub's own evictions.         *)
WarmCacheStays ==
  \A o \in removed : o.kind = "cache" /\ o.was.kind = "uv" /\ o.was.main =>
    \/ doubled \/ evicted
    \/ \E x \in Existing(caches) : caches[x].kind = "uv" /\ caches[x].main /\ caches[x].platform = o.was.platform

(* What is younger than its retention, or of a run that works, stays.         *)
OnlyOldGoes ==
  \A o \in removed :
    /\ o.kind = "artifact" => o.was.expired \/ o.was.age >= ArtifactDays
    /\ o.kind = "run" => o.was.completed /\ o.was.age >= RunDays[o.was.class]
    /\ o.kind = "log" => o.was.completed /\ o.was.age >= LogDays[o.was.class]

(* A run whose log was removed by itself stays: its checks can be looked up.  *)
ChecksStay == \A o \in removed : o.kind = "log" => runs[o.id].there

(* A cleanup that ends with no job at work leaves nothing a cleanup removes.  *)
QuietCleanupIsComplete ==
  cleaner.at = "done" /\ ~touched =>
    /\ \A x, y \in Existing(caches) :
         /\ caches[x].kind # "codeql" /\ (caches[x].kind = "uv" => caches[x].main)
         /\ caches[x].kind = "gitleaks" /\ caches[y].kind = "gitleaks" => x = y
         /\ caches[x].kind = "uv" /\ caches[y].kind = "uv" /\ caches[x].platform = caches[y].platform => x = y
    /\ \A a \in Existing(artifacts) : ~Due(a)
    /\ \A r \in CompletedRuns : allOld \/ runs[r].age <= Lookback => ~OldRun(r) /\ (OldLog(r) => ~runs[r].logs)

CleanupSafe == WarmCacheStays /\ OnlyOldGoes /\ ChecksStay /\ QuietCleanupIsComplete
-----------------------------------------------------------------------------
(* The inductive invariant.  First what the cleanup's lists and its plan are  *)
(* made of.                                                                   *)
CacheEntry == [page : Nat, id : DOMAIN caches, cache : StoredCache]
Plannable == Objects("cache", DOMAIN caches) \cup Objects("artifact", DOMAIN artifacts)
             \cup Objects("log", DOMAIN runs) \cup Objects("run", DOMAIN runs)
ListsNow == cleaner.at \in {"caches", "artifacts", "runs"}
Doomed(kind, x) == [kind |-> kind, id |-> x] \in cleaner.todo

CleanupTyped ==
  /\ CachesAt(caches, clock) /\ Numbered(artifacts, StoredArtifact) /\ Numbered(runs, StoredRun)
  /\ clock \in Nat /\ {allOld, touched, doubled, evicted} \subseteq BOOLEAN
  /\ cleaner \in [at : {"idle", "caches", "artifacts", "runs", "deleting", "done", "failed"},
                   page : Nat \ {0}, day : Nat, caches : SUBSET CacheEntry,
                   artifacts : SUBSET DOMAIN artifacts, runs : SUBSET DOMAIN runs, todo : SUBSET Plannable]
  /\ ListsNow => cleaner.todo = {}

(* A listed cache is what it was, and still there unless GitHub evicted it;   *)
(* but for a shift of the pages it is listed once.                            *)
EntriesStand ==
  /\ \A e \in cleaner.caches : ListsNow =>
       /\ caches[e.id].used > 0 /\ e.cache.kind = caches[e.id].kind
       /\ e.cache.main = caches[e.id].main /\ e.cache.platform = caches[e.id].platform
       /\ caches[e.id].there \/ evicted
  /\ ListsNow /\ ~doubled => \A e, f \in cleaner.caches : e.id = f.id => e = f

(* What is to be removed is old; of the uv caches of a platform one stays.    *)
Warm(x, p) == caches[x].kind = "uv" /\ caches[x].main /\ caches[x].platform = p
PlanIsOld ==
  /\ \A a \in cleaner.artifacts : ListsNow => artifacts[a].there /\ Due(a)
  /\ \A x \in DOMAIN artifacts : Doomed("artifact", x) => artifacts[x].there /\ Due(x)
  /\ \A x \in DOMAIN runs : (Doomed("run", x) => OldRun(x)) /\ (Doomed("log", x) => OldLog(x) /\ ~OldRun(x))
PlanKeepsWarm ==
  \A x \in DOMAIN caches : Doomed("cache", x) =>
    /\ caches[x].used > 0
    /\ \A p \in Platform : Warm(x, p) => doubled \/ evicted \/ \E y \in Existing(caches) : Warm(y, p) /\ ~Doomed("cache", y)

LogsOfStandingRuns == \A o \in removed : o.kind = "log" => o.id \in DOMAIN runs /\ ~OldRun(o.id) /\ runs[o.id].there

(* While no job acts, what has not been listed is on a page still to come.    *)
PagesBefore(things, key, x) == Cardinality({y \in things : key[y] > key[x]}) \div PerPage
CachePagesBefore(x) == PagesBefore(Existing(caches), [y \in Existing(caches) |-> caches[y].used], x)
ArtifactPagesBefore(x) == PagesBefore(Existing(artifacts), [y \in Existing(artifacts) |-> y], x)
Shard(day) == {r \in CompletedRuns : allOld \/ runs[r].age = day}
RunPagesBefore(day, x) == PagesBefore(Shard(day), [r \in Shard(day) |-> r], x)

QuietCaches ==
  ListsNow /\ ~touched =>
    /\ \A e \in cleaner.caches :
         caches[e.id].there /\ e.cache = caches[e.id] /\ e.page = CachePagesBefore(e.id) + 1
    /\ \A x \in Existing(caches) :
         \/ \E e \in cleaner.caches : e.id = x
         \/ cleaner.at = "caches" /\ CachePagesBefore(x) >= cleaner.page - 1
QuietArtifacts ==
  cleaner.at \in {"artifacts", "runs"} /\ ~touched =>
    \A x \in Existing(artifacts) : Due(x) =>
      \/ x \in cleaner.artifacts
      \/ cleaner.at = "artifacts" /\ ArtifactPagesBefore(x) >= cleaner.page - 1
QuietRuns ==
  cleaner.at = "runs" /\ ~touched =>
    \A r \in CompletedRuns : allOld \/ runs[r].age <= Lookback =>
      \/ r \in cleaner.runs
      \/ ~allOld /\ runs[r].age < cleaner.day
      \/ r \in Shard(cleaner.day) /\ RunPagesBefore(cleaner.day, r) >= cleaner.page - 1

(* Then whatever should go is planned, and at the end nothing is left.        *)
QuietPlan ==
  cleaner.at \in {"deleting", "done"} /\ ~touched =>
    /\ \A x \in Existing(caches) : ~Doomed("cache", x) =>
         caches[x].kind # "codeql" /\ (caches[x].kind = "uv" => caches[x].main)
    /\ \A x, y \in Existing(caches) : ~Doomed("cache", x) /\ ~Doomed("cache", y) =>
         /\ caches[x].kind = "gitleaks" /\ caches[y].kind = "gitleaks" => x = y
         /\ caches[x].kind = "uv" /\ caches[y].kind = "uv" /\ caches[x].platform = caches[y].platform => x = y
    /\ \A x \in Existing(artifacts) : Due(x) => Doomed("artifact", x)
    /\ \A r \in CompletedRuns : allOld \/ runs[r].age <= Lookback =>
         /\ OldRun(r) => Doomed("run", r)
         /\ OldLog(r) /\ ~OldRun(r) /\ runs[r].logs => Doomed("log", r)
    /\ (cleaner.at = "done" => cleaner.todo = {})

CleanupInv ==
  /\ CleanupTyped /\ EntriesStand /\ PlanIsOld /\ PlanKeepsWarm /\ LogsOfStandingRuns
  /\ QuietCaches /\ QuietArtifacts /\ QuietRuns /\ QuietPlan
  /\ WarmCacheStays /\ OnlyOldGoes

-----------------------------------------------------------------------------
(* The scripts around the toolkit: a release is whole, single and delivered    *)
(* before it is announced; a cleanup removes what is old and nothing else.     *)
MaintenanceSafe == ReleaseSafe /\ CleanupSafe
=============================================================================
