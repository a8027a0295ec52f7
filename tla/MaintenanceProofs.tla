-------------------------- MODULE MaintenanceProofs --------------------------
(* Proofs, for every value of the constants, about the scripts around the     *)
(* toolkit: the cleanup of GitHub's stores (ActionsCleanup) and the stable    *)
(* release (StableRelease), each from its inductive invariant.                *)
EXTENDS ActionsCleanup, FiniteSetTheorems, TLAPS

(* Quotients: the number of the page a position is on.                         *)
LEMMA Divides ==
  ASSUME NEW r \in Nat, NEW p \in Nat \ {0}
  PROVE  /\ r \div p \in Nat
         /\ (r \div p) * p <= r /\ r < (r \div p) * p + p
  OBVIOUS

LEMMA DivIs ==
  ASSUME NEW r \in Nat, NEW p \in Nat \ {0}, NEW q \in Nat, q * p <= r, r < q * p + p
  PROVE  r \div p = q
<1> DEFINE d == r \div p
<1>1. d \in Nat /\ d * p <= r /\ r < d * p + p BY Divides
<1> HIDE DEF d
<1>2. ~(d < q)
  <2> SUFFICES ASSUME d + 1 <= q PROVE FALSE BY <1>1
  <2>1. (d + 1) * p <= q * p BY <1>1
  <2>2. (d + 1) * p = d * p + p BY <1>1
  <2>3. d * p \in Nat /\ q * p \in Nat BY <1>1
  <2> QED BY <1>1, <2>1, <2>2, <2>3
<1>3. ~(q < d)
  <2> SUFFICES ASSUME q + 1 <= d PROVE FALSE BY <1>1
  <2>1. (q + 1) * p <= d * p BY <1>1
  <2>2. (q + 1) * p = q * p + p BY <1>1
  <2>3. d * p \in Nat /\ q * p \in Nat BY <1>1
  <2> QED BY <1>1, <2>1, <2>2, <2>3
<1> QED BY <1>1, <1>2, <1>3 DEF d

LEMMA DivGrows ==
  ASSUME NEW r \in Nat, NEW s \in Nat, NEW p \in Nat \ {0}, r <= s
  PROVE  r \div p <= s \div p
<1> DEFINE d == r \div p
           e == s \div p
<1>1. d \in Nat /\ d * p <= r /\ r < d * p + p /\ e \in Nat /\ e * p <= s /\ s < e * p + p BY Divides
<1> HIDE DEF d, e
<1> SUFFICES ASSUME e + 1 <= d PROVE FALSE BY <1>1 DEF d, e
<1>2. (e + 1) * p <= d * p BY <1>1
<1>3. (e + 1) * p = e * p + p BY <1>1
<1>4. d * p \in Nat /\ e * p \in Nat BY <1>1
<1> QED BY <1>1, <1>2, <1>3, <1>4

(* Least numbers and maximal elements of what is finite.                       *)
LEMMA SmallestNumber ==
  ASSUME NEW T \in SUBSET Nat, T # {}
  PROVE  \E x \in T : \A y \in T : x <= y
<1> SUFFICES ASSUME ~\E x \in T : \A y \in T : x <= y PROVE FALSE OBVIOUS
<1>1. PICK k \in T : TRUE OBVIOUS
<1> DEFINE above == {m \in 0..k : \E t \in T : t <= m}
           less == [m \in above |-> m - 1]
           rest == above \ {k}
<1>2. ASSUME NEW m \in above PROVE m - 1 \in above
  <2>1. PICK t \in T : t <= m BY <1>2
  <2>2. PICK u \in T : ~(t <= u) BY <2>1
  <2>3. u \in Nat /\ t \in Nat /\ u < t /\ m \in Nat BY <2>1, <2>2, <1>2
  <2>4. u <= m - 1 /\ m - 1 \in 0..k BY <2>1, <2>3, <1>2
  <2> QED BY <2>2, <2>4
<1>3. k \in above BY <1>1
<1>4. less \in Injection(above, rest)
  <2>1. \A m \in above : m - 1 \in rest BY <1>1, <1>2
  <2>2. \A m, n \in above : less[m] = less[n] => m = n OBVIOUS
  <2>3. less \in [above -> rest] BY <2>1
  <2> HIDE DEF above, less, rest
  <2> QED BY <2>2, <2>3 DEF Injection, IsInjective
<1>5. IsFiniteSet(0..k) BY <1>1, FS_Interval
<1>6. IsFiniteSet(above) BY <1>5, FS_Subset
<1>7. IsFiniteSet(rest) /\ Cardinality(rest) = Cardinality(above) - 1 /\ Cardinality(above) \in Nat
  BY <1>3, <1>6, FS_RemoveElement, FS_CardinalityType
<1> HIDE DEF above, less, rest
<1>8. Cardinality(above) <= Cardinality(rest) BY <1>4, <1>7, FS_Injection
<1> QED BY <1>7, <1>8

LEMMA MaximalElement ==
  ASSUME NEW T, IsFiniteSet(T), T # {}, NEW R,
         \A x \in T : <<x, x>> \notin R,
         \A x, y, z \in T : <<x, y>> \in R /\ <<y, z>> \in R => <<x, z>> \in R
  PROVE  \E x \in T : \A y \in T : <<x, y>> \notin R
<1> DEFINE above(x) == {y \in T : <<x, y>> \in R}
           count == [x \in T |-> Cardinality(above(x))]
           counts == {count[x] : x \in T}
<1>1. \A x \in T : IsFiniteSet(above(x)) /\ Cardinality(above(x)) \in Nat BY FS_Subset, FS_CardinalityType
<1>2. counts \in SUBSET Nat /\ counts # {}
  <2>1. count \in [T -> Nat] BY <1>1
  <2> HIDE DEF count
  <2> QED BY <2>1
<1>3. PICK c \in counts : \A d \in counts : c <= d
  <2> HIDE DEF counts
  <2> QED BY <1>2, SmallestNumber
<1>4. PICK x \in T : c = Cardinality(above(x))
  <2>1. PICK x \in T : c = count[x] BY <1>3
  <2> QED BY <2>1
<1>5. ASSUME NEW y \in T, <<x, y>> \in R PROVE FALSE
  <2>1. above(y) \in SUBSET above(x) BY <1>4, <1>5
  <2>2. y \in above(x) /\ y \notin above(y) BY <1>5
  <2>3. Cardinality(above(y)) <= Cardinality(above(x)) /\ Cardinality(above(y)) # Cardinality(above(x))
    <3> HIDE DEF above
    <3> QED BY <1>1, <1>4, <2>1, <2>2, FS_Subset
  <2>4. c <= Cardinality(above(y))
    <3>1. count[y] \in counts BY <1>5
    <3>2. count[y] = Cardinality(above(y)) BY <1>5
    <3> HIDE DEF count, counts, above
    <3> QED BY <1>3, <3>1, <3>2
  <2> QED BY <1>1, <1>4, <1>5, <2>3, <2>4
<1> QED BY <1>4, <1>5

(* Things that are listed in the order of a key: the page of a thing is what   *)
(* its rank gives, and a page with a later thing behind it is full.            *)
LEMMA Ranks ==
  ASSUME NEW S, IsFiniteSet(S), NEW rank \in [S -> Nat], \A x, y \in S : rank[x] = rank[y] => x = y,
         \A x \in S : rank[x] < Cardinality(S)
  PROVE  \A i \in 0..(Cardinality(S) - 1) : \E x \in S : rank[x] = i
<1> DEFINE N == Cardinality(S)
           T == 0..(N - 1)
<1>1. N \in Nat BY FS_CardinalityType
<1>2. IsFiniteSet(T) /\ Cardinality(T) = N
  <2>1. N - 1 \in Int /\ 0 \in Int BY <1>1
  <2>2. IsFiniteSet(T) /\ Cardinality(T) = IF 0 > N - 1 THEN 0 ELSE (N - 1) - 0 + 1
    <3> HIDE DEF N
    <3> QED BY <2>1, FS_Interval
  <2> HIDE DEF N
  <2> QED BY <1>1, <2>2
<1>3. rank \in Injection(S, T)
  <2>1. rank \in [S -> T] BY <1>1
  <2> QED BY <2>1 DEF Injection, IsInjective
<1>4. rank \in Surjection(S, T)
  <2> HIDE DEF T
  <2> QED BY <1>2, <1>3, FS_Injection
<1> QED BY <1>4 DEF Surjection

LEMMA FullPage ==
  ASSUME NEW S, IsFiniteSet(S), NEW rank \in [S -> Nat], \A x, y \in S : rank[x] = rank[y] => x = y,
         \A x \in S : rank[x] < Cardinality(S),
         NEW p \in Nat \ {0}, NEW q \in Nat, NEW last \in S, rank[last] \div p > q
  PROVE  Cardinality({x \in S : rank[x] \div p = q}) = p
<1> DEFINE N == Cardinality(S)
           A == {x \in S : rank[x] \div p = q}
           a == q * p
           b == a + p - 1
           g == [x \in A |-> rank[x]]
<1>1. N \in Nat /\ p \in Nat /\ p > 0 /\ a \in Nat /\ b \in Nat BY FS_CardinalityType
<1>2. rank[last] >= a + p
  <2> DEFINE d == rank[last] \div p
  <2>1. d \in Nat /\ d * p <= rank[last] BY Divides
  <2>2. d >= q + 1 BY <2>1
  <2> HIDE DEF d
  <2>3. d * p >= (q + 1) * p BY <2>1, <2>2
  <2>4. (q + 1) * p = a + p OBVIOUS
  <2>5. d * p \in Nat BY <2>1
  <2> QED BY <1>1, <2>1, <2>3, <2>4, <2>5
<1>3. b < N BY <1>1, <1>2
<1>4. ASSUME NEW x \in S PROVE x \in A <=> rank[x] \in a..b
  <2>1. ASSUME x \in A PROVE rank[x] \in a..b
    <3>1. rank[x] \div p = q BY <2>1
    <3>2. q * p <= rank[x] /\ rank[x] < q * p + p BY <3>1, Divides
    <3> QED BY <1>1, <3>2
  <2>2. ASSUME rank[x] \in a..b PROVE x \in A
    <3>1. rank[x] \in Nat /\ q * p <= rank[x] /\ rank[x] < q * p + p BY <1>1, <2>2
    <3>2. rank[x] \div p = q BY <3>1, DivIs
    <3> QED BY <3>2
  <2> QED BY <2>1, <2>2
<1>5. IsFiniteSet(a..b) /\ Cardinality(a..b) = p
  <2>1. IsFiniteSet(a..b) /\ Cardinality(a..b) = IF a > b THEN 0 ELSE b - a + 1
    <3>1. a \in Int /\ b \in Int BY <1>1
    <3> HIDE DEF a, b
    <3> QED BY <3>1, FS_Interval
  <2>2. ~(a > b) /\ b - a + 1 = p
    <3> HIDE DEF a
    <3> QED BY <1>1
  <2> QED BY <2>1, <2>2
<1> HIDE DEF a, b, N
<1>6. g \in Injection(A, a..b)
  <2>1. \A x \in A : x \in S /\ rank[x] \in a..b BY <1>4
  <2>2. g \in [A -> a..b] BY <2>1
  <2>3. \A x, y \in A : g[x] = g[y] => x = y BY <2>1
  <2> QED BY <2>2, <2>3 DEF Injection, IsInjective
<1>7. g \in Surjection(A, a..b)
  <2>1. ASSUME NEW i \in a..b PROVE \E x \in A : g[x] = i
    <3>1. i \in 0..(N - 1) BY <1>1, <1>3
    <3>2. PICK x \in S : rank[x] = i BY <3>1, Ranks DEF N
    <3>3. x \in A BY <1>4, <3>2
    <3> QED BY <3>2, <3>3
  <2>2. g \in [A -> a..b] BY <1>6 DEF Injection
  <2> QED BY <2>1, <2>2 DEF Surjection
<1> HIDE DEF A, g
<1>8. Cardinality(A) = Cardinality(a..b) BY <1>5, <1>6, <1>7, FS_Injection
<1> QED BY <1>5, <1>8 DEF A
LEMMA KeyRanks ==
  ASSUME NEW S, IsFiniteSet(S), NEW key \in [S -> Nat], \A x, y \in S : key[x] = key[y] => x = y
  PROVE  LET rank == [x \in S |-> Cardinality({y \in S : key[y] > key[x]})] IN
         /\ rank \in [S -> Nat]
         /\ \A x, y \in S : rank[x] = rank[y] => x = y
         /\ \A x \in S : rank[x] < Cardinality(S)
<1> DEFINE above(x) == {y \in S : key[y] > key[x]}
           rank == [x \in S |-> Cardinality(above(x))]
<1>1. \A x \in S : IsFiniteSet(above(x)) /\ Cardinality(above(x)) \in Nat BY FS_Subset, FS_CardinalityType
<1>2. rank \in [S -> Nat] BY <1>1
<1>3. ASSUME NEW x \in S, NEW y \in S, key[x] < key[y] PROVE rank[x] # rank[y]
  <2>1. above(y) \in SUBSET above(x)
    <3>1. \A z \in above(y) : z \in S /\ key[z] \in Nat /\ key[z] > key[y] OBVIOUS
    <3>2. \A z \in above(y) : key[z] > key[x] BY <1>3, <3>1
    <3> QED BY <3>1, <3>2
  <2>2. y \in above(x) /\ y \notin above(y) BY <1>3
  <2>3. Cardinality(above(y)) # Cardinality(above(x))
    <3> HIDE DEF above
    <3> QED BY <1>1, <2>1, <2>2, FS_Subset
  <2> QED BY <2>3
<1>4. \A x, y \in S : rank[x] = rank[y] => x = y
  <2> SUFFICES ASSUME NEW x \in S, NEW y \in S, rank[x] = rank[y] PROVE x = y OBVIOUS
  <2>1. key[x] \in Nat /\ key[y] \in Nat OBVIOUS
  <2>2. ~(key[x] < key[y]) BY <1>3
  <2>3. ~(key[y] < key[x]) BY <1>3
  <2>4. key[x] = key[y] BY <2>1, <2>2, <2>3
  <2> QED BY <2>4
<1>5. ASSUME NEW x \in S PROVE rank[x] < Cardinality(S)
  <2>1. above(x) \in SUBSET S /\ x \notin above(x) OBVIOUS
  <2>2. Cardinality(above(x)) <= Cardinality(S) /\ Cardinality(above(x)) # Cardinality(S)
    <3> HIDE DEF above
    <3> QED BY <2>1, FS_Subset
  <2>3. Cardinality(S) \in Nat BY FS_CardinalityType
  <2>4. rank[x] = Cardinality(above(x)) OBVIOUS
  <2> QED BY <1>1, <2>2, <2>3, <2>4
<1> QED BY <1>2, <1>4, <1>5

LEMMA LastPage ==
  ASSUME NEW S, IsFiniteSet(S), NEW key \in [S -> Nat], \A x, y \in S : key[x] = key[y] => x = y,
         NEW p \in Nat \ {0}, Cardinality(PageAmong(S, key, p)) # PerPage, NEW x \in S
  PROVE  PagesBefore(S, key, x) \in Nat /\ PagesBefore(S, key, x) <= p - 1
<1> DEFINE rank == [y \in S |-> Cardinality({z \in S : key[z] > key[y]})]
<1>1. /\ rank \in [S -> Nat] /\ \A y, z \in S : rank[y] = rank[z] => y = z
      /\ \A y \in S : rank[y] < Cardinality(S)
  BY KeyRanks
<1>2. PageAmong(S, key, p) = {y \in S : rank[y] \div PerPage = p - 1} BY DEF PageAmong
<1>3. PagesBefore(S, key, x) = rank[x] \div PerPage BY DEF PagesBefore
<1>4. p - 1 \in Nat /\ PerPage \in Nat \ {0} BY CleanupAssumption
<1> HIDE DEF rank
<1>5. rank[x] \div PerPage \in Nat BY <1>1, <1>4, Divides
<1>6. ~(rank[x] \div PerPage > p - 1)
  <2> SUFFICES ASSUME rank[x] \div PerPage > p - 1 PROVE FALSE OBVIOUS
  <2>1. Cardinality({y \in S : rank[y] \div PerPage = p - 1}) = PerPage BY <1>1, <1>4, FullPage
  <2> QED BY <1>2, <2>1
<1> QED BY <1>3, <1>4, <1>5, <1>6

LEMMA PagesBeforeType ==
  ASSUME NEW S, IsFiniteSet(S), NEW key, NEW x
  PROVE  PagesBefore(S, key, x) \in Nat
<1>1. IsFiniteSet({y \in S : key[y] > key[x]}) BY FS_Subset
<1>2. Cardinality({y \in S : key[y] > key[x]}) \in Nat BY <1>1, FS_CardinalityType
<1> QED BY <1>2, Divides, CleanupAssumption DEF PagesBefore
LEMMA LookbackType == Lookback \in Nat /\ \A c \in RunClass : RunDays[c] <= Lookback /\ LogDays[c] + GraceDays <= Lookback
<1>1. Retentions \in SUBSET Nat /\ Retentions # {} /\ IsFiniteSet(Retentions)
  <2>1. Retentions = {LogDays[c] : c \in RunClass} \cup {RunDays[c] : c \in RunClass} BY DEF Retentions
  <2>2. IsFiniteSet({LogDays[c] : c \in RunClass})
    <3> DEFINE f == [c \in RunClass |-> LogDays[c]]
               T == {LogDays[c] : c \in RunClass}
    <3>1. f \in Surjection(RunClass, T) BY DEF Surjection
    <3> HIDE DEF f, T
    <3> QED BY <3>1, FS_Surjection, CleanupAssumption DEF T
  <2>3. IsFiniteSet({RunDays[c] : c \in RunClass})
    <3> DEFINE f == [c \in RunClass |-> RunDays[c]]
               T == {RunDays[c] : c \in RunClass}
    <3>1. f \in Surjection(RunClass, T) BY DEF Surjection
    <3> HIDE DEF f, T
    <3> QED BY <3>1, FS_Surjection, CleanupAssumption DEF T
  <2>4. IsFiniteSet(Retentions) BY <2>1, <2>2, <2>3, FS_Union
  <2> QED BY <2>1, <2>4, CleanupAssumption
<1> DEFINE less == {q \in Retentions \X Retentions : q[1] < q[2]}
<1>2. \E d \in Retentions : \A e \in Retentions : <<d, e>> \notin less
  <2>1. \A d \in Retentions : <<d, d>> \notin less BY <1>1
  <2>2. \A x, y, z \in Retentions : <<x, y>> \in less /\ <<y, z>> \in less => <<x, z>> \in less BY <1>1
  <2> HIDE DEF less
  <2> QED BY <1>1, <2>1, <2>2, MaximalElement
<1>3. \E d \in Retentions : \A e \in Retentions : e <= d
  <2>1. PICK d \in Retentions : \A e \in Retentions : <<d, e>> \notin less BY <1>2
  <2>2. ASSUME NEW e \in Retentions PROVE e <= d
    <3>1. <<d, e>> \in Retentions \X Retentions /\ <<d, e>>[1] = d /\ <<d, e>>[2] = e OBVIOUS
    <3>2. ~(d < e) BY <2>1, <3>1
    <3> QED BY <1>1, <3>2
  <2> QED BY <2>2
<1> DEFINE top == CHOOSE d \in Retentions : \A e \in Retentions : e <= d
<1>4. top \in Retentions /\ \A e \in Retentions : e <= top BY <1>3
<1>5. \A c \in RunClass : RunDays[c] \in Retentions /\ LogDays[c] \in Retentions BY DEF Retentions
<1>6. Lookback = GraceDays + top BY DEF Lookback
<1> HIDE DEF top
<1>7. GraceDays \in Nat BY CleanupAssumption
<1>8. top \in Nat BY <1>1, <1>4
<1>9. ASSUME NEW c \in RunClass PROVE RunDays[c] <= Lookback /\ LogDays[c] + GraceDays <= Lookback
  <2>1. RunDays[c] \in Nat /\ LogDays[c] \in Nat BY CleanupAssumption
  <2>2. RunDays[c] <= top /\ LogDays[c] <= top BY <1>4, <1>5
  <2> QED BY <1>6, <1>7, <1>8, <2>1, <2>2
<1> QED BY <1>6, <1>7, <1>8, <1>9

(* The plan's objects by their kinds.                                          *)
LEMMA PlanIds ==
  ASSUME NEW D, NEW entries, \A e \in entries : e.id \in D
  PROVE  CachePlan(entries) \subseteq D
<1>1. \A s \in SUBSET entries : Superseded(s) \subseteq D BY DEF Superseded
<1>2. /\ EntriesOf(entries, "codeql") \subseteq entries /\ EntriesOf(entries, "uv") \subseteq entries
      /\ EntriesOf(entries, "gitleaks") \subseteq entries /\ \A p : OnPlatform(entries, p) \subseteq entries
  BY DEF EntriesOf, OnPlatform, OfMain
<1>3. UNION {Superseded(OnPlatform(entries, p)) : p \in Platform} \subseteq D BY <1>1, <1>2
<1>4. Superseded(EntriesOf(entries, "gitleaks")) \subseteq D BY <1>1, <1>2
<1>5. {e.id : e \in EntriesOf(entries, "codeql") \cup (EntriesOf(entries, "uv") \ OfMain(entries))} \subseteq D
  BY <1>2
<1> DEFINE a == {e.id : e \in EntriesOf(entries, "codeql") \cup (EntriesOf(entries, "uv") \ OfMain(entries))}
           b == UNION {Superseded(OnPlatform(entries, p)) : p \in Platform}
           c == Superseded(EntriesOf(entries, "gitleaks"))
<1>6. CachePlan(entries) = (a \cup b) \cup c BY DEF CachePlan
<1>7. a \subseteq D /\ b \subseteq D /\ c \subseteq D BY <1>3, <1>4, <1>5
<1> HIDE DEF a, b, c
<1> QED BY <1>6, <1>7

LEMMA CacheChanges ==
  ASSUME CachesAt(caches, clock), clock \in Nat, NEW x \in DOMAIN caches, NEW c \in StoredCache,
         caches' = [caches EXCEPT ![x] = c], clock' \in Nat, clock <= clock',
         c.used < clock', c.there => c.used > 0, c.used \in {caches[x].used, clock}
  PROVE  CachesAt(caches, clock)' /\ DOMAIN caches' = DOMAIN caches
<1>1. DOMAIN caches' = DOMAIN caches /\ \A y \in DOMAIN caches : caches'[y] = IF y = x THEN c ELSE caches[y]
  BY DEF CachesAt
<1>2. caches' \in [DOMAIN caches -> StoredCache] BY DEF CachesAt
<1>3. \A y \in DOMAIN caches : caches[y].used \in Nat /\ c.used \in Nat BY DEF CachesAt, StoredCache
<1>4. \A y \in DOMAIN caches : caches'[y].used < clock' /\ (caches'[y].there => caches'[y].used > 0)
  BY <1>1, <1>3 DEF CachesAt
<1>5. \A y, z \in DOMAIN caches : caches'[y].used > 0 /\ caches'[y].used = caches'[z].used => y = z
  BY <1>1, <1>3 DEF CachesAt
<1> QED BY <1>1, <1>2, <1>4, <1>5 DEF CachesAt

LEMMA ThingChanges ==
  ASSUME NEW thing, NEW f, NEW g, Numbered(f, thing), NEW x \in DOMAIN f, NEW c \in thing, g = [f EXCEPT ![x] = c]
  PROVE  Numbered(g, thing) /\ DOMAIN g = DOMAIN f
  BY DEF Numbered
CleanerSteps == {"idle", "caches", "artifacts", "runs", "deleting", "done", "failed"}
(* What any step does to what is stored.                                      *)
StoreMoves ==
  /\ CachesAt(caches, clock)' /\ DOMAIN caches' = DOMAIN caches
  /\ Numbered(artifacts, StoredArtifact)' /\ DOMAIN artifacts' = DOMAIN artifacts
  /\ Numbered(runs, StoredRun)' /\ DOMAIN runs' = DOMAIN runs
  /\ \A r \in DOMAIN runs : runs'[r].age = runs[r].age /\ runs'[r].class = runs[r].class
  /\ clock' \in Nat /\ clock <= clock' /\ allOld' = allOld
  /\ touched' \in BOOLEAN /\ doubled' \in BOOLEAN /\ evicted' \in BOOLEAN

LEMMA StoreStands ==
  ASSUME CleanupTyped, UNCHANGED actionsVars, clock' = clock, allOld' = allOld, evicted' = evicted,
         touched' \in BOOLEAN, doubled' \in BOOLEAN
  PROVE  StoreMoves
<1>1. caches' = caches /\ artifacts' = artifacts /\ runs' = runs BY DEF actionsVars
<1>2. CachesAt(caches, clock)' BY <1>1 DEF CleanupTyped, CachesAt
<1>3. Numbered(artifacts, StoredArtifact)' /\ Numbered(runs, StoredRun)' BY <1>1 DEF CleanupTyped, Numbered
<1>4. clock \in Nat /\ evicted \in BOOLEAN BY DEF CleanupTyped
<1> QED BY <1>1, <1>2, <1>3, <1>4 DEF StoreMoves

LEMMA ListsStore ==
  ASSUME CleanupTyped, ListCaches \/ ListArtifacts \/ ListRuns \/ StartCleanup \/ Fail \/ FinishCleanup
  PROVE  StoreMoves
<1>1. {touched, doubled, evicted} \subseteq BOOLEAN BY DEF CleanupTyped
<1>2. CASE ListCaches
  <2>1. UNCHANGED actionsVars /\ allOld' = allOld /\ clock' = clock /\ touched' = touched /\ evicted' = evicted
    BY <1>2 DEF ListCaches, Lists, jobVars
  <2>2. doubled' \in BOOLEAN BY <1>2 DEF ListCaches
  <2> QED BY <1>1, <2>1, <2>2, StoreStands
<1>3. CASE ListArtifacts
  <2>1. UNCHANGED actionsVars /\ allOld' = allOld /\ clock' = clock /\ touched' = touched /\ evicted' = evicted /\ doubled' = doubled
    BY <1>3 DEF ListArtifacts, Lists, jobVars
  <2> QED BY <1>1, <2>1, StoreStands
<1>4. CASE ListRuns
  <2>1. UNCHANGED actionsVars /\ allOld' = allOld /\ clock' = clock /\ touched' = touched /\ evicted' = evicted /\ doubled' = doubled
    BY <1>4 DEF ListRuns, Lists, jobVars
  <2> QED BY <1>1, <2>1, StoreStands
<1>5. CASE StartCleanup
  <2>1. UNCHANGED actionsVars /\ allOld' = allOld /\ clock' = clock /\ touched' = FALSE /\ evicted' = evicted /\ doubled' = doubled
    BY <1>5 DEF StartCleanup
  <2> QED BY <1>1, <2>1, StoreStands
<1>6. CASE Fail \/ FinishCleanup
  <2>1. UNCHANGED actionsVars /\ allOld' = allOld /\ clock' = clock /\ touched' = touched /\ evicted' = evicted /\ doubled' = doubled
    BY <1>6 DEF Fail, FinishCleanup, jobVars
  <2> QED BY <1>1, <2>1, StoreStands
<1> QED BY <1>2, <1>3, <1>4, <1>5, <1>6

Deletes == \/ \E x \in DOMAIN caches : DeleteCache(x)
           \/ \E x \in DOMAIN artifacts : DeleteArtifact(x)
           \/ \E x \in DOMAIN runs : DeleteLog(x) \/ DeleteRun(x)
JobActs ==
  \/ \E x \in DOMAIN caches : RestoreCache(x) \/ EvictCache(x)
  \/ \E x \in DOMAIN caches, kind \in {"uv", "gitleaks", "codeql"}, main \in BOOLEAN, p \in {"linux", "macos"} :
       SaveCache(x, kind, main, p)
  \/ \E x \in DOMAIN artifacts : AddArtifact(x)
  \/ \E x \in DOMAIN runs : TurnRun(x)

(* What is removed is what was there, and nothing else changes.               *)
CacheRemoved(x) ==
  /\ caches' \in [DOMAIN caches -> StoredCache]
  /\ caches'[x] = [caches[x] EXCEPT !.there = FALSE] /\ \A y \in DOMAIN caches : y # x => caches'[y] = caches[y]
  /\ UNCHANGED <<artifacts, runs>>
ArtifactRemoved(x) ==
  /\ artifacts'[x] = [artifacts[x] EXCEPT !.there = FALSE]
  /\ \A y \in DOMAIN artifacts : y # x => artifacts'[y] = artifacts[y]
  /\ UNCHANGED <<caches, runs>>
LogRemoved(x) ==
  /\ runs'[x] = [runs[x] EXCEPT !.logs = FALSE] /\ \A y \in DOMAIN runs : y # x => runs'[y] = runs[y]
  /\ UNCHANGED <<caches, artifacts>>
RunRemoved(x) ==
  /\ runs'[x] = [runs[x] EXCEPT !.there = FALSE] /\ \A y \in DOMAIN runs : y # x => runs'[y] = runs[y]
  /\ UNCHANGED <<caches, artifacts>>

LEMMA CacheGoes ==
  ASSUME CleanupTyped, NEW x \in DOMAIN caches, DeleteCache(x)
  PROVE  StoreMoves /\ CacheRemoved(x)
<1> DEFINE c == [caches[x] EXCEPT !.there = FALSE]
<1>1. caches[x] \in StoredCache /\ clock \in Nat /\ CachesAt(caches, clock) /\ {touched, doubled, evicted} \subseteq BOOLEAN
  BY DEF CleanupTyped, CachesAt
<1>2. c \in StoredCache /\ c.used = caches[x].used /\ c.there = FALSE BY <1>1 DEF StoredCache
<1>3. caches' = [caches EXCEPT ![x] = c] BY DEF DeleteCache
<1>4. /\ clock' = clock /\ allOld' = allOld /\ touched' = touched /\ evicted' = evicted /\ doubled' = doubled
      /\ artifacts' = artifacts /\ runs' = runs
  BY DEF DeleteCache, RemovesNext, jobVars
<1>5. caches[x].used < clock BY <1>1 DEF CachesAt
<1> HIDE DEF c
<1>10. /\ clock' \in Nat /\ clock <= clock' /\ c.used < clock' /\ (c.there => c.used > 0)
       /\ c.used \in {caches[x].used, clock}
  BY <1>1, <1>2, <1>4, <1>5
<1>6. CachesAt(caches, clock)' /\ DOMAIN caches' = DOMAIN caches BY <1>1, <1>2, <1>3, <1>10, CacheChanges
<1>7. Numbered(artifacts, StoredArtifact)' /\ Numbered(runs, StoredRun)' BY <1>4 DEF CleanupTyped, Numbered
<1>8. StoreMoves BY <1>1, <1>4, <1>6, <1>7 DEF StoreMoves
<1>9. caches'[x] = c /\ \A y \in DOMAIN caches : y # x => caches'[y] = caches[y] BY <1>1, <1>3 DEF CachesAt
<1> QED BY <1>4, <1>6, <1>8, <1>9 DEF CacheRemoved, CachesAt, c

LEMMA ArtifactGoes ==
  ASSUME CleanupTyped, NEW x \in DOMAIN artifacts, DeleteArtifact(x)
  PROVE  StoreMoves /\ ArtifactRemoved(x)
<1> DEFINE c == [artifacts[x] EXCEPT !.there = FALSE]
<1>1. /\ artifacts[x] \in StoredArtifact /\ clock \in Nat /\ Numbered(artifacts, StoredArtifact)
      /\ {touched, doubled, evicted} \subseteq BOOLEAN
  BY DEF CleanupTyped, Numbered
<1>2. c \in StoredArtifact BY <1>1 DEF StoredArtifact
<1>3. artifacts' = [artifacts EXCEPT ![x] = c] BY DEF DeleteArtifact
<1>4. /\ clock' = clock /\ allOld' = allOld /\ touched' = touched /\ evicted' = evicted /\ doubled' = doubled
      /\ caches' = caches /\ runs' = runs
  BY DEF DeleteArtifact, RemovesNext, jobVars
<1> HIDE DEF c
<1>5. Numbered(artifacts', StoredArtifact) /\ DOMAIN artifacts' = DOMAIN artifacts BY <1>1, <1>2, <1>3, ThingChanges
<1>6. CachesAt(caches, clock)' /\ Numbered(runs, StoredRun)' BY <1>4 DEF CleanupTyped, CachesAt, Numbered
<1>7. StoreMoves BY <1>1, <1>4, <1>5, <1>6 DEF StoreMoves
<1>8. artifacts'[x] = c /\ \A y \in DOMAIN artifacts : y # x => artifacts'[y] = artifacts[y]
  BY <1>1, <1>3 DEF Numbered
<1> QED BY <1>4, <1>7, <1>8 DEF ArtifactRemoved, c

LEMMA RunThings ==
  ASSUME CleanupTyped, NEW x \in DOMAIN runs, NEW c \in StoredRun, c.age = runs[x].age, c.class = runs[x].class,
         runs' = [runs EXCEPT ![x] = c], UNCHANGED <<caches, artifacts, allOld>>,
         clock' \in Nat, clock <= clock', {touched', doubled', evicted'} \subseteq BOOLEAN
  PROVE  StoreMoves /\ runs'[x] = c /\ \A y \in DOMAIN runs : y # x => runs'[y] = runs[y]
<1>1. Numbered(runs, StoredRun) /\ clock \in Nat /\ CachesAt(caches, clock) BY DEF CleanupTyped
<1>2. Numbered(runs', StoredRun) /\ DOMAIN runs' = DOMAIN runs BY <1>1, ThingChanges
<1>3. \A y \in DOMAIN runs : runs'[y] = IF y = x THEN c ELSE runs[y] BY <1>1 DEF Numbered
<1>4. Numbered(artifacts, StoredArtifact)' BY DEF CleanupTyped, Numbered
<1>5. CachesAt(caches, clock)'
  <2>1. \A y \in DOMAIN caches : caches[y].used \in Nat BY <1>1 DEF CachesAt, StoredCache
  <2>2. \A y \in DOMAIN caches : caches[y].used < clock' BY <1>1, <2>1 DEF CachesAt
  <2> QED BY <1>1, <2>2 DEF CachesAt
<1> QED BY <1>2, <1>3, <1>4, <1>5 DEF StoreMoves

LEMMA LogGoes ==
  ASSUME CleanupTyped, NEW x \in DOMAIN runs, DeleteLog(x)
  PROVE  StoreMoves /\ LogRemoved(x)
<1> DEFINE c == [runs[x] EXCEPT !.logs = FALSE]
<1>1. runs[x] \in StoredRun /\ clock \in Nat /\ {touched, doubled, evicted} \subseteq BOOLEAN
  BY DEF CleanupTyped, Numbered
<1>2. c \in StoredRun /\ c.age = runs[x].age /\ c.class = runs[x].class BY <1>1 DEF StoredRun
<1>3. runs' = [runs EXCEPT ![x] = c] BY DEF DeleteLog
<1>4. /\ clock' = clock /\ allOld' = allOld /\ touched' = touched /\ evicted' = evicted /\ doubled' = doubled
      /\ caches' = caches /\ artifacts' = artifacts
  BY DEF DeleteLog, RemovesNext, jobVars
<1> HIDE DEF c
<1>6. clock' \in Nat /\ clock <= clock' /\ {touched', doubled', evicted'} \subseteq BOOLEAN
      /\ UNCHANGED <<caches, artifacts, allOld>>
  BY <1>1, <1>4
<1>5. StoreMoves /\ runs'[x] = c /\ \A y \in DOMAIN runs : y # x => runs'[y] = runs[y]
  BY <1>2, <1>3, <1>6, RunThings
<1> QED BY <1>4, <1>5 DEF LogRemoved, c

LEMMA RunGoes ==
  ASSUME CleanupTyped, NEW x \in DOMAIN runs, DeleteRun(x)
  PROVE  StoreMoves /\ RunRemoved(x)
<1> DEFINE c == [runs[x] EXCEPT !.there = FALSE]
<1>1. runs[x] \in StoredRun /\ clock \in Nat /\ {touched, doubled, evicted} \subseteq BOOLEAN
  BY DEF CleanupTyped, Numbered
<1>2. c \in StoredRun /\ c.age = runs[x].age /\ c.class = runs[x].class BY <1>1 DEF StoredRun
<1>3. runs' = [runs EXCEPT ![x] = c] BY DEF DeleteRun
<1>4. /\ clock' = clock /\ allOld' = allOld /\ touched' = touched /\ evicted' = evicted /\ doubled' = doubled
      /\ caches' = caches /\ artifacts' = artifacts
  BY DEF DeleteRun, RemovesNext, jobVars
<1> HIDE DEF c
<1>6. clock' \in Nat /\ clock <= clock' /\ {touched', doubled', evicted'} \subseteq BOOLEAN
      /\ UNCHANGED <<caches, artifacts, allOld>>
  BY <1>1, <1>4
<1>5. StoreMoves /\ runs'[x] = c /\ \A y \in DOMAIN runs : y # x => runs'[y] = runs[y]
  BY <1>2, <1>3, <1>6, RunThings
<1> QED BY <1>4, <1>5 DEF RunRemoved, c
(* What jobs do to caches and runs: a cache keeps what it is once it exists.  *)
CachesUsed ==
  \A y \in DOMAIN caches : caches[y].used > 0 =>
    /\ caches'[y].used > 0 /\ caches'[y].kind = caches[y].kind /\ caches'[y].main = caches[y].main
    /\ caches'[y].platform = caches[y].platform /\ (caches[y].there => caches'[y].there \/ evicted')
JobMoves ==
  /\ StoreMoves /\ touched' = TRUE /\ (evicted => evicted')
  /\ UNCHANGED <<allOld, cleaner, cleanups, removed, doubled>>
  /\ CachesUsed
  /\ \A a \in DOMAIN artifacts : artifacts[a].there => artifacts'[a] = artifacts[a]
  /\ \A r \in DOMAIN runs : runs'[r].there = runs[r].there

LEMMA JobsMove ==
  ASSUME CleanupTyped, JobActs
  PROVE  JobMoves
<1>0. /\ clock \in Nat /\ CachesAt(caches, clock) /\ Numbered(artifacts, StoredArtifact) /\ Numbered(runs, StoredRun)
      /\ {touched, doubled, evicted} \subseteq BOOLEAN
  BY DEF CleanupTyped
<1>1. JobStep BY DEF JobActs, RestoreCache, EvictCache, SaveCache, AddArtifact, TurnRun
<1>2. /\ clock' = clock + 1 /\ touched' = TRUE /\ UNCHANGED <<allOld, cleaner, cleanups, removed, doubled>>
      /\ clock' \in Nat /\ clock <= clock' /\ clock < clock'
  BY <1>0, <1>1 DEF JobStep
<1>3. ASSUME NEW x \in DOMAIN caches, NEW c \in StoredCache, caches' = [caches EXCEPT ![x] = c],
             c.used < clock', c.there => c.used > 0, c.used \in {caches[x].used, clock},
             UNCHANGED <<artifacts, runs>>, evicted' \in BOOLEAN, evicted => evicted',
             caches[x].used > 0 => /\ c.used > 0 /\ c.kind = caches[x].kind /\ c.main = caches[x].main
                                   /\ c.platform = caches[x].platform /\ (caches[x].there => c.there \/ evicted')
      PROVE  JobMoves
  <2>1. CachesAt(caches, clock)' /\ DOMAIN caches' = DOMAIN caches BY <1>0, <1>2, <1>3, CacheChanges
  <2>2. Numbered(artifacts, StoredArtifact)' /\ Numbered(runs, StoredRun)' BY <1>0, <1>3 DEF Numbered
  <2>3. StoreMoves BY <1>0, <1>2, <1>3, <2>1, <2>2 DEF StoreMoves
  <2>4. \A y \in DOMAIN caches : caches'[y] = IF y = x THEN c ELSE caches[y] BY <1>0, <1>3 DEF CachesAt
  <2>5. CachesUsed BY <1>3, <2>4 DEF CachesUsed
  <2> QED BY <1>2, <1>3, <2>3, <2>5 DEF JobMoves
<1>4. ASSUME UNCHANGED <<caches, runs, evicted>>, Numbered(artifacts', StoredArtifact), DOMAIN artifacts' = DOMAIN artifacts,
             \A a \in DOMAIN artifacts : artifacts[a].there => artifacts'[a] = artifacts[a]
      PROVE  JobMoves
  <2>1. \A y \in DOMAIN caches : caches[y].used \in Nat /\ caches[y].used < clock BY <1>0 DEF CachesAt, StoredCache
  <2>2. CachesAt(caches, clock)' BY <1>0, <1>2, <1>4, <2>1 DEF CachesAt
  <2>3. Numbered(runs, StoredRun)' BY <1>0, <1>4 DEF Numbered
  <2>4. StoreMoves BY <1>0, <1>2, <1>4, <2>2, <2>3 DEF StoreMoves
  <2>5. CachesUsed BY <1>4 DEF CachesUsed
  <2> QED BY <1>2, <1>4, <2>4, <2>5 DEF JobMoves
<1>5. ASSUME NEW x \in DOMAIN caches, RestoreCache(x) PROVE JobMoves
  <2> DEFINE c == [caches[x] EXCEPT !.used = clock]
  <2>1. caches[x] \in StoredCache /\ caches[x].there /\ caches[x].used < clock /\ caches[x].used > 0 /\ caches[x].used \in Nat
    BY <1>0, <1>5 DEF CachesAt, StoredCache, RestoreCache
  <2>2. /\ c \in StoredCache /\ c.used = clock /\ c.there = caches[x].there /\ c.kind = caches[x].kind
        /\ c.main = caches[x].main /\ c.platform = caches[x].platform
    BY <1>0, <2>1 DEF StoredCache
  <2>3. caches' = [caches EXCEPT ![x] = c] /\ UNCHANGED <<artifacts, runs, evicted>> BY <1>5 DEF RestoreCache
  <2> HIDE DEF c
  <2>4. c.used < clock' /\ c.used > 0 BY <1>0, <1>2, <2>1, <2>2
  <2> QED BY <1>0, <1>3, <2>1, <2>2, <2>3, <2>4
<1>6. ASSUME NEW x \in DOMAIN caches, EvictCache(x) PROVE JobMoves
  <2> DEFINE c == [caches[x] EXCEPT !.there = FALSE]
  <2>1. caches[x] \in StoredCache /\ caches[x].used < clock /\ caches[x].used \in Nat
    BY <1>0 DEF CachesAt, StoredCache
  <2>2. /\ c \in StoredCache /\ c.used = caches[x].used /\ c.there = FALSE /\ c.kind = caches[x].kind
        /\ c.main = caches[x].main /\ c.platform = caches[x].platform
    BY <2>1 DEF StoredCache
  <2>3. caches' = [caches EXCEPT ![x] = c] /\ UNCHANGED <<artifacts, runs>> /\ evicted' = TRUE BY <1>6 DEF EvictCache
  <2> HIDE DEF c
  <2>4. c.used < clock' BY <1>0, <1>2, <2>1, <2>2
  <2> QED BY <1>3, <2>1, <2>2, <2>3, <2>4
<1>7. ASSUME NEW x \in DOMAIN caches, NEW kind \in {"uv", "gitleaks", "codeql"}, NEW main \in BOOLEAN,
             NEW p \in {"linux", "macos"}, SaveCache(x, kind, main, p)
      PROVE  JobMoves
  <2> DEFINE c == [there |-> TRUE, kind |-> kind, main |-> main, platform |-> p, used |-> clock]
  <2>1. caches[x] \in StoredCache /\ caches[x].used = 0 /\ clock > 0
    <3>1. caches[x].used = 0 /\ caches[x].used < clock BY <1>0, <1>7 DEF CachesAt, SaveCache
    <3> QED BY <1>0, <3>1 DEF CachesAt
  <2>2. c \in StoredCache /\ c.used = clock /\ c.there = TRUE BY <1>0 DEF StoredCache, Platform
  <2>3. caches' = [caches EXCEPT ![x] = c] /\ UNCHANGED <<artifacts, runs, evicted>> BY <1>7 DEF SaveCache
  <2> HIDE DEF c
  <2>4. c.used < clock' /\ c.used > 0 BY <1>0, <1>2, <2>1, <2>2
  <2>5. ~(caches[x].used > 0) /\ evicted' \in BOOLEAN /\ (evicted => evicted') BY <1>0, <2>1, <2>3
  <2>6. c.used \in {caches[x].used, clock} /\ (c.there => c.used > 0) BY <2>2, <2>4
  <2> QED BY <1>3, <2>2, <2>3, <2>4, <2>5, <2>6
<1>8. ASSUME NEW x \in DOMAIN artifacts, AddArtifact(x) PROVE JobMoves
  <2> DEFINE c == [there |-> TRUE, age |-> 0, expired |-> FALSE]
  <2>1. c \in StoredArtifact BY DEF StoredArtifact
  <2>2. /\ artifacts' = [artifacts EXCEPT ![x] = c] /\ UNCHANGED <<caches, runs, evicted>> /\ ~artifacts[x].there
    BY <1>8 DEF AddArtifact
  <2> HIDE DEF c
  <2>3. Numbered(artifacts', StoredArtifact) /\ DOMAIN artifacts' = DOMAIN artifacts BY <1>0, <2>1, <2>2, ThingChanges
  <2>4. \A a \in DOMAIN artifacts : artifacts[a].there => artifacts'[a] = artifacts[a] BY <1>0, <2>2 DEF Numbered
  <2> QED BY <1>4, <2>2, <2>3, <2>4
<1>9. ASSUME NEW x \in DOMAIN runs, TurnRun(x) PROVE JobMoves
  <2> DEFINE c == [runs[x] EXCEPT !.completed = ~runs[x].completed, !.logs = TRUE]
  <2>1. runs[x] \in StoredRun BY <1>0 DEF Numbered
  <2>2. c \in StoredRun /\ c.age = runs[x].age /\ c.class = runs[x].class /\ c.there = runs[x].there
    BY <2>1 DEF StoredRun
  <2>3. runs' = [runs EXCEPT ![x] = c] /\ UNCHANGED <<caches, artifacts, evicted>> BY <1>9 DEF TurnRun
  <2> HIDE DEF c
  <2>4. {touched', doubled', evicted'} \subseteq BOOLEAN /\ UNCHANGED <<caches, artifacts, allOld>>
    BY <1>0, <1>2, <2>3
  <2>5. StoreMoves /\ runs'[x] = c /\ \A y \in DOMAIN runs : y # x => runs'[y] = runs[y]
    BY <1>2, <2>2, <2>3, <2>4, RunThings
  <2>6. \A r \in DOMAIN runs : runs'[r].there = runs[r].there BY <2>2, <2>5
  <2>7. CachesUsed BY <2>3 DEF CachesUsed
  <2> QED BY <1>2, <2>3, <2>5, <2>6, <2>7 DEF JobMoves
<1> QED BY <1>5, <1>6, <1>7, <1>8, <1>9 DEF JobActs
(* The record of the cleanup, field by field.                                 *)
Cleaners ==
  [at : CleanerSteps, page : Nat \ {0}, day : Nat, caches : SUBSET CacheEntry, artifacts : SUBSET DOMAIN artifacts,
   runs : SUBSET DOMAIN runs, todo : SUBSET Plannable]

LEMMA CleanerFields ==
  ASSUME NEW c \in Cleaners
  PROVE  /\ c.at \in CleanerSteps /\ c.page \in Nat \ {0} /\ c.day \in Nat /\ c.caches \in SUBSET CacheEntry
         /\ c.artifacts \in SUBSET DOMAIN artifacts /\ c.runs \in SUBSET DOMAIN runs /\ c.todo \in SUBSET Plannable
BY DEF Cleaners

(* What the listing steps do to it.                                           *)
LEMMA TypedCleaner == CleanupTyped => cleaner \in Cleaners /\ (ListsNow => cleaner.todo = {})
BY DEF CleanupTyped, Cleaners, CleanerSteps

LEMMA PageNumber == CleanupTyped => cleaner.page + 1 \in Nat \ {0} /\ cleaner.page \in Nat \ {0}
<1> HAVE CleanupTyped
<1>1. cleaner \in Cleaners BY TypedCleaner
<1>2. cleaner.page \in Nat \ {0} BY <1>1, CleanerFields
<1> QED BY <1>2

EntriesOn(p) == {[page |-> p, id |-> x, cache |-> caches[x]] : x \in CachePage(p)}
CachesListed ==
  /\ cleaner.at = "caches" /\ cleaner' \in Cleaners /\ cleaner.todo = {} /\ cleaner'.todo = {}
  /\ cleaner'.caches = cleaner.caches \cup EntriesOn(cleaner.page)
  /\ cleaner'.artifacts = cleaner.artifacts /\ cleaner'.runs = cleaner.runs
  /\ UNCHANGED <<actionsVars, allOld, cleanups, jobVars, removed>>
  /\ doubled' = (doubled \/ \E e \in cleaner.caches : e.id \in CachePage(cleaner.page))
  /\ \/ Cardinality(CachePage(cleaner.page)) = PerPage /\ cleaner'.at = "caches" /\ cleaner'.page = cleaner.page + 1
     \/ Cardinality(CachePage(cleaner.page)) # PerPage /\ cleaner'.at = "artifacts" /\ cleaner'.page = 1

LEMMA CachesList ==
  ASSUME CleanupTyped, ListCaches
  PROVE  CachesListed /\ EntriesOn(cleaner.page) \in SUBSET CacheEntry
<1> DEFINE page == CachePage(cleaner.page)
           all == cleaner.caches \cup EntriesOn(cleaner.page)
           new == [cleaner EXCEPT !.caches = all]
<1>1. cleaner \in Cleaners /\ cleaner.at = "caches" /\ cleaner.todo = {} BY TypedCleaner DEF ListCaches, ListsNow
<1>2. /\ cleaner.caches \in SUBSET CacheEntry /\ cleaner.page \in Nat \ {0} /\ cleaner.page + 1 \in Nat \ {0}
  BY <1>1, CleanerFields, PageNumber
<1>3. EntriesOn(cleaner.page) \in SUBSET CacheEntry
  <2>1. \A x \in page : x \in DOMAIN caches BY DEF CachePage, PageAmong, Existing
  <2>2. \A x \in DOMAIN caches : caches[x] \in StoredCache BY DEF CleanupTyped, CachesAt
  <2> QED BY SMTT(30), <1>2, <2>1, <2>2 DEF CacheEntry, EntriesOn
<1>4. all \in SUBSET CacheEntry BY <1>2, <1>3
<1>5. /\ IF Cardinality(page) = PerPage THEN cleaner' = [new EXCEPT !.page = new.page + 1]
         ELSE \E d : d = [new EXCEPT !.at = "artifacts"] /\ cleaner' = [d EXCEPT !.page = 1]
      /\ UNCHANGED <<actionsVars, allOld, cleanups, jobVars, removed>>
      /\ doubled' = (doubled \/ \E e \in cleaner.caches : e.id \in page)
  BY DEF ListCaches, Lists, EntriesOn
<1> HIDE DEF all
<1>9. new = [cleaner EXCEPT !.caches = all] OBVIOUS
<1> HIDE DEF new
<1>6. /\ new \in Cleaners /\ new.caches = all /\ new.artifacts = cleaner.artifacts /\ new.runs = cleaner.runs
      /\ new.at = "caches" /\ new.page = cleaner.page /\ new.todo = {}
  BY <1>1, <1>4, <1>9 DEF Cleaners
<1>7. CASE Cardinality(page) = PerPage
  <2>1. cleaner' = [new EXCEPT !.page = cleaner.page + 1] BY <1>5, <1>6, <1>7
  <2>2. /\ cleaner' \in Cleaners /\ cleaner'.at = "caches" /\ cleaner'.page = cleaner.page + 1 /\ cleaner'.todo = {}
        /\ cleaner'.caches = all /\ cleaner'.artifacts = cleaner.artifacts /\ cleaner'.runs = cleaner.runs
    BY <1>2, <1>6, <2>1 DEF Cleaners
  <2> QED BY <1>1, <1>3, <1>5, <1>7, <2>2 DEF CachesListed, all
<1>8. CASE Cardinality(page) # PerPage
  <2>1. PICK d, one : one = 1 /\ d = [new EXCEPT !.at = "artifacts"] /\ cleaner' = [d EXCEPT !.page = one]
    BY <1>5, <1>8
  <2>2. "artifacts" \in CleanerSteps /\ one \in Nat \ {0} BY <2>1 DEF CleanerSteps
  <2>3. /\ d \in Cleaners /\ d.at = "artifacts" /\ d.todo = {}
        /\ d.caches = all /\ d.artifacts = cleaner.artifacts /\ d.runs = cleaner.runs
    BY <1>6, <2>1, <2>2 DEF Cleaners
  <2>4. /\ cleaner' \in Cleaners /\ cleaner'.at = "artifacts" /\ cleaner'.page = 1 /\ cleaner'.todo = {}
        /\ cleaner'.caches = all /\ cleaner'.artifacts = cleaner.artifacts /\ cleaner'.runs = cleaner.runs
    <3>1. cleaner' = [d EXCEPT !.page = one] /\ one = 1 BY <2>1
    <3>2. /\ cleaner' \in Cleaners /\ cleaner'.at = d.at /\ cleaner'.page = one /\ cleaner'.todo = d.todo
          /\ cleaner'.caches = d.caches /\ cleaner'.artifacts = d.artifacts /\ cleaner'.runs = d.runs
      BY <2>2, <2>3, <3>1 DEF Cleaners
    <3> QED BY <2>3, <3>1, <3>2
  <2> QED BY <1>1, <1>3, <1>5, <1>8, <2>4 DEF CachesListed, all
<1> QED BY <1>7, <1>8

ArtifactsDue(p) == {a \in ArtifactPage(p) : Due(a)}
ArtifactsListed ==
  /\ cleaner.at = "artifacts" /\ cleaner' \in Cleaners /\ cleaner.todo = {} /\ cleaner'.todo = {}
  /\ cleaner'.artifacts = cleaner.artifacts \cup ArtifactsDue(cleaner.page)
  /\ cleaner'.caches = cleaner.caches /\ cleaner'.runs = cleaner.runs
  /\ UNCHANGED <<actionsVars, allOld, cleanups, jobVars, removed, doubled>>
  /\ \/ Cardinality(ArtifactPage(cleaner.page)) = PerPage /\ cleaner'.at = "artifacts" /\ cleaner'.page = cleaner.page + 1
     \/ /\ Cardinality(ArtifactPage(cleaner.page)) # PerPage /\ cleaner'.at = "runs" /\ cleaner'.page = 1
        /\ cleaner'.day = Lookback

LEMMA ArtifactsList ==
  ASSUME CleanupTyped, ListArtifacts
  PROVE  ArtifactsListed
<1> DEFINE page == ArtifactPage(cleaner.page)
           all == cleaner.artifacts \cup ArtifactsDue(cleaner.page)
           new == [cleaner EXCEPT !.artifacts = all]
<1>1. cleaner \in Cleaners /\ cleaner.at = "artifacts" /\ cleaner.todo = {}
  BY TypedCleaner DEF ListArtifacts, ListsNow
<1>2. /\ cleaner.artifacts \in SUBSET DOMAIN artifacts /\ cleaner.page \in Nat \ {0} /\ cleaner.page + 1 \in Nat \ {0}
  BY <1>1, CleanerFields, PageNumber
<1>3. ArtifactsDue(cleaner.page) \in SUBSET DOMAIN artifacts BY DEF ArtifactsDue, ArtifactPage, PageAmong, Existing
<1>4. all \in SUBSET DOMAIN artifacts BY <1>2, <1>3
<1>5. /\ IF Cardinality(page) = PerPage THEN cleaner' = [new EXCEPT !.page = new.page + 1]
         ELSE \E d : d = [new EXCEPT !.at = "runs", !.day = Lookback] /\ cleaner' = [d EXCEPT !.page = 1]
      /\ UNCHANGED <<actionsVars, allOld, cleanups, jobVars, removed, doubled>>
  BY DEF ListArtifacts, Lists, ArtifactsDue
<1> HIDE DEF all
<1>9. new = [cleaner EXCEPT !.artifacts = all] OBVIOUS
<1> HIDE DEF new
<1>6. /\ new \in Cleaners /\ new.artifacts = all /\ new.caches = cleaner.caches /\ new.runs = cleaner.runs
      /\ new.at = "artifacts" /\ new.page = cleaner.page /\ new.todo = {}
  BY <1>1, <1>4, <1>9 DEF Cleaners
<1>7. CASE Cardinality(page) = PerPage
  <2>1. cleaner' = [new EXCEPT !.page = cleaner.page + 1] BY <1>5, <1>6, <1>7
  <2>2. /\ cleaner' \in Cleaners /\ cleaner'.at = "artifacts" /\ cleaner'.page = cleaner.page + 1 /\ cleaner'.todo = {}
        /\ cleaner'.artifacts = all /\ cleaner'.caches = cleaner.caches /\ cleaner'.runs = cleaner.runs
    BY <1>2, <1>6, <2>1 DEF Cleaners
  <2> QED BY <1>1, <1>5, <1>7, <2>2 DEF ArtifactsListed, all
<1>8. CASE Cardinality(page) # PerPage
  <2>1. PICK d, one : one = 1 /\ d = [new EXCEPT !.at = "runs", !.day = Lookback] /\ cleaner' = [d EXCEPT !.page = one]
    BY <1>5, <1>8
  <2>2. "runs" \in CleanerSteps /\ one \in Nat \ {0} /\ Lookback \in Nat BY <2>1, LookbackType DEF CleanerSteps
  <2>3. /\ d \in Cleaners /\ d.at = "runs" /\ d.day = Lookback /\ d.todo = {}
        /\ d.caches = cleaner.caches /\ d.artifacts = all /\ d.runs = cleaner.runs
    <3>1. d = [new EXCEPT !.at = "runs", !.day = Lookback] BY <2>1
    <3> QED BY <1>6, <2>2, <3>1 DEF Cleaners
  <2>4. cleaner' = [d EXCEPT !.page = one] /\ one = 1 BY <2>1
  <2>5. /\ cleaner' \in Cleaners /\ cleaner'.at = d.at /\ cleaner'.day = d.day /\ cleaner'.page = one /\ cleaner'.todo = d.todo
        /\ cleaner'.caches = d.caches /\ cleaner'.artifacts = d.artifacts /\ cleaner'.runs = d.runs
    BY <2>2, <2>3, <2>4 DEF Cleaners
  <2> QED BY <1>1, <1>5, <1>8, <2>3, <2>4, <2>5 DEF ArtifactsListed, all
<1> QED BY <1>7, <1>8

(* The plan of what was listed, with this page the last.                      *)
PlanOf(rs) ==
  LET old == {r \in rs : OldRun(r)} IN
  Objects("cache", CachePlan(cleaner.caches)) \cup Objects("artifact", cleaner.artifacts)
    \cup Objects("log", {r \in rs : OldLog(r)} \ old) \cup Objects("run", old)

LEMMA PlanType ==
  ASSUME CleanupTyped, NEW rs \in SUBSET DOMAIN runs
  PROVE  PlanOf(rs) \in SUBSET Plannable
<1> DEFINE old == {r \in rs : OldRun(r)}
<1>1. cleaner.caches \in SUBSET CacheEntry /\ cleaner.artifacts \in SUBSET DOMAIN artifacts
  BY TypedCleaner, CleanerFields
<1>2. \A e \in cleaner.caches : e.id \in DOMAIN caches BY <1>1 DEF CacheEntry
<1>3. CachePlan(cleaner.caches) \subseteq DOMAIN caches BY <1>2, PlanIds
<1>4. Objects("cache", CachePlan(cleaner.caches)) \subseteq Objects("cache", DOMAIN caches) BY <1>3 DEF Objects
<1>5. Objects("artifact", cleaner.artifacts) \subseteq Objects("artifact", DOMAIN artifacts) BY <1>1 DEF Objects
<1>6. Objects("log", {r \in rs : OldLog(r)} \ old) \subseteq Objects("log", DOMAIN runs) BY DEF Objects
<1>7. Objects("run", old) \subseteq Objects("run", DOMAIN runs) BY DEF Objects
<1> QED BY <1>4, <1>5, <1>6, <1>7 DEF Plannable, PlanOf

RunsListed ==
  LET page == RunPage(cleaner.day, cleaner.page) IN
  /\ cleaner.at = "runs" /\ cleaner' \in Cleaners /\ cleaner.todo = {}
  /\ cleaner'.runs = cleaner.runs \cup page
  /\ cleaner'.caches = cleaner.caches /\ cleaner'.artifacts = cleaner.artifacts
  /\ UNCHANGED <<actionsVars, allOld, cleanups, jobVars, removed, doubled>>
  /\ \/ /\ Cardinality(page) = PerPage /\ cleaner'.at = "runs" /\ cleaner'.page = cleaner.page + 1
        /\ cleaner'.day = cleaner.day /\ cleaner'.todo = {}
     \/ /\ Cardinality(page) # PerPage /\ (allOld \/ cleaner.day = 0)
        /\ cleaner'.at = "deleting" /\ cleaner'.todo = PlanOf(cleaner.runs \cup page)
     \/ /\ Cardinality(page) # PerPage /\ ~allOld /\ cleaner.day # 0
        /\ cleaner'.at = "runs" /\ cleaner'.page = 1 /\ cleaner'.day = cleaner.day - 1 /\ cleaner'.todo = {}

LEMMA RunsList ==
  ASSUME CleanupTyped, ListRuns
  PROVE  RunsListed
<1> DEFINE page == RunPage(cleaner.day, cleaner.page)
           all == cleaner.runs \cup page
           new == [cleaner EXCEPT !.runs = all]
<1>1. cleaner \in Cleaners /\ cleaner.at = "runs" /\ cleaner.todo = {} BY TypedCleaner DEF ListRuns, ListsNow
<1>2. /\ cleaner.runs \in SUBSET DOMAIN runs /\ cleaner.page \in Nat \ {0} /\ cleaner.page + 1 \in Nat \ {0}
      /\ cleaner.day \in Nat
  BY <1>1, CleanerFields, PageNumber
<1>3. page \in SUBSET DOMAIN runs BY DEF RunPage, PageAmong, CompletedRuns, Existing
<1>4. all \in SUBSET DOMAIN runs BY <1>2, <1>3
<1>5. /\ IF Cardinality(page) = PerPage THEN cleaner' = [new EXCEPT !.page = new.page + 1]
         ELSE \E d : /\ d = IF allOld \/ cleaner.day = 0 THEN WithPlan(new) ELSE [new EXCEPT !.day = new.day - 1]
                     /\ cleaner' = [d EXCEPT !.page = 1]
      /\ UNCHANGED <<actionsVars, allOld, cleanups, jobVars, removed, doubled>>
  BY DEF ListRuns, Lists
<1> HIDE DEF all
<1>9. new = [cleaner EXCEPT !.runs = all] OBVIOUS
<1> HIDE DEF new, page
<1>6. /\ new \in Cleaners /\ new.runs = all /\ new.caches = cleaner.caches /\ new.artifacts = cleaner.artifacts
      /\ new.at = "runs" /\ new.page = cleaner.page /\ new.day = cleaner.day /\ new.todo = {}
  BY <1>1, <1>4, <1>9 DEF Cleaners
<1>7. CASE Cardinality(page) = PerPage
  <2>1. cleaner' = [new EXCEPT !.page = cleaner.page + 1] BY <1>5, <1>6, <1>7
  <2>2. /\ cleaner' \in Cleaners /\ cleaner'.at = "runs" /\ cleaner'.page = cleaner.page + 1 /\ cleaner'.todo = {}
        /\ cleaner'.runs = all /\ cleaner'.caches = cleaner.caches /\ cleaner'.artifacts = cleaner.artifacts
        /\ cleaner'.day = cleaner.day
    BY <1>2, <1>6, <2>1 DEF Cleaners
  <2> QED BY <1>1, <1>5, <1>7, <2>2 DEF RunsListed, all, page
<1>8. CASE Cardinality(page) # PerPage
  <2>1. PICK d, one : /\ d = IF allOld \/ cleaner.day = 0 THEN WithPlan(new) ELSE [new EXCEPT !.day = new.day - 1]
                      /\ one = 1 /\ cleaner' = [d EXCEPT !.page = one]
    BY <1>5, <1>8
  <2>2. one \in Nat \ {0} BY <2>1
  <2>4. cleaner' = [d EXCEPT !.page = one] /\ one = 1 BY <2>1
  <2>5. d \in Cleaners => /\ cleaner' \in Cleaners /\ cleaner'.at = d.at /\ cleaner'.day = d.day /\ cleaner'.page = 1
                          /\ cleaner'.caches = d.caches /\ cleaner'.artifacts = d.artifacts /\ cleaner'.runs = d.runs
                          /\ cleaner'.todo = d.todo
    BY <2>2, <2>4 DEF Cleaners
  <2>6. CASE allOld \/ cleaner.day = 0
    <3> DEFINE plan == PlanOf(all)
    <3>1. d = [new EXCEPT !.at = "deleting", !.todo = plan] BY <1>6, <2>1, <2>6 DEF WithPlan, PlanOf
    <3>2. plan \in SUBSET Plannable /\ "deleting" \in CleanerSteps BY <1>4, PlanType DEF CleanerSteps
    <3> HIDE DEF plan
    <3>4. /\ d \in Cleaners /\ d.at = "deleting" /\ d.todo = plan
          /\ d.caches = new.caches /\ d.artifacts = new.artifacts /\ d.runs = new.runs
      BY <1>6, <3>1, <3>2 DEF Cleaners
    <3>3. /\ d \in Cleaners /\ d.at = "deleting" /\ d.todo = PlanOf(all)
          /\ d.caches = cleaner.caches /\ d.artifacts = cleaner.artifacts /\ d.runs = all
      BY <1>6, <3>4 DEF plan
    <3> QED BY <1>1, <1>5, <1>8, <2>5, <2>6, <3>3 DEF RunsListed, all, page
  <2>7. CASE ~(allOld \/ cleaner.day = 0)
    <3>1. d = [new EXCEPT !.day = cleaner.day - 1] /\ cleaner.day - 1 \in Nat BY <1>2, <1>6, <2>1, <2>7
    <3>2. /\ d \in Cleaners /\ d.day = cleaner.day - 1 /\ d.at = "runs" /\ d.todo = {}
          /\ d.caches = cleaner.caches /\ d.artifacts = cleaner.artifacts /\ d.runs = all
      BY <1>6, <3>1 DEF Cleaners
    <3> QED BY <1>1, <1>5, <1>8, <2>5, <2>7, <3>2 DEF RunsListed, all, page
  <2> QED BY <2>6, <2>7
<1> QED BY <1>7, <1>8

(* What it removes next, and what that says of it.                            *)
Removes(c, was) ==
  /\ cleaner.at = "deleting" /\ c \in cleaner.todo /\ \A d \in cleaner.todo : Earlier(c, d)
  /\ removed' = (IF was.there THEN removed \cup {[kind |-> c.kind, id |-> c.id, was |-> was]} ELSE removed)
  /\ cleaner' \in Cleaners /\ cleaner'.at = "deleting" /\ cleaner'.todo = cleaner.todo \ {c}
  /\ cleaner'.caches = cleaner.caches /\ cleaner'.artifacts = cleaner.artifacts /\ cleaner'.runs = cleaner.runs
  /\ UNCHANGED <<allOld, cleanups, jobVars, doubled>>

LEMMA NextRemoved ==
  ASSUME CleanupTyped, NEW c, NEW was, RemovesNext(c, was)
  PROVE  Removes(c, was)
<1>1. cleaner \in Cleaners /\ cleaner.at = "deleting" BY TypedCleaner DEF RemovesNext
<1> DEFINE rest == cleaner.todo \ {c}
<1>2. cleaner' = [cleaner EXCEPT !.todo = rest] BY DEF RemovesNext
<1>3. cleaner.todo \in SUBSET Plannable BY <1>1, CleanerFields
<1>4. rest \in SUBSET Plannable BY <1>3
<1> HIDE DEF rest
<1>5. /\ cleaner' \in Cleaners /\ cleaner'.at = "deleting" /\ cleaner'.todo = rest
      /\ cleaner'.caches = cleaner.caches /\ cleaner'.artifacts = cleaner.artifacts /\ cleaner'.runs = cleaner.runs
  BY <1>1, <1>2, <1>4 DEF Cleaners
<1> QED BY <1>1, <1>5 DEF Removes, RemovesNext, rest

EmptyCleaner(at) ==
  /\ cleaner' \in Cleaners /\ cleaner'.at = at
  /\ cleaner'.caches = {} /\ cleaner'.artifacts = {} /\ cleaner'.runs = {} /\ cleaner'.todo = {}
  /\ UNCHANGED <<actionsVars, allOld, clock, removed, doubled, evicted>>

LEMMA CleanerEmptied ==
  /\ StartCleanup => EmptyCleaner("caches") /\ touched' = FALSE /\ cleaner'.page = 1 
  /\ Fail => EmptyCleaner("failed") /\ touched' = touched
  /\ FinishCleanup => EmptyCleaner("done") /\ touched' = touched /\ cleaner.at = "deleting" /\ cleaner.todo = {}
<1>2. ASSUME StartCleanup PROVE EmptyCleaner("caches") /\ touched' = FALSE /\ cleaner'.page = 1
  <2>1. /\ cleaner' = [NoCleanup EXCEPT !.at = "caches"] /\ touched' = FALSE
        /\ UNCHANGED <<actionsVars, allOld, clock, removed, doubled, evicted>>
    BY <1>2 DEF StartCleanup
  <2>2. /\ cleaner' \in Cleaners /\ cleaner'.at = "caches" /\ cleaner'.page = 1
        /\ cleaner'.caches = {} /\ cleaner'.artifacts = {} /\ cleaner'.runs = {} /\ cleaner'.todo = {}
    BY <2>1 DEF NoCleanup, Cleaners, CleanerSteps
  <2> QED BY <2>1, <2>2 DEF EmptyCleaner
<1>3. ASSUME Fail PROVE EmptyCleaner("failed") /\ touched' = touched
  <2>1. /\ cleaner' = [NoCleanup EXCEPT !.at = "failed"] /\ touched' = touched
        /\ UNCHANGED <<actionsVars, allOld, clock, removed, doubled, evicted>>
    BY <1>3 DEF Fail, jobVars
  <2>2. /\ cleaner' \in Cleaners /\ cleaner'.at = "failed" /\ cleaner'.page = 1
        /\ cleaner'.caches = {} /\ cleaner'.artifacts = {} /\ cleaner'.runs = {} /\ cleaner'.todo = {}
    BY <2>1 DEF NoCleanup, Cleaners, CleanerSteps
  <2> QED BY <2>1, <2>2 DEF EmptyCleaner
<1>4. ASSUME FinishCleanup
      PROVE EmptyCleaner("done") /\ touched' = touched /\ cleaner.at = "deleting" /\ cleaner.todo = {}
  <2>1. /\ cleaner' = [NoCleanup EXCEPT !.at = "done"] /\ touched' = touched
        /\ UNCHANGED <<actionsVars, allOld, clock, removed, doubled, evicted>>
        /\ cleaner.at = "deleting" /\ cleaner.todo = {}
    BY <1>4 DEF FinishCleanup, jobVars
  <2>2. /\ cleaner' \in Cleaners /\ cleaner'.at = "done" /\ cleaner'.page = 1
        /\ cleaner'.caches = {} /\ cleaner'.artifacts = {} /\ cleaner'.runs = {} /\ cleaner'.todo = {}
    BY <2>1 DEF NoCleanup, Cleaners, CleanerSteps
  <2> QED BY <2>1, <2>2 DEF EmptyCleaner
<1> QED BY <1>2, <1>3, <1>4

LEMMA DeletesOne ==
  ASSUME CleanupTyped, Deletes
  PROVE  \E c, was : Removes(c, was)
<1>1. CASE \E x \in DOMAIN caches : DeleteCache(x)
  <2>1. PICK x \in DOMAIN caches : DeleteCache(x) BY <1>1
  <2>2. RemovesNext([kind |-> "cache", id |-> x], caches[x]) BY <2>1 DEF DeleteCache
  <2> QED BY <2>2, NextRemoved
<1>2. CASE \E x \in DOMAIN artifacts : DeleteArtifact(x)
  <2>1. PICK x \in DOMAIN artifacts : DeleteArtifact(x) BY <1>2
  <2>2. RemovesNext([kind |-> "artifact", id |-> x], artifacts[x]) BY <2>1 DEF DeleteArtifact
  <2> QED BY <2>2, NextRemoved
<1>3. CASE \E x \in DOMAIN runs : DeleteLog(x)
  <2>1. PICK x \in DOMAIN runs : DeleteLog(x) BY <1>3
  <2> DEFINE was == [runs[x] EXCEPT !.there = @ /\ runs[x].logs]
  <2>2. RemovesNext([kind |-> "log", id |-> x], was) BY <2>1 DEF DeleteLog
  <2> HIDE DEF was
  <2> QED BY <2>2, NextRemoved
<1>4. CASE \E x \in DOMAIN runs : DeleteRun(x)
  <2>1. PICK x \in DOMAIN runs : DeleteRun(x) BY <1>4
  <2>2. RemovesNext([kind |-> "run", id |-> x], runs[x]) BY <2>1 DEF DeleteRun
  <2> QED BY <2>2, NextRemoved
<1> QED BY <1>1, <1>2, <1>3, <1>4 DEF Deletes

LEMMA EntrySetsStand ==
  ASSUME StoreMoves
  PROVE  CacheEntry' = CacheEntry /\ Plannable' = Plannable /\ Cleaners' = Cleaners
BY DEF StoreMoves, CacheEntry, Plannable, Objects, Cleaners

LEMMA AllMove ==
  ASSUME CleanupTyped, CleanupNext
  PROVE  StoreMoves /\ cleaner' \in Cleaners /\ (ListsNow' => cleaner'.todo = {})
<1>1. CASE StartCleanup \/ Fail \/ FinishCleanup
  <2>1. StoreMoves BY <1>1, ListsStore
  <2>2. cleaner' \in Cleaners /\ cleaner'.todo = {} BY <1>1, CleanerEmptied DEF EmptyCleaner
  <2> QED BY <2>1, <2>2
<1>2. CASE ListCaches
  <2>1. StoreMoves BY <1>2, ListsStore
  <2>2. CachesListed BY <1>2, CachesList
  <2> QED BY <2>1, <2>2 DEF CachesListed
<1>3. CASE ListArtifacts
  <2>1. StoreMoves BY <1>3, ListsStore
  <2>2. ArtifactsListed BY <1>3, ArtifactsList
  <2> QED BY <2>1, <2>2 DEF ArtifactsListed
<1>4. CASE ListRuns
  <2>1. StoreMoves BY <1>4, ListsStore
  <2>2. RunsListed BY <1>4, RunsList
  <2> QED BY <2>1, <2>2 DEF RunsListed, ListsNow
<1>5. CASE Deletes
  <2>1. StoreMoves BY <1>5, CacheGoes, ArtifactGoes, LogGoes, RunGoes DEF Deletes
  <2>2. PICK c, was : Removes(c, was) BY <1>5, DeletesOne
  <2> QED BY <2>1, <2>2 DEF Removes, ListsNow
<1>6. CASE JobActs
  <2>1. JobMoves BY <1>6, JobsMove
  <2>2. cleaner' = cleaner BY <2>1 DEF JobMoves
  <2> QED BY <2>1, <2>2, TypedCleaner DEF JobMoves, ListsNow
<1> QED BY <1>1, <1>2, <1>3, <1>4, <1>5, <1>6 DEF CleanupNext, Deletes, JobActs

LEMMA CleanupTypesKept ==
  ASSUME CleanupTyped, CleanupNext
  PROVE  CleanupTyped'
<1>1. StoreMoves /\ cleaner' \in Cleaners /\ (ListsNow' => cleaner'.todo = {}) BY AllMove
<1>2. cleaner' \in Cleaners' BY <1>1, EntrySetsStand
<1>3. allOld \in BOOLEAN BY DEF CleanupTyped
<1>4. allOld' \in BOOLEAN BY <1>1, <1>3 DEF StoreMoves
<1>5. /\ cleaner' \in [at : {"idle", "caches", "artifacts", "runs", "deleting", "done", "failed"},
                       page : Nat \ {0}, day : Nat, caches : SUBSET CacheEntry',
                       artifacts : SUBSET DOMAIN artifacts', runs : SUBSET DOMAIN runs', todo : SUBSET Plannable']
  BY <1>2 DEF Cleaners, CleanerSteps
<1> QED BY <1>1, <1>4, <1>5 DEF StoreMoves, CleanupTyped

-----------------------------------------------------------------------------
(* The steps, by what they do.                                                *)
Restarts ==
  \/ EmptyCleaner("caches") /\ touched' = FALSE /\ cleaner'.page = 1
  \/ EmptyCleaner("failed") /\ touched' = touched
  \/ EmptyCleaner("done") /\ touched' = touched /\ cleaner.at = "deleting" /\ cleaner.todo = {}
CacheDeleted(x) == Removes([kind |-> "cache", id |-> x], caches[x]) /\ CacheRemoved(x)
ArtifactDeleted(x) == Removes([kind |-> "artifact", id |-> x], artifacts[x]) /\ ArtifactRemoved(x)
LogDeleted(x) ==
  /\ \E was : /\ was.there = (runs[x].there /\ runs[x].logs) /\ was.completed = runs[x].completed
              /\ was.age = runs[x].age /\ was.class = runs[x].class
              /\ Removes([kind |-> "log", id |-> x], was)
  /\ LogRemoved(x) /\ (runs[x].there => runs[x].completed)
RunDeleted(x) ==
  Removes([kind |-> "run", id |-> x], runs[x]) /\ RunRemoved(x) /\ (runs[x].there => runs[x].completed)
CleanupMoves ==
  \/ Restarts \/ CachesListed \/ ArtifactsListed \/ RunsListed
  \/ \E x \in DOMAIN caches : CacheDeleted(x)
  \/ \E x \in DOMAIN artifacts : ArtifactDeleted(x)
  \/ \E x \in DOMAIN runs : LogDeleted(x) \/ RunDeleted(x)
  \/ JobMoves

LEMMA EveryMove ==
  ASSUME CleanupTyped, CleanupNext
  PROVE  StoreMoves /\ CleanupMoves
<1>1. StoreMoves BY AllMove
<1>2. CASE StartCleanup \/ Fail \/ FinishCleanup BY <1>1, <1>2, CleanerEmptied DEF CleanupMoves, Restarts
<1>3. CASE ListCaches BY <1>1, <1>3, CachesList DEF CleanupMoves
<1>4. CASE ListArtifacts BY <1>1, <1>4, ArtifactsList DEF CleanupMoves
<1>5. CASE ListRuns BY <1>1, <1>5, RunsList DEF CleanupMoves
<1>6. ASSUME NEW x \in DOMAIN caches, DeleteCache(x) PROVE CleanupMoves
  <2>1. RemovesNext([kind |-> "cache", id |-> x], caches[x]) BY <1>6 DEF DeleteCache
  <2>2. Removes([kind |-> "cache", id |-> x], caches[x]) BY <2>1, NextRemoved
  <2>3. CacheDeleted(x) BY <1>6, <2>2, CacheGoes DEF CacheDeleted
  <2> QED BY <2>3 DEF CleanupMoves
<1>7. ASSUME NEW x \in DOMAIN artifacts, DeleteArtifact(x) PROVE CleanupMoves
  <2>1. RemovesNext([kind |-> "artifact", id |-> x], artifacts[x]) BY <1>7 DEF DeleteArtifact
  <2>2. Removes([kind |-> "artifact", id |-> x], artifacts[x]) BY <2>1, NextRemoved
  <2>3. ArtifactDeleted(x) BY <1>7, <2>2, ArtifactGoes DEF ArtifactDeleted
  <2> QED BY <2>3 DEF CleanupMoves
<1>8. ASSUME NEW x \in DOMAIN runs, DeleteLog(x) PROVE CleanupMoves
  <2> DEFINE was == [runs[x] EXCEPT !.there = @ /\ runs[x].logs]
  <2>1. RemovesNext([kind |-> "log", id |-> x], was) /\ (runs[x].there => runs[x].completed) BY <1>8 DEF DeleteLog
  <2>2. runs[x] \in StoredRun BY DEF CleanupTyped, Numbered
  <2>3. /\ was.there = (runs[x].there /\ runs[x].logs) /\ was.completed = runs[x].completed
        /\ was.age = runs[x].age /\ was.class = runs[x].class
    BY <2>2 DEF StoredRun
  <2> HIDE DEF was
  <2>4. Removes([kind |-> "log", id |-> x], was) BY <2>1, NextRemoved
  <2>5. LogDeleted(x) BY <1>8, <2>1, <2>3, <2>4, LogGoes DEF LogDeleted
  <2> QED BY <2>5 DEF CleanupMoves
<1>9. ASSUME NEW x \in DOMAIN runs, DeleteRun(x) PROVE CleanupMoves
  <2>1. RemovesNext([kind |-> "run", id |-> x], runs[x]) /\ (runs[x].there => runs[x].completed) BY <1>9 DEF DeleteRun
  <2>2. Removes([kind |-> "run", id |-> x], runs[x]) BY <2>1, NextRemoved
  <2>3. RunDeleted(x) BY <1>9, <2>1, <2>2, RunGoes DEF RunDeleted
  <2> QED BY <2>3 DEF CleanupMoves
<1>10. CASE JobActs BY <1>1, <1>10, JobsMove DEF CleanupMoves
<1> QED BY <1>1, <1>2, <1>3, <1>4, <1>5, <1>6, <1>7, <1>8, <1>9, <1>10 DEF CleanupNext, JobActs

(* What was listed of the caches.                                             *)
LEMMA EntriesKept ==
  ASSUME CleanupTyped, EntriesStand, StoreMoves, CleanupMoves
  PROVE  EntriesStand'
<1>1. CASE Restarts BY <1>1 DEF Restarts, EmptyCleaner, EntriesStand
<1>2. CASE CachesListed
  <2>1. /\ UNCHANGED <<caches, evicted>> /\ cleaner'.caches = cleaner.caches \cup EntriesOn(cleaner.page) /\ ListsNow
        /\ doubled' = (doubled \/ \E e \in cleaner.caches : e.id \in CachePage(cleaner.page))
    BY <1>2 DEF CachesListed, actionsVars, jobVars, ListsNow
  <2>2. ASSUME NEW e \in EntriesOn(cleaner.page)
        PROVE  /\ e.id \in CachePage(cleaner.page) /\ e = [page |-> cleaner.page, id |-> e.id, cache |-> caches[e.id]]
               /\ caches[e.id].there /\ caches[e.id].used > 0 /\ e.cache = caches[e.id]
    <3>1. PICK x \in CachePage(cleaner.page) : e = [page |-> cleaner.page, id |-> x, cache |-> caches[x]]
      BY DEF EntriesOn
    <3>2. x \in DOMAIN caches /\ caches[x].there BY DEF CachePage, PageAmong, Existing
    <3>3. caches[x].used > 0 BY <3>2 DEF CleanupTyped, CachesAt
    <3> QED BY <3>1, <3>2, <3>3
  <2>3. ASSUME NEW e \in cleaner'.caches
        PROVE  /\ caches[e.id].used > 0 /\ e.cache.kind = caches[e.id].kind
               /\ e.cache.main = caches[e.id].main /\ e.cache.platform = caches[e.id].platform
               /\ caches[e.id].there \/ evicted
    <3>1. CASE e \in cleaner.caches BY <2>1, <3>1 DEF EntriesStand
    <3>2. CASE e \in EntriesOn(cleaner.page) BY <2>2, <3>2
    <3> QED BY <2>1, <3>1, <3>2
  <2>4. ASSUME NEW e \in cleaner'.caches, NEW f \in cleaner'.caches, e.id = f.id, ~doubled' PROVE e = f
    <3>1. CASE e \in cleaner.caches /\ f \in cleaner.caches BY <2>1, <2>4, <3>1 DEF EntriesStand
    <3>2. CASE e \in cleaner.caches /\ f \in EntriesOn(cleaner.page) BY <2>1, <2>2, <2>4, <3>2
    <3>3. CASE e \in EntriesOn(cleaner.page) /\ f \in cleaner.caches BY <2>1, <2>2, <2>4, <3>3
    <3>4. CASE e \in EntriesOn(cleaner.page) /\ f \in EntriesOn(cleaner.page) BY <2>2, <2>4, <3>4
    <3> QED BY <2>1, <3>1, <3>2, <3>3, <3>4
  <2> QED BY <2>1, <2>3, <2>4 DEF EntriesStand
<1>3. CASE ArtifactsListed \/ RunsListed
  <2>1. cleaner'.caches = cleaner.caches /\ UNCHANGED <<caches, evicted, doubled>> /\ ListsNow
    BY <1>3 DEF ArtifactsListed, RunsListed, actionsVars, jobVars, ListsNow
  <2> QED BY <2>1 DEF EntriesStand
<1>4. CASE \/ \E x \in DOMAIN caches : CacheDeleted(x)
           \/ \E x \in DOMAIN artifacts : ArtifactDeleted(x)
           \/ \E x \in DOMAIN runs : LogDeleted(x) \/ RunDeleted(x)
  <2>1. cleaner'.at = "deleting" BY <1>4 DEF CacheDeleted, ArtifactDeleted, LogDeleted, RunDeleted, Removes
  <2> QED BY <2>1 DEF EntriesStand, ListsNow
<1>5. CASE JobMoves
  <2>1. cleaner' = cleaner /\ doubled' = doubled /\ (evicted => evicted') /\ CachesUsed BY <1>5 DEF JobMoves
  <2>2. \A e \in cleaner.caches : e.id \in DOMAIN caches
    <3>1. cleaner.caches \in SUBSET CacheEntry BY TypedCleaner, CleanerFields
    <3> QED BY <3>1 DEF CacheEntry
  <2>3. ListsNow' = ListsNow BY <2>1 DEF ListsNow
  <2> QED BY <2>1, <2>2, <2>3 DEF EntriesStand, CachesUsed
<1> QED BY <1>1, <1>2, <1>3, <1>4, <1>5 DEF CleanupMoves

(* What the plan says of an object.                                           *)
LEMMA PlannedFor ==
  ASSUME NEW rs, NEW x
  PROVE  /\ [kind |-> "cache", id |-> x] \in PlanOf(rs) => x \in CachePlan(cleaner.caches)
         /\ x \in CachePlan(cleaner.caches) => [kind |-> "cache", id |-> x] \in PlanOf(rs)
         /\ [kind |-> "artifact", id |-> x] \in PlanOf(rs) <=> x \in cleaner.artifacts
         /\ [kind |-> "run", id |-> x] \in PlanOf(rs) <=> x \in rs /\ OldRun(x)
         /\ [kind |-> "log", id |-> x] \in PlanOf(rs) <=> x \in rs /\ OldLog(x) /\ ~OldRun(x)
<1>1. \A k, m, ids : [kind |-> k, id |-> x] \in Objects(m, ids) <=> k = m /\ x \in ids BY DEF Objects
<1>2. PlanOf(rs) = ((Objects("cache", CachePlan(cleaner.caches)) \cup Objects("artifact", cleaner.artifacts))
                     \cup Objects("log", {r \in rs : OldLog(r)} \ {r \in rs : OldRun(r)}))
                       \cup Objects("run", {r \in rs : OldRun(r)})
  BY DEF PlanOf
<1> QED BY <1>1, <1>2

LEMMA AgesStand ==
  ASSUME CleanupTyped, StoreMoves, NEW r \in DOMAIN runs
  PROVE  OldRun(r)' = OldRun(r) /\ OldLog(r)' = OldLog(r)
BY DEF StoreMoves, OldRun, OldLog

(* An object that is still to be removed was so before.                       *)
LEMMA DoomedStays ==
  ASSUME NEW c, NEW was, Removes(c, was)
  PROVE  /\ \A kind, x : Doomed(kind, x)' <=> Doomed(kind, x) /\ [kind |-> kind, id |-> x] # c
         /\ cleaner.at = "deleting" /\ cleaner'.at = "deleting"
BY DEF Removes, Doomed

LEMMA PlanStaysOld ==
  ASSUME CleanupTyped, PlanIsOld, StoreMoves, CleanupMoves
  PROVE  PlanIsOld'
<1>0. DOMAIN artifacts' = DOMAIN artifacts /\ DOMAIN runs' = DOMAIN runs BY DEF StoreMoves
<1>1. CASE Restarts
  <2>1. cleaner'.artifacts = {} /\ cleaner'.todo = {} BY <1>1 DEF Restarts, EmptyCleaner
  <2> QED BY <2>1 DEF PlanIsOld, Doomed
<1>2. CASE CachesListed
  <2>1. /\ cleaner'.artifacts = cleaner.artifacts /\ cleaner'.todo = {} /\ artifacts' = artifacts /\ ListsNow
    BY <1>2 DEF CachesListed, actionsVars, ListsNow
  <2> QED BY <2>1 DEF PlanIsOld, Doomed, Due
<1>3. CASE ArtifactsListed
  <2>1. /\ cleaner'.artifacts = cleaner.artifacts \cup ArtifactsDue(cleaner.page) /\ cleaner'.todo = {}
        /\ artifacts' = artifacts /\ ListsNow
    BY <1>3 DEF ArtifactsListed, actionsVars, ListsNow
  <2>2. \A a \in ArtifactsDue(cleaner.page) : artifacts[a].there /\ Due(a)
    BY DEF ArtifactsDue, ArtifactPage, PageAmong, Existing
  <2> QED BY <2>1, <2>2 DEF PlanIsOld, Doomed, Due
<1>4. CASE RunsListed
  <2> DEFINE all == cleaner.runs \cup RunPage(cleaner.day, cleaner.page)
  <2>1. /\ cleaner'.artifacts = cleaner.artifacts /\ artifacts' = artifacts /\ ListsNow
        /\ cleaner'.todo = {} \/ cleaner'.todo = PlanOf(all)
    BY <1>4 DEF RunsListed, actionsVars, ListsNow
  <2> HIDE DEF all
  <2>2. \A a \in cleaner.artifacts : artifacts'[a].there /\ Due(a)' BY <2>1 DEF PlanIsOld, Due
  <2>6. \A kind, x : Doomed(kind, x)' <=> [kind |-> kind, id |-> x] \in cleaner'.todo BY DEF Doomed
  <2>7. \A x : /\ [kind |-> "artifact", id |-> x] \in PlanOf(all) => x \in cleaner.artifacts
               /\ [kind |-> "run", id |-> x] \in PlanOf(all) => OldRun(x)
               /\ [kind |-> "log", id |-> x] \in PlanOf(all) => OldLog(x) /\ ~OldRun(x)
    BY PlannedFor
  <2>3. \A x \in DOMAIN artifacts : Doomed("artifact", x)' => artifacts'[x].there /\ Due(x)'
    BY <2>1, <2>2, <2>6, <2>7
  <2>4. ASSUME NEW x \in DOMAIN runs
        PROVE  (Doomed("run", x)' => OldRun(x)) /\ (Doomed("log", x)' => OldLog(x) /\ ~OldRun(x))
    BY <2>1, <2>6, <2>7
  <2>5. \A x \in DOMAIN runs : (Doomed("run", x)' => OldRun(x)') /\ (Doomed("log", x)' => OldLog(x)' /\ ~OldRun(x)')
    BY <2>4, AgesStand
  <2> QED BY <1>0, <2>1, <2>2, <2>3, <2>5 DEF PlanIsOld
<1>5. ASSUME NEW c, NEW was, Removes(c, was),
             \A a \in DOMAIN artifacts : [kind |-> "artifact", id |-> a] # c => artifacts'[a] = artifacts[a]
      PROVE  PlanIsOld'
  <2>1. \A x \in DOMAIN artifacts : Doomed("artifact", x)' => artifacts'[x].there /\ Due(x)'
    BY <1>5, DoomedStays DEF PlanIsOld, Due
  <2>2. \A x \in DOMAIN runs : (Doomed("run", x)' => OldRun(x)') /\ (Doomed("log", x)' => OldLog(x)' /\ ~OldRun(x)')
    BY <1>5, DoomedStays, AgesStand DEF PlanIsOld
  <2>3. ~ListsNow' BY <1>5, DoomedStays DEF ListsNow
  <2> QED BY <1>0, <2>1, <2>2, <2>3 DEF PlanIsOld
<1>6. ASSUME NEW x \in DOMAIN caches, CacheDeleted(x) PROVE PlanIsOld'
  BY <1>5, <1>6 DEF CacheDeleted, CacheRemoved
<1>7. ASSUME NEW x \in DOMAIN artifacts, ArtifactDeleted(x) PROVE PlanIsOld'
  BY <1>5, <1>7 DEF ArtifactDeleted, ArtifactRemoved
<1>8. ASSUME NEW x \in DOMAIN runs, LogDeleted(x) \/ RunDeleted(x) PROVE PlanIsOld'
  BY <1>5, <1>8 DEF LogDeleted, LogRemoved, RunDeleted, RunRemoved
<1>9. CASE JobMoves
  <2>1. /\ cleaner' = cleaner /\ \A a \in DOMAIN artifacts : artifacts[a].there => artifacts'[a] = artifacts[a]
    BY <1>9 DEF JobMoves
  <2>2. cleaner.artifacts \in SUBSET DOMAIN artifacts BY TypedCleaner, CleanerFields
  <2>3. \A kind, x : Doomed(kind, x)' = Doomed(kind, x) BY <2>1 DEF Doomed
  <2>4. \A x \in DOMAIN artifacts : Doomed("artifact", x)' => artifacts'[x].there /\ Due(x)'
    BY <2>1, <2>3 DEF PlanIsOld, Due
  <2>5. \A x \in DOMAIN runs : (Doomed("run", x)' => OldRun(x)') /\ (Doomed("log", x)' => OldLog(x)' /\ ~OldRun(x)')
    BY <2>3, AgesStand DEF PlanIsOld
  <2>6. \A a \in cleaner.artifacts : ListsNow => artifacts'[a].there /\ Due(a)' BY <2>1, <2>2 DEF PlanIsOld, Due
  <2> QED BY <1>0, <2>1, <2>4, <2>5, <2>6 DEF PlanIsOld, ListsNow
<1> QED BY <1>1, <1>2, <1>3, <1>4, <1>6, <1>7, <1>8, <1>9 DEF CleanupMoves

(* The log of a run that goes is not removed by itself, nor is a run that     *)
(* lost its log.                                                              *)
LEMMA LogsKept ==
  ASSUME CleanupTyped, PlanIsOld, LogsOfStandingRuns, StoreMoves, CleanupMoves
  PROVE  LogsOfStandingRuns'
<1>0. /\ DOMAIN runs' = DOMAIN runs
      /\ \A o \in removed : o.kind = "log" => o.id \in DOMAIN runs' /\ ~OldRun(o.id)' /\ runs[o.id].there
  BY AgesStand DEF StoreMoves, LogsOfStandingRuns
<1>1. CASE Restarts \/ CachesListed \/ ArtifactsListed \/ RunsListed
  <2>1. removed' = removed /\ runs' = runs
    BY <1>1 DEF Restarts, EmptyCleaner, CachesListed, ArtifactsListed, RunsListed, actionsVars
  <2> QED BY <1>0, <2>1 DEF LogsOfStandingRuns
<1>2. ASSUME NEW c, NEW was, Removes(c, was), c.kind # "log", runs' = runs PROVE LogsOfStandingRuns'
  <2>1. \A o \in removed' : o \in removed \/ o.kind # "log" BY <1>2 DEF Removes
  <2> QED BY <1>0, <1>2, <2>1 DEF LogsOfStandingRuns
<1>3. ASSUME NEW x \in DOMAIN caches, CacheDeleted(x) PROVE LogsOfStandingRuns'
  BY <1>2, <1>3 DEF CacheDeleted, CacheRemoved
<1>4. ASSUME NEW x \in DOMAIN artifacts, ArtifactDeleted(x) PROVE LogsOfStandingRuns'
  BY <1>2, <1>4 DEF ArtifactDeleted, ArtifactRemoved
<1>5. ASSUME NEW x \in DOMAIN runs, LogDeleted(x) PROVE LogsOfStandingRuns'
  <2>1. PICK was : was.there = (runs[x].there /\ runs[x].logs) /\ Removes([kind |-> "log", id |-> x], was)
    BY <1>5 DEF LogDeleted
  <2>2. Doomed("log", x) BY <2>1 DEF Removes, Doomed
  <2>3. ~OldRun(x)' BY <2>2, AgesStand DEF PlanIsOld
  <2>4. \A o \in removed' : o \in removed \/ (o.id = x /\ runs[x].there)
    <3>1. CASE was.there
      <4>1. runs[x].there BY <2>1, <3>1, Zenon
      <4>2. removed' = removed \cup {[kind |-> "log", id |-> x, was |-> was]} BY <2>1, <3>1 DEF Removes
      <4> QED BY <4>1, <4>2
    <3>2. CASE ~was.there BY <2>1, <3>2 DEF Removes
    <3> QED BY <3>1, <3>2
  <2>5. \A y \in DOMAIN runs : runs'[y].there = runs[y].there
    <3>1. runs[x] \in StoredRun BY DEF CleanupTyped, Numbered
    <3>2. [runs[x] EXCEPT !.logs = FALSE].there = runs[x].there BY <3>1 DEF StoredRun
    <3> QED BY <1>5, <3>2 DEF LogDeleted, LogRemoved
  <2> QED BY <1>0, <2>3, <2>4, <2>5 DEF LogsOfStandingRuns
<1>6. ASSUME NEW x \in DOMAIN runs, RunDeleted(x) PROVE LogsOfStandingRuns'
  <2>1. Removes([kind |-> "run", id |-> x], runs[x]) BY <1>6 DEF RunDeleted
  <2>2. Doomed("run", x) BY <2>1 DEF Removes, Doomed
  <2>3. OldRun(x)' BY <2>2, AgesStand DEF PlanIsOld
  <2>4. \A o \in removed' : o \in removed \/ o.kind # "log" BY <2>1 DEF Removes
  <2>5. \A y \in DOMAIN runs : y # x => runs'[y] = runs[y] BY <1>6 DEF RunDeleted, RunRemoved
  <2> QED BY <1>0, <2>3, <2>4, <2>5 DEF LogsOfStandingRuns
<1>7. CASE JobMoves
  <2>1. removed' = removed /\ \A y \in DOMAIN runs : runs'[y].there = runs[y].there BY <1>7 DEF JobMoves
  <2> QED BY <1>0, <2>1 DEF LogsOfStandingRuns
<1> QED BY <1>1, <1>3, <1>4, <1>5, <1>6, <1>7 DEF CleanupMoves

LEMMA OnlyOldGone ==
  ASSUME CleanupTyped, PlanIsOld, OnlyOldGoes, CleanupMoves
  PROVE  OnlyOldGoes'
<1> DEFINE Old(o) == /\ o.kind = "artifact" => o.was.expired \/ o.was.age >= ArtifactDays
                     /\ o.kind = "run" => o.was.completed /\ o.was.age >= RunDays[o.was.class]
                     /\ o.kind = "log" => o.was.completed /\ o.was.age >= LogDays[o.was.class]
<1>1. CASE removed' = removed BY <1>1 DEF OnlyOldGoes
<1>2. ASSUME NEW c, NEW was, Removes(c, was), was.there => Old([kind |-> c.kind, id |-> c.id, was |-> was])
      PROVE OnlyOldGoes'
  <2>1. \A o \in removed' : o \in removed \/ Old(o) BY <1>2 DEF Removes
  <2> QED BY <2>1 DEF OnlyOldGoes
<1>3. ASSUME NEW x \in DOMAIN caches, CacheDeleted(x) PROVE OnlyOldGoes'
  BY <1>2, <1>3 DEF CacheDeleted
<1>4. ASSUME NEW x \in DOMAIN artifacts, ArtifactDeleted(x) PROVE OnlyOldGoes'
  <2>1. Removes([kind |-> "artifact", id |-> x], artifacts[x]) BY <1>4 DEF ArtifactDeleted
  <2>2. Due(x) BY <2>1 DEF Removes, Doomed, PlanIsOld
  <2> QED BY <1>2, <2>1, <2>2 DEF Due
<1>5. ASSUME NEW x \in DOMAIN runs, LogDeleted(x) PROVE OnlyOldGoes'
  <2>1. PICK was : /\ was.there = (runs[x].there /\ runs[x].logs) /\ was.completed = runs[x].completed
                   /\ was.age = runs[x].age /\ was.class = runs[x].class
                   /\ Removes([kind |-> "log", id |-> x], was)
    BY <1>5 DEF LogDeleted
  <2>2. OldLog(x) BY <2>1 DEF Removes, Doomed, PlanIsOld
  <2>3. runs[x].there => runs[x].completed BY <1>5 DEF LogDeleted
  <2> QED BY <1>2, <2>1, <2>2, <2>3 DEF OldLog
<1>6. ASSUME NEW x \in DOMAIN runs, RunDeleted(x) PROVE OnlyOldGoes'
  <2>1. Removes([kind |-> "run", id |-> x], runs[x]) /\ (runs[x].there => runs[x].completed) BY <1>6 DEF RunDeleted
  <2>2. OldRun(x) BY <2>1 DEF Removes, Doomed, PlanIsOld
  <2> QED BY <1>2, <2>1, <2>2 DEF OldRun
<1> QED BY <1>1, <1>3, <1>4, <1>5, <1>6 DEF CleanupMoves, Restarts, EmptyCleaner, CachesListed,
   ArtifactsListed, RunsListed, JobMoves

(* Of finitely many entries there is a newest one.                            *)
LEMMA NewestExists ==
  ASSUME NEW S, IsFiniteSet(S), S # {}, \A e \in S : e.page \in Nat /\ e.cache.used \in Nat
  PROVE  \E e \in S : e \in NewestOf(S)
<1> DEFINE R == {q \in S \X S : \/ q[2].cache.used > q[1].cache.used
                                \/ q[2].cache.used = q[1].cache.used /\ q[2].page < q[1].page}
<1>1. \A x, y \in S : <<x, y>> \in R <=> (y.cache.used > x.cache.used \/ (y.cache.used = x.cache.used /\ y.page < x.page))
  OBVIOUS
<1> HIDE DEF R
<1>2. \A x \in S : <<x, x>> \notin R BY <1>1
<1>3. \A x, y, z \in S : <<x, y>> \in R /\ <<y, z>> \in R => <<x, z>> \in R BY <1>1
<1>4. PICK x \in S : \A y \in S : <<x, y>> \notin R BY <1>2, <1>3, MaximalElement
<1>5. ASSUME NEW y \in S PROVE x.cache.used > y.cache.used \/ (x.cache.used = y.cache.used /\ x.page <= y.page)
  <2>1. ~(y.cache.used > x.cache.used \/ (y.cache.used = x.cache.used /\ y.page < x.page)) BY <1>1, <1>4
  <2>2. x.cache.used \in Nat /\ y.cache.used \in Nat /\ x.page \in Nat /\ y.page \in Nat OBVIOUS
  <2> QED BY <2>1, <2>2
<1> QED BY <1>5 DEF NewestOf

(* Entries of different caches are finitely many.                             *)
LEMMA FiniteEntries ==
  ASSUME NEW D, IsFiniteSet(D), NEW S, \A e \in S : e.id \in D, \A e, f \in S : e.id = f.id => e = f
  PROVE  IsFiniteSet(S)
<1> DEFINE g == [e \in S |-> e.id]
<1>1. g \in Injection(S, D)
  <2>1. g \in [S -> D] OBVIOUS
  <2>2. \A e, f \in S : g[e] = g[f] => e = f OBVIOUS
  <2> QED BY <2>1, <2>2 DEF Injection, IsInjective
<1> HIDE DEF g
<1> QED BY <1>1, FS_Injection

LEMMA EntryFields ==
  ASSUME CleanupTyped
  PROVE  \A e \in cleaner.caches : /\ e.id \in DOMAIN caches /\ e.page \in Nat /\ e.cache \in StoredCache
                                   /\ e.cache.used \in Nat /\ e.cache.platform \in Platform
<1>1. cleaner.caches \in SUBSET CacheEntry BY TypedCleaner, CleanerFields
<1> QED BY <1>1 DEF CacheEntry, StoredCache

(* The newest uv cache of main on a platform is not planned.                  *)
LEMMA NewestStays ==
  ASSUME CleanupTyped, EntriesStand, ListsNow, ~doubled, ~evicted, NEW p \in Platform,
         NEW e \in cleaner.caches, Warm(e.id, p)
  PROVE  \E y \in Existing(caches) : Warm(y, p) /\ y \notin CachePlan(cleaner.caches)
<1> DEFINE entries == cleaner.caches
           S == OnPlatform(entries, p)
<1>1. /\ \A f \in entries : /\ f.id \in DOMAIN caches /\ f.page \in Nat /\ f.cache.used \in Nat /\ f.cache.platform \in Platform
                            /\ f.cache.kind = caches[f.id].kind /\ f.cache.main = caches[f.id].main
                            /\ f.cache.platform = caches[f.id].platform /\ caches[f.id].there
      /\ \A f, g \in entries : f.id = g.id => f = g
  BY EntryFields DEF EntriesStand
<1>2. \A f : f \in S <=> f \in entries /\ f.cache.kind = "uv" /\ f.cache.main /\ f.cache.platform = p
  BY DEF OnPlatform, OfMain, EntriesOf
<1>3. e \in S BY <1>1, <1>2 DEF Warm
<1>4. IsFiniteSet(S)
  <2>1. IsFiniteSet(DOMAIN caches) BY DEF CleanupTyped, CachesAt
  <2>2. \A f \in S : f.id \in DOMAIN caches BY <1>1, <1>2
  <2>3. \A f, g \in S : f.id = g.id => f = g BY <1>1, <1>2
  <2> HIDE DEF S
  <2> QED BY <2>1, <2>2, <2>3, FiniteEntries
<1>5. PICK n \in S : n \in NewestOf(S)
  <2>1. \A f \in S : f.page \in Nat /\ f.cache.used \in Nat BY <1>1, <1>2
  <2> HIDE DEF S
  <2> QED BY <1>3, <1>4, <2>1, NewestExists
<1>6. n.id \in Existing(caches) /\ Warm(n.id, p) BY <1>1, <1>2, <1>5 DEF Existing, Warm
<1>7. ASSUME n.id \in CachePlan(entries) PROVE FALSE
  <2> DEFINE A == EntriesOf(entries, "codeql") \cup (EntriesOf(entries, "uv") \ OfMain(entries))
  <2>1. \/ \E f \in A : f.id = n.id
        \/ \E q \in Platform : n.id \in Superseded(OnPlatform(entries, q))
        \/ n.id \in Superseded(EntriesOf(entries, "gitleaks"))
    BY <1>7 DEF CachePlan
  <2>2. n \in entries /\ n.cache.kind = "uv" /\ n.cache.main /\ n.cache.platform = p BY <1>2, <1>5
  <2>3. \A f \in entries : f.id = n.id => f = n BY <1>1, <2>2
  <2>4. ~ \E f \in A : f.id = n.id
    <3>1. \A f \in A : f \in entries /\ ~(f.cache.kind = "uv" /\ f.cache.main) BY DEF EntriesOf, OfMain
    <3> QED BY <2>2, <2>3, <3>1
  <2>5. ASSUME NEW q \in Platform, n.id \in Superseded(OnPlatform(entries, q)) PROVE FALSE
    <3>1. PICK f \in OnPlatform(entries, q) : f \notin NewestOf(OnPlatform(entries, q)) /\ f.id = n.id
      BY <2>5 DEF Superseded
    <3>2. f \in entries /\ f.cache.platform = q BY DEF OnPlatform, OfMain, EntriesOf
    <3>3. f = n /\ q = p BY <2>2, <2>3, <3>1, <3>2
    <3> QED BY <1>5, <3>1, <3>3
  <2>6. ~(n.id \in Superseded(EntriesOf(entries, "gitleaks")))
    <3>1. \A f \in EntriesOf(entries, "gitleaks") : f \in entries /\ f.cache.kind = "gitleaks" BY DEF EntriesOf
    <3>2. \A f \in EntriesOf(entries, "gitleaks") : f.id # n.id BY <2>2, <2>3, <3>1
    <3> QED BY <3>2 DEF Superseded
  <2> QED BY <2>1, <2>4, <2>5, <2>6
<1> QED BY <1>6, <1>7

(* What is planned has been listed.                                           *)
LEMMA PlannedIsListed ==
  ASSUME NEW entries, NEW x \in CachePlan(entries)
  PROVE  \E e \in entries : e.id = x
<1> DEFINE D == {e.id : e \in entries}
<1>1. \A e \in entries : e.id \in D OBVIOUS
<1> HIDE DEF D
<1>2. CachePlan(entries) \subseteq D BY <1>1, PlanIds
<1> QED BY <1>2 DEF D

LEMMA WarmthKept ==
  ASSUME CleanupTyped, EntriesStand, PlanKeepsWarm, StoreMoves, CleanupMoves
  PROVE  PlanKeepsWarm'
<1> DEFINE Kept(x) == /\ caches'[x].used > 0
                      /\ \A p \in Platform : Warm(x, p)' =>
                           doubled' \/ evicted' \/ \E y \in Existing(caches)' : Warm(y, p)' /\ ~Doomed("cache", y)'
<1>0. DOMAIN caches' = DOMAIN caches BY DEF StoreMoves
<1>1. SUFFICES ASSUME NEW x \in DOMAIN caches, Doomed("cache", x)' PROVE Kept(x) BY <1>0 DEF PlanKeepsWarm
<1>2. CASE Restarts \/ CachesListed \/ ArtifactsListed
  <2>1. cleaner'.todo = {} BY <1>2 DEF Restarts, EmptyCleaner, CachesListed, ArtifactsListed
  <2> QED BY <1>1, <2>1 DEF Doomed
<1>3. CASE RunsListed
  <2> DEFINE all == cleaner.runs \cup RunPage(cleaner.day, cleaner.page)
  <2>1. /\ UNCHANGED <<caches, evicted, doubled>> /\ ListsNow /\ (cleaner'.todo = {} \/ cleaner'.todo = PlanOf(all))
    BY <1>3 DEF RunsListed, actionsVars, jobVars, ListsNow
  <2> HIDE DEF all
  <2>6. \A y : Doomed("cache", y)' <=> [kind |-> "cache", id |-> y] \in cleaner'.todo BY DEF Doomed
  <2>7. \A y : [kind |-> "cache", id |-> y] \in PlanOf(all) <=> y \in CachePlan(cleaner.caches) BY PlannedFor
  <2>2. cleaner'.todo = PlanOf(all) /\ x \in CachePlan(cleaner.caches) BY <1>1, <2>1, <2>6, <2>7
  <2>3. PICK e \in cleaner.caches : e.id = x BY <2>2, PlannedIsListed
  <2>4. caches'[x].used > 0 BY <2>1, <2>3 DEF EntriesStand
  <2>5. ASSUME NEW p \in Platform, Warm(x, p)', ~doubled', ~evicted'
        PROVE  \E y \in Existing(caches)' : Warm(y, p)' /\ ~Doomed("cache", y)'
    <3>1. Warm(e.id, p) BY <2>1, <2>3, <2>5 DEF Warm
    <3>2. PICK y \in Existing(caches) : Warm(y, p) /\ y \notin CachePlan(cleaner.caches)
      BY <2>1, <2>5, <3>1, NewestStays
    <3>3. y \in Existing(caches)' /\ Warm(y, p)' BY <2>1, <3>2 DEF Existing, Warm
    <3>4. ~Doomed("cache", y)' BY <2>2, <2>6, <2>7, <3>2
    <3> QED BY <3>3, <3>4
  <2> QED BY <2>4, <2>5
<1>4. ASSUME NEW c, NEW was, Removes(c, was), caches' = caches, c.kind # "cache" PROVE Kept(x)
  <2>1. doubled' = doubled /\ evicted' = evicted BY <1>4 DEF Removes, jobVars
  <2>5. \A y : [kind |-> "cache", id |-> y] # c BY <1>4
  <2>2. \A y : Doomed("cache", y)' <=> Doomed("cache", y) BY <1>4, <2>5, DoomedStays
  <2>3. /\ caches[x].used > 0
        /\ \A p \in Platform : Warm(x, p) => doubled \/ evicted \/ \E y \in Existing(caches) : Warm(y, p) /\ ~Doomed("cache", y)
    BY <1>1, <2>2 DEF PlanKeepsWarm
  <2>4. Existing(caches)' = Existing(caches) /\ \A y, p : Warm(y, p)' = Warm(y, p) BY <1>4 DEF Existing, Warm
  <2> QED BY <1>4, <2>1, <2>2, <2>3, <2>4
<1>5. ASSUME NEW z \in DOMAIN caches, CacheDeleted(z) PROVE Kept(x)
  <2>0. Removes([kind |-> "cache", id |-> z], caches[z]) BY <1>5 DEF CacheDeleted
  <2>1. doubled' = doubled /\ evicted' = evicted BY <2>0 DEF Removes, jobVars
  <2>2. \A y : Doomed("cache", y)' <=> Doomed("cache", y) /\ y # z BY <2>0, DoomedStays
  <2>3. /\ x # z /\ caches[x].used > 0
        /\ \A p \in Platform : Warm(x, p) => doubled \/ evicted \/ \E y \in Existing(caches) : Warm(y, p) /\ ~Doomed("cache", y)
    BY <1>1, <2>2 DEF PlanKeepsWarm
  <2>4. Doomed("cache", z) BY <2>0 DEF Removes, Doomed
  <2>5. \A y \in DOMAIN caches : y # z => caches'[y] = caches[y] BY <1>5 DEF CacheDeleted, CacheRemoved
  <2>6. \A y \in DOMAIN caches : y # z => (y \in Existing(caches) => y \in Existing(caches)') /\ \A p : Warm(y, p)' = Warm(y, p)
    BY <1>0, <2>5 DEF Existing, Warm
  <2>7. \A y \in Existing(caches) : y \in DOMAIN caches BY DEF Existing
  <2> QED BY <2>1, <2>2, <2>3, <2>4, <2>5, <2>6, <2>7
<1>6. ASSUME NEW a \in DOMAIN artifacts, ArtifactDeleted(a) PROVE Kept(x)
  BY <1>4, <1>6 DEF ArtifactDeleted, ArtifactRemoved
<1>7. ASSUME NEW r \in DOMAIN runs, LogDeleted(r) \/ RunDeleted(r) PROVE Kept(x)
  BY <1>4, <1>7 DEF LogDeleted, LogRemoved, RunDeleted, RunRemoved
<1>8. CASE JobMoves
  <2>1. doubled' = doubled /\ (evicted => evicted') /\ cleaner' = cleaner /\ CachesUsed BY <1>8 DEF JobMoves
  <2>2. \A y : Doomed("cache", y)' = Doomed("cache", y) BY <2>1 DEF Doomed
  <2>3. /\ caches[x].used > 0
        /\ \A p \in Platform : Warm(x, p) => doubled \/ evicted \/ \E y \in Existing(caches) : Warm(y, p) /\ ~Doomed("cache", y)
    BY <1>1, <2>2 DEF PlanKeepsWarm
  <2>4. \A y \in Existing(caches) : y \in DOMAIN caches /\ caches[y].used > 0 /\ caches[y].there
    BY DEF Existing, CleanupTyped, CachesAt
  <2>5. \A y \in DOMAIN caches : caches[y].used > 0 =>
          /\ caches'[y].used > 0 /\ \A p : Warm(y, p)' = Warm(y, p)
          /\ caches[y].there => y \in Existing(caches)' \/ evicted'
    BY <1>0, <2>1 DEF CachesUsed, Warm, Existing
  <2> QED BY <2>1, <2>2, <2>3, <2>4, <2>5
<1> QED BY <1>2, <1>3, <1>5, <1>6, <1>7, <1>8 DEF CleanupMoves


LEMMA WarmCacheKept ==
  ASSUME CleanupTyped, PlanKeepsWarm, WarmCacheStays, StoreMoves, CleanupMoves
  PROVE  WarmCacheStays'
<1> DEFINE UvOf(o) == o.kind = "cache" /\ o.was.kind = "uv" /\ o.was.main
           Left(p) == \E y \in Existing(caches) : Warm(y, p)
<1>0. \A o \in removed : UvOf(o) => doubled \/ evicted \/ Left(o.was.platform) BY DEF WarmCacheStays, Warm
<1>1. SUFFICES ASSUME NEW o \in removed', UvOf(o) PROVE doubled' \/ evicted' \/ Left(o.was.platform)'
  BY DEF WarmCacheStays, Warm
<1>2. (doubled => doubled') /\ (evicted => evicted')
  <2>1. CASE Restarts BY <2>1 DEF Restarts, EmptyCleaner
  <2>2. CASE ArtifactsListed \/ RunsListed BY <2>2 DEF ArtifactsListed, RunsListed, jobVars
  <2>5. CASE CachesListed
    <3>1. evicted' = evicted /\ doubled' = (doubled \/ \E e \in cleaner.caches : e.id \in CachePage(cleaner.page))
      BY <2>5 DEF CachesListed, jobVars
    <3> QED BY <3>1, Zenon
  <2>3. CASE \E c, was : Removes(c, was) BY <2>3 DEF Removes, jobVars
  <2>4. CASE JobMoves BY <2>4 DEF JobMoves
  <2> QED BY <2>1, <2>2, <2>3, <2>4, <2>5 DEF CleanupMoves, CacheDeleted, ArtifactDeleted,
     LogDeleted, RunDeleted
<1>3. ASSUME caches' = caches, o \in removed PROVE doubled' \/ evicted' \/ Left(o.was.platform)'
  BY <1>0, <1>1, <1>2, <1>3 DEF Existing, Warm
<1>4. CASE Restarts \/ CachesListed \/ ArtifactsListed \/ RunsListed
  BY <1>3, <1>4 DEF Restarts, EmptyCleaner, CachesListed, ArtifactsListed, RunsListed, actionsVars
<1>5. ASSUME NEW c, NEW was, Removes(c, was), caches' = caches, c.kind # "cache"
      PROVE  doubled' \/ evicted' \/ Left(o.was.platform)'
  BY <1>1, <1>3, <1>5 DEF Removes
<1>6. ASSUME NEW a \in DOMAIN artifacts, ArtifactDeleted(a) PROVE doubled' \/ evicted' \/ Left(o.was.platform)'
  BY <1>5, <1>6 DEF ArtifactDeleted, ArtifactRemoved
<1>7. ASSUME NEW r \in DOMAIN runs, LogDeleted(r) \/ RunDeleted(r) PROVE doubled' \/ evicted' \/ Left(o.was.platform)'
  BY <1>5, <1>7 DEF LogDeleted, LogRemoved, RunDeleted, RunRemoved
<1>8. ASSUME NEW z \in DOMAIN caches, CacheDeleted(z) PROVE doubled' \/ evicted' \/ Left(o.was.platform)'
  <2>1. Removes([kind |-> "cache", id |-> z], caches[z]) BY <1>8 DEF CacheDeleted
  <2>2. Doomed("cache", z) BY <2>1 DEF Removes, Doomed
  <2>3. \A p \in Platform : Warm(z, p) => doubled \/ evicted \/ \E y \in Existing(caches) : Warm(y, p) /\ ~Doomed("cache", y)
    BY <2>2 DEF PlanKeepsWarm
  <2>4. DOMAIN caches' = DOMAIN caches /\ \A y \in DOMAIN caches : y # z => caches'[y] = caches[y]
    BY <1>8 DEF StoreMoves, CacheDeleted, CacheRemoved
  <2>5. ASSUME NEW p, NEW y \in Existing(caches), Warm(y, p), y # z PROVE Left(p)'
    <3>1. y \in Existing(caches)' /\ Warm(y, p)' BY <2>4, <2>5 DEF Existing, Warm
    <3> QED BY <3>1
  <2>6. \A y \in DOMAIN caches : caches[y].platform \in Platform BY DEF CleanupTyped, CachesAt, StoredCache
  <2>7. ASSUME NEW p \in Platform, Warm(z, p) PROVE doubled' \/ evicted' \/ Left(p)'
    BY <1>2, <2>2, <2>3, <2>5, <2>7
  <2>8. CASE o \in removed
    <3>1. doubled \/ evicted \/ Left(o.was.platform) BY <1>0, <1>1, <2>8
    <3>2. ASSUME NEW y \in Existing(caches), Warm(y, o.was.platform)
          PROVE doubled' \/ evicted' \/ Left(o.was.platform)'
      <4>1. o.was.platform \in Platform BY <2>6, <3>2 DEF Warm, Existing
      <4> QED BY <2>5, <2>7, <3>2, <4>1
    <3> QED BY <1>2, <3>1, <3>2
  <2>9. CASE o \notin removed
    <3>1. o = [kind |-> "cache", id |-> z, was |-> caches[z]] BY <1>1, <2>1, <2>9 DEF Removes
    <3>2. Warm(z, o.was.platform) /\ o.was.platform \in Platform BY <1>1, <2>6, <3>1 DEF Warm
    <3> QED BY <2>7, <3>2
  <2> QED BY <2>8, <2>9
<1>9. CASE JobMoves
  <2>1. removed' = removed /\ CachesUsed /\ DOMAIN caches' = DOMAIN caches BY <1>9 DEF JobMoves, StoreMoves
  <2>2. doubled \/ evicted \/ Left(o.was.platform) BY <1>0, <1>1, <2>1
  <2>3. ASSUME NEW y \in Existing(caches), Warm(y, o.was.platform) PROVE evicted' \/ Left(o.was.platform)'
    <3>1. y \in DOMAIN caches /\ caches[y].there /\ caches[y].used > 0 BY DEF Existing, CleanupTyped, CachesAt
    <3>2. evicted' \/ y \in Existing(caches)' BY <2>1, <3>1 DEF CachesUsed, Existing
    <3>3. Warm(y, o.was.platform)' BY <2>1, <2>3, <3>1 DEF CachesUsed, Warm
    <3> QED BY <3>2, <3>3
  <2> QED BY <1>2, <2>2, <2>3
<1> QED BY <1>4, <1>6, <1>7, <1>8, <1>9 DEF CleanupMoves

(* What is on no page before this one is on it or, when it is full, on none.  *)
LEMMA OnThisPage ==
  ASSUME NEW S, IsFiniteSet(S), NEW key \in [S -> Nat], \A x, y \in S : key[x] = key[y] => x = y,
         NEW p \in Nat \ {0}, NEW x \in S, PagesBefore(S, key, x) >= p - 1
  PROVE  \/ x \in PageAmong(S, key, p)
         \/ Cardinality(PageAmong(S, key, p)) = PerPage /\ PagesBefore(S, key, x) >= p
<1> DEFINE b == PagesBefore(S, key, x)
<1>1. b \in Nat BY PagesBeforeType
<1>2. x \in PageAmong(S, key, p) <=> b = p - 1 BY DEF PageAmong, PagesBefore
<1>3. Cardinality(PageAmong(S, key, p)) # PerPage => b <= p - 1 BY LastPage
<1> HIDE DEF b
<1>4. b >= p - 1 BY DEF b
<1>5. b = p - 1 \/ b >= p BY <1>1, <1>4
<1>6. ~(b >= p /\ b <= p - 1) BY <1>1
<1> QED BY <1>2, <1>3, <1>5, <1>6 DEF b

LEMMA CachePages ==
  ASSUME CleanupTyped
  PROVE  /\ IsFiniteSet(Existing(caches))
         /\ [y \in Existing(caches) |-> caches[y].used] \in [Existing(caches) -> Nat]
         /\ \A x, y \in Existing(caches) : caches[x].used = caches[y].used => x = y
         /\ \A x \in Existing(caches) : CachePagesBefore(x) \in Nat
<1>1. CachesAt(caches, clock) BY DEF CleanupTyped
<1>2. Existing(caches) \subseteq DOMAIN caches /\ \A x \in Existing(caches) : caches[x].there BY DEF Existing
<1>3. IsFiniteSet(Existing(caches)) BY <1>1, <1>2, FS_Subset DEF CachesAt
<1>4. \A x \in Existing(caches) : caches[x].used \in Nat /\ caches[x].used > 0 BY <1>1, <1>2 DEF CachesAt, StoredCache
<1>5. \A x, y \in Existing(caches) : caches[x].used = caches[y].used => x = y BY <1>1, <1>2, <1>4 DEF CachesAt
<1> QED BY <1>3, <1>4, <1>5, PagesBeforeType DEF CachePagesBefore

LEMMA CacheOnPage ==
  ASSUME CleanupTyped, NEW p \in Nat \ {0}, NEW x \in Existing(caches), CachePagesBefore(x) >= p - 1
  PROVE  x \in CachePage(p) \/ (Cardinality(CachePage(p)) = PerPage /\ CachePagesBefore(x) >= p)
<1> DEFINE S == Existing(caches)
           key == [y \in S |-> caches[y].used]
<1>1. IsFiniteSet(S) /\ key \in [S -> Nat] /\ \A y, z \in S : key[y] = key[z] => y = z BY CachePages
<1>2. CachePagesBefore(x) = PagesBefore(S, key, x) /\ CachePage(p) = PageAmong(S, key, p)
  BY DEF CachePagesBefore, CachePage
<1> HIDE DEF S, key
<1>3. x \in S BY DEF S
<1> QED BY <1>1, <1>2, <1>3, OnThisPage

LEMMA NumberPages ==
  ASSUME NEW S \in SUBSET Nat, IsFiniteSet(S), NEW p \in Nat \ {0}, NEW x \in S
  PROVE  LET key == [y \in S |-> y] IN
         /\ PagesBefore(S, key, x) \in Nat
         /\ PagesBefore(S, key, x) >= p - 1 =>
              x \in PageAmong(S, key, p) \/ (Cardinality(PageAmong(S, key, p)) = PerPage /\ PagesBefore(S, key, x) >= p)
<1> DEFINE key == [y \in S |-> y]
<1>1. key \in [S -> Nat] /\ \A y, z \in S : key[y] = key[z] => y = z OBVIOUS
<1> HIDE DEF key
<1>2. PagesBefore(S, key, x) \in Nat BY PagesBeforeType
<1>3. PagesBefore(S, key, x) >= p - 1 =>
        x \in PageAmong(S, key, p) \/ (Cardinality(PageAmong(S, key, p)) = PerPage /\ PagesBefore(S, key, x) >= p)
  BY <1>1, OnThisPage
<1> QED BY <1>2, <1>3 DEF key

LEMMA ArtifactOnPage ==
  ASSUME CleanupTyped, NEW p \in Nat \ {0}, NEW x \in Existing(artifacts)
  PROVE  /\ ArtifactPagesBefore(x) \in Nat
         /\ ArtifactPagesBefore(x) >= p - 1 =>
              x \in ArtifactPage(p) \/ (Cardinality(ArtifactPage(p)) = PerPage /\ ArtifactPagesBefore(x) >= p)
<1>1. Existing(artifacts) \in SUBSET Nat /\ IsFiniteSet(Existing(artifacts))
  <2>1. DOMAIN artifacts \subseteq Nat /\ IsFiniteSet(DOMAIN artifacts) /\ Existing(artifacts) \subseteq DOMAIN artifacts
    BY DEF CleanupTyped, Numbered, Existing
  <2> QED BY <2>1, FS_Subset
<1> QED BY <1>1, NumberPages DEF ArtifactPagesBefore, ArtifactPage

LEMMA RunOnPage ==
  ASSUME CleanupTyped, NEW day, NEW p \in Nat \ {0}, NEW x \in Shard(day)
  PROVE  /\ RunPagesBefore(day, x) \in Nat
         /\ RunPagesBefore(day, x) >= p - 1 =>
              x \in RunPage(day, p) \/ (Cardinality(RunPage(day, p)) = PerPage /\ RunPagesBefore(day, x) >= p)
<1>1. Shard(day) \in SUBSET Nat /\ IsFiniteSet(Shard(day))
  <2>1. DOMAIN runs \subseteq Nat /\ IsFiniteSet(DOMAIN runs) /\ Shard(day) \subseteq DOMAIN runs
    BY DEF CleanupTyped, Numbered, Existing, Shard, CompletedRuns
  <2> QED BY <2>1, FS_Subset
<1>2. RunPage(day, p) = PageAmong(Shard(day), [r \in Shard(day) |-> r], p) BY DEF RunPage, Shard
<1> QED BY <1>1, <1>2, NumberPages DEF RunPagesBefore

(* Jobs make the lists old; so only the cleanup's own steps matter.           *)
LEMMA QuietCachesKept ==
  ASSUME CleanupTyped, QuietCaches, StoreMoves, CleanupMoves
  PROVE  QuietCaches'
<1>1. SUFFICES ASSUME ListsNow', ~touched' PROVE QuietCaches' BY DEF QuietCaches
<1>2. CASE Restarts
  <2>1. /\ cleaner'.at = "caches" /\ cleaner'.caches = {} /\ cleaner'.page = 1 /\ UNCHANGED actionsVars
    BY <1>1, <1>2 DEF Restarts, EmptyCleaner, ListsNow
  <2>2. \A x \in Existing(caches) : CachePagesBefore(x) >= 0 BY CachePages
  <2>3. caches' = caches BY <2>1 DEF actionsVars
  <2>4. Existing(caches)' = Existing(caches) BY <2>3 DEF Existing
  <2>5. \A x \in Existing(caches)' : CachePagesBefore(x)' >= 0
    BY <2>2, <2>3, <2>4 DEF CachePagesBefore
  <2>6. cleaner'.page - 1 = 0 BY <2>1
  <2> QED BY <2>1, <2>5, <2>6 DEF QuietCaches
<1>3. ASSUME ListsNow, touched' = touched, caches' = caches, cleaner'.caches = cleaner.caches,
             cleaner.at = "caches" => cleaner'.at = "caches" /\ cleaner'.page = cleaner.page
      PROVE  QuietCaches'
  <2>1. Existing(caches)' = Existing(caches) /\ \A x : CachePagesBefore(x)' = CachePagesBefore(x)
    BY <1>3 DEF Existing, CachePagesBefore
  <2> QED BY <1>1, <1>3, <2>1 DEF QuietCaches
<1>4. CASE ArtifactsListed \/ RunsListed
  BY <1>3, <1>4 DEF ArtifactsListed, RunsListed, actionsVars, jobVars, ListsNow
<1>5. CASE CachesListed
  <2>1. /\ UNCHANGED <<caches, touched>> /\ cleaner'.caches = cleaner.caches \cup EntriesOn(cleaner.page) /\ cleaner.at = "caches"
        /\ \/ Cardinality(CachePage(cleaner.page)) = PerPage /\ cleaner'.at = "caches" /\ cleaner'.page = cleaner.page + 1
           \/ Cardinality(CachePage(cleaner.page)) # PerPage
    BY <1>5 DEF CachesListed, actionsVars, jobVars
  <2>2. Existing(caches)' = Existing(caches) /\ \A x : CachePagesBefore(x)' = CachePagesBefore(x)
    BY <2>1 DEF Existing, CachePagesBefore
  <2>3. cleaner.page \in Nat \ {0} BY PageNumber
  <2>4. ListsNow /\ ~touched BY <1>1, <2>1 DEF ListsNow
  <2>5. ASSUME NEW e \in EntriesOn(cleaner.page)
        PROVE  caches[e.id].there /\ e.cache = caches[e.id] /\ e.page = CachePagesBefore(e.id) + 1
    <3>1. PICK x \in CachePage(cleaner.page) : e = [page |-> cleaner.page, id |-> x, cache |-> caches[x]]
      BY DEF EntriesOn
    <3>2. x \in Existing(caches) /\ CachePagesBefore(x) = cleaner.page - 1
      BY <3>1 DEF CachePage, PageAmong, CachePagesBefore, PagesBefore
    <3>3. caches[x].there BY <3>2 DEF Existing
    <3>4. e.id = x /\ e.cache = caches[x] /\ e.page = cleaner.page BY <3>1
    <3>5. cleaner.page = (cleaner.page - 1) + 1 BY <2>3
    <3> QED BY <3>2, <3>3, <3>4, <3>5
  <2>6. \A e \in cleaner'.caches : caches[e.id].there /\ e.cache = caches[e.id] /\ e.page = CachePagesBefore(e.id) + 1
    BY <2>1, <2>4, <2>5 DEF QuietCaches
  <2>7. ASSUME NEW x \in Existing(caches)
        PROVE  \/ \E e \in cleaner'.caches : e.id = x
               \/ cleaner'.at = "caches" /\ CachePagesBefore(x) >= cleaner'.page - 1
    <3>1. CASE \E e \in cleaner.caches : e.id = x BY <2>1, <3>1
    <3>2. CASE CachePagesBefore(x) >= cleaner.page - 1
      <4>1. CASE x \in CachePage(cleaner.page)
        <5>1. [page |-> cleaner.page, id |-> x, cache |-> caches[x]] \in EntriesOn(cleaner.page) BY <4>1 DEF EntriesOn
        <5> QED BY <2>1, <5>1
      <4>2. CASE Cardinality(CachePage(cleaner.page)) = PerPage /\ CachePagesBefore(x) >= cleaner.page
        <5>1. cleaner'.page - 1 = cleaner.page /\ cleaner'.at = "caches" BY <2>1, <2>3, <4>2
        <5> QED BY <4>2, <5>1
      <4> QED BY <2>3, <3>2, <4>1, <4>2, CacheOnPage
    <3> QED BY <2>4, <3>1, <3>2 DEF QuietCaches
  <2> QED BY <2>1, <2>2, <2>6, <2>7 DEF QuietCaches
<1>6. CASE \/ \E x \in DOMAIN caches : CacheDeleted(x)
           \/ \E x \in DOMAIN artifacts : ArtifactDeleted(x)
           \/ \E x \in DOMAIN runs : LogDeleted(x) \/ RunDeleted(x)
  <2>1. cleaner'.at = "deleting" BY <1>6 DEF CacheDeleted, ArtifactDeleted, LogDeleted, RunDeleted, Removes
  <2> QED BY <1>1, <2>1 DEF ListsNow
<1>7. CASE JobMoves BY <1>1, <1>7 DEF JobMoves
<1> QED BY <1>2, <1>4, <1>5, <1>6, <1>7 DEF CleanupMoves

LEMMA QuietArtifactsKept ==
  ASSUME CleanupTyped, QuietArtifacts, StoreMoves, CleanupMoves
  PROVE  QuietArtifacts'
<1>1. SUFFICES ASSUME cleaner'.at \in {"artifacts", "runs"}, ~touched' PROVE QuietArtifacts' BY DEF QuietArtifacts
<1>2. CASE Restarts BY <1>1, <1>2 DEF Restarts, EmptyCleaner
<1>3. CASE CachesListed
  <2>1. /\ artifacts' = artifacts
        /\ (cleaner'.at = "caches" \/ (cleaner'.at = "artifacts" /\ cleaner'.page = 1))
    <3>1. UNCHANGED actionsVars BY <1>3 DEF CachesListed
    <3>2. artifacts' = artifacts BY <3>1 DEF actionsVars
    <3>3. cleaner'.at = "caches" \/ (cleaner'.at = "artifacts" /\ cleaner'.page = 1) BY <1>3 DEF CachesListed
    <3> QED BY <3>2, <3>3
  <2>2. cleaner'.at = "artifacts" /\ cleaner'.page = 1 BY <1>1, <2>1
  <2>3. 1 \in Nat \ {0} /\ cleaner'.page - 1 = 0 BY <2>2
  <2>4. \A x \in Existing(artifacts) : ArtifactPagesBefore(x) >= 0 BY <2>3, ArtifactOnPage
  <2>5. \A x \in Existing(artifacts)' : ArtifactPagesBefore(x)' >= 0 BY <2>1, <2>4 DEF Existing, ArtifactPagesBefore
  <2> QED BY <2>2, <2>3, <2>5 DEF QuietArtifacts
<1>4. CASE ArtifactsListed
  <2>1. /\ UNCHANGED <<artifacts, touched>> /\ cleaner'.artifacts = cleaner.artifacts \cup ArtifactsDue(cleaner.page)
        /\ cleaner.at = "artifacts"
        /\ \/ Cardinality(ArtifactPage(cleaner.page)) = PerPage /\ cleaner'.at = "artifacts" /\ cleaner'.page = cleaner.page + 1
           \/ Cardinality(ArtifactPage(cleaner.page)) # PerPage
    BY <1>4 DEF ArtifactsListed, actionsVars, jobVars
  <2>2. /\ Existing(artifacts)' = Existing(artifacts) /\ \A x : ArtifactPagesBefore(x)' = ArtifactPagesBefore(x)
        /\ \A x : Due(x)' = Due(x)
    BY <2>1 DEF Existing, ArtifactPagesBefore, Due
  <2>3. cleaner.page \in Nat \ {0} BY PageNumber
  <2>4. ASSUME NEW x \in Existing(artifacts), Due(x)
        PROVE  x \in cleaner'.artifacts \/ (cleaner'.at = "artifacts" /\ ArtifactPagesBefore(x) >= cleaner'.page - 1)
    <3>1. x \in cleaner.artifacts \/ ArtifactPagesBefore(x) >= cleaner.page - 1 BY <1>1, <2>1, <2>4 DEF QuietArtifacts
    <3>2. CASE x \in cleaner.artifacts BY <2>1, <3>2
    <3>3. CASE x \in ArtifactPage(cleaner.page) BY <2>1, <2>4, <3>3 DEF ArtifactsDue
    <3>4. CASE Cardinality(ArtifactPage(cleaner.page)) = PerPage /\ ArtifactPagesBefore(x) >= cleaner.page
      <4>1. cleaner'.page - 1 = cleaner.page /\ cleaner'.at = "artifacts" BY <2>1, <2>3, <3>4
      <4> QED BY <3>4, <4>1
    <3> QED BY <2>3, <3>1, <3>2, <3>3, <3>4, ArtifactOnPage
  <2> QED BY <2>2, <2>4 DEF QuietArtifacts
<1>5. CASE RunsListed
  <2>1. UNCHANGED <<artifacts, touched>> /\ cleaner'.artifacts = cleaner.artifacts /\ cleaner.at = "runs"
    BY <1>5 DEF RunsListed, actionsVars, jobVars
  <2>2. Existing(artifacts)' = Existing(artifacts) /\ \A x : Due(x)' = Due(x) BY <2>1 DEF Existing, Due
  <2> QED BY <1>1, <2>1, <2>2 DEF QuietArtifacts
<1>6. CASE \/ \E x \in DOMAIN caches : CacheDeleted(x)
           \/ \E x \in DOMAIN artifacts : ArtifactDeleted(x)
           \/ \E x \in DOMAIN runs : LogDeleted(x) \/ RunDeleted(x)
  <2>1. cleaner'.at = "deleting" BY <1>6 DEF CacheDeleted, ArtifactDeleted, LogDeleted, RunDeleted, Removes
  <2> QED BY <1>1, <2>1
<1>7. CASE JobMoves BY <1>1, <1>7 DEF JobMoves
<1> QED BY <1>2, <1>3, <1>4, <1>5, <1>6, <1>7 DEF CleanupMoves

LEMMA QuietRunsKept ==
  ASSUME CleanupTyped, QuietRuns, StoreMoves, CleanupMoves
  PROVE  QuietRuns'
<1>1. SUFFICES ASSUME cleaner'.at = "runs", ~touched' PROVE QuietRuns' BY DEF QuietRuns
<1>2. CASE Restarts \/ CachesListed BY <1>1, <1>2 DEF Restarts, EmptyCleaner, CachesListed
<1>3. \A r \in CompletedRuns : runs[r].age \in Nat BY DEF CompletedRuns, Existing, CleanupTyped, Numbered, StoredRun
<1>4. CASE ArtifactsListed
  <2>1. UNCHANGED <<runs, allOld>> /\ cleaner'.page = 1 /\ cleaner'.day = Lookback
    BY <1>1, <1>4 DEF ArtifactsListed, actionsVars
  <2>2. CompletedRuns' = CompletedRuns /\ \A d : Shard(d)' = Shard(d) /\ \A x : RunPagesBefore(d, x)' = RunPagesBefore(d, x)
    BY <2>1 DEF CompletedRuns, Existing, Shard, RunPagesBefore
  <2>3. 1 \in Nat \ {0} /\ cleaner'.page - 1 = 0 BY <2>1
  <2>4. ASSUME NEW r \in CompletedRuns, allOld \/ runs[r].age <= Lookback
        PROVE  (~allOld /\ runs[r].age < Lookback) \/ (r \in Shard(Lookback) /\ RunPagesBefore(Lookback, r) >= 0)
    <3>1. CASE r \in Shard(Lookback) BY <2>3, <3>1, RunOnPage
    <3>2. CASE r \notin Shard(Lookback)
      <4>1. ~allOld /\ runs[r].age # Lookback BY <2>4, <3>2 DEF Shard
      <4> QED BY <1>3, <2>4, <4>1, LookbackType
    <3> QED BY <3>1, <3>2
  <2>5. Lookback' = Lookback OBVIOUS
  <2> QED BY <2>1, <2>2, <2>3, <2>4, <2>5 DEF QuietRuns
<1>5. CASE RunsListed
  <2> DEFINE page == RunPage(cleaner.day, cleaner.page)
  <2>1. /\ UNCHANGED <<runs, allOld, touched>> /\ cleaner'.runs = cleaner.runs \cup page /\ cleaner.at = "runs"
        /\ \/ Cardinality(page) = PerPage /\ cleaner'.page = cleaner.page + 1 /\ cleaner'.day = cleaner.day
           \/ /\ Cardinality(page) # PerPage /\ ~allOld /\ cleaner.day # 0
              /\ cleaner'.page = 1 /\ cleaner'.day = cleaner.day - 1
    BY <1>1, <1>5 DEF RunsListed, actionsVars, jobVars
  <2>2. CompletedRuns' = CompletedRuns /\ \A d : Shard(d)' = Shard(d) /\ \A x : RunPagesBefore(d, x)' = RunPagesBefore(d, x)
    BY <2>1 DEF CompletedRuns, Existing, Shard, RunPagesBefore
  <2>3. cleaner.page \in Nat \ {0} /\ cleaner.day \in Nat BY PageNumber, TypedCleaner, CleanerFields
  <2>4. ASSUME NEW r \in CompletedRuns, allOld \/ runs[r].age <= Lookback
        PROVE  \/ r \in cleaner'.runs
               \/ ~allOld /\ runs[r].age < cleaner'.day
               \/ r \in Shard(cleaner'.day) /\ RunPagesBefore(cleaner'.day, r) >= cleaner'.page - 1
    <3>1. \/ r \in cleaner.runs
          \/ ~allOld /\ runs[r].age < cleaner.day
          \/ r \in Shard(cleaner.day) /\ RunPagesBefore(cleaner.day, r) >= cleaner.page - 1
      BY <1>1, <2>1, <2>4 DEF QuietRuns
    <3>2. CASE r \in cleaner.runs BY <2>1, <3>2
    <3>3. CASE ~allOld /\ runs[r].age < cleaner.day
      <4>1. CASE cleaner'.day = cleaner.day BY <3>3, <4>1
      <4>2. CASE cleaner'.page = 1 /\ cleaner'.day = cleaner.day - 1
        <5>1. CASE runs[r].age < cleaner.day - 1 BY <3>3, <4>2, <5>1
        <5>2. CASE runs[r].age = cleaner.day - 1
          <6>1. r \in Shard(cleaner'.day) BY <4>2, <5>2 DEF Shard
          <6>2. 1 \in Nat \ {0} /\ cleaner'.page - 1 = 0 BY <4>2
          <6>3. RunPagesBefore(cleaner'.day, r) \in Nat BY <6>1, <6>2, RunOnPage
          <6> QED BY <6>1, <6>2, <6>3
        <5> QED BY <1>3, <2>3, <3>3, <5>1, <5>2
      <4> QED BY <2>1, <4>1, <4>2
    <3>4. CASE r \in Shard(cleaner.day) /\ RunPagesBefore(cleaner.day, r) >= cleaner.page - 1
      <4>1. r \in page \/ (Cardinality(page) = PerPage /\ RunPagesBefore(cleaner.day, r) >= cleaner.page)
        BY <2>3, <3>4, RunOnPage
      <4>2. CASE r \in page BY <2>1, <4>2
      <4>3. CASE Cardinality(page) = PerPage /\ RunPagesBefore(cleaner.day, r) >= cleaner.page
        <5>1. cleaner'.page - 1 = cleaner.page /\ cleaner'.day = cleaner.day BY <2>1, <2>3, <4>3
        <5> QED BY <3>4, <4>3, <5>1
      <4> QED BY <4>1, <4>2, <4>3
    <3> QED BY <3>1, <3>2, <3>3, <3>4
  <2> QED BY <2>1, <2>2, <2>4 DEF QuietRuns
<1>6. CASE \/ \E x \in DOMAIN caches : CacheDeleted(x)
           \/ \E x \in DOMAIN artifacts : ArtifactDeleted(x)
           \/ \E x \in DOMAIN runs : LogDeleted(x) \/ RunDeleted(x)
  <2>1. cleaner'.at = "deleting" BY <1>6 DEF CacheDeleted, ArtifactDeleted, LogDeleted, RunDeleted, Removes
  <2> QED BY <1>1, <2>1
<1>7. CASE JobMoves BY <1>1, <1>7 DEF JobMoves
<1> QED BY <1>2, <1>4, <1>5, <1>6, <1>7 DEF CleanupMoves

(* The plan of lists that nothing changed since leaves nothing out.           *)
LEMMA QuietListsPlanAll ==
  ASSUME CleanupTyped, QuietCaches, ListsNow, ~touched, cleaner.at # "caches"
  PROVE  /\ \A x \in Existing(caches) : x \notin CachePlan(cleaner.caches) =>
              caches[x].kind # "codeql" /\ (caches[x].kind = "uv" => caches[x].main)
         /\ \A x, y \in Existing(caches) : x \notin CachePlan(cleaner.caches) /\ y \notin CachePlan(cleaner.caches) =>
              /\ caches[x].kind = "gitleaks" /\ caches[y].kind = "gitleaks" => x = y
              /\ caches[x].kind = "uv" /\ caches[y].kind = "uv" /\ caches[x].platform = caches[y].platform => x = y
<1> DEFINE entries == cleaner.caches
           plan == CachePlan(entries)
           A == EntriesOf(entries, "codeql") \cup (EntriesOf(entries, "uv") \ OfMain(entries))
<1>1. \A x \in Existing(caches) : \E e \in entries : e.id = x /\ e.cache = caches[x] BY DEF QuietCaches
<1>2. \A x : /\ (\E e \in A : e.id = x) => x \in plan
             /\ \A q \in Platform : x \in Superseded(OnPlatform(entries, q)) => x \in plan
             /\ x \in Superseded(EntriesOf(entries, "gitleaks")) => x \in plan
  BY DEF CachePlan
<1>3. \A x \in Existing(caches) : /\ x \in DOMAIN caches /\ caches[x].used \in Nat /\ caches[x].used > 0
                                  /\ caches[x].platform \in Platform
  BY DEF Existing, CleanupTyped, CachesAt, StoredCache
<1> HIDE DEF plan
<1>4. ASSUME NEW x \in Existing(caches), x \notin plan
      PROVE  caches[x].kind # "codeql" /\ (caches[x].kind = "uv" => caches[x].main)
  <2>1. PICK e \in entries : e.id = x /\ e.cache = caches[x] BY <1>1
  <2>2. e \notin A BY <1>2, <1>4, <2>1
  <2> QED BY <2>1, <2>2 DEF EntriesOf, OfMain
<1>5. ASSUME NEW S, NEW x \in Existing(caches), NEW y \in Existing(caches), NEW e \in S, NEW f \in S,
             e.id = x, e.cache = caches[x], f.id = y, f.cache = caches[y],
             x \notin Superseded(S), y \notin Superseded(S)
      PROVE  x = y
  <2>1. e \in NewestOf(S) /\ f \in NewestOf(S) BY <1>5 DEF Superseded
  <2>2. /\ caches[x].used > caches[y].used \/ caches[x].used = caches[y].used
        /\ caches[y].used > caches[x].used \/ caches[x].used = caches[y].used
    BY <1>5, <2>1 DEF NewestOf
  <2>3. caches[x].used = caches[y].used /\ caches[x].used > 0 BY <1>3, <2>2
  <2> QED BY <1>3, <2>3 DEF CleanupTyped, CachesAt
<1>6. ASSUME NEW x \in Existing(caches), NEW y \in Existing(caches), x \notin plan, y \notin plan,
             caches[x].kind = "gitleaks", caches[y].kind = "gitleaks"
      PROVE  x = y
  <2>1. PICK e \in entries : e.id = x /\ e.cache = caches[x] BY <1>1
  <2>2. PICK f \in entries : f.id = y /\ f.cache = caches[y] BY <1>1
  <2>3. e \in EntriesOf(entries, "gitleaks") /\ f \in EntriesOf(entries, "gitleaks") BY <1>6, <2>1, <2>2 DEF EntriesOf
  <2>4. x \notin Superseded(EntriesOf(entries, "gitleaks")) /\ y \notin Superseded(EntriesOf(entries, "gitleaks"))
    BY <1>2, <1>6
  <2> QED BY <1>5, <2>1, <2>2, <2>3, <2>4
<1>7. ASSUME NEW x \in Existing(caches), NEW y \in Existing(caches), x \notin plan, y \notin plan,
             caches[x].kind = "uv", caches[y].kind = "uv", caches[x].platform = caches[y].platform
      PROVE  x = y
  <2>1. PICK e \in entries : e.id = x /\ e.cache = caches[x] BY <1>1
  <2>2. PICK f \in entries : f.id = y /\ f.cache = caches[y] BY <1>1
  <2> DEFINE q == caches[x].platform
  <2>3. q \in Platform /\ caches[x].main /\ caches[y].main BY <1>3, <1>4, <1>7
  <2>4. e \in OnPlatform(entries, q) /\ f \in OnPlatform(entries, q)
    BY <1>7, <2>1, <2>2, <2>3 DEF EntriesOf, OfMain, OnPlatform
  <2>5. x \notin Superseded(OnPlatform(entries, q)) /\ y \notin Superseded(OnPlatform(entries, q)) BY <1>2, <1>7, <2>3
  <2> QED BY <1>5, <2>1, <2>2, <2>4, <2>5
<1> QED BY <1>4, <1>6, <1>7 DEF plan

(* While what is planned goes, what is not planned stays as it should be.     *)
CachesTidy ==
  /\ \A x \in Existing(caches) : ~Doomed("cache", x) =>
       caches[x].kind # "codeql" /\ (caches[x].kind = "uv" => caches[x].main)
  /\ \A x, y \in Existing(caches) : ~Doomed("cache", x) /\ ~Doomed("cache", y) =>
       /\ caches[x].kind = "gitleaks" /\ caches[y].kind = "gitleaks" => x = y
       /\ caches[x].kind = "uv" /\ caches[y].kind = "uv" /\ caches[x].platform = caches[y].platform => x = y
ArtifactsTidy == \A x \in Existing(artifacts) : Due(x) => Doomed("artifact", x)
RunsTidy ==
  \A r \in CompletedRuns : allOld \/ runs[r].age <= Lookback =>
    /\ OldRun(r) => Doomed("run", r)
    /\ OldLog(r) /\ ~OldRun(r) /\ runs[r].logs => Doomed("log", r)

LEMMA PlanTidies ==
  QuietPlan <=> (cleaner.at \in {"deleting", "done"} /\ ~touched =>
                   CachesTidy /\ ArtifactsTidy /\ RunsTidy /\ (cleaner.at = "done" => cleaner.todo = {}))
BY DEF QuietPlan, CachesTidy, ArtifactsTidy, RunsTidy

LEMMA FreshPlanTidies ==
  ASSUME CleanupTyped, QuietCaches, QuietArtifacts, QuietRuns, StoreMoves, RunsListed, cleaner'.at = "deleting", ~touched
  PROVE  CachesTidy' /\ ArtifactsTidy' /\ RunsTidy'
<1> DEFINE page == RunPage(cleaner.day, cleaner.page)
           all == cleaner.runs \cup page
<1>1. /\ UNCHANGED <<caches, artifacts, runs, allOld>> /\ cleaner.at = "runs"
      /\ Cardinality(page) # PerPage /\ (allOld \/ cleaner.day = 0) /\ cleaner'.todo = PlanOf(all)
  BY DEF RunsListed, actionsVars
<1>2. /\ Existing(caches)' = Existing(caches) /\ Existing(artifacts)' = Existing(artifacts) /\ CompletedRuns' = CompletedRuns
      /\ \A x : Due(x)' = Due(x) /\ OldRun(x)' = OldRun(x) /\ OldLog(x)' = OldLog(x)
  BY <1>1 DEF Existing, CompletedRuns, Due, OldRun, OldLog
<1>3. \A kind, x : Doomed(kind, x)' <=> [kind |-> kind, id |-> x] \in PlanOf(all) BY <1>1 DEF Doomed
<1>4. ASSUME NEW r \in CompletedRuns, allOld \/ runs[r].age <= Lookback PROVE r \in all
  <2>1. cleaner.page \in Nat \ {0} /\ cleaner.day \in Nat BY PageNumber, TypedCleaner, CleanerFields
  <2>2. runs[r].age \in Nat BY DEF CompletedRuns, Existing, CleanupTyped, Numbered, StoredRun
  <2>3. ~(~allOld /\ runs[r].age < cleaner.day) BY <1>1, <2>2
  <2>4. r \in cleaner.runs \/ (r \in Shard(cleaner.day) /\ RunPagesBefore(cleaner.day, r) >= cleaner.page - 1)
    BY <1>1, <1>4, <2>3 DEF QuietRuns
  <2>5. r \in Shard(cleaner.day) /\ RunPagesBefore(cleaner.day, r) >= cleaner.page - 1 => r \in page
    BY <1>1, <2>1, RunOnPage
  <2> QED BY <2>4, <2>5
<1> HIDE DEF all, page
<1>5. /\ \A x : Doomed("cache", x)' <=> x \in CachePlan(cleaner.caches)
      /\ \A x : Doomed("artifact", x)' <=> x \in cleaner.artifacts
      /\ \A x : Doomed("run", x)' <=> x \in all /\ OldRun(x)
      /\ \A x : Doomed("log", x)' <=> x \in all /\ OldLog(x) /\ ~OldRun(x)
  BY <1>3, PlannedFor
<1>6. CachesTidy'
  <2>1. ListsNow /\ cleaner.at # "caches" BY <1>1 DEF ListsNow
  <2> QED BY <1>1, <1>2, <1>5, <2>1, QuietListsPlanAll DEF CachesTidy
<1>7. ArtifactsTidy' BY <1>1, <1>2, <1>5 DEF ArtifactsTidy, QuietArtifacts
<1>8. RunsTidy'
  <2>1. Lookback' = Lookback OBVIOUS
  <2> QED BY <1>1, <1>2, <1>4, <1>5, <2>1 DEF RunsTidy
<1> QED BY <1>6, <1>7, <1>8

LEMMA QuietPlanKept ==
  ASSUME CleanupTyped, QuietCaches, QuietArtifacts, QuietRuns, QuietPlan, StoreMoves, CleanupMoves
  PROVE  QuietPlan'
<1>1. SUFFICES ASSUME cleaner'.at \in {"deleting", "done"}, ~touched'
               PROVE  CachesTidy' /\ ArtifactsTidy' /\ RunsTidy' /\ (cleaner'.at = "done" => cleaner'.todo = {})
  BY DEF QuietPlan, CachesTidy, ArtifactsTidy, RunsTidy
<1>2. CASE CachesListed \/ ArtifactsListed BY <1>1, <1>2 DEF CachesListed, ArtifactsListed
<1>3. CASE RunsListed
  <2>1. ~touched /\ cleaner'.at = "deleting" BY <1>1, <1>3 DEF RunsListed, jobVars
  <2> QED BY <1>3, <2>1, FreshPlanTidies
<1>4. CASE Restarts
  <2>1. /\ cleaner'.at = "done" /\ cleaner'.todo = {} /\ ~touched /\ cleaner.at = "deleting" /\ cleaner.todo = {}
        /\ UNCHANGED <<caches, artifacts, runs, allOld>>
    BY <1>1, <1>4 DEF Restarts, EmptyCleaner, actionsVars
  <2>2. CachesTidy /\ ArtifactsTidy /\ RunsTidy BY <2>1, PlanTidies
  <2>3. \A kind, x : Doomed(kind, x)' <=> Doomed(kind, x) BY <2>1 DEF Doomed
  <2>4. /\ Existing(caches)' = Existing(caches) /\ Existing(artifacts)' = Existing(artifacts) /\ CompletedRuns' = CompletedRuns
        /\ \A x : Due(x)' = Due(x) /\ OldRun(x)' = OldRun(x) /\ OldLog(x)' = OldLog(x)
        /\ Lookback' = Lookback
    BY <2>1 DEF Existing, CompletedRuns, Due, OldRun, OldLog
  <2>5. CachesTidy' BY <2>1, <2>2, <2>3, <2>4 DEF CachesTidy
  <2>6. ArtifactsTidy' BY <2>1, <2>2, <2>3, <2>4 DEF ArtifactsTidy
  <2>7. RunsTidy' BY <2>1, <2>2, <2>3, <2>4 DEF RunsTidy
  <2> QED BY <2>1, <2>5, <2>6, <2>7
<1>5. ASSUME NEW c, NEW was, Removes(c, was)
      PROVE  /\ CachesTidy /\ ArtifactsTidy /\ RunsTidy /\ cleaner'.at = "deleting" /\ allOld' = allOld
             /\ \A kind, x : Doomed(kind, x)' <=> Doomed(kind, x) /\ [kind |-> kind, id |-> x] # c
  <2>1. cleaner.at = "deleting" /\ cleaner'.at = "deleting" /\ touched' = touched /\ allOld' = allOld
    BY <1>5 DEF Removes, jobVars
  <2> QED BY <1>1, <1>5, <2>1, PlanTidies, DoomedStays
<1>6. ASSUME caches' = caches, CachesTidy, \A x : Doomed("cache", x)' <=> Doomed("cache", x) PROVE CachesTidy'
  <2>1. Existing(caches)' = Existing(caches) BY <1>6 DEF Existing
  <2> QED BY <1>6, <2>1 DEF CachesTidy
<1>7. ASSUME artifacts' = artifacts, ArtifactsTidy, \A x : Doomed("artifact", x)' <=> Doomed("artifact", x)
      PROVE ArtifactsTidy'
  <2>1. Existing(artifacts)' = Existing(artifacts) /\ \A x : Due(x)' = Due(x) BY <1>7 DEF Existing, Due
  <2> QED BY <1>7, <2>1 DEF ArtifactsTidy
<1>8. ASSUME NEW z, allOld' = allOld, RunsTidy,
             \A r \in DOMAIN runs : r # z => runs'[r] = runs[r],
             z \in CompletedRuns' => /\ z \in CompletedRuns /\ (runs'[z].logs => runs[z].logs)
                                     /\ (runs'[z].logs => Doomed("log", z)' \/ ~Doomed("log", z))
                                     /\ (Doomed("run", z) => Doomed("run", z)'),
             \A x : x # z => /\ Doomed("run", x)' <=> Doomed("run", x)
                             /\ Doomed("log", x)' <=> Doomed("log", x)
      PROVE  RunsTidy'
  <2>1. /\ DOMAIN runs' = DOMAIN runs /\ Lookback' = Lookback
        /\ \A r \in DOMAIN runs : runs'[r].age = runs[r].age
    BY DEF StoreMoves
  <2>2. \A r \in DOMAIN runs : OldRun(r)' = OldRun(r) /\ OldLog(r)' = OldLog(r) BY AgesStand
  <2>3. \A r \in CompletedRuns' : /\ r \in DOMAIN runs /\ r \in CompletedRuns
                                  /\ runs'[r].logs => runs[r].logs
    BY <1>8, <2>1 DEF CompletedRuns, Existing
  <2>4. ASSUME NEW r \in CompletedRuns', allOld' \/ runs'[r].age <= Lookback'
        PROVE  /\ OldRun(r)' => Doomed("run", r)'
               /\ OldLog(r)' /\ ~OldRun(r)' /\ runs'[r].logs => Doomed("log", r)'
    <3>1. r \in DOMAIN runs /\ r \in CompletedRuns /\ (allOld \/ runs[r].age <= Lookback) /\ (runs'[r].logs => runs[r].logs)
      BY <1>8, <2>1, <2>3, <2>4
    <3>2. /\ OldRun(r) => Doomed("run", r)
          /\ OldLog(r) /\ ~OldRun(r) /\ runs[r].logs => Doomed("log", r)
      BY <1>8, <3>1 DEF RunsTidy
    <3> QED BY <1>8, <2>2, <2>4, <3>1, <3>2
  <2> QED BY <2>4 DEF RunsTidy
<1>9. ASSUME NEW z \in DOMAIN caches, CacheDeleted(z)
      PROVE CachesTidy' /\ ArtifactsTidy' /\ RunsTidy' /\ cleaner'.at = "deleting"
  <2>1. Removes([kind |-> "cache", id |-> z], caches[z]) BY <1>9 DEF CacheDeleted
  <2>2. /\ artifacts' = artifacts /\ runs' = runs /\ ~caches'[z].there
        /\ \A y \in DOMAIN caches : y # z => caches'[y] = caches[y]
    <3>1. caches[z] \in StoredCache BY DEF CleanupTyped, CachesAt
    <3>2. ~[caches[z] EXCEPT !.there = FALSE].there BY <3>1 DEF StoredCache
    <3> QED BY <1>9, <3>2 DEF CacheDeleted, CacheRemoved
  <2>3. /\ \A x : Doomed("cache", x)' <=> Doomed("cache", x) /\ x # z
        /\ \A x : Doomed("artifact", x)' <=> Doomed("artifact", x)
        /\ \A x : Doomed("run", x)' <=> Doomed("run", x)
        /\ \A x : Doomed("log", x)' <=> Doomed("log", x)
        /\ CachesTidy /\ ArtifactsTidy /\ RunsTidy /\ cleaner'.at = "deleting" /\ allOld' = allOld
    BY <1>5, <2>1
  <2>4. ArtifactsTidy' BY <1>7, <2>2, <2>3
  <2>5. RunsTidy'
    <3>1. CompletedRuns' = CompletedRuns BY <2>2 DEF CompletedRuns, Existing
    <3> QED BY <1>8, <2>2, <2>3, <3>1
  <2>6. \A x \in Existing(caches)' : x \in Existing(caches) /\ x # z /\ caches'[x] = caches[x]
    BY <2>2 DEF Existing, StoreMoves
  <2>7. CachesTidy' BY <2>3, <2>6 DEF CachesTidy
  <2> QED BY <2>3, <2>4, <2>5, <2>7
<1>10. ASSUME NEW z \in DOMAIN artifacts, ArtifactDeleted(z)
       PROVE CachesTidy' /\ ArtifactsTidy' /\ RunsTidy' /\ cleaner'.at = "deleting"
  <2>1. Removes([kind |-> "artifact", id |-> z], artifacts[z]) BY <1>10 DEF ArtifactDeleted
  <2>2. /\ caches' = caches /\ runs' = runs /\ ~artifacts'[z].there
        /\ \A y \in DOMAIN artifacts : y # z => artifacts'[y] = artifacts[y]
    <3>1. artifacts[z] \in StoredArtifact BY DEF CleanupTyped, Numbered
    <3>2. ~[artifacts[z] EXCEPT !.there = FALSE].there BY <3>1 DEF StoredArtifact
    <3> QED BY <1>10, <3>2 DEF ArtifactDeleted, ArtifactRemoved
  <2>3. /\ \A x : Doomed("cache", x)' <=> Doomed("cache", x)
        /\ \A x : Doomed("artifact", x)' <=> Doomed("artifact", x) /\ x # z
        /\ \A x : Doomed("run", x)' <=> Doomed("run", x)
        /\ \A x : Doomed("log", x)' <=> Doomed("log", x)
        /\ CachesTidy /\ ArtifactsTidy /\ RunsTidy /\ cleaner'.at = "deleting" /\ allOld' = allOld
    BY <1>5, <2>1
  <2>4. CachesTidy' BY <1>6, <2>2, <2>3
  <2>5. RunsTidy'
    <3>1. CompletedRuns' = CompletedRuns BY <2>2 DEF CompletedRuns, Existing
    <3> QED BY <1>8, <2>2, <2>3, <3>1
  <2>6. \A x \in Existing(artifacts)' : x \in Existing(artifacts) /\ x # z /\ (Due(x)' => Due(x))
    BY <2>2 DEF Existing, StoreMoves, Due
  <2>7. ArtifactsTidy' BY <2>3, <2>6 DEF ArtifactsTidy
  <2> QED BY <2>3, <2>4, <2>5, <2>7
<1>11. ASSUME NEW z \in DOMAIN runs, LogDeleted(z)
       PROVE CachesTidy' /\ ArtifactsTidy' /\ RunsTidy' /\ cleaner'.at = "deleting"
  <2>1. PICK was : Removes([kind |-> "log", id |-> z], was) BY <1>11 DEF LogDeleted
  <2>2. /\ caches' = caches /\ artifacts' = artifacts /\ ~runs'[z].logs /\ runs'[z].there = runs[z].there
        /\ runs'[z].completed = runs[z].completed
        /\ \A y \in DOMAIN runs : y # z => runs'[y] = runs[y]
    <3>1. runs[z] \in StoredRun BY DEF CleanupTyped, Numbered
    <3>2. /\ ~[runs[z] EXCEPT !.logs = FALSE].logs /\ [runs[z] EXCEPT !.logs = FALSE].there = runs[z].there
          /\ [runs[z] EXCEPT !.logs = FALSE].completed = runs[z].completed
      BY <3>1 DEF StoredRun
    <3> QED BY <1>11, <3>2 DEF LogDeleted, LogRemoved
  <2>3. /\ \A x : Doomed("cache", x)' <=> Doomed("cache", x)
        /\ \A x : Doomed("artifact", x)' <=> Doomed("artifact", x)
        /\ \A x : Doomed("run", x)' <=> Doomed("run", x)
        /\ \A x : Doomed("log", x)' <=> Doomed("log", x) /\ x # z
        /\ CachesTidy /\ ArtifactsTidy /\ RunsTidy /\ cleaner'.at = "deleting" /\ allOld' = allOld
    BY <1>5, <2>1
  <2>4. CachesTidy' /\ ArtifactsTidy' BY <1>6, <1>7, <2>2, <2>3
  <2>5. z \in CompletedRuns' => z \in CompletedRuns BY <2>2 DEF CompletedRuns, Existing
  <2>6. RunsTidy' BY <1>8, <2>2, <2>3, <2>5
  <2> QED BY <2>3, <2>4, <2>6
<1>12. ASSUME NEW z \in DOMAIN runs, RunDeleted(z)
       PROVE CachesTidy' /\ ArtifactsTidy' /\ RunsTidy' /\ cleaner'.at = "deleting"
  <2>1. Removes([kind |-> "run", id |-> z], runs[z]) BY <1>12 DEF RunDeleted
  <2>2. /\ caches' = caches /\ artifacts' = artifacts /\ ~runs'[z].there
        /\ \A y \in DOMAIN runs : y # z => runs'[y] = runs[y]
    <3>1. runs[z] \in StoredRun BY DEF CleanupTyped, Numbered
    <3>2. ~[runs[z] EXCEPT !.there = FALSE].there BY <3>1 DEF StoredRun
    <3> QED BY <1>12, <3>2 DEF RunDeleted, RunRemoved
  <2>3. /\ \A x : Doomed("cache", x)' <=> Doomed("cache", x)
        /\ \A x : Doomed("artifact", x)' <=> Doomed("artifact", x)
        /\ \A x : Doomed("run", x)' <=> Doomed("run", x) /\ x # z
        /\ \A x : Doomed("log", x)' <=> Doomed("log", x)
        /\ CachesTidy /\ ArtifactsTidy /\ RunsTidy /\ cleaner'.at = "deleting" /\ allOld' = allOld
    BY <1>5, <2>1
  <2>4. CachesTidy' /\ ArtifactsTidy' BY <1>6, <1>7, <2>2, <2>3
  <2>5. z \notin CompletedRuns' BY <2>2 DEF CompletedRuns, Existing
  <2>6. RunsTidy' BY <1>8, <2>2, <2>3, <2>5
  <2> QED BY <2>3, <2>4, <2>6
<1>13. CASE JobMoves BY <1>1, <1>13 DEF JobMoves
<1> QED BY <1>2, <1>3, <1>4, <1>9, <1>10, <1>11, <1>12, <1>13 DEF CleanupMoves

(* All of it together.                                                        *)
LEMMA CleanupStarts == CleanupInit => CleanupInv
<1> HAVE CleanupInit
<1>1. PICK w \in CleanupWorlds :
        caches = w.caches /\ artifacts = w.artifacts /\ runs = w.runs /\ allOld = w.all /\ clock = w.clock
  BY DEF CleanupInit
<1>2. /\ w.clock \in Nat /\ w.all \in BOOLEAN /\ CachesAt(w.caches, w.clock)
      /\ Numbered(w.artifacts, StoredArtifact) /\ Numbered(w.runs, StoredRun)
  BY CleanupAssumption
<1>3. cleaner = NoCleanup /\ removed = {} /\ touched = FALSE /\ doubled = FALSE /\ evicted = FALSE BY DEF CleanupInit
<1>4. /\ cleaner.at = "idle" /\ cleaner.page = 1 /\ cleaner.day = 0 /\ cleaner.caches = {} /\ cleaner.artifacts = {}
      /\ cleaner.runs = {} /\ cleaner.todo = {}
  BY <1>3 DEF NoCleanup
<1>5. cleaner \in Cleaners BY <1>3 DEF Cleaners, CleanerSteps, NoCleanup
<1>6. /\ CachesAt(caches, clock) /\ Numbered(artifacts, StoredArtifact) /\ Numbered(runs, StoredRun) /\ clock \in Nat
      /\ {allOld, touched, doubled, evicted} \subseteq BOOLEAN
  BY <1>1, <1>2, <1>3
<1>7. CleanupTyped BY <1>4, <1>5, <1>6 DEF CleanupTyped, Cleaners, CleanerSteps
<1>8. EntriesStand /\ PlanIsOld /\ PlanKeepsWarm
  BY <1>4 DEF EntriesStand, PlanIsOld, PlanKeepsWarm, ListsNow, Doomed
<1>9. LogsOfStandingRuns /\ WarmCacheStays /\ OnlyOldGoes BY <1>3 DEF LogsOfStandingRuns, WarmCacheStays, OnlyOldGoes
<1>10. QuietCaches /\ QuietArtifacts /\ QuietRuns /\ QuietPlan
  BY <1>4 DEF QuietCaches, QuietArtifacts, QuietRuns, QuietPlan, ListsNow
<1> QED BY <1>7, <1>8, <1>9, <1>10 DEF CleanupInv

LEMMA CleanupStands ==
  ASSUME CleanupInv, UNCHANGED cleanupVars
  PROVE  CleanupInv'
<1>1. /\ caches' = caches /\ artifacts' = artifacts /\ runs' = runs /\ allOld' = allOld /\ cleaner' = cleaner
      /\ clock' = clock /\ removed' = removed /\ touched' = touched /\ doubled' = doubled /\ evicted' = evicted
  BY DEF cleanupVars
<1>2. /\ \A kind, x : Doomed(kind, x)' <=> Doomed(kind, x)
      /\ \A x : (OldRun(x)' <=> OldRun(x)) /\ (OldLog(x)' <=> OldLog(x)) /\ (Due(x)' <=> Due(x))
      /\ \A x, p : Warm(x, p)' <=> Warm(x, p)
      /\ ListsNow' <=> ListsNow
  BY <1>1 DEF Doomed, OldRun, OldLog, Due, Warm, ListsNow
<1>3. /\ Existing(caches)' = Existing(caches) /\ Existing(artifacts)' = Existing(artifacts)
      /\ Existing(runs)' = Existing(runs)
  BY <1>1 DEF Existing
<1>4. CompletedRuns' = CompletedRuns BY <1>1, <1>3 DEF CompletedRuns
<1>5. \A d : Shard(d)' = Shard(d) BY <1>1, <1>4 DEF Shard
<1>6. /\ \A x : CachePagesBefore(x)' = CachePagesBefore(x) /\ ArtifactPagesBefore(x)' = ArtifactPagesBefore(x)
      /\ \A d, x : RunPagesBefore(d, x)' = RunPagesBefore(d, x)
  BY <1>1, <1>3, <1>5 DEF CachePagesBefore, ArtifactPagesBefore, RunPagesBefore
<1>7. CleanupTyped'
  <2>1. CleanupTyped BY DEF CleanupInv
  <2>2. CacheEntry' = CacheEntry /\ Plannable' = Plannable BY <1>1 DEF CacheEntry, Plannable, Objects
  <2>3. CachesAt(caches, clock)' /\ Numbered(artifacts, StoredArtifact)' /\ Numbered(runs, StoredRun)'
    BY <1>1, <2>1 DEF CleanupTyped, CachesAt, Numbered
  <2> QED BY <1>1, <1>2, <2>1, <2>2, <2>3 DEF CleanupTyped
<1>8. EntriesStand' BY <1>1, <1>2 DEF CleanupInv, EntriesStand
<1>9. PlanIsOld' BY <1>1, <1>2 DEF CleanupInv, PlanIsOld
<1>10. PlanKeepsWarm' BY <1>1, <1>2, <1>3 DEF CleanupInv, PlanKeepsWarm
<1>11. LogsOfStandingRuns' BY <1>1, <1>2 DEF CleanupInv, LogsOfStandingRuns
<1>12. QuietCaches' BY <1>1, <1>2, <1>3, <1>6 DEF CleanupInv, QuietCaches
<1>13. QuietArtifacts' BY <1>1, <1>2, <1>3, <1>6 DEF CleanupInv, QuietArtifacts
<1>14. QuietRuns' BY <1>1, <1>2, <1>4, <1>5, <1>6 DEF CleanupInv, QuietRuns
<1>15. QuietPlan' BY <1>1, <1>2, <1>3, <1>4 DEF CleanupInv, QuietPlan
<1>16. WarmCacheStays' /\ OnlyOldGoes' BY <1>1, <1>3 DEF CleanupInv, WarmCacheStays, OnlyOldGoes
<1> QED BY <1>7, <1>8, <1>9, <1>10, <1>11, <1>12, <1>13, <1>14, <1>15, <1>16 DEF CleanupInv

LEMMA CleanupKept == CleanupInv /\ [CleanupNext]_cleanupVars => CleanupInv'
<1> SUFFICES ASSUME CleanupInv, [CleanupNext]_cleanupVars PROVE CleanupInv' OBVIOUS
<1>1. CASE UNCHANGED cleanupVars BY <1>1, CleanupStands
<1>2. CASE CleanupNext
  <2>1. /\ CleanupTyped /\ EntriesStand /\ PlanIsOld /\ PlanKeepsWarm /\ LogsOfStandingRuns
        /\ QuietCaches /\ QuietArtifacts /\ QuietRuns /\ QuietPlan /\ WarmCacheStays /\ OnlyOldGoes
    BY DEF CleanupInv
  <2>2. StoreMoves /\ CleanupMoves BY <1>2, <2>1, EveryMove
  <2>3. CleanupTyped' BY <1>2, <2>1, CleanupTypesKept
  <2>4. EntriesStand' BY <2>1, <2>2, EntriesKept
  <2>5. PlanIsOld' BY <2>1, <2>2, PlanStaysOld
  <2>6. PlanKeepsWarm' BY <2>1, <2>2, WarmthKept
  <2>7. LogsOfStandingRuns' BY <2>1, <2>2, LogsKept
  <2>8. QuietCaches' /\ QuietArtifacts' /\ QuietRuns'
    BY <2>1, <2>2, QuietCachesKept, QuietArtifactsKept, QuietRunsKept
  <2>9. QuietPlan' BY <2>1, <2>2, QuietPlanKept
  <2>10. WarmCacheStays' /\ OnlyOldGoes' BY <2>1, <2>2, WarmCacheKept, OnlyOldGone
  <2> QED BY <2>3, <2>4, <2>5, <2>6, <2>7, <2>8, <2>9, <2>10 DEF CleanupInv
<1> QED BY <1>1, <1>2

LEMMA CleanupInvSafe == CleanupInv => CleanupSafe
<1> HAVE CleanupInv
<1>1. WarmCacheStays /\ OnlyOldGoes BY DEF CleanupInv
<1>2. ChecksStay BY DEF CleanupInv, LogsOfStandingRuns, ChecksStay
<1>3. ASSUME cleaner.at = "done", ~touched
      PROVE  /\ cleaner.todo = {} /\ \A kind, x : ~Doomed(kind, x)
             /\ CachesTidy /\ ArtifactsTidy /\ RunsTidy
  BY <1>3, PlanTidies DEF CleanupInv, Doomed
<1>4. QuietCleanupIsComplete
  <2> SUFFICES ASSUME cleaner.at = "done", ~touched
               PROVE  /\ \A x, y \in Existing(caches) :
                           /\ caches[x].kind # "codeql" /\ (caches[x].kind = "uv" => caches[x].main)
                           /\ caches[x].kind = "gitleaks" /\ caches[y].kind = "gitleaks" => x = y
                           /\ caches[x].kind = "uv" /\ caches[y].kind = "uv" /\ caches[x].platform = caches[y].platform => x = y
                      /\ \A a \in Existing(artifacts) : ~Due(a)
                      /\ \A r \in CompletedRuns : allOld \/ runs[r].age <= Lookback => ~OldRun(r) /\ (OldLog(r) => ~runs[r].logs)
    BY DEF QuietCleanupIsComplete
  <2>1. \A kind, x : ~Doomed(kind, x) BY <1>3
  <2>2. CachesTidy /\ ArtifactsTidy /\ RunsTidy BY <1>3
  <2>3. \A a \in Existing(artifacts) : ~Due(a) BY <2>1, <2>2 DEF ArtifactsTidy
  <2>4. \A r \in CompletedRuns : allOld \/ runs[r].age <= Lookback => ~OldRun(r) /\ (OldLog(r) => ~runs[r].logs)
    BY <2>1, <2>2 DEF RunsTidy
  <2>5. \A x, y \in Existing(caches) :
           /\ caches[x].kind # "codeql" /\ (caches[x].kind = "uv" => caches[x].main)
           /\ caches[x].kind = "gitleaks" /\ caches[y].kind = "gitleaks" => x = y
           /\ caches[x].kind = "uv" /\ caches[y].kind = "uv" /\ caches[x].platform = caches[y].platform => x = y
    BY <2>1, <2>2 DEF CachesTidy
  <2> QED BY <2>3, <2>4, <2>5
<1> QED BY <1>1, <1>2, <1>4 DEF CleanupSafe

(* Whatever jobs do while it lists and removes, however often it fails: the    *)
(* cleanup never takes the last warm cache of a platform, removes only what is *)
(* old, and one that nobody disturbed has removed all of it (main, collect_plan). *)
THEOREM CleanupHolds == CleanupSpec => []CleanupSafe
<1>1. CleanupInit => CleanupInv BY CleanupStarts
<1>2. CleanupInv /\ [CleanupNext]_cleanupVars => CleanupInv' BY CleanupKept
<1>3. CleanupInv => CleanupSafe BY CleanupInvSafe
<1> QED BY <1>1, <1>2, <1>3, PTL DEF CleanupSpec

-----------------------------------------------------------------------------
(* The stable release.                                                        *)
(* The assets and the distributions by their places.                          *)
LEMMA AssetPlaces ==
  /\ Len(Assets) = 4 /\ Assets[1] = "wheel" /\ Assets[2] = "sdist" /\ Assets[3] = "sums" /\ Assets[4] = "receipt"
  /\ \A j \in 1..4 : Assets[j] \in Asset
  /\ \A a \in Asset : \E j \in 1..4 : Assets[j] = a
  /\ \A i, j \in 1..4 : Assets[i] = Assets[j] => i = j
<1>1. Len(Assets) = 4 /\ Assets[1] = "wheel" /\ Assets[2] = "sdist" /\ Assets[3] = "sums" /\ Assets[4] = "receipt"
  BY DEF Assets
<1>2. \A j \in 1..4 : j = 1 \/ j = 2 \/ j = 3 \/ j = 4 OBVIOUS
<1>3. \A j \in 1..4 : Assets[j] \in Asset BY <1>1, <1>2 DEF Asset
<1>4. \A a \in Asset : \E j \in 1..4 : Assets[j] = a BY <1>1 DEF Asset
<1>5. \A i, j \in 1..4 : Assets[i] = Assets[j] => i = j BY <1>1, <1>2
<1> QED BY <1>1, <1>3, <1>4, <1>5

LEMMA DistPlaces == Len(Dists) = 2 /\ Dists[1] = "wheel" /\ Dists[2] = "sdist" BY DEF Dists

(* What a step of a run does to the runs.                                     *)
Turn(n) == dispatch' \in [ReleaseRun -> Dispatch] /\ \A m \in ReleaseRun : m # n => dispatch'[m] = dispatch[m]
SameTask(d, c) ==
  /\ d.build = c.build /\ d.state = c.state /\ d.page = c.page /\ d.found = c.found
  /\ d.release = c.release /\ d.receipt = c.receipt
Walks(n, at, next) == Turn(n) /\ dispatch'[n].at = at /\ dispatch'[n].next = next /\ SameTask(dispatch'[n], dispatch[n])

LEMMA Turns ==
  ASSUME ReleaseTypeOK, NEW n \in ReleaseRun, NEW d \in Dispatch, dispatch' = [dispatch EXCEPT ![n] = d]
  PROVE  Turn(n) /\ dispatch'[n] = d
BY DEF ReleaseTypeOK, Turn

Step == {"authorize", "build"} \cup BuiltSteps
LEMMA RunType ==
  ASSUME ReleaseTypeOK, NEW n \in ReleaseRun
  PROVE  /\ dispatch[n] \in Dispatch /\ dispatch[n].at \in Step /\ dispatch[n].next \in Nat \ {0}
         /\ dispatch[n].page \in Nat /\ dispatch[n].release \in ReleaseNumber \cup {0} /\ dispatch[n].receipt \in Content
         /\ dispatch[n].found \in SUBSET (Nat \X ReleaseNumber) /\ dispatch[n].seen \in [Asset -> Content]
         /\ dispatch[n].build \in Build \cup {"missing"}
         /\ dispatch[n].state \in [Registry -> {"refused", "publish", "already"}]
<1>1. dispatch[n] \in Dispatch BY DEF ReleaseTypeOK
<1> QED BY <1>1 DEF Dispatch, Step

(* A step that changes nothing but where the run is.                          *)
LEMMA Walk ==
  ASSUME ReleaseTypeOK, NEW n \in ReleaseRun, NEW at \in Step, dispatch' = [dispatch EXCEPT ![n] = [dispatch[n] EXCEPT !.at = at]]
  PROVE  Walks(n, at, dispatch[n].next)
<1> DEFINE d == [dispatch[n] EXCEPT !.at = at]
<1>1. d \in Dispatch /\ d.at = at /\ d.next = dispatch[n].next /\ SameTask(d, dispatch[n])
  BY ZenonT(60), RunType DEF Dispatch, Step, SameTask
<1> HIDE DEF d
<1>2. dispatch' = [dispatch EXCEPT ![n] = d] BY DEF d
<1> QED BY <1>1, <1>2, Turns DEF Walks

LEMMA WalkAndCount ==
  ASSUME ReleaseTypeOK, NEW n \in ReleaseRun, NEW at \in Step, NEW x \in Nat \ {0},
         dispatch' = [dispatch EXCEPT ![n] = [dispatch[n] EXCEPT !.at = at, !.next = x]]
  PROVE  Walks(n, at, x)
<1> DEFINE d == [dispatch[n] EXCEPT !.at = at, !.next = x]
<1>1. d \in Dispatch /\ d.at = at /\ d.next = x /\ SameTask(d, dispatch[n])
  BY ZenonT(60), RunType DEF Dispatch, Step, SameTask
<1> HIDE DEF d
<1>2. dispatch' = [dispatch EXCEPT ![n] = d] BY DEF d
<1> QED BY <1>1, <1>2, Turns DEF Walks

(* The run found its release, or made it.                                     *)
Retained(n, k) ==
  /\ Turn(n) /\ dispatch'[n].at = "receipt" /\ dispatch'[n].next = 1 /\ dispatch'[n].release = k
  /\ dispatch'[n].build = dispatch[n].build
LEMMA Retaining ==
  ASSUME ReleaseTypeOK, NEW n \in ReleaseRun, NEW k \in ReleaseNumber, NEW r \in StoredRelease,
         dispatch' = [dispatch EXCEPT ![n] = Retains(n, k, r)]
  PROVE  Retained(n, k)
<1> DEFINE b == r.state = "draft"
           A == r.assets
           at == "receipt"
           F == {}
           one == 1
           zero == 0
           d == [dispatch[n] EXCEPT !.at = at, !.release = k, !.draft = b, !.seen = A, !.page = zero, !.found = F, !.next = one]
<1>0. /\ A \in [Asset -> Content] /\ b \in BOOLEAN /\ F \in SUBSET (Nat \X ReleaseNumber) /\ zero \in Nat /\ one \in Nat \ {0}
      /\ at \in {"authorize", "build"} \cup BuiltSteps
  BY DEF StoredRelease, BuiltSteps, PypiSteps, TagSteps, ReleaseSteps
<1>3. d = Retains(n, k, r) BY DEF Retains
<1> HIDE DEF b, A, at, F, one, zero
<1>1. d \in Dispatch /\ d.at = at /\ d.next = one /\ d.release = k /\ d.build = dispatch[n].build
  BY ZenonT(60), <1>0, RunType DEF Dispatch
<1> HIDE DEF d
<1>2. dispatch' = [dispatch EXCEPT ![n] = d] BY <1>3
<1> QED BY <1>1, <1>2, Turns DEF Retained, at, one

(* What any step does to what others see: a published file stays what it is,  *)
(* and so do the tag and a locked release; a release of ours stays ours.      *)
SiteTyped ==
  /\ world \in World /\ index \in [Registry -> [Dist \cup {"extra"} -> Content]]
  /\ gitTag \in {"none", "annotated", "plain", "other"}
  /\ releases \in [ReleaseNumber -> StoredRelease] /\ issue \in [TrackedIssue -> StoredIssue]
  /\ closed \subseteq TrackedIssue
SiteMoves ==
  /\ SiteTyped' /\ world'.request = world.request
  /\ \A r \in Registry, f \in Dist \cup {"extra"} : index[r][f] # NoContent => index'[r][f] = index[r][f]
  /\ gitTag = "annotated" => gitTag' = "annotated"
  /\ \A k \in ReleaseNumber : OneOfOurs(k) => OneOfOurs(k)'
  /\ \A k \in ReleaseNumber : Ours(k) /\ releases[k].state = "locked" => releases'[k] = releases[k]
  /\ (swapped => swapped') /\ (handled => handled') /\ (pageMoved => pageMoved')
SiteSame ==
  /\ world' \in World /\ world'.request = world.request
  /\ UNCHANGED <<index, gitTag, releases, issue, handled, swapped, pageMoved, closed>>
SiteInv ==
  /\ RegistriesInOrder /\ OneRelease /\ OnePublic /\ OneReceipt /\ ClosedIsDelivered /\ PublicIsWhole
  /\ OnlyAuthorized

(* The invariant in the parts that the steps treat alike.                      *)
LEMMA InvParts ==
  ReleaseInv <=> /\ SiteTyped /\ dispatch \in [ReleaseRun -> Dispatch] /\ worker \in ReleaseRun \cup {0}
                 /\ \A n \in ReleaseRun : JobInOrder(n) /\ (worker = n => WorkInOrder(n))
                 /\ SiteInv /\ (Authorized \/ \A n \in ReleaseRun : dispatch[n].at = "authorize")
BY DEF ReleaseInv, ReleaseTypeOK, SiteTyped, SiteInv, NothingUnauthorized

LEMMA VerifiedStays ==
  ASSUME SiteMoves, NEW r \in Registry, NEW b, Verified(r, b)
  PROVE  Verified(r, b)'
<1>1. \A f \in Dist : index[r][f].by # 0 /\ index[r][f].build = b BY DEF Verified, ReviewedDigests, FromThisWorkflow
<1>2. \A f \in Dist : index[r][f] # NoContent BY <1>1 DEF NoContent
<1>3. \A f \in Dist : index'[r][f] = index[r][f] BY <1>2 DEF SiteMoves
<1> QED BY <1>1, <1>3 DEF Verified, ReviewedDigests, FromThisWorkflow

LEMMA AuthorityStays == world'.request = world.request => (Authorized' <=> Authorized)
BY DEF Authorized

LEMMA JobStays ==
  ASSUME SiteMoves, NEW m \in ReleaseRun, JobInOrder(m),
         dispatch'[m].at = dispatch[m].at, dispatch'[m].build = dispatch[m].build
  PROVE  JobInOrder(m)'
<1>1. "testpypi" \in Registry /\ "pypi" \in Registry BY DEF Registry
<1>2. /\ Verified("testpypi", dispatch[m].build) => Verified("testpypi", dispatch[m].build)'
      /\ Verified("pypi", dispatch[m].build) => Verified("pypi", dispatch[m].build)'
  <2> DEFINE b == dispatch[m].build
  <2>1. PICK c : c = b OBVIOUS
  <2>2. /\ Verified("testpypi", c) => Verified("testpypi", c)'
        /\ Verified("pypi", c) => Verified("pypi", c)'
    BY <1>1, VerifiedStays
  <2> QED BY <2>1, <2>2 DEF Verified, ReviewedDigests, FromThisWorkflow
<1> QED BY <1>2 DEF JobInOrder, SiteMoves

LEMMA SiteStays ==
  ASSUME SiteTyped, SiteInv, SiteSame
  PROVE  SiteMoves /\ SiteInv'
<1>1. /\ index' = index /\ gitTag' = gitTag /\ releases' = releases /\ issue' = issue /\ closed' = closed
      /\ handled' = handled /\ swapped' = swapped /\ pageMoved' = pageMoved
      /\ world' \in World /\ world'.request = world.request
  BY DEF SiteSame
<1>2. /\ \A k \in ReleaseNumber : (Ours(k)' <=> Ours(k)) /\ (OneOfOurs(k)' <=> OneOfOurs(k)) /\ (TagFree(k)' <=> TagFree(k))
      /\ \A k, b : Delivered(k, b)' <=> Delivered(k, b)
  BY <1>1 DEF Ours, OnShelf, OneOfOurs, TagFree, Delivered, Verified, ReviewedDigests,
     FromThisWorkflow
<1>3. SiteMoves BY <1>1, <1>2 DEF SiteMoves, SiteTyped
<1>4. RegistriesInOrder' BY <1>1 DEF SiteInv, RegistriesInOrder, Verified, ReviewedDigests, FromThisWorkflow
<1>5. OneRelease' /\ OnePublic' /\ OneReceipt' BY <1>1, <1>2 DEF SiteInv, OneRelease, OnePublic, OneReceipt
<1>6. ClosedIsDelivered' BY <1>1, <1>2 DEF SiteInv, ClosedIsDelivered
<1>7. PublicIsWhole' BY <1>1, <1>2 DEF SiteInv, PublicIsWhole
<1>8. OnlyAuthorized' BY <1>1, AuthorityStays DEF SiteInv, OnlyAuthorized
<1> QED BY <1>3, <1>4, <1>5, <1>6, <1>7, <1>8 DEF SiteInv

(* What is left to show of a step of a run.                                   *)
LEMMA TurnKeeps ==
  ASSUME ReleaseInv, NEW n \in ReleaseRun, worker = n, Turn(n), SiteMoves, worker' \in {n, 0}, Authorized,
         JobInOrder(n)', worker' = n => WorkInOrder(n)', SiteInv'
  PROVE  ReleaseInv'
<1>1. n # 0 BY ReleaseAssumption
<1>2. /\ SiteTyped' /\ dispatch' \in [ReleaseRun -> Dispatch] /\ worker' \in ReleaseRun \cup {0} /\ Authorized'
  BY AuthorityStays DEF SiteMoves, Turn
<1>3. ASSUME NEW m \in ReleaseRun, m # n PROVE JobInOrder(m)' /\ worker' # m
  <2>1. JobInOrder(m) /\ dispatch'[m] = dispatch[m] BY <1>3, InvParts DEF Turn
  <2>2. worker' # m
    <3>1. m # 0 BY ReleaseAssumption
    <3> QED BY <1>3, <3>1
  <2> QED BY <2>1, <2>2, JobStays
<1>4. \A m \in ReleaseRun : JobInOrder(m)' /\ (worker' = m => WorkInOrder(m)') BY <1>3
<1> QED BY <1>2, <1>4 DEF ReleaseInv, ReleaseTypeOK, SiteTyped, SiteInv, NothingUnauthorized

(* A step that changes where the run is and nothing else.                     *)
LEMMA QuietTurnKeeps ==
  ASSUME ReleaseInv, NEW n \in ReleaseRun, worker = n, worker' = n, Turn(n), UNCHANGED siteVars, Authorized,
         SiteSame => JobInOrder(n)' /\ WorkInOrder(n)'
  PROVE  ReleaseInv'
<1>1. SiteTyped /\ SiteInv BY InvParts
<1>2. SiteSame BY <1>1 DEF SiteTyped, SiteSame, siteVars
<1>3. SiteMoves /\ SiteInv' BY <1>1, <1>2, SiteStays
<1> QED BY <1>2, <1>3, TurnKeeps

LEMMA Working ==
  ASSUME ReleaseInv, NEW n \in ReleaseRun, worker = n
  PROVE  /\ ReleaseTypeOK /\ JobInOrder(n) /\ WorkInOrder(n) /\ SiteTyped /\ SiteInv
         /\ dispatch[n].at # "authorize" => Authorized
BY InvParts DEF ReleaseInv, NothingUnauthorized

(* The jobs before the last one.                                              *)
EarlySteps == {"authorize", "build", "testpypi-state", "pypi-state", "testpypi", "testpypi-check", "pypi", "pypi-check", "tag"}
LEMMA EarlyWork ==
  ASSUME NEW n \in ReleaseRun, dispatch'[n].at \in EarlySteps \cup {"discover", "done"}, UploadInOrder(n)'
  PROVE  WorkInOrder(n)'
<1>1. /\ dispatch'[n].at \notin {"list", "create"} /\ dispatch'[n].at \notin ReleaseSteps
      /\ dispatch'[n].at \notin {"issue", "comment", "recheck", "close", "confirm"}
      /\ dispatch'[n].at \notin {"receipt", "asset", "send", "publish", "patch", "readback", "await"}
  BY DEF EarlySteps, ReleaseSteps
<1>2. ListInOrder(n)' BY <1>1 DEF ListInOrder
<1>3. FilledInOrder(n)' BY <1>1 DEF FilledInOrder
<1>4. ToldInOrder(n)' BY <1>1 DEF ToldInOrder
<1> QED BY <1>2, <1>3, <1>4 DEF WorkInOrder

(* One lemma for each step of a run: the jobs that publish.                    *)
LEMMA AuthorizeKeeps ==
  ASSUME ReleaseInv, NEW n \in ReleaseRun, Authorize(n)
  PROVE  ReleaseInv'
<1>1. /\ worker = n /\ worker' = n /\ dispatch[n].at = "authorize" /\ Authorized /\ UNCHANGED siteVars
      /\ dispatch' = [dispatch EXCEPT ![n] = [dispatch[n] EXCEPT !.at = "build"]]
  BY DEF Authorize, Now, Continues, Becomes
<1>2. ReleaseTypeOK /\ WorkInOrder(n) BY <1>1, Working
<1>3. "build" \in Step /\ "build" \in EarlySteps /\ "build" \notin BuiltSteps
  BY DEF Step, EarlySteps, BuiltSteps, PypiSteps, TagSteps, ReleaseSteps
<1>4. Walks(n, "build", dispatch[n].next) BY <1>1, <1>2, <1>3, Walk
<1>5. dispatch[n].next = 1 BY <1>1, <1>2 DEF WorkInOrder, UploadInOrder
<1>6. JobInOrder(n)' BY <1>3, <1>4 DEF Walks, JobInOrder, BuiltSteps, PypiSteps
<1>7. UploadInOrder(n)' BY <1>4, <1>5 DEF Walks, UploadInOrder, Registry
<1> QED BY <1>1, <1>3, <1>4, <1>6, <1>7, EarlyWork, QuietTurnKeeps DEF Walks

LEMMA BuildKeeps ==
  ASSUME ReleaseInv, NEW n \in ReleaseRun, BuildIt(n)
  PROVE  ReleaseInv'
<1>1. PICK b \in Build : /\ worker = n /\ worker' = n /\ dispatch[n].at = "build" /\ UNCHANGED siteVars
                         /\ dispatch' = [dispatch EXCEPT ![n] = [dispatch[n] EXCEPT !.at = "testpypi-state", !.build = b]]
  BY DEF BuildIt, Now, Continues, Becomes
<1>2. ReleaseTypeOK /\ WorkInOrder(n) /\ Authorized BY <1>1, Working
<1> DEFINE at == "testpypi-state"
           d == [dispatch[n] EXCEPT !.at = at, !.build = b]
<1>3. at \in {"authorize", "build"} \cup BuiltSteps BY DEF BuiltSteps
<1>4. at \in EarlySteps /\ at \in BuiltSteps /\ at \notin PypiSteps /\ at # "testpypi" /\ at # "pypi"
  BY DEF EarlySteps, BuiltSteps, PypiSteps, TagSteps, ReleaseSteps
<1>5. dispatch[n].next = 1 BY <1>1, <1>2 DEF WorkInOrder, UploadInOrder
<1>10. dispatch' = [dispatch EXCEPT ![n] = d] BY <1>1
<1> HIDE DEF at
<1>6. d \in Dispatch /\ d.at = at /\ d.next = 1 /\ d.build = b BY ZenonT(60), <1>2, <1>3, <1>5, RunType DEF Dispatch
<1> HIDE DEF d
<1>7. Turn(n) /\ dispatch'[n] = d BY <1>2, <1>6, <1>10, Turns
<1>8. JobInOrder(n)' BY <1>4, <1>6, <1>7 DEF JobInOrder, PypiSteps
<1>9. UploadInOrder(n)' BY <1>4, <1>6, <1>7 DEF UploadInOrder, Registry
<1> QED BY <1>1, <1>2, <1>4, <1>6, <1>7, <1>8, <1>9, EarlyWork, QuietTurnKeeps

LEMMA ClassifyKeeps ==
  ASSUME ReleaseInv, NEW n \in ReleaseRun, NEW r \in Registry, NEW at, NEW after, Classify(n, r, at, after),
         \/ at = "testpypi-state" /\ after = "pypi-state"
         \/ at = "pypi-state" /\ after = "testpypi"
  PROVE  ReleaseInv'
<1>1. PICK s \in {"publish", "already"} :
        /\ worker = n /\ worker' = n /\ dispatch[n].at = at /\ UNCHANGED siteVars
        /\ dispatch' = [dispatch EXCEPT ![n] = [dispatch[n] EXCEPT !.at = after, !.state[r] = s, !.kept = r = "pypi"]]
  BY DEF Classify, Now, Continues, Becomes
<1>2. at # "authorize" /\ at \in BuiltSteps BY DEF BuiltSteps
<1>3. ReleaseTypeOK /\ WorkInOrder(n) /\ JobInOrder(n) /\ Authorized BY <1>1, <1>2, Working
<1>4. /\ after \in {"authorize", "build"} \cup BuiltSteps /\ after \in EarlySteps /\ after \in BuiltSteps
      /\ after \notin PypiSteps
  BY DEF EarlySteps, BuiltSteps, PypiSteps, TagSteps, ReleaseSteps
<1>5. dispatch[n].next = 1 /\ dispatch[n].build \in Build
  BY <1>1, <1>2, <1>3 DEF WorkInOrder, UploadInOrder, JobInOrder
<1> DEFINE k == r = "pypi"
           st == [dispatch[n].state EXCEPT ![r] = s]
           d == [dispatch[n] EXCEPT !.at = after, !.state = st, !.kept = k]
<1>11. st \in [Registry -> {"refused", "publish", "already"}] BY <1>3, RunType
<1>10. dispatch' = [dispatch EXCEPT ![n] = d] /\ k \in BOOLEAN BY <1>1
<1> HIDE DEF k, st
<1>12. dispatch[n] \in Dispatch /\ k \in BOOLEAN BY <1>3, <1>10, RunType
<1>13. after \in {"authorize", "build"} \cup BuiltSteps BY <1>4
<1>6. d \in Dispatch /\ d.at = after /\ d.next = 1 /\ d.build = dispatch[n].build
  BY <1>5, <1>11, <1>12, <1>13 DEF Dispatch
<1> HIDE DEF d
<1>7. Turn(n) /\ dispatch'[n] = d BY <1>3, <1>6, <1>10, Turns
<1>8. JobInOrder(n)' BY <1>4, <1>5, <1>6, <1>7 DEF JobInOrder, PypiSteps
<1>9. UploadInOrder(n)' BY <1>6, <1>7 DEF UploadInOrder
<1> QED BY <1>1, <1>3, <1>4, <1>6, <1>7, <1>8, <1>9, EarlyWork, QuietTurnKeeps

LEMMA SkipKeeps ==
  ASSUME ReleaseInv, NEW n \in ReleaseRun, NEW r, NEW after, SkipPublication(n, r, after),
         \/ r = "testpypi" /\ after = "testpypi-check"
         \/ r = "pypi" /\ after = "pypi-check"
  PROVE  ReleaseInv'
<1>1. /\ worker = n /\ worker' = n /\ dispatch[n].at = r /\ UNCHANGED siteVars
      /\ dispatch' = [dispatch EXCEPT ![n] = [dispatch[n] EXCEPT !.at = after]]
      /\ dispatch[n].state[r] = "already" \/ (r = "pypi" /\ dispatch[n].state["testpypi"] = "already")
  BY DEF SkipPublication, Now, Continues, Becomes
<1>2. r # "authorize" /\ r \in BuiltSteps /\ r \in Registry BY DEF BuiltSteps, PypiSteps, Registry
<1>3. ReleaseTypeOK /\ WorkInOrder(n) /\ JobInOrder(n) /\ Authorized BY <1>1, <1>2, Working
<1>4. /\ after \in Step /\ after \in EarlySteps /\ after \in BuiltSteps /\ after \notin TagSteps
      /\ (after \in PypiSteps => r \in PypiSteps)
  BY DEF Step, EarlySteps, BuiltSteps, PypiSteps, TagSteps, ReleaseSteps
<1>5. Walks(n, after, dispatch[n].next) BY <1>1, <1>3, <1>4, Walk
<1>6. ASSUME SiteSame PROVE JobInOrder(n)'
  <2>1. SiteMoves BY <1>1, <1>6, SiteStays, Working
  <2>2. after \in PypiSteps => Verified("testpypi", dispatch[n].build)'
    BY <1>1, <1>3, <1>4, <1>5, <1>6 DEF SiteSame, JobInOrder, Walks, SameTask, Verified,
       ReviewedDigests, FromThisWorkflow
  <2> QED BY <1>1, <1>2, <1>3, <1>4, <1>5, <2>2 DEF JobInOrder, Walks, SameTask
<1>7. UploadInOrder(n)'
  <2>1. after = "testpypi-check" => dispatch[n].next = 1
    BY <1>1, <1>2, <1>3 DEF WorkInOrder, UploadInOrder
  <2> QED BY <1>5, <2>1 DEF UploadInOrder, Walks, Registry
<1> QED BY <1>1, <1>3, <1>4, <1>5, <1>6, <1>7, EarlyWork, QuietTurnKeeps DEF Walks

LEMMA VerifyKeeps ==
  ASSUME ReleaseInv, NEW n \in ReleaseRun, NEW r, NEW at, NEW after, VerifyRegistry(n, r, at, after),
         \/ r = "testpypi" /\ at = "testpypi-check" /\ after = "pypi"
         \/ r = "pypi" /\ at = "pypi-check" /\ after = "tag"
  PROVE  ReleaseInv'
<1>1. /\ worker = n /\ worker' = n /\ dispatch[n].at = at /\ UNCHANGED siteVars
      /\ dispatch' = [dispatch EXCEPT ![n] = [dispatch[n] EXCEPT !.at = after]]
      /\ Verified(r, dispatch[n].build)
  BY DEF VerifyRegistry, Now, Continues, Becomes
<1>2. at # "authorize" /\ at \in BuiltSteps BY DEF BuiltSteps, PypiSteps
<1>3. ReleaseTypeOK /\ WorkInOrder(n) /\ JobInOrder(n) /\ Authorized BY <1>1, <1>2, Working
<1>4. /\ after \in Step /\ after \in EarlySteps /\ after \in PypiSteps
      /\ (after \in TagSteps => r = "pypi" /\ at \in PypiSteps /\ after = "tag") /\ (after \notin TagSteps => r = "testpypi")
  BY DEF Step, EarlySteps, BuiltSteps, PypiSteps, TagSteps, ReleaseSteps
<1>5. Walks(n, after, dispatch[n].next) BY <1>1, <1>3, <1>4, Walk
<1>6. ASSUME SiteSame PROVE JobInOrder(n)'
  <2>1. /\ Verified("testpypi", dispatch[n].build) /\ (after \in TagSteps => Verified("pypi", dispatch[n].build))
        /\ dispatch[n].build \in Build
    BY <1>1, <1>2, <1>3, <1>4 DEF JobInOrder
  <2>2. Verified("testpypi", dispatch[n].build)' /\ (after \in TagSteps => Verified("pypi", dispatch[n].build)')
    BY <1>5, <1>6, <2>1 DEF SiteSame, Walks, SameTask, Verified, ReviewedDigests, FromThisWorkflow
  <2> QED BY <1>4, <1>5, <2>1, <2>2 DEF JobInOrder, Walks, SameTask
<1>7. UploadInOrder(n)'
  <2>1. at = "testpypi-check" => dispatch[n].next = 1 BY <1>1, <1>3 DEF WorkInOrder, UploadInOrder
  <2> QED BY <1>5, <2>1 DEF UploadInOrder, Walks, Registry
<1> QED BY <1>1, <1>3, <1>4, <1>5, <1>6, <1>7, EarlyWork, QuietTurnKeeps DEF Walks

LEMMA BuildVerifiedStays ==
  ASSUME SiteMoves, NEW n \in ReleaseRun, dispatch'[n].build = dispatch[n].build, NEW r \in Registry,
         Verified(r, dispatch[n].build)
  PROVE  Verified(r, dispatch[n].build)'
<1> DEFINE b == dispatch[n].build
<1>1. PICK c : c = b OBVIOUS
<1>2. Verified(r, c) => Verified(r, c)' BY VerifiedStays
<1> QED BY <1>1, <1>2 DEF Verified, ReviewedDigests, FromThisWorkflow

LEMMA DeliveredStays ==
  ASSUME SiteMoves, releases' = releases
  PROVE  \A k, b : Delivered(k, b) => Delivered(k, b)'
<1>1. \A r \in Registry : \A b : Verified(r, b) => Verified(r, b)' BY VerifiedStays
<1> QED BY <1>1 DEF Delivered, SiteMoves

(* Something new is published, or the tag is.                                 *)
LEMMA PublishedStays ==
  ASSUME SiteInv, SiteMoves, UNCHANGED <<releases, issue, handled, swapped, pageMoved, closed>>,
         RegistriesInOrder', OnlyAuthorized'
  PROVE  SiteInv'
<1>1. \A k \in ReleaseNumber : (Ours(k)' <=> Ours(k)) /\ (TagFree(k)' <=> TagFree(k))
  BY DEF Ours, OnShelf, TagFree
<1>2. \A k, b : Delivered(k, b) => Delivered(k, b)' BY DeliveredStays
<1>3. OneRelease' /\ OnePublic' /\ OneReceipt' BY <1>1 DEF SiteInv, OneRelease, OnePublic, OneReceipt
<1>4. ClosedIsDelivered' BY <1>1, <1>2 DEF SiteInv, ClosedIsDelivered
<1>5. PublicIsWhole' BY <1>1, <1>2 DEF SiteInv, PublicIsWhole
<1> QED BY <1>3, <1>4, <1>5 DEF SiteInv

(* One file of a registry is new.                                             *)
Uploaded(r, d, x) ==
  /\ index'[r][d] = x
  /\ \A s \in Registry, f \in Dist \cup {"extra"} : s # r \/ f # d => index'[s][f] = index[s][f]
LEMMA Uploading ==
  ASSUME SiteTyped, NEW r \in Registry, NEW d \in Dist \cup {"extra"}, NEW x \in Content, index[r][d] = NoContent,
         index' = [index EXCEPT ![r][d] = x], gitTag' = gitTag, releases' = releases, issue' = issue, closed' \subseteq TrackedIssue,
         world' \in World, world'.request = world.request, UNCHANGED <<handled, swapped, pageMoved>>
  PROVE  SiteMoves /\ Uploaded(r, d, x)
<1>1. index' \in [Registry -> [Dist \cup {"extra"} -> Content]] BY DEF SiteTyped
<1>2. Uploaded(r, d, x) BY DEF SiteTyped, Uploaded
<1>3. \A s \in Registry, f \in Dist \cup {"extra"} : index[s][f] # NoContent => index'[s][f] = index[s][f]
  BY <1>2 DEF Uploaded
<1>4. \A k \in ReleaseNumber : OneOfOurs(k) => OneOfOurs(k)' BY DEF OneOfOurs
<1> QED BY <1>1, <1>2, <1>3, <1>4 DEF SiteMoves, SiteTyped

LEMMA UploadKeeps ==
  ASSUME ReleaseInv, NEW n \in ReleaseRun, NEW r, NEW after, UploadDist(n, r, after),
         \/ r = "testpypi" /\ after = "testpypi-check"
         \/ r = "pypi" /\ after = "pypi-check"
  PROVE  ReleaseInv'
<1> DEFINE next == dispatch[n].next
           d == Dists[next]
           x == [build |-> dispatch[n].build, by |-> n]
           last == next = 2
           at == IF last THEN after ELSE r
           y == IF last THEN 1 ELSE next + 1
<1>1. /\ worker = n /\ worker' = n /\ dispatch[n].at = r /\ dispatch[n].state[r] = "publish" /\ index[r][d] = NoContent
      /\ index' = [index EXCEPT ![r][d] = x]
      /\ world' = world /\ gitTag' = gitTag /\ releases' = releases /\ issue' = issue /\ closed' = closed
      /\ UNCHANGED <<handled, swapped, pageMoved>>
  BY DistPlaces DEF UploadDist, Now, Becomes, ghosts
<1>2. dispatch' = [dispatch EXCEPT ![n] = [dispatch[n] EXCEPT !.at = at, !.next = y]]
  BY <1>1, DistPlaces DEF UploadDist, Now, Becomes
<1>3. r # "authorize" /\ r \in BuiltSteps /\ r \in Registry BY DEF BuiltSteps, PypiSteps, Registry
<1>4. ReleaseTypeOK /\ WorkInOrder(n) /\ JobInOrder(n) /\ Authorized /\ SiteTyped /\ SiteInv BY <1>1, <1>3, Working
<1>5. /\ next = 1 \/ (next = 2 /\ index[r]["wheel"] = x)
      /\ dispatch[n].build \in Build
  BY <1>1, <1>3, <1>4 DEF WorkInOrder, UploadInOrder, JobInOrder
<1>6. d \in Dist /\ (next = 1 => d = "wheel") /\ (next = 2 => d = "sdist") BY <1>5, DistPlaces DEF Dist
<1>7. x \in Content /\ x.by # 0 /\ x.by = n /\ x.build = dispatch[n].build BY <1>5, ReleaseAssumption DEF Content
<1>8. /\ at \in Step /\ at \in EarlySteps /\ at \in BuiltSteps /\ at \notin TagSteps
      /\ (at \in PypiSteps => r \in PypiSteps) /\ (r = "pypi" => r \in PypiSteps) /\ (at \in Registry => at = r /\ y = 2)
      /\ (at \in {"authorize", "build", "testpypi-state", "pypi-state", "testpypi-check"} => y = 1)
  BY <1>5 DEF Step, EarlySteps, BuiltSteps, PypiSteps, TagSteps, ReleaseSteps, Registry
<1>9. y \in Nat \ {0} BY <1>5
<1> HIDE DEF at, y
<1>10. Walks(n, at, y) BY <1>2, <1>4, <1>8, <1>9, WalkAndCount
<1> HIDE DEF d, x
<1>11. SiteMoves /\ Uploaded(r, d, x)
  <2>1. d \in Dist \cup {"extra"} /\ world' \in World /\ world'.request = world.request /\ closed' \subseteq TrackedIssue
    BY <1>1, <1>4, <1>6 DEF SiteTyped
  <2> QED BY <1>1, <1>3, <1>4, <1>7, <2>1, Uploading
<1>12. Verified("testpypi", dispatch[n].build)' \/ r = "testpypi"
  <2>1. r = "pypi" => Verified("testpypi", dispatch[n].build) BY <1>1, <1>4, <1>8 DEF JobInOrder
  <2>2. "testpypi" \in Registry /\ dispatch'[n].build = dispatch[n].build BY <1>10 DEF Registry, Walks, SameTask
  <2> QED BY <1>11, <2>1, <2>2, BuildVerifiedStays
<1>13. RegistriesInOrder'
  <2>1. ASSUME NEW s \in Registry, index'[s]["sdist"].by # 0
        PROVE  index'[s]["wheel"].by # 0 /\ index'[s]["wheel"].build = index'[s]["sdist"].build
    <3>1. CASE s # r BY <1>4, <1>11, <2>1, <3>1 DEF Uploaded, Dist, SiteInv, RegistriesInOrder
    <3>2. CASE s = r /\ next = 1
      <4>1. index'[r]["sdist"] = index[r]["sdist"] /\ index[r]["wheel"].by = 0
        BY <1>1, <1>6, <1>11, <3>2 DEF Uploaded, Dist, NoContent
      <4> QED BY <1>3, <1>4, <2>1, <3>2, <4>1 DEF SiteInv, RegistriesInOrder
    <3>3. CASE s = r /\ next = 2
      BY <1>3, <1>5, <1>6, <1>7, <1>11, <2>1, <3>3 DEF Uploaded, Dist
    <3> QED BY <1>5, <3>1, <3>2, <3>3
  <2>2. ASSUME NEW f \in Dist, index'["pypi"][f].by # 0 PROVE Verified("testpypi", index["pypi"][f].build)'
    <3>1. "pypi" \in Registry /\ "testpypi" \in Registry BY DEF Registry
    <3>2. CASE index'["pypi"][f] = index["pypi"][f]
      <4>1. PICK c : c = index["pypi"][f].build OBVIOUS
      <4>2. Verified("testpypi", c) BY <1>4, <2>2, <3>2, <4>1 DEF SiteInv, RegistriesInOrder
      <4>3. Verified("testpypi", c)' BY <1>11, <3>1, <4>2, VerifiedStays
      <4> QED BY <3>2, <4>1, <4>3 DEF Verified, ReviewedDigests, FromThisWorkflow
    <3>3. CASE r = "pypi" /\ f = d
      <4>1. Verified("testpypi", dispatch[n].build)' BY <1>12, <3>3
      <4>2. index'["pypi"][f].build = dispatch'[n].build BY <1>7, <1>10, <1>11, <3>3 DEF Uploaded, Walks, SameTask
      <4> QED BY <4>1, <4>2 DEF Verified, ReviewedDigests, FromThisWorkflow
    <3> QED BY <1>11, <3>1, <3>2, <3>3 DEF Uploaded
  <2> QED BY <2>1, <2>2 DEF RegistriesInOrder
<1>14. SiteInv'
  <2>1. Authorized' BY <1>1, <1>4, AuthorityStays
  <2>2. OnlyAuthorized' BY <2>1 DEF OnlyAuthorized
  <2> QED BY <1>1, <1>4, <1>11, <1>13, <2>2, PublishedStays
<1>15. JobInOrder(n)'
  <2>1. at \in PypiSteps => r = "pypi" BY <1>8 DEF PypiSteps, TagSteps, ReleaseSteps
  <2> QED BY <1>5, <1>8, <1>10, <1>12, <2>1 DEF JobInOrder, Walks, SameTask
<1>16. UploadInOrder(n)'
  <2>1. ASSUME NEW s \in Registry, dispatch'[n].at = s
        PROVE  dispatch'[n].next = 2 /\ dispatch'[n].state[s] = "publish" /\ index'[s]["wheel"] = [build |-> dispatch'[n].build, by |-> n]
    <3>1. at = r /\ s = r /\ y = 2 /\ ~last BY <1>8, <1>10, <2>1 DEF Walks, at
    <3>2. d = "wheel" BY <1>5, <1>6, <3>1
    <3> QED BY <1>1, <1>10, <1>11, <3>1, <3>2 DEF Walks, SameTask, Uploaded, x
  <2> QED BY <1>8, <1>10, <2>1 DEF UploadInOrder, Walks
<1> QED BY <1>1, <1>4, <1>8, <1>10, <1>11, <1>14, <1>15, <1>16, EarlyWork, TurnKeeps DEF Walks

(* The last job.                                                              *)
LEMMA LateJob ==
  ASSUME SiteMoves, NEW n \in ReleaseRun, JobInOrder(n), dispatch[n].at \in TagSteps, gitTag' = "annotated",
         dispatch'[n].build = dispatch[n].build
  PROVE  JobInOrder(n)'
<1>1. dispatch[n].at \in PypiSteps /\ dispatch[n].at \in BuiltSteps BY DEF PypiSteps, BuiltSteps
<1>2. dispatch[n].build \in Build /\ Verified("testpypi", dispatch[n].build) /\ Verified("pypi", dispatch[n].build)
  BY <1>1 DEF JobInOrder
<1>3. "testpypi" \in Registry /\ "pypi" \in Registry BY DEF Registry
<1>4. Verified("testpypi", dispatch[n].build)' /\ Verified("pypi", dispatch[n].build)'
  BY <1>2, <1>3, BuildVerifiedStays
<1> QED BY <1>2, <1>4 DEF JobInOrder

LEMMA TaggedJob ==
  ASSUME SiteMoves, NEW n \in ReleaseRun, JobInOrder(n), dispatch[n].at \in TagSteps \ {"tag"},
         dispatch'[n].build = dispatch[n].build
  PROVE  JobInOrder(n)'
<1>1. gitTag' = "annotated" BY DEF JobInOrder, SiteMoves
<1> QED BY <1>1, LateJob

LEMMA LateUpload ==
  ASSUME NEW n \in ReleaseRun, dispatch'[n].at \in TagSteps
  PROVE  UploadInOrder(n)'
<1>1. dispatch'[n].at \notin {"authorize", "build", "testpypi-state", "pypi-state", "testpypi-check"}
      /\ dispatch'[n].at \notin Registry
  BY DEF TagSteps, ReleaseSteps, Registry
<1> QED BY <1>1 DEF UploadInOrder

LEMMA PushTagKeeps ==
  ASSUME ReleaseInv, NEW n \in ReleaseRun, PushTag(n)
  PROVE  ReleaseInv'
<1>1. /\ worker = n /\ worker' = n /\ dispatch[n].at = "tag" /\ gitTag' = "annotated"
      /\ dispatch' = [dispatch EXCEPT ![n] = [dispatch[n] EXCEPT !.at = "discover"]]
      /\ world' = world /\ index' = index /\ releases' = releases /\ issue' = issue /\ closed' = closed
      /\ UNCHANGED <<handled, swapped, pageMoved>>
  BY DEF PushTag, Now, Becomes, ghosts
<1>2. ReleaseTypeOK /\ WorkInOrder(n) /\ JobInOrder(n) /\ Authorized /\ SiteTyped /\ SiteInv BY <1>1, Working
<1>3. "discover" \in Step /\ "discover" \in TagSteps /\ "tag" \in TagSteps
  BY DEF Step, BuiltSteps, PypiSteps, TagSteps
<1>4. Walks(n, "discover", dispatch[n].next) BY <1>1, <1>2, <1>3, Walk
<1>5. SiteMoves
  <2>1. \A k \in ReleaseNumber : OneOfOurs(k) => OneOfOurs(k)' BY <1>1 DEF OneOfOurs
  <2> QED BY <1>1, <1>2, <2>1 DEF SiteMoves, SiteTyped
<1>6. SiteInv'
  <2>1. Authorized' BY <1>1, <1>2, AuthorityStays
  <2>2. OnlyAuthorized' BY <2>1 DEF OnlyAuthorized
  <2>3. RegistriesInOrder' BY <1>1, <1>2 DEF SiteInv, RegistriesInOrder, Verified, ReviewedDigests, FromThisWorkflow
  <2> QED BY <1>1, <1>2, <1>5, <2>2, <2>3, PublishedStays
<1>7. JobInOrder(n)' BY <1>1, <1>2, <1>3, <1>4, <1>5, LateJob DEF Walks, SameTask
<1>8. UploadInOrder(n)' BY <1>3, <1>4, LateUpload DEF Walks
<1> QED BY <1>1, <1>2, <1>4, <1>5, <1>6, <1>7, <1>8, EarlyWork, TurnKeeps DEF Walks

(* A step that found or made the release.                                     *)
LEMMA RetainedWork ==
  ASSUME NEW n \in ReleaseRun, NEW k \in ReleaseNumber, Retained(n, k), OneOfOurs(k)'
  PROVE  WorkInOrder(n)'
<1>1. /\ dispatch'[n].at = "receipt" /\ dispatch'[n].next = 1 /\ dispatch'[n].release = k /\ k # 0
  BY ReleaseAssumption DEF Retained
<1>2. UploadInOrder(n)' BY <1>1, LateUpload DEF TagSteps, ReleaseSteps
<1>3. ListInOrder(n)' BY <1>1 DEF ListInOrder
<1>4. FilledInOrder(n)' BY <1>1 DEF FilledInOrder
<1>5. ToldInOrder(n)' BY <1>1 DEF ToldInOrder
<1> QED BY <1>2, <1>3, <1>4, <1>5 DEF WorkInOrder

LEMMA RetainKeeps ==
  ASSUME ReleaseInv, NEW n \in ReleaseRun, NEW k \in ReleaseNumber, Continues(n, Retains(n, k, releases[k])),
         worker = n, dispatch[n].at \in {"discover", "list"}, OneOfOurs(k)
  PROVE  ReleaseInv'
<1>1. worker' = n /\ UNCHANGED siteVars /\ dispatch' = [dispatch EXCEPT ![n] = Retains(n, k, releases[k])]
  BY DEF Continues, Becomes
<1>2. ReleaseTypeOK /\ WorkInOrder(n) /\ JobInOrder(n) /\ Authorized /\ SiteTyped /\ SiteInv BY Working
<1>3. releases[k] \in StoredRelease BY <1>2 DEF SiteTyped
<1>4. Retained(n, k) BY <1>1, <1>2, <1>3, Retaining
<1>5. ASSUME SiteSame PROVE JobInOrder(n)' /\ WorkInOrder(n)'
  <2>1. SiteMoves BY <1>2, <1>5, SiteStays
  <2>2. OneOfOurs(k)' BY <2>1 DEF SiteMoves
  <2>3. dispatch[n].at \in TagSteps \ {"tag"} BY DEF TagSteps
  <2> QED BY <1>2, <1>4, <2>1, <2>2, <2>3, RetainedWork, TaggedJob DEF Retained
<1> QED BY <1>1, <1>2, <1>4, <1>5, QuietTurnKeeps DEF Retained

(* How many pages of the listing are before a release.                        *)
LEMMA PagesType == \A k : PagesAbove(k) \in Nat
<1> TAKE k
<1> DEFINE S == {j \in ReleaseNumber : j > k /\ OnShelf(j)}
<1>1. IsFiniteSet(S) BY ReleaseAssumption, FS_Subset
<1>2. Cardinality(S) \in Nat BY <1>1, FS_CardinalityType
<1> HIDE DEF S
<1>3. ReleasesPerPage \in Nat \ {0} BY ReleaseAssumption
<1>4. Cardinality(S) \div ReleasesPerPage \in Nat BY <1>2, <1>3, Divides
<1> QED BY <1>4 DEF PagesAbove, S

LEMMA DiscoverKeeps ==
  ASSUME ReleaseInv, NEW n \in ReleaseRun, DiscoverRelease(n)
  PROVE  ReleaseInv'
<1>1. worker = n /\ dispatch[n].at = "discover" BY DEF DiscoverRelease, Now
<1>2. ReleaseTypeOK /\ WorkInOrder(n) /\ JobInOrder(n) /\ Authorized /\ SiteTyped /\ SiteInv BY <1>1, Working
<1>3. ASSUME NEW k \in ReleaseNumber, Ours(k), Continues(n, Retains(n, k, releases[k])) PROVE ReleaseInv'
  <2>1. OneOfOurs(k) BY <1>3 DEF Ours, OnShelf, OneOfOurs
  <2> QED BY <1>1, <1>3, <2>1, RetainKeeps
<1>4. ASSUME Continues(n, [dispatch[n] EXCEPT !.at = "list", !.page = 1, !.found = {}]) PROVE ReleaseInv'
  <2> DEFINE at == "list"
             one == 1
             F == {}
             d == [dispatch[n] EXCEPT !.at = at, !.page = one, !.found = F]
  <2>1. worker' = n /\ UNCHANGED siteVars /\ dispatch' = [dispatch EXCEPT ![n] = d]
    BY <1>1, <1>4 DEF Continues, Becomes
  <2>2. at \in {"authorize", "build"} \cup BuiltSteps /\ one \in Nat /\ F \in SUBSET (Nat \X ReleaseNumber)
    BY DEF BuiltSteps, PypiSteps, TagSteps
  <2>3. dispatch[n] \in Dispatch BY <1>2, RunType
  <2> HIDE DEF at, one, F
  <2>4. d \in Dispatch /\ d.at = at /\ d.page = one /\ d.found = F /\ d.build = dispatch[n].build
    BY <2>2, <2>3 DEF Dispatch
  <2> HIDE DEF d
  <2>5. Turn(n) /\ dispatch'[n] = d BY <1>2, <2>1, <2>4, Turns
  <2>6. ASSUME SiteSame PROVE JobInOrder(n)' /\ WorkInOrder(n)'
    <3>1. SiteMoves BY <1>2, <2>6, SiteStays
    <3>2. JobInOrder(n)' BY <1>1, <1>2, <2>4, <2>5, <3>1, TaggedJob DEF TagSteps
    <3>3. UploadInOrder(n)' BY <2>4, <2>5, LateUpload DEF TagSteps, at
    <3>4. ListInOrder(n)'
      <4>1. \A k \in ReleaseNumber : PagesAbove(k)' >= one - 1
        <5>1. \A k \in ReleaseNumber : PagesAbove(k)' = PagesAbove(k) BY <2>6 DEF SiteSame, PagesAbove, OnShelf
        <5> QED BY <5>1, PagesType DEF one
      <4>2. one # 0 /\ \A f \in F : FALSE BY DEF one, F
      <4>3. at # "create" /\ at \notin ReleaseSteps BY DEF at, ReleaseSteps
      <4> QED BY <2>4, <2>5, <4>1, <4>2, <4>3 DEF ListInOrder
    <3>5. FilledInOrder(n)' BY <2>4, <2>5 DEF FilledInOrder, at, ReleaseSteps
    <3>6. ToldInOrder(n)' BY <2>4, <2>5 DEF ToldInOrder, at
    <3> QED BY <3>2, <3>3, <3>4, <3>5, <3>6 DEF WorkInOrder
  <2> QED BY <1>1, <1>2, <2>1, <2>5, <2>6, QuietTurnKeeps
<1> QED BY <1>3, <1>4 DEF DiscoverRelease

(* A release that is not on the pages so far is on this one or on a later one. *)
LEMMA NextPage ==
  ASSUME NEW p \in Nat \ {0}, NEW k \in ReleaseNumber, OnShelf(k), PagesAbove(k) >= p - 1
  PROVE  k \in ListedOn(p) \/ (Cardinality(ListedOn(p)) = ReleasesPerPage /\ PagesAbove(k) >= p)
<1> DEFINE S == {j \in ReleaseNumber : OnShelf(j)}
           key == [j \in S |-> j]
           rank == [x \in S |-> Cardinality({y \in S : key[y] > key[x]})]
<1>1. S \in SUBSET Nat /\ IsFiniteSet(S) /\ k \in S BY ReleaseAssumption, FS_Subset
<1>2. key \in [S -> Nat] /\ \A x, y \in S : key[x] = key[y] => x = y BY <1>1
<1>3. \A x \in S : {y \in S : key[y] > key[x]} = {j \in ReleaseNumber : j > x /\ OnShelf(j)} OBVIOUS
<1>4. rank \in [S -> Nat] /\ (\A x, y \in S : rank[x] = rank[y] => x = y) /\ \A x \in S : rank[x] < Cardinality(S)
  <2> HIDE DEF S, key
  <2> QED BY ZenonT(60), <1>1, <1>2, KeyRanks
<1>5. \A x \in S : rank[x] \div ReleasesPerPage = PagesAbove(x) BY <1>3 DEF PagesAbove
<1>6. ListedOn(p) = {x \in S : rank[x] \div ReleasesPerPage = p - 1} BY <1>3 DEF ListedOn
<1>7. PagesAbove(k) \in Nat /\ ReleasesPerPage \in Nat \ {0} BY PagesType, ReleaseAssumption
<1> HIDE DEF S, key, rank
<1>8. CASE PagesAbove(k) = p - 1 BY <1>1, <1>5, <1>6, <1>8
<1>9. CASE PagesAbove(k) > p - 1
  <2> DEFINE q == p - 1
  <2>1. q \in Nat /\ rank[k] \div ReleasesPerPage > q BY <1>1, <1>5, <1>9
  <2> HIDE DEF q
  <2>2. /\ rank \in [S -> Nat] /\ \A x, y \in S : rank[x] = rank[y] => x = y
        /\ \A x \in S : rank[x] < Cardinality(S)
    BY <1>4
  <2>4. IsFiniteSet(S) /\ k \in S BY <1>1
  <2>5. ReleasesPerPage \in Nat \ {0} BY <1>7
  <2>6. Cardinality({x \in S : rank[x] \div ReleasesPerPage = q}) = ReleasesPerPage
    BY <2>1, <2>2, <2>4, <2>5, FullPage
  <2>3. PagesAbove(k) >= p BY <1>7, <1>9
  <2> QED BY <1>6, <2>3, <2>6 DEF q
<1> QED BY <1>7, <1>8, <1>9

LEMMA ListPageKeeps ==
  ASSUME ReleaseInv, NEW n \in ReleaseRun, ListPage(n)
  PROVE  ReleaseInv'
<1> DEFINE page == dispatch[n].page
           mine == {j \in ListedOn(page) : releases[j].ours}
           shown == {<<page, k>> : k \in mine}
           found == dispatch[n].found \cup shown
<1>1. worker = n /\ dispatch[n].at = "list" BY DEF ListPage, Now
<1>2. ReleaseTypeOK /\ WorkInOrder(n) /\ JobInOrder(n) /\ Authorized /\ SiteTyped /\ SiteInv BY <1>1, Working
<1>3. page \in Nat \ {0} /\ dispatch[n].found \in SUBSET (Nat \X ReleaseNumber) /\ dispatch[n] \in Dispatch
  BY <1>1, <1>2, RunType DEF WorkInOrder, ListInOrder
<1>4. \A f \in dispatch[n].found : OneOfOurs(f[2]) BY <1>1, <1>2 DEF WorkInOrder, ListInOrder
<1>5. \A f \in shown : f \in Nat \X ReleaseNumber /\ OneOfOurs(f[2])
  <2>1. \A k \in mine : k \in ReleaseNumber /\ OneOfOurs(k) BY DEF ListedOn, OnShelf, OneOfOurs
  <2> HIDE DEF mine
  <2> TAKE f \in shown
  <2>2. PICK k \in mine : f = <<page, k>> OBVIOUS
  <2>3. f[2] = k /\ f \in Nat \X ReleaseNumber BY <1>3, <2>1, <2>2
  <2> QED BY <2>1, <2>3
<1>6. found \in SUBSET (Nat \X ReleaseNumber) /\ \A f \in found : OneOfOurs(f[2]) BY <1>3, <1>4, <1>5
<1>7. ASSUME NEW k \in ListedOn(page), releases[k].ours PROVE \E f \in shown : f[2] = k
  <2>1. k \in mine BY <1>7
  <2> HIDE DEF mine
  <2>2. <<page, k>> \in shown /\ <<page, k>>[2] = k BY <2>1
  <2> QED BY <2>2
<1>8. ASSUME NEW k \in ReleaseNumber, Ours(k), ~pageMoved
      PROVE  (\E f \in found : f[2] = k) \/ (Cardinality(ListedOn(page)) = ReleasesPerPage /\ PagesAbove(k) >= page)
  <2>1. (\E f \in dispatch[n].found : f[2] = k) \/ PagesAbove(k) >= page - 1
    BY <1>1, <1>2, <1>8 DEF WorkInOrder, ListInOrder
  <2>2. CASE PagesAbove(k) >= page - 1
    <3>1. OnShelf(k) /\ releases[k].ours BY <1>8 DEF Ours
    <3>2. k \in ListedOn(page) \/ (Cardinality(ListedOn(page)) = ReleasesPerPage /\ PagesAbove(k) >= page)
      BY <1>3, <2>2, <3>1, NextPage
    <3> QED BY <1>7, <3>1, <3>2
  <2> QED BY <2>1, <2>2
<1>9. \/ Continues(n, [dispatch[n] EXCEPT !.page = @ + 1, !.found = found])
      \/ /\ Cardinality(ListedOn(page)) # ReleasesPerPage /\ found = {}
         /\ Continues(n, [dispatch[n] EXCEPT !.at = "create", !.page = 0])
      \/ \E f \in found : Continues(n, Retains(n, f[2], releases[f[2]]))
  BY DEF ListPage
<1> HIDE DEF page, mine, shown, found
<1>10. ASSUME NEW f \in found, Continues(n, Retains(n, f[2], releases[f[2]])) PROVE ReleaseInv'
  <2>1. f[2] \in ReleaseNumber /\ OneOfOurs(f[2]) BY <1>6
  <2> QED BY <1>1, <1>10, <2>1, RetainKeeps
<1>11. ASSUME Continues(n, [dispatch[n] EXCEPT !.page = @ + 1, !.found = found]) PROVE ReleaseInv'
  <2> DEFINE more == page + 1
             d == [dispatch[n] EXCEPT !.page = more, !.found = found]
  <2>1. worker' = n /\ UNCHANGED siteVars /\ dispatch' = [dispatch EXCEPT ![n] = d]
    BY <1>1, <1>11 DEF Continues, Becomes, page
  <2>2. more \in Nat /\ more # 0 /\ more - 1 = page BY <1>3
  <2> HIDE DEF more
  <2>3. d \in Dispatch /\ d.at = dispatch[n].at /\ d.page = more /\ d.found = found /\ d.build = dispatch[n].build
    BY <1>3, <1>6, <2>2 DEF Dispatch
  <2> HIDE DEF d
  <2>4. Turn(n) /\ dispatch'[n] = d BY <1>2, <2>1, <2>3, Turns
  <2>5. ASSUME SiteSame PROVE JobInOrder(n)' /\ WorkInOrder(n)'
    <3>1. SiteMoves BY <1>2, <2>5, SiteStays
    <3>2. JobInOrder(n)' BY <1>1, <1>2, <2>3, <2>4, <3>1, TaggedJob DEF TagSteps
    <3>3. UploadInOrder(n)' BY <1>1, <2>3, <2>4, LateUpload DEF TagSteps
    <3>4. ListInOrder(n)'
      <4>1. /\ \A k \in ReleaseNumber : PagesAbove(k)' = PagesAbove(k) /\ (Ours(k)' <=> Ours(k)) /\ (OneOfOurs(k)' <=> OneOfOurs(k))
            /\ pageMoved' = pageMoved
        BY <2>5 DEF SiteSame, PagesAbove, OnShelf, Ours, OneOfOurs
      <4>2. \A f \in found : OneOfOurs(f[2])' BY <1>6, <4>1
      <4>3. \A k \in ReleaseNumber : Ours(k)' /\ ~pageMoved' => (\E f \in found : f[2] = k) \/ PagesAbove(k)' >= more - 1
        BY <1>8, <2>2, <4>1
      <4>4. dispatch'[n].at = "list" /\ "list" \notin ReleaseSteps BY <1>1, <2>3, <2>4 DEF ReleaseSteps
      <4> QED BY <2>2, <2>3, <2>4, <4>2, <4>3, <4>4 DEF ListInOrder
    <3>5. FilledInOrder(n)' BY <1>1, <2>3, <2>4 DEF FilledInOrder, ReleaseSteps
    <3>6. ToldInOrder(n)' BY <1>1, <2>3, <2>4 DEF ToldInOrder
    <3> QED BY <3>2, <3>3, <3>4, <3>5, <3>6 DEF WorkInOrder
  <2> QED BY <1>1, <1>2, <2>1, <2>4, <2>5, QuietTurnKeeps
<1>12. ASSUME Cardinality(ListedOn(page)) # ReleasesPerPage, found = {},
              Continues(n, [dispatch[n] EXCEPT !.at = "create", !.page = 0])
       PROVE  ReleaseInv'
  <2> DEFINE at == "create"
             zero == 0
             d == [dispatch[n] EXCEPT !.at = at, !.page = zero]
  <2>1. worker' = n /\ UNCHANGED siteVars /\ dispatch' = [dispatch EXCEPT ![n] = d]
    BY <1>1, <1>12 DEF Continues, Becomes
  <2>2. at \in {"authorize", "build"} \cup BuiltSteps /\ zero \in Nat BY DEF BuiltSteps, PypiSteps, TagSteps
  <2> HIDE DEF at, zero
  <2>3. d \in Dispatch /\ d.at = at /\ d.build = dispatch[n].build BY <1>3, <2>2 DEF Dispatch
  <2> HIDE DEF d
  <2>4. Turn(n) /\ dispatch'[n] = d BY <1>2, <2>1, <2>3, Turns
  <2>5. ASSUME SiteSame PROVE JobInOrder(n)' /\ WorkInOrder(n)'
    <3>1. SiteMoves BY <1>2, <2>5, SiteStays
    <3>2. JobInOrder(n)' BY <1>1, <1>2, <2>3, <2>4, <3>1, TaggedJob DEF TagSteps
    <3>3. UploadInOrder(n)' BY <2>3, <2>4, LateUpload DEF TagSteps, at
    <3>4. ListInOrder(n)'
      <4>1. \A k \in ReleaseNumber : (Ours(k)' <=> Ours(k)) /\ (pageMoved' <=> pageMoved)
        BY <2>5 DEF SiteSame, OnShelf, Ours
      <4>2. ~pageMoved' => \A k \in ReleaseNumber : ~Ours(k)' BY <1>8, <1>12, <4>1
      <4>3. at # "list" /\ at \notin ReleaseSteps BY DEF at, ReleaseSteps
      <4> QED BY <2>3, <2>4, <4>2, <4>3 DEF ListInOrder
    <3>5. FilledInOrder(n)' BY <2>3, <2>4 DEF FilledInOrder, at, ReleaseSteps
    <3>6. ToldInOrder(n)' BY <2>3, <2>4 DEF ToldInOrder, at
    <3> QED BY <3>2, <3>3, <3>4, <3>5, <3>6 DEF WorkInOrder
  <2> QED BY <1>1, <1>2, <2>1, <2>4, <2>5, QuietTurnKeeps
<1> QED BY <1>9, <1>10, <1>11, <1>12

(* One release changes.                                                       *)
OneChanged(k, r) == releases'[k] = r /\ \A j \in ReleaseNumber : j # k => releases'[j] = releases[j]
LEMMA OneChanges ==
  ASSUME SiteTyped, NEW k \in ReleaseNumber, NEW r \in StoredRelease, releases' = [releases EXCEPT ![k] = r],
         UNCHANGED <<index, gitTag, issue, closed>>, world' \in World, world'.request = world.request,
         swapped => swapped', handled => handled', pageMoved => pageMoved',
         OneOfOurs(k) => r.ours /\ r.state # "unused", Ours(k) /\ releases[k].state = "locked" => r = releases[k]
  PROVE  /\ SiteMoves /\ OneChanged(k, r)
         /\ \A j \in ReleaseNumber : j # k =>
              (Ours(j)' <=> Ours(j)) /\ (OnShelf(j)' <=> OnShelf(j)) /\ \A b : Delivered(j, b)' <=> Delivered(j, b)
<1>1. releases' \in [ReleaseNumber -> StoredRelease] /\ OneChanged(k, r) BY DEF SiteTyped, OneChanged
<1>2. \A j \in ReleaseNumber : OneOfOurs(j) => OneOfOurs(j)' BY <1>1 DEF OneChanged, OneOfOurs
<1>3. \A j \in ReleaseNumber : Ours(j) /\ releases[j].state = "locked" => releases'[j] = releases[j]
  BY <1>1 DEF OneChanged
<1>4. SiteMoves BY <1>1, <1>2, <1>3 DEF SiteMoves, SiteTyped
<1>5. \A j \in ReleaseNumber : j # k => (Ours(j)' <=> Ours(j)) /\ (OnShelf(j)' <=> OnShelf(j))
  BY <1>1 DEF OneChanged, Ours, OnShelf
<1>6. \A j \in ReleaseNumber : j # k => \A b : Delivered(j, b)' <=> Delivered(j, b)
  BY <1>1 DEF OneChanged, Delivered, Verified, ReviewedDigests, FromThisWorkflow
<1> QED BY <1>1, <1>4, <1>5, <1>6

LEMMA OneChangeKeeps ==
  ASSUME SiteInv, SiteMoves, NEW k \in ReleaseNumber, NEW r, OneChanged(k, r),
         \A j \in ReleaseNumber : j # k =>
           (Ours(j)' <=> Ours(j)) /\ (OnShelf(j)' <=> OnShelf(j)) /\ \A b : Delivered(j, b)' <=> Delivered(j, b),
         UNCHANGED <<index, gitTag, issue, closed>>,
         OneRelease', OnePublic', OnlyAuthorized',
         Ours(k)' /\ r.state # "draft" /\ ~handled' => \E b \in Build : Delivered(k, b)'
  PROVE  SiteInv'
<1>1. RegistriesInOrder' /\ OneReceipt'
  BY DEF SiteInv, RegistriesInOrder, OneReceipt, Verified, ReviewedDigests, FromThisWorkflow
<1>2. PublicIsWhole'
  <2>1. ASSUME NEW j \in ReleaseNumber, Ours(j)', releases'[j].state # "draft", ~handled'
        PROVE  \E b \in Build : Delivered(j, b)'
    <3>1. CASE j = k BY <2>1, <3>1 DEF OneChanged
    <3>2. CASE j # k
      <4>1. Ours(j) /\ releases[j].state # "draft" /\ ~handled BY <2>1, <3>2 DEF OneChanged, SiteMoves
      <4>2. PICK b \in Build : Delivered(j, b) BY <4>1 DEF SiteInv, PublicIsWhole
      <4> QED BY <3>2, <4>2
    <3> QED BY <3>1, <3>2
  <2> QED BY <2>1 DEF PublicIsWhole
<1>3. ClosedIsDelivered'
  <2>1. ASSUME NEW i \in closed, ~swapped'
        PROVE  \E j \in ReleaseNumber, b \in Build :
                 /\ Ours(j)' /\ releases'[j].state = "locked" /\ Delivered(j, b)'
                 /\ issue'[i].told = <<releases'[j].assets["receipt"]>>
    <3>1. PICK j \in ReleaseNumber, b \in Build :
            /\ Ours(j) /\ releases[j].state = "locked" /\ Delivered(j, b)
            /\ issue[i].told = <<releases[j].assets["receipt"]>>
      BY <2>1 DEF SiteInv, ClosedIsDelivered, SiteMoves
    <3>2. releases'[j] = releases[j] BY <3>1 DEF SiteMoves
    <3>3. Ours(j)' /\ Delivered(j, b)'
      BY <3>1, <3>2 DEF Ours, OnShelf, Delivered, Verified, ReviewedDigests, FromThisWorkflow
    <3> QED BY <3>1, <3>2, <3>3
  <2> QED BY <2>1 DEF ClosedIsDelivered
<1> QED BY <1>1, <1>2, <1>3 DEF SiteInv

LEMMA CreateKeeps ==
  ASSUME ReleaseInv, NEW n \in ReleaseRun, CreateDraft(n)
  PROVE  ReleaseInv'
<1>1. PICK k \in ReleaseNumber :
        /\ Fresh(k) /\ releases' = [releases EXCEPT ![k] = NewDraft]
        /\ dispatch' = [dispatch EXCEPT ![n] = Retains(n, k, NewDraft)]
  BY DEF CreateDraft, Becomes
<1>2. /\ worker = n /\ worker' = n /\ dispatch[n].at = "create"
      /\ UNCHANGED <<world, index, gitTag, issue, handled, swapped, pageMoved, closed>>
  BY DEF CreateDraft, Now, Becomes, ghosts
<1>3. ReleaseTypeOK /\ WorkInOrder(n) /\ JobInOrder(n) /\ Authorized /\ SiteTyped /\ SiteInv BY <1>2, Working
<1>4. NewDraft \in StoredRelease /\ NewDraft.state = "draft" /\ NewDraft.ours
  <2>1. NoContent \in Content BY DEF NoContent, Content
  <2>2. NoAssets \in [Asset -> Content] BY <2>1 DEF NoAssets
  <2> HIDE DEF NoAssets
  <2> QED BY <2>2 DEF NewDraft, StoredRelease
<1>5. Retained(n, k) BY <1>1, <1>3, <1>4, Retaining
<1>6. releases[k].state = "unused"
  <2>1. k >= k BY ReleaseAssumption
  <2> QED BY <1>1, <2>1 DEF Fresh
<1>7. world' \in World /\ world'.request = world.request BY <1>2, <1>3 DEF SiteTyped
<1>8. ~OneOfOurs(k) /\ ~Ours(k) BY <1>6 DEF OneOfOurs, Ours, OnShelf
<1>9. /\ SiteMoves /\ OneChanged(k, NewDraft)
      /\ \A j \in ReleaseNumber : j # k =>
           (Ours(j)' <=> Ours(j)) /\ (OnShelf(j)' <=> OnShelf(j)) /\ \A b : Delivered(j, b)' <=> Delivered(j, b)
  BY <1>1, <1>2, <1>3, <1>4, <1>7, <1>8, OneChanges
<1>10. SiteInv'
  <2>1. ~pageMoved => \A j \in ReleaseNumber : ~Ours(j) BY <1>2, <1>3 DEF WorkInOrder, ListInOrder
  <2>2. OneRelease' BY <1>2, <1>9, <2>1 DEF OneRelease
  <2>3. OnePublic'
    <3>1. \A j \in ReleaseNumber : Ours(j)' /\ releases'[j].state # "draft" => j # k /\ Ours(j) /\ releases[j].state # "draft"
      BY <1>4, <1>9 DEF OneChanged
    <3> QED BY <1>3, <3>1 DEF SiteInv, OnePublic, TagFree
  <2>4. OnlyAuthorized' BY <1>2, <1>3, AuthorityStays DEF OnlyAuthorized
  <2> QED BY <1>2, <1>3, <1>4, <1>9, <2>2, <2>3, <2>4, OneChangeKeeps
<1>11. JobInOrder(n)'
  <2>1. dispatch[n].at \in TagSteps \ {"tag"} BY <1>2 DEF TagSteps
  <2> QED BY <1>3, <1>5, <1>9, <2>1, TaggedJob DEF Retained
<1>12. OneOfOurs(k)' BY <1>4, <1>9 DEF OneChanged, OneOfOurs
<1>13. WorkInOrder(n)' BY <1>5, <1>12, RetainedWork
<1> QED BY <1>2, <1>3, <1>5, <1>9, <1>10, <1>11, <1>13, TurnKeeps DEF Retained

(* A step of a run that works on its release.                                 *)
LEMMA OnRelease ==
  ASSUME ReleaseInv, NEW n \in ReleaseRun, worker = n, dispatch[n].at \in ReleaseSteps
  PROVE  /\ dispatch[n].release \in ReleaseNumber /\ OneOfOurs(dispatch[n].release)
         /\ Authorized /\ dispatch[n].build \in Build /\ dispatch[n].at \in TagSteps \ {"tag"} /\ FilledInOrder(n) /\ ToldInOrder(n)
<1>1. dispatch[n].at # "authorize" /\ dispatch[n].at \in TagSteps \ {"tag"} /\ dispatch[n].at \in BuiltSteps
  BY DEF ReleaseSteps, TagSteps, PypiSteps, BuiltSteps
<1>2. ReleaseTypeOK /\ WorkInOrder(n) /\ JobInOrder(n) /\ Authorized BY <1>1, Working
<1> QED BY <1>1, <1>2, RunType DEF WorkInOrder, ListInOrder, JobInOrder

LEMMA ReleaseWork ==
  ASSUME ReleaseInv, NEW n \in ReleaseRun, worker = n, dispatch[n].at \in ReleaseSteps, SiteMoves,
         dispatch'[n].at \in ReleaseSteps, dispatch'[n].release = dispatch[n].release,
         dispatch'[n].build = dispatch[n].build
  PROVE  JobInOrder(n)' /\ UploadInOrder(n)' /\ ListInOrder(n)'
<1>1. JobInOrder(n) BY Working
<1>2. JobInOrder(n)' BY <1>1, OnRelease, TaggedJob
<1>3. dispatch'[n].at \in TagSteps /\ dispatch'[n].at \notin {"list", "create"} BY DEF TagSteps, ReleaseSteps
<1>4. dispatch[n].release # 0 /\ OneOfOurs(dispatch[n].release)' BY OnRelease, ReleaseAssumption DEF SiteMoves
<1>5. ListInOrder(n)' BY <1>3, <1>4 DEF ListInOrder, OneOfOurs
<1> QED BY <1>2, <1>3, <1>5, LateUpload

LEMMA QuietWalkKeeps ==
  ASSUME ReleaseInv, NEW n \in ReleaseRun, worker = n, worker' = n, UNCHANGED siteVars, Turn(n),
         dispatch[n].at \in ReleaseSteps, dispatch'[n].at \in ReleaseSteps,
         dispatch'[n].release = dispatch[n].release, dispatch'[n].build = dispatch[n].build,
         FilledInOrder(n)', ToldInOrder(n)'
  PROVE  ReleaseInv'
<1>1. SiteTyped /\ SiteInv BY Working
<1>2. ASSUME SiteSame PROVE JobInOrder(n)' /\ WorkInOrder(n)'
  <2>1. SiteMoves BY <1>1, <1>2, SiteStays
  <2> QED BY <2>1, ReleaseWork DEF WorkInOrder
<1> QED BY <1>2, OnRelease, QuietTurnKeeps

LEMMA ReceiptKeeps ==
  ASSUME ReleaseInv, NEW n \in ReleaseRun, ChooseReceipt(n)
  PROVE  ReleaseInv'
<1>1. worker = n /\ dispatch[n].at = "receipt" BY DEF ChooseReceipt, Now
<1>2. dispatch[n].at \in ReleaseSteps BY <1>1 DEF ReleaseSteps
<1>3. /\ dispatch[n].release \in ReleaseNumber /\ dispatch[n].build \in Build /\ FilledInOrder(n) /\ ReleaseTypeOK
      /\ releases[dispatch[n].release] \in StoredRelease
  BY <1>1, <1>2, OnRelease, Working DEF SiteTyped
<1>4. PICK R \in Content : R.build = dispatch[n].build /\ Continues(n, [dispatch[n] EXCEPT !.at = "asset", !.receipt = R])
  <2>1. CASE Continues(n, [dispatch[n] EXCEPT !.at = "asset", !.receipt = NewReceipt(n)])
    <3>1. NewReceipt(n) \in Content /\ NewReceipt(n).build = dispatch[n].build BY <1>3 DEF NewReceipt, Content
    <3> QED BY <2>1, <3>1
  <2>2. ASSUME ReceiptFits(n, releases[dispatch[n].release].assets["receipt"]),
               Continues(n, [dispatch[n] EXCEPT !.at = "asset", !.receipt = releases[dispatch[n].release].assets["receipt"]])
        PROVE  \E R \in Content : R.build = dispatch[n].build /\ Continues(n, [dispatch[n] EXCEPT !.at = "asset", !.receipt = R])
    <3>1. releases[dispatch[n].release].assets["receipt"] \in Content BY <1>3 DEF StoredRelease, Asset
    <3> QED BY <2>2, <3>1 DEF ReceiptFits
  <2> QED BY <2>1, <2>2 DEF ChooseReceipt
<1> DEFINE at == "asset"
           d == [dispatch[n] EXCEPT !.at = at, !.receipt = R]
<1>5. worker' = n /\ UNCHANGED siteVars /\ dispatch' = [dispatch EXCEPT ![n] = d] BY <1>1, <1>4 DEF Continues, Becomes
<1>6. at \in {"authorize", "build"} \cup BuiltSteps BY DEF BuiltSteps, PypiSteps, TagSteps, ReleaseSteps
<1>7. dispatch[n] \in Dispatch /\ dispatch[n].next = 1 BY <1>1, <1>3, RunType DEF FilledInOrder
<1> HIDE DEF at
<1>8. /\ d \in Dispatch /\ d.at = at /\ d.receipt = R /\ d.build = dispatch[n].build /\ d.next = 1
      /\ d.release = dispatch[n].release
  BY <1>6, <1>7 DEF Dispatch
<1> HIDE DEF d
<1>9. Turn(n) /\ dispatch'[n] = d BY <1>3, <1>5, <1>8, Turns
<1>10. FilledInOrder(n)'
  <2>1. \A k : Filled(n, k, 1 - 1)' BY DEF Filled
  <2>2. dispatch'[n].receipt.build = dispatch'[n].build /\ 1 \in 1..4 BY <1>4, <1>8, <1>9
  <2>3. Filled(n, dispatch[n].release, dispatch[n].next - 1)'
    <3>1. dispatch'[n].next - 1 = 0 BY <1>8, <1>9
    <3> QED BY <3>1 DEF Filled
  <2> QED BY <1>8, <1>9, <2>2, <2>3 DEF FilledInOrder, at
<1>11. ToldInOrder(n)' BY <1>8, <1>9 DEF ToldInOrder, at
<1>12. dispatch'[n].at \in ReleaseSteps BY <1>8, <1>9 DEF ReleaseSteps, at
<1> QED BY <1>1, <1>2, <1>5, <1>8, <1>9, <1>10, <1>11, <1>12, QuietWalkKeeps

(* What the run has on disk does not change while it walks.                   *)
LEMMA FilledStays ==
  ASSUME NEW n \in ReleaseRun, dispatch'[n].build = dispatch[n].build, dispatch'[n].receipt = dispatch[n].receipt
  PROVE  /\ \A a : LocalAsset(n, a)' = LocalAsset(n, a)
         /\ \A k, last : releases'[k] = releases[k] => (Filled(n, k, last)' <=> Filled(n, k, last))
BY DEF LocalAsset, Filled

LEMMA FilledOn ==
  ASSUME NEW n, NEW k, NEW x \in 1..4, Filled(n, k, x - 1), releases[k].assets[Assets[x]] = LocalAsset(n, Assets[x])
  PROVE  Filled(n, k, x)
<1>1. \A j \in 1..x : j = x \/ j \in 1..(x - 1) OBVIOUS
<1> QED BY <1>1 DEF Filled

(* An asset is compared, or about to be sent.                                 *)
LEMMA CompareKeeps ==
  ASSUME ReleaseInv, NEW n \in ReleaseRun, CompareAsset(n)
  PROVE  ReleaseInv'
<1> DEFINE next == dispatch[n].next
           k == dispatch[n].release
<1>1. /\ worker = n /\ dispatch[n].at = "asset" /\ releases[k].assets[Assets[next]] = LocalAsset(n, Assets[next])
      /\ worker' = n /\ UNCHANGED siteVars /\ dispatch' = [dispatch EXCEPT ![n] = Proceeds(n)]
  BY DEF CompareAsset, Now, Continues, Becomes
<1>2. dispatch[n].at \in ReleaseSteps BY <1>1 DEF ReleaseSteps
<1>3. FilledInOrder(n) /\ ReleaseTypeOK BY <1>1, <1>2, OnRelease, Working
<1>4. next \in 1..4 /\ (~handled => Filled(n, k, next - 1)) /\ dispatch[n].receipt.build = dispatch[n].build
  BY <1>1, <1>2, <1>3 DEF FilledInOrder
<1>5. ~handled => Filled(n, k, next) BY <1>1, <1>4, FilledOn
<1>6. \/ next = 4 /\ Walks(n, "publish", 1)
      \/ next # 4 /\ Walks(n, "asset", next + 1)
  <2>1. "publish" \in Step /\ "asset" \in Step BY DEF Step, BuiltSteps, PypiSteps, TagSteps, ReleaseSteps
  <2>2. CASE next = 4
    <3>1. dispatch' = [dispatch EXCEPT ![n] = [dispatch[n] EXCEPT !.at = "publish", !.next = 1]]
      BY <1>1, <2>2, AssetPlaces DEF Proceeds
    <3>2. 1 \in Nat \ {0} OBVIOUS
    <3> QED BY <1>3, <2>1, <2>2, <3>1, <3>2, WalkAndCount
  <2>3. CASE next # 4
    <3> DEFINE y == next + 1
    <3>1. dispatch' = [dispatch EXCEPT ![n] = [dispatch[n] EXCEPT !.at = "asset", !.next = y]]
      BY <1>1, <2>3, AssetPlaces DEF Proceeds
    <3>2. y \in Nat \ {0} BY <1>4
    <3> QED BY <1>3, <2>1, <2>3, <3>1, <3>2, WalkAndCount
  <2> QED BY <2>2, <2>3
<1>7. /\ dispatch'[n].at \in {"publish", "asset"} /\ SameTask(dispatch'[n], dispatch[n]) /\ Turn(n) BY <1>6 DEF Walks
<1>8. FilledInOrder(n)'
  <2>1. \A x : Filled(n, k, x) <=> Filled(n, dispatch[n].release, x)'
    <3>1. releases' = releases BY <1>1 DEF siteVars
    <3>2. dispatch'[n].release = k /\ \A a : LocalAsset(n, a)' = LocalAsset(n, a)
      BY <1>7, FilledStays DEF SameTask
    <3> QED BY <3>1, <3>2 DEF Filled
  <2>2. handled' = handled BY <1>1 DEF siteVars
  <2>3. dispatch'[n].receipt.build = dispatch'[n].build BY <1>4, <1>7 DEF SameTask
  <2>4. CASE next = 4 /\ Walks(n, "publish", 1)
    <3>1. dispatch'[n].at = "publish" BY <2>4 DEF Walks
    <3>2. ~handled' => Filled(n, dispatch[n].release, 4)' BY <1>5, <2>1, <2>2, <2>4
    <3> QED BY <2>3, <3>1, <3>2 DEF FilledInOrder
  <2>5. CASE next # 4 /\ Walks(n, "asset", next + 1)
    <3>1. dispatch'[n].at = "asset" /\ dispatch'[n].next \in 1..4 /\ dispatch'[n].next - 1 = next
      BY <1>4, <2>5 DEF Walks
    <3>2. ~handled' => Filled(n, dispatch[n].release, dispatch[n].next - 1)'
      <4>1. PICK y : y = next OBVIOUS
      <4>2. ~handled' => Filled(n, dispatch[n].release, y)' BY <1>5, <2>1, <2>2, <4>1
      <4> QED BY <3>1, <4>1, <4>2 DEF Filled
    <3> QED BY <2>3, <3>1, <3>2 DEF FilledInOrder
  <2> QED BY <1>6, <2>4, <2>5
<1>9. ToldInOrder(n)' BY <1>7 DEF ToldInOrder
<1>10. dispatch'[n].at \in ReleaseSteps BY <1>7 DEF ReleaseSteps
<1> QED BY <1>1, <1>2, <1>7, <1>8, <1>9, <1>10, QuietWalkKeeps DEF SameTask

(* A step within the release that only moves on.                              *)
LEMMA WalkedFilled ==
  ASSUME NEW n \in ReleaseRun, UNCHANGED siteVars, SameTask(dispatch'[n], dispatch[n])
  PROVE  /\ dispatch'[n].release = dispatch[n].release /\ dispatch'[n].receipt = dispatch[n].receipt
         /\ dispatch'[n].build = dispatch[n].build /\ releases' = releases /\ issue' = issue
         /\ handled' = handled /\ swapped' = swapped
         /\ \A k, x : Filled(n, k, x)' <=> Filled(n, k, x)
         /\ \A k : (Ours(k)' <=> Ours(k))
<1>1. releases' = releases /\ issue' = issue /\ handled' = handled /\ swapped' = swapped BY DEF siteVars
<1>2. dispatch'[n].release = dispatch[n].release /\ dispatch'[n].receipt = dispatch[n].receipt
      /\ dispatch'[n].build = dispatch[n].build
  BY DEF SameTask
<1>3. \A k, x : Filled(n, k, x)' <=> Filled(n, k, x) BY <1>1, <1>2, FilledStays
<1> QED BY <1>1, <1>2, <1>3 DEF Ours, OnShelf

LEMMA CheckUploadKeeps ==
  ASSUME ReleaseInv, NEW n \in ReleaseRun, CheckUpload(n)
  PROVE  ReleaseInv'
<1> DEFINE k == dispatch[n].release
<1>1. /\ worker = n /\ dispatch[n].at = "asset" /\ releases[k].state = "draft"
      /\ worker' = n /\ UNCHANGED siteVars /\ dispatch' = [dispatch EXCEPT ![n] = [dispatch[n] EXCEPT !.at = "send"]]
  BY DEF CheckUpload, Now, Continues, Becomes
<1>2. dispatch[n].at \in ReleaseSteps /\ "send" \in ReleaseSteps /\ "send" \in Step
  BY <1>1 DEF ReleaseSteps, Step, BuiltSteps, PypiSteps, TagSteps
<1>3. FilledInOrder(n) /\ ReleaseTypeOK BY <1>1, <1>2, OnRelease, Working
<1>4. Walks(n, "send", dispatch[n].next) BY <1>1, <1>2, <1>3, Walk
<1>5. /\ dispatch'[n].at = "send" /\ dispatch'[n].next = dispatch[n].next /\ SameTask(dispatch'[n], dispatch[n]) /\ Turn(n)
  BY <1>4 DEF Walks
<1>6. FilledInOrder(n)'
  <2>1. /\ dispatch[n].next \in 1..4 /\ (~handled => Filled(n, k, dispatch[n].next - 1))
        /\ dispatch[n].receipt.build = dispatch[n].build
    BY <1>1, <1>2, <1>3 DEF FilledInOrder
  <2>2. \A x : Filled(n, k, x)' <=> Filled(n, k, x) BY <1>1, <1>5, WalkedFilled
  <2>3. PICK x : x = dispatch[n].next - 1 OBVIOUS
  <2>4. ~handled => Filled(n, k, x)' BY <2>1, <2>2, <2>3
  <2>5. ~handled => Filled(n, dispatch[n].release, dispatch[n].next - 1)'
    BY <1>1, <1>5, <2>3, <2>4, WalkedFilled DEF Filled
  <2> QED BY <1>1, <1>5, <2>1, <2>5, WalkedFilled DEF FilledInOrder
<1>7. ToldInOrder(n)' BY <1>5 DEF ToldInOrder
<1> QED BY <1>1, <1>2, <1>5, <1>6, <1>7, QuietWalkKeeps DEF SameTask

LEMMA CheckPublicationKeeps ==
  ASSUME ReleaseInv, NEW n \in ReleaseRun, CheckPublication(n)
  PROVE  ReleaseInv'
<1> DEFINE k == dispatch[n].release
           at == IF releases[k].state = "draft" THEN "patch" ELSE "readback"
<1>1. /\ worker = n /\ dispatch[n].at = "publish" /\ OnShelf(k)
      /\ worker' = n /\ UNCHANGED siteVars /\ dispatch' = [dispatch EXCEPT ![n] = [dispatch[n] EXCEPT !.at = at]]
  BY DEF CheckPublication, Now, Continues, Becomes, ReadRelease
<1>2. dispatch[n].at \in ReleaseSteps /\ at \in ReleaseSteps /\ at \in Step
  BY <1>1 DEF ReleaseSteps, Step, BuiltSteps, PypiSteps, TagSteps
<1>3. FilledInOrder(n) /\ ReleaseTypeOK BY <1>1, <1>2, OnRelease, Working
<1>8. /\ at = "patch" \/ at = "readback"
      /\ at = "readback" => releases[k].state \in {"public", "locked"}
  BY <1>1 DEF OnShelf
<1> HIDE DEF at
<1>4. Walks(n, at, dispatch[n].next) BY <1>1, <1>2, <1>3, Walk
<1>5. /\ dispatch'[n].at = at /\ SameTask(dispatch'[n], dispatch[n]) /\ Turn(n) BY <1>4 DEF Walks
<1>6. FilledInOrder(n)'
  <2>1. (~handled => Filled(n, k, 4)) /\ dispatch[n].receipt.build = dispatch[n].build
    BY <1>1, <1>2, <1>3 DEF FilledInOrder
  <2>2. ~handled => Filled(n, k, 4)' BY <1>1, <1>5, <2>1, WalkedFilled
  <2>3. ~handled' => Filled(n, dispatch[n].release, 4)' BY <1>1, <1>5, <2>2, WalkedFilled DEF Filled
  <2> QED BY <1>1, <1>5, <1>8, <2>1, <2>3, WalkedFilled DEF FilledInOrder
<1>7. ToldInOrder(n)' BY <1>5, <1>8 DEF ToldInOrder
<1> QED BY <1>1, <1>2, <1>5, <1>6, <1>7, QuietWalkKeeps DEF SameTask

LEMMA WholeFilled ==
  ASSUME NEW n, NEW k, \A a \in Asset : releases[k].assets[a] = LocalAsset(n, a)
  PROVE  Filled(n, k, 4)
BY AssetPlaces DEF Filled

LEMMA ReadBackKeeps ==
  ASSUME ReleaseInv, NEW n \in ReleaseRun, ReadBack(n)
  PROVE  ReleaseInv'
<1> DEFINE k == dispatch[n].release
<1>1. /\ worker = n /\ dispatch[n].at = "readback" /\ \A a \in Asset : releases[k].assets[a] = LocalAsset(n, a)
      /\ worker' = n /\ UNCHANGED siteVars /\ dispatch' = [dispatch EXCEPT ![n] = [dispatch[n] EXCEPT !.at = "await"]]
  BY DEF ReadBack, Now, Continues, Becomes
<1>2. dispatch[n].at \in ReleaseSteps /\ "await" \in ReleaseSteps /\ "await" \in Step
  BY <1>1 DEF ReleaseSteps, Step, BuiltSteps, PypiSteps, TagSteps
<1>3. FilledInOrder(n) /\ ReleaseTypeOK BY <1>1, <1>2, OnRelease, Working
<1>4. Walks(n, "await", dispatch[n].next) BY <1>1, <1>2, <1>3, Walk
<1>5. /\ dispatch'[n].at = "await" /\ SameTask(dispatch'[n], dispatch[n]) /\ Turn(n) BY <1>4 DEF Walks
<1>6. FilledInOrder(n)'
  <2>1. /\ dispatch[n].receipt.build = dispatch[n].build
        /\ ~swapped => releases[k].state \in {"public", "locked"}
    BY <1>1, <1>2, <1>3 DEF FilledInOrder
  <2>2. Filled(n, k, 4) BY <1>1, WholeFilled
  <2>3. Filled(n, k, 4)' BY <1>1, <1>5, <2>2, WalkedFilled
  <2>4. Filled(n, dispatch[n].release, 4)' BY <1>1, <1>5, <2>3, WalkedFilled DEF Filled
  <2> QED BY <1>1, <1>5, <2>1, <2>4, WalkedFilled DEF FilledInOrder
<1>7. ToldInOrder(n)' BY <1>5 DEF ToldInOrder
<1> QED BY <1>1, <1>2, <1>5, <1>6, <1>7, QuietWalkKeeps DEF SameTask

(* An asset is sent, whole or not.                                            *)
LEMMA AssetSent ==
  ASSUME ReleaseInv, NEW n \in ReleaseRun, NEW content \in Content, NEW after, Sends(n, content, after),
         worker = n, dispatch[n].at = "send"
  PROVE  LET k == dispatch[n].release
             a == Assets[dispatch[n].next] IN
         /\ SiteMoves /\ SiteInv' /\ handled' = handled /\ dispatch' = [dispatch EXCEPT ![n] = after]
         /\ releases'[k].assets[a] = content
         /\ \A b \in Asset : b # a => releases'[k].assets[b] = releases[k].assets[b]
<1> DEFINE k == dispatch[n].release
           a == Assets[dispatch[n].next]
           r == [releases[k] EXCEPT !.assets[a] = content]
<1>1. /\ releases[k].state \in {"draft", "public"} /\ releases' = [releases EXCEPT ![k] = r]
      /\ dispatch' = [dispatch EXCEPT ![n] = after]
      /\ UNCHANGED <<world, index, gitTag, issue, handled, swapped, pageMoved, closed>>
  BY DEF Sends, ghosts
<1>2. dispatch[n].at \in ReleaseSteps BY DEF ReleaseSteps
<1>3. /\ k \in ReleaseNumber /\ OneOfOurs(k) /\ Authorized /\ FilledInOrder(n) /\ SiteTyped /\ SiteInv
  BY <1>2, OnRelease, Working
<1>4. a \in Asset /\ (~handled => releases[k].state = "draft")
  <2>1. dispatch[n].next \in 1..4 /\ (~handled => releases[k].state = "draft") BY <1>3 DEF FilledInOrder
  <2> QED BY <2>1, AssetPlaces
<1>5. releases[k] \in StoredRelease BY <1>3 DEF SiteTyped
<1> DEFINE A == [releases[k].assets EXCEPT ![a] = content]
<1>6. A \in [Asset -> Content] /\ A[a] = content /\ \A b \in Asset : b # a => A[b] = releases[k].assets[b]
  BY <1>4, <1>5 DEF StoredRelease
<1>7. r = [releases[k] EXCEPT !.assets = A] OBVIOUS
<1> HIDE DEF r, A, a
<1>8. r \in StoredRelease /\ r.assets = A /\ r.state = releases[k].state /\ r.ours = releases[k].ours
  BY <1>5, <1>6, <1>7 DEF StoredRelease
<1> HIDE DEF k
<1>9. world' \in World /\ world'.request = world.request BY <1>1, <1>3 DEF SiteTyped
<1>10. (OneOfOurs(k) => r.ours /\ r.state # "unused") /\ (Ours(k) /\ releases[k].state = "locked" => r = releases[k])
  BY <1>1, <1>8 DEF OneOfOurs
<1>11. /\ SiteMoves /\ OneChanged(k, r)
       /\ \A j \in ReleaseNumber : j # k =>
            (Ours(j)' <=> Ours(j)) /\ (OnShelf(j)' <=> OnShelf(j)) /\ \A b : Delivered(j, b)' <=> Delivered(j, b)
  BY <1>1, <1>3, <1>8, <1>9, <1>10, OneChanges
<1>12. \A j \in ReleaseNumber : (Ours(j)' <=> Ours(j)) /\ releases'[j].state = releases[j].state
  BY <1>8, <1>11 DEF OneChanged, Ours, OnShelf
<1>13. SiteInv'
  <2>1. OneRelease' /\ OnePublic' BY <1>1, <1>3, <1>12 DEF SiteInv, OneRelease, OnePublic, TagFree
  <2>2. OnlyAuthorized' BY <1>3, <1>9, AuthorityStays DEF OnlyAuthorized
  <2>3. ~(r.state # "draft" /\ ~handled') BY <1>1, <1>4, <1>8
  <2> QED BY <1>1, <1>3, <1>11, <2>1, <2>2, <2>3, OneChangeKeeps
<1>14. releases'[k].assets = A BY <1>8, <1>11 DEF OneChanged
<1> QED BY <1>1, <1>6, <1>11, <1>13, <1>14 DEF k, a

LEMMA LocalContent ==
  ASSUME ReleaseTypeOK, NEW n \in ReleaseRun, NEW a
  PROVE  LocalAsset(n, a) \in Content
BY RunType DEF LocalAsset, Content

LEMMA SendKeeps ==
  ASSUME ReleaseInv, NEW n \in ReleaseRun, SendAsset(n)
  PROVE  ReleaseInv'
<1> DEFINE next == dispatch[n].next
           k == dispatch[n].release
           a == Assets[next]
<1>1. worker = n /\ dispatch[n].at = "send" /\ worker' = n /\ Sends(n, LocalAsset(n, a), Proceeds(n))
  BY DEF SendAsset, Sends, Now
<1>2. dispatch[n].at \in ReleaseSteps BY <1>1 DEF ReleaseSteps
<1>3. FilledInOrder(n) /\ ReleaseTypeOK /\ Authorized BY <1>1, <1>2, OnRelease, Working
<1>4. /\ next \in 1..4 /\ (~handled => Filled(n, k, next - 1)) /\ dispatch[n].receipt.build = dispatch[n].build
  BY <1>1, <1>2, <1>3 DEF FilledInOrder
<1>5. LocalAsset(n, a) \in Content BY <1>3, LocalContent
<1>6. /\ SiteMoves /\ SiteInv' /\ handled' = handled /\ dispatch' = [dispatch EXCEPT ![n] = Proceeds(n)]
      /\ releases'[k].assets[a] = LocalAsset(n, a)
      /\ \A b \in Asset : b # a => releases'[k].assets[b] = releases[k].assets[b]
  BY <1>1, <1>5, AssetSent
<1>7. \/ next = 4 /\ Walks(n, "publish", 1)
      \/ next # 4 /\ Walks(n, "asset", next + 1)
  <2>1. "publish" \in Step /\ "asset" \in Step BY DEF Step, BuiltSteps, PypiSteps, TagSteps, ReleaseSteps
  <2>2. CASE next = 4
    <3>1. dispatch' = [dispatch EXCEPT ![n] = [dispatch[n] EXCEPT !.at = "publish", !.next = 1]]
      BY <1>6, <2>2, AssetPlaces DEF Proceeds
    <3>2. 1 \in Nat \ {0} OBVIOUS
    <3> QED BY <1>3, <2>1, <2>2, <3>1, <3>2, WalkAndCount
  <2>3. CASE next # 4
    <3> DEFINE y == next + 1
    <3>1. dispatch' = [dispatch EXCEPT ![n] = [dispatch[n] EXCEPT !.at = "asset", !.next = y]]
      BY <1>6, <2>3, AssetPlaces DEF Proceeds
    <3>2. y \in Nat \ {0} BY <1>4
    <3> QED BY <1>3, <2>1, <2>3, <3>1, <3>2, WalkAndCount
  <2> QED BY <2>2, <2>3
<1>8. /\ dispatch'[n].at \in {"publish", "asset"} /\ Turn(n)
      /\ dispatch'[n].release = k /\ dispatch'[n].build = dispatch[n].build /\ dispatch'[n].receipt = dispatch[n].receipt
  BY <1>7 DEF Walks, SameTask
<1>9. ~handled' => \A j \in 1..next : releases'[k].assets[Assets[j]] = LocalAsset(n, Assets[j])'
  <2> SUFFICES ASSUME ~handled', NEW j \in 1..next PROVE releases'[k].assets[Assets[j]] = LocalAsset(n, Assets[j])' OBVIOUS
  <2>1. LocalAsset(n, Assets[j])' = LocalAsset(n, Assets[j]) BY <1>8, FilledStays
  <2>2. CASE j = next BY <1>6, <2>1, <2>2
  <2>3. CASE j # next
    <3>1. j \in 1..(next - 1) /\ j \in 1..4 /\ next \in 1..4 BY <1>4, <2>3
    <3>2. Assets[j] \in Asset /\ Assets[j] # a BY <2>3, <3>1, AssetPlaces
    <3>3. releases[k].assets[Assets[j]] = LocalAsset(n, Assets[j]) BY <1>4, <1>6, <3>1 DEF Filled
    <3> QED BY <1>6, <2>1, <3>2, <3>3
  <2> QED BY <2>2, <2>3
<1>10. FilledInOrder(n)'
  <2>1. dispatch'[n].receipt.build = dispatch'[n].build BY <1>4, <1>8
  <2>2. CASE next = 4 /\ Walks(n, "publish", 1)
    <3>1. dispatch'[n].at = "publish" BY <2>2 DEF Walks
    <3>2. ~handled' => Filled(n, dispatch[n].release, 4)' BY <1>8, <1>9, <2>2 DEF Filled
    <3> QED BY <2>1, <3>1, <3>2 DEF FilledInOrder
  <2>3. CASE next # 4 /\ Walks(n, "asset", next + 1)
    <3>1. dispatch'[n].at = "asset" /\ dispatch'[n].next \in 1..4 /\ dispatch'[n].next - 1 = next
      BY <1>4, <2>3 DEF Walks
    <3>2. ~handled' => Filled(n, dispatch[n].release, dispatch[n].next - 1)' BY <1>8, <1>9, <3>1 DEF Filled
    <3> QED BY <2>1, <3>1, <3>2 DEF FilledInOrder
  <2> QED BY <1>7, <2>2, <2>3
<1>11. ToldInOrder(n)' BY <1>8 DEF ToldInOrder
<1>12. dispatch'[n].at \in ReleaseSteps BY <1>8 DEF ReleaseSteps
<1>13. JobInOrder(n)' /\ WorkInOrder(n)' BY <1>1, <1>2, <1>6, <1>8, <1>10, <1>11, <1>12, ReleaseWork DEF WorkInOrder
<1> QED BY <1>1, <1>3, <1>6, <1>8, <1>13, TurnKeeps

LEMMA SendBrokenKeeps ==
  ASSUME ReleaseInv, NEW n \in ReleaseRun, SendBroken(n)
  PROVE  ReleaseInv'
<1>1. worker = n /\ dispatch[n].at = "send" /\ worker' = 0 /\ Sends(n, Broken, dispatch[n])
  BY DEF SendBroken, Sends, Now
<1>2. dispatch[n].at \in ReleaseSteps BY <1>1 DEF ReleaseSteps
<1>3. ReleaseTypeOK /\ Authorized /\ JobInOrder(n) /\ dispatch[n] \in Dispatch
  BY <1>1, <1>2, OnRelease, Working, RunType
<1>4. Broken \in Content BY DEF Broken, Content
<1>5. SiteMoves /\ SiteInv' /\ dispatch' = [dispatch EXCEPT ![n] = dispatch[n]] BY <1>1, <1>4, AssetSent
<1>6. Turn(n) /\ dispatch'[n] = dispatch[n] BY <1>3, <1>5, Turns
<1>7. JobInOrder(n)' BY <1>3, <1>5, <1>6, JobStays
<1>8. worker' # n BY <1>1, ReleaseAssumption
<1> QED BY <1>1, <1>3, <1>5, <1>6, <1>7, <1>8, TurnKeeps

(* What the run has on disk is what it has published.                         *)
LEMMA DeliveredByRun ==
  ASSUME NEW n \in ReleaseRun, NEW k, JobInOrder(n), dispatch[n].at \in TagSteps \ {"tag"}, Filled(n, k, 4),
         dispatch[n].receipt.build = dispatch[n].build
  PROVE  Delivered(k, dispatch[n].build) /\ releases[k].assets["receipt"] = ReceiptBody(n)
<1>1. \A a \in Asset : releases[k].assets[a] = LocalAsset(n, a) BY AssetPlaces DEF Filled
<1>2. \A a \in Asset : LocalAsset(n, a).build = dispatch[n].build BY DEF LocalAsset
<1>3. dispatch[n].at \in PypiSteps /\ dispatch[n].at \in TagSteps BY DEF PypiSteps
<1>4. \A r \in Registry : Verified(r, dispatch[n].build) BY <1>3 DEF JobInOrder, Registry
<1>5. "receipt" \in Asset BY DEF Asset
<1> QED BY <1>1, <1>2, <1>4, <1>5 DEF Delivered, JobInOrder, LocalAsset, ReceiptBody

LEMMA PublishKeeps ==
  ASSUME ReleaseInv, NEW n \in ReleaseRun, PublishRelease(n)
  PROVE  ReleaseInv'
<1>0. PICK k : k = dispatch[n].release OBVIOUS
<1> DEFINE s == IF releases[k].state = "draft" THEN "public" ELSE releases[k].state
           r == [releases[k] EXCEPT !.state = s]
           at == IF Exact(k) THEN "readback" ELSE "failed"
<1>1. /\ worker = n /\ worker' = n /\ dispatch[n].at = "patch" /\ OnShelf(k) /\ TagFree(k)
      /\ releases' = [releases EXCEPT ![k] = r]
      /\ dispatch' = [dispatch EXCEPT ![n] = [dispatch[n] EXCEPT !.at = at]]
      /\ UNCHANGED <<world, index, gitTag, issue, handled, swapped, pageMoved, closed>>
  BY <1>0 DEF PublishRelease, Now, Becomes, ghosts
<1>2. dispatch[n].at \in ReleaseSteps /\ at \in ReleaseSteps /\ at \in Step
  BY <1>1 DEF ReleaseSteps, Step, BuiltSteps, PypiSteps, TagSteps
<1>3. /\ k \in ReleaseNumber /\ OneOfOurs(k) /\ Authorized /\ FilledInOrder(n) /\ SiteTyped /\ SiteInv /\ ReleaseTypeOK
      /\ dispatch[n].build \in Build /\ dispatch[n].at \in TagSteps \ {"tag"} /\ JobInOrder(n)
  BY <1>0, <1>1, <1>2, OnRelease, Working
<1>4. /\ dispatch[n].receipt.build = dispatch[n].build /\ (~handled => Filled(n, k, 4))
  BY <1>0, <1>1, <1>2, <1>3 DEF FilledInOrder
<1>5. releases[k] \in StoredRelease BY <1>3 DEF SiteTyped
<1>6. s \in {"public", "locked"} /\ (releases[k].state = "locked" => s = "locked") BY <1>1 DEF OnShelf
<1>20. at \in {"readback", "failed"} OBVIOUS
<1> HIDE DEF at, s
<1>7. r \in StoredRelease /\ r.assets = releases[k].assets /\ r.state = s /\ r.ours = releases[k].ours
      /\ (s = releases[k].state => r = releases[k])
  BY <1>5, <1>6 DEF StoredRelease
<1> HIDE DEF r
<1>8. world' \in World /\ world'.request = world.request BY <1>1, <1>3 DEF SiteTyped
<1>9. (OneOfOurs(k) => r.ours /\ r.state # "unused") /\ (Ours(k) /\ releases[k].state = "locked" => r = releases[k])
  BY <1>6, <1>7 DEF OneOfOurs
<1>10. /\ SiteMoves /\ OneChanged(k, r)
       /\ \A j \in ReleaseNumber : j # k =>
            (Ours(j)' <=> Ours(j)) /\ (OnShelf(j)' <=> OnShelf(j)) /\ \A b : Delivered(j, b)' <=> Delivered(j, b)
  BY <1>1, <1>3, <1>7, <1>8, <1>9, OneChanges
<1>11. \A j \in ReleaseNumber : Ours(j)' <=> Ours(j)
  BY <1>1, <1>6, <1>7, <1>10 DEF OneChanged, Ours, OnShelf
<1>12. \A j \in ReleaseNumber : Ours(j)' /\ releases'[j].state # "draft" => j = k
  BY <1>1, <1>10 DEF TagFree, OneChanged
<1>13. SiteInv'
  <2>1. OneRelease' BY <1>1, <1>3, <1>11 DEF SiteInv, OneRelease
  <2>2. OnePublic' BY <1>12 DEF OnePublic, TagFree
  <2>3. OnlyAuthorized' BY <1>3, <1>8, AuthorityStays DEF OnlyAuthorized
  <2>4. ~handled' => \E b \in Build : Delivered(k, b)'
    <3> SUFFICES ASSUME ~handled' PROVE \E b \in Build : Delivered(k, b)' OBVIOUS
    <3>1. Filled(n, k, 4) BY <1>1, <1>4
    <3>2. PICK b \in Build : b = dispatch[n].build BY <1>3
    <3>3. Delivered(k, b) BY <1>3, <1>4, <3>1, <3>2, DeliveredByRun
    <3>4. releases'[k].assets = releases[k].assets BY <1>7, <1>10 DEF OneChanged
    <3>5. Delivered(k, b)' BY <1>1, <3>3, <3>4 DEF Delivered, Verified, ReviewedDigests, FromThisWorkflow
    <3> QED BY <3>5
  <2> QED BY <1>1, <1>3, <1>10, <2>1, <2>2, <2>3, <2>4, OneChangeKeeps
<1>14. Walks(n, at, dispatch[n].next) BY <1>1, <1>2, <1>3, Walk
<1>15. dispatch'[n].at = at /\ SameTask(dispatch'[n], dispatch[n]) /\ Turn(n) BY <1>14 DEF Walks
<1>16. FilledInOrder(n)'
  <2>1. dispatch'[n].receipt.build = dispatch'[n].build /\ dispatch'[n].release = k BY <1>0, <1>4, <1>15 DEF SameTask
  <2>2. releases'[k].state \in {"public", "locked"} BY <1>6, <1>7, <1>10 DEF OneChanged
  <2> QED BY <1>15, <1>20, <2>1, <2>2 DEF FilledInOrder
<1>17. ToldInOrder(n)' BY <1>15, <1>20 DEF ToldInOrder
<1>18. JobInOrder(n)' /\ WorkInOrder(n)'
  BY <1>1, <1>2, <1>10, <1>15, <1>16, <1>17, ReleaseWork DEF WorkInOrder, SameTask
<1> QED BY <1>1, <1>3, <1>10, <1>13, <1>15, <1>18, TurnKeeps

(* A run that has nothing left to do.                                         *)
LEMMA DoneKeeps ==
  ASSUME ReleaseInv, NEW n \in ReleaseRun, worker = n, worker' = n, UNCHANGED siteVars, NEW next,
         dispatch[n].at \in ReleaseSteps, Walks(n, "done", next)
  PROVE  ReleaseInv'
<1>1. SiteTyped /\ SiteInv /\ JobInOrder(n) /\ Authorized /\ dispatch[n].at \in TagSteps \ {"tag"}
  BY OnRelease, Working
<1>2. /\ dispatch'[n].at = "done" /\ dispatch'[n].build = dispatch[n].build /\ Turn(n) BY DEF Walks, SameTask
<1>3. ASSUME SiteSame PROVE JobInOrder(n)' /\ WorkInOrder(n)'
  <2>1. SiteMoves BY <1>1, <1>3, SiteStays
  <2>2. JobInOrder(n)' BY <1>1, <1>2, <2>1, TaggedJob
  <2>3. UploadInOrder(n)' BY <1>2, LateUpload DEF TagSteps
  <2> QED BY <1>2, <2>2, <2>3, EarlyWork
<1> QED BY <1>1, <1>2, <1>3, QuietTurnKeeps

LEMMA AwaitKeeps ==
  ASSUME ReleaseInv, NEW n \in ReleaseRun, AwaitLock(n)
  PROVE  ReleaseInv'
<1> DEFINE k == dispatch[n].release
<1>1. PICK j \in ReleaseNumber : Ours(j) /\ releases[j].state = "locked" BY DEF AwaitLock
<1>2. /\ worker = n /\ dispatch[n].at = "await" /\ worker' = n /\ UNCHANGED siteVars
      /\ dispatch' = [dispatch EXCEPT ![n] = [dispatch[n] EXCEPT !.at = IF Tracked = <<>> THEN "done" ELSE "issue", !.next = 1]]
  BY DEF AwaitLock, Now, Continues, Becomes
<1>3. dispatch[n].at \in ReleaseSteps /\ "issue" \in ReleaseSteps /\ "issue" \in Step /\ "done" \in Step /\ 1 \in Nat \ {0}
  BY <1>2 DEF ReleaseSteps, Step, BuiltSteps, PypiSteps, TagSteps
<1>4. FilledInOrder(n) /\ ReleaseTypeOK /\ k \in ReleaseNumber /\ OneOfOurs(k) /\ SiteInv
  BY <1>2, <1>3, OnRelease, Working
<1>5. CASE Tracked = <<>>
  <2>1. dispatch' = [dispatch EXCEPT ![n] = [dispatch[n] EXCEPT !.at = "done", !.next = 1]] BY <1>2, <1>5
  <2>2. Walks(n, "done", 1) BY <1>3, <1>4, <2>1, WalkAndCount
  <2> QED BY <1>2, <1>3, <2>2, DoneKeeps
<1>6. CASE Tracked # <<>>
  <2>1. dispatch' = [dispatch EXCEPT ![n] = [dispatch[n] EXCEPT !.at = "issue", !.next = 1]] BY <1>2, <1>6
  <2>2. Walks(n, "issue", 1) BY <1>3, <1>4, <2>1, WalkAndCount
  <2>3. /\ dispatch'[n].at = "issue" /\ dispatch'[n].next = 1 /\ SameTask(dispatch'[n], dispatch[n]) /\ Turn(n)
    BY <2>2 DEF Walks
  <2>4. dispatch[n].receipt.build = dispatch[n].build BY <1>2, <1>3, <1>4 DEF FilledInOrder
  <2>5. FilledInOrder(n)' BY <1>2, <2>3, <2>4, WalkedFilled DEF FilledInOrder
  <2>6. 1 \in 1..Len(Tracked)
    <3>1. Tracked \in Seq(Nat) BY ReleaseAssumption
    <3> QED BY <1>6, <3>1
  <2>7. swapped \/ Filled(n, j, 4)
    <3> SUFFICES ASSUME ~swapped PROVE Filled(n, j, 4) OBVIOUS
    <3>1. releases[k].state \in {"public", "locked"} /\ Filled(n, k, 4) BY <1>2, <1>4 DEF FilledInOrder
    <3>2. Ours(k) /\ releases[k].state # "draft" BY <1>4, <3>1 DEF OneOfOurs, Ours, OnShelf
    <3>3. TagFree(k) BY <1>4, <3>2 DEF SiteInv, OnePublic
    <3>4. j = k BY <1>1, <3>3 DEF TagFree
    <3> QED BY <3>1, <3>4
  <2>8. swapped' \/ (Ours(j)' /\ releases'[j].state = "locked" /\ Filled(n, j, 4)')
    BY <1>1, <1>2, <2>3, <2>7, WalkedFilled
  <2>9. ToldInOrder(n)' BY <2>3, <2>6, <2>8 DEF ToldInOrder
  <2> QED BY <1>2, <1>3, <2>3, <2>5, <2>9, QuietWalkKeeps DEF SameTask
<1> QED BY <1>5, <1>6

(* The issues.                                                                *)
Telling == {"issue", "comment", "recheck", "close", "confirm"}
LEMMA OnIssue ==
  ASSUME ReleaseInv, NEW n \in ReleaseRun, worker = n, dispatch[n].at \in Telling
  PROVE  /\ dispatch[n].at \in ReleaseSteps /\ dispatch[n].next \in 1..Len(Tracked)
         /\ Tracked[dispatch[n].next] \in TrackedIssue /\ dispatch[n].receipt.build = dispatch[n].build
         /\ swapped \/ \E k \in ReleaseNumber : Ours(k) /\ releases[k].state = "locked" /\ Filled(n, k, 4)
<1>1. dispatch[n].at \in ReleaseSteps \ {"receipt", "failed"} BY DEF Telling, ReleaseSteps
<1>2. FilledInOrder(n) /\ ToldInOrder(n) BY <1>1, OnRelease
<1>3. dispatch[n].next \in 1..Len(Tracked) BY <1>2 DEF ToldInOrder, Telling
<1>4. Tracked[dispatch[n].next] \in TrackedIssue
  <2>1. Tracked \in Seq(Nat) BY ReleaseAssumption
  <2>2. DOMAIN Tracked = 1..Len(Tracked) BY <2>1
  <2> QED BY <1>3, <2>2 DEF TrackedIssue
<1> QED BY <1>1, <1>2, <1>3, <1>4 DEF FilledInOrder, ToldInOrder, Telling

(* A look at an issue.                                                        *)
LEMMA LookKeeps ==
  ASSUME ReleaseInv, NEW n \in ReleaseRun, worker = n, worker' = n, UNCHANGED siteVars, Turn(n),
         dispatch[n].at \in Telling, dispatch'[n].at \in Telling, dispatch'[n].next \in 1..Len(Tracked),
         SameTask(dispatch'[n], dispatch[n]),
         dispatch'[n].at = "comment" => issue[Tracked[dispatch'[n].next]].told = <<>>,
         dispatch'[n].at = "close" => issue[Tracked[dispatch'[n].next]].told = <<ReceiptBody(n)>>
  PROVE  ReleaseInv'
<1>1. /\ dispatch[n].at \in ReleaseSteps /\ dispatch[n].receipt.build = dispatch[n].build
      /\ swapped \/ \E k \in ReleaseNumber : Ours(k) /\ releases[k].state = "locked" /\ Filled(n, k, 4)
  BY OnIssue
<1>2. dispatch'[n].at \in ReleaseSteps BY DEF Telling, ReleaseSteps
<1>3. dispatch'[n].receipt.build = dispatch'[n].build BY <1>1 DEF SameTask
<1>4. FilledInOrder(n)' BY <1>3 DEF FilledInOrder, Telling
<1>5. swapped' \/ \E k \in ReleaseNumber : Ours(k)' /\ releases'[k].state = "locked" /\ Filled(n, k, 4)'
  BY <1>1, WalkedFilled
<1>6. issue' = issue /\ ReceiptBody(n)' = ReceiptBody(n) BY WalkedFilled DEF ReceiptBody
<1>7. ToldInOrder(n)' BY <1>5, <1>6 DEF ToldInOrder
<1> QED BY <1>1, <1>2, <1>4, <1>7, QuietWalkKeeps DEF SameTask

LEMMA ReadIssueKeeps ==
  ASSUME ReleaseInv, NEW n \in ReleaseRun, ReadIssue(n)
  PROVE  ReleaseInv'
<1> DEFINE i == Tracked[dispatch[n].next]
           b == issue[i].state = "open"
<1>1. PICK after \in {"comment", "close"} :
        /\ after = "comment" => Unmarked(i)
        /\ after = "close" => Told(n, i)
        /\ Continues(n, [dispatch[n] EXCEPT !.at = after, !.open = b])
  BY DEF ReadIssue
<1> DEFINE d == [dispatch[n] EXCEPT !.at = after, !.open = b]
<1>2. /\ worker = n /\ dispatch[n].at = "issue" /\ worker' = n /\ UNCHANGED siteVars
      /\ dispatch' = [dispatch EXCEPT ![n] = d]
  BY <1>1 DEF ReadIssue, Now, Continues, Becomes
<1>3. dispatch[n].at \in Telling /\ after \in Telling BY <1>2 DEF Telling
<1>4. dispatch[n].next \in 1..Len(Tracked) /\ ReleaseTypeOK BY <1>2, <1>3, OnIssue, Working
<1>5. dispatch[n] \in Dispatch /\ b \in BOOLEAN /\ after \in {"authorize", "build"} \cup BuiltSteps
  BY <1>4, RunType DEF BuiltSteps, PypiSteps, TagSteps, ReleaseSteps
<1> HIDE DEF b
<1>6. d \in Dispatch /\ d.at = after /\ d.next = dispatch[n].next /\ SameTask(d, dispatch[n])
  BY <1>5 DEF Dispatch, SameTask
<1> HIDE DEF d
<1>7. Turn(n) /\ dispatch'[n] = d BY <1>2, <1>4, <1>6, Turns
<1>8. /\ dispatch'[n].at = "comment" => issue[Tracked[dispatch'[n].next]].told = <<>>
      /\ dispatch'[n].at = "close" => issue[Tracked[dispatch'[n].next]].told = <<ReceiptBody(n)>>
  BY <1>1, <1>6, <1>7 DEF Unmarked, Told
<1> QED BY <1>2, <1>3, <1>4, <1>6, <1>7, <1>8, LookKeeps

LEMMA RecheckKeeps ==
  ASSUME ReleaseInv, NEW n \in ReleaseRun, Recheck(n)
  PROVE  ReleaseInv'
<1>1. /\ worker = n /\ dispatch[n].at = "recheck" /\ worker' = n /\ UNCHANGED siteVars
      /\ dispatch' = [dispatch EXCEPT ![n] = [dispatch[n] EXCEPT !.at = "close"]]
      /\ Told(n, Tracked[dispatch[n].next])
  BY DEF Recheck, Now, Continues, Becomes
<1>2. dispatch[n].at \in Telling /\ "close" \in Telling /\ "close" \in Step
  BY <1>1 DEF Telling, Step, BuiltSteps, PypiSteps, TagSteps, ReleaseSteps
<1>3. dispatch[n].next \in 1..Len(Tracked) /\ ReleaseTypeOK BY <1>1, <1>2, OnIssue, Working
<1>4. Walks(n, "close", dispatch[n].next) BY <1>1, <1>2, <1>3, Walk
<1>5. /\ dispatch'[n].at = "close" /\ dispatch'[n].next = dispatch[n].next /\ SameTask(dispatch'[n], dispatch[n]) /\ Turn(n)
  BY <1>4 DEF Walks
<1> QED BY <1>1, <1>2, <1>3, <1>5, LookKeeps DEF Told

LEMMA ConfirmKeeps ==
  ASSUME ReleaseInv, NEW n \in ReleaseRun, ConfirmIssue(n)
  PROVE  ReleaseInv'
<1> DEFINE next == dispatch[n].next
           y == next + 1
<1>1. /\ worker = n /\ dispatch[n].at = "confirm" /\ worker' = n /\ UNCHANGED siteVars
      /\ \/ next = Len(Tracked) /\ dispatch' = [dispatch EXCEPT ![n] = [dispatch[n] EXCEPT !.at = "done"]]
         \/ next # Len(Tracked) /\ dispatch' = [dispatch EXCEPT ![n] = [dispatch[n] EXCEPT !.at = "issue", !.next = y]]
  BY DEF ConfirmIssue, Now, Continues, Becomes
<1>2. /\ dispatch[n].at \in Telling /\ "issue" \in Telling /\ "issue" \in Step /\ "done" \in Step
  BY <1>1 DEF Telling, Step, BuiltSteps, PypiSteps, TagSteps, ReleaseSteps
<1>3. next \in 1..Len(Tracked) /\ ReleaseTypeOK /\ dispatch[n].at \in ReleaseSteps BY <1>1, <1>2, OnIssue, Working
<1>4. ASSUME dispatch' = [dispatch EXCEPT ![n] = [dispatch[n] EXCEPT !.at = "done"]] PROVE ReleaseInv'
  <2>1. Walks(n, "done", dispatch[n].next) BY <1>2, <1>3, <1>4, Walk
  <2> QED BY <1>1, <1>3, <2>1, DoneKeeps
<1>5. ASSUME next # Len(Tracked), dispatch' = [dispatch EXCEPT ![n] = [dispatch[n] EXCEPT !.at = "issue", !.next = y]]
      PROVE  ReleaseInv'
  <2>1. Len(Tracked) \in Nat BY ReleaseAssumption
  <2>2. y \in Nat \ {0} /\ y \in 1..Len(Tracked) BY <1>3, <1>5, <2>1
  <2> HIDE DEF y
  <2>3. Walks(n, "issue", y) BY <1>2, <1>3, <1>5, <2>2, WalkAndCount
  <2>4. /\ dispatch'[n].at = "issue" /\ dispatch'[n].next = y /\ SameTask(dispatch'[n], dispatch[n]) /\ Turn(n)
    BY <2>3 DEF Walks
  <2> QED BY <1>1, <1>2, <2>2, <2>4, LookKeeps
<1> QED BY <1>1, <1>4, <1>5

(* One issue changes.                                                         *)
LEMMA IssueChanges ==
  ASSUME SiteTyped, SiteInv, NEW i \in TrackedIssue, NEW x \in StoredIssue, issue' = [issue EXCEPT ![i] = x],
         UNCHANGED <<index, gitTag, releases, handled, swapped, pageMoved>>,
         world' \in World, world'.request = world.request, closed' \subseteq TrackedIssue,
         Len(x.told) <= 1, OnlyAuthorized', \A j \in closed' : j = i \/ j \in closed,
         i \in closed' => swapped \/
           \E k \in ReleaseNumber, b \in Build :
             /\ Ours(k) /\ releases[k].state = "locked" /\ Delivered(k, b)
             /\ x.told = <<releases[k].assets["receipt"]>>
  PROVE  SiteMoves /\ SiteInv'
<1>1. /\ issue' \in [TrackedIssue -> StoredIssue] /\ issue'[i] = x
      /\ \A j \in TrackedIssue : j # i => issue'[j] = issue[j]
  BY DEF SiteTyped
<1>2. /\ \A k \in ReleaseNumber : (Ours(k)' <=> Ours(k)) /\ (OneOfOurs(k)' <=> OneOfOurs(k)) /\ (TagFree(k)' <=> TagFree(k))
      /\ \A k, b : Delivered(k, b)' <=> Delivered(k, b)
  BY DEF Ours, OnShelf, OneOfOurs, TagFree, Delivered, Verified, ReviewedDigests, FromThisWorkflow
<1>3. SiteMoves BY <1>1, <1>2 DEF SiteMoves, SiteTyped
<1>4. RegistriesInOrder' BY DEF SiteInv, RegistriesInOrder, Verified, ReviewedDigests, FromThisWorkflow
<1>5. OneRelease' /\ OnePublic' BY <1>2 DEF SiteInv, OneRelease, OnePublic
<1>6. OneReceipt' BY <1>1 DEF SiteInv, OneReceipt
<1>7. PublicIsWhole' BY <1>2 DEF SiteInv, PublicIsWhole
<1>8. ClosedIsDelivered'
  <2>1. ASSUME NEW j \in closed', ~swapped'
        PROVE  \E k \in ReleaseNumber, b \in Build :
                 /\ Ours(k)' /\ releases'[k].state = "locked" /\ Delivered(k, b)'
                 /\ issue'[j].told = <<releases'[k].assets["receipt"]>>
    <3>1. PICK k \in ReleaseNumber, b \in Build :
            /\ Ours(k) /\ releases[k].state = "locked" /\ Delivered(k, b)
            /\ issue'[j].told = <<releases[k].assets["receipt"]>>
      <4>1. CASE j = i BY <1>1, <2>1, <4>1
      <4>2. CASE j # i
        <5>1. j \in closed /\ j \in TrackedIssue /\ ~swapped BY <2>1, <4>2
        <5>2. issue'[j] = issue[j] BY <1>1, <4>2, <5>1
        <5> QED BY <5>1, <5>2 DEF SiteInv, ClosedIsDelivered
      <4> QED BY <4>1, <4>2
    <3> QED BY <1>2, <3>1
  <2> QED BY <2>1 DEF ClosedIsDelivered
<1> QED BY <1>3, <1>4, <1>5, <1>6, <1>7, <1>8 DEF SiteInv

(* The run has told an issue something.                                       *)
LEMMA TellKeeps ==
  ASSUME ReleaseInv, NEW n \in ReleaseRun, worker = n, worker' = n, SiteMoves, SiteInv', releases' = releases, swapped' = swapped,
         dispatch[n].at \in Telling, NEW at \in {"recheck", "confirm"}, Walks(n, at, dispatch[n].next)
  PROVE  ReleaseInv'
<1>1. /\ dispatch[n].at \in ReleaseSteps /\ dispatch[n].receipt.build = dispatch[n].build
      /\ dispatch[n].next \in 1..Len(Tracked)
      /\ swapped \/ \E k \in ReleaseNumber : Ours(k) /\ releases[k].state = "locked" /\ Filled(n, k, 4)
  BY OnIssue
<1>2. /\ Turn(n) /\ dispatch'[n].at = at /\ dispatch'[n].next = dispatch[n].next
      /\ dispatch'[n].release = dispatch[n].release /\ dispatch'[n].build = dispatch[n].build
      /\ dispatch'[n].receipt = dispatch[n].receipt
  BY DEF Walks, SameTask
<1>3. dispatch'[n].at \in ReleaseSteps BY <1>2 DEF ReleaseSteps
<1>4. dispatch'[n].receipt.build = dispatch'[n].build BY <1>1, <1>2
<1>5. FilledInOrder(n)' BY <1>2, <1>4 DEF FilledInOrder
<1>6. swapped' \/ \E k \in ReleaseNumber : Ours(k)' /\ releases'[k].state = "locked" /\ Filled(n, k, 4)'
  <2> SUFFICES ASSUME ~swapped PROVE \E k \in ReleaseNumber : Ours(k)' /\ releases'[k].state = "locked" /\ Filled(n, k, 4)'
    OBVIOUS
  <2>1. PICK k \in ReleaseNumber : Ours(k) /\ releases[k].state = "locked" /\ Filled(n, k, 4) BY <1>1
  <2>2. Filled(n, k, 4)' BY <1>2, <2>1, FilledStays
  <2>3. Ours(k)' BY <2>1 DEF Ours, OnShelf
  <2> QED BY <2>1, <2>2, <2>3
<1>7. ToldInOrder(n)' BY <1>1, <1>2, <1>6 DEF ToldInOrder
<1>8. JobInOrder(n)' /\ WorkInOrder(n)' BY <1>1, <1>2, <1>3, <1>5, <1>7, ReleaseWork DEF WorkInOrder
<1>9. Authorized BY <1>1, OnRelease
<1> QED BY <1>2, <1>8, <1>9, TurnKeeps

LEMMA CommentKeeps ==
  ASSUME ReleaseInv, NEW n \in ReleaseRun, Comment(n)
  PROVE  ReleaseInv'
<1>0. PICK i : i = Tracked[dispatch[n].next] OBVIOUS
<1> DEFINE told == Append(issue[i].told, ReceiptBody(n))
           x == [issue[i] EXCEPT !.told = told]
<1>1. /\ worker = n /\ dispatch[n].at = "comment" /\ worker' = n
      /\ dispatch' = [dispatch EXCEPT ![n] = [dispatch[n] EXCEPT !.at = "recheck"]]
      /\ issue' = [issue EXCEPT ![i] = x]
      /\ world' = world /\ UNCHANGED <<index, gitTag, releases, handled, swapped, pageMoved>> /\ closed' = closed
  BY <1>0 DEF Comment, Now, Becomes, ghosts
<1>2. dispatch[n].at \in Telling /\ "recheck" \in Step
  BY <1>1 DEF Telling, Step, BuiltSteps, PypiSteps, TagSteps, ReleaseSteps
<1>3. /\ i \in TrackedIssue /\ SiteTyped /\ SiteInv /\ ReleaseTypeOK /\ Authorized /\ dispatch[n].receipt \in Content
      /\ ToldInOrder(n)
  BY <1>0, <1>1, <1>2, OnIssue, OnRelease, Working, RunType
<1>4. issue[i].told = <<>> BY <1>0, <1>1, <1>3 DEF ToldInOrder
<1>5. issue[i] \in StoredIssue BY <1>3 DEF SiteTyped
<1>6. told \in Seq(Content) /\ Len(told) = 1 BY <1>3, <1>4 DEF ReceiptBody
<1> HIDE DEF told
<1>7. x \in StoredIssue /\ x.told = told BY <1>5, <1>6 DEF StoredIssue
<1> HIDE DEF x
<1>8. i \in closed' => swapped
  <2>1. \A y : <<y>> # <<>> OBVIOUS
  <2> QED BY <1>1, <1>3, <1>4, <2>1 DEF SiteInv, ClosedIsDelivered
<1>9. OnlyAuthorized' BY <1>1, <1>3, AuthorityStays DEF OnlyAuthorized
<1>10. world' \in World /\ world'.request = world.request /\ closed' \subseteq TrackedIssue
  BY <1>1, <1>3 DEF SiteTyped
<1>14. Len(x.told) <= 1
  <2>1. x.told = told BY <1>7
  <2>2. Len(x.told) = 1 BY <1>6, <2>1, Zenon
  <2> QED BY <2>2
<1>16. \A j \in closed' : j = i \/ j \in closed BY <1>1
<1>15. UNCHANGED <<index, gitTag, releases, handled, swapped, pageMoved>> /\ issue' = [issue EXCEPT ![i] = x] BY <1>1
<1>11. SiteMoves /\ SiteInv' BY <1>3, <1>7, <1>8, <1>9, <1>10, <1>14, <1>15, <1>16, IssueChanges
<1>12. Walks(n, "recheck", dispatch[n].next) BY <1>1, <1>2, <1>3, Walk
<1>13. releases' = releases /\ swapped' = swapped BY <1>1
<1> QED BY <1>1, <1>2, <1>11, <1>12, <1>13, TellKeeps

LEMMA CloseKeeps ==
  ASSUME ReleaseInv, NEW n \in ReleaseRun, CloseIssue(n)
  PROVE  ReleaseInv'
<1>0. PICK i : i = Tracked[dispatch[n].next] OBVIOUS
<1> DEFINE s == "completed"
           x == [issue[i] EXCEPT !.state = s]
<1>1. /\ worker = n /\ dispatch[n].at = "close" /\ worker' = n
      /\ dispatch' = [dispatch EXCEPT ![n] = [dispatch[n] EXCEPT !.at = "confirm"]]
      /\ \/ issue' = issue /\ closed' = closed
         \/ issue' = [issue EXCEPT ![i] = x] /\ closed' = closed \cup {i}
      /\ world' = world /\ UNCHANGED <<index, gitTag, releases, handled, swapped, pageMoved>>
  BY <1>0 DEF CloseIssue, Now, Becomes, ghosts
<1>2. dispatch[n].at \in Telling /\ "confirm" \in Step
  BY <1>1 DEF Telling, Step, BuiltSteps, PypiSteps, TagSteps, ReleaseSteps
<1>3. /\ i \in TrackedIssue /\ SiteTyped /\ SiteInv /\ ReleaseTypeOK /\ Authorized /\ ToldInOrder(n)
      /\ dispatch[n].receipt.build = dispatch[n].build /\ dispatch[n].at \in TagSteps \ {"tag"} /\ JobInOrder(n)
      /\ dispatch[n].build \in Build
  BY <1>0, <1>1, <1>2, OnIssue, OnRelease, Working
<1>4. issue[i].told = <<ReceiptBody(n)>> BY <1>0, <1>1, <1>3 DEF ToldInOrder
<1>5. issue[i] \in StoredIssue BY <1>3 DEF SiteTyped
<1>6. x \in StoredIssue /\ x.told = issue[i].told BY <1>5 DEF StoredIssue
<1> HIDE DEF x
<1>7. ASSUME ~swapped
      PROVE  \E k \in ReleaseNumber, b \in Build :
               /\ Ours(k) /\ releases[k].state = "locked" /\ Delivered(k, b)
               /\ x.told = <<releases[k].assets["receipt"]>>
  <2>1. PICK k \in ReleaseNumber : Ours(k) /\ releases[k].state = "locked" /\ Filled(n, k, 4)
    BY <1>1, <1>2, <1>7, OnIssue
  <2>2. Delivered(k, dispatch[n].build) /\ releases[k].assets["receipt"] = ReceiptBody(n)
    BY <1>3, <2>1, DeliveredByRun
  <2>3. x.told = <<releases[k].assets["receipt"]>> BY <1>4, <1>6, <2>2
  <2> QED BY <1>3, <2>1, <2>2, <2>3
<1>8. OnlyAuthorized' BY <1>1, <1>3, AuthorityStays DEF OnlyAuthorized
<1>9. world' \in World /\ world'.request = world.request /\ closed \subseteq TrackedIssue BY <1>1, <1>3 DEF SiteTyped
<1>10. SiteMoves /\ SiteInv'
  <2>1. CASE issue' = issue /\ closed' = closed
    <3>1. SiteSame BY <1>1, <1>9, <2>1 DEF SiteSame
    <3> QED BY <1>3, <3>1, SiteStays
  <2>2. CASE issue' = [issue EXCEPT ![i] = x] /\ closed' = closed \cup {i}
    <3>1. closed' \subseteq TrackedIssue /\ \A j \in closed' : j = i \/ j \in closed BY <1>3, <1>9, <2>2
    <3>2. Len(x.told) <= 1 BY <1>4, <1>6
    <3> QED BY <1>1, <1>3, <1>6, <1>7, <1>8, <1>9, <2>2, <3>1, <3>2, IssueChanges
  <2> QED BY <1>1, <2>1, <2>2
<1>11. Walks(n, "confirm", dispatch[n].next) BY <1>1, <1>2, <1>3, Walk
<1>12. releases' = releases /\ swapped' = swapped BY <1>1
<1> QED BY <1>1, <1>2, <1>10, <1>11, <1>12, TellKeeps

-----------------------------------------------------------------------------
(* A run starts or stops.                                                     *)
LEMMA WorldMoves ==
  ASSUME SiteTyped
  PROVE  /\ Interferes => world' \in World /\ world'.request = world.request
         /\ world.attempts > 0 /\ world' = [world EXCEPT !.attempts = @ - 1] =>
              world' \in World /\ world'.request = world.request
<1> DEFINE x == world.moves - 1
           y == world.attempts - 1
<1>1. world \in World BY DEF SiteTyped
<1>2. world.moves > 0 => x \in Nat BY <1>1 DEF World
<1>3. world.attempts > 0 => y \in Nat BY <1>1 DEF World
<1> HIDE DEF x, y
<1>4. x \in Nat => [world EXCEPT !.moves = x] \in World /\ [world EXCEPT !.moves = x].request = world.request
  BY <1>1 DEF World
<1>5. y \in Nat => [world EXCEPT !.attempts = y] \in World /\ [world EXCEPT !.attempts = y].request = world.request
  BY <1>1 DEF World
<1> QED BY <1>2, <1>3, <1>4, <1>5 DEF Interferes, x, y

LEMMA StartKeeps ==
  ASSUME ReleaseInv, NEW n \in ReleaseRun, StartRun(n)
  PROVE  ReleaseInv'
<1>1. PICK at \in {"authorize", JobOf(dispatch[n].at)} :
        dispatch' = [dispatch EXCEPT ![n].at = at, ![n].next = 1, ![n].page = 0, ![n].found = {}]
  BY DEF StartRun
<1>2. /\ worker = 0 /\ worker' = n /\ world.attempts > 0 /\ world' = [world EXCEPT !.attempts = @ - 1]
      /\ UNCHANGED <<index, gitTag, releases, issue, handled, swapped, pageMoved, closed>>
  BY DEF StartRun, ghosts
<1>3. /\ SiteTyped /\ SiteInv /\ ReleaseTypeOK /\ JobInOrder(n) /\ dispatch \in [ReleaseRun -> Dispatch]
      /\ (Authorized \/ \A m \in ReleaseRun : dispatch[m].at = "authorize")
  BY InvParts DEF ReleaseInv
<1>4. world' \in World /\ world'.request = world.request BY <1>2, <1>3, WorldMoves
<1>5. SiteSame BY <1>2, <1>4 DEF SiteSame
<1>6. SiteMoves /\ SiteInv' BY <1>3, <1>5, SiteStays
<1>7. dispatch[n] \in Dispatch /\ dispatch[n].at \in Step BY <1>3, RunType
<1>8. \/ at \in {"authorize", "build"}
      \/ at \in {"testpypi", "testpypi-check", "pypi", "pypi-check"} /\ at = dispatch[n].at
      \/ at = "tag" /\ dispatch[n].at \in TagSteps
  <2>1. CASE at = "authorize" BY <2>1
  <2>2. CASE at = JobOf(dispatch[n].at)
    <3>1. dispatch[n].at \in {"authorize", "build", "testpypi-state", "pypi-state", "testpypi", "testpypi-check",
                              "pypi", "pypi-check"} \cup TagSteps
      BY <1>7 DEF Step, BuiltSteps, PypiSteps
    <3> QED BY <2>2, <3>1 DEF JobOf, TagSteps, ReleaseSteps
  <2> QED BY <2>1, <2>2
<1>9. at \in {"authorize", "build"} \cup BuiltSteps /\ at \in EarlySteps
  BY <1>8 DEF EarlySteps, BuiltSteps, PypiSteps, TagSteps
<1> DEFINE one == 1
           zero == 0
           F == {}
           d == [dispatch[n] EXCEPT !.at = at, !.next = one, !.page = zero, !.found = F]
<1>10. dispatch' = [dispatch EXCEPT ![n] = d] BY <1>1, <1>3
<1>11. one \in Nat \ {0} /\ zero \in Nat /\ F \in SUBSET (Nat \X ReleaseNumber) OBVIOUS
<1> HIDE DEF one, zero, F
<1>12. d \in Dispatch /\ d.at = at /\ d.next = one /\ d.build = dispatch[n].build BY <1>7, <1>9, <1>11 DEF Dispatch
<1> HIDE DEF d
<1>13. Turn(n) /\ dispatch'[n] = d BY <1>3, <1>10, <1>12, Turns
<1>14. dispatch'[n].at = at /\ dispatch'[n].next = 1 /\ dispatch'[n].build = dispatch[n].build BY <1>12, <1>13 DEF one
<1>15. JobInOrder(n)'
  <2>1. CASE at \in {"authorize", "build"}
    <3>1. at \notin BuiltSteps /\ at \notin PypiSteps /\ at \notin TagSteps
      BY <2>1 DEF BuiltSteps, PypiSteps, TagSteps, ReleaseSteps
    <3> QED BY <1>14, <3>1 DEF JobInOrder
  <2>2. CASE at = dispatch[n].at BY <1>3, <1>6, <1>14, <2>2, JobStays
  <2>3. CASE at = "tag" /\ dispatch[n].at \in TagSteps
    <3>1. dispatch[n].at \in PypiSteps /\ dispatch[n].at \in BuiltSteps BY <2>3 DEF PypiSteps, BuiltSteps
    <3>2. dispatch[n].build \in Build /\ Verified("testpypi", dispatch[n].build) /\ Verified("pypi", dispatch[n].build)
      BY <1>3, <2>3, <3>1 DEF JobInOrder
    <3>3. "testpypi" \in Registry /\ "pypi" \in Registry BY DEF Registry
    <3>4. Verified("testpypi", dispatch[n].build)' /\ Verified("pypi", dispatch[n].build)'
      BY <1>6, <1>14, <3>2, <3>3, BuildVerifiedStays
    <3> QED BY <1>14, <2>3, <3>2, <3>4 DEF JobInOrder
  <2> QED BY <1>8, <2>1, <2>2, <2>3
<1>16. WorkInOrder(n)'
  <2>1. UploadInOrder(n)' BY <1>14 DEF UploadInOrder
  <2> QED BY <1>9, <1>14, <2>1, EarlyWork
<1>17. ASSUME NEW m \in ReleaseRun PROVE JobInOrder(m)' /\ (worker' = m => WorkInOrder(m)')
  <2>1. CASE m = n BY <1>15, <1>16, <2>1
  <2>2. CASE m # n
    <3>1. dispatch'[m] = dispatch[m] /\ JobInOrder(m) BY <1>13, <2>2, InvParts DEF Turn
    <3>2. JobInOrder(m)' BY <1>6, <3>1, JobStays
    <3> QED BY <1>2, <2>2, <3>2
  <2> QED BY <2>1, <2>2
<1>18. SiteTyped' /\ dispatch' \in [ReleaseRun -> Dispatch] /\ worker' \in ReleaseRun \cup {0}
  BY <1>2, <1>6, <1>13 DEF SiteMoves, Turn
<1>19. Authorized' \/ \A m \in ReleaseRun : dispatch'[m].at = "authorize"
  <2>1. CASE Authorized BY <1>4, <2>1, AuthorityStays
  <2>2. CASE \A m \in ReleaseRun : dispatch[m].at = "authorize"
    <3>1. JobOf("authorize") = "authorize" BY DEF JobOf
    <3>2. at = "authorize" BY <1>1, <2>2, <3>1
    <3> QED BY <1>13, <1>14, <2>2, <3>2 DEF Turn
  <2> QED BY <1>3, <2>1, <2>2
<1> QED BY <1>6, <1>17, <1>18, <1>19 DEF ReleaseInv, ReleaseTypeOK, SiteTyped, SiteInv,
   NothingUnauthorized

LEMMA StopKeeps == ReleaseInv /\ StopRun => ReleaseInv'
<1> SUFFICES ASSUME ReleaseInv, StopRun PROVE ReleaseInv' OBVIOUS
<1>1. worker' = 0 /\ UNCHANGED siteVars /\ dispatch' = dispatch BY DEF StopRun
<1>2. SiteTyped /\ SiteInv /\ dispatch \in [ReleaseRun -> Dispatch]
      /\ (Authorized \/ \A m \in ReleaseRun : dispatch[m].at = "authorize")
  BY InvParts
<1>3. SiteSame BY <1>1, <1>2 DEF SiteSame, SiteTyped, siteVars
<1>4. SiteMoves /\ SiteInv' BY <1>2, <1>3, SiteStays
<1>5. \A m \in ReleaseRun : JobInOrder(m)' /\ worker' # m
  <2> TAKE m \in ReleaseRun
  <2>1. JobInOrder(m)' BY <1>1, <1>4, InvParts, JobStays
  <2> QED BY <1>1, <2>1, ReleaseAssumption
<1>6. Authorized' <=> Authorized BY <1>3, AuthorityStays DEF SiteSame
<1> QED BY <1>1, <1>2, <1>4, <1>5, <1>6 DEF ReleaseInv, ReleaseTypeOK, SiteTyped, SiteInv,
   NothingUnauthorized, SiteMoves

-----------------------------------------------------------------------------
(* A step of others: what the run that works relies on stays.                 *)
SameWork == \A m \in ReleaseRun :
  dispatch'[m].at = dispatch[m].at /\ dispatch'[m].next = dispatch[m].next /\ SameTask(dispatch'[m], dispatch[m])
SameListing == \A m \in ReleaseRun, k \in ReleaseNumber : Ours(k)' /\ ~pageMoved' =>
  Ours(k) /\ (PagesAbove(k)' >= PagesAbove(k) \/ dispatch[m].page <= 1)
SameContents == \A r \in ReleaseNumber : OneOfOurs(r) =>
  /\ handled' \/ (releases'[r].assets = releases[r].assets /\ (releases[r].state = "draft" => releases'[r].state = "draft"))
  /\ swapped' \/ (releases[r].state \in {"public", "locked"} =>
                    releases'[r].state \in {"public", "locked"} /\ releases'[r].assets = releases[r].assets)

LEMMA WorkStays ==
  ASSUME ReleaseInv, NEW m \in ReleaseRun, worker = m, SiteMoves, SameWork, SameListing, SameContents,
         \A i \in TrackedIssue : issue'[i].told = issue[i].told
  PROVE  WorkInOrder(m)'
<1>1. /\ dispatch'[m].at = dispatch[m].at /\ dispatch'[m].next = dispatch[m].next /\ dispatch'[m].build = dispatch[m].build
      /\ dispatch'[m].state = dispatch[m].state /\ dispatch'[m].page = dispatch[m].page /\ dispatch'[m].found = dispatch[m].found
      /\ dispatch'[m].release = dispatch[m].release /\ dispatch'[m].receipt = dispatch[m].receipt
  BY DEF SameWork, SameTask
<1>2. /\ ReleaseTypeOK /\ WorkInOrder(m)
      /\ \A a : LocalAsset(m, a)' = LocalAsset(m, a)
      /\ dispatch[m].found \in SUBSET (Nat \X ReleaseNumber)
  BY <1>1, Working, RunType DEF LocalAsset
<1>3. UploadInOrder(m)'
  <2>1. ASSUME NEW r \in Registry, index[r]["wheel"] = [build |-> dispatch[m].build, by |-> m]
        PROVE  index'[r]["wheel"] = index[r]["wheel"]
    <3>1. index[r]["wheel"].by = m /\ m # 0 BY <2>1, ReleaseAssumption
    <3>2. index[r]["wheel"] # NoContent BY <3>1 DEF NoContent
    <3>3. "wheel" \in Dist \cup {"extra"} BY DEF Dist
    <3> QED BY <3>2, <3>3 DEF SiteMoves
  <2> QED BY <1>1, <1>2, <2>1 DEF WorkInOrder, UploadInOrder
<1>4. ListInOrder(m)'
  <2>1. ASSUME dispatch[m].at = "list"
        PROVE  /\ dispatch[m].page # 0 /\ \A f \in dispatch[m].found : OneOfOurs(f[2])'
               /\ \A k \in ReleaseNumber : Ours(k)' /\ ~pageMoved' =>
                    (\E f \in dispatch[m].found : f[2] = k) \/ PagesAbove(k)' >= dispatch[m].page - 1
    <3>1. dispatch[m].page # 0 /\ \A f \in dispatch[m].found : OneOfOurs(f[2])
      BY <1>2, <2>1 DEF WorkInOrder, ListInOrder
    <3>2. \A f \in dispatch[m].found : OneOfOurs(f[2])'
      <4> TAKE f \in dispatch[m].found
      <4>1. PICK k \in ReleaseNumber : k = f[2] BY <1>2
      <4>2. OneOfOurs(k)' BY <3>1, <4>1 DEF SiteMoves
      <4> QED BY <4>1, <4>2
    <3>3. ASSUME NEW k \in ReleaseNumber, Ours(k)', ~pageMoved'
          PROVE  (\E f \in dispatch[m].found : f[2] = k) \/ PagesAbove(k)' >= dispatch[m].page - 1
      <4>1. ~pageMoved /\ Ours(k) /\ (PagesAbove(k)' >= PagesAbove(k) \/ dispatch[m].page <= 1)
        BY <3>3 DEF SameListing, SiteMoves
      <4>2. (\E f \in dispatch[m].found : f[2] = k) \/ PagesAbove(k) >= dispatch[m].page - 1
        BY <1>2, <2>1, <4>1 DEF WorkInOrder, ListInOrder
      <4>3. PagesAbove(k) \in Nat BY PagesType
      <4>4. PagesAbove(k)' \in Nat 
        <5> DEFINE S == {j \in ReleaseNumber : j > k /\ OnShelf(j)'}
        <5>1. PagesAbove(k)' = Cardinality(S) \div ReleasesPerPage BY DEF PagesAbove
        <5>2. IsFiniteSet(S) BY ReleaseAssumption, FS_Subset
        <5>3. Cardinality(S) \in Nat BY <5>2, FS_CardinalityType
        <5>4. ReleasesPerPage \in Nat \ {0} BY ReleaseAssumption
        <5> HIDE DEF S
        <5>5. Cardinality(S) \div ReleasesPerPage \in Nat BY <5>3, <5>4, Divides
        <5> QED BY <5>1, <5>5
      <4>5. dispatch[m].page \in Nat BY <1>2, RunType
      <4> QED BY <4>1, <4>2, <4>3, <4>4, <4>5
    <3> QED BY <3>1, <3>2, <3>3
  <2>2. dispatch[m].at = "create" /\ ~pageMoved' => \A k \in ReleaseNumber : ~Ours(k)'
    BY <1>2 DEF WorkInOrder, ListInOrder, SameListing, SiteMoves
  <2>3. dispatch[m].at \in ReleaseSteps => dispatch[m].release # 0 /\ OneOfOurs(dispatch[m].release)'
    <3> SUFFICES ASSUME dispatch[m].at \in ReleaseSteps PROVE dispatch[m].release # 0 /\ OneOfOurs(dispatch[m].release)' OBVIOUS
    <3>1. dispatch[m].release # 0 /\ OneOfOurs(dispatch[m].release) /\ dispatch[m].release \in ReleaseNumber
      BY <1>2, OnRelease DEF WorkInOrder, ListInOrder
    <3>2. PICK k \in ReleaseNumber : k = dispatch[m].release BY <3>1
    <3>3. OneOfOurs(k)' BY <3>1, <3>2 DEF SiteMoves
    <3> QED BY <1>1, <3>1, <3>2, <3>3
  <2> QED BY <1>1, <2>1, <2>2, <2>3 DEF ListInOrder, OneOfOurs
<1>5. FilledInOrder(m)'
  <2>1. CASE dispatch[m].at \notin ReleaseSteps BY <1>1, <2>1 DEF FilledInOrder, ReleaseSteps
  <2>2. CASE dispatch[m].at \in ReleaseSteps
    <3>1. PICK k \in ReleaseNumber : k = dispatch[m].release /\ OneOfOurs(k) BY <2>2, OnRelease
    <3>2. /\ handled' \/ (releases'[k].assets = releases[k].assets
                          /\ (releases[k].state = "draft" => releases'[k].state = "draft"))
          /\ swapped' \/ (releases[k].state \in {"public", "locked"} =>
                            releases'[k].state \in {"public", "locked"} /\ releases'[k].assets = releases[k].assets)
      BY <3>1 DEF SameContents
    <3>3. \A x : releases'[k].assets = releases[k].assets /\ Filled(m, k, x) => Filled(m, k, x)'
      BY <1>2 DEF Filled
    <3>4. \A x : Filled(m, dispatch[m].release, x)' <=> Filled(m, k, x)' BY <1>1, <3>1 DEF Filled
    <3>5. (~handled' => ~handled) /\ (~swapped' => ~swapped) BY DEF SiteMoves
    <3>10. PICK y : y = dispatch[m].next - 1 OBVIOUS
    <3>6. dispatch[m].at \in {"asset", "send"} /\ ~handled' => Filled(m, k, y)'
      BY <1>2, <3>1, <3>2, <3>3, <3>5, <3>10 DEF WorkInOrder, FilledInOrder
    <3>7. /\ dispatch[m].at = "send" /\ ~handled' => releases'[k].state = "draft"
          /\ dispatch[m].at \in {"publish", "patch"} /\ ~handled' => Filled(m, k, 4)'
      BY <1>2, <3>1, <3>2, <3>3, <3>5 DEF WorkInOrder, FilledInOrder
    <3>8. /\ dispatch[m].at \in {"readback", "await"} /\ ~swapped' => releases'[k].state \in {"public", "locked"}
          /\ dispatch[m].at = "await" /\ ~swapped' => Filled(m, k, 4)'
      BY <1>2, <3>1, <3>2, <3>3, <3>5 DEF WorkInOrder, FilledInOrder
    <3>9. /\ dispatch[m].at = "receipt" => dispatch[m].next = 1
          /\ dispatch[m].at \in ReleaseSteps \ {"receipt", "failed"} => dispatch[m].receipt.build = dispatch[m].build
          /\ dispatch[m].at \in {"asset", "send"} => dispatch[m].next \in 1..4
      BY <1>2 DEF WorkInOrder, FilledInOrder
    <3> QED BY <1>1, <3>1, <3>4, <3>6, <3>7, <3>8, <3>9, <3>10 DEF FilledInOrder
  <2> QED BY <2>1, <2>2
<1>6. ToldInOrder(m)'
  <2> SUFFICES ASSUME dispatch[m].at \in Telling PROVE ToldInOrder(m)' BY <1>1 DEF ToldInOrder, Telling
  <2>1. /\ dispatch[m].next \in 1..Len(Tracked) /\ Tracked[dispatch[m].next] \in TrackedIssue
        /\ swapped \/ \E k \in ReleaseNumber : Ours(k) /\ releases[k].state = "locked" /\ Filled(m, k, 4)
    BY OnIssue
  <2>2. swapped' \/ \E k \in ReleaseNumber : Ours(k)' /\ releases'[k].state = "locked" /\ Filled(m, k, 4)'
    <3> SUFFICES ASSUME ~swapped PROVE \E k \in ReleaseNumber : Ours(k)' /\ releases'[k].state = "locked" /\ Filled(m, k, 4)'
      BY DEF SiteMoves
    <3>1. PICK k \in ReleaseNumber : Ours(k) /\ releases[k].state = "locked" /\ Filled(m, k, 4) BY <2>1
    <3>2. releases'[k] = releases[k] BY <3>1 DEF SiteMoves
    <3>3. Ours(k)' /\ Filled(m, k, 4)' BY <1>2, <3>1, <3>2 DEF Ours, OnShelf, Filled
    <3> QED BY <3>1, <3>2, <3>3
  <2>3. issue'[Tracked[dispatch[m].next]].told = issue[Tracked[dispatch[m].next]].told BY <2>1
  <2>4. ReceiptBody(m)' = ReceiptBody(m) BY <1>1 DEF ReceiptBody
  <2>5. /\ dispatch[m].at = "comment" => issue[Tracked[dispatch[m].next]].told = <<>>
        /\ dispatch[m].at = "close" => issue[Tracked[dispatch[m].next]].told = <<ReceiptBody(m)>>
    BY <1>2 DEF WorkInOrder, ToldInOrder
  <2> QED BY <1>1, <2>1, <2>2, <2>3, <2>4, <2>5 DEF ToldInOrder
<1> QED BY <1>3, <1>4, <1>5, <1>6 DEF WorkInOrder

LEMMA OthersKeep ==
  ASSUME ReleaseInv, SiteMoves, SiteInv', worker' = worker, dispatch' \in [ReleaseRun -> Dispatch],
         SameWork, SameListing, SameContents, \A i \in TrackedIssue : issue'[i].told = issue[i].told
  PROVE  ReleaseInv'
<1>1. ASSUME NEW m \in ReleaseRun PROVE JobInOrder(m)' /\ (worker' = m => WorkInOrder(m)')
  <2>1. dispatch'[m].at = dispatch[m].at /\ dispatch'[m].build = dispatch[m].build BY DEF SameWork, SameTask
  <2>2. JobInOrder(m)' BY <2>1, InvParts, JobStays
  <2> QED BY <2>2, WorkStays
<1>2. Authorized' \/ \A n \in ReleaseRun : dispatch'[n].at = "authorize"
  BY InvParts, AuthorityStays DEF SiteMoves, SameWork
<1>3. SiteTyped' /\ worker' \in ReleaseRun \cup {0} BY InvParts DEF SiteMoves
<1> QED BY <1>1, <1>2, <1>3 DEF ReleaseInv, ReleaseTypeOK, SiteTyped, SiteInv, NothingUnauthorized

(* More releases before one of ours.                                          *)
LEMMA MorePages ==
  ASSUME NEW k, \A j \in ReleaseNumber : j > k /\ OnShelf(j) => OnShelf(j)'
  PROVE  PagesAbove(k)' >= PagesAbove(k)
<1> DEFINE S == {j \in ReleaseNumber : j > k /\ OnShelf(j)}
           T == {j \in ReleaseNumber : j > k /\ OnShelf(j)'}
<1>1. PagesAbove(k) = Cardinality(S) \div ReleasesPerPage /\ PagesAbove(k)' = Cardinality(T) \div ReleasesPerPage
  BY DEF PagesAbove
<1>2. IsFiniteSet(T) /\ S \subseteq T BY ReleaseAssumption, FS_Subset
<1> HIDE DEF S, T
<1>3. Cardinality(S) \in Nat /\ Cardinality(T) \in Nat /\ Cardinality(S) <= Cardinality(T)
  BY <1>2, FS_Subset, FS_CardinalityType
<1>4. ReleasesPerPage \in Nat \ {0} BY ReleaseAssumption
<1>5. Cardinality(S) \div ReleasesPerPage <= Cardinality(T) \div ReleasesPerPage BY <1>3, <1>4, DivGrows
<1>6. Cardinality(S) \div ReleasesPerPage \in Nat /\ Cardinality(T) \div ReleasesPerPage \in Nat
  BY <1>3, <1>4, Divides
<1> QED BY <1>1, <1>5, <1>6

LEMMA SameReleases ==
  ASSUME releases' = releases, pageMoved' = pageMoved
  PROVE  SameListing /\ SameContents
<1>1. \A k \in ReleaseNumber : (Ours(k)' <=> Ours(k)) /\ (OnShelf(k)' <=> OnShelf(k)) BY DEF Ours, OnShelf
<1>2. \A k \in ReleaseNumber : PagesAbove(k)' >= PagesAbove(k) BY <1>1, MorePages
<1> QED BY <1>1, <1>2 DEF SameListing, SameContents

LEMMA StutterKeeps == ReleaseInv /\ UNCHANGED releaseVars => ReleaseInv'
<1> SUFFICES ASSUME ReleaseInv, UNCHANGED releaseVars PROVE ReleaseInv' OBVIOUS
<1>1. SiteTyped /\ SiteInv /\ dispatch \in [ReleaseRun -> Dispatch] BY InvParts
<1>2. SiteSame /\ dispatch' = dispatch /\ worker' = worker BY <1>1 DEF SiteSame, SiteTyped, releaseVars
<1>3. SiteMoves /\ SiteInv' BY <1>1, <1>2, SiteStays
<1>4. SameListing /\ SameContents BY <1>2, SameReleases DEF SiteSame
<1>5. SameWork /\ \A i \in TrackedIssue : issue'[i].told = issue[i].told BY <1>2 DEF SameWork, SameTask, SiteSame
<1> QED BY <1>1, <1>2, <1>3, <1>4, <1>5, OthersKeep

LEMMA ExpireKeeps ==
  ASSUME ReleaseInv, NEW n \in ReleaseRun, ExpireArtifact(n)
  PROVE  ReleaseInv'
<1> DEFINE f == FALSE
           d == [dispatch[n] EXCEPT !.kept = f]
<1>1. /\ Interferes /\ worker' = worker /\ dispatch' = [dispatch EXCEPT ![n] = d]
      /\ UNCHANGED <<index, gitTag, releases, issue, handled, swapped, pageMoved, closed>>
  BY DEF ExpireArtifact, ghosts
<1>2. SiteTyped /\ SiteInv /\ ReleaseTypeOK /\ dispatch \in [ReleaseRun -> Dispatch] BY InvParts DEF ReleaseInv
<1>3. SiteSame BY <1>1, <1>2, WorldMoves DEF SiteSame
<1>4. SiteMoves /\ SiteInv' BY <1>2, <1>3, SiteStays
<1>5. dispatch[n] \in Dispatch /\ f \in BOOLEAN BY <1>2
<1> HIDE DEF f
<1>6. d \in Dispatch /\ d.at = dispatch[n].at /\ d.next = dispatch[n].next /\ SameTask(d, dispatch[n])
  BY <1>5 DEF Dispatch, SameTask
<1> HIDE DEF d
<1>7. Turn(n) /\ dispatch'[n] = d BY <1>1, <1>2, <1>6, Turns
<1>8. SameWork
  <2> SUFFICES ASSUME NEW m \in ReleaseRun
               PROVE  dispatch'[m].at = dispatch[m].at /\ dispatch'[m].next = dispatch[m].next /\ SameTask(dispatch'[m], dispatch[m])
    BY DEF SameWork
  <2>1. CASE m = n BY <1>6, <1>7, <2>1
  <2>2. CASE m # n BY <1>7, <2>2 DEF Turn, SameTask
  <2> QED BY <2>1, <2>2
<1>9. SameListing /\ SameContents BY <1>1, SameReleases
<1>10. \A i \in TrackedIssue : issue'[i].told = issue[i].told BY <1>1
<1> QED BY <1>1, <1>4, <1>7, <1>8, <1>9, <1>10, OthersKeep DEF Turn

(* People's steps.                                                            *)
LEMMA UploadByHandKeeps ==
  ASSUME ReleaseInv, NEW r \in Registry, NEW f \in Dist \cup {"extra"}, NEW b \in Build, UploadByHand(r, f, b)
  PROVE  ReleaseInv'
<1> DEFINE x == [build |-> b, by |-> 0]
<1>1. /\ Interferes /\ index[r][f] = NoContent /\ index' = [index EXCEPT ![r][f] = x]
      /\ dispatch' = dispatch /\ worker' = worker /\ gitTag' = gitTag /\ releases' = releases /\ issue' = issue /\ closed' = closed
      /\ UNCHANGED <<handled, swapped, pageMoved>>
  BY DEF UploadByHand, ghosts, runVars
<1>2. SiteTyped /\ SiteInv /\ dispatch \in [ReleaseRun -> Dispatch] BY InvParts
<1>3. x \in Content /\ x.by = 0 BY DEF Content
<1> HIDE DEF x
<1>4. world' \in World /\ world'.request = world.request BY <1>1, <1>2, WorldMoves
<1>5. closed' \subseteq TrackedIssue BY <1>1, <1>2 DEF SiteTyped
<1>6. SiteMoves /\ Uploaded(r, f, x) BY <1>1, <1>2, <1>3, <1>4, <1>5, Uploading
<1>7. \A s \in Registry, g \in Dist : index'[s][g].by # 0 => index'[s][g] = index[s][g]
  BY <1>3, <1>6 DEF Uploaded
<1>8. RegistriesInOrder'
  <2>1. ASSUME NEW s \in Registry, index'[s]["sdist"].by # 0
        PROVE  index'[s]["wheel"].by # 0 /\ index'[s]["wheel"].build = index'[s]["sdist"].build
    <3>1. "sdist" \in Dist /\ "wheel" \in Dist BY DEF Dist
    <3>2. index'[s]["sdist"] = index[s]["sdist"] BY <1>7, <2>1, <3>1
    <3>3. index[s]["wheel"].by # 0 /\ index[s]["wheel"].build = index[s]["sdist"].build
      BY <1>2, <2>1, <3>2 DEF SiteInv, RegistriesInOrder
    <3>4. index'[s]["wheel"] = index[s]["wheel"] BY <1>6, <3>1, <3>3 DEF SiteMoves, NoContent
    <3> QED BY <3>2, <3>3, <3>4
  <2>2. ASSUME NEW g \in Dist, index'["pypi"][g].by # 0 PROVE Verified("testpypi", index["pypi"][g].build)'
    <3>1. "pypi" \in Registry /\ "testpypi" \in Registry BY DEF Registry
    <3>2. index'["pypi"][g] = index["pypi"][g] BY <1>7, <2>2, <3>1
    <3>3. PICK c : c = index["pypi"][g].build OBVIOUS
    <3>4. Verified("testpypi", c) BY <1>2, <2>2, <3>2, <3>3 DEF SiteInv, RegistriesInOrder
    <3>5. Verified("testpypi", c)' BY <1>6, <3>1, <3>4, VerifiedStays
    <3> QED BY <3>2, <3>3, <3>5 DEF Verified, ReviewedDigests, FromThisWorkflow
  <2> QED BY <2>1, <2>2 DEF RegistriesInOrder
<1>9. OnlyAuthorized'
  <2>1. CASE Authorized BY <1>4, <2>1, AuthorityStays DEF OnlyAuthorized
  <2>2. CASE ~Authorized
    <3>1. \A s \in Registry, g \in Dist : index'[s][g].by = 0
      BY <1>2, <1>7, <2>2 DEF SiteInv, OnlyAuthorized
    <3> QED BY <1>1, <1>2, <2>2, <3>1 DEF SiteInv, OnlyAuthorized
  <2> QED BY <2>1, <2>2
<1>10. SiteInv' BY <1>1, <1>2, <1>6, <1>8, <1>9, PublishedStays
<1>11. SameListing /\ SameContents BY <1>1, SameReleases
<1>12. SameWork /\ \A i \in TrackedIssue : issue'[i].told = issue[i].told BY <1>1 DEF SameWork, SameTask
<1> QED BY <1>1, <1>2, <1>6, <1>10, <1>11, <1>12, OthersKeep

LEMMA TagByHandKeeps ==
  ASSUME ReleaseInv, NEW kind \in {"plain", "other"}, TagByHand(kind)
  PROVE  ReleaseInv'
<1>1. /\ Interferes /\ gitTag = "none" /\ gitTag' = kind
      /\ dispatch' = dispatch /\ worker' = worker /\ index' = index /\ releases' = releases /\ issue' = issue /\ closed' = closed
      /\ UNCHANGED <<handled, swapped, pageMoved>>
  BY DEF TagByHand, ghosts, runVars
<1>2. SiteTyped /\ SiteInv /\ dispatch \in [ReleaseRun -> Dispatch] BY InvParts
<1>3. world' \in World /\ world'.request = world.request BY <1>1, <1>2, WorldMoves
<1>4. SiteMoves
  <2>1. \A k \in ReleaseNumber : OneOfOurs(k) => OneOfOurs(k)' BY <1>1 DEF OneOfOurs
  <2> QED BY <1>1, <1>2, <1>3, <2>1 DEF SiteMoves, SiteTyped
<1>5. RegistriesInOrder' BY <1>1, <1>2 DEF SiteInv, RegistriesInOrder, Verified, ReviewedDigests, FromThisWorkflow
<1>6. OnlyAuthorized'
  <2>1. CASE Authorized BY <1>3, <2>1, AuthorityStays DEF OnlyAuthorized
  <2>2. CASE ~Authorized BY <1>1, <1>2, <2>2 DEF SiteInv, OnlyAuthorized
  <2> QED BY <2>1, <2>2
<1>7. SiteInv' BY <1>1, <1>2, <1>4, <1>5, <1>6, PublishedStays
<1>8. SameListing /\ SameContents BY <1>1, SameReleases
<1>9. SameWork /\ \A i \in TrackedIssue : issue'[i].told = issue[i].told BY <1>1 DEF SameWork, SameTask
<1> QED BY <1>1, <1>2, <1>4, <1>7, <1>8, <1>9, OthersKeep

LEMMA TouchKeeps ==
  ASSUME ReleaseInv, NEW i \in TrackedIssue, IssueByHand(i)
  PROVE  ReleaseInv'
<1>1. SiteTyped /\ SiteInv /\ dispatch \in [ReleaseRun -> Dispatch] BY InvParts
<1>2. PICK x \in StoredIssue : TouchIssue(i, x) /\ x.told = issue[i].told
  <2>1. issue[i] \in StoredIssue BY <1>1 DEF SiteTyped
  <2>2. ASSUME NEW s \in {"open", "completed", "rejected"} PROVE [issue[i] EXCEPT !.state = s] \in StoredIssue
    BY <2>1 DEF StoredIssue
  <2>3. [issue[i] EXCEPT !.imitated = TRUE] \in StoredIssue BY <2>1 DEF StoredIssue
  <2>4. \A s : [issue[i] EXCEPT !.state = s].told = issue[i].told BY <2>1 DEF StoredIssue
  <2>5. [issue[i] EXCEPT !.imitated = TRUE].told = issue[i].told BY <2>1 DEF StoredIssue
  <2> QED BY <2>2, <2>3, <2>4, <2>5 DEF IssueByHand
<1>3. /\ Interferes /\ issue' = [issue EXCEPT ![i] = x] /\ closed' = closed \ {i}
      /\ dispatch' = dispatch /\ worker' = worker /\ UNCHANGED <<index, gitTag, releases, handled, swapped, pageMoved>>
  BY <1>2 DEF TouchIssue, ghosts, runVars
<1>4. world' \in World /\ world'.request = world.request BY <1>1, <1>3, WorldMoves
<1>5. closed' \subseteq TrackedIssue /\ i \notin closed' /\ \A j \in closed' : j = i \/ j \in closed
  BY <1>1, <1>3 DEF SiteTyped
<1>6. Len(x.told) <= 1 BY <1>1, <1>2 DEF SiteInv, OneReceipt
<1>7. \A j \in TrackedIssue : issue'[j].told = issue[j].told BY <1>1, <1>2, <1>3 DEF SiteTyped
<1>8. OnlyAuthorized'
  <2>1. CASE Authorized BY <1>4, <2>1, AuthorityStays DEF OnlyAuthorized
  <2>2. CASE ~Authorized BY <1>1, <1>3, <1>7, <2>2 DEF SiteInv, OnlyAuthorized
  <2> QED BY <2>1, <2>2
<1>9. SiteMoves /\ SiteInv' BY <1>1, <1>3, <1>4, <1>5, <1>6, <1>8, IssueChanges
<1>10. SameListing /\ SameContents BY <1>3, SameReleases
<1>11. SameWork BY <1>3 DEF SameWork, SameTask
<1> QED BY <1>1, <1>3, <1>7, <1>9, <1>10, <1>11, OthersKeep

LEMMA LockKeeps ==
  ASSUME ReleaseInv, NEW k \in ReleaseNumber, LockRelease(k)
  PROVE  ReleaseInv'
<1> DEFINE s == "locked"
           r == [releases[k] EXCEPT !.state = s]
<1>1. /\ Ours(k) /\ releases[k].state = "public" /\ releases' = [releases EXCEPT ![k] = r]
      /\ dispatch' = dispatch /\ worker' = worker
      /\ UNCHANGED <<world, index, gitTag, issue, handled, swapped, pageMoved, closed>>
  BY DEF LockRelease, ghosts, runVars
<1>2. SiteTyped /\ SiteInv /\ dispatch \in [ReleaseRun -> Dispatch] BY InvParts
<1>3. releases[k] \in StoredRelease BY <1>2 DEF SiteTyped
<1>4. r \in StoredRelease /\ r.assets = releases[k].assets /\ r.state = "locked" /\ r.ours = releases[k].ours
  BY <1>3 DEF StoredRelease
<1> HIDE DEF r
<1>5. Authorized BY <1>1, <1>2 DEF SiteInv, OnlyAuthorized, Ours
<1>6. world' \in World /\ world'.request = world.request BY <1>1, <1>2 DEF SiteTyped
<1>7. (OneOfOurs(k) => r.ours /\ r.state # "unused") /\ (Ours(k) /\ releases[k].state = "locked" => r = releases[k])
  BY <1>1, <1>4 DEF OneOfOurs
<1>8. /\ SiteMoves /\ OneChanged(k, r)
      /\ \A j \in ReleaseNumber : j # k =>
           (Ours(j)' <=> Ours(j)) /\ (OnShelf(j)' <=> OnShelf(j)) /\ \A b : Delivered(j, b)' <=> Delivered(j, b)
  BY <1>1, <1>2, <1>4, <1>6, <1>7, OneChanges
<1>9. \A j \in ReleaseNumber :
        /\ (Ours(j)' <=> Ours(j)) /\ (OnShelf(j)' <=> OnShelf(j)) /\ releases'[j].assets = releases[j].assets
        /\ releases'[j].state = "draft" <=> releases[j].state = "draft"
        /\ releases[j].state = "locked" => releases'[j].state = "locked"
        /\ releases[j].state = "public" => releases'[j].state \in {"public", "locked"}
  BY <1>1, <1>4, <1>8 DEF OneChanged, Ours, OnShelf
<1>10. SiteInv'
  <2>1. OneRelease' /\ OnePublic' BY <1>1, <1>2, <1>9 DEF SiteInv, OneRelease, OnePublic, TagFree
  <2>2. OnlyAuthorized' BY <1>5, <1>6, AuthorityStays DEF OnlyAuthorized
  <2>3. ~handled' => \E b \in Build : Delivered(k, b)'
    <3> SUFFICES ASSUME ~handled' PROVE \E b \in Build : Delivered(k, b)' OBVIOUS
    <3>1. PICK b \in Build : Delivered(k, b) BY <1>1, <1>2 DEF SiteInv, PublicIsWhole
    <3>2. Delivered(k, b)' BY <1>1, <1>9, <3>1 DEF Delivered, Verified, ReviewedDigests, FromThisWorkflow
    <3> QED BY <3>2
  <2> QED BY <1>1, <1>2, <1>8, <2>1, <2>2, <2>3, OneChangeKeeps
<1>11. SameListing
  <2>1. \A j \in ReleaseNumber : PagesAbove(j)' >= PagesAbove(j) BY <1>9, MorePages
  <2> QED BY <1>9, <2>1 DEF SameListing
<1>12. SameContents BY <1>9 DEF SameContents
<1>13. SameWork /\ \A i \in TrackedIssue : issue'[i].told = issue[i].told BY <1>1 DEF SameWork, SameTask
<1> QED BY <1>1, <1>2, <1>8, <1>10, <1>11, <1>12, <1>13, OthersKeep

(* What an edit leaves of a release.                                          *)
LEMMA Edits ==
  ASSUME SiteTyped, SiteInv, NEW k \in ReleaseNumber, EditByHand(k)
  PROVE  \E r \in StoredRelease :
           EditRelease(k, r) /\ r.ours /\ r.state \in {"draft", "public", "deleted"} /\ (r.state = "public" => TagFree(k))
<1>1. releases[k] \in StoredRelease BY DEF SiteTyped
<1>2. ASSUME NEW r \in StoredRelease, EditRelease(k, r), r.ours = releases[k].ours, r.state = releases[k].state
      PROVE  r.ours /\ r.state \in {"draft", "public", "deleted"} /\ (r.state = "public" => TagFree(k))
  <2>1. Ours(k) /\ releases[k].state # "locked" BY <1>2 DEF EditRelease
  <2> QED BY <1>2, <2>1 DEF Ours, OnShelf, SiteInv, OnePublic
<1>3. CASE EditRelease(k, [releases[k] EXCEPT !.exact = FALSE])
  <2> DEFINE f == FALSE
             r == [releases[k] EXCEPT !.exact = f]
  <2>1. EditRelease(k, r) BY <1>3
  <2>2. f \in BOOLEAN OBVIOUS
  <2> HIDE DEF f
  <2>3. r \in StoredRelease /\ r.ours = releases[k].ours /\ r.state = releases[k].state
    BY <1>1, <2>2 DEF StoredRelease
  <2> HIDE DEF r
  <2> QED BY <1>2, <2>1, <2>3
<1>4. ASSUME NEW s \in {"draft", "public", "deleted"}, s = "public" => TagFree(k),
             EditRelease(k, [releases[k] EXCEPT !.state = s])
      PROVE  \E r \in StoredRelease :
               EditRelease(k, r) /\ r.ours /\ r.state \in {"draft", "public", "deleted"} /\ (r.state = "public" => TagFree(k))
  <2> DEFINE r == [releases[k] EXCEPT !.state = s]
  <2>1. EditRelease(k, r) /\ Ours(k) BY <1>4 DEF EditRelease
  <2>2. r \in StoredRelease /\ r.ours = releases[k].ours /\ r.state = s BY <1>1 DEF StoredRelease
  <2> HIDE DEF r
  <2> QED BY <1>4, <2>1, <2>2 DEF Ours
<1>5. ASSUME NEW a \in Asset, NEW c \in {NoContent} \cup [build : Build, by : {0}],
             EditRelease(k, [releases[k] EXCEPT !.assets[a] = c])
      PROVE  \E r \in StoredRelease :
               EditRelease(k, r) /\ r.ours /\ r.state \in {"draft", "public", "deleted"} /\ (r.state = "public" => TagFree(k))
  <2> DEFINE A == [releases[k].assets EXCEPT ![a] = c]
             r == [releases[k] EXCEPT !.assets = A]
  <2>1. EditRelease(k, r) BY <1>5
  <2>2. c \in Content BY DEF Content, NoContent
  <2>3. A \in [Asset -> Content] BY <1>1, <2>2 DEF StoredRelease
  <2> HIDE DEF A
  <2>4. r \in StoredRelease /\ r.ours = releases[k].ours /\ r.state = releases[k].state
    BY <1>1, <2>3 DEF StoredRelease
  <2> HIDE DEF r
  <2> QED BY <1>2, <2>1, <2>4
<1> QED BY <1>3, <1>4, <1>5 DEF EditByHand

LEMMA EditKeeps ==
  ASSUME ReleaseInv, NEW k \in ReleaseNumber, EditByHand(k)
  PROVE  ReleaseInv'
<1>1. SiteTyped /\ SiteInv /\ dispatch \in [ReleaseRun -> Dispatch] BY InvParts
<1>2. PICK r \in StoredRelease :
        EditRelease(k, r) /\ r.ours /\ r.state \in {"draft", "public", "deleted"} /\ (r.state = "public" => TagFree(k))
  BY <1>1, Edits
<1>3. /\ Interferes /\ Ours(k) /\ releases[k].state # "locked" /\ releases' = [releases EXCEPT ![k] = r]
      /\ handled' = TRUE /\ swapped' = (swapped \/ releases[k].state = "public") /\ pageMoved' = pageMoved
      /\ dispatch' = dispatch /\ worker' = worker /\ UNCHANGED <<index, gitTag, issue, closed>>
  BY <1>2 DEF EditRelease, runVars
<1>4. Authorized BY <1>1, <1>3 DEF SiteInv, OnlyAuthorized, Ours
<1>5. world' \in World /\ world'.request = world.request BY <1>1, <1>3, WorldMoves
<1>6. /\ (OneOfOurs(k) => r.ours /\ r.state # "unused") /\ (Ours(k) /\ releases[k].state = "locked" => r = releases[k])
      /\ (swapped => swapped') /\ (handled => handled') /\ (pageMoved => pageMoved')
  BY <1>2, <1>3
<1>7. /\ SiteMoves /\ OneChanged(k, r)
      /\ \A j \in ReleaseNumber : j # k =>
           (Ours(j)' <=> Ours(j)) /\ (OnShelf(j)' <=> OnShelf(j)) /\ \A b : Delivered(j, b)' <=> Delivered(j, b)
  BY <1>1, <1>3, <1>5, <1>6, OneChanges
<1>8. \A j \in ReleaseNumber : Ours(j)' => Ours(j) BY <1>3, <1>7
<1>9. SiteInv'
  <2>1. OneRelease' BY <1>1, <1>3, <1>8 DEF SiteInv, OneRelease
  <2>2. OnePublic'
    <3>1. \A j \in ReleaseNumber : j # k /\ Ours(j)' /\ releases'[j].state # "draft" => Ours(j) /\ releases[j].state # "draft"
      BY <1>7 DEF OneChanged
    <3>2. CASE r.state # "public"
      <4>1. ~(Ours(k)' /\ releases'[k].state # "draft") BY <1>2, <1>7, <3>2 DEF OneChanged, Ours, OnShelf
      <4> QED BY <1>1, <3>1, <4>1 DEF SiteInv, OnePublic, TagFree
    <3>3. CASE r.state = "public"
      <4>1. \A j \in ReleaseNumber : Ours(j)' /\ releases'[j].state # "draft" => j = k
        BY <1>2, <3>1, <3>3 DEF TagFree
      <4> QED BY <4>1 DEF OnePublic, TagFree
    <3> QED BY <3>2, <3>3
  <2>3. OnlyAuthorized' BY <1>4, <1>5, AuthorityStays DEF OnlyAuthorized
  <2>4. ~(Ours(k)' /\ r.state # "draft" /\ ~handled') BY <1>3
  <2> QED BY <1>1, <1>3, <1>7, <2>1, <2>2, <2>3, <2>4, OneChangeKeeps
<1>10. SameListing
  <2> SUFFICES ASSUME NEW m \in ReleaseRun, NEW j \in ReleaseNumber, Ours(j)', ~pageMoved'
               PROVE  Ours(j) /\ (PagesAbove(j)' >= PagesAbove(j) \/ dispatch[m].page <= 1)
    BY DEF SameListing
  <2>1. Ours(j) /\ j = k BY <1>1, <1>3, <1>8 DEF SiteInv, OneRelease
  <2>2. \A i \in ReleaseNumber : i > k /\ OnShelf(i) => OnShelf(i)' BY <1>7, ReleaseAssumption
  <2>3. PagesAbove(k)' >= PagesAbove(k) BY <2>2, MorePages
  <2> QED BY <2>1, <2>3
<1>11. SameContents
  <2> SUFFICES ASSUME NEW j \in ReleaseNumber
               PROVE  swapped' \/ (releases[j].state \in {"public", "locked"} =>
                                     releases'[j].state \in {"public", "locked"} /\ releases'[j].assets = releases[j].assets)
    BY <1>3 DEF SameContents
  <2>1. CASE j = k BY <1>3, <2>1 DEF Ours, OnShelf
  <2>2. CASE j # k BY <1>7, <2>2 DEF OneChanged
  <2> QED BY <2>1, <2>2
<1>12. SameWork /\ \A i \in TrackedIssue : issue'[i].told = issue[i].told BY <1>3 DEF SameWork, SameTask
<1> QED BY <1>1, <1>3, <1>7, <1>9, <1>10, <1>11, <1>12, OthersKeep

(* A release of another version comes or goes.                                *)
LEMMA OtherKeeps ==
  ASSUME ReleaseInv, NEW k \in ReleaseNumber, NEW r \in StoredRelease, Interferes, ~OneOfOurs(k), ~r.ours,
         releases' = [releases EXCEPT ![k] = r],
         UNCHANGED <<index, gitTag, issue, handled, swapped, closed>>, UNCHANGED runVars, pageMoved => pageMoved',
         OnShelf(k)' \/ pageMoved' \/ \A m \in ReleaseRun : dispatch[m].page <= 1
  PROVE  ReleaseInv'
<1>1. SiteTyped /\ SiteInv /\ dispatch \in [ReleaseRun -> Dispatch] BY InvParts
<1>2. world' \in World /\ world'.request = world.request BY <1>1, WorldMoves
<1>3. /\ SiteMoves /\ OneChanged(k, r)
      /\ \A j \in ReleaseNumber : j # k =>
           (Ours(j)' <=> Ours(j)) /\ (OnShelf(j)' <=> OnShelf(j)) /\ \A b : Delivered(j, b)' <=> Delivered(j, b)
  <2>1. ~(Ours(k) /\ releases[k].state = "locked") BY DEF OneOfOurs, Ours, OnShelf
  <2> QED BY <1>1, <1>2, <2>1, OneChanges
<1>4. ~Ours(k) /\ ~Ours(k)' BY <1>3 DEF OneOfOurs, Ours, OnShelf, OneChanged
<1>5. \A j \in ReleaseNumber : (Ours(j)' <=> Ours(j)) /\ (Ours(j) => releases'[j] = releases[j])
  BY <1>3, <1>4 DEF OneChanged
<1>6. SiteInv'
  <2>1. OneRelease' BY <1>1, <1>5 DEF SiteInv, OneRelease
  <2>2. OnePublic' BY <1>1, <1>5 DEF SiteInv, OnePublic, TagFree
  <2>3. OnlyAuthorized'
    <3>1. CASE Authorized BY <1>2, <3>1, AuthorityStays DEF OnlyAuthorized
    <3>2. CASE ~Authorized
      <4>1. \A j \in ReleaseNumber : ~releases'[j].ours
        BY <1>1, <1>3, <3>2 DEF SiteInv, OnlyAuthorized, OneChanged
      <4> QED BY <1>1, <3>2, <4>1 DEF SiteInv, OnlyAuthorized
    <3> QED BY <3>1, <3>2
  <2> QED BY <1>1, <1>3, <1>4, <2>1, <2>2, <2>3, OneChangeKeeps
<1>7. SameListing
  <2> SUFFICES ASSUME NEW m \in ReleaseRun, NEW j \in ReleaseNumber, Ours(j)', ~pageMoved'
               PROVE  Ours(j) /\ (PagesAbove(j)' >= PagesAbove(j) \/ dispatch[m].page <= 1)
    BY DEF SameListing
  <2>1. OnShelf(k)' => \A i \in ReleaseNumber : i > j /\ OnShelf(i) => OnShelf(i)' BY <1>3
  <2>2. OnShelf(k)' => PagesAbove(j)' >= PagesAbove(j) BY <2>1, MorePages
  <2> QED BY <1>5, <2>2
<1>8. SameContents
  <2>1. \A j \in ReleaseNumber : OneOfOurs(j) => releases'[j] = releases[j] BY <1>3 DEF OneChanged
  <2> QED BY <2>1 DEF SameContents
<1>9. SameWork /\ (\A i \in TrackedIssue : issue'[i].told = issue[i].told) /\ worker' = worker /\ dispatch' = dispatch
  BY DEF SameWork, SameTask, runVars
<1> QED BY <1>1, <1>3, <1>6, <1>7, <1>8, <1>9, OthersKeep

LEMMA NoAssetsType == NoAssets \in [Asset -> Content]
<1>1. NoContent \in Content BY DEF NoContent, Content
<1> QED BY <1>1 DEF NoAssets

LEMMA OthersMoveKeep ==
  ASSUME ReleaseInv, NEW k \in ReleaseNumber, AddOther(k) \/ DeleteOther(k)
  PROVE  ReleaseInv'
<1>1. SiteTyped BY InvParts
<1>2. CASE AddOther(k)
  <2>1. Other \in StoredRelease /\ Other.state = "locked" /\ ~Other.ours
    BY NoAssetsType DEF Other, StoredRelease
  <2>2. ~OneOfOurs(k) BY <1>2, ReleaseAssumption DEF AddOther, Fresh, OneOfOurs
  <2>3. /\ Interferes /\ releases' = [releases EXCEPT ![k] = Other] /\ pageMoved' = pageMoved
        /\ UNCHANGED <<index, gitTag, issue, handled, swapped, closed>> /\ UNCHANGED runVars
    BY <1>2 DEF AddOther, ghosts
  <2>4. OnShelf(k)' BY <1>1, <2>1, <2>3 DEF OnShelf, SiteTyped
  <2> QED BY <2>1, <2>2, <2>3, <2>4, OtherKeeps
<1>3. CASE DeleteOther(k)
  <2> DEFINE s == "deleted"
             r == [releases[k] EXCEPT !.state = s]
  <2>1. /\ Interferes /\ ~releases[k].ours /\ releases' = [releases EXCEPT ![k] = r]
        /\ pageMoved' = (pageMoved \/ \E n \in ReleaseRun : dispatch[n].page > 1)
        /\ UNCHANGED <<index, gitTag, issue, handled, swapped, closed>> /\ UNCHANGED runVars
    BY <1>3 DEF DeleteOther
  <2>2. ~OneOfOurs(k) BY <2>1 DEF OneOfOurs
  <2>3. releases[k] \in StoredRelease BY <1>1 DEF SiteTyped
  <2>4. r \in StoredRelease /\ ~r.ours BY <2>1, <2>3 DEF StoredRelease
  <2> HIDE DEF r
  <2>5. pageMoved' \/ \A m \in ReleaseRun : dispatch[m].page <= 1
    <3>1. \A m \in ReleaseRun : dispatch[m].page \in Nat BY RunType DEF ReleaseInv
    <3>2. (\E n \in ReleaseRun : dispatch[n].page > 1) \/ \A m \in ReleaseRun : dispatch[m].page <= 1 BY <3>1
    <3>3. (\E n \in ReleaseRun : dispatch[n].page > 1) => pageMoved' BY <2>1, Zenon
    <3> QED BY <3>2, <3>3
  <2>6. pageMoved => pageMoved' BY <2>1, Zenon
  <2> QED BY <2>1, <2>2, <2>4, <2>5, <2>6, OtherKeeps
<1> QED BY <1>2, <1>3

-----------------------------------------------------------------------------

(* All of it together.                                                        *)
LEMMA ReleaseStarts == ReleaseInit => ReleaseInv
<1> SUFFICES ASSUME ReleaseInit PROVE ReleaseInv OBVIOUS
<1>1. /\ world \in World /\ gitTag = "none" /\ worker = 0 /\ closed = {}
      /\ index = [r \in Registry |-> [f \in Dist \cup {"extra"} |-> NoContent]]
      /\ handled = FALSE /\ swapped = FALSE /\ pageMoved = FALSE
  BY ReleaseWorldsAssumption DEF ReleaseInit
<1>2. NoContent \in Content /\ NoContent.by = 0 BY DEF NoContent, Content
<1>3. /\ index \in [Registry -> [Dist \cup {"extra"} -> Content]]
      /\ \A r \in Registry, f \in Dist : index[r][f].by = 0
  BY <1>1, <1>2
<1>4. Other \in StoredRelease /\ Unused \in StoredRelease BY NoAssetsType DEF Other, Unused, StoredRelease
<1>5. ~Other.ours /\ ~Unused.ours BY DEF Other, Unused
<1>6. releases \in [ReleaseNumber -> StoredRelease] /\ \A k \in ReleaseNumber : ~releases[k].ours
  <2>1. releases = [k \in ReleaseNumber |-> IF k <= world.others THEN Other ELSE Unused] BY DEF ReleaseInit
  <2> HIDE DEF Other, Unused
  <2> QED BY <1>4, <1>5, <2>1
<1>7. issue \in [TrackedIssue -> StoredIssue] /\ \A i \in TrackedIssue : issue[i].told = <<>>
  <2> DEFINE told == <<>>
             x == [state |-> "open", told |-> told, imitated |-> FALSE]
  <2>1. issue = [i \in TrackedIssue |-> x] BY DEF ReleaseInit
  <2>2. told \in Seq(Content) OBVIOUS
  <2> HIDE DEF told
  <2>3. x \in StoredIssue /\ x.told = told BY <2>2 DEF StoredIssue
  <2> HIDE DEF x
  <2> QED BY <2>1, <2>3 DEF told
<1>8. NewRun \in Dispatch /\ NewRun.at = "authorize"
  <2> DEFINE st == [r \in Registry |-> "refused"]
             none == {}
  <2>1. st \in [Registry -> {"refused", "publish", "already"}] /\ none \in SUBSET (Nat \X ReleaseNumber) OBVIOUS
  <2> DEFINE A == NoAssets
             c == NoContent
             run == [at |-> "authorize", build |-> "missing", state |-> st, kept |-> FALSE, next |-> 1, page |-> 0,
                     found |-> none, release |-> 0, draft |-> FALSE, seen |-> A, receipt |-> c, open |-> FALSE]
  <2>2. A \in [Asset -> Content] /\ c \in Content BY <1>2, NoAssetsType
  <2>3. NewRun = run BY DEF NewRun
  <2> HIDE DEF st, none, A, c
  <2>4. run \in Dispatch /\ run.at = "authorize" BY <2>1, <2>2 DEF Dispatch
  <2> QED BY <2>3, <2>4
<1>9. dispatch \in [ReleaseRun -> Dispatch] /\ \A n \in ReleaseRun : dispatch[n].at = "authorize"
  <2>1. dispatch = [n \in ReleaseRun |-> NewRun] BY DEF ReleaseInit
  <2> QED BY <1>8, <2>1
<1>10. SiteTyped BY <1>1, <1>3, <1>6, <1>7 DEF SiteTyped
<1>11. \A k \in ReleaseNumber : ~Ours(k) BY <1>6 DEF Ours
<1>12. SiteInv
  <2>1. RegistriesInOrder
    <3>1. "sdist" \in Dist /\ "pypi" \in Registry BY DEF Dist, Registry
    <3> QED BY <1>3, <3>1 DEF RegistriesInOrder
  <2>2. OneRelease /\ OnePublic /\ PublicIsWhole BY <1>11 DEF OneRelease, OnePublic, PublicIsWhole
  <2>3. OneReceipt
    <3>1. Len(<<>>) <= 1 OBVIOUS
    <3> QED BY <1>7, <3>1 DEF OneReceipt
  <2>4. ClosedIsDelivered BY <1>1 DEF ClosedIsDelivered
  <2>5. OnlyAuthorized BY <1>1, <1>3, <1>6, <1>7 DEF OnlyAuthorized
  <2> QED BY <2>1, <2>2, <2>3, <2>4, <2>5 DEF SiteInv
<1>13. \A n \in ReleaseRun : JobInOrder(n) /\ worker # n
  <2> TAKE n \in ReleaseRun
  <2>1. dispatch[n].at \notin BuiltSteps /\ dispatch[n].at \notin PypiSteps /\ dispatch[n].at \notin TagSteps
    BY <1>9 DEF BuiltSteps, PypiSteps, TagSteps, ReleaseSteps
  <2> QED BY <1>1, <2>1, ReleaseAssumption DEF JobInOrder
<1> QED BY <1>1, <1>9, <1>10, <1>12, <1>13, InvParts

LEMMA PublishingKeeps ==
  ASSUME ReleaseInv, NEW n \in ReleaseRun, Publishing(n)
  PROVE  ReleaseInv'
<1>1. "testpypi" \in Registry /\ "pypi" \in Registry BY DEF Registry
<1>2. Classify(n, "testpypi", "testpypi-state", "pypi-state") \/ Classify(n, "pypi", "pypi-state", "testpypi") => ReleaseInv'
  BY <1>1, ClassifyKeeps
<1>3. UploadDist(n, "testpypi", "testpypi-check") \/ UploadDist(n, "pypi", "pypi-check") => ReleaseInv' BY UploadKeeps
<1>4. SkipPublication(n, "testpypi", "testpypi-check") \/ SkipPublication(n, "pypi", "pypi-check") => ReleaseInv'
  BY SkipKeeps
<1>5. VerifyRegistry(n, "testpypi", "testpypi-check", "pypi") \/ VerifyRegistry(n, "pypi", "pypi-check", "tag") => ReleaseInv'
  BY VerifyKeeps
<1> QED BY <1>2, <1>3, <1>4, <1>5, AuthorizeKeeps, BuildKeeps DEF Publishing

LEMMA ReleasingKeeps ==
  ASSUME ReleaseInv, NEW n \in ReleaseRun, Releasing(n)
  PROVE  ReleaseInv'
BY PushTagKeeps, DiscoverKeeps, ListPageKeeps, CreateKeeps, ReceiptKeeps, CompareKeeps,
   CheckUploadKeeps, SendKeeps,
   SendBrokenKeeps, CheckPublicationKeeps, PublishKeeps, ReadBackKeeps, AwaitKeeps, ReadIssueKeeps, CommentKeeps,
   RecheckKeeps, CloseKeeps, ConfirmKeeps
DEF Releasing

LEMMA InterferingKeeps == ReleaseInv /\ Interfering => ReleaseInv'
BY UploadByHandKeeps, TagByHandKeeps, EditKeeps, OthersMoveKeep, TouchKeeps, ExpireKeeps
   DEF Interfering

LEMMA ReleaseStands == ReleaseInv /\ [ReleaseNext]_releaseVars => ReleaseInv'
BY StartKeeps, PublishingKeeps, ReleasingKeeps, StopKeeps, LockKeeps, InterferingKeeps,
   StutterKeeps DEF ReleaseNext

LEMMA ReleaseInvSafe == ReleaseInv => ReleaseSafe
<1> SUFFICES ASSUME ReleaseInv PROVE ReleaseSafe OBVIOUS
<1>1. RegistriesInOrder /\ OneRelease /\ OneReceipt /\ ClosedIsDelivered /\ PublicIsWhole /\ OnlyAuthorized
  BY DEF ReleaseInv, NothingUnauthorized
<1>2. RegistriesAgree
  <2> SUFFICES ASSUME NEW r \in Registry, NEW f \in Dist, index[r][f].by # 0
               PROVE  /\ \A g \in Dist : index[r][g].by # 0 => index[r][g].build = index[r][f].build
                      /\ r = "pypi" => Verified("testpypi", index[r][f].build)
    BY DEF RegistriesAgree
  <2>1. r = "pypi" => Verified("testpypi", index[r][f].build) BY <1>1 DEF RegistriesInOrder
  <2>2. index[r]["sdist"].by # 0 => index[r]["wheel"].build = index[r]["sdist"].build BY <1>1 DEF RegistriesInOrder
  <2>3. \A g \in Dist : g = "wheel" \/ g = "sdist" BY DEF Dist
  <2>4. \A g \in Dist : index[r][g].by # 0 => index[r][g].build = index[r][f].build BY <2>2, <2>3
  <2> QED BY <2>1, <2>4
<1> QED BY <1>1, <1>2 DEF ReleaseSafe

(* However often runs stop, are started again with old outputs or overlap what *)
(* people do: what the workflow publishes is one build, on TestPyPI first, with *)
(* one release, and an issue is told and closed once that has been delivered    *)
(* (release.yml).                                                               *)
THEOREM ReleaseHolds == ReleaseSpec => []ReleaseSafe
<1>1. ReleaseSpec => []ReleaseInv BY ReleaseStarts, ReleaseStands, PTL DEF ReleaseSpec
<1> QED BY <1>1, ReleaseInvSafe, PTL

(* The release publishes, tags, tells and closes in order and once, and the   *)
(* cleanup removes what is old and nothing else, however often their runs     *)
(* stop and whatever jobs and people do meanwhile.                            *)
THEOREM MaintenanceHolds == ReleaseSpec /\ CleanupSpec => []MaintenanceSafe
BY ReleaseHolds, CleanupHolds, PTL DEF MaintenanceSafe
=============================================================================
