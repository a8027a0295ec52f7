-------------------------- MODULE FederationProofs --------------------------
(***************************************************************************)
(* Proofs about FederationRuntime, for any number of calls and tools and    *)
(* any limits.                                                              *)
(***************************************************************************)
EXTENDS FederationInvariant, FiniteSetTheorems, SequenceTheorems, TLAPS

-----------------------------------------------------------------------------
(* The cache: an eviction leaves a suffix of it.                             *)

(* Eviction stops at the latest when no entry is left.                       *)
LEMMA EvictionsBounded ==
  ASSUME GatewayTypes, NEW bytes
  PROVE  Evictions(bytes) \in 0..Len(cache)
<1> DEFINE S == {n \in 0..(Len(cache) - 1) : \A m \in 0..n : ~Fits(m, bytes)}
<1>1. Len(cache) \in Nat
  BY LenProperties DEF GatewayTypes
<1> DEFINE last == Len(cache) - 1
<1>2. IsFiniteSet(0..last) /\ Cardinality(0..last) = Len(cache)
  <2>1. last \in Int /\ 0 \in Int /\ (IF 0 > last THEN 0 ELSE last - 0 + 1) = Len(cache)
    BY <1>1
  <2> HIDE DEF last
  <2> QED
    BY ONLY <2>1, FS_Interval
<1>3. IsFiniteSet(S) /\ Cardinality(S) <= Len(cache)
  BY <1>2, FS_Subset
<1>4. Cardinality(S) \in Nat
  BY <1>3, FS_CardinalityType
<1> QED
  BY <1>1, <1>3, <1>4 DEF Evictions

LEMMA SuffixType ==
  ASSUME NEW S, NEW s \in Seq(S), NEW n \in 0..Len(s)
  PROVE  From(s, n) \in Seq(S)
<1>1. Len(s) \in Nat /\ \A i \in (n + 1)..Len(s) : s[i] \in S
  BY LenProperties, ElementOfSeq
<1> QED
  BY <1>1, SubSeqProperties DEF From

(* Remembering a result keeps the cache a sequence of entries.               *)
LEMMA RememberType ==
  ASSUME GatewayAssumption, GatewayTypes, NEW k \in Key, NEW v \in Call, NEW s \in Nat,
         Remember(k, v, s)
  PROVE  cache' \in Seq(Entry)
<1> DEFINE entry == [key |-> k, value |-> v, size |-> s + KeyBytes]
           kept == From(cache, Evictions(entry.size))
<1>1. entry \in Entry
  BY DEF Entry, GatewayAssumption
<1>2. kept \in Seq(Entry)
  BY EvictionsBounded, SuffixType DEF GatewayTypes
<1>3. DOMAIN kept = 1..Len(kept) /\ Len(kept) \in Nat /\ \A i \in 1..Len(kept) : kept[i] \in Entry
  BY <1>2, LenProperties, ElementOfSeq
<1> DEFINE swapped == [i \in 1..Len(kept) |-> IF kept[i].key = k THEN entry ELSE kept[i]]
<1>4. swapped \in Seq(Entry)
  <2> HIDE DEF kept, entry
  <2>1. \A i \in 1..Len(kept) : swapped[i] \in Entry
    BY <1>1, <1>3
  <2>2. swapped \in [1..Len(kept) -> Entry]
    BY <2>1
  <2> QED
    BY <2>2, <1>3
<1>5. Append(kept, entry) \in Seq(Entry)
  BY <1>1, <1>2
<1>6. \/ cache' = cache
      \/ cache' = swapped
      \/ cache' = Append(kept, entry)
  BY <1>3 DEF Remember, store
<1> QED
  BY <1>4, <1>5, <1>6 DEF GatewayTypes

(* A hit moves its entry to the end.                                         *)
LEMMA MoveToEndType ==
  ASSUME GatewayTypes, NEW i \in DOMAIN cache
  PROVE  /\ SubSeq(cache, 1, i - 1) \o From(cache, i) \o <<cache[i]>> \in Seq(Entry)
         /\ cache[i] \in Entry
<1>1. /\ Len(cache) \in Nat /\ i \in 1..Len(cache) /\ cache \in Seq(Entry)
      /\ \A j \in 1..Len(cache) : cache[j] \in Entry
  BY LenProperties, ElementOfSeq DEF GatewayTypes
<1>2. SubSeq(cache, 1, i - 1) \in Seq(Entry)
  BY <1>1, SubSeqProperties
<1>3. From(cache, i) \in Seq(Entry)
  BY <1>1, SuffixType
<1>4. <<cache[i]>> \in Seq(Entry)
  BY SMTT(60), <1>1
<1> QED
  BY <1>1, <1>2, <1>3, <1>4, ConcatProperties

(* Sequences of entries that fit the cache one by one                        *)
Small == {e \in Entry : e.size <= CacheBytes}

LEMMA SmallSeq ==
  ASSUME NEW s \in Seq(Small), NEW n \in 0..Len(s)
  PROVE  /\ DOMAIN s = 1..Len(s) /\ Len(s) \in Nat
         /\ \A i \in 1..Len(s) : s[i] \in Small
         /\ SubSeq(s, 1, n) \in Seq(Small) /\ Len(SubSeq(s, 1, n)) = n
         /\ \A i \in 1..n : SubSeq(s, 1, n)[i] = s[i]
         /\ From(s, n) \in Seq(Small) /\ Len(From(s, n)) = Len(s) - n
         /\ \A i \in 1..(Len(s) - n) : From(s, n)[i] = s[n + i]
<1>1. DOMAIN s = 1..Len(s) /\ Len(s) \in Nat /\ \A i \in 1..Len(s) : s[i] \in Small
  BY LenProperties, ElementOfSeq
<1>2. n \in Int /\ 1 \in Int /\ \A i \in 1..n : s[i] \in Small
  BY SMTT(60), <1>1
<1>3. /\ SubSeq(s, 1, n) \in Seq(Small)
      /\ Len(SubSeq(s, 1, n)) = IF 1 <= n THEN n - 1 + 1 ELSE 0
      /\ \A i \in 1..(n - 1 + 1) : SubSeq(s, 1, n)[i] = s[1 + i - 1]
  BY <1>2, SubSeqProperties
<1>4. n + 1 \in Int /\ Len(s) \in Int /\ \A i \in (n + 1)..Len(s) : s[i] \in Small
  BY <1>1
<1>5. /\ From(s, n) \in Seq(Small)
      /\ Len(From(s, n)) = IF n + 1 <= Len(s) THEN Len(s) - (n + 1) + 1 ELSE 0
      /\ \A i \in 1..(Len(s) - (n + 1) + 1) : From(s, n)[i] = s[n + 1 + i - 1]
  BY SMTT(60), <1>4, SubSeqProperties DEF From
<1>6. n \in Nat /\ n <= Len(s)
  BY <1>1
<1>7. Len(SubSeq(s, 1, n)) = n /\ \A i \in 1..n : SubSeq(s, 1, n)[i] = s[i]
  <2> DEFINE head == SubSeq(s, 1, n)
  <2>1. Len(head) = (IF 1 <= n THEN n - 1 + 1 ELSE 0) /\ \A i \in 1..(n - 1 + 1) : head[i] = s[1 + i - 1]
    BY <1>3
  <2> HIDE DEF head
  <2>2. n - 1 + 1 = n /\ \A i \in 1..n : 1 + i - 1 = i
    BY <1>6
  <2>3. Len(head) = n /\ \A i \in 1..n : head[i] = s[i]
    BY <1>6, <2>1, <2>2
  <2> QED
    BY <2>3 DEF head
<1>8. Len(From(s, n)) = Len(s) - n /\ \A i \in 1..(Len(s) - n) : From(s, n)[i] = s[n + i]
  <2> DEFINE m == Len(s)
             tail == From(s, n)
  <2>1. /\ Len(tail) = IF n + 1 <= m THEN m - (n + 1) + 1 ELSE 0
        /\ \A i \in 1..(m - (n + 1) + 1) : tail[i] = s[n + 1 + i - 1]
        /\ m \in Nat /\ n <= m
    BY <1>1, <1>5, <1>6
  <2> HIDE DEF m, tail
  <2>2. m - (n + 1) + 1 = m - n /\ \A i \in 1..(m - n) : n + 1 + i - 1 = n + i
    BY <1>6, <2>1
  <2>3. Len(tail) = m - n /\ \A i \in 1..(m - n) : tail[i] = s[n + i]
    BY <1>6, <2>1, <2>2
  <2> QED
    BY <2>3 DEF m, tail
<1> QED
  BY <1>1, <1>3, <1>5, <1>7, <1>8

LEMMA BytesFinite ==
  ASSUME GatewayAssumption, NEW s \in Seq(Small)
  PROVE  /\ IsFiniteSet(Bytes(s)) /\ Weight(s) \in Nat
         /\ \A b : b \in Bytes(s) <=> \E i \in 1..Len(s) : \E j \in 1..s[i].size : b = <<i, j>>
<1>1. DOMAIN s = 1..Len(s) /\ Len(s) \in Nat /\ \A i \in 1..Len(s) : s[i] \in Small
  BY LenProperties, ElementOfSeq
<1>2. \A b : b \in Bytes(s) <=> \E i \in 1..Len(s) : \E j \in 1..s[i].size : b = <<i, j>>
  BY <1>1 DEF Bytes
<1>3. Bytes(s) \subseteq (1..Len(s)) \X (1..CacheBytes)
  BY <1>1, <1>2 DEF Small, Entry, GatewayAssumption
<1>4. IsFiniteSet(1..Len(s)) /\ IsFiniteSet(1..CacheBytes)
  BY <1>1, FS_Interval DEF GatewayAssumption
<1>5. IsFiniteSet((1..Len(s)) \X (1..CacheBytes))
  BY <1>4, FS_Product
<1> QED
  BY <1>2, <1>3, <1>5, FS_Subset, FS_CardinalityType DEF Weight

(* The weight of a sequence is that of its two parts.                        *)
LEMMA WeightSplits ==
  ASSUME GatewayAssumption, NEW s \in Seq(Small), NEW n \in 0..Len(s)
  PROVE  Weight(s) = Weight(SubSeq(s, 1, n)) + Weight(From(s, n))
<1> DEFINE head == SubSeq(s, 1, n)
           tail == From(s, n)
           late == {b \in Bytes(s) : b[1] > n}
           shift == [b \in Bytes(tail) |-> <<b[1] + n, b[2]>>]
<1>1. /\ Len(s) \in Nat /\ \A i \in 1..Len(s) : s[i] \in Small
      /\ head \in Seq(Small) /\ Len(head) = n /\ \A i \in 1..n : head[i] = s[i]
      /\ tail \in Seq(Small) /\ Len(tail) = Len(s) - n
      /\ \A i \in 1..(Len(s) - n) : tail[i] = s[n + i]
  BY SmallSeq
<1> HIDE DEF head, tail
<1>2. /\ IsFiniteSet(Bytes(s)) /\ IsFiniteSet(Bytes(head)) /\ IsFiniteSet(Bytes(tail))
      /\ Weight(head) \in Nat /\ Weight(tail) \in Nat
  BY <1>1, BytesFinite
<1>3. /\ \A b : b \in Bytes(s) <=> \E i \in 1..Len(s) : \E j \in 1..s[i].size : b = <<i, j>>
      /\ \A b : b \in Bytes(head) <=> \E i \in 1..n : \E j \in 1..s[i].size : b = <<i, j>>
      /\ \A b : b \in Bytes(tail) <=> \E i \in 1..(Len(s) - n) : \E j \in 1..s[n + i].size : b = <<i, j>>
  <2>1. \A b : b \in Bytes(s) <=> \E i \in 1..Len(s) : \E j \in 1..s[i].size : b = <<i, j>>
    BY BytesFinite
  <2>2. \A b : b \in Bytes(head) <=> \E i \in 1..Len(head) : \E j \in 1..head[i].size : b = <<i, j>>
    BY <1>1, BytesFinite
  <2>3. \A b : b \in Bytes(tail) <=> \E i \in 1..Len(tail) : \E j \in 1..tail[i].size : b = <<i, j>>
    BY <1>1, BytesFinite
  <2>4. ASSUME NEW b
        PROVE  b \in Bytes(head) <=> \E i \in 1..n : \E j \in 1..s[i].size : b = <<i, j>>
    BY <1>1, <2>2
  <2>5. ASSUME NEW b
        PROVE  b \in Bytes(tail) <=> \E i \in 1..(Len(s) - n) : \E j \in 1..s[n + i].size : b = <<i, j>>
    BY <1>1, <2>3
  <2> QED
    BY <2>1, <2>4, <2>5
<1>4. shift \in Bijection(Bytes(tail), late)
  <2>1. \A b \in Bytes(tail) : /\ b = <<b[1], b[2]>> /\ b[1] \in 1..(Len(s) - n)
                               /\ b[2] \in 1..s[n + b[1]].size
    BY <1>3
  <2>2. \A b \in Bytes(tail) : shift[b] = <<b[1] + n, b[2]>> /\ shift[b] \in late
    <3> SUFFICES ASSUME NEW b \in Bytes(tail) PROVE <<b[1] + n, b[2]>> \in late
      OBVIOUS
    <3>1. b[1] + n \in 1..Len(s) /\ b[1] + n > n /\ b[2] \in 1..s[b[1] + n].size
      BY SMTT(60), <1>1, <2>1
    <3>2. <<b[1] + n, b[2]>> \in Bytes(s)
      BY <1>3, <3>1
    <3> QED
      BY <3>1, <3>2
  <2>3. \A a, b \in Bytes(tail) : shift[a] = shift[b] => a = b
    <3> SUFFICES ASSUME NEW a \in Bytes(tail), NEW b \in Bytes(tail), shift[a] = shift[b]
                 PROVE  a = b
      OBVIOUS
    <3>1. a[1] + n = b[1] + n /\ a[2] = b[2] /\ a[1] \in Int /\ b[1] \in Int /\ n \in Int
      BY <1>1, <2>1, <2>2
    <3>2. a[1] = b[1] /\ a[2] = b[2]
      BY <3>1
    <3> QED
      BY <2>1, <3>2
  <2>4. \A t \in late : \E b \in Bytes(tail) : shift[b] = t
    <3> SUFFICES ASSUME NEW t \in late PROVE \E b \in Bytes(tail) : shift[b] = t
      OBVIOUS
    <3>1. PICK i \in 1..Len(s) : \E j \in 1..s[i].size : t = <<i, j>>
      BY <1>3
    <3>5. PICK j \in 1..s[i].size : t = <<i, j>>
      BY <3>1
    <3>2. i > n /\ i - n \in 1..(Len(s) - n) /\ n + (i - n) = i
      BY <1>1, <3>5
    <3>3. <<i - n, j>> \in Bytes(tail)
      BY <1>3, <3>2
    <3>4. shift[<<i - n, j>>] = <<i - n + n, j>>
      BY <3>3
    <3> QED
      BY <3>2, <3>3, <3>4, <3>5
  <2> HIDE DEF late
  <2>5. shift \in [Bytes(tail) -> late]
    BY <2>2
  <2> QED
    BY <2>3, <2>4, <2>5 DEF Bijection, Injection, Surjection, IsInjective
<1>5. Cardinality(late) = Weight(tail) /\ IsFiniteSet(late)
  <2>1. ExistsBijection(Bytes(tail), late)
    BY <1>4 DEF ExistsBijection
  <2> QED
    BY <1>2, <2>1, FS_Bijection DEF Weight
<1>6. Bytes(s) = Bytes(head) \cup late /\ Bytes(head) \cap late = {}
  <2>1. n \in Nat /\ n <= Len(s)
    BY <1>1
  <2>2. ASSUME NEW b \in Bytes(head) PROVE b \in Bytes(s) /\ b \notin late
    <3>1. PICK i \in 1..n : \E j \in 1..s[i].size : b = <<i, j>>
      BY <1>3, <2>2
    <3>2. i \in 1..Len(s) /\ b[1] = i /\ ~(i > n)
      BY <1>1, <2>1, <3>1
    <3> QED
      BY <1>3, <3>1, <3>2
  <2>3. ASSUME NEW b \in Bytes(s), b \notin late PROVE b \in Bytes(head)
    <3>1. PICK i \in 1..Len(s) : \E j \in 1..s[i].size : b = <<i, j>>
      BY <1>3, <2>3
    <3>2. b[1] = i /\ ~(b[1] > n)
      BY <2>3, <3>1
    <3>3. i \in 1..n
      BY <1>1, <2>1, <3>1, <3>2
    <3> QED
      BY <1>3, <3>1, <3>3
  <2> QED
    BY <2>2, <2>3
<1>7. Cardinality(Bytes(head) \cup late)
        = Cardinality(Bytes(head)) + Cardinality(late) - Cardinality(Bytes(head) \cap late)
  BY <1>2, <1>5, FS_Union
<1>8. Cardinality(Bytes(head) \cap late) = 0
  BY <1>6, FS_EmptySet
<1>9. Weight(s) = Weight(head) + Weight(tail) - 0
  BY <1>5, <1>6, <1>7, <1>8 DEF Weight
<1> QED
  BY <1>2, <1>9 DEF head, tail

LEMMA WeightOfOne ==
  ASSUME GatewayAssumption, NEW e \in Small
  PROVE  Weight(<<e>>) = e.size
<1> DEFINE number == [j \in 1..e.size |-> <<1, j>>]
<1>1. <<e>> \in Seq(Small) /\ e.size \in Nat /\ Len(<<e>>) = 1 /\ <<e>>[1] = e
  BY DEF Small, Entry
<1>2. \A b : b \in Bytes(<<e>>) <=> \E j \in 1..e.size : b = <<1, j>>
  <2>1. \A b : b \in Bytes(<<e>>) <=> \E i \in 1..1 : \E j \in 1..<<e>>[i].size : b = <<i, j>>
    BY <1>1, BytesFinite
  <2> QED
    BY <1>1, <2>1
<1>3. number \in Bijection(1..e.size, Bytes(<<e>>))
  <2>1. number \in [1..e.size -> Bytes(<<e>>)]
    BY <1>2
  <2>2. \A a, b \in 1..e.size : number[a] = number[b] => a = b
    OBVIOUS
  <2>3. \A t \in Bytes(<<e>>) : \E b \in 1..e.size : number[b] = t
    BY <1>2
  <2> QED
    BY <2>1, <2>2, <2>3 DEF Bijection, Injection, Surjection, IsInjective
<1>4. IsFiniteSet(1..e.size) /\ Cardinality(1..e.size) = e.size
  <2>1. Cardinality(1..e.size) = IF 1 > e.size THEN 0 ELSE e.size - 1 + 1
    BY <1>1, FS_Interval
  <2> QED
    BY <1>1, <2>1, FS_Interval
<1> QED
  BY <1>3, <1>4, FS_Bijection DEF ExistsBijection, Weight

LEMMA WeightAdds ==
  ASSUME GatewayAssumption, NEW s \in Seq(Small), NEW t \in Seq(Small)
  PROVE  /\ s \o t \in Seq(Small) /\ Len(s \o t) = Len(s) + Len(t)
         /\ Weight(s \o t) = Weight(s) + Weight(t)
<1>1. /\ s \o t \in Seq(Small) /\ Len(s \o t) = Len(s) + Len(t)
      /\ \A i \in 1..(Len(s) + Len(t)) : (s \o t)[i] = IF i <= Len(s) THEN s[i] ELSE t[i - Len(s)]
      /\ Len(s) \in Nat /\ Len(t) \in Nat
  BY ConcatProperties, LenProperties
<1> DEFINE u == s \o t
<1> HIDE DEF u
<1>2. /\ SubSeq(u, 1, Len(s)) \in Seq(Small) /\ Len(SubSeq(u, 1, Len(s))) = Len(s)
      /\ \A i \in 1..Len(s) : SubSeq(u, 1, Len(s))[i] = u[i]
      /\ From(u, Len(s)) \in Seq(Small) /\ Len(From(u, Len(s))) = Len(t)
      /\ \A i \in 1..Len(t) : From(u, Len(s))[i] = u[Len(s) + i]
  <2>1. u \in Seq(Small) /\ Len(s) \in 0..Len(u) /\ Len(u) - Len(s) = Len(t)
    BY <1>1 DEF u
  <2> DEFINE m == Len(s)
  <2> HIDE DEF m
  <2>2. /\ SubSeq(u, 1, m) \in Seq(Small) /\ Len(SubSeq(u, 1, m)) = m
        /\ \A i \in 1..m : SubSeq(u, 1, m)[i] = u[i]
        /\ From(u, m) \in Seq(Small) /\ Len(From(u, m)) = Len(u) - m
        /\ \A i \in 1..(Len(u) - m) : From(u, m)[i] = u[m + i]
    <3>1. m \in 0..Len(u)
      BY <2>1 DEF m
    <3> QED
      BY ZenonT(60), <2>1, <3>1, SmallSeq
  <2> QED
    BY <2>1, <2>2 DEF m
<1>3. SubSeq(u, 1, Len(s)) = s
  <2>1. \A i \in 1..Len(s) : SubSeq(u, 1, Len(s))[i] = s[i]
    BY <1>1, <1>2 DEF u
  <2> QED
    BY <1>2, <2>1, SeqEqual
<1>4. From(u, Len(s)) = t
  <2>1. \A i \in 1..Len(t) : From(u, Len(s))[i] = t[i]
    BY <1>1, <1>2 DEF u
  <2> QED
    BY <1>2, <2>1, SeqEqual
<1>5. Weight(u) = Weight(SubSeq(u, 1, Len(s))) + Weight(From(u, Len(s)))
  <2>1. u \in Seq(Small) /\ Len(s) \in 0..Len(u)
    BY <1>1 DEF u
  <2> QED
    BY <2>1, WeightSplits
<1> QED
  BY <1>1, <1>3, <1>4, <1>5 DEF u

(* Where the elements of a concatenation come from                           *)
LEMMA ConcatAt ==
  ASSUME NEW S, NEW s \in Seq(S), NEW t \in Seq(S), NEW n, NEW m, n = Len(s), m = Len(t)
  PROVE  /\ n \in Nat /\ m \in Nat
         /\ s \o t \in Seq(S) /\ Len(s \o t) = n + m /\ DOMAIN (s \o t) = 1..(n + m)
         /\ \A j \in 1..n : (s \o t)[j] = s[j]
         /\ \A j \in 1..m : (s \o t)[n + j] = t[j]
<1>1. n \in Nat /\ m \in Nat
  BY LenProperties
<1>2. /\ s \o t \in Seq(S) /\ Len(s \o t) = n + m
      /\ \A j \in 1..(n + m) : (s \o t)[j] = IF j <= n THEN s[j] ELSE t[j - n]
  BY ConcatProperties
<1>3. DOMAIN (s \o t) = 1..(n + m)
  BY <1>2, LenProperties
<1> DEFINE u == s \o t
<1>4. \A j \in 1..(n + m) : u[j] = IF j <= n THEN s[j] ELSE t[j - n]
  BY <1>2
<1> HIDE DEF u
<1>5. \A j \in 1..n : u[j] = s[j]
  BY <1>1, <1>4
<1>6. \A j \in 1..m : n + j \in 1..(n + m) /\ ~(n + j <= n) /\ n + j - n = j
  BY <1>1
<1>7. \A j \in 1..m : u[n + j] = t[j]
  BY SMTT(60), <1>4, <1>6
<1> QED
  BY <1>1, <1>2, <1>3, <1>5, <1>7 DEF u

(* One entry moved to the end: the same entries, the same weight             *)
LEMMA MovedToEnd ==
  ASSUME GatewayAssumption, NEW s \in Seq(Small), NEW i \in 1..Len(s)
  PROVE  \E t \in Seq(Small) :
           /\ t = SubSeq(s, 1, i - 1) \o From(s, i) \o <<s[i]>>
           /\ Len(t) = Len(s) /\ DOMAIN t = DOMAIN s /\ Weight(t) = Weight(s)
           /\ \E source \in [DOMAIN s -> DOMAIN s] :
                /\ \A j \in DOMAIN s : t[j] = s[source[j]]
                /\ \A j, m \in DOMAIN s : source[j] = source[m] => j = m
<1> DEFINE L == Len(s)
           t == SubSeq(s, 1, i - 1) \o From(s, i) \o <<s[i]>>
           before == SubSeq(s, 1, i - 1)
           after == From(s, i)
           p == i - 1
           q == L - i
<1>1. /\ L \in Nat /\ DOMAIN s = 1..L /\ i \in 1..L /\ p \in Nat /\ q \in Nat
      /\ p \in 0..L /\ i \in 0..L /\ p + q = L - 1 /\ (p + q) + 1 = L /\ p + 1 = i
      /\ L = Len(s)
  BY LenProperties
<1>2. /\ before \in Seq(Small) /\ Len(before) = p /\ \A j \in 1..p : before[j] = s[j]
      /\ From(s, p) \in Seq(Small)
      /\ Weight(s) = Weight(before) + Weight(From(s, p))
  BY <1>1, SmallSeq, WeightSplits
<1>3. after \in Seq(Small) /\ Len(after) = q /\ \A j \in 1..q : after[j] = s[i + j]
  BY <1>1, SmallSeq
<1>4. <<s[i]>> \in Seq(Small) /\ Len(<<s[i]>>) = 1 /\ <<s[i]>>[1] = s[i]
  BY ElementOfSeq
<1>5. From(s, p) = <<s[i]>> \o after
  <2>1. L \in i..L
    BY <1>1
  <2>2. SubSeq(s, i, L) = <<s[i]>> \o SubSeq(s, i + 1, L)
    BY <2>1, SubSeqRecursiveFirst
  <2> QED
    BY <1>1, <2>2 DEF From
<1> DEFINE rest == before \o after
           one == <<s[i]>>
<1>6. t = rest \o one
  OBVIOUS
<1> HIDE DEF before, after, p, q, one, t, L
<1>7. /\ Weight(From(s, p)) = Weight(one) + Weight(after)
      /\ Weight(rest) = Weight(before) + Weight(after)
  BY ZenonT(60), <1>2, <1>3, <1>4, <1>5, WeightAdds DEF one
<1>8. /\ rest \in Seq(Small) /\ Len(rest) = p + q
      /\ \A j \in 1..p : rest[j] = before[j]
      /\ \A j \in 1..q : rest[p + j] = after[j]
  BY SMTT(60), <1>2, <1>3, ConcatAt
<1> HIDE DEF rest
<1>9. /\ t \in Seq(Small) /\ Len(t) = (p + q) + 1 /\ DOMAIN t = 1..((p + q) + 1)
      /\ \A j \in 1..(p + q) : t[j] = rest[j]
      /\ t[(p + q) + 1] = one[1]
      /\ Weight(t) = Weight(rest) + Weight(one)
  <2>1. one \in Seq(Small) /\ Len(one) = 1 /\ 1 \in 1..1
    BY <1>4 DEF one
  <2>2. /\ t \in Seq(Small) /\ Len(t) = (p + q) + 1 /\ DOMAIN t = 1..((p + q) + 1)
        /\ \A j \in 1..(p + q) : t[j] = rest[j]
        /\ \A j \in 1..1 : t[(p + q) + j] = one[j]
    <3> DEFINE n == Len(rest)
               m == Len(one)
    <3>1. n = p + q /\ m = 1
      BY <1>8, <2>1
    <3> HIDE DEF n, m
    <3>2. /\ t \in Seq(Small) /\ Len(t) = n + m /\ DOMAIN t = 1..(n + m)
          /\ \A j \in 1..n : t[j] = rest[j]
          /\ \A j \in 1..m : t[n + j] = one[j]
      <4>1. rest \in Seq(Small) /\ one \in Seq(Small) /\ n = Len(rest) /\ m = Len(one) /\ t = rest \o one
        BY <1>6, <1>8, <2>1 DEF n, m
      <4> QED
        BY ONLY <4>1, ConcatAt
    <3> QED
      BY <3>1, <3>2
  <2> QED
    BY <1>6, <1>8, <2>1, <2>2, WeightAdds
<1>10. Weight(t) = Weight(s)
  <2>1. Weight(before) \in Nat /\ Weight(after) \in Nat /\ Weight(one) \in Nat
    BY <1>2, <1>3, <1>4, BytesFinite DEF one
  <2> QED
    BY <1>2, <1>7, <1>9, <2>1
<1>11. ASSUME NEW j \in 1..(i - 1) PROVE t[j] = s[j]
  BY <1>1, <1>2, <1>8, <1>9
<1>12. ASSUME NEW j \in i..(L - 1) PROVE t[j] = s[j + 1]
  <2>1. j - p \in 1..q /\ p + (j - p) = j /\ j \in 1..(p + q) /\ i + (j - p) = j + 1
    BY <1>1 DEF q
  <2>2. t[j] = rest[j] /\ rest[p + (j - p)] = after[j - p] /\ after[j - p] = s[i + (j - p)]
    BY <1>3, <1>8, <1>9, <2>1
  <2> QED
    BY <2>1, <2>2
<1>13. t[L] = s[i]
  BY <1>1, <1>4, <1>9 DEF one
<1>14. /\ L \in Nat /\ i \in 1..L /\ DOMAIN s = 1..L
       /\ t \in Seq(Small) /\ Len(t) = L /\ DOMAIN t = 1..L
  BY ZenonT(60), <1>1, <1>9
<1> HIDE DEF L, t
<1> DEFINE source == [j \in 1..L |-> IF j < i THEN j ELSE IF j < L THEN j + 1 ELSE i]
<1>15. ASSUME NEW j \in 1..L PROVE source[j] \in 1..L /\ t[j] = s[source[j]]
  <2>1. CASE j < i
    BY <1>11, <1>14, <2>1
  <2>2. CASE ~(j < i) /\ j < L
    BY <1>12, <1>14, <2>2
  <2>3. CASE ~(j < i) /\ ~(j < L)
    BY <1>13, <1>14, <2>3
  <2> QED
    BY <2>1, <2>2, <2>3
<1>16. ASSUME NEW j \in 1..L, NEW m \in 1..L, source[j] = source[m] PROVE j = m
  <2>1. /\ source[j] = IF j < i THEN j ELSE IF j < L THEN j + 1 ELSE i
        /\ source[m] = IF m < i THEN m ELSE IF m < L THEN m + 1 ELSE i
    OBVIOUS
  <2>2. L \in Nat /\ i \in 1..L /\ source[j] = source[m]
    BY <1>14, <1>16
  <2> DEFINE a == source[j]
             b == source[m]
  <2>3. /\ a = IF j < i THEN j ELSE IF j < L THEN j + 1 ELSE i
        /\ b = IF m < i THEN m ELSE IF m < L THEN m + 1 ELSE i
        /\ a = b
    BY <2>1, <2>2
  <2> HIDE DEF a, b
  <2> QED
    BY ONLY <2>2, <2>3
<1> HIDE DEF source
<1>17. source \in [1..L -> 1..L]
  BY <1>15 DEF source
<1>18. /\ Len(t) = Len(s) /\ DOMAIN t = DOMAIN s /\ DOMAIN s = 1..L
  BY <1>14 DEF L
<1>19. /\ source \in [DOMAIN s -> DOMAIN s]
       /\ \A j \in DOMAIN s : t[j] = s[source[j]]
       /\ \A j, m \in DOMAIN s : source[j] = source[m] => j = m
  BY <1>15, <1>16, <1>17, <1>18
<1>20. t = SubSeq(s, 1, i - 1) \o From(s, i) \o <<s[i]>>
  BY DEF t
<1> QED
  BY ONLY ZenonT(60), <1>10, <1>14, <1>18, <1>19, <1>20

(* Eviction stops where the new entry fits, at the latest at the end.        *)
LEMMA EvictedEnough ==
  ASSUME GatewayTypes, NEW bytes
  PROVE  Evictions(bytes) = Len(cache) \/ Fits(Evictions(bytes), bytes)
<1> DEFINE L == Len(cache)
           S == {n \in 0..(L - 1) : \A m \in 0..n : ~Fits(m, bytes)}
           n == Cardinality(S)
<1>1. L \in Nat /\ Evictions(bytes) = n /\ n \in 0..L
  BY LenProperties, EvictionsBounded DEF GatewayTypes, Evictions
<1>2. SUFFICES ASSUME n # L, ~Fits(n, bytes) PROVE FALSE
  BY <1>1
<1>3. n \in 0..(L - 1) /\ S \subseteq 0..(L - 1)
  BY <1>1, <1>2
<1>4. \A m \in 0..(L - 1) : IsFiniteSet(0..m) /\ Cardinality(0..m) = m + 1
  <2> SUFFICES ASSUME NEW m \in 0..(L - 1)
               PROVE  IsFiniteSet(0..m) /\ Cardinality(0..m) = m + 1
    OBVIOUS
  <2>1. m \in Int /\ 0 \in Int /\ (IF 0 > m THEN 0 ELSE m - 0 + 1) = m + 1
    BY <1>1
  <2> QED
    BY ONLY <2>1, FS_Interval
<1>5. IsFiniteSet(S)
  <2>1. L - 1 \in 0..(L - 1)
    BY <1>1, <1>3
  <2> HIDE DEF S
  <2> QED
    BY <1>3, <1>4, <2>1, FS_Subset
<1>6. CASE n \in S
  <2>1. 0..n \subseteq S
    <3>1. \A m \in 0..n : ~Fits(m, bytes)
      BY <1>6
    <3> SUFFICES ASSUME NEW m \in 0..n PROVE m \in S
      OBVIOUS
    <3>2. m \in 0..(L - 1) /\ 0..m \subseteq 0..n
      <4> HIDE DEF n, L
      <4> QED
        BY <1>1, <1>3
    <3> HIDE DEF n, L
    <3> QED
      BY <3>1, <3>2
  <2>2. n + 1 <= n
    <3>1. Cardinality(0..n) = n + 1
      BY <1>3, <1>4
    <3>2. Cardinality(0..n) <= Cardinality(S)
      <4> HIDE DEF S
      <4> QED
        BY <1>5, <2>1, FS_Subset
    <3> QED
      BY <3>1, <3>2
  <2> QED
    BY <1>1, <2>2
<1>7. CASE n \notin S
  <2>1. PICK m \in 0..n : Fits(m, bytes)
    BY <1>3, <1>7
  <2>2. m \in 0..(n - 1)
    BY <1>1, <1>2, <2>1
  <2>3. S \subseteq 0..(m - 1)
    BY <1>1, <2>1, <2>2
  <2>4. Cardinality(0..(m - 1)) = m /\ IsFiniteSet(0..(m - 1))
    <3>1. m - 1 \in Int /\ 0 \in Int /\ (IF 0 > m - 1 THEN 0 ELSE m - 1 - 0 + 1) = m
      BY <1>1, <2>2
    <3> QED
      BY ONLY <3>1, FS_Interval
  <2>5. n <= m
    <3> HIDE DEF S
    <3> QED
      BY <2>3, <2>4, FS_Subset
  <2> QED
    BY <1>1, <2>2, <2>5
<1> QED
  BY <1>6, <1>7

(* The account of the cache, with every entry small enough                   *)
Exact == CacheExact /\ \A i \in DOMAIN cache : cache[i].size <= CacheBytes

(* An admitted result of a key that is not cached keeps the account, and no  *)
(* other key enters the cache.                                               *)
LEMMA RememberExact ==
  ASSUME GatewayAssumption, GatewayTypes, Exact, NEW k \in Key, NEW v \in Call, NEW s \in Nat,
         Cached(k) = {}, Remember(k, v, s)
  PROVE  /\ Exact'
         /\ \A other \in Key \ {k} : Cached(other) = {} => Cached(other)' = {}
<1> DEFINE entry == [key |-> k, value |-> v, size |-> s + KeyBytes]
           n == Evictions(entry.size)
           kept == From(cache, n)
           gone == SubSeq(cache, 1, n)
<1>1. CASE entry.size > CacheBytes \/ closing
  <2>1. UNCHANGED <<cache, cacheBytes>>
    BY <1>1 DEF Remember, store
  <2> QED
    BY <2>1 DEF Exact, CacheExact, Cached
<1>2. CASE ~(entry.size > CacheBytes \/ closing)
  <2>1. /\ cache \in Seq(Small) /\ entry \in Small /\ entry.size \in Nat /\ entry.key = k
        /\ Len(cache) \in Nat /\ DOMAIN cache = 1..Len(cache)
    <3>1. Len(cache) \in Nat /\ DOMAIN cache = 1..Len(cache) /\ \A i \in 1..Len(cache) : cache[i] \in Entry
      BY LenProperties, ElementOfSeq DEF GatewayTypes
    <3>2. \A i \in 1..Len(cache) : cache[i] \in Small
      BY <3>1 DEF Small, Exact
    <3>3. cache \in Seq(Small)
      BY <3>1, <3>2, LenProperties DEF GatewayTypes
    <3> QED
      BY <1>2, <3>1, <3>3 DEF Small, Entry, GatewayAssumption
  <2>2. n \in 0..Len(cache) /\ (n = Len(cache) \/ Fits(n, entry.size))
    BY EvictionsBounded, EvictedEnough
  <2> HIDE DEF entry, n
  <2>3. /\ gone \in Seq(Small) /\ kept \in Seq(Small) /\ Len(kept) = Len(cache) - n
        /\ \A i \in 1..(Len(cache) - n) : kept[i] = cache[n + i]
        /\ DOMAIN kept = 1..(Len(cache) - n)
    <3>1. /\ gone \in Seq(Small) /\ kept \in Seq(Small) /\ Len(kept) = Len(cache) - n
          /\ \A i \in 1..(Len(cache) - n) : kept[i] = cache[n + i]
      BY ZenonT(60), <2>1, <2>2, SmallSeq
    <3> QED
      BY SMTT(60), <3>1, LenProperties
  <2>14. Len(kept) \in Nat /\ n \in Nat /\ Len(kept) = Len(cache) - n /\ Len(cache) \in Nat
    <3>1. Len(cache) \in Nat /\ n \in 0..Len(cache) /\ Len(kept) = Len(cache) - n
      BY <2>1, <2>2, <2>3
    <3>2. \A length \in Nat : \A m \in 0..length : m \in Nat /\ length - m \in Nat
      OBVIOUS
    <3> HIDE DEF kept
    <3> QED
      BY ZenonT(60), <3>1, <3>2
  <2>4. Weight(cache) = Weight(gone) + Weight(kept) /\ Weight(gone) \in Nat /\ Weight(kept) \in Nat
    BY <2>1, <2>2, <2>3, WeightSplits, BytesFinite
  <2>5. \A i \in 1..Len(kept) : kept[i].key # k
    BY SMTT(60), <2>1, <2>2, <2>3 DEF Cached
  <2>6. cacheBytes' = cacheBytes - Weight(gone) + entry.size /\ cache' = Append(kept, entry)
    BY <1>2, <2>3, <2>5 DEF Remember, entry, n
  <2>7. cacheBytes' = Weight(kept) + entry.size
    BY <2>1, <2>4, <2>6 DEF Exact, CacheExact
  <2>8. /\ cache' = kept \o <<entry>> /\ <<entry>> \in Seq(Small) /\ Len(cache') = Len(kept) + 1
        /\ \A i \in 1..Len(kept) : cache'[i] = kept[i]
        /\ cache'[Len(kept) + 1] = entry /\ DOMAIN cache' = 1..(Len(kept) + 1)
    <3> HIDE DEF kept
    <3>1. /\ Append(kept, entry) \in Seq(Small) /\ Len(Append(kept, entry)) = Len(kept) + 1
          /\ \A i \in 1..Len(kept) : Append(kept, entry)[i] = kept[i]
          /\ Append(kept, entry)[Len(kept) + 1] = entry
          /\ Append(kept, entry) = kept \o <<entry>>
      BY <2>1, <2>3, AppendProperties, AppendIsConcat
    <3>2. <<entry>> \in Seq(Small)
      BY <2>1
    <3> QED
      BY <2>6, <3>1, <3>2, LenProperties
  <2>9. Weight(cache') = Weight(kept) + entry.size
    <3> HIDE DEF kept
    <3>1. Weight(kept \o <<entry>>) = Weight(kept) + Weight(<<entry>>)
      BY <2>3, <2>8, WeightAdds
    <3>2. Weight(<<entry>>) = entry.size
      BY <2>1, WeightOfOne
    <3> QED
      BY <2>8, <3>1, <3>2
  <2>10. cacheBytes' <= CacheBytes /\ Len(cache') <= CacheEntries
    <3>1. CASE n = Len(cache)
      <4>1. kept = <<>> /\ Len(kept) = 0
        BY <2>1, <2>3, <3>1, SubSeqEmpty DEF From
      <4>2. Weight(kept) = 0
        <5>1. Bytes(<<>>) = {}
          BY DEF Bytes
        <5> QED
          BY <4>1, <5>1, FS_EmptySet DEF Weight
      <4> QED
        BY <1>2, <2>1, <2>7, <2>8, <4>1, <4>2 DEF GatewayAssumption, entry
    <3>2. CASE Fits(n, entry.size)
      <4>1. Len(cache) - n < CacheEntries /\ cacheBytes - Weight(gone) + entry.size <= CacheBytes
        BY <3>2 DEF Fits
      <4>2. cacheBytes' <= CacheBytes
        BY <2>6, <4>1
      <4>3. Len(kept) = Len(cache) - n /\ Len(cache') = Len(kept) + 1 /\ n \in Nat
        BY <2>8, <2>14
      <4>4. Len(cache') <= CacheEntries
        <5> HIDE DEF kept
        <5> QED
          BY <2>1, <4>1, <4>3 DEF GatewayAssumption
      <4> QED
        BY <4>2, <4>4
    <3> QED
      BY <2>2, <3>1, <3>2
  <2>11. ASSUME NEW i \in DOMAIN cache', NEW j \in DOMAIN cache', cache'[i].key = cache'[j].key
         PROVE  i = j
    <3>0. Len(kept) \in Nat /\ n \in Nat /\ Len(kept) = Len(cache) - n
      BY <2>14
    <3>1. CASE i = Len(kept) + 1 \/ j = Len(kept) + 1
      <4> HIDE DEF kept
      <4>1. CASE i = Len(kept) + 1 /\ j \in 1..Len(kept)
        BY <2>1, <2>5, <2>8, <2>11, <4>1
      <4>2. CASE j = Len(kept) + 1 /\ i \in 1..Len(kept)
        BY <2>1, <2>5, <2>8, <2>11, <4>2
      <4> QED
        BY <2>8, <3>0, <3>1, <4>1, <4>2
    <3>2. CASE i \in 1..Len(kept) /\ j \in 1..Len(kept)
      <4>0. kept[i] = cache[n + i] /\ kept[j] = cache[n + j]
        BY <2>3, <3>0, <3>2
      <4>3. n + i \in 1..Len(cache) /\ n + j \in 1..Len(cache)
        BY <2>1, <3>0, <3>2
      <4>1. cache[n + i].key = cache[n + j].key /\ n + i \in DOMAIN cache /\ n + j \in DOMAIN cache
        BY <2>1, <2>8, <2>11, <3>2, <4>0, <4>3
      <4>2. n + i = n + j
        BY <4>1 DEF Exact, CacheExact
      <4> QED
        BY <2>2, <2>8, <3>2, <4>2
    <3>3. i \in 1..(Len(kept) + 1) /\ j \in 1..(Len(kept) + 1)
      BY <2>8
    <3> HIDE DEF kept
    <3> QED
      BY <3>0, <3>1, <3>2, <3>3
  <2>12. \A i \in DOMAIN cache' : cache'[i].size <= CacheBytes
    <3>1. cache' \in Seq(Small)
      BY <2>1, <2>3, <2>6, AppendProperties
    <3>2. \A i \in DOMAIN cache' : cache'[i] \in Small
      BY <3>1, LenProperties, ElementOfSeq
    <3> QED
      BY <3>2 DEF Small
  <2>13. ASSUME NEW other \in Key \ {k}, Cached(other) = {} PROVE Cached(other)' = {}
    <3>0. Len(kept) \in Nat /\ n \in Nat /\ Len(kept) = Len(cache) - n
      BY <2>14
    <3>1. ASSUME NEW i \in 1..Len(kept) PROVE kept[i].key # other
      <4>1. kept[i] = cache[n + i]
        BY <2>3
      <4>2. n + i \in DOMAIN cache
        BY <2>1, <3>0
      <4>3. cache[n + i].key # other
        BY <2>13, <4>2 DEF Cached
      <4> QED
        BY <4>1, <4>3
    <3> QED
      BY <2>1, <2>8, <2>13, <3>1 DEF Cached
  <2> QED
    BY <2>7, <2>9, <2>10, <2>11, <2>12, <2>13 DEF Exact, CacheExact
<1> QED
  BY <1>1, <1>2

(* A hit moves one entry to the end and keeps what is cached.                *)
LEMMA HitKeepsCache ==
  ASSUME GatewayAssumption, GatewayTypes, Exact, NEW i \in DOMAIN cache,
         cache' = SubSeq(cache, 1, i - 1) \o From(cache, i) \o <<cache[i]>>,
         cacheBytes' = cacheBytes
  PROVE  Exact' /\ \A k \in Key : Cached(k) = {} => Cached(k)' = {}
<1> DEFINE L == Len(cache)
<1>1. cache \in Seq(Small) /\ i \in 1..Len(cache)
  <2>1. L \in Nat /\ DOMAIN cache = 1..L /\ \A j \in 1..L : cache[j] \in Entry
    BY LenProperties, ElementOfSeq DEF GatewayTypes
  <2>2. \A j \in 1..L : cache[j] \in Small
    BY <2>1 DEF Small, Exact
  <2> QED
    BY <2>1, <2>2, LenProperties DEF GatewayTypes
<1>2. PICK t \in Seq(Small) :
        /\ t = SubSeq(cache, 1, i - 1) \o From(cache, i) \o <<cache[i]>>
        /\ Len(t) = Len(cache) /\ DOMAIN t = DOMAIN cache /\ Weight(t) = Weight(cache)
        /\ \E source \in [DOMAIN cache -> DOMAIN cache] :
             /\ \A j \in DOMAIN cache : t[j] = cache[source[j]]
             /\ \A j, m \in DOMAIN cache : source[j] = source[m] => j = m
  BY <1>1, MovedToEnd
<1>3. PICK source \in [DOMAIN cache -> DOMAIN cache] :
        /\ \A j \in DOMAIN cache : t[j] = cache[source[j]]
        /\ \A j, m \in DOMAIN cache : source[j] = source[m] => j = m
  BY <1>2
<1>4. /\ cache' = t /\ Len(cache') = Len(cache) /\ Weight(cache') = Weight(cache)
      /\ DOMAIN cache' = DOMAIN cache
  BY <1>2
<1>5. \A j \in DOMAIN cache : cache'[j] = cache[source[j]]
  BY ONLY <1>3, <1>4
<1>6. \A j, m \in DOMAIN cache' : cache'[j].key = cache'[m].key => j = m
  BY ONLY Exact, <1>3, <1>4, <1>5 DEF Exact, CacheExact
<1>7. \A j \in DOMAIN cache' : cache'[j].size <= CacheBytes
  BY ONLY Exact, <1>3, <1>4, <1>5 DEF Exact
<1>8. \A k \in Key : Cached(k) = {} => Cached(k)' = {}
  BY ONLY <1>3, <1>4, <1>5 DEF Cached
<1> QED
  BY <1>4, <1>6, <1>7, <1>8 DEF Exact, CacheExact

-----------------------------------------------------------------------------
(* The account                                                               *)

(* Counting adds one to the named counters of one tool.                      *)
LEMMA CountAdds ==
  ASSUME GatewayTypes, NEW t \in Tool, NEW S, Count(t, S)
  PROVE  /\ counts' \in [Tool -> [Counter -> Nat]]
         /\ \A u \in Tool, k \in Counter :
              counts'[u][k] = counts[u][k] + IF u = t /\ k \in S THEN 1 ELSE 0
<1>1. counts \in [Tool -> [Counter -> Nat]]
  BY DEF GatewayTypes
<1>2. counts' = [counts EXCEPT ![t] = [k \in Counter |-> counts[t][k] + IF k \in S THEN 1 ELSE 0]]
  BY DEF Count
<1>3. [k \in Counter |-> counts[t][k] + IF k \in S THEN 1 ELSE 0] \in [Counter -> Nat]
  BY <1>1
<1> QED
  BY <1>1, <1>2, <1>3

(* What Deliver leaves well typed.                                           *)
LEMMA DeliverType ==
  ASSUME GatewayTypes, NEW t \in Tool, NEW v \in Call, NEW hit, NEW S, Deliver(t, v, hit, S)
  PROVE  /\ counts' \in [Tool -> [Counter -> Nat]] /\ deliveredBytes' \in Nat
         /\ publication' \subseteq Call /\ returned' \subseteq Call
<1>1. CASE deliveredBytes + size[v] > DeliveryBytes
  BY <1>1, CountAdds DEF Deliver, GatewayTypes
<1>2. CASE ~(deliveredBytes + size[v] > DeliveryBytes)
  <2>1. Count(t, S \cup {"completed"})
    BY <1>2 DEF Deliver
  <2> QED
    BY <1>2, <2>1, CountAdds DEF Deliver, Publish, GatewayTypes
<1> QED
  BY <1>1, <1>2

-----------------------------------------------------------------------------
(* Types                                                                     *)

LEMMA CallTypes ==
  ASSUME GatewayAssumption, GatewayTypes, FlightInv, NEW c \in Call,
         CallTool(c) \/ WaiterResumes(c) \/ CancelWaiter(c)
  PROVE  GatewayTypes'
<1> USE DEF calls, work, store, ledger, flags
<1>1. CASE Overflow(c)
  BY <1>1 DEF Overflow, NoReceipt, GatewayTypes
<1>2. ASSUME NEW t \in Tool, RefuseCall(c, t) PROVE GatewayTypes'
  <2>1. counts' \in [Tool -> [Counter -> Nat]]
    BY <1>2, CountAdds DEF RefuseCall
  <2> QED
    BY <1>2, <2>1 DEF RefuseCall, Admission, GatewayTypes
<1>3. ASSUME NEW k \in Key, ServeFromCache(c, k) PROVE GatewayTypes'
  <2>1. PICK i \in Cached(k) :
          /\ cache' = SubSeq(cache, 1, i - 1) \o From(cache, i) \o <<cache[i]>>
          /\ Deliver(k[1], cache[i].value, TRUE, {"attempted", "cache_hits"})
    BY <1>3 DEF ServeFromCache
  <2>2. i \in DOMAIN cache
    BY DEF Cached
  <2>3. cache' \in Seq(Entry) /\ cache[i].value \in Call
    BY <2>1, <2>2, MoveToEndType DEF Entry
  <2>4. k[1] \in Tool
    BY DEF Key
  <2>5. /\ counts' \in [Tool -> [Counter -> Nat]] /\ deliveredBytes' \in Nat
        /\ publication' \subseteq Call /\ returned' \subseteq Call
    BY <2>1, <2>3, <2>4, DeliverType
  <2> QED
    BY SMTT(60), <1>3, <2>3, <2>5 DEF ServeFromCache, Admitted, Admission, GatewayTypes
<1>4. ASSUME NEW k \in Key, JoinDispatch(c, k) PROVE GatewayTypes'
  <2>1. counts' \in [Tool -> [Counter -> Nat]]
    BY <1>4, CountAdds DEF JoinDispatch, Key
  <2> QED
    BY <1>4, <2>1 DEF JoinDispatch, Waits, Admitted, Admission, GatewayTypes
<1>5. ASSUME NEW k \in Key, StartDispatch(c, k) PROVE GatewayTypes'
  <2>1. counts' \in [Tool -> [Counter -> Nat]]
    BY <1>5, CountAdds DEF StartDispatch, Key
  <2> QED
    BY <1>5, <2>1 DEF StartDispatch, Waits, Admitted, Admission, GatewayTypes, Live
<1>6. CASE WaiterResumes(c)
  <2>1. waitsFor[c] \in Call /\ key[c] \in Key
    BY <1>6 DEF WaiterResumes, FlightInv
  <2>2. key[c][1] \in Tool
    BY <2>1 DEF Key
  <2>3. /\ counts' \in [Tool -> [Counter -> Nat]] /\ deliveredBytes' \in Nat
        /\ publication' \subseteq Call /\ returned' \subseteq Call
    <3>1. CASE task[waitsFor[c]] = "admitted"
      BY <1>6, <2>1, <2>2, <3>1, DeliverType DEF WaiterResumes
    <3>2. CASE task[waitsFor[c]] # "admitted"
      BY <1>6, <2>2, <3>2, CountAdds DEF WaiterResumes, GatewayTypes
    <3> QED
      BY <3>1, <3>2
  <2> QED
    BY <1>6, <2>3 DEF WaiterResumes, GatewayTypes
<1>7. CASE CancelWaiter(c)
  <2>1. key[c][1] \in Tool
    BY <1>7 DEF CancelWaiter, FlightInv, Key
  <2>2. counts' \in [Tool -> [Counter -> Nat]]
    BY <1>7, <2>1, CountAdds DEF CancelWaiter
  <2> QED
    BY <1>7, <2>2 DEF CancelWaiter, TakesAlong, GatewayTypes
<1> QED
  BY <1>1, <1>2, <1>3, <1>4, <1>5, <1>6, <1>7 DEF CallTool

LEMMA SettleType ==
  ASSUME GatewayTypes, NEW c \in Call, NEW how \in Settled, Settle(c, how)
  PROVE  /\ task' \in [Call -> {"none"} \cup Live \cup Settled]
         /\ dispatches' \in [Key -> Call \cup {NoTask}]
BY DEF GatewayTypes, Settle

LEMMA DispatchTypes ==
  ASSUME GatewayAssumption, GatewayTypes, FlightInv, NEW c \in Call, Dispatch(c)
  PROVE  GatewayTypes'
<1> USE DEF calls, work, store, ledger, flags
<1>1. CASE AcquireSemaphore(c)
  BY <1>1 DEF AcquireSemaphore, HeldWhileSent, GatewayTypes, Live
<1>2. CASE UpstreamAdmitted(c)
  <2>1. key[c] \in Key
    BY <1>2 DEF UpstreamAdmitted, FlightInv
  <2>2. PICK s \in Sizes : size' = [size EXCEPT ![c] = s] /\ Remember(key[c], c, s)
    BY <1>2 DEF UpstreamAdmitted
  <2>3. s \in Nat
    BY DEF GatewayAssumption
  <2>4. cache' \in Seq(Entry)
    BY <2>1, <2>2, <2>3, RememberType
  <2>5. "admitted" \in Settled
    BY DEF Settled
  <2> QED
    BY <1>2, <2>2, <2>3, <2>4, <2>5, SettleType DEF UpstreamAdmitted, GatewayTypes
<1>3. CASE UpstreamFails(c)
  <2>1. PICK e \in ResultErrors : Settle(c, e)
    BY <1>3 DEF UpstreamFails
  <2>2. e \in Settled
    BY DEF GatewayAssumption, Settled
  <2> QED
    BY <1>3, <2>1, <2>2, SettleType DEF UpstreamFails, GatewayTypes
<1>4. CASE TimesOut(c)
  <2>1. "timed_out" \in Settled
    BY DEF Settled, Error
  <2> QED
    BY <1>4, <2>1, SettleType DEF TimesOut, DeadlineCode, GatewayTypes
<1> QED
  BY <1>1, <1>2, <1>3, <1>4 DEF Dispatch

(* Every step of the loop, the thread and the review process is well typed.  *)
LEMMA TypeStep ==
  ASSUME GatewayAssumption, TypeOK, FlightInv, [Next]_vars
  PROVE  TypeOK'
<1> USE DEF calls, work, store, ledger, flags, gateway, runtime, runner, signals, outcome
<1>1. CASE UNCHANGED vars
  BY <1>1 DEF vars, TypeOK, GatewayTypes, RuntimeTypes
<1>2. CASE UNCHANGED runtime /\ (GatewayStep \/ RelayConnects)
  <2>1. RuntimeTypes'
    BY <1>2 DEF TypeOK, RuntimeTypes
  <2>2. CASE RelayLeaves \/ ConnectionEnds \/ BudgetRunsOut \/ RelayConnects
    <3>1. /\ connection' \in {"none", "open", "draining", "ended"}
          /\ exhausted' \in BOOLEAN /\ cleanupFailed' \in BOOLEAN /\ UNCHANGED closing
      BY <2>2 DEF RelayLeaves, ConnectionEnds, BudgetRunsOut, RelayConnects, TypeOK, GatewayTypes
    <3>2. UNCHANGED <<calls, work, store, ledger>>
      BY <2>2 DEF RelayLeaves, ConnectionEnds, BudgetRunsOut, RelayConnects
    <3> QED
      BY <2>1, <3>1, <3>2 DEF TypeOK, GatewayTypes
  <2> QED
    BY <1>2, <2>1, <2>2, CallTypes, DispatchTypes DEF GatewayStep, TypeOK
<1>3. ASSUME Thread PROVE GatewayTypes'
  <2>1. CASE PrepareFails \/ ListenerClosed \/ Aborted
    <3>1. CancelTasks
      BY <2>1 DEF PrepareFails, ListenerClosed, Aborted, BeginStop
    <3>2. closing' \in BOOLEAN /\ UNCHANGED <<calls, size, store, ledger, exhausted, cleanupFailed>>
      BY <2>1 DEF PrepareFails, ListenerClosed, Aborted, BeginStop, TypeOK, GatewayTypes
    <3>3. /\ task' \in [Call -> {"none"} \cup Live \cup Settled]
          /\ dispatches' \in [Key -> Call \cup {NoTask}]
          /\ connection' \in {"none", "open", "draining", "ended"}
      BY <3>1 DEF CancelTasks, TypeOK, GatewayTypes, Settled
    <3> QED
      BY <3>2, <3>3 DEF TypeOK, GatewayTypes
  <2>2. CASE GatewayStopped
    BY <2>2, EmptySeq DEF GatewayStopped, TypeOK, GatewayTypes
  <2>3. CASE TornDown
    BY <2>3 DEF TornDown, TypeOK, GatewayTypes
  <2>4. CASE UNCHANGED gateway
    BY <2>4 DEF TypeOK, GatewayTypes
  <2> QED
    BY <1>3, <2>1, <2>2, <2>3, <2>4 DEF Thread, Prepared, ServingEnds, LoopClosed
<1>4. ASSUME Thread PROVE RuntimeTypes'
  <2>1. CASE Prepared \/ PrepareFails \/ ServingEnds
    BY ZenonT(60), <2>1 DEF Prepared, PrepareFails, ServingEnds, TypeOK, RuntimeTypes
  <2>2. CASE ListenerClosed \/ GatewayStopped \/ Aborted \/ LoopClosed
    BY ZenonT(60), <2>2 DEF ListenerClosed, GatewayStopped, Aborted, LoopClosed, TypeOK, RuntimeTypes
  <2>3. CASE TornDown
    BY <2>3 DEF TornDown, TypeOK, RuntimeTypes
  <2> QED
    BY <1>4, <2>1, <2>2, <2>3 DEF Thread
<1>5. CASE Parent
  <2>1. UNCHANGED gateway
    BY <1>5 DEF Parent, GatewayReady, StartTimesOut, OcrExits, BeginClose, Closing,
                JoinTimesOut, CloseGivesUp, CloseReturns
  <2>2. GatewayTypes'
    BY <2>1 DEF TypeOK, GatewayTypes
  <2>3. CASE GatewayReady \/ StartTimesOut
    BY ZenonT(60), <2>2, <2>3 DEF GatewayReady, StartTimesOut, TypeOK, RuntimeTypes
  <2>4. CASE OcrExits \/ BeginClose
    BY ZenonT(60), <2>2, <2>4 DEF OcrExits, BeginClose, TypeOK, RuntimeTypes, GatewayTypes
  <2>5. CASE Closing
    BY ZenonT(60), <2>2, <2>5 DEF Closing, JoinTimesOut, CancelServing, CloseGivesUp, CloseReturns,
                      TypeOK, RuntimeTypes
  <2> QED
    BY <1>5, <2>3, <2>4, <2>5 DEF Parent
<1> QED
  BY <1>1, <1>2, <1>3, <1>4, <1>5 DEF Next, Loop, TypeOK

-----------------------------------------------------------------------------
(* Dispatches                                                                *)

LEMMA FlightStep ==
  ASSUME GatewayAssumption, TypeOK, FlightInv, [Next]_vars
  PROVE  FlightInv'
<1> USE DEF calls, work, store, ledger, flags, gateway, TypeOK
<1>1. CASE UNCHANGED <<calls, task, dispatches>>
  BY <1>1 DEF FlightInv, Live
<1>2. ASSUME NEW c \in Call, Overflow(c) \/ (\E t \in Tool : RefuseCall(c, t))
      PROVE  FlightInv'
  <2>1. call[c] = "idle" /\ call' = [call EXCEPT ![c] = "done"]
    BY <1>2 DEF Overflow, RefuseCall, Admission, Arrives
  <2>2. UNCHANGED <<key, waitsFor, task, dispatches>>
    BY <1>2 DEF Overflow, RefuseCall
  <2> QED
    BY <2>1, <2>2 DEF FlightInv, GatewayTypes, Live
<1>3. ASSUME NEW c \in Call, NEW k \in Key,
             ServeFromCache(c, k) \/ JoinDispatch(c, k) \/ StartDispatch(c, k)
      PROVE  FlightInv'
  <2>1. /\ call[c] = "idle" /\ task[c] = "none" /\ task[c] \notin Live
        /\ key' = [key EXCEPT ![c] = k]
    BY <1>3 DEF ServeFromCache, JoinDispatch, StartDispatch, Admitted, Admission, Arrives,
                FlightInv, Live
  <2>2. CASE ServeFromCache(c, k)
    <3>1. call' = [call EXCEPT ![c] = "done"] /\ UNCHANGED <<waitsFor, task, dispatches>>
      BY <2>2 DEF ServeFromCache
    <3> QED
      BY <2>1, <3>1 DEF FlightInv, GatewayTypes, Live
  <2>3. CASE JoinDispatch(c, k)
    <3>1. /\ call' = [call EXCEPT ![c] = "waiting"]
          /\ waitsFor' = [waitsFor EXCEPT ![c] = dispatches[k]]
          /\ dispatches[k] \in Call /\ UNCHANGED <<task, dispatches>>
      BY <2>3 DEF JoinDispatch, Waits, GatewayTypes
    <3> QED
      BY <2>1, <3>1 DEF FlightInv, GatewayTypes, Live
  <2>4. CASE StartDispatch(c, k)
    <3>1. /\ call' = [call EXCEPT ![c] = "waiting"]
          /\ waitsFor' = [waitsFor EXCEPT ![c] = c]
          /\ dispatches[k] = NoTask /\ NoTask \notin Call
          /\ task' = [task EXCEPT ![c] = "queued"]
          /\ dispatches' = [dispatches EXCEPT ![k] = c]
      BY <2>4 DEF StartDispatch, Waits, GatewayAssumption
    <3>2. ASSUME NEW d \in Call, task'[d] \in Live PROVE dispatches'[key'[d]] = d
      <4>1. CASE d = c
        BY <2>1, <3>1, <4>1 DEF GatewayTypes
      <4>2. CASE d # c
        <5>1. task[d] \in Live /\ key[d] \in Key /\ dispatches[key[d]] = d /\ key'[d] = key[d]
          BY <2>1, <3>1, <3>2, <4>2 DEF FlightInv, GatewayTypes, Live
        <5>2. key[d] # k
          BY <3>1, <5>1
        <5> QED
          BY <3>1, <5>1, <5>2 DEF GatewayTypes
      <4> QED
        BY <4>1, <4>2
    <3> QED
      BY <2>1, <3>1, <3>2 DEF FlightInv, GatewayTypes
  <2> QED
    BY <1>3, <2>2, <2>3, <2>4
<1>4. ASSUME NEW c \in Call, WaiterResumes(c) \/ CancelWaiter(c) PROVE FlightInv'
  <2>1. call' = [call EXCEPT ![c] = "done"] /\ UNCHANGED <<key, waitsFor, dispatches>>
    BY <1>4 DEF WaiterResumes, CancelWaiter
  <2>2. UNCHANGED task
    BY ZenonT(60), <1>4 DEF WaiterResumes, CancelWaiter, TakesAlong, GatewayTypes
  <2>3. call[c] = "waiting"
    BY <1>4 DEF WaiterResumes, CancelWaiter
  <2> QED
    BY <2>1, <2>2, <2>3 DEF FlightInv, GatewayTypes, Live
<1>5. ASSUME NEW c \in Call, Dispatch(c) PROVE FlightInv'
  <2>1. UNCHANGED calls /\ task[c] \in Live
    BY <1>5 DEF Dispatch, AcquireSemaphore, UpstreamAdmitted, UpstreamFails, TimesOut,
                UnderDeadline, Live
  <2>2. CASE AcquireSemaphore(c)
    <3>1. task' = [task EXCEPT ![c] = "sent"] /\ dispatches' = dispatches
      BY <2>2 DEF AcquireSemaphore, HeldWhileSent
    <3> QED
      BY <2>1, <3>1 DEF FlightInv, GatewayTypes, Live
  <2>3. ASSUME NEW how \in Settled, Settle(c, how) PROVE FlightInv'
    <3>1. how \notin Live /\ how # "none"
      BY DEF Settled, Live, Error
    <3>2. ASSUME NEW d \in Call, task'[d] \in Live PROVE dispatches'[key[d]] = d
      <4>1. d # c /\ task[d] \in Live
        BY <2>3, <3>1, <3>2 DEF Settle, GatewayTypes
      <4>2. key[d] \in Key /\ dispatches[key[d]] = d /\ dispatches[key[c]] = c
        BY <2>1, <4>1 DEF FlightInv, Live
      <4> QED
        BY <2>3, <4>1, <4>2 DEF Settle, GatewayTypes
    <3> QED
      BY <2>1, <2>3, <3>1, <3>2 DEF FlightInv, GatewayTypes, Settle, Live
  <2>4. ~AcquireSemaphore(c) => \E how \in Settled : Settle(c, how)
    <3>1. "admitted" \in Settled /\ "timed_out" \in Settled /\ ResultErrors \subseteq Settled
      BY DEF Settled, Error, GatewayAssumption
    <3> QED
      BY <1>5, <3>1 DEF Dispatch, UpstreamAdmitted, UpstreamFails, TimesOut, DeadlineCode
  <2> QED
    BY <2>2, <2>3, <2>4
<1>6. CASE CancelTasks /\ UNCHANGED calls
  <2>1. \A c \in Call : /\ task'[c] \notin Live
                        /\ task'[c] = "none" <=> task[c] = "none"
    BY <1>6 DEF CancelTasks, Live
  <2> QED
    BY <1>6, <2>1 DEF FlightInv, Live
<1>7. ASSUME GatewayStep PROVE FlightInv'
  <2>1. CASE RelayLeaves \/ ConnectionEnds \/ BudgetRunsOut
    BY <1>1, <2>1 DEF RelayLeaves, ConnectionEnds, BudgetRunsOut
  <2> QED
    BY <1>2, <1>3, <1>4, <1>5, <1>7, <2>1 DEF GatewayStep, CallTool
<1>8. ASSUME Thread PROVE FlightInv'
  <2>1. CASE PrepareFails \/ ListenerClosed \/ Aborted
    BY <1>6, <2>1 DEF PrepareFails, ListenerClosed, Aborted, BeginStop
  <2> QED
    BY <1>1, <1>8, <2>1 DEF Thread, Prepared, ServingEnds, GatewayStopped, TornDown, LoopClosed
<1>9. Parent \/ RelayConnects \/ UNCHANGED vars => UNCHANGED <<calls, task, dispatches>>
  BY DEF Parent, GatewayReady, StartTimesOut, OcrExits, BeginClose, Closing, JoinTimesOut,
         CloseGivesUp, CloseReturns, RelayConnects, vars
<1> QED
  BY <1>1, <1>7, <1>8, <1>9 DEF Next, Loop

-----------------------------------------------------------------------------
(* The account of the cache                                                  *)

LEMMA CacheStep ==
  ASSUME GatewayAssumption, TypeOK, FlightInv, CacheInv, [Next]_vars
  PROVE  CacheInv'
<1> USE DEF calls, work, store, ledger, flags, gateway
<1>1. GatewayTypes /\ Exact /\ \A c \in Call : task[c] \in Live => Cached(key[c]) = {} /\ key[c] \in Key
  BY DEF TypeOK, CacheInv, Exact, FlightInv, Live
<1>2. ASSUME UNCHANGED <<cache, cacheBytes>>,
             \A c \in Call : task'[c] \in Live => task[c] \in Live /\ key'[c] = key[c]
      PROVE  CacheInv'
  <2>1. Exact'
    BY <1>1, <1>2 DEF Exact, CacheExact
  <2> QED
    BY <1>1, <1>2, <2>1 DEF Exact, CacheInv, Cached
<1>3. ASSUME UNCHANGED <<cache, cacheBytes, task, key>> PROVE CacheInv'
  BY <1>2, <1>3
<1>4. ASSUME NEW c \in Call, Overflow(c) \/ (\E t \in Tool : RefuseCall(c, t)) PROVE CacheInv'
  BY <1>3, <1>4 DEF Overflow, RefuseCall
<1>5. ASSUME NEW c \in Call, NEW k \in Key,
             ServeFromCache(c, k) \/ JoinDispatch(c, k) \/ StartDispatch(c, k)
      PROVE  CacheInv'
  <2>1. task[c] \notin Live /\ key' = [key EXCEPT ![c] = k] /\ key'[c] = k
        /\ \A d \in Call \ {c} : key'[d] = key[d]
    BY ZenonT(60), <1>5 DEF ServeFromCache, JoinDispatch, StartDispatch, Admitted, Admission, Arrives,
                FlightInv, Live, TypeOK, GatewayTypes
  <2>2. CASE JoinDispatch(c, k)
    <3>1. UNCHANGED <<cache, cacheBytes, task>>
      BY <2>2 DEF JoinDispatch, Waits
    <3> QED
      BY <1>2, <2>1, <3>1
  <2>3. CASE StartDispatch(c, k)
    <3>1. UNCHANGED <<cache, cacheBytes>> /\ Cached(k) = {}
          /\ task' = [task EXCEPT ![c] = "queued"]
      BY <2>3 DEF StartDispatch, Waits
    <3>2. ASSUME NEW d \in Call, task'[d] \in Live PROVE \A m \in DOMAIN cache' : cache'[m].key # key'[d]
      <4>1. CASE d = c
        BY <2>1, <3>1, <4>1 DEF Cached
      <4>2. CASE d # c
        <5>1. task[d] \in Live /\ key'[d] = key[d]
          BY <2>1, <3>1, <3>2, <4>2
        <5> QED
          BY <1>1, <3>1, <5>1 DEF Cached
      <4> QED
        BY <4>1, <4>2
    <3>3. Exact'
      BY <1>1, <3>1 DEF Exact, CacheExact
    <3> QED
      BY <3>2, <3>3 DEF Exact, CacheInv, Cached
  <2>4. CASE ServeFromCache(c, k)
    <3>1. PICK i \in Cached(k) :
            cache' = SubSeq(cache, 1, i - 1) \o From(cache, i) \o <<cache[i]>>
      BY <2>4 DEF ServeFromCache
    <3>2. UNCHANGED <<cacheBytes, task>> /\ i \in DOMAIN cache
      BY <2>4 DEF ServeFromCache, Cached
    <3>3. Exact' /\ \A other \in Key : Cached(other) = {} => Cached(other)' = {}
      BY <1>1, <3>1, <3>2, HitKeepsCache
    <3>4. \A d \in Call : task[d] \in Live => d # c
      BY <2>1
    <3>5. ASSUME NEW d \in Call, task'[d] \in Live PROVE \A m \in DOMAIN cache' : cache'[m].key # key'[d]
      <4>1. task[d] \in Live /\ key'[d] = key[d]
        BY <2>1, <3>2, <3>4, <3>5
      <4>2. Cached(key[d])' = {}
        BY <1>1, <3>3, <4>1
      <4> QED
        BY <4>1, <4>2 DEF Cached
    <3> QED
      BY <3>3, <3>5 DEF Exact, CacheInv, Cached
  <2> QED
    BY <1>5, <2>2, <2>3, <2>4
<1>6. ASSUME NEW c \in Call, WaiterResumes(c) \/ CancelWaiter(c) PROVE CacheInv'
  <2>1. UNCHANGED <<cache, cacheBytes, task, key>>
    BY ZenonT(60), <1>1, <1>6 DEF WaiterResumes, CancelWaiter, TakesAlong, GatewayTypes
  <2> QED
    BY <1>3, <2>1
<1>7. ASSUME NEW c \in Call, Dispatch(c) PROVE CacheInv'
  <2>1. UNCHANGED key /\ task[c] \in Live
    BY <1>7 DEF Dispatch, AcquireSemaphore, UpstreamAdmitted, UpstreamFails, TimesOut,
                UnderDeadline, Live
  <2>2. CASE AcquireSemaphore(c)
    <3>1. \A d \in Call : task'[d] \in Live => task[d] \in Live
      BY <1>1, <2>1, <2>2 DEF AcquireSemaphore, GatewayTypes
    <3>2. UNCHANGED <<cache, cacheBytes>>
      BY <2>2 DEF AcquireSemaphore
    <3> QED
      BY <1>2, <2>1, <3>1, <3>2
  <2>3. ASSUME NEW how \in Settled, Settle(c, how)
        PROVE  \A d \in Call : task'[d] \in Live => d # c /\ task[d] \in Live
    <3>1. how \notin Live
      BY DEF Settled, Live, Error
    <3> QED
      BY <1>1, <2>3, <3>1 DEF Settle, GatewayTypes
  <2>4. "admitted" \in Settled /\ "timed_out" \in Settled /\ ResultErrors \subseteq Settled
    BY DEF Settled, Error, GatewayAssumption
  <2>5. CASE UpstreamFails(c) \/ TimesOut(c)
    <3>1. UNCHANGED <<cache, cacheBytes>> /\ \E how \in Settled : Settle(c, how)
      BY <2>4, <2>5 DEF UpstreamFails, TimesOut, DeadlineCode
    <3> QED
      BY <1>2, <2>1, <2>3, <3>1
  <2>6. CASE UpstreamAdmitted(c)
    <3>1. PICK s \in Sizes : Remember(key[c], c, s)
      BY <2>6 DEF UpstreamAdmitted
    <3>2. s \in Nat /\ key[c] \in Key /\ Cached(key[c]) = {}
      BY <1>1, <2>1 DEF GatewayAssumption
    <3>3. Exact' /\ \A other \in Key \ {key[c]} : Cached(other) = {} => Cached(other)' = {}
      BY <1>1, <3>1, <3>2, RememberExact
    <3>4. \A d \in Call : task'[d] \in Live => d # c /\ task[d] \in Live
      BY <2>3, <2>4, <2>6 DEF UpstreamAdmitted
    <3>5. ASSUME NEW d \in Call, task'[d] \in Live PROVE \A m \in DOMAIN cache' : cache'[m].key # key'[d]
      <4>1. d # c /\ task[d] \in Live /\ key'[d] = key[d]
        BY <2>1, <3>4, <3>5
      <4>2. key[d] \in Key \ {key[c]}
        BY <1>1, <2>1, <4>1 DEF FlightInv
      <4>3. Cached(key[d])' = {}
        BY <1>1, <3>3, <4>1, <4>2
      <4> QED
        BY <4>1, <4>3 DEF Cached
    <3> QED
      BY <3>3, <3>5 DEF Exact, CacheInv, Cached
  <2> QED
    BY <1>7, <2>2, <2>5, <2>6 DEF Dispatch
<1>8. ASSUME GatewayStep PROVE CacheInv'
  <2>1. CASE RelayLeaves \/ ConnectionEnds \/ BudgetRunsOut
    BY <1>3, <2>1 DEF RelayLeaves, ConnectionEnds, BudgetRunsOut
  <2> QED
    BY <1>4, <1>5, <1>6, <1>7, <1>8, <2>1 DEF GatewayStep, CallTool
<1>9. ASSUME Thread PROVE CacheInv'
  <2>1. CASE PrepareFails \/ ListenerClosed \/ Aborted
    <3>1. UNCHANGED <<cache, cacheBytes, key>> /\ CancelTasks
      BY <2>1 DEF PrepareFails, ListenerClosed, Aborted, BeginStop
    <3>2. \A c \in Call : task'[c] \notin Live
      BY <3>1 DEF CancelTasks, Live
    <3> QED
      BY <1>2, <3>1, <3>2
  <2>2. CASE GatewayStopped
    <3>1. cache' = <<>> /\ cacheBytes' = 0
      BY <2>2 DEF GatewayStopped
    <3>2. Bytes(<<>>) = {} /\ DOMAIN <<>> = {} /\ Len(<<>>) = 0
      BY EmptySeq DEF Bytes
    <3>3. Weight(cache') = 0
      BY <3>1, <3>2, FS_EmptySet DEF Weight
    <3> QED
      BY <3>1, <3>2, <3>3 DEF CacheInv, CacheExact, Cached, GatewayAssumption
  <2>3. CASE Prepared \/ ServingEnds \/ TornDown \/ LoopClosed
    BY <1>3, <2>3 DEF Prepared, ServingEnds, TornDown, LoopClosed
  <2> QED
    BY <1>9, <2>1, <2>2, <2>3 DEF Thread
<1>10. Parent \/ RelayConnects \/ UNCHANGED vars => UNCHANGED <<cache, cacheBytes, task, key>>
  BY DEF Parent, GatewayReady, StartTimesOut, OcrExits, BeginClose, Closing, JoinTimesOut,
         CloseGivesUp, CloseReturns, RelayConnects, vars
<1> QED
  BY <1>3, <1>8, <1>9, <1>10 DEF Next, Loop

-----------------------------------------------------------------------------
(* The publication filter                                                    *)

LEMMA PublicationStep ==
  ASSUME GatewayAssumption, TypeOK, FlightInv, PublicationInv, [Next]_vars
  PROVE  PublicationInv'
<1> USE DEF calls, work, store, ledger, flags, gateway, runtime, runner, signals, outcome
<1>1. CASE UNCHANGED <<publication, returned, runner>>
  BY <1>1 DEF PublicationInv
<1>2. ASSUME NEW t, NEW v, NEW hit, NEW S, Deliver(t, v, hit, S), UNCHANGED runner
      PROVE  PublicationInv'
  BY <1>2 DEF Deliver, Publish, PublicationInv
<1>3. ASSUME GatewayStep, UNCHANGED runtime PROVE PublicationInv'
  <2>1. ASSUME NEW c \in Call, NEW k \in Key, ServeFromCache(c, k) PROVE PublicationInv'
    BY <1>2, <1>3, <2>1 DEF ServeFromCache
  <2>2. ASSUME NEW c \in Call, WaiterResumes(c) PROVE PublicationInv'
    <3>1. CASE task[waitsFor[c]] = "admitted"
      BY <1>2, <1>3, <2>2, <3>1 DEF WaiterResumes
    <3>2. CASE task[waitsFor[c]] # "admitted"
      BY <1>1, <1>3, <2>2, <3>2 DEF WaiterResumes
    <3> QED
      BY <3>1, <3>2
  <2>3. ASSUME NEW c \in Call,
               \/ Overflow(c) \/ (\E t \in Tool : RefuseCall(c, t))
               \/ (\E k \in Key : JoinDispatch(c, k) \/ StartDispatch(c, k))
               \/ Dispatch(c) \/ CancelWaiter(c)
        PROVE  UNCHANGED <<publication, returned>>
    BY <2>3 DEF Overflow, RefuseCall, JoinDispatch, StartDispatch, Waits, Dispatch,
                AcquireSemaphore, UpstreamAdmitted, UpstreamFails, TimesOut, CancelWaiter
  <2>4. RelayLeaves \/ ConnectionEnds \/ BudgetRunsOut => UNCHANGED <<publication, returned>>
    BY DEF RelayLeaves, ConnectionEnds, BudgetRunsOut
  <2> QED
    BY <1>1, <1>3, <2>1, <2>2, <2>3, <2>4 DEF GatewayStep, CallTool
<1>4. Thread \/ (RelayConnects /\ UNCHANGED runtime) \/ UNCHANGED vars
        => UNCHANGED <<publication, returned, runner>>
  BY DEF Thread, Prepared, PrepareFails, ServingEnds, ListenerClosed, GatewayStopped, TornDown,
         Aborted, LoopClosed, BeginStop, CancelTasks, RelayConnects, vars
<1>5. CASE GatewayReady \/ StartTimesOut
  BY <1>5 DEF GatewayReady, StartTimesOut, PublicationInv
<1>6. CASE OcrExits
  BY <1>6 DEF OcrExits, PublicationInv
<1>7. CASE BeginClose
  BY <1>7 DEF BeginClose, PublicationInv
<1>8. CASE Closing
  BY <1>8 DEF Closing, JoinTimesOut, CloseGivesUp, CloseReturns, PublicationInv
<1> QED
  BY <1>1, <1>3, <1>4, <1>5, <1>6, <1>7, <1>8 DEF Next, Loop, Parent

-----------------------------------------------------------------------------
(* The end of the thread                                                     *)

(* Nothing of the gateway moves once all is settled, except the budget.      *)
LEMMA SettledIsQuiet ==
  ASSUME GatewayAssumption, TypeOK, FlightInv, AllSettled, GatewayStep
  PROVE  UNCHANGED <<calls, work, store, ledger, connection, closing, cleanupFailed>>
<1> USE DEF calls, work, store, ledger, flags
<1>1. ASSUME NEW c \in Call PROVE ~CallTool(c)
  BY DEF AllSettled, CallTool, Overflow, RefuseCall, ServeFromCache, JoinDispatch,
         StartDispatch, Admitted, Admission, Arrives
<1>2. ASSUME NEW c \in Call PROVE ~Dispatch(c)
  BY DEF AllSettled, Dispatch, AcquireSemaphore, UpstreamAdmitted, UpstreamFails, TimesOut,
         UnderDeadline, Live
<1>3. ASSUME NEW c \in Call PROVE ~WaiterResumes(c) /\ ~CancelWaiter(c)
  BY DEF AllSettled, Waiting, WaiterResumes, CancelWaiter
<1>4. ~RelayLeaves /\ ~ConnectionEnds
  BY DEF AllSettled, RelayLeaves, ConnectionEnds
<1> QED
  BY <1>1, <1>2, <1>3, <1>4 DEF GatewayStep, BudgetRunsOut

LEMMA ThreadStep ==
  ASSUME GatewayAssumption, TypeOK, FlightInv, ThreadInv, [Next]_vars
  PROVE  ThreadInv'
<1> USE DEF calls, work, store, ledger, flags, gateway, runtime, runner, signals, outcome
<1>1. ASSUME UNCHANGED <<calls, work, connection>>, AllSettled PROVE AllSettled'
  BY <1>1 DEF AllSettled, Waiting, Live
<1>2. CASE GatewayStep /\ thread # "done" /\ UNCHANGED runtime
  <2>1. CASE thread = "tearing"
    <3>1. AllSettled
      BY <2>1 DEF ThreadInv
    <3> QED
      BY <1>1, <1>2, <2>1, <3>1, SettledIsQuiet DEF ThreadInv
  <2> QED
    BY <1>2, <2>1 DEF ThreadInv
<1>3. CASE RelayConnects /\ thread \in {"serving", "unlistening"} /\ UNCHANGED runtime
  BY <1>3 DEF ThreadInv
<1>4. CASE UNCHANGED vars
  BY <1>1, <1>4 DEF vars, ThreadInv
<1>5. CASE Prepared \/ PrepareFails \/ ServingEnds \/ ListenerClosed
  BY <1>5 DEF Prepared, PrepareFails, ServingEnds, ListenerClosed, ThreadInv
<1>6. CASE GatewayStopped
  BY <1>1, <1>6 DEF GatewayStopped, ThreadInv
<1>7. CASE TornDown
  <2>1. AllSettled'
    BY <1>1, <1>7 DEF TornDown, ThreadInv
  <2>2. thread = "tearing" /\ thread' = "done" /\ sessions' = "closed" /\ UNCHANGED parent
    BY <1>7 DEF TornDown
  <2>3. receipt' => ~cleanupFailed'
    BY <1>7 DEF TornDown
  <2>4. parent # "returned"
    BY <2>2 DEF ThreadInv
  <2> QED
    BY <2>1, <2>2, <2>3, <2>4 DEF ThreadInv
<1>8. CASE Aborted
  BY <1>8 DEF Aborted, ThreadInv
<1>9. CASE LoopClosed
  BY <1>1, <1>9 DEF LoopClosed, ThreadInv
<1>10. CASE Parent
  <2>1. UNCHANGED <<gateway, thread, sessions, receipt>>
    BY <1>10 DEF Parent, GatewayReady, StartTimesOut, OcrExits, BeginClose, Closing,
                 JoinTimesOut, CloseGivesUp, CloseReturns
  <2>2. parent' = "returned" => receipt
    BY <1>10 DEF Parent, GatewayReady, StartTimesOut, OcrExits, BeginClose, Closing,
                 JoinTimesOut, CloseGivesUp, CloseReturns
  <2> QED
    BY <1>1, <2>1, <2>2 DEF ThreadInv
<1> QED
  BY <1>2, <1>3, <1>4, <1>5, <1>6, <1>7, <1>8, <1>9, <1>10 DEF Next, Loop, Thread

-----------------------------------------------------------------------------
(* The account of calls                                                      *)

(* What one step of a call may add: how an attempt begins and how it ends.   *)
Beginnings == {{}, {"attempted"}, {"attempted", "cache_hits"}, {"attempted", "single_flight"}}
Endings ==
  {{"completed"}, {"failed"}, {"timed_out"}, {"denied"}, {"denied", "oversized"},
   {"denied", "dlp_rejected", "gate_protected"}, {"denied", "oversized", "gate_limit"}}

LEMMA CountedEnds ==
  ASSUME NEW e \in Error
  PROVE  Counted(e) \in Endings
BY DEF Counted, Endings, Error

(* The effect of one step on the sums a receipt is judged by.                *)
LEMMA AccountMoves ==
  ASSUME GatewayTypes, NEW t \in Tool, NEW B \in Beginnings, NEW E \in Endings \cup {{}},
         Count(t, B \cup E), \A u \in Tool : Diagnosed(u)
  PROVE  \A u \in Tool :
           /\ Diagnosed(u)'
           /\ counts'[u]["attempted"] =
                counts[u]["attempted"] + IF u = t /\ B # {} THEN 1 ELSE 0
           /\ Outcomes(u)' = Outcomes(u) + IF u = t /\ E # {} THEN 1 ELSE 0
<1> SUFFICES ASSUME NEW u \in Tool
             PROVE  /\ Diagnosed(u)'
                    /\ counts'[u]["attempted"] =
                         counts[u]["attempted"] + IF u = t /\ B # {} THEN 1 ELSE 0
                    /\ Outcomes(u)' = Outcomes(u) + IF u = t /\ E # {} THEN 1 ELSE 0
  OBVIOUS
<1> DEFINE bit(k) == IF u = t /\ k \in B \cup E THEN 1 ELSE 0
<1>1. \A k \in Counter : counts[u][k] \in Nat /\ counts'[u][k] = counts[u][k] + bit(k)
  BY CountAdds DEF GatewayTypes
<1>2. Diagnosed(u)
  OBVIOUS
<1>3. /\ bit("attempted") = (IF u = t /\ B # {} THEN 1 ELSE 0)
      /\ bit("completed") + bit("denied") + bit("failed") + bit("timed_out") =
           (IF u = t /\ E # {} THEN 1 ELSE 0)
      /\ bit("dlp_rejected") + bit("oversized") <= bit("denied")
      /\ bit("cache_hits") + bit("single_flight") <= bit("attempted")
      /\ bit("gate_protected") = bit("dlp_rejected")
      /\ bit("gate_limit") <= bit("oversized")
  <2>1. /\ "attempted" \in B <=> B # {}
        /\ "cache_hits" \in B => "attempted" \in B /\ "single_flight" \notin B
        /\ "single_flight" \in B => "attempted" \in B
        /\ B \cap UNION Endings = {}
    BY DEF Beginnings, Endings
  <2>2. /\ E # {} => \/ "completed" \in E /\ E \cap {"denied", "failed", "timed_out"} = {}
                     \/ "denied" \in E /\ E \cap {"completed", "failed", "timed_out"} = {}
                     \/ "failed" \in E /\ E \cap {"denied", "completed", "timed_out"} = {}
                     \/ "timed_out" \in E /\ E \cap {"denied", "failed", "completed"} = {}
        /\ "dlp_rejected" \in E => "denied" \in E /\ "oversized" \notin E
        /\ "oversized" \in E => "denied" \in E
        /\ "gate_protected" \in E <=> "dlp_rejected" \in E
        /\ "gate_limit" \in E => "oversized" \in E
        /\ {"attempted", "cache_hits", "single_flight"} \cap E = {}
    BY DEF Endings
  <2>3. {"completed", "denied", "failed", "timed_out", "dlp_rejected", "oversized",
         "gate_protected", "gate_limit"} \subseteq UNION Endings
    BY DEF Endings
  <2> QED
    BY <2>1, <2>2, <2>3
<1>4. \A k \in Counter : bit(k) \in {0, 1}
  OBVIOUS
<1> HIDE DEF bit
<1>5. /\ counts'[u]["attempted"] = counts[u]["attempted"] + bit("attempted")
      /\ counts'[u]["completed"] = counts[u]["completed"] + bit("completed")
      /\ counts'[u]["denied"] = counts[u]["denied"] + bit("denied")
      /\ counts'[u]["failed"] = counts[u]["failed"] + bit("failed")
      /\ counts'[u]["timed_out"] = counts[u]["timed_out"] + bit("timed_out")
      /\ counts'[u]["dlp_rejected"] = counts[u]["dlp_rejected"] + bit("dlp_rejected")
      /\ counts'[u]["oversized"] = counts[u]["oversized"] + bit("oversized")
      /\ counts'[u]["cache_hits"] = counts[u]["cache_hits"] + bit("cache_hits")
      /\ counts'[u]["single_flight"] = counts[u]["single_flight"] + bit("single_flight")
      /\ counts'[u]["gate_protected"] = counts[u]["gate_protected"] + bit("gate_protected")
      /\ counts'[u]["gate_limit"] = counts[u]["gate_limit"] + bit("gate_limit")
  BY <1>1 DEF Counter
<1>6. /\ counts[u]["attempted"] \in Nat /\ counts[u]["completed"] \in Nat
      /\ counts[u]["denied"] \in Nat /\ counts[u]["failed"] \in Nat
      /\ counts[u]["timed_out"] \in Nat /\ counts[u]["dlp_rejected"] \in Nat
      /\ counts[u]["oversized"] \in Nat /\ counts[u]["cache_hits"] \in Nat
      /\ counts[u]["single_flight"] \in Nat /\ counts[u]["gate_protected"] \in Nat
      /\ counts[u]["gate_limit"] \in Nat
  BY <1>1 DEF Counter
<1>7. /\ bit("attempted") \in {0, 1} /\ bit("completed") \in {0, 1}
      /\ bit("denied") \in {0, 1} /\ bit("failed") \in {0, 1}
      /\ bit("timed_out") \in {0, 1} /\ bit("dlp_rejected") \in {0, 1}
      /\ bit("oversized") \in {0, 1} /\ bit("cache_hits") \in {0, 1}
      /\ bit("single_flight") \in {0, 1} /\ bit("gate_protected") \in {0, 1}
      /\ bit("gate_limit") \in {0, 1}
  BY <1>4 DEF Counter
<1>8. Outcomes(u)' = Outcomes(u) + IF u = t /\ E # {} THEN 1 ELSE 0
  BY <1>3, <1>5, <1>6, <1>7 DEF Outcomes
<1>9. Diagnosed(u)'
  BY <1>2, <1>3, <1>5, <1>6, <1>7 DEF Diagnosed, Denials
<1> QED
  BY <1>3, <1>5, <1>8, <1>9

LEMMA OutcomesType ==
  ASSUME GatewayTypes, NEW t \in Tool
  PROVE  counts[t]["attempted"] \in Nat /\ Outcomes(t) \in Nat
<1>1. /\ counts[t]["attempted"] \in Nat /\ counts[t]["completed"] \in Nat
      /\ counts[t]["denied"] \in Nat /\ counts[t]["failed"] \in Nat
      /\ counts[t]["timed_out"] \in Nat
  BY DEF GatewayTypes, Counter
<1> QED
  BY <1>1 DEF Outcomes

WaitingAt(t) == {c \in Waiting : key[c][1] = t}
Begun == {c \in Call : call[c] # "idle"}

(* A waiting call enters the account of its tool, or leaves it.              *)
LEMMA WaitingCounts ==
  ASSUME GatewayAssumption, NEW t \in Tool
  PROVE  /\ IsFiniteSet(WaitingAt(t)) /\ Cardinality(WaitingAt(t)) \in Nat
         /\ IsFiniteSet(Begun) /\ Cardinality(Begun) \in Nat
<1>1. IsFiniteSet(Call)
  BY DEF GatewayAssumption
<1>2. WaitingAt(t) \in SUBSET Call /\ Begun \in SUBSET Call
  BY DEF WaitingAt, Begun, Waiting
<1> QED
  BY <1>1, <1>2, FS_Subset, FS_CardinalityType

(* An attempt that begins and ends at once, or begins to wait.               *)
LEMMA AttemptBegins ==
  ASSUME GatewayAssumption, TypeOK, AccountInv, NEW c \in Call, NEW t \in Tool,
         NEW B \in Beginnings \ {{}}, NEW E \in Endings \cup {{}},
         call[c] = "idle", Count(t, B \cup E), totalCalls' = totalCalls + 1,
         totalCalls < MaxCalls, UNCHANGED cleanupFailed,
         call' = [call EXCEPT ![c] = IF E = {} THEN "waiting" ELSE "done"],
         \A d \in Call \ {c} : key'[d] = key[d],
         E = {} => key'[c][1] = t
  PROVE  AccountInv'
<1> USE DEF TypeOK
<1>1. \A u \in Tool :
        /\ Diagnosed(u)'
        /\ counts'[u]["attempted"] = counts[u]["attempted"] + IF u = t THEN 1 ELSE 0
        /\ Outcomes(u)' = Outcomes(u) + IF u = t /\ E # {} THEN 1 ELSE 0
  BY AccountMoves DEF AccountInv
<1>2. ASSUME NEW u \in Tool
      PROVE  Cardinality(WaitingAt(u)') = Cardinality(WaitingAt(u)) + IF u = t /\ E = {} THEN 1 ELSE 0
  <2>1. c \notin WaitingAt(u)
    BY DEF WaitingAt, Waiting
  <2>2. CASE u = t /\ E = {}
    <3>1. WaitingAt(u)' = WaitingAt(u) \cup {c}
      BY <2>2 DEF WaitingAt, Waiting, GatewayTypes
    <3> QED
      BY <2>1, <2>2, <3>1, WaitingCounts, FS_AddElement
  <2>3. CASE ~(u = t /\ E = {})
    <3>1. WaitingAt(u)' = WaitingAt(u)
      BY <2>3 DEF WaitingAt, Waiting, GatewayTypes
    <3> QED
      BY <2>3, <3>1, WaitingCounts
  <2> QED
    BY <2>2, <2>3
<1>3. Cardinality(Begun') = Cardinality(Begun) + 1
  <2>1. c \notin Begun /\ Begun' = Begun \cup {c}
    BY DEF Begun, GatewayTypes
  <2> QED
    BY <2>1, WaitingCounts, FS_AddElement
<1>4. AttemptsAccounted'
  <2> SUFFICES ASSUME NEW u \in Tool
               PROVE  counts'[u]["attempted"] = Outcomes(u)' + Cardinality(WaitingAt(u)')
    BY DEF AttemptsAccounted, WaitingAt
  <2>1. counts[u]["attempted"] = Outcomes(u) + Cardinality(WaitingAt(u))
    BY DEF AccountInv, AttemptsAccounted, WaitingAt
  <2>2. counts[u]["attempted"] \in Nat /\ Outcomes(u) \in Nat /\ Cardinality(WaitingAt(u)) \in Nat
    BY OutcomesType, WaitingCounts
  <2> QED
    BY <1>1, <1>2, <2>1, <2>2
<1>5. totalCalls' <= MaxCalls
  BY DEF GatewayTypes, GatewayAssumption
<1>6. ~cleanupFailed' => totalCalls' = Cardinality(Begun')
  BY <1>3 DEF AccountInv, Begun
<1> QED
  BY <1>1, <1>4, <1>5, <1>6 DEF AccountInv, Begun

(* A waiting call is answered.                                               *)
LEMMA AttemptEnds ==
  ASSUME GatewayAssumption, TypeOK, AccountInv, NEW c \in Call, NEW E \in Endings,
         key[c] \in Key, call[c] = "waiting", call' = [call EXCEPT ![c] = "done"],
         Count(key[c][1], E), UNCHANGED <<key, totalCalls, cleanupFailed>>
  PROVE  AccountInv'
<1> USE DEF TypeOK
<1> DEFINE t == key[c][1]
<1>1. \A u \in Tool :
        /\ Diagnosed(u)'
        /\ counts'[u]["attempted"] = counts[u]["attempted"]
        /\ Outcomes(u)' = Outcomes(u) + IF u = t THEN 1 ELSE 0
  <2>1. {} \in Beginnings /\ {} \cup E = E /\ E # {} /\ t \in Tool
    BY DEF Beginnings, Endings, Key
  <2>2. \A u \in Tool :
          /\ Diagnosed(u)'
          /\ counts'[u]["attempted"] = counts[u]["attempted"] + 0
          /\ Outcomes(u)' = Outcomes(u) + IF u = t THEN 1 ELSE 0
    BY <2>1, AccountMoves DEF AccountInv
  <2> QED
    BY <2>2 DEF GatewayTypes, Counter
<1>2. ASSUME NEW u \in Tool
      PROVE  Cardinality(WaitingAt(u)') = Cardinality(WaitingAt(u)) - IF u = t THEN 1 ELSE 0
  <2>1. CASE u = t
    <3>1. c \in WaitingAt(u) /\ WaitingAt(u)' = WaitingAt(u) \ {c}
      BY <2>1 DEF WaitingAt, Waiting, GatewayTypes
    <3>2. IsFiniteSet(WaitingAt(u))
      BY WaitingCounts
    <3>3. Cardinality(WaitingAt(u) \ {c}) = Cardinality(WaitingAt(u)) - 1
      BY ONLY <3>1, <3>2, FS_RemoveElement
    <3> QED
      BY <2>1, <3>1, <3>3
  <2>2. CASE u # t
    <3>1. WaitingAt(u)' = WaitingAt(u)
      BY <2>2 DEF WaitingAt, Waiting, GatewayTypes
    <3> QED
      BY <2>2, <3>1, WaitingCounts
  <2> QED
    BY <2>1, <2>2
<1>3. Begun' = Begun
  BY DEF Begun, GatewayTypes
<1>4. AttemptsAccounted'
  <2> SUFFICES ASSUME NEW u \in Tool
               PROVE  counts'[u]["attempted"] = Outcomes(u)' + Cardinality(WaitingAt(u)')
    BY DEF AttemptsAccounted, WaitingAt
  <2>1. counts[u]["attempted"] = Outcomes(u) + Cardinality(WaitingAt(u))
    BY DEF AccountInv, AttemptsAccounted, WaitingAt
  <2>2. counts[u]["attempted"] \in Nat /\ Outcomes(u) \in Nat /\ Cardinality(WaitingAt(u)) \in Nat
    BY OutcomesType, WaitingCounts
  <2> QED
    BY <1>1, <1>2, <2>1, <2>2
<1> QED
  BY <1>1, <1>3, <1>4 DEF AccountInv, Begun

LEMMA DeliverCounts ==
  ASSUME NEW t, NEW v, NEW hit, NEW B, Deliver(t, v, hit, B)
  PROVE  \E E \in Endings : Count(t, B \cup E)
<1>1. Counted("budget_exceeded") \in Endings /\ {"completed"} \in Endings
  BY DEF Counted, Endings
<1> QED
  BY <1>1 DEF Deliver

LEMMA AccountStep ==
  ASSUME GatewayAssumption, TypeOK, FlightInv, AccountInv, [Next]_vars
  PROVE  AccountInv'
<1> USE DEF calls, work, store, ledger, flags, gateway
<1>1. ASSUME UNCHANGED <<call, key, counts, totalCalls>>, cleanupFailed => cleanupFailed'
      PROVE  AccountInv'
  BY <1>1 DEF AccountInv, AttemptsAccounted, Diagnosed, Denials, Outcomes, Waiting
<1>2. ASSUME NEW c \in Call, Overflow(c) PROVE AccountInv'
  <2>1. /\ call[c] = "idle" /\ call' = [call EXCEPT ![c] = "done"] /\ cleanupFailed' = TRUE
        /\ UNCHANGED <<key, counts, totalCalls>>
    BY <1>2 DEF Overflow, NoReceipt, Arrives
  <2>2. Waiting' = Waiting
    BY <2>1 DEF Waiting, TypeOK, GatewayTypes
  <2> QED
    BY <2>1, <2>2 DEF AccountInv, AttemptsAccounted, Diagnosed, Denials, Outcomes
<1>3. ASSUME NEW c \in Call, NEW t \in Tool, RefuseCall(c, t) PROVE AccountInv'
  <2>1. PICK e \in Error : Count(t, {"attempted"} \cup Counted(e))
    BY <1>3 DEF RefuseCall, GatewayAssumption, Error
  <2>2. Counted(e) \in Endings /\ Counted(e) # {} /\ {"attempted"} \in Beginnings \ {{}}
    BY CountedEnds DEF Beginnings, Endings
  <2>3. /\ call[c] = "idle" /\ call' = [call EXCEPT ![c] = "done"]
        /\ totalCalls < MaxCalls /\ totalCalls' = totalCalls + 1 /\ UNCHANGED <<key, cleanupFailed>>
    BY <1>3 DEF RefuseCall, Admission, Arrives
  <2> QED
    BY <2>1, <2>2, <2>3, AttemptBegins
<1>4. ASSUME NEW c \in Call, NEW k \in Key,
             ServeFromCache(c, k) \/ JoinDispatch(c, k) \/ StartDispatch(c, k)
      PROVE  AccountInv'
  <2>1. /\ call[c] = "idle" /\ totalCalls < MaxCalls /\ totalCalls' = totalCalls + 1
        /\ key' = [key EXCEPT ![c] = k] /\ UNCHANGED cleanupFailed
    BY <1>4 DEF ServeFromCache, JoinDispatch, StartDispatch, Admitted, Admission, Arrives
  <2>2. k[1] \in Tool /\ key'[c] = k /\ \A d \in Call \ {c} : key'[d] = key[d]
    BY <2>1 DEF Key, TypeOK, GatewayTypes
  <2>3. CASE ServeFromCache(c, k)
    <3>1. {"attempted", "cache_hits"} \in Beginnings \ {{}} /\ {} \notin Endings
      BY DEF Beginnings, Endings
    <3>2. PICK E \in Endings : Count(k[1], {"attempted", "cache_hits"} \cup E)
      BY <2>3, DeliverCounts DEF ServeFromCache
    <3>3. call' = [call EXCEPT ![c] = "done"]
      BY <2>3 DEF ServeFromCache
    <3> QED
      BY <2>1, <2>2, <3>1, <3>2, <3>3, AttemptBegins
  <2>4. ASSUME NEW B \in Beginnings \ {{}}, Count(k[1], B), Waits(c, dispatches[k]) \/ Waits(c, c)
        PROVE  AccountInv'
    <3> DEFINE E == {}
    <3>1. /\ call' = [call EXCEPT ![c] = IF E = {} THEN "waiting" ELSE "done"]
          /\ Count(k[1], B \cup E) /\ E \in Endings \cup {{}} /\ key'[c][1] = k[1]
      <4>1. B \cup E = B
        OBVIOUS
      <4> QED
        BY <2>2, <2>4, <4>1 DEF Waits
    <3> HIDE DEF E
    <3> QED
      BY <2>1, <2>2, <2>4, <3>1, AttemptBegins
  <2>5. CASE JoinDispatch(c, k)
    <3>1. {"attempted", "single_flight"} \in Beginnings \ {{}}
      BY DEF Beginnings
    <3> QED
      BY <2>4, <2>5, <3>1 DEF JoinDispatch
  <2>6. CASE StartDispatch(c, k)
    <3>1. {"attempted"} \in Beginnings \ {{}}
      BY DEF Beginnings
    <3> QED
      BY <2>4, <2>6, <3>1 DEF StartDispatch
  <2> QED
    BY <1>4, <2>3, <2>5, <2>6
<1>5. ASSUME NEW c \in Call, WaiterResumes(c) PROVE AccountInv'
  <2>1. /\ key[c] \in Key /\ waitsFor[c] \in Call /\ call[c] = "waiting"
        /\ call' = [call EXCEPT ![c] = "done"] /\ UNCHANGED <<key, totalCalls, cleanupFailed>>
    BY <1>5 DEF WaiterResumes, FlightInv
  <2>2. PICK E \in Endings : Count(key[c][1], E)
    <3>1. CASE task[waitsFor[c]] = "admitted"
      <4>1. \E E \in Endings : Count(key[c][1], {} \cup E)
        BY <1>5, <3>1, DeliverCounts DEF WaiterResumes
      <4> QED
        BY <4>1
    <3>2. CASE task[waitsFor[c]] # "admitted"
      <4>1. {"failed"} \in Endings
        BY DEF Endings
      <4>2. task[waitsFor[c]] \in Error \cup {"cancelled"}
        BY <1>5, <3>2 DEF WaiterResumes, Settled
      <4> QED
        BY <1>5, <3>2, <4>1, <4>2, CountedEnds DEF WaiterResumes
    <3> QED
      BY <3>1, <3>2
  <2> QED
    BY <2>1, <2>2, AttemptEnds
<1>6. ASSUME NEW c \in Call, CancelWaiter(c) PROVE AccountInv'
  <2>1. /\ key[c] \in Key /\ call[c] = "waiting"
        /\ call' = [call EXCEPT ![c] = "done"] /\ UNCHANGED <<key, totalCalls, cleanupFailed>>
    BY <1>6 DEF CancelWaiter, FlightInv
  <2>2. {"failed"} \in Endings /\ Count(key[c][1], {"failed"})
    BY <1>6 DEF CancelWaiter, CancelledCounters, Endings
  <2> QED
    BY <2>1, <2>2, AttemptEnds
<1>7. ASSUME GatewayStep PROVE AccountInv'
  <2>1. ASSUME NEW c \in Call, Dispatch(c) PROVE AccountInv'
    BY <1>1, <2>1 DEF Dispatch, AcquireSemaphore, UpstreamAdmitted, UpstreamFails, TimesOut
  <2>2. CASE RelayLeaves \/ BudgetRunsOut
    BY <1>1, <2>2 DEF RelayLeaves, BudgetRunsOut
  <2>3. CASE ConnectionEnds
    BY <1>1, <2>3 DEF ConnectionEnds
  <2> QED
    BY <1>2, <1>3, <1>4, <1>5, <1>6, <1>7, <2>1, <2>2, <2>3 DEF GatewayStep, CallTool
<1>8. Thread \/ Parent \/ RelayConnects \/ UNCHANGED vars
        => UNCHANGED <<call, key, counts, totalCalls>> /\ (cleanupFailed => cleanupFailed')
  <2>1. Parent \/ RelayConnects \/ UNCHANGED vars => UNCHANGED <<call, key, counts, totalCalls, cleanupFailed>>
    BY DEF Parent, GatewayReady, StartTimesOut, OcrExits, BeginClose, Closing, JoinTimesOut,
           CloseGivesUp, CloseReturns, RelayConnects, vars
  <2>2. Thread => UNCHANGED <<call, key, counts, totalCalls>> /\ (cleanupFailed => cleanupFailed')
    <3>1. Prepared \/ ServingEnds \/ LoopClosed => UNCHANGED gateway
      BY DEF Prepared, ServingEnds, LoopClosed
    <3>2. PrepareFails \/ ListenerClosed \/ Aborted
            => UNCHANGED <<call, key, counts, totalCalls, cleanupFailed>>
      BY DEF PrepareFails, ListenerClosed, Aborted, BeginStop
    <3>3. GatewayStopped => UNCHANGED <<call, key, counts, totalCalls, cleanupFailed>>
      BY DEF GatewayStopped
    <3>4. TornDown => UNCHANGED <<call, key, counts, totalCalls>> /\ (cleanupFailed => cleanupFailed')
      <4>1. TornDown => /\ UNCHANGED <<calls, ledger>>
                        /\ cleanupFailed' = cleanupFailed \/ cleanupFailed' = TRUE
        BY DEF TornDown
      <4> QED
        BY <4>1
    <3> QED
      BY <3>1, <3>2, <3>3, <3>4 DEF Thread
  <2> QED
    BY <2>1, <2>2
<1> QED
  BY <1>1, <1>7, <1>8 DEF Next, Loop

-----------------------------------------------------------------------------
(* The theorems                                                              *)

IInv == TypeOK /\ FederationInv

(* IInv is inductive.                                                        *)
LEMMA Inductive == Spec => []IInv
<1>1. ASSUME Init PROVE IInv
  <2> USE <1>1 DEF Init, GatewayInit
  <2>1. TypeOK
    BY EmptySeq DEF TypeOK, GatewayTypes, RuntimeTypes, Counter, Settled, Live
  <2>2. FlightInv /\ PublicationInv /\ ThreadInv
    BY DEF FlightInv, PublicationInv, ThreadInv, Live
  <2>3. Waiting = {} /\ {c \in Call : call[c] # "idle"} = {}
    BY DEF Waiting
  <2>4. AttemptsAccounted
    BY <2>3, FS_EmptySet DEF AttemptsAccounted, Outcomes, Counter
  <2>5. \A t \in Tool : Diagnosed(t)
    BY DEF Diagnosed, Denials, Counter
  <2>6. totalCalls = Cardinality({c \in Call : call[c] # "idle"})
    BY <2>3, FS_EmptySet
  <2>7. totalCalls = 0 /\ MaxCalls \in Nat
    BY GatewayAssumption
  <2>8. Bytes(<<>>) = {} /\ DOMAIN <<>> = {} /\ Len(<<>>) = 0
    BY EmptySeq DEF Bytes
  <2>9. Weight(cache) = 0
    BY <2>8, FS_EmptySet DEF Weight
  <2>11. 0 <= CacheBytes /\ 0 <= CacheEntries
    BY GatewayAssumption
  <2>10. CacheInv
    BY <2>8, <2>9, <2>11 DEF CacheInv, CacheExact, Cached
  <2> QED
    BY <2>1, <2>2, <2>4, <2>5, <2>6, <2>7, <2>10 DEF IInv, FederationInv, AccountInv
<1>2. ASSUME IInv, [Next]_vars PROVE IInv'
  BY <1>2, GatewayAssumption, TypeStep, FlightStep, PublicationStep, AccountStep, ThreadStep, CacheStep
     DEF IInv, FederationInv
<1> QED
  BY <1>1, <1>2, PTL DEF Spec

(* Types and the inductive invariant hold in every state, for any number of  *)
(* calls, tools and arguments, any limits and any sizes.                     *)
THEOREM FederationInvariant == Spec => [](TypeOK /\ FederationInv)
<1>1. IInv => TypeOK /\ FederationInv
  BY DEF IInv
<1> QED
  BY <1>1, Inductive, PTL

(* Types are kept.                                                           *)
THEOREM TypeCorrect == Spec => []TypeOK
<1>1. IInv => TypeOK
  BY DEF IInv
<1> QED
  BY <1>1, Inductive, PTL

(* No two running upstream requests have the same key.                       *)
THEOREM OneFlight == Spec => []SingleFlight
<1>1. IInv => SingleFlight
  BY DEF IInv, FederationInv, FlightInv, SingleFlight
<1> QED
  BY <1>1, Inductive, PTL

(* Every attempt has one outcome or is still waiting for it.                 *)
THEOREM Accounted == Spec => []AttemptsAccounted
<1>1. IInv => AttemptsAccounted
  BY DEF IInv, FederationInv, AccountInv
<1> QED
  BY <1>1, Inductive, PTL

(* The runner's publication filter covers all OCR could read.                *)
THEOREM FilterCovers == Spec => []ForbiddenCoversSeen
<1>1. IInv => ForbiddenCoversSeen
  BY DEF IInv, FederationInv, PublicationInv, ForbiddenCoversSeen
<1> QED
  BY <1>1, Inductive, PTL

(* The byte account of the cache is exact and bounded, for any sizes and     *)
(* limits: eviction stops where the new entry fits, a hit keeps the weight,  *)
(* and no result ever replaces an entry.                                     *)
THEOREM CacheAccounted == Spec => []CacheExact
<1>1. IInv => CacheExact
  BY DEF IInv, FederationInv, CacheInv
<1> QED
  BY <1>1, Inductive, PTL

(* A receipt that close returns is whole.                                    *)
THEOREM ReceiptWhole == Spec => []ReturnedReceiptIsWhole
<1>1. ASSUME IInv PROVE ReturnedReceiptIsWhole
  <2> SUFFICES ASSUME parent = "returned"
               PROVE  /\ receipt /\ ~cleanupFailed /\ sessions = "closed" /\ AllSettled
                      /\ totalCalls <= MaxCalls
                      /\ \A t \in Tool : ValidEntry(t)
                      /\ totalCalls = Cardinality({c \in Call : call[c] = "done"})
    BY DEF ReturnedReceiptIsWhole
  <2>1. receipt /\ ~cleanupFailed /\ sessions = "closed" /\ AllSettled
    BY <1>1 DEF IInv, FederationInv, ThreadInv
  <2>2. Waiting = {}
    BY <2>1 DEF AllSettled
  <2>3. {c \in Call : call[c] # "idle"} = {c \in Call : call[c] = "done"}
    BY <1>1, <2>2 DEF Waiting, IInv, TypeOK, GatewayTypes
  <2>4. ASSUME NEW t \in Tool PROVE counts[t]["attempted"] = Outcomes(t)
    <3>1. {c \in Waiting : key[c][1] = t} = {}
      BY <2>2
    <3>2. counts[t]["attempted"] = Outcomes(t) + 0
      BY <1>1, <3>1, FS_EmptySet DEF IInv, FederationInv, AccountInv, AttemptsAccounted
    <3>3. Outcomes(t) \in Nat
      BY <1>1, OutcomesType DEF IInv, TypeOK
    <3> QED
      BY <3>2, <3>3
  <2>5. \A t \in Tool : ValidEntry(t)
    BY <1>1, <2>4 DEF ValidEntry, IInv, FederationInv, AccountInv, Diagnosed
  <2> QED
    BY <1>1, <2>1, <2>3, <2>5 DEF IInv, FederationInv, AccountInv
<1> QED
  BY <1>1, Inductive, PTL

(* Only the stop of the whole gateway cancels a shared request.              *)
THEOREM SharedSurvives == Spec => SharedRequestSurvives
<1>1. ASSUME IInv, [Next]_vars, NEW c \in Call,
             task[c] \in Live, task'[c] = "cancelled"
      PROVE  thread' # thread
  <2> USE DEF calls, work, store, ledger, flags, gateway
  <2>1. task \in [Call -> {"none"} \cup Live \cup Settled] /\ task'[c] # task[c]
    BY <1>1 DEF IInv, TypeOK, GatewayTypes, Live
  <2>2. ASSUME NEW d \in Call, NEW how \in Error \cup {"admitted"}, Settle(d, how) PROVE FALSE
    BY <1>1, <2>1, <2>2 DEF Settle, Error
  <2>3. ASSUME NEW d \in Call, Dispatch(d) PROVE FALSE
    <3>1. CASE AcquireSemaphore(d)
      BY <1>1, <2>1, <3>1 DEF AcquireSemaphore
    <3>2. CASE UpstreamAdmitted(d) \/ UpstreamFails(d) \/ TimesOut(d)
      <4>1. "timed_out" \in Error /\ ResultErrors \subseteq Error
        BY GatewayAssumption DEF Error
      <4> QED
        BY <2>2, <3>2, <4>1 DEF UpstreamAdmitted, UpstreamFails, TimesOut, DeadlineCode
    <3> QED
      BY <2>3, <3>1, <3>2 DEF Dispatch
  <2>4. ASSUME NEW d \in Call, CallTool(d) PROVE FALSE
    <3>1. task' = task \/ task' = [task EXCEPT ![d] = "queued"]
      BY <2>4 DEF CallTool, Overflow, RefuseCall, ServeFromCache, JoinDispatch, StartDispatch
    <3> QED
      BY <1>1, <2>1, <3>1
  <2>5. ASSUME NEW d \in Call, WaiterResumes(d) \/ CancelWaiter(d) PROVE FALSE
    <3>1. task' = task
      BY <2>1, <2>5 DEF WaiterResumes, CancelWaiter, TakesAlong
    <3> QED
      BY <2>1, <3>1
  <2>6. ~GatewayStep
    BY <2>1, <2>3, <2>4, <2>5 DEF GatewayStep, RelayLeaves, ConnectionEnds, BudgetRunsOut
  <2>7. Thread \/ UNCHANGED task
    BY <1>1, <2>6 DEF Next, Loop, RelayConnects, Parent, GatewayReady, StartTimesOut, OcrExits,
                      BeginClose, Closing, JoinTimesOut, CloseGivesUp, CloseReturns, vars
  <2> QED
    BY <2>1, <2>7 DEF Thread, Prepared, PrepareFails, ServingEnds, ListenerClosed, GatewayStopped,
                      TornDown, Aborted, LoopClosed
<1>2. ASSUME IInv, [Next]_vars
      PROVE  [\A c \in Call : task[c] \in Live /\ task'[c] = "cancelled" => thread' # thread]_vars
  BY <1>1, <1>2
<1> QED
  BY <1>2, Inductive, PTL DEF Spec, SharedRequestSurvives
=============================================================================
