--------------------------- MODULE VmdkReaderProofs ---------------------------
(***************************************************************************)
(* Proofs about open() and read_at_offset() for disks of every size,       *)
(* chains of every length and images of any number of extents, and that    *)
(* the two implement DeltaDisk.                                            *)
(***************************************************************************)
EXTENDS VmdkReader, NatLemmas

-----------------------------------------------------------------------------
(***************************************************************************)
(* The sectors that an image is made of.                                   *)
(***************************************************************************)

LEMMA MinOfTwo ==
  ASSUME NEW a \in Int, NEW b \in Int
  PROVE  Min({a, b}) = IF a <= b THEN a ELSE b
<1>1. \E x \in {a, b} : \A y \in {a, b} : x <= y
  <2>1. CASE a <= b
    BY <2>1
  <2>2. CASE ~(a <= b)
    BY <2>2
  <2> QED
    BY <2>1, <2>2
<1>2. /\ Min({a, b}) \in {a, b}
      /\ \A y \in {a, b} : Min({a, b}) <= y
  BY <1>1 DEF Min
<1> QED
  BY <1>2

\* where the extents of an image start, in read_extents
StartsOf(eds) ==
  LET start[j \in 1 .. Len(eds) + 1] ==
        IF j = 1 THEN 0 ELSE start[j - 1] + eds[j - 1].sectors
  IN  start

LEMMA Starts ==
  ASSUME NEW eds, eds \in Seq(ToSet(eds)), \A j \in DOMAIN eds : eds[j].sectors \in Nat
  PROVE  /\ StartsOf(eds)[1] = 0
         /\ \A j \in 1 .. Len(eds) + 1 : StartsOf(eds)[j] \in Nat
         /\ \A j \in DOMAIN eds : StartsOf(eds)[j + 1] = StartsOf(eds)[j] + eds[j].sectors
<1> DEFINE n == Len(eds)
           Rec(f) == f = [j \in 1 .. n + 1 |->
                            IF j = 1 THEN 0 ELSE f[j - 1] + eds[j - 1].sectors]
           step == [j \in Nat |-> [x \in Nat |->
                      IF j - 1 \in 1 .. n THEN x + eds[j - 1].sectors ELSE x]]
           start == StartsOf(eds)
<1>1. n \in Nat /\ DOMAIN eds = 1 .. n
  OBVIOUS
<1>2. \E f : Rec(f)
  <2>1. step \in [Nat -> [Nat -> Nat]]
    BY <1>1
  <2>2. 1 \in Nat /\ n + 1 \in Nat /\ 1 <= n + 1 /\ 0 \in Nat
    BY <1>1
  <2> HIDE DEF step, n
  <2>3. PICK f \in [1 .. n + 1 -> Nat] :
          f[1] = 0 /\ \A j \in 1 + 1 .. n + 1 : f[j] = step[j][f[j - 1]]
    <3>1. RecursionExists(Nat, 0, step, 1, n + 1)
      BY Zenon, <2>1, <2>2, Recursion
    <3> QED
      BY Zenon, <3>1 DEF RecursionExists
  <2>4. ASSUME NEW j \in 1 .. n + 1
        PROVE  f[j] = IF j = 1 THEN 0 ELSE f[j - 1] + eds[j - 1].sectors
    <3>1. CASE j = 1
      BY <2>3, <3>1
    <3>2. CASE j # 1
      <4>1. j \in 1 + 1 .. n + 1 /\ j \in Nat /\ j - 1 \in 1 .. n /\ j - 1 \in 1 .. n + 1
        BY <1>1, <2>4, <3>2
      <4>2. f[j - 1] \in Nat
        BY <2>3, <4>1
      <4>3. step[j][f[j - 1]] = f[j - 1] + eds[j - 1].sectors
        BY <4>1, <4>2 DEF step
      <4> QED
        BY <2>3, <3>2, <4>1, <4>3
    <3> QED
      BY <3>1, <3>2
  <2>5. f = [j \in 1 .. n + 1 |-> f[j]]
    BY <2>3
  <2>6. Rec(f)
    BY <2>4, <2>5
  <2> HIDE DEF Rec
  <2> QED
    BY <2>6
<1>3. Rec(start)
  <2>1. start = CHOOSE f : Rec(f)
    BY DEF StartsOf
  <2> HIDE DEF Rec, start
  <2> QED
    BY <1>2, <2>1
<1> DEFINE T == {j \in 1 .. n + 1 : start[j] \in Nat}
<1> HIDE DEF start
<1>4. 1 \in T /\ start[1] = 0
  BY <1>1, <1>3
<1>5. ASSUME NEW j \in 1 + 1 .. n + 1, j - 1 \in T
      PROVE  j \in T
  <2>1. j \in 1 .. n + 1 /\ j # 1 /\ j - 1 \in DOMAIN eds
    BY <1>1
  <2>2. start[j] = start[j - 1] + eds[j - 1].sectors
    BY Zenon, <1>3, <2>1
  <2> QED
    BY <1>5, <2>1, <2>2
<1>6. n + 1 \in Nat
  BY <1>1
<1>7. \A j \in DOMAIN eds : start[j + 1] = start[j] + eds[j].sectors
  <2> TAKE j \in DOMAIN eds
  <2>1. j + 1 \in 1 .. n + 1 /\ j + 1 # 1 /\ (j + 1) - 1 = j
    BY <1>1
  <2> QED
    BY Zenon, <1>3, <2>1
<1> HIDE DEF T, n
<1>8. \A j \in 1 .. n + 1 : j \in T
  BY Zenon, <1>4, <1>5, <1>6, IntervalInduction
<1> QED
  BY <1>4, <1>7, <1>8 DEF T, n, start

\* the size of an image is a sum
LEMMA SectorSums ==
  ASSUME NEW exs, NEW S, exs \in Seq(S), \A j \in DOMAIN exs : exs[j].sectors \in Nat
  PROVE  /\ SectorsOf(exs) \in Nat
         /\ \E sum : /\ sum[0] = 0 /\ SectorsOf(exs) = sum[Len(exs)]
                    /\ \A j \in DOMAIN exs : sum[j] = sum[j - 1] + exs[j].sectors
<1> DEFINE n == Len(exs)
           Rec(f) == f = [j \in 0 .. n |-> IF j = 0 THEN 0 ELSE f[j - 1] + exs[j].sectors]
           step == [j \in Nat |-> [x \in Nat |->
                      IF j \in 1 .. n THEN x + exs[j].sectors ELSE x]]
           sum == CHOOSE f : Rec(f)
<1>1. n \in Nat /\ DOMAIN exs = 1 .. n
  OBVIOUS
<1>2. \E f : Rec(f)
  <2>1. step \in [Nat -> [Nat -> Nat]]
    BY <1>1
  <2>2. 0 \in Nat /\ n \in Nat /\ 0 <= n
    BY <1>1
  <2> HIDE DEF step, n
  <2>3. PICK f \in [0 .. n -> Nat] :
          f[0] = 0 /\ \A j \in 0 + 1 .. n : f[j] = step[j][f[j - 1]]
    <3>1. RecursionExists(Nat, 0, step, 0, n)
      BY Zenon, <2>1, <2>2, Recursion
    <3> QED
      BY Zenon, <3>1 DEF RecursionExists
  <2>4. ASSUME NEW j \in 0 .. n
        PROVE  f[j] = IF j = 0 THEN 0 ELSE f[j - 1] + exs[j].sectors
    <3>1. CASE j = 0
      BY <2>3, <3>1
    <3>2. CASE j # 0
      <4>1. j \in 0 + 1 .. n /\ j \in Nat /\ j - 1 \in 0 .. n /\ j \in 1 .. n
        BY <1>1, <2>4, <3>2
      <4>2. f[j - 1] \in Nat
        BY <2>3, <4>1
      <4>3. step[j][f[j - 1]] = f[j - 1] + exs[j].sectors
        BY <4>1, <4>2 DEF step
      <4> QED
        BY <2>3, <3>2, <4>1, <4>3
    <3> QED
      BY <3>1, <3>2
  <2>5. f = [j \in 0 .. n |-> f[j]]
    BY <2>3
  <2>6. Rec(f)
    BY <2>4, <2>5
  <2> HIDE DEF Rec
  <2> QED
    BY <2>6
<1>3. Rec(sum)
  <2> HIDE DEF Rec
  <2> QED
    BY <1>2
<1>4. SectorsOf(exs) = sum[n]
  BY DEF SectorsOf
<1> DEFINE T == {j \in 0 .. n : sum[j] \in Nat}
<1> HIDE DEF sum
<1>5. 0 \in T
  BY <1>1, <1>3
<1>6. ASSUME NEW j \in 0 + 1 .. n, j - 1 \in T
      PROVE  j \in T
  <2>1. j \in 0 .. n /\ j # 0 /\ j \in DOMAIN exs
    BY <1>1
  <2>2. sum[j] = sum[j - 1] + exs[j].sectors
    BY Zenon, <1>3, <2>1
  <2> QED
    BY <1>6, <2>1, <2>2
<1>7. sum[0] = 0 /\ \A j \in DOMAIN exs : sum[j] = sum[j - 1] + exs[j].sectors
  <2>1. \A j \in DOMAIN exs : j \in 0 .. n /\ j # 0
    BY <1>1
  <2> QED
    BY <1>1, <1>3, <2>1
<1> HIDE DEF T, n
<1>8. \A j \in 0 .. n : j \in T
  BY Zenon, <1>1, <1>5, <1>6, IntervalInduction
<1>9. n \in 0 .. n
  BY <1>1
<1> QED
  BY <1>4, <1>7, <1>8, <1>9 DEF T, n

LEMMA SectorsAreCounted ==
  ASSUME NEW exs, NEW S, exs \in Seq(S), \A j \in DOMAIN exs : exs[j].sectors \in Nat
  PROVE  SectorsOf(exs) \in Nat
BY SectorSums

-----------------------------------------------------------------------------
(***************************************************************************)
(* The keys of a grain table.                                              *)
(***************************************************************************)

\* the fields of a header that a table is read with
SoundHeader(h) ==
  /\ h.l1 \in Seq(ToSet(h.l1))
  /\ h.sectors \in Nat /\ h.l2_len \in Nat /\ h.cluster_sectors \in Nat

\* cur_sector never leaves the sectors of the extent
LEMMA CurSectors ==
  ASSUME NEW h, SoundHeader(h), NEW start \in Nat
  PROVE  /\ \A j \in 1 .. Len(h.l1) : CurSector(h, start)[j] \in Nat
         /\ Len(h.l1) # 0 => CurSector(h, start)[1] = start
         /\ \A j \in 2 .. Len(h.l1) :
              CurSector(h, start)[j] = CurSector(h, start)[j - 1]
                                         + L2Len(h, start, CurSector(h, start)[j - 1])
<1> DEFINE n == Len(h.l1)
           S == start .. start + h.sectors
           Rec(f) == f = [j \in 1 .. n |->
                            IF j = 1 THEN start
                                     ELSE f[j - 1] + L2Len(h, start, f[j - 1])]
           step == [j \in Nat |-> [x \in S |-> x + L2Len(h, start, x)]]
           cur == CHOOSE f : Rec(f)
<1>1. n \in Nat /\ h.sectors \in Nat /\ h.l2_len \in Nat
  BY DEF SoundHeader
<1>2. ASSUME NEW x \in S
      PROVE  x + L2Len(h, start, x) \in S
  <2>1. h.sectors - (x - start) \in Nat
    BY <1>1
  <2>2. L2Len(h, start, x) = IF h.l2_len <= h.sectors - (x - start)
                               THEN h.l2_len ELSE h.sectors - (x - start)
    BY <1>1, <2>1, MinOfTwo DEF L2Len
  <2> QED
    BY <1>1, <2>1, <2>2
<1>3. start \in S
  BY <1>1
<1> SUFFICES ASSUME n >= 1
             PROVE  /\ \A j \in 1 .. n : CurSector(h, start)[j] \in Nat
                    /\ CurSector(h, start)[1] = start
                    /\ \A j \in 2 .. n :
                         CurSector(h, start)[j] = CurSector(h, start)[j - 1]
                                        + L2Len(h, start, CurSector(h, start)[j - 1])
  BY <1>1
<1>4. \E f : Rec(f)
  <2>1. step \in [Nat -> [S -> S]]
    <3> HIDE DEF S
    <3> QED
      BY <1>2
  <2>2. 1 \in Nat /\ n \in Nat /\ 1 <= n
    BY <1>1
  <2> HIDE DEF step, n, S
  <2>3. PICK f \in [1 .. n -> S] :
          f[1] = start /\ \A j \in 1 + 1 .. n : f[j] = step[j][f[j - 1]]
    <3>1. RecursionExists(S, start, step, 1, n)
      BY Zenon, <1>3, <2>1, <2>2, Recursion
    <3> QED
      BY Zenon, <3>1 DEF RecursionExists
  <2>4. ASSUME NEW j \in 1 .. n
        PROVE  f[j] = IF j = 1 THEN start ELSE f[j - 1] + L2Len(h, start, f[j - 1])
    <3>1. CASE j = 1
      BY <2>3, <3>1
    <3>2. CASE j # 1
      <4>1. j \in 1 + 1 .. n /\ j \in Nat /\ j - 1 \in 1 .. n
        BY <1>1, <2>4, <3>2
      <4>2. f[j - 1] \in S
        BY <2>3, <4>1
      <4>3. step[j][f[j - 1]] = f[j - 1] + L2Len(h, start, f[j - 1])
        BY <4>1, <4>2 DEF step
      <4> QED
        BY <2>3, <3>2, <4>1, <4>3
    <3> QED
      BY <3>1, <3>2
  <2>5. f = [j \in 1 .. n |-> f[j]]
    BY <2>3
  <2>6. Rec(f)
    BY <2>4, <2>5
  <2> HIDE DEF Rec
  <2> QED
    BY <2>6
<1>5. Rec(cur)
  <2> HIDE DEF Rec
  <2> QED
    BY <1>4
<1>6. CurSector(h, start) = cur
  BY DEF CurSector
<1> DEFINE T == {j \in 1 .. n : cur[j] \in S}
<1> HIDE DEF cur, S, n
<1>7. 1 \in T /\ cur[1] = start
  BY <1>1, <1>3, <1>5
<1>8. ASSUME NEW j \in 1 + 1 .. n, j - 1 \in T
      PROVE  j \in T
  <2>1. j \in 1 .. n /\ j # 1
    BY <1>1
  <2>2. cur[j] = cur[j - 1] + L2Len(h, start, cur[j - 1])
    BY Zenon, <1>5, <2>1
  <2> QED
    BY <1>2, <1>8, <2>1, <2>2
<1>11. \A j \in 2 .. n : cur[j] = cur[j - 1] + L2Len(h, start, cur[j - 1])
  <2> TAKE j \in 2 .. n
  <2>1. j \in 1 .. n /\ j # 1
    BY <1>1
  <2> QED
    BY Zenon, <1>5, <2>1
<1> HIDE DEF T
<1>9. \A j \in 1 .. n : j \in T
  BY Zenon, <1>1, <1>7, <1>8, IntervalInduction
<1>10. S \subseteq Nat
  BY <1>1 DEF S
<1> QED
  BY Zenon, <1>6, <1>7, <1>9, <1>10, <1>11 DEF T, n

\* the keys of the map that is built from level-2 tables
LEMMA CollectKeys ==
  ASSUME NEW h, SoundHeader(h), NEW start \in Nat, NEW l2,
         DOMAIN l2 \subseteq DOMAIN h.l1, NEW absent
  PROVE  DOMAIN Collect(h, start, l2, absent) \subseteq Nat
<1>1. /\ DOMAIN l2 \subseteq 1 .. Len(h.l1) /\ h.l2_len \in Nat
      /\ \A j \in DOMAIN l2 : CurSector(h, start)[j] \in Nat
  BY CurSectors DEF SoundHeader
<1>2. \A p \in (DOMAIN l2) \X (0 .. h.l2_len - 1) : CurSector(h, start)[p[1]] + p[2] \in Nat
  BY <1>1
<1>3. DOMAIN Collect(h, start, l2, absent)
        \subseteq {CurSector(h, start)[p[1]] + p[2] : p \in (DOMAIN l2) \X (0 .. h.l2_len - 1)}
  BY DEF Collect
<1> QED
  BY <1>2, <1>3

LEMMA TableKeys ==
  ASSUME NEW h, SoundHeader(h), NEW start \in Nat
  PROVE  /\ SparseTable(h, start).ok => DOMAIN SparseTable(h, start).table \subseteq Nat
         /\ SeSparseTable(h, start).ok => DOMAIN SeSparseTable(h, start).table \subseteq Nat
<1>1. DOMAIN Collect(h, start, L2(h), 0) \subseteq Nat
  <2>1. DOMAIN L2(h) \subseteq DOMAIN h.l1
    BY DEF L2
  <2> QED
    BY <2>1, CollectKeys
<1>2. DOMAIN Collect(h, start, SeL2(h, start), NoEntry) \subseteq Nat
  <2>1. DOMAIN SeL2(h, start) \subseteq DOMAIN h.l1
    BY DEF SeL2, Reached
  <2> QED
    BY <2>1, CollectKeys
<1>3. SparseTable(h, start).ok => DOMAIN SparseTable(h, start).table \subseteq Nat
  BY <1>1 DEF SparseTable
<1> DEFINE t == SeSparseTable(h, start)
           E == Collect(h, start, SeL2(h, start), NoEntry)
<1>4. t.ok => DOMAIN t.table = DOMAIN E
  <2> HIDE DEF E
  <2>1. ASSUME t.ok
        PROVE  t = [ok |-> TRUE, table |-> [k \in DOMAIN E |-> SeGrain(h, E[k])]]
    BY <2>1 DEF SeSparseTable, E
  <2> HIDE DEF t
  <2> QED
    BY <2>1
<1> QED
  BY <1>2, <1>3, <1>4

-----------------------------------------------------------------------------
\* into_iter() goes through the keys in order and leaves none out.
LEMMA KeysInOrder ==
  ASSUME NEW m, DOMAIN m \subseteq Nat, IsFiniteSet(DOMAIN m)
  PROVE  LET n == Cardinality(DOMAIN m) IN
         /\ n \in Nat /\ DOMAIN Keys(m) = 1 .. n
         /\ \A k \in 1 .. n : Keys(m)[k] \in DOMAIN m
         /\ \A j, k \in 1 .. n : j < k => Keys(m)[j] < Keys(m)[k]
         /\ \A b \in DOMAIN m : \E k \in 1 .. n : Keys(m)[k] = b
<1> DEFINE D == DOMAIN m
           n == Cardinality(D)
           Below(b) == {c \in D : c < b}
           rank == [b \in D |-> Cardinality(Below(b))]
<1> HIDE DEF D
<1>0. D \subseteq Nat /\ IsFiniteSet(D) /\ n \in Nat
  BY FS_CardinalityType DEF D
<1>1. ASSUME NEW b \in D
      PROVE  IsFiniteSet(Below(b)) /\ rank[b] \in Nat /\ rank[b] <= n - 1
  <2>1. Below(b) \in SUBSET (D \ {b})
    BY <1>0
  <2>2. IsFiniteSet(D \ {b}) /\ Cardinality(D \ {b}) = n - 1
    BY <1>0, FS_RemoveElement
  <2> HIDE DEF Below
  <2>3. IsFiniteSet(Below(b)) /\ Cardinality(Below(b)) <= n - 1
    BY <2>1, <2>2, FS_Subset
  <2>4. Cardinality(Below(b)) \in Nat
    BY <2>3, FS_CardinalityType
  <2> QED
    BY <2>3, <2>4
<1>2. ASSUME NEW b \in D, NEW d \in D, b < d
      PROVE  rank[b] < rank[d]
  <2>1. Below(b) \cup {b} \in SUBSET Below(d) /\ b \notin Below(b)
    <3>1. \A c \in D : (c < b => c < d) /\ c \in Nat /\ ~(b < b)
      BY <1>0, <1>2
    <3> QED
      BY <1>2, <3>1
  <2>2. IsFiniteSet(Below(b)) /\ IsFiniteSet(Below(d)) /\ rank[b] \in Nat /\ rank[d] \in Nat
    BY <1>1
  <2> HIDE DEF Below
  <2>3. Cardinality(Below(b) \cup {b}) = Cardinality(Below(b)) + 1
    BY Zenon, <2>1, <2>2, FS_AddElement
  <2>4. Cardinality(Below(b) \cup {b}) <= Cardinality(Below(d))
    BY <2>1, <2>2, FS_Subset
  <2> QED
    BY <2>2, <2>3, <2>4
<1> HIDE DEF Below
<1>3. \A b, d \in D : rank[b] < rank[d] => b < d
  <2> SUFFICES ASSUME NEW b \in D, NEW d \in D, rank[b] < rank[d], ~(b < d)
               PROVE  FALSE
    OBVIOUS
  <2>1. CASE b = d
    BY <1>1, <2>1
  <2>2. CASE b # d
    <3>1. d < b
      BY <1>0, <2>2
    <3>2. rank[d] < rank[b] /\ rank[d] \in Nat /\ rank[b] \in Nat
      BY <1>1, <1>2, <3>1
    <3> QED
      BY <3>2
  <2> QED
    BY <2>1, <2>2
<1>4. \A b, d \in D : rank[b] = rank[d] => b = d
  <2> SUFFICES ASSUME NEW b \in D, NEW d \in D, rank[b] = rank[d], b # d
               PROVE  FALSE
    OBVIOUS
  <2>1. b < d \/ d < b
    BY <1>0
  <2>2. rank[b] < rank[d] \/ rank[d] < rank[b]
    BY <1>2, <2>1
  <2> QED
    BY <1>1, <2>2
<1>5. \A k \in 0 .. n - 1 : \E b \in D : rank[b] = k
  <2>1. rank \in [D -> 0 .. n - 1]
    <3>1. \A b \in D : rank[b] \in 0 .. n - 1
      BY <1>0, <1>1
    <3>2. rank = [b \in D |-> rank[b]]
      OBVIOUS
    <3> HIDE DEF rank
    <3> QED
      BY <3>1, <3>2
  <2>2. IsFiniteSet(0 .. n - 1) /\ Cardinality(0 .. n - 1) = n
    <3>1. 0 \in Int /\ n - 1 \in Int
      BY <1>0
    <3> HIDE DEF n
    <3>2. /\ IsFiniteSet(0 .. n - 1)
          /\ Cardinality(0 .. n - 1) = IF 0 > n - 1 THEN 0 ELSE n - 1 - 0 + 1
      BY <3>1, FS_Interval
    <3> QED
      BY <1>0, <3>2
  <2> HIDE DEF rank
  <2>3. rank \in Injection(D, 0 .. n - 1)
    BY <1>4, <2>1 DEF Injection, IsInjective
  <2>4. rank \in Surjection(D, 0 .. n - 1)
    BY <2>2, <2>3, FS_Injection
  <2> QED
    BY <2>4 DEF Surjection
<1>6. ASSUME NEW k \in 1 .. n
      PROVE  Keys(m)[k] \in D /\ rank[Keys(m)[k]] = k - 1
  <2>1. k - 1 \in 0 .. n - 1
    BY <1>0
  <2>2. PICK b \in D : rank[b] = k - 1
    BY <1>5, <2>1
  <2>3. /\ b \in DOMAIN m
        /\ Cardinality({c \in DOMAIN m : c < b}) = k - 1
    BY <2>2 DEF Below, D
  <2>4. Keys(m)[k] = CHOOSE x \in DOMAIN m : Cardinality({c \in DOMAIN m : c < x}) = k - 1
    BY Zenon DEF Keys, D
  <2>5. /\ Keys(m)[k] \in DOMAIN m
        /\ Cardinality({c \in DOMAIN m : c < Keys(m)[k]}) = k - 1
    BY Zenon, <2>3, <2>4
  <2> QED
    BY <2>5 DEF Below, D
<1>7. DOMAIN Keys(m) = 1 .. n
  BY DEF Keys, D
<1> HIDE DEF rank, n
<1>8. ASSUME NEW j \in 1 .. n, NEW k \in 1 .. n, j < k
      PROVE  Keys(m)[j] < Keys(m)[k]
  <2>1. rank[Keys(m)[j]] < rank[Keys(m)[k]]
    <3>1. j - 1 < k - 1
      BY <1>0, <1>8
    <3> QED
      BY <1>6, <3>1
  <2>2. Keys(m)[j] \in D /\ Keys(m)[k] \in D
    BY <1>6
  <2> QED
    BY <1>3, <2>1, <2>2
<1>9. ASSUME NEW b \in D
      PROVE  \E k \in 1 .. n : Keys(m)[k] = b
  <2>1. rank[b] + 1 \in 1 .. n /\ (rank[b] + 1) - 1 = rank[b]
    BY <1>0, <1>1
  <2> DEFINE k == rank[b] + 1
  <2> HIDE DEF k
  <2>2. k \in 1 .. n /\ k - 1 = rank[b]
    BY <2>1 DEF k
  <2>3. Keys(m)[k] \in D /\ rank[Keys(m)[k]] = rank[b]
    BY <1>6, <2>2
  <2>4. Keys(m)[k] = b
    BY <1>4, <2>3
  <2> QED
    BY <2>2, <2>4
<1>10. n \in Nat /\ \A k \in 1 .. n : Keys(m)[k] \in D
  BY <1>0, <1>6
<1> QED
  BY <1>7, <1>8, <1>9, <1>10 DEF n, D

-----------------------------------------------------------------------------
(***************************************************************************)
(* The indices of sources that open() counts are those that handle_image   *)
(* and read_extents give out.                                              *)
(***************************************************************************)

SparseKinds == {"SPARSE", "VMFSSPARSE", "SESPARSE"}

\* the images of the disks have one sparse extent at most, and begin with it
SparseFirst ==
  \A d \in Disks : \A f \in DOMAIN d.files : \A j \in DOMAIN d.files[f].desc.eds :
    d.files[f].desc.eds[j].kind \in SparseKinds => j = 1

\* the fields of an extent that its spans are made of
SoundExtent(ex) ==
  /\ ex.start_sector \in Nat /\ ex.sectors \in Nat
  /\ ex.storage.kind \in {"sparse", "flat", "zero"}
  /\ ex.storage.kind = "sparse" /\ SparseFirst => ex.start_sector = 0
  /\ ex.storage.kind = "sparse" =>
       ex.storage.grain_size \in Nat /\ DOMAIN ex.storage.grain_table \subseteq Nat

IsQueue(q) ==
  (\E S : q \in Seq(S)) /\ \A j \in DOMAIN q : HasFile(q[j]) /\ SoundExtent(q[j])

\* the sources that are there are those counted by idx, and while the extents of
\* an image are gone through, one for each extent that is left
Counted ==
  /\ disk \in Disks
  /\ idx \in Nat
  /\ pc = "image" => queue = <<>> /\ DOMAIN sources \subseteq 0 .. idx - 1
  /\ pc \in {"extents", "spans"} =>
       /\ IsQueue(queue)
       /\ DOMAIN sources \subseteq 0 .. idx + Len(queue) - 1
  /\ pc = "spans" => queue # <<>>

-----------------------------------------------------------------------------
\* what is assumed of the disks, for the one that is opened
LEMMA DiskIsSound ==
  ASSUME disk \in Disks, NEW f \in DOMAIN disk.files
  PROVE  LET eds == disk.files[f].desc.eds IN
         /\ eds \in Seq(ToSet(eds))
         /\ \A j \in DOMAIN eds : eds[j].sectors \in Nat
         /\ disk.files[f].sig # "none" => SoundHeader(disk.files[f].header)
         /\ \A k \in DOMAIN disk.files[f].grains : disk.files[f].grains[k].size \in Nat
BY DisksAssumption DEF SoundHeader

\* the storage that is made for an extent description
SoundStorage(st, ed) ==
  /\ st.kind \in {"sparse", "flat"}
  /\ st.kind = "sparse" => /\ st.grain_size \in Nat
                           /\ DOMAIN st.grain_table \subseteq Nat
                           /\ ed.kind \in SparseKinds

\* the storage of an extent has a file, and is made from a sound header
LEMMA StorageIsSound ==
  ASSUME disk \in Disks, NEW ed, ed.kind \in Named, NEW start \in Nat,
         NEW f \in DOMAIN disk.files, NEW source,
         NEW st, st = ReadExtent(ed, start, f, source), st # IoError
  PROVE  SoundStorage(st, ed)
<1> USE DEF SoundStorage, SparseKinds
<1> DEFINE h == disk.files[f].header
           t == SparseTable(h, start)
           se == SeSparseTable(h, start)
<1> HIDE DEF t, se
<1>1. CASE ed.kind \in {"SPARSE", "VMFSSPARSE"}
  <2>1. /\ disk.files[f].sig \in {"vmdk3", "vmdk4"} /\ t.ok
        /\ st.kind = "sparse" /\ st.grain_size = h.cluster_sectors
        /\ st.grain_table = t.table
    BY <1>1 DEF ReadExtent, IoError, t
  <2>2. SoundHeader(h)
    BY <2>1, DiskIsSound
  <2>3. DOMAIN t.table \subseteq Nat
    BY <2>1, <2>2, TableKeys DEF t
  <2> QED
    BY <1>1, <2>1, <2>2, <2>3 DEF SoundHeader
<1>2. CASE ed.kind = "SESPARSE"
  <2>1. /\ disk.files[f].sig = "sesparse" /\ se.ok
        /\ st.kind = "sparse" /\ st.grain_size = h.cluster_sectors
        /\ st.grain_table = se.table
    BY <1>2 DEF ReadExtent, IoError, se
  <2>2. SoundHeader(h)
    BY <2>1, DiskIsSound
  <2>3. DOMAIN se.table \subseteq Nat
    BY <2>1, <2>2, TableKeys DEF se
  <2> QED
    BY <1>2, <2>1, <2>2, <2>3 DEF SoundHeader
<1>3. CASE ed.kind \in {"VMFS", "FLAT"}
  BY <1>3 DEF ReadExtent
<1> QED
  BY <1>1, <1>2, <1>3 DEF Named

\* read_extents fails for a kind of extent without a file, so each extent that it
\* returns has one, and there are as many sources as extents
LEMMA ExtentsHaveFiles ==
  ASSUME disk \in Disks, NEW image \in DOMAIN disk.files,
         NEW eds, eds = disk.files[image].desc.eds, NEW single, NEW first,
         NEW r, r = ReadExtents(image, eds, single, first), r.outcome = "extents"
  PROVE  /\ IsQueue(r.extents)
         /\ Len(r.extents) = Len(r.files) /\ Len(r.files) \in Nat
         /\ \A j \in 1 .. Len(r.files) : r.files[j] \in DOMAIN disk.files
         /\ DOMAIN r.files = 1 .. Len(r.files)
<1> DEFINE start == StartsOf(eds)
           file == [j \in DOMAIN eds |-> SourceFor(image, eds[j], single)]
           StorageOf(j) == ReadExtent(eds[j], start[j], file[j], first + j - 1)
           Fails(j) == \/ eds[j].kind \notin Named
                       \/ file[j] = ""
                       \/ StorageOf(j) = IoError
           exs == [j \in DOMAIN eds |->
                     [start_sector |-> start[j], sectors |-> eds[j].sectors,
                      storage |-> StorageOf(j)]]
<1>0. /\ eds \in Seq(ToSet(eds)) /\ \A j \in DOMAIN eds : eds[j].sectors \in Nat
      /\ Len(eds) \in Nat /\ DOMAIN eds = 1 .. Len(eds)
  BY DiskIsSound
<1>1. start[1] = 0 /\ \A j \in DOMAIN eds : start[j] \in Nat
  <2>1. start[1] = 0 /\ \A j \in 1 .. Len(eds) + 1 : start[j] \in Nat
    BY <1>0, Starts
  <2> HIDE DEF start
  <2> QED
    BY <1>0, <2>1
<1> HIDE DEF start
<1>2. {j \in DOMAIN eds : Fails(j)} = {} /\ r.extents = exs /\ r.files = file
  BY Zenon DEF ReadExtents, StartsOf, start
<1> HIDE DEF file
<1>3. DOMAIN r.extents = 1 .. Len(eds) /\ DOMAIN r.files = 1 .. Len(eds)
  BY Zenon, <1>0, <1>2 DEF file
<1>4. ASSUME NEW j \in DOMAIN eds
      PROVE  ~Fails(j) /\ file[j] \in DOMAIN disk.files
  <2>1. ~Fails(j)
    BY Zenon, <1>2
  <2>2. file[j] = SourceFor(image, eds[j], single) /\ file[j] # ""
    BY Zenon, <2>1 DEF file
  <2> QED
    BY Zenon, <2>1, <2>2 DEF SourceFor
<1>5. ASSUME NEW j \in DOMAIN r.extents
      PROVE  HasFile(r.extents[j]) /\ SoundExtent(r.extents[j])
  <2>1. j \in DOMAIN eds /\ ~Fails(j) /\ file[j] \in DOMAIN disk.files /\ start[j] \in Nat
    BY Zenon, <1>0, <1>1, <1>3, <1>4
  <2>2. SoundStorage(StorageOf(j), eds[j])
    <3>1. eds[j].kind \in Named /\ StorageOf(j) # IoError
      BY Zenon, <2>1
    <3> QED
      BY Zenon, <2>1, <3>1, StorageIsSound
  <2> HIDE DEF StorageOf, Fails
  <2>3. /\ r.extents[j].storage = StorageOf(j)
        /\ r.extents[j].start_sector = start[j]
        /\ r.extents[j].sectors = eds[j].sectors
    <3>1. r.extents[j] = exs[j]
      BY <1>2
    <3>2. exs[j] = [start_sector |-> start[j], sectors |-> eds[j].sectors,
                    storage |-> StorageOf(j)]
      BY <2>1
    <3> HIDE DEF exs
    <3> QED
      BY <3>1, <3>2
  <2>4. eds[j].kind \in SparseKinds /\ SparseFirst => start[j] = 0
    BY <1>1, <2>1 DEF SparseFirst
  <2> QED
    BY <1>0, <2>1, <2>2, <2>3, <2>4 DEF HasFile, SoundExtent, SoundStorage
<1>6. r.extents \in Seq(ToSet(r.extents)) /\ Len(r.extents) = Len(eds)
  <2>1. r.extents = [j \in 1 .. Len(eds) |-> r.extents[j]]
    BY Zenon, <1>0, <1>2
  <2>2. \A j \in 1 .. Len(eds) : r.extents[j] \in ToSet(r.extents)
    BY <1>3 DEF ToSet
  <2> DEFINE q == r.extents
             n == Len(eds)
             T == ToSet(r.extents)
  <2>3. n \in Nat
    BY <1>0
  <2> HIDE DEF q, n, T
  <2>4. q \in [1 .. n -> T]
    BY Zenon, <2>1, <2>2 DEF q, n, T
  <2>5. q \in Seq(T) /\ Len(q) = n
    BY <2>3, <2>4
  <2> QED
    BY <2>5 DEF q, n, T
<1>7. Len(r.files) = Len(eds)
  <2>1. Len(file) = Len(eds)
    BY <1>0 DEF file
  <2> QED
    BY Zenon, <1>2, <2>1
<1>8. \A j \in 1 .. Len(r.files) : r.files[j] \in DOMAIN disk.files
  BY Zenon, <1>0, <1>2, <1>4, <1>7
<1> QED
  BY Zenon, <1>0, <1>3, <1>5, <1>6, <1>7, <1>8 DEF IsQueue

\* a queue without its first extent
LEMMA RestOfQueue ==
  ASSUME NEW q, IsQueue(q), q # <<>>
  PROVE  /\ IsQueue(Tail(q)) /\ HasFile(Head(q))
         /\ Len(q) \in Nat \ {0} /\ Len(Tail(q)) = Len(q) - 1
<1>1. PICK S : q \in Seq(S)
  BY DEF IsQueue
<1>2. Len(q) \in Nat \ {0} /\ DOMAIN q = 1 .. Len(q) /\ \A j \in DOMAIN q : HasFile(q[j])
  BY <1>1 DEF IsQueue
<1>3. Tail(q) \in Seq(S) /\ Head(q) = q[1] /\ Len(Tail(q)) = Len(q) - 1
  BY <1>1
<1>4. \A j \in DOMAIN Tail(q) : Tail(q)[j] = q[j + 1] /\ j + 1 \in DOMAIN q
  BY <1>1, <1>2, <1>3
<1> QED
  BY <1>2, <1>3, <1>4 DEF IsQueue

\* what a turn of img_loop leaves
LEMMA ImageCounted ==
  ASSUME Counted, HandleImage
  PROVE  /\ Counted'
         /\ \A k \in DOMAIN sources : k \in DOMAIN sources' /\ sources'[k] = sources[k]
<1> DEFINE read == ReadImage
<1> HIDE DEF read
<1>1. CASE sources' = sources /\ pc' \in {"failed", "panicked"}
  <2>1. idx' = idx /\ disk' = disk
    BY <1>1 DEF HandleImage, openVars
  <2> QED
    BY <1>1, <2>1 DEF Counted
<1>2. CASE read.outcome = "extents" /\ sources' = WithSources(current, read.files)
           /\ pc' = "extents" /\ idx' = idx + 1 /\ queue' = read.extents
  <2>1. disk' = disk /\ disk \in Disks /\ idx \in Nat
        /\ DOMAIN sources \subseteq 0 .. idx - 1
    BY DEF HandleImage, Counted
  <2>2. IsQueue(read.extents) /\ Len(read.extents) = Len(read.files)
        /\ Len(read.files) \in Nat
    <3>1. current \in DOMAIN disk.files
          /\ read = ReadExtents(current, disk.files[current].desc.eds,
                      disk.files[current].sig = "vmdk4"
                        /\ Len(disk.files[current].desc.eds) = 1, idx + 1)
      BY <1>2 DEF read, ReadImage
    <3> QED
      BY Zenon, <2>1, <3>1, <1>2, ExtentsHaveFiles
  <2>3. /\ DOMAIN sources' = DOMAIN sources \cup idx .. idx + Len(read.files)
        /\ \A k \in DOMAIN sources : k < idx => sources'[k] = sources[k]
    BY <1>2 DEF WithSources
  <2>4. DOMAIN sources' \subseteq 0 .. idx' + Len(queue') - 1
    <3>1. /\ Len(queue') = Len(read.files) /\ idx' = idx + 1
          /\ Len(read.files) \in Nat /\ idx \in Nat
      BY <1>2, <2>1, <2>2
    <3>2. /\ idx .. idx + Len(read.files) \subseteq 0 .. idx' + Len(queue') - 1
          /\ 0 .. idx - 1 \subseteq 0 .. idx' + Len(queue') - 1
      <4>1. \A a, b \in Nat : /\ a .. a + b \subseteq 0 .. a + 1 + b - 1
                              /\ 0 .. a - 1 \subseteq 0 .. a + 1 + b - 1
        OBVIOUS
      <4> QED
        BY Zenon, <3>1, <4>1
    <3> QED
      BY <2>1, <2>3, <3>2
  <2>5. \A k \in DOMAIN sources : k \in DOMAIN sources' /\ sources'[k] = sources[k]
    BY <2>1, <2>3
  <2>6. IsQueue(queue') /\ idx' \in Nat /\ disk' \in Disks
    BY <1>2, <2>1, <2>2
  <2> QED
    BY Zenon, <1>2, <2>4, <2>5, <2>6 DEF Counted
<1> QED
  BY <1>1, <1>2 DEF HandleImage, openVars, read

-----------------------------------------------------------------------------
\* Each step of open() keeps the count, and what has an index keeps it.
LEMMA StepCounted ==
  ASSUME Counted, [ReaderNext]_vars
  PROVE  /\ Counted'
         /\ \A k \in DOMAIN sources : k \in DOMAIN sources' /\ sources'[k] = sources[k]
<1>1. CASE HandleImage
  BY <1>1, ImageCounted
<1>2. CASE ImageFault
  BY <1>2 DEF ImageFault, openVars, Counted
<1>3. CASE BeginExtent
  BY <1>3 DEF BeginExtent, Counted
<1>4. CASE InsertOne
  BY <1>4 DEF InsertOne, Counted
<1>5. CASE RunMaps
  BY <1>5 DEF RunMaps, openVars, Counted
<1>6. CASE EndExtent
  <2>1. IsQueue(queue) /\ queue # <<>> /\ idx \in Nat
        /\ DOMAIN sources \subseteq 0 .. idx + Len(queue) - 1
    BY <1>6 DEF EndExtent, Counted
  <2>2. /\ IsQueue(Tail(queue)) /\ HasFile(Head(queue))
        /\ Len(queue) \in Nat \ {0} /\ Len(Tail(queue)) = Len(queue) - 1
    BY <2>1, RestOfQueue
  <2>3. /\ idx' = idx + 1 /\ queue' = Tail(queue) /\ sources' = sources
        /\ pc' \in {"fill", "extents"} /\ disk' = disk
    BY <1>6, <2>2 DEF EndExtent
  <2> QED
    BY <2>1, <2>2, <2>3 DEF Counted
<1>7. CASE NextImage
  <2>1. queue = <<>> /\ Len(queue) = 0
    BY <1>7 DEF NextImage
  <2> QED
    BY <1>7, <2>1 DEF NextImage, Counted
<1>8. CASE FillZeros \/ RunFill \/ Opened
  BY <1>8 DEF FillZeros, RunFill, Opened, openVars, Counted
<1>9. CASE EndFill
  BY <1>9 DEF EndFill, Counted
<1>10. ASSUME NEW off, NEW len, NEW faulty, Refuse(off, len) \/ Call(off, len, faulty)
       PROVE  /\ Counted'
              /\ \A k \in DOMAIN sources : k \in DOMAIN sources' /\ sources'[k] = sources[k]
  BY <1>10 DEF Refuse, Call, Answer, openVars, Counted
<1>11. CASE ReadStep
  BY <1>11 DEF ReadStep, ReadPiece, ReadFault, Return, Answer, openVars, Counted
<1>12. CASE Forget
  BY <1>12 DEF Forget, openVars, Counted
<1>13. CASE UNCHANGED vars
  BY <1>13 DEF vars, openVars, Counted
<1> QED
  BY <1>1, <1>2, <1>3, <1>4, <1>5, <1>6, <1>7, <1>8, <1>9, <1>10, <1>11, <1>12, <1>13
  DEF ReaderNext, OpenStep

\* A source index that was given out stays with its file, for disks of every size,
\* chains of every length and images of any number of extents: the three places
\* that count sources (open, handle_image, read_extents) agree.
THEOREM IndicesStay == ReaderSpec => SourcesStay
<1>1. ReaderInit => Counted
  BY DEF ReaderInit, Counted
<1>2. Counted /\ [ReaderNext]_vars => Counted'
  BY StepCounted
<1>3. Counted /\ [ReaderNext]_vars =>
        [\A k \in DOMAIN sources :
           k \in DOMAIN sources' /\ sources'[k] = sources[k]]_vars
  BY StepCounted
<1> QED
  BY <1>1, <1>2, <1>3, PTL DEF ReaderSpec, SourcesStay

-----------------------------------------------------------------------------
(***************************************************************************)
(* The maps that open() fills.  P has what is proved about the loops; the  *)
(* spans here may begin and end at any sector and may be empty.            *)
(***************************************************************************)
P == INSTANCE SpansProofs WITH ImageEnd <- 0, Places <- Nat, Ids <- Nat, MinLen <- 0

LEMMA SpansAssumed ==
  /\ Nat \subseteq Nat /\ \A p \in Nat : 0 .. p \subseteq Nat
  /\ 0 \in Nat
OBVIOUS

LEMMA SameInsert ==
  ASSUME NEW after, Maps!InsertSpan(after)
  PROVE  P!InsertSpan(after)
BY Zenon DEF Maps!InsertSpan, Maps!InsertCovered, Maps!InsertBeforeNext, Maps!InsertRest,
       Maps!Holds, Maps!StartsAt, Maps!Merges, Maps!IsLast, Maps!IsNext, Maps!Put, Maps!Drop,
       Maps!Return, Maps!Continue, Maps!NoCall,
       P!InsertSpan, P!InsertCovered, P!InsertBeforeNext, P!InsertRest,
       P!Holds, P!StartsAt, P!Merges, P!IsLast, P!IsNext, P!Put, P!Drop,
       P!Return, P!Continue, P!NoCall

LEMMA SameRemove ==
  ASSUME Maps!RemoveSpan
  PROVE  P!RemoveSpan
BY Zenon DEF Maps!RemoveSpan, Maps!RemoveLast, Maps!RemoveFirst, Maps!RemoveAhead,
       Maps!RemoveNext, Maps!CutBack, Maps!Open, Maps!IsLast, Maps!IsNext, Maps!Put,
       Maps!Drop, Maps!Return, Maps!Continue, Maps!NoCall,
       P!RemoveSpan, P!RemoveLast, P!RemoveFirst, P!RemoveAhead,
       P!RemoveNext, P!CutBack, P!Open, P!IsLast, P!IsNext, P!Put, P!Drop,
       P!Return, P!Continue, P!NoCall

\* the maps and the loop that runs on them
MapsOK ==
  /\ P!IInv
  /\ P!ApartIn(uncovered)
  /\ IsFiniteSet(DOMAIN spans)
  /\ loop = "remove" => call.beg <= sbeg /\ sbeg <= call.end

\* some span has the sector
Owned(s) == P!OwnersIn(spans, s) # {}

\* what the loops have done of the call so far
Swept ==
  /\ loop = "insert" => \A s \in Nat : call.beg <= s /\ s < sbeg => Owned(s)
  /\ loop = "remove" =>
       /\ \A s \in Nat : call.beg <= s /\ s < call.end => Owned(s)
       /\ call.beg = 0 => 0 \in DOMAIN spans

\* what has a span keeps it
NothingLost ==
  /\ \A s \in Nat : Owned(s) => P!OwnersIn(spans', s) # {}
  /\ 0 \in DOMAIN spans => 0 \in DOMAIN spans'

LEMMA MapTypes ==
  ASSUME MapsOK
  PROVE  /\ \A c \in DOMAIN spans :
              c \in Nat /\ spans[c].end \in Nat /\ spans[c].val \in Nat /\ c <= spans[c].end
         /\ \A b, c \in DOMAIN spans : b < c => spans[b].end <= c
         /\ \A c \in DOMAIN uncovered : c \in Nat /\ uncovered[c] \in Nat /\ c <= uncovered[c]
         /\ sbeg \in Nat
         /\ loop # "none" => /\ call.beg \in Nat /\ call.end \in Nat /\ call.val \in Nat
                             /\ call = [beg |-> call.beg, end |-> call.end, val |-> call.val]
         /\ loop \in {"none", "insert", "remove"}
         /\ loop = "insert" => call.beg <= sbeg /\ sbeg <= call.end
BY DEF MapsOK, P!IInv, P!TypeOK, P!Disjoint, P!DisjointIn, P!Cursor, P!ApartIn, P!Span

\* an owner of sector 0 is the span at 0
LEMMA ZeroOwned ==
  ASSUME MapsOK, Owned(0)
  PROVE  0 \in DOMAIN spans
<1>1. PICK c \in DOMAIN spans : c <= 0
  BY DEF Owned, P!OwnersIn
<1> QED
  BY <1>1, MapTypes

\* claiming an interval
LEMMA ClaimKeeps ==
  ASSUME MapsOK, NEW b \in Nat, NEW e \in Nat, NEW v \in Nat, b <= e, Maps!Claim(b, e, v)
  PROVE  /\ MapsOK' /\ Swept'
         /\ loop = "none" /\ loop' = "insert" /\ call' = [beg |-> b, end |-> e, val |-> v]
         /\ UNCHANGED <<spans, uncovered>> /\ sbeg' = b
<1>1. /\ loop = "none" /\ loop' = "insert" /\ call' = [beg |-> b, end |-> e, val |-> v]
      /\ UNCHANGED <<spans, uncovered>> /\ sbeg' = b
  BY DEF Maps!Claim
<1>2. P!IInv'
  BY <1>1 DEF MapsOK, P!IInv, P!TypeOK, P!Disjoint, P!DisjointIn, P!Cursor
<1>3. MapsOK'
  BY <1>1, <1>2 DEF MapsOK, P!ApartIn
<1>4. Swept'
  BY <1>1 DEF Swept
<1> QED
  BY <1>1, <1>3, <1>4

\* an iteration of insert_span
LEMMA InsertKeeps ==
  ASSUME MapsOK, Swept, NEW after \in {"remove", "none"}, Maps!InsertSpan(after)
  PROVE  /\ MapsOK' /\ Swept' /\ NothingLost
         /\ loop = "insert" /\ uncovered' = uncovered
         /\ loop' \in {"insert", after}
         /\ loop' # "none" => call' = call
         /\ loop' # "insert" => /\ \A s \in Nat : call.beg <= s /\ s < call.end => Owned(s)'
                                /\ call.beg = 0 => 0 \in DOMAIN spans'
<1>1. P!InsertSpan(after) /\ P!IInv
  BY SameInsert DEF MapsOK
<1>2. /\ P!SpanMap(spans') /\ P!DisjointIn(spans')
      /\ \E k \in Nat : P!SweptTo(k, after) /\ P!HandedOut(spans', k)
  BY <1>1, SpansAssumed, P!InsertStep
<1>3. /\ DOMAIN spans' \subseteq DOMAIN spans \cup {sbeg}
      /\ sbeg = 0 \/ 0 \in DOMAIN spans => 0 \in DOMAIN spans'
  BY <1>1, SpansAssumed, P!InsertKeys
<1>4. loop = "insert" /\ uncovered' = uncovered
  BY <1>1 DEF P!InsertSpan
<1>5. PICK k \in Nat : P!SweptTo(k, after) /\ P!HandedOut(spans', k)
  BY <1>2
<1>6. /\ call.beg \in Nat /\ call.end \in Nat /\ call.val \in Nat /\ sbeg \in Nat
      /\ call.beg <= sbeg /\ sbeg <= call.end
      /\ call = [beg |-> call.beg, end |-> call.end, val |-> call.val]
  BY <1>4, MapTypes
<1>7. /\ loop' \in {"insert", after}
      /\ loop' # "none" => call' = call
      /\ loop' = "insert" => sbeg' = k /\ sbeg < k /\ k <= call.end
      /\ loop' = "remove" => sbeg' = call.beg
      /\ loop' # "insert" => k = call.end
      /\ sbeg' \in Nat
  BY <1>4, <1>5, <1>6 DEF P!SweptTo, P!Return, P!Continue
<1>8. \A s \in Nat : /\ Owned(s) => P!OwnersIn(spans', s) # {}
                     /\ sbeg <= s /\ s < k => P!OwnersIn(spans', s) # {}
  BY <1>5 DEF P!HandedOut, Owned
<1>9. \A s \in Nat : call.beg <= s /\ s < k => Owned(s)'
  BY <1>4, <1>6, <1>8 DEF Swept, Owned
<1>10. IsFiniteSet(DOMAIN spans')
  <2>1. IsFiniteSet(DOMAIN spans \cup {sbeg})
    BY FS_AddElement DEF MapsOK
  <2> QED
    BY <1>3, <2>1, FS_Subset
<1>11. P!IInv'
  <2>1. P!TypeOK'
    BY <1>1, <1>2, <1>4, <1>6, <1>7 DEF P!IInv, P!TypeOK, P!SpanMap
  <2>2. P!Disjoint'
    BY <1>2 DEF P!Disjoint, P!DisjointIn
  <2>3. P!Cursor'
    BY <1>6, <1>7 DEF P!Cursor
  <2> QED
    BY <2>1, <2>2, <2>3 DEF P!IInv
<1>12. MapsOK'
  <2>1. P!ApartIn(uncovered)'
    BY <1>4 DEF MapsOK, P!ApartIn
  <2> QED
    BY <1>6, <1>7, <1>10, <1>11, <2>1 DEF MapsOK
<1>13. loop' # "insert" => /\ \A s \in Nat : call.beg <= s /\ s < call.end => Owned(s)'
                           /\ call.beg = 0 => 0 \in DOMAIN spans'
  <2>1. ASSUME call.beg = 0, sbeg # 0
        PROVE  0 \in DOMAIN spans
    <3>1. Owned(0)
      BY <1>4, <1>6, <2>1 DEF Swept
    <3> QED
      BY <3>1, ZeroOwned
  <2> QED
    BY <1>3, <1>6, <1>7, <1>9, <2>1
<1>14. Swept'
  BY <1>6, <1>7, <1>9, <1>13 DEF Swept
<1> QED
  BY <1>3, <1>4, <1>7, <1>8, <1>12, <1>13, <1>14 DEF NothingLost

\* an iteration of remove_span: what it takes from the map has a span
LEMMA RemoveKeeps ==
  ASSUME MapsOK, Swept, Maps!RemoveSpan
  PROVE  /\ MapsOK' /\ Swept' /\ spans' = spans /\ loop' \in {"remove", "none"}
         /\ \A s \in Nat : P!HeldIn(uncovered, s) => P!HeldIn(uncovered', s) \/ Owned(s)
         /\ 0 \in DOMAIN uncovered => 0 \in DOMAIN uncovered' \/ 0 \in DOMAIN spans
<1>1. P!RemoveSpan /\ P!IInv /\ P!TypeOK /\ P!ApartIn(uncovered)
  BY SameRemove DEF MapsOK, P!IInv
<1>2. loop = "remove" /\ spans' = spans
  BY <1>1 DEF P!RemoveSpan
<1>3. /\ call.beg \in Nat /\ call.end \in Nat /\ sbeg \in Nat
      /\ call.beg <= sbeg /\ sbeg <= call.end
      /\ call = [beg |-> call.beg, end |-> call.end, val |-> call.val]
  BY <1>2, MapTypes DEF MapsOK
<1>4. /\ P!FreeMap(uncovered') /\ P!ApartIn(uncovered')
      /\ P!Spares(uncovered, uncovered', call.beg, call.end)
      /\ \/ P!Return("none")
         \/ sbeg' \in Nat /\ call.beg <= sbeg' /\ sbeg' <= call.end
              /\ UNCHANGED <<loop, call>>
  BY <1>1, <1>3, SpansAssumed, P!RemoveSpares
<1>5. /\ loop' \in {"remove", "none"} /\ sbeg' \in Nat
      /\ loop' = "remove" => call' = call /\ call.beg <= sbeg' /\ sbeg' <= call.end
  BY <1>2, <1>4 DEF P!Return
<1>6. P!IInv'
  <2>1. P!TypeOK'
    BY <1>1, <1>2, <1>4, <1>5 DEF P!TypeOK, P!FreeMap
  <2> QED
    BY <1>1, <1>2, <1>5, <2>1 DEF P!IInv, P!Disjoint, P!DisjointIn, P!Cursor
<1>7. MapsOK'
  <2>1. P!ApartIn(uncovered)'
    BY <1>4 DEF P!ApartIn
  <2> QED
    BY <1>2, <1>5, <1>6, <2>1 DEF MapsOK
<1>8. Swept'
  BY <1>2, <1>5 DEF Swept, Owned
<1>9. \A s \in Nat : P!HeldIn(uncovered, s) => P!HeldIn(uncovered', s) \/ Owned(s)
  BY <1>2, <1>4 DEF P!Spares, Swept
<1>10. 0 \in DOMAIN uncovered => 0 \in DOMAIN uncovered' \/ 0 \in DOMAIN spans
  BY <1>2, <1>4 DEF P!Spares, Swept
<1> QED
  BY <1>2, <1>5, <1>7, <1>8, <1>9, <1>10

\* the first n sectors have a span, or are known to have none
Covered(n) ==
  /\ \A s \in Nat : s < n => Owned(s) \/ P!HeldIn(uncovered, s)
  /\ 0 \in DOMAIN spans \cup DOMAIN uncovered

\* the spans of the extent that are not in the maps yet
PiecesOK ==
  pc = "spans" => \A p \in todo : p.beg \in Nat /\ p.end \in Nat /\ p.beg <= p.end

\* the uncovered span that is filled with zeros
Filling(lb) ==
  /\ \A b \in DOMAIN uncovered : lb <= b
  /\ loop = "insert" => call.beg = lb /\ call.end = uncovered[lb]
  /\ loop = "none" => /\ \A s \in Nat : lb <= s /\ s < uncovered[lb] => Owned(s)
                      /\ lb = 0 => 0 \in DOMAIN spans

\* what open() has done so far: every sector of the image has a span or is in
\* the map of what is uncovered
OpenInv ==
  /\ MapsOK /\ Swept
  /\ PiecesOK
  /\ pc \notin {"spans", "zero"} => loop = "none"
  /\ pc = "zero" => loop \in {"none", "insert"} /\ \E lb \in DOMAIN uncovered : Filling(lb)
  /\ pc \notin {"image", "failed", "panicked"} => imageSize # <<>>
  /\ imageSize # <<>> => \E n \in Nat : imageSize = <<n * SectorSize>> /\ Covered(n)

\* where a step that leaves the maps and the pieces alone may go
LEMMA OpenKept ==
  ASSUME OpenInv, UNCHANGED <<mapVars, todo, imageSize>>,
         pc' = "spans" => pc = "spans", pc' = "zero" => pc = "zero",
         loop = "none" \/ pc' = pc \/ pc' \in {"spans", "zero"},
         pc' \notin {"image", "failed", "panicked"} => imageSize # <<>>
  PROVE  OpenInv'
<1>1. /\ spans' = spans /\ uncovered' = uncovered /\ loop' = loop /\ call' = call
      /\ sbeg' = sbeg /\ todo' = todo /\ imageSize' = imageSize
  BY DEF mapVars
<1>2. MapsOK' /\ Swept'
  BY <1>1 DEF OpenInv, MapsOK, Swept, Owned, P!IInv, P!TypeOK, P!Disjoint, P!DisjointIn,
     P!Cursor, P!ApartIn
<1>3. /\ \A lb \in DOMAIN uncovered : Filling(lb) => Filling(lb)'
      /\ \A n \in Nat : Covered(n) => Covered(n)'
  BY <1>1 DEF Filling, Covered, Owned
<1>4. PiecesOK'
  BY <1>1 DEF OpenInv, PiecesOK
<1>5. pc' = "zero" => loop' \in {"none", "insert"} /\ \E lb \in DOMAIN uncovered' : Filling(lb)'
  BY <1>1, <1>3 DEF OpenInv
<1>6. imageSize' # <<>> => \E n \in Nat : imageSize' = <<n * SectorSize>> /\ Covered(n)'
  BY <1>1, <1>3 DEF OpenInv
<1>7. pc' \notin {"spans", "zero"} => loop' = "none"
  BY <1>1 DEF OpenInv
<1> QED
  BY <1>1, <1>2, <1>4, <1>5, <1>6, <1>7 DEF OpenInv

\* the spans of a sound extent
LEMMA PiecesOfExtent ==
  ASSUME NEW ex, SoundExtent(ex)
  PROVE  \A p \in SpansOf(ex) : p.beg \in Nat /\ p.end \in Nat /\ p.beg <= p.end
<1>1. CASE ex.storage.kind = "sparse"
  <2>1. /\ ex.start_sector \in Nat /\ ex.storage.grain_size \in Nat
        /\ DOMAIN ex.storage.grain_table \subseteq Nat
    BY <1>1 DEF SoundExtent
  <2>2. \A a, g, k \in Nat : a + k * g \in Nat /\ (a + k * g) + g \in Nat
                             /\ a + k * g <= (a + k * g) + g
    OBVIOUS
  <2> QED
    BY <1>1, <2>1, <2>2 DEF SpansOf
<1>2. CASE ex.storage.kind # "sparse"
  BY <1>2 DEF SpansOf, SoundExtent
<1> QED
  BY <1>1, <1>2

LEMMA ImageOpens ==
  ASSUME Counted, OpenInv, HandleImage
  PROVE  OpenInv'
<1> DEFINE read == ReadImage
           sectors == SectorsOf(read.extents)
<1> HIDE DEF read
<1>0. pc = "image" /\ loop = "none"
  BY DEF HandleImage, OpenInv
<1>1. CASE pc' \in {"failed", "panicked"} /\ UNCHANGED <<openVars, mapVars>>
  <2>1. UNCHANGED <<mapVars, todo, imageSize>>
    BY <1>1 DEF openVars
  <2> QED
    BY <1>0, <1>1, <2>1, OpenKept
<1>2. CASE /\ read.outcome = "extents"
           /\ imageSize \in {<<>>, <<sectors * SectorSize>>}
           /\ pc' = "extents"
           /\ imageSize' = <<sectors * SectorSize>>
           /\ uncovered' = IF imageSize = <<>> THEN [b \in {0} |-> sectors]
                                               ELSE uncovered
           /\ UNCHANGED <<todo, spans, loop, call, sbeg>>
  <2>1. CASE imageSize # <<>>
    <3>1. UNCHANGED <<mapVars, todo, imageSize>>
      BY <1>2, <2>1 DEF mapVars
    <3> QED
      BY <1>0, <1>2, <2>1, <3>1, OpenKept
  <2>2. CASE imageSize = <<>>
    <3>1. sectors \in Nat
      <4>1. current \in DOMAIN disk.files
            /\ read = ReadExtents(current, disk.files[current].desc.eds,
                        disk.files[current].sig = "vmdk4"
                          /\ Len(disk.files[current].desc.eds) = 1, idx + 1)
        BY <1>2 DEF read, ReadImage
      <4>2. disk \in Disks
        BY DEF Counted
      <4>3. IsQueue(read.extents)
        BY Zenon, <1>2, <4>1, <4>2, ExtentsHaveFiles
      <4> QED
        BY <4>3, SectorsAreCounted DEF IsQueue, SoundExtent
    <3> HIDE DEF sectors
    <3>7. PICK n \in Nat : n = sectors
      BY <3>1
    <3>2. /\ DOMAIN uncovered' = {0} /\ uncovered'[0] = n /\ uncovered' = [b \in {0} |-> n]
          /\ imageSize' = <<n * SectorSize>> /\ imageSize' # <<>>
          /\ spans' = spans /\ loop' = "none" /\ call' = call /\ sbeg' = sbeg
      BY <1>0, <1>2, <2>2, <3>7
    <3>3. MapsOK'
      <4>1. P!TypeOK'
        BY <3>2 DEF OpenInv, MapsOK, P!IInv, P!TypeOK
      <4>2. P!ApartIn(uncovered)'
        BY <3>2 DEF P!ApartIn
      <4> QED
        BY <3>2, <4>1, <4>2 DEF OpenInv, MapsOK, P!IInv, P!Disjoint, P!DisjointIn, P!Cursor
    <3>4. Swept'
      BY <3>2 DEF Swept
    <3>5. Covered(n)'
      BY <3>2 DEF Covered, P!HeldIn
    <3>6. PiecesOK'
      BY <1>2 DEF PiecesOK
    <3> QED
      BY <1>2, <3>2, <3>3, <3>4, <3>5, <3>6 DEF OpenInv
  <2> QED
    BY <2>1, <2>2
<1> QED
  BY <1>1, <1>2 DEF HandleImage, read

LEMMA ExtentOpens ==
  ASSUME Counted, OpenInv, BeginExtent
  PROVE  OpenInv'
<1>1. /\ pc = "extents" /\ pc' = "spans" /\ todo' = SpansOf(Head(queue))
      /\ imageSize' = imageSize /\ loop = "none"
      /\ IsQueue(queue) /\ queue # <<>>
      /\ spans' = spans /\ uncovered' = uncovered /\ loop' = loop /\ call' = call
      /\ sbeg' = sbeg
  BY DEF BeginExtent, Counted, mapVars, OpenInv
<1>2. SoundExtent(Head(queue))
  <2>1. PICK S : queue \in Seq(S)
    BY <1>1 DEF IsQueue
  <2>2. 1 \in DOMAIN queue /\ Head(queue) = queue[1]
    BY <1>1, <2>1
  <2> QED
    BY <1>1, <2>2 DEF IsQueue
<1>3. PiecesOK'
  BY <1>1, <1>2, PiecesOfExtent DEF PiecesOK
<1>4. MapsOK' /\ Swept'
  BY <1>1 DEF OpenInv, MapsOK, Swept, Owned, P!IInv, P!TypeOK, P!Disjoint, P!DisjointIn,
     P!Cursor, P!ApartIn
<1>5. imageSize' # <<>> => \E n \in Nat : imageSize' = <<n * SectorSize>> /\ Covered(n)'
  BY Zenon, <1>1 DEF OpenInv, Covered, Owned
<1> QED
  BY <1>1, <1>3, <1>4, <1>5 DEF OpenInv

LEMMA PieceOpens ==
  ASSUME Counted, OpenInv, InsertOne, Len(extents) \in Nat
  PROVE  OpenInv'
<1>1. PICK s \in todo : Maps!Claim(s.beg, s.end, Len(extents)) /\ todo' = todo \ {s}
  BY DEF InsertOne
<1>2. /\ pc = "spans" /\ pc' = pc /\ imageSize' = imageSize
      /\ s.beg \in Nat /\ s.end \in Nat /\ s.beg <= s.end /\ MapsOK
  BY DEF InsertOne, OpenInv, PiecesOK
<1>3. MapsOK' /\ Swept' /\ UNCHANGED <<spans, uncovered>>
  BY <1>1, <1>2, ClaimKeeps
<1>4. PiecesOK'
  BY <1>1, <1>2 DEF OpenInv, PiecesOK
<1>5. \A n \in Nat : Covered(n) => Covered(n)'
  BY <1>3 DEF Covered, Owned
<1> QED
  BY <1>2, <1>3, <1>4, <1>5 DEF OpenInv

\* what is covered stays so
LEMMA CoveredKept ==
  ASSUME NothingLost, NEW n \in Nat, Covered(n),
         \A s \in Nat : P!HeldIn(uncovered, s) => P!HeldIn(uncovered', s) \/ Owned(s)',
         0 \in DOMAIN uncovered => 0 \in DOMAIN uncovered' \cup DOMAIN spans'
  PROVE  Covered(n)'
BY DEF Covered, NothingLost, Owned

LEMMA RunOpens ==
  ASSUME OpenInv, RunMaps
  PROVE  OpenInv'
<1>1. /\ pc = "spans" /\ pc' = pc /\ imageSize' = imageSize /\ todo' = todo
      /\ MapsOK /\ Swept /\ (Maps!InsertSpan("remove") \/ Maps!RemoveSpan)
  BY DEF RunMaps, OpenInv, openVars
<1>2. PiecesOK'
  BY <1>1 DEF OpenInv, PiecesOK
<1>3. CASE Maps!InsertSpan("remove")
  <2>1. MapsOK' /\ Swept' /\ NothingLost /\ uncovered' = uncovered
    BY <1>1, <1>3, InsertKeeps
  <2>2. \A n \in Nat : Covered(n) => Covered(n)'
    BY <2>1, CoveredKept
  <2> QED
    BY <1>1, <1>2, <2>1, <2>2 DEF OpenInv
<1>4. CASE Maps!RemoveSpan
  <2>1. /\ MapsOK' /\ Swept' /\ spans' = spans
        /\ \A s \in Nat : P!HeldIn(uncovered, s) => P!HeldIn(uncovered', s) \/ Owned(s)
        /\ 0 \in DOMAIN uncovered => 0 \in DOMAIN uncovered' \/ 0 \in DOMAIN spans
    BY <1>1, <1>4, RemoveKeeps
  <2>2. \A n \in Nat : Covered(n) => Covered(n)'
    BY <2>1 DEF Covered, Owned
  <2> QED
    BY <1>1, <1>2, <2>1, <2>2 DEF OpenInv
<1> QED
  BY <1>1, <1>3, <1>4

LEMMA ZerosOpen ==
  ASSUME OpenInv, FillZeros, Len(extents) \in Nat
  PROVE  OpenInv'
<1>1. PICK lb \in DOMAIN uncovered :
        /\ \A b \in DOMAIN uncovered : lb <= b
        /\ Maps!Claim(lb, uncovered[lb], Len(extents))
  BY DEF FillZeros
<1>2. /\ pc = "fill" /\ pc' = "zero" /\ imageSize' = imageSize
      /\ MapsOK /\ lb \in Nat /\ uncovered[lb] \in Nat /\ lb <= uncovered[lb]
  BY MapTypes DEF FillZeros, OpenInv, openVars
<1>3. /\ MapsOK' /\ Swept' /\ UNCHANGED <<spans, uncovered>>
      /\ loop' = "insert" /\ call' = [beg |-> lb, end |-> uncovered[lb], val |-> Len(extents)]
  BY <1>1, <1>2, ClaimKeeps
<1>4. Filling(lb)'
  BY <1>1, <1>3 DEF Filling
<1>5. \A n \in Nat : Covered(n) => Covered(n)'
  BY <1>3 DEF Covered, Owned
<1> QED
  BY <1>2, <1>3, <1>4, <1>5 DEF OpenInv, PiecesOK

LEMMA RunFillOpens ==
  ASSUME OpenInv, RunFill
  PROVE  OpenInv'
<1>1. /\ pc = "zero" /\ pc' = pc /\ imageSize' = imageSize
      /\ MapsOK /\ Swept /\ Maps!InsertSpan("none") /\ loop = "insert"
  BY DEF RunFill, OpenInv, openVars, Maps!InsertSpan
<1>2. PICK lb \in DOMAIN uncovered : Filling(lb)
  BY <1>1 DEF OpenInv
<1>3. /\ MapsOK' /\ Swept' /\ NothingLost /\ uncovered' = uncovered
      /\ loop' \in {"insert", "none"}
      /\ loop' # "none" => call' = call
      /\ loop' # "insert" => /\ \A s \in Nat : call.beg <= s /\ s < call.end => Owned(s)'
                             /\ call.beg = 0 => 0 \in DOMAIN spans'
  BY <1>1, InsertKeeps
<1>4. \A n \in Nat : Covered(n) => Covered(n)'
  BY <1>3, CoveredKept
<1>5. Filling(lb)'
  BY <1>1, <1>2, <1>3 DEF Filling
<1> QED
  BY <1>1, <1>2, <1>3, <1>4, <1>5 DEF OpenInv, PiecesOK

LEMMA EndFillOpens ==
  ASSUME OpenInv, EndFill
  PROVE  OpenInv'
<1>1. PICK lb \in DOMAIN uncovered :
        /\ \A b \in DOMAIN uncovered : lb <= b
        /\ uncovered' = Maps!Drop(uncovered, lb)
  BY DEF EndFill
<1>2. /\ pc = "zero" /\ pc' = "fill" /\ imageSize' = imageSize /\ loop = "none"
      /\ loop' = loop /\ call' = call /\ sbeg' = sbeg /\ spans' = spans /\ MapsOK
  BY DEF EndFill, OpenInv
<1>3. PICK x \in DOMAIN uncovered : Filling(x)
  BY <1>2 DEF OpenInv
<1>4. x = lb /\ \A b \in DOMAIN uncovered : b \in Nat /\ uncovered[b] \in Nat
  <2>1. x <= lb /\ lb <= x /\ x \in Nat /\ lb \in Nat
    BY <1>1, <1>2, <1>3, MapTypes DEF Filling
  <2> QED
    BY <1>2, <2>1, MapTypes
<1>5. /\ uncovered' = [c \in DOMAIN uncovered \ {lb} |-> uncovered[c]]
      /\ DOMAIN uncovered' = DOMAIN uncovered \ {lb}
      /\ \A c \in DOMAIN uncovered' : uncovered'[c] = uncovered[c]
  BY <1>1 DEF Maps!Drop
<1>6. MapsOK'
  <2>1. P!TypeOK'
    BY <1>2, <1>5 DEF MapsOK, P!IInv, P!TypeOK
  <2>2. P!ApartIn(uncovered)'
    BY <1>2, <1>5 DEF MapsOK, P!ApartIn
  <2> QED
    BY <1>2, <2>1, <2>2 DEF MapsOK, P!IInv, P!Disjoint, P!DisjointIn, P!Cursor
<1>7. Swept'
  BY <1>2 DEF Swept
<1>8. \A n \in Nat : Covered(n) => Covered(n)'
  <2> SUFFICES ASSUME NEW n \in Nat, Covered(n)
               PROVE  Covered(n)'
    OBVIOUS
  <2>1. \A s \in Nat : P!HeldIn(uncovered, s) => P!HeldIn(uncovered', s) \/ Owned(s)
    BY <1>2, <1>3, <1>4, <1>5 DEF P!HeldIn, Filling
  <2>2. lb = 0 => 0 \in DOMAIN spans
    BY <1>2, <1>3, <1>4 DEF Filling
  <2> QED
    BY <1>2, <1>5, <2>1, <2>2 DEF Covered, Owned
<1> QED
  BY <1>2, <1>6, <1>7, <1>8 DEF OpenInv, PiecesOK

\* an iteration of insert_span brings no label but the one of its call, and that
\* one to sectors of the call's interval only
LEMMA InsertLabels ==
  ASSUME MapsOK, NEW after \in {"remove", "none"}, Maps!InsertSpan(after)
  PROVE  /\ \A c \in DOMAIN spans' :
              \/ spans'[c].val = call.val
              \/ \E b \in DOMAIN spans : spans'[c].val = spans[b].val
         /\ \A s \in Nat : \A v \in P!OwnersIn(spans', s) :
              \/ v \in P!OwnersIn(spans, s)
              \/ v = call.val /\ call.beg <= s /\ s < call.end
<1>1. P!InsertSpan(after) /\ P!IInv /\ loop = "insert"
  BY SameInsert DEF MapsOK, Maps!InsertSpan
<1>2. \A c \in DOMAIN spans' :
        spans'[c].val = call.val \/ \E b \in DOMAIN spans : spans'[c].val = spans[b].val
  BY <1>1, SpansAssumed, P!InsertVals
<1>3. PICK k \in Nat : P!SweptTo(k, after) /\ P!HandedOut(spans', k)
  BY <1>1, SpansAssumed, P!InsertStep
<1>4. /\ call.beg \in Nat /\ call.end \in Nat /\ sbeg \in Nat
      /\ call.beg <= sbeg /\ k <= call.end
  BY <1>1, <1>3, MapTypes DEF P!SweptTo
<1>5. \A s \in Nat : \A v \in P!OwnersIn(spans', s) :
        \/ v \in P!OwnersIn(spans, s)
        \/ v = call.val /\ call.beg <= s /\ s < call.end
  BY <1>3, <1>4 DEF P!HandedOut
<1> QED
  BY <1>2, <1>5

-----------------------------------------------------------------------------
(***************************************************************************)
(* The labels of the spans are positions of extents that have the sectors. *)
(***************************************************************************)

\* one of the extent's spans has the sector
HasSector(ex, s) ==
  ex.storage.kind = "sparse" => \E p \in SpansOf(ex) : p.beg <= s /\ s < p.end

\* the extent that v stands for has the sector; the extent that is gone through
\* is pushed later
Carries(v, s) ==
  /\ v < Len(extents) => HasSector(extents[v + 1], s)
  /\ v = Len(extents) /\ pc = "spans" => HasSector(Head(queue), s)

ExtentsOK ==
  /\ Len(extents) \in Nat /\ DOMAIN extents = 1 .. Len(extents)
  /\ \E S : extents \in Seq(S)
  /\ \A j \in DOMAIN extents : SoundExtent(extents[j])

LabelsInv ==
  /\ ExtentsOK
  /\ \A b \in DOMAIN spans :
       /\ spans[b].val \in 0 .. Len(extents)
       /\ spans[b].val = Len(extents) => pc \in {"spans", "zero"}
  /\ \A s \in Nat : \A v \in P!OwnersIn(spans, s) : Carries(v, s)
  /\ loop = "insert" =>
       /\ call.val = Len(extents)
       /\ \A s \in Nat : call.beg <= s /\ s < call.end => Carries(Len(extents), s)
  /\ pc = "spans" => todo \subseteq SpansOf(Head(queue))

\* the owners of a sector are labels of spans
LEMMA OwnersAreVals ==
  ASSUME NEW m, NEW s \in Nat, NEW v \in P!OwnersIn(m, s)
  PROVE  \E b \in DOMAIN m : m[b].val = v /\ b <= s /\ s < m[b].end
BY DEF P!OwnersIn

LEMMA LabelsKept ==
  ASSUME LabelsInv, UNCHANGED <<spans, loop, call, extents>>,
         pc \in {"spans", "zero"} \/ pc' = "spans" => pc' = pc /\ UNCHANGED <<queue, todo>>
  PROVE  LabelsInv'
<1>1. ExtentsOK'
  BY DEF LabelsInv, ExtentsOK
<1>2. \A b \in DOMAIN spans' :
        /\ spans'[b].val \in 0 .. Len(extents')
        /\ spans'[b].val = Len(extents') => pc' \in {"spans", "zero"}
  BY DEF LabelsInv
<1>3. \A v, s : Carries(v, s) => Carries(v, s)'
  BY DEF Carries, HasSector, SpansOf
<1>4. \A s \in Nat : \A v \in P!OwnersIn(spans', s) : Carries(v, s)'
  BY <1>3 DEF LabelsInv
<1>5. loop' = "insert" =>
        /\ call'.val = Len(extents')
        /\ \A s \in Nat : call'.beg <= s /\ s < call'.end => Carries(Len(extents), s)'
  BY <1>3 DEF LabelsInv
<1>6. pc' = "spans" => todo' \subseteq SpansOf(Head(queue'))
  BY DEF LabelsInv
<1> QED
  BY <1>1, <1>2, <1>4, <1>5, <1>6 DEF LabelsInv, P!OwnersIn

LEMMA ExtentLabels ==
  ASSUME LabelsInv, OpenInv, BeginExtent
  PROVE  LabelsInv'
<1>1. /\ pc = "extents" /\ pc' = "spans" /\ todo' = SpansOf(Head(queue')) /\ loop = "none"
      /\ UNCHANGED <<spans, loop, call, extents, queue>>
  BY DEF BeginExtent, mapVars, OpenInv
<1>2. ExtentsOK'
  BY <1>1 DEF LabelsInv, ExtentsOK
<1>3. \A b \in DOMAIN spans : spans[b].val \in 0 .. Len(extents) /\ spans[b].val < Len(extents)
  BY <1>1 DEF LabelsInv, ExtentsOK
<1>4. \A s \in Nat : \A v \in P!OwnersIn(spans', s) : Carries(v, s)'
  <2> SUFFICES ASSUME NEW s \in Nat, NEW v \in P!OwnersIn(spans, s)
               PROVE  Carries(v, s)'
    BY <1>1
  <2>1. v < Len(extents) /\ v \in 0 .. Len(extents)
    BY <1>3, OwnersAreVals
  <2>2. Carries(v, s)
    BY DEF LabelsInv
  <2>3. HasSector(extents[v + 1], s)'
    BY <1>1, <2>1, <2>2 DEF Carries, HasSector, SpansOf
  <2>4. v # Len(extents')
    <3>1. Len(extents) \in Nat /\ Len(extents') = Len(extents)
      BY <1>1 DEF LabelsInv, ExtentsOK
    <3>2. \A a \in Nat : \A x \in 0 .. a : x < a => x # a
      OBVIOUS
    <3> QED
      BY <2>1, <3>1, <3>2
  <2> QED
    BY <2>3, <2>4 DEF Carries
<1> QED
  BY <1>1, <1>2, <1>3, <1>4 DEF LabelsInv, P!OwnersIn

\* claiming spans for the extent that will be pushed next
LEMMA ClaimLabels ==
  ASSUME LabelsInv, NEW b, NEW e, Maps!Claim(b, e, Len(extents)),
         UNCHANGED <<extents, queue>>, todo' \subseteq todo,
         pc \in {"spans", "zero", "fill"}, pc' \in {"spans", "zero"},
         pc' = "spans" => pc = "spans",
         \A s \in Nat : pc = "spans" /\ b <= s /\ s < e => HasSector(Head(queue), s)
  PROVE  LabelsInv'
<1>1. /\ loop' = "insert" /\ call' = [beg |-> b, end |-> e, val |-> Len(extents)]
      /\ spans' = spans
  BY DEF Maps!Claim
<1>2. ExtentsOK'
  BY DEF LabelsInv, ExtentsOK
<1>3. \A v, s : Carries(v, s) => Carries(v, s)'
  BY DEF Carries, HasSector, SpansOf
<1>4. \A s \in Nat : \A v \in P!OwnersIn(spans', s) : Carries(v, s)'
  BY <1>1, <1>3 DEF LabelsInv
<1>5. ASSUME NEW s \in Nat, b <= s, s < e
      PROVE  Carries(Len(extents), s)'
  <2>1. ~(Len(extents) < Len(extents))
    BY DEF LabelsInv, ExtentsOK
  <2> QED
    BY <1>5, <2>1 DEF Carries, HasSector, SpansOf
<1>6. pc' = "spans" => todo' \subseteq SpansOf(Head(queue'))
  BY DEF LabelsInv
<1>7. \A c \in DOMAIN spans' :
        /\ spans'[c].val \in 0 .. Len(extents')
        /\ spans'[c].val = Len(extents') => pc' \in {"spans", "zero"}
  BY <1>1 DEF LabelsInv
<1> QED
  BY <1>1, <1>2, <1>4, <1>5, <1>6, <1>7 DEF LabelsInv, P!OwnersIn

LEMMA PieceLabels ==
  ASSUME LabelsInv, OpenInv, InsertOne
  PROVE  LabelsInv'
<1>1. PICK p \in todo : Maps!Claim(p.beg, p.end, Len(extents)) /\ todo' = todo \ {p}
  BY DEF InsertOne
<1>2. /\ pc = "spans" /\ pc' = "spans" /\ UNCHANGED <<extents, queue>> /\ todo' \subseteq todo
      /\ todo \subseteq SpansOf(Head(queue))
  BY <1>1 DEF InsertOne, LabelsInv
<1>3. \A s \in Nat : p.beg <= s /\ s < p.end => HasSector(Head(queue), s)
  BY <1>2 DEF HasSector
<1> QED
  BY <1>1, <1>2, <1>3, ClaimLabels

LEMMA ZeroLabels ==
  ASSUME LabelsInv, FillZeros
  PROVE  LabelsInv'
<1>1. PICK lb : Maps!Claim(lb, uncovered[lb], Len(extents))
  BY DEF FillZeros
<1>2. /\ pc = "fill" /\ pc' = "zero" /\ UNCHANGED <<extents, queue>> /\ todo' \subseteq todo
  BY DEF FillZeros, openVars
<1> QED
  BY <1>1, <1>2, ClaimLabels

\* an iteration of insert_span
LEMMA RunLabels ==
  ASSUME LabelsInv, OpenInv, NEW after \in {"remove", "none"}, Maps!InsertSpan(after),
         UNCHANGED <<extents, queue, todo, pc>>, pc \in {"spans", "zero"},
         loop' # "none" => call' = call
  PROVE  LabelsInv'
<1>1. MapsOK /\ loop = "insert" /\ call.val = Len(extents)
      /\ \A s \in Nat : call.beg <= s /\ s < call.end => Carries(Len(extents), s)
  BY DEF OpenInv, Maps!InsertSpan, LabelsInv
<1>2. /\ \A c \in DOMAIN spans' :
              \/ spans'[c].val = call.val
              \/ \E b \in DOMAIN spans : spans'[c].val = spans[b].val
      /\ \A s \in Nat : \A v \in P!OwnersIn(spans', s) :
              \/ v \in P!OwnersIn(spans, s)
              \/ v = call.val /\ call.beg <= s /\ s < call.end
  BY <1>1, InsertLabels
<1>3. ExtentsOK' /\ Len(extents') = Len(extents) /\ Len(extents) \in Nat
  BY DEF LabelsInv, ExtentsOK
<1>4. \A v, s : Carries(v, s) => Carries(v, s)'
  BY DEF Carries, HasSector, SpansOf
<1>5. \A s \in Nat : \A v \in P!OwnersIn(spans', s) : Carries(v, s)'
  BY <1>1, <1>2, <1>4 DEF LabelsInv
<1>6. \A c \in DOMAIN spans' :
        /\ spans'[c].val \in 0 .. Len(extents')
        /\ spans'[c].val = Len(extents') => pc' \in {"spans", "zero"}
  BY <1>1, <1>2, <1>3 DEF LabelsInv
<1>7. loop' = "insert" =>
        /\ call'.val = Len(extents')
        /\ \A s \in Nat : call'.beg <= s /\ s < call'.end => Carries(Len(extents), s)'
  BY <1>1, <1>4
<1>8. pc' = "spans" => todo' \subseteq SpansOf(Head(queue'))
  BY DEF LabelsInv
<1> QED
  BY <1>3, <1>5, <1>6, <1>7, <1>8 DEF LabelsInv, P!OwnersIn

\* pushing the extent that the labels of the last spans stand for
LEMMA PushLabels ==
  ASSUME LabelsInv, loop = "none", NEW ex, SoundExtent(ex),
         extents' = Append(extents, ex), UNCHANGED <<spans, loop>>,
         pc' \notin {"spans", "zero"},
         \A s \in Nat : Len(extents) \in P!OwnersIn(spans, s) => HasSector(ex, s)
  PROVE  LabelsInv'
<1>1. PICK S : extents \in Seq(S)
  BY DEF LabelsInv, ExtentsOK
<1>2. /\ Len(extents) \in Nat /\ DOMAIN extents = 1 .. Len(extents)
      /\ \A j \in DOMAIN extents : SoundExtent(extents[j])
  BY DEF LabelsInv, ExtentsOK
<1>3. /\ Len(extents') = Len(extents) + 1 /\ DOMAIN extents' = 1 .. Len(extents) + 1
      /\ \A j \in 1 .. Len(extents) : extents'[j] = extents[j]
      /\ extents'[Len(extents) + 1] = ex
      /\ extents' \in Seq(S \cup {ex})
  <2> DEFINE T == S \cup {ex}
  <2>1. extents \in Seq(T) /\ ex \in T
    BY <1>1
  <2> HIDE DEF T
  <2>2. extents' \in Seq(T) /\ Len(extents') = Len(extents) + 1
        /\ \A j \in 1 .. Len(extents) : extents'[j] = extents[j]
        /\ extents'[Len(extents) + 1] = ex
    BY <2>1
  <2>3. DOMAIN extents' = 1 .. Len(extents')
    BY <2>2
  <2> QED
    BY <1>2, <2>2, <2>3 DEF T
<1>4. ExtentsOK'
  <2>1. \A j \in DOMAIN extents' : SoundExtent(extents'[j])
    <3> TAKE j \in DOMAIN extents'
    <3>1. j \in 1 .. Len(extents) \/ j = Len(extents) + 1
      BY <1>2, <1>3
    <3> QED
      BY <1>2, <1>3, <3>1
  <2> QED
    BY <1>2, <1>3, <2>1 DEF ExtentsOK
<1>5. \A b \in DOMAIN spans : spans[b].val \in 0 .. Len(extents') /\ spans[b].val # Len(extents')
  BY <1>2, <1>3 DEF LabelsInv
<1>6. \A s \in Nat : \A v \in P!OwnersIn(spans, s) : Carries(v, s)'
  <2> SUFFICES ASSUME NEW s \in Nat, NEW v \in P!OwnersIn(spans, s)
               PROVE  Carries(v, s)'
    OBVIOUS
  <2>1. v \in 0 .. Len(extents) /\ v # Len(extents')
    BY <1>5, OwnersAreVals DEF LabelsInv
  <2>2. CASE v < Len(extents)
    <3>1. HasSector(extents[v + 1], s) /\ v + 1 \in 1 .. Len(extents)
      BY <1>2, <2>1, <2>2 DEF LabelsInv, Carries
    <3>2. HasSector(extents'[v + 1], s)
      BY <1>3, <3>1
    <3>3. HasSector(extents[v + 1], s)'
      BY Zenon, <3>2 DEF HasSector, SpansOf
    <3> QED
      BY <2>1, <3>3 DEF Carries
  <2>3. CASE v = Len(extents)
    <3>1. HasSector(extents'[v + 1], s)
      BY <1>3, <2>3
    <3>2. HasSector(extents[v + 1], s)'
      BY Zenon, <3>1 DEF HasSector, SpansOf
    <3> QED
      BY <2>1, <3>2 DEF Carries
  <2>4. v < Len(extents) \/ v = Len(extents)
    <3>1. \A a \in Nat : \A x \in 0 .. a : x < a \/ x = a
      OBVIOUS
    <3> QED
      BY Zenon, <1>2, <2>1, <3>1
  <2> QED
    BY <2>2, <2>3, <2>4
<1> QED
  BY <1>4, <1>5, <1>6 DEF LabelsInv, P!OwnersIn

LEMMA EndExtentLabels ==
  ASSUME LabelsInv, OpenInv, Counted, EndExtent
  PROVE  LabelsInv'
<1>1. /\ pc = "spans" /\ loop = "none" /\ IsQueue(queue) /\ queue # <<>>
      /\ extents' = Append(extents, Head(queue)) /\ UNCHANGED <<spans, loop>>
      /\ pc' \notin {"spans", "zero"}
  BY DEF EndExtent, Counted, mapVars
<1>2. SoundExtent(Head(queue))
  <2>1. PICK S : queue \in Seq(S)
    BY <1>1 DEF IsQueue
  <2>2. 1 \in DOMAIN queue /\ Head(queue) = queue[1]
    BY <1>1, <2>1
  <2> QED
    BY <1>1, <2>2 DEF IsQueue
<1>3. \A s \in Nat : Len(extents) \in P!OwnersIn(spans, s) => HasSector(Head(queue), s)
  BY <1>1 DEF LabelsInv, Carries
<1> QED
  BY <1>1, <1>2, <1>3, PushLabels

LEMMA EndFillLabels ==
  ASSUME LabelsInv, OpenInv, EndFill
  PROVE  LabelsInv'
<1>1. PICK lb \in DOMAIN uncovered :
        extents' = Append(extents, [start_sector |-> lb,
                                     sectors |-> uncovered[lb] - lb,
                                     storage |-> [kind |-> "zero"]])
  BY DEF EndFill
<1>2. /\ lb \in Nat /\ uncovered[lb] \in Nat /\ lb <= uncovered[lb]
  BY MapTypes DEF OpenInv
<1> DEFINE ex == [start_sector |-> lb, sectors |-> uncovered[lb] - lb,
                  storage |-> [kind |-> "zero"]]
<1>3. SoundExtent(ex) /\ \A s : HasSector(ex, s)
  BY <1>2 DEF SoundExtent, HasSector
<1>4. loop = "none" /\ UNCHANGED <<spans, loop>> /\ pc' \notin {"spans", "zero"}
  BY DEF EndFill
<1> HIDE DEF ex
<1>5. extents' = Append(extents, ex)
  BY <1>1 DEF ex
<1> QED
  BY <1>3, <1>4, <1>5, PushLabels

-----------------------------------------------------------------------------
(***************************************************************************)
(* The spans of an open reader.                                            *)
(***************************************************************************)

\* the span at k has the byte
At(k, off) == vec[k].beg <= off /\ off < vec[k].end

SpanOK(k) ==
  /\ vec[k].beg \in Nat /\ vec[k].end \in Nat /\ vec[k].beg <= vec[k].end
  /\ vec[k].ex \in 0 .. Len(extents) - 1
  /\ \A off \in Nat : At(k, off) => HasSector(extents[vec[k].ex + 1], off \div SectorSize)

Ordered ==
  \A j, k \in DOMAIN vec : j < k => vec[j].beg < vec[k].beg /\ vec[j].end <= vec[k].beg

\* the spans are in order, and have every byte of the image
Tiles ==
  /\ \E S : vec \in Seq(S)
  /\ vec # <<>> /\ vec[1].beg = 0
  /\ \A k \in DOMAIN vec : SpanOK(k)
  /\ Ordered
  /\ Size \in Nat
  /\ \A off \in Nat : off < Size => \E k \in DOMAIN vec : At(k, off)

VecInv == pc \in {"ready", "read", "answered"} => Tiles

\* where the first spans end, the next one starts
LEMMA SpanAt ==
  ASSUME Tiles, NEW k \in DOMAIN vec, vec[k].end < Size
  PROVE  /\ k + 1 \in DOMAIN vec
         /\ vec[k + 1].beg = vec[k].end /\ vec[k].end < vec[k + 1].end
<1>1. PICK S : vec \in Seq(S)
  BY DEF Tiles
<1>2. DOMAIN vec = 1 .. Len(vec) /\ Len(vec) \in Nat
  BY <1>1
<1>3. \A j \in DOMAIN vec : vec[j].beg \in Nat /\ vec[j].end \in Nat /\ vec[j].beg <= vec[j].end
  BY DEF Tiles, SpanOK
<1>4. PICK j \in DOMAIN vec : vec[j].beg <= vec[k].end /\ vec[k].end < vec[j].end
  BY <1>3 DEF Tiles, At
<1>5. j > k
  <2>1. CASE j = k
    BY <1>3, <1>4, <2>1
  <2>2. CASE j < k
    <3>1. vec[j].end <= vec[k].beg
      BY <2>2 DEF Tiles, Ordered
    <3> QED
      BY <1>3, <1>4, <3>1
  <2> QED
    BY <1>2, <2>1, <2>2
<1>6. k + 1 \in DOMAIN vec /\ k < k + 1 /\ (j = k + 1 \/ k + 1 < j)
  BY <1>2, <1>5
<1>7. vec[k].end <= vec[k + 1].beg
  BY <1>6 DEF Tiles, Ordered
<1>8. j = k + 1
  <2>1. ASSUME k + 1 < j
        PROVE  FALSE
    <3>1. vec[k + 1].beg < vec[j].beg
      BY <1>6, <2>1 DEF Tiles, Ordered
    <3> QED
      BY <1>3, <1>4, <1>6, <1>7, <3>1
  <2> QED
    BY <1>6, <2>1
<1> QED
  BY <1>3, <1>4, <1>6, <1>7, <1>8

\* The last span reaches the end of the image.
LEMMA LastSpan ==
  ASSUME Tiles
  PROVE  Len(vec) \in DOMAIN vec /\ vec[Len(vec)].end >= Size
<1>1. PICK S : vec \in Seq(S)
  BY DEF Tiles
<1>2. DOMAIN vec = 1 .. Len(vec) /\ Len(vec) \in Nat /\ Len(vec) # 0
  BY <1>1 DEF Tiles
<1>3. Len(vec) \in DOMAIN vec /\ Len(vec) + 1 \notin DOMAIN vec
  BY <1>2
<1>4. vec[Len(vec)].end \in Nat /\ Size \in Nat
  BY <1>3 DEF Tiles, SpanOK
<1> QED
  BY <1>3, <1>4, SpanAt

\* what open() makes of its map
LEMMA OpensTiles ==
  ASSUME OpenInv, LabelsInv, Opened
  PROVE  Tiles'
<1> DEFINE key == Keys(spans)
           N == Cardinality(DOMAIN spans)
<1> HIDE DEF N, key
<1>1. /\ pc = "fill" /\ DOMAIN uncovered = {} /\ pc' = "ready"
      /\ vec' = [k \in DOMAIN key |-> [beg |-> key[k] * SectorSize,
                                      end |-> spans[key[k]].end * SectorSize,
                                      ex  |-> spans[key[k]].val]]
      /\ UNCHANGED <<imageSize, extents>>
  BY DEF Opened, key, openVars
<1>2. MapsOK /\ IsFiniteSet(DOMAIN spans) /\ DOMAIN spans \subseteq Nat
  <2>1. MapsOK
    BY DEF OpenInv
  <2> QED
    BY <2>1, MapTypes DEF MapsOK
<1>3. /\ N \in Nat /\ DOMAIN key = 1 .. N
      /\ \A k \in 1 .. N : key[k] \in DOMAIN spans
      /\ \A j, k \in 1 .. N : j < k => key[j] < key[k]
      /\ \A b \in DOMAIN spans : \E k \in 1 .. N : key[k] = b
  BY <1>2, KeysInOrder DEF key, N
<1>4. \A c \in DOMAIN spans : c \in Nat /\ spans[c].end \in Nat /\ c <= spans[c].end
  BY <1>2, MapTypes
<1>5. PICK n \in Nat : imageSize = <<n * SectorSize>> /\ Covered(n)
  BY <1>1 DEF OpenInv
<1>6. /\ \A s \in Nat : s < n => \E c \in DOMAIN spans : c <= s /\ s < spans[c].end
      /\ 0 \in DOMAIN spans
  BY <1>1, <1>5 DEF Covered, Owned, P!HeldIn, P!OwnersIn
<1>7. SectorSize \in Nat /\ SectorSize > 0
  BY StorageAssumption
<1>8. Size' = n * SectorSize /\ Size' \in Nat
  BY <1>1, <1>5, <1>7 DEF Size
<1>9. DOMAIN vec' = 1 .. N
  BY <1>1, <1>3
<1>10. \A k \in 1 .. N :
         /\ vec'[k].beg = key[k] * SectorSize /\ vec'[k].end = spans[key[k]].end * SectorSize
         /\ vec'[k].ex = spans[key[k]].val
         /\ key[k] \in Nat /\ spans[key[k]].end \in Nat /\ key[k] <= spans[key[k]].end
  BY <1>1, <1>3, <1>4
<1>11. \A k \in 1 .. N : \A off \in Nat :
         At(k, off)' <=> key[k] <= off \div SectorSize /\ off \div SectorSize < spans[key[k]].end
  <2> SUFFICES ASSUME NEW k \in 1 .. N, NEW off \in Nat
               PROVE  At(k, off)' <=> /\ key[k] <= off \div SectorSize
                                      /\ off \div SectorSize < spans[key[k]].end
    OBVIOUS
  <2>1. PICK a \in Nat, b \in Nat : a = key[k] /\ b = spans[key[k]].end
    BY <1>10
  <2>2. /\ off \div SectorSize \in Nat
        /\ a <= off \div SectorSize <=> a * SectorSize <= off
        /\ b <= off \div SectorSize <=> b * SectorSize <= off
    BY <1>7, QuotientBounds
  <2>3. b * SectorSize \in Nat
    BY <1>7
  <2>4. vec'[k].beg = a * SectorSize /\ vec'[k].end = b * SectorSize
    BY <1>10, <2>1
  <2>5. At(k, off)' <=> a * SectorSize <= off /\ off < b * SectorSize
    BY <2>4 DEF At
  <2>6. off < b * SectorSize <=> off \div SectorSize < b
    BY <2>2, <2>3
  <2> QED
    BY <2>1, <2>2, <2>5, <2>6
<1>12. \A a, b \in Nat : a <= b => a * SectorSize <= b * SectorSize
  <2> SUFFICES ASSUME NEW a \in Nat, NEW b \in Nat, a <= b
               PROVE  a * SectorSize <= b * SectorSize
    OBVIOUS
  <2>1. b * SectorSize \in Nat
    BY <1>7
  <2>2. b <= (b * SectorSize) \div SectorSize /\ (b * SectorSize) \div SectorSize \in Nat
    BY <1>7, <2>1, QuotientBounds
  <2>3. a <= (b * SectorSize) \div SectorSize
    BY <2>2
  <2> QED
    BY <1>7, <2>1, <2>3, QuotientBounds
<1>13. \A a, b \in Nat : a < b => a * SectorSize < b * SectorSize
  <2> SUFFICES ASSUME NEW a \in Nat, NEW b \in Nat, a < b
               PROVE  a * SectorSize < b * SectorSize
    OBVIOUS
  <2>1. (a + 1) * SectorSize = a * SectorSize + SectorSize /\ a * SectorSize \in Nat
    BY <1>7
  <2>2. (a + 1) * SectorSize <= b * SectorSize
    BY <1>12
  <2> QED
    BY <1>7, <2>1, <2>2
<1>14. ASSUME NEW k \in 1 .. N
       PROVE  SpanOK(k)'
  <2>0. PICK a \in Nat, b \in Nat, v \in Nat :
          /\ a = key[k] /\ b = spans[key[k]].end /\ v = spans[key[k]].val /\ a <= b
          /\ v < Len(extents) /\ Len(extents) \in Nat
    <3>1. Len(extents) \in Nat /\ spans[key[k]].val \in 0 .. Len(extents)
          /\ spans[key[k]].val # Len(extents)
      BY <1>1, <1>3 DEF LabelsInv, ExtentsOK
    <3>2. \A l \in Nat : \A x \in 0 .. l : x # l => x \in Nat /\ x < l
      OBVIOUS
    <3> QED
      BY Zenon, <1>10, <3>1, <3>2
  <2>1. /\ vec'[k].beg = a * SectorSize /\ vec'[k].end = b * SectorSize /\ vec'[k].ex = v
        /\ a * SectorSize \in Nat /\ b * SectorSize \in Nat /\ a * SectorSize <= b * SectorSize
    <3>1. a * SectorSize \in Nat /\ b * SectorSize \in Nat
      BY <1>7
    <3>2. a * SectorSize <= b * SectorSize
      BY <1>12, <2>0
    <3>3. vec'[k].beg = a * SectorSize /\ vec'[k].end = b * SectorSize /\ vec'[k].ex = v
      BY <1>10, <2>0
    <3> QED
      BY <3>1, <3>2, <3>3
  <2>2. v \in 0 .. Len(extents) - 1
    BY <2>0
  <2>3. ASSUME NEW off \in Nat, At(k, off)'
        PROVE  HasSector(extents'[v + 1], off \div SectorSize)
    <3>1. off \div SectorSize \in Nat
      BY <1>7
    <3>2. v \in P!OwnersIn(spans, off \div SectorSize)
      <4>1. key[k] <= off \div SectorSize /\ off \div SectorSize < spans[key[k]].end
        BY <1>11, <2>3
      <4> QED
        BY <1>3, <2>0, <4>1 DEF P!OwnersIn
    <3>3. Carries(v, off \div SectorSize)
      BY <3>1, <3>2 DEF LabelsInv
    <3> QED
      BY <1>1, <2>0, <3>3 DEF Carries
  <2>4. ASSUME NEW off \in Nat, At(k, off)'
        PROVE  HasSector(extents[vec[k].ex + 1], off \div SectorSize)'
    BY <2>1, <2>3, <2>4 DEF HasSector, SpansOf
  <2> QED
    BY Zenon, <1>1, <2>1, <2>2, <2>4 DEF SpanOK
<1>15. Ordered'
  <2> SUFFICES ASSUME NEW j \in 1 .. N, NEW k \in 1 .. N, j < k
               PROVE  vec'[j].beg < vec'[k].beg /\ vec'[j].end <= vec'[k].beg
    BY <1>9 DEF Ordered
  <2>1. key[j] < key[k] /\ key[j] \in DOMAIN spans /\ key[k] \in DOMAIN spans
    BY <1>3
  <2>2. spans[key[j]].end <= key[k]
    BY <1>2, <2>1, MapTypes
  <2>3. PICK a \in Nat, b \in Nat, c \in Nat :
          a = key[j] /\ b = spans[key[j]].end /\ c = key[k] /\ a < c /\ b <= c
    BY <1>10, <2>1, <2>2
  <2>4. a * SectorSize < c * SectorSize /\ b * SectorSize <= c * SectorSize
    BY <1>12, <1>13, <2>3
  <2> QED
    BY <1>10, <2>3, <2>4
<1>16. \A off \in Nat : off < Size' => \E k \in 1 .. N : At(k, off)'
  <2> SUFFICES ASSUME NEW off \in Nat, off < n * SectorSize
               PROVE  \E k \in 1 .. N : At(k, off)'
    BY <1>8
  <2>1. off \div SectorSize \in Nat /\ off \div SectorSize < n
    <3>1. n * SectorSize \in Nat
      BY <1>7
    <3>2. off \div SectorSize \in Nat /\ (n <= off \div SectorSize <=> n * SectorSize <= off)
      BY <1>7, QuotientBounds
    <3> QED
      BY <3>1, <3>2
  <2>2. PICK c \in DOMAIN spans : c <= off \div SectorSize /\ off \div SectorSize < spans[c].end
    BY <1>6, <2>1
  <2>3. PICK k \in 1 .. N : key[k] = c
    BY <1>3
  <2> QED
    BY <1>11, <2>2, <2>3
<1>17. 1 \in 1 .. N /\ vec'[1].beg = 0
  <2>1. PICK k \in 1 .. N : key[k] = 0
    BY <1>3, <1>6
  <2>2. 1 \in 1 .. N /\ (k = 1 \/ 1 < k)
    BY <1>3, <2>1
  <2>3. key[1] \in Nat
    BY <1>10, <2>2
  <2>4. ASSUME 1 < k
        PROVE  FALSE
    <3>1. key[1] < key[k]
      BY <1>3, <2>2, <2>4
    <3> QED
      BY <2>1, <2>3, <3>1
  <2>5. key[1] = 0
    BY <2>1, <2>2, <2>4
  <2>6. 0 * SectorSize = 0
    BY <1>7
  <2> QED
    BY <1>10, <2>2, <2>5, <2>6
<1>18. \E S : vec' \in Seq(S)
  <2> DEFINE v == vec'
             T == {v[k] : k \in 1 .. N}
  <2>1. v = [k \in 1 .. N |-> v[k]]
    BY <1>1, <1>3
  <2> HIDE DEF v
  <2>2. v \in [1 .. N -> T]
    BY <2>1
  <2> HIDE DEF T
  <2>3. v \in Seq(T)
    BY <1>3, <2>2
  <2> QED
    BY <2>3 DEF v
<1>19. vec' # <<>>
  <2>1. DOMAIN << >> = {}
    OBVIOUS
  <2> QED
    BY Zenon, <1>9, <1>17, <2>1
<1> QED
  BY <1>8, <1>9, <1>14, <1>15, <1>16, <1>17, <1>18, <1>19 DEF Tiles

-----------------------------------------------------------------------------
(***************************************************************************)
(* read_at_offset().                                                       *)
(***************************************************************************)

\* what a storage returns is no more than what it is asked for
IsPart(bytes, n) == (\E S : bytes \in Seq(S)) /\ Len(bytes) \in 0 .. n

LEMMA BytesAre ==
  ASSUME NEW n \in Nat, NEW f
  PROVE  IsPart([k \in 1 .. n |-> f[k]], n)
<1> DEFINE v == [k \in 1 .. n |-> f[k]]
           T == {f[k] : k \in 1 .. n}
<1>1. v \in [1 .. n -> T]
  OBVIOUS
<1> HIDE DEF v, T
<1>2. v \in Seq(T) /\ Len(v) = n
  BY <1>1
<1> QED
  BY <1>2 DEF v, IsPart

LEMMA ZerosFit ==
  ASSUME NEW n \in Nat
  PROVE  IsPart(Zeros(n).bytes, n)
<1> DEFINE f == [k \in 1 .. n |-> ZeroByte]
<1>1. Zeros(n).bytes = [k \in 1 .. n |-> f[k]]
  BY DEF Zeros, Got
<1> HIDE DEF f
<1> QED
  BY <1>1, BytesAre

LEMMA ReadFits ==
  ASSUME NEW n \in Nat, NEW src, NEW pos, ReadAt(src, pos, n).outcome = "bytes"
  PROVE  IsPart(ReadAt(src, pos, n).bytes, n)
<1> DEFINE f == [k \in 1 .. n |-> <<src.file, pos + k - 1>>]
<1>1. ReadAt(src, pos, n).bytes = [k \in 1 .. n |-> f[k]]
  BY Zenon DEF ReadAt, Got, IoError
<1> HIDE DEF f
<1> QED
  BY <1>1, BytesAre

LEMMA InflateFits ==
  ASSUME NEW n \in Nat, NEW src, NEW sector, NEW grainSize, NEW d,
         Inflate(src, sector, grainSize, d, n).outcome = "bytes"
  PROVE  IsPart(Inflate(src, sector, grainSize, d, n).bytes, n)
<1> DEFINE f == [k \in 1 .. n |-> <<src.file, sector, d + k - 1>>]
<1>1. Inflate(src, sector, grainSize, d, n).bytes = [k \in 1 .. n |-> f[k]]
  BY Zenon DEF Inflate, Got, IoError
<1> HIDE DEF f
<1> QED
  BY <1>1, BytesAre

LEMMA PieceFits ==
  ASSUME NEW st, st.kind \in {"sparse", "flat", "zero"},
         st.kind = "sparse" => st.grain_size \in Nat,
         NEW src, NEW off \in Nat, NEW n \in Nat,
         StorageRead(st, src, off, n).outcome = "bytes"
  PROVE  IsPart(StorageRead(st, src, off, n).bytes, n)
<1>1. CASE st.kind = "sparse"
  <2> DEFINE grainSize == st.grain_size * SectorSize
             d == off % grainSize
             r == Min({grainSize - d, n})
             index == off \div grainSize
             sector == st.grain_table[index]
  <2>1. /\ SparseRead(st, src, off, n).outcome = "bytes"
        /\ StorageRead(st, src, off, n) = SparseRead(st, src, off, n)
    BY <1>1 DEF StorageRead
  <2>2. grainSize # 0
    BY <2>1 DEF SparseRead, Panic
  <2>3. grainSize \in Nat /\ grainSize > 0
    <3>1. st.grain_size \in Nat /\ SectorSize \in Nat
      BY <1>1, StorageAssumption
    <3>2. \A a, b \in Nat : a * b \in Nat
      OBVIOUS
    <3>3. grainSize \in Nat
      BY <3>1, <3>2
    <3> QED
      BY <2>2, <3>3
  <2> HIDE DEF grainSize
  <2>4. grainSize - d \in Nat
    BY <2>3
  <2> HIDE DEF d
  <2>5. r \in Nat /\ r <= n
    BY <2>4, MinOfTwo
  <2> HIDE DEF r, index
  <2>6. \/ SparseRead(st, src, off, n) = Zeros(r)
        \/ SparseRead(st, src, off, n) = Inflate(src, sector, grainSize, d, r)
        \/ SparseRead(st, src, off, n) = ReadAt(src, sector * SectorSize + d, r)
    BY <2>1 DEF SparseRead, Panic, grainSize, d, r, index
  <2>7. IsPart(SparseRead(st, src, off, n).bytes, r)
    BY <2>1, <2>5, <2>6, ZerosFit, InflateFits, ReadFits
  <2> QED
    BY <2>1, <2>5, <2>7 DEF IsPart
<1>2. CASE st.kind = "flat"
  <2>1. /\ FlatRead(st, src, off, n).outcome = "bytes"
        /\ StorageRead(st, src, off, n) = FlatRead(st, src, off, n)
    BY <1>2 DEF StorageRead
  <2>2. FlatRead(st, src, off, n) = ReadAt(src, off - st.offset * SectorSize, n)
    BY <2>1 DEF FlatRead, IoError
  <2> QED
    BY <2>1, <2>2, ReadFits
<1>3. CASE st.kind = "zero"
  BY <1>3, ZerosFit DEF StorageRead
<1> QED
  BY <1>1, <1>2, <1>3

\* the state of a call: what is in the buffer is what the cursor has passed, and
\* the cursor is in the span at i
ReadInv ==
  /\ Len(buf) \in 0 .. MaxRead
  /\ pc = "read" =>
       /\ \E S : buf \in Seq(S)
       /\ req.off \in Nat /\ req.len \in 0 .. MaxRead
       /\ offset \in Nat /\ end \in Nat
       /\ offset <= end /\ end <= Size /\ end <= req.off + req.len
       /\ Len(buf) = offset - req.off
       /\ offset < end => i \in DOMAIN vec /\ At(i, offset)

LEMMA CallReads ==
  ASSUME Tiles, NEW off \in Nat, NEW len \in 0 .. MaxRead, NEW faulty, Call(off, len, faulty)
  PROVE  ReadInv'
<1> DEFINE before == {k \in DOMAIN vec : vec[k].beg <= off}
<1>1. /\ Size' = Size /\ vec' = vec /\ off <= Size
      /\ req' = [off |-> off, len |-> len, faulty |-> faulty]
      /\ offset' = off /\ end' = Min({off + len, Size}) /\ buf' = <<>>
  BY DEF Call, openVars, Size
<1>2. /\ Size \in Nat /\ MaxRead \in Nat /\ len \in Nat /\ Len(<<>>) = 0
      /\ \A k \in DOMAIN vec : vec[k].beg \in Nat /\ vec[k].end \in Nat
  BY MaxReadAssumption DEF Tiles, SpanOK
<1>3. end' = IF off + len <= Size THEN off + len ELSE Size
  BY <1>1, <1>2, MinOfTwo
<1>4. /\ offset' \in Nat /\ end' \in Nat /\ offset' <= end' /\ end' <= Size'
      /\ end' <= req'.off + req'.len /\ Len(buf') = offset' - req'.off
      /\ req'.off \in Nat /\ req'.len \in 0 .. MaxRead /\ Len(buf') \in 0 .. MaxRead
      /\ \E S : buf' \in Seq(S)
  <2>1. req'.off = off /\ req'.len = len
    BY <1>1
  <2>2. buf' \in Seq(Nat)
    BY <1>1
  <2>3. end' \in Nat /\ off <= end' /\ end' <= Size /\ end' <= off + len
    BY <1>1, <1>2, <1>3
  <2> QED
    BY <1>1, <1>2, <2>1, <2>2, <2>3
<1>5. ASSUME off < Size
      PROVE  i' \in DOMAIN vec /\ At(i', off)
  <2>1. PICK k \in DOMAIN vec : At(k, off)
    BY <1>5 DEF Tiles
  <2>2. k \in before /\ \A j \in before : j <= k
    <3>1. k \in before
      BY <2>1 DEF At
    <3>2. ASSUME NEW j \in before, ~(j <= k)
          PROVE  FALSE
      <4>1. DOMAIN vec \subseteq Nat
        BY DEF Tiles
      <4>2. k < j /\ j \in DOMAIN vec
        BY <3>2, <4>1
      <4>3. vec[k].end <= vec[j].beg /\ vec[j].beg <= off
        BY <3>2, <4>2 DEF Tiles, Ordered
      <4> QED
        BY <1>2, <2>1, <4>2, <4>3 DEF At
    <3> QED
      BY <3>1, <3>2
  <2>3. before \subseteq Nat
    BY DEF Tiles
  <2> HIDE DEF before
  <2>4. Max(before) = k
    <3>1. \A y \in before : Max(before) >= y
      BY <2>2, <2>3 DEF Max
    <3>2. Max(before) \in before
      BY <2>2, <2>3 DEF Max
    <3> QED
      BY <2>2, <2>3, <3>1, <3>2
  <2>5. i' = k
    BY <2>2, <2>4 DEF Call, before
  <2> QED
    BY <2>1, <2>5
<1>6. offset' < end' => i' \in DOMAIN vec' /\ At(i, offset)'
  <2>1. ASSUME offset' < end'
        PROVE  off < Size
    BY <1>1, <1>2, <1>4, <2>1
  <2> QED
    BY <1>1, <1>5, <2>1 DEF At
<1> QED
  BY <1>4, <1>6 DEF ReadInv

\* the piece of the request that is in the span at i
LEMMA PieceIsPart ==
  ASSUME Tiles, ExtentsOK, ReadInv, pc = "read", offset < end, Piece.outcome = "bytes"
  PROVE  /\ i \in DOMAIN vec /\ At(i, offset)
         /\ \E S : Piece.bytes \in Seq(S)
         /\ Len(Piece.bytes) \in Nat
         /\ offset + Len(Piece.bytes) <= end /\ offset + Len(Piece.bytes) <= vec[i].end
<1>1. /\ i \in DOMAIN vec /\ At(i, offset) /\ offset \in Nat /\ end \in Nat
      /\ vec[i].end \in Nat /\ offset < vec[i].end
  BY DEF ReadInv, Tiles, SpanOK, At
<1> DEFINE ex == extents[vec[i].ex + 1]
           st == ex.storage
           src == IF st.kind = "zero" THEN [file |-> "", len |-> 0, grains |-> <<>>]
                                      ELSE sources[st.source]
           n == Min({vec[i].end - offset, end - offset})
<1>2. n \in Nat /\ n <= vec[i].end - offset /\ n <= end - offset
  BY <1>1, MinOfTwo
<1>3. SoundExtent(ex)
  <2>1. vec[i].ex \in 0 .. Len(extents) - 1 /\ Len(extents) \in Nat
    BY <1>1 DEF Tiles, SpanOK, ExtentsOK
  <2>2. \A l \in Nat : \A x \in 0 .. l - 1 : x + 1 \in 1 .. l
    OBVIOUS
  <2>3. vec[i].ex + 1 \in DOMAIN extents
    BY <2>1, <2>2 DEF ExtentsOK
  <2> QED
    BY <2>3 DEF ExtentsOK
<1>4. Piece = StorageRead(st, src, offset, n)
  <2>1. ~(vec[i].end < offset)
    BY <1>1
  <2> QED
    BY Zenon, <1>1, <2>1 DEF Piece
<1> HIDE DEF st, src, n
<1>5. /\ st.kind \in {"sparse", "flat", "zero"}
      /\ st.kind = "sparse" => st.grain_size \in Nat
  BY <1>3 DEF SoundExtent, st
<1>6. IsPart(Piece.bytes, n)
  BY <1>1, <1>2, <1>4, <1>5, PieceFits
<1>7. /\ \E S : Piece.bytes \in Seq(S)
      /\ Len(Piece.bytes) \in 0 .. n
  BY <1>6 DEF IsPart
<1>8. \A o, e, m \in Nat : \A l \in 0 .. m : m <= e - o => l \in Nat /\ o + l <= e
  OBVIOUS
<1> QED
  BY <1>1, <1>2, <1>7, <1>8

LEMMA PieceReads ==
  ASSUME Tiles, ExtentsOK, ReadInv, ReadPiece
  PROVE  ReadInv'
<1>1. /\ pc = "read" /\ offset < end /\ Size' = Size /\ vec' = vec /\ req' = req /\ end' = end
  BY DEF ReadPiece, openVars, Size
<1>2. CASE Piece.outcome # "bytes"
  <2>1. buf' = buf /\ pc' # "read"
    BY <1>2 DEF ReadPiece, Answer
  <2> QED
    BY <2>1 DEF ReadInv
<1>3. CASE Piece.outcome = "bytes"
  <2> DEFINE l == Len(Piece.bytes)
  <2>1. /\ i \in DOMAIN vec /\ At(i, offset) /\ l \in Nat
        /\ offset + l <= end /\ offset + l <= vec[i].end
    BY <1>1, <1>3, PieceIsPart
  <2>2. PICK S : Piece.bytes \in Seq(S)
    BY <1>1, <1>3, PieceIsPart
  <2>3. /\ offset' = offset + l /\ buf' = buf \o Piece.bytes
        /\ i' = IF offset' >= vec[i].end THEN i + 1 ELSE i
    BY <1>3 DEF ReadPiece
  <2>4. PICK T : buf \in Seq(T)
    BY <1>1 DEF ReadInv
  <2>5. /\ req.off \in Nat /\ req.len \in 0 .. MaxRead
        /\ offset \in Nat /\ end \in Nat
        /\ end <= Size /\ end <= req.off + req.len
        /\ Len(buf) = offset - req.off
        /\ vec[i].beg \in Nat /\ vec[i].end \in Nat /\ vec[i].beg <= offset
        /\ Size \in Nat /\ MaxRead \in Nat
    BY Zenon, <1>1, <2>1, MaxReadAssumption DEF ReadInv, Tiles, SpanOK, At
  <2>6. buf' \in Seq(S \cup T) /\ Len(buf') = Len(buf) + l
    <3> DEFINE U == S \cup T
               p == Piece.bytes
    <3>1. buf \in Seq(U) /\ p \in Seq(U)
      BY <2>2, <2>4
    <3> HIDE DEF U, p
    <3>2. buf \o p \in Seq(U) /\ Len(buf \o p) = Len(buf) + Len(p)
      BY <3>1
    <3> QED
      BY <2>3, <3>2 DEF U, p
  <2> HIDE DEF l
  <2>7. /\ offset' \in Nat /\ offset' <= end /\ Len(buf') = offset' - req.off
        /\ Len(buf') \in 0 .. MaxRead
    <3>1. offset' \in Nat /\ offset' <= end /\ Len(buf') = offset' - req.off
      BY <2>1, <2>3, <2>5, <2>6
    <3>2. Len(buf') \in Nat
      BY <2>6
    <3> QED
      BY <2>5, <3>1, <3>2
  <2>8. ASSUME offset' < end
        PROVE  i' \in DOMAIN vec /\ vec[i'].beg <= offset' /\ offset' < vec[i'].end
    <3>1. CASE offset' >= vec[i].end
      <4>1. offset' <= vec[i].end /\ i' = i + 1
        BY <2>1, <2>3, <3>1
      <4>2. \A o, v, e, s \in Nat : o < e /\ e <= s /\ o >= v /\ o <= v => o = v /\ v < s
        OBVIOUS
      <4>3. offset' = vec[i].end /\ vec[i].end < Size
        BY <2>5, <2>7, <2>8, <3>1, <4>1, <4>2
      <4>4. i + 1 \in DOMAIN vec /\ vec[i + 1].beg = vec[i].end /\ vec[i].end < vec[i + 1].end
        BY <2>1, <4>3, SpanAt
      <4> QED
        BY <2>5, <4>1, <4>3, <4>4
    <3>2. CASE ~(offset' >= vec[i].end)
      BY <2>1, <2>3, <2>5, <2>7, <3>2
    <3> QED
      BY <3>1, <3>2
  <2>9. pc' = "read"
    BY <1>1, <1>3 DEF ReadPiece
  <2>10. offset' < end' => i' \in DOMAIN vec' /\ At(i, offset)'
    BY <1>1, <2>8 DEF At
  <2>11. \E R : buf' \in Seq(R)
    BY <2>6
  <2> QED
    BY <1>1, <2>5, <2>7, <2>10, <2>11 DEF ReadInv
<1> QED
  BY <1>2, <1>3

-----------------------------------------------------------------------------
(***************************************************************************)
(* The invariant of the reader.                                            *)
(***************************************************************************)

SourcesOK == \A k \in DOMAIN sources : sources[k].file \in DOMAIN disk.files

Outcomes ==
  /\ pc \in Opening \cup {"ready", "read", "answered", "failed", "panicked"}
  /\ ans.outcome \in {"none", "bytes", "error", "beyond"}

ReaderInv ==
  /\ Counted /\ SourcesOK /\ Outcomes
  /\ OpenInv /\ LabelsInv
  /\ VecInv /\ ReadInv

LEMMA ImageSources ==
  ASSUME Counted, SourcesOK, HandleImage
  PROVE  SourcesOK'
<1> DEFINE read == ReadImage
<1> HIDE DEF read
<1>1. CASE UNCHANGED <<sources, disk>>
  BY <1>1 DEF SourcesOK
<1>2. CASE read.outcome = "extents" /\ sources' = WithSources(current, read.files)
  <2>1. disk' = disk /\ disk \in Disks /\ idx \in Nat
    BY DEF HandleImage, Counted
  <2>2. /\ current \in DOMAIN disk.files
        /\ read = ReadExtents(current, disk.files[current].desc.eds,
                    disk.files[current].sig = "vmdk4"
                      /\ Len(disk.files[current].desc.eds) = 1, idx + 1)
    BY <1>2 DEF read, ReadImage
  <2>3. /\ Len(read.files) \in Nat /\ DOMAIN read.files = 1 .. Len(read.files)
        /\ \A j \in 1 .. Len(read.files) : read.files[j] \in DOMAIN disk.files
    BY Zenon, <1>2, <2>1, <2>2, ExtentsHaveFiles
  <2> DEFINE new == <<current>> \o read.files
             n == Len(read.files)
  <2>4. \A j \in 1 .. n + 1 : new[j] \in DOMAIN disk.files
    <3>1. new = [j \in 1 .. 1 + n |-> IF j <= 1 THEN current ELSE read.files[j - 1]]
      BY <2>3
    <3> HIDE DEF new
    <3>2. ASSUME NEW j \in 1 .. n + 1
          PROVE  new[j] \in DOMAIN disk.files
      <4>1. j \in 1 .. 1 + n /\ (j = 1 \/ (~(j <= 1) /\ j - 1 \in 1 .. n))
        BY <2>3
      <4>2. new[j] = IF j <= 1 THEN current ELSE read.files[j - 1]
        BY <3>1, <4>1
      <4>3. CASE j = 1
        <5>1. new[j] = current
          BY <4>2, <4>3
        <5> QED
          BY <2>2, <5>1
      <4>4. CASE ~(j <= 1) /\ j - 1 \in 1 .. n
        <5>1. new[j] = read.files[j - 1]
          BY <4>2, <4>4
        <5> QED
          BY <2>3, <4>4, <5>1
      <4> QED
        BY <4>1, <4>3, <4>4
    <3> QED
      BY <3>2
  <2> HIDE DEF new
  <2>5. /\ DOMAIN sources' = DOMAIN sources \cup idx .. idx + n
        /\ \A k \in DOMAIN sources' :
             sources'[k] = IF k < idx THEN sources[k]
                           ELSE [file |-> new[k - idx + 1],
                                 len |-> disk.files[new[k - idx + 1]].len,
                                 grains |-> disk.files[new[k - idx + 1]].grains]
    BY Zenon, <1>2 DEF WithSources, new
  <2>6. ASSUME NEW k \in DOMAIN sources'
        PROVE  sources'[k].file \in DOMAIN disk.files
    <3>1. DOMAIN sources \subseteq 0 .. idx - 1
      BY DEF Counted, HandleImage
    <3>2. CASE k \in DOMAIN sources
      <4>1. k < idx
        BY <2>1, <3>1, <3>2
      <4> QED
        BY Zenon, <2>5, <3>2, <4>1 DEF SourcesOK
    <3>3. CASE k \in idx .. idx + n
      <4>1. ~(k < idx) /\ k - idx + 1 \in 1 .. n + 1
        BY <2>1, <2>3, <3>3
      <4>2. new[k - idx + 1] \in DOMAIN disk.files
        BY <2>4, <4>1
      <4>3. sources'[k] = [file |-> new[k - idx + 1],
                           len |-> disk.files[new[k - idx + 1]].len,
                           grains |-> disk.files[new[k - idx + 1]].grains]
        BY <2>5, <4>1
      <4> QED
        BY <4>2, <4>3
    <3> QED
      BY <2>5, <3>2, <3>3
  <2> QED
    BY <2>1, <2>6 DEF SourcesOK
<1> QED
  BY <1>1, <1>2 DEF HandleImage, openVars, read

LEMMA InitReaderInv == ReaderInit => ReaderInv
<1> SUFFICES ASSUME ReaderInit
             PROVE  ReaderInv
  OBVIOUS
<1>1. Counted /\ SourcesOK /\ Outcomes
  BY DEF ReaderInit, Counted, SourcesOK, Outcomes, Opening, NoAns
<1>2. /\ pc = "image" /\ loop = "none" /\ spans = [b \in {} |-> 0]
      /\ uncovered = [b \in {} |-> 0] /\ sbeg = 0 /\ extents = <<>> /\ buf = <<>>
      /\ imageSize = <<>>
  BY DEF ReaderInit
<1>3. DOMAIN spans = {} /\ DOMAIN uncovered = {} /\ IsFiniteSet(DOMAIN spans)
  BY <1>2, FS_EmptySet
<1>4. MapsOK
  BY <1>2, <1>3 DEF MapsOK, P!IInv, P!TypeOK, P!Disjoint, P!DisjointIn, P!Cursor, P!ApartIn
<1>5. OpenInv
  BY <1>2, <1>4 DEF OpenInv, Swept, PiecesOK
<1>6. LabelsInv
  <2>1. extents \in Seq({}) /\ Len(extents) = 0 /\ DOMAIN extents = {}
    BY <1>2
  <2>2. ExtentsOK
    BY <2>1 DEF ExtentsOK
  <2>3. \A s \in Nat : P!OwnersIn(spans, s) = {}
    BY <1>3 DEF P!OwnersIn
  <2> QED
    BY <1>2, <1>3, <2>2, <2>3 DEF LabelsInv
<1>7. VecInv /\ ReadInv
  <2>1. Len(buf) = 0
    BY <1>2
  <2> QED
    BY <1>2, <2>1, MaxReadAssumption DEF VecInv, ReadInv
<1> QED
  BY <1>1, <1>5, <1>6, <1>7 DEF ReaderInv

\* the maps and their labels, in every step
LEMMA NextOpenInv ==
  ASSUME ReaderInv, [ReaderNext]_vars
  PROVE  OpenInv' /\ LabelsInv'
<1>0. Counted /\ OpenInv /\ LabelsInv /\ Len(extents) \in Nat
  BY DEF ReaderInv, LabelsInv, ExtentsOK
<1>1. CASE HandleImage
  <2>1. UNCHANGED <<spans, loop, call, extents>> /\ pc = "image" /\ pc' # "spans"
    BY <1>1 DEF HandleImage, openVars, mapVars
  <2> QED
    BY <1>0, <1>1, <2>1, ImageOpens, LabelsKept
<1>2. CASE BeginExtent
  BY <1>0, <1>2, ExtentOpens, ExtentLabels
<1>3. CASE InsertOne
  BY <1>0, <1>3, PieceOpens, PieceLabels
<1>4. CASE RunMaps
  <2>1. OpenInv'
    BY <1>0, <1>4, RunOpens
  <2>2. UNCHANGED <<extents, queue, todo, pc>> /\ pc = "spans" /\ MapsOK /\ Swept
    BY <1>0, <1>4 DEF RunMaps, openVars, OpenInv
  <2>3. CASE Maps!InsertSpan("remove")
    <3>1. loop' # "none" => call' = call
      BY <2>2, <2>3, InsertKeeps
    <3> QED
      BY <1>0, <2>1, <2>2, <2>3, <3>1, RunLabels
  <2>4. CASE Maps!RemoveSpan
    <3>1. spans' = spans /\ loop' # "insert"
      BY <2>2, <2>4, RemoveKeeps
    <3>2. LabelsInv'
      <4>1. ExtentsOK'
        BY <1>0, <2>2 DEF LabelsInv, ExtentsOK
      <4>2. \A v, s : Carries(v, s) => Carries(v, s)'
        BY <2>2 DEF Carries, HasSector, SpansOf
      <4>3. \A s \in Nat : \A v \in P!OwnersIn(spans, s) : Carries(v, s)'
        BY <1>0, <4>2 DEF LabelsInv
      <4>4. \A c \in DOMAIN spans : /\ spans[c].val \in 0 .. Len(extents')
                                    /\ spans[c].val = Len(extents') => pc' \in {"spans", "zero"}
        BY <1>0, <2>2 DEF LabelsInv
      <4>5. pc' = "spans" => todo' \subseteq SpansOf(Head(queue'))
        BY <1>0, <2>2 DEF LabelsInv
      <4> QED
        BY <3>1, <4>1, <4>3, <4>4, <4>5 DEF LabelsInv, P!OwnersIn
    <3> QED
      BY <2>1, <3>2
  <2> QED
    BY <1>4, <2>3, <2>4 DEF RunMaps
<1>5. CASE EndExtent
  <2>1. OpenInv'
    <3>1. /\ pc = "spans" /\ loop = "none" /\ pc' \in {"fill", "extents"}
          /\ UNCHANGED <<mapVars, todo, imageSize>>
      BY <1>5 DEF EndExtent
    <3>2. imageSize # <<>>
      BY <1>0, <3>1 DEF OpenInv
    <3> QED
      BY <1>0, <3>1, <3>2, OpenKept
  <2> QED
    BY <1>0, <1>5, <2>1, EndExtentLabels
<1>6. CASE FillZeros
  BY <1>0, <1>6, ZerosOpen, ZeroLabels
<1>7. CASE RunFill
  <2>1. OpenInv'
    BY <1>0, <1>7, RunFillOpens
  <2>2. /\ UNCHANGED <<extents, queue, todo, pc>> /\ pc = "zero" /\ MapsOK /\ Swept
        /\ Maps!InsertSpan("none")
    BY <1>0, <1>7 DEF RunFill, openVars, OpenInv
  <2>3. loop' # "none" => call' = call
    BY <2>2, InsertKeeps
  <2> QED
    BY <1>0, <2>1, <2>2, <2>3, RunLabels
<1>8. CASE EndFill
  BY <1>0, <1>8, EndFillOpens, EndFillLabels
<1>9. ASSUME UNCHANGED <<mapVars, todo, imageSize, extents, queue>>,
             pc' = pc \/ loop = "none",
             pc' \in {"spans", "zero"} \/ pc \in {"spans", "zero"} => pc' = pc,
             pc' \notin {"image", "failed", "panicked"} => imageSize # <<>>
      PROVE  OpenInv' /\ LabelsInv'
  <2>1. OpenInv'
    BY <1>0, <1>9, OpenKept
  <2>2. UNCHANGED <<spans, loop, call>>
    BY <1>9 DEF mapVars
  <2> QED
    BY <1>0, <1>9, <2>1, <2>2, LabelsKept
<1>10. /\ pc \notin {"spans", "zero"} => loop = "none"
       /\ pc \notin {"image", "failed", "panicked"} => imageSize # <<>>
  BY <1>0 DEF OpenInv
<1>11. CASE ImageFault
  BY <1>9, <1>10, <1>11 DEF ImageFault, openVars
<1>12. CASE NextImage
  BY <1>9, <1>10, <1>12 DEF NextImage
<1>13. CASE Opened
  BY <1>9, <1>10, <1>13 DEF Opened, openVars
<1>14. ASSUME NEW off, NEW len, NEW faulty, Refuse(off, len) \/ Call(off, len, faulty)
       PROVE  OpenInv' /\ LabelsInv'
  <2>1. UNCHANGED <<mapVars, todo, imageSize, extents, queue>> /\ pc = "ready"
        /\ pc' \in {"answered", "panicked", "read"}
    BY <1>14 DEF Refuse, Call, Answer, openVars
  <2> QED
    BY <1>9, <1>10, <2>1
<1>15. CASE ReadStep \/ Forget
  <2>1. UNCHANGED <<mapVars, todo, imageSize, extents, queue>> /\ pc \in {"read", "answered"}
        /\ pc' \in {"ready", "read", "answered", "panicked"}
    BY <1>15 DEF ReadStep, ReadPiece, ReadFault, Return, Forget, Answer, openVars
  <2> QED
    BY <1>9, <1>10, <2>1
<1>16. CASE UNCHANGED vars
  BY <1>9, <1>10, <1>16 DEF vars, openVars
<1> QED
  BY <1>1, <1>2, <1>3, <1>4, <1>5, <1>6, <1>7, <1>8, <1>11, <1>12, <1>13, <1>14, <1>15, <1>16
  DEF ReaderNext, OpenStep

\* the spans of an open reader stay as they are
LEMMA TilesKept ==
  ASSUME Tiles, UNCHANGED <<vec, imageSize, extents>>
  PROVE  Tiles'
<1>1. Size' = Size
  BY DEF Size
<1>2. \A k, off : At(k, off)' <=> At(k, off)
  BY DEF At
<1>3. \A k \in DOMAIN vec : SpanOK(k)'
  BY <1>2 DEF Tiles, SpanOK, HasSector, SpansOf
<1>4. Ordered'
  BY DEF Tiles, Ordered
<1> QED
  BY <1>1, <1>2, <1>3, <1>4 DEF Tiles

\* the spans of an open reader and the state of a call, in every step
LEMMA NextReadInv ==
  ASSUME ReaderInv, [ReaderNext]_vars
  PROVE  VecInv' /\ ReadInv'
<1>1. CASE pc \in Opening /\ UNCHANGED buf /\ pc' \in Opening \cup {"failed", "panicked"}
  BY <1>1 DEF VecInv, ReadInv, ReaderInv, Opening
<1>2. CASE OpenStep
  <2>1. CASE Opened
    <3>1. Tiles' /\ pc' = "ready" /\ buf' = buf
      BY <2>1, OpensTiles DEF ReaderInv, Opened, callVars
    <3> QED
      BY <3>1 DEF VecInv, ReadInv, ReaderInv
  <2>2. CASE HandleImage
    BY <1>1, <2>2 DEF HandleImage, readVars, callVars, Opening
  <2>3. CASE ImageFault \/ BeginExtent \/ InsertOne \/ RunMaps
    BY <1>1, <2>3 DEF ImageFault, BeginExtent, InsertOne, RunMaps, readVars, callVars, Opening
  <2>4. CASE EndExtent \/ NextImage \/ FillZeros \/ RunFill \/ EndFill
    BY <1>1, <2>4 DEF EndExtent, NextImage, FillZeros, RunFill, EndFill, readVars, callVars,
       Opening
  <2> QED
    BY <1>2, <2>1, <2>2, <2>3, <2>4 DEF OpenStep
<1>3. CASE pc = "ready" /\ \E off \in 0 .. Size + 1, len \in 0 .. MaxRead, faulty \in BOOLEAN :
                             Refuse(off, len) \/ Call(off, len, faulty)
  <2>1. PICK off \in 0 .. Size + 1, len \in 0 .. MaxRead, faulty \in BOOLEAN :
               Refuse(off, len) \/ Call(off, len, faulty)
    BY <1>3
  <2>2. Tiles /\ off \in Nat
    <3>1. Tiles
      BY <1>3 DEF ReaderInv, VecInv
    <3> QED
      BY <3>1 DEF Tiles
  <2>3. UNCHANGED <<vec, imageSize, extents>>
    BY <2>1 DEF Refuse, Call, openVars
  <2>4. VecInv'
    BY <2>2, <2>3, TilesKept DEF VecInv
  <2>5. CASE Refuse(off, len)
    BY <2>4, <2>5 DEF Refuse, Answer, ReadInv, ReaderInv, callVars
  <2>6. CASE Call(off, len, faulty)
    BY <2>2, <2>4, <2>6, CallReads
  <2> QED
    BY <2>1, <2>5, <2>6
<1>4. CASE ReadStep
  <2>1. Tiles /\ ReadInv /\ ExtentsOK /\ UNCHANGED <<vec, imageSize, extents>>
    BY <1>4 DEF ReadStep, ReadPiece, ReadFault, Return, openVars, ReaderInv, VecInv, LabelsInv
  <2>2. VecInv'
    BY <2>1, TilesKept DEF VecInv
  <2>3. CASE ReadPiece
    BY <2>1, <2>2, <2>3, PieceReads
  <2>4. CASE ReadFault \/ Return
    BY <2>1, <2>2, <2>4 DEF ReadFault, Return, Answer, ReadInv, callVars
  <2> QED
    BY <1>4, <2>3, <2>4 DEF ReadStep
<1>5. CASE Forget
  <2>1. Tiles /\ UNCHANGED <<vec, imageSize, extents>> /\ buf' = <<>> /\ pc' = "ready"
    BY <1>5 DEF Forget, openVars, ReaderInv, VecInv
  <2>2. Len(buf') = 0
    BY <2>1
  <2> QED
    BY <2>1, <2>2, TilesKept, MaxReadAssumption DEF VecInv, ReadInv
<1>6. CASE UNCHANGED vars
  <2>1. UNCHANGED <<pc, vec, imageSize, extents, req, callVars>>
    BY <1>6 DEF vars, openVars, readVars
  <2>2. VecInv'
    BY <2>1, TilesKept DEF VecInv, ReaderInv
  <2>3. ReadInv'
    BY <2>1 DEF ReadInv, ReaderInv, callVars, At, Size
  <2> QED
    BY <2>2, <2>3
<1> QED
  BY <1>2, <1>3, <1>4, <1>5, <1>6 DEF ReaderNext

LEMMA NextReaderInv == ReaderInv /\ [ReaderNext]_vars => ReaderInv'
<1> SUFFICES ASSUME ReaderInv, [ReaderNext]_vars
             PROVE  ReaderInv'
  OBVIOUS
<1>1. Counted'
  BY StepCounted DEF ReaderInv
<1>2. OpenInv' /\ LabelsInv' /\ VecInv' /\ ReadInv'
  BY NextOpenInv, NextReadInv
<1>3. SourcesOK'
  <2>1. CASE HandleImage
    BY <2>1, ImageSources DEF ReaderInv
  <2>2. CASE UNCHANGED <<sources, disk>>
    BY <2>2 DEF ReaderInv, SourcesOK
  <2> QED
    BY Zenon, <2>1, <2>2 DEF ReaderNext, OpenStep, ImageFault, BeginExtent, InsertOne, RunMaps,
       EndExtent, NextImage, FillZeros, RunFill, EndFill, Opened, Refuse, Call, ReadStep,
       ReadPiece, ReadFault, Return, Forget, openVars, vars
<1>4. Outcomes'
  <2>1. CASE OpenStep
    <3>1. UNCHANGED ans
      BY <2>1 DEF OpenStep, HandleImage, ImageFault, BeginExtent, InsertOne, RunMaps,
         EndExtent, NextImage, FillZeros, RunFill, EndFill, Opened, readVars
    <3>2. pc' \in Opening \cup {"ready", "failed", "panicked"} \cup {pc}
      BY <2>1 DEF OpenStep, HandleImage, ImageFault, BeginExtent, InsertOne, RunMaps,
         EndExtent, NextImage, FillZeros, RunFill, EndFill, Opened, Opening
    <3> QED
      BY <3>1, <3>2 DEF Outcomes, ReaderInv
  <2>2. ASSUME NEW off, NEW len, NEW faulty, Refuse(off, len) \/ Call(off, len, faulty)
        PROVE  Outcomes'
    BY <2>2 DEF Refuse, Call, Answer, NoAns, Outcomes
  <2>3. CASE ReadStep \/ Forget \/ UNCHANGED vars
    BY <2>3 DEF ReadStep, ReadPiece, ReadFault, Return, Forget, Answer, NoAns, Outcomes,
       ReaderInv, vars, readVars
  <2> QED
    BY <2>1, <2>2, <2>3 DEF ReaderNext
<1> QED
  BY <1>1, <1>2, <1>3, <1>4 DEF ReaderInv

\* Every variable of the reader keeps its type.
THEOREM ReaderTypes == ReaderSpec => []ReaderTypeOK
<1>1. ReaderInv => ReaderTypeOK
  <2> SUFFICES ASSUME ReaderInv
               PROVE  ReaderTypeOK
    OBVIOUS
  <2>1. disk \in Disks /\ idx \in Nat
    BY DEF ReaderInv, Counted
  <2>2. \A b \in DOMAIN spans : spans[b].val \in 0 .. Len(extents)
    BY DEF ReaderInv, LabelsInv
  <2>3. Len(buf) <= MaxRead
    BY MaxReadAssumption DEF ReaderInv, ReadInv
  <2> QED
    BY <2>1, <2>2, <2>3 DEF ReaderInv, ReaderTypeOK, Outcomes, SourcesOK
<1> QED
  BY <1>1, InitReaderInv, NextReaderInv, PTL DEF ReaderSpec

\* The spans of an open reader tile the image.
THEOREM OpenReaderTiles == ReaderSpec => []SpansTile
<1>1. ReaderInv => SpansTile
  <2> SUFFICES ASSUME ReaderInv, pc = "ready"
               PROVE  /\ vec # <<>> /\ vec[1].beg = 0
                      /\ \A k \in 2 .. Len(vec) :
                           /\ vec[k - 1].end <= vec[k].beg
                           /\ vec[k - 1].end < Size => vec[k - 1].end = vec[k].beg
                      /\ vec[Len(vec)].end >= Size
    BY DEF SpansTile
  <2>1. Tiles
    BY DEF ReaderInv, VecInv
  <2>2. PICK S : vec \in Seq(S)
    BY <2>1 DEF Tiles
  <2>3. ASSUME NEW k \in 2 .. Len(vec)
        PROVE  /\ vec[k - 1].end <= vec[k].beg
               /\ vec[k - 1].end < Size => vec[k - 1].end = vec[k].beg
    <3>1. k \in DOMAIN vec /\ k - 1 \in DOMAIN vec /\ k - 1 < k /\ (k - 1) + 1 = k
      BY <2>2
    <3>2. vec[k - 1].end <= vec[k].beg
      BY <2>1, <3>1 DEF Tiles, Ordered
    <3>3. ASSUME vec[k - 1].end < Size
          PROVE  vec[k - 1].end = vec[k].beg
      <4>1. vec[(k - 1) + 1].beg = vec[k - 1].end
        BY <2>1, <3>1, <3>3, SpanAt
      <4> QED
        BY <3>1, <4>1
    <3> QED
      BY <3>2, <3>3
  <2>4. vec # <<>> /\ vec[1].beg = 0 /\ vec[Len(vec)].end >= Size
    BY <2>1, LastSpan DEF Tiles
  <2> QED
    BY <2>3, <2>4
<1> QED
  BY <1>1, InitReaderInv, NextReaderInv, PTL DEF ReaderSpec

\* A sparse extent that starts at sector 0 has the grain of every sector of its spans.
LEMMA GrainIsThere ==
  ASSUME NEW ex, SoundExtent(ex), ex.storage.kind = "sparse", ex.start_sector = 0,
         NEW off \in Nat, HasSector(ex, off \div SectorSize)
  PROVE  /\ off \div (ex.storage.grain_size * SectorSize) \in DOMAIN ex.storage.grain_table
         /\ ex.storage.grain_size * SectorSize # 0
<1>1. PICK g \in Nat : g = ex.storage.grain_size
  BY DEF SoundExtent
<1>2. PICK goff \in DOMAIN ex.storage.grain_table :
        /\ 0 + goff * g <= off \div SectorSize
        /\ off \div SectorSize < (0 + goff * g) + g
  BY <1>1 DEF HasSector, SpansOf
<1>3. goff \in Nat /\ SectorSize \in Nat /\ SectorSize > 0
  BY StorageAssumption DEF SoundExtent
<1> DEFINE s == off \div SectorSize
           m == g * SectorSize
           q == off \div m
<1>4. s \in Nat /\ goff * g \in Nat
  BY <1>3
<1>5. goff * g <= s /\ s < goff * g + g /\ goff * g + g = (goff + 1) * g
  BY <1>2, <1>3, <1>4
<1>6. g > 0 /\ m \in Nat /\ m > 0
  <2>1. g > 0
    BY <1>4, <1>5
  <2>2. \A a, b \in Nat : a > 0 /\ b > 0 => a * b \in Nat /\ a * b > 0
    OBVIOUS
  <2> QED
    BY <1>3, <2>1, <2>2
<1> HIDE DEF m
<1>7. \A a \in Nat : (a * g) * SectorSize = a * m /\ a * g \in Nat /\ a * m \in Nat
  BY <1>3, <1>6 DEF m
<1>8. goff * m <= off
  <2>1. (goff * g) * SectorSize <= off
    BY <1>3, <1>4, <1>5, QuotientBounds
  <2> QED
    BY <1>3, <1>7, <2>1
<1>9. ~((goff + 1) * m <= off)
  <2>1. (goff + 1) * g \in Nat /\ ~((goff + 1) * g <= s)
    BY <1>3, <1>4, <1>5, <1>7
  <2>2. ~(((goff + 1) * g) * SectorSize <= off)
    BY <1>3, <2>1, QuotientBounds
  <2> QED
    BY <1>3, <1>7, <2>2
<1>10. q \in Nat /\ goff <= q /\ ~(goff + 1 <= q)
  BY <1>3, <1>6, <1>8, <1>9, QuotientBounds
<1>11. q = goff
  BY <1>3, <1>10
<1> QED
  BY <1>1, <1>6, <1>11 DEF m

\* the piece of the request that is in the span at i can be read from its storage
LEMMA PieceIsThere ==
  ASSUME SparseFirst, Tiles, ExtentsOK, ReadInv, pc = "read", offset < end
  PROVE  Piece.outcome \in {"bytes", "error"}
<1>1. /\ i \in DOMAIN vec /\ At(i, offset) /\ offset \in Nat
      /\ vec[i].end \in Nat /\ offset < vec[i].end
  BY DEF ReadInv, Tiles, SpanOK, At
<1> DEFINE ex == extents[vec[i].ex + 1]
           st == ex.storage
           src == IF st.kind = "zero" THEN [file |-> "", len |-> 0, grains |-> <<>>]
                                      ELSE sources[st.source]
           n == Min({vec[i].end - offset, end - offset})
<1>2. Piece = StorageRead(st, src, offset, n)
  <2>1. ~(vec[i].end < offset)
    BY <1>1
  <2> QED
    BY Zenon, <1>1, <2>1 DEF Piece
<1>3. HasSector(ex, offset \div SectorSize)
  BY <1>1 DEF Tiles, SpanOK
<1>4. SoundExtent(ex)
  <2>1. vec[i].ex \in 0 .. Len(extents) - 1 /\ Len(extents) \in Nat
    BY <1>1 DEF Tiles, SpanOK, ExtentsOK
  <2>2. \A l \in Nat : \A x \in 0 .. l - 1 : x + 1 \in 1 .. l
    OBVIOUS
  <2>3. vec[i].ex + 1 \in DOMAIN extents
    BY <2>1, <2>2 DEF ExtentsOK
  <2> QED
    BY <2>3 DEF ExtentsOK
<1> HIDE DEF n, src, ex
<1>5. ASSUME st.kind = "sparse"
      PROVE  /\ offset \div (st.grain_size * SectorSize) \in DOMAIN st.grain_table
             /\ st.grain_size * SectorSize # 0
  <2>1. ex.start_sector = 0
    BY <1>4, <1>5 DEF SoundExtent
  <2> QED
    BY <1>1, <1>3, <1>4, <1>5, <2>1, GrainIsThere
<1>6. StorageRead(st, src, offset, n).outcome \in {"bytes", "error"}
  <2>1. CASE st.kind = "sparse"
    BY <1>5, <2>1 DEF StorageRead, SparseRead, Zeros, Inflate, ReadAt, Got, IoError
  <2>2. CASE st.kind = "flat"
    BY <2>2 DEF StorageRead, FlatRead, ReadAt, Got, IoError
  <2>3. CASE st.kind = "zero"
    BY <2>3 DEF StorageRead, Zeros, Got
  <2> QED
    BY <1>4, <2>1, <2>2, <2>3 DEF SoundExtent
<1> QED
  BY <1>2, <1>6

\* When the images begin with their sparse extent, if they have one, no read panics,
\* wherever the spans and the grains of the images begin and end and however often
\* the sources fail: each turn of the loop finds its span, and the grain that the
\* piece is in is in the table of its extent.  The run sparse_parts shows that the
\* assumption is needed.
THEOREM NoReadPanics ==
  ASSUME SparseFirst
  PROVE  ReaderSpec => ReadsDoNotPanic
<1>1. ASSUME ReaderInv, [ReaderNext]_vars, pc \in {"ready", "read"}, SparseFirst
      PROVE  pc' # "panicked"
  <2>1. Tiles /\ ExtentsOK /\ ReadInv
    BY <1>1 DEF ReaderInv, VecInv, LabelsInv
  <2>2. ASSUME NEW off \in 0 .. Size + 1, NEW len, NEW faulty,
               Refuse(off, len) \/ Call(off, len, faulty)
        PROVE  pc' # "panicked"
    <3>1. off \in Nat /\ 1 \in {k \in DOMAIN vec : vec[k].beg <= off}
      BY <2>1 DEF Tiles
    <3> QED
      BY <2>2, <3>1 DEF Refuse, Call, Answer
  <2>3. CASE ReadStep
    <3>1. ASSUME ReadPiece
          PROVE  Piece.outcome \in {"bytes", "error"}
      BY <1>1, <2>1, <3>1, PieceIsThere DEF ReadPiece
    <3> QED
      BY <1>1, <2>3, <3>1 DEF ReadStep, ReadPiece, ReadFault, Return, Answer
  <2>4. CASE OpenStep \/ Forget
    BY <1>1, <2>4 DEF OpenStep, HandleImage, ImageFault, BeginExtent, InsertOne, RunMaps,
       EndExtent, NextImage, FillZeros, RunFill, EndFill, Opened, Forget
  <2> QED
    BY <1>1, <2>2, <2>3, <2>4 DEF ReaderNext, vars
<1>2. ReaderInv /\ [ReaderNext]_vars => [pc' = "panicked" => pc \notin {"ready", "read"}]_vars
  BY <1>1
<1> QED
  BY <1>2, InitReaderInv, NextReaderInv, PTL DEF ReaderSpec, ReadsDoNotPanic

-----------------------------------------------------------------------------
(***************************************************************************)
(* The extents that an image is made of are the pieces that DeltaDisk      *)
(* finds its bytes in.                                                     *)
(***************************************************************************)

\* what read_extents is given
SoundEds(eds) == eds \in Seq(ToSet(eds)) /\ \A j \in DOMAIN eds : eds[j].sectors \in Nat

\* the j-th extent has sector s
Placed(eds, j, s) ==
  j \in DOMAIN eds /\ StartsOf(eds)[j] <= s /\ s < StartsOf(eds)[j + 1]

LEMMA SumOfSectors ==
  ASSUME NEW eds, SoundEds(eds), NEW exs, NEW S, exs \in Seq(S), Len(exs) = Len(eds),
         \A j \in DOMAIN eds : exs[j].sectors = eds[j].sectors
  PROVE  SectorsOf(exs) = StartsOf(eds)[Len(eds) + 1]
<1> DEFINE n == Len(eds)
<1>1. /\ n \in Nat /\ DOMAIN eds = 1 .. n /\ DOMAIN exs = 1 .. n /\ Len(exs) = n
      /\ \A j \in DOMAIN eds : eds[j].sectors \in Nat /\ exs[j].sectors = eds[j].sectors
  BY DEF SoundEds
<1>2. /\ StartsOf(eds)[1] = 0
      /\ \A j \in DOMAIN eds : StartsOf(eds)[j + 1] = StartsOf(eds)[j] + eds[j].sectors
  BY Starts DEF SoundEds
<1>3. PICK sum : /\ sum[0] = 0 /\ SectorsOf(exs) = sum[Len(exs)]
                 /\ \A j \in DOMAIN exs : sum[j] = sum[j - 1] + exs[j].sectors
  <2>1. \A j \in DOMAIN exs : exs[j].sectors \in Nat
    BY <1>1
  <2> QED
    BY <2>1, SectorSums
<1> DEFINE T == {j \in 0 .. n : sum[j] = StartsOf(eds)[j + 1]}
<1> HIDE DEF n
<1>4. 0 \in T
  BY <1>1, <1>2, <1>3
<1>5. ASSUME NEW j \in 0 + 1 .. n, j - 1 \in T
      PROVE  j \in T
  <2>1. /\ j \in 0 .. n /\ j \in DOMAIN eds /\ j \in DOMAIN exs
        /\ sum[j - 1] = StartsOf(eds)[j] /\ (j - 1) + 1 = j
    BY <1>1, <1>5
  <2> QED
    BY <1>1, <1>2, <1>3, <2>1
<1> HIDE DEF T
<1>6. \A j \in 0 .. n : j \in T
  BY <1>1, <1>4, <1>5, IntervalInduction
<1>7. n \in 0 .. n
  BY <1>1
<1> QED
  BY <1>1, <1>3, <1>6, <1>7 DEF T, n

LEMMA StartsGrow ==
  ASSUME NEW eds, SoundEds(eds), NEW j \in 1 .. Len(eds) + 1, NEW k \in 1 .. Len(eds) + 1,
         j <= k
  PROVE  StartsOf(eds)[j] <= StartsOf(eds)[k]
<1> DEFINE n == Len(eds)
           T == {x \in j .. n + 1 : StartsOf(eds)[j] <= StartsOf(eds)[x]}
<1>1. /\ n \in Nat /\ DOMAIN eds = 1 .. n /\ n + 1 \in Nat
      /\ \A x \in DOMAIN eds : eds[x].sectors \in Nat
  BY DEF SoundEds
<1>2. /\ \A x \in 1 .. n + 1 : StartsOf(eds)[x] \in Nat
      /\ \A x \in DOMAIN eds : StartsOf(eds)[x + 1] = StartsOf(eds)[x] + eds[x].sectors
  BY Starts DEF SoundEds
<1>3. j \in Nat /\ j \in T
  BY <1>1, <1>2
<1>4. ASSUME NEW x \in j + 1 .. n + 1, x - 1 \in T
      PROVE  x \in T
  <2>1. x - 1 \in DOMAIN eds /\ (x - 1) + 1 = x /\ x \in j .. n + 1 /\ x \in 1 .. n + 1
        /\ x - 1 \in 1 .. n + 1
    BY <1>1
  <2>2. StartsOf(eds)[j] <= StartsOf(eds)[x - 1]
    BY <1>4
  <2>3. StartsOf(eds)[x] = StartsOf(eds)[x - 1] + eds[x - 1].sectors
    <3>1. StartsOf(eds)[(x - 1) + 1] = StartsOf(eds)[x - 1] + eds[x - 1].sectors
      BY <1>2, <2>1
    <3> QED
      BY <2>1, <3>1
  <2>4. /\ StartsOf(eds)[j] \in Nat /\ StartsOf(eds)[x - 1] \in Nat
        /\ eds[x - 1].sectors \in Nat
    BY <1>1, <1>2, <2>1
  <2>5. StartsOf(eds)[j] <= StartsOf(eds)[x]
    BY <2>2, <2>3, <2>4
  <2> QED
    BY <2>1, <2>5
<1> HIDE DEF T
<1>5. \A x \in j .. n + 1 : x \in T
  BY Zenon, <1>1, <1>3, <1>4, IntervalInduction
<1>6. k \in j .. n + 1
  BY <1>1
<1> QED
  BY <1>5, <1>6 DEF T

\* a sector of the image is in one extent
LEMMA ExtentAt ==
  ASSUME NEW eds, SoundEds(eds), NEW s \in Nat, s < StartsOf(eds)[Len(eds) + 1]
  PROVE  /\ \E j \in DOMAIN eds : Placed(eds, j, s)
         /\ \A j, k \in DOMAIN eds : Placed(eds, j, s) /\ Placed(eds, k, s) => j = k
<1> DEFINE n == Len(eds)
           T == {k \in 1 .. n + 1 : s < StartsOf(eds)[k]}
<1>1. n \in Nat /\ DOMAIN eds = 1 .. n
  BY DEF SoundEds
<1>2. StartsOf(eds)[1] = 0 /\ \A x \in 1 .. n + 1 : StartsOf(eds)[x] \in Nat
  BY Starts DEF SoundEds
<1>3. PICK k \in T : \A x \in T : k <= x
  <2>1. T \subseteq Nat /\ n + 1 \in T
    BY <1>1
  <2> HIDE DEF T
  <2> QED
    BY Zenon, <2>1, LeastElement
<1>4. k # 1 /\ k \in 1 .. n + 1 /\ s < StartsOf(eds)[k]
  BY <1>2
<1>5. k - 1 \in DOMAIN eds /\ k - 1 \in 1 .. n + 1 /\ k - 1 \notin T /\ (k - 1) + 1 = k
  BY <1>1, <1>3, <1>4
<1>6. Placed(eds, k - 1, s)
  BY <1>2, <1>4, <1>5 DEF Placed
<1>7. ASSUME NEW x \in DOMAIN eds, NEW y \in DOMAIN eds, x < y,
             Placed(eds, x, s), Placed(eds, y, s)
      PROVE  FALSE
  <2>1. x + 1 \in 1 .. n + 1 /\ y \in 1 .. n + 1 /\ x + 1 <= y
    BY <1>1, <1>7
  <2>2. StartsOf(eds)[x + 1] <= StartsOf(eds)[y]
    BY <2>1, StartsGrow
  <2> QED
    BY <1>2, <1>7, <2>1, <2>2 DEF Placed
<1>8. \A x, y \in DOMAIN eds : x = y \/ x < y \/ y < x
  BY <1>1
<1> QED
  BY <1>5, <1>6, <1>7, <1>8

-----------------------------------------------------------------------------
(***************************************************************************)
(* The tables of an extent that starts at sector 0 have the entries that   *)
(* DeltaDisk looks up.                                                     *)
(***************************************************************************)
LEMMA CurIs ==
  ASSUME NEW h, SoundHeader(h), NEW q \in 1 .. Len(h.l1)
  PROVE  /\ (q - 1) * h.l2_len \in Nat
         /\ CurSector(h, 0)[q] = IF (q - 1) * h.l2_len <= h.sectors
                                   THEN (q - 1) * h.l2_len ELSE h.sectors
<1> DEFINE n == Len(h.l1)
           l == h.l2_len
           cur == CurSector(h, 0)
           B(x) == (x - 1) * l
           Is(x) == cur[x] = IF B(x) <= h.sectors THEN B(x) ELSE h.sectors
           T == {x \in 1 .. n : Is(x)}
<1>1. n \in Nat /\ l \in Nat /\ h.sectors \in Nat
  BY DEF SoundHeader
<1>2. /\ \A x \in 1 .. n : cur[x] \in Nat
      /\ n # 0 => cur[1] = 0
      /\ \A x \in 2 .. n : cur[x] = cur[x - 1] + L2Len(h, 0, cur[x - 1])
  BY CurSectors
<1> HIDE DEF cur, n
<1>3. \A x \in 1 .. n : B(x) \in Nat /\ (x # 1 => B(x) = B(x - 1) + l)
  <2> TAKE x \in 1 .. n
  <2>1. x - 1 \in Nat
    BY <1>1
  <2>2. \A a, b \in Nat : a * b \in Nat
    OBVIOUS
  <2>3. \A a, b \in Nat : (a + 1) * b = a * b + b
    OBVIOUS
  <2>4. x # 1 => x - 2 \in Nat /\ (x - 2) + 1 = x - 1 /\ (x - 1) - 1 = x - 2
    BY <1>1
  <2>5. B(x) \in Nat
    BY <1>1, <2>1, <2>2
  <2>6. ASSUME x # 1
        PROVE  B(x) = B(x - 1) + l
    <3>1. ((x - 2) + 1) * l = (x - 2) * l + l
      BY Zenon, <1>1, <2>3, <2>4, <2>6
    <3>2. B(x) = ((x - 2) + 1) * l /\ B(x - 1) = (x - 2) * l
      BY Zenon, <2>4, <2>6
    <3> QED
      BY Zenon, <3>1, <3>2
  <2> QED
    BY <2>5, <2>6
<1>4. 1 \in T
  <2>1. n # 0 /\ 1 \in 1 .. n
    BY <1>1 DEF n
  <2>2. B(1) = 0
    BY <1>1
  <2> QED
    BY <1>1, <1>2, <2>1, <2>2
<1> HIDE DEF B
<1>5. ASSUME NEW x \in 1 + 1 .. n, x - 1 \in T
      PROVE  x \in T
  <2>1. x \in 1 .. n /\ x # 1 /\ x \in 2 .. n /\ x - 1 \in 1 .. n
    BY <1>1
  <2>2. /\ B(x) \in Nat /\ B(x - 1) \in Nat /\ B(x) = B(x - 1) + l
        /\ cur[x - 1] \in Nat /\ cur[x] = cur[x - 1] + L2Len(h, 0, cur[x - 1])
        /\ cur[x - 1] = IF B(x - 1) <= h.sectors THEN B(x - 1) ELSE h.sectors
    BY <1>2, <1>3, <1>5, <2>1
  <2>3. L2Len(h, 0, cur[x - 1]) = IF l <= h.sectors - (cur[x - 1] - 0)
                                    THEN l ELSE h.sectors - (cur[x - 1] - 0)
    <3>1. l \in Int /\ h.sectors - (cur[x - 1] - 0) \in Int
      BY <1>1, <2>2
    <3> QED
      BY <3>1, MinOfTwo DEF L2Len
  <2>4. Is(x)
    BY <1>1, <2>2, <2>3
  <2> HIDE DEF Is
  <2> QED
    BY <2>1, <2>4
<1> HIDE DEF T
<1>6. \A x \in 1 .. n : x \in T
  BY Zenon, <1>1, <1>4, <1>5, IntervalInduction
<1>7. Is(q)
  <2>1. q \in T
    BY <1>6 DEF n
  <2> QED
    BY <2>1 DEF T
<1>8. B(q) \in Nat
  BY <1>3 DEF n
<1> QED
  BY <1>7, <1>8 DEF B, cur

\* What both readers make of the level-2 tables that are there: the entry for the
\* k-th grain is at k, if there is one and it is before the end of the extent.
LEMMA CollectIs ==
  ASSUME NEW h, SoundHeader(h), h.l2_len # 0, NEW l2, DOMAIN l2 \subseteq DOMAIN h.l1,
         NEW absent, NEW k \in Nat,
         NEW c, c = Collect(h, 0, l2, absent)
  PROVE  LET q == (k \div h.l2_len) + 1
             r == k % h.l2_len
         IN  /\ k \in DOMAIN c <=> k < h.sectors /\ q \in DOMAIN l2 /\ l2[q][r + 1] # absent
             /\ k \in DOMAIN c => c[k] = l2[q][r + 1]
<1> DEFINE q == (k \div h.l2_len) + 1
           r == k % h.l2_len
           l == h.l2_len
           cur == CurSector(h, 0)
           found == {p \in (DOMAIN l2) \X (0 .. l - 1) :
                       /\ p[2] < L2Len(h, 0, cur[p[1]])
                       /\ l2[p[1]][p[2] + 1] # absent}
           Key(p) == cur[p[1]] + p[2]
<1>1. /\ l \in Nat \ {0} /\ h.sectors \in Nat /\ DOMAIN l2 \subseteq 1 .. Len(h.l1)
      /\ Len(h.l1) \in Nat
  BY DEF SoundHeader
<1>2. /\ DOMAIN c = {Key(p) : p \in found}
      /\ \A x \in DOMAIN c : c[x] = LET p == CHOOSE y \in found : Key(y) = x
                                    IN  l2[p[1]][p[2] + 1]
  BY Zenon DEF Collect
<1>3. q - 1 \in Nat /\ r \in 0 .. l - 1 /\ k = l * (q - 1) + r
  <2>1. \A a \in Nat : \A b \in Nat \ {0} :
          a \div b \in Nat /\ a % b \in 0 .. b - 1 /\ a = b * (a \div b) + (a % b)
    OBVIOUS
  <2>2. /\ k \div l \in Nat /\ k % l \in 0 .. l - 1
        /\ k = l * (k \div l) + (k % l)
    BY Zenon, <1>1, <2>1
  <2>3. q - 1 = k \div l
    BY <2>2
  <2> QED
    BY <2>2, <2>3
<1>0. q = (k \div l) + 1 /\ r = k % l
  OBVIOUS
<1> HIDE DEF cur, q, r
<1>4. ASSUME NEW p \in found, Key(p) = k
      PROVE  p[1] = q /\ p[2] = r /\ k < h.sectors
  <2>1. /\ p[1] \in 1 .. Len(h.l1) /\ p[2] \in 0 .. l - 1 /\ p[2] < L2Len(h, 0, cur[p[1]])
    BY <1>1
  <2> DEFINE b == (p[1] - 1) * l
  <2>2. b \in Nat /\ cur[p[1]] = IF b <= h.sectors THEN b ELSE h.sectors
    BY <2>1, CurIs DEF cur
  <2> HIDE DEF b
  <2>3. L2Len(h, 0, cur[p[1]]) = IF l <= h.sectors - (cur[p[1]] - 0)
                                   THEN l ELSE h.sectors - (cur[p[1]] - 0)
    <3>1. l \in Int /\ h.sectors - (cur[p[1]] - 0) \in Int
      BY <1>1, <2>2
    <3> QED
      BY <3>1, MinOfTwo DEF L2Len
  <2>4. cur[p[1]] = b /\ cur[p[1]] + p[2] < h.sectors
    BY <1>1, <2>1, <2>2, <2>3
  <2>5. k = l * (p[1] - 1) + p[2] /\ p[1] - 1 \in Nat
    <3>1. p[1] - 1 \in Nat
      BY <1>1, <2>1
    <3>2. \A x, y \in Nat : x * y = y * x
      OBVIOUS
    <3>3. b = l * (p[1] - 1)
      BY <1>1, <3>1, <3>2 DEF b
    <3> QED
      BY <1>4, <2>4, <3>1, <3>3
  <2>6. k \div l = p[1] - 1 /\ k % l = p[2]
    <3> DEFINE x == p[1] - 1
               y == p[2]
    <3>1. x \in Nat /\ y \in 0 .. l - 1 /\ k = l * x + y
      BY <2>1, <2>5
    <3> HIDE DEF x, y
    <3>2. k \div l = x /\ k % l = y
      BY Zenon, <1>1, <3>1, DivModOf
    <3> QED
      BY <3>2 DEF x, y
  <2>7. q = (p[1] - 1) + 1 /\ r = p[2]
    BY <1>0, <2>6
  <2> QED
    BY <1>4, <2>1, <2>4, <2>7
<1>5. ASSUME k < h.sectors, q \in DOMAIN l2, l2[q][r + 1] # absent
      PROVE  <<q, r>> \in found /\ Key(<<q, r>>) = k
  <2>1. q \in 1 .. Len(h.l1)
    BY <1>1, <1>5
  <2> DEFINE b == (q - 1) * l
  <2>2. b \in Nat /\ cur[q] = IF b <= h.sectors THEN b ELSE h.sectors
    BY <2>1, CurIs DEF cur
  <2>3. k = b + r
    <3>1. \A x, y \in Nat : x * y = y * x
      OBVIOUS
    <3>2. b = l * (q - 1)
      BY <1>1, <1>3, <3>1
    <3> QED
      BY <1>3, <3>2
  <2> HIDE DEF b
  <2>4. cur[q] = b
    BY <1>1, <1>3, <1>5, <2>2, <2>3
  <2>5. L2Len(h, 0, cur[q]) = IF l <= h.sectors - (b - 0) THEN l ELSE h.sectors - (b - 0)
    <3>1. l \in Int /\ h.sectors - (b - 0) \in Int
      BY <1>1, <2>2
    <3> QED
      BY <2>4, <3>1, MinOfTwo DEF L2Len
  <2>6. r < L2Len(h, 0, cur[q])
    <3>1. r \in Int /\ r < l /\ l \in Int
      BY <1>1, <1>3
    <3>2. k < h.sectors /\ k = b + r /\ h.sectors \in Int /\ b \in Int
      BY <1>1, <1>5, <2>2, <2>3
    <3>3. r < h.sectors - (b - 0)
      BY <3>1, <3>2
    <3> QED
      BY <2>5, <3>1, <3>3
  <2>7. Key(<<q, r>>) = k
    BY <2>3, <2>4
  <2>8. <<q, r>> \in found
    BY <1>3, <1>5, <2>6
  <2> QED
    BY <2>7, <2>8
<1> HIDE DEF Key
<1>6. ASSUME k \in DOMAIN c
      PROVE  k < h.sectors /\ q \in DOMAIN l2 /\ l2[q][r + 1] # absent /\ c[k] = l2[q][r + 1]
  <2> DEFINE p == CHOOSE y \in found : Key(y) = k
  <2>1. p \in found /\ Key(p) = k
    <3>1. \E y \in found : Key(y) = k
      BY <1>2, <1>6
    <3> HIDE DEF found
    <3> QED
      BY <3>1
  <2>2. c[k] = l2[p[1]][p[2] + 1]
    BY Zenon, <1>2, <1>6
  <2> HIDE DEF p
  <2>3. p[1] = q /\ p[2] = r /\ k < h.sectors
    BY <1>4, <2>1
  <2>4. p[1] \in DOMAIN l2 /\ l2[p[1]][p[2] + 1] # absent
    BY <2>1
  <2> QED
    BY <2>2, <2>3, <2>4
<1>7. ASSUME k < h.sectors, q \in DOMAIN l2, l2[q][r + 1] # absent
      PROVE  k \in DOMAIN c
  <2>1. <<q, r>> \in found /\ Key(<<q, r>>) = k
    BY <1>5, <1>7
  <2> HIDE DEF found
  <2> QED
    BY <1>2, <2>1
<1> QED
  BY <1>6, <1>7 DEF q, r

\* read_grain_table_sparse
LEMMA SparseTableIs ==
  ASSUME NEW h, SoundHeader(h), h.l2_len # 0, SparseTable(h, 0).ok, NEW k \in Nat,
         NEW t, t = SparseTable(h, 0).table
  PROVE  /\ k \in DOMAIN t <=> /\ k < h.sectors /\ (k \div h.l2_len) + 1 \in DOMAIN h.l1
                               /\ Disk!Entry(h, k) # 0
         /\ k \in DOMAIN t => t[k] = Disk!Entry(h, k)
<1> DEFINE q == (k \div h.l2_len) + 1
           r == k % h.l2_len
           l2 == L2(h)
<1>1. t = Collect(h, 0, l2, 0)
  BY DEF SparseTable
<1>2. /\ DOMAIN l2 = {x \in DOMAIN h.l1 : h.l1[x] # <<>>}
      /\ \A x \in DOMAIN l2 : l2[x] = h.l1[x]
  BY DEF L2
<1>3. Disk!Entry(h, k) = IF h.l1[q] = <<>> THEN 0 ELSE h.l1[q][r + 1]
  BY DEF Disk!Entry
<1> HIDE DEF l2, q, r
<1>4. /\ k \in DOMAIN t <=> k < h.sectors /\ q \in DOMAIN l2 /\ l2[q][r + 1] # 0
      /\ k \in DOMAIN t => t[k] = l2[q][r + 1]
  <2>1. DOMAIN l2 \subseteq DOMAIN h.l1
    BY <1>2
  <2> QED
    BY <1>1, <2>1, CollectIs DEF q, r
<1> QED
  BY <1>2, <1>3, <1>4 DEF q, r

\* read_grain_table_sesparse
LEMMA SeSparseTableIs ==
  ASSUME NEW h, SoundHeader(h), h.l2_len # 0, SeSparseTable(h, 0).ok, NEW k \in Nat,
         NEW t, t = SeSparseTable(h, 0).table
  PROVE  /\ k \in DOMAIN t <=> /\ k < h.sectors /\ (k \div h.l2_len) + 1 \in DOMAIN h.l1
                               /\ Disk!SeEntry(h, k) # NoEntry
         /\ k \in DOMAIN t => /\ t[k] = SeGrain(h, Disk!SeEntry(h, k))
                              /\ Disk!SeEntry(h, k).nibble \in 1 .. 3
<1> DEFINE q == (k \div h.l2_len) + 1
           r == k % h.l2_len
           l2 == SeL2(h, 0)
           c == Collect(h, 0, l2, NoEntry)
           ok == ~ \/ ~L1There(h)
                   \/ \E j \in Reached(h, 0) : BadL1(h, h.l1[j])
                   \/ ~L2Complete(h, 0, l2)
                   \/ \E x \in DOMAIN c : BadL2(c[x])
<1>1. ok /\ t = [x \in DOMAIN c |-> SeGrain(h, c[x])]
  <2>1. SeSparseTable(h, 0) = IF ~ok THEN [ok |-> FALSE, table |-> <<>>]
                              ELSE [ok |-> TRUE, table |-> [x \in DOMAIN c |-> SeGrain(h, c[x])]]
    BY DEF SeSparseTable
  <2> HIDE DEF ok, c
  <2>2. ok
    BY <2>1
  <2> QED
    BY <2>1, <2>2
<1>2. /\ DOMAIN l2 = {x \in Reached(h, 0) : h.l1[x] # NoEntry}
      /\ \A x \in DOMAIN l2 : l2[x] = h.tables[h.l1[x].index + 1]
      /\ Reached(h, 0) = {x \in DOMAIN h.l1 : CurSector(h, 0)[x] # 0 + h.sectors}
  BY DEF SeL2, Reached
<1>3. Disk!SeEntry(h, k) = IF h.l1[q] = NoEntry THEN NoEntry
                           ELSE h.tables[h.l1[q].index + 1][r + 1]
  BY DEF Disk!SeEntry, NoEntry
<1>4. \A x \in DOMAIN c : c[x] # NoEntry => c[x].nibble \in 1 .. 3
  BY <1>1 DEF BadL2
<1> HIDE DEF l2, ok, c, q, r
<1>5. /\ k \in DOMAIN c <=> k < h.sectors /\ q \in DOMAIN l2 /\ l2[q][r + 1] # NoEntry
      /\ k \in DOMAIN c => c[k] = l2[q][r + 1]
  <2>1. DOMAIN l2 \subseteq DOMAIN h.l1
    BY <1>2
  <2> QED
    BY <2>1, CollectIs DEF q, r, c
<1>6. ASSUME k < h.sectors, q \in DOMAIN h.l1
      PROVE  q \in Reached(h, 0)
  <2>1. /\ DOMAIN h.l1 = 1 .. Len(h.l1) /\ Len(h.l1) \in Nat /\ h.l2_len \in Nat \ {0}
        /\ h.sectors \in Nat
    BY DEF SoundHeader
  <2> DEFINE b == (q - 1) * h.l2_len
  <2>2. b \in Nat /\ CurSector(h, 0)[q] = IF b <= h.sectors THEN b ELSE h.sectors
    BY <1>6, <2>1, CurIs
  <2>3. b <= k
    <3>1. k \div h.l2_len \in Nat /\ k % h.l2_len \in 0 .. h.l2_len - 1
          /\ k = h.l2_len * (k \div h.l2_len) + (k % h.l2_len)
      BY <2>1
    <3>2. \A x, y \in Nat : x * y = y * x /\ x * y \in Nat
      OBVIOUS
    <3>3. q - 1 = k \div h.l2_len
      BY <3>1 DEF q
    <3>4. b = h.l2_len * (k \div h.l2_len)
      BY <2>1, <3>1, <3>2, <3>3
    <3> QED
      BY <2>2, <3>1, <3>4
  <2> HIDE DEF b
  <2>4. CurSector(h, 0)[q] # 0 + h.sectors
    BY <1>6, <2>1, <2>2, <2>3
  <2> QED
    BY <1>2, <1>6, <2>4
<1>7. DOMAIN t = DOMAIN c /\ \A x \in DOMAIN t : t[x] = SeGrain(h, c[x])
  BY <1>1
<1> QED
  BY Zenon, <1>2, <1>3, <1>4, <1>5, <1>6, <1>7 DEF q, r

-----------------------------------------------------------------------------
(***************************************************************************)
(* What is assumed of a disk.                                              *)
(***************************************************************************)

\* the tables of a sparse file are as long as the extent that they are for, and
\* its grains have sectors
SoundTables(h, ed) ==
  /\ h.l2_len # 0 /\ h.cluster_sectors # 0
  /\ ed.sectors <= h.sectors
  /\ ed.sectors <= Len(h.l1) * h.l2_len * h.cluster_sectors

\* the extents of an image have sectors; the sparse one, which is the first, has
\* such tables if its file is a sparse file with a header that is not refused
SoundLayout(img) ==
  LET eds == Disk!Eds(img) IN
  \A j \in DOMAIN eds :
    LET f == Disk!FileOf(img, eds[j]) IN
    /\ eds[j].sectors > 0
    /\ eds[j].kind \in SparseKinds =>
         /\ j = 1
         /\ f \in DOMAIN disk.files /\ disk.files[f].sig # "none" /\ disk.files[f].header.ok =>
              SoundTables(disk.files[f].header, eds[j])

\* no image of the chain is its own ancestor
ChainEnds ==
  LET last == Disk!Chain[MaxDepth] IN
  last \in DOMAIN disk.files => disk.files[last].desc.parent = NoParent

SoundDisk ==
  /\ ChainEnds
  /\ Disk!Sectors(disk.top) > 0
  /\ \A img \in DOMAIN disk.files : disk.files[img].desc.ok => SoundLayout(img)

-----------------------------------------------------------------------------
(***************************************************************************)
(* The spans of the extents that are read for an image have the sectors    *)
(* whose bytes the image has.                                              *)
(***************************************************************************)

\* one of the extent's spans has the sector
InSpans(ex, s) == \E p \in SpansOf(ex) : p.beg <= s /\ s < p.end

LEMMA NotAbsent ==
  ASSUME NEW a, NEW b, NEW c
  PROVE  <<>> # Disk!Absent /\ <<a, b>> # Disk!Absent /\ <<a, b, c>> # Disk!Absent
<1>1. Len(Disk!Absent) = 1 /\ Len(<<>>) = 0 /\ Len(<<a, b>>) = 2 /\ Len(<<a, b, c>>) = 3
  BY DEF Disk!Absent
<1>2. <<>> # Disk!Absent
  BY <1>1
<1>3. <<a, b>> # Disk!Absent
  BY <1>1
<1>4. <<a, b, c>> # Disk!Absent
  BY <1>1
<1> QED
  BY <1>2, <1>3, <1>4

\* where a grain begins, in sectors and in bytes
LEMMA GrainBegins ==
  ASSUME NEW g \in Nat \ {0}, NEW o \in Nat, NEW k \in Nat
  PROVE  /\ k * g \in Nat /\ o \div SectorSize \in Nat
         /\ g * SectorSize \in Nat /\ g * SectorSize > 0 /\ o \div (g * SectorSize) \in Nat
         /\ k * g <= o \div SectorSize <=> k <= o \div (g * SectorSize)
<1> DEFINE m == g * SectorSize
           a == k * g
<1>1. SectorSize \in Nat /\ SectorSize > 0
  BY StorageAssumption
<1>2. a \in Nat /\ m \in Nat /\ m > 0 /\ a * SectorSize = k * m
  <2>1. \A x, y \in Nat : x * y \in Nat /\ (x > 0 /\ y > 0 => x * y > 0)
    OBVIOUS
  <2>2. \A x, y, z \in Nat : (x * y) * z = x * (y * z)
    OBVIOUS
  <2> QED
    BY <1>1, <2>1, <2>2
<1> HIDE DEF m, a
<1>3. o \div SectorSize \in Nat /\ (a <= o \div SectorSize <=> a * SectorSize <= o)
  BY <1>1, <1>2, QuotientBounds
<1>4. o \div m \in Nat /\ (k <= o \div m <=> k * m <= o)
  BY <1>2, QuotientBounds
<1> QED
  BY <1>2, <1>3, <1>4 DEF m, a

\* the spans of a sparse extent are the grains in its table
LEMMA GrainSpans ==
  ASSUME NEW ex, SoundExtent(ex), ex.storage.kind = "sparse", ex.start_sector = 0,
         ex.storage.grain_size # 0, NEW o \in Nat
  PROVE  InSpans(ex, o \div SectorSize)
           <=> o \div (ex.storage.grain_size * SectorSize) \in DOMAIN ex.storage.grain_table
<1> DEFINE g == ex.storage.grain_size
           k == o \div (g * SectorSize)
           s == o \div SectorSize
<1>1. g \in Nat \ {0} /\ DOMAIN ex.storage.grain_table \subseteq Nat
  BY DEF SoundExtent
<1>2. InSpans(ex, s) => k \in DOMAIN ex.storage.grain_table
  BY GrainIsThere DEF HasSector, InSpans
<1> HIDE DEF k, s, g
<1>3. ASSUME k \in DOMAIN ex.storage.grain_table
      PROVE  InSpans(ex, s)
  <2>1. k \in Nat /\ k + 1 \in Nat /\ s \in Nat /\ k * g \in Nat
    <3>1. k \in Nat /\ k + 1 \in Nat
      BY <1>1, <1>3
    <3>2. s \in Nat /\ k * g \in Nat
      BY <1>1, <3>1, GrainBegins DEF s
    <3> QED
      BY <3>1, <3>2
  <2>2. k * g <= s
    BY <1>1, <2>1, GrainBegins DEF k, s
  <2>3. ~((k + 1) * g <= s)
    BY <1>1, <2>1, GrainBegins DEF k, s
  <2>4. (k + 1) * g = k * g + g
    BY <1>1, <2>1
  <2>5. s < k * g + g
    BY <1>1, <2>1, <2>3, <2>4
  <2>6. [beg |-> 0 + k * g, end |-> (0 + k * g) + g] \in SpansOf(ex)
    BY <1>3 DEF SpansOf, g
  <2> QED
    BY <2>1, <2>2, <2>5, <2>6 DEF InSpans
<1> QED
  BY <1>2, <1>3 DEF k, s, g

\* the j-th extent of the image, read with sources from first on
ExtentIs(img, eds, first, r, j) ==
  LET f == Disk!FileOf(img, eds[j])
      st == ReadExtent(eds[j], StartsOf(eds)[j], f, first + j - 1)
  IN  /\ eds[j].kind \in Named /\ f \in DOMAIN disk.files /\ st # IoError
      /\ r.files[j] = f
      /\ r.extents[j] = [start_sector |-> StartsOf(eds)[j],
                         sectors |-> eds[j].sectors, storage |-> st]

\* what handle_image makes of an image
ImageIs(img, first, r) ==
  /\ r = ReadExtents(img, Disk!Eds(img),
                     disk.files[img].sig = "vmdk4" /\ Len(Disk!Eds(img)) = 1, first)
  /\ r.outcome = "extents"

\* what read_extents makes of the descriptions, with the files that DeltaDisk names
LEMMA ExtentsAre ==
  ASSUME disk \in Disks, NEW img \in DOMAIN disk.files,
         NEW eds, eds = Disk!Eds(img), NEW first, NEW r, ImageIs(img, first, r)
  PROVE  /\ DOMAIN r.extents = DOMAIN eds
         /\ \A j \in DOMAIN eds : ExtentIs(img, eds, first, r, j)
<1>0. PICK single : /\ single = (disk.files[img].sig = "vmdk4" /\ Len(eds) = 1)
                    /\ r = ReadExtents(img, eds, single, first) /\ r.outcome = "extents"
  BY DEF ImageIs
<1> DEFINE start == StartsOf(eds)
           file == [j \in DOMAIN eds |-> SourceFor(img, eds[j], single)]
           StorageOf(j) == ReadExtent(eds[j], start[j], file[j], first + j - 1)
           Fails(j) == \/ eds[j].kind \notin Named
                       \/ file[j] = ""
                       \/ StorageOf(j) = IoError
           exs == [j \in DOMAIN eds |->
                     [start_sector |-> start[j], sectors |-> eds[j].sectors,
                      storage |-> StorageOf(j)]]
<1>1. {j \in DOMAIN eds : Fails(j)} = {} /\ r.extents = exs /\ r.files = file
  BY Zenon, <1>0 DEF ReadExtents, StartsOf
<1> HIDE DEF start
<1>2. ASSUME NEW j \in DOMAIN eds
      PROVE  ExtentIs(img, eds, first, r, j)
  <2> DEFINE f == Disk!FileOf(img, eds[j])
  <2>1. ~Fails(j)
    BY Zenon, <1>1
  <2>2. file[j] = SourceFor(img, eds[j], single) /\ file[j] # ""
    BY Zenon, <2>1
  <2> HIDE DEF file
  <2>3. file[j] = f /\ f \in DOMAIN disk.files
    BY Zenon, <1>0, <2>2 DEF SourceFor, Disk!FileOf, Disk!Eds
  <2> HIDE DEF f
  <2>4. StorageOf(j) = ReadExtent(eds[j], start[j], f, first + j - 1)
    BY <2>3
  <2>5. r.extents[j] = [start_sector |-> start[j], sectors |-> eds[j].sectors,
                        storage |-> StorageOf(j)]
    BY Zenon, <1>1
  <2> HIDE DEF StorageOf, exs
  <2>6. eds[j].kind \in Named /\ StorageOf(j) # IoError
    BY Zenon, <2>1
  <2>7. /\ eds[j].kind \in Named /\ f \in DOMAIN disk.files
        /\ ReadExtent(eds[j], start[j], f, first + j - 1) # IoError
        /\ r.files[j] = f
        /\ r.extents[j] = [start_sector |-> start[j], sectors |-> eds[j].sectors,
                           storage |-> ReadExtent(eds[j], start[j], f, first + j - 1)]
    BY Zenon, <1>1, <2>3, <2>4, <2>5, <2>6
  <2> QED
    BY <2>7 DEF f, start, ExtentIs
<1>3. DOMAIN r.extents = DOMAIN eds
  BY Zenon, <1>1
<1> HIDE DEF Fails, exs, StorageOf, file
<1> QED
  BY <1>2, <1>3

-----------------------------------------------------------------------------
\* the byte that is found in the j-th extent
ByteAt(img, eds, j, o) ==
  LET ed == eds[j]
      f == Disk!FileOf(img, ed)
      rel == o - StartsOf(eds)[j] * SectorSize
  IN  CASE ed.kind \in Disk!FlatKinds   -> <<f, ed.offset * SectorSize + rel>>
        [] ed.kind \in Disk!SparseKinds -> Disk!SparseByte(f, rel)
        [] ed.kind = "SESPARSE"         -> Disk!SeSparseByte(f, rel)

\* DeltaDisk looks in the extent that the sector is placed in
LEMMA PlaceOfByte ==
  ASSUME NEW img, NEW eds, eds = Disk!Eds(img), SoundEds(eds), NEW o \in Nat,
         NEW j \in DOMAIN eds, Placed(eds, j, o \div SectorSize),
         o \div SectorSize < StartsOf(eds)[Len(eds) + 1]
  PROVE  Disk!ByteOf(img, o) = ByteAt(img, eds, j, o)
<1> DEFINE s == o \div SectorSize
           In(k) == s \in Disk!Start(eds, k) .. Disk!Start(eds, k + 1) - 1
           c == CHOOSE k \in DOMAIN eds : In(k)
<1>1. \A k : Disk!Start(eds, k) = StartsOf(eds)[k]
  BY DEF Disk!Start, StartsOf
<1>2. s \in Nat
  BY StorageAssumption
<1> HIDE DEF s
<1>3. \A k \in DOMAIN eds : In(k) <=> Placed(eds, k, s)
  <2> TAKE k \in DOMAIN eds
  <2>1. k \in 1 .. Len(eds) + 1 /\ k + 1 \in 1 .. Len(eds) + 1
    BY DEF SoundEds
  <2>2. StartsOf(eds)[k] \in Nat /\ StartsOf(eds)[k + 1] \in Nat
    BY Zenon, <2>1, Starts DEF SoundEds
  <2> QED
    BY <1>1, <1>2, <2>2 DEF Placed
<1>4. c = j
  <2>1. Placed(eds, j, s) /\ In(j)
    BY <1>3 DEF s
  <2>2. \A k \in DOMAIN eds : Placed(eds, k, s) => k = j
    <3>1. s < StartsOf(eds)[Len(eds) + 1]
      BY DEF s
    <3> QED
      BY <1>2, <2>1, <3>1, ExtentAt
  <2> HIDE DEF In
  <2>3. c \in DOMAIN eds /\ In(c)
    BY <2>1
  <2> QED
    BY <1>3, <2>2, <2>3
<1>5. Disk!ByteOf(img, o) =
        LET ed == eds[c]
            f == Disk!FileOf(img, ed)
            rel == o - Disk!Start(eds, c) * SectorSize
        IN  CASE ed.kind \in Disk!FlatKinds   -> <<f, ed.offset * SectorSize + rel>>
              [] ed.kind \in Disk!SparseKinds -> Disk!SparseByte(f, rel)
              [] ed.kind = "SESPARSE"         -> Disk!SeSparseByte(f, rel)
  BY DEF Disk!ByteOf, s
<1> HIDE DEF c, In
<1> QED
  BY Zenon, <1>1, <1>4, <1>5 DEF ByteAt

\* the grain of a sector of the extent is within the tables
LEMMA GrainInTables ==
  ASSUME NEW h, SoundHeader(h), NEW ed, ed.sectors \in Nat, SoundTables(h, ed),
         NEW o \in Nat, o \div SectorSize < ed.sectors,
         NEW k, k = o \div (h.cluster_sectors * SectorSize)
  PROVE  /\ k \in Nat /\ k < h.sectors
         /\ k \div h.l2_len \in Nat /\ (k \div h.l2_len) + 1 \in DOMAIN h.l1
<1> DEFINE s == o \div SectorSize
           g == h.cluster_sectors
           n == Len(h.l1)
           l == h.l2_len
           m == n * l
<1>1. /\ g \in Nat \ {0} /\ l \in Nat \ {0} /\ n \in Nat /\ h.sectors \in Nat
      /\ DOMAIN h.l1 = 1 .. n
      /\ ed.sectors <= h.sectors /\ ed.sectors <= m * g
  BY DEF SoundHeader, SoundTables
<1> HIDE DEF s, g, n, l
<1>2. k \in Nat /\ s \in Nat /\ k * g \in Nat /\ k * g <= s
  <2>1. k \in Nat
    BY Zenon, <1>1, GrainBegins DEF g
  <2>2. s \in Nat /\ k * g \in Nat /\ (k * g <= s <=> k <= o \div (g * SectorSize))
    BY Zenon, <1>1, <2>1, GrainBegins DEF s
  <2>3. k <= o \div (g * SectorSize)
    BY <2>1 DEF g
  <2> QED
    BY <2>1, <2>2, <2>3
<1>3. k <= k * g
  <2>1. \A a, b \in Nat : b # 0 => a <= a * b
    OBVIOUS
  <2> QED
    BY Zenon, <1>1, <1>2, <2>1
<1>4. k < h.sectors
  BY <1>1, <1>2, <1>3 DEF s
<1>5. m \in Nat
  BY <1>1
<1> HIDE DEF m
<1>6. ~(m <= k)
  <2>1. m <= k => k * g >= m * g
    BY Zenon, <1>1, <1>2, <1>5, TimesGrows
  <2>2. m * g \in Nat
    BY <1>1, <1>5
  <2> QED
    BY <1>1, <1>2, <2>1, <2>2 DEF s
<1>7. k \div l \in Nat /\ (n <= k \div l <=> n * l <= k)
  <2>1. \A x \in Nat : x \div l \in Nat /\ (n <= x \div l <=> n * l <= x)
    <3>1. l \in Nat /\ l > 0
      BY <1>1
    <3> QED
      BY <1>1, <3>1, QuotientBounds
  <2> QED
    BY <1>2, <2>1
<1>8. (k \div l) + 1 \in 1 .. n
  BY <1>1, <1>6, <1>7 DEF m
<1> QED
  BY <1>1, <1>2, <1>4, <1>7, <1>8 DEF l

\* the table of a sparse extent has the grains whose bytes its file has
LEMMA SparseHas ==
  ASSUME disk \in Disks, NEW ed, ed.sectors \in Nat, ed.kind \in SparseKinds,
         NEW f \in DOMAIN disk.files, SoundTables(disk.files[f].header, ed), NEW source,
         NEW st, st = ReadExtent(ed, 0, f, source), st # IoError,
         NEW o \in Nat, o \div SectorSize < ed.sectors,
         NEW byte, byte = IF ed.kind = "SESPARSE" THEN Disk!SeSparseByte(f, o)
                                                  ELSE Disk!SparseByte(f, o)
  PROVE  /\ st.kind = "sparse" /\ st.grain_size # 0
         /\ byte # Disk!Absent
              <=> o \div (st.grain_size * SectorSize) \in DOMAIN st.grain_table
<1> DEFINE h == disk.files[f].header
           k == o \div (h.cluster_sectors * SectorSize)
           t == SparseTable(h, 0)
           se == SeSparseTable(h, 0)
           e == Disk!Entry(h, k)
           v == Disk!SeEntry(h, k)
<1>1. h.l2_len # 0 /\ h.cluster_sectors # 0
  BY DEF SoundTables
<1> HIDE DEF t, se
<1>2. CASE ed.kind # "SESPARSE"
  <2>1. /\ disk.files[f].sig \in {"vmdk3", "vmdk4"} /\ t.ok
        /\ st.kind = "sparse" /\ st.grain_size = h.cluster_sectors
        /\ st.grain_table = t.table
    BY <1>2 DEF ReadExtent, IoError, t, SparseKinds
  <2>2. SoundHeader(h)
    BY <2>1, DiskIsSound
  <2>3. /\ k \in Nat /\ k < h.sectors
        /\ k \div h.l2_len \in Nat /\ (k \div h.l2_len) + 1 \in DOMAIN h.l1
    BY <2>2, GrainInTables
  <2>4. byte = IF e = 0 THEN Disk!Absent
               ELSE IF h.has_zero_grain /\ e = 1 THEN <<>>
               ELSE IF h.compressed THEN <<f, e, o % (h.cluster_sectors * SectorSize)>>
               ELSE <<f, e * SectorSize + (o % (h.cluster_sectors * SectorSize))>>
    BY <1>2 DEF Disk!SparseByte, Disk!ZeroByte
  <2> HIDE DEF k, e, h
  <2>5. byte # Disk!Absent <=> e # 0
    <3>1. ASSUME e # 0 PROVE byte # Disk!Absent
      BY <2>4, <3>1, NotAbsent
    <3> QED
      BY <2>4, <3>1
  <2>6. k \in DOMAIN t.table <=> e # 0
    BY <1>1, <2>1, <2>2, <2>3, SparseTableIs DEF t, e
  <2> QED
    BY <1>1, <2>1, <2>5, <2>6 DEF k
<1>3. CASE ed.kind = "SESPARSE"
  <2>1. /\ disk.files[f].sig = "sesparse" /\ se.ok
        /\ st.kind = "sparse" /\ st.grain_size = h.cluster_sectors
        /\ st.grain_table = se.table
    BY <1>3 DEF ReadExtent, IoError, se
  <2>2. SoundHeader(h)
    BY <2>1, DiskIsSound
  <2>3. /\ k \in Nat /\ k < h.sectors
        /\ k \div h.l2_len \in Nat /\ (k \div h.l2_len) + 1 \in DOMAIN h.l1
    BY <2>2, GrainInTables
  <2>4. \E a, b : byte = CASE v.nibble = 0       -> Disk!Absent
                  [] v.nibble \in {1, 2} -> <<>>
                  [] v.nibble = 3 -> <<a, b>>
    BY <1>3 DEF Disk!SeSparseByte, Disk!ZeroByte
  <2> HIDE DEF k, v, h
  <2>5. /\ k \in DOMAIN se.table <=> v # NoEntry
        /\ k \in DOMAIN se.table => v.nibble \in 1 .. 3
    BY <1>1, <2>1, <2>2, <2>3, SeSparseTableIs DEF se, v
  <2>6. ASSUME v = NoEntry PROVE byte = Disk!Absent
    BY <2>4, <2>6 DEF NoEntry
  <2>7. ASSUME v.nibble \in 1 .. 3 PROVE byte # Disk!Absent
    <3>1. v.nibble = 1 \/ v.nibble = 2 \/ v.nibble = 3
      BY <2>7
    <3> QED
      BY <2>4, <3>1, NotAbsent
  <2> QED
    BY <1>1, <2>1, <2>5, <2>6, <2>7 DEF k
<1> QED
  BY <1>2, <1>3

LEMMA ImageEds ==
  ASSUME disk \in Disks, NEW img \in DOMAIN disk.files
  PROVE  SoundEds(Disk!Eds(img))
BY DiskIsSound DEF SoundEds, Disk!Eds

\* the spans of the k-th extent have the sectors it was described to have
HasItsSectors(eds, r, k) == \A s : InSpans(r.extents[k], s) <=> Placed(eds, k, s)

\* the only sparse extent of an image that is read is its first
HasGrains(img, eds, first, r, k) ==
  LET f == Disk!FileOf(img, eds[k])
      st == ReadExtent(eds[k], 0, f, first)
  IN  /\ k = 1
      /\ f \in DOMAIN disk.files /\ st # IoError
      /\ SoundTables(disk.files[f].header, eds[k])
      /\ r.extents[1] = [start_sector |-> 0, sectors |-> eds[1].sectors, storage |-> st]

LEMMA ExtentHas ==
  ASSUME disk \in Disks, NEW img \in DOMAIN disk.files, SoundLayout(img),
         NEW first \in Nat, NEW r, ImageIs(img, first, r),
         NEW eds, eds = Disk!Eds(img), NEW k \in DOMAIN eds
  PROVE  IF eds[k].kind \in SparseKinds THEN HasGrains(img, eds, first, r, k)
                                        ELSE HasItsSectors(eds, r, k)
<1> DEFINE f == Disk!FileOf(img, eds[k])
           st == ReadExtent(eds[k], StartsOf(eds)[k], f, first + k - 1)
           ex == r.extents[k]
<1>1. SoundEds(eds)
  BY ImageEds
<1>2. /\ eds[k].kind \in Named /\ f \in DOMAIN disk.files /\ st # IoError
      /\ ex = [start_sector |-> StartsOf(eds)[k], sectors |-> eds[k].sectors, storage |-> st]
  <2>1. ExtentIs(img, eds, first, r, k)
    BY ExtentsAre
  <2> QED
    BY <2>1 DEF ExtentIs
<1>3. StartsOf(eds)[1] = 0 /\ StartsOf(eds)[k + 1] = StartsOf(eds)[k] + eds[k].sectors
  BY <1>1, Starts DEF SoundEds
<1>4. ASSUME eds[k].kind \notin SparseKinds
      PROVE  st.kind = "flat"
  BY <1>2, <1>4 DEF ReadExtent, Named, SparseKinds
<1>5. ASSUME eds[k].kind \in SparseKinds
      PROVE  k = 1 /\ SoundTables(disk.files[f].header, eds[k])
  <2>1. disk.files[f].sig # "none" /\ disk.files[f].header.ok
    BY <1>2, <1>5 DEF ReadExtent, SparseKinds
  <2> QED
    BY <1>2, <1>5, <2>1 DEF SoundLayout
<1> HIDE DEF f, st, ex
<1>6. ASSUME eds[k].kind \notin SparseKinds
      PROVE  HasItsSectors(eds, r, k)
  <2>1. SpansOf(ex) = {[beg |-> StartsOf(eds)[k], end |-> StartsOf(eds)[k] + eds[k].sectors]}
    BY <1>2, <1>4, <1>6 DEF SpansOf
  <2>2. \A s : InSpans(ex, s) <=> Placed(eds, k, s)
    BY <1>3, <2>1 DEF InSpans, Placed
  <2> QED
    BY <2>2 DEF HasItsSectors, ex
<1>7. ASSUME k = 1
      PROVE  st = ReadExtent(eds[k], 0, f, first)
  <2>1. first + k - 1 = first
    BY <1>7
  <2> QED
    BY <1>3, <1>7, <2>1 DEF st
<1> QED
  BY <1>2, <1>3, <1>5, <1>6, <1>7 DEF f, ex, HasGrains

\* An image has a byte if and only if one of its extents has its sector.
LEMMA ImageHas ==
  ASSUME disk \in Disks, NEW img \in DOMAIN disk.files, SoundLayout(img),
         NEW first \in Nat, NEW r, ImageIs(img, first, r),
         NEW o \in Nat, o \div SectorSize < Disk!Sectors(img)
  PROVE  Disk!ByteOf(img, o) # Disk!Absent
           <=> \E k \in DOMAIN r.extents : InSpans(r.extents[k], o \div SectorSize)
<1>0. PICK eds : eds = Disk!Eds(img)
  OBVIOUS
<1> DEFINE s == o \div SectorSize
<1>1. SoundEds(eds) /\ Disk!Sectors(img) = StartsOf(eds)[Len(eds) + 1] /\ s \in Nat
  BY <1>0, ImageEds, StorageAssumption DEF Disk!Sectors, Disk!Start, StartsOf
<1>2. /\ DOMAIN r.extents = DOMAIN eds
      /\ \A k \in DOMAIN eds : eds[k].kind \in Named
  <2>1. DOMAIN r.extents = DOMAIN eds /\ \A k \in DOMAIN eds : ExtentIs(img, eds, first, r, k)
    BY <1>0, ExtentsAre
  <2> QED
    BY Zenon, <2>1 DEF ExtentIs
<1>3. \A k \in DOMAIN eds :
        IF eds[k].kind \in SparseKinds THEN HasGrains(img, eds, first, r, k)
                                       ELSE HasItsSectors(eds, r, k)
  BY <1>0, ExtentHas
<1> HIDE DEF s
<1>4. PICK j \in DOMAIN eds : Placed(eds, j, s)
  BY <1>1, ExtentAt DEF s
<1>5. \A k \in DOMAIN eds : Placed(eds, k, s) => k = j
  <2>1. s < StartsOf(eds)[Len(eds) + 1]
    BY <1>1 DEF s
  <2> QED
    BY <1>1, <1>4, <2>1, ExtentAt
<1> DEFINE f == Disk!FileOf(img, eds[j])
           rel == o - StartsOf(eds)[j] * SectorSize
           byte == Disk!ByteOf(img, o)
<1>6. byte = CASE eds[j].kind \in Disk!FlatKinds   -> <<f, eds[j].offset * SectorSize + rel>>
               [] eds[j].kind \in Disk!SparseKinds -> Disk!SparseByte(f, rel)
               [] eds[j].kind = "SESPARSE"         -> Disk!SeSparseByte(f, rel)
  <2>1. byte = ByteAt(img, eds, j, o)
    BY <1>0, <1>1, <1>4, PlaceOfByte DEF s
  <2> QED
    BY <2>1 DEF ByteAt
<1> HIDE DEF byte
<1>7. CASE eds[j].kind \notin SparseKinds
  <2>1. byte # Disk!Absent
    BY <1>2, <1>4, <1>6, <1>7, NotAbsent DEF Named, SparseKinds, Disk!FlatKinds, Disk!SparseKinds
  <2>2. InSpans(r.extents[j], s)
    BY <1>3, <1>4, <1>7 DEF HasItsSectors
  <2> QED
    BY <1>2, <1>4, <2>1, <2>2 DEF byte, s
<1>8. CASE eds[j].kind \in SparseKinds
  <2> DEFINE st == ReadExtent(eds[j], 0, f, first)
  <2>1. /\ j = 1 /\ f \in DOMAIN disk.files /\ st # IoError
        /\ SoundTables(disk.files[f].header, eds[j])
        /\ r.extents[1] = [start_sector |-> 0, sectors |-> eds[1].sectors, storage |-> st]
    BY <1>3, <1>4, <1>8 DEF HasGrains
  <2>2. StartsOf(eds)[1] = 0 /\ StartsOf(eds)[1 + 1] = StartsOf(eds)[1] + eds[1].sectors
        /\ eds[1].sectors \in Nat
    BY <1>1, <1>4, <2>1, Starts DEF SoundEds
  <2>3. rel = o /\ s < eds[j].sectors
    BY <1>1, <1>4, <2>1, <2>2, StorageAssumption DEF Placed
  <2>4. byte = IF eds[j].kind = "SESPARSE" THEN Disk!SeSparseByte(f, o)
                                           ELSE Disk!SparseByte(f, o)
    <3>1. rel = o
      BY <2>3
    <3> HIDE DEF rel
    <3> QED
      BY <1>6, <1>8, <3>1 DEF SparseKinds, Disk!FlatKinds, Disk!SparseKinds
  <2> HIDE DEF st, f
  <2>5. /\ st.kind = "sparse" /\ st.grain_size # 0
        /\ byte # Disk!Absent
             <=> o \div (st.grain_size * SectorSize) \in DOMAIN st.grain_table
    BY <1>8, <2>1, <2>2, <2>3, <2>4, SparseHas DEF st, s
  <2>6. InSpans(r.extents[1], s)
          <=> o \div (st.grain_size * SectorSize) \in DOMAIN st.grain_table
    <3> DEFINE ex == r.extents[1]
    <3>1. SoundExtent(ex)
      <4>1. IsQueue(r.extents)
        BY Zenon, ExtentsHaveFiles DEF ImageIs, Disk!Eds
      <4> QED
        BY <1>2, <1>4, <2>1, <4>1 DEF IsQueue
    <3>2. ex.storage = st /\ ex.start_sector = 0
      BY <2>1
    <3> HIDE DEF ex
    <3> QED
      BY <2>5, <3>1, <3>2, GrainSpans DEF ex, s
  <2>7. ASSUME NEW k \in DOMAIN eds, InSpans(r.extents[k], s)
        PROVE  k = 1
    <3>1. CASE eds[k].kind \in SparseKinds
      BY Zenon, <1>3, <3>1 DEF HasGrains
    <3>2. CASE eds[k].kind \notin SparseKinds
      <4>1. Placed(eds, k, s)
        BY <1>3, <2>7, <3>2 DEF HasItsSectors
      <4> QED
        BY <1>5, <2>1, <4>1
    <3> QED
      BY <3>1, <3>2
  <2> QED
    BY <1>2, <1>4, <2>1, <2>5, <2>6, <2>7 DEF byte, s
<1> QED
  BY <1>7, <1>8

-----------------------------------------------------------------------------
(***************************************************************************)
(* The chain of images.                                                    *)
(***************************************************************************)
ParentOf(img) ==
  IF img \in DOMAIN disk.files THEN disk.files[img].desc.parent ELSE NoParent

LEMMA ChainIs ==
  /\ Disk!Chain[1] = disk.top
  /\ \A n \in 1 .. MaxDepth : n # 1 => Disk!Chain[n] = ParentOf(Disk!Chain[n - 1])
<1> DEFINE S == {disk.top, NoParent} \cup {disk.files[f].desc.parent : f \in DOMAIN disk.files}
           Rec(f) == f = [n \in 1 .. MaxDepth |->
                            IF n = 1 THEN disk.top
                            ELSE IF f[n - 1] \in DOMAIN disk.files
                              THEN disk.files[f[n - 1]].desc.parent
                            ELSE NoParent]
           step == [j \in Nat |-> [x \in S |-> ParentOf(x)]]
           chain == Disk!Chain
<1>1. \E f : Rec(f)
  <2>1. \A x : ParentOf(x) \in S
    BY DEF ParentOf
  <2>2. disk.top \in S
    OBVIOUS
  <2> HIDE DEF S
  <2>3. step \in [Nat -> [S -> S]] /\ \A j \in Nat : \A x \in S : step[j][x] = ParentOf(x)
    BY <2>1
  <2> HIDE DEF step
  <2>4. RecursionExists(S, disk.top, step, 1, MaxDepth)
    BY <2>2, <2>3, Recursion, MaxDepthAssumption
  <2>5. PICK f \in [1 .. MaxDepth -> S] :
          f[1] = disk.top /\ \A j \in 1 + 1 .. MaxDepth : f[j] = step[j][f[j - 1]]
    BY Zenon, <2>4 DEF RecursionExists
  <2>6. ASSUME NEW n \in 1 .. MaxDepth
        PROVE  f[n] = IF n = 1 THEN disk.top
                      ELSE IF f[n - 1] \in DOMAIN disk.files
                        THEN disk.files[f[n - 1]].desc.parent
                      ELSE NoParent
    <3>1. CASE n = 1
      BY <2>5, <3>1
    <3>2. CASE n # 1
      <4>1. n \in 1 + 1 .. MaxDepth /\ n \in Nat /\ n - 1 \in 1 .. MaxDepth
        BY <3>2, MaxDepthAssumption
      <4>2. f[n] = ParentOf(f[n - 1])
        BY <2>3, <2>5, <4>1
      <4> QED
        BY <3>2, <4>2 DEF ParentOf
    <3> QED
      BY <3>1, <3>2
  <2>7. f = [n \in 1 .. MaxDepth |-> f[n]]
    BY <2>5
  <2>8. Rec(f)
    BY <2>6, <2>7
  <2> HIDE DEF Rec
  <2> QED
    BY <2>8
<1>2. chain = CHOOSE f : Rec(f)
  BY DEF Disk!Chain, Disk!Depth, Disk!NoParent, NoParent
<1>3. Rec(chain)
  <2> HIDE DEF Rec, chain
  <2> QED
    BY <1>1, <1>2
<1> HIDE DEF chain
<1>4. \A n \in 1 .. MaxDepth : chain[n] = IF n = 1 THEN disk.top
                                          ELSE IF chain[n - 1] \in DOMAIN disk.files
                                            THEN disk.files[chain[n - 1]].desc.parent
                                          ELSE NoParent
  BY Zenon, <1>3
<1>5. 1 \in 1 .. MaxDepth
  BY MaxDepthAssumption
<1> QED
  BY <1>4, <1>5 DEF ParentOf, chain

\* there is an n-th image, and a byte that those before it have not
Wanted(n) ==
  /\ Disk!Chain[n] # NoParent
  /\ \E o \in Disk!Offset : \A m \in 1 .. n - 1 : Disk!ByteOf(Disk!Chain[m], o) = Disk!Absent

LEMMA NeededIs ==
  /\ Disk!Needed[1]
  /\ \A n \in 1 .. MaxDepth : n # 1 => Disk!Needed[n] = (Disk!Needed[n - 1] /\ Wanted(n))
<1> DEFINE Rec(f) == f = [n \in 1 .. MaxDepth |-> n = 1 \/ (f[n - 1] /\ Wanted(n))]
           step == [j \in Nat |-> [x \in BOOLEAN |-> x /\ Wanted(j)]]
           needed == Disk!Needed
<1>1. \E f : Rec(f)
  <2>1. step \in [Nat -> [BOOLEAN -> BOOLEAN]]
        /\ \A j \in Nat : \A x \in BOOLEAN : step[j][x] = (x /\ Wanted(j))
    OBVIOUS
  <2> HIDE DEF step
  <2>4. RecursionExists(BOOLEAN, TRUE, step, 1, MaxDepth)
    <3> DEFINE B == BOOLEAN
               first == TRUE
    <3>1. first \in B /\ step \in [Nat -> [B -> B]]
      BY <2>1
    <3> HIDE DEF B, first
    <3>2. RecursionExists(B, first, step, 1, MaxDepth)
      BY <3>1, Recursion, MaxDepthAssumption
    <3> QED
      BY Zenon, <3>2 DEF B, first
  <2>5. PICK f \in [1 .. MaxDepth -> BOOLEAN] :
          f[1] = TRUE /\ \A j \in 1 + 1 .. MaxDepth : f[j] = step[j][f[j - 1]]
    BY Zenon, <2>4 DEF RecursionExists
  <2>6. ASSUME NEW n \in 1 .. MaxDepth
        PROVE  f[n] = (n = 1 \/ (f[n - 1] /\ Wanted(n)))
    <3>1. CASE n = 1
      BY <2>5, <3>1
    <3>2. CASE n # 1
      <4>1. n \in 1 + 1 .. MaxDepth /\ n \in Nat /\ n - 1 \in 1 .. MaxDepth
        BY <3>2, MaxDepthAssumption
      <4>2. f[n - 1] \in BOOLEAN
        BY <2>5, <4>1
      <4>3. f[n] = step[n][f[n - 1]]
        BY <2>5, <4>1
      <4>4. f[n] = (f[n - 1] /\ Wanted(n))
        BY <2>1, <4>1, <4>2, <4>3
      <4> QED
        BY <3>2, <4>4
    <3> QED
      BY <3>1, <3>2
  <2>7. f = [n \in 1 .. MaxDepth |-> f[n]]
    BY <2>5
  <2>8. Rec(f)
    BY <2>6, <2>7
  <2> HIDE DEF Rec
  <2> QED
    BY <2>8
<1>2. needed = CHOOSE f : Rec(f)
  BY Zenon DEF Disk!Needed, Disk!Depth, Disk!NoParent, NoParent, Wanted
<1>3. Rec(needed)
  <2> HIDE DEF Rec, needed
  <2> QED
    BY <1>1, <1>2
<1> HIDE DEF needed
<1>4. \A n \in 1 .. MaxDepth : needed[n] = (n = 1 \/ (needed[n - 1] /\ Wanted(n)))
  BY Zenon, <1>3
<1>5. 1 \in 1 .. MaxDepth
  BY MaxDepthAssumption
<1>6. needed[1]
  BY Zenon, <1>4, <1>5
<1>7. \A n \in 1 .. MaxDepth : n # 1 => needed[n] = (needed[n - 1] /\ Wanted(n))
  BY <1>4
<1> QED
  BY <1>6, <1>7 DEF needed

LEMMA ChainKept ==
  ASSUME disk' = disk
  PROVE  Disk!Chain' = Disk!Chain
BY DEF Disk!Chain, Disk!Depth

LEMMA FilesKept ==
  ASSUME disk' = disk
  PROVE  \A img, ed : Disk!FileOf(img, ed)' = Disk!FileOf(img, ed)
BY DEF Disk!FileOf, Disk!Eds

LEMMA SectorsKept ==
  ASSUME disk' = disk
  PROVE  \A img : Disk!Sectors(img)' = Disk!Sectors(img)
BY DEF Disk!Sectors, Disk!Eds, Disk!Start

LEMMA BytesKept ==
  ASSUME disk' = disk
  PROVE  \A img, o : Disk!ByteOf(img, o)' = Disk!ByteOf(img, o)
BY DEF Disk!ByteOf, Disk!Eds, Disk!Start, Disk!FileOf, Disk!SparseByte, Disk!SeSparseByte

LEMMA NeededKept ==
  ASSUME disk' = disk, \A img, o : Disk!ByteOf(img, o)' = Disk!ByteOf(img, o)
  PROVE  Disk!Needed' = Disk!Needed
BY ChainKept, SectorsKept DEF Disk!Needed, Disk!Depth, Disk!Offset, Disk!Size

LEMMA SoundDiskKept ==
  ASSUME disk' = disk, SoundDisk
  PROVE  SoundDisk'
<1>1. ChainEnds' /\ (Disk!Sectors(disk.top) > 0)'
  BY ChainKept, SectorsKept DEF SoundDisk, ChainEnds
<1>2. \A img : SoundLayout(img) => SoundLayout(img)'
  BY Zenon, FilesKept DEF SoundLayout, Disk!Eds
<1> QED
  BY Zenon, <1>1, <1>2 DEF SoundDisk

-----------------------------------------------------------------------------
(***************************************************************************)
(* What open() has of the images it has gone through.                      *)
(***************************************************************************)
Sec == Disk!Sectors(disk.top)

\* one of the first n images has the sector's first byte
Has(n, s) == \E m \in 1 .. n : Disk!ByteOf(Disk!Chain[m], s * SectorSize) # Disk!Absent

\* the sector is in an extent of the current image that is not in the maps yet
Pending(s) ==
  \/ pc = "extents" /\ \E k \in DOMAIN queue : InSpans(queue[k], s)
  \/ pc = "spans" /\ \/ \E k \in DOMAIN queue : k # 1 /\ InSpans(queue[k], s)
                     \/ \E p \in todo : p.beg <= s /\ s < p.end
                     \/ loop = "insert" /\ call.beg <= s /\ s < call.end

\* the n-th image is the current one, and what the images so far have is, or will be,
\* in the spans
AtImage(n) ==
  /\ Disk!Chain[n] = current /\ Disk!Needed[n]
  /\ pc # "image" => current \in DOMAIN disk.files /\ parent = disk.files[current].desc.parent
  /\ IF pc = "image" /\ n = 1 THEN imageSize = <<>>
                              ELSE Sec \in Nat /\ imageSize = <<Sec * SectorSize>>
  /\ \A s \in Nat :
       s < Sec /\ Has(IF pc = "image" THEN n - 1 ELSE n, s) => Owned(s) \/ Pending(s)

\* what is uncovered has no span, but for what remove_span has yet to take out
LeftInv ==
  /\ P!GapsIn(uncovered) /\ P!RemoveCursor
  /\ \A b \in DOMAIN uncovered : b < uncovered[b]
  /\ \A s \in Nat : P!HeldIn(uncovered, s) => s < Sec /\ (Owned(s) => P!Unsettled(s))
  /\ IF imageSize = <<>> THEN DOMAIN spans = {} ELSE pc # "spans" => DOMAIN uncovered # {}

\* what is inserted has sectors
NoneEmpty ==
  /\ pc # "image" => \A k \in DOMAIN queue : \A p \in SpansOf(queue[k]) : p.beg < p.end
  /\ pc = "spans" => \A p \in todo : p.beg < p.end

Searching == {"image", "extents", "spans"}

LEMMA DiskKept ==
  ASSUME disk' = disk
  PROVE  /\ Disk!Chain' = Disk!Chain /\ Disk!Needed' = Disk!Needed /\ Sec' = Sec
         /\ \A n, s : Has(n, s)' = Has(n, s)
<1>1. \A img, o : Disk!ByteOf(img, o)' = Disk!ByteOf(img, o)
  BY BytesKept
<1>2. Disk!Chain' = Disk!Chain
  BY ChainKept
<1>3. Disk!Needed' = Disk!Needed
  BY <1>1, NeededKept
<1>4. Sec' = Sec
  BY SectorsKept DEF Sec
<1>5. \A n, s : Has(n, s)' = Has(n, s)
  BY <1>1, <1>2 DEF Has
<1> QED
  BY <1>2, <1>3, <1>4, <1>5

NeededInv ==
  pc \in Searching => LeftInv /\ NoneEmpty /\ \E n \in 1 .. MaxDepth : AtImage(n)

LEMMA FirstOfChain ==
  ASSUME ReaderInit
  PROVE  NeededInv
<1>1. /\ pc = "image" /\ current = disk.top /\ imageSize = <<>> /\ loop = "none"
      /\ DOMAIN uncovered = {} /\ DOMAIN spans = {}
  BY DEF ReaderInit
<1>2. LeftInv
  BY <1>1 DEF LeftInv, P!GapsIn, P!RemoveCursor, P!HeldIn
<1>3. AtImage(1) /\ 1 \in 1 .. MaxDepth
  BY <1>1, ChainIs, NeededIs, MaxDepthAssumption DEF AtImage, Has
<1> QED
  BY <1>1, <1>2, <1>3 DEF NeededInv, NoneEmpty

\* the sectors of an image, counted as open() and as DeltaDisk count them
LEMMA SameSectors ==
  ASSUME disk \in Disks, NEW img \in DOMAIN disk.files, NEW first \in Nat,
         NEW r, ImageIs(img, first, r)
  PROVE  SectorsOf(r.extents) = Disk!Sectors(img) /\ Disk!Sectors(img) \in Nat
<1>0. PICK eds : eds = Disk!Eds(img)
  OBVIOUS
<1>1. SoundEds(eds) /\ Disk!Sectors(img) = StartsOf(eds)[Len(eds) + 1]
      /\ DOMAIN eds = 1 .. Len(eds) /\ Len(eds) \in Nat
  BY <1>0, ImageEds DEF Disk!Sectors, Disk!Start, StartsOf, SoundEds
<1>2. DOMAIN r.extents = DOMAIN eds /\ \A j \in DOMAIN eds : ExtentIs(img, eds, first, r, j)
  BY <1>0, ExtentsAre
<1>3. \A j \in DOMAIN eds : r.extents[j].sectors = eds[j].sectors
  <2> TAKE j \in DOMAIN eds
  <2>1. ExtentIs(img, eds, first, r, j)
    BY <1>2
  <2>2. PICK st : r.extents[j] = [start_sector |-> StartsOf(eds)[j],
                                  sectors |-> eds[j].sectors, storage |-> st]
    BY Zenon, <2>1 DEF ExtentIs
  <2> QED
    BY <2>2
<1>4. PICK S : r.extents \in Seq(S)
  <2>1. IsQueue(r.extents)
    BY Zenon, ExtentsHaveFiles DEF ImageIs, Disk!Eds
  <2> QED
    BY <2>1 DEF IsQueue
<1>5. Len(r.extents) = Len(eds)
  <2>1. Len(r.extents) \in Nat /\ DOMAIN r.extents = 1 .. Len(r.extents)
    BY <1>4
  <2>2. 1 .. Len(r.extents) = 1 .. Len(eds)
    BY <1>1, <1>2, <2>1
  <2>3. \A a, b \in Nat : 1 .. a = 1 .. b => a = b
    OBVIOUS
  <2> QED
    BY <1>1, <2>1, <2>2, <2>3
<1>6. StartsOf(eds)[Len(eds) + 1] \in Nat
  BY <1>1, Starts DEF SoundEds
<1> QED
  BY Zenon, <1>1, <1>3, <1>4, <1>5, <1>6, SumOfSectors

\* no span of an extent is empty
LEMMA PiecesHaveSectors ==
  ASSUME disk \in Disks, NEW img \in DOMAIN disk.files, SoundLayout(img),
         NEW first \in Nat, NEW r, ImageIs(img, first, r)
  PROVE  \A k \in DOMAIN r.extents : \A p \in SpansOf(r.extents[k]) : p.beg < p.end
<1> SUFFICES ASSUME NEW k \in DOMAIN r.extents, NEW p \in SpansOf(r.extents[k])
             PROVE  p.beg < p.end
  OBVIOUS
<1>0. PICK eds : eds = Disk!Eds(img)
  OBVIOUS
<1> DEFINE ex == r.extents[k]
<1>1. IsQueue(r.extents)
  BY Zenon, ExtentsHaveFiles DEF ImageIs, Disk!Eds
<1>2. SoundExtent(ex)
  BY <1>1 DEF IsQueue
<1>3. k \in DOMAIN eds /\ ExtentIs(img, eds, first, r, k)
  BY <1>0, ExtentsAre
<1>4. eds[k].sectors > 0 /\ ex.sectors = eds[k].sectors
  BY <1>0, <1>3 DEF ExtentIs, SoundLayout
<1>5. ASSUME ex.storage.kind = "sparse"
      PROVE  ex.storage.grain_size > 0
  <2> DEFINE f == Disk!FileOf(img, eds[k])
             st == ReadExtent(eds[k], StartsOf(eds)[k], f, first + k - 1)
  <2>1. st = ex.storage /\ st # IoError /\ f \in DOMAIN disk.files
    BY <1>3 DEF ExtentIs
  <2>2. /\ eds[k].kind \in SparseKinds /\ disk.files[f].sig # "none" /\ disk.files[f].header.ok
        /\ st.grain_size = disk.files[f].header.cluster_sectors
    BY <1>3, <1>5, <2>1 DEF ReadExtent, SparseKinds, Named, ExtentIs
  <2>3. SoundTables(disk.files[f].header, eds[k])
    BY <1>0, <1>3, <2>1, <2>2 DEF SoundLayout
  <2> HIDE DEF st, f, ex
  <2> QED
    BY <1>2, <1>5, <2>1, <2>2, <2>3 DEF SoundTables, SoundExtent
<1> HIDE DEF ex
<1>6. CASE ex.storage.kind = "sparse"
  <2>1. PICK goff \in DOMAIN ex.storage.grain_table :
          p = [beg |-> ex.start_sector + goff * ex.storage.grain_size,
               end |-> (ex.start_sector + goff * ex.storage.grain_size)
                         + ex.storage.grain_size]
    BY <1>6 DEF SpansOf, ex
  <2>2. /\ ex.start_sector \in Nat /\ goff \in Nat
        /\ ex.storage.grain_size \in Nat /\ ex.storage.grain_size > 0
    BY <1>2, <1>5, <1>6 DEF SoundExtent
  <2>3. \A a, b, c \in Nat : c > 0 => (a + b * c) < (a + b * c) + c
    OBVIOUS
  <2> QED
    BY <2>1, <2>2, <2>3
<1>7. CASE ex.storage.kind # "sparse"
  BY <1>2, <1>4, <1>7 DEF SpansOf, SoundExtent, ex
<1> QED
  BY <1>6, <1>7

\* handle_image on the n-th image
LEMMA ImageNeeded ==
  ASSUME ReaderInv, SoundDisk, NeededInv, HandleImage
  PROVE  NeededInv'
<1> DEFINE read == ReadImage
           sectors == SectorsOf(read.extents)
<1> HIDE DEF read
<1>0. pc = "image" /\ disk' = disk /\ disk \in Disks /\ idx \in Nat /\ idx + 1 \in Nat
      /\ LeftInv /\ NoneEmpty /\ loop = "none"
  BY DEF HandleImage, ReaderInv, Counted, NeededInv, Searching, OpenInv
<1>1. PICK n \in 1 .. MaxDepth : AtImage(n)
  BY <1>0 DEF NeededInv, Searching
<1>2. CASE pc' \in {"failed", "panicked"}
  BY <1>2 DEF NeededInv, Searching
<1>3. CASE /\ read.outcome = "extents"
           /\ imageSize \in {<<>>, <<sectors * SectorSize>>}
           /\ pc' = "extents"
           /\ queue' = read.extents
           /\ parent' = disk.files[current].desc.parent
           /\ imageSize' = <<sectors * SectorSize>>
           /\ uncovered' = IF imageSize = <<>> THEN [b \in {0} |-> sectors]
                                               ELSE uncovered
           /\ UNCHANGED <<current, todo, extents, spans, loop, call, sbeg>>
  <2>1. current \in DOMAIN disk.files /\ disk.files[current].desc.ok
        /\ ImageIs(current, idx + 1, read)
    BY <1>3 DEF read, ReadImage, ImageIs, Disk!Eds
  <2>2. SoundLayout(current) /\ Sec > 0
    BY <2>1 DEF SoundDisk, Sec
  <2>3. sectors = Disk!Sectors(current) /\ sectors \in Nat
    BY <1>0, <2>1, SameSectors
  <2> HIDE DEF sectors
  <2>4. Disk!Chain[n] = current /\ Disk!Needed[n]
        /\ IF n = 1 THEN imageSize = <<>> ELSE Sec \in Nat /\ imageSize = <<Sec * SectorSize>>
    BY <1>0, <1>1 DEF AtImage
  <2>5. sectors = Sec /\ Sec \in Nat
    <3>1. CASE n = 1
      BY <2>3, <2>4, <3>1, ChainIs DEF Sec
    <3>2. CASE n # 1
      <4>1. sectors * SectorSize = Sec * SectorSize /\ Sec \in Nat
        BY <1>3, <2>4, <3>2
      <4>2. \A a, b, c \in Nat : c # 0 /\ a * c = b * c => a = b
        OBVIOUS
      <4> QED
        BY <2>3, <4>1, <4>2, StorageAssumption
    <3> QED
      BY <3>1, <3>2
  <2>6. /\ Disk!Chain' = Disk!Chain /\ Disk!Needed' = Disk!Needed /\ Sec' = Sec
        /\ \A s : Has(n, s)' = Has(n, s)
    BY <1>0, DiskKept
  <2>7. ASSUME NEW s \in Nat, s < Sec, Has(n, s)
        PROVE  Owned(s)' \/ Pending(s)'
    <3>1. PICK m \in 1 .. n : Disk!ByteOf(Disk!Chain[m], s * SectorSize) # Disk!Absent
      BY <2>7 DEF Has
    <3>2. CASE m # n
      <4>1. m \in 1 .. n - 1
        BY <3>2
      <4>2. Has(n - 1, s)
        BY <3>1, <4>1 DEF Has
      <4>3. Owned(s) \/ Pending(s)
        BY <1>0, <1>1, <2>7, <4>2 DEF AtImage
      <4>4. Owned(s)
        BY <1>0, <4>3 DEF Pending
      <4> QED
        BY <1>3, <4>4 DEF Owned
    <3>3. CASE m = n
      <4> DEFINE o == s * SectorSize
      <4>1. o \in Nat /\ o \div SectorSize = s
        BY StorageAssumption, DivModOf
      <4>2. Disk!ByteOf(current, o) # Disk!Absent
        BY <2>4, <3>1, <3>3
      <4> HIDE DEF o
      <4>3. \E k \in DOMAIN read.extents : InSpans(read.extents[k], o \div SectorSize)
        BY Zenon, <1>0, <2>1, <2>2, <2>3, <2>5, <2>7, <4>1, <4>2, ImageHas
      <4>4. \E k \in DOMAIN queue' : InSpans(queue'[k], s)
        BY <1>3, <4>1, <4>3
      <4> QED
        BY <1>3, <4>4 DEF Pending
    <3> QED
      BY <3>2, <3>3
  <2>8. AtImage(n)'
    <3>1. imageSize' = <<Sec * SectorSize>>
      BY <1>3, <2>5
    <3> QED
      BY <1>0, <1>3, <2>1, <2>4, <2>5, <2>6, <2>7, <3>1 DEF AtImage
  <2>9. LeftInv'
    <3>1. CASE n = 1
      <4>1. imageSize = <<>> /\ DOMAIN spans' = {} /\ imageSize' # <<>>
        BY <1>0, <1>3, <2>4, <3>1 DEF LeftInv
      <4>2. DOMAIN uncovered' = {0} /\ uncovered'[0] = Sec /\ loop' = "none"
        BY <1>0, <1>3, <2>5, <4>1
      <4>3. P!GapsIn(uncovered') /\ P!RemoveCursor'
        BY <2>2, <2>5, <4>2 DEF P!GapsIn, P!RemoveCursor
      <4>4. \A s \in Nat : P!HeldIn(uncovered', s) => s < Sec
        BY <2>5, <4>2 DEF P!HeldIn
      <4>5. \A s : ~Owned(s)'
        BY <4>1 DEF Owned, P!OwnersIn
      <4>6. \A b \in DOMAIN uncovered' : b < uncovered'[b]
        BY <2>2, <2>5, <4>2
      <4>7. \A s \in Nat : P!HeldIn(uncovered', s) => s < Sec' /\ (Owned(s)' => P!Unsettled(s)')
        BY <2>6, <4>4, <4>5
      <4>8. P!GapsIn(uncovered)' /\ \A s : P!HeldIn(uncovered, s)' <=> P!HeldIn(uncovered', s)
        BY <4>3 DEF P!GapsIn, P!HeldIn
      <4>9. DOMAIN uncovered' # {}
        BY <4>2
      <4> QED
        BY <4>1, <4>3, <4>6, <4>7, <4>8, <4>9 DEF LeftInv
    <3>2. CASE n # 1
      <4>2. imageSize = <<Sec * SectorSize>>
        BY <2>4, <3>2
      <4>3. imageSize # <<>> /\ imageSize' # <<>>
        BY <1>3, <4>2
      <4>1. imageSize # <<>> /\ imageSize' # <<>> /\ uncovered' = uncovered
            /\ spans' = spans /\ loop' = loop /\ call' = call /\ sbeg' = sbeg
        BY <1>3, <4>3
      <4> QED
        BY <1>0, <1>3, <2>6, <4>1
        DEF LeftInv, P!GapsIn, P!RemoveCursor, P!HeldIn, Owned, P!Unsettled
    <3> QED
      BY <3>1, <3>2
  <2>10. NoneEmpty'
    BY <1>0, <1>3, <2>1, <2>2, PiecesHaveSectors DEF NoneEmpty
  <2> QED
    BY <2>8, <2>9, <2>10 DEF NeededInv
<1> QED
  BY <1>2, <1>3 DEF HandleImage, openVars, read

\* where the maps and the extents stay with the image they are for
LEMMA StillAtImage ==
  ASSUME disk' = disk, current' = current, parent' = parent, imageSize' = imageSize,
         pc # "image", pc' # "image",
         \A s \in Nat : Owned(s) \/ Pending(s) => Owned(s)' \/ Pending(s)',
         NEW n \in 1 .. MaxDepth, AtImage(n)
  PROVE  AtImage(n)'
<1>1. /\ Disk!Chain' = Disk!Chain /\ Disk!Needed' = Disk!Needed /\ Sec' = Sec
      /\ \A s : Has(n, s)' = Has(n, s)
  BY DiskKept
<1> QED
  BY <1>1 DEF AtImage

\* open() turns to the extent at the head of the queue
LEMMA ExtentNeeded ==
  ASSUME ReaderInv, NeededInv, BeginExtent
  PROVE  NeededInv'
<1>1. /\ pc = "extents" /\ pc' = "spans" /\ queue # <<>> /\ queue' = queue
      /\ todo' = SpansOf(Head(queue)) /\ disk' = disk /\ current' = current
      /\ parent' = parent /\ imageSize' = imageSize
      /\ spans' = spans /\ uncovered' = uncovered /\ loop' = loop /\ call' = call
      /\ sbeg' = sbeg /\ LeftInv /\ NoneEmpty
  BY DEF BeginExtent, mapVars, NeededInv, Searching
<1>2. PICK n \in 1 .. MaxDepth : AtImage(n)
  BY <1>1 DEF NeededInv, Searching
<1>3. 1 \in DOMAIN queue /\ Head(queue) = queue[1]
  <2>1. IsQueue(queue)
    BY <1>1 DEF ReaderInv, Counted
  <2>2. PICK S : queue \in Seq(S)
    BY <2>1 DEF IsQueue
  <2> QED
    BY <1>1, <2>2
<1>4. ASSUME NEW s \in Nat, Pending(s)
      PROVE  Pending(s)'
  <2>1. PICK k \in DOMAIN queue : InSpans(queue[k], s)
    BY <1>1, <1>4 DEF Pending
  <2>2. CASE k = 1
    <3>1. \E p \in todo' : p.beg <= s /\ s < p.end
      BY <1>1, <1>3, <2>1, <2>2 DEF InSpans
    <3> QED
      BY <1>1, <3>1 DEF Pending
  <2>3. CASE k # 1
    <3>1. \E j \in DOMAIN queue' : j # 1 /\ InSpans(queue'[j], s)
      BY <1>1, <2>1, <2>3
    <3> QED
      BY <1>1, <3>1 DEF Pending
  <2> QED
    BY <2>2, <2>3
<1>5. AtImage(n)'
  BY <1>1, <1>2, <1>4, StillAtImage DEF Owned
<1>6. LeftInv'
  <2>1. Sec' = Sec
    BY <1>1, DiskKept
  <2> QED
    BY <1>1, <2>1 DEF LeftInv, P!GapsIn, P!RemoveCursor, P!HeldIn, Owned, P!Unsettled, P!Passed
<1>7. NoneEmpty'
  BY <1>1, <1>3 DEF NoneEmpty
<1> QED
  BY <1>5, <1>6, <1>7 DEF NeededInv

\* open() goes on to insert a span
LEMMA PieceNeeded ==
  ASSUME NeededInv, InsertOne
  PROVE  NeededInv'
<1>1. PICK p \in todo : Maps!Claim(p.beg, p.end, Len(extents)) /\ todo' = todo \ {p}
  BY DEF InsertOne
<1>2. /\ pc = "spans" /\ pc' = "spans" /\ queue' = queue /\ disk' = disk
      /\ current' = current /\ parent' = parent /\ imageSize' = imageSize
      /\ LeftInv /\ NoneEmpty
  BY DEF InsertOne, NeededInv, Searching
<1>3. /\ loop = "none" /\ loop' = "insert" /\ sbeg' = p.beg
      /\ call' = [beg |-> p.beg, end |-> p.end, val |-> Len(extents)]
      /\ spans' = spans /\ uncovered' = uncovered
  BY <1>1 DEF Maps!Claim
<1>4. call'.beg = p.beg /\ call'.end = p.end /\ p.beg < p.end
  BY <1>2, <1>3 DEF NoneEmpty
<1>5. PICK n \in 1 .. MaxDepth : AtImage(n)
  BY <1>2 DEF NeededInv, Searching
<1>6. ASSUME NEW s \in Nat, Pending(s)
      PROVE  Pending(s)'
  <2>1. CASE \E k \in DOMAIN queue : k # 1 /\ InSpans(queue[k], s)
    <3>1. \E k \in DOMAIN queue' : k # 1 /\ InSpans(queue'[k], s)
      BY <1>2, <2>1
    <3> QED
      BY <1>2, <3>1 DEF Pending
  <2>2. CASE \E q \in todo : q.beg <= s /\ s < q.end
    <3>1. PICK q \in todo : q.beg <= s /\ s < q.end
      BY <2>2
    <3>2. CASE q = p
      BY <1>2, <1>3, <1>4, <3>1, <3>2 DEF Pending
    <3>3. CASE q # p
      <4>1. q \in todo'
        BY <1>1, <3>3
      <4> QED
        BY <1>2, <3>1, <4>1 DEF Pending
    <3> QED
      BY <3>2, <3>3
  <2> QED
    BY <1>2, <1>3, <1>6, <2>1, <2>2 DEF Pending
<1>7. AtImage(n)'
  BY <1>2, <1>3, <1>5, <1>6, StillAtImage DEF Owned
<1>8. LeftInv'
  <2>1. Sec' = Sec
    BY <1>2, DiskKept
  <2>2. P!RemoveCursor'
    BY <1>3, <1>4 DEF P!RemoveCursor
  <2> QED
    BY <1>2, <1>3, <2>1, <2>2 DEF LeftInv, P!GapsIn, P!HeldIn, Owned, P!Unsettled
<1>9. NoneEmpty'
  BY <1>1, <1>2 DEF NoneEmpty
<1> QED
  BY <1>7, <1>8, <1>9 DEF NeededInv

\* an extent is done
LEMMA EndExtentNeeded ==
  ASSUME ReaderInv, NeededInv, EndExtent
  PROVE  NeededInv'
<1>1. /\ pc = "spans" /\ pc' \in {"fill", "extents"} /\ queue' = Tail(queue) /\ disk' = disk
      /\ loop = "none" /\ todo = {} /\ (pc' = "extents" => DOMAIN uncovered # {})
      /\ current' = current /\ parent' = parent /\ imageSize' = imageSize
      /\ spans' = spans /\ uncovered' = uncovered /\ loop' = loop /\ call' = call
      /\ sbeg' = sbeg /\ LeftInv /\ NoneEmpty
  BY Zenon DEF EndExtent, mapVars, NeededInv, Searching
<1>2. CASE pc' = "fill"
  BY <1>2 DEF NeededInv, Searching
<1>3. CASE pc' = "extents"
  <2>1. PICK n \in 1 .. MaxDepth : AtImage(n)
    BY <1>1 DEF NeededInv, Searching
  <2>2. ASSUME NEW j \in DOMAIN queue, j # 1
        PROVE  j - 1 \in DOMAIN queue' /\ queue'[j - 1] = queue[j]
    <3>0. IsQueue(queue)
      BY <1>1 DEF ReaderInv, Counted
    <3>1. PICK S : queue \in Seq(S)
      BY <3>0 DEF IsQueue
    <3>2. queue # <<>> /\ Tail(queue) \in Seq(S) /\ Len(Tail(queue)) = Len(queue) - 1
          /\ \A k \in 1 .. Len(queue) - 1 : Tail(queue)[k] = queue[k + 1]
      BY <2>2, <3>1
    <3> QED
      BY <1>1, <2>2, <3>1, <3>2
  <2>3. ASSUME NEW s \in Nat, Pending(s)
        PROVE  Pending(s)'
    <3>1. PICK j \in DOMAIN queue : j # 1 /\ InSpans(queue[j], s)
      BY <1>1, <2>3 DEF Pending
    <3>2. \E k \in DOMAIN queue' : InSpans(queue'[k], s)
      BY <2>2, <3>1
    <3> QED
      BY <1>3, <3>2 DEF Pending
  <2>4. AtImage(n)'
    BY <1>1, <1>3, <2>1, <2>3, StillAtImage DEF Owned
  <2>5. LeftInv'
    <3>1. Sec' = Sec
      BY <1>1, DiskKept
    <3> QED
      BY <1>1, <1>3, <3>1
      DEF LeftInv, P!GapsIn, P!RemoveCursor, P!HeldIn, Owned, P!Unsettled, P!Passed
  <2>6. NoneEmpty'
    <3>1. ASSUME NEW k \in DOMAIN queue'
          PROVE  k + 1 \in DOMAIN queue /\ queue'[k] = queue[k + 1]
      <4>0. IsQueue(queue)
        BY <1>1 DEF ReaderInv, Counted
      <4>1. PICK S : queue \in Seq(S)
        BY <4>0 DEF IsQueue
      <4>2. queue # <<>>
        BY <1>1 DEF ReaderInv, Counted
      <4>3. Tail(queue) \in Seq(S) /\ Len(Tail(queue)) = Len(queue) - 1
            /\ \A x \in 1 .. Len(queue) - 1 : Tail(queue)[x] = queue[x + 1]
        BY <4>1, <4>2
      <4> QED
        BY <1>1, <3>1, <4>1, <4>2, <4>3
    <3>2. \A k \in DOMAIN queue : \A p \in SpansOf(queue[k]) : p.beg < p.end
      BY <1>1 DEF NoneEmpty
    <3> QED
      BY <1>3, <3>1, <3>2 DEF NoneEmpty
  <2> QED
    BY <2>4, <2>5, <2>6 DEF NeededInv
<1> QED
  BY <1>1, <1>2, <1>3

\* remove_span leaves no empty span
LEMMA RemoveLeavesSome ==
  ASSUME MapsOK, \A b \in DOMAIN uncovered : b < uncovered[b], P!RemoveSpan
  PROVE  \A b \in DOMAIN uncovered' : b < uncovered'[b]
<1> DEFINE Some(m) == \A b \in DOMAIN m : b < m[b]
<1>1. \A c \in DOMAIN uncovered : c \in Nat /\ uncovered[c] \in Nat
  BY MapTypes
<1>2. ASSUME NEW m, Some(m), NEW x, NEW y, x < y
      PROVE  Some(P!Put(m, x, y))
  BY <1>2 DEF P!Put
<1>3. ASSUME NEW m, Some(m), NEW x
      PROVE  Some(P!Drop(m, x))
  BY <1>3 DEF P!Drop
<1>4. Some(uncovered)
  OBVIOUS
<1> HIDE DEF Some
<1>5. \A b \in DOMAIN uncovered : Some(P!CutBack(b))
  BY <1>2, <1>3, <1>4 DEF P!CutBack
<1>6. ASSUME NEW m, Some(m), NEW k, P!RemoveNext(m, k)
      PROVE  Some(uncovered')
  BY <1>2, <1>3, <1>6 DEF P!RemoveNext
<1>7. Some(uncovered')
  <2>1. CASE P!RemoveLast
    BY <1>2, <1>5, <2>1 DEF P!RemoveLast
  <2>2. CASE P!RemoveFirst
    BY <1>5, <1>6, <2>2 DEF P!RemoveFirst
  <2>3. CASE P!RemoveAhead
    BY <1>4, <1>6, <2>3 DEF P!RemoveAhead
  <2> QED
    BY <2>1, <2>2, <2>3 DEF P!RemoveSpan
<1> QED
  BY <1>7 DEF Some

\* an iteration of insert_span or remove_span
LEMMA RunNeeded ==
  ASSUME ReaderInv, NeededInv, RunMaps
  PROVE  NeededInv'
<1>1. /\ pc = "spans" /\ pc' = "spans" /\ queue' = queue /\ disk' = disk /\ todo' = todo
      /\ current' = current /\ parent' = parent /\ imageSize' = imageSize
      /\ LeftInv /\ NoneEmpty /\ MapsOK /\ Swept /\ imageSize # <<>>
      /\ Maps!InsertSpan("remove") \/ Maps!RemoveSpan
  BY DEF RunMaps, openVars, NeededInv, Searching, ReaderInv, OpenInv
<1>2. PICK n \in 1 .. MaxDepth : AtImage(n)
  BY <1>1 DEF NeededInv, Searching
<1>3. Sec' = Sec
  BY <1>1, DiskKept
<1>4. NoneEmpty'
  BY <1>1 DEF NoneEmpty
<1>5. sbeg \in Nat /\ (loop # "none" => call.beg \in Nat /\ call.end \in Nat)
  BY <1>1, MapTypes
<1>6. CASE Maps!InsertSpan("remove")
  <2>1. /\ NothingLost /\ loop = "insert" /\ uncovered' = uncovered
        /\ loop' \in {"insert", "remove"}
        /\ loop' # "none" => call' = call
        /\ loop' # "insert" => \A s \in Nat : call.beg <= s /\ s < call.end => Owned(s)'
    BY <1>1, <1>6, InsertKeeps
  <2>2. PICK k \in Nat : P!SweptTo(k, "remove") /\ P!HandedOut(spans', k)
    BY <1>1, <1>6, SameInsert, SpansAssumed, P!InsertStep DEF MapsOK
  <2>3. call.beg <= sbeg /\ sbeg <= call.end /\ call.beg < call.end /\ call' = call
    BY <1>1, <2>1, MapTypes DEF LeftInv, P!RemoveCursor
  <2>4. \/ k = call.end /\ loop' = "remove" /\ sbeg' = call.beg
        \/ sbeg < k /\ k <= call.end /\ loop' = "insert" /\ sbeg' = k
    BY <2>1, <2>2 DEF P!SweptTo, P!Return, P!Continue
  <2>5. ASSUME NEW s \in Nat, Owned(s) \/ Pending(s)
        PROVE  Owned(s)' \/ Pending(s)'
    <3>1. CASE Owned(s)
      BY <2>1, <3>1 DEF NothingLost, Owned
    <3>2. CASE call.beg <= s /\ s < call.end
      BY <1>1, <2>1, <2>3, <3>2 DEF Pending
    <3>3. CASE \/ \E j \in DOMAIN queue : j # 1 /\ InSpans(queue[j], s)
               \/ \E p \in todo : p.beg <= s /\ s < p.end
      BY <1>1, <3>3 DEF Pending
    <3> QED
      BY <1>1, <2>5, <3>1, <3>2, <3>3 DEF Pending
  <2>6. AtImage(n)'
    BY <1>1, <1>2, <2>5, StillAtImage
  <2>7. P!RemoveCursor'
    BY <1>5, <2>1, <2>3, <2>4 DEF P!RemoveCursor
  <2>8. ASSUME NEW s \in Nat, P!HeldIn(uncovered, s)
        PROVE  s < Sec /\ (Owned(s)' => P!Unsettled(s)')
    <3>1. s < Sec /\ (Owned(s) => call.beg <= s /\ s < sbeg)
      BY <1>1, <2>1, <2>8 DEF LeftInv, P!Unsettled
    <3>2. Owned(s)' => Owned(s) \/ (sbeg <= s /\ s < k)
      BY <2>2 DEF P!HandedOut, Owned
    <3>3. P!Unsettled(s)' <=> call.beg <= s /\ s < k
      BY <1>5, <2>1, <2>3, <2>4 DEF P!Unsettled
    <3>4. sbeg <= k
      BY <1>5, <2>1, <2>3, <2>4
    <3> QED
      BY <1>5, <2>1, <2>3, <3>1, <3>2, <3>3, <3>4
  <2>9. LeftInv'
    BY <1>1, <1>3, <2>1, <2>7, <2>8 DEF LeftInv, P!GapsIn, P!HeldIn
  <2> QED
    BY <1>4, <2>6, <2>9 DEF NeededInv
<1>7. CASE Maps!RemoveSpan
  <2>1. P!RemoveSpan /\ P!RInv /\ loop = "remove" /\ spans' = spans
    BY <1>1, <1>7, SameRemove DEF P!RInv, MapsOK, LeftInv, P!RemoveSpan
  <2>2. /\ P!GapsIn(uncovered') /\ (loop' = "remove" => P!Passed(uncovered', sbeg'))
        /\ \E k \in Nat : P!SweptTo(k, "none") /\ P!TakenOut(uncovered, uncovered', k)
    BY <2>1, SpansAssumed, P!RemoveStep
  <2>3. PICK k \in Nat : P!SweptTo(k, "none") /\ P!TakenOut(uncovered, uncovered', k)
    BY <2>2
  <2>4. call.beg <= sbeg /\ sbeg <= call.end
    BY <1>1, <2>1 DEF LeftInv, P!RemoveCursor
  <2>5. \/ k = call.end /\ loop' = "none"
        \/ sbeg < k /\ k <= call.end /\ loop' = "remove" /\ sbeg' = k /\ call' = call
    BY <2>1, <2>3 DEF P!SweptTo, P!Return, P!Continue
  <2>6. ASSUME NEW s \in Nat, Owned(s) \/ Pending(s)
        PROVE  Owned(s)' \/ Pending(s)'
    BY <1>1, <2>1, <2>6 DEF Pending, Owned
  <2>7. AtImage(n)'
    BY <1>1, <1>2, <2>6, StillAtImage
  <2>8. P!RemoveCursor'
    BY <1>5, <2>1, <2>2, <2>4, <2>5 DEF P!RemoveCursor
  <2>9. ASSUME NEW s \in Nat, P!HeldIn(uncovered', s)
        PROVE  s < Sec /\ (Owned(s)' => P!Unsettled(s)')
    <3>1. P!HeldIn(uncovered, s) /\ ~(sbeg <= s /\ s < k)
      BY <2>3, <2>9 DEF P!TakenOut
    <3>2. s < Sec /\ (Owned(s) => sbeg <= s /\ s < call.end)
      BY <1>1, <2>1, <3>1 DEF LeftInv, P!Unsettled
    <3>3. Owned(s)' = Owned(s)
      BY <2>1 DEF Owned
    <3> QED
      BY <1>5, <2>1, <2>5, <3>1, <3>2, <3>3 DEF P!Unsettled
  <2>10. \A b \in DOMAIN uncovered' : b < uncovered'[b]
    BY <1>1, <2>1, RemoveLeavesSome DEF LeftInv
  <2>11. LeftInv'
    <3>1. imageSize # <<>> \/ DOMAIN spans' = {}
      BY <1>1, <2>1 DEF LeftInv
    <3>2. P!GapsIn(uncovered)' /\ \A s : P!HeldIn(uncovered, s)' <=> P!HeldIn(uncovered', s)
      BY <2>2 DEF P!GapsIn, P!HeldIn
    <3> QED
      BY <1>1, <1>3, <2>8, <2>9, <2>10, <3>1, <3>2 DEF LeftInv
  <2> QED
    BY <1>4, <2>7, <2>11 DEF NeededInv
<1> QED
  BY <1>1, <1>6, <1>7

\* on to the parent: what is uncovered is in none of the images so far
LEMMA ParentNeeded ==
  ASSUME ReaderInv, SoundDisk, NeededInv, NextImage
  PROVE  NeededInv'
<1>1. /\ pc = "extents" /\ pc' \in {"fill", "image"} /\ queue = <<>> /\ disk' = disk
      /\ pc' = "image" => parent # NoParent /\ current' = parent
      /\ imageSize' = imageSize /\ parent' = parent /\ queue' = queue /\ todo' = todo
      /\ spans' = spans /\ uncovered' = uncovered /\ loop' = loop /\ call' = call
      /\ sbeg' = sbeg /\ LeftInv /\ NoneEmpty /\ loop = "none" /\ imageSize # <<>> /\ MapsOK
  BY DEF NextImage, mapVars, NeededInv, Searching, ReaderInv, OpenInv
<1>2. CASE pc' = "fill"
  BY <1>2 DEF NeededInv, Searching
<1>3. CASE pc' = "image"
  <2>1. PICK n \in 1 .. MaxDepth : AtImage(n)
    BY <1>1 DEF NeededInv, Searching
  <2>2. /\ Disk!Chain[n] = current /\ Disk!Needed[n]
        /\ current \in DOMAIN disk.files /\ parent = disk.files[current].desc.parent
        /\ Sec \in Nat /\ imageSize = <<Sec * SectorSize>>
        /\ \A s \in Nat : s < Sec /\ Has(n, s) => Owned(s) \/ Pending(s)
    BY <1>1, <2>1 DEF AtImage
  <2>3. n + 1 \in 1 .. MaxDepth /\ n \in Nat
    <3>1. n # MaxDepth
      BY <1>1, <1>3, <2>2 DEF SoundDisk, ChainEnds
    <3> QED
      BY <3>1, MaxDepthAssumption
  <2>4. Disk!Chain[n + 1] = parent
    <3>1. n + 1 # 1 /\ (n + 1) - 1 = n
      BY <2>3
    <3>2. Disk!Chain[n + 1] = ParentOf(Disk!Chain[(n + 1) - 1])
      BY <2>3, <3>1, ChainIs
    <3> QED
      BY <2>2, <3>1, <3>2 DEF ParentOf
  <2>5. PICK b \in DOMAIN uncovered : b \in Nat /\ b < Sec /\ ~Owned(b)
    <3>1. PICK b \in DOMAIN uncovered : TRUE
      BY <1>1 DEF LeftInv
    <3>2. b \in Nat /\ P!HeldIn(uncovered, b)
      BY <1>1, MapTypes DEF LeftInv, P!HeldIn
    <3> QED
      BY <1>1, <3>2 DEF LeftInv, P!Unsettled
  <2>6. ~Has(n, b)
    <3>1. ~Pending(b)
      BY <1>1 DEF Pending
    <3> QED
      BY <2>2, <2>5, <3>1
  <2>7. b * SectorSize \in Disk!Offset
    <3>1. \A x, y, z \in Nat : x < y /\ z > 0 => x * z \in 0 .. y * z - 1
      OBVIOUS
    <3> QED
      BY <2>2, <2>5, <3>1, StorageAssumption DEF Disk!Offset, Disk!Size, Sec
  <2>8. Wanted(n + 1)
    <3>1. \A m \in 1 .. (n + 1) - 1 :
            Disk!ByteOf(Disk!Chain[m], b * SectorSize) = Disk!Absent
      BY <2>3, <2>6 DEF Has
    <3> QED
      BY <1>1, <1>3, <2>4, <2>7, <3>1 DEF Wanted
  <2>9. Disk!Needed[n + 1]
    <3>1. n + 1 # 1 /\ (n + 1) - 1 = n
      BY <2>3
    <3> QED
      BY Zenon, <2>2, <2>3, <2>8, <3>1, NeededIs
  <2>10. /\ Disk!Chain' = Disk!Chain /\ Disk!Needed' = Disk!Needed /\ Sec' = Sec
         /\ \A s : Has(n, s)' = Has(n, s)
    BY <1>1, DiskKept
  <2>11. AtImage(n + 1)'
    <3>1. ASSUME NEW s \in Nat, s < Sec, Has(n, s)
          PROVE  Owned(s)'
      <4>1. ~Pending(s)
        BY <1>1 DEF Pending
      <4> QED
        BY <1>1, <2>2, <3>1, <4>1 DEF Owned
    <3>2. n + 1 # 1 /\ (n + 1) - 1 = n
      BY <2>3
    <3> QED
      BY <1>1, <1>3, <2>2, <2>4, <2>9, <2>10, <3>1, <3>2 DEF AtImage
  <2>12. LeftInv'
    BY <1>1, <1>3, <2>10 DEF LeftInv, P!GapsIn, P!RemoveCursor, P!HeldIn, Owned, P!Unsettled
  <2>13. NoneEmpty'
    BY <1>3 DEF NoneEmpty
  <2> QED
    BY <2>3, <2>11, <2>12, <2>13 DEF NeededInv
<1> QED
  BY <1>1, <1>2, <1>3

-----------------------------------------------------------------------------
\* the inductive invariant of the way along the chain
SearchInv == ReaderInv /\ SoundDisk /\ NeededInv

LEMMA NextSearchInv == SearchInv /\ [ReaderNext]_vars => SearchInv'
<1> SUFFICES ASSUME SearchInv, [ReaderNext]_vars
             PROVE  SearchInv'
  OBVIOUS
<1>1. ReaderInv /\ SoundDisk /\ NeededInv
  BY DEF SearchInv
<1>2. ReaderInv'
  BY <1>1, NextReaderInv
<1>3. disk' = disk
  BY Zenon DEF ReaderNext, OpenStep, HandleImage, ImageFault, BeginExtent, InsertOne, RunMaps,
     EndExtent, NextImage, FillZeros, RunFill, EndFill, Opened, Refuse, Call, ReadStep,
     ReadPiece, ReadFault, Return, Forget, vars
<1>4. SoundDisk'
  BY <1>1, <1>3, SoundDiskKept
<1>5. NeededInv'
  <2>1. CASE HandleImage
    BY <1>1, <2>1, ImageNeeded
  <2>2. CASE BeginExtent
    BY <1>1, <2>2, ExtentNeeded
  <2>3. CASE InsertOne
    BY <1>1, <2>3, PieceNeeded
  <2>4. CASE RunMaps
    BY <1>1, <2>4, RunNeeded
  <2>5. CASE EndExtent
    BY <1>1, <2>5, EndExtentNeeded
  <2>6. CASE NextImage
    BY <1>1, <2>6, ParentNeeded
  <2>7. CASE UNCHANGED vars
    <3>1. /\ pc' = pc /\ queue' = queue /\ todo' = todo /\ current' = current
          /\ parent' = parent /\ imageSize' = imageSize /\ spans' = spans
          /\ uncovered' = uncovered /\ loop' = loop /\ call' = call /\ sbeg' = sbeg
      BY <2>7 DEF vars, openVars, mapVars
    <3>2. /\ Disk!Chain' = Disk!Chain /\ Disk!Needed' = Disk!Needed /\ Sec' = Sec
          /\ \A n, s : Has(n, s)' = Has(n, s)
      BY <1>3, DiskKept
    <3>3. \A n \in 1 .. MaxDepth : AtImage(n) => AtImage(n)'
      BY <1>3, <3>1, <3>2 DEF AtImage, Owned, Pending
    <3>4. LeftInv => LeftInv'
      BY <3>1, <3>2
      DEF LeftInv, P!GapsIn, P!RemoveCursor, P!HeldIn, Owned, P!Unsettled, P!Passed
    <3>5. NoneEmpty => NoneEmpty'
      BY <3>1 DEF NoneEmpty
    <3> QED
      BY <1>1, <3>1, <3>3, <3>4, <3>5 DEF NeededInv
  <2>8. CASE pc' \notin Searching
    BY <2>8 DEF NeededInv
  <2>9. CASE \/ ImageFault \/ FillZeros \/ RunFill \/ EndFill \/ Opened
             \/ ReadStep \/ Forget
             \/ \E off, len, faulty : Refuse(off, len) \/ Call(off, len, faulty)
    BY Zenon, <2>8, <2>9
    DEF Searching, ImageFault, FillZeros, RunFill, EndFill, Opened, ReadStep, ReadPiece,
        ReadFault, Return, Forget, Refuse, Call, Answer
  <2> QED
    BY <2>1, <2>2, <2>3, <2>4, <2>5, <2>6, <2>7, <2>9 DEF ReaderNext, OpenStep
<1> QED
  BY <1>2, <1>4, <1>5 DEF SearchInv

LEMMA SearchIsNeeded == SearchInv => OpensOnlyNeeded
BY DEF SearchInv, NeededInv, Searching, AtImage, OpensOnlyNeeded

\* open() goes on to an image only when those before it leave a byte of the
\* disk to it
THEOREM OnlyNeededOpened == ReaderSpec /\ SoundDisk => []OpensOnlyNeeded
<1>1. ReaderInit /\ SoundDisk => SearchInv
  BY InitReaderInv, FirstOfChain DEF SearchInv
<1> QED
  BY <1>1, NextSearchInv, SearchIsNeeded, PTL DEF ReaderSpec

-----------------------------------------------------------------------------
(***************************************************************************)
(* What is assumed of a disk that is read.                                 *)
(***************************************************************************)

\* the entries of the tables are numbers
WholeTables(h) == \A q \in DOMAIN h.l1 : h.l1[q] \in Seq(Nat)

SeEntries == [nibble : Nat, index : Nat]

\* and the grains come after the headers
WholeSeTables(h) ==
  /\ h.clusters_offset \in Nat /\ h.clusters_offset > 1
  /\ \A q \in DOMAIN h.l1 : h.l1[q] \in SeEntries
  /\ h.tables \in Seq(Seq(SeEntries))

\* an image has one extent, of a kind that read_extent knows, and that begins where
\* its file does
WholeImage(img) ==
  LET eds == Disk!Eds(img)
      f == Disk!FileOf(img, eds[1])
  IN  /\ Len(eds) = 1
      /\ eds[1].kind \in Named
      /\ eds[1].kind \notin SparseKinds => eds[1].offset = 0
      /\ f \in DOMAIN disk.files /\ disk.files[f].header.ok =>
           CASE eds[1].kind \in Disk!SparseKinds /\ disk.files[f].sig \in {"vmdk3", "vmdk4"} ->
                  WholeTables(disk.files[f].header)
             [] eds[1].kind = "SESPARSE" /\ disk.files[f].sig = "sesparse" ->
                  WholeSeTables(disk.files[f].header)
             [] OTHER -> TRUE

WholeDisk ==
  /\ NoParent \notin DOMAIN disk.files
  /\ \A f \in DOMAIN disk.files : disk.files[f].len \in Nat
  /\ \A img \in DOMAIN disk.files : disk.files[img].desc.ok => WholeImage(img)

\* an image that its descriptor describes
IsImage(img) == img \in DOMAIN disk.files /\ SoundLayout(img) /\ WholeImage(img)

\* the file that the data of the image are in
Data(img) == Disk!FileOf(img, Disk!Eds(img)[1])

-----------------------------------------------------------------------------
(***************************************************************************)
(* The bytes of an image.                                                  *)
(***************************************************************************)

\* its one extent
LEMMA OneExtent ==
  ASSUME disk \in Disks, NEW img, IsImage(img),
         NEW eds, eds = Disk!Eds(img)
  PROVE  /\ SoundEds(eds) /\ Len(eds) = 1 /\ DOMAIN eds = {1} /\ eds[1].sectors \in Nat
         /\ StartsOf(eds)[1] = 0 /\ StartsOf(eds)[2] = eds[1].sectors
         /\ Disk!Sectors(img) = eds[1].sectors
<1>1. img \in DOMAIN disk.files /\ Len(eds) = 1
  BY DEF IsImage, WholeImage
<1>2. SoundEds(eds)
  BY <1>1, ImageEds
<1>3. DOMAIN eds = {1}
  BY <1>1, <1>2 DEF SoundEds
<1>4. eds[1].sectors \in Nat
  BY <1>2, <1>3 DEF SoundEds
<1>5. /\ StartsOf(eds)[1] = 0
      /\ \A j \in DOMAIN eds : StartsOf(eds)[j + 1] = StartsOf(eds)[j] + eds[j].sectors
  BY <1>2, Starts DEF SoundEds
<1>6. StartsOf(eds)[1 + 1] = eds[1].sectors
  BY <1>3, <1>4, <1>5
<1>7. Disk!Sectors(img) = StartsOf(eds)[Len(eds) + 1]
  BY DEF Disk!Sectors, Disk!Start, StartsOf
<1> QED
  BY <1>1, <1>2, <1>3, <1>4, <1>5, <1>6, <1>7

\* where the image has a byte
LEMMA WholeByte ==
  ASSUME disk \in Disks, NEW img, IsImage(img), NEW o \in Nat,
         o \div SectorSize < Disk!Sectors(img), NEW ed, ed = Disk!Eds(img)[1]
  PROVE  Disk!ByteOf(img, o) =
           IF ed.kind \notin SparseKinds THEN <<Data(img), o>>
           ELSE IF ed.kind = "SESPARSE" THEN Disk!SeSparseByte(Data(img), o)
                                        ELSE Disk!SparseByte(Data(img), o)
<1>0. PICK eds : eds = Disk!Eds(img)
  OBVIOUS
<1>1. /\ SoundEds(eds) /\ Len(eds) = 1 /\ DOMAIN eds = {1}
      /\ StartsOf(eds)[1] = 0 /\ StartsOf(eds)[2] = eds[1].sectors
      /\ Disk!Sectors(img) = eds[1].sectors
  BY <1>0, OneExtent
<1>2. o \div SectorSize \in Nat /\ SectorSize \in Nat
  BY StorageAssumption
<1>3. Placed(eds, 1, o \div SectorSize)
  BY <1>1, <1>2 DEF Placed
<1>4. Disk!ByteOf(img, o) = ByteAt(img, eds, 1, o)
  <2>1. o \div SectorSize < StartsOf(eds)[Len(eds) + 1]
    BY <1>1
  <2> QED
    BY Zenon, <1>0, <1>1, <1>3, <2>1, PlaceOfByte
<1>5. o - StartsOf(eds)[1] * SectorSize = o
  BY <1>1, <1>2
<1>6. /\ ed = eds[1] /\ ed.kind \in Named
      /\ ed.kind \notin SparseKinds => ed.offset = 0
  BY <1>0 DEF IsImage, WholeImage
<1>7. PICK p : p = ed.offset * SectorSize + o
  OBVIOUS
<1>10. ByteAt(img, eds, 1, o) =
        CASE ed.kind \in Disk!FlatKinds   -> <<Data(img), p>>
          [] ed.kind \in Disk!SparseKinds -> Disk!SparseByte(Data(img), o)
          [] ed.kind = "SESPARSE"         -> Disk!SeSparseByte(Data(img), o)
  BY Zenon, <1>0, <1>5, <1>6, <1>7 DEF ByteAt, Data
<1>8. CASE ed.kind \notin SparseKinds
  <2>1. p = o
    <3>1. \A x \in Nat : 0 * x = 0
      OBVIOUS
    <3>2. ed.offset = 0
      BY <1>6, <1>8
    <3>3. PICK x : x = ed.offset * SectorSize
      OBVIOUS
    <3>4. x = 0
      BY <1>2, <3>1, <3>2, <3>3
    <3> QED
      BY <1>7, <3>3, <3>4
  <2>2. ed.kind \in Disk!FlatKinds
    BY <1>6, <1>8 DEF Named, SparseKinds, Disk!FlatKinds
  <2> QED
    BY <1>4, <1>6, <1>8, <1>10, <2>1, <2>2
    DEF Named, SparseKinds, Disk!FlatKinds, Disk!SparseKinds
<1>9. CASE ed.kind \in SparseKinds
  BY <1>4, <1>9, <1>10 DEF SparseKinds, Disk!FlatKinds, Disk!SparseKinds
<1> QED
  BY <1>8, <1>9

-----------------------------------------------------------------------------
(***************************************************************************)
(* An image is usable if and only if its extent can be read.               *)
(***************************************************************************)

\* the entries that are reached are those of the grains that the file has
LEMMA ReachedIs ==
  ASSUME NEW h, SoundHeader(h), h.l2_len # 0, NEW q \in DOMAIN h.l1
  PROVE  /\ (q - 1) * h.l2_len \in Nat
         /\ q \in Reached(h, 0) <=> (q - 1) * h.l2_len < h.sectors
<1>1. h.sectors \in Nat /\ h.l2_len \in Nat /\ q \in 1 .. Len(h.l1)
  BY DEF SoundHeader
<1> DEFINE b == (q - 1) * h.l2_len
<1>2. b \in Nat /\ CurSector(h, 0)[q] = IF b <= h.sectors THEN b ELSE h.sectors
  BY <1>1, CurIs
<1> HIDE DEF b
<1>3. q \in Reached(h, 0) <=> CurSector(h, 0)[q] # 0 + h.sectors
  BY DEF Reached
<1> QED
  BY <1>1, <1>2, <1>3 DEF b

\* DeltaDisk finds the entries of a grain sound
SoundEntry(h, g) ==
  LET e1 == h.l1[(g \div h.l2_len) + 1]
      e2 == Disk!SeEntry(h, g)
  IN  \/ e1 = NoEntry
      \/ /\ e1.nibble = 1 /\ e1.index < Len(h.tables)
         /\ g % h.l2_len < Len(h.tables[e1.index + 1])
         /\ e2 = NoEntry \/ e2.nibble \in 1 .. 3

\* where a grain is in the two levels
LEMMA PlaceOfGrain ==
  ASSUME NEW n \in Nat, NEW l \in Nat \ {0}, NEW g \in 0 .. n * l - 1
  PROVE  /\ g \in Nat /\ g \div l \in 0 .. n - 1 /\ g % l \in 0 .. l - 1
         /\ (g \div l) * l \in Nat /\ (g \div l) * l <= g
<1>1. n * l \in Nat
  OBVIOUS
<1>2. g \in Nat /\ ~(n * l <= g)
  BY <1>1
<1>3. g \div l \in Nat /\ (n <= g \div l <=> n * l <= g)
  BY <1>2, QuotientBounds
<1>4. g % l \in 0 .. l - 1
  BY <1>2
<1> DEFINE d == g \div l
<1>5. d \in Nat /\ ~(n <= d)
  BY <1>2, <1>3
<1>6. d <= g \div l <=> d * l <= g
  BY <1>2, <1>5, QuotientBounds
<1>7. d * l \in Nat
  BY <1>5
<1> QED
  BY <1>2, <1>4, <1>5, <1>6, <1>7

\* A level-2 table has the entries that it is asked for if and only if it has those of
\* its grains that the file has.
LEMMA TableCovers ==
  ASSUME NEW h, SoundHeader(h), h.l2_len # 0, NEW q \in DOMAIN h.l1, NEW len \in Nat
  PROVE  len >= L2Len(h, 0, CurSector(h, 0)[q])
           <=> \A g \in 0 .. Len(h.l1) * h.l2_len - 1 :
                 g < h.sectors /\ (g \div h.l2_len) + 1 = q => g % h.l2_len < len
<1> DEFINE n == Len(h.l1)
           l == h.l2_len
           b == (q - 1) * l
           cur == CurSector(h, 0)[q]
           asked == L2Len(h, 0, cur)
<1>1. n \in Nat /\ l \in Nat \ {0} /\ h.sectors \in Nat /\ q \in 1 .. n /\ q - 1 \in Nat
  BY DEF SoundHeader
<1>2. b \in Nat /\ cur = IF b <= h.sectors THEN b ELSE h.sectors
  BY <1>1, CurIs
<1>10. l = h.l2_len /\ n = Len(h.l1) /\ b = (q - 1) * l
  OBVIOUS
<1> HIDE DEF n, l, b, cur
<1>3. asked = IF l <= h.sectors - cur THEN l ELSE h.sectors - cur
  <2>1. h.sectors - (cur - 0) = h.sectors - cur /\ h.sectors - cur \in Int /\ l \in Int
    BY <1>1, <1>2
  <2>2. asked = Min({l, h.sectors - cur})
    BY <2>1 DEF L2Len, l
  <2> QED
    BY <2>1, <2>2, MinOfTwo
<1>4. b + l \in Nat /\ b + l <= n * l /\ n * l \in Nat
  <2>1. n * l >= ((q - 1) + 1) * l /\ n * l \in Nat
    BY <1>1, TimesGrows
  <2>2. \A x, z \in Nat : (x + 1) * z = x * z + z
    OBVIOUS
  <2>3. ((q - 1) + 1) * l = b + l
    BY Zenon, <1>1, <1>10, <2>2
  <2> QED
    BY <1>1, <1>2, <2>1, <2>3
<1>5. \A r \in 0 .. l - 1 : (b + r) \div l = q - 1 /\ (b + r) % l = r
  <2>1. l * (q - 1) = b
    BY <1>1, <1>10
  <2> QED
    BY <1>1, <2>1, DivModOf
<1> HIDE DEF asked
<1>6. ASSUME len >= asked, NEW g \in 0 .. n * l - 1, g < h.sectors, (g \div l) + 1 = q
      PROVE  g % l < len
  <2>1. g \in Nat
    BY <1>4
  <2>2. g \div l \in Nat /\ g % l \in 0 .. l - 1 /\ g = l * (g \div l) + (g % l)
    BY <1>1, <2>1
  <2>3. PICK r \in Nat : r = g % l /\ r < l
    BY <1>1, <2>2
  <2>4. PICK d \in Nat : d = g \div l
    BY <2>2
  <2>5. d = q - 1
    BY <1>1, <1>6, <2>4
  <2>6. g = b + r
    BY <1>1, <1>10, <2>2, <2>3, <2>4, <2>5
  <2> QED
    BY <1>1, <1>2, <1>3, <1>6, <2>3, <2>6
<1>7. ASSUME ~(len >= asked)
      PROVE  \E g \in 0 .. n * l - 1 : g < h.sectors /\ (g \div l) + 1 = q /\ ~(g % l < len)
  <2>1. len < l /\ b + len < h.sectors
    BY <1>1, <1>2, <1>3, <1>7
  <2>2. PICK g : g = b + len
    OBVIOUS
  <2>3. g \in 0 .. n * l - 1 /\ g < h.sectors
    <3>1. PICK m \in Nat : m = n * l
      BY <1>4
    <3> QED
      BY <1>1, <1>2, <1>4, <2>1, <2>2, <3>1
  <2>4. len \in 0 .. l - 1
    BY <1>1, <2>1
  <2>5. g \div l = q - 1 /\ g % l = len
    BY Zenon, <1>5, <2>2, <2>4
  <2>6. (g \div l) + 1 = q /\ ~(g % l < len)
    BY <1>1, <2>5
  <2> QED
    BY <2>3, <2>6
<1> QED
  BY <1>6, <1>7 DEF asked, cur, n, l

LEMMA SparseTableOk ==
  ASSUME NEW h, SoundHeader(h), h.l2_len # 0, WholeTables(h)
  PROVE  SparseTable(h, 0).ok <=> L1There(h) /\ Disk!Sound(h)
<1> DEFINE l2 == L2(h)
           n == Len(h.l1)
           l == h.l2_len
<1>1. /\ DOMAIN l2 = {x \in DOMAIN h.l1 : h.l1[x] # <<>>}
      /\ \A x \in DOMAIN l2 : l2[x] = h.l1[x]
  BY DEF L2
<1>2. SparseTable(h, 0).ok <=> L1There(h) /\ L2Complete(h, 0, l2)
  BY DEF SparseTable
<1> HIDE DEF l2
<1>3. \A j \in DOMAIN l2 : j \in DOMAIN h.l1 /\ l2[j] = h.l1[j] /\ h.l1[j] # <<>>
                          /\ Len(l2[j]) \in Nat
  BY <1>1 DEF WholeTables
<1>4. L2Complete(h, 0, l2) <=>
        \A j \in DOMAIN l2 : Len(l2[j]) >= L2Len(h, 0, CurSector(h, 0)[j])
  BY DEF L2Complete
<1>5. \A j \in DOMAIN l2 :
        Len(l2[j]) >= L2Len(h, 0, CurSector(h, 0)[j])
          <=> \A g \in 0 .. n * l - 1 :
                g < h.sectors /\ (g \div l) + 1 = j => g % l < Len(l2[j])
  BY <1>3, TableCovers
<1>6. Disk!Sound(h) <=>
        \A g \in 0 .. n * l - 1 : g < h.sectors =>
          \/ h.l1[(g \div l) + 1] = <<>>
          \/ g % l < Len(h.l1[(g \div l) + 1])
  BY DEF Disk!Sound
<1>7. \A g \in 0 .. n * l - 1 : (g \div l) + 1 \in DOMAIN h.l1
  <2>1. n \in Nat /\ l \in Nat \ {0} /\ DOMAIN h.l1 = 1 .. n
    BY DEF SoundHeader
  <2> SUFFICES ASSUME NEW g \in 0 .. n * l - 1
               PROVE  (g \div l) + 1 \in DOMAIN h.l1
    OBVIOUS
  <2>2. g \div l \in 0 .. n - 1
    BY Zenon, <2>1, PlaceOfGrain
  <2> QED
    BY <2>1, <2>2
<1> HIDE DEF n, l
<1>8. L2Complete(h, 0, l2) <=> Disk!Sound(h)
  <2>1. ASSUME L2Complete(h, 0, l2), NEW g \in 0 .. n * l - 1, g < h.sectors,
               h.l1[(g \div l) + 1] # <<>>
        PROVE  g % l < Len(h.l1[(g \div l) + 1])
    <3>1. PICK j : j = (g \div l) + 1
      OBVIOUS
    <3>2. j \in DOMAIN l2
      BY <1>1, <1>7, <2>1, <3>1
    <3> QED
      BY Zenon, <1>3, <1>4, <1>5, <2>1, <3>1, <3>2
  <2>2. ASSUME Disk!Sound(h), NEW j \in DOMAIN l2, NEW g \in 0 .. n * l - 1,
               g < h.sectors, (g \div l) + 1 = j
        PROVE  g % l < Len(l2[j])
    BY Zenon, <1>3, <1>6, <2>2
  <2> QED
    BY Zenon, <1>4, <1>5, <1>6, <2>1, <2>2
<1> QED
  BY <1>2, <1>8

LEMMA SeTableOk ==
  ASSUME NEW h, SoundHeader(h), h.l2_len # 0, WholeSeTables(h)
  PROVE  SeSparseTable(h, 0).ok <=> L1There(h) /\ Disk!SeSound(h)
<1> DEFINE l2 == SeL2(h, 0)
           c == Collect(h, 0, l2, NoEntry)
           bad == \E j \in Reached(h, 0) : BadL1(h, h.l1[j])
           n == Len(h.l1)
           l == h.l2_len
<1>0. /\ n \in Nat /\ l \in Nat \ {0} /\ h.sectors \in Nat /\ DOMAIN h.l1 = 1 .. n
  BY DEF SoundHeader
<1>1. SeSparseTable(h, 0).ok <=> /\ L1There(h) /\ ~bad /\ L2Complete(h, 0, l2)
                                 /\ ~\E x \in DOMAIN c : BadL2(c[x])
  BY DEF SeSparseTable
<1>2. Disk!SeSound(h) <=> \A g \in 0 .. n * l - 1 : g < h.sectors => SoundEntry(h, g)
  BY DEF Disk!SeSound, SoundEntry, NoEntry
<1>3. /\ DOMAIN l2 = {x \in Reached(h, 0) : h.l1[x] # NoEntry}
      /\ \A x \in DOMAIN l2 : l2[x] = h.tables[h.l1[x].index + 1]
      /\ Reached(h, 0) \subseteq DOMAIN h.l1
  BY DEF SeL2, Reached
<1>4. \A g : Disk!SeEntry(h, g) =
               IF h.l1[(g \div l) + 1] = NoEntry THEN NoEntry
               ELSE h.tables[h.l1[(g \div l) + 1].index + 1][(g % l) + 1]
  BY DEF Disk!SeEntry, NoEntry
<1> HIDE DEF l2, c, n
<1>5. \A k \in Nat :
        /\ k \in DOMAIN c <=> /\ k < h.sectors /\ (k \div l) + 1 \in DOMAIN l2
                              /\ l2[(k \div l) + 1][(k % l) + 1] # NoEntry
        /\ k \in DOMAIN c => c[k] = l2[(k \div l) + 1][(k % l) + 1]
  <2>1. DOMAIN l2 \subseteq DOMAIN h.l1
    BY <1>3
  <2> QED
    BY <2>1, CollectIs DEF c
<1>6. \A q \in DOMAIN h.l1 : h.l1[q].nibble \in Nat /\ h.l1[q].index \in Nat
  BY DEF WholeSeTables, SeEntries
<1>9. \A q \in DOMAIN h.l1 : h.l1[q].index < Len(h.tables) =>
        Len(h.tables[h.l1[q].index + 1]) \in Nat
  <2>1. DOMAIN h.tables = 1 .. Len(h.tables) /\ Len(h.tables) \in Nat
        /\ \A j \in DOMAIN h.tables : Len(h.tables[j]) \in Nat
    BY DEF WholeSeTables
  <2>2. \A k, m \in Nat : k < m => k + 1 \in 1 .. m
    OBVIOUS
  <2> QED
    BY <1>6, <2>1, <2>2
<1>7. ASSUME SeSparseTable(h, 0).ok, NEW g \in 0 .. n * l - 1, g < h.sectors
      PROVE  SoundEntry(h, g)
  <2> DEFINE q == (g \div l) + 1
             r == (g % l) + 1
  <2>1. /\ g \in Nat /\ g \div l \in 0 .. n - 1 /\ (g \div l) * l \in Nat /\ (g \div l) * l <= g
    BY Zenon, <1>0, PlaceOfGrain
  <2>2. q \in DOMAIN h.l1 /\ (q - 1) * l <= g /\ (q - 1) * l \in Nat
    <3>1. q \in 1 .. n /\ q - 1 = g \div l
      BY <1>0, <2>1
    <3> HIDE DEF q
    <3> QED
      BY <1>0, <2>1, <3>1
  <2>3. q \in Reached(h, 0)
    <3> HIDE DEF q
    <3>1. q \in Reached(h, 0) <=> (q - 1) * h.l2_len < h.sectors
      BY <2>2, ReachedIs
    <3> QED
      BY <1>0, <1>7, <2>1, <2>2, <3>1
  <2>4. Disk!SeEntry(h, g) = IF h.l1[q] = NoEntry THEN NoEntry
                             ELSE h.tables[h.l1[q].index + 1][r]
    BY <1>4
  <2>5. g \in DOMAIN c <=> g < h.sectors /\ q \in DOMAIN l2 /\ l2[q][r] # NoEntry
    BY <1>5, <2>1
  <2>6. g \in DOMAIN c => c[g] = l2[q][r]
    BY <1>5, <2>1
  <2>11. SoundEntry(h, g) <=>
          \/ h.l1[q] = NoEntry
          \/ /\ h.l1[q].nibble = 1 /\ h.l1[q].index < Len(h.tables)
             /\ g % l < Len(h.tables[h.l1[q].index + 1])
             /\ Disk!SeEntry(h, g) = NoEntry \/ Disk!SeEntry(h, g).nibble \in 1 .. 3
    BY DEF SoundEntry
  <2>12. (g \div l) + 1 = q
    OBVIOUS
  <2> HIDE DEF q, r
  <2>7. ~BadL1(h, h.l1[q])
    BY <1>1, <1>7, <2>3
  <2>8. CASE h.l1[q] = NoEntry
    BY <2>8, <2>11
  <2>9. CASE h.l1[q] # NoEntry
    <3>1. h.l1[q].nibble = 1 /\ ~(h.l1[q].index >= Len(h.tables))
      BY <2>7, <2>9 DEF BadL1
    <3>2. h.l1[q].index < Len(h.tables)
      <4>1. Len(h.tables) \in Nat
        BY DEF WholeSeTables
      <4> QED
        BY <1>6, <2>2, <3>1, <4>1
    <3>3. q \in DOMAIN l2 /\ Disk!SeEntry(h, g) = l2[q][r]
      BY <1>3, <2>3, <2>4, <2>9
    <3>4. g \in DOMAIN c => ~BadL2(c[g])
      BY <1>1, <1>7
    <3>5. Disk!SeEntry(h, g) = NoEntry \/ Disk!SeEntry(h, g).nibble \in 1 .. 3
      BY <1>7, <2>5, <2>6, <3>3, <3>4 DEF BadL2
    <3>6. g % l < Len(h.tables[h.l1[q].index + 1])
      <4>1. l2[q] = h.tables[h.l1[q].index + 1] /\ Len(l2[q]) \in Nat
        BY <1>3, <1>9, <2>2, <3>2, <3>3
      <4>2. Len(l2[q]) >= L2Len(h, 0, CurSector(h, 0)[q])
        BY <1>1, <1>7, <3>3 DEF L2Complete
      <4>3. \A x \in 0 .. n * l - 1 :
              x < h.sectors /\ (x \div l) + 1 = q => x % l < Len(l2[q])
        BY <2>2, <4>1, <4>2, TableCovers DEF n
      <4> QED
        BY Zenon, <1>7, <2>12, <4>1, <4>3
    <3> QED
      BY <2>11, <3>1, <3>2, <3>5, <3>6
  <2> QED
    BY <2>8, <2>9
<1>8. ASSUME L1There(h), \A g \in 0 .. n * l - 1 : g < h.sectors => SoundEntry(h, g)
      PROVE  SeSparseTable(h, 0).ok
  <2>1. ASSUME NEW q \in Reached(h, 0), h.l1[q] # NoEntry
        PROVE  h.l1[q].nibble = 1 /\ h.l1[q].index < Len(h.tables)
    <3> DEFINE b == (q - 1) * l
    <3>1. q \in 1 .. n /\ b \in Nat /\ b < h.sectors
      BY <1>0, <1>3, <2>1, ReachedIs
    <3>2. b \in 0 .. n * l - 1 /\ b \div l = q - 1
      <4>1. q - 1 \in Nat /\ (q - 1) + 1 <= n
        BY <1>0, <3>1
      <4>2. n * l >= ((q - 1) + 1) * l /\ n * l \in Nat
        BY <1>0, <4>1, TimesGrows
      <4>3. ((q - 1) + 1) * l = b + l
        <5>1. \A x, z \in Nat : (x + 1) * z = x * z + z
          OBVIOUS
        <5> QED
          BY Zenon, <1>0, <4>1, <5>1
      <4>4. b \div l = q - 1
        <5>1. \A x \in Nat : (x * l) \div l = x
          BY <1>0, DivModOf
        <5> QED
          BY <4>1, <5>1
      <4> HIDE DEF b
      <4> QED
        BY <1>0, <3>1, <4>2, <4>3, <4>4
    <3> HIDE DEF b
    <3>3. SoundEntry(h, b)
      BY <1>8, <3>1, <3>2
    <3>4. (b \div l) + 1 = q
      BY <3>1, <3>2
    <3>5. \/ h.l1[q] = NoEntry
          \/ h.l1[q].nibble = 1 /\ h.l1[q].index < Len(h.tables)
      BY <3>3, <3>4 DEF SoundEntry
    <3> QED
      BY <2>1, <3>5
  <2>2. ~bad
    <3>1. \A q \in Reached(h, 0) : h.l1[q].index \in Nat /\ Len(h.tables) \in Nat
      BY <1>3, <1>6 DEF WholeSeTables
    <3> QED
      BY <2>1, <3>1 DEF BadL1
  <2>3. L2Complete(h, 0, l2)
    <3>1. ASSUME NEW j \in DOMAIN l2
          PROVE  Len(l2[j]) >= L2Len(h, 0, CurSector(h, 0)[j])
      <4>1. j \in Reached(h, 0) /\ h.l1[j] # NoEntry /\ j \in DOMAIN h.l1
            /\ l2[j] = h.tables[h.l1[j].index + 1]
        BY <1>3
      <4>2. Len(l2[j]) \in Nat
        BY <1>9, <2>1, <4>1
      <4>3. ASSUME NEW x \in 0 .. n * l - 1, x < h.sectors, (x \div l) + 1 = j
            PROVE  x % l < Len(l2[j])
        <5>1. SoundEntry(h, x)
          BY <1>8, <4>3
        <5> QED
          BY Zenon, <4>1, <4>3, <5>1 DEF SoundEntry
      <4> QED
        BY <4>1, <4>2, <4>3, TableCovers DEF n
    <3> QED
      BY <3>1 DEF L2Complete
  <2>4. ASSUME NEW k \in DOMAIN c
        PROVE  ~BadL2(c[k])
    <3>0. k \in Nat
      <4>1. \A j \in DOMAIN l2 : j \in DOMAIN h.l1
        BY <1>3
      <4> QED
        BY <1>0, <4>1, CollectKeys DEF c
    <3> DEFINE q == (k \div l) + 1
               r == (k % l) + 1
    <3>1. k < h.sectors /\ q \in DOMAIN l2 /\ l2[q][r] # NoEntry /\ c[k] = l2[q][r]
      BY <1>5, <2>4, <3>0
    <3>2. q \in Reached(h, 0) /\ h.l1[q] # NoEntry /\ q \in DOMAIN h.l1
          /\ l2[q] = h.tables[h.l1[q].index + 1]
      BY <1>3, <3>1
    <3>3. k \in 0 .. n * l - 1
      <4>1. k \div l \in Nat /\ (n <= k \div l <=> n * l <= k)
        BY <1>0, <3>0, QuotientBounds
      <4>2. ~(n <= k \div l) /\ n * l \in Nat
        BY <1>0, <3>2, <4>1
      <4> QED
        BY <3>0, <4>1, <4>2
    <3>4. SoundEntry(h, k)
      BY <1>8, <3>1, <3>3
    <3>5. Disk!SeEntry(h, k) = l2[q][r]
      BY Zenon, <1>4, <3>2
    <3>6. SoundEntry(h, k) <=>
          \/ h.l1[q] = NoEntry
          \/ /\ h.l1[q].nibble = 1 /\ h.l1[q].index < Len(h.tables)
             /\ k % l < Len(h.tables[h.l1[q].index + 1])
             /\ Disk!SeEntry(h, k) = NoEntry \/ Disk!SeEntry(h, k).nibble \in 1 .. 3
      BY DEF SoundEntry
    <3> HIDE DEF q, r
    <3> QED
      BY <3>1, <3>2, <3>4, <3>5, <3>6 DEF BadL2
  <2> QED
    BY <1>1, <1>8, <2>2, <2>3, <2>4
<1> HIDE DEF bad
<1> QED
  BY <1>1, <1>2, <1>7, <1>8

\* the file that DeltaDisk names is the one that source_for_url finds
LEMMA SameFile ==
  ASSUME NoParent \notin DOMAIN disk.files, NEW img \in DOMAIN disk.files,
         NEW ed, NEW single, single = (disk.files[img].sig = "vmdk4" /\ Len(Disk!Eds(img)) = 1),
         NEW f, f = Disk!FileOf(img, ed)
  PROVE  SourceFor(img, ed, single) = IF f \in DOMAIN disk.files THEN f ELSE ""
<1>1. SourceFor(img, ed, single) = IF ed.file \in DOMAIN disk.files THEN ed.file
                                   ELSE IF single /\ ed.file # img THEN img ELSE ""
  BY DEF SourceFor
<1>2. f = IF ed.file \notin DOMAIN disk.files /\ single THEN img ELSE ed.file
  BY Zenon DEF Disk!FileOf
<1> QED
  BY Zenon, <1>1, <1>2

\* read_extent fails for the files that DeltaDisk cannot use
LEMMA ExtentReads ==
  ASSUME disk \in Disks, NEW img, IsImage(img), NEW ed, ed = Disk!Eds(img)[1],
         NEW f, f = Data(img), f \in DOMAIN disk.files, NEW source
  PROVE  ReadExtent(ed, 0, f, source) # IoError <=> Disk!UsableExtent(img, ed)
<1> DEFINE h == disk.files[f].header
           sig == disk.files[f].sig
           t == SparseTable(h, 0)
           se == SeSparseTable(h, 0)
           st == ReadExtent(ed, 0, f, source)
<1>1. /\ ed.kind \in Named
      /\ h.ok =>
           /\ ed.kind \in SparseKinds /\ sig # "none" => SoundTables(h, ed)
           /\ ed.kind \in Disk!SparseKinds /\ sig \in {"vmdk3", "vmdk4"} => WholeTables(h)
           /\ ed.kind = "SESPARSE" /\ sig = "sesparse" => WholeSeTables(h)
  <2>1. PICK eds : eds = Disk!Eds(img)
    OBVIOUS
  <2>2. /\ Len(eds) = 1 /\ ed = eds[1] /\ f = Disk!FileOf(img, eds[1]) /\ 1 \in DOMAIN eds
    BY <2>1, OneExtent DEF Data
  <2>3. h.ok /\ ed.kind \in SparseKinds /\ sig # "none" => SoundTables(h, ed)
    BY <2>1, <2>2 DEF IsImage, SoundLayout
  <2>4. /\ ed.kind \in Named
        /\ h.ok =>
             CASE ed.kind \in Disk!SparseKinds /\ sig \in {"vmdk3", "vmdk4"} -> WholeTables(h)
               [] ed.kind = "SESPARSE" /\ sig = "sesparse" -> WholeSeTables(h)
               [] OTHER -> TRUE
    BY <2>1, <2>2 DEF IsImage, WholeImage
  <2> HIDE DEF h, sig
  <2> QED
    BY <2>3, <2>4 DEF Disk!SparseKinds
<1>2. Disk!UsableExtent(img, ed) <=>
        /\ ed.kind \in Disk!SparseKinds =>
             sig \in {"vmdk3", "vmdk4"} /\ h.ok /\ L1There(h) /\ Disk!Sound(h)
        /\ ed.kind = "SESPARSE" => sig = "sesparse" /\ h.ok /\ L1There(h) /\ Disk!SeSound(h)
  BY DEF Disk!UsableExtent, Disk!HasTables, L1There, Data
<1>3. sig # "none" => SoundHeader(h)
  BY DiskIsSound
<1>4. \A k, s, o : [kind |-> k, source |-> s, offset |-> o] # IoError
  <2> TAKE k, s, o
  <2>1. "kind" \in DOMAIN [kind |-> k, source |-> s, offset |-> o]
    OBVIOUS
  <2>2. "kind" \notin DOMAIN IoError
    BY DEF IoError
  <2> QED
    BY <2>1, <2>2
<1>5. \A s, a, b, c, d : [kind |-> "sparse", source |-> s, grain_table |-> a, grain_size |-> b,
                         has_compressed_grain |-> c, zeroed_grain_table_entry |-> d] # IoError
  <2> TAKE s, a, b, c, d
  <2>1. "kind" \in DOMAIN [kind |-> "sparse", source |-> s, grain_table |-> a, grain_size |-> b,
                           has_compressed_grain |-> c, zeroed_grain_table_entry |-> d]
    OBVIOUS
  <2>2. "kind" \notin DOMAIN IoError
    BY DEF IoError
  <2> QED
    BY <2>1, <2>2
<1>6. CASE ed.kind \in {"SPARSE", "VMFSSPARSE"}
  <2>1. sig \in {"vmdk3", "vmdk4"} /\ h.ok => (t.ok <=> L1There(h) /\ Disk!Sound(h))
    BY <1>1, <1>3, <1>6, SparseTableOk DEF SoundTables, SparseKinds, Disk!SparseKinds
  <2> HIDE DEF t, se
  <2>2. st = IF sig \in {"vmdk3", "vmdk4"} /\ h.ok
               THEN IF t.ok
                      THEN [kind |-> "sparse", source |-> source, grain_table |-> t.table,
                            grain_size |-> h.cluster_sectors,
                            has_compressed_grain |-> h.compressed,
                            zeroed_grain_table_entry |-> h.has_zero_grain]
                      ELSE IoError
               ELSE IoError
    BY <1>6 DEF ReadExtent, t
  <2> HIDE DEF st, sig
  <2>3. st # IoError <=> sig \in {"vmdk3", "vmdk4"} /\ h.ok /\ t.ok
    BY <1>5, <2>2
  <2> QED
    BY <1>2, <1>6, <2>1, <2>3 DEF Disk!SparseKinds, st
<1>7. CASE ed.kind = "SESPARSE"
  <2>1. sig = "sesparse" /\ h.ok => (se.ok <=> L1There(h) /\ Disk!SeSound(h))
    BY <1>1, <1>3, <1>7, SeTableOk DEF SoundTables, SparseKinds
  <2> HIDE DEF t, se
  <2>2. st = IF sig = "sesparse" /\ h.ok
               THEN IF se.ok
                      THEN [kind |-> "sparse", source |-> source, grain_table |-> se.table,
                            grain_size |-> h.cluster_sectors,
                            has_compressed_grain |-> FALSE, zeroed_grain_table_entry |-> TRUE]
                      ELSE IoError
               ELSE IoError
    BY <1>7 DEF ReadExtent, se
  <2> HIDE DEF st, sig
  <2>3. st # IoError <=> sig = "sesparse" /\ h.ok /\ se.ok
    BY <1>5, <2>2
  <2> QED
    BY <1>2, <1>7, <2>1, <2>3 DEF Disk!SparseKinds, st
<1>8. CASE ed.kind \in {"FLAT", "VMFS"}
  <2>1. st = [kind |-> "flat", source |-> source,
              offset |-> IF ed.kind = "VMFS" THEN 0 ELSE ed.offset]
    BY <1>8 DEF ReadExtent
  <2> QED
    BY <1>2, <1>4, <1>8, <2>1 DEF Disk!SparseKinds
<1> QED
  BY <1>1, <1>6, <1>7, <1>8 DEF Named

\* handle_image on an image
ReadFrom(img, first) ==
  ReadExtents(img, Disk!Eds(img),
              disk.files[img].sig = "vmdk4" /\ Len(Disk!Eds(img)) = 1, first)

LEMMA ImageReads ==
  ASSUME disk \in Disks, NoParent \notin DOMAIN disk.files, NEW img, IsImage(img),
         NEW first \in Nat
  PROVE  /\ ReadFrom(img, first).outcome \in {"extents", "error"}
         /\ ReadFrom(img, first).outcome = "extents"
              <=> Disk!UsableExtent(img, Disk!Eds(img)[1])
<1>0. PICK eds : eds = Disk!Eds(img)
  OBVIOUS
<1>1. PICK single : single = (disk.files[img].sig = "vmdk4" /\ Len(eds) = 1)
  OBVIOUS
<1> DEFINE start == StartsOf(eds)
           file == [j \in DOMAIN eds |-> SourceFor(img, eds[j], single)]
           StorageOf(j) == ReadExtent(eds[j], start[j], file[j], first + j - 1)
           Fails(j) == \/ eds[j].kind \notin Named
                       \/ file[j] = ""
                       \/ StorageOf(j) = IoError
           failing == {j \in DOMAIN eds : Fails(j)}
           f == Data(img)
           r == ReadFrom(img, first)
<1>2. /\ SoundEds(eds) /\ Len(eds) = 1 /\ DOMAIN eds = {1} /\ eds[1].kind \in Named
      /\ start[1] = 0 /\ img \in DOMAIN disk.files
  BY <1>0, OneExtent DEF IsImage, WholeImage
<1>3. f = Disk!FileOf(img, eds[1])
  BY <1>0 DEF Data
<1>4. r = IF failing = {}
            THEN [outcome |-> "extents",
                  files |-> file,
                  extents |-> [j \in DOMAIN eds |->
                                 [start_sector |-> start[j], sectors |-> eds[j].sectors,
                                  storage |-> StorageOf(j)]]]
            ELSE [outcome |-> IF eds[Min(failing)].kind \in Named THEN "error" ELSE "panic",
                  files |-> <<>>, extents |-> <<>>]
  BY <1>0, <1>1 DEF ReadFrom, ReadExtents, StartsOf
<1> HIDE DEF start, r
<1>5. file[1] = IF f \in DOMAIN disk.files THEN f ELSE ""
  <2>1. file[1] = SourceFor(img, eds[1], single)
    BY <1>2
  <2> QED
    BY Zenon, <1>0, <1>1, <1>2, <1>3, <2>1, SameFile
<1> HIDE DEF file, f
<1>6. Fails(1) <=> ~Disk!UsableExtent(img, eds[1])
  <2>1. CASE f \notin DOMAIN disk.files
    BY Zenon, <1>3, <1>5, <2>1 DEF Disk!UsableExtent
  <2>2. CASE f \in DOMAIN disk.files
    <3>1. StorageOf(1) = ReadExtent(eds[1], 0, f, first)
      <4>1. first + 1 - 1 = first
        OBVIOUS
      <4> QED
        BY <1>2, <1>5, <2>2, <4>1
    <3>2. file[1] # ""
      BY Zenon, <1>5, <2>2 DEF NoParent
    <3>3. StorageOf(1) # IoError <=> Disk!UsableExtent(img, eds[1])
      BY <1>0, <2>2, <3>1, ExtentReads DEF f
    <3> HIDE DEF StorageOf
    <3> QED
      BY Zenon, <1>2, <3>2, <3>3
  <2> QED
    BY Zenon, <2>1, <2>2
<1> HIDE DEF Fails, StorageOf
<1>7. failing = IF Fails(1) THEN {1} ELSE {}
  BY <1>2
<1>8. CASE Fails(1)
  <2>1. failing = {1} /\ Min(failing) = 1
    <3>1. Min({1, 1}) = 1
      BY MinOfTwo
    <3>2. {1, 1} = {1}
      OBVIOUS
    <3>3. failing = {1}
      BY <1>7, <1>8
    <3> HIDE DEF failing
    <3> QED
      BY <3>1, <3>2, <3>3
  <2> HIDE DEF failing
  <2>2. r.outcome = "error"
    BY <1>2, <1>4, <2>1
  <2> QED
    BY <1>0, <1>6, <1>8, <2>2 DEF r
<1>9. CASE ~Fails(1)
  <2>1. failing = {}
    BY <1>7, <1>9
  <2> HIDE DEF failing
  <2>2. r.outcome = "extents"
    BY <1>4, <2>1
  <2> QED
    BY <1>0, <1>6, <1>9, <2>2 DEF r
<1> QED
  BY <1>8, <1>9

-----------------------------------------------------------------------------
(***************************************************************************)
(* What a read of the storage of an extent gives is bytes of its image.    *)
(***************************************************************************)

\* the source that is made of a file
SourceOf(f) ==
  [file |-> f, len |-> disk.files[f].len, grains |-> disk.files[f].grains]

\* the extent is the one that handle_image makes of the image, with its data in the
\* file that has the index
ExtentFrom(ex, img, source) ==
  LET r == ReadFrom(img, source) IN r.outcome = "extents" /\ ex = r.extents[1]

\* the same, said of the extent itself
ExtentShape(ex, img, source) ==
  LET ed == Disk!Eds(img)[1]
      st == ReadExtent(ed, 0, Data(img), source)
  IN  /\ Data(img) \in DOMAIN disk.files /\ ed.kind \in Named /\ ed.sectors \in Nat
      /\ st # IoError
      /\ ex = [start_sector |-> 0, sectors |-> ed.sectors, storage |-> st]

LEMMA ShapeOfImage ==
  ASSUME disk \in Disks, NEW img, IsImage(img), NEW source \in Nat,
         NEW r, ImageIs(img, source, r)
  PROVE  /\ ExtentShape(r.extents[1], img, source)
         /\ DOMAIN r.extents = {1} /\ Len(r.extents) = 1
         /\ r.files[1] = Data(img) /\ DOMAIN r.files = {1} /\ Len(r.files) = 1
<1>0. PICK eds : eds = Disk!Eds(img)
  OBVIOUS
<1>1. /\ SoundEds(eds) /\ DOMAIN eds = {1} /\ eds[1].sectors \in Nat /\ StartsOf(eds)[1] = 0
      /\ img \in DOMAIN disk.files
  BY <1>0, OneExtent DEF IsImage
<1>2. DOMAIN r.extents = {1} /\ ExtentIs(img, eds, source, r, 1)
  BY <1>0, <1>1, ExtentsAre
<1>3. source + 1 - 1 = source
  OBVIOUS
<1> DEFINE f == Disk!FileOf(img, eds[1])
           st == ReadExtent(eds[1], StartsOf(eds)[1], f, source + 1 - 1)
<1>4. /\ eds[1].kind \in Named /\ f \in DOMAIN disk.files /\ st # IoError
      /\ r.files[1] = f
      /\ r.extents[1] = [start_sector |-> StartsOf(eds)[1],
                         sectors |-> eds[1].sectors, storage |-> st]
  BY <1>2 DEF ExtentIs
<1>5. f = Data(img)
  BY <1>0 DEF Data
<1>6. /\ IsQueue(r.extents) /\ Len(r.extents) = Len(r.files) /\ Len(r.files) \in Nat
      /\ DOMAIN r.files = 1 .. Len(r.files)
  BY Zenon, <1>1, ExtentsHaveFiles DEF ImageIs, Disk!Eds
<1>7. Len(r.extents) = 1
  <2>1. DOMAIN r.extents = 1 .. Len(r.extents)
    <3>1. PICK S : r.extents \in Seq(S)
      BY <1>6 DEF IsQueue
    <3> QED
      BY <3>1
  <2>2. \A n \in Nat : 1 .. n = {1} => n = 1
    <3> TAKE n \in Nat
    <3> HAVE 1 .. n = {1}
    <3>1. 1 \in 1 .. n /\ (n \in 1 .. n \/ n = 0)
      OBVIOUS
    <3> QED
      BY <3>1
  <2> QED
    BY Zenon, <1>2, <1>6, <2>1, <2>2
<1>8. DOMAIN r.files = {1}
  BY <1>6, <1>7
<1> HIDE DEF f, st
<1>9. st = ReadExtent(eds[1], 0, Data(img), source)
  BY <1>1, <1>3, <1>5 DEF st
<1>10. ExtentShape(r.extents[1], img, source)
  BY <1>0, <1>1, <1>4, <1>5, <1>9 DEF ExtentShape
<1> QED
  BY <1>2, <1>4, <1>5, <1>6, <1>7, <1>8, <1>10

LEMMA ShapeOfExtent ==
  ASSUME disk \in Disks, NEW img, IsImage(img), NEW source \in Nat,
         NEW ex, ExtentFrom(ex, img, source)
  PROVE  ExtentShape(ex, img, source) /\ SoundExtent(ex)
<1> DEFINE r == ReadFrom(img, source)
<1>1. ImageIs(img, source, r) /\ ex = r.extents[1]
  BY DEF ExtentFrom, ImageIs, ReadFrom
<1>2. IsQueue(r.extents)
  <2>1. img \in DOMAIN disk.files
    BY DEF IsImage
  <2> HIDE DEF r
  <2> QED
    BY Zenon, <1>1, <2>1, ExtentsHaveFiles DEF ImageIs, Disk!Eds
<1> HIDE DEF r
<1>3. ExtentShape(ex, img, source) /\ 1 \in DOMAIN r.extents
  BY <1>1, ShapeOfImage
<1> QED
  BY <1>1, <1>2, <1>3 DEF IsQueue

\* the extent has the sectors of the bytes that the image has
LEMMA ExtentHasByte ==
  ASSUME disk \in Disks, NEW img, IsImage(img), NEW source \in Nat,
         NEW ex, ExtentFrom(ex, img, source),
         NEW o \in Nat, o \div SectorSize < Disk!Sectors(img)
  PROVE  Disk!ByteOf(img, o) # Disk!Absent <=> InSpans(ex, o \div SectorSize)
<1> DEFINE r == ReadFrom(img, source)
<1>1. ImageIs(img, source, r) /\ ex = r.extents[1]
  BY DEF ExtentFrom, ImageIs, ReadFrom
<1>2. img \in DOMAIN disk.files /\ SoundLayout(img)
  BY DEF IsImage
<1> HIDE DEF r
<1>3. DOMAIN r.extents = {1}
  BY <1>1, ShapeOfImage
<1>4. Disk!ByteOf(img, o) # Disk!Absent
        <=> \E k \in DOMAIN r.extents : InSpans(r.extents[k], o \div SectorSize)
  BY <1>1, <1>2, ImageHas
<1> QED
  BY <1>1, <1>3, <1>4

-----------------------------------------------------------------------------
\* the file of the byte ends before it, or its grain cannot be had
Lost(c) ==
  c # ZeroByte
    /\ IF Len(c) = 2 THEN c[2] >= disk.files[c[1]].len ELSE ~Disk!Inflatable(c[1], c[2])

\* a read that is to give these bytes gives them, or fails because one is lost
Gives(got, bytes) ==
  \/ got = Got(bytes) /\ \A k \in DOMAIN bytes : ~Lost(bytes[k])
  \/ got = IoError /\ \E k \in DOMAIN bytes : Lost(bytes[k])

\* the bytes of the image from o on
BytesFrom(img, o, n) == [k \in 1 .. n |-> Disk!ByteOf(img, o + k - 1)]

LEMMA ZerosGive ==
  ASSUME NEW n, NEW bytes, bytes = [k \in 1 .. n |-> ZeroByte]
  PROVE  Gives(Zeros(n), bytes)
<1>1. Zeros(n) = Got(bytes)
  BY DEF Zeros
<1>2. \A k \in DOMAIN bytes : ~Lost(bytes[k])
  BY DEF Lost
<1> QED
  BY <1>1, <1>2 DEF Gives

LEMMA LostPair ==
  ASSUME NEW f, NEW p
  PROVE  Lost(<<f, p>>) <=> p >= disk.files[f].len
<1>1. Len(<<f, p>>) = 2 /\ <<f, p>>[1] = f /\ <<f, p>>[2] = p /\ <<f, p>> # ZeroByte
  <2>1. Len(<<f, p>>) = 2 /\ Len(ZeroByte) = 0
    BY DEF ZeroByte
  <2> QED
    BY <2>1
<1>2. PICK c : c = <<f, p>>
  OBVIOUS
<1> QED
  BY <1>1, <1>2 DEF Lost

LEMMA LostTriple ==
  ASSUME NEW f, NEW p, NEW d
  PROVE  Lost(<<f, p, d>>) <=> ~Disk!Inflatable(f, p)
<1>1. /\ Len(<<f, p, d>>) # 2 /\ <<f, p, d>>[1] = f /\ <<f, p, d>>[2] = p
      /\ <<f, p, d>> # ZeroByte
  <2>1. Len(<<f, p, d>>) = 3 /\ Len(ZeroByte) = 0
    BY DEF ZeroByte
  <2> QED
    BY <2>1
<1>2. PICK c : c = <<f, p, d>>
  OBVIOUS
<1> QED
  BY <1>1, <1>2 DEF Lost

LEMMA ReadGives ==
  ASSUME NEW f, disk.files[f].len \in Nat, NEW src, src = SourceOf(f),
         NEW pos \in Nat, NEW n \in Nat \ {0},
         NEW bytes, bytes = [k \in 1 .. n |-> <<f, pos + k - 1>>]
  PROVE  Gives(ReadAt(src, pos, n), bytes)
<1> DEFINE len == disk.files[f].len
<1>1. len \in Nat
  OBVIOUS
<1>2. \A k \in 1 .. n : Lost(bytes[k]) <=> pos + k - 1 >= len
  BY LostPair
<1>3. CASE pos + n > len
  <2>1. ReadAt(src, pos, n) = IoError
    BY <1>3 DEF ReadAt, SourceOf
  <2>2. n \in DOMAIN bytes /\ pos + n - 1 >= len
    BY <1>1, <1>3
  <2>3. Lost(bytes[n])
    BY Zenon, <1>2, <2>2
  <2> QED
    BY Zenon, <2>1, <2>2, <2>3 DEF Gives
<1>4. CASE ~(pos + n > len)
  <2>1. ~(pos > len)
    BY <1>1, <1>4
  <2>2. ReadAt(src, pos, n) = Got(bytes)
    BY <1>4, <2>1 DEF ReadAt, SourceOf
  <2>3. ASSUME NEW k \in DOMAIN bytes
        PROVE  ~Lost(bytes[k])
    <3>1. k \in 1 .. n /\ k \in Nat /\ k <= n
      OBVIOUS
    <3>2. ~(pos + k - 1 >= len)
      BY <1>1, <1>4, <3>1
    <3> QED
      BY Zenon, <1>2, <3>1, <3>2
  <2> QED
    BY <2>2, <2>3 DEF Gives
<1> QED
  BY <1>3, <1>4

\* a grain passes the checks if and only if DeltaDisk can have it
LEMMA InflatesIs ==
  ASSUME disk \in Disks, NEW f \in DOMAIN disk.files, disk.files[f].len \in Nat,
         NEW src, src = SourceOf(f), NEW p \in Nat,
         NEW m, m = disk.files[f].header.cluster_sectors * SectorSize
  PROVE  Inflates(src, p, m) <=> Disk!Inflatable(f, p)
<1> DEFINE grains == disk.files[f].grains
           len == disk.files[f].len
           size == grains[p].size
<1>1. src.grains = grains /\ src.len = len
  BY DEF SourceOf
<1>2. Inflates(src, p, m) <=>
        /\ p \in DOMAIN grains /\ grains[p].sound /\ size <= 2 * m
        /\ p * SectorSize + MarkerLen + ZlibLen + size <= len
  BY <1>1 DEF Inflates
<1>3. Disk!Inflatable(f, p) <=>
        /\ p \in DOMAIN grains /\ grains[p].sound /\ size <= 2 * m
        /\ p * SectorSize + Disk!MarkerLen + size + Disk!BytesTooMany <= len
  BY DEF Disk!Inflatable
<1>4. p \in DOMAIN grains => size \in Nat
  BY DiskIsSound
<1>5. p * SectorSize \in Nat
  <2>1. \A a, b \in Nat : a * b \in Nat
    OBVIOUS
  <2> QED
    BY <2>1, StorageAssumption
<1> HIDE DEF grains, len, size
<1>6. \A a, z, l \in Nat : a + 12 + 2 + z <= l <=> a + 12 + z + 2 <= l
  OBVIOUS
<1>7. len \in Nat
  BY DEF len
<1> QED
  BY <1>2, <1>3, <1>4, <1>5, <1>6, <1>7
  DEF MarkerLen, ZlibLen, Disk!MarkerLen, Disk!BytesTooMany

LEMMA InflateGives ==
  ASSUME disk \in Disks, NEW f \in DOMAIN disk.files, disk.files[f].len \in Nat,
         NEW src, src = SourceOf(f), NEW p \in Nat,
         NEW m, m = disk.files[f].header.cluster_sectors * SectorSize,
         NEW d \in Nat, NEW n \in Nat \ {0},
         NEW bytes, bytes = [k \in 1 .. n |-> <<f, p, d + k - 1>>]
  PROVE  Gives(Inflate(src, p, m, d, n), bytes)
<1>1. \A k \in 1 .. n : Lost(bytes[k]) <=> ~Disk!Inflatable(f, p)
  BY LostTriple
<1>2. Inflates(src, p, m) <=> Disk!Inflatable(f, p)
  BY Zenon, InflatesIs
<1>3. src.file = f
  BY DEF SourceOf
<1>4. CASE ~Inflates(src, p, m)
  <2>1. Inflate(src, p, m, d, n) = IoError
    BY <1>4 DEF Inflate
  <2>2. 1 \in DOMAIN bytes /\ 1 \in 1 .. n
    OBVIOUS
  <2>3. Lost(bytes[1])
    BY Zenon, <1>1, <1>2, <1>4, <2>2
  <2> QED
    BY Zenon, <2>1, <2>2, <2>3 DEF Gives
<1>5. CASE Inflates(src, p, m)
  <2>1. Inflate(src, p, m, d, n) = Got(bytes)
    BY <1>3, <1>5 DEF Inflate
  <2>2. \A k \in DOMAIN bytes : ~Lost(bytes[k])
    BY Zenon, <1>1, <1>2, <1>5
  <2> QED
    BY <2>1, <2>2 DEF Gives
<1> QED
  BY <1>4, <1>5

\* the len bytes from o on are in one grain of m bytes, from its d-th on
InGrain(m, o, d, len) ==
  \A k \in 1 .. len : /\ o + k - 1 \in Nat
                      /\ (o + k - 1) \div m = o \div m
                      /\ (o + k - 1) % m = d + k - 1

LEMMA WithinGrain ==
  ASSUME NEW m \in Nat \ {0}, NEW o \in Nat, NEW n \in Nat \ {0},
         NEW d, d = o % m, NEW len, len = Min({m - d, n})
  PROVE  d \in 0 .. m - 1 /\ len \in 1 .. n /\ len \in Nat \ {0} /\ InGrain(m, o, d, len)
<1> DEFINE q == o \div m
<1>1. d \in 0 .. m - 1 /\ q \in Nat /\ o = m * q + d
  OBVIOUS
<1>2. len = IF m - d <= n THEN m - d ELSE n
  <2>1. m - d \in Int /\ n \in Int
    BY <1>1
  <2> QED
    BY <2>1, MinOfTwo
<1>5. d \in Int /\ d < m
  BY <1>1
<1>3. len \in 1 .. n /\ len \in Nat \ {0} /\ len <= m - d
  BY <1>2, <1>5
<1> HIDE DEF q
<1>4. ASSUME NEW k \in 1 .. len
      PROVE  /\ o + k - 1 \in Nat
             /\ (o + k - 1) \div m = q
             /\ (o + k - 1) % m = d + k - 1
  <2>1. d + k - 1 \in 0 .. m - 1
    BY <1>1, <1>3
  <2>2. PICK x : x = m * q
    OBVIOUS
  <2>3. x \in Nat
    <3>1. \A a, b \in Nat : a * b \in Nat
      OBVIOUS
    <3> QED
      BY <1>1, <2>2, <3>1
  <2>4. o + k - 1 = x + (d + k - 1) /\ o + k - 1 \in Nat
    BY <1>1, <1>3, <2>2, <2>3
  <2>5. (m * q + (d + k - 1)) \div m = q /\ (m * q + (d + k - 1)) % m = d + k - 1
    BY Zenon, <1>1, <2>1, DivModOf
  <2> QED
    BY Zenon, <2>2, <2>4, <2>5
<1> QED
  BY Zenon, <1>1, <1>3, <1>4 DEF q, InGrain

\* the grain is one of those that the level-1 table is for
LEMMA GrainOfTable ==
  ASSUME NEW h, SoundHeader(h), h.l2_len # 0, NEW k \in Nat,
         (k \div h.l2_len) + 1 \in DOMAIN h.l1
  PROVE  k \in 0 .. Len(h.l1) * h.l2_len - 1
<1> DEFINE n == Len(h.l1)
           l == h.l2_len
<1>1. l \in Nat \ {0} /\ n \in Nat /\ DOMAIN h.l1 = 1 .. n
  BY DEF SoundHeader
<1>2. k \div l \in Nat /\ (k \div l) + 1 \in 1 .. n
  BY <1>1
<1> HIDE DEF n, l
<1>3. n <= k \div l <=> n * l <= k
  BY <1>1, QuotientBounds
<1>4. ~(n <= k \div l) /\ n * l \in Nat
  BY <1>1, <1>2
<1> QED
  BY <1>3, <1>4 DEF n, l

\* the entry of a grain is a number
LEMMA EntryIsNat ==
  ASSUME NEW h, SoundHeader(h), WholeTables(h), h.l2_len # 0, NEW k \in Nat,
         k < h.sectors, (k \div h.l2_len) + 1 \in DOMAIN h.l1, Disk!Sound(h)
  PROVE  Disk!Entry(h, k) \in Nat
<1> DEFINE q == (k \div h.l2_len) + 1
           r == k % h.l2_len
<1>1. h.l2_len \in Nat \ {0}
  BY DEF SoundHeader
<1>2. r \in 0 .. h.l2_len - 1
  BY <1>1
<1>3. Disk!Entry(h, k) = IF h.l1[q] = <<>> THEN 0 ELSE h.l1[q][r + 1]
  BY DEF Disk!Entry
<1>4. h.l1[q] \in Seq(Nat)
  BY DEF WholeTables
<1>6. h.l1[q] # <<>> => r < Len(h.l1[q])
  BY GrainOfTable DEF Disk!Sound
<1> HIDE DEF q, r
<1>5. CASE h.l1[q] # <<>>
  <2>1. h.l1[q] \in Seq(Nat) /\ Len(h.l1[q]) \in Nat /\ r < Len(h.l1[q])
    BY <1>4, <1>5, <1>6
  <2>2. r + 1 \in 1 .. Len(h.l1[q])
    BY <1>1, <1>2, <2>1
  <2>3. h.l1[q][r + 1] \in Nat
    BY <2>1, <2>2
  <2> QED
    BY <1>3, <1>5, <2>3
<1> QED
  BY <1>3, <1>5

LEMMA SeEntryIsSound ==
  ASSUME NEW h, SoundHeader(h), WholeSeTables(h), h.l2_len # 0, NEW k \in Nat,
         k < h.sectors, (k \div h.l2_len) + 1 \in DOMAIN h.l1, Disk!SeSound(h)
  PROVE  Disk!SeEntry(h, k) \in SeEntries
<1> DEFINE q == (k \div h.l2_len) + 1
           r == k % h.l2_len
           n == Len(h.l1)
           l == h.l2_len
<1>1. l \in Nat \ {0} /\ n \in Nat /\ DOMAIN h.l1 = 1 .. n
  BY DEF SoundHeader
<1>2. r \in 0 .. l - 1 /\ q - 1 = k \div l /\ k \div l \in Nat
  BY <1>1
<1>3. Disk!SeEntry(h, k) = IF h.l1[q] = NoEntry THEN NoEntry
                           ELSE h.tables[h.l1[q].index + 1][r + 1]
  BY DEF Disk!SeEntry, NoEntry
<1>4. NoEntry \in SeEntries
  BY DEF NoEntry, SeEntries
<1>5. k \in 0 .. n * l - 1
  BY GrainOfTable
<1>6. h.l1[q] # NoEntry => /\ h.l1[q].index < Len(h.tables)
                           /\ r < Len(h.tables[h.l1[q].index + 1])
  BY <1>5 DEF Disk!SeSound, NoEntry
<1>7. CASE h.l1[q] # NoEntry
  <2>1. h.l1[q].index \in Nat /\ h.tables \in Seq(Seq(SeEntries)) /\ Len(h.tables) \in Nat
    BY DEF WholeSeTables, SeEntries
  <2>2. h.l1[q].index + 1 \in DOMAIN h.tables
    BY <1>6, <1>7, <2>1
  <2>3. PICK t : t = h.tables[h.l1[q].index + 1]
    OBVIOUS
  <2>4. t \in Seq(SeEntries) /\ r < Len(t) /\ Len(t) \in Nat
    BY <1>6, <1>7, <2>1, <2>2, <2>3
  <2>5. r + 1 \in 1 .. Len(t)
    BY <1>1, <1>2, <2>4
  <2>6. t[r + 1] \in SeEntries
    BY <2>4, <2>5
  <2> HIDE DEF q, r
  <2> QED
    BY <1>3, <1>7, <2>3, <2>6
<1> HIDE DEF q, r
<1> QED
  BY <1>3, <1>4, <1>7

\* what a read of a sparse, or VMFSSPARSE, extent gives
LEMMA SparseGives ==
  ASSUME disk \in Disks, NEW img, IsImage(img), NEW source \in Nat,
         NEW ex, ExtentFrom(ex, img, source), Disk!Eds(img)[1].kind \in SparseKinds,
         NEW src, src = SourceOf(Data(img)), WholeDisk,
         NEW o \in Nat, o \div SectorSize < Disk!Sectors(img), InSpans(ex, o \div SectorSize),
         NEW n \in Nat \ {0}, \A k \in 1 .. n : (o + k - 1) \div SectorSize < Disk!Sectors(img),
         NEW got, got = StorageRead(ex.storage, src, o, n)
  PROVE  \E r \in 1 .. n : Gives(got, BytesFrom(img, o, r))
<1> DEFINE ed == Disk!Eds(img)[1]
           f == Data(img)
           h == disk.files[f].header
           m == h.cluster_sectors * SectorSize
           g == o \div m
           d == o % m
           len == Min({m - d, n})
           st == ex.storage
           se == ed.kind = "SESPARSE"
           t == IF se THEN SeSparseTable(h, 0) ELSE SparseTable(h, 0)
<1>1. /\ f \in DOMAIN disk.files /\ ed.kind \in Named /\ ed.sectors \in Nat
      /\ st = ReadExtent(ed, 0, f, source) /\ st # IoError
      /\ ex.start_sector = 0 /\ SoundExtent(ex)
  <2>1. ExtentShape(ex, img, source) /\ SoundExtent(ex)
    BY ShapeOfExtent
  <2>2. PICK s : s = ReadExtent(ed, 0, f, source)
    OBVIOUS
  <2>3. ex = [start_sector |-> 0, sectors |-> ed.sectors, storage |-> s]
    BY <2>1, <2>2 DEF ExtentShape
  <2> QED
    BY <2>1, <2>2, <2>3 DEF ExtentShape
<1> HIDE DEF st, h
<1>2. /\ st.kind = "sparse" /\ st.grain_size = h.cluster_sectors /\ t.ok
      /\ st.grain_table = t.table
      /\ st.has_compressed_grain = IF se THEN FALSE ELSE h.compressed
      /\ st.zeroed_grain_table_entry = IF se THEN TRUE ELSE h.has_zero_grain
      /\ disk.files[f].sig # "none" /\ h.ok
  <2>1. CASE se
    <3> DEFINE y == SeSparseTable(h, 0)
    <3> HIDE DEF y
    <3>1. /\ disk.files[f].sig = "sesparse" /\ h.ok /\ y.ok
          /\ st = [kind |-> "sparse", source |-> source, grain_table |-> y.table,
                   grain_size |-> h.cluster_sectors,
                   has_compressed_grain |-> FALSE, zeroed_grain_table_entry |-> TRUE]
      BY <1>1, <2>1 DEF ReadExtent, h, y
    <3>2. y = t
      BY <2>1 DEF y
    <3> HIDE DEF t
    <3> QED
      BY <2>1, <3>1, <3>2
  <2>2. CASE ~se
    <3> DEFINE y == SparseTable(h, 0)
    <3> HIDE DEF y
    <3>1. /\ disk.files[f].sig \in {"vmdk3", "vmdk4"} /\ h.ok /\ y.ok
          /\ st = [kind |-> "sparse", source |-> source, grain_table |-> y.table,
                   grain_size |-> h.cluster_sectors,
                   has_compressed_grain |-> h.compressed,
                   zeroed_grain_table_entry |-> h.has_zero_grain]
      BY <1>1, <2>2 DEF ReadExtent, h, y, SparseKinds
    <3>2. y = t
      BY <2>2 DEF y
    <3> HIDE DEF t
    <3> QED
      BY <2>2, <3>1, <3>2
  <2> QED
    BY Zenon, <2>1, <2>2
<1>3. /\ SoundHeader(h) /\ SoundTables(h, ed) /\ h.l2_len # 0
      /\ se => WholeSeTables(h) /\ Disk!SeSound(h)
      /\ ~se => WholeTables(h) /\ Disk!Sound(h)
  <2>1. PICK eds : eds = Disk!Eds(img)
    OBVIOUS
  <2>2. /\ ed = eds[1] /\ f = Disk!FileOf(img, eds[1]) /\ 1 \in DOMAIN eds
    BY <2>1, OneExtent DEF Data
  <2>3. SoundHeader(h)
    BY <1>1, <1>2, DiskIsSound DEF h
  <2>4. SoundTables(h, ed)
    BY <1>1, <1>2, <2>1, <2>2 DEF IsImage, SoundLayout, h
  <2>5. /\ ed.kind \in Named
        /\ CASE ed.kind \in Disk!SparseKinds /\ disk.files[f].sig \in {"vmdk3", "vmdk4"} ->
                  WholeTables(h)
             [] ed.kind = "SESPARSE" /\ disk.files[f].sig = "sesparse" -> WholeSeTables(h)
             [] OTHER -> TRUE
    BY <1>1, <1>2, <2>1, <2>2 DEF IsImage, WholeImage, h
  <2>6. Disk!UsableExtent(img, ed)
    BY <1>1, ExtentReads
  <2>7. /\ ed.kind \in Disk!SparseKinds => disk.files[f].sig \in {"vmdk3", "vmdk4"} /\ Disk!Sound(h)
        /\ ed.kind = "SESPARSE" => disk.files[f].sig = "sesparse" /\ Disk!SeSound(h)
    BY <2>6 DEF Disk!UsableExtent, Data, h
  <2>8. ~se => ed.kind \in Disk!SparseKinds
    BY DEF SparseKinds, Disk!SparseKinds
  <2>9. se => ed.kind \notin Disk!SparseKinds
    BY DEF Disk!SparseKinds
  <2> QED
    BY <2>3, <2>4, <2>5, <2>7, <2>8, <2>9 DEF SoundTables
<1>4. m \in Nat \ {0} /\ d \in 0 .. m - 1 /\ len \in 1 .. n /\ len \in Nat \ {0}
      /\ \A k \in 1 .. len : /\ o + k - 1 \in Nat
                             /\ (o + k - 1) \div m = g
                             /\ (o + k - 1) % m = d + k - 1
  <2>1. h.cluster_sectors \in Nat \ {0}
    BY <1>3 DEF SoundHeader, SoundTables
  <2>2. m \in Nat \ {0}
    <3>1. \A a, b \in Nat \ {0} : a * b \in Nat \ {0}
      OBVIOUS
    <3> QED
      BY <2>1, <3>1, StorageAssumption
  <2>3. d = o % m /\ len = Min({m - d, n}) /\ g = o \div m
    OBVIOUS
  <2> HIDE DEF m, d, len, g
  <2>4. d \in 0 .. m - 1 /\ len \in 1 .. n /\ len \in Nat \ {0} /\ InGrain(m, o, d, len)
    BY Zenon, <2>2, <2>3, WithinGrain
  <2> QED
    BY Zenon, <2>2, <2>3, <2>4 DEF InGrain
<1>5. /\ g \in Nat /\ g < h.sectors /\ (g \div h.l2_len) + 1 \in DOMAIN h.l1
      /\ g \in DOMAIN t.table
  <2>1. Disk!Sectors(img) = ed.sectors
    BY OneExtent
  <2>2. g \in Nat /\ g < h.sectors /\ (g \div h.l2_len) + 1 \in DOMAIN h.l1
    BY <1>1, <1>3, <2>1, GrainInTables
  <2>3. ex.storage.kind = "sparse" /\ ex.storage.grain_size # 0
    BY <1>2, <1>3 DEF SoundTables, st
  <2>4. o \div (ex.storage.grain_size * SectorSize) \in DOMAIN ex.storage.grain_table
    BY <1>1, <2>3, GrainSpans
  <2>5. g \in DOMAIN t.table
    BY <1>2, <2>4 DEF st
  <2> QED
    BY <2>2, <2>5
<1>6. \A k \in 1 .. len :
        Disk!ByteOf(img, o + k - 1) = IF se THEN Disk!SeSparseByte(f, o + k - 1)
                                            ELSE Disk!SparseByte(f, o + k - 1)
  <2> TAKE k \in 1 .. len
  <2>1. k \in 1 .. n /\ o + k - 1 \in Nat
    BY <1>4
  <2> QED
    BY <2>1, WholeByte
<1>7. got = SparseRead(st, src, o, n)
  BY <1>2 DEF StorageRead, st
<1> DEFINE e == t.table[g]
<1>8. SparseRead(st, src, o, n) =
        IF st.zeroed_grain_table_entry /\ e = 1 THEN Zeros(len)
        ELSE IF st.has_compressed_grain THEN Inflate(src, e, m, d, len)
        ELSE ReadAt(src, e * SectorSize + d, len)
  <2>1. st.grain_size * SectorSize = m /\ st.grain_table = t.table
    BY <1>2
  <2> HIDE DEF m, t, g, d, len, e
  <2>2. m # 0 /\ g \in DOMAIN t.table
    BY <1>4, <1>5
  <2>3. \A mm, gg, dd, ll : /\ mm = st.grain_size * SectorSize /\ gg = o \div mm
                            /\ dd = o % mm /\ ll = Min({mm - dd, n})
                            /\ mm # 0 /\ gg \in DOMAIN st.grain_table
          => SparseRead(st, src, o, n) =
               IF st.zeroed_grain_table_entry /\ st.grain_table[gg] = 1 THEN Zeros(ll)
               ELSE IF st.has_compressed_grain THEN Inflate(src, st.grain_table[gg], mm, dd, ll)
               ELSE ReadAt(src, st.grain_table[gg] * SectorSize + dd, ll)
    BY DEF SparseRead
  <2>4. g = o \div m /\ d = o % m /\ len = Min({m - d, n}) /\ e = t.table[g]
    BY DEF g, d, len, e
  <2> QED
    BY <2>1, <2>2, <2>3, <2>4
<1>10. disk.files[f].len \in Nat
  BY <1>1 DEF WholeDisk
<1> DEFINE bytes == BytesFrom(img, o, len)
<1>9. Gives(got, bytes)
  <2>1. CASE ~se
    <3> DEFINE v == Disk!Entry(h, g)
    <3>1. e = v /\ v # 0
      <4>1. t = SparseTable(h, 0)
        BY <2>1
      <4> HIDE DEF t
      <4> QED
        BY <1>2, <1>3, <1>5, <4>1, SparseTableIs
    <3>2. v \in Nat
      BY <1>3, <1>5, <2>1, EntryIsNat
    <3>3. ASSUME NEW k \in 1 .. len
          PROVE  Disk!ByteOf(img, o + k - 1) =
                   IF h.has_zero_grain /\ v = 1 THEN ZeroByte
                   ELSE IF h.compressed THEN <<f, v, d + k - 1>>
                   ELSE <<f, v * SectorSize + (d + k - 1)>>
      <4>1. (o + k - 1) \div m = g /\ (o + k - 1) % m = d + k - 1
        BY Zenon, <1>4
      <4>2. PICK x : x = o + k - 1
        OBVIOUS
      <4>3. Disk!ByteOf(img, o + k - 1) = Disk!SparseByte(f, x)
        BY Zenon, <1>6, <2>1, <4>2
      <4>4. Disk!SparseByte(f, x) =
              LET b == Disk!Entry(h, x \div m)
              IN  IF b = 0 THEN Disk!Absent
                  ELSE IF h.has_zero_grain /\ b = 1 THEN ZeroByte
                  ELSE IF h.compressed THEN <<f, b, x % m>>
                  ELSE <<f, b * SectorSize + (x % m)>>
        BY DEF Disk!SparseByte, h, Disk!ZeroByte, ZeroByte
      <4>5. Disk!Entry(h, x \div m) = v /\ x % m = d + k - 1
        BY <4>1, <4>2
      <4> HIDE DEF v, m, g, d, f
      <4> QED
        BY <3>1, <4>3, <4>4, <4>5
    <3>4. got = IF h.has_zero_grain /\ v = 1 THEN Zeros(len)
                ELSE IF h.compressed THEN Inflate(src, v, m, d, len)
                ELSE ReadAt(src, v * SectorSize + d, len)
      <4> HIDE DEF e, v, len, d, m
      <4> QED
        BY <1>2, <1>7, <1>8, <2>1, <3>1
    <3> HIDE DEF v, e, t, g, d, len, m, f
    <3>5. /\ len \in Nat \ {0} /\ d \in Nat /\ v * SectorSize \in Nat
          /\ v * SectorSize + d \in Nat
      <4>1. \A a, b \in Nat : a * b \in Nat
        OBVIOUS
      <4>2. d \in Nat
        BY <1>4
      <4> QED
        BY <1>4, <3>2, <4>1, <4>2, StorageAssumption
    <3>6. CASE h.has_zero_grain /\ v = 1
      <4>1. bytes = [k \in 1 .. len |-> ZeroByte]
        BY <3>3, <3>6 DEF BytesFrom
      <4> QED
        BY <3>4, <3>6, <4>1, ZerosGive
    <3>7. CASE ~(h.has_zero_grain /\ v = 1) /\ h.compressed
      <4>1. bytes = [k \in 1 .. len |-> <<f, v, d + k - 1>>]
        BY Zenon, <3>3, <3>7 DEF BytesFrom
      <4>2. got = Inflate(src, v, m, d, len)
        BY <3>4, <3>7
      <4>3. /\ f \in DOMAIN disk.files /\ disk.files[f].len \in Nat /\ src = SourceOf(f)
            /\ m = disk.files[f].header.cluster_sectors * SectorSize
            /\ d \in Nat /\ len \in Nat \ {0}
        BY <1>1, <1>10, <3>5 DEF f, m, h
      <4> HIDE DEF bytes
      <4>4. ASSUME NEW p \in Nat, NEW q \in Nat, NEW x \in Nat \ {0}, NEW b,
                   b = [k \in 1 .. x |-> <<f, p, q + k - 1>>]
            PROVE  Gives(Inflate(src, p, m, q, x), b)
        BY Zenon, <4>3, <4>4, InflateGives
      <4>5. Gives(Inflate(src, v, m, d, len), bytes)
        BY Zenon, <3>2, <4>1, <4>3, <4>4
      <4> QED
        BY <4>2, <4>5
    <3>8. CASE ~(h.has_zero_grain /\ v = 1) /\ ~h.compressed
      <4> DEFINE p == v * SectorSize
                 pos == p + d
      <4> HIDE DEF p
      <4>1. \A k \in 1 .. len : p + (d + k - 1) = pos + k - 1
        BY <3>5 DEF p
      <4>2. bytes = [k \in 1 .. len |-> <<f, p + (d + k - 1)>>]
        BY Zenon, <3>3, <3>8 DEF BytesFrom, p
      <4>3. bytes = [k \in 1 .. len |-> <<f, pos + k - 1>>]
        BY <4>1, <4>2
      <4>4. got = ReadAt(src, pos, len) /\ pos \in Nat
        BY <3>4, <3>5, <3>8 DEF p
      <4> HIDE DEF pos, bytes
      <4> QED
        BY Zenon, <1>10, <3>5, <4>3, <4>4, ReadGives DEF f
    <3> QED
      BY <3>6, <3>7, <3>8
  <2>2. CASE se
    <3> DEFINE v == Disk!SeEntry(h, g)
    <3>1. e = SeGrain(h, v) /\ v.nibble \in 1 .. 3
      <4>1. t = SeSparseTable(h, 0)
        BY <2>2
      <4> HIDE DEF t
      <4> QED
        BY <1>2, <1>3, <1>5, <4>1, SeSparseTableIs
    <3>2. v \in SeEntries
      BY <1>3, <1>5, <2>2, SeEntryIsSound
    <3>3. h.clusters_offset \in Nat /\ h.clusters_offset > 1
      BY <1>3, <2>2 DEF WholeSeTables
    <3> DEFINE i0 == v.index * h.cluster_sectors
               w == h.clusters_offset + i0
    <3>4. w \in Nat /\ w # 1
      <4>1. \A a, b \in Nat : a * b \in Nat
        OBVIOUS
      <4>2. v.index \in Nat /\ h.cluster_sectors \in Nat
        BY <1>3, <3>2 DEF SeEntries, SoundHeader
      <4>3. i0 \in Nat
        BY <4>1, <4>2
      <4> HIDE DEF i0
      <4> QED
        BY <3>3, <4>3
    <3>5. v.nibble \in {1, 2} \/ v.nibble = 3
      BY <3>1
    <3>6. ASSUME NEW k \in 1 .. len
          PROVE  Disk!ByteOf(img, o + k - 1) =
                   IF v.nibble = 3 THEN <<f, w * SectorSize + (d + k - 1)>> ELSE ZeroByte
      <4>1. (o + k - 1) \div m = g /\ (o + k - 1) % m = d + k - 1
        BY Zenon, <1>4
      <4>2. PICK x : x = o + k - 1
        OBVIOUS
      <4>3. Disk!ByteOf(img, o + k - 1) = Disk!SeSparseByte(f, x)
        BY Zenon, <1>6, <2>2, <4>2
      <4>7. PICK y : y = x % m
        OBVIOUS
      <4>8. PICK u : u = Disk!SeEntry(h, x \div m)
        OBVIOUS
      <4>9. PICK z : z = (h.clusters_offset + u.index * h.cluster_sectors) * SectorSize + y
        OBVIOUS
      <4>4. Disk!SeSparseByte(f, x) =
              CASE u.nibble = 0 -> Disk!Absent
                [] u.nibble \in {1, 2} -> ZeroByte
                [] u.nibble = 3 -> <<f, z>>
        BY Zenon, <4>7, <4>8, <4>9 DEF Disk!SeSparseByte, h, Disk!ZeroByte, ZeroByte
      <4>5. u = v /\ y = d + k - 1
        BY <4>1, <4>2, <4>7, <4>8
      <4> HIDE DEF v, m, g, d, f
      <4>6. z = w * SectorSize + (d + k - 1)
        BY <4>5, <4>9
      <4> QED
        BY <3>5, <4>3, <4>4, <4>5, <4>6
    <3>7. got = IF v.nibble = 3 THEN ReadAt(src, w * SectorSize + d, len) ELSE Zeros(len)
      <4>1. e = IF v.nibble = 3 THEN w ELSE 1
        BY <3>1 DEF SeGrain
      <4> HIDE DEF e, v, len, d, w
      <4> QED
        BY <1>2, <1>7, <1>8, <2>2, <3>4, <4>1
    <3> HIDE DEF v, e, t, g, d, len, m, f, w
    <3>8. /\ len \in Nat \ {0} /\ d \in Nat /\ w * SectorSize \in Nat
          /\ w * SectorSize + d \in Nat
      <4>1. \A a, b \in Nat : a * b \in Nat
        OBVIOUS
      <4>2. d \in Nat
        BY <1>4
      <4> QED
        BY <1>4, <3>4, <4>1, <4>2, StorageAssumption
    <3>9. CASE v.nibble # 3
      <4>1. bytes = [k \in 1 .. len |-> ZeroByte]
        BY <3>6, <3>9 DEF BytesFrom
      <4> QED
        BY <3>7, <3>9, <4>1, ZerosGive
    <3>10. CASE v.nibble = 3
      <4> DEFINE p == w * SectorSize
                 pos == p + d
      <4> HIDE DEF p
      <4>1. \A k \in 1 .. len : p + (d + k - 1) = pos + k - 1
        BY <3>8 DEF p
      <4>2. bytes = [k \in 1 .. len |-> <<f, p + (d + k - 1)>>]
        BY <3>6, <3>10 DEF BytesFrom, p
      <4>3. bytes = [k \in 1 .. len |-> <<f, pos + k - 1>>]
        BY <4>1, <4>2
      <4>4. got = ReadAt(src, pos, len) /\ pos \in Nat
        BY <3>7, <3>8, <3>10 DEF p
      <4> HIDE DEF pos, bytes
      <4> QED
        BY Zenon, <1>10, <3>8, <4>3, <4>4, ReadGives DEF f
    <3> QED
      BY <3>9, <3>10
  <2> QED
    BY <2>1, <2>2
<1> HIDE DEF bytes, len
<1> QED
  BY <1>4, <1>9 DEF bytes

\* the storage of an extent of an image reads from its source
LEMMA StorageOfImage ==
  ASSUME disk \in Disks, NEW img, IsImage(img), NEW source \in Nat,
         NEW ex, ExtentFrom(ex, img, source)
  PROVE  LET st == ex.storage IN
         /\ st.kind \in {"sparse", "flat"} /\ st.source = source
         /\ Disk!Eds(img)[1].kind \notin SparseKinds => st.kind = "flat" /\ st.offset = 0
<1> DEFINE ed == Disk!Eds(img)[1]
           f == Data(img)
           h == disk.files[f].header
           st == ex.storage
<1>1. /\ ed.kind \in Named /\ st = ReadExtent(ed, 0, f, source) /\ st # IoError
  <2>1. ExtentShape(ex, img, source)
    BY ShapeOfExtent
  <2>2. PICK s : s = ReadExtent(ed, 0, f, source)
    OBVIOUS
  <2>3. ex = [start_sector |-> 0, sectors |-> ed.sectors, storage |-> s]
    BY <2>1, <2>2 DEF ExtentShape
  <2> QED
    BY <2>1, <2>2, <2>3 DEF ExtentShape
<1>2. ed.kind \notin SparseKinds => ed.offset = 0
  BY DEF IsImage, WholeImage
<1> HIDE DEF st, ed, h, f
<1>3. CASE ed.kind \in {"FLAT", "VMFS"}
  <2>1. st = [kind |-> "flat", source |-> source,
              offset |-> IF ed.kind = "VMFS" THEN 0 ELSE ed.offset]
    BY <1>1, <1>3 DEF ReadExtent
  <2>2. ed.offset = 0
    BY <1>2, <1>3 DEF SparseKinds
  <2> QED
    BY <1>3, <2>1, <2>2 DEF st, ed, SparseKinds
<1>4. CASE ed.kind \in SparseKinds
  <2>1. \E a, b, c, d : st = [kind |-> "sparse", source |-> source, grain_table |-> a,
                              grain_size |-> b, has_compressed_grain |-> c,
                              zeroed_grain_table_entry |-> d]
    <3>1. CASE ed.kind = "SESPARSE"
      BY Zenon, <1>1, <3>1 DEF ReadExtent
    <3>2. CASE ed.kind # "SESPARSE"
      BY Zenon, <1>1, <1>4, <3>2 DEF ReadExtent, SparseKinds
    <3> QED
      BY <3>1, <3>2
  <2> QED
    BY <1>4, <2>1 DEF st, ed
<1> QED
  BY <1>1, <1>3, <1>4 DEF Named, SparseKinds

LEMMA FlatOfImage ==
  ASSUME disk \in Disks, NEW img, IsImage(img), NEW source \in Nat,
         NEW ex, ExtentFrom(ex, img, source), Disk!Eds(img)[1].kind \notin SparseKinds
  PROVE  ex.storage.kind = "flat" /\ ex.storage.offset = 0
BY StorageOfImage

\* What an extent's storage gives is the bytes of its image, at least one.
LEMMA StorageGives ==
  ASSUME disk \in Disks, NEW img, IsImage(img), NEW source \in Nat,
         NEW ex, ExtentFrom(ex, img, source),
         NEW src, src = SourceOf(Data(img)), WholeDisk,
         NEW o \in Nat, o \div SectorSize < Disk!Sectors(img), InSpans(ex, o \div SectorSize),
         NEW n \in Nat \ {0}, \A k \in 1 .. n : (o + k - 1) \div SectorSize < Disk!Sectors(img),
         NEW got, got = StorageRead(ex.storage, src, o, n)
  PROVE  \E r \in 1 .. n : Gives(got, BytesFrom(img, o, r))
<1> DEFINE ed == Disk!Eds(img)[1]
           f == Data(img)
           st == ex.storage
           bytes == BytesFrom(img, o, n)
<1>1. CASE ed.kind \in SparseKinds
  BY Zenon, <1>1, SparseGives
<1>2. CASE ed.kind \notin SparseKinds
  <2>1. st.kind = "flat" /\ st.offset = 0
    BY Zenon, <1>2, FlatOfImage
  <2>2. st.offset * SectorSize = 0
    BY <2>1, StorageAssumption
  <2>3. got = ReadAt(src, o, n)
    <3>1. PICK p : p = st.offset * SectorSize
      OBVIOUS
    <3>2. ~(o < p) /\ o - p = o
      BY <2>2, <3>1
    <3>3. got = FlatRead(st, src, o, n)
      BY <2>1 DEF StorageRead
    <3> QED
      BY <3>1, <3>2, <3>3 DEF FlatRead
  <2>4. ASSUME NEW k \in 1 .. n
        PROVE  Disk!ByteOf(img, o + k - 1) = <<f, o + k - 1>>
    <3>1. o + k - 1 \in Nat
      OBVIOUS
    <3> QED
      BY Zenon, <1>2, <3>1, WholeByte
  <2>5. bytes = [k \in 1 .. n |-> <<f, o + k - 1>>]
    BY Zenon, <2>4 DEF BytesFrom
  <2>8. disk.files[f].len \in Nat
    <3>1. f \in DOMAIN disk.files
      BY ShapeOfExtent DEF ExtentShape
    <3> QED
      BY <3>1 DEF WholeDisk
  <2> HIDE DEF bytes, f
  <2>6. Gives(got, bytes)
    BY Zenon, <2>3, <2>5, <2>8, ReadGives DEF f
  <2>7. n \in 1 .. n
    OBVIOUS
  <2> QED
    BY <2>6, <2>7 DEF bytes
<1> QED
  BY <1>1, <1>2

-----------------------------------------------------------------------------
(***************************************************************************)
(* The chain, once more.                                                   *)
(***************************************************************************)

\* the n-th image can be opened as an image of this disk
Fits(n) == Disk!Usable(Disk!Chain[n]) /\ Disk!Sectors(Disk!Chain[n]) = Sec

\* no image comes after the n-th
Oldest(n) == n = MaxDepth \/ Disk!Chain[n + 1] = NoParent

-----------------------------------------------------------------------------
(***************************************************************************)
(* What open() knows of the extents that it has, one for each image.       *)
(***************************************************************************)

\* the extent is that of the image, and its source is the file that the data are in
IsFrom(ex, img) ==
  \E source \in Nat :
    /\ ExtentFrom(ex, img, source)
    /\ source \in DOMAIN sources
    /\ sources[source] = SourceOf(Data(img))

IsExtent(ex, n) == Fits(n) /\ IsFrom(ex, Disk!Chain[n])

\* the position of the current image in the chain
Pos == IF pc = "image" THEN Len(extents) + 1 ELSE Len(extents) + Len(queue)

\* The extents are those of the first images of the chain.  A sector that is in one of
\* these is taken, and by an image such that none before it has the sector.
Searched ==
  /\ \A m \in DOMAIN extents : IsExtent(extents[m], m)
  /\ \A s \in Nat : s < Sec =>
       /\ Has(Len(extents), s) => Owned(s)
       /\ \A v \in P!OwnersIn(spans, s) : ~Has(v, s)

SearchedInv ==
  pc \in Searching =>
    /\ Pos \in 1 .. MaxDepth /\ Disk!Chain[Pos] = current
    /\ pc # "image" => Len(queue) \in 0 .. 1
    /\ queue # <<>> => IsExtent(Head(queue), Pos)
    /\ Searched

\* open() has what it needs
Found == {"fill", "zero", "ready", "read", "answered"}

\* no image of the chain has the sector
Nowhere(n, s) == ~Has(n, s) /\ Oldest(n)

\* the n-th image is the last that is needed, the extents after it are zeros, and the
\* zeros are of sectors that no image has
FoundTo(n) ==
  /\ Disk!Needed[n] /\ \A m \in 1 .. MaxDepth : n < m => ~Disk!Needed[m]
  /\ n \in DOMAIN extents
  /\ \A m \in DOMAIN extents : IF m <= n THEN IsExtent(extents[m], m)
                                         ELSE extents[m].storage.kind = "zero"
  /\ \A s \in Nat : s < Sec =>
       /\ ~Owned(s) => Nowhere(n, s)
       /\ \A v \in P!OwnersIn(spans, s) : IF v < n THEN ~Has(v, s) ELSE Nowhere(n, s)

\* the spans in bytes are those in sectors
SameOwners ==
  \A k \in DOMAIN vec : \A o \in Nat :
    At(k, o) => vec[k].ex \in P!OwnersIn(spans, o \div SectorSize)

FoundInv ==
  /\ pc \in Found => /\ Sec \in Nat /\ imageSize = <<Sec * SectorSize>>
                     /\ \E n \in 1 .. MaxDepth : FoundTo(n)
  /\ pc \in {"ready", "read", "answered"} => SameOwners

\* what has been read so far is what was asked for
ReadSoFar ==
  pc = "read" =>
    /\ req.off <= Size
    /\ end = IF req.off + req.len > Size THEN Size ELSE req.off + req.len
    /\ \A k \in DOMAIN buf : buf[k] = Disk!Content(req.off + k - 1) /\ ~Lost(buf[k])

\* What is said of the disk stays as it is.
LEMMA DataKept ==
  ASSUME disk' = disk
  PROVE  \A img : Data(img)' = Data(img)
BY DEF Data, Disk!FileOf, Disk!Eds

LEMMA ReadKept ==
  ASSUME disk' = disk
  PROVE  \A img, first : ReadFrom(img, first)' = ReadFrom(img, first)
BY DEF ReadFrom, ReadExtents, SourceFor, ReadExtent, Disk!Eds

LEMMA FitsKept ==
  ASSUME disk' = disk
  PROVE  \A n : Fits(n)' = Fits(n)
<1>1. Disk!Chain' = Disk!Chain
  BY ChainKept
<1>2. \A img : Disk!Sectors(img)' = Disk!Sectors(img)
  BY SectorsKept
<1>3. \A img : Disk!Usable(img)' = Disk!Usable(img)
  BY DEF Disk!Usable, Disk!UsableExtent, Disk!FileOf, Disk!Eds
<1> QED
  BY <1>1, <1>2, <1>3 DEF Fits, Sec

LEMMA ContentKept ==
  ASSUME disk' = disk
  PROVE  \A o : Disk!Content(o)' = Disk!Content(o)
<1>1. Disk!Chain' = Disk!Chain
  BY ChainKept
<1>2. \A img, o : Disk!ByteOf(img, o)' = Disk!ByteOf(img, o)
  BY BytesKept
<1> QED
  BY Zenon, <1>1, <1>2 DEF Disk!Content

LEMMA WholeDiskKept ==
  ASSUME disk' = disk, WholeDisk
  PROVE  WholeDisk'
BY Zenon DEF WholeDisk, WholeImage, Disk!FileOf, Disk!Eds

-----------------------------------------------------------------------------
LEMMA DescribedIsImage ==
  ASSUME SoundDisk, WholeDisk, NEW img \in DOMAIN disk.files, disk.files[img].desc.ok
  PROVE  IsImage(img)
BY DEF SoundDisk, WholeDisk, IsImage

\* An image is usable if and only if handle_image gets its extents.
LEMMA UsableImage ==
  ASSUME disk \in Disks, SoundDisk, WholeDisk, NEW img, NEW first \in Nat
  PROVE  Disk!Usable(img) <=> /\ img \in DOMAIN disk.files
                              /\ disk.files[img].sig \in {"none", "vmdk4"}
                              /\ disk.files[img].desc.ok
                              /\ ReadFrom(img, first).outcome = "extents"
<1>1. ASSUME img \in DOMAIN disk.files, disk.files[img].desc.ok
      PROVE  ReadFrom(img, first).outcome = "extents"
               <=> \A j \in DOMAIN Disk!Eds(img) : Disk!UsableExtent(img, Disk!Eds(img)[j])
  <2>1. IsImage(img)
    BY <1>1, DescribedIsImage
  <2>2. DOMAIN Disk!Eds(img) = {1}
    BY <2>1, OneExtent
  <2>3. ReadFrom(img, first).outcome = "extents"
          <=> Disk!UsableExtent(img, Disk!Eds(img)[1])
    BY <2>1, ImageReads DEF WholeDisk
  <2> QED
    BY <2>2, <2>3
<1> QED
  BY <1>1 DEF Disk!Usable

LEMMA ReadImageIs ==
  ASSUME disk \in Disks, SoundDisk, WholeDisk, idx + 1 \in Nat
  PROVE  /\ ReadImage.outcome \in {"extents", "error"}
         /\ ReadImage.outcome = "extents" <=> Disk!Usable(current)
         /\ Disk!Usable(current) => ReadImage = ReadFrom(current, idx + 1)
<1>1. PICK read : read = ReadFrom(current, idx + 1)
  OBVIOUS
<1>2. Disk!Usable(current) <=> /\ current \in DOMAIN disk.files
                               /\ disk.files[current].sig \in {"none", "vmdk4"}
                               /\ disk.files[current].desc.ok
                               /\ read.outcome = "extents"
  BY <1>1, UsableImage
<1>3. ASSUME current \in DOMAIN disk.files, disk.files[current].desc.ok
      PROVE  read.outcome \in {"extents", "error"}
  BY <1>1, <1>3, DescribedIsImage, ImageReads DEF WholeDisk
<1>4. CASE /\ current \in DOMAIN disk.files /\ disk.files[current].sig \in {"none", "vmdk4"}
           /\ disk.files[current].desc.ok
  <2>1. ReadImage = read
    BY <1>1, <1>4 DEF ReadImage, ReadFrom, Disk!Eds
  <2> QED
    BY <1>1, <1>2, <1>3, <1>4, <2>1
<1>5. CASE ~(/\ current \in DOMAIN disk.files /\ disk.files[current].sig \in {"none", "vmdk4"}
             /\ disk.files[current].desc.ok)
  <2>1. ReadImage.outcome = "error"
    BY <1>5 DEF ReadImage
  <2> QED
    BY <1>2, <1>5, <2>1
<1> QED
  BY <1>4, <1>5

-----------------------------------------------------------------------------
\* open() is to succeed if and only if each image that is needed fits.
LEMMA OpensIs == Disk!Opens <=> \A n \in 1 .. MaxDepth : Disk!Needed[n] => Fits(n)
<1> DEFINE Fit(n) == Disk!Needed[n] => Fits(n)
           Rec(f) == f = [n \in 1 .. MaxDepth |-> (n > 1 => f[n - 1]) /\ Fit(n)]
           step == [j \in Nat |-> [x \in BOOLEAN |-> x /\ Fit(j)]]
           ok == CHOOSE f : Rec(f)
<1>1. \E f : Rec(f)
  <2>1. step \in [Nat -> [BOOLEAN -> BOOLEAN]]
        /\ \A j \in Nat : \A x \in BOOLEAN : step[j][x] = (x /\ Fit(j))
    <3> HIDE DEF Fit
    <3> QED
      OBVIOUS
  <2> HIDE DEF step
  <2>2. RecursionExists(BOOLEAN, Fit(1), step, 1, MaxDepth)
    <3> DEFINE B == BOOLEAN
               first == Fit(1)
    <3>1. first \in B /\ step \in [Nat -> [B -> B]]
      BY <2>1
    <3> HIDE DEF B, first
    <3>2. RecursionExists(B, first, step, 1, MaxDepth)
      BY <3>1, Recursion, MaxDepthAssumption
    <3> QED
      BY <3>2 DEF B, first
  <2> HIDE DEF Fit
  <2>3. PICK f \in [1 .. MaxDepth -> BOOLEAN] :
          f[1] = Fit(1) /\ \A j \in 1 + 1 .. MaxDepth : f[j] = step[j][f[j - 1]]
    BY Zenon, <2>2 DEF RecursionExists
  <2>4. ASSUME NEW n \in 1 .. MaxDepth
        PROVE  f[n] = ((n > 1 => f[n - 1]) /\ Fit(n))
    <3>0. f[n] \in BOOLEAN
      BY <2>3
    <3>1. CASE n = 1
      BY <2>3, <3>0, <3>1
    <3>2. CASE n # 1
      <4>1. n \in 1 + 1 .. MaxDepth /\ n \in Nat /\ n - 1 \in 1 .. MaxDepth /\ n > 1
        BY <3>2, MaxDepthAssumption
      <4>2. f[n - 1] \in BOOLEAN
        BY <2>3, <4>1
      <4>3. f[n] = step[n][f[n - 1]]
        BY <2>3, <4>1
      <4>4. f[n] = (f[n - 1] /\ Fit(n))
        BY <2>1, <4>1, <4>2, <4>3
      <4>5. (n > 1 => f[n - 1]) <=> f[n - 1]
        BY <4>1
      <4> QED
        BY <4>4, <4>5
    <3> QED
      BY <3>1, <3>2
  <2>5. f = [n \in 1 .. MaxDepth |-> f[n]]
    BY <2>3
  <2>6. Rec(f)
    BY <2>4, <2>5
  <2> HIDE DEF Rec
  <2> QED
    BY <2>6
<1>2. Disk!Opens <=> \A n \in 1 .. MaxDepth : ok[n]
  BY Zenon DEF Disk!Opens, Disk!Depth, Fits, Sec
<1>3. Rec(ok)
  <2> HIDE DEF Rec
  <2> QED
    BY <1>1
<1> HIDE DEF ok, Fit
<1>4. \A n \in 1 .. MaxDepth : ok[n] = ((n > 1 => ok[n - 1]) /\ Fit(n))
  BY Zenon, <1>3
<1>5. ASSUME \A n \in 1 .. MaxDepth : Fit(n)
      PROVE  \A n \in 1 .. MaxDepth : ok[n]
  <2> DEFINE T == {n \in 1 .. MaxDepth : ok[n]}
  <2>1. 1 \in T
    <3>1. 1 \in 1 .. MaxDepth /\ ~(1 > 1)
      BY MaxDepthAssumption
    <3> QED
      BY Zenon, <1>4, <1>5, <3>1
  <2>2. ASSUME NEW j \in 1 + 1 .. MaxDepth, j - 1 \in T
        PROVE  j \in T
    <3>1. j \in 1 .. MaxDepth /\ j > 1
      BY MaxDepthAssumption
    <3> QED
      BY Zenon, <1>4, <1>5, <2>2, <3>1
  <2> HIDE DEF T
  <2>3. \A j \in 1 .. MaxDepth : j \in T
    BY <2>1, <2>2, IntervalInduction, MaxDepthAssumption
  <2> QED
    BY <2>3 DEF T
<1> QED
  BY Zenon, <1>2, <1>4, <1>5 DEF Fit

\* When an image is not needed, none after it is.
LEMMA NoneNeeded ==
  ASSUME NEW n \in 1 .. MaxDepth, n # MaxDepth => ~Wanted(n + 1)
  PROVE  \A m \in 1 .. MaxDepth : n < m => ~Disk!Needed[m]
<1> DEFINE T == {m \in 1 .. MaxDepth : ~Disk!Needed[m]}
<1>0. MaxDepth \in Nat /\ n \in Nat
  BY MaxDepthAssumption
<1>1. CASE n = MaxDepth
  BY <1>0, <1>1
<1>2. CASE n # MaxDepth
  <2>0. n + 1 \in 1 .. MaxDepth /\ n + 1 # 1 /\ n + 1 \in Nat
    BY <1>0, <1>2
  <2>1. n + 1 \in T
    <3>1. Disk!Needed[n + 1] = (Disk!Needed[n + 1 - 1] /\ Wanted(n + 1))
      BY <2>0, NeededIs
    <3> QED
      BY Zenon, <1>2, <2>0, <3>1
  <2>2. ASSUME NEW j \in (n + 1) + 1 .. MaxDepth, j - 1 \in T
        PROVE  j \in T
    <3>1. j \in 1 .. MaxDepth /\ j # 1
      BY <1>0
    <3>2. Disk!Needed[j] = (Disk!Needed[j - 1] /\ Wanted(j))
      BY <3>1, NeededIs
    <3> QED
      BY Zenon, <2>2, <3>1, <3>2
  <2> HIDE DEF T
  <2>3. \A j \in n + 1 .. MaxDepth : j \in T
    BY <1>0, <2>0, <2>1, <2>2, IntervalInduction
  <2> QED
    <3> TAKE m \in 1 .. MaxDepth
    <3> HAVE n < m
    <3>1. m \in n + 1 .. MaxDepth
      BY <1>0
    <3> QED
      BY <2>3, <3>1 DEF T
<1> QED
  BY <1>1, <1>2

-----------------------------------------------------------------------------
\* what Content finds from the n-th image on
FromImage(o, n, next) ==
  IF Disk!Chain[n] = NoParent THEN ZeroByte
  ELSE IF Disk!ByteOf(Disk!Chain[n], o) # Disk!Absent THEN Disk!ByteOf(Disk!Chain[n], o)
  ELSE next

LEMMA ContentExists ==
  ASSUME NEW o
  PROVE  \E f : f = [n \in 1 .. MaxDepth + 1 |->
                       IF n \notin 1 .. MaxDepth THEN ZeroByte
                       ELSE FromImage(o, n, f[n + 1])]
<1> DEFINE S == {ZeroByte} \cup {Disk!ByteOf(Disk!Chain[k], o) : k \in Int}
           step == [j \in Nat |-> [x \in S |-> FromImage(o, MaxDepth + 2 - j, x)]]
<1>0. MaxDepth \in Nat /\ MaxDepth + 1 \in Nat /\ 1 \in Nat /\ 1 <= MaxDepth + 1
  BY MaxDepthAssumption
<1>1. step \in [Nat -> [S -> S]]
      /\ \A j \in Nat : \A x \in S : step[j][x] = FromImage(o, MaxDepth + 2 - j, x)
  <2>1. ASSUME NEW j \in Nat, NEW x \in S
        PROVE  FromImage(o, MaxDepth + 2 - j, x) \in S
    <3>1. MaxDepth + 2 - j \in Int
      BY <1>0
    <3> QED
      BY <3>1 DEF FromImage
  <2> HIDE DEF S
  <2> QED
    BY <2>1
<1>2. ZeroByte \in S
  OBVIOUS
<1> HIDE DEF S, step
<1>3. RecursionExists(S, ZeroByte, step, 1, MaxDepth + 1)
  BY Zenon, <1>0, <1>1, <1>2, Recursion
<1>4. PICK g \in [1 .. MaxDepth + 1 -> S] :
        g[1] = ZeroByte /\ \A j \in 1 + 1 .. MaxDepth + 1 : g[j] = step[j][g[j - 1]]
  BY Zenon, <1>3 DEF RecursionExists
<1> DEFINE f == [n \in 1 .. MaxDepth + 1 |-> g[MaxDepth + 2 - n]]
<1>5. ASSUME NEW n \in 1 .. MaxDepth + 1
      PROVE  f[n] = IF n \notin 1 .. MaxDepth THEN ZeroByte ELSE FromImage(o, n, f[n + 1])
  <2>1. f[n] = g[MaxDepth + 2 - n]
    OBVIOUS
  <2>2. CASE n \notin 1 .. MaxDepth
    <3>1. MaxDepth + 2 - n = 1
      BY <1>0, <2>2
    <3> QED
      BY <1>4, <2>1, <2>2, <3>1
  <2>3. CASE n \in 1 .. MaxDepth
    <3>1. /\ n + 1 \in 1 .. MaxDepth + 1 /\ MaxDepth + 2 - (n + 1) = (MaxDepth + 2 - n) - 1
          /\ MaxDepth + 2 - n \in 1 + 1 .. MaxDepth + 1 /\ MaxDepth + 2 - n \in Nat
          /\ MaxDepth + 2 - (MaxDepth + 2 - n) = n
          /\ (MaxDepth + 2 - n) - 1 \in 1 .. MaxDepth + 1
      BY <1>0, <2>3
    <3>2. f[n + 1] = g[(MaxDepth + 2 - n) - 1]
      BY <3>1
    <3>3. g[(MaxDepth + 2 - n) - 1] \in S
      BY <1>4, <3>1
    <3>4. PICK j \in Nat : j = MaxDepth + 2 - n
      BY <3>1
    <3>5. g[j] = step[j][g[j - 1]]
      BY Zenon, <1>4, <3>1, <3>4
    <3>6. step[j][g[j - 1]] = FromImage(o, MaxDepth + 2 - j, g[j - 1])
      BY <1>1, <3>3, <3>4
    <3> QED
      BY <2>1, <2>3, <3>1, <3>2, <3>4, <3>5, <3>6
  <2> QED
    BY <2>2, <2>3
<1>6. f = [n \in 1 .. MaxDepth + 1 |-> f[n]]
  OBVIOUS
<1> HIDE DEF f
<1>7. f = [n \in 1 .. MaxDepth + 1 |->
             IF n \notin 1 .. MaxDepth THEN ZeroByte ELSE FromImage(o, n, f[n + 1])]
  BY <1>5, <1>6
<1> QED
  BY Zenon, <1>7

\* The nearest image that has the byte wins.
LEMMA ContentIs ==
  ASSUME NEW o, NEW n \in 1 .. MaxDepth,
         \A m \in 1 .. n : Disk!Chain[m] # NoParent,
         \A m \in 1 .. n - 1 : Disk!ByteOf(Disk!Chain[m], o) = Disk!Absent
  PROVE  /\ Disk!ByteOf(Disk!Chain[n], o) # Disk!Absent
              => Disk!Content(o) = Disk!ByteOf(Disk!Chain[n], o)
         /\ Disk!ByteOf(Disk!Chain[n], o) = Disk!Absent /\ Oldest(n)
              => Disk!Content(o) = ZeroByte
<1> DEFINE Rec(f) == f = [k \in 1 .. MaxDepth + 1 |->
                            IF k \notin 1 .. MaxDepth THEN ZeroByte
                            ELSE FromImage(o, k, f[k + 1])]
           from == CHOOSE f : Rec(f)
           T == {k \in 1 .. n : from[1] = from[k]}
<1>0. MaxDepth \in Nat /\ MaxDepth + 1 \in Nat /\ n \in Nat /\ 1 \in 1 .. n /\ n \in 1 .. n
  BY MaxDepthAssumption
<1>1. Disk!Content(o) = from[1]
  BY Zenon DEF Disk!Content, Disk!Depth, FromImage, Disk!NoParent, NoParent, Disk!ZeroByte, ZeroByte
<1>2. Rec(from)
  <2>1. \E f : Rec(f)
    BY ContentExists
  <2> HIDE DEF Rec
  <2> QED
    BY <2>1
<1> HIDE DEF from
<1>3. /\ \A k \in 1 .. MaxDepth : from[k] = FromImage(o, k, from[k + 1])
      /\ from[MaxDepth + 1] = ZeroByte
  <2>1. MaxDepth + 1 \in 1 .. MaxDepth + 1 /\ MaxDepth + 1 \notin 1 .. MaxDepth
        /\ \A k \in 1 .. MaxDepth : k \in 1 .. MaxDepth + 1
    BY <1>0
  <2> QED
    BY <1>2, <2>1
<1>4. 1 \in T
  BY <1>0
<1>5. ASSUME NEW j \in 1 + 1 .. n, j - 1 \in T
      PROVE  j \in T
  <2>1. /\ j \in 1 .. n /\ j - 1 \in 1 .. n - 1 /\ j - 1 \in 1 .. n /\ j - 1 \in 1 .. MaxDepth
        /\ (j - 1) + 1 = j
    BY <1>0
  <2>2. from[j - 1] = FromImage(o, j - 1, from[j])
    BY <1>3, <2>1
  <2>3. FromImage(o, j - 1, from[j]) = from[j]
    BY <2>1 DEF FromImage
  <2> QED
    BY <1>5, <2>1, <2>2, <2>3
<1> HIDE DEF T
<1>6. n \in T
  <2>1. \A j \in 1 .. n : j \in T
    BY <1>0, <1>4, <1>5, IntervalInduction
  <2> QED
    BY <1>0, <2>1
<1>7. from[1] = FromImage(o, n, from[n + 1])
  BY <1>3, <1>6 DEF T
<1>8. ASSUME Oldest(n)
      PROVE  from[n + 1] = ZeroByte
  <2>1. CASE n = MaxDepth
    BY <1>3, <2>1
  <2>2. CASE n # MaxDepth
    <3>1. n + 1 \in 1 .. MaxDepth
      BY <1>0, <2>2
    <3>2. Disk!Chain[n + 1] = NoParent
      BY <1>8, <2>2 DEF Oldest
    <3> QED
      BY <1>3, <3>1, <3>2 DEF FromImage
  <2> QED
    BY <2>1, <2>2
<1> QED
  BY <1>0, <1>1, <1>7, <1>8 DEF FromImage

-----------------------------------------------------------------------------
\* No image of a chain that ends is in it twice.
LEMMA ChainOnce ==
  ASSUME ChainEnds, NoParent \notin DOMAIN disk.files,
         NEW m \in 1 .. MaxDepth, NEW n \in 1 .. MaxDepth,
         Disk!Chain[m] = Disk!Chain[n], Disk!Chain[m] \in DOMAIN disk.files
  PROVE  ~(m < n)
<1> SUFFICES ASSUME m < n
             PROVE  FALSE
  OBVIOUS
<1>0. /\ MaxDepth \in Nat /\ m \in Nat /\ n \in Nat
      /\ \A k \in 1 .. MaxDepth : k # 1 => Disk!Chain[k] = ParentOf(Disk!Chain[k - 1])
  BY MaxDepthAssumption, ChainIs
<1> DEFINE d == n - m
           T == {k \in m .. MaxDepth - d : Disk!Chain[k] = Disk!Chain[k + d]}
<1>1. d \in Nat /\ d # 0 /\ m + d = n /\ MaxDepth - d \in Nat /\ m <= MaxDepth - d
  BY <1>0
<1>2. m \in T
  BY <1>0, <1>1
<1> HIDE DEF d
<1>3. \A k \in m .. MaxDepth - d : k \in T
  <2>1. ASSUME NEW j \in m + 1 .. MaxDepth - d, j - 1 \in T
        PROVE  j \in T
    <3>1. /\ j \in 1 .. MaxDepth /\ j # 1 /\ j + d \in 1 .. MaxDepth /\ j + d # 1
          /\ (j + d) - 1 = (j - 1) + d /\ j \in m .. MaxDepth - d
      BY <1>0, <1>1
    <3>2. /\ Disk!Chain[j] = ParentOf(Disk!Chain[j - 1])
          /\ Disk!Chain[j + d] = ParentOf(Disk!Chain[(j + d) - 1])
      BY <1>0, <3>1
    <3> QED
      BY <2>1, <3>1, <3>2
  <2> HIDE DEF T
  <2> QED
    BY Zenon, <1>0, <1>1, <1>2, <2>1, IntervalInduction
<1>4. \A k \in m .. MaxDepth : Disk!Chain[k] \in DOMAIN disk.files
  <2> DEFINE Out == {k \in m .. MaxDepth : Disk!Chain[k] \notin DOMAIN disk.files}
  <2> SUFFICES ASSUME Out # {}
               PROVE  FALSE
    OBVIOUS
  <2>1. Out \subseteq Nat
    BY <1>0
  <2>2. PICK k \in Out : \A j \in Out : k <= j
    BY Zenon, <2>1, LeastElement
  <2>3. k \in m .. MaxDepth /\ k \in Nat /\ k \in 1 .. MaxDepth
        /\ Disk!Chain[k] \notin DOMAIN disk.files
    BY <1>0, <2>2
  <2>4. CASE k > n
    <3>1. k - d \in m .. MaxDepth - d /\ k - d < k /\ k - d \in m .. MaxDepth
          /\ (k - d) + d = k
      BY <1>0, <1>1, <2>3, <2>4
    <3>2. Disk!Chain[k - d] = Disk!Chain[k]
      BY <1>3, <3>1 DEF T
    <3>3. k - d \in Out
      BY <2>3, <3>1, <3>2
    <3>4. k <= k - d
      BY <2>2, <3>3
    <3> QED
      BY <1>1, <2>3, <3>1, <3>4
  <2>5. CASE k <= n
    <3> DEFINE U == {j \in k .. n : Disk!Chain[j] \notin DOMAIN disk.files}
    <3>1. k \in U
      BY <1>0, <2>3, <2>5
    <3>2. ASSUME NEW j \in k + 1 .. n, j - 1 \in U
          PROVE  j \in U
      <4>1. j \in 1 .. MaxDepth /\ j # 1 /\ j \in k .. n
        BY <1>0, <2>3
      <4>2. Disk!Chain[j] = NoParent
        BY <1>0, <3>2, <4>1 DEF ParentOf
      <4> QED
        BY <4>1, <4>2
    <3> HIDE DEF U
    <3>3. \A j \in k .. n : j \in U
      BY Zenon, <1>0, <2>3, <3>1, <3>2, IntervalInduction
    <3>4. n \in U
      BY <1>0, <2>3, <2>5, <3>3
    <3> QED
      BY <3>4 DEF U
  <2> QED
    BY <1>0, <2>3, <2>4, <2>5
<1>5. Disk!Chain[MaxDepth] = Disk!Chain[MaxDepth - d]
  <2>1. MaxDepth - d \in m .. MaxDepth - d /\ (MaxDepth - d) + d = MaxDepth
    BY <1>0, <1>1
  <2> QED
    BY <1>3, <2>1 DEF T
<1>6. ParentOf(Disk!Chain[MaxDepth]) = NoParent
  <2>1. MaxDepth \in m .. MaxDepth
    BY <1>0
  <2>2. Disk!Chain[MaxDepth] \in DOMAIN disk.files
    BY <1>4, <2>1
  <2> QED
    BY <2>2 DEF ChainEnds, ParentOf
<1>7. /\ MaxDepth - d + 1 \in 1 .. MaxDepth /\ MaxDepth - d + 1 # 1
      /\ (MaxDepth - d + 1) - 1 = MaxDepth - d /\ MaxDepth - d + 1 \in m .. MaxDepth
  BY <1>0, <1>1
<1>8. Disk!Chain[MaxDepth - d + 1] = ParentOf(Disk!Chain[MaxDepth - d])
  BY <1>0, <1>7
<1>9. Disk!Chain[MaxDepth - d + 1] \in DOMAIN disk.files
  BY <1>4, <1>7
<1> QED
  BY <1>5, <1>6, <1>8, <1>9

\* An extent stays what it is for, whatever is added to the sources.
LEMMA ExtentKept ==
  ASSUME Counted, [ReaderNext]_vars, disk' = disk
  PROVE  \A ex, n : IsExtent(ex, n) => IsExtent(ex, n)'
<1>1. \A k \in DOMAIN sources : k \in DOMAIN sources' /\ sources'[k] = sources[k]
  BY StepCounted
<1>2. /\ Disk!Chain' = Disk!Chain /\ \A n : Fits(n)' = Fits(n)
      /\ \A img : Data(img)' = Data(img)
      /\ \A img, first : ReadFrom(img, first)' = ReadFrom(img, first)
  BY ChainKept, FitsKept, DataKept, ReadKept
<1>3. ASSUME NEW ex, NEW img, IsFrom(ex, img)
      PROVE  IsFrom(ex, img)'
  <2>1. PICK source \in Nat :
          /\ ExtentFrom(ex, img, source)
          /\ source \in DOMAIN sources
          /\ sources[source] = SourceOf(Data(img))
    BY <1>3 DEF IsFrom
  <2>2. ExtentFrom(ex, img, source)'
    BY <1>2, <2>1 DEF ExtentFrom
  <2>3. source \in DOMAIN sources'
        /\ sources'[source] = SourceOf(Data(img))'
    BY <1>1, <1>2, <2>1 DEF SourceOf
  <2> QED
    BY <2>2, <2>3 DEF IsFrom
<1> QED
  BY <1>2, <1>3 DEF IsExtent

\* where the spans and the extents stay as they are
LEMMA SearchedKept ==
  ASSUME Searched, disk' = disk, \A ex, n : IsExtent(ex, n) => IsExtent(ex, n)',
         extents' = extents, spans' = spans
  PROVE  Searched'
<1>1. Sec' = Sec /\ \A n, s : Has(n, s)' = Has(n, s)
  BY DiskKept
<1>2. \A m \in DOMAIN extents : IsExtent(extents[m], m)'
  BY DEF Searched
<1> QED
  BY <1>1, <1>2 DEF Searched, Owned

\* an iteration of insert_span labels sectors that have no label yet
LEMMA NewLabels ==
  ASSUME MapsOK, NEW after \in {"remove", "none"}, Maps!InsertSpan(after)
  PROVE  \A s \in Nat : \A v \in P!OwnersIn(spans', s) :
           v \in P!OwnersIn(spans, s) \/ (v = call.val /\ ~Owned(s))
<1>1. P!InsertSpan(after) /\ P!IInv
  BY SameInsert DEF MapsOK
<1>2. PICK k \in Nat : P!SweptTo(k, after) /\ P!HandedOut(spans', k)
  BY <1>1, SpansAssumed, P!InsertStep
<1> QED
  BY <1>2 DEF P!HandedOut, Owned

-----------------------------------------------------------------------------
\* the source that handle_image adds for the data of the image
LEMMA SourceOfData ==
  ASSUME NEW files, NEW f, files = [j \in {1} |-> f], idx \in Nat
  PROVE  /\ idx + 1 \in DOMAIN WithSources(current, files)
         /\ WithSources(current, files)[idx + 1] = SourceOf(f)
<1>1. files = <<f>>
  OBVIOUS
<1>2. (<<current>> \o files)[2] = f /\ Len(files) = 1
  BY <1>1
<1>3. idx + 1 \in idx .. idx + 1 /\ ~(idx + 1 < idx) /\ (idx + 1) - idx + 1 = 2
  OBVIOUS
<1> QED
  BY Zenon, <1>2, <1>3 DEF WithSources, SourceOf

LEMMA OneFile ==
  ASSUME NEW img, IsImage(img), disk \in Disks, NEW first, NEW r, ImageIs(img, first, r),
         NEW f, r.files[1] = f
  PROVE  r.files = [j \in {1} |-> f]
<1>1. DOMAIN Disk!Eds(img) = {1}
  BY OneExtent
<1>2. PICK eds : eds = Disk!Eds(img)
  OBVIOUS
<1>3. PICK single : single = (disk.files[img].sig = "vmdk4" /\ Len(eds) = 1)
  OBVIOUS
<1>4. r.files = [j \in DOMAIN eds |-> SourceFor(img, eds[j], single)]
  BY Zenon, <1>2, <1>3 DEF ImageIs, ReadExtents
<1>5. r.files = [j \in {1} |-> SourceFor(img, eds[j], single)]
  BY <1>1, <1>2, <1>4
<1>6. f = SourceFor(img, eds[1], single)
  BY <1>5
<1> QED
  BY <1>5, <1>6

\* the only n for which the current image is the n-th
LEMMA PlaceOfCurrent ==
  ASSUME SoundDisk, WholeDisk, current \in DOMAIN disk.files,
         NEW n \in 1 .. MaxDepth, Disk!Chain[n] = current,
         NEW m \in 1 .. MaxDepth, Disk!Chain[m] = current
  PROVE  n = m
<1>1. ~(m < n) /\ ~(n < m)
  BY ChainOnce DEF SoundDisk, WholeDisk
<1> QED
  BY <1>1, MaxDepthAssumption

\* handle_image: the extent of the image is in the queue
LEMMA ImageSearched ==
  ASSUME SearchInv, SearchInv', [ReaderNext]_vars, WholeDisk, SearchedInv, HandleImage
  PROVE  SearchedInv'
<1> DEFINE read == ReadImage
           sectors == SectorsOf(read.extents)
<1> HIDE DEF read
<1>0. pc = "image" /\ disk' = disk /\ disk \in Disks /\ idx \in Nat /\ idx + 1 \in Nat
      /\ Counted /\ SoundDisk /\ queue = <<>>
  BY DEF HandleImage, SearchInv, ReaderInv, Counted
<1>1. CASE pc' \in {"failed", "panicked"}
  BY <1>1 DEF SearchedInv, Searching
<1>2. CASE /\ read.outcome = "extents"
           /\ pc' = "extents"
           /\ sources' = WithSources(current, read.files)
           /\ queue' = read.extents
           /\ imageSize' = <<sectors * SectorSize>>
           /\ UNCHANGED <<current, extents, spans>>
  <2>1. current \in DOMAIN disk.files /\ disk.files[current].desc.ok
        /\ ImageIs(current, idx + 1, read)
    BY <1>2 DEF read, ReadImage, ImageIs, Disk!Eds
  <2>2. IsImage(current)
    BY <1>0, <2>1, DescribedIsImage
  <2>3. sectors = Disk!Sectors(current) /\ sectors \in Nat
    BY <1>0, <2>1, SameSectors
  <2> HIDE DEF sectors
  <2>4. Disk!Usable(current) /\ read = ReadFrom(current, idx + 1)
    BY <1>0, <1>2, ReadImageIs DEF read
  <2>5. /\ DOMAIN read.extents = {1} /\ Len(read.extents) = 1
        /\ read.files[1] = Data(current) /\ DOMAIN read.files = {1}
    BY <1>0, <2>1, <2>2, ShapeOfImage
  <2>6. sectors = Sec
    <3>1. PICK n \in 1 .. MaxDepth : AtImage(n)'
      BY <1>2 DEF SearchInv, NeededInv, Searching
    <3>2. Sec' \in Nat /\ imageSize' = <<Sec' * SectorSize>>
      BY <1>2, <3>1 DEF AtImage
    <3>3. Sec' = Sec
      BY <1>0, DiskKept
    <3>4. sectors * SectorSize = Sec * SectorSize /\ Sec \in Nat
      BY <1>2, <3>2, <3>3
    <3>5. \A a, b, c \in Nat : c # 0 /\ a * c = b * c => a = b
      OBVIOUS
    <3> QED
      BY <2>3, <3>4, <3>5, StorageAssumption
  <2>7. read.files = [j \in {1} |-> Data(current)]
    BY Zenon, <1>0, <2>1, <2>2, <2>5, OneFile
  <2>8. PICK ex : ex = read.extents[1]
    OBVIOUS
  <2>9. PICK img : img = current
    OBVIOUS
  <2>10. IsFrom(ex, img)'
    <3>1. PICK source \in Nat : source = idx + 1
      BY <1>0
    <3>2. source \in DOMAIN sources'
          /\ sources'[source] = SourceOf(Data(img))
      BY <1>0, <1>2, <2>7, <2>9, <3>1, SourceOfData
    <3>3. ExtentFrom(ex, img, source)
      BY <1>2, <2>4, <2>8, <2>9, <3>1 DEF ExtentFrom
    <3>4. ExtentFrom(ex, img, source)' /\ Data(img)' = Data(img)
      BY <1>0, <3>3, ReadKept, DataKept DEF ExtentFrom
    <3> QED
      BY <1>0, <3>2, <3>4 DEF IsFrom, SourceOf
  <2>11. /\ Pos \in 1 .. MaxDepth /\ Disk!Chain[Pos] = current
         /\ Pos = Len(extents) + 1 /\ Searched
    BY <1>0 DEF SearchedInv, Searching, Pos
  <2>12. PICK n \in 1 .. MaxDepth : n = Pos
    BY <2>11
  <2>13. /\ Disk!Chain' = Disk!Chain /\ \A k : Fits(k)' = Fits(k)
         /\ \A e, k : IsExtent(e, k) => IsExtent(e, k)'
    BY <1>0, ChainKept, FitsKept, ExtentKept
  <2>14. Fits(n)
    BY Zenon, <2>3, <2>4, <2>6, <2>11, <2>12 DEF Fits
  <2>15. IsExtent(ex, n)'
    BY <2>9, <2>10, <2>11, <2>12, <2>13, <2>14 DEF IsExtent
  <2>16. Len(queue') = 1 /\ Head(queue') = ex
    BY <1>2, <2>5, <2>8
  <2>17. Pos' = n
    BY <1>2, <2>11, <2>12, <2>16 DEF Pos
  <2>18. IsExtent(Head(queue), Pos)'
    BY <2>15, <2>16, <2>17 DEF IsExtent, IsFrom
  <2>19. Searched'
    BY <1>0, <1>2, <2>11, <2>13, SearchedKept
  <2>20. Disk!Chain'[Pos'] = current'
    BY <1>2, <2>11, <2>12, <2>13, <2>17
  <2>21. Pos' \in 1 .. MaxDepth /\ Disk!Chain'[Pos'] = current' /\ Len(queue') \in 0 .. 1
    BY <2>12, <2>16, <2>17, <2>20
  <2> QED
    BY Zenon, <2>18, <2>19, <2>21 DEF SearchedInv
<1> QED
  BY <1>1, <1>2 DEF HandleImage, openVars, read

\* where the extents and the queue stay as they are
LEMMA StillSearched ==
  ASSUME SearchedInv, pc \in {"extents", "spans"}, pc' \in {"extents", "spans"},
         UNCHANGED <<disk, current, queue, extents>>,
         \A ex, n : IsExtent(ex, n) => IsExtent(ex, n)',
         Searched'
  PROVE  SearchedInv'
<1>1. /\ Pos \in 1 .. MaxDepth /\ Disk!Chain[Pos] = current
      /\ Len(queue) \in 0 .. 1
      /\ queue # <<>> => IsExtent(Head(queue), Pos)
  BY DEF SearchedInv, Searching
<1>2. Pos' = Pos /\ Disk!Chain' = Disk!Chain
  BY ChainKept DEF Pos
<1>3. queue' # <<>> => IsExtent(Head(queue), Pos)'
  <2> HAVE queue' # <<>>
  <2>1. PICK ex : ex = Head(queue)
    OBVIOUS
  <2>2. PICK n : n = Pos
    OBVIOUS
  <2>3. IsExtent(ex, n)'
    BY <1>1, <2>1, <2>2
  <2> QED
    BY <1>2, <2>1, <2>2, <2>3 DEF IsExtent, IsFrom
<1> QED
  BY <1>1, <1>2, <1>3 DEF SearchedInv

LEMMA ExtentSearched ==
  ASSUME SearchInv, [ReaderNext]_vars, SearchedInv, BeginExtent \/ InsertOne
  PROVE  SearchedInv'
<1>1. /\ pc \in {"extents", "spans"} /\ pc' = "spans"
      /\ UNCHANGED <<disk, current, queue, extents, spans>>
  BY DEF BeginExtent, InsertOne, mapVars, Maps!Claim
<1>2. \A ex, n : IsExtent(ex, n) => IsExtent(ex, n)'
  BY <1>1, ExtentKept DEF SearchInv, ReaderInv
<1>3. Searched'
  BY <1>1, <1>2, SearchedKept DEF SearchedInv, Searching
<1> QED
  BY <1>1, <1>2, <1>3, StillSearched

\* an iteration gives no sector to an image that is not the first to have it
LEMMA RunSearched ==
  ASSUME SearchInv, [ReaderNext]_vars, SearchedInv, RunMaps
  PROVE  SearchedInv'
<1>1. /\ pc = "spans" /\ pc' = "spans"
      /\ UNCHANGED <<disk, current, queue, extents>>
      /\ MapsOK /\ Swept /\ LabelsInv
      /\ Maps!InsertSpan("remove") \/ Maps!RemoveSpan
  BY DEF RunMaps, openVars, SearchInv, ReaderInv, OpenInv
<1>2. \A ex, n : IsExtent(ex, n) => IsExtent(ex, n)'
  BY <1>1, ExtentKept DEF SearchInv, ReaderInv
<1>3. Searched
  BY <1>1 DEF SearchedInv, Searching
<1>4. CASE Maps!RemoveSpan
  <2>1. spans' = spans
    BY <1>4 DEF Maps!RemoveSpan
  <2>2. Searched'
    BY <1>1, <1>2, <1>3, <2>1, SearchedKept
  <2> QED
    BY <1>1, <1>2, <2>2, StillSearched
<1>5. CASE Maps!InsertSpan("remove")
  <2>1. /\ NothingLost /\ loop = "insert"
    BY <1>1, <1>5, InsertKeeps
  <2>2. call.val = Len(extents)
    BY <1>1, <2>1 DEF LabelsInv
  <2>3. \A s \in Nat : \A v \in P!OwnersIn(spans', s) :
          v \in P!OwnersIn(spans, s) \/ (v = call.val /\ ~Owned(s))
    BY <1>1, <1>5, NewLabels
  <2>4. Sec' = Sec /\ \A n, s : Has(n, s)' = Has(n, s)
    BY <1>1, DiskKept
  <2>5. ASSUME NEW s \in Nat, s < Sec
        PROVE  /\ Has(Len(extents), s) => P!OwnersIn(spans', s) # {}
               /\ \A v \in P!OwnersIn(spans', s) : ~Has(v, s)
    BY <1>3, <2>1, <2>2, <2>3, <2>5 DEF Searched, NothingLost
  <2>6. \A m \in DOMAIN extents : IsExtent(extents[m], m)'
    BY <1>1, <1>2, <1>3 DEF Searched
  <2>7. Searched'
    <3>1. \A m \in DOMAIN extents' : IsExtent(extents[m], m)'
      BY <1>1, <2>6
    <3> QED
      BY <1>1, <2>4, <2>5, <3>1 DEF Searched, Owned
  <2> QED
    BY <1>1, <1>2, <2>7, StillSearched
<1> QED
  BY <1>1, <1>4, <1>5

\* The extent of the current image is done: what the image has is taken.
LEMMA ExtentDone ==
  ASSUME SearchInv, [ReaderNext]_vars, WholeDisk, SearchedInv, EndExtent
  PROVE  /\ Searched' /\ Len(extents') = Pos /\ DOMAIN extents' = 1 .. Pos
         /\ Pos \in 1 .. MaxDepth /\ Disk!Chain[Pos] = current
         /\ queue' = <<>> /\ AtImage(Pos)
         /\ \A m \in 1 .. Pos : IsExtent(extents'[m], m)
<1>1. /\ pc = "spans" /\ UNCHANGED <<disk, current, spans>>
      /\ loop = "none" /\ todo = {}
      /\ queue' = Tail(queue) /\ extents' = Append(extents, Head(queue))
      /\ Counted /\ LabelsInv /\ NeededInv
  BY DEF EndExtent, mapVars, SearchInv, ReaderInv
<1>2. /\ Pos \in 1 .. MaxDepth /\ Disk!Chain[Pos] = current /\ Len(queue) \in 0 .. 1
      /\ queue # <<>> => IsExtent(Head(queue), Pos)
      /\ Searched
  BY <1>1 DEF SearchedInv, Searching
<1>3. queue # <<>> /\ \E S : queue \in Seq(S)
  BY <1>1 DEF Counted, IsQueue
<1>4. /\ Len(queue) = 1 /\ DOMAIN queue = {1} /\ queue' = <<>>
  BY <1>1, <1>2, <1>3
<1>5. /\ Len(extents) \in Nat /\ DOMAIN extents = 1 .. Len(extents)
      /\ \E S : extents \in Seq(S)
  BY <1>1 DEF LabelsInv, ExtentsOK
<1>6. PICK len \in Nat : len = Len(extents)
  BY Zenon, <1>5
<1>7. PICK pos : pos = Pos
  OBVIOUS
<1>8. pos = len + 1
  BY <1>1, <1>4, <1>6, <1>7 DEF Pos
<1>9. /\ Len(extents') = pos /\ DOMAIN extents' = 1 .. pos
      /\ \A m \in 1 .. len : extents'[m] = extents[m]
      /\ extents'[pos] = Head(queue)
  BY <1>1, <1>5, <1>6, <1>8
<1>10. PICK n \in 1 .. MaxDepth : AtImage(n)
  BY <1>1 DEF NeededInv, Searching
<1>11. n = pos
  <2>1. current \in DOMAIN disk.files /\ Disk!Chain[n] = current
    BY <1>1, <1>10 DEF AtImage
  <2> QED
    BY <1>2, <1>7, <2>1, PlaceOfCurrent DEF SearchInv
<1>12. \A s \in Nat : s < Sec /\ Has(pos, s) => Owned(s)
  <2> SUFFICES ASSUME NEW s \in Nat, s < Sec, Has(pos, s)
               PROVE  Owned(s)
    OBVIOUS
  <2>1. Owned(s) \/ Pending(s)
    BY <1>1, <1>10, <1>11 DEF AtImage
  <2>2. ~Pending(s)
    BY <1>1, <1>4 DEF Pending
  <2> QED
    BY <2>1, <2>2
<1>13. \A ex, k : IsExtent(ex, k) => IsExtent(ex, k)'
  BY <1>1, ExtentKept
<1>14. ASSUME NEW m \in 1 .. pos
       PROVE  IsExtent(extents'[m], m)
  <2>1. CASE m = pos
    BY <1>2, <1>3, <1>7, <1>9, <2>1
  <2>2. CASE m # pos
    <3>1. m \in 1 .. len
      BY <1>8, <2>2
    <3> QED
      BY <1>2, <1>5, <1>6, <1>9, <3>1 DEF Searched
  <2> QED
    BY <2>1, <2>2
<1>15. Searched'
  <2>1. Sec' = Sec /\ \A k, s : Has(k, s)' = Has(k, s)
    BY <1>1, DiskKept
  <2>2. ASSUME NEW m \in 1 .. pos
        PROVE  IsExtent(extents[m], m)'
    <3>1. PICK ex : ex = extents'[m]
      OBVIOUS
    <3>2. IsExtent(ex, m)'
      BY <1>13, <1>14, <3>1
    <3> QED
      BY <3>1, <3>2 DEF IsExtent, IsFrom
  <2>3. \A s \in Nat : s < Sec => \A v \in P!OwnersIn(spans, s) : ~Has(v, s)
    BY <1>2 DEF Searched
  <2>4. \A m \in DOMAIN extents' : IsExtent(extents[m], m)'
    BY <1>9, <2>2
  <2>5. \A s \in Nat : s < Sec' => /\ Has(Len(extents), s)' => Owned(s)'
                                   /\ \A v \in P!OwnersIn(spans', s) : ~Has(v, s)'
    <3>1. Len(extents') = pos
      BY <1>9
    <3> QED
      BY <1>1, <1>12, <2>1, <2>3, <3>1 DEF Owned
  <2> QED
    BY <2>4, <2>5 DEF Searched
<1> QED
  BY <1>2, <1>4, <1>7, <1>9, <1>10, <1>11, <1>14, <1>15

LEMMA EndSearched ==
  ASSUME SearchInv, [ReaderNext]_vars, WholeDisk, SearchedInv, EndExtent
  PROVE  SearchedInv'
<1>1. pc' \in {"fill", "extents"} /\ disk' = disk /\ current' = current
  BY DEF EndExtent
<1>2. /\ Searched' /\ Len(extents') = Pos /\ queue' = <<>>
      /\ Pos \in 1 .. MaxDepth /\ Disk!Chain[Pos] = current
  BY ExtentDone
<1>3. PICK pos : pos = Pos
  OBVIOUS
<1>4. CASE pc' = "fill"
  BY <1>4 DEF SearchedInv, Searching
<1>5. CASE pc' = "extents"
  <2>1. Len(queue') = 0 /\ pos + 0 = pos
    BY <1>2, <1>3
  <2>2. Pos' = pos
    BY <1>2, <1>3, <1>5, <2>1 DEF Pos
  <2>3. Disk!Chain' = Disk!Chain
    BY <1>1, ChainKept
  <2> QED
    BY <1>1, <1>2, <1>3, <1>5, <2>1, <2>2, <2>3 DEF SearchedInv
<1> QED
  BY <1>1, <1>4, <1>5

\* on to the parent, which is the next image of the chain
LEMMA ParentSearched ==
  ASSUME SearchInv, [ReaderNext]_vars, WholeDisk, SearchedInv, NextImage
  PROVE  SearchedInv'
<1>1. /\ pc = "extents" /\ queue = <<>> /\ UNCHANGED <<disk, extents, spans, queue>>
      /\ NeededInv /\ LabelsInv /\ Counted
      /\ (pc' = "fill" \/ (pc' = "image" /\ current' = parent /\ parent # NoParent))
  BY DEF NextImage, mapVars, SearchInv, ReaderInv
<1>2. CASE pc' = "fill"
  BY <1>2 DEF SearchedInv, Searching
<1>3. CASE pc' = "image" /\ current' = parent /\ parent # NoParent
  <2>1. Pos \in 1 .. MaxDepth /\ Disk!Chain[Pos] = current /\ Searched
    BY <1>1 DEF SearchedInv, Searching
  <2>2. PICK pos : pos = Pos
    OBVIOUS
  <2>3. pos = Len(extents)
    BY <1>1, <2>2 DEF Pos, LabelsInv, ExtentsOK
  <2>4. Pos' = pos + 1
    BY <1>1, <1>3, <2>3 DEF Pos
  <2>5. current \in DOMAIN disk.files /\ parent = disk.files[current].desc.parent
    BY <1>1 DEF NeededInv, Searching, AtImage
  <2>6. pos # MaxDepth
    BY <1>3, <2>1, <2>2, <2>5 DEF SearchInv, SoundDisk, ChainEnds
  <2>7. pos + 1 \in 1 .. MaxDepth /\ pos + 1 # 1 /\ (pos + 1) - 1 = pos
    BY <2>1, <2>2, <2>6, MaxDepthAssumption
  <2>8. Disk!Chain[pos + 1] = parent
    BY <2>1, <2>2, <2>5, <2>7, ChainIs DEF ParentOf
  <2>9. Searched'
    BY <1>1, <2>1, ExtentKept, SearchedKept
  <2>10. Disk!Chain' = Disk!Chain
    BY <1>1, ChainKept
  <2> QED
    BY <1>1, <1>3, <2>4, <2>7, <2>8, <2>9, <2>10 DEF SearchedInv
<1> QED
  BY <1>1, <1>2, <1>3

\* an image that fits is an image
LEMMA FitIsImage ==
  ASSUME SoundDisk, WholeDisk, NEW n, Fits(n)
  PROVE  /\ IsImage(Disk!Chain[n]) /\ Disk!Chain[n] # NoParent
         /\ Disk!Sectors(Disk!Chain[n]) = Sec
BY DescribedIsImage DEF Fits, Disk!Usable, WholeDisk

\* the extent of an image that fits has the sectors of the bytes of that image
LEMMA ExtentHasSector ==
  ASSUME disk \in Disks, SoundDisk, WholeDisk, NEW ex, NEW n, IsExtent(ex, n),
         NEW o \in Nat, o \div SectorSize < Sec
  PROVE  Disk!ByteOf(Disk!Chain[n], o) # Disk!Absent <=> InSpans(ex, o \div SectorSize)
<1>1. IsImage(Disk!Chain[n]) /\ Disk!Sectors(Disk!Chain[n]) = Sec
  BY FitIsImage DEF IsExtent
<1>2. PICK source \in Nat : ExtentFrom(ex, Disk!Chain[n], source)
  BY DEF IsExtent, IsFrom
<1> QED
  BY <1>1, <1>2, ExtentHasByte

LEMMA SectorStarts ==
  ASSUME NEW s \in Nat
  PROVE  s * SectorSize \in Nat /\ (s * SectorSize) \div SectorSize = s
BY StorageAssumption, DivModOf

LEMMA SectorIsNat ==
  ASSUME NEW o \in Nat
  PROVE  o \div SectorSize \in Nat
BY StorageAssumption, QuotientBounds

\* if the first n images have not the first byte of a sector, they have none of it
LEMMA NoneHas ==
  ASSUME disk \in Disks, SoundDisk, WholeDisk, NEW n,
         \A m \in 1 .. n : \E ex : IsExtent(ex, m),
         NEW o \in Nat, o \div SectorSize < Sec
  PROVE  Has(n, o \div SectorSize)
           <=> \E m \in 1 .. n : Disk!ByteOf(Disk!Chain[m], o) # Disk!Absent
<1>1. PICK s \in Nat : s = o \div SectorSize
  BY SectorIsNat
<1>2. s * SectorSize \in Nat /\ (s * SectorSize) \div SectorSize = s
  BY SectorStarts
<1>3. PICK a \in Nat : a = s * SectorSize
  BY <1>2
<1>4. ASSUME NEW m \in 1 .. n
      PROVE  Disk!ByteOf(Disk!Chain[m], o) # Disk!Absent
               <=> Disk!ByteOf(Disk!Chain[m], s * SectorSize) # Disk!Absent
  <2>1. PICK ex : IsExtent(ex, m)
    OBVIOUS
  <2>2. Disk!ByteOf(Disk!Chain[m], o) # Disk!Absent <=> InSpans(ex, s)
    BY <1>1, <2>1, ExtentHasSector
  <2>3. Disk!ByteOf(Disk!Chain[m], a) # Disk!Absent <=> InSpans(ex, a \div SectorSize)
    BY <1>1, <1>2, <1>3, <2>1, ExtentHasSector
  <2> QED
    BY <1>2, <1>3, <2>2, <2>3
<1> QED
  BY <1>1, <1>4 DEF Has

\* what a label says of an extent, when it is one of an image
LEMMA LabelledHas ==
  ASSUME disk \in Disks, SoundDisk, WholeDisk, NEW ex, NEW n, IsExtent(ex, n),
         NEW s \in Nat, s < Sec, HasSector(ex, s)
  PROVE  InSpans(ex, s)
<1>1. IsImage(Disk!Chain[n]) /\ Disk!Sectors(Disk!Chain[n]) = Sec
  BY FitIsImage DEF IsExtent
<1>2. PICK img : img = Disk!Chain[n]
  OBVIOUS
<1>3. PICK source \in Nat : ExtentFrom(ex, img, source)
  BY <1>2 DEF IsExtent, IsFrom
<1>4. CASE ex.storage.kind = "sparse"
  BY <1>4 DEF HasSector, InSpans
<1>5. CASE ex.storage.kind # "sparse"
  <2>1. ExtentShape(ex, img, source)
    BY <1>1, <1>2, <1>3, ShapeOfExtent
  <2>2. PICK eds : eds = Disk!Eds(img)
    OBVIOUS
  <2>3. PICK st : ex = [start_sector |-> 0, sectors |-> eds[1].sectors, storage |-> st]
    BY Zenon, <2>1, <2>2 DEF ExtentShape
  <2>4. eds[1].sectors = Sec /\ eds[1].sectors \in Nat
    BY <1>1, <1>2, <2>2, OneExtent
  <2>5. ex.start_sector = 0 /\ ex.sectors = Sec /\ Sec \in Nat
    BY <2>3, <2>4
  <2>6. SpansOf(ex) = {[beg |-> 0, end |-> 0 + Sec]}
    BY <1>5, <2>5 DEF SpansOf
  <2>7. [beg |-> 0, end |-> 0 + Sec] \in SpansOf(ex)
    BY <2>6
  <2> QED
    BY <2>5, <2>7 DEF InSpans
<1> QED
  BY <1>4, <1>5

\* the sector of a byte of the image
LEMMA SectorInImage ==
  ASSUME NEW n \in Nat, NEW o \in Nat
  PROVE  o \div SectorSize \in Nat /\ (o < n * SectorSize <=> o \div SectorSize < n)
<1>1. n * SectorSize \in Nat
  BY StorageAssumption
<1>2. o \div SectorSize \in Nat /\ (n <= o \div SectorSize <=> n * SectorSize <= o)
  BY StorageAssumption, QuotientBounds
<1> QED
  BY <1>1, <1>2

-----------------------------------------------------------------------------
\* With nothing uncovered, the images so far have every byte.
LEMMA AllThere ==
  ASSUME SearchInv, SearchInv', [ReaderNext]_vars, WholeDisk, SearchedInv, EndExtent,
         pc' = "fill"
  PROVE  FoundInv'
<1>1. /\ pc = "spans" /\ UNCHANGED <<disk, imageSize, uncovered, spans>>
      /\ DOMAIN uncovered = {} /\ disk \in Disks /\ SoundDisk /\ ReaderInv /\ ReaderInv'
  BY DEF EndExtent, mapVars, SearchInv, ReaderInv, Counted
<1>2. PICK n \in 1 .. MaxDepth : n = Pos
  BY ExtentDone
<1>3. /\ Searched' /\ Len(extents') = n /\ DOMAIN extents' = 1 .. n /\ AtImage(n)
      /\ \A m \in 1 .. n : IsExtent(extents'[m], m)
  BY <1>2, ExtentDone
<1>4. Disk!Needed[n] /\ Sec \in Nat /\ imageSize = <<Sec * SectorSize>>
  BY <1>1, <1>3 DEF AtImage
<1>5. /\ Disk!Chain' = Disk!Chain /\ Disk!Needed' = Disk!Needed /\ Sec' = Sec
      /\ \A k, s : Has(k, s)' = Has(k, s)
  BY <1>1, DiskKept
<1>6. ASSUME NEW s \in Nat, s < Sec
      PROVE  Owned(s)
  <2>1. PICK k \in Nat : imageSize = <<k * SectorSize>> /\ Covered(k)
    BY <1>1, <1>4 DEF ReaderInv, OpenInv
  <2>2. k = Sec
    <3>1. k * SectorSize = Sec * SectorSize
      BY <1>4, <2>1
    <3>2. \A a, b, c \in Nat : c # 0 /\ a * c = b * c => a = b
      OBVIOUS
    <3> QED
      BY <1>4, <2>1, <3>1, <3>2, StorageAssumption
  <2>3. ~P!HeldIn(uncovered, s)
    BY <1>1 DEF P!HeldIn
  <2> QED
    BY <1>6, <2>1, <2>2, <2>3 DEF Covered
<1>7. ASSUME NEW s \in Nat, NEW v \in P!OwnersIn(spans', s)
      PROVE  v \in 0 .. n - 1 /\ HasSector(extents'[v + 1], s)
  <2>1. LabelsInv'
    BY <1>1 DEF ReaderInv
  <2>2. PICK b \in DOMAIN spans' : spans'[b].val = v
    BY OwnersAreVals
  <2>3. v \in 0 .. n /\ v # n
    BY <1>3, <2>1, <2>2 DEF LabelsInv
  <2>4. n \in Nat
    BY MaxDepthAssumption
  <2>5. v < n /\ v \in 0 .. n - 1
    BY <2>3, <2>4
  <2>6. Carries(v, s)'
    BY <2>1 DEF LabelsInv
  <2>7. HasSector(extents'[v + 1], s)
    BY <1>3, <2>5, <2>6 DEF Carries, HasSector, SpansOf
  <2> QED
    BY <2>5, <2>7
<1>8. ~Wanted(n + 1)
  <2> SUFFICES ASSUME NEW o \in Disk!Offset,
                      \A m \in 1 .. (n + 1) - 1 : Disk!ByteOf(Disk!Chain[m], o) = Disk!Absent
               PROVE  FALSE
    BY DEF Wanted
  <2>1. o \in Nat /\ o < Sec * SectorSize
    <3>1. Sec * SectorSize \in Nat
      BY <1>4, StorageAssumption
    <3>2. PICK size \in Nat : size = Sec * SectorSize
      BY <3>1
    <3>3. o \in 0 .. size - 1
      BY <3>2 DEF Disk!Offset, Disk!Size, Sec
    <3> QED
      BY <3>2, <3>3
  <2>2. o \div SectorSize \in Nat /\ o \div SectorSize < Sec
    BY <1>4, <2>1, SectorInImage
  <2>3. PICK s \in Nat : s = o \div SectorSize
    BY <2>2
  <2>4. PICK v \in P!OwnersIn(spans', s) : TRUE
    BY <1>1, <1>6, <2>2, <2>3 DEF Owned
  <2>5. v \in 0 .. n - 1 /\ HasSector(extents'[v + 1], s)
    BY <1>7
  <2>6. PICK m \in 1 .. n : m = v + 1
    BY <2>5
  <2>7. PICK ex : ex = extents'[m]
    OBVIOUS
  <2>8. IsExtent(ex, m) /\ HasSector(ex, s)
    BY <1>3, <2>5, <2>6, <2>7
  <2>9. InSpans(ex, s)
    BY <1>1, <2>2, <2>3, <2>8, LabelledHas
  <2>10. Disk!ByteOf(Disk!Chain[m], o) # Disk!Absent
    BY <1>1, <2>1, <2>2, <2>3, <2>8, <2>9, ExtentHasSector
  <2>11. m \in 1 .. (n + 1) - 1
    BY MaxDepthAssumption
  <2> QED
    BY <2>10, <2>11
<1>9. \A m \in 1 .. MaxDepth : n < m => ~Disk!Needed[m]
  BY <1>8, NoneNeeded
<1>10. \A s \in Nat : s < Sec =>
         /\ Owned(s)'
         /\ \A v \in P!OwnersIn(spans', s) : v < n /\ ~Has(v, s)
  <2> TAKE s \in Nat
  <2> HAVE s < Sec
  <2>1. \A v \in P!OwnersIn(spans', s) : v < n
    BY <1>7, MaxDepthAssumption
  <2>2. \A v \in P!OwnersIn(spans', s) : ~Has(v, s)
    BY <1>3, <1>5 DEF Searched
  <2>3. Owned(s)'
    BY <1>1, <1>6 DEF Owned
  <2> QED
    BY <2>1, <2>2, <2>3
<1>11. \A m \in DOMAIN extents' : m <= n /\ IsExtent(extents[m], m)'
  BY <1>3, MaxDepthAssumption DEF Searched
<1>12. FoundTo(n)'
  <2>1. n \in DOMAIN extents'
    BY <1>3, MaxDepthAssumption
  <2>2. Disk!Needed'[n] /\ \A m \in 1 .. MaxDepth : n < m => ~Disk!Needed'[m]
    BY <1>4, <1>5, <1>9
  <2>3. \A s \in Nat : s < Sec' => 
          /\ Owned(s)'
          /\ \A v \in P!OwnersIn(spans, s)' : v < n /\ ~Has(v, s)'
    BY <1>5, <1>10 DEF P!OwnersIn
  <2> QED
    BY <1>11, <2>1, <2>2, <2>3 DEF FoundTo
<1> QED
  BY <1>1, <1>4, <1>5, <1>12 DEF FoundInv

\* With no parent left, no image has what is not taken.
LEMMA NoneLeft ==
  ASSUME SearchInv, [ReaderNext]_vars, WholeDisk, SearchedInv, NextImage, pc' = "fill"
  PROVE  FoundInv'
<1>1. /\ pc = "extents" /\ queue = <<>> /\ UNCHANGED <<disk, imageSize, extents, spans>>
      /\ disk \in Disks /\ SoundDisk /\ LabelsInv /\ NeededInv /\ Counted
      /\ parent = NoParent
  BY DEF NextImage, mapVars, SearchInv, ReaderInv, Counted
<1>2. Pos \in 1 .. MaxDepth /\ Disk!Chain[Pos] = current /\ Searched
  BY <1>1 DEF SearchedInv, Searching
<1>3. PICK n \in 1 .. MaxDepth : n = Pos
  BY <1>2
<1>4. Len(extents) = n /\ DOMAIN extents = 1 .. n
  BY <1>1, <1>3 DEF Pos, LabelsInv, ExtentsOK
<1>5. PICK k \in 1 .. MaxDepth : AtImage(k)
  BY <1>1 DEF NeededInv, Searching
<1>6. /\ current \in DOMAIN disk.files /\ parent = disk.files[current].desc.parent
      /\ Sec \in Nat /\ imageSize = <<Sec * SectorSize>>
      /\ Disk!Needed[k] /\ Disk!Chain[k] = current
  BY <1>1, <1>5 DEF AtImage
<1>7. k = n
  BY <1>1, <1>2, <1>3, <1>6, PlaceOfCurrent
<1>8. Oldest(n)
  <2> SUFFICES ASSUME n # MaxDepth
               PROVE  Disk!Chain[n + 1] = NoParent
    BY DEF Oldest
  <2>1. n + 1 \in 1 .. MaxDepth /\ n + 1 # 1 /\ (n + 1) - 1 = n
    BY MaxDepthAssumption
  <2> QED
    BY <1>1, <1>2, <1>3, <1>6, <2>1, ChainIs DEF ParentOf
<1>9. \A m \in 1 .. MaxDepth : n < m => ~Disk!Needed[m]
  <2>1. n # MaxDepth => ~Wanted(n + 1)
    BY <1>8 DEF Oldest, Wanted
  <2> QED
    BY <2>1, NoneNeeded
<1>10. \A s \in Nat : s < Sec =>
         /\ ~Owned(s) => ~Has(n, s)
         /\ \A v \in P!OwnersIn(spans, s) : v < n /\ ~Has(v, s)
  <2> TAKE s \in Nat
  <2> HAVE s < Sec
  <2>1. ASSUME NEW v \in P!OwnersIn(spans, s)
        PROVE  v < n
    <3>1. PICK b \in DOMAIN spans : spans[b].val = v
      BY OwnersAreVals
    <3>2. v \in 0 .. n /\ v # n
      BY <1>1, <1>4, <3>1 DEF LabelsInv
    <3> QED
      BY <3>2, MaxDepthAssumption
  <2> QED
    BY <1>2, <1>4, <2>1 DEF Searched
<1>11. /\ Disk!Chain' = Disk!Chain /\ Disk!Needed' = Disk!Needed /\ Sec' = Sec
       /\ \A j, s : Has(j, s)' = Has(j, s)
  BY <1>1, DiskKept
<1>12. Searched'
  BY <1>1, <1>2, ExtentKept, SearchedKept
<1>13. FoundTo(n)'
  <2>1. \A m \in DOMAIN extents' : m <= n /\ IsExtent(extents[m], m)'
    BY <1>1, <1>4, <1>12, MaxDepthAssumption DEF Searched
  <2>2. n \in DOMAIN extents'
    BY <1>1, <1>4, MaxDepthAssumption
  <2>3. Oldest(n)'
    BY <1>8, <1>11 DEF Oldest
  <2>4. \A s \in Nat : s < Sec' =>
          /\ ~Owned(s)' => Nowhere(n, s)'
          /\ \A v \in P!OwnersIn(spans, s)' : v < n /\ ~Has(v, s)'
    BY <1>1, <1>10, <1>11, <2>3 DEF P!OwnersIn, Nowhere, Owned
  <2>5. Disk!Needed'[n] /\ \A m \in 1 .. MaxDepth : n < m => ~Disk!Needed'[m]
    BY <1>6, <1>7, <1>9, <1>11
  <2> QED
    BY <2>1, <2>2, <2>4, <2>5 DEF FoundTo
<1> QED
  BY <1>1, <1>6, <1>11, <1>13 DEF FoundInv

-----------------------------------------------------------------------------
\* what is filled with zeros, and where nothing changes
LEMMA FoundKept ==
  ASSUME disk' = disk, \A ex, k : IsExtent(ex, k) => IsExtent(ex, k)',
         NEW n \in 1 .. MaxDepth, FoundTo(n),
         DOMAIN extents \subseteq DOMAIN extents',
         \A m \in DOMAIN extents : extents'[m] = extents[m],
         \A m \in DOMAIN extents' : m \in DOMAIN extents
                                      \/ (~(m <= n) /\ extents'[m].storage.kind = "zero"),
         \A s \in Nat : Owned(s) => P!OwnersIn(spans', s) # {},
         \A s \in Nat : \A v \in P!OwnersIn(spans', s) :
           v \in P!OwnersIn(spans, s) \/ (~(v < n) /\ ~Owned(s))
  PROVE  FoundTo(n)'
<1>1. /\ Disk!Chain' = Disk!Chain /\ Disk!Needed' = Disk!Needed /\ Sec' = Sec
      /\ \A j, s : Has(j, s)' = Has(j, s)
  BY DiskKept
<1>2. \A s : Nowhere(n, s)' = Nowhere(n, s)
  BY <1>1 DEF Nowhere, Oldest
<1>3. ASSUME NEW m \in DOMAIN extents'
      PROVE  IF m <= n THEN IsExtent(extents[m], m)'
                       ELSE extents'[m].storage.kind = "zero"
  <2>1. PICK ex : ex = extents'[m]
    OBVIOUS
  <2>2. CASE m \in DOMAIN extents
    <3>1. IF m <= n THEN IsExtent(extents[m], m) ELSE extents[m].storage.kind = "zero"
      BY <2>2 DEF FoundTo
    <3>2. m <= n => IsExtent(ex, m)'
      BY <2>1, <2>2, <3>1
    <3>3. m <= n => IsExtent(extents[m], m)'
      BY <2>1, <3>2 DEF IsExtent, IsFrom
    <3> QED
      BY <2>2, <3>1, <3>3
  <2>3. CASE m \notin DOMAIN extents
    BY <2>3
  <2> QED
    BY <2>2, <2>3
<1>4. ASSUME NEW s \in Nat, s < Sec
      PROVE  /\ P!OwnersIn(spans', s) = {} => Nowhere(n, s)
             /\ \A v \in P!OwnersIn(spans', s) : IF v < n THEN ~Has(v, s) ELSE Nowhere(n, s)
  BY <1>4 DEF FoundTo, Owned
<1>5. /\ Disk!Needed'[n] /\ \A m \in 1 .. MaxDepth : n < m => ~Disk!Needed'[m]
      /\ n \in DOMAIN extents'
  BY <1>1 DEF FoundTo
<1>6. \A s \in Nat : s < Sec' =>
        /\ ~Owned(s)' => Nowhere(n, s)'
        /\ \A v \in P!OwnersIn(spans, s)' : IF v < n THEN ~Has(v, s)' ELSE Nowhere(n, s)'
  BY <1>1, <1>2, <1>4 DEF P!OwnersIn, Owned
<1> QED
  BY <1>3, <1>5, <1>6 DEF FoundTo

\* the rest is filled with zeros
LEMMA FillFound ==
  ASSUME SearchInv, [ReaderNext]_vars, FoundInv, FillZeros \/ RunFill \/ EndFill
  PROVE  FoundInv'
<1>1. /\ pc \in {"fill", "zero"} /\ pc' \in {"fill", "zero"}
      /\ UNCHANGED <<disk, imageSize>>
      /\ MapsOK /\ Swept /\ LabelsInv
  BY DEF FillZeros, RunFill, EndFill, openVars, SearchInv, ReaderInv, OpenInv
<1>2. PICK n \in 1 .. MaxDepth : FoundTo(n)
  BY <1>1 DEF FoundInv, Found
<1>3. Sec \in Nat /\ imageSize = <<Sec * SectorSize>> /\ Sec' = Sec
  BY <1>1, DiskKept DEF FoundInv, Found
<1>4. \A ex, k : IsExtent(ex, k) => IsExtent(ex, k)'
  BY <1>1, ExtentKept DEF SearchInv, ReaderInv
<1>5. /\ Len(extents) \in Nat /\ DOMAIN extents = 1 .. Len(extents)
      /\ \E S : extents \in Seq(S)
  BY <1>1 DEF LabelsInv, ExtentsOK
<1>6. n \in Nat /\ n <= Len(extents)
  BY <1>2, <1>5 DEF FoundTo
<1>7. FoundTo(n)'
  <2>1. CASE FillZeros
    <3>1. UNCHANGED <<extents, spans>>
      BY <2>1 DEF FillZeros, Maps!Claim, openVars
    <3> QED
      BY <1>1, <1>2, <1>4, <3>1, FoundKept DEF Owned
  <2>2. CASE RunFill
    <3>1. Maps!InsertSpan("none") /\ extents' = extents
      BY <2>2 DEF RunFill, openVars
    <3>2. NothingLost /\ loop = "insert"
      BY <1>1, <3>1, InsertKeeps
    <3>3. call.val = Len(extents)
      BY <1>1, <3>2 DEF LabelsInv
    <3>4. \A s \in Nat : \A v \in P!OwnersIn(spans', s) :
            v \in P!OwnersIn(spans, s) \/ (v = call.val /\ ~Owned(s))
      BY <1>1, <3>1, NewLabels
    <3>5. ~(Len(extents) < n)
      BY <1>5, <1>6
    <3>6. \A s \in Nat : \A v \in P!OwnersIn(spans', s) :
            v \in P!OwnersIn(spans, s) \/ (~(v < n) /\ ~Owned(s))
      BY <3>3, <3>4, <3>5
    <3>7. \A s \in Nat : Owned(s) => P!OwnersIn(spans', s) # {}
      BY <3>2 DEF NothingLost
    <3> QED
      BY <1>1, <1>2, <1>4, <3>1, <3>6, <3>7, FoundKept
  <2>3. CASE EndFill
    <3>1. PICK lb \in DOMAIN uncovered :
            extents' = Append(extents, [start_sector |-> lb,
                                        sectors |-> uncovered[lb] - lb,
                                        storage |-> [kind |-> "zero"]])
      BY <2>3 DEF EndFill
    <3>2. PICK ex : ex = [start_sector |-> lb, sectors |-> uncovered[lb] - lb,
                          storage |-> [kind |-> "zero"]]
      OBVIOUS
    <3>3. ex.storage.kind = "zero" /\ spans' = spans
      BY <2>3, <3>2 DEF EndFill
    <3>4. PICK len \in Nat : len = Len(extents)
      BY Zenon, <1>5
    <3>5. /\ DOMAIN extents' = 1 .. len + 1
          /\ \A m \in 1 .. len : extents'[m] = extents[m]
          /\ extents'[len + 1] = ex
      BY <1>5, <3>1, <3>2, <3>4
    <3>6. \A m \in DOMAIN extents' :
            m \in DOMAIN extents \/ (~(m <= n) /\ extents'[m].storage.kind = "zero")
      <4> TAKE m \in DOMAIN extents'
      <4>1. m \in 1 .. len \/ m = len + 1
        BY <3>5
      <4>2. ~(len + 1 <= n)
        BY <1>6, <3>4
      <4> QED
        BY <1>5, <3>3, <3>4, <3>5, <4>1, <4>2
    <3>7. DOMAIN extents \subseteq DOMAIN extents'
          /\ \A m \in DOMAIN extents : extents'[m] = extents[m]
      BY <1>5, <3>4, <3>5
    <3>8. /\ \A s \in Nat : Owned(s) => P!OwnersIn(spans', s) # {}
          /\ \A s \in Nat : \A v \in P!OwnersIn(spans', s) :
               v \in P!OwnersIn(spans, s) \/ (~(v < n) /\ ~Owned(s))
      BY <3>3 DEF Owned
    <3> QED
      BY <1>1, <1>2, <1>4, <3>6, <3>7, <3>8, FoundKept
  <2> QED
    BY <2>1, <2>2, <2>3
<1> QED
  BY <1>1, <1>3, <1>7 DEF FoundInv

\* the spans in bytes are labelled like those in sectors
LEMMA OpensSameOwners ==
  ASSUME SearchInv, Opened
  PROVE  SameOwners'
<1> DEFINE key == Keys(spans)
           N == Cardinality(DOMAIN spans)
<1> HIDE DEF N, key
<1>1. /\ vec' = [k \in DOMAIN key |-> [beg |-> key[k] * SectorSize,
                                      end |-> spans[key[k]].end * SectorSize,
                                      ex  |-> spans[key[k]].val]]
      /\ spans' = spans
  BY DEF Opened, key, mapVars
<1>2. MapsOK /\ IsFiniteSet(DOMAIN spans) /\ DOMAIN spans \subseteq Nat
  <2>1. MapsOK
    BY DEF SearchInv, ReaderInv, OpenInv
  <2> QED
    BY <2>1, MapTypes DEF MapsOK
<1>3. DOMAIN key = 1 .. N /\ \A k \in 1 .. N : key[k] \in DOMAIN spans
  BY <1>2, KeysInOrder DEF key, N
<1>4. SectorSize \in Nat /\ SectorSize > 0
  BY StorageAssumption
<1>5. ASSUME NEW k \in DOMAIN vec', NEW o \in Nat, At(k, o)'
      PROVE  vec'[k].ex \in P!OwnersIn(spans, o \div SectorSize)
  <2>1. PICK c \in DOMAIN spans : c = key[k]
    BY <1>1, <1>3
  <2>2. PICK a \in Nat, b \in Nat : a = c /\ b = spans[c].end
    BY <1>2, MapTypes
  <2>3. /\ vec'[k].beg = a * SectorSize /\ vec'[k].end = b * SectorSize
        /\ vec'[k].ex = spans[c].val
    <3>1. vec'[k] = [beg |-> key[k] * SectorSize, end |-> spans[key[k]].end * SectorSize,
                     ex |-> spans[key[k]].val]
      BY <1>1
    <3>2. PICK x, y : x = a * SectorSize /\ y = b * SectorSize
      OBVIOUS
    <3>3. vec'[k] = [beg |-> x, end |-> y, ex |-> spans[c].val]
      BY <2>1, <2>2, <3>1, <3>2
    <3> QED
      BY <3>2, <3>3
  <2>4. a * SectorSize <= o /\ o < b * SectorSize
    BY <1>5, <2>3 DEF At
  <2>5. /\ o \div SectorSize \in Nat
        /\ a <= o \div SectorSize <=> a * SectorSize <= o
        /\ b <= o \div SectorSize <=> b * SectorSize <= o
    BY <1>4, QuotientBounds
  <2>6. b * SectorSize \in Nat
    BY <1>4
  <2>7. a <= o \div SectorSize /\ o \div SectorSize < b
    BY <2>4, <2>5, <2>6
  <2> QED
    BY <2>2, <2>3, <2>7 DEF P!OwnersIn
<1> QED
  BY <1>1, <1>5 DEF SameOwners, P!OwnersIn

\* where nothing is opened
LEMMA OpenFound ==
  ASSUME SearchInv, [ReaderNext]_vars, FoundInv, pc \in Found, pc' \in Found,
         UNCHANGED <<disk, imageSize, extents, spans>>,
         (vec' = vec /\ pc \in {"ready", "read", "answered"}) \/ Opened
  PROVE  FoundInv'
<1>1. PICK n \in 1 .. MaxDepth : FoundTo(n)
  BY DEF FoundInv
<1>2. Sec \in Nat /\ imageSize = <<Sec * SectorSize>> /\ Sec' = Sec
  BY DiskKept DEF FoundInv
<1>3. \A ex, k : IsExtent(ex, k) => IsExtent(ex, k)'
  BY ExtentKept DEF SearchInv, ReaderInv
<1>4. FoundTo(n)'
  BY <1>1, <1>3, FoundKept DEF Owned
<1>5. SameOwners'
  <2>1. CASE Opened
    BY <2>1, OpensSameOwners
  <2>2. CASE vec' = vec /\ pc \in {"ready", "read", "answered"}
    BY <2>2 DEF FoundInv, SameOwners, At
  <2> QED
    BY <2>1, <2>2
<1> QED
  BY <1>2, <1>4, <1>5 DEF FoundInv

\* the extents of the images that are needed
LEMMA ImageExtents ==
  ASSUME ExtentsOK, NEW n \in 1 .. MaxDepth, FoundTo(n), NEW m \in 1 .. n
  PROVE  m \in DOMAIN extents /\ IsExtent(extents[m], m)
<1>1. PICK len \in Nat : len = Len(extents) /\ DOMAIN extents = 1 .. len
  BY Zenon DEF ExtentsOK
<1>2. n \in 1 .. len /\ n \in Nat /\ m \in Nat /\ m <= n
  BY <1>1, MaxDepthAssumption DEF FoundTo
<1>3. m \in DOMAIN extents
  BY <1>1, <1>2
<1> QED
  BY <1>2, <1>3 DEF FoundTo

\* a sector that the first images have not: none of its bytes
LEMMA NoneBefore ==
  ASSUME disk \in Disks, SoundDisk, WholeDisk, ExtentsOK,
         NEW n \in 1 .. MaxDepth, FoundTo(n), NEW v \in 0 .. n,
         NEW o \in Nat, o \div SectorSize < Sec, ~Has(v, o \div SectorSize)
  PROVE  \A m \in 1 .. v : Disk!ByteOf(Disk!Chain[m], o) = Disk!Absent
<1>1. ASSUME NEW m \in 1 .. v
      PROVE  \E ex : IsExtent(ex, m)
  <2>1. m \in 1 .. n
    BY MaxDepthAssumption
  <2> QED
    BY <2>1, ImageExtents
<1> QED
  BY Zenon, <1>1, NoneHas

\* a byte whose sector is labelled with the extent of an image is that image's
LEMMA ByteOfImage ==
  ASSUME disk \in Disks, SoundDisk, WholeDisk, ExtentsOK,
         NEW n \in 1 .. MaxDepth, FoundTo(n), NEW m \in 1 .. n,
         NEW o \in Nat, o \div SectorSize < Sec, ~Has(m - 1, o \div SectorSize),
         HasSector(extents[m], o \div SectorSize)
  PROVE  /\ InSpans(extents[m], o \div SectorSize)
         /\ Disk!Content(o) = Disk!ByteOf(Disk!Chain[m], o)
<1>1. n \in Nat /\ m \in 1 .. MaxDepth /\ m - 1 \in 0 .. n
  BY MaxDepthAssumption
<1>2. IsExtent(extents[m], m)
  BY ImageExtents
<1>3. InSpans(extents[m], o \div SectorSize)
  BY <1>2, LabelledHas, SectorIsNat
<1>4. Disk!ByteOf(Disk!Chain[m], o) # Disk!Absent
  BY <1>2, <1>3, ExtentHasSector
<1>5. \A k \in 1 .. m - 1 : Disk!ByteOf(Disk!Chain[k], o) = Disk!Absent
  BY <1>1, NoneBefore
<1>6. ASSUME NEW k \in 1 .. m
      PROVE  Disk!Chain[k] # NoParent
  <2>1. k \in 1 .. n
    BY <1>1
  <2>2. IsExtent(extents[k], k)
    BY <2>1, ImageExtents
  <2> QED
    BY <2>2, FitIsImage DEF IsExtent
<1>7. Disk!Content(o) = Disk!ByteOf(Disk!Chain[m], o)
  BY <1>1, <1>4, <1>5, <1>6, ContentIs
<1> QED
  BY <1>3, <1>7

\* a byte of a sector that no image has is zero
LEMMA ByteOfNone ==
  ASSUME disk \in Disks, SoundDisk, WholeDisk, ExtentsOK,
         NEW n \in 1 .. MaxDepth, FoundTo(n),
         NEW o \in Nat, o \div SectorSize < Sec, Nowhere(n, o \div SectorSize)
  PROVE  Disk!Content(o) = ZeroByte
<1>1. n \in Nat /\ n \in 0 .. n /\ n \in 1 .. n /\ n - 1 \in Nat
  BY MaxDepthAssumption
<1>2. \A m \in 1 .. n : Disk!ByteOf(Disk!Chain[m], o) = Disk!Absent
  BY <1>1, NoneBefore DEF Nowhere
<1>3. \A m \in 1 .. n - 1 : Disk!ByteOf(Disk!Chain[m], o) = Disk!Absent
  BY <1>1, <1>2
<1>4. ASSUME NEW k \in 1 .. n
      PROVE  Disk!Chain[k] # NoParent
  <2>1. IsExtent(extents[k], k)
    BY ImageExtents
  <2> QED
    BY <2>1, FitIsImage DEF IsExtent
<1> QED
  BY <1>1, <1>2, <1>3, <1>4, ContentIs DEF Nowhere

-----------------------------------------------------------------------------
\* the bytes of the disk from o on
ContentFrom(o, n) == [k \in 1 .. n |-> Disk!Content(o + k - 1)]

\* what the storage of a span gives for the part of the request in it
LEMMA PieceGives ==
  ASSUME SearchInv, WholeDisk, FoundInv, pc = "read", offset < end,
         NEW n, n = Min({vec[i].end - offset, end - offset})
  PROVE  \E r \in 1 .. n : Gives(Piece, ContentFrom(offset, r))
<1>1. /\ disk \in Disks /\ SoundDisk /\ ExtentsOK /\ Tiles /\ ReadInv /\ SameOwners
      /\ SourcesOK
  BY DEF SearchInv, ReaderInv, Counted, LabelsInv, VecInv, FoundInv
<1>2. PICK to \in 1 .. MaxDepth : FoundTo(to)
  BY DEF FoundInv, Found
<1>3. /\ i \in DOMAIN vec /\ At(i, offset) /\ SpanOK(i)
      /\ offset \in Nat /\ end \in Nat /\ end <= Size /\ Size \in Nat
  BY <1>1 DEF ReadInv, Tiles
<1>4. PICK b \in Nat, e \in Nat : b = vec[i].beg /\ e = vec[i].end
  BY <1>3 DEF SpanOK
<1>5. /\ b <= offset /\ offset < e /\ n \in Nat \ {0} /\ offset + n <= e /\ offset + n <= end
  <2>1. b <= offset /\ offset < e
    BY <1>3, <1>4 DEF At
  <2>2. n \in Nat /\ n <= e - offset /\ n <= end - offset /\ n \in {e - offset, end - offset}
    BY <1>3, <1>4, <2>1, MinOfTwo
  <2> QED
    BY <1>3, <2>1, <2>2
<1>6. Sec \in Nat /\ Size = Sec * SectorSize
  BY DEF FoundInv, Found, Size
<1>7. PICK m : m = vec[i].ex + 1
  OBVIOUS
<1>8. vec[i].ex \in Nat /\ m \in Nat /\ m \in DOMAIN extents /\ m - 1 = vec[i].ex
  <2>1. vec[i].ex \in 0 .. Len(extents) - 1 /\ Len(extents) \in Nat
    BY <1>1, <1>3 DEF SpanOK, ExtentsOK
  <2>2. \A l \in Nat : \A x \in 0 .. l - 1 : x \in Nat /\ x + 1 \in 1 .. l /\ (x + 1) - 1 = x
    OBVIOUS
  <2> QED
    BY <1>1, <1>7, <2>1, <2>2 DEF ExtentsOK
<1>9. ASSUME NEW o \in Nat, offset <= o, o < offset + n
      PROVE  /\ o \div SectorSize \in Nat /\ o \div SectorSize < Sec
             /\ HasSector(extents[m], o \div SectorSize)
             /\ IF m - 1 < to THEN ~Has(m - 1, o \div SectorSize)
                              ELSE Nowhere(to, o \div SectorSize)
  <2>1. o < Size /\ b <= o /\ o < e
    BY <1>3, <1>5, <1>9
  <2>2. At(i, o)
    BY <1>4, <2>1 DEF At
  <2>3. HasSector(extents[m], o \div SectorSize)
    BY <1>3, <1>7, <2>2 DEF SpanOK
  <2>4. o \div SectorSize \in Nat /\ o \div SectorSize < Sec
    BY <1>6, <2>1, SectorInImage
  <2>5. m - 1 \in P!OwnersIn(spans, o \div SectorSize)
    BY <1>1, <1>3, <1>8, <2>2 DEF SameOwners
  <2> QED
    BY <1>2, <2>3, <2>4, <2>5 DEF FoundTo
<1>10. PICK ex : ex = extents[m]
  OBVIOUS
<1>11. PICK src : src = IF ex.storage.kind = "zero" THEN [file |-> "", len |-> 0, grains |-> <<>>]
                        ELSE sources[ex.storage.source]
  OBVIOUS
<1>12. Piece = StorageRead(ex.storage, src, offset, n)
  <2>1. i \in DOMAIN vec /\ ~(vec[i].end < offset)
    BY <1>3, <1>4, <1>5
  <2> QED
    BY Zenon, <1>7, <1>10, <1>11, <2>1 DEF Piece
<1>13. CASE m - 1 < to
  <2>1. m \in 1 .. to
    BY <1>8, <1>13, MaxDepthAssumption
  <2>2. IsExtent(ex, m)
    BY <1>1, <1>2, <1>10, <2>1, ImageExtents
  <2>3. PICK img : img = Disk!Chain[m]
    OBVIOUS
  <2>4. IsImage(img) /\ Disk!Sectors(img) = Sec
    BY <1>1, <2>2, <2>3, FitIsImage DEF IsExtent
  <2>5. PICK source \in Nat :
          /\ ExtentFrom(ex, img, source)
          /\ sources[source] = SourceOf(Data(img))
          /\ source \in DOMAIN sources
    BY <2>2, <2>3 DEF IsExtent, IsFrom
  <2>6. ex.storage.kind # "zero" /\ ex.storage.source = source
    BY <1>1, <2>4, <2>5, StorageOfImage
  <2>7. src = SourceOf(Data(img))
    BY <1>11, <2>5, <2>6
  <2>8. Data(img) \in DOMAIN disk.files
    BY <1>1, <2>5 DEF SourcesOK, SourceOf
  <2>9. ASSUME NEW k \in 1 .. n
        PROVE  /\ (offset + k - 1) \div SectorSize < Sec
               /\ InSpans(ex, (offset + k - 1) \div SectorSize)
               /\ Disk!Content(offset + k - 1) = Disk!ByteOf(img, offset + k - 1)
    <3>1. PICK o \in Nat : o = offset + k - 1 /\ offset <= o /\ o < offset + n
      BY <1>3, <1>5
    <3>2. /\ o \div SectorSize < Sec /\ HasSector(extents[m], o \div SectorSize)
          /\ ~Has(m - 1, o \div SectorSize)
      BY <1>9, <1>13, <3>1
    <3> QED
      BY <1>1, <1>2, <1>10, <2>1, <2>3, <3>1, <3>2, ByteOfImage
  <2>10. offset \div SectorSize < Sec /\ InSpans(ex, offset \div SectorSize)
    <3>1. 1 \in 1 .. n /\ offset + 1 - 1 = offset
      BY <1>3, <1>5
    <3> QED
      BY <2>9, <3>1
  <2>11. PICK r \in 1 .. n : Gives(Piece, BytesFrom(img, offset, r))
    BY Zenon, <1>1, <1>3, <1>5, <1>12, <2>4, <2>5, <2>7, <2>8, <2>9, <2>10, StorageGives
  <2>12. BytesFrom(img, offset, r) = ContentFrom(offset, r)
    <3>1. \A k \in 1 .. r : k \in 1 .. n
      BY <1>5
    <3> QED
      BY <2>9, <3>1 DEF BytesFrom, ContentFrom
  <2> QED
    BY <2>11, <2>12
<1>14. CASE ~(m - 1 < to)
  <2>1. ~(m <= to) /\ m \in DOMAIN extents
    BY <1>8, <1>14, MaxDepthAssumption
  <2>2. ex.storage.kind = "zero"
    BY <1>2, <1>10, <2>1 DEF FoundTo
  <2>3. Piece = Zeros(n)
    BY <1>12, <2>2 DEF StorageRead
  <2>4. ASSUME NEW k \in 1 .. n
        PROVE  Disk!Content(offset + k - 1) = ZeroByte
    <3>1. PICK o \in Nat : o = offset + k - 1 /\ offset <= o /\ o < offset + n
      BY <1>3, <1>5
    <3> QED
      BY <1>1, <1>2, <1>9, <1>14, <3>1, ByteOfNone
  <2>5. ContentFrom(offset, n) = [k \in 1 .. n |-> ZeroByte]
    BY <2>4 DEF ContentFrom
  <2>6. PICK bytes : bytes = ContentFrom(offset, n)
    OBVIOUS
  <2>7. Gives(Zeros(n), bytes)
    BY Zenon, <2>5, <2>6, ZerosGive
  <2>8. Gives(Piece, ContentFrom(offset, n))
    BY <2>3, <2>6, <2>7
  <2>9. n \in 1 .. n
    BY <1>5
  <2> QED
    BY <2>8, <2>9
<1> QED
  BY <1>13, <1>14

LEMMA LostKept ==
  ASSUME disk' = disk
  PROVE  \A c : Lost(c)' = Lost(c)
BY DEF Lost, Disk!Inflatable

LEMMA NothingReadYet ==
  ASSUME Size \in Nat, NEW off \in Nat, NEW len \in Nat, NEW faulty, Call(off, len, faulty)
  PROVE  ReadSoFar'
<1>1. /\ req' = [off |-> off, len |-> len, faulty |-> faulty] /\ Size' = Size /\ off <= Size
      /\ end' = Min({off + len, Size}) /\ buf' = <<>>
  BY DEF Call, openVars, Size
<1>2. PICK e \in Nat : e = off + len
  OBVIOUS
<1>3. Min({e, Size}) = IF e <= Size THEN e ELSE Size
  BY MinOfTwo
<1>4. end' = IF e > Size THEN Size ELSE e
  BY <1>1, <1>2, <1>3
<1>5. req'.off = off /\ req'.len = len
  BY <1>1
<1> QED
  BY <1>1, <1>2, <1>4, <1>5 DEF ReadSoFar

LEMMA PieceSoFar ==
  ASSUME SearchInv, WholeDisk, FoundInv, ReadSoFar, ReadPiece
  PROVE  ReadSoFar'
<1>1. /\ pc = "read" /\ offset < end /\ disk' = disk /\ Size' = Size /\ req' = req
      /\ end' = end /\ ReadInv /\ Tiles /\ ExtentsOK
  BY DEF ReadPiece, openVars, Size, SearchInv, ReaderInv, VecInv, LabelsInv
<1>2. CASE Piece.outcome # "bytes"
  <2>1. pc' # "read"
    BY <1>2 DEF ReadPiece, Answer
  <2> QED
    BY <2>1 DEF ReadSoFar
<1>3. CASE Piece.outcome = "bytes"
  <2>1. PICK n : n = Min({vec[i].end - offset, end - offset})
    OBVIOUS
  <2>2. PICK r \in 1 .. n : Gives(Piece, ContentFrom(offset, r))
    BY <1>1, <2>1, PieceGives
  <2>3. PICK bytes : bytes = ContentFrom(offset, r)
    OBVIOUS
  <2>4. Piece # IoError
    BY <1>3 DEF IoError
  <2>5. Piece.bytes = bytes /\ \A k \in DOMAIN bytes : ~Lost(bytes[k])
    BY <2>2, <2>3, <2>4 DEF Gives, Got
  <2>6. PICK S : bytes \in Seq(S)
    BY <1>1, <1>3, <2>5, PieceIsPart
  <2>7. PICK T : buf \in Seq(T)
    BY <1>1 DEF ReadInv
  <2>8. PICK l \in Nat : l = Len(buf)
    BY <2>7
  <2>9. offset = req.off + l /\ req.off \in Nat /\ offset \in Nat
    BY <1>1, <2>8 DEF ReadInv
  <2>10. \A k \in DOMAIN bytes : k \in Int /\ bytes[k] = Disk!Content(offset + k - 1)
    BY <2>3 DEF ContentFrom
  <2>11. buf' = buf \o bytes
    BY <1>3, <2>5 DEF ReadPiece
  <2>12. ASSUME NEW k \in DOMAIN buf'
         PROVE  buf'[k] = Disk!Content(req.off + k - 1) /\ ~Lost(buf'[k])
    <3>1. DOMAIN buf' = 1 .. l + Len(bytes) /\ Len(bytes) \in Nat
      BY <2>6, <2>7, <2>8, <2>11
    <3>2. k \in 1 .. l \/ (k \in Nat /\ k > l /\ k - l \in 1 .. Len(bytes))
      BY <3>1
    <3>3. CASE k \in 1 .. l
      <4>1. buf'[k] = buf[k] /\ k \in DOMAIN buf
        BY <2>6, <2>7, <2>8, <2>11, <3>3
      <4> QED
        BY <1>1, <4>1 DEF ReadSoFar
    <3>4. CASE k \in Nat /\ k > l /\ k - l \in 1 .. Len(bytes)
      <4>1. buf'[k] = bytes[k - l] /\ k - l \in DOMAIN bytes
        BY <2>6, <2>7, <2>8, <2>11, <3>1, <3>4
      <4>2. PICK j : j = k - l
        OBVIOUS
      <4>3. bytes[j] = Disk!Content(offset + j - 1) /\ ~Lost(bytes[j])
        BY <2>5, <2>10, <4>1, <4>2
      <4>4. offset + j - 1 = req.off + k - 1
        <5>1. \A x, y, z \in Nat : (x + y) + (z - y) - 1 = x + z - 1
          OBVIOUS
        <5>2. k \in Nat
          BY <3>4
        <5> QED
          BY <2>9, <4>2, <5>1, <5>2
      <4>5. PICK o : o = req.off + k - 1
        OBVIOUS
      <4>6. buf'[k] = Disk!Content(o) /\ ~Lost(buf'[k])
        <5>1. bytes[j] = Disk!Content(o) /\ ~Lost(bytes[j])
          BY <4>3, <4>4, <4>5
        <5>2. buf'[k] = bytes[j]
          BY <4>1, <4>2
        <5> QED
          BY <5>1, <5>2
      <4> QED
        BY <4>5, <4>6
    <3> QED
      BY <3>2, <3>3, <3>4
  <2>13. ASSUME NEW k \in DOMAIN buf'
         PROVE  buf'[k] = Disk!Content(req.off + k - 1)' /\ ~Lost(buf[k])'
    <3>1. PICK c : c = buf'[k]
      OBVIOUS
    <3>2. Lost(c)' = Lost(c)
      BY <1>1, LostKept
    <3>3. ~Lost(buf[k])'
      BY <2>12, <3>1, <3>2 DEF Lost
    <3>4. PICK o : o = req.off + k - 1
      OBVIOUS
    <3>5. Disk!Content(o)' = Disk!Content(o)
      BY <1>1, ContentKept
    <3>6. Disk!Content(req.off + k - 1)' = Disk!Content(o)'
      BY <1>1, <3>4
    <3> QED
      BY <2>12, <3>3, <3>4, <3>5, <3>6
  <2> QED
    BY <1>1, <2>13 DEF ReadSoFar
<1> QED
  BY <1>2, <1>3

LEMMA SameRead ==
  ASSUME ReadSoFar, UNCHANGED <<disk, pc, imageSize, req, end, buf>>
  PROVE  ReadSoFar'
<1>1. \A o : Disk!Content(o)' = Disk!Content(o)
  BY ContentKept
<1>2. \A c : Lost(c)' = Lost(c)
  BY LostKept
<1>3. ASSUME pc = "read", NEW k \in DOMAIN buf
      PROVE  buf'[k] = Disk!Content(req.off + k - 1)' /\ ~Lost(buf[k])'
  <2>1. PICK o : o = req.off + k - 1
    OBVIOUS
  <2>2. PICK c : c = buf[k]
    OBVIOUS
  <2>3. c = Disk!Content(o) /\ ~Lost(c)
    BY <1>3, <2>1, <2>2 DEF ReadSoFar
  <2>4. Disk!Content(req.off + k - 1)' = Disk!Content(o)'
    BY <2>1
  <2>5. ~Lost(buf[k])'
    BY <1>2, <2>2, <2>3 DEF Lost
  <2> QED
    BY <1>1, <2>2, <2>3, <2>4, <2>5
<1>4. Size' = Size
  BY DEF Size
<1> QED
  BY <1>3, <1>4 DEF ReadSoFar

-----------------------------------------------------------------------------
(***************************************************************************)
(* The invariant of a reader that reads the disk.                          *)
(***************************************************************************)
FullInv == SearchInv /\ WholeDisk /\ SearchedInv /\ FoundInv /\ ReadSoFar

LEMMA InitFullInv ==
  ASSUME ReaderInit, SoundDisk, WholeDisk
  PROVE  FullInv
<1>1. SearchInv
  BY InitReaderInv, FirstOfChain DEF SearchInv
<1>2. /\ disk \in Disks /\ pc = "image" /\ current = disk.top /\ queue = <<>>
      /\ extents = <<>> /\ spans = [b \in {} |-> 0]
  BY DEF ReaderInit
<1>3. Len(extents) = 0 /\ DOMAIN extents = {} /\ Pos = 1
  BY <1>2 DEF Pos
<1>4. 1 \in 1 .. MaxDepth /\ Disk!Chain[1] = disk.top
  BY MaxDepthAssumption, ChainIs
<1>5. \A s : ~Has(0, s) /\ P!OwnersIn(spans, s) = {}
  BY <1>2 DEF Has, P!OwnersIn
<1>6. SearchedInv
  BY <1>2, <1>3, <1>4, <1>5 DEF SearchedInv, Searched
<1>7. FoundInv /\ ReadSoFar
  BY <1>2 DEF FoundInv, Found, ReadSoFar
<1> QED
  BY <1>1, <1>6, <1>7 DEF FullInv

\* each step of open() or of a read
LEMMA NextSearched ==
  ASSUME FullInv, [ReaderNext]_vars
  PROVE  SearchedInv'
<1>1. SearchInv /\ SearchInv' /\ WholeDisk /\ SearchedInv
  BY NextSearchInv DEF FullInv
<1>2. CASE HandleImage
  BY <1>1, <1>2, ImageSearched
<1>3. CASE BeginExtent \/ InsertOne
  BY <1>1, <1>3, ExtentSearched
<1>4. CASE RunMaps
  BY <1>1, <1>4, RunSearched
<1>5. CASE EndExtent
  BY <1>1, <1>5, EndSearched
<1>6. CASE NextImage
  BY <1>1, <1>6, ParentSearched
<1>7. CASE UNCHANGED vars
  <2>1. UNCHANGED <<disk, pc, current, queue, extents, spans>>
    BY <1>7 DEF vars, openVars, mapVars
  <2>2. \A ex, n : IsExtent(ex, n) => IsExtent(ex, n)'
    BY <1>1, <2>1, ExtentKept DEF SearchInv, ReaderInv
  <2>3. pc \in Searching => Searched'
    BY <1>1, <2>1, <2>2, SearchedKept DEF SearchedInv
  <2>4. CASE pc = "image"
    <3>1. /\ Pos \in 1 .. MaxDepth /\ Disk!Chain[Pos] = current /\ queue = <<>>
      BY <1>1, <2>4 DEF SearchedInv, Searching, SearchInv, ReaderInv, Counted
    <3>2. Disk!Chain' = Disk!Chain /\ Pos' = Pos
      BY <2>1, DiskKept DEF Pos
    <3> QED
      BY <2>1, <2>3, <2>4, <3>1, <3>2 DEF SearchedInv, Searching
  <2>5. CASE pc \in {"extents", "spans"}
    BY <1>1, <2>1, <2>2, <2>3, <2>5, StillSearched DEF Searching
  <2>6. CASE pc \notin Searching
    BY <2>1, <2>6 DEF SearchedInv
  <2> QED
    BY <2>4, <2>5, <2>6 DEF Searching
<1>8. CASE \/ ImageFault \/ FillZeros \/ RunFill \/ EndFill \/ Opened
           \/ ReadStep \/ Forget
           \/ \E off, len, faulty : Refuse(off, len) \/ Call(off, len, faulty)
  <2>1. pc' \notin Searching
    BY Zenon, <1>8
    DEF Searching, ImageFault, FillZeros, RunFill, EndFill, Opened, ReadStep, ReadPiece,
        ReadFault, Return, Forget, Refuse, Call, Answer
  <2> QED
    BY <2>1 DEF SearchedInv
<1> QED
  BY <1>2, <1>3, <1>4, <1>5, <1>6, <1>7, <1>8 DEF ReaderNext, OpenStep

LEMMA NextFound ==
  ASSUME FullInv, [ReaderNext]_vars
  PROVE  FoundInv'
<1>1. SearchInv /\ SearchInv' /\ WholeDisk /\ SearchedInv /\ FoundInv
  BY NextSearchInv DEF FullInv
<1>2. CASE pc' \notin Found
  BY <1>2 DEF FoundInv, Found
<1>3. CASE HandleImage \/ ImageFault \/ BeginExtent \/ InsertOne \/ RunMaps
  BY <1>2, <1>3 DEF HandleImage, ImageFault, BeginExtent, InsertOne, RunMaps, Found
<1>4. CASE EndExtent
  <2>1. pc' # "fill" => pc' \notin Found
    BY <1>4 DEF EndExtent, Found
  <2> QED
    BY <1>1, <1>2, <1>4, <2>1, AllThere
<1>5. CASE NextImage
  <2>1. pc' # "fill" => pc' \notin Found
    BY <1>5 DEF NextImage, Found
  <2> QED
    BY <1>1, <1>2, <1>5, <2>1, NoneLeft
<1>6. CASE FillZeros \/ RunFill \/ EndFill
  BY <1>1, <1>6, FillFound
<1>7. CASE Opened
  <2>1. pc \in Found /\ pc' \in Found /\ UNCHANGED <<disk, imageSize, extents, spans>>
    BY <1>7 DEF Opened, Found, openVars, mapVars
  <2> QED
    BY <1>1, <1>7, <2>1, OpenFound
<1>8. ASSUME UNCHANGED <<disk, openVars, mapVars, vec>>, pc \in {"ready", "read", "answered"}
      PROVE  FoundInv'
  <2>1. UNCHANGED <<disk, imageSize, extents, spans, vec>> /\ pc \in Found
    BY <1>8 DEF openVars, mapVars, Found
  <2> QED
    BY <1>1, <1>2, <1>8, <2>1, OpenFound
<1>9. CASE ReadStep \/ Forget \/ \E off, len, faulty : Refuse(off, len) \/ Call(off, len, faulty)
  BY Zenon, <1>8, <1>9 DEF ReadStep, ReadPiece, ReadFault, Return, Forget, Refuse, Call
<1>10. CASE UNCHANGED vars
  <2>1. UNCHANGED <<disk, pc, openVars, mapVars, vec>>
    BY <1>10 DEF vars, readVars
  <2>2. UNCHANGED <<disk, imageSize, extents, spans>>
    BY <2>1 DEF openVars, mapVars
  <2>3. CASE pc \in {"fill", "zero"}
    <3>1. PICK n \in 1 .. MaxDepth : FoundTo(n)
      BY <1>1, <2>3 DEF FoundInv, Found
    <3>2. \A ex, k : IsExtent(ex, k) => IsExtent(ex, k)'
      BY <1>1, <2>2, ExtentKept DEF SearchInv, ReaderInv
    <3>3. FoundTo(n)'
      BY <2>2, <3>1, <3>2, FoundKept DEF Owned
    <3>4. Sec' = Sec
      BY <2>2, DiskKept
    <3> QED
      BY <1>1, <2>1, <2>2, <2>3, <3>3, <3>4 DEF FoundInv, Found
  <2> QED
    BY <1>2, <1>8, <2>1, <2>3 DEF Found
<1> QED
  BY <1>3, <1>4, <1>5, <1>6, <1>7, <1>9, <1>10 DEF ReaderNext, OpenStep

LEMMA NextReadSoFar ==
  ASSUME FullInv, [ReaderNext]_vars
  PROVE  ReadSoFar'
<1>1. SearchInv /\ WholeDisk /\ FoundInv /\ ReadSoFar
  BY DEF FullInv
<1>2. CASE pc' # "read"
  BY <1>2 DEF ReadSoFar
<1>3. CASE OpenStep \/ ReadFault \/ Return \/ Forget \/ \E off, len : Refuse(off, len)
  <2>1. pc' # "read"
    BY <1>3 DEF OpenStep, HandleImage, ImageFault, BeginExtent, InsertOne, RunMaps, EndExtent,
       NextImage, FillZeros, RunFill, EndFill, Opened, ReadFault, Return, Forget, Refuse, Answer
  <2> QED
    BY <1>2, <2>1
<1>4. CASE pc = "ready" /\ \E off \in 0 .. Size + 1, len \in 0 .. MaxRead, faulty \in BOOLEAN :
                             Call(off, len, faulty)
  <2>1. PICK off \in 0 .. Size + 1, len \in 0 .. MaxRead, faulty \in BOOLEAN :
               Call(off, len, faulty)
    BY <1>4
  <2>2. Size \in Nat
    BY <1>1, <1>4 DEF SearchInv, ReaderInv, VecInv, Tiles
  <2>3. off \in Nat /\ len \in Nat
    BY <2>2, MaxReadAssumption
  <2> QED
    BY <2>1, <2>2, <2>3, NothingReadYet
<1>5. CASE ReadPiece
  BY <1>1, <1>5, PieceSoFar
<1>6. CASE UNCHANGED vars
  <2>1. UNCHANGED <<disk, pc, imageSize, req, end, buf>>
    BY <1>6 DEF vars, openVars, readVars, callVars
  <2> QED
    BY <1>1, <2>1, SameRead
<1> QED
  BY <1>3, <1>4, <1>5, <1>6 DEF ReaderNext, ReadStep

LEMMA NextFullInv == FullInv /\ [ReaderNext]_vars => FullInv'
<1> SUFFICES ASSUME FullInv, [ReaderNext]_vars
             PROVE  FullInv'
  OBVIOUS
<1>1. disk' = disk
  BY Zenon DEF ReaderNext, OpenStep, HandleImage, ImageFault, BeginExtent, InsertOne, RunMaps,
     EndExtent, NextImage, FillZeros, RunFill, EndFill, Opened, Refuse, Call, ReadStep,
     ReadPiece, ReadFault, Return, Forget, vars
<1>2. SearchInv' /\ WholeDisk'
  BY <1>1, NextSearchInv, WholeDiskKept DEF FullInv
<1> QED
  BY <1>2, NextSearched, NextFound, NextReadSoFar DEF FullInv

-----------------------------------------------------------------------------
(***************************************************************************)
(* Each step of the reader is one of DeltaDisk, or changes nothing of it.  *)
(***************************************************************************)
StepOfDisk == [Disk!Next]_(Disk!vars)

LEMMA Stutters ==
  ASSUME UNCHANGED <<disk, req, ans>>, pc' = pc \/ (pc \in Opening /\ pc' \in Opening)
  PROVE  StepOfDisk
BY DEF StepOfDisk, Disk!vars

\* open() returns
LEMMA OpensDisk ==
  ASSUME UNCHANGED <<disk, req, ans>>, pc \in Opening,
         (pc' = "ready" /\ Disk!Opens) \/ (pc' = "failed" /\ (disk.flaky \/ ~Disk!Opens))
  PROVE  StepOfDisk
<1>1. Disk!Open
  BY DEF Disk!Open, Opening
<1> QED
  BY <1>1 DEF StepOfDisk, Disk!Next

\* handle_image: it fails only for an image that is needed and does not fit
LEMMA ImageStep ==
  ASSUME FullInv, HandleImage
  PROVE  StepOfDisk
<1> DEFINE read == ReadImage
           sectors == SectorsOf(read.extents)
<1> HIDE DEF read
<1>1. /\ disk \in Disks /\ SoundDisk /\ WholeDisk /\ idx + 1 \in Nat
      /\ pc = "image" /\ pc \in Opening /\ UNCHANGED <<disk, req, ans>>
  BY DEF HandleImage, readVars, FullInv, SearchInv, ReaderInv, Counted, Opening
<1>2. CASE pc' = "extents"
  BY <1>1, <1>2, Stutters DEF Opening
<1>3. CASE /\ read.outcome # "extents" \/ imageSize \notin {<<>>, <<sectors * SectorSize>>}
           /\ pc' = IF read.outcome = "panic" THEN "panicked" ELSE "failed"
  <2>1. PICK n \in 1 .. MaxDepth : AtImage(n)
    BY <1>1 DEF FullInv, SearchInv, NeededInv, Searching
  <2>2. Disk!Chain[n] = current /\ Disk!Needed[n]
    BY <2>1 DEF AtImage
  <2>3. /\ read.outcome \in {"extents", "error"}
        /\ read.outcome = "extents" <=> Disk!Usable(current)
    BY <1>1, ReadImageIs DEF read
  <2>4. ASSUME Fits(n)
        PROVE  FALSE
    <3>1. Disk!Usable(current) /\ Disk!Sectors(current) = Sec /\ current \in DOMAIN disk.files
      BY <2>2, <2>4 DEF Fits, Disk!Usable
    <3>2. ImageIs(current, idx + 1, read)
      BY <1>1, <2>3, <3>1, ReadImageIs DEF read, ImageIs, ReadFrom
    <3>3. sectors = Sec
      BY <1>1, <3>1, <3>2, SameSectors
    <3>4. imageSize \in {<<>>, <<Sec * SectorSize>>}
      BY <2>1 DEF AtImage
    <3>5. imageSize \in {<<>>, <<sectors * SectorSize>>}
      BY <3>3, <3>4
    <3> QED
      BY <1>3, <2>3, <3>1, <3>5
  <2>5. ~Disk!Opens
    BY <2>2, <2>4, OpensIs
  <2>6. pc' = "failed"
    BY <1>3, <2>3
  <2> QED
    BY <1>1, <2>5, <2>6, OpensDisk
<1> QED
  BY <1>2, <1>3 DEF HandleImage, read

\* open() succeeds: every image that is needed fits
LEMMA OpenedStep ==
  ASSUME FullInv, Opened
  PROVE  StepOfDisk
<1>1. /\ ExtentsOK /\ FoundInv /\ pc = "fill" /\ pc' = "ready" /\ pc \in Opening
      /\ UNCHANGED <<disk, req, ans>>
  BY DEF Opened, FullInv, SearchInv, ReaderInv, LabelsInv, Opening
<1>2. PICK n \in 1 .. MaxDepth : FoundTo(n)
  BY <1>1 DEF FoundInv, Found
<1>3. ASSUME NEW m \in 1 .. MaxDepth, Disk!Needed[m]
      PROVE  Fits(m)
  <2>1. ~(n < m)
    BY <1>2, <1>3 DEF FoundTo
  <2>2. m \in 1 .. n
    BY <2>1, MaxDepthAssumption
  <2>3. IsExtent(extents[m], m)
    BY <1>1, <1>2, <2>2, ImageExtents
  <2> QED
    BY <2>3 DEF IsExtent
<1> QED
  BY <1>1, <1>3, OpensIs, OpensDisk

LEMMA OpeningStep ==
  ASSUME FullInv, OpenStep
  PROVE  StepOfDisk
<1>1. CASE HandleImage
  BY <1>1, ImageStep
<1>2. CASE ImageFault
  BY <1>2, OpensDisk DEF ImageFault, readVars, Opening
<1>3. CASE BeginExtent \/ InsertOne \/ RunMaps \/ EndExtent \/ NextImage
  <2>1. UNCHANGED <<disk, req, ans>> /\ pc \in Opening /\ pc' \in Opening
    BY <1>3 DEF BeginExtent, InsertOne, RunMaps, EndExtent, NextImage, readVars, Opening
  <2> QED
    BY <2>1, Stutters
<1>4. CASE FillZeros \/ RunFill \/ EndFill
  <2>1. UNCHANGED <<disk, req, ans>> /\ pc \in Opening /\ pc' \in Opening
    BY <1>4 DEF FillZeros, RunFill, EndFill, readVars, Opening
  <2> QED
    BY <2>1, Stutters
<1>5. CASE Opened
  BY <1>5, OpenedStep
<1> QED
  BY <1>1, <1>2, <1>3, <1>4, <1>5 DEF OpenStep

-----------------------------------------------------------------------------
LEMMA SizeIs ==
  ASSUME FoundInv, pc \in Found
  PROVE  Size = Disk!Size
BY DEF FoundInv, Size, Disk!Size, Sec

LEMMA CallStep ==
  ASSUME FullInv, pc = "ready",
         NEW off \in 0 .. Size + 1, NEW len \in 0 .. MaxRead, NEW faulty \in BOOLEAN,
         Refuse(off, len) \/ Call(off, len, faulty)
  PROVE  StepOfDisk
<1>1. Size = Disk!Size /\ Tiles
  BY SizeIs DEF FullInv, Found, SearchInv, ReaderInv, VecInv
<1>2. CASE Refuse(off, len)
  <2>1. Disk!Refuse(off, len)
    BY <1>1, <1>2 DEF Refuse, Answer, Disk!Refuse, Opening
  <2> QED
    BY <1>1, <2>1 DEF StepOfDisk, Disk!Next, Opening
<1>3. CASE Call(off, len, faulty)
  <2>1. 1 \in {k \in DOMAIN vec : vec[k].beg <= off}
    <3>1. PICK S : vec \in Seq(S)
      BY <1>1 DEF Tiles
    <3>2. 1 \in DOMAIN vec /\ vec[1].beg = 0 /\ Size \in Nat
      BY <1>1, <3>1 DEF Tiles
    <3> QED
      BY <3>2
  <2>2. pc' = "read"
    BY <1>3, <2>1 DEF Call
  <2>3. Disk!Call(off, len, faulty)
    BY <1>1, <1>3, <2>2 DEF Call, Disk!Call, Opening, NoAns, Disk!NoAns
  <2> QED
    BY <1>1, <2>3 DEF StepOfDisk, Disk!Next, Opening
<1> QED
  BY <1>2, <1>3

-----------------------------------------------------------------------------
\* what is asked for, as the reader sees it
LEMMA AskedIs ==
  ASSUME FullInv, pc = "read"
  PROVE  /\ Disk!Asked = req.off .. end - 1
         /\ req.off \in Nat /\ offset \in Nat /\ end \in Nat
         /\ req.off <= offset /\ offset <= end /\ Len(buf) = offset - req.off
<1>1. Size = Disk!Size /\ ReadInv /\ ReadSoFar
  BY SizeIs DEF FullInv, Found, SearchInv, ReaderInv
<1>2. /\ req.off \in Nat /\ offset \in Nat /\ end \in Nat
      /\ req.off <= offset /\ offset <= end /\ Len(buf) = offset - req.off
  <2>1. PICK S : buf \in Seq(S)
    BY <1>1 DEF ReadInv
  <2>2. Len(buf) \in Nat
    BY <2>1
  <2> QED
    BY <1>1, <2>2 DEF ReadInv
<1> QED
  BY <1>1, <1>2 DEF ReadSoFar, Disk!Asked

LEMMA MissingIs == \A o : Disk!Missing(o) <=> Lost(Disk!Content(o))
BY DEF Disk!Missing, Lost, Disk!ZeroByte, ZeroByte

LEMMA FailStep ==
  ASSUME pc = "read", UNCHANGED <<disk, req>>, Answer("error", <<>>),
         NEW o \in Disk!Asked,
         Lost(Disk!Content(o)) \/ (req.faulty /\ Disk!Content(o) # ZeroByte)
  PROVE  StepOfDisk
<1>1. Disk!Broken
  BY MissingIs DEF Disk!Broken, Disk!ZeroByte, ZeroByte
<1>2. Disk!Fail
  BY <1>1 DEF Disk!Fail, Answer, Opening
<1> QED
  BY <1>2 DEF StepOfDisk, Disk!Next

\* what the k-th byte of a piece is asked as
LEMMA AskedInPiece ==
  ASSUME FullInv, pc = "read", offset < end,
         NEW n, n = Min({vec[i].end - offset, end - offset}), NEW r \in 1 .. n, NEW k \in 1 .. r
  PROVE  offset + k - 1 \in Disk!Asked
<1>1. /\ Disk!Asked = req.off .. end - 1
      /\ req.off \in Nat /\ offset \in Nat /\ end \in Nat /\ req.off <= offset
  BY AskedIs
<1>2. ReadInv /\ Tiles
  BY DEF FullInv, SearchInv, ReaderInv, VecInv
<1>3. vec[i].end \in Nat
  BY <1>2 DEF ReadInv, Tiles, SpanOK
<1>4. n \in Int /\ n <= end - offset
  BY <1>1, <1>3, MinOfTwo
<1> QED
  BY <1>1, <1>4

LEMMA ReadStepOfDisk ==
  ASSUME FullInv, ReadPiece \/ ReadFault
  PROVE  StepOfDisk
<1>1. /\ pc = "read" /\ offset < end /\ UNCHANGED <<disk, req>>
      /\ SearchInv /\ WholeDisk /\ FoundInv
  BY DEF ReadPiece, ReadFault, FullInv
<1>2. PICK n : n = Min({vec[i].end - offset, end - offset})
  OBVIOUS
<1>3. PICK r \in 1 .. n : Gives(Piece, ContentFrom(offset, r))
  BY <1>1, <1>2, PieceGives
<1>4. PICK bytes : bytes = ContentFrom(offset, r)
  OBVIOUS
<1>5. ASSUME NEW k \in DOMAIN bytes
      PROVE  offset + k - 1 \in Disk!Asked /\ bytes[k] = Disk!Content(offset + k - 1)
  <2>1. k \in 1 .. r
    BY <1>4 DEF ContentFrom
  <2> QED
    BY Zenon, <1>1, <1>2, <1>4, <2>1, AskedInPiece DEF ContentFrom
<1>6. CASE Piece.outcome = "bytes"
  <2>1. Piece # IoError
    BY <1>6 DEF IoError
  <2>2. Piece.bytes = bytes
    BY <1>3, <1>4, <2>1 DEF Gives, Got
  <2>3. CASE ReadPiece
    BY <1>1, <1>6, <2>3, Stutters DEF ReadPiece
  <2>4. CASE ReadFault
    <3>1. PICK k \in DOMAIN bytes : bytes[k] # ZeroByte
      BY <2>2, <2>4 DEF ReadFault
    <3>2. PICK o \in Disk!Asked : Disk!Content(o) # ZeroByte
      BY <1>5, <3>1
    <3>3. req.faulty /\ Answer("error", <<>>)
      BY <2>4 DEF ReadFault
    <3> QED
      BY <1>1, <3>2, <3>3, FailStep
  <2> QED
    BY <2>3, <2>4
<1>7. CASE Piece.outcome # "bytes"
  <2>1. Piece = IoError /\ \E k \in DOMAIN bytes : Lost(bytes[k])
    BY <1>3, <1>4, <1>7 DEF Gives, Got
  <2>2. PICK k \in DOMAIN bytes : Lost(bytes[k])
    BY <2>1
  <2>3. PICK o \in Disk!Asked : o = offset + k - 1 /\ bytes[k] = Disk!Content(o)
    BY <1>5
  <2>4. Lost(Disk!Content(o))
    BY <2>2, <2>3
  <2>5. Answer("error", <<>>)
    BY <1>7, <2>1 DEF ReadPiece, ReadFault, IoError
  <2> QED
    BY <1>1, <2>4, <2>5, FailStep
<1> QED
  BY <1>6, <1>7

\* the Cardinality of DeltaDisk
LEMMA SameCardinality == \A S : Disk!Cardinality(S) = Cardinality(S)
BY DEF Disk!Cardinality, Cardinality

LEMMA ReturnStep ==
  ASSUME FullInv, Return
  PROVE  StepOfDisk
<1>1. /\ pc = "read" /\ offset >= end /\ UNCHANGED <<disk, req>> /\ Answer("bytes", buf)
      /\ ReadInv /\ ReadSoFar
  BY DEF Return, FullInv, SearchInv, ReaderInv
<1>2. /\ Disk!Asked = req.off .. end - 1 /\ req.off \in Nat /\ end \in Nat
      /\ req.off <= end /\ Len(buf) = end - req.off
  BY <1>1, AskedIs
<1>3. PICK S : buf \in Seq(S)
  BY <1>1 DEF ReadInv
<1>4. /\ DOMAIN buf = 1 .. end - req.off
      /\ \A k \in DOMAIN buf : buf[k] = Disk!Content(req.off + k - 1) /\ ~Lost(buf[k])
  BY <1>1, <1>2, <1>3 DEF ReadSoFar
<1>5. Disk!Complete
  <2> SUFFICES ASSUME NEW o \in Disk!Asked
               PROVE  ~Lost(Disk!Content(o))
    BY MissingIs DEF Disk!Complete
  <2>1. PICK k \in 1 .. end - req.off : req.off + k - 1 = o
    <3>1. o \in Int /\ o - req.off + 1 \in 1 .. end - req.off
          /\ req.off + (o - req.off + 1) - 1 = o
      BY <1>2
    <3> QED
      BY <3>1
  <2>2. buf[k] = Disk!Content(o) /\ ~Lost(buf[k])
    BY <1>4, <2>1
  <2> QED
    BY <2>2
<1>6. Cardinality(Disk!Asked) = end - req.off
  <2>1. PICK a \in Int, b \in Int : a = req.off /\ b = end - 1
    BY <1>2
  <2>2. Cardinality(a .. b) = IF a > b THEN 0 ELSE b - a + 1
    BY FS_Interval
  <2>3. Cardinality(a .. b) = end - req.off
    BY <1>2, <2>1, <2>2
  <2> QED
    BY <1>2, <2>1, <2>3
<1>7. buf = [k \in 1 .. Cardinality(Disk!Asked) |-> Disk!Content(req.off + k - 1)]
  <2>1. PICK n : n = end - req.off
    OBVIOUS
  <2>2. DOMAIN buf = 1 .. n /\ \A k \in 1 .. n : buf[k] = Disk!Content(req.off + k - 1)
    BY <1>4, <2>1
  <2>3. buf = [k \in 1 .. n |-> Disk!Content(req.off + k - 1)]
    BY <1>3, <2>2
  <2> QED
    BY <1>6, <2>1, <2>3
<1>8. PICK bytes : bytes = buf
  OBVIOUS
<1>9. bytes = [k \in 1 .. Disk!Cardinality(Disk!Asked) |-> Disk!Content(req.off + k - 1)]
  BY <1>7, <1>8, SameCardinality
<1>10. ans' = [outcome |-> "bytes", bytes |-> bytes] /\ pc' = "answered"
  BY <1>1, <1>8 DEF Answer
<1>11. Disk!Reply
  BY <1>1, <1>5, <1>9, <1>10 DEF Disk!Reply, Opening
<1> QED
  BY <1>11 DEF StepOfDisk, Disk!Next

LEMMA ForgetStep ==
  ASSUME Forget
  PROVE  StepOfDisk
<1>1. Disk!Forget
  BY DEF Forget, Disk!Forget, Opening, NoReq, Disk!NoReq, NoAns, Disk!NoAns
<1> QED
  BY <1>1 DEF StepOfDisk, Disk!Next

LEMMA NextIsOfDisk == FullInv /\ [ReaderNext]_vars => StepOfDisk
<1> SUFFICES ASSUME FullInv, [ReaderNext]_vars
             PROVE  StepOfDisk
  OBVIOUS
<1>1. CASE OpenStep
  BY <1>1, OpeningStep
<1>2. CASE pc = "ready" /\ \E off \in 0 .. Size + 1, len \in 0 .. MaxRead, faulty \in BOOLEAN :
                             Refuse(off, len) \/ Call(off, len, faulty)
  BY <1>2, CallStep
<1>3. CASE ReadStep
  BY <1>3, ReadStepOfDisk, ReturnStep DEF ReadStep
<1>4. CASE Forget
  BY <1>4, ForgetStep
<1>5. CASE UNCHANGED vars
  <2>1. UNCHANGED <<disk, pc, req, ans>>
    BY <1>5 DEF vars, readVars
  <2> QED
    BY <2>1, Stutters
<1> QED
  BY <1>1, <1>2, <1>3, <1>4, <1>5 DEF ReaderNext

\* The reader implements DeltaDisk: open() succeeds if and only if the images it needs
\* are usable and their sources answer, and a read returns every byte from the nearest
\* image of the chain that has it, or says that one is missing.
THEOREM ReaderReadsTheDisk == ReaderSpec /\ SoundDisk /\ WholeDisk => ReadsTheDisk
<1>1. ReaderInit /\ SoundDisk /\ WholeDisk => FullInv
  BY InitFullInv
<1>2. ReaderInit => Disk!Init
  BY DEF ReaderInit, Disk!Init, Opening, NoReq, NoAns, Disk!NoReq, Disk!NoAns
<1>3. FullInv /\ [ReaderNext]_vars => FullInv'
  BY NextFullInv
<1>4. FullInv /\ [ReaderNext]_vars => [Disk!Next]_(Disk!vars)
  BY NextIsOfDisk DEF StepOfDisk
<1> QED
  BY <1>1, <1>2, <1>3, <1>4, PTL DEF ReaderSpec, ReadsTheDisk, Disk!Spec
=============================================================================
