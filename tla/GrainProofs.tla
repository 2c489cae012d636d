------------------------------ MODULE GrainProofs ------------------------------
(***************************************************************************)
(* Proofs about the readers of grain tables, for tables and extents of     *)
(* every size, and about compressed grains.                                *)
(***************************************************************************)
EXTENDS GrainLoops, GrainInflate, NatLemmas

LEMMA MinOfTwo ==
  ASSUME NEW a \in Int, NEW b \in Int
  PROVE  Min({a, b}) = IF a <= b THEN a ELSE b
<1>1. \E x \in {a, b} : \A y \in {a, b} : x <= y
  OBVIOUS
<1>2. Min({a, b}) \in {a, b} /\ \A y \in {a, b} : Min({a, b}) <= y
  BY <1>1 DEF Min
<1> QED
  BY <1>2

-----------------------------------------------------------------------------
(***************************************************************************)
(* The inductive invariant.                                                *)
(***************************************************************************)

\* how many entries the tables before the next have
Before == h.l2_len * (j - 1)

\* the first key of the next: the tables before it are full, up to the end
PlaceInv ==
  /\ h \in Headers /\ start_sector \in Starts
  /\ j \in 1 .. Len(h.l1) + 1
  /\ cur_sector = IF Before <= h.sectors THEN start_sector + Before ELSE end_sector

\* all entries so far are registered if they say that the file has the grain
TableInv ==
  /\ DOMAIN grain_table \subseteq start_sector .. cur_sector - 1
  /\ \A k \in start_sector .. cur_sector - 1 :
       IF Stored(h, k - start_sector) = 0
         THEN k \notin DOMAIN grain_table
         ELSE k \in DOMAIN grain_table /\ grain_table[k] = Stored(h, k - start_sector)

\* the loop is left with nothing more to look at
LeftInv == result = "ok" => j \notin DOMAIN h.l1 \/ cur_sector = end_sector

LoopInv == PlaceInv /\ TableInv /\ LeftInv

-----------------------------------------------------------------------------
\* What a header in Headers is.
LEMMA HeaderTypes ==
  ASSUME PlaceInv
  PROVE  /\ h.sectors \in Nat /\ h.l2_len \in Nat \ {0} /\ h.cluster_sectors \in Nat \ {0}
         /\ Len(h.l1) \in Nat /\ DOMAIN h.l1 = 1 .. Len(h.l1)
         /\ start_sector \in Nat /\ j \in Nat \ {0}
         /\ Before \in Nat
<1>1. h.l1 \in Seq(SeEntries) \/ h.l1 \in Seq(Seq(Nat))
  BY HeadersAssumption DEF PlaceInv
<1>2. h.l2_len \in Nat \ {0} /\ j \in Nat \ {0}
  BY <1>1, HeadersAssumption DEF PlaceInv
<1>3. Before \in Nat
  BY <1>2 DEF Before
<1> QED
  BY <1>1, <1>2, <1>3, HeadersAssumption, StartsAssumption DEF PlaceInv

\* The sectors left are never less than none.
LEMMA PlaceInRange ==
  ASSUME PlaceInv
  PROVE  cur_sector \in start_sector .. end_sector
BY HeaderTypes DEF PlaceInv, end_sector

\* An iteration begins where the tables before it end, and takes its entries, as
\* far as there are sectors.
LEMMA InLoopPlace ==
  ASSUME PlaceInv, InLoop
  PROVE  /\ cur_sector = start_sector + Before
         /\ cur_sector < end_sector
         /\ l2_len \in 1 .. h.l2_len
         /\ l2_len = IF h.l2_len <= end_sector - cur_sector THEN h.l2_len
                     ELSE end_sector - cur_sector
<1>1. cur_sector \in start_sector .. end_sector /\ cur_sector # end_sector
  BY PlaceInRange DEF InLoop
<1>2. h.sectors - (cur_sector - start_sector) = end_sector - cur_sector
  BY <1>1, HeaderTypes DEF end_sector
<1>3. l2_len = IF h.l2_len <= end_sector - cur_sector THEN h.l2_len
               ELSE end_sector - cur_sector
  <2>1. h.l2_len \in Int /\ end_sector - cur_sector \in Int
    BY <1>1, HeaderTypes DEF end_sector
  <2> QED
    BY <1>2, <2>1, MinOfTwo DEF l2_len
<1>4. cur_sector = start_sector + Before
  BY <1>1 DEF PlaceInv
<1>5. end_sector \in Nat /\ start_sector \in Nat /\ h.l2_len \in Nat \ {0}
  BY HeaderTypes DEF end_sector
<1> QED
  BY <1>1, <1>3, <1>4, <1>5

\* After Advance, too.
LEMMA AdvancePlace ==
  ASSUME PlaceInv, InLoop, Advance, UNCHANGED <<h, start_sector>>
  PROVE  PlaceInv' /\ LeftInv' /\ cur_sector' = cur_sector + l2_len
<1>1. cur_sector' = cur_sector + l2_len /\ j' = j + 1 /\ result' = "loop"
  BY DEF Advance, InLoop
<1>2. end_sector' = end_sector /\ end_sector = start_sector + h.sectors
  BY DEF end_sector
<1>3. Before' = Before + h.l2_len
  <2>1. j' - 1 = (j - 1) + 1 /\ j \in Nat /\ h.l2_len \in Nat /\ h' = h
    BY <1>1, HeaderTypes
  <2>2. h.l2_len * ((j - 1) + 1) = h.l2_len * (j - 1) + h.l2_len
    BY <2>1
  <2> QED
    BY <2>1, <2>2 DEF Before
<1>4. j' \in 1 .. Len(h.l1) + 1
  BY <1>1, HeaderTypes DEF InLoop
<1>5. cur_sector' = IF Before' <= h.sectors THEN start_sector + Before' ELSE end_sector
  <2>1. /\ cur_sector = start_sector + Before
        /\ l2_len = IF h.l2_len <= end_sector - cur_sector THEN h.l2_len
                    ELSE end_sector - cur_sector
        /\ Before \in Nat /\ start_sector \in Nat /\ h.sectors \in Nat /\ h.l2_len \in Nat
    BY InLoopPlace, HeaderTypes
  <2>2. CASE h.l2_len <= end_sector - cur_sector
    BY <1>1, <1>2, <1>3, <2>1, <2>2
  <2>3. CASE ~(h.l2_len <= end_sector - cur_sector)
    BY <1>1, <1>2, <1>3, <2>1, <2>3
  <2> QED
    BY <2>2, <2>3
<1> QED
  BY <1>1, <1>2, <1>4, <1>5 DEF PlaceInv, LeftInv

\* Where the two levels have the keys of this iteration.
LEMMA StoredHere ==
  ASSUME PlaceInv, InLoop, NEW k \in cur_sector .. cur_sector + l2_len - 1
  PROVE  /\ (k - start_sector) \div h.l2_len + 1 = j
         /\ ((k - start_sector) % h.l2_len) + 1 = k - cur_sector + 1
<1> DEFINE q == j - 1
           r == k - cur_sector
           l == h.l2_len
<1>1. cur_sector \in Nat /\ l2_len \in 1 .. l /\ cur_sector = start_sector + l * q
  BY InLoopPlace, PlaceInRange, HeaderTypes DEF end_sector, Before
<1>2. q \in Nat /\ l \in Nat \ {0} /\ j \in Nat /\ start_sector \in Nat
  BY HeaderTypes
<1>3. r \in 0 .. l - 1 /\ k \in Int
  <2>1. cur_sector \in Nat /\ l2_len \in Nat /\ l2_len <= l
    BY <1>1, <1>2
  <2> QED
    BY <1>2, <2>1
<1>4. l * q \in Nat
  BY <1>2
<1>5. k - start_sector = l * q + r /\ q + 1 = j
  BY <1>1, <1>2, <1>3, <1>4
<1> HIDE DEF q, r, l
<1>6. (l * q + r) \div l = q /\ (l * q + r) % l = r
  BY <1>2, <1>3, DivModOf
<1> QED
  BY <1>5, <1>6 DEF r, l

\* When what an iteration adds is right, so is the table.
LEMMA AdvanceTable ==
  ASSUME LoopInv, InLoop, Advance, UNCHANGED <<h, start_sector>>,
         DOMAIN grain_table' \subseteq DOMAIN grain_table
                                        \cup cur_sector .. cur_sector + l2_len - 1,
         \A k \in start_sector .. cur_sector - 1 :
           /\ k \in DOMAIN grain_table' <=> k \in DOMAIN grain_table
           /\ k \in DOMAIN grain_table => grain_table'[k] = grain_table[k],
         \A k \in cur_sector .. cur_sector + l2_len - 1 :
           IF Stored(h, k - start_sector) = 0
             THEN k \notin DOMAIN grain_table'
             ELSE k \in DOMAIN grain_table' /\ grain_table'[k] = Stored(h, k - start_sector)
  PROVE  LoopInv'
<1>1. PlaceInv' /\ LeftInv' /\ cur_sector' = cur_sector + l2_len
  BY AdvancePlace DEF LoopInv
<1>2. h' = h /\ start_sector' = start_sector
  OBVIOUS
<1>3. cur_sector \in Nat /\ start_sector \in Nat /\ l2_len \in Nat \ {0} /\ start_sector <= cur_sector
  BY InLoopPlace, PlaceInRange, HeaderTypes DEF LoopInv, end_sector
<1>4. TableInv'
  <2>1. DOMAIN grain_table' \subseteq start_sector .. cur_sector' - 1
    BY <1>1, <1>3 DEF LoopInv, TableInv
  <2>2. ASSUME NEW k \in start_sector .. cur_sector' - 1
        PROVE  IF Stored(h, k - start_sector) = 0
                 THEN k \notin DOMAIN grain_table'
                 ELSE k \in DOMAIN grain_table' /\ grain_table'[k] = Stored(h, k - start_sector)
    <3>1. CASE k < cur_sector
      BY <3>1, <1>3 DEF LoopInv, TableInv
    <3>2. CASE k >= cur_sector
      BY <3>2, <1>1, <1>3
    <3> QED
      BY <1>3, <3>1, <3>2
  <2> QED
    BY <1>2, <2>1, <2>2 DEF TableInv
<1> QED
  BY <1>1, <1>4 DEF LoopInv

-----------------------------------------------------------------------------
(***************************************************************************)
(* The steps.                                                              *)
(***************************************************************************)
LEMMA StopStep ==
  ASSUME LoopInv, UNCHANGED <<h, start_sector>>, NEW how, Stop(how),
         how = "ok" => j \notin DOMAIN h.l1 \/ cur_sector = end_sector
  PROVE  LoopInv'
BY DEF Stop, LoopInv, PlaceInv, TableInv, LeftInv, Before, end_sector

LEMMA InParentStep ==
  ASSUME LoopInv, InParent, UNCHANGED <<h, start_sector>>
  PROVE  LoopInv'
<1>1. InLoop /\ Advance /\ grain_table' = grain_table
  BY DEF InParent
<1>2. ASSUME NEW k \in cur_sector .. cur_sector + l2_len - 1
      PROVE  Stored(h, k - start_sector) = 0 /\ k \notin DOMAIN grain_table
  <2>1. Stored(h, k - start_sector) = 0
    BY <1>1, <1>2, StoredHere DEF LoopInv, InParent, Stored, IsSe
  <2>2. cur_sector \in Int /\ l2_len \in Int /\ k >= cur_sector
    BY <1>1, <1>2, InLoopPlace, PlaceInRange, HeaderTypes DEF LoopInv, end_sector
  <2> QED
    BY <2>1, <2>2 DEF LoopInv, TableInv
<1> QED
  BY <1>1, <1>2, AdvanceTable

LEMMA SparseEntryStep ==
  ASSUME LoopInv, SparseEntry, UNCHANGED <<h, start_sector>>
  PROVE  LoopInv'
<1>1. CASE Stop("error")
  BY <1>1, StopStep
<1>2. CASE ~(Len(h.l1[j]) < l2_len)
  <2> DEFINE found == {i \in 0 .. l2_len - 1 : h.l1[j][i + 1] # 0}
             keys == {cur_sector + i : i \in found}
  <2>1. /\ InLoop /\ Advance /\ ~IsSe /\ h.l1[j] # <<>>
        /\ grain_table' = [k \in DOMAIN grain_table \cup keys |->
                             IF k - cur_sector \in found THEN h.l1[j][k - cur_sector + 1]
                                                         ELSE grain_table[k]]
    BY <1>2 DEF SparseEntry
  <2>2. cur_sector \in Nat /\ l2_len \in Nat \ {0} /\ start_sector \in Nat
    BY <2>1, InLoopPlace, PlaceInRange, HeaderTypes DEF LoopInv, end_sector
  <2>3. DOMAIN grain_table \subseteq start_sector .. cur_sector - 1
    BY DEF LoopInv, TableInv
  <2>4. ASSUME NEW k \in cur_sector .. cur_sector + l2_len - 1
        PROVE  /\ Stored(h, k - start_sector) = h.l1[j][k - cur_sector + 1]
               /\ k \in DOMAIN grain_table' <=> k - cur_sector \in found
               /\ k - cur_sector \in found <=> h.l1[j][k - cur_sector + 1] # 0
    <3>1. Stored(h, k - start_sector) = h.l1[j][k - cur_sector + 1]
      BY <2>1, <2>4, StoredHere DEF LoopInv, Stored, IsSe
    <3>2. k - cur_sector \in 0 .. l2_len - 1 /\ cur_sector + (k - cur_sector) = k
      BY <2>2, <2>4
    <3>3. k \in keys <=> k - cur_sector \in found
      BY <2>2, <3>2
    <3>4. k \notin DOMAIN grain_table
      BY <2>2, <2>3
    <3> QED
      BY <2>1, <3>1, <3>2, <3>3, <3>4
  <2>5. ASSUME NEW k \in start_sector .. cur_sector - 1
        PROVE  k - cur_sector \notin found /\ k \notin keys
    BY <2>2, <2>5
  <2>6. keys \subseteq cur_sector .. cur_sector + l2_len - 1
    BY <2>2
  <2> HIDE DEF found, keys
  <2> QED
    BY <2>1, <2>4, <2>5, <2>6, AdvanceTable
<1> QED
  BY <1>1, <1>2 DEF SparseEntry

\* an entry of a SESPARSE table that is sound: what is looked up is never 0
LEMMA SeGrainStored ==
  ASSUME NEW x \in Headers, "tables" \in DOMAIN x, NEW e \in SeEntries, e # NoEntry => ~BadL2(e)
  PROVE  /\ e = NoEntry => SeStored(x, e) = 0
         /\ e # NoEntry => SeStored(x, e) = SeGrain(x, e) /\ SeStored(x, e) # 0
<1>1. /\ x.clusters_offset \in Nat \ {0} /\ x.cluster_sectors \in Nat \ {0}
      /\ e.index \in Nat /\ e.nibble \in Nat
  BY HeadersAssumption DEF SeEntries
<1>2. e.index * x.cluster_sectors \in Nat
  BY <1>1
<1>3. x.clusters_offset + e.index * x.cluster_sectors # 0
  BY <1>1, <1>2
<1>4. CASE e = NoEntry
  BY <1>4 DEF NoEntry, SeStored
<1>5. CASE e # NoEntry
  <2>1. e.nibble \in 1 .. 3
    BY <1>5 DEF BadL2
  <2> QED
    BY <1>3, <1>5, <2>1 DEF SeGrain, SeStored
<1> QED
  BY <1>4, <1>5

LEMMA SeEntryStep ==
  ASSUME LoopInv, SeEntry, UNCHANGED <<h, start_sector>>
  PROVE  LoopInv'
<1> DEFINE l2 == h.tables[h.l1[j].index + 1]
           found == {i \in 0 .. l2_len - 1 : l2[i + 1] # NoEntry}
           keys == {cur_sector + i : i \in found}
<1>1. CASE Stop("error")
  BY <1>1, StopStep
<1>2. CASE ~BadL1(h, h.l1[j]) /\ ~(Len(l2) < l2_len) /\ ~ \E i \in found : BadL2(l2[i + 1])
  <2>1. /\ InLoop /\ Advance /\ IsSe /\ h.l1[j] # NoEntry
        /\ grain_table' = [k \in DOMAIN grain_table \cup keys |->
                             IF k - cur_sector \in found
                               THEN SeGrain(h, l2[k - cur_sector + 1])
                               ELSE grain_table[k]]
    BY <1>2 DEF SeEntry
  <2>2. cur_sector \in Nat /\ l2_len \in Nat \ {0} /\ start_sector \in Nat
    BY <2>1, InLoopPlace, PlaceInRange, HeaderTypes DEF LoopInv, end_sector
  <2>3. DOMAIN grain_table \subseteq start_sector .. cur_sector - 1
    BY DEF LoopInv, TableInv
  <2>4. l2 \in Seq(SeEntries) /\ Len(l2) >= l2_len
    <3>1. h \in Headers /\ h.tables \in Seq(Seq(SeEntries)) /\ h.l1 \in Seq(SeEntries)
      BY <2>1, HeadersAssumption DEF LoopInv, PlaceInv, IsSe
    <3>2. h.l1[j] \in SeEntries
      BY <2>1, <3>1 DEF InLoop
    <3>3. h.l1[j].index \in 0 .. Len(h.tables) - 1
      <4>1. h.l1[j].index \in Nat /\ Len(h.tables) \in Nat
        BY <3>1, <3>2 DEF SeEntries
      <4>2. ~(h.l1[j].index >= Len(h.tables))
        BY <1>2, <2>1 DEF BadL1
      <4> QED
        BY <4>1, <4>2
    <3>4. l2 \in Seq(SeEntries)
      BY <3>1, <3>3
    <3> QED
      BY <1>2, <2>2, <3>4
  <2>5. ASSUME NEW k \in cur_sector .. cur_sector + l2_len - 1
        PROVE  LET e == l2[k - cur_sector + 1]
               IN  /\ e = NoEntry => Stored(h, k - start_sector) = 0
                   /\ e # NoEntry => /\ Stored(h, k - start_sector) = SeGrain(h, e)
                                     /\ SeGrain(h, e) # 0
                   /\ k \in DOMAIN grain_table' <=> k - cur_sector \in found
                   /\ k - cur_sector \in found <=> e # NoEntry
    <3> DEFINE e == l2[k - cur_sector + 1]
    <3>1. k - cur_sector \in 0 .. l2_len - 1 /\ cur_sector + (k - cur_sector) = k
      BY <2>2, <2>5
    <3>2. e \in SeEntries
      BY <2>2, <2>4, <3>1
    <3>3. k - cur_sector \in found <=> e # NoEntry
      BY <3>1
    <3>4. e # NoEntry => ~BadL2(e)
      BY <1>2, <3>3
    <3>5. Stored(h, k - start_sector) = SeStored(h, e)
      BY <2>1, <2>5, StoredHere DEF LoopInv, Stored, IsSe
    <3>6. k \in keys <=> k - cur_sector \in found
      BY <2>2, <3>1
    <3>7. k \notin DOMAIN grain_table
      BY <2>2, <2>3
    <3>8. k \in DOMAIN grain_table' <=> k - cur_sector \in found
      BY <2>1, <3>6, <3>7
    <3>9. h \in Headers
      BY DEF LoopInv, PlaceInv
    <3> HIDE DEF e, found, keys, l2
    <3>10. /\ e = NoEntry => Stored(h, k - start_sector) = 0
           /\ e # NoEntry => Stored(h, k - start_sector) = SeGrain(h, e) /\ SeGrain(h, e) # 0
      BY <2>1, <3>2, <3>4, <3>5, <3>9, SeGrainStored DEF IsSe
    <3> QED
      BY <3>3, <3>8, <3>10 DEF e
  <2>6. ASSUME NEW k \in start_sector .. cur_sector - 1
        PROVE  k - cur_sector \notin found /\ k \notin keys
    BY <2>2, <2>6
  <2>7. keys \subseteq cur_sector .. cur_sector + l2_len - 1
    BY <2>2
  <2>8. \A k \in cur_sector .. cur_sector + l2_len - 1 :
          k - cur_sector \in found =>
            k \in DOMAIN grain_table' /\ grain_table'[k] = SeGrain(h, l2[k - cur_sector + 1])
    BY <2>1, <2>5
  <2> HIDE DEF found, keys, l2
  <2> QED
    BY <2>1, <2>5, <2>6, <2>7, <2>8, AdvanceTable
<1> QED
  BY <1>1, <1>2 DEF SeEntry

LEMMA AlwaysLoopInv == LoopSpec => []LoopInv
<1>1. LoopInit => LoopInv
  <2> SUFFICES ASSUME LoopInit PROVE LoopInv
    OBVIOUS
  <2>1. /\ h.sectors \in Nat /\ h.l2_len \in Nat \ {0} /\ start_sector \in Nat
        /\ h \in Headers /\ (h.l1 \in Seq(SeEntries) \/ h.l1 \in Seq(Seq(Nat)))
    BY HeadersAssumption, StartsAssumption DEF LoopInit
  <2>2. Len(h.l1) \in Nat /\ h.l2_len * (1 - 1) = 0
    BY <2>1
  <2>3. j = 1 /\ Before = 0
    BY <2>2 DEF LoopInit, Before
  <2> QED
    BY <2>1, <2>2, <2>3 DEF LoopInit, LoopInv, PlaceInv, TableInv, LeftInv
<1>2. LoopInv /\ [LoopNext]_loopVars => LoopInv'
  <2> SUFFICES ASSUME LoopInv, [LoopNext]_loopVars PROVE LoopInv'
    OBVIOUS
  <2>1. CASE LoopNext
    <3>0. UNCHANGED <<h, start_sector>>
      BY <2>1 DEF LoopNext
    <3>1. CASE ReadLevel1
      BY <3>0, <3>1, StopStep DEF ReadLevel1
    <3>2. CASE Finish
      BY <3>0, <3>2, StopStep DEF Finish
    <3>3. CASE InParent
      BY <3>0, <3>3, InParentStep
    <3>4. CASE SparseEntry
      BY <3>0, <3>4, SparseEntryStep
    <3>5. CASE SeEntry
      BY <3>0, <3>5, SeEntryStep
    <3> QED
      BY <2>1, <3>1, <3>2, <3>3, <3>4, <3>5 DEF LoopNext
  <2>2. CASE UNCHANGED loopVars
    BY <2>2 DEF loopVars, LoopInv, PlaceInv, TableInv, LeftInv, Before, end_sector
  <2> QED
    BY <2>1, <2>2
<1> QED
  BY <1>1, <1>2, PTL DEF LoopSpec

-----------------------------------------------------------------------------
\* For tables of every size: h.sectors - (cur_sector - start_sector) does not go
\* below zero in either reader, so the number of entries to read does not wrap.
THEOREM LoopsStayWithin == LoopSpec => []NeverPastTheEnd
<1>1. LoopInv => NeverPastTheEnd
  BY PlaceInRange DEF LoopInv, NeverPastTheEnd
<1> QED
  BY <1>1, AlwaysLoopInv, PTL

\* For tables of every size that are enough for the sectors, which TablesCover says
\* of the headers: the readers find each grain of an extent at sector 0 that the
\* file has, and no other.
THEOREM LoopsFindTheGrains == LoopSpec => []GrainsFound
<1>1. LoopInv => GrainsFound
  <2> SUFFICES ASSUME LoopInv, result = "ok", start_sector = 0,
                      NEW g \in 0 .. h.sectors - 1, g * h.cluster_sectors < h.sectors
               PROVE  g < cur_sector
    <3>1. ASSUME LoopInv, start_sector = 0, NEW g \in 0 .. h.sectors - 1, g < cur_sector
          PROVE  IF Stored(h, g) = 0 THEN g \notin DOMAIN grain_table
                 ELSE g \in DOMAIN grain_table /\ grain_table[g] = Stored(h, g)
      <4>1. h.sectors \in Nat /\ cur_sector \in Int
        BY <3>1, HeaderTypes, PlaceInRange DEF LoopInv, end_sector
      <4>2. g \in start_sector .. cur_sector - 1 /\ g - start_sector = g
        BY <3>1, <4>1
      <4> QED
        BY <3>1, <4>2 DEF LoopInv, TableInv
    <3> QED
      BY <3>1 DEF GrainsFound
  <2>1. CASE cur_sector = end_sector
    BY <2>1, HeaderTypes DEF LoopInv, end_sector
  <2>2. CASE j \notin DOMAIN h.l1
    <3> DEFINE n == Len(h.l1) * h.l2_len
               w == h.cluster_sectors
    <3>1. PlaceInv
      BY DEF LoopInv
    <3>2. n \in Nat /\ w \in Nat \ {0} /\ h.sectors \in Nat /\ g \in Nat
      BY <3>1, HeaderTypes
    <3>3. j - 1 = Len(h.l1) /\ Before = n
      <4>1. j = Len(h.l1) + 1
        BY <2>2, <3>1, HeaderTypes DEF PlaceInv
      <4> QED
        BY <3>1, <4>1, HeaderTypes DEF Before
    <3>4. n * w >= h.sectors /\ g * w < h.sectors
      BY <3>1, HeadersAssumption DEF PlaceInv
    <3>5. cur_sector = IF n <= h.sectors THEN n ELSE h.sectors
      <4>1. start_sector + n = n /\ start_sector + h.sectors = h.sectors
        BY <3>2
      <4> QED
        BY <3>1, <3>3, <4>1 DEF PlaceInv, end_sector
    <3> HIDE DEF n, w
    <3>6. g * w \in Nat /\ n * w \in Nat /\ (g >= n => g * w >= n * w)
      BY <3>2, TimesGrows
    <3>7. g < n
      BY <3>2, <3>4, <3>6
    <3> QED
      BY <3>2, <3>5, <3>7
  <2> QED
    BY <2>1, <2>2 DEF LoopInv, LeftInv
<1> QED
  BY <1>1, AlwaysLoopInv, PTL

-----------------------------------------------------------------------------
(***************************************************************************)
(* The table at once: the place of a level-1 entry, and what Collect has.  *)
(* x is a header and s the start of its extent.                            *)
(***************************************************************************)

\* the first key of table i
At(x, s, i) ==
  IF x.l2_len * (i - 1) <= x.sectors THEN s + x.l2_len * (i - 1) ELSE s + x.sectors

\* how many entries are read of table i
Entries(x, s, i) == L2Len(x, s, At(x, s, i))

LEMMA PlainHeader ==
  ASSUME NEW x \in Headers, NEW s \in Starts
  PROVE  /\ x.sectors \in Nat /\ x.l2_len \in Nat \ {0} /\ s \in Nat
         /\ Len(x.l1) \in Nat /\ DOMAIN x.l1 = 1 .. Len(x.l1)
         /\ \A i \in Nat \ {0} : x.l2_len * (i - 1) \in Nat
<1>1. x.l1 \in Seq(SeEntries) \/ x.l1 \in Seq(Seq(Nat))
  BY HeadersAssumption
<1>2. x.l2_len \in Nat \ {0}
  BY HeadersAssumption
<1>3. \A i \in Nat \ {0} : x.l2_len * (i - 1) \in Nat
  BY <1>2
<1> QED
  BY <1>1, <1>3, HeadersAssumption, StartsAssumption

\* The next table begins where the entries of this one end.
LEMMA NextPlace ==
  ASSUME NEW x \in Headers, NEW s \in Starts, NEW i \in Nat \ {0}
  PROVE  /\ At(x, s, i) \in s .. s + x.sectors
         /\ Entries(x, s, i) \in Nat /\ Entries(x, s, i) \in 0 .. x.l2_len
         /\ At(x, s, i + 1) = At(x, s, i) + Entries(x, s, i)
         /\ Entries(x, s, i) = 0 <=> At(x, s, i) = s + x.sectors
         /\ Entries(x, s, i) # 0 => At(x, s, i) = s + x.l2_len * (i - 1)
<1> DEFINE b == x.l2_len * (i - 1)
           a == At(x, s, i)
           n == Entries(x, s, i)
<1>1. /\ b \in Nat /\ x.sectors \in Nat /\ s \in Nat /\ x.l2_len \in Nat \ {0}
      /\ x.l2_len * ((i + 1) - 1) = b + x.l2_len
  <2>1. x.l2_len \in Nat /\ i \in Nat
    BY PlainHeader
  <2>2. x.l2_len * ((i + 1) - 1) = x.l2_len * (i - 1) + x.l2_len
    BY <2>1
  <2> QED
    BY <2>2, PlainHeader
<1>2. a = IF b <= x.sectors THEN s + b ELSE s + x.sectors
  BY DEF At
<1>3. At(x, s, i + 1) = IF b + x.l2_len <= x.sectors THEN s + (b + x.l2_len) ELSE s + x.sectors
  BY <1>1 DEF At
<1> HIDE DEF b, a
<1>4. n = IF x.l2_len <= x.sectors - (a - s) THEN x.l2_len ELSE x.sectors - (a - s)
  <2>1. x.l2_len \in Int /\ x.sectors - (a - s) \in Int
    BY <1>1, <1>2
  <2> QED
    BY <2>1, MinOfTwo DEF L2Len, Entries, a
<1> HIDE DEF n
<1>5. CASE b <= x.sectors
  <2>1. a = s + b /\ a \in s .. s + x.sectors
    BY <1>1, <1>2, <1>5
  <2>2. n = IF b + x.l2_len <= x.sectors THEN x.l2_len ELSE x.sectors - b
    BY <1>1, <1>4, <2>1
  <2>3. n \in Nat /\ n \in 0 .. x.l2_len /\ (n = 0 <=> a = s + x.sectors)
    BY <1>1, <1>5, <2>1, <2>2
  <2>4. At(x, s, i + 1) = a + n
    BY <1>1, <1>3, <1>5, <2>1, <2>2
  <2> QED
    BY <2>1, <2>3, <2>4 DEF a, b, n
<1>6. CASE ~(b <= x.sectors)
  <2>1. a = s + x.sectors /\ n = 0
    BY <1>1, <1>2, <1>4, <1>6
  <2>2. At(x, s, i + 1) = s + x.sectors
    BY <1>1, <1>3, <1>6
  <2>3. a \in s .. s + x.sectors /\ n \in Nat /\ n \in 0 .. x.l2_len /\ At(x, s, i + 1) = a + n
    BY <1>1, <2>1, <2>2
  <2> QED
    BY <2>1, <2>3 DEF a, b, n
<1> QED
  BY <1>5, <1>6

\* The function that counts the sectors is what the loop counts.
LEMMA CursorAt ==
  ASSUME NEW x \in Headers, NEW s \in Starts
  PROVE  CurSector(x, s) = [i \in 1 .. Len(x.l1) |-> At(x, s, i)]
<1> DEFINE n == Len(x.l1)
           Rec(q) == q = [i \in 1 .. Len(x.l1) |->
                            IF i = 1 THEN s ELSE q[i - 1] + L2Len(x, s, q[i - 1])]
           f == [i \in 1 .. n |-> At(x, s, i)]
           cur == CHOOSE q : Rec(q)
<1>1. n \in Nat
  BY PlainHeader
<1>2. At(x, s, 1) = s
  <2>1. x.l2_len * (1 - 1) = 0
    BY PlainHeader
  <2> QED
    BY <2>1, PlainHeader DEF At
<1>3. ASSUME NEW i \in 2 .. n
      PROVE  At(x, s, i) = At(x, s, i - 1) + L2Len(x, s, At(x, s, i - 1))
  <2>1. PICK k \in Nat \ {0} : i = k + 1 /\ k = i - 1
    BY <1>1
  <2>2. At(x, s, k + 1) = At(x, s, k) + L2Len(x, s, At(x, s, k))
    BY NextPlace DEF Entries
  <2> QED
    BY <2>1, <2>2
<1>4. Rec(f)
  <2>1. ASSUME NEW i \in 1 .. n
        PROVE  f[i] = IF i = 1 THEN s ELSE f[i - 1] + L2Len(x, s, f[i - 1])
    <3>1. CASE i = 1
      BY <1>2, <3>1
    <3>2. CASE i # 1
      <4>1. i \in 2 .. n /\ i - 1 \in 1 .. n
        BY <1>1, <3>2
      <4>2. f[i] = At(x, s, i) /\ f[i - 1] = At(x, s, i - 1)
        BY <4>1
      <4> HIDE DEF f
      <4> QED
        BY <1>3, <3>2, <4>1, <4>2
    <3> QED
      BY <3>1, <3>2
  <2>2. f = [i \in 1 .. n |-> f[i]]
    OBVIOUS
  <2> HIDE DEF f
  <2> QED
    BY <2>1, <2>2
<1>5. Rec(cur)
  <2> HIDE DEF Rec, f
  <2> QED
    BY <1>4
<1> HIDE DEF cur
<1> DEFINE T == {i \in 1 .. n : cur[i] = At(x, s, i)}
<1>6. \A i \in 1 .. n : i \in T
  <2>1. ASSUME n >= 1
        PROVE  1 \in T
    BY <1>1, <1>2, <1>5, <2>1
  <2>2. ASSUME NEW i \in 1 + 1 .. n, i - 1 \in T
        PROVE  i \in T
    <3>1. i \in 2 .. n /\ i \in 1 .. n /\ i # 1
      BY <1>1
    <3>2. cur[i] = cur[i - 1] + L2Len(x, s, cur[i - 1])
      BY <1>5, <3>1
    <3> QED
      BY <1>3, <2>2, <3>1, <3>2
  <2>3. CASE n >= 1
    <3> HIDE DEF T, n
    <3> QED
      BY <1>1, <2>1, <2>2, <2>3, IntervalInduction
  <2>4. CASE ~(n >= 1)
    BY <1>1, <2>4
  <2> QED
    BY <2>3, <2>4
<1>7. cur = [i \in 1 .. n |-> cur[i]]
  BY <1>5
<1>8. CurSector(x, s) = cur
  BY DEF CurSector, cur
<1> QED
  BY <1>6, <1>7, <1>8

\* A key tells the table and the entry that it is of.
LEMMA KeyIsOf ==
  ASSUME NEW x \in Headers, NEW s \in Starts, NEW i \in Nat \ {0},
         NEW b \in Nat, b < Entries(x, s, i)
  PROVE  /\ ((At(x, s, i) + b) - s) \div x.l2_len + 1 = i
         /\ (((At(x, s, i) + b) - s) % x.l2_len) + 1 = b + 1
<1> DEFINE q == i - 1
           l == x.l2_len
<1>1. q \in Nat /\ l \in Nat \ {0} /\ s \in Nat /\ l * q \in Nat
  BY PlainHeader
<1>2. Entries(x, s, i) \in 0 .. l /\ At(x, s, i) = s + l * q
  <2>1. Entries(x, s, i) # 0
    BY <1>1, NextPlace
  <2> QED
    BY <2>1, NextPlace
<1>3. b \in 0 .. l - 1
  BY <1>1, <1>2
<1>4. (At(x, s, i) + b) - s = l * q + b /\ q + 1 = i
  <2> HIDE DEF l
  <2>1. PICK m \in Nat : m = l * q
    BY <1>1
  <2>2. (At(x, s, i) + b) - s = m + b
    BY <1>1, <1>2, <2>1
  <2> QED
    BY <2>1, <2>2
<1> HIDE DEF q, l
<1>5. (l * q + b) \div l = q /\ (l * q + b) % l = b
  BY <1>1, <1>3, DivModOf
<1> QED
  BY <1>4, <1>5 DEF l

\* Each key of the tables so far is of one of them.
LEMMA EveryKey ==
  ASSUME NEW x \in Headers, NEW s \in Starts, NEW m \in Nat \ {0},
         NEW k \in s .. At(x, s, m) - 1
  PROVE  \E i \in 1 .. m - 1, b \in Nat : b < Entries(x, s, i) /\ k = At(x, s, i) + b
<1> DEFINE l == x.l2_len
           q == (k - s) \div l
           b == (k - s) % l
<1>1. /\ l \in Nat \ {0} /\ s \in Nat /\ x.sectors \in Nat
      /\ At(x, s, m) \in s .. s + x.sectors /\ l * (m - 1) \in Nat
      /\ At(x, s, m) <= s + l * (m - 1)
  <2>1. /\ l \in Nat \ {0} /\ s \in Nat /\ x.sectors \in Nat
        /\ At(x, s, m) \in s .. s + x.sectors
    BY PlainHeader, NextPlace
  <2>2. l * (m - 1) \in Nat
    BY PlainHeader
  <2>3. PICK y \in Nat : y = l * (m - 1)
    BY <2>2
  <2>4. At(x, s, m) = IF y <= x.sectors THEN s + y ELSE s + x.sectors
    BY <2>3 DEF At
  <2>5. At(x, s, m) <= s + y
    BY <2>1, <2>4
  <2> QED
    BY <2>1, <2>3, <2>5
<1>2. k - s \in Nat /\ k - s < x.sectors /\ k - s < l * (m - 1) /\ k \in Nat
  BY <1>1
<1> HIDE DEF l
<1>3. q \in Nat /\ b \in 0 .. l - 1 /\ k - s = l * q + b
  BY <1>1, <1>2
<1> HIDE DEF q, b
<1>4. q < m - 1
  <2>1. l * q < l * (m - 1)
    <3>1. PICK y \in Nat : y = l * q
      BY <1>1, <1>3
    <3>2. PICK z \in Nat : z = l * (m - 1)
      BY <1>1
    <3> QED
      BY <1>2, <1>3, <3>1, <3>2
  <2>2. ASSUME q >= m - 1
        PROVE  FALSE
    <3>1. q * l >= (m - 1) * l
      BY <1>1, <1>3, <2>2, TimesGrows
    <3>2. q * l = l * q /\ (m - 1) * l = l * (m - 1)
      BY <1>1, <1>3
    <3>3. PICK y \in Nat, z \in Nat : y = l * q /\ z = l * (m - 1)
      BY <1>1, <1>3
    <3> QED
      BY <2>1, <3>1, <3>2, <3>3
  <2> QED
    BY <1>3, <2>2
<1> DEFINE i == q + 1
<1>5. i \in 1 .. m - 1 /\ i \in Nat \ {0} /\ i - 1 = q
  BY <1>3, <1>4
<1> HIDE DEF i
<1>6. At(x, s, i) = s + l * q
  <2>1. PICK y \in Nat : y = l * q
    BY <1>1, <1>3
  <2>2. l * q <= x.sectors
    BY <1>1, <1>2, <1>3, <2>1
  <2> QED
    BY <1>5, <2>2 DEF At, l
<1>7. k = At(x, s, i) + b
  <2>1. PICK y \in Nat : y = l * q
    BY <1>1, <1>3
  <2> QED
    BY <1>1, <1>2, <1>3, <1>6, <2>1
<1>8. b < Entries(x, s, i)
  <2>1. Entries(x, s, i) = IF l <= x.sectors - (At(x, s, i) - s)
                             THEN l ELSE x.sectors - (At(x, s, i) - s)
    <3>1. l \in Int /\ x.sectors - (At(x, s, i) - s) \in Int
      BY <1>1, <1>5, NextPlace
    <3> QED
      BY <3>1, MinOfTwo DEF Entries, L2Len, l
  <2>2. At(x, s, i) \in s .. s + x.sectors
    BY <1>5, NextPlace
  <2>3. b < x.sectors - (At(x, s, i) - s)
    BY <1>1, <1>2, <1>3, <1>7, <2>2
  <2> QED
    BY <1>1, <1>3, <2>1, <2>2, <2>3
<1> QED
  BY <1>3, <1>5, <1>7, <1>8

\* Tables come one after the other.
LEMMA PlacesGrow ==
  ASSUME NEW x \in Headers, NEW s \in Starts, NEW i \in Nat \ {0}, NEW m \in Nat, i <= m
  PROVE  At(x, s, i) <= At(x, s, m)
<1> DEFINE l == x.l2_len
<1>1. l \in Nat \ {0} /\ s \in Nat /\ x.sectors \in Nat
  BY PlainHeader
<1>2. l * (i - 1) <= l * (m - 1) /\ l * (i - 1) \in Nat /\ l * (m - 1) \in Nat
  <2> HIDE DEF l
  <2>1. /\ (m - 1) * l >= (i - 1) * l
        /\ (i - 1) * l = l * (i - 1) /\ (m - 1) * l = l * (m - 1)
        /\ l * (i - 1) \in Nat /\ l * (m - 1) \in Nat
    BY <1>1, TimesGrows
  <2>2. PICK y \in Nat, z \in Nat : y = l * (i - 1) /\ z = l * (m - 1)
    BY <2>1
  <2> QED
    BY <2>1, <2>2
<1> QED
  BY <1>1, <1>2 DEF At

\* What Collect has: the entries that are read and not absent, each under its key.
LEMMA Collected ==
  ASSUME NEW x \in Headers, NEW s \in Starts, NEW l2, DOMAIN l2 \subseteq DOMAIN x.l1,
         NEW absent, NEW t, t = Collect(x, s, l2, absent)
  PROVE  /\ t = [k \in DOMAIN t |-> t[k]]
         /\ \A k \in DOMAIN t : \E i \in DOMAIN l2, b \in Nat :
              b < Entries(x, s, i) /\ l2[i][b + 1] # absent /\ k = At(x, s, i) + b
         /\ \A i \in DOMAIN l2, b \in Nat :
              b < Entries(x, s, i) /\ l2[i][b + 1] # absent =>
                At(x, s, i) + b \in DOMAIN t /\ t[At(x, s, i) + b] = l2[i][b + 1]
<1> DEFINE found == {p \in (DOMAIN l2) \X (0 .. x.l2_len - 1) :
                       /\ p[2] < L2Len(x, s, CurSector(x, s)[p[1]])
                       /\ l2[p[1]][p[2] + 1] # absent}
           Key(p) == CurSector(x, s)[p[1]] + p[2]
<1>1. t = [k \in {Key(p) : p \in found} |->
             LET p == CHOOSE q \in found : Key(q) = k IN l2[p[1]][p[2] + 1]]
  BY DEF Collect
<1>2. \A i \in DOMAIN l2 : i \in Nat \ {0} /\ CurSector(x, s)[i] = At(x, s, i)
  BY PlainHeader, CursorAt
<1>3. \A i \in DOMAIN l2 : Entries(x, s, i) \in 0 .. x.l2_len /\ x.l2_len \in Nat
  BY <1>2, NextPlace, PlainHeader
<1>4. \A p \in found : /\ p[1] \in DOMAIN l2 /\ p[2] \in Nat
                       /\ p[2] < Entries(x, s, p[1]) /\ l2[p[1]][p[2] + 1] # absent
                       /\ Key(p) = At(x, s, p[1]) + p[2] /\ p = <<p[1], p[2]>>
  BY <1>2, <1>3 DEF Entries
<1>5. ASSUME NEW i \in DOMAIN l2, NEW b \in Nat, b < Entries(x, s, i), l2[i][b + 1] # absent
      PROVE  <<i, b>> \in found /\ Key(<<i, b>>) = At(x, s, i) + b
  <2>1. b \in 0 .. x.l2_len - 1
    BY <1>3, <1>5
  <2> QED
    BY <1>2, <1>5, <2>1 DEF Entries
<1>6. ASSUME NEW p \in found, NEW q \in found, Key(p) = Key(q)
      PROVE  p = q
  <2>1. /\ ((Key(p) - s) \div x.l2_len) + 1 = p[1] /\ ((Key(p) - s) % x.l2_len) + 1 = p[2] + 1
        /\ ((Key(q) - s) \div x.l2_len) + 1 = q[1] /\ ((Key(q) - s) % x.l2_len) + 1 = q[2] + 1
    <3> HIDE DEF found, Key
    <3> QED
      BY <1>2, <1>4, KeyIsOf
  <2>2. p[1] = q[1] /\ p[2] + 1 = q[2] + 1 /\ p[2] \in Nat /\ q[2] \in Nat
    <3> HIDE DEF found, Key
    <3> QED
      BY <1>4, <1>6, <2>1
  <2> HIDE DEF found, Key
  <2> QED
    BY <1>4, <2>2
<1> HIDE DEF found, Key
<1>7. \A k \in DOMAIN t : \E i \in DOMAIN l2, b \in Nat :
        b < Entries(x, s, i) /\ l2[i][b + 1] # absent /\ k = At(x, s, i) + b
  <2> SUFFICES ASSUME NEW p \in found
               PROVE  \E i \in DOMAIN l2, b \in Nat :
                        b < Entries(x, s, i) /\ l2[i][b + 1] # absent /\ Key(p) = At(x, s, i) + b
    BY <1>1
  <2> QED
    BY <1>4
<1>8. ASSUME NEW i \in DOMAIN l2, NEW b \in Nat, b < Entries(x, s, i), l2[i][b + 1] # absent
      PROVE  At(x, s, i) + b \in DOMAIN t /\ t[At(x, s, i) + b] = l2[i][b + 1]
  <2> DEFINE p == <<i, b>>
             o == CHOOSE q \in found : Key(q) = Key(p)
  <2>1. p \in found /\ Key(p) = At(x, s, i) + b
    BY <1>5, <1>8
  <2>2. p[1] = i /\ p[2] = b
    OBVIOUS
  <2> HIDE DEF p
  <2>3. o \in found /\ Key(o) = Key(p)
    BY <2>1
  <2>4. o = p
    BY <1>6, <2>1, <2>3
  <2>5. Key(p) \in DOMAIN t /\ t[Key(p)] = l2[o[1]][o[2] + 1]
    BY <1>1, <2>1
  <2> QED
    BY <2>1, <2>2, <2>4, <2>5
<1> QED
  BY <1>1, <1>7, <1>8

-----------------------------------------------------------------------------
(***************************************************************************)
(* The loops build the table.                                              *)
(***************************************************************************)

\* what the loop asks of a level-1 entry and its table to go on
EntryOK(x, s, i) ==
  LET n == Entries(x, s, i)
      l2 == x.tables[x.l1[i].index + 1]
  IN  IF "tables" \in DOMAIN x
        THEN x.l1[i] # NoEntry =>
               /\ ~BadL1(x, x.l1[i])
               /\ Len(l2) >= n
               /\ \A b \in 0 .. n - 1 : ~BadL2(l2[b + 1])
        ELSE x.l1[i] # <<>> => Len(x.l1[i]) >= n

\* the entries before the m-th have been gone through
Passed(x, s, m) == \A i \in 1 .. m - 1 : At(x, s, i) # s + x.sectors /\ EntryOK(x, s, i)

\* none of those from the m-th on is looked at
Through(x, s, m) == m \notin DOMAIN x.l1 \/ At(x, s, m) = s + x.sectors

\* t has the entries of the tables before the m-th that the file has, and only them
HasStored(x, s, m, t) ==
  /\ t = [k \in DOMAIN t |-> t[k]]
  /\ DOMAIN t \subseteq s .. At(x, s, m) - 1
  /\ \A k \in s .. At(x, s, m) - 1 :
       IF Stored(x, k - s) = 0
         THEN k \notin DOMAIN t
         ELSE k \in DOMAIN t /\ t[k] = Stored(x, k - s)

\* An entry that is read is of a table before the m-th.
LEMMA ReadBefore ==
  ASSUME NEW x \in Headers, NEW s \in Starts, NEW m \in 1 .. Len(x.l1) + 1, Through(x, s, m),
         NEW i \in DOMAIN x.l1, NEW b \in Nat, b < Entries(x, s, i)
  PROVE  /\ i \in 1 .. m - 1
         /\ At(x, s, i) + b \in s .. At(x, s, m) - 1
<1>1. m \in Nat \ {0} /\ i \in Nat \ {0} /\ DOMAIN x.l1 = 1 .. Len(x.l1) /\ Len(x.l1) \in Nat
  BY PlainHeader
<1>2. /\ At(x, s, i) \in s .. s + x.sectors /\ s \in Nat /\ x.sectors \in Nat
      /\ At(x, s, i + 1) = At(x, s, i) + Entries(x, s, i)
      /\ Entries(x, s, i) \in Nat /\ Entries(x, s, i) # 0 /\ At(x, s, i) # s + x.sectors
      /\ At(x, s, m) \in s .. s + x.sectors
  <2>1. Entries(x, s, i) \in Nat /\ Entries(x, s, i) # 0
    <3>1. Entries(x, s, i) \in Nat
      BY <1>1, NextPlace
    <3> QED
      BY <3>1
  <2> QED
    BY <1>1, <2>1, NextPlace, PlainHeader
<1>3. i < m
  <2>1. ASSUME m <= i
        PROVE  FALSE
    <3>1. At(x, s, m) = s + x.sectors
      BY <1>1, <2>1 DEF Through
    <3>2. At(x, s, m) <= At(x, s, i)
      BY <1>1, <2>1, PlacesGrow
    <3> QED
      BY <1>2, <3>1, <3>2
  <2> QED
    BY <1>1, <2>1
<1>4. At(x, s, i + 1) <= At(x, s, m)
  <2>1. i + 1 \in Nat \ {0} /\ i + 1 <= m
    BY <1>1, <1>3
  <2> QED
    BY <1>1, <2>1, PlacesGrow
<1> QED
  BY <1>1, <1>2, <1>3, <1>4

\* read_grain_table_sparse comes to the end of the loop, or fails.
LEMMA SparseComplete ==
  ASSUME NEW x \in Headers, NEW s \in Starts, "tables" \notin DOMAIN x
  PROVE  L2Complete(x, s, L2(x))
           <=> \A i \in DOMAIN x.l1 : x.l1[i] # <<>> => Len(x.l1[i]) >= Entries(x, s, i)
<1>1. DOMAIN x.l1 = 1 .. Len(x.l1)
  BY PlainHeader
<1>2. \A i \in DOMAIN x.l1 : Entries(x, s, i) = L2Len(x, s, CurSector(x, s)[i])
  BY <1>1, CursorAt DEF Entries
<1>3. DOMAIN L2(x) = {i \in DOMAIN x.l1 : x.l1[i] # <<>>}
  BY DEF L2
<1>4. \A i \in DOMAIN L2(x) : L2(x)[i] = x.l1[i]
  BY DEF L2
<1> QED
  BY <1>2, <1>3, <1>4 DEF L2Complete

LEMMA SparseRefused ==
  ASSUME NEW x \in Headers, NEW s \in Starts, "tables" \notin DOMAIN x,
         NEW m \in DOMAIN x.l1, ~EntryOK(x, s, m)
  PROVE  ~SparseTable(x, s).ok
<1>1. x.l1[m] # <<>> /\ ~(Len(x.l1[m]) >= Entries(x, s, m))
  BY DEF EntryOK
<1>2. ~L2Complete(x, s, L2(x))
  BY <1>1, SparseComplete
<1> QED
  BY <1>2 DEF SparseTable

LEMMA SparseBuilt ==
  ASSUME NEW x \in Headers, NEW s \in Starts, "tables" \notin DOMAIN x,
         NEW m \in 1 .. Len(x.l1) + 1, Passed(x, s, m), Through(x, s, m),
         L1There(x), NEW t, HasStored(x, s, m, t)
  PROVE  SparseTable(x, s).ok /\ t = SparseTable(x, s).table
<1> DEFINE l2 == L2(x)
           col == Collect(x, s, l2, 0)
<1>1. DOMAIN x.l1 = 1 .. Len(x.l1) /\ Len(x.l1) \in Nat /\ m \in Nat \ {0}
  BY PlainHeader
<1>2. \A i \in DOMAIN l2 : i \in DOMAIN x.l1 /\ x.l1[i] # <<>> /\ l2[i] = x.l1[i]
  BY DEF L2
<1>3. \A i \in DOMAIN x.l1 : x.l1[i] # <<>> => i \in DOMAIN l2
  BY DEF L2
<1>4. L2Complete(x, s, l2)
  <2> SUFFICES ASSUME NEW i \in DOMAIN x.l1, x.l1[i] # <<>>
               PROVE  Len(x.l1[i]) >= Entries(x, s, i)
    BY SparseComplete
  <2>1. CASE i \in 1 .. m - 1
    BY <2>1 DEF Passed, EntryOK
  <2>2. CASE i \notin 1 .. m - 1
    <3>1. i \in Nat \ {0}
      BY <1>1
    <3>2. Entries(x, s, i) \in Nat
      BY <3>1, NextPlace, PlainHeader
    <3>3. ~(0 < Entries(x, s, i))
      BY <2>2, ReadBefore
    <3>4. Len(x.l1[i]) \in Nat
      <4>1. x.l1 \in Seq(Seq(Nat))
        BY HeadersAssumption
      <4>2. x.l1[i] \in Seq(Nat)
        BY <4>1
      <4> QED
        BY <4>2
    <3> QED
      BY <3>2, <3>3, <3>4
  <2> QED
    BY <2>1, <2>2
<1>5. SparseTable(x, s).ok /\ SparseTable(x, s).table = col
  BY <1>4 DEF SparseTable
<1> HIDE DEF l2
<1>6. DOMAIN l2 \subseteq DOMAIN x.l1
  BY <1>2
<1>7. /\ col = [k \in DOMAIN col |-> col[k]]
      /\ \A k \in DOMAIN col : \E i \in DOMAIN l2, b \in Nat :
           b < Entries(x, s, i) /\ l2[i][b + 1] # 0 /\ k = At(x, s, i) + b
      /\ \A i \in DOMAIN l2, b \in Nat :
           b < Entries(x, s, i) /\ l2[i][b + 1] # 0 =>
             At(x, s, i) + b \in DOMAIN col /\ col[At(x, s, i) + b] = l2[i][b + 1]
  BY <1>6, Collected
<1> HIDE DEF col
<1>8. ASSUME NEW i \in DOMAIN x.l1, NEW b \in Nat, b < Entries(x, s, i)
      PROVE  Stored(x, (At(x, s, i) + b) - s) = IF x.l1[i] = <<>> THEN 0 ELSE x.l1[i][b + 1]
  BY <1>1, <1>8, KeyIsOf DEF Stored
<1>9. ASSUME NEW k \in DOMAIN t
      PROVE  k \in DOMAIN col /\ col[k] = t[k]
  <2>1. k \in s .. At(x, s, m) - 1 /\ Stored(x, k - s) # 0 /\ t[k] = Stored(x, k - s)
    BY DEF HasStored
  <2>2. PICK i \in 1 .. m - 1, b \in Nat : b < Entries(x, s, i) /\ k = At(x, s, i) + b
    BY <1>1, <2>1, EveryKey
  <2>3. i \in DOMAIN x.l1
    BY <1>1
  <2>4. x.l1[i] # <<>> /\ x.l1[i][b + 1] # 0 /\ Stored(x, k - s) = x.l1[i][b + 1]
    BY <1>8, <2>1, <2>2, <2>3
  <2> QED
    BY <1>2, <1>3, <1>7, <2>1, <2>2, <2>3, <2>4
<1>10. ASSUME NEW k \in DOMAIN col
       PROVE  k \in DOMAIN t
  <2>1. PICK i \in DOMAIN l2, b \in Nat :
          b < Entries(x, s, i) /\ l2[i][b + 1] # 0 /\ k = At(x, s, i) + b
    BY <1>7
  <2>2. Stored(x, k - s) # 0
    BY <1>2, <1>8, <2>1
  <2>3. k \in s .. At(x, s, m) - 1
    BY <1>2, <2>1, ReadBefore
  <2> QED
    BY <2>2, <2>3 DEF HasStored
<1>11. t = [k \in DOMAIN t |-> t[k]] /\ DOMAIN t = DOMAIN col
  BY <1>9, <1>10 DEF HasStored
<1>12. t = col
  BY <1>7, <1>9, <1>11
<1> QED
  BY <1>5, <1>12

\* read_grain_table_sesparse likewise: its level-1 entries that are looked at, ...
LEMMA SeReached ==
  ASSUME NEW x \in Headers, NEW s \in Starts
  PROVE  /\ Reached(x, s) \subseteq DOMAIN x.l1
         /\ \A i \in DOMAIN x.l1 : i \in Reached(x, s) <=> At(x, s, i) # s + x.sectors
         /\ DOMAIN SeL2(x, s) = {i \in Reached(x, s) : x.l1[i] # NoEntry}
         /\ \A i \in DOMAIN SeL2(x, s) : SeL2(x, s)[i] = x.tables[x.l1[i].index + 1]
         /\ \A i \in Reached(x, s) : Entries(x, s, i) = L2Len(x, s, CurSector(x, s)[i])
<1>1. DOMAIN x.l1 = 1 .. Len(x.l1)
  BY PlainHeader
<1>2. \A i \in DOMAIN x.l1 : CurSector(x, s)[i] = At(x, s, i)
  BY <1>1, CursorAt
<1> QED
  BY <1>2 DEF Reached, SeL2, Entries

\* ... the one at which the loop fails, ...
LEMMA SeRefused ==
  ASSUME NEW x \in Headers, NEW s \in Starts, "tables" \in DOMAIN x,
         NEW m \in DOMAIN x.l1, At(x, s, m) # s + x.sectors, ~EntryOK(x, s, m)
  PROVE  ~SeSparseTable(x, s).ok
<1> DEFINE l2 == SeL2(x, s)
           col == Collect(x, s, l2, NoEntry)
<1>1. m \in Reached(x, s) /\ x.l1[m] # NoEntry /\ m \in DOMAIN l2
      /\ l2[m] = x.tables[x.l1[m].index + 1]
  BY SeReached DEF EntryOK
<1>2. CASE BadL1(x, x.l1[m])
  BY <1>1, <1>2 DEF SeSparseTable
<1>3. CASE ~(Len(l2[m]) >= Entries(x, s, m))
  <2>1. ~L2Complete(x, s, l2)
    BY <1>1, <1>3, SeReached DEF L2Complete
  <2> QED
    BY <2>1 DEF SeSparseTable
<1>4. CASE \E b \in 0 .. Entries(x, s, m) - 1 : BadL2(l2[m][b + 1])
  <2>1. PICK b \in 0 .. Entries(x, s, m) - 1 : BadL2(l2[m][b + 1])
    BY <1>4
  <2>2. Entries(x, s, m) \in Nat
    <3>1. m \in Nat \ {0}
      BY PlainHeader
    <3> QED
      BY <3>1, NextPlace
  <2>3. b \in Nat /\ b < Entries(x, s, m) /\ l2[m][b + 1] # NoEntry
    BY <2>1, <2>2 DEF BadL2
  <2>4. DOMAIN l2 \subseteq DOMAIN x.l1
    BY SeReached
  <2> HIDE DEF l2
  <2>5. At(x, s, m) + b \in DOMAIN col /\ col[At(x, s, m) + b] = l2[m][b + 1]
    BY <1>1, <2>3, <2>4, Collected
  <2>6. \E k \in DOMAIN col : BadL2(col[k])
    BY <2>1, <2>5
  <2> QED
    BY <2>6 DEF SeSparseTable, l2
<1> QED
  BY <1>1, <1>2, <1>3, <1>4 DEF EntryOK

\* ... what it has read, ...
LEMMA SeRead ==
  ASSUME NEW x \in Headers, NEW s \in Starts, "tables" \in DOMAIN x,
         NEW i \in DOMAIN x.l1, x.l1[i] # NoEntry, EntryOK(x, s, i),
         NEW b \in Nat, b < Entries(x, s, i)
  PROVE  LET e == x.tables[x.l1[i].index + 1][b + 1]
         IN  /\ e \in SeEntries
             /\ ~BadL2(e)
             /\ Stored(x, (At(x, s, i) + b) - s) = SeStored(x, e)
<1> DEFINE l2 == x.tables[x.l1[i].index + 1]
<1>1. /\ ~BadL1(x, x.l1[i]) /\ Len(l2) >= Entries(x, s, i)
      /\ \A a \in 0 .. Entries(x, s, i) - 1 : ~BadL2(l2[a + 1])
  BY DEF EntryOK
<1>2. x.tables \in Seq(Seq(SeEntries)) /\ x.l1 \in Seq(SeEntries) /\ i \in Nat \ {0}
  BY HeadersAssumption, PlainHeader
<1>3. x.l1[i].index \in Nat /\ Len(x.tables) \in Nat
  <2>1. x.l1[i] \in SeEntries
    BY <1>2
  <2> QED
    BY <1>2, <2>1 DEF SeEntries
<1>4. x.l1[i].index + 1 \in 1 .. Len(x.tables)
  BY <1>1, <1>3 DEF BadL1
<1>5. l2 \in Seq(SeEntries)
  BY <1>2, <1>4
<1>6. Entries(x, s, i) \in Nat
  BY <1>2, NextPlace, PlainHeader
<1> HIDE DEF l2
<1>7. b \in 0 .. Entries(x, s, i) - 1 /\ b + 1 \in 1 .. Len(l2)
  BY <1>1, <1>5, <1>6
<1>8. l2[b + 1] \in SeEntries /\ ~BadL2(l2[b + 1])
  BY <1>1, <1>5, <1>7
<1>9. Stored(x, (At(x, s, i) + b) - s) = SeStored(x, l2[b + 1])
  BY <1>2, KeyIsOf DEF Stored, l2
<1> QED
  BY <1>8, <1>9 DEF l2

\* ... and what it has built at its end.
LEMMA SeBuilt ==
  ASSUME NEW x \in Headers, NEW s \in Starts, "tables" \in DOMAIN x,
         NEW m \in 1 .. Len(x.l1) + 1, Passed(x, s, m), Through(x, s, m),
         L1There(x), NEW t, HasStored(x, s, m, t)
  PROVE  SeSparseTable(x, s).ok /\ t = SeSparseTable(x, s).table
<1> DEFINE l2 == SeL2(x, s)
           col == Collect(x, s, l2, NoEntry)
           g == [k \in DOMAIN col |-> SeGrain(x, col[k])]
<1>1. DOMAIN x.l1 = 1 .. Len(x.l1) /\ Len(x.l1) \in Nat /\ m \in Nat \ {0}
  BY PlainHeader
<1>2. ASSUME NEW i \in Reached(x, s)
      PROVE  i \in 1 .. m - 1 /\ EntryOK(x, s, i)
  <2>1. i \in DOMAIN x.l1 /\ i \in Nat \ {0} /\ At(x, s, i) # s + x.sectors
    <3>1. i \in DOMAIN x.l1 /\ At(x, s, i) # s + x.sectors
      BY SeReached
    <3> QED
      BY <1>1, <3>1
  <2>2. Entries(x, s, i) \in Nat /\ Entries(x, s, i) # 0
    BY <2>1, NextPlace
  <2>3. i \in 1 .. m - 1
    BY <2>1, <2>2, ReadBefore
  <2> QED
    BY <2>3 DEF Passed
<1>3. \A i \in DOMAIN l2 : /\ i \in Reached(x, s) /\ i \in DOMAIN x.l1 /\ x.l1[i] # NoEntry
                           /\ l2[i] = x.tables[x.l1[i].index + 1]
  BY SeReached
<1>4. ASSUME NEW i \in 1 .. m - 1, x.l1[i] # NoEntry
      PROVE  i \in DOMAIN l2
  <2>1. i \in DOMAIN x.l1 /\ At(x, s, i) # s + x.sectors
    BY <1>1 DEF Passed
  <2>2. i \in Reached(x, s)
    BY <2>1, SeReached
  <2> QED
    BY <1>4, <2>2, SeReached
<1>5. ~ \E i \in Reached(x, s) : BadL1(x, x.l1[i])
  BY <1>2 DEF EntryOK, BadL1
<1>6. L2Complete(x, s, l2)
  BY <1>2, <1>3, SeReached DEF L2Complete, EntryOK
<1> HIDE DEF l2
<1>7. /\ col = [k \in DOMAIN col |-> col[k]]
      /\ \A k \in DOMAIN col : \E i \in DOMAIN l2, b \in Nat :
           b < Entries(x, s, i) /\ l2[i][b + 1] # NoEntry /\ k = At(x, s, i) + b
      /\ \A i \in DOMAIN l2, b \in Nat :
           b < Entries(x, s, i) /\ l2[i][b + 1] # NoEntry =>
             At(x, s, i) + b \in DOMAIN col /\ col[At(x, s, i) + b] = l2[i][b + 1]
  <2>1. DOMAIN l2 \subseteq DOMAIN x.l1
    BY <1>3
  <2> HIDE DEF col
  <2> QED
    BY <2>1, Collected DEF col
<1> HIDE DEF col
<1>8. ASSUME NEW k \in DOMAIN col
      PROVE  /\ col[k] \in SeEntries /\ col[k] # NoEntry /\ ~BadL2(col[k])
             /\ Stored(x, k - s) = SeStored(x, col[k])
             /\ k \in s .. At(x, s, m) - 1
  <2>1. PICK i \in DOMAIN l2, b \in Nat :
          b < Entries(x, s, i) /\ l2[i][b + 1] # NoEntry /\ k = At(x, s, i) + b
    BY <1>7
  <2>2. col[k] = l2[i][b + 1]
    BY <1>7, <2>1
  <2>3. i \in DOMAIN x.l1 /\ EntryOK(x, s, i)
    BY <1>2, <1>3
  <2>4. k \in s .. At(x, s, m) - 1
    BY <2>1, <2>3, ReadBefore
  <2> QED
    BY <1>3, <2>1, <2>2, <2>3, <2>4, SeRead
<1>9. ASSUME NEW k \in DOMAIN col
      PROVE  k \in DOMAIN t /\ t[k] = SeGrain(x, col[k])
  <2>1. SeStored(x, col[k]) = SeGrain(x, col[k]) /\ SeStored(x, col[k]) # 0
    BY <1>8, SeGrainStored
  <2> QED
    BY <1>8, <2>1 DEF HasStored
<1>10. ASSUME NEW k \in DOMAIN t
       PROVE  k \in DOMAIN col
  <2>1. k \in s .. At(x, s, m) - 1 /\ Stored(x, k - s) # 0
    BY DEF HasStored
  <2>2. PICK i \in 1 .. m - 1, b \in Nat : b < Entries(x, s, i) /\ k = At(x, s, i) + b
    BY <1>1, <2>1, EveryKey
  <2>3. i \in DOMAIN x.l1 /\ i \in Nat \ {0} /\ EntryOK(x, s, i)
    BY <1>1 DEF Passed
  <2>4. x.l1[i] # NoEntry
    BY <2>1, <2>2, <2>3, KeyIsOf DEF Stored
  <2>5. i \in DOMAIN l2 /\ l2[i] = x.tables[x.l1[i].index + 1]
    BY <1>3, <1>4, <2>4
  <2>6. l2[i][b + 1] # NoEntry
    <3>1. l2[i][b + 1] \in SeEntries /\ ~BadL2(l2[i][b + 1])
          /\ Stored(x, k - s) = SeStored(x, l2[i][b + 1])
      BY <2>2, <2>3, <2>4, <2>5, SeRead
    <3> QED
      BY <2>1, <3>1, SeGrainStored
  <2> QED
    BY <1>7, <2>2, <2>5, <2>6
<1>11. SeSparseTable(x, s).ok /\ SeSparseTable(x, s).table = g
  <2>1. ~ \E k \in DOMAIN col : BadL2(col[k])
    BY <1>8
  <2> QED
    BY <1>5, <1>6, <2>1 DEF SeSparseTable, l2, col
<1>12. t = g
  <2>1. t = [k \in DOMAIN t |-> t[k]] /\ DOMAIN t = DOMAIN col
    BY <1>9, <1>10 DEF HasStored
  <2> QED
    BY <1>9, <2>1
<1> QED
  BY <1>11, <1>12

-----------------------------------------------------------------------------
\* Where the loop is among the entries, and why it has stopped if it has failed.
BuiltInv ==
  /\ grain_table = [k \in DOMAIN grain_table |-> grain_table[k]]
  /\ Passed(h, start_sector, j)
  /\ result \in {"loop", "ok"} => L1There(h)
  /\ result = "error" => \/ ~L1There(h)
                         \/ /\ j \in DOMAIN h.l1 /\ cur_sector # end_sector
                            /\ ~EntryOK(h, start_sector, j)

LEMMA PlaceIsAt ==
  ASSUME PlaceInv
  PROVE  /\ h \in Headers /\ start_sector \in Starts
         /\ cur_sector = At(h, start_sector, j)
         /\ l2_len = Entries(h, start_sector, j)
         /\ end_sector = start_sector + h.sectors
BY DEF PlaceInv, At, Entries, L2Len, l2_len, Before, end_sector

\* An iteration that goes on has looked at one more entry, which is sound.
LEMMA PassedOn ==
  ASSUME PlaceInv, InLoop, Passed(h, start_sector, j), EntryOK(h, start_sector, j),
         Advance, UNCHANGED <<h, start_sector>>
  PROVE  Passed(h, start_sector, j)'
<1>1. j' = j + 1 /\ j \in Nat \ {0} /\ h' = h /\ start_sector' = start_sector
  BY HeaderTypes DEF Advance
<1>2. At(h, start_sector, j) # start_sector + h.sectors
  BY PlaceIsAt DEF InLoop
<1>3. ASSUME NEW i \in 1 .. j
      PROVE  At(h, start_sector, i) # start_sector + h.sectors /\ EntryOK(h, start_sector, i)
  BY <1>1, <1>2, <1>3 DEF Passed
<1>4. Passed(h, start_sector, j + 1)
  <2>1. 1 .. (j + 1) - 1 = 1 .. j
    BY <1>1
  <2> QED
    BY <1>3, <2>1 DEF Passed
<1> QED
  BY <1>1, <1>4

LEMMA BuiltStop ==
  ASSUME BuiltInv, UNCHANGED <<h, start_sector>>, NEW how, Stop(how),
         how # "error" => L1There(h),
         how = "error" => ~L1There(h) \/ (InLoop /\ ~EntryOK(h, start_sector, j))
  PROVE  BuiltInv'
<1>1. j' = j /\ cur_sector' = cur_sector /\ grain_table' = grain_table /\ result' = how
  BY DEF Stop
<1>2. Passed(h, start_sector, j)' /\ EntryOK(h, start_sector, j)' = EntryOK(h, start_sector, j)
  <2>1. Passed(h, start_sector, j)' = Passed(h, start_sector, j)
    BY <1>1
  <2> QED
    BY <1>1, <2>1 DEF BuiltInv
<1>3. end_sector' = end_sector /\ L1There(h)' = L1There(h)
  BY DEF end_sector, L1There
<1> QED
  BY <1>1, <1>2, <1>3 DEF BuiltInv, InLoop

LEMMA BuiltAdvance ==
  ASSUME PlaceInv, BuiltInv, InLoop, EntryOK(h, start_sector, j), Advance,
         UNCHANGED <<h, start_sector>>,
         grain_table' = [k \in DOMAIN grain_table' |-> grain_table'[k]]
  PROVE  BuiltInv'
<1>1. result' = "loop" /\ L1There(h)'
  BY DEF Advance, InLoop, BuiltInv, L1There
<1>2. Passed(h, start_sector, j)'
  BY PassedOn DEF BuiltInv
<1> QED
  BY <1>1, <1>2 DEF BuiltInv

LEMMA BuiltSparse ==
  ASSUME PlaceInv, BuiltInv, SparseEntry, UNCHANGED <<h, start_sector>>
  PROVE  BuiltInv'
<1>1. InLoop /\ ~IsSe /\ h.l1[j] # <<>> /\ l2_len = Entries(h, start_sector, j)
  BY PlaceIsAt DEF SparseEntry
<1>2. h.l1[j] \in Seq(Nat) /\ Len(h.l1[j]) \in Nat /\ l2_len \in Nat
  <2>1. h.l1 \in Seq(Seq(Nat)) /\ j \in DOMAIN h.l1
    BY <1>1, HeadersAssumption DEF PlaceInv, IsSe, InLoop
  <2>2. h.l1[j] \in Seq(Nat)
    BY <2>1
  <2> QED
    BY <1>1, <2>2, InLoopPlace, HeaderTypes
<1>3. EntryOK(h, start_sector, j) <=> ~(Len(h.l1[j]) < l2_len)
  BY <1>1, <1>2 DEF EntryOK, IsSe
<1>4. CASE Len(h.l1[j]) < l2_len
  BY <1>1, <1>3, <1>4, BuiltStop DEF SparseEntry
<1>5. CASE ~(Len(h.l1[j]) < l2_len)
  <2>1. Advance
    BY <1>5 DEF SparseEntry
  <2>2. grain_table' = [k \in DOMAIN grain_table' |-> grain_table'[k]]
    BY <1>5 DEF SparseEntry
  <2> QED
    BY <1>1, <1>3, <1>5, <2>1, <2>2, BuiltAdvance
<1> QED
  BY <1>4, <1>5

LEMMA BuiltSe ==
  ASSUME PlaceInv, BuiltInv, SeEntry, UNCHANGED <<h, start_sector>>
  PROVE  BuiltInv'
<1> DEFINE l2 == h.tables[h.l1[j].index + 1]
           bad == \E i \in {i \in 0 .. l2_len - 1 : l2[i + 1] # NoEntry} : BadL2(l2[i + 1])
<1>1. InLoop /\ IsSe /\ h.l1[j] # NoEntry /\ l2_len = Entries(h, start_sector, j)
  BY PlaceIsAt DEF SeEntry
<1>2. bad <=> \E i \in 0 .. l2_len - 1 : BadL2(l2[i + 1])
  BY DEF BadL2
<1>3. CASE BadL1(h, h.l1[j])
  <2>1. Stop("error") /\ ~EntryOK(h, start_sector, j)
    BY <1>1, <1>3 DEF SeEntry, EntryOK, IsSe
  <2> QED
    BY <1>1, <2>1, BuiltStop
<1>4. CASE ~BadL1(h, h.l1[j])
  <2>1. Len(l2) \in Nat /\ l2_len \in Nat
    <3>1. h.tables \in Seq(Seq(SeEntries)) /\ h.l1 \in Seq(SeEntries) /\ j \in DOMAIN h.l1
      BY <1>1, HeadersAssumption DEF PlaceInv, IsSe, InLoop
    <3>2. h.l1[j] \in SeEntries
      BY <3>1
    <3>3. h.l1[j].index \in Nat /\ Len(h.tables) \in Nat
      BY <3>1, <3>2 DEF SeEntries
    <3>4. h.l1[j].index + 1 \in 1 .. Len(h.tables)
      BY <1>1, <1>4, <3>3 DEF BadL1
    <3>5. l2 \in Seq(SeEntries)
      BY <3>1, <3>4
    <3>6. l2_len \in 1 .. h.l2_len /\ h.l2_len \in Nat
      BY <1>1, InLoopPlace, HeaderTypes
    <3>7. Len(l2) \in Nat
      BY <3>5
    <3> QED
      BY <3>6, <3>7
  <2>2. EntryOK(h, start_sector, j) <=> ~(Len(l2) < l2_len) /\ ~bad
    BY <1>1, <1>2, <1>4, <2>1 DEF EntryOK, IsSe
  <2>3. CASE Len(l2) < l2_len \/ bad
    <3>1. Stop("error")
      BY <1>4, <2>3 DEF SeEntry
    <3> QED
      BY <1>1, <2>2, <2>3, <3>1, BuiltStop
  <2>4. CASE ~(Len(l2) < l2_len) /\ ~bad
    <3>1. Advance
      BY <1>4, <2>4 DEF SeEntry
    <3>2. grain_table' = [k \in DOMAIN grain_table' |-> grain_table'[k]]
      BY <1>4, <2>4 DEF SeEntry
    <3> QED
      BY <1>1, <2>2, <2>4, <3>1, <3>2, BuiltAdvance
  <2> QED
    BY <2>3, <2>4
<1> QED
  BY <1>3, <1>4

LEMMA AlwaysBuiltInv == LoopSpec => []BuiltInv
<1>1. LoopInit => BuiltInv
  <2> SUFFICES ASSUME LoopInit PROVE BuiltInv
    OBVIOUS
  <2>1. j = 1 /\ result = "l1" /\ grain_table = [k \in {} |-> 0]
    BY DEF LoopInit
  <2>2. grain_table = [k \in DOMAIN grain_table |-> grain_table[k]]
    BY <2>1
  <2>3. Passed(h, start_sector, j)
    BY <2>1 DEF Passed
  <2> QED
    BY <2>1, <2>2, <2>3 DEF BuiltInv
<1>2. LoopInv /\ BuiltInv /\ [LoopNext]_loopVars => BuiltInv'
  <2> SUFFICES ASSUME LoopInv, BuiltInv, [LoopNext]_loopVars PROVE BuiltInv'
    OBVIOUS
  <2>0. PlaceInv
    BY DEF LoopInv
  <2>1. CASE LoopNext
    <3>0. UNCHANGED <<h, start_sector>>
      BY <2>1 DEF LoopNext
    <3>1. CASE ReadLevel1
      BY <3>0, <3>1, BuiltStop DEF ReadLevel1
    <3>2. CASE Finish
      BY <3>0, <3>2, BuiltStop DEF Finish, BuiltInv
    <3>3. CASE InParent
      <4>1. InLoop /\ Advance /\ grain_table' = grain_table
        BY <3>3 DEF InParent
      <4>2. EntryOK(h, start_sector, j)
        BY <3>3 DEF InParent, IsSe, EntryOK
      <4>3. grain_table' = [k \in DOMAIN grain_table' |-> grain_table'[k]]
        BY <4>1 DEF BuiltInv
      <4> QED
        BY <2>0, <3>0, <4>1, <4>2, <4>3, BuiltAdvance
    <3>4. CASE SparseEntry
      BY <2>0, <3>0, <3>4, BuiltSparse
    <3>5. CASE SeEntry
      BY <2>0, <3>0, <3>5, BuiltSe
    <3> QED
      BY <2>1, <3>1, <3>2, <3>3, <3>4, <3>5 DEF LoopNext
  <2>2. CASE UNCHANGED loopVars
    <3>1. /\ h' = h /\ start_sector' = start_sector /\ j' = j /\ cur_sector' = cur_sector
          /\ grain_table' = grain_table /\ result' = result
      BY <2>2 DEF loopVars
    <3>2. Stop(result)
      BY <3>1 DEF Stop
    <3>3. /\ Passed(h, start_sector, j)' = Passed(h, start_sector, j)
          /\ L1There(h)' = L1There(h)
          /\ EntryOK(h, start_sector, j)' = EntryOK(h, start_sector, j)
      BY <3>1
    <3> QED
      BY <3>1, <3>3 DEF BuiltInv, end_sector
  <2> QED
    BY <2>1, <2>2
<1> QED
  BY <1>1, <1>2, AlwaysLoopInv, PTL DEF LoopSpec

\* For tables and extents of every size: the loops end with the table that is
\* defined at once from the two levels, and fail exactly when the level-1 table is
\* cut short, or an entry that they come to is bad or its table is cut short.
THEOREM LoopsBuildTheTable == LoopSpec => []BuildsTheTable
<1>1. LoopInv /\ BuiltInv => BuildsTheTable
  <2> SUFFICES ASSUME LoopInv, BuiltInv PROVE BuildsTheTable
    OBVIOUS
  <2>1. /\ h \in Headers /\ start_sector \in Starts
        /\ cur_sector = At(h, start_sector, j) /\ end_sector = start_sector + h.sectors
        /\ j \in 1 .. Len(h.l1) + 1
    BY PlaceIsAt DEF LoopInv, PlaceInv
  <2>2. Passed(h, start_sector, j) /\ HasStored(h, start_sector, j, grain_table)
    BY <2>1 DEF LoopInv, TableInv, BuiltInv, HasStored
  <2>3. result = "ok" => Through(h, start_sector, j) /\ L1There(h)
    BY <2>1 DEF LoopInv, LeftInv, Through, BuiltInv
  <2>4. result = "error" => \/ ~L1There(h)
                            \/ /\ j \in DOMAIN h.l1 /\ ~EntryOK(h, start_sector, j)
                               /\ At(h, start_sector, j) # start_sector + h.sectors
    BY <2>1 DEF BuiltInv
  <2>5. ~L1There(h) => ~SparseTable(h, start_sector).ok /\ ~SeSparseTable(h, start_sector).ok
    BY DEF SparseTable, SeSparseTable
  <2>6. CASE IsSe
    BY <2>1, <2>2, <2>3, <2>4, <2>5, <2>6, SeBuilt, SeRefused DEF BuildsTheTable, IsSe
  <2>7. CASE ~IsSe
    BY <2>1, <2>2, <2>3, <2>4, <2>5, <2>7, SparseBuilt, SparseRefused DEF BuildsTheTable, IsSe
  <2> QED
    BY <2>6, <2>7
<1> QED
  BY <1>1, AlwaysLoopInv, AlwaysBuiltInv, PTL

-----------------------------------------------------------------------------
(***************************************************************************)
(* WholeGrain, for grains of every size.                                   *)
(***************************************************************************)

\* between two calls of the decoder, the buffer has the first c bytes
InflateTypeOK ==
  /\ grain \in Grains
  /\ c \in 0 .. GrainSize
  /\ at \in {"marker", "zlib", "data", "loop", "ok", "error"}

InflateInv ==
  /\ InflateTypeOK
  /\ c <= grain.bytes
  /\ buf = [k \in 1 .. GrainSize |-> IF k <= c THEN k ELSE 0]
  /\ at = "ok" => c = GrainSize \/ c = grain.bytes

LEMMA InitInflateInv == InflateInit => InflateInv
<1> SUFFICES ASSUME InflateInit PROVE InflateInv
  OBVIOUS
<1>1. grain.bytes \in Nat
  BY SizesAssumption DEF InflateInit, Grains
<1>2. buf = [k \in 1 .. GrainSize |-> IF k <= 0 THEN k ELSE 0]
  BY SizesAssumption DEF InflateInit
<1> QED
  BY <1>1, <1>2, SizesAssumption DEF InflateInit, InflateInv, InflateTypeOK

LEMMA NextInflateInv == InflateInv /\ [InflateNext]_inflateVars => InflateInv'
<1> SUFFICES ASSUME InflateInv, [InflateNext]_inflateVars PROVE InflateInv'
  OBVIOUS
<1> USE SizesAssumption
<1>0. grain.bytes \in Nat
  BY DEF InflateInv, InflateTypeOK, Grains
<1>1. CASE ReadMarker
  BY <1>1, <1>0 DEF ReadMarker, Step, InflateInv, InflateTypeOK
<1>2. CASE ReadZlibHeader
  BY <1>2, <1>0 DEF ReadZlibHeader, Step, InflateInv, InflateTypeOK
<1>3. CASE ReadData
  BY <1>3, <1>0 DEF ReadData, Step, InflateInv, InflateTypeOK
<1>4. ASSUME NEW r \in 1 .. GrainSize, Inflate(r) PROVE InflateInv'
  <2>1. /\ r <= GrainSize - c /\ r <= grain.bytes - c
        /\ c' = c + r /\ grain' = grain /\ at = "loop"
        /\ buf' = [k \in 1 .. GrainSize |-> IF k > c /\ k <= c + r THEN k ELSE buf[k]]
    BY <1>4 DEF Inflate, Room, Left
  <2>2. c \in 0 .. GrainSize
    BY DEF InflateInv, InflateTypeOK
  <2>3. c' \in 0 .. GrainSize /\ c' <= grain'.bytes
    BY <2>1, <2>2, <1>0
  <2>4. at' = "loop"
    BY <1>4, <2>1, <2>2 DEF Inflate
  <2>5. \A k \in 1 .. GrainSize : buf[k] = IF k <= c THEN k ELSE 0
    BY DEF InflateInv
  <2>6. buf' = [k \in 1 .. GrainSize |-> IF k <= c' THEN k ELSE 0]
    BY <2>1, <2>2, <2>5
  <2> QED
    BY <2>1, <2>3, <2>4, <2>6 DEF InflateInv, InflateTypeOK
<1>5. CASE InflateNothing
  BY <1>5, <1>0 DEF InflateNothing, Room, Left, InflateInv, InflateTypeOK
<1>6. CASE InflateFails
  BY <1>6, <1>0 DEF InflateFails, InflateInv, InflateTypeOK
<1>7. CASE UNCHANGED inflateVars
  BY <1>7 DEF inflateVars, InflateInv, InflateTypeOK
<1> QED
  BY <1>1, <1>2, <1>3, <1>4, <1>5, <1>6, <1>7 DEF InflateNext

\* The buffer always has the first c bytes of the stream, so what is returned is
\* the grain: read_and_decompress_grain never leaves a gap or repeats a byte.
THEOREM WholeGrainHolds == InflateSpec => []WholeGrain
<1>1. InflateInv => WholeGrain
  <2> SUFFICES ASSUME InflateInv, at = "ok", grain.bytes <= GrainSize PROVE
        buf = [k \in 1 .. GrainSize |-> IF k <= grain.bytes THEN k ELSE 0]
    BY DEF WholeGrain
  <2>1. grain.bytes \in Nat
    BY SizesAssumption DEF InflateInv, InflateTypeOK, Grains
  <2>2. \A k \in 1 .. GrainSize : k <= c <=> k <= grain.bytes
    BY <2>1, SizesAssumption DEF InflateInv, InflateTypeOK
  <2> QED
    BY <2>2 DEF InflateInv
<1> QED
  BY <1>1, InitInflateInv, NextInflateInv, PTL DEF InflateSpec

-----------------------------------------------------------------------------
\* Every check that turns a grain down is false of a sound one, but for those of
\* what is there; once it is in the loop, only a corrupt stream is an error: the
\* test for a full buffer is never true.
LEMMA LostOnlyStep ==
  ASSUME InflateInv, LostOnlyAtTheEnd, [InflateNext]_inflateVars
  PROVE  LostOnlyAtTheEnd'
<1> USE SizesAssumption
<1>0. /\ grain' = grain
      /\ grain.size \in Nat /\ grain.there \in Int /\ c \in 0 .. GrainSize
  BY DEF InflateInv, InflateTypeOK, Grains, InflateNext, ReadMarker, ReadZlibHeader, ReadData,
         Step, Inflate, InflateNothing, InflateFails, inflateVars
<1> SUFFICES ASSUME at' = "error", Sound
             PROVE  grain.there < MarkerLen + ZlibLen + grain.size
  BY <1>0 DEF LostOnlyAtTheEnd, Sound
<1> USE DEF MarkerLen, ZlibLen
<1>1. CASE ReadMarker
  BY <1>0, <1>1 DEF ReadMarker, Step, Sound
<1>2. CASE ReadZlibHeader
  BY <1>0, <1>2 DEF ReadZlibHeader, Step, Sound
<1>3. CASE ReadData
  BY <1>0, <1>3 DEF ReadData, Step
<1>4. ASSUME NEW r \in 1 .. GrainSize, Inflate(r) PROVE FALSE
  BY <1>0, <1>4 DEF Inflate, Room
<1>5. CASE InflateNothing
  BY <1>5 DEF InflateNothing
<1>6. CASE InflateFails
  BY <1>6 DEF InflateFails, Sound
<1>7. CASE UNCHANGED inflateVars
  BY <1>7 DEF inflateVars, LostOnlyAtTheEnd
<1> QED
  BY <1>1, <1>2, <1>3, <1>4, <1>5, <1>6, <1>7 DEF InflateNext

\* read_and_decompress_grain loses a sound grain only where the file ends within
\* the two bytes too many that it reads, for grains and streams of every size.
THEOREM SoundGrainsAreKept == InflateSpec => []LostOnlyAtTheEnd
<1>1. InflateInit => LostOnlyAtTheEnd
  BY DEF InflateInit, LostOnlyAtTheEnd
<1> QED
  BY <1>1, InitInflateInv, NextInflateInv, LostOnlyStep, PTL DEF InflateSpec
=============================================================================
