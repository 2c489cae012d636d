------------------------------ MODULE GrainLoops ------------------------------
(***************************************************************************)
(* extents.rs: the loops of read_grain_table_sparse and                    *)
(* read_grain_table_sesparse, an action for each way through their bodies. *)
(* They build what GrainTables says they do, and every grain of the        *)
(* extent is found where the format puts it.                               *)
(***************************************************************************)
EXTENDS GrainTables

CONSTANTS
  Headers,  \* the meta data and tables considered; those of a SESPARSE extent
            \* have the field "tables"
  Starts    \* the start sectors considered

\* entries of SESPARSE tables
SeEntries == [nibble : Nat, index : Nat]

\* What the checks of the headers leave (Headers.tla): grains and tables are not
\* empty, the tables are enough for the sectors, and grains come after the header.
ASSUME HeadersAssumption ==
  \A x \in Headers :
    /\ x.l1_there \in Int
    /\ x.sectors \in Nat /\ x.l2_len \in Nat \ {0} /\ x.cluster_sectors \in Nat \ {0}
    /\ IF "tables" \in DOMAIN x
         THEN /\ x.l1 \in Seq(SeEntries) /\ x.tables \in Seq(Seq(SeEntries))
              /\ x.clusters_offset \in Nat \ {0}
         ELSE x.l1 \in Seq(Seq(Nat))
    /\ Len(x.l1) * x.l2_len * x.cluster_sectors >= x.sectors

ASSUME StartsAssumption == Starts \subseteq Nat

VARIABLES
  h,            \* the header
  start_sector, \* where the extent starts
  j,            \* the index of the level-1 entry of this iteration
  cur_sector,
  grain_table,
  result        \* "l1" until level 1 is read, "loop" while the loop runs, then
                \* "ok" or "error"

loopVars == <<h, start_sector, j, cur_sector, grain_table, result>>

IsSe == "tables" \in DOMAIN h
end_sector == start_sector + h.sectors

\* a mistake in l2_len: the last table is read to its end
l2_len_unclamped == h.l2_len

l2_len == Min({h.l2_len, h.sectors - (cur_sector - start_sector)})

InLoop == result = "loop" /\ j \in DOMAIN h.l1 /\ cur_sector # end_sector

Advance ==
  /\ cur_sector' = cur_sector + l2_len
  /\ j' = j + 1
  /\ UNCHANGED result

Stop(how) == result' = how /\ UNCHANGED <<j, cur_sector, grain_table>>

\* a mistake in ReadLevel1: a table that the file cuts short is read as far as it goes
ReadWhatIsThere ==
  /\ result = "l1"
  /\ Stop("loop")

\* "read level 1": every entry, before any of them is looked at
ReadLevel1 ==
  /\ result = "l1"
  /\ IF L1There(h) THEN Stop("loop") ELSE Stop("error")

\* no more entries, or "we've exhausted all the sectors"
Finish ==
  /\ result = "loop"
  /\ j \notin DOMAIN h.l1 \/ cur_sector = end_sector
  /\ Stop("ok")

\* a mistake in InParent: the sectors of the entry are not skipped
InParentStays ==
  /\ InLoop
  /\ h.l1[j] = IF IsSe THEN NoEntry ELSE <<>>
  /\ j' = j + 1
  /\ UNCHANGED <<cur_sector, result, grain_table>>

\* "the data for this entry is in the parent"
InParent ==
  /\ InLoop
  /\ h.l1[j] = IF IsSe THEN NoEntry ELSE <<>>
  /\ Advance
  /\ UNCHANGED grain_table

SparseEntry ==
  /\ InLoop /\ ~IsSe
  /\ h.l1[j] # <<>>
  /\ IF Len(h.l1[j]) < l2_len
       THEN Stop("error")
       ELSE LET found == {i \in 0 .. l2_len - 1 : h.l1[j][i + 1] # 0}
            IN  /\ grain_table' =
                     [k \in DOMAIN grain_table \cup {cur_sector + i : i \in found} |->
                        IF k - cur_sector \in found THEN h.l1[j][k - cur_sector + 1]
                                                    ELSE grain_table[k]]
                /\ Advance

SeEntry ==
  /\ InLoop /\ IsSe
  /\ h.l1[j] # NoEntry
  /\ IF BadL1(h, h.l1[j]) THEN Stop("error")
     ELSE LET l2 == h.tables[h.l1[j].index + 1]
              found == {i \in 0 .. l2_len - 1 : l2[i + 1] # NoEntry}
          IN  IF Len(l2) < l2_len THEN Stop("error")
              ELSE IF \E i \in found : BadL2(l2[i + 1]) THEN Stop("error")
              ELSE /\ grain_table' =
                        [k \in DOMAIN grain_table \cup {cur_sector + i : i \in found} |->
                           IF k - cur_sector \in found
                             THEN SeGrain(h, l2[k - cur_sector + 1])
                             ELSE grain_table[k]]
                   /\ Advance

LoopInit ==
  /\ h \in Headers
  /\ start_sector \in Starts
  /\ j = 1
  /\ cur_sector = start_sector
  /\ grain_table = [k \in {} |-> 0]
  /\ result = "l1"

LoopNext ==
  /\ ReadLevel1 \/ Finish \/ InParent \/ SparseEntry \/ SeEntry
  /\ UNCHANGED <<h, start_sector>>

LoopSpec == LoopInit /\ [][LoopNext]_loopVars

-----------------------------------------------------------------------------
\* h.sectors - (cur_sector - start_sector) never goes below zero, whatever the
\* number of level-1 entries and of entries per table.
NeverPastTheEnd == cur_sector \in start_sector .. end_sector

\* The readers end with the table that GrainTables defines at once, and with an
\* error exactly when that says so: the level-1 table has to be there in full, also
\* the entries that the loop does not get to; of the level-2 tables only those
\* that it gets to have to be there, as far as the sectors go, and to be sound.
BuildsTheTable ==
  LET t == IF IsSe THEN SeSparseTable(h, start_sector) ELSE SparseTable(h, start_sector)
  IN  /\ result = "ok" => t.ok /\ grain_table = t.table
      /\ result = "error" => ~t.ok

\* what the two levels say of grain g: 0 when the grain is in the parent, and
\* otherwise the sector that SparseStorage::read is to find for it
SeStored(x, e) ==
  CASE e.nibble = 0 -> 0
    [] e.nibble \in {1, 2} -> 1
    [] OTHER -> x.clusters_offset + e.index * x.cluster_sectors

Stored(x, g) ==
  LET a == (g \div x.l2_len) + 1
      b == (g % x.l2_len) + 1
  IN  IF "tables" \notin DOMAIN x
        THEN IF x.l1[a] = <<>> THEN 0 ELSE x.l1[a][b]
        ELSE IF x.l1[a] = NoEntry THEN 0 ELSE SeStored(x, x.tables[x.l1[a].index + 1][b])

\* Every grain of an extent at sector 0 is in the table if and only if the file
\* has it, under its own number, though the loops count and clamp entries of
\* the tables as if they were sectors.
GrainsFound ==
  result = "ok" /\ start_sector = 0 =>
    \A g \in {x \in 0 .. h.sectors - 1 : x * h.cluster_sectors < h.sectors} :
      IF Stored(h, g) = 0 THEN g \notin DOMAIN grain_table
                          ELSE g \in DOMAIN grain_table /\ grain_table[g] = Stored(h, g)
=============================================================================
