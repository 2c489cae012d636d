----------------------------- MODULE GrainTables -----------------------------
(***************************************************************************)
(* extents.rs: how the two-level grain tables of a sparse extent become    *)
(* the HashMap that SparseStorage looks grains up in.                      *)
(*                                                                         *)
(* A level-1 table is a sequence.  An entry of a SPARSE or VMFSSPARSE      *)
(* extent is modelled as the level-2 table that its offset leads to, with  *)
(* <<>> for the offset 0 ("the data for this entry is in the parent"); the *)
(* entries of a level-2 table are sectors of the file, 0 for a grain that  *)
(* is not there.  A table that the file cuts short is a shorter sequence,  *)
(* of one entry at least.  An entry of a SESPARSE extent, at either level, *)
(* is its high nibble and the index in its other 60 bits.                  *)
(*                                                                         *)
(* Both readers begin with all l1_len entries of the level-1 table.  The   *)
(* file has l1_there of them from l1_offset on, -1 when l1_offset itself   *)
(* is beyond its end; when that is too few, the entries that are not there *)
(* are whatever "l1" says, and never looked at.                            *)
(***************************************************************************)
EXTENDS Integers, Sequences, FiniteSetsExt

\* the seek to the level-1 table and the reading of its entries succeed
L1There(h) == Len(h.l1) <= h.l1_there

\* how many entries are read of the level-2 table whose first key is "cur"
L2Len(h, start, cur) == Min({h.l2_len, h.sectors - (cur - start)})

\* cur_sector at each level-1 entry; it advances over the entries that are 0 too
CurSector(h, start) ==
  LET cur[j \in 1 .. Len(h.l1)] ==
        IF j = 1 THEN start
                 ELSE cur[j - 1] + L2Len(h, start, cur[j - 1])
  IN  cur

\* What both readers build from the level-2 tables l2, at the places of the
\* entries that lead to them: keys are cur_sector + i, for the entries that are
\* not "absent".
Collect(h, start, l2, absent) ==
  LET cur == CurSector(h, start)
      found == {p \in (DOMAIN l2) \X (0 .. h.l2_len - 1) :
                  /\ p[2] < L2Len(h, start, cur[p[1]])
                  /\ l2[p[1]][p[2] + 1] # absent}
      Key(p) == cur[p[1]] + p[2]
  IN  [k \in {Key(p) : p \in found} |->
         LET p == CHOOSE q \in found : Key(q) = k IN l2[p[1]][p[2] + 1]]

\* read_exact finds every level-2 entry that the readers ask for
L2Complete(h, start, l2) ==
  \A j \in DOMAIN l2 : Len(l2[j]) >= L2Len(h, start, CurSector(h, start)[j])

-----------------------------------------------------------------------------
(***************************************************************************)
(* read_grain_table_sparse.                                                *)
(***************************************************************************)
L2(h) == [j \in {x \in DOMAIN h.l1 : h.l1[x] # <<>>} |-> h.l1[j]]

SparseTable(h, start) ==
  IF L1There(h) /\ L2Complete(h, start, L2(h))
    THEN [ok |-> TRUE, table |-> Collect(h, start, L2(h), 0)]
    ELSE [ok |-> FALSE, table |-> <<>>]

-----------------------------------------------------------------------------
(***************************************************************************)
(* read_grain_table_sesparse.                                              *)
(***************************************************************************)
NoEntry == [nibble |-> 0, index |-> 0]

\* the level-1 entries that are looked at before the sectors are exhausted
Reached(h, start) ==
  {j \in DOMAIN h.l1 : CurSector(h, start)[j] # start + h.sectors}

\* the level-2 tables that the level-1 entries are indices of
SeL2(h, start) ==
  [j \in {x \in Reached(h, start) : h.l1[x] # NoEntry} |-> h.tables[h.l1[j].index + 1]]

\* a level-1 entry is bad, or leads beyond the end of the file
BadL1(h, e) == e # NoEntry /\ (e.nibble # 1 \/ e.index >= Len(h.tables))
BadL2(e) == e # NoEntry /\ e.nibble \notin 1 .. 3

\* the sector in the file: nibbles 1 and 2 say that the grain is zero, which
\* SparseStorage is told with sector 1, and 3 that it is allocated
SeGrain(h, e) ==
  IF e.nibble = 3 THEN h.clusters_offset + e.index * h.cluster_sectors ELSE 1

SeSparseTable(h, start) ==
  LET bad == \E j \in Reached(h, start) : BadL1(h, h.l1[j])
      entries == Collect(h, start, SeL2(h, start), NoEntry)
  IN  IF ~L1There(h) \/ bad \/ ~L2Complete(h, start, SeL2(h, start))
           \/ \E k \in DOMAIN entries : BadL2(entries[k])
        THEN [ok |-> FALSE, table |-> <<>>]
        ELSE [ok |-> TRUE, table |-> [k \in DOMAIN entries |-> SeGrain(h, entries[k])]]
=============================================================================
