----------------------------- MODULE MCGrainLoops -----------------------------
(***************************************************************************)
(* Extents of one to five sectors in grains of one or two sectors, with    *)
(* tables of two entries; as many tables as the capacity needs, and one    *)
(* more.  A level-2 table may be shorter than it should be, or begin where *)
(* the file ends; the level-1 table may lack an entry or two, or begin     *)
(* beyond the end of the file.                                             *)
(***************************************************************************)
EXTENDS GrainLoops

L1Len(sectors, cluster) == (sectors + 2 * cluster - 1) \div (2 * cluster)

SparseHeaders ==
  {[sectors |-> s, cluster_sectors |-> c, l2_len |-> 2, l1 |-> t,
    l1_there |-> Len(t) - less] :
     s \in 1 .. 5, c \in 1 .. 2, less \in 0 .. 2,
     t \in UNION {[1 .. n -> {<<>>, <<0, 0>>, <<9, 0>>, <<1, 8>>, <<7>>}] : n \in 1 .. 3}}

Se(n, k) == [nibble |-> n, index |-> k]

SeHeaders ==
  {[sectors |-> s, cluster_sectors |-> c, l2_len |-> 2, l1 |-> t,
    l1_there |-> Len(t) - less, clusters_offset |-> 6,
    tables |-> << <<Se(3, 4), Se(0, 0)>>, l2 >>] :
     s \in 1 .. 5, c \in 1 .. 2, less \in 0 .. 2,
     t \in UNION {[1 .. n -> {Se(0, 0), Se(1, 0), Se(1, 1), Se(1, 2), Se(2, 0)}] : n \in 1 .. 3},
     l2 \in {<<Se(1, 0), Se(2, 0)>>, <<Se(0, 0), Se(3, 1)>>, <<Se(3, 0), Se(4, 0)>>, <<>>}}

\* a file has as many tables as its capacity needs, or one too many
Fits(x) == Len(x.l1) - L1Len(x.sectors, x.cluster_sectors) \in 0 .. 1

AllHeaders == {x \in SparseHeaders \cup SeHeaders : Fits(x)}
=============================================================================
