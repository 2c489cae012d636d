------------------------------- MODULE MCDisks -------------------------------
(***************************************************************************)
(* What the small disks of the model checking modules are made of: sectors *)
(* of two bytes, grains of two sectors, level-2 tables of two entries.     *)
(***************************************************************************)
EXTENDS Integers, Sequences

Capacity == 5
FarEnough == 40  \* bytes in the files, beyond every grain of the tables below

NoDesc == [ok |-> FALSE, eds |-> <<>>, parent |-> ""]
NoHeader == [ok |-> FALSE, sectors |-> 0]
Ed(kind, file) == [sectors |-> Capacity, kind |-> kind, file |-> file, offset |-> 0]
Desc(eds, p) == [ok |-> TRUE, eds |-> eds, parent |-> p]

File(sig, desc, header, len) ==
  [sig |-> sig, desc |-> desc, header |-> header, grains |-> <<>>, len |-> len]

Header(l1, compressed, zeroed) ==
  [ok |-> TRUE, sectors |-> Capacity, l2_len |-> 2, cluster_sectors |-> 2, l1 |-> l1,
   l1_there |-> Len(l1), compressed |-> compressed, has_zero_grain |-> zeroed]

SeHeader(l1, tables) ==
  [ok |-> TRUE, sectors |-> Capacity, l2_len |-> 2, cluster_sectors |-> 2, l1 |-> l1,
   l1_there |-> Len(l1), tables |-> tables, clusters_offset |-> 6]

\* the files of a disk, by name
Disk0(top, files) == [top |-> top, files |-> files, flaky |-> FALSE]

RawData == File("none", NoDesc, NoHeader, 2 * Capacity)

Only(l1, ed, p) ==
  Disk0("c", [f \in {"c"} |->
    File("vmdk4", Desc(<<ed>>, p), Header(l1, FALSE, TRUE), FarEnough)])

Part(kind, file, sectors) ==
  [sectors |-> sectors, kind |-> kind, file |-> file, offset |-> 0]

\* a descriptor file of its own, and its data
Described(eds, data) ==
  Disk0("c", [f \in {"c"} \cup DOMAIN data |->
    IF f = "c" THEN File("none", Desc(eds, ""), NoHeader, 0) ELSE data[f]])
=============================================================================
