---------------------------- MODULE MCVmdkReader ----------------------------
(***************************************************************************)
(* Small disks for VmdkReader: five sectors of two bytes, grains of two    *)
(* sectors (so the last one is partial) and level-2 tables of two entries  *)
(* (so there are two of them and the second is half used).                 *)
(***************************************************************************)
EXTENDS VmdkReader, MCDisks

\* level-1 tables: zeroed, absent and allocated grains, absent level-2 tables
Tables ==
  {<<t1, t2>> : t1 \in {<<>>, <<0, 12>>, <<1, 12>>, <<14, 12>>},
                t2 \in {<<>>, <<16, 0>>, <<1, 0>>}}

\* The same with compressed grains, each a marker of 12 bytes and 4 more.  The last
\* one ends at 72, and 74 bytes of the file are what is read of it.
CompressedTables ==
  {<<t1, t2>> : t1 \in {<<>>, <<0, 12>>, <<1, 12>>, <<20, 12>>},
                t2 \in {<<>>, <<28, 0>>, <<1, 0>>}}

Grain(size, sound) == [size |-> size, sound |-> sound]
Compressed == [s \in {12, 20, 28} |-> Grain(4, TRUE)]

\* the file ends behind the last grain, or in it; or the grain at 12 is longer than
\* it can be, or is not sound
BadlyCompressed ==
  {<<Compressed, 73>>, <<Compressed, 72>>, <<Compressed, 70>>,
   <<[Compressed EXCEPT ![12] = Grain(9, TRUE)], 74>>,
   <<[Compressed EXCEPT ![12] = Grain(4, FALSE)], 74>>}

\* "c" is a monolithic sparse child of "p", whose data are in a file of that name
Snapshot(child, parentKind, name, parentData) ==
  Disk0("c",
    [f \in {"c", "p", name} |->
       CASE f = "c" -> child
         [] f = "p" -> File("none", Desc(<<Ed(parentKind, name)>>, NoParent), NoHeader, 0)
         [] f = name -> parentData])

Child(header) == File("vmdk4", Desc(<<Ed("SPARSE", "c")>>, "p"), header, FarEnough)
CompressedChild(l1, zeroed, file) ==
  [Child(Header(l1, TRUE, zeroed)) EXCEPT !.grains = file[1], !.len = file[2]]

CowdData(l1) == File("vmdk3", NoDesc, Header(l1, FALSE, FALSE), FarEnough)
SeData(l1, tables) == File("sesparse", NoDesc, SeHeader(l1, tables), FarEnough)

Se(n, k) == [nibble |-> n, index |-> k]

ChainDisks ==
  {Snapshot(Child(Header(t, FALSE, z)), "FLAT", "q", RawData) : t \in Tables, z \in BOOLEAN}
  \cup {Snapshot(CompressedChild(t, z, file), "FLAT", "q", RawData) :
          t \in CompressedTables, z \in BOOLEAN, file \in {<<Compressed, 74>>}}
  \cup {Snapshot(CompressedChild(<<t, <<28, 0>>>>, TRUE, file), "FLAT", "q", RawData) :
          t \in {<<0, 12>>, <<20, 12>>}, file \in BadlyCompressed}
  \cup {Snapshot(Child(Header(<<<<0, 12>>, <<>>>>, FALSE, TRUE)),
                 "VMFSSPARSE", "q", CowdData(t)) :
          t \in Tables}
  \cup {Snapshot(CompressedChild(<<<<0, 12>>, <<>>>>, FALSE, <<Compressed, 74>>),
                 "SESPARSE", "s", SeData(l1, tables)) :
          l1 \in {<<Se(1, 1), Se(0, 0)>>, <<Se(0, 0), Se(1, 0)>>, <<Se(1, 0), Se(1, 1)>>,
                  <<Se(0, 0), Se(2, 0)>>, <<Se(1, 2), Se(0, 0)>>},
          tables \in {<< <<Se(3, 4), Se(0, 0)>>, <<Se(2, 0), Se(3, 1)>> >>,
                      << <<Se(1, 0), Se(4, 0)>>, <<Se(3, 2), Se(0, 0)>> >>,
                      << <<Se(0, 5), Se(1, 0)>>, <<Se(3, 2), Se(0, 1)>> >>}}

-----------------------------------------------------------------------------
(***************************************************************************)
(* Disks with something missing or wrong, which open() has to notice if    *)
(* and only if it matters.                                                 *)
(***************************************************************************)
Full == <<<<12, 14>>, <<16, 0>>>>
Half == <<<<12, 0>>, <<16, 0>>>>

SeHalf == <<Se(1, 0), Se(1, 1)>>
SeTables == << <<Se(3, 4), Se(0, 0)>>, <<Se(2, 0), Se(3, 1)>> >>

\* a child "c" of "p", with the files of "rest" besides
With(l1, rest) ==
  Disk0("c", [f \in {"c"} \cup DOMAIN rest |->
    IF f = "c" THEN File("vmdk4", Desc(<<Ed("SPARSE", "c")>>, "p"),
                         Header(l1, FALSE, TRUE), FarEnough)
               ELSE rest[f]])

\* one over a parent whose data, of a kind, are in a file of that name
OverData(l1, kind, name, data) ==
  With(l1, [f \in {"p", name} |->
    IF f = name THEN data ELSE File("none", Desc(<<Ed(kind, name)>>, NoParent), NoHeader, 0)])

\* the header of a sparse file is refused, or its level-1 table is not there in full
BadlyBegun(file) ==
  {[file EXCEPT !.header.ok = FALSE], [file EXCEPT !.header.l1_there = 1],
   [file EXCEPT !.header.l1_there = -1]}

Short == [Ed("FLAT", "q") EXCEPT !.sectors = Capacity - 1]

OddlyMade ==
  \* no parent, a renamed file, no descriptor in it, a parent that is missing
  {Only(Half, Ed("SPARSE", "c"), NoParent), Only(Half, Ed("SPARSE", "old"), NoParent),
   Only(Full, Ed("SPARSE", "c"), "p"), Only(Half, Ed("SPARSE", "c"), "p"),
   Disk0("c", [f \in {"c"} |->
     File("vmdk4", Desc(<<>>, NoParent), Header(<<>>, FALSE, TRUE), FarEnough)])}
  \cup
  \* parents that are not images, of another size, with their data cut short or
  \* gone, or whose data are not what the descriptor says
  {With(l1, rest) : l1 \in {Full, Half}, rest \in
     {[f \in {"p"} |-> CowdData(Full)],
      [f \in {"p"} |-> RawData],
      [f \in {"p", "q"} |-> IF f = "q" THEN RawData
                            ELSE File("none", Desc(<<Short>>, NoParent), NoHeader, 0)],
      [f \in {"p", "q"} |-> IF f = "q" THEN File("none", NoDesc, NoHeader, 2 * Capacity - 3)
                            ELSE File("none", Desc(<<Ed("VMFS", "q")>>, NoParent), NoHeader, 0)],
      [f \in {"p"} |-> File("none", Desc(<<Ed("VMFS", "q")>>, NoParent), NoHeader, 0)],
      [f \in {"p", "q"} |-> IF f = "q" THEN RawData
                            ELSE File("none", Desc(<<Ed("VMFSSPARSE", "q")>>, NoParent),
                                      NoHeader, 0)]}}
  \cup
  \* headers that are refused, and level-1 or level-2 tables that the file cuts short
  UNION {
    {OverData(l1, "VMFSSPARSE", "q", q) : q \in
       BadlyBegun(CowdData(Half))
       \cup {CowdData(<<<<12, 0>>, <<16>>>>), CowdData(<<<<12>>, <<>>>>)}}
    \cup {OverData(l1, "SESPARSE", "s", q) : q \in
       BadlyBegun(SeData(SeHalf, SeTables))
       \cup {SeData(SeHalf, << <<Se(3, 4), Se(0, 0)>>, <<Se(2, 0)>> >>),
             SeData(SeHalf, << <<Se(3, 4)>>, <<Se(2, 0), Se(0, 0)>> >>)}}
    : l1 \in {Full, Half}}
  \cup
  \* three images: the grains of the first are in the second or the third
  {With(Half, [f \in {"p", "b", "q"} |->
     CASE f = "p" -> File("vmdk4", Desc(<<Ed("SPARSE", "p")>>, "b"),
                          Header(t, FALSE, TRUE), FarEnough)
       [] f = "b" -> File("none", Desc(<<Ed("VMFS", "q")>>, NoParent), NoHeader, 0)
       [] f = "q" -> RawData]) : t \in Tables}

\* and the same with sources that fail while they are opened
OddDisks == {[d EXCEPT !.flaky = f] : d \in OddlyMade, f \in BOOLEAN}

ReaderDisks == ChainDisks \cup OddDisks

-----------------------------------------------------------------------------
(***************************************************************************)
(* Layouts that the README lists, and what reading them does.              *)
(***************************************************************************)
\* 2GbMaxExtentFlat, in two files
FlatParts ==
  {Described(<<Part("FLAT", "f001", 3), Part("FLAT", "f002", 2)>>,
             [f \in {"f001", "f002"} |->
                File("none", NoDesc, NoHeader, IF f = "f001" THEN 6 ELSE 4)])}

\* 2GbMaxExtentSparse, in two files of one table each
SparseParts ==
  {Described(<<Part("SPARSE", "s001", 4), Part("SPARSE", "s002", 4)>>,
             [f \in {"s001", "s002"} |->
                File("vmdk4", NoDesc, [Header(<<t>>, FALSE, TRUE) EXCEPT !.sectors = 4],
                     FarEnough)]) : t \in {<<12, 14>>, <<0, 14>>}}
=============================================================================
