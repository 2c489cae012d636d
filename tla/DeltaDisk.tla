------------------------------ MODULE DeltaDisk ------------------------------
(***************************************************************************)
(* What VmdkReader promises, without spans, extents or tables in memory.   *)
(*                                                                         *)
(* A disk is a chain of images, each a delta to its parent.  A byte of the *)
(* disk comes from the nearest image of the chain that has it, and is zero *)
(* if none has.  open() succeeds if and only if every image that has to be *)
(* looked at is usable; a read returns the bytes asked for, up to the end  *)
(* of the disk.                                                            *)
(*                                                                         *)
(* The files are those of a VMDK as the README lists them.  A file has     *)
(*   sig     what its signature says: "vmdk3" (COWD), "vmdk4", "sesparse", *)
(*           or "none";                                                    *)
(*   desc    its descriptor, internal or not, as [ok, eds, parent]; not ok *)
(*           when there is none that can be parsed;                        *)
(*   header  the meta data and the tables of a sparse file, "ok" when they *)
(*           are there and not refused;                                    *)
(*   grains  the compressed grains in it, by their sectors, see Storage;   *)
(*   len     its length in bytes.                                          *)
(* An extent description has its sectors, kind, file and offset.  A disk   *)
(* is flaky when a source may fail while it is opened.                     *)
(***************************************************************************)
EXTENDS Integers, Sequences, FiniteSets

CONSTANTS
  SectorSize,  \* bytes per sector
  Disks,       \* the disks considered: [top |-> the image opened, files, flaky]
  MaxDepth,    \* bound: the longest chain of Disks
  MaxRead      \* bound: the longest read

VARIABLES disk, phase, req, ans

vars == <<disk, phase, req, ans>>

NoParent == ""
NoReq == [off |-> 0, len |-> 0, faulty |-> FALSE]
NoAns == [outcome |-> "none", bytes |-> <<>>]
ZeroByte == <<>>
Absent == <<"absent">>

-----------------------------------------------------------------------------
(***************************************************************************)
(* One image.                                                              *)
(***************************************************************************)
Eds(img) == disk.files[img].desc.eds

\* the first sector of the j-th extent; that of the one after the last is the size
Start(eds, j) ==
  LET sum[k \in 1 .. Len(eds) + 1] ==
        IF k = 1 THEN 0 ELSE sum[k - 1] + eds[k - 1].sectors
  IN  sum[j]

Sectors(img) == Start(Eds(img), Len(Eds(img)) + 1)

\* A single-file image whose descriptor names a file that is not there is its
\* own extent: it has been renamed.
FileOf(img, ed) ==
  IF ed.file \notin DOMAIN disk.files /\ disk.files[img].sig = "vmdk4"
       /\ Len(Eds(img)) = 1
    THEN img ELSE ed.file

SparseKinds == {"SPARSE", "VMFSSPARSE"}
FlatKinds == {"FLAT", "VMFS", "VMFSRAW", "VMFSRDM"}

\* the entry for grain g, wherever in the two levels it is; 0 when not there
Entry(h, g) ==
  LET l2 == h.l1[(g \div h.l2_len) + 1]
  IN  IF l2 = <<>> THEN 0 ELSE l2[(g % h.l2_len) + 1]

SeEntry(h, g) ==
  LET none == [nibble |-> 0, index |-> 0]
      e1 == h.l1[(g \div h.l2_len) + 1]
  IN  IF e1 = none THEN none ELSE h.tables[e1.index + 1][(g % h.l2_len) + 1]

\* the byte of a sparse file at position rel of the extent
SparseByte(f, rel) ==
  LET h == disk.files[f].header
      grain == h.cluster_sectors * SectorSize
      e == Entry(h, rel \div grain)
  IN  IF e = 0 THEN Absent
      ELSE IF h.has_zero_grain /\ e = 1 THEN ZeroByte
      ELSE IF h.compressed THEN <<f, e, rel % grain>>
      ELSE <<f, e * SectorSize + (rel % grain)>>

SeSparseByte(f, rel) ==
  LET h == disk.files[f].header
      grain == h.cluster_sectors * SectorSize
      e == SeEntry(h, rel \div grain)
  IN  CASE e.nibble = 0       -> Absent
        [] e.nibble \in {1, 2} -> ZeroByte
        [] e.nibble = 3 ->
             <<f, (h.clusters_offset + e.index * h.cluster_sectors) * SectorSize
                    + (rel % grain)>>

\* the byte that an image has at offset o of the disk
ByteOf(img, o) ==
  LET j == CHOOSE k \in DOMAIN Eds(img) :
             o \div SectorSize \in Start(Eds(img), k) .. Start(Eds(img), k + 1) - 1
      ed == Eds(img)[j]
      f == FileOf(img, ed)
      rel == o - Start(Eds(img), j) * SectorSize
  IN  CASE ed.kind \in FlatKinds   -> <<f, ed.offset * SectorSize + rel>>
        [] ed.kind \in SparseKinds -> SparseByte(f, rel)
        [] ed.kind = "SESPARSE"    -> SeSparseByte(f, rel)

\* the header is there and not refused, and the level-1 table is there in full
HasTables(h) == h.ok /\ Len(h.l1) <= h.l1_there

\* the level-2 tables are there as far as the file has sectors
Sound(h) ==
  \A g \in 0 .. Len(h.l1) * h.l2_len - 1 : g < h.sectors =>
    LET l2 == h.l1[(g \div h.l2_len) + 1]
    IN  l2 = <<>> \/ g % h.l2_len < Len(l2)

\* and no entry of the tables is corrupt
SeSound(h) ==
  LET none == [nibble |-> 0, index |-> 0] IN
  \A g \in 0 .. Len(h.l1) * h.l2_len - 1 : g < h.sectors =>
    LET e1 == h.l1[(g \div h.l2_len) + 1]
        e2 == SeEntry(h, g)
    IN  \/ e1 = none
        \/ /\ e1.nibble = 1 /\ e1.index < Len(h.tables)
           /\ g % h.l2_len < Len(h.tables[e1.index + 1])
           /\ e2 = none \/ e2.nibble \in 1 .. 3

UsableExtent(img, ed) ==
  LET f == FileOf(img, ed)
      h == disk.files[f].header
  IN
  /\ f \in DOMAIN disk.files
  /\ ed.kind \in SparseKinds =>
       disk.files[f].sig \in {"vmdk3", "vmdk4"} /\ HasTables(h) /\ Sound(h)
  /\ ed.kind = "SESPARSE" =>
       disk.files[f].sig = "sesparse" /\ HasTables(h) /\ SeSound(h)

Usable(img) ==
  /\ img \in DOMAIN disk.files
  /\ disk.files[img].sig \in {"none", "vmdk4"}
  /\ disk.files[img].desc.ok
  /\ \A j \in DOMAIN Eds(img) : UsableExtent(img, Eds(img)[j])

-----------------------------------------------------------------------------
(***************************************************************************)
(* The chain.                                                              *)
(***************************************************************************)
Depth == 1 .. MaxDepth

Chain ==
  LET image[n \in Depth] ==
        IF n = 1 THEN disk.top
        ELSE IF image[n - 1] \in DOMAIN disk.files
          THEN disk.files[image[n - 1]].desc.parent
        ELSE NoParent
  IN  image

Size == Sectors(disk.top) * SectorSize
Offset == 0 .. Size - 1

\* some byte is in none of the images before the n-th, so that one is looked at
Needed ==
  LET needed[n \in Depth] ==
        \/ n = 1
        \/ /\ needed[n - 1]
           /\ Chain[n] # NoParent
           /\ \E o \in Offset : \A m \in 1 .. n - 1 : ByteOf(Chain[m], o) = Absent
  IN  needed

\* Needed is asked of an image only when those before it are usable
Opens ==
  LET ok[n \in Depth] ==
        /\ n > 1 => ok[n - 1]
        /\ Needed[n] => Usable(Chain[n]) /\ Sectors(Chain[n]) = Sectors(disk.top)
  IN  \A n \in Depth : ok[n]

\* the nearest image that has the byte wins
Content(o) ==
  LET from[n \in 1 .. MaxDepth + 1] ==
        IF n \notin Depth THEN ZeroByte
        ELSE IF Chain[n] = NoParent THEN ZeroByte
        ELSE IF ByteOf(Chain[n], o) # Absent THEN ByteOf(Chain[n], o)
        ELSE from[n + 1]
  IN  from[1]

-----------------------------------------------------------------------------
Init ==
  /\ disk \in Disks
  /\ phase = "opening"
  /\ req = NoReq
  /\ ans = NoAns

Open ==
  /\ phase = "opening"
  /\ \/ phase' = "ready" /\ Opens
     \/ phase' = "failed" /\ (disk.flaky \/ ~Opens)
  /\ UNCHANGED <<disk, req, ans>>

\* a read that starts beyond the end is refused
Refuse(off, len) ==
  /\ phase = "ready"
  /\ off > Size
  /\ req' = [off |-> off, len |-> len, faulty |-> FALSE]
  /\ ans' = [outcome |-> "beyond", bytes |-> <<>>]
  /\ phase' = "answered"
  /\ UNCHANGED disk

Call(off, len, faulty) ==
  /\ phase = "ready"
  /\ off <= Size
  /\ phase' = "read"
  /\ req' = [off |-> off, len |-> len, faulty |-> faulty]
  /\ ans' = NoAns
  /\ UNCHANGED disk

\* the positions that the request asks for, as far as the disk goes
Asked ==
  req.off .. (IF req.off + req.len > Size THEN Size ELSE req.off + req.len) - 1

\* A compressed grain can be had: it is sound, no larger than twice what it
\* inflates to, and within the file; the twelve bytes of its marker come first, and
\* two bytes more than the grain has are asked for.
MarkerLen == 12
BytesTooMany == 2
Inflatable(f, sector) ==
  LET file == disk.files[f] IN
  /\ sector \in DOMAIN file.grains
  /\ file.grains[sector].sound
  /\ file.grains[sector].size <= 2 * (file.header.cluster_sectors * SectorSize)
  /\ sector * SectorSize + MarkerLen + file.grains[sector].size + BytesTooMany <= file.len

\* the byte at o should be in a file that does not reach that far, or in a grain
\* that cannot be had
Missing(o) ==
  LET c == Content(o)
  IN  /\ c # ZeroByte
      /\ IF Len(c) = 2 THEN c[2] >= disk.files[c[1]].len ELSE ~Inflatable(c[1], c[2])

Complete == \A o \in Asked : ~Missing(o)

\* a byte is missing, or a source fails during the call, which a call that needs no
\* file does not notice
Broken == \E o \in Asked : Missing(o) \/ (req.faulty /\ Content(o) # ZeroByte)

Reply ==
  /\ phase = "read"
  /\ Complete
  /\ phase' = "answered"
  /\ ans' = [outcome |-> "bytes",
             bytes |-> [k \in 1 .. Cardinality(Asked) |-> Content(req.off + k - 1)]]
  /\ UNCHANGED <<disk, req>>

Fail ==
  /\ phase = "read"
  /\ Broken
  /\ phase' = "answered"
  /\ ans' = [outcome |-> "error", bytes |-> <<>>]
  /\ UNCHANGED <<disk, req>>

\* the caller has seen the answer
Forget ==
  /\ phase = "answered"
  /\ phase' = "ready"
  /\ req' = NoReq /\ ans' = NoAns
  /\ UNCHANGED disk

Next ==
  \/ Open
  \/ /\ phase = "ready"
     /\ \E off \in 0 .. Size + 1, len \in 0 .. MaxRead, faulty \in BOOLEAN :
          Refuse(off, len) \/ Call(off, len, faulty)
  \/ Reply
  \/ Fail
  \/ Forget

Spec == Init /\ [][Next]_vars
=============================================================================
