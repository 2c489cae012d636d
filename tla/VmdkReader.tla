----------------------------- MODULE VmdkReader -----------------------------
(***************************************************************************)
(* vmdk_reader.rs and extents.rs: opening a chain of images and reading    *)
(* from it.                                                                *)
(*                                                                         *)
(* open() follows the chain from the image to its ancestors.  It inserts   *)
(* the pieces of each extent into a map of spans and removes them from a   *)
(* map of what is uncovered, with the loops of module Spans, and stops     *)
(* when nothing is uncovered or there is no parent; the rest is zeros.     *)
(* read_at_offset() walks the spans and reads each piece from the storage  *)
(* of its extent, as module Storage says.                                  *)
(*                                                                         *)
(* The files of a disk are those of module DeltaDisk; Headers and          *)
(* Descriptors are about how their bytes are read.                         *)
(***************************************************************************)
EXTENDS GrainTables, Storage, SequencesExt

CONSTANTS
  Disks,     \* the disks that may be opened
  MaxDepth,  \* bound: the longest chain of Disks
  MaxRead    \* bound: the longest buffer, in bytes

\* what a descriptor lists and a table of a sparse file are sequences, and the
\* fields of the headers that are read with them and the sizes of grains are unsigned
ASSUME DisksAssumption ==
  \A d \in Disks : \A f \in DOMAIN d.files :
    LET eds == d.files[f].desc.eds
        h == d.files[f].header
    IN  /\ eds \in Seq(ToSet(eds))
        /\ \A j \in DOMAIN eds : eds[j].sectors \in Nat
        /\ \A k \in DOMAIN d.files[f].grains : d.files[f].grains[k].size \in Nat
        /\ d.files[f].sig # "none" =>
             /\ h.ok \in BOOLEAN /\ h.l1_there \in Int
             /\ h.l1 \in Seq(ToSet(h.l1))
             /\ h.sectors \in Nat /\ h.l2_len \in Nat /\ h.cluster_sectors \in Nat

ASSUME MaxReadAssumption == MaxRead \in Nat

ASSUME MaxDepthAssumption == MaxDepth \in Nat \ {0}

VARIABLES
  disk,       \* the files, and the image that is opened
  pc,         \* where open() or read_at_offset() is
  current,    \* current_url
  idx,        \* the index the next source will get
  sources,    \* the sources of the cache, by index
  queue,      \* extents of the current image that are not in the maps yet
  parent,     \* parent_url
  todo,       \* spans of the extent at the head of queue, not in the maps yet
  imageSize,  \* image_size in bytes, <<>> for None
  extents,    \* the extents in use
  spans, uncovered, loop, call, sbeg,  \* see module Spans
  vec,        \* self.spans: the spans in bytes, in order
  req,        \* the arguments of read_at_offset, and whether a source fails
  offset,     \* its cursor
  end,        \* where it stops
  i,          \* the index in vec of the span it is in
  buf,        \* what it has filled of the buffer
  ans         \* its result

openVars == <<current, idx, sources, queue, parent, todo, imageSize, extents>>
mapVars == <<spans, uncovered, loop, call, sbeg>>
callVars == <<offset, end, i, buf>>
readVars == <<vec, req, ans, callVars>>
vars == <<disk, pc, openVars, mapVars, readVars>>

\* the bounds and labels of Spans are those of its own runs; only its actions
\* are used here
Maps == INSTANCE Spans WITH ImageEnd <- 0, Places <- Nat, Ids <- Nat, MinLen <- 0

NoParent == ""
NoReq == [off |-> 0, len |-> 0, faulty |-> FALSE]
NoAns == [outcome |-> "none", bytes |-> <<>>]

-----------------------------------------------------------------------------
(***************************************************************************)
(* extents.rs.                                                             *)
(***************************************************************************)

\* a mistake in SourceFor: no second try with the image itself
SourceForNamed(image, ed, binAndSingular) ==
  IF ed.file \in DOMAIN disk.files THEN ed.file ELSE ""

\* source_for_url of an extent's file, or of the image itself when that file is
\* not there and the image is a single binary file; "" when neither is there
SourceFor(image, ed, binAndSingular) ==
  IF ed.file \in DOMAIN disk.files THEN ed.file
  ELSE IF binAndSingular /\ ed.file # image THEN image
  ELSE ""

\* read_extent: the storage of an extent, or the way it goes wrong
ReadExtent(ed, startSector, file, source) ==
  LET f == disk.files[file]
      h == f.header
      Sparse(t, compressed, zeroed) ==
        IF t.ok
          THEN [kind |-> "sparse", source |-> source, grain_table |-> t.table,
                grain_size |-> h.cluster_sectors,
                has_compressed_grain |-> compressed,
                zeroed_grain_table_entry |-> zeroed]
          ELSE IoError
      Flat(o) == [kind |-> "flat", source |-> source, offset |-> o]
  IN  CASE ed.kind \in {"SPARSE", "VMFSSPARSE"} ->
             IF f.sig \in {"vmdk3", "vmdk4"} /\ h.ok
               THEN Sparse(SparseTable(h, startSector), h.compressed, h.has_zero_grain)
               ELSE IoError
        [] ed.kind = "SESPARSE" ->
             IF f.sig = "sesparse" /\ h.ok
               THEN Sparse(SeSparseTable(h, startSector), FALSE, TRUE)
               ELSE IoError
        [] ed.kind = "VMFS" -> Flat(0)
        [] ed.kind = "FLAT" -> Flat(ed.offset)

\* ExtentDescription::filename has no case for the other kinds
Named == {"SPARSE", "SESPARSE", "FLAT", "VMFS", "VMFSSPARSE"}

\* read_extents: the extents in the order of their descriptions, one source
\* and one run of sectors after the other
ReadExtents(image, eds, binAndSingular, firstSource) ==
  LET start[j \in 1 .. Len(eds) + 1] ==
        IF j = 1 THEN 0 ELSE start[j - 1] + eds[j - 1].sectors
      file == [j \in DOMAIN eds |-> SourceFor(image, eds[j], binAndSingular)]
      StorageOf(j) == ReadExtent(eds[j], start[j], file[j], firstSource + j - 1)
      Fails(j) == \/ eds[j].kind \notin Named
                  \/ file[j] = ""
                  \/ StorageOf(j) = IoError
      failing == {j \in DOMAIN eds : Fails(j)}
  IN  IF failing = {}
        THEN [outcome |-> "extents",
              files |-> file,
              extents |-> [j \in DOMAIN eds |->
                             [start_sector |-> start[j], sectors |-> eds[j].sectors,
                              storage |-> StorageOf(j)]]]
        ELSE [outcome |-> IF eds[Min(failing)].kind \in Named THEN "error" ELSE "panic",
              files |-> <<>>, extents |-> <<>>]

\* a mistake in SpansOf: a grain reaches into the next one
SpansOfTwice(ex) ==
  IF ex.storage.kind = "sparse"
    THEN {LET beg == ex.start_sector + goff * ex.storage.grain_size
          IN  [beg |-> beg, end |-> beg + 2 * ex.storage.grain_size]
            : goff \in DOMAIN ex.storage.grain_table}
    ELSE {[beg |-> ex.start_sector, end |-> ex.start_sector + ex.sectors]}

\* Extent::spans, in no order: the keys of a HashMap have none
SpansOf(ex) ==
  IF ex.storage.kind = "sparse"
    THEN {LET beg == ex.start_sector + goff * ex.storage.grain_size
          IN  [beg |-> beg, end |-> beg + ex.storage.grain_size]
            : goff \in DOMAIN ex.storage.grain_table}
    ELSE {[beg |-> ex.start_sector, end |-> ex.start_sector + ex.sectors]}

HasFile(ex) == ex.storage.kind # "zero"

-----------------------------------------------------------------------------
(***************************************************************************)
(* open().                                                                 *)
(***************************************************************************)
SectorsOf(exs) ==
  LET sum[j \in 0 .. Len(exs)] == IF j = 0 THEN 0 ELSE sum[j - 1] + exs[j].sectors
  IN  sum[Len(exs)]

\* Cache::add_source, for the source "file" and then those in "files"
WithSources(file, files) ==
  LET new == <<file>> \o files
      at(k) == new[k - idx + 1]
  IN  [k \in DOMAIN sources \cup idx .. idx + Len(files) |->
         IF k < idx THEN sources[k]
                    ELSE [file |-> at(k), len |-> disk.files[at(k)].len,
                          grains |-> disk.files[at(k)].grains]]

\* handle_image on the current image
ReadImage ==
  LET f == disk.files[current]
      eds == f.desc.eds
      failed == [outcome |-> "error", files |-> <<>>, extents |-> <<>>]
  IN  IF current \notin DOMAIN disk.files THEN failed
      ELSE IF f.sig \notin {"none", "vmdk4"} \/ ~f.desc.ok THEN failed
      ELSE ReadExtents(current, eds, f.sig = "vmdk4" /\ Len(eds) = 1, idx + 1)

\* one turn of img_loop up to the check of the size
HandleImage ==
  /\ pc = "image"
  /\ LET read == ReadImage
         sectors == SectorsOf(read.extents)
         sizeOk == imageSize \in {<<>>, <<sectors * SectorSize>>}
     IN  \/ /\ read.outcome = "extents" /\ sizeOk
            /\ pc' = "extents"
            /\ sources' = WithSources(current, read.files)
            /\ idx' = idx + 1
            /\ queue' = read.extents
            /\ parent' = disk.files[current].desc.parent
            /\ imageSize' = <<sectors * SectorSize>>
            /\ uncovered' = IF imageSize = <<>> THEN [b \in {0} |-> sectors]
                                               ELSE uncovered
            /\ UNCHANGED <<current, todo, extents, spans, loop, call, sbeg>>
         \/ /\ read.outcome # "extents" \/ ~sizeOk
            /\ pc' = IF read.outcome = "panic" THEN "panicked" ELSE "failed"
            /\ UNCHANGED <<openVars, mapVars>>
  /\ UNCHANGED <<disk, readVars>>

\* a source fails while the image, its headers or its tables are read from it;
\* open() returns the error, and what it has made so far is dropped
ImageFault ==
  /\ pc = "image"
  /\ disk.flaky
  /\ current \in DOMAIN disk.files
  /\ pc' = "failed"
  /\ UNCHANGED <<disk, openVars, mapVars, readVars>>

BeginExtent ==
  /\ pc = "extents"
  /\ queue # <<>>
  /\ pc' = "spans"
  /\ todo' = SpansOf(Head(queue))
  /\ UNCHANGED <<disk, current, idx, sources, queue, parent, imageSize, extents>>
  /\ UNCHANGED <<mapVars, readVars>>

\* a mistake in InsertOne: the iterator over the spans does not advance
InsertSame ==
  /\ pc = "spans"
  /\ \E s \in todo : Maps!Claim(s.beg, s.end, Len(extents))
  /\ UNCHANGED <<disk, pc, openVars, readVars>>

InsertOne ==
  /\ pc = "spans"
  /\ \E s \in todo : /\ Maps!Claim(s.beg, s.end, Len(extents))
                     /\ todo' = todo \ {s}
  /\ UNCHANGED <<disk, pc, current, idx, sources, queue, parent, imageSize, extents>>
  /\ UNCHANGED readVars

\* an iteration of insert_span, or of the remove_span that follows it
RunMaps ==
  /\ pc = "spans"
  /\ Maps!InsertSpan("remove") \/ Maps!RemoveSpan
  /\ UNCHANGED <<disk, pc, openVars, readVars>>

\* mistakes in EndExtent: the source of the extent is not counted, or open()
\* goes on when nothing is uncovered
EndExtentUncounted ==
  /\ pc = "spans" /\ loop = "none" /\ todo = {}
  /\ extents' = Append(extents, Head(queue))
  /\ queue' = Tail(queue)
  /\ pc' = IF DOMAIN uncovered = {} THEN "fill" ELSE "extents"
  /\ UNCHANGED <<disk, current, idx, sources, parent, todo, imageSize, mapVars, readVars>>

EndExtentGoOn ==
  /\ pc = "spans" /\ loop = "none" /\ todo = {}
  /\ idx' = IF HasFile(Head(queue)) THEN idx + 1 ELSE idx
  /\ extents' = Append(extents, Head(queue))
  /\ queue' = Tail(queue)
  /\ pc' = "extents"
  /\ UNCHANGED <<disk, current, sources, parent, todo, imageSize, mapVars, readVars>>

EndExtent ==
  /\ pc = "spans"
  /\ loop = "none"
  /\ todo = {}
  /\ idx' = IF HasFile(Head(queue)) THEN idx + 1 ELSE idx
  /\ extents' = Append(extents, Head(queue))
  /\ queue' = Tail(queue)
  /\ pc' = IF DOMAIN uncovered = {} THEN "fill" ELSE "extents"
  /\ UNCHANGED <<disk, current, sources, parent, todo, imageSize, mapVars, readVars>>

\* a mistake in NextImage: the parent is never opened
NextImageNone ==
  /\ pc = "extents"
  /\ queue = <<>>
  /\ pc' = "fill"
  /\ UNCHANGED <<disk, current, idx, sources, queue, parent, todo, imageSize, extents>>
  /\ UNCHANGED <<mapVars, readVars>>

NextImage ==
  /\ pc = "extents"
  /\ queue = <<>>
  /\ IF parent = NoParent
       THEN pc' = "fill" /\ UNCHANGED current
       ELSE pc' = "image" /\ current' = parent
  /\ UNCHANGED <<disk, idx, sources, queue, parent, todo, imageSize, extents>>
  /\ UNCHANGED <<mapVars, readVars>>

\* mistakes in FillZeros: the index that the extent will not have, or one
\* sector too few
FillZerosNextIndex ==
  /\ pc = "fill"
  /\ \E lb \in DOMAIN uncovered :
       /\ \A b \in DOMAIN uncovered : lb <= b
       /\ Maps!Claim(lb, uncovered[lb], Len(extents) + 1)
  /\ pc' = "zero"
  /\ UNCHANGED <<disk, openVars, readVars>>

FillZerosLess ==
  /\ pc = "fill"
  /\ \E lb \in DOMAIN uncovered :
       /\ \A b \in DOMAIN uncovered : lb <= b
       /\ Maps!Claim(lb, uncovered[lb] - 1, Len(extents))
  /\ pc' = "zero"
  /\ UNCHANGED <<disk, openVars, readVars>>

\* zero-fill the first uncovered span: insert it, and then push its extent
FillZeros ==
  /\ pc = "fill"
  /\ \E lb \in DOMAIN uncovered :
       /\ \A b \in DOMAIN uncovered : lb <= b
       /\ Maps!Claim(lb, uncovered[lb], Len(extents))
  /\ pc' = "zero"
  /\ UNCHANGED <<disk, openVars, readVars>>

RunFill ==
  /\ pc = "zero"
  /\ Maps!InsertSpan("none")
  /\ UNCHANGED <<disk, pc, openVars, readVars>>

EndFill ==
  /\ pc = "zero"
  /\ loop = "none"
  /\ \E lb \in DOMAIN uncovered :
       /\ \A b \in DOMAIN uncovered : lb <= b
       /\ extents' = Append(extents, [start_sector |-> lb,
                                     sectors |-> uncovered[lb] - lb,
                                     storage |-> [kind |-> "zero"]])
       /\ uncovered' = Maps!Drop(uncovered, lb)
  /\ pc' = "fill"
  /\ UNCHANGED <<disk, current, idx, sources, queue, parent, todo, imageSize>>
  /\ UNCHANGED <<spans, loop, call, sbeg, readVars>>

\* into_iter() of a BTreeMap: its keys in order
Keys(m) ==
  [k \in 1 .. Cardinality(DOMAIN m) |->
     CHOOSE b \in DOMAIN m : Cardinality({c \in DOMAIN m : c < b}) = k - 1]

\* "spans are in bytes from here onward"
Opened ==
  /\ pc = "fill"
  /\ DOMAIN uncovered = {}
  /\ vec' = LET key == Keys(spans)
            IN  [k \in DOMAIN key |-> [beg |-> key[k] * SectorSize,
                                      end |-> spans[key[k]].end * SectorSize,
                                      ex  |-> spans[key[k]].val]]
  /\ pc' = "ready"
  /\ UNCHANGED <<disk, openVars, mapVars, req, ans, callVars>>

OpenStep ==
  \/ HandleImage \/ ImageFault \/ BeginExtent \/ InsertOne \/ RunMaps \/ EndExtent \/ NextImage
  \/ FillZeros \/ RunFill \/ EndFill \/ Opened

-----------------------------------------------------------------------------
(***************************************************************************)
(* read_at_offset().  Positions in vec count from 1.                       *)
(***************************************************************************)
Size == imageSize[1]

Answer(outcome, bytes) ==
  /\ ans' = [outcome |-> outcome, bytes |-> bytes]
  /\ pc' = "answered"

\* a read that starts beyond the end of the image is refused
Refuse(off, len) ==
  /\ pc = "ready"
  /\ off > Size
  /\ req' = [off |-> off, len |-> len, faulty |-> FALSE]
  /\ Answer("beyond", <<>>)
  /\ UNCHANGED <<disk, openVars, mapVars, vec, callVars>>

\* limit the buffer to the image end and find the span that the offset is in:
\* the last that starts at or before it, which has to be there
Call(off, len, faulty) ==
  LET before == {k \in DOMAIN vec : vec[k].beg <= off} IN
  /\ pc = "ready"
  /\ off <= Size
  /\ req' = [off |-> off, len |-> len, faulty |-> faulty]
  /\ ans' = NoAns
  /\ offset' = off
  /\ end' = Min({off + len, Size})
  /\ buf' = <<>>
  /\ IF before = {} THEN pc' = "panicked" /\ i' = 0
                    ELSE pc' = "read" /\ i' = Max(before)
  /\ UNCHANGED <<disk, openVars, mapVars, vec>>

\* what the storage of the span at i returns for the part of the request in it;
\* no such span, or one that ends before the offset, is a panic
Piece ==
  IF i \notin DOMAIN vec \/ vec[i].end < offset THEN Panic
  ELSE LET st == extents[vec[i].ex + 1].storage
           src == IF st.kind = "zero" THEN [file |-> "", len |-> 0, grains |-> <<>>]
                                      ELSE sources[st.source]
       IN  StorageRead(st, src, offset, Min({vec[i].end - offset, end - offset}))

\* a mistake in ReadPiece: it stays in the same span
ReadPieceSameSpan ==
  /\ pc = "read"
  /\ offset < end
  /\ Piece.outcome = "bytes"
  /\ offset' = offset + Len(Piece.bytes)
  /\ buf' = buf \o Piece.bytes
  /\ UNCHANGED <<disk, openVars, mapVars, vec, req, end, pc, ans, i>>

ReadPiece ==
  /\ pc = "read"
  /\ offset < end
  /\ \/ /\ Piece.outcome = "bytes"
        /\ offset' = offset + Len(Piece.bytes)
        /\ buf' = buf \o Piece.bytes
        /\ i' = IF offset' >= vec[i].end THEN i + 1 ELSE i
        /\ UNCHANGED <<pc, ans>>
     \/ /\ Piece.outcome # "bytes"
        /\ IF Piece.outcome = "error" THEN Answer("error", <<>>)
                                      ELSE pc' = "panicked" /\ UNCHANGED ans
        /\ UNCHANGED <<offset, buf, i>>
  /\ UNCHANGED <<disk, openVars, mapVars, vec, req, end>>

\* the source fails when the piece is read from it; what is in the buffer by
\* then stays there, and the next call starts anew
ReadFault ==
  /\ pc = "read"
  /\ req.faulty
  /\ offset < end
  /\ Piece.outcome = "bytes"
  /\ \E k \in DOMAIN Piece.bytes : Piece.bytes[k] # ZeroByte
  /\ Answer("error", <<>>)
  /\ UNCHANGED <<disk, openVars, mapVars, vec, req, callVars>>

Return ==
  /\ pc = "read"
  /\ offset >= end
  /\ Answer("bytes", buf)
  /\ UNCHANGED <<disk, openVars, mapVars, vec, req, callVars>>

\* the caller has seen the answer; nothing of the call is left in the reader
Forget ==
  /\ pc = "answered"
  /\ pc' = "ready"
  /\ req' = NoReq /\ ans' = NoAns
  /\ offset' = 0 /\ end' = 0 /\ i' = 0 /\ buf' = <<>>
  /\ UNCHANGED <<disk, openVars, mapVars, vec>>

ReadStep == ReadPiece \/ ReadFault \/ Return

-----------------------------------------------------------------------------
ReaderInit ==
  /\ disk \in Disks
  /\ pc = "image"
  /\ current = disk.top
  /\ idx = 0
  /\ sources = [k \in {} |-> 0]
  /\ queue = <<>> /\ parent = NoParent /\ todo = {}
  /\ imageSize = <<>>
  /\ extents = <<>>
  /\ spans = [b \in {} |-> 0] /\ uncovered = [b \in {} |-> 0]
  /\ loop = "none" /\ call = Maps!NoCall /\ sbeg = 0
  /\ vec = <<>>
  /\ req = NoReq /\ ans = NoAns
  /\ offset = 0 /\ end = 0 /\ i = 0 /\ buf = <<>>

ReaderNext ==
  \/ OpenStep
  \/ /\ pc = "ready"
     /\ \E off \in 0 .. Size + 1, len \in 0 .. MaxRead, faulty \in BOOLEAN :
          Refuse(off, len) \/ Call(off, len, faulty)
  \/ ReadStep
  \/ Forget

\* One thread runs open() and every read to the end; that it is asked to read
\* is up to the caller.
ReaderSpec ==
  /\ ReaderInit
  /\ [][ReaderNext]_vars
  /\ WF_vars(OpenStep)
  /\ WF_vars(ReadStep)

-----------------------------------------------------------------------------
(***************************************************************************)
(* Properties.                                                             *)
(***************************************************************************)
Opening == {"image", "extents", "spans", "fill", "zero"}

ReaderTypeOK ==
  /\ disk \in Disks
  /\ pc \in Opening \cup {"ready", "read", "answered", "failed", "panicked"}
  /\ idx \in Nat
  /\ \A k \in DOMAIN sources : sources[k].file \in DOMAIN disk.files
  /\ \A b \in DOMAIN spans : spans[b].val \in 0 .. Len(extents)
  /\ ans.outcome \in {"none", "bytes", "error", "beyond"}
  /\ Len(buf) <= MaxRead

Disk == INSTANCE DeltaDisk WITH
  phase <- IF pc \in Opening THEN "opening" ELSE pc

\* The reader implements DeltaDisk: open() succeeds if and only if the images
\* it needs are usable and their sources answer, and never panics; a read returns
\* every byte from the nearest image of the chain that has it, to the end of the disk,
\* whichever spans, grains and extents the bytes are in, and whatever failed before, or
\* fails because a byte is beyond the end of its file or in a grain that cannot be had.
ReadsTheDisk == Disk!Spec

\* The spans of an open reader follow one another without overlap from 0 to the
\* end of the image or beyond, and without a gap before that end: read_at_offset
\* finds a span for every offset ("there must be a span staring at 0") and goes
\* from one to the next.
SpansTile ==
  pc = "ready" =>
    /\ vec # <<>>
    /\ vec[1].beg = 0
    /\ \A k \in 2 .. Len(vec) :
         /\ vec[k - 1].end <= vec[k].beg
         /\ vec[k - 1].end < Size => vec[k - 1].end = vec[k].beg
    /\ vec[Len(vec)].end >= Size

\* No read of an open reader panics: the span that the search starts with is
\* there ("there must be a span staring at 0"), so is the one that the loop goes on
\* to, none ends before the offset, and SparseStorage::read, which divides the offset
\* by the size of a grain, finds the quotient in the table that spans() made the
\* span from ("we know there is a grain for this index because we registered it in
\* the span map").
ReadsDoNotPanic == [][pc' = "panicked" => pc \notin {"ready", "read"}]_vars

\* open() goes on to an image only when those before it leave a byte of the
\* disk to it ("stop if we have extents for all spans"); an image that is not
\* needed may be gone, or not be an image.
OpensOnlyNeeded ==
  pc = "image" =>
    \E n \in 1 .. MaxDepth : Disk!Chain[n] = current /\ Disk!Needed[n]

\* A source index, once given out, stays with its file: extents hold indices,
\* and open() counts the indices on its own while handle_image and read_extents
\* give them out.
SourcesStay ==
  [][\A k \in DOMAIN sources :
       k \in DOMAIN sources' /\ sources'[k] = sources[k]]_vars

\* open() returns, on chains that end.
OpenReturns == pc \in Opening ~> pc \notin Opening

\* Every read returns: each turn of its loop gets it further.
ReadReturns == pc = "read" ~> pc # "read"
=============================================================================
