------------------------------- MODULE Storage -------------------------------
(***************************************************************************)
(* storage.rs: reading one piece of an image from the extent that has it.  *)
(*                                                                         *)
(* A byte of an image is the place it comes from: <<file, position>> for a *)
(* byte copied from a file, <<file, sector, k>> for the k-th byte of the   *)
(* buffer that the compressed grain at a sector of the file is inflated to *)
(* (all of it is there, whatever the stream fills), <<>> for a zero.       *)
(* A source is a file, its length in bytes, "len", and its compressed      *)
(* grains, "grains", by the sector that they start at: "size" is what the  *)
(* marker says, and "sound" whether the zlib header is one and the decoder *)
(* gives what there is without an error (see GrainInflate).                *)
(***************************************************************************)
EXTENDS Integers, Sequences, FiniteSetsExt

CONSTANT SectorSize  \* SECTOR_SIZE, in bytes

ASSUME StorageAssumption == SectorSize \in Nat \ {0}

ZeroByte == <<>>

\* what a read returns: bytes, an io::Error, or not at all
Got(bytes) == [outcome |-> "bytes", bytes |-> bytes]
IoError == [outcome |-> "error", bytes |-> <<>>]
Panic == [outcome |-> "panic", bytes |-> <<>>]

Zeros(n) == Got([k \in 1 .. n |-> ZeroByte])

\* seek to pos, then read_exact of n bytes; CacheReadSeek refuses a position
\* beyond the end of the source
ReadAt(src, pos, n) ==
  IF pos > src.len \/ pos + n > src.len
    THEN IoError
    ELSE Got([k \in 1 .. n |-> <<src.file, pos + k - 1>>])

\* a marker is the sector and the size; a zlib stream begins with its header
MarkerLen == 12
ZlibLen == 2

\* The grain passes the checks: its size is at most twice what it inflates to, and
\* after the zlib header the file has as many bytes again as the marker says, which
\* is two more than the grain has.
Inflates(src, sector, grainSize) ==
  /\ sector \in DOMAIN src.grains
  /\ src.grains[sector].sound
  /\ src.grains[sector].size <= 2 * grainSize
  /\ sector * SectorSize + MarkerLen + ZlibLen + src.grains[sector].size <= src.len

\* read_and_decompress_grain, and the bytes d .. d+n-1 of its buffer; what zlib
\* makes of the stream is external
Inflate(src, sector, grainSize, d, n) ==
  IF ~Inflates(src, sector, grainSize)
    THEN IoError
    ELSE Got([k \in 1 .. n |-> <<src.file, sector, d + k - 1>>])

-----------------------------------------------------------------------------
\* SparseStorage::read, of at most n bytes at the offset: no further than the
\* end of the grain
SparseRead(st, src, offset, n) ==
  LET grainSize == st.grain_size * SectorSize
      index == offset \div grainSize
      d == offset % grainSize
      r == Min({grainSize - d, n})
  IN  IF grainSize = 0 \/ index \notin DOMAIN st.grain_table
        THEN Panic
      ELSE IF st.zeroed_grain_table_entry /\ st.grain_table[index] = 1
        THEN Zeros(r)
      ELSE IF st.has_compressed_grain
        THEN Inflate(src, st.grain_table[index], grainSize, d, r)
        ELSE ReadAt(src, st.grain_table[index] * SectorSize + d, r)

\* FlatStorage::read.  An offset below the extent's own makes the subtraction
\* wrap to a position that no file has (a panic when overflow is checked).
FlatRead(st, src, offset, n) ==
  IF offset < st.offset * SectorSize
    THEN IoError
    ELSE ReadAt(src, offset - st.offset * SectorSize, n)

\* ExtentStorage::read
StorageRead(st, src, offset, n) ==
  CASE st.kind = "sparse" -> SparseRead(st, src, offset, n)
    [] st.kind = "flat"   -> FlatRead(st, src, offset, n)
    [] st.kind = "zero"   -> Zeros(n)
=============================================================================
