------------------------------- MODULE Headers -------------------------------
(***************************************************************************)
(* header.rs: reading the header of a sparse file, and what it says of the *)
(* tables.                                                                 *)
(*                                                                         *)
(* The header is read twice.  handle_image reads it for the offset of the  *)
(* descriptor; read_extent then reads it again, from a clone, for the      *)
(* tables, with read_header_sparse or read_header_sesparse by the kind of  *)
(* the extent.  The header of a VMDK4 file may refer to a second one,      *)
(* FooterDist bytes before the end of the file.                            *)
(*                                                                         *)
(* A file is its signature, its length, and the headers at its two places. *)
(* Numbers are unsigned and wrap at Word, as in a release build.           *)
(***************************************************************************)
EXTENDS Integers

CONSTANTS
  Files,       \* the files considered
  Word,        \* 2^64
  SectorSize,  \* SECTOR_SIZE
  MaxGtes,     \* the most entries that a grain table of VMDK4 may have, 512
  CowdGtes,    \* how many a grain table of COWD has, 4096
  SeGrain, SeTable, SeEntry, \* SESPARSE: sectors per grain, sectors per table,
                             \* bytes per entry; 8, 64, 8
  Limit,       \* 2TB, as 1 << 41
  SeLimit      \* 64TB, as 1 << 46

ASSUME WordAssumption == Word \in Nat \ {0} /\ Limit \in Nat /\ SeLimit \in Nat

\* the numbers of a VMDK4 header are unsigned
ASSUME FilesAssumption ==
  \A f \in Files : f.sig = "vmdk4" =>
    \A h \in {f.header, f.footer} : {h.gtes, h.granularity, h.capacity} \subseteq 0 .. Word - 1

VARIABLES
  file,
  kind,    \* the kind of the extent: "sparse" or "sesparse"
  reader,  \* who reads: "descriptor" (handle_image) or "tables" (read_extent)
  stage,    \* what it does next
  chosen,  \* the header that each of them has settled on
  result   \* what read_header_sparse or read_header_sesparse returns

headerVars == <<file, kind, reader, stage, chosen, result>>

NoHeader == [sig |-> "none"]
NoMeta == [sectors |-> 0]
NoResult == [outcome |-> "none", meta |-> NoMeta]
Error == [outcome |-> "error", meta |-> NoMeta]
Panic == [outcome |-> "panic", meta |-> NoMeta]

\* how long the signature and the headers are, and where the second header is
SigLen == 8
CowdLen == 44
Vmdk4Len == 79
SeLen == 208
FooterDist == 1024

-----------------------------------------------------------------------------
(***************************************************************************)
(* The meta data.  h.flags are the flags that matter.                      *)
(***************************************************************************)
Times(a, b) == (a * b) % Word

\* the bytes that the tables are for, without and with the width
TrueSize(meta) == meta.l1_len * meta.l2_len * meta.cluster_sectors * SectorSize
SizeOf(meta) == TrueSize(meta) % Word

Limited(meta, limit) ==
  IF SizeOf(meta) > limit THEN Error ELSE [outcome |-> "meta", meta |-> meta]

Vmdk3Meta(h) ==
  Limited([compressed |-> FALSE, has_zero_grain |-> FALSE,
           sectors |-> h.capacity,
           l1_offset |-> Times(h.gd_offset, SectorSize),
           l1_len |-> h.l1dir_size,
           l2_len |-> CowdGtes,
           cluster_sectors |-> h.granularity], Limit)

\* a mistake in DivCeil: the last, partial table is not counted
DivDown(a, b) == a \div b

DivCeil(a, b) == IF a % b > 0 THEN a \div b + 1 ELSE a \div b

\* a mistake in Refused: the granularity is not looked at
RefusedBut(h) == h.version > 3 \/ h.gtes = 0 \/ h.gtes > MaxGtes

Refused(h) ==
  h.version > 3 \/ h.gtes = 0 \/ h.gtes > MaxGtes \/ h.granularity = 0

\* div_ceil panics when the product is 0
Vmdk4Meta(h) ==
  LET perEntry == Times(h.gtes, h.granularity)
  IN  IF Refused(h) THEN Error
      ELSE IF perEntry = 0 THEN Panic
      ELSE Limited(
             [compressed |-> "compressed" \in h.flags,
              has_zero_grain |-> "zero" \in h.flags,
              sectors |-> h.capacity,
              l1_offset |-> Times(IF "rgd" \in h.flags THEN h.rgd_offset ELSE h.gd_offset,
                                  SectorSize),
              l1_len |-> DivCeil(h.capacity, perEntry),
              l2_len |-> h.gtes,
              cluster_sectors |-> h.granularity], Limit)

\* h.plain says that version, flags and reserved fields are the supported ones
SeMeta(h) ==
  IF ~h.plain \/ h.grain_size # SeGrain \/ h.grain_table_size # SeTable
    THEN Error
    ELSE Limited([sectors |-> h.capacity,
                  l1_offset |-> Times(h.gd_offset, SectorSize),
                  l1_len |-> Times(h.gd_size, SectorSize) \div SeEntry,
                  l2_tables_offset |-> Times(h.gt_offset, SectorSize),
                  l2_len |-> Times(h.grain_table_size, SectorSize) \div SeEntry,
                  cluster_sectors |-> h.grain_size,
                  clusters_offset |-> h.grains_offset], SeLimit)

-----------------------------------------------------------------------------
(***************************************************************************)
(* Reading the header.                                                     *)
(***************************************************************************)

\* "GD_AT_END"
UseSecondary(h) == h.gd_offset = Word - 1 /\ h.algorithm = 1

Fail == stage' = "done" /\ result' = Error /\ UNCHANGED <<reader, chosen>>

GoOn(to) == stage' = to /\ UNCHANGED <<reader, chosen, result>>

\* a header is read; whoever reads next begins with the signature again
Settle(h, meta) ==
  /\ chosen' = [chosen EXCEPT ![reader] = h]
  /\ IF reader = "descriptor"
       THEN reader' = "tables" /\ stage' = "signature" /\ UNCHANGED result
       ELSE stage' = "done" /\ result' = meta /\ UNCHANGED reader

\* the files each of the three functions goes on with
Expected ==
  IF reader = "descriptor" THEN {"vmdk4"}
  ELSE IF kind = "sparse" THEN {"vmdk3", "vmdk4"} ELSE {"sesparse"}

\* a file without a signature is a descriptor, as far as handle_image is concerned
CheckSignature ==
  /\ stage = "signature"
  /\ IF file.len < SigLen THEN Fail
     ELSE IF file.sig \in Expected THEN GoOn("header")
     ELSE IF reader = "descriptor" /\ file.sig = "none"
       THEN stage' = "done" /\ UNCHANGED <<reader, chosen, result>>
     ELSE Fail

ReadVmdk3 ==
  /\ stage = "header" /\ file.sig = "vmdk3"
  /\ IF file.len < CowdLen THEN Fail ELSE Settle(file.header, Vmdk3Meta(file.header))

ReadVmdk4 ==
  /\ stage = "header" /\ file.sig = "vmdk4"
  /\ IF file.len < Vmdk4Len THEN Fail
     ELSE IF UseSecondary(file.header) THEN GoOn("secondary")
     ELSE Settle(file.header, Vmdk4Meta(file.header))

\* a mistake in ReadSecondary: the tables are still those of the first header
ReadSecondaryForDescriptor ==
  /\ stage = "secondary"
  /\ IF file.len < FooterDist THEN Fail
     ELSE LET h == IF reader = "tables" THEN file.header ELSE file.footer
          IN  Settle(h, Vmdk4Meta(h))

\* what is there is read as a header, whatever its signature
ReadSecondary ==
  /\ stage = "secondary"
  /\ IF file.len < FooterDist THEN Fail ELSE Settle(file.footer, Vmdk4Meta(file.footer))

ReadSeSparse ==
  /\ stage = "header" /\ file.sig = "sesparse"
  /\ IF file.len < SeLen THEN Fail ELSE Settle(file.header, SeMeta(file.header))

\* the data of an image may be in files of their own, which only read_extent opens
StartOfFile ==
  /\ kind \in {"sparse", "sesparse"}
  /\ reader \in {"descriptor", "tables"}
  /\ stage = "signature"
  /\ chosen = [r \in {"descriptor", "tables"} |-> NoHeader]
  /\ result = NoResult

HeadersInit == file \in Files /\ StartOfFile

HeadersNext ==
  /\ CheckSignature \/ ReadVmdk3 \/ ReadVmdk4 \/ ReadSecondary \/ ReadSeSparse
  /\ UNCHANGED <<file, kind>>

HeadersSpec == HeadersInit /\ [][HeadersNext]_headerVars

-----------------------------------------------------------------------------
(***************************************************************************)
(* Properties.                                                             *)
(***************************************************************************)

\* The descriptor and the tables of an image are found through one header: the
\* choice between the two headers of a VMDK4 file is written twice, in
\* handle_image and in read_header_sparse.
SameHeader ==
  \A r, s \in DOMAIN chosen :
    chosen[r] # NoHeader /\ chosen[s] # NoHeader => chosen[r] = chosen[s]

IsVmdk4 == result.outcome \in {"meta", "panic"} /\ file.sig = "vmdk4"
Wraps == chosen["tables"].gtes * chosen["tables"].granularity >= Word

\* The number of level-1 entries that is computed for a VMDK4 file is the least
\* whose tables hold all sectors of the disk: read_grain_table_sparse takes a
\* table that is not there for one that the parent has.
TablesCover ==
  IsVmdk4 /\ result.outcome = "meta" /\ ~Wraps =>
    LET m == result.meta
        held(n) == n * m.l2_len * m.cluster_sectors
    IN  held(m.l1_len) >= m.sectors /\ (m.l1_len > 0 => held(m.l1_len - 1) < m.sectors)

\* The checks leave one way out, a product that wraps: only after that is anything
\* divided by zero, or accepted with tables for more than the format may have ("2TB
\* is the maximum supported size for VMDK4", and for VMDK3, and 64TB for SESPARSE).
MaxSize == IF file.sig = "sesparse" THEN SeLimit ELSE Limit

OnlyWrapsPass ==
  /\ IsVmdk4 /\ result.outcome = "panic" => Wraps
  /\ result.outcome = "meta" /\ TrueSize(result.meta) \in 0 .. Word - 1
       => TrueSize(result.meta) <= MaxSize
=============================================================================
