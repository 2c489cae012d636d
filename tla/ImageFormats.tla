----------------------------- MODULE ImageFormats -----------------------------
(***************************************************************************)
(* handle_image in vmdk_reader.rs: from a file to what it says of its      *)
(* image.  The header is read first, and says where the descriptor is; the *)
(* extents of the descriptor say whether the header is read again, for the *)
(* tables; the name of the parent is looked for in the end.                *)
(*                                                                         *)
(* An image of sparse data and its descriptor are taken to be in one file. *)
(* A file of sparse data only is read by read_extent alone: then "reader"  *)
(* is "tables" from the start, and the descriptor is not looked at.        *)
(***************************************************************************)
EXTENDS Headers, Descriptors

CONSTANT Contents  \* what is in a file: [file |-> .., image |-> ..]

\* only a VMDK4 file has its descriptor in it
ASSUME ContentsAssumption ==
  /\ {x.file : x \in Contents} \subseteq Files
  /\ {x.image : x \in Contents} \subseteq Images
  /\ \A x \in Contents : x.image.embedded <=> x.file.sig = "vmdk4"

formatVars == <<headerVars, descriptorVars>>

\* the signature, and for VMDK4 the header, have been read
AtDescriptor ==
  \/ chosen["descriptor"] # NoHeader
  \/ file.sig = "none" /\ reader = "descriptor" /\ stage = "done" /\ result = NoResult

ExtentsRead == step = "extents" /\ at > Len(Lines(desc))

\* read_extent reads a header for the extents of a kind only
NeedsTables ==
  \E k \in DOMAIN eds :
    eds[k].kind \in IF kind = "sparse" THEN {"SPARSE", "VMFSSPARSE"} ELSE {"SESPARSE"}

ReadHeader ==
  /\ reader = "descriptor"
  /\ HeadersNext
  /\ UNCHANGED descriptorVars

ReadDescriptor ==
  /\ AtDescriptor /\ ~ExtentsRead
  /\ DescriptorsNext
  /\ UNCHANGED headerVars

ReadTables ==
  /\ reader = "tables"
  /\ AtDescriptor => ExtentsRead /\ NeedsTables
  /\ HeadersNext
  /\ UNCHANGED descriptorVars

FindParent ==
  /\ AtDescriptor /\ ExtentsRead
  /\ reader = "tables" /\ NeedsTables => result.outcome = "meta"
  /\ ReadParent
  /\ UNCHANGED headerVars

FormatsInit ==
  \E x \in Contents :
    /\ file = x.file /\ image = x.image
    /\ StartOfFile /\ StartOfText

FormatsNext == ReadHeader \/ ReadDescriptor \/ ReadTables \/ FindParent

\* one thread reads a file to the end
FormatsSpec == FormatsInit /\ [][FormatsNext]_formatVars /\ WF_formatVars(FormatsNext)

-----------------------------------------------------------------------------
\* handle_image has returned or panicked, or read_extent has
Returned ==
  \/ step \in {"done", "unrecognized", "badExtent", "panic"}
  \/ result.outcome \in {"error", "panic"}
  \/ result.outcome = "meta" /\ ~AtDescriptor

\* Every file is read to an end: with what it says, or with an error as soon as it is
\* known to say nothing.
DescriptorRead == <>Returned
=============================================================================
