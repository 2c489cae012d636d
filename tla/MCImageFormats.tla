---------------------------- MODULE MCImageFormats ----------------------------
(***************************************************************************)
(* The files of MCHeaders, the VMDK4 ones with a plain descriptor, and the *)
(* descriptors of MCDescriptors, the embedded ones in a plain file: the    *)
(* header and the descriptor share no more than which of them is read.     *)
(***************************************************************************)
EXTENDS ImageFormats, MCHeaders, MCDescriptors

PlainFile == [sig |-> "vmdk4", len |-> 2000, header |-> Vmdk4(1, 2, 2, 10, 7, 0, {}),
              footer |-> Footer]
TextFile == [sig |-> "none", len |-> 50, header |-> NoHeader, footer |-> NoHeader]

PlainImage(f) ==
  IF f.sig = "vmdk4" THEN Embedded(Lined(Magic) \o Lined(Extent("SPARSE", "a", 0)))
                     ELSE [embedded |-> FALSE, data |-> <<Magic>>]

AllContents ==
  {[file |-> f, image |-> PlainImage(f)] : f \in AllFiles}
  \cup {[file |-> IF i.embedded THEN PlainFile ELSE TextFile, image |-> i] : i \in FoundImages}

\* nothing but blank lines, of one byte each
BlankFiles == {[TextFile EXCEPT !.len = n] : n \in 0 .. 9}
BlankImages == {[embedded |-> FALSE, data |-> [k \in 1 .. n |-> nl]] : n \in 0 .. 9}
BlankContents ==
  {x \in [file : BlankFiles, image : BlankImages] : Len(x.image.data) = x.file.len}
=============================================================================
