----------------------------- MODULE Descriptors -----------------------------
(***************************************************************************)
(* descriptor.rs and extent_description.rs: finding the descriptor of an   *)
(* image, and what it says.                                                *)
(*                                                                         *)
(* The descriptor is a file of its own or embedded in a sparse file, there *)
(* followed by a zero byte.  A text is a sequence of pieces: the body of a *)
(* line, its newline "nl", or "nul", the zero byte.  A body is a record    *)
(*   is     "magic" (# Disk DescriptorFile), "hint" (the parent's name),   *)
(*          "extent" (an access mode and a space come first), or "other";  *)
(*          blanks at the end of a line do not matter and are left out;    *)
(*   sectors, kind, name, offset   of an extent; name is also the parent's *)
(*          name in a hint.  A field that is not there is None or NoNumber,*)
(*          one that cannot be parsed is Bad or BadNumber.                 *)
(***************************************************************************)
EXTENDS Integers, Sequences, SequencesExt

CONSTANTS
  Images,  \* [embedded |-> .., data |-> the pieces from where it is read]; a file
           \* of its own has the eight bytes at least that are read for a signature
  Window   \* bound of an embedded descriptor: 20 sectors, in pieces

VARIABLES
  image,
  step,    \* "text", "rest", "extents", then "done" or how it went wrong
  pos,     \* how much of a file is read
  line,
  desc,    \* the descriptor
  eds,     \* the extent descriptions so far
  at,      \* the line of desc that is next
  parent   \* the parent's name, None

descriptorVars == <<image, step, pos, line, desc, eds, at, parent>>

None == "none"
Bad == "bad"
NoNumber == -1
BadNumber == -2
nl == [is |-> "nl"]
nul == [is |-> "nul"]

\* images are sequences of pieces, and a body goes up to what ends it
ASSUME ImagesAssumption ==
  /\ Window \in Nat
  /\ \A i \in Images :
       LET ends == IF i.embedded THEN {nl, nul} ELSE {nl}
       IN  /\ i.data \in Seq({i.data[k] : k \in DOMAIN i.data})
           /\ \A k \in DOMAIN i.data : i.data[k].is = "nl" => i.data[k] = nl
           /\ \A k \in 2 .. Len(i.data) : i.data[k - 1] \in ends \/ i.data[k] \in ends

-----------------------------------------------------------------------------
(***************************************************************************)
(* The text.                                                               *)
(***************************************************************************)

\* what there is of some kinds in the first n pieces of a text
Gathered(text, kinds) ==
  LET gathered[n \in 0 .. Len(text)] ==
        IF n = 0 THEN <<>>
        ELSE IF text[n].is \in kinds THEN Append(gathered[n - 1], text[n])
        ELSE gathered[n - 1]
  IN  gathered

OfKind(text, kinds) == Gathered(text, kinds)[Len(text)]

\* a text up to and with the first of a piece, all of it when there is none
UpTo(text, piece) ==
  LET found == {k \in DOMAIN text : text[k] = piece}
  IN  IF found = {} THEN text ELSE SubSeq(text, 1, Min(found))

\* a piece without its last byte: an extent loses a digit of its offset, the
\* closing quote of its name or a letter of its kind; a hint does not need its
\* closing quote
Shortened(piece) ==
  CASE piece \in {nl, nul} -> <<>>
    [] piece.is = "hint" -> <<piece>>
    [] piece.is = "extent" ->
         << IF piece.offset > 9 THEN [piece EXCEPT !.offset = @ \div 10]
            ELSE IF piece.offset >= 0 THEN [piece EXCEPT !.offset = NoNumber]
            ELSE IF piece.name # None THEN [piece EXCEPT !.name = Bad]
            ELSE [piece EXCEPT !.kind = Bad] >>
    [] OTHER -> << [is |-> "other"] >>

\* src.take(20 * SECTOR_SIZE)
InWindow == SubSeq(image.data, 1, Min({Window, Len(image.data)}))

\* a mistake in ReadEmbedded: the zero byte is taken for text
ReadEmbeddedWhole ==
  /\ step = "text" /\ image.embedded
  /\ desc' = UpTo(InWindow, nul)
  /\ step' = "extents"
  /\ UNCHANGED <<image, pos, line, eds, at, parent>>

\* read_descriptor_internal: buf[..(len - 1)], which panics when len is 0
ReadEmbedded ==
  /\ step = "text" /\ image.embedded
  /\ LET buf == UpTo(InWindow, nul)
     IN  IF buf = <<>> THEN step' = "panic" /\ UNCHANGED desc
         ELSE desc' = Front(buf) \o Shortened(Last(buf)) /\ step' = "extents"
  /\ UNCHANGED <<image, pos, line, eds, at, parent>>

\* BufRead::read_line: nothing at the end of the file
NextLine == UpTo(SubSeq(image.data, pos + 1, Len(image.data)), nl)

Blank(text) == \A k \in DOMAIN text : text[k] = nl

\* mistakes in ReadLine: line is not cleared, or what was read is read again
ReadLineOnto ==
  /\ step = "text" /\ ~image.embedded
  /\ line' = line \o NextLine
  /\ desc' = desc \o line'
  /\ pos' = pos + Len(NextLine)
  /\ step' = IF Blank(line') THEN "text"
             ELSE IF line'[1].is = "magic" THEN "rest" ELSE "unrecognized"
  /\ UNCHANGED <<image, eds, at, parent>>

ReadLineAgain ==
  /\ step = "text" /\ ~image.embedded
  /\ step' = IF Blank(NextLine) THEN "text"
             ELSE IF NextLine[1].is = "magic" THEN "rest" ELSE "unrecognized"
  /\ UNCHANGED <<image, pos, line, desc, eds, at, parent>>

\* one turn of the loop of read_descriptor_file
ReadLine ==
  /\ step = "text" /\ ~image.embedded
  /\ LET l == line \o NextLine
     IN  /\ desc' = desc \o l
         /\ line' = IF Blank(l) THEN <<>> ELSE l
         /\ step' = IF Blank(l) THEN "text"
                    ELSE IF l[1].is = "magic" THEN "rest" ELSE "unrecognized"
  /\ pos' = pos + Len(NextLine)
  /\ UNCHANGED <<image, eds, at, parent>>

\* read_to_string, which adds to desc
ReadRest ==
  /\ step = "rest"
  /\ desc' = desc \o SubSeq(image.data, pos + 1, Len(image.data))
  /\ pos' = Len(image.data)
  /\ step' = "extents"
  /\ UNCHANGED <<image, line, eds, at, parent>>

-----------------------------------------------------------------------------
(***************************************************************************)
(* The lines.                                                              *)
(***************************************************************************)

\* str::lines, without the blank ones, none of which any of the parsers takes
Lines(text) == OfKind(text, {"magic", "hint", "extent", "other"})

\* ExtentDescriptionLine::from_str.  What follows the kind is optional, but not
\* the space before it, and the line was trimmed.
LineParses(l) ==
  /\ l.sectors # BadNumber /\ l.kind # Bad
  /\ l.name \notin {None, Bad} /\ l.offset # BadNumber

\* a mistake in Takes: no offset 0 for a sparse extent
TakesBut(l) ==
  CASE l.kind = "ZERO" -> l.name = None /\ l.offset = NoNumber
    [] l.kind = "FLAT" -> l.name # None /\ l.offset # NoNumber
    [] OTHER -> l.name # None /\ l.offset = NoNumber

\* ExtentDescription::try_from
Takes(l) ==
  CASE l.kind = "ZERO" -> l.name = None /\ l.offset = NoNumber
    [] l.kind = "FLAT" -> l.name # None /\ l.offset # NoNumber
    [] l.kind \in {"SPARSE", "SESPARSE"} -> l.name # None /\ l.offset \in {NoNumber, 0}
    [] OTHER -> l.name # None /\ l.offset = NoNumber

Described(l) ==
  [sectors |-> l.sectors, kind |-> l.kind, name |-> l.name,
   offset |-> IF l.kind = "FLAT" THEN l.offset ELSE NoNumber]

\* a mistake in ReadExtents: a line that cannot be parsed is passed over
ReadExtentsPast ==
  /\ step = "extents"
  /\ at <= Len(Lines(desc))
  /\ LET l == Lines(desc)[at]
     IN  eds' = IF l.is = "extent" /\ LineParses(l) /\ Takes(l)
                  THEN Append(eds, Described(l)) ELSE eds
  /\ at' = at + 1
  /\ UNCHANGED <<image, pos, line, desc, parent, step>>

\* one turn of the loop of extract_extent_descriptions
ReadExtents ==
  /\ step = "extents"
  /\ at <= Len(Lines(desc))
  /\ LET l == Lines(desc)[at]
     IN  \/ /\ l.is # "extent"
            /\ at' = at + 1
            /\ UNCHANGED <<step, eds>>
         \/ /\ l.is = "extent"
            /\ LineParses(l) /\ Takes(l)
            /\ eds' = Append(eds, Described(l))
            /\ at' = at + 1
            /\ UNCHANGED step
         \/ /\ l.is = "extent"
            /\ ~(LineParses(l) /\ Takes(l))
            /\ step' = "badExtent"
            /\ UNCHANGED <<eds, at>>
  /\ UNCHANGED <<image, pos, line, desc, parent>>

\* extract_parent_fn_hint: the first line that has one
ReadParent ==
  /\ step = "extents"
  /\ at > Len(Lines(desc))
  /\ LET hints == OfKind(Lines(desc), {"hint"})
     IN  parent' = IF hints = <<>> THEN None ELSE Head(hints).name
  /\ step' = "done"
  /\ UNCHANGED <<image, pos, line, desc, eds, at>>

StartOfText ==
  /\ step = "text"
  /\ pos = 0 /\ line = <<>> /\ desc = <<>>
  /\ eds = <<>> /\ at = 1 /\ parent = None

DescriptorsInit == image \in Images /\ StartOfText

DescriptorsNext == ReadEmbedded \/ ReadLine \/ ReadRest \/ ReadExtents \/ ReadParent

DescriptorsSpec == DescriptorsInit /\ [][DescriptorsNext]_descriptorVars

-----------------------------------------------------------------------------
(***************************************************************************)
(* Properties.                                                             *)
(***************************************************************************)

\* whether the byte that ends an embedded descriptor is there
Delimited == image.embedded => nul \in ToSet(InWindow)

\* what there is to read: the file, or as much as is there without that byte
Given ==
  LET before == {n \in 0 .. Len(InWindow) : \A k \in 1 .. n : InWindow[k] # nul}
  IN  IF image.embedded THEN SubSeq(InWindow, 1, Max(before)) ELSE image.data

GivenExtents == OfKind(Lines(Given), {"extent"})

\* The descriptor that is parsed is the whole text, with the lines that were read
\* one by one to recognise it and the last one before the zero byte
\* ("read_until includes the delimiter").  Without that byte the last piece, and
\* no other, loses its end, and only with nothing at all to read there is a panic.
TextWhole ==
  /\ step \in {"extents", "badExtent", "done"} =>
       IF Delimited THEN desc = Given
       ELSE IsPrefix(Front(Given), desc) /\ Len(desc) <= Len(Given)
  /\ step = "panic" => Given = <<>> /\ ~Delimited

\* A file is turned down for its first line that is not blank, and not read any
\* further ("to avoid reading a giant file which is not a descriptor file into
\* memory").
TurnedDownAtOnce ==
  step = "unrecognized" =>
    \E k \in DOMAIN image.data :
      /\ \A m \in 1 .. k - 1 : image.data[m] = nl
      /\ image.data[k].is \notin {"nl", "magic"}
      /\ pos <= k + 1

\* Extents start where the one before them ends, so the list of a descriptor that
\* is accepted has every extent line, in order, with its size, name and offset.
\* The parent is the first that is named.
NoExtentLost ==
  step = "done" /\ Delimited =>
    /\ Len(eds) = Len(GivenExtents)
    /\ \A k \in DOMAIN eds :
         /\ eds[k].sectors = GivenExtents[k].sectors
         /\ eds[k].name = GivenExtents[k].name
         /\ eds[k].kind = "FLAT" => eds[k].offset = GivenExtents[k].offset
    /\ \A k \in DOMAIN Lines(Given) :
         Lines(Given)[k].is = "hint" /\ (\A m \in 1 .. k - 1 : Lines(Given)[m].is # "hint")
           => parent = Lines(Given)[k].name

\* A descriptor is refused only for a line that is not as the format has it:
\* ZERO alone, FLAT with a name and an offset, the others with a name, and for
\* SPARSE and SESPARSE with an offset of 0 if any ("apparently 0 is possible").
\* The code adds a case: ZERO alone is not taken either, for the name and the offset
\* are optional ("read the optional filename and offset") and the space is not.
RefusedForCause ==
  step = "badExtent" /\ Delimited =>
    \E k \in DOMAIN GivenExtents :
      LET l == GivenExtents[k]
      IN  \/ l.sectors < 0 \/ l.kind = Bad \/ l.name = Bad \/ l.offset = BadNumber
          \/ l.name = None \/ l.kind = "ZERO"
          \/ (l.kind = "FLAT") # (l.offset # NoNumber) /\ l.offset # 0
          \/ l.offset = 0 /\ l.kind \notin {"FLAT", "SPARSE", "SESPARSE"}
          \/ l.kind = "FLAT" /\ l.offset = NoNumber
=============================================================================
