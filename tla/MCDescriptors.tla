---------------------------- MODULE MCDescriptors ----------------------------
(***************************************************************************)
(* Descriptors of up to four lines: blank lines, the magic line, comments, *)
(* the parent's name, and extents of each kind, sound or not.              *)
(***************************************************************************)
EXTENDS Descriptors

Extent(kind, name, offset) ==
  [is |-> "extent", sectors |-> 8, kind |-> kind, name |-> name, offset |-> offset]

Magic == [is |-> "magic"]
Other == [is |-> "other"]
Hint(p) == [is |-> "hint", name |-> p]

Sound == {Extent("FLAT", "a", 0), Extent("FLAT", "b", 128), Extent("SPARSE", "a", 0),
          Extent("SESPARSE", "b", NoNumber), Extent("VMFS", "a", NoNumber)}
Unsound == {Extent("FLAT", "a", NoNumber), Extent("VMFS", "a", 0), Extent("SPARSE", "a", 128),
            Extent("FLAT", "a", BadNumber), Extent("VMFSRDM", None, NoNumber),
            Extent(Bad, "a", NoNumber), Extent("ZERO", "a", NoNumber),
            [Extent("VMFS", "a", NoNumber) EXCEPT !.sectors = BadNumber]}

\* lines of one body, and what may come before and after them
Lined(body) == <<body, nl>>
Starts == {<<>>, <<nl>>, <<nl, nl>>}
Heads == {Lined(Magic), Lined(Other)}
Bodies == {<<>>, <<nl>>} \cup {Lined(b) : b \in Sound \cup Unsound \cup {Other, Hint("p")}}

Texts(heads) ==
  {h \o b \o c \o d : h \in heads, b \in Bodies, c \in Bodies,
                      d \in {<<>>, Lined(Hint("q")), <<Extent("FLAT", "b", 128)>>}}

\* a line that nothing ends may be the only one
DescriptorFiles ==
  {[embedded |-> FALSE, data |-> s \o t] : s \in Starts, t \in Texts(Heads) \cup {<<Magic>>}}

\* the delimiter, and the rest of the file, which is not text
Embedded(text) == [embedded |-> TRUE, data |-> text \o <<nul, Other, nul>>]

\* no delimiter, because the file or the window ends before it
CutImages ==
  {[embedded |-> TRUE, data |-> t] : t \in Texts({Lined(Magic)}) \cup {<<>>}}

\* an extent of zeros, which has no file
ZeroImages == {Embedded(Lined(Magic) \o Lined(Extent("ZERO", None, NoNumber)))}

FoundImages ==
  DescriptorFiles \cup {Embedded(t) : t \in Texts({Lined(Magic)})} \cup CutImages \cup ZeroImages
=============================================================================
