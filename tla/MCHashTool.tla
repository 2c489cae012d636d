------------------------------ MODULE MCHashTool ------------------------------
(***************************************************************************)
(* HashTool with up to two images out of five: a sparse one over its       *)
(* parent, a flat one in two files, an empty one, one whose file is too    *)
(* short, and one that may fail to open.                                   *)
(***************************************************************************)
EXTENDS HashTool, MCDisks

Delta ==
  Disk0("c", [f \in {"c", "p", "q"} |->
    CASE f = "c" -> File("vmdk4", Desc(<<Ed("SPARSE", "c")>>, "p"),
                         Header(<<<<12, 0>>, <<1, 0>>>>, FALSE, TRUE), FarEnough)
      [] f = "p" -> File("none", Desc(<<Ed("FLAT", "q")>>, NoParent), NoHeader, 0)
      [] f = "q" -> RawData])

TwoFiles ==
  Described(<<Part("FLAT", "f001", 3), Part("FLAT", "f002", 2)>>,
            [f \in {"f001", "f002"} |->
               File("none", NoDesc, NoHeader, IF f = "f001" THEN 6 ELSE 4)])

Empty == Described(<<>>, <<>>)
Cut == Described(<<Ed("FLAT", "q")>>, [f \in {"q"} |-> File("none", NoDesc, NoHeader, 7)])

Images == {Delta, TwoFiles, Empty, Cut, [Delta EXCEPT !.flaky = TRUE]}
UpToTwoImages == {<<>>} \cup {<<a>> : a \in Images} \cup {<<a, b>> : a, b \in Images}
=============================================================================
