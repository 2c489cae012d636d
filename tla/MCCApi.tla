-------------------------------- MODULE MCCApi --------------------------------
(***************************************************************************)
(* CApi with three disks: one that may fail to open, one whose file is too *)
(* short for its second grain, and one that is never opened.               *)
(***************************************************************************)
EXTENDS CApi, MCDisks

CApiDisks ==
  {[Described(<<Ed("FLAT", "q")>>, [f \in {"q"} |-> RawData]) EXCEPT !.flaky = TRUE],
   Described(<<Part("FLAT", "q", 2)>>, [f \in {"q"} |-> File("none", NoDesc, NoHeader, 2)]),
   Disk0("m", [f \in {"c"} |-> RawData])}

TriedOffsets == {0, 3, 4, 2 * Capacity, 2 * Capacity + 1}
=============================================================================
