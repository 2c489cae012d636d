--------------------------- MODULE MCCachedSources ---------------------------
(***************************************************************************)
(* Two files, of a chunk and a half and of one chunk, and two handles.  *)
(***************************************************************************)
EXTENDS CachedSources

TwoFiles == [f \in {"a", "b"} |-> IF f = "a" THEN 3 ELSE 2]
=============================================================================
