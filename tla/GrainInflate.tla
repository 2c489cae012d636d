----------------------------- MODULE GrainInflate -----------------------------
(***************************************************************************)
(* read_and_decompress_grain in storage.rs: one compressed grain.          *)
(*                                                                         *)
(* A grain is a marker (the sector and the number of compressed bytes) and *)
(* a zlib stream of that many bytes, of which the first two are a header.  *)
(* The two are read and checked, and then as many bytes as the marker says *)
(* are read once more: two more than the grain has.  The decoder is asked  *)
(* for what is missing in the buffer until it gives nothing.               *)
(*                                                                         *)
(* The decoder, DeflateDecoder of flate2, is external.  A call gives some  *)
(* of the bytes that are left, as many as it likes and at most what the    *)
(* slice takes; none when the stream is at its end, when its input is, or  *)
(* when the slice has no room; and an error where the stream is corrupt.   *)
(***************************************************************************)
EXTENDS Integers

CONSTANTS
  GrainSize,   \* bytes in a grain
  MaxSize,     \* bound: the largest size in a marker
  MaxBytes     \* bound: the most bytes that a stream inflates to

ASSUME SizesAssumption == GrainSize \in Nat \ {0} /\ MaxSize \in Nat /\ MaxBytes \in Nat

VARIABLES
  grain,  \* [size: in the marker; there: bytes in the file from the marker on;
          \*  zlib: whether the header is one of zlib's; bytes: how many the
          \*  stream inflates to; corrupt: whether it breaks off with an error]
  buf,    \* 0, or which byte of the grain is there
  c,      \* bytes in the buffer
  at      \* "marker", "zlib", "data", "loop", "ok" or "error"

inflateVars == <<grain, buf, c, at>>

MarkerLen == 12
ZlibLen == 2

Buffer == [1 .. GrainSize -> Nat]
Grains ==
  {g \in [size : 0 .. MaxSize, there : 0 .. MarkerLen + ZlibLen + MaxSize,
          zlib : BOOLEAN, bytes : 0 .. MaxBytes, corrupt : BOOLEAN] :
     g.bytes > 0 => g.size > ZlibLen}

InflateInit ==
  /\ grain \in Grains
  /\ buf = [k \in 1 .. GrainSize |-> 0]
  /\ c = 0
  /\ at = "marker"

Step(from, ok, to) ==
  /\ at = from
  /\ at' = IF ok THEN to ELSE "error"
  /\ UNCHANGED <<grain, buf, c>>

\* a mistake in ReadMarker: no room is left for what zlib adds
ReadMarkerTight ==
  Step("marker", grain.there >= MarkerLen /\ grain.size <= GrainSize, "zlib")

\* "the data size we've read from the header is clearly corrupt"
ReadMarker ==
  Step("marker", grain.there >= MarkerLen /\ grain.size <= 2 * GrainSize, "zlib")

ReadZlibHeader ==
  Step("zlib", grain.there >= MarkerLen + ZlibLen /\ grain.zlib, "data")

ReadData ==
  Step("data", grain.there >= MarkerLen + ZlibLen + grain.size, "loop")

Room == GrainSize - c
Left == grain.bytes - c

\* the next r bytes of the stream go behind those that are there; the test for a
\* full buffer comes after the one for r = 0

\* a mistake in Inflate: a call that gives less than asked for is taken for the last
InflateOnce(r) ==
  /\ at = "loop"
  /\ r > 0 /\ r <= Room /\ r <= Left
  /\ buf' = [k \in 1 .. GrainSize |-> IF k > c /\ k <= c + r THEN k ELSE buf[k]]
  /\ c' = c + r
  /\ at' = IF r < Room THEN "ok" ELSE "loop"
  /\ UNCHANGED grain

Inflate(r) ==
  /\ at = "loop"
  /\ r > 0 /\ r <= Room /\ r <= Left
  /\ buf' = [k \in 1 .. GrainSize |-> IF k > c /\ k <= c + r THEN k ELSE buf[k]]
  /\ c' = c + r
  /\ IF c = GrainSize THEN at' = "error" ELSE UNCHANGED at
  /\ UNCHANGED grain

\* a mistake in InflateNothing: only a full buffer ends the loop
InflateNothingWhenFull ==
  /\ at = "loop" /\ (Room = 0 \/ (Left = 0 /\ ~grain.corrupt))
  /\ at' = IF Room = 0 THEN "ok" ELSE "loop"
  /\ UNCHANGED <<grain, buf, c>>

InflateNothing ==
  /\ at = "loop" /\ (Room = 0 \/ (Left = 0 /\ ~grain.corrupt))
  /\ at' = "ok"
  /\ UNCHANGED <<grain, buf, c>>

InflateFails ==
  /\ at = "loop" /\ Left = 0 /\ grain.corrupt
  /\ at' = "error"
  /\ UNCHANGED <<grain, buf, c>>

InflateNext ==
  \/ ReadMarker
  \/ ReadZlibHeader
  \/ ReadData
  \/ \E r \in 1 .. GrainSize : Inflate(r)
  \/ InflateNothing
  \/ InflateFails

\* a function that is called runs on
InflateSpec == InflateInit /\ [][InflateNext]_inflateVars /\ WF_inflateVars(InflateNext)

-----------------------------------------------------------------------------
(***************************************************************************)
(* Properties.                                                             *)
(***************************************************************************)

\* A grain that is accepted and no larger than its size has the bytes of the stream
\* in order, as far as they go, and zeros after them, however the decoder splits
\* them up.
WholeGrain ==
  at = "ok" /\ grain.bytes <= GrainSize =>
    buf = [k \in 1 .. GrainSize |-> IF k <= grain.bytes THEN k ELSE 0]

\* "The decompressed data should not be larger than the grain size": a stream that
\* gives more is refused, not cut off.  The code does not do so: with a full buffer
\* it asks the decoder for no bytes, gets none, and is done before the test.
TooLargeIsRefused == at = "ok" => grain.bytes <= GrainSize

\* A sound grain is lost only for want of the two bytes too many that are read.
Sound ==
  /\ grain.zlib /\ ~grain.corrupt
  /\ grain.size <= 2 * GrainSize
  /\ grain.there >= MarkerLen + grain.size
LostOnlyAtTheEnd ==
  at = "error" /\ Sound => grain.there < MarkerLen + ZlibLen + grain.size

\* The loop over the decoder ends, for streams that are too short as for those
\* that are too long.
InflateEnds == <>(at \in {"ok", "error"})
=============================================================================
