----------------------------- MODULE SpanOwners -----------------------------
(***************************************************************************)
(* What the span map of spans.rs promises, without the map.                *)
(*                                                                         *)
(* A sector belongs to the first claim that covers it and never changes    *)
(* hands; the sectors of the image that no claim has covered are free.     *)
(* A claim (beg, end, val) is served by two sweeps of a cursor, one that   *)
(* hands out the unowned sectors it passes (insert_span) and one that      *)
(* takes the sectors it passes out of the free set (remove_span).  A sweep *)
(* may pause anywhere: the loops of spans.rs stop at span boundaries, of   *)
(* which this specification knows nothing.                                 *)
(***************************************************************************)
EXTENDS Naturals

CONSTANTS
  ImageEnd,  \* sectors 0 .. ImageEnd-1 make up the image
  Places,    \* where a claim can begin and end
  Ids,       \* what a sector can belong to: indices of extents
  MinLen     \* the least number of sectors in a claim

VARIABLES
  owner,     \* owner[s]: {} or {v}, v the owner of sector s
  free,      \* sectors of the image still without data
  loop,      \* "none", "insert" or "remove": the sweep in progress
  call,      \* the claim being served
  sbeg       \* the cursor of the sweep

vars == <<owner, free, loop, call, sbeg>>

Sector == UNION {0 .. p - 1 : p \in Places}
NoCall == [beg |-> 0, end |-> 0, val |-> 0]

Init ==
  /\ owner = [s \in Sector |-> {}]
  /\ free = 0 .. ImageEnd - 1
  /\ loop = "none"
  /\ call = NoCall
  /\ sbeg = 0

Claim(b, e, v) ==
  /\ loop = "none"
  /\ loop' = "insert"
  /\ call' = [beg |-> b, end |-> e, val |-> v]
  /\ sbeg' = b
  /\ UNCHANGED <<owner, free>>

\* The sweep is over and control goes to the next one, or back to the caller.
Return(after) ==
  /\ loop' = after
  /\ IF after = "none" THEN call' = NoCall /\ sbeg' = 0
                       ELSE sbeg' = call.beg /\ UNCHANGED call

\* The cursor has reached k: pause there, or return if the claim ends there.
MoveTo(k, after) ==
  \/ k = call.end /\ Return(after)
  \/ sbeg < k /\ k <= call.end /\ sbeg' = k /\ UNCHANGED <<loop, call>>

Swept(s, k) == sbeg <= s /\ s < k

HandOut ==
  /\ loop = "insert"
  /\ \E k \in Places :
       /\ owner' = [s \in Sector |-> IF owner[s] = {} /\ Swept(s, k)
                                       THEN {call.val} ELSE owner[s]]
       /\ MoveTo(k, "remove")
  /\ UNCHANGED free

TakeOut ==
  /\ loop = "remove"
  /\ \E k \in Places :
       /\ free' = {s \in free : ~Swept(s, k)}
       /\ MoveTo(k, "none")
  /\ UNCHANGED owner

Next ==
  \/ \E b, e \in Places, v \in Ids : b + MinLen <= e /\ Claim(b, e, v)
  \/ HandOut
  \/ TakeOut

Spec == Init /\ [][Next]_vars
=============================================================================
