-------------------------------- MODULE Spans --------------------------------
(***************************************************************************)
(* spans.rs: the two loops that VmdkReader::open runs for every piece of   *)
(* every extent it finds.                                                  *)
(*                                                                         *)
(*   insert_span(beg, end, val, spans)  fills the gaps of [beg, end) in    *)
(*     the map of spans with val; what is there already stays;             *)
(*   remove_span(beg, end, uncovered)   deletes [beg, end) from the map of *)
(*     sectors that no extent has provided so far.                         *)
(*                                                                         *)
(* A BTreeMap is a function from the span starts to the rest of the span.  *)
(* One action is one iteration of a loop; "sbeg" is the loop's mutable     *)
(* parameter of that name.                                                 *)
(***************************************************************************)
EXTENDS Naturals

CONSTANTS
  ImageEnd,  \* the image is sectors 0 .. ImageEnd-1
  Places,    \* bound: where a span can begin and end
  Ids,       \* the values spans are labelled with (indices of extents)
  MinLen     \* bound: the least number of sectors in a span inserted

ASSUME SpansAssumption ==
  /\ Places \subseteq Nat
  /\ \A p \in Places : 0 .. p \subseteq Places
  /\ ImageEnd \in Places
  /\ Ids \subseteq Nat
  /\ MinLen \in Nat

VARIABLES
  spans,      \* BTreeMap<u64, (u64, usize)>: start |-> [end, val]
  uncovered,  \* BTreeMap<u64, u64>: start |-> end
  loop,       \* the function that is running: "none", "insert", "remove"
  call,       \* its arguments
  sbeg        \* its cursor

spanVars == <<spans, uncovered, loop, call, sbeg>>

-----------------------------------------------------------------------------
(***************************************************************************)
(* BTreeMap.                                                               *)
(***************************************************************************)

\* b is the key of map.range(..=k).last()
IsLast(m, k, b) ==
  b \in DOMAIN m /\ b <= k /\ \A c \in DOMAIN m : c <= k => c <= b

\* b is the key of map.range((Excluded(k), Included(u64::MAX))).next()
IsNext(m, k, b) ==
  b \in DOMAIN m /\ k < b /\ \A c \in DOMAIN m : k < c => b <= c

\* map.insert(k, v), which replaces the value of a key that is there
Put(m, k, v) == [x \in DOMAIN m \cup {k} |-> IF x = k THEN v ELSE m[x]]

\* map.remove(&k)
Drop(m, k) == [x \in DOMAIN m \ {k} |-> m[x]]

-----------------------------------------------------------------------------
(***************************************************************************)
(* Calls and returns.                                                      *)
(***************************************************************************)
NoCall == [beg |-> 0, end |-> 0, val |-> 0]

Claim(b, e, v) ==
  /\ loop = "none"
  /\ loop' = "insert"
  /\ call' = [beg |-> b, end |-> e, val |-> v]
  /\ sbeg' = b
  /\ UNCHANGED <<spans, uncovered>>

\* return, to the loop that runs next ("remove") or to the caller ("none")
Return(after) ==
  /\ loop' = after
  /\ IF after = "none" THEN call' = NoCall /\ sbeg' = 0
                       ELSE sbeg' = call.beg /\ UNCHANGED call

Continue(k) == sbeg' = k /\ UNCHANGED <<loop, call>>

-----------------------------------------------------------------------------
(***************************************************************************)
(* insert_span.                                                            *)
(***************************************************************************)

\* a mistake in Holds: a span holds its end
HoldsItsEnd(b) == IsLast(spans, sbeg, b) /\ sbeg <= spans[b].end

\* the span at b holds the sector at the cursor
Holds(b) == IsLast(spans, sbeg, b) /\ sbeg < spans[b].end

\* a mistake in Merges: the value does not matter
MergesAny(b) == IsLast(spans, sbeg, b) /\ spans[b].end = sbeg

\* the span at b ends at the cursor and has the value being inserted
Merges(b) ==
  /\ IsLast(spans, sbeg, b)
  /\ spans[b].end = sbeg
  /\ spans[b].val = call.val

\* b is where the new span starts: at the cursor, or at the span it merges with
StartsAt(b) == IF \E c \in DOMAIN spans : Merges(c) THEN Merges(b) ELSE b = sbeg

\* [sbeg, lend) is covered: skip it
InsertCovered(after) ==
  /\ \E b \in DOMAIN spans :
       /\ Holds(b)
       /\ IF call.end <= spans[b].end THEN Return(after)
                                      ELSE Continue(spans[b].end)
  /\ UNCHANGED spans

\* mistakes in InsertBeforeNext: the gap is not merged with the next span, or is
\* filled beyond its end
InsertUnmerged(after) ==
  /\ ~\E b \in DOMAIN spans : Holds(b)
  /\ \E b \in DOMAIN spans \cup {sbeg}, u \in DOMAIN spans :
       /\ StartsAt(b)
       /\ IsNext(spans, b, u)
       /\ u <= call.end
       /\ spans' = Put(spans, b, [end |-> u, val |-> call.val])
       /\ IF spans[u].end < call.end THEN Continue(spans[u].end)
                                     ELSE Return(after)

InsertOver(after) ==
  /\ ~\E b \in DOMAIN spans : Holds(b)
  /\ \E b \in DOMAIN spans \cup {sbeg} :
       StartsAt(b) /\ spans' = Put(spans, b, [end |-> call.end, val |-> call.val])
  /\ Return(after)

\* fill the gap up to the next span, merging with that one if it has the value
InsertBeforeNext(after) ==
  /\ ~\E b \in DOMAIN spans : Holds(b)
  /\ \E b \in DOMAIN spans \cup {sbeg}, u \in DOMAIN spans :
       /\ StartsAt(b)
       /\ IsNext(spans, b, u)
       /\ u <= call.end
       /\ spans' = IF spans[u].val = call.val
                     THEN Put(Drop(spans, u), b, spans[u])
                     ELSE Put(spans, b, [end |-> u, val |-> call.val])
       /\ IF spans[u].end < call.end THEN Continue(spans[u].end)
                                     ELSE Return(after)

\* a mistake in InsertRest: one sector too many
InsertRestAndOne(after) ==
  /\ ~\E b \in DOMAIN spans : Holds(b)
  /\ \E b \in DOMAIN spans \cup {sbeg} :
       /\ StartsAt(b)
       /\ ~\E u \in DOMAIN spans : IsNext(spans, b, u) /\ u <= call.end
       /\ spans' = Put(spans, b, [end |-> call.end + 1, val |-> call.val])
  /\ Return(after)

\* no span starts in the rest of the interval: fill it and be done
InsertRest(after) ==
  /\ ~\E b \in DOMAIN spans : Holds(b)
  /\ \E b \in DOMAIN spans \cup {sbeg} :
       /\ StartsAt(b)
       /\ ~\E u \in DOMAIN spans : IsNext(spans, b, u) /\ u <= call.end
       /\ spans' = Put(spans, b, [end |-> call.end, val |-> call.val])
  /\ Return(after)

InsertSpan(after) ==
  /\ loop = "insert"
  /\ \/ InsertCovered(after)
     \/ InsertBeforeNext(after)
     \/ InsertRest(after)
  /\ UNCHANGED uncovered

-----------------------------------------------------------------------------
(***************************************************************************)
(* remove_span.                                                            *)
(***************************************************************************)

\* the uncovered span at b holds the sector at the cursor
Open(b) == IsLast(uncovered, sbeg, b) /\ sbeg < uncovered[b]

\* the map with the span at b cut back to end at the cursor, or deleted
CutBack(b) == IF b < sbeg THEN Put(uncovered, b, sbeg) ELSE Drop(uncovered, b)

\* a mistake in RemoveLast: what is after the interval goes too
RemoveLastAndRest ==
  \E b \in DOMAIN uncovered :
    /\ Open(b)
    /\ call.end <= uncovered[b]
    /\ uncovered' = CutBack(b)
    /\ Return("none")

\* the span at the cursor reaches to the end of the interval, or further
RemoveLast ==
  \E b \in DOMAIN uncovered :
    /\ Open(b)
    /\ call.end <= uncovered[b]
    /\ uncovered' = IF call.end < uncovered[b]
                      THEN Put(CutBack(b), call.end, uncovered[b])
                      ELSE CutBack(b)
    /\ Return("none")

\* the second half of an iteration: m is the map and k the cursor after the
\* first half; delete the span that starts next, or what the interval has of it
RemoveNext(m, k) ==
  \/ \E u \in DOMAIN m :
       /\ IsNext(m, k, u)
       /\ u <= call.end
       /\ IF call.end < m[u]
            THEN uncovered' = Put(Drop(m, u), call.end, m[u]) /\ Return("none")
            ELSE uncovered' = Drop(m, u) /\ Continue(m[u])
  \/ /\ ~\E u \in DOMAIN m : IsNext(m, k, u) /\ u <= call.end
     /\ uncovered' = m
     /\ Return("none")

RemoveFirst ==
  \E b \in DOMAIN uncovered :
    /\ Open(b)
    /\ uncovered[b] < call.end
    /\ RemoveNext(CutBack(b), uncovered[b])

RemoveAhead ==
  /\ ~\E b \in DOMAIN uncovered : Open(b)
  /\ RemoveNext(uncovered, sbeg)

RemoveSpan ==
  /\ loop = "remove"
  /\ RemoveLast \/ RemoveFirst \/ RemoveAhead
  /\ UNCHANGED spans

-----------------------------------------------------------------------------
(***************************************************************************)
(* The two maps as open() uses them: every span is inserted into one and   *)
(* then removed from the other.  Calls come from one thread and run to     *)
(* completion, so a loop that can iterate does.                            *)
(***************************************************************************)
SpansInit ==
  /\ spans = [b \in {} |-> NoCall]
  /\ uncovered = [b \in {0} |-> ImageEnd]
  /\ loop = "none"
  /\ call = NoCall
  /\ sbeg = 0

SpansNext ==
  \/ \E b, e \in Places, v \in Ids : b + MinLen <= e /\ Claim(b, e, v)
  \/ InsertSpan("remove")
  \/ RemoveSpan

SpansSpec == SpansInit /\ [][SpansNext]_spanVars

FairSpansSpec ==
  SpansSpec /\ WF_spanVars(InsertSpan("remove")) /\ WF_spanVars(RemoveSpan)

-----------------------------------------------------------------------------
(***************************************************************************)
(* Properties.                                                             *)
(***************************************************************************)
Sector == UNION {0 .. p - 1 : p \in Places}
Span == [end : Places, val : Ids]

\* one type invariant for all five variables
TypeOK ==
  /\ DOMAIN spans \subseteq Places
  /\ spans \in [DOMAIN spans -> Span]
  /\ DOMAIN uncovered \subseteq Places
  /\ uncovered \in [DOMAIN uncovered -> Places]
  /\ loop \in {"none", "insert", "remove"}
  /\ loop # "none" => call \in [beg : Places, end : Places, val : Ids]
  /\ sbeg \in Places

\* the labels of the spans of m that hold sector s
OwnersIn(m, s) == {m[b].val : b \in {c \in DOMAIN m : c <= s /\ s < m[c].end}}

\* the sectors that the spans of spans, or of uncovered, hold
Covered == {s \in Sector : OwnersIn(spans, s) # {}}
FreeIn(m) == {s \in Sector : \E b \in DOMAIN m : b <= s /\ s < m[b]}
Free == FreeIn(uncovered)

DisjointIn(m) ==
  \A b \in DOMAIN m :
    /\ b <= m[b].end
    /\ \A c \in DOMAIN m : b < c => m[b].end <= c

\* Spans never overlap, at any point of any loop (insert_span, spans.rs:62):
\* what the binary search and the loop of VmdkReader::read_at_offset assume.
Disjoint == DisjointIn(spans)

\* Between calls the map is as small as it can be: two spans that touch have
\* different values (the two merges of insert_span).  With Disjoint and the
\* owners of the sectors this makes the map independent of the order in which
\* the grains of an extent, the keys of a HashMap, were inserted.
Canonical ==
  loop = "none" =>
    \A b, c \in DOMAIN spans :
      spans[b].end = c /\ b # c => spans[b].val # spans[c].val

\* Between calls the two maps agree: a sector of the image is in exactly one of
\* them.  open() stops following parents when uncovered is empty and
\* zero-fills what is left in it, so a sector in both is read as its child or
\* its parent happens to be, and one in neither is a read that finds no span.
Complement == loop = "none" => Free = (0 .. ImageEnd - 1) \ Covered

Owners == INSTANCE SpanOwners WITH
  owner <- [s \in Sector |-> OwnersIn(spans, s)], free <- Free

\* The loops implement SpanOwners: the first claim of a sector wins, so the
\* data of a child image is never replaced with its parent's, however the
\* spans overlap, and each call handles exactly the sectors of its interval.
FirstClaimWins == Owners!Spec

\* Every call returns: neither loop revisits what it has passed.
CallsReturn == loop # "none" ~> loop = "none"
=============================================================================
