----------------------------- MODULE SpansProofs -----------------------------
(***************************************************************************)
(* Proofs about spans.rs for every image size, every bound on the spans    *)
(* and every set of labels.                                                *)
(***************************************************************************)
EXTENDS Spans, NatLemmas

\* m has the type of spans
SpanMap(m) ==
  /\ DOMAIN m \subseteq Places
  /\ m \in [DOMAIN m -> Span]

-----------------------------------------------------------------------------
(***************************************************************************)
(* Lemmas about one map operation on a map of disjoint spans.              *)
(***************************************************************************)

\* Deleting a span takes its sectors from it, and no other sector.
LEMMA DropSpan ==
  ASSUME NEW m, SpanMap(m), DisjointIn(m), NEW u \in DOMAIN m
  PROVE  /\ SpanMap(Drop(m, u))
         /\ DisjointIn(Drop(m, u))
         /\ \A s \in Nat : OwnersIn(Drop(m, u), s) =
              IF u <= s /\ s < m[u].end THEN {} ELSE OwnersIn(m, s)
         /\ \A s \in Nat : u <= s /\ s < m[u].end => OwnersIn(m, s) = {m[u].val}
<1> DEFINE d == Drop(m, u)
<1>1. DOMAIN d = DOMAIN m \ {u} /\ \A x \in DOMAIN d : d[x] = m[x]
  BY DEF Drop
<1>2. \A x \in DOMAIN m : x \in Nat /\ m[x].end \in Nat /\ m[x].val \in Ids
  BY SpansAssumption DEF SpanMap, Span
<1>3. SpanMap(d)
  BY <1>1 DEF SpanMap, Drop
<1>4. DisjointIn(d)
  BY <1>1 DEF DisjointIn
<1> HIDE DEF d
<1>5. ASSUME NEW s \in Nat, u <= s, s < m[u].end
      PROVE  OwnersIn(d, s) = {} /\ OwnersIn(m, s) = {m[u].val}
  <2>1. \A c \in DOMAIN m : c <= s /\ s < m[c].end => c = u
    BY <1>2, <1>5 DEF DisjointIn
  <2>2. QED
    BY <1>1, <1>5, <2>1 DEF OwnersIn
<1>6. ASSUME NEW s \in Nat, ~(u <= s /\ s < m[u].end)
      PROVE  OwnersIn(d, s) = OwnersIn(m, s)
  BY <1>1, <1>6 DEF OwnersIn
<1>7. QED
  BY <1>3, <1>4, <1>5, <1>6 DEF d

\* Filling the gap [x, y) with value v, from a start b which is x or the span
\* of value v that ends at x: the sectors of the gap, free before, get v.
LEMMA FillGap ==
  ASSUME NEW m, SpanMap(m), DisjointIn(m),
         NEW b \in Places, NEW x \in Places, NEW y \in Places,
         NEW v \in Ids,
         b <= x, x <= y,
         b = x \/ (b \in DOMAIN m /\ m[b].end = x /\ m[b].val = v),
         \A c \in DOMAIN m : c <= b => m[c].end <= x,
         \A c \in DOMAIN m : b < c => y <= c
  PROVE  LET p == Put(m, b, [end |-> y, val |-> v]) IN
         /\ SpanMap(p)
         /\ DisjointIn(p)
         /\ \A s \in Nat : OwnersIn(p, s) =
              IF x <= s /\ s < y THEN {v} ELSE OwnersIn(m, s)
         /\ \A s \in Nat : x <= s /\ s < y => OwnersIn(m, s) = {}
<1> DEFINE p == Put(m, b, [end |-> y, val |-> v])
<1>1. /\ DOMAIN p = DOMAIN m \cup {b}
      /\ p[b] = [end |-> y, val |-> v]
      /\ \A c \in DOMAIN m : c # b => p[c] = m[c]
  BY DEF Put
<1>2. \A c \in DOMAIN m : c \in Nat /\ m[c].end \in Nat /\ m[c].val \in Ids
  BY SpansAssumption DEF SpanMap, Span
<1>3. b \in Nat /\ x \in Nat /\ y \in Nat
  BY SpansAssumption
<1>4. SpanMap(p)
  <2>1. [end |-> y, val |-> v] \in Span
    BY DEF Span
  <2>2. QED
    BY <2>1 DEF SpanMap, Put
<1> HIDE DEF p
<1>5. DisjointIn(p)
  <2> SUFFICES ASSUME NEW c \in DOMAIN p
               PROVE  /\ c <= p[c].end
                      /\ \A e \in DOMAIN p : c < e => p[c].end <= e
    BY DEF DisjointIn
  <2>1. CASE c = b
    BY <1>1, <1>2, <1>3, <2>1
  <2>2. CASE c # b
    <3>1. c \in DOMAIN m /\ p[c] = m[c] /\ c <= m[c].end
      BY <1>1, <2>2 DEF DisjointIn
    <3>2. ASSUME NEW e \in DOMAIN p, c < e
          PROVE  m[c].end <= e
      <4>1. CASE e \in DOMAIN m
        BY <3>1, <3>2, <4>1 DEF DisjointIn
      <4>2. CASE e \notin DOMAIN m
        BY <1>1, <1>2, <1>3, <3>1, <3>2, <4>2
      <4>3. QED
        BY <4>1, <4>2
    <3>3. QED
      BY <3>1, <3>2
  <2>3. QED
    BY <2>1, <2>2
<1>6. ASSUME NEW s \in Nat, x <= s, s < y
      PROVE  OwnersIn(p, s) = {v} /\ OwnersIn(m, s) = {}
  <2>1. \A c \in DOMAIN m : ~(c <= s /\ s < m[c].end)
    BY <1>2, <1>3, <1>6
  <2>2. OwnersIn(m, s) = {}
    BY <2>1 DEF OwnersIn
  <2>3. \A c \in DOMAIN p : c <= s /\ s < p[c].end <=> c = b
    BY <1>1, <1>3, <1>6, <2>1
  <2>4. OwnersIn(p, s) = {v}
    BY <1>1, <2>3 DEF OwnersIn
  <2>5. QED
    BY <2>2, <2>4
<1>7. ASSUME NEW s \in Nat, ~(x <= s /\ s < y)
      PROVE  OwnersIn(p, s) = OwnersIn(m, s)
  <2>1. ASSUME NEW c \in DOMAIN p, c <= s, s < p[c].end
        PROVE  \E e \in DOMAIN m : e <= s /\ s < m[e].end /\ m[e].val = p[c].val
    <3>1. CASE c = b
      BY <1>1, <1>2, <1>3, <1>7, <2>1, <3>1
    <3>2. CASE c # b
      BY <1>1, <2>1, <3>2
    <3>3. QED
      BY <3>1, <3>2
  <2>2. ASSUME NEW c \in DOMAIN m, c <= s, s < m[c].end
        PROVE  \E e \in DOMAIN p : e <= s /\ s < p[e].end /\ p[e].val = m[c].val
    <3>1. CASE c = b
      BY <1>1, <1>2, <1>3, <1>7, <2>2, <3>1
    <3>2. CASE c # b
      BY <1>1, <2>2, <3>2
    <3>3. QED
      BY <3>1, <3>2
  <2>3. QED
    BY <2>1, <2>2 DEF OwnersIn
<1>8. QED
  BY <1>4, <1>5, <1>6, <1>7 DEF p

-----------------------------------------------------------------------------
(***************************************************************************)
(* "The next key of the map" exists when any key lies ahead.               *)
(***************************************************************************)

\* When no next key up to e is found, there is no key in (k, e].
LEMMA NoneAhead ==
  ASSUME NEW m, DOMAIN m \subseteq Nat, NEW k \in Nat, NEW e \in Nat,
         ~\E u \in DOMAIN m : IsNext(m, k, u) /\ u <= e
  PROVE  \A c \in DOMAIN m : k < c => e < c
<1> SUFFICES ASSUME NEW c \in DOMAIN m, k < c, c <= e
             PROVE  FALSE
  OBVIOUS
<1> DEFINE Ahead == {x \in DOMAIN m : k < x}
<1>1. PICK u \in Ahead : \A y \in Ahead : u <= y
  <2>1. Ahead \subseteq Nat /\ Ahead # {}
    OBVIOUS
  <2> HIDE DEF Ahead
  <2> QED
    BY <2>1, LeastElement
<1>2. IsNext(m, k, u) /\ u <= e
  BY <1>1 DEF IsNext
<1>3. QED
  BY <1>2

-----------------------------------------------------------------------------
(***************************************************************************)
(* insert_span: one iteration.                                             *)
(***************************************************************************)

\* the cursor of the loop is within the interval of the call
Cursor == loop = "insert" => call.beg <= sbeg /\ sbeg <= call.end

IInv == TypeOK /\ Disjoint /\ Cursor

\* the iteration has dealt with the sectors up to k
SweptTo(k, after) ==
  \/ k = call.end /\ Return(after)
  \/ sbeg < k /\ k <= call.end /\ Continue(k)

\* m hands every unowned sector of [sbeg, k) to the caller, and no other
HandedOut(m, k) ==
  \A s \in Nat :
    OwnersIn(m, s) = IF OwnersIn(spans, s) = {} /\ sbeg <= s /\ s < k
                       THEN {call.val} ELSE OwnersIn(spans, s)

LEMMA TypesInsert ==
  ASSUME TypeOK, loop # "none"
  PROVE  /\ SpanMap(spans)
         /\ call.beg \in Places \cap Nat /\ call.end \in Places \cap Nat
         /\ call.val \in Ids
         /\ sbeg \in Places \cap Nat
         /\ Places \subseteq Nat
         /\ \A c \in DOMAIN spans :
              c \in Nat /\ spans[c].end \in Places \cap Nat /\ spans[c].val \in Ids
BY SpansAssumption DEF TypeOK, SpanMap, Span

\* The cursor is at an uncovered sector: no span that starts at or before it
\* reaches beyond it.
LEMMA NotHeld ==
  ASSUME IInv, loop # "none", ~\E b \in DOMAIN spans : Holds(b)
  PROVE  \A c \in DOMAIN spans : c <= sbeg => spans[c].end <= sbeg
BY TypesInsert DEF IInv, Holds, IsLast, Disjoint, DisjointIn

\* A covered sector at the cursor: the map stays, and what is skipped is owned.
LEMMA StepCovered ==
  ASSUME IInv, loop = "insert", NEW after, InsertCovered(after)
  PROVE  /\ SpanMap(spans') /\ DisjointIn(spans')
         /\ \E k \in Places : SweptTo(k, after) /\ HandedOut(spans', k)
<1>1. PICK b \in DOMAIN spans :
        /\ Holds(b)
        /\ IF call.end <= spans[b].end THEN Return(after)
                                       ELSE Continue(spans[b].end)
  BY DEF InsertCovered
<1>2. spans' = spans
  BY DEF InsertCovered
<1>3. b <= sbeg /\ sbeg < spans[b].end
  BY <1>1 DEF Holds, IsLast
<1>4. SpanMap(spans') /\ DisjointIn(spans')
  BY <1>2, TypesInsert DEF IInv, Disjoint
<1> DEFINE k == IF call.end <= spans[b].end THEN call.end ELSE spans[b].end
<1>5. k \in Places \cap Nat /\ SweptTo(k, after) /\ k <= spans[b].end
  BY <1>1, <1>3, TypesInsert DEF IInv, SweptTo
<1>6. HandedOut(spans', k)
  <2>1. \A s \in Nat : sbeg <= s /\ s < k => spans[b].val \in OwnersIn(spans, s)
    BY <1>3, <1>5, TypesInsert DEF IInv, OwnersIn
  <2>2. QED
    BY <1>2, <2>1 DEF HandedOut
<1>7. QED
  BY <1>4, <1>5, <1>6

\* The start of the new span satisfies what FillGap asks of it.
LEMMA StartOfGap ==
  ASSUME IInv, loop = "insert", ~\E b \in DOMAIN spans : Holds(b),
         NEW b \in DOMAIN spans \cup {sbeg}, StartsAt(b)
  PROVE  /\ b \in Places \cap Nat /\ b <= sbeg
         /\ b = sbeg \/ (/\ b \in DOMAIN spans
                         /\ spans[b].end = sbeg
                         /\ spans[b].val = call.val)
         /\ \A c \in DOMAIN spans : c <= b => spans[c].end <= sbeg
         /\ \A c \in DOMAIN spans : b < c => sbeg < c
<1>1. \A c \in DOMAIN spans : c <= sbeg => spans[c].end <= sbeg
  BY NotHeld DEF IInv
<1>2. CASE \E c \in DOMAIN spans : Merges(c)
  <2>1. /\ b \in DOMAIN spans
        /\ b <= sbeg
        /\ spans[b].end = sbeg
        /\ spans[b].val = call.val
        /\ \A c \in DOMAIN spans : c <= sbeg => c <= b
    <3>1. Merges(b)
      BY <1>2 DEF StartsAt
    <3> QED
      BY <3>1 DEF Merges, IsLast
  <2>2. /\ b \in Places /\ b \in Nat /\ sbeg \in Nat
        /\ \A c \in DOMAIN spans : c \in Nat
    BY <2>1, SpansAssumption, TypesInsert DEF IInv, SpanMap
  <2>3. \A c \in DOMAIN spans : (c <= b => c <= sbeg) /\ (b < c => sbeg < c)
    BY <2>1, <2>2
  <2>4. QED
    BY <1>1, <2>1, <2>2, <2>3
<1>3. CASE ~\E c \in DOMAIN spans : Merges(c)
  BY <1>1, <1>3, TypesInsert DEF IInv, StartsAt
<1>4. QED
  BY <1>2, <1>3

\* No span ahead: the rest of the interval is the gap.
LEMMA StepRest ==
  ASSUME IInv, loop = "insert", NEW after, InsertRest(after)
  PROVE  /\ SpanMap(spans') /\ DisjointIn(spans')
         /\ \E k \in Places : SweptTo(k, after) /\ HandedOut(spans', k)
<1>1. PICK b \in DOMAIN spans \cup {sbeg} :
        /\ StartsAt(b)
        /\ ~\E u \in DOMAIN spans : IsNext(spans, b, u) /\ u <= call.end
        /\ spans' = Put(spans, b, [end |-> call.end, val |-> call.val])
  BY DEF InsertRest
<1>2. Return(after) /\ ~\E c \in DOMAIN spans : Holds(c)
  BY DEF InsertRest
<1>3. /\ b \in Places \cap Nat /\ b <= sbeg
      /\ b = sbeg \/ (/\ b \in DOMAIN spans
                      /\ spans[b].end = sbeg
                      /\ spans[b].val = call.val)
      /\ \A c \in DOMAIN spans : c <= b => spans[c].end <= sbeg
  BY <1>1, <1>2, StartOfGap
<1>4. \A c \in DOMAIN spans : b < c => call.end <= c
  BY <1>1, <1>3, NoneAhead, TypesInsert DEF IInv
<1>5. /\ sbeg \in Places /\ call.end \in Places /\ call.val \in Ids
      /\ sbeg \in Nat /\ call.end \in Nat /\ sbeg <= call.end
      /\ SpanMap(spans) /\ DisjointIn(spans)
  BY TypesInsert DEF IInv, Cursor, Disjoint
<1>6. /\ SpanMap(spans') /\ DisjointIn(spans')
      /\ \A s \in Nat : OwnersIn(spans', s) =
           IF sbeg <= s /\ s < call.end THEN {call.val} ELSE OwnersIn(spans, s)
      /\ \A s \in Nat : sbeg <= s /\ s < call.end => OwnersIn(spans, s) = {}
  BY <1>1, <1>3, <1>4, <1>5, FillGap
<1>7. SweptTo(call.end, after) /\ HandedOut(spans', call.end)
  BY <1>2, <1>6 DEF SweptTo, HandedOut
<1>8. QED
  BY <1>5, <1>6, <1>7

\* A span ahead: the gap ends where it starts, and the iteration where it ends.
LEMMA StepBeforeNext ==
  ASSUME IInv, loop = "insert", NEW after, InsertBeforeNext(after)
  PROVE  /\ SpanMap(spans') /\ DisjointIn(spans')
         /\ \E k \in Places : SweptTo(k, after) /\ HandedOut(spans', k)
<1> DEFINE v == call.val
<1>1. PICK b \in DOMAIN spans \cup {sbeg}, u \in DOMAIN spans :
        /\ StartsAt(b)
        /\ IsNext(spans, b, u)
        /\ u <= call.end
        /\ spans' = IF spans[u].val = v
                      THEN Put(Drop(spans, u), b, spans[u])
                      ELSE Put(spans, b, [end |-> u, val |-> v])
        /\ IF spans[u].end < call.end THEN Continue(spans[u].end)
                                      ELSE Return(after)
  BY DEF InsertBeforeNext
<1> DEFINE e == spans[u].end
<1>2. /\ b \in Places \cap Nat /\ b <= sbeg
      /\ b = sbeg \/ (/\ b \in DOMAIN spans
                      /\ spans[b].end = sbeg
                      /\ spans[b].val = v)
      /\ \A c \in DOMAIN spans : c <= b => spans[c].end <= sbeg
      /\ \A c \in DOMAIN spans : b < c => sbeg < c
  BY <1>1, StartOfGap DEF InsertBeforeNext
<1>3. /\ sbeg \in Places \cap Nat /\ call.end \in Places \cap Nat /\ v \in Ids
      /\ SpanMap(spans) /\ DisjointIn(spans)
      /\ u \in Places \cap Nat /\ e \in Places \cap Nat
      /\ spans[u] = [end |-> e, val |-> spans[u].val]
      /\ Places \subseteq Nat
  BY TypesInsert DEF IInv, Disjoint, SpanMap, Span
<1>4. /\ b < u /\ sbeg < u /\ u <= e
      /\ \A c \in DOMAIN spans : b < c => u <= c
      /\ \A c \in DOMAIN spans : u < c => e <= c
  BY <1>1, <1>2, <1>3 DEF IsNext, DisjointIn
<1>5. \A s \in Nat : u <= s /\ s < e => OwnersIn(spans, s) = {spans[u].val}
  BY <1>3, DropSpan
<1> DEFINE k == IF e < call.end THEN e ELSE call.end
<1>6. k \in Places \cap Nat /\ SweptTo(k, after) /\ k <= e /\ u <= k
  BY <1>1, <1>3, <1>4 DEF SweptTo
<1>7. CASE spans[u].val # v
  <2>1. /\ SpanMap(spans') /\ DisjointIn(spans')
        /\ \A s \in Nat : OwnersIn(spans', s) =
             IF sbeg <= s /\ s < u THEN {v} ELSE OwnersIn(spans, s)
        /\ \A s \in Nat : sbeg <= s /\ s < u => OwnersIn(spans, s) = {}
    <3>1. spans' = Put(spans, b, [end |-> u, val |-> v])
      BY <1>1, <1>7
    <3>2. sbeg <= u
      BY <1>3, <1>4
    <3> HIDE DEF v, e
    <3>3. QED
      BY <1>2, <1>3, <1>4, <3>1, <3>2, FillGap DEF v
  <2>2. HandedOut(spans', k)
    BY <1>3, <1>5, <1>6, <2>1 DEF HandedOut
  <2>3. QED
    BY <1>6, <2>1, <2>2
<1>8. CASE spans[u].val = v
  <2> DEFINE d == Drop(spans, u)
  <2>1. /\ SpanMap(d) /\ DisjointIn(d)
        /\ \A s \in Nat : OwnersIn(d, s) =
             IF u <= s /\ s < e THEN {} ELSE OwnersIn(spans, s)
    BY <1>3, DropSpan
  <2>2. DOMAIN d = DOMAIN spans \ {u} /\ \A c \in DOMAIN d : d[c] = spans[c]
    BY DEF Drop
  <2>3. spans' = Put(d, b, [end |-> e, val |-> v])
    BY <1>1, <1>3, <1>8
  <2>4. /\ sbeg <= e
        /\ b = sbeg \/ (b \in DOMAIN d /\ d[b].end = sbeg /\ d[b].val = v)
        /\ \A c \in DOMAIN d : c <= b => d[c].end <= sbeg
    BY <1>2, <1>3, <1>4, <2>2
  <2>5. \A c \in DOMAIN d : b < c => e <= c
    <3>1. ASSUME NEW c \in DOMAIN d, b < c
          PROVE  u < c
      <4>1. c \in DOMAIN spans /\ c # u /\ c \in Nat /\ u <= c
        BY <1>4, <2>2, <3>1, TypesInsert DEF IInv
      <4>2. QED
        BY <1>3, <4>1
    <3>2. QED
      BY <1>4, <2>2, <3>1
  <2> HIDE DEF d, e, v
  <2>6. /\ SpanMap(spans') /\ DisjointIn(spans')
        /\ \A s \in Nat : OwnersIn(spans', s) =
             IF sbeg <= s /\ s < e THEN {v} ELSE OwnersIn(d, s)
        /\ \A s \in Nat : sbeg <= s /\ s < e => OwnersIn(d, s) = {}
    <3>1. /\ b \in Places \cap Nat /\ sbeg \in Places \cap Nat /\ e \in Places \cap Nat
          /\ v \in Ids /\ b <= sbeg
      BY <1>2, <1>3
    <3>2. SpanMap(d) /\ DisjointIn(d)
      BY <2>1
    <3>3. QED
      BY <2>3, <2>4, <2>5, <3>1, <3>2, FillGap
  <2>7. HandedOut(spans', k)
    <3>1. ASSUME NEW s \in Nat, sbeg <= s, s < u
          PROVE  OwnersIn(spans, s) = {} /\ OwnersIn(spans', s) = {v}
      BY <1>3, <1>4, <2>1, <2>6, <3>1
    <3>2. ASSUME NEW s \in Nat, u <= s, s < e
          PROVE  OwnersIn(spans, s) = {v} /\ OwnersIn(spans', s) = {v}
      BY <1>3, <1>4, <1>5, <1>8, <2>6, <3>2 DEF e
    <3>3. ASSUME NEW s \in Nat, s < sbeg \/ e <= s
          PROVE  OwnersIn(spans', s) = OwnersIn(spans, s)
      BY <1>3, <1>4, <2>1, <2>6, <3>3
    <3>4. QED
      BY <1>3, <1>4, <1>6, <3>1, <3>2, <3>3 DEF HandedOut, v
  <2>8. QED
    BY <1>6, <2>6, <2>7
<1>9. QED
  BY <1>7, <1>8

\* What one iteration of insert_span does, whichever branch it takes: it hands
\* the unowned sectors that it passes to the caller and leaves the others.
LEMMA InsertStep ==
  ASSUME IInv, NEW after, InsertSpan(after)
  PROVE  /\ SpanMap(spans') /\ DisjointIn(spans')
         /\ \E k \in Places : SweptTo(k, after) /\ HandedOut(spans', k)
BY StepCovered, StepBeforeNext, StepRest DEF InsertSpan

-----------------------------------------------------------------------------
(***************************************************************************)
(* remove_span: one iteration.  Unlike insert_span it needs the intervals  *)
(* it is called with to be nonempty: an empty one inside a span cuts the   *)
(* span in two that touch, and the search for the next key then passes     *)
(* over the second.                                                        *)
(***************************************************************************)

\* m has the type of uncovered
FreeMap(m) ==
  /\ DOMAIN m \subseteq Places
  /\ m \in [DOMAIN m -> Places]

\* the spans of m neither overlap nor touch
GapsIn(m) ==
  \A b \in DOMAIN m :
    /\ b <= m[b]
    /\ \A c \in DOMAIN m : b < c => m[b] < c

\* some span of m holds sector s
HeldIn(m, s) == \E b \in DOMAIN m : b <= s /\ s < m[b]

\* no span of m that starts at or before k reaches beyond it
Passed(m, k) == \A b \in DOMAIN m : b <= k => m[b] <= k

\* the calls have sectors, and the cursor is where more can be removed
RemoveCursor ==
  /\ loop = "insert" => call.beg < call.end
  /\ loop = "remove" =>
       /\ call.beg <= sbeg /\ sbeg <= call.end
       /\ sbeg < call.end \/ Passed(uncovered, sbeg)

RInv == IInv /\ GapsIn(uncovered) /\ RemoveCursor

\* m is what the map "from" holds without the sectors of [sbeg, k)
TakenOut(from, m, k) ==
  \A s \in Nat : HeldIn(m, s) <=> HeldIn(from, s) /\ ~(sbeg <= s /\ s < k)

LEMMA TypesRemove ==
  ASSUME RInv, loop = "remove"
  PROVE  /\ FreeMap(uncovered)
         /\ call.beg \in Places \cap Nat /\ call.end \in Places \cap Nat
         /\ sbeg \in Places \cap Nat /\ sbeg <= call.end
         /\ Places \subseteq Nat
         /\ \A c \in DOMAIN uncovered : c \in Nat /\ uncovered[c] \in Places \cap Nat
BY SpansAssumption DEF RInv, IInv, TypeOK, FreeMap, RemoveCursor

\* Cutting the span at the cursor back to the cursor takes the sectors from the
\* cursor on out of that span, and no other sector.
LEMMA CutBackStep ==
  ASSUME RInv, loop = "remove", NEW b \in DOMAIN uncovered, Open(b)
  PROVE  LET m == CutBack(b) IN
         /\ FreeMap(m) /\ GapsIn(m)
         /\ TakenOut(uncovered, m, uncovered[b])
         /\ \A c \in DOMAIN m : c <= uncovered[b] => m[c] <= sbeg
         /\ \A c \in DOMAIN m : uncovered[b] < c => c \in DOMAIN uncovered
<1> DEFINE m == CutBack(b)
<1>1. /\ b <= sbeg /\ sbeg < uncovered[b]
      /\ b \in Nat /\ sbeg \in Places \cap Nat /\ uncovered[b] \in Places \cap Nat
      /\ Places \subseteq Nat
  BY TypesRemove DEF Open, IsLast
<1>2. /\ DOMAIN m \subseteq DOMAIN uncovered
      /\ \A c \in DOMAIN m : m[c] = IF c = b THEN sbeg ELSE uncovered[c]
      /\ b \in DOMAIN m <=> b < sbeg
      /\ \A c \in DOMAIN uncovered : c # b => c \in DOMAIN m
  BY <1>1 DEF CutBack, Put, Drop
<1>3. FreeMap(m)
  <2>1. m = [c \in DOMAIN m |-> m[c]]
    BY DEF CutBack, Put, Drop
  <2>2. \A c \in DOMAIN m : m[c] \in Places \cap Nat
    BY <1>1, <1>2, TypesRemove
  <2> HIDE DEF m
  <2>3. QED
    BY <1>2, <2>1, <2>2, TypesRemove DEF FreeMap
<1> HIDE DEF m
<1>4. GapsIn(m)
  BY <1>1, <1>2, TypesRemove DEF RInv, GapsIn
<1>5. \A c \in DOMAIN uncovered : c < b => uncovered[c] < b
  BY DEF RInv, GapsIn
<1>6. \A c \in DOMAIN uncovered : b < c => uncovered[b] < c
  BY DEF RInv, GapsIn
<1>7. TakenOut(uncovered, m, uncovered[b])
  <2>1. ASSUME NEW s \in Nat, HeldIn(m, s)
        PROVE  HeldIn(uncovered, s) /\ ~(sbeg <= s /\ s < uncovered[b])
    BY <1>1, <1>2, <1>5, <1>6, <2>1, TypesRemove DEF HeldIn
  <2>2. ASSUME NEW s \in Nat, HeldIn(uncovered, s),
               ~(sbeg <= s /\ s < uncovered[b])
        PROVE  HeldIn(m, s)
    <3>1. PICK c \in DOMAIN uncovered : c <= s /\ s < uncovered[c]
      BY <2>2 DEF HeldIn
    <3>2. CASE c = b
      BY <1>1, <1>2, <2>2, <3>1, <3>2 DEF HeldIn
    <3>3. CASE c # b
      BY <1>2, <3>1, <3>3 DEF HeldIn
    <3>4. QED
      BY <3>2, <3>3
  <2>3. QED
    BY <2>1, <2>2 DEF TakenOut
<1>8. \A c \in DOMAIN m : c <= uncovered[b] => m[c] <= sbeg
  BY <1>1, <1>2, <1>5, <1>6, TypesRemove
<1>9. QED
  BY <1>2, <1>3, <1>4, <1>7, <1>8 DEF m

\* The second half of an iteration, from a map m that has nothing in [sbeg, k].
LEMMA RemoveNextStep ==
  ASSUME RInv, loop = "remove",
         NEW m, FreeMap(m), GapsIn(m),
         NEW k \in Places, sbeg <= k, k <= call.end,
         \A c \in DOMAIN m : c <= k => m[c] <= sbeg,
         RemoveNext(m, k)
  PROVE  /\ FreeMap(uncovered') /\ GapsIn(uncovered')
         /\ loop' = "remove" => Passed(uncovered', sbeg')
         /\ \E j \in Places :
              k <= j /\ SweptTo(j, "none") /\ TakenOut(m, uncovered', j)
<1>1. /\ \A c \in DOMAIN m : c \in Nat /\ m[c] \in Places \cap Nat
      /\ sbeg \in Places \cap Nat /\ call.end \in Places \cap Nat /\ Places \subseteq Nat
  BY TypesRemove DEF FreeMap
<1>2. CASE ~\E u \in DOMAIN m : IsNext(m, k, u) /\ u <= call.end
  <2>1. uncovered' = m /\ Return("none")
    BY <1>2 DEF RemoveNext
  <2>2. \A c \in DOMAIN m : k < c => call.end < c
    <3>1. DOMAIN m \subseteq Nat
      BY <1>1
    <3>2. QED
      BY <1>1, <1>2, <3>1, NoneAhead
  <2>3. TakenOut(m, uncovered', call.end)
    BY <1>1, <2>1, <2>2 DEF TakenOut, HeldIn
  <2>4. SweptTo(call.end, "none") /\ loop' # "remove"
    BY <2>1 DEF SweptTo, Return
  <2>5. QED
    BY <1>1, <2>1, <2>3, <2>4
<1>3. CASE \E u \in DOMAIN m : IsNext(m, k, u) /\ u <= call.end
  <2>1. PICK u \in DOMAIN m :
          /\ IsNext(m, k, u)
          /\ u <= call.end
          /\ IF call.end < m[u]
               THEN uncovered' = Put(Drop(m, u), call.end, m[u]) /\ Return("none")
               ELSE uncovered' = Drop(m, u) /\ Continue(m[u])
    BY <1>3 DEF RemoveNext
  <2>2. /\ k < u /\ u <= m[u] /\ u \in Nat /\ m[u] \in Places \cap Nat
        /\ \A c \in DOMAIN m : k < c => u <= c
        /\ \A c \in DOMAIN m : u < c => m[u] < c
        /\ \A c \in DOMAIN m : c < u => m[c] <= sbeg
    <3>1. /\ k < u /\ u <= m[u] /\ u \in Nat /\ m[u] \in Places \cap Nat
          /\ \A c \in DOMAIN m : k < c => u <= c
          /\ \A c \in DOMAIN m : u < c => m[u] < c
      BY <1>1, <2>1 DEF IsNext, GapsIn
    <3>2. \A c \in DOMAIN m : c < u => c <= k
      BY <1>1, <3>1
    <3>3. QED
      BY <3>1, <3>2
  <2>3. CASE call.end < m[u]
    <3> DEFINE d == Put(Drop(m, u), call.end, m[u])
    <3>1. uncovered' = d /\ Return("none")
      BY <2>1, <2>3
    <3>2. /\ DOMAIN d = (DOMAIN m \ {u}) \cup {call.end}
          /\ d[call.end] = m[u]
          /\ \A c \in DOMAIN d : c # call.end => d[c] = m[c]
      BY DEF Put, Drop
    <3>3. FreeMap(d)
      BY <1>1, <2>2, <3>2 DEF FreeMap, Put, Drop
    <3> HIDE DEF d
    <3>4. GapsIn(d)
      <4> SUFFICES ASSUME NEW b \in DOMAIN d
                   PROVE  /\ b <= d[b]
                          /\ \A c \in DOMAIN d : b < c => d[b] < c
        BY DEF GapsIn
      <4>1. CASE b = call.end
        BY <1>1, <2>1, <2>2, <2>3, <3>2, <4>1
      <4>2. CASE b # call.end /\ b < u
        BY <1>1, <2>1, <2>2, <2>3, <3>2, <4>2 DEF GapsIn
      <4>3. CASE b # call.end /\ u < b
        BY <1>1, <2>1, <2>2, <2>3, <3>2, <4>3 DEF GapsIn
      <4>4. QED
        BY <1>1, <2>2, <3>2, <4>1, <4>2, <4>3
    <3>5. TakenOut(m, d, call.end)
      <4>1. ASSUME NEW s \in Nat, HeldIn(d, s)
            PROVE  HeldIn(m, s) /\ ~(sbeg <= s /\ s < call.end)
        <5>1. PICK c \in DOMAIN d : c <= s /\ s < d[c]
          BY <4>1 DEF HeldIn
        <5>2. CASE c = call.end
          BY <1>1, <2>1, <2>2, <3>2, <5>1, <5>2 DEF HeldIn
        <5>3. CASE c # call.end
          BY <1>1, <2>1, <2>2, <2>3, <3>2, <5>1, <5>3 DEF HeldIn
        <5>4. QED
          BY <5>2, <5>3
      <4>2. ASSUME NEW s \in Nat, HeldIn(m, s), ~(sbeg <= s /\ s < call.end)
            PROVE  HeldIn(d, s)
        <5>1. PICK c \in DOMAIN m : c <= s /\ s < m[c]
          BY <4>2 DEF HeldIn
        <5>2. CASE c = u
          BY <1>1, <2>1, <2>2, <3>2, <4>2, <5>1, <5>2 DEF HeldIn
        <5>3. CASE c # u
          <6>1. c \in DOMAIN d /\ c # call.end
            BY <1>1, <2>1, <2>2, <2>3, <3>2, <4>2, <5>1, <5>3
          <6>2. QED
            BY <3>2, <5>1, <6>1 DEF HeldIn
        <5>4. QED
          BY <5>2, <5>3
      <4>3. QED
        BY <4>1, <4>2 DEF TakenOut
    <3>6. SweptTo(call.end, "none") /\ loop' # "remove"
      BY <3>1 DEF SweptTo, Return
    <3>7. QED
      BY <1>1, <3>1, <3>3, <3>4, <3>5, <3>6
  <2>4. CASE ~(call.end < m[u])
    <3> DEFINE d == Drop(m, u)
    <3>1. uncovered' = d /\ Continue(m[u])
      BY <2>1, <2>4
    <3>2. DOMAIN d = DOMAIN m \ {u} /\ \A c \in DOMAIN d : d[c] = m[c]
      BY DEF Drop
    <3>3. FreeMap(d)
      BY <3>2 DEF FreeMap, Drop
    <3> HIDE DEF d
    <3>4. GapsIn(d)
      BY <3>2 DEF GapsIn
    <3>5. TakenOut(m, d, m[u])
      BY <1>1, <2>2, <3>2 DEF TakenOut, HeldIn
    <3>6. sbeg' = m[u] /\ SweptTo(m[u], "none") /\ k <= m[u]
      BY <1>1, <2>2, <2>4, <3>1 DEF SweptTo, Continue
    <3>7. Passed(d, m[u])
      BY <1>1, <2>2, <3>2 DEF Passed
    <3>8. QED
      BY <2>2, <3>1, <3>3, <3>4, <3>5, <3>6, <3>7
  <2>5. QED
    BY <2>3, <2>4
<1>4. QED
  BY <1>2, <1>3
\* The span at the cursor reaches the end of the interval: what is behind the
\* interval stays.
LEMMA RemoveLastStep ==
  ASSUME RInv, loop = "remove", RemoveLast
  PROVE  /\ FreeMap(uncovered') /\ GapsIn(uncovered')
         /\ Return("none")
         /\ TakenOut(uncovered, uncovered', call.end)
<1>1. PICK b \in DOMAIN uncovered :
        /\ Open(b)
        /\ call.end <= uncovered[b]
        /\ uncovered' = IF call.end < uncovered[b]
                          THEN Put(CutBack(b), call.end, uncovered[b])
                          ELSE CutBack(b)
        /\ Return("none")
  BY DEF RemoveLast
<1> DEFINE m == CutBack(b)
           e == uncovered[b]
<1>2. /\ FreeMap(m) /\ GapsIn(m)
      /\ TakenOut(uncovered, m, e)
      /\ \A c \in DOMAIN m : c <= e => m[c] <= sbeg
      /\ \A c \in DOMAIN m : e < c => c \in DOMAIN uncovered
  BY <1>1, CutBackStep
<1>3. /\ b <= sbeg /\ sbeg < e
      /\ b \in Nat /\ e \in Places \cap Nat /\ call.end \in Places \cap Nat
      /\ sbeg \in Places \cap Nat /\ Places \subseteq Nat
  BY <1>1, TypesRemove DEF Open, IsLast
<1>4. sbeg < call.end
  <2>1. ~Passed(uncovered, sbeg)
    BY <1>3 DEF Passed
  <2>2. QED
    BY <2>1 DEF RInv, RemoveCursor
<1>5. \A c \in DOMAIN m : c \in Nat /\ m[c] \in Places \cap Nat
  BY <1>2, <1>3 DEF FreeMap
<1>6. CASE call.end = e
  BY <1>1, <1>2, <1>3, <1>6
<1>7. CASE call.end < e
  <2> DEFINE d == Put(m, call.end, e)
  <2>1. /\ DOMAIN d = DOMAIN m \cup {call.end}
        /\ d[call.end] = e
        /\ \A c \in DOMAIN d : c # call.end => d[c] = m[c]
    BY DEF Put
  <2>2. FreeMap(d)
    <3>1. d = [c \in DOMAIN d |-> d[c]]
      BY DEF Put
    <3>2. \A c \in DOMAIN d : d[c] \in Places \cap Nat
      BY <1>3, <1>5, <2>1
    <3>3. DOMAIN d \subseteq Places
      BY <1>2, <1>3, <2>1 DEF FreeMap
    <3> HIDE DEF d
    <3>4. QED
      BY <3>1, <3>2, <3>3 DEF FreeMap
  <2>3. \A c \in DOMAIN m : c <= m[c] /\ (c <= e => c <= sbeg)
    BY <1>2, <1>3, <1>5 DEF GapsIn
  <2> HIDE DEF d, m
  <2>4. GapsIn(d)
    <3> SUFFICES ASSUME NEW x \in DOMAIN d
                 PROVE  /\ x <= d[x]
                        /\ \A c \in DOMAIN d : x < c => d[x] < c
      BY DEF GapsIn
    <3>1. CASE x = call.end
      BY <1>3, <1>4, <1>5, <1>7, <2>1, <2>3, <3>1
    <3>2. CASE x # call.end
      BY <1>2, <1>3, <1>4, <1>5, <1>7, <2>1, <2>3, <3>2 DEF GapsIn
    <3>3. QED
      BY <3>1, <3>2
  <2>5. TakenOut(uncovered, d, call.end)
    <3>1. ASSUME NEW s \in Nat
          PROVE  HeldIn(d, s) <=> HeldIn(m, s) \/ (call.end <= s /\ s < e)
      BY <1>3, <1>4, <1>5, <1>7, <2>1, <2>3 DEF HeldIn
    <3>2. \A s \in Nat : sbeg <= s /\ s < e => HeldIn(uncovered, s)
      BY <1>3 DEF HeldIn
    <3>3. QED
      BY <1>2, <1>3, <1>4, <1>7, <3>1, <3>2 DEF TakenOut
  <2>6. uncovered' = d
    BY <1>1, <1>7 DEF d, m
  <2>7. QED
    BY <1>1, <2>2, <2>4, <2>5, <2>6
<1>8. QED
  BY <1>1, <1>3, <1>6, <1>7

\* What one iteration of remove_span does, whichever branch it takes.
LEMMA RemoveStep ==
  ASSUME RInv, RemoveSpan
  PROVE  /\ FreeMap(uncovered') /\ GapsIn(uncovered')
         /\ loop' = "remove" => Passed(uncovered', sbeg')
         /\ \E k \in Places :
              SweptTo(k, "none") /\ TakenOut(uncovered, uncovered', k)
<1>1. loop = "remove"
  BY DEF RemoveSpan
<1>2. CASE RemoveLast
  <2>1. /\ FreeMap(uncovered') /\ GapsIn(uncovered')
        /\ Return("none")
        /\ TakenOut(uncovered, uncovered', call.end)
    BY <1>1, <1>2, RemoveLastStep
  <2>2. QED
    BY <1>1, <2>1, TypesRemove DEF SweptTo, Return
<1>3. CASE RemoveFirst
  <2>1. PICK b \in DOMAIN uncovered :
          /\ Open(b)
          /\ uncovered[b] < call.end
          /\ RemoveNext(CutBack(b), uncovered[b])
    BY <1>3 DEF RemoveFirst
  <2> DEFINE m == CutBack(b)
             e == uncovered[b]
  <2>2. /\ FreeMap(m) /\ GapsIn(m)
        /\ TakenOut(uncovered, m, e)
        /\ \A c \in DOMAIN m : c <= e => m[c] <= sbeg
    BY <1>1, <2>1, CutBackStep
  <2>3. /\ sbeg < e /\ e \in Places /\ e <= call.end
        /\ sbeg \in Nat /\ e \in Nat /\ call.end \in Nat /\ sbeg <= e
        /\ RemoveNext(m, e)
    BY <1>1, <2>1, TypesRemove DEF Open, IsLast
  <2> HIDE DEF m, e
  <2>4. /\ FreeMap(uncovered') /\ GapsIn(uncovered')
        /\ loop' = "remove" => Passed(uncovered', sbeg')
        /\ \E j \in Places :
             e <= j /\ SweptTo(j, "none") /\ TakenOut(m, uncovered', j)
    BY <1>1, <2>2, <2>3, RemoveNextStep
  <2>5. ASSUME NEW j \in Places, e <= j, TakenOut(m, uncovered', j)
        PROVE  TakenOut(uncovered, uncovered', j)
    BY <2>2, <2>3, <2>5 DEF TakenOut
  <2>6. QED
    BY <2>4, <2>5
<1>4. CASE RemoveAhead
  <2>1. RemoveNext(uncovered, sbeg) /\ ~\E b \in DOMAIN uncovered : Open(b)
    BY <1>4 DEF RemoveAhead
  <2>2. \A c \in DOMAIN uncovered : c <= sbeg => uncovered[c] <= sbeg
    BY <1>1, <2>1, TypesRemove DEF RInv, GapsIn, Open, IsLast
  <2>3. /\ FreeMap(uncovered) /\ GapsIn(uncovered)
        /\ sbeg \in Places \cap Nat /\ sbeg <= sbeg /\ sbeg <= call.end
    BY <1>1, TypesRemove DEF RInv
  <2>4. QED
    BY <1>1, <2>1, <2>2, <2>3, RemoveNextStep
<1>5. QED
  BY <1>2, <1>3, <1>4 DEF RemoveSpan

-----------------------------------------------------------------------------
(***************************************************************************)
(* The invariant IInv, for intervals of any length.  Spans that do not     *)
(* overlap is what FillGap needs to find the sectors it hands out unowned, *)
(* and Cursor is what keeps the span it adds within the interval.          *)
(***************************************************************************)

\* remove_span keeps the type of the map, whatever the map looks like.
LEMMA RemoveTypes ==
  ASSUME TypeOK, RemoveSpan
  PROVE  /\ FreeMap(uncovered')
         /\ \/ Return("none")
            \/ \E k \in Places : Continue(k)
<1>1. /\ loop = "remove"
      /\ FreeMap(uncovered)
      /\ sbeg \in Places \cap Nat /\ call.end \in Places \cap Nat /\ Places \subseteq Nat
  BY SpansAssumption DEF RemoveSpan, TypeOK, FreeMap
<1>2. ASSUME NEW m, FreeMap(m), NEW x \in Places, NEW y \in Places
      PROVE  FreeMap(Put(m, x, y)) /\ FreeMap(Drop(m, x))
  BY <1>2 DEF FreeMap, Put, Drop
<1>3. ASSUME NEW b \in DOMAIN uncovered
      PROVE  FreeMap(CutBack(b)) /\ b \in Places \cap Nat /\ uncovered[b] \in Places \cap Nat
  <2>1. b \in Places \cap Nat /\ uncovered[b] \in Places \cap Nat
    BY <1>1 DEF FreeMap
  <2>2. FreeMap(Put(uncovered, b, sbeg)) /\ FreeMap(Drop(uncovered, b))
    BY <1>1, <1>2, <2>1
  <2>3. QED
    BY <2>1, <2>2 DEF CutBack
<1>4. ASSUME NEW m, FreeMap(m), NEW k, RemoveNext(m, k)
      PROVE  /\ FreeMap(uncovered')
             /\ \/ Return("none")
                \/ \E j \in Places : Continue(j)
  <2>1. CASE uncovered' = m /\ Return("none")
    BY <1>4, <2>1
  <2>2. ASSUME NEW u \in DOMAIN m,
               IF call.end < m[u]
                 THEN uncovered' = Put(Drop(m, u), call.end, m[u]) /\ Return("none")
                 ELSE uncovered' = Drop(m, u) /\ Continue(m[u])
        PROVE  /\ FreeMap(uncovered')
               /\ \/ Return("none")
                  \/ \E j \in Places : Continue(j)
    <3>1. u \in Places \cap Nat /\ m[u] \in Places \cap Nat
      BY <1>4, SpansAssumption DEF FreeMap
    <3>2. FreeMap(Drop(m, u))
      BY <1>2, <1>4, <3>1
    <3>3. FreeMap(Put(Drop(m, u), call.end, m[u]))
      BY <1>1, <1>2, <3>1, <3>2
    <3>4. QED
      BY <2>2, <3>1, <3>2, <3>3
  <2>3. QED
    BY <1>4, <2>1, <2>2 DEF RemoveNext
<1>5. CASE RemoveLast
  <2>1. PICK b \in DOMAIN uncovered :
          /\ uncovered' = IF call.end < uncovered[b]
                            THEN Put(CutBack(b), call.end, uncovered[b])
                            ELSE CutBack(b)
          /\ Return("none")
    BY <1>5 DEF RemoveLast
  <2>2. FreeMap(CutBack(b)) /\ FreeMap(Put(CutBack(b), call.end, uncovered[b]))
    BY <1>1, <1>2, <1>3
  <2>3. QED
    BY <2>1, <2>2
<1>6. CASE RemoveFirst
  BY <1>3, <1>4, <1>6 DEF RemoveFirst
<1>7. CASE RemoveAhead
  BY <1>1, <1>4, <1>7 DEF RemoveAhead
<1>8. QED
  BY <1>5, <1>6, <1>7 DEF RemoveSpan

LEMMA ZeroIsAPlace == 0 \in Places
<1>1. ImageEnd \in Nat /\ 0 .. ImageEnd \subseteq Places
  BY SpansAssumption
<1> QED
  BY <1>1

LEMMA InitIInv == SpansInit => IInv
<1> SUFFICES ASSUME SpansInit PROVE IInv
  OBVIOUS
<1>1. spans \in [DOMAIN spans -> Span] /\ DOMAIN spans = {}
  BY DEF SpansInit
<1>2. uncovered \in [DOMAIN uncovered -> Places] /\ DOMAIN uncovered = {0}
  BY ZeroIsAPlace, SpansAssumption DEF SpansInit
<1>3. QED
  BY <1>1, <1>2, ZeroIsAPlace, SpansAssumption
  DEF SpansInit, IInv, TypeOK, Disjoint, DisjointIn, Cursor

LEMMA NextIInv == IInv /\ [SpansNext]_spanVars => IInv'
<1> SUFFICES ASSUME IInv, [SpansNext]_spanVars PROVE IInv'
  OBVIOUS
<1>1. ASSUME NEW b \in Places, NEW e \in Places, NEW v \in Ids,
             b + MinLen <= e, Claim(b, e, v)
      PROVE  IInv'
  <2>1. b \in Nat /\ e \in Nat
    BY SpansAssumption
  <2>2. call' = [beg |-> b, end |-> e, val |-> v] /\ sbeg' = b /\ b <= e
    BY <1>1, <2>1, SpansAssumption DEF Claim
  <2>3. QED
    BY <1>1, <2>1, <2>2 DEF Claim, IInv, TypeOK, Disjoint, DisjointIn, Cursor
<1>2. CASE InsertSpan("remove")
  <2>1. /\ SpanMap(spans') /\ DisjointIn(spans')
        /\ \E k \in Places : SweptTo(k, "remove")
    BY <1>2, InsertStep
  <2>2. loop = "insert" /\ UNCHANGED uncovered
    BY <1>2 DEF InsertSpan
  <2>3. Disjoint'
    BY <2>1 DEF Disjoint, DisjointIn
  <2>4. TypeOK' /\ Cursor'
    <3>1. PICK k \in Places : SweptTo(k, "remove")
      BY <2>1
    <3>2. /\ call \in [beg : Places, end : Places, val : Ids]
          /\ call.beg <= sbeg /\ Places \subseteq Nat /\ sbeg \in Places \cap Nat
      BY <2>2, SpansAssumption DEF IInv, TypeOK, Cursor
    <3>3. call' = call /\ sbeg' \in Places /\ loop' \in {"insert", "remove"}
      BY <2>2, <3>1, <3>2 DEF SweptTo, Return, Continue
    <3>4. Cursor'
      <4>1. call.beg \in Nat /\ k \in Nat /\ sbeg \in Nat /\ call.beg <= sbeg
        BY <3>2
      <4>2. loop' = "insert" => sbeg < k /\ k <= call.end /\ sbeg' = k
        BY <3>1 DEF SweptTo, Return, Continue
      <4> QED
        BY <3>3, <4>1, <4>2 DEF Cursor
    <3>5. QED
      BY <2>1, <2>2, <3>2, <3>3, <3>4 DEF IInv, TypeOK, SpanMap
  <2>5. QED
    BY <2>3, <2>4 DEF IInv
<1>3. CASE RemoveSpan
  <2>1. /\ FreeMap(uncovered')
        /\ \/ Return("none")
           \/ \E k \in Places : Continue(k)
    BY <1>3, RemoveTypes DEF IInv
  <2>2. loop = "remove" /\ UNCHANGED spans
    BY <1>3 DEF RemoveSpan
  <2>3. sbeg' \in Places \cap Nat
    BY <2>1, SpansAssumption DEF Return, Continue
  <2>4. loop' \in {"none", "remove"} /\ (loop' # "none" => call' = call)
    BY <2>1, <2>2 DEF Return, Continue
  <2>5. TypeOK'
    BY <2>1, <2>2, <2>3, <2>4 DEF IInv, TypeOK, FreeMap
  <2>6. QED
    BY <2>2, <2>4, <2>5 DEF IInv, Disjoint, DisjointIn, Cursor
<1>4. CASE UNCHANGED spanVars
  BY <1>4 DEF spanVars, IInv, TypeOK, Disjoint, DisjointIn, Cursor
<1>5. QED
  BY <1>1, <1>2, <1>3, <1>4 DEF SpansNext

\* The maps and the state of the loops keep their types: every key and every
\* end that the loops of spans.rs compute is a sector number within the bounds
\* of the spans inserted.
THEOREM SpansTypes == SpansSpec => []TypeOK
<1>1. IInv => TypeOK
  BY DEF IInv
<1>2. QED
  BY <1>1, InitIInv, NextIInv, PTL DEF SpansSpec

\* Spans never overlap (insert_span, spans.rs:62), for every image size, every
\* set of labels and intervals of any length, empty ones included.
THEOREM SpansDisjoint == SpansSpec => []Disjoint
<1>1. IInv => Disjoint
  BY DEF IInv
<1>2. QED
  BY <1>1, InitIInv, NextIInv, PTL DEF SpansSpec

-----------------------------------------------------------------------------
(***************************************************************************)
(* The two maps together, for intervals that are not empty.  While a call  *)
(* is being served the maps disagree about some sectors of its interval:   *)
(* those that insert_span has passed, and then those that remove_span has  *)
(* yet to pass.  Everywhere else they agree at every step.                 *)
(***************************************************************************)
Unsettled(s) ==
  \/ loop = "insert" /\ call.beg <= s /\ s < sbeg
  \/ loop = "remove" /\ sbeg <= s /\ s < call.end

Agree ==
  \A s \in Sector :
    /\ HeldIn(uncovered, s) => s < ImageEnd
    /\ IF Unsettled(s)
         THEN OwnersIn(spans, s) # {}
         ELSE HeldIn(uncovered, s) <=> s < ImageEnd /\ OwnersIn(spans, s) = {}

CInv == RInv /\ Agree

LEMMA InitCInv == SpansInit => CInv
<1> SUFFICES ASSUME SpansInit PROVE CInv
  OBVIOUS
<1>1. IInv
  BY InitIInv
<1>2. /\ DOMAIN spans = {} /\ loop = "none"
      /\ DOMAIN uncovered = {0} /\ uncovered[0] = ImageEnd
  BY DEF SpansInit
<1>3. GapsIn(uncovered) /\ RemoveCursor
  BY <1>2, SpansAssumption DEF GapsIn, RemoveCursor
<1>4. Agree
  BY <1>2, SpansAssumption DEF Agree, Unsettled, HeldIn, OwnersIn, Sector
<1>5. QED
  BY <1>1, <1>3, <1>4 DEF CInv, RInv

LEMMA NextCInv ==
  ASSUME MinLen # 0, CInv, [SpansNext]_spanVars
  PROVE  CInv'
<1>1. IInv'
  BY NextIInv DEF CInv, RInv
<1>2. /\ Sector \subseteq Nat /\ sbeg \in Nat /\ Places \subseteq Nat
      /\ loop # "none" => /\ call.beg \in Places \cap Nat
                          /\ call.end \in Places \cap Nat
  BY SpansAssumption DEF CInv, RInv, IInv, TypeOK, Sector
<1>3. ASSUME NEW b \in Places, NEW e \in Places, NEW v \in Ids,
             b + MinLen <= e, Claim(b, e, v)
      PROVE  CInv'
  <2>1. /\ call' = [beg |-> b, end |-> e, val |-> v] /\ sbeg' = b /\ b < e
        /\ loop = "none" /\ loop' = "insert" /\ UNCHANGED <<spans, uncovered>>
    BY <1>3, SpansAssumption DEF Claim
  <2>2. GapsIn(uncovered') /\ RemoveCursor'
    BY <2>1 DEF CInv, RInv, RemoveCursor
  <2>3. Agree'
    BY <1>2, <2>1 DEF CInv, Agree, Unsettled
  <2>4. QED
    BY <1>1, <2>2, <2>3 DEF CInv, RInv, GapsIn
<1>4. CASE InsertSpan("remove")
  <2>1. PICK k \in Places : SweptTo(k, "remove") /\ HandedOut(spans', k)
    BY <1>4, InsertStep DEF CInv, RInv
  <2>2. loop = "insert" /\ UNCHANGED uncovered
    BY <1>4 DEF InsertSpan
  <2>3. call.beg <= sbeg /\ sbeg <= call.end /\ call.beg < call.end
    BY <2>2 DEF CInv, RInv, IInv, Cursor, RemoveCursor
  <2>4. /\ call' = call
        /\ \/ k = call.end /\ loop' = "remove" /\ sbeg' = call.beg
           \/ sbeg < k /\ k <= call.end /\ loop' = "insert" /\ sbeg' = k
    BY <2>1, <2>2 DEF SweptTo, Return, Continue
  <2>5. GapsIn(uncovered') /\ RemoveCursor'
    BY <1>2, <2>2, <2>3, <2>4 DEF CInv, RInv, RemoveCursor
  <2>6. Agree'
    <3> SUFFICES ASSUME NEW s \in Sector
                 PROVE  /\ HeldIn(uncovered', s) => s < ImageEnd
                        /\ IF Unsettled(s)'
                             THEN OwnersIn(spans', s) # {}
                             ELSE HeldIn(uncovered', s) <=>
                                    s < ImageEnd /\ OwnersIn(spans', s) = {}
      BY DEF Agree
    <3>1. Unsettled(s)' <=> call.beg <= s /\ s < k
      BY <1>2, <2>3, <2>4 DEF Unsettled
    <3>2. Unsettled(s) <=> call.beg <= s /\ s < sbeg
      BY <2>2 DEF Unsettled
    <3>3. OwnersIn(spans', s) = IF OwnersIn(spans, s) = {} /\ sbeg <= s /\ s < k
                                  THEN {call.val} ELSE OwnersIn(spans, s)
      BY <1>2, <2>1 DEF HandedOut
    <3>4. /\ HeldIn(uncovered, s) => s < ImageEnd
          /\ IF Unsettled(s)
               THEN OwnersIn(spans, s) # {}
               ELSE HeldIn(uncovered, s) <=> s < ImageEnd /\ OwnersIn(spans, s) = {}
      BY DEF CInv, Agree
    <3>5. sbeg <= k /\ s \in Nat /\ k \in Nat
      BY <1>2, <2>3, <2>4
    <3>6. CASE call.beg <= s /\ s < sbeg
      BY <1>2, <2>2, <3>1, <3>2, <3>3, <3>4, <3>5, <3>6
    <3>7. CASE sbeg <= s /\ s < k
      BY <1>2, <2>2, <2>3, <3>1, <3>2, <3>3, <3>4, <3>5, <3>7
    <3>8. CASE s < call.beg \/ k <= s
      BY <1>2, <2>2, <2>3, <3>1, <3>2, <3>3, <3>4, <3>5, <3>8
    <3>9. QED
      BY <1>2, <2>2, <2>3, <3>5, <3>6, <3>7, <3>8
  <2>7. QED
    BY <1>1, <2>5, <2>6 DEF CInv, RInv, GapsIn
<1>5. CASE RemoveSpan
  <2>1. /\ GapsIn(uncovered')
        /\ loop' = "remove" => Passed(uncovered', sbeg')
        /\ \E k \in Places :
             SweptTo(k, "none") /\ TakenOut(uncovered, uncovered', k)
    BY <1>5, RemoveStep DEF CInv
  <2>2. PICK k \in Places :
          SweptTo(k, "none") /\ TakenOut(uncovered, uncovered', k)
    BY <2>1
  <2>3. loop = "remove" /\ UNCHANGED spans
    BY <1>5 DEF RemoveSpan
  <2>4. call.beg <= sbeg /\ sbeg <= call.end
    BY <2>3 DEF CInv, RInv, RemoveCursor
  <2>5. \/ k = call.end /\ loop' = "none"
        \/ sbeg < k /\ k <= call.end /\ loop' = "remove" /\ sbeg' = k /\ call' = call
    BY <2>2, <2>3 DEF SweptTo, Return, Continue
  <2>6. RemoveCursor'
    BY <1>2, <2>1, <2>3, <2>4, <2>5 DEF RemoveCursor
  <2>7. Agree'
    <3> SUFFICES ASSUME NEW s \in Sector
                 PROVE  /\ HeldIn(uncovered', s) => s < ImageEnd
                        /\ IF Unsettled(s)'
                             THEN OwnersIn(spans', s) # {}
                             ELSE HeldIn(uncovered', s) <=>
                                    s < ImageEnd /\ OwnersIn(spans', s) = {}
      BY DEF Agree
    <3>1. Unsettled(s)' <=> k <= s /\ s < call.end
      BY <1>2, <2>3, <2>4, <2>5 DEF Unsettled
    <3>2. Unsettled(s) <=> sbeg <= s /\ s < call.end
      BY <2>3 DEF Unsettled
    <3>3. HeldIn(uncovered', s) <=> HeldIn(uncovered, s) /\ ~(sbeg <= s /\ s < k)
      BY <1>2, <2>2 DEF TakenOut
    <3>4. /\ HeldIn(uncovered, s) => s < ImageEnd
          /\ IF Unsettled(s)
               THEN OwnersIn(spans, s) # {}
               ELSE HeldIn(uncovered, s) <=> s < ImageEnd /\ OwnersIn(spans, s) = {}
      BY DEF CInv, Agree
    <3>5. sbeg <= k /\ k <= call.end /\ s \in Nat /\ k \in Nat
      BY <1>2, <2>3, <2>4, <2>5
    <3>6. CASE sbeg <= s /\ s < k
      BY <1>2, <2>3, <3>1, <3>2, <3>3, <3>4, <3>5, <3>6
    <3>7. CASE k <= s /\ s < call.end
      BY <1>2, <2>3, <3>1, <3>2, <3>3, <3>4, <3>5, <3>7
    <3>8. CASE s < sbeg \/ call.end <= s
      BY <1>2, <2>3, <3>1, <3>2, <3>3, <3>4, <3>5, <3>8
    <3>9. QED
      BY <1>2, <2>3, <3>5, <3>6, <3>7, <3>8
  <2>8. QED
    BY <1>1, <2>1, <2>6, <2>7 DEF CInv, RInv, GapsIn
<1>6. CASE UNCHANGED spanVars
  BY <1>1, <1>6
  DEF spanVars, CInv, RInv, GapsIn, RemoveCursor, Passed, Agree, Unsettled
<1>7. QED
  BY <1>3, <1>4, <1>5, <1>6 DEF SpansNext

\* Between calls every sector of the image is in exactly one of the two maps,
\* when no call has an empty interval.  open() relies on it to know that the
\* image is complete, and to know which sectors to fill with zeros.
THEOREM SpansComplement ==
  ASSUME MinLen # 0
  PROVE  SpansSpec => []Complement
<1>1. CInv => Complement
  <2> SUFFICES ASSUME CInv, loop = "none"
               PROVE  Free = (0 .. ImageEnd - 1) \ Covered
    BY DEF Complement
  <2>1. \A s \in Sector : s \in Free <=> s < ImageEnd /\ s \notin Covered
    BY DEF CInv, Agree, Unsettled, Free, FreeIn, HeldIn, Covered
  <2>2. 0 .. ImageEnd - 1 = {s \in Sector : s < ImageEnd}
    BY SpansAssumption DEF Sector
  <2>3. Free \subseteq Sector
    BY DEF Free, FreeIn
  <2>4. QED
    BY <2>1, <2>2, <2>3
<1>2. CInv /\ [SpansNext]_spanVars => CInv'
  BY NextCInv
<1>3. QED
  BY <1>1, <1>2, InitCInv, PTL DEF SpansSpec

-----------------------------------------------------------------------------
(***************************************************************************)
(* The loops implement SpanOwners.                                         *)
(***************************************************************************)
LEMMA OwnersInit == SpansInit => Owners!Init
<1> SUFFICES ASSUME SpansInit PROVE Owners!Init
  OBVIOUS
<1>1. /\ DOMAIN spans = {}
      /\ DOMAIN uncovered = {0} /\ uncovered[0] = ImageEnd
      /\ loop = "none" /\ call = NoCall /\ sbeg = 0
  BY DEF SpansInit
<1>2. \A s \in Sector : OwnersIn(spans, s) = {}
  BY <1>1 DEF OwnersIn
<1>3. Free = 0 .. ImageEnd - 1
  BY <1>1, SpansAssumption DEF Free, FreeIn, Sector
<1>4. QED
  BY <1>1, <1>2, <1>3 DEF Owners!Init, Owners!Sector, Owners!NoCall, Sector, NoCall

LEMMA OwnersNext ==
  ASSUME MinLen # 0, CInv, [SpansNext]_spanVars
  PROVE  [Owners!Next]_(Owners!vars)
<1>1. Sector \subseteq Nat /\ Owners!Sector = Sector
  BY SpansAssumption DEF Sector, Owners!Sector
<1>2. ASSUME NEW b \in Places, NEW e \in Places, NEW v \in Ids,
             b + MinLen <= e, Claim(b, e, v)
      PROVE  Owners!Next
  <2>1. Owners!Claim(b, e, v)
    BY <1>2 DEF Claim, Owners!Claim, Free, FreeIn, OwnersIn
  <2>2. QED
    BY <1>2, <2>1 DEF Owners!Next
<1>3. CASE InsertSpan("remove")
  <2>1. PICK k \in Places : SweptTo(k, "remove") /\ HandedOut(spans', k)
    BY <1>3, InsertStep DEF CInv, RInv
  <2>2. loop = "insert" /\ UNCHANGED uncovered
    BY <1>3 DEF InsertSpan
  <2>3. \A s \in Sector :
          OwnersIn(spans', s) = IF OwnersIn(spans, s) = {} /\ sbeg <= s /\ s < k
                                  THEN {call.val} ELSE OwnersIn(spans, s)
    BY <1>1, <2>1 DEF HandedOut
  <2>4. [s \in Sector |-> OwnersIn(spans', s)] =
          [s \in Owners!Sector |->
             IF [t \in Sector |-> OwnersIn(spans, t)][s] = {} /\ Owners!Swept(s, k)
               THEN {call.val} ELSE [t \in Sector |-> OwnersIn(spans, t)][s]]
    BY <1>1, <2>3 DEF Owners!Swept
  <2>5. Owners!MoveTo(k, "remove")
    BY <2>1, <2>2 DEF SweptTo, Return, Continue, Owners!MoveTo, Owners!Return,
                      NoCall, Owners!NoCall
  <2>6. Free' = Free
    BY <2>2 DEF Free, FreeIn
  <2>7. Owners!HandOut
    BY <2>2, <2>4, <2>5, <2>6 DEF Owners!HandOut
  <2>8. QED
    BY <2>7 DEF Owners!Next
<1>4. CASE RemoveSpan
  <2>1. PICK k \in Places :
          SweptTo(k, "none") /\ TakenOut(uncovered, uncovered', k)
    BY <1>4, RemoveStep DEF CInv
  <2>2. loop = "remove" /\ UNCHANGED spans
    BY <1>4 DEF RemoveSpan
  <2>3. Free' = {s \in Free : ~Owners!Swept(s, k)}
    BY <1>1, <2>1 DEF Free, FreeIn, TakenOut, HeldIn, Owners!Swept
  <2>4. Owners!MoveTo(k, "none")
    BY <2>1, <2>2 DEF SweptTo, Return, Continue, Owners!MoveTo, Owners!Return,
                      NoCall, Owners!NoCall
  <2>5. UNCHANGED [s \in Sector |-> OwnersIn(spans, s)]
    BY <2>2 DEF OwnersIn
  <2>6. Owners!TakeOut
    BY <2>2, <2>3, <2>4, <2>5 DEF Owners!TakeOut
  <2>7. QED
    BY <2>6 DEF Owners!Next
<1>5. CASE UNCHANGED spanVars
  BY <1>5 DEF spanVars, Owners!vars, Free, FreeIn, OwnersIn
<1>6. QED
  BY <1>2, <1>3, <1>4, <1>5 DEF SpansNext

\* The first claim of a sector wins: insert_span and remove_span, iteration by
\* iteration, do what SpanOwners allows, for every image and every sequence of
\* overlapping claims that are not empty.  So a sector keeps the extent it was
\* first given to, which is what lets open() go from child to parent and never
\* lose the data of the child.
THEOREM SpansImplementOwners ==
  ASSUME MinLen # 0
  PROVE  SpansSpec => FirstClaimWins
<1>1. CInv /\ [SpansNext]_spanVars => CInv'
  BY NextCInv
<1>2. CInv /\ [SpansNext]_spanVars => [Owners!Next]_(Owners!vars)
  BY OwnersNext
<1>3. QED
  BY <1>1, <1>2, InitCInv, OwnersInit, PTL
  DEF SpansSpec, FirstClaimWins, Owners!Spec

-----------------------------------------------------------------------------
(***************************************************************************)
(* The map is as small as it can be, for intervals that are not empty.     *)
(***************************************************************************)

\* two spans that touch have different values
LeastIn(m) == \A b, c \in DOMAIN m : m[b].end = c => m[b].val # m[c].val

\* no span is empty, and nor is the rest of the interval of a call
Filled ==
  /\ \A b \in DOMAIN spans : b < spans[b].end
  /\ loop = "insert" => sbeg < call.end

KInv == IInv /\ Filled /\ LeastIn(spans)

-----------------------------------------------------------------------------
\* A span that ends where the new one starts has another value: one that ends at
\* the cursor is found by the search, since no span starts there, and merged.
LEMMA OtherBefore ==
  ASSUME KInv, loop = "insert", ~\E c \in DOMAIN spans : Holds(c),
         NEW b \in DOMAIN spans \cup {sbeg}, StartsAt(b),
         NEW x \in DOMAIN spans, spans[x].end = b
  PROVE  spans[x].val # call.val
<1>0. IInv /\ LeastIn(spans) /\ (\A c \in DOMAIN spans : c < spans[c].end)
  BY DEF KInv, Filled
<1>1. CASE \E c \in DOMAIN spans : Merges(c)
  <2>1. b \in DOMAIN spans /\ spans[b].val = call.val
    BY <1>1 DEF StartsAt, Merges, IsLast
  <2> QED
    BY <1>0, <2>1 DEF LeastIn
<1>2. CASE ~\E c \in DOMAIN spans : Merges(c)
  <2>1. b = sbeg
    BY <1>2 DEF StartsAt
  <2>2. /\ sbeg \in Nat /\ x < sbeg
        /\ \A c \in DOMAIN spans : c \in Nat /\ spans[c].end \in Nat
    BY <1>0, <2>1, TypesInsert, SpansAssumption DEF IInv
  <2>3. ASSUME NEW c \in DOMAIN spans, c <= sbeg, ~(c <= x)
        PROVE  FALSE
    <3>1. c = sbeg
      BY <1>0, <2>1, <2>2, <2>3 DEF IInv, Disjoint, DisjointIn
    <3>2. Holds(c)
      BY <1>0, <2>2, <3>1 DEF Holds, IsLast
    <3> QED
      BY <3>2
  <2>4. IsLast(spans, sbeg, x)
    BY <2>2, <2>3 DEF IsLast
  <2> QED
    BY <1>2, <2>1, <2>4 DEF Merges
<1> QED
  BY <1>1, <1>2

\* So the new span differs from the one before it, and the map stays small if it
\* differs from the one behind.
LEMMA GapLeast ==
  ASSUME KInv, loop = "insert", ~\E c \in DOMAIN spans : Holds(c),
         NEW b \in DOMAIN spans \cup {sbeg}, StartsAt(b),
         NEW d, DOMAIN d \subseteq DOMAIN spans, \A c \in DOMAIN d : d[c] = spans[c],
         NEW e, e.end \in Nat, b < e.end, e.val = call.val,
         \A c \in DOMAIN d : c # b /\ c = e.end => spans[c].val # call.val
  PROVE  /\ LeastIn(Put(d, b, e))
         /\ \A c \in DOMAIN Put(d, b, e) : c < Put(d, b, e)[c].end
<1> DEFINE p == Put(d, b, e)
<1>1. DOMAIN p = DOMAIN d \cup {b} /\ \A c \in DOMAIN p : p[c] = IF c = b THEN e ELSE d[c]
  BY DEF Put
<1>2. LeastIn(spans) /\ (\A c \in DOMAIN spans : c < spans[c].end) /\ b \in Nat
  BY TypesInsert, SpansAssumption DEF KInv, Filled, IInv
<1> HIDE DEF p
<1>3. ASSUME NEW x \in DOMAIN p, NEW y \in DOMAIN p, p[x].end = y
      PROVE  p[x].val # p[y].val
  <2>1. CASE x = b
    <3>1. y = e.end /\ y # b
      BY <1>1, <1>2, <1>3, <2>1
    <3> QED
      BY <1>1, <2>1, <3>1
  <2>2. CASE x # b /\ y = b
    <3>1. x \in DOMAIN spans /\ spans[x].end = b /\ p[x] = spans[x] /\ p[y] = e
      BY <1>1, <1>3, <2>2
    <3> QED
      BY <3>1, OtherBefore
  <2>3. CASE x # b /\ y # b
    BY <1>1, <1>2, <1>3, <2>3 DEF LeastIn
  <2> QED
    BY <2>1, <2>2, <2>3
<1>4. \A c \in DOMAIN p : c < p[c].end
  BY <1>1, <1>2
<1> QED
  BY <1>3, <1>4 DEF LeastIn, p

-----------------------------------------------------------------------------
(***************************************************************************)
(* The iterations of insert_span.                                          *)
(***************************************************************************)
LEMMA LeastRest ==
  ASSUME KInv, loop = "insert", InsertRest("remove")
  PROVE  Filled' /\ LeastIn(spans')
<1>1. PICK b \in DOMAIN spans \cup {sbeg} :
        /\ StartsAt(b)
        /\ ~\E u \in DOMAIN spans : IsNext(spans, b, u) /\ u <= call.end
        /\ spans' = Put(spans, b, [end |-> call.end, val |-> call.val])
  BY DEF InsertRest
<1>2. loop' = "remove" /\ ~\E c \in DOMAIN spans : Holds(c)
  BY DEF InsertRest, Return
<1>3. b \in Nat /\ b <= sbeg /\ sbeg < call.end /\ sbeg \in Nat /\ call.end \in Nat
  BY <1>1, <1>2, StartOfGap, TypesInsert, SpansAssumption DEF KInv, IInv, Filled
<1>4. \A c \in DOMAIN spans : b < c => call.end < c
  BY <1>1, <1>3, NoneAhead, TypesInsert, SpansAssumption DEF KInv, IInv
<1> DEFINE e == [end |-> call.end, val |-> call.val]
<1>5. e.end \in Nat /\ b < e.end /\ e.val = call.val
  BY <1>3
<1>6. \A c \in DOMAIN spans : c # b /\ c = e.end => spans[c].val # call.val
  BY <1>3, <1>4
<1> HIDE DEF e
<1>7. LeastIn(Put(spans, b, e)) /\ \A c \in DOMAIN Put(spans, b, e) : c < Put(spans, b, e)[c].end
  BY <1>1, <1>2, <1>5, <1>6, GapLeast
<1> QED
  BY <1>1, <1>2, <1>7 DEF Filled, e

LEMMA LeastBeforeNext ==
  ASSUME KInv, loop = "insert", InsertBeforeNext("remove")
  PROVE  Filled' /\ LeastIn(spans')
<1>1. PICK b \in DOMAIN spans \cup {sbeg}, u \in DOMAIN spans :
        /\ StartsAt(b)
        /\ IsNext(spans, b, u)
        /\ u <= call.end
        /\ spans' = IF spans[u].val = call.val
                      THEN Put(Drop(spans, u), b, spans[u])
                      ELSE Put(spans, b, [end |-> u, val |-> call.val])
        /\ IF spans[u].end < call.end THEN Continue(spans[u].end)
                                      ELSE Return("remove")
  BY DEF InsertBeforeNext
<1>2. ~\E c \in DOMAIN spans : Holds(c)
  BY DEF InsertBeforeNext
<1>3. /\ b \in Nat /\ u \in Nat /\ b < u /\ spans[u].end \in Nat /\ u < spans[u].end
      /\ \A c \in DOMAIN spans : c \in Nat
  BY <1>1, <1>2, StartOfGap, TypesInsert, SpansAssumption DEF KInv, IInv, Filled, IsNext
<1>4. loop' = "insert" => sbeg' < call'.end
  BY <1>1 DEF Continue, Return
<1>5. CASE spans[u].val = call.val
  <2> DEFINE d == Drop(spans, u)
  <2>1. DOMAIN d \subseteq DOMAIN spans /\ \A c \in DOMAIN d : d[c] = spans[c]
    BY DEF Drop
  <2>2. \A c \in DOMAIN d : c # b /\ c = spans[u].end => spans[c].val # call.val
    BY <1>5, <2>1 DEF KInv, LeastIn
  <2>3. spans' = Put(d, b, spans[u]) /\ b < spans[u].end
    BY <1>1, <1>3, <1>5
  <2> HIDE DEF d
  <2>4. LeastIn(spans') /\ \A c \in DOMAIN spans' : c < spans'[c].end
    BY <1>1, <1>2, <1>3, <1>5, <2>1, <2>2, <2>3, GapLeast
  <2> QED
    BY <1>4, <2>4 DEF Filled
<1>6. CASE spans[u].val # call.val
  <2> DEFINE e == [end |-> u, val |-> call.val]
  <2>1. e.end \in Nat /\ b < e.end /\ e.val = call.val /\ spans' = Put(spans, b, e)
    BY <1>1, <1>3, <1>6
  <2>2. \A c \in DOMAIN spans : c # b /\ c = e.end => spans[c].val # call.val
    BY <1>6
  <2> HIDE DEF e
  <2>3. LeastIn(spans') /\ \A c \in DOMAIN spans' : c < spans'[c].end
    BY <1>1, <1>2, <2>1, <2>2, GapLeast
  <2> QED
    BY <1>4, <2>3 DEF Filled
<1> QED
  BY <1>5, <1>6

LEMMA NextKInv ==
  ASSUME MinLen # 0, KInv, [SpansNext]_spanVars
  PROVE  KInv'
<1>0. IInv'
  BY NextIInv DEF KInv
<1>1. ASSUME NEW b \in Places, NEW e \in Places, NEW v \in Ids,
             b + MinLen <= e, Claim(b, e, v)
      PROVE  KInv'
  <2>1. b < e /\ call' = [beg |-> b, end |-> e, val |-> v] /\ sbeg' = b /\ spans' = spans
    BY <1>1, SpansAssumption DEF Claim
  <2> QED
    BY <1>0, <2>1 DEF KInv, Filled, LeastIn
<1>2. CASE InsertSpan("remove")
  <2>0. loop = "insert"
    BY <1>2 DEF InsertSpan
  <2>1. CASE InsertCovered("remove")
    <3>1. spans' = spans /\ (loop' = "insert" => sbeg' < call'.end)
      <4>1. PICK b \in DOMAIN spans :
              IF call.end <= spans[b].end THEN Return("remove") ELSE Continue(spans[b].end)
        BY <2>1 DEF InsertCovered
      <4>2. call.end \in Nat /\ spans[b].end \in Nat
        BY <2>0, TypesInsert, SpansAssumption DEF KInv, IInv
      <4> QED
        BY <2>1, <4>1, <4>2 DEF InsertCovered, Return, Continue
    <3> QED
      BY <1>0, <3>1 DEF KInv, Filled, LeastIn
  <2>2. CASE InsertBeforeNext("remove")
    BY <1>0, <2>0, <2>2, LeastBeforeNext DEF KInv, LeastIn
  <2>3. CASE InsertRest("remove")
    BY <1>0, <2>0, <2>3, LeastRest DEF KInv, LeastIn
  <2> QED
    BY <1>2, <2>1, <2>2, <2>3 DEF InsertSpan
<1>3. CASE RemoveSpan
  <2>1. spans' = spans /\ loop' \in {"none", "remove"}
    <3>1. loop = "remove" /\ spans' = spans /\ (Return("none") \/ \E k \in Places : Continue(k))
      BY <1>3, RemoveTypes DEF RemoveSpan, KInv, IInv
    <3> QED
      BY <3>1 DEF Return, Continue
  <2> QED
    BY <1>0, <2>1 DEF KInv, Filled, LeastIn
<1>4. CASE UNCHANGED spanVars
  BY <1>0, <1>4 DEF spanVars, KInv, Filled, LeastIn
<1> QED
  BY <1>1, <1>2, <1>3, <1>4 DEF SpansNext

\* Between calls no two spans that touch have the same value, for every image and
\* every sequence of claims that are not empty: the map that open() makes does not
\* depend on the order of the pieces, the keys of a HashMap.
THEOREM SpansStaySmall ==
  ASSUME MinLen # 0
  PROVE  SpansSpec => []Canonical
<1>1. SpansInit => KInv
  BY InitIInv DEF SpansInit, KInv, Filled, LeastIn
<1>2. KInv /\ [SpansNext]_spanVars => KInv'
  BY NextKInv
<1>3. KInv => Canonical
  BY DEF KInv, LeastIn, Canonical
<1> QED
  BY <1>1, <1>2, <1>3, PTL DEF SpansSpec

-----------------------------------------------------------------------------
(***************************************************************************)
(* What a caller can rely on whatever intervals it passes, empty ones and  *)
(* ones that overlap included: open() passes what the images say.          *)
(***************************************************************************)

\* insert_span adds one key at most, and keeps the span at 0 or makes it.
LEMMA InsertKeys ==
  ASSUME IInv, NEW after, InsertSpan(after)
  PROVE  /\ DOMAIN spans' \subseteq DOMAIN spans \cup {sbeg}
         /\ sbeg = 0 \/ 0 \in DOMAIN spans => 0 \in DOMAIN spans'
<1>1. loop = "insert" /\ Places \subseteq Nat /\ sbeg \in Nat
      /\ \A c \in DOMAIN spans : c \in Nat
  BY TypesInsert DEF InsertSpan, IInv
<1>2. CASE InsertCovered(after)
  <2>1. PICK b \in DOMAIN spans : Holds(b)
    BY <1>2 DEF InsertCovered
  <2>2. b \in Nat /\ b <= sbeg
    BY <1>1, <2>1 DEF Holds, IsLast
  <2>3. spans' = spans
    BY <1>2 DEF InsertCovered
  <2>4. sbeg = 0 => b = 0
    BY <1>1, <2>2
  <2> QED
    BY <2>1, <2>3, <2>4
<1>3. ASSUME NEW b \in DOMAIN spans \cup {sbeg}, StartsAt(b),
             ~\E c \in DOMAIN spans : Holds(c)
      PROVE  b \in Nat /\ b <= sbeg
  BY <1>1, <1>3, StartOfGap DEF IInv
<1>4. CASE InsertBeforeNext(after)
  <2>1. PICK b \in DOMAIN spans \cup {sbeg}, u \in DOMAIN spans :
          /\ StartsAt(b) /\ b < u
          /\ spans' = IF spans[u].val = call.val
                        THEN Put(Drop(spans, u), b, spans[u])
                        ELSE Put(spans, b, [end |-> u, val |-> call.val])
    BY <1>4 DEF InsertBeforeNext, IsNext
  <2>2. ~\E c \in DOMAIN spans : Holds(c)
    BY <1>4 DEF InsertBeforeNext
  <2>3. b \in Nat /\ b <= sbeg /\ u \in Nat /\ u # 0
    BY <1>1, <1>3, <2>1, <2>2
  <2>4. DOMAIN spans' \in {(DOMAIN spans \ {u}) \cup {b}, DOMAIN spans \cup {b}}
    BY <2>1 DEF Put, Drop
  <2>5. sbeg = 0 => b = 0
    BY <1>1, <2>3
  <2> QED
    BY <2>1, <2>3, <2>4, <2>5
<1>5. CASE InsertRest(after)
  <2>1. PICK b \in DOMAIN spans \cup {sbeg} :
          /\ StartsAt(b)
          /\ spans' = Put(spans, b, [end |-> call.end, val |-> call.val])
    BY <1>5 DEF InsertRest
  <2>2. b \in Nat /\ b <= sbeg
    BY <1>3, <1>5, <2>1 DEF InsertRest
  <2>3. DOMAIN spans' = DOMAIN spans \cup {b} /\ (sbeg = 0 => b = 0)
    BY <1>1, <2>1, <2>2 DEF Put
  <2> QED
    BY <2>1, <2>3
<1> QED
  BY <1>2, <1>4, <1>5 DEF InsertSpan

\* insert_span brings no label into the map but the one it is called with.
LEMMA InsertVals ==
  ASSUME NEW after, InsertSpan(after)
  PROVE  \A c \in DOMAIN spans' :
           spans'[c].val = call.val \/ \E b \in DOMAIN spans : spans'[c].val = spans[b].val
<1>1. CASE spans' = spans
  BY <1>1
<1>2. ASSUME NEW b, NEW e, spans' = Put(spans, b, [end |-> e, val |-> call.val])
      PROVE  \A c \in DOMAIN spans' :
               spans'[c].val = call.val \/ \E x \in DOMAIN spans : spans'[c].val = spans[x].val
  BY <1>2 DEF Put
<1>3. ASSUME NEW b, NEW u \in DOMAIN spans, spans' = Put(Drop(spans, u), b, spans[u])
      PROVE  \A c \in DOMAIN spans' : \E x \in DOMAIN spans : spans'[c].val = spans[x].val
  BY <1>3 DEF Put, Drop
<1> QED
  BY <1>1, <1>2, <1>3 DEF InsertSpan, InsertCovered, InsertBeforeNext, InsertRest

\* the spans of m do not overlap; they may touch
ApartIn(m) ==
  \A b \in DOMAIN m :
    /\ b <= m[b]
    /\ \A c \in DOMAIN m : b < c => m[b] <= c

\* m still has what "from" holds outside [a, e), and the key 0 unless a is 0
Spares(from, m, a, e) ==
  /\ \A s \in Nat : HeldIn(from, s) /\ ~(a <= s /\ s < e) => HeldIn(m, s)
  /\ 0 \in DOMAIN from /\ a # 0 => 0 \in DOMAIN m

\* Replacing the span at b by what it has before x and, if e is before its end,
\* from e on.
LEMMA SplitSpan ==
  ASSUME NEW m, FreeMap(m), ApartIn(m), NEW b \in DOMAIN m,
         NEW x \in Places, NEW e \in Places, b <= x, x <= m[b], x <= e,
         NEW d, FreeMap(d),
         DOMAIN d = {c \in DOMAIN m : c # b} \cup (IF b < x THEN {b} ELSE {})
                      \cup (IF e < m[b] THEN {e} ELSE {}),
         \A c \in DOMAIN m : c # b => d[c] = m[c],
         b < x => d[b] = x,
         e < m[b] => d[e] = m[b]
  PROVE  ApartIn(d) /\ Spares(m, d, x, e)
<1>1. /\ x \in Nat /\ e \in Nat /\ b \in Nat /\ m[b] \in Nat
      /\ \A c \in DOMAIN m : c \in Nat /\ m[c] \in Nat
      /\ \A c \in DOMAIN d : c \in Nat /\ d[c] \in Nat
  BY SpansAssumption DEF FreeMap
<1>2. \A c \in DOMAIN m : /\ c <= m[c]
                          /\ c < b => m[c] <= b
                          /\ b < c => m[b] <= c
  BY DEF ApartIn
<1>3. ASSUME NEW c \in DOMAIN d
      PROVE  \/ c \in DOMAIN m /\ c # b /\ d[c] = m[c]
             \/ c = b /\ b < x /\ d[c] = x
             \/ c = e /\ e < m[b] /\ d[c] = m[b]
  BY <1>3
<1>4. ApartIn(d)
  <2> SUFFICES ASSUME NEW c \in DOMAIN d
               PROVE  c <= d[c] /\ \A y \in DOMAIN d : c < y => d[c] <= y
    BY DEF ApartIn
  <2>1. CASE c \in DOMAIN m /\ c # b /\ d[c] = m[c]
    <3>1. \A y \in DOMAIN m : c < y => m[c] <= y
      BY <2>1 DEF ApartIn
    <3> QED
      BY <1>1, <1>2, <1>3, <2>1, <3>1
  <2>2. CASE c = b /\ b < x /\ d[c] = x
    BY <1>1, <1>2, <1>3, <2>2
  <2>3. CASE c = e /\ e < m[b] /\ d[c] = m[b]
    BY <1>1, <1>2, <1>3, <2>3
  <2> QED
    BY <1>3, <2>1, <2>2, <2>3
<1>5. ASSUME NEW s \in Nat, HeldIn(m, s), ~(x <= s /\ s < e)
      PROVE  HeldIn(d, s)
  <2>1. PICK c \in DOMAIN m : c <= s /\ s < m[c]
    BY <1>5 DEF HeldIn
  <2>2. CASE c # b
    BY <2>1, <2>2 DEF HeldIn
  <2>3. CASE c = b /\ s < x
    BY <1>1, <2>1, <2>3 DEF HeldIn
  <2>4. CASE c = b /\ e <= s
    BY <1>1, <2>1, <2>4 DEF HeldIn
  <2> QED
    BY <1>1, <1>5, <2>2, <2>3, <2>4
<1>6. 0 \in DOMAIN m /\ x # 0 => 0 \in DOMAIN d
  BY <1>1
<1> QED
  BY <1>4, <1>5, <1>6 DEF Spares

\* What one iteration of remove_span leaves alone: it never takes a sector out
\* that is not in the interval.
LEMMA RemoveSpares ==
  ASSUME TypeOK, ApartIn(uncovered), RemoveSpan, call.beg <= sbeg, sbeg <= call.end
  PROVE  /\ FreeMap(uncovered') /\ ApartIn(uncovered')
         /\ Spares(uncovered, uncovered', call.beg, call.end)
         /\ \/ Return("none")
            \/ sbeg' \in Places /\ call.beg <= sbeg' /\ sbeg' <= call.end
                 /\ UNCHANGED <<loop, call>>
<1>1. /\ loop = "remove" /\ FreeMap(uncovered)
      /\ sbeg \in Places \cap Nat /\ call.beg \in Places \cap Nat
      /\ call.end \in Places \cap Nat /\ Places \subseteq Nat
      /\ \A c \in DOMAIN uncovered : c \in Places \cap Nat /\ uncovered[c] \in Places \cap Nat
  BY SpansAssumption DEF RemoveSpan, TypeOK, FreeMap
<1>2. FreeMap(uncovered')
  BY RemoveTypes
<1>3. ASSUME NEW b \in DOMAIN uncovered, Open(b)
      PROVE  /\ b \in Nat /\ uncovered[b] \in Places \cap Nat
             /\ b <= sbeg /\ sbeg < uncovered[b]
  BY <1>1, <1>3 DEF Open, IsLast
<1>4. ASSUME NEW b \in DOMAIN uncovered, Open(b)
      PROVE  LET d == CutBack(b) IN
             /\ FreeMap(d)
             /\ DOMAIN d = {c \in DOMAIN uncovered : c # b} \cup (IF b < sbeg THEN {b} ELSE {})
             /\ \A c \in DOMAIN uncovered : c # b => d[c] = uncovered[c]
             /\ b < sbeg => d[b] = sbeg
  <2>1. FreeMap(Put(uncovered, b, sbeg)) /\ FreeMap(Drop(uncovered, b))
    BY <1>1, <1>3, <1>4 DEF FreeMap, Put, Drop
  <2> QED
    BY <2>1 DEF CutBack, Put, Drop
<1>5. ASSUME NEW m, FreeMap(m), ApartIn(m), NEW k \in Places, sbeg <= k, k <= call.end,
             RemoveNext(m, k)
      PROVE  /\ ApartIn(uncovered') /\ Spares(m, uncovered', call.beg, call.end)
             /\ \/ Return("none")
                \/ sbeg' \in Places /\ call.beg <= sbeg' /\ sbeg' <= call.end
                     /\ UNCHANGED <<loop, call>>
  <2>1. CASE uncovered' = m /\ Return("none")
    BY <1>5, <2>1 DEF Spares
  <2>2. ASSUME NEW u \in DOMAIN m, k < u, u <= call.end,
               IF call.end < m[u]
                 THEN uncovered' = Put(Drop(m, u), call.end, m[u]) /\ Return("none")
                 ELSE uncovered' = Drop(m, u) /\ Continue(m[u])
        PROVE  /\ ApartIn(uncovered') /\ Spares(m, uncovered', call.beg, call.end)
               /\ \/ Return("none")
                  \/ sbeg' \in Places /\ call.beg <= sbeg' /\ sbeg' <= call.end
                       /\ UNCHANGED <<loop, call>>
    <3>1. u \in Places \cap Nat /\ m[u] \in Places \cap Nat /\ u <= m[u] /\ k \in Nat
      BY <1>1, <1>5 DEF FreeMap, ApartIn
    <3>2. /\ DOMAIN uncovered' = {c \in DOMAIN m : c # u} \cup (IF u < u THEN {u} ELSE {})
                                   \cup (IF call.end < m[u] THEN {call.end} ELSE {})
          /\ call.end < m[u] => uncovered'[call.end] = m[u]
      <4>1. ~(u < u) /\ DOMAIN Drop(m, u) = {c \in DOMAIN m : c # u}
        BY <3>1 DEF Drop
      <4>2. /\ DOMAIN Put(Drop(m, u), call.end, m[u]) = DOMAIN Drop(m, u) \cup {call.end}
            /\ Put(Drop(m, u), call.end, m[u])[call.end] = m[u]
        BY DEF Put
      <4> QED
        BY <2>2, <4>1, <4>2
    <3>3. \A c \in DOMAIN m : c # u => uncovered'[c] = m[c]
      <4>1. \A c \in DOMAIN m : c # u => (call.end < m[u] => c # call.end)
        BY <1>1, <1>5, <2>2, <3>1 DEF ApartIn, FreeMap
      <4> QED
        BY <2>2, <4>1 DEF Put, Drop
    <3>4. ApartIn(uncovered') /\ Spares(m, uncovered', u, call.end)
      <4>1. /\ u \in Places /\ call.end \in Places /\ u <= u /\ u <= m[u]
            /\ u < u => uncovered'[u] = u
        BY <1>1, <3>1
      <4> QED
        BY <1>2, <1>5, <2>2, <3>2, <3>3, <4>1, SplitSpan
    <3>5. Spares(m, uncovered', call.beg, call.end)
      BY <1>1, <1>5, <2>2, <3>1, <3>4 DEF Spares
    <3>6. \/ Return("none")
          \/ sbeg' \in Places /\ call.beg <= sbeg' /\ sbeg' <= call.end
               /\ UNCHANGED <<loop, call>>
      BY <1>1, <1>5, <2>2, <3>1 DEF Continue
    <3> QED
      BY <3>4, <3>5, <3>6
  <2> QED
    BY <1>5, <2>1, <2>2 DEF RemoveNext, IsNext
<1>6. CASE RemoveLast
  <2>1. PICK b \in DOMAIN uncovered :
          /\ Open(b)
          /\ call.end <= uncovered[b]
          /\ uncovered' = IF call.end < uncovered[b]
                            THEN Put(CutBack(b), call.end, uncovered[b])
                            ELSE CutBack(b)
          /\ Return("none")
    BY <1>6 DEF RemoveLast
  <2>2. b <= sbeg /\ sbeg < uncovered[b] /\ b \in Nat /\ uncovered[b] \in Places \cap Nat
    BY <1>3, <2>1
  <2> DEFINE d == CutBack(b)
  <2>3. /\ DOMAIN d = {c \in DOMAIN uncovered : c # b} \cup (IF b < sbeg THEN {b} ELSE {})
        /\ \A c \in DOMAIN uncovered : c # b => d[c] = uncovered[c]
        /\ b < sbeg => d[b] = sbeg
    BY <1>4, <2>1
  <2>4. uncovered' = IF call.end < uncovered[b] THEN Put(d, call.end, uncovered[b]) ELSE d
    BY <2>1
  <2> HIDE DEF d
  <2>5. \A c \in DOMAIN uncovered : c # b /\ call.end < uncovered[b] => c # call.end
    BY <1>1, <2>2 DEF ApartIn
  <2>6. b < sbeg => b # call.end
    BY <1>1, <2>2
  <2>7. /\ DOMAIN uncovered' = {c \in DOMAIN uncovered : c # b}
             \cup (IF b < sbeg THEN {b} ELSE {})
             \cup (IF call.end < uncovered[b] THEN {call.end} ELSE {})
        /\ call.end < uncovered[b] => uncovered'[call.end] = uncovered[b]
    BY <2>3, <2>4 DEF Put
  <2>8. /\ \A c \in DOMAIN uncovered : c # b => uncovered'[c] = uncovered[c]
        /\ b < sbeg => uncovered'[b] = sbeg
    BY <2>3, <2>4, <2>5, <2>6 DEF Put
  <2>9. ApartIn(uncovered') /\ Spares(uncovered, uncovered', sbeg, call.end)
    BY <1>1, <1>2, <2>2, <2>7, <2>8, SplitSpan
  <2>10. Spares(uncovered, uncovered', call.beg, call.end)
    BY <1>1, <2>9 DEF Spares
  <2> QED
    BY <1>2, <2>1, <2>9, <2>10
<1>7. CASE RemoveFirst
  <2>1. PICK b \in DOMAIN uncovered :
          Open(b) /\ uncovered[b] < call.end /\ RemoveNext(CutBack(b), uncovered[b])
    BY <1>7 DEF RemoveFirst
  <2> DEFINE d == CutBack(b)
             e == uncovered[b]
  <2>2. b <= sbeg /\ sbeg < e /\ b \in Nat /\ e \in Places \cap Nat
    BY <1>3, <2>1
  <2>3. /\ FreeMap(d)
        /\ DOMAIN d = {c \in DOMAIN uncovered : c # b} \cup (IF b < sbeg THEN {b} ELSE {})
        /\ \A c \in DOMAIN uncovered : c # b => d[c] = uncovered[c]
        /\ b < sbeg => d[b] = sbeg
    BY <1>4, <2>1
  <2> HIDE DEF d
  <2>4. ApartIn(d) /\ Spares(uncovered, d, sbeg, e)
    BY <1>1, <2>2, <2>3, SplitSpan
  <2>5. sbeg <= e /\ e <= call.end /\ e \in Places /\ RemoveNext(d, e)
    BY <1>1, <2>1, <2>2 DEF d
  <2>6. /\ ApartIn(uncovered') /\ Spares(d, uncovered', call.beg, call.end)
        /\ \/ Return("none")
           \/ sbeg' \in Places /\ call.beg <= sbeg' /\ sbeg' <= call.end
                /\ UNCHANGED <<loop, call>>
    BY <1>5, <2>3, <2>4, <2>5
  <2>7. Spares(uncovered, uncovered', call.beg, call.end)
    BY <1>1, <2>2, <2>4, <2>5, <2>6 DEF Spares
  <2> QED
    BY <1>2, <2>6, <2>7
<1>8. CASE RemoveAhead
  <2>1. RemoveNext(uncovered, sbeg) /\ sbeg <= sbeg
    BY <1>1, <1>8 DEF RemoveAhead
  <2> QED
    BY <1>1, <1>2, <1>5, <2>1
<1> QED
  BY <1>6, <1>7, <1>8 DEF RemoveSpan
=============================================================================
