------------------------------ MODULE CApiProofs ------------------------------
(***************************************************************************)
(* Proofs about the functions for C: who owns the memory, and what the     *)
(* caller learns from an error and from a count of 0, for disks of every   *)
(* size and every allocator that finds memory.                             *)
(***************************************************************************)
EXTENDS CApi, NatLemmas

-----------------------------------------------------------------------------
(***************************************************************************)
(* What a heap holds for two handles and an error.                         *)
(***************************************************************************)
HandleHas(h, x) == IF x = Null THEN {} ELSE {x, h[x].reader, h[x].path}
ErrorHas(h, e) == IF e = Null THEN {} ELSE {e, h[e].message}
Used(h) == {a \in Addresses : h[a] # NoObject}

\* x is null or the handle of a reader of the disk d
HandleOK(h, x, d) ==
  x # Null =>
    /\ HandleHas(h, x) \subseteq Addresses
    /\ h[x].kind = "handle"
    /\ h[h[x].reader].kind = "reader"
    /\ h[h[x].path].kind = "path"
    /\ h[h[x].reader].image = d
    /\ h[x].size = D(d, NoRead)!Size

ErrorOK(h, e) ==
  e # Null =>
    /\ ErrorHas(h, e) \subseteq Addresses
    /\ h[e].kind = "error"
    /\ h[h[e].message].kind = "message"

\* h holds what is reached from x, y and e, each once, and nothing else
HeapOK(h, x, y, e, dx, dy) ==
  /\ h = [a \in Addresses |-> h[a]]
  /\ HandleOK(h, x, dx)
  /\ HandleOK(h, y, dy)
  /\ ErrorOK(h, e)
  /\ HandleHas(h, x) \cap HandleHas(h, y) = {}
  /\ HandleHas(h, x) \cap ErrorHas(h, e) = {}
  /\ HandleHas(h, y) \cap ErrorHas(h, e) = {}
  /\ Used(h) = HandleHas(h, x) \cup HandleHas(h, y) \cup ErrorHas(h, e)

LEMMA HeapSymmetry ==
  ASSUME NEW h, NEW x, NEW y, NEW e, NEW dx, NEW dy, HeapOK(h, x, y, e, dx, dy)
  PROVE  HeapOK(h, y, x, e, dy, dx)
BY DEF HeapOK

\* A handle is three allocations and an error two, so there are at most eight.
LEMMA HowMuchIsUsed ==
  ASSUME NEW h, NEW x, NEW y, NEW e, NEW dx, NEW dy, HeapOK(h, x, y, e, dx, dy)
  PROVE  Cardinality(Used(h)) = (IF x = Null THEN 0 ELSE 3) + (IF y = Null THEN 0 ELSE 3)
                                  + (IF e = Null THEN 0 ELSE 2)
<1> DEFINE X == HandleHas(h, x)
           Y == HandleHas(h, y)
           E == ErrorHas(h, e)
<1>1. ASSUME NEW z, NEW d, HandleOK(h, z, d)
      PROVE  /\ IsFiniteSet(HandleHas(h, z))
             /\ Cardinality(HandleHas(h, z)) = IF z = Null THEN 0 ELSE 3
  <2>1. CASE z = Null
    BY <2>1, FS_EmptySet DEF HandleHas
  <2>2. CASE z # Null
    <3>1. z # h[z].reader /\ z # h[z].path /\ h[z].reader # h[z].path
      BY <1>1, <2>2 DEF HandleOK
    <3> DEFINE a == h[z].reader
               b == h[z].path
    <3>2. HandleHas(h, z) = (({} \cup {z}) \cup {a}) \cup {b}
      BY <2>2 DEF HandleHas
    <3> HIDE DEF a, b
    <3>3. IsFiniteSet({}) /\ Cardinality({}) = 0
      BY FS_EmptySet
    <3>4. IsFiniteSet({} \cup {z}) /\ Cardinality({} \cup {z}) = 1
      BY <3>3, FS_AddElement
    <3>5. a \notin {} \cup {z} /\ b \notin ({} \cup {z}) \cup {a}
      BY <3>1 DEF a, b
    <3>6. /\ IsFiniteSet(({} \cup {z}) \cup {a})
          /\ Cardinality(({} \cup {z}) \cup {a}) = 2
      BY <3>4, <3>5, FS_AddElement
    <3>7. /\ IsFiniteSet((({} \cup {z}) \cup {a}) \cup {b})
          /\ Cardinality((({} \cup {z}) \cup {a}) \cup {b}) = 3
      BY <3>5, <3>6, FS_AddElement
    <3> QED
      BY <2>2, <3>2, <3>7
  <2> QED
    BY <2>1, <2>2
<1>2. IsFiniteSet(E) /\ Cardinality(E) = IF e = Null THEN 0 ELSE 2
  <2>1. CASE e = Null
    BY <2>1, FS_EmptySet DEF ErrorHas
  <2>2. CASE e # Null
    <3>1. e # h[e].message
      BY <2>2 DEF ErrorOK, HeapOK
    <3> DEFINE a == h[e].message
    <3>2. E = ({} \cup {e}) \cup {a}
      BY <2>2 DEF ErrorHas
    <3> HIDE DEF a, E
    <3>3. IsFiniteSet({}) /\ Cardinality({}) = 0
      BY FS_EmptySet
    <3>4. IsFiniteSet({} \cup {e}) /\ Cardinality({} \cup {e}) = 1
      BY <3>3, FS_AddElement
    <3>5. a \notin {} \cup {e}
      BY <3>1 DEF a
    <3>6. /\ IsFiniteSet(({} \cup {e}) \cup {a})
          /\ Cardinality(({} \cup {e}) \cup {a}) = 2
      BY <3>4, <3>5, FS_AddElement
    <3> QED
      BY <2>2, <3>2, <3>6
  <2> QED
    BY <2>1, <2>2
<1>3. /\ IsFiniteSet(X) /\ Cardinality(X) = IF x = Null THEN 0 ELSE 3
      /\ IsFiniteSet(Y) /\ Cardinality(Y) = IF y = Null THEN 0 ELSE 3
  BY <1>1 DEF HeapOK
<1>4. X \cap Y = {} /\ (X \cup Y) \cap E = {} /\ Used(h) = (X \cup Y) \cup E
  BY DEF HeapOK
<1> HIDE DEF X, Y, E
<1>5. Cardinality({}) = 0
  BY FS_EmptySet
<1>6. IsFiniteSet(X \cup Y) /\ Cardinality(X \cup Y) = Cardinality(X) + Cardinality(Y)
  BY <1>3, <1>4, <1>5, FS_Union
<1> DEFINE U == X \cup Y
<1>7. IsFiniteSet(U) /\ Cardinality(U) = Cardinality(X) + Cardinality(Y) /\ U \cap E = {}
  BY <1>4, <1>6
<1>8. Used(h) = U \cup E
  BY <1>4
<1> HIDE DEF U
<1>9. Cardinality(U \cup E) = Cardinality(U) + Cardinality(E) - Cardinality({})
  BY <1>2, <1>7, FS_Union
<1> QED
  BY <1>2, <1>3, <1>5, <1>7, <1>8, <1>9

\* The allocator finds memory as long as fewer than eight addresses are used.
LEMMA NewIsFree ==
  ASSUME NEW h, Cardinality(Used(h)) \in 0 .. 7
  PROVE  New(h) \in Addresses /\ h[New(h)] = NoObject
<1>1. Used(h) \subseteq Addresses
  BY DEF Used
<1>2. Used(h) # Addresses
  <2>1. Cardinality(Addresses) \in Nat
    BY FS_CardinalityType, AddressesAssumption
  <2> QED
    BY <2>1, AddressesAssumption
<1>3. \E a \in Addresses : h[a] = NoObject
  BY <1>1, <1>2 DEF Used
<1> QED
  BY <1>3 DEF New

LEMMA PutIs ==
  ASSUME NEW h, h = [a \in Addresses |-> h[a]], NEW obj
  PROVE  Put(h, obj) = [a \in Addresses |-> IF a = New(h) THEN obj ELSE h[a]]
BY DEF Put

\* What is stored somewhere else leaves a handle or an error as it is.
LEMMA Unaffected ==
  ASSUME NEW h, NEW g, NEW x, NEW d
  PROVE  /\ (\A a \in HandleHas(h, x) : g[a] = h[a]) /\ HandleOK(h, x, d)
              => HandleOK(g, x, d) /\ HandleHas(g, x) = HandleHas(h, x)
         /\ (\A a \in ErrorHas(h, x) : g[a] = h[a]) /\ ErrorOK(h, x)
              => ErrorOK(g, x) /\ ErrorHas(g, x) = ErrorHas(h, x)
BY DEF HandleOK, HandleHas, ErrorOK, ErrorHas

\* the heap h, with obj at an address that was free
LEMMA PutUsed ==
  ASSUME NEW h, h = [a \in Addresses |-> h[a]], NEW obj, obj.kind # "free",
         Cardinality(Used(h)) \in 0 .. 7
  PROVE  /\ New(h) \in Addresses \ Used(h)
         /\ New(h) # Null
         /\ Put(h, obj) = [a \in Addresses |-> IF a = New(h) THEN obj ELSE h[a]]
         /\ Used(Put(h, obj)) = Used(h) \cup {New(h)}
         /\ IsFiniteSet(Used(h))
         /\ Cardinality(Used(Put(h, obj))) = Cardinality(Used(h)) + 1
<1>1. New(h) \in Addresses /\ h[New(h)] = NoObject
  BY NewIsFree
<1>2. Put(h, obj) = [a \in Addresses |-> IF a = New(h) THEN obj ELSE h[a]]
  BY PutIs
<1>3. obj # NoObject
  BY DEF NoObject
<1>4. Used(Put(h, obj)) = Used(h) \cup {New(h)}
  BY <1>1, <1>2, <1>3 DEF Used
<1>5. New(h) \notin Used(h) /\ Used(h) \subseteq Addresses
  BY <1>1 DEF Used
<1>6. IsFiniteSet(Used(h))
  BY <1>5, FS_Subset, AddressesAssumption
<1>7. Cardinality(Used(h) \cup {New(h)}) = Cardinality(Used(h)) + 1
  BY <1>5, <1>6, FS_AddElement
<1> QED
  BY <1>1, <1>2, <1>4, <1>5, <1>6, <1>7, AddressesAssumption

-----------------------------------------------------------------------------
(***************************************************************************)
(* The heap after each of the calls.                                       *)
(***************************************************************************)

\* fill_error: a message, and an error that has it.
LEMMA HeapFilled ==
  ASSUME NEW h, NEW x, NEW y, NEW dx, NEW dy, HeapOK(h, x, y, Null, dx, dy)
  PROVE  LET g == Put(h, [kind |-> "message"])
             k == Put(g, [kind |-> "error", message |-> New(h)])
         IN  New(g) \in Addresses /\ HeapOK(k, x, y, New(g), dx, dy)
<1> DEFINE m == [kind |-> "message"]
           g == Put(h, m)
           o == [kind |-> "error", message |-> New(h)]
           k == Put(g, o)
<1>1. m.kind = "message" /\ o.kind = "error" /\ o.message = New(h)
  OBVIOUS
<1> HIDE DEF m, o
<1>2. h = [a \in Addresses |-> h[a]]
  BY DEF HeapOK
<1>3. Cardinality(Used(h)) \in 0 .. 6
  BY HowMuchIsUsed
<1>4. /\ New(h) \in Addresses \ Used(h) /\ New(h) # Null
      /\ g = [a \in Addresses |-> IF a = New(h) THEN m ELSE h[a]]
      /\ Used(g) = Used(h) \cup {New(h)}
      /\ Cardinality(Used(g)) = Cardinality(Used(h)) + 1
  BY <1>1, <1>2, <1>3, PutUsed
<1> HIDE DEF g
<1>5. g = [a \in Addresses |-> g[a]]
  BY <1>4
<1>6. Cardinality(Used(g)) \in 0 .. 7
  BY <1>3, <1>4
<1>7. /\ New(g) \in Addresses \ Used(g) /\ New(g) # Null
      /\ k = [a \in Addresses |-> IF a = New(g) THEN o ELSE g[a]]
      /\ Used(k) = Used(g) \cup {New(g)}
  BY <1>1, <1>5, <1>6, PutUsed
<1> HIDE DEF k
<1> DEFINE U == Used(h)
<1>8. \A a \in U : k[a] = h[a]
  BY <1>4, <1>7 DEF Used
<1>9. U = HandleHas(h, x) \cup HandleHas(h, y)
  BY DEF HeapOK, ErrorHas
<1>10. k[New(g)] = o /\ k[New(h)] = m
  BY <1>4, <1>7
<1>11. ErrorHas(k, New(g)) = {New(g), New(h)} /\ ErrorOK(k, New(g))
  BY <1>1, <1>4, <1>7, <1>10 DEF ErrorHas, ErrorOK
<1>12. /\ HandleOK(k, x, dx) /\ HandleHas(k, x) = HandleHas(h, x)
       /\ HandleOK(k, y, dy) /\ HandleHas(k, y) = HandleHas(h, y)
  BY <1>8, <1>9, Unaffected DEF HeapOK
<1>13. Used(k) = U \cup {New(h), New(g)} /\ New(h) \notin U /\ New(g) \notin U
  BY <1>4, <1>7
<1>14. HandleHas(h, x) \cap HandleHas(h, y) = {}
  BY DEF HeapOK
<1>15. k = [a \in Addresses |-> k[a]]
  BY <1>7
<1>16. HeapOK(k, x, y, New(g), dx, dy)
  BY <1>9, <1>11, <1>12, <1>13, <1>14, <1>15 DEF HeapOK
<1> QED
  BY <1>7, <1>16 DEF k, g, m, o

\* VmdkReader::open and VmdkHandle::new: a path, a reader, and a handle that has them.
LEMMA HeapOpened ==
  ASSUME NEW h, NEW y, NEW e, NEW dx, NEW dy, HeapOK(h, Null, y, e, dx, dy)
  PROVE  LET g == Put(h, [kind |-> "path"])
             k == Put(g, [kind |-> "reader", image |-> dx])
             l == Put(k, [kind |-> "handle", path |-> New(h), reader |-> New(g),
                          size |-> D(dx, NoRead)!Size])
         IN  New(k) \in Addresses /\ HeapOK(l, New(k), y, e, dx, dy)
<1> DEFINE p == [kind |-> "path"]
           g == Put(h, p)
           r == [kind |-> "reader", image |-> dx]
           k == Put(g, r)
           o == [kind |-> "handle", path |-> New(h), reader |-> New(g),
                 size |-> D(dx, NoRead)!Size]
           l == Put(k, o)
<1>1. /\ p.kind = "path" /\ r.kind = "reader" /\ r.image = dx
      /\ o.kind = "handle" /\ o.path = New(h) /\ o.reader = New(g)
      /\ o.size = D(dx, NoRead)!Size
  OBVIOUS
<1> HIDE DEF p, r, o
<1>2. h = [a \in Addresses |-> h[a]]
  BY DEF HeapOK
<1>3. Cardinality(Used(h)) \in 0 .. 5
  BY HowMuchIsUsed
<1>4. /\ New(h) \in Addresses \ Used(h) /\ New(h) # Null
      /\ g = [a \in Addresses |-> IF a = New(h) THEN p ELSE h[a]]
      /\ Used(g) = Used(h) \cup {New(h)}
      /\ Cardinality(Used(g)) = Cardinality(Used(h)) + 1
  BY <1>1, <1>2, <1>3, PutUsed
<1> HIDE DEF g
<1>5. g = [a \in Addresses |-> g[a]] /\ Cardinality(Used(g)) \in 0 .. 6
  BY <1>3, <1>4
<1>6. /\ New(g) \in Addresses \ Used(g) /\ New(g) # Null
      /\ k = [a \in Addresses |-> IF a = New(g) THEN r ELSE g[a]]
      /\ Used(k) = Used(g) \cup {New(g)}
      /\ Cardinality(Used(k)) = Cardinality(Used(g)) + 1
  BY <1>1, <1>5, PutUsed
<1> HIDE DEF k
<1>7. k = [a \in Addresses |-> k[a]] /\ Cardinality(Used(k)) \in 0 .. 7
  BY <1>5, <1>6
<1>8. /\ New(k) \in Addresses \ Used(k) /\ New(k) # Null
      /\ l = [a \in Addresses |-> IF a = New(k) THEN o ELSE k[a]]
      /\ Used(l) = Used(k) \cup {New(k)}
  BY <1>1, <1>7, PutUsed
<1> HIDE DEF l
<1> DEFINE U == Used(h)
<1>9. Used(l) = U \cup {New(h), New(g), New(k)}
      /\ New(h) \notin U /\ New(g) \notin U /\ New(k) \notin U
  BY <1>4, <1>6, <1>8
<1>10. U \subseteq Addresses
  BY DEF Used
<1>11. \A a \in U : l[a] = h[a]
  BY <1>4, <1>6, <1>8, <1>9, <1>10
<1>12. l[New(h)] = p /\ l[New(g)] = r /\ l[New(k)] = o
  BY <1>4, <1>6, <1>8
<1>13. U = HandleHas(h, y) \cup ErrorHas(h, e) /\ HandleHas(h, y) \cap ErrorHas(h, e) = {}
  BY DEF HeapOK, HandleHas
<1>14. HandleHas(l, New(k)) = {New(k), New(g), New(h)}
  BY <1>1, <1>8, <1>12 DEF HandleHas
<1>15. HandleOK(l, New(k), dx)
  BY <1>1, <1>4, <1>6, <1>8, <1>12, <1>14 DEF HandleOK
<1>16. /\ HandleOK(l, y, dy) /\ HandleHas(l, y) = HandleHas(h, y)
       /\ ErrorOK(l, e) /\ ErrorHas(l, e) = ErrorHas(h, e)
  BY <1>11, <1>13, Unaffected DEF HeapOK
<1>17. l = [a \in Addresses |-> l[a]]
  BY <1>8
<1>18. HeapOK(l, New(k), y, e, dx, dy)
  BY <1>9, <1>13, <1>14, <1>15, <1>16, <1>17 DEF HeapOK
<1> QED
  BY <1>8, <1>18 DEF l, k, g, p, r, o

\* Drop for VmdkHandle
LEMMA HeapClosed ==
  ASSUME NEW h, NEW x, NEW y, NEW e, NEW dx, NEW dy, HeapOK(h, x, y, e, dx, dy)
  PROVE  HeapOK(Drop(h, HandleHas(h, x)), Null, y, e, dx, dy)
<1> DEFINE g == Drop(h, HandleHas(h, x))
<1>1. g = [a \in Addresses |-> IF a \in HandleHas(h, x) THEN NoObject ELSE h[a]]
  BY DEF Drop
<1> HIDE DEF g
<1>2. Used(g) = Used(h) \ HandleHas(h, x)
  BY <1>1 DEF Used
<1>3. /\ HandleHas(h, y) \cup ErrorHas(h, e) \subseteq Addresses
      /\ Used(g) = HandleHas(h, y) \cup ErrorHas(h, e)
      /\ HandleHas(h, y) \cap ErrorHas(h, e) = {}
  BY <1>2 DEF HeapOK, Used
<1>4. \A a \in HandleHas(h, y) \cup ErrorHas(h, e) : g[a] = h[a]
  BY <1>1, <1>3 DEF HeapOK
<1>5. /\ HandleOK(g, y, dy) /\ HandleHas(g, y) = HandleHas(h, y)
      /\ ErrorOK(g, e) /\ ErrorHas(g, e) = ErrorHas(h, e)
  BY <1>4, Unaffected DEF HeapOK
<1>6. HandleHas(g, Null) = {} /\ HandleOK(g, Null, dx)
  BY DEF HandleHas, HandleOK
<1>7. g = [a \in Addresses |-> g[a]]
  BY <1>1
<1>8. HeapOK(g, Null, y, e, dx, dy)
  BY <1>3, <1>5, <1>6, <1>7 DEF HeapOK
<1> QED
  BY <1>8 DEF g

\* Drop for VmdkError
LEMMA HeapFreed ==
  ASSUME NEW h, NEW x, NEW y, NEW e, NEW dx, NEW dy, HeapOK(h, x, y, e, dx, dy)
  PROVE  HeapOK(Drop(h, ErrorHas(h, e)), x, y, Null, dx, dy)
<1> DEFINE g == Drop(h, ErrorHas(h, e))
<1>1. g = [a \in Addresses |-> IF a \in ErrorHas(h, e) THEN NoObject ELSE h[a]]
  BY DEF Drop
<1> HIDE DEF g
<1>2. Used(g) = Used(h) \ ErrorHas(h, e)
  BY <1>1 DEF Used
<1>3. /\ HandleHas(h, x) \cup HandleHas(h, y) \subseteq Addresses
      /\ Used(g) = HandleHas(h, x) \cup HandleHas(h, y)
      /\ HandleHas(h, x) \cap HandleHas(h, y) = {}
  BY <1>2 DEF HeapOK, Used
<1>4. \A a \in HandleHas(h, x) \cup HandleHas(h, y) : g[a] = h[a]
  BY <1>1, <1>3 DEF HeapOK
<1>5. /\ HandleOK(g, x, dx) /\ HandleHas(g, x) = HandleHas(h, x)
      /\ HandleOK(g, y, dy) /\ HandleHas(g, y) = HandleHas(h, y)
  BY <1>4, Unaffected DEF HeapOK
<1>6. ErrorHas(g, Null) = {} /\ ErrorOK(g, Null)
  BY DEF ErrorHas, ErrorOK
<1>7. g = [a \in Addresses |-> g[a]]
  BY <1>1
<1>8. HeapOK(g, x, y, Null, dx, dy)
  BY <1>3, <1>5, <1>6, <1>7 DEF HeapOK
<1> QED
  BY <1>8 DEF g

-----------------------------------------------------------------------------
(***************************************************************************)
(* Nothing leaks, and nothing is freed twice.                              *)
(***************************************************************************)
CallerOK ==
  /\ handles \in [Vars -> Addresses \cup {Null}]
  /\ images \in [Vars -> Disks]
  /\ err \in Addresses \cup {Null}

HeapInv == HeapOK(heap, handles[1], handles[2], err, images[1], images[2])

OwnInv == CallerOK /\ HeapInv

LEMMA OwnInvInit == CApiInit => OwnInv
<1> SUFFICES ASSUME CApiInit PROVE OwnInv
  OBVIOUS
<1>1. CallerOK
  BY DEF CApiInit, CallerOK
<1>2. handles[1] = Null /\ handles[2] = Null /\ err = Null
  BY DEF CApiInit, Vars
<1>3. Used(heap) = {} /\ heap = [a \in Addresses |-> heap[a]]
  BY DEF CApiInit, Used
<1>4. HeapInv
  BY <1>2, <1>3 DEF HeapInv, HeapOK, HandleOK, HandleHas, ErrorOK, ErrorHas
<1> QED
  BY <1>1, <1>4 DEF OwnInv

LEMMA FailedKeepsOwnInv ==
  ASSUME OwnInv, NEW given \in BOOLEAN, MayPass(given), NEW op, Failed(op, given)
  PROVE  OwnInv' /\ (given => err' # Null)
<1>1. CASE given
  <2>1. err = Null
    BY <1>1 DEF MayPass
  <2> DEFINE g == Put(heap, [kind |-> "message"])
  <2>2. /\ heap' = Put(g, [kind |-> "error", message |-> New(heap)])
        /\ err' = New(g) /\ handles' = handles /\ images' = images
    BY <1>1 DEF Failed, FillError
  <2>3. New(g) \in Addresses /\ HeapInv'
    BY <2>1, <2>2, HeapFilled DEF OwnInv, HeapInv
  <2> QED
    BY <2>2, <2>3, AddressesAssumption DEF OwnInv, CallerOK
<1>2. CASE ~given
  BY <1>2 DEF Failed, FillError, OwnInv, CallerOK, HeapInv
<1> QED
  BY <1>1, <1>2

LEMMA OpenKeepsOwnInv ==
  ASSUME OwnInv, NEW v \in Vars, NEW given \in BOOLEAN, OpenImage(v, given)
  PROVE  OwnInv'
<1> DEFINE d == images[v]
           g == Put(heap, [kind |-> "path"])
           k == Put(g, [kind |-> "reader", image |-> d])
           l == Put(k, [kind |-> "handle", path |-> New(heap), reader |-> New(g),
                        size |-> D(d, NoRead)!Size])
<1>1. /\ heap' = l /\ handles' = [handles EXCEPT ![v] = New(k)]
      /\ images' = images /\ err' = err /\ handles[v] = Null
  BY DEF OpenImage
<1> HIDE DEF l, k
<1>2. ASSUME NEW y, NEW dy, HeapOK(heap, Null, y, err, d, dy)
      PROVE  New(k) \in Addresses /\ HeapOK(l, New(k), y, err, d, dy)
  BY <1>2, HeapOpened DEF l, k
<1> HIDE DEF d
<1>3. CASE v = 1
  <2>1. HeapOK(heap, Null, handles[2], err, d, images[2])
    BY <1>1, <1>3 DEF OwnInv, HeapInv, d
  <2>2. New(k) \in Addresses /\ HeapOK(l, New(k), handles[2], err, d, images[2])
    BY <1>2, <2>1
  <2>3. handles'[1] = New(k) /\ handles'[2] = handles[2] /\ handles' \in [Vars -> Addresses \cup {Null}]
    BY <1>1, <1>3, <2>2 DEF OwnInv, CallerOK, Vars
  <2>4. HeapInv'
    BY <1>1, <1>3, <2>2, <2>3 DEF HeapInv, d
  <2> QED
    BY <1>1, <2>3, <2>4 DEF OwnInv, CallerOK
<1>4. CASE v = 2
  <2>1. HeapOK(heap, Null, handles[1], err, d, images[1])
    BY <1>1, <1>4, HeapSymmetry DEF OwnInv, HeapInv, d
  <2>2. New(k) \in Addresses /\ HeapOK(l, handles[1], New(k), err, images[1], d)
    BY <1>2, <2>1, HeapSymmetry
  <2>3. handles'[2] = New(k) /\ handles'[1] = handles[1] /\ handles' \in [Vars -> Addresses \cup {Null}]
    BY <1>1, <1>4, <2>2 DEF OwnInv, CallerOK, Vars
  <2>4. HeapInv'
    BY <1>1, <1>4, <2>2, <2>3 DEF HeapInv, d
  <2> QED
    BY <1>1, <2>3, <2>4 DEF OwnInv, CallerOK
<1> QED
  BY <1>3, <1>4 DEF Vars

LEMMA CloseKeepsOwnInv ==
  ASSUME OwnInv, NEW v \in Vars, CloseHandle(v)
  PROVE  OwnInv'
<1> DEFINE g == Drop(heap, HandleHas(heap, handles[v]))
<1>1. /\ handles' = [handles EXCEPT ![v] = Null]
      /\ images' = images /\ err' = err
  BY DEF CloseHandle
<1>2. heap' = g
  <2>1. CASE handles[v] = Null
    <3>1. HandleHas(heap, handles[v]) = {} /\ heap' = heap
      BY <2>1 DEF HandleHas, CloseHandle
    <3>2. heap = [a \in Addresses |-> heap[a]]
      BY DEF OwnInv, HeapInv, HeapOK
    <3> QED
      BY <3>1, <3>2 DEF Drop
  <2>2. CASE handles[v] # Null
    BY <2>2 DEF CloseHandle, OfHandle, HandleHas
  <2> QED
    BY <2>1, <2>2
<1>3. CASE v = 1
  <2>1. HeapOK(g, Null, handles[2], err, images[1], images[2])
    BY <1>3, HeapClosed DEF OwnInv, HeapInv
  <2>2. handles'[1] = Null /\ handles'[2] = handles[2] /\ handles' \in [Vars -> Addresses \cup {Null}]
    BY <1>1, <1>3 DEF OwnInv, CallerOK, Vars
  <2> HIDE DEF g
  <2>3. HeapInv'
    BY <1>1, <1>2, <2>1, <2>2 DEF HeapInv
  <2> QED
    BY <1>1, <2>2, <2>3 DEF OwnInv, CallerOK
<1>4. CASE v = 2
  <2>1. HeapOK(heap, handles[2], handles[1], err, images[2], images[1])
    BY HeapSymmetry DEF OwnInv, HeapInv
  <2>2. HeapOK(g, Null, handles[1], err, images[2], images[1])
    BY <1>4, <2>1, HeapClosed
  <2>3. handles'[2] = Null /\ handles'[1] = handles[1] /\ handles' \in [Vars -> Addresses \cup {Null}]
    BY <1>1, <1>4 DEF OwnInv, CallerOK, Vars
  <2> HIDE DEF g
  <2>4. HeapOK(g, handles[1], Null, err, images[1], images[2])
    BY <2>2, HeapSymmetry
  <2>5. HeapInv'
    BY <1>1, <1>2, <2>3, <2>4 DEF HeapInv
  <2> QED
    BY <1>1, <2>3, <2>5 DEF OwnInv, CallerOK
<1> QED
  BY <1>3, <1>4 DEF Vars

LEMMA FreeKeepsOwnInv ==
  ASSUME OwnInv, FreeError
  PROVE  OwnInv'
<1> DEFINE g == Drop(heap, ErrorHas(heap, err))
<1>1. handles' = handles /\ images' = images /\ err' = Null
  BY DEF FreeError
<1>2. heap' = g
  <2>1. CASE err = Null
    <3>1. ErrorHas(heap, err) = {} /\ heap' = heap
      BY <2>1 DEF ErrorHas, FreeError
    <3>2. heap = [a \in Addresses |-> heap[a]]
      BY DEF OwnInv, HeapInv, HeapOK
    <3> QED
      BY <3>1, <3>2 DEF Drop
  <2>2. CASE err # Null
    BY <2>2 DEF FreeError, OfError, ErrorHas
  <2> QED
    BY <2>1, <2>2
<1>3. HeapOK(g, handles[1], handles[2], Null, images[1], images[2])
  BY HeapFreed DEF OwnInv, HeapInv
<1> HIDE DEF g
<1> QED
  BY <1>1, <1>2, <1>3 DEF OwnInv, CallerOK, HeapInv

LEMMA OwnInvStep == OwnInv /\ [CApiNext]_vars => OwnInv'
<1> SUFFICES ASSUME OwnInv, [CApiNext]_vars PROVE OwnInv'
  OBVIOUS
<1>1. ASSUME NEW v \in Vars, NEW given \in BOOLEAN,
             OpenNothing(v, given) \/ ReadNothing(v, given) \/ OpenFails(v, given)
      PROVE  OwnInv'
  BY <1>1, FailedKeepsOwnInv DEF OpenNothing, ReadNothing, OpenFails
<1>2. ASSUME NEW v \in Vars, NEW given \in BOOLEAN, OpenImage(v, given)
      PROVE  OwnInv'
  BY <1>2, OpenKeepsOwnInv
<1>3. ASSUME NEW v \in Vars, NEW given \in BOOLEAN, NEW r \in Reads, ReadFails(v, r, given)
      PROVE  OwnInv'
  BY <1>3, FailedKeepsOwnInv DEF ReadFails
<1>4. ASSUME NEW v \in Vars, NEW given \in BOOLEAN, NEW r \in Reads, Read(v, r, given)
      PROVE  OwnInv'
  BY <1>4 DEF Read, OwnInv, CallerOK, HeapInv
<1>5. ASSUME NEW v \in Vars, CloseHandle(v)
      PROVE  OwnInv'
  BY <1>5, CloseKeepsOwnInv
<1>6. CASE FreeError
  BY <1>6, FreeKeepsOwnInv
<1>7. CASE UNCHANGED vars
  BY <1>7 DEF vars, OwnInv, CallerOK, HeapInv
<1> QED
  BY <1>1, <1>2, <1>3, <1>4, <1>5, <1>6, <1>7 DEF CApiNext

LEMMA OwnInvImpliesOwned == OwnInv => Owned
<1> SUFFICES ASSUME OwnInv PROVE Owned
  OBVIOUS
<1>1. ASSUME NEW v \in Open
      PROVE  HandleOK(heap, handles[v], images[v]) /\ handles[v] # Null
  BY DEF Open, Vars, OwnInv, HeapInv, HeapOK
<1>2. ErrorOK(heap, err)
  BY DEF OwnInv, HeapInv, HeapOK
<1>3. Cardinality({a \in Addresses : heap[a] # NoObject})
        = (IF handles[1] = Null THEN 0 ELSE 3) + (IF handles[2] = Null THEN 0 ELSE 3)
            + (IF err = Null THEN 0 ELSE 2)
  BY HowMuchIsUsed DEF OwnInv, HeapInv, Used
<1>4. Cardinality(Open) = (IF handles[1] = Null THEN 0 ELSE 1)
                            + (IF handles[2] = Null THEN 0 ELSE 1)
  <2>1. Open = (IF handles[1] = Null THEN {} ELSE {1})
                 \cup (IF handles[2] = Null THEN {} ELSE {2})
    BY DEF Open, Vars
  <2>2. /\ Cardinality({}) = 0 /\ Cardinality({1}) = 1 /\ Cardinality({2}) = 1
        /\ Cardinality({1, 2}) = 2
    <3>1. ASSUME NEW a, NEW b, a # b
          PROVE  Cardinality({a, b}) = 2
      <4>1. IsFiniteSet({a}) /\ Cardinality({a}) = 1 /\ b \notin {a}
        BY <3>1, FS_Singleton
      <4>2. Cardinality({a} \cup {b}) = Cardinality({a}) + 1
        BY <4>1, FS_AddElement
      <4>3. {a, b} = {a} \cup {b}
        OBVIOUS
      <4> QED
        BY <4>1, <4>2, <4>3
    <3>2. Cardinality({1, 2}) = 2
      <4>1. 1 # 2
        OBVIOUS
      <4> QED
        BY <3>1, <4>1, Zenon
    <3>3. Cardinality({1}) = 1 /\ Cardinality({2}) = 1
      BY FS_Singleton, Zenon
    <3>4. Cardinality({}) = 0
      BY FS_EmptySet
    <3> QED
      BY <3>2, <3>3, <3>4
  <2>3. CASE handles[1] = Null /\ handles[2] = Null
    <3>1. Open = {}
      BY <2>1, <2>3
    <3> QED
      BY <2>2, <2>3, <3>1
  <2>4. CASE handles[1] # Null /\ handles[2] = Null
    <3>1. Open = {1}
      BY <2>1, <2>4
    <3> QED
      BY <2>2, <2>4, <3>1
  <2>5. CASE handles[1] = Null /\ handles[2] # Null
    <3>1. Open = {2}
      BY <2>1, <2>5
    <3> QED
      BY <2>2, <2>5, <3>1
  <2>6. CASE handles[1] # Null /\ handles[2] # Null
    <3>1. Open = {1, 2}
      BY <2>1, <2>6
    <3> QED
      BY <2>2, <2>6, <3>1
  <2> QED
    BY <2>3, <2>4, <2>5, <2>6
<1>5. \A v \in Open :
        /\ heap[handles[v]].kind = "handle"
        /\ heap[heap[handles[v]].reader].kind = "reader"
        /\ heap[heap[handles[v]].path].kind = "path"
        /\ ImageOf(v) = images[v]
        /\ heap[handles[v]].size = D(images[v], NoRead)!Size
  BY <1>1 DEF HandleOK, ImageOf
<1>6. err # Null => heap[err].kind = "error" /\ heap[heap[err].message].kind = "message"
  BY <1>2 DEF ErrorOK
<1>7. Cardinality({a \in Addresses : heap[a] # NoObject})
        = 3 * Cardinality(Open) + (IF err = Null THEN 0 ELSE 2)
  BY <1>3, <1>4
<1> QED
  BY <1>5, <1>6, <1>7 DEF Owned

LEMMA OwnInvHolds == CApiSpec => []OwnInv
BY OwnInvInit, OwnInvStep, PTL DEF CApiSpec

\* Whatever was opened, closed and failed before, everything that is allocated belongs
\* to one handle or to the caller's error: vmdk_close and vmdk_free_error drop all of it,
\* and each piece once.
THEOREM NothingLeaks == CApiSpec => []Owned
BY OwnInvHolds, OwnInvImpliesOwned, PTL

-----------------------------------------------------------------------------
(***************************************************************************)
(* What a caller learns from an error.                                     *)
(***************************************************************************)
ErrorInv == OwnInv /\ ErrorTells

LEMMA ErrorInvStep == ErrorInv /\ [CApiNext]_vars => ErrorInv'
<1> SUFFICES ASSUME ErrorInv, [CApiNext]_vars PROVE ErrorTells'
  BY OwnInvStep DEF ErrorInv
<1>1. ASSUME NEW given \in BOOLEAN, MayPass(given), NEW op, Failed(op, given)
      PROVE  ErrorTells'
  <2>1. given => err' # Null
    BY <1>1, FailedKeepsOwnInv DEF ErrorInv
  <2>2. last'.given = given /\ last'.failed = TRUE
    BY <1>1 DEF Failed
  <2> QED
    BY <2>1, <2>2 DEF ErrorTells
<1>2. ASSUME NEW v \in Vars, NEW given \in BOOLEAN,
             OpenNothing(v, given) \/ ReadNothing(v, given) \/ OpenFails(v, given)
      PROVE  ErrorTells'
  BY <1>1, <1>2 DEF OpenNothing, ReadNothing, OpenFails
<1>3. ASSUME NEW v \in Vars, NEW given \in BOOLEAN, OpenImage(v, given)
      PROVE  ErrorTells'
  BY <1>3 DEF OpenImage, MayPass, ErrorTells
<1>4. ASSUME NEW v \in Vars, NEW given \in BOOLEAN, NEW r \in Reads, ReadFails(v, r, given)
      PROVE  ErrorTells'
  BY <1>1, <1>4 DEF ReadFails
<1>5. ASSUME NEW v \in Vars, NEW given \in BOOLEAN, NEW r \in Reads, Read(v, r, given)
      PROVE  ErrorTells'
  BY <1>5 DEF Read, MayPass, ErrorTells
<1>6. ASSUME NEW v \in Vars, CloseHandle(v)
      PROVE  ErrorTells'
  BY <1>6 DEF CloseHandle, NoCall, ErrorTells
<1>7. CASE FreeError
  BY <1>7 DEF FreeError, NoCall, ErrorTells
<1>8. CASE UNCHANGED vars
  BY <1>8 DEF vars, ErrorInv, ErrorTells
<1> QED
  BY <1>2, <1>3, <1>4, <1>5, <1>6, <1>7, <1>8 DEF CApiNext

LEMMA ErrorInvInit == CApiInit => ErrorInv
BY OwnInvInit DEF CApiInit, NoCall, ErrorInv, ErrorTells

LEMMA ErrorInvHolds == CApiSpec => []ErrorInv
BY ErrorInvInit, ErrorInvStep, PTL DEF CApiSpec

\* A caller that passes err learns from it whether vmdk_open or vmdk_read failed: every
\* failure fills it, and no success does.
THEOREM ErrorsTell == CApiSpec => []ErrorTells
BY ErrorInvHolds, PTL DEF ErrorInv

-----------------------------------------------------------------------------
(***************************************************************************)
(* The size of a disk, and what is asked for at its end.                   *)
(***************************************************************************)
LEMMA StartsAreNat ==
  ASSUME NEW d, NEW r, NEW eds, eds \in Seq({eds[j] : j \in DOMAIN eds}),
         \A j \in DOMAIN eds : eds[j].sectors \in Nat
  PROVE  D(d, r)!Start(eds, Len(eds) + 1) \in Nat
<1> DEFINE n == Len(eds)
           Rec(f) == f = [k \in 1 .. Len(eds) + 1 |->
                            IF k = 1 THEN 0 ELSE f[k - 1] + eds[k - 1].sectors]
           step == [j \in Nat |-> [x \in Nat |->
                      IF j - 1 \in 1 .. n THEN x + eds[j - 1].sectors ELSE x]]
           sum == CHOOSE f : Rec(f)
<1>1. n \in Nat /\ DOMAIN eds = 1 .. n
  OBVIOUS
<1>2. step \in [Nat -> [Nat -> Nat]]
  BY <1>1
<1>3. 1 \in Nat /\ n + 1 \in Nat /\ 1 <= n + 1 /\ 0 \in Nat
  BY <1>1
<1> HIDE DEF step, n
<1>4. PICK f \in [1 .. n + 1 -> Nat] :
        f[1] = 0 /\ \A j \in 1 + 1 .. n + 1 : f[j] = step[j][f[j - 1]]
  <2>1. RecursionExists(Nat, 0, step, 1, n + 1)
    BY <1>2, <1>3, Recursion
  <2> QED
    BY <2>1 DEF RecursionExists
<1>5. ASSUME NEW j \in 1 .. n + 1
      PROVE  f[j] = IF j = 1 THEN 0 ELSE f[j - 1] + eds[j - 1].sectors
  <2>1. CASE j = 1
    BY <1>4, <2>1
  <2>2. CASE j # 1
    <3>1. j \in 1 + 1 .. n + 1 /\ j \in Nat /\ j - 1 \in 1 .. n /\ j - 1 \in 1 .. n + 1
      BY <1>1, <1>5, <2>2
    <3>2. f[j - 1] \in Nat
      BY <1>4, <3>1
    <3>3. step[j][f[j - 1]] = f[j - 1] + eds[j - 1].sectors
      BY <3>1, <3>2 DEF step
    <3> QED
      BY <1>4, <2>2, <3>1, <3>3
  <2> QED
    BY <2>1, <2>2
<1>6. f = [j \in 1 .. n + 1 |-> f[j]]
  BY <1>4
<1>7. Rec(f)
  BY <1>5, <1>6 DEF n
<1>8. Rec(sum)
  <2> HIDE DEF Rec
  <2> QED
    BY <1>7
<1>9. D(d, r)!Start(eds, n + 1) = sum[n + 1]
  BY DEF D!Start, n
<1> DEFINE T == {j \in 1 .. n + 1 : sum[j] \in Nat}
<1> HIDE DEF sum
<1>10. sum = [k \in 1 .. n + 1 |-> IF k = 1 THEN 0 ELSE sum[k - 1] + eds[k - 1].sectors]
  BY <1>8 DEF n
<1>11. 1 \in T
  BY <1>3, <1>10
<1>12. ASSUME NEW j \in 1 + 1 .. n + 1, j - 1 \in T
       PROVE  j \in T
  <2>1. j \in 1 .. n + 1 /\ j # 1 /\ j - 1 \in DOMAIN eds
    BY <1>1
  <2>2. sum[j] = sum[j - 1] + eds[j - 1].sectors
    BY <1>10, <2>1
  <2> QED
    BY <1>12, <2>1, <2>2
<1> HIDE DEF T
<1>13. \A j \in 1 .. n + 1 : j \in T
  BY <1>3, <1>11, <1>12, IntervalInduction
<1> QED
  BY <1>3, <1>9, <1>13 DEF T, n

\* Only a disk whose first image is there opens.
LEMMA OpensOnlyUsable ==
  ASSUME NEW d, NEW r, D(d, r)!Opens
  PROVE  d.top \in DOMAIN d.files
<1> DEFINE N == MaxDepth
           chain == D(d, r)!Chain
           needed == D(d, r)!Needed
<1>1. N \in Nat /\ 1 \in Nat /\ 1 <= N /\ 1 \in 1 .. N
  BY SizesAssumption
<1>2. chain[1] = d.top
  <2> DEFINE S == {d.top, ""} \cup {d.files[f].desc.parent : f \in DOMAIN d.files}
             Parent(x) == IF x \in DOMAIN d.files THEN d.files[x].desc.parent ELSE ""
             step == [j \in Nat |-> [x \in S |-> Parent(x)]]
             Rec(f) == f = [n \in 1 .. N |->
                              IF n = 1 THEN d.top
                              ELSE IF f[n - 1] \in DOMAIN d.files
                                THEN d.files[f[n - 1]].desc.parent
                              ELSE ""]
  <2>1. chain = CHOOSE f : Rec(f)
    BY DEF D!Chain, D!Depth, D!NoParent
  <2>2. d.top \in S /\ \A x \in S : Parent(x) \in S
    OBVIOUS
  <2>3. step \in [Nat -> [S -> S]] /\ \A j \in Nat : \A x \in S : step[j][x] = Parent(x)
    <3> HIDE DEF S, Parent
    <3> QED
      BY <2>2
  <2> HIDE DEF step, S, N, chain
  <2>4. PICK f \in [1 .. N -> S] :
          f[1] = d.top /\ \A j \in 1 + 1 .. N : f[j] = step[j][f[j - 1]]
    <3>1. RecursionExists(S, d.top, step, 1, N)
      BY <1>1, <2>2, <2>3, Recursion
    <3> QED
      BY <3>1 DEF RecursionExists
  <2>5. ASSUME NEW j \in 1 .. N
        PROVE  f[j] = IF j = 1 THEN d.top ELSE Parent(f[j - 1])
    <3> HIDE DEF Parent
    <3>1. CASE j = 1
      BY <2>4, <3>1
    <3>2. CASE j # 1
      <4>1. j \in 1 + 1 .. N /\ j \in Nat /\ j - 1 \in 1 .. N
        BY <1>1, <2>5, <3>2
      <4>2. f[j - 1] \in S
        BY <2>4, <4>1
      <4> QED
        BY <2>3, <2>4, <3>2, <4>1, <4>2
    <3> QED
      BY <3>1, <3>2
  <2>6. f = [j \in 1 .. N |-> f[j]]
    BY <2>4
  <2>7. Rec(f)
    BY <2>5, <2>6
  <2> HIDE DEF Rec
  <2>8. Rec(chain)
    BY <2>1, <2>7
  <2> QED
    BY <1>1, <2>8 DEF Rec
<1>3. needed[1]
  <2> DEFINE P(n) == /\ chain[n] # ""
                     /\ \E o \in D(d, r)!Offset : \A m \in 1 .. n - 1 :
                          D(d, r)!ByteOf(chain[m], o) = D(d, r)!Absent
             Rec(f) == f = [n \in 1 .. N |->
                 \/ n = 1
                 \/ /\ f[n - 1]
                    /\ chain[n] # ""
                    /\ \E o \in D(d, r)!Offset : \A m \in 1 .. n - 1 :
                         D(d, r)!ByteOf(chain[m], o) = D(d, r)!Absent]
             f == [n \in 1 .. N |-> \A k \in 2 .. n : P(k)]
  <2>1. needed = CHOOSE g : Rec(g)
    BY DEF D!Needed, D!Depth, D!NoParent
  <2>2. ASSUME NEW n \in 1 .. N
        PROVE  f[n] = (n = 1 \/ (f[n - 1] /\ P(n)))
    <3> HIDE DEF P
    <3>1. CASE n = 1
      <4>1. 2 .. n = {}
        BY <3>1
      <4> QED
        BY <3>1, <4>1
    <3>2. CASE n # 1
      <4>1. n - 1 \in 1 .. N /\ 2 .. n = (2 .. n - 1) \cup {n} /\ N \in Nat
        BY <1>1, <2>2, <3>2
      <4>2. f[n] = (\A k \in 2 .. n : P(k)) /\ f[n - 1] = (\A k \in 2 .. n - 1 : P(k))
        BY <2>2, <4>1
      <4> HIDE DEF f
      <4> QED
        BY <3>2, <4>1, <4>2
    <3> QED
      BY <3>1, <3>2
  <2>3. f = [n \in 1 .. N |-> f[n]]
    OBVIOUS
  <2> HIDE DEF f
  <2>4. Rec(f)
    BY <2>2, <2>3
  <2> HIDE DEF Rec, needed
  <2>5. Rec(needed)
    BY <2>1, <2>4
  <2> HIDE DEF N
  <2> QED
    BY <1>1, <2>5 DEF Rec
<1>4. needed[1] => d.top \in DOMAIN d.files
  <2> DEFINE Q(n) == D(d, r)!Usable(chain[n])
                       /\ D(d, r)!Sectors(chain[n]) = D(d, r)!Sectors(d.top)
             Rec(f) == f = [n \in 1 .. N |->
                 /\ n > 1 => f[n - 1]
                 /\ needed[n] => Q(n)]
             f == [n \in 1 .. N |-> \A k \in 1 .. n : needed[k] => Q(k)]
             ok == CHOOSE g : Rec(g)
  <2>1. \A n \in 1 .. N : ok[n]
    BY DEF D!Opens, D!Depth
  <2>2. ASSUME NEW n \in 1 .. N
        PROVE  f[n] = ((n > 1 => f[n - 1]) /\ (needed[n] => Q(n)))
    <3> HIDE DEF Q, needed
    <3>1. CASE n = 1
      <4>1. 1 .. n = {1} /\ ~(n > 1)
        BY <3>1
      <4>2. f[n] = (\A k \in 1 .. n : needed[k] => Q(k))
        BY <2>2
      <4> HIDE DEF f
      <4> QED
        BY <3>1, <4>1, <4>2
    <3>2. CASE n # 1
      <4>1. n - 1 \in 1 .. N /\ 1 .. n = (1 .. n - 1) \cup {n} /\ n > 1
        BY <1>1, <2>2, <3>2
      <4>2. /\ f[n] = (\A k \in 1 .. n : needed[k] => Q(k))
            /\ f[n - 1] = (\A k \in 1 .. n - 1 : needed[k] => Q(k))
        BY <2>2, <4>1
      <4> HIDE DEF f
      <4> QED
        BY <4>1, <4>2
    <3> QED
      BY <3>1, <3>2
  <2>3. f = [n \in 1 .. N |-> f[n]]
    OBVIOUS
  <2> HIDE DEF f
  <2>4. Rec(f)
    BY <2>2, <2>3
  <2> HIDE DEF Rec, needed
  <2>5. Rec(ok)
    BY <2>4
  <2> HIDE DEF N, ok, Q
  <2>6. needed[1] => Q(1)
    BY <1>1, <2>1, <2>5 DEF Rec
  <2> QED
    BY <1>2, <2>6 DEF Q, D!Usable
<1> QED
  BY <1>3, <1>4

\* The size of a disk that opens.
LEMMA SizeIsNat ==
  ASSUME NEW d \in Disks, NEW r, D(d, r)!Opens
  PROVE  D(d, r)!Size \in Nat
<1> DEFINE eds == d.files[d.top].desc.eds
<1>1. d.top \in DOMAIN d.files
  BY OpensOnlyUsable
<1>2. eds \in Seq({eds[j] : j \in DOMAIN eds}) /\ \A j \in DOMAIN eds : eds[j].sectors \in Nat
  BY <1>1, SizesAssumption
<1> HIDE DEF eds
<1>3. D(d, r)!Start(eds, Len(eds) + 1) \in Nat
  BY <1>2, StartsAreNat
<1>4. D(d, r)!Size = D(d, r)!Start(eds, Len(eds) + 1) * SectorSize
  BY DEF D!Size, D!Sectors, D!Eds, eds
<1> QED
  BY <1>3, <1>4, SizesAssumption

LEMMA SizeIsOfTheDisk ==
  ASSUME NEW d, NEW r, NEW s
  PROVE  D(d, r)!Size = D(d, s)!Size
BY DEF D!Size, D!Sectors, D!Eds, D!Start

\* A read that may begin where it does is for nothing only when it asks for nothing.
LEMMA AskedForNothing ==
  ASSUME NEW d, NEW r, D(d, r)!Size \in Nat, r.off \in Nat, r.len \in Nat,
         r.off <= D(d, r)!Size, Cardinality(D(d, r)!Asked) = 0
  PROVE  r.len = 0 \/ r.off = D(d, r)!Size
<1> DEFINE end == IF r.off + r.len > D(d, r)!Size THEN D(d, r)!Size ELSE r.off + r.len
<1>1. end \in Nat
  OBVIOUS
<1>2. D(d, r)!Asked = r.off .. end - 1
  BY DEF D!Asked
<1> HIDE DEF end
<1>3. Cardinality(r.off .. end - 1) = IF r.off > end - 1 THEN 0 ELSE (end - 1) - r.off + 1
  <2>1. PICK lo \in Int, hi \in Int : lo = r.off /\ hi = end - 1
    BY <1>1
  <2>2. Cardinality(lo .. hi) = IF lo > hi THEN 0 ELSE hi - lo + 1
    BY FS_Interval
  <2> QED
    BY <2>1, <2>2
<1>4. end <= r.off
  BY <1>1, <1>2, <1>3
<1> QED
  BY <1>4 DEF end

-----------------------------------------------------------------------------
(***************************************************************************)
(* What a caller learns from a count of 0.                                 *)
(***************************************************************************)

\* the handles are of disks that opened, and the last read was counted right
OpenedInv == \A v \in Vars : handles[v] # Null => D(images[v], NoRead)!Opens

Counted ==
  last.op = "read" /\ last.given /\ ~last.failed =>
    /\ last.req.off \in Nat /\ last.req.len \in Nat
    /\ D(last.image, last.req)!Size \in Nat
    /\ last.req.off <= D(last.image, last.req)!Size
    /\ last.n = Cardinality(D(last.image, last.req)!Asked)

CountInv == ErrorInv /\ OpenedInv /\ Counted

LEMMA CountInvStep == CountInv /\ [CApiNext]_vars => CountInv'
<1> SUFFICES ASSUME CountInv, [CApiNext]_vars PROVE OpenedInv' /\ Counted'
  BY ErrorInvStep DEF CountInv
<1>1. ASSUME NEW given \in BOOLEAN, NEW op, Failed(op, given)
      PROVE  OpenedInv' /\ Counted'
  <2>1. last'.failed /\ handles' = handles /\ images' = images
    BY <1>1 DEF Failed
  <2> QED
    BY <2>1 DEF Counted, CountInv, OpenedInv
<1>2. ASSUME NEW v \in Vars, NEW given \in BOOLEAN,
             OpenNothing(v, given) \/ ReadNothing(v, given) \/ OpenFails(v, given)
      PROVE  OpenedInv' /\ Counted'
  BY <1>1, <1>2 DEF OpenNothing, ReadNothing, OpenFails
<1>3. ASSUME NEW v \in Vars, NEW given \in BOOLEAN, OpenImage(v, given)
      PROVE  OpenedInv' /\ Counted'
  <2>1. /\ images' = images /\ D(images[v], NoRead)!Opens /\ last'.op = "open"
        /\ \A w \in Vars : w # v => handles'[w] = handles[w]
    BY <1>3 DEF OpenImage, CountInv, ErrorInv, OwnInv, CallerOK
  <2>2. OpenedInv'
    BY <2>1 DEF CountInv, OpenedInv
  <2> QED
    BY <2>1, <2>2 DEF Counted
<1>4. ASSUME NEW v \in Vars, NEW given \in BOOLEAN, NEW r \in Reads, ReadFails(v, r, given)
      PROVE  OpenedInv' /\ Counted'
  BY <1>1, <1>4 DEF ReadFails
<1>5. ASSUME NEW v \in Vars, NEW given \in BOOLEAN, NEW r \in Reads, Read(v, r, given)
      PROVE  OpenedInv' /\ Counted'
  <2>1. handles' = handles /\ images' = images /\ handles[v] # Null
    BY <1>5 DEF Read
  <2>2. OpenedInv'
    BY <2>1 DEF CountInv, OpenedInv
  <2>3. PICK d \in Disks : d = images[v]
    BY DEF CountInv, ErrorInv, OwnInv, CallerOK
  <2>4. ImageOf(v) = d
    BY <2>1, <2>3 DEF CountInv, ErrorInv, OwnInv, HeapInv, HeapOK, HandleOK, ImageOf, Vars
  <2>5. /\ r.off <= D(d, r)!Size
        /\ last'.n = Cardinality(D(d, r)!Asked) /\ last'.req = r /\ last'.image = d
    BY <1>5, <2>3, <2>4 DEF Read
  <2>6. r.off \in Nat /\ r.len \in Nat
    BY SizesAssumption DEF Reads
  <2>7. D(d, r)!Size \in Nat
    <3>1. D(d, NoRead)!Opens
      BY <2>1, <2>3 DEF CountInv, OpenedInv
    <3>2. D(d, NoRead)!Size \in Nat
      BY <3>1, SizeIsNat
    <3> QED
      BY <3>2, SizeIsOfTheDisk
  <2>8. Counted'
    BY <2>5, <2>6, <2>7 DEF Counted
  <2> QED
    BY <2>2, <2>8
<1>6. ASSUME NEW v \in Vars, CloseHandle(v)
      PROVE  OpenedInv' /\ Counted'
  <2>1. images' = images /\ last' = NoCall
    BY <1>6 DEF CloseHandle
  <2>2. handles'[v] = Null /\ \A w \in Vars : w # v => handles'[w] = handles[w]
    BY <1>6 DEF CloseHandle, CountInv, ErrorInv, OwnInv, CallerOK
  <2>3. OpenedInv'
    BY <2>1, <2>2 DEF CountInv, OpenedInv
  <2> QED
    BY <2>1, <2>3 DEF Counted, NoCall
<1>7. CASE FreeError
  BY <1>7 DEF FreeError, NoCall, Counted, CountInv, OpenedInv
<1>8. CASE UNCHANGED vars
  BY <1>8 DEF vars, CountInv, OpenedInv, Counted
<1> QED
  BY <1>2, <1>3, <1>4, <1>5, <1>6, <1>7, <1>8 DEF CApiNext

LEMMA CountInvHolds == CApiSpec => []CountInv
<1>1. CApiInit => OpenedInv /\ Counted
  BY DEF CApiInit, NoCall, OpenedInv, Counted
<1>2. CApiInit => CountInv
  BY <1>1, ErrorInvInit DEF CountInv
<1> QED
  BY <1>2, CountInvStep, PTL DEF CApiSpec

\* A caller that reads until it has what it wants does not turn round for ever on a count
\* of 0 without an error: it asked for nothing, or it is at the end of the image.
THEOREM ZeroEndsTheLoop == CApiSpec => []ZeroIsTheEnd
<1>1. CountInv => ZeroIsTheEnd
  <2> SUFFICES ASSUME CountInv, last.op = "read", last.given, err = Null, last.n = 0
               PROVE  last.req.len = 0 \/ last.req.off = D(last.image, NoRead)!Size
    BY DEF ZeroIsTheEnd
  <2>1. ~last.failed
    BY DEF CountInv, ErrorInv, ErrorTells
  <2>2. PICK d, r : d = last.image /\ r = last.req
    OBVIOUS
  <2>3. /\ r.off \in Nat /\ r.len \in Nat /\ D(d, r)!Size \in Nat
        /\ r.off <= D(d, r)!Size /\ Cardinality(D(d, r)!Asked) = 0
    BY <2>1, <2>2 DEF CountInv, Counted
  <2>4. r.len = 0 \/ r.off = D(d, r)!Size
    BY <2>3, AskedForNothing
  <2>5. D(d, r)!Size = D(d, NoRead)!Size
    BY SizeIsOfTheDisk
  <2> QED
    BY <2>2, <2>4, <2>5
<1> QED
  BY <1>1, CountInvHolds, PTL
=============================================================================
