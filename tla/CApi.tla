--------------------------------- MODULE CApi ---------------------------------
(***************************************************************************)
(* capi.rs: the functions for C, vmdk_open, vmdk_read, vmdk_close and      *)
(* vmdk_free_error, and who owns the memory that they pass around.         *)
(*                                                                         *)
(* A handle is an allocation that refers to two others, the reader and the *)
(* path; an error refers to its message.  Addresses are used again as soon *)
(* as they are free.  The reader is the DeltaDisk of its image.            *)
(*                                                                         *)
(* The caller is the one of the README's example, with two handles: it has *)
(* one variable for errors, which it frees before it passes it again, it   *)
(* passes null for err, handle, path and buffer as it likes, and it does   *)
(* not use a handle that it has closed.                                    *)
(***************************************************************************)
EXTENDS Integers, Sequences, FiniteSets

CONSTANTS
  SectorSize, Disks, MaxDepth, MaxRead,  \* as in DeltaDisk
  Addresses,                             \* bound: where memory is allocated
  Offsets, Lengths                       \* bounds: the reads tried

VARIABLES
  heap,     \* what is allocated at each address
  handles,  \* the caller's two handles
  images,   \* the disks that it opens them for, as often as it likes
  err,      \* the caller's error
  last      \* the call that was made last, and what it returned

vars == <<heap, handles, images, err, last>>

\* the disk d, asked for the read r
D(d, r) == INSTANCE DeltaDisk WITH
             disk <- d, phase <- "read", req <- r, ans <- [outcome |-> "none"]

Null == 0
Vars == {1, 2}
NoObject == [kind |-> "free"]
NoCall == [op |-> "none", given |-> FALSE, failed |-> FALSE]
NoRead == [off |-> 0, len |-> 0, faulty |-> FALSE]

\* the allocator finds memory: there is room for what two handles and an error own
ASSUME AddressesAssumption ==
  Null \notin Addresses /\ IsFiniteSet(Addresses) /\ Cardinality(Addresses) >= 8

\* numbers are unsigned, and what a descriptor lists is a sequence of extents
ASSUME SizesAssumption ==
  /\ SectorSize \in Nat /\ MaxDepth \in Nat \ {0}
  /\ Offsets \subseteq Nat /\ Lengths \subseteq Nat
  /\ \A d \in Disks : \A f \in DOMAIN d.files :
       LET eds == d.files[f].desc.eds
       IN  /\ eds \in Seq({eds[j] : j \in DOMAIN eds})
           /\ \A j \in DOMAIN eds : eds[j].sectors \in Nat

New(h) == CHOOSE a \in Addresses : h[a] = NoObject

Put(h, obj) == [h EXCEPT ![New(h)] = obj]
Drop(h, freed) == [a \in Addresses |-> IF a \in freed THEN NoObject ELSE h[a]]

CApiInit ==
  /\ heap = [a \in Addresses |-> NoObject]
  /\ handles = [v \in Vars |-> Null]
  /\ images \in [Vars -> Disks]
  /\ err = Null
  /\ last = NoCall

\* fill_error: nothing is stored when err is null
FillError(given) ==
  IF given
    THEN LET h == Put(heap, [kind |-> "message"])
         IN  /\ heap' = Put(h, [kind |-> "error", message |-> New(heap)])
             /\ err' = New(h)
    ELSE UNCHANGED <<heap, err>>

\* a failed open or read
Failed(op, given) ==
  /\ FillError(given)
  /\ last' = [op |-> op, given |-> given, failed |-> TRUE]
  /\ UNCHANGED <<handles, images>>

\* a careful caller
MayPass(given) == given => err = Null

\* a mistake in OpenNothing: fill_error is not called
OpenNothingSilently(v, given) ==
  /\ handles[v] = Null /\ MayPass(given)
  /\ last' = [op |-> "open", given |-> given, failed |-> TRUE]
  /\ UNCHANGED <<heap, handles, images, err>>

\* image_path is null, or not UTF-8
OpenNothing(v, given) ==
  /\ handles[v] = Null /\ MayPass(given)
  /\ Failed("open", given)

OpenFails(v, given) ==
  /\ handles[v] = Null /\ MayPass(given)
  /\ images[v].flaky \/ ~D(images[v], NoRead)!Opens
  /\ Failed("open", given)

\* VmdkReader::open, then VmdkHandle::new, whose path came from UTF-8 without nulls
OpenImage(v, given) ==
  /\ handles[v] = Null /\ MayPass(given)
  /\ D(images[v], NoRead)!Opens
  /\ LET withPath == Put(heap, [kind |-> "path"])
         withReader == Put(withPath, [kind |-> "reader", image |-> images[v]])
     IN  /\ heap' = Put(withReader, [kind |-> "handle", path |-> New(heap),
                          reader |-> New(withPath), size |-> D(images[v], NoRead)!Size])
         /\ handles' = [handles EXCEPT ![v] = New(withReader)]
  /\ last' = [op |-> "open", given |-> given, failed |-> FALSE]
  /\ UNCHANGED <<images, err>>

\* handle is null, or else buf is
ReadNothing(v, given) ==
  /\ MayPass(given)
  /\ Failed("read", given)

ImageOf(v) == heap[heap[handles[v]].reader].image

\* read_at_offset refuses to read, or fails
\* a mistake in ReadFails: the error is dropped, as by unwrap_or(0)
ReadFailsSilently(v, r, given) ==
  /\ handles[v] # Null /\ MayPass(given)
  /\ r.off > D(ImageOf(v), r)!Size \/ D(ImageOf(v), r)!Broken
  /\ last' = [op |-> "read", given |-> given, failed |-> FALSE, n |-> 0, req |-> r,
              image |-> images[v]]
  /\ UNCHANGED <<heap, handles, images, err>>

ReadFails(v, r, given) ==
  /\ handles[v] # Null /\ MayPass(given)
  /\ r.off > D(ImageOf(v), r)!Size \/ D(ImageOf(v), r)!Broken
  /\ Failed("read", given)

Read(v, r, given) ==
  /\ handles[v] # Null /\ MayPass(given)
  /\ r.off <= D(ImageOf(v), r)!Size /\ D(ImageOf(v), r)!Complete
  /\ last' = [op |-> "read", given |-> given, failed |-> FALSE,
              n |-> Cardinality(D(ImageOf(v), r)!Asked), req |-> r, image |-> images[v]]
  /\ UNCHANGED <<heap, handles, images, err>>

\* a mistake in OfHandle: the path is not turned back into a CString
OfHandleOnly(a) == {a, heap[a].reader}

\* what is dropped with a handle
OfHandle(a) == {a, heap[a].reader, heap[a].path}

\* what is dropped with an error
OfError(a) == {a, heap[a].message}

\* the caller forgets the handle
CloseHandle(v) ==
  /\ heap' = IF handles[v] = Null THEN heap ELSE Drop(heap, OfHandle(handles[v]))
  /\ handles' = [handles EXCEPT ![v] = Null]
  /\ last' = NoCall
  /\ UNCHANGED <<images, err>>

\* the caller resets its variable
FreeError ==
  /\ heap' = IF err = Null THEN heap ELSE Drop(heap, OfError(err))
  /\ err' = Null
  /\ last' = NoCall
  /\ UNCHANGED <<handles, images>>

Reads == [off : Offsets, len : Lengths, faulty : BOOLEAN]

CApiNext ==
  \/ \E v \in Vars, given \in BOOLEAN :
       \/ OpenNothing(v, given)
       \/ ReadNothing(v, given)
       \/ OpenFails(v, given)
       \/ OpenImage(v, given)
       \/ \E r \in Reads : ReadFails(v, r, given) \/ Read(v, r, given)
  \/ \E v \in Vars : CloseHandle(v)
  \/ FreeError

CApiSpec == CApiInit /\ [][CApiNext]_vars

-----------------------------------------------------------------------------
(***************************************************************************)
(* Properties.                                                             *)
(***************************************************************************)

Open == {v \in Vars : handles[v] # Null}

\* Everything that is allocated belongs to one handle or to the error that the
\* caller has, whatever was opened, closed and failed before: nothing leaks, is freed
\* twice or is reached from two sides, and a handle still is the one of its image.
Owned ==
  /\ \A v \in Open :
       /\ heap[handles[v]].kind = "handle"
       /\ heap[heap[handles[v]].reader].kind = "reader"
       /\ heap[heap[handles[v]].path].kind = "path"
       /\ ImageOf(v) = images[v]
       /\ heap[handles[v]].size = D(images[v], NoRead)!Size
  /\ err # Null => heap[err].kind = "error" /\ heap[heap[err].message].kind = "message"
  /\ Cardinality({a \in Addresses : heap[a] # NoObject})
       = 3 * Cardinality(Open) + (IF err = Null THEN 0 ELSE 2)

\* A caller that passes err sees from it, and from it alone, whether the call failed.
ErrorTells == last.given => (last.failed <=> err # Null)

\* A read that returns 0 without an error is one for nothing or at the end of the
\* image: the loop of the README's example, which does not look for 0, gets on.
ZeroIsTheEnd ==
  last.op = "read" /\ last.given /\ err = Null /\ last.n = 0
    => last.req.len = 0 \/ last.req.off = D(last.image, NoRead)!Size
=============================================================================
