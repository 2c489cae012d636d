---------------------------- MODULE SourceCursors ----------------------------
(***************************************************************************)
(* What a CacheReadSeek promises to the readers of headers, tables and     *)
(* grains: a cursor over one file that never changes hands, like a         *)
(* std::fs::File, except that it cannot be moved beyond the end.           *)
(*                                                                         *)
(* A byte of a file is <<file, position>>.                                 *)
(***************************************************************************)
EXTENDS Integers, Sequences

CONSTANTS
  Handles,  \* the cursors
  FileLen,  \* the length in bytes of every file
  MaxLen    \* bound: the longest buffer

VARIABLES
  cursor,   \* where each handle is: [file, pos], NoCursor before it is made
  asked,    \* the read under way, as [handle, len], or NoRead
  got       \* the result of the last call

vars == <<cursor, asked, got>>

NoCursor == [file |-> "", pos |-> 0]
NoRead == [handle |-> "", len |-> 0]
Result(outcome, bytes) == [outcome |-> outcome, bytes |-> bytes]
NoResult == Result("none", <<>>)

Made(h) == cursor[h] # NoCursor

Init ==
  /\ cursor = [h \in Handles |-> NoCursor]
  /\ asked = NoRead
  /\ got = NoResult

\* a cursor is made at the start of its file, or as a copy of another
Make(h) ==
  /\ ~Made(h) /\ asked = NoRead
  /\ \E at \in {[file |-> f, pos |-> 0] : f \in DOMAIN FileLen}
                \cup {cursor[g] : g \in {k \in Handles : Made(k)}} :
       cursor' = [cursor EXCEPT ![h] = at]
  /\ UNCHANGED asked /\ got' = NoResult

Seek(h, to) ==
  /\ Made(h) /\ asked = NoRead
  /\ IF to \in 0 .. FileLen[cursor[h].file]
       THEN cursor' = [cursor EXCEPT ![h].pos = to] /\ got' = Result("sought", <<>>)
       ELSE got' = Result("error", <<>>) /\ UNCHANGED cursor
  /\ UNCHANGED asked

\* how much of a buffer a read fills
Room(h, len) ==
  LET rest == FileLen[cursor[h].file] - cursor[h].pos
  IN  IF len < rest THEN len ELSE rest

\* a read of nothing, or at the end, returns nothing
Nothing(h, len) ==
  /\ Made(h) /\ asked = NoRead
  /\ Room(h, len) = 0
  /\ got' = Result("bytes", <<>>)
  /\ UNCHANGED <<cursor, asked>>

Ask(h, len) ==
  /\ Made(h) /\ asked = NoRead
  /\ Room(h, len) > 0
  /\ asked' = [handle |-> h, len |-> Room(h, len)]
  /\ got' = NoResult
  /\ UNCHANGED cursor

\* exactly the bytes at the cursor, as many as there are up to the end
Deliver ==
  /\ asked # NoRead
  /\ LET c == cursor[asked.handle]
     IN  /\ got' = Result("bytes", [k \in 1 .. asked.len |-> <<c.file, c.pos + k - 1>>])
         /\ cursor' = [cursor EXCEPT ![asked.handle].pos = @ + asked.len]
  /\ asked' = NoRead

\* a failed read leaves the cursor where it was
Fail ==
  /\ asked # NoRead
  /\ got' = Result("error", <<>>)
  /\ asked' = NoRead
  /\ UNCHANGED cursor

Next ==
  \/ \E h \in Handles :
       \/ Make(h)
       \/ Made(h) /\ \E to \in -1 .. FileLen[cursor[h].file] + 1 : Seek(h, to)
       \/ \E len \in 0 .. MaxLen : Nothing(h, len) \/ Ask(h, len)
  \/ Deliver
  \/ Fail

Spec == Init /\ [][Next]_vars
=============================================================================
