---------------------------- MODULE CachedSources ----------------------------
(***************************************************************************)
(* cachereadseek.rs and foyercache.rs: the files of an image are read in   *)
(* chunks of ChLen bytes through one cache that all of them share.         *)
(*                                                                         *)
(* A CacheReadSeek is an index into the sources of the cache and a         *)
(* position.  A read holds the mutex of the cache until it returns; the    *)
(* chunks it needs are fetched by tasks of the runtime that finish in any  *)
(* order, fail one by one, and may outlive the read that wanted them.      *)
(*                                                                         *)
(* The HybridCache itself is external: what FoyerCache relies on is that   *)
(* get_or_fetch answers with the entry of the key, or else runs the fetch  *)
(* or joins one of the same key, and that entries come and go on their own.*)
(***************************************************************************)
EXTENDS Integers, Sequences, SequencesExt

CONSTANTS
  Handles,  \* the CacheReadSeeks
  FileLen,  \* the length in bytes of every file, by its name
  ChLen,    \* chlen, the length of a chunk
  Sources,  \* bound: how many sources are added
  MaxLen    \* bound: the longest buffer

ASSUME ChunkAssumption == ChLen \in Nat /\ ChLen > 0

\* "" stands for no file
ASSUME FilesAssumption ==
  "" \notin DOMAIN FileLen /\ \A f \in DOMAIN FileLen : FileLen[f] \in Nat

ASSUME BoundsAssumption == Sources \in Nat /\ MaxLen \in Nat

ASSUME HandlesAssumption == "" \notin Handles

VARIABLES
  sources,   \* Vec<Box<dyn BytesSource>>, by index from 0: the file of each
  cached,    \* what HybridCache holds: (index, offset of chunk) |-> its bytes
  fetching,  \* the keys whose fetch is under way
  handle,    \* the handles: [idx, pos], or NoHandle
  reader,    \* the handle whose read holds the mutex, "" for none
  len,       \* the length of its read, limited to the end of the source
  chunks,    \* the chunks it has so far, by their offset
  got        \* the result of the last call

cacheVars == <<sources, cached, fetching>>
readVars == <<reader, len, chunks>>
vars == <<cacheVars, handle, readVars, got>>

NoHandle == [idx |-> -1, pos |-> 0]
NoReader == ""
NoChunks == [c \in {} |-> <<>>]
Result(outcome, bytes) == [outcome |-> outcome, bytes |-> bytes]
NoResult == Result("none", <<>>)

Made(h) == handle[h] # NoHandle
Least(a, b) == IF a < b THEN a ELSE b

-----------------------------------------------------------------------------
(***************************************************************************)
(* Sources.                                                                *)
(***************************************************************************)

\* Cache::end
End(idx) == FileLen[sources[idx]]

\* BytesSource::read
SourceRead(idx, beg, end) == [k \in 1 .. end - beg |-> <<sources[idx], beg + k - 1>>]

\* what S3Source makes of the range: both ends are in it
S3Range(beg, end) == [first |-> beg, last |-> end - 1]

\* add_source.  open() gives out one index after the other, each to one source;
\* the same file may be added twice.
AddSource(f) ==
  /\ reader = NoReader
  /\ Cardinality(DOMAIN sources) < Sources
  /\ sources' = [k \in DOMAIN sources \cup {Cardinality(DOMAIN sources)} |->
                   IF k \in DOMAIN sources THEN sources[k] ELSE f]
  /\ UNCHANGED <<cached, fetching, handle, readVars, got>>

-----------------------------------------------------------------------------
(***************************************************************************)
(* CacheReadSeek: making one, cloning one, and seek.                       *)
(***************************************************************************)
New(h) ==
  /\ ~Made(h) /\ reader = NoReader
  /\ \/ \E k \in DOMAIN sources : handle' = [handle EXCEPT ![h] = [idx |-> k, pos |-> 0]]
     \/ \E g \in Handles : Made(g) /\ handle' = [handle EXCEPT ![h] = handle[g]]
  /\ got' = NoResult
  /\ UNCHANGED <<cacheVars, readVars>>

\* mistakes in Seek: no lower, or no upper bound
SeekBefore(h, from, n) ==
  LET end == End(handle[h].idx)
      base == CASE from = "Start" -> 0 [] from = "End" -> end
                [] from = "Current" -> handle[h].pos
  IN  /\ Made(h) /\ reader = NoReader
      /\ base + n <= end
      /\ handle' = [handle EXCEPT ![h].pos = base + n] /\ got' = Result("sought", <<>>)
      /\ UNCHANGED <<cacheVars, readVars>>

SeekBeyond(h, from, n) ==
  LET base == CASE from = "Start" -> 0 [] from = "End" -> End(handle[h].idx)
                [] from = "Current" -> handle[h].pos
  IN  /\ Made(h) /\ reader = NoReader
      /\ base + n >= 0
      /\ handle' = [handle EXCEPT ![h].pos = base + n] /\ got' = Result("sought", <<>>)
      /\ UNCHANGED <<cacheVars, readVars>>

Seek(h, from, n) ==
  LET end == End(handle[h].idx)
      base == CASE from = "Start" -> 0 [] from = "End" -> end
                [] from = "Current" -> handle[h].pos
  IN  /\ Made(h) /\ reader = NoReader
      /\ IF base + n \in 0 .. end
           THEN handle' = [handle EXCEPT ![h].pos = base + n] /\ got' = Result("sought", <<>>)
           ELSE got' = Result("error", <<>>) /\ UNCHANGED handle
      /\ UNCHANGED <<cacheVars, readVars>>

-----------------------------------------------------------------------------
(***************************************************************************)
(* CacheReadSeek::read and, in it, FoyerCache::read.                       *)
(***************************************************************************)
Off == handle[reader].pos
Idx == handle[reader].idx

\* csbeg
ChunkStart(off) == (off \div ChLen) * ChLen

\* a mistake in ChunksFor: the range has its end in it
ChunksForClosed(off, n) ==
  {c \in ChunkStart(off) .. off + n : (c - ChunkStart(off)) % ChLen = 0}

\* the offsets of the chunks that hold [off, off + n)
ChunksFor(off, n) ==
  {c \in ChunkStart(off) .. off + n - 1 : (c - ChunkStart(off)) % ChLen = 0}

Wanted == ChunksFor(Off, len)

\* the keys of chunks of the source k, at the offsets cs
Keys(k, cs) == {<<k, c>> : c \in cs}

\* limit the read to the end of the source, and ask for its chunks: those in
\* the cache are there, and the fetches of the others start unless they run
Read(h, n) ==
  LET pos == handle[h].pos
      rend == Least(End(handle[h].idx), pos + n)
      keys == Keys(handle[h].idx, ChunksFor(pos, rend - pos))
  IN  /\ Made(h) /\ reader = NoReader
      /\ IF rend - pos <= 0
           THEN got' = Result("bytes", <<>>) /\ UNCHANGED <<readVars, fetching>>
           ELSE /\ reader' = h
                /\ len' = rend - pos
                /\ chunks' = [c \in {k[2] : k \in keys \cap DOMAIN cached} |->
                                cached[<<handle[h].idx, c>>]]
                /\ fetching' = fetching \cup (keys \ DOMAIN cached)
                /\ got' = NoResult
      /\ UNCHANGED <<sources, cached, handle>>

\* is the fetch of the key one that the read is waiting for?
Awaited(key) == reader # NoReader /\ key[1] = Idx /\ key[2] \in Wanted \ DOMAIN chunks

\* mistakes in Fetched: a full chunk is asked of every source, or the reads that
\* wait for it are not told
FetchedFull(key) ==
  LET chunk == SourceRead(key[1], key[2], key[2] + ChLen) IN
  /\ key \in fetching
  /\ fetching' = fetching \ {key}
  /\ cached' = [k \in DOMAIN cached \cup {key} |-> IF k = key THEN chunk ELSE cached[k]]
  /\ chunks' = IF Awaited(key)
                 THEN [c \in DOMAIN chunks \cup {key[2]} |->
                         IF c = key[2] THEN chunk ELSE chunks[c]]
                 ELSE chunks
  /\ UNCHANGED <<sources, handle, reader, len, got>>

FetchedAside(key) ==
  LET chunk == SourceRead(key[1], key[2], Least(key[2] + ChLen, End(key[1]))) IN
  /\ key \in fetching
  /\ fetching' = fetching \ {key}
  /\ cached' = [k \in DOMAIN cached \cup {key} |-> IF k = key THEN chunk ELSE cached[k]]
  /\ UNCHANGED <<sources, handle, readVars, got>>

\* the fetch of a chunk is done: up to ChLen bytes, or to the end of the source
Fetched(key) ==
  LET chunk == SourceRead(key[1], key[2], Least(key[2] + ChLen, End(key[1]))) IN
  /\ key \in fetching
  /\ fetching' = fetching \ {key}
  /\ cached' = [k \in DOMAIN cached \cup {key} |-> IF k = key THEN chunk ELSE cached[k]]
  /\ chunks' = IF Awaited(key)
                 THEN [c \in DOMAIN chunks \cup {key[2]} |->
                         IF c = key[2] THEN chunk ELSE chunks[c]]
                 ELSE chunks
  /\ UNCHANGED <<sources, handle, reader, len, got>>

Returned(result) ==
  /\ got' = result
  /\ reader' = NoReader /\ len' = 0 /\ chunks' = NoChunks

\* a mistake in FetchFails: the read goes on waiting
FetchFailsUnseen(key) ==
  /\ key \in fetching
  /\ fetching' = fetching \ {key}
  /\ UNCHANGED <<sources, cached, handle, readVars, got>>

\* the fetch of a chunk fails, and with it the read that waits for it
FetchFails(key) ==
  /\ key \in fetching
  /\ fetching' = fetching \ {key}
  /\ IF Awaited(key) THEN Returned(Result("error", <<>>))
                     ELSE UNCHANGED <<readVars, got>>
  /\ UNCHANGED <<sources, cached, handle>>

\* a mistake in Copied: every chunk is copied from its start
FilledFromStart[c \in Wanted] ==
  LET buf == IF c = ChunkStart(Off) THEN <<>> ELSE FilledFromStart[c - ChLen]
  IN  buf \o SubSeq(chunks[c], 1, Least(len - Len(buf), Len(chunks[c])))

CopiedFromStart == FilledFromStart[Max(Wanted)]

\* the copy loop, after the chunk at c: what the buffer has room for is copied
Filled[c \in Wanted] ==
  LET buf == IF c = ChunkStart(Off) THEN <<>> ELSE Filled[c - ChLen]
      chbeg == Off + Len(buf) - c
      chend == Least(chbeg + (len - Len(buf)), Len(chunks[c]))
  IN  buf \o SubSeq(chunks[c], chbeg + 1, chend)

Copied == Filled[Max(Wanted)]

\* all chunks are there
Complete ==
  /\ reader # NoReader
  /\ DOMAIN chunks = Wanted
  /\ handle' = [handle EXCEPT ![reader].pos = @ + len]
  /\ Returned(Result("bytes", Copied))
  /\ UNCHANGED cacheVars

-----------------------------------------------------------------------------
(***************************************************************************)
(* What the HybridCache and the runtime do besides.                        *)
(***************************************************************************)

\* an entry is evicted; the read that has it keeps it
Evict(key) ==
  /\ key \in DOMAIN cached
  /\ cached' = [k \in DOMAIN cached \ {key} |-> cached[k]]
  /\ UNCHANGED <<sources, fetching, handle, readVars, got>>

\* a fetch that nobody waits for is dropped with the future of a failed read
Dropped(key) ==
  /\ key \in fetching
  /\ ~Awaited(key)
  /\ fetching' = fetching \ {key}
  /\ UNCHANGED <<sources, cached, handle, readVars, got>>

-----------------------------------------------------------------------------
CachedInit ==
  /\ sources = [k \in {} |-> ""]
  /\ cached = [k \in {} |-> <<>>]
  /\ fetching = {}
  /\ handle = [h \in Handles |-> NoHandle]
  /\ reader = NoReader /\ len = 0 /\ chunks = NoChunks
  /\ got = NoResult

Calls ==
  \/ \E f \in DOMAIN FileLen : AddSource(f)
  \/ \E h \in Handles :
       \/ New(h)
       \/ /\ Made(h)
          /\ \E n \in -1 .. End(handle[h].idx) + 1 :
               \/ Seek(h, "Start", n) /\ n >= 0
               \/ Seek(h, "End", -n)
               \/ Seek(h, "Current", n - handle[h].pos)
       \/ \E n \in 0 .. MaxLen : Read(h, n)

Fetches ==
  \E key \in fetching : Fetched(key) \/ FetchFails(key)

CachedNext ==
  \/ Calls
  \/ Fetches
  \/ Complete
  \/ \E key \in DOMAIN cached : Evict(key)
  \/ \E key \in fetching : Dropped(key)

\* The runtime runs the fetches that a read awaits, each to its end one way or
\* the other, and the thread that awaits them.
CachedSpec ==
  /\ CachedInit
  /\ [][CachedNext]_vars
  /\ WF_vars(\E key \in fetching : Awaited(key) /\ (Fetched(key) \/ FetchFails(key)))
  /\ WF_vars(Complete)

-----------------------------------------------------------------------------
(***************************************************************************)
(* Properties.                                                             *)
(***************************************************************************)
CachedTypeOK ==
  /\ \A k \in DOMAIN sources : k \in Nat /\ sources[k] \in DOMAIN FileLen
  /\ \A key \in DOMAIN cached \cup fetching : key[1] \in DOMAIN sources /\ key[2] \in Nat
  /\ \A h \in Handles :
       handle[h] # NoHandle => handle[h].idx \in DOMAIN sources /\ handle[h].pos \in Nat
  /\ reader \in Handles \cup {NoReader}
  /\ len \in 0 .. MaxLen
  /\ got.outcome \in {"none", "sought", "bytes", "error"}

\* The bytes of the chunk at an offset of a source.
ChunkOf(idx, c) == SourceRead(idx, c, Least(c + ChLen, End(idx)))

\* Whatever has been fetched, evicted and fetched again, by reads that
\* succeeded or failed, every entry of the shared cache, and every chunk a read
\* holds, is the chunk of its own source at its own offset (the key is
\* (idx, choff)), and lies within the source.
ChunksAreTheSources ==
  /\ \A key \in DOMAIN cached :
       cached[key] = ChunkOf(key[1], key[2]) /\ key[2] < End(key[1])
  /\ \A c \in DOMAIN chunks : chunks[c] = ChunkOf(Idx, c)

\* The range of every fetch is one that a source may be asked for: not empty, or
\* what is sent to S3, whose ranges have their end in them, would be the range
\* backwards, and not beyond the end.
RangesAreWithin ==
  \A key \in fetching :
    LET range == S3Range(key[2], Least(key[2] + ChLen, End(key[1])))
    IN  0 <= range.first /\ range.first <= range.last /\ range.last < End(key[1])

\* No handle is beyond the end of its source: CacheReadSeek::read subtracts its
\* position from the end of the read as unsigned numbers.
NoneBeyondEnd == \A h \in Handles : Made(h) => handle[h].pos <= End(handle[h].idx)

\* A read never waits for a chunk that nothing fetches: not for one that was
\* evicted after it was asked for, nor for one whose fetch failed before.
NothingForgotten ==
  reader # NoReader => Keys(Idx, Wanted \ DOMAIN chunks) \subseteq fetching

\* the cursors and the read under way, as SourceCursors has them
CursorOf(h) ==
  IF Made(h) THEN [file |-> sources[handle[h].idx], pos |-> handle[h].pos]
             ELSE [file |-> "", pos |-> 0]
CursorsOf == [h \in Handles |-> CursorOf(h)]
AskedOf == IF reader = NoReader THEN [handle |-> "", len |-> 0]
                                ELSE [handle |-> reader, len |-> len]

Cursors == INSTANCE SourceCursors WITH cursor <- CursorsOf, asked <- AskedOf

\* A CacheReadSeek is a cursor over its file: a read returns exactly the bytes
\* at its position or, when a fetch fails, leaves the position as it was, for
\* any mix of chunks that were there, that are fetched for it and that another
\* read has been fetching; seek does not go beyond the end.
IsACursor == Cursors!Spec

\* Every read returns.
CachedReadReturns == reader # NoReader ~> reader = NoReader
=============================================================================
