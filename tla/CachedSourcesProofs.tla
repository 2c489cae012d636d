------------------------- MODULE CachedSourcesProofs -------------------------
(***************************************************************************)
(* Proofs about the shared cache for all files, chunk lengths and handles. *)
(***************************************************************************)
EXTENDS CachedSources, NatLemmas, SequenceTheorems

-----------------------------------------------------------------------------
(***************************************************************************)
(* The inductive invariant.                                                *)
(***************************************************************************)

\* a chunk that may be asked for: of a source that is there, within the source
GoodKey(key) ==
  key[1] \in DOMAIN sources /\ key[2] \in Nat /\ key[2] < End(key[1])

\* a handle that has been made is at a position of a source that is there
GoodHandle(h) ==
  handle[h].idx \in DOMAIN sources /\ handle[h].pos \in 0 .. End(handle[h].idx)

SourcesInv ==
  /\ IsFiniteSet(DOMAIN sources)
  /\ DOMAIN sources \subseteq Nat
  /\ \A k \in DOMAIN sources : sources[k] \in DOMAIN FileLen

HandlesInv ==
  /\ handle \in [Handles -> [idx : Int, pos : Int]]
  /\ \A h \in Handles : Made(h) => GoodHandle(h)

\* the read under way is within its source
ReadInv ==
  reader # NoReader =>
    /\ reader \in Handles /\ Made(reader)
    /\ len \in Nat \ {0} /\ Off + len <= End(Idx)

ChunksInv ==
  /\ \A key \in fetching : GoodKey(key)
  /\ \A key \in DOMAIN cached :
       GoodKey(key) /\ cached[key] = ChunkOf(key[1], key[2])
  /\ reader = NoReader => DOMAIN chunks = {}
  /\ \A c \in DOMAIN chunks : chunks[c] = ChunkOf(Idx, c)

CacheInv == SourcesInv /\ HandlesInv /\ ReadInv /\ ChunksInv

-----------------------------------------------------------------------------
\* The chunks for a range start at offsets from 0 to the end of the range.
LEMMA ChunksInRange ==
  ASSUME NEW off \in Nat, NEW n \in Nat, NEW c \in ChunksFor(off, n)
  PROVE  c \in Nat /\ c < off + n
<1>1. ChLen \in Nat /\ ChLen > 0
  BY ChunkAssumption
<1>2. off \div ChLen \in Nat
  BY <1>1
<1>3. \A q, l \in Nat : q * l \in Nat
  OBVIOUS
<1>4. (off \div ChLen) * ChLen \in Nat
  BY <1>1, <1>2, <1>3
<1>5. c \in ChunkStart(off) .. off + n - 1
  BY DEF ChunksFor
<1> QED
  BY <1>4, <1>5 DEF ChunkStart

\* A source that is there has an end, in Nat.
LEMMA EndNat ==
  ASSUME SourcesInv, NEW k \in DOMAIN sources
  PROVE  End(k) \in Nat
BY FilesAssumption DEF SourcesInv, End

-----------------------------------------------------------------------------
LEMMA InitCacheInv == CachedInit => CacheInv
<1> SUFFICES ASSUME CachedInit PROVE CacheInv
  OBVIOUS
<1> USE DEF CachedInit
<1>1. DOMAIN sources = {} /\ DOMAIN cached = {} /\ DOMAIN chunks = {}
  BY DEF NoChunks
<1>2. \A h \in Handles : ~Made(h)
  BY DEF Made
<1>3. NoHandle \in [idx : Int, pos : Int]
  BY DEF NoHandle
<1> QED
  BY <1>1, <1>2, <1>3, FS_EmptySet DEF CacheInv, SourcesInv, HandlesInv, ReadInv, ChunksInv

\* A new source changes nothing about the sources that are there.
LEMMA AddSourceStep ==
  ASSUME CacheInv, NEW f \in DOMAIN FileLen, AddSource(f)
  PROVE  CacheInv'
<1> USE DEF AddSource
<1>1. DOMAIN sources' = DOMAIN sources \cup {Cardinality(DOMAIN sources)}
  OBVIOUS
<1>2. \A k \in DOMAIN sources : sources'[k] = sources[k]
  OBVIOUS
<1>3. \A k \in DOMAIN sources : End(k)' = End(k)
  BY <1>2 DEF End
<1>4. \A k \in DOMAIN sources : \A c : ChunkOf(k, c)' = ChunkOf(k, c)
  BY <1>2, <1>3 DEF ChunkOf, SourceRead
<1>5. SourcesInv'
  <2>1. IsFiniteSet(DOMAIN sources) /\ Cardinality(DOMAIN sources) \in Nat
    BY FS_CardinalityType DEF CacheInv, SourcesInv
  <2>2. IsFiniteSet(DOMAIN sources')
    BY <1>1, <2>1, FS_AddElement
  <2> QED
    BY <1>1, <2>1, <2>2 DEF CacheInv, SourcesInv
<1>6. \A h \in Handles : Made(h)' <=> Made(h)
  BY DEF Made
<1>7. HandlesInv'
  BY <1>1, <1>3, <1>6 DEF CacheInv, HandlesInv, GoodHandle
<1>8. ReadInv' /\ ChunksInv'
  BY <1>1, <1>3, <1>4 DEF CacheInv, ChunksInv, ReadInv, GoodKey, readVars
<1> QED
  BY <1>5, <1>7, <1>8 DEF CacheInv

\* A handle is made at the start of a source or where another one is.
LEMMA NewStep ==
  ASSUME CacheInv, NEW h \in Handles, New(h)
  PROVE  CacheInv'
<1> USE DEF New, cacheVars, readVars
<1>1. PICK p \in [idx : Int, pos : Int] :
        /\ handle' = [handle EXCEPT ![h] = p]
        /\ p.idx \in DOMAIN sources /\ p.pos \in 0 .. End(p.idx)
  <2>1. CASE \E k \in DOMAIN sources : handle' = [handle EXCEPT ![h] = [idx |-> k, pos |-> 0]]
    <3>1. PICK k \in DOMAIN sources : handle' = [handle EXCEPT ![h] = [idx |-> k, pos |-> 0]]
      BY <2>1
    <3>2. k \in Int /\ End(k) \in Nat
      BY EndNat DEF CacheInv, SourcesInv
    <3> DEFINE at == [idx |-> k, pos |-> 0]
    <3>3. at \in [idx : Int, pos : Int] /\ at.idx = k /\ at.pos \in 0 .. End(at.idx)
      BY <3>2
    <3>4. handle' = [handle EXCEPT ![h] = at] /\ at.idx \in DOMAIN sources
      BY <3>1, <3>3
    <3> HIDE DEF at
    <3> QED
      BY <3>3, <3>4
  <2>2. CASE \E g \in Handles : Made(g) /\ handle' = [handle EXCEPT ![h] = handle[g]]
    BY <2>2 DEF CacheInv, HandlesInv, GoodHandle
  <2> QED
    BY <2>1, <2>2
<1>2. \A k \in DOMAIN sources : End(k)' = End(k)
  BY DEF End
<1>3. HandlesInv'
  BY <1>1, <1>2 DEF CacheInv, HandlesInv, GoodHandle, Made
<1>4. SourcesInv' /\ ReadInv' /\ ChunksInv'
  BY <1>2 DEF CacheInv, SourcesInv, ReadInv, ChunksInv, GoodKey, ChunkOf, SourceRead
<1> QED
  BY <1>3, <1>4 DEF CacheInv

\* Seek moves a handle within its source, or not at all.
LEMMA SeekStep ==
  ASSUME CacheInv, NEW h \in Handles, NEW from, NEW n, Seek(h, from, n)
  PROVE  CacheInv'
<1> USE DEF cacheVars, readVars
<1>1. Made(h) /\ reader = NoReader /\ UNCHANGED <<cacheVars, readVars>>
  BY DEF Seek
<1>2. \A k \in DOMAIN sources : End(k)' = End(k)
  BY <1>1 DEF End
<1>3. handle[h].idx \in DOMAIN sources /\ handle[h].idx \in Int
  BY <1>1 DEF CacheInv, HandlesInv, GoodHandle
<1>4. End(handle[h].idx) \in Nat
  BY <1>3, EndNat DEF CacheInv
<1>5. \/ handle' = handle
      \/ \E to \in 0 .. End(handle[h].idx) : handle' = [handle EXCEPT ![h].pos = to]
  BY DEF Seek
<1>6. HandlesInv'
  <2>1. CASE handle' = handle
    BY <1>1, <1>2, <2>1 DEF CacheInv, HandlesInv, GoodHandle, Made
  <2>2. CASE \E to \in 0 .. End(handle[h].idx) : handle' = [handle EXCEPT ![h].pos = to]
    <3>1. PICK to \in 0 .. End(handle[h].idx) : handle' = [handle EXCEPT ![h].pos = to]
      BY <2>2
    <3>2. to \in Int
      BY <1>4
    <3>3. handle' \in [Handles -> [idx : Int, pos : Int]]
      BY <3>1, <3>2 DEF CacheInv, HandlesInv
    <3>4. handle'[h].idx = handle[h].idx /\ handle'[h].pos = to
      BY <3>1 DEF CacheInv, HandlesInv
    <3>5. \A g \in Handles : g # h => handle'[g] = handle[g]
      BY <3>1 DEF CacheInv, HandlesInv
    <3> QED
      BY <1>1, <1>2, <1>3, <3>3, <3>4, <3>5 DEF CacheInv, HandlesInv, GoodHandle, Made
  <2> QED
    BY <1>5, <2>1, <2>2
<1>7. SourcesInv' /\ ReadInv' /\ ChunksInv'
  BY <1>1, <1>2 DEF CacheInv, SourcesInv, ReadInv, ChunksInv, GoodKey, ChunkOf, SourceRead
<1> QED
  BY <1>6, <1>7 DEF CacheInv

\* A read asks for chunks of its own source, within it, and takes those that are
\* in the cache.
LEMMA ReadStep ==
  ASSUME CacheInv, NEW h \in Handles, NEW n \in Nat, Read(h, n)
  PROVE  CacheInv'
<1> DEFINE pos == handle[h].pos
           idx == handle[h].idx
           rend == Least(End(idx), pos + n)
           wanted == ChunksFor(pos, rend - pos)
           keys == Keys(idx, wanted)
<1>1. Made(h) /\ reader = NoReader /\ UNCHANGED <<sources, cached, handle>>
  BY DEF Read
<1>2. idx \in DOMAIN sources /\ pos \in Nat /\ End(idx) \in Nat /\ pos <= End(idx)
  BY <1>1, EndNat DEF CacheInv, HandlesInv, GoodHandle
<1>3. \A k \in DOMAIN sources : End(k)' = End(k)
  BY <1>1 DEF End
<1>4. SourcesInv' /\ HandlesInv'
  BY <1>1, <1>3 DEF CacheInv, SourcesInv, HandlesInv, GoodHandle, Made
<1>5. ReadInv' /\ ChunksInv'
  <2>1. CASE rend - pos <= 0
    <3>1. UNCHANGED <<readVars, fetching>>
      BY <2>1 DEF Read
    <3> QED
      BY <1>1, <1>3, <3>1
      DEF CacheInv, ReadInv, ChunksInv, GoodKey, ChunkOf, SourceRead, readVars
  <2>2. CASE ~(rend - pos <= 0)
    <3>1. /\ reader' = h
          /\ len' = rend - pos
          /\ chunks' = [c \in {k[2] : k \in keys \cap DOMAIN cached} |-> cached[<<idx, c>>]]
          /\ fetching' = fetching \cup (keys \ DOMAIN cached)
      BY <2>2 DEF Read
    <3>2. rend \in Nat /\ rend <= End(idx) /\ rend - pos \in Nat
      BY <1>2, <2>2 DEF Least
    <3>2a. rend - pos # 0
      BY <1>2, <2>2 DEF Least
    <3>3. Off' = pos /\ Idx' = idx
      BY <1>1, <3>1 DEF Off, Idx
    <3>4. ReadInv'
      BY <1>1, <1>2, <1>3, <3>1, <3>2, <3>2a, <3>3 DEF ReadInv, Made
    <3>5. \A c \in wanted : c \in Nat /\ c < End(idx)
      <4>1. \A c \in wanted : c \in Nat /\ c < pos + (rend - pos)
        BY <1>2, <3>2, ChunksInRange
      <4> QED
        BY <1>2, <3>2, <4>1
    <3>6. \A key \in keys : GoodKey(key) /\ key = <<idx, key[2]>>
      BY <1>2, <3>5 DEF Keys, GoodKey
    <3> HIDE DEF keys, wanted
    <3>7. \A key \in fetching' : GoodKey(key)'
      BY <1>1, <1>3, <3>1, <3>6 DEF CacheInv, ChunksInv, GoodKey
    <3>8. \A key \in DOMAIN cached' :
            GoodKey(key)' /\ cached'[key] = ChunkOf(key[1], key[2])'
      BY <1>1, <1>3 DEF CacheInv, ChunksInv, GoodKey, ChunkOf, SourceRead
    <3>9. \A c \in DOMAIN chunks' : chunks'[c] = ChunkOf(Idx, c)'
      <4> SUFFICES ASSUME NEW c \in DOMAIN chunks'
                   PROVE  chunks'[c] = ChunkOf(Idx, c)'
        OBVIOUS
      <4>1. PICK k \in keys \cap DOMAIN cached : c = k[2]
        BY <3>1
      <4>2. chunks'[c] = cached[k] /\ k[1] = idx
        BY <3>1, <3>6, <4>1
      <4>3. cached[k] = ChunkOf(idx, c)
        BY <4>1, <4>2 DEF CacheInv, ChunksInv
      <4>4. ChunkOf(idx, c) = ChunkOf(Idx, c)'
        BY <1>1, <1>2, <1>3, <3>3 DEF ChunkOf, SourceRead
      <4> QED
        BY <4>2, <4>3, <4>4
    <3>10. reader' # NoReader
      BY <3>1, HandlesAssumption DEF NoReader
    <3> QED
      BY <3>4, <3>7, <3>8, <3>9, <3>10 DEF ChunksInv
  <2> QED
    BY <2>1, <2>2
<1> QED
  BY <1>4, <1>5 DEF CacheInv

\* What does not touch sources, handles and the read under way, and adds at most
\* good entries to the cache, preserves the invariant.
LEMMA CacheOnly ==
  ASSUME CacheInv, UNCHANGED <<sources, handle, reader, len>>,
         fetching' \subseteq fetching,
         \A key \in DOMAIN cached' :
           GoodKey(key) /\ cached'[key] = ChunkOf(key[1], key[2]),
         reader = NoReader => DOMAIN chunks' = {},
         \A c \in DOMAIN chunks' : chunks'[c] = ChunkOf(Idx, c)
  PROVE  CacheInv'
<1>1. \A k : End(k)' = End(k)
  BY DEF End
<1>2. Idx' = Idx /\ Off' = Off
  BY DEF Idx, Off
<1>3. \A k, c : ChunkOf(k, c)' = ChunkOf(k, c)
  BY <1>1 DEF ChunkOf, SourceRead
<1>4. SourcesInv' /\ HandlesInv' /\ ReadInv'
  BY <1>1, <1>2 DEF CacheInv, SourcesInv, HandlesInv, ReadInv, GoodHandle, Made
<1>5. \A key : GoodKey(key)' <=> GoodKey(key)
  BY <1>1 DEF GoodKey
<1>6. \A c : ChunkOf(Idx, c)' = ChunkOf(Idx, c)
  BY <1>1, <1>2 DEF ChunkOf, SourceRead
<1>7. ChunksInv'
  BY <1>2, <1>3, <1>5, <1>6 DEF CacheInv, ChunksInv
<1> QED
  BY <1>4, <1>7 DEF CacheInv

\* The chunk that a fetch brings is that of its key, for the cache and for the
\* read that awaits it.
LEMMA FetchedStep ==
  ASSUME CacheInv, NEW key \in fetching, Fetched(key)
  PROVE  CacheInv'
<1> DEFINE chunk == SourceRead(key[1], key[2], Least(key[2] + ChLen, End(key[1])))
<1>1. UNCHANGED <<sources, handle, reader, len>> /\ fetching' \subseteq fetching
  BY DEF Fetched
<1>2. chunk = ChunkOf(key[1], key[2])
  BY DEF ChunkOf
<1>3. cached' = [k \in DOMAIN cached \cup {key} |-> IF k = key THEN chunk ELSE cached[k]]
  BY DEF Fetched
<1>4. chunks' = IF Awaited(key)
                  THEN [c \in DOMAIN chunks \cup {key[2]} |->
                          IF c = key[2] THEN chunk ELSE chunks[c]]
                  ELSE chunks
  BY DEF Fetched
<1>5. Awaited(key) => reader # NoReader /\ key[1] = Idx
  BY DEF Awaited
<1>6. GoodKey(key)
  BY DEF CacheInv, ChunksInv
<1> HIDE DEF chunk
<1>7. \A k \in DOMAIN cached' : GoodKey(k) /\ cached'[k] = ChunkOf(k[1], k[2])
  BY <1>2, <1>3, <1>6 DEF CacheInv, ChunksInv
<1>8. reader = NoReader => DOMAIN chunks' = {}
  BY <1>4, <1>5 DEF CacheInv, ChunksInv
<1>9. \A c \in DOMAIN chunks' : chunks'[c] = ChunkOf(Idx, c)
  BY <1>2, <1>4, <1>5 DEF CacheInv, ChunksInv
<1> QED
  BY <1>1, <1>7, <1>8, <1>9, CacheOnly

\* A read that is over leaves no chunks behind.
LEMMA ReturnedStep ==
  ASSUME CacheInv, NEW result, Returned(result), UNCHANGED <<sources, cached, handle>>,
         fetching' \subseteq fetching
  PROVE  CacheInv'
<1>1. reader' = NoReader /\ DOMAIN chunks' = {}
  BY DEF Returned, NoChunks
<1>2. \A k : End(k)' = End(k)
  BY DEF End
<1>3. \A k, c : ChunkOf(k, c)' = ChunkOf(k, c)
  BY <1>2 DEF ChunkOf, SourceRead
<1>4. SourcesInv' /\ HandlesInv'
  BY <1>2 DEF CacheInv, SourcesInv, HandlesInv, GoodHandle, Made
<1>5. \A key : GoodKey(key)' <=> GoodKey(key)
  BY <1>2 DEF GoodKey
<1>6. ReadInv' /\ ChunksInv'
  BY <1>1, <1>3, <1>5 DEF CacheInv, ReadInv, ChunksInv
<1> QED
  BY <1>4, <1>6 DEF CacheInv

LEMMA FetchFailsStep ==
  ASSUME CacheInv, NEW key \in fetching, FetchFails(key)
  PROVE  CacheInv'
<1>1. fetching' \subseteq fetching /\ UNCHANGED <<sources, cached, handle>>
  BY DEF FetchFails
<1>2. CASE Awaited(key)
  BY <1>1, <1>2, ReturnedStep DEF FetchFails
<1>3. CASE ~Awaited(key)
  <2>1. UNCHANGED readVars
    BY <1>3 DEF FetchFails
  <2> QED
    BY <1>1, <2>1, CacheOnly DEF readVars, CacheInv, ChunksInv
<1> QED
  BY <1>2, <1>3

\* A read that has all its chunks moves its handle, at most to the end of the
\* source.
LEMMA CompleteStep ==
  ASSUME CacheInv, Complete
  PROVE  CacheInv'
<1> DEFINE to == Off + len
<1>1. /\ reader \in Handles /\ Made(reader) /\ len \in Nat /\ to <= End(Idx)
      /\ handle' = [handle EXCEPT ![reader].pos = to]
      /\ UNCHANGED <<sources, cached, fetching>>
  BY DEF Complete, CacheInv, ReadInv, cacheVars, Off
<1>2. reader' = NoReader /\ DOMAIN chunks' = {}
  BY DEF Complete, Returned, NoChunks
<1>3. \A k : End(k)' = End(k)
  BY <1>1 DEF End
<1>4. \A k, c : ChunkOf(k, c)' = ChunkOf(k, c)
  BY <1>1, <1>3 DEF ChunkOf, SourceRead
<1>5. SourcesInv'
  BY <1>1 DEF CacheInv, SourcesInv
<1>6. HandlesInv'
  <2>1. Idx \in DOMAIN sources /\ Idx = handle[reader].idx /\ End(Idx) \in Nat /\ Off \in Nat
    BY <1>1, EndNat DEF CacheInv, HandlesInv, GoodHandle, Idx, Off
  <2>2. to \in 0 .. End(Idx) /\ to \in Int
    BY <1>1, <2>1
  <2> HIDE DEF to
  <2>3. handle' \in [Handles -> [idx : Int, pos : Int]]
    BY <1>1, <2>2 DEF CacheInv, HandlesInv
  <2>4. handle'[reader].idx = Idx /\ handle'[reader].pos = to
    BY <1>1, <2>1 DEF CacheInv, HandlesInv
  <2>5. \A g \in Handles : g # reader => handle'[g] = handle[g]
    BY <1>1 DEF CacheInv, HandlesInv
  <2>6. \A g \in Handles : Made(g)' => GoodHandle(g)'
    <3> SUFFICES ASSUME NEW g \in Handles, Made(g)' PROVE GoodHandle(g)'
      OBVIOUS
    <3>1. CASE g = reader
      BY <1>1, <1>3, <2>1, <2>2, <2>4, <3>1 DEF GoodHandle
    <3>2. CASE g # reader
      BY <1>1, <1>3, <2>5, <3>2 DEF CacheInv, HandlesInv, GoodHandle, Made
    <3> QED
      BY <3>1, <3>2
  <2> QED
    BY <2>3, <2>6 DEF HandlesInv
<1>7. \A key : GoodKey(key)' <=> GoodKey(key)
  BY <1>1, <1>3 DEF GoodKey
<1>8. ReadInv' /\ ChunksInv'
  BY <1>1, <1>2, <1>4, <1>7 DEF CacheInv, ReadInv, ChunksInv
<1> QED
  BY <1>5, <1>6, <1>8 DEF CacheInv

LEMMA EvictStep ==
  ASSUME CacheInv, NEW key \in DOMAIN cached, Evict(key)
  PROVE  CacheInv'
<1>1. UNCHANGED <<sources, handle, reader, len, chunks>> /\ fetching' = fetching
  BY DEF Evict, readVars
<1>2. \A k \in DOMAIN cached' : k \in DOMAIN cached /\ cached'[k] = cached[k]
  BY DEF Evict
<1> QED
  BY <1>1, <1>2, CacheOnly DEF CacheInv, ChunksInv

LEMMA DroppedStep ==
  ASSUME CacheInv, NEW key \in fetching, Dropped(key)
  PROVE  CacheInv'
<1>1. UNCHANGED <<sources, cached, handle, reader, len, chunks>> /\ fetching' \subseteq fetching
  BY DEF Dropped, readVars
<1> QED
  BY <1>1, CacheOnly DEF CacheInv, ChunksInv

-----------------------------------------------------------------------------
\* Every step preserves the invariant.
LEMMA NextCacheInv ==
  ASSUME CacheInv, [CachedNext]_vars
  PROVE  CacheInv'
<1>1. CASE Calls
  <2>1. ASSUME NEW f \in DOMAIN FileLen, AddSource(f)
        PROVE  CacheInv'
    BY <2>1, AddSourceStep
  <2>2. ASSUME NEW h \in Handles, New(h)
        PROVE  CacheInv'
    BY <2>2, NewStep
  <2>3. ASSUME NEW h \in Handles, NEW from, NEW n, Seek(h, from, n)
        PROVE  CacheInv'
    BY <2>3, SeekStep
  <2>4. ASSUME NEW h \in Handles, NEW n \in 0 .. MaxLen, Read(h, n)
        PROVE  CacheInv'
    BY <2>4, ReadStep, BoundsAssumption
  <2> QED
    BY <1>1, <2>1, <2>2, <2>3, <2>4 DEF Calls
<1>2. CASE Fetches
  BY <1>2, FetchedStep, FetchFailsStep DEF Fetches
<1>3. CASE Complete
  BY <1>3, CompleteStep
<1>4. CASE \E key \in DOMAIN cached : Evict(key)
  BY <1>4, EvictStep
<1>5. CASE \E key \in fetching : Dropped(key)
  BY <1>5, DroppedStep
<1>6. CASE UNCHANGED vars
  BY <1>6, CacheOnly DEF vars, cacheVars, readVars, CacheInv, ChunksInv
<1> QED
  BY <1>1, <1>2, <1>3, <1>4, <1>5, <1>6 DEF CachedNext

\* The invariant holds in every reachable state.
LEMMA AlwaysCacheInv == CachedSpec => []CacheInv
<1>1. CacheInv /\ [CachedNext]_vars => CacheInv'
  BY NextCacheInv
<1> QED
  BY <1>1, InitCacheInv, PTL DEF CachedSpec

-----------------------------------------------------------------------------
\* Whatever is fetched, evicted, fetched again or fails, for any files, chunk
\* length and number of readers: every entry of the shared cache, and every chunk
\* that a read holds, is the chunk of the source and the offset it is kept for.
THEOREM CacheHoldsTheSources == CachedSpec => []ChunksAreTheSources
<1>1. CacheInv => ChunksAreTheSources
  BY DEF CacheInv, ChunksInv, GoodKey, ChunksAreTheSources
<1> QED
  BY <1>1, AlwaysCacheInv, PTL

\* No handle leaves its source, whichever way it is sought and read, nor does a
\* read overtake the end: the unsigned subtraction in CacheReadSeek::read does
\* not wrap around.
THEOREM HandlesWithinSources == CachedSpec => []NoneBeyondEnd
<1>1. CacheInv => NoneBeyondEnd
  <2> SUFFICES ASSUME CacheInv, NEW h \in Handles, Made(h)
               PROVE  handle[h].pos <= End(handle[h].idx)
    BY DEF NoneBeyondEnd
  <2>1. handle[h].idx \in DOMAIN sources /\ handle[h].pos \in 0 .. End(handle[h].idx)
    BY DEF CacheInv, HandlesInv, GoodHandle
  <2>2. End(handle[h].idx) \in Nat
    BY <2>1, EndNat DEF CacheInv
  <2> QED
    BY <2>1, <2>2
<1> QED
  BY <1>1, AlwaysCacheInv, PTL

\* Whatever a read asks for and wherever the file ends, the range of a fetch is
\* neither empty nor beyond the end of its source.
THEOREM FetchesWithinSources == CachedSpec => []RangesAreWithin
<1>1. CacheInv => RangesAreWithin
  <2> SUFFICES ASSUME CacheInv, NEW key \in fetching
               PROVE  LET range == S3Range(key[2], Least(key[2] + ChLen, End(key[1])))
                      IN  /\ 0 <= range.first /\ range.first <= range.last
                          /\ range.last < End(key[1])
    BY DEF RangesAreWithin
  <2>1. key[1] \in DOMAIN sources /\ key[2] \in Nat /\ key[2] < End(key[1])
    BY DEF CacheInv, ChunksInv, GoodKey
  <2>2. End(key[1]) \in Nat
    BY <2>1, EndNat DEF CacheInv
  <2> QED
    BY <2>1, <2>2, ChunkAssumption DEF S3Range, Least
<1> QED
  BY <1>1, AlwaysCacheInv, PTL

-----------------------------------------------------------------------------
(***************************************************************************)
(* NothingForgotten is inductive by itself: a key leaves fetching together *)
(* with the reason to wait for it.                                         *)
(***************************************************************************)

\* The chunks that a read lacks when it starts are those that are not cached, and
\* it has their fetches started or joins them.
LEMMA ReadForgetsNothing ==
  ASSUME NEW h \in Handles, NEW n, Read(h, n), NothingForgotten
  PROVE  NothingForgotten'
<1> DEFINE pos == handle[h].pos
           rend == Least(End(handle[h].idx), pos + n)
           keys == Keys(handle[h].idx, ChunksFor(pos, rend - pos))
<1>1. CASE rend - pos <= 0
  BY <1>1 DEF Read, NothingForgotten, readVars
<1>2. CASE ~(rend - pos <= 0)
  <2>1. /\ reader' = h /\ len' = rend - pos /\ handle' = handle
        /\ chunks' = [c \in {k[2] : k \in keys \cap DOMAIN cached} |->
                        cached[<<handle[h].idx, c>>]]
        /\ fetching' = fetching \cup (keys \ DOMAIN cached)
    BY <1>2 DEF Read
  <2>2. Idx' = handle[h].idx /\ Wanted' = ChunksFor(pos, rend - pos)
    BY <2>1 DEF Idx, Wanted, Off, ChunksFor
  <2>3. ASSUME NEW c \in Wanted' \ DOMAIN chunks'
        PROVE  <<handle[h].idx, c>> \in fetching'
    <3>1. <<handle[h].idx, c>> \in keys
      BY <2>2 DEF Keys
    <3>2. <<handle[h].idx, c>> \notin DOMAIN cached
      BY <3>1, <2>1
    <3> QED
      BY <3>1, <3>2, <2>1
  <2> QED
    BY <2>2, <2>3 DEF NothingForgotten, Keys
<1> QED
  BY <1>1, <1>2

\* The end of a fetch, either way, tells the read that waits for it.
LEMMA FetchForgetsNothing ==
  ASSUME NEW key \in fetching, NothingForgotten,
         Fetched(key) \/ FetchFails(key) \/ Dropped(key)
  PROVE  NothingForgotten'
<1>1. CASE FetchFails(key) /\ Awaited(key)
  BY <1>1 DEF FetchFails, Returned, NothingForgotten
<1>2. SUFFICES ASSUME ~(FetchFails(key) /\ Awaited(key)), reader' # NoReader
               PROVE  NothingForgotten'
  BY <1>1 DEF NothingForgotten
<1>3. /\ reader' = reader /\ len' = len /\ handle' = handle
      /\ fetching' = fetching \ {key}
  BY <1>2 DEF Fetched, FetchFails, Dropped, readVars
<1>4. Idx' = Idx /\ Wanted' = Wanted
  BY <1>3 DEF Idx, Wanted, Off, ChunksFor
<1>5. /\ DOMAIN chunks \subseteq DOMAIN chunks'
      /\ Awaited(key) => key[2] \in DOMAIN chunks'
  BY <1>2 DEF Fetched, FetchFails, Dropped, readVars
<1>6. ASSUME NEW c \in Wanted' \ DOMAIN chunks'
      PROVE  <<Idx', c>> \in fetching'
  <2>1. c \in Wanted \ DOMAIN chunks
    BY <1>4, <1>5
  <2>2. <<Idx, c>> \in fetching
    BY <2>1, <1>2, <1>3 DEF NothingForgotten, Keys
  <2>3. ASSUME <<Idx, c>> = key PROVE FALSE
    <3>1. key[1] = Idx /\ key[2] = c
      BY <2>3
    <3>2. Awaited(key)
      BY <3>1, <2>1, <1>2, <1>3 DEF Awaited
    <3> QED
      BY <3>1, <3>2, <1>5
  <2> QED
    BY <2>2, <2>3, <1>3, <1>4
<1> QED
  BY <1>6 DEF NothingForgotten, Keys

\* The other steps leave the read alone, or there is none.
LEMMA OthersForgetNothing ==
  ASSUME NothingForgotten,
         \/ reader' = NoReader
         \/ UNCHANGED <<reader, len, chunks, handle, fetching>>
  PROVE  NothingForgotten'
BY DEF NothingForgotten, Idx, Wanted, Off, ChunksFor, Keys

\* A read is never left waiting for a chunk that nothing fetches, for any number of
\* readers and of fetches that finish, fail or are dropped in any order.
THEOREM ReadsForgetNothing == CachedSpec => []NothingForgotten
<1>1. CachedInit => NothingForgotten
  BY DEF CachedInit, NothingForgotten
<1>2. NothingForgotten /\ [CachedNext]_vars => NothingForgotten'
  <2> SUFFICES ASSUME NothingForgotten, [CachedNext]_vars PROVE NothingForgotten'
    OBVIOUS
  <2>1. ASSUME NEW f \in DOMAIN FileLen, AddSource(f) PROVE NothingForgotten'
    BY <2>1, OthersForgetNothing DEF AddSource, readVars
  <2>2. ASSUME NEW h \in Handles, New(h) PROVE NothingForgotten'
    BY <2>2, OthersForgetNothing DEF New, readVars
  <2>3. ASSUME NEW h \in Handles, NEW from, NEW n, Seek(h, from, n)
        PROVE  NothingForgotten'
    BY <2>3, OthersForgetNothing DEF Seek, readVars
  <2>4. ASSUME NEW h \in Handles, NEW n \in 0 .. MaxLen, Read(h, n)
        PROVE  NothingForgotten'
    BY <2>4, ReadForgetsNothing
  <2>5. CASE Calls
    BY <2>1, <2>2, <2>3, <2>4, <2>5 DEF Calls
  <2>6. CASE Fetches
    BY <2>6, FetchForgetsNothing DEF Fetches
  <2>7. CASE Complete
    BY <2>7, OthersForgetNothing DEF Complete, Returned
  <2>8. CASE \E key \in DOMAIN cached : Evict(key)
    BY <2>8, OthersForgetNothing DEF Evict, readVars
  <2>9. CASE \E key \in fetching : Dropped(key)
    BY <2>9, FetchForgetsNothing
  <2>10. CASE UNCHANGED vars
    BY <2>10, OthersForgetNothing DEF vars, cacheVars, readVars
  <2> QED
    BY <2>5, <2>6, <2>7, <2>8, <2>9, <2>10 DEF CachedNext
<1> QED
  BY <1>1, <1>2, PTL DEF CachedSpec

-----------------------------------------------------------------------------
(***************************************************************************)
(* What a read copies out of its chunks.                                   *)
(***************************************************************************)

\* The chunks of a read: the first is the one that its position is in, each of the
\* others has the one before it, and the last reaches to the end of the read.
LEMMA WantedChunks ==
  ASSUME CacheInv, reader # NoReader
  PROVE  /\ Off \in Nat /\ len \in Nat \ {0} /\ ChLen \in Nat \ {0}
         /\ End(Idx) \in Nat /\ Off + len <= End(Idx)
         /\ ChunkStart(Off) \in Wanted
         /\ ChunkStart(Off) <= Off /\ Off < ChunkStart(Off) + ChLen
         /\ \A c \in Wanted : c \in Nat /\ c < Off + len
         /\ \A c \in Wanted : c # ChunkStart(Off) => c - ChLen \in Wanted /\ Off < c
         /\ Max(Wanted) \in Wanted /\ Off + len <= Max(Wanted) + ChLen
<1> DEFINE first == ChunkStart(Off)
<1>1. /\ reader \in Handles /\ Made(reader)
      /\ len \in Nat \ {0} /\ Off + len <= End(Idx)
  BY DEF CacheInv, ReadInv
<1>2. Off \in Nat /\ End(Idx) \in Nat
  BY <1>1, EndNat DEF CacheInv, HandlesInv, GoodHandle, Off, Idx
<1>3. ChLen \in Nat \ {0}
  BY ChunkAssumption
<1>4. first \in Nat /\ first <= Off /\ Off < first + ChLen
  BY <1>2, <1>3 DEF ChunkStart
<1> HIDE DEF first
<1>5. Wanted = {c \in first .. Off + len - 1 : (c - first) % ChLen = 0}
  BY DEF Wanted, ChunksFor, first
<1>6. first \in Wanted
  BY <1>1, <1>2, <1>3, <1>4, <1>5
<1>7. \A c \in Wanted : c \in Nat /\ first <= c /\ c < Off + len /\ (c - first) % ChLen = 0
  BY <1>1, <1>2, <1>4, <1>5
<1>8. ASSUME NEW c \in Wanted, c # first
      PROVE  c - ChLen \in Wanted /\ Off < c
  <2> DEFINE d == c - first
  <2>1. d \in Nat /\ d # 0 /\ d % ChLen = 0
    BY <1>4, <1>7, <1>8
  <2>2. d >= ChLen /\ (d - ChLen) % ChLen = 0
    <3> HIDE DEF d
    <3> QED
      BY <1>3, <2>1, NextMultiples
  <2>3. (c - ChLen) - first = (c - first) - ChLen
    BY <1>3, <1>4, <1>7
  <2>4. c - ChLen \in first .. Off + len - 1 /\ Off < c
    BY <1>1, <1>2, <1>3, <1>4, <1>7, <2>2
  <2> QED
    BY <1>5, <2>2, <2>3, <2>4
<1>9. PICK last \in Wanted : \A c \in Wanted : c <= last
  <2> DEFINE T == {Off + len - c : c \in Wanted}
  <2>1. T \subseteq Nat
    BY <1>1, <1>2, <1>7
  <2>2. T # {}
    BY <1>6
  <2>3. PICK x \in T : \A y \in T : x <= y
    <3> HIDE DEF T
    <3> QED
      BY <2>1, <2>2, LeastElement
  <2>4. PICK c \in Wanted : x = Off + len - c
    BY <2>3
  <2>5. \A d \in Wanted : Off + len - c <= Off + len - d
    BY <2>3, <2>4
  <2> QED
    BY <1>1, <1>2, <1>7, <2>5
<1>10. Max(Wanted) \in Wanted /\ \A c \in Wanted : Max(Wanted) >= c
  <2>1. \A c \in Wanted : last >= c
    BY <1>7, <1>9
  <2> QED
    BY <2>1 DEF Max
<1>11. Off + len <= Max(Wanted) + ChLen
  <2> DEFINE m == Max(Wanted)
  <2>1. m \in Wanted /\ m \in Nat /\ first <= m /\ \A c \in Wanted : m >= c
    BY <1>7, <1>10
  <2> HIDE DEF m
  <2> SUFFICES ASSUME m + ChLen < Off + len PROVE FALSE
    BY <1>1, <1>2, <1>3, <2>1 DEF m
  <2>2. ((m - first) + ChLen) % ChLen = 0
    <3>1. m - first \in Nat /\ (m - first) % ChLen = 0
      BY <1>4, <1>7, <2>1
    <3> QED
      BY <1>3, <3>1, NextMultiples
  <2>3. (m + ChLen) - first = (m - first) + ChLen
    BY <1>3, <1>4, <2>1
  <2>4. m + ChLen \in first .. Off + len - 1
    BY <1>1, <1>2, <1>3, <1>4, <2>1
  <2>5. m + ChLen \in Wanted
    BY <1>5, <2>2, <2>3, <2>4
  <2> QED
    BY <1>3, <2>1, <2>5
<1> QED
  BY <1>1, <1>2, <1>3, <1>4, <1>6, <1>7, <1>8, <1>10, <1>11 DEF first

\* What SubSeq takes out of a function.
LEMMA PartOf ==
  ASSUME NEW S, NEW chunk, NEW lo \in Int, NEW hi \in Int,
         \A k \in lo .. hi : chunk[k] \in S
  PROVE  /\ SubSeq(chunk, lo, hi) \in Seq(S)
         /\ Len(SubSeq(chunk, lo, hi)) = IF lo <= hi THEN hi - lo + 1 ELSE 0
         /\ \A k \in 1 .. hi - lo + 1 : SubSeq(chunk, lo, hi)[k] = chunk[lo + k - 1]
<1>1. SubSeq(chunk, lo, hi) \in Seq(S)
  OBVIOUS
<1>2. Len(SubSeq(chunk, lo, hi)) = IF lo <= hi THEN hi - lo + 1 ELSE 0
  OBVIOUS
<1>3. \A k \in 1 .. hi - lo + 1 : SubSeq(chunk, lo, hi)[k] = chunk[lo + k - 1]
  OBVIOUS
<1> QED
  BY <1>1, <1>2, <1>3

\* n bytes from position p of the file f.
BytesAt(f, p, n) == [k \in 1 .. n |-> <<f, p + k - 1>>]

\* One turn of the copy loop: with a bytes in the buffer, those of the chunk at c, of
\* n bytes, up to the b-th.
CopyIs(f, p, a, b, c, n) ==
  BytesAt(f, p, a) \o SubSeq(BytesAt(f, c, n), (p + a - c) + 1, p + b - c) = BytesAt(f, p, b)

\* It continues the bytes from p of the file f if the chunk holds those that are missing.
LEMMA CopyOne ==
  ASSUME NEW f, NEW p \in Nat, NEW a \in Nat, NEW b \in Nat, a <= b,
         NEW c \in Nat, c <= p + a, NEW n \in Nat, p + b <= c + n
  PROVE  CopyIs(f, p, a, b, c, n)
<1> DEFINE lo == (p + a - c) + 1
           hi == p + b - c
           S == {f} \X Nat
           buf == BytesAt(f, p, a)
           chunk == BytesAt(f, c, n)
           part == SubSeq(chunk, lo, hi)
           all == BytesAt(f, p, b)
<1>1. /\ buf \in Seq(S) /\ Len(buf) = a
      /\ \A k \in 1 .. a : buf[k] = <<f, p + k - 1>>
  BY DEF BytesAt
<1>2. all \in Seq(S) /\ Len(all) = b /\ \A k \in 1 .. b : all[k] = <<f, p + k - 1>>
  BY DEF BytesAt
<1>3. /\ lo \in Int /\ lo \in Nat /\ hi \in Int /\ hi - lo + 1 = b - a
      /\ lo <= hi <=> a < b
      /\ c + lo = p + a + 1
  OBVIOUS
<1>4. \A k \in lo .. hi : k \in 1 .. n /\ chunk[k] = <<f, c + k - 1>>
  BY DEF BytesAt
<1>5. \A k \in lo .. hi : chunk[k] \in S
  <2> SUFFICES ASSUME NEW k \in lo .. hi PROVE chunk[k] \in S
    OBVIOUS
  <2>1. c + k - 1 \in Nat
    OBVIOUS
  <2> QED
    BY <1>4, <2>1
<1>6. /\ part \in Seq(S)
      /\ Len(part) = IF lo <= hi THEN hi - lo + 1 ELSE 0
      /\ \A k \in 1 .. hi - lo + 1 : part[k] = chunk[lo + k - 1]
  <2> HIDE DEF S, chunk
  <2> HIDE DEF lo, hi
  <2>1. part \in Seq(S)
    BY <1>3, <1>5, PartOf
  <2>2. Len(part) = IF lo <= hi THEN hi - lo + 1 ELSE 0
    BY <1>3, <1>5, PartOf
  <2>3. \A k \in 1 .. hi - lo + 1 : part[k] = chunk[lo + k - 1]
    BY <1>3, <1>5, PartOf
  <2> QED
    BY <2>1, <2>2, <2>3
<1> HIDE DEF S, part, all, buf, chunk, lo, hi
<1>7. Len(part) = b - a
  <2>1. CASE a < b
    BY <1>3, <1>6, <2>1
  <2>2. CASE ~(a < b)
    BY <1>3, <1>6, <2>2
  <2> QED
    BY <2>1, <2>2
<1>8. \A k \in 1 .. b - a : part[k] = <<f, p + a + k - 1>>
  <2> SUFFICES ASSUME NEW k \in 1 .. b - a
               PROVE  part[k] = <<f, p + a + k - 1>>
    OBVIOUS
  <2> DEFINE j == lo + k - 1
  <2>1. part[k] = chunk[j]
    BY <1>3, <1>6
  <2>2. j \in lo .. hi /\ c + j - 1 = p + a + k - 1
    BY <1>3
  <2>3. chunk[j] = <<f, c + j - 1>>
    <3> HIDE DEF j
    <3> QED
      BY <1>4, <2>2
  <2> QED
    BY <2>1, <2>2, <2>3
<1>9. /\ buf \o part \in Seq(S)
      /\ Len(buf \o part) = b
      /\ \A k \in 1 .. b : (buf \o part)[k] = IF k <= a THEN buf[k] ELSE part[k - a]
  <2>1. /\ buf \o part \in Seq(S)
        /\ Len(buf \o part) = Len(buf) + Len(part)
        /\ \A k \in 1 .. Len(buf) + Len(part) :
             (buf \o part)[k] = IF k <= Len(buf) THEN buf[k] ELSE part[k - Len(buf)]
    <3>1. buf \in Seq(S) /\ part \in Seq(S)
      BY <1>1, <1>6
    <3>2. buf \o part \in Seq(S)
      BY <3>1, ConcatProperties
    <3>3. Len(buf \o part) = Len(buf) + Len(part)
      BY <3>1, ConcatProperties
    <3>4. \A k \in 1 .. Len(buf) + Len(part) :
             (buf \o part)[k] = IF k <= Len(buf) THEN buf[k] ELSE part[k - Len(buf)]
      BY <3>1, ConcatProperties
    <3> QED
      BY <3>2, <3>3, <3>4
  <2>2. Len(buf) + Len(part) = b
    BY <1>1, <1>7
  <2> QED
    BY <1>1, <2>1, <2>2
<1>10. \A k \in 1 .. b : (buf \o part)[k] = all[k]
  <2> SUFFICES ASSUME NEW k \in 1 .. b PROVE (buf \o part)[k] = all[k]
    OBVIOUS
  <2>1. CASE k <= a
    <3>1. k \in 1 .. a
      BY <2>1
    <3>2. (buf \o part)[k] = buf[k]
      BY <1>9, <2>1
    <3> QED
      BY <1>1, <1>2, <3>1, <3>2
  <2>2. CASE ~(k <= a)
    <3> DEFINE j == k - a
    <3>1. j \in 1 .. b - a /\ p + a + j - 1 = p + k - 1
      BY <2>2
    <3>2. part[j] = <<f, p + a + j - 1>>
      <4> HIDE DEF j
      <4> QED
        BY <1>8, <3>1
    <3>3. (buf \o part)[k] = part[j]
      BY <1>9, <2>2
    <3> QED
      BY <1>2, <3>1, <3>2, <3>3
  <2> QED
    BY <2>1, <2>2
<1> QED
  <2>1. Len(buf \o part) = Len(all)
    BY <1>2, <1>9
  <2>2. buf \o part = all
    BY <1>1, <1>2, <1>6, <1>9, <1>10, <2>1, SeqEqual
  <2> QED
    BY <2>2 DEF part, all, buf, chunk, lo, hi, CopyIs

\* The recursion of the copy loop, on a function that may be Filled or not.
Turn(g, c) ==
  LET buf == IF c = ChunkStart(Off) THEN <<>> ELSE g[c - ChLen]
      chbeg == Off + Len(buf) - c
      chend == Least(chbeg + (len - Len(buf)), Len(chunks[c]))
  IN  buf \o SubSeq(chunks[c], chbeg + 1, chend)

\* What the buffer holds after the chunk at c.
Bytes(n) == BytesAt(sources[Idx], Off, n)
Room(c) == Least(len, c + ChLen - Off)

\* With all its chunks there, a turn adds the part of the read that is in the chunk.
LEMMA TurnAdds ==
  ASSUME CacheInv, reader # NoReader, DOMAIN chunks = Wanted, NEW g,
         NEW c \in Wanted, c # ChunkStart(Off) => g[c - ChLen] = Bytes(Room(c - ChLen))
  PROVE  Turn(g, c) = Bytes(Room(c))
<1> DEFINE a == IF c = ChunkStart(Off) THEN 0 ELSE c - Off
           b == Room(c)
           n == Least(c + ChLen, End(Idx)) - c
           buf == IF c = ChunkStart(Off) THEN <<>> ELSE g[c - ChLen]
<1>1. /\ Off \in Nat /\ len \in Nat \ {0} /\ ChLen \in Nat \ {0}
      /\ End(Idx) \in Nat /\ Off + len <= End(Idx)
      /\ c \in Nat /\ c < Off + len
      /\ ChunkStart(Off) <= Off /\ Off < ChunkStart(Off) + ChLen
      /\ c # ChunkStart(Off) => Off < c
  BY WantedChunks
<1>2. a \in Nat /\ c <= Off + a /\ a < len
  BY <1>1
<1>3. b \in Nat /\ a <= b /\ b <= len /\ n \in Nat /\ Off + b <= c + n
  BY <1>1 DEF Room, Least
<1>4. (Off + a - c) + (len - a) \in Int /\ Off + b - c = Least((Off + a - c) + (len - a), n)
  BY <1>1, <1>2, <1>3 DEF Room, Least
<1>5. buf = Bytes(a) /\ Len(buf) = a
  <2>1. CASE c = ChunkStart(Off)
    <3>1. Bytes(0) = <<>>
      BY DEF Bytes, BytesAt
    <3> QED
      BY <2>1, <3>1
  <2>2. CASE c # ChunkStart(Off)
    <3>1. Room(c - ChLen) = c - Off
      BY <1>1, <2>2 DEF Room, Least
    <3>2. buf = Bytes(c - Off)
      BY <2>2, <3>1
    <3>3. Len(Bytes(c - Off)) = c - Off
      BY <1>2, <2>2 DEF Bytes, BytesAt
    <3> QED
      BY <2>2, <3>2, <3>3
  <2> QED
    BY <2>1, <2>2
<1>6. chunks[c] = BytesAt(sources[Idx], c, n) /\ Len(chunks[c]) = n
  <2>1. chunks[c] = BytesAt(sources[Idx], c, n)
    BY DEF CacheInv, ChunksInv, ChunkOf, SourceRead, BytesAt
  <2> HIDE DEF n
  <2>2. Len(chunks[c]) = n
    BY <1>3, <2>1 DEF BytesAt
  <2> QED
    BY <2>1, <2>2
<1>7. Turn(g, c) = buf \o SubSeq(chunks[c], (Off + a - c) + 1, Off + b - c)
  <2>1. Turn(g, c) = buf \o SubSeq(chunks[c], (Off + Len(buf) - c) + 1,
                      Least((Off + Len(buf) - c) + (len - Len(buf)), Len(chunks[c])))
    BY DEF Turn
  <2> HIDE DEF a, b, n, buf
  <2> QED
    BY <1>4, <1>5, <1>6, <2>1
<1>8. buf \o SubSeq(chunks[c], (Off + a - c) + 1, Off + b - c) = Bytes(b)
  <2>1. buf = BytesAt(sources[Idx], Off, a)
    BY <1>5 DEF Bytes
  <2> HIDE DEF a, b, n, buf
  <2>2. /\ Off \in Nat /\ a \in Nat /\ b \in Nat /\ a <= b
        /\ c \in Nat /\ c <= Off + a /\ n \in Nat /\ Off + b <= c + n
        /\ chunks[c] = BytesAt(sources[Idx], c, n)
    BY <1>1, <1>2, <1>3, <1>6
  <2>3. CopyIs(sources[Idx], Off, a, b, c, n)
    BY <2>2, CopyOne
  <2> QED
    BY <2>1, <2>2, <2>3 DEF Bytes, CopyIs
<1> QED
  BY <1>7, <1>8

\* A read that has its chunks copies exactly the bytes at its position.
LEMMA CopiedIsTheBytes ==
  ASSUME CacheInv, reader # NoReader, DOMAIN chunks = Wanted
  PROVE  Copied = Bytes(len)
<1> DEFINE F == [c \in Wanted |-> Bytes(Room(c))]
           Rec(g) == g = [c \in Wanted |-> Turn(g, c)]
<1>1. /\ ChLen \in Nat \ {0}
      /\ \A c \in Wanted : c \in Nat
      /\ \A c \in Wanted : c # ChunkStart(Off) => c - ChLen \in Wanted
  BY WantedChunks
<1>2. Rec(F)
  <2>1. ASSUME NEW c \in Wanted PROVE Turn(F, c) = Bytes(Room(c))
    <3>1. c # ChunkStart(Off) => F[c - ChLen] = Bytes(Room(c - ChLen))
      BY <1>1
    <3> HIDE DEF F
    <3> QED
      BY <3>1, TurnAdds
  <2> QED
    BY <2>1
<1>3. Filled = CHOOSE g : Rec(g)
  BY DEF Filled, Turn
<1>4. Rec(Filled)
  <2> HIDE DEF Rec, F
  <2> QED
    BY <1>2, <1>3
<1>5. \A c \in Wanted : Filled[c] = Bytes(Room(c))
  <2> DEFINE Bad == {c \in Wanted : Filled[c] # Bytes(Room(c))}
  <2> SUFFICES ASSUME Bad # {} PROVE FALSE
    OBVIOUS
  <2>1. Bad \subseteq Nat
    BY <1>1
  <2>2. PICK c \in Bad : \A d \in Bad : c <= d
    <3> HIDE DEF Bad
    <3> QED
      BY <2>1, LeastElement
  <2>3. ASSUME c # ChunkStart(Off) PROVE Filled[c - ChLen] = Bytes(Room(c - ChLen))
    <3>1. c - ChLen \in Wanted /\ ~(c <= c - ChLen)
      BY <1>1, <2>3
    <3>2. c - ChLen \notin Bad
      BY <2>2, <3>1
    <3> QED
      BY <3>1, <3>2
  <2>4. Turn(Filled, c) = Bytes(Room(c))
    BY <2>3, TurnAdds
  <2> QED
    BY <1>4, <2>4
<1>6. Max(Wanted) \in Wanted /\ Room(Max(Wanted)) = len
  <2>1. /\ Max(Wanted) \in Wanted /\ Off + len <= Max(Wanted) + ChLen
        /\ Off \in Nat /\ len \in Nat
    BY WantedChunks
  <2>2. Max(Wanted) \in Nat
    BY <1>1, <2>1
  <2> HIDE DEF Rec, F
  <2> QED
    BY <1>1, <2>1, <2>2 DEF Room, Least
<1> QED
  BY <1>5, <1>6 DEF Copied

-----------------------------------------------------------------------------
(***************************************************************************)
(* The refinement: a CacheReadSeek is a cursor over its file.              *)
(***************************************************************************)

\* A handle that is made has a file, and so a cursor; a reader is a handle, and so
\* something has been asked.
LEMMA CursorsMade ==
  ASSUME CacheInv
  PROVE  /\ \A h \in Handles : Cursors!Made(h) <=> Made(h)
         /\ AskedOf = Cursors!NoRead <=> reader = NoReader
         /\ \A h \in Handles : Made(h) =>
              /\ handle[h].idx \in DOMAIN sources /\ handle[h].pos \in Nat
              /\ CursorOf(h).file \in DOMAIN FileLen /\ CursorOf(h).pos = handle[h].pos
              /\ FileLen[CursorOf(h).file] = End(handle[h].idx)
              /\ End(handle[h].idx) \in Nat /\ handle[h].pos <= End(handle[h].idx)
<1>1. ASSUME NEW h \in Handles, Made(h)
      PROVE  /\ handle[h].idx \in DOMAIN sources /\ handle[h].pos \in Nat
             /\ CursorOf(h).file \in DOMAIN FileLen /\ CursorOf(h).pos = handle[h].pos
             /\ FileLen[CursorOf(h).file] = End(handle[h].idx)
             /\ End(handle[h].idx) \in Nat /\ handle[h].pos <= End(handle[h].idx)
  <2>1. handle[h].idx \in DOMAIN sources /\ handle[h].pos \in 0 .. End(handle[h].idx)
    BY <1>1 DEF CacheInv, HandlesInv, GoodHandle
  <2>2. End(handle[h].idx) \in Nat
    BY <2>1, EndNat DEF CacheInv
  <2>3. sources[handle[h].idx] \in DOMAIN FileLen
    BY <2>1 DEF CacheInv, SourcesInv
  <2> QED
    BY <1>1, <2>1, <2>2, <2>3 DEF CursorOf, End
<1>2. ASSUME NEW h \in Handles
      PROVE  Cursors!Made(h) <=> Made(h)
  <2>1. CursorOf(h) = Cursors!NoCursor <=> ~Made(h)
    <3>1. CASE Made(h)
      <4>1. CursorOf(h).file # ""
        BY <1>1, <3>1, FilesAssumption
      <4>2. Cursors!NoCursor.file = ""
        BY DEF Cursors!NoCursor
      <4>3. CursorOf(h) # Cursors!NoCursor
        BY <4>1, <4>2
      <4> QED
        BY <3>1, <4>3
    <3>2. CASE ~Made(h)
      BY <3>2 DEF CursorOf, Cursors!NoCursor
    <3> QED
      BY <3>1, <3>2
  <2> QED
    BY <2>1 DEF Cursors!Made, CursorsOf
<1>3. AskedOf = Cursors!NoRead <=> reader = NoReader
  <2>1. CASE reader = NoReader
    BY <2>1 DEF AskedOf, Cursors!NoRead
  <2>2. CASE reader # NoReader
    <3>1. AskedOf.handle # ""
      BY <2>2 DEF AskedOf, NoReader
    <3>2. Cursors!NoRead.handle = ""
      BY DEF Cursors!NoRead
    <3>3. AskedOf # Cursors!NoRead
      BY <3>1, <3>2
    <3> QED
      BY <2>2, <3>3
  <2> QED
    BY <2>1, <2>2
<1> QED
  BY <1>1, <1>2, <1>3

\* Steps that leave handles, read and result alone, or add a source, do not show.
LEMMA UnseenSteps ==
  ASSUME CacheInv, UNCHANGED <<handle, reader, len, got>>,
         \A k \in DOMAIN sources : sources'[k] = sources[k]
  PROVE  UNCHANGED Cursors!vars
<1>1. ASSUME NEW h \in Handles PROVE CursorOf(h)' = CursorOf(h)
  <2>1. Made(h)' <=> Made(h)
    BY DEF Made
  <2>2. Made(h) => handle[h].idx \in DOMAIN sources
    BY CursorsMade
  <2> QED
    BY <2>1, <2>2 DEF CursorOf
<1>2. CursorsOf' = CursorsOf
  BY <1>1 DEF CursorsOf
<1>3. AskedOf' = AskedOf
  BY DEF AskedOf
<1> QED
  BY <1>2, <1>3 DEF Cursors!vars

\* The handle h is made, or moved, to where p is.
LEMMA CursorMoves ==
  ASSUME CacheInv, NEW h \in Handles, sources' = sources,
         NEW p, p.idx \in DOMAIN sources, handle' = [handle EXCEPT ![h] = p]
  PROVE  CursorsOf' = [CursorsOf EXCEPT ![h] = [file |-> sources[p.idx], pos |-> p.pos]]
<1>1. p # NoHandle
  BY DEF CacheInv, SourcesInv, NoHandle
<1>2. DOMAIN handle = Handles
  BY DEF CacheInv, HandlesInv
<1>3. CursorOf(h)' = [file |-> sources[p.idx], pos |-> p.pos]
  BY <1>1, <1>2 DEF CursorOf, Made
<1>4. \A g \in Handles : g # h => CursorOf(g)' = CursorOf(g)
  BY <1>2 DEF CursorOf, Made
<1> QED
  BY <1>3, <1>4 DEF CursorsOf

\* A handle is made: at the start of a file, or where another cursor is.
LEMMA NewMakes ==
  ASSUME CacheInv, NEW h \in Handles, New(h)
  PROVE  Cursors!Make(h)
<1> USE DEF New, cacheVars, readVars
<1>1. ~Cursors!Made(h) /\ AskedOf = Cursors!NoRead
  BY CursorsMade
<1>2. AskedOf' = AskedOf /\ got' = Cursors!NoResult
  BY DEF AskedOf, NoResult, Result, Cursors!NoResult, Cursors!Result
<1>3. \E at \in {[file |-> f, pos |-> 0] : f \in DOMAIN FileLen}
               \cup {CursorsOf[g] : g \in {k \in Handles : Cursors!Made(k)}} :
        CursorsOf' = [CursorsOf EXCEPT ![h] = at]
  <2>1. CASE \E k \in DOMAIN sources : handle' = [handle EXCEPT ![h] = [idx |-> k, pos |-> 0]]
    <3>1. PICK k \in DOMAIN sources : handle' = [handle EXCEPT ![h] = [idx |-> k, pos |-> 0]]
      BY <2>1
    <3>2. CursorsOf' = [CursorsOf EXCEPT ![h] = [file |-> sources[k], pos |-> 0]]
      BY <3>1, CursorMoves
    <3>3. sources[k] \in DOMAIN FileLen
      BY DEF CacheInv, SourcesInv
    <3> QED
      BY <3>2, <3>3
  <2>2. CASE \E g \in Handles : Made(g) /\ handle' = [handle EXCEPT ![h] = handle[g]]
    <3>1. PICK g \in Handles : Made(g) /\ handle' = [handle EXCEPT ![h] = handle[g]]
      BY <2>2
    <3>2. handle[g].idx \in DOMAIN sources /\ Cursors!Made(g)
      BY <3>1, CursorsMade
    <3>3. CursorsOf' = [CursorsOf EXCEPT ![h] = [file |-> sources[handle[g].idx],
                                                pos |-> handle[g].pos]]
      BY <3>1, <3>2, CursorMoves
    <3>4. CursorsOf[g] = [file |-> sources[handle[g].idx], pos |-> handle[g].pos]
      BY <3>1 DEF CursorsOf, CursorOf
    <3> QED
      BY <3>2, <3>3, <3>4
  <2> QED
    BY <2>1, <2>2
<1> QED
  BY <1>1, <1>2, <1>3 DEF Cursors!Make

\* A seek is to the place it is to, or refused, whichever way the place is given.
LEMMA SeekSeeks ==
  ASSUME CacheInv, NEW h \in Handles, NEW from \in {"Start", "End", "Current"}, NEW n \in Int,
         Seek(h, from, n),
         NEW to, to = n + CASE from = "Start" -> 0 [] from = "End" -> End(handle[h].idx)
                            [] from = "Current" -> handle[h].pos
  PROVE  Cursors!Seek(h, to)
<1> USE DEF cacheVars, readVars
<1>1. Made(h) /\ reader = NoReader
  BY DEF Seek
<1>2. /\ handle[h].idx \in DOMAIN sources /\ handle[h].pos \in Nat
      /\ FileLen[CursorsOf[h].file] = End(handle[h].idx) /\ End(handle[h].idx) \in Nat
      /\ Cursors!Made(h) /\ AskedOf = Cursors!NoRead
  BY <1>1, CursorsMade DEF CursorsOf
<1>3. AskedOf' = AskedOf /\ sources' = sources
  BY DEF AskedOf, Seek
<1>4. CASE to \in 0 .. End(handle[h].idx)
  <2>1. handle' = [handle EXCEPT ![h].pos = to] /\ got' = Result("sought", <<>>)
    BY <1>2, <1>4 DEF Seek
  <2>2. handle' = [handle EXCEPT ![h] = [handle[h] EXCEPT !.pos = to]]
    BY <2>1
  <2>3. handle[h] \in [idx : Int, pos : Int]
    BY DEF CacheInv, HandlesInv
  <2>4. CursorsOf' = [CursorsOf EXCEPT ![h] = [file |-> sources[handle[h].idx], pos |-> to]]
    <3> DEFINE p == [handle[h] EXCEPT !.pos = to]
    <3>1. p.idx = handle[h].idx /\ p.pos = to
      BY <2>3
    <3> HIDE DEF p
    <3> QED
      BY <1>2, <1>3, <2>2, <3>1, CursorMoves DEF p
  <2>5. CursorsOf[h] = [file |-> sources[handle[h].idx], pos |-> handle[h].pos]
    BY <1>1 DEF CursorsOf, CursorOf
  <2>6. CursorsOf' = [CursorsOf EXCEPT ![h].pos = to]
    <3>1. [CursorsOf[h] EXCEPT !.pos = to] = [file |-> sources[handle[h].idx], pos |-> to]
      BY <2>5
    <3> QED
      BY <2>4, <3>1
  <2> QED
    BY <1>2, <1>3, <1>4, <2>1, <2>6 DEF Cursors!Seek, Result, Cursors!Result
<1>5. CASE to \notin 0 .. End(handle[h].idx)
  <2>1. handle' = handle /\ got' = Result("error", <<>>)
    BY <1>2, <1>5 DEF Seek
  <2>2. CursorsOf' = CursorsOf
    BY <1>3, <2>1 DEF CursorsOf, CursorOf, Made
  <2> QED
    BY <1>2, <1>3, <1>5, <2>1, <2>2 DEF Cursors!Seek, Result, Cursors!Result
<1> QED
  BY <1>4, <1>5

\* A read returns nothing at once, or its length is limited to the end of the file.
LEMMA ReadAsks ==
  ASSUME CacheInv, NEW h \in Handles, NEW n \in Nat, Read(h, n)
  PROVE  Cursors!Nothing(h, n) \/ Cursors!Ask(h, n)
<1> DEFINE room == Least(End(handle[h].idx), handle[h].pos + n) - handle[h].pos
<1> USE DEF readVars
<1>1. Made(h) /\ reader = NoReader /\ h # NoReader
  BY HandlesAssumption DEF Read, NoReader
<1>2. /\ handle[h].pos \in Nat /\ End(handle[h].idx) \in Nat
      /\ handle[h].pos <= End(handle[h].idx)
      /\ FileLen[CursorsOf[h].file] = End(handle[h].idx)
      /\ CursorsOf[h].pos = handle[h].pos
      /\ Cursors!Made(h) /\ AskedOf = Cursors!NoRead
  BY <1>1, CursorsMade DEF CursorsOf
<1>3. room = Cursors!Room(h, n) /\ room \in Nat
  BY <1>2 DEF Cursors!Room, Least
<1>4. CursorsOf' = CursorsOf
  BY DEF Read, CursorsOf, CursorOf, Made
<1>5. CASE room <= 0
  <2>1. got' = Result("bytes", <<>>) /\ reader' = reader /\ len' = len
    BY <1>5 DEF Read
  <2>2. AskedOf' = AskedOf
    BY <2>1 DEF AskedOf
  <2> HIDE DEF room
  <2> QED
    BY <1>2, <1>3, <1>4, <1>5, <2>1, <2>2 DEF Cursors!Nothing, Result, Cursors!Result
<1>6. CASE ~(room <= 0)
  <2>1. got' = NoResult /\ reader' = h /\ len' = room
    BY <1>6 DEF Read
  <2> HIDE DEF room
  <2>2. AskedOf' = [handle |-> h, len |-> Cursors!Room(h, n)]
    BY <1>1, <1>3, <2>1 DEF AskedOf
  <2> QED
    BY <1>2, <1>3, <1>4, <1>6, <2>1, <2>2
       DEF Cursors!Ask, NoResult, Result, Cursors!NoResult, Cursors!Result
<1> QED
  BY <1>5, <1>6

\* Only the read that waits for a fetch sees that it fails.
LEMMA FailureFails ==
  ASSUME CacheInv, NEW key \in fetching, FetchFails(key)
  PROVE  Cursors!Fail \/ UNCHANGED Cursors!vars
<1>1. CASE Awaited(key)
  <2>1. reader # NoReader /\ reader' = NoReader /\ got' = Result("error", <<>>)
    BY <1>1 DEF FetchFails, Awaited, Returned
  <2>2. AskedOf # Cursors!NoRead
    BY <2>1, CursorsMade
  <2>3. AskedOf' = Cursors!NoRead
    BY <2>1 DEF AskedOf, Cursors!NoRead
  <2>4. CursorsOf' = CursorsOf
    BY DEF FetchFails, CursorsOf, CursorOf, Made
  <2> QED
    BY <2>1, <2>2, <2>3, <2>4 DEF Cursors!Fail, Result, Cursors!Result
<1>2. CASE ~Awaited(key)
  BY <1>2, UnseenSteps DEF FetchFails, readVars
<1> QED
  BY <1>1, <1>2

\* A read that completes delivers the bytes at its cursor, and moves it beyond them.
LEMMA CompleteDelivers ==
  ASSUME CacheInv, Complete
  PROVE  Cursors!Deliver
<1>1. /\ reader # NoReader /\ reader \in Handles /\ Made(reader)
      /\ reader' = NoReader /\ sources' = sources
      /\ handle' = [handle EXCEPT ![reader].pos = @ + len]
      /\ got' = Result("bytes", Copied)
  BY DEF Complete, CacheInv, ReadInv, Returned, cacheVars
<1>2. Copied = BytesAt(sources[Idx], Off, len)
  BY CopiedIsTheBytes DEF Complete, Bytes
<1>3. AskedOf # Cursors!NoRead /\ AskedOf.handle = reader /\ AskedOf.len = len
  BY <1>1, CursorsMade DEF AskedOf
<1>4. AskedOf' = Cursors!NoRead
  BY <1>1 DEF AskedOf, Cursors!NoRead
<1>5. CursorsOf[reader] = [file |-> sources[Idx], pos |-> Off]
  BY <1>1 DEF CursorsOf, CursorOf, Idx, Off
<1>6. CursorsOf' = [CursorsOf EXCEPT ![reader].pos = @ + len]
  <2> DEFINE p == [handle[reader] EXCEPT !.pos = @ + len]
  <2>1. handle' = [handle EXCEPT ![reader] = p]
    BY <1>1
  <2>2. handle[reader] \in [idx : Int, pos : Int]
    BY <1>1 DEF CacheInv, HandlesInv
  <2>3. p.idx = Idx /\ p.pos = Off + len
    BY <2>2 DEF Idx, Off
  <2>4. Idx \in DOMAIN sources
    BY <1>1, CursorsMade DEF Idx
  <2>5. CursorsOf' = [CursorsOf EXCEPT ![reader] = [file |-> sources[p.idx], pos |-> p.pos]]
    <3> HIDE DEF p
    <3> QED
      BY <1>1, <2>1, <2>3, <2>4, CursorMoves
  <2>6. CursorsOf' = [CursorsOf EXCEPT ![reader] = [file |-> sources[Idx], pos |-> Off + len]]
    BY <2>3, <2>5
  <2>7. [CursorsOf[reader] EXCEPT !.pos = @ + len] = [file |-> sources[Idx], pos |-> Off + len]
    BY <1>5
  <2> QED
    BY <2>6, <2>7
<1>7. got' = Cursors!Result("bytes", [k \in 1 .. len |-> <<sources[Idx], Off + k - 1>>])
  BY <1>1, <1>2 DEF Result, Cursors!Result, BytesAt
<1> DEFINE c == CursorsOf[AskedOf.handle]
<1>8. c.file = sources[Idx] /\ c.pos = Off
  BY <1>3, <1>5
<1> QED
  BY <1>3, <1>4, <1>6, <1>7, <1>8 DEF Cursors!Deliver

\* Reading through the cache is reading through a cursor on the file: whatever chunks
\* are there, fetched, failed, evicted or shared with another read, and whatever the
\* length of a chunk, a read gives the bytes at its position and as many as there are
\* up to the end, or fails and moves nothing.
THEOREM ReadsAreACursors == CachedSpec => IsACursor
<1>1. CachedInit => Cursors!Init
  <2> SUFFICES ASSUME CachedInit PROVE Cursors!Init
    OBVIOUS
  <2>1. CursorsOf = [h \in Handles |-> Cursors!NoCursor]
    BY DEF CachedInit, CursorsOf, CursorOf, Made, Cursors!NoCursor
  <2>2. AskedOf = Cursors!NoRead
    BY DEF CachedInit, AskedOf, Cursors!NoRead
  <2> QED
    BY <2>1, <2>2 DEF CachedInit, NoResult, Result, Cursors!NoResult, Cursors!Result,
       Cursors!Init
<1>2. CacheInv /\ [CachedNext]_vars => [Cursors!Next]_(Cursors!vars)
  <2> SUFFICES ASSUME CacheInv, [CachedNext]_vars
               PROVE  Cursors!Next \/ UNCHANGED Cursors!vars
    OBVIOUS
  <2>1. ASSUME NEW f \in DOMAIN FileLen, AddSource(f) PROVE UNCHANGED Cursors!vars
    BY <2>1, UnseenSteps DEF AddSource, readVars
  <2>2. ASSUME NEW h \in Handles, New(h) PROVE Cursors!Next
    BY <2>2, NewMakes DEF Cursors!Next
  <2>3. ASSUME NEW h \in Handles, Made(h), NEW n \in -1 .. End(handle[h].idx) + 1,
               \/ Seek(h, "Start", n)
               \/ Seek(h, "End", -n)
               \/ Seek(h, "Current", n - handle[h].pos)
        PROVE  Cursors!Next
    <3> DEFINE end == End(handle[h].idx)
    <3>1. /\ end \in Nat /\ handle[h].pos \in Nat /\ Cursors!Made(h)
          /\ FileLen[CursorsOf[h].file] = end
      BY <2>3, CursorsMade DEF CursorsOf
    <3>2. n \in Int /\ end - n \in -1 .. end + 1 /\ n \in -1 .. end + 1
      BY <3>1
    <3> HIDE DEF end
    <3>3. \E to \in -1 .. end + 1 : Cursors!Seek(h, to)
      <4>1. CASE Seek(h, "Start", n)
        BY <3>2, <4>1, SeekSeeks
      <4>2. CASE Seek(h, "End", -n)
        <5>1. end - n = (-n) + end /\ -n \in Int
          BY <3>1, <3>2
        <5>2. Cursors!Seek(h, end - n)
          BY <4>2, <5>1, SeekSeeks DEF end
        <5> QED
          BY <3>2, <5>2
      <4>3. CASE Seek(h, "Current", n - handle[h].pos)
        <5>1. n = (n - handle[h].pos) + handle[h].pos /\ n - handle[h].pos \in Int
          BY <3>1, <3>2
        <5>2. Cursors!Seek(h, n)
          BY <4>3, <5>1, SeekSeeks
        <5> QED
          BY <3>2, <5>2
      <4> QED
        BY <2>3, <4>1, <4>2, <4>3
    <3> QED
      BY <3>1, <3>3 DEF Cursors!Next
  <2>4. ASSUME NEW h \in Handles, NEW n \in 0 .. MaxLen, Read(h, n) PROVE Cursors!Next
    <3>1. n \in Nat
      BY BoundsAssumption
    <3> QED
      BY <2>4, <3>1, ReadAsks DEF Cursors!Next
  <2>5. CASE Calls
    BY <2>1, <2>2, <2>3, <2>4, <2>5 DEF Calls
  <2>6. ASSUME NEW key \in fetching, Fetched(key) PROVE UNCHANGED Cursors!vars
    BY <2>6, UnseenSteps DEF Fetched
  <2>7. CASE Fetches
    BY <2>6, <2>7, FailureFails DEF Fetches, Cursors!Next
  <2>8. CASE Complete
    BY <2>8, CompleteDelivers DEF Cursors!Next
  <2>9. CASE \E key \in DOMAIN cached : Evict(key)
    BY <2>9, UnseenSteps DEF Evict, readVars
  <2>10. CASE \E key \in fetching : Dropped(key)
    BY <2>10, UnseenSteps DEF Dropped, readVars
  <2>11. CASE UNCHANGED vars
    BY <2>11, UnseenSteps DEF vars, cacheVars, readVars
  <2> QED
    BY <2>5, <2>7, <2>8, <2>9, <2>10, <2>11 DEF CachedNext
<1> QED
  BY <1>1, <1>2, AlwaysCacheInv, PTL DEF CachedSpec, IsACursor, Cursors!Spec

-----------------------------------------------------------------------------
(***************************************************************************)
(* The types that CacheInv does not give: the length and the result.       *)
(***************************************************************************)
ResultsInv ==
  len \in 0 .. MaxLen /\ got.outcome \in {"none", "sought", "bytes", "error"}

\* No read is longer than its buffer, whatever is left of the source.
LEMMA NextResultsInv ==
  ASSUME CacheInv, ResultsInv, [CachedNext]_vars
  PROVE  ResultsInv'
<1> USE DEF ResultsInv
<1>1. 0 \in 0 .. MaxLen
  BY BoundsAssumption
<1>2. ASSUME NEW o \in {"none", "sought", "bytes", "error"}, NEW bytes
      PROVE  Result(o, bytes).outcome = o
  BY DEF Result
<1>3. NoResult.outcome = "none"
  BY DEF NoResult, Result
<1>4. ASSUME NEW f \in DOMAIN FileLen, AddSource(f) PROVE ResultsInv'
  BY <1>4 DEF AddSource, readVars
<1>5. ASSUME NEW h \in Handles, New(h) PROVE ResultsInv'
  BY <1>3, <1>5 DEF New, readVars
<1>6. ASSUME NEW h \in Handles, NEW from, NEW n, Seek(h, from, n) PROVE ResultsInv'
  <2>1. got' = Result("sought", <<>>) \/ got' = Result("error", <<>>)
    BY <1>6 DEF Seek
  <2>2. len' = len
    BY <1>6 DEF Seek, readVars
  <2> QED
    BY <1>2, <2>1, <2>2
<1>7. ASSUME NEW h \in Handles, NEW n \in 0 .. MaxLen, Read(h, n) PROVE ResultsInv'
  <2> DEFINE room == Least(End(handle[h].idx), handle[h].pos + n) - handle[h].pos
  <2>1. room <= n /\ room \in Int
    <3>1. Made(h)
      BY <1>7 DEF Read
    <3>2. handle[h].pos \in Nat /\ End(handle[h].idx) \in Nat
      BY <3>1, CursorsMade
    <3>3. n \in Nat
      BY BoundsAssumption
    <3> QED
      BY <3>2, <3>3 DEF Least
  <2>2. CASE room <= 0
    <3>1. got' = Result("bytes", <<>>) /\ len' = len
      BY <1>7, <2>2 DEF Read, readVars
    <3> QED
      BY <1>2, <3>1
  <2>3. CASE ~(room <= 0)
    <3>1. got' = NoResult /\ len' = room
      BY <1>7, <2>3 DEF Read
    <3> HIDE DEF room
    <3>2. room \in 0 .. MaxLen
      BY <2>1, <2>3, BoundsAssumption
    <3> QED
      BY <1>3, <3>1, <3>2
  <2> QED
    BY <2>2, <2>3
<1>8. CASE Calls
  BY <1>4, <1>5, <1>6, <1>7, <1>8 DEF Calls
<1>9. CASE Fetches
  <2>1. PICK key \in fetching : Fetched(key) \/ FetchFails(key)
    BY <1>9 DEF Fetches
  <2>2. CASE Fetched(key)
    BY <2>2 DEF Fetched
  <2>3. CASE FetchFails(key)
    <3>1. \/ len' = 0 /\ got' = Result("error", <<>>)
          \/ len' = len /\ got' = got
      BY <2>3 DEF FetchFails, Returned, readVars
    <3>2. Result("error", <<>>).outcome = "error"
      BY <1>2
    <3> QED
      BY <1>1, <3>1, <3>2
  <2> QED
    BY <2>1, <2>2, <2>3
<1>10. CASE Complete
  BY <1>1, <1>2, <1>10 DEF Complete, Returned
<1>11. CASE \E key \in DOMAIN cached : Evict(key)
  BY <1>11 DEF Evict, readVars
<1>12. CASE \E key \in fetching : Dropped(key)
  BY <1>12 DEF Dropped, readVars
<1>13. CASE UNCHANGED vars
  BY <1>13 DEF vars, readVars
<1> QED
  BY <1>8, <1>9, <1>10, <1>11, <1>12, <1>13 DEF CachedNext

\* Every key is of a source that is there, every handle is at a position of one, and
\* no read is longer than its buffer.
THEOREM CachedTypes == CachedSpec => []CachedTypeOK
<1>1. CachedInit => ResultsInv
  BY BoundsAssumption DEF CachedInit, ResultsInv, NoResult, Result
<1>2. CacheInv /\ ResultsInv /\ [CachedNext]_vars => ResultsInv'
  BY NextResultsInv
<1>3. CacheInv /\ ResultsInv => CachedTypeOK
  <2> SUFFICES ASSUME CacheInv, ResultsInv PROVE CachedTypeOK
    OBVIOUS
  <2>1. \A k \in DOMAIN sources : k \in Nat /\ sources[k] \in DOMAIN FileLen
    BY DEF CacheInv, SourcesInv
  <2>2. \A key \in DOMAIN cached \cup fetching : key[1] \in DOMAIN sources /\ key[2] \in Nat
    BY DEF CacheInv, ChunksInv, GoodKey
  <2>3. \A h \in Handles :
          handle[h] # NoHandle => handle[h].idx \in DOMAIN sources /\ handle[h].pos \in Nat
    BY CursorsMade DEF Made
  <2>4. reader \in Handles \cup {NoReader}
    BY DEF CacheInv, ReadInv
  <2> QED
    BY <2>1, <2>2, <2>3, <2>4 DEF CachedTypeOK, ResultsInv
<1> QED
  BY <1>1, <1>2, <1>3, AlwaysCacheInv, PTL DEF CachedSpec
=============================================================================
