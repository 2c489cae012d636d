# A verification of vmdk-rs in TLA+

vmdk-rs opens a VMware virtual disk (a chain of image files, each a delta to
its parent) and reads ranges of bytes from it. This directory models the parts
of it that decide *which byte of which file* a read returns, checks them with
TLC on small disks, and proves the most important of their properties with
TLAPS. Lines are those of the repository; `spans.rs:62` is line 62 of
`src/spans.rs` there.

## 1. The system

| Component | State | Operations | Interacts with |
|---|---|---|---|
| `vmdk_reader.rs` `VmdkReader` | spans in order, extents, size of the image, the cache | `open` (with `handle_image`), `read_at_offset` | calls everything below; called by `capi.rs` and `main.rs` |
| `spans.rs` | two BTreeMaps owned by `open` | `insert_span`, `remove_span` | called by `open` for every piece of every extent |
| `extents.rs` | none (builds extents and grain tables) | `read_extents`, `read_extent`, the two table readers, `Extent::spans` | reads headers and tables through a `CacheReadSeek`; adds sources |
| `storage.rs` `ExtentStorage` | grain table; the position of its file | `read` of sparse, flat and zero storage; inflation of a grain | called by `read_at_offset`; reads through a `CacheReadSeek` |
| `cachereadseek.rs` `CacheReadSeek` | index of a source, position | `read`, `seek`, `clone` | locks the cache that all of them share |
| `foyercache.rs` `FoyerCache` | sources by index, a `HybridCache` of chunks, a runtime | `add_source`, `end`, `read` | tasks of the runtime fetch chunks from the sources |
| `filesource.rs`, `s3source.rs` | the file or object, its length | `read(beg, end)`, `end` | files, S3 |
| `header.rs` | none | parsing and validation of three kinds of header, the secondary header | `extents.rs`, `vmdk_reader.rs` |
| `descriptor.rs`, `extent_description.rs` | none | finding and parsing the descriptor | `vmdk_reader.rs` |
| `capi.rs` | handles and errors, allocated for C | `vmdk_open`, `vmdk_read`, `vmdk_close`, `vmdk_free_error` | calls `VmdkReader`; called from C |
| `main.rs` | the offset in an image and its hash | reads each image to its end and prints its hash | `VmdkReader` |
| `errors.rs`, `dummycache.rs`, `placeholdersource.rs` | none | conversions; a cache that is not used; a filler of indices | |

How they interact: `open` reads an image (descriptor, header, tables, all
through the cache), turns each extent into pieces, and passes each piece to
`insert_span` and then `remove_span`. What is left in the second map decides
whether the parent is opened. In the end the gaps become a zero extent and the
first map becomes the vector that `read_at_offset` searches. A read goes through
span, extent, storage, `CacheReadSeek` and cache, down to a source.

What is hard about it, component by component, and what makes it correct:

* **Span maps.** Loops that change the map that they iterate over, by five ways
  through one body and four through the other, for pieces that come in the order
  of a HashMap. Correct: first claim wins; spans do not overlap; the two maps
  are complements; the result does not depend on the order; the loops end.
* **Grain tables.** Entries, grains and sectors are counted by one variable, and
  tables may be cut short or corrupt. Correct: exactly the grains that the file
  has are registered, and an error is returned exactly when something that is
  needed is wrong.
* **Reader.** Indices of sources counted in three places; a chain that must be
  followed just as far as necessary; reads that cross grains, spans and images.
  Correct: a byte comes from the nearest image that has it; an open reader has a
  span for each offset; reads and open end.
* **Cache.** Chunks are fetched by tasks that finish in any order, fail, or
  outlive their reader; entries are evicted at any time; chunks are shared by
  handles. Correct: each `CacheReadSeek` is an ordinary cursor over its file.
* **Headers.** The choice between the two headers of a file is made twice, for
  the descriptor and for the tables; sizes are products of numbers from the file
  that wrap, and the limits are checked on what is left. Correct: one header is
  used; its tables hold the disk and no more; what is accepted is within the limit.
* **Descriptor.** Read line by line until it is known to be one, or up to a zero
  byte; an extent that is skipped moves all those after it. Correct: the text
  that is parsed is the whole text; every extent line is taken or refused, and
  refused only for a cause; the loop ends.
* **Inflation.** The decoder gives as many bytes as it likes; four lengths (in
  the marker, in the file, of the stream, of the grain) need not agree. Correct: a
  grain that is accepted is the stream's bytes in order; one that is larger than its
  size is refused; the loop ends.
* **C interface.** Each handle and each error is several allocations, freed in
  another function. Correct: nothing is leaked, freed twice or reached from two
  sides; `err` tells a failed call from one that gives nothing.
* **Hash tool.** The last buffer is not full, and one image comes after another.
  Correct: a hash is that of all bytes of one image.

`PROJECT.json` lists every hazard at its line, with the properties that cover it
or the reason why none does.

## 2. The modules

Each specification of a component that keeps state between calls has a smaller
one beside it that says what the component promises, and is shown to implement it.

| Module | Models | Promise it implements, or relies on |
|---|---|---|
| `Spans` | `insert_span`, `remove_span`: an action for each iteration | implements `SpanOwners` |
| `GrainTables` | the result of the table readers, as operators | |
| `GrainLoops` | the same readers, an action for each way through the loop bodies | implements `GrainTables` (as invariant `BuildsTheTable`) |
| `Storage` | `ExtentStorage::read` | |
| `VmdkReader` | `open`, `handle_image`, `read_extents`, `read_at_offset`; uses `Spans`, `GrainTables`, `Storage` | implements `DeltaDisk` |
| `CachedSources` | `CacheReadSeek`, `FoyerCache`, the fetches, the ranges asked of a source | implements `SourceCursors` |
| `Headers` | `header.rs`, and the two callers that choose between headers | gives `VmdkReader` and `GrainLoops` what a header says |
| `Descriptors` | `descriptor.rs`, `extent_description.rs` | gives `VmdkReader` what a descriptor says |
| `ImageFormats` | `handle_image` from a file to its descriptions, tables and parent; extends `Headers` and `Descriptors` | |
| `GrainInflate` | `read_and_decompress_grain`, step by step | `Inflate` of `Storage` is the same at once |
| `CApi` | `capi.rs` | its reader is the `DeltaDisk` of the image |
| `HashTool` | `main.rs` | extends `DeltaDisk`, whose actions are its calls |
| `NatLemmas` | no code: arithmetic, induction over an interval, recursive functions | used by all proofs |
| `SpansProofs`, `VmdkReaderProofs`, `CachedSourcesProofs`, `CApiProofs`, `HashToolProofs` | the proofs about the module that each is named after | |
| `GrainProofs` | the proofs about `GrainTables`, `GrainLoops` and `GrainInflate` | |
| `FormatProofs` | the proofs about `Headers`, `Descriptors` and `ImageFormats` | |
| `MCDisks` | the parts that the small disks of `MCVmdkReader`, `MCCApi` and `MCHashTool` are made of | |
| `MC*` | values of constants for TLC | |

`DeltaDisk` is where the parts meet: `VmdkReader` implements it, and `CApi` and
`HashTool` are written against it, so they do not repeat the reader.

Definitions that begin with "a mistake in" are not used by the specifications.
They are wrong versions of the definition after them, put in its place to see
that a property notices; `PROJECT.json` lists them as mutants.

What the theorems need is in the modules already. A loop that collects something is
a recursive function, never a RECURSIVE operator, and `Descriptors` gathers its lines
with `Gathered` where `SelectSeq` would do: the prover cannot expand the latter.

### State and actions

**Spans.** `spans` and `uncovered` are functions from the key of the BTreeMap to
the rest of its entry. `call` holds the arguments and `sbeg` is the loop's
parameter of that name, which the loops advance. `InsertCovered`,
`InsertBeforeNext` and `InsertRest` are the ways through `insert_span`
(`spans.rs:62`); `RemoveLast`, `RemoveFirst` (an interval that has no
span at or before its start) and `RemoveAhead` those through `remove_span`
(`spans.rs:6`). `Claim` is the caller.

**SpanOwners.** A sector has at most one owner, the first that claimed it, and a
sector of the image without one is free. A call is two sweeps of a cursor, which
may pause anywhere.

**GrainTables / GrainLoops.** A level-1 entry is the level-2 table that it leads
to (sparse), or a nibble and an index of a table (SESPARSE). A level-2 table
may be shorter than it should be: the file ends in it. (Of a sparse one at least one
entry is there, since `<<>>` says that there is no table; a table that begins where
the file ends fails as one that is cut short does.) `l1_there` is how many entries of
the level-1 table the file has: the readers read all of them before they look at one
(`extents.rs:71`, `139`), which is `ReadLevel1` and `L1There`. `h`, `cur_sector` and
`grain_table` have their names from `extents.rs:63`.

**Storage.** A byte is a pair of its file and its position, or `ZeroByte`; so a
read that takes any byte from anywhere else is seen. A byte of a compressed
grain is its grain and its position in the buffer that it is inflated to. A file says
of each of its compressed grains how long its marker makes it and whether the zlib
header and the stream are `sound`; `Inflates` are the ways to refuse one
(`storage.rs:72-105`): a marker, a header or a stream that the file cuts short, the two
bytes too many (`storage.rs:100`) included, a size that is crazy, a bad header, an
error of the decoder. The run `grain_inflate` and its theorems say what is in the
buffer.

**VmdkReader.** `pc` says where the thread is: at an image (`HandleImage`,
`vmdk_reader.rs:141`, with everything it calls, or `ImageFault` when a source
fails meanwhile), at an extent (`BeginExtent`,
`InsertOne` for one piece, in any order, `RunMaps` for an iteration of a span
loop, `EndExtent`), at the gaps (`FillZeros`, `RunFill`, `EndFill`), then ready,
or in a read: `Call` or `Refuse`, `ReadPiece` for each turn of the loop at
`vmdk_reader.rs:368`, `ReadFault` when a source fails, `Return`. `Forget` only
drops what the caller has seen. The actions of `Spans` are used through an
INSTANCE; they are not repeated.

**DeltaDisk.** The disk is a function from offsets to bytes, defined along the
chain without spans or tables in memory. `Open` succeeds if each image that is
needed is usable, and fails if one is not, or if a source may fail (`flaky`).
An image is usable if its headers are there and not refused, its level-1 tables there
in full (`HasTables`) and its level-2 tables as far as it has sectors, without a corrupt
entry (`Sound`, `SeSound`). `Reply` gives the bytes; `Fail` is allowed only if a byte
asked for is `Missing`, or a source fails and some byte comes from one. A byte is
missing if it is beyond the end of its file, or in a compressed grain that is not
`Inflatable`: not sound, longer than it can be, or without the `BytesTooMany` behind it
that the code wants, which are two. Those are not what the format says but what the code
does; they are in `DeltaDisk` so that it says exactly when a read fails.

**CachedSources.** `cached` is the content of the `HybridCache` and `fetching` the
fetches under way, by (index, offset of chunk). `Read` takes what is cached and
starts the other fetches; `Fetched` and `FetchFails` end one, in any order;
`Complete` is the copy loop (`foyercache.rs:170`). `Evict` and `Dropped` are what
the library and the runtime may do at any time. The mutex of the cache is held
during a read (`cachereadseek.rs:40`), so there is one `reader`; fetches that an
earlier read left behind run on beside it. `S3Range` is the inclusive range that
`s3source.rs:80` makes of the exclusive one it is given.

**SourceCursors.** A handle is a file and a position; a read is a call and,
later, an answer that is the bytes or an error.

**Headers.** `reader` is who reads: `"descriptor"` is `handle_image`, `"tables"`
is `read_extent`, on a clone that starts again. `CheckSignature` is what each of
the three functions does with the signature; `ReadVmdk3`, `ReadVmdk4`,
`ReadSeSparse` read and validate a header; `ReadSecondary` is the header 1024
bytes before the end. `chosen` is what each of the two has settled on. The
`*Meta` operators are the `TryFrom`s of `header.rs:188`, with each product modulo
`Word`. A file may end anywhere, also in the middle of what is read.

**Descriptors.** A text is a sequence of pieces, so "the length less one" and "a
line" keep their meaning without characters: `Shortened` is what a piece becomes
when its last byte is dropped. `ReadLine` is one turn of the loop in
`read_descriptor_file`, with `line` and `desc` as in the code; `ReadEmbedded` is
`read_descriptor_internal`; `ReadExtents` is one turn of the loop over the lines.

**ImageFormats.** The steps of the two in the order of `handle_image`
(`vmdk_reader.rs:162`): `ReadHeader` until the signature, and the header of a VMDK4 file,
has been read, and only then `ReadDescriptor`; then `ReadTables` if an extent has them,
and `FindParent`. What fails in one is not gone on with in the next. `Contents` is what
may be in a file. A file with sparse data only is read by `ReadTables` alone.

**GrainInflate.** `c` and `buf` are the code's; `Inflate(r)` is a call of the
decoder that gives `r` bytes, any number it may. The check that comes too late
(`storage.rs:112`) is in `Inflate` as it is in the code.

**CApi.** `heap` maps addresses to objects, which are used again when free.
The functions are actions, several of them for one function where it has several
outcomes; `FillError`, `OfHandle` and `OfError` are what is allocated and freed.
The caller has two handle variables and one for errors, as in the example of the
README of the repository, and a result is kept in `last`.

**HashTool.** The calls are the actions of `DeltaDisk`; `TakeBytes` and
`PrintHash` are the loop of `do_hash`, `GiveUp` and `Done` how `main` ends.

## 3. What TLC checks

| Run | Question | Instance |
|---|---|---|
| `spans` | Do the loops keep the maps disjoint, minimal and complementary; does the first claim win; do calls return? | image of 4 sectors, claims up to sector 5 (`Places`), 3 extents, any number of calls |
| `grain_loops` | Do the table readers build the right table and fail when they should? | extents of 1 to 5 sectors, grains of 1 or 2, level-2 tables of 2 entries, complete, cut short or empty, level-1 tables complete, without their last one or two entries, or beyond the end of the file, at sector 0 or 3 |
| `reader` | Is each byte read the byte of the disk; does `open` fail exactly when it must, and go no further than it must; can a read panic? | 85 chains of a child and a flat, COWD or SESPARSE parent, 49 of them with a compressed child, whose grains are sound, cut short, longer than they can be, not sound or last in their file; and 98 odd ones with one to three images: files missing, renamed, cut short, of the wrong kind or size, headers refused, level-1 or level-2 tables cut short, with and without sources that fail during `open`; reads of up to 6 bytes at every offset, with and without failing sources |
| `cached_sources` | Is a `CacheReadSeek` a cursor; does a read return; what ranges are asked for? | files of 3 and 2 bytes, chunks of 2, two sources, two handles, reads of up to 3 bytes |
| `image_formats` | What does `handle_image` make of a file: is one header used for everything, do its tables hold the disk, what gets past the checks; is the text whole, is an extent lost or refused without cause; is every file read to an end? | words of 12 bits, sectors of 4 bytes, tables of up to 4 entries, limits of 2^8 and 2^9 bytes; files cut before, in and after each thing that is read; descriptor files of up to two blank lines and four others, one of them not blank; embedded texts with and without a zero byte behind them, a window of 9 pieces |
| `grain_inflate` | Is an accepted grain the grain; which sound grains are lost; does the loop end? | grains of 3 bytes, sizes up to 7 in the marker, streams of up to 5 bytes, files cut anywhere |
| `c_api` | Who owns what; does `err` tell a failed call from one that is not? | two handles, 8 addresses, three disks: sound but flaky, cut short, never opened; five offsets, lengths 0 and 3 |
| `hash_tool` | Is a printed hash that of a whole image; does the program end? | up to two of five images, a buffer of 3 for disks of 10 bytes |
| `flat_parts`, `sparse_parts`, `blank_file`, `grain_too_large` | What the repository says of these is not so: see section 5 | one or two disks or files each; the last one as `grain_inflate` |

Why the bounds are enough:

* *Spans.* The loop bodies look at one or two spans and at the cursor. Four
  sectors with one beyond the image hold every relation of an interval to two
  neighbours (touching, overlapping, inside, around, on both sides), and three
  labels give a merge to the left, to the right, to both or to none. The number of
  calls is not bounded. `MinLen = 1`: see section 6.
* *Reader.* Sectors of two bytes make a read begin and end inside a sector.
  Five sectors and grains of two give three grains, the last one partial, in two
  level-2 tables, the second one half used. Each grain is absent, zeroed,
  allocated, and next to a different one. Compressed grains are 16 bytes long, and the
  last one ends at byte 72: the files with them are 74, 73, 72 and 70 bytes long, so
  they have the two bytes too many, one of them, none, or lack two of the grain. A read of six bytes
  crosses two grains and two images. Three images are the least number where a parent is both a
  child and a parent; `OddDisks` has them. A read starts at each offset up to
  one beyond the end.
* *Cache.* With files of 3 and 2 bytes and chunks of 2 there is a short last chunk,
  an exact one, and reads that begin and end in the middle of one, in one
  chunk or in two. Two handles on one file share its chunks; the same file as
  two sources must not. Evictions, failures and fetches are not bounded in number.
* *Tables.* A level-1 table has as many entries as it needs or one more, so the loop is
  left both ways, and it may be cut short in an entry that the loop would not get to;
  each entry is absent, sound, short or out of range.
* *Headers and descriptors.* A file of the run has either a header of interest and a plain
  descriptor or the other way round: all that goes from the one to the other is whether it
  is read.
* *Headers.* The checks compare with constants and with each other, so the values
  of each field lie below, at and above each constant, scaled down together.
  Granularities of 1023 and above make the products wrap, to zero as well as to
  something small.
* *Descriptors.* Each kind of extent and each way to spoil one is a line of its own;
  two lines in a row show what one does to the next, a third is the parent or an
  extent without a newline. The window of 9 ends before, in and behind the text.
* *Inflation.* A grain of 3 lets the decoder give 1, 2 or 3 bytes of it in every
  way; the marker's limit is 6, and sizes go one beyond.
* *C interface.* Two handles of three objects and an error of two are the most that
  a careful caller can hold: 8 addresses, all in use at once, and used again.

Deadlock is checked in `spans` and `c_api`. In the other specifications a run may
end (`open` failed or panicked; the loop, the function or the program is done) or
nothing may be asked of it, so their configurations switch it off.

Fairness. `Spans`, `VmdkReader`, `ImageFormats`, `GrainInflate` and `HashTool` run in
one thread, so weak fairness of a step says that a thread that can run does; calls are not fair where
whether to call is up to the caller. `HashTool` also takes it that each call of the
reader returns, which is `OpenReturns` and `ReadReturns` of `VmdkReader`. In
`CachedSources` a fetch that the
reader awaits is run by the runtime and ends one way or the other; the read
then goes on. Evictions, `Dropped` and fetches that nobody waits for are not fair.
`OpenReturns` is for chains that end, `DescriptorRead` in `image_formats` for texts
with a line that is not blank.

## 4. What is proved

The theorems hold for every value of the constants: disks and chains of every size,
words of every width, any chunk length, any number of handles. What they take for
granted is named in the modules, and TLC evaluates it for the values of the runs:

| Assumption | Says |
|---|---|
| `SpansAssumption` | sectors are natural numbers, `Places` (the sectors that a claim may begin or end at) has no gaps and holds the end of the image |
| `DisksAssumption` of `VmdkReader`, `SizesAssumption` of `CApi`, `CommandLinesAssumption` of `HashTool` | numbers of a file are unsigned; what a descriptor, a table or a command line lists is a sequence; buffers are not empty |
| `StorageAssumption`, `MaxReadAssumption` | a sector is not empty; the bound of the length of a read is a number |
| `AddressesAssumption` | there are addresses for all that a caller may hold at once, eight: the code does not handle an allocation that fails |
| `ChunkAssumption`, `FilesAssumption`, `BoundsAssumption`, `HandlesAssumption` of `CachedSources` | chunks are not empty, lengths are natural numbers, "no reader" is not a handle |
| `WordAssumption`, `FilesAssumption` of `Headers` | fields are unsigned numbers of the width |
| `HeadersAssumption`, `StartsAssumption` of `GrainLoops` | tables are enough for the sectors, which for VMDK4 is what `TablesCover` gives and for the other two what the length of their directory is for |
| `SizesAssumption` of `GrainInflate` | a grain is not empty |
| `ContentsAssumption` of `ImageFormats` | a file has one of the headers of `Headers` and one of the texts of `Descriptors`; only a VMDK4 file has its descriptor in it |
| `ImagesAssumption` of `Descriptors` | a text is a sequence in which something ends each line: no two bodies of lines are next to each other |

Some theorems have a hypothesis besides. Those on `Complement`, the owners and
`Canonical` take `MinLen > 0` (section 6). `NoReadPanics` takes `SparseFirst`: an image
has one sparse extent at most, its first. It is what the run `sparse_parts` is about:
with a sparse extent elsewhere the grains are looked up where they are not, and the
look-up panics. `OnlyNeededOpened` takes `SoundDisk`: no image of the chain is its own
ancestor; the extents of an image have sectors, and only the first is sparse; the tables
of that one are as long as its extent, and its grains have sectors. Whether an
image is usable, how large it is and what its tables hold are left open.
`ReaderReadsTheDisk` takes `WholeDisk` as well, which leaves out what section 5 says is
read wrong or panics: an image has one extent, of a kind that `filename` knows, and a
flat one begins where its file does (items 1, 2 and 5); the entries of tables are
unsigned numbers, and the grains of a SESPARSE file come after its headers. Where the
files are, of which kind and how long they are, whether their headers are refused,
whether a table of either level is cut short or corrupt, and whether a compressed grain
is cut short, corrupt or the last thing in its file, are left open. Of the 183
disks of the run `reader`, 181 satisfy both hypotheses; the other two have no extents.

| Theorem | States |
|---|---|
| `SpansTypes` | `SpansSpec => []TypeOK` |
| `SpansDisjoint` | `SpansSpec => []Disjoint` |
| `SpansComplement` | `SpansSpec => []Complement`, for `MinLen > 0` |
| `SpansImplementOwners` | `SpansSpec => FirstClaimWins`, for `MinLen > 0` |
| `SpansStaySmall` | `SpansSpec => []Canonical`, for `MinLen > 0` |
| `ReaderTypes` | `ReaderSpec => []ReaderTypeOK` |
| `IndicesStay` | `ReaderSpec => SourcesStay` |
| `OpenReaderTiles` | `ReaderSpec => []SpansTile` |
| `NoReadPanics` | `ReaderSpec => ReadsDoNotPanic`, for `SparseFirst` |
| `OnlyNeededOpened` | `ReaderSpec => []OpensOnlyNeeded`, for `SoundDisk` |
| `ReaderReadsTheDisk` | `ReaderSpec => ReadsTheDisk`, for `SoundDisk` and `WholeDisk` |
| `LoopsStayWithin` | `LoopSpec => []NeverPastTheEnd` |
| `LoopsFindTheGrains` | `LoopSpec => []GrainsFound` |
| `LoopsBuildTheTable` | `LoopSpec => []BuildsTheTable` |
| `WholeGrainHolds` | `InflateSpec => []WholeGrain` |
| `SoundGrainsAreKept` | `InflateSpec => []LostOnlyAtTheEnd` |
| `CachedTypes` | `CachedSpec => []CachedTypeOK` |
| `CacheHoldsTheSources` | `CachedSpec => []ChunksAreTheSources` |
| `HandlesWithinSources` | `CachedSpec => []NoneBeyondEnd` |
| `FetchesWithinSources` | `CachedSpec => []RangesAreWithin` |
| `ReadsForgetNothing` | `CachedSpec => []NothingForgotten` |
| `ReadsAreACursors` | `CachedSpec => IsACursor` |
| `OneHeader` | `HeadersSpec => []SameHeader` |
| `TablesHoldTheDisk` | `HeadersSpec => []TablesCover` |
| `OnlyWrapsGetBy` | `HeadersSpec => []OnlyWrapsPass` |
| `TextIsWhole` | `DescriptorsSpec => []TextWhole` |
| `NoDescriptorIsRead` | `DescriptorsSpec => []TurnedDownAtOnce` |
| `ExtentsAreKept` | `DescriptorsSpec => []NoExtentLost` |
| `RefusalsHaveACause` | `DescriptorsSpec => []RefusedForCause` |
| `ImagesAreReadRight` | `FormatsSpec =>` the seven properties before this |
| `NothingLeaks` | `CApiSpec => []Owned` |
| `ErrorsTell` | `CApiSpec => []ErrorTells` |
| `ZeroEndsTheLoop` | `CApiSpec => []ZeroIsTheEnd` |
| `HashesAreWhole` | `ToolSpec => []WholeImagesPrinted` |

**Spans.** `Disjoint` alone is not inductive: in the middle of a call it holds
only because the cursor is within the interval of the call. `IInv` is
`TypeOK /\ Disjoint /\ Cursor`. One lemma, `FillGap`, says what filling a gap
does to disjointness and to the owner of each sector; the merges are cases of it.
For `uncovered`, `RInv` adds that its intervals are disjoint and not empty and where
the cursor of `remove_span` is. `CInv` adds `Agree`, the form that complementarity
has in the middle of a call: while a piece is inserted the sectors behind the
cursor are in both maps, and while it is removed those ahead of it still are. The
refinement follows from the lemmas of the steps, which say what each step does
to the owner of each sector. For `Canonical`, `KInv` adds to `IInv` that no span is
empty: without it the search at the cursor might find an empty span there instead of
the one that ends there, and not merge with that.

**Reader.** `Counted` is enough for `SourcesStay`: the sources that are there are those
that `idx` has counted, and, in the middle of an image, one for each extent that is
still in the queue. The others need `ReaderInv`, which adds:

* `OpenInv`, about the maps of `open`: they are as `SpansProofs` has them, whose lemmas
  are cited through the same INSTANCE as the actions; each sector of the image has a
  span or is in `uncovered` (`Covered`); what a call has swept has a span (`Swept`); and
  the gap that is being filled with zeros is the first one that is left (`Filling`).
  `Complement` itself is of no use here: an extent of no sectors may break it, and
  `Covered`, its weaker half, is all that the end of `open` needs.
* `LabelsInv`: the extent that a span names has every sector of the span (`Carries`),
  in the middle of an extent too, whose index is one that `extents` does not have yet.
* `VecInv`: from there on, the vector of spans is in order and has one for each
  offset (`Tiles`), from which `SpansTile` follows.
* `ReadInv`: in each turn of the loop of a read, `i` is the index of the span that has
  the offset. With `LabelsInv` the grain of the offset is then in the table.

`OnlyNeededOpened` adds `NeededInv` to that, which ties the maps to the chain of `DeltaDisk`
while `open` goes along it. `AtImage(n)`: the current image is the n-th of the chain; a
sector that one of the first n images has (`Has`) has a span, or is in an extent
that still waits to be inserted (`Pending`). `LeftInv`: what is in `uncovered`, whose
intervals are disjoint and not empty, is in the disk and has no span, but for what
`remove_span` is about to take out (`Unsettled`). When `open` goes on to the parent, a
sector in `uncovered` is thus one that no image so far has. What an image has is
in two places, the tables of its files (`ByteOf`) and the spans made of them;
`ImageHas` says that they agree, by way of `SparseTableIs` and `SeSparseTableIs`, which
look up one grain in what the table readers have collected. The recursive functions of
`DeltaDisk` are shown to have the values that their definitions give
(`ChainIs`, `NeededIs`).

`ReaderReadsTheDisk` is the refinement, and has three parts.

* What one image gives. `ExtentHasByte`: its extent has the sectors of the bytes that
  `ByteOf` says it has. `StorageGives`: a read of its storage, from an offset in one of
  these sectors, gives some of the bytes that `ByteOf` says come there, at least one,
  or fails because one of those is beyond the end of its file or in a grain that cannot
  be inflated (`Gives`, `Lost`). Each
  kind of storage is a lemma of its own; for a sparse one the grain that
  `SparseStorage::read` divides by and the two levels of tables of `DeltaDisk` have to
  lead to the same entry, and `InflatesIs` says that `Storage` and `DeltaDisk` agree on
  the grains that can be had. `ImageReads`, with `SparseTableOk` and `SeTableOk` for the
  tables, says that `handle_image` fails exactly for the images that are not `Usable`.
* Which image a span is of. `SearchedInv`, while `open` goes along the chain: the m-th
  extent is that of the m-th image, and its source is the file of its data
  (`IsExtent`); a sector that an image so far has is taken, and by an image such that
  none before it has the sector. That is what "the first claim wins" of `Spans` comes
  to for a chain. `FoundInv`, from there on: there is an image, the last that is needed,
  such that a span is of one up to it, with that property, or is filled with zeros and
  of sectors that no image has (`Nowhere`), either because no parent is left or
  because nothing was left to fill. `SameOwners`: the spans in bytes are those in sectors.
* What a read has so far. `ReadSoFar`: the bytes in the buffer are those that `Content`
  gives from the offset of the request on, and none of them is `Missing`.
  `PieceGives` joins the other two parts: what the storage of the span gives next are
  the next bytes of `Content`.

`FullInv` is all of that, and each action is then shown to be a step of `DeltaDisk` or to
leave its variables alone: an image that fails to open is one that is needed and not
usable (`ImageStep`); an opened disk has looked at all that are needed (`OpenedStep`); a
read that fails lacks a byte or had a source that failed (`ReadStepOfDisk`), and one
that returns has all of them (`ReturnStep`). That neither `open` nor a read panics is
part of it.

**Table readers.** `PlaceInv` says where the loop is: `cur_sector` is as many
sectors on as the level-1 entries so far stand for, or at the end. `TableInv` says
that the table is right as far as that. Neither is of use without the other: the
index of a grain is made from the one and looked up by the other. `LeftInv` says why
the loop was left. `BuiltInv`, for `BuildsTheTable`, adds that the level-1 table is there
in full from the start of the loop on, that no entry behind the loop was bad, and that a
reader failed for the level-1 table or at an entry that is bad. The rest of that proof is about
`GrainTables`, which has all level-2 tables in one function: its cursor is the loop's
(`CursorAt`), and its places in the table are those of the loop, each once.

**Inflation.** `InflateInv`: between two calls of the decoder the buffer has the first
`c` bytes of the stream and zeros.

**Cache.** `CacheInv` has four parts. `SourcesInv`: the sources are finite in
number, so a new one gets an index that is not in use. `HandlesInv`: a handle
that was made is within its source. `ReadInv`: the read under way fits between
its position and the end; without it `Complete` could move the handle too far.
`ChunksInv`: all keys, cached or being fetched, are within a source that
is there; every chunk is the chunk of its key. Without the part on `fetching` the
second half would not be inductive, since a fetch may end long after the read
that started it. `ReadsForgetNothing` adds to it that every chunk a read lacks is
being fetched. For `IsACursor` each step is shown to be one of `SourceCursors` or to
leave its variables alone; the one that takes work is `Complete`, where the copy loop,
a recursive function over the chunks, is shown to end with the bytes of the file from
the position on.

**Headers.** `HeadersInv`: whoever has settled on a header has settled on the one that
`HeaderOf` gives, a function of the file alone; a result is made from it. The rest is
arithmetic of `DivCeil`, and that what is accepted was compared with the limit.

**Descriptors.** `TextInv` says what `line` and `desc` are of the text before `pos`
while it is read; once it is parsed, it is `TextWhole`. `LinesInv` says that `eds` are
the descriptions of the extents in the lines before `at`. Both speak of `Gathered`,
which filters a text piece by piece; its lemmas (what is gathered is from the text, in
order, and nothing is missing) are proved along the text. `PartsOfAnImage` says that
`FormatsSpec` implies `HeadersSpec` and `DescriptorsSpec`, of which these theorems are,
so that they hold of the two composed.

**C interface.** `OwnInv` says which addresses each handle and the error have, that no
two of them share one, and that nothing else is used: that a function may free what it
frees needs the objects to be of their kinds, and that it leaves no rest needs them to
be all. An opening needs three free addresses, which is where the number of
them comes in. `ErrorInv` and `CountInv` add what the caller was told, and that a handle
is of a disk that opened.

**Hash tool.** `ToolInv`: what is printed is the whole of the images before, and
`hashed` is the first `offset` bytes of the one that is read. A buffer that is
answered is the next piece of it (`Filled`), by the definition of `DeltaDisk`.

**Recursive functions.** The prover cannot use an induction theorem that takes an
operator. `NatLemmas` therefore has induction over an interval for a *set* of indices
(`IntervalInduction`), and the existence of a function that is given by its first value
and a step (`Recursion`), both proved from the theorems on natural numbers and
functions of the library. A recursive function of the models is then shown to be the
one that `Recursion` gives.

What trying to prove these has changed:

* `BuildsTheTable` did not hold: `SeL2` of `GrainTables` took an empty level-2 table
  for one that was read, where the loop fails. No table of the run was
  empty; some are now.
* `TextWhole` and `NoExtentLost` did not hold for texts in which nothing separates two
  bodies, which the run had and no file can have: they would be one line.
  `ImagesAssumption` leaves them out, and so do the texts of the run.
* An invariant on registered grains was replaced by `ReadsDoNotPanic`, which it was
  there for, and the limits of the spans by `Places`, so that `VmdkReader`
  may take any natural number for a sector.

Only model-checked:

* Liveness under fairness (`CallsReturn`, `OpenReturns`, `ReadReturns`,
  `CachedReadReturns`, `DescriptorRead`, `InflateEnds`, `ToolEnds`): no backend of the
  prover treats ENABLED.

`ReadsTheDisk` of disks that are not `WholeDisk`, as far as it holds, is only model-checked
too: the two disks without extents of the run `reader`.

## 5. Where the code and its documentation disagree

With a run:

1. `flat_parts`. The README of the repository lists `2GbMaxExtentFlat`
   (README.md:18). A flat image in more than one file is read wrong:
   `storage.rs:184` subtracts where the data start in the file from the position
   in the image, and not where the extent starts in the image.
2. `sparse_parts`. Likewise `2GbMaxExtentSparse` (README.md:19): the grains of the
   second file are numbered from its start sector (`extents.rs:80`), moved by it
   once more (`extents.rs:45`), and looked up by the position in the image
   (`storage.rs:134`); the three agree for an extent at sector 0 only. The
   test images of the two layouts have one file each.
3. `blank_file`. At the end of a file `read_line` leaves an empty line, which
   `descriptor.rs:47` takes for a blank one: a file of blank lines only is read for
   ever, where `descriptor.rs:35` wants to stop as soon as it is known not to be a
   descriptor. The file has 8 bytes or more: a shorter one is refused before that, when
   the signature is read (`header.rs:341`).
4. `grain_too_large`. `storage.rs:77` and the comment on the error at `storage.rs:113`
   say that a compressed grain must not inflate to more than its size. With the buffer
   full the decoder is given an empty slice and returns 0, and the loop breaks before
   the test (`storage.rs:108`, `112`): the grain is cut off and accepted.

The first two check `ReadsTheDisk`, which `reader` passes, the third
`DescriptorRead`, which `image_formats` passes, and the fourth `TooLargeIsRefused`, where
`WholeGrain` of `grain_inflate` says what is so of the grains that are not too large.

Without a run of their own, as cases that a property which holds leaves out or states:

5. VMFSRAW and VMFSRDM extents are listed as supported (README.md:89, 90);
   `extent_description.rs:194` panics on them. `VmdkReader` panics likewise; the disks
   of `reader` have none.
6. The limits of 2TB and 64TB are checked on products that wrap (`header.rs:245`), and
   `div_ceil` divides by one that may have wrapped to zero. `OnlyWrapsPass` says that
   this is the only way past the checks.
7. An embedded descriptor without a zero byte loses its last byte, and `len - 1`
   panics when there is nothing at all (`descriptor.rs:26`). `TextWhole` says that no
   more than that is lost.
8. A line `RW 8 ZERO` is refused, since the space before the optional file name is
   not optional (`extent_description.rs:96`). `RefusedForCause` lists it as a cause.
9. A compressed grain that ends less than two bytes before the end of its file cannot be
   read (`storage.rs:100`). `LostOnlyAtTheEnd` says that no other sound grain is lost, and
   `DeltaDisk` has it in `Inflatable`.

## 6. What is not modelled

* An extent of no sectors in a descriptor, in the runs. With `MinLen = 0` `Complement`
  does not hold, which no run shows: an empty removal splits an interval in two that touch,
  and the next search skips the second. What is lost is an early end to the chain, not data.
* Characters. A line of a descriptor is its fields, and a field that cannot be parsed is
  one value; which strings those are is not said. Flags and versions that are refused
  for SESPARSE are one flag, `plain`.
* A granularity of 0, or too few tables, in a COWD header, which nothing refuses
  (`header.rs:197`, `199`): `Headers` accepts them as the code does; the disks of
  `reader` have neither. That the signature of the second header is not looked at
  (`header.rs:368`) is in `Headers`, but no property is about it.
* A VMDK4 header without a descriptor (`desc_offset` of 0, `vmdk_reader.rs:180`), in
  `ImageFormats`: the text is empty then, and the image has no extents. The disks of
  `reader` have such an image.
* The decoder of zlib streams, and whether what it gives is what went in. `HybridCache`,
  the runtime and the S3 client are external too, and modelled from how they are used.
* Read-ahead. `open` passes 0; the iterator that would ask for it is lazy and
  is dropped unused.
* A file that changes while it is open; an answer of S3 that is shorter than the range
  asked for; a poisoned mutex; the arithmetic checks of a debug build.
* A chain of parents that leads back into itself, which `open` follows for ever.
* One handle used by two threads (`capi.rs:156`), and a C caller that uses a handle
  after closing it or passes an `err` that it has not freed. That the message of an
  error, made as a `CString`, is freed as a `Box<c_char>` (`capi.rs:22`) is a matter of
  allocators, not of ownership; in `CApi` it is freed.
* `DummyCache` and `PlaceholderSource`, which nothing in `open` uses in the end
  (`vmdk_reader.rs:233`), and the conversions of `errors.rs`; the tests and their data.

## 7. Plan

Written so far, in this order: `SpanOwners`, `Spans`, `SpansProofs`; `GrainTables`,
`Storage`, `DeltaDisk`, `VmdkReader`; `GrainLoops`; `SourceCursors`,
`CachedSources`, `CachedSourcesProofs`; `Headers`, `Descriptors`, `GrainInflate`,
`CApi`, `HashTool`; `NatLemmas`, `VmdkReaderProofs`, `GrainProofs`, `FormatProofs`,
`CApiProofs`, `HashToolProofs`; `ImageFormats`.

Every safety property and refinement that a passing run checks has a theorem now. What
is left would be models of what section 6 leaves out: first the answer of S3 that is
shorter than its range, and two threads with one handle.
