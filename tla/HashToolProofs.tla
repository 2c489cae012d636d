---------------------------- MODULE HashToolProofs ----------------------------
(***************************************************************************)
(* Proofs about the hash tool, for images of every size and any buffer.    *)
(***************************************************************************)
EXTENDS HashTool, NatLemmas, SequenceTheorems

-----------------------------------------------------------------------------
(***************************************************************************)
(* The size of an image that opens.                                        *)
(***************************************************************************)
LEMMA StartsAreNat ==
  ASSUME NEW eds, eds \in Seq({eds[j] : j \in DOMAIN eds}),
         \A j \in DOMAIN eds : eds[j].sectors \in Nat
  PROVE  Start(eds, Len(eds) + 1) \in Nat
<1> DEFINE n == Len(eds)
           Rec(f) == f = [k \in 1 .. Len(eds) + 1 |->
                            IF k = 1 THEN 0 ELSE f[k - 1] + eds[k - 1].sectors]
           step == [j \in Nat |-> [x \in Nat |->
                      IF j - 1 \in 1 .. n THEN x + eds[j - 1].sectors ELSE x]]
           sum == CHOOSE f : Rec(f)
<1>1. n \in Nat /\ DOMAIN eds = 1 .. n
  OBVIOUS
<1>2. step \in [Nat -> [Nat -> Nat]]
  BY <1>1
<1>3. 1 \in Nat /\ n + 1 \in Nat /\ 1 <= n + 1 /\ 0 \in Nat
  BY <1>1
<1> HIDE DEF step, n
<1>4. PICK f \in [1 .. n + 1 -> Nat] :
        f[1] = 0 /\ \A j \in 1 + 1 .. n + 1 : f[j] = step[j][f[j - 1]]
  <2>1. RecursionExists(Nat, 0, step, 1, n + 1)
    BY <1>2, <1>3, Recursion
  <2> QED
    BY <2>1 DEF RecursionExists
<1>5. ASSUME NEW j \in 1 .. n + 1
      PROVE  f[j] = IF j = 1 THEN 0 ELSE f[j - 1] + eds[j - 1].sectors
  <2>1. CASE j = 1
    BY <1>4, <2>1
  <2>2. CASE j # 1
    <3>1. j \in 1 + 1 .. n + 1 /\ j \in Nat /\ j - 1 \in 1 .. n /\ j - 1 \in 1 .. n + 1
      BY <1>1, <1>5, <2>2
    <3>2. f[j - 1] \in Nat
      BY <1>4, <3>1
    <3>3. step[j][f[j - 1]] = f[j - 1] + eds[j - 1].sectors
      BY <3>1, <3>2 DEF step
    <3> QED
      BY <1>4, <2>2, <3>1, <3>3
  <2> QED
    BY <2>1, <2>2
<1>6. f = [j \in 1 .. n + 1 |-> f[j]]
  BY <1>4
<1>7. Rec(f)
  BY <1>5, <1>6 DEF n
<1>8. Rec(sum)
  <2> HIDE DEF Rec
  <2> QED
    BY <1>7
<1>9. Start(eds, n + 1) = sum[n + 1]
  BY DEF Start, n
<1> DEFINE T == {j \in 1 .. n + 1 : sum[j] \in Nat}
<1> HIDE DEF sum
<1>10. sum = [k \in 1 .. n + 1 |-> IF k = 1 THEN 0 ELSE sum[k - 1] + eds[k - 1].sectors]
  BY <1>8 DEF n
<1>11. 1 \in T
  BY <1>3, <1>10
<1>12. ASSUME NEW j \in 1 + 1 .. n + 1, j - 1 \in T
       PROVE  j \in T
  <2>1. j \in 1 .. n + 1 /\ j # 1 /\ j - 1 \in DOMAIN eds
    BY <1>1
  <2>2. sum[j] = sum[j - 1] + eds[j - 1].sectors
    BY <1>10, <2>1
  <2> QED
    BY <1>12, <2>1, <2>2
<1> HIDE DEF T
<1>13. \A j \in 1 .. n + 1 : j \in T
  BY <1>3, <1>11, <1>12, IntervalInduction
<1> QED
  BY <1>3, <1>9, <1>13 DEF T, n

\* Only a disk whose first image is there opens.
LEMMA OpensOnlyUsable ==
  ASSUME Opens
  PROVE  disk.top \in DOMAIN disk.files
<1> DEFINE N == MaxDepth
           chain == Chain
           needed == Needed
<1>1. N \in Nat /\ 1 \in Nat /\ 1 <= N /\ 1 \in 1 .. N
  BY CommandLinesAssumption
<1>2. chain[1] = disk.top
  <2> DEFINE S == {disk.top, ""} \cup {disk.files[f].desc.parent : f \in DOMAIN disk.files}
             Parent(x) == IF x \in DOMAIN disk.files THEN disk.files[x].desc.parent ELSE ""
             step == [j \in Nat |-> [x \in S |-> Parent(x)]]
             Rec(f) == f = [n \in 1 .. N |->
                              IF n = 1 THEN disk.top
                              ELSE IF f[n - 1] \in DOMAIN disk.files
                                THEN disk.files[f[n - 1]].desc.parent
                              ELSE ""]
  <2>1. chain = CHOOSE f : Rec(f)
    BY DEF Chain, Depth, NoParent
  <2>2. disk.top \in S /\ \A x \in S : Parent(x) \in S
    OBVIOUS
  <2>3. step \in [Nat -> [S -> S]] /\ \A j \in Nat : \A x \in S : step[j][x] = Parent(x)
    <3> HIDE DEF S, Parent
    <3> QED
      BY <2>2
  <2> HIDE DEF step, S, N, chain
  <2>4. PICK f \in [1 .. N -> S] :
          f[1] = disk.top /\ \A j \in 1 + 1 .. N : f[j] = step[j][f[j - 1]]
    <3>1. RecursionExists(S, disk.top, step, 1, N)
      BY <1>1, <2>2, <2>3, Recursion
    <3> QED
      BY <3>1 DEF RecursionExists
  <2>5. ASSUME NEW j \in 1 .. N
        PROVE  f[j] = IF j = 1 THEN disk.top ELSE Parent(f[j - 1])
    <3> HIDE DEF Parent
    <3>1. CASE j = 1
      BY <2>4, <3>1
    <3>2. CASE j # 1
      <4>1. j \in 1 + 1 .. N /\ j \in Nat /\ j - 1 \in 1 .. N
        BY <1>1, <2>5, <3>2
      <4>2. f[j - 1] \in S
        BY <2>4, <4>1
      <4> QED
        BY <2>3, <2>4, <3>2, <4>1, <4>2
    <3> QED
      BY <3>1, <3>2
  <2>6. f = [j \in 1 .. N |-> f[j]]
    BY <2>4
  <2>7. Rec(f)
    BY <2>5, <2>6
  <2> HIDE DEF Rec
  <2>8. Rec(chain)
    BY <2>1, <2>7
  <2> QED
    BY <1>1, <2>8 DEF Rec
<1>3. needed[1]
  <2> DEFINE P(n) == /\ chain[n] # ""
                     /\ \E o \in Offset : \A m \in 1 .. n - 1 :
                          ByteOf(chain[m], o) = Absent
             Rec(f) == f = [n \in 1 .. N |->
                 \/ n = 1
                 \/ /\ f[n - 1]
                    /\ chain[n] # ""
                    /\ \E o \in Offset : \A m \in 1 .. n - 1 :
                         ByteOf(chain[m], o) = Absent]
             f == [n \in 1 .. N |-> \A k \in 2 .. n : P(k)]
  <2>1. needed = CHOOSE g : Rec(g)
    BY DEF Needed, Depth, NoParent
  <2>2. ASSUME NEW n \in 1 .. N
        PROVE  f[n] = (n = 1 \/ (f[n - 1] /\ P(n)))
    <3> HIDE DEF P
    <3>1. CASE n = 1
      <4>1. 2 .. n = {}
        BY <3>1
      <4> QED
        BY <3>1, <4>1
    <3>2. CASE n # 1
      <4>1. n - 1 \in 1 .. N /\ 2 .. n = (2 .. n - 1) \cup {n} /\ N \in Nat
        BY <1>1, <2>2, <3>2
      <4>2. f[n] = (\A k \in 2 .. n : P(k)) /\ f[n - 1] = (\A k \in 2 .. n - 1 : P(k))
        BY <2>2, <4>1
      <4> HIDE DEF f
      <4> QED
        BY <3>2, <4>1, <4>2
    <3> QED
      BY <3>1, <3>2
  <2>3. f = [n \in 1 .. N |-> f[n]]
    OBVIOUS
  <2> HIDE DEF f
  <2>4. Rec(f)
    BY <2>2, <2>3
  <2> HIDE DEF Rec, needed
  <2>5. Rec(needed)
    BY <2>1, <2>4
  <2> HIDE DEF N
  <2> QED
    BY <1>1, <2>5 DEF Rec
<1>4. needed[1] => disk.top \in DOMAIN disk.files
  <2> DEFINE Q(n) == Usable(chain[n])
                       /\ Sectors(chain[n]) = Sectors(disk.top)
             Rec(f) == f = [n \in 1 .. N |->
                 /\ n > 1 => f[n - 1]
                 /\ needed[n] => Q(n)]
             f == [n \in 1 .. N |-> \A k \in 1 .. n : needed[k] => Q(k)]
             ok == CHOOSE g : Rec(g)
  <2>1. \A n \in 1 .. N : ok[n]
    BY DEF Opens, Depth
  <2>2. ASSUME NEW n \in 1 .. N
        PROVE  f[n] = ((n > 1 => f[n - 1]) /\ (needed[n] => Q(n)))
    <3> HIDE DEF Q, needed
    <3>1. CASE n = 1
      <4>1. 1 .. n = {1} /\ ~(n > 1)
        BY <3>1
      <4>2. f[n] = (\A k \in 1 .. n : needed[k] => Q(k))
        BY <2>2
      <4> HIDE DEF f
      <4> QED
        BY <3>1, <4>1, <4>2
    <3>2. CASE n # 1
      <4>1. n - 1 \in 1 .. N /\ 1 .. n = (1 .. n - 1) \cup {n} /\ n > 1
        BY <1>1, <2>2, <3>2
      <4>2. /\ f[n] = (\A k \in 1 .. n : needed[k] => Q(k))
            /\ f[n - 1] = (\A k \in 1 .. n - 1 : needed[k] => Q(k))
        BY <2>2, <4>1
      <4> HIDE DEF f
      <4> QED
        BY <4>1, <4>2
    <3> QED
      BY <3>1, <3>2
  <2>3. f = [n \in 1 .. N |-> f[n]]
    OBVIOUS
  <2> HIDE DEF f
  <2>4. Rec(f)
    BY <2>2, <2>3
  <2> HIDE DEF Rec, needed
  <2>5. Rec(ok)
    BY <2>4
  <2> HIDE DEF N, ok, Q
  <2>6. needed[1] => Q(1)
    BY <1>1, <2>1, <2>5 DEF Rec
  <2> QED
    BY <1>2, <2>6 DEF Q, Usable
<1> QED
  BY <1>3, <1>4

\* The size of a disk that opens.
LEMMA SizeIsNat ==
  ASSUME disk \in Given, Opens
  PROVE  Size \in Nat
<1> DEFINE eds == disk.files[disk.top].desc.eds
<1>1. disk.top \in DOMAIN disk.files
  BY OpensOnlyUsable
<1>2. eds \in Seq({eds[j] : j \in DOMAIN eds}) /\ \A j \in DOMAIN eds : eds[j].sectors \in Nat
  BY <1>1, CommandLinesAssumption
<1> HIDE DEF eds
<1>3. Start(eds, Len(eds) + 1) \in Nat
  BY <1>2, StartsAreNat
<1>4. Size = Start(eds, Len(eds) + 1) * SectorSize
  BY DEF Size, Sectors, Eds, eds
<1> QED
  BY <1>3, <1>4, CommandLinesAssumption

-----------------------------------------------------------------------------
(***************************************************************************)
(* The disk that is open, and the image that it is.                        *)
(***************************************************************************)
SizeOf(d) == Of(d)!Size
ByteAt(d, o) == Of(d)!Content(o)

LEMMA SameBytes ==
  ASSUME NEW img, NEW o
  PROVE  Of(disk)!ByteOf(img, o) = ByteOf(img, o)
BY Zenon DEF Of!ByteOf, Of!Eds, Of!Start, Of!FileOf, Of!FlatKinds, Of!SparseKinds,
     Of!SparseByte, Of!SeSparseByte, Of!Entry, Of!SeEntry, Of!Absent, Of!ZeroByte,
     ByteOf, Eds, Start, FileOf, FlatKinds, SparseKinds, SparseByte, SeSparseByte,
     Entry, SeEntry, Absent, ZeroByte

LEMMA SameContent ==
  ASSUME NEW o
  PROVE  Of(disk)!Content(o) = Content(o)
<1> DEFINE Nearest(chain, byte(_), from) ==
             [n \in 1 .. MaxDepth + 1 |->
                IF n \notin Depth THEN ZeroByte
                ELSE IF chain[n] = NoParent THEN ZeroByte
                ELSE IF byte(chain[n]) # Absent THEN byte(chain[n])
                ELSE from[n + 1]]
           mine(img) == ByteOf(img, o)
           its(img) == Of(disk)!ByteOf(img, o)
           c == Chain
           e == Of(disk)!Chain
<1>1. Content(o) = (CHOOSE f : f = Nearest(c, mine, f))[1]
  BY DEF Content
<1>2. Of(disk)!Content(o) = (CHOOSE f : f = Nearest(e, its, f))[1]
  BY DEF Of!Content, Of!Depth, Of!ZeroByte, Of!Absent, Of!NoParent,
     Depth, ZeroByte, Absent, NoParent
<1>3. \A img : its(img) = mine(img)
  BY SameBytes
<1>4. c = e
  BY DEF Of!Chain, Of!Depth, Of!NoParent, Chain, Depth, NoParent
<1> HIDE DEF mine, its, c, e
<1>5. \A f : Nearest(c, mine, f) = Nearest(e, its, f)
  BY <1>3, <1>4
<1> HIDE DEF Nearest
<1>6. (CHOOSE f : f = Nearest(c, mine, f)) = (CHOOSE f : f = Nearest(e, its, f))
  BY <1>5
<1> QED
  BY <1>1, <1>2, <1>6

LEMMA DiskIsOf ==
  ASSUME NEW d, disk = d
  PROVE  /\ Size = SizeOf(d)
         /\ \A o : Content(o) = ByteAt(d, o)
<1>1. Of(disk)!Size = Size
  BY DEF Of!Size, Of!Sectors, Of!Start, Of!Eds, Size, Sectors, Start, Eds
<1> QED
  BY <1>1, SameContent DEF SizeOf, ByteAt

-----------------------------------------------------------------------------
(***************************************************************************)
(* The invariant.                                                          *)
(***************************************************************************)
Prefix(d, n) == [o \in 1 .. n |-> ByteAt(d, o - 1)]

Whole(d) == Prefix(d, SizeOf(d))

\* a buffer that has been filled is not empty, and stays within the image
Filled ==
  \E n \in Nat \ {0} :
    /\ offset + n <= SizeOf(disk)
    /\ ans.bytes = [k \in 1 .. n |-> ByteAt(disk, offset + k - 1)]

\* the hash so far is that of the bytes before the offset
Halfway ==
  /\ phase = "opening" => offset = 0 /\ hashed = <<>> /\ ~leave
  /\ phase \in {"ready", "read", "answered"} =>
       /\ SizeOf(disk) \in Nat /\ offset \in 0 .. SizeOf(disk)
       /\ hashed = Prefix(disk, offset) /\ ~leave
  /\ phase = "read" => offset < SizeOf(disk) /\ req.off = offset /\ req.len = BufLen
  /\ phase = "answered" /\ ans.outcome = "bytes" => Filled

ToolInv ==
  /\ args \in CommandLines
  /\ Len(printed) \in 0 .. Len(args)
  /\ printed \in Seq({Whole(args[k]) : k \in DOMAIN args})
  /\ \A k \in 1 .. Len(printed) : printed[k] = Whole(args[k])
  /\ exit = "success" => Len(printed) = Len(args)
  /\ Len(printed) < Len(args) => disk = args[Len(printed) + 1] /\ Halfway

LEMMA ArgsAreASequence ==
  ASSUME ToolInv
  PROVE  /\ args \in Seq({args[k] : k \in DOMAIN args})
         /\ Len(args) \in Nat /\ DOMAIN args = 1 .. Len(args)
         /\ Len(printed) \in Nat /\ DOMAIN printed = 1 .. Len(printed)
         /\ \A k \in 1 .. Len(args) : args[k] \in Given
<1>1. args \in CommandLines /\ args \in Seq({args[k] : k \in DOMAIN args})
  BY CommandLinesAssumption DEF ToolInv
<1>2. Len(args) \in Nat /\ DOMAIN args = 1 .. Len(args)
  BY <1>1
<1>3. Len(printed) \in Nat /\ DOMAIN printed = 1 .. Len(printed)
  BY DEF ToolInv
<1>4. \A k \in 1 .. Len(args) : args[k] \in Given
  BY <1>1, <1>2 DEF Given
<1> QED
  BY <1>1, <1>2, <1>3, <1>4

LEMMA ToolInvBegins == ToolInit => ToolInv
<1> SUFFICES ASSUME ToolInit
             PROVE  ToolInv
  OBVIOUS
<1>1. args \in CommandLines /\ args \in Seq({args[k] : k \in DOMAIN args})
  BY CommandLinesAssumption DEF ToolInit
<1>2. Len(args) \in Nat /\ Len(<<>>) = 0
  BY <1>1
<1>3. printed = <<>> /\ printed \in Seq({Whole(args[k]) : k \in DOMAIN args})
  BY DEF ToolInit
<1>4. 0 < Len(args) => disk = args[0 + 1]
  BY <1>1, <1>2 DEF ToolInit
<1>5. Halfway
  BY DEF ToolInit, Halfway
<1> QED
  BY <1>1, <1>2, <1>3, <1>4, <1>5 DEF ToolInit, ToolInv

\* A step that leaves the command line and what is printed as it was.
LEMMA PrintedStays ==
  ASSUME ToolInv, args' = args, printed' = printed, disk' = disk,
         exit' = "success" => Len(printed) = Len(args),
         Len(printed) < Len(args) => Halfway'
  PROVE  ToolInv'
<1>1. \A d : Whole(d)' = Whole(d)
  BY DEF Whole, Prefix
<1> QED
  BY DEF ToolInv, Whole, Prefix

LEMMA OpenKeeps ==
  ASSUME ToolInv, OpenNext
  PROVE  ToolInv'
<1>1. /\ Len(printed) < Len(args) /\ disk = args[Len(printed) + 1] /\ Halfway
      /\ args' = args /\ printed' = printed /\ disk' = disk /\ exit' = exit
      /\ offset' = offset /\ hashed' = hashed /\ leave' = leave
      /\ phase = "opening" /\ phase' \in {"ready", "failed"}
      /\ phase' = "ready" => Opens
  BY DEF OpenNext, Open, Working, toolVars, ToolInv
<1>2. offset = 0 /\ hashed = <<>> /\ ~leave
  BY <1>1 DEF Halfway
<1>3. phase' = "ready" => SizeOf(disk) \in Nat
  <2>1. disk \in Given
    BY <1>1, ArgsAreASequence
  <2>2. Opens => Size \in Nat
    BY <2>1, SizeIsNat
  <2> QED
    BY <1>1, <2>2, DiskIsOf
<1>4. Prefix(disk, 0) = <<>>
  BY DEF Prefix
<1>5. Halfway'
  BY <1>1, <1>2, <1>3, <1>4 DEF Halfway
<1> QED
  BY <1>1, <1>5, PrintedStays DEF ToolInv

LEMMA ReadKeeps ==
  ASSUME ToolInv, ReadTurn
  PROVE  ToolInv'
<1>1. /\ Len(printed) < Len(args) /\ Halfway
      /\ args' = args /\ printed' = printed /\ disk' = disk /\ exit' = exit
      /\ offset' = offset /\ hashed' = hashed /\ leave' = leave
      /\ phase = "ready" /\ phase' = "read" /\ offset < Size
      /\ req'.off = offset /\ req'.len = BufLen
  BY DEF ReadTurn, InLoop, Call, Working, toolVars, ToolInv
<1>2. Size = SizeOf(disk)
  BY DiskIsOf
<1>3. Halfway'
  BY <1>1, <1>2 DEF Halfway
<1> QED
  BY <1>1, <1>3, PrintedStays DEF ToolInv

\* What a call returns is not empty, and no more than is left.
LEMMA ReplyFills ==
  ASSUME ToolInv, Len(printed) < Len(args), Reply, offset' = offset
  PROVE  Filled'
<1> DEFINE end == IF req.off + req.len > Size THEN Size ELSE req.off + req.len
           n == end - offset
<1>1. /\ SizeOf(disk) \in Nat /\ offset \in Nat /\ offset < SizeOf(disk)
      /\ req.off = offset /\ req.len = BufLen
  BY DEF Reply, ToolInv, Halfway
<1>2. Size = SizeOf(disk) /\ \A o : Content(o) = ByteAt(disk, o)
  BY DiskIsOf
<1>3. n \in Nat \ {0} /\ end \in Nat /\ offset + n <= SizeOf(disk)
  BY <1>1, <1>2, CommandLinesAssumption
<1>4. Asked = offset .. end - 1
  BY <1>1 DEF Asked
<1>5. Cardinality(Asked) = n
  <2> HIDE DEF end
  <2>1. PICK lo \in Int, hi \in Int : lo = offset /\ hi = end - 1
    BY <1>1, <1>3
  <2>2. Cardinality(lo .. hi) = IF lo > hi THEN 0 ELSE hi - lo + 1
    BY FS_Interval
  <2> QED
    BY <1>1, <1>3, <1>4, <2>1, <2>2
<1> HIDE DEF n
<1>6. ans'.bytes = [k \in 1 .. n |-> ByteAt(disk, offset + k - 1)]
  BY <1>1, <1>2, <1>5 DEF Reply
<1> QED
  BY <1>3, <1>6 DEF Filled, Reply

LEMMA AnswerKeeps ==
  ASSUME ToolInv, Answer
  PROVE  ToolInv'
<1>1. /\ Len(printed) < Len(args) /\ Halfway
      /\ args' = args /\ printed' = printed /\ disk' = disk /\ exit' = exit
      /\ offset' = offset /\ hashed' = hashed /\ leave' = leave
      /\ phase = "read" /\ phase' = "answered"
  BY DEF Answer, Reply, Fail, Working, toolVars, ToolInv
<1>2. ans'.outcome = "bytes" => Filled'
  <2>1. CASE Reply
    BY <1>1, <2>1, ReplyFills
  <2>2. CASE Fail
    BY <2>2 DEF Fail
  <2> QED
    BY <2>1, <2>2 DEF Answer
<1>3. Halfway'
  BY <1>1, <1>2 DEF Halfway
<1> QED
  BY <1>1, <1>3, PrintedStays DEF ToolInv

\* A sequence that is given by its elements, and two of them joined.
LEMMA Elements ==
  ASSUME NEW S, NEW n \in Nat, NEW f \in [1 .. n -> S]
  PROVE  f \in Seq(S) /\ Len(f) = n
OBVIOUS

LEMMA Joined ==
  ASSUME NEW S, NEW s \in Seq(S), NEW t \in Seq(S)
  PROVE  s \o t = [k \in 1 .. Len(s) + Len(t) |->
                     IF k <= Len(s) THEN s[k] ELSE t[k - Len(s)]]
<1>1. s \o t \in Seq(S) /\ Len(s \o t) = Len(s) + Len(t)
  BY ConcatProperties
<1>2. s \o t = [k \in 1 .. Len(s) + Len(t) |-> (s \o t)[k]]
  BY <1>1, LenProperties
<1>3. \A k \in 1 .. Len(s) + Len(t) :
        (s \o t)[k] = IF k <= Len(s) THEN s[k] ELSE t[k - Len(s)]
  BY ConcatProperties
<1> QED
  BY <1>2, <1>3

LEMMA TakeKeeps ==
  ASSUME ToolInv, TakeBytes
  PROVE  ToolInv'
<1>1. /\ Len(printed) < Len(args) /\ Halfway
      /\ args' = args /\ printed' = printed /\ disk' = disk /\ exit' = exit
      /\ hashed' = hashed \o ans.bytes /\ offset' = offset + Len(ans.bytes)
      /\ leave' = (ans.bytes = <<>>)
      /\ phase = "answered" /\ ans.outcome = "bytes" /\ phase' = "ready"
  BY DEF TakeBytes, Forget, Working, ToolInv
<1>2. /\ SizeOf(disk) \in Nat /\ offset \in Nat
      /\ hashed = Prefix(disk, offset)
  BY <1>1 DEF Halfway
<1>3. PICK n \in Nat \ {0} :
        /\ offset + n <= SizeOf(disk)
        /\ ans.bytes = [k \in 1 .. n |-> ByteAt(disk, offset + k - 1)]
  BY <1>1 DEF Halfway, Filled
<1>4. /\ Prefix(disk, offset) \in Seq({ByteAt(disk, o) : o \in Nat})
      /\ Len(Prefix(disk, offset)) = offset
      /\ ans.bytes \in Seq({ByteAt(disk, o) : o \in Nat}) /\ Len(ans.bytes) = n
  <2> DEFINE S == {ByteAt(disk, o) : o \in Nat}
  <2>1. Prefix(disk, offset) \in [1 .. offset -> S]
    <3>1. \A k \in 1 .. offset : k - 1 \in Nat
      BY <1>2
    <3> QED
      BY <3>1 DEF Prefix
  <2>2. ans.bytes \in [1 .. n -> S]
    <3>1. \A k \in 1 .. n : offset + k - 1 \in Nat
      BY <1>2
    <3> QED
      BY <1>3, <3>1
  <2> HIDE DEF S
  <2>3. Prefix(disk, offset) \in Seq(S) /\ Len(Prefix(disk, offset)) = offset
    BY <1>2, <2>1, Elements
  <2>4. ans.bytes \in Seq(S) /\ Len(ans.bytes) = n
    BY <2>2, Elements
  <2> QED
    BY <2>3, <2>4 DEF S
<1>5. hashed' = Prefix(disk, offset + n)
  <2> DEFINE s == Prefix(disk, offset)
             J == [k \in 1 .. offset + n |->
                     IF k <= offset THEN s[k] ELSE ans.bytes[k - offset]]
  <2>1. s \o ans.bytes = J
    <3> DEFINE S == {ByteAt(disk, o) : o \in Nat}
    <3>1. s \in Seq(S) /\ Len(s) = offset /\ ans.bytes \in Seq(S) /\ Len(ans.bytes) = n
      BY <1>4
    <3> HIDE DEF S, s
    <3>2. PICK p, t : p = s /\ t = ans.bytes
      OBVIOUS
    <3>3. p \o t = [k \in 1 .. Len(p) + Len(t) |->
                     IF k <= Len(p) THEN p[k] ELSE t[k - Len(p)]]
      BY <3>1, <3>2, Joined
    <3> QED
      BY <3>1, <3>2, <3>3
  <2>2. ASSUME NEW k \in 1 .. offset + n
        PROVE  J[k] = ByteAt(disk, k - 1)
    <3>1. CASE k <= offset
      <4>1. k \in 1 .. offset
        BY <1>2, <2>2, <3>1
      <4> QED
        BY <3>1, <4>1 DEF Prefix
    <3>2. CASE ~(k <= offset)
      <4>1. k - offset \in 1 .. n /\ offset + (k - offset) - 1 = k - 1
        BY <1>2, <2>2, <3>2
      <4> QED
        BY <1>3, <3>2, <4>1
    <3> QED
      BY <3>1, <3>2
  <2>3. J = Prefix(disk, offset + n)
    BY <2>2 DEF Prefix
  <2> QED
    BY <1>1, <1>2, <2>1, <2>3
<1>6. offset' = offset + n /\ offset' \in 0 .. SizeOf(disk) /\ ~leave'
  <2>1. ans.bytes # <<>>
    BY <1>4
  <2>2. leave' = FALSE /\ offset' = offset + n
    BY <1>1, <1>4, <2>1
  <2> QED
    BY <1>2, <1>3, <2>2
<1>7. Halfway'
  BY <1>1, <1>2, <1>5, <1>6 DEF Halfway
<1> QED
  BY <1>1, <1>7, PrintedStays DEF ToolInv

LEMMA PrintKeeps ==
  ASSUME ToolInv, PrintHash
  PROVE  ToolInv'
<1> DEFINE n == Len(printed)
           image == args[n + 1]
           V == {Whole(args[k]) : k \in DOMAIN args}
<1>1. /\ n < Len(args) /\ disk = image /\ Halfway
      /\ args' = args /\ exit' = exit /\ exit = "none" /\ phase = "ready" /\ ~InLoop
      /\ printed' = Append(printed, hashed)
  BY DEF PrintHash, Working, ToolInv
<1>2. hashed = Whole(image)
  <2>1. Size = SizeOf(disk)
    BY DiskIsOf
  <2>2. SizeOf(disk) \in Nat /\ offset \in 0 .. SizeOf(disk) /\ ~leave
        /\ hashed = Prefix(disk, offset)
    BY <1>1 DEF Halfway
  <2>3. offset = SizeOf(disk)
    BY <1>1, <2>1, <2>2 DEF InLoop
  <2> QED
    BY <1>1, <2>2, <2>3 DEF Whole
<1>3. /\ n \in Nat /\ Len(args) \in Nat /\ DOMAIN args = 1 .. Len(args)
      /\ printed \in Seq(V) /\ \A k \in 1 .. n : printed[k] = Whole(args[k])
  BY ArgsAreASequence DEF ToolInv
<1>4. /\ printed' \in Seq(V) /\ Len(printed') = n + 1
      /\ \A k \in 1 .. n + 1 : printed'[k] = Whole(args[k])
  <2>1. hashed \in V
    BY <1>1, <1>2, <1>3
  <2> HIDE DEF V, n
  <2>2. n = Len(printed)
    BY DEF n
  <2> QED
    BY <1>1, <1>2, <1>3, <2>1, <2>2
<1>5. ASSUME n + 1 < Len(args)
      PROVE  disk' = args[n + 1 + 1] /\ Halfway'
  <2>1. StartOn(args[n + 1 + 1])
    BY <1>4, <1>5 DEF PrintHash
  <2> QED
    BY <2>1 DEF StartOn, Halfway
<1>6. /\ \A d : Whole(d)' = Whole(d)
      /\ args' = args /\ n + 1 \in 0 .. Len(args) /\ Len(printed') = n + 1
      /\ exit' # "success"
  BY <1>1, <1>3, <1>4 DEF Whole, Prefix
<1> HIDE DEF n
<1> QED
  BY <1>1, <1>4, <1>5, <1>6 DEF ToolInv, Whole, Prefix

LEMMA GivenUpKeeps ==
  ASSUME ToolInv, GiveUp \/ Done
  PROVE  ToolInv'
<1>1. UNCHANGED <<vars, args, offset, hashed, leave, printed>>
  BY DEF GiveUp, Done
<1>2. /\ args' = args /\ printed' = printed /\ disk' = disk
      /\ Len(printed) < Len(args) => Halfway'
  BY <1>1 DEF vars, ToolInv, Halfway, Filled
<1>3. exit' = "success" => Len(printed) = Len(args)
  BY ArgsAreASequence DEF GiveUp, Done, Working, ToolInv
<1> QED
  BY <1>2, <1>3, PrintedStays

LEMMA NothingKeeps ==
  ASSUME ToolInv, UNCHANGED allVars
  PROVE  ToolInv'
<1>1. /\ args' = args /\ printed' = printed /\ disk' = disk /\ exit' = exit
      /\ Len(printed) < Len(args) => Halfway'
  BY DEF allVars, vars, toolVars, ToolInv, Halfway, Filled
<1> QED
  BY <1>1, PrintedStays DEF ToolInv

THEOREM ToolInvHolds == ToolSpec => []ToolInv
<1>1. ToolInv /\ [ToolNext]_allVars => ToolInv'
  BY OpenKeeps, ReadKeeps, AnswerKeeps, TakeKeeps, PrintKeeps, GivenUpKeeps, NothingKeeps
     DEF ToolNext
<1> QED
  BY <1>1, ToolInvBegins, PTL DEF ToolSpec

\* Every hash that the tool prints, of any command line, is that of the whole of its
\* image, and a program that succeeds has printed all.
THEOREM HashesAreWhole == ToolSpec => []WholeImagesPrinted
<1>1. ToolInv => WholeImagesPrinted
  <2> SUFFICES ASSUME ToolInv
               PROVE  WholeImagesPrinted
    OBVIOUS
  <2>1. /\ DOMAIN printed = 1 .. Len(printed)
        /\ \A k \in DOMAIN printed : printed[k] = Whole(args[k])
    BY ArgsAreASequence DEF ToolInv
  <2> QED
    BY <2>1 DEF ToolInv, WholeImagesPrinted, Whole, Prefix, SizeOf, ByteAt
<1> QED
  BY <1>1, ToolInvHolds, PTL
=============================================================================
