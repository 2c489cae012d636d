------------------------------- MODULE FormatProofs --------------------------
(***************************************************************************)
(* Proofs about the parts of a file that say what the rest of it is: the   *)
(* headers, for all files and numbers of every width, and the descriptors, *)
(* for texts of every length and windows of every size.                    *)
(***************************************************************************)
EXTENDS ImageFormats, NatLemmas, SequenceTheorems

-----------------------------------------------------------------------------
(***************************************************************************)
(* Headers: the inductive invariant.                                       *)
(***************************************************************************)
Readers == {"descriptor", "tables"}

\* the header of a file, whoever reads it
HeaderOf(f) == IF f.sig = "vmdk4" /\ UseSecondary(f.header) THEN f.footer ELSE f.header

\* the second header is only looked for in a file that refers to one
SecondaryInv == stage = "secondary" => file.sig = "vmdk4" /\ UseSecondary(file.header)

ChosenInv ==
  /\ reader \in Readers
  /\ DOMAIN chosen = Readers
  /\ \A r \in Readers : chosen[r] \in {NoHeader, HeaderOf(file)}

\* what is accepted is within the limit, as far as the width can tell
Accepted(res) == res.outcome = "meta" => ~(SizeOf(res.meta) > MaxSize)

\* the result is what the header of the tables makes it
ResultInv ==
  /\ stage # "done" => result.outcome = "none"
  /\ IsVmdk4 => /\ chosen["tables"] = HeaderOf(file)
                /\ result = Vmdk4Meta(chosen["tables"])
  /\ Accepted(result)

HeadersInv == file \in Files /\ SecondaryInv /\ ChosenInv /\ ResultInv

-----------------------------------------------------------------------------
\* Whatever the header is, what is made of it is within the limit or an error.
LEMMA MetasAccepted ==
  ASSUME NEW h
  PROVE  /\ file.sig = "vmdk3" => Accepted(Vmdk3Meta(h))
         /\ file.sig = "vmdk4" => Accepted(Vmdk4Meta(h))
         /\ file.sig = "sesparse" => Accepted(SeMeta(h))
<1> SUFFICES \A meta : /\ file.sig # "sesparse" => Accepted(Limited(meta, Limit))
                       /\ file.sig = "sesparse" => Accepted(Limited(meta, SeLimit))
  BY DEF Vmdk3Meta, Vmdk4Meta, SeMeta, Accepted, Error, Panic
<1> QED
  BY DEF Limited, Accepted, MaxSize, Error

\* A header that is settled on is the file's, and so are the meta data, if there
\* is a result.
LEMMA SettleStep ==
  ASSUME HeadersInv, stage # "done", UNCHANGED file,
         NEW meta, Settle(HeaderOf(file), meta),
         file.sig = "vmdk4" => meta = Vmdk4Meta(HeaderOf(file)), Accepted(meta)
  PROVE  HeadersInv'
<1> DEFINE h == HeaderOf(file)
<1> HIDE DEF h
<1>0. Settle(h, meta) /\ HeaderOf(file)' = h /\ (file.sig = "vmdk4" => meta = Vmdk4Meta(h))
  BY DEF h, HeaderOf, UseSecondary
<1>1. /\ reader \in Readers
      /\ chosen' = [chosen EXCEPT ![reader] = h]
      /\ DOMAIN chosen = Readers
      /\ \A r \in Readers : chosen[r] \in {NoHeader, h}
  BY <1>0 DEF Settle, HeadersInv, ChosenInv, h
<1>2. stage' \in {"signature", "done"} /\ reader' \in Readers
  BY <1>0, <1>1 DEF Settle, Readers
<1>3. ChosenInv'
  BY <1>0, <1>1, <1>2 DEF ChosenInv
<1>4. ResultInv'
  <2>0. Accepted(result) /\ Accepted(meta) /\ (Accepted(result))' = Accepted(result')
    BY DEF HeadersInv, ResultInv, Accepted, MaxSize, SizeOf, TrueSize
  <2>1. CASE reader = "descriptor"
    BY <2>0, <2>1, <1>0 DEF Settle, ResultInv, HeadersInv, IsVmdk4
  <2>2. CASE reader = "tables"
    BY <2>0, <2>2, <1>0, <1>1 DEF Settle, ResultInv, HeadersInv, IsVmdk4, Readers
  <2> QED
    BY <1>1, <2>1, <2>2 DEF Readers
<1> QED
  BY <1>2, <1>3, <1>4 DEF HeadersInv, SecondaryInv

\* Failing and going on leave what was chosen alone.
LEMMA FailStep ==
  ASSUME HeadersInv, UNCHANGED file, Fail
  PROVE  HeadersInv'
BY DEF Fail, Error, HeadersInv, SecondaryInv, ChosenInv, ResultInv, IsVmdk4, HeaderOf,
       UseSecondary, Accepted

LEMMA GoOnStep ==
  ASSUME HeadersInv, UNCHANGED file, stage # "done", NEW to, GoOn(to),
         to = "secondary" => file.sig = "vmdk4" /\ UseSecondary(file.header)
  PROVE  HeadersInv'
BY DEF GoOn, HeadersInv, SecondaryInv, ChosenInv, ResultInv, IsVmdk4, HeaderOf, UseSecondary,
       Accepted, MaxSize

LEMMA NextHeadersInv ==
  ASSUME HeadersInv, [HeadersNext]_headerVars
  PROVE  HeadersInv'
<1>1. CASE HeadersNext
  <2>0. UNCHANGED file
    BY <1>1 DEF HeadersNext
  <2>1. CASE CheckSignature
    <3>1. CASE Fail
      BY <3>1, <2>0, FailStep
    <3>2. CASE GoOn("header")
      BY <3>2, <2>0, <2>1, GoOnStep DEF CheckSignature
    <3>3. CASE stage' = "done" /\ UNCHANGED <<reader, chosen, result>>
      BY <3>3, <2>0, <2>1 DEF CheckSignature, HeadersInv, SecondaryInv, ChosenInv,
           ResultInv, IsVmdk4, HeaderOf, UseSecondary, Accepted, MaxSize
    <3> QED
      BY <2>1, <3>1, <3>2, <3>3 DEF CheckSignature
  <2>2. CASE ReadVmdk3
    <3>1. HeaderOf(file) = file.header /\ stage # "done" /\ file.sig # "vmdk4"
      BY <2>2 DEF ReadVmdk3, HeaderOf
    <3> QED
      BY <2>0, <2>2, <3>1, FailStep, SettleStep, MetasAccepted DEF ReadVmdk3
  <2>3. CASE ReadVmdk4
    <3>1. stage # "done"
      BY <2>3 DEF ReadVmdk4
    <3>2. CASE Fail
      BY <3>2, <2>0, FailStep
    <3>3. CASE UseSecondary(file.header) /\ GoOn("secondary")
      BY <3>1, <3>3, <2>0, <2>3, GoOnStep DEF ReadVmdk4
    <3>4. CASE ~UseSecondary(file.header) /\ Settle(file.header, Vmdk4Meta(file.header))
      BY <3>1, <3>4, <2>0, <2>3, SettleStep, MetasAccepted DEF HeaderOf, ReadVmdk4
    <3> QED
      BY <2>3, <3>2, <3>3, <3>4 DEF ReadVmdk4
  <2>4. CASE ReadSecondary
    <3>1. HeaderOf(file) = file.footer /\ stage # "done" /\ file.sig = "vmdk4"
      BY <2>4 DEF ReadSecondary, HeaderOf, HeadersInv, SecondaryInv
    <3> QED
      BY <2>0, <2>4, <3>1, FailStep, SettleStep, MetasAccepted DEF ReadSecondary
  <2>5. CASE ReadSeSparse
    <3>1. HeaderOf(file) = file.header /\ stage # "done" /\ file.sig # "vmdk4"
      BY <2>5 DEF ReadSeSparse, HeaderOf
    <3> QED
      BY <2>0, <2>5, <3>1, FailStep, SettleStep, MetasAccepted DEF ReadSeSparse
  <2> QED
    BY <1>1, <2>1, <2>2, <2>3, <2>4, <2>5 DEF HeadersNext
<1>2. CASE UNCHANGED headerVars
  BY <1>2 DEF headerVars, HeadersInv, SecondaryInv, ChosenInv, ResultInv, IsVmdk4, HeaderOf,
       UseSecondary, Accepted, MaxSize
<1> QED
  BY <1>1, <1>2

LEMMA AlwaysHeadersInv == HeadersSpec => []HeadersInv
<1>1. HeadersInit => HeadersInv
  BY DEF HeadersInit, StartOfFile, HeadersInv, SecondaryInv, ChosenInv, ResultInv, IsVmdk4,
         NoResult, Readers, Accepted
<1>2. HeadersInv /\ [HeadersNext]_headerVars => HeadersInv'
  BY NextHeadersInv
<1> QED
  BY <1>1, <1>2, PTL DEF HeadersSpec

\* For all files: the descriptor and the tables of an image are found through one
\* header, although handle_image and read_header_sparse each choose between the two.
THEOREM OneHeader == HeadersSpec => []SameHeader
<1>1. HeadersInv => SameHeader
  BY DEF HeadersInv, ChosenInv, SameHeader
<1> QED
  BY <1>1, AlwaysHeadersInv, PTL

-----------------------------------------------------------------------------
(***************************************************************************)
(* The arithmetic of a VMDK4 header.                                       *)
(***************************************************************************)

LEMMA DivMod ==
  ASSUME NEW a \in Nat, NEW b \in Nat \ {0}
  PROVE  /\ a \div b \in Nat /\ a % b \in 0 .. b - 1
         /\ a = b * (a \div b) + (a % b)
         /\ a < b => a % b = a
OBVIOUS

LEMMA TimesNat ==
  ASSUME NEW a \in Nat, NEW b \in Nat
  PROVE  a * b \in Nat /\ (a # 0 /\ b # 0 => a * b # 0)
OBVIOUS

\* DivCeil(a, b) is the least number of bs that make up a.
LEMMA DivCeilIsLeast ==
  ASSUME NEW a \in Nat, NEW b \in Nat \ {0}
  PROVE  /\ DivCeil(a, b) \in Nat
         /\ DivCeil(a, b) * b >= a
         /\ DivCeil(a, b) > 0 => (DivCeil(a, b) - 1) * b < a
<1> DEFINE q == a \div b
           r == a % b
<1>1. q \in Nat /\ r \in 0 .. b - 1 /\ a = b * q + r
  BY DivMod
<1>2. DivCeil(a, b) = IF r > 0 THEN q + 1 ELSE q
  BY DEF DivCeil
<1> HIDE DEF q, r
<1>3. (q + 1) * b = b * q + b /\ q * b = b * q /\ (q - 1) * b = b * q - b
  BY <1>1
<1>4. b * q \in Nat
  BY <1>1
<1> QED
  BY <1>1, <1>2, <1>3, <1>4

\* The numbers of the header that the tables come from.
LEMMA HeaderNumbers ==
  ASSUME HeadersInv, IsVmdk4
  PROVE  LET h == chosen["tables"] IN
         /\ {h.gtes, h.granularity, h.capacity} \subseteq Nat
         /\ result = Vmdk4Meta(h)
<1>1. chosen["tables"] \in {file.header, file.footer} /\ file.sig = "vmdk4" /\ file \in Files
  BY DEF HeadersInv, ResultInv, IsVmdk4, HeaderOf
<1> QED
  BY <1>1, FilesAssumption, WordAssumption DEF HeadersInv, ResultInv

\* For all files and widths: the tables that are looked for hold the disk, and no
\* more of them than that takes.
THEOREM TablesHoldTheDisk == HeadersSpec => []TablesCover
<1>1. HeadersInv => TablesCover
  <2> SUFFICES ASSUME HeadersInv, IsVmdk4, result.outcome = "meta", ~Wraps
               PROVE  LET m == result.meta
                          held(n) == n * m.l2_len * m.cluster_sectors
                      IN  /\ held(m.l1_len) >= m.sectors
                          /\ m.l1_len > 0 => held(m.l1_len - 1) < m.sectors
    BY DEF TablesCover
  <2> DEFINE h == chosen["tables"]
             b == h.gtes * h.granularity
             n == DivCeil(h.capacity, b)
             m == result.meta
  <2>1. h.gtes \in Nat /\ h.granularity \in Nat /\ h.capacity \in Nat /\ result = Vmdk4Meta(h)
    BY HeaderNumbers
  <2>2. b \in Nat /\ b < Word
    BY <2>1, TimesNat, WordAssumption DEF Wraps
  <2>3. Times(h.gtes, h.granularity) = b
    BY <2>2, DivMod, WordAssumption DEF Times
  <2>4. b # 0 /\ m.l1_len = n /\ m.l2_len = h.gtes /\ m.cluster_sectors = h.granularity
          /\ m.sectors = h.capacity
    BY <2>1, <2>3 DEF Vmdk4Meta, Limited, Error, Panic
  <2>5. n \in Nat /\ n * b >= h.capacity /\ (n > 0 => (n - 1) * b < h.capacity)
    BY <2>1, <2>2, <2>4, DivCeilIsLeast
  <2>6. \A k \in Int : k * h.gtes * h.granularity = k * b
    BY <2>1
  <2> HIDE DEF h, b, n, m
  <2>7. n \in Int /\ n - 1 \in Int
    BY <2>5
  <2> QED
    BY <2>4, <2>5, <2>6, <2>7 DEF m
<1> QED
  BY <1>1, AlwaysHeadersInv, PTL

\* For all files and widths: only a product that wraps is divided by while it is 0,
\* and only a product that wraps passes the check of the largest size.
THEOREM OnlyWrapsGetBy == HeadersSpec => []OnlyWrapsPass
<1>1. ASSUME HeadersInv, IsVmdk4, result.outcome = "panic", ~Wraps PROVE FALSE
  <2> DEFINE h == chosen["tables"]
  <2>1. h.gtes \in Nat /\ h.granularity \in Nat /\ result = Vmdk4Meta(h)
    BY <1>1, HeaderNumbers
  <2>2. h.gtes # 0 /\ h.granularity # 0 /\ Times(h.gtes, h.granularity) = 0
    BY <1>1, <2>1 DEF Vmdk4Meta, Refused, Limited, Error
  <2>3. h.gtes * h.granularity \in Nat /\ h.gtes * h.granularity # 0
          /\ h.gtes * h.granularity < Word
    BY <1>1, <2>1, <2>2, TimesNat, WordAssumption DEF Wraps
  <2> QED
    BY <2>2, <2>3, DivMod, WordAssumption DEF Times
<1>2. ASSUME HeadersInv, result.outcome = "meta", TrueSize(result.meta) \in 0 .. Word - 1
      PROVE  TrueSize(result.meta) <= MaxSize
  <2> DEFINE n == TrueSize(result.meta)
  <2>1. ~(n % Word > MaxSize) /\ MaxSize \in Nat
    BY <1>2, WordAssumption DEF HeadersInv, ResultInv, Accepted, SizeOf, MaxSize
  <2>2. n \in Nat /\ n < Word
    BY <1>2, WordAssumption
  <2> HIDE DEF n
  <2>3. n % Word = n
    BY <2>2, DivMod, WordAssumption
  <2> QED
    BY <2>1, <2>2, <2>3 DEF n
<1>3. HeadersInv => OnlyWrapsPass
  BY <1>1, <1>2 DEF OnlyWrapsPass
<1> QED
  BY <1>3, AlwaysHeadersInv, PTL

-----------------------------------------------------------------------------
(***************************************************************************)
(* Sequences that are given by their elements.                             *)
(***************************************************************************)
Sequence(s) == s \in Seq({s[k] : k \in DOMAIN s})

LEMMA SequenceIs ==
  ASSUME NEW n \in Nat, NEW s, s = [k \in 1 .. n |-> s[k]]
  PROVE  Sequence(s) /\ Len(s) = n
BY DEF Sequence

LEMMA SequenceHas ==
  ASSUME NEW s, Sequence(s)
  PROVE  /\ Len(s) \in Nat /\ DOMAIN s = 1 .. Len(s)
         /\ s = [k \in 1 .. Len(s) |-> s[k]]
         /\ s = <<>> <=> Len(s) = 0
BY DEF Sequence

\* two are the same if they have the same elements
LEMMA SameSequence ==
  ASSUME NEW s, NEW t, Sequence(s), Sequence(t), Len(s) = Len(t),
         \A k \in 1 .. Len(s) : s[k] = t[k]
  PROVE  s = t
BY SequenceHas

LEMMA SequencesJoin ==
  ASSUME NEW s, NEW t, Sequence(s), Sequence(t)
  PROVE  /\ Sequence(s \o t) /\ Len(s \o t) = Len(s) + Len(t)
         /\ \A k \in 1 .. Len(s) + Len(t) :
              (s \o t)[k] = IF k <= Len(s) THEN s[k] ELSE t[k - Len(s)]
<1> DEFINE S == {s[k] : k \in DOMAIN s} \cup {t[k] : k \in DOMAIN t}
<1>1. s \in Seq(S) /\ t \in Seq(S)
  BY SequenceHas
<1> HIDE DEF S
<1>2. /\ s \o t \in Seq(S) /\ Len(s \o t) = Len(s) + Len(t)
      /\ \A k \in 1 .. Len(s) + Len(t) :
           (s \o t)[k] = IF k <= Len(s) THEN s[k] ELSE t[k - Len(s)]
  BY <1>1, ConcatProperties
<1>3. s \o t = [k \in 1 .. Len(s) + Len(t) |-> (s \o t)[k]] /\ Len(s) + Len(t) \in Nat
  BY <1>1, <1>2, LenProperties
<1> QED
  BY <1>2, <1>3, SequenceIs

LEMMA SequenceAppends ==
  ASSUME NEW s, NEW e, Sequence(s)
  PROVE  /\ Sequence(Append(s, e)) /\ Len(Append(s, e)) = Len(s) + 1
         /\ \A k \in 1 .. Len(s) : Append(s, e)[k] = s[k]
         /\ Append(s, e)[Len(s) + 1] = e
<1> DEFINE S == {s[k] : k \in DOMAIN s} \cup {e}
<1>1. s \in Seq(S) /\ e \in S
  BY SequenceHas
<1> HIDE DEF S
<1>2. /\ Append(s, e) \in Seq(S) /\ Len(Append(s, e)) = Len(s) + 1
      /\ \A k \in 1 .. Len(s) : Append(s, e)[k] = s[k]
      /\ Append(s, e)[Len(s) + 1] = e
  BY <1>1, AppendProperties
<1>3. Append(s, e) = [k \in 1 .. Len(s) + 1 |-> Append(s, e)[k]] /\ Len(s) + 1 \in Nat
  BY <1>1, <1>2, LenProperties
<1> QED
  BY <1>2, <1>3, SequenceIs

LEMMA SequencePart ==
  ASSUME NEW s, Sequence(s), NEW m \in 1 .. Len(s) + 1, NEW n \in m - 1 .. Len(s)
  PROVE  /\ Sequence(SubSeq(s, m, n)) /\ Len(SubSeq(s, m, n)) = n - m + 1
         /\ \A k \in 1 .. n - m + 1 : SubSeq(s, m, n)[k] = s[m + k - 1]
<1>1. Len(s) \in Nat
  BY SequenceHas
<1>2. n - m + 1 \in Nat
  BY <1>1
<1>3. SubSeq(s, m, n) = [k \in 1 .. n - m + 1 |-> s[k + m - 1]]
  BY <1>1
<1>4. \A k \in 1 .. n - m + 1 : SubSeq(s, m, n)[k] = s[m + k - 1]
  BY <1>1, <1>3
<1>5. SubSeq(s, m, n) = [k \in 1 .. n - m + 1 |-> SubSeq(s, m, n)[k]]
  BY <1>3
<1> QED
  BY <1>2, <1>4, <1>5, SequenceIs

LEMMA SequenceBegins ==
  ASSUME NEW s, Sequence(s), NEW n \in 0 .. Len(s)
  PROVE  /\ Sequence(SubSeq(s, 1, n)) /\ Len(SubSeq(s, 1, n)) = n
         /\ \A k \in 1 .. n : SubSeq(s, 1, n)[k] = s[k]
<1>1. Len(s) \in Nat
  BY SequenceHas
<1>2. PICK m \in 1 .. Len(s) + 1 : m = 1
  BY <1>1
<1>3. n \in m - 1 .. Len(s)
  BY <1>2
<1>4. /\ Sequence(SubSeq(s, m, n)) /\ Len(SubSeq(s, m, n)) = n - m + 1
      /\ \A k \in 1 .. n - m + 1 : SubSeq(s, m, n)[k] = s[m + k - 1]
  BY <1>3, SequencePart
<1> QED
  BY <1>1, <1>2, <1>4

LEMMA PrefixIs ==
  ASSUME NEW s, NEW t, Sequence(s), Sequence(t), Len(s) <= Len(t),
         \A k \in 1 .. Len(s) : s[k] = t[k]
  PROVE  IsPrefix(s, t)
<1>1. Len(s) \in 0 .. Len(s) /\ Len(s) \in 0 .. Len(t)
  BY SequenceHas
<1>2. /\ Sequence(SubSeq(s, 1, Len(s))) /\ Len(SubSeq(s, 1, Len(s))) = Len(s)
      /\ \A k \in 1 .. Len(s) : SubSeq(s, 1, Len(s))[k] = s[k]
  BY <1>1, SequenceBegins
<1>3. /\ Sequence(SubSeq(t, 1, Len(s))) /\ Len(SubSeq(t, 1, Len(s))) = Len(s)
      /\ \A k \in 1 .. Len(s) : SubSeq(t, 1, Len(s))[k] = t[k]
  BY <1>1, SequenceBegins
<1>4. SubSeq(s, 1, Len(s)) = SubSeq(t, 1, Len(s))
  BY <1>2, <1>3, SameSequence
<1> QED
  BY <1>4 DEF IsPrefix

-----------------------------------------------------------------------------
(***************************************************************************)
(* What is of some kinds in a text.                                        *)
(***************************************************************************)
LEMMA GatheredIs ==
  ASSUME NEW text, NEW kinds, Sequence(text)
  PROVE  LET g == Gathered(text, kinds)
         IN  /\ g[0] = <<>>
             /\ \A n \in 0 .. Len(text) : Sequence(g[n])
             /\ \A n \in 1 .. Len(text) :
                  g[n] = IF text[n].is \in kinds THEN Append(g[n - 1], text[n]) ELSE g[n - 1]
<1> DEFINE S == {text[k] : k \in DOMAIN text}
           g == Gathered(text, kinds)
           N == Len(text)
           Next(x, n) == IF text[n].is \in kinds THEN Append(x, text[n]) ELSE x
           turn == [j \in Nat |-> [x \in Seq(S) |-> IF j \in 1 .. N THEN Next(x, j) ELSE x]]
           Rec(f) == f = [n \in 0 .. N |->
                            IF n = 0 THEN <<>>
                            ELSE IF text[n].is \in kinds THEN Append(f[n - 1], text[n])
                            ELSE f[n - 1]]
<1>1. N \in Nat /\ \A k \in 1 .. N : text[k] \in S
  BY SequenceHas
<1>2. <<>> \in Seq(S) /\ \A x \in Seq(S), j \in 1 .. N : Next(x, j) \in Seq(S)
  <2> HIDE DEF S, N
  <2> QED
    BY <1>1, EmptySeq, AppendProperties
<1>3. turn \in [Nat -> [Seq(S) -> Seq(S)]]
  <2> HIDE DEF Next, S, N
  <2> QED
    BY <1>2
<1> HIDE DEF S, N
<1>4. PICK f \in [0 .. N -> Seq(S)] :
        f[0] = <<>> /\ \A j \in 0 + 1 .. N : f[j] = turn[j][f[j - 1]]
  <2> HIDE DEF turn
  <2>1. 0 \in Nat /\ 0 <= N
    BY <1>1
  <2>2. RecursionExists(Seq(S), <<>>, turn, 0, N)
    BY <1>1, <1>2, <1>3, <2>1, Recursion
  <2> QED
    BY <2>2 DEF RecursionExists
<1>5. ASSUME NEW n \in 1 .. N
      PROVE  f[n] = Next(f[n - 1], n)
  <2>1. n \in Nat /\ n - 1 \in 0 .. N /\ f[n - 1] \in Seq(S)
    BY <1>1, <1>4
  <2>2. f[n] = turn[n][f[n - 1]]
    <3> HIDE DEF turn
    <3> QED
      BY <1>1, <1>4
  <2> HIDE DEF Next
  <2>3. turn[n][f[n - 1]] = Next(f[n - 1], n)
    BY <2>1
  <2> QED
    BY <2>2, <2>3
<1>6. Rec(f)
  <2>1. f = [n \in 0 .. N |-> f[n]]
    BY <1>4
  <2>2. \A n \in 0 .. N : n = 0 \/ n \in 1 .. N
    BY <1>1
  <2> QED
    BY <1>4, <1>5, <2>1, <2>2
<1>7. g = CHOOSE h : Rec(h)
  BY DEF Gathered, N
<1>8. Rec(g)
  <2> HIDE DEF Rec, g
  <2> QED
    BY <1>6, <1>7
<1> HIDE DEF g
<1>9. /\ g[0] = <<>> /\ \A n \in 1 .. N : g[n] = Next(g[n - 1], n) /\ n - 1 \in 0 .. N
  <2>1. \A n \in 1 .. N : n \in 0 .. N /\ n # 0 /\ n - 1 \in 0 .. N
    BY <1>1
  <2>2. g[0] = <<>>
    BY <1>1, <1>8
  <2>3. ASSUME NEW n \in 1 .. N
        PROVE  g[n] = Next(g[n - 1], n)
    BY <1>8, <2>1
  <2> QED
    BY <2>1, <2>2, <2>3
<1> DEFINE T == {n \in 0 .. N : Sequence(g[n])}
<1>10. 0 \in T
  <2>1. Sequence(<<>>)
    BY DEF Sequence
  <2> QED
    BY <1>1, <1>9, <2>1
<1>11. ASSUME NEW n \in 0 + 1 .. N, n - 1 \in T
       PROVE  n \in T
  <2>1. n \in 1 .. N /\ n \in 0 .. N /\ Sequence(g[n - 1])
    BY <1>1, <1>11
  <2>2. Sequence(Append(g[n - 1], text[n]))
    BY <2>1, SequenceAppends
  <2> QED
    BY <1>9, <2>1, <2>2
<1> HIDE DEF T, Next
<1>12. \A n \in 0 .. N : n \in T
  BY <1>1, <1>10, <1>11, IntervalInduction
<1> QED
  BY <1>9, <1>12 DEF T, N, Next, g

\* What is gathered is from the text, in order, and nothing of the kinds is missing.
GatheredFrom(text, kinds, n) ==
  LET g == Gathered(text, kinds)
  IN  /\ \A m \in 1 .. n : text[m].is \in kinds =>
           \E k \in 1 .. Len(g[n]) : g[n][k] = text[m]
      /\ (\A m \in 1 .. n : text[m].is \notin kinds) => g[n] = <<>>

LEMMA NothingIsMissing ==
  ASSUME NEW text, NEW kinds, Sequence(text), NEW n \in 0 .. Len(text)
  PROVE  GatheredFrom(text, kinds, n)
<1> DEFINE g == Gathered(text, kinds)
           N == Len(text)
           Found(j) == \A m \in 1 .. j : text[m].is \in kinds =>
                         \E k \in 1 .. Len(g[j]) : g[j][k] = text[m]
           Empty(j) == (\A m \in 1 .. j : text[m].is \notin kinds) => g[j] = <<>>
           T == {j \in 0 .. N : Found(j) /\ Empty(j)}
<1>1. N \in Nat
  BY SequenceHas
<1>2. /\ g[0] = <<>>
      /\ \A j \in 0 .. N : Sequence(g[j])
      /\ \A j \in 1 .. N :
           g[j] = IF text[j].is \in kinds THEN Append(g[j - 1], text[j]) ELSE g[j - 1]
  BY GatheredIs
<1> HIDE DEF g, N
<1>3. 0 \in T
  BY <1>1, <1>2
<1>4. ASSUME NEW j \in 0 + 1 .. N, j - 1 \in T
      PROVE  j \in T
  <2>1. j \in 1 .. N /\ j \in 0 .. N /\ j - 1 \in 0 .. N /\ Sequence(g[j - 1])
        /\ \A m \in 1 .. j : m = j \/ m \in 1 .. j - 1
    BY <1>1, <1>2, <1>4
  <2>2. Found(j - 1) /\ Empty(j - 1)
    BY <1>4
  <2>3. /\ Sequence(Append(g[j - 1], text[j]))
        /\ Len(Append(g[j - 1], text[j])) = Len(g[j - 1]) + 1
        /\ \A k \in 1 .. Len(g[j - 1]) : Append(g[j - 1], text[j])[k] = g[j - 1][k]
        /\ Append(g[j - 1], text[j])[Len(g[j - 1]) + 1] = text[j]
        /\ Len(g[j - 1]) \in Nat
    BY <2>1, SequenceAppends, SequenceHas
  <2>4. CASE text[j].is \in kinds
    <3>1. /\ Len(g[j]) = Len(g[j - 1]) + 1 /\ Len(g[j - 1]) \in Nat
          /\ \A k \in 1 .. Len(g[j - 1]) : g[j][k] = g[j - 1][k]
          /\ g[j][Len(g[j - 1]) + 1] = text[j]
      BY <1>2, <2>1, <2>3, <2>4
    <3>2. Found(j)
      <4> SUFFICES ASSUME NEW m \in 1 .. j, text[m].is \in kinds
                   PROVE  \E k \in 1 .. Len(g[j]) : g[j][k] = text[m]
        OBVIOUS
      <4>1. CASE m = j
        <5>1. Len(g[j - 1]) + 1 \in 1 .. Len(g[j])
          BY <3>1
        <5> QED
          BY <3>1, <4>1, <5>1
      <4>2. CASE m # j
        <5>1. PICK k \in 1 .. Len(g[j - 1]) : g[j - 1][k] = text[m]
          BY <2>1, <2>2, <4>2
        <5>2. k \in 1 .. Len(g[j])
          BY <3>1
        <5> QED
          BY <3>1, <5>1, <5>2
      <4> QED
        BY <4>1, <4>2
    <3>3. Empty(j)
      <4>1. j \in 1 .. j
        BY <2>1
      <4> QED
        BY <2>4, <4>1
    <3> QED
      BY <2>1, <3>2, <3>3
  <2>5. CASE text[j].is \notin kinds
    <3>1. g[j] = g[j - 1]
      BY <1>2, <2>1, <2>5
    <3>2. \A m \in 1 .. j - 1 : m \in 1 .. j
      BY <1>1
    <3> QED
      BY <2>1, <2>2, <2>5, <3>1, <3>2
  <2> QED
    BY <2>4, <2>5
<1> HIDE DEF T
<1>5. \A j \in 0 .. N : j \in T
  BY <1>1, <1>3, <1>4, IntervalInduction
<1>6. n \in T
  BY <1>5 DEF N
<1> QED
  BY <1>6 DEF T, g, GatheredFrom

LEMMA NothingGathered ==
  ASSUME NEW text, NEW kinds, Sequence(text), NEW n \in 0 .. Len(text),
         \A m \in 1 .. n : text[m].is \notin kinds
  PROVE  Gathered(text, kinds)[n] = <<>>
<1>1. GatheredFrom(text, kinds, n)
  BY NothingIsMissing
<1> QED
  BY <1>1 DEF GatheredFrom

\* What comes first in the text comes first in what is gathered.
LEMMA FirstComesFirst ==
  ASSUME NEW text, NEW kinds, Sequence(text), NEW k \in 1 .. Len(text),
         text[k].is \in kinds, \A m \in 1 .. k - 1 : text[m].is \notin kinds
  PROVE  OfKind(text, kinds) # <<>> /\ Head(OfKind(text, kinds)) = text[k]
<1> DEFINE g == Gathered(text, kinds)
           N == Len(text)
           T == {j \in k .. N : g[j] # <<>> /\ g[j][1] = text[k]}
<1>1. N \in Nat /\ k \in Nat /\ k <= N /\ k \in 1 .. N
  BY SequenceHas
<1>2. /\ \A j \in 0 .. N : Sequence(g[j])
      /\ \A j \in 1 .. N :
           g[j] = IF text[j].is \in kinds THEN Append(g[j - 1], text[j]) ELSE g[j - 1]
  BY GatheredIs
<1>3. g[k - 1] = <<>>
  <2>1. PICK n \in 0 .. N : n = k - 1
    BY <1>1
  <2>2. \A m \in 1 .. n : text[m].is \notin kinds
    BY <2>1
  <2>3. g[n] = <<>>
    BY <2>2, NothingGathered
  <2> QED
    BY <2>1, <2>3
<1> HIDE DEF g, N
<1>4. k \in T
  <2>1. g[k] = Append(<<>>, text[k])
    BY <1>1, <1>2, <1>3
  <2> QED
    BY <1>1, <2>1
<1>5. ASSUME NEW j \in k + 1 .. N, j - 1 \in T
      PROVE  j \in T
  <2>1. j \in 1 .. N /\ j \in k .. N /\ j - 1 \in 0 .. N /\ Sequence(g[j - 1])
    BY <1>1, <1>2, <1>5
  <2>2. /\ Len(Append(g[j - 1], text[j])) = Len(g[j - 1]) + 1
        /\ \A i \in 1 .. Len(g[j - 1]) : Append(g[j - 1], text[j])[i] = g[j - 1][i]
        /\ Sequence(Append(g[j - 1], text[j]))
        /\ Len(g[j - 1]) \in Nat
    BY <2>1, SequenceAppends, SequenceHas
  <2>3. g[j - 1] # <<>> /\ g[j - 1][1] = text[k]
    BY <1>5
  <2>4. 1 \in 1 .. Len(g[j - 1])
    BY <2>1, <2>2, <2>3, SequenceHas
  <2>5. Append(g[j - 1], text[j])[1] = text[k] /\ Append(g[j - 1], text[j]) # <<>>
    <3>1. Len(Append(g[j - 1], text[j])) # 0
      BY <2>2
    <3> QED
      BY <2>2, <2>3, <2>4, <3>1, SequenceHas
  <2> QED
    BY <1>2, <2>1, <2>3, <2>5
<1> HIDE DEF T
<1>6. \A j \in k .. N : j \in T
  BY <1>1, <1>4, <1>5, IntervalInduction
<1>7. g[N] # <<>> /\ g[N][1] = text[k] /\ Sequence(g[N])
  BY <1>1, <1>2, <1>6 DEF T
<1> QED
  BY <1>7 DEF OfKind, g, N, Sequence

-----------------------------------------------------------------------------
(***************************************************************************)
(* The text that is read.                                                  *)
(***************************************************************************)

\* a text up to the first of a piece
EndsAt(text, piece, n) ==
  /\ UpTo(text, piece) = SubSeq(text, 1, n)
  /\ \A k \in 1 .. n - 1 : text[k] # piece
  /\ n = Len(text) \/ (n > 0 /\ text[n] = piece)
  /\ n = 0 => text = <<>>

LEMMA UpToIs ==
  ASSUME NEW text, NEW piece, Sequence(text)
  PROVE  \E n \in 0 .. Len(text) : EndsAt(text, piece, n)
<1> DEFINE found == {k \in DOMAIN text : text[k] = piece}
           N == Len(text)
<1>1. N \in Nat /\ DOMAIN text = 1 .. N /\ (text = <<>> <=> N = 0)
  BY SequenceHas
<1>2. CASE found = {}
  <2>1. UpTo(text, piece) = SubSeq(text, 1, N)
    <3>1. UpTo(text, piece) = text
      BY <1>2 DEF UpTo
    <3>2. /\ Sequence(SubSeq(text, 1, N)) /\ Len(SubSeq(text, 1, N)) = N
          /\ \A k \in 1 .. N : SubSeq(text, 1, N)[k] = text[k]
      BY <1>1, SequenceBegins
    <3> QED
      BY <3>1, <3>2, SameSequence
  <2>2. \A k \in 1 .. N - 1 : text[k] # piece
    BY <1>1, <1>2
  <2>3. EndsAt(text, piece, N)
    BY <1>1, <2>1, <2>2 DEF EndsAt
  <2>4. N \in 0 .. N
    BY <1>1
  <2> QED
    BY <2>3, <2>4
<1>3. CASE found # {}
  <2>1. PICK n \in found : \A k \in found : n <= k
    <3>1. found \subseteq Nat
      BY <1>1
    <3> HIDE DEF found
    <3> QED
      BY <1>3, <3>1, LeastElement
  <2>2. \A x, y \in found : x <= y /\ y <= x => x = y
    BY <1>1
  <2>3. Min(found) = n
    <3> HIDE DEF found
    <3> QED
      BY <2>1, <2>2 DEF Min
  <2>4. n \in 1 .. N /\ text[n] = piece
    BY <1>1
  <2>5. \A k \in 1 .. n - 1 : text[k] # piece
    BY <1>1, <2>1, <2>4
  <2>6. UpTo(text, piece) = SubSeq(text, 1, n)
    BY <1>3, <2>3 DEF UpTo
  <2>7. EndsAt(text, piece, n) /\ n \in 0 .. N
    BY <1>1, <2>4, <2>5, <2>6 DEF EndsAt
  <2> QED
    BY <2>7
<1> QED
  BY <1>2, <1>3

LEMMA DataIs ==
  ASSUME image \in Images
  PROVE  /\ Sequence(image.data) /\ Len(image.data) \in Nat
         /\ Sequence(InWindow) /\ Len(InWindow) \in Nat
<1> DEFINE w == Min({Window, Len(image.data)})
<1>1. Window \in Nat /\ Sequence(image.data)
  BY ImagesAssumption DEF Sequence
<1>2. Len(image.data) \in Nat
  BY <1>1, SequenceHas
<1>3. w \in 0 .. Len(image.data)
  <2>1. \A a, b \in Nat : Min({a, b}) \in 0 .. b
    <3>1. ASSUME NEW a \in Nat, NEW b \in Nat
          PROVE  Min({a, b}) \in 0 .. b
      <4>1. \E x \in {a, b} : \A y \in {a, b} : x <= y
        OBVIOUS
      <4>2. Min({a, b}) \in {a, b} /\ \A y \in {a, b} : Min({a, b}) <= y
        BY <4>1 DEF Min
      <4> QED
        BY <4>2
    <3> QED
      BY <3>1
  <2> QED
    BY <1>1, <1>2, <2>1
<1> HIDE DEF w
<1>4. InWindow = SubSeq(image.data, 1, w)
  BY DEF InWindow, w
<1>5. Sequence(SubSeq(image.data, 1, w)) /\ Len(SubSeq(image.data, 1, w)) = w
  <2>1. PICK data, n : data = image.data /\ n = w
    OBVIOUS
  <2>2. Sequence(SubSeq(data, 1, n)) /\ Len(SubSeq(data, 1, n)) = n
    BY <1>1, <1>3, <2>1, SequenceBegins
  <2> QED
    BY <2>1, <2>2
<1> QED
  BY <1>1, <1>2, <1>3, <1>4, <1>5

\* what is there to read is what comes before the zero byte
LEMMA GivenIs ==
  ASSUME image \in Images, image.embedded, NEW n \in 0 .. Len(InWindow),
         \A k \in 1 .. n : InWindow[k] # nul,
         n = Len(InWindow) \/ InWindow[n + 1] = nul
  PROVE  Given = SubSeq(InWindow, 1, n)
<1> DEFINE before == {i \in 0 .. Len(InWindow) : \A k \in 1 .. i : InWindow[k] # nul}
<1>1. Len(InWindow) \in Nat
  BY DataIs
<1>2. n \in before
  OBVIOUS
<1>3. ASSUME NEW i \in before
      PROVE  n >= i
  <2> SUFFICES ASSUME i > n
               PROVE  FALSE
    BY <1>1
  <2>1. n + 1 \in 1 .. i /\ n # Len(InWindow)
    BY <1>1
  <2> QED
    BY <2>1
<1>4. Max(before) = n
  <2>1. before \subseteq Int
    BY <1>1
  <2> HIDE DEF before
  <2>2. \A x \in before : x >= n => x = n
    BY <1>3, <2>1, <1>2
  <2> QED
    BY <1>2, <1>3, <2>2 DEF Max
<1> HIDE DEF before
<1> QED
  BY <1>4 DEF Given, before

-----------------------------------------------------------------------------
(***************************************************************************)
(* The invariant of the text.                                              *)
(***************************************************************************)
Parsed == {"extents", "badExtent", "done"}

\* a file of its own is read up to pos
ReadSoFar ==
  /\ pos \in 0 .. Len(image.data)
  /\ step \in {"text", "rest"} => desc = SubSeq(image.data, 1, pos)
  /\ step = "text" => line = <<>> /\ \A k \in 1 .. pos : image.data[k] = nl

TextInv ==
  /\ image \in Images
  /\ step \in {"text", "rest", "unrecognized", "panic"} \cup Parsed
  /\ IF image.embedded THEN step \notin {"rest", "unrecognized"} ELSE ReadSoFar
  /\ step \in Parsed => Sequence(desc)
  /\ TextWhole
  /\ TurnedDownAtOnce

LEMMA TextInvBegins ==
  ASSUME DescriptorsInit
  PROVE  TextInv
<1>1. image \in Images /\ step = "text" /\ pos = 0 /\ line = <<>> /\ desc = <<>>
  BY DEF DescriptorsInit, StartOfText
<1>2. SubSeq(image.data, 1, 0) = <<>>
  <2>1. PICK data : data = image.data
    OBVIOUS
  <2>2. Sequence(data) /\ 0 \in 0 .. Len(data)
    BY <1>1, <2>1, DataIs
  <2>3. Sequence(SubSeq(data, 1, 0)) /\ Len(SubSeq(data, 1, 0)) = 0
    BY <2>2, SequenceBegins
  <2> QED
    BY <2>1, <2>3, SequenceHas
<1>3. ReadSoFar
  BY <1>1, <1>2, DataIs DEF ReadSoFar
<1> QED
  BY <1>1, <1>3 DEF TextInv, Parsed, TextWhole, TurnedDownAtOnce

LEMMA ShortenedIs ==
  ASSUME NEW piece
  PROVE  /\ Sequence(Shortened(piece)) /\ Len(Shortened(piece)) \in 0 .. 1
         /\ Shortened(nul) = <<>>
<1>1. Shortened(piece) = <<>> \/ \E p : Shortened(piece) = <<p>>
  BY DEF Shortened
<1>2. Sequence(<<>>) /\ Len(<<>>) = 0
  BY DEF Sequence
<1>3. \A p : Sequence(<<p>>) /\ Len(<<p>>) = 1
  BY DEF Sequence
<1>4. Shortened(nul) = <<>>
  BY DEF Shortened, nl, nul
<1> QED
  BY <1>1, <1>2, <1>3, <1>4

\* what is made of the text up to the zero byte, or up to the end of the window
LEMMA EmbeddedText ==
  ASSUME image \in Images, image.embedded, UpTo(InWindow, nul) # <<>>
  PROVE  LET buf == UpTo(InWindow, nul)
             text == Front(buf) \o Shortened(Last(buf))
         IN  /\ Sequence(text)
             /\ Delimited => text = Given
             /\ ~Delimited => IsPrefix(Front(Given), text) /\ Len(text) <= Len(Given)
<1>1. PICK w : w = InWindow
  OBVIOUS
<1>2. Sequence(w) /\ Len(w) \in Nat /\ DOMAIN w = 1 .. Len(w)
  BY <1>1, DataIs, SequenceHas
<1>3. PICK n \in 0 .. Len(w) : EndsAt(w, nul, n)
  BY <1>2, UpToIs
<1>4. PICK buf : buf = SubSeq(w, 1, n)
  OBVIOUS
<1>5. /\ Sequence(buf) /\ Len(buf) = n /\ \A k \in 1 .. n : buf[k] = w[k]
      /\ UpTo(InWindow, nul) = buf
  BY <1>1, <1>2, <1>3, <1>4, SequenceBegins DEF EndsAt
<1>6. n > 0 /\ n \in Nat /\ n - 1 \in 0 .. Len(buf) /\ n - 1 \in 0 .. Len(w)
  <2>1. n # 0
    BY <1>5, SequenceHas
  <2> QED
    BY <1>2, <1>5, <2>1
<1>7. PICK f : f = SubSeq(buf, 1, n - 1)
  OBVIOUS
<1>8. Sequence(f) /\ Len(f) = n - 1 /\ \A k \in 1 .. n - 1 : f[k] = w[k]
  <2>1. /\ Sequence(SubSeq(buf, 1, n - 1)) /\ Len(SubSeq(buf, 1, n - 1)) = n - 1
        /\ \A k \in 1 .. n - 1 : SubSeq(buf, 1, n - 1)[k] = buf[k]
    BY <1>5, <1>6, SequenceBegins
  <2> QED
    BY <1>5, <1>6, <1>7, <2>1
<1>9. Front(buf) = f /\ Last(buf) = w[n]
  BY <1>5, <1>6, <1>7 DEF Front, Last
<1>10. PICK e : e = Shortened(w[n])
  OBVIOUS
<1>11. Sequence(e) /\ Len(e) \in 0 .. 1
  BY <1>10, ShortenedIs
<1>12. PICK text : text = f \o e
  OBVIOUS
<1>13. /\ Sequence(text) /\ Len(text) = n - 1 + Len(e)
       /\ \A k \in 1 .. n - 1 : text[k] = f[k]
  <2>1. /\ Sequence(f \o e) /\ Len(f \o e) = Len(f) + Len(e)
        /\ \A k \in 1 .. Len(f) + Len(e) :
              (f \o e)[k] = IF k <= Len(f) THEN f[k] ELSE e[k - Len(f)]
    BY <1>8, <1>11, SequencesJoin
  <2> QED
    BY <1>6, <1>8, <1>11, <1>12, <2>1
<1>14. CASE w[n] = nul
  <2>1. Delimited
    <3>1. n \in DOMAIN w
      BY <1>2, <1>6
    <3> QED
      BY <1>1, <1>14, <3>1 DEF Delimited, ToSet
  <2>2. Given = SubSeq(w, 1, n - 1)
    <3>1. PICK m \in 0 .. Len(w) : m = n - 1
      BY <1>6
    <3>2. \A k \in 1 .. m : w[k] # nul
      BY <1>3, <3>1 DEF EndsAt
    <3>3. w[m + 1] = nul
      BY <1>6, <1>14, <3>1
    <3> QED
      BY <1>1, <3>1, <3>2, <3>3, GivenIs
  <2>3. /\ Sequence(SubSeq(w, 1, n - 1)) /\ Len(SubSeq(w, 1, n - 1)) = n - 1
        /\ \A k \in 1 .. n - 1 : SubSeq(w, 1, n - 1)[k] = w[k]
    BY <1>2, <1>6, SequenceBegins
  <2>4. e = <<>> /\ Len(e) = 0
    BY <1>10, <1>14, ShortenedIs
  <2>5. text = SubSeq(w, 1, n - 1)
    <3>1. PICK t : t = SubSeq(w, 1, n - 1)
      OBVIOUS
    <3>2. Sequence(t) /\ Len(text) = Len(t) /\ \A k \in 1 .. Len(text) : text[k] = t[k]
      BY <1>6, <1>8, <1>13, <2>3, <2>4, <3>1
    <3> QED
      BY <1>13, <3>1, <3>2, SameSequence
  <2> QED
    BY <1>5, <1>9, <1>10, <1>12, <1>13, <2>1, <2>2, <2>5
<1>15. CASE w[n] # nul
  <2>1. n = Len(w) /\ \A k \in 1 .. n : w[k] # nul
    BY <1>3, <1>6, <1>15 DEF EndsAt
  <2>2. ~Delimited
    BY <1>1, <1>2, <2>1 DEF Delimited, ToSet
  <2>3. Given = buf
    BY <1>1, <1>4, <2>1, GivenIs
  <2>4. IsPrefix(f, text)
    BY <1>6, <1>8, <1>11, <1>13, PrefixIs
  <2>5. Len(text) <= n
    <3>1. PICK c \in 0 .. 1 : Len(text) = n - 1 + c
      BY <1>11, <1>13
    <3> QED
      BY <1>6, <3>1
  <2> QED
    BY <1>5, <1>9, <1>10, <1>12, <1>13, <2>2, <2>3, <2>4, <2>5
<1> QED
  BY <1>14, <1>15

LEMMA EmbeddedKeepsText ==
  ASSUME TextInv, ReadEmbedded
  PROVE  TextInv'
<1>1. /\ image' = image /\ pos' = pos /\ line' = line /\ image.embedded /\ image \in Images
  BY DEF ReadEmbedded, TextInv
<1>2. Given' = Given /\ Delimited' = Delimited
  BY <1>1 DEF Given, Delimited, InWindow
<1>3. CASE UpTo(InWindow, nul) = <<>>
  <2>1. step' = "panic"
    BY <1>3 DEF ReadEmbedded
  <2>2. PICK w : w = InWindow
    OBVIOUS
  <2>3. Sequence(w) /\ Len(w) \in Nat
    BY <1>1, <2>2, DataIs
  <2>4. PICK n \in 0 .. Len(w) : EndsAt(w, nul, n)
    BY <2>3, UpToIs
  <2>5. Sequence(SubSeq(w, 1, n)) /\ Len(SubSeq(w, 1, n)) = n
    BY <2>3, SequenceBegins
  <2>6. n = 0 /\ w = <<>>
    BY <1>3, <2>2, <2>4, <2>5 DEF EndsAt
  <2>7. ~Delimited
    BY <1>1, <2>2, <2>6 DEF Delimited, ToSet
  <2>8. Given = <<>>
    <3>1. 0 \in 0 .. Len(w) /\ 0 = Len(w) /\ \A k \in 1 .. 0 : w[k] # nul
      BY <2>6
    <3>2. PICK m \in 0 .. Len(w) : m = 0
      BY <3>1
    <3>3. Given = SubSeq(w, 1, m)
      BY <1>1, <2>2, <3>1, <3>2, GivenIs
    <3> QED
      BY <1>3, <2>2, <2>4, <2>6, <3>2, <3>3 DEF EndsAt
  <2> QED
    BY <1>1, <1>2, <2>1, <2>7, <2>8 DEF TextInv, Parsed, TextWhole, TurnedDownAtOnce
<1>4. CASE UpTo(InWindow, nul) # <<>>
  <2>1. /\ step' = "extents"
        /\ desc' = Front(UpTo(InWindow, nul)) \o Shortened(Last(UpTo(InWindow, nul)))
    BY <1>4 DEF ReadEmbedded
  <2>2. /\ Sequence(desc')
        /\ Delimited => desc' = Given
        /\ ~Delimited => IsPrefix(Front(Given), desc') /\ Len(desc') <= Len(Given)
    BY <1>1, <1>4, <2>1, EmbeddedText
  <2> QED
    BY <1>1, <1>2, <2>1, <2>2 DEF TextInv, Parsed, TextWhole, TurnedDownAtOnce
<1> QED
  BY <1>3, <1>4

LEMMA LineKeepsText ==
  ASSUME TextInv, ReadLine
  PROVE  TextInv'
<1>1. PICK data, p : data = image.data /\ p = pos
  OBVIOUS
<1>2. /\ image' = image /\ ~image.embedded /\ image \in Images /\ step = "text"
      /\ p \in 0 .. Len(data) /\ desc = SubSeq(data, 1, p) /\ line = <<>>
      /\ \A k \in 1 .. p : data[k] = nl
  BY <1>1 DEF ReadLine, TextInv, ReadSoFar
<1>3. Sequence(data) /\ Len(data) \in Nat /\ DOMAIN data = 1 .. Len(data)
  BY <1>1, <1>2, DataIs, SequenceHas
<1>4. PICK rest : rest = SubSeq(data, p + 1, Len(data))
  OBVIOUS
<1>5. /\ Sequence(rest) /\ Len(rest) = Len(data) - p
      /\ \A k \in 1 .. Len(data) - p : rest[k] = data[p + k]
  <2>1. PICK m \in 1 .. Len(data) + 1 : m = p + 1
    BY <1>2, <1>3
  <2>2. PICK n \in m - 1 .. Len(data) : n = Len(data)
    <3>1. Len(data) \in m - 1 .. Len(data)
      BY <1>2, <1>3, <2>1
    <3> QED
      BY <3>1
  <2>3. /\ Sequence(SubSeq(data, m, n)) /\ Len(SubSeq(data, m, n)) = n - m + 1
        /\ \A k \in 1 .. n - m + 1 : SubSeq(data, m, n)[k] = data[m + k - 1]
    BY <1>3, SequencePart
  <2>4. n - m + 1 = Len(data) - p
        /\ \A k \in 1 .. Len(data) - p : m + k - 1 = p + k
    BY <1>2, <1>3, <2>1, <2>2
  <2> QED
    BY <1>4, <2>1, <2>2, <2>3, <2>4
<1>6. PICK n \in 0 .. Len(rest) : EndsAt(rest, nl, n)
  BY <1>5, UpToIs
<1>7. PICK l : l = SubSeq(rest, 1, n)
  OBVIOUS
<1>8. /\ Sequence(l) /\ Len(l) = n /\ n \in Nat /\ p + n <= Len(data) /\ p \in Nat
      /\ \A k \in 1 .. n : l[k] = data[p + k]
      /\ NextLine = l
  <2>1. Len(rest) \in Nat /\ n \in Nat /\ p \in Nat /\ p + n <= Len(data)
    BY <1>2, <1>3, <1>5, <1>6
  <2>2. Sequence(l) /\ Len(l) = n /\ \A k \in 1 .. n : l[k] = rest[k]
    BY <1>5, <1>7, SequenceBegins
  <2>3. \A k \in 1 .. n : k \in 1 .. Len(data) - p
    BY <1>3, <2>1
  <2>4. NextLine = l
    BY <1>1, <1>4, <1>6, <1>7 DEF NextLine, EndsAt
  <2> QED
    BY <1>5, <2>1, <2>2, <2>3, <2>4
<1>9. /\ \A k \in 1 .. n - 1 : l[k] # nl
      /\ DOMAIN l = 1 .. n
  BY <1>5, <1>6, <1>8, SequenceHas DEF EndsAt
<1>10. line \o NextLine = l
  BY <1>2, <1>8 DEF Sequence
<1>11. /\ pos' = p + n /\ desc' = desc \o l
       /\ line' = IF Blank(l) THEN <<>> ELSE l
       /\ step' = IF Blank(l) THEN "text"
                  ELSE IF l[1].is = "magic" THEN "rest" ELSE "unrecognized"
  BY <1>1, <1>8, <1>10 DEF ReadLine
<1>12. desc' = SubSeq(data, 1, p + n) /\ p + n \in 0 .. Len(data)
  <2>1. PICK d, e : d = SubSeq(data, 1, p) /\ e = SubSeq(data, 1, p + n)
    OBVIOUS
  <2>2. Sequence(d) /\ Len(d) = p /\ \A k \in 1 .. p : d[k] = data[k]
    BY <1>2, <1>3, <2>1, SequenceBegins
  <2>3. PICK q \in 0 .. Len(data) : q = p + n
    BY <1>3, <1>8
  <2>4. Sequence(e) /\ Len(e) = q /\ \A k \in 1 .. q : e[k] = data[k]
    BY <1>3, <2>1, <2>3, SequenceBegins
  <2>5. /\ Sequence(d \o l) /\ Len(d \o l) = p + n
        /\ \A k \in 1 .. p + n : (d \o l)[k] = IF k <= p THEN d[k] ELSE l[k - p]
    BY <1>8, <2>2, SequencesJoin
  <2>6. ASSUME NEW k \in 1 .. p + n
        PROVE  (d \o l)[k] = data[k]
    <3>1. CASE k <= p
      <4>1. k \in 1 .. p
        BY <1>8, <3>1
      <4> QED
        BY <2>2, <2>5, <3>1, <4>1
    <3>2. CASE ~(k <= p)
      <4>1. k - p \in 1 .. n /\ p + (k - p) = k
        BY <1>8, <3>2
      <4> QED
        BY <1>8, <2>5, <3>2, <4>1
    <3> QED
      BY <3>1, <3>2
  <2>7. PICK j : j = d \o l
    OBVIOUS
  <2>8. j = e
    BY <2>3, <2>4, <2>5, <2>6, <2>7, SameSequence
  <2> QED
    BY <1>2, <1>11, <2>1, <2>3, <2>7, <2>8
<1>13. step' \in {"text", "rest", "unrecognized"}
  BY <1>11
<1>14. image'.data = data /\ image' \in Images /\ ~image'.embedded
  BY <1>1, <1>2
<1>15. CASE Blank(l)
  <2>1. ASSUME NEW k \in 1 .. p + n
        PROVE  data[k] = nl
    <3>1. CASE k <= p
      <4>1. k \in 1 .. p
        BY <1>8, <3>1
      <4> QED
        BY <1>2, <4>1
    <3>2. CASE ~(k <= p)
      <4>1. k - p \in 1 .. n /\ p + (k - p) = k
        BY <1>8, <3>2
      <4> QED
        BY <1>8, <1>9, <1>15, <4>1 DEF Blank
    <3> QED
      BY <3>1, <3>2
  <2>2. ReadSoFar'
    BY <1>11, <1>12, <1>14, <1>15, <2>1 DEF ReadSoFar
  <2> QED
    BY <1>11, <1>14, <1>15, <2>2 DEF TextInv, Parsed, TextWhole, TurnedDownAtOnce
<1>16. CASE ~Blank(l)
  <2>1. ReadSoFar'
    BY <1>11, <1>12, <1>14, <1>16 DEF ReadSoFar
  <2>2. ASSUME step' = "unrecognized"
        PROVE  TurnedDownAtOnce'
    <3>1. l[1].is # "magic"
      BY <1>11, <1>16, <2>2
    <3>2. n > 0 /\ l[1] # nl
      <4>1. PICK k \in 1 .. n : l[k] # nl
        BY <1>9, <1>16 DEF Blank
      <4>2. CASE k = 1
        BY <1>8, <4>1, <4>2
      <4>3. CASE k # 1
        <5>1. 1 \in 1 .. n - 1 /\ n > 0
          BY <1>8, <4>3
        <5> QED
          BY <1>9, <5>1
      <4> QED
        BY <4>2, <4>3
    <3>3. PICK f : f = p + 1
      OBVIOUS
    <3>4. f \in DOMAIN data /\ data[f] = l[1] /\ f \in Nat
      BY <1>3, <1>8, <3>2, <3>3
    <3>5. data[f].is \notin {"nl", "magic"}
      BY <1>1, <1>2, <3>1, <3>2, <3>4, ImagesAssumption
    <3>6. \A m \in 1 .. f - 1 : data[m] = nl
      BY <1>2, <1>8, <3>3
    <3>7. n <= 2
      <4> SUFFICES ASSUME n > 2
                   PROVE  FALSE
        BY <1>8
      <4>1. 1 \in 1 .. n - 1 /\ 2 \in 1 .. n - 1 /\ 1 \in 1 .. n /\ 2 \in 1 .. n
        BY <1>8
      <4>2. data[p + 1] # nl /\ data[p + 2] # nl
        BY <1>8, <1>9, <4>1
      <4>3. PICK q \in 2 .. Len(data) : q = p + 2 /\ q - 1 = p + 1
        <5>1. p + 2 \in 2 .. Len(data) /\ p + 2 - 1 = p + 1
          BY <1>3, <1>8
        <5> QED
          BY <1>8, <5>1
      <4>4. \A k \in 2 .. Len(data) : data[k - 1] \in {nl} \/ data[k] \in {nl}
        BY <1>1, <1>2, ImagesAssumption
      <4> QED
        BY <4>2, <4>3, <4>4
    <3>8. pos' <= f + 1
      BY <1>8, <1>11, <3>3, <3>7
    <3> QED
      BY <1>14, <3>4, <3>5, <3>6, <3>8 DEF TurnedDownAtOnce
  <2>3. step' # "unrecognized" => TurnedDownAtOnce'
    BY DEF TurnedDownAtOnce
  <2> QED
    BY <1>13, <1>14, <2>1, <2>2, <2>3 DEF TextInv, Parsed, TextWhole
<1> QED
  BY <1>15, <1>16

LEMMA RestKeepsText ==
  ASSUME TextInv, ReadRest
  PROVE  TextInv'
<1>1. PICK data, p : data = image.data /\ p = pos
  OBVIOUS
<1>2. /\ image' = image /\ ~image.embedded /\ image \in Images
      /\ p \in 0 .. Len(data) /\ desc = SubSeq(data, 1, p)
      /\ desc' = desc \o SubSeq(data, p + 1, Len(data)) /\ pos' = Len(data)
      /\ step' = "extents"
  BY <1>1 DEF ReadRest, TextInv, ReadSoFar
<1>3. Sequence(data) /\ Len(data) \in Nat
  BY <1>1, <1>2, DataIs
<1>4. PICK d, rest : d = SubSeq(data, 1, p) /\ rest = SubSeq(data, p + 1, Len(data))
  OBVIOUS
<1>5. Sequence(d) /\ Len(d) = p /\ \A k \in 1 .. p : d[k] = data[k]
  BY <1>2, <1>3, <1>4, SequenceBegins
<1>6. /\ Sequence(rest) /\ Len(rest) = Len(data) - p
      /\ \A k \in 1 .. Len(data) - p : rest[k] = data[p + k]
  <2>1. PICK m \in 1 .. Len(data) + 1 : m = p + 1
    BY <1>2, <1>3
  <2>2. PICK n \in m - 1 .. Len(data) : n = Len(data)
    <3>1. Len(data) \in m - 1 .. Len(data)
      BY <1>2, <1>3, <2>1
    <3> QED
      BY <3>1
  <2>3. /\ Sequence(SubSeq(data, m, n)) /\ Len(SubSeq(data, m, n)) = n - m + 1
        /\ \A k \in 1 .. n - m + 1 : SubSeq(data, m, n)[k] = data[m + k - 1]
    BY <1>3, SequencePart
  <2>4. n - m + 1 = Len(data) - p
        /\ \A k \in 1 .. Len(data) - p : m + k - 1 = p + k
    BY <1>2, <1>3, <2>1, <2>2
  <2> QED
    BY <1>4, <2>1, <2>2, <2>3, <2>4
<1>7. desc' = data
  <2>1. /\ Sequence(d \o rest) /\ Len(d \o rest) = Len(data)
        /\ \A k \in 1 .. Len(data) :
             (d \o rest)[k] = IF k <= p THEN d[k] ELSE rest[k - p]
    <3>1. p + (Len(data) - p) = Len(data)
      BY <1>2, <1>3
    <3> QED
      BY <1>5, <1>6, <3>1, SequencesJoin
  <2>2. ASSUME NEW k \in 1 .. Len(data)
        PROVE  (d \o rest)[k] = data[k]
    <3>1. CASE k <= p
      <4>1. k \in 1 .. p
        BY <1>2, <1>3, <3>1
      <4> QED
        BY <1>5, <2>1, <3>1, <4>1
    <3>2. CASE ~(k <= p)
      <4>1. k - p \in 1 .. Len(data) - p /\ p + (k - p) = k
        BY <1>2, <1>3, <3>2
      <4> QED
        BY <1>6, <2>1, <3>2, <4>1
    <3> QED
      BY <3>1, <3>2
  <2>3. PICK j : j = d \o rest
    OBVIOUS
  <2>4. j = data
    BY <1>3, <2>1, <2>2, <2>3, SameSequence
  <2> QED
    BY <1>2, <1>4, <2>3, <2>4
<1>8. Delimited' /\ Given' = data /\ ~image'.embedded
  BY <1>1, <1>2 DEF Delimited, Given
<1>9. ReadSoFar'
  BY <1>1, <1>2, <1>3 DEF ReadSoFar
<1> QED
  BY <1>1, <1>2, <1>3, <1>7, <1>8, <1>9 DEF TextInv, Parsed, TextWhole, TurnedDownAtOnce

\* The text is not looked at again, and its parsing changes nothing of it.
LEMMA ParsingKeepsText ==
  ASSUME TextInv, UNCHANGED <<image, pos, line, desc>>,
         step' = step \/ (step = "extents" /\ step' \in Parsed)
  PROVE  TextInv'
<1>1. Given' = Given /\ Delimited' = Delimited
  BY DEF Given, Delimited, InWindow
<1>2. step \in Parsed <=> step' \in Parsed
  BY DEF Parsed
<1>3. step' \notin Parsed => step' = step
  BY <1>2 DEF Parsed
<1>4. image.embedded \/ ReadSoFar'
  BY <1>2, <1>3 DEF TextInv, ReadSoFar, Parsed
<1>5. TurnedDownAtOnce'
  BY <1>2, <1>3 DEF TextInv, TurnedDownAtOnce, Parsed
<1>6. TextWhole'
  BY <1>1, <1>2, <1>3 DEF TextInv, TextWhole, Parsed
<1> QED
  BY <1>2, <1>3, <1>4, <1>5, <1>6 DEF TextInv, Parsed

-----------------------------------------------------------------------------
(***************************************************************************)
(* The invariant of the lines.                                             *)
(***************************************************************************)

\* the extents of the lines before the n-th
Extents(n) == Gathered(Lines(desc), {"extent"})[n - 1]

LinesInv ==
  /\ step \in {"text", "rest"} => at = 1 /\ eds = <<>>
  /\ step \in Parsed =>
       /\ at \in 1 .. Len(Lines(desc)) + 1
       /\ Sequence(eds) /\ Len(eds) = Len(Extents(at))
       /\ \A k \in 1 .. Len(eds) : eds[k] = Described(Extents(at)[k])
  /\ step = "badExtent" =>
       LET l == Lines(desc)[at]
       IN  at <= Len(Lines(desc)) /\ l.is = "extent" /\ ~(LineParses(l) /\ Takes(l))
  /\ step = "done" =>
       LET hints == OfKind(Lines(desc), {"hint"})
       IN  /\ at = Len(Lines(desc)) + 1
           /\ parent = IF hints = <<>> THEN None ELSE Head(hints).name

LEMMA LinesAre ==
  ASSUME Sequence(desc)
  PROVE  /\ Sequence(Lines(desc)) /\ Len(Lines(desc)) \in Nat
         /\ Extents(1) = <<>>
         /\ \A n \in 1 .. Len(Lines(desc)) + 1 : Sequence(Extents(n))
         /\ \A n \in 1 .. Len(Lines(desc)) :
              Extents(n + 1) = IF Lines(desc)[n].is = "extent"
                                 THEN Append(Extents(n), Lines(desc)[n]) ELSE Extents(n)
<1>1. PICK text : text = desc
  OBVIOUS
<1> DEFINE kinds == {"magic", "hint", "extent", "other"}
<1>2. Sequence(text) /\ Len(text) \in 0 .. Len(text)
  BY <1>1, SequenceHas
<1>3. PICK l : l = OfKind(text, kinds)
  OBVIOUS
<1>4. Sequence(l) /\ Len(l) \in Nat /\ Lines(desc) = l
  <2>1. Sequence(Gathered(text, kinds)[Len(text)])
    <3> HIDE DEF kinds
    <3> QED
      BY <1>2, GatheredIs
  <2> QED
    BY <1>1, <1>3, <2>1, SequenceHas DEF OfKind, Lines
<1>5. PICK g : g = Gathered(l, {"extent"})
  OBVIOUS
<1>6. /\ g[0] = <<>>
      /\ \A n \in 0 .. Len(l) : Sequence(g[n])
      /\ \A n \in 1 .. Len(l) :
           g[n] = IF l[n].is \in {"extent"} THEN Append(g[n - 1], l[n]) ELSE g[n - 1]
  BY <1>4, <1>5, GatheredIs
<1>7. \A n : Extents(n) = g[n - 1]
  BY <1>4, <1>5 DEF Extents
<1>8. /\ 1 - 1 = 0
      /\ \A n \in 1 .. Len(l) + 1 : n - 1 \in 0 .. Len(l)
      /\ \A n \in 1 .. Len(l) : n + 1 - 1 = n
  BY <1>4
<1>9. \A n \in 1 .. Len(l) + 1 : Sequence(Extents(n))
  BY <1>6, <1>7, <1>8
<1>10. \A n \in 1 .. Len(l) :
         Extents(n + 1) = IF l[n].is = "extent" THEN Append(Extents(n), l[n]) ELSE Extents(n)
  <2>1. \A n \in 1 .. Len(l) : Extents(n + 1) = g[n] /\ Extents(n) = g[n - 1]
    BY <1>7, <1>8
  <2> QED
    BY <1>6, <2>1
<1>11. Extents(1) = <<>>
  BY <1>6, <1>7, <1>8
<1> QED
  BY <1>4, <1>9, <1>10, <1>11

LEMMA LinesInvBegins ==
  ASSUME DescriptorsInit
  PROVE  LinesInv
BY DEF DescriptorsInit, StartOfText, LinesInv, Parsed

\* as long as the text is being read, there are no extents
LEMMA ReadingKeepsLines ==
  ASSUME LinesInv, TextInv', step \in {"text", "rest"}, UNCHANGED <<eds, at, parent>>,
         step' \in {"text", "rest", "unrecognized", "panic", "extents"}
  PROVE  LinesInv'
<1>1. at' = 1 /\ eds' = <<>>
  BY DEF LinesInv
<1>2. ASSUME step' \in Parsed
      PROVE  /\ 1 \in 1 .. Len(Lines(desc')) + 1
             /\ Sequence(eds') /\ Len(eds') = 0 /\ Extents(at)' = <<>>
  <2>1. PICK text : text = desc'
    OBVIOUS
  <2>2. Sequence(text)
    BY <1>2, <2>1 DEF TextInv
  <2>3. Sequence(Lines(text)) /\ Len(Lines(text)) \in Nat
    <3> DEFINE kinds == {"magic", "hint", "extent", "other"}
    <3>1. Len(text) \in 0 .. Len(text)
      BY <2>2, SequenceHas
    <3>2. Sequence(Gathered(text, kinds)[Len(text)])
      <4> HIDE DEF kinds
      <4> QED
        BY <2>2, <3>1, GatheredIs
    <3> QED
      BY <3>2, SequenceHas DEF Lines, OfKind
  <2>4. PICK l : l = Lines(text)
    OBVIOUS
  <2>5. Gathered(l, {"extent"})[0] = <<>>
    BY <2>3, <2>4, GatheredIs
  <2> QED
    BY <1>1, <2>1, <2>3, <2>4, <2>5 DEF Sequence, Extents
<1> QED
  BY <1>1, <1>2 DEF LinesInv, Parsed

LEMMA ExtentsKeepLines ==
  ASSUME TextInv, LinesInv, ReadExtents
  PROVE  LinesInv'
<1> DEFINE L == Lines(desc)
           l == Lines(desc)[at]
<1>1. /\ desc' = desc /\ parent' = parent /\ step = "extents" /\ step \in Parsed
      /\ at <= Len(L)
  BY DEF ReadExtents, Parsed
<1>2. Sequence(desc)
  BY <1>1 DEF TextInv
<1>3. /\ Sequence(L) /\ Len(L) \in Nat
      /\ \A n \in 1 .. Len(L) + 1 : Sequence(Extents(n))
      /\ \A n \in 1 .. Len(L) :
              Extents(n + 1) = IF L[n].is = "extent" THEN Append(Extents(n), L[n])
                               ELSE Extents(n)
  BY <1>2, LinesAre
<1>4. /\ at \in 1 .. Len(L) + 1 /\ Sequence(eds) /\ Len(eds) = Len(Extents(at))
      /\ \A k \in 1 .. Len(eds) : eds[k] = Described(Extents(at)[k])
  BY <1>1 DEF LinesInv
<1>5. at \in 1 .. Len(L) /\ at + 1 \in 1 .. Len(L) + 1
  BY <1>1, <1>3, <1>4
<1>6. \A n : Extents(n)' = Gathered(Lines(desc), {"extent"})[n' - 1]
  BY <1>1 DEF Extents
<1> HIDE DEF L, l
<1>7. CASE l.is # "extent" /\ at' = at + 1 /\ step' = step /\ eds' = eds
  <2>1. Extents(at + 1) = Extents(at)
    BY <1>3, <1>5, <1>7 DEF l, L
  <2>2. Extents(at)' = Extents(at)
    BY <1>1, <1>7, <2>1 DEF Extents
  <2> QED
    BY <1>1, <1>4, <1>5, <1>7, <2>2 DEF LinesInv, L
<1>8. CASE l.is = "extent" /\ at' = at + 1 /\ step' = step /\ eds' = Append(eds, Described(l))
  <2>1. PICK x, e : x = Extents(at) /\ e = eds
    OBVIOUS
  <2>2. PICK m : m = l
    OBVIOUS
  <2>3. Extents(at)' = Append(x, m)
    <3>1. Extents(at + 1) = Append(Extents(at), l)
      BY <1>3, <1>5, <1>8 DEF l, L
    <3> QED
      BY <1>1, <1>8, <2>1, <2>2, <3>1 DEF Extents
  <2>4. Sequence(x) /\ Sequence(e) /\ Len(e) = Len(x) /\ Len(e) \in Nat
        /\ \A k \in 1 .. Len(e) : e[k] = Described(x[k])
    BY <1>3, <1>4, <2>1, SequenceHas
  <2>5. /\ Sequence(Append(e, Described(m)))
        /\ Len(Append(e, Described(m))) = Len(e) + 1
        /\ \A k \in 1 .. Len(e) : Append(e, Described(m))[k] = e[k]
        /\ Append(e, Described(m))[Len(e) + 1] = Described(m)
    <3>1. PICK d : d = Described(m)
      OBVIOUS
    <3> QED
      BY <2>4, <3>1, SequenceAppends
  <2>6. /\ Len(Append(x, m)) = Len(x) + 1
        /\ \A k \in 1 .. Len(x) : Append(x, m)[k] = x[k]
        /\ Append(x, m)[Len(x) + 1] = m
    BY <2>4, SequenceAppends
  <2>7. \A k \in 1 .. Len(e) + 1 : Append(e, Described(m))[k] = Described(Append(x, m)[k])
    <3>1. \A k \in 1 .. Len(e) + 1 : k = Len(e) + 1 \/ k \in 1 .. Len(e)
      BY <2>4
    <3> QED
      BY <2>4, <2>5, <2>6, <3>1
  <2>8. eds' = Append(e, Described(m))
    BY <1>8, <2>1, <2>2
  <2> QED
    BY <1>1, <1>5, <1>8, <2>3, <2>4, <2>5, <2>6, <2>7, <2>8 DEF LinesInv, L
<1>9. CASE /\ l.is = "extent" /\ ~(LineParses(l) /\ Takes(l))
           /\ step' = "badExtent" /\ eds' = eds /\ at' = at
  <2>1. Extents(at)' = Extents(at)
    BY <1>1, <1>9 DEF Extents
  <2> QED
    BY <1>1, <1>3, <1>4, <1>5, <1>9, <2>1 DEF LinesInv, L, l
<1> QED
  BY <1>7, <1>8, <1>9 DEF ReadExtents, l

LEMMA ParentKeepsLines ==
  ASSUME TextInv, LinesInv, ReadParent
  PROVE  LinesInv'
<1>1. /\ desc' = desc /\ eds' = eds /\ at' = at /\ step = "extents" /\ step' = "done"
      /\ step \in Parsed /\ at > Len(Lines(desc))
      /\ parent' = IF OfKind(Lines(desc), {"hint"}) = <<>> THEN None
                   ELSE Head(OfKind(Lines(desc), {"hint"})).name
  BY DEF ReadParent, Parsed
<1>2. Sequence(desc)
  BY <1>1 DEF TextInv
<1>3. Len(Lines(desc)) \in Nat
  BY <1>2, LinesAre
<1>4. Extents(at)' = Extents(at)
  BY <1>1 DEF Extents
<1>5. at \in 1 .. Len(Lines(desc)) + 1
  BY <1>1 DEF LinesInv
<1>6. at = Len(Lines(desc)) + 1
  BY <1>1, <1>3, <1>5
<1> QED
  BY <1>1, <1>4, <1>5, <1>6 DEF LinesInv

-----------------------------------------------------------------------------
LEMMA DescriptorInvHolds == DescriptorsSpec => [](TextInv /\ LinesInv)
<1>1. DescriptorsInit => TextInv /\ LinesInv
  BY TextInvBegins, LinesInvBegins
<1>2. TextInv /\ LinesInv /\ [DescriptorsNext]_descriptorVars => TextInv' /\ LinesInv'
  <2> SUFFICES ASSUME TextInv, LinesInv, [DescriptorsNext]_descriptorVars
               PROVE  TextInv' /\ LinesInv'
    OBVIOUS
  <2>1. CASE ReadEmbedded
    BY <2>1, EmbeddedKeepsText, ReadingKeepsLines DEF ReadEmbedded
  <2>2. CASE ReadLine
    <3>1. step' \in {"text", "rest", "unrecognized"}
      BY <2>2 DEF ReadLine
    <3> QED
      BY <2>2, <3>1, LineKeepsText, ReadingKeepsLines DEF ReadLine
  <2>3. CASE ReadRest
    BY <2>3, RestKeepsText, ReadingKeepsLines DEF ReadRest
  <2>4. CASE ReadExtents
    BY <2>4, ParsingKeepsText, ExtentsKeepLines DEF ReadExtents, Parsed
  <2>5. CASE ReadParent
    BY <2>5, ParsingKeepsText, ParentKeepsLines DEF ReadParent, Parsed
  <2>6. CASE UNCHANGED descriptorVars
    <3>1. LinesInv'
      BY <2>6 DEF descriptorVars, LinesInv, Extents
    <3> QED
      BY <2>6, <3>1, ParsingKeepsText DEF descriptorVars
  <2> QED
    BY <2>1, <2>2, <2>3, <2>4, <2>5, <2>6 DEF DescriptorsNext
<1> QED
  BY <1>1, <1>2, PTL DEF DescriptorsSpec

\* The text that is parsed is whole, for descriptors of every length and windows of
\* every size.
THEOREM TextIsWhole == DescriptorsSpec => []TextWhole
<1>1. TextInv => TextWhole
  BY DEF TextInv
<1> QED
  BY <1>1, DescriptorInvHolds, PTL

\* However long a file is that is none, it is read up to its first line.
THEOREM NoDescriptorIsRead == DescriptorsSpec => []TurnedDownAtOnce
<1>1. TextInv => TurnedDownAtOnce
  BY DEF TextInv
<1> QED
  BY <1>1, DescriptorInvHolds, PTL

\* A descriptor that is accepted gives all of its extents, in order, and the parent
\* that it names first, however many lines it has.
THEOREM ExtentsAreKept == DescriptorsSpec => []NoExtentLost
<1>1. TextInv /\ LinesInv => NoExtentLost
  <2> SUFFICES ASSUME TextInv, LinesInv, step = "done", Delimited
               PROVE  /\ Len(eds) = Len(GivenExtents)
                      /\ \A k \in DOMAIN eds :
                           /\ eds[k].sectors = GivenExtents[k].sectors
                           /\ eds[k].name = GivenExtents[k].name
                           /\ eds[k].kind = "FLAT" => eds[k].offset = GivenExtents[k].offset
                      /\ \A k \in DOMAIN Lines(Given) :
                           Lines(Given)[k].is = "hint"
                             /\ (\A m \in 1 .. k - 1 : Lines(Given)[m].is # "hint")
                           => parent = Lines(Given)[k].name
    BY DEF NoExtentLost
  <2>1. step \in Parsed /\ Given = desc /\ Sequence(desc)
    BY DEF Parsed, TextInv, TextWhole
  <2>2. Sequence(Lines(desc)) /\ Len(Lines(desc)) \in Nat
        /\ DOMAIN Lines(desc) = 1 .. Len(Lines(desc))
    BY <2>1, LinesAre, SequenceHas
  <2>3. GivenExtents = Extents(at)
    <3>1. at = Len(Lines(desc)) + 1 /\ Len(Lines(desc)) + 1 - 1 = Len(Lines(desc))
      BY <2>2 DEF LinesInv
    <3> QED
      BY <2>1, <3>1 DEF GivenExtents, OfKind, Extents
  <2>4. /\ Len(eds) = Len(GivenExtents) /\ DOMAIN eds = 1 .. Len(eds)
        /\ \A k \in 1 .. Len(eds) : eds[k] = Described(GivenExtents[k])
    BY <2>1, <2>3, SequenceHas DEF LinesInv
  <2>5. ASSUME NEW k \in DOMAIN Lines(Given), Lines(Given)[k].is = "hint",
               \A m \in 1 .. k - 1 : Lines(Given)[m].is # "hint"
        PROVE  parent = Lines(Given)[k].name
    <3>1. PICK l : l = Lines(desc)
      OBVIOUS
    <3>2. OfKind(l, {"hint"}) # <<>> /\ Head(OfKind(l, {"hint"})) = l[k]
      BY <2>1, <2>2, <2>5, <3>1, FirstComesFirst
    <3> QED
      BY <2>1, <3>1, <3>2 DEF LinesInv
  <2> QED
    BY <2>4, <2>5 DEF Described
<1> QED
  BY <1>1, DescriptorInvHolds, PTL

\* A descriptor is refused for a line that it has and that is not as the format has
\* it, or for an extent of zeros.
THEOREM RefusalsHaveACause == DescriptorsSpec => []RefusedForCause
<1>1. TextInv /\ LinesInv => RefusedForCause
  <2> SUFFICES ASSUME TextInv, LinesInv, step = "badExtent", Delimited
               PROVE  RefusedForCause
    BY DEF RefusedForCause
  <2>1. step \in Parsed /\ Given = desc /\ Sequence(desc)
    BY DEF Parsed, TextInv, TextWhole
  <2>2. PICK L : L = Lines(desc)
    OBVIOUS
  <2>3. Sequence(L) /\ Len(L) \in Nat
    BY <2>1, <2>2, LinesAre
  <2>4. PICK l : l = L[at]
    OBVIOUS
  <2>5. at \in 1 .. Len(L) /\ l.is = "extent" /\ ~(LineParses(l) /\ Takes(l))
    BY <2>1, <2>2, <2>3, <2>4 DEF LinesInv
  <2>6. PICK x : x = OfKind(L, {"extent"})
    OBVIOUS
  <2>7. Sequence(x) /\ \E k \in 1 .. Len(x) : x[k] = l
    <3>1. PICK n \in 0 .. Len(L) : n = Len(L)
      BY <2>3
    <3>2. x = Gathered(L, {"extent"})[n]
      BY <2>6, <3>1 DEF OfKind
    <3>3. \A m \in 1 .. n : L[m].is \in {"extent"} => \E k \in 1 .. Len(x) : x[k] = L[m]
      <4>1. GatheredFrom(L, {"extent"}, n)
        BY <2>3, NothingIsMissing
      <4> QED
        BY <3>2, <4>1 DEF GatheredFrom
    <3>4. Sequence(x)
      BY <2>3, <3>2, GatheredIs
    <3> QED
      BY <2>4, <2>5, <3>1, <3>3, <3>4
  <2>8. PICK k \in DOMAIN GivenExtents : GivenExtents[k] = l
    BY <2>1, <2>2, <2>6, <2>7, SequenceHas DEF GivenExtents
  <2>9. \/ l.sectors < 0 \/ l.kind = Bad \/ l.name = Bad \/ l.offset = BadNumber
        \/ l.name = None \/ l.kind = "ZERO"
        \/ (l.kind = "FLAT") # (l.offset # NoNumber) /\ l.offset # 0
        \/ l.offset = 0 /\ l.kind \notin {"FLAT", "SPARSE", "SESPARSE"}
        \/ l.kind = "FLAT" /\ l.offset = NoNumber
    <3>1. CASE ~LineParses(l)
      BY <3>1 DEF LineParses, BadNumber, None, Bad
    <3>2. CASE LineParses(l) /\ ~Takes(l) /\ l.kind = "FLAT"
      BY <3>2 DEF Takes, LineParses
    <3>3. CASE LineParses(l) /\ ~Takes(l) /\ l.kind \in {"SPARSE", "SESPARSE"}
      BY <3>3 DEF Takes, LineParses
    <3>4. CASE LineParses(l) /\ ~Takes(l) /\ l.kind \notin {"ZERO", "FLAT", "SPARSE", "SESPARSE"}
      BY <3>4 DEF Takes, LineParses
    <3> QED
      BY <2>5, <3>1, <3>2, <3>3, <3>4
  <2> QED
    BY <2>8, <2>9 DEF RefusedForCause
<1> QED
  BY <1>1, DescriptorInvHolds, PTL

-----------------------------------------------------------------------------
(***************************************************************************)
(* The two together, as handle_image has them.                             *)
(***************************************************************************)

\* handle_image reads a header as Headers has it and a descriptor as Descriptors does,
\* whatever it does in between.
THEOREM PartsOfAnImage == FormatsSpec => HeadersSpec /\ DescriptorsSpec
<1>1. FormatsInit => HeadersInit /\ DescriptorsInit
  BY ContentsAssumption DEF FormatsInit, HeadersInit, DescriptorsInit
<1>2. [FormatsNext]_formatVars => [HeadersNext]_headerVars /\ [DescriptorsNext]_descriptorVars
  BY DEF FormatsNext, formatVars, ReadHeader, ReadDescriptor, ReadTables, FindParent,
         DescriptorsNext
<1> QED
  BY <1>1, <1>2, PTL DEF FormatsSpec, HeadersSpec, DescriptorsSpec

\* For files of every content, numbers of every width and texts of every length, what
\* handle_image makes of a file is right: one header is used for all, and the text and
\* its extents are whole or refused for a cause.
THEOREM ImagesAreReadRight ==
  FormatsSpec => /\ [](SameHeader /\ TablesCover /\ OnlyWrapsPass)
                 /\ [](TextWhole /\ TurnedDownAtOnce /\ NoExtentLost /\ RefusedForCause)
BY PartsOfAnImage, OneHeader, TablesHoldTheDisk, OnlyWrapsGetBy, TextIsWhole,
   NoDescriptorIsRead, ExtentsAreKept, RefusalsHaveACause, PTL
==============================================================================
