--------------------------- MODULE DatasetReadProofs --------------------------
(* That a reader finds what the metadata says: the rows of an episode in the  *)
(* table of all files, its frames in the videos. Proved for every number of   *)
(* files and cameras, size of the queues, loss of frames, time-out, failure   *)
(* and crash. And that a save goes on to its end.                             *)
EXTENDS DatasetWriterProofs, WellFoundedInduction

-------------------------------------------------------------------------------
(* Induction over the files: FlattenSeq recurs over them.                   *)

(* Every nonempty set of numbers has a least one.                           *)
LEMMA LeastNumber ==
  ASSUME NEW T, T \subseteq Nat, T # {}
  PROVE  \E x \in T : \A y \in T : x <= y
<1> DEFINE Less == OpToRel(<, Nat)
<1>1. IsWellFoundedOn(Less, Nat)
  BY NatLessThanWellFounded
<1>2. \A x \in Nat, y \in Nat : y < x => <<y, x>> \in Less
  BY DEF OpToRel
<1> HIDE DEF Less
<1>3. \E x \in T : \A y \in T : <<y, x>> \notin Less
  BY <1>1, WFMin
<1>4. \A x \in T, y \in T : x <= y \/ y < x
  OBVIOUS
<1> QED
  BY <1>2, <1>3, <1>4

(* Induction up to n: the least number left out has no predecessor.         *)
LEMMA UpToAll ==
  ASSUME NEW n \in Nat, NEW T, 0 \in T, \A i \in 1..n : i - 1 \in T => i \in T
  PROVE  0..n \subseteq T
<1> DEFINE C == (0..n) \ T
<1> SUFFICES ASSUME C # {} PROVE FALSE
  OBVIOUS
<1>1. C \subseteq Nat
  OBVIOUS
<1>2. PICK x \in C : \A y \in C : x <= y
  <2> HIDE DEF C
  <2> QED
    BY <1>1, LeastNumber
<1>3. x \in 1..n /\ x \notin T
  BY <1>2
<1>4. x - 1 \in 0..n /\ x - 1 \notin C
  BY <1>2, <1>3
<1> QED
  BY <1>3, <1>4

(* The rows of the first n files.                                           *)
RowsTo(d, n) == Seqs!FlattenSeq([f \in 1..n |-> d[f].rows])

Joins(h, d, n) ==
  /\ h \in [0..n -> Seq(Row)]
  /\ h[0] = <<>>
  /\ \A f \in 1..n : h[f] = h[f - 1] \o d[f].rows

LEMMA JoinExists ==
  ASSUME NEW d \in Seq(DataFile)
  PROVE  \E h : Joins(h, d, Len(d))
<1> DEFINE T == {n \in 0..Len(d) : \E h : Joins(h, d, n)}
<1>1. 0 \in T
  <2> DEFINE h == [i \in 0..0 |-> <<>>]
  <2>1. <<>> \in Seq(Row)
    OBVIOUS
  <2>2. Joins(h, d, 0)
    BY <2>1 DEF Joins
  <2> QED
    BY <2>2
<1>2. ASSUME NEW n \in 1..Len(d), n - 1 \in T PROVE n \in T
  <2>1. PICK g : Joins(g, d, n - 1)
    BY <1>2
  <2>2. d[n].rows \in Seq(Row)
    <3>1. d[n] \in DataFile
      OBVIOUS
    <3> QED
      BY <3>1 DEF DataFile
  <2> DEFINE x == g[n - 1] \o d[n].rows
             h == [i \in 0..n |-> IF i = n THEN x ELSE g[i]]
  <2>3. g[n - 1] \in Seq(Row)
    BY <2>1 DEF Joins
  <2>4. x \in Seq(Row)
    BY <2>2, <2>3, ConcatProperties
  <2>5. \A f \in 1..n : h[f] = h[f - 1] \o d[f].rows
    <3> HIDE DEF x
    <3> TAKE f \in 1..n
    <3>1. CASE f = n
      BY <3>1 DEF x
    <3>2. CASE f # n
      <4>1. f \in 1..(n - 1) /\ f - 1 \in 0..n /\ f - 1 # n
        BY <3>2
      <4>2. h[f] = g[f] /\ h[f - 1] = g[f - 1]
        BY <3>2, <4>1
      <4> QED
        BY <2>1, <4>1, <4>2 DEF Joins
    <3> QED
      BY <3>1, <3>2
  <2>6. h \in [0..n -> Seq(Row)] /\ h[0] = <<>>
    <3> HIDE DEF x
    <3>1. \A i \in 0..n : i # n => i \in 0..(n - 1)
      OBVIOUS
    <3>2. \A i \in 0..n : i # n => g[i] \in Seq(Row)
      BY <2>1, <3>1 DEF Joins
    <3>3. g[0] = <<>>
      BY <2>1 DEF Joins
    <3> QED
      BY <2>4, <3>2, <3>3
  <2>7. Joins(h, d, n)
    <3> HIDE DEF h
    <3> QED
      BY <2>5, <2>6 DEF Joins
  <2> QED
    BY <2>7
<1>3. 0..Len(d) \subseteq T
  <2> HIDE DEF T
  <2>1. Len(d) \in Nat
    OBVIOUS
  <2> QED
    BY <1>1, <1>2, <2>1, UpToAll
<1>4. Len(d) \in 0..Len(d)
  OBVIOUS
<1> QED
  BY <1>3, <1>4

(* What FlattenSeq returns for the first n files is what h has for them: its *)
(* own function, whatever is chosen for it, agrees with h.                   *)
LEMMA FlattenJoins ==
  ASSUME NEW d \in Seq(DataFile), NEW h, Joins(h, d, Len(d)), NEW n \in 0..Len(d)
  PROVE  RowsTo(d, n) = h[n]
<1> DEFINE s == [f \in 1..n |-> d[f].rows]
<1>1. \A f \in 1..n : s[f] \in Seq(Row)
  <2> TAKE f \in 1..n
  <2>1. d[f] \in DataFile
    OBVIOUS
  <2> QED
    BY <2>1 DEF DataFile
<1>2. s \in Seq(Seq(Row)) /\ Len(s) = n
  <2>1. n \in Nat
    OBVIOUS
  <2> QED
    BY <1>1, <2>1
<1>3. \A f \in 1..n : s[f] = d[f].rows
  OBVIOUS
<1>4. RowsTo(d, n) = Seqs!FlattenSeq(s)
  BY DEF RowsTo
<1> HIDE DEF s
<1>5. /\ h[0] = <<>> /\ h \in [0..Len(d) -> Seq(Row)]
      /\ \A f \in 1..n : h[f] = h[f - 1] \o s[f]
      /\ n # 0 => h[1] = h[0] \o s[1]
  <2>1. \A f \in 1..n : f \in 1..Len(d)
    OBVIOUS
  <2>2. \A f \in 1..n : h[f] = h[f - 1] \o s[f]
    BY <1>3, <2>1 DEF Joins
  <2>3. n # 0 => 1 \in 1..n /\ 1 - 1 = 0
    OBVIOUS
  <2>4. n # 0 => h[1] = h[0] \o s[1]
    BY <2>2, <2>3
  <2> QED
    BY <2>2, <2>4 DEF Joins
<1>6. CASE n = 0
  <2>1. Seqs!FlattenSeq(s) = s
    BY <1>2, <1>6 DEF Seqs!FlattenSeq
  <2>2. s = <<>>
    BY <1>2, <1>6
  <2> QED
    BY <1>4, <1>5, <1>6, <2>1, <2>2
<1>7. CASE n # 0
  <2> DEFINE flatten == CHOOSE g : g = [i \in 1..n |-> IF i = 1 THEN s[i] ELSE g[i - 1] \o s[i]]
             part == [i \in 1..n |-> h[i]]
  <2>1. Seqs!FlattenSeq(s) = flatten[n]
    BY <1>2, <1>7 DEF Seqs!FlattenSeq
  <2>2. part = [i \in 1..n |-> IF i = 1 THEN s[i] ELSE part[i - 1] \o s[i]]
    <3> SUFFICES ASSUME NEW i \in 1..n
                 PROVE  h[i] = IF i = 1 THEN s[i] ELSE part[i - 1] \o s[i]
      OBVIOUS
    <3>1. CASE i = 1
      <4>1. h[1] = <<>> \o s[1]
        BY <1>5, <1>7
      <4>2. s[1] \in Seq(Row)
        BY <1>1, <3>1
      <4> QED
        BY <3>1, <4>1, <4>2, ConcatEmptySeq
    <3>2. CASE i # 1
      <4>1. i - 1 \in 1..n
        BY <3>2
      <4> QED
        BY <1>5, <3>2, <4>1
    <3> QED
      BY <3>1, <3>2
  <2> HIDE DEF part
  <2>3. flatten = [i \in 1..n |-> IF i = 1 THEN s[i] ELSE flatten[i - 1] \o s[i]]
    BY <2>2
  <2> HIDE DEF flatten
  <2> DEFINE T == {i \in 0..n : i = 0 \/ flatten[i] = h[i]}
  <2>4. 0 \in T
    OBVIOUS
  <2>5. ASSUME NEW i \in 1..n, i - 1 \in T PROVE i \in T
    <3>1. CASE i = 1
      <4>1. flatten[1] = s[1]
        BY <2>3, <3>1
      <4>2. h[1] = <<>> \o s[1]
        BY <1>5, <1>7
      <4>3. s[1] \in Seq(Row)
        BY <1>1, <3>1
      <4> QED
        BY <3>1, <4>1, <4>2, <4>3, ConcatEmptySeq
    <3>2. CASE i # 1
      <4>1. flatten[i] = flatten[i - 1] \o s[i] /\ h[i] = h[i - 1] \o s[i]
        BY <1>5, <2>3, <3>2
      <4>2. flatten[i - 1] = h[i - 1]
        BY <2>5, <3>2
      <4>3. flatten[i] = h[i]
        BY <4>1, <4>2
      <4> QED
        BY <4>3
    <3> QED
      BY <3>1, <3>2
  <2>6. 0..n \subseteq T
    <3> HIDE DEF T
    <3>1. n \in Nat
      OBVIOUS
    <3> QED
      BY <2>4, <2>5, <3>1, UpToAll
  <2>7. flatten[n] = h[n]
    BY <1>7, <2>6
  <2> QED
    BY <1>4, <2>1, <2>7
<1> QED
  BY <1>6, <1>7

(* The rows of the first files are sequences, none for no file, and each     *)
(* file adds its own.                                                        *)
LEMMA RowsToStep ==
  ASSUME NEW d \in Seq(DataFile)
  PROVE  /\ \A n \in 0..Len(d) : RowsTo(d, n) \in Seq(Row)
         /\ RowsTo(d, 0) = <<>>
         /\ \A n \in 1..Len(d) : RowsTo(d, n) = RowsTo(d, n - 1) \o d[n].rows
<1>1. PICK h : Joins(h, d, Len(d))
  BY JoinExists
<1>2. \A n \in 0..Len(d) : RowsTo(d, n) = h[n]
  BY <1>1, FlattenJoins
<1>3. Len(d) \in Nat
  OBVIOUS
<1>4. \A n \in 1..Len(d) : n \in 0..Len(d) /\ n - 1 \in 0..Len(d)
  BY <1>3
<1> QED
  BY <1>1, <1>2, <1>3, <1>4 DEF Joins

(* Files after the n-th do not matter to the rows of the first n.           *)
LEMMA RowsToSame ==
  ASSUME NEW d \in Seq(DataFile), NEW e \in Seq(DataFile), NEW n \in 0..Len(d), n <= Len(e),
         \A f \in 1..n : d[f].rows = e[f].rows
  PROVE  RowsTo(d, n) = RowsTo(e, n)
<1>1. [f \in 1..n |-> d[f].rows] = [f \in 1..n |-> e[f].rows]
  OBVIOUS
<1> QED
  BY <1>1 DEF RowsTo

(* More files leave the rows before them in their places.                   *)
LEMMA RowsToGrow ==
  ASSUME NEW d \in Seq(DataFile), NEW m \in 0..Len(d), NEW n \in m..Len(d)
  PROVE  /\ Len(RowsTo(d, m)) <= Len(RowsTo(d, n))
         /\ \A k \in 1..Len(RowsTo(d, m)) : RowsTo(d, n)[k] = RowsTo(d, m)[k]
<1> DEFINE P(i) == /\ Len(RowsTo(d, m)) <= Len(RowsTo(d, i))
                   /\ \A k \in 1..Len(RowsTo(d, m)) : RowsTo(d, i)[k] = RowsTo(d, m)[k]
           T == {i \in 0..n : i < m \/ P(i)}
<1>1. m \in Nat /\ n \in Nat /\ Len(d) \in Nat /\ m <= n /\ n <= Len(d)
  OBVIOUS
<1>2. Len(RowsTo(d, m)) \in Nat
  BY RowsToStep
<1>3. P(m)
  BY <1>2
<1>4. 0 \in T
  BY <1>1, <1>3
<1>5. ASSUME NEW i \in 1..n, i - 1 \in T PROVE i \in T
  <2>1. CASE i <= m
    BY <1>1, <1>3, <2>1
  <2>2. CASE i > m
    <3>1. /\ Len(RowsTo(d, m)) <= Len(RowsTo(d, i - 1))
          /\ \A k \in 1..Len(RowsTo(d, m)) : RowsTo(d, i - 1)[k] = RowsTo(d, m)[k]
      <4>1. P(i - 1)
        BY <1>1, <1>5, <2>2
      <4> QED
        BY <4>1
    <3>2. RowsTo(d, i - 1) \in Seq(Row) /\ RowsTo(d, i) = RowsTo(d, i - 1) \o d[i].rows
      <4>1. i \in 1..Len(d) /\ i - 1 \in 0..Len(d)
        BY <1>1
      <4> QED
        BY <4>1, RowsToStep
    <3>3. d[i].rows \in Seq(Row)
      <4>1. d[i] \in DataFile
        BY <1>1
      <4> QED
        BY <4>1 DEF DataFile
    <3> DEFINE a == RowsTo(d, i - 1)
               b == d[i].rows
    <3>4. /\ Len(RowsTo(d, i)) = Len(a) + Len(b) /\ Len(a) \in Nat /\ Len(b) \in Nat
          /\ \A k \in 1..Len(a) : RowsTo(d, i)[k] = a[k]
      <4> HIDE DEF a, b
      <4>1. a \in Seq(Row) /\ b \in Seq(Row) /\ RowsTo(d, i) = a \o b
        BY <3>2, <3>3 DEF a, b
      <4> QED
        BY <4>1, ConcatProperties
    <3>5. \A k \in 1..Len(RowsTo(d, m)) : k \in 1..Len(a)
      BY <1>2, <3>1, <3>4
    <3>6. Len(RowsTo(d, m)) <= Len(RowsTo(d, i))
      <4>1. Len(RowsTo(d, m)) <= Len(a)
        BY <3>1
      <4> HIDE DEF a, b
      <4> QED
        BY <1>2, <3>4, <4>1
    <3>7. \A k \in 1..Len(RowsTo(d, m)) : RowsTo(d, i)[k] = RowsTo(d, m)[k]
      BY <3>1, <3>4, <3>5
    <3> QED
      BY <3>6, <3>7
  <2> QED
    BY <1>1, <2>1, <2>2
<1>6. 0..n \subseteq T
  <2> HIDE DEF T
  <2> QED
    BY <1>1, <1>4, <1>5, UpToAll
<1>7. n \in T
  BY <1>1, <1>6
<1> QED
  BY <1>1, <1>7

-------------------------------------------------------------------------------
(* The invariant of the table.                                              *)

(* The n-th episode's file, and the position after its rows.                *)
FileOf(n) == IF n = 0 THEN 0 ELSE meta[n].file
EndOf(n) == IF n = 0 THEN 0 ELSE meta[n].to

(* The rows of an episode are in t where its metadata says.                 *)
Placed(t, e) ==
  /\ e.to = e.from + e.length
  /\ e.to <= Len(t)
  /\ \A k \in 1..e.length :
       t[e.from + k] = [take |-> e.take, frame |-> k, index |-> e.from + k - 1]

EpisodesPlaced ==
  \A i \in 1..Len(meta) : Unspoilt(i) =>
    meta[i].index = i - 1 /\ Placed(RowsTo(data, meta[i].file), meta[i])

(* Where the rows of the episode being saved are in the open file.          *)
RowsIn == {"sentinel", "collect", "cleanup", "video", "meta"}

(* The next episode goes where the last one ends: the counts are those of    *)
(* the saved episodes, and nothing but the rows being saved follows theirs.  *)
GoesOn ==
  /\ main # "info" => info.episodes = Len(meta) /\ info.frames = EndOf(Len(meta))
  /\ main = "info" =>
       /\ meta # <<>> /\ open = FileOf(Len(meta))
       /\ info.episodes = Len(meta) - 1 /\ info.frames = meta[Len(meta)].from
       /\ size = meta[Len(meta)].length
  /\ main \in RowsIn =>
       /\ open \in {FileOf(Len(meta)), FileOf(Len(meta)) + 1}
       /\ Len(RowsTo(data, open)) = EndOf(Len(meta)) + size
       /\ Placed(RowsTo(data, open), SavedEpisode)
  /\ main \notin RowsIn => open \in {0, FileOf(Len(meta))}
  /\ main \notin RowsIn \/ open # FileOf(Len(meta)) =>
       Len(RowsTo(data, FileOf(Len(meta)))) = EndOf(Len(meta))

(* So it would if the metadata not on disk were lost and info.json counted no *)
(* episode of it.                                                            *)
Recovers ==
  /\ info.episodes >= durable
  /\ info.episodes = durable => info.frames = EndOf(durable)
  /\ Len(RowsTo(data, FileOf(durable))) = EndOf(durable)

TableInv ==
  /\ EpisodesPlaced
  /\ Unspoilt(Len(meta) + 1) => GoesOn
  /\ Unspoilt(durable + 1) => Recovers

LEMMA MetaTypes ==
  ASSUME TypeOK
  PROVE  /\ Len(meta) \in Nat /\ durable \in 0..Len(meta) /\ spoilt \subseteq Nat
         /\ info.episodes \in Nat /\ info.frames \in Nat
         /\ \A i \in 1..Len(meta) :
              /\ meta[i] \in Episode
              /\ meta[i].from \in Nat /\ meta[i].to \in Nat /\ meta[i].length \in Nat
              /\ meta[i].file \in Nat /\ meta[i].index \in Nat
<1>1. MetaType
  BY TypeParts
<1>2. \A i \in 1..Len(meta) : meta[i] \in Episode
  BY <1>1 DEF MetaType
<1>3. ASSUME NEW e \in Episode
      PROVE  /\ e.from \in Nat /\ e.to \in Nat /\ e.length \in Nat
             /\ e.file \in Nat /\ e.index \in Nat
  BY DEF Episode
<1> QED
  BY <1>1, <1>2, <1>3 DEF MetaType

LEMMA FileOfType ==
  ASSUME TypeOK, FilesOK, NEW n \in 0..Len(meta)
  PROVE  /\ FileOf(n) \in 0..Len(data) /\ EndOf(n) \in Nat /\ Len(data) \in Nat
         /\ Start = EndOf(Len(meta)) /\ FirstFile = FileOf(Len(meta)) + 1
<1>1. Len(data) \in Nat
  BY TypeParts DEF DiskType
<1>2. n # 0 => meta[n].file \in 1..Len(data) /\ meta[n].to \in Nat
  BY MetaTypes DEF FilesOK
<1>3. meta = <<>> <=> Len(meta) = 0
  <2>1. meta \in Seq(Episode)
    BY TypeParts DEF MetaType
  <2> QED
    BY <2>1
<1> QED
  BY <1>1, <1>2, <1>3 DEF FileOf, EndOf, Start, FirstFile, Last

(* Appending to a table keeps what is in it.                                *)
LEMMA PlacedKept ==
  ASSUME NEW e, e.from \in Nat, e.length \in Nat, NEW s, NEW t, Len(s) \in Nat, Len(t) \in Nat,
         Placed(s, e), Len(s) <= Len(t), \A k \in 1..Len(s) : t[k] = s[k]
  PROVE  Placed(t, e)
<1>1. e.to <= Len(t)
  BY DEF Placed
<1>2. ASSUME NEW k \in 1..e.length
      PROVE  t[e.from + k] = [take |-> e.take, frame |-> k, index |-> e.from + k - 1]
  <2>1. e.from + k \in 1..Len(s)
    BY DEF Placed
  <2> QED
    BY <2>1 DEF Placed
<1> QED
  BY <1>1, <1>2 DEF Placed

LEMMA UnspoiltBefore ==
  ASSUME TypeOK, NEW n \in Nat, NEW m \in 0..n
  PROVE  Unspoilt(n) => Unspoilt(m)
<1>1. \A k \in spoilt : k \in Nat
  BY MetaTypes
<1> QED
  BY <1>1 DEF Unspoilt

(* Episodes stay placed if their files keep their rows or gain some.        *)
LEMMA EpisodesStay ==
  ASSUME TypeOK, TypeOK', FilesOK, EpisodesPlaced, spoilt \subseteq spoilt',
         Len(meta') <= Len(meta),
         \A i \in 1..Len(meta') : meta'[i] = meta[i],
         \A i \in 1..Len(meta') :
           /\ meta[i].file <= Len(data')
           /\ Len(RowsTo(data, meta[i].file)) <= Len(RowsTo(data', meta[i].file))
           /\ \A k \in 1..Len(RowsTo(data, meta[i].file)) :
                RowsTo(data', meta[i].file)[k] = RowsTo(data, meta[i].file)[k]
  PROVE  EpisodesPlaced'
<1> SUFFICES ASSUME NEW i \in 1..Len(meta'), Unspoilt(i)'
             PROVE  meta'[i].index = i - 1 /\ Placed(RowsTo(data', meta'[i].file), meta'[i])
  BY DEF EpisodesPlaced
<1>1. Unspoilt(i)
  BY DEF Unspoilt
<1>2. i \in 1..Len(meta) /\ meta'[i] = meta[i]
  <2>1. Len(meta') \in Nat /\ Len(meta) \in Nat
    <3>1. meta' \in Seq(Episode)
      BY TypePartsNext DEF MetaType
    <3> QED
      BY <3>1, MetaTypes
  <2> QED
    BY <2>1
<1>3. meta[i].index = i - 1 /\ Placed(RowsTo(data, meta[i].file), meta[i])
  BY <1>1, <1>2 DEF EpisodesPlaced
<1>4. Len(RowsTo(data, meta[i].file)) \in Nat /\ Len(RowsTo(data', meta[i].file)) \in Nat
  <2>1. data \in Seq(DataFile) /\ data' \in Seq(DataFile)
    BY TypeParts, TypePartsNext DEF DiskType
  <2>2. meta[i].file \in 1..Len(data) /\ meta[i].file <= Len(data')
    BY <1>2 DEF FilesOK
  <2>3. meta[i].file \in 0..Len(data) /\ meta[i].file \in 0..Len(data')
    BY <2>1, <2>2
  <2>4. RowsTo(data, meta[i].file) \in Seq(Row) /\ RowsTo(data', meta[i].file) \in Seq(Row)
    BY <2>1, <2>3, RowsToStep
  <2> QED
    BY <2>4
<1>5. meta[i].from \in Nat /\ meta[i].length \in Nat
  BY <1>2, MetaTypes
<1>6. Placed(RowsTo(data', meta[i].file), meta[i])
  BY <1>3, <1>4, <1>5, PlacedKept
<1> QED
  BY <1>2, <1>3, <1>6

(* Steps that touch neither rows nor metadata nor counts.                   *)
LEMMA QuietTable ==
  ASSUME TypeOK, TypeOK', StoreInv, TableInv,
         UNCHANGED <<data, open, meta, durable, info, spoilt>>,
         main' \in RowsIn <=> main \in RowsIn, main' = "info" <=> main = "info",
         main \in RowsIn \cup {"info"} => UNCHANGED <<size, take>>
  PROVE  TableInv'
<1>1. EpisodesPlaced'
  BY DEF TableInv, EpisodesPlaced, Placed, Unspoilt, RowsTo
<1>2. Recovers' <=> Recovers
  BY DEF Recovers, FileOf, EndOf
<1>3. GoesOn => GoesOn'
  <2>1. main \in RowsIn => SavedEpisode'.take = SavedEpisode.take
                           /\ SavedEpisode'.length = SavedEpisode.length
                           /\ SavedEpisode'.from = SavedEpisode.from
                           /\ SavedEpisode'.to = SavedEpisode.to
    BY DEF SavedEpisode, Start
  <2>2. ASSUME main \in RowsIn, Placed(RowsTo(data, open), SavedEpisode)
        PROVE  Placed(RowsTo(data, open), SavedEpisode)'
    BY <2>1, <2>2 DEF Placed
  <2> QED
    BY <2>2 DEF GoesOn, FileOf, EndOf
<1>4. \A n : Unspoilt(n)' <=> Unspoilt(n)
  BY DEF Unspoilt
<1>5. (Unspoilt(Len(meta) + 1) => GoesOn)' /\ (Unspoilt(durable + 1) => Recovers)'
  BY <1>2, <1>3, <1>4 DEF TableInv
<1> QED
  BY <1>1, <1>5 DEF TableInv

(* The files before the one written keep their rows, and this one gains the  *)
(* episode's.                                                                *)
LEMMA RowsAdded ==
  ASSUME TypeOK, TypeOK', FilesOK, WriteRows
  PROVE  /\ \A f \in 0..Len(data) : f < open' =>
              RowsTo(data', f) = RowsTo(data, f) /\ f <= Len(data')
         /\ \E base \in 0..Len(data) :
              /\ RowsTo(data', open') = RowsTo(data, base) \o EpisodeRows
              /\ base = IF open' = open THEN open ELSE open' - 1
         /\ open' \in 1..Len(data')
         /\ open' # open => open' = IF open = 0 THEN FirstFile ELSE open + 1
<1>1. /\ data \in Seq(DataFile) /\ data' \in Seq(DataFile) /\ Len(data) \in Nat
      /\ Len(data') \in Nat /\ open \in 0..Len(data)
  BY TypeParts, TypePartsNext DEF DiskType
<1>2. /\ open' \in 1..Len(data') /\ Len(data') >= Len(data)
      /\ \A k \in 1..Len(data) : k # open' => data'[k].rows = data[k].rows
      /\ \/ open' = open /\ data'[open'].rows = data[open].rows \o EpisodeRows
         \/ /\ open' # open /\ open' = IF open = 0 THEN FirstFile ELSE open + 1
            /\ data'[open'].rows = EpisodeRows
  BY RowsWritten
<1>3. \A f \in 0..Len(data) : f < open' => RowsTo(data', f) = RowsTo(data, f) /\ f <= Len(data')
  <2> SUFFICES ASSUME NEW f \in 0..Len(data), f < open'
               PROVE  RowsTo(data', f) = RowsTo(data, f) /\ f <= Len(data')
    OBVIOUS
  <2>1. \A k \in 1..f : data[k].rows = data'[k].rows
    BY <1>1, <1>2
  <2>2. f <= Len(data')
    BY <1>1, <1>2
  <2> QED
    BY <1>1, <2>1, <2>2, RowsToSame
<1>4. RowsTo(data', open') = RowsTo(data', open' - 1) \o data'[open'].rows
  BY <1>1, <1>2, RowsToStep
<1>5. open' \in Nat /\ open' - 1 \in 0..Len(data) /\ open' - 1 < open'
  <2>1. FirstFile \in 1..(Len(data) + 1)
    BY LastEpisode
  <2>2. open' \in Nat /\ open' >= 1
    BY <1>1, <1>2
  <2>3. open' = open \/ open' = FirstFile \/ open' = open + 1
    BY <1>2
  <2>4. open' <= Len(data) + 1
    BY <1>1, <2>1, <2>3
  <2>5. Len(data) \in Nat
    BY <1>1
  <2>6. \A o \in Nat, l \in Nat : o >= 1 /\ o <= l + 1 => o - 1 \in 0..l /\ o - 1 < o
    OBVIOUS
  <2> QED
    BY <2>2, <2>4, <2>5, <2>6
<1>6. RowsTo(data', open' - 1) = RowsTo(data, open' - 1) /\ RowsTo(data, open' - 1) \in Seq(Row)
  BY <1>1, <1>3, <1>5, RowsToStep
<1>7. CASE open' = open
  <2>1. open \in 1..Len(data) /\ data[open] \in DataFile
    BY <1>1, <1>2, <1>7
  <2>2. data[open].rows \in Seq(Row) /\ EpisodeRows \in Seq(Row)
    BY <2>1, RowsType DEF DataFile
  <2>3. RowsTo(data, open) = RowsTo(data, open - 1) \o data[open].rows
    BY <1>1, <2>1, RowsToStep
  <2>4. RowsTo(data', open') = RowsTo(data, open) \o EpisodeRows
    <3> DEFINE a == RowsTo(data, open - 1)
               b == data[open].rows
               c == EpisodeRows
    <3>1. a \in Seq(Row) /\ b \in Seq(Row) /\ c \in Seq(Row)
      BY <1>6, <1>7, <2>2
    <3>2. RowsTo(data', open') = a \o (b \o c) /\ RowsTo(data, open) = a \o b
      BY <1>2, <1>4, <1>6, <1>7, <2>3
    <3> HIDE DEF a, b
    <3>3. (a \o b) \o c = a \o (b \o c)
      BY <3>1, ConcatAssociative
    <3> QED
      BY <3>2, <3>3
  <2> QED
    BY <1>1, <1>2, <1>3, <1>7, <2>1, <2>4
<1>8. CASE open' # open
  BY <1>2, <1>3, <1>4, <1>5, <1>6, <1>8
<1> QED
  BY <1>7, <1>8

(* No episode on disk is in the open file.                                  *)
LEMMA OpenIsNew ==
  ASSUME TypeOK, StoreInv, main \in Session
  PROVE  /\ FileOf(durable) \in 0..Len(data) /\ EndOf(durable) \in Nat
         /\ open # 0 => FileOf(durable) < open /\ \A i \in 1..durable : meta[i].file < open
<1>1. durable = loaded /\ durable \in 0..Len(meta) /\ Len(meta) \in Nat /\ open \in Nat
  BY MetaTypes, TypeParts DEF StoreInv, CountsOK, DiskType
<1>2. FileOf(durable) \in 0..Len(data) /\ EndOf(durable) \in Nat
  BY <1>1, FileOfType DEF StoreInv
<1>3. open # 0 => \A i \in 1..durable : meta[i].file < open
  BY <1>1 DEF StoreInv, FilesOK
<1>4. open # 0 => FileOf(durable) < open
  BY <1>1, <1>3 DEF FileOf
<1> QED
  BY <1>2, <1>3, <1>4

LEMMA WriteRowsTable ==
  ASSUME TypeOK, TypeOK', StoreInv, StoreInv', TableInv, WriteRows
  PROVE  TableInv'
<1>1. /\ main = "rows" /\ main' = "sentinel"
      /\ UNCHANGED <<meta, durable, info, spoilt, size, take, loaded>>
  BY DEF WriteRows, metaVars, sessionVars
<1>2. /\ data \in Seq(DataFile) /\ data' \in Seq(DataFile) /\ Len(data) \in Nat
      /\ Len(data') \in Nat /\ open \in 0..Len(data) /\ open' \in 0..Len(data')
  BY TypeParts, TypePartsNext DEF DiskType
<1>3. PICK base \in 0..Len(data) :
        /\ RowsTo(data', open') = RowsTo(data, base) \o EpisodeRows
        /\ base = IF open' = open THEN open ELSE open' - 1
  BY RowsAdded DEF StoreInv
<1>4. /\ \A f \in 0..Len(data) : f < open' => RowsTo(data', f) = RowsTo(data, f) /\ f <= Len(data')
      /\ open' \in 1..Len(data')
      /\ open' # open => open' = IF open = 0 THEN FirstFile ELSE open + 1
  BY RowsAdded DEF StoreInv
<1>5. /\ RowsTo(data, base) \in Seq(Row) /\ EpisodeRows \in Seq(Row) /\ Len(EpisodeRows) = size
      /\ Len(RowsTo(data', open')) = Len(RowsTo(data, base)) + size
      /\ \A k \in 1..Len(RowsTo(data, base)) : RowsTo(data', open')[k] = RowsTo(data, base)[k]
      /\ \A k \in 1..size :
           RowsTo(data', open')[Len(RowsTo(data, base)) + k] = EpisodeRows[k]
  <2>1. RowsTo(data, base) \in Seq(Row) /\ EpisodeRows \in Seq(Row) /\ Len(EpisodeRows) = size
    BY <1>2, RowsToStep, RowsType
  <2> DEFINE s == RowsTo(data, base)
             r == EpisodeRows
  <2>2. RowsTo(data', open') = s \o r
    BY <1>3
  <2> HIDE DEF s, r
  <2>3. s \in Seq(Row) /\ r \in Seq(Row) /\ Len(r) = size
    BY <2>1 DEF s, r
  <2>4. /\ Len(s \o r) = Len(s) + size
        /\ \A k \in 1..Len(s) : (s \o r)[k] = s[k]
        /\ \A k \in 1..size : (s \o r)[Len(s) + k] = r[k]
    BY <2>3
  <2> QED
    BY <2>1, <2>2, <2>4 DEF s, r
<1>6. EpisodesPlaced'
  <2>1. ASSUME NEW i \in 1..Len(meta)
        PROVE  /\ meta[i].file <= Len(data')
               /\ Len(RowsTo(data, meta[i].file)) <= Len(RowsTo(data', meta[i].file))
               /\ \A k \in 1..Len(RowsTo(data, meta[i].file)) :
                    RowsTo(data', meta[i].file)[k] = RowsTo(data, meta[i].file)[k]
    <3> DEFINE f == meta[i].file
    <3>1. f \in 0..Len(data) /\ f <= open' /\ (open # 0 => f <= open) /\ f < FirstFile
      <4>1. f \in 1..Len(data) /\ (open # 0 => f <= open) /\ f < FirstFile
        BY LastEpisode DEF StoreInv, FilesOK
      <4>2. f <= open'
        BY <1>1, <1>4, <4>1 DEF StoreInv, FilesOK
      <4> QED
        BY <1>2, <4>1, <4>2
    <3> HIDE DEF f
    <3>2. Len(RowsTo(data, f)) \in Nat
      BY <1>2, <3>1, RowsToStep
    <3>3. CASE f < open'
      BY <1>4, <3>1, <3>2, <3>3 DEF f
    <3>4. CASE f = open'
      <4>1. open' = open
        BY <1>2, <1>4, <3>1, <3>4
      <4>2. base = f
        BY <1>3, <3>4, <4>1
      <4>3. f <= Len(data') /\ size \in Nat
        BY <1>4, <3>4 DEF TypeOK
      <4> QED
        BY <1>5, <3>2, <3>4, <4>2, <4>3 DEF f
    <3> QED
      BY <1>2, <3>1, <3>3, <3>4
  <2> QED
    BY <1>1, <2>1, EpisodesStay, MetaTypes DEF TableInv, StoreInv
<1>7. Recovers => Recovers'
  <2>1. FileOf(durable) \in 0..Len(data) /\ FileOf(durable) < open'
    <3>1. main' \in Session /\ main \in Session
      BY <1>1 DEF Session, Saving
    <3>2. FileOf(durable)' = FileOf(durable)
      BY <1>1 DEF FileOf
    <3> QED
      BY <1>1, <1>4, <3>1, <3>2, OpenIsNew, FileOfType, MetaTypes DEF StoreInv, StoreInv, CountsOK, FilesOK, FileOf
  <2> QED
    BY <1>1, <1>4, <2>1 DEF Recovers, FileOf, EndOf
<1>8. GoesOn => GoesOn'
  <2> SUFFICES ASSUME GoesOn PROVE GoesOn'
    OBVIOUS
  <2> DEFINE F == FileOf(Len(meta))
             E == EndOf(Len(meta))
  <2>1. /\ F \in 0..Len(data) /\ E \in Nat /\ Start = E /\ FirstFile = F + 1
        /\ FileOf(Len(meta))' = F /\ EndOf(Len(meta))' = E /\ Len(meta) \in Nat
    BY <1>1, FileOfType, MetaTypes DEF StoreInv, FileOf, EndOf
  <2>2. /\ info.episodes = Len(meta) /\ info.frames = E /\ open \in {0, F}
        /\ Len(RowsTo(data, F)) = E
    BY <1>1 DEF GoesOn, RowsIn
  <2> HIDE DEF F, E
  <2>3. base = F /\ open' \in {F, F + 1}
    <3>1. F \in Nat /\ open' # 0 /\ FirstFile = F + 1
      BY <1>2, <1>4, <2>1
    <3>2. open' = open \/ open' = F + 1
      BY <1>4, <2>2, <3>1
    <3>3. open' = open => open = F
      BY <2>2, <3>1
    <3> QED
      BY <1>3, <3>1, <3>2, <3>3
  <2>4. Len(RowsTo(data', open')) = E + size
    BY <1>5, <2>2, <2>3
  <2>5. open' # F => Len(RowsTo(data', F)) = E
    BY <1>2, <1>4, <2>1, <2>2, <2>3
  <2>6. Placed(RowsTo(data', open'), SavedEpisode')
    <3>1. /\ SavedEpisode'.take = take /\ SavedEpisode'.length = size
          /\ SavedEpisode'.from = E /\ SavedEpisode'.to = E + size
      BY <1>1, <2>1 DEF SavedEpisode, Start
    <3>2. \A k \in 1..size : EpisodeRows[k] = [take |-> take, frame |-> k, index |-> E + k - 1]
      BY <2>2 DEF EpisodeRows
    <3>3. \A k \in 1..size : RowsTo(data', open')[E + k]
                               = [take |-> take, frame |-> k, index |-> E + k - 1]
      BY <1>5, <2>2, <2>3, <3>2
    <3>4. E + size <= E + size
      BY <2>1 DEF TypeOK
    <3> QED
      BY <2>4, <3>1, <3>3, <3>4 DEF Placed
  <2> QED
    BY <1>1, <2>1, <2>2, <2>3, <2>4, <2>5, <2>6 DEF GoesOn, RowsIn
<1>9. (Unspoilt(Len(meta) + 1) => GoesOn)' /\ (Unspoilt(durable + 1) => Recovers)'
  <2>1. \A n : Unspoilt(n)' <=> Unspoilt(n)
    BY <1>1 DEF Unspoilt
  <2> QED
    BY <1>1, <1>7, <1>8, <2>1 DEF TableInv
<1> QED
  BY <1>6, <1>9 DEF TableInv

LEMMA BufferMetaTable ==
  ASSUME TypeOK, TypeOK', StoreInv, TableInv, BufferMeta
  PROVE  TableInv'
<1> DEFINE n == Len(meta)
<1>1. /\ main = "meta" /\ main' = "info" /\ meta' = Append(meta, SavedEpisode)
      /\ UNCHANGED <<data, open, durable, info, spoilt, size>>
  BY DEF BufferMeta, diskVars, sessionVars
<1>2. /\ meta \in Seq(Episode) /\ SavedEpisode \in Episode /\ n \in Nat /\ durable \in 0..n
      /\ SavedEpisode.file = open /\ SavedEpisode.length = size
      /\ size \in Nat /\ EndOf(n) \in Nat /\ open # 0 /\ Start = EndOf(n)
  <2>1. open # 0
    BY <1>1 DEF StoreInv, SavingOK, Saving
  <2>2. meta \in Seq(Episode) /\ size \in Nat
    BY TypeParts DEF MetaType, CallType
  <2>3. n \in Nat /\ durable \in 0..n /\ EndOf(n) \in Nat /\ Start = EndOf(n)
    BY MetaTypes, FileOfType DEF StoreInv
  <2> QED
    BY <2>1, <2>2, <2>3, SavedType DEF StoreInv
<1>3. /\ Len(meta') = n + 1 /\ meta'[n + 1] = SavedEpisode
      /\ \A i \in 1..n : meta'[i] = meta[i]
  BY <1>1, <1>2
<1>4. /\ SavedEpisode.from = EndOf(n) /\ SavedEpisode.to = EndOf(n) + size
      /\ SavedEpisode.index = info.episodes
  BY <1>2 DEF SavedEpisode
<1>5. /\ \A i : Unspoilt(i)' <=> Unspoilt(i)
      /\ Unspoilt(n + 2) => Unspoilt(n + 1)
  <2>1. \A i : Unspoilt(i)' <=> Unspoilt(i)
    BY <1>1 DEF Unspoilt
  <2>2. n + 2 \in Nat /\ n + 1 \in 0..(n + 2)
    BY <1>2
  <2> QED
    BY <2>1, <2>2, UnspoiltBefore
<1> HIDE DEF n
<1>6. Unspoilt(n + 1) => GoesOn
  BY DEF TableInv, n
<1>7. EpisodesPlaced'
  <2> SUFFICES ASSUME NEW i \in 1..(n + 1), Unspoilt(i)
               PROVE  meta'[i].index = i - 1 /\ Placed(RowsTo(data, meta'[i].file), meta'[i])
    BY <1>1, <1>3, <1>5 DEF EpisodesPlaced
  <2>1. CASE i \in 1..n
    BY <1>3, <2>1 DEF TableInv, EpisodesPlaced, n
  <2>2. CASE i = n + 1
    <3>1. GoesOn
      BY <1>6, <2>2
    <3>2. info.episodes = n /\ Placed(RowsTo(data, open), SavedEpisode)
      BY <1>1, <3>1 DEF GoesOn, RowsIn, n
    <3> QED
      BY <1>2, <1>3, <1>4, <2>2, <3>2
  <2> QED
    BY <1>2, <2>1, <2>2
<1>8. FileOf(Len(meta))' = open /\ EndOf(Len(meta))' = EndOf(n) + size
  <2>1. Len(meta') # 0 /\ meta'[Len(meta')] = SavedEpisode
    BY <1>2, <1>3
  <2> QED
    BY <1>2, <1>4, <2>1 DEF FileOf, EndOf
<1>9. GoesOn => GoesOn'
  <2> SUFFICES ASSUME GoesOn PROVE GoesOn'
    OBVIOUS
  <2>1. /\ info.episodes = n /\ info.frames = EndOf(n)
        /\ Len(RowsTo(data, open)) = EndOf(n) + size
    BY <1>1 DEF GoesOn, RowsIn, n
  <2>2. meta' # <<>>
    BY <1>2, <1>3
  <2>3. n = n + 1 - 1 /\ Len(meta') = n + 1
    BY <1>2, <1>3
  <2>4. meta'[Len(meta')] = SavedEpisode
    BY <1>3
  <2> QED
    BY <1>1, <1>2, <1>4, <1>8, <2>1, <2>2, <2>3, <2>4 DEF GoesOn, RowsIn
<1>10. Recovers' <=> Recovers
  <2>1. FileOf(durable)' = FileOf(durable) /\ EndOf(durable)' = EndOf(durable)
    BY <1>1, <1>2, <1>3 DEF FileOf, EndOf
  <2> QED
    BY <1>1, <2>1 DEF Recovers
<1>11. (Unspoilt(Len(meta) + 1) => GoesOn)'
  <2>1. Len(meta') + 1 = n + 2
    BY <1>2, <1>3
  <2> QED
    BY <1>5, <1>6, <1>9, <2>1
<1> QED
  BY <1>1, <1>5, <1>7, <1>10, <1>11 DEF TableInv

LEMMA WriteInfoTable ==
  ASSUME TypeOK, TypeOK', StoreInv, TableInv, WriteInfo
  PROVE  TableInv'
<1> DEFINE n == Len(meta)
<1>1. /\ main = "info" /\ main' = "idle"
      /\ info' = [episodes |-> info.episodes + 1, frames |-> info.frames + size]
      /\ UNCHANGED <<data, open, durable, meta, spoilt>>
  BY DEF WriteInfo, diskVars, sessionVars
<1>2. EpisodesPlaced'
  BY <1>1 DEF TableInv, EpisodesPlaced, Placed, Unspoilt, RowsTo
<1>3. /\ n \in Nat /\ durable \in 0..n /\ info.episodes \in Nat /\ info.frames \in Nat
      /\ info'.episodes = info.episodes + 1 /\ info'.frames = info.frames + size
      /\ \A i : FileOf(i)' = FileOf(i) /\ EndOf(i)' = EndOf(i)
      /\ \A i : Unspoilt(i)' <=> Unspoilt(i)
  BY <1>1, MetaTypes DEF FileOf, EndOf, Unspoilt
<1>4. Recovers => Recovers'
  BY <1>1, <1>3 DEF Recovers
<1>5. Unspoilt(n + 1) => GoesOn'
  <2> SUFFICES ASSUME Unspoilt(n + 1) PROVE GoesOn'
    OBVIOUS
  <2>1. GoesOn
    BY DEF TableInv
  <2>2. /\ meta # <<>> /\ open = FileOf(n) /\ info.episodes = n - 1
        /\ info.frames = meta[n].from /\ size = meta[n].length
        /\ Len(RowsTo(data, FileOf(n))) = EndOf(n)
    BY <1>1, <2>1 DEF GoesOn, RowsIn
  <2>3. n \in 1..n
    BY <1>3, <2>2, TypeParts DEF MetaType
  <2>4. meta[n].to = meta[n].from + meta[n].length
    <3>1. Unspoilt(n)
      BY <1>3, UnspoiltBefore
    <3> QED
      BY <2>3, <3>1 DEF TableInv, EpisodesPlaced, Placed
  <2>5. info'.episodes = n /\ info'.frames = EndOf(n)
    <3>1. EndOf(n) = meta[n].to
      BY <2>3 DEF EndOf
    <3> QED
      BY <1>3, <2>2, <2>4, <3>1
  <2> QED
    BY <1>1, <1>3, <2>2, <2>5 DEF GoesOn, RowsIn
<1> QED
  BY <1>1, <1>2, <1>3, <1>4, <1>5 DEF TableInv

(* Closing the files leaves every row where it is.                          *)
LEMMA CloseDataTable ==
  ASSUME TypeOK, TypeOK', StoreInv, TableInv, CloseData, main \in Session, spoilt \subseteq spoilt',
         main \in RowsIn \cup {"info"} /\ RowsLeft => Len(meta) \in spoilt'
  PROVE  TableInv'
<1> DEFINE n == Len(meta)
<1>1. /\ main' = "closing" /\ open' = 0
      /\ UNCHANGED <<meta, durable, info>>
  BY DEF CloseData, metaVars
<1>2. /\ data \in Seq(DataFile) /\ data' \in Seq(DataFile) /\ Len(data) \in Nat
      /\ Len(data') = Len(data)
      /\ \A f \in 0..Len(data) : RowsTo(data', f) = RowsTo(data, f)
  <2>1. /\ data \in Seq(DataFile) /\ data' \in Seq(DataFile) /\ Len(data') = Len(data)
        /\ \A k \in 1..Len(data) : data'[k].rows = data[k].rows
    BY FileClosed, TypeParts DEF CloseData, DiskType
  <2>2. Len(data) \in Nat
    BY <2>1
  <2>3. ASSUME NEW f \in 0..Len(data) PROVE RowsTo(data', f) = RowsTo(data, f)
    <3>1. f \in 0..Len(data') /\ f <= Len(data) /\ \A k \in 1..f : k \in 1..Len(data)
      BY <2>1, <2>2
    <3> QED
      BY <2>1, <3>1, RowsToSame
  <2> QED
    BY <2>1, <2>2, <2>3
<1>3. /\ n \in Nat /\ durable \in 0..n
      /\ \A i \in 0..n : FileOf(i) \in 0..Len(data) /\ EndOf(i) \in Nat
      /\ \A i : FileOf(i)' = FileOf(i) /\ EndOf(i)' = EndOf(i)
      /\ \A i : Unspoilt(i)' => Unspoilt(i)
  BY <1>1, MetaTypes, FileOfType DEF FileOf, EndOf, Unspoilt, StoreInv
<1>4. EpisodesPlaced'
  <2>1. \A i \in 1..n : meta[i].file \in 0..Len(data)
    BY <1>2 DEF StoreInv, FilesOK
  <2>2. \A i \in 1..n : Len(RowsTo(data, meta[i].file)) \in Nat
    BY <1>2, <2>1, RowsToStep
  <2> QED
    BY <1>1, <1>2, <1>3, <2>1, <2>2, EpisodesStay DEF TableInv, StoreInv
<1>5. Recovers => Recovers'
  BY <1>1, <1>2, <1>3 DEF Recovers
<1>6. Unspoilt(n + 1)' => GoesOn'
  <2> SUFFICES ASSUME Unspoilt(n + 1)' PROVE GoesOn'
    OBVIOUS
  <2>1. GoesOn
    BY <1>1, <1>3 DEF TableInv
  <2>2. n \notin spoilt'
    <3>1. ~(n + 1 <= n)
      BY <1>3
    <3>2. \A k \in spoilt' : n + 1 <= k
      BY <1>1 DEF Unspoilt
    <3> QED
      BY <3>1, <3>2
  <2>3. ~(main \in RowsIn \cup {"info"} /\ RowsLeft)
    BY <2>2
  <2>4. meta = <<>> <=> n = 0
    BY TypeParts DEF MetaType
  <2>5. main # "info"
    <3>1. main = "info" => meta # <<>> /\ Last(meta).file = open
      BY <2>1, <2>4 DEF GoesOn, FileOf, Last
    <3> QED
      BY <2>3, <3>1 DEF RowsLeft
  <2>6. main \in RowsIn => open # FileOf(n)
    <3>1. main \in RowsIn => open # 0 /\ main # "rows"
      BY DEF RowsIn, StoreInv, SavingOK, Saving
    <3>2. main \in RowsIn => meta = <<>> \/ Last(meta).file # open
      BY <2>3, <3>1 DEF RowsLeft
    <3> QED
      BY <2>4, <3>1, <3>2 DEF FileOf, Last
  <2>7. Len(RowsTo(data, FileOf(n))) = EndOf(n)
    BY <2>1, <2>6 DEF GoesOn
  <2>8. info.episodes = n /\ info.frames = EndOf(n)
    BY <2>1, <2>5 DEF GoesOn
  <2> QED
    BY <1>1, <1>2, <1>3, <2>7, <2>8 DEF GoesOn, RowsIn
<1> QED
  BY <1>1, <1>3, <1>4, <1>5, <1>6 DEF TableInv

LEMMA CloseMetaTable ==
  ASSUME TypeOK, TypeOK', StoreInv, TableInv, CloseMeta
  PROVE  TableInv'
<1>1. /\ main = "closing" /\ main' = "none" /\ durable' = Len(meta)
      /\ UNCHANGED <<data, open, meta, info, spoilt, size, take>>
  BY DEF CloseMeta, diskVars, sessionVars
<1>2. EpisodesPlaced'
  BY <1>1 DEF TableInv, EpisodesPlaced, Placed, Unspoilt, RowsTo
<1>3. \A i : /\ FileOf(i)' = FileOf(i) /\ EndOf(i)' = EndOf(i)
             /\ Unspoilt(i)' <=> Unspoilt(i)
  BY <1>1 DEF FileOf, EndOf, Unspoilt
<1>4. GoesOn => GoesOn'
  BY <1>1, <1>3 DEF GoesOn, RowsIn
<1>5. GoesOn => Recovers'
  <2>1. info.episodes = Len(meta) => info.episodes >= Len(meta)
    BY MetaTypes
  <2> QED
    BY <1>1, <1>3, <2>1 DEF GoesOn, Recovers, RowsIn
<1>6. (Unspoilt(Len(meta) + 1) => GoesOn)' /\ (Unspoilt(durable + 1) => Recovers)'
  BY <1>1, <1>3, <1>4, <1>5 DEF TableInv
<1> QED
  BY <1>2, <1>6 DEF TableInv

(* A crash leaves the episodes whose metadata is on disk, and the next one   *)
(* goes after these unless info.json counts more.                           *)
LEMMA CrashTable ==
  ASSUME TypeOK, TypeOK', StoreInv, TableInv, Crash
  PROVE  TableInv'
<1>1. /\ main \in Session /\ main' \in {"none", "lost"} /\ open' = 0
      /\ meta' = SubSeq(meta, 1, durable) /\ spoilt \subseteq spoilt'
      /\ info.episodes > durable => durable \in spoilt'
      /\ UNCHANGED <<durable, info>>
  BY DEF Crash
<1>2. /\ Len(meta') = durable /\ \A i \in 1..durable : meta'[i] = meta[i]
      /\ durable \in 0..Len(meta) /\ Len(meta) \in Nat
      /\ info.episodes \in Nat
  BY <1>1, CutMeta, MetaTypes
<1>3. /\ data \in Seq(DataFile) /\ data' \in Seq(DataFile) /\ Len(data) \in Nat
      /\ open \in 0..Len(data) /\ Len(data') = Len(data)
      /\ \A f \in 0..Len(data) : open = 0 \/ f < open => RowsTo(data', f) = RowsTo(data, f)
  <2>1. /\ data \in Seq(DataFile) /\ data' \in Seq(DataFile) /\ Len(data') = Len(data)
        /\ open \in 0..Len(data)
        /\ \A k \in 1..Len(data) : k # open => data'[k].rows = data[k].rows
    BY FileTorn, TypeParts DEF Crash, DiskType
  <2>2. Len(data) \in Nat
    BY <2>1
  <2>3. ASSUME NEW f \in 0..Len(data), open = 0 \/ f < open
        PROVE  RowsTo(data', f) = RowsTo(data, f)
    <3>1. f \in 0..Len(data') /\ f <= Len(data)
      BY <2>1, <2>2
    <3>2. \A k \in 1..f : k \in 1..Len(data) /\ k # open
      BY <2>1, <2>2, <2>3
    <3> QED
      BY <2>1, <3>1, <3>2, RowsToSame
  <2> QED
    BY <2>1, <2>2, <2>3
<1>4. /\ FileOf(durable) \in 0..Len(data) /\ EndOf(durable) \in Nat
      /\ open = 0 \/ FileOf(durable) < open
      /\ open # 0 => \A i \in 1..durable : meta[i].file < open
  BY <1>1, OpenIsNew
<1>5. /\ FileOf(durable)' = FileOf(durable) /\ EndOf(durable)' = EndOf(durable)
      /\ RowsTo(data', FileOf(durable)) = RowsTo(data, FileOf(durable))
  BY <1>1, <1>2, <1>3, <1>4 DEF FileOf, EndOf
<1>6. EpisodesPlaced'
  <2>1. \A i \in 1..durable : /\ meta[i].file \in 0..Len(data)
                              /\ RowsTo(data', meta[i].file) = RowsTo(data, meta[i].file)
    <3> TAKE i \in 1..durable
    <3>1. i \in 1..Len(meta)
      BY <1>2
    <3>2. meta[i].file \in 1..Len(data)
      BY <3>1 DEF StoreInv, FilesOK
    <3> QED
      BY <1>3, <1>4, <3>2
  <2>2. \A i \in 1..durable : Len(RowsTo(data, meta[i].file)) \in Nat
    BY <1>3, <2>1, RowsToStep
  <2>3. \A i \in 1..durable :
           /\ meta[i].file <= Len(data')
           /\ Len(RowsTo(data, meta[i].file)) <= Len(RowsTo(data', meta[i].file))
    BY <1>3, <2>1, <2>2
  <2>4. Len(meta') <= Len(meta)
    BY <1>2
  <2> QED
    BY <1>1, <1>2, <2>1, <2>3, <2>4, EpisodesStay DEF TableInv, StoreInv
<1>7. Recovers => Recovers'
  BY <1>1, <1>5 DEF Recovers
<1>8. \A i : Unspoilt(i)' => Unspoilt(i)
  BY <1>1 DEF Unspoilt
<1>9. Unspoilt(durable + 1)' => GoesOn'
  <2> SUFFICES ASSUME Unspoilt(durable + 1)' PROVE GoesOn'
    OBVIOUS
  <2>1. Recovers
    BY <1>1, <1>8 DEF TableInv
  <2>2. durable \notin spoilt'
    <3>1. ~(durable + 1 <= durable)
      BY <1>2
    <3>2. \A k \in spoilt' : durable + 1 <= k
      BY <1>1 DEF Unspoilt
    <3> QED
      BY <3>1, <3>2
  <2>3. info.episodes = durable
    <3>1. ~(info.episodes > durable)
      BY <1>1, <2>2
    <3> QED
      BY <1>2, <2>1, <3>1 DEF Recovers
  <2>4. info.frames = EndOf(durable) /\ Len(RowsTo(data, FileOf(durable))) = EndOf(durable)
    BY <2>1, <2>3 DEF Recovers
  <2>5. FileOf(Len(meta))' = FileOf(durable) /\ EndOf(Len(meta))' = EndOf(durable)
    BY <1>1, <1>2, <1>5
  <2> QED
    BY <1>1, <1>2, <1>5, <2>3, <2>4, <2>5 DEF GoesOn, RowsIn
<1>10. (Unspoilt(Len(meta) + 1) => GoesOn)'
  BY <1>1, <1>2, <1>9
<1>11. (Unspoilt(durable + 1) => Recovers)'
  BY <1>1, <1>7, <1>8 DEF TableInv
<1> QED
  BY <1>6, <1>10, <1>11 DEF TableInv

LEMMA TableNext ==
  TypeOK /\ StoreInv /\ TypeOK' /\ StoreInv' /\ TableInv /\ [Next]_vars => TableInv'
<1> SUFFICES ASSUME TypeOK, StoreInv, TypeOK', StoreInv', TableInv, [Next]_vars PROVE TableInv'
  OBVIOUS
<1>1. CASE WriteRows
  BY <1>1, WriteRowsTable
<1>2. CASE BufferMeta
  BY <1>2, BufferMetaTable
<1>3. CASE WriteInfo
  BY <1>3, WriteInfoTable
<1>4. CASE EndSession
  BY <1>4, CloseDataTable DEF EndSession, Session, Saving, RowsIn
<1>5. CASE EncoderFailed \/ VideoMissing \/ SaveFails
  <2>1. FailedCall /\ main \in Session
    BY <1>5 DEF EncoderFailed, VideoMissing, SaveFails, Session, Saving
  <2> QED
    BY <2>1, CloseDataTable DEF FailedCall
<1>6. CASE CloseMeta
  BY <1>6, CloseMetaTable
<1>7. CASE Crash
  BY <1>7, CrashTable
<1>8. CASE AddFrame \/ ClearEpisodeBuffer \/ SaveEpisode \/ Resume
  <2>1. /\ UNCHANGED <<data, open, meta, durable, info, spoilt>>
        /\ main \in {"idle", "none"} /\ main' \in {"idle", "rows"}
    BY <1>8
    DEF AddFrame, ClearEpisodeBuffer, SaveEpisode, Resume, diskVars, metaVars, sessionVars
  <2> QED
    BY <2>1, QuietTable DEF RowsIn
<1>9. CASE SendSentinel \/ Collect \/ CleanUp \/ MoveVideo
  <2>1. /\ UNCHANGED <<data, open, meta, durable, info, spoilt, size, take>>
        /\ main \in RowsIn /\ main' \in RowsIn
    BY <1>9
    DEF SendSentinel, Collect, CleanUp, MoveVideo, NextCamera, RowsIn, diskVars, metaVars,
        sessionVars
  <2> QED
    BY <2>1, QuietTable DEF RowsIn
<1>10. CASE (\E c \in Cameras : EncoderThread(c)) \/ UNCHANGED vars
  <2>1. UNCHANGED <<data, open, meta, durable, info, spoilt, size, take, main>>
    BY <1>10 DEF EncoderThread, vars, diskVars, metaVars, sessionVars
  <2> QED
    BY <2>1, QuietTable
<1> QED
  BY <1>1, <1>2, <1>3, <1>4, <1>5, <1>6, <1>7, <1>8, <1>9, <1>10 DEF Next, SaveStep

LEMMA TableInit == Init => TableInv
<1> SUFFICES ASSUME Init PROVE TableInv
  OBVIOUS
<1>1. /\ TypeOK /\ main = "idle" /\ open = 0 /\ spoilt = {} /\ durable = Len(meta)
      /\ data \in Seq(DataFile)
  BY TypeInit, TypeParts DEF Init, DiskType
<1>2. CASE Created
  <2>1. /\ meta = <<>> /\ data = <<>> /\ info.episodes = 0 /\ info.frames = 0
        /\ Len(meta) = 0 /\ durable = 0
    BY <1>1, <1>2 DEF Created
  <2>2. RowsTo(data, 0) = <<>>
    BY <1>1, RowsToStep
  <2>3. Len(RowsTo(data, 0)) = 0 /\ FileOf(0) = 0 /\ EndOf(0) = 0
    BY <2>2 DEF FileOf, EndOf
  <2> QED
    BY <1>1, <2>1, <2>3 DEF TableInv, EpisodesPlaced, GoesOn, Recovers, RowsIn
<1>3. CASE Loaded
  <2> DEFINE row == [take |-> 0, frame |-> 1, index |-> 0]
  <2>1. /\ Len(meta) = 1 /\ meta[1].file = 1 /\ meta[1].from = 0 /\ meta[1].to = 1
        /\ meta[1].length = 1 /\ meta[1].take = 0 /\ meta[1].index = 0
        /\ Len(data) = 1 /\ data[1].rows = <<row>>
        /\ info.episodes = 1 /\ info.frames = 1
    BY <1>3 DEF Loaded
  <2>2. RowsTo(data, 1) = <<>> \o <<row>>
    <3>1. 1 \in 1..Len(data) /\ 1 - 1 = 0
      BY <2>1
    <3> QED
      BY <1>1, <2>1, <3>1, RowsToStep
  <2>3. Len(RowsTo(data, 1)) = 1 /\ RowsTo(data, 1)[1] = row
    <3> HIDE DEF row
    <3> QED
      BY <2>2
  <2>4. FileOf(1) = 1 /\ EndOf(1) = 1
    BY <2>1 DEF FileOf, EndOf
  <2>5. Placed(RowsTo(data, 1), meta[1])
    <3>1. \A k \in 1..1 : k = 1
      OBVIOUS
    <3> QED
      BY <2>1, <2>3, <3>1 DEF Placed
  <2>6. EpisodesPlaced
    <3>1. \A i \in 1..1 : i = 1
      OBVIOUS
    <3> QED
      BY <2>1, <2>5, <3>1 DEF EpisodesPlaced
  <2>7. GoesOn
    <3>1. main \notin RowsIn /\ main # "info"
      BY <1>1 DEF RowsIn
    <3>2. Len(RowsTo(data, FileOf(Len(meta)))) = EndOf(Len(meta))
      BY <2>1, <2>3, <2>4
    <3>3. info.episodes = Len(meta) /\ info.frames = EndOf(Len(meta))
      BY <2>1, <2>4
    <3> QED
      BY <1>1, <3>1, <3>2, <3>3 DEF GoesOn
  <2>8. Recovers
    <3>1. durable = 1
      BY <1>1, <2>1
    <3>2. Len(RowsTo(data, FileOf(durable))) = EndOf(durable)
      BY <2>3, <2>4, <3>1
    <3> QED
      BY <2>1, <2>4, <3>1, <3>2 DEF Recovers
  <2> QED
    BY <2>6, <2>7, <2>8 DEF TableInv
<1> QED
  BY <1>2, <1>3 DEF Init

LEMMA TableInvariance == Spec => [](TypeOK /\ StoreInv /\ TableInv)
<1>1. Init => TypeOK /\ StoreInv /\ TableInv
  BY TypeInit, StoreInit, TableInit
<1>2. TypeOK /\ StoreInv /\ TableInv /\ [Next]_vars => (TypeOK /\ StoreInv /\ TableInv)'
  BY TypeNext, StoreNext, TableNext
<1> QED
  BY <1>1, <1>2, PTL DEF Spec

(* Whatever sessions, failed saves and crashes come, the rows of every        *)
(* episode saved before the first failure that leaves something behind are   *)
(* in the whole table where its metadata says, in order and by their index,  *)
(* however many files the table is in.                                       *)
THEOREM EpisodesReadBack == Spec => []ReadsBack
<1>1. TypeOK /\ StoreInv /\ TableInv => ReadsBack
  <2> SUFFICES ASSUME TypeOK, StoreInv, TableInv, NEW i \in 1..Len(meta), Unspoilt(i)
               PROVE  LET e == meta[i] IN
                      /\ e.index = i - 1
                      /\ e.to = e.from + e.length
                      /\ e.to <= Len(Table)
                      /\ \A k \in 1..e.length :
                           Table[e.from + k] = [take |-> e.take, frame |-> k,
                                                index |-> e.from + k - 1]
    BY DEF ReadsBack
  <2>1. meta[i].index = i - 1 /\ Placed(RowsTo(data, meta[i].file), meta[i])
    BY DEF TableInv, EpisodesPlaced
  <2>2. Table = RowsTo(data, Len(data))
    BY DEF Table, RowsTo
  <2>3. /\ data \in Seq(DataFile) /\ Len(data) \in Nat
        /\ meta[i].file \in 0..Len(data) /\ Len(data) \in meta[i].file..Len(data)
    <3>1. data \in Seq(DataFile) /\ meta[i].file \in 1..Len(data)
      BY TypeParts DEF DiskType, StoreInv, FilesOK
    <3>2. Len(data) \in Nat
      BY <3>1
    <3> QED
      BY <3>1, <3>2
  <2>4. /\ Len(RowsTo(data, meta[i].file)) <= Len(Table)
        /\ \A k \in 1..Len(RowsTo(data, meta[i].file)) :
             Table[k] = RowsTo(data, meta[i].file)[k]
    BY <2>2, <2>3, RowsToGrow
  <2>5. Len(RowsTo(data, meta[i].file)) \in Nat /\ Len(Table) \in Nat
    <3>1. Len(data) \in 0..Len(data)
      BY <2>3
    <3> QED
      BY <2>2, <2>3, <3>1, RowsToStep
  <2>6. Placed(Table, meta[i])
    BY <2>1, <2>4, <2>5, MetaTypes, PlacedKept
  <2> QED
    BY <2>1, <2>6 DEF Placed
<1> QED
  BY <1>1, TableInvariance, PTL

-------------------------------------------------------------------------------
(* The encoder of one camera. A queue q holds frames and, once the episode is *)
(* over, the sentinel at its end; f is the temporary file; n frames have been *)
(* added to the episode.                                                     *)

Ends(q) == q # <<>> /\ q[Len(q)] = Sentinel

Waiting(q) == IF Ends(q) THEN Len(q) - 1 ELSE Len(q)

Rising(s, n) ==
  /\ \A i \in 1..n : s[i] \in Nat
  /\ \A i \in 1..n, j \in 1..n : i < j => s[i] < s[j]

InOrder(q, f, n) ==
  /\ Rising(q, Waiting(q))
  /\ Rising(f, Len(f))
  /\ \A i \in 1..Waiting(q) : q[i] \in 1..n
  /\ \A i \in 1..Len(f), j \in 1..Waiting(q) : f[i] < q[j]
  /\ \A i \in 1..Len(f) : f[i] \in 1..n

(* Where every frame is in the file or in the queue.                        *)
Counting == {"idle", "rows", "sentinel", "collect", "cleanup"}

CameraOK(c) ==
  /\ InOrder(queue[c], file[c], size)
  /\ Ends(queue[c]) => main \in {"collect", "cleanup"} \/ (main = "sentinel" /\ c < at)
  /\ thread[c] \in Alive => result[c] = "none"
  /\ main \in Counting /\ size > 0 /\ dropped[c] = 0 /\ result[c] # "error"
       => Len(file[c]) + Waiting(queue[c]) = size
  /\ result[c] = "ok" /\ dropped[c] = 0 /\ ~stopEvent[c] => Len(file[c]) = size
  /\ (main = "collect" /\ c < at) \/ main \in {"cleanup", "video", "meta"}
       => result[c] = "ok" \/ stopEvent[c]

EncoderInv ==
  /\ \A c \in Cameras : CameraOK(c)
  /\ main \in {"closing", "none", "lost"} => size = 0

LEMMA WaitingType ==
  ASSUME NEW q \in Seq(Nat)
  PROVE  Waiting(q) \in 0..Len(q)
BY DEF Waiting, Ends

LEMMA OrderAtFirst ==
  /\ \A n \in Nat : InOrder(<<>>, <<>>, n)
  /\ InOrder(<<1>>, <<>>, 1) /\ ~Ends(<<1>>) /\ Waiting(<<1>>) = 1
  /\ ~Ends(<<>>) /\ Waiting(<<>>) = 0
<1>1. ~Ends(<<1>>) /\ Waiting(<<1>>) = 1
  BY DEF Ends, Waiting, Sentinel
<1>2. ~Ends(<<>>) /\ Waiting(<<>>) = 0
  BY DEF Ends, Waiting
<1>3. \A n \in Nat : InOrder(<<>>, <<>>, n)
  BY <1>2 DEF InOrder, Rising
<1>4. InOrder(<<1>>, <<>>, 1)
  BY <1>1 DEF InOrder, Rising
<1> QED
  BY <1>1, <1>2, <1>3, <1>4

LEMMA OrderOfFrame ==
  ASSUME NEW q \in Seq(Nat), NEW f \in Seq(Nat), NEW n \in Nat, InOrder(q, f, n), ~Ends(q)
  PROVE  /\ InOrder(Append(q, n + 1), f, n + 1) /\ InOrder(q, f, n + 1)
         /\ ~Ends(Append(q, n + 1)) /\ Waiting(Append(q, n + 1)) = Waiting(q) + 1
<1> DEFINE m == Len(q)
           p == Append(q, n + 1)
<1>1. m \in Nat /\ Waiting(q) = m
  BY DEF Waiting
<1>2. /\ p \in Seq(Nat) /\ Len(p) = m + 1 /\ p[m + 1] = n + 1
      /\ \A i \in 1..m : p[i] = q[i]
  OBVIOUS
<1>3. ~Ends(p) /\ Waiting(p) = m + 1
  BY <1>1, <1>2 DEF Ends, Waiting, Sentinel
<1> HIDE DEF m, p
<1>4. \A i \in 1..m : q[i] \in 1..n
  BY <1>1 DEF InOrder
<1>5. \A i \in 1..(m + 1) : i \in 1..m \/ i = m + 1
  BY <1>1
<1>6. \A i \in 1..(m + 1) : p[i] \in 1..(n + 1)
  <2> TAKE i \in 1..(m + 1)
  <2>1. CASE i \in 1..m
    <3>1. q[i] \in 1..n
      BY <1>4, <2>1
    <3> QED
      BY <1>2, <2>1, <3>1
  <2>2. CASE i = m + 1
    BY <1>2, <2>2
  <2> QED
    BY <1>5, <2>1, <2>2
<1>7. \A i \in 1..(m + 1), j \in 1..(m + 1) : i < j => p[i] < p[j]
  <2> SUFFICES ASSUME NEW i \in 1..(m + 1), NEW j \in 1..(m + 1), i < j PROVE p[i] < p[j]
    OBVIOUS
  <2>1. i \in 1..m
    BY <1>1
  <2>2. CASE j \in 1..m
    BY <1>1, <1>2, <2>1, <2>2 DEF InOrder, Rising
  <2>3. CASE j = m + 1
    <3>1. q[i] \in 1..n /\ p[i] = q[i]
      BY <1>2, <1>4, <2>1
    <3> QED
      BY <1>2, <2>3, <3>1
  <2> QED
    BY <1>5, <2>2, <2>3
<1>8. \A i \in 1..Len(f), j \in 1..(m + 1) : f[i] < p[j]
  <2> SUFFICES ASSUME NEW i \in 1..Len(f), NEW j \in 1..(m + 1) PROVE f[i] < p[j]
    OBVIOUS
  <2>1. f[i] \in 1..n
    BY DEF InOrder
  <2>2. CASE j \in 1..m
    BY <1>1, <1>2, <2>2 DEF InOrder
  <2>3. CASE j = m + 1
    BY <1>2, <2>1, <2>3
  <2> QED
    BY <1>5, <2>2, <2>3
<1>9. \A i \in 1..Len(f) : f[i] \in 1..(n + 1)
  BY DEF InOrder
<1>10. InOrder(p, f, n + 1)
  <2>1. Rising(p, m + 1)
    BY <1>6, <1>7 DEF Rising
  <2> QED
    BY <1>3, <1>6, <1>8, <1>9, <2>1 DEF InOrder
<1>11. InOrder(q, f, n + 1)
  BY <1>1, <1>4, <1>9 DEF InOrder
<1> QED
  BY <1>1, <1>3, <1>10, <1>11 DEF p

LEMMA OrderOfSentinel ==
  ASSUME NEW q \in Seq(Nat), NEW f \in Seq(Nat), NEW n \in Nat, InOrder(q, f, n), ~Ends(q)
  PROVE  InOrder(Append(q, Sentinel), f, n) /\ Waiting(Append(q, Sentinel)) = Waiting(q)
<1> DEFINE p == Append(q, Sentinel)
<1>1. Sentinel \in Nat
  BY DEF Sentinel
<1>2. /\ p \in Seq(Nat) /\ Len(p) = Len(q) + 1 /\ p[Len(q) + 1] = Sentinel
      /\ \A i \in 1..Len(q) : p[i] = q[i]
  BY <1>1
<1>3. Ends(p)
  <2>1. Len(q) \in Nat
    OBVIOUS
  <2>2. p # <<>>
    BY <1>2, <2>1, EmptySeq
  <2>3. p[Len(p)] = Sentinel
    BY <1>2
  <2> QED
    BY <2>2, <2>3 DEF Ends
<1>4. Waiting(p) = Len(q) /\ Waiting(q) = Len(q)
  BY <1>2, <1>3 DEF Waiting
<1> HIDE DEF p
<1>5. Rising(p, Len(q))
  BY <1>2, <1>4 DEF InOrder, Rising
<1> QED
  BY <1>2, <1>4, <1>5 DEF InOrder, p

LEMMA OrderOfTake ==
  ASSUME NEW q \in Seq(Nat), NEW f \in Seq(Nat), NEW n \in Nat, InOrder(q, f, n),
         q # <<>>, Head(q) # Sentinel
  PROVE  /\ InOrder(Tail(q), Append(f, Head(q)), n)
         /\ Waiting(Tail(q)) = Waiting(q) - 1 /\ (Ends(Tail(q)) => Ends(q))
<1> DEFINE p == Tail(q)
           h == Head(q)
           g == Append(f, h)
           w == Waiting(q)
<1>1. /\ Len(q) \in Nat \ {0} /\ h = q[1] /\ p \in Seq(Nat) /\ Len(p) = Len(q) - 1
      /\ \A i \in 1..Len(p) : p[i] = q[i + 1]
  OBVIOUS
<1>2. w \in 0..Len(q)
  BY WaitingType
<1>3. w >= 1 /\ h \in 1..n /\ 1 \in 1..w
  <2>1. w >= 1
    BY <1>1 DEF Waiting, Ends
  <2> QED
    BY <1>1, <1>2, <2>1 DEF InOrder
<1> HIDE DEF p, h, g, w
<1>4. (Ends(p) <=> Ends(q)) /\ Waiting(p) = w - 1
  <2>1. CASE Len(q) = 1
    <3>1. ~Ends(q) /\ w = 1
      BY <1>1, <2>1 DEF Ends, Waiting, h, w
    <3>2. p = <<>> /\ Len(p) = 0
      BY <1>1, <2>1, EmptySeq
    <3>3. ~Ends(p)
      BY <3>2 DEF Ends
    <3>4. Waiting(p) = Len(p)
      BY <3>3 DEF Waiting
    <3> QED
      BY <3>1, <3>2, <3>3, <3>4
  <2>2. CASE Len(q) > 1
    <3>1. p[Len(p)] = q[Len(q)] /\ p # <<>>
      <4>1. Len(p) \in 1..Len(p) /\ Len(p) + 1 = Len(q)
        BY <1>1, <2>2
      <4>2. p[Len(p)] = q[Len(p) + 1]
        BY <1>1, <4>1
      <4>3. p # <<>>
        BY <1>1, <4>1, EmptySeq
      <4> QED
        BY <4>1, <4>2, <4>3
    <3> QED
      BY <1>1, <3>1 DEF Ends, Waiting, w
  <2> QED
    BY <1>1, <2>1, <2>2
<1>5. /\ g \in Seq(Nat) /\ Len(g) = Len(f) + 1 /\ g[Len(f) + 1] = h
      /\ \A i \in 1..Len(f) : g[i] = f[i]
  <2>1. h \in Nat
    BY <1>3
  <2> QED
    BY <2>1 DEF g
<1>6. \A i \in 1..Len(g) : i \in 1..Len(f) \/ i = Len(f) + 1
  BY <1>5
<1>7. \A i \in 1..(w - 1) : i + 1 \in 1..w /\ p[i] = q[i + 1]
  <2> TAKE i \in 1..(w - 1)
  <2>1. i \in 1..Len(p) /\ i + 1 \in 1..w
    BY <1>1, <1>2
  <2> QED
    BY <1>1, <2>1
<1>8. \A i \in 1..w : q[i] \in 1..n
  BY DEF InOrder, w
<1>9. \A i \in 1..w, j \in 1..w : i < j => q[i] < q[j]
  BY DEF InOrder, Rising, w
<1>10. \A i \in 1..(w - 1) : p[i] \in 1..n /\ h < p[i]
  <2> TAKE i \in 1..(w - 1)
  <2>1. i + 1 \in 1..w /\ 1 < i + 1 /\ p[i] = q[i + 1]
    BY <1>2, <1>7
  <2> QED
    BY <1>1, <1>3, <1>8, <1>9, <2>1
<1>11. Rising(p, w - 1)
  <2>1. \A i \in 1..(w - 1), j \in 1..(w - 1) : i < j => p[i] < p[j]
    BY <1>2, <1>7, <1>9
  <2> QED
    BY <1>10, <2>1 DEF Rising
<1>12. \A i \in 1..Len(f) : f[i] \in 1..n /\ f[i] < h
  BY <1>1, <1>3 DEF InOrder, w
<1>13. \A i \in 1..Len(g) : g[i] \in 1..n
  BY <1>3, <1>5, <1>6, <1>12
<1>14. Rising(g, Len(g))
  <2>1. ASSUME NEW i \in 1..Len(g), NEW j \in 1..Len(g), i < j PROVE g[i] < g[j]
    <3>1. i \in 1..Len(f)
      BY <1>5, <2>1
    <3>2. CASE j \in 1..Len(f)
      BY <1>5, <2>1, <3>1, <3>2 DEF InOrder, Rising
    <3>3. CASE j = Len(f) + 1
      BY <1>5, <1>12, <3>1, <3>3
    <3> QED
      BY <1>6, <3>2, <3>3
  <2> QED
    BY <1>13, <2>1 DEF Rising
<1>15. \A i \in 1..Len(g), j \in 1..(w - 1) : g[i] < p[j]
  <2> SUFFICES ASSUME NEW i \in 1..Len(g), NEW j \in 1..(w - 1) PROVE g[i] < p[j]
    OBVIOUS
  <2>1. h < p[j] /\ p[j] \in Nat /\ h \in Nat
    BY <1>3, <1>10
  <2>2. CASE i \in 1..Len(f)
    <3>1. g[i] = f[i] /\ f[i] < h /\ f[i] \in Nat
      BY <1>5, <1>12, <2>2
    <3> QED
      BY <2>1, <3>1
  <2>3. CASE i = Len(f) + 1
    BY <1>5, <2>1, <2>3
  <2> QED
    BY <1>6, <2>2, <2>3
<1>16. InOrder(p, g, n)
  BY <1>4, <1>10, <1>11, <1>13, <1>14, <1>15 DEF InOrder
<1> QED
  BY <1>4, <1>16 DEF p, g, h, w

LEMMA OrderOfCut ==
  ASSUME NEW q \in Seq(Nat), NEW f \in Seq(Nat), NEW n \in Nat, InOrder(q, f, n)
  PROVE  InOrder(q, SubSeq(f, 1, Len(f) - 1), n) /\ InOrder(<<>>, f, n)
<1> DEFINE g == SubSeq(f, 1, Len(f) - 1)
<1>1. CASE f = <<>>
  <2>1. Len(g) = 0
    BY <1>1
  <2> QED
    BY <1>1, <2>1, OrderAtFirst DEF InOrder, Rising
<1>2. CASE f # <<>>
  <2>1. Len(g) = Len(f) - 1 /\ \A i \in 1..Len(g) : g[i] = f[i] /\ i \in 1..Len(f)
    <3>1. Len(f) \in Nat \ {0}
      BY <1>2
    <3>2. Len(f) - 1 \in 0..Len(f)
      BY <3>1
    <3>3. Len(g) = Len(f) - 1 /\ \A i \in 1..(Len(f) - 1) : g[i] = f[i]
      <4> DEFINE m == Len(f) - 1
      <4>1. m \in 0..Len(f) /\ 1 \in 1..(Len(f) + 1) /\ m \in (1 - 1)..Len(f)
        BY <3>1
      <4> HIDE DEF m
      <4>2. Len(SubSeq(f, 1, m)) = m /\ \A i \in 1..m : SubSeq(f, 1, m)[i] = f[i]
        BY <4>1
      <4> QED
        BY <4>2 DEF m
    <3> QED
      BY <3>1, <3>3
  <2> HIDE DEF g
  <2>2. InOrder(q, g, n)
    BY <2>1 DEF InOrder, Rising
  <2>3. InOrder(<<>>, f, n)
    BY OrderAtFirst DEF InOrder, Rising
  <2> QED
    BY <2>2, <2>3 DEF g
<1> QED
  BY <1>1, <1>2

-------------------------------------------------------------------------------
(* The encoders' part of the invariant.                                     *)

LEMMA CameraType ==
  ASSUME TypeOK, NEW c \in Cameras
  PROVE  /\ queue[c] \in Seq(Nat) /\ file[c] \in Seq(Nat) /\ dropped[c] \in Nat
         /\ size \in Nat /\ at \in Cameras
         /\ Waiting(queue[c]) \in Nat
<1>1. EncoderType /\ CallType
  BY TypeParts
<1>2. queue[c] \in Seq(Nat) /\ file[c] \in Seq(Nat) /\ dropped[c] \in Nat
  BY <1>1 DEF EncoderType
<1> QED
  BY <1>1, <1>2, WaitingType DEF CallType

LEMMA ResetKeeps ==
  ASSUME CancelEpisode, size' = 0,
         main' \notin {"collect", "cleanup", "video", "meta"}
  PROVE  EncoderInv'
<1>1. ASSUME NEW c \in Cameras PROVE CameraOK(c)'
  <2>1. /\ queue'[c] = <<>> /\ file'[c] = <<>> /\ thread'[c] = "none"
        /\ result'[c] = "none"
    BY DEF CancelEpisode, All
  <2>2. InOrder(queue'[c], file'[c], size') /\ ~Ends(queue'[c])
    BY <2>1, OrderAtFirst
  <2> QED
    BY <2>1, <2>2 DEF CameraOK, Alive
<1> QED
  BY <1>1 DEF EncoderInv

(* A step that leaves the encoders alone.                                   *)
LEMMA CameraKept ==
  ASSUME NEW c \in Cameras, CameraOK(c), UNCHANGED encoderVars, size' = size,
         Ends(queue[c]) => main' \in {"collect", "cleanup"} \/ (main' = "sentinel" /\ c < at'),
         main' \in Counting => main \in Counting \/ size = 0,
         (main' = "collect" /\ c < at') \/ main' \in {"cleanup", "video", "meta"}
           => (main = "collect" /\ c < at) \/ main \in {"cleanup", "video", "meta"}
  PROVE  CameraOK(c)'
<1>1. /\ queue' = queue /\ file' = file /\ thread' = thread /\ result' = result
      /\ stopEvent' = stopEvent /\ dropped' = dropped
  BY DEF encoderVars
<1>2. InOrder(queue'[c], file'[c], size')
  BY <1>1 DEF CameraOK
<1>3. size # 0 => (main' \in Counting => main \in Counting)
  OBVIOUS
<1> QED
  BY <1>1, <1>2, <1>3 DEF CameraOK

LEMMA AddFrameKeeps ==
  ASSUME TypeOK, EncoderInv, AddFrame
  PROVE  EncoderInv'
<1>1. main = "idle" /\ main' = "idle" /\ size' = size + 1
  BY DEF AddFrame
<1>2. CASE StartEpisode /\ size = 0
  <2>1. ASSUME NEW c \in Cameras PROVE CameraOK(c)'
    <3>1. /\ queue'[c] = <<1>> /\ file'[c] = <<>> /\ thread'[c] = "waiting"
          /\ result'[c] = "none" /\ size' = 1
      BY <1>1, <1>2 DEF StartEpisode, All
    <3>2. /\ InOrder(queue'[c], file'[c], size') /\ ~Ends(queue'[c])
          /\ Waiting(queue'[c]) = 1 /\ Len(file'[c]) = 0
      BY <3>1, OrderAtFirst
    <3> QED
      BY <1>1, <3>1, <3>2 DEF CameraOK
  <2> QED
    BY <1>1, <2>1 DEF EncoderInv
<1>3. CASE FeedFrame(size + 1) /\ size # 0
  <2>1. ASSUME NEW c \in Cameras PROVE CameraOK(c)'
    <3>1. /\ queue[c] \in Seq(Nat) /\ file[c] \in Seq(Nat) /\ size \in Nat /\ dropped[c] \in Nat
          /\ size > 0 /\ Waiting(queue[c]) \in Nat
      BY <1>3, CameraType
    <3>2. /\ InOrder(queue[c], file[c], size) /\ ~Ends(queue[c])
          /\ result[c] = "none"
          /\ dropped[c] = 0 => Len(file[c]) + Waiting(queue[c]) = size
      BY <1>1, <1>3, <3>1 DEF EncoderInv, CameraOK, FeedFrame, Counting
    <3>3. /\ file' = file /\ thread' = thread /\ result' = result /\ stopEvent' = stopEvent
      BY <1>3 DEF FeedFrame
    <3>4. CASE Full(c)
      <4>1. queue'[c] = queue[c] /\ dropped'[c] = dropped[c] + 1
        BY <1>3, <3>4 DEF FeedFrame
      <4>2. InOrder(queue'[c], file'[c], size')
        BY <1>1, <3>1, <3>2, <3>3, <4>1, OrderOfFrame
      <4>3. dropped'[c] # 0
        BY <3>1, <4>1
      <4> QED
        BY <1>1, <3>2, <3>3, <4>1, <4>2, <4>3 DEF CameraOK
    <3>5. CASE ~Full(c)
      <4>1. queue'[c] = Append(queue[c], size + 1) /\ dropped'[c] = dropped[c]
        BY <1>3, <3>5 DEF FeedFrame
      <4>2. /\ InOrder(queue'[c], file'[c], size') /\ ~Ends(queue'[c])
            /\ Waiting(queue'[c]) = Waiting(queue[c]) + 1
        BY <1>1, <3>1, <3>2, <3>3, <4>1, OrderOfFrame
      <4>3. dropped'[c] = 0 => Len(file'[c]) + Waiting(queue'[c]) = size'
        <5> DEFINE w == Waiting(queue[c])
                   l == Len(file[c])
        <5>1. w \in Nat /\ l \in Nat /\ size \in Nat
          BY <3>1
        <5>2. dropped'[c] = 0 => l + w = size
          BY <3>2, <4>1
        <5>3. Waiting(queue'[c]) = w + 1 /\ Len(file'[c]) = l /\ size' = size + 1
          BY <1>1, <3>3, <4>2
        <5> HIDE DEF w, l
        <5> QED
          BY <5>1, <5>2, <5>3
      <4> QED
        BY <1>1, <3>2, <3>3, <4>2, <4>3 DEF CameraOK
    <3> QED
      BY <3>4, <3>5
  <2> QED
    BY <1>1, <2>1 DEF EncoderInv
<1> QED
  BY <1>2, <1>3 DEF AddFrame

LEMMA SendSentinelKeeps ==
  ASSUME TypeOK, EncoderInv, SendSentinel
  PROVE  EncoderInv'
<1>1. /\ main = "sentinel" /\ at \in Cameras /\ size' = size
      /\ \/ main' = "sentinel" /\ at' = at + 1
         \/ main' = "collect" /\ at' = 1 /\ at = NumCameras
  BY NextCameraType, TypeParts DEF SendSentinel, CallType, NextCamera
<1>2. /\ queue' = [queue EXCEPT ![at] = Append(queue[at], Sentinel)]
      /\ file' = file /\ thread' = thread /\ result' = result /\ stopEvent' = stopEvent
      /\ dropped' = dropped
  BY DEF SendSentinel, PutSentinel
<1>3. ASSUME NEW c \in Cameras PROVE CameraOK(c)'
  <2>1. /\ queue[c] \in Seq(Nat) /\ file[c] \in Seq(Nat) /\ size \in Nat
        /\ queue \in [Cameras -> Seq(Nat)]
    BY CameraType, TypeParts DEF EncoderType
  <2>2. CameraOK(c)
    BY DEF EncoderInv
  <2>3. /\ c <= at => main' = "collect" \/ c < at'
        /\ ~(main' = "collect" /\ c < at')
    BY <1>1 DEF Cameras
  <2>4. /\ InOrder(queue'[c], file'[c], size')
        /\ Waiting(queue'[c]) = Waiting(queue[c])
        /\ Ends(queue'[c]) => c <= at
    <3>1. CASE c = at
      <4>1. queue'[c] = Append(queue[c], Sentinel) /\ ~Ends(queue[c])
        BY <1>1, <1>2, <2>1, <2>2, <3>1 DEF CameraOK, Cameras
      <4>2. InOrder(queue[c], file[c], size)
        BY <2>2 DEF CameraOK
      <4> QED
        BY <1>1, <1>2, <2>1, <3>1, <4>1, <4>2, OrderOfSentinel DEF Cameras
    <3>2. CASE c # at
      <4>1. queue'[c] = queue[c]
        BY <1>2, <2>1, <3>2
      <4> QED
        BY <1>1, <1>2, <2>2, <4>1 DEF CameraOK, Cameras
    <3> QED
      BY <3>1, <3>2
  <2> QED
    BY <1>1, <1>2, <2>2, <2>3, <2>4 DEF CameraOK, Counting
<1> QED
  BY <1>1, <1>3 DEF EncoderInv

LEMMA CollectKeeps ==
  ASSUME TypeOK, EncoderInv, Collect
  PROVE  EncoderInv'
<1>1. /\ main = "collect" /\ at \in Cameras /\ size' = size
      /\ \/ main' = "collect" /\ at' = at + 1
         \/ main' = "cleanup" /\ at' = 1 /\ at = NumCameras
  BY NextCameraType, TypeParts DEF Collect, CallType, NextCamera
<1>2. /\ queue' = queue /\ file' = file /\ thread' = thread /\ result' = result
      /\ dropped' = dropped
      /\ \A c \in Cameras : stopEvent'[c] = (stopEvent[c] \/ (c = at /\ stopEvent'[at]))
      /\ result[at] = "ok" \/ stopEvent'[at]
  <2>1. stopEvent \in [Cameras -> BOOLEAN]
    BY TypeParts DEF EncoderType
  <2>2. CASE Finished(at) /\ UNCHANGED encoderVars
    BY <2>1, <2>2 DEF Finished, encoderVars
  <2>3. CASE JoinTimesOut(at)
    BY <1>1, <2>1, <2>3 DEF JoinTimesOut
  <2> QED
    BY <2>2, <2>3 DEF Collect
<1>3. ASSUME NEW c \in Cameras PROVE CameraOK(c)'
  <2>1. CameraOK(c)
    BY DEF EncoderInv
  <2>2. InOrder(queue'[c], file'[c], size')
    BY <1>1, <1>2, <2>1 DEF CameraOK
  <2>3. stopEvent[c] => stopEvent'[c]
    BY <1>2
  <2>4. (main' = "collect" /\ c < at') \/ main' \in {"cleanup", "video", "meta"}
          => c < at \/ c = at
    BY <1>1 DEF Cameras
  <2> QED
    BY <1>1, <1>2, <2>1, <2>2, <2>3, <2>4 DEF CameraOK, Counting
<1> QED
  BY <1>1, <1>3 DEF EncoderInv

LEMMA CleanUpKeeps ==
  ASSUME TypeOK, EncoderInv, CleanUp
  PROVE  EncoderInv'
<1>1. main = "cleanup" /\ main' = "video" /\ size' = size
  BY DEF CleanUp
<1>2. ASSUME NEW c \in Cameras PROVE CameraOK(c)'
  <2>1. /\ queue'[c] = <<>> /\ file' = file /\ thread' = thread /\ result' = result
        /\ dropped' = dropped /\ stopEvent' = stopEvent
    BY DEF CleanUp, Cleanup, All
  <2>2. CameraOK(c)
    BY DEF EncoderInv
  <2>3. InOrder(queue'[c], file'[c], size') /\ ~Ends(queue'[c])
    <3>1. InOrder(queue[c], file[c], size)
      BY <2>2 DEF CameraOK
    <3>2. InOrder(<<>>, file[c], size)
      BY <3>1, CameraType, OrderOfCut
    <3> QED
      BY <1>1, <2>1, <3>2, OrderAtFirst
  <2> QED
    BY <1>1, <2>1, <2>2, <2>3 DEF CameraOK, Counting
<1> QED
  BY <1>1, <1>2 DEF EncoderInv

LEMMA ThreadKeeps ==
  ASSUME TypeOK, StoreInv, EncoderInv, NEW d \in Cameras, EncoderThread(d)
  PROVE  EncoderInv'
<1>1. main' = main /\ at' = at /\ size' = size
  BY DEF EncoderThread, sessionVars
<1>2. EncoderType
  BY TypeParts
<1>3. dropped' = dropped /\ stopEvent' = stopEvent
  BY DEF EncoderThread, TakeFrame, Encode, Flush, EncoderRaises
<1>4. ASSUME NEW c \in Cameras, c # d PROVE CameraOK(c)'
  <2>1. CameraOK(c)
    BY DEF EncoderInv
  <2>2. /\ queue'[c] = queue[c] /\ file'[c] = file[c] /\ thread'[c] = thread[c]
        /\ result'[c] = result[c]
    BY <1>2, <1>4 DEF EncoderThread, TakeFrame, Encode, Flush, EncoderRaises, EncoderType
  <2>3. InOrder(queue'[c], file'[c], size')
    BY <1>1, <2>1, <2>2 DEF CameraOK
  <2> QED
    BY <1>1, <1>3, <2>1, <2>2, <2>3 DEF CameraOK
<1>5. CameraOK(d)'
  <2>1. CameraOK(d) /\ InOrder(queue[d], file[d], size)
    BY DEF EncoderInv, CameraOK
  <2>2. /\ queue[d] \in Seq(Nat) /\ file[d] \in Seq(Nat) /\ size \in Nat
        /\ Waiting(queue[d]) \in Nat
    BY CameraType
  <2>3. CASE TakeFrame(d)
    <3>1. /\ queue'[d] = Tail(queue[d]) /\ file'[d] = Append(file[d], Head(queue[d]))
          /\ thread'[d] = "encoding" /\ result' = result /\ thread[d] \in Alive
          /\ queue[d] # <<>> /\ Head(queue[d]) # Sentinel
      BY <1>2, <2>3 DEF TakeFrame, EncoderType, Alive
    <3>2. /\ InOrder(queue'[d], file'[d], size')
          /\ Waiting(queue'[d]) = Waiting(queue[d]) - 1
          /\ Ends(queue'[d]) => Ends(queue[d])
      BY <1>1, <2>1, <2>2, <3>1, OrderOfTake
    <3>3. Len(file'[d]) = Len(file[d]) + 1
      <4>1. Head(queue[d]) \in Nat
        BY <2>2, <3>1
      <4> QED
        BY <2>2, <3>1, <4>1
    <3>4. Len(file'[d]) + Waiting(queue'[d]) = Len(file[d]) + Waiting(queue[d])
      BY <2>2, <3>2, <3>3
    <3>5. result'[d] = "none" /\ result[d] = "none"
      BY <2>1, <3>1 DEF CameraOK
    <3> QED
      BY <1>1, <1>3, <2>1, <3>2, <3>4, <3>5 DEF CameraOK
  <2>4. CASE Encode(d)
    <3>1. queue' = queue /\ file' = file /\ result' = result /\ thread[d] \in Alive
      BY <2>4 DEF Encode, Alive
    <3>2. InOrder(queue'[d], file'[d], size') /\ result[d] = "none"
      BY <1>1, <2>1, <3>1 DEF CameraOK
    <3> QED
      BY <1>1, <1>3, <2>1, <3>1, <3>2 DEF CameraOK
  <2>5. CASE Flush(d)
    <3>1. /\ queue' = queue /\ file' = file /\ result'[d] = "ok" /\ thread'[d] = "done"
          /\ thread[d] \in Alive /\ AtTheEnd(d)
      BY <1>2, <2>5 DEF Flush, AtTheEnd, Alive, EncoderType
    <3>2. InOrder(queue'[d], file'[d], size') /\ result[d] = "none"
      BY <1>1, <2>1, <3>1 DEF CameraOK
    <3>3. dropped[d] = 0 /\ ~stopEvent[d] => Len(file[d]) = size
      <4> SUFFICES ASSUME dropped[d] = 0, ~stopEvent[d] PROVE Len(file[d]) = size
        OBVIOUS
      <4>1. queue[d] # <<>> /\ queue[d][1] = Sentinel /\ Len(queue[d]) \in Nat \ {0}
        BY <2>2, <3>1 DEF AtTheEnd
      <4>2. Waiting(queue[d]) = 0
        <5>1. SUFFICES ASSUME Waiting(queue[d]) # 0 PROVE FALSE
          OBVIOUS
        <5>2. 1 \in 1..Waiting(queue[d])
          BY <2>2, <5>1
        <5>3. queue[d][1] \in 1..size
          BY <2>1, <5>2 DEF InOrder
        <5> QED
          BY <2>2, <4>1, <5>3 DEF Sentinel
      <4>3. Ends(queue[d])
        BY <4>1, <4>2 DEF Waiting
      <4>4. main \in {"collect", "cleanup", "sentinel"}
        BY <2>1, <4>3 DEF CameraOK
      <4>5. size > 0
        BY <4>4 DEF StoreInv, SavingOK, Saving
      <4> QED
        BY <2>1, <2>2, <3>2, <4>2, <4>4, <4>5 DEF CameraOK, Counting
    <3> QED
      BY <1>1, <1>3, <2>1, <3>1, <3>2, <3>3 DEF CameraOK, Alive
  <2>6. CASE EncoderRaises(d)
    <3>1. /\ queue' = queue /\ result'[d] = "error" /\ thread'[d] = "done"
          /\ thread[d] \in Alive
          /\ file'[d] \in {file[d], SubSeq(file[d], 1, Len(file[d]) - 1)}
      BY <1>2, <2>6 DEF EncoderRaises, AtTheEnd, Alive, EncoderType
    <3>2. InOrder(queue'[d], file'[d], size') /\ result[d] = "none"
      <4>1. InOrder(queue[d], SubSeq(file[d], 1, Len(file[d]) - 1), size)
        BY <2>1, <2>2, OrderOfCut
      <4> QED
        BY <1>1, <2>1, <3>1, <4>1 DEF CameraOK
    <3> QED
      BY <1>1, <1>3, <2>1, <3>1, <3>2 DEF CameraOK, Alive
  <2> QED
    BY <2>3, <2>4, <2>5, <2>6 DEF EncoderThread
<1> QED
  BY <1>1, <1>4, <1>5 DEF EncoderInv

LEMMA EncoderInvInit == Init => EncoderInv
<1> SUFFICES ASSUME Init PROVE EncoderInv
  OBVIOUS
<1>1. ASSUME NEW c \in Cameras PROVE CameraOK(c)
  <2>1. /\ queue[c] = <<>> /\ file[c] = <<>> /\ thread[c] = "none" /\ result[c] = "none"
        /\ size = 0 /\ main = "idle"
    BY DEF Init, EncoderInit, All
  <2>2. InOrder(queue[c], file[c], size) /\ ~Ends(queue[c])
    BY <2>1, OrderAtFirst
  <2> QED
    BY <2>1, <2>2 DEF CameraOK, Alive
<1> QED
  BY <1>1 DEF EncoderInv, Init

LEMMA EncoderInvNext == TypeOK /\ StoreInv /\ EncoderInv /\ [Next]_vars => EncoderInv'
<1> SUFFICES ASSUME TypeOK, StoreInv, EncoderInv, [Next]_vars PROVE EncoderInv'
  OBVIOUS
<1>1. CASE AddFrame
  BY <1>1, AddFrameKeeps
<1>2. CASE ClearEpisodeBuffer \/ WriteInfo \/ EndSession \/ Crash
  BY <1>2, ResetKeeps DEF ClearEpisodeBuffer, WriteInfo, EndSession, CloseData, Crash
<1>3. CASE EncoderFailed \/ VideoMissing \/ SaveFails
  BY <1>3, ResetKeeps DEF EncoderFailed, VideoMissing, SaveFails, FailedCall, CloseData
<1>4. CASE SendSentinel
  BY <1>4, SendSentinelKeeps
<1>5. CASE Collect
  BY <1>5, CollectKeeps
<1>6. CASE CleanUp
  BY <1>6, CleanUpKeeps
<1>7. CASE \E c \in Cameras : EncoderThread(c)
  BY <1>7, ThreadKeeps
<1>8. CASE SaveEpisode \/ WriteRows \/ MoveVideo \/ BufferMeta \/ CloseMeta \/ Resume
           \/ UNCHANGED vars
  <2>1. UNCHANGED encoderVars /\ size' = size
    BY <1>8
    DEF SaveEpisode, WriteRows, MoveVideo, BufferMeta, CloseMeta, Resume, vars, encoderVars
  <2>2. \/ main = "idle" /\ main' = "rows"
        \/ main = "rows" /\ main' = "sentinel" /\ at' = 1
        \/ main = "video" /\ main' \in {"video", "meta"}
        \/ main = "meta" /\ main' = "info"
        \/ main = "closing" /\ main' = "none" /\ size = 0
        \/ main = "none" /\ main' = "idle" /\ size = 0
        \/ main' = main /\ at' = at
    BY <1>8
    DEF SaveEpisode, WriteRows, MoveVideo, NextCamera, BufferMeta, CloseMeta, Resume, vars,
        EncoderInv
  <2>3. ASSUME NEW c \in Cameras PROVE CameraOK(c)'
    <3>1. CameraOK(c)
      BY DEF EncoderInv
    <3>2. Ends(queue[c]) => main' \in {"collect", "cleanup"} \/ (main' = "sentinel" /\ c < at')
      BY <2>2, <3>1 DEF CameraOK
    <3>3. main' \in Counting => main \in Counting \/ size = 0
      BY <2>2 DEF Counting
    <3>4. (main' = "collect" /\ c < at') \/ main' \in {"cleanup", "video", "meta"}
            => (main = "collect" /\ c < at) \/ main \in {"cleanup", "video", "meta"}
      BY <2>2
    <3> QED
      BY <2>1, <3>1, <3>2, <3>3, <3>4, CameraKept
  <2> QED
    BY <2>1, <2>2, <2>3 DEF EncoderInv
<1> QED
  BY <1>1, <1>2, <1>3, <1>4, <1>5, <1>6, <1>7, <1>8 DEF Next, SaveStep

-------------------------------------------------------------------------------
(* The clips. In the files v of a camera, a clip holds the frames of episode  *)
(* t in their order, all n of them if it is whole.                           *)

InFile(v, clip, t, n, whole) ==
  /\ clip.file \in 1..Len(v)
  /\ clip.from < clip.to /\ clip.to <= Len(v[clip.file])
  /\ \A k \in (clip.from + 1)..clip.to : v[clip.file][k].take = t
  /\ \A k \in (clip.from + 1)..clip.to, l \in (clip.from + 1)..clip.to :
       k < l => v[clip.file][k].frame < v[clip.file][l].frame
  /\ whole => clip.to - clip.from = n

AtEnd(v, clip) == clip.to = Len(v[clip.file])

SavedClipOK(i, c) ==
  /\ InFile(videos[c], meta[i].video[c], meta[i].take, meta[i].length, meta[i].complete[c])
  /\ \A j \in 1..i : meta[j].video[c].file <= meta[i].video[c].file

ClipsOK == \A i \in 1..Len(meta), c \in Cameras : SavedClipOK(i, c)

(* The clip of the episode that is being saved has been written.            *)
Moved(c) == main = "meta" \/ (main = "video" /\ c < at)

Recording == Saving \cup {"idle"}

NewClipOK(c) ==
  /\ Moved(c) =>
       /\ InFile(videos[c], clips[c], take, size, dropped[c] = 0 /\ ~stopEvent[c])
       /\ AtEnd(videos[c], clips[c])
       /\ clips[c].file >= LatestClip(c).file
  /\ ~Moved(c) /\ main \in Recording /\ Len(meta) > loaded => AtEnd(videos[c], LatestClip(c))

VideoInv == ClipsOK /\ \A c \in Cameras : NewClipOK(c)

LEMMA InFileKept ==
  ASSUME NEW v \in Seq(Seq(VideoFrame)), NEW u \in Seq(Seq(VideoFrame)), NEW clip \in Clip,
         NEW t, NEW n, NEW whole, InFile(v, clip, t, n, whole),
         Len(u) >= Len(v), NEW x \in Seq(VideoFrame),
         u[clip.file] = v[clip.file] \/ u[clip.file] = v[clip.file] \o x
  PROVE  InFile(u, clip, t, n, whole)
<1> DEFINE f == clip.file
           old == v[f]
           new == u[f]
           lo == clip.from + 1
           hi == clip.to
<1>1. f \in 1..Len(v) /\ f \in 1..Len(u) /\ clip.from \in Nat /\ lo \in Nat /\ hi \in Nat
  BY DEF InFile, Clip
<1>2. old \in Seq(VideoFrame) /\ new \in Seq(VideoFrame)
  BY <1>1
<1>3. lo <= hi /\ lo >= 1 /\ hi <= Len(old)
  BY <1>1 DEF InFile
<1>4. new = old \/ new = old \o x
  OBVIOUS
<1> HIDE DEF f, old, new, lo, hi
<1>5. Len(new) >= Len(old) /\ \A k \in 1..Len(old) : new[k] = old[k]
  BY <1>2, <1>4
<1>6. Len(old) \in Nat /\ Len(new) \in Nat
  BY <1>2
<1>7. hi <= Len(new) /\ \A k \in lo..hi : new[k] = old[k]
  <2>1. Len(old) <= Len(new) /\ hi <= Len(old)
    BY <1>3, <1>5
  <2>2. \A k \in lo..hi : k \in 1..Len(old)
    BY <1>1, <1>3, <1>6
  <2> QED
    BY <1>1, <1>5, <1>6, <2>1, <2>2
<1> QED
  BY <1>1, <1>7 DEF InFile, f, old, new, lo, hi

(* What _save_episode_video appends to, or begins, a file.                  *)
LEMMA InFileNew ==
  ASSUME TypeOK, NEW c \in Cameras, InOrder(queue[c], file[c], size), file[c] # <<>>,
         NEW v \in Seq(Seq(VideoFrame)), NEW clip \in Clip, NEW whole, NEW old \in Seq(VideoFrame),
         clip.file \in 1..Len(v), v[clip.file] = old \o Frames(c),
         clip.from = Len(old), clip.to = clip.from + Len(file[c]),
         whole => Len(file[c]) = size
  PROVE  InFile(v, clip, take, size, whole) /\ AtEnd(v, clip)
<1> DEFINE m == Len(old)
           F == Frames(c)
           l == Len(file[c])
           new == old \o F
<1>1. F \in Seq(VideoFrame) /\ Len(F) = l
  BY FramesType
<1>2. \A i \in 1..l : F[i].take = take /\ F[i].frame = file[c][i]
  <2>1. \A i \in 1..Len(file[c]) : Frames(c)[i] = [take |-> take, frame |-> file[c][i]]
    BY FramesType
  <2> TAKE i \in 1..l
  <2>2. F[i] = [take |-> take, frame |-> file[c][i]]
    BY <2>1
  <2> QED
    BY ONLY <2>2
<1>3. \A i \in 1..l, j \in 1..l : i < j => F[i].frame < F[j].frame
  BY <1>2 DEF InOrder, Rising
<1>4. l \in Nat \ {0} /\ m \in Nat /\ size \in Nat
  BY CameraType, EmptySeq
<1> HIDE DEF F, l, m
<1>5. Len(new) = m + l /\ \A k \in (m + 1)..(m + l) : new[k] = F[k - m] /\ k - m \in 1..l
  <2>1. Len(new) = m + l
    BY <1>1 DEF m
  <2>2. \A k \in (m + 1)..(m + l) : k - m \in 1..l /\ k \in 1..(m + l) /\ k > m
    BY <1>4
  <2>3. \A k \in 1..(m + l) : k > m => new[k] = F[k - m]
    BY <1>1 DEF m
  <2> QED
    BY <2>1, <2>2, <2>3
<1>6. v[clip.file] = new /\ clip.from = m /\ clip.to = m + l
  BY DEF F, l, m
<1> HIDE DEF new
<1>7. \A k \in (m + 1)..(m + l) : new[k].take = take
  BY <1>2, <1>5
<1>8. \A k \in (m + 1)..(m + l), j \in (m + 1)..(m + l) : k < j => new[k].frame < new[j].frame
  <2> SUFFICES ASSUME NEW k \in (m + 1)..(m + l), NEW j \in (m + 1)..(m + l), k < j
               PROVE  new[k].frame < new[j].frame
    OBVIOUS
  <2>1. k - m \in 1..l /\ j - m \in 1..l /\ k - m < j - m
    BY <1>4, <1>5
  <2> QED
    BY <1>3, <1>5, <2>1
<1>9. whole => (m + l) - m = size
  BY <1>4 DEF l
<1>10. m < m + l /\ m + l <= Len(new) /\ m + l = Len(new)
  BY <1>4, <1>5
<1> QED
  BY <1>6, <1>7, <1>8, <1>9, <1>10 DEF InFile, AtEnd

LEMMA ClipTypes ==
  ASSUME TypeOK
  PROVE  /\ \A i \in 1..Len(meta), c \in Cameras :
              meta[i].video[c] \in Clip /\ meta[i].video[c].file \in Nat
         /\ \A c \in Cameras : clips[c] \in Clip /\ clips[c].file \in Nat
         /\ \A c \in Cameras : videos[c] \in Seq(Seq(VideoFrame))
<1>1. meta \in Seq(Episode) /\ clips \in [Cameras -> Clip]
      /\ videos \in [Cameras -> Seq(Seq(VideoFrame))]
  BY TypeParts DEF MetaType, CallType, DiskType
<1>2. \A i \in 1..Len(meta) : meta[i].video \in [Cameras -> Clip]
  <2> TAKE i \in 1..Len(meta)
  <2>1. meta[i] \in Episode
    BY <1>1
  <2> QED
    BY <2>1 DEF Episode
<1> QED
  BY <1>1, <1>2 DEF Clip

LEMMA MoveVideoClips ==
  ASSUME TypeOK, StoreInv, EncoderInv, VideoInv, MoveVideo
  PROVE  VideoInv'
<1>1. /\ main = "video" /\ at \in Cameras
      /\ \/ main' = "video" /\ at' = at + 1
         \/ main' = "meta" /\ at' = 1 /\ at = NumCameras
  BY NextCameraType, TypeParts DEF MoveVideo, CallType, NextCamera
<1>2. /\ UNCHANGED <<meta, loaded, take, size>> /\ UNCHANGED encoderVars
      /\ file[at] # <<>> /\ thread[at] = "done"
  BY DEF MoveVideo, metaVars, sessionVars
<1>3. /\ \A c \in Cameras : c # at => videos'[c] = videos[c] /\ clips'[c] = clips[c]
      /\ \A c \in Cameras : Len(videos'[c]) >= Len(videos[c])
      /\ clips'[at].file \in 1..Len(videos'[at])
      /\ videos' \in [Cameras -> Seq(Seq(VideoFrame))] /\ clips' \in [Cameras -> Clip]
      /\ \A k \in 1..Len(videos[at]) : k # clips'[at].file => videos'[at][k] = videos[at][k]
  BY VideoMoved DEF StoreInv
<1>4. \A c \in Cameras : Moved(c)' <=> Moved(c) \/ c = at
  BY <1>1 DEF Moved, Cameras
<1>5. ~Moved(at)
  BY <1>1 DEF Moved, Cameras
<1> DEFINE latest == LatestClip(at)
<1>6. latest \in Clip /\ latest.file \in Nat /\ latest.to \in Nat
  BY <1>1, LastEpisode DEF StoreInv, Clip
<1>7. Frames(at) \in Seq(VideoFrame) /\ Len(Frames(at)) = Len(file[at]) /\ Len(file[at]) \in Nat
  BY <1>1, FramesType, CameraType
<1>8. dropped[at] = 0 /\ ~stopEvent[at] => Len(file[at]) = size
  BY <1>1 DEF EncoderInv, CameraOK
<1>9. InOrder(queue[at], file[at], size)
  BY <1>1 DEF EncoderInv, CameraOK
<1> HIDE DEF latest
<1>10. \/ /\ clips'[at] = ClipAt(latest.file + 1, 0)
          /\ videos'[at][clips'[at].file] = Frames(at)
       \/ /\ Len(meta) > loaded
          /\ clips'[at] = ClipAt(latest.file, latest.to)
          /\ latest.file \in 1..Len(videos[at])
          /\ videos'[at][clips'[at].file] = videos[at][latest.file] \o Frames(at)
  BY VideoMoved DEF StoreInv, latest
<1>11. PICK old \in Seq(VideoFrame) :
         /\ videos'[at][clips'[at].file] = old \o Frames(at)
         /\ clips'[at].from = Len(old) /\ clips'[at].to = clips'[at].from + Len(file[at])
         /\ \/ clips'[at].file = latest.file + 1
            \/ clips'[at].file = latest.file /\ old = videos[at][latest.file]
  <2>1. CASE /\ clips'[at] = ClipAt(latest.file + 1, 0)
             /\ videos'[at][clips'[at].file] = Frames(at)
    <3>1. Frames(at) = <<>> \o Frames(at) /\ <<>> \in Seq(VideoFrame)
      BY <1>7
    <3>2. /\ clips'[at].file = latest.file + 1 /\ clips'[at].from = 0
          /\ clips'[at].to = 0 + Len(file[at])
      BY <2>1 DEF ClipAt
    <3>3. Len(<<>>) = 0
      OBVIOUS
    <3> QED
      BY <2>1, <3>1, <3>2, <3>3
  <2>2. CASE /\ Len(meta) > loaded
             /\ clips'[at] = ClipAt(latest.file, latest.to)
             /\ latest.file \in 1..Len(videos[at])
             /\ videos'[at][clips'[at].file] = videos[at][latest.file] \o Frames(at)
    <3>1. latest.to = Len(videos[at][latest.file])
      BY <1>1, <1>5, <2>2 DEF VideoInv, NewClipOK, Recording, Saving, AtEnd, latest
    <3>2. videos[at][latest.file] \in Seq(VideoFrame)
      BY <1>1, <2>2, ClipTypes
    <3>3. /\ clips'[at].file = latest.file /\ clips'[at].from = latest.to
          /\ clips'[at].to = latest.to + Len(file[at])
      BY <2>2 DEF ClipAt
    <3> QED
      BY <2>2, <3>1, <3>2, <3>3
  <2> QED
    BY <1>10, <2>1, <2>2
<1>12. /\ InFile(videos'[at], clips'[at], take, size, dropped[at] = 0 /\ ~stopEvent[at])
       /\ AtEnd(videos'[at], clips'[at])
  <2> DEFINE v == videos'[at]
             clip == clips'[at]
             whole == dropped[at] = 0 /\ ~stopEvent[at]
  <2>1. /\ v \in Seq(Seq(VideoFrame)) /\ clip \in Clip /\ clip.file \in 1..Len(v)
        /\ v[clip.file] = old \o Frames(at) /\ clip.from = Len(old)
        /\ clip.to = clip.from + Len(file[at])
        /\ whole => Len(file[at]) = size
    BY <1>1, <1>3, <1>8, <1>11
  <2> HIDE DEF v, clip, whole
  <2>2. InFile(v, clip, take, size, whole) /\ AtEnd(v, clip)
    BY <1>1, <1>2, <1>9, <2>1, InFileNew
  <2> QED
    BY <2>2 DEF v, clip, whole
<1>13. ClipsOK'
  <2> SUFFICES ASSUME NEW i \in 1..Len(meta), NEW c \in Cameras
               PROVE  /\ InFile(videos'[c], meta[i].video[c], meta[i].take, meta[i].length,
                                meta[i].complete[c])
                      /\ \A j \in 1..i : meta[j].video[c].file <= meta[i].video[c].file
    BY <1>2 DEF ClipsOK, SavedClipOK
  <2>1. /\ InFile(videos[c], meta[i].video[c], meta[i].take, meta[i].length, meta[i].complete[c])
        /\ \A j \in 1..i : meta[j].video[c].file <= meta[i].video[c].file
    BY DEF VideoInv, ClipsOK, SavedClipOK
  <2>2. CASE c # at
    BY <1>3, <2>1, <2>2
  <2>3. CASE c = at
    <3> DEFINE clip == meta[i].video[at]
    <3>1. clip \in Clip /\ clip.file \in 1..Len(videos[at]) /\ clip.file <= latest.file
      <4>1. clip \in Clip /\ clip.file \in 1..Len(videos[at])
        BY <2>1, <2>3, ClipTypes DEF InFile
      <4>2. meta # <<>> /\ Len(meta) \in 1..Len(meta) /\ i \in 1..Len(meta)
        BY LastEpisode DEF StoreInv
      <4>3. latest = meta[Len(meta)].video[at]
        BY <1>1, <4>2, LastEpisode DEF StoreInv, latest
      <4>4. meta[i].video[at].file <= meta[Len(meta)].video[at].file
        BY <1>1, <4>2 DEF VideoInv, ClipsOK, SavedClipOK
      <4> QED
        BY <4>1, <4>3, <4>4
    <3>2. \/ videos'[at][clip.file] = videos[at][clip.file]
          \/ videos'[at][clip.file] = videos[at][clip.file] \o Frames(at)
      <4>1. CASE clip.file # clips'[at].file
        BY <1>3, <3>1, <4>1
      <4>2. CASE clip.file = clips'[at].file
        <5>1. clips'[at].file = latest.file /\ old = videos[at][latest.file]
          <6>1. clips'[at].file # latest.file + 1
            BY <1>6, <3>1, <4>2
          <6> QED
            BY <1>11, <6>1
        <5> QED
          BY <1>11, <4>2, <5>1
      <4> QED
        BY <4>1, <4>2
    <3> DEFINE v == videos[at]
               u == videos'[at]
               t == meta[i].take
               n == meta[i].length
               whole == meta[i].complete[at]
    <3>3. /\ v \in Seq(Seq(VideoFrame)) /\ u \in Seq(Seq(VideoFrame)) /\ Len(u) >= Len(v)
          /\ InFile(v, clip, t, n, whole)
          /\ u[clip.file] = v[clip.file] \/ u[clip.file] = v[clip.file] \o Frames(at)
          /\ clip \in Clip
      BY <1>1, <1>3, <2>1, <2>3, <3>1, <3>2, ClipTypes
    <3> HIDE DEF v, u, t, n, whole, clip
    <3>4. InFile(u, clip, t, n, whole)
      BY <1>7, <3>3, InFileKept
    <3> QED
      BY <2>1, <2>3, <3>4 DEF v, u, t, n, whole, clip
  <2> QED
    BY <2>2, <2>3
<1>14. ASSUME NEW c \in Cameras PROVE NewClipOK(c)'
  <2>1. UNCHANGED <<dropped, stopEvent>> /\ LatestClip(c)' = LatestClip(c)
    BY <1>2 DEF encoderVars, LatestClip
  <2>2. CASE c # at
    <3>1. NewClipOK(c) /\ (Moved(c)' <=> Moved(c))
      BY <1>4, <2>2 DEF VideoInv
    <3>2. videos'[c] = videos[c] /\ clips'[c] = clips[c]
      BY <1>3, <2>2
    <3> QED
      BY <1>1, <1>2, <2>1, <3>1, <3>2 DEF NewClipOK, Recording, Saving
  <2>3. CASE c = at
    <3>1. Moved(c)'
      BY <1>4, <2>3
    <3>2. clips'[at].file >= latest.file
      BY <1>6, <1>11
    <3> QED
      BY <1>2, <1>12, <2>1, <2>3, <3>1, <3>2 DEF NewClipOK, latest
  <2> QED
    BY <2>2, <2>3
<1> QED
  BY <1>13, <1>14 DEF VideoInv

(* Steps that leave the saved episodes, their videos and, of the episode that *)
(* is being saved, the clips alone.                                          *)
LEMMA ClipsKept ==
  ASSUME TypeOK, VideoInv, UNCHANGED <<meta, videos>>,
         \A c \in Cameras :
           /\ Moved(c)' => /\ Moved(c) /\ UNCHANGED <<clips, take, size>>
                           /\ dropped'[c] = dropped[c] /\ stopEvent'[c] = stopEvent[c]
           /\ ~Moved(c)' /\ main' \in Recording /\ Len(meta) > loaded'
                => ~Moved(c) /\ main \in Recording /\ loaded' = loaded
  PROVE  VideoInv'
<1>1. ClipsOK'
  BY DEF VideoInv, ClipsOK, SavedClipOK
<1>2. ASSUME NEW c \in Cameras PROVE NewClipOK(c)'
  <2>1. LatestClip(c)' = LatestClip(c)
    BY DEF LatestClip
  <2>2. NewClipOK(c)
    BY DEF VideoInv
  <2>3. CASE Moved(c)'
    BY <2>1, <2>2, <2>3 DEF NewClipOK
  <2>4. CASE ~Moved(c)'
    BY <2>1, <2>2, <2>4 DEF NewClipOK
  <2> QED
    BY <2>3, <2>4
<1> QED
  BY <1>1, <1>2 DEF VideoInv

LEMMA BufferMetaClips ==
  ASSUME TypeOK, StoreInv, VideoInv, BufferMeta
  PROVE  VideoInv'
<1> DEFINE n == Len(meta)
           e == SavedEpisode
<1>1. /\ main = "meta" /\ main' = "info"
      /\ UNCHANGED <<videos, loaded>>
  BY DEF BufferMeta, diskVars, sessionVars
<1>2. /\ meta \in Seq(Episode) /\ e \in Episode /\ n \in Nat
      /\ e.take = take /\ e.length = size /\ e.video = clips
  BY SavedType, TypeParts DEF StoreInv, MetaType
<1>3. \A c \in Cameras : e.complete[c] = (dropped[c] = 0 /\ ~stopEvent[c])
  BY DEF SavedEpisode
<1>4. meta' = Append(meta, e)
  BY DEF BufferMeta
<1> HIDE DEF e, n
<1>5. /\ Len(meta') = n + 1 /\ meta'[n + 1] = e /\ meta' # <<>>
      /\ \A i \in 1..n : meta'[i] = meta[i]
  BY <1>2, <1>4 DEF n
<1>6. ASSUME NEW c \in Cameras
      PROVE  /\ InFile(videos[c], clips[c], take, size, dropped[c] = 0 /\ ~stopEvent[c])
             /\ AtEnd(videos[c], clips[c])
             /\ \A i \in 1..n : meta[i].video[c].file <= clips[c].file
             /\ \A i \in 1..n : meta[i].video[c].file \in Nat
             /\ clips[c].file \in Nat
  <2>1. Moved(c)
    BY <1>1 DEF Moved
  <2>2. /\ InFile(videos[c], clips[c], take, size, dropped[c] = 0 /\ ~stopEvent[c])
        /\ AtEnd(videos[c], clips[c])
        /\ clips[c].file >= LatestClip(c).file
    BY <2>1 DEF VideoInv, NewClipOK
  <2>3. clips[c].file \in Nat /\ \A i \in 1..n : meta[i].video[c].file \in Nat
    BY ClipTypes DEF n
  <2>4. ASSUME NEW i \in 1..n PROVE meta[i].video[c].file <= clips[c].file
    <3>1. n \in 1..n /\ LatestClip(c) = meta[n].video[c]
      BY <1>2, LastEpisode DEF StoreInv, n
    <3>2. meta[i].video[c].file <= meta[n].video[c].file
      BY <3>1 DEF VideoInv, ClipsOK, SavedClipOK, n
    <3> QED
      BY <2>2, <2>3, <3>1, <3>2
  <2> QED
    BY <2>2, <2>3, <2>4
<1>7. ClipsOK'
  <2> SUFFICES ASSUME NEW i \in 1..(n + 1), NEW c \in Cameras
               PROVE  /\ InFile(videos[c], meta'[i].video[c], meta'[i].take, meta'[i].length,
                                meta'[i].complete[c])
                      /\ \A j \in 1..i : meta'[j].video[c].file <= meta'[i].video[c].file
    BY <1>1, <1>5 DEF ClipsOK, SavedClipOK
  <2>1. CASE i \in 1..n
    <3>1. /\ InFile(videos[c], meta[i].video[c], meta[i].take, meta[i].length,
                    meta[i].complete[c])
          /\ \A j \in 1..i : meta[j].video[c].file <= meta[i].video[c].file
      BY <2>1 DEF VideoInv, ClipsOK, SavedClipOK, n
    <3>2. \A j \in 1..i : j \in 1..n
      BY <1>2, <2>1
    <3>3. \A j \in 1..i : meta'[j] = meta[j]
      BY <1>5, <3>2
    <3> QED
      BY <1>5, <2>1, <3>1, <3>3
  <2>2. CASE i = n + 1
    <3>1. meta'[i].video[c] = clips[c] /\ meta'[i].take = take /\ meta'[i].length = size
      BY <1>2, <1>5, <2>2
    <3>2. meta'[i].complete[c] = (dropped[c] = 0 /\ ~stopEvent[c])
      BY <1>3, <1>5, <2>2
    <3>3. \A j \in 1..i : meta'[j].video[c].file <= clips[c].file
      <4> TAKE j \in 1..i
      <4>1. CASE j \in 1..n
        BY <1>5, <1>6, <4>1
      <4>2. CASE j = n + 1
        BY <1>6, <2>2, <3>1, <4>2
      <4> QED
        BY <1>2, <2>2, <4>1, <4>2
    <3>4. /\ InFile(videos[c], clips[c], take, size, dropped[c] = 0 /\ ~stopEvent[c])
      BY <1>6
    <3> QED
      BY <3>1, <3>2, <3>3, <3>4
  <2> QED
    BY <1>2, <2>1, <2>2
<1>8. ASSUME NEW c \in Cameras PROVE NewClipOK(c)'
  <2>1. ~Moved(c)'
    BY <1>1 DEF Moved
  <2>2. LatestClip(c)' = clips[c]
    BY <1>2, <1>5 DEF LatestClip, Last
  <2> QED
    BY <1>1, <1>6, <2>1, <2>2 DEF NewClipOK
<1> QED
  BY <1>7, <1>8 DEF VideoInv

LEMMA CrashClips ==
  ASSUME TypeOK, VideoInv, Crash
  PROVE  VideoInv'
<1>1. videos' = videos /\ main' \in {"none", "lost"}
  BY DEF Crash
<1>2. /\ Len(meta') = durable /\ durable \in 0..Len(meta) /\ Len(meta) \in Nat
      /\ \A i \in 1..durable : meta'[i] = meta[i]
  BY CutMeta, TypeParts DEF Crash, MetaType
<1>3. ClipsOK'
  <2> SUFFICES ASSUME NEW i \in 1..durable, NEW c \in Cameras
               PROVE  /\ InFile(videos[c], meta'[i].video[c], meta'[i].take, meta'[i].length,
                                meta'[i].complete[c])
                      /\ \A j \in 1..i : meta'[j].video[c].file <= meta'[i].video[c].file
    BY <1>1, <1>2 DEF ClipsOK, SavedClipOK
  <2>1. i \in 1..Len(meta) /\ \A j \in 1..i : j \in 1..durable
    BY <1>2
  <2>2. /\ InFile(videos[c], meta[i].video[c], meta[i].take, meta[i].length, meta[i].complete[c])
        /\ \A j \in 1..i : meta[j].video[c].file <= meta[i].video[c].file
    BY <2>1 DEF VideoInv, ClipsOK, SavedClipOK
  <2>3. \A j \in 1..i : meta'[j] = meta[j]
    BY <1>2, <2>1
  <2> QED
    BY <1>2, <2>2, <2>3
<1>4. ASSUME NEW c \in Cameras PROVE NewClipOK(c)'
  BY <1>1 DEF NewClipOK, Moved, Recording, Saving
<1> QED
  BY <1>3, <1>4 DEF VideoInv

LEMMA VideoInvNext ==
  TypeOK /\ StoreInv /\ EncoderInv /\ VideoInv /\ [Next]_vars => VideoInv'
<1> SUFFICES ASSUME TypeOK, StoreInv, EncoderInv, VideoInv, [Next]_vars PROVE VideoInv'
  OBVIOUS
<1>1. CASE MoveVideo
  BY <1>1, MoveVideoClips
<1>2. CASE BufferMeta
  BY <1>2, BufferMetaClips
<1>3. CASE Crash
  BY <1>3, CrashClips
<1>4. CASE AddFrame \/ ClearEpisodeBuffer \/ SaveEpisode \/ WriteRows \/ SendSentinel
           \/ Collect \/ CleanUp \/ WriteInfo
  <2>1. UNCHANGED <<meta, videos, loaded>>
    BY <1>4
    DEF AddFrame, ClearEpisodeBuffer, SaveEpisode, WriteRows, SendSentinel, Collect, CleanUp,
        WriteInfo, diskVars, metaVars, sessionVars
  <2>2. /\ main \in Recording /\ main \notin {"video", "meta"}
        /\ main' # "meta" /\ (main' = "video" => main = "cleanup" /\ at' = at)
    BY <1>4
    DEF AddFrame, ClearEpisodeBuffer, SaveEpisode, WriteRows, SendSentinel, Collect, CleanUp,
        WriteInfo, NextCamera, Recording, Saving
  <2>3. \A c \in Cameras : ~Moved(c) /\ ~Moved(c)'
    <3> TAKE c \in Cameras
    <3>1. main' = "video" => ~(c < at')
      BY <2>2 DEF StoreInv, SavingOK, Cameras
    <3> QED
      BY <2>2, <3>1 DEF Moved
  <2> QED
    BY <2>1, <2>2, <2>3, ClipsKept
<1>5. CASE CloseMeta \/ Resume \/ EndSession \/ EncoderFailed \/ VideoMissing \/ SaveFails
  <2>1. UNCHANGED <<meta, videos>>
    BY <1>5
    DEF CloseMeta, Resume, EndSession, EncoderFailed, VideoMissing, SaveFails, FailedCall,
        CloseData, diskVars, metaVars
  <2>2. \/ main' \in {"closing", "none"}
        \/ main' = "idle" /\ loaded' = Len(meta)
    BY <1>5
    DEF CloseMeta, Resume, EndSession, EncoderFailed, VideoMissing, SaveFails, FailedCall,
        CloseData
  <2>3. Len(meta) \in Nat
    BY TypeParts DEF MetaType
  <2>4. \A c \in Cameras : ~Moved(c)'
    BY <2>2 DEF Moved
  <2>5. ~(main' \in Recording /\ Len(meta) > loaded')
    BY <2>2, <2>3 DEF Recording, Saving
  <2> QED
    BY <2>1, <2>4, <2>5, ClipsKept
<1>6. CASE (\E c \in Cameras : EncoderThread(c)) \/ UNCHANGED vars
  <2>1. UNCHANGED <<meta, videos, loaded, main, at, clips, take, size, dropped, stopEvent>>
    BY <1>6
    DEF EncoderThread, TakeFrame, Encode, Flush, EncoderRaises, vars, encoderVars, diskVars,
        metaVars, sessionVars
  <2>2. \A c \in Cameras : Moved(c)' <=> Moved(c)
    BY <2>1 DEF Moved
  <2> QED
    BY <2>1, <2>2, ClipsKept
<1> QED
  BY <1>1, <1>2, <1>3, <1>4, <1>5, <1>6 DEF Next, SaveStep

LEMMA VideoInvInit == Init => VideoInv
<1> SUFFICES ASSUME Init PROVE VideoInv
  OBVIOUS
<1>1. main = "idle" /\ loaded = Len(meta) /\ Len(meta) \in Nat
  BY TypeInit, TypeParts DEF Init, MetaType
<1>2. \A c \in Cameras : NewClipOK(c)
  BY <1>1 DEF NewClipOK, Moved
<1>3. CASE Created
  BY <1>2, <1>3 DEF Created, VideoInv, ClipsOK
<1>4. CASE Loaded
  <2>1. ASSUME NEW c \in Cameras PROVE SavedClipOK(1, c)
    <3> DEFINE clip == [file |-> 1, from |-> 0, to |-> 1]
               frame == [take |-> 0, frame |-> 1]
    <3>1. meta[1].video = All(clip) /\ meta[1].take = 0 /\ meta[1].length = 1
      BY <1>4 DEF Loaded
    <3>2. videos[c] = <<<<frame>>>> /\ meta[1].video[c] = clip
      BY <1>4, <3>1 DEF Loaded, All
    <3>3. Len(videos[c]) = 1 /\ Len(videos[c][1]) = 1 /\ videos[c][1][1].take = 0
      BY <3>2
    <3>4. /\ clip.file = 1 /\ clip.from = 0 /\ clip.to = 1
      OBVIOUS
    <3> HIDE DEF clip
    <3>5. InFile(videos[c], clip, 0, 1, meta[1].complete[c])
      BY <3>3, <3>4 DEF InFile
    <3> QED
      BY <3>1, <3>2, <3>4, <3>5 DEF SavedClipOK
  <2>2. Len(meta) = 1
    BY <1>4 DEF Loaded
  <2>3. \A i \in 1..1 : i = 1
    OBVIOUS
  <2> QED
    BY <1>2, <2>1, <2>2, <2>3 DEF VideoInv, ClipsOK
<1> QED
  BY <1>3, <1>4 DEF Init

RecordingInv == TypeOK /\ StoreInv /\ EncoderInv /\ VideoInv

LEMMA RecordingInvariance == Spec => []RecordingInv
<1>1. Init => RecordingInv
  BY TypeInit, StoreInit, EncoderInvInit, VideoInvInit DEF RecordingInv
<1>2. RecordingInv /\ [Next]_vars => RecordingInv'
  BY TypeNext, StoreNext, EncoderInvNext, VideoInvNext DEF RecordingInv
<1> QED
  BY <1>1, <1>2, PTL DEF Spec

(* Whatever frames are lost, threads die or time out, saves fail and sessions *)
(* crash, where the metadata says that an episode's video is there are frames *)
(* of this episode only, in order, and all of them if nothing was lost.      *)
THEOREM VideosShowEpisodes == Spec => []VideosMatch
<1>1. TypeOK /\ VideoInv => VideosMatch
  <2> SUFFICES ASSUME TypeOK, VideoInv, NEW i \in 1..Len(meta), NEW c \in Cameras
               PROVE  LET clip == ClipFrames(c, meta[i].video[c]) IN
                      /\ \A j \in 1..Len(clip) : clip[j].take = meta[i].take
                      /\ Increasing(clip)
                      /\ clip # <<>>
                      /\ meta[i].complete[c] => Len(clip) = meta[i].length
    BY DEF VideosMatch
  <2> DEFINE p == meta[i].video[c]
             s == videos[c][p.file]
             clip == ClipFrames(c, p)
             lo == p.from
             hi == p.to
  <2>1. InFile(videos[c], p, meta[i].take, meta[i].length, meta[i].complete[c])
    BY DEF VideoInv, ClipsOK, SavedClipOK
  <2>2. /\ s \in Seq(VideoFrame) /\ lo \in Nat /\ hi \in Nat
        /\ lo < hi /\ hi <= Len(s)
    <3>1. p \in Clip /\ videos[c] \in Seq(Seq(VideoFrame)) /\ p.file \in 1..Len(videos[c])
      BY <2>1, ClipTypes DEF InFile
    <3> QED
      <4>1. s \in Seq(VideoFrame)
        BY <3>1
      <4>2. lo \in Nat /\ hi \in Nat
        BY <3>1 DEF Clip
      <4>3. lo < hi /\ hi <= Len(s)
        BY <2>1 DEF InFile
      <4> QED
        BY <4>1, <4>2, <4>3
  <2>3. clip = SubSeq(s, lo + 1, hi)
    BY DEF ClipFrames
  <2>4. /\ \A k \in (lo + 1)..hi : s[k].take = meta[i].take
        /\ \A k \in (lo + 1)..hi, l \in (lo + 1)..hi : k < l => s[k].frame < s[l].frame
        /\ meta[i].complete[c] => hi - lo = meta[i].length
    BY <2>1 DEF InFile
  <2> HIDE DEF s, lo, hi, clip
  <2>5. Len(clip) = hi - lo /\ \A j \in 1..(hi - lo) : clip[j] = s[lo + j]
    BY <2>2, <2>3
  <2>6. \A j \in 1..(hi - lo) : lo + j \in (lo + 1)..hi
    BY <2>2
  <2>7. \A j \in 1..Len(clip) : clip[j].take = meta[i].take
    BY <2>4, <2>5, <2>6
  <2>8. Increasing(clip)
    <3> SUFFICES ASSUME NEW j \in 1..(hi - lo), NEW k \in 1..(hi - lo), j < k
                 PROVE  clip[j].frame < clip[k].frame
      BY <2>5 DEF Increasing
    <3>1. lo + j < lo + k
      BY <2>2
    <3> QED
      BY <2>4, <2>5, <2>6, <3>1
  <2>9. clip # <<>>
    <3>1. Len(clip) > 0
      BY <2>2, <2>5
    <3> QED
      BY <3>1
  <2> QED
    BY <2>4, <2>5, <2>7, <2>8, <2>9 DEF clip
<1> QED
  BY <1>1, RecordingInvariance, PTL DEF RecordingInv

-------------------------------------------------------------------------------
(* A save comes to its end: it leaves every place, at every camera.         *)

(* A queue holds no more than it may, and an episode has its threads.        *)
ThreadsInv ==
  \A c \in Cameras :
    /\ Len(queue[c]) <= QueueSize
    /\ size > 0 => thread[c] \in Alive \cup {"done"}

LEMMA WaitsForEncoders ==
  ASSUME main \in Saving, [Next]_vars, main' = main, at' = at, at \in Cameras
  PROVE  ~SaveMoves /\ (UNCHANGED vars \/ \E c \in Cameras : EncoderThread(c))
<1>1. at \in Nat /\ at + 1 # at
  BY CamerasAssumption DEF Cameras, CamerasAssumption
<1>2. ~SaveStep
  BY <1>1 DEF SaveStep, WriteRows, SendSentinel, Collect, CleanUp, MoveVideo, BufferMeta,
              WriteInfo, NextCamera
<1>3. ~(EncoderFailed \/ VideoMissing \/ SaveFails)
  BY DEF EncoderFailed, VideoMissing, SaveFails, FailedCall, CloseData, Saving
<1>4. ~(AddFrame \/ ClearEpisodeBuffer \/ SaveEpisode \/ EndSession \/ CloseMeta \/ Crash \/ Resume)
  BY DEF AddFrame, ClearEpisodeBuffer, SaveEpisode, EndSession, CloseMeta, Crash, Resume, Saving
<1> QED
  BY <1>2, <1>3, <1>4 DEF Next, SaveMoves

LEMMA ThreadsNext ==
  ASSUME RecordingInv, ThreadsInv, [Next]_vars
  PROVE  ThreadsInv'
<1>1. EncoderType /\ EncoderType' /\ size \in Nat
  BY TypeNext DEF RecordingInv, TypeOK, EncoderType
<1>2. QueueSize \in Nat \ {0}
  BY QueueAssumption DEF QueueAssumption
<1>3. CASE AddFrame
  <2>1. CASE StartEpisode
    <3>1. \A c \in Cameras : queue'[c] = <<1>> /\ thread'[c] = "waiting"
      BY <2>1 DEF StartEpisode, All
    <3>2. Len(<<1>>) = 1
      OBVIOUS
    <3>3. 1 <= QueueSize
      BY <1>2
    <3>4. \A c \in Cameras : Len(queue'[c]) <= QueueSize
      BY <3>1, <3>2, <3>3
    <3> QED
      BY <3>1, <3>4 DEF ThreadsInv, Alive
  <2>2. CASE size # 0 /\ FeedFrame(size + 1)
    <3> SUFFICES ASSUME NEW c \in Cameras
                 PROVE  Len(queue'[c]) <= QueueSize /\ thread'[c] \in Alive
      BY DEF ThreadsInv
    <3>1. queue'[c] = IF Full(c) THEN queue[c] ELSE Append(queue[c], size + 1)
      BY <2>2 DEF FeedFrame
    <3>2. queue[c] \in Seq(Nat) /\ Len(queue[c]) <= QueueSize /\ thread'[c] \in Alive
      BY <1>1, <2>2 DEF EncoderType, ThreadsInv, FeedFrame
    <3>3. Len(Append(queue[c], size + 1)) = Len(queue[c]) + 1
      BY <3>2
    <3> QED
      BY <1>2, <3>1, <3>2, <3>3 DEF Full
  <2> QED
    BY <1>3, <2>1, <2>2 DEF AddFrame
<1>4. CASE size' = 0 /\ queue' = All(<<>>)
  BY <1>2, <1>4 DEF ThreadsInv, All
<1>5. CASE SendSentinel
  <2>1. at \in Cameras
    BY DEF RecordingInv, TypeOK
  <2> SUFFICES ASSUME NEW c \in Cameras
               PROVE  Len(queue'[c]) <= QueueSize /\ (size' > 0 => thread'[c] \in Alive \cup {"done"})
    BY DEF ThreadsInv
  <2>2. queue[c] \in Seq(Nat) /\ Len(queue[c]) <= QueueSize
    BY <1>1 DEF EncoderType, ThreadsInv
  <2>3. queue'[c] = IF c = at THEN Append(queue[c], Sentinel) ELSE queue[c]
    BY <1>1, <1>5, <2>1 DEF SendSentinel, PutSentinel, EncoderType
  <2>4. c = at => Len(queue[c]) < QueueSize
    BY <1>2, <1>5, <2>2 DEF SendSentinel, PutSentinel, Full
  <2>5. Len(Append(queue[c], Sentinel)) = Len(queue[c]) + 1
    BY <2>2
  <2>6. Len(queue'[c]) <= QueueSize
    BY <1>2, <2>2, <2>3, <2>4, <2>5
  <2> QED
    BY <1>5, <2>6 DEF SendSentinel, PutSentinel, ThreadsInv
<1>6. CASE CleanUp
  <2>1. queue' = All(<<>>) /\ thread' = thread /\ size' = size
    BY <1>6 DEF CleanUp, Cleanup
  <2> QED
    BY <1>2, <2>1 DEF ThreadsInv, All
<1>7. CASE \E c \in Cameras : EncoderThread(c)
  <2> PICK d \in Cameras : EncoderThread(d)
    BY <1>7
  <2>1. size' = size
    BY DEF EncoderThread
  <2> SUFFICES ASSUME NEW c \in Cameras
               PROVE  Len(queue'[c]) <= QueueSize /\ (size > 0 => thread'[c] \in Alive \cup {"done"})
    BY <2>1 DEF ThreadsInv
  <2>2. queue[c] \in Seq(Nat) /\ Len(queue[c]) <= QueueSize
    BY <1>1 DEF EncoderType, ThreadsInv
  <2>3. thread'[c] = thread[c] \/ thread'[c] \in Alive \cup {"done"}
    BY <1>1 DEF EncoderThread, TakeFrame, Encode, Flush, EncoderRaises, EncoderType, Alive
  <2>4. queue'[c] = queue[c] \/ (queue[c] # <<>> /\ queue'[c] = Tail(queue[c]))
    BY <1>1 DEF EncoderThread, TakeFrame, Encode, Flush, EncoderRaises, EncoderType
  <2>5. queue[c] # <<>> => Len(Tail(queue[c])) = Len(queue[c]) - 1
    BY <2>2
  <2>6. Len(queue[c]) \in Nat
    BY <2>2
  <2>7. Len(queue'[c]) <= QueueSize
    <3>1. QueueSize \in Nat
      BY <1>2
    <3>2. CASE queue'[c] = queue[c]
      BY <2>2, <3>2
    <3>3. CASE queue[c] # <<>> /\ queue'[c] = Tail(queue[c])
      BY <2>2, <2>5, <2>6, <3>1, <3>3
    <3> QED
      BY <2>4, <3>2, <3>3
  <2> QED
    BY <2>3, <2>7 DEF ThreadsInv
<1>8. CASE UNCHANGED <<queue, thread, size>>
  BY <1>8 DEF ThreadsInv
<1> QED
  BY <1>3, <1>4, <1>5, <1>6, <1>7, <1>8
  DEF Next, SaveStep, ClearEpisodeBuffer, SaveEpisode, WriteRows, Collect, MoveVideo, BufferMeta,
      WriteInfo, EncoderFailed, VideoMissing, SaveFails, FailedCall, EndSession, CloseData,
      CancelEpisode, CloseMeta, Crash, Resume, JoinTimesOut, vars, encoderVars

LEMMA ThreadsInvariance == Spec => [](RecordingInv /\ ThreadsInv)
<1>1. Init => ThreadsInv
  BY QueueAssumption DEF Init, EncoderInit, All, ThreadsInv, QueueAssumption
<1>2. RecordingInv /\ ThreadsInv /\ [Next]_vars => ThreadsInv'
  BY ThreadsNext
<1> QED
  BY <1>1, <1>2, RecordingInvariance, PTL DEF Spec

(* What the encoder a save waits for does: it takes a frame, once it has     *)
(* encoded the one in its hands.                                             *)
LEMMA EncoderMakesRoom ==
  ASSUME RecordingInv, ThreadsInv, NEW c \in Cameras, main = "sentinel", at = c, Full(c),
         [Next]_vars, main' = main, at' = at
  PROVE  /\ queue[c] # <<>>
         /\ thread[c] \in {"waiting", "encoding", "done"}
         /\ thread[c] = "waiting" =>
              \/ thread'[c] = "waiting" /\ Full(c)' /\ ~EncoderMoves(c)
              \/ ~Full(c)'
         /\ thread[c] = "encoding" =>
              /\ Full(c)'
              /\ \/ thread'[c] = "encoding" /\ ~EncoderMoves(c)
                 \/ thread'[c] \in {"waiting", "done"}
<1>1. EncoderType /\ size > 0 /\ main \in Saving
  BY DEF RecordingInv, TypeOK, EncoderType, StoreInv, SavingOK, Saving
<1>2. QueueSize \in Nat \ {0} /\ queue[c] \in Seq(Nat) /\ Len(queue[c]) = QueueSize
  BY <1>1, QueueAssumption DEF QueueAssumption, EncoderType, ThreadsInv, Full
<1>3. queue[c] # <<>> /\ thread[c] \in {"waiting", "encoding", "done"}
  BY <1>1, <1>2 DEF ThreadsInv, Alive
<1>4. Head(queue[c]) # Sentinel
  <2>1. ~Ends(queue[c]) /\ InOrder(queue[c], file[c], size)
    BY CamerasAssumption DEF RecordingInv, EncoderInv, CameraOK, CamerasAssumption, Cameras
  <2>2. 1 \in 1..Waiting(queue[c])
    BY <1>2, <2>1 DEF Waiting
  <2>3. queue[c][1] \in 1..size
    BY <2>1, <2>2 DEF InOrder
  <2> QED
    BY <1>2, <1>3, <2>3 DEF Sentinel
<1>5. ~AtTheEnd(c)
  BY <1>3, <1>4 DEF AtTheEnd
<1>6. UNCHANGED vars \/ \E d \in Cameras : EncoderThread(d)
  BY <1>1, WaitsForEncoders
<1>7. EncoderMoves(c) \/ EncoderThread(c) =>
        \/ TakeFrame(c)
        \/ Encode(c)
        \/ thread[c] = "encoding" /\ EncoderRaises(c)
  BY <1>5 DEF EncoderMoves, EncoderThread, Flush, EncoderRaises
<1>8. TakeFrame(c) => thread[c] = "waiting" /\ ~Full(c)'
  BY <1>1, <1>2, <1>3 DEF TakeFrame, Full, EncoderType
<1>9. Encode(c) => thread[c] = "encoding" /\ thread'[c] = "waiting" /\ queue' = queue
  BY <1>1 DEF Encode, EncoderType
<1>10. thread[c] = "encoding" /\ EncoderRaises(c) => thread'[c] = "done" /\ queue' = queue
  BY <1>1, <1>5 DEF EncoderRaises, EncoderType
<1>11. ASSUME NEW d \in Cameras \ {c}, EncoderThread(d)
       PROVE  thread'[c] = thread[c] /\ queue'[c] = queue[c]
  BY <1>1, <1>11 DEF EncoderThread, TakeFrame, Encode, Flush, EncoderRaises, EncoderType
<1>12. UNCHANGED vars => thread'[c] = thread[c] /\ queue'[c] = queue[c]
  BY DEF vars, encoderVars
<1>13. queue'[c] = queue[c] => Full(c)'
  BY DEF Full
<1> QED
  BY <1>3, <1>6, <1>7, <1>8, <1>9, <1>10, <1>11, <1>12, <1>13

(* A queue that has room keeps it until the sentinel is in it.              *)
LEMMA RoomStays ==
  ASSUME RecordingInv, NEW c \in Cameras, main = "sentinel", at = c, ~Full(c),
         [Next]_vars, main' = main, at' = at
  PROVE  ~Full(c)'
<1>1. EncoderType /\ main \in Saving /\ QueueSize \in Nat
  BY QueueAssumption DEF RecordingInv, TypeOK, EncoderType, Saving, QueueAssumption
<1>2. UNCHANGED vars \/ \E d \in Cameras : EncoderThread(d)
  BY <1>1, WaitsForEncoders
<1>3. queue'[c] = queue[c] \/ (queue[c] # <<>> /\ queue'[c] = Tail(queue[c]))
  BY <1>1, <1>2
  DEF EncoderThread, TakeFrame, Encode, Flush, EncoderRaises, EncoderType, vars, encoderVars
<1>4. queue[c] \in Seq(Nat) /\ (queue[c] # <<>> => Len(Tail(queue[c])) = Len(queue[c]) - 1)
  BY <1>1 DEF EncoderType
<1>5. Len(queue'[c]) <= Len(queue[c]) /\ Len(queue'[c]) \in Nat /\ Len(queue[c]) \in Nat
  <2>1. Len(queue[c]) \in Nat
    BY <1>4
  <2>2. CASE queue'[c] = queue[c]
    BY <2>1, <2>2
  <2>3. CASE queue[c] # <<>> /\ queue'[c] = Tail(queue[c])
    <3>1. Len(queue'[c]) = Len(queue[c]) - 1 /\ queue'[c] \in Seq(Nat)
      BY <1>4, <2>3
    <3>2. Len(queue'[c]) \in Nat
      BY <3>1
    <3> QED
      BY <2>1, <3>1, <3>2
  <2> QED
    BY <1>3, <2>2, <2>3
<1> QED
  BY <1>1, <1>5 DEF Full

(* Every place of a save is left, at every camera, whatever encoders fail or *)
(* are late, unless the save waits for a thread that has died with its queue *)
(* full (Stuck). So it is if the save and the encoder go on where they can,  *)
(* as TLC finds on a small instance. That there are finitely many places is  *)
(* all that SaveEnds adds.                                                   *)
THEOREM SavePlacesLeft ==
  ASSUME NEW p \in Saving, NEW c \in Cameras
  PROVE  /\ Spec /\ []SaveGoesOn /\ []EncoderGoesOn(c)
         /\ WF_vars(SaveMoves) /\ WF_vars(EncoderMoves(c))
         => PlaceLeft(p, c)
<1> DEFINE At == main = p /\ at = c
           Room == At /\ (main = "sentinel" => ~Full(c))
           Idle == At /\ main = "sentinel" /\ Full(c) /\ thread[c] = "waiting"
           Busy == At /\ main = "sentinel" /\ Full(c) /\ thread[c] = "encoding"
           Dead == At /\ main = "sentinel" /\ Full(c) /\ thread[c] = "done"
           Inv == RecordingInv /\ ThreadsInv
<1>1. Inv /\ Room /\ [Next]_vars => (Room' /\ ~SaveMoves) \/ ~At'
  BY WaitsForEncoders, RoomStays
<1>2. Room /\ SaveGoesOn => ENABLED <<SaveMoves>>_vars
  BY DEF SaveGoesOn
<1>3. Inv /\ Idle /\ [Next]_vars => (Idle' /\ ~EncoderMoves(c)) \/ Room' \/ ~At'
  BY EncoderMakesRoom
<1>4. Inv /\ Idle /\ EncoderGoesOn(c) => ENABLED <<EncoderMoves(c)>>_vars
  <2>1. ASSUME Idle, Inv PROVE queue[c] # <<>>
    BY <2>1, QueueAssumption DEF QueueAssumption, Full
  <2> QED
    BY <2>1 DEF EncoderGoesOn
<1>5. Inv /\ Busy /\ [Next]_vars => (Busy' /\ ~EncoderMoves(c)) \/ Idle' \/ Dead' \/ ~At'
  BY EncoderMakesRoom
<1>6. Busy /\ EncoderGoesOn(c) => ENABLED <<EncoderMoves(c)>>_vars
  BY DEF EncoderGoesOn
<1>7. Inv /\ At => Room \/ Idle \/ Busy \/ Dead
  <2>1. ASSUME Inv, At PROVE thread[c] \in Alive \cup {"done"}
    BY <2>1 DEF ThreadsInv, RecordingInv, StoreInv, SavingOK
  <2> QED
    BY <2>1 DEF Alive
<1>8. Dead => Stuck
  BY DEF Stuck
<1>9. Spec => []Inv
  BY ThreadsInvariance
<1> HIDE DEF Inv, Room, Idle, Busy, Dead
<1> DEFINE Holds == Spec /\ []SaveGoesOn /\ []EncoderGoesOn(c)
                    /\ WF_vars(SaveMoves) /\ WF_vars(EncoderMoves(c))
<1>10. Holds => (Room ~> ~At)
  BY <1>1, <1>2, <1>9, PTL DEF Spec
<1>11. Holds => (Idle ~> Room \/ ~At)
  BY <1>3, <1>4, <1>9, PTL DEF Spec
<1>12. Holds => (Busy ~> Idle \/ Dead \/ ~At)
  BY <1>5, <1>6, <1>9, PTL DEF Spec
<1>13. Holds => (At ~> ~At \/ Stuck)
  BY <1>7, <1>8, <1>9, <1>10, <1>11, <1>12, PTL
<1> QED
  BY <1>13, PTL DEF PlaceLeft
===============================================================================
