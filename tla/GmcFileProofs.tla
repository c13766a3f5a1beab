--------------------------- MODULE GmcFileProofs ---------------------------
(***************************************************************************)
(* Proofs about GmcFile, for any number of frames, cells and power losses, *)
(* when ReadAt does not fail on good bytes.                                *)
(***************************************************************************)
EXTENDS GmcFile, SelectLemmas

\* What distinguishes cells.
LEMMA CellFacts ==
    /\ Torn \in Cell /\ ~IsChunk(Torn)
    /\ \A k \in 1 .. MaxFrames : Data(k) \in Frames /\ Data(k) \in Cell /\ IsChunk(Data(k))
    /\ \A n \in 0 .. MaxFrames : Footer(n) \in Cell /\ IsChunk(Footer(n)) /\ Footer(n) \notin Frames
    /\ \A i \in Positions : Trailer(i) \in Cell /\ ~IsChunk(Trailer(i))
    /\ \A c \in Frames : c \in Cell /\ IsChunk(c) /\ c.frame \in 1 .. MaxFrames /\ c = Data(c.frame)
    /\ \A k \in 1 .. MaxFrames : Data(k).frame = k
    /\ \A n \in 0 .. MaxFrames : Footer(n).frames = n /\ Footer(n).type = "footer"
    /\ \A i \in Positions : Trailer(i).off = i /\ Trailer(i).type = "trailer"
<1>1. Torn \in Cell /\ ~IsChunk(Torn)
  BY DEF Torn, Cell, IsChunk
<1>2. ASSUME NEW k \in 1 .. MaxFrames
      PROVE  /\ Data(k) \in Frames /\ Data(k) \in Cell /\ IsChunk(Data(k))
             /\ Data(k).frame = k
  <2>1. Data(k) \in Frames
    BY DEF Frames
  <2> QED BY <2>1 DEF Data, Cell, IsChunk
<1>3. ASSUME NEW n \in 0 .. MaxFrames
      PROVE  /\ Footer(n) \in Cell /\ IsChunk(Footer(n)) /\ Footer(n) \notin Frames
             /\ Footer(n).frames = n /\ Footer(n).type = "footer"
  <2>1. Footer(n) \in Cell
    BY DEF Cell
  <2>2. Footer(n).frames = n /\ Footer(n).type = "footer"
    BY DEF Footer
  <2>3. \A c \in Frames : c.type = "data"
    BY DEF Frames, Data
  <2> QED BY <2>1, <2>2, <2>3 DEF IsChunk
<1>4. ASSUME NEW i \in Positions
      PROVE  /\ Trailer(i) \in Cell /\ ~IsChunk(Trailer(i))
             /\ Trailer(i).off = i /\ Trailer(i).type = "trailer"
  <2>1. Trailer(i) \in Cell
    BY DEF Cell
  <2> QED BY <2>1 DEF Trailer, IsChunk
<1>5. ASSUME NEW c \in Frames
      PROVE  c \in Cell /\ IsChunk(c) /\ c.frame \in 1 .. MaxFrames /\ c = Data(c.frame)
  <2>1. PICK k \in 1 .. MaxFrames : c = Data(k)
    BY DEF Frames
  <2> QED BY <1>2, <2>1
<1> QED BY <1>1, <1>2, <1>3, <1>4, <1>5

-----------------------------------------------------------------------------
(* The logical end of a file.                                              *)

EndsAt(cs, n) ==
    /\ n \in 0 .. Len(cs)
    /\ \A i \in 1 .. n : IsChunk(cs[i])
    /\ n < Len(cs) => ~IsChunk(cs[n + 1])

\* The scan ends before the first cell that is not a chunk.
LEMMA ScanEnds ==
    ASSUME NEW cs, Len(cs) \in Nat
    PROVE  EndsAt(cs, ScanEnd(cs))
<1> DEFINE Stops == {n \in 0 .. Len(cs) : n < Len(cs) => ~IsChunk(cs[n + 1])}
<1>1. PICK n \in Stops : \A m \in Stops : n <= m
  <2>1. Stops \subseteq Nat /\ Stops # {}
    <3>1. Len(cs) \in Stops
      OBVIOUS
    <3> QED BY <3>1
  <2> HIDE DEF Stops
  <2> QED BY <2>1, LeastNatural
<1>2. \A i \in 1 .. n : IsChunk(cs[i])
  <2> SUFFICES ASSUME NEW i \in 1 .. n, ~IsChunk(cs[i]) PROVE FALSE
    OBVIOUS
  <2>1. i - 1 \in 0 .. Len(cs) /\ (i - 1) + 1 = i
    BY <1>1
  <2>2. i - 1 \in Stops
    BY <2>1
  <2>3. n <= i - 1
    BY <1>1, <2>2
  <2> QED BY <1>1, <2>3
<1>3. \E m \in 0 .. Len(cs) : /\ \A i \in 1 .. m : IsChunk(cs[i])
                              /\ m < Len(cs) => ~IsChunk(cs[m + 1])
  BY <1>1, <1>2
<1> QED BY <1>3 DEF ScanEnd, EndsAt

\* There is one such end.
LEMMA ScanEndIs ==
    ASSUME NEW cs, Len(cs) \in Nat, NEW n, EndsAt(cs, n)
    PROVE  ScanEnd(cs) = n
<1>1. EndsAt(cs, ScanEnd(cs))
  BY ScanEnds
<1> DEFINE m == ScanEnd(cs)
<1>2. m \in 0 .. Len(cs) /\ n \in 0 .. Len(cs)
  BY <1>1 DEF EndsAt
<1>3. ~(m < n)
  <2> SUFFICES ASSUME m < n PROVE FALSE
    OBVIOUS
  <2>1. m + 1 \in 1 .. n /\ m < Len(cs)
    BY <1>2
  <2> QED BY <1>1, <2>1 DEF EndsAt
<1>4. ~(n < m)
  <2> SUFFICES ASSUME n < m PROVE FALSE
    OBVIOUS
  <2>1. n + 1 \in 1 .. m /\ n < Len(cs)
    BY <1>2
  <2> QED BY <1>1, <2>1 DEF EndsAt
<1> QED BY <1>2, <1>3, <1>4

\* A run of chunks from the start lies below the end.
LEMMA ChunksBelowEnd ==
    ASSUME NEW cs, Len(cs) \in Nat, NEW n \in 0 .. Len(cs), \A i \in 1 .. n : IsChunk(cs[i])
    PROVE  n <= ScanEnd(cs)
<1>1. EndsAt(cs, ScanEnd(cs))
  BY ScanEnds
<1> DEFINE m == ScanEnd(cs)
<1>2. m \in 0 .. Len(cs)
  BY <1>1 DEF EndsAt
<1>3. ~(m < n)
  <2> SUFFICES ASSUME m < n PROVE FALSE
    OBVIOUS
  <2>1. m + 1 \in 1 .. n /\ m < Len(cs)
    BY <1>2
  <2> QED BY <1>1, <2>1 DEF EndsAt
<1> QED BY <1>2, <1>3

-----------------------------------------------------------------------------
(* The frames of a prefix.                                                 *)

\* The frames among no cells.
LEMMA FramesNone == ASSUME NEW cs PROVE FramesIn(cs, 0) = <<>>
BY SelectNothing DEF FramesIn

\* The frames among one cell more.
LEMMA FramesNext ==
    ASSUME NEW cs \in Seq(Cell), NEW n \in Nat, n + 1 <= Len(cs)
    PROVE  FramesIn(cs, n + 1) =
               IF cs[n + 1] \in Frames THEN Append(FramesIn(cs, n), cs[n + 1])
               ELSE FramesIn(cs, n)
<1>1. Select(SubSeq(cs, 1, n + 1), Frames) =
          IF cs[n + 1] \in Frames
          THEN Append(Select(SubSeq(cs, 1, n), Frames), cs[n + 1])
          ELSE Select(SubSeq(cs, 1, n), Frames)
  BY SelectNext
<1> QED BY <1>1 DEF FramesIn

\* Files that agree on a prefix have the same frames in it.
LEMMA FramesSame ==
    ASSUME NEW cs \in Seq(Cell), NEW ds \in Seq(Cell), NEW n \in Nat,
           n <= Len(cs), n <= Len(ds), \A i \in 1 .. n : cs[i] = ds[i]
    PROVE  FramesIn(cs, n) = FramesIn(ds, n)
<1>1. /\ SubSeq(cs, 1, n) \in Seq(Cell) /\ Len(SubSeq(cs, 1, n)) = n
      /\ \A i \in 1 .. n : SubSeq(cs, 1, n)[i] = cs[i]
  BY LenProperties
<1>2. /\ SubSeq(ds, 1, n) \in Seq(Cell) /\ Len(SubSeq(ds, 1, n)) = n
      /\ \A i \in 1 .. n : SubSeq(ds, 1, n)[i] = ds[i]
  BY LenProperties
<1>3. SubSeq(cs, 1, n) = SubSeq(ds, 1, n)
  BY <1>1, <1>2, SeqEqual
<1> QED BY <1>3 DEF FramesIn

\* They are frames.
LEMMA FramesType ==
    ASSUME NEW cs \in Seq(Cell), NEW n \in Nat, n <= Len(cs)
    PROVE  FramesIn(cs, n) \in Seq(Frames)
<1>1. SubSeq(cs, 1, n) \in Seq(Cell)
  BY LenProperties
<1>2. Cell \cap Frames = Frames
  BY DEF Cell
<1>3. Select(SubSeq(cs, 1, n), Frames) \in Seq(Cell \cap Frames)
  BY <1>1, SelectType
<1> QED BY <1>2, <1>3 DEF FramesIn

\* A prefix stays one when the sequence grows.
LEMMA PrefixGrows ==
    ASSUME NEW S, NEW s \in Seq(S), NEW t \in Seq(S), NEW x \in S, IsPrefix(s, t)
    PROVE  IsPrefix(s, Append(t, x))
<1>1. /\ Len(s) \in Nat /\ Len(t) \in Nat /\ Len(s) <= Len(t)
      /\ SubSeq(s, 1, Len(s)) = SubSeq(t, 1, Len(s))
  BY LenProperties DEF IsPrefix
<1>2. Len(Append(t, x)) = Len(t) + 1
  BY AppendProperties
<1>3. SubSeq(Append(t, x), 1, Len(s)) = SubSeq(t, 1, Len(s))
  BY <1>1, RangeOfAppend
<1> QED BY <1>1, <1>2, <1>3 DEF IsPrefix

\* A longer prefix of the file has the same frames and perhaps more.
LEMMA FramesPrefix ==
    ASSUME NEW cs \in Seq(Cell), NEW m \in Nat, NEW n \in Nat, m <= n, n <= Len(cs)
    PROVE  IsPrefix(FramesIn(cs, m), FramesIn(cs, n))
<1> DEFINE Good == {d \in Nat : m + d <= Len(cs) =>
                                   IsPrefix(FramesIn(cs, m), FramesIn(cs, m + d))}
<1>0. Len(cs) \in Nat
  BY LenProperties
<1>1. 0 \in Good
  <2>1. m + 0 = m /\ Len(FramesIn(cs, m)) \in Nat
    BY <1>0, FramesType, LenProperties
  <2> QED BY <2>1 DEF IsPrefix
<1>2. ASSUME NEW d \in Nat, d \in Good PROVE d + 1 \in Good
  <2> SUFFICES ASSUME m + (d + 1) <= Len(cs)
               PROVE  IsPrefix(FramesIn(cs, m), FramesIn(cs, m + (d + 1)))
    OBVIOUS
  <2> DEFINE k == m + d
  <2>1. k \in Nat /\ k + 1 <= Len(cs) /\ m + (d + 1) = k + 1 /\ m <= Len(cs)
    BY <1>0
  <2>2. IsPrefix(FramesIn(cs, m), FramesIn(cs, k))
    BY <1>0, <1>2
  <2> HIDE DEF k
  <2>3. FramesIn(cs, m) \in Seq(Frames) /\ FramesIn(cs, k) \in Seq(Frames)
    BY <1>0, <2>1, FramesType
  <2>4. FramesIn(cs, k + 1) = IF cs[k + 1] \in Frames THEN Append(FramesIn(cs, k), cs[k + 1])
                              ELSE FramesIn(cs, k)
    BY <2>1, FramesNext
  <2>5. IsPrefix(FramesIn(cs, m), FramesIn(cs, k + 1))
    <3>1. CASE cs[k + 1] \in Frames
      BY <2>2, <2>3, <2>4, <3>1, PrefixGrows
    <3>2. CASE cs[k + 1] \notin Frames
      BY <2>2, <2>4, <3>2
    <3> QED BY <3>1, <3>2
  <2> QED BY <2>1, <2>5
<1>3. n - m \in Good
  <2> HIDE DEF Good
  <2> QED BY <1>1, <1>2, NatSetInduction
<1>4. m + (n - m) = n
  OBVIOUS
<1> HIDE DEF IsPrefix
<1> QED BY <1>3, <1>4

\* Numbers of data cells grow along the file.
Rising(cs) ==
    \A i, j \in 1 .. Len(cs) :
        i < j /\ cs[i] \in Frames /\ cs[j] \in Frames => cs[i].frame < cs[j].frame

\* Then the frames of a prefix are in order, each once, and no more than there are.
LEMMA FramesRising ==
    ASSUME NEW cs \in Seq(Cell), Rising(cs), NEW n \in Nat, n <= Len(cs)
    PROVE  /\ \A a, b \in 1 .. Len(FramesIn(cs, n)) :
                 a < b => FramesIn(cs, n)[a].frame < FramesIn(cs, n)[b].frame
           /\ Len(FramesIn(cs, n)) <= MaxFrames
<1> DEFINE Claim(fs, k) ==
              /\ fs \in Seq(Frames)
              /\ \A a, b \in 1 .. Len(fs) : a < b => fs[a].frame < fs[b].frame
              /\ \A a \in 1 .. Len(fs) : fs[a].frame >= a /\ \E i \in 1 .. k : fs[a] = cs[i]
           Good == {k \in Nat : k <= Len(cs) => Claim(FramesIn(cs, k), k)}
<1>1. Len(cs) \in Nat
  BY LenProperties
<1>2. 0 \in Good
  <2>1. Claim(<<>>, 0)
    BY EmptySeq
  <2>2. FramesIn(cs, 0) = <<>>
    BY FramesNone
  <2> HIDE DEF Claim
  <2> QED BY <2>1, <2>2
<1>3. ASSUME NEW k \in Nat, k \in Good PROVE k + 1 \in Good
  <2> SUFFICES ASSUME k + 1 <= Len(cs) PROVE Claim(FramesIn(cs, k + 1), k + 1)
    OBVIOUS
  <2> DEFINE fs == FramesIn(cs, k)
             c == cs[k + 1]
  <2>1. Claim(fs, k) /\ Len(fs) \in Nat /\ k + 1 \in 1 .. Len(cs)
    BY <1>1, <1>3, LenProperties
  <2>2. FramesIn(cs, k + 1) = IF c \in Frames THEN Append(fs, c) ELSE fs
    BY FramesNext
  <2>3. CASE c \notin Frames
    <3>1. Claim(fs, k + 1)
      <4> HIDE DEF fs
      <4> QED BY <2>1
    <3> HIDE DEF Claim
    <3> QED BY <2>2, <2>3, <3>1
  <2>4. CASE c \in Frames
    <3> DEFINE gs == Append(fs, c)
    <3>0. Len(fs) \in Nat
      BY <2>1
    <3> HIDE DEF fs
    <3>1. /\ gs \in Seq(Frames) /\ Len(gs) = Len(fs) + 1 /\ gs[Len(fs) + 1] = c
          /\ \A a \in 1 .. Len(fs) : gs[a] = fs[a]
      BY <2>1, <2>4, AppendProperties
    <3>2. \A a \in 1 .. Len(fs) : fs[a].frame < c.frame
      <4> SUFFICES ASSUME NEW a \in 1 .. Len(fs) PROVE fs[a].frame < c.frame
        OBVIOUS
      <4>1. PICK i \in 1 .. k : fs[a] = cs[i]
        BY <2>1
      <4>2. fs[a] \in Frames
        BY <2>1, ElementOfSeq
      <4>3. i \in 1 .. Len(cs) /\ i < k + 1
        BY <1>1
      <4> QED BY <2>1, <2>4, <4>1, <4>2, <4>3 DEF Rising
    <3>3. \A a \in 1 .. Len(gs) : gs[a] \in Frames /\ gs[a].frame \in Nat
      BY <3>1, ElementOfSeq, CellFacts
    <3>4. \A a, b \in 1 .. Len(gs) : a < b => gs[a].frame < gs[b].frame
      <4> SUFFICES ASSUME NEW a \in 1 .. Len(gs), NEW b \in 1 .. Len(gs), a < b
                   PROVE  gs[a].frame < gs[b].frame
        OBVIOUS
      <4>1. a \in 1 .. Len(fs) /\ gs[a] = fs[a]
        BY <2>1, <3>1
      <4>2. CASE b = Len(fs) + 1
        BY <3>1, <3>2, <4>1, <4>2
      <4>3. CASE b # Len(fs) + 1
        <5>1. b \in 1 .. Len(fs)
          BY <3>0, <3>1, <4>3
        <5>2. gs[b] = fs[b]
          BY <3>1, <5>1
        <5> QED BY <2>1, <4>1, <5>1, <5>2
      <4> QED BY <4>2, <4>3
    <3>5. \A a \in 1 .. Len(gs) : gs[a].frame >= a
      <4> SUFFICES ASSUME NEW a \in 1 .. Len(gs) PROVE gs[a].frame >= a
        OBVIOUS
      <4>1. CASE a \in 1 .. Len(fs)
        BY <2>1, <3>1, <4>1
      <4>2. CASE a = Len(fs) + 1
        <5>1. CASE Len(fs) = 0
          BY <3>1, <3>3, <4>2, <5>1, CellFacts
        <5>2. CASE Len(fs) > 0
          <6>1. Len(fs) \in 1 .. Len(fs)
            BY <2>1, <5>2
          <6>2. fs[Len(fs)].frame >= Len(fs) /\ fs[Len(fs)].frame < c.frame
            BY <2>1, <3>2, <6>1
          <6>3. fs[Len(fs)].frame \in Nat /\ c.frame \in Nat
            BY <2>1, <2>4, <6>1, ElementOfSeq, CellFacts
          <6> QED BY <2>1, <3>1, <4>2, <6>2, <6>3
        <5> QED BY <2>1, <5>1, <5>2
      <4> QED BY <2>1, <3>1, <4>1, <4>2
    <3>6. \A a \in 1 .. Len(gs) : \E i \in 1 .. k + 1 : gs[a] = cs[i]
      <4> SUFFICES ASSUME NEW a \in 1 .. Len(gs) PROVE \E i \in 1 .. k + 1 : gs[a] = cs[i]
        OBVIOUS
      <4>1. CASE a = Len(fs) + 1
        BY <3>1, <4>1
      <4>2. CASE a \in 1 .. Len(fs)
        BY <2>1, <3>1, <4>2
      <4> QED BY <2>1, <3>1, <4>1, <4>2
    <3>7. Claim(gs, k + 1)
      <4> HIDE DEF gs
      <4> QED BY <3>1, <3>4, <3>5, <3>6
    <3>8. FramesIn(cs, k + 1) = gs
      BY <2>2, <2>4
    <3> HIDE DEF Claim, gs
    <3> QED BY <3>7, <3>8
  <2> QED BY <2>3, <2>4
<1>4. n \in Good
  <2> HIDE DEF Good
  <2> QED BY <1>2, <1>3, NatSetInduction
<1> DEFINE fs == FramesIn(cs, n)
<1>5. Claim(fs, n)
  BY <1>4
<1> HIDE DEF fs
<1>6. Len(fs) <= MaxFrames
  <2>1. Len(fs) \in Nat
    BY <1>5, LenProperties
  <2>2. CASE Len(fs) = 0
    BY <2>2, FileAssumption
  <2>3. CASE Len(fs) > 0
    <3>1. Len(fs) \in 1 .. Len(fs)
      BY <2>1, <2>3
    <3>2. fs[Len(fs)] \in Frames /\ fs[Len(fs)].frame >= Len(fs)
      BY <1>5, <3>1, ElementOfSeq
    <3> QED BY <2>1, <3>2, CellFacts, FileAssumption
  <2> QED BY <2>1, <2>2, <2>3
<1> QED BY <1>5, <1>6 DEF fs

-----------------------------------------------------------------------------
(* What a power loss may leave.                                            *)

\* Every survivor has in each cell something the medium held there.
LEMMA SurvivorsHold ==
    ASSUME NEW n \in Nat, NEW C, \A i \in 1 .. n : media[i] \subseteq C,
           NEW cs \in Survivors(n)
    PROVE  cs \in Seq(C) /\ Len(cs) = n /\ \A i \in 1 .. n : cs[i] \in media[i]
<1> DEFINE Grown(D, M) == {Append(ds, c) : ds \in D, c \in M}
           Body(f, m) == [k \in 0 .. m |-> IF k = 0 THEN {<<>>}
                                           ELSE Grown(f[k - 1], media[k])]
           Solvable == {m \in Nat : \E f : f = Body(f, m)}
<1> HIDE DEF Grown
<1>1. 0 \in Solvable
  <2> DEFINE f == [k \in 0 .. 0 |-> {<<>>}]
  <2>1. f = Body(f, 0)
    OBVIOUS
  <2>2. \E h : h = Body(h, 0)
    <3> HIDE DEF f, Body
    <3> QED BY <2>1
  <2> QED BY <2>2
<1>2. ASSUME NEW m \in Nat, m \in Solvable PROVE m + 1 \in Solvable
  <2>1. PICK f : f = Body(f, m)
    BY <1>2
  <2> DEFINE last == Grown(f[m], media[m + 1])
             g == [k \in 0 .. m + 1 |-> IF k = m + 1 THEN last ELSE f[k]]
  <2>2. \A k \in 0 .. m + 1 : g[k] = Body(g, m + 1)[k]
    <3> SUFFICES ASSUME NEW k \in 0 .. m + 1 PROVE g[k] = Body(g, m + 1)[k]
      OBVIOUS
    <3>1. CASE k = m + 1
      <4>1. g[k - 1] = f[m] /\ g[k] = last
        BY <3>1
      <4> QED BY <3>1, <4>1
    <3>2. CASE k # m + 1
      <4>1. k \in 0 .. m /\ g[k] = f[k] /\ (k # 0 => g[k - 1] = f[k - 1])
        BY <3>2
      <4>2. f[k] = IF k = 0 THEN {<<>>} ELSE Grown(f[k - 1], media[k])
        BY <2>1, <4>1
      <4> QED BY <4>1, <4>2
    <3> QED BY <3>1, <3>2
  <2>3. g = Body(g, m + 1)
    BY <2>2
  <2>4. \E h : h = Body(h, m + 1)
    <3> HIDE DEF g, Body
    <3> QED BY <2>3
  <2> QED BY <2>4
<1>3. n \in Solvable
  <2> HIDE DEF Solvable
  <2> QED BY <1>1, <1>2, NatSetInduction
<1> DEFINE survivors == CHOOSE f : f = Body(f, n)
<1>4. survivors = Body(survivors, n)
  <2>1. \E f : f = Body(f, n)
    BY <1>3
  <2> HIDE DEF Body
  <2> QED BY <2>1
<1>5. Survivors(n) = survivors[n]
  BY DEF Survivors, Grown
<1> HIDE DEF survivors
<1>6. \A k \in 0 .. n : survivors[k] = IF k = 0 THEN {<<>>} ELSE Grown(survivors[k - 1], media[k])
  BY <1>4
<1> DEFINE Holds(ds, k) == /\ ds \in Seq(C) /\ Len(ds) = k
                           /\ \A i \in 1 .. k : ds[i] \in media[i]
           Good == {k \in Nat : k <= n => \A ds \in survivors[k] : Holds(ds, k)}
<1>7. 0 \in Good
  <2>1. Holds(<<>>, 0)
    BY EmptySeq
  <2>2. survivors[0] = {<<>>}
    <3>1. 0 \in 0 .. n
      OBVIOUS
    <3> QED BY <1>6, <3>1, Zenon
  <2> HIDE DEF Holds
  <2> QED BY <2>1, <2>2
<1>8. ASSUME NEW k \in Nat, k \in Good PROVE k + 1 \in Good
  <2> SUFFICES ASSUME k + 1 <= n, NEW ds \in survivors[k + 1] PROVE Holds(ds, k + 1)
    OBVIOUS
  <2>1. survivors[k + 1] = {Append(es, c) : es \in survivors[k], c \in media[k + 1]}
    <3>1. k + 1 \in 0 .. n /\ k + 1 # 0 /\ (k + 1) - 1 = k
      OBVIOUS
    <3>2. survivors[k + 1] = Grown(survivors[k], media[k + 1])
      BY <1>6, <3>1
    <3> QED BY <3>2 DEF Grown
  <2>2. PICK es \in survivors[k], c \in media[k + 1] : ds = Append(es, c)
    BY <2>1
  <2>3. Holds(es, k) /\ c \in C
    <3>1. k <= n /\ k + 1 \in 1 .. n
      OBVIOUS
    <3> QED BY <1>8, <3>1
  <2>4. /\ ds \in Seq(C) /\ Len(ds) = k + 1 /\ ds[k + 1] = c
        /\ \A i \in 1 .. k : ds[i] = es[i]
    BY <2>2, <2>3, AppendProperties
  <2> QED BY <2>3, <2>4
<1>9. n \in Good
  <2> HIDE DEF Good
  <2> QED BY <1>7, <1>8, NatSetInduction
<1> QED BY <1>5, <1>9

-----------------------------------------------------------------------------
(* The inductive invariant.                                                *)

\* The medium may hold what the file shows.
MediaInv == \A i \in 1 .. Len(cells) : cells[i] \in media[i]

\* Wherever frames may be on the medium, they are in order.
Ordered ==
    \A i, j \in Positions : \A k, l \in 1 .. MaxFrames :
        i < j /\ Data(k) \in media[i] /\ Data(l) \in media[j] => k < l

\* The synced frames lie in chunks that no power loss can change or cut off.
Settled ==
    \E n \in 0 .. Len(cells) :
        /\ \A i \in 1 .. n : IsChunk(cells[i]) /\ media[i] = {cells[i]}
        /\ \A m \in sizes : m >= n
        /\ safe = FramesIn(cells, n)

Gapless ==
    powerLosses <= 1 =>
        \A n \in 0 .. ScanEnd(cells) :
            FramesIn(cells, n) = FirstFrames(Len(FramesIn(cells, n)))

\* Before any power loss the medium holds no chunk but those of the file.
Unique ==
    powerLosses = 0 =>
        /\ \A i \in Positions : \A c \in media[i] :
              IsChunk(c) => i <= ScanEnd(cells) /\ c = cells[i]
        /\ Readable(cells) = FirstFrames(written)

DiskInv == MediaInv /\ Ordered /\ Settled /\ Gapless /\ Unique

\* The committed prefix is what a scan would find.
WriterInv ==
    pc \in WriterPC =>
        /\ powerLosses = 0 /\ committed = ScanEnd(cells)
        /\ pc # "write" => committed >= 1
        /\ \A i \in Positions : \A k \in 1 .. MaxFrames : Data(k) \in media[i] => k <= written

\* Repair works behind the logical end it found, and keeps the frames before it.
RepairInv ==
    pc \in RepairPC =>
        /\ ~repaired /\ found.frames = Len(Readable(cells))
        /\ pc \in {"truncate", "footer"} => found.end = ScanEnd(cells)
        /\ pc = "footer" => Len(cells) = found.end
        /\ pc \in {"repairTrailer", "repairSync"} =>
              /\ ScanEnd(cells) = found.end + 1
              /\ cells[found.end + 1] = Footer(found.frames)
        /\ pc = "repairTrailer" => Len(cells) = found.end + 1
        /\ pc = "repairSync" =>
              /\ Len(cells) = found.end + 2
              /\ cells[found.end + 2] = Trailer(found.end + 1)

\* A repaired file is all on the medium.
RepairedInv ==
    repaired =>
        /\ pc = "stopped" /\ FooterLoads(cells)
        /\ cells[Len(cells) - 1].frames = Len(Readable(cells))
        /\ \A i \in 1 .. Len(cells) : media[i] = {cells[i]}
        /\ sizes = {Len(cells)}

FileInv == TypeOK /\ DiskInv /\ WriterInv /\ RepairInv /\ RepairedInv

-----------------------------------------------------------------------------
(* Writes.                                                                 *)

\* The cells after a write behind the first n.
LEMMA WrittenCells ==
    ASSUME cells \in Seq(Cell), NEW n \in Nat, n <= Len(cells), NEW c \in Cell,
           NEW cs \in Written(n, c)
    PROVE  /\ cs \in Seq(Cell) /\ cs[n + 1] = c /\ \A i \in 1 .. n : cs[i] = cells[i]
           /\ \/ Len(cs) = n + 1
              \/ Len(cs) = n + 2 /\ cs[n + 2] = Torn /\ Len(cells) > n
<1> DEFINE kept == SubSeq(cells, 1, n)
           ds == Append(kept, c)
<1>1. kept \in Seq(Cell) /\ Len(kept) = n /\ \A i \in 1 .. n : kept[i] = cells[i]
  BY LenProperties
<1> HIDE DEF kept
<1>2. /\ ds \in Seq(Cell) /\ Len(ds) = n + 1 /\ ds[n + 1] = c
      /\ \A i \in 1 .. n : ds[i] = cells[i]
  BY <1>1, AppendProperties
<1>3. cs = ds \/ (cs = Append(ds, Torn) /\ Len(cells) > n)
  BY LenProperties DEF Written, kept
<1> HIDE DEF ds
<1>4. CASE cs = ds
  BY <1>2, <1>4
<1>5. CASE cs = Append(ds, Torn) /\ Len(cells) > n
  <2>1. /\ cs \in Seq(Cell) /\ Len(cs) = n + 2 /\ cs[n + 2] = Torn
        /\ \A i \in 1 .. n + 1 : cs[i] = ds[i]
    BY <1>2, <1>5, CellFacts, AppendProperties
  <2> QED BY <1>2, <1>5, <2>1
<1> QED BY <1>3, <1>4, <1>5

\* What a write behind the logical end does to file and medium, whatever it writes.
LEMMA WriteBehindEnd ==
    ASSUME TypeOK, DiskInv, NEW n \in Nat, n = ScanEnd(cells),
           NEW cs \in Seq(Cell), SetCells(cs), n <= Len(cs),
           \A i \in 1 .. n : cs[i] = cells[i], safe' = safe
    PROVE  /\ cells' \in Seq(Cell) /\ Len(cells') <= MaxCells
           /\ media' \in [Positions -> SUBSET Cell] /\ sizes' \subseteq 0 .. MaxCells
           /\ MediaInv' /\ Settled'
           /\ \A m \in 0 .. n : FramesIn(cells', m) = FramesIn(cells, m)
           /\ \A i \in Positions : \A c \in media'[i] :
                 \/ c \in media[i] \/ c = Torn
                 \/ n < i /\ i <= Len(cs) /\ c = cs[i]
<1>1. /\ cells \in Seq(Cell) /\ Len(cells) \in Nat /\ Len(cells) <= MaxCells /\ MaxCells \in Nat
      /\ media \in [Positions -> SUBSET Cell] /\ sizes \subseteq 0 .. MaxCells
      /\ Len(cs) \in Nat /\ Len(cs) <= MaxCells /\ cells' = cs
  BY LenProperties, FileAssumption DEF TypeOK, SetCells
<1>2. EndsAt(cells, n)
  BY <1>1, ScanEnds
<1>3. n <= Len(cells)
  BY <1>2 DEF EndsAt
<1>4. /\ media' = [i \in Positions |->
                      IF i > Len(cs) THEN media[i] \cup {Torn}
                      ELSE IF i <= Len(cells) /\ cs[i] = cells[i] THEN media[i]
                      ELSE media[i] \cup {Torn, cs[i]}]
      /\ sizes' = sizes \cup {Len(cs)}
  BY DEF SetCells
<1>5. \A i \in 1 .. Len(cs) : i \in Positions /\ cs[i] \in Cell
  BY <1>1, ElementOfSeq DEF Positions
<1>6. media' \in [Positions -> SUBSET Cell]
  <2>1. ASSUME NEW i \in Positions PROVE media'[i] \in SUBSET Cell
    <3>1. i \in Nat /\ i >= 1
      BY <1>1 DEF Positions
    <3>2. i <= Len(cs) => cs[i] \in Cell
      BY <1>1, <1>5, <3>1
    <3>3. media[i] \subseteq Cell
      BY <1>1
    <3>4. CASE i > Len(cs)
      <4>1. media'[i] = media[i] \cup {Torn}
        BY <1>4, <3>4
      <4> QED BY <3>3, <4>1, CellFacts
    <3>5. CASE i <= Len(cs)
      <4>1. ~(i > Len(cs))
        BY <1>1, <3>1, <3>5
      <4>2. media'[i] = media[i] \/ media'[i] = media[i] \cup {Torn, cs[i]}
        BY <1>4, <4>1
      <4> QED BY <3>2, <3>3, <3>5, <4>2, CellFacts
    <3> QED BY <1>1, <3>1, <3>4, <3>5
  <2> QED BY <1>4, <2>1
<1>7. sizes' \subseteq 0 .. MaxCells
  <2>1. Len(cs) \in 0 .. MaxCells
    BY <1>1
  <2> QED BY <1>1, <1>4, <2>1
<1>8. MediaInv'
  <2> SUFFICES ASSUME NEW i \in 1 .. Len(cs) PROVE cs[i] \in media'[i]
    BY <1>1 DEF MediaInv
  <2>1. i \in Positions /\ ~(i > Len(cs))
    BY <1>1, <1>5
  <2>2. i <= Len(cells) => cells[i] \in media[i]
    BY <1>1 DEF DiskInv, MediaInv
  <2> QED BY <1>4, <2>1, <2>2
<1>9. \A m \in 0 .. n : FramesIn(cells', m) = FramesIn(cells, m)
  <2> SUFFICES ASSUME NEW m \in 0 .. n PROVE FramesIn(cs, m) = FramesIn(cells, m)
    BY <1>1
  <2>1. m \in Nat /\ m <= Len(cs) /\ m <= Len(cells) /\ \A i \in 1 .. m : cs[i] = cells[i]
    BY <1>1, <1>3
  <2> QED BY <1>1, <2>1, FramesSame
<1>10. Settled'
  <2>1. PICK m \in 0 .. Len(cells) :
           /\ \A i \in 1 .. m : IsChunk(cells[i]) /\ media[i] = {cells[i]}
           /\ \A k \in sizes : k >= m
           /\ safe = FramesIn(cells, m)
    BY DEF DiskInv, Settled
  <2>2. m <= n
    BY <1>1, <2>1, ChunksBelowEnd
  <2>3. m \in 0 .. Len(cs) /\ m \in 0 .. n
    BY <1>1, <2>2
  <2>4. \A i \in 1 .. m : IsChunk(cs[i]) /\ media'[i] = {cs[i]}
    <3> SUFFICES ASSUME NEW i \in 1 .. m PROVE IsChunk(cs[i]) /\ media'[i] = {cs[i]}
      OBVIOUS
    <3>1. i \in 1 .. n /\ i \in 1 .. Len(cs) /\ i <= Len(cells) /\ ~(i > Len(cs))
      BY <1>1, <1>3, <2>2, <2>3
    <3> QED BY <1>4, <1>5, <2>1, <3>1
  <2>5. \A k \in sizes' : k >= m
    BY <1>1, <1>4, <2>1, <2>3
  <2>6. safe' = FramesIn(cells', m)
    BY <1>9, <2>1, <2>3
  <2> QED BY <1>1, <2>3, <2>4, <2>5, <2>6 DEF Settled
<1>11. \A i \in Positions : \A c \in media'[i] :
          \/ c \in media[i] \/ c = Torn
          \/ n < i /\ i <= Len(cs) /\ c = cs[i]
  <2> SUFFICES ASSUME NEW i \in Positions, NEW c \in media'[i]
               PROVE  \/ c \in media[i] \/ c = Torn
                      \/ n < i /\ i <= Len(cs) /\ c = cs[i]
    OBVIOUS
  <2>1. i \in Nat /\ i >= 1
    BY <1>1 DEF Positions
  <2>2. CASE i > Len(cs)
    BY <1>4, <2>2
  <2>3. CASE i <= Len(cs) /\ n < i
    BY <1>1, <1>4, <2>1, <2>3
  <2>4. CASE i <= n
    <3>1. cs[i] = cells[i] /\ i <= Len(cells) /\ ~(i > Len(cs))
      BY <1>1, <1>3, <2>1, <2>4
    <3> QED BY <1>4, <3>1
  <2> QED BY <1>1, <2>1, <2>2, <2>3, <2>4
<1> QED BY <1>1, <1>6, <1>7, <1>8, <1>9, <1>10, <1>11

\* The parts of TypeOK about the file.
FileTypeOK ==
    /\ cells \in Seq(Cell) /\ Len(cells) <= MaxCells
    /\ media \in [Positions -> SUBSET Cell] /\ sizes \subseteq 0 .. MaxCells

NoNewData ==
    \A i \in Positions : \A k \in 1 .. MaxFrames : Data(k) \in media'[i] => Data(k) \in media[i]

\* A step that leaves the chunks of the file as they are.
Kept ==
    /\ FileTypeOK' /\ DiskInv' /\ NoNewData
    /\ ScanEnd(cells') = ScanEnd(cells) /\ Readable(cells') = Readable(cells)
    /\ \A i \in 1 .. ScanEnd(cells) : cells'[i] = cells[i]

\* A step that leaves the file alone keeps what is known of it.
LEMMA NothingWritten ==
    ASSUME TypeOK, DiskInv, UNCHANGED file, UNCHANGED <<written, safe, powerLosses>>
    PROVE  Kept
BY DEF Kept, FileTypeOK, NoNewData, TypeOK, file, DiskInv, MediaInv, Ordered, Settled, Gapless,
       Unique

\* A write behind the logical end of anything but chunks.
LEMMA QuietWrite ==
    ASSUME TypeOK, DiskInv, NEW cs \in Seq(Cell), SetCells(cs), ScanEnd(cells) <= Len(cs),
           \A i \in 1 .. ScanEnd(cells) : cs[i] = cells[i],
           \A i \in 1 .. Len(cs) : i > ScanEnd(cells) => ~IsChunk(cs[i]),
           UNCHANGED <<written, safe, powerLosses>>
    PROVE  Kept
<1> DEFINE n == ScanEnd(cells)
<1>1. /\ cells \in Seq(Cell) /\ Len(cells) \in Nat /\ Len(cs) \in Nat /\ cells' = cs
      /\ Len(cs) <= MaxCells /\ MaxCells \in Nat
  BY LenProperties, FileAssumption DEF TypeOK, SetCells
<1>2. EndsAt(cells, n)
  BY <1>1, ScanEnds
<1>3. n \in Nat /\ n <= Len(cells) /\ n <= Len(cs)
  BY <1>1, <1>2 DEF EndsAt
<1>4. /\ FileTypeOK' /\ MediaInv' /\ Settled'
      /\ \A m \in 0 .. n : FramesIn(cells', m) = FramesIn(cells, m)
      /\ \A i \in Positions : \A c \in media'[i] :
            \/ c \in media[i] \/ c = Torn
            \/ n < i /\ i <= Len(cs) /\ c = cs[i]
  BY <1>3, WriteBehindEnd DEF FileTypeOK
<1>5. ScanEnd(cells') = n
  <2>1. EndsAt(cs, n)
    <3>1. n < Len(cs) => ~IsChunk(cs[n + 1])
      BY <1>1, <1>3
    <3>2. \A i \in 1 .. n : IsChunk(cs[i])
      BY <1>2 DEF EndsAt
    <3> HIDE DEF n
    <3> QED BY <1>1, <1>3, <3>1, <3>2 DEF EndsAt
  <2> HIDE DEF n
  <2> QED BY <1>1, <2>1, ScanEndIs
<1>6. Readable(cells') = Readable(cells)
  BY <1>3, <1>4, <1>5 DEF Readable
<1>7. \A i \in Positions : \A c \in media'[i] : IsChunk(c) => c \in media[i]
  <2> SUFFICES ASSUME NEW i \in Positions, NEW c \in media'[i], IsChunk(c), c \notin media[i]
               PROVE  FALSE
    OBVIOUS
  <2>1. n < i /\ i <= Len(cs) /\ c = cs[i]
    BY <1>4, CellFacts
  <2>2. i \in 1 .. Len(cs)
    BY <1>1, <2>1 DEF Positions
  <2> QED BY <1>3, <2>1, <2>2
<1>8. NoNewData
  BY <1>7, CellFacts DEF NoNewData
<1>9. Ordered'
  BY <1>8 DEF NoNewData, DiskInv, Ordered
<1>10. Gapless'
  BY <1>4, <1>5 DEF DiskInv, Gapless
<1>11. Unique'
  <2> SUFFICES ASSUME powerLosses = 0
               PROVE  /\ \A i \in Positions : \A c \in media'[i] :
                            IsChunk(c) => i <= n /\ c = cs[i]
                      /\ Readable(cells') = FirstFrames(written)
    BY <1>1, <1>5 DEF Unique
  <2>1. ASSUME NEW i \in Positions, NEW c \in media'[i], IsChunk(c)
        PROVE  i <= n /\ c = cs[i]
    <3>1. c \in media[i]
      BY <1>7, <2>1
    <3>2. i <= n /\ c = cells[i]
      BY <2>1, <3>1 DEF DiskInv, Unique
    <3>3. i \in 1 .. n
      BY <1>1, <1>3, <3>2 DEF Positions
    <3> QED BY <3>2, <3>3
  <2> QED BY <1>6, <2>1 DEF DiskInv, Unique
<1> QED BY <1>1, <1>4, <1>5, <1>6, <1>8, <1>9, <1>10, <1>11 DEF Kept, DiskInv

\* The first n frames, step by step.
LEMMA FramesAre ==
    /\ FirstFrames(0) = <<>>
    /\ \A n \in Nat : FirstFrames(n + 1) = Append(FirstFrames(n), Data(n + 1))
    /\ \A n \in 0 .. MaxFrames : FirstFrames(n) \in Seq(Frames) /\ Len(FirstFrames(n)) = n
<1>1. FirstFrames(0) = <<>>
  BY DEF FirstFrames
<1>2. ASSUME NEW n \in Nat
      PROVE  FirstFrames(n + 1) = Append(FirstFrames(n), Data(n + 1))
  <2> DEFINE D == {Data(k) : k \in Nat}
             s == FirstFrames(n)
             t == FirstFrames(n + 1)
  <2>1. /\ s \in Seq(D) /\ Len(s) = n /\ t \in Seq(D) /\ Len(t) = n + 1
        /\ \A k \in 1 .. n : s[k] = Data(k)
        /\ \A k \in 1 .. n + 1 : t[k] = Data(k)
    BY DEF FirstFrames
  <2>2. Data(n + 1) \in D
    OBVIOUS
  <2> HIDE DEF D, s, t
  <2>3. /\ Append(s, Data(n + 1)) \in Seq(D) /\ Len(Append(s, Data(n + 1))) = n + 1
        /\ \A k \in 1 .. n : Append(s, Data(n + 1))[k] = s[k]
        /\ Append(s, Data(n + 1))[n + 1] = Data(n + 1)
    BY <2>1, <2>2, AppendProperties
  <2>4. \A k \in 1 .. n + 1 : t[k] = Append(s, Data(n + 1))[k]
    <3> SUFFICES ASSUME NEW k \in 1 .. n + 1 PROVE t[k] = Append(s, Data(n + 1))[k]
      OBVIOUS
    <3>1. k \in 1 .. n \/ k = n + 1
      OBVIOUS
    <3> QED BY <2>1, <2>3, <3>1
  <2>5. t = Append(s, Data(n + 1))
    BY <2>1, <2>3, <2>4, SeqEqual
  <2> QED BY <2>5 DEF s, t
<1>3. ASSUME NEW n \in 0 .. MaxFrames
      PROVE  FirstFrames(n) \in Seq(Frames) /\ Len(FirstFrames(n)) = n
  <2>1. \A k \in 1 .. n : Data(k) \in Frames
    BY FileAssumption, CellFacts
  <2> QED BY <2>1 DEF FirstFrames
<1> QED BY <1>1, <1>2, <1>3

\* A write of a chunk at the logical end: a footer, or the next frame of the Writer.
LEMMA ChunkWrite ==
    ASSUME TypeOK, DiskInv, NEW cs \in Seq(Cell), SetCells(cs), ScanEnd(cells) + 1 <= Len(cs),
           \A i \in 1 .. ScanEnd(cells) : cs[i] = cells[i],
           NEW c, cs[ScanEnd(cells) + 1] = c, IsChunk(c),
           \A i \in 1 .. Len(cs) : i > ScanEnd(cells) + 1 => ~IsChunk(cs[i]),
           UNCHANGED <<safe, powerLosses>>,
           \/ c \notin Frames /\ written' = written
           \/ /\ written < MaxFrames /\ c = Data(written + 1) /\ written' = written + 1
              /\ powerLosses = 0
              /\ \A i \in Positions : \A k \in 1 .. MaxFrames : Data(k) \in media[i] => k <= written
    PROVE  /\ FileTypeOK' /\ DiskInv' /\ ScanEnd(cells') = ScanEnd(cells) + 1
           /\ c \notin Frames => NoNewData /\ Readable(cells') = Readable(cells)
           /\ \A i \in Positions : \A k \in 1 .. MaxFrames :
                 Data(k) \in media'[i] => Data(k) \in media[i] \/ c = Data(k)
<1> DEFINE n == ScanEnd(cells)
<1>1. /\ cells \in Seq(Cell) /\ Len(cells) \in Nat /\ Len(cs) \in Nat /\ cells' = cs
      /\ Len(cs) <= MaxCells /\ MaxCells \in Nat /\ written \in 0 .. MaxFrames /\ MaxFrames \in Nat
  BY LenProperties, FileAssumption DEF TypeOK, SetCells
<1>2. EndsAt(cells, n)
  BY <1>1, ScanEnds
<1>3. n \in Nat /\ n <= Len(cells) /\ n <= Len(cs) /\ n + 1 <= Len(cs)
  BY <1>1, <1>2 DEF EndsAt
<1>4. /\ FileTypeOK' /\ MediaInv' /\ Settled'
      /\ \A m \in 0 .. n : FramesIn(cells', m) = FramesIn(cells, m)
      /\ \A i \in Positions : \A d \in media'[i] :
            \/ d \in media[i] \/ d = Torn
            \/ n < i /\ i <= Len(cs) /\ d = cs[i]
  BY <1>3, WriteBehindEnd DEF FileTypeOK
<1>5. ScanEnd(cells') = n + 1
  <2>1. EndsAt(cs, n + 1)
    <3>1. n + 1 < Len(cs) => ~IsChunk(cs[(n + 1) + 1])
      BY <1>1, <1>3
    <3>2. \A i \in 1 .. n : IsChunk(cs[i])
      BY <1>2 DEF EndsAt
    <3>3. IsChunk(cs[n + 1])
      OBVIOUS
    <3> HIDE DEF n
    <3>4. \A i \in 1 .. n + 1 : i \in 1 .. n \/ i = n + 1
      BY <1>3
    <3> QED BY <1>1, <1>3, <3>1, <3>2, <3>3, <3>4 DEF EndsAt
  <2> HIDE DEF n
  <2> QED BY <1>1, <2>1, ScanEndIs
<1>6. Readable(cells') = IF c \in Frames THEN Append(Readable(cells), c) ELSE Readable(cells)
  <2>1. FramesIn(cs, n + 1) = IF c \in Frames THEN Append(FramesIn(cs, n), c) ELSE FramesIn(cs, n)
    BY <1>1, <1>3, FramesNext
  <2>2. FramesIn(cs, n) = FramesIn(cells, n)
    BY <1>1, <1>3, <1>4
  <2> QED BY <1>1, <1>5, <2>1, <2>2 DEF Readable
<1>7. \A i \in Positions : \A d \in media'[i] :
         IsChunk(d) => d \in media[i] \/ (i = n + 1 /\ d = c)
  <2> SUFFICES ASSUME NEW i \in Positions, NEW d \in media'[i], IsChunk(d), d \notin media[i]
               PROVE  i = n + 1 /\ d = c
    OBVIOUS
  <2>1. n < i /\ i <= Len(cs) /\ d = cs[i]
    BY <1>4, CellFacts
  <2>2. i \in 1 .. Len(cs) /\ ~(i > n + 1)
    BY <1>1, <2>1 DEF Positions
  <2>3. i = n + 1
    BY <1>1, <1>3, <2>1, <2>2
  <2> QED BY <2>1, <2>3
<1>8. \A i \in Positions : \A k \in 1 .. MaxFrames :
         Data(k) \in media'[i] => Data(k) \in media[i] \/ (i = n + 1 /\ c = Data(k))
  BY <1>7, CellFacts
<1>9. c \notin Frames => NoNewData
  BY <1>8, CellFacts DEF NoNewData
<1>10. Ordered'
  <2> SUFFICES ASSUME NEW i \in Positions, NEW j \in Positions,
                      NEW k \in 1 .. MaxFrames, NEW l \in 1 .. MaxFrames,
                      i < j, Data(k) \in media'[i], Data(l) \in media'[j]
               PROVE  k < l
    BY DEF Ordered
  <2>0. k \in Nat /\ l \in Nat /\ i \in Nat /\ j \in Nat
    BY <1>1 DEF Positions
  <2>1. CASE Data(k) \in media[i] /\ Data(l) \in media[j]
    BY <2>1 DEF DiskInv, Ordered
  <2>2. CASE Data(l) \notin media[j]
    <3>1. j = n + 1 /\ c = Data(l)
      BY <1>8, <2>2
    <3>2. l = written + 1
      <4>1. c \in Frames
        BY <3>1, CellFacts
      <4>2. Data(l) = Data(written + 1) /\ written + 1 \in 1 .. MaxFrames
        BY <1>1, <3>1, <4>1
      <4> QED BY <4>2, CellFacts
    <3>3. i # n + 1
      BY <3>1, <2>0
    <3>4. Data(k) \in media[i]
      BY <1>8, <3>3
    <3>5. k <= written
      BY <3>1, <3>4, CellFacts
    <3> QED BY <1>1, <2>0, <3>2, <3>5
  <2>3. CASE Data(l) \in media[j] /\ Data(k) \notin media[i]
    <3>1. i = n + 1 /\ c = Data(k)
      BY <1>8, <2>3
    <3>2. powerLosses = 0
      BY <3>1, CellFacts
    <3>3. j <= n
      BY <2>3, <3>2, CellFacts DEF DiskInv, Unique
    <3> QED BY <1>3, <2>0, <3>1, <3>3
  <2> QED BY <2>1, <2>2, <2>3
<1>11. Unique'
  <2> SUFFICES ASSUME powerLosses = 0
               PROVE  /\ \A i \in Positions : \A d \in media'[i] :
                            IsChunk(d) => i <= n + 1 /\ d = cs[i]
                      /\ Readable(cells') = FirstFrames(written')
    BY <1>1, <1>5 DEF Unique
  <2>1. ASSUME NEW i \in Positions, NEW d \in media'[i], IsChunk(d)
        PROVE  i <= n + 1 /\ d = cs[i]
    <3>1. CASE d \in media[i]
      <4>1. i <= n /\ d = cells[i]
        BY <2>1, <3>1 DEF DiskInv, Unique
      <4>2. i \in 1 .. n
        BY <1>1, <1>3, <4>1 DEF Positions
      <4> QED BY <1>3, <4>1, <4>2
    <3>2. CASE i = n + 1 /\ d = c
      BY <1>3, <3>2
    <3> QED BY <1>7, <2>1, <3>1, <3>2
  <2>2. Readable(cells) = FirstFrames(written)
    BY DEF DiskInv, Unique
  <2>3. c \in Frames => Readable(cells') = FirstFrames(written + 1) /\ written' = written + 1
    <3>1. FirstFrames(written + 1) = Append(FirstFrames(written), Data(written + 1))
      <4>1. written \in Nat
        BY <1>1
      <4> QED BY <4>1, FramesAre
    <3>2. c \in Frames => Readable(cells') = Append(Readable(cells), c)
      BY <1>6
    <3> QED BY <2>2, <3>1, <3>2
  <2>4. c \notin Frames => Readable(cells') = FirstFrames(written) /\ written' = written
    <3> SUFFICES ASSUME c \notin Frames
                 PROVE  Readable(cells') = FirstFrames(written) /\ written' = written
      OBVIOUS
    <3>1. ~(c = Data(written + 1) /\ written < MaxFrames)
      <4>1. written < MaxFrames => written + 1 \in 1 .. MaxFrames
        BY <1>1
      <4> QED BY <4>1, CellFacts
    <3>2. written' = written
      BY <3>1
    <3>3. Readable(cells') = Readable(cells)
      BY <1>6
    <3> QED BY <2>2, <3>2, <3>3
  <2> QED BY <2>1, <2>3, <2>4
<1>12. Gapless'
  <2> SUFFICES ASSUME powerLosses <= 1, NEW m \in 0 .. n + 1
               PROVE  FramesIn(cs, m) = FirstFrames(Len(FramesIn(cs, m)))
    BY <1>1, <1>5 DEF Gapless
  <2>1. CASE m \in 0 .. n
    BY <1>1, <1>4, <2>1 DEF DiskInv, Gapless
  <2>2. CASE m = n + 1
    <3>1. FramesIn(cs, m) = Readable(cells')
      BY <1>1, <1>5, <2>2 DEF Readable
    <3>2. CASE c \notin Frames
      <4>1. FramesIn(cs, m) = FramesIn(cells, n)
        BY <1>6, <3>1, <3>2 DEF Readable
      <4>2. n \in 0 .. n
        BY <1>3
      <4> QED BY <4>1, <4>2 DEF DiskInv, Gapless
    <3>3. CASE c \in Frames
      <4>1. Readable(cells') = FirstFrames(written') /\ written' \in 0 .. MaxFrames
        BY <1>1, <1>11, <3>3 DEF Unique
      <4>2. Len(FirstFrames(written')) = written'
        BY <4>1, FramesAre
      <4> QED BY <3>1, <4>1, <4>2
    <3> QED BY <3>2, <3>3
  <2> QED BY <1>3, <2>1, <2>2
<1> QED BY <1>1, <1>4, <1>5, <1>6, <1>8, <1>9, <1>10, <1>11, <1>12 DEF DiskInv

\* WriteAt of something that is no chunk, behind the logical end.
LEMMA QuietCell ==
    ASSUME TypeOK, DiskInv, NEW n, n = ScanEnd(cells), NEW c \in Cell, ~IsChunk(c),
           WriteCell(n, c), UNCHANGED <<written, safe, powerLosses>>
    PROVE  /\ Kept /\ n + 1 <= Len(cells') /\ cells'[n + 1] = c
           /\ Len(cells) = n => Len(cells') = n + 1
<1>1. cells \in Seq(Cell) /\ Len(cells) \in Nat
  BY LenProperties DEF TypeOK
<1>2. n \in Nat /\ n <= Len(cells)
  BY <1>1, ScanEnds DEF EndsAt
<1>3. PICK cs \in Written(n, c) : SetCells(cs)
  BY DEF WriteCell
<1>4. /\ cs \in Seq(Cell) /\ cs[n + 1] = c /\ \A i \in 1 .. n : cs[i] = cells[i]
      /\ \/ Len(cs) = n + 1
         \/ Len(cs) = n + 2 /\ cs[n + 2] = Torn /\ Len(cells) > n
  BY <1>1, <1>2, <1>3, WrittenCells
<1>5. \A i \in 1 .. Len(cs) : i > n => ~IsChunk(cs[i])
  <2> SUFFICES ASSUME NEW i \in 1 .. Len(cs), i > n PROVE ~IsChunk(cs[i])
    OBVIOUS
  <2>1. i = n + 1 \/ (i = n + 2 /\ cs[n + 2] = Torn)
    BY <1>2, <1>4
  <2> QED BY <1>4, <2>1, CellFacts
<1>6. n <= Len(cs) /\ n + 1 <= Len(cs) /\ cells' = cs
  BY <1>2, <1>3, <1>4 DEF SetCells
<1>7. Kept
  BY <1>3, <1>4, <1>5, <1>6, QuietWrite
<1> QED BY <1>2, <1>4, <1>6, <1>7

\* A failed WriteAt behind the logical end.
LEMMA FailedWrite ==
    ASSUME TypeOK, DiskInv, NEW n, n = ScanEnd(cells),
           WriteFails(n), UNCHANGED <<written, safe, powerLosses>>
    PROVE  Kept
<1>1. CASE UNCHANGED file
  BY <1>1, NothingWritten
<1>2. CASE WriteCell(n, Torn)
  BY <1>2, CellFacts, QuietCell
<1> QED BY <1>1, <1>2 DEF WriteFails

\* WriteAt of a chunk at the logical end.
LEMMA ChunkCell ==
    ASSUME TypeOK, DiskInv, NEW n, n = ScanEnd(cells), NEW c \in Cell, IsChunk(c),
           WriteCell(n, c), UNCHANGED <<safe, powerLosses>>,
           \/ c \notin Frames /\ written' = written
           \/ /\ written < MaxFrames /\ c = Data(written + 1) /\ written' = written + 1
              /\ powerLosses = 0
              /\ \A i \in Positions : \A k \in 1 .. MaxFrames : Data(k) \in media[i] => k <= written
    PROVE  /\ FileTypeOK' /\ DiskInv' /\ ScanEnd(cells') = n + 1
           /\ c \notin Frames => NoNewData /\ Readable(cells') = Readable(cells)
           /\ \A i \in Positions : \A k \in 1 .. MaxFrames :
                 Data(k) \in media'[i] => Data(k) \in media[i] \/ c = Data(k)
           /\ n \in Nat /\ n + 1 <= Len(cells') /\ cells'[n + 1] = c
           /\ Len(cells) = n => Len(cells') = n + 1
<1>1. cells \in Seq(Cell) /\ Len(cells) \in Nat
  BY LenProperties DEF TypeOK
<1>2. n \in Nat /\ n <= Len(cells)
  BY <1>1, ScanEnds DEF EndsAt
<1>3. PICK cs \in Written(n, c) : SetCells(cs)
  BY DEF WriteCell
<1>4. /\ cs \in Seq(Cell) /\ cs[n + 1] = c /\ \A i \in 1 .. n : cs[i] = cells[i]
      /\ \/ Len(cs) = n + 1
         \/ Len(cs) = n + 2 /\ cs[n + 2] = Torn /\ Len(cells) > n
  BY <1>1, <1>2, <1>3, WrittenCells
<1>5. \A i \in 1 .. Len(cs) : i > n + 1 => ~IsChunk(cs[i])
  <2> SUFFICES ASSUME NEW i \in 1 .. Len(cs), i > n + 1 PROVE ~IsChunk(cs[i])
    OBVIOUS
  <2>1. i = n + 2 /\ cs[n + 2] = Torn
    BY <1>2, <1>4
  <2> QED BY <2>1, CellFacts
<1>6. n + 1 <= Len(cs) /\ cells' = cs
  BY <1>2, <1>3, <1>4 DEF SetCells
<1>7. /\ FileTypeOK' /\ DiskInv' /\ ScanEnd(cells') = n + 1
      /\ c \notin Frames => NoNewData /\ Readable(cells') = Readable(cells)
      /\ \A i \in Positions : \A k \in 1 .. MaxFrames :
            Data(k) \in media'[i] => Data(k) \in media[i] \/ c = Data(k)
  BY <1>3, <1>4, <1>5, <1>6, ChunkWrite
<1> QED BY <1>2, <1>4, <1>6, <1>7

\* A sync.
LEMMA SyncedDisk ==
    ASSUME TypeOK, DiskInv, Synced, UNCHANGED <<written, powerLosses>>
    PROVE  /\ FileTypeOK' /\ DiskInv' /\ NoNewData /\ cells' = cells /\ safe' \in Seq(Frames)
           /\ \A i \in 1 .. Len(cells) : media'[i] = {cells[i]}
           /\ sizes' = {Len(cells)}
<1> DEFINE n == ScanEnd(cells)
<1>1. /\ cells \in Seq(Cell) /\ Len(cells) \in Nat /\ cells' = cells /\ Len(cells) <= MaxCells
      /\ MaxCells \in Nat /\ \A i \in 1 .. Len(cells) : cells[i] \in Cell /\ i \in Positions
      /\ sizes' = {Len(cells)}
      /\ media' = [i \in Positions |-> IF i <= Len(cells) THEN {cells[i]} ELSE {Torn}]
  BY LenProperties, ElementOfSeq, FileAssumption DEF TypeOK, Synced, Positions
<1>2. EndsAt(cells, n)
  BY <1>1, ScanEnds
<1>3. n \in Nat /\ n <= Len(cells) /\ n \in 0 .. Len(cells)
  BY <1>1, <1>2 DEF EndsAt
<1>4. \A i \in Positions : \A c \in media'[i] :
         c = Torn \/ (i \in 1 .. Len(cells) /\ c = cells[i] /\ c \in media[i])
  <2> SUFFICES ASSUME NEW i \in Positions, NEW c \in media'[i], c # Torn
               PROVE  i \in 1 .. Len(cells) /\ c = cells[i] /\ c \in media[i]
    OBVIOUS
  <2>1. i <= Len(cells) /\ c = cells[i]
    BY <1>1
  <2>2. i \in 1 .. Len(cells)
    BY <1>1, <2>1 DEF Positions
  <2> QED BY <2>1, <2>2 DEF DiskInv, MediaInv
<1>5. FileTypeOK'
  <2>1. ASSUME NEW i \in Positions PROVE media'[i] \in SUBSET Cell
    <3>1. \A c \in media'[i] : c \in Cell
      BY <1>1, <1>4, CellFacts
    <3> QED BY <3>1
  <2>2. sizes' \subseteq 0 .. MaxCells
    BY <1>1
  <2> QED BY <1>1, <2>1, <2>2 DEF FileTypeOK
<1>6. NoNewData
  BY <1>4, CellFacts DEF NoNewData
<1>7. \A i \in 1 .. Len(cells) : media'[i] = {cells[i]}
  BY <1>1
<1>8. MediaInv'
  BY <1>1, <1>7 DEF MediaInv
<1>9. Ordered'
  BY <1>6 DEF NoNewData, DiskInv, Ordered
<1>10. safe' = FramesIn(cells, n) /\ safe' \in Seq(Frames)
  BY <1>1, <1>3, FramesType DEF Synced, Readable
<1>11. Settled'
  <2>1. \A i \in 1 .. n : IsChunk(cells[i]) /\ media'[i] = {cells[i]}
    BY <1>1, <1>2, <1>3, <1>7 DEF EndsAt
  <2>2. \A m \in sizes' : m >= n
    BY <1>1, <1>3
  <2> HIDE DEF n
  <2> QED BY <1>1, <1>3, <1>10, <2>1, <2>2 DEF Settled
<1>12. Gapless'
  BY <1>1 DEF DiskInv, Gapless
<1>13. Unique'
  BY <1>1, <1>4, CellFacts DEF DiskInv, Unique
<1> QED BY <1>1, <1>5, <1>6, <1>7, <1>8, <1>9, <1>10, <1>11, <1>12, <1>13 DEF DiskInv

-----------------------------------------------------------------------------
(* The steps.                                                              *)

\* The invariant, action by action.
LEMMA InitHolds == ASSUME Init PROVE FileInv
<1>1. cells = <<>> /\ cells \in Seq(Cell) /\ Len(cells) = 0
  BY EmptySeq DEF Init
<1>2. ScanEnd(cells) = 0
  <2>1. EndsAt(cells, 0)
    BY <1>1 DEF EndsAt
  <2> QED BY <1>1, <2>1, ScanEndIs
<1>3. FramesIn(cells, 0) = <<>> /\ FirstFrames(0) = <<>> /\ Len(<<>>) = 0
  BY FramesNone, FramesAre
<1>4. \A i \in Positions : media[i] = {Torn}
  BY DEF Init
<1>5. TypeOK
  <2>1. media \in [Positions -> SUBSET Cell]
    BY CellFacts DEF Init
  <2>2. <<>> \in Seq(Frames)
    BY EmptySeq
  <2>3. found.end = 0 /\ found.frames = 0
    BY DEF Init, NotFound
  <2>4. /\ 0 \in 0 .. MaxCells /\ 0 \in 0 .. MaxFrames /\ 0 \in 0 .. MaxPowerLosses
        /\ Len(cells) <= MaxCells
    BY <1>1, FileAssumption
  <2>5. /\ sizes = {0} /\ committed = 0 /\ written = 0 /\ pc = "write" /\ repaired = FALSE
        /\ powerLosses = 0 /\ safe = <<>>
    BY DEF Init
  <2> QED BY <1>1, <2>1, <2>2, <2>3, <2>4, <2>5 DEF TypeOK, WriterPC
<1>6. DiskInv
  <2>1. MediaInv
    BY <1>1 DEF MediaInv
  <2>2. Ordered
    BY <1>4, CellFacts DEF Ordered
  <2>3. Settled
    BY <1>1, <1>3 DEF Settled, Init
  <2>4. Gapless
    BY <1>2, <1>3 DEF Gapless
  <2>5. Unique
    BY <1>2, <1>3, <1>4, CellFacts DEF Unique, Readable, Init
  <2> QED BY <2>1, <2>2, <2>3, <2>4, <2>5 DEF DiskInv
<1>7. WriterInv
  BY <1>2, <1>4, CellFacts DEF WriterInv, Init
<1>8. RepairInv /\ RepairedInv
  BY DEF RepairInv, RepairedInv, Init, RepairPC
<1> QED BY <1>5, <1>6, <1>7, <1>8 DEF FileInv

\* A step of a process that has not repaired the file, to "stopped".
LEMMA Stopped ==
    ASSUME FileInv, Kept, pc' = "stopped", ~repaired,
           UNCHANGED <<committed, written, found, repaired, safe, powerLosses>>
    PROVE  FileInv'
<1>1. TypeOK'
  BY DEF FileInv, TypeOK, Kept, FileTypeOK
<1> QED BY <1>1 DEF FileInv, Kept, WriterInv, RepairInv, RepairedInv, WriterPC, RepairPC

LEMMA WritesFrame == ASSUME FileInv, WriteFrame PROVE FileInv'
<1>0. /\ pc = "write" /\ pc' = pc /\ written < MaxFrames
      /\ UNCHANGED <<found, repaired, safe, powerLosses>>
  BY DEF WriteFrame
<1>1. /\ TypeOK /\ DiskInv /\ committed = ScanEnd(cells) /\ powerLosses = 0 /\ ~repaired
      /\ \A i \in Positions : \A k \in 1 .. MaxFrames : Data(k) \in media[i] => k <= written
      /\ MaxFrames \in Nat /\ MaxCells \in Nat /\ written \in 0 .. MaxFrames
      /\ written + 1 \in 1 .. MaxFrames
  BY <1>0, FileAssumption DEF FileInv, WriterInv, WriterPC, RepairedInv, TypeOK
<1>2. CASE WriteFails(committed) /\ UNCHANGED <<committed, written>>
  <2>1. Kept
    BY <1>0, <1>1, <1>2, FailedWrite
  <2>2. TypeOK'
    BY <1>0, <1>2, <2>1 DEF Kept, FileTypeOK, FileInv, TypeOK
  <2>3. WriterInv'
    BY <1>0, <1>1, <1>2, <2>1 DEF Kept, NoNewData, WriterInv
  <2> QED BY <1>0, <1>1, <2>1, <2>2, <2>3
          DEF FileInv, Kept, RepairInv, RepairedInv, RepairPC
<1>3. CASE /\ WriteCell(committed, Data(written + 1))
           /\ committed' = committed + 1 /\ written' = written + 1
  <2> DEFINE c == Data(written + 1)
  <2>1. c \in Cell /\ IsChunk(c)
    BY <1>1, CellFacts
  <2>2. /\ FileTypeOK' /\ DiskInv' /\ ScanEnd(cells') = committed + 1
        /\ \A i \in Positions : \A k \in 1 .. MaxFrames :
              Data(k) \in media'[i] => Data(k) \in media[i] \/ c = Data(k)
        /\ committed \in Nat /\ committed + 1 <= Len(cells')
    BY <1>0, <1>1, <1>3, <2>1, ChunkCell
  <2>3. committed' \in 0 .. MaxCells
    <3>1. Len(cells') \in Nat /\ Len(cells') <= MaxCells
      BY <2>2, LenProperties DEF FileTypeOK
    <3> QED BY <1>1, <1>3, <2>2, <3>1
  <2>4. TypeOK'
    BY <1>0, <1>1, <1>3, <2>2, <2>3 DEF FileTypeOK, TypeOK
  <2>5. WriterInv'
    <3>1. ASSUME NEW i \in Positions, NEW k \in 1 .. MaxFrames, Data(k) \in media'[i]
          PROVE  k <= written + 1
      <4>1. CASE Data(k) \in media[i]
        BY <1>1, <4>1
      <4>2. CASE c = Data(k)
        <5>1. k = written + 1
          BY <1>1, <4>2, CellFacts
        <5> QED BY <1>1, <5>1
      <4> QED BY <2>2, <3>1, <4>1, <4>2
    <3> QED BY <1>0, <1>1, <1>3, <2>2, <3>1 DEF WriterInv
  <2> QED BY <1>0, <1>1, <2>2, <2>4, <2>5 DEF FileInv, RepairInv, RepairedInv, RepairPC
<1> QED BY <1>2, <1>3 DEF WriteFrame

LEMMA Syncs == ASSUME FileInv, Sync PROVE FileInv'
<1>0. /\ pc = "write" /\ pc' = pc /\ Synced
      /\ UNCHANGED <<committed, written, found, repaired, powerLosses>>
  BY DEF Sync
<1>1. TypeOK /\ DiskInv /\ ~repaired
  BY <1>0 DEF FileInv, RepairedInv
<1>2. FileTypeOK' /\ DiskInv' /\ NoNewData /\ cells' = cells /\ safe' \in Seq(Frames)
  BY <1>0, <1>1, SyncedDisk
<1>3. TypeOK'
  BY <1>0, <1>1, <1>2 DEF FileTypeOK, TypeOK
<1>4. WriterInv'
  BY <1>0, <1>2 DEF FileInv, WriterInv, NoNewData, WriterPC
<1> QED BY <1>0, <1>1, <1>2, <1>3, <1>4 DEF FileInv, RepairInv, RepairedInv, RepairPC

LEMMA FinalizesFooter == ASSUME FileInv, FinalizeFooter PROVE FileInv'
<1>0. pc = "write" /\ UNCHANGED <<written, found, repaired, safe, powerLosses>>
  BY DEF FinalizeFooter
<1>1. /\ TypeOK /\ DiskInv /\ committed = ScanEnd(cells) /\ powerLosses = 0 /\ ~repaired
      /\ \A i \in Positions : \A k \in 1 .. MaxFrames : Data(k) \in media[i] => k <= written
      /\ MaxFrames \in Nat /\ MaxCells \in Nat /\ written \in 0 .. MaxFrames
  BY <1>0, FileAssumption DEF FileInv, WriterInv, WriterPC, RepairedInv, TypeOK
<1>2. CASE WriteFails(committed) /\ UNCHANGED <<committed, pc>>
  <2>1. Kept
    BY <1>0, <1>1, <1>2, FailedWrite
  <2>2. TypeOK'
    BY <1>0, <1>2, <2>1 DEF Kept, FileTypeOK, FileInv, TypeOK
  <2>3. WriterInv'
    BY <1>0, <1>1, <1>2, <2>1 DEF Kept, NoNewData, WriterInv
  <2> QED BY <1>0, <1>1, <1>2, <2>1, <2>2, <2>3
          DEF FileInv, Kept, RepairInv, RepairedInv, RepairPC
<1>3. CASE /\ WriteCell(committed, Footer(written))
           /\ committed' = committed + 1 /\ pc' = "trailer"
  <2> DEFINE c == Footer(written)
  <2>1. c \in Cell /\ IsChunk(c) /\ c \notin Frames
    BY <1>1, CellFacts
  <2>2. /\ FileTypeOK' /\ DiskInv' /\ ScanEnd(cells') = committed + 1 /\ NoNewData
        /\ committed \in Nat /\ committed + 1 <= Len(cells')
    BY <1>0, <1>1, <1>3, <2>1, ChunkCell
  <2>3. committed' \in 0 .. MaxCells /\ committed' >= 1
    <3>1. Len(cells') \in Nat /\ Len(cells') <= MaxCells
      BY <2>2, LenProperties DEF FileTypeOK
    <3> QED BY <1>1, <1>3, <2>2, <3>1
  <2>4. TypeOK'
    BY <1>0, <1>1, <1>3, <2>2, <2>3 DEF FileTypeOK, TypeOK, WriterPC
  <2>5. WriterInv'
    BY <1>0, <1>1, <1>3, <2>2, <2>3 DEF WriterInv, NoNewData
  <2> QED BY <1>0, <1>1, <1>3, <2>2, <2>4, <2>5 DEF FileInv, RepairInv, RepairedInv, RepairPC
<1> QED BY <1>2, <1>3 DEF FinalizeFooter

LEMMA FinalizesTrailer == ASSUME FileInv, FinalizeTrailer PROVE FileInv'
<1>0. pc = "trailer" /\ UNCHANGED <<committed, written, found, repaired, safe, powerLosses>>
  BY DEF FinalizeTrailer
<1>1. /\ TypeOK /\ DiskInv /\ committed = ScanEnd(cells) /\ powerLosses = 0 /\ ~repaired
      /\ \A i \in Positions : \A k \in 1 .. MaxFrames : Data(k) \in media[i] => k <= written
      /\ committed \in Positions /\ committed >= 1
  BY <1>0, FileAssumption DEF FileInv, WriterInv, WriterPC, RepairedInv, TypeOK, Positions
<1>2. Kept /\ pc' \in {"sync", "write"}
  <2>1. CASE WriteCell(committed, Trailer(committed)) /\ pc' = "sync"
    <3>1. Trailer(committed) \in Cell /\ ~IsChunk(Trailer(committed))
      BY <1>1, CellFacts
    <3> QED BY <1>0, <1>1, <2>1, <3>1, QuietCell
  <2>2. CASE WriteFails(committed) /\ pc' = "write"
    BY <1>0, <1>1, <2>2, FailedWrite
  <2> QED BY <2>1, <2>2 DEF FinalizeTrailer
<1>3. TypeOK'
  BY <1>0, <1>2 DEF Kept, FileTypeOK, FileInv, TypeOK, WriterPC
<1>4. WriterInv'
  BY <1>0, <1>1, <1>2 DEF Kept, NoNewData, WriterInv
<1> QED BY <1>0, <1>1, <1>2, <1>3, <1>4 DEF FileInv, Kept, RepairInv, RepairedInv, RepairPC

LEMMA FinalizesSync == ASSUME FileInv, FinalizeSync PROVE FileInv'
<1>0. pc = "sync" /\ UNCHANGED <<committed, written, found, repaired, powerLosses>>
  BY DEF FinalizeSync
<1>1. TypeOK /\ DiskInv /\ ~repaired
  BY <1>0 DEF FileInv, RepairedInv
<1>2. CASE Synced /\ pc' = "stopped"
  <2>1. FileTypeOK' /\ DiskInv' /\ safe' \in Seq(Frames)
    BY <1>0, <1>1, <1>2, SyncedDisk
  <2>2. TypeOK'
    BY <1>0, <1>1, <1>2, <2>1 DEF FileTypeOK, TypeOK
  <2> QED BY <1>0, <1>1, <1>2, <2>1, <2>2
          DEF FileInv, WriterInv, RepairInv, RepairedInv, WriterPC, RepairPC
<1>3. CASE UNCHANGED <<file, safe>> /\ pc' = "write"
  <2>1. Kept
    BY <1>0, <1>1, <1>3, NothingWritten
  <2>2. TypeOK'
    BY <1>0, <1>3, <2>1 DEF Kept, FileTypeOK, FileInv, TypeOK, WriterPC
  <2>3. WriterInv'
    BY <1>0, <1>3, <2>1 DEF FileInv, Kept, NoNewData, WriterInv, WriterPC
  <2> QED BY <1>0, <1>1, <1>3, <2>1, <2>2, <2>3 DEF FileInv, Kept, RepairInv, RepairedInv, RepairPC
<1> QED BY <1>2, <1>3 DEF FinalizeSync

LEMMA Stops == ASSUME FileInv, Stop PROVE FileInv'
<1>0. /\ pc # "stopped" /\ pc' = "stopped"
      /\ UNCHANGED <<file, committed, written, found, repaired, safe, powerLosses>>
  BY DEF Stop
<1>1. TypeOK /\ DiskInv /\ ~repaired
  BY <1>0 DEF FileInv, RepairedInv
<1>2. Kept
  BY <1>0, <1>1, NothingWritten
<1> QED BY <1>0, <1>1, <1>2, Stopped

\* A power loss leaves the synced frames, and of the rest what it will.
LEMMA LosesPower == ASSUME FileInv, PowerLoss PROVE FileInv'
<1>0. /\ powerLosses < MaxPowerLosses /\ powerLosses' = powerLosses + 1 /\ pc' = "stopped"
      /\ media' = [i \in Positions |-> IF i <= Len(cells') THEN {cells'[i]} ELSE {Torn}]
      /\ sizes' = {Len(cells')}
      /\ UNCHANGED <<committed, written, found, repaired, safe>>
  BY DEF PowerLoss
<1>1. /\ TypeOK /\ DiskInv /\ MaxCells \in Nat /\ MaxPowerLosses \in Nat
      /\ cells \in Seq(Cell) /\ Len(cells) \in Nat
      /\ media \in [Positions -> SUBSET Cell] /\ sizes \subseteq 0 .. MaxCells
      /\ powerLosses \in 0 .. MaxPowerLosses
  BY LenProperties, FileAssumption DEF FileInv, TypeOK
<1>2. PICK n \in sizes : cells' \in Survivors(n)
  BY DEF PowerLoss
<1>3. n \in Nat /\ n <= MaxCells /\ \A i \in 1 .. n : i \in Positions
  BY <1>1 DEF Positions
<1>4. cells' \in Seq(Cell) /\ Len(cells') = n /\ \A i \in 1 .. n : cells'[i] \in media[i]
  <2>1. \A i \in 1 .. n : media[i] \subseteq Cell
    BY <1>1, <1>3
  <2> QED BY <1>2, <1>3, <2>1, SurvivorsHold
<1>5. \A i \in 1 .. n : media'[i] = {cells'[i]}
  BY <1>0, <1>3, <1>4
<1>6. \A i \in Positions : \A c \in media'[i] :
         c = Torn \/ (i \in 1 .. n /\ c = cells'[i] /\ c \in media[i])
  <2> SUFFICES ASSUME NEW i \in Positions, NEW c \in media'[i], c # Torn
               PROVE  i \in 1 .. n /\ c = cells'[i] /\ c \in media[i]
    OBVIOUS
  <2>1. i <= n /\ c = cells'[i]
    BY <1>0, <1>4
  <2>2. i \in 1 .. n
    BY <1>1, <1>3, <2>1 DEF Positions
  <2> QED BY <1>4, <2>1, <2>2
<1>7. TypeOK'
  <2>1. ASSUME NEW i \in Positions PROVE media'[i] \in SUBSET Cell
    <3>1. \A c \in media'[i] : c \in Cell
      BY <1>1, <1>6, CellFacts
    <3> QED BY <3>1
  <2>2. media' \in [Positions -> SUBSET Cell]
    BY <1>0, <2>1
  <2>3. sizes' \subseteq 0 .. MaxCells
    BY <1>0, <1>3, <1>4
  <2>4. powerLosses' \in 0 .. MaxPowerLosses
    BY <1>0, <1>1
  <2> QED BY <1>0, <1>1, <1>3, <1>4, <2>2, <2>3, <2>4 DEF TypeOK
<1>8. MediaInv'
  BY <1>4, <1>5 DEF MediaInv
<1>9. Ordered'
  BY <1>1, <1>6, CellFacts DEF DiskInv, Ordered
<1>10. Settled'
  <2>1. PICK m \in 0 .. Len(cells) :
           /\ \A i \in 1 .. m : IsChunk(cells[i]) /\ media[i] = {cells[i]}
           /\ \A k \in sizes : k >= m
           /\ safe = FramesIn(cells, m)
    BY <1>1 DEF DiskInv, Settled
  <2>2. m \in Nat /\ m <= Len(cells) /\ m <= n /\ m \in 0 .. n
    BY <1>1, <1>2, <1>3, <2>1
  <2>3. \A i \in 1 .. m : i \in 1 .. n /\ cells'[i] = cells[i]
    BY <1>3, <1>4, <2>1, <2>2
  <2>4. FramesIn(cells', m) = FramesIn(cells, m)
    BY <1>1, <1>4, <2>2, <2>3, FramesSame
  <2>5. \A i \in 1 .. m : IsChunk(cells'[i]) /\ media'[i] = {cells'[i]}
    BY <1>5, <2>1, <2>3
  <2>6. \A k \in sizes' : k >= m
    BY <1>0, <1>3, <1>4, <2>2
  <2>7. safe' = FramesIn(cells', m)
    BY <1>0, <2>1, <2>4
  <2> QED BY <1>4, <2>2, <2>5, <2>6, <2>7 DEF Settled
<1>11. Gapless'
  <2> SUFFICES ASSUME powerLosses' <= 1, NEW m \in 0 .. ScanEnd(cells')
               PROVE  FramesIn(cells', m) = FirstFrames(Len(FramesIn(cells', m)))
    BY DEF Gapless
  <2>1. powerLosses = 0
    BY <1>0, <1>1
  <2>2. EndsAt(cells', ScanEnd(cells')) /\ EndsAt(cells, ScanEnd(cells))
    BY <1>1, <1>3, <1>4, ScanEnds
  <2> DEFINE e == ScanEnd(cells')
             f == ScanEnd(cells)
  <2>3. e \in 0 .. n /\ f \in 0 .. Len(cells) /\ m \in Nat /\ m <= e
    BY <1>3, <1>4, <2>2 DEF EndsAt
  <2>4. \A i \in 1 .. m : i <= f /\ cells'[i] = cells[i]
    <3> SUFFICES ASSUME NEW i \in 1 .. m PROVE i <= f /\ cells'[i] = cells[i]
      OBVIOUS
    <3>1. i \in 1 .. e /\ i \in 1 .. n /\ i \in Positions
      BY <1>3, <2>3
    <3>2. IsChunk(cells'[i]) /\ cells'[i] \in media[i]
      BY <1>4, <2>2, <3>1 DEF EndsAt
    <3> QED BY <1>1, <2>1, <3>1, <3>2 DEF DiskInv, Unique
  <2>5. m <= f
    <3>1. CASE m = 0
      BY <1>1, <2>3, <3>1
    <3>2. CASE m > 0
      <4>1. m \in 1 .. m
        BY <2>3, <3>2
      <4> QED BY <2>4, <4>1
    <3> QED BY <2>3, <3>1, <3>2
  <2>6. FramesIn(cells', m) = FramesIn(cells, m)
    <3>1. m <= Len(cells') /\ m <= Len(cells)
      BY <1>1, <1>3, <1>4, <2>3, <2>5
    <3> QED BY <1>1, <1>4, <2>3, <2>4, <3>1, FramesSame
  <2>7. m \in 0 .. ScanEnd(cells)
    BY <1>1, <2>3, <2>5
  <2> QED BY <1>1, <2>1, <2>6, <2>7 DEF DiskInv, Gapless
<1>12. Unique'
  BY <1>0, <1>1 DEF Unique
<1>13. RepairedInv'
  <2> SUFFICES ASSUME repaired PROVE RepairedInv'
    BY <1>0 DEF RepairedInv
  <2>1. /\ FooterLoads(cells) /\ cells[Len(cells) - 1].frames = Len(Readable(cells))
        /\ \A i \in 1 .. Len(cells) : media[i] = {cells[i]}
        /\ sizes = {Len(cells)}
    BY DEF FileInv, RepairedInv
  <2>2. n = Len(cells) /\ \A i \in 1 .. n : cells'[i] = cells[i]
    BY <1>2, <1>4, <2>1
  <2>3. cells' = cells
    BY <1>1, <1>4, <2>2, SeqEqual
  <2> QED BY <1>0, <1>4, <1>5, <2>1, <2>2, <2>3 DEF RepairedInv
<1> QED BY <1>0, <1>7, <1>8, <1>9, <1>10, <1>11, <1>12, <1>13
        DEF FileInv, DiskInv, WriterInv, RepairInv, WriterPC, RepairPC

\* The frames of the file are in order.
LEMMA FileRising ==
    ASSUME cells \in Seq(Cell), Len(cells) <= MaxCells, MediaInv, Ordered
    PROVE  Rising(cells)
<1> SUFFICES ASSUME NEW i \in 1 .. Len(cells), NEW j \in 1 .. Len(cells), i < j,
                    cells[i] \in Frames, cells[j] \in Frames
             PROVE  cells[i].frame < cells[j].frame
  BY DEF Rising
<1>0. Len(cells) \in Nat
  BY LenProperties
<1>1. i \in Positions /\ j \in Positions
  BY <1>0, FileAssumption DEF Positions
<1>2. cells[i] \in media[i] /\ cells[j] \in media[j]
  BY DEF MediaInv
<1> DEFINE k == cells[i].frame
           l == cells[j].frame
<1>3. k \in 1 .. MaxFrames /\ cells[i] = Data(k) /\ l \in 1 .. MaxFrames /\ cells[j] = Data(l)
  BY CellFacts
<1> HIDE DEF k, l
<1>4. k < l
  BY <1>1, <1>2, <1>3 DEF Ordered
<1> QED BY <1>4 DEF k, l

\* Repair finds the logical end, and frames that fit their count.
LEMMA OpensForRepair ==
    ASSUME FileInv, OpenForRepair, ~ReadErrors
    PROVE  FileInv' /\ Readable(cells') = Readable(cells)
<1>0. /\ pc = "stopped" /\ pc' = "truncate" /\ repaired' = FALSE /\ ~FooterLoads(cells)
      /\ UNCHANGED <<file, committed, written, safe, powerLosses>>
  BY DEF OpenForRepair
<1>1. /\ TypeOK /\ DiskInv /\ cells \in Seq(Cell) /\ Len(cells) \in Nat /\ Len(cells) <= MaxCells
      /\ MaxCells \in Nat /\ MaxFrames \in Nat
  BY LenProperties, FileAssumption DEF FileInv, TypeOK
<1>2. ScanEnd(cells) \in 0 .. Len(cells)
  BY <1>1, ScanEnds DEF EndsAt
<1>3. PICK end \in 0 .. ScanEnd(cells) :
         /\ end < ScanEnd(cells) => ReadErrors
         /\ found' = [end |-> end, frames |-> Len(FramesIn(cells, end))]
  BY DEF OpenForRepair
<1>4. end = ScanEnd(cells)
  BY <1>2, <1>3
<1>5. found'.end = ScanEnd(cells) /\ found'.frames = Len(Readable(cells))
  BY <1>3, <1>4 DEF Readable
<1>6. Rising(cells)
  BY <1>1, FileRising DEF DiskInv
<1>7. /\ Len(Readable(cells)) \in Nat /\ Len(Readable(cells)) <= MaxFrames
  <2>1. ScanEnd(cells) \in Nat /\ ScanEnd(cells) <= Len(cells)
    BY <1>1, <1>2
  <2>2. FramesIn(cells, ScanEnd(cells)) \in Seq(Frames)
    BY <1>1, <2>1, FramesType
  <2>3. Len(FramesIn(cells, ScanEnd(cells))) <= MaxFrames
    BY <1>1, <1>6, <2>1, FramesRising
  <2> QED BY <2>2, <2>3, LenProperties DEF Readable
<1>8. Kept
  BY <1>0, <1>1, NothingWritten
<1>9. TypeOK'
  <2>1. found'.end \in 0 .. MaxCells /\ found'.frames \in 0 .. MaxFrames
    BY <1>1, <1>2, <1>5, <1>7
  <2> QED BY <1>0, <1>1, <1>8, <2>1 DEF Kept, FileTypeOK, TypeOK, RepairPC
<1>10. RepairInv'
  BY <1>0, <1>5, <1>8 DEF Kept, RepairInv
<1> QED BY <1>0, <1>8, <1>9, <1>10 DEF FileInv, Kept, WriterInv, RepairedInv, WriterPC

\* The steps of Repair preserve it, and change no frame that is read.
LEMMA Truncates ==
    ASSUME FileInv, RepairTruncate
    PROVE  FileInv' /\ Readable(cells') = Readable(cells)
<1> DEFINE cs == SubSeq(cells, 1, found.end)
<1>0. /\ pc = "truncate" /\ pc' = "footer" /\ SetCells(cs)
      /\ UNCHANGED <<committed, written, found, repaired, safe, powerLosses>>
  BY DEF RepairTruncate
<1>1. /\ TypeOK /\ DiskInv /\ ~repaired /\ found.end = ScanEnd(cells)
      /\ found.frames = Len(Readable(cells))
      /\ cells \in Seq(Cell) /\ Len(cells) \in Nat
  BY <1>0, LenProperties DEF FileInv, TypeOK, RepairInv, RepairPC
<1>2. found.end \in Nat /\ found.end <= Len(cells)
  BY <1>1, ScanEnds DEF EndsAt
<1>3. cs \in Seq(Cell) /\ Len(cs) = found.end /\ \A i \in 1 .. found.end : cs[i] = cells[i]
  BY <1>1, <1>2
<1>4. \A i \in 1 .. Len(cs) : i > ScanEnd(cells) => ~IsChunk(cs[i])
  BY <1>1, <1>2, <1>3
<1>5. cells' = cs
  BY <1>0 DEF SetCells
<1>6. Kept
  <2> HIDE DEF cs
  <2> QED BY <1>0, <1>1, <1>2, <1>3, <1>4, QuietWrite
<1>7. TypeOK'
  BY <1>0, <1>6 DEF Kept, FileTypeOK, FileInv, TypeOK, RepairPC
<1>8. RepairInv'
  BY <1>0, <1>1, <1>3, <1>5, <1>6 DEF Kept, RepairInv
<1> QED BY <1>0, <1>1, <1>6, <1>7, <1>8 DEF FileInv, Kept, WriterInv, RepairedInv, WriterPC

LEMMA WritesFooter ==
    ASSUME FileInv, RepairFooter
    PROVE  FileInv' /\ Readable(cells') = Readable(cells)
<1>0. pc = "footer" /\ UNCHANGED <<committed, written, found, repaired, safe, powerLosses>>
  BY DEF RepairFooter
<1>1. /\ TypeOK /\ DiskInv /\ ~repaired /\ found.end = ScanEnd(cells)
      /\ found.frames = Len(Readable(cells)) /\ Len(cells) = found.end
      /\ found.frames \in 0 .. MaxFrames
  BY <1>0 DEF FileInv, TypeOK, RepairInv, RepairPC
<1>2. CASE WriteFails(found.end) /\ pc' = "stopped"
  <2>1. Kept
    BY <1>0, <1>1, <1>2, FailedWrite
  <2>2. FileInv'
    BY <1>0, <1>1, <1>2, <2>1, Stopped
  <2> QED BY <2>1, <2>2 DEF Kept
<1>3. CASE WriteCell(found.end, Footer(found.frames)) /\ pc' = "repairTrailer"
  <2> DEFINE c == Footer(found.frames)
  <2>1. c \in Cell /\ IsChunk(c) /\ c \notin Frames
    BY <1>1, CellFacts
  <2>2. /\ FileTypeOK' /\ DiskInv' /\ ScanEnd(cells') = found.end + 1
        /\ Readable(cells') = Readable(cells) /\ cells'[found.end + 1] = c
        /\ Len(cells') = found.end + 1
    BY <1>0, <1>1, <1>3, <2>1, ChunkCell
  <2>3. TypeOK'
    BY <1>0, <1>1, <1>3, <2>2 DEF FileTypeOK, TypeOK, RepairPC
  <2>4. RepairInv'
    BY <1>0, <1>1, <1>3, <2>2 DEF RepairInv
  <2> QED BY <1>0, <1>1, <1>3, <2>2, <2>3, <2>4 DEF FileInv, WriterInv, RepairedInv, WriterPC
<1> QED BY <1>2, <1>3 DEF RepairFooter

LEMMA WritesTrailer ==
    ASSUME FileInv, RepairTrailer
    PROVE  FileInv' /\ Readable(cells') = Readable(cells)
<1> DEFINE n == found.end + 1
<1>0. pc = "repairTrailer" /\ UNCHANGED <<committed, written, found, repaired, safe, powerLosses>>
  BY DEF RepairTrailer
<1>1. /\ TypeOK /\ DiskInv /\ ~repaired /\ n = ScanEnd(cells)
      /\ found.frames = Len(Readable(cells)) /\ Len(cells) = n
      /\ cells[n] = Footer(found.frames) /\ found.end \in Nat /\ Len(cells) <= MaxCells
      /\ MaxCells \in Nat
  BY <1>0, FileAssumption DEF FileInv, TypeOK, RepairInv, RepairPC
<1>2. n \in Positions /\ n \in 1 .. n /\ n \in Nat
  BY <1>1 DEF Positions
<1> HIDE DEF n
<1>3. CASE WriteFails(n) /\ pc' = "stopped"
  <2>1. Kept
    BY <1>0, <1>1, <1>3, FailedWrite
  <2>2. FileInv'
    BY <1>0, <1>1, <1>3, <2>1, Stopped
  <2> QED BY <2>1, <2>2 DEF Kept
<1>4. CASE WriteCell(n, Trailer(n)) /\ pc' = "repairSync"
  <2> DEFINE c == Trailer(n)
  <2>1. c \in Cell /\ ~IsChunk(c)
    BY <1>2, CellFacts
  <2>2. /\ Kept /\ cells'[n + 1] = c /\ Len(cells') = n + 1
    BY <1>0, <1>1, <1>4, <2>1, QuietCell
  <2>3. cells'[n] = Footer(found.frames)
    BY <1>1, <1>2, <2>2 DEF Kept
  <2>4. TypeOK'
    BY <1>0, <1>1, <1>4, <2>2 DEF Kept, FileTypeOK, TypeOK, RepairPC
  <2>5. RepairInv'
    <3>1. n + 1 = found.end + 2 /\ n = found.end + 1
      BY <1>1 DEF n
    <3> QED BY <1>0, <1>1, <1>4, <2>2, <2>3, <3>1 DEF Kept, RepairInv
  <2> QED BY <1>0, <1>1, <1>4, <2>2, <2>4, <2>5
          DEF FileInv, Kept, WriterInv, RepairedInv, WriterPC
<1> QED BY <1>3, <1>4 DEF RepairTrailer, n

LEMMA RepairSyncs ==
    ASSUME FileInv, RepairSync
    PROVE  FileInv' /\ Readable(cells') = Readable(cells)
<1>0. /\ pc = "repairSync" /\ pc' = "stopped"
      /\ UNCHANGED <<committed, written, found, powerLosses>>
  BY DEF RepairSync
<1>1. /\ TypeOK /\ DiskInv /\ ~repaired /\ found.end \in Nat
      /\ found.frames = Len(Readable(cells)) /\ Len(cells) = found.end + 2
      /\ cells[found.end + 1] = Footer(found.frames) /\ found.frames \in 0 .. MaxFrames
      /\ cells[found.end + 2] = Trailer(found.end + 1)
      /\ Len(cells) <= MaxCells /\ MaxCells \in Nat
  BY <1>0, FileAssumption DEF FileInv, TypeOK, RepairInv, RepairPC
<1>2. CASE UNCHANGED <<file, safe, repaired>>
  <2>1. Kept
    BY <1>0, <1>1, <1>2, NothingWritten
  <2>2. FileInv'
    BY <1>0, <1>1, <1>2, <2>1, Stopped
  <2> QED BY <2>1, <2>2 DEF Kept
<1>3. CASE Synced /\ repaired' = TRUE
  <2>1. /\ FileTypeOK' /\ DiskInv' /\ cells' = cells /\ safe' \in Seq(Frames)
        /\ \A i \in 1 .. Len(cells) : media'[i] = {cells[i]}
        /\ sizes' = {Len(cells)}
    BY <1>0, <1>1, <1>3, SyncedDisk
  <2>2. TypeOK'
    BY <1>0, <1>1, <1>3, <2>1 DEF FileTypeOK, TypeOK
  <2>3. FooterLoads(cells) /\ cells[Len(cells) - 1].frames = found.frames
    <3>1. found.end + 1 \in Positions
      BY <1>1 DEF Positions
    <3>2. Len(cells) - 1 = found.end + 1 /\ Len(cells) >= 2
      BY <1>1
    <3> QED BY <1>1, <3>1, <3>2, CellFacts DEF FooterLoads
  <2>4. RepairedInv'
    BY <1>0, <1>1, <2>1, <2>3 DEF RepairedInv
  <2> QED BY <1>0, <2>1, <2>2, <2>4 DEF FileInv, WriterInv, RepairInv, WriterPC, RepairPC
<1> QED BY <1>2, <1>3 DEF RepairSync

-----------------------------------------------------------------------------
(* The theorems, for a medium whose reads succeed.                         *)

\* Every step preserves the invariant, when no read fails.
LEMMA FileInvSteps == ASSUME FileInv, [Next]_vars, ~ReadErrors PROVE FileInv'
<1>1. CASE WriteFrame
  BY <1>1, WritesFrame
<1>2. CASE Sync
  BY <1>2, Syncs
<1>3. CASE FinalizeFooter
  BY <1>3, FinalizesFooter
<1>4. CASE FinalizeTrailer
  BY <1>4, FinalizesTrailer
<1>5. CASE FinalizeSync
  BY <1>5, FinalizesSync
<1>6. CASE Stop
  BY <1>6, Stops
<1>7. CASE PowerLoss
  BY <1>7, LosesPower
<1>8. CASE OpenForRepair
  BY <1>8, OpensForRepair
<1>9. CASE RepairTruncate
  BY <1>9, Truncates
<1>10. CASE RepairFooter
  BY <1>10, WritesFooter
<1>11. CASE RepairTrailer
  BY <1>11, WritesTrailer
<1>12. CASE RepairSync
  BY <1>12, RepairSyncs
<1>13. CASE UNCHANGED vars
  BY <1>13 DEF vars, FileInv, TypeOK, DiskInv, MediaInv, Ordered, Settled, Gapless, Unique,
               WriterInv, RepairInv, RepairedInv
<1> QED BY <1>1, <1>2, <1>3, <1>4, <1>5, <1>6, <1>7, <1>8, <1>9, <1>10, <1>11, <1>12, <1>13
        DEF Next, RepairStep

\* The invariant of every file.
LEMMA FileInvHolds == ASSUME ~ReadErrors PROVE Spec => []FileInv
<1>1. Init => FileInv
  BY InitHolds
<1>2. FileInv /\ [Next]_vars => FileInv'
  BY FileInvSteps
<1> QED BY <1>1, <1>2, PTL DEF Spec

\* Types: in particular no write leaves the cells that the bounds allow, and the
\* scan of Repair counts no more frames than were written.
THEOREM FileTypeCorrect == ASSUME ~ReadErrors PROVE Spec => []TypeOK
<1>1. FileInv => TypeOK
  BY DEF FileInv
<1> QED BY <1>1, FileInvHolds, PTL

\* Frames found by a successful Sync stay the beginning of what is read, whatever
\* crashes, power losses and interrupted Repair runs follow; what is read is in
\* order and, until power is lost a second time, without gaps.
THEOREM SyncedFramesSurviveHolds == ASSUME ~ReadErrors PROVE Spec => []SyncedFramesSurvive
<1>1. ASSUME FileInv PROVE SyncedFramesSurvive
  <2> DEFINE n == ScanEnd(cells)
             now == FramesIn(cells, n)
  <2>1. TypeOK /\ DiskInv /\ cells \in Seq(Cell) /\ Len(cells) \in Nat
    BY <1>1, LenProperties DEF FileInv, TypeOK
  <2>2. n \in Nat /\ n <= Len(cells)
    BY <2>1, ScanEnds DEF EndsAt
  <2>3. IsPrefix(safe, now)
    <3>1. PICK m \in 0 .. Len(cells) :
             /\ \A i \in 1 .. m : IsChunk(cells[i]) /\ media[i] = {cells[i]}
             /\ safe = FramesIn(cells, m)
      BY <2>1 DEF DiskInv, Settled
    <3>2. m <= n
      BY <2>1, <3>1, ChunksBelowEnd
    <3> HIDE DEF IsPrefix
    <3> QED BY <2>1, <2>2, <3>1, <3>2, FramesPrefix
  <2>4. Rising(cells)
    BY <2>1, FileRising DEF TypeOK, DiskInv
  <2>5. /\ \A a, b \in 1 .. Len(now) : a < b => now[a].frame < now[b].frame
        /\ DOMAIN now = 1 .. Len(now)
    BY <2>1, <2>2, <2>4, FramesRising, FramesType, LenProperties
  <2>6. powerLosses <= 1 => now = FirstFrames(Len(now))
    <3>1. n \in 0 .. ScanEnd(cells)
      BY <2>2
    <3> QED BY <2>1, <3>1 DEF DiskInv, Gapless
  <2> HIDE DEF now
  <2>7. Readable(cells) = now
    BY DEF Readable, now
  <2> QED BY <2>3, <2>5, <2>6, <2>7 DEF SyncedFramesSurvive
<1> QED BY <1>1, FileInvHolds, PTL

\* Without a power loss every committed frame is read.
THEOREM CommittedFramesReadHolds == ASSUME ~ReadErrors PROVE Spec => []CommittedFramesRead
<1>1. FileInv => CommittedFramesRead
  BY DEF FileInv, DiskInv, Unique, CommittedFramesRead
<1> QED BY <1>1, FileInvHolds, PTL

\* A repaired file opens through its footer ever after.
THEOREM RepairedFileOpens == ASSUME ~ReadErrors PROVE Spec => []RepairedOpensFinalized
<1>1. FileInv => RepairedOpensFinalized
  BY DEF FileInv, RepairedInv, RepairedOpensFinalized
<1> QED BY <1>1, FileInvHolds, PTL

\* No step of Repair changes which frames are read.
THEOREM RepairLosesNothing == ASSUME ~ReadErrors PROVE Spec => RepairKeepsFrames
<1>1. ASSUME FileInv, RepairStep PROVE Readable(cells') = Readable(cells)
  BY <1>1, OpensForRepair, Truncates, WritesFooter, WritesTrailer, RepairSyncs DEF RepairStep
<1>2. FileInv /\ [Next]_vars => [RepairStep => Readable(cells') = Readable(cells)]_vars
  BY <1>1
<1>3. Spec => [][Next]_vars
  BY PTL DEF Spec
<1> QED BY <1>2, <1>3, FileInvHolds, PTL DEF RepairKeepsFrames
=============================================================================
