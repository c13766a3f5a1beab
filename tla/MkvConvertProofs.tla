-------------------------- MODULE MkvConvertProofs --------------------------
(***************************************************************************)
(* Proofs about MkvConvert: what a demuxer reads of a file that the muxer  *)
(* wrote, finished or not, and that the sizes, cues and seek entries of a  *)
(* finished file are right.                                                *)
(***************************************************************************)
EXTENDS MkvConvert, MkvFormatProofs

-----------------------------------------------------------------------------
(* The walk of the demuxer.                                                *)

\* What stands in front of the first cluster, and in one.
HeaderKinds == {"void", "seekhead", "info", "tracks", "tags"}
ChildKinds  == {"timestamp", "simple", "group", "torn"}

\* The EBML header and the header of the segment.
LEMMA ReadEBMLCell ==
    ASSUME NEW d, Shape(d), d.phase = "ebml", d.pos = 0,
           NEW c, c.el = "ebml", c.matroska, NEW N
    PROVE  LET r == ReadCell(d, c, N)
           IN  Shape(r) /\ r.phase = "segment" /\ r.pos = 1 /\ r.packets = d.packets
<1>1. ReadCell(d, c, N) = [Moved(d) EXCEPT !.phase = "segment"]
  BY DEF ReadCell, Moved
<1> QED BY <1>1 DEF Moved, Shape, Demuxer0

\* A segment that is patched, or still of unknown size, ends with the file.
LEMMA ReadSegmentCell ==
    ASSUME NEW d, Shape(d), d.phase = "segment", d.pos = 1, NEW c, c.el = "segment",
           NEW N \in Nat, N >= 2, c.size \in {Unknown, N - 2}
    PROVE  LET r == ReadCell(d, c, N)
           IN  /\ Shape(r) /\ r.phase = "header" /\ r.segEnd = N /\ r.pos = 2
               /\ r.packets = d.packets
<1> DEFINE m == Moved(d)
<1>1. Shape(m) /\ m.pos = 2 /\ m.packets = d.packets
  BY DEF Shape, Demuxer0, Moved
<1>2. ReadCell(d, c, N) =
          [m EXCEPT !.phase = "header",
                    !.segEnd = IF c.size = Unknown THEN N ELSE m.pos + c.size]
  <2>1. c.size = Unknown \/ m.pos + c.size <= N
    BY <1>1
  <2> QED BY <2>1 DEF ReadCell, Moved
<1>3. (IF c.size = Unknown THEN N ELSE m.pos + c.size) = N
  BY <1>1
<1> HIDE DEF m
<1> QED BY <1>1, <1>2, <1>3 DEF Shape, Demuxer0

\* The cells in front of the first cluster leave the packets and the scope alone.
LEMMA ReadHeaderCell ==
    ASSUME NEW d, Shape(d), d.phase = "header", NEW N \in Int, d.segEnd = N,
           d.pos \in Nat, d.pos < N, NEW c, c.el \in HeaderKinds \cup {"cues"}
    PROVE  LET r == ReadCell(d, c, N)
           IN  /\ Shape(r) /\ r.phase = "header" /\ r.segEnd = N
               /\ r.pos = d.pos + 1 /\ r.packets = d.packets
<1>1. ReadCell(d, c, N) = HeaderElement(Moved(d), c)
  BY DEF ReadCell, HeaderKinds, Moved
<1> DEFINE m == Moved(d)
<1>2. Shape(m) /\ m.phase = "header" /\ m.segEnd = N /\ m.pos = d.pos + 1 /\ m.packets = d.packets
  BY DEF Shape, Demuxer0, Moved
<1> HIDE DEF m
<1> DEFINE r == HeaderElement(m, c)
<1>3. /\ Shape(r) /\ r.phase = m.phase /\ r.segEnd = m.segEnd
      /\ r.pos = m.pos /\ r.packets = m.packets
  BY <1>2 DEF Shape, Demuxer0, HeaderElement, WithTags
<1> QED BY <1>1, <1>2, <1>3 DEF m

\* A cell that is cut off, or a master that is neither Segment nor Cluster.
LEMMA ReadTornCell ==
    ASSUME NEW d, Shape(d), d.phase \in {"header", "top", "in"}, NEW N \in Int, d.segEnd = N,
           d.pos \in Nat, d.pos < N, NEW c, c.el = "torn"
    PROVE  LET r == ReadCell(d, c, N)
           IN  Shape(r) /\ r.phase = "error" /\ r.packets = d.packets
<1>1. ReadCell(d, c, N) = [d EXCEPT !.phase = "error"]
  BY DEF ReadCell
<1> QED BY <1>1 DEF Shape, Demuxer0

\* The packets.
PacketSet == [track : Nat, ts : Int, key : BOOLEAN, dur : Nat, data : Seq(Nat)]

\* A cell behind the header, as this muxer writes it: blocks without lacing.
PlainCell(c) ==
    /\ c.el = "torn" => c = Torn
    /\ c.el = "timestamp" => c.ts \in Int
    /\ c.el = "simple" => c.key \in BOOLEAN
    /\ c.el = "group" => c.hasBlock = TRUE /\ c.ref \in BOOLEAN /\ c.dur \in Nat
    /\ IsBlock(c) => /\ c.block.track \in Nat /\ c.block.rel \in Int
                     /\ c.block.lacing = "none" /\ c.block.count = 1
                     /\ c.block.rest \in Seq(Nat)

\* The packet of such a block in a cluster with time ts.
PacketOf(c, ts) ==
    Packet(c.block.track, ts + c.block.rel, IF c.el = "simple" THEN c.key ELSE ~c.ref,
           IF c.el = "simple" THEN 0 ELSE c.dur, c.block.rest)

\* A block without lacing is one packet.
LEMMA UnlacePlain ==
    ASSUME NEW b, b.lacing = "none", b.count = 1, b.rest \in Seq(Nat), b.rel \in Int,
           NEW ts \in Int, NEW step \in Int, NEW key, NEW dur
    PROVE  /\ ~BadLacing(b)
           /\ Unlace(b, ts, step, key, dur) = <<Packet(b.track, ts + b.rel, key, dur, b.rest)>>
<1>1. LeadingSizes(b) = <<>>
  BY DEF LeadingSizes
<1>2. SumTo(<<>>, 0) = 0
  BY SumToZero
<1>3. Len(b.rest) \in Nat /\ SubSeq(b.rest, 1, Len(b.rest)) = b.rest
  BY LenProperties, SubSeqFull
<1>6. ~Alone(b) /\ Swallowed(b) = 0
  BY DEF Alone, Swallowed
<1>4. ~BadLacing(b)
  BY <1>1, <1>2, <1>3, <1>6 DEF BadLacing
<1>5. Unlace(b, ts, step, key, dur) =
          [i \in 1 .. 1 |-> Packet(b.track, ts + b.rel, key, dur, b.rest)]
  <2> SUFFICES ASSUME NEW i \in 1 .. 1
               PROVE  Packet(b.track, ts + b.rel + (i - 1) * step, key, dur,
                             SubSeq(b.rest, Swallowed(b) + SumTo(<<>>, i - 1) + 1,
                                    IF i = b.count THEN Len(b.rest) ELSE SumTo(<<>>, i)))
                      = Packet(b.track, ts + b.rel, key, dur, b.rest)
    BY <1>1 DEF Unlace
  <2>1. i - 1 = 0 /\ ts + b.rel + (i - 1) * step = ts + b.rel
    OBVIOUS
  <2>2. Swallowed(b) + SumTo(<<>>, i - 1) + 1 = 1
    BY <1>2, <1>6, <2>1
  <2>3. (IF i = b.count THEN Len(b.rest) ELSE SumTo(<<>>, i)) = Len(b.rest)
    OBVIOUS
  <2> QED BY <1>3, <2>1, <2>2, <2>3
<1> QED BY <1>4, <1>5

\* The scope and the packets after one more cell.
Content0 == [ts |-> 0, packets |-> <<>>]
Taken(g, c) ==
    [ts      |-> IF c.el = "cluster" THEN 0 ELSE IF c.el = "timestamp" THEN c.ts ELSE g.ts,
     packets |-> IF IsBlock(c) THEN Append(g.packets, PacketOf(c, g.ts)) ELSE g.packets]

\* A cluster begins in the header, or where the last one ends.
LEMMA ReadClusterCell ==
    ASSUME NEW d, Shape(d), NEW N \in Int, d.segEnd = N, d.pos \in Nat, d.pos < N,
           d.phase = "header" \/ (d.phase = "in" /\ d.pos >= d.end),
           NEW c, c.el = "cluster", c.size = Unknown \/ (c.size \in Nat /\ d.pos + 1 + c.size <= N)
    PROVE  LET r == ReadCell(d, c, N)
           IN  /\ Shape(r) /\ r.phase = "in" /\ r.segEnd = N /\ r.pos = d.pos + 1
               /\ r.end = IF c.size = Unknown THEN N ELSE d.pos + 1 + c.size
               /\ r.ts = 0 /\ r.packets = d.packets
<1> DEFINE m == Moved(d)
<1>2. Shape(m) /\ m.segEnd = N /\ m.pos = d.pos + 1 /\ m.packets = d.packets
  BY DEF Shape, Demuxer0, Moved
<1>1. ReadCell(d, c, N) = EnterCluster(m, c, N)
  BY <1>2 DEF ReadCell, Moved
<1> HIDE DEF m
<1> DEFINE r == EnterCluster(m, c, N)
<1>3. /\ Shape(r) /\ r.phase = "in" /\ r.segEnd = N /\ r.pos = m.pos
      /\ r.end = (IF c.size = Unknown THEN N ELSE m.pos + c.size)
      /\ r.ts = 0 /\ r.packets = m.packets
  BY <1>2 DEF Shape, Demuxer0, EnterCluster
<1> QED BY <1>1, <1>2, <1>3

\* The cues stand where the last cluster ends.
LEMMA ReadCuesCell ==
    ASSUME NEW d, Shape(d), NEW N \in Int, d.segEnd = N, d.pos \in Nat, d.pos < N,
           d.phase = "in", d.pos >= d.end, NEW c, c.el = "cues"
    PROVE  LET r == ReadCell(d, c, N)
           IN  Shape(r) /\ r.phase = "top" /\ r.packets = d.packets
<1> DEFINE m == Moved(d)
<1>1. ReadCell(d, c, N) = TopElement(m, c)
  BY DEF ReadCell, Moved
<1> QED BY <1>1 DEF TopElement, Moved, Shape, Demuxer0

\* A child of a cluster is taken into its scope.
LEMMA ReadChildCell ==
    ASSUME NEW d, Shape(d), NEW N \in Int, d.segEnd = N, d.pos \in Nat, d.pos < N,
           d.phase = "in", d.end \in Int, d.pos < d.end,
           NEW c, c.el \in {"timestamp", "simple", "group"}, PlainCell(c),
           d.ts \in Int, d.packets \in Seq(PacketSet),
           NEW u, u.ts = d.ts, u.packets = d.packets
    PROVE  LET r == ReadCell(d, c, N)
               g == Taken(u, c)
           IN  /\ Shape(r) /\ r.phase = "in" /\ r.segEnd = N /\ r.end = d.end
               /\ r.pos = d.pos + 1 /\ r.ts = g.ts /\ r.packets = g.packets
<1> DEFINE m == Moved(d)
           r == ClusterElement(m, c)
           g == Taken(u, c)
<1>1. ReadCell(d, c, N) = r
  BY DEF ReadCell, Moved
<1>2. /\ Shape(m) /\ m.phase = "in" /\ m.segEnd = N /\ m.pos = d.pos + 1 /\ m.packets = d.packets
      /\ m.ts = d.ts /\ m.end = d.end
  BY DEF Shape, Demuxer0, Moved
<1> HIDE DEF m
<1>3. CASE c.el = "timestamp"
  <2>1. r = [m EXCEPT !.ts = c.ts]
    BY <1>3 DEF ClusterElement
  <2>2. g.ts = c.ts /\ g.packets = d.packets
    BY <1>3 DEF Taken, IsBlock
  <2>3. /\ Shape(r) /\ r.phase = "in" /\ r.segEnd = N /\ r.end = d.end
        /\ r.pos = d.pos + 1 /\ r.ts = g.ts /\ r.packets = g.packets
    <3> HIDE DEF r, g
    <3> QED BY <1>2, <2>1, <2>2 DEF Shape, Demuxer0
  <2> QED BY <1>1, <2>3
<1>4. CASE c.el \in {"simple", "group"}
  <2> DEFINE key == IF c.el = "simple" THEN c.key ELSE ~c.ref
             dur == IF c.el = "simple" THEN 0 ELSE c.dur
             p == PacketOf(c, d.ts)
             frames(k, t) ==
                IF BadLacing(c.block) THEN [m EXCEPT !.phase = "error"]
                ELSE [m EXCEPT !.packets = @ \o
                         Unlace(c.block, m.ts,
                            IF c.block.lacing = "none" THEN 0 ELSE DefaultDurTS(m, c.block.track),
                            k, t)]
  <2>1. /\ c.block.lacing = "none" /\ c.block.count = 1 /\ c.block.rest \in Seq(Nat)
        /\ c.block.rel \in Int /\ c.block.track \in Nat /\ IsBlock(c)
        /\ key \in BOOLEAN /\ dur \in Nat
    BY <1>4 DEF PlainCell, IsBlock
  <2>2. p \in PacketSet
    BY <2>1 DEF PacketOf, Packet, PacketSet
  <2>3. p = Packet(c.block.track, m.ts + c.block.rel, key, dur, c.block.rest)
    BY <1>2 DEF PacketOf
  <2>4. /\ ~BadLacing(c.block)
        /\ Unlace(c.block, m.ts, 0, key, dur) = <<p>>
    BY <1>2, <2>1, <2>3, UnlacePlain
  <2>5. r = frames(key, dur)
    <3>1. CASE c.el = "simple"
      BY <3>1 DEF ClusterElement
    <3>2. CASE c.el = "group"
      BY <3>2 DEF ClusterElement, PlainCell
    <3> QED BY <1>4, <3>1, <3>2
  <2>6. r = [m EXCEPT !.packets = @ \o <<p>>]
    <3> HIDE DEF r, p, key, dur
    <3> QED BY <2>1, <2>4, <2>5
  <2>7. m.packets \o <<p>> = Append(d.packets, p)
    BY <1>2, <2>2, AppendIsConcat
  <2>8. g.ts = d.ts /\ g.packets = Append(d.packets, p)
    BY <1>4, <2>1 DEF Taken
  <2>9. /\ Shape(r) /\ r.phase = "in" /\ r.segEnd = N /\ r.end = d.end
        /\ r.pos = d.pos + 1 /\ r.ts = g.ts /\ r.packets = g.packets
    <3> HIDE DEF r, g, p
    <3> QED BY <1>2, <2>6, <2>7, <2>8 DEF Shape, Demuxer0
  <2> QED BY <1>1, <2>9
<1> QED BY <1>3, <1>4

\* The header of a file, up to cell m.
Heading(F, m) ==
    /\ Len(F) \in Nat /\ m \in Nat /\ 2 <= m /\ m <= Len(F)
    /\ F[1] = EBML(TRUE) /\ F[2].el = "segment" /\ F[2].size \in {Unknown, Len(F) - 2}
    /\ \A i \in 3 .. m : F[i].el \in HeaderKinds

\* The last cell in the scope of the cluster at i.
Extent(F, i) == IF F[i].size = Unknown THEN Len(F) ELSE i + F[i].size

\* A scope holds what a cluster may hold, and ends where a cluster may end.
ClusterFits(F, i) ==
    /\ F[i].size \in Nat \cup {Unknown} /\ Extent(F, i) <= Len(F)
    /\ \A j \in i + 1 .. Extent(F, i) : F[j].el \in ChildKinds
    /\ Extent(F, i) < Len(F) => F[Extent(F, i) + 1].el \in {"cluster", "cues", "torn"}

\* A file whose header is its first h cells.
Framed(F, h) ==
    /\ Heading(F, h)
    /\ \A i \in h + 1 .. Len(F) :
          /\ PlainCell(F[i]) /\ F[i].el \in {"cluster", "cues"} \cup ChildKinds
          /\ F[i].el \in {"cues", "torn"} => i = Len(F)
          /\ F[i].el = "cluster" => ClusterFits(F, i)
    /\ h < Len(F) => F[h + 1].el \in {"cluster", "cues", "torn"}

\* The packets of such a file, cell by cell.
Reads(g, F, h) ==
    /\ g[h] = Content0
    /\ \A k \in h + 1 .. Len(F) : g[k] = Taken(g[k - 1], F[k])

\* The walk over the header.
LEMMA WalkHeading ==
    ASSUME NEW F, NEW m, Heading(F, m), NEW w \in Nat, m <= w, NEW f, Walks(f, F, w)
    PROVE  \A n \in 2 .. m :
              /\ Shape(f[n]) /\ f[n].phase = "header" /\ f[n].segEnd = Len(F)
              /\ f[n].pos = n /\ f[n].packets = <<>>
<1> DEFINE N == Len(F)
           Walked(n) == /\ Shape(f[n]) /\ f[n].phase = "header" /\ f[n].segEnd = N
                        /\ f[n].pos = n /\ f[n].packets = <<>>
           Good == {n \in Nat : n + 2 <= m => Walked(n + 2)}
<1>1. N \in Nat /\ m \in Nat /\ 2 <= m /\ m <= N
  BY DEF Heading
<1>2. /\ f[0] = Demuxer0 /\ f[1] = ReadCell(f[0], F[1], N) /\ f[2] = ReadCell(f[1], F[2], N)
  <2>1. 1 \in 1 .. w /\ 2 \in 1 .. w /\ 1 - 1 = 0 /\ 2 - 1 = 1
    BY <1>1
  <2> QED BY <2>1 DEF Walks
<1>3. /\ Shape(f[1]) /\ f[1].phase = "segment" /\ f[1].pos = 1 /\ f[1].packets = <<>>
  <2>1. F[1].el = "ebml" /\ F[1].matroska
    BY DEF Heading, EBML
  <2>2. /\ Shape(Demuxer0) /\ Demuxer0.phase = "ebml" /\ Demuxer0.pos = 0
        /\ Demuxer0.packets = <<>>
    BY DEF Demuxer0, Shape
  <2> QED BY <1>2, <2>1, <2>2, ReadEBMLCell
<1>4. Walked(2)
  <2>1. F[2].el = "segment" /\ F[2].size \in {Unknown, N - 2}
    BY DEF Heading
  <2> QED BY <1>1, <1>2, <1>3, <2>1, ReadSegmentCell
<1>5. 0 \in Good
  BY <1>4
<1>6. ASSUME NEW n \in Nat, n \in Good PROVE n + 1 \in Good
  <2> SUFFICES ASSUME n + 3 <= m PROVE Walked(n + 3)
    OBVIOUS
  <2> DEFINE k == n + 2
  <2>1. Walked(k) /\ k \in Nat /\ k < N /\ k + 1 \in 1 .. w /\ (k + 1) - 1 = k
    BY <1>1, <1>6
  <2>2. F[k + 1].el \in HeaderKinds \cup {"cues"}
    BY <1>1 DEF Heading
  <2>3. f[k + 1] = ReadCell(f[k], F[k + 1], N)
    BY <2>1 DEF Walks
  <2> HIDE DEF k
  <2>4. Walked(k + 1)
    BY <1>1, <2>1, <2>2, <2>3, ReadHeaderCell
  <2> QED BY <2>4 DEF k
<1>7. \A n \in Nat : n \in Good
  <2> HIDE DEF Good
  <2> QED BY <1>5, <1>6, NatSetInduction
<1>8. ASSUME NEW n \in 2 .. m PROVE Walked(n)
  <2>1. n - 2 \in Nat /\ (n - 2) + 2 = n
    BY <1>1
  <2>2. n - 2 \in Good
    BY <1>7, <2>1
  <2> HIDE DEF Walked
  <2> QED BY <2>1, <2>2
<1> QED BY <1>8

\* What is taken from a file has its type.
LEMMA ReadsType ==
    ASSUME NEW F, NEW h, Framed(F, h), NEW g, Reads(g, F, h)
    PROVE  \A n \in h .. Len(F) : g[n].ts \in Int /\ g[n].packets \in Seq(PacketSet)
<1> DEFINE N == Len(F)
           Typed(n) == g[n].ts \in Int /\ g[n].packets \in Seq(PacketSet)
           Good == {n \in Nat : n + h <= N => Typed(n + h)}
<1>1. N \in Nat /\ h \in Nat
  BY DEF Framed, Heading
<1>2. 0 \in Good
  <2>1. g[h] = Content0
    BY DEF Reads
  <2>2. 0 + h = h
    BY <1>1
  <2>3. Content0.ts = 0 /\ Content0.packets = <<>> /\ <<>> \in Seq(PacketSet)
    BY DEF Content0
  <2>4. Typed(h)
    BY <2>1, <2>3
  <2> HIDE DEF Typed
  <2> QED BY <2>2, <2>4
<1>3. ASSUME NEW n \in Nat, n \in Good PROVE n + 1 \in Good
  <2> SUFFICES ASSUME n + 1 + h <= N PROVE Typed(n + 1 + h)
    OBVIOUS
  <2> DEFINE k == n + h
  <2>1. k \in Nat /\ k + 1 = n + 1 + h /\ Typed(k) /\ k + 1 \in h + 1 .. N /\ (k + 1) - 1 = k
    BY <1>1, <1>3
  <2>2. g[k + 1] = Taken(g[k], F[k + 1]) /\ PlainCell(F[k + 1])
    BY <2>1 DEF Reads, Framed
  <2> HIDE DEF k
  <2> DEFINE c == F[k + 1]
             u == g[k]
  <2>3. u.ts \in Int /\ u.packets \in Seq(PacketSet)
    BY <2>1
  <2>4. g[k + 1] = Taken(u, c) /\ PlainCell(c)
    BY <2>2
  <2> HIDE DEF c, u
  <2>5. ASSUME IsBlock(c) PROVE PacketOf(c, u.ts) \in PacketSet
    <3>1. /\ c.block.track \in Nat /\ u.ts + c.block.rel \in Int /\ c.block.rest \in Seq(Nat)
      BY <2>3, <2>4, <2>5 DEF PlainCell
    <3>2. CASE c.el = "simple"
      BY <2>4, <3>1, <3>2 DEF PlainCell, PacketOf, Packet, PacketSet
    <3>3. CASE c.el = "group"
      BY <2>4, <3>1, <3>3 DEF PlainCell, PacketOf, Packet, PacketSet
    <3> QED BY <2>5, <3>2, <3>3 DEF IsBlock
  <2>6. IsBlock(c) => Append(u.packets, PacketOf(c, u.ts)) \in Seq(PacketSet)
    BY <2>3, <2>5, AppendProperties
  <2>7. Typed(k + 1)
    BY <2>3, <2>4, <2>6 DEF Taken, PlainCell
  <2> QED BY <2>1, <2>7
<1>4. \A n \in Nat : n \in Good
  <2> HIDE DEF Good
  <2> QED BY <1>2, <1>3, NatSetInduction
<1>5. ASSUME NEW n \in h .. N PROVE Typed(n)
  <2>1. n - h \in Nat /\ (n - h) + h = n
    BY <1>1
  <2>2. n - h \in Good
    BY <1>4, <2>1
  <2> HIDE DEF Typed
  <2> QED BY <2>1, <2>2
<1> QED BY <1>5

\* Where the demuxer is in a file after n cells.
InFront(d, F, h, n) ==
    n = h /\ d.phase = "header" /\ d.pos = n /\ d.segEnd = Len(F)
InScope(d, F, h, n, ts) ==
    \E i \in h + 1 .. n :
        /\ F[i].el = "cluster" /\ n <= Extent(F, i) /\ F[n].el # "torn"
        /\ d.phase = "in" /\ d.pos = n /\ d.segEnd = Len(F) /\ d.end = Extent(F, i) /\ d.ts = ts
Beyond(d, F, h, n) ==
    /\ n = Len(F) /\ n > h
    /\ \/ F[n].el = "cues" /\ d.phase \in {"header", "top"}
       \/ F[n].el = "torn" /\ d.phase = "error"

Walked(d, F, h, n, u) ==
    /\ Shape(d) /\ d.packets = u.packets
    /\ InFront(d, F, h, n) \/ InScope(d, F, h, n, u.ts) \/ Beyond(d, F, h, n)

\* One more cell behind the header.
LEMMA WalkBody ==
    ASSUME NEW F, NEW h, Framed(F, h), NEW n \in h .. Len(F) - 1, NEW d, NEW u,
           Walked(d, F, h, n, u), u.ts \in Int, u.packets \in Seq(PacketSet)
    PROVE  Walked(ReadCell(d, F[n + 1], Len(F)), F, h, n + 1, Taken(u, F[n + 1]))
<1> DEFINE N == Len(F)
           c == F[n + 1]
           r == ReadCell(d, c, N)
           t == Taken(u, c)
<1>1. /\ N \in Nat /\ h \in Nat /\ n \in Nat /\ n + 1 \in h + 1 .. N /\ n < N
      /\ n + 1 \in h + 1 .. n + 1
  BY DEF Framed, Heading
<1>2. /\ PlainCell(c) /\ c.el \in {"cluster", "cues"} \cup ChildKinds
      /\ c.el \in {"cues", "torn"} => n + 1 = N
      /\ c.el = "cluster" => ClusterFits(F, n + 1)
  BY <1>1 DEF Framed
<1>3. c.el \in {"cluster", "cues", "torn"} => t.packets = u.packets
  BY DEF Taken, IsBlock
<1>4. Shape(d) /\ d.packets = u.packets
  BY DEF Walked
<1>5. ASSUME d.phase = "header" \/ (d.phase = "in" /\ d.pos >= d.end),
             d.pos = n, d.segEnd = N, c.el \in {"cluster", "cues", "torn"}
      PROVE  Walked(r, F, h, n + 1, t)
  <2>1. CASE c.el = "cluster"
    <3>1. c.size = Unknown \/ (c.size \in Nat /\ n + 1 + c.size <= N)
      BY <1>1, <1>2, <2>1 DEF ClusterFits, Extent
    <3>2. /\ Shape(r) /\ r.phase = "in" /\ r.segEnd = N /\ r.pos = n + 1
          /\ r.end = Extent(F, n + 1) /\ r.ts = 0 /\ r.packets = d.packets
      BY <1>1, <1>4, <1>5, <2>1, <3>1, ReadClusterCell DEF Extent
    <3>3. t.ts = 0 /\ n + 1 <= Extent(F, n + 1)
      BY <1>1, <2>1, <3>1 DEF Taken, Extent, Unknown
    <3>4. InScope(r, F, h, n + 1, t.ts)
      BY <1>1, <2>1, <3>2, <3>3 DEF InScope
    <3> QED BY <1>3, <1>4, <2>1, <3>2, <3>4 DEF Walked
  <2>2. CASE c.el = "cues"
    <3>1. Shape(r) /\ r.phase \in {"header", "top"} /\ r.packets = d.packets
      BY <1>1, <1>4, <1>5, <2>2, ReadHeaderCell, ReadCuesCell
    <3>2. Beyond(r, F, h, n + 1)
      BY <1>1, <1>2, <2>2, <3>1 DEF Beyond
    <3> QED BY <1>3, <1>4, <2>2, <3>1, <3>2 DEF Walked
  <2>3. CASE c.el = "torn"
    <3>1. Shape(r) /\ r.phase = "error" /\ r.packets = d.packets
      BY <1>1, <1>4, <1>5, <2>3, ReadTornCell
    <3>2. Beyond(r, F, h, n + 1)
      BY <1>1, <1>2, <2>3, <3>1 DEF Beyond
    <3> QED BY <1>3, <1>4, <2>3, <3>1, <3>2 DEF Walked
  <2> QED BY <1>5, <2>1, <2>2, <2>3
<1>6. CASE InFront(d, F, h, n)
  <2>1. c.el \in {"cluster", "cues", "torn"}
    BY <1>1, <1>6 DEF InFront, Framed
  <2> QED BY <1>5, <1>6, <2>1 DEF InFront
<1>7. CASE InScope(d, F, h, n, u.ts)
  <2>1. PICK i \in h + 1 .. n :
            /\ F[i].el = "cluster" /\ n <= Extent(F, i)
            /\ d.phase = "in" /\ d.pos = n /\ d.segEnd = N /\ d.end = Extent(F, i)
            /\ d.ts = u.ts
    BY <1>7 DEF InScope
  <2>2. ClusterFits(F, i) /\ i \in Nat
    BY <1>1, <2>1 DEF Framed
  <2>3. Extent(F, i) \in Int
    BY <1>1, <2>2 DEF ClusterFits, Extent
  <2>4. CASE n = Extent(F, i)
    <3>1. c.el \in {"cluster", "cues", "torn"}
      BY <1>1, <2>2, <2>4 DEF ClusterFits
    <3> QED BY <1>5, <2>1, <2>3, <2>4, <3>1
  <2>5. CASE n < Extent(F, i)
    <3>1. n + 1 \in i + 1 .. Extent(F, i)
      BY <1>1, <2>3, <2>5
    <3>2. c.el \in ChildKinds
      BY <2>2, <3>1 DEF ClusterFits
    <3>3. CASE c.el = "torn"
      <4>1. Shape(r) /\ r.phase = "error" /\ r.packets = d.packets
        BY <1>1, <1>4, <2>1, <3>3, ReadTornCell
      <4>2. Beyond(r, F, h, n + 1)
        BY <1>1, <1>2, <3>3, <4>1 DEF Beyond
      <4> QED BY <1>3, <1>4, <3>3, <4>1, <4>2 DEF Walked
    <3>4. CASE c.el # "torn"
      <4>1. c.el \in {"timestamp", "simple", "group"}
        BY <3>2, <3>4 DEF ChildKinds
      <4>2. /\ N \in Int /\ d.segEnd = N /\ d.pos \in Nat /\ d.pos < N /\ d.pos + 1 = n + 1
            /\ d.phase = "in" /\ d.end \in Int /\ d.pos < d.end
            /\ u.ts = d.ts /\ u.packets = d.packets
            /\ d.ts \in Int /\ d.packets \in Seq(PacketSet)
        BY <1>1, <1>4, <2>1, <2>3, <2>5
      <4>3. /\ Shape(r) /\ r.phase = "in" /\ r.segEnd = N /\ r.end = d.end
            /\ r.pos = n + 1 /\ r.ts = t.ts /\ r.packets = t.packets
        <5> HIDE DEF c
        <5> QED BY <1>2, <1>4, <4>1, <4>2, ReadChildCell, SMTT(30)
      <4>4. i \in h + 1 .. n + 1 /\ n + 1 <= Extent(F, i)
        BY <1>1, <2>3, <2>5
      <4>5. InScope(r, F, h, n + 1, t.ts)
        BY <2>1, <3>4, <4>3, <4>4 DEF InScope
      <4> QED BY <4>3, <4>5 DEF Walked
    <3> QED BY <3>3, <3>4
  <2> QED BY <1>1, <2>1, <2>3, <2>4, <2>5
<1>8. ~Beyond(d, F, h, n)
  BY <1>1 DEF Beyond
<1> QED BY <1>6, <1>7, <1>8 DEF Walked

\* A demuxer gets the packets of the whole file, and an error at a torn cell.
LEMMA FramedRead ==
    ASSUME NEW F, NEW h, Framed(F, h), NEW g, Reads(g, F, h)
    PROVE  /\ Demux(F).packets = g[Len(F)].packets
           /\ Demux(F).phase = "error" <=> \E k \in h + 1 .. Len(F) : F[k].el = "torn"
<1> DEFINE N == Len(F)
<1>1. N \in Nat /\ h \in Nat /\ 2 <= h /\ h <= N /\ Heading(F, h)
  BY DEF Framed, Heading
<1>2. PICK f : Walks(f, F, N) /\ Walk(F, N) = f[N]
  BY <1>1, WalkRecursion
<1> DEFINE Good == {n \in Nat : n + h <= N => Walked(f[n + h], F, h, n + h, g[n + h])}
<1>3. 0 \in Good
  <2>1. 0 + h = h /\ h \in 2 .. h
    BY <1>1
  <2>2. /\ Shape(f[h]) /\ f[h].phase = "header" /\ f[h].segEnd = N
        /\ f[h].pos = h /\ f[h].packets = <<>>
    BY <1>1, <1>2, <2>1, WalkHeading
  <2>3. g[h].packets = <<>>
    BY DEF Reads, Content0
  <2> QED BY <2>1, <2>2, <2>3 DEF Walked, InFront
<1>4. ASSUME NEW n \in Nat, n \in Good PROVE n + 1 \in Good
  <2> SUFFICES ASSUME n + 1 + h <= N
               PROVE  Walked(f[n + 1 + h], F, h, n + 1 + h, g[n + 1 + h])
    OBVIOUS
  <2> DEFINE k == n + h
  <2>1. /\ k \in h .. N - 1 /\ k + 1 = n + 1 + h /\ k + 1 \in h + 1 .. N /\ k + 1 \in 1 .. N
        /\ (k + 1) - 1 = k /\ k \in h .. N
    BY <1>1
  <2>2. Walked(f[k], F, h, k, g[k])
    BY <1>4, <2>1
  <2>3. f[k + 1] = ReadCell(f[k], F[k + 1], N) /\ g[k + 1] = Taken(g[k], F[k + 1])
    BY <1>2, <2>1 DEF Walks, Reads
  <2>4. g[k].ts \in Int /\ g[k].packets \in Seq(PacketSet)
    BY <2>1, ReadsType
  <2> HIDE DEF k
  <2>5. Walked(f[k + 1], F, h, k + 1, g[k + 1])
    BY <2>1, <2>2, <2>3, <2>4, WalkBody
  <2> QED BY <2>1, <2>5
<1>5. Walked(f[N], F, h, N, g[N])
  <2>1. N - h \in Nat /\ (N - h) + h = N
    BY <1>1
  <2>2. N - h \in Good
    <3> HIDE DEF Good
    <3> QED BY <1>3, <1>4, <2>1, NatSetInduction
  <2> QED BY <2>1, <2>2
<1> DEFINE d == f[N]
<1>6. Demux(F) = AtEnd(d)
  BY <1>2 DEF Demux
<1>7. Shape(d) /\ d.packets = g[N].packets
  BY <1>5 DEF Walked
<1>8. /\ d.phase \in {"header", "top", "in", "error"}
      /\ d.phase = "error" <=> N > h /\ F[N].el = "torn"
  <2>1. CASE InFront(d, F, h, N)
    BY <2>1, <1>1 DEF InFront
  <2>2. CASE InScope(d, F, h, N, g[N].ts)
    BY <2>2, <1>1 DEF InScope
  <2>3. CASE Beyond(d, F, h, N)
    BY <2>3, <1>1 DEF Beyond
  <2> QED BY <1>5, <2>1, <2>2, <2>3 DEF Walked
<1> HIDE DEF d
<1>9. /\ AtEnd(d).packets = d.packets
      /\ AtEnd(d).phase = "error" <=> d.phase = "error"
  BY <1>7, <1>8 DEF AtEnd, Shape, Demuxer0
<1>10. (N > h /\ F[N].el = "torn") <=> \E k \in h + 1 .. N : F[k].el = "torn"
  <2>1. ASSUME NEW k \in h + 1 .. N, F[k].el = "torn" PROVE k = N
    BY <2>1 DEF Framed
  <2> QED BY <1>1, <2>1
<1> QED BY <1>6, <1>7, <1>8, <1>9, <1>10

\* The other cells the muxer writes.
LEMMA OtherCells ==
    /\ \A n : PlainCell(Cluster(n)) /\ Cluster(n).el = "cluster" /\ Cluster(n).size = n
    /\ \A t \in Int : PlainCell(Timestamp(t)) /\ Timestamp(t).el = "timestamp" /\ Timestamp(t).ts = t
    /\ \A ps : PlainCell(Cues(ps)) /\ Cues(ps).el = "cues" /\ Cues(ps).points = ps
    /\ PlainCell(Torn) /\ Torn.el = "torn"
<1>1. \A n : PlainCell(Cluster(n)) /\ Cluster(n).el = "cluster" /\ Cluster(n).size = n
  BY DEF PlainCell, Cluster, IsBlock
<1>2. \A t \in Int : PlainCell(Timestamp(t)) /\ Timestamp(t).el = "timestamp" /\ Timestamp(t).ts = t
  BY DEF PlainCell, Timestamp, IsBlock
<1>3. \A ps : PlainCell(Cues(ps)) /\ Cues(ps).el = "cues" /\ Cues(ps).points = ps
  BY DEF PlainCell, Cues, IsBlock
<1>4. PlainCell(Torn) /\ Torn.el = "torn"
  BY DEF PlainCell, Torn, IsBlock
<1> QED BY <1>1, <1>2, <1>3, <1>4

-----------------------------------------------------------------------------
(* What the writes of the muxer do to such a file.                         *)

\* The segment is not closed yet and nothing stands behind its clusters; the
\* cluster at o, if any, is the only one of unknown size.
Growing(F, h, o) ==
    /\ Framed(F, h) /\ F[2].size = Unknown
    /\ \A i \in h + 1 .. Len(F) :
          /\ F[i].el \notin {"cues", "torn"}
          /\ F[i].el = "cluster" => (F[i].size = Unknown <=> i = o)

\* The clusters of known size end before the one that is still open.
LEMMA ClosedBeforeOpen ==
    ASSUME NEW F, NEW h, NEW o, Growing(F, h, o), o \in h + 1 .. Len(F), F[o].el = "cluster",
           NEW i \in h + 1 .. Len(F), F[i].el = "cluster", i # o
    PROVE  F[i].size \in Nat /\ Extent(F, i) = i + F[i].size /\ Extent(F, i) < o
<1>1. /\ Len(F) \in Nat /\ h \in Nat /\ ClusterFits(F, i) /\ ClusterFits(F, o)
      /\ F[i].size # Unknown /\ F[o].size = Unknown
  BY DEF Growing, Framed, Heading
<1>2. F[i].size \in Nat /\ Extent(F, i) = i + F[i].size
  BY <1>1 DEF ClusterFits, Extent
<1>3. "cluster" \notin ChildKinds
  BY DEF ChildKinds
<1>4. i < o
  <2>1. ASSUME i > o PROVE FALSE
    <3>1. i \in o + 1 .. Extent(F, o)
      BY <1>1, <2>1 DEF Extent
    <3> QED BY <1>1, <1>3, <3>1 DEF ClusterFits
  <2> QED BY <1>1, <2>1
<1>5. ASSUME Extent(F, i) >= o PROVE FALSE
  <2>1. o \in i + 1 .. Extent(F, i)
    BY <1>1, <1>2, <1>4, <1>5
  <2> QED BY <1>1, <1>3, <2>1 DEF ClusterFits
<1> QED BY <1>1, <1>2, <1>5

\* The header stays a header.
LEMMA HeadingGrows ==
    ASSUME NEW F, NEW h, Heading(F, h), F[2].size = Unknown, NEW H, NEW c, Extended(H, F, c)
    PROVE  Heading(H, h) /\ H[2].size = Unknown
<1>1. Len(F) \in Nat /\ h \in Nat /\ 2 <= h /\ h <= Len(F)
  BY DEF Heading
<1>2. 1 \in 1 .. Len(F) /\ 2 \in 1 .. Len(F) /\ \A i \in 3 .. h : i \in 1 .. Len(F)
  BY <1>1
<1>3. H[1] = F[1] /\ H[2] = F[2] /\ \A i \in 3 .. h : H[i] = F[i]
  BY <1>2 DEF Extended
<1>4. Len(H) \in Nat /\ h <= Len(H)
  BY <1>1 DEF Extended
<1> QED BY <1>1, <1>3, <1>4 DEF Heading

\* A cell between clusters.
LEMMA GrowsAtTop ==
    ASSUME NEW F, NEW h, Growing(F, h, 0), NEW H, NEW c, Extended(H, F, c), PlainCell(c),
           \/ c.el \in {"cues", "torn"}
           \/ c.el = "cluster" /\ c.size = Unknown
    PROVE  Framed(H, h)
<1> DEFINE n == Len(F)
<1>1. n \in Nat /\ h \in Nat /\ 2 <= h /\ h <= n /\ Heading(F, h) /\ F[2].size = Unknown
  BY DEF Growing, Framed, Heading
<1>2. Len(H) = n + 1 /\ H[n + 1] = c /\ \A i \in 1 .. n : H[i] = F[i]
  BY DEF Extended
<1>3. Heading(H, h)
  BY <1>1, HeadingGrows
<1>4. ASSUME NEW i \in h + 1 .. n, F[i].el = "cluster" PROVE ClusterFits(H, i)
  <2>1. ClusterFits(F, i) /\ F[i].size # Unknown /\ i \in 1 .. n /\ H[i] = F[i]
    BY <1>1, <1>2, <1>4 DEF Growing, Framed
  <2>2. F[i].size \in Nat /\ Extent(F, i) = i + F[i].size /\ Extent(H, i) = Extent(F, i)
    BY <2>1 DEF ClusterFits, Extent
  <2>3. Extent(F, i) <= n /\ Extent(F, i) \in Nat
    BY <1>1, <2>1, <2>2 DEF ClusterFits
  <2>4. \A j \in i + 1 .. Extent(F, i) : H[j].el \in ChildKinds
    <3> SUFFICES ASSUME NEW j \in i + 1 .. Extent(F, i) PROVE H[j].el \in ChildKinds
      OBVIOUS
    <3>1. j \in 1 .. n
      BY <1>1, <2>1, <2>3
    <3> QED BY <1>2, <2>1, <3>1 DEF ClusterFits
  <2>5. H[Extent(F, i) + 1].el \in {"cluster", "cues", "torn"}
    <3>1. CASE Extent(F, i) = n
      BY <1>2, <3>1
    <3>2. CASE Extent(F, i) < n
      <4>1. Extent(F, i) + 1 \in 1 .. n
        BY <1>1, <2>3, <3>2
      <4> QED BY <1>2, <2>1, <3>2, <4>1 DEF ClusterFits
    <3> QED BY <1>1, <2>3, <3>1, <3>2
  <2>6. Extent(F, i) <= Len(H) /\ H[i].size \in Nat
    BY <1>1, <1>2, <2>1, <2>2, <2>3
  <2> QED BY <2>2, <2>4, <2>5, <2>6 DEF ClusterFits
<1>5. ASSUME c.el = "cluster" PROVE ClusterFits(H, n + 1)
  <2>1. H[n + 1].size = Unknown /\ Extent(H, n + 1) = n + 1
    BY <1>2, <1>5 DEF Extent
  <2> QED BY <1>1, <1>2, <2>1 DEF ClusterFits
<1>6. ASSUME NEW i \in h + 1 .. n + 1
      PROVE  /\ PlainCell(H[i]) /\ H[i].el \in {"cluster", "cues"} \cup ChildKinds
             /\ H[i].el \in {"cues", "torn"} => i = n + 1
             /\ H[i].el = "cluster" => ClusterFits(H, i)
  <2>1. CASE i = n + 1
    BY <1>2, <1>5, <2>1 DEF ChildKinds
  <2>2. CASE i # n + 1
    <3>1. i \in h + 1 .. n /\ i \in 1 .. n
      BY <1>1, <2>2
    <3>2. H[i] = F[i] /\ PlainCell(F[i]) /\ F[i].el \in {"cluster", "cues"} \cup ChildKinds
          /\ F[i].el \notin {"cues", "torn"}
      BY <1>2, <3>1 DEF Growing, Framed
    <3> QED BY <1>4, <3>1, <3>2
  <2> QED BY <2>1, <2>2
<1>7. H[h + 1].el \in {"cluster", "cues", "torn"}
  <2>1. CASE h = n
    BY <1>2, <2>1
  <2>2. CASE h < n
    <3>1. h + 1 \in 1 .. n
      BY <1>1, <2>2
    <3> QED BY <1>2, <2>2, <3>1 DEF Growing, Framed
  <2> QED BY <1>1, <2>1, <2>2
<1> QED BY <1>2, <1>3, <1>6, <1>7 DEF Framed

\* A child of the open cluster.
LEMMA GrowsInside ==
    ASSUME NEW F, NEW h, NEW o, Growing(F, h, o), o \in h + 1 .. Len(F), F[o].el = "cluster",
           NEW H, NEW c, Extended(H, F, c), PlainCell(c), c.el \in ChildKinds
    PROVE  Framed(H, h)
<1> DEFINE n == Len(F)
<1>1. n \in Nat /\ h \in Nat /\ 2 <= h /\ h <= n /\ Heading(F, h) /\ F[2].size = Unknown
  BY DEF Growing, Framed, Heading
<1>2. Len(H) = n + 1 /\ H[n + 1] = c /\ \A i \in 1 .. n : H[i] = F[i]
  BY DEF Extended
<1>3. Heading(H, h)
  BY <1>1, HeadingGrows
<1>4. ASSUME NEW i \in h + 1 .. n, F[i].el = "cluster" PROVE ClusterFits(H, i)
  <2>1. ClusterFits(F, i) /\ i \in 1 .. n /\ H[i] = F[i]
    BY <1>1, <1>2, <1>4 DEF Growing, Framed
  <2>2. CASE i = o
    <3>1. F[i].size = Unknown /\ Extent(F, i) = n /\ Extent(H, i) = n + 1
      BY <1>2, <2>1, <2>2 DEF Growing, Extent
    <3>2. ASSUME NEW j \in i + 1 .. n + 1 PROVE H[j].el \in ChildKinds
      <4>1. CASE j = n + 1
        BY <1>2, <4>1
      <4>2. CASE j # n + 1
        <5>1. n \in Nat /\ i \in 1 .. n
          BY <1>1, <2>1
        <5> HIDE DEF n
        <5>2. j \in i + 1 .. n /\ j \in 1 .. n
          <6>1. i \in Nat /\ j \in Nat /\ i + 1 <= j /\ j <= n + 1 /\ 1 <= i
            BY <5>1
          <6> QED BY <4>2, <5>1, <6>1
        <5>3. H[j] = F[j] /\ j \in i + 1 .. Extent(F, i)
          BY <1>2, <3>1, <5>2
        <5>4. F[j].el \in ChildKinds
          BY <2>1, <5>3 DEF ClusterFits
        <5> QED BY <5>3, <5>4
      <4> QED BY <4>1, <4>2
    <3> QED BY <1>1, <1>2, <2>1, <3>1, <3>2 DEF ClusterFits
  <2>3. CASE i # o
    <3>1. F[i].size \in Nat /\ Extent(F, i) = i + F[i].size /\ Extent(F, i) < o
      BY <1>4, <2>3, ClosedBeforeOpen
    <3>2. Extent(H, i) = Extent(F, i) /\ Extent(F, i) \in Nat /\ Extent(F, i) < n
      BY <1>1, <2>1, <3>1 DEF Extent, Unknown
    <3>3. \A j \in i + 1 .. Extent(F, i) : H[j].el \in ChildKinds
      <4> SUFFICES ASSUME NEW j \in i + 1 .. Extent(F, i) PROVE H[j].el \in ChildKinds
        OBVIOUS
      <4>1. j \in 1 .. n
        BY <1>1, <2>1, <3>2
      <4> QED BY <1>2, <2>1, <4>1 DEF ClusterFits
    <3>4. H[Extent(F, i) + 1].el \in {"cluster", "cues", "torn"}
      <4>1. Extent(F, i) + 1 \in 1 .. n
        BY <1>1, <3>2
      <4> QED BY <1>2, <2>1, <3>2, <4>1 DEF ClusterFits
    <3> QED BY <1>1, <1>2, <2>1, <3>1, <3>2, <3>3, <3>4 DEF ClusterFits
  <2> QED BY <2>2, <2>3
<1>5. ASSUME NEW i \in h + 1 .. n + 1
      PROVE  /\ PlainCell(H[i]) /\ H[i].el \in {"cluster", "cues"} \cup ChildKinds
             /\ H[i].el \in {"cues", "torn"} => i = n + 1
             /\ H[i].el = "cluster" => ClusterFits(H, i)
  <2>1. CASE i = n + 1
    <3>1. c.el # "cluster"
      BY DEF ChildKinds
    <3> QED BY <1>2, <2>1, <3>1
  <2>2. CASE i # n + 1
    <3>1. i \in h + 1 .. n /\ i \in 1 .. n
      BY <1>1, <2>2
    <3>2. H[i] = F[i] /\ PlainCell(F[i]) /\ F[i].el \in {"cluster", "cues"} \cup ChildKinds
          /\ F[i].el \notin {"cues", "torn"}
      BY <1>2, <3>1 DEF Growing, Framed
    <3> QED BY <1>4, <3>1, <3>2
  <2> QED BY <2>1, <2>2
<1>6. H[h + 1].el \in {"cluster", "cues", "torn"}
  <2>1. h < n /\ h + 1 \in 1 .. n
    BY <1>1
  <2> QED BY <1>2, <2>1 DEF Growing, Framed
<1> QED BY <1>2, <1>3, <1>5, <1>6 DEF Framed

\* A patch that moves the end of no scope.
LEMMA FramedPatch ==
    ASSUME NEW F, NEW h, Framed(F, h), NEW H, Len(H) = Len(F), Heading(H, h),
           \A i \in h + 1 .. Len(F) :
              /\ PlainCell(H[i]) /\ H[i].el = F[i].el
              /\ F[i].el = "cluster" => /\ H[i].size \in Nat \cup {Unknown}
                                        /\ Extent(H, i) = Extent(F, i)
    PROVE  Framed(H, h)
<1> DEFINE n == Len(F)
<1>1. n \in Nat /\ h \in Nat
  BY DEF Framed, Heading
<1>2. ASSUME NEW i \in h + 1 .. n, F[i].el = "cluster" PROVE ClusterFits(H, i)
  <2>1. ClusterFits(F, i) /\ Extent(H, i) = Extent(F, i) /\ H[i].size \in Nat \cup {Unknown}
    BY <1>2 DEF Framed
  <2>2. i \in Nat /\ Extent(F, i) \in Int /\ Extent(F, i) <= n /\ Extent(F, i) >= i
    <3>1. i \in Nat /\ i <= n
      BY <1>1
    <3>2. F[i].size \in Nat \cup {Unknown} /\ Extent(F, i) <= n
      BY <2>1 DEF ClusterFits
    <3>3. CASE F[i].size = Unknown
      BY <1>1, <3>1, <3>2, <3>3 DEF Extent
    <3>4. CASE F[i].size # Unknown
      BY <1>1, <3>1, <3>2, <3>4 DEF Extent
    <3> QED BY <3>3, <3>4
  <2>3. \A j \in i + 1 .. Extent(F, i) : H[j].el \in ChildKinds
    <3> SUFFICES ASSUME NEW j \in i + 1 .. Extent(F, i) PROVE H[j].el \in ChildKinds
      OBVIOUS
    <3>1. j \in h + 1 .. n
      BY <1>1, <2>2
    <3> QED BY <2>1, <3>1 DEF ClusterFits
  <2>4. ASSUME Extent(F, i) < n PROVE H[Extent(F, i) + 1].el \in {"cluster", "cues", "torn"}
    <3>1. Extent(F, i) + 1 \in h + 1 .. n
      BY <1>1, <2>2, <2>4
    <3> QED BY <2>1, <2>4, <3>1 DEF ClusterFits
  <2> QED BY <2>1, <2>2, <2>3, <2>4 DEF ClusterFits
<1>3. ASSUME h < n PROVE H[h + 1].el \in {"cluster", "cues", "torn"}
  <2>1. h + 1 \in h + 1 .. n
    BY <1>1, <1>3
  <2> QED BY <1>3, <2>1 DEF Framed
<1> QED BY <1>2, <1>3 DEF Framed

\* closeCluster: the scope of the open cluster ends where the file does.
LEMMA ClosesCluster ==
    ASSUME NEW F, NEW h, NEW o, Growing(F, h, o), o \in h + 1 .. Len(F), F[o].el = "cluster",
           NEW H, Patched(H, F, o, Cluster(Len(F) - o))
    PROVE  Growing(H, h, 0)
<1> DEFINE n == Len(F)
<1>1. /\ n \in Nat /\ h \in Nat /\ 2 <= h /\ h <= n /\ Heading(F, h) /\ F[2].size = Unknown
      /\ F[o].size = Unknown /\ Framed(F, h)
  BY DEF Growing, Framed, Heading
<1>2. /\ Len(H) = n /\ H[o] = Cluster(n - o) /\ \A i \in 1 .. n : i # o => H[i] = F[i]
  BY DEF Patched
<1>3. Heading(H, h) /\ H[2].size = Unknown
  <2>1. 1 \in 1 .. n /\ 2 \in 1 .. n /\ \A i \in 3 .. h : i \in 1 .. n
    BY <1>1
  <2>2. H[1] = F[1] /\ H[2] = F[2] /\ \A i \in 3 .. h : H[i] = F[i]
    BY <1>1, <1>2, <2>1
  <2> QED BY <1>1, <1>2, <2>2 DEF Heading
<1>4. ASSUME NEW i \in h + 1 .. n
      PROVE  /\ PlainCell(H[i]) /\ H[i].el = F[i].el
             /\ F[i].el = "cluster" => /\ H[i].size \in Nat
                                       /\ Extent(H, i) = Extent(F, i)
  <2>1. CASE i = o
    <3>1. H[i] = Cluster(n - o) /\ n - o \in Nat /\ Unknown \notin Nat
      BY <1>1, <1>2, <2>1 DEF Unknown
    <3>2. PlainCell(H[i]) /\ H[i].el = "cluster" /\ H[i].size = n - o
      BY <3>1, OtherCells
    <3>3. o \in Nat /\ o + (n - o) = n
      BY <1>1
    <3>4. Extent(H, i) = n
      BY <2>1, <3>1, <3>2, <3>3 DEF Extent
    <3>5. Extent(F, i) = n
      BY <1>1, <2>1 DEF Extent
    <3> QED BY <2>1, <3>1, <3>2, <3>4, <3>5
  <2>2. CASE i # o
    <3>1. H[i] = F[i] /\ PlainCell(F[i])
      BY <1>1, <1>2, <2>2 DEF Framed
    <3>2. ASSUME F[i].el = "cluster" PROVE F[i].size \in Nat /\ F[i].size # Unknown
      BY <2>2, <3>2, ClosedBeforeOpen DEF Unknown
    <3> QED BY <3>1, <3>2 DEF Extent
  <2> QED BY <2>1, <2>2
<1>5. Framed(H, h)
  BY <1>1, <1>2, <1>3, <1>4, FramedPatch
<1>6. \A i \in h + 1 .. n : /\ H[i].el \notin {"cues", "torn"}
                            /\ H[i].el = "cluster" => H[i].size # Unknown /\ i # 0
  BY <1>1, <1>4 DEF Growing, Unknown
<1> QED BY <1>2, <1>3, <1>5, <1>6 DEF Growing

\* The three patches of Finalize.
LEMMA HeaderPatch ==
    ASSUME NEW F, NEW h, Framed(F, h), NEW k \in 2 .. h, NEW H, NEW c, Patched(H, F, k, c),
           IF k = 2 THEN c = Segment(Len(F) - 2) ELSE c.el \in HeaderKinds
    PROVE  Framed(H, h) /\ \A i \in h + 1 .. Len(F) : H[i] = F[i]
<1> DEFINE n == Len(F)
<1>1. n \in Nat /\ h \in Nat /\ 2 <= h /\ h <= n /\ Heading(F, h)
  BY DEF Framed, Heading
<1>2. /\ Len(H) = n /\ H[k] = c /\ \A i \in 1 .. n : i # k => H[i] = F[i]
  BY DEF Patched
<1>3. \A i \in h + 1 .. n : i \in 1 .. n /\ H[i] = F[i]
  BY <1>1, <1>2
<1>4. Heading(H, h)
  <2>1. 1 \in 1 .. n /\ 2 \in 1 .. n /\ \A i \in 3 .. h : i \in 1 .. n
    BY <1>1
  <2>2. H[1] = F[1]
    BY <1>2, <2>1
  <2>3. H[2].el = "segment" /\ H[2].size \in {Unknown, n - 2}
    <3>1. CASE k = 2
      BY <1>2, <3>1 DEF Segment
    <3>2. CASE k # 2
      BY <1>1, <1>2, <2>1, <3>2 DEF Heading
    <3> QED BY <3>1, <3>2
  <2>4. ASSUME NEW i \in 3 .. h PROVE H[i].el \in HeaderKinds
    <3>1. CASE i = k
      BY <1>2, <3>1
    <3>2. CASE i # k
      BY <1>1, <1>2, <2>1, <3>2 DEF Heading
    <3> QED BY <3>1, <3>2
  <2> QED BY <1>1, <1>2, <2>2, <2>3, <2>4 DEF Heading
<1>5. ASSUME NEW i \in h + 1 .. n
      PROVE  /\ PlainCell(H[i]) /\ H[i].el = F[i].el
             /\ F[i].el = "cluster" => /\ H[i].size \in Nat \cup {Unknown}
                                       /\ Extent(H, i) = Extent(F, i)
  BY <1>2, <1>3 DEF Framed, ClusterFits, Extent
<1> QED BY <1>2, <1>3, <1>4, <1>5, FramedPatch

\* One more cell gives its packet, if it is a block; a patch gives none.
LEMMA ReadsExtended ==
    ASSUME NEW F, NEW h \in Nat, Len(F) \in Nat, h <= Len(F), NEW g, Reads(g, F, h),
           NEW H, NEW c, Extended(H, F, c)
    PROVE  \E u : Reads(u, H, h) /\ u[Len(H)] = Taken(g[Len(F)], c)
<1> DEFINE n == Len(F)
           u == [k \in h .. n + 1 |-> IF k = n + 1 THEN Taken(g[n], c) ELSE g[k]]
<1>1. Len(H) = n + 1 /\ H[n + 1] = c /\ \A i \in 1 .. n : H[i] = F[i]
  BY DEF Extended
<1>2. u[h] = Content0
  BY DEF Reads
<1>3. ASSUME NEW k \in h + 1 .. n + 1 PROVE u[k] = Taken(u[k - 1], H[k])
  <2>1. CASE k = n + 1
    <3>1. u[k] = Taken(g[n], c) /\ u[k - 1] = g[n]
      BY <2>1
    <3> QED BY <1>1, <2>1, <3>1
  <2>2. CASE k # n + 1
    <3>1. k \in h + 1 .. n /\ k \in 1 .. n /\ u[k] = g[k] /\ u[k - 1] = g[k - 1]
      BY <2>2
    <3> QED BY <1>1, <3>1 DEF Reads
  <2> QED BY <2>1, <2>2
<1>4. u[n + 1] = Taken(g[n], c)
  OBVIOUS
<1> HIDE DEF u
<1> QED BY <1>1, <1>2, <1>3, <1>4 DEF Reads

\* Patching the size of a cluster changes no packet.
LEMMA ReadsPatched ==
    ASSUME NEW F, NEW h, NEW g, Reads(g, F, h), NEW H, Len(H) = Len(F),
           \A i \in h + 1 .. Len(F) :
              H[i] = F[i] \/ (H[i].el = "cluster" /\ F[i].el = "cluster")
    PROVE  Reads(g, H, h)
<1>1. ASSUME NEW k \in h + 1 .. Len(F) PROVE Taken(g[k - 1], H[k]) = Taken(g[k - 1], F[k])
  <2>1. CASE H[k] = F[k]
    BY <2>1
  <2>2. CASE H[k].el = "cluster" /\ F[k].el = "cluster"
    BY <2>2 DEF Taken, IsBlock
  <2> QED BY <2>1, <2>2
<1> QED BY <1>1 DEF Reads

-----------------------------------------------------------------------------
(* The tracks and the header of an export.                                 *)

\* Maps is a sequence of tracks.
LEMMA MapsType == Maps \in Seq(Tracks) /\ Len(Maps) \in Nat /\ DOMAIN Maps = 1 .. Len(Maps)
<1>1. Order \in Seq(Tracks)
  BY ConvertAssumption
<1>2. Maps \in Seq(Tracks \cap Exported)
  BY <1>1, SelectType DEF Maps
<1>3. \A i \in 1 .. Len(Maps) : Maps[i] \in Tracks
  BY <1>2, ElementOfSeq
<1>4. Len(Maps) \in Nat /\ Maps \in [1 .. Len(Maps) -> Tracks \cap Exported]
  BY <1>2, LenProperties
<1>5. Maps \in [1 .. Len(Maps) -> Tracks]
  BY <1>4
<1> QED BY <1>4, <1>5

\* A track that is exported has a number.
LEMMA NumberInMaps ==
    ASSUME NEW tr \in maps
    PROVE  tr \in Tracks /\ Number(tr) \in DOMAIN Maps
<1> DEFINE I == {i \in 1 .. Len(Maps) : Maps[i] = tr}
<1>1. Len(Maps) \in Nat /\ DOMAIN Maps = 1 .. Len(Maps) /\ Maps \in Seq(Tracks)
  BY MapsType
<1>2. I \subseteq 1 .. Len(Maps) /\ I # {}
  BY <1>1 DEF maps, Range
<1>3. Min(I) \in I
  BY <1>1, <1>2, LeastInRange
<1>4. Number(tr) = Min(I)
  BY <1>2 DEF Number, SelectInSeq
<1>5. \A i \in I : Maps[i] \in Tracks
  BY <1>1, ElementOfSeq
<1> QED BY <1>1, <1>2, <1>3, <1>4, <1>5

\* The selection does not change.
LEMMA SameTracks ==
    ASSUME opts' = opts
    PROVE  Maps' = Maps /\ maps' = maps /\ videoTrack' = videoTrack /\ Header' = Header
<1>1. Maps' = Maps
  BY DEF Maps, Exported
<1>2. maps' = maps
  BY <1>1 DEF maps
<1>3. videoTrack' = videoTrack
  BY <1>1 DEF videoTrack, IsVideo, SelectInSeq
<1>4. Header' = Header
  BY <1>1 DEF Header
<1> QED BY <1>1, <1>2, <1>3, <1>4

\* The length of the header, and what its cells hold.
HLen       == Len(Header)
HeadInfo   == Info(Scale, {st - Epoch : st \in StartTime}, 0)
HeadTracks ==
    TrackList([k \in DOMAIN Maps |-> EncodeTrackEntry(MapTrackOut(TrackInfo[Maps[k]], k))])
FreeTags   == [name \in DOMAIN SourceTags \ Reserved |-> SourceTags[name]]

\* The cells of the header.
LEMMA HeaderCells ==
    /\ HLen \in {5, 6} /\ IsSeq(Header)
    /\ Header[1] = EBML(TRUE) /\ Header[SegmentAt] = Segment(Unknown)
    /\ Header[VoidAt].el = "void" /\ Header[InfoAt].el = "info" /\ Header[TracksAt].el = "tracks"
    /\ Header[InfoAt] = HeadInfo /\ Header[TracksAt] = HeadTracks
    /\ HLen = IF FreeTags = NoTags THEN 5 ELSE 6
    /\ HLen = 6 => Header[6] = Tags(FreeTags)
    /\ \A i \in 3 .. HLen : Header[i].el \in HeaderKinds
<1> DEFINE tags == FreeTags
           c4 == HeadInfo
           c5 == HeadTracks
           c6 == Tags(tags)
           five == <<EBML(TRUE), Segment(Unknown), Void, c4, c5>>
<1>1. c4.el = "info" /\ c5.el = "tracks" /\ c6.el = "tags"
  BY DEF HeadInfo, HeadTracks, Info, TrackList, Tags
<1>2. Header = five \o (IF tags = NoTags THEN <<>> ELSE <<c6>>)
  BY DEF Header, HeadInfo, HeadTracks, FreeTags
<1> HIDE DEF c4, c5, c6, tags
<1> DEFINE S == {EBML(TRUE), Segment(Unknown), Void, c4, c5, c6}
<1>3. five \in Seq(S) /\ Len(five) = 5 /\ <<c6>> \in Seq(S) /\ Len(<<c6>>) = 1 /\ <<c6>>[1] = c6
  OBVIOUS
<1>4. /\ five[1] = EBML(TRUE) /\ five[2] = Segment(Unknown) /\ five[3] = Void /\ five[4] = c4
      /\ five[5] = c5
  OBVIOUS
<1>5. Void.el = "void"
  BY DEF Void
<1> HIDE DEF five, S
<1>6. CASE tags = NoTags
  <2>1. Header = five
    BY <1>2, <1>3, <1>6, ConcatEmptySeq
  <2>2. HLen = 5 /\ IsSeq(Header)
    BY <1>3, <2>1 DEF HLen, IsSeq
  <2>3. \A i \in 3 .. 5 : five[i].el \in HeaderKinds
    <3>1. \A i \in 3 .. 5 : i = 3 \/ i = 4 \/ i = 5
      OBVIOUS
    <3> QED BY <1>1, <1>4, <1>5, <3>1 DEF HeaderKinds
  <2>4. HLen # 6 /\ HLen = IF tags = NoTags THEN 5 ELSE 6
    BY <1>6, <2>2
  <2> QED BY <1>1, <1>4, <1>5, <2>1, <2>2, <2>3, <2>4 DEF c4, c5, tags, SegmentAt, VoidAt, InfoAt, TracksAt
<1>7. CASE tags # NoTags
  <2> DEFINE six == five \o <<c6>>
  <2>1. Header = six
    BY <1>2, <1>7
  <2>2. /\ six \in Seq(S) /\ Len(six) = Len(five) + Len(<<c6>>)
        /\ \A i \in 1 .. Len(five) + Len(<<c6>>) :
              six[i] = IF i <= Len(five) THEN five[i] ELSE <<c6>>[i - Len(five)]
    BY <1>3, ConcatProperties
  <2> HIDE DEF six
  <2>3. Len(six) = 6 /\ \A i \in 1 .. 6 : six[i] = IF i <= 5 THEN five[i] ELSE <<c6>>[i - 5]
    BY <1>3, <2>2
  <2>4. /\ six[1] = five[1] /\ six[2] = five[2] /\ six[3] = five[3] /\ six[4] = five[4]
        /\ six[5] = five[5] /\ six[6] = c6
    BY <1>3, <2>3
  <2>5. HLen = 6 /\ IsSeq(Header)
    BY <2>1, <2>2, <2>3 DEF HLen, IsSeq
  <2>6. \A i \in 3 .. 6 : six[i].el \in HeaderKinds
    <3>1. \A i \in 3 .. 6 : i = 3 \/ i = 4 \/ i = 5 \/ i = 6
      OBVIOUS
    <3> QED BY <1>1, <1>4, <1>5, <2>4, <3>1 DEF HeaderKinds
  <2> QED BY <1>1, <1>4, <1>5, <1>7, <2>1, <2>4, <2>5, <2>6 DEF c4, c5, c6, tags, SegmentAt, VoidAt, InfoAt, TracksAt
<1> QED BY <1>6, <1>7

-----------------------------------------------------------------------------
(* The frame loop.                                                         *)

\* The fields of the muxer.
CuePoint == [time : Int, track : Nat, cluster : Int]
MuxSet   == [open : BOOLEAN, sizeAt : Nat, ts : Int, bytes : Nat, cues : Seq(CuePoint),
             cuesPos : Int, maxTS : Int]

\* The packet being written is the frame before the iterator, behind all that
\* were written.
PacketInv ==
    /\ pkt \in PacketSet /\ pkt.track \in DOMAIN Maps
    /\ pkt.dur > 0 => pkt.key
    /\ it - 1 \in DOMAIN src /\ pkt.data = <<it - 1>>
    /\ \A k \in DOMAIN written : written[k].data[1] < it - 1

\* The header has been written and the export has not stopped.
Begun == pc \notin {"refused", "header", "stopped"}

\* The frame loop and the fields of the muxer: the iterator is in the stream, the
\* file has its header once the loop has begun, and packets are in frame order.
LoopInv ==
    /\ TypeOK /\ src \in Sources /\ mux \in MuxSet /\ written \in Seq(PacketSet)
    /\ IsSeq(file) /\ (mux.open => HLen < mux.sizeAt)
    /\ Begun => it \in 1 .. Len(src) + 1 /\ HLen <= Len(file)
    /\ pc \in {"refused", "header"} =>
          file = <<>> /\ written = <<>> /\ ~mux.open /\ mux.cues = <<>> /\ mux.sizeAt = 0
    /\ pc \in {"close", "open", "stamp", "block"} => PacketInv
    /\ pc \in {"stamp", "block"} => mux.bytes <= ClusterLimit
    /\ \A k \in DOMAIN written : written[k].data[1] < it

\* The source is a finite sequence of frames,
LEMMA SourceType ==
    ASSUME src \in Sources
    PROVE  /\ Len(src) \in Nat /\ DOMAIN src = 1 .. Len(src)
           /\ \A k \in DOMAIN src : src[k] \in SrcFrame
<1>1. src \in BoundedSeq(SrcFrame, MaxFrames)
  BY DEF Sources
<1>2. PICK n \in 0 .. MaxFrames : src \in [1 .. n -> SrcFrame]
  BY <1>1 DEF BoundedSeq, SeqOf
<1>3. n \in Nat
  BY ConvertAssumption
<1> QED BY <1>2, <1>3

\* and these are the fields of a frame.
LEMMA SrcFrameType ==
    ASSUME NEW fr \in SrcFrame
    PROVE  /\ fr.pts \in Nat /\ fr.dur \in Nat /\ fr.key \in BOOLEAN
           /\ ~IsVideo(fr.track) => fr.key
           /\ TrackInfo[fr.track].kind # "data" => fr.dur = 0
<1>1. (~IsVideo(fr.track) => fr.key) /\ (TrackInfo[fr.track].kind # "data" => fr.dur = 0)
  BY Zenon DEF SrcFrame
<1>2. fr \in [track : FrameTracks, pts : 0 .. MaxPTS, key : BOOLEAN, dur : {0} \cup Durations,
               decodes : BOOLEAN]
  BY Zenon DEF SrcFrame
<1>3. Durations \subseteq Nat /\ MaxPTS \in Nat
  BY ConvertAssumption
<1>4. fr.pts \in Nat
  BY <1>2, <1>3
<1>5. fr.dur \in Nat
  <2>1. fr.dur \in {0} \cup Durations
    BY <1>2
  <2>2. \A d \in {0} \cup Durations : d \in Nat
    BY <1>3
  <2> QED BY <2>1, <2>2
<1>6. fr.key \in BOOLEAN
  BY <1>2
<1> QED BY <1>1, <1>4, <1>5, <1>6

\* A seek leads into the stream, so the iterator starts there.
LEMMA SeekInRange ==
    ASSUME src \in Sources, NEW tr, NEW pts \in Int
    PROVE  SeekPTS(tr, pts) \in 1 .. Len(src) + 1
<1> DEFINE before == {k \in Indexed(tr) : src[k].pts <= pts}
<1>1. Len(src) \in Nat /\ DOMAIN src = 1 .. Len(src)
  BY SourceType
<1>2. Indexed(tr) \subseteq 1 .. Len(src)
  BY <1>1 DEF Indexed
<1>3. CASE before = {}
  BY <1>1, <1>3 DEF SeekPTS
<1>4. CASE before # {}
  <2>1. before \subseteq 0 .. Len(src)
    BY <1>1, <1>2
  <2>2. \E k \in before : \A j \in before : j <= k
    BY <1>1, <1>4, <2>1, GreatestInRange
  <2>3. SeekPTS(tr, pts) \in before
    BY <1>4, <2>2 DEF SeekPTS
  <2> QED BY <1>1, <1>2, <2>3
<1> QED BY <1>3, <1>4

\* So does the interleaved iterator.
LEMMA IteratorInRange ==
    ASSUME src \in Sources, maps # {}
    PROVE  ReadInterleaved(0) \in 1 .. Len(src) + 1
<1> DEFINE starts == {SeekPTS(tr, 0) : tr \in maps}
<1>1. \A tr \in maps : SeekPTS(tr, 0) \in 1 .. Len(src) + 1
  BY SeekInRange
<1>2. starts \subseteq Nat /\ starts # {} /\ starts \subseteq 1 .. Len(src) + 1
  BY <1>1
<1>3. \E k \in starts : \A j \in starts : k <= j
  BY <1>2, LeastNatural
<1>4. ReadInterleaved(0) \in starts
  BY <1>3 DEF ReadInterleaved
<1> QED BY <1>2, <1>4

\* Converted times are natural numbers.
LEMMA Rounded ==
    ASSUME NEW a \in Nat, NEW b \in Nat, NEW s \in Nat \ {0}
    PROVE  (a * b) \div s \in Nat /\ (a = 0 => (a * b) \div s = 0)
<1>1. a * b \in Nat /\ (a = 0 => a * b = 0)
  OBVIOUS
<1>2. \A x \in Nat : x \div s \in Nat /\ (x = 0 => x \div s = 0)
  OBVIOUS
<1> QED BY <1>1, <1>2

\* A timebase: its denominator, and its numerator in nanoseconds.
LEMMA TimebaseType ==
    ASSUME NEW tr \in Tracks
    PROVE  Timebase[tr].den \in Nat \ {0} /\ Timebase[tr].num * Nano \in Nat \ {0}
<1>1. /\ Timebase[tr].den \in Nat \ {0} /\ Timebase[tr].num \in Nat \ {0}
      /\ Nano \in Nat \ {0}
  BY ConvertAssumption
<1>2. \A a, b \in Nat \ {0} : a * b \in Nat \ {0}
  OBVIOUS
<1> QED BY <1>1, <1>2

\* A time in Matroska units.
LEMMA ToScaleType ==
    ASSUME NEW tr \in Tracks, NEW pts \in Nat
    PROVE  ToScale(tr, pts) \in Nat /\ (pts = 0 => ToScale(tr, pts) = 0)
<1> DEFINE d == Timebase[tr].den
           m == Timebase[tr].num * Nano
           ns == (pts * m) \div d
<1>1. d \in Nat \ {0} /\ m \in Nat /\ Scale \in Nat \ {0}
  BY TimebaseType, ConvertAssumption
<1>2. ToScale(tr, pts) = ns \div Scale
  BY DEF ToScale
<1> HIDE DEF d, m
<1>3. ns \in Nat /\ (pts = 0 => ns = 0)
  BY <1>1, Rounded
<1> HIDE DEF ns
<1>4. (ns * 1) \div Scale \in Nat /\ (ns = 0 => (ns * 1) \div Scale = 0) /\ ns * 1 = ns
  BY <1>1, <1>3, Rounded
<1> QED BY <1>2, <1>3, <1>4

\* LoopInv holds initially, and every step keeps it.
LEMMA LoopInit == Init => LoopInv
<1> SUFFICES ASSUME Init PROVE LoopInv
  OBVIOUS
<1>1. pc \in {"header", "refused"} /\ src \in Sources /\ opts \in [tracks : Selections, range : Ranges]
  BY DEF Init
<1>2. /\ it = 0 /\ ended = {} /\ file = <<>> /\ written = <<>>
      /\ mux = [open |-> FALSE, sizeAt |-> 0, ts |-> 0, bytes |-> 0, cues |-> <<>>,
                cuesPos |-> 0, maxTS |-> 0]
  BY DEF Init
<1>3. Len(src) \in Nat /\ ClusterLimit \in Nat
  BY <1>1, SourceType, ConvertAssumption
<1>4. mux \in MuxSet /\ written \in Seq(PacketSet) /\ IsSeq(file)
  BY <1>2 DEF MuxSet, IsSeq
<1>5. TypeOK
  BY <1>1, <1>2, <1>3 DEF TypeOK, PC
<1> QED BY <1>1, <1>2, <1>4, <1>5 DEF LoopInv, Begun

\* The steps of the muxer leave the frame loop alone.
LEMMA MuxerLoop ==
    ASSUME LoopInv, UNCHANGED <<src, opts, it, ended, pkt, written>>, Begun,
           pc' \in PC \ {"refused", "header"}, mux' \in MuxSet, IsSeq(file'),
           Len(file) <= Len(file'), mux'.sizeAt <= Len(file'), mux'.bytes <= ClusterLimit + 1,
           mux'.open => HLen < mux'.sizeAt,
           pc' \in {"close", "open", "stamp", "block"} => pc \in {"close", "open", "stamp", "block"},
           pc' \in {"stamp", "block"} => mux'.bytes <= ClusterLimit
    PROVE  LoopInv'
<1>1. Maps' = Maps /\ maps' = maps /\ HLen' = HLen
  BY SameTracks DEF HLen
<1>2. Len(file) \in Nat /\ Len(file') \in Nat /\ ClusterLimit \in Nat /\ HLen \in Nat
  BY SeqAppend, ConvertAssumption, HeaderCells DEF LoopInv
<1>3. mux'.open \in BOOLEAN /\ mux'.sizeAt \in 0 .. Len(file') /\ mux'.bytes \in 0 .. ClusterLimit + 1
  BY <1>2 DEF MuxSet
<1>4. TypeOK'
  BY <1>1, <1>3 DEF LoopInv, TypeOK
<1>5. (mux.open => HLen < mux.sizeAt)' /\ (Begun => it \in 1 .. Len(src) + 1 /\ HLen <= Len(file))'
  BY <1>1, <1>2 DEF LoopInv
<1>6. PacketInv => PacketInv'
  BY <1>1 DEF PacketInv
<1> QED BY <1>4, <1>5, <1>6 DEF LoopInv

\* WriteHeader starts the frame loop.
LEMMA LoopHeader == ASSUME LoopInv, WriteHeader PROVE LoopInv'
<1>1. /\ pc = "header" /\ pc' = "next" /\ file' = Header /\ UNCHANGED <<src, opts, ended, pkt, mux, written>>
      /\ it' = IF maps = {} THEN Len(src) + 1 ELSE ReadInterleaved(0)
  BY DEF WriteHeader
<1>2. Maps' = Maps /\ maps' = maps /\ HLen' = HLen
  BY <1>1, SameTracks DEF HLen
<1>3. Len(src) \in Nat /\ it' \in 1 .. Len(src) + 1
  BY <1>1, SourceType, IteratorInRange DEF LoopInv
<1>4. IsSeq(file') /\ HLen' = Len(file') /\ HLen \in Nat
  BY <1>1, <1>2, HeaderCells DEF HLen
<1>5. written = <<>> /\ mux.sizeAt = 0 /\ ~mux.open
  BY <1>1 DEF LoopInv
<1>6. TypeOK'
  BY <1>1, <1>2, <1>3, <1>4, <1>5 DEF LoopInv, TypeOK, PC
<1> QED BY <1>1, <1>3, <1>4, <1>5, <1>6 DEF LoopInv

\* NextFrame takes one frame, which follows all that were written.
LEMMA LoopNextFrame == ASSUME LoopInv, NextFrame PROVE LoopInv'
<1> DEFINE fr == src[it]
           p == Packet(Number(fr.track), ToScale(fr.track, fr.pts), fr.key,
                       ToScale(fr.track, fr.dur), <<it>>)
           skipped == fr.track \notin maps \/ BeforeRange(fr)
<1>1. /\ pc = "next" /\ it <= Len(src) /\ it' = it + 1
      /\ UNCHANGED <<src, opts, file, mux, written>>
      /\ ended' = IF ~skipped /\ AfterRange(fr) /\ IsVideo(fr.track)
                  THEN ended \cup {fr.track} ELSE ended
      /\ IF skipped \/ AfterRange(fr) \/ ~fr.decodes THEN UNCHANGED <<pkt, pc>>
         ELSE pkt' = p /\ pc' = IF NeedNew(p) THEN "close" ELSE "block"
  BY DEF NextFrame
<1>2. Maps' = Maps /\ maps' = maps /\ HLen' = HLen
  BY <1>1, SameTracks DEF HLen
<1>3. Len(src) \in Nat /\ DOMAIN src = 1 .. Len(src) /\ it \in 1 .. Len(src) /\ fr \in SrcFrame
  BY <1>1, SourceType DEF LoopInv, Begun
<1>4. ended' \in SUBSET maps /\ pc' \in {"next", "close", "block"}
  BY <1>1 DEF LoopInv, TypeOK
<1>5. \A k \in DOMAIN written : written[k].data[1] < it' /\ written[k].data[1] < it' - 1
  <2> SUFFICES ASSUME NEW k \in DOMAIN written
               PROVE  written[k].data[1] < it' /\ written[k].data[1] < it' - 1
    OBVIOUS
  <2>1. written[k].data[1] < it /\ written[k].data[1] \in DOMAIN src
    BY DEF LoopInv, TypeOK
  <2> QED BY <1>1, <1>3, <2>1
<1>6. TypeOK'
  BY <1>1, <1>2, <1>3, <1>4 DEF LoopInv, TypeOK, PC
<1>7. ASSUME pc' # "next" PROVE PacketInv'
  <2>1. pkt' = p /\ fr.track \in maps
    BY <1>1, <1>7
  <2>2. /\ fr.pts \in Nat /\ fr.dur \in Nat /\ fr.key \in BOOLEAN
        /\ ~IsVideo(fr.track) => fr.key
        /\ TrackInfo[fr.track].kind # "data" => fr.dur = 0
    BY <1>3, SrcFrameType
  <2>3. fr.track \in Tracks /\ Number(fr.track) \in DOMAIN Maps /\ DOMAIN Maps = 1 .. Len(Maps)
    BY <2>1, NumberInMaps, MapsType
  <2>4. /\ ToScale(fr.track, fr.pts) \in Nat /\ ToScale(fr.track, fr.dur) \in Nat
        /\ fr.dur = 0 => ToScale(fr.track, fr.dur) = 0
    BY <2>2, <2>3, ToScaleType
  <2> HIDE DEF fr
  <2>5. p \in PacketSet /\ p.track \in DOMAIN Maps /\ p.data = <<it>>
        /\ p.dur = ToScale(fr.track, fr.dur) /\ p.key = fr.key
    BY <1>3, <2>2, <2>3, <2>4 DEF Packet, PacketSet
  <2>6. p.dur > 0 => p.key
    BY <2>2, <2>4, <2>5 DEF IsVideo
  <2>7. it' - 1 = it
    BY <1>1, <1>3
  <2> HIDE DEF p
  <2> QED BY <1>1, <1>2, <1>3, <1>5, <2>1, <2>5, <2>6, <2>7 DEF PacketInv
<1>8. pc' = "block" => mux'.bytes <= ClusterLimit
  <2>1. pc' = "block" => ~NeedNew(p)
    BY <1>1
  <2> HIDE DEF p
  <2>2. mux.bytes \in Nat /\ ClusterLimit \in Nat
    BY ConvertAssumption DEF LoopInv, MuxSet
  <2> QED BY <1>1, <2>1, <2>2 DEF NeedNew
<1>9. (Begun => it \in 1 .. Len(src) + 1 /\ HLen <= Len(file))'
  BY <1>1, <1>2, <1>3 DEF LoopInv, Begun
<1>10. (/\ src \in Sources /\ mux \in MuxSet /\ written \in Seq(PacketSet)
        /\ IsSeq(file) /\ (mux.open => HLen < mux.sizeAt))'
  BY <1>1, <1>2 DEF LoopInv
<1> QED BY <1>1, <1>4, <1>5, <1>6, <1>7, <1>8, <1>9, <1>10 DEF LoopInv

\* LastFrame ends the loop.
LEMMA LoopLastFrame == ASSUME LoopInv, LastFrame PROVE LoopInv'
<1>1. /\ pc = "next" /\ pc' = "finalize"
      /\ UNCHANGED <<src, opts, it, ended, pkt, file, mux, written>>
  BY DEF LastFrame
<1>2. /\ mux \in MuxSet /\ mux.sizeAt <= Len(file) /\ mux.bytes <= ClusterLimit + 1
      /\ Len(file) \in Nat /\ (mux.open => HLen < mux.sizeAt)
  BY SeqAppend, ConvertAssumption DEF LoopInv, TypeOK
<1> QED BY <1>1, <1>2, MuxerLoop DEF Begun, PC, LoopInv

\* What the loop invariant says of the file and the muxer.
LEMMA LoopFacts ==
    ASSUME LoopInv
    PROVE  /\ IsSeq(file) /\ Len(file) \in Nat /\ HLen \in {5, 6} /\ (Begun => HLen <= Len(file))
           /\ mux.open \in BOOLEAN /\ mux.sizeAt \in Nat /\ mux.ts \in Int /\ mux.bytes \in Nat
           /\ mux.cues \in Seq(CuePoint) /\ mux.cuesPos \in Int /\ mux.maxTS \in Int
           /\ mux.sizeAt <= Len(file) /\ mux.bytes <= ClusterLimit + 1 /\ ClusterLimit \in Nat
           /\ mux.open => HLen < mux.sizeAt
  BY SeqAppend, HeaderCells, ConvertAssumption DEF LoopInv, TypeOK, MuxSet

\* What each step of the muxer writes.
LEMMA CloseWrites ==
    ASSUME LoopInv, CloseCluster
    PROVE  IF mux.open
           THEN IsSeq(file') /\ Patched(file', file, mux.sizeAt, Cluster(Len(file) - mux.sizeAt))
           ELSE file' = file
<1>1. file' = IF mux.open THEN [file EXCEPT ![mux.sizeAt] = Cluster(Len(file) - mux.sizeAt)]
              ELSE file
  BY DEF CloseCluster
<1>2. mux.open => mux.sizeAt \in 1 .. Len(file)
  BY LoopFacts
<1> QED BY <1>1, <1>2, LoopFacts, SeqPatch

\* A cell written at the end of the file,
LEMMA Writes ==
    ASSUME LoopInv, NEW c, Write(c)
    PROVE  IsSeq(file') /\ Extended(file', file, c) /\ Len(file') = Len(file) + 1
  BY LoopFacts, SeqAppend DEF Write, Extended

\* and each of the three patches of Finalize.
LEMMA PatchWrites ==
    ASSUME LoopInv, Begun
    PROVE  /\ PatchSegment => IsSeq(file') /\ Patched(file', file, 2, Segment(Len(file) - 2))
           /\ PatchDuration => IsSeq(file') /\ Patched(file', file, 4, [file[4] EXCEPT !.duration = mux.maxTS])
           /\ PatchSeekHead => IsSeq(file') /\ Patched(file', file, 3, SeekHead(SeekTargets))
<1>1. 2 \in 1 .. Len(file) /\ 3 \in 1 .. Len(file) /\ 4 \in 1 .. Len(file) /\ IsSeq(file)
  BY LoopFacts
<1>2. PatchSegment => file' = [file EXCEPT ![2] = Segment(Len(file) - 2)]
  BY DEF PatchSegment, SegmentAt, SegDataOff
<1>3. PatchDuration => file' = [file EXCEPT ![4] = [file[4] EXCEPT !.duration = mux.maxTS]]
  BY DEF PatchDuration, InfoAt
<1>4. PatchSeekHead => file' = [file EXCEPT ![3] = SeekHead(SeekTargets)]
  BY DEF PatchSeekHead, VoidAt
<1> QED BY <1>1, <1>2, <1>3, <1>4, SeqPatch

\* The muxer's own steps touch the loop invariant only through its fields.
LEMMA LoopClose == ASSUME LoopInv, CloseCluster PROVE LoopInv'
<1>1. /\ pc \in {"close", "finalize"} /\ pc' = IF pc = "close" THEN "open" ELSE "cues"
      /\ mux' = [mux EXCEPT !.open = FALSE] /\ UNCHANGED <<src, opts, it, ended, pkt, written>>
  BY DEF CloseCluster, reading
<1>2. IsSeq(file') /\ Len(file') = Len(file)
  BY CloseWrites, LoopFacts DEF Patched
<1>3. mux' \in MuxSet /\ ~mux'.open /\ mux'.sizeAt = mux.sizeAt /\ mux'.bytes = mux.bytes
  BY <1>1 DEF LoopInv, MuxSet
<1> QED BY <1>1, <1>2, <1>3, LoopFacts, MuxerLoop DEF Begun, PC

\* OpenCluster starts counting bytes again.
LEMMA LoopOpen == ASSUME LoopInv, OpenCluster PROVE LoopInv'
<1>1. /\ pc = "open" /\ pc' = "stamp" /\ UNCHANGED <<src, opts, it, ended, pkt, written>>
      /\ mux' = [mux EXCEPT !.open = TRUE, !.sizeAt = Len(file) + 1, !.ts = pkt.ts, !.bytes = 0]
  BY DEF OpenCluster, reading
<1>2. IsSeq(file') /\ Len(file') = Len(file) + 1
  BY Writes DEF OpenCluster
<1>3. pkt.ts \in Int
  BY <1>1 DEF LoopInv, PacketInv, PacketSet
<1>4. mux' \in MuxSet /\ mux'.sizeAt = Len(file) + 1 /\ mux'.bytes = 0
  <2>1. mux \in MuxSet /\ Len(file) + 1 \in Nat
    BY LoopFacts DEF LoopInv
  <2> QED BY <1>1, <1>3, <2>1 DEF MuxSet
<1> QED BY <1>1, <1>2, <1>4, LoopFacts, MuxerLoop DEF Begun, PC

\* StampCluster only writes.
LEMMA LoopStamp == ASSUME LoopInv, StampCluster PROVE LoopInv'
<1>1. /\ pc = "stamp" /\ pc' = "block" /\ UNCHANGED <<src, opts, it, ended, pkt, mux, written>>
  BY DEF StampCluster, reading
<1>2. IsSeq(file') /\ Len(file') = Len(file) + 1
  BY Writes DEF StampCluster
<1> QED BY <1>1, <1>2, LoopFacts, MuxerLoop DEF Begun, PC, LoopInv

\* WriteCues notes where it writes.
LEMMA LoopCues == ASSUME LoopInv, WriteCues PROVE LoopInv'
<1>1. /\ pc = "cues" /\ pc' = "segment" /\ UNCHANGED <<src, opts, it, ended, pkt, written>>
      /\ mux' = [mux EXCEPT !.cuesPos = Len(file) - SegDataOff]
  BY DEF WriteCues, reading
<1>2. IsSeq(file') /\ Len(file) <= Len(file')
  BY Writes, LoopFacts DEF WriteCues
<1>3. Len(file) - SegDataOff \in Int
  BY LoopFacts DEF SegDataOff
<1>4. /\ mux' \in MuxSet /\ mux'.sizeAt = mux.sizeAt /\ mux'.bytes = mux.bytes
      /\ mux'.open = mux.open
  BY <1>1, <1>3 DEF LoopInv, MuxSet
<1>5. Len(file') \in Nat
  BY <1>2, SeqAppend
<1> QED BY <1>1, <1>2, <1>4, <1>5, LoopFacts, MuxerLoop DEF Begun, PC

\* The patches change no length.
LEMMA LoopPatch ==
    ASSUME LoopInv, PatchSegment \/ PatchDuration \/ PatchSeekHead
    PROVE  LoopInv'
<1>1. /\ pc \in {"segment", "duration", "seekhead"} /\ pc' \in {"duration", "seekhead", "done"}
      /\ UNCHANGED <<src, opts, it, ended, pkt, mux, written>>
  BY DEF PatchSegment, PatchDuration, PatchSeekHead, reading
<1>2. Begun
  BY <1>1 DEF Begun
<1>3. IsSeq(file') /\ Len(file') = Len(file)
  BY <1>2, PatchWrites DEF Patched
<1> QED BY <1>1, <1>2, <1>3, LoopFacts, MuxerLoop DEF PC, LoopInv

\* WriteBlock appends the packet, behind all the frames written before.
LEMMA LoopBlock == ASSUME LoopInv, WriteBlock PROVE LoopInv'
<1>1. /\ pc = "block" /\ pc' = "next" /\ UNCHANGED <<src, opts, it, ended, pkt>>
      /\ mux' = [mux EXCEPT !.bytes = @ + 1,
                            !.cues = IF VideoKey(pkt) THEN Append(@, Cue) ELSE @,
                            !.maxTS = IF pkt.ts > @ THEN pkt.ts ELSE @]
      /\ written' = Append(written, pkt)
  BY DEF WriteBlock, reading
<1>2. IsSeq(file') /\ Len(file') = Len(file) + 1
  BY Writes DEF WriteBlock
<1>3. PacketInv /\ mux.bytes <= ClusterLimit /\ written \in Seq(PacketSet)
  BY <1>1 DEF LoopInv
<1>4. pkt \in PacketSet /\ pkt.ts \in Int /\ pkt.track \in Nat /\ pkt.data[1] = it - 1 /\ pkt.track \in DOMAIN Maps
  BY <1>3 DEF PacketInv, PacketSet
<1>5. Cue \in CuePoint
  BY <1>4, LoopFacts DEF Cue, CuePoint, SegDataOff
<1>6. /\ mux' \in MuxSet /\ mux'.open = mux.open /\ mux'.sizeAt = mux.sizeAt
      /\ mux'.bytes = mux.bytes + 1
  <2>1. (IF VideoKey(pkt) THEN Append(mux.cues, Cue) ELSE mux.cues) \in Seq(CuePoint)
    BY <1>5, LoopFacts, AppendProperties
  <2>2. (IF pkt.ts > mux.maxTS THEN pkt.ts ELSE mux.maxTS) \in Int
    BY <1>4, LoopFacts
  <2>3. mux.bytes + 1 \in Nat /\ mux \in MuxSet
    BY LoopFacts DEF LoopInv
  <2> QED BY <1>1, <2>1, <2>2, <2>3 DEF MuxSet
<1>7. Maps' = Maps /\ maps' = maps /\ HLen' = HLen
  BY <1>1, SameTracks DEF HLen
<1>8. /\ written' \in Seq(PacketSet) /\ DOMAIN written = 1 .. Len(written) /\ Len(written) \in Nat
      /\ DOMAIN written' = 1 .. Len(written) + 1
      /\ written'[Len(written) + 1] = pkt /\ \A k \in 1 .. Len(written) : written'[k] = written[k]
  BY <1>1, <1>3, <1>4, AppendProperties, LenProperties
<1>9. /\ it' - 1 \in DOMAIN src' /\ it \in Int
      /\ \A k \in 1 .. Len(written) : written[k].data[1] < it - 1 /\ written[k].data[1] \in Int
  <2>1. Len(src) \in Nat /\ DOMAIN src = 1 .. Len(src)
    BY SourceType DEF LoopInv
  <2> QED BY <1>1, <1>3, <1>8, <2>1 DEF PacketInv, LoopInv, TypeOK
<1>10. (\A k \in DOMAIN written : written[k].data[1] < it)'
  BY <1>1, <1>4, <1>8, <1>9
<1>11. (\A k \in DOMAIN written :
          /\ written[k].track \in DOMAIN Maps /\ written[k].data[1] \in DOMAIN src
          /\ k > 1 => written[k - 1].data[1] < written[k].data[1])'
  <2> SUFFICES ASSUME NEW k \in 1 .. Len(written) + 1
               PROVE  /\ written'[k].track \in DOMAIN Maps /\ written'[k].data[1] \in DOMAIN src
                      /\ k > 1 => written'[k - 1].data[1] < written'[k].data[1]
    BY <1>1, <1>7, <1>8
  <2>1. CASE k = Len(written) + 1
    <3>1. written'[k] = pkt
      BY <1>8, <2>1
    <3>2. k > 1 => k - 1 \in 1 .. Len(written)
      BY <1>8, <2>1
    <3>3. k > 1 => written'[k - 1].data[1] < it - 1
      BY <1>8, <1>9, <3>2
    <3> QED BY <1>1, <1>4, <1>9, <3>1, <3>3
  <2>2. CASE k # Len(written) + 1
    <3>1. k \in DOMAIN written /\ written'[k] = written[k] /\ (k > 1 => written'[k - 1] = written[k - 1])
      BY <1>8, <2>2
    <3> QED BY <3>1 DEF LoopInv, TypeOK
  <2> QED BY <2>1, <2>2
<1>12. TypeOK'
  <2>1. /\ (opts \in [tracks : Selections, range : Ranges] /\ pc \in PC)'
        /\ (it \in 0 .. Len(src) + 1 /\ ended \in SUBSET maps)'
    <3>1. /\ opts \in [tracks : Selections, range : Ranges]
          /\ it \in 0 .. Len(src) + 1 /\ ended \in SUBSET maps
      BY DEF LoopInv, TypeOK
    <3>2. "next" \in PC
      BY DEF PC
    <3> QED BY <1>1, <1>7, <3>1, <3>2
  <2>2. mux'.open \in BOOLEAN /\ mux'.sizeAt \in 0 .. Len(file') /\ mux'.bytes \in 0 .. ClusterLimit + 1
    BY <1>2, <1>3, <1>6, LoopFacts, SMTT(30)
  <2> QED BY <1>11, <2>1, <2>2 DEF TypeOK
<1>13. (Begun => it \in 1 .. Len(src) + 1 /\ HLen <= Len(file))'
  <2>1. it \in 1 .. Len(src) + 1 /\ HLen <= Len(file)
    BY <1>1 DEF LoopInv, Begun
  <2>2. Len(file) \in Nat /\ HLen \in Nat
    BY LoopFacts
  <2>3. HLen' <= Len(file')
    BY <1>2, <1>7, <2>1, <2>2
  <2> QED BY <1>1, <2>1, <2>3
<1> QED BY <1>1, <1>2, <1>6, <1>7, <1>8, <1>10, <1>12, <1>13, LoopFacts DEF LoopInv

\* A header that is cut short.
LEMMA PartOfHeader ==
    ASSUME NEW k \in 0 .. Len(Header) - 1
    PROVE  /\ IsSeq(SubSeq(Header, 1, k)) /\ Len(SubSeq(Header, 1, k)) = k
           /\ \A i \in 1 .. k : SubSeq(Header, 1, k)[i] = Header[i]
<1>1. PICK S : Header \in Seq(S)
  BY HeaderCells DEF IsSeq
<1>2. Len(Header) \in Nat /\ Header \in [1 .. Len(Header) -> S]
  BY <1>1, LenProperties
<1>3. \A i \in 1 .. k : Header[i] \in S
  BY <1>2
<1>4. /\ SubSeq(Header, 1, k) \in Seq(S)
      /\ Len(SubSeq(Header, 1, k)) = IF 1 <= k THEN k - 1 + 1 ELSE 0
      /\ \A i \in 1 .. k - 1 + 1 : SubSeq(Header, 1, k)[i] = Header[1 + i - 1]
  BY <1>2, <1>3, SubSeqProperties
<1> QED BY <1>2, <1>4 DEF IsSeq

\* Stop leaves a sequence of cells.
LEMMA LoopStop == ASSUME LoopInv, Stop PROVE LoopInv'
<1>1. /\ pc \notin {"refused", "done", "stopped"} /\ pc' = "stopped"
      /\ UNCHANGED <<src, opts, it, ended, pkt, mux, written>>
  BY DEF Stop, reading
<1>2. CASE pc = "header"
  <2>1. PICK k \in 0 .. Len(Header) - 1 :
            file' \in {SubSeq(Header, 1, k), Append(SubSeq(Header, 1, k), Torn)}
    BY <1>2 DEF Stop
  <2>2. IsSeq(file')
    BY <2>1, PartOfHeader, SeqAppend
  <2>3. Len(file') \in Nat
    BY <2>2, SeqAppend
  <2>4. mux.sizeAt = 0
    BY <1>2 DEF LoopInv
  <2>5. Maps' = Maps /\ maps' = maps /\ HLen' = HLen
    BY <1>1, SameTracks DEF HLen
  <2>6. TypeOK'
    BY <1>1, <2>3, <2>4, <2>5 DEF LoopInv, TypeOK, PC
  <2> QED BY <1>1, <2>2, <2>5, <2>6 DEF LoopInv, Begun
<1>3. CASE pc # "header"
  <2>1. file' = file \/ Write(Torn)
    BY <1>3 DEF Stop
  <2>2. IsSeq(file') /\ Len(file) <= Len(file') /\ Len(file') \in Nat
    BY <2>1, Writes, LoopFacts
  <2>3. Begun
    BY <1>1, <1>3 DEF Begun
  <2> QED BY <1>1, <2>2, <2>3, LoopFacts, MuxerLoop DEF PC, LoopInv
<1> QED BY <1>2, <1>3

\* Every step keeps LoopInv.
LEMMA LoopNext == LoopInv /\ [Next]_vars => LoopInv'
<1> SUFFICES ASSUME LoopInv, [Next]_vars PROVE LoopInv'
  OBVIOUS
<1>1. CASE UNCHANGED vars
  <2>1. Maps' = Maps /\ maps' = maps /\ HLen' = HLen
    BY <1>1, SameTracks DEF HLen, vars
  <2> QED BY <1>1, <2>1 DEF vars, LoopInv, TypeOK, PacketInv, Begun
<1> QED BY <1>1, LoopHeader, LoopNextFrame, LoopLastFrame, LoopClose, LoopOpen, LoopStamp,
           LoopBlock, LoopCues, LoopPatch, LoopStop DEF Next

\* The fields of the exporter and of the muxer have their types, and the packets
\* written are those of known tracks, in the order of their frames.
THEOREM ExportTypeCorrect == Spec => []TypeOK
<1>1. Init => LoopInv
  BY LoopInit
<1>2. LoopInv /\ [Next]_vars => LoopInv'
  BY LoopNext
<1>3. LoopInv => TypeOK
  BY DEF LoopInv
<1> QED BY <1>1, <1>2, <1>3, PTL DEF Spec

-----------------------------------------------------------------------------
(* What stands in the file.                                                *)

\* A relative timestamp in the range survives its 16 bits.
LEMMA ToInt16Exact ==
    ASSUME NEW rel \in Int, rel <= RelLimit, rel >= -RelLimit
    PROVE  ToInt16(rel) = rel
<1>1. RelHalf \in Nat \ {0} /\ RelLimit \in Nat /\ RelLimit < RelHalf
  BY ConvertAssumption, FormatAssumption
<1>2. \A a, m \in Nat : a < m => a % m = a
  OBVIOUS
<1>3. rel + RelHalf \in Nat /\ 2 * RelHalf \in Nat /\ rel + RelHalf < 2 * RelHalf
  BY <1>1
<1>4. (rel + RelHalf) % (2 * RelHalf) = rel + RelHalf
  BY <1>2, <1>3
<1> QED BY <1>1, <1>4 DEF ToInt16

\* The block of a packet, read back, is the packet.
LEMMA BlockCell ==
    ASSUME PacketInv, mux.ts \in Int, pkt.ts - mux.ts <= RelLimit, pkt.ts - mux.ts >= -RelLimit
    PROVE  LET c == Block(ToInt16(pkt.ts - mux.ts))
           IN  /\ PlainCell(c) /\ c.el \in {"simple", "group"} /\ IsBlock(c)
               /\ PacketOf(c, mux.ts) = pkt /\ c.block.rest = pkt.data
<1> DEFINE rel == pkt.ts - mux.ts
           b == Plain(pkt.track, rel, pkt.data)
           c == Block(rel)
<1>1. /\ pkt \in PacketSet /\ pkt.ts \in Int /\ pkt.track \in Nat /\ pkt.key \in BOOLEAN
      /\ pkt.dur \in Nat /\ pkt.data \in Seq(Nat) /\ (pkt.dur > 0 => pkt.key)
  BY DEF PacketInv, PacketSet
<1>2. rel \in Int /\ mux.ts + rel = pkt.ts /\ ToInt16(rel) = rel
  BY <1>1, ToInt16Exact
<1>3. pkt = Packet(pkt.track, pkt.ts, pkt.key, pkt.dur, pkt.data)
  BY <1>1 DEF Packet, PacketSet
<1>4. /\ b.track = pkt.track /\ b.rel = rel /\ b.lacing = "none" /\ b.count = 1
      /\ b.rest = pkt.data
  BY DEF Plain, Payload
<1> HIDE DEF rel, b
<1>5. CASE pkt.dur > 0
  <2>1. c = BlockGroup(TRUE, FALSE, pkt.dur, b)
    BY <1>5 DEF Block, b
  <2>2. /\ c.el = "group" /\ c.hasBlock = TRUE /\ c.ref = FALSE /\ c.dur = pkt.dur /\ c.block = b
    BY <2>1 DEF BlockGroup
  <2> HIDE DEF c
  <2>3. PlainCell(c) /\ IsBlock(c)
    BY <1>1, <1>2, <1>4, <2>2 DEF PlainCell, IsBlock
  <2>4. pkt.key = TRUE
    BY <1>1, <1>5
  <2>5. PacketOf(c, mux.ts) = Packet(pkt.track, mux.ts + rel, ~FALSE, pkt.dur, pkt.data)
    BY <1>4, <2>2 DEF PacketOf
  <2>6. PacketOf(c, mux.ts) = pkt
    BY <1>2, <1>3, <2>4, <2>5
  <2> QED BY <1>2, <1>4, <2>2, <2>3, <2>6 DEF c, rel
<1>6. CASE ~(pkt.dur > 0)
  <2>1. c = SimpleBlock(pkt.key, b)
    BY <1>6 DEF Block, b
  <2>2. c.el = "simple" /\ c.key = pkt.key /\ c.block = b
    BY <2>1 DEF SimpleBlock
  <2> HIDE DEF c
  <2>3. PlainCell(c) /\ IsBlock(c)
    BY <1>1, <1>2, <1>4, <2>2 DEF PlainCell, IsBlock
  <2>4. pkt.dur = 0
    BY <1>1, <1>6
  <2>5. PacketOf(c, mux.ts) = Packet(pkt.track, mux.ts + rel, pkt.key, 0, pkt.data)
    BY <1>4, <2>2 DEF PacketOf
  <2>6. PacketOf(c, mux.ts) = pkt
    BY <1>2, <1>3, <2>4, <2>5
  <2> QED BY <1>2, <1>4, <2>2, <2>3, <2>6 DEF c, rel
<1> QED BY <1>5, <1>6

\* From the first patch of Finalize on.
Finishing == {"segment", "duration", "seekhead", "done"}

\* The cluster that is open, if any.
OpenAt == IF mux.open THEN mux.sizeAt ELSE 0

\* The file is a header, clusters of which only the open one has no size yet, and
\* in the end the cues.
FileInv ==
    Begun =>
      /\ Framed(file, HLen)
      /\ file[2] = Segment(IF pc \in {"duration", "seekhead", "done"} THEN Len(file) - 2 ELSE Unknown)
      /\ file[4].el = "info" /\ file[5].el = "tracks"
      /\ \A i \in HLen + 1 .. Len(file) :
            /\ file[i].el # "torn" /\ (file[i].el = "cues" => pc \in Finishing)
            /\ file[i].el = "cluster" => /\ file[i].size = Unknown <=> i = OpenAt
                                         /\ file[i].size # Unknown => file[i].size > 0

\* Where the muxer stands in its cluster.
ScopeInv ==
    /\ Begun /\ mux.open => /\ file[mux.sizeAt].el = "cluster"
                            /\ pc # "stamp" => mux.sizeAt < Len(file)
    /\ pc \in {"open", "cues"} \cup Finishing => ~mux.open
    /\ pc \in {"stamp", "block"} => mux.open
    /\ pc = "stamp" => mux.ts = pkt.ts /\ mux.sizeAt = Len(file)
    /\ pc = "block" =>
          /\ pkt.ts - mux.ts <= RelLimit /\ pkt.ts - mux.ts >= -RelLimit
          /\ VideoKey(pkt) => mux.sizeAt = Len(file) - 1 /\ file[Len(file)] = Timestamp(pkt.ts)

\* The packets in the file are those written, and the scope has the muxer's time.
ReadInv ==
    Begun => \E g : /\ Reads(g, file, HLen) /\ g[Len(file)].packets = written
                    /\ (mux.open /\ pc # "stamp") => g[Len(file)].ts = mux.ts

\* What holds of the file while the export runs.
StreamInv == FileInv /\ ScopeInv /\ ReadInv

\* Until Finalize the file grows: at most the open cluster has no size.
LEMMA GrowingFile ==
    ASSUME LoopInv, StreamInv, Begun, pc \notin Finishing
    PROVE  /\ Growing(file, HLen, OpenAt)
           /\ mux.open => OpenAt \in HLen + 1 .. Len(file) /\ file[OpenAt].el = "cluster"
<1>1. /\ Framed(file, HLen) /\ file[2] = Segment(Unknown)
      /\ \A i \in HLen + 1 .. Len(file) :
            /\ file[i].el # "torn" /\ file[i].el # "cues"
            /\ file[i].el = "cluster" => (file[i].size = Unknown <=> i = OpenAt)
  BY DEF StreamInv, FileInv, Finishing
<1>2. file[2].size = Unknown
  BY <1>1 DEF Segment
<1>3. mux.open => OpenAt \in HLen + 1 .. Len(file) /\ file[OpenAt].el = "cluster"
  BY LoopFacts DEF OpenAt, StreamInv, ScopeInv
<1> QED BY <1>1, <1>2, <1>3 DEF Growing

\* FileInv after one more cell.
LEMMA FileAfterWrite ==
    ASSUME LoopInv, StreamInv, Begun, pc \notin Finishing, opts' = opts, NEW c, Write(c),
           Framed(file', HLen), c.el # "torn", c.el = "cues" => pc' \in Finishing,
           pc' \notin {"duration", "seekhead", "done"},
           IF c.el = "cluster" THEN c.size = Unknown /\ ~mux.open /\ OpenAt' = Len(file) + 1
           ELSE OpenAt' = OpenAt
    PROVE  FileInv'
<1> DEFINE n == Len(file)
<1>1. HLen' = HLen /\ HLen \in {5, 6} /\ n \in Nat /\ HLen <= n
  BY SameTracks, LoopFacts DEF HLen
<1>2. /\ Len(file') = n + 1 /\ file'[n + 1] = c /\ \A i \in 1 .. n : file'[i] = file[i]
  BY Writes DEF Extended
<1>3. /\ file[2] = Segment(Unknown) /\ file[4].el = "info" /\ file[5].el = "tracks"
      /\ \A i \in HLen + 1 .. n :
            /\ file[i].el # "torn" /\ file[i].el # "cues"
            /\ file[i].el = "cluster" => /\ file[i].size = Unknown <=> i = OpenAt
                                         /\ file[i].size # Unknown => file[i].size > 0
  BY DEF StreamInv, FileInv, Finishing
<1>4. file'[2] = file[2] /\ file'[4] = file[4] /\ file'[5] = file[5]
  <2>1. 2 \in 1 .. n /\ 4 \in 1 .. n /\ 5 \in 1 .. n
    BY <1>1
  <2> QED BY <1>2, <2>1
<1>5. ASSUME NEW i \in HLen + 1 .. n + 1
      PROVE  /\ file'[i].el # "torn" /\ (file'[i].el = "cues" => pc' \in Finishing)
             /\ file'[i].el = "cluster" => /\ file'[i].size = Unknown <=> i = OpenAt'
                                           /\ file'[i].size # Unknown => file'[i].size > 0
  <2>1. CASE i = n + 1
    <3>1. file'[i] = c
      BY <1>2, <2>1
    <3> QED BY <2>1, <3>1
  <2>2. CASE i # n + 1
    <3>1. i \in HLen + 1 .. n /\ i \in 1 .. n /\ file'[i] = file[i] /\ i # 0
      BY <1>1, <1>2, <2>2
    <3>2. file[i].el = "cluster" => (i = OpenAt <=> i = OpenAt')
      BY <2>2, <3>1 DEF OpenAt
    <3> QED BY <1>3, <3>1, <3>2
  <2> QED BY <2>1, <2>2
<1> QED BY <1>1, <1>2, <1>3, <1>4, <1>5 DEF FileInv

\* StreamInv, step by step.  The header alone holds no packet.
LEMMA StreamHeader == ASSUME LoopInv, WriteHeader PROVE StreamInv'
<1>1. pc = "header" /\ pc' = "next" /\ file' = Header /\ UNCHANGED <<opts, mux, written>>
  BY DEF WriteHeader
<1>2. ~mux.open /\ written = <<>>
  BY <1>1 DEF LoopInv
<1>3. HLen' = HLen /\ HLen = Len(Header) /\ HLen \in Nat /\ HLen >= 5
  <2>1. HLen' = HLen /\ HLen = Len(Header)
    BY <1>1, SameTracks DEF HLen
  <2>2. HLen \in {5, 6}
    BY HeaderCells
  <2> QED BY <2>1, <2>2
<1>4. Framed(file', HLen)
  <2>1. Heading(Header, HLen)
    BY <1>3, HeaderCells DEF Heading, SegmentAt, Segment
  <2> QED BY <1>1, <1>3, <2>1 DEF Framed
<1>5. FileInv'
  <2>1. \A i \in HLen + 1 .. Len(file') : FALSE
    BY <1>1, <1>3
  <2> QED BY <1>1, <1>3, <1>4, <2>1, HeaderCells DEF FileInv, SegmentAt, InfoAt, TracksAt
<1>6. ScopeInv'
  BY <1>1, <1>2 DEF ScopeInv, Finishing
<1>7. ReadInv'
  <2> DEFINE g == [k \in {HLen} |-> Content0]
  <2>1. Reads(g, file', HLen) /\ g[Len(file')].packets = written'
    BY <1>1, <1>2, <1>3 DEF Reads, Content0
  <2> HIDE DEF g
  <2> QED BY <1>1, <1>2, <1>3, <2>1 DEF ReadInv
<1> QED BY <1>5, <1>6, <1>7 DEF StreamInv

\* A packet goes into the open cluster only if its time is within reach.
LEMMA StreamFrames == ASSUME LoopInv, StreamInv, NextFrame \/ LastFrame PROVE StreamInv'
<1>1. pc = "next" /\ UNCHANGED <<opts, file, mux, written>> /\ pc' \in {"next", "close", "block", "finalize"}
  BY DEF NextFrame, LastFrame
<1>2. HLen' = HLen /\ videoTrack' = videoTrack /\ OpenAt' = OpenAt /\ Begun /\ Begun'
  BY <1>1, SameTracks DEF HLen, OpenAt, Begun
<1>3. FileInv'
  BY <1>1, <1>2 DEF StreamInv, FileInv, Finishing
<1>4. ASSUME pc' = "block"
      PROVE  /\ mux.open /\ pkt'.ts - mux.ts <= RelLimit /\ pkt'.ts - mux.ts >= -RelLimit
             /\ ~(pkt'.key /\ pkt'.track = videoTrack)
  <2>1. \E p : pkt' = p /\ ~NeedNew(p)
    BY <1>1, <1>4 DEF NextFrame, LastFrame
  <2>2. pkt'.ts \in Int /\ RelLimit \in Nat
    BY <1>4, LoopNextFrame, LoopLastFrame, ConvertAssumption DEF LoopInv, PacketInv, PacketSet
  <2> QED BY <2>1, <2>2, LoopFacts DEF NeedNew, VideoKey
<1>5. ScopeInv'
  BY <1>1, <1>2, <1>4 DEF StreamInv, ScopeInv, Finishing, VideoKey
<1>6. ReadInv'
  BY <1>1, <1>2 DEF StreamInv, ReadInv
<1> QED BY <1>3, <1>5, <1>6 DEF StreamInv

\* The size patched is the one the demuxer already took: up to the end.
LEMMA StreamClose == ASSUME LoopInv, StreamInv, CloseCluster PROVE StreamInv'
<1>1. /\ pc \in {"close", "finalize"} /\ pc' \in {"open", "cues"}
      /\ mux' = [mux EXCEPT !.open = FALSE] /\ UNCHANGED <<opts, written>>
  BY DEF CloseCluster, reading
<1>2. HLen' = HLen /\ Begun /\ Begun' /\ pc \notin Finishing /\ pc' \notin Finishing
  BY <1>1, SameTracks DEF HLen, Begun, Finishing
<1>3. ~mux'.open /\ OpenAt' = 0
  BY <1>1 DEF LoopInv, MuxSet, OpenAt
<1>4. ScopeInv'
  BY <1>1, <1>2, <1>3 DEF ScopeInv
<1>5. PICK g : Reads(g, file, HLen) /\ g[Len(file)].packets = written
  BY <1>2 DEF StreamInv, ReadInv
<1>6. CASE ~mux.open
  <2>1. file' = file /\ OpenAt = 0
    BY <1>6, CloseWrites DEF OpenAt
  <2>2. FileInv'
    BY <1>1, <1>2, <1>3, <2>1 DEF StreamInv, FileInv
  <2>3. ReadInv'
    BY <1>1, <1>2, <1>3, <1>5, <2>1 DEF ReadInv
  <2> QED BY <1>4, <2>2, <2>3 DEF StreamInv
<1>7. CASE mux.open
  <2> DEFINE o == mux.sizeAt
             n == Len(file)
  <2>1. /\ Growing(file, HLen, o) /\ o \in HLen + 1 .. n /\ file[o].el = "cluster"
        /\ Patched(file', file, o, Cluster(n - o))
    BY <1>2, <1>7, GrowingFile, CloseWrites DEF OpenAt
  <2>2. Growing(file', HLen, 0)
    BY <2>1, ClosesCluster
  <2>3. o < n /\ n \in Nat /\ HLen \in {5, 6} /\ HLen <= n
    BY <1>1, <1>2, <1>7, LoopFacts DEF StreamInv, ScopeInv
  <2>4. Len(file') = n /\ file'[o] = Cluster(n - o) /\ \A i \in 1 .. n : i # o => file'[i] = file[i]
    BY <2>1 DEF Patched
  <2>5. file'[2] = file[2] /\ file'[4] = file[4] /\ file'[5] = file[5]
    <3>1. 2 \in 1 .. n /\ 4 \in 1 .. n /\ 5 \in 1 .. n /\ o # 2 /\ o # 4 /\ o # 5
      BY <2>1, <2>3
    <3> QED BY <2>4, <3>1
  <2>6. \A i \in HLen + 1 .. n :
           /\ file'[i].el # "torn" /\ file'[i].el # "cues"
           /\ file'[i].el = "cluster" => file'[i].size # Unknown /\ file'[i].size > 0
    <3> SUFFICES ASSUME NEW i \in HLen + 1 .. n
                 PROVE  /\ file'[i].el # "torn" /\ file'[i].el # "cues"
                        /\ file'[i].el = "cluster" => file'[i].size # Unknown /\ file'[i].size > 0
      OBVIOUS
    <3>1. CASE i = o
      <4>1. file'[i].el = "cluster" /\ file'[i].size = n - o
        BY <2>4, <3>1, OtherCells
      <4>2. n - o # Unknown /\ n - o > 0
        BY <2>1, <2>3 DEF Unknown
      <4> QED BY <4>1, <4>2
    <3>2. CASE i # o
      <4>1. file'[i] = file[i] /\ i # OpenAt
        BY <1>7, <2>3, <2>4, <3>2 DEF OpenAt
      <4> QED BY <1>2, <4>1 DEF StreamInv, FileInv
    <3> QED BY <3>1, <3>2
  <2>7. file[2] = Segment(Unknown) /\ file[4].el = "info" /\ file[5].el = "tracks"
    BY <1>1, <1>2 DEF StreamInv, FileInv
  <2>8. FileInv'
    <3>1. \A i \in HLen + 1 .. n : i # 0
      BY <2>3
    <3> QED BY <1>1, <1>2, <1>3, <2>2, <2>4, <2>5, <2>6, <2>7, <3>1 DEF FileInv, Growing
  <2>9. Reads(g, file', HLen)
    <3>1. \A i \in HLen + 1 .. n :
             file'[i] = file[i] \/ (file'[i].el = "cluster" /\ file[i].el = "cluster")
      <4>1. \A i \in HLen + 1 .. n : i \in 1 .. n
        BY <2>3
      <4> QED BY <2>1, <2>4, <4>1, OtherCells
    <3> QED BY <1>5, <2>4, <3>1, ReadsPatched
  <2>10. ReadInv'
    BY <1>1, <1>2, <1>3, <1>5, <2>4, <2>9 DEF ReadInv
  <2> QED BY <1>4, <2>8, <2>10 DEF StreamInv
<1> QED BY <1>6, <1>7

\* A new cluster starts where the last one, closed, ends.
LEMMA StreamOpen == ASSUME LoopInv, StreamInv, OpenCluster PROVE StreamInv'
<1> DEFINE n == Len(file)
           c == Cluster(Unknown)
<1>1. /\ pc = "open" /\ pc' = "stamp" /\ UNCHANGED <<opts, pkt, written>> /\ Write(c)
      /\ mux' = [mux EXCEPT !.open = TRUE, !.sizeAt = n + 1, !.ts = pkt.ts, !.bytes = 0]
  BY DEF OpenCluster, reading
<1>2. HLen' = HLen /\ Begun /\ Begun' /\ pc \notin Finishing /\ pc' \notin Finishing
  BY <1>1, SameTracks DEF HLen, Begun, Finishing
<1>3. ~mux.open /\ OpenAt = 0
  BY <1>1 DEF StreamInv, ScopeInv, OpenAt
<1>4. mux'.open /\ mux'.sizeAt = n + 1 /\ mux'.ts = pkt.ts /\ OpenAt' = n + 1
  BY <1>1 DEF LoopInv, MuxSet, OpenAt
<1>5. /\ Extended(file', file, c) /\ Len(file') = n + 1 /\ file'[n + 1] = c
      /\ n \in Nat /\ HLen \in Nat /\ HLen <= n
  BY <1>1, <1>2, Writes, LoopFacts DEF Extended
<1>6. Framed(file', HLen)
  BY <1>2, <1>3, <1>5, GrowingFile, GrowsAtTop, OtherCells
<1>7. FileInv'
  BY <1>1, <1>2, <1>3, <1>4, <1>6, FileAfterWrite, OtherCells DEF Finishing
<1>8. ScopeInv'
  BY <1>1, <1>2, <1>4, <1>5, OtherCells DEF ScopeInv
<1>9. ReadInv'
  <2>1. PICK g : Reads(g, file, HLen) /\ g[n].packets = written
    BY <1>2 DEF StreamInv, ReadInv
  <2>2. PICK u : Reads(u, file', HLen) /\ u[Len(file')] = Taken(g[n], c)
    BY <1>5, <2>1, ReadsExtended
  <2>3. Taken(g[n], c).packets = g[n].packets
    BY OtherCells DEF Taken, IsBlock
  <2> QED BY <1>1, <1>2, <2>1, <2>2, <2>3 DEF ReadInv
<1> QED BY <1>7, <1>8, <1>9 DEF StreamInv

\* Its timestamp is that of the packet it was opened for.
LEMMA StreamStamp == ASSUME LoopInv, StreamInv, StampCluster PROVE StreamInv'
<1> DEFINE n == Len(file)
           c == Timestamp(pkt.ts)
<1>1. /\ pc = "stamp" /\ pc' = "block" /\ UNCHANGED <<opts, pkt, mux, written>> /\ Write(c)
  BY DEF StampCluster, reading
<1>2. HLen' = HLen /\ videoTrack' = videoTrack /\ Begun /\ Begun' /\ pc \notin Finishing /\ pc' \notin Finishing
  BY <1>1, SameTracks DEF HLen, Begun, Finishing
<1>3. mux.open /\ mux.ts = pkt.ts /\ mux.sizeAt = n /\ OpenAt' = OpenAt /\ OpenAt = n
  BY <1>1 DEF StreamInv, ScopeInv, OpenAt
<1>4. pkt.ts \in Int /\ RelLimit \in Nat
  BY <1>1, ConvertAssumption DEF LoopInv, PacketInv, PacketSet
<1>5. /\ Extended(file', file, c) /\ Len(file') = n + 1 /\ file'[n + 1] = c
      /\ n \in Nat /\ HLen \in Nat /\ HLen <= n /\ n \in 1 .. n /\ file'[n] = file[n]
  <2>1. n \in Nat /\ HLen \in {5, 6} /\ HLen <= n
    BY <1>2, LoopFacts
  <2> QED BY <1>1, <2>1, Writes DEF Extended
<1>6. PlainCell(c) /\ c.el = "timestamp" /\ c.ts = pkt.ts
  BY <1>4, OtherCells
<1> HIDE DEF c
<1>7. Framed(file', HLen)
  BY <1>2, <1>3, <1>5, <1>6, GrowingFile, GrowsInside DEF ChildKinds
<1>8. FileInv'
  BY <1>1, <1>2, <1>3, <1>6, <1>7, FileAfterWrite DEF Finishing
<1>9. ScopeInv'
  <2>1. file'[mux.sizeAt].el = "cluster"
    BY <1>2, <1>3, <1>5, GrowingFile
  <2>2. pkt.ts - mux.ts = 0 /\ mux.sizeAt = Len(file') - 1 /\ mux.sizeAt < Len(file')
    BY <1>3, <1>4, <1>5
  <2>3. file'[Len(file')] = Timestamp(pkt.ts)
    BY <1>5 DEF c
  <2> QED BY <1>1, <1>2, <1>3, <1>4, <2>1, <2>2, <2>3 DEF ScopeInv
<1>10. ReadInv'
  <2>1. PICK g : Reads(g, file, HLen) /\ g[n].packets = written
    BY <1>2 DEF StreamInv, ReadInv
  <2>2. PICK u : Reads(u, file', HLen) /\ u[Len(file')] = Taken(g[n], c)
    BY <1>5, <2>1, ReadsExtended
  <2>3. Taken(g[n], c).packets = g[n].packets /\ Taken(g[n], c).ts = pkt.ts
    BY <1>6 DEF Taken, IsBlock
  <2> QED BY <1>1, <1>2, <1>3, <2>1, <2>2, <2>3 DEF ReadInv
<1> QED BY <1>8, <1>9, <1>10 DEF StreamInv

\* The block reads back as the packet.
LEMMA StreamBlock == ASSUME LoopInv, StreamInv, WriteBlock PROVE StreamInv'
<1> DEFINE n == Len(file)
           c == Block(ToInt16(pkt.ts - mux.ts))
<1>1. /\ pc = "block" /\ pc' = "next" /\ UNCHANGED <<opts, pkt>> /\ Write(c)
      /\ written' = Append(written, pkt)
      /\ mux' = [mux EXCEPT !.bytes = @ + 1,
                            !.cues = IF VideoKey(pkt) THEN Append(@, Cue) ELSE @,
                            !.maxTS = IF pkt.ts > @ THEN pkt.ts ELSE @]
  BY DEF WriteBlock, reading
<1>2. HLen' = HLen /\ Begun /\ Begun' /\ pc \notin Finishing /\ pc' \notin Finishing
  BY <1>1, SameTracks DEF HLen, Begun, Finishing
<1>3. /\ mux'.open = mux.open /\ mux'.sizeAt = mux.sizeAt /\ mux'.ts = mux.ts
      /\ OpenAt' = OpenAt /\ mux.open /\ OpenAt = mux.sizeAt
  BY <1>1 DEF StreamInv, ScopeInv, OpenAt, LoopInv, MuxSet
<1>4. PlainCell(c) /\ c.el \in {"simple", "group"} /\ IsBlock(c) /\ PacketOf(c, mux.ts) = pkt
  BY <1>1, BlockCell, LoopFacts DEF LoopInv, StreamInv, ScopeInv
<1>5. /\ Extended(file', file, c) /\ Len(file') = n + 1 /\ file'[n + 1] = c
      /\ n \in Nat /\ HLen \in Nat /\ HLen <= n /\ \A i \in 1 .. n : file'[i] = file[i]
  <2>1. n \in Nat /\ HLen \in {5, 6} /\ HLen <= n
    BY <1>2, LoopFacts
  <2> QED BY <1>1, <2>1, Writes DEF Extended
<1> HIDE DEF c
<1>6. /\ Growing(file, HLen, OpenAt) /\ OpenAt \in HLen + 1 .. n /\ file[OpenAt].el = "cluster"
      /\ OpenAt < n
  BY <1>1, <1>2, <1>3, GrowingFile DEF StreamInv, ScopeInv
<1>7. Framed(file', HLen)
  BY <1>4, <1>5, <1>6, GrowsInside DEF ChildKinds
<1>8. FileInv'
  BY <1>1, <1>2, <1>3, <1>4, <1>7, FileAfterWrite DEF Finishing
<1>9. ScopeInv'
  <2>1. file'[mux.sizeAt].el = "cluster" /\ mux.sizeAt < n + 1
    BY <1>3, <1>5, <1>6
  <2> QED BY <1>1, <1>2, <1>3, <1>5, <2>1 DEF ScopeInv
<1>10. ReadInv'
  <2>1. PICK g : Reads(g, file, HLen) /\ g[n].packets = written /\ g[n].ts = mux.ts
    BY <1>1, <1>2, <1>3 DEF StreamInv, ReadInv
  <2>2. PICK u : Reads(u, file', HLen) /\ u[Len(file')] = Taken(g[n], c)
    BY <1>5, <2>1, ReadsExtended
  <2>3. Taken(g[n], c).packets = Append(written, pkt) /\ Taken(g[n], c).ts = mux.ts
    BY <1>4, <2>1 DEF Taken
  <2> QED BY <1>1, <1>2, <1>3, <2>2, <2>3 DEF ReadInv
<1> QED BY <1>8, <1>9, <1>10 DEF StreamInv

\* Cues stand where the last cluster, closed, ends.
LEMMA StreamCues == ASSUME LoopInv, StreamInv, WriteCues PROVE StreamInv'
<1> DEFINE n == Len(file)
           c == Cues(mux.cues)
<1>1. /\ pc = "cues" /\ pc' = "segment" /\ UNCHANGED <<opts, pkt, written>>
      /\ file' = file \/ Write(c)
      /\ mux' = [mux EXCEPT !.cuesPos = Len(file) - SegDataOff]
  BY DEF WriteCues, reading
<1>2. HLen' = HLen /\ Begun /\ Begun' /\ pc \notin Finishing /\ pc' \in Finishing
  BY <1>1, SameTracks DEF HLen, Begun, Finishing
<1>3. ~mux.open /\ mux'.open = mux.open /\ OpenAt = 0 /\ OpenAt' = 0
  BY <1>1 DEF StreamInv, ScopeInv, OpenAt, LoopInv, MuxSet
<1>4. ScopeInv'
  BY <1>1, <1>2, <1>3 DEF ScopeInv
<1>5. PICK g : Reads(g, file, HLen) /\ g[n].packets = written
  BY <1>2 DEF StreamInv, ReadInv
<1>6. CASE file' = file
  <2>1. FileInv'
    BY <1>1, <1>2, <1>3, <1>6 DEF StreamInv, FileInv
  <2>2. ReadInv'
    BY <1>1, <1>2, <1>3, <1>5, <1>6 DEF ReadInv
  <2> QED BY <1>4, <2>1, <2>2 DEF StreamInv
<1>7. CASE Write(c)
  <2>1. /\ Extended(file', file, c) /\ Len(file') = n + 1
        /\ n \in Nat /\ HLen \in Nat /\ HLen <= n
    BY <1>2, <1>7, Writes, LoopFacts
  <2>2. PlainCell(c) /\ c.el = "cues"
    BY OtherCells
  <2> HIDE DEF c
  <2>3. Framed(file', HLen)
    BY <1>2, <1>3, <2>1, <2>2, GrowingFile, GrowsAtTop
  <2>4. FileInv'
    BY <1>1, <1>2, <1>3, <1>7, <2>2, <2>3, FileAfterWrite DEF Finishing
  <2>5. PICK u : Reads(u, file', HLen) /\ u[Len(file')] = Taken(g[n], c)
    BY <1>5, <2>1, ReadsExtended
  <2>6. Taken(g[n], c).packets = written
    BY <1>5, <2>2 DEF Taken, IsBlock
  <2>7. ReadInv'
    BY <1>1, <1>2, <1>3, <2>5, <2>6 DEF ReadInv
  <2> QED BY <1>4, <2>4, <2>7 DEF StreamInv
<1> QED BY <1>1, <1>6, <1>7

\* The patches of Finalize touch the header only.
LEMMA StreamPatch ==
    ASSUME LoopInv, StreamInv, PatchSegment \/ PatchDuration \/ PatchSeekHead
    PROVE  StreamInv'
<1> DEFINE n == Len(file)
<1>1. /\ \/ PatchSegment /\ pc = "segment" /\ pc' = "duration"
         \/ PatchDuration /\ pc = "duration" /\ pc' = "seekhead"
         \/ PatchSeekHead /\ pc = "seekhead" /\ pc' = "done"
      /\ UNCHANGED <<opts, pkt, mux, written>>
  BY DEF PatchSegment, PatchDuration, PatchSeekHead, reading
<1>2. /\ HLen' = HLen /\ Begun /\ Begun' /\ pc \in Finishing /\ pc' \in Finishing
      /\ OpenAt' = OpenAt
  BY <1>1, SameTracks DEF HLen, Begun, Finishing, OpenAt
<1>3. n \in Nat /\ HLen \in {5, 6} /\ HLen <= n /\ Framed(file, HLen)
  BY <1>2, LoopFacts DEF StreamInv, FileInv
<1> DEFINE Patch(k, c) == /\ Patched(file', file, k, c)
                          /\ IF k = 2 THEN c = Segment(n - 2) ELSE c.el \in HeaderKinds
                          /\ pc = "segment" <=> k = 2
                          /\ k = 4 => c.el = "info"
<1>4. \E k \in 2 .. 4 : \E c : Patch(k, c)
  <2>1. CASE PatchSegment /\ pc = "segment"
    <3>1. Patch(2, Segment(n - 2))
      BY <1>2, <2>1, PatchWrites
    <3> HIDE DEF Patch
    <3> QED BY <3>1
  <2>2. CASE PatchDuration /\ pc = "duration"
    <3>1. [file[4] EXCEPT !.duration = mux.maxTS].el = file[4].el /\ file[4].el = "info"
      BY <1>2 DEF StreamInv, FileInv
    <3>2. Patch(4, [file[4] EXCEPT !.duration = mux.maxTS])
      BY <1>2, <2>2, <3>1, PatchWrites DEF HeaderKinds
    <3> HIDE DEF Patch
    <3> QED BY <3>2
  <2>3. CASE PatchSeekHead /\ pc = "seekhead"
    <3>1. SeekHead(SeekTargets).el = "seekhead"
      BY DEF SeekHead
    <3>2. Patch(3, SeekHead(SeekTargets))
      BY <1>2, <2>3, <3>1, PatchWrites DEF HeaderKinds
    <3> HIDE DEF Patch
    <3> QED BY <3>2
  <2> QED BY <1>1, <2>1, <2>2, <2>3
<1>5. PICK k \in 2 .. 4 : \E c : Patch(k, c)
  BY <1>4
<1>6. PICK c : Patch(k, c)
  BY <1>5
<1>7. k \in 2 .. HLen
  BY <1>3
<1>8. Framed(file', HLen) /\ \A i \in HLen + 1 .. n : file'[i] = file[i]
  BY <1>3, <1>6, <1>7, HeaderPatch
<1>9. Len(file') = n /\ file'[k] = c /\ \A i \in 1 .. n : i # k => file'[i] = file[i]
  BY <1>6 DEF Patched
<1>10. FileInv'
  <2>1. file'[4].el = "info" /\ file'[5].el = "tracks"
    <3>1. 4 \in 1 .. n /\ 5 \in 1 .. n /\ k # 5
      BY <1>3
    <3>2. file[4].el = "info" /\ file[5].el = "tracks"
      BY <1>2 DEF StreamInv, FileInv
    <3> QED BY <1>6, <1>9, <3>1, <3>2
  <2>2. file'[2] = Segment(n - 2)
    <3>1. CASE k = 2
      BY <1>6, <1>9, <3>1
    <3>2. CASE k # 2
      <4>1. 2 \in 1 .. n /\ pc \in {"duration", "seekhead"}
        BY <1>1, <1>3, <1>6, <3>2
      <4> QED BY <1>2, <1>9, <3>2, <4>1 DEF StreamInv, FileInv
    <3> QED BY <3>1, <3>2
  <2>3. pc' \in {"duration", "seekhead", "done"}
    BY <1>1
  <2> QED BY <1>2, <1>8, <1>9, <2>1, <2>2, <2>3 DEF StreamInv, FileInv
<1>11. ScopeInv'
  BY <1>1, <1>2 DEF StreamInv, ScopeInv
<1>12. ReadInv'
  <2>1. PICK g : Reads(g, file, HLen) /\ g[n].packets = written
    BY <1>2 DEF StreamInv, ReadInv
  <2>2. Reads(g, file', HLen)
    BY <1>8, <1>9, <2>1, ReadsPatched
  <2>3. ~mux.open
    BY <1>2 DEF StreamInv, ScopeInv
  <2> QED BY <1>1, <1>2, <1>9, <2>1, <2>2, <2>3 DEF ReadInv
<1> QED BY <1>10, <1>11, <1>12 DEF StreamInv

\* StreamInv asks nothing of an export that stopped; StopComplete does.
LEMMA StreamStop == ASSUME Stop PROVE StreamInv'
<1>1. pc' = "stopped"
  BY DEF Stop
<1> QED BY <1>1 DEF StreamInv, FileInv, ScopeInv, ReadInv, Begun, Finishing

\* Nothing is written initially.
LEMMA StreamInit == Init => StreamInv
  BY DEF Init, StreamInv, FileInv, ScopeInv, ReadInv, Begun, Finishing

\* Every step keeps StreamInv.
LEMMA StreamNext == LoopInv /\ StreamInv /\ [Next]_vars => StreamInv'
<1> SUFFICES ASSUME LoopInv, StreamInv, [Next]_vars PROVE StreamInv'
  OBVIOUS
<1>1. CASE UNCHANGED vars
  <2>1. HLen' = HLen /\ videoTrack' = videoTrack
    BY <1>1, SameTracks DEF HLen, vars
  <2>2. FileInv'
    BY <1>1, <2>1 DEF vars, StreamInv, FileInv, Begun, OpenAt
  <2>3. ScopeInv'
    BY <1>1, <2>1 DEF vars, StreamInv, ScopeInv, Begun, VideoKey
  <2>4. ReadInv'
    BY <1>1, <2>1 DEF vars, StreamInv, ReadInv, Begun
  <2> QED BY <2>2, <2>3, <2>4 DEF StreamInv
<1> QED BY <1>1, StreamHeader, StreamFrames, StreamClose, StreamOpen, StreamStamp, StreamBlock,
           StreamCues, StreamPatch, StreamStop DEF Next

-----------------------------------------------------------------------------
(* A reader gets every packet.                                             *)

\* CompletePacketsRead, of any file and packets.
Complete(F, ps) ==
    /\ Demux(F).packets = ps
    /\ Demux(F).phase = "error" <=> Len(F) < SegDataOff \/ \E k \in DOMAIN F : F[k] = Torn

\* A file that has its two first cells.
LEMMA FramedComplete ==
    ASSUME NEW F, IsSeq(F), NEW h, Framed(F, h), NEW g, Reads(g, F, h)
    PROVE  Complete(F, g[Len(F)].packets)
<1> DEFINE n == Len(F)
<1>1. /\ n \in Nat /\ h \in Nat /\ 2 <= h /\ h <= n /\ DOMAIN F = 1 .. n /\ Heading(F, h)
  BY SeqAppend DEF Framed, Heading
<1>2. \A k \in 1 .. h : F[k] # Torn
  <2> SUFFICES ASSUME NEW k \in 1 .. h PROVE F[k] # Torn
    OBVIOUS
  <2>1. CASE k = 1
    BY <1>1, <2>1 DEF Heading, EBML, Torn
  <2>2. CASE k = 2
    BY <1>1, <2>2, OtherCells DEF Heading
  <2>3. CASE k \notin {1, 2}
    <3>1. F[k].el \in HeaderKinds
      BY <1>1, <2>3 DEF Heading
    <3> QED BY <3>1, OtherCells DEF HeaderKinds
  <2> QED BY <2>1, <2>2, <2>3
<1>3. \A k \in h + 1 .. n : F[k].el = "torn" <=> F[k] = Torn
  BY OtherCells DEF Framed, PlainCell
<1>4. (\E k \in h + 1 .. n : F[k].el = "torn") <=> \E k \in 1 .. n : F[k] = Torn
  <2>1. ASSUME NEW k \in h + 1 .. n, F[k].el = "torn" PROVE \E j \in 1 .. n : F[j] = Torn
    BY <1>1, <1>3, <2>1
  <2>2. ASSUME NEW k \in 1 .. n, F[k] = Torn PROVE \E j \in h + 1 .. n : F[j].el = "torn"
    <3>1. k \in h + 1 .. n
      BY <1>1, <1>2, <2>2
    <3> QED BY <1>3, <2>2, <3>1
  <2> HIDE DEF n
  <2> QED BY <2>1, <2>2, Zenon
<1>5. /\ Demux(F).packets = g[n].packets
      /\ Demux(F).phase = "error" <=> \E k \in h + 1 .. n : F[k].el = "torn"
  BY FramedRead
<1>6. ~(n < SegDataOff)
  BY <1>1 DEF SegDataOff
<1>7. DOMAIN F = 1 .. n
  BY <1>1
<1> HIDE DEF n
<1>8. Demux(F).phase = "error" <=> \E k \in 1 .. n : F[k] = Torn
  BY <1>4, <1>5, Zenon
<1> QED BY <1>5, <1>6, <1>7, <1>8 DEF Complete, n

\* A file that is cut off in its first two cells is no Matroska file.
LEMMA ShortComplete ==
    ASSUME NEW F, IsSeq(F), Len(F) <= 2, Len(F) > 0 => F[1] \in {EBML(TRUE), Torn},
           Len(F) = 2 => F[2] = Torn
    PROVE  Complete(F, <<>>)
<1> DEFINE n == Len(F)
<1>1. n \in 0 .. 2 /\ DOMAIN F = 1 .. n
  <2>1. Len(F) \in Nat /\ DOMAIN F = 1 .. Len(F)
    BY SeqAppend
  <2>2. \A x \in Nat : x <= 2 => x \in 0 .. 2
    OBVIOUS
  <2> QED BY <2>1, <2>2
<1>2. PICK f : Walks(f, F, n) /\ Walk(F, n) = f[n]
  BY <1>1, WalkRecursion
<1>3. /\ f[0] = Demuxer0 /\ Shape(f[0]) /\ f[0].phase = "ebml" /\ f[0].pos = 0 /\ f[0].packets = <<>>
  BY <1>2 DEF Walks, Shape, Demuxer0
<1>4. n >= 1 => /\ Shape(f[1]) /\ f[1].packets = <<>>
                /\ f[1].phase = IF F[1] = Torn THEN "error" ELSE "segment"
  <2> SUFFICES ASSUME n >= 1
               PROVE  /\ Shape(f[1]) /\ f[1].packets = <<>>
                      /\ f[1].phase = IF F[1] = Torn THEN "error" ELSE "segment"
    OBVIOUS
  <2>1. f[1] = ReadCell(f[0], F[1], n)
    <3>1. 1 \in 1 .. n /\ 1 - 1 = 0
      BY <1>1
    <3> QED BY <1>2, <3>1 DEF Walks
  <2>2. CASE F[1] = Torn
    <3>1. ReadCell(f[0], F[1], n) = [f[0] EXCEPT !.phase = "error"]
      BY <1>3, <2>2, OtherCells DEF ReadCell
    <3> QED BY <1>3, <2>1, <2>2, <3>1 DEF Shape, Demuxer0
  <2>3. CASE F[1] # Torn
    <3>1. F[1].el = "ebml" /\ F[1].matroska
      BY <1>1, <2>3 DEF EBML
    <3>2. Shape(f[1]) /\ f[1].phase = "segment" /\ f[1].packets = f[0].packets
      <4>1. f[0].phase = "ebml" /\ f[0].pos = 0 /\ Shape(f[0])
        BY <1>3
      <4> HIDE DEF n
      <4> QED BY <2>1, <3>1, <4>1, ReadEBMLCell
    <3> QED BY <1>3, <2>3, <3>2
  <2> QED BY <2>2, <2>3
<1>5. n = 2 => Shape(f[2]) /\ f[2].packets = <<>> /\ f[2].phase = "error"
  <2> SUFFICES ASSUME n = 2 PROVE Shape(f[2]) /\ f[2].packets = <<>> /\ f[2].phase = "error"
    OBVIOUS
  <2>1. f[2] = ReadCell(f[1], F[2], n)
    BY <1>2 DEF Walks
  <2>2. F[2].el = "torn" /\ Shape(f[1]) /\ f[1].packets = <<>> /\ f[1].phase \in {"error", "segment"}
    BY <1>4, OtherCells
  <2>3. ReadCell(f[1], F[2], n) = IF f[1].phase = "error" THEN f[1] ELSE [f[1] EXCEPT !.phase = "error"]
    <3>1. CASE f[1].phase = "error"
      BY <3>1 DEF ReadCell
    <3>2. CASE f[1].phase = "segment"
      BY <2>2, <3>2 DEF ReadCell
    <3> QED BY <2>2, <3>1, <3>2
  <2> QED BY <2>1, <2>2, <2>3 DEF Shape, Demuxer0
<1>6. Shape(f[n]) /\ f[n].packets = <<>> /\ f[n].phase \in {"ebml", "segment", "error"}
  <2>1. n = 0 \/ n = 1 \/ n = 2
    BY <1>1
  <2>2. CASE n = 0
    <3>1. f[n] = f[0]
      BY <2>2
    <3> QED BY <1>3, <3>1
  <2>3. CASE n = 1
    <3>1. f[n] = f[1]
      BY <2>3
    <3> HIDE DEF n
    <3> QED BY <1>4, <2>3, <3>1
  <2>4. CASE n = 2
    BY <1>5, <2>4
  <2> QED BY <2>1, <2>2, <2>3, <2>4
<1> DEFINE d == f[n]
<1>7. Demux(F) = AtEnd(d)
  BY <1>2 DEF Demux
<1> HIDE DEF d
<1>8. AtEnd(d).packets = <<>> /\ AtEnd(d).phase = "error"
  BY <1>6 DEF AtEnd, Shape, Demuxer0, d
<1>9. n < 2 \/ \E k \in 1 .. n : F[k] = Torn
  BY <1>1
<1> QED BY <1>1, <1>7, <1>8, <1>9 DEF Complete, SegDataOff

\* While the export has not stopped.
LEMMA RunningComplete ==
    ASSUME LoopInv, StreamInv, pc # "stopped"
    PROVE  Complete(file, written)
<1>1. CASE Begun
  <2>1. PICK g : Reads(g, file, HLen) /\ g[Len(file)].packets = written
    BY <1>1 DEF StreamInv, ReadInv
  <2>2. Framed(file, HLen) /\ IsSeq(file)
    BY <1>1, LoopFacts DEF StreamInv, FileInv
  <2> QED BY <2>1, <2>2, FramedComplete
<1>2. CASE ~Begun
  <2>1. file = <<>> /\ written = <<>> /\ IsSeq(file)
    BY <1>2 DEF Begun, LoopInv
  <2>2. Len(file) <= 2 /\ ~(Len(file) > 0) /\ Len(file) # 2
    BY <2>1
  <2>3. Complete(file, <<>>)
    BY <2>1, <2>2, ShortComplete
  <2> QED BY <2>1, <2>3
<1> QED BY <1>1, <1>2

\* A header of which only the first cells were written.
LEMMA PartComplete ==
    ASSUME NEW k \in 0 .. Len(Header) - 1, NEW F,
           F \in {SubSeq(Header, 1, k), Append(SubSeq(Header, 1, k), Torn)}
    PROVE  Complete(F, <<>>)
<1> DEFINE part == SubSeq(Header, 1, k)
<1>1. /\ IsSeq(part) /\ Len(part) = k /\ \A i \in 1 .. k : part[i] = Header[i]
      /\ HLen \in {5, 6} /\ HLen = Len(Header)
  BY PartOfHeader, HeaderCells DEF HLen
<1>2. /\ IsSeq(F) /\ Len(F) \in {k, k + 1} /\ \A i \in 1 .. k : F[i] = Header[i]
      /\ Len(F) = k + 1 => F[k + 1] = Torn
  <2>1. CASE F = part
    BY <1>1, <2>1
  <2>2. CASE F = Append(part, Torn)
    BY <1>1, <2>2, SeqAppend DEF Extended
  <2> QED BY <2>1, <2>2
<1> HIDE DEF part
<1>3. CASE k < 2
  <2>1. k = 0 \/ k = 1
    BY <1>3
  <2>2. Len(F) <= 2 /\ (Len(F) > 0 => F[1] \in {EBML(TRUE), Torn}) /\ (Len(F) = 2 => F[2] = Torn)
    <3>1. CASE k = 0
      <4>1. k + 1 = 1 /\ Len(F) \in {0, 1}
        BY <1>2, <3>1
      <4>2. Len(F) > 0 => F[1] = Torn
        BY <1>2, <4>1
      <4>3. Len(F) <= 2 /\ Len(F) # 2
        BY <4>1
      <4> QED BY <4>2, <4>3
    <3>2. CASE k = 1
      <4>1. k + 1 = 2 /\ Len(F) \in {1, 2} /\ 1 \in 1 .. k
        BY <1>2, <3>2
      <4>2. Len(F) = 2 => F[2] = Torn
        BY <1>2, <4>1
      <4>3. F[1] = EBML(TRUE)
        BY <1>2, <4>1, HeaderCells
      <4> QED BY <4>1, <4>2, <4>3
    <3> QED BY <2>1, <3>1, <3>2
  <2> QED BY <1>2, <2>2, ShortComplete
<1>4. CASE k >= 2
  <2>1. Heading(F, k)
    <3>1. k \in Nat /\ 1 \in 1 .. k /\ 2 \in 1 .. k /\ \A i \in 3 .. k : i \in 1 .. k /\ i \in 3 .. HLen
      BY <1>1, <1>4
    <3>2. F[2].el = "segment" /\ F[2].size = Unknown
      BY <1>2, <3>1, HeaderCells DEF SegmentAt, Segment
    <3>3. F[1] = EBML(TRUE) /\ \A i \in 3 .. k : F[i].el \in HeaderKinds
      BY <1>2, <3>1, HeaderCells
    <3> QED BY <1>2, <1>4, <3>1, <3>2, <3>3 DEF Heading
  <2>2. \A i \in k + 1 .. Len(F) : i = k + 1 /\ i = Len(F) /\ F[i] = Torn
    BY <1>2
  <2>3. Framed(F, k)
    BY <1>2, <2>1, <2>2, OtherCells DEF Framed, ChildKinds
  <2> DEFINE g == [i \in {k, k + 1} |-> Content0]
  <2>4. Reads(g, F, k)
    <3>1. Taken(Content0, Torn) = Content0
      BY DEF Taken, Content0, Torn, IsBlock
    <3>2. \A i \in k + 1 .. Len(F) : g[i] = Content0 /\ g[i - 1] = Content0
      BY <2>2
    <3>3. g[k] = Content0
      OBVIOUS
    <3> HIDE DEF g
    <3> QED BY <2>2, <3>1, <3>2, <3>3 DEF Reads
  <2>5. g[Len(F)].packets = <<>>
    BY <1>2 DEF Content0
  <2> HIDE DEF g
  <2> QED BY <1>2, <2>3, <2>4, <2>5, FramedComplete
<1> QED BY <1>3, <1>4

\* Wherever the export stops.
LEMMA StopComplete ==
    ASSUME LoopInv, StreamInv, Stop
    PROVE  Complete(file', written')
<1>1. pc \notin {"refused", "done", "stopped"} /\ UNCHANGED <<opts, mux, written>>
  BY DEF Stop, reading
<1>2. CASE pc = "header"
  <2>1. PICK k \in 0 .. Len(Header) - 1 :
            file' \in {SubSeq(Header, 1, k), Append(SubSeq(Header, 1, k), Torn)}
    BY <1>2 DEF Stop
  <2>2. written' = <<>>
    BY <1>1, <1>2 DEF LoopInv
  <2> QED BY <2>1, <2>2, PartComplete
<1>3. CASE file' = file
  BY <1>1, <1>3, RunningComplete
<1>4. CASE pc \in {"open", "stamp", "block", "cues"} /\ Write(Torn)
  <2> DEFINE n == Len(file)
  <2>1. Begun /\ pc \notin Finishing
    BY <1>4 DEF Begun, Finishing
  <2>2. /\ IsSeq(file') /\ Extended(file', file, Torn) /\ Len(file') = n + 1
        /\ n \in Nat /\ HLen \in Nat /\ HLen <= n
    BY <1>4, <2>1, Writes, LoopFacts
  <2>3. Framed(file', HLen)
    <3>1. CASE pc \in {"open", "cues"}
      <4>1. OpenAt = 0
        BY <3>1 DEF StreamInv, ScopeInv, OpenAt
      <4> QED BY <2>1, <2>2, <4>1, GrowingFile, GrowsAtTop, OtherCells
    <3>2. CASE pc \in {"stamp", "block"}
      <4>1. mux.open
        BY <3>2 DEF StreamInv, ScopeInv
      <4> QED BY <2>1, <2>2, <4>1, GrowingFile, GrowsInside, OtherCells DEF ChildKinds
    <3> QED BY <1>4, <3>1, <3>2
  <2>4. PICK g : Reads(g, file, HLen) /\ g[n].packets = written
    BY <2>1 DEF StreamInv, ReadInv
  <2>5. PICK u : Reads(u, file', HLen) /\ u[Len(file')] = Taken(g[n], Torn)
    BY <2>2, <2>4, ReadsExtended
  <2>6. Taken(g[n], Torn).packets = written
    BY <2>4, OtherCells DEF Taken, IsBlock
  <2> QED BY <1>1, <2>2, <2>3, <2>5, <2>6, FramedComplete
<1> QED BY <1>2, <1>3, <1>4 DEF Stop

\* mux.go writes a block only into a cluster that is open and whose time is
\* within reach of its 16 bits, and patches only sizes that move no scope, so
\* that wherever the export stands or has stopped, ReadPacket gives back exactly
\* what WritePacket accepted, and fails only at a cut-off element.
THEOREM ExportReadable == Spec => []CompletePacketsRead
<1> DEFINE Inv == LoopInv /\ StreamInv /\ (pc = "stopped" => Complete(file, written))
<1>1. Init => Inv
  BY LoopInit, StreamInit DEF Init
<1>2. Inv /\ [Next]_vars => Inv'
  <2> SUFFICES ASSUME Inv, [Next]_vars, pc' = "stopped" PROVE Complete(file', written')
    BY LoopNext, StreamNext
  <2>1. CASE Stop
    BY <2>1, StopComplete
  <2>2. CASE UNCHANGED vars
    BY <2>2 DEF vars
  <2> QED BY <2>1, <2>2 DEF Next, WriteHeader, NextFrame, LastFrame, CloseCluster, OpenCluster,
             StampCluster, WriteBlock, WriteCues, PatchSegment, PatchDuration, PatchSeekHead
<1>3. Inv => CompletePacketsRead
  BY RunningComplete DEF CompletePacketsRead, Complete
<1> QED BY <1>1, <1>2, <1>3, PTL DEF Spec

-----------------------------------------------------------------------------
(* The sizes of a finished file.                                           *)

\* FileInv of a finished file is the claim: no cluster is open any more.
LEMMA FinishedSizes == ASSUME LoopInv, StreamInv PROVE SizesDescribeFile
<1> SUFFICES ASSUME pc = "done" PROVE SizesDescribeFile
  BY DEF SizesDescribeFile
<1> DEFINE n == Len(file)
<1>1. /\ n \in Nat /\ HLen \in {5, 6} /\ HLen <= n /\ DOMAIN file = 1 .. n
      /\ Framed(file, HLen) /\ OpenAt = 0
  <2>1. Begun
    BY DEF Begun
  <2>2. Framed(file, HLen) /\ ~mux.open
    BY <2>1 DEF StreamInv, FileInv, ScopeInv, Finishing
  <2> QED BY <2>1, <2>2, LoopFacts, SeqAppend DEF OpenAt
<1>2. file[2].size = n - 2
  BY DEF StreamInv, FileInv, Begun, Segment
<1>3. ASSUME NEW i \in 1 .. n, file[i].el = "cluster" PROVE i \in HLen + 1 .. n
  <2>1. Heading(file, HLen)
    BY <1>1 DEF Framed
  <2>2. i # 1 /\ i # 2
    BY <1>3, <2>1 DEF Heading, EBML
  <2>3. i \notin 3 .. HLen
    BY <1>3, <2>1 DEF Heading, HeaderKinds
  <2> QED BY <1>1, <2>2, <2>3
<1>4. ASSUME NEW i \in 1 .. n, file[i].el = "cluster"
      PROVE  LET next == i + file[i].size + 1
             IN  /\ file[i].size > 0 /\ next <= n + 1
                 /\ next <= n => file[next].el \in {"cluster", "cues"}
                 /\ \A j \in i + 1 .. next - 1 : file[j].el \notin {"cluster", "cues"}
  <2> DEFINE next == i + file[i].size + 1
  <2>1. i \in HLen + 1 .. n /\ i # 0
    BY <1>3, <1>4
  <2>2. file[i].size # Unknown /\ file[i].size > 0
    BY <1>1, <1>4, <2>1 DEF StreamInv, FileInv, Begun
  <2>3. ClusterFits(file, i) /\ Extent(file, i) = i + file[i].size /\ file[i].size \in Nat
    BY <1>1, <1>4, <2>1, <2>2 DEF Framed, ClusterFits, Extent
  <2>4. next = Extent(file, i) + 1 /\ next - 1 = Extent(file, i) /\ next \in Nat
    BY <2>1, <2>3
  <2>5. /\ Extent(file, i) <= n /\ \A j \in i + 1 .. Extent(file, i) : file[j].el \in ChildKinds
        /\ Extent(file, i) < n => file[Extent(file, i) + 1].el \in {"cluster", "cues", "torn"}
    BY <2>3 DEF ClusterFits
  <2> HIDE DEF next
  <2>6. next <= n + 1
    BY <1>1, <2>4, <2>5
  <2>7. \A j \in i + 1 .. next - 1 : file[j].el \notin {"cluster", "cues"}
    BY <2>4, <2>5 DEF ChildKinds
  <2>8. ASSUME next <= n PROVE file[next].el \in {"cluster", "cues"}
    <3>1. file[next].el \in {"cluster", "cues", "torn"}
      BY <1>1, <2>1, <2>3, <2>4, <2>5, <2>8
    <3>2. next \in HLen + 1 .. n
      BY <1>1, <2>1, <2>3, <2>4, <2>8
    <3>3. file[next].el # "torn"
      BY <3>2 DEF StreamInv, FileInv, Begun
    <3> QED BY <3>1, <3>3
  <2> QED BY <2>2, <2>6, <2>7, <2>8 DEF next
<1> QED BY <1>1, <1>2, <1>4 DEF SizesDescribeFile, SegmentAt, SegDataOff

\* closeCluster and Finalize patch every size: in a finished file the segment ends
\* with the file, and every cluster where the next one, the cues or the end begins.
THEOREM ExportSizes == Spec => []SizesDescribeFile
<1>1. Init => LoopInv /\ StreamInv
  BY LoopInit, StreamInit
<1>2. LoopInv /\ StreamInv /\ [Next]_vars => LoopInv' /\ StreamInv'
  BY LoopNext, StreamNext
<1>3. LoopInv /\ StreamInv => SizesDescribeFile
  BY FinishedSizes
<1> QED BY <1>1, <1>2, <1>3, PTL DEF Spec

-----------------------------------------------------------------------------
(* The cues.                                                               *)

\* The keyframes that have a cue.
KeySet == {p \in PacketSet : VideoKey(p)}
Keys   == Select(written, KeySet)

\* Cue c leads to a cluster that has the time of p and begins with p.
Leads(F, c, p) ==
    LET a == SegDataOff + c.cluster + 1
    IN  /\ c.time = p.ts /\ a \in HLen + 1 .. Len(F) - 2
        /\ F[a].el = "cluster" /\ F[a + 1] = Timestamp(p.ts)
        /\ IsBlock(F[a + 2]) /\ F[a + 2].block.rest = p.data

\* There is a cue for every keyframe, in order.
KeysInv ==
    Begun => /\ Len(mux.cues) = Len(Keys)
             /\ \A k \in 1 .. Len(Keys) : Leads(file, mux.cues[k], Keys[k])

\* The cues and, in the end, the SeekHead have been written.
FinishInv ==
    pc \in Finishing =>
        /\ mux.cues # <<>> => /\ file[Len(file)] = Cues(mux.cues) /\ HLen < Len(file)
                              /\ mux.cuesPos = Len(file) - SegDataOff - 1
        /\ pc = "done" => file[3] = SeekHead(SeekTargets)

\* What holds of the cues while the export runs.
CueInv == KeysInv /\ FinishInv

\* The keyframes among the packets written.
LEMMA KeysType ==
    ASSUME LoopInv
    PROVE  /\ Keys = Select(written, {p \in Range(written) : VideoKey(p)})
           /\ Len(Keys) \in Nat /\ DOMAIN Keys = 1 .. Len(Keys) /\ Keys \in Seq(PacketSet \cap KeySet)
<1> DEFINE U == {p \in Range(written) : VideoKey(p)}
<1>1. written \in Seq(PacketSet)
  BY DEF LoopInv
<1>2. ASSUME NEW i \in 1 .. Len(written) PROVE written[i] \in U <=> written[i] \in KeySet
  <2>1. written[i] \in PacketSet /\ i \in DOMAIN written
    BY <1>1, ElementOfSeq, LenProperties
  <2>2. written[i] \in Range(written)
    BY <2>1 DEF Range
  <2> QED BY <2>1, <2>2 DEF KeySet
<1>3. Select(written, KeySet) = Select(written, U)
  <2> HIDE DEF U
  <2> QED BY <1>1, <1>2, SelectAgree
<1>4. Keys \in Seq(PacketSet \cap KeySet)
  BY <1>1, SelectType DEF Keys
<1> QED BY <1>3, <1>4, LenProperties DEF Keys

\* Behind the header, H has the cells of F, except for the sizes of clusters.
Kept(H, F) ==
    /\ Len(F) <= Len(H)
    /\ \A i \in HLen + 1 .. Len(F) : H[i] = F[i] \/ (H[i].el = "cluster" /\ F[i].el = "cluster")

\* Then a cue leads where it led.
LEMMA LeadsKept ==
    ASSUME NEW F, NEW H, Kept(H, F), Len(F) \in Nat, Len(H) \in Nat, HLen \in Nat,
           NEW c, NEW p, Leads(F, c, p)
    PROVE  Leads(H, c, p)
<1> DEFINE a == SegDataOff + c.cluster + 1
<1>1. /\ c.time = p.ts /\ a \in HLen + 1 .. Len(F) - 2
      /\ F[a].el = "cluster" /\ F[a + 1] = Timestamp(p.ts)
      /\ IsBlock(F[a + 2]) /\ F[a + 2].block.rest = p.data
  BY DEF Leads
<1> HIDE DEF a
<1>2. a \in HLen + 1 .. Len(H) - 2 /\ \A i \in {a, a + 1, a + 2} : i \in HLen + 1 .. Len(F)
  BY <1>1 DEF Kept
<1>3. H[a].el = "cluster"
  BY <1>1, <1>2 DEF Kept
<1>4. F[a + 1].el # "cluster" /\ F[a + 2].el # "cluster"
  BY <1>1 DEF Timestamp, IsBlock
<1>5. H[a + 1] = F[a + 1] /\ H[a + 2] = F[a + 2]
  BY <1>2, <1>4 DEF Kept
<1> QED BY <1>1, <1>2, <1>3, <1>5 DEF Leads, a

\* A step that writes no packet.
LEMMA KeysKept ==
    ASSUME LoopInv, KeysInv, Begun, UNCHANGED <<opts, written>>, mux'.cues = mux.cues,
           IsSeq(file'), Kept(file', file)
    PROVE  KeysInv'
<1>1. HLen' = HLen /\ videoTrack' = videoTrack /\ HLen \in Nat
  BY SameTracks, LoopFacts DEF HLen
<1>2. Keys' = Keys
  BY <1>1 DEF Keys, KeySet, VideoKey
<1>3. Len(file) \in Nat /\ Len(file') \in Nat
  BY LoopFacts, SeqAppend
<1>4. ASSUME NEW k \in 1 .. Len(Keys) PROVE Leads(file', mux.cues[k], Keys[k])
  <2>1. Leads(file, mux.cues[k], Keys[k])
    BY DEF KeysInv
  <2> QED BY <1>1, <1>3, <2>1, LeadsKept
<1> QED BY <1>1, <1>2, <1>4 DEF KeysInv, Leads

\* The header alone has no keyframe and no cue.
LEMMA CuesHeader == ASSUME LoopInv, WriteHeader PROVE CueInv'
<1>1. pc' = "next" /\ mux' = mux /\ written' = written /\ mux.cues = <<>> /\ written = <<>>
  BY DEF WriteHeader, LoopInv
<1>2. Keys' = <<>>
  BY <1>1, SelectEmpty DEF Keys
<1>3. Len(<<>>) = 0
  OBVIOUS
<1> QED BY <1>1, <1>2, <1>3 DEF CueInv, KeysInv, FinishInv, Finishing

\* Steps that write no packet move no cluster.
LEMMA CuesUntouched ==
    ASSUME LoopInv, StreamInv, CueInv,
           NextFrame \/ LastFrame \/ CloseCluster \/ OpenCluster \/ StampCluster
    PROVE  CueInv'
<1>1. /\ Begun /\ pc' \notin Finishing /\ UNCHANGED <<opts, written>> /\ mux'.cues = mux.cues
  <2>1. Begun /\ pc' \notin Finishing /\ UNCHANGED <<opts, written>>
    BY DEF NextFrame, LastFrame, CloseCluster, OpenCluster, StampCluster, reading, Begun, Finishing
  <2>2. mux'.cues = mux.cues
    BY DEF NextFrame, LastFrame, CloseCluster, OpenCluster, StampCluster, LoopInv, MuxSet
  <2> QED BY <2>1, <2>2
<1>2. IsSeq(file) /\ Len(file) \in Nat /\ HLen \in Nat
  BY LoopFacts
<1>3. IsSeq(file') /\ Kept(file', file)
  <2>1. CASE NextFrame \/ LastFrame
    BY <1>2, <2>1 DEF NextFrame, LastFrame, Kept
  <2>2. CASE OpenCluster \/ StampCluster
    <3>1. PICK c : Write(c)
      BY <2>2 DEF OpenCluster, StampCluster
    <3> QED BY <1>2, <3>1, Writes DEF Extended, Kept
  <2>3. CASE CloseCluster
    <3>1. CASE ~mux.open
      BY <1>2, <2>3, <3>1, CloseWrites DEF Kept
    <3>2. CASE mux.open
      <4>1. IsSeq(file') /\ Patched(file', file, mux.sizeAt, Cluster(Len(file) - mux.sizeAt))
        BY <2>3, <3>2, CloseWrites
      <4>2. file[mux.sizeAt].el = "cluster" /\ file'[mux.sizeAt].el = "cluster"
        BY <1>1, <3>2, <4>1, OtherCells DEF StreamInv, ScopeInv, Patched
      <4>3. \A i \in HLen + 1 .. Len(file) : i \in 1 .. Len(file)
        BY <1>2
      <4> QED BY <1>2, <4>1, <4>2, <4>3 DEF Patched, Kept
    <3> QED BY <3>1, <3>2
  <2> QED BY <2>1, <2>2, <2>3
<1> QED BY <1>1, <1>3, KeysKept DEF CueInv, FinishInv

\* A keyframe of the first video track gets its cue with its block.
LEMMA CuesBlock == ASSUME LoopInv, StreamInv, CueInv, WriteBlock PROVE CueInv'
<1> DEFINE n == Len(file)
           c == Block(ToInt16(pkt.ts - mux.ts))
<1>1. /\ pc = "block" /\ pc' = "next" /\ UNCHANGED <<opts, pkt>> /\ Write(c)
      /\ written' = Append(written, pkt) /\ pkt \in PacketSet /\ written \in Seq(PacketSet)
      /\ mux'.cues = IF VideoKey(pkt) THEN Append(mux.cues, Cue) ELSE mux.cues
  BY DEF WriteBlock, reading, LoopInv, PacketInv, MuxSet
<1>2. /\ HLen' = HLen /\ videoTrack' = videoTrack /\ Begun /\ HLen \in Nat /\ n \in Nat
      /\ mux.cues \in Seq(CuePoint) /\ mux.open /\ HLen < mux.sizeAt
  BY <1>1, SameTracks, LoopFacts DEF HLen, Begun, StreamInv, ScopeInv
<1>3. /\ IsSeq(file') /\ Len(file') = n + 1 /\ file'[n + 1] = c /\ \A i \in 1 .. n : file'[i] = file[i]
  BY <1>1, Writes DEF Extended
<1>4. Kept(file', file)
  BY <1>2, <1>3 DEF Kept
<1>5. Keys' = IF VideoKey(pkt) THEN Append(Keys, pkt) ELSE Keys
  <2>1. KeySet' = KeySet /\ (pkt \in KeySet <=> VideoKey(pkt))
    BY <1>1, <1>2 DEF KeySet, VideoKey
  <2> QED BY <1>1, <2>1, SelectAppend DEF Keys
<1>6. /\ Keys \in Seq(PacketSet) /\ Len(Keys) \in Nat /\ Len(mux.cues) = Len(Keys)
      /\ \A k \in 1 .. Len(Keys) : Leads(file', mux.cues[k], Keys[k])
  <2>1. Keys \in Seq(PacketSet) /\ Len(Keys) \in Nat
    BY <1>1, SelectType, LenProperties, KeysType DEF Keys
  <2>2. Len(mux.cues) = Len(Keys)
    BY <1>2 DEF CueInv, KeysInv
  <2>3. ASSUME NEW k \in 1 .. Len(Keys) PROVE Leads(file', mux.cues[k], Keys[k])
    <3>1. Leads(file, mux.cues[k], Keys[k])
      BY <1>2 DEF CueInv, KeysInv
    <3> QED BY <1>2, <1>3, <1>4, <3>1, LeadsKept
  <2> QED BY <2>1, <2>2, <2>3
<1>7. CASE VideoKey(pkt)
  <2>1. mux.sizeAt = n - 1 /\ file[n] = Timestamp(pkt.ts) /\ file[mux.sizeAt].el = "cluster"
    BY <1>1, <1>2, <1>7 DEF StreamInv, ScopeInv
  <2>2. IsBlock(c) /\ c.block.rest = pkt.data
    BY <1>1, BlockCell, LoopFacts DEF LoopInv, StreamInv, ScopeInv
  <2> HIDE DEF c
  <2>3. Leads(file', Cue, pkt)
    <3> DEFINE a == SegDataOff + Cue.cluster + 1
    <3>1. a = n - 1 /\ Cue.time = pkt.ts
      BY <1>2 DEF Cue, SegDataOff
    <3> HIDE DEF a
    <3>2. a \in HLen + 1 .. Len(file') - 2 /\ a \in 1 .. n /\ a + 1 = n /\ a + 2 = n + 1 /\ n \in 1 .. n
      BY <1>2, <1>3, <2>1, <3>1
    <3>3. file'[a].el = "cluster" /\ file'[a + 1] = Timestamp(pkt.ts) /\ file'[a + 2] = c
      BY <1>3, <2>1, <3>1, <3>2
    <3> QED BY <2>2, <3>1, <3>2, <3>3 DEF Leads, a
  <2>4. /\ mux'.cues = Append(mux.cues, Cue) /\ Keys' = Append(Keys, pkt)
    BY <1>1, <1>5, <1>7
  <2>5. Cue \in CuePoint
    BY <1>1, <1>2 DEF Cue, CuePoint, SegDataOff, PacketSet
  <2>6. /\ Len(mux'.cues) = Len(Keys) + 1 /\ Len(Keys') = Len(Keys) + 1
        /\ mux'.cues[Len(Keys) + 1] = Cue /\ Keys'[Len(Keys) + 1] = pkt
        /\ \A k \in 1 .. Len(Keys) : mux'.cues[k] = mux.cues[k] /\ Keys'[k] = Keys[k]
    BY <1>1, <1>2, <1>6, <2>4, <2>5, AppendProperties
  <2>7. ASSUME NEW k \in 1 .. Len(Keys') PROVE Leads(file', mux'.cues[k], Keys'[k])
    <3>1. CASE k = Len(Keys) + 1
      BY <2>3, <2>6, <3>1
    <3>2. CASE k # Len(Keys) + 1
      <4>1. k \in 1 .. Len(Keys)
        BY <1>6, <2>6, <3>2
      <4> QED BY <1>6, <2>6, <4>1
    <3> QED BY <3>1, <3>2
  <2> QED BY <1>1, <1>2, <2>6, <2>7 DEF CueInv, KeysInv, FinishInv, Finishing, Leads
<1>8. CASE ~VideoKey(pkt)
  <2>1. mux'.cues = mux.cues /\ Keys' = Keys
    BY <1>1, <1>5, <1>8
  <2>2. FinishInv'
    BY <1>1 DEF FinishInv, Finishing
  <2>3. ASSUME NEW k \in 1 .. Len(Keys) PROVE Leads(file, mux.cues[k], Keys[k])'
    <3>1. Leads(file', mux.cues[k], Keys[k])
      BY <1>6
    <3> QED BY <1>2, <2>1, <3>1 DEF Leads
  <2>4. KeysInv'
    BY <1>6, <2>1, <2>3 DEF KeysInv
  <2> QED BY <2>2, <2>4 DEF CueInv
<1> QED BY <1>7, <1>8

\* The cues are the last cell.
LEMMA CuesWritten == ASSUME LoopInv, StreamInv, CueInv, WriteCues PROVE CueInv'
<1> DEFINE n == Len(file)
           c == Cues(mux.cues)
<1>1. /\ pc' = "segment" /\ UNCHANGED <<opts, written>> /\ Begun
      /\ IF mux.cues = <<>> THEN file' = file ELSE Write(c)
      /\ mux'.cues = mux.cues /\ mux'.cuesPos = n - SegDataOff
  BY DEF WriteCues, reading, LoopInv, MuxSet, Begun
<1>2. HLen' = HLen /\ HLen \in Nat /\ n \in Nat /\ HLen <= n /\ IsSeq(file)
  BY <1>1, SameTracks, LoopFacts DEF HLen
<1>3. mux.cues # <<>> =>
         /\ IsSeq(file') /\ Len(file') = n + 1 /\ file'[n + 1] = c
         /\ \A i \in 1 .. n : file'[i] = file[i]
  BY <1>1, Writes DEF Extended
<1>4. IsSeq(file') /\ Kept(file', file)
  BY <1>1, <1>2, <1>3 DEF Kept
<1>5. FinishInv'
  <2>1. mux.cues # <<>> => /\ file'[Len(file')] = c /\ HLen < Len(file')
                           /\ mux'.cuesPos = Len(file') - SegDataOff - 1
    BY <1>1, <1>2, <1>3 DEF SegDataOff
  <2> QED BY <1>1, <1>2, <2>1 DEF FinishInv
<1> QED BY <1>1, <1>4, <1>5, KeysKept DEF CueInv

\* The patches touch neither clusters nor cues.
LEMMA CuesPatched ==
    ASSUME LoopInv, StreamInv, CueInv, PatchSegment \/ PatchDuration \/ PatchSeekHead
    PROVE  CueInv'
<1> DEFINE n == Len(file)
<1>1. /\ Begun /\ pc \in Finishing /\ (pc' = "done" => PatchSeekHead) /\ UNCHANGED <<opts, mux, written>>
  BY DEF PatchSegment, PatchDuration, PatchSeekHead, reading, Begun, Finishing
<1>2. HLen' = HLen /\ HLen \in {5, 6} /\ n \in Nat /\ HLen <= n /\ IsSeq(file)
  BY <1>1, SameTracks, LoopFacts DEF HLen
<1>3. \E k \in 2 .. 4 : \E c : IsSeq(file') /\ Patched(file', file, k, c)
  <2>1. CASE PatchSegment
    BY <1>1, <2>1, PatchWrites
  <2>2. CASE PatchDuration
    BY <1>1, <2>2, PatchWrites
  <2>3. CASE PatchSeekHead
    BY <1>1, <2>3, PatchWrites
  <2> QED BY <2>1, <2>2, <2>3
<1>4. IsSeq(file') /\ Len(file') = n /\ \A i \in 5 .. n : file'[i] = file[i]
  <2>1. PICK k \in 2 .. 4 : \E c : IsSeq(file') /\ Patched(file', file, k, c)
    BY <1>3
  <2> QED BY <2>1 DEF Patched
<1>5. Kept(file', file)
  BY <1>2, <1>4 DEF Kept
<1>6. FinishInv'
  <2>1. mux.cues # <<>> => /\ file'[n] = Cues(mux.cues) /\ HLen < n
                           /\ mux.cuesPos = n - SegDataOff - 1
    BY <1>1, <1>2, <1>4 DEF CueInv, FinishInv
  <2>2. pc' = "done" => file'[3] = SeekHead(SeekTargets)
    BY <1>1, PatchWrites DEF Patched
  <2>3. SeekTargets' = SeekTargets
    BY <1>1 DEF SeekTargets
  <2> QED BY <1>1, <1>2, <1>4, <2>1, <2>2, <2>3 DEF FinishInv
<1> QED BY <1>1, <1>4, <1>5, <1>6, KeysKept DEF CueInv

\* Every step keeps CueInv.
LEMMA CuesNext == LoopInv /\ StreamInv /\ CueInv /\ [Next]_vars => CueInv'
<1> SUFFICES ASSUME LoopInv, StreamInv, CueInv, [Next]_vars PROVE CueInv'
  OBVIOUS
<1>1. CASE UNCHANGED vars
  <2>1. HLen' = HLen /\ videoTrack' = videoTrack
    BY <1>1, SameTracks DEF HLen, vars
  <2> QED BY <1>1, <2>1 DEF vars, CueInv, KeysInv, FinishInv, Keys, KeySet, VideoKey, Leads, SeekTargets, Begun
<1>2. CASE Stop
  BY <1>2 DEF Stop, CueInv, KeysInv, FinishInv, Begun, Finishing
<1> QED BY <1>1, <1>2, CuesHeader, CuesUntouched, CuesBlock, CuesWritten, CuesPatched DEF Next

\* In a finished file the entries of the SeekHead and the cues lead where they say.
LEMMA FinishedCues == ASSUME LoopInv, StreamInv, CueInv PROVE CuesFindKeyframes
<1> SUFFICES ASSUME pc = "done" PROVE CuesFindKeyframes
  BY DEF CuesFindKeyframes
<1> DEFINE n == Len(file)
           ci == [id |-> "info", pos |-> 1]
           ct == [id |-> "tracks", pos |-> 2]
           cc == [id |-> "cues", pos |-> mux.cuesPos]
<1>1. Begun /\ pc \in Finishing
  BY DEF Begun, Finishing
<1>2. /\ n \in Nat /\ HLen \in {5, 6} /\ Len(Keys) \in Nat /\ Len(mux.cues) = Len(Keys)
      /\ DOMAIN Keys = 1 .. Len(Keys) /\ mux.cues \in Seq(CuePoint) /\ Keys \in Seq(PacketSet \cap KeySet)
  BY <1>1, LoopFacts, KeysType DEF CueInv, KeysInv
<1>3. file[4].el = "info" /\ file[5].el = "tracks" /\ file[3].targets = SeekTargets
  BY <1>1 DEF StreamInv, FileInv, CueInv, FinishInv, SeekHead
<1>4. /\ SeekTargets = {ci, ct} \cup (IF mux.cues = <<>> THEN {} ELSE {cc})
      /\ ci.id = "info" /\ ci.pos = 1 /\ ct.id = "tracks" /\ ct.pos = 2
      /\ cc.id = "cues" /\ cc.pos = mux.cuesPos
  BY DEF SeekTargets, InfoAt, TracksAt, SegDataOff
<1> HIDE DEF ci, ct, cc
<1>5. mux.cues # <<>> => file[n] = Cues(mux.cues) /\ mux.cuesPos = n - 3
  BY <1>1, <1>2 DEF CueInv, FinishInv, SegDataOff
<1>6. /\ At(1) = file[4] /\ At(2) = file[5] /\ (mux.cues # <<>> => At(mux.cuesPos) = Cues(mux.cues))
  <2>1. mux.cues # <<>> => SegDataOff + mux.cuesPos + 1 = n
    BY <1>2, <1>5 DEF SegDataOff
  <2> QED BY <1>5, <2>1 DEF At, SegDataOff
<1>7. Keys # <<>> <=> mux.cues # <<>>
  BY <1>2, EmptySeq
<1>8. \A t \in SeekTargets : At(t.pos).el = t.id
  BY <1>3, <1>4, <1>6, OtherCells
<1>9. {"info", "tracks"} \subseteq {t.id : t \in SeekTargets}
  BY <1>4
<1>10. (\E t \in SeekTargets : t.id = "cues") <=> mux.cues # <<>>
  BY <1>4
<1>11. ASSUME NEW t \in SeekTargets, t.id = "cues" PROVE At(t.pos).points = mux.cues
  BY <1>4, <1>6, <1>11, OtherCells
<1>12. ASSUME NEW k \in DOMAIN Keys
       PROVE  LET at == mux.cues[k].cluster
              IN  /\ mux.cues[k].time = Keys[k].ts
                  /\ At(at).el = "cluster" /\ At(at + 1) = Timestamp(Keys[k].ts)
                  /\ IsBlock(At(at + 2)) /\ At(at + 2).block.rest = Keys[k].data
  <2> DEFINE at == mux.cues[k].cluster
             a == SegDataOff + at + 1
  <2>1. Leads(file, mux.cues[k], Keys[k]) /\ k \in 1 .. Len(mux.cues)
    BY <1>1, <1>2 DEF CueInv, KeysInv
  <2>2. at \in Int
    <3>1. mux.cues[k] \in CuePoint
      BY <1>2, <2>1, ElementOfSeq
    <3> QED BY <3>1 DEF CuePoint
  <2> HIDE DEF at
  <2>3. At(at) = file[a] /\ At(at + 1) = file[a + 1] /\ At(at + 2) = file[a + 2]
    <3>1. SegDataOff + (at + 1) + 1 = a + 1 /\ SegDataOff + (at + 2) + 1 = a + 2
      BY <2>2 DEF SegDataOff
    <3> QED BY <3>1 DEF At
  <2> QED BY <2>1, <2>3 DEF Leads, at
<1>13. Keys = Select(written, {p \in Range(written) : VideoKey(p)})
  BY KeysType
<1>14. ASSUME NEW t \in SeekTargets, t.id = "cues"
       PROVE  LET points == At(t.pos).points
              IN  /\ Len(points) = Len(Keys)
                  /\ \A k \in DOMAIN Keys :
                        LET at == points[k].cluster
                        IN  /\ points[k].time = Keys[k].ts
                            /\ At(at).el = "cluster" /\ At(at + 1) = Timestamp(Keys[k].ts)
                            /\ IsBlock(At(at + 2)) /\ At(at + 2).block.rest = Keys[k].data
  BY <1>2, <1>11, <1>12, <1>14
<1> QED BY <1>3, <1>7, <1>8, <1>9, <1>10, <1>13, <1>14 DEF CuesFindKeyframes, VoidAt

\* WriteBlock notes the position of the cluster it has just opened for a keyframe
\* of the first video track, and nothing that Finalize writes moves a cluster: in
\* a finished file each cue, and each entry of the SeekHead, leads where it says.
THEOREM ExportCues == Spec => []CuesFindKeyframes
<1>1. Init => LoopInv /\ StreamInv /\ CueInv
  <2>1. Init => CueInv
    BY DEF Init, CueInv, KeysInv, FinishInv, Begun, Finishing
  <2> QED BY <2>1, LoopInit, StreamInit
<1>2. LoopInv /\ StreamInv /\ CueInv /\ [Next]_vars => LoopInv' /\ StreamInv' /\ CueInv'
  BY LoopNext, StreamNext, CuesNext
<1>3. LoopInv /\ StreamInv /\ CueInv => CuesFindKeyframes
  BY FinishedCues
<1> QED BY <1>1, <1>2, <1>3, PTL DEF Spec

-----------------------------------------------------------------------------
(* The header: what it says, and that it stays.                            *)

\* What a demuxer knows of the file apart from its packets.
HeadOf(d) == [scale |-> d.scale, date |-> d.date, entries |-> d.entries, tags |-> d.tags]

\* Cells that are no Info, Tracks or Tags add nothing to it.
LEMMA ReadPlainHead ==
    ASSUME NEW d, Shape(d), NEW N, NEW c, c.el \in {"ebml", "segment", "void", "seekhead", "cues", "cluster"},
           d.phase = "header" => c.el \notin {"ebml", "segment"} /\ d.pos \in Nat,
           d.phase \in {"ebml", "segment", "header"}
    PROVE  HeadOf(ReadCell(d, c, N)) = HeadOf(d)
<1> DEFINE r == ReadCell(d, c, N)
           Same(e) == HeadOf(e) = HeadOf(d)
<1>1. Same(d) /\ Same([d EXCEPT !.phase = "error"]) /\ Same([d EXCEPT !.phase = "eof", !.opened = TRUE])
  BY DEF HeadOf, Shape, Demuxer0
<1> DEFINE m == Moved(d)
<1>2. Same(m) /\ Shape(m) /\ m.pos = d.pos + 1 /\ m.segEnd = d.segEnd
  BY DEF HeadOf, Shape, Demuxer0, Moved
<1> HIDE DEF m
<1>3. CASE d.phase = "ebml"
  <2>1. r \in {[m EXCEPT !.phase = "segment"], [d EXCEPT !.phase = "error"]}
    BY <1>3 DEF ReadCell, m, Moved
  <2>2. Same([m EXCEPT !.phase = "segment"])
    BY <1>2 DEF HeadOf, Shape, Demuxer0
  <2> QED BY <1>1, <2>1, <2>2
<1>4. CASE d.phase = "segment"
  <2> DEFINE to == IF c.size = Unknown THEN N ELSE m.pos + c.size
  <2>1. r \in {[m EXCEPT !.phase = "header", !.segEnd = to], [d EXCEPT !.phase = "error"]}
    BY <1>4 DEF ReadCell, m, Moved
  <2>2. Same([m EXCEPT !.phase = "header", !.segEnd = to])
    <3> HIDE DEF to
    <3> QED BY <1>2 DEF HeadOf, Shape, Demuxer0
  <2> QED BY <1>1, <2>1, <2>2
<1>5. CASE d.phase = "header"
  <2>1. \/ r \in {[d EXCEPT !.phase = "eof", !.opened = TRUE], [d EXCEPT !.phase = "error"]}
        \/ c.el = "cluster" /\ r = EnterCluster(m, c, N)
        \/ c.el \in {"void", "seekhead", "cues"} /\ r = HeaderElement(m, c)
    BY <1>5 DEF ReadCell, m, Moved
  <2>2. c.el \in {"void", "seekhead", "cues"} => HeaderElement(m, c) = m
    BY DEF HeaderElement
  <2>3. Same(EnterCluster(m, c, N))
    BY <1>2 DEF HeadOf, Shape, Demuxer0, EnterCluster
  <2> QED BY <1>1, <1>2, <2>1, <2>2, <2>3
<1> QED BY <1>3, <1>4, <1>5

\* The entries of a Tracks element.
Parsed(c) == [k \in DOMAIN c.entries |-> ParseTrackEntry(c.entries[k])]
Joined(es, c) == es \o Parsed(c)

\* Info, Tracks and Tags in front of the clusters.
LEMMA ReadHead ==
    ASSUME NEW d, Shape(d), d.phase = "header", NEW N \in Int, d.segEnd = N, d.pos \in Nat, d.pos < N,
           NEW c, c.el \in {"info", "tracks", "tags"}
    PROVE  LET r == HeadOf(ReadCell(d, c, N))
           IN  /\ c.el = "info" /\ c.scale > 0 =>
                     r = [scale |-> c.scale, date |-> c.date, entries |-> d.entries, tags |-> d.tags]
               /\ c.el = "tracks" =>
                     r = [scale |-> d.scale, date |-> d.date, entries |-> Joined(d.entries, c),
                          tags |-> d.tags]
               /\ c.el = "tags" =>
                     r = [scale |-> d.scale, date |-> d.date, entries |-> d.entries,
                          tags |-> WithTags(d, c).tags]
<1> DEFINE m == Moved(d)
<1>1. ReadCell(d, c, N) = HeaderElement(m, c)
  BY DEF ReadCell, Moved
<1>2. Shape(m) /\ m.scale = d.scale /\ m.date = d.date /\ m.entries = d.entries /\ m.tags = d.tags
  BY DEF Shape, Demuxer0, Moved
<1> HIDE DEF m
<1>3. ASSUME c.el = "info", c.scale > 0
      PROVE  HeadOf(HeaderElement(m, c)) =
                [scale |-> c.scale, date |-> c.date, entries |-> d.entries, tags |-> d.tags]
  BY <1>2, <1>3 DEF HeaderElement, HeadOf, Shape, Demuxer0
<1>4. ASSUME c.el = "tracks"
      PROVE  HeadOf(HeaderElement(m, c)) =
                [scale |-> d.scale, date |-> d.date, entries |-> Joined(d.entries, c),
                 tags |-> d.tags]
  <2> DEFINE all == Joined(d.entries, c)
  <2>1. HeaderElement(m, c) = [m EXCEPT !.entries = all]
    BY <1>2, <1>4 DEF HeaderElement, Joined, Parsed
  <2> HIDE DEF all
  <2>2. HeadOf(HeaderElement(m, c)) =
            [scale |-> d.scale, date |-> d.date, entries |-> all, tags |-> d.tags]
    BY <1>2, <2>1 DEF HeadOf, Shape, Demuxer0
  <2> QED BY <2>2 DEF all
<1>5. ASSUME c.el = "tags"
      PROVE  HeadOf(HeaderElement(m, c)) =
                [scale |-> d.scale, date |-> d.date, entries |-> d.entries,
                 tags |-> WithTags(d, c).tags]
  <2>1. HeaderElement(m, c) = WithTags(m, c)
    BY <1>5 DEF HeaderElement
  <2>2. WithTags(m, c).tags = WithTags(d, c).tags
    BY <1>2 DEF WithTags, Shape, Demuxer0
  <2>3. WithTags(m, c).scale = d.scale /\ WithTags(m, c).date = d.date /\ WithTags(m, c).entries = d.entries
    BY <1>2 DEF WithTags, Shape, Demuxer0
  <2> QED BY <2>1, <2>2, <2>3 DEF HeadOf
<1> DEFINE r == HeadOf(ReadCell(d, c, N))
<1>6. r = HeadOf(HeaderElement(m, c))
  BY <1>1
<1> HIDE DEF r
<1>7. /\ c.el = "info" /\ c.scale > 0 =>
            r = [scale |-> c.scale, date |-> c.date, entries |-> d.entries, tags |-> d.tags]
      /\ c.el = "tracks" =>
            r = [scale |-> d.scale, date |-> d.date, entries |-> Joined(d.entries, c),
                 tags |-> d.tags]
      /\ c.el = "tags" =>
            r = [scale |-> d.scale, date |-> d.date, entries |-> d.entries,
                 tags |-> WithTags(d, c).tags]
  BY <1>3, <1>4, <1>5, <1>6
<1> QED BY <1>7 DEF r

\* What the head of a framed file says.
HeadSays(F, h) ==
    /\ Framed(F, h) /\ h \in {5, 6}
    /\ F[3].el \in {"void", "seekhead"} /\ F[4].el = "info" /\ F[5].el = "tracks"
    /\ h = 6 => F[6].el = "tags"
    /\ F[4].scale \in Nat /\ F[4].scale > 0
    /\ \A i \in h + 1 .. Len(F) : F[i].el # "torn"

TagsAlone(c) == [name \in DOMAIN c.tags \cup DOMAIN NoTags |->
                    IF name \in DOMAIN c.tags THEN c.tags[name] ELSE NoTags[name]]

HeadIn(F, h) ==
    [scale |-> F[4].scale, date |-> F[4].date,
     entries |-> Joined(<<>>, F[5]),
     tags |-> IF h = 6 THEN TagsAlone(F[6]) ELSE NoTags]

\* The demuxer knows it when it has read the header,
LEMMA HeadWalked ==
    ASSUME NEW F, NEW h, HeadSays(F, h), NEW w \in Nat, h <= w, NEW f, Walks(f, F, w)
    PROVE  HeadOf(f[h]) = HeadIn(F, h)
<1> DEFINE N == Len(F)
           es == Joined(<<>>, F[5])
           two == [scale |-> 1, date |-> {}, entries |-> <<>>, tags |-> NoTags]
           four == [scale |-> F[4].scale, date |-> F[4].date, entries |-> <<>>, tags |-> NoTags]
           five == [scale |-> F[4].scale, date |-> F[4].date, entries |-> es, tags |-> NoTags]
<1>1. /\ N \in Nat /\ h \in {5, 6} /\ h <= N /\ Heading(F, h)
      /\ 1 \in 1 .. w /\ 2 \in 1 .. w /\ 3 \in 1 .. w /\ 4 \in 1 .. w /\ 5 \in 1 .. w
      /\ 2 \in 2 .. h /\ 3 \in 2 .. h /\ 4 \in 2 .. h /\ 5 \in 2 .. h
  BY DEF HeadSays, Framed, Heading
<1>2. \A n \in 2 .. h : Shape(f[n]) /\ f[n].phase = "header" /\ f[n].segEnd = N /\ f[n].pos = n
  BY <1>1, WalkHeading
<1>3. /\ f[0] = Demuxer0 /\ f[1] = ReadCell(f[0], F[1], N) /\ f[2] = ReadCell(f[1], F[2], N)
      /\ f[3] = ReadCell(f[2], F[3], N) /\ f[4] = ReadCell(f[3], F[4], N)
      /\ f[5] = ReadCell(f[4], F[5], N)
  <2>1. 1 - 1 = 0 /\ 2 - 1 = 1 /\ 3 - 1 = 2 /\ 4 - 1 = 3 /\ 5 - 1 = 4
    OBVIOUS
  <2> QED BY <1>1, <2>1 DEF Walks
<1>4. F[1].el = "ebml" /\ F[1].matroska /\ F[2].el = "segment"
  BY <1>1 DEF Heading, EBML
<1>5. /\ Shape(f[0]) /\ f[0].phase = "ebml" /\ f[0].pos = 0 /\ HeadOf(f[0]) = two
  BY <1>3 DEF Shape, Demuxer0, HeadOf
<1>6. Shape(f[1]) /\ f[1].phase = "segment"
  BY <1>3, <1>4, <1>5, ReadEBMLCell
<1>7. HeadOf(f[1]) = two
  <2>1. f[0].phase # "header" /\ F[1].el \in {"ebml", "segment", "void", "seekhead", "cues", "cluster"}
    BY <1>4, <1>5
  <2>2. HeadOf(ReadCell(f[0], F[1], N)) = HeadOf(f[0])
    BY <1>5, <2>1, ReadPlainHead
  <2> QED BY <1>3, <1>5, <2>2
<1>8. HeadOf(f[2]) = two
  BY <1>3, <1>4, <1>6, <1>7, ReadPlainHead
<1>9. HeadOf(f[3]) = two
  <2>1. Shape(f[2]) /\ f[2].phase = "header" /\ f[2].pos \in Nat
    BY <1>1, <1>2
  <2>2. F[3].el \in {"void", "seekhead"}
    BY DEF HeadSays
  <2> QED BY <1>3, <1>8, <2>1, <2>2, ReadPlainHead
<1>10. HeadOf(f[4]) = four
  <2>1. Shape(f[3]) /\ f[3].phase = "header" /\ f[3].segEnd = N /\ f[3].pos \in Nat /\ f[3].pos < N
    BY <1>1, <1>2
  <2>2. F[4].el = "info" /\ F[4].scale > 0
    BY DEF HeadSays
  <2>3. HeadOf(f[4]) = [scale |-> F[4].scale, date |-> F[4].date, entries |-> f[3].entries,
                        tags |-> f[3].tags]
    BY <1>1, <1>3, <2>1, <2>2, ReadHead
  <2>4. f[3].entries = <<>> /\ f[3].tags = NoTags
    BY <1>9 DEF HeadOf
  <2> QED BY <2>3, <2>4
<1>11. HeadOf(f[5]) = five
  <2>1. Shape(f[4]) /\ f[4].phase = "header" /\ f[4].segEnd = N /\ f[4].pos \in Nat /\ f[4].pos < N
    BY <1>1, <1>2
  <2>2. F[5].el = "tracks"
    BY DEF HeadSays
  <2>3. HeadOf(f[5]) = [scale |-> f[4].scale, date |-> f[4].date,
                        entries |-> Joined(f[4].entries, F[5]), tags |-> f[4].tags]
    BY <1>1, <1>3, <2>1, <2>2, ReadHead
  <2>4. /\ f[4].scale = F[4].scale /\ f[4].date = F[4].date /\ f[4].entries = <<>>
        /\ f[4].tags = NoTags
    BY <1>10 DEF HeadOf
  <2> QED BY <2>3, <2>4
<1>12. CASE h = 5
  BY <1>11, <1>12 DEF HeadIn
<1>13. CASE h = 6
  <2>1. f[6] = ReadCell(f[5], F[6], N)
    <3>1. 6 \in 1 .. w /\ 6 - 1 = 5
      BY <1>13
    <3> QED BY <3>1 DEF Walks
  <2>2. Shape(f[5]) /\ f[5].phase = "header" /\ f[5].segEnd = N /\ f[5].pos \in Nat /\ f[5].pos < N
    BY <1>1, <1>2, <1>13
  <2>3. F[6].el = "tags"
    BY <1>13 DEF HeadSays
  <2>4. HeadOf(f[6]) = [scale |-> f[5].scale, date |-> f[5].date, entries |-> f[5].entries,
                        tags |-> WithTags(f[5], F[6]).tags]
    BY <1>1, <2>1, <2>2, <2>3, ReadHead
  <2>5. /\ f[5].scale = F[4].scale /\ f[5].date = F[4].date /\ f[5].entries = es
        /\ f[5].tags = NoTags
    BY <1>11 DEF HeadOf
  <2>6. WithTags(f[5], F[6]).tags = TagsAlone(F[6])
    BY <2>2, <2>5 DEF WithTags, TagsAlone, Shape, Demuxer0
  <2>7. HeadOf(f[6]) = [scale |-> F[4].scale, date |-> F[4].date, entries |-> es,
                        tags |-> TagsAlone(F[6])]
    <3> HIDE DEF es
    <3> QED BY <2>4, <2>5, <2>6
  <2> QED BY <1>13, <2>7 DEF HeadIn
<1> QED BY <1>1, <1>12, <1>13

\* and after the first cluster, or at the end of a file that has none.
LEMMA HeadRead ==
    ASSUME NEW F, NEW h, HeadSays(F, h)
    PROVE  HeadOf(NewDemuxer(F)) = HeadIn(F, h)
<1> DEFINE N == Len(F)
           I == {i \in 1 .. N : F[i].el = "cluster"}
           first == SelectInSeq(F, LAMBDA c : c.el = "cluster")
<1>1. /\ N \in Nat /\ h \in {5, 6} /\ h <= N /\ Heading(F, h) /\ Framed(F, h)
  BY DEF HeadSays, Framed, Heading
<1>2. first = IF I # {} THEN Min(I) ELSE 0
  BY DEF SelectInSeq
<1>3. \A i \in 1 .. h : i \notin I
  <2>1. \A i \in 3 .. h : F[i].el \in HeaderKinds
    BY <1>1 DEF Heading
  <2>2. F[1].el = "ebml" /\ F[2].el = "segment"
    BY <1>1 DEF Heading, EBML
  <2>3. \A i \in 1 .. h : i = 1 \/ i = 2 \/ i \in 3 .. h
    BY <1>1
  <2> QED BY <2>1, <2>2, <2>3 DEF HeaderKinds
<1>4. CASE I # {}
  <2>1. first \in I /\ \A i \in I : first <= i
    BY <1>1, <1>2, <1>4, LeastInRange
  <2>2. first \in h + 1 .. N
    BY <1>1, <1>3, <2>1
  <2>3. h + 1 \in 1 .. N /\ F[h + 1].el \in {"cluster", "cues", "torn"}
    BY <1>1, <2>2 DEF Framed
  <2>4. F[h + 1].el = "cluster"
    <3>1. F[h + 1].el # "torn"
      BY <1>1, <2>3 DEF HeadSays
    <3>2. ASSUME F[h + 1].el = "cues" PROVE FALSE
      <4>1. h + 1 = N
        BY <1>1, <2>3, <3>2 DEF Framed
      <4>2. first = h + 1
        BY <1>1, <2>2, <4>1
      <4> QED BY <2>1, <3>2, <4>2
    <3> QED BY <2>3, <3>1, <3>2
  <2>5. first = h + 1 /\ h + 1 \in Nat
    BY <1>1, <2>1, <2>2, <2>3, <2>4
  <2> HIDE DEF first
  <2>6. NewDemuxer(F) = Walk(F, h + 1)
    <3>1. NewDemuxer(F) = IF first = 0 THEN AtEnd(Walk(F, N)) ELSE Walk(F, first)
      BY DEF NewDemuxer, first
    <3>2. first # 0
      BY <1>1, <2>5
    <3> QED BY <2>5, <3>1, <3>2
  <2>7. PICK f : Walks(f, F, h + 1) /\ Walk(F, h + 1) = f[h + 1]
    BY <2>5, WalkRecursion
  <2>8. f[h + 1] = ReadCell(f[h], F[h + 1], N)
    <3>1. h + 1 \in 1 .. h + 1 /\ (h + 1) - 1 = h
      BY <1>1
    <3> QED BY <2>7, <3>1 DEF Walks
  <2>9. HeadOf(f[h]) = HeadIn(F, h) /\ Shape(f[h]) /\ f[h].phase = "header" /\ f[h].pos \in Nat
    <3>1. h <= h + 1 /\ h \in 2 .. h /\ h \in Nat
      BY <1>1
    <3> QED BY <1>1, <2>5, <2>7, <3>1, HeadWalked, WalkHeading
  <2>10. HeadOf(f[h + 1]) = HeadOf(f[h])
    BY <2>4, <2>8, <2>9, ReadPlainHead
  <2> QED BY <2>6, <2>7, <2>9, <2>10
<1>5. CASE I = {}
  <2>1. NewDemuxer(F) = AtEnd(Walk(F, N))
    BY <1>2, <1>5 DEF NewDemuxer
  <2>2. PICK f : Walks(f, F, N) /\ Walk(F, N) = f[N]
    BY <1>1, WalkRecursion
  <2>3. HeadOf(f[h]) = HeadIn(F, h) /\ Shape(f[h]) /\ f[h].phase = "header" /\ f[h].pos = h /\ f[h].segEnd = N
    <3>1. h \in 2 .. h
      BY <1>1
    <3> QED BY <1>1, <2>2, <3>1, HeadWalked, WalkHeading
  <2>4. N = h \/ (N = h + 1 /\ F[N].el = "cues")
    <3>1. ASSUME h < N PROVE N = h + 1 /\ F[N].el = "cues"
      <4>1. h + 1 \in h + 1 .. N /\ h + 1 \in 1 .. N
        BY <1>1, <3>1
      <4>2. F[h + 1].el = "cues"
        BY <1>1, <1>5, <3>1, <4>1 DEF Framed, HeadSays
      <4> QED BY <1>1, <4>1, <4>2 DEF Framed
    <3> QED BY <1>1, <3>1
  <2>5. /\ Shape(f[N]) /\ f[N].phase = "header" /\ HeadOf(f[N]) = HeadIn(F, h)
    <3>1. CASE N = h
      BY <2>3, <3>1
    <3>2. CASE N = h + 1 /\ F[N].el = "cues"
      <4>1. f[N] = ReadCell(f[h], F[N], N)
        <5>1. N \in 1 .. N /\ N - 1 = h
          BY <1>1, <3>2
        <5> QED BY <2>2, <5>1 DEF Walks
      <4>2. Shape(f[N]) /\ f[N].phase = "header"
        BY <1>1, <2>3, <3>2, <4>1, ReadHeaderCell
      <4>3. HeadOf(f[N]) = HeadOf(f[h])
        BY <1>1, <2>3, <3>2, <4>1, ReadPlainHead
      <4> QED BY <2>3, <4>2, <4>3
    <3> QED BY <2>4, <3>1, <3>2
  <2>6. HeadOf(AtEnd(f[N])) = HeadOf(f[N])
    BY <2>5 DEF AtEnd, HeadOf, Shape, Demuxer0
  <2> QED BY <2>1, <2>2, <2>5, <2>6
<1> QED BY <1>4, <1>5

\* The fields of a track entry that mapTrackOut makes.
LEMMA EntryFields ==
    ASSUME NEW info, info.kind \in DOMAIN TypeOf, NEW k
    PROVE  LET te == MapTrackOut(info, k)
               p  == info.private.params
           IN  /\ DOMAIN te = DOMAIN ZeroEntry
               /\ te.number = k /\ te.type = TypeOf[info.kind] /\ te.codec = info.codec
               /\ te.private = info.private.private /\ te.defaultDuration = 0
               /\ te.width  = IF info.kind = "video" THEN p.width ELSE 0
               /\ te.height = IF info.kind = "video" THEN p.height ELSE 0
               /\ te.freq     = IF info.kind = "audio" THEN 2 * p.rate ELSE 0
               /\ te.outFreq  = IF info.kind = "audio" THEN 2 * p.outRate ELSE 0
               /\ te.channels = IF info.kind = "audio" THEN p.channels ELSE 0
               /\ te.depth    = IF info.kind = "audio" THEN p.depth ELSE 0
<1>1. CASE info.kind = "video"
  BY <1>1 DEF MapTrackOut, ZeroEntry
<1>2. CASE info.kind = "audio"
  BY <1>2 DEF MapTrackOut, ZeroEntry
<1>3. CASE info.kind = "data"
  BY <1>3 DEF MapTrackOut, ZeroEntry
<1> QED BY <1>1, <1>2, <1>3 DEF TypeOf

\* What encodeTrackEntry leaves out is zero, so parsing restores it.
LEMMA EntryReadBack ==
    ASSUME NEW te, DOMAIN te = DOMAIN ZeroEntry,
           te.type # "video" => te.width = 0 /\ te.height = 0,
           te.type # "audio" => te.freq = 0 /\ te.outFreq = 0 /\ te.channels = 0 /\ te.depth = 0
    PROVE  \A f \in DOMAIN ZeroEntry : ParseTrackEntry(EncodeTrackEntry(te))[f] = te[f]
<1> SUFFICES ASSUME NEW f \in DOMAIN ZeroEntry
             PROVE  ParseTrackEntry(EncodeTrackEntry(te))[f] = te[f]
  OBVIOUS
<1>1. ParseTrackEntry(EncodeTrackEntry(te))[f] = IF f \notin Omitted(te) THEN te[f] ELSE ZeroEntry[f]
  BY DEF ParseTrackEntry, EncodeTrackEntry
<1>2. f \in Omitted(te) => te[f] = ZeroEntry[f]
  <2>1. /\ \A x \in VideoFields : x \in {"width", "height"} /\ ZeroEntry[x] = 0
        /\ \A x \in AudioFields : x \in {"freq", "outFreq", "channels", "depth"} /\ ZeroEntry[x] = 0
    BY DEF VideoFields, AudioFields, ZeroEntry
  <2>2. CASE f \in VideoFields /\ te.type # "video"
    BY <2>1, <2>2
  <2>3. CASE f \in AudioFields /\ te.type # "audio"
    BY <2>1, <2>3
  <2> QED BY <2>2, <2>3 DEF Omitted
<1> QED BY <1>1, <1>2

LEMMA HertzBack == ASSUME NEW r \in Nat PROVE Hertz(2 * r) = r
  BY DEF Hertz

\* Both mappings together give the track Export started from.
LEMMA MapBack ==
    ASSUME NEW tr \in Tracks, CanExport(TrackInfo[tr]), NEW k, NEW te, NEW scale,
           \A f \in DOMAIN ZeroEntry : te[f] = MapTrackOut(TrackInfo[tr], k)[f]
    PROVE  LET back == MapTrack(te, scale)
           IN  /\ te.number = k /\ CanImport(te)
               /\ back.kind = TrackInfo[tr].kind /\ back.codec = TrackInfo[tr].codec
               /\ back.private = TrackInfo[tr].private
<1> DEFINE info == TrackInfo[tr]
           e == info.private
           p == e.params
<1>1. info.kind \in DOMAIN TypeOf
  BY ConvertAssumption
<1>2. /\ e = EncodePrivate(p, e.private)
      /\ info.kind = "video" => p \in [width : 0 .. Uint32 - 1, height : 0 .. Uint32 - 1]
      /\ info.kind = "audio" =>
            /\ p \in [rate : 0 .. Uint32 - 1, outRate : 0 .. Uint32 - 1, channels : 0 .. Byte - 1, depth : 0 .. Byte - 1]
            /\ p.rate = p.outRate => p.rate = 0
      /\ info.kind = "data" => p = [none |-> TRUE]
  BY TrackInfoAssumption
<1> HIDE DEF p, e, info
<1>3. /\ te.number = k /\ te.type = TypeOf[info.kind] /\ te.codec = info.codec
      /\ te.private = e.private
      /\ info.kind = "video" => te.width = p.width /\ te.height = p.height
      /\ info.kind = "audio" => /\ te.freq = 2 * p.rate /\ te.outFreq = 2 * p.outRate
                                /\ te.channels = p.channels /\ te.depth = p.depth
  BY <1>1, EntryFields DEF ZeroEntry, p, e, info
<1>4. info.codec \in Supported
  BY DEF CanExport, info
<1>5. ParamsIn(te) = p
  <2>1. CASE info.kind = "video"
    <3>1. te.type = "video"
      BY <1>3, <2>1 DEF TypeOf
    <3>2. Uint32 \in Nat \ {0} /\ p.width \in 0 .. Uint32 - 1 /\ p.height \in 0 .. Uint32 - 1
      BY <1>2, <2>1, WordAssumption
    <3>3. te.width % Uint32 = p.width /\ te.height % Uint32 = p.height
      BY <1>3, <2>1, <3>2
    <3>4. p = [width |-> p.width, height |-> p.height]
      BY <1>2, <2>1
    <3> QED BY <3>1, <3>3, <3>4 DEF ParamsIn
  <2>2. CASE info.kind = "audio"
    <3>1. te.type = "audio"
      BY <1>3, <2>2 DEF TypeOf
    <3>2. p.rate \in Nat /\ p.outRate \in Nat /\ p.channels \in 0 .. 255 /\ p.depth \in 0 .. 255
      BY <1>2, <2>2, WordAssumption DEF Byte
    <3>3. Hertz(te.freq) = p.rate /\ te.channels % Byte = p.channels /\ te.depth % Byte = p.depth
      BY <1>3, <2>2, <3>2, HertzBack DEF Byte
    <3>4. (IF te.outFreq = te.freq THEN 0 ELSE Hertz(te.outFreq)) = p.outRate
      <4>1. CASE p.outRate = p.rate
        BY <1>2, <1>3, <2>2, <3>2, <4>1
      <4>2. CASE p.outRate # p.rate
        BY <1>3, <2>2, <3>2, <4>2, HertzBack
      <4> QED BY <4>1, <4>2
    <3>5. p = [rate |-> p.rate, outRate |-> p.outRate, channels |-> p.channels, depth |-> p.depth]
      BY <1>2, <2>2
    <3> QED BY <3>1, <3>3, <3>4, <3>5 DEF ParamsIn
  <2>3. CASE info.kind = "data"
    BY <1>2, <1>3, <2>3 DEF ParamsIn, TypeOf
  <2> QED BY <1>1, <2>1, <2>2, <2>3 DEF TypeOf
<1>6. KindOf[te.type] = info.kind /\ te.type \in DOMAIN KindOf
  BY <1>1, <1>3 DEF KindOf, TypeOf
<1> QED BY <1>2, <1>3, <1>4, <1>5, <1>6 DEF MapTrack, CanImport, info, e

\* The header stays as WriteHeader left it, but for the seek entries and the
\* duration, which Finalize patches.
HeadInv ==
    Begun =>
      /\ \A i \in 5 .. HLen : file[i] = Header[i]
      /\ file[3].el \in {"void", "seekhead"}
      /\ file[4] = Info(Scale, {st - Epoch : st \in StartTime},
                        IF pc \in {"seekhead", "done"} THEN mux.maxTS ELSE 0)

\* maxTS is the greatest time written.
TimeInv ==
    /\ \A k \in DOMAIN written : written[k].ts <= mux.maxTS
    /\ written # <<>> => \E k \in DOMAIN written : written[k].ts = mux.maxTS
    /\ written = <<>> => mux.maxTS = 0
    /\ pc \in {"close", "open", "stamp", "block"} => pkt.ts >= 0

\* Both hold initially and after every step.
LEMMA HeadInit == Init => HeadInv /\ TimeInv
<1> SUFFICES ASSUME Init PROVE HeadInv /\ TimeInv
  OBVIOUS
<1>1. pc \in {"header", "refused"} /\ written = <<>> /\ mux.maxTS = 0
  BY DEF Init
<1>2. DOMAIN written = {}
  BY <1>1
<1> QED BY <1>1, <1>2 DEF HeadInv, TimeInv, Begun

\* Steps that write behind the header leave it alone.
LEMMA HeadUntouched ==
    ASSUME LoopInv, Begun, HeadInv,
           \/ NextFrame \/ LastFrame \/ CloseCluster \/ OpenCluster \/ StampCluster
           \/ WriteBlock \/ WriteCues
    PROVE  HeadInv'
<1>1. /\ pc \notin {"seekhead", "done"} /\ pc' \notin {"seekhead", "done"} /\ UNCHANGED opts
  BY DEF NextFrame, LastFrame, CloseCluster, OpenCluster, StampCluster, WriteBlock, WriteCues, reading
<1>2. Header' = Header /\ HLen' = HLen
  BY <1>1, SameTracks DEF HLen
<1>3. IsSeq(file) /\ Len(file) \in Nat /\ HLen \in {5, 6} /\ HLen <= Len(file)
  BY LoopFacts
<1>4. \A i \in 1 .. HLen : file'[i] = file[i]
  <2>1. CASE NextFrame \/ LastFrame
    BY <2>1 DEF NextFrame, LastFrame
  <2>2. CASE OpenCluster \/ StampCluster \/ WriteBlock \/ WriteCues
    <3>1. file' = file \/ \E c : Write(c)
      BY <2>2 DEF OpenCluster, StampCluster, WriteBlock, WriteCues
    <3>2. CASE file' = file
      BY <3>2
    <3>3. CASE \E c : Write(c)
      <4>1. PICK c : Write(c)
        BY <3>3
      <4> QED BY <1>3, <4>1, Writes DEF Extended
    <3> QED BY <3>1, <3>2, <3>3
  <2>3. CASE CloseCluster
    <3>1. CASE ~mux.open
      BY <2>3, <3>1, CloseWrites
    <3>2. CASE mux.open
      <4>1. Patched(file', file, mux.sizeAt, Cluster(Len(file) - mux.sizeAt)) /\ HLen < mux.sizeAt
        BY <2>3, <3>2, CloseWrites, LoopFacts
      <4>2. \A i \in 1 .. HLen : i \in 1 .. Len(file) /\ i # mux.sizeAt
        BY <1>3, <4>1, LoopFacts
      <4> QED BY <4>1, <4>2 DEF Patched
    <3> QED BY <3>1, <3>2
  <2> QED BY <2>1, <2>2, <2>3
<1>5. 3 \in 1 .. HLen /\ 4 \in 1 .. HLen /\ \A i \in 5 .. HLen : i \in 1 .. HLen
  BY <1>3
<1>6. file'[3] = file[3] /\ file'[4] = file[4] /\ \A i \in 5 .. HLen : file'[i] = file[i]
  BY <1>4, <1>5
<1> QED BY <1>1, <1>2, <1>6 DEF HeadInv

\* The patches change what they are for.
LEMMA HeadPatched ==
    ASSUME LoopInv, StreamInv, HeadInv, PatchSegment \/ PatchDuration \/ PatchSeekHead
    PROVE  HeadInv'
<1>1. /\ Begun /\ UNCHANGED <<opts, mux>> /\ mux.maxTS \in Int
      /\ \/ PatchSegment /\ pc = "segment" /\ pc' = "duration"
         \/ PatchDuration /\ pc = "duration" /\ pc' = "seekhead"
         \/ PatchSeekHead /\ pc = "seekhead" /\ pc' = "done"
  BY LoopFacts DEF PatchSegment, PatchDuration, PatchSeekHead, reading, Begun
<1>2. Header' = Header /\ HLen' = HLen
  BY <1>1, SameTracks DEF HLen
<1>3. Len(file) \in Nat /\ HLen \in {5, 6} /\ HLen <= Len(file)
  BY <1>1, LoopFacts
<1>4. /\ 3 \in 1 .. Len(file) /\ 4 \in 1 .. Len(file)
      /\ \A i \in 5 .. HLen : i \in 1 .. Len(file) /\ i \notin {2, 3, 4}
  BY <1>3
<1> DEFINE I(t) == Info(Scale, {st - Epoch : st \in StartTime}, t)
<1>5. /\ \A i \in 5 .. HLen : file[i] = Header[i]
      /\ file[3].el \in {"void", "seekhead"}
      /\ file[4] = IF pc \in {"seekhead", "done"} THEN I(mux.maxTS) ELSE I(0)
  BY <1>1 DEF HeadInv
<1>6. [I(0) EXCEPT !.duration = mux.maxTS] = I(mux.maxTS)
  <2>1. \A s, t, u, v : [Info(s, t, u) EXCEPT !.duration = v] = Info(s, t, v)
    BY DEF Info
  <2> QED BY <2>1
<1> HIDE DEF I
<1>7. /\ \A i \in 5 .. HLen : file'[i] = file[i]
      /\ file'[3].el \in {"void", "seekhead"}
      /\ file'[4] = IF pc' \in {"seekhead", "done"} THEN I(mux.maxTS) ELSE I(0)
  <2>1. CASE PatchSegment /\ pc = "segment" /\ pc' = "duration"
    <3>1. file'[3] = file[3] /\ file'[4] = file[4] /\ \A i \in 5 .. HLen : file'[i] = file[i]
      BY <1>1, <1>4, <2>1, PatchWrites DEF Patched
    <3> QED BY <1>5, <2>1, <3>1
  <2>2. CASE PatchDuration /\ pc = "duration" /\ pc' = "seekhead"
    <3>1. /\ file'[3] = file[3] /\ file'[4] = [file[4] EXCEPT !.duration = mux.maxTS]
          /\ \A i \in 5 .. HLen : file'[i] = file[i]
      BY <1>1, <1>4, <2>2, PatchWrites DEF Patched
    <3>2. file[4] = I(0)
      BY <1>5, <2>2
    <3> QED BY <1>5, <1>6, <2>2, <3>1, <3>2
  <2>3. CASE PatchSeekHead /\ pc = "seekhead" /\ pc' = "done"
    <3>1. /\ file'[3] = SeekHead(SeekTargets) /\ file'[4] = file[4]
          /\ \A i \in 5 .. HLen : file'[i] = file[i]
      BY <1>1, <1>4, <2>3, PatchWrites DEF Patched
    <3>2. SeekHead(SeekTargets).el = "seekhead"
      BY DEF SeekHead
    <3> QED BY <1>5, <2>3, <3>1, <3>2
  <2> QED BY <1>1, <2>1, <2>2, <2>3
<1>8. file'[4] = Info(Scale, {st - Epoch : st \in StartTime},
                      IF pc' \in {"seekhead", "done"} THEN mux.maxTS ELSE 0)
  BY <1>7 DEF I
<1> QED BY <1>1, <1>2, <1>5, <1>7, <1>8 DEF HeadInv

\* Every step keeps HeadInv.
LEMMA HeadNext == LoopInv /\ StreamInv /\ HeadInv /\ [Next]_vars => HeadInv'
<1> SUFFICES ASSUME LoopInv, StreamInv, HeadInv, [Next]_vars PROVE HeadInv'
  OBVIOUS
<1>1. CASE UNCHANGED vars
  <2>1. HLen' = HLen /\ Header' = Header
    BY <1>1, SameTracks DEF HLen, vars
  <2> QED BY <1>1, <2>1 DEF vars, HeadInv, Begun
<1>2. CASE Stop
  BY <1>2 DEF Stop, HeadInv, Begun
<1>3. CASE WriteHeader
  <2>1. /\ pc' = "next" /\ file' = Header /\ Header' = Header /\ HLen' = HLen
    BY <1>3, SameTracks DEF WriteHeader, HLen
  <2>2. file'[3].el = "void" /\ file'[4] = HeadInfo
    BY <2>1, HeaderCells DEF VoidAt, InfoAt
  <2>3. file'[4] = Info(Scale, {st - Epoch : st \in StartTime},
                        IF pc' \in {"seekhead", "done"} THEN mux'.maxTS ELSE 0)
    BY <2>1, <2>2 DEF HeadInfo
  <2> QED BY <2>1, <2>2, <2>3 DEF HeadInv
<1>4. CASE \/ NextFrame \/ LastFrame \/ CloseCluster \/ OpenCluster \/ StampCluster
           \/ WriteBlock \/ WriteCues
  <2>1. Begun
    BY <1>4 DEF NextFrame, LastFrame, CloseCluster, OpenCluster, StampCluster, WriteBlock,
                WriteCues, Begun
  <2> QED BY <1>4, <2>1, HeadUntouched
<1> QED BY <1>1, <1>2, <1>3, <1>4, HeadPatched DEF Next

\* Every step keeps TimeInv.
LEMMA TimeNext == LoopInv /\ TimeInv /\ [Next]_vars => TimeInv'
<1> SUFFICES ASSUME LoopInv, TimeInv, [Next]_vars PROVE TimeInv'
  OBVIOUS
<1>1. CASE NextFrame
  <2> DEFINE fr == src[it]
             ts == ToScale(fr.track, fr.pts)
  <2>1. /\ UNCHANGED <<mux, written>> /\ pc = "next" /\ it <= Len(src)
        /\ pc' # "next" => pkt' = Packet(Number(fr.track), ts, fr.key, ToScale(fr.track, fr.dur), <<it>>)
        /\ pc' # "next" => fr.track \in maps
    BY <1>1 DEF NextFrame
  <2>2. it \in 1 .. Len(src) /\ fr \in SrcFrame
    BY <2>1, SourceType DEF LoopInv, Begun
  <2>3. fr.pts \in Nat
    BY <2>2, SrcFrameType
  <2>4. fr.track \in maps => ts \in Nat
    BY <2>3, NumberInMaps, ToScaleType
  <2> HIDE DEF ts, fr
  <2>5. pc' # "next" => pkt'.ts >= 0
    BY <2>1, <2>4 DEF Packet
  <2> QED BY <2>1, <2>5 DEF TimeInv
<1>2. CASE WriteBlock
  <2>1. /\ pc = "block" /\ pc' = "next" /\ written' = Append(written, pkt)
        /\ mux'.maxTS = IF pkt.ts > mux.maxTS THEN pkt.ts ELSE mux.maxTS
    BY <1>2 DEF WriteBlock, LoopInv, MuxSet
  <2>2. pkt \in PacketSet /\ pkt.ts \in Int /\ written \in Seq(PacketSet) /\ mux.maxTS \in Int
    BY <2>1, LoopFacts DEF LoopInv, PacketInv, PacketSet
  <2> DEFINE n == Len(written)
  <2>3. /\ n \in Nat /\ DOMAIN written = 1 .. n /\ DOMAIN written' = 1 .. n + 1
        /\ written'[n + 1] = pkt /\ \A k \in 1 .. n : written'[k] = written[k]
    BY <2>1, <2>2, AppendProperties, LenProperties
  <2>4. \A k \in 1 .. n : written[k].ts \in Int
    <3>1. \A k \in 1 .. n : written[k] \in PacketSet
      BY <2>2, ElementOfSeq
    <3> QED BY <3>1 DEF PacketSet
  <2> HIDE DEF n
  <2>5. \A k \in 1 .. n : written[k].ts <= mux.maxTS
    BY <2>3 DEF TimeInv
  <2>6. ASSUME NEW k \in 1 .. n + 1 PROVE written'[k].ts <= mux'.maxTS
    <3>1. CASE k = n + 1
      BY <2>1, <2>2, <2>3, <3>1
    <3>2. CASE k # n + 1
      <4>1. k \in 1 .. n
        BY <2>3, <3>2
      <4> QED BY <2>1, <2>2, <2>3, <2>4, <2>5, <4>1
    <3> QED BY <3>1, <3>2
  <2>7. \E k \in 1 .. n + 1 : written'[k].ts = mux'.maxTS
    <3>1. CASE pkt.ts > mux.maxTS \/ written = <<>>
      <4>1. pkt.ts >= 0 /\ (written = <<>> => mux.maxTS = 0)
        BY <2>1 DEF TimeInv
      <4>2. mux'.maxTS = pkt.ts
        BY <2>1, <2>2, <3>1, <4>1
      <4> QED BY <2>3, <4>2
    <3>2. CASE ~(pkt.ts > mux.maxTS) /\ written # <<>>
      <4>1. PICK k \in 1 .. n : written[k].ts = mux.maxTS
        BY <2>3, <3>2 DEF TimeInv
      <4>2. k \in 1 .. n + 1 /\ written'[k] = written[k] /\ mux'.maxTS = mux.maxTS
        BY <2>1, <2>3, <3>2
      <4> QED BY <4>1, <4>2
    <3> QED BY <3>1, <3>2
  <2>8. written' # <<>>
    BY <2>3, EmptySeq
  <2> QED BY <2>1, <2>3, <2>6, <2>7, <2>8 DEF TimeInv
<1>3. CASE \/ CloseCluster \/ OpenCluster \/ StampCluster \/ WriteCues \/ WriteHeader \/ LastFrame
           \/ PatchSegment \/ PatchDuration \/ PatchSeekHead \/ Stop \/ UNCHANGED vars
  <2>1. /\ UNCHANGED <<pkt, written>>
        /\ pc' \in {"close", "open", "stamp", "block"} => pc \in {"close", "open", "stamp", "block"}
    BY <1>3 DEF CloseCluster, OpenCluster, StampCluster, WriteCues, WriteHeader, LastFrame,
                PatchSegment, PatchDuration, PatchSeekHead, Stop, vars, reading
  <2>2. mux'.maxTS = mux.maxTS
    BY <1>3 DEF CloseCluster, OpenCluster, StampCluster, WriteCues, WriteHeader, LastFrame,
                PatchSegment, PatchDuration, PatchSeekHead, Stop, vars, reading, LoopInv, MuxSet
  <2> QED BY <2>1, <2>2 DEF TimeInv
<1> QED BY <1>1, <1>2, <1>3 DEF Next

\* The header says what Export was given.
LEMMA HeadSurvives == ASSUME LoopInv, StreamInv, HeadInv, TimeInv PROVE HeaderSurvives
<1> SUFFICES ASSUME pc \notin {"refused", "header", "stopped"} PROVE HeaderSurvives
  BY DEF HeaderSurvives
<1> DEFINE d == NewDemuxer(file)
           dates == {st - Epoch : st \in StartTime}
           duration == IF pc \in {"seekhead", "done"} THEN mux.maxTS ELSE 0
           entry(k) == ParseTrackEntry(EncodeTrackEntry(MapTrackOut(TrackInfo[Maps[k]], k)))
<1>1. Begun /\ HLen \in {5, 6} /\ Len(file) \in Nat /\ Maps \in Seq(Tracks) /\ Len(Maps) \in Nat
      /\ DOMAIN Maps = 1 .. Len(Maps) /\ Scale \in Nat \ {0}
  BY LoopFacts, MapsType, ConvertAssumption DEF Begun
<1>2. /\ file[5] = HeadTracks /\ (HLen = 6 => file[6] = Tags(FreeTags))
      /\ file[4] = Info(Scale, dates, duration) /\ file[3].el \in {"void", "seekhead"}
  <2>1. \A i \in 5 .. HLen : file[i] = Header[i]
    BY <1>1 DEF HeadInv
  <2>2. 5 \in 5 .. HLen /\ (HLen = 6 => 6 \in 5 .. HLen)
    BY <1>1
  <2> QED BY <1>1, <2>1, <2>2, HeaderCells DEF HeadInv, TracksAt
<1>3. file[4].el = "info" /\ file[4].scale = Scale /\ file[4].date = dates /\ file[4].duration = duration
  BY <1>2 DEF Info
<1>4. file[5].el = "tracks" /\ (HLen = 6 => file[6].el = "tags" /\ file[6].tags = FreeTags)
  BY <1>2 DEF HeadTracks, TrackList, Tags
<1>5. HeadSays(file, HLen)
  BY <1>1, <1>2, <1>3, <1>4 DEF HeadSays, StreamInv, FileInv
<1>6. HeadOf(d) = HeadIn(file, HLen)
  BY <1>5, HeadRead
<1>7. /\ d.scale = Scale /\ d.date = dates /\ d.entries = Joined(<<>>, file[5])
      /\ d.tags = IF HLen = 6 THEN TagsAlone(file[6]) ELSE NoTags
  <2> HIDE DEF d
  <2> QED BY <1>3, <1>6 DEF HeadOf, HeadIn
<1> HIDE DEF d
<1>8. d.entries = [k \in 1 .. Len(Maps) |-> entry(k)]
  <2> DEFINE S == {entry(k) : k \in 1 .. Len(Maps)}
             es == [k \in 1 .. Len(Maps) |-> entry(k)]
  <2>1. Parsed(file[5]) = es
    BY <1>1, <1>2 DEF HeadTracks, TrackList, Parsed
  <2>2. es \in Seq(S)
    <3> HIDE DEF entry
    <3> QED BY <1>1
  <2> HIDE DEF es, S
  <2> QED BY <1>7, <2>1, <2>2, ConcatEmptySeq DEF Joined, es
<1>9. Len(d.entries) = Len(Maps)
  <2> HIDE DEF entry
  <2> QED BY <1>1, <1>8
<1>10. ASSUME NEW k \in DOMAIN Maps
       PROVE  LET info == TrackInfo[Maps[k]]
                  back == MapTrack(d.entries[k], d.scale)
              IN  /\ d.entries[k].number = k /\ CanImport(d.entries[k])
                  /\ back.kind = info.kind /\ back.codec = info.codec
                  /\ back.private = info.private
  <2> DEFINE tr == Maps[k]
             out == MapTrackOut(TrackInfo[tr], k)
             te == d.entries[k]
  <2>1. tr \in Tracks /\ CanExport(TrackInfo[tr])
    <3>1. Maps \in Seq(Tracks \cap Exported)
      BY ConvertAssumption, SelectType DEF Maps
    <3>2. tr \in Tracks \cap Exported
      BY <1>1, <3>1, ElementOfSeq
    <3> QED BY <3>2 DEF Exported
  <2>2. te = ParseTrackEntry(EncodeTrackEntry(out))
    <3> HIDE DEF out
    <3> QED BY <1>1, <1>8 DEF out
  <2>3. TrackInfo[tr].kind \in DOMAIN TypeOf
    BY <2>1, ConvertAssumption
  <2>4. /\ DOMAIN out = DOMAIN ZeroEntry /\ out.type = TypeOf[TrackInfo[tr].kind]
        /\ TrackInfo[tr].kind # "video" => out.width = 0 /\ out.height = 0
        /\ TrackInfo[tr].kind # "audio" => out.freq = 0 /\ out.outFreq = 0 /\ out.channels = 0 /\ out.depth = 0
    BY <2>3, EntryFields
  <2>5. /\ out.type # "video" => out.width = 0 /\ out.height = 0
        /\ out.type # "audio" => out.freq = 0 /\ out.outFreq = 0 /\ out.channels = 0 /\ out.depth = 0
    BY <2>3, <2>4 DEF TypeOf
  <2>6. \A f \in DOMAIN ZeroEntry : te[f] = out[f]
    <3> HIDE DEF out, te
    <3> QED BY <2>2, <2>4, <2>5, EntryReadBack
  <2> HIDE DEF te
  <2>7. LET back == MapTrack(te, d.scale)
        IN  /\ te.number = k /\ CanImport(te)
            /\ back.kind = TrackInfo[tr].kind /\ back.codec = TrackInfo[tr].codec
            /\ back.private = TrackInfo[tr].private
    BY <2>1, <2>6, MapBack
  <2> QED BY <2>7 DEF te
<1>11. {date + Epoch : date \in d.date} = StartTime
  <2>1. StartTime \subseteq Int /\ Epoch \in Int
    BY TrackInfoAssumption
  <2>2. \A st \in StartTime : (st - Epoch) + Epoch = st
    BY <2>1
  <2> QED BY <1>7, <2>2
<1>12. d.tags = FreeTags
  <2>1. DOMAIN NoTags = {}
    BY DEF NoTags
  <2>2. CASE HLen = 6
    <3>1. TagsAlone(file[6]) = [name \in DOMAIN FreeTags |-> FreeTags[name]]
      BY <1>4, <2>1, <2>2 DEF TagsAlone
    <3>2. FreeTags = [name \in DOMAIN FreeTags |-> FreeTags[name]]
      BY DEF FreeTags
    <3> QED BY <1>7, <2>2, <3>1, <3>2
  <2>3. CASE HLen = 5
    <3>1. FreeTags = NoTags
      BY <2>3, HeaderCells
    <3> QED BY <1>7, <2>3, <3>1
  <2> QED BY <1>1, <2>2, <2>3
<1>13. pc = "done" =>
          /\ \A k \in DOMAIN written : written[k].ts <= file[InfoAt].duration
          /\ written # <<>> => \E k \in DOMAIN written : written[k].ts = file[InfoAt].duration
  BY <1>3 DEF TimeInv, InfoAt
<1>14. d.tags = [name \in DOMAIN SourceTags \ Reserved |-> SourceTags[name]]
  BY <1>12 DEF FreeTags
<1> QED BY <1>9, <1>10, <1>11, <1>13, <1>14 DEF HeaderSurvives, d

\* WriteHeader writes the tracks as Export maps them, and nothing but the seek
\* entries and the duration changes in the header afterwards: from any exported
\* file Import makes the same tracks, start time and free tags.
THEOREM ExportHeader == Spec => []HeaderSurvives
<1>1. LoopInv /\ StreamInv /\ HeadInv /\ TimeInv /\ [Next]_vars
         => LoopInv' /\ StreamInv' /\ HeadInv' /\ TimeInv'
  BY LoopNext, StreamNext, HeadNext, TimeNext
<1>2. LoopInv /\ StreamInv /\ HeadInv /\ TimeInv => HeaderSurvives
  BY HeadSurvives
<1> QED BY <1>1, <1>2, LoopInit, StreamInit, HeadInit, PTL DEF Spec

-----------------------------------------------------------------------------
(* Which frames are converted.                                             *)

\* The frames of a track, and where the iterator starts.
Own(tr)   == {k \in DOMAIN src : src[k].track = tr}
FirstRead == IF maps = {} THEN Len(src) + 1 ELSE ReadInterleaved(0)

\* A keyframe of the range up to n is at or after its end.
Ends(tr, n) ==
    \E j \in FirstRead .. n : /\ src[j].track = tr /\ src[j].key /\ ~BeforeRange(src[j])
                              /\ src[j].pts >= ToPTS(tr, range.to)

\* The rules of the frame loop, without its state.
Behind(k) ==
    /\ range.to > 0
    /\ IF IsVideo(src[k].track) THEN Ends(src[k].track, k)
       ELSE src[k].pts >= ToPTS(src[k].track, range.to)
Taking(k)     == src[k].track \in maps /\ ~BeforeRange(src[k]) /\ ~Behind(k)
Converting(k) == Taking(k) /\ src[k].decodes
Converted(n)  == {k \in FirstRead .. n : Converting(k)}

\* What the frames of a track are, in the order Writer accepts.
LEMMA OwnFrames ==
    ASSUME src \in Sources, NEW tr
    PROVE  /\ Len(src) \in Nat /\ DOMAIN src = 1 .. Len(src) /\ Own(tr) \subseteq 1 .. Len(src)
           /\ \A k \in Own(tr) : /\ k \in Nat /\ src[k].track = tr /\ src[k].pts \in Nat
                                 /\ src[k].key \in BOOLEAN /\ (~IsVideo(tr) => src[k].key)
           /\ \A i, j \in Own(tr) : i < j =>
                 IF IsVideo(tr) THEN src[j].key => src[i].pts < src[j].pts
                 ELSE src[i].pts <= src[j].pts
<1>1. Len(src) \in Nat /\ DOMAIN src = 1 .. Len(src) /\ \A k \in DOMAIN src : src[k] \in SrcFrame
  BY SourceType
<1>2. Own(tr) \subseteq 1 .. Len(src) /\ \A k \in Own(tr) : src[k].track = tr
  BY <1>1 DEF Own
<1>3. ASSUME NEW k \in Own(tr)
      PROVE  /\ k \in Nat /\ src[k].pts \in Nat
             /\ src[k].key \in BOOLEAN /\ (~IsVideo(tr) => src[k].key)
  <2>1. src[k] \in SrcFrame /\ k \in Nat
    BY <1>1, <1>2
  <2> QED BY <1>2, <2>1, SrcFrameType
<1>4. Proper(src)
  BY DEF Sources
<1>5. ASSUME NEW i \in Own(tr), NEW j \in Own(tr), i < j
      PROVE  IF IsVideo(tr) THEN src[j].key => src[i].pts < src[j].pts
             ELSE src[i].pts <= src[j].pts
  BY <1>1, <1>2, <1>4, <1>5 DEF Proper
<1> QED BY <1>1, <1>2, <1>3, <1>5

\* The limits of the range are natural numbers in every timebase.
LEMMA LimitType ==
    ASSUME LoopInv, NEW tr \in Tracks
    PROVE  /\ range.from \in Nat /\ range.to \in Nat
           /\ ToPTS(tr, range.from) \in Nat /\ ToPTS(tr, range.to) \in Nat
<1>1. opts.range \in Ranges
  BY DEF LoopInv, TypeOK
<1>2. range.from \in Nat /\ range.to \in Nat
  <2>1. range \in [from : Nat, to : Nat]
    BY <1>1, ConvertAssumption DEF range
  <2> QED BY <2>1
<1>3. Timebase[tr].den \in Nat /\ Timebase[tr].num * Nano \in Nat \ {0}
  BY TimebaseType
<1>4. \A x \in Nat : (x * Timebase[tr].den) \div (Timebase[tr].num * Nano) \in Nat
  BY <1>3, Rounded
<1> QED BY <1>2, <1>4 DEF ToPTS

\* Of a track that has one frame at pts 0 at most, nothing comes before the iterator.
LEMMA NothingMissed ==
    ASSUME LoopInv, NEW tr \in maps, NEW k \in Own(tr),
           \A i, j \in DOMAIN src : (src[i].track = src[j].track /\ src[i].pts = 0 /\ src[j].pts = 0)
                                       => i = j
    PROVE  FirstRead <= k
<1>1. src \in Sources
  BY DEF LoopInv
<1>2. /\ Len(src) \in Nat /\ DOMAIN src = 1 .. Len(src) /\ k \in 1 .. Len(src)
      /\ src[k].track = tr /\ src[k].pts \in Nat
  BY <1>1, OwnFrames
<1> DEFINE before == {i \in Indexed(tr) : src[i].pts <= 0}
           at == SeekPTS(tr, 0)
           starts == {SeekPTS(t, 0) : t \in maps}
<1>3. FirstRead <= at
  <2>1. \A t \in maps : SeekPTS(t, 0) \in 1 .. Len(src) + 1
    BY <1>1, SeekInRange
  <2>2. starts \subseteq 1 .. Len(src) + 1 /\ at \in starts /\ Len(src) + 1 \in Nat
    BY <1>2, <2>1
  <2>3. \A j \in starts : (CHOOSE i \in starts : \A j2 \in starts : i <= j2) <= j
    <3> HIDE DEF starts, at
    <3> QED BY <2>2, FirstChosen
  <2>4. FirstRead = CHOOSE i \in starts : \A j2 \in starts : i <= j2
    BY DEF FirstRead, ReadInterleaved
  <2> QED BY <2>2, <2>3, <2>4
<1>4. at <= k
  <2>1. CASE before = {}
    <3>1. at = 1
      BY <2>1 DEF SeekPTS
    <3> QED BY <1>2, <3>1
  <2>2. CASE before # {}
    <3>1. \A i \in before : i \in Own(tr) /\ src[i].key /\ src[i].pts <= 0
      BY DEF Indexed, Own
    <3>2. before \subseteq 1 .. Len(src)
      BY <1>1, <3>1, OwnFrames
    <3>3. at = CHOOSE i \in before : \A j \in before : j <= i
      BY <2>2 DEF SeekPTS
    <3>4. at \in before
      <4> HIDE DEF before, at
      <4> QED BY <1>2, <2>2, <3>2, <3>3, LastChosen
    <3>5. /\ at \in Own(tr) /\ src[at].key /\ src[at].pts = 0 /\ at \in DOMAIN src
          /\ at \in Nat /\ src[at].track = tr
      <4>1. at \in Own(tr) /\ src[at].key /\ src[at].pts <= 0
        BY <3>1, <3>4
      <4> HIDE DEF at
      <4>2. src[at].pts \in Nat /\ at \in Nat /\ src[at].track = tr
        BY <1>1, <4>1, OwnFrames
      <4> QED BY <4>1, <4>2 DEF Own
    <3> HIDE DEF at, before
    <3>6. ASSUME k < at PROVE FALSE
      <4>1. IF IsVideo(tr) THEN src[k].pts < src[at].pts ELSE src[k].pts <= src[at].pts
        BY <1>1, <3>5, <3>6, OwnFrames
      <4>2. src[k].pts = 0
        BY <1>2, <3>5, <4>1
      <4>3. k = at
        BY <1>2, <3>5, <4>2
      <4> QED BY <1>2, <3>6, <4>3
    <3> QED BY <1>2, <3>5, <3>6
  <2> QED BY <2>1, <2>2
<1>5. FirstRead \in Int
  <2>1. FirstRead = ReadInterleaved(0) /\ maps # {}
    BY DEF FirstRead
  <2> QED BY <1>1, <1>2, <2>1, IteratorInRange
<1>6. at \in Int
  BY <1>1, <1>2, SeekInRange
<1> HIDE DEF at
<1> QED BY <1>2, <1>3, <1>4, <1>5, <1>6

\* Where the video of a range starts.
Syncs(tr) == {k \in Own(tr) : src[k].key /\ src[k].pts <= ToPTS(tr, range.from)}
Start(tr) == IF Syncs(tr) = {} THEN CHOOSE k \in Own(tr) : \A j \in Own(tr) : k <= j
             ELSE CHOOSE k \in Syncs(tr) : \A j \in Syncs(tr) : j <= k

\* Everything stored before the start is shown before it.
LEMMA StartFrame ==
    ASSUME LoopInv, NEW tr \in maps, IsVideo(tr), Own(tr) # {}
    PROVE  /\ Start(tr) \in Own(tr)
           /\ \A k \in Own(tr) : k < Start(tr) => src[k].pts < src[Start(tr)].pts
           /\ \A k \in Own(tr) : src[k].key /\ src[k].pts < src[Start(tr)].pts => src[Start(tr)].key
           /\ Syncs(tr) # {} => Start(tr) \in Syncs(tr)
           /\ Syncs(tr) = {} => \A k \in Own(tr) : Start(tr) <= k
<1> DEFINE s == Start(tr)
<1>1. src \in Sources
  BY DEF LoopInv
<1>2. Len(src) \in Nat /\ Own(tr) \subseteq 1 .. Len(src)
  BY <1>1, OwnFrames
<1>3. Syncs(tr) \subseteq Own(tr) /\ \A k \in Syncs(tr) : src[k].key
  BY DEF Syncs
<1>4. CASE Syncs(tr) = {}
  <2>1. s = CHOOSE k \in Own(tr) : \A j \in Own(tr) : k <= j
    BY <1>4 DEF Start
  <2>2. s \in Own(tr) /\ \A j \in Own(tr) : s <= j
    <3> HIDE DEF s
    <3> QED BY <1>2, <2>1, FirstChosen
  <2> HIDE DEF s
  <2>3. \A k \in Own(tr) : k \in Nat /\ ~(k < s) /\ src[k].pts \in Nat
    BY <1>1, <2>2, OwnFrames
  <2>4. ASSUME NEW k \in Own(tr), src[k].key, src[k].pts < src[s].pts PROVE FALSE
    <3>1. k # s
      BY <2>2, <2>3, <2>4
    <3>2. s < k
      BY <2>2, <2>3, <3>1
    <3>3. src[s].pts < src[k].pts
      BY <1>1, <2>2, <2>4, <3>2, OwnFrames
    <3> QED BY <2>2, <2>3, <2>4, <3>3
  <2> QED BY <1>4, <2>2, <2>3, <2>4 DEF s
<1>5. CASE Syncs(tr) # {}
  <2>1. s = CHOOSE k \in Syncs(tr) : \A j \in Syncs(tr) : j <= k
    BY <1>5 DEF Start
  <2>2. s \in Syncs(tr)
    <3>1. Syncs(tr) \subseteq 1 .. Len(src)
      BY <1>2, <1>3
    <3> HIDE DEF s
    <3> QED BY <1>2, <1>5, <2>1, <3>1, LastChosen
  <2>3. s \in Own(tr) /\ src[s].key
    BY <1>3, <2>2
  <2> HIDE DEF s
  <2>4. \A k \in Own(tr) : k < s => src[k].pts < src[s].pts
    BY <1>1, <2>3, OwnFrames
  <2> QED BY <1>5, <2>2, <2>3, <2>4 DEF s
<1> QED BY <1>4, <1>5

\* snapPTS is the time of that frame.
LEMMA SnapIsStart ==
    ASSUME LoopInv, NEW tr \in maps, IsVideo(tr), Own(tr) # {}
    PROVE  HasSnap(tr) /\ SnapPTS(tr) = src[Start(tr)].pts
<1> DEFINE from == ToPTS(tr, range.from)
           rest == {k \in DOMAIN src : k >= SeekPTS(tr, from) /\ src[k].track = tr}
           before == {k \in Indexed(tr) : src[k].pts <= from}
<1>1. src \in Sources
  BY DEF LoopInv
<1>2. /\ Len(src) \in Nat /\ DOMAIN src = 1 .. Len(src) /\ Own(tr) \subseteq 1 .. Len(src)
      /\ Start(tr) \in Own(tr)
  BY <1>1, OwnFrames, StartFrame
<1>3. before = Syncs(tr)
  BY DEF Indexed, Syncs, Own, IsVideo
<1>4. /\ HasSnap(tr) <=> rest # {}
      /\ SnapPTS(tr) = src[CHOOSE k \in rest : \A j \in rest : k <= j].pts
  BY DEF HasSnap, SnapPTS
<1>5. CASE Syncs(tr) = {}
  <2>1. SeekPTS(tr, from) = 1
    BY <1>3, <1>5 DEF SeekPTS
  <2>2. \A k \in Own(tr) : k >= 1
    BY <1>2
  <2>3. rest = Own(tr)
    BY <2>1, <2>2 DEF Own
  <2>4. Start(tr) = CHOOSE k \in Own(tr) : \A j \in Own(tr) : k <= j
    BY <1>5 DEF Start
  <2> HIDE DEF rest
  <2> QED BY <1>4, <2>3, <2>4
<1>6. CASE Syncs(tr) # {}
  <2>1. SeekPTS(tr, from) = Start(tr)
    <3>1. SeekPTS(tr, from) = IF before = {} THEN 1 ELSE CHOOSE k \in before : \A j \in before : j <= k
      BY DEF SeekPTS
    <3> HIDE DEF before
    <3> QED BY <1>3, <1>6, <3>1 DEF Start
  <2>2. rest = {k \in Own(tr) : k >= Start(tr)}
    BY <2>1 DEF Own
  <2>3. Start(tr) \in rest /\ (\A j \in rest : Start(tr) <= j) /\ rest \subseteq 1 .. Len(src)
    BY <1>2, <2>2
  <2> DEFINE m == CHOOSE k \in rest : \A j \in rest : k <= j
  <2> HIDE DEF rest
  <2>4. m \in rest /\ \A j \in rest : m <= j
    BY <1>2, <2>3, FirstChosen
  <2> HIDE DEF m
  <2>5. m = Start(tr)
    <3>1. m <= Start(tr) /\ Start(tr) <= m /\ m \in Int /\ Start(tr) \in Int
      BY <1>2, <2>3, <2>4
    <3> QED BY <3>1
  <2> QED BY <1>4, <2>3, <2>5 DEF m
<1> QED BY <1>5, <1>6

\* What the frame loop takes of a track is what the range asks for.
LEMMA TakenIsWanted ==
    ASSUME LoopInv, NEW tr \in maps, \A k \in Own(tr) : FirstRead <= k, FirstRead \in Int
    PROVE  \A k \in Own(tr) : Taking(k) <=> k \in Wanted(tr)
<1> SUFFICES ASSUME NEW k \in Own(tr) PROVE Taking(k) <=> k \in Wanted(tr)
  OBVIOUS
<1>1. src \in Sources /\ tr \in Tracks
  BY NumberInMaps DEF LoopInv
<1> DEFINE from == ToPTS(tr, range.from)
           to   == ToPTS(tr, range.to)
<1>2. /\ Len(src) \in Nat /\ DOMAIN src = 1 .. Len(src) /\ Own(tr) \subseteq 1 .. Len(src)
      /\ \A j \in Own(tr) : /\ j \in Nat /\ src[j].track = tr /\ src[j].pts \in Nat
                            /\ src[j].key \in BOOLEAN
  BY <1>1, OwnFrames
<1>3. range.to \in Nat /\ from \in Nat /\ to \in Nat
  BY <1>1, LimitType
<1>4. Taking(k) <=> ~BeforeRange(src[k]) /\ ~Behind(k)
  BY <1>2 DEF Taking
<1>5. CASE range = Whole
  <2>1. Wanted(tr) = Own(tr)
    BY <1>5 DEF Wanted, Own
  <2>2. ~BeforeRange(src[k])
    BY <1>5 DEF BeforeRange
  <2>3. range.to = 0
    BY <1>5 DEF Whole
  <2> QED BY <1>4, <2>1, <2>2, <2>3 DEF Behind
<1>6. CASE range # Whole /\ ~IsVideo(tr)
  <2>1. Wanted(tr) = {j \in Own(tr) : src[j].pts >= from /\ (range.to > 0 => src[j].pts < to)}
    BY <1>6 DEF Wanted, Own
  <2>2. BeforeRange(src[k]) <=> src[k].pts < from
    BY <1>2, <1>6 DEF BeforeRange, HasSnap, SnapPTS
  <2>3. Behind(k) <=> range.to > 0 /\ src[k].pts >= to
    BY <1>2, <1>6 DEF Behind
  <2> HIDE DEF from, to
  <2> QED BY <1>2, <1>3, <1>4, <2>1, <2>2, <2>3
<1>7. CASE range # Whole /\ IsVideo(tr)
  <2> DEFINE s == Start(tr)
             stops == {j \in Own(tr) : src[j].key /\ src[j].pts >= to}
  <2>1. Wanted(tr) = {j \in Own(tr) : /\ j >= s /\ src[j].pts >= src[s].pts
                                      /\ range.to > 0 => \A i \in stops : j < i}
    BY <1>7 DEF Wanted, Own, Start, Syncs
  <2>2. /\ s \in Own(tr) /\ \A j \in Own(tr) : j < s => src[j].pts < src[s].pts
        /\ \A j \in Own(tr) : src[j].key /\ src[j].pts < src[s].pts => src[s].key
    BY <1>7, StartFrame
  <2>3. \A j \in Own(tr) : BeforeRange(src[j]) <=> src[j].pts < src[s].pts
    BY <1>2, <1>7, SnapIsStart DEF BeforeRange
  <2> HIDE DEF s, from, to
  <2>4. Behind(k) <=> range.to > 0 /\ Ends(tr, k)
    BY <1>2, <1>7 DEF Behind
  <2>5. ASSUME Ends(tr, k) PROVE \E i \in stops : i <= k
    <3>1. PICK j \in FirstRead .. k : src[j].track = tr /\ src[j].key /\ src[j].pts >= to
      BY <2>5 DEF Ends, to
    <3>2. FirstRead >= 1
      BY <1>1, IteratorInRange, <1>2 DEF FirstRead
    <3>3. j \in Own(tr) /\ j <= k
      BY <1>2, <3>1, <3>2 DEF Own
    <3> QED BY <3>1, <3>3
  <2>6. ASSUME NEW i \in stops, i <= k, s <= k PROVE Ends(tr, k)
    <3>1. CASE ~(src[i].pts < src[s].pts)
      <4>1. i \in FirstRead .. k /\ ~BeforeRange(src[i]) /\ src[i].track = tr
        BY <1>2, <2>3, <2>6, <3>1
      <4> QED BY <2>6, <4>1 DEF Ends, to
    <3>2. CASE src[i].pts < src[s].pts
      <4>1. src[s].key /\ src[s].pts >= to /\ ~BeforeRange(src[s]) /\ src[s].track = tr
        BY <1>2, <1>3, <2>2, <2>3, <2>6, <3>2
      <4>2. s \in FirstRead .. k
        BY <1>2, <2>2, <2>6
      <4> QED BY <4>1, <4>2 DEF Ends, to
    <3> QED BY <3>1, <3>2
  <2>7. k \in Nat /\ s \in Nat /\ src[k].pts \in Nat /\ src[s].pts \in Nat /\ \A i \in stops : i \in Nat
    BY <1>2, <2>2
  <2>8. ~(src[k].pts < src[s].pts) => k >= s
    BY <2>2, <2>7
  <2>9. k >= s => (Ends(tr, k) <=> \E i \in stops : i <= k)
    BY <2>5, <2>6, <2>7
  <2> HIDE DEF stops
  <2>10. (\A i \in stops : k < i) <=> ~\E i \in stops : i <= k
    <3>1. \A i \in stops : k < i <=> ~(i <= k)
      BY <2>7
    <3> QED BY <3>1
  <2> QED BY <1>4, <2>1, <2>3, <2>4, <2>7, <2>8, <2>9, <2>10
<1> QED BY <1>5, <1>6, <1>7

\* The packets written and the one being written, by frame.
Writing == pc \in {"close", "open", "stamp", "block"}
Accepted == {written[k].data[1] : k \in DOMAIN written}
Got == Accepted \cup (IF Writing THEN {it - 1} ELSE {})

\* videoDone is the video tracks whose end the loop has passed, and the packets
\* are the frames it has to take so far.
CutInv ==
    /\ pc = "header" => ended = {}
    /\ Begun =>
          /\ FirstRead <= it
          /\ ended = {tr \in maps : IsVideo(tr) /\ range.to > 0 /\ Ends(tr, it - 1)}
          /\ Got = Converted(it - 1)
          /\ ~Writing /\ pc # "next" => it = Len(src) + 1

\* The source and the options stay, so these rules stay.
LEMMA SameSource ==
    ASSUME src' = src, opts' = opts
    PROVE  /\ FirstRead' = FirstRead /\ maps' = maps /\ range' = range
           /\ \A tr, n : Ends(tr, n)' = Ends(tr, n)
           /\ \A n : Converted(n)' = Converted(n)
           /\ Converted(it - 1)' = Converted(it' - 1)
           /\ \A tr : Ends(tr, it - 1)' = Ends(tr, it' - 1)
           /\ \A fr : BeforeRange(fr)' = BeforeRange(fr)
<1>1. maps' = maps /\ range' = range
  BY SameTracks DEF range
<1>2. \A tr, pts : SeekPTS(tr, pts)' = SeekPTS(tr, pts)
  BY DEF SeekPTS, Indexed
<1>3. FirstRead' = FirstRead
  <2>1. {SeekPTS(tr, 0) : tr \in maps}' = {SeekPTS(tr, 0) : tr \in maps}
    BY <1>1, <1>2
  <2>2. ReadInterleaved(0)' = ReadInterleaved(0)
    BY <2>1 DEF ReadInterleaved
  <2> QED BY <1>1, <2>2 DEF FirstRead
<1>4. \A fr : BeforeRange(fr)' = BeforeRange(fr)
  <2>1. \A tr : HasSnap(tr)' = HasSnap(tr)
    BY <1>1, <1>2 DEF HasSnap, IsVideo, ToPTS
  <2>2. \A tr : SnapPTS(tr)' = SnapPTS(tr)
    <3> SUFFICES ASSUME NEW tr PROVE SnapPTS(tr)' = SnapPTS(tr)
      OBVIOUS
    <3>1. /\ SeekPTS(tr, ToPTS(tr, range.from))' = SeekPTS(tr, ToPTS(tr, range.from))
          /\ ToPTS(tr, range.from)' = ToPTS(tr, range.from)
      BY <1>1, <1>2 DEF ToPTS
    <3> QED BY <3>1 DEF SnapPTS, IsVideo
  <2> QED BY <1>1, <2>1, <2>2 DEF BeforeRange
<1>5. /\ \A tr, n : Ends(tr, n)' = Ends(tr, n)
      /\ \A tr : Ends(tr, it - 1)' = Ends(tr, it' - 1)
  BY <1>1, <1>3, <1>4 DEF Ends, ToPTS
<1>6. \A k : Taking(k)' = Taking(k)
  <2>1. \A k : Behind(k)' = Behind(k)
    BY <1>1, <1>5 DEF Behind, IsVideo, ToPTS
  <2> QED BY <1>1, <1>4, <2>1 DEF Taking
<1>7. /\ \A n : Converted(n)' = Converted(n)
      /\ Converted(it - 1)' = Converted(it' - 1)
  BY <1>3, <1>6 DEF Converted, Converting
<1> QED BY <1>1, <1>3, <1>4, <1>5, <1>7

\* One more frame.
LEMMA EndsNext ==
    ASSUME NEW n \in Int, FirstRead \in Int, FirstRead <= n, NEW tr
    PROVE  Ends(tr, n) <=> \/ Ends(tr, n - 1)
                           \/ /\ src[n].track = tr /\ src[n].key /\ ~BeforeRange(src[n])
                              /\ src[n].pts >= ToPTS(tr, range.to)
<1>1. FirstRead .. n = (FirstRead .. n - 1) \cup {n}
  OBVIOUS
<1> QED BY <1>1 DEF Ends

\* The same of the frames converted.
LEMMA ConvertedNext ==
    ASSUME NEW n \in Int, FirstRead \in Int, FirstRead <= n
    PROVE  Converted(n) = Converted(n - 1) \cup (IF Converting(n) THEN {n} ELSE {})
<1>1. FirstRead .. n = (FirstRead .. n - 1) \cup {n}
  OBVIOUS
<1> QED BY <1>1 DEF Converted

\* The iterator starts in the stream.
LEMMA FirstReadType == ASSUME LoopInv PROVE FirstRead \in Int
<1>1. src \in Sources /\ Len(src) \in Nat
  BY SourceType DEF LoopInv
<1>2. CASE maps = {}
  BY <1>1, <1>2 DEF FirstRead
<1>3. CASE maps # {}
  BY <1>1, <1>3, IteratorInRange DEF FirstRead
<1> QED BY <1>2, <1>3

\* CutInv holds initially,
LEMMA CutInit == Init => CutInv
  BY DEF Init, CutInv, Begun

\* with the header, when the iterator starts,
LEMMA CutHeader == ASSUME LoopInv, CutInv, WriteHeader PROVE CutInv'
<1>1. /\ pc = "header" /\ pc' = "next" /\ UNCHANGED <<src, opts, ended, written>>
      /\ it' = IF maps = {} THEN Len(src) + 1 ELSE ReadInterleaved(0)
  BY DEF WriteHeader
<1>2. it' = FirstRead /\ FirstRead \in Int /\ written = <<>> /\ ended = {}
  BY <1>1, FirstReadType DEF FirstRead, LoopInv, CutInv
<1>3. FirstRead .. it' - 1 = {}
  BY <1>2
<1>4. Got' = {}
  BY <1>1, <1>2 DEF Got, Accepted, Writing
<1>5. Converted(it - 1)' = {}
  BY <1>1, <1>3, SameSource DEF Converted
<1>6. \A tr : ~Ends(tr, it - 1)'
  BY <1>1, <1>3, SameSource DEF Ends
<1>7. FirstRead' <= it'
  BY <1>1, <1>2, SameSource
<1>8. ended' = {}
  BY <1>1, <1>2
<1> QED BY <1>1, <1>4, <1>5, <1>6, <1>7, <1>8 DEF CutInv, Writing

\* with a frame that is skipped, converted or ends its video track,
LEMMA CutNextFrame == ASSUME LoopInv, CutInv, NextFrame PROVE CutInv'
<1> DEFINE fr == src[it]
           tr == fr.track
           skipped == tr \notin maps \/ BeforeRange(fr)
<1>1. /\ pc = "next" /\ it <= Len(src) /\ it' = it + 1
      /\ UNCHANGED <<src, opts, written>>
      /\ ended' = IF ~skipped /\ AfterRange(fr) /\ IsVideo(tr) THEN ended \cup {tr} ELSE ended
      /\ pc' \in {"next", "close", "block"}
      /\ pc' = "next" <=> skipped \/ AfterRange(fr) \/ ~fr.decodes
  BY DEF NextFrame
<1>2. FirstRead \in Int /\ it \in Int /\ it' - 1 = it
  BY <1>1, FirstReadType, SourceType DEF LoopInv, TypeOK
<1>3. /\ FirstRead <= it
      /\ ended = {t \in maps : IsVideo(t) /\ range.to > 0 /\ Ends(t, it - 1)}
      /\ Accepted = Converted(it - 1)
  BY <1>1 DEF CutInv, Begun, Got, Writing
<1>4. \A t : Ends(t, it) <=> \/ Ends(t, it - 1)
                             \/ tr = t /\ fr.key /\ ~BeforeRange(fr) /\ fr.pts >= ToPTS(t, range.to)
  BY <1>2, <1>3, EndsNext
<1>5. ~skipped => (AfterRange(fr) <=> Behind(it))
  <2>1. Behind(it) <=> range.to > 0 /\ (IF IsVideo(tr) THEN Ends(tr, it) ELSE fr.pts >= ToPTS(tr, range.to))
    BY DEF Behind
  <2>2. AfterRange(fr) <=>
           /\ range.to > 0
           /\ IF IsVideo(tr) THEN tr \in ended \/ (fr.key /\ fr.pts >= ToPTS(tr, range.to))
              ELSE fr.pts >= ToPTS(tr, range.to)
    BY DEF AfterRange
  <2> HIDE DEF fr
  <2> QED BY <1>3, <1>4, <2>1, <2>2
<1>6. pc' # "next" <=> Converting(it)
  BY <1>1, <1>5 DEF Taking, Converting
<1>7. ended' = {t \in maps : IsVideo(t) /\ range.to > 0 /\ Ends(t, it)}
  <2>1. ASSUME NEW t \in maps
        PROVE  t \in ended' <=> IsVideo(t) /\ range.to > 0 /\ Ends(t, it)
    <3>1. CASE t # tr \/ skipped
      <4>1. t \in ended' <=> t \in ended
        BY <1>1, <3>1
      <4>2. Ends(t, it) <=> Ends(t, it - 1)
        BY <1>4, <3>1
      <4> QED BY <1>3, <4>1, <4>2
    <3>2. CASE t = tr /\ ~skipped
      <4>1. t \in ended' <=> t \in ended \/ (AfterRange(fr) /\ IsVideo(t))
        BY <1>1, <3>2
      <4>2. AfterRange(fr) /\ IsVideo(t) <=> IsVideo(t) /\ range.to > 0 /\ Ends(t, it)
        BY <1>5, <3>2 DEF Behind
      <4> HIDE DEF fr
      <4> QED BY <1>3, <1>4, <4>1, <4>2
    <3> QED BY <3>1, <3>2
  <2>2. ended' \subseteq maps
    BY <1>1, <1>3
  <2> QED BY <2>1, <2>2
<1>8. Converted(it) = Converted(it - 1) \cup (IF Converting(it) THEN {it} ELSE {})
  BY <1>2, <1>3, ConvertedNext
<1>9. Got' = Converted(it)
  <2>1. Accepted' = Accepted
    BY <1>1 DEF Accepted
  <2>2. Writing' <=> Converting(it)
    BY <1>1, <1>6 DEF Writing
  <2>3. Got' = Accepted' \cup (IF Writing' THEN {it' - 1} ELSE {})
    BY DEF Got
  <2> QED BY <1>2, <1>3, <1>8, <2>1, <2>2, <2>3
<1>10. /\ FirstRead' = FirstRead /\ maps' = maps /\ range' = range
       /\ Converted(it - 1)' = Converted(it)
       /\ \A t : Ends(t, it - 1)' = Ends(t, it)
  BY <1>1, <1>2, SameSource
<1>11. FirstRead' <= it'
  BY <1>1, <1>2, <1>3, <1>10
<1>12. (~Writing /\ pc # "next")' => FALSE
  BY <1>1 DEF Writing
<1>13. (ended = {t \in maps : IsVideo(t) /\ range.to > 0 /\ Ends(t, it - 1)})'
  BY <1>7, <1>10 DEF IsVideo
<1> QED BY <1>1, <1>9, <1>10, <1>11, <1>12, <1>13 DEF CutInv

\* with the end of the stream,
LEMMA CutLastFrame == ASSUME LoopInv, CutInv, LastFrame PROVE CutInv'
<1>1. /\ pc = "next" /\ pc' = "finalize" /\ it > Len(src) /\ UNCHANGED <<src, opts, it, ended, written>>
  BY DEF LastFrame
<1>2. it = Len(src) + 1
  BY <1>1, SourceType DEF LoopInv, TypeOK
<1>3. Got' = Got
  BY <1>1 DEF Got, Accepted, Writing
<1> QED BY <1>1, <1>2, <1>3, SameSource DEF CutInv, Begun, IsVideo

\* WriteBlock accepts the packet of the last frame read.
LEMMA CutBlock == ASSUME LoopInv, CutInv, WriteBlock PROVE CutInv'
<1>1. /\ pc = "block" /\ pc' = "next" /\ UNCHANGED <<src, opts, it, ended, pkt>>
      /\ written' = Append(written, pkt)
  BY DEF WriteBlock, reading
<1>2. pkt \in PacketSet /\ pkt.data[1] = it - 1 /\ written \in Seq(PacketSet)
  BY <1>1 DEF LoopInv, PacketInv
<1>3. /\ DOMAIN written' = DOMAIN written \cup {Len(written) + 1}
      /\ written'[Len(written) + 1] = pkt /\ \A k \in DOMAIN written : written'[k] = written[k]
  <2>1. /\ DOMAIN written = 1 .. Len(written) /\ Len(written) \in Nat
        /\ DOMAIN written' = 1 .. Len(written) + 1
        /\ written'[Len(written) + 1] = pkt /\ \A k \in 1 .. Len(written) : written'[k] = written[k]
    BY <1>1, <1>2, AppendProperties, LenProperties
  <2> QED BY <2>1
<1>4. Accepted' = Accepted \cup {it - 1}
  BY <1>2, <1>3 DEF Accepted
<1>5. Got' = Got
  BY <1>1, <1>4 DEF Got, Writing
<1>6. ~(~Writing /\ pc # "next")'
  BY <1>1
<1> QED BY <1>1, <1>5, <1>6, SameSource DEF CutInv, Begun, IsVideo

\* The other steps of the muxer leave all of this alone.
LEMMA CutUntouched ==
    ASSUME LoopInv, CutInv, UNCHANGED <<src, opts, it, ended, written>>, Begun, Begun',
           Writing' = Writing, pc # "next"
    PROVE  CutInv'
<1>1. Got' = Got
  BY DEF Got, Accepted
<1> QED BY <1>1, SameSource DEF CutInv, Begun, IsVideo

\* so that every step keeps it.
LEMMA CutNext == LoopInv /\ CutInv /\ [Next]_vars => CutInv'
<1> SUFFICES ASSUME LoopInv, CutInv, [Next]_vars PROVE CutInv'
  OBVIOUS
<1>1. CASE \/ CloseCluster \/ OpenCluster \/ StampCluster \/ WriteCues
           \/ PatchSegment \/ PatchDuration \/ PatchSeekHead
  <2>1. UNCHANGED <<src, opts, it, ended, written>> /\ Begun /\ Begun' /\ pc # "next" /\ Writing' = Writing
    BY <1>1 DEF CloseCluster, OpenCluster, StampCluster, WriteCues, PatchSegment, PatchDuration,
                PatchSeekHead, reading, Begun, Writing
  <2> QED BY <2>1, CutUntouched
<1>2. CASE Stop
  BY <1>2 DEF Stop, CutInv, Begun
<1>3. CASE UNCHANGED vars
  <2>1. Got' = Got
    BY <1>3 DEF vars, Got, Accepted, Writing
  <2> QED BY <1>3, <2>1, SameSource DEF vars, CutInv, Begun, Writing, IsVideo
<1> QED BY <1>1, <1>2, <1>3, CutHeader, CutNextFrame, CutLastFrame, CutBlock DEF Next

\* A finished export has taken every frame of the range.
LEMMA FinishedCut == ASSUME LoopInv, CutInv PROVE ExportCut
<1> SUFFICES ASSUME pc = "done",
                    \A j, k \in DOMAIN src :
                       (src[j].track = src[k].track /\ src[j].pts = 0 /\ src[k].pts = 0) => j = k
             PROVE  Accepted = {k \in UNION {Wanted(tr) : tr \in maps} : src[k].decodes}
  BY DEF ExportCut, Accepted
<1>1. Len(src) \in Nat /\ DOMAIN src = 1 .. Len(src) /\ FirstRead \in Int
  BY SourceType, FirstReadType DEF LoopInv
<1>2. Accepted = Converted(it - 1) /\ it = Len(src) + 1
  BY DEF CutInv, Begun, Got, Writing
<1>3. it - 1 = Len(src)
  BY <1>1, <1>2
<1>4. \A tr \in maps : \A k \in Own(tr) : FirstRead <= k
  BY NothingMissed
<1>5. \A tr \in maps : \A k \in Own(tr) : Taking(k) <=> k \in Wanted(tr)
  BY <1>1, <1>4, TakenIsWanted
<1>6. \A tr : Wanted(tr) \subseteq Own(tr)
  BY DEF Wanted, Own
<1>7. 1 <= FirstRead
  BY <1>1, IteratorInRange DEF FirstRead, LoopInv
<1>8. ASSUME NEW k \in Accepted PROVE src[k].decodes /\ \E tr \in maps : k \in Wanted(tr)
  <2>1. k \in FirstRead .. Len(src) /\ Taking(k) /\ src[k].decodes
    BY <1>2, <1>3, <1>8 DEF Converted, Converting
  <2>2. k \in DOMAIN src
    BY <1>1, <1>7, <2>1
  <2>3. src[k].track \in maps /\ k \in Own(src[k].track)
    BY <2>1, <2>2 DEF Taking, Own
  <2> QED BY <1>5, <2>1, <2>3
<1>9. ASSUME NEW tr \in maps, NEW k \in Wanted(tr), src[k].decodes PROVE k \in Accepted
  <2>1. k \in Own(tr) /\ FirstRead <= k /\ Taking(k)
    BY <1>4, <1>5, <1>6
  <2>2. k \in FirstRead .. Len(src)
    BY <1>1, <2>1 DEF Own
  <2> QED BY <1>2, <1>3, <1>9, <2>1, <2>2 DEF Converted, Converting
<1> QED BY <1>8, <1>9

\* The frame loop of Export, reading from the interleaved iterator, converts
\* exactly the frames that the range asks for and that decode.
THEOREM ExportCuts == Spec => []ExportCut
<1>1. Init => LoopInv /\ CutInv
  BY LoopInit, CutInit
<1>2. LoopInv /\ CutInv /\ [Next]_vars => LoopInv' /\ CutInv'
  BY LoopNext, CutNext
<1>3. LoopInv /\ CutInv => ExportCut
  BY FinishedCut
<1> QED BY <1>1, <1>2, <1>3, PTL DEF Spec
=============================================================================
