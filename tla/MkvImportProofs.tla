-------------------------- MODULE MkvImportProofs ---------------------------
(***************************************************************************)
(* Proofs about MkvImport: the types of what a demuxer reads and of what   *)
(* Import writes, that a finished output is never touched again, that what *)
(* Import writes is the cut that its options ask for, that a demuxer reads *)
(* what the other muxer wrote up to the first broken cell, that a finished *)
(* import is complete, and for which reasons an import fails.              *)
(***************************************************************************)
EXTENDS MkvImport, MkvFormatProofs, FiniteSetTheorems

-----------------------------------------------------------------------------
(* What a demuxer makes of typed cells.                                    *)

\* A cell whose fields have their types.
CellOK(c) ==
    /\ c.el = "info" => c.scale \in Nat
    /\ c.el = "tracks" => /\ IsSeq(c.entries)
                          /\ \A i \in 1 .. Len(c.entries) :
                                ParseTrackEntry(c.entries[i]).defaultDuration \in Nat
    /\ c.el = "tags" => IsFiniteSet(DOMAIN c.tags)
    /\ c.el = "timestamp" => c.ts \in Int
    /\ c.el = "simple" => c.key \in BOOLEAN
    /\ c.el = "group" => c.ref \in BOOLEAN
    /\ IsBlock(c) => c.block.rel \in Int /\ c.block.count \in Nat

\* The packets and the entries a demuxer has collected.
PacketsOK(ps) ==
    /\ IsSeq(ps)
    /\ \A k \in 1 .. Len(ps) : ps[k].ts \in Int /\ ps[k].key \in BOOLEAN
EntriesOK(es) ==
    /\ IsSeq(es)
    /\ \A k \in 1 .. Len(es) : es[k].defaultDuration \in Nat

DemuxOK(d) ==
    /\ Shape(d) /\ d.ts \in Int /\ d.scale \in Nat /\ d.scale > 0
    /\ PacketsOK(d.packets) /\ EntriesOK(d.entries) /\ IsFiniteSet(DOMAIN d.tags)

\* A sequence of anything: a function on 1 .. n.
LEMMA IsSeqFunction ==
    ASSUME NEW n \in Nat, NEW F, F = [i \in 1 .. n |-> F[i]]
    PROVE  IsSeq(F) /\ Len(F) = n
<1> DEFINE S == {F[i] : i \in 1 .. n}
<1>1. F \in [1 .. n -> S]
  OBVIOUS
<1>2. F \in Seq(S) /\ Len(F) = n
  BY <1>1
<1> QED BY <1>2 DEF IsSeq

\* Its length and domain.
LEMMA IsSeqType ==
    ASSUME NEW F, IsSeq(F)
    PROVE  Len(F) \in Nat /\ DOMAIN F = 1 .. Len(F) /\ F = [i \in 1 .. Len(F) |-> F[i]]
<1>1. PICK S : F \in Seq(S)
  BY DEF IsSeq
<1> QED BY <1>1, LenProperties

\* One sequence of anything behind another.
Joined(F, G) == F \o G

Follows(H, F, G) ==
    /\ IsSeq(H) /\ Len(F) \in Nat /\ Len(G) \in Nat /\ Len(H) = Len(F) + Len(G)
    /\ \A i \in 1 .. Len(F) : H[i] = F[i]
    /\ \A i \in 1 .. Len(G) : H[Len(F) + i] = G[i]

LEMMA IsSeqConcat ==
    ASSUME NEW F, IsSeq(F), NEW G, IsSeq(G)
    PROVE  Follows(Joined(F, G), F, G)
<1> DEFINE H == Joined(F, G)
<1>1. PICK S : F \in Seq(S)
  BY DEF IsSeq
<1>2. PICK T : G \in Seq(T)
  BY DEF IsSeq
<1>3. Len(F) \in Nat /\ Len(G) \in Nat /\ F \in [1 .. Len(F) -> S] /\ G \in [1 .. Len(G) -> T]
  BY <1>1, <1>2, LenProperties
<1> DEFINE U == S \cup T
<1>4. F \in Seq(U)
  <2>1. F \in [1 .. Len(F) -> U]
    BY <1>3
  <2> QED BY <1>3, <2>1
<1>5. G \in Seq(U)
  <2>1. G \in [1 .. Len(G) -> U]
    BY <1>3
  <2> QED BY <1>3, <2>1
<1> HIDE DEF U
<1>6. /\ H \in Seq(U) /\ Len(H) = Len(F) + Len(G)
      /\ \A i \in 1 .. Len(F) + Len(G) : H[i] = IF i <= Len(F) THEN F[i] ELSE G[i - Len(F)]
  BY <1>4, <1>5, ConcatProperties DEF Joined
<1> HIDE DEF H
<1>7. \A i \in 1 .. Len(F) : H[i] = F[i]
  BY <1>3, <1>6
<1>8. ASSUME NEW i \in 1 .. Len(G) PROVE H[Len(F) + i] = G[i]
  <2>1. Len(F) + i \in 1 .. Len(F) + Len(G) /\ ~(Len(F) + i <= Len(F)) /\ (Len(F) + i) - Len(F) = i
    BY <1>3
  <2> QED BY <1>6, <2>1
<1>9. Follows(H, F, G)
  BY <1>3, <1>6, <1>7, <1>8 DEF IsSeq, Follows
<1> QED BY <1>9 DEF H

\* r holds what d does, wherever it stands.
SameContent(r, d) ==
    /\ Shape(r) /\ r.ts = d.ts /\ r.scale = d.scale /\ r.packets = d.packets
    /\ r.entries = d.entries /\ r.tags = d.tags

\* What one cell does to the content.
LEMMA ReadCellCases ==
    ASSUME NEW d, Shape(d), NEW c, NEW N
    PROVE  LET r == ReadCell(d, c, N)
               m == Moved(d)
           IN  \/ SameContent(r, d)
               \/ SameContent([r EXCEPT !.ts = d.ts], d) /\ Shape(r) /\ r.ts = 0
               \/ r \in {HeaderElement(m, c), TopElement(m, c), ClusterElement(m, c)}
<1> DEFINE r == ReadCell(d, c, N)
           m == Moved(d)
           fail == [d EXCEPT !.phase = "error"]
           fits == c.size = Unknown \/ m.pos + c.size <= N
           top  == d.phase = "top" \/ (d.phase = "in" /\ d.pos >= d.end)
<1>1. SameContent(d, d) /\ SameContent(m, d) /\ SameContent(fail, d)
  BY DEF SameContent, Shape, Demuxer0, Moved
<1>2. CASE d.phase \in {"eof", "error"}
  <2>1. r = d
    BY <1>2 DEF ReadCell
  <2> QED BY <1>1, <2>1
<1>3. CASE d.phase = "ebml"
  <2>1. r = IF c.el = "ebml" /\ c.matroska THEN [m EXCEPT !.phase = "segment"] ELSE fail
    BY <1>3 DEF ReadCell, Moved
  <2>2. SameContent([m EXCEPT !.phase = "segment"], d)
    BY <1>1 DEF SameContent, Shape, Demuxer0
  <2> QED BY <1>1, <2>1, <2>2
<1>4. CASE d.phase = "segment"
  <2> DEFINE end == IF c.size = Unknown THEN N ELSE m.pos + c.size
  <2>1. r = IF c.el = "segment" /\ fits
            THEN [m EXCEPT !.phase = "header", !.segEnd = end] ELSE fail
    BY <1>4 DEF ReadCell, Moved
  <2>2. SameContent([m EXCEPT !.phase = "header", !.segEnd = end], d)
    BY <1>1 DEF SameContent, Shape, Demuxer0
  <2> QED BY <1>1, <2>1, <2>2
<1>5. CASE d.phase \notin {"eof", "error", "ebml", "segment"} /\ (d.phase = "header" \/ top) /\ d.pos >= d.segEnd
  <2>1. r = [d EXCEPT !.phase = "eof", !.opened = TRUE]
    BY <1>5 DEF ReadCell
  <2>2. SameContent([d EXCEPT !.phase = "eof", !.opened = TRUE], d)
    BY <1>1 DEF SameContent, Shape, Demuxer0
  <2> QED BY <2>1, <2>2
<1>6. CASE d.phase \notin {"eof", "error", "ebml", "segment"} /\ ~((d.phase = "header" \/ top) /\ d.pos >= d.segEnd)
  <2>1. r = CASE c.el \in {"torn", "master"} -> fail
              [] c.el = "cluster" -> IF fits THEN EnterCluster(m, c, N) ELSE fail
              [] OTHER -> IF d.phase = "header" THEN HeaderElement(m, c)
                          ELSE IF top THEN TopElement(m, c) ELSE ClusterElement(m, c)
    BY <1>6 DEF ReadCell, Moved
  <2>2. LET e == EnterCluster(m, c, N)
        IN  SameContent([e EXCEPT !.ts = d.ts], d) /\ Shape(e) /\ e.ts = 0
    BY <1>1 DEF SameContent, Shape, Demuxer0, EnterCluster
  <2>3. c.el \in {"torn", "master"} \/ c.el = "cluster" \/ c.el \notin {"torn", "master", "cluster"}
    OBVIOUS
  <2> HIDE DEF r, m, fail, fits, top
  <2>4. \/ r = fail \/ r = EnterCluster(m, c, N)
        \/ r \in {HeaderElement(m, c), TopElement(m, c), ClusterElement(m, c)}
    BY <2>1, <2>3
  <2>5. r = EnterCluster(m, c, N) => SameContent([r EXCEPT !.ts = d.ts], d) /\ Shape(r) /\ r.ts = 0
    BY <2>2
  <2>6. r = fail => SameContent(r, d)
    BY <1>1
  <2> QED BY <2>4, <2>5, <2>6 DEF r, m
<1> QED BY <1>2, <1>3, <1>4, <1>5, <1>6

\* Content with its types has them wherever the demuxer stands.
LEMMA SameContentOK ==
    ASSUME NEW d, DemuxOK(d), NEW r
    PROVE  /\ SameContent(r, d) => DemuxOK(r)
           /\ (SameContent([r EXCEPT !.ts = d.ts], d) /\ Shape(r) /\ r.ts = 0) => DemuxOK(r)
<1>1. SameContent(r, d) => DemuxOK(r)
  BY DEF SameContent, DemuxOK
<1>2. ASSUME SameContent([r EXCEPT !.ts = d.ts], d), Shape(r), r.ts = 0 PROVE DemuxOK(r)
  <2>1. r.scale = d.scale /\ r.packets = d.packets /\ r.entries = d.entries /\ r.tags = d.tags
    BY <1>2 DEF SameContent, Shape, Demuxer0
  <2> QED BY <1>2, <2>1 DEF DemuxOK
<1> QED BY <1>1, <1>2

\* DefaultDuration in units is a natural number.
LEMMA DefaultDurType ==
    ASSUME NEW d, DemuxOK(d), NEW tr
    PROVE  DefaultDurTS(d, tr) \in Nat
<1> DEFINE I == {i \in 1 .. Len(d.entries) :
                    d.entries[i].number = tr /\ d.entries[i].defaultDuration > 0}
           k == SelectInSeq(d.entries, LAMBDA te : te.number = tr /\ te.defaultDuration > 0)
<1>1. Len(d.entries) \in Nat /\ \A i \in 1 .. Len(d.entries) : d.entries[i].defaultDuration \in Nat
  BY IsSeqType DEF DemuxOK, EntriesOK
<1>2. k = 0 \/ k \in 1 .. Len(d.entries)
  <2>1. k = IF I = {} THEN 0 ELSE Min(I)
    BY DEF SelectInSeq
  <2>2. I # {} => Min(I) \in I
    BY <1>1, LeastInRange
  <2> HIDE DEF k
  <2> QED BY <2>1, <2>2
<1>3. d.scale \in Nat /\ d.scale > 0
  BY DEF DemuxOK
<1>4. \A x \in Nat : x \div d.scale \in Nat
  BY <1>3
<1>5. DefaultDurTS(d, tr) = IF k = 0 THEN 0 ELSE d.entries[k].defaultDuration \div d.scale
  BY DEF DefaultDurTS
<1> HIDE DEF k
<1>6. CASE k = 0
  BY <1>5, <1>6
<1>7. CASE k \in 1 .. Len(d.entries)
  <2>1. k # 0 /\ d.entries[k].defaultDuration \in Nat
    BY <1>1, <1>7
  <2>2. DefaultDurTS(d, tr) = d.entries[k].defaultDuration \div d.scale
    BY <1>5, <2>1
  <2> QED BY <1>4, <2>1, <2>2
<1> QED BY <1>2, <1>6, <1>7

\* A later block adds typed packets,
LEMMA UnlaceOK ==
    ASSUME NEW b, b.rel \in Int, b.count \in Nat, NEW ts \in Int, NEW step \in Int,
           NEW key \in BOOLEAN, NEW dur
    PROVE  PacketsOK(Unlace(b, ts, step, key, dur)) /\ Len(Unlace(b, ts, step, key, dur)) = b.count
<1> DEFINE ps == Unlace(b, ts, step, key, dur)
<1>1. /\ ps = [i \in 1 .. b.count |-> ps[i]]
      /\ \A i \in 1 .. b.count : ps[i].ts = ts + b.rel + (i - 1) * step /\ ps[i].key = key
  BY DEF Unlace, Packet
<1>2. \A i \in 1 .. b.count : (i - 1) * step \in Int
  BY SMT
<1> HIDE DEF ps
<1>3. ASSUME NEW i \in 1 .. b.count PROVE ps[i].ts \in Int
  <2>1. PICK w \in Int : w = (i - 1) * step
    BY <1>2
  <2>2. ps[i].ts = ts + b.rel + w
    BY <1>1, <2>1
  <2> QED BY <2>2
<1>4. IsSeq(ps) /\ Len(ps) = b.count
  BY <1>1, IsSeqFunction
<1> QED BY <1>1, <1>3, <1>4 DEF PacketsOK, ps

\* to what there is.
LEMMA PacketsConcat ==
    ASSUME NEW ps, PacketsOK(ps), NEW qs, PacketsOK(qs), NEW rs, rs = ps \o qs
    PROVE  PacketsOK(rs)
<1>0. IsSeq(ps) /\ IsSeq(qs) /\ Len(ps) \in Nat /\ Len(qs) \in Nat
  BY IsSeqType DEF PacketsOK
<1>1. /\ IsSeq(rs) /\ Len(rs) = Len(ps) + Len(qs) /\ Len(ps) \in Nat /\ Len(qs) \in Nat
      /\ \A i \in 1 .. Len(ps) : rs[i] = ps[i]
      /\ \A i \in 1 .. Len(qs) : rs[Len(ps) + i] = qs[i]
  <2>1. rs = Joined(ps, qs)
    BY DEF Joined
  <2>2. Follows(rs, ps, qs)
    BY <1>0, <2>1, IsSeqConcat
  <2> QED BY <2>2 DEF Follows
<1>2. ASSUME NEW k \in 1 .. Len(rs) PROVE rs[k].ts \in Int /\ rs[k].key \in BOOLEAN
  <2>1. CASE k <= Len(ps)
    <3>1. k \in 1 .. Len(ps)
      BY <1>1, <2>1
    <3> QED BY <1>1, <3>1 DEF PacketsOK
  <2>2. CASE ~(k <= Len(ps))
    <3>1. k - Len(ps) \in 1 .. Len(qs) /\ Len(ps) + (k - Len(ps)) = k
      BY <1>1, <2>2
    <3>2. rs[k] = qs[k - Len(ps)]
      BY <1>1, <3>1
    <3> QED BY <3>1, <3>2 DEF PacketsOK
  <2> QED BY <2>1, <2>2
<1> QED BY <1>1, <1>2 DEF PacketsOK

\* A track list adds typed entries.
LEMMA EntriesConcat ==
    ASSUME NEW es, EntriesOK(es), NEW c, CellOK(c), c.el = "tracks", NEW fs,
           fs = es \o [k \in DOMAIN c.entries |-> ParseTrackEntry(c.entries[k])]
    PROVE  EntriesOK(fs)
<1> DEFINE n  == Len(c.entries)
           gs == [k \in DOMAIN c.entries |-> ParseTrackEntry(c.entries[k])]
<1>1. n \in Nat /\ DOMAIN c.entries = 1 .. n /\ \A k \in 1 .. n : ParseTrackEntry(c.entries[k]).defaultDuration \in Nat
  BY IsSeqType DEF CellOK
<1>2. gs = [k \in 1 .. n |-> gs[k]] /\ \A k \in 1 .. n : gs[k].defaultDuration \in Nat
  BY <1>1
<1> HIDE DEF gs
<1>3. IsSeq(gs) /\ Len(gs) = n
  BY <1>1, <1>2, IsSeqFunction
<1>4. fs = es \o gs
  BY DEF gs
<1> HIDE DEF n
<1>0. IsSeq(es) /\ Len(es) \in Nat
  BY IsSeqType DEF EntriesOK
<1>5. /\ IsSeq(fs) /\ Len(fs) = Len(es) + n /\ Len(es) \in Nat
      /\ \A i \in 1 .. Len(es) : fs[i] = es[i]
      /\ \A i \in 1 .. n : fs[Len(es) + i] = gs[i]
  <2>1. IsSeq(es) /\ IsSeq(gs) /\ fs = Joined(es, gs)
    BY <1>0, <1>3, <1>4 DEF Joined
  <2>2. Follows(fs, es, gs)
    BY <2>1, IsSeqConcat
  <2> QED BY <1>3, <2>2 DEF Follows
<1>6. ASSUME NEW k \in 1 .. Len(fs) PROVE fs[k].defaultDuration \in Nat
  <2>1. CASE k <= Len(es)
    <3>1. k \in 1 .. Len(es)
      BY <1>5, <2>1
    <3> QED BY <1>5, <3>1 DEF EntriesOK
  <2>2. CASE ~(k <= Len(es))
    <3>1. k - Len(es) \in 1 .. n /\ Len(es) + (k - Len(es)) = k
      BY <1>1, <1>5, <2>2
    <3>2. fs[k] = gs[k - Len(es)]
      BY <1>5, <3>1
    <3> QED BY <1>2, <3>1, <3>2
  <2> QED BY <2>1, <2>2
<1> QED BY <1>5, <1>6 DEF EntriesOK

\* Tags stay finitely many.
LEMMA TagsFinite ==
    ASSUME NEW d, DemuxOK(d), NEW c, IsFiniteSet(DOMAIN c.tags)
    PROVE  DemuxOK(WithTags(d, c))
<1> DEFINE all == DOMAIN c.tags \cup DOMAIN d.tags
<1>1. IsFiniteSet(all)
  BY FS_Union DEF DemuxOK
<1>2. /\ Shape(WithTags(d, c)) /\ DOMAIN WithTags(d, c).tags = all
      /\ WithTags(d, c).ts = d.ts /\ WithTags(d, c).scale = d.scale
      /\ WithTags(d, c).packets = d.packets /\ WithTags(d, c).entries = d.entries
  BY DEF WithTags, DemuxOK, Shape, Demuxer0
<1> QED BY <1>1, <1>2 DEF DemuxOK

\* Each cell keeps the types.
LEMMA ReadCellOK ==
    ASSUME NEW d, DemuxOK(d), NEW c, CellOK(c), NEW N
    PROVE  DemuxOK(ReadCell(d, c, N))
<1> DEFINE m == Moved(d)
<1>1. Shape(d) /\ DemuxOK(m)
  <2>1. Shape(d) /\ SameContent(m, d)
    BY DEF SameContent, Shape, Demuxer0, Moved, DemuxOK
  <2> QED BY <2>1, SameContentOK
<1> HIDE DEF m
<1>2. DemuxOK(HeaderElement(m, c))
  <2>1. CASE c.el = "info"
    <3> DEFINE r == [m EXCEPT !.scale = IF c.scale > 0 THEN c.scale ELSE @, !.date = c.date]
    <3>1. HeaderElement(m, c) = r
      BY <2>1 DEF HeaderElement
    <3>2. r.scale \in Nat /\ r.scale > 0
      BY <1>1, <2>1 DEF CellOK, DemuxOK, Shape, Demuxer0
    <3>3. /\ Shape(r) /\ r.ts = m.ts /\ r.packets = m.packets /\ r.entries = m.entries
          /\ r.tags = m.tags
      BY <1>1 DEF DemuxOK, Shape, Demuxer0
    <3> HIDE DEF r
    <3> QED BY <1>1, <3>1, <3>2, <3>3 DEF DemuxOK
  <2>2. CASE c.el = "tracks"
    <3> DEFINE fs == m.entries \o [k \in DOMAIN c.entries |-> ParseTrackEntry(c.entries[k])]
               r  == [m EXCEPT !.entries = fs]
    <3>1. HeaderElement(m, c) = r
      BY <2>2 DEF HeaderElement
    <3>2. EntriesOK(fs)
      BY <1>1, <2>2, EntriesConcat DEF DemuxOK
    <3> HIDE DEF fs
    <3>3. /\ Shape(r) /\ r.ts = m.ts /\ r.packets = m.packets /\ r.entries = fs
          /\ r.tags = m.tags /\ r.scale = m.scale
      BY <1>1 DEF DemuxOK, Shape, Demuxer0
    <3> HIDE DEF r
    <3> QED BY <1>1, <3>1, <3>2, <3>3 DEF DemuxOK
  <2>3. CASE c.el = "tags"
    <3>1. HeaderElement(m, c) = WithTags(m, c) /\ IsFiniteSet(DOMAIN c.tags)
      BY <2>3 DEF HeaderElement, CellOK
    <3> QED BY <1>1, <3>1, TagsFinite
  <2>4. CASE c.el \notin {"info", "tracks", "tags"}
    <3>1. HeaderElement(m, c) = m
      BY <2>4 DEF HeaderElement
    <3> QED BY <1>1, <3>1
  <2> QED BY <2>1, <2>2, <2>3, <2>4
<1>3. DemuxOK(TopElement(m, c))
  <2> DEFINE t == [m EXCEPT !.phase = "top"]
  <2>1. SameContent(t, m)
    BY <1>1 DEF SameContent, Shape, Demuxer0, DemuxOK
  <2>2. TopElement(m, c) = IF c.el = "tags" THEN WithTags(t, c) ELSE t
    BY DEF TopElement
  <2> HIDE DEF t
  <2>3. DemuxOK(t)
    BY <1>1, <2>1, SameContentOK
  <2> QED BY <2>2, <2>3, TagsFinite DEF CellOK
<1>4. DemuxOK(ClusterElement(m, c))
  <2> DEFINE fail == [m EXCEPT !.phase = "error"]
             step == IF c.block.lacing = "none" THEN 0 ELSE DefaultDurTS(m, c.block.track)
  <2>1. SameContent(fail, m)
    BY <1>1 DEF SameContent, Shape, Demuxer0, DemuxOK
  <2>2. DemuxOK(fail)
    BY <1>1, <2>1, SameContentOK
  <2>3. step \in Int
    BY <1>1, DefaultDurType
  <2> HIDE DEF step
  <2>4. ASSUME IsBlock(c), NEW key \in BOOLEAN, NEW dur
        PROVE  DemuxOK([m EXCEPT !.packets = @ \o Unlace(c.block, m.ts, step, key, dur)])
    <3> DEFINE qs == Unlace(c.block, m.ts, step, key, dur)
               rs == m.packets \o qs
               r  == [m EXCEPT !.packets = rs]
    <3>1. c.block.rel \in Int /\ c.block.count \in Nat
      BY <2>4 DEF CellOK
    <3>2. m.ts \in Int /\ PacketsOK(m.packets)
      BY <1>1 DEF DemuxOK
    <3>3. PacketsOK(qs)
      BY <2>3, <3>1, <3>2, UnlaceOK
    <3> HIDE DEF qs
    <3>4. PacketsOK(rs)
      BY <3>2, <3>3, PacketsConcat
    <3> HIDE DEF rs
    <3>5. /\ Shape(r) /\ r.ts = m.ts /\ r.packets = rs /\ r.entries = m.entries
          /\ r.tags = m.tags /\ r.scale = m.scale
      BY <1>1 DEF DemuxOK, Shape, Demuxer0
    <3>6. DemuxOK(r)
      <4> HIDE DEF r
      <4> QED BY <1>1, <3>4, <3>5 DEF DemuxOK
    <3> QED BY <3>6 DEF r, rs, qs
  <2>5. CASE c.el = "timestamp"
    <3> DEFINE r == [m EXCEPT !.ts = c.ts]
    <3>1. ClusterElement(m, c) = r
      BY <2>5 DEF ClusterElement
    <3>2. /\ Shape(r) /\ r.ts = c.ts /\ r.packets = m.packets /\ r.entries = m.entries
          /\ r.tags = m.tags /\ r.scale = m.scale
      BY <1>1 DEF DemuxOK, Shape, Demuxer0
    <3>3. c.ts \in Int
      BY <2>5 DEF CellOK
    <3> HIDE DEF r
    <3> QED BY <1>1, <3>1, <3>2, <3>3 DEF DemuxOK
  <2>6. CASE c.el = "simple"
    <3>1. ClusterElement(m, c) = IF BadLacing(c.block) THEN fail
              ELSE [m EXCEPT !.packets = @ \o Unlace(c.block, m.ts, step, c.key, 0)]
      BY <2>6 DEF ClusterElement, step
    <3>2. IsBlock(c) /\ c.key \in BOOLEAN
      BY <2>6 DEF CellOK, IsBlock
    <3> HIDE DEF fail
    <3> QED BY <2>2, <2>4, <3>1, <3>2
  <2>7. CASE c.el = "group"
    <3>1. ClusterElement(m, c) = IF ~c.hasBlock \/ BadLacing(c.block) THEN fail
              ELSE [m EXCEPT !.packets = @ \o Unlace(c.block, m.ts, step, ~c.ref, c.dur)]
      BY <2>7 DEF ClusterElement, step
    <3>2. IsBlock(c) /\ (~c.ref) \in BOOLEAN
      BY <2>7 DEF CellOK, IsBlock
    <3> HIDE DEF fail
    <3> QED BY <2>2, <2>4, <3>1, <3>2
  <2>8. CASE c.el \notin {"timestamp", "simple", "group"}
    <3>1. ClusterElement(m, c) = m
      BY <2>8 DEF ClusterElement
    <3> QED BY <1>1, <3>1
  <2> QED BY <2>5, <2>6, <2>7, <2>8
<1> DEFINE r == ReadCell(d, c, N)
<1>6. \/ SameContent(r, d)
      \/ SameContent([r EXCEPT !.ts = d.ts], d) /\ Shape(r) /\ r.ts = 0
      \/ r \in {HeaderElement(m, c), TopElement(m, c), ClusterElement(m, c)}
  BY <1>1, ReadCellCases DEF m
<1> HIDE DEF r
<1>7. DemuxOK(r)
  BY <1>2, <1>3, <1>4, <1>6, SameContentOK
<1> QED BY <1>7 DEF r

\* So the walk over typed cells is typed.
LEMMA WalkOK ==
    ASSUME NEW F, NEW n \in Nat, \A k \in 1 .. n : CellOK(F[k])
    PROVE  DemuxOK(Walk(F, n))
<1>1. PICK f : Walks(f, F, n) /\ Walk(F, n) = f[n]
  BY WalkRecursion
<1> DEFINE Typed == {k \in Nat : k <= n => DemuxOK(f[k])}
<1>2. 0 \in Typed
  <2>1. f[0] = Demuxer0
    BY <1>1 DEF Walks
  <2>2. PacketsOK(<<>>) /\ EntriesOK(<<>>)
    <3>1. IsSeq(<<>>) /\ Len(<<>>) = 0
      BY DEF IsSeq
    <3> QED BY <3>1 DEF PacketsOK, EntriesOK
  <2>3. DOMAIN NoTags = {} /\ IsFiniteSet({})
    BY FS_EmptySet DEF NoTags
  <2> QED BY <2>1, <2>2, <2>3 DEF DemuxOK, Shape, Demuxer0
<1>3. ASSUME NEW k \in Nat, k \in Typed PROVE k + 1 \in Typed
  <2> SUFFICES ASSUME k + 1 <= n PROVE DemuxOK(f[k + 1])
    OBVIOUS
  <2>1. k <= n /\ k + 1 \in 1 .. n /\ (k + 1) - 1 = k
    OBVIOUS
  <2>2. f[k + 1] = ReadCell(f[k], F[k + 1], Len(F))
    BY <1>1, <2>1 DEF Walks
  <2> QED BY <1>3, <2>1, <2>2, ReadCellOK
<1>4. n \in Typed
  <2> HIDE DEF Typed
  <2> QED BY <1>2, <1>3, NatSetInduction
<1> QED BY <1>1, <1>4

-----------------------------------------------------------------------------
(* The file and the output.                                                *)

CellsOK(F) == IsSeq(F) /\ \A k \in 1 .. Len(F) : CellOK(F[k])

Writing == {"tracks", "tags", "frames", "late", "finalize"}

FramesOK(fs) ==
    /\ IsSeq(fs)
    /\ \A k \in 1 .. Len(fs) : HasID(fs[k].track) /\ fs[k].pts \in Nat

\* The file consists of typed cells, and what the demuxers read is that of the file.
FileInv ==
    /\ CellsOK(file)
    /\ pc # "mux" => demuxed = <<NewDemuxer(file), Demux(file)>>

\* There is an output when the steps that write to it run.  It is not final before
\* the last of them, and final once Import has returned.
OutInv ==
    \/ out = <<>> /\ pc \notin Writing \cup {"done"}
    \/ /\ out # <<>> /\ DOMAIN out = DOMAIN EmptyOutput
       /\ out.final \in BOOLEAN /\ Fits(out.tags) /\ FramesOK(out.frames)
       /\ pc \in Writing => ~out.final
       /\ pc = "done" => out.final
       /\ runs > 0

TypeInv ==
    /\ pc \in PC /\ opts \in Options \cup {Everything} /\ runs \in 0 .. MaxRuns /\ at \in Nat
    /\ pc \in {"mux", "idle"} <=> runs = 0
    /\ FileInv /\ OutInv

\* A header is of typed cells.
LEMMA HeadersOK == \A h \in Headers : CellsOK(h)
<1> SUFFICES ASSUME NEW h \in Headers PROVE CellsOK(h)
  OBVIOUS
<1>1. h \in Seq(Range(h)) /\ h # <<>>
  BY MuxerAssumption
<1>2. IsSeq(h) /\ Len(h) \in Nat
  BY <1>1, LenProperties DEF IsSeq
<1>3. CellOK(h[1])
  <2>1. PICK m \in BOOLEAN : h[1] = EBML(m)
    BY MuxerAssumption
  <2> QED BY <2>1 DEF EBML, CellOK, IsBlock
<1>4. Len(h) > 1 => CellOK(h[2])
  BY MuxerAssumption DEF Segment, CellOK, IsBlock
<1>5. ASSUME NEW k \in 3 .. Len(h) PROVE CellOK(h[k])
  <2>1. /\ h[k].el \in {"void", "seekhead", "info", "tracks", "tags"}
        /\ h[k].el = "info" => h[k].scale \in Nat \ {0}
        /\ h[k].el = "tags" => IsFiniteSet(DOMAIN h[k].tags)
    BY MuxerAssumption
  <2>2. h[k].el = "tracks" =>
            /\ h[k].entries \in Seq(Range(h[k].entries))
            /\ \A i \in DOMAIN h[k].entries :
                  ParseTrackEntry(h[k].entries[i]).defaultDuration \in Nat
    BY MuxerAssumption
  <2>3. h[k].el = "tracks" =>
            /\ IsSeq(h[k].entries)
            /\ \A i \in 1 .. Len(h[k].entries) :
                  ParseTrackEntry(h[k].entries[i]).defaultDuration \in Nat
    BY <2>2, LenProperties DEF IsSeq
  <2> QED BY <2>1, <2>3 DEF CellOK, IsBlock
<1>6. ASSUME NEW k \in 1 .. Len(h) PROVE CellOK(h[k])
  <2>1. k = 1 \/ k = 2 \/ k \in 3 .. Len(h)
    BY <1>2
  <2> QED BY <1>2, <1>3, <1>4, <1>5, <2>1
<1> QED BY <1>2, <1>6 DEF CellsOK

\* A file stays one of typed cells when one is added,
LEMMA CellsAppend ==
    ASSUME NEW F, CellsOK(F), NEW c, CellOK(c)
    PROVE  CellsOK(Append(F, c))
<1> DEFINE H == Append(F, c)
<1>1. /\ Len(F) \in Nat /\ IsSeq(H) /\ Len(H) = Len(F) + 1 /\ H[Len(F) + 1] = c
      /\ \A i \in 1 .. Len(F) : H[i] = F[i]
  BY SeqAppend DEF CellsOK, Extended
<1> HIDE DEF H
<1>2. ASSUME NEW k \in 1 .. Len(H) PROVE CellOK(H[k])
  <2>1. k \in 1 .. Len(F) \/ k = Len(F) + 1
    BY <1>1
  <2> QED BY <1>1, <2>1 DEF CellsOK
<1>3. CellsOK(H)
  BY <1>1, <1>2 DEF CellsOK
<1> QED BY <1>3 DEF H

\* or two,
LEMMA CellsAppend2 ==
    ASSUME NEW F, CellsOK(F), NEW b, CellOK(b), NEW c, CellOK(c)
    PROVE  F \o <<b, c>> = Append(Append(F, b), c) /\ CellsOK(F \o <<b, c>>)
<1>1. PICK S : F \in Seq(S)
  BY DEF CellsOK, IsSeq
<1>2. F \in Seq(S \cup {b, c})
  <2>1. Len(F) \in Nat /\ F \in [1 .. Len(F) -> S]
    BY <1>1, LenProperties
  <2>2. F \in [1 .. Len(F) -> S \cup {b, c}]
    BY <2>1
  <2> QED BY <2>1, <2>2
<1>3. F \o <<b, c>> = Append(Append(F, b), c)
  BY <1>2
<1>4. CellsOK(Append(Append(F, b), c))
  BY CellsAppend
<1> QED BY <1>3, <1>4

\* when one is replaced, and when its end is lost.
LEMMA CellsPatch ==
    ASSUME NEW F, CellsOK(F), NEW i \in 1 .. Len(F), NEW c, CellOK(c)
    PROVE  CellsOK([F EXCEPT ![i] = c])
<1> DEFINE H == [F EXCEPT ![i] = c]
<1>1. IsSeq(H) /\ Len(H) = Len(F) /\ H[i] = c /\ \A k \in 1 .. Len(F) : k # i => H[k] = F[k]
  BY SeqPatch DEF CellsOK, Patched
<1> HIDE DEF H
<1>2. CellsOK(H)
  BY <1>1 DEF CellsOK
<1> QED BY <1>2 DEF H

LEMMA CellsCut ==
    ASSUME NEW F, CellsOK(F), NEW n \in Nat, n <= Len(F)
    PROVE  CellsOK(SubSeq(F, 1, n))
<1> DEFINE H == SubSeq(F, 1, n)
<1>1. PICK S : F \in Seq(S)
  BY DEF CellsOK, IsSeq
<1>2. H \in Seq(S) /\ Len(H) = n /\ \A i \in 1 .. n : H[i] = F[i]
  <2>1. Len(F) \in Nat /\ \A i \in 1 .. n : F[i] \in S
    BY <1>1, LenProperties, ElementOfSeq
  <2>2. H \in Seq(S) /\ Len(H) = IF 1 <= n THEN n - 1 + 1 ELSE 0 
    BY <1>1, <2>1, SubSeqProperties
  <2>3. \A i \in 1 .. n - 1 + 1 : H[i] = F[1 + i - 1]
    BY <1>1, <2>1, SubSeqProperties
  <2> QED BY <2>2, <2>3
<1> HIDE DEF H
<1>3. IsSeq(H)
  BY <1>2 DEF IsSeq
<1>4. CellsOK(H)
  <2>1. Len(F) \in Nat
    BY <1>1, LenProperties
  <2> QED BY <1>2, <1>3, <2>1 DEF CellsOK
<1> QED BY <1>4 DEF H

\* What a demuxer has at the end of the file, and after NewDemuxer, is typed.
LEMMA AtEndOK == ASSUME NEW d, DemuxOK(d) PROVE DemuxOK(AtEnd(d))
<1>1. SameContent(AtEnd(d), d)
  BY DEF SameContent, AtEnd, DemuxOK, Shape, Demuxer0
<1> QED BY <1>1, SameContentOK

LEMMA DemuxersOK ==
    ASSUME NEW F, CellsOK(F)
    PROVE  DemuxOK(NewDemuxer(F)) /\ DemuxOK(Demux(F))
<1>1. Len(F) \in Nat /\ DOMAIN F = 1 .. Len(F) /\ \A k \in 1 .. Len(F) : CellOK(F[k])
  BY IsSeqType DEF CellsOK
<1>2. DemuxOK(Walk(F, Len(F)))
  BY <1>1, WalkOK
<1>3. DemuxOK(Demux(F))
  BY <1>2, AtEndOK DEF Demux
<1> DEFINE I == {i \in 1 .. Len(F) : F[i].el = "cluster"}
           first == SelectInSeq(F, LAMBDA c : c.el = "cluster")
<1>4. first = 0 \/ first \in 1 .. Len(F)
  <2>1. first = IF I = {} THEN 0 ELSE Min(I)
    BY DEF SelectInSeq
  <2>2. I # {} => Min(I) \in I
    BY <1>1, LeastInRange
  <2> HIDE DEF first
  <2> QED BY <2>1, <2>2
<1>5. NewDemuxer(F) = IF first = 0 THEN AtEnd(Walk(F, Len(F))) ELSE Walk(F, first)
  BY DEF NewDemuxer
<1> HIDE DEF first
<1>6. CASE first = 0
  BY <1>2, <1>3, <1>5, <1>6, AtEndOK
<1>7. CASE first \in 1 .. Len(F)
  <2>1. first \in Nat /\ first # 0 /\ \A k \in 1 .. first : CellOK(F[k])
    BY <1>1, <1>7
  <2>2. DemuxOK(Walk(F, first))
    BY <2>1, WalkOK
  <2> QED BY <1>3, <1>5, <2>1, <2>2
<1> QED BY <1>3, <1>4, <1>6, <1>7

\* The mapping of the tracks depends on the file and the options only.
LEMMA MappingStays ==
    ASSUME UNCHANGED <<demuxed, opts>>
    PROVE  /\ Mapped' = Mapped /\ Read' = Read /\ Opened' = Opened
           /\ \A n : HasID(n)' <=> HasID(n)
           /\ \A n : KindIn(n)' = KindIn(n)
<1>1. demuxed' = demuxed /\ opts' = opts
  OBVIOUS
<1>2. Opened' = Opened /\ Read' = Read
  BY <1>1 DEF Opened, Read
<1>3. \A n : Chosen(n)' <=> Chosen(n)
  BY <1>1 DEF Chosen
<1>4. Mapped' = Mapped
  BY <1>2, <1>3 DEF Mapped
<1>5. ASSUME NEW n PROVE (HasID(n)' <=> HasID(n)) /\ KindIn(n)' = KindIn(n)
  BY <1>4 DEF HasID, KindIn, SelectInSeq
<1> QED BY <1>2, <1>4, <1>5

\* So frames that fit it still do.
LEMMA FramesStay ==
    ASSUME UNCHANGED <<demuxed, opts>>, NEW fs, FramesOK(fs)
    PROVE  FramesOK(fs)'
<1> QED BY MappingStays DEF FramesOK

\* The mux steps keep FileInv.
LEMMA MuxKeepsCells ==
    ASSUME FileInv, MuxCluster \/ MuxBlock \/ MuxTags \/ MuxEnds
    PROVE  FileInv'
<1>1. CellsOK(file)
  BY DEF FileInv
<1>2. CASE MuxCluster
  <2>1. PICK c \in Clusters : file' = file \o <<Cluster(c.size), Timestamp(c.ts)>>
    BY <1>2 DEF MuxCluster
  <2>2. c.ts \in Nat
    BY MuxerAssumption
  <2>3. CellOK(Cluster(c.size)) /\ CellOK(Timestamp(c.ts))
    BY <2>2 DEF CellOK, Cluster, Timestamp, IsBlock
  <2>4. CellsOK(file')
    BY <1>1, <2>1, <2>3, CellsAppend2
  <2>5. pc' = "mux"
    BY <1>2 DEF MuxCluster
  <2> QED BY <2>4, <2>5 DEF FileInv
<1>3. CASE MuxBlock
  <2>1. PICK b \in Blocks : \E rest : file' = Append(file, Encode(b, rest))
    BY <1>3 DEF MuxBlock
  <2>2. PICK rest : file' = Append(file, Encode(b, rest))
    BY <2>1
  <2>3. b.rel \in Int /\ b.key \in BOOLEAN /\ Len(b.sizes) \in Nat
    <3>1. b.rel \in Int /\ b.key \in BOOLEAN /\ b.sizes \in Seq(Nat)
      BY MuxerAssumption
    <3> QED BY <3>1, LenProperties
  <2>4. CellOK(Encode(b, rest))
    BY <2>3 DEF CellOK, Encode, BlockGroup, SimpleBlock, Payload, IsBlock
  <2>5. CellsOK(file')
    BY <1>1, <2>2, <2>4, CellsAppend
  <2>6. pc' = "mux"
    BY <1>3 DEF MuxBlock
  <2> QED BY <2>5, <2>6 DEF FileInv
<1>4. CASE MuxTags
  <2>1. PICK map \in LateTags : file' = Append(file, Tags(map))
    BY <1>4 DEF MuxTags
  <2>2. CellOK(Tags(map))
    BY MuxerAssumption DEF CellOK, Tags, IsBlock
  <2>3. CellsOK(file')
    BY <1>1, <2>1, <2>2, CellsAppend
  <2>4. pc' = "mux"
    BY <1>4 DEF MuxTags
  <2> QED BY <2>3, <2>4 DEF FileInv
<1>5. CASE MuxEnds
  <2>1. CellOK(Torn) /\ CellOK(Segment(Len(file) - 2))
    BY DEF Torn, Segment, CellOK, IsBlock
  <2> DEFINE patched == [file EXCEPT ![2] = Segment(Len(file) - 2)]
  <2>2. Len(file) \in Nat
    BY <1>1, IsSeqType DEF CellsOK
  <2>3. ASSUME file' \in {file, Append(file, Torn)} PROVE CellsOK(file')
    BY <1>1, <2>1, <2>3, CellsAppend
  <2>4. ASSUME Len(file) > 2,
               \E k \in {Len(file), Len(file) - 1} : file' = SubSeq(patched, 1, k)
        PROVE  CellsOK(file')
    <3>1. PICK k \in {Len(file), Len(file) - 1} : file' = SubSeq(patched, 1, k)
      BY <2>4
    <3>2. 2 \in 1 .. Len(file) /\ k \in Nat /\ k <= Len(file)
      BY <2>2, <2>4
    <3>3. CellsOK(patched)
      BY <1>1, <2>1, <3>2, CellsPatch
    <3>4. Len(patched) = Len(file)
      BY <1>1, <3>2, SeqPatch DEF CellsOK, Patched
    <3> HIDE DEF patched
    <3> QED BY <3>1, <3>2, <3>3, <3>4, CellsCut
  <2>5. CellsOK(file')
    BY <1>5, <2>3, <2>4 DEF MuxEnds
  <2>6. pc' = "idle" /\ demuxed' = <<NewDemuxer(file'), Demux(file')>>
    BY <1>5 DEF MuxEnds
  <2> QED BY <2>5, <2>6 DEF FileInv
<1> QED BY <1>2, <1>3, <1>4, <1>5

\* What has been read is typed once the file is finished.
LEMMA ReadersOK ==
    ASSUME FileInv, pc # "mux"
    PROVE  DemuxOK(Opened) /\ DemuxOK(Read)
<1>1. Opened = NewDemuxer(file) /\ Read = Demux(file) /\ CellsOK(file)
  BY DEF FileInv, Opened, Read
<1> QED BY <1>1, DemuxersOK

\* Tags are not there at first, and fit.
LEMMA NoTagsFit == Fits(NoTags) /\ FramesOK(<<>>)
<1>1. DOMAIN NoTags = {} /\ Cardinality({}) = 0 /\ 0 <= TagsRoom
  BY FS_EmptySet, ImportAssumption DEF NoTags
<1>2. IsSeq(<<>>) /\ Len(<<>>) = 0
  BY DEF IsSeq
<1> QED BY <1>1, <1>2 DEF Fits, FramesOK

\* An output is not the absence of one.
LEMMA OutputIs == ASSUME NEW o, DOMAIN o = DOMAIN EmptyOutput PROVE o # <<>>
<1>1. "tracks" \in DOMAIN o /\ DOMAIN <<>> = {}
  BY DEF EmptyOutput
<1> QED BY <1>1

\* A step that leaves the output alone and does not get to write to it.
LEMMA OutputKept ==
    ASSUME OutInv, UNCHANGED <<demuxed, opts, runs, out>>,
           pc' \in Writing => pc \in Writing, pc' = "done" => pc = "done"
    PROVE  OutInv'
<1>1. CASE out = <<>> /\ pc \notin Writing \cup {"done"}
  BY <1>1 DEF OutInv
<1>2. CASE ~(out = <<>> /\ pc \notin Writing \cup {"done"})
  <2>1. /\ out # <<>> /\ DOMAIN out = DOMAIN EmptyOutput
        /\ out.final \in BOOLEAN /\ Fits(out.tags) /\ FramesOK(out.frames)
        /\ pc \in Writing => ~out.final
        /\ pc = "done" => out.final
        /\ runs > 0
    BY <1>2 DEF OutInv
  <2>2. FramesOK(out.frames)'
    BY <2>1, FramesStay DEF FramesOK
  <2>3. Fits(out.tags)' /\ (DOMAIN out = DOMAIN EmptyOutput)'
    BY <2>1 DEF Fits, EmptyOutput
  <2> QED BY <2>1, <2>2, <2>3 DEF OutInv
<1> QED BY <1>1, <1>2

\* A step that writes to it.
LEMMA OutputChanged ==
    ASSUME OutInv, pc \in Writing, UNCHANGED <<demuxed, opts, runs>>,
           DOMAIN out' = DOMAIN EmptyOutput, Fits(out'.tags), FramesOK(out'.frames),
           IF pc' = "done" THEN out'.final = TRUE ELSE out'.final = out.final
    PROVE  OutInv' /\ ~out.final /\ out # <<>>
<1>1. out # <<>> /\ out.final \in BOOLEAN /\ ~out.final /\ runs > 0
  BY DEF OutInv
<1>2. out' # <<>> /\ runs' > 0
  BY <1>1, OutputIs
<1>3. FramesOK(out.frames)'
  <2>1. \A n : HasID(n)' <=> HasID(n)
    BY MappingStays
  <2>2. IsSeq(out'.frames) /\ \A k \in 1 .. Len(out'.frames) :
                                 HasID(out'.frames[k].track) /\ out'.frames[k].pts \in Nat
    BY DEF FramesOK
  <2> QED BY <2>1, <2>2 DEF FramesOK
<1>4. Fits(out.tags)' /\ (DOMAIN out = DOMAIN EmptyOutput)'
  BY DEF Fits, EmptyOutput
<1>5. pc' = "done" => out'.final
  OBVIOUS
<1>6. pc' \in Writing => ~out'.final
  BY <1>1 DEF Writing
<1>7. out'.final \in BOOLEAN
  BY <1>1
<1> QED BY <1>1, <1>2, <1>3, <1>4, <1>5, <1>6, <1>7 DEF OutInv

LEMMA InitType == Init => TypeInv
<1> SUFFICES ASSUME Init PROVE TypeInv
  OBVIOUS
<1>1. CellsOK(file)
  BY HeadersOK DEF Init
<1> QED BY <1>1, ImportAssumption DEF Init, TypeInv, FileInv, OutInv, PC, Writing

LEMMA MuxType ==
    ASSUME TypeInv, MuxCluster \/ MuxBlock \/ MuxTags \/ MuxEnds
    PROVE  TypeInv'
<1>1. FileInv'
  BY MuxKeepsCells DEF TypeInv
<1>2. pc = "mux" /\ pc' \in {"mux", "idle"} /\ UNCHANGED <<opts, runs, at, out>>
  BY DEF MuxCluster, MuxBlock, MuxTags, MuxEnds, importing
<1>3. out = <<>> /\ runs = 0
  BY <1>2 DEF TypeInv, OutInv
<1>4. OutInv'
  BY <1>2, <1>3 DEF OutInv, Writing
<1> QED BY <1>1, <1>2, <1>3, <1>4 DEF TypeInv, PC

\* What is left to show of a step of Import.
LEMMA ImportType ==
    ASSUME TypeInv, UNCHANGED <<muxed, opts, runs>>, pc \notin {"mux", "idle"},
           pc' \in PC \ {"mux", "idle"}, at' \in Nat, OutInv'
    PROVE  TypeInv'
<1>1. FileInv'
  BY DEF TypeInv, FileInv, muxed, CellsOK
<1> QED BY <1>1 DEF TypeInv

LEMMA StepType ==
    ASSUME TypeInv, [Next]_vars
    PROVE  /\ TypeInv'
           /\ (out # <<>> /\ out.final) => out' = out
<1> DEFINE Goal == TypeInv' /\ ((out # <<>> /\ out.final) => out' = out)
<1> USE DEF Fail
<1>1. CASE MuxCluster \/ MuxBlock \/ MuxTags \/ MuxEnds
  <2>1. out' = out
    BY <1>1 DEF MuxCluster, MuxBlock, MuxTags, MuxEnds, importing
  <2> QED BY <1>1, <2>1, MuxType
<1>2. CASE Begin
  <2>1. /\ pc \in {"idle", "done", "failed", "broken"} /\ pc' = "open"
        /\ runs < MaxRuns /\ runs' = runs + 1 /\ at' = 0
        /\ IF runs = 0 THEN opts' \in Options ELSE opts' = opts
        /\ file' = file /\ demuxed' = demuxed /\ out' = out
    BY <1>2 DEF Begin, muxed
  <2>2. FileInv'
    BY <2>1 DEF TypeInv, FileInv, CellsOK
  <2>3. runs \in Nat /\ runs' \in 0 .. MaxRuns /\ runs' > 0 /\ opts' \in Options \cup {Everything}
    BY <2>1, ImportAssumption DEF TypeInv
  <2>4. OutInv'
    <3>1. CASE out = <<>>
      BY <2>1, <3>1 DEF OutInv, Writing
    <3>2. CASE out # <<>>
      <4>1. /\ DOMAIN out = DOMAIN EmptyOutput
            /\ out.final \in BOOLEAN /\ Fits(out.tags) /\ FramesOK(out.frames) /\ runs > 0
        BY <3>2 DEF TypeInv, OutInv
      <4>2. UNCHANGED <<demuxed, opts>>
        BY <2>1, <2>3, <4>1
      <4>3. FramesOK(out.frames)'
        BY <2>1, <4>1, <4>2, FramesStay DEF FramesOK
      <4>4. Fits(out.tags)' /\ (DOMAIN out = DOMAIN EmptyOutput)'
        BY <2>1, <4>1 DEF Fits, EmptyOutput
      <4> QED BY <2>1, <2>3, <3>2, <4>1, <4>3, <4>4 DEF OutInv, Writing
    <3> QED BY <3>1, <3>2
  <2> QED BY <2>1, <2>2, <2>3, <2>4 DEF TypeInv, PC
<1>3. CASE Open \/ Scan \/ EndOfFile \/ TagsSet \/ Break
  <2>1. /\ UNCHANGED <<muxed, opts, runs, out>>
        /\ pc' \in Writing => pc \in Writing
        /\ pc' # "done" /\ pc \notin {"mux", "idle"} /\ pc' \in PC \ {"mux", "idle"} /\ at' = at
    BY <1>3 DEF Open, Scan, EndOfFile, TagsSet, Break, Writing, PC
  <2>2. OutInv'
    BY <2>1, OutputKept DEF TypeInv, muxed
  <2>3. at' \in Nat
    BY <2>1 DEF TypeInv
  <2> QED BY <2>1, <2>2, <2>3, ImportType
<1>4. CASE Create
  <2>1. UNCHANGED <<muxed, opts, runs>> /\ pc = "create" /\ at' = at
    BY <1>4 DEF Create
  <2>2. at' \in Nat /\ runs > 0 /\ OutInv
    BY <2>1 DEF TypeInv
  <2>3. CASE out # <<>>
    <3>1. pc' = "failed" /\ out' = out
      BY <1>4, <2>3 DEF Create
    <3>2. OutInv'
      BY <2>1, <2>2, <3>1, OutputKept DEF Writing, muxed
    <3> QED BY <2>1, <2>2, <3>1, <3>2, ImportType DEF PC
  <2>4. CASE out = <<>>
    <3>1. pc' = "tracks" /\ out' = EmptyOutput
      BY <1>4, <2>4 DEF Create
    <3>2. OutInv'
      <4>1. out' # <<>> /\ (DOMAIN out = DOMAIN EmptyOutput)'
        BY <3>1, OutputIs DEF EmptyOutput
      <4>2. out'.final = FALSE /\ out'.tags = NoTags /\ out'.frames = <<>>
        BY <3>1 DEF EmptyOutput
      <4>3. Fits(out.tags)' /\ FramesOK(out.frames)'
        <5>1. IsSeq(<<>>) /\ Len(<<>>) = 0
          BY DEF IsSeq
        <5> QED BY <4>2, <5>1, NoTagsFit DEF Fits, FramesOK
      <4> QED BY <2>1, <2>2, <3>1, <4>1, <4>2, <4>3 DEF OutInv
    <3> QED BY <2>1, <2>2, <2>4, <3>1, <3>2, ImportType DEF PC
  <2> QED BY <2>3, <2>4
<1>5. ASSUME UNCHANGED <<muxed, opts, runs>>, pc \in Writing, pc' \in PC \ {"mux", "idle"},
             at' \in Nat,
             DOMAIN out' = DOMAIN EmptyOutput, Fits(out'.tags), FramesOK(out'.frames),
             IF pc' = "done" THEN out'.final = TRUE ELSE out'.final = out.final
      PROVE  Goal
  <2>1. OutInv' /\ ~out.final
    BY <1>5, OutputChanged DEF TypeInv, muxed
  <2>2. TypeInv'
    BY <1>5, <2>1, ImportType DEF Writing
  <2> QED BY <2>1, <2>2
<1>6. pc \in Writing => /\ DOMAIN out = DOMAIN EmptyOutput /\ out # <<>>
                        /\ Fits(out.tags) /\ FramesOK(out.frames)
  BY DEF TypeInv, OutInv
<1>7. CASE AddTracks
  <2> DEFINE start == [name \in StartTag |-> {date + Epoch : date \in Opened.date}]
             made  == [out EXCEPT !.tracks = [k \in DOMAIN Mapped |-> MapTrack(Mapped[k], scale)]]
  <2>1. /\ pc = "tracks" /\ UNCHANGED <<muxed, opts, runs>> /\ at' = at
        /\ \/ pc' = "failed" /\ out' = out
           \/ Fits(start) /\ pc' = "tags" /\ out' = [made EXCEPT !.tags = start]
           \/ pc' = "failed" /\ out' = made
    BY <1>7 DEF AddTracks
  <2>2. /\ DOMAIN made = DOMAIN EmptyOutput /\ made.tags = out.tags /\ made.frames = out.frames
        /\ made.final = out.final
    BY <1>6, <2>1 DEF EmptyOutput, Writing
  <2> HIDE DEF made, start
  <2>3. pc' # "done" /\ at' \in Nat
    BY <2>1 DEF TypeInv
  <2>4. /\ DOMAIN out' = DOMAIN EmptyOutput /\ Fits(out'.tags) /\ out'.frames = out.frames
        /\ out'.final = out.final
    BY <1>6, <2>1, <2>2 DEF EmptyOutput, Writing
  <2> QED BY <1>5, <1>6, <2>1, <2>3, <2>4 DEF PC, Writing
<1>8. CASE SetTag
  <2>1. pc \in {"tags", "late"} /\ UNCHANGED <<muxed, opts, runs>> /\ at' = at
    BY <1>8 DEF SetTag
  <2>2. CASE pc' = "failed" /\ out' = out
    <3>1. OutInv'
      BY <2>1, <2>2, OutputKept DEF Writing, muxed, TypeInv
    <3> QED BY <2>1, <2>2, <3>1, ImportType DEF PC, TypeInv
  <2>3. CASE pc' = pc /\ \E next : Fits(next) /\ out' = [out EXCEPT !.tags = next]
    <3>1. PICK next : Fits(next) /\ out' = [out EXCEPT !.tags = next]
      BY <2>3
    <3>2. /\ DOMAIN out' = DOMAIN EmptyOutput /\ Fits(out'.tags) /\ out'.frames = out.frames
          /\ out'.final = out.final
      BY <1>6, <2>1, <3>1 DEF EmptyOutput, Writing
    <3>3. pc' \in PC \ {"mux", "idle", "done"} /\ at' \in Nat /\ pc \in Writing
      BY <2>1, <2>3 DEF PC, TypeInv, Writing
    <3> QED BY <1>5, <1>6, <2>1, <3>2, <3>3
  <2> QED BY <1>8, <2>2, <2>3 DEF SetTag
<1>9. CASE ReadFrame
  <2> DEFINE p  == Read.packets[at + 1]
             fr == [track |-> p.track, pts |-> p.ts, key |-> p.key, data |-> p.data,
                    dur |-> IF KindIn(p.track) = "data" THEN p.dur ELSE 0]
  <2>1. /\ pc = "frames" /\ at < Len(Read.packets) /\ UNCHANGED <<muxed, opts, runs>>
        /\ \/ at' = at + 1 /\ pc' = pc /\ out' = out
           \/ /\ ~Skipped(p) /\ at' = at + 1 /\ pc' = pc
              /\ out' = [out EXCEPT !.frames = Append(@, fr)]
           \/ pc' = "failed" /\ at' = at /\ out' = out
    BY <1>9 DEF ReadFrame
  <2>2. at \in Nat /\ at + 1 \in Nat /\ pc \in Writing
    BY <2>1 DEF TypeInv, Writing
  <2>3. CASE out' = out /\ at' \in {at, at + 1} /\ pc' \in {pc, "failed"}
    <3>1. OutInv'
      BY <2>1, <2>3, OutputKept DEF Writing, muxed, TypeInv
    <3> QED BY <2>1, <2>2, <2>3, <3>1, ImportType DEF PC, TypeInv
  <2>4. CASE ~Skipped(p) /\ at' = at + 1 /\ pc' = pc /\ out' = [out EXCEPT !.frames = Append(@, fr)]
    <3>1. PacketsOK(Read.packets)
      BY <2>1, ReadersOK DEF TypeInv, DemuxOK
    <3>2. p.ts \in Int
      <4>1. Len(Read.packets) \in Nat
        BY <3>1, IsSeqType DEF PacketsOK
      <4>2. at + 1 \in 1 .. Len(Read.packets)
        BY <2>1, <2>2, <4>1
      <4> QED BY <3>1, <4>2 DEF PacketsOK
    <3>3. HasID(fr.track) /\ fr.pts \in Nat
      BY <2>4, <3>2 DEF Skipped
    <3> HIDE DEF fr
    <3> DEFINE fs == Append(out.frames, fr)
    <3>4. FramesOK(fs)
      <4>1. FramesOK(out.frames)
        BY <1>6, <2>2
      <4>2. /\ IsSeq(fs) /\ Len(fs) = Len(out.frames) + 1 /\ Len(out.frames) \in Nat
            /\ fs[Len(out.frames) + 1] = fr
            /\ \A i \in 1 .. Len(out.frames) : fs[i] = out.frames[i]
        BY <4>1, SeqAppend DEF FramesOK, Extended
      <4> HIDE DEF fs
      <4>3. ASSUME NEW k \in 1 .. Len(fs) PROVE HasID(fs[k].track) /\ fs[k].pts \in Nat
        <5>1. k \in 1 .. Len(out.frames) \/ k = Len(out.frames) + 1
          BY <4>2
        <5> QED BY <3>3, <4>1, <4>2, <5>1 DEF FramesOK
      <4> QED BY <4>2, <4>3 DEF FramesOK
    <3>5. out' = [out EXCEPT !.frames = fs]
      BY <2>4
    <3> HIDE DEF fs
    <3>6. /\ DOMAIN out' = DOMAIN EmptyOutput /\ out'.tags = out.tags /\ out'.frames = fs
          /\ out'.final = out.final
      BY <1>6, <2>2, <3>5 DEF EmptyOutput
    <3>7. pc' \in PC \ {"mux", "idle", "done"} /\ at' \in Nat
      BY <2>1, <2>2, <2>4 DEF PC
    <3> QED BY <1>5, <1>6, <2>1, <2>2, <3>4, <3>6, <3>7
  <2> QED BY <2>1, <2>3, <2>4
<1>10. CASE Finalize
  <2>1. /\ pc = "finalize" /\ pc' = "done" /\ at' = at /\ UNCHANGED <<muxed, opts, runs>>
        /\ out' = [out EXCEPT !.final = TRUE]
    BY <1>10 DEF Finalize
  <2>2. /\ DOMAIN out' = DOMAIN EmptyOutput /\ out'.tags = out.tags /\ out'.frames = out.frames
        /\ out'.final = TRUE
    BY <1>6, <2>1 DEF EmptyOutput, Writing
  <2>3. at' \in Nat
    BY <2>1 DEF TypeInv
  <2> QED BY <1>5, <1>6, <2>1, <2>2, <2>3 DEF PC, Writing
<1>11. CASE UNCHANGED vars
  <2>1. UNCHANGED <<file, demuxed, opts, pc, at, out, runs>>
    BY <1>11 DEF vars
  <2>2. FileInv' /\ OutInv'
    BY <2>1, OutputKept DEF TypeInv, FileInv, CellsOK
  <2> QED BY <2>1, <2>2 DEF TypeInv
<1> QED BY <1>1, <1>2, <1>3, <1>4, <1>7, <1>8, <1>9, <1>10, <1>11 DEF Next

LEMMA TypeAlways == Spec => []TypeInv
<1>1. Init => TypeInv
  BY InitType
<1>2. TypeInv /\ [Next]_vars => TypeInv'
  BY StepType
<1> QED BY <1>1, <1>2, PTL DEF Spec

\* Import's position and options have their types, and what is in the output fits
\* it: tags that fit their slot, and frames of tracks that it has, not before zero.
THEOREM ImportTypeCorrect == Spec => []TypeOK
<1>1. TypeInv => TypeOK
  <2> SUFFICES ASSUME TypeInv PROVE TypeOK
    OBVIOUS
  <2>1. out # <<>> => out.final \in BOOLEAN /\ Fits(out.tags) /\ FramesOK(out.frames)
    BY DEF TypeInv, OutInv
  <2>2. FramesOK(out.frames) =>
            \A k \in DOMAIN out.frames : HasID(out.frames[k].track) /\ out.frames[k].pts \in Nat
    BY IsSeqType DEF FramesOK
  <2> QED BY <2>1, <2>2 DEF TypeInv, TypeOK
<1> QED BY <1>1, TypeAlways, PTL

\* No step of any run of Import changes an output that has been finalized.
THEOREM ImportLeavesFinished == Spec => FinishedOutputStays
<1>1. TypeInv /\ [Next]_vars => [(out # <<>> /\ out.final) => out' = out]_vars
  BY StepType
<1> QED BY <1>1, TypeAlways, PTL DEF Spec, FinishedOutputStays

-----------------------------------------------------------------------------
(* What the options ask for.                                               *)

N == Len(Read.packets)

\* The parts of Wanted by name.
LastKey(n) == SelectLastInSeq(Read.packets, LAMBDA p : p.track = n /\ p.key /\ p.ts <= FromTS)

StartOf(n) ==
    IF KindIn(n) # "video" THEN FromTS
    ELSE IF LastKey(n) = 0 THEN 0 ELSE Read.packets[LastKey(n)].ts

Ends(n, j) ==
    /\ Read.packets[j].track = n /\ Read.packets[j].ts >= StartOf(n)
    /\ Read.packets[j].ts >= ToTS
    /\ KindIn(n) = "video" => Read.packets[j].key

Over(n, k) == \E j \in IF KindIn(n) = "video" THEN 1 .. k ELSE {k} : Ends(n, j)

Asked(k) ==
    /\ k \in 1 .. N /\ HasID(Read.packets[k].track) /\ Read.packets[k].ts >= 0
    /\ Ranged => /\ Read.packets[k].ts >= StartOf(Read.packets[k].track)
                 /\ ToTS > 0 => ~Over(Read.packets[k].track, k)

\* The first and the last position of a sequence where a test holds.
LEMMA FirstWhere ==
    ASSUME NEW s, Len(s) \in Nat, NEW I, I \subseteq 1 .. Len(s),
           NEW k, k = IF I # {} THEN Min(I) ELSE 0
    PROVE  /\ k = 0 => I = {}
           /\ k # 0 => k \in I /\ \A j \in I : k <= j
<1>1. I # {} => Min(I) \in I /\ \A j \in I : Min(I) <= j
  BY LeastInRange
<1> QED BY <1>1

LEMMA LastWhere ==
    ASSUME NEW s, Len(s) \in Nat, NEW I, I \subseteq 1 .. Len(s),
           NEW k, k = IF I # {} THEN Max(I) ELSE 0
    PROVE  /\ k = 0 => I = {}
           /\ k # 0 => k \in I /\ \A j \in I : j <= k
<1>1. I # {} => \E i \in I : \A j \in I : j <= i
  <2>1. I \subseteq 0 .. Len(s)
    OBVIOUS
  <2> QED BY <2>1, GreatestInRange
<1>2. I # {} => \E i \in I : \A j \in I : i >= j
  BY <1>1
<1>3. I # {} => Max(I) \in I /\ \A j \in I : Max(I) >= j
  BY <1>2 DEF Max
<1> QED BY <1>3

\* The last keyframe of a track at or before `from`.
LEMMA LastKeyIs ==
    ASSUME N \in Nat, NEW n
    PROVE  LET I == {j \in 1 .. N : /\ Read.packets[j].track = n /\ Read.packets[j].key
                                    /\ Read.packets[j].ts <= FromTS}
               k == LastKey(n)
           IN  /\ k = 0 => I = {}
               /\ k # 0 => k \in I /\ \A j \in I : j <= k
<1> DEFINE I == {j \in 1 .. N : /\ Read.packets[j].track = n /\ Read.packets[j].key
                                /\ Read.packets[j].ts <= FromTS}
           k == LastKey(n)
<1>1. k = IF I # {} THEN Max(I) ELSE 0
  BY DEF LastKey, SelectLastInSeq, N
<1>2. I \subseteq 1 .. Len(Read.packets) /\ Len(Read.packets) \in Nat
  BY DEF N
<1> HIDE DEF k, I
<1>3. (k = 0 => I = {}) /\ (k # 0 => k \in I /\ \A j \in I : j <= k)
  BY <1>1, <1>2, LastWhere
<1> QED BY <1>3 DEF k, I

\* The tracks of the output are selected entries of the file.
LEMMA MappedOK ==
    ASSUME DemuxOK(Opened)
    PROVE  /\ Len(Mapped) \in Nat /\ DOMAIN Mapped = 1 .. Len(Mapped)
           /\ \A i \in 1 .. Len(Mapped) :
                 /\ \E k \in DOMAIN Opened.entries : Mapped[i] = Opened.entries[k]
                 /\ Chosen(Mapped[i].number) /\ CanImport(Mapped[i])
<1> DEFINE es == Opened.entries
           S == Range(es)
           T == {te \in S : Chosen(te.number) /\ CanImport(te)}
<1>1. IsSeq(es)
  BY DEF DemuxOK, EntriesOK
<1>2. Len(es) \in Nat /\ DOMAIN es = 1 .. Len(es) /\ es = [i \in 1 .. Len(es) |-> es[i]]
  BY <1>1, IsSeqType
<1>3. es \in Seq(S)
  <2>1. \A i \in 1 .. Len(es) : es[i] \in S
    BY <1>2 DEF Range
  <2>2. es \in [1 .. Len(es) -> S]
    BY <1>2, <2>1
  <2> QED BY <1>2, <2>2
<1> HIDE DEF T
<1>4. Select(es, T) \in Seq(S \cap T)
  BY <1>3, SelectType
<1>5. Mapped \in Seq(S \cap T)
  BY <1>4 DEF Mapped, T
<1>6. /\ Len(Mapped) \in Nat /\ DOMAIN Mapped = 1 .. Len(Mapped)
      /\ \A i \in 1 .. Len(Mapped) : Mapped[i] \in S \cap T
  BY <1>5, LenProperties, ElementOfSeq
<1>7. \A te \in S : \E k \in DOMAIN es : te = es[k]
  BY DEF Range
<1> QED BY <1>6, <1>7 DEF T

\* A track that has an identifier is one of them; if it is video, pass 1 looks for its
\* keyframes.
Videos ==
    {n \in Numbers : Chosen(n) /\ \E k \in DOMAIN Opened.entries :
                        Opened.entries[k].number = n /\ Opened.entries[k].type = "video"}

LEMMA HasIDIs ==
    ASSUME DemuxOK(Opened), NEW n
    PROVE  /\ HasID(n) <=> n \in {Mapped[k].number : k \in DOMAIN Mapped}
           /\ (HasID(n) /\ KindIn(n) = "video") => n \in Videos
<1> DEFINE I == {i \in 1 .. Len(Mapped) : Mapped[i].number = n}
           k == SelectInSeq(Mapped, LAMBDA te : te.number = n)
<1>1. /\ Len(Mapped) \in Nat /\ DOMAIN Mapped = 1 .. Len(Mapped)
      /\ \A i \in 1 .. Len(Mapped) :
            /\ \E j \in DOMAIN Opened.entries : Mapped[i] = Opened.entries[j]
            /\ Chosen(Mapped[i].number) /\ CanImport(Mapped[i])
  BY MappedOK
<1>2. k = IF I # {} THEN Min(I) ELSE 0
  BY DEF SelectInSeq
<1>3. I \subseteq 1 .. Len(Mapped)
  OBVIOUS
<1>4. (HasID(n) <=> k > 0) /\ KindIn(n) = KindOf[Mapped[k].type]
  BY DEF HasID, KindIn
<1> HIDE DEF k
<1>5. (k = 0 => I = {}) /\ (k # 0 => k \in I /\ \A j \in I : k <= j)
  <2> HIDE DEF I
  <2> QED BY <1>1, <1>2, <1>3, FirstWhere
<1>6. HasID(n) <=> I # {}
  <2>1. k \in Nat
    BY <1>1, <1>5
  <2> QED BY <1>4, <1>5, <2>1
<1>7. HasID(n) <=> n \in {Mapped[i].number : i \in DOMAIN Mapped}
  BY <1>1, <1>6
<1>8. ASSUME HasID(n), KindIn(n) = "video" PROVE n \in Videos
  <2>1. k \in 1 .. Len(Mapped) /\ Mapped[k].number = n
    BY <1>5, <1>6, <1>8
  <2>2. PICK j \in DOMAIN Opened.entries : Mapped[k] = Opened.entries[j]
    BY <1>1, <2>1
  <2>3. Chosen(n) /\ Mapped[k].type \in DOMAIN KindOf
    BY <1>1, <2>1 DEF CanImport
  <2>4. Mapped[k].type = "video"
    BY <1>4, <1>8, <2>3 DEF KindOf
  <2>5. n \in Numbers
    BY <2>1, <2>2 DEF Numbers
  <2> QED BY <2>1, <2>2, <2>3, <2>4, <2>5 DEF Videos
<1> QED BY <1>7, <1>8

\* Wanted is the set of those positions.
LEMMA WantedIs ==
    ASSUME DemuxOK(Opened), DemuxOK(Read)
    PROVE  \A k : k \in Wanted <=> Asked(k)
<1>1. DOMAIN Read.packets = 1 .. N /\ N \in Nat
  BY IsSeqType DEF DemuxOK, PacketsOK, N
<1> DEFINE ps == Read.packets
           video(n) == KindIn(n) = "video"
           start(n) == LET k == SelectLastInSeq(ps, LAMBDA p : p.track = n /\ p.key /\ p.ts <= FromTS)
                       IN  IF ~video(n) THEN FromTS ELSE IF k = 0 THEN 0 ELSE ps[k].ts
           over(n, k) == \E j \in IF video(n) THEN 1 .. k ELSE {k} :
                            /\ ps[j].track = n /\ ps[j].ts >= start(n) /\ ps[j].ts >= ToTS
                            /\ video(n) => ps[j].key
           of(n) == {k \in DOMAIN ps : ps[k].track = n /\ ps[k].ts >= 0}
           asked(n) == {k \in of(n) : Ranged => ps[k].ts >= start(n) /\ (ToTS > 0 => ~over(n, k))}
<1>2. \A n : start(n) = StartOf(n)
  BY DEF StartOf, LastKey
<1>3. \A n, k : over(n, k) <=> Over(n, k)
  BY <1>2 DEF Over, Ends
<1>4. Wanted = UNION {asked(n) : n \in {Mapped[k].number : k \in DOMAIN Mapped}}
  BY DEF Wanted
<1> HIDE DEF start, over
<1>5. ASSUME NEW k PROVE k \in Wanted <=> Asked(k)
  <2>1. k \in Wanted <=> \E n \in {Mapped[i].number : i \in DOMAIN Mapped} : k \in asked(n)
    <3> HIDE DEF asked
    <3> QED BY <1>4
  <2>2. \A n : k \in asked(n) <=>
            /\ k \in 1 .. N /\ ps[k].track = n /\ ps[k].ts >= 0
            /\ Ranged => ps[k].ts >= StartOf(n) /\ (ToTS > 0 => ~Over(n, k))
    BY <1>1, <1>2, <1>3
  <2> HIDE DEF asked
  <2>3. \A n : HasID(n) <=> n \in {Mapped[i].number : i \in DOMAIN Mapped}
    BY HasIDIs
  <2> QED BY <2>1, <2>2, <2>3 DEF Asked
<1> QED BY <1>5

-----------------------------------------------------------------------------
(* The positions of a set in order.                                        *)

Ids(n) == [k \in 1 .. n |-> k]

LEMMA IdsIs ==
    ASSUME NEW n \in Nat
    PROVE  /\ Ids(n) \in Seq(Nat) /\ Len(Ids(n)) = n /\ \A k \in 1 .. n : Ids(n)[k] = k
           /\ Ids(n + 1) = Append(Ids(n), n + 1)
<1>1. \A m \in Nat : Ids(m) \in [1 .. m -> Nat]
  BY DEF Ids
<1>2. \A m \in Nat : Ids(m) \in Seq(Nat) /\ Len(Ids(m)) = m /\ \A k \in 1 .. m : Ids(m)[k] = k
  <2> SUFFICES ASSUME NEW m \in Nat
               PROVE  Ids(m) \in Seq(Nat) /\ Len(Ids(m)) = m /\ \A k \in 1 .. m : Ids(m)[k] = k
    OBVIOUS
  <2>1. \A k \in 1 .. m : Ids(m)[k] = k
    BY DEF Ids
  <2>2. Ids(m) \in [1 .. m -> Nat]
    BY <1>1
  <2> QED BY <2>1, <2>2
<1> DEFINE a == Append(Ids(n), n + 1)
           b == Ids(n + 1)
<1>3. /\ a \in Seq(Nat) /\ Len(a) = n + 1 /\ a[n + 1] = n + 1
      /\ \A i \in 1 .. n : a[i] = Ids(n)[i]
  BY <1>2, AppendProperties
<1>4. b \in Seq(Nat) /\ Len(b) = n + 1 /\ \A i \in 1 .. n + 1 : b[i] = i
  BY <1>2
<1> HIDE DEF a, b
<1>5. \A i \in 1 .. n + 1 : a[i] = b[i]
  <2> SUFFICES ASSUME NEW i \in 1 .. n + 1 PROVE a[i] = b[i]
    OBVIOUS
  <2>1. i \in 1 .. n \/ i = n + 1
    OBVIOUS
  <2> QED BY <1>2, <1>3, <1>4, <2>1
<1>6. b = a
  BY <1>3, <1>4, <1>5, SeqEqual
<1> QED BY <1>2, <1>6 DEF a, b

\* One more position.
LEMMA KeptNext ==
    ASSUME NEW n \in Nat, NEW W
    PROVE  Select(Ids(n + 1), W) =
               IF n + 1 \in W THEN Append(Select(Ids(n), W), n + 1) ELSE Select(Ids(n), W)
<1> DEFINE s == Ids(n)
           x == n + 1
<1>1. s \in Seq(Nat) /\ x \in Nat /\ Ids(n + 1) = Append(s, x)
  <2>1. s \in Seq(Nat) /\ Ids(n + 1) = Append(s, x)
    BY IdsIs, Zenon
  <2> QED BY <2>1
<1> HIDE DEF s, x
<1>2. Select(Append(s, x), W) = IF x \in W THEN Append(Select(s, W), x) ELSE Select(s, W)
  BY <1>1, SelectAppend
<1> QED BY <1>1, <1>2 DEF s, x

\* f lists the positions up to n that lie in W.
Lists(f, n, W) ==
    /\ f \in Seq(Nat) /\ Len(f) \in Nat
    /\ \A i \in 1 .. Len(f) : f[i] \in 1 .. n /\ f[i] \in W
    /\ \A i, j \in 1 .. Len(f) : i < j => f[i] < f[j]
    /\ \A w \in 1 .. n : w \in W => \E i \in 1 .. Len(f) : f[i] = w

LEMMA ListsNext ==
    ASSUME NEW n \in Nat, NEW W, NEW f, Lists(f, n, W), NEW g,
           g = IF n + 1 \in W THEN Append(f, n + 1) ELSE f
    PROVE  Lists(g, n + 1, W)
<1>1. /\ f \in Seq(Nat) /\ Len(f) \in Nat
      /\ \A i \in 1 .. Len(f) : f[i] \in 1 .. n /\ f[i] \in W
      /\ \A i, j \in 1 .. Len(f) : i < j => f[i] < f[j]
      /\ \A w \in 1 .. n : w \in W => \E i \in 1 .. Len(f) : f[i] = w
  BY DEF Lists
<1>2. CASE n + 1 \in W
  <2>1. /\ g \in Seq(Nat) /\ Len(g) = Len(f) + 1 /\ g[Len(f) + 1] = n + 1
        /\ \A i \in 1 .. Len(f) : g[i] = f[i]
    BY <1>1, <1>2, AppendProperties
  <2>2. ASSUME NEW i \in 1 .. Len(g) PROVE g[i] \in 1 .. n + 1 /\ g[i] \in W
    <3>1. i \in 1 .. Len(f) \/ i = Len(f) + 1
      BY <1>1, <2>1
    <3> QED BY <1>1, <1>2, <2>1, <3>1
  <2>3. ASSUME NEW i \in 1 .. Len(g), NEW j \in 1 .. Len(g), i < j PROVE g[i] < g[j]
    <3>1. i \in 1 .. Len(f) /\ (j \in 1 .. Len(f) \/ j = Len(f) + 1)
      BY <1>1, <2>1, <2>3
    <3>2. g[i] = f[i] /\ f[i] \in 1 .. n
      BY <1>1, <2>1, <3>1
    <3>3. CASE j \in 1 .. Len(f)
      BY <1>1, <2>1, <2>3, <3>1, <3>3
    <3>4. CASE j = Len(f) + 1
      BY <2>1, <3>2, <3>4
    <3> QED BY <3>1, <3>3, <3>4
  <2>4. ASSUME NEW w \in 1 .. n + 1, w \in W PROVE \E i \in 1 .. Len(g) : g[i] = w
    <3>1. CASE w = n + 1
      <4>1. Len(f) + 1 \in 1 .. Len(g) /\ g[Len(f) + 1] = w
        BY <1>1, <2>1, <3>1
      <4> QED BY <4>1
    <3>2. CASE w # n + 1
      <4>1. PICK i \in 1 .. Len(f) : f[i] = w
        BY <1>1, <2>4, <3>2
      <4>2. i \in 1 .. Len(g) /\ g[i] = w
        BY <1>1, <2>1, <4>1
      <4> QED BY <4>2
    <3> QED BY <3>1, <3>2
  <2>5. Len(g) \in Nat
    BY <1>1, <2>1
  <2> QED BY <2>1, <2>2, <2>3, <2>4, <2>5 DEF Lists
<1>3. CASE n + 1 \notin W
  <2>1. g = f
    BY <1>3
  <2>2. ASSUME NEW w \in 1 .. n + 1, w \in W PROVE \E i \in 1 .. Len(f) : f[i] = w
    <3>1. w \in 1 .. n
      BY <1>3, <2>2
    <3> QED BY <1>1, <2>2, <3>1
  <2>3. \A i \in 1 .. Len(f) : f[i] \in 1 .. n + 1
    BY <1>1
  <2> QED BY <1>1, <2>1, <2>2, <2>3 DEF Lists
<1> QED BY <1>2, <1>3

\* Select of all positions lists those of the set,
LEMMA KeptLists == ASSUME NEW n \in Nat, NEW W PROVE Lists(Select(Ids(n), W), n, W)
<1> DEFINE Good == {m \in Nat : Lists(Select(Ids(m), W), m, W)}
<1>1. 0 \in Good
  <2>1. Ids(0) = <<>>
    BY DEF Ids
  <2>2. Select(Ids(0), W) = <<>>
    BY <2>1, SelectEmpty
  <2>3. <<>> \in Seq(Nat) /\ Len(<<>>) = 0
    OBVIOUS
  <2>4. 1 .. Len(<<>>) = {} /\ 1 .. 0 = {}
    BY <2>3
  <2>5. Lists(<<>>, 0, W)
    BY <2>3, <2>4 DEF Lists
  <2> QED BY <2>2, <2>5
<1>2. ASSUME NEW m \in Nat, m \in Good PROVE m + 1 \in Good
  <2> DEFINE f == Select(Ids(m), W)
             g == Select(Ids(m + 1), W)
  <2>1. g = IF m + 1 \in W THEN Append(f, m + 1) ELSE f
    BY KeptNext
  <2>2. Lists(f, m, W)
    BY <1>2
  <2> HIDE DEF f, g
  <2>3. Lists(g, m + 1, W)
    BY <2>1, <2>2, ListsNext
  <2> QED BY <2>3 DEF g
<1>3. n \in Good
  <2> HIDE DEF Good
  <2> QED BY <1>1, <1>2, NatSetInduction
<1> QED BY <1>3

\* and that of fewer is a beginning of it.
Begins(f, g) == Len(f) <= Len(g) /\ \A i \in 1 .. Len(f) : g[i] = f[i]

LEMMA KeptBegins ==
    ASSUME NEW n \in Nat, NEW m \in Nat, m <= n, NEW W
    PROVE  Begins(Select(Ids(m), W), Select(Ids(n), W))
<1> DEFINE F(k) == Select(Ids(k), W)
           Good == {k \in Nat : Begins(F(m), F(m + k))}
<1>0. \A k \in Nat : F(k) \in Seq(Nat) /\ Len(F(k)) \in Nat
  BY KeptLists DEF Lists
<1>1. 0 \in Good
  BY <1>0 DEF Begins
<1>2. ASSUME NEW k \in Nat, k \in Good PROVE k + 1 \in Good
  <2> DEFINE f == F(m)
             g == F(m + k)
             h == F(m + (k + 1))
  <2>1. m + k \in Nat /\ (m + k) + 1 = m + (k + 1)
    OBVIOUS
  <2>2. h = IF (m + k) + 1 \in W THEN Append(g, (m + k) + 1) ELSE g
    <3>1. F((m + k) + 1) = IF (m + k) + 1 \in W THEN Append(F(m + k), (m + k) + 1) ELSE F(m + k)
      BY <2>1, KeptNext
    <3> QED BY <2>1, <3>1
  <2>3. Begins(f, g) /\ Len(f) \in Nat /\ g \in Seq(Nat) /\ Len(g) \in Nat
    BY <1>0, <1>2, <2>1
  <2> HIDE DEF f, g, h, F
  <2>4. Len(g) <= Len(h) /\ \A i \in 1 .. Len(g) : h[i] = g[i]
    BY <2>1, <2>2, <2>3, AppendProperties
  <2>5. Begins(f, h)
    <3>1. Len(h) \in Nat
      BY <2>1, <2>2, <2>3, AppendProperties
    <3> QED BY <2>3, <2>4, <3>1 DEF Begins
  <2> QED BY <2>5 DEF f, h
<1>3. n - m \in Good
  <2>1. n - m \in Nat
    OBVIOUS
  <2> HIDE DEF Good
  <2> QED BY <1>1, <1>2, <2>1, NatSetInduction
<1>4. m + (n - m) = n
  OBVIOUS
<1> QED BY <1>3, <1>4

-----------------------------------------------------------------------------
(* The frames of the output.                                               *)

Kept(m) == Select(Ids(m), Wanted)

AskedOf(n) ==
    {k \in {i \in DOMAIN Read.packets : Read.packets[i].track = n /\ Read.packets[i].ts >= 0} :
        Ranged => Read.packets[k].ts >= StartOf(n) /\ (ToTS > 0 => ~Over(n, k))}

\* Pass 2 depends on the file and the options only.
LEMMA CutStays ==
    ASSUME UNCHANGED <<demuxed, opts>>
    PROVE  /\ FromTS' = FromTS /\ ToTS' = ToTS /\ (Ranged' <=> Ranged) /\ N' = N
           /\ \A n : LastKey(n)' = LastKey(n) /\ StartOf(n)' = StartOf(n)
           /\ Videos' = Videos /\ Wanted' = Wanted
           /\ \A m : Kept(m)' = Kept(m)
<1>1. /\ Mapped' = Mapped /\ Read' = Read /\ Opened' = Opened
      /\ \A n : HasID(n)' <=> HasID(n)
      /\ \A n : KindIn(n)' = KindIn(n)
  BY MappingStays
<1>2. FromTS' = FromTS /\ ToTS' = ToTS /\ (Ranged' <=> Ranged) /\ N' = N
  BY <1>1 DEF FromTS, ToTS, Ranged, scale, N
<1>3. \A n : LastKey(n)' = LastKey(n)
  BY <1>1, <1>2 DEF LastKey, SelectLastInSeq
<1>4. \A n : StartOf(n)' = StartOf(n)
  BY <1>1, <1>2, <1>3 DEF StartOf
<1>5. Videos' = Videos
  <2>1. (Numbers' = Numbers) /\ \A n : Chosen(n)' <=> Chosen(n)
    BY <1>1 DEF Numbers, Chosen
  <2> QED BY <1>1, <2>1 DEF Videos
<1>6. Wanted' = Wanted
  <2>1. Wanted = UNION {AskedOf(n) : n \in {Mapped[k].number : k \in DOMAIN Mapped}}
    BY DEF Wanted, AskedOf, StartOf, LastKey, Over, Ends
  <2>2. (Wanted = UNION {AskedOf(n) : n \in {Mapped[k].number : k \in DOMAIN Mapped}})'
    BY DEF Wanted, AskedOf, StartOf, LastKey, Over, Ends
  <2>3. \A n, k : Over(n, k)' <=> Over(n, k)
    BY <1>1, <1>2, <1>4 DEF Over, Ends
  <2>4. \A n : AskedOf(n)' = AskedOf(n)
    BY <1>1, <1>2, <1>4, <2>3 DEF AskedOf
  <2> QED BY <1>1, <2>1, <2>2, <2>4
<1>7. \A m : Kept(m)' = Kept(m)
  BY <1>6 DEF Kept, Ids
<1> QED BY <1>2, <1>3, <1>4, <1>5, <1>6, <1>7

\* What the steps of pass 2 know: the starts that pass 1 found, and the video tracks
\* that have ended among the first m packets.
SnapMade ==
    IF Ranged THEN [n \in {v \in Videos : LastKey(v) > 0} |-> Read.packets[LastKey(n)].ts]
    ELSE [n \in {} |-> 0]

EndedBy(n, m) ==
    /\ Ranged /\ ToTS > 0 /\ KindIn(n) = "video" /\ HasID(n)
    /\ \E j \in 1 .. m : Ends(n, j)

\* The times of the range are whole numbers.
LEMMA RangeType ==
    ASSUME TypeInv, DemuxOK(Opened), DemuxOK(Read)
    PROVE  /\ FromTS \in Int /\ ToTS \in Int /\ N \in Nat
           /\ \A k \in 1 .. N : Read.packets[k].ts \in Int /\ Read.packets[k].key \in BOOLEAN
           /\ \A n : LastKey(n) \in 0 .. N /\ StartOf(n) \in Int
<1>1. opts.from \in Nat /\ opts.to \in Nat
  <2>1. Everything.from = 0 /\ Everything.to = 0
    BY DEF Everything
  <2> QED BY <2>1, ImportAssumption DEF TypeInv
<1>2. scale \in Nat /\ scale > 0
  BY DEF DemuxOK, scale
<1>3. FromTS \in Int /\ ToTS \in Int
  BY <1>1, <1>2 DEF FromTS, ToTS
<1>4. N \in Nat /\ \A k \in 1 .. N : Read.packets[k].ts \in Int /\ Read.packets[k].key \in BOOLEAN
  BY IsSeqType DEF DemuxOK, PacketsOK, N
<1>5. ASSUME NEW n PROVE LastKey(n) \in 0 .. N
  <2> DEFINE I == {j \in 1 .. N : /\ Read.packets[j].track = n /\ Read.packets[j].key
                                  /\ Read.packets[j].ts <= FromTS}
             k == LastKey(n)
  <2>1. k # 0 => k \in I
    BY <1>4, LastKeyIs
  <2> HIDE DEF k
  <2>2. k \in 0 .. N
    BY <1>4, <2>1
  <2> QED BY <2>2 DEF k
<1>6. ASSUME NEW n PROVE StartOf(n) \in Int
  <2>1. LastKey(n) \in 0 .. N
    BY <1>5
  <2>2. LastKey(n) # 0 => LastKey(n) \in 1 .. N
    BY <1>4, <2>1
  <2> QED BY <1>3, <1>4, <2>2 DEF StartOf
<1> QED BY <1>3, <1>4, <1>5, <1>6

\* The start of a track, as pass 2 takes it from what pass 1 has found.
LEMMA BeforeRangeIs ==
    ASSUME TypeInv, DemuxOK(Opened), DemuxOK(Read), snap = SnapMade,
           NEW p, HasID(p.track)
    PROVE  BeforeRange(p) <=> (Ranged /\ p.ts < StartOf(p.track))
<1>1. CASE ~Ranged
  BY <1>1 DEF BeforeRange
<1>2. CASE Ranged /\ KindIn(p.track) # "video"
  BY <1>2 DEF BeforeRange, StartOf
<1>3. CASE Ranged /\ KindIn(p.track) = "video"
  <2>1. p.track \in Videos
    BY <1>3, HasIDIs
  <2>2. /\ DOMAIN snap = {v \in Videos : LastKey(v) > 0}
        /\ \A n \in DOMAIN snap : snap[n] = Read.packets[LastKey(n)].ts
    BY <1>3 DEF SnapMade
  <2>3. LastKey(p.track) \in 0 .. N /\ N \in Nat
    BY RangeType
  <2>4. CASE LastKey(p.track) = 0
    <3>1. p.track \notin DOMAIN snap /\ StartOf(p.track) = 0
      BY <1>3, <2>2, <2>4 DEF StartOf
    <3> QED BY <1>3, <3>1 DEF BeforeRange
  <2>5. CASE LastKey(p.track) # 0
    <3>1. LastKey(p.track) > 0
      BY <2>3, <2>5
    <3>2. p.track \in DOMAIN snap
      BY <2>1, <2>2, <3>1
    <3>3. StartOf(p.track) = snap[p.track]
      BY <1>3, <2>2, <2>5, <3>2 DEF StartOf
    <3> QED BY <1>3, <3>2, <3>3 DEF BeforeRange
  <2> QED BY <2>4, <2>5
<1> QED BY <1>1, <1>2, <1>3

\* One packet: it is asked for if pass 2 does not pass over it, and ends its track
\* if it is a keyframe behind the range.
LEMMA ReadStep ==
    ASSUME TypeInv, DemuxOK(Opened), DemuxOK(Read), snap = SnapMade, at < N,
           \A n : n \in ended <=> EndedBy(n, at), NEW p, p = Read.packets[at + 1]
    PROVE  /\ Asked(at + 1) <=> (~Skipped(p) /\ ~BeforeRange(p) /\ ~AfterRange(p))
           /\ (Skipped(p) \/ BeforeRange(p) \/ ~AfterRange(p) \/ KindIn(p.track) # "video") =>
                  \A n : n \in ended <=> EndedBy(n, at + 1)
           /\ (~Skipped(p) /\ ~BeforeRange(p) /\ AfterRange(p) /\ KindIn(p.track) = "video") =>
                  \A n : n \in ended \cup {p.track} <=> EndedBy(n, at + 1)
<1> DEFINE tr == p.track
<1>1. at \in Nat /\ at + 1 \in 1 .. N /\ N \in Nat /\ FromTS \in Int /\ ToTS \in Int
      /\ p.ts \in Int /\ p.key \in BOOLEAN /\ StartOf(tr) \in Int
  BY RangeType DEF TypeInv
<1>2. Skipped(p) <=> ~(HasID(tr) /\ p.ts >= 0)
  BY <1>1 DEF Skipped
<1>3. HasID(tr) => (BeforeRange(p) <=> (Ranged /\ ~(p.ts >= StartOf(tr))))
  <2>1. HasID(tr) => (BeforeRange(p) <=> (Ranged /\ p.ts < StartOf(tr)))
    BY BeforeRangeIs
  <2> QED BY <1>1, <2>1
<1>4. \A n : Ends(n, at + 1) <=> /\ tr = n /\ p.ts >= StartOf(n) /\ p.ts >= ToTS
                                 /\ KindIn(n) = "video" => p.key
  BY DEF Ends
<1>5. \A n : (\E j \in 1 .. at + 1 : Ends(n, j)) <=> (Ends(n, at + 1) \/ \E j \in 1 .. at : Ends(n, j))
  <2> SUFFICES ASSUME NEW n
               PROVE  (\E j \in 1 .. at + 1 : Ends(n, j)) <=> (Ends(n, at + 1) \/ \E j \in 1 .. at : Ends(n, j))
    OBVIOUS
  <2>1. \A j : j \in 1 .. at + 1 <=> (j = at + 1 \/ j \in 1 .. at)
    BY <1>1
  <2> QED BY <2>1
<1>6. ASSUME ~Skipped(p), ~BeforeRange(p)
      PROVE  AfterRange(p) <=> (Ranged /\ ToTS > 0 /\ Over(tr, at + 1))
  <2>1. HasID(tr) /\ (Ranged => p.ts >= StartOf(tr))
    BY <1>2, <1>3, <1>6
  <2>2. CASE ~(Ranged /\ ToTS > 0)
    BY <2>2 DEF AfterRange
  <2>3. CASE Ranged /\ ToTS > 0 /\ KindIn(tr) # "video"
    <3>1. Over(tr, at + 1) <=> Ends(tr, at + 1)
      BY <2>3 DEF Over
    <3> QED BY <1>4, <2>1, <2>3, <3>1 DEF AfterRange
  <2>4. CASE Ranged /\ ToTS > 0 /\ KindIn(tr) = "video"
    <3>1. Over(tr, at + 1) <=> \E j \in 1 .. at + 1 : Ends(tr, j)
      BY <2>4 DEF Over
    <3>2. tr \in ended <=> \E j \in 1 .. at : Ends(tr, j)
      BY <2>1, <2>4 DEF EndedBy
    <3>3. AfterRange(p) <=> (tr \in ended \/ (p.key /\ p.ts >= ToTS))
      BY <2>4 DEF AfterRange
    <3>4. Ends(tr, at + 1) <=> (p.key /\ p.ts >= ToTS)
      BY <1>4, <2>1, <2>4
    <3> QED BY <1>5, <2>4, <3>1, <3>2, <3>3, <3>4
  <2> QED BY <2>2, <2>3, <2>4
<1>7. Asked(at + 1) <=> (~Skipped(p) /\ ~BeforeRange(p) /\ ~AfterRange(p))
  <2>1. Asked(at + 1) <=>
            /\ HasID(tr) /\ p.ts >= 0
            /\ Ranged => p.ts >= StartOf(tr) /\ (ToTS > 0 => ~Over(tr, at + 1))
    BY <1>1 DEF Asked
  <2> QED BY <1>2, <1>3, <1>6, <2>1
<1>8. \A n : EndedBy(n, at + 1) <=>
            (EndedBy(n, at) \/ (Ranged /\ ToTS > 0 /\ KindIn(n) = "video" /\ HasID(n) /\ Ends(n, at + 1)))
  BY <1>5 DEF EndedBy
<1>9. ASSUME NEW n, Ranged, ToTS > 0, KindIn(n) = "video", HasID(n), Ends(n, at + 1)
      PROVE  /\ n = tr /\ ~Skipped(p) /\ ~BeforeRange(p) /\ AfterRange(p) /\ KindIn(tr) = "video"
  <2>1. n = tr /\ p.ts >= StartOf(tr) /\ p.ts >= ToTS /\ p.key
    BY <1>4, <1>9
  <2>2. p.ts >= 0
    BY <1>1, <1>9, <2>1
  <2>3. ~Skipped(p) /\ ~BeforeRange(p)
    BY <1>2, <1>3, <1>9, <2>1, <2>2
  <2> QED BY <1>9, <2>1, <2>3 DEF AfterRange
<1>10. ASSUME Skipped(p) \/ BeforeRange(p) \/ ~AfterRange(p) \/ KindIn(tr) # "video", NEW n
       PROVE  n \in ended <=> EndedBy(n, at + 1)
  BY <1>8, <1>9, <1>10
<1>11. ASSUME ~Skipped(p), ~BeforeRange(p), AfterRange(p), KindIn(tr) = "video", NEW n
       PROVE  n \in ended \cup {tr} <=> EndedBy(n, at + 1)
  <2>1. EndedBy(tr, at + 1)
    <3>1. Ranged /\ ToTS > 0 /\ Over(tr, at + 1)
      BY <1>6, <1>11
    <3>2. \E j \in 1 .. at + 1 : Ends(tr, j)
      BY <1>11, <3>1 DEF Over
    <3> QED BY <1>2, <1>11, <3>1, <3>2 DEF EndedBy
  <2>2. EndedBy(n, at + 1) => n \in ended \/ n = tr
    BY <1>8, <1>9
  <2>3. n \in ended => EndedBy(n, at + 1)
    BY <1>8
  <2> QED BY <2>1, <2>2, <2>3
<1> QED BY <1>7, <1>10, <1>11

\* A frame of the output is what Import makes of a packet.
Copies(fr, p) ==
    /\ fr.track = p.track /\ fr.pts = p.ts /\ fr.key = p.key
    /\ fr.data = p.data
    /\ KindIn(fr.track) = "data" => fr.dur = p.dur

CutAt(fs, m) ==
    /\ Len(fs) = Len(Kept(m))
    /\ \A i \in 1 .. Len(fs) : Copies(fs[i], Read.packets[Kept(m)[i]])

\* On the first run, the output holds what is asked for of the packets read so far.
CutInv ==
    runs = 1 =>
        /\ pc \in {"open", "scan", "create"} => out = <<>>
        /\ pc \in {"open", "scan", "create", "tracks", "tags"} => at = 0 /\ ended = {}
        /\ pc \in {"open", "scan"} => snap = [n \in {} |-> 0]
        /\ pc = "scan" => Ranged
        /\ pc = "create" => snap = SnapMade
        /\ out # <<>> => /\ snap = SnapMade /\ at <= N /\ CutAt(out.frames, at)
                         /\ \A n : n \in ended <=> EndedBy(n, at)
        /\ pc \in {"late", "finalize", "done"} => at = N

\* A step that leaves pass 2 alone.
LEMMA CutKept ==
    ASSUME CutInv, UNCHANGED <<demuxed, opts, runs, at, snap, ended>>,
           out # <<>>, out' # <<>>, out'.frames = out.frames,
           pc' \in PC \ {"mux", "idle", "open", "scan", "create"},
           pc' = "tags" => pc \in {"tracks", "tags"}, pc' # "tracks",
           pc' \in {"late", "finalize", "done"} => pc \in {"late", "finalize", "done"} \/ at = N
    PROVE  CutInv'
<1> SUFFICES ASSUME (runs = 1)' PROVE CutInv'
  BY DEF CutInv
<1>1. runs = 1
  OBVIOUS
<1>2. /\ N' = N /\ (\A n : HasID(n)' <=> HasID(n)) /\ (\A n : KindIn(n)' = KindIn(n))
      /\ \A m : Kept(m)' = Kept(m)
      /\ Read' = Read
  BY CutStays, MappingStays
<1>3. SnapMade' = SnapMade
  <2>1. Videos' = Videos /\ (Ranged' <=> Ranged) /\ \A n : LastKey(n)' = LastKey(n)
    BY CutStays
  <2> QED BY <1>2, <2>1 DEF SnapMade
<1>4. \A n : EndedBy(n, at)' <=> EndedBy(n, at)
  <2>1. ToTS' = ToTS /\ (Ranged' <=> Ranged) /\ \A n : StartOf(n)' = StartOf(n)
    BY CutStays
  <2> QED BY <1>2, <2>1 DEF EndedBy, Ends
<1>5. CutAt(out.frames, at)' <=> CutAt(out.frames, at)
  BY <1>2 DEF CutAt, Copies
<1>6. /\ snap = SnapMade /\ at <= N /\ CutAt(out.frames, at)
      /\ \A n : n \in ended <=> EndedBy(n, at)
  BY <1>1 DEF CutInv
<1>7. (/\ snap = SnapMade /\ at <= N /\ CutAt(out.frames, at)
       /\ \A n : n \in ended <=> EndedBy(n, at))'
  BY <1>2, <1>3, <1>4, <1>5, <1>6
<1>8. pc' \in {"late", "finalize", "done"} => at' = N'
  BY <1>1, <1>2 DEF CutInv
<1>9. pc' = "tags" => at' = 0 /\ ended' = {}
  BY <1>1 DEF CutInv
<1> QED BY <1>7, <1>8, <1>9 DEF CutInv

\* A step of pass 2, or the start of the output.
LEMMA CutMoves ==
    ASSUME UNCHANGED <<demuxed, opts, snap>>, snap = SnapMade, NEW m, at' = m, m <= N,
           CutAt(out'.frames, m), \A n : n \in ended' <=> EndedBy(n, m)
    PROVE  /\ N' = N
           /\ (/\ snap = SnapMade /\ at <= N /\ CutAt(out.frames, at)
               /\ \A n : n \in ended <=> EndedBy(n, at))'
<1>1. /\ N' = N /\ (\A n : HasID(n)' <=> HasID(n)) /\ (\A n : KindIn(n)' = KindIn(n))
      /\ \A k : Kept(k)' = Kept(k)
      /\ Read' = Read
  BY CutStays, MappingStays
<1>2. SnapMade' = SnapMade
  <2>1. Videos' = Videos /\ (Ranged' <=> Ranged) /\ \A n : LastKey(n)' = LastKey(n)
    BY CutStays
  <2> QED BY <1>1, <2>1 DEF SnapMade
<1>3. \A n : EndedBy(n, m)' <=> EndedBy(n, m)
  <2>1. ToTS' = ToTS /\ (Ranged' <=> Ranged) /\ \A n : StartOf(n)' = StartOf(n)
    BY CutStays
  <2> QED BY <1>1, <2>1 DEF EndedBy, Ends
<1>4. (\A n : n \in ended <=> EndedBy(n, at))'
  <2>1. \A n : EndedBy(n, at)' <=> EndedBy(n, m)'
    BY DEF EndedBy
  <2> QED BY <1>3, <2>1
<1>5. CutAt(out.frames, at)'
  <2>1. Kept(at)' = Kept(m)
    BY <1>1 DEF Kept
  <2> QED BY <1>1, <2>1 DEF CutAt, Copies
<1> QED BY <1>1, <1>2, <1>4, <1>5

\* An empty output holds what there is before the first packet.
LEMMA CutStarts ==
    ASSUME N \in Nat
    PROVE  0 <= N /\ CutAt(<<>>, 0) /\ \A n : ~EndedBy(n, 0)
<1>1. Ids(0) = <<>>
  BY DEF Ids
<1>2. Kept(0) = <<>>
  BY <1>1, SelectEmpty DEF Kept
<1>3. Len(<<>>) = 0
  OBVIOUS
<1>4. CutAt(<<>>, 0)
  BY <1>2, <1>3 DEF CutAt
<1> QED BY <1>4 DEF EndedBy

LEMMA CutReads ==
    ASSUME TypeInv, CutInv, ReadFrame
    PROVE  CutInv'
<1> SUFFICES ASSUME (runs = 1)' PROVE CutInv'
  BY DEF CutInv
<1> DEFINE p  == Read.packets[at + 1]
           fr == [track |-> p.track, pts |-> p.ts, key |-> p.key, data |-> p.data,
                  dur |-> IF KindIn(p.track) = "data" THEN p.dur ELSE 0]
<1> USE DEF Fail
<1>1. pc = "frames" /\ at < N /\ UNCHANGED <<muxed, opts, runs, snap>> /\ runs = 1 /\ at \in Nat
  BY DEF ReadFrame, TypeInv, N
<1>2. /\ demuxed' = demuxed /\ out # <<>> /\ DOMAIN out = DOMAIN EmptyOutput /\ FramesOK(out.frames)
  BY <1>1 DEF TypeInv, OutInv, muxed, Writing
<1>3. DemuxOK(Opened) /\ DemuxOK(Read)
  BY <1>1, ReadersOK DEF TypeInv
<1>4. /\ snap = SnapMade /\ at <= N /\ CutAt(out.frames, at)
      /\ \A n : n \in ended <=> EndedBy(n, at)
  BY <1>1, <1>2 DEF CutInv
<1>5. N \in Nat /\ at + 1 \in Nat /\ at + 1 <= N
  BY <1>1, <1>3, RangeType
<1>6. Kept(at + 1) = IF Asked(at + 1) THEN Append(Kept(at), at + 1) ELSE Kept(at)
  <2>1. Asked(at + 1) <=> at + 1 \in Wanted
    BY <1>3, WantedIs
  <2> QED BY <1>1, <2>1, KeptNext DEF Kept
<1> HIDE DEF p
<1>7. /\ Asked(at + 1) <=> (~Skipped(p) /\ ~BeforeRange(p) /\ ~AfterRange(p))
      /\ (Skipped(p) \/ BeforeRange(p) \/ ~AfterRange(p) \/ KindIn(p.track) # "video") =>
             \A n : n \in ended <=> EndedBy(n, at + 1)
      /\ (~Skipped(p) /\ ~BeforeRange(p) /\ AfterRange(p) /\ KindIn(p.track) = "video") =>
             \A n : n \in ended \cup {p.track} <=> EndedBy(n, at + 1)
  BY <1>1, <1>3, <1>4, ReadStep DEF p
<1>8. ASSUME at' = at + 1, pc' = "frames", CutAt(out'.frames, at + 1), out' # <<>>,
             \A n : n \in ended' <=> EndedBy(n, at + 1)
      PROVE  CutInv'
  <2>1. (/\ snap = SnapMade /\ at <= N /\ CutAt(out.frames, at)
         /\ \A n : n \in ended <=> EndedBy(n, at))'
    BY <1>1, <1>2, <1>4, <1>5, <1>8, CutMoves
  <2> QED BY <1>8, <2>1 DEF CutInv
<1>9. ASSUME ~Asked(at + 1), out' = out PROVE CutAt(out'.frames, at + 1)
  BY <1>4, <1>6, <1>9 DEF CutAt
<1>10. CASE Skipped(p) \/ BeforeRange(p)
  <2>1. at' = at + 1 /\ pc' = pc /\ ended' = ended /\ out' = out
    BY <1>10 DEF ReadFrame, p
  <2>2. ~Asked(at + 1) /\ \A n : n \in ended' <=> EndedBy(n, at + 1)
    BY <1>7, <1>10, <2>1
  <2>3. CutAt(out'.frames, at + 1)
    BY <1>9, <2>1, <2>2
  <2> QED BY <1>1, <1>2, <1>8, <2>1, <2>2, <2>3
<1>11. CASE ~(Skipped(p) \/ BeforeRange(p)) /\ AfterRange(p)
  <2>1. /\ at' = at + 1 /\ pc' = pc /\ out' = out
        /\ ended' = IF KindIn(p.track) = "video" THEN ended \cup {p.track} ELSE ended
    BY <1>11 DEF ReadFrame, p
  <2>2. ~Asked(at + 1) /\ \A n : n \in ended' <=> EndedBy(n, at + 1)
    BY <1>7, <1>11, <2>1
  <2>3. CutAt(out'.frames, at + 1)
    BY <1>9, <2>1, <2>2
  <2> QED BY <1>1, <1>2, <1>8, <2>1, <2>2, <2>3
<1>12. CASE ~(Skipped(p) \/ BeforeRange(p)) /\ ~AfterRange(p) /\ Accepts(fr)
  <2>1. /\ at' = at + 1 /\ pc' = pc /\ ended' = ended
        /\ out' = [out EXCEPT !.frames = Append(@, fr)]
    BY <1>12 DEF ReadFrame, p
  <2>2. Asked(at + 1) /\ \A n : n \in ended' <=> EndedBy(n, at + 1)
    BY <1>7, <1>12, <2>1
  <2>3. Copies(fr, p)
    BY DEF Copies
  <2> HIDE DEF fr
  <2> DEFINE fs == Append(out.frames, fr)
             ks == Kept(at + 1)
  <2>4. /\ Len(fs) = Len(out.frames) + 1 /\ Len(out.frames) \in Nat
        /\ fs[Len(out.frames) + 1] = fr
        /\ \A i \in 1 .. Len(out.frames) : fs[i] = out.frames[i]
    BY <1>2, SeqAppend DEF FramesOK, Extended
  <2>5. Kept(at) \in Seq(Nat) /\ Len(Kept(at)) = Len(out.frames)
    <3>1. Lists(Kept(at), at, Wanted)
      BY <1>1, KeptLists DEF Kept
    <3> QED BY <1>4, <3>1 DEF CutAt, Lists
  <2>6. /\ Len(ks) = Len(Kept(at)) + 1 /\ ks[Len(Kept(at)) + 1] = at + 1
        /\ \A i \in 1 .. Len(Kept(at)) : ks[i] = Kept(at)[i]
    BY <1>5, <1>6, <2>2, <2>5, AppendProperties
  <2> HIDE DEF fs, ks
  <2>7. ASSUME NEW i \in 1 .. Len(fs) PROVE Copies(fs[i], Read.packets[ks[i]])
    <3>1. CASE i \in 1 .. Len(out.frames)
      <4>1. Copies(out.frames[i], Read.packets[Kept(at)[i]])
        BY <1>4, <3>1 DEF CutAt
      <4>2. fs[i] = out.frames[i] /\ ks[i] = Kept(at)[i]
        BY <2>4, <2>5, <2>6, <3>1
      <4> QED BY <4>1, <4>2
    <3>2. CASE i = Len(out.frames) + 1
      <4>1. fs[i] = fr /\ ks[i] = at + 1
        BY <2>4, <2>5, <2>6, <3>2
      <4> QED BY <2>3, <4>1 DEF p
    <3>3. i \in 1 .. Len(out.frames) \/ i = Len(out.frames) + 1
      BY <2>4
    <3> QED BY <3>1, <3>2, <3>3
  <2>8. Len(fs) = Len(ks)
    BY <2>4, <2>5, <2>6
  <2>9. CutAt(fs, at + 1)
    BY <2>7, <2>8 DEF CutAt, ks
  <2>10. out' = [out EXCEPT !.frames = fs]
    BY <2>1 DEF fs
  <2>11. out'.frames = fs /\ DOMAIN out' = DOMAIN EmptyOutput
    BY <1>2, <2>10 DEF EmptyOutput
  <2>12. out' # <<>>
    BY <2>11, OutputIs
  <2>13. CutAt(out'.frames, at + 1)
    BY <2>9, <2>11
  <2> QED BY <1>1, <1>8, <2>1, <2>2, <2>12, <2>13
<1>13. CASE ~(Skipped(p) \/ BeforeRange(p)) /\ ~AfterRange(p) /\ ~Accepts(fr)
  <2>1. pc' = "failed" /\ at' = at /\ ended' = ended /\ out' = out
    BY <1>13 DEF ReadFrame, p
  <2> QED BY <1>1, <1>2, <2>1, CutKept DEF PC
<1> QED BY <1>10, <1>11, <1>12, <1>13

LEMMA CutStep ==
    ASSUME TypeInv, CutInv, [Next]_vars
    PROVE  CutInv'
<1> SUFFICES ASSUME (runs = 1)' PROVE CutInv'
  BY DEF CutInv
<1> USE DEF Fail
<1>1. CASE MuxCluster \/ MuxBlock \/ MuxTags \/ MuxEnds
  <2>1. pc = "mux" /\ runs' = runs
    BY <1>1 DEF MuxCluster, MuxBlock, MuxTags, MuxEnds, importing
  <2> QED BY <2>1 DEF TypeInv
<1>2. CASE Begin
  <2>1. /\ runs' = runs + 1 /\ pc' = "open" /\ out' = out
        /\ at' = 0 /\ snap' = [n \in {} |-> 0] /\ ended' = {}
    BY <1>2 DEF Begin
  <2>2. runs = 0
    BY <2>1 DEF TypeInv
  <2>3. out = <<>>
    BY <2>2 DEF TypeInv, OutInv
  <2> QED BY <2>1, <2>3 DEF CutInv
<1>3. ASSUME UNCHANGED <<muxed, opts, runs>>
      PROVE  /\ runs = 1 /\ demuxed' = demuxed
             /\ Ranged' <=> Ranged
             /\ SnapMade' = SnapMade
  <2>1. demuxed' = demuxed
    BY <1>3 DEF muxed
  <2>2. Videos' = Videos /\ (Ranged' <=> Ranged) /\ (\A n : LastKey(n)' = LastKey(n)) /\ Read' = Read
    BY <1>3, <2>1, CutStays, MappingStays
  <2> QED BY <1>3, <2>1, <2>2 DEF SnapMade
<1>4. CASE Open
  <2>1. /\ UNCHANGED <<muxed, opts, runs, at, snap, ended, out>> /\ pc = "open"
        /\ pc' = "failed" \/ pc' = IF Ranged THEN "scan" ELSE "create"
    BY <1>4 DEF Open
  <2>2. runs = 1 /\ (Ranged' <=> Ranged) /\ SnapMade' = SnapMade
    BY <1>3, <2>1
  <2>3. out = <<>> /\ at = 0 /\ ended = {} /\ snap = [n \in {} |-> 0]
    BY <2>1, <2>2 DEF CutInv
  <2>4. ~Ranged => SnapMade = [n \in {} |-> 0]
    BY DEF SnapMade
  <2> QED BY <2>1, <2>2, <2>3, <2>4 DEF CutInv
<1>5. CASE Scan
  <2>1. UNCHANGED <<muxed, opts, runs>> /\ pc = "scan"
    BY <1>5 DEF Scan
  <2>2. runs = 1 /\ (Ranged' <=> Ranged) /\ SnapMade' = SnapMade
    BY <1>3, <2>1
  <2>3. out = <<>> /\ at = 0 /\ ended = {} /\ Ranged
    BY <2>1, <2>2 DEF CutInv
  <2>4. \/ pc' = "failed" /\ UNCHANGED <<at, snap, ended, todo, out>>
        \/ pc' = "create" /\ UNCHANGED <<at, ended, todo, out>> /\ snap' = SnapMade
    <3> DEFINE last(n) == SelectLastInSeq(Read.packets,
                              LAMBDA p : p.track = n /\ p.key /\ p.ts <= FromTS)
               video == {n \in Numbers : Chosen(n) /\ \E k \in DOMAIN Opened.entries :
                           Opened.entries[k].number = n /\ Opened.entries[k].type = "video"}
    <3>1. \A n : last(n) = LastKey(n)
      BY DEF LastKey
    <3>2. video = Videos
      BY DEF Videos
    <3>3. \/ pc' = "failed" /\ UNCHANGED <<at, snap, ended, todo, out>>
          \/ /\ snap' = [n \in {v \in video : last(v) > 0} |-> Read.packets[last(n)].ts]
             /\ pc' = "create" /\ UNCHANGED <<at, ended, todo, out>>
      BY <1>5 DEF Scan
    <3> HIDE DEF last, video
    <3>4. [n \in {v \in video : last(v) > 0} |-> Read.packets[last(n)].ts] = SnapMade
      BY <2>3, <3>1, <3>2 DEF SnapMade
    <3> QED BY <3>3, <3>4
  <2> QED BY <2>2, <2>3, <2>4 DEF CutInv
<1>6. CASE Create
  <2>1. UNCHANGED <<muxed, opts, runs, at, snap, ended>> /\ pc = "create"
    BY <1>6 DEF Create
  <2>2. runs = 1 /\ demuxed' = demuxed
    BY <1>3, <2>1
  <2>3. out = <<>> /\ at = 0 /\ ended = {} /\ snap = SnapMade
    BY <2>1, <2>2 DEF CutInv
  <2>4. pc' = "tracks" /\ out' = EmptyOutput /\ out'.frames = <<>>
    BY <1>6, <2>3 DEF Create, EmptyOutput
  <2>5. DemuxOK(Opened) /\ DemuxOK(Read)
    BY <2>1, ReadersOK DEF TypeInv
  <2>6. 0 <= N /\ CutAt(<<>>, 0) /\ \A n : ~EndedBy(n, 0)
    BY <2>5, RangeType, CutStarts
  <2>7. at' = 0 /\ CutAt(out'.frames, 0) /\ (\A n : n \in ended' <=> EndedBy(n, 0)) /\ 0 <= N
    BY <2>1, <2>3, <2>4, <2>6
  <2>8. (/\ snap = SnapMade /\ at <= N /\ CutAt(out.frames, at)
         /\ \A n : n \in ended <=> EndedBy(n, at))'
    BY <2>1, <2>2, <2>3, <2>7, CutMoves
  <2> QED BY <2>1, <2>3, <2>4, <2>8 DEF CutInv
<1>7. pc \in Writing => DOMAIN out = DOMAIN EmptyOutput /\ out # <<>>
  BY DEF TypeInv, OutInv
<1>8. CASE AddTracks
  <2> DEFINE start == [name \in StartTag |-> {date + Epoch : date \in Opened.date}]
             made  == [out EXCEPT !.tracks = [k \in DOMAIN Mapped |-> MapTrack(Mapped[k], scale)]]
  <2>1. /\ pc = "tracks" /\ UNCHANGED <<muxed, opts, runs, at, snap, ended>>
        /\ \/ pc' = "tags" /\ out' = [made EXCEPT !.tags = start]
           \/ pc' = "failed" /\ out' \in {out, made}
    BY <1>8 DEF AddTracks
  <2>2. DOMAIN made = DOMAIN EmptyOutput /\ made.frames = out.frames
    BY <1>7, <2>1 DEF EmptyOutput, Writing
  <2> HIDE DEF made, start
  <2>3. DOMAIN out' = DOMAIN EmptyOutput /\ out'.frames = out.frames
    BY <1>7, <2>1, <2>2 DEF EmptyOutput, Writing
  <2>4. out # <<>> /\ out' # <<>> /\ demuxed' = demuxed
    BY <1>3, <1>7, <2>1, <2>3, OutputIs DEF Writing
  <2> QED BY <2>1, <2>3, <2>4, CutKept DEF PC
<1>9. CASE SetTag
  <2>1. /\ pc \in {"tags", "late"} /\ UNCHANGED <<muxed, opts, runs, at, snap, ended>>
        /\ \/ pc' = "failed" /\ out' = out
           \/ pc' = pc /\ \E map : out' = [out EXCEPT !.tags = map]
    BY <1>9 DEF SetTag
  <2>2. DOMAIN out' = DOMAIN EmptyOutput /\ out'.frames = out.frames
    BY <1>7, <2>1 DEF EmptyOutput, Writing
  <2>3. out # <<>> /\ out' # <<>> /\ demuxed' = demuxed
    BY <1>3, <1>7, <2>1, <2>2, OutputIs DEF Writing
  <2> QED BY <2>1, <2>2, <2>3, CutKept DEF PC
<1>10. CASE TagsSet \/ EndOfFile \/ Break \/ Finalize
  <2>1. /\ pc \in Writing /\ UNCHANGED <<muxed, opts, runs, at, snap, ended>>
        /\ out' = out \/ out' = [out EXCEPT !.final = TRUE]
        /\ pc' \in {"frames", "finalize", "failed", "late", "broken", "done"}
        /\ pc' \in {"late", "finalize", "done"} => pc \in {"late", "finalize", "done"} \/ at = N
    BY <1>10 DEF TagsSet, EndOfFile, Break, Finalize, Writing, N
  <2>2. DOMAIN out' = DOMAIN EmptyOutput /\ out'.frames = out.frames
    BY <1>7, <2>1 DEF EmptyOutput
  <2>3. out # <<>> /\ out' # <<>> /\ demuxed' = demuxed
    BY <1>3, <1>7, <2>1, <2>2, OutputIs
  <2> QED BY <2>1, <2>2, <2>3, CutKept DEF PC
<1>11. CASE ReadFrame
  BY <1>11, CutReads
<1>12. CASE UNCHANGED vars
  <2>1. UNCHANGED <<muxed, opts, runs, at, snap, ended, out, pc, demuxed>>
    BY <1>12 DEF vars, muxed
  <2>2. runs = 1 /\ (Ranged' <=> Ranged) /\ SnapMade' = SnapMade
    BY <1>3, <2>1
  <2>3. CASE out = <<>>
    <3>1. N' = N
      BY <2>1, CutStays
    <3> QED BY <2>1, <2>2, <2>3, <3>1 DEF CutInv
  <2>4. CASE out # <<>>
    <3>1. pc \notin {"open", "scan", "create"} /\ (pc \in {"tracks", "tags"} => at = 0 /\ ended = {})
      BY <2>2, <2>4 DEF CutInv
    <3>2. /\ snap = SnapMade /\ at <= N /\ CutAt(out.frames, at)
          /\ \A n : n \in ended <=> EndedBy(n, at)
      BY <2>2, <2>4 DEF CutInv
    <3>3. N' = N /\ (/\ snap = SnapMade /\ at <= N /\ CutAt(out.frames, at)
                     /\ \A n : n \in ended <=> EndedBy(n, at))'
      BY <2>1, <3>2, CutMoves
    <3>4. pc \in {"late", "finalize", "done"} => at = N
      BY <2>2 DEF CutInv
    <3> QED BY <2>1, <3>1, <3>3, <3>4 DEF CutInv
  <2> QED BY <2>3, <2>4
<1> QED BY <1>1, <1>2, <1>4, <1>5, <1>6, <1>8, <1>9, <1>10, <1>11, <1>12 DEF Next

\* WantedFrames by position.
LEMMA WantedFramesIs ==
    ASSUME DemuxOK(Read)
    PROVE  /\ Len(WantedFrames) = Len(Kept(N)) /\ Len(Kept(N)) \in Nat
           /\ \A i \in 1 .. Len(Kept(N)) : WantedFrames[i] = Read.packets[Kept(N)[i]]
<1>1. DOMAIN Read.packets = 1 .. N /\ N \in Nat
  BY IsSeqType DEF DemuxOK, PacketsOK, N
<1> DEFINE ks == Kept(N)
           F  == [i \in 1 .. Len(ks) |-> Read.packets[ks[i]]]
<1>2. Lists(ks, N, Wanted)
  BY <1>1, KeptLists DEF Kept
<1>3. ks \in Seq(Nat) /\ Len(ks) \in Nat /\ DOMAIN ks = 1 .. Len(ks)
  <2>1. ks \in Seq(Nat)
    BY <1>2 DEF Lists
  <2> QED BY <2>1, LenProperties
<1>4. WantedFrames = [i \in DOMAIN ks |-> Read.packets[ks[i]]]
  BY <1>1 DEF WantedFrames, Kept, Ids
<1> HIDE DEF ks
<1>5. WantedFrames = F
  BY <1>3, <1>4
<1>6. F = [i \in 1 .. Len(ks) |-> F[i]] /\ \A i \in 1 .. Len(ks) : F[i] = Read.packets[ks[i]]
  OBVIOUS
<1> HIDE DEF F
<1>7. Len(F) = Len(ks)
  BY <1>3, <1>6, IsSeqFunction
<1> QED BY <1>3, <1>5, <1>6, <1>7 DEF ks

\* A video track in decoding order starts with the keyframe that pass 1 has found.
LEMMA StartsWithKeyframe ==
    ASSUME TypeInv, DemuxOK(Opened), DemuxOK(Read), Ranged, snap = SnapMade, at <= N,
           CutAt(out.frames, at), FramesOK(out.frames), NEW n \in DOMAIN snap,
           KindIn(n) = "video", snap[n] >= 0, Decodable(n),
           NEW k \in 1 .. Len(out.frames), out.frames[k].track = n,
           \A j \in 1 .. Len(out.frames) : out.frames[j].track = n => k <= j
    PROVE  out.frames[k].key
<1> DEFINE P  == Read.packets
           ks == Kept(at)
           w  == ks[k]
           s  == LastKey(n)
           I  == {j \in 1 .. N : P[j].track = n /\ P[j].key /\ P[j].ts <= FromTS}
<1>1. /\ FromTS \in Int /\ ToTS \in Int /\ N \in Nat /\ at \in Nat
      /\ \A j \in 1 .. N : P[j].ts \in Int /\ P[j].key \in BOOLEAN
      /\ StartOf(n) \in Int
  BY RangeType DEF TypeInv
<1>2. n \in Videos /\ LastKey(n) > 0 /\ snap[n] = P[s].ts
  BY DEF SnapMade
<1>3. s \in I /\ \A j \in I : j <= s
  <2>1. s # 0
    BY <1>2
  <2> QED BY <1>1, <2>1, LastKeyIs
<1>4. StartOf(n) = P[s].ts
  BY <1>2 DEF StartOf
<1>5. /\ s \in 1 .. N /\ P[s].track = n /\ P[s].key /\ P[s].ts <= FromTS /\ P[s].ts >= 0
  BY <1>2, <1>3
<1> HIDE DEF s, I
<1>6. Lists(ks, at, Wanted) /\ Len(out.frames) = Len(ks)
  BY <1>1, KeptLists DEF Kept, CutAt
<1>7. \A i \in 1 .. Len(out.frames) :
         /\ out.frames[i].track = P[ks[i]].track /\ out.frames[i].key = P[ks[i]].key
         /\ ks[i] \in 1 .. at /\ Asked(ks[i])
  <2> SUFFICES ASSUME NEW i \in 1 .. Len(out.frames)
               PROVE  /\ out.frames[i].track = P[ks[i]].track /\ out.frames[i].key = P[ks[i]].key
                      /\ ks[i] \in 1 .. at /\ Asked(ks[i])
    OBVIOUS
  <2>1. Copies(out.frames[i], P[ks[i]])
    BY DEF CutAt
  <2>2. ks[i] \in 1 .. at /\ ks[i] \in Wanted
    BY <1>6 DEF Lists
  <2>3. Asked(ks[i])
    BY <2>2, WantedIs
  <2> QED BY <2>1, <2>2, <2>3 DEF Copies
<1>8. w \in 1 .. at /\ w \in 1 .. N /\ P[w].track = n /\ Asked(w)
  <2>1. w \in 1 .. at /\ P[w].track = n /\ Asked(w)
    BY <1>7
  <2> QED BY <1>1, <2>1
<1>9. P[w].ts >= StartOf(n) /\ (ToTS > 0 => ~Over(n, w))
  BY <1>8 DEF Asked
<1>10. HasID(n)
  BY <1>8 DEF Asked
<1> HIDE DEF w
<1>11. CASE w = s
  <2>1. out.frames[k].key = P[s].key
    BY <1>7, <1>11 DEF w
  <2> QED BY <1>5, <2>1
<1>12. CASE w < s
  <2>1. P[w].ts < P[s].ts
    <3>1. w \in DOMAIN P /\ s \in DOMAIN P
      BY <1>5, <1>8, IsSeqType DEF DemuxOK, PacketsOK, N
    <3> QED BY <1>5, <1>8, <1>12, <3>1 DEF Decodable
  <2> QED BY <1>1, <1>4, <1>5, <1>8, <1>9, <2>1
<1>13. CASE s < w
  <2>1. ToTS > 0 => ~Over(n, s)
    <3> SUFFICES ASSUME ToTS > 0, NEW j \in 1 .. s, Ends(n, j) PROVE FALSE
      BY DEF Over
    <3>1. j \in 1 .. w
      BY <1>5, <1>8, <1>13
    <3>2. Over(n, w)
      BY <3>1 DEF Over
    <3> QED BY <1>9, <3>2
  <2>2. Asked(s)
    BY <1>1, <1>4, <1>5, <1>10, <2>1 DEF Asked
  <2>3. s \in Wanted /\ s \in 1 .. at
    BY <1>1, <1>5, <1>8, <1>13, <2>2, WantedIs
  <2>4. PICK i \in 1 .. Len(ks) : ks[i] = s
    BY <1>6, <2>3 DEF Lists
  <2>5. out.frames[i].track = n /\ i \in 1 .. Len(out.frames)
    BY <1>5, <1>6, <1>7, <2>4
  <2>6. k <= i
    BY <2>5
  <2>7. k < i => ks[k] < ks[i]
    BY <1>6, <2>4 DEF Lists
  <2>8. k \in Int /\ i \in Int /\ Len(ks) \in Nat
    BY <1>6 DEF Lists
  <2>9. ks[k] = w
    BY DEF w
  <2> QED BY <1>5, <1>8, <1>13, <2>4, <2>6, <2>7, <2>8, <2>9
<1>14. w < s \/ w = s \/ s < w
  BY <1>1, <1>5, <1>8
<1> QED BY <1>11, <1>12, <1>13, <1>14

\* CutInv always holds.
LEMMA CutAlways == Spec => []CutInv
<1>1. Init => CutInv
  BY DEF Init, CutInv
<1>2. TypeInv /\ CutInv /\ [Next]_vars => CutInv'
  BY CutStep
<1> QED BY <1>1, <1>2, TypeAlways, PTL DEF Spec

\* The first run of Import writes what the options ask for: a beginning of it when it
\* fails, all of it when it returns.
THEOREM ImportCutCorrect == Spec => []ImportCut
<1>1. TypeInv /\ CutInv => ImportCut
  <2> SUFFICES ASSUME TypeInv, CutInv, pc \in {"done", "failed", "broken"}, out # <<>>, runs = 1
               PROVE  /\ Len(out.frames) <= Len(WantedFrames)
                      /\ \A k \in DOMAIN out.frames :
                            /\ out.frames[k].track = WantedFrames[k].track
                            /\ out.frames[k].pts = WantedFrames[k].ts
                            /\ out.frames[k].key = WantedFrames[k].key
                            /\ out.frames[k].data = WantedFrames[k].data
                            /\ KindIn(out.frames[k].track) = "data" =>
                                   out.frames[k].dur = WantedFrames[k].dur
                      /\ pc = "done" => Len(out.frames) = Len(WantedFrames)
                      /\ Ranged => \A n \in DOMAIN snap :
                            LET k == SelectInSeq(out.frames, LAMBDA fr : fr.track = n)
                            IN  (k > 0 /\ KindIn(n) = "video" /\ snap[n] >= 0 /\ Decodable(n)) =>
                                    out.frames[k].key
    BY DEF ImportCut
  <2>1. DemuxOK(Opened) /\ DemuxOK(Read)
    BY ReadersOK DEF TypeInv
  <2>2. /\ snap = SnapMade /\ at <= N /\ CutAt(out.frames, at)
        /\ pc = "done" => at = N
    BY DEF CutInv
  <2>3. FramesOK(out.frames)
    BY DEF TypeInv, OutInv
  <2>4. /\ Len(out.frames) \in Nat /\ DOMAIN out.frames = 1 .. Len(out.frames)
        /\ Len(out.frames) = Len(Kept(at))
    BY <2>2, <2>3, IsSeqType DEF FramesOK, CutAt
  <2>5. at \in Nat /\ N \in Nat
    BY <2>1, RangeType DEF TypeInv
  <2>6. Begins(Kept(at), Kept(N))
    BY <2>2, <2>5, KeptBegins DEF Kept
  <2>7. /\ Len(WantedFrames) = Len(Kept(N)) /\ Len(Kept(N)) \in Nat
        /\ \A i \in 1 .. Len(Kept(N)) : WantedFrames[i] = Read.packets[Kept(N)[i]]
    BY <2>1, WantedFramesIs
  <2>8. ASSUME NEW k \in DOMAIN out.frames PROVE Copies(out.frames[k], WantedFrames[k])
    <3>1. Copies(out.frames[k], Read.packets[Kept(at)[k]])
      BY <2>2, <2>4 DEF CutAt
    <3>2. k \in 1 .. Len(Kept(N)) /\ Kept(N)[k] = Kept(at)[k]
      BY <2>4, <2>6, <2>7 DEF Begins
    <3> QED BY <2>7, <3>1, <3>2
  <2>9. ASSUME Ranged, NEW n \in DOMAIN snap, NEW k,
               k = SelectInSeq(out.frames, LAMBDA fr : fr.track = n),
               k > 0, KindIn(n) = "video", snap[n] >= 0, Decodable(n)
        PROVE  out.frames[k].key
    <3> DEFINE I == {i \in 1 .. Len(out.frames) : out.frames[i].track = n}
    <3>1. k = IF I # {} THEN Min(I) ELSE 0
      BY <2>9 DEF SelectInSeq
    <3>2. I \subseteq 1 .. Len(out.frames)
      OBVIOUS
    <3>3. k # 0
      BY <2>9
    <3>4. k \in I /\ \A j \in I : k <= j
      <4> HIDE DEF I
      <4> QED BY <2>4, <3>1, <3>2, <3>3, FirstWhere
    <3> QED BY <2>1, <2>2, <2>3, <2>9, <3>4, StartsWithKeyframe
  <2>10. Len(out.frames) <= Len(WantedFrames)
    BY <2>4, <2>6, <2>7 DEF Begins
  <2>11. pc = "done" => Len(out.frames) = Len(WantedFrames)
    BY <2>2, <2>4, <2>7
  <2> QED BY <2>8, <2>9, <2>10, <2>11 DEF Copies
<1> QED BY <1>1, TypeAlways, CutAlways, PTL

-----------------------------------------------------------------------------
(* Sums.                                                                   *)

\* f follows the sums of the first n members of s.
Sums(f, s, n) == f[0] = 0 /\ \A k \in 1 .. n : f[k] = f[k - 1] + s[k]

\* SumTo is such a recursion.
LEMMA SumRecursion ==
    ASSUME NEW s, NEW n \in Nat
    PROVE  \E f : Sums(f, s, n) /\ SumTo(s, n) = f[n]
<1> DEFINE Body(f, m) == [k \in 0 .. m |-> IF k = 0 THEN 0 ELSE f[k - 1] + s[k]]
           Solvable == {m \in Nat : \E f : f = Body(f, m)}
<1>1. 0 \in Solvable
  <2> DEFINE f == [k \in 0 .. 0 |-> 0]
  <2>1. f = Body(f, 0)
    OBVIOUS
  <2>2. \E h : h = Body(h, 0)
    <3> HIDE DEF f, Body
    <3> QED BY <2>1
  <2> QED BY <2>2
<1>2. ASSUME NEW m \in Nat, m \in Solvable PROVE m + 1 \in Solvable
  <2>1. PICK f : f = Body(f, m)
    BY <1>2
  <2> DEFINE last == f[m] + s[m + 1]
             g == [k \in 0 .. m + 1 |-> IF k = m + 1 THEN last ELSE f[k]]
  <2>2. \A k \in 0 .. m + 1 : g[k] = Body(g, m + 1)[k]
    <3> SUFFICES ASSUME NEW k \in 0 .. m + 1 PROVE g[k] = Body(g, m + 1)[k]
      OBVIOUS
    <3>1. CASE k = m + 1
      <4>1. g[k - 1] = f[m] /\ g[k] = last
        BY <3>1
      <4> QED BY <3>1, <4>1
    <3>2. CASE k # m + 1
      <4>1. k \in 0 .. m /\ g[k] = f[k] /\ (k # 0 => g[k - 1] = f[k - 1])
        BY <3>2
      <4>2. f[k] = IF k = 0 THEN 0 ELSE f[k - 1] + s[k]
        BY <2>1, <4>1
      <4> QED BY <4>1, <4>2
    <3> QED BY <3>1, <3>2
  <2>3. g = Body(g, m + 1)
    BY <2>2
  <2>4. \E h : h = Body(h, m + 1)
    <3> HIDE DEF g, Body
    <3> QED BY <2>3
  <2> QED BY <2>4
<1>3. n \in Solvable
  <2> HIDE DEF Solvable
  <2> QED BY <1>1, <1>2, NatSetInduction
<1> DEFINE sum == CHOOSE f : f = Body(f, n)
<1>4. sum = Body(sum, n)
  <2>1. \E f : f = Body(f, n)
    BY <1>3
  <2> HIDE DEF Body
  <2> QED BY <2>1
<1>5. SumTo(s, n) = sum[n]
  BY DEF SumTo
<1> HIDE DEF sum
<1>6. Sums(sum, s, n)
  <2>1. sum[0] = 0
    BY <1>4
  <2>2. \A k \in 1 .. n : sum[k] = sum[k - 1] + s[k]
    <3> SUFFICES ASSUME NEW k \in 1 .. n PROVE sum[k] = sum[k - 1] + s[k]
      OBVIOUS
    <3>1. k \in 0 .. n /\ k # 0
      OBVIOUS
    <3> QED BY <1>4, <3>1
  <2> QED BY <2>1, <2>2 DEF Sums
<1> QED BY <1>5, <1>6

\* Sums of the same numbers are the same.
LEMMA SumsAgree ==
    ASSUME NEW n \in Nat, NEW s, NEW t, \A k \in 1 .. n : s[k] = t[k],
           NEW f, Sums(f, s, n), NEW g, Sums(g, t, n)
    PROVE  f[n] = g[n]
<1> DEFINE Same == {k \in Nat : k <= n => f[k] = g[k]}
<1>1. 0 \in Same
  BY DEF Sums
<1>2. ASSUME NEW k \in Nat, k \in Same PROVE k + 1 \in Same
  <2> SUFFICES ASSUME k + 1 <= n PROVE f[k + 1] = g[k + 1]
    OBVIOUS
  <2>1. k + 1 \in 1 .. n /\ (k + 1) - 1 = k /\ f[k] = g[k]
    BY <1>2
  <2> QED BY <2>1 DEF Sums
<1>3. n \in Same
  <2> HIDE DEF Same
  <2> QED BY <1>1, <1>2, NatSetInduction
<1> QED BY <1>3

\* Equal members, equal sums.
LEMMA SumToSame ==
    ASSUME NEW n \in Nat, NEW s, NEW t, \A k \in 1 .. n : s[k] = t[k]
    PROVE  SumTo(s, n) = SumTo(t, n)
<1>1. PICK f : Sums(f, s, n) /\ SumTo(s, n) = f[n]
  BY SumRecursion
<1>2. PICK g : Sums(g, t, n) /\ SumTo(t, n) = g[n]
  BY SumRecursion
<1> QED BY <1>1, <1>2, SumsAgree

\* The sum up to the next member.
LEMMA SumToNext ==
    ASSUME NEW n \in Nat, NEW s
    PROVE  SumTo(s, n + 1) = SumTo(s, n) + s[n + 1]
<1>1. PICK f : Sums(f, s, n + 1) /\ SumTo(s, n + 1) = f[n + 1]
  BY SumRecursion
<1>2. PICK g : Sums(g, s, n) /\ SumTo(s, n) = g[n]
  BY SumRecursion
<1>3. Sums(f, s, n) /\ f[n + 1] = f[n] + s[n + 1]
  <2>1. 1 .. n \subseteq 1 .. n + 1 /\ n + 1 \in 1 .. n + 1 /\ (n + 1) - 1 = n
    OBVIOUS
  <2> QED BY <1>1, <2>1 DEF Sums
<1>4. f[n] = g[n]
  BY <1>2, <1>3, SumsAgree
<1> QED BY <1>1, <1>2, <1>3, <1>4

\* Sums of sizes grow.
LEMMA SumToNat ==
    ASSUME NEW n \in Nat, NEW s, \A k \in 1 .. n : s[k] \in Nat
    PROVE  \A k \in 0 .. n : SumTo(s, k) \in Nat /\ SumTo(s, k) <= SumTo(s, n)
<1> DEFINE Good == {k \in Nat : k <= n => SumTo(s, k) \in Nat
                                 /\ \A j \in 0 .. k : SumTo(s, j) \in Nat /\ SumTo(s, j) <= SumTo(s, k)}
<1>1. 0 \in Good
  <2>1. SumTo(s, 0) = 0
    BY SumToZero
  <2> QED BY <2>1
<1>2. ASSUME NEW k \in Nat, k \in Good PROVE k + 1 \in Good
  <2> SUFFICES ASSUME k + 1 <= n PROVE k + 1 \in Good
    OBVIOUS
  <2>1. /\ SumTo(s, k) \in Nat /\ s[k + 1] \in Nat
        /\ \A j \in 0 .. k : SumTo(s, j) \in Nat /\ SumTo(s, j) <= SumTo(s, k)
    BY <1>2
  <2>2. SumTo(s, k + 1) = SumTo(s, k) + s[k + 1]
    BY SumToNext
  <2>3. \A j \in 0 .. k + 1 : j \in 0 .. k \/ j = k + 1
    OBVIOUS
  <2>4. ASSUME NEW j \in 0 .. k + 1 PROVE SumTo(s, j) \in Nat /\ SumTo(s, j) <= SumTo(s, k + 1)
    <3>1. CASE j = k + 1
      BY <2>1, <2>2, <3>1
    <3>2. CASE j \in 0 .. k
      BY <2>1, <2>2, <3>2
    <3> QED BY <2>3, <3>1, <3>2
  <2>5. SumTo(s, k + 1) \in Nat
    BY <2>1, <2>2
  <2> QED BY <2>4, <2>5
<1>3. n \in Good
  <2> HIDE DEF Good
  <2> QED BY <1>1, <1>2, NatSetInduction
<1> QED BY <1>3

-----------------------------------------------------------------------------
(* Blocks.                                                                 *)

\* The sizes that a lacing writes down; the last follows from the length.
SizesCoded(b) ==
    LET n == Len(b.sizes)
    IN  CASE b.lacing = "xiph" -> SubSeq(b.sizes, 1, n - 1)
          [] b.lacing = "ebml" ->
                [i \in 1 .. n - 1 |-> b.sizes[i] - (IF i = 1 THEN 0 ELSE b.sizes[i - 1])]
          [] OTHER -> <<>>

\* What the muxer puts into a block, and with it.
EncodedAs(c, b, rest) ==
    /\ IsBlock(c)
    /\ c.block = Payload(b.track, b.rel, b.lacing, Len(b.sizes), SizesCoded(b), b.vint, rest)
    /\ KeyOf(c) = b.key /\ DurOf(c) = b.dur
    /\ IF b.group THEN c.el = "group" /\ (c.hasBlock <=> Len(b.sizes) > 0)
       ELSE c.el = "simple" /\ Len(b.sizes) > 0

\* The muxer's blocks, see MuxerAssumption.
BlockOK(b) ==
    LET n == Len(b.sizes)
    IN  /\ b.rel \in Int /\ b.key \in BOOLEAN /\ b.group \in BOOLEAN /\ b.dur \in Nat
        /\ b.lacing \in {"none", "xiph", "ebml", "fixed"} /\ b.sizes \in Seq(Nat)
        /\ b.vint \in 0 .. SumTo(b.sizes, n)
        /\ ~b.group => n > 0 /\ b.dur = 0
        /\ b.lacing = "none" => n <= 1
        /\ (b.lacing = "fixed" /\ n > 0 /\ SumTo(b.sizes, n) % n = 0) =>
              \A i \in 1 .. n : b.sizes[i] * n = SumTo(b.sizes, n)

\* All blocks tried are such.
LEMMA BlocksOK == \A b \in Blocks : BlockOK(b)
BY MuxerAssumption DEF BlockOK

\* Encode writes what EncodedAs says.
LEMMA EncodeIs ==
    ASSUME NEW b, BlockOK(b), NEW rest
    PROVE  EncodedAs(Encode(b, rest), b, rest)
<1> DEFINE n == Len(b.sizes)
           block == Payload(b.track, b.rel, b.lacing, n, SizesCoded(b), b.vint, rest)
           c == Encode(b, rest)
<1>1. c = IF b.group THEN BlockGroup(n > 0, ~b.key, b.dur, block) ELSE SimpleBlock(b.key, block)
  BY DEF Encode, SizesCoded
<1>2. b.key \in BOOLEAN /\ b.group \in BOOLEAN /\ (~b.group => n > 0 /\ b.dur = 0)
  BY DEF BlockOK
<1> HIDE DEF block, n, c
<1>3. CASE b.group
  <2>1. c.el = "group" /\ c.hasBlock = (n > 0) /\ c.ref = ~b.key /\ c.dur = b.dur /\ c.block = block
    BY <1>1, <1>3 DEF BlockGroup
  <2>2. KeyOf(c) = ~(~b.key) /\ DurOf(c) = b.dur /\ IsBlock(c)
    BY <2>1 DEF KeyOf, DurOf, IsBlock
  <2>3. KeyOf(c) = b.key
    BY <1>2, <2>2
  <2> QED BY <1>3, <2>1, <2>2, <2>3 DEF EncodedAs, block, n, c
<1>4. CASE ~b.group
  <2>1. c.el = "simple" /\ c.key = b.key /\ c.block = block
    BY <1>1, <1>4 DEF SimpleBlock
  <2>2. KeyOf(c) = b.key /\ DurOf(c) = b.dur /\ IsBlock(c)
    BY <1>2, <1>4, <2>1 DEF KeyOf, DurOf, IsBlock
  <2> QED BY <1>2, <1>4, <2>1, <2>2 DEF EncodedAs, block, n, c
<1> QED BY <1>2, <1>3, <1>4

\* A single frame in EBML lacing, of which a reader takes the beginning for a size.
Single(b) == b.lacing = "ebml" /\ Len(b.sizes) = 1
LostOf(b) == IF Single(b) THEN b.vint ELSE 0

\* The lacing of a block is not broken.
Laceable(b, rest) ==
    /\ BlockOK(b) /\ Len(b.sizes) > 0 /\ Len(rest) = SumTo(b.sizes, Len(b.sizes))
    /\ ~(Single(b) /\ b.vint = 0)
    /\ b.lacing = "fixed" => Len(rest) % Len(b.sizes) = 0

\* The sizes of all frames but the last, however they are coded.
Leads(s, sizes) ==
    /\ DOMAIN s = 1 .. Len(sizes) - 1 /\ Len(s) = Len(sizes) - 1
    /\ \A i \in 1 .. Len(sizes) - 1 : s[i] = sizes[i]

\* A reader decodes the sizes that the muxer wrote, of every lacing.
LEMMA LeadingIs ==
    ASSUME NEW b, NEW rest, Laceable(b, rest), NEW c, EncodedAs(c, b, rest)
    PROVE  Leads(LeadingSizes(c.block), b.sizes)
<1> DEFINE n == Len(b.sizes)
           s == LeadingSizes(c.block)
<1>1. /\ c.block.lacing = b.lacing /\ c.block.count = n /\ c.block.rest = rest
      /\ c.block.coded = SizesCoded(b)
  BY DEF EncodedAs, Payload
<1>2. n \in Nat /\ n > 0 /\ b.sizes \in Seq(Nat) /\ b.lacing \in {"none", "xiph", "ebml", "fixed"}
  BY LenProperties DEF Laceable, BlockOK
<1>3. \A i \in 1 .. n : b.sizes[i] \in Nat
  BY <1>2, ElementOfSeq
<1>4. CASE b.lacing = "none"
  <2>1. s = <<>> /\ n = 1
    <3>1. n <= 1
      BY <1>4 DEF Laceable, BlockOK
    <3>2. s = <<>>
      BY <1>1, <1>4 DEF LeadingSizes
    <3>3. n = 1
      <4> HIDE DEF n
      <4> QED BY <1>2, <3>1
    <3> QED BY <3>2, <3>3
  <2> HIDE DEF s, n
  <2>2. DOMAIN s = 1 .. n - 1 /\ Len(s) = n - 1 /\ 1 .. n - 1 = {}
    BY <2>1
  <2> QED BY <2>2 DEF Leads, s, n
<1>5. CASE b.lacing = "xiph"
  <2>1. s = SubSeq(b.sizes, 1, n - 1)
    BY <1>1, <1>5 DEF LeadingSizes, SizesCoded
  <2> HIDE DEF s, n
  <2>2. n - 1 \in Nat
    BY <1>2
  <2>3. s = [i \in 1 .. n - 1 |-> b.sizes[i]]
    BY <1>2, <1>3, <2>1, <2>2 DEF n
  <2>4. Len(s) = n - 1
    BY <2>2, <2>3, IsSeqFunction
  <2> QED BY <2>3, <2>4 DEF Leads, s, n
<1>6. CASE b.lacing = "ebml"
  <2> DEFINE coded == [i \in 1 .. n - 1 |-> b.sizes[i] - (IF i = 1 THEN 0 ELSE b.sizes[i - 1])]
  <2>1. SizesCoded(b) = coded
    BY <1>6 DEF SizesCoded
  <2>2. s = [i \in 1 .. n - 1 |-> SumTo(coded, i)]
    BY <1>1, <1>6, <2>1 DEF LeadingSizes
  <2>3. n - 1 \in Nat
    BY <1>2
  <2>4. \A i \in 1 .. n - 1 : SumTo(coded, i) = b.sizes[i]
    <3> DEFINE Same == {k \in Nat : k \in 1 .. n - 1 => SumTo(coded, k) = b.sizes[k]}
    <3>1. 0 \in Same
      OBVIOUS
    <3>2. ASSUME NEW k \in Nat, k \in Same PROVE k + 1 \in Same
      <4> SUFFICES ASSUME k + 1 \in 1 .. n - 1 PROVE SumTo(coded, k + 1) = b.sizes[k + 1]
        OBVIOUS
      <4>1. SumTo(coded, k + 1) = SumTo(coded, k) + coded[k + 1]
        <5> HIDE DEF coded
        <5> QED BY SumToNext
      <4>2. coded[k + 1] = b.sizes[k + 1] - (IF k + 1 = 1 THEN 0 ELSE b.sizes[(k + 1) - 1])
        OBVIOUS
      <4>3. b.sizes[k + 1] \in Nat
        BY <1>2, <1>3
      <4>4. CASE k = 0
        <5>1. SumTo(coded, k) = 0
          BY <4>4, SumToZero
        <5> HIDE DEF coded
        <5> QED BY <4>1, <4>2, <4>3, <4>4, <5>1
      <4>5. CASE k # 0
        <5>1. SumTo(coded, k) = b.sizes[k] /\ b.sizes[k] \in Nat /\ (k + 1) - 1 = k
          BY <1>2, <1>3, <3>2, <4>5
        <5> HIDE DEF coded
        <5> QED BY <4>1, <4>2, <4>3, <4>5, <5>1
      <4> QED BY <4>4, <4>5
    <3>3. Nat \subseteq Same
      <4> HIDE DEF Same
      <4> QED BY <3>1, <3>2, NatSetInduction
    <3>4. \A k \in 1 .. n - 1 : k \in Same
      <4> HIDE DEF Same
      <4> QED BY <1>2, <3>3
    <3> HIDE DEF coded
    <3> QED BY <3>4
  <2> HIDE DEF coded, s
  <2>5. DOMAIN s = 1 .. n - 1 /\ \A i \in 1 .. n - 1 : s[i] = b.sizes[i]
    BY <2>2, <2>4
  <2>6. Len(s) = n - 1
    <3>1. s = [i \in 1 .. n - 1 |-> s[i]]
      BY <2>2
    <3> QED BY <2>3, <3>1, IsSeqFunction
  <2> QED BY <2>5, <2>6 DEF Leads, s
<1>7. CASE b.lacing = "fixed"
  <2>1. s = [i \in 1 .. n - 1 |-> Len(rest) \div n]
    BY <1>1, <1>7 DEF LeadingSizes
  <2>2. n - 1 \in Nat
    BY <1>2
  <2>3. \A i \in 1 .. n : b.sizes[i] * n = Len(rest)
    BY <1>2, <1>7 DEF Laceable, BlockOK
  <2>4. ASSUME NEW i \in 1 .. n PROVE Len(rest) \div n = b.sizes[i]
    <3>1. b.sizes[i] * n = Len(rest) /\ b.sizes[i] \in Nat
      BY <1>3, <2>3
    <3> HIDE DEF n
    <3> DEFINE v == b.sizes[i]
               L == Len(rest)
    <3>2. v * n = L /\ v \in Nat /\ n \in Nat /\ n > 0
      BY <1>2, <3>1
    <3> HIDE DEF v, L
    <3>3. L \div n = v
      BY <3>2
    <3> QED BY <3>3 DEF v, L
  <2> HIDE DEF s, n
  <2>5. DOMAIN s = 1 .. n - 1 /\ \A i \in 1 .. n - 1 : s[i] = b.sizes[i]
    <3>1. \A i \in 1 .. n - 1 : i \in 1 .. n
      BY <1>2
    <3> QED BY <2>1, <2>4, <3>1
  <2>6. Len(s) = n - 1
    <3>1. s = [i \in 1 .. n - 1 |-> s[i]]
      BY <2>1
    <3> QED BY <2>2, <3>1, IsSeqFunction
  <2> QED BY <2>5, <2>6 DEF Leads, s, n
<1> QED BY <1>2, <1>4, <1>5, <1>6, <1>7

\* The payload of frame i of a block.
DataOf(b, rest, i) == SubSeq(rest, SumTo(b.sizes, i - 1) + 1, SumTo(b.sizes, i))

\* What a reader gets of it.
DataRead(b, rest, i) == SubSeq(rest, LostOf(b) + SumTo(b.sizes, i - 1) + 1, SumTo(b.sizes, i))

\* A part of a sequence.
LEMMA PartIs ==
    ASSUME NEW S, NEW r, NEW u \in Int, NEW v \in Int, u <= v + 1,
           \A i \in u .. v : r[i] \in S, NEW x, x = SubSeq(r, u, v)
    PROVE  /\ x \in Seq(S) /\ Len(x) = v - u + 1
           /\ \A i \in 1 .. v - u + 1 : x[i] = r[u + i - 1]
<1>1. /\ x \in Seq(S) /\ Len(x) = IF u <= v THEN v - u + 1 ELSE 0
      /\ \A i \in 1 .. v - u + 1 : x[i] = r[u + i - 1]
  BY SubSeqProperties
<1>2. (IF u <= v THEN v - u + 1 ELSE 0) = v - u + 1
  OBVIOUS
<1> QED BY <1>1, <1>2

\* The end of a sequence.
LEMMA EndIs ==
    ASSUME NEW S, NEW d, NEW v \in Nat, \A i \in 1 .. v : d[i] \in S, NEW l \in Nat, l <= v,
           NEW u, u = l + 1, NEW x, x = SubSeq(d, u, v)
    PROVE  /\ x \in Seq(S) /\ Len(x) = v - l
           /\ \A i \in 1 .. v - l : x[i] = d[l + i]
<1>1. u \in Int /\ v \in Int /\ u <= v + 1 /\ \A i \in u .. v : d[i] \in S
  OBVIOUS
<1>2. v - u + 1 = v - l /\ \A i \in 1 .. v - l : u + i - 1 = l + i
  OBVIOUS
<1>3. x \in Seq(S) /\ Len(x) = v - u + 1 /\ \A i \in 1 .. v - u + 1 : x[i] = d[u + i - 1]
  BY <1>1, PartIs
<1> QED BY <1>2, <1>3

\* The end of a part d of a sequence r is a part of it.
LEMMA EndOfPart ==
    ASSUME NEW S, NEW r, NEW a \in Nat, NEW e \in Nat, NEW l \in Nat, a + l <= e,
           NEW d, NEW v, v = e - a, \A i \in 1 .. v : d[i] = r[a + i] /\ d[i] \in S,
           \A i \in a + 1 .. e : r[i] \in S, NEW u, u = l + 1, NEW w, w = l + a + 1
    PROVE  SubSeq(d, u, v) = SubSeq(r, w, e)
<1> DEFINE x == SubSeq(d, u, v)
           y == SubSeq(r, w, e)
           m == v - l
<1>1. m \in Nat /\ v \in Nat /\ l <= v
  OBVIOUS
<1>2. x \in Seq(S) /\ Len(x) = m /\ \A i \in 1 .. m : x[i] = d[l + i]
  <2>1. x = SubSeq(d, u, v)
    OBVIOUS
  <2> HIDE DEF x
  <2> QED BY <1>1, <2>1, EndIs
<1>3. y \in Seq(S) /\ Len(y) = e - w + 1 /\ \A i \in 1 .. e - w + 1 : y[i] = r[w + i - 1]
  <2>1. w \in Int /\ e \in Int /\ w <= e + 1 /\ \A i \in w .. e : r[i] \in S
    OBVIOUS
  <2>2. y = SubSeq(r, w, e)
    OBVIOUS
  <2> HIDE DEF y
  <2> QED BY <2>1, <2>2, PartIs
<1>4. e - w + 1 = m /\ \A i \in 1 .. m : w + i - 1 = a + (l + i) /\ l + i \in 1 .. v
  OBVIOUS
<1> HIDE DEF x, y, m
<1>5. \A i \in 1 .. m : x[i] = y[i]
  <2> SUFFICES ASSUME NEW i \in 1 .. m PROVE x[i] = y[i]
    OBVIOUS
  <2>1. x[i] = d[l + i] /\ d[l + i] = r[a + (l + i)]
    BY <1>2, <1>4
  <2>2. y[i] = r[w + i - 1] /\ w + i - 1 = a + (l + i)
    BY <1>3, <1>4
  <2> QED BY <2>1, <2>2
<1>6. x = y
  BY <1>1, <1>2, <1>3, <1>4, <1>5, SeqEqual
<1> QED BY <1>6 DEF x, y

\* A reader gets a frame without what it takes for a size.
LEMMA DataReadIs ==
    ASSUME NEW b, NEW rest, Laceable(b, rest), NEW i \in 1 .. Len(b.sizes),
           NEW d, d = DataOf(b, rest, i)
    PROVE  DataRead(b, rest, i) = SubSeq(d, LostOf(b) + 1, Len(d))
<1> DEFINE n == Len(b.sizes)
           a == SumTo(b.sizes, i - 1)
           e == SumTo(b.sizes, i)
           l == LostOf(b)
<1>1. n \in Nat /\ b.sizes \in Seq(Nat) /\ b.vint \in 0 .. SumTo(b.sizes, n)
  BY LenProperties DEF Laceable, BlockOK
<1>2. \A k \in 1 .. n : b.sizes[k] \in Nat
  BY <1>1, ElementOfSeq
<1> HIDE DEF n
<1>3. i \in Nat /\ i - 1 \in 0 .. i /\ i \in 0 .. i /\ \A k \in 1 .. i : k \in 1 .. n
  BY <1>1 DEF n
<1>4. a \in Nat /\ e \in Nat /\ a <= e
  <2>1. \A k \in 1 .. i : b.sizes[k] \in Nat
    BY <1>2, <1>3
  <2> QED BY <1>3, <2>1, SumToNat
<1>5. l \in Nat /\ a + l <= e
  <2>1. CASE Single(b)
    <3>1. n = 1 /\ i = 1 /\ i - 1 = 0 /\ l = b.vint
      BY <1>1, <2>1 DEF Single, LostOf, n
    <3>2. a = 0
      BY <3>1, SumToZero
    <3>3. l \in 0 .. e
      BY <1>1, <3>1
    <3> HIDE DEF a, e, l
    <3> QED BY <1>4, <3>2, <3>3
  <2>2. CASE ~Single(b)
    <3>1. l = 0
      BY <2>2 DEF LostOf
    <3> HIDE DEF a, e, l
    <3> QED BY <1>4, <3>1
  <2> QED BY <2>1, <2>2
<1> HIDE DEF a, e, l
<1> DEFINE S == {rest[k] : k \in a + 1 .. e}
           v == Len(d)
<1>6. v = e - a /\ \A k \in 1 .. v : d[k] = rest[a + k] /\ d[k] \in S
  <2> DEFINE u == a + 1
  <2>1. u \in Int /\ e \in Int /\ u <= e + 1 /\ \A k \in u .. e : rest[k] \in S
    BY <1>4
  <2>2. d = SubSeq(rest, u, e)
    BY DEF DataOf, a, e
  <2>3. e - u + 1 = e - a /\ \A k \in 1 .. e - a : u + k - 1 = a + k /\ a + k \in u .. e
    BY <1>4
  <2> HIDE DEF S, u
  <2>4. Len(d) = e - u + 1 /\ \A k \in 1 .. e - u + 1 : d[k] = rest[u + k - 1]
    BY <2>1, <2>2, PartIs
  <2>5. ASSUME NEW k \in 1 .. e - a PROVE d[k] = rest[a + k] /\ rest[a + k] \in S
    BY <2>1, <2>3, <2>4
  <2> QED BY <2>3, <2>4, <2>5
<1>7. \A k \in a + 1 .. e : rest[k] \in S
  OBVIOUS
<1> DEFINE u == l + 1
           w == l + a + 1
<1>8. u = l + 1 /\ w = l + a + 1
  OBVIOUS
<1> HIDE DEF S, v, u, w
<1>9. SubSeq(d, u, v) = SubSeq(rest, w, e)
  BY <1>4, <1>5, <1>6, <1>7, <1>8, EndOfPart
<1>10. DataRead(b, rest, i) = SubSeq(rest, w, e)
  BY DEF DataRead, a, e, l, w
<1> QED BY <1>9, <1>10 DEF u, v, l

\* u are the frames of block b.
Unlaced(u, b, rest, ts, step) ==
    /\ IsSeq(u) /\ Len(u) = Len(b.sizes)
    /\ \A i \in 1 .. Len(b.sizes) :
          u[i] = Packet(b.track, ts + b.rel + (i - 1) * step, b.key, b.dur, DataRead(b, rest, i))

\* A reader gets the frames of a block apart, and the muxer left nothing to object.
LEMMA UnlaceIs ==
    ASSUME NEW b, NEW rest, Laceable(b, rest), NEW c, EncodedAs(c, b, rest), NEW ts, NEW step
    PROVE  /\ ~BadLacing(c.block)
           /\ Unlaced(Unlace(c.block, ts, step, KeyOf(c), DurOf(c)), b, rest, ts, step)
<1> DEFINE n == Len(b.sizes)
           s == LeadingSizes(c.block)
<1>1. /\ c.block.lacing = b.lacing /\ c.block.count = n /\ c.block.rest = rest
      /\ c.block.track = b.track /\ c.block.rel = b.rel /\ c.block.vint = b.vint
  BY DEF EncodedAs, Payload
<1>11. Swallowed(c.block) = LostOf(b) /\ ~(Alone(c.block) /\ c.block.vint = 0)
  BY <1>1 DEF Laceable, Single, LostOf, Swallowed, Alone
<1>2. KeyOf(c) = b.key /\ DurOf(c) = b.dur
  BY DEF EncodedAs
<1>3. n \in Nat /\ n > 0 /\ b.sizes \in Seq(Nat) /\ Len(rest) = SumTo(b.sizes, n)
  BY LenProperties DEF Laceable, BlockOK
<1>4. \A i \in 1 .. n : b.sizes[i] \in Nat
  BY <1>3, ElementOfSeq
<1>5. DOMAIN s = 1 .. n - 1 /\ Len(s) = n - 1 /\ \A i \in 1 .. n - 1 : s[i] = b.sizes[i]
  BY LeadingIs DEF Leads
<1> HIDE DEF n, s
<1>6. \A i \in 0 .. n - 1 : SumTo(s, i) = SumTo(b.sizes, i)
  <2> SUFFICES ASSUME NEW i \in 0 .. n - 1 PROVE SumTo(s, i) = SumTo(b.sizes, i)
    OBVIOUS
  <2>1. i \in Nat /\ \A k \in 1 .. i : k \in 1 .. n - 1
    BY <1>3
  <2>2. \A k \in 1 .. i : s[k] = b.sizes[k]
    BY <1>5, <2>1
  <2> QED BY <2>1, <2>2, SumToSame
<1>7. ~BadLacing(c.block)
  <2>1. \A i \in DOMAIN s : ~(s[i] < 0)
    <3> SUFFICES ASSUME NEW i \in 1 .. n - 1 PROVE ~(s[i] < 0)
      BY <1>5
    <3>1. i \in 1 .. n
      BY <1>3
    <3>2. s[i] \in Nat
      BY <1>4, <1>5, <3>1
    <3> QED BY <3>2
  <2>2. ~(SumTo(s, Len(s)) > Len(rest))
    <3>1. n - 1 \in 0 .. n - 1 /\ n - 1 \in 0 .. n
      BY <1>3
    <3>2. SumTo(s, n - 1) = SumTo(b.sizes, n - 1)
      BY <1>6, <3>1
    <3>3. SumTo(b.sizes, n - 1) \in Nat /\ SumTo(b.sizes, n - 1) <= SumTo(b.sizes, n)
      BY <1>3, <1>4, <3>1, SumToNat
    <3>4. n \in 0 .. n
      BY <1>3
    <3>5. SumTo(b.sizes, n) \in Nat
      BY <1>3, <1>4, <3>4, SumToNat
    <3> QED BY <1>3, <1>5, <3>2, <3>3, <3>5
  <2>3. ~(c.block.lacing = "fixed" /\ Len(c.block.rest) % c.block.count # 0)
    BY <1>1 DEF Laceable, n
  <2> QED BY <1>1, <1>11, <2>1, <2>2, <2>3 DEF BadLacing, s
<1> DEFINE u == Unlace(c.block, ts, step, KeyOf(c), DurOf(c))
<1>8. u = [i \in 1 .. n |->
              Packet(b.track, ts + b.rel + (i - 1) * step, b.key, b.dur,
                     SubSeq(rest, LostOf(b) + SumTo(s, i - 1) + 1,
                            IF i = n THEN Len(rest) ELSE SumTo(s, i)))]
  BY <1>1, <1>2, <1>11, Zenon DEF Unlace, s
<1> HIDE DEF u
<1>9. IsSeq(u) /\ Len(u) = n
  <2>1. u = [i \in 1 .. n |-> u[i]]
    BY <1>8
  <2> QED BY <1>3, <2>1, IsSeqFunction
<1>10. ASSUME NEW i \in 1 .. n
       PROVE  u[i] = Packet(b.track, ts + b.rel + (i - 1) * step, b.key, b.dur, DataRead(b, rest, i))
  <2>1. i - 1 \in 0 .. n - 1 /\ (i # n => i \in 0 .. n - 1)
    BY <1>3
  <2>2. SumTo(s, i - 1) = SumTo(b.sizes, i - 1)
    BY <1>6, <2>1
  <2>3. (IF i = n THEN Len(rest) ELSE SumTo(s, i)) = SumTo(b.sizes, i)
    BY <1>3, <1>6, <2>1
  <2> QED BY <1>8, <2>2, <2>3 DEF DataRead
<1> QED BY <1>7, <1>9, <1>10 DEF Unlaced, u, n

\* The frames that the muxer puts into a block.
FramesOf(b, rest, ts, cell, sc, each) ==
    [i \in DOMAIN b.sizes |->
        [cell |-> cell, lace |-> i, track |-> b.track, key |-> b.key, dur |-> b.dur,
         ns |-> (ts + b.rel) * sc + (i - 1) * each, lost |-> LostOf(b), data |-> DataOf(b, rest, i)]]

\* Packet p is frame f, early by no more than the rounding of the duration.
Near(p, f, sc) ==
    LET early == f.ns - p.ts * sc
    IN  /\ p.track = f.track /\ p.key = f.key /\ p.dur = f.dur
        /\ p.data = SubSeq(f.data, f.lost + 1, Len(f.data))
        /\ 0 <= early /\ early <= (f.lace - 1) * (sc - 1)

\* The timestamps of laced frames round down, by less than a unit a frame.
LEMMA RoundedTimes ==
    ASSUME NEW t \in Int, NEW sc \in Nat \ {0}, NEW each \in Nat, NEW i \in Nat,
           NEW step, step = each \div sc
    PROVE  LET early == (t * sc + i * each) - (t + i * step) * sc
           IN  0 <= early /\ early <= i * (sc - 1)
<1> DEFINE r == each % sc
<1>1. step \in Nat /\ r \in Nat /\ r <= sc - 1 /\ each = step * sc + r
  OBVIOUS
<1> HIDE DEF r
<1>2. (t + i * step) * sc = t * sc + i * (step * sc)
  BY <1>1
<1>3. i * each = i * (step * sc) + i * r
  BY <1>1
<1>4. 0 <= i * r /\ i * r <= i * (sc - 1)
  BY <1>1
<1> DEFINE x == i * (step * sc)
           y == t * sc
           z == i * r
<1>5. x \in Int /\ y \in Int /\ z \in Int
  BY <1>1
<1> HIDE DEF x, y, z
<1>6. (y + (x + z)) - (y + x) = z
  BY <1>5
<1>7. (t * sc + i * each) - (t + i * step) * sc = i * r
  BY <1>2, <1>3, <1>6 DEF x, y, z
<1> QED BY <1>4, <1>7

\* The entries of a Tracks element, each with a number of its own.
TracksOK(els) ==
    /\ IsSeq(els)
    /\ \A i \in 1 .. Len(els) :
          /\ "number" \in DOMAIN els[i] /\ ParseTrackEntry(els[i]).defaultDuration \in Nat
          /\ \A j \in 1 .. Len(els) : els[j].number = els[i].number => j = i

\* The default duration of a track.
EachOf(els, tr) ==
    ParseTrackEntry(els[SelectInSeq(els, LAMBDA e : e.number = tr)]).defaultDuration

\* The reader counts a frame's duration in timestamp units.
LEMMA StepIs ==
    ASSUME NEW els, TracksOK(els), NEW tr, \E i \in 1 .. Len(els) : els[i].number = tr,
           NEW d, d.entries = Parses(els), d.scale \in Nat \ {0}
    PROVE  EachOf(els, tr) \in Nat /\ DefaultDurTS(d, tr) = EachOf(els, tr) \div d.scale
<1>1. PICK i \in 1 .. Len(els) : els[i].number = tr
  OBVIOUS
<1>2. Len(els) \in Nat /\ \A j \in 1 .. Len(els) : els[j].number = tr => j = i
  BY <1>1, IsSeqType DEF TracksOK
<1>3. SelectInSeq(els, LAMBDA e : e.number = tr) = i
  <2> DEFINE I == {j \in 1 .. Len(els) : els[j].number = tr}
             k == SelectInSeq(els, LAMBDA e : e.number = tr)
  <2>1. k = IF I # {} THEN Min(I) ELSE 0
    BY DEF SelectInSeq
  <2>2. I \subseteq 1 .. Len(els) /\ i \in I
    BY <1>1
  <2>3. \A j \in I : j = i
    BY <1>2
  <2> HIDE DEF k, I
  <2>4. (k = 0 => I = {}) /\ (k # 0 => k \in I)
    BY <1>2, <2>1, <2>2, FirstWhere
  <2>5. k = i
    BY <2>2, <2>3, <2>4
  <2> QED BY <2>5 DEF k
<1> DEFINE each == ParseTrackEntry(els[i]).defaultDuration
<1>4. EachOf(els, tr) = each /\ each \in Nat
  BY <1>1, <1>3 DEF EachOf, TracksOK
<1>5. /\ Len(d.entries) = Len(els)
      /\ \A j \in 1 .. Len(els) : d.entries[j] = ParseTrackEntry(els[j])
  BY ParsedIs DEF TracksOK
<1>6. \A j \in 1 .. Len(els) : d.entries[j].number = els[j].number
  <2> SUFFICES ASSUME NEW j \in 1 .. Len(els) PROVE d.entries[j].number = els[j].number
    OBVIOUS
  <2>1. "number" \in DOMAIN els[j]
    BY DEF TracksOK
  <2> QED BY <1>5, <2>1 DEF ParseTrackEntry, ZeroEntry
<1>7. d.entries[i].defaultDuration = each
  BY <1>5
<1> HIDE DEF each
<1> DEFINE k == SelectInSeq(d.entries, LAMBDA te : te.number = tr /\ te.defaultDuration > 0)
           I == {j \in 1 .. Len(d.entries) : d.entries[j].number = tr /\ d.entries[j].defaultDuration > 0}
<1>8. k = IF I # {} THEN Min(I) ELSE 0
  BY DEF SelectInSeq
<1>9. I \subseteq 1 .. Len(d.entries) /\ Len(d.entries) \in Nat
  BY <1>2, <1>5
<1>10. DefaultDurTS(d, tr) = IF k = 0 THEN 0 ELSE d.entries[k].defaultDuration \div d.scale
  BY DEF DefaultDurTS
<1>11. \A j \in I : j = i
  BY <1>2, <1>5, <1>6
<1>12. each > 0 => i \in I
  BY <1>1, <1>5, <1>6, <1>7
<1>13. i \in I => each > 0
  BY <1>7
<1> HIDE DEF k, I
<1>14. (k = 0 => I = {}) /\ (k # 0 => k \in I)
  BY <1>8, <1>9, FirstWhere
<1>15. i # 0
  BY <1>1, <1>2
<1>16. CASE each > 0
  <2>1. k = i
    BY <1>11, <1>12, <1>14, <1>16
  <2> QED BY <1>4, <1>7, <1>10, <1>15, <2>1
<1>17. CASE ~(each > 0)
  <2>1. k = 0 /\ each = 0
    BY <1>4, <1>11, <1>13, <1>14, <1>17
  <2>2. 0 \div d.scale = 0
    OBVIOUS
  <2> QED BY <1>4, <1>10, <2>1, <2>2
<1> QED BY <1>16, <1>17

\* The packets of the blocks so far are the frames so far.
Match(ps, ms, n, sc) ==
    /\ IsSeq(ps) /\ Len(ps) <= Len(ms)
    /\ \A k \in 1 .. Len(ms) : k <= Len(ps) <=> ms[k].cell <= n
    /\ \A k \in 1 .. Len(ps) : Near(ps[k], ms[k], sc)

\* The frames of a block, read apart.
LEMMA BlockRead ==
    ASSUME NEW b, NEW rest, Laceable(b, rest), NEW u, NEW ts \in Int, NEW step,
           Unlaced(u, b, rest, ts, step),
           NEW sc \in Nat \ {0}, NEW each \in Nat, NEW cell,
           step = IF b.lacing = "none" THEN 0 ELSE each \div sc,
           NEW i \in 1 .. Len(b.sizes)
    PROVE  /\ Near(u[i], FramesOf(b, rest, ts, cell, sc, each)[i], sc)
           /\ FramesOf(b, rest, ts, cell, sc, each)[i].cell = cell
<1> DEFINE f == FramesOf(b, rest, ts, cell, sc, each)[i]
           p == u[i]
<1>1. Len(b.sizes) \in Nat /\ DOMAIN b.sizes = 1 .. Len(b.sizes) /\ b.rel \in Int
  BY LenProperties DEF Laceable, BlockOK
<1>2. p = Packet(b.track, ts + b.rel + (i - 1) * step, b.key, b.dur, DataRead(b, rest, i))
  BY DEF Unlaced
<1>3. /\ p.track = b.track /\ p.ts = ts + b.rel + (i - 1) * step /\ p.key = b.key /\ p.dur = b.dur
      /\ p.data = DataRead(b, rest, i)
  BY <1>2 DEF Packet
<1>4. /\ f.cell = cell /\ f.lace = i /\ f.track = b.track /\ f.key = b.key /\ f.dur = b.dur
      /\ f.ns = (ts + b.rel) * sc + (i - 1) * each /\ f.data = DataOf(b, rest, i)
      /\ f.lost = LostOf(b)
  BY <1>1 DEF FramesOf
<1>8. p.data = SubSeq(f.data, f.lost + 1, Len(f.data))
  <2> DEFINE d == DataOf(b, rest, i)
  <2> HIDE DEF d, f, p
  <2>1. DataRead(b, rest, i) = SubSeq(d, LostOf(b) + 1, Len(d))
    BY DataReadIs DEF d
  <2> QED BY <1>3, <1>4, <2>1 DEF d
<1> HIDE DEF f, p
<1> DEFINE t == ts + b.rel
           j == i - 1
<1>5. t \in Int /\ j \in Nat
  BY <1>1
<1>6. p.ts = t + j * step /\ f.ns = t * sc + j * each /\ f.lace - 1 = j
  BY <1>3, <1>4
<1> HIDE DEF t, j
<1>7. 0 <= f.ns - p.ts * sc /\ f.ns - p.ts * sc <= j * (sc - 1)
  <2>1. CASE b.lacing = "none"
    <3>1. j = 0 /\ step = 0
      BY <1>1, <2>1 DEF Laceable, BlockOK, j
    <3>2. p.ts = t /\ f.ns = t * sc
      BY <1>5, <1>6, <3>1
    <3>3. t * sc \in Int
      BY <1>5
    <3> QED BY <3>1, <3>2, <3>3
  <2>2. CASE b.lacing # "none"
    BY <1>5, <1>6, <2>2, RoundedTimes
  <2> QED BY <2>1, <2>2
<1> QED BY <1>3, <1>4, <1>6, <1>7, <1>8 DEF Near, f, p

\* What has been read matches what was meant with one more block.
LEMMA BlockMatches ==
    ASSUME NEW ps, NEW ms, IsSeq(ms), NEW n \in Nat, NEW sc, Match(ps, ms, n, sc),
           \A k \in 1 .. Len(ms) : ms[k].cell \in 1 .. n,
           NEW us, NEW fs, IsSeq(us), IsSeq(fs), Len(us) = Len(fs),
           \A i \in 1 .. Len(fs) : Near(us[i], fs[i], sc) /\ fs[i].cell = n + 1
    PROVE  Match(Joined(ps, us), Joined(ms, fs), n + 1, sc)
<1> DEFINE qs == Joined(ps, us)
           ns == Joined(ms, fs)
<1>1. Follows(qs, ps, us) /\ Follows(ns, ms, fs)
  BY IsSeqConcat DEF Match
<1> HIDE DEF qs, ns
<1>2. Len(ms) \in Nat /\ Len(ps) \in Nat /\ Len(us) \in Nat /\ Len(ps) <= Len(ms)
  BY <1>1 DEF Follows, Match
<1>3. Len(ps) = Len(ms)
  <2> SUFFICES ASSUME Len(ps) < Len(ms) PROVE FALSE
    BY <1>2
  <2>1. Len(ms) \in 1 .. Len(ms) /\ ~(Len(ms) <= Len(ps))
    BY <1>2
  <2> QED BY <2>1 DEF Match
<1>4. Len(qs) = Len(ns) /\ Len(qs) = Len(ms) + Len(fs) /\ Len(fs) \in Nat
  BY <1>1, <1>3 DEF Follows
<1>5. ASSUME NEW k \in 1 .. Len(ns) PROVE ns[k].cell <= n + 1 /\ Near(qs[k], ns[k], sc)
  <2>1. CASE k <= Len(ms)
    <3>1. k \in 1 .. Len(ms) /\ k \in 1 .. Len(ps)
      BY <1>2, <1>3, <1>4, <2>1
    <3>2. ns[k] = ms[k] /\ qs[k] = ps[k]
      BY <1>1, <3>1 DEF Follows
    <3>3. ms[k].cell \in 1 .. n
      BY <3>1
    <3>4. Near(ps[k], ms[k], sc)
      BY <3>1 DEF Match
    <3> HIDE DEF Near
    <3>5. ms[k].cell <= n + 1
      BY <3>3
    <3> QED BY <3>2, <3>4, <3>5
  <2>2. CASE ~(k <= Len(ms))
    <3>1. k - Len(ms) \in 1 .. Len(fs) /\ Len(ms) + (k - Len(ms)) = k
      BY <1>2, <1>4, <2>2
    <3>2. ns[k] = fs[k - Len(ms)] /\ qs[k] = us[k - Len(ms)]
      BY <1>1, <1>3, <1>4, <3>1 DEF Follows
    <3>3. n + 1 <= n + 1
      OBVIOUS
    <3> QED BY <3>1, <3>2, <3>3
  <2> QED BY <2>1, <2>2
<1>6. IsSeq(qs)
  BY <1>1 DEF Follows
<1> HIDE DEF Near
<1>7. Match(qs, ns, n + 1, sc)
  BY <1>4, <1>5, <1>6 DEF Match
<1> QED BY <1>7 DEF qs, ns

-----------------------------------------------------------------------------
(* The reader and the muxer, cell by cell.                                 *)

\* What a demuxer has read after n cells: its place, the header, tags and frames.
Reads(d, F, ms, n, M, sc) ==
    /\ Place(d, F, n, M) /\ HeadSeen(d, F, n) /\ TagsRead(d.tags, F, n)
    /\ Match(d.packets, ms, n, sc)

\* f follows a demuxer over the first n cells of a file of M.
WalksTo(f, F, n, M) ==
    /\ f[0] = Demuxer0
    /\ \A k \in 1 .. n : f[k] = ReadCell(f[k - 1], F[k], M)

\* Up to the first broken cell a demuxer reads what is meant, there it stops.
ReadsAt(F, ms, sc, M) ==
    \A n \in 0 .. Len(F) : \A f : WalksTo(f, F, n, M) =>
        /\ Clean(F, n, M) => Reads(f[n], F, ms, n, M, sc)
        /\ (n > 0 /\ Clean(F, n - 1, M) /\ n <= M /\ BrokenAt(F, n, M)) => Stopped(f[n], f[n - 1])

\* The same cells, but for the size of the Segment.
Alike(F, G, n) == \A i \in 1 .. n : F[i] = G[i] \/ (F[i].el = "segment" /\ G[i].el = "segment")

\* Clusters and scopes are the same in both.
LEMMA AlikeScopes ==
    ASSUME NEW n \in Nat, NEW F, NEW G, Alike(F, G, n)
    PROVE  /\ \A i \in 1 .. n : F[i].el = G[i].el /\ (F[i].el # "segment" => F[i] = G[i])
           /\ \A el, p : \A m \in 0 .. n : LastOf(F, el, p, m) => LastOf(G, el, p, m)
           /\ \A el : \A m \in 0 .. n : None(G, el, m) => None(F, el, m)
           /\ \A m \in 0 .. n : Endless(F, m) => Endless(G, m)
<1>1. \A i \in 1 .. n : F[i].el = G[i].el /\ (F[i].el # "segment" => F[i] = G[i])
  BY DEF Alike
<1>2. ASSUME NEW el, NEW p, NEW m \in 0 .. n, LastOf(F, el, p, m) PROVE LastOf(G, el, p, m)
  <2>1. p \in 1 .. n /\ \A i \in p + 1 .. m : i \in 1 .. n
    BY <1>2 DEF LastOf
  <2> QED BY <1>1, <1>2, <2>1 DEF LastOf
<1>3. ASSUME NEW el, NEW m \in 0 .. n, None(G, el, m) PROVE None(F, el, m)
  <2>1. \A i \in 1 .. m : i \in 1 .. n
    OBVIOUS
  <2> QED BY <1>1, <1>3, <2>1 DEF None
<1>4. ASSUME NEW m \in 0 .. n, Endless(F, m) PROVE Endless(G, m)
  <2>1. PICK p \in 1 .. m : LastOf(F, "cluster", p, m) /\ F[p].size = Unknown
    BY <1>4 DEF Endless
  <2>2. LastOf(G, "cluster", p, m) /\ p \in 1 .. n
    BY <1>2, <2>1
  <2>3. F[p].el = "cluster"
    BY <2>1 DEF LastOf
  <2>4. F[p] = G[p]
    BY <1>1, <2>2, <2>3
  <2> QED BY <2>1, <2>2, <2>4 DEF Endless
<1> QED BY <1>1, <1>2, <1>3, <1>4

\* A demuxer reads the same of both.
LEMMA ReadsAlike ==
    ASSUME NEW n \in Nat, NEW F, NEW G, Alike(F, G, n),
           NEW d, NEW ms, NEW M, NEW sc, Reads(d, F, ms, n, M, sc)
    PROVE  Reads(d, G, ms, n, M, sc)
<1>0. Alike(G, F, n)
  BY DEF Alike
<1>1. \A i \in 1 .. n : F[i].el = G[i].el /\ (F[i].el # "segment" => F[i] = G[i])
  BY AlikeScopes
<1>2. \A el, p : \A m \in 0 .. n : LastOf(F, el, p, m) <=> LastOf(G, el, p, m)
  <2>1. \A el, p : \A m \in 0 .. n : LastOf(F, el, p, m) => LastOf(G, el, p, m)
    BY AlikeScopes
  <2>2. \A el, p : \A m \in 0 .. n : LastOf(G, el, p, m) => LastOf(F, el, p, m)
    BY <1>0, AlikeScopes
  <2> QED BY <2>1, <2>2
<1>3. \A el : \A m \in 0 .. n : None(F, el, m) <=> None(G, el, m)
  <2>1. \A el : \A m \in 0 .. n : None(G, el, m) => None(F, el, m)
    BY AlikeScopes
  <2>2. \A el : \A m \in 0 .. n : None(F, el, m) => None(G, el, m)
    BY <1>0, AlikeScopes
  <2> QED BY <2>1, <2>2
<1>4. \A m \in 0 .. n : Endless(F, m) <=> Endless(G, m)
  <2>1. \A m \in 0 .. n : Endless(F, m) => Endless(G, m)
    BY AlikeScopes
  <2>2. \A m \in 0 .. n : Endless(G, m) => Endless(F, m)
    BY <1>0, AlikeScopes
  <2> QED BY <2>1, <2>2
<1>5. n \in 0 .. n
  OBVIOUS
<1>6. Place(d, G, n, M)
  <2>1. Place(d, F, n, M)
    BY DEF Reads
  <2>2. None(F, "cluster", n) <=> None(G, "cluster", n)
    BY <1>3, <1>5
  <2>3. \A p \in 1 .. n : LastOf(G, "cluster", p, n) => LastOf(F, "cluster", p, n) /\ G[p] = F[p]
    <3>1. \A p \in 1 .. n : LastOf(G, "cluster", p, n) => LastOf(F, "cluster", p, n)
      BY <1>2, <1>5
    <3>2. \A p \in 1 .. n : LastOf(F, "cluster", p, n) => F[p].el = "cluster"
      BY DEF LastOf
    <3> QED BY <1>1, <3>1, <3>2
  <2>4. \A t \in 1 .. n : LastOf(G, "timestamp", t, n) => LastOf(F, "timestamp", t, n) /\ G[t] = F[t]
    <3>1. \A p \in 1 .. n : LastOf(G, "timestamp", p, n) => LastOf(F, "timestamp", p, n)
      BY <1>2, <1>5
    <3>2. \A p \in 1 .. n : LastOf(F, "timestamp", p, n) => F[p].el = "timestamp"
      BY DEF LastOf
    <3> QED BY <1>1, <3>1, <3>2
  <2> QED BY <2>1, <2>2, <2>3, <2>4 DEF Place
<1>7. HeadSeen(d, G, n)
  <2>1. HeadSeen(d, F, n)
    BY DEF Reads
  <2>2. \A i \in 1 .. n : G[i].el \in {"info", "tracks"} => F[i] = G[i]
    BY <1>1
  <2> QED BY <1>3, <1>5, <2>1, <2>2 DEF HeadSeen
<1>8. TagsRead(d.tags, G, n)
  <2>1. TagsRead(d.tags, F, n)
    BY DEF Reads
  <2>2. Seen(F, n) = Seen(G, n)
    <3>1. \A i \in 1 .. n : i \in 0 .. n
      OBVIOUS
    <3> QED BY <1>1, <1>4, <3>1 DEF Seen
  <2>3. \A i \in Seen(F, n) : F[i] = G[i]
    BY <1>1 DEF Seen
  <2> QED BY <2>1, <2>2, <2>3 DEF TagsRead, LastWith
<1> QED BY <1>6, <1>7, <1>8 DEF Reads

\* A file with a cell more is broken where it was.
LEMMA BrokenSame ==
    ASSUME NEW n \in Nat, NEW F, NEW G, \A i \in 1 .. n : F[i] = G[i], NEW M
    PROVE  /\ \A i \in 1 .. n : BrokenAt(F, i, M) <=> BrokenAt(G, i, M)
           /\ \A m \in 0 .. n : Clean(F, m, M) <=> Clean(G, m, M)
<1>1. \A i \in 1 .. n : BrokenAt(F, i, M) <=> BrokenAt(G, i, M)
  BY DEF BrokenAt
<1>2. \A m \in 0 .. n : 1 .. m \subseteq 1 .. n
  OBVIOUS
<1> QED BY <1>1, <1>2 DEF Clean

\* What is meant later is of later cells.
LEMMA MatchMore ==
    ASSUME NEW ps, NEW ms, NEW ns, NEW n \in Nat, NEW sc, Match(ps, ms, n, sc),
           Len(ms) \in Nat, Len(ns) \in Nat, Len(ms) <= Len(ns),
           \A k \in 1 .. Len(ms) : ns[k] = ms[k],
           \A k \in Len(ms) + 1 .. Len(ns) : ns[k].cell \in Nat /\ ns[k].cell > n
    PROVE  Match(ps, ns, n, sc)
<1>1. Len(ps) \in Nat /\ Len(ps) <= Len(ms)
  BY IsSeqType DEF Match
<1>2. ASSUME NEW k \in 1 .. Len(ns) PROVE k <= Len(ps) <=> ns[k].cell <= n
  <2>1. CASE k <= Len(ms)
    BY <2>1 DEF Match
  <2>2. CASE ~(k <= Len(ms))
    <3>1. k \in Len(ms) + 1 .. Len(ns) /\ ~(k <= Len(ps))
      BY <1>1, <2>2
    <3>2. ns[k].cell \in Nat /\ ns[k].cell > n
      BY <3>1
    <3> QED BY <3>1, <3>2
  <2> QED BY <2>1, <2>2
<1>3. \A k \in 1 .. Len(ps) : Near(ps[k], ns[k], sc)
  <2>1. \A k \in 1 .. Len(ps) : k \in 1 .. Len(ms)
    BY <1>1
  <2> QED BY <2>1 DEF Match
<1>4. IsSeq(ps) /\ Len(ps) <= Len(ns)
  BY <1>1 DEF Match
<1> QED BY <1>2, <1>3, <1>4 DEF Match

\* One cell more, readable or not.
NextReads(G, ms, ns, n, M, sc) ==
    \A d : Reads(d, G, ms, n, M, sc) =>
        /\ ~BrokenAt(G, n + 1, M) => Reads(ReadCell(d, G[n + 1], M), G, ns, n + 1, M, sc)
        /\ BrokenAt(G, n + 1, M) => Stopped(ReadCell(d, G[n + 1], M), d)

\* The frames of later cells.
MeantMore(ms, ns, n) ==
    /\ Len(ms) \in Nat /\ Len(ns) \in Nat /\ Len(ms) <= Len(ns)
    /\ \A k \in 1 .. Len(ms) : ns[k] = ms[k]
    /\ \A k \in Len(ms) + 1 .. Len(ns) : ns[k].cell = n + 1

\* A file that grew by a cell is read one cell further.
LEMMA ReadsAtNext ==
    ASSUME NEW F, Len(F) \in Nat, NEW G, NEW c, Extended(G, F, c), NEW ms, NEW ns, MeantMore(ms, ns, Len(F)),
           NEW sc, NEW M \in Nat, ReadsAt(F, ms, sc, M),
           Len(F) + 1 <= M => NextReads(G, ms, ns, Len(F), M, sc)
    PROVE  ReadsAt(G, ns, sc, M)
<1> DEFINE e == Len(F)
<1>1. e \in Nat /\ Len(G) = e + 1 /\ \A i \in 1 .. e : F[i] = G[i]
  BY DEF Extended
<1> HIDE DEF e
<1>2. /\ \A i \in 1 .. e : BrokenAt(F, i, M) <=> BrokenAt(G, i, M)
      /\ \A m \in 0 .. e : Clean(F, m, M) <=> Clean(G, m, M)
  BY <1>1, BrokenSame
<1>3. ASSUME NEW n \in 0 .. e, NEW f, WalksTo(f, G, n, M) PROVE WalksTo(f, F, n, M)
  <2>1. \A k \in 1 .. n : k \in 1 .. e
    BY <1>1
  <2> QED BY <1>1, <1>3, <2>1 DEF WalksTo
<1>4. ASSUME NEW n \in 0 .. e, NEW d, Reads(d, F, ms, n, M, sc) PROVE Reads(d, G, ms, n, M, sc)
  <2>1. Alike(F, G, n)
    BY <1>1 DEF Alike
  <2> QED BY <1>1, <1>4, <2>1, ReadsAlike
<1>5. ASSUME NEW n \in 0 .. e, NEW d, Reads(d, G, ms, n, M, sc) PROVE Reads(d, G, ns, n, M, sc)
  <2>1. Match(d.packets, ms, n, sc)
    BY <1>5 DEF Reads
  <2>2. Match(d.packets, ns, n, sc)
    <3>1. \A k \in Len(ms) + 1 .. Len(ns) : ns[k].cell \in Nat /\ ns[k].cell > n
      BY <1>1 DEF MeantMore, e
    <3> QED BY <1>1, <2>1, <3>1, MatchMore DEF MeantMore
  <2> QED BY <1>5, <2>2 DEF Reads
<1>6. ASSUME NEW n \in 0 .. e, NEW f, WalksTo(f, G, n, M)
      PROVE  /\ Clean(G, n, M) => Reads(f[n], G, ms, n, M, sc)
             /\ (n > 0 /\ Clean(G, n - 1, M) /\ n <= M /\ BrokenAt(G, n, M)) => Stopped(f[n], f[n - 1])
  <2>1. WalksTo(f, F, n, M)
    BY <1>3, <1>6
  <2>2. /\ Clean(F, n, M) => Reads(f[n], F, ms, n, M, sc)
        /\ (n > 0 /\ Clean(F, n - 1, M) /\ n <= M /\ BrokenAt(F, n, M)) => Stopped(f[n], f[n - 1])
    BY <2>1 DEF ReadsAt, e
  <2>3. n > 0 => n \in 1 .. e /\ n - 1 \in 0 .. e
    BY <1>1
  <2> QED BY <1>2, <1>4, <2>2, <2>3
<1>7. ASSUME NEW f, WalksTo(f, G, e + 1, M)
      PROVE  /\ Clean(G, e + 1, M) => Reads(f[e + 1], G, ns, e + 1, M, sc)
             /\ (Clean(G, e, M) /\ e + 1 <= M /\ BrokenAt(G, e + 1, M)) => Stopped(f[e + 1], f[e])
  <2>1. WalksTo(f, G, e, M) /\ f[e + 1] = ReadCell(f[e], G[e + 1], M)
    <3>1. e + 1 \in 1 .. e + 1 /\ (e + 1) - 1 = e /\ \A k \in 1 .. e : k \in 1 .. e + 1
      BY <1>1
    <3> QED BY <1>7, <3>1 DEF WalksTo
  <2>2. Clean(G, e, M) => Reads(f[e], G, ms, e, M, sc)
    BY <1>1, <1>6, <2>1
  <2>3. Clean(G, e + 1, M) => Clean(G, e, M) /\ ~BrokenAt(G, e + 1, M) /\ e + 1 <= M
    BY <1>1 DEF Clean
  <2> QED BY <2>1, <2>2, <2>3 DEF NextReads, e
<1>8. ASSUME NEW n \in 0 .. Len(G), NEW f, WalksTo(f, G, n, M)
      PROVE  /\ Clean(G, n, M) => Reads(f[n], G, ns, n, M, sc)
             /\ (n > 0 /\ Clean(G, n - 1, M) /\ n <= M /\ BrokenAt(G, n, M)) => Stopped(f[n], f[n - 1])
  <2>1. CASE n \in 0 .. e
    BY <1>5, <1>6, <1>8, <2>1
  <2>2. CASE n = e + 1
    <3>1. n - 1 = e
      BY <1>1, <2>2
    <3> QED BY <1>7, <1>8, <2>2, <3>1
  <2> QED BY <1>1, <2>1, <2>2
<1> QED BY <1>8 DEF ReadsAt

\* Only frames of the cells so far are meant.
MeantIn(ms, n) == IsSeq(ms) /\ \A k \in 1 .. Len(ms) : ms[k].cell \in 1 .. n

\* A cell without frames.
LEMMA CellReads ==
    ASSUME NEW G, NEW n \in Nat, NEW M \in Nat, n + 1 <= M, Sized(G, n + 1), Placed(G, n),
           First(G, n), ~IsBlock(G[n + 1]), NEW ms, MeantIn(ms, n), NEW sc
    PROVE  NextReads(G, ms, ms, n, M, sc)
<1> SUFFICES ASSUME NEW d, Reads(d, G, ms, n, M, sc)
             PROVE  /\ ~BrokenAt(G, n + 1, M) => Reads(ReadCell(d, G[n + 1], M), G, ms, n + 1, M, sc)
                    /\ BrokenAt(G, n + 1, M) => Stopped(ReadCell(d, G[n + 1], M), d)
  BY DEF NextReads
<1>1. Place(d, G, n, M) /\ HeadSeen(d, G, n) /\ TagsRead(d.tags, G, n) /\ Match(d.packets, ms, n, sc)
  BY DEF Reads
<1>2. BrokenAt(G, n + 1, M) => Stopped(ReadCell(d, G[n + 1], M), d)
  BY <1>1, ReadCellBroken
<1>3. Sound(G[n + 1])
  BY DEF Sound
<1> DEFINE r == ReadCell(d, G[n + 1], M)
<1>4. ASSUME ~BrokenAt(G, n + 1, M) PROVE Reads(r, G, ms, n + 1, M, sc)
  <2>1. Place(r, G, n + 1, M)
    BY <1>1, <1>3, <1>4, PlaceNext
  <2>2. Content(r, d, G, n)
    BY <1>1, <1>3, <1>4, ContentNext
  <2> HIDE DEF r
  <2>3. HeadSeen(r, G, n + 1)
    BY <1>1, <2>2, HeadMore
  <2>4. TagsRead(r.tags, G, n + 1)
    <3>1. Shape(d)
      BY <1>1 DEF Place
    <3> QED BY <1>1, <2>2, <3>1, TagsNext
  <2>5. r.packets = d.packets
    BY <2>2 DEF Content
  <2>6. Match(d.packets, ms, n + 1, sc)
    <3>1. \A k \in 1 .. Len(ms) : ms[k].cell <= n /\ ms[k].cell <= n + 1
      BY DEF MeantIn
    <3> QED BY <1>1, <3>1 DEF Match
  <2> QED BY <2>1, <2>3, <2>4, <2>5, <2>6 DEF Reads
<1> QED BY <1>2, <1>4

\* An element that the end of the file cuts off.
LEMMA TornReads ==
    ASSUME NEW G, NEW n \in Nat, NEW M \in Nat, n + 1 <= M, Sized(G, n), G[n + 1] = Torn, NEW ms, NEW sc
    PROVE  NextReads(G, ms, ms, n, M, sc)
<1>1. Torn.el = "torn"
  BY DEF Torn
<1>2. Sized(G, n + 1) /\ BrokenAt(G, n + 1, M)
  <2>1. \A i \in 1 .. n + 1 : i \in 1 .. n \/ i = n + 1
    OBVIOUS
  <2>2. BrokenAt(G, n + 1, M)
    BY DEF BrokenAt
  <2> QED BY <1>1, <2>1, <2>2 DEF Sized
<1> SUFFICES ASSUME NEW d, Place(d, G, n, M) PROVE Stopped(ReadCell(d, G[n + 1], M), d)
  BY <1>2 DEF NextReads, Reads
<1> QED BY <1>2, ReadCellBroken

\* A block behind the last timestamp t, of a track of the Tracks element i.
BlockAt(G, n, b, rest, t, i, sc) ==
    /\ BlockOK(b) /\ Len(rest) = SumTo(b.sizes, Len(b.sizes)) /\ G[n + 1] = Encode(b, rest)
    /\ t \in 1 .. n /\ LastOf(G, "timestamp", t, n) /\ G[t].ts \in Nat
    /\ \E p \in 1 .. n : p < n /\ LastOf(G, "cluster", p, n)
    /\ i \in 1 .. n /\ G[i].el = "tracks" /\ TracksOK(G[i].entries)
    /\ \E k \in 1 .. Len(G[i].entries) : G[i].entries[k].number = b.track
    /\ sc \in Nat \ {0} /\ \A d : HeadSeen(d, G, n) => d.scale = sc

\* The frames meant with that block.
BlockFrames(G, n, b, rest, t, i, sc) ==
    FramesOf(b, rest, G[t].ts, n + 1, sc, EachOf(G[i].entries, b.track))

\* They are a sequence, a frame for every size.
LEMMA FramesType ==
    ASSUME NEW b, BlockOK(b), NEW rest, NEW ts, NEW cell, NEW sc, NEW each
    PROVE  LET fs == FramesOf(b, rest, ts, cell, sc, each)
           IN  /\ IsSeq(fs) /\ Len(fs) = Len(b.sizes) /\ Len(b.sizes) \in Nat
               /\ \A i \in 1 .. Len(fs) : fs[i].cell = cell
<1> DEFINE fs == FramesOf(b, rest, ts, cell, sc, each)
<1>1. Len(b.sizes) \in Nat /\ DOMAIN b.sizes = 1 .. Len(b.sizes)
  BY LenProperties DEF BlockOK
<1>2. fs = [i \in 1 .. Len(b.sizes) |-> fs[i]] /\ \A i \in 1 .. Len(b.sizes) : fs[i].cell = cell
  BY <1>1 DEF FramesOf
<1> HIDE DEF fs
<1>3. IsSeq(fs) /\ Len(fs) = Len(b.sizes)
  BY <1>1, <1>2, IsSeqFunction
<1> QED BY <1>1, <1>2, <1>3 DEF fs

\* A demuxer reads a block in a cluster as the frames that it was made of.
LEMMA BlockReads ==
    ASSUME NEW G, NEW n \in Nat, NEW M \in Nat, n + 1 <= M, Sized(G, n + 1), Placed(G, n),
           NEW b, NEW rest, NEW t, NEW i, NEW sc, BlockAt(G, n, b, rest, t, i, sc),
           NEW ms, MeantIn(ms, n)
    PROVE  NextReads(G, ms, Joined(ms, BlockFrames(G, n, b, rest, t, i, sc)), n, M, sc)
<1> DEFINE c == G[n + 1]
           each == EachOf(G[i].entries, b.track)
           fs == FramesOf(b, rest, G[t].ts, n + 1, sc, each)
<1> SUFFICES ASSUME NEW d, Reads(d, G, ms, n, M, sc)
             PROVE  /\ ~BrokenAt(G, n + 1, M) =>
                           Reads(ReadCell(d, G[n + 1], M), G, Joined(ms, fs), n + 1, M, sc)
                    /\ BrokenAt(G, n + 1, M) => Stopped(ReadCell(d, G[n + 1], M), d)
  BY DEF NextReads, BlockFrames
<1>1. Place(d, G, n, M) /\ HeadSeen(d, G, n) /\ TagsRead(d.tags, G, n) /\ Match(d.packets, ms, n, sc)
  BY DEF Reads
<1>2. BrokenAt(G, n + 1, M) => Stopped(ReadCell(d, G[n + 1], M), d)
  BY <1>1, ReadCellBroken
<1> DEFINE r == ReadCell(d, G[n + 1], M)
<1>3. EncodedAs(c, b, rest) /\ BlockOK(b)
  BY EncodeIs DEF BlockAt
<1>4. ASSUME ~BrokenAt(G, n + 1, M) PROVE Reads(r, G, Joined(ms, fs), n + 1, M, sc)
  <2>1. Laceable(b, rest) /\ (c.el = "group" => c.hasBlock)
    <3>1. /\ c.block.lacing = b.lacing /\ c.block.count = Len(b.sizes) /\ c.block.rest = rest /\ IsBlock(c)
      BY <1>3 DEF EncodedAs, Payload
    <3>2. c.el = "group" => c.hasBlock
      BY <1>4 DEF BrokenAt
    <3>3. Len(b.sizes) > 0
      BY <1>3, <3>2 DEF EncodedAs
    <3>4. b.lacing = "fixed" => Len(rest) % Len(b.sizes) = 0
      BY <1>4, <3>1 DEF BrokenAt
    <3>5. c.block.vint = b.vint
      BY <1>3 DEF EncodedAs, Payload
    <3>6. ~(Single(b) /\ b.vint = 0)
      BY <1>4, <3>1, <3>5 DEF BrokenAt, Alone, Single
    <3> QED BY <1>3, <3>2, <3>3, <3>4, <3>6 DEF Laceable, BlockAt
  <2>2. IsBlock(c) /\ c.block.track = b.track /\ c.block.lacing = b.lacing
    BY <1>3 DEF EncodedAs, Payload
  <2>3. Sound(c)
    <3>1. ~BadLacing(c.block)
      BY <1>3, <2>1, UnlaceIs
    <3> QED BY <2>1, <3>1 DEF Sound
  <2>4. Place(r, G, n + 1, M)
    BY <1>1, <1>4, <2>3, PlaceNext
  <2>5. Content(r, d, G, n)
    BY <1>1, <1>4, <2>3, ContentNext
  <2> HIDE DEF r
  <2>6. HeadSeen(r, G, n + 1)
    <3>1. First(G, n)
      BY <2>2 DEF First, IsBlock
    <3> QED BY <1>1, <2>5, <3>1, HeadMore
  <2>7. TagsRead(r.tags, G, n + 1)
    <3>1. Shape(d)
      BY <1>1 DEF Place
    <3> QED BY <1>1, <2>5, <3>1, TagsNext
  <2> DEFINE us == Unlace(c.block, d.ts, StepOf(d, c.block), KeyOf(c), DurOf(c))
             step == StepOf(d, c.block)
  <2>8. r.packets = Joined(d.packets, us)
    BY <2>2, <2>5 DEF Content, Joined
  <2>9. d.ts = G[t].ts /\ G[t].ts \in Int
    <3>1. PICK p \in 1 .. n : p < n /\ LastOf(G, "cluster", p, n)
      BY DEF BlockAt
    <3>2. t \in 1 .. n /\ LastOf(G, "timestamp", t, n) /\ G[t].ts \in Nat
      BY DEF BlockAt
    <3> QED BY <1>1, <3>1, <3>2 DEF Place
  <2>10. Unlaced(us, b, rest, G[t].ts, step)
    BY <1>3, <2>1, <2>9, UnlaceIs
  <2>11. d.scale = sc /\ sc \in Nat \ {0} /\ d.entries = Parses(G[i].entries) /\ TracksOK(G[i].entries)
    BY <1>1 DEF BlockAt, HeadSeen
  <2>12. each \in Nat /\ DefaultDurTS(d, b.track) = each \div sc
    <3>1. \E k \in 1 .. Len(G[i].entries) : G[i].entries[k].number = b.track
      BY DEF BlockAt
    <3> QED BY <2>11, <3>1, StepIs
  <2>13. step = IF b.lacing = "none" THEN 0 ELSE each \div sc
    BY <2>2, <2>12 DEF StepOf
  <2> HIDE DEF us, step, each
  <2>14. /\ IsSeq(fs) /\ Len(fs) = Len(b.sizes) /\ Len(b.sizes) \in Nat
         /\ \A k \in 1 .. Len(fs) : fs[k].cell = n + 1
    BY <1>3, FramesType
  <2>15. IsSeq(us) /\ Len(us) = Len(fs)
    BY <2>10, <2>14 DEF Unlaced
  <2>16. \A k \in 1 .. Len(fs) : Near(us[k], fs[k], sc) /\ fs[k].cell = n + 1
    <3> SUFFICES ASSUME NEW k \in 1 .. Len(b.sizes) PROVE Near(us[k], fs[k], sc)
      BY <2>14
    <3> QED BY <2>1, <2>9, <2>10, <2>11, <2>12, <2>13, BlockRead
  <2> HIDE DEF fs
  <2>17. Match(Joined(d.packets, us), Joined(ms, fs), n + 1, sc)
    BY <1>1, <2>14, <2>15, <2>16, BlockMatches DEF MeantIn
  <2> QED BY <2>4, <2>6, <2>7, <2>8, <2>17 DEF Reads
<1> QED BY <1>2, <1>4

-----------------------------------------------------------------------------
(* The file while the muxer writes it.                                     *)

\* The time scale and the Tracks element of a file.
ScaleOf(F) ==
    LET k == SelectInSeq(F, LAMBDA c : c.el = "info")
    IN  IF k = 0 THEN Demuxer0.scale ELSE F[k].scale

TracksOf(F) == SelectInSeq(F, LAMBDA c : c.el = "tracks")

\* One Info and one Tracks at most, with the track of every block; clusters of
\* proper sizes behind them.
Laid(F) ==
    /\ IsSeq(F)
    /\ \A i, j \in 1 .. Len(F) : (F[i].el = F[j].el /\ F[i].el \in {"info", "tracks"}) => i = j
    /\ \A i \in 1 .. Len(F) :
          /\ F[i].el = "info" => F[i].scale \in Nat \ {0}
          /\ F[i].el = "tracks" =>
                /\ i > 2 /\ TracksOK(F[i].entries)
                /\ \A b \in Blocks : \E k \in 1 .. Len(F[i].entries) : F[i].entries[k].number = b.track
          /\ F[i].el = "cluster" =>
                F[i].size \in {Unknown} \cup (Nat \ {0}) /\ \E j \in 1 .. i : F[j].el = "tracks"
          /\ F[i].el = "timestamp" => F[i].ts \in Nat
          /\ F[i].el # "torn"

\* What the open cluster owes.
Settled(F, owed) ==
    /\ \A p \in 1 .. Len(F) : F[p].el = "cluster" => p < Len(F) /\ F[p + 1].el = "timestamp"
    /\ None(F, "cluster", Len(F)) => owed = 0
    /\ \A p \in 1 .. Len(F) : LastOf(F, "cluster", p, Len(F)) =>
          IF F[p].size = Unknown THEN owed \in {0, Unknown}
          ELSE /\ owed \in Nat /\ p + F[p].size <= Len(F) + owed
               /\ owed > 0 => p + F[p].size = Len(F) + owed

\* They are the ones of its only Info and Tracks.
LEMMA ScaleIs ==
    ASSUME NEW F, Laid(F)
    PROVE  /\ \A i \in 1 .. Len(F) : F[i].el = "info" => ScaleOf(F) = F[i].scale
           /\ None(F, "info", Len(F)) => ScaleOf(F) = 1
           /\ ScaleOf(F) \in Nat \ {0}
           /\ \A i \in 1 .. Len(F) : F[i].el = "tracks" => TracksOf(F) = i
<1>1. Len(F) \in Nat
  BY IsSeqType DEF Laid
<1> DEFINE I == {i \in 1 .. Len(F) : F[i].el = "info"}
           k == SelectInSeq(F, LAMBDA c : c.el = "info")
           J == {i \in 1 .. Len(F) : F[i].el = "tracks"}
           l == SelectInSeq(F, LAMBDA c : c.el = "tracks")
<1>2. k = IF I # {} THEN Min(I) ELSE 0
  BY DEF SelectInSeq
<1>3. l = IF J # {} THEN Min(J) ELSE 0
  BY DEF SelectInSeq
<1>4. ScaleOf(F) = (IF k = 0 THEN 1 ELSE F[k].scale) /\ TracksOf(F) = l
  BY DEF ScaleOf, TracksOf, Demuxer0
<1>5. (k = 0 => I = {}) /\ (k # 0 => k \in I) /\ (l = 0 => J = {}) /\ (l # 0 => l \in J)
  <2>1. I \subseteq 1 .. Len(F) /\ J \subseteq 1 .. Len(F)
    OBVIOUS
  <2> HIDE DEF I, J, k, l
  <2>2. (k = 0 => I = {}) /\ (k # 0 => k \in I)
    BY <1>1, <1>2, <2>1, FirstWhere
  <2>3. (l = 0 => J = {}) /\ (l # 0 => l \in J)
    BY <1>1, <1>3, <2>1, FirstWhere
  <2> QED BY <2>2, <2>3
<1> HIDE DEF k, l
<1>6. ASSUME NEW i \in 1 .. Len(F), F[i].el = "info" PROVE k = i /\ i # 0
  <2>1. i \in I
    BY <1>6
  <2>2. k # 0 /\ k \in I
    BY <1>5, <2>1
  <2> QED BY <1>1, <1>6, <2>2 DEF Laid
<1>7. ASSUME NEW i \in 1 .. Len(F), F[i].el = "tracks" PROVE l = i
  <2>1. i \in J
    BY <1>7
  <2>2. l # 0 /\ l \in J
    BY <1>5, <2>1
  <2> QED BY <1>1, <1>7, <2>2 DEF Laid
<1>8. None(F, "info", Len(F)) => k = 0
  BY <1>5 DEF None
<1>9. k # 0 => F[k].scale \in Nat \ {0}
  BY <1>5 DEF Laid
<1> QED BY <1>4, <1>6, <1>7, <1>8, <1>9

\* What an appended cell leaves as it was.
LEMMA LaidNext ==
    ASSUME NEW F, Laid(F), NEW c, NEW G, IsSeq(G), Extended(G, F, c),
           c.el \in {"tags", "cluster", "timestamp", "simple", "group"},
           c.el = "cluster" => /\ c.size \in {Unknown} \cup (Nat \ {0})
                               /\ \E j \in 1 .. Len(F) : F[j].el = "tracks",
           c.el = "timestamp" => c.ts \in Nat
    PROVE  Laid(G) /\ ScaleOf(G) = ScaleOf(F) /\ Sized(G, Len(G)) /\ First(G, Len(F))
<1>1. /\ Len(F) \in Nat /\ Len(G) = Len(F) + 1 /\ G[Len(F) + 1] = c
      /\ \A i \in 1 .. Len(F) : G[i] = F[i]
  BY IsSeqType DEF Laid, Extended
<1>2. \A i \in 1 .. Len(G) : i \in 1 .. Len(F) \/ i = Len(F) + 1
  BY <1>1
<1>3. \A i \in 1 .. Len(F) : i \in 1 .. Len(G) /\ 1 .. i \subseteq 1 .. Len(F)
  BY <1>1
<1>4. \A i, j \in 1 .. Len(G) : (G[i].el = G[j].el /\ G[i].el \in {"info", "tracks"}) => i = j
  <2> SUFFICES ASSUME NEW i \in 1 .. Len(G), NEW j \in 1 .. Len(G), G[i].el = G[j].el,
                      G[i].el \in {"info", "tracks"}
               PROVE  i = j
    OBVIOUS
  <2>1. i \in 1 .. Len(F) /\ j \in 1 .. Len(F)
    BY <1>1, <1>2
  <2> QED BY <1>1, <2>1 DEF Laid
<1>5. ASSUME NEW i \in 1 .. Len(G)
      PROVE  /\ G[i].el = "info" => G[i].scale \in Nat \ {0}
             /\ G[i].el = "tracks" =>
                   /\ i > 2 /\ TracksOK(G[i].entries)
                   /\ \A b \in Blocks : \E k \in 1 .. Len(G[i].entries) : G[i].entries[k].number = b.track
             /\ G[i].el = "cluster" =>
                   G[i].size \in {Unknown} \cup (Nat \ {0}) /\ \E j \in 1 .. i : G[j].el = "tracks"
             /\ G[i].el = "timestamp" => G[i].ts \in Nat
             /\ G[i].el # "torn"
  <2>1. CASE i \in 1 .. Len(F)
    <3>1. G[i] = F[i] /\ \A j \in 1 .. i : G[j] = F[j]
      BY <1>1, <1>3, <2>1
    <3> HIDE DEF TracksOK
    <3> QED BY <2>1, <3>1 DEF Laid
  <2>2. CASE i = Len(F) + 1
    <3>1. G[i] = c /\ \A j \in 1 .. Len(F) : j \in 1 .. i /\ G[j] = F[j]
      BY <1>1, <2>2
    <3> QED BY <3>1
  <2> QED BY <1>2, <2>1, <2>2
<1>6. Laid(G)
  BY <1>4, <1>5 DEF Laid
<1>7. ScaleOf(G) = ScaleOf(F)
  <2>1. CASE None(F, "info", Len(F))
    <3>1. None(G, "info", Len(G))
      BY <1>1, <1>2, <2>1 DEF None
    <3> QED BY <1>6, <2>1, <3>1, ScaleIs
  <2>2. CASE ~None(F, "info", Len(F))
    <3>1. PICK i \in 1 .. Len(F) : F[i].el = "info"
      BY <2>2 DEF None
    <3>2. G[i].el = "info" /\ i \in 1 .. Len(G) /\ G[i] = F[i]
      BY <1>1, <1>3, <3>1
    <3>3. ScaleOf(F) = F[i].scale
      BY <3>1, ScaleIs
    <3>4. ScaleOf(G) = G[i].scale
      BY <1>6, <3>2, ScaleIs
    <3> QED BY <3>2, <3>3, <3>4
  <2> QED BY <2>1, <2>2
<1>8. Sized(G, Len(G))
  BY <1>5 DEF Sized
<1>9. First(G, Len(F))
  BY <1>1 DEF First
<1> QED BY <1>6, <1>7, <1>8, <1>9

\* The last cell of a kind.
LEMMA LastExists ==
    ASSUME NEW F, NEW n \in Nat, NEW el, NEW i \in 1 .. n, F[i].el = el
    PROVE  \E p \in 1 .. n : LastOf(F, el, p, n) /\ i <= p
<1> DEFINE S == {j \in 1 .. n : F[j].el = el}
<1>1. S \subseteq 0 .. n /\ S # {}
  OBVIOUS
<1>2. PICK p \in S : \A j \in S : j <= p
  <2> HIDE DEF S
  <2> QED BY <1>1, GreatestInRange
<1>3. \A j \in p + 1 .. n : F[j].el # el
  <2> SUFFICES ASSUME NEW j \in p + 1 .. n, F[j].el = el PROVE FALSE
    OBVIOUS
  <2>1. j \in S /\ ~(j <= p)
    OBVIOUS
  <2> QED BY <1>2, <2>1
<1>4. p \in 1 .. n /\ F[p].el = el /\ i <= p
  BY <1>2
<1> QED BY <1>3, <1>4 DEF LastOf

\* Scopes in a file with a cell more.
LEMMA ScopesStay ==
    ASSUME NEW F, Len(F) \in Nat, NEW c, NEW G, Extended(G, F, c)
    PROVE  /\ \A el, p : LastOf(F, el, p, Len(F)) <=> LastOf(G, el, p, Len(F))
           /\ \A el : None(F, el, Len(F)) <=> None(G, el, Len(F))
<1>1. \A i \in 1 .. Len(F) : G[i] = F[i]
  BY DEF Extended
<1>2. Alike(F, G, Len(F)) /\ Alike(G, F, Len(F))
  BY <1>1 DEF Alike
<1>3. Len(F) \in 0 .. Len(F)
  OBVIOUS
<1>4. \A el, p : LastOf(F, el, p, Len(F)) => LastOf(G, el, p, Len(F))
  BY <1>2, <1>3, AlikeScopes
<1>5. \A el, p : LastOf(G, el, p, Len(F)) => LastOf(F, el, p, Len(F))
  BY <1>2, <1>3, AlikeScopes
<1>6. \A el : None(F, el, Len(F)) <=> None(G, el, Len(F))
  BY <1>2, <1>3, AlikeScopes
<1> QED BY <1>4, <1>5, <1>6

\* The muxer puts a cell where it may stand.
LEMMA PlacedOnTop ==
    ASSUME NEW F, Laid(F), NEW owed \in {0, Unknown}, Settled(F, owed),
           NEW c, NEW G, Extended(G, F, c), NEW i \in 1 .. Len(F), F[i].el = "tracks",
           c.el \in {"tags", "cluster"}
    PROVE  Placed(G, Len(F))
<1> DEFINE n == Len(F)
<1>1. n \in Nat /\ G[n + 1] = c /\ \A j \in 1 .. n : G[j] = F[j]
  BY IsSeqType DEF Laid, Extended
<1>2. n >= 2
  BY <1>1 DEF Laid
<1>3. CASE None(F, "cluster", n)
  <2>1. None(G, "cluster", n)
    BY <1>1, <1>3, ScopesStay
  <2> QED BY <1>1, <1>2, <2>1 DEF Placed
<1>4. CASE ~None(F, "cluster", n)
  <2>1. PICK j \in 1 .. n : F[j].el = "cluster"
    BY <1>4 DEF None
  <2>2. PICK p \in 1 .. n : LastOf(F, "cluster", p, n)
    BY <1>1, <2>1, LastExists
  <2>3. LastOf(G, "cluster", p, n) /\ G[p] = F[p]
    BY <1>1, <2>2, ScopesStay
  <2>4. Endless(G, n) \/ Closed(G, n)
    <3>1. CASE F[p].size = Unknown
      BY <2>3, <3>1 DEF Endless
    <3>2. CASE F[p].size # Unknown
      <4>1. owed \in Nat /\ p + F[p].size <= n + owed
        BY <2>2, <3>2 DEF Settled
      <4>2. owed = 0
        BY <4>1 DEF Unknown
      <4>3. p + F[p].size <= n
        BY <1>1, <4>1, <4>2
      <4> QED BY <2>3, <3>2, <4>3 DEF Closed
    <3> QED BY <3>1, <3>2
  <2>5. G[n].el # "cluster"
    <3>1. n \in 1 .. n /\ ~(n < n)
      BY <1>1, <1>2
    <3> QED BY <1>1, <3>1 DEF Settled
  <2> QED BY <1>1, <2>4, <2>5 DEF Placed
<1> QED BY <1>3, <1>4

\* A block may stand in a cluster that is not complete, behind its timestamp.
LEMMA PlacedInCluster ==
    ASSUME NEW F, Laid(F), NEW owed, owed # 0, Settled(F, owed),
           NEW c, NEW G, Extended(G, F, c), c.el \in {"simple", "group"}
    PROVE  /\ Placed(G, Len(F))
           /\ \E p \in 1 .. Len(F) : p < Len(F) /\ LastOf(F, "cluster", p, Len(F))
           /\ \E t \in 1 .. Len(F) : LastOf(F, "timestamp", t, Len(F))
<1> DEFINE n == Len(F)
<1>1. n \in Nat /\ G[n + 1] = c /\ \A j \in 1 .. n : G[j] = F[j]
  BY IsSeqType DEF Laid, Extended
<1>2. PICK j \in 1 .. n : F[j].el = "cluster"
  BY DEF Settled, None
<1>3. PICK p \in 1 .. n : LastOf(F, "cluster", p, n)
  BY <1>1, <1>2, LastExists
<1>4. LastOf(G, "cluster", p, n) /\ G[p] = F[p] /\ F[p].el = "cluster"
  BY <1>1, <1>3, ScopesStay DEF LastOf
<1>5. Endless(G, n) \/ Within(G, n)
  <2>1. CASE F[p].size = Unknown
    BY <1>4, <2>1 DEF Endless
  <2>2. CASE F[p].size # Unknown
    <3>1. owed \in Nat /\ (owed > 0 => p + F[p].size = n + owed)
      BY <1>3, <2>2 DEF Settled
    <3>2. p + F[p].size = n + owed /\ owed > 0
      BY <3>1
    <3>3. n < p + F[p].size
      BY <1>1, <3>1, <3>2
    <3> QED BY <1>4, <2>2, <3>3 DEF Within
  <2> QED BY <2>1, <2>2
<1>6. G[n].el # "cluster"
  <2>1. n \in 1 .. n /\ ~(n < n)
    BY <1>1, <1>2
  <2> QED BY <1>1, <2>1 DEF Settled
<1>7. Placed(G, n)
  BY <1>1, <1>5, <1>6 DEF Placed
<1>8. p < n /\ F[p + 1].el = "timestamp" /\ p + 1 \in 1 .. n
  <2>1. p < n /\ F[p + 1].el = "timestamp"
    BY <1>3, <1>4 DEF Settled
  <2> QED BY <1>1, <2>1
<1>9. \E t \in 1 .. n : LastOf(F, "timestamp", t, n)
  BY <1>1, <1>8, LastExists
<1> QED BY <1>3, <1>7, <1>8, <1>9

\* A cell that opens no cluster.
LEMMA SettledNext ==
    ASSUME NEW F, Laid(F), NEW owed, Settled(F, owed),
           NEW c, NEW G, Extended(G, F, c), c.el # "cluster", NEW owes,
           None(F, "cluster", Len(F)) => owes = 0,
           owed \in {0, Unknown} => owes \in {0, Unknown},
           owed \in Nat => owes \in Nat /\ (owes = 0 \/ owes = owed - 1) /\ (owes = 0 => owed <= 1)
    PROVE  Settled(G, owes)
<1> DEFINE n == Len(F)
<1>1. n \in Nat /\ Len(G) = n + 1 /\ G[n + 1] = c /\ \A j \in 1 .. n : G[j] = F[j]
  BY IsSeqType DEF Laid, Extended
<1>2. \A i \in 1 .. n + 1 : i \in 1 .. n \/ i = n + 1
  BY <1>1
<1> HIDE DEF n
<1>3. ASSUME NEW p \in 1 .. n + 1, G[p].el = "cluster"
      PROVE  p < n + 1 /\ G[p + 1].el = "timestamp"
  <2>1. p \in 1 .. n /\ F[p].el = "cluster"
    BY <1>1, <1>2, <1>3
  <2>2. p < n /\ F[p + 1].el = "timestamp"
    BY <2>1 DEF Settled, n
  <2>3. p + 1 \in 1 .. n /\ p < n + 1
    BY <1>1, <2>2
  <2> QED BY <1>1, <2>2, <2>3
<1>4. None(G, "cluster", n + 1) => owes = 0
  <2>1. None(G, "cluster", n + 1) => None(F, "cluster", n)
    BY <1>1, <1>2 DEF None
  <2> QED BY <2>1 DEF n
<1>5. ASSUME NEW p \in 1 .. n + 1, LastOf(G, "cluster", p, n + 1)
      PROVE  IF G[p].size = Unknown THEN owes \in {0, Unknown}
             ELSE /\ owes \in Nat /\ p + G[p].size <= (n + 1) + owes
                  /\ owes > 0 => p + G[p].size = (n + 1) + owes
  <2>1. LastOf(G, "cluster", p, n)
    BY <1>1, <1>5, LastNext
  <2>2. LastOf(F, "cluster", p, n) /\ p \in 1 .. n /\ G[p] = F[p] /\ F[p].el = "cluster"
    <3>1. LastOf(F, "cluster", p, n)
      BY <1>1, <2>1, ScopesStay DEF n
    <3> QED BY <1>1, <3>1 DEF LastOf
  <2>3. CASE F[p].size = Unknown
    <3>1. owed \in {0, Unknown}
      BY <2>2, <2>3 DEF Settled, n
    <3> QED BY <2>2, <2>3, <3>1
  <2>4. CASE F[p].size # Unknown
    <3>1. owed \in Nat /\ p + F[p].size <= n + owed /\ (owed > 0 => p + F[p].size = n + owed)
      BY <2>2, <2>4 DEF Settled, n
    <3>2. F[p].size \in Nat
      BY <2>2, <2>4 DEF Laid, n
    <3>3. owes \in Nat /\ (owes = 0 \/ owes = owed - 1) /\ (owes = 0 => owed <= 1)
      BY <3>1
    <3> DEFINE s == F[p].size
    <3>4. s \in Nat /\ p \in Nat /\ p + s <= n + owed /\ (owed > 0 => p + s = n + owed)
      BY <1>1, <2>2, <3>1, <3>2
    <3> HIDE DEF s
    <3>5. p + s <= (n + 1) + owes
      BY <1>1, <3>1, <3>3, <3>4
    <3>6. owes > 0 => p + s = (n + 1) + owes
      BY <1>1, <3>1, <3>3, <3>4
    <3> QED BY <2>2, <2>4, <3>3, <3>5, <3>6 DEF s
  <2> QED BY <2>3, <2>4
<1> QED BY <1>1, <1>3, <1>4, <1>5 DEF Settled

\* A new cluster.
LEMMA SettledCluster ==
    ASSUME NEW F, Laid(F), NEW owed, Settled(F, owed),
           NEW size \in {Unknown} \cup (Nat \ {0}), NEW ts,
           NEW G, Extended(G, F, Cluster(size)), NEW H, Extended(H, G, Timestamp(ts))
    PROVE  Settled(H, IF size = Unknown THEN Unknown ELSE size - 1)
<1> DEFINE n == Len(F)
           owes == IF size = Unknown THEN Unknown ELSE size - 1
<1>1. /\ n \in Nat /\ Len(H) = n + 2 /\ H[n + 1] = Cluster(size) /\ H[n + 2] = Timestamp(ts)
      /\ \A j \in 1 .. n : H[j] = F[j]
  <2>1. n \in Nat /\ Len(G) = n + 1 /\ G[n + 1] = Cluster(size) /\ \A j \in 1 .. n : G[j] = F[j]
    BY IsSeqType DEF Laid, Extended
  <2>2. Len(H) = (n + 1) + 1 /\ H[(n + 1) + 1] = Timestamp(ts) /\ \A j \in 1 .. n + 1 : H[j] = G[j]
    BY <2>1 DEF Extended
  <2> HIDE DEF n
  <2>3. (n + 1) + 1 = n + 2 /\ n + 1 \in 1 .. n + 1 /\ \A j \in 1 .. n : j \in 1 .. n + 1
    BY <2>1
  <2> QED BY <2>1, <2>2, <2>3
<1>2. \A i \in 1 .. n + 2 : i \in 1 .. n \/ i = n + 1 \/ i = n + 2
  BY <1>1
<1>3. H[n + 1].el = "cluster" /\ H[n + 1].size = size /\ H[n + 2].el = "timestamp"
  BY <1>1 DEF Cluster, Timestamp
<1> HIDE DEF n
<1>4. ASSUME NEW p \in 1 .. n + 2, H[p].el = "cluster"
      PROVE  p < n + 2 /\ H[p + 1].el = "timestamp"
  <2>1. CASE p \in 1 .. n
    <3>1. F[p].el = "cluster"
      BY <1>1, <1>4, <2>1
    <3>2. p < n /\ F[p + 1].el = "timestamp"
      BY <2>1, <3>1 DEF Settled, n
    <3>3. p + 1 \in 1 .. n /\ p < n + 2
      BY <1>1, <3>2
    <3> QED BY <1>1, <3>2, <3>3
  <2>2. CASE p = n + 1
    <3>1. p + 1 = n + 2 /\ p < n + 2
      BY <1>1, <2>2
    <3> QED BY <1>3, <3>1
  <2>3. p # n + 2
    BY <1>3, <1>4
  <2> QED BY <1>2, <2>1, <2>2, <2>3
<1>5. ~None(H, "cluster", n + 2)
  <2>1. n + 1 \in 1 .. n + 2
    BY <1>1
  <2> QED BY <1>3, <2>1 DEF None
<1>6. ASSUME NEW p \in 1 .. n + 2, LastOf(H, "cluster", p, n + 2) PROVE p = n + 1
  <2>1. p \in 1 .. n => n + 1 \in p + 1 .. n + 2
    BY <1>1
  <2>2. H[p].el = "cluster" /\ \A j \in p + 1 .. n + 2 : H[j].el # "cluster"
    BY <1>6 DEF LastOf
  <2>3. p # n + 2
    BY <1>3, <2>2
  <2> QED BY <1>2, <1>3, <2>1, <2>2, <2>3
<1>7. IF size = Unknown THEN owes \in {0, Unknown}
      ELSE /\ owes \in Nat /\ (n + 1) + size <= (n + 2) + owes
           /\ owes > 0 => (n + 1) + size = (n + 2) + owes
  BY <1>1
<1> HIDE DEF owes
<1>8. Settled(H, owes)
  BY <1>1, <1>3, <1>4, <1>5, <1>6, <1>7 DEF Settled
<1> QED BY <1>8 DEF owes

\* The file while it is written, with owed cells to go: it is laid out as Matroska
\* wants it, and a demuxer reads the frames meant, whatever number of cells M it
\* takes the file to have.
MuxOK(F, owed, ms) ==
    /\ Laid(F) /\ Settled(F, owed)
    /\ MeantIn(ms, Len(F)) /\ \A k \in 1 .. Len(ms) : ms[k].cell > 2
    /\ \A M \in Nat : ReadsAt(F, ms, ScaleOf(F), M)

\* The empty demuxer has read the beginning of any file.
LEMMA ReadsNothing == \A F, M, sc : Reads(Demuxer0, F, <<>>, 0, M, sc)
<1> SUFFICES ASSUME NEW F, NEW M, NEW sc PROVE Reads(Demuxer0, F, <<>>, 0, M, sc)
  OBVIOUS
<1>1. 1 .. 0 = {}
  OBVIOUS
<1>2. Place(Demuxer0, F, 0, M)
  BY <1>1 DEF Place, Shape, Demuxer0
<1>3. HeadSeen(Demuxer0, F, 0)
  BY <1>1 DEF HeadSeen, Demuxer0
<1>4. TagsRead(Demuxer0.tags, F, 0)
  <2>1. Seen(F, 0) = {}
    BY <1>1 DEF Seen
  <2>2. Demuxer0.tags = NoTags
    BY DEF Demuxer0
  <2>3. DOMAIN NoTags = {} /\ NoTags = [name \in DOMAIN NoTags |-> NoTags[name]]
    BY DEF NoTags
  <2> QED BY <2>1, <2>2, <2>3 DEF TagsRead, LastWith
<1>5. Match(Demuxer0.packets, <<>>, 0, sc)
  <2>1. Demuxer0.packets = <<>> /\ Len(<<>>) = 0 /\ <<>> \in Seq({})
    BY DEF Demuxer0
  <2> QED BY <1>1, <2>1 DEF Match, IsSeq
<1> QED BY <1>2, <1>3, <1>4, <1>5 DEF Reads

\* The headers tried are laid out so.
LEMMA HeaderLaid ==
    ASSUME NEW h \in Headers
    PROVE  /\ Laid(h) /\ Sized(h, Len(h)) /\ Len(h) \in Nat /\ Len(h) > 0
           /\ h[1].el = "ebml" /\ (Len(h) > 1 => h[2] = Segment(Unknown))
           /\ \A k \in 3 .. Len(h) : h[k].el \in {"void", "seekhead", "info", "tracks", "tags"}
           /\ \A k \in 1 .. Len(h) : h[k].el \notin {"cluster", "timestamp", "simple", "group"}
<1>1. h \in Seq(Range(h)) /\ h # <<>>
  BY MuxerAssumption
<1>2. IsSeq(h) /\ Len(h) \in Nat /\ Len(h) > 0
  BY <1>1, LenProperties, EmptySeq DEF IsSeq
<1>3. h[1].el = "ebml" /\ (Len(h) > 1 => h[2] = Segment(Unknown) /\ h[2].el = "segment")
  <2>1. \E m \in BOOLEAN : h[1] = EBML(m)
    BY MuxerAssumption
  <2>2. Len(h) > 1 => h[2] = Segment(Unknown)
    BY MuxerAssumption
  <2> QED BY <2>1, <2>2 DEF EBML, Segment
<1>4. ASSUME NEW k \in 3 .. Len(h)
      PROVE  /\ h[k].el \in {"void", "seekhead", "info", "tracks", "tags"}
             /\ h[k].el = "info" => h[k].scale \in Nat \ {0}
             /\ h[k].el \in {"info", "tracks"} => \A j \in 3 .. Len(h) : h[j].el = h[k].el => j = k
  BY MuxerAssumption
<1>5. ASSUME NEW k \in 3 .. Len(h), h[k].el = "tracks"
      PROVE  /\ TracksOK(h[k].entries)
             /\ \A b \in Blocks : \E i \in 1 .. Len(h[k].entries) : h[k].entries[i].number = b.track
  <2> DEFINE els == h[k].entries
  <2>1. /\ els \in Seq(Range(els))
        /\ \A i \in DOMAIN els :
              /\ "number" \in DOMAIN els[i]
              /\ ParseTrackEntry(els[i]).defaultDuration \in Nat
              /\ \A j \in DOMAIN els : els[j].number = els[i].number => j = i
        /\ \A b \in Blocks : \E i \in DOMAIN els : els[i].number = b.track
    BY <1>5, MuxerAssumption
  <2> HIDE DEF els
  <2>2. IsSeq(els) /\ DOMAIN els = 1 .. Len(els)
    BY <2>1, LenProperties DEF IsSeq
  <2>3. TracksOK(els) /\ \A b \in Blocks : \E i \in 1 .. Len(els) : els[i].number = b.track
    BY <2>1, <2>2 DEF TracksOK
  <2> QED BY <2>3 DEF els
<1>6. ASSUME NEW k \in 1 .. Len(h)
      PROVE  k \in 3 .. Len(h) \/ h[k].el \in {"ebml", "segment"}
  <2>1. k = 1 \/ (k = 2 /\ Len(h) > 1) \/ k \in 3 .. Len(h)
    BY <1>2
  <2> QED BY <1>3, <2>1
<1>7. ASSUME NEW i \in 1 .. Len(h), NEW j \in 1 .. Len(h), h[i].el = h[j].el, h[i].el \in {"info", "tracks"}
      PROVE  i = j
  <2>1. i \in 3 .. Len(h) /\ j \in 3 .. Len(h)
    BY <1>6, <1>7
  <2> QED BY <1>4, <1>7, <2>1
<1>8. ASSUME NEW i \in 1 .. Len(h)
      PROVE  /\ h[i].el = "info" => h[i].scale \in Nat \ {0}
             /\ h[i].el = "tracks" =>
                   /\ i > 2 /\ TracksOK(h[i].entries)
                   /\ \A b \in Blocks : \E k \in 1 .. Len(h[i].entries) : h[i].entries[k].number = b.track
             /\ h[i].el \notin {"cluster", "timestamp", "simple", "group", "torn"}
  <2>1. CASE i \in 3 .. Len(h)
    <3>1. i > 2
      BY <2>1
    <3> HIDE DEF TracksOK
    <3> QED BY <1>4, <1>5, <2>1, <3>1
  <2>2. CASE h[i].el \in {"ebml", "segment"}
    BY <2>2
  <2> QED BY <1>6, <2>1, <2>2
<1>9. Laid(h) /\ Sized(h, Len(h))
  BY <1>2, <1>7, <1>8 DEF Laid, Sized
<1> QED BY <1>2, <1>3, <1>4, <1>8, <1>9

\* The headers that the muxer starts with.
LEMMA HeaderMuxOK == \A h \in Headers : MuxOK(h, 0, <<>>)
<1> SUFFICES ASSUME NEW h \in Headers PROVE MuxOK(h, 0, <<>>)
  OBVIOUS
<1>1. /\ Laid(h) /\ Sized(h, Len(h)) /\ Len(h) \in Nat /\ Len(h) > 0
      /\ h[1].el = "ebml" /\ (Len(h) > 1 => h[2] = Segment(Unknown))
      /\ \A k \in 3 .. Len(h) : h[k].el \in {"void", "seekhead", "info", "tracks", "tags"}
      /\ \A k \in 1 .. Len(h) : h[k].el \notin {"cluster", "timestamp", "simple", "group"}
  BY HeaderLaid
<1>2. \A n \in 0 .. Len(h) : None(h, "cluster", n)
  <2>1. \A n \in 0 .. Len(h) : \A k \in 1 .. n : k \in 1 .. Len(h)
    BY <1>1
  <2> QED BY <1>1, <2>1 DEF None
<1>3. Settled(h, 0)
  <2>1. Len(h) \in 0 .. Len(h)
    BY <1>1
  <2>2. \A p \in 1 .. Len(h) : ~LastOf(h, "cluster", p, Len(h))
    BY <1>1 DEF LastOf
  <2> QED BY <1>1, <2>2 DEF Settled
<1>4. MeantIn(<<>>, Len(h)) /\ \A k \in 1 .. Len(<<>>) : <<>>[k].cell > 2
  <2>1. <<>> \in Seq({}) /\ Len(<<>>) = 0 /\ 1 .. 0 = {}
    OBVIOUS
  <2> QED BY <2>1 DEF MeantIn, IsSeq
<1>5. ASSUME NEW n \in 0 .. Len(h) - 1
      PROVE  Placed(h, n) /\ First(h, n) /\ ~IsBlock(h[n + 1]) /\ Sized(h, n + 1) /\ MeantIn(<<>>, n)
  <2>1. n \in Nat /\ n + 1 \in 1 .. Len(h)
    BY <1>1
  <2>2. n = 0 \/ (n = 1 /\ Len(h) > 1) \/ (n >= 2 /\ n + 1 \in 3 .. Len(h))
    BY <1>1
  <2>3. Placed(h, n)
    <3>1. CASE n = 0
      BY <1>1, <3>1 DEF Placed
    <3>2. CASE n = 1 /\ Len(h) > 1
      <4>1. h[2].el = "segment" /\ h[2].size = Unknown
        BY <1>1, <3>2 DEF Segment
      <4> QED BY <3>2, <4>1 DEF Placed
    <3>3. CASE n >= 2 /\ n + 1 \in 3 .. Len(h)
      <4>1. None(h, "cluster", n)
        BY <1>2
      <4>2. h[n + 1].el \in {"void", "seekhead", "info", "tracks", "tags"}
        BY <1>1, <3>3
      <4> QED BY <3>3, <4>1, <4>2 DEF Placed
    <3> QED BY <2>2, <3>1, <3>2, <3>3
  <2>4. ASSUME h[n + 1].el \in {"info", "tracks"} PROVE None(h, h[n + 1].el, n)
    <3> SUFFICES ASSUME NEW i \in 1 .. n, h[i].el = h[n + 1].el PROVE FALSE
      BY DEF None
    <3>1. i \in 1 .. Len(h) /\ i # n + 1
      BY <1>1
    <3> QED BY <1>1, <2>1, <2>4, <3>1 DEF Laid
  <2>5. /\ h[n + 1].el = "info" => h[n + 1].scale \in Nat \ {0}
        /\ h[n + 1].el = "tracks" => IsSeq(h[n + 1].entries)
    BY <1>1, <2>1 DEF Laid, TracksOK
  <2>6. First(h, n)
    BY <2>4, <2>5 DEF First
  <2>7. Sized(h, n + 1)
    <3>1. \A i \in 1 .. n + 1 : i \in 1 .. Len(h)
      BY <1>1
    <3> QED BY <1>1, <3>1 DEF Sized
  <2>8. MeantIn(<<>>, n)
    <3>1. <<>> \in Seq({}) /\ Len(<<>>) = 0 /\ 1 .. 0 = {}
      OBVIOUS
    <3> QED BY <3>1 DEF MeantIn, IsSeq
  <2> QED BY <1>1, <2>1, <2>3, <2>6, <2>7, <2>8 DEF IsBlock
<1>6. ASSUME NEW M \in Nat PROVE ReadsAt(h, <<>>, ScaleOf(h), M)
  <2> DEFINE sc == ScaleOf(h)
             Right(n) == \A f : WalksTo(f, h, n, M) =>
                /\ Clean(h, n, M) => Reads(f[n], h, <<>>, n, M, sc)
                /\ (n > 0 /\ Clean(h, n - 1, M) /\ n <= M /\ BrokenAt(h, n, M))
                      => Stopped(f[n], f[n - 1])
             S == {n \in Nat : n <= Len(h) => Right(n)}
  <2> HIDE DEF sc
  <2>1. 0 \in S
    <3>1. \A f : WalksTo(f, h, 0, M) => f[0] = Demuxer0
      BY DEF WalksTo
    <3> QED BY <3>1, ReadsNothing
  <2>2. ASSUME NEW n \in Nat, n \in S PROVE n + 1 \in S
    <3> SUFFICES ASSUME n + 1 <= Len(h), NEW f, WalksTo(f, h, n + 1, M)
                 PROVE  /\ Clean(h, n + 1, M) => Reads(f[n + 1], h, <<>>, n + 1, M, sc)
                        /\ (Clean(h, n, M) /\ n + 1 <= M /\ BrokenAt(h, n + 1, M))
                              => Stopped(f[n + 1], f[n])
      <4>1. (n + 1) - 1 = n
        OBVIOUS
      <4> QED BY <4>1
    <3>1. WalksTo(f, h, n, M) /\ f[n + 1] = ReadCell(f[n], h[n + 1], M)
      <4>1. n + 1 \in 1 .. n + 1 /\ (n + 1) - 1 = n /\ \A k \in 1 .. n : k \in 1 .. n + 1
        OBVIOUS
      <4> QED BY <4>1 DEF WalksTo
    <3>2. Clean(h, n, M) => Reads(f[n], h, <<>>, n, M, sc)
      <4>1. n <= Len(h)
        BY <1>1
      <4> QED BY <2>2, <3>1, <4>1
    <3>3. n + 1 <= M => NextReads(h, <<>>, <<>>, n, M, sc)
      <4>1. n \in 0 .. Len(h) - 1
        BY <1>1
      <4>2. Placed(h, n) /\ First(h, n) /\ ~IsBlock(h[n + 1]) /\ Sized(h, n + 1) /\ MeantIn(<<>>, n)
        BY <1>5, <4>1
      <4> QED BY <4>2, CellReads
    <3>4. Clean(h, n + 1, M) => Clean(h, n, M) /\ ~BrokenAt(h, n + 1, M) /\ n + 1 <= M
      BY DEF Clean
    <3> QED BY <3>1, <3>2, <3>3, <3>4 DEF NextReads
  <2>3. ASSUME NEW n \in 0 .. Len(h) PROVE Right(n)
    <3>1. n \in S
      <4> HIDE DEF S
      <4> QED BY <1>1, <2>1, <2>2, NatSetInduction
    <3> QED BY <1>1, <3>1
  <2> QED BY <2>3 DEF ReadsAt, sc
<1> QED BY <1>1, <1>3, <1>4, <1>6 DEF MuxOK

\* No frame more is meant.
LEMMA MeantSame == ASSUME NEW ms, NEW n \in Nat, MeantIn(ms, n) PROVE MeantMore(ms, ms, n) /\ MeantIn(ms, n + 1)
<1>1. Len(ms) \in Nat /\ Len(ms) + 1 .. Len(ms) = {}
  BY IsSeqType DEF MeantIn
<1> QED BY <1>1 DEF MeantIn, MeantMore

\* One cell without frames more.
LEMMA ReadsAtCell ==
    ASSUME NEW F, Len(F) \in Nat, NEW c, NEW G, Extended(G, F, c), Placed(G, Len(F)), First(G, Len(F)),
           Sized(G, Len(F) + 1), ~IsBlock(c),
           NEW ms, MeantIn(ms, Len(F)), NEW sc, NEW M \in Nat, ReadsAt(F, ms, sc, M)
    PROVE  ReadsAt(G, ms, sc, M)
<1>1. G[Len(F) + 1] = c /\ MeantMore(ms, ms, Len(F))
  BY MeantSame DEF Extended
<1>2. Len(F) + 1 <= M => NextReads(G, ms, ms, Len(F), M, sc)
  BY <1>1, CellReads
<1> QED BY <1>1, <1>2, ReadsAtNext

\* The muxer opens a cluster behind the header or a complete cluster.
LEMMA ClusterMuxOK ==
    ASSUME NEW F, NEW owed \in {0, Unknown}, NEW ms, MuxOK(F, owed, ms),
           NEW i \in 1 .. Len(F), F[i].el = "tracks",
           NEW size \in {Unknown} \cup (Nat \ {0}), NEW ts \in Nat,
           NEW G, IsSeq(G), Extended(G, F, Cluster(size)),
           NEW H, IsSeq(H), Extended(H, G, Timestamp(ts))
    PROVE  MuxOK(H, IF size = Unknown THEN Unknown ELSE size - 1, ms)
<1> DEFINE n == Len(F)
<1>0. Laid(F) /\ Settled(F, owed) /\ MeantIn(ms, n) /\ (\A k \in 1 .. Len(ms) : ms[k].cell > 2)
      /\ \A M \in Nat : ReadsAt(F, ms, ScaleOf(F), M)
  BY DEF MuxOK
<1>1. n \in Nat /\ Len(G) = n + 1 /\ G[n + 1] = Cluster(size) /\ \A j \in 1 .. n : G[j] = F[j]
  BY <1>0, IsSeqType DEF Laid, Extended
<1>2. Cluster(size).el = "cluster" /\ Cluster(size).size = size
      /\ Timestamp(ts).el = "timestamp" /\ Timestamp(ts).ts = ts
  BY DEF Cluster, Timestamp
<1>3. Laid(G) /\ ScaleOf(G) = ScaleOf(F) /\ Sized(G, Len(G)) /\ First(G, n)
  BY <1>0, <1>2, LaidNext
<1>4. Laid(H) /\ ScaleOf(H) = ScaleOf(G) /\ Sized(H, Len(H)) /\ First(H, Len(G))
  BY <1>2, <1>3, LaidNext
<1>5. Placed(G, n)
  BY <1>0, <1>2, PlacedOnTop
<1> HIDE DEF n
<1>6. Len(H) = n + 2 /\ H[n + 2] = Timestamp(ts) /\ \A j \in 1 .. n + 1 : H[j] = G[j]
  <2>1. (n + 1) + 1 = n + 2
    BY <1>1
  <2> QED BY <1>1, <2>1 DEF Extended
<1>7. Placed(H, n + 1)
  <2>1. (n + 1) + 1 = n + 2 /\ n + 1 \in 1 .. n + 1 /\ n + 2 .. n + 1 = {}
    BY <1>1
  <2>2. H[n + 1].el = "cluster" /\ H[n + 1].size = size /\ H[n + 2].el = "timestamp"
    BY <1>1, <1>2, <1>6, <2>1
  <2>3. LastOf(H, "cluster", n + 1, n + 1)
    BY <1>1, <2>1, <2>2 DEF LastOf
  <2>4. Endless(H, n + 1) \/ Within(H, n + 1)
    <3>1. CASE size = Unknown
      BY <2>1, <2>2, <2>3, <3>1 DEF Endless
    <3>2. CASE size # Unknown
      <4>1. n + 1 < (n + 1) + size
        BY <1>1, <3>2
      <4> QED BY <2>1, <2>2, <2>3, <3>2, <4>1 DEF Within
    <3> QED BY <3>1, <3>2
  <2> QED BY <2>1, <2>2, <2>4 DEF Placed
<1>8. MeantIn(ms, n + 1) /\ MeantIn(ms, n + 2)
  <2>1. MeantIn(ms, n + 1)
    BY <1>0, <1>1, MeantSame DEF n
  <2>2. n + 1 \in Nat /\ (n + 1) + 1 = n + 2
    BY <1>1
  <2> QED BY <2>1, <2>2, MeantSame
<1>9. ASSUME NEW M \in Nat PROVE ReadsAt(H, ms, ScaleOf(H), M)
  <2>1. ~IsBlock(Cluster(size)) /\ ~IsBlock(Timestamp(ts))
    BY <1>2 DEF IsBlock
  <2>2. ReadsAt(G, ms, ScaleOf(F), M)
    <3>1. Sized(G, Len(F) + 1)
      BY <1>1, <1>3 DEF n
    <3> QED BY <1>0, <1>1, <1>3, <1>5, <2>1, <3>1, ReadsAtCell DEF n
  <2>3. Sized(H, Len(G) + 1) /\ Len(G) \in Nat /\ Placed(H, Len(G)) /\ MeantIn(ms, Len(G))
    <3>1. Len(G) + 1 = n + 2
      BY <1>1
    <3> QED BY <1>1, <1>4, <1>6, <1>7, <1>8, <3>1
  <2>4. ReadsAt(H, ms, ScaleOf(F), M)
    BY <1>4, <2>1, <2>2, <2>3, ReadsAtCell
  <2> QED BY <1>3, <1>4, <2>4
<1>10. Settled(H, IF size = Unknown THEN Unknown ELSE size - 1)
  BY <1>0, SettledCluster
<1> QED BY <1>0, <1>4, <1>6, <1>8, <1>9, <1>10 DEF MuxOK

\* The muxer writes tags behind a complete cluster or in one without a size.
LEMMA TagsMuxOK ==
    ASSUME NEW F, NEW owed \in {0, Unknown}, NEW ms, MuxOK(F, owed, ms),
           NEW i \in 1 .. Len(F), F[i].el = "cluster",
           NEW c, c.el = "tags", NEW G, IsSeq(G), Extended(G, F, c)
    PROVE  MuxOK(G, 0, ms)
<1> DEFINE n == Len(F)
<1>0. Laid(F) /\ Settled(F, owed) /\ MeantIn(ms, n) /\ (\A k \in 1 .. Len(ms) : ms[k].cell > 2)
      /\ \A M \in Nat : ReadsAt(F, ms, ScaleOf(F), M)
  BY DEF MuxOK
<1>1. n \in Nat /\ Len(G) = n + 1 /\ G[n + 1] = c
  BY <1>0, IsSeqType DEF Laid, Extended
<1>2. Laid(G) /\ ScaleOf(G) = ScaleOf(F) /\ Sized(G, Len(G)) /\ First(G, n)
  BY <1>0, LaidNext
<1>3. PICK j \in 1 .. n : F[j].el = "tracks"
  <2>1. \E j \in 1 .. i : F[j].el = "tracks"
    BY <1>0 DEF Laid
  <2>2. 1 .. i \subseteq 1 .. n
    BY <1>1
  <2> QED BY <2>1, <2>2
<1>4. Placed(G, n)
  BY <1>0, <1>3, PlacedOnTop
<1>5. Settled(G, 0)
  <2>1. owed \in Nat => owed <= 1
    BY DEF Unknown
  <2> QED BY <1>0, <2>1, SettledNext
<1>6. ASSUME NEW M \in Nat PROVE ReadsAt(G, ms, ScaleOf(G), M)
  <2>1. ~IsBlock(c)
    BY DEF IsBlock
  <2> QED BY <1>0, <1>1, <1>2, <1>4, <2>1, ReadsAtCell
<1>7. MeantIn(ms, n + 1)
  BY <1>0, <1>1, MeantSame
<1> QED BY <1>0, <1>1, <1>2, <1>5, <1>6, <1>7 DEF MuxOK

\* What the muxer has put into the file with the block b, where a timestamp t
\* and the tracks i of the file apply to it.
Blocked(F, G, owes, ms, b, rest) ==
    \E t, i :
        /\ t \in 1 .. Len(F) /\ LastOf(F, "timestamp", t, Len(F))
        /\ i \in 1 .. Len(F) /\ F[i].el = "tracks"
        /\ MuxOK(G, owes, Joined(ms, FramesOf(b, rest, F[t].ts, Len(F) + 1, ScaleOf(F),
                                              EachOf(F[i].entries, b.track))))

\* A block of the open cluster, t the last timestamp and i the Tracks element.
LEMMA BlockMuxOK ==
    ASSUME NEW F, NEW owed, owed # 0, NEW ms, MuxOK(F, owed, ms),
           NEW b \in Blocks, NEW rest, Len(rest) = SumTo(b.sizes, Len(b.sizes)),
           NEW G, IsSeq(G), Extended(G, F, Encode(b, rest)),
           NEW owes, owes = IF owed = Unknown THEN Unknown ELSE owed - 1
    PROVE  Blocked(F, G, owes, ms, b, rest)
<1> DEFINE n == Len(F)
           c == Encode(b, rest)
           sc == ScaleOf(F)
<1>0. Laid(F) /\ Settled(F, owed) /\ MeantIn(ms, n) /\ (\A k \in 1 .. Len(ms) : ms[k].cell > 2)
      /\ \A M \in Nat : ReadsAt(F, ms, ScaleOf(F), M)
  BY DEF MuxOK
<1>1. n \in Nat /\ Len(G) = n + 1 /\ G[n + 1] = c /\ \A j \in 1 .. n : G[j] = F[j]
  BY <1>0, IsSeqType DEF Laid, Extended
<1>2. BlockOK(b) /\ c.el \in {"simple", "group"}
  BY BlocksOK, EncodeIs DEF EncodedAs, IsBlock
<1> HIDE DEF c
<1>3. Laid(G) /\ ScaleOf(G) = sc /\ Sized(G, Len(G)) /\ First(G, n)
  BY <1>0, <1>2, LaidNext DEF c
<1>4. /\ Placed(G, n)
      /\ \E p \in 1 .. n : p < n /\ LastOf(F, "cluster", p, n)
      /\ \E t \in 1 .. n : LastOf(F, "timestamp", t, n)
  BY <1>0, <1>2, PlacedInCluster DEF c
<1>5. PICK p \in 1 .. n : p < n /\ LastOf(F, "cluster", p, n)
  BY <1>4
<1>6. PICK t \in 1 .. n : LastOf(F, "timestamp", t, n)
  BY <1>4
<1>7. PICK i \in 1 .. n : F[i].el = "tracks"
  <2>1. F[p].el = "cluster"
    BY <1>5 DEF LastOf
  <2>2. \E j \in 1 .. p : F[j].el = "tracks"
    BY <1>0, <2>1 DEF Laid
  <2>3. 1 .. p \subseteq 1 .. n
    BY <1>1
  <2> QED BY <2>2, <2>3
<1>8. LastOf(G, "timestamp", t, n) /\ G[t] = F[t] /\ F[t].ts \in Nat /\ G[i] = F[i]
      /\ LastOf(G, "cluster", p, n)
  <2>1. LastOf(G, "timestamp", t, n) /\ LastOf(G, "cluster", p, n)
    BY <1>0, <1>1, <1>5, <1>6, ScopesStay
  <2>2. F[t].ts \in Nat
    BY <1>0, <1>6 DEF LastOf, Laid
  <2> QED BY <1>1, <2>1, <2>2
<1>9. TracksOK(F[i].entries) /\ \E k \in 1 .. Len(F[i].entries) : F[i].entries[k].number = b.track
  BY <1>0, <1>7 DEF Laid
<1>10. sc \in Nat \ {0} /\ \A d : HeadSeen(d, G, n) => d.scale = sc
  <2>1. sc \in Nat \ {0}
    BY <1>0, ScaleIs
  <2>2. ASSUME NEW d, HeadSeen(d, G, n) PROVE d.scale = sc
    <3>1. CASE None(F, "info", n)
      <4>1. None(G, "info", n)
        BY <1>1, <3>1 DEF None
      <4> QED BY <1>0, <2>2, <3>1, <4>1, ScaleIs DEF HeadSeen
    <3>2. CASE ~None(F, "info", n)
      <4>1. PICK j \in 1 .. n : F[j].el = "info"
        BY <3>2 DEF None
      <4>2. sc = F[j].scale
        BY <1>0, <4>1, ScaleIs
      <4> QED BY <1>1, <2>2, <4>1, <4>2 DEF HeadSeen
    <3> QED BY <3>1, <3>2
  <2> QED BY <2>1, <2>2
<1>11. BlockAt(G, n, b, rest, t, i, sc)
  <2> HIDE DEF sc, n
  <2> QED BY <1>1, <1>2, <1>5, <1>7, <1>8, <1>9, <1>10 DEF BlockAt, c
<1> DEFINE each == EachOf(F[i].entries, b.track)
           fs == FramesOf(b, rest, F[t].ts, n + 1, sc, each)
           ns == Joined(ms, fs)
<1>12. BlockFrames(G, n, b, rest, t, i, sc) = fs
  BY <1>8 DEF BlockFrames
<1>13. IsSeq(fs) /\ Len(fs) \in Nat /\ \A k \in 1 .. Len(fs) : fs[k].cell = n + 1
  BY <1>2, FramesType
<1> HIDE DEF fs
<1>14. Follows(ns, ms, fs)
  BY <1>0, <1>13, IsSeqConcat DEF MeantIn
<1>15. n > 2
  BY <1>0, <1>1, <1>7 DEF Laid
<1> HIDE DEF ns
<1>16. \A k \in 1 .. Len(ns) : IF k <= Len(ms) THEN k \in 1 .. Len(ms) /\ ns[k] = ms[k]
                               ELSE ns[k].cell = n + 1
  <2> SUFFICES ASSUME NEW k \in 1 .. Len(ns)
               PROVE  IF k <= Len(ms) THEN k \in 1 .. Len(ms) /\ ns[k] = ms[k]
                      ELSE ns[k].cell = n + 1
    OBVIOUS
  <2>1. Len(ms) \in Nat /\ Len(fs) \in Nat /\ Len(ns) = Len(ms) + Len(fs)
    BY <1>14 DEF Follows
  <2>2. CASE k <= Len(ms)
    <3>1. k \in 1 .. Len(ms)
      BY <2>1, <2>2
    <3> QED BY <1>14, <2>2, <3>1 DEF Follows
  <2>3. CASE ~(k <= Len(ms))
    <3>1. k - Len(ms) \in 1 .. Len(fs) /\ Len(ms) + (k - Len(ms)) = k
      BY <2>1, <2>3
    <3>2. ns[k] = fs[k - Len(ms)]
      BY <1>14, <3>1 DEF Follows
    <3> QED BY <1>13, <2>3, <3>1, <3>2
  <2> QED BY <2>2, <2>3
<1>17. MeantMore(ms, ns, n)
  <2>1. Len(ms) \in Nat /\ Len(ns) \in Nat /\ Len(ms) <= Len(ns)
    BY <1>13, <1>14 DEF Follows
  <2>2. \A k \in Len(ms) + 1 .. Len(ns) : k \in 1 .. Len(ns) /\ ~(k <= Len(ms))
    BY <2>1
  <2>3. \A k \in 1 .. Len(ms) : ns[k] = ms[k]
    BY <1>14 DEF Follows
  <2> QED BY <1>16, <2>1, <2>2, <2>3 DEF MeantMore
<1>18. MeantIn(ns, n + 1) /\ \A k \in 1 .. Len(ns) : ns[k].cell > 2
  <2>1. ASSUME NEW k \in 1 .. Len(ns) PROVE ns[k].cell \in 1 .. n + 1 /\ ns[k].cell > 2
    <3>1. CASE k <= Len(ms)
      <4>1. k \in 1 .. Len(ms) /\ ns[k] = ms[k]
        BY <1>16, <3>1
      <4>2. ms[k].cell \in 1 .. n /\ ms[k].cell > 2
        BY <1>0, <4>1 DEF MeantIn
      <4>3. ms[k].cell \in 1 .. n + 1
        BY <1>1, <4>2
      <4> QED BY <4>1, <4>2, <4>3
    <3>2. CASE ~(k <= Len(ms))
      <4>1. ns[k].cell = n + 1
        BY <1>16, <3>2
      <4> QED BY <1>1, <1>15, <4>1
    <3> QED BY <3>1, <3>2
  <2>2. IsSeq(ns)
    BY <1>14 DEF Follows
  <2> QED BY <2>1, <2>2 DEF MeantIn
<1>19. ASSUME NEW M \in Nat PROVE ReadsAt(G, ns, ScaleOf(G), M)
  <2>1. n + 1 <= M => NextReads(G, ms, ns, n, M, sc)
    <3>1. Sized(G, n + 1)
      BY <1>1, <1>3
    <3> HIDE DEF n, sc
    <3> QED BY <1>0, <1>1, <1>4, <1>11, <1>12, <3>1, BlockReads DEF ns
  <2>2. ReadsAt(F, ms, sc, M)
    BY <1>0
  <2>3. ReadsAt(G, ns, sc, M)
    BY <1>1, <1>17, <2>1, <2>2, ReadsAtNext DEF c
  <2> QED BY <1>3, <2>3
<1>20. Settled(G, owes)
  <2>1. c.el # "cluster"
    BY <1>2
  <2>2. ~None(F, "cluster", n)
    BY <1>5 DEF LastOf, None
  <2>3. /\ owed \in {0, Unknown} => owes \in {0, Unknown}
        /\ owed \in Nat => owes \in Nat /\ (owes = 0 \/ owes = owed - 1) /\ (owes = 0 => owed <= 1)
    BY DEF Unknown
  <2> QED BY <1>0, <2>1, <2>2, <2>3, SettledNext DEF c
<1>21. MuxOK(G, owes, ns)
  BY <1>1, <1>3, <1>18, <1>19, <1>20 DEF MuxOK
<1> QED BY <1>6, <1>7, <1>21 DEF ns, fs, Blocked

-----------------------------------------------------------------------------
(* The muxer.                                                              *)

\* What the muxer counts is there.
LEMMA CountIs ==
    ASSUME IsSeq(file), NEW el, Count(el) > 0
    PROVE  \E i \in 1 .. Len(file) : file[i].el = el
<1> DEFINE S == {i \in DOMAIN file : file[i].el = el}
<1>1. DOMAIN file = 1 .. Len(file)
  BY IsSeqType
<1>2. ASSUME S = {} PROVE FALSE
  <2>1. Cardinality(S) = 0
    BY <1>2, FS_EmptySet
  <2> QED BY <2>1 DEF Count
<1> QED BY <1>1, <1>2

\* MuxCluster keeps the file as it should be.
LEMMA ClustersMux ==
    ASSUME FileInv, MuxOK(file, left, meant), MuxCluster
    PROVE  MuxOK(file', left', meant')
<1>1. Laid(file) /\ IsSeq(file)
  BY DEF MuxOK, Laid
<1>2. PICK i \in 1 .. Len(file) : file[i].el = "tracks"
  BY <1>1, CountIs DEF MuxCluster
<1>3. PICK c \in Clusters : file' = file \o <<Cluster(c.size), Timestamp(c.ts)>>
                            /\ left' = IF c.size = Unknown THEN Unknown ELSE c.size - 1
  BY DEF MuxCluster
<1>4. c.ts \in Nat /\ c.size \in {Unknown} \cup (Nat \ {0})
  BY MuxerAssumption
<1>5. CellOK(Cluster(c.size)) /\ CellOK(Timestamp(c.ts))
  BY <1>4 DEF CellOK, Cluster, Timestamp, IsBlock
<1> DEFINE G == Append(file, Cluster(c.size))
           H == Append(G, Timestamp(c.ts))
<1>6. file' = H
  <2>1. CellsOK(file)
    BY DEF FileInv
  <2> DEFINE u == Cluster(c.size)
             v == Timestamp(c.ts)
  <2>2. CellOK(u) /\ CellOK(v)
    BY <1>5
  <2>3. file' = file \o <<u, v>> /\ H = Append(Append(file, u), v)
    BY <1>3
  <2> HIDE DEF u, v, H
  <2>4. file \o <<u, v>> = Append(Append(file, u), v)
    BY <2>1, <2>2, CellsAppend2
  <2> QED BY <2>3, <2>4
<1>7. IsSeq(G) /\ Extended(G, file, Cluster(c.size))
  BY <1>1, SeqAppend
<1>8. IsSeq(H) /\ Extended(H, G, Timestamp(c.ts))
  <2> HIDE DEF G
  <2> QED BY <1>7, SeqAppend
<1>9. left \in {0, Unknown} /\ meant' = meant
  BY DEF MuxCluster
<1> HIDE DEF G, H
<1> QED BY <1>2, <1>3, <1>4, <1>6, <1>7, <1>8, <1>9, ClusterMuxOK

\* So does MuxTags.
LEMMA TagsMux ==
    ASSUME MuxOK(file, left, meant), MuxTags
    PROVE  MuxOK(file', left', meant')
<1>1. Laid(file) /\ IsSeq(file)
  BY DEF MuxOK, Laid
<1>2. PICK i \in 1 .. Len(file) : file[i].el = "cluster"
  BY <1>1, CountIs DEF MuxTags
<1>3. PICK map \in LateTags : file' = Append(file, Tags(map))
  BY DEF MuxTags
<1> DEFINE c == Tags(map)
           G == Append(file, c)
<1>4. c.el = "tags"
  BY DEF Tags
<1>5. IsSeq(G) /\ Extended(G, file, c)
  BY <1>1, SeqAppend
<1>6. left \in {0, Unknown} /\ meant' = meant /\ left' = 0 /\ file' = G
  BY <1>3 DEF MuxTags
<1> HIDE DEF G, c
<1> QED BY <1>2, <1>4, <1>5, <1>6, TagsMuxOK

\* So does MuxBlock.
LEMMA BlocksMux ==
    ASSUME MuxOK(file, left, meant), MuxBlock
    PROVE  MuxOK(file', left', meant')
<1>1. Laid(file) /\ IsSeq(file) /\ Len(file) \in Nat
  BY IsSeqType DEF MuxOK, Laid
<1> DEFINE last == SelectLastInSeq(file, LAMBDA c : c.el = "timestamp")
           Rest(b) == [i \in 1 .. SumTo(b.sizes, Len(b.sizes)) |-> <<Len(file), i>>]
<1>2. PICK b \in Blocks : /\ file' = Append(file, Encode(b, Rest(b)))
                          /\ meant' = meant \o Frames(b, Rest(b), file[last].ts)
  BY DEF MuxBlock
<1> DEFINE rest == Rest(b)
           G == Append(file, Encode(b, rest))
<1>3. Len(rest) = SumTo(b.sizes, Len(b.sizes))
  <2>1. b.sizes \in Seq(Nat) /\ Len(b.sizes) \in Nat
    BY BlocksOK DEF BlockOK
  <2>2. \A k \in 1 .. Len(b.sizes) : b.sizes[k] \in Nat
    BY <2>1
  <2> DEFINE total == SumTo(b.sizes, Len(b.sizes))
  <2>3. total \in Nat
    <3>1. Len(b.sizes) \in 0 .. Len(b.sizes)
      BY <2>1
    <3> HIDE DEF rest, G, Rest
    <3> QED BY <2>1, <2>2, <3>1, SumToNat
  <2> HIDE DEF total
  <2>4. Len([i \in 1 .. total |-> <<Len(file), i>>]) = total
    BY <2>3
  <2> QED BY <2>4 DEF total
<1>4. IsSeq(G) /\ Extended(G, file, Encode(b, rest))
  BY <1>1, SeqAppend
<1> HIDE DEF rest, G
<1>5. left # 0 /\ left' = (IF left = Unknown THEN Unknown ELSE left - 1)
  BY DEF MuxBlock
<1> DEFINE owes == left'
<1>50. owes = IF left = Unknown THEN Unknown ELSE left - 1
  BY <1>5
<1> HIDE DEF owes
<1>60. Blocked(file, G, owes, meant, b, rest)
  BY <1>3, <1>4, <1>5, <1>50, BlockMuxOK
<1>6. PICK t, i :
         /\ t \in 1 .. Len(file) /\ LastOf(file, "timestamp", t, Len(file))
         /\ i \in 1 .. Len(file) /\ file[i].el = "tracks"
         /\ MuxOK(G, owes, Joined(meant, FramesOf(b, rest, file[t].ts, Len(file) + 1, ScaleOf(file),
                                                   EachOf(file[i].entries, b.track))))
  BY <1>60 DEF Blocked
<1>7. last = t
  <2> DEFINE I == {j \in 1 .. Len(file) : file[j].el = "timestamp"}
  <2>1. last = IF I # {} THEN Max(I) ELSE 0
    BY DEF SelectLastInSeq
  <2>2. t \in I /\ \A j \in I : j <= t
    BY <1>1, <1>6 DEF LastOf
  <2>3. I \subseteq 1 .. Len(file)
    OBVIOUS
  <2> HIDE DEF last, I
  <2>4. last \in I /\ \A j \in I : j <= last
    BY <1>1, <2>1, <2>2, <2>3, LastWhere
  <2>5. last <= t /\ t <= last /\ last \in Nat /\ t \in Nat
    BY <1>1, <2>2, <2>3, <2>4
  <2> QED BY <2>5
<1>8. TracksOf(file) = i
  BY <1>1, <1>6, ScaleIs
<1>9. Frames(b, rest, file[t].ts)
        = FramesOf(b, rest, file[t].ts, Len(file) + 1, ScaleOf(file), EachOf(file[i].entries, b.track))
  <2>1. ScaleIn = ScaleOf(file)
    BY DEF ScaleIn, ScaleOf, InfoOf
  <2>2. Frames(b, rest, file[t].ts)
          = FramesOf(b, rest, file[t].ts, Len(file) + 1, ScaleIn, EachOf(file[TracksOf(file)].entries, b.track))
    BY DEF Frames, FramesOf, DataOf, EachOf, TracksOf, LostOf, Single
  <2> QED BY <1>8, <2>1, <2>2
<1> HIDE DEF last
<1>10. meant' = Joined(meant, FramesOf(b, rest, file[t].ts, Len(file) + 1, ScaleOf(file),
                                       EachOf(file[i].entries, b.track)))
  BY <1>2, <1>7, <1>9 DEF Joined, rest
<1>11. file' = G
  BY <1>2 DEF G, rest
<1> QED BY <1>6, <1>10, <1>11 DEF owes

-----------------------------------------------------------------------------
(* The muxer stops.                                                        *)

\* What is said of a finished file.
Finished(G, ms) ==
    /\ IsSeq(G) /\ IsSeq(ms) /\ \A k \in 1 .. Len(ms) : ms[k].cell \in Nat
    /\ ReadsAt(G, ms, ScaleOf(G), Len(G))

\* Files with the same Info have the same time scale.
LEMMA ScaleSame ==
    ASSUME NEW F, Laid(F), NEW G, IsSeq(G),
           \A i \in 1 .. Len(G) : G[i].el = "info" => i \in 1 .. Len(F) /\ G[i] = F[i],
           \A i \in 1 .. Len(F) : F[i].el = "info" => i \in 1 .. Len(G) /\ G[i] = F[i]
    PROVE  ScaleOf(G) = ScaleOf(F)
<1>1. Len(F) \in Nat /\ Len(G) \in Nat
  BY IsSeqType DEF Laid
<1> DEFINE I == {i \in 1 .. Len(G) : G[i].el = "info"}
           k == SelectInSeq(G, LAMBDA c : c.el = "info")
<1>2. k = IF I # {} THEN Min(I) ELSE 0
  BY DEF SelectInSeq
<1>3. I \subseteq 1 .. Len(G)
  OBVIOUS
<1>4. ScaleOf(G) = IF k = 0 THEN 1 ELSE G[k].scale
  BY DEF ScaleOf, Demuxer0
<1>5. (k = 0 => I = {}) /\ (k # 0 => k \in I)
  <2> HIDE DEF I, k
  <2> QED BY <1>1, <1>2, <1>3, FirstWhere
<1> HIDE DEF k
<1>6. CASE k = 0
  <2>1. None(F, "info", Len(F))
    BY <1>5, <1>6 DEF None
  <2> QED BY <1>4, <1>6, <2>1, ScaleIs
<1>7. CASE k # 0
  <2>1. k \in 1 .. Len(F) /\ G[k] = F[k] /\ F[k].el = "info"
    BY <1>5, <1>7
  <2> QED BY <1>4, <1>7, <2>1, ScaleIs
<1> QED BY <1>6, <1>7

\* It leaves the file as it is,
LEMMA EndsWhole ==
    ASSUME NEW F, NEW owed, NEW ms, MuxOK(F, owed, ms)
    PROVE  Finished(F, ms)
<1>1. Laid(F) /\ MeantIn(ms, Len(F)) /\ IsSeq(F)
  BY DEF MuxOK, Laid
<1>2. Len(F) \in Nat
  BY <1>1, IsSeqType
<1>3. ReadsAt(F, ms, ScaleOf(F), Len(F))
  BY <1>2 DEF MuxOK
<1>4. \A k \in 1 .. Len(ms) : ms[k].cell \in Nat
  BY <1>1, <1>2 DEF MeantIn
<1> QED BY <1>1, <1>3, <1>4 DEF Finished, MeantIn

\* with an element cut short,
LEMMA EndsTorn ==
    ASSUME NEW F, NEW owed, NEW ms, MuxOK(F, owed, ms), NEW G, IsSeq(G), Extended(G, F, Torn)
    PROVE  Finished(G, ms)
<1> DEFINE n == Len(F)
<1>1. Laid(F) /\ MeantIn(ms, n) /\ IsSeq(F) /\ n \in Nat
  BY IsSeqType DEF MuxOK, Laid
<1>2. Len(G) = n + 1 /\ G[n + 1] = Torn /\ \A i \in 1 .. n : G[i] = F[i]
  BY <1>1 DEF Extended
<1>3. Torn.el = "torn"
  BY DEF Torn
<1>4. ScaleOf(G) = ScaleOf(F)
  <2>1. ASSUME NEW i \in 1 .. Len(G), G[i].el = "info" PROVE i \in 1 .. n /\ G[i] = F[i]
    BY <1>1, <1>2, <1>3, <2>1
  <2>2. \A i \in 1 .. n : i \in 1 .. Len(G) /\ G[i] = F[i]
    BY <1>1, <1>2
  <2> HIDE DEF n
  <2> QED BY <1>1, <2>1, <2>2, ScaleSame DEF n
<1>5. Sized(G, n)
  BY <1>1, <1>2 DEF Sized, Laid
<1>6. n + 1 <= n + 1 => NextReads(G, ms, ms, n, n + 1, ScaleOf(F))
  <2> HIDE DEF n
  <2> QED BY <1>1, <1>2, <1>5, TornReads
<1>7. MeantMore(ms, ms, n) /\ MeantIn(ms, n + 1)
  BY <1>1, MeantSame
<1>8. ReadsAt(F, ms, ScaleOf(F), n + 1)
  BY <1>1 DEF MuxOK
<1>9. ReadsAt(G, ms, ScaleOf(F), n + 1)
  BY <1>1, <1>6, <1>7, <1>8, ReadsAtNext
<1>10. \A k \in 1 .. Len(ms) : ms[k].cell \in Nat
  BY <1>1 DEF MeantIn
<1> QED BY <1>1, <1>2, <1>4, <1>9, <1>10 DEF Finished, MeantIn

\* A Segment of a known size reads like one of unknown size when it reaches to
\* the end of the file, and as an error when it reaches behind it.
LEMMA SegmentRead ==
    ASSUME NEW c, NEW M \in Nat, NEW d, d = ReadCell(Demuxer0, c, M), NEW size \in Nat
    PROVE  /\ size + 2 = M => ReadCell(d, Segment(size), M) = ReadCell(d, Segment(Unknown), M)
           /\ size + 2 > M => Stopped(ReadCell(d, Segment(size), M), d)
<1>1. Shape(d) /\ ((d.phase = "segment" /\ d.pos = 1) \/ d.phase = "error")
  BY DEF ReadCell, Demuxer0, Shape
<1>2. CASE d.phase = "error"
  <2>1. \A e : ReadCell(d, e, M) = d
    BY <1>2 DEF ReadCell
  <2> QED BY <1>2, <2>1 DEF Stopped
<1>3. CASE d.phase = "segment" /\ d.pos = 1
  <2> DEFINE m == Moved(d)
             e == Segment(size)
             u == Segment(Unknown)
  <2>1. e.el = "segment" /\ e.size = size /\ u.el = "segment" /\ u.size = Unknown
    BY DEF Segment
  <2>2. m.pos = 2 /\ size # Unknown
    BY <1>1, <1>3 DEF Unknown, Shape, Demuxer0, Moved
  <2> HIDE DEF e, u, m
  <2>3. ReadCell(d, u, M) = [m EXCEPT !.phase = "header", !.segEnd = M]
    BY <1>3, <2>1 DEF ReadCell, Moved, m
  <2>4. ASSUME size + 2 = M PROVE ReadCell(d, e, M) = [m EXCEPT !.phase = "header", !.segEnd = M]
    <3>1. m.pos + e.size = M
      BY <2>1, <2>2, <2>4
    <3>2. m.pos + e.size <= M
      BY <3>1
    <3> QED BY <1>3, <2>1, <2>2, <3>1, <3>2 DEF ReadCell, Moved, m
  <2>5. ASSUME size + 2 > M PROVE ReadCell(d, e, M) = [d EXCEPT !.phase = "error"]
    <3>1. ~(m.pos + e.size <= M)
      BY <2>1, <2>2, <2>5
    <3> QED BY <1>3, <2>1, <2>2, <3>1 DEF ReadCell, Moved, m
  <2>6. [d EXCEPT !.phase = "error"].phase = "error" /\ [d EXCEPT !.phase = "error"].packets = d.packets
    BY <1>1 DEF Shape, Demuxer0
  <2> QED BY <2>3, <2>4, <2>5, <2>6 DEF Stopped, e, u
<1> QED BY <1>1, <1>2, <1>3

\* or with the size of its Segment in place:
LEMMA EndsPatched ==
    ASSUME NEW F, NEW owed, NEW ms, MuxOK(F, owed, ms), Len(F) > 2, F[2] = Segment(Unknown),
           NEW G, IsSeq(G), Patched(G, F, 2, Segment(Len(F) - 2))
    PROVE  Finished(G, ms)
<1> DEFINE L == Len(F)
           sc == ScaleOf(F)
<1>1. Laid(F) /\ MeantIn(ms, L) /\ IsSeq(F) /\ L \in Nat /\ ReadsAt(F, ms, sc, L)
  BY IsSeqType DEF MuxOK, Laid
<1>2. Len(G) = L /\ G[2] = Segment(L - 2) /\ \A i \in 1 .. L : i # 2 => G[i] = F[i]
  BY DEF Patched
<1>3. G[2].el = "segment" /\ F[2].el = "segment" /\ G[2].size = L - 2 /\ F[2].size = Unknown
  BY <1>2 DEF Segment
<1>4. ScaleOf(G) = sc
  <2>1. \A i \in 1 .. Len(G) : G[i].el = "info" => i \in 1 .. L /\ G[i] = F[i]
    BY <1>1, <1>2, <1>3
  <2>2. \A i \in 1 .. L : F[i].el = "info" => i \in 1 .. Len(G) /\ G[i] = F[i]
    BY <1>1, <1>2, <1>3
  <2> QED BY <1>1, <2>1, <2>2, ScaleSame
<1> HIDE DEF sc
<1>5. ASSUME NEW n \in 0 .. L, NEW f, WalksTo(f, G, n, L) PROVE WalksTo(f, F, n, L)
  <2>1. f[0] = Demuxer0 /\ \A k \in 1 .. n : f[k] = ReadCell(f[k - 1], G[k], L)
    BY <1>5 DEF WalksTo
  <2>2. ASSUME NEW k \in 1 .. n PROVE f[k] = ReadCell(f[k - 1], F[k], L)
    <3>1. CASE k # 2
      BY <1>1, <1>2, <2>1, <3>1
    <3>2. CASE k = 2
      <4>1. f[1] = ReadCell(Demuxer0, G[1], L) /\ f[2] = ReadCell(f[1], G[2], L)
        <5>1. 1 \in 1 .. n /\ 2 \in 1 .. n /\ 1 - 1 = 0 /\ 2 - 1 = 1
          BY <1>1, <3>2
        <5> QED BY <2>1, <5>1
      <4>2. L - 2 \in Nat /\ L - 2 + 2 = L
        BY <1>1
      <4>3. ReadCell(f[1], Segment(L - 2), L) = ReadCell(f[1], Segment(Unknown), L)
        <5> HIDE DEF L
        <5> QED BY <1>1, <4>1, <4>2, SegmentRead
      <4> QED BY <1>2, <3>2, <4>1, <4>3
    <3> QED BY <3>1, <3>2
  <2> QED BY <2>1, <2>2 DEF WalksTo
<1>6. \A i \in 1 .. L : BrokenAt(F, i, L) <=> BrokenAt(G, i, L)
  <2> SUFFICES ASSUME NEW i \in 1 .. L PROVE BrokenAt(F, i, L) <=> BrokenAt(G, i, L)
    OBVIOUS
  <2>1. CASE i # 2
    BY <1>2, <2>1 DEF BrokenAt
  <2>2. CASE i = 2
    <3>1. ~BrokenAt(F, 2, L)
      BY <1>3 DEF BrokenAt, Torn, IsBlock
    <3>2. 2 + (L - 2) = L
      BY <1>1
    <3>3. ~BrokenAt(G, 2, L)
      BY <1>1, <1>3, <3>2 DEF BrokenAt, Torn, IsBlock
    <3> QED BY <2>2, <3>1, <3>3
  <2> QED BY <2>1, <2>2
<1>7. \A n \in 0 .. L : Clean(F, n, L) <=> Clean(G, n, L)
  <2> SUFFICES ASSUME NEW n \in 0 .. L PROVE Clean(F, n, L) <=> Clean(G, n, L)
    OBVIOUS
  <2>1. \A i \in 1 .. n : i \in 1 .. L
    BY <1>1
  <2> QED BY <1>6, <2>1 DEF Clean
<1>8. \A n \in 0 .. L : Alike(F, G, n)
  BY <1>1, <1>2, <1>3 DEF Alike
<1>9. ReadsAt(G, ms, sc, L)
  <2> SUFFICES ASSUME NEW n \in 0 .. L, NEW f, WalksTo(f, G, n, L)
               PROVE  /\ Clean(G, n, L) => Reads(f[n], G, ms, n, L, sc)
                      /\ (n > 0 /\ Clean(G, n - 1, L) /\ n <= L /\ BrokenAt(G, n, L))
                             => Stopped(f[n], f[n - 1])
    BY <1>2 DEF ReadsAt
  <2>1. WalksTo(f, F, n, L)
    BY <1>5
  <2>2. /\ Clean(F, n, L) => Reads(f[n], F, ms, n, L, sc)
        /\ (n > 0 /\ Clean(F, n - 1, L) /\ n <= L /\ BrokenAt(F, n, L)) => Stopped(f[n], f[n - 1])
    BY <1>1, <2>1 DEF ReadsAt
  <2>3. Clean(G, n, L) => Reads(f[n], G, ms, n, L, sc)
    <3> HIDE DEF L
    <3> QED BY <1>1, <1>7, <1>8, <2>2, ReadsAlike
  <2>4. n > 0 => n - 1 \in 0 .. L /\ n \in 1 .. L
    BY <1>1
  <2> QED BY <1>6, <1>7, <2>2, <2>3, <2>4
<1>10. \A k \in 1 .. Len(ms) : ms[k].cell \in Nat
  BY <1>1 DEF MeantIn
<1> QED BY <1>1, <1>2, <1>4, <1>9, <1>10 DEF Finished, MeantIn

\* and of that file the end may be lost.
LEMMA EndsCut ==
    ASSUME NEW F, NEW owed, NEW ms, MuxOK(F, owed, ms), Len(F) > 2, F[2] = Segment(Unknown),
           NEW G, IsSeq(G), Len(G) = Len(F) - 1, G[2] = Segment(Len(F) - 2),
           \A i \in 1 .. Len(F) - 1 : i # 2 => G[i] = F[i]
    PROVE  Finished(G, ms)
<1> DEFINE L == Len(F)
           M == L - 1
           sc == ScaleOf(F)
           sg == ScaleOf(G)
<1>1. MeantIn(ms, L) /\ L \in Nat /\ M \in Nat /\ M >= 2 /\ \A k \in 1 .. Len(ms) : ms[k].cell > 2
  BY IsSeqType DEF MuxOK, Laid
<1>2. ReadsAt(F, ms, sc, M)
  BY <1>1 DEF MuxOK
<1>3. G[2].el = "segment" /\ G[2].size = L - 2
  BY DEF Segment
<1> HIDE DEF sc, sg
<1>4. BrokenAt(G, 2, M)
  <2>1. L - 2 # Unknown /\ 2 + (L - 2) > M
    BY <1>1 DEF Unknown
  <2> QED BY <1>3, <2>1 DEF BrokenAt
<1>5. \A n \in 2 .. M : ~Clean(G, n, M)
  BY <1>4 DEF Clean
<1>6. \A i \in 1 .. 1 : F[i] = G[i]
  BY <1>1
<1>8. \A i \in 1 .. 1 : BrokenAt(F, i, M) <=> BrokenAt(G, i, M)
  BY <1>6, BrokenSame
<1>7. ASSUME NEW n \in 0 .. 1 PROVE Clean(F, n, M) <=> Clean(G, n, M)
  <2>1. \A i \in 1 .. n : BrokenAt(F, i, M) <=> BrokenAt(G, i, M)
    BY <1>8
  <2> QED BY <2>1 DEF Clean
<1>9. ASSUME NEW n \in 0 .. 1, NEW d, Reads(d, F, ms, n, M, sc) PROVE Reads(d, G, ms, n, M, sg)
  <2>1. Alike(F, G, n)
    BY <1>6 DEF Alike
  <2>2. Reads(d, G, ms, n, M, sc)
    BY <1>9, <2>1, ReadsAlike
  <2>3. Match(d.packets, ms, n, sc)
    BY <2>2 DEF Reads
  <2>4. Len(d.packets) \in Nat /\ Len(ms) \in Nat
    BY <1>1, <2>3, IsSeqType DEF Match, MeantIn
  <2>5. Len(d.packets) = 0
    <3> SUFFICES ASSUME Len(d.packets) # 0 PROVE FALSE
      OBVIOUS
    <3>1. 1 \in 1 .. Len(ms) /\ 1 <= Len(d.packets)
      BY <2>3, <2>4 DEF Match
    <3>2. ms[1].cell <= n /\ ms[1].cell > 2 /\ ms[1].cell \in Nat
      BY <1>1, <2>3, <3>1 DEF Match, MeantIn
    <3> QED BY <3>2
  <2>6. Match(d.packets, ms, n, sg)
    BY <2>3, <2>5 DEF Match
  <2> QED BY <2>2, <2>6 DEF Reads
<1>10. ReadsAt(G, ms, sg, M)
  <2> SUFFICES ASSUME NEW n \in 0 .. M, NEW f, WalksTo(f, G, n, M)
               PROVE  /\ Clean(G, n, M) => Reads(f[n], G, ms, n, M, sg)
                      /\ (n > 0 /\ Clean(G, n - 1, M) /\ n <= M /\ BrokenAt(G, n, M))
                             => Stopped(f[n], f[n - 1])
    BY DEF ReadsAt
  <2>1. f[0] = Demuxer0 /\ \A k \in 1 .. n : f[k] = ReadCell(f[k - 1], G[k], M)
    BY DEF WalksTo
  <2>2. CASE n \in 0 .. 1
    <3>1. WalksTo(f, F, n, M)
      <4>1. \A k \in 1 .. n : F[k] = G[k]
        BY <1>6, <2>2
      <4> QED BY <2>1, <4>1 DEF WalksTo
    <3>2. n \in 0 .. Len(F)
      BY <1>1, <2>2
    <3>3. /\ Clean(F, n, M) => Reads(f[n], F, ms, n, M, sc)
          /\ (n > 0 /\ Clean(F, n - 1, M) /\ n <= M /\ BrokenAt(F, n, M)) => Stopped(f[n], f[n - 1])
      BY <1>2, <3>1, <3>2 DEF ReadsAt
    <3>4. n > 0 => n = 1 /\ n - 1 = 0
      BY <2>2
    <3> QED BY <1>7, <1>8, <1>9, <2>2, <3>3, <3>4
  <2>3. CASE n = 2
    <3>1. f[1] = ReadCell(Demuxer0, G[1], M) /\ f[2] = ReadCell(f[1], G[2], M)
      <4>1. 1 \in 1 .. n /\ 2 \in 1 .. n /\ 1 - 1 = 0 /\ 2 - 1 = 1
        BY <2>3
      <4> QED BY <2>1, <4>1
    <3>2. L - 2 \in Nat /\ L - 2 + 2 > M
      BY <1>1
    <3>3. Stopped(ReadCell(f[1], Segment(L - 2), M), f[1])
      <4> HIDE DEF M, L
      <4> QED BY <1>1, <3>1, <3>2, SegmentRead
    <3>4. ~Clean(G, n, M)
      BY <1>1, <1>5, <2>3
    <3> QED BY <2>3, <3>1, <3>3, <3>4
  <2>4. CASE n > 2
    <3>1. n \in 2 .. M /\ n - 1 \in 2 .. M
      BY <1>1, <2>4
    <3> QED BY <1>5, <3>1
  <2> QED BY <1>1, <2>2, <2>3, <2>4
<1>11. \A k \in 1 .. Len(ms) : ms[k].cell \in Nat
  BY <1>1 DEF MeantIn
<1> QED BY <1>1, <1>10, <1>11 DEF Finished, MeantIn, sg

-----------------------------------------------------------------------------
(* The file that is left.                                                  *)

\* The Segment starts without a size.
Headed(F) == Len(F) > 0 /\ (Len(F) > 1 => F[2] = Segment(Unknown))

\* Clusters start behind the header.
LEMMA BehindHeader ==
    ASSUME MuxOK(file, left, meant), MuxCluster \/ MuxBlock \/ MuxTags
    PROVE  Len(file) > 2
<1>1. Laid(file) /\ IsSeq(file) /\ Len(file) \in Nat
  BY IsSeqType DEF MuxOK, Laid
<1>2. ASSUME NEW i \in 1 .. Len(file), file[i].el = "tracks" PROVE Len(file) > 2
  BY <1>1, <1>2 DEF Laid
<1>3. ASSUME NEW i \in 1 .. Len(file), file[i].el = "cluster" PROVE Len(file) > 2
  <2>1. PICK j \in 1 .. i : file[j].el = "tracks"
    BY <1>1, <1>3 DEF Laid
  <2>2. j \in 1 .. Len(file)
    BY <1>1
  <2> QED BY <1>2, <2>1, <2>2
<1>4. CASE MuxCluster
  BY <1>1, <1>2, <1>4, CountIs DEF MuxCluster
<1>5. CASE MuxTags
  BY <1>1, <1>3, <1>5, CountIs DEF MuxTags
<1>6. CASE MuxBlock
  <2>1. left # 0 /\ Settled(file, left)
    BY <1>6 DEF MuxBlock, MuxOK
  <2>2. ~None(file, "cluster", Len(file))
    BY <2>1 DEF Settled
  <2> QED BY <1>3, <2>2 DEF None
<1> QED BY <1>4, <1>5, <1>6

\* What holds of the file while it is written, and of the finished one.
ReadInv ==
    IF pc = "mux" THEN MuxOK(file, left, meant) /\ Headed(file) ELSE Finished(file, meant)

\* The muxer starts with a header.
LEMMA InitReads == Init => ReadInv
<1> SUFFICES ASSUME Init PROVE ReadInv
  OBVIOUS
<1>1. file \in Headers /\ left = 0 /\ meant = <<>> /\ pc = "mux"
  BY DEF Init
<1>2. MuxOK(file, left, meant)
  BY <1>1, HeaderMuxOK
<1>3. Headed(file)
  BY <1>1, HeaderLaid DEF Headed
<1> QED BY <1>1, <1>2, <1>3 DEF ReadInv

\* The muxer's steps keep the invariant.
LEMMA MuxReads ==
    ASSUME FileInv, pc = "mux", ReadInv, MuxCluster \/ MuxBlock \/ MuxTags
    PROVE  ReadInv'
<1>1. MuxOK(file, left, meant) /\ Headed(file)
  BY DEF ReadInv
<1>2. MuxOK(file', left', meant')
  BY <1>1, ClustersMux, TagsMux, BlocksMux
<1>3. Len(file) > 2 /\ Len(file) \in Nat /\ IsSeq(file)
  BY <1>1, BehindHeader, IsSeqType DEF MuxOK, Laid
<1>4. pc' = "mux"
  BY DEF MuxCluster, MuxBlock, MuxTags
<1>5. Headed(file')
  <2>1. CASE MuxCluster
    <3>1. PICK c \in Clusters : file' = file \o <<Cluster(c.size), Timestamp(c.ts)>>
      BY <2>1 DEF MuxCluster
    <3> DEFINE two == <<Cluster(c.size), Timestamp(c.ts)>>
    <3>2. IsSeq(two)
      <4>1. two \in Seq({Cluster(c.size), Timestamp(c.ts)})
        OBVIOUS
      <4> QED BY <4>1 DEF IsSeq
    <3>3. file' = Joined(file, two)
      BY <3>1 DEF Joined
    <3> HIDE DEF two
    <3>4. Follows(file', file, two)
      BY <1>3, <3>2, <3>3, IsSeqConcat
    <3>5. Len(file') > 2 /\ file'[2] = file[2]
      BY <1>3, <3>4 DEF Follows
    <3> QED BY <1>1, <1>3, <3>5 DEF Headed
  <2>2. ASSUME NEW c, file' = Append(file, c) PROVE Headed(file')
    <3>1. Extended(file', file, c)
      BY <1>3, <2>2, SeqAppend
    <3>2. Len(file') > 2 /\ file'[2] = file[2]
      BY <1>3, <3>1 DEF Extended
    <3> QED BY <1>1, <1>3, <3>2 DEF Headed
  <2>3. CASE MuxBlock
    <3>1. PICK b \in Blocks : \E rest : file' = Append(file, Encode(b, rest))
      BY <2>3 DEF MuxBlock
    <3> QED BY <2>2, <3>1
  <2>4. CASE MuxTags
    BY <2>2, <2>4 DEF MuxTags
  <2> QED BY <2>1, <2>3, <2>4
<1> QED BY <1>2, <1>4, <1>5 DEF ReadInv

\* However the muxer ends, the file is one that a demuxer reads up to its first
\* broken cell.
LEMMA EndReads ==
    ASSUME ReadInv, MuxEnds
    PROVE  Finished(file', meant')
<1>1. pc = "mux" /\ meant' = meant /\ MuxOK(file, left, meant) /\ Headed(file)
  BY DEF MuxEnds, ReadInv
<1>2. Laid(file) /\ IsSeq(file) /\ Len(file) \in Nat
  BY <1>1, IsSeqType DEF MuxOK, Laid
<1>3. CASE file' = file
  BY <1>1, <1>3, EndsWhole
<1>4. CASE file' = Append(file, Torn)
  <2>1. IsSeq(file') /\ Extended(file', file, Torn)
    BY <1>2, <1>4, SeqAppend
  <2> DEFINE G == file'
  <2> HIDE DEF G
  <2>2. IsSeq(G) /\ Extended(G, file, Torn)
    BY <2>1 DEF G
  <2>3. Finished(G, meant)
    BY <1>1, <2>2, EndsTorn
  <2> QED BY <1>1, <2>3 DEF G
<1>5. ASSUME Len(file) > 2,
             \E k \in {Len(file), Len(file) - 1} :
                file' = SubSeq([file EXCEPT ![2] = Segment(Len(file) - 2)], 1, k)
      PROVE  Finished(file', meant')
  <2> DEFINE c == Segment(Len(file) - 2)
             H == [file EXCEPT ![2] = c]
  <2>1. PICK k \in {Len(file), Len(file) - 1} : file' = SubSeq(H, 1, k)
    BY <1>5
  <2>2. file[2] = Segment(Unknown)
    BY <1>1, <1>5 DEF Headed
  <2>3. IsSeq(H) /\ Patched(H, file, 2, c)
    <3>1. 2 \in 1 .. Len(file)
      BY <1>2, <1>5
    <3> QED BY <1>2, <3>1, SeqPatch
  <2> HIDE DEF H, c
  <2>4. Len(H) = Len(file) /\ H[2] = c /\ \A i \in 1 .. Len(file) : i # 2 => H[i] = file[i]
    BY <2>3 DEF Patched
  <2>5. k \in Nat /\ k <= Len(H) /\ k >= 2
    BY <1>2, <1>5, <2>4
  <2>6. IsSeq(SubSeq(H, 1, k)) /\ Len(SubSeq(H, 1, k)) = k /\ \A i \in 1 .. k : SubSeq(H, 1, k)[i] = H[i]
    <3>1. PICK S : H \in Seq(S)
      BY <2>3 DEF IsSeq
    <3>2. SubSeq(H, 1, k) \in Seq(S)
      BY <2>5, <3>1
    <3>3. Len(SubSeq(H, 1, k)) = k /\ \A i \in 1 .. k : SubSeq(H, 1, k)[i] = H[i]
      BY <2>5, <3>1
    <3> QED BY <3>2, <3>3 DEF IsSeq
  <2> DEFINE G == SubSeq(H, 1, k)
  <2> HIDE DEF G
  <2>7. IsSeq(G) /\ Len(G) = k /\ \A i \in 1 .. k : G[i] = H[i]
    BY <2>6 DEF G
  <2>8. CASE k = Len(file)
    <3>1. Patched(G, file, 2, c)
      BY <2>4, <2>5, <2>7, <2>8 DEF Patched
    <3>2. Finished(G, meant)
      BY <1>1, <1>5, <2>2, <2>7, <3>1, EndsPatched DEF c
    <3> QED BY <1>1, <2>1, <3>2 DEF G
  <2>9. CASE k = Len(file) - 1
    <3>1. Len(G) = Len(file) - 1 /\ G[2] = c /\ \A i \in 1 .. Len(file) - 1 : i # 2 => G[i] = file[i]
      BY <1>2, <2>4, <2>5, <2>7, <2>9
    <3>2. Finished(G, meant)
      BY <1>1, <1>5, <2>2, <2>7, <3>1, EndsCut DEF c
    <3> QED BY <1>1, <2>1, <3>2 DEF G
  <2> QED BY <2>1, <2>8, <2>9
<1> QED BY <1>3, <1>4, <1>5 DEF MuxEnds

\* ReadInv is inductive.
LEMMA StepReads ==
    ASSUME TypeInv, ReadInv, [Next]_vars
    PROVE  ReadInv'
<1>1. CASE MuxCluster \/ MuxBlock \/ MuxTags
  <2>1. pc = "mux" /\ FileInv
    BY <1>1 DEF MuxCluster, MuxBlock, MuxTags, TypeInv
  <2> QED BY <1>1, <2>1, MuxReads
<1>2. CASE UNCHANGED vars
  BY <1>2 DEF ReadInv, vars
<1>3. CASE MuxEnds
  <2>1. Finished(file', meant')
    BY <1>3, EndReads
  <2>2. pc' # "mux"
    BY <1>3 DEF MuxEnds
  <2> QED BY <2>1, <2>2 DEF ReadInv
<1>4. ASSUME Begin \/ Open \/ Scan \/ Create \/ AddTracks \/ SetTag \/ TagsSet
             \/ ReadFrame \/ EndOfFile \/ Finalize \/ Break
      PROVE  pc # "mux" /\ pc' # "mux" /\ UNCHANGED muxed
  <2>1. CASE Begin \/ Scan \/ Open \/ Create
    BY <2>1 DEF Begin, Scan, Open, Create, Fail
  <2>2. CASE AddTracks \/ SetTag \/ TagsSet
    BY <2>2 DEF AddTracks, SetTag, TagsSet, Fail
  <2>3. CASE ReadFrame
    BY <2>3 DEF ReadFrame, Fail
  <2>4. CASE EndOfFile \/ Finalize \/ Break
    BY <2>4 DEF EndOfFile, Finalize, Break, Fail
  <2> QED BY <1>4, <2>1, <2>2, <2>3, <2>4
<1>5. ASSUME pc # "mux", pc' # "mux", UNCHANGED muxed PROVE ReadInv'
  BY <1>5 DEF ReadInv, muxed
<1> QED BY <1>1, <1>2, <1>3, <1>4, <1>5 DEF Next

-----------------------------------------------------------------------------
(* A demuxer reads a finished file.                                        *)

\* Once in error, the walk stays there.
LEMMA ErrorStays ==
    ASSUME NEW G, NEW L \in Nat, NEW f, WalksTo(f, G, L, L), NEW e \in 1 .. L, f[e].phase = "error"
    PROVE  f[L] = f[e]
<1> DEFINE P == {n \in Nat : e + n <= L => f[e + n] = f[e]}
<1>1. 0 \in P
  OBVIOUS
<1>2. ASSUME NEW n \in Nat, n \in P PROVE n + 1 \in P
  <2> SUFFICES ASSUME e + (n + 1) <= L PROVE f[e + (n + 1)] = f[e]
    OBVIOUS
  <2>1. f[e + n] = f[e]
    BY <1>2
  <2>2. e + (n + 1) \in 1 .. L /\ (e + (n + 1)) - 1 = e + n
    OBVIOUS
  <2>3. f[e + (n + 1)] = ReadCell(f[e], G[e + (n + 1)], L)
    BY <2>1, <2>2 DEF WalksTo
  <2> QED BY <2>3 DEF ReadCell
<1>3. Nat \subseteq P
  <2> HIDE DEF P
  <2> QED BY <1>1, <1>2, NatSetInduction
<1>4. L - e \in Nat /\ e + (L - e) = L
  OBVIOUS
<1> QED BY <1>3, <1>4

\* e is the first broken cell of G, or behind its end.
FirstBroken(G, e) ==
    /\ e \in 1 .. Len(G) + 1 /\ Clean(G, e - 1, Len(G))
    /\ e <= Len(G) => BrokenAt(G, e, Len(G))

\* What a demuxer knows at the end, d in front of the first broken cell.
EndsAs(r, d, G, e) ==
    /\ r.packets = d.packets
    /\ e <= Len(G) => r.phase = "error"
    /\ e > Len(G) => r.tags = d.tags /\ (r.phase = "error" <=> Len(G) < 2)

\* A demuxer ends there with what it has read in front of it.
LEMMA DemuxEnds ==
    ASSUME NEW G, NEW ms, Finished(G, ms), NEW e, FirstBroken(G, e)
    PROVE  \E d : Reads(d, G, ms, e - 1, Len(G), ScaleOf(G)) /\ EndsAs(Demux(G), d, G, e)
<1> DEFINE L == Len(G)
<1>1. L \in Nat /\ ReadsAt(G, ms, ScaleOf(G), L)
  BY IsSeqType DEF Finished
<1>2. e \in 1 .. L + 1 /\ Clean(G, e - 1, L) /\ (e <= L => BrokenAt(G, e, L))
  BY DEF FirstBroken
<1>3. PICK f : Walks(f, G, L) /\ Walk(G, L) = f[L]
  BY <1>1, WalkRecursion
<1>4. \A n \in 0 .. L : WalksTo(f, G, n, L)
  BY <1>1, <1>3 DEF Walks, WalksTo
<1>5. Demux(G) = AtEnd(f[L])
  BY <1>3 DEF Demux
<1> DEFINE d == f[e - 1]
<1>6. Reads(d, G, ms, e - 1, L, ScaleOf(G))
  <2>1. e - 1 \in 0 .. L
    BY <1>1, <1>2
  <2> QED BY <1>1, <1>2, <1>4, <2>1 DEF ReadsAt
<1>7. Place(d, G, e - 1, L)
  BY <1>6 DEF Reads
<1>8. CASE e <= L
  <2>1. e \in 0 .. L /\ e > 0 /\ e \in 1 .. L
    BY <1>1, <1>2, <1>8
  <2>2. Stopped(f[e], d)
    BY <1>1, <1>2, <1>4, <1>8, <2>1 DEF ReadsAt
  <2>3. f[L] = f[e]
    <3>1. WalksTo(f, G, L, L)
      BY <1>1, <1>4
    <3>2. f[e].phase = "error"
      BY <2>2 DEF Stopped
    <3> HIDE DEF L, d
    <3> QED BY <1>1, <2>1, <3>1, <3>2, ErrorStays
  <2>4. AtEnd(f[L]) = f[L]
    BY <2>2, <2>3 DEF AtEnd, Stopped
  <2>5. EndsAs(Demux(G), d, G, e)
    BY <1>1, <1>2, <1>5, <1>8, <2>2, <2>3, <2>4 DEF EndsAs, Stopped
  <2> QED BY <1>6, <2>5
<1>9. CASE e = L + 1
  <2>1. f[L] = d /\ Place(d, G, L, L)
    BY <1>1, <1>7, <1>9
  <2> DEFINE r == AtEnd(d)
  <2>2. Shape(d)
    BY <2>1 DEF Place
  <2>3. r.packets = d.packets /\ r.tags = d.tags
    BY <2>2 DEF AtEnd, Shape, Demuxer0
  <2>4. L < 2 => d.phase \in {"ebml", "segment"}
    <3>1. L = 0 => d.phase = "ebml"
      BY <2>1 DEF Place
    <3>2. L = 1 => d.phase = "segment"
      BY <2>1 DEF Place
    <3> HIDE DEF L, d
    <3>3. L < 2 => L = 0 \/ L = 1
      BY <1>1
    <3> QED BY <3>1, <3>2, <3>3
  <2>5. L >= 2 => d.phase \in {"header", "in", "top"}
    BY <1>1, <2>1 DEF Place
  <2>6. d.phase \in {"ebml", "segment"} => r.phase = "error"
    BY <2>2 DEF AtEnd, Shape, Demuxer0
  <2>7. d.phase \in {"header", "in", "top"} => r.phase # "error"
    BY <2>2 DEF AtEnd, Shape, Demuxer0
  <2>8. r.phase = "error" <=> L < 2
    BY <1>1, <2>4, <2>5, <2>6, <2>7
  <2>9. EndsAs(Demux(G), d, G, e)
    <3> HIDE DEF r
    <3> QED BY <1>1, <1>5, <1>9, <2>1, <2>3, <2>8 DEF EndsAs, r
  <2> QED BY <1>6, <2>9
<1>10. e <= L \/ e = L + 1
  BY <1>1, <1>2
<1> QED BY <1>8, <1>9, <1>10

\* A selection of the first elements of a sequence.
LEMMA SelectBeginning ==
    ASSUME NEW S, NEW s \in Seq(S), NEW T, NEW m \in Nat, m <= Len(s),
           \A i \in 1 .. Len(s) : s[i] \in T <=> i <= m
    PROVE  /\ Select(s, T) \in Seq(S) /\ Len(Select(s, T)) = m
           /\ \A k \in 1 .. m : Select(s, T)[k] = s[k]
<1>1. Len(s) \in Nat /\ \A i \in 1 .. Len(s) : s[i] \in S
  BY LenProperties
<1>2. PICK f : Selects(f, s, T) /\ Select(s, T) = f[Len(s)]
  BY <1>1, SelectRecursion
<1> DEFINE P == {n \in Nat : n <= Len(s) =>
                    /\ f[n] \in Seq(S) /\ Len(f[n]) = IF n <= m THEN n ELSE m
                    /\ \A k \in 1 .. Len(f[n]) : f[n][k] = s[k]}
<1>3. 0 \in P
  <2>1. f[0] = <<>>
    BY <1>2 DEF Selects
  <2>2. f[0] \in Seq(S) /\ Len(f[0]) = 0
    BY <2>1
  <2> QED BY <2>2
<1>4. ASSUME NEW n \in Nat, n \in P PROVE n + 1 \in P
  <2> SUFFICES ASSUME n + 1 <= Len(s)
               PROVE  /\ f[n + 1] \in Seq(S) /\ Len(f[n + 1]) = IF n + 1 <= m THEN n + 1 ELSE m
                      /\ \A k \in 1 .. Len(f[n + 1]) : f[n + 1][k] = s[k]
    OBVIOUS
  <2>1. /\ f[n] \in Seq(S) /\ Len(f[n]) = (IF n <= m THEN n ELSE m)
        /\ \A k \in 1 .. Len(f[n]) : f[n][k] = s[k]
    BY <1>1, <1>4
  <2>2. n + 1 \in 1 .. Len(s) /\ (n + 1) - 1 = n
    BY <1>1
  <2>3. f[n + 1] = IF s[n + 1] \in T THEN Append(f[n], s[n + 1]) ELSE f[n]
    BY <1>2, <2>2 DEF Selects
  <2>4. CASE n + 1 <= m
    <3>1. f[n + 1] = Append(f[n], s[n + 1]) /\ Len(f[n]) = n
      BY <2>1, <2>2, <2>3, <2>4
    <3>2. s[n + 1] \in S
      BY <1>1, <2>2
    <3>3. f[n + 1] \in Seq(S) /\ Len(f[n + 1]) = n + 1 /\ f[n + 1][n + 1] = s[n + 1]
          /\ \A k \in 1 .. n : f[n + 1][k] = f[n][k]
      BY <2>1, <3>1, <3>2
    <3> QED BY <2>1, <2>4, <3>1, <3>3
  <2>5. CASE ~(n + 1 <= m)
    <3>1. f[n + 1] = f[n]
      BY <2>2, <2>3, <2>5
    <3> QED BY <2>1, <2>5, <3>1
  <2> QED BY <2>4, <2>5
<1>5. Nat \subseteq P
  <2> HIDE DEF P
  <2> QED BY <1>3, <1>4, NatSetInduction
<1>6. Len(s) \in P
  BY <1>1, <1>5
<1>7. Len(f[Len(s)]) = m
  BY <1>1, <1>6
<1> QED BY <1>1, <1>2, <1>6, <1>7

\* ReadTo is the first broken cell.
LEMMA ReadToIs ==
    ASSUME IsSeq(file)
    PROVE  /\ FirstBroken(file, ReadTo) /\ ReadTo \in Nat
           /\ Unreadable <=> (ReadTo <= Len(file) \/ Len(file) < 2)
<1> DEFINE L == Len(file)
           S == Broken \cup {L + 1}
<1>1. L \in Nat /\ DOMAIN file = 1 .. L
  BY IsSeqType
<1>2. \A i : i \in Broken <=> i \in 1 .. L /\ BrokenAt(file, i, L)
  BY <1>1 DEF Broken, BrokenAt
<1>3. S \subseteq 1 .. L + 1 /\ S # {} /\ L + 1 \in Nat
  BY <1>1, <1>2
<1>4. \E i \in S : \A j \in Broken : i <= j
  <2>1. Min(S) \in S /\ \A i \in S : Min(S) <= i
    <3> DEFINE n == L + 1
    <3> HIDE DEF S, n
    <3>1. n \in Nat /\ S \subseteq 1 .. n /\ S # {}
      BY <1>3 DEF n
    <3> QED BY <3>1, LeastInRange
  <2> QED BY <2>1
<1>5. ReadTo \in S /\ \A j \in Broken : ReadTo <= j
  <2> HIDE DEF L
  <2> QED BY <1>4 DEF ReadTo, L
<1> HIDE DEF S
<1>6. ReadTo \in 1 .. L + 1 /\ ReadTo \in Nat
  BY <1>1, <1>3, <1>5
<1>7. \A i \in 1 .. ReadTo - 1 : ~BrokenAt(file, i, L)
  <2> SUFFICES ASSUME NEW i \in 1 .. ReadTo - 1, BrokenAt(file, i, L) PROVE FALSE
    OBVIOUS
  <2>1. i \in 1 .. L /\ i < ReadTo
    BY <1>1, <1>6
  <2>2. i \in Broken
    BY <1>2, <2>1
  <2> QED BY <1>5, <1>6, <2>1, <2>2
<1>8. ReadTo <= L => ReadTo \in Broken
  BY <1>1, <1>5, <1>6 DEF S
<1>9. Broken # {} <=> ReadTo <= L
  <2>1. ASSUME NEW j \in Broken PROVE ReadTo <= L
    <3>1. ReadTo <= j /\ j \in 1 .. L
      BY <1>2, <1>5
    <3> QED BY <1>1, <1>6, <3>1
  <2> QED BY <1>8, <2>1
<1>10. ReadTo - 1 <= L
  BY <1>1, <1>6
<1>11. FirstBroken(file, ReadTo)
  BY <1>2, <1>6, <1>7, <1>8, <1>10 DEF FirstBroken, Clean
<1> QED BY <1>6, <1>9, <1>11 DEF Unreadable

\* The last cluster header up to a cell.
ScopeOf(i) == SelectLastInSeq(SubSeq(file, 1, i), LAMBDA c : c.el = "cluster")

\* A cluster without a size is open where the last header has none.
LEMMA ScopeIs ==
    ASSUME IsSeq(file), NEW i \in 1 .. Len(file)
    PROVE  Endless(file, i) <=> (ScopeOf(i) > 0 /\ file[ScopeOf(i)].size = Unknown)
<1> DEFINE s == SubSeq(file, 1, i)
           I == {j \in 1 .. Len(s) : s[j].el = "cluster"}
           k == ScopeOf(i)
<1>1. Len(s) = i /\ i \in Nat /\ \A j \in 1 .. i : s[j] = file[j]
  <2>1. PICK S : file \in Seq(S)
    BY DEF IsSeq
  <2>2. Len(file) \in Nat
    BY <2>1
  <2> QED BY <2>1, <2>2
<1>2. k = IF I # {} THEN Max(I) ELSE 0
  BY DEF ScopeOf, SelectLastInSeq
<1>3. (k = 0 => I = {}) /\ (k # 0 => k \in I /\ \A j \in I : j <= k)
  <2>1. Len(s) \in Nat /\ I \subseteq 1 .. Len(s)
    BY <1>1
  <2> HIDE DEF s, I, k
  <2> QED BY <1>2, <2>1, LastWhere
<1>4. \A j : j \in I <=> j \in 1 .. i /\ file[j].el = "cluster"
  BY <1>1
<1> HIDE DEF s, I, k
<1>5. CASE k = 0
  <2>1. ~Endless(file, i)
    BY <1>3, <1>4, <1>5 DEF Endless, LastOf
  <2> QED BY <1>5, <2>1 DEF k
<1>6. CASE k # 0
  <2>1. k \in 1 .. i /\ LastOf(file, "cluster", k, i)
    <3>1. k \in 1 .. i /\ file[k].el = "cluster"
      BY <1>3, <1>4, <1>6
    <3>2. ASSUME NEW j \in k + 1 .. i, file[j].el = "cluster" PROVE FALSE
      <4>1. j \in I
        BY <1>1, <1>4, <3>1, <3>2
      <4> QED BY <1>1, <1>3, <1>6, <3>1, <4>1
    <3> QED BY <3>1, <3>2 DEF LastOf
  <2>2. ASSUME NEW p \in 1 .. i, LastOf(file, "cluster", p, i) PROVE p = k
    <3>1. p \in I
      BY <1>4, <2>2 DEF LastOf
    <3>2. p <= k
      BY <1>3, <1>6, <3>1
    <3>3. ~(k \in p + 1 .. i)
      BY <2>1, <2>2 DEF LastOf
    <3> QED BY <1>1, <2>1, <3>2, <3>3
  <2>3. Endless(file, i) <=> file[k].size = Unknown
    BY <2>1, <2>2 DEF Endless
  <2>4. k > 0
    BY <2>1
  <2> QED BY <2>3, <2>4 DEF k
<1> QED BY <1>5, <1>6

\* The tags read up to ReadTo are TagsIn.
LEMMA TagsReadIs ==
    ASSUME IsSeq(file), ReadTo \in 1 .. Len(file) + 1, NEW T, TagsRead(T, file, ReadTo - 1)
    PROVE  T = TagsIn
<1> DEFINE n == ReadTo - 1
           seen == {i \in 1 .. ReadTo - 1 : /\ file[i].el = "tags"
                                            /\ ScopeOf(i) > 0 => file[ScopeOf(i)].size # Unknown}
           Own(name) == {i \in seen : name \in DOMAIN file[i].tags}
           value(name) == file[CHOOSE i \in Own(name) : \A j \in Own(name) : j <= i].tags[name]
<1>1. Len(file) \in Nat /\ n \in Nat /\ \A i \in 1 .. n : i \in 1 .. Len(file)
  <2>1. Len(file) \in Nat
    BY IsSeqType
  <2> QED BY <2>1
<1>2. TagsIn = [name \in UNION {DOMAIN file[i].tags : i \in seen} |-> value(name)]
  BY DEF TagsIn, ScopeOf
<1>3. seen = Seen(file, n)
  BY <1>1, ScopeIs DEF Seen
<1>4. seen \subseteq 1 .. n
  OBVIOUS
<1> HIDE DEF seen, n
<1>5. /\ T = [name \in DOMAIN T |-> T[name]]
      /\ DOMAIN T = UNION {DOMAIN file[i].tags : i \in seen}
      /\ \A name, i : LastWith(file, n, name, i) => T[name] = file[i].tags[name]
  BY <1>3 DEF TagsRead, n
<1>6. ASSUME NEW name \in DOMAIN T PROVE T[name] = value(name)
  <2> DEFINE own == Own(name)
             m == CHOOSE i \in own : \A j \in own : j <= i
  <2>1. own \subseteq 1 .. n /\ own # {}
    BY <1>4, <1>5
  <2>2. m \in own /\ \A j \in own : j <= m
    <3> HIDE DEF own
    <3> QED BY <1>1, <2>1, LastChosen
  <2>3. value(name) = file[m].tags[name]
    OBVIOUS
  <2> HIDE DEF m
  <2>4. LastWith(file, n, name, m)
    BY <1>3, <2>2 DEF LastWith
  <2> QED BY <1>5, <2>3, <2>4
<1> HIDE DEF value
<1> QED BY <1>2, <1>5, <1>6

\* What a demuxer reads of a finished file.
LEMMA FinishedRead ==
    ASSUME Finished(file, meant), demuxed = <<NewDemuxer(file), Demux(file)>>
    PROVE  LET seen == Select(meant, {f \in Range(meant) : f.cell < ReadTo})
               got  == Read.packets
           IN  /\ Read.phase = "error" <=> Unreadable
               /\ ~Unreadable => Read.tags = TagsIn
               /\ IsSeq(got) /\ IsSeq(seen) /\ Len(got) = Len(seen)
               /\ \A k \in 1 .. Len(seen) : Near(got[k], seen[k], ScaleIn)
<1> DEFINE e == ReadTo
           L == Len(file)
           sc == ScaleOf(file)
<1>1. IsSeq(file) /\ IsSeq(meant) /\ L \in Nat /\ \A k \in 1 .. Len(meant) : meant[k].cell \in Nat
  BY IsSeqType DEF Finished
<1>2. FirstBroken(file, e) /\ e \in Nat /\ (Unreadable <=> (e <= L \/ L < 2)) /\ e \in 1 .. L + 1
  BY <1>1, ReadToIs DEF FirstBroken
<1>3. PICK d : Reads(d, file, meant, e - 1, L, sc) /\ EndsAs(Demux(file), d, file, e)
  BY <1>2, DemuxEnds
<1>4. Read = Demux(file)
  BY DEF Read
<1>5. Read.phase = "error" <=> Unreadable
  BY <1>2, <1>3, <1>4 DEF EndsAs
<1>6. ~Unreadable => Read.tags = TagsIn
  <2> SUFFICES ASSUME ~Unreadable PROVE Read.tags = TagsIn
    OBVIOUS
  <2>1. e > L
    BY <1>1, <1>2
  <2>2. Read.tags = d.tags
    BY <1>3, <1>4, <2>1 DEF EndsAs
  <2>3. TagsRead(d.tags, file, e - 1)
    BY <1>3 DEF Reads
  <2> QED BY <1>1, <1>2, <2>2, <2>3, TagsReadIs
<1> DEFINE ps == d.packets
           T == {f \in Range(meant) : f.cell < ReadTo}
           seen == Select(meant, T)
           m == Len(ps)
<1>7. Match(ps, meant, e - 1, sc) /\ Read.packets = ps
  BY <1>3, <1>4 DEF Reads, EndsAs
<1> HIDE DEF ps
<1>8. IsSeq(ps) /\ m \in Nat /\ Len(meant) \in Nat /\ m <= Len(meant)
  BY <1>1, <1>7, IsSeqType DEF Match
<1>9. \A i \in 1 .. Len(meant) : meant[i] \in T <=> i <= m
  <2> SUFFICES ASSUME NEW i \in 1 .. Len(meant) PROVE meant[i] \in T <=> i <= m
    OBVIOUS
  <2>1. DOMAIN meant = 1 .. Len(meant)
    BY <1>1, IsSeqType
  <2>2. meant[i] \in Range(meant)
    BY <2>1 DEF Range
  <2>3. i <= m <=> meant[i].cell <= e - 1
    BY <1>7 DEF Match
  <2> QED BY <1>1, <1>2, <2>2, <2>3
<1>10. PICK S : meant \in Seq(S)
  BY <1>1 DEF IsSeq
<1> HIDE DEF T, m
<1>11. seen \in Seq(S) /\ Len(seen) = m /\ \A k \in 1 .. m : seen[k] = meant[k]
  BY <1>8, <1>9, <1>10, SelectBeginning
<1>12. IsSeq(seen)
  BY <1>11 DEF IsSeq
<1>13. ScaleIn = sc
  BY DEF ScaleIn, ScaleOf, InfoOf
<1>14. \A k \in 1 .. Len(seen) : Near(ps[k], seen[k], ScaleIn)
  BY <1>7, <1>11, <1>13 DEF Match, m
<1>15. Len(ps) = Len(seen)
  BY <1>11 DEF m
<1> QED BY <1>5, <1>6, <1>7, <1>8, <1>12, <1>14, <1>15 DEF T

\* ReadInv always holds.
LEMMA ReadAlways == Spec => []ReadInv
<1>1. Init => ReadInv
  BY InitReads
<1>2. TypeInv /\ ReadInv /\ [Next]_vars => ReadInv'
  BY StepReads
<1> QED BY <1>1, <1>2, TypeAlways, PTL DEF Spec

\* A demuxer reads what the other muxer has put into the file, up to the first cell
\* that nothing can get past.
THEOREM DemuxReadsWholeFile == Spec => []DemuxReadsFile
<1>1. ASSUME TypeInv, ReadInv PROVE DemuxReadsFile
  <2> SUFFICES ASSUME pc = "idle" PROVE DemuxReadsFile
    BY DEF DemuxReadsFile
  <2>1. Finished(file, meant) /\ demuxed = <<NewDemuxer(file), Demux(file)>>
    BY <1>1 DEF ReadInv, TypeInv, FileInv
  <2> DEFINE seen == Select(meant, {f \in Range(meant) : f.cell < ReadTo})
             got  == Read.packets
             sc   == ScaleIn
  <2>2. /\ Read.phase = "error" <=> Unreadable
        /\ ~Unreadable => Read.tags = TagsIn
        /\ IsSeq(got) /\ IsSeq(seen) /\ Len(got) = Len(seen)
        /\ \A k \in 1 .. Len(seen) : Near(got[k], seen[k], sc)
    BY <2>1, FinishedRead
  <2>3. DOMAIN seen = 1 .. Len(seen)
    BY <2>2, IsSeqType
  <2> HIDE DEF seen, got, sc
  <2>4. \A k \in DOMAIN seen : Near(got[k], seen[k], sc)
    BY <2>2, <2>3
  <2> QED BY <2>2, <2>4 DEF DemuxReadsFile, Near, seen, got, sc
<1> QED BY <1>1, TypeAlways, ReadAlways, PTL

-----------------------------------------------------------------------------
(* What NewDemuxer knows, and what is read of the file behind it.          *)

\* A demuxer forgets no tag.
LEMMA TagsKept ==
    ASSUME NEW d, Shape(d), NEW c, NEW M
    PROVE  DOMAIN d.tags \subseteq DOMAIN ReadCell(d, c, M).tags
<1> DEFINE r == ReadCell(d, c, M)
           m == Moved(d)
<1>1. m.tags = d.tags /\ Shape(m)
  BY DEF Moved, Shape, Demuxer0
<1>2. CASE SameContent(r, d)
  BY <1>2 DEF SameContent
<1>3. CASE SameContent([r EXCEPT !.ts = d.ts], d) /\ Shape(r)
  <2>1. [r EXCEPT !.ts = d.ts].tags = r.tags
    BY <1>3 DEF Shape, Demuxer0
  <2> HIDE DEF r
  <2> QED BY <1>3, <2>1 DEF SameContent, r
<1>4. \A e : Shape(e) => DOMAIN e.tags \subseteq DOMAIN WithTags(e, c).tags
  BY DEF WithTags, Shape, Demuxer0
<1>5. CASE r = HeaderElement(m, c)
  <2>1. CASE c.el = "info"
    BY <1>1, <1>5, <2>1 DEF HeaderElement, Shape, Demuxer0
  <2>2. CASE c.el = "tracks"
    BY <1>1, <1>5, <2>2 DEF HeaderElement, Shape, Demuxer0
  <2>3. CASE c.el = "tags"
    <3>1. r = WithTags(m, c)
      BY <1>5, <2>3 DEF HeaderElement
    <3> HIDE DEF r, m
    <3> QED BY <1>1, <1>4, <3>1 DEF r
  <2>4. CASE c.el \notin {"info", "tracks", "tags"}
    BY <1>1, <1>5, <2>4 DEF HeaderElement
  <2> QED BY <2>1, <2>2, <2>3, <2>4
<1>6. CASE r = TopElement(m, c)
  <2> DEFINE t == [m EXCEPT !.phase = "top"]
  <2>1. t.tags = d.tags /\ Shape(t)
    BY <1>1 DEF Shape, Demuxer0
  <2>2. r = IF c.el = "tags" THEN WithTags(t, c) ELSE t
    BY <1>6 DEF TopElement
  <2> HIDE DEF t, r
  <2> QED BY <1>4, <2>1, <2>2 DEF r
<1>7. CASE r = ClusterElement(m, c)
  <2>1. ClusterElement(m, c).tags = m.tags
    <3> HIDE DEF m
    <3> QED BY <1>1 DEF ClusterElement, Shape, Demuxer0
  <2> QED BY <1>1, <1>7, <2>1
<1> HIDE DEF r, m
<1>8. \/ SameContent(r, d)
      \/ SameContent([r EXCEPT !.ts = d.ts], d) /\ Shape(r) /\ r.ts = 0
      \/ r \in {HeaderElement(m, c), TopElement(m, c), ClusterElement(m, c)}
  BY ReadCellCases DEF r, m
<1> QED BY <1>2, <1>3, <1>5, <1>6, <1>7, <1>8 DEF r

\* Two walks over a file agree as far as both go.
LEMMA WalksAgree ==
    ASSUME NEW F, NEW n \in Nat, NEW m \in Nat, NEW f, Walks(f, F, n), NEW g, Walks(g, F, m)
    PROVE  \A k \in Nat : k <= n /\ k <= m => f[k] = g[k]
<1> DEFINE P == {k \in Nat : k <= n /\ k <= m => f[k] = g[k]}
<1>1. 0 \in P
  BY DEF Walks
<1>2. ASSUME NEW k \in Nat, k \in P PROVE k + 1 \in P
  <2> SUFFICES ASSUME k + 1 <= n, k + 1 <= m PROVE f[k + 1] = g[k + 1]
    OBVIOUS
  <2>1. f[k] = g[k]
    BY <1>2
  <2>2. k + 1 \in 1 .. n /\ k + 1 \in 1 .. m /\ (k + 1) - 1 = k
    OBVIOUS
  <2>3. f[k + 1] = ReadCell(f[k], F[k + 1], Len(F)) /\ g[k + 1] = ReadCell(g[k], F[k + 1], Len(F))
    BY <2>2 DEF Walks
  <2> QED BY <2>1, <2>3
<1>3. Nat \subseteq P
  <2> HIDE DEF P
  <2> QED BY <1>1, <1>2, NatSetInduction
<1> QED BY <1>3

\* NewDemuxer knows no tag that the whole reading does not know, and finds no
\* error where that finds none.
LEMMA OpenedRead ==
    ASSUME NEW F, CellsOK(F)
    PROVE  /\ DOMAIN NewDemuxer(F).tags \subseteq DOMAIN Demux(F).tags
           /\ NewDemuxer(F).phase = "error" => Demux(F).phase = "error"
<1> DEFINE L == Len(F)
           I == {i \in 1 .. L : F[i].el = "cluster"}
           k == SelectInSeq(F, LAMBDA c : c.el = "cluster")
<1>1. L \in Nat /\ \A i \in 1 .. L : CellOK(F[i])
  BY IsSeqType DEF CellsOK
<1>2. k = IF I # {} THEN Min(I) ELSE 0
  BY DEF SelectInSeq
<1>3. k # 0 => k \in 1 .. L
  <2>1. I \subseteq 1 .. L
    OBVIOUS
  <2> HIDE DEF I, k
  <2>2. k # 0 => k \in I
    BY <1>1, <1>2, <2>1, FirstWhere
  <2> QED BY <2>1, <2>2
<1>4. NewDemuxer(F) = IF k = 0 THEN AtEnd(Walk(F, L)) ELSE Walk(F, k)
  BY DEF NewDemuxer
<1> HIDE DEF k, L
<1>5. Demux(F) = AtEnd(Walk(F, L))
  BY DEF Demux, L
<1>6. CASE k = 0
  BY <1>4, <1>5, <1>6
<1>7. CASE k # 0
  <2>1. k \in Nat /\ k <= L
    BY <1>1, <1>3, <1>7
  <2>2. PICK f : Walks(f, F, L) /\ Walk(F, L) = f[L]
    BY <1>1, WalkRecursion
  <2>3. PICK g : Walks(g, F, k) /\ Walk(F, k) = g[k]
    BY <2>1, WalkRecursion
  <2>4. f[k] = g[k]
    BY <1>1, <2>1, <2>2, <2>3, WalksAgree
  <2>5. DemuxOK(f[k])
    <3>1. \A i \in 1 .. k : CellOK(F[i])
      BY <1>1, <2>1
    <3> QED BY <2>1, <2>3, <2>4, <3>1, WalkOK
  <2> DEFINE P == {n \in Nat : k + n <= L =>
                      /\ DemuxOK(f[k + n]) /\ DOMAIN f[k].tags \subseteq DOMAIN f[k + n].tags
                      /\ f[k].phase = "error" => f[k + n].phase = "error"}
  <2>6. 0 \in P
    BY <2>1, <2>5
  <2>7. ASSUME NEW n \in Nat, n \in P PROVE n + 1 \in P
    <3> SUFFICES ASSUME k + (n + 1) <= L
                 PROVE  /\ DemuxOK(f[k + (n + 1)]) /\ DOMAIN f[k].tags \subseteq DOMAIN f[k + (n + 1)].tags
                        /\ f[k].phase = "error" => f[k + (n + 1)].phase = "error"
      OBVIOUS
    <3> DEFINE d == f[k + n]
               c == F[k + (n + 1)]
               r == f[k + (n + 1)]
    <3>1. /\ DemuxOK(d) /\ DOMAIN f[k].tags \subseteq DOMAIN d.tags
          /\ f[k].phase = "error" => d.phase = "error"
      BY <1>1, <2>1, <2>7
    <3>2. k + (n + 1) \in 1 .. L /\ (k + (n + 1)) - 1 = k + n
      BY <1>1, <2>1
    <3>3. r = ReadCell(d, c, L) /\ CellOK(c)
      BY <1>1, <2>2, <3>2 DEF Walks, L
    <3> HIDE DEF d, c, r
    <3>4. DemuxOK(r)
      BY <3>1, <3>3, ReadCellOK
    <3>5. DOMAIN d.tags \subseteq DOMAIN r.tags
      BY <3>1, <3>3, TagsKept DEF DemuxOK
    <3>6. d.phase = "error" => r = d
      BY <3>3 DEF ReadCell
    <3> QED BY <3>1, <3>4, <3>5, <3>6 DEF r
  <2>8. Nat \subseteq P
    <3> HIDE DEF P
    <3> QED BY <2>6, <2>7, NatSetInduction
  <2>9. L - k \in Nat /\ k + (L - k) = L
    BY <1>1, <2>1
  <2>10. /\ DemuxOK(f[L]) /\ DOMAIN f[k].tags \subseteq DOMAIN f[L].tags
         /\ f[k].phase = "error" => f[L].phase = "error"
    <3>1. L - k \in P
      BY <2>8, <2>9
    <3> QED BY <1>1, <2>9, <3>1
  <2> DEFINE e == f[L]
  <2>11. AtEnd(e).tags = e.tags /\ (e.phase = "error" => AtEnd(e).phase = "error")
    <3>1. Shape(e)
      BY <2>10 DEF DemuxOK
    <3> HIDE DEF e
    <3> QED BY <3>1 DEF AtEnd, Shape, Demuxer0
  <2> HIDE DEF e, P
  <2> QED BY <1>4, <1>5, <1>7, <2>2, <2>3, <2>4, <2>10, <2>11 DEF e
<1> QED BY <1>6, <1>7

\* What Import can rely on once the file is finished.
LEMMA ReadersKnow ==
    ASSUME TypeInv, ReadInv, pc # "mux"
    PROVE  /\ DemuxOK(Opened) /\ DemuxOK(Read)
           /\ Read.phase = "error" <=> Unreadable
           /\ ~Unreadable => Read.tags = TagsIn
           /\ DOMAIN Opened.tags \subseteq DOMAIN Read.tags
           /\ Opened.phase = "error" => Unreadable
<1>1. FileInv /\ CellsOK(file) /\ demuxed = <<NewDemuxer(file), Demux(file)>> /\ Finished(file, meant)
  BY DEF TypeInv, FileInv, ReadInv
<1>2. DemuxOK(Opened) /\ DemuxOK(Read)
  BY <1>1, ReadersOK
<1>3. (Read.phase = "error" <=> Unreadable) /\ (~Unreadable => Read.tags = TagsIn)
  BY <1>1, FinishedRead
<1>4. Opened = NewDemuxer(file) /\ Read = Demux(file)
  BY <1>1 DEF Opened, Read
<1>5. DOMAIN Opened.tags \subseteq DOMAIN Read.tags /\ (Opened.phase = "error" => Read.phase = "error")
  BY <1>1, <1>4, OpenedRead
<1> QED BY <1>2, <1>3, <1>5

-----------------------------------------------------------------------------
(* A finished output.                                                      *)

\* The tags set when td are left of those that the header has, and of all.
FirstTags(tags, td) ==
    /\ td \subseteq DOMAIN Opened.tags
    /\ DOMAIN tags = StartTag \cup (DOMAIN Opened.tags \ td)

\* After the second pass over the tags all that can be read are set, but those to do.
LastTags(tags, td) ==
    /\ td \subseteq DOMAIN Read.tags
    /\ DOMAIN tags = StartTag \cup DOMAIN Opened.tags \cup (DOMAIN Read.tags \ td)
    /\ \A name \in DOMAIN Read.tags \ td : tags[name] = Read.tags[name]

\* How far the output is complete.
CompleteInv ==
    /\ pc \in {"tags", "frames", "late", "finalize", "done"} => Len(out.tracks) = Len(Mapped)
    /\ pc = "tags" => FirstTags(out.tags, todo)
    /\ pc = "frames" => FirstTags(out.tags, {})
    /\ pc = "late" => LastTags(out.tags, todo)
    /\ pc \in {"finalize", "done"} => LastTags(out.tags, {})
    /\ pc \in {"late", "finalize", "done"} => Read.phase # "error"

\* A step that leaves what was read and the options keeps the invariant if the
\* output has what its place in the program wants.
LEMMA CompleteKept ==
    ASSUME UNCHANGED <<demuxed, opts>>, CompleteInv, NEW p, p = pc',
           p = "tags" => FirstTags(out'.tags, todo'), p = "frames" => FirstTags(out'.tags, {}),
           p = "late" => LastTags(out'.tags, todo'),
           p \in {"finalize", "done"} => LastTags(out'.tags, {}),
           p \in {"late", "finalize", "done"} => Read.phase # "error",
           p \in {"tags", "frames", "late", "finalize", "done"} => Len(out'.tracks) = Len(Mapped)
    PROVE  CompleteInv'
<1>1. Mapped' = Mapped /\ Read' = Read /\ Opened' = Opened /\ StartTag' = StartTag
  BY MappingStays DEF StartTag
<1>2. FirstTags(out.tags, todo)' <=> FirstTags(out'.tags, todo')
  BY <1>1 DEF FirstTags
<1>3. FirstTags(out.tags, {})' <=> FirstTags(out'.tags, {})
  BY <1>1 DEF FirstTags
<1>4. LastTags(out.tags, todo)' <=> LastTags(out'.tags, todo')
  BY <1>1 DEF LastTags
<1>5. LastTags(out.tags, {})' <=> LastTags(out'.tags, {})
  BY <1>1 DEF LastTags
<1>6. (p = "tags" => FirstTags(out.tags, todo)') /\ (p = "frames" => FirstTags(out.tags, {})')
  BY <1>2, <1>3
<1>7. (p = "late" => LastTags(out.tags, todo)') /\ (p \in {"finalize", "done"} => LastTags(out.tags, {})')
  BY <1>4, <1>5
<1>8. p \in {"late", "finalize", "done"} => (Read.phase # "error")'
  BY <1>1
<1>9. p \in {"tags", "frames", "late", "finalize", "done"} => (Len(out.tracks) = Len(Mapped))'
  BY <1>1
<1> QED BY <1>6, <1>7, <1>8, <1>9 DEF CompleteInv

\* Setting one more of them.
LEMMA TagSet ==
    ASSUME NEW tags, NEW td, NEW name \in td
    PROVE  /\ FirstTags(tags, td) =>
                  FirstTags([n \in {name} \cup DOMAIN tags |->
                                IF n = name THEN Opened.tags[name] ELSE tags[n]], td \ {name})
           /\ LastTags(tags, td) =>
                  LastTags([n \in {name} \cup DOMAIN tags |->
                                IF n = name THEN Read.tags[name] ELSE tags[n]], td \ {name})
<1>1. ASSUME FirstTags(tags, td)
      PROVE  FirstTags([n \in {name} \cup DOMAIN tags |->
                           IF n = name THEN Opened.tags[name] ELSE tags[n]], td \ {name})
  BY <1>1 DEF FirstTags
<1>2. ASSUME LastTags(tags, td)
      PROVE  LastTags([n \in {name} \cup DOMAIN tags |->
                          IF n = name THEN Read.tags[name] ELSE tags[n]], td \ {name})
  <2> DEFINE next == [n \in {name} \cup DOMAIN tags |-> IF n = name THEN Read.tags[name] ELSE tags[n]]
  <2>1. td \ {name} \subseteq DOMAIN Read.tags
    BY <1>2 DEF LastTags
  <2>2. DOMAIN next = StartTag \cup DOMAIN Opened.tags \cup (DOMAIN Read.tags \ (td \ {name}))
    BY <1>2 DEF LastTags
  <2>3. ASSUME NEW n \in DOMAIN Read.tags \ (td \ {name}) PROVE next[n] = Read.tags[n]
    <3>1. CASE n = name
      BY <3>1
    <3>2. CASE n # name
      <4>1. n \in DOMAIN Read.tags \ td /\ n \in DOMAIN tags
        BY <1>2, <2>3, <3>2 DEF LastTags
      <4>2. tags[n] = Read.tags[n]
        BY <1>2, <4>1 DEF LastTags
      <4> QED BY <3>2, <4>1, <4>2
    <3> QED BY <3>1, <3>2
  <2> HIDE DEF next
  <2>4. LastTags(next, td \ {name})
    BY <2>1, <2>2, <2>3 DEF LastTags
  <2> QED BY <2>4 DEF next
<1> QED BY <1>1, <1>2

\* CompleteInv is inductive, with TypeInv and ReadInv.
LEMMA CompleteStep ==
    ASSUME TypeInv, ReadInv, CompleteInv, [Next]_vars
    PROVE  CompleteInv'
<1> USE DEF Fail
<1> DEFINE Passed == {"tags", "frames", "late", "finalize", "done"}
<1>1. ASSUME pc' \notin Passed PROVE CompleteInv'
  BY <1>1 DEF CompleteInv
<1>2. CASE MuxCluster \/ MuxBlock \/ MuxTags \/ MuxEnds
  <2>1. pc' \in {"mux", "idle"}
    BY <1>2 DEF MuxCluster, MuxBlock, MuxTags, MuxEnds
  <2> QED BY <1>1, <2>1
<1>3. CASE Begin \/ Open \/ Scan \/ Create
  <2>1. pc' \in {"open", "failed", "scan", "create", "tracks"}
    BY <1>3 DEF Begin, Open, Scan, Create
  <2> QED BY <1>1, <2>1
<1>4. pc \in Writing => DOMAIN out = DOMAIN EmptyOutput /\ out # <<>>
  BY DEF TypeInv, OutInv
<1>5. CASE AddTracks
  <2> DEFINE start == [name \in StartTag |-> {date + Epoch : date \in Opened.date}]
             list  == [k \in DOMAIN Mapped |-> MapTrack(Mapped[k], scale)]
             made  == [out EXCEPT !.tracks = list]
  <2>1. /\ pc = "tracks" /\ UNCHANGED <<demuxed, opts>> /\ todo' = DOMAIN Opened.tags
        /\ \/ pc' = "tags" /\ out' = [made EXCEPT !.tags = start]
           \/ pc' = "failed"
    BY <1>5 DEF AddTracks, muxed
  <2>2. Len(list) = Len(Mapped)
    <3>1. DemuxOK(Opened)
      BY <2>1, ReadersOK DEF TypeInv
    <3>2. Len(Mapped) \in Nat /\ DOMAIN Mapped = 1 .. Len(Mapped)
      BY <3>1, MappedOK
    <3>3. list = [i \in 1 .. Len(Mapped) |-> list[i]]
      BY <3>2
    <3> HIDE DEF list
    <3> QED BY <3>2, <3>3, IsSeqFunction
  <2>3. DOMAIN start = StartTag
    OBVIOUS
  <2> HIDE DEF start, list
  <2>4. made.tracks = list /\ DOMAIN made = DOMAIN EmptyOutput
    BY <1>4, <2>1 DEF EmptyOutput, Writing
  <2> HIDE DEF made
  <2>5. CASE pc' = "failed"
    BY <1>1, <2>5
  <2>6. CASE pc' = "tags" /\ out' = [made EXCEPT !.tags = start]
    <3>1. out'.tracks = list /\ out'.tags = start
      BY <2>4, <2>6 DEF EmptyOutput
    <3>2. FirstTags(start, DOMAIN Opened.tags)
      BY <2>3 DEF FirstTags
    <3>3. FirstTags(out'.tags, todo') /\ Len(out'.tracks) = Len(Mapped)
      BY <2>1, <2>2, <3>1, <3>2
    <3> QED BY <2>1, <2>6, <3>3, CompleteKept
  <2> QED BY <2>1, <2>5, <2>6
<1>6. CASE SetTag
  <2>1. pc \in {"tags", "late"} /\ UNCHANGED <<demuxed, opts>>
    BY <1>6 DEF SetTag, muxed
  <2>2. CASE pc' = "failed"
    BY <1>1, <2>2
  <2>3. CASE pc' # "failed"
    <3> DEFINE all == IF pc = "tags" THEN Opened.tags ELSE Read.tags
               Next2(name) == [n \in {name} \cup DOMAIN out.tags |->
                                  IF n = name THEN all[name] ELSE out.tags[n]]
    <3>1. PICK name \in todo : out' = [out EXCEPT !.tags = Next2(name)] /\ todo' = todo \ {name} /\ pc' = pc
      BY <1>6, <2>3 DEF SetTag
    <3> DEFINE next == Next2(name)
    <3>2. pc = "tags" => FirstTags(next, todo')
      <4> SUFFICES ASSUME pc = "tags" PROVE FirstTags(next, todo')
        OBVIOUS
      <4>1. FirstTags(out.tags, todo)
        BY DEF CompleteInv
      <4> QED BY <3>1, <4>1, TagSet
    <3>3. pc = "late" => LastTags(next, todo')
      <4> SUFFICES ASSUME pc = "late" PROVE LastTags(next, todo')
        OBVIOUS
      <4>1. LastTags(out.tags, todo)
        BY DEF CompleteInv
      <4> QED BY <3>1, <4>1, TagSet
    <3> HIDE DEF next, Next2, all
    <3>4. out'.tags = next /\ out'.tracks = out.tracks
      BY <1>4, <2>1, <3>1 DEF EmptyOutput, Writing, next
    <3>5. Len(out'.tracks) = Len(Mapped) /\ (pc = "late" => Read.phase # "error")
      BY <2>1, <3>4 DEF CompleteInv
    <3> QED BY <2>1, <3>1, <3>2, <3>3, <3>4, <3>5, CompleteKept
  <2> QED BY <2>2, <2>3
<1>7. CASE TagsSet
  <2>1. /\ pc \in {"tags", "late"} /\ todo = {} /\ out' = out /\ UNCHANGED <<demuxed, opts>>
        /\ pc' = IF pc = "tags" THEN "frames" ELSE "finalize"
    BY <1>7 DEF TagsSet, muxed
  <2>2. pc = "tags" => FirstTags(out'.tags, {})
    BY <2>1 DEF CompleteInv
  <2>3. pc = "late" => LastTags(out'.tags, {}) /\ Read.phase # "error"
    BY <2>1 DEF CompleteInv
  <2>4. Len(out'.tracks) = Len(Mapped)
    BY <2>1 DEF CompleteInv
  <2> QED BY <2>1, <2>2, <2>3, <2>4, CompleteKept
<1>8. CASE ReadFrame
  <2>1. pc = "frames" /\ UNCHANGED <<demuxed, opts>> /\ pc' \in {"frames", "failed"}
    BY <1>8 DEF ReadFrame, muxed
  <2>2. CASE pc' = "failed"
    BY <1>1, <2>2
  <2>3. CASE pc' = "frames"
    <3>1. out'.tags = out.tags /\ out'.tracks = out.tracks
      <4>1. out' = out \/ \E fs : out' = [out EXCEPT !.frames = fs]
        BY <1>8 DEF ReadFrame
      <4> QED BY <1>4, <2>1, <4>1 DEF EmptyOutput, Writing
    <3>2. FirstTags(out'.tags, {}) /\ Len(out'.tracks) = Len(Mapped)
      BY <2>1, <3>1 DEF CompleteInv
    <3> QED BY <2>1, <2>3, <3>2, CompleteKept
  <2> QED BY <2>1, <2>2, <2>3
<1>9. CASE EndOfFile
  <2>1. pc = "frames" /\ UNCHANGED <<demuxed, opts, out>>
    BY <1>9 DEF EndOfFile, muxed
  <2>2. CASE pc' = "failed"
    BY <1>1, <2>2
  <2>3. CASE pc' # "failed"
    <3>1. Read.phase # "error" /\ pc' = "late" /\ todo' = DOMAIN Read.tags
      BY <1>9, <2>3 DEF EndOfFile
    <3>2. FirstTags(out.tags, {}) /\ Len(out.tracks) = Len(Mapped)
      BY <2>1 DEF CompleteInv
    <3>3. LastTags(out'.tags, todo')
      BY <2>1, <3>1, <3>2 DEF FirstTags, LastTags
    <3> QED BY <2>1, <3>1, <3>2, <3>3, CompleteKept
  <2> QED BY <2>2, <2>3
<1>10. CASE Finalize
  <2>1. pc = "finalize" /\ pc' = "done" /\ UNCHANGED <<demuxed, opts>> /\ out' = [out EXCEPT !.final = TRUE]
    BY <1>10 DEF Finalize, muxed
  <2>2. out'.tags = out.tags /\ out'.tracks = out.tracks
    BY <1>4, <2>1 DEF EmptyOutput, Writing
  <2>3. LastTags(out'.tags, {}) /\ Len(out'.tracks) = Len(Mapped) /\ Read.phase # "error"
    BY <2>1, <2>2 DEF CompleteInv
  <2> QED BY <2>1, <2>3, CompleteKept
<1>11. CASE Break
  <2>1. pc' = "broken"
    BY <1>11 DEF Break
  <2> QED BY <1>1, <2>1
<1>12. CASE UNCHANGED vars
  <2>1. UNCHANGED <<demuxed, opts, out, todo, pc>>
    BY <1>12 DEF vars
  <2>2. /\ pc = "tags" => FirstTags(out'.tags, todo')
        /\ pc = "frames" => FirstTags(out'.tags, {})
        /\ pc = "late" => LastTags(out'.tags, todo')
        /\ pc \in {"finalize", "done"} => LastTags(out'.tags, {})
        /\ pc \in {"late", "finalize", "done"} => Read.phase # "error"
        /\ pc \in Passed => Len(out'.tracks) = Len(Mapped)
    BY <2>1 DEF CompleteInv
  <2> QED BY <2>1, <2>2, CompleteKept
<1> QED BY <1>2, <1>3, <1>5, <1>6, <1>7, <1>8, <1>9, <1>10, <1>11, <1>12 DEF Next

\* CompleteInv always holds.
LEMMA CompleteAlways == Spec => []CompleteInv
<1>1. Init => CompleteInv
  BY DEF Init, CompleteInv
<1>2. TypeInv /\ ReadInv /\ CompleteInv /\ [Next]_vars => CompleteInv'
  BY CompleteStep
<1> QED BY <1>1, <1>2, TypeAlways, ReadAlways, PTL DEF Spec

\* What any run of Import reports as done is finalized, has every track that can be
\* imported and every tag that can be read, with its last value.
THEOREM FinishedImportIsComplete == Spec => []FinishedImportComplete
<1>1. ASSUME TypeInv, ReadInv, CompleteInv PROVE FinishedImportComplete
  <2> SUFFICES ASSUME pc = "done"
               PROVE  /\ out.final
                      /\ Len(out.tracks) = Len(Mapped)
                      /\ DOMAIN out.tags = DOMAIN TagsIn \cup StartTag
                      /\ \A name \in DOMAIN TagsIn : out.tags[name] = TagsIn[name]
    BY DEF FinishedImportComplete
  <2>1. out.final /\ out.final \in BOOLEAN
    BY <1>1 DEF TypeInv, OutInv
  <2>2. Len(out.tracks) = Len(Mapped) /\ LastTags(out.tags, {}) /\ Read.phase # "error"
    BY <1>1 DEF CompleteInv
  <2>3. Read.tags = TagsIn /\ DOMAIN Opened.tags \subseteq DOMAIN Read.tags
    BY <1>1, <2>2, ReadersKnow
  <2>4. DOMAIN out.tags = DOMAIN TagsIn \cup StartTag
    BY <2>2, <2>3 DEF LastTags
  <2>5. \A name \in DOMAIN TagsIn : out.tags[name] = TagsIn[name]
    BY <2>2, <2>3 DEF LastTags
  <2> QED BY <2>1, <2>2, <2>4, <2>5
<1> QED BY <1>1, TypeAlways, ReadAlways, CompleteAlways, PTL

-----------------------------------------------------------------------------
(* Why an import fails.                                                    *)

\* Why an import may fail.
Reason ==
    \/ Unreadable
    \/ ~(opts.tracks \subseteq Numbers)
    \/ Refused
    \/ Cardinality(DOMAIN TagsIn \cup StartTag) > TagsRoom
    \/ OutOfOrder

\* Where the tracks have been added.
Added == {"tags", "frames", "late", "finalize", "done"}

\* Of a video track only the keyframes are in order.
InOrder(fs) ==
    \A i, j \in 1 .. Len(fs) :
        (/\ i < j /\ fs[i].track = fs[j].track
         /\ KindIn(fs[i].track) = "video" => fs[i].key /\ fs[j].key) => fs[i].pts <= fs[j].pts

\* Tracks that were asked for and are not there end an import before it scans, a time
\* scale that is taken for zero when it adds its tracks, what it wrote is in order, and a first run that failed has a reason.
ReasonInv ==
    /\ pc \in {"scan", "create", "done"} \cup Writing => opts.tracks \subseteq Numbers
    /\ pc \in Added => ~Refused
    /\ out # <<>> => InOrder(out.frames)
    /\ (pc = "failed" /\ runs = 1) => Reason

\* The reasons are of the file and the options alone.
LEMMA ReasonStays ==
    ASSUME UNCHANGED <<file, demuxed, opts>>
    PROVE  /\ Reason' <=> Reason
           /\ Refused' <=> Refused
           /\ (opts.tracks \subseteq Numbers)' <=> (opts.tracks \subseteq Numbers)
           /\ InOrder(out.frames)' <=> InOrder(out'.frames)
<1>1. /\ Read' = Read /\ Opened' = Opened /\ StartTag' = StartTag /\ file' = file /\ opts' = opts
      /\ \A n : KindIn(n)' = KindIn(n)
  BY MappingStays DEF StartTag
<1>2. Numbers' = Numbers
  BY <1>1 DEF Numbers
<1>3. Broken' = Broken
  BY <1>1 DEF Broken
<1>4. ReadTo' = ReadTo /\ (Unreadable' <=> Unreadable)
  BY <1>1, <1>3 DEF ReadTo, Unreadable
<1>5. TagsIn' = TagsIn
  BY <1>1, <1>4 DEF TagsIn, SelectLastInSeq
<1>6. Wanted' = Wanted
  BY CutStays
<1>7. WantedFrames' = WantedFrames
  BY <1>1, <1>6 DEF WantedFrames
<1>8. OutOfOrder' <=> OutOfOrder
  BY <1>1, <1>7 DEF OutOfOrder
<1>9. InOrder(out.frames)' <=> InOrder(out'.frames)
  BY <1>1 DEF InOrder
<1>10. Refused' <=> Refused
  <2>1. Mapped' = Mapped
    BY MappingStays
  <2> QED BY <1>1, <2>1 DEF Refused, scale
<1> QED BY <1>1, <1>2, <1>4, <1>5, <1>8, <1>9, <1>10 DEF Reason

\* Tags that do not fit are more than the area has room for, and all are of the file.
LEMMA TooManyTags ==
    ASSUME DemuxOK(Read), Read.tags = TagsIn, NEW D, D \subseteq DOMAIN Read.tags \cup StartTag,
           ~(Cardinality(D) <= TagsRoom)
    PROVE  Cardinality(DOMAIN TagsIn \cup StartTag) > TagsRoom
<1> DEFINE S == DOMAIN TagsIn \cup StartTag
<1>1. IsFiniteSet(StartTag)
  BY FS_EmptySet, FS_Singleton DEF StartTag
<1>2. IsFiniteSet(S)
  BY <1>1, FS_Union DEF DemuxOK
<1>3. D \subseteq S
  OBVIOUS
<1> HIDE DEF S
<1>4. IsFiniteSet(D) /\ Cardinality(D) <= Cardinality(S)
  BY <1>2, <1>3, FS_Subset
<1>5. Cardinality(D) \in Nat /\ Cardinality(S) \in Nat /\ TagsRoom \in Nat
  BY <1>2, <1>4, FS_CardinalityType, ImportAssumption
<1>6. Cardinality(S) > TagsRoom
  BY <1>4, <1>5
<1> QED BY <1>6 DEF S

\* LastInOrder is the last frame of the track that the next one must not precede.
LEMMA LastInOrderIs ==
    ASSUME Len(out.frames) \in Nat, NEW fr
    PROVE  LET I == {j \in 1 .. Len(out.frames) :
                        /\ out.frames[j].track = fr.track
                        /\ KindIn(out.frames[j].track) = "video" => out.frames[j].key}
               k == LastInOrder(fr)
           IN  /\ k = 0 => I = {}
               /\ k # 0 => k \in I /\ \A j \in I : j <= k
<1> DEFINE I == {j \in 1 .. Len(out.frames) :
                    /\ out.frames[j].track = fr.track
                    /\ KindIn(out.frames[j].track) = "video" => out.frames[j].key}
           k == LastInOrder(fr)
<1>1. k = IF I # {} THEN Max(I) ELSE 0
  BY DEF LastInOrder, SelectLastInSeq
<1>2. I \subseteq 1 .. Len(out.frames)
  OBVIOUS
<1> HIDE DEF k, I
<1>3. (k = 0 => I = {}) /\ (k # 0 => k \in I /\ \A j \in I : j <= k)
  BY <1>1, <1>2, LastWhere
<1> QED BY <1>3 DEF k, I

\* A frame that the writer accepts keeps the order,
LEMMA AcceptedInOrder ==
    ASSUME FramesOK(out.frames), InOrder(out.frames), NEW fr, fr.pts \in Nat, Accepts(fr)
    PROVE  InOrder(Append(out.frames, fr))
<1> DEFINE fs == out.frames
           n == Len(fs)
           gs == Append(fs, fr)
<1>1. n \in Nat /\ \A i \in 1 .. n : fs[i].pts \in Nat
  BY IsSeqType DEF FramesOK
<1>2. Len(gs) = n + 1 /\ gs[n + 1] = fr /\ \A i \in 1 .. n : gs[i] = fs[i]
  BY SeqAppend DEF FramesOK, Extended
<1>3. ASSUME NEW i \in 1 .. n, fs[i].track = fr.track,
             KindIn(fs[i].track) = "video" => fs[i].key /\ fr.key
      PROVE  fs[i].pts <= fr.pts
  <2> DEFINE I == {j \in 1 .. n : /\ fs[j].track = fr.track
                                  /\ KindIn(fs[j].track) = "video" => fs[j].key}
             k == LastInOrder(fr)
  <2>1. (k = 0 => I = {}) /\ (k # 0 => k \in I /\ \A j \in I : j <= k)
    BY <1>1, LastInOrderIs
  <2>2. i \in I
    BY <1>3
  <2> HIDE DEF k
  <2>3. k \in I /\ i <= k /\ k \in 1 .. n /\ k # 0
    BY <2>1, <2>2
  <2>4. fr.pts >= fs[k].pts
    <3>1. KindIn(fr.track) = "video" => fr.key
      BY <1>3
    <3>2. k > 0
      BY <2>3
    <3> QED BY <3>1, <3>2 DEF Accepts, k
  <2>5. fs[i].pts <= fs[k].pts
    <3>1. CASE i = k
      BY <1>1, <2>3, <3>1
    <3>2. CASE i < k
      <4>1. fs[k].track = fs[i].track /\ (KindIn(fs[i].track) = "video" => fs[i].key /\ fs[k].key)
        BY <1>3, <2>3
      <4> QED BY <2>3, <3>2, <4>1 DEF InOrder
    <3> QED BY <1>1, <2>3, <3>1, <3>2
  <2> QED BY <1>1, <2>3, <2>4, <2>5
<1> HIDE DEF gs
<1>4. ASSUME NEW i \in 1 .. Len(gs), NEW j \in 1 .. Len(gs), i < j, gs[i].track = gs[j].track,
             KindIn(gs[i].track) = "video" => gs[i].key /\ gs[j].key
      PROVE  gs[i].pts <= gs[j].pts
  <2>1. i \in 1 .. n /\ gs[i] = fs[i]
    BY <1>1, <1>2, <1>4
  <2>2. CASE j = n + 1
    BY <1>2, <1>3, <1>4, <2>1, <2>2
  <2>3. CASE j # n + 1
    <3>1. j \in 1 .. n /\ gs[j] = fs[j]
      BY <1>1, <1>2, <2>3
    <3> QED BY <1>4, <2>1, <3>1 DEF InOrder
  <2> QED BY <2>2, <2>3
<1> QED BY <1>4 DEF InOrder, gs

\* The frames that are asked for are a sequence.
LEMMA WantedDomain ==
    ASSUME DemuxOK(Read)
    PROVE  IsSeq(WantedFrames) /\ DOMAIN WantedFrames = 1 .. Len(WantedFrames)
<1> DEFINE ks == Select([i \in DOMAIN Read.packets |-> i], Wanted)
           ws == WantedFrames
<1>1. DOMAIN Read.packets = 1 .. N /\ N \in Nat
  BY IsSeqType DEF DemuxOK, PacketsOK, N
<1>2. ks = Kept(N)
  BY <1>1 DEF Kept, Ids
<1>3. Lists(Kept(N), N, Wanted)
  BY <1>1, KeptLists DEF Kept
<1>4. Kept(N) \in Seq(Nat) /\ Len(Kept(N)) \in Nat /\ DOMAIN Kept(N) = 1 .. Len(Kept(N))
  <2>1. Kept(N) \in Seq(Nat)
    BY <1>3 DEF Lists
  <2> QED BY <2>1, LenProperties
<1>5. ws = [i \in DOMAIN ks |-> Read.packets[ks[i]]]
  BY DEF WantedFrames
<1> HIDE DEF ks, ws
<1>6. ws = [i \in 1 .. Len(Kept(N)) |-> Read.packets[Kept(N)[i]]]
  BY <1>2, <1>4, <1>5
<1>7. ws = [i \in 1 .. Len(Kept(N)) |-> ws[i]]
  BY <1>6
<1>8. IsSeq(ws)
  BY <1>4, <1>7, IsSeqFunction
<1> QED BY <1>8, IsSeqType DEF ws

\* and one that it refuses is out of order in the file.
LEMMA RefusedOutOfOrder ==
    ASSUME TypeInv, CutInv, runs = 1, pc = "frames", at < N, DemuxOK(Opened), DemuxOK(Read),
           NEW p, p = Read.packets[at + 1], ~Skipped(p), ~BeforeRange(p), ~AfterRange(p),
           NEW fr, fr.track = p.track, fr.pts = p.ts, fr.key = p.key, ~Accepts(fr)
    PROVE  OutOfOrder
<1> DEFINE fs == out.frames
           n == Len(fs)
           k == LastInOrder(fr)
           ws == WantedFrames
<1>1. out # <<>> /\ FramesOK(fs) /\ at \in Nat
  BY DEF TypeInv, OutInv, Writing
<1>2. n \in Nat /\ \A i \in 1 .. n : fs[i].pts \in Nat
  BY <1>1, IsSeqType DEF FramesOK
<1>3. snap = SnapMade /\ CutAt(fs, at) /\ \A m : m \in ended <=> EndedBy(m, at)
  BY <1>1 DEF CutInv
<1>4. Asked(at + 1)
  BY <1>3, ReadStep
<1>5. N \in Nat /\ at + 1 \in Nat /\ at + 1 <= N /\ p.ts \in Int
  BY <1>1, RangeType
<1>6. Kept(at + 1) = Append(Kept(at), at + 1)
  <2>1. at + 1 \in Wanted
    BY <1>4, WantedIs
  <2> QED BY <1>1, <2>1, KeptNext DEF Kept
<1>7. Kept(at) \in Seq(Nat) /\ Len(Kept(at)) = n
  <2>1. Lists(Kept(at), at, Wanted)
    BY <1>1, KeptLists DEF Kept
  <2> QED BY <1>3, <2>1 DEF CutAt, Lists
<1>8. /\ Len(Kept(at + 1)) = n + 1 /\ Kept(at + 1)[n + 1] = at + 1
      /\ \A i \in 1 .. n : Kept(at + 1)[i] = Kept(at)[i]
  <2>1. IsSeq(Kept(at)) /\ Len(Kept(at)) = n
    BY <1>7 DEF IsSeq
  <2>2. Extended(Kept(at + 1), Kept(at), at + 1)
    BY <1>6, <2>1, SeqAppend
  <2> HIDE DEF n
  <2> QED BY <2>1, <2>2 DEF Extended
<1>9. Begins(Kept(at + 1), Kept(N))
  BY <1>5, KeptBegins DEF Kept
<1>10. /\ Len(ws) = Len(Kept(N)) /\ Len(Kept(N)) \in Nat /\ IsSeq(ws)
       /\ \A i \in 1 .. Len(Kept(N)) : ws[i] = Read.packets[Kept(N)[i]]
  <2>1. IsSeq(ws)
    BY WantedDomain
  <2> QED BY <2>1, WantedFramesIs
<1>11. DOMAIN ws = 1 .. Len(ws)
  BY <1>10, IsSeqType
<1> HIDE DEF ws
<1>12. /\ n + 1 \in 1 .. Len(ws) /\ ws[n + 1] = p
       /\ \A i \in 1 .. n : i \in 1 .. Len(ws) /\ ws[i] = Read.packets[Kept(at)[i]]
  <2>1. n + 1 <= Len(ws) /\ \A i \in 1 .. n + 1 : Kept(N)[i] = Kept(at + 1)[i]
    BY <1>8, <1>9, <1>10 DEF Begins
  <2>2. \A i \in 1 .. n + 1 : i \in 1 .. Len(ws) /\ ws[i] = Read.packets[Kept(at + 1)[i]]
    BY <1>2, <1>10, <2>1
  <2>3. n + 1 \in 1 .. n + 1 /\ \A i \in 1 .. n : i \in 1 .. n + 1
    BY <1>2
  <2> QED BY <1>8, <2>2, <2>3
<1>13. /\ KindIn(fr.track) = "video" => fr.key
       /\ k > 0 /\ ~(fr.pts >= fs[k].pts)
  BY DEF Accepts
<1>14. k \in 1 .. n /\ fs[k].track = fr.track /\ (KindIn(fs[k].track) = "video" => fs[k].key)
  <2> DEFINE I == {j \in 1 .. n : /\ fs[j].track = fr.track
                                  /\ KindIn(fs[j].track) = "video" => fs[j].key}
  <2>1. k # 0 => k \in I
    BY <1>2, LastInOrderIs
  <2> HIDE DEF k
  <2>2. k # 0
    BY <1>13
  <2> QED BY <2>1, <2>2
<1> HIDE DEF k
<1>15. Copies(fs[k], ws[k])
  BY <1>3, <1>12, <1>14 DEF CutAt
<1>16. k < n + 1 /\ ws[k].track = ws[n + 1].track /\ ws[n + 1].ts < ws[k].ts
  <2>1. fs[k].pts \in Nat /\ fs[k].pts = ws[k].ts /\ fs[k].track = ws[k].track
    BY <1>2, <1>14, <1>15 DEF Copies
  <2>2. ws[n + 1].ts = p.ts /\ ws[n + 1].track = p.track
    BY <1>12
  <2>3. p.ts < fs[k].pts
    BY <1>5, <1>13, <2>1
  <2>4. ws[k].track = ws[n + 1].track
    BY <1>14, <2>1, <2>2
  <2>5. ws[n + 1].ts < ws[k].ts
    BY <2>1, <2>2, <2>3
  <2>6. k < n + 1
    BY <1>2, <1>14
  <2> QED BY <2>4, <2>5, <2>6
<1>17. KindIn(ws[k].track) = "video" => ws[k].key /\ ws[n + 1].key
  BY <1>12, <1>13, <1>14, <1>15 DEF Copies
<1>18. k \in DOMAIN ws /\ n + 1 \in DOMAIN ws
  BY <1>11, <1>12, <1>14
<1> HIDE DEF n, fs
<1> QED BY <1>16, <1>17, <1>18 DEF OutOfOrder, ws

\* A step that leaves the file and the options keeps the invariant, if it keeps its
\* parts.
LEMMA ReasonKept ==
    ASSUME UNCHANGED <<file, demuxed, opts, runs>>, ReasonInv,
           pc' \in {"scan", "create", "done"} \cup Writing => opts.tracks \subseteq Numbers,
           pc' \in Added => ~Refused,
           out' # <<>> => InOrder(out'.frames),
           (pc' = "failed" /\ runs = 1) => Reason
    PROVE  ReasonInv'
<1>1. (opts.tracks \subseteq Numbers)' <=> (opts.tracks \subseteq Numbers)
  BY ReasonStays
<1>2. InOrder(out.frames)' <=> InOrder(out'.frames)
  BY ReasonStays
<1>3. (Reason' <=> Reason) /\ (Refused' <=> Refused)
  BY ReasonStays
<1> QED BY <1>1, <1>2, <1>3 DEF ReasonInv, Writing, Added

\* ReasonInv is inductive, with the invariants of the file, the cut and the output.
LEMMA ReasonStep ==
    ASSUME TypeInv, ReadInv, CutInv, CompleteInv, ReasonInv, [Next]_vars
    PROVE  ReasonInv'
<1> USE DEF Fail
<1>1. pc \in Writing => DOMAIN out = DOMAIN EmptyOutput /\ out # <<>> /\ FramesOK(out.frames)
  BY DEF TypeInv, OutInv
<1>2. pc # "mux" => /\ DemuxOK(Opened) /\ DemuxOK(Read)
                    /\ Read.phase = "error" <=> Unreadable
                    /\ ~Unreadable => Read.tags = TagsIn
                    /\ DOMAIN Opened.tags \subseteq DOMAIN Read.tags
                    /\ Opened.phase = "error" => Unreadable
  BY ReadersKnow
<1>3. out # <<>> => InOrder(out.frames)
  BY DEF ReasonInv
<1>4. CASE MuxCluster \/ MuxBlock \/ MuxTags \/ MuxEnds
  <2>1. pc = "mux" /\ pc' \in {"mux", "idle"} /\ out' = out
    BY <1>4 DEF MuxCluster, MuxBlock, MuxTags, MuxEnds, importing
  <2>2. out = <<>>
    BY <2>1 DEF TypeInv, OutInv
  <2> QED BY <2>1, <2>2 DEF ReasonInv, Writing, Added
<1>5. CASE Begin
  <2>1. /\ pc' = "open" /\ out' = out /\ file' = file /\ demuxed' = demuxed
        /\ runs # 0 => opts' = opts
    BY <1>5 DEF Begin, muxed
  <2>2. CASE out = <<>>
    BY <2>1, <2>2 DEF ReasonInv, Writing, Added
  <2>3. CASE out # <<>>
    <3>1. runs # 0
      BY <2>3 DEF TypeInv, OutInv
    <3>2. UNCHANGED <<file, demuxed, opts>>
      BY <2>1, <3>1
    <3>3. InOrder(out.frames)'
      BY <1>3, <2>1, <2>3, <3>2, ReasonStays
    <3> QED BY <2>1, <3>3 DEF ReasonInv, Writing, Added
  <2> QED BY <2>2, <2>3
<1>6. CASE Open
  <2>1. UNCHANGED <<file, demuxed, opts, runs, out>> /\ pc = "open" /\ pc' \in {"failed", "scan", "create"}
        /\ (pc' = "failed" => Opened.phase = "error" \/ ~(opts.tracks \subseteq Numbers))
        /\ (pc' # "failed" => opts.tracks \subseteq Numbers)
    BY <1>6 DEF Open, muxed
  <2>2. pc' = "failed" => Reason
    BY <1>2, <2>1 DEF Reason
  <2> QED BY <1>3, <2>1, <2>2, ReasonKept DEF Writing, Added
<1>7. CASE Scan
  <2>1. UNCHANGED <<file, demuxed, opts, runs, out>> /\ pc = "scan" /\ pc' \in {"failed", "create"}
        /\ (pc' = "failed" => Read.phase = "error")
    BY <1>7 DEF Scan, muxed
  <2>2. pc' = "failed" => Reason
    BY <1>2, <2>1 DEF Reason
  <2>3. opts.tracks \subseteq Numbers
    BY <2>1 DEF ReasonInv
  <2> QED BY <1>3, <2>1, <2>2, <2>3, ReasonKept DEF Writing, Added
<1>8. CASE Create
  <2>1. UNCHANGED <<file, demuxed, opts, runs>> /\ pc = "create"
        /\ IF out # <<>> THEN pc' = "failed" /\ out' = out ELSE pc' = "tracks" /\ out' = EmptyOutput
    BY <1>8 DEF Create, muxed
  <2>2. opts.tracks \subseteq Numbers
    BY <2>1 DEF ReasonInv
  <2>3. runs = 1 => out = <<>>
    BY <2>1 DEF CutInv
  <2>4. InOrder(EmptyOutput.frames)
    <3>1. Len(EmptyOutput.frames) = 0
      BY DEF EmptyOutput
    <3> QED BY <3>1 DEF InOrder
  <2>5. out' # <<>> => InOrder(out'.frames)
    BY <1>3, <2>1, <2>4
  <2> QED BY <2>1, <2>2, <2>3, <2>5, ReasonKept DEF Writing, Added
<1>9. ASSUME UNCHANGED <<file, demuxed, opts, runs>>, pc \in Writing, out'.frames = out.frames,
             pc' \notin {"scan", "create"}, pc' = "failed" => Reason,
             pc' \in Added => pc \in Added \/ ~Refused
      PROVE  ReasonInv'
  <2>1. opts.tracks \subseteq Numbers
    BY <1>9 DEF ReasonInv
  <2>2. InOrder(out'.frames)
    BY <1>1, <1>3, <1>9
  <2>3. pc' \in Added => ~Refused
    BY <1>9 DEF ReasonInv
  <2> QED BY <1>9, <2>1, <2>2, <2>3, ReasonKept
<1>10. CASE AddTracks
  <2> DEFINE start == [name \in StartTag |-> {date + Epoch : date \in Opened.date}]
             made  == [out EXCEPT !.tracks = [k \in DOMAIN Mapped |-> MapTrack(Mapped[k], scale)]]
  <2>1. /\ pc = "tracks" /\ UNCHANGED <<file, demuxed, opts, runs>>
        /\ \/ Refused /\ pc' = "failed" /\ out' = out
           \/ ~Refused /\ pc' = "tags" /\ out' = [made EXCEPT !.tags = start]
           \/ ~Fits(start) /\ pc' = "failed" /\ out' = made
    BY <1>10 DEF AddTracks, muxed
  <2>2. DOMAIN start = StartTag
    OBVIOUS
  <2> HIDE DEF start
  <2>3. DOMAIN made = DOMAIN EmptyOutput /\ made.frames = out.frames
    BY <1>1, <2>1 DEF EmptyOutput, Writing
  <2> HIDE DEF made
  <2>4. out'.frames = out.frames
    BY <2>1, <2>3 DEF EmptyOutput
  <2>5. ASSUME pc' = "failed" PROVE Reason
    <3>1. CASE Refused
      BY <3>1 DEF Reason
    <3>2. CASE Unreadable
      BY <3>2 DEF Reason
    <3>3. CASE ~Unreadable /\ ~Refused
      <4>2. ~(Cardinality(StartTag) <= TagsRoom)
        BY <2>1, <2>2, <2>5, <3>3 DEF Fits
      <4>1. Cardinality(DOMAIN TagsIn \cup StartTag) > TagsRoom
        BY <1>2, <2>1, <3>3, <4>2, TooManyTags
      <4> QED BY <4>1 DEF Reason
    <3> QED BY <3>1, <3>2, <3>3
  <2> QED BY <1>9, <2>1, <2>4, <2>5 DEF Writing, Added
<1>11. CASE SetTag
  <2>1. pc \in {"tags", "late"} /\ UNCHANGED <<file, demuxed, opts, runs>>
    BY <1>11 DEF SetTag, muxed
  <2> DEFINE all == IF pc = "tags" THEN Opened.tags ELSE Read.tags
             Next2(name) == [n \in {name} \cup DOMAIN out.tags |->
                                IF n = name THEN all[name] ELSE out.tags[n]]
  <2>2. PICK name \in todo : IF Fits(Next2(name))
                             THEN out' = [out EXCEPT !.tags = Next2(name)] /\ pc' = pc
                             ELSE pc' = "failed" /\ out' = out
    BY <1>11 DEF SetTag
  <2> DEFINE next == Next2(name)
  <2>3. DOMAIN next = {name} \cup DOMAIN out.tags
    OBVIOUS
  <2> HIDE DEF next, Next2, all
  <2>4. out'.frames = out.frames
    BY <1>1, <2>1, <2>2 DEF EmptyOutput, Writing
  <2>5. ASSUME pc' = "failed" PROVE Reason
    <3>1. ~(Cardinality(DOMAIN next) <= TagsRoom)
      BY <2>1, <2>2, <2>5 DEF Fits, next
    <3>2. DOMAIN next \subseteq DOMAIN Read.tags \cup StartTag
      <4>1. CASE pc = "tags"
        <5>1. FirstTags(out.tags, todo)
          BY <4>1 DEF CompleteInv
        <5> QED BY <1>2, <2>1, <2>2, <2>3, <5>1 DEF FirstTags
      <4>2. CASE pc = "late"
        <5>1. LastTags(out.tags, todo)
          BY <4>2 DEF CompleteInv
        <5> QED BY <1>2, <2>1, <2>2, <2>3, <5>1 DEF LastTags
      <4> QED BY <2>1, <4>1, <4>2
    <3>3. CASE Unreadable
      BY <3>3 DEF Reason
    <3>4. CASE ~Unreadable
      <4>1. Cardinality(DOMAIN TagsIn \cup StartTag) > TagsRoom
        BY <1>2, <2>1, <3>1, <3>2, <3>4, TooManyTags
      <4> QED BY <4>1 DEF Reason
    <3> QED BY <3>3, <3>4
  <2>6. pc' \in {"tags", "late", "failed"}
    BY <2>1, <2>2
  <2> QED BY <1>9, <2>1, <2>4, <2>5, <2>6 DEF Writing, Added
<1>12. CASE TagsSet
  <2>1. pc \in {"tags", "late"} /\ UNCHANGED <<file, demuxed, opts, runs, out>> /\ pc' \in {"frames", "finalize"}
    BY <1>12 DEF TagsSet, muxed
  <2> QED BY <1>9, <2>1 DEF Writing, Added
<1>13. CASE ReadFrame
  <2> DEFINE p  == Read.packets[at + 1]
             fr == [track |-> p.track, pts |-> p.ts, key |-> p.key, data |-> p.data,
                    dur |-> IF KindIn(p.track) = "data" THEN p.dur ELSE 0]
  <2>1. pc = "frames" /\ at < N /\ UNCHANGED <<file, demuxed, opts, runs>>
    BY <1>13 DEF ReadFrame, muxed, N
  <2>2. \/ pc' = "frames" /\ out' = out
        \/ pc' = "frames" /\ Accepts(fr) /\ ~Skipped(p) /\ out' = [out EXCEPT !.frames = Append(@, fr)]
        \/ pc' = "failed" /\ out' = out /\ ~Skipped(p) /\ ~BeforeRange(p) /\ ~AfterRange(p) /\ ~Accepts(fr)
    BY <1>13, <2>1 DEF ReadFrame
  <2>3. fr.track = p.track /\ fr.pts = p.ts /\ fr.key = p.key
    OBVIOUS
  <2> HIDE DEF fr
  <2>4. CASE pc' = "frames" /\ out' = out
    BY <1>9, <2>1, <2>4 DEF Writing, Added
  <2>5. CASE pc' = "failed" /\ out' = out /\ ~Skipped(p) /\ ~BeforeRange(p) /\ ~AfterRange(p) /\ ~Accepts(fr)
    <3>1. ASSUME runs = 1 PROVE Reason
      <4>1. DemuxOK(Opened) /\ DemuxOK(Read)
        BY <1>2, <2>1
      <4>2. OutOfOrder
        <5> HIDE DEF p
        <5> QED BY <2>1, <2>3, <2>5, <3>1, <4>1, RefusedOutOfOrder DEF p
      <4> QED BY <4>2 DEF Reason
    <3> QED BY <1>3, <2>1, <2>5, <3>1, ReasonKept DEF Writing, Added
  <2>6. CASE pc' = "frames" /\ Accepts(fr) /\ ~Skipped(p) /\ out' = [out EXCEPT !.frames = Append(@, fr)]
    <3>1. p.ts \in Int /\ p.ts >= 0
      <4>1. N \in Nat /\ at + 1 \in 1 .. N
        <5>1. N \in Nat /\ at \in Nat
          BY <1>2, <2>1, RangeType DEF TypeInv
        <5> QED BY <2>1, <5>1
      <4>2. p.ts \in Int
        BY <1>2, <2>1, <4>1, RangeType
      <4> QED BY <2>6, <4>2 DEF Skipped
    <3>2. fr.pts \in Nat
      BY <2>3, <3>1
    <3>3. FramesOK(out.frames) /\ InOrder(out.frames) /\ DOMAIN out = DOMAIN EmptyOutput
      BY <1>1, <1>3, <2>1 DEF Writing
    <3>4. InOrder(Append(out.frames, fr))
      BY <2>6, <3>2, <3>3, AcceptedInOrder
    <3>5. out'.frames = Append(out.frames, fr)
      BY <2>6, <3>3 DEF EmptyOutput
    <3>6. opts.tracks \subseteq Numbers /\ ~Refused
      BY <2>1 DEF ReasonInv, Writing, Added
    <3> QED BY <2>1, <2>6, <3>4, <3>5, <3>6, ReasonKept DEF Writing
  <2> QED BY <2>2, <2>4, <2>5, <2>6
<1>14. CASE EndOfFile
  <2>1. pc = "frames" /\ UNCHANGED <<file, demuxed, opts, runs, out>> /\ pc' \in {"failed", "late"}
        /\ (pc' = "failed" => Read.phase = "error")
    BY <1>14 DEF EndOfFile, muxed
  <2>2. pc' = "failed" => Reason
    BY <1>2, <2>1 DEF Reason
  <2> QED BY <1>9, <2>1, <2>2 DEF Writing, Added
<1>15. CASE Finalize
  <2>1. pc = "finalize" /\ UNCHANGED <<file, demuxed, opts, runs>> /\ pc' = "done"
        /\ out' = [out EXCEPT !.final = TRUE]
    BY <1>15 DEF Finalize, muxed
  <2>2. out'.frames = out.frames
    BY <1>1, <2>1 DEF EmptyOutput, Writing
  <2> QED BY <1>9, <2>1, <2>2 DEF Writing, Added
<1>16. CASE Break
  <2>1. pc \in Writing /\ UNCHANGED <<file, demuxed, opts, runs, out>> /\ pc' = "broken"
    BY <1>16 DEF Break, muxed, Writing
  <2> QED BY <1>9, <2>1 DEF Added
<1>17. CASE UNCHANGED vars
  <2>1. UNCHANGED <<file, demuxed, opts, runs, out, pc>>
    BY <1>17 DEF vars
  <2> QED BY <1>3, <2>1, ReasonKept DEF ReasonInv
<1> QED BY <1>4, <1>5, <1>6, <1>7, <1>8, <1>10, <1>11, <1>12, <1>13, <1>14, <1>15, <1>16, <1>17 DEF Next

\* ReasonInv always holds.
LEMMA ReasonAlways == Spec => []ReasonInv
<1>1. Init => ReasonInv
  BY DEF Init, ReasonInv, Writing, Added
<1>2. TypeInv /\ ReadInv /\ CutInv /\ CompleteInv /\ ReasonInv /\ [Next]_vars => ReasonInv'
  BY ReasonStep
<1> QED BY <1>1, <1>2, TypeAlways, ReadAlways, CutAlways, CompleteAlways, PTL DEF Spec

\* Import fails on its first run exactly for a broken file, a selected track that is
\* not there, a time scale that AddTrack takes for zero, tags that do not fit, or
\* frames out of order.
THEOREM ImportFailsForThese == Spec => []ImportFailsForAReason
<1>1. ASSUME TypeInv, ReadInv, CutInv, CompleteInv, ReasonInv PROVE ImportFailsForAReason
  <2> SUFFICES ASSUME pc \in {"done", "failed"}, runs = 1 PROVE pc = "failed" <=> Reason
    BY DEF ImportFailsForAReason, Reason
  <2>1. pc = "failed" => Reason
    BY <1>1 DEF ReasonInv
  <2>2. ASSUME pc = "done" PROVE ~Reason
    <3>1. Read.phase # "error" /\ LastTags(out.tags, {})
      BY <1>1, <2>2 DEF CompleteInv
    <3>2. /\ ~Unreadable /\ Read.tags = TagsIn /\ DOMAIN Opened.tags \subseteq DOMAIN Read.tags
          /\ DemuxOK(Opened) /\ DemuxOK(Read)
      BY <1>1, <2>2, <3>1, ReadersKnow
    <3>3. opts.tracks \subseteq Numbers /\ ~Refused /\ InOrder(out.frames)
      <4>1. out # <<>>
        BY <1>1, <2>2 DEF TypeInv, OutInv
      <4> QED BY <1>1, <2>2, <4>1 DEF ReasonInv, Added
    <3>4. ~(Cardinality(DOMAIN TagsIn \cup StartTag) > TagsRoom)
      <4>1. DOMAIN out.tags = DOMAIN TagsIn \cup StartTag
        BY <3>1, <3>2 DEF LastTags
      <4>2. Cardinality(DOMAIN out.tags) <= TagsRoom
        BY <1>1, <2>2 DEF TypeInv, OutInv, Fits
      <4>3. IsFiniteSet(DOMAIN TagsIn \cup StartTag)
        <5>1. IsFiniteSet(StartTag)
          BY FS_EmptySet, FS_Singleton DEF StartTag
        <5> QED BY <3>2, <5>1, FS_Union DEF DemuxOK
      <4>4. Cardinality(DOMAIN TagsIn \cup StartTag) \in Nat /\ TagsRoom \in Nat
        BY <4>3, FS_CardinalityType, ImportAssumption
      <4> QED BY <4>1, <4>2, <4>4
    <3>5. ~OutOfOrder
      <4> DEFINE ws == WantedFrames
      <4>1. at = N /\ CutAt(out.frames, at) /\ FramesOK(out.frames)
        <5>1. out # <<>> /\ FramesOK(out.frames)
          BY <1>1, <2>2 DEF TypeInv, OutInv
        <5> QED BY <1>1, <2>2, <5>1 DEF CutInv
      <4>2. /\ Len(ws) = Len(Kept(N)) /\ Len(Kept(N)) \in Nat
            /\ \A i \in 1 .. Len(Kept(N)) : ws[i] = Read.packets[Kept(N)[i]]
        BY <3>2, WantedFramesIs
      <4>3. \A i \in 1 .. Len(ws) : i \in 1 .. Len(out.frames) /\ Copies(out.frames[i], ws[i])
        BY <4>1, <4>2 DEF CutAt
      <4>4. DOMAIN ws = 1 .. Len(ws)
        BY <3>2, WantedDomain
      <4>5. \A i \in 1 .. Len(out.frames) : out.frames[i].pts \in Nat
        BY <4>1 DEF FramesOK
      <4> HIDE DEF ws
      <4>6. ASSUME NEW i \in 1 .. Len(ws), NEW j \in 1 .. Len(ws), i < j, ws[i].track = ws[j].track,
                   ws[j].ts < ws[i].ts, KindIn(ws[i].track) = "video" => ws[i].key /\ ws[j].key
            PROVE  FALSE
        <5>1. /\ out.frames[i].track = ws[i].track /\ out.frames[i].pts = ws[i].ts /\ out.frames[i].key = ws[i].key
              /\ out.frames[j].track = ws[j].track /\ out.frames[j].pts = ws[j].ts /\ out.frames[j].key = ws[j].key
              /\ i \in 1 .. Len(out.frames) /\ j \in 1 .. Len(out.frames)
          BY <4>3 DEF Copies
        <5>2. out.frames[i].pts <= out.frames[j].pts
          BY <3>3, <4>6, <5>1 DEF InOrder
        <5>3. ws[i].ts \in Nat /\ ws[j].ts \in Nat
          BY <4>5, <5>1
        <5> QED BY <4>6, <5>1, <5>2, <5>3
      <4> QED BY <4>4, <4>6 DEF OutOfOrder, ws
    <3> QED BY <3>2, <3>3, <3>4, <3>5 DEF Reason
  <2> QED BY <2>1, <2>2
<1> QED BY <1>1, TypeAlways, ReadAlways, CutAlways, CompleteAlways, ReasonAlways, PTL
=============================================================================
