----------------------------- MODULE MkvFormat -----------------------------
(***************************************************************************)
(* A Matroska file and how Demuxer walks it.                               *)
(*                                                                         *)
(* A file is a sequence of cells.  A Segment or a Cluster is its header    *)
(* cell, its size counted in the cells that follow; any other element is   *)
(* one cell, as the demuxer takes it in whole.  Torn stands for an element *)
(* that the end of the file cuts off.                                      *)
(***************************************************************************)
EXTENDS MkvTracks, FiniteSets, SequencesExt

CONSTANT RelHalf      \* half the range of a block's int16 relative timestamp

ASSUME FormatAssumption == RelHalf \in Nat \ {0}

Unknown == -1          \* the all-ones size of a master still being written
NoTags  == [k \in {} |-> k]

EBML(matroska)    == [el |-> "ebml", matroska |-> matroska]
Segment(size)     == [el |-> "segment", size |-> size]
Info(scale, date, duration) ==
    [el |-> "info", scale |-> scale, date |-> date, duration |-> duration]
TrackList(els)    == [el |-> "tracks", entries |-> els]
Tags(map)         == [el |-> "tags", tags |-> map]
Cluster(size)     == [el |-> "cluster", size |-> size]
Timestamp(ts)     == [el |-> "timestamp", ts |-> ts]
Cues(points)      == [el |-> "cues", points |-> points]
Void              == [el |-> "void"]
SeekHead(targets) == [el |-> "seekhead", targets |-> targets]
UnknownMaster     == [el |-> "master"]     \* neither Segment nor Cluster
Torn              == [el |-> "torn"]

\* A block: its lacing, the number of frames, the sizes coded for it and the
\* payload behind them, which begins with what reads as a number of `vint` bytes,
\* or as none when vint is 0.
Payload(tr, rel, lacing, count, coded, vint, rest) ==
    [track |-> tr, rel |-> rel, lacing |-> lacing, count |-> count, coded |-> coded,
     vint |-> vint, rest |-> rest]
Plain(tr, rel, data) == Payload(tr, rel, "none", 1, <<>>, 0, data)

SimpleBlock(key, block) == [el |-> "simple", key |-> key, block |-> block]

\* hasBlock: a BlockGroup may lack its Block; ref: it has a ReferenceBlock.
BlockGroup(hasBlock, ref, dur, block) ==
    [el |-> "group", hasBlock |-> hasBlock, ref |-> ref, dur |-> dur, block |-> block]

IsBlock(c) == c.el \in {"simple", "group"}

\* byte(uint16(rel)>>8), byte(uint16(rel)) read back as int16.
ToInt16(rel) == ((rel + RelHalf) % (2 * RelHalf)) - RelHalf

-----------------------------------------------------------------------------
(* parseBlockPayload.                                                      *)

Packet(tr, ts, key, dur, data) ==
    [track |-> tr, ts |-> ts, key |-> key, dur |-> dur, data |-> data]

SumTo(s, n) ==
    LET sum[k \in 0 .. n] == IF k = 0 THEN 0 ELSE sum[k - 1] + s[k]
    IN  sum[n]

\* Mutant: the differences of EBML lacing are taken for sizes.
LeadingSizesNoSum(b) ==
    CASE b.lacing \in {"xiph", "ebml"} -> b.coded
      [] b.lacing = "fixed" -> [i \in 1 .. b.count - 1 |-> Len(b.rest) \div b.count]
      [] OTHER              -> <<>>

\* Sizes of all frames but the last: given one by one (Xiph), as the first and
\* then differences (EBML), or equal (fixed).
LeadingSizes(b) ==
    CASE b.lacing = "xiph"  -> b.coded
      [] b.lacing = "ebml"  -> [i \in DOMAIN b.coded |-> SumTo(b.coded, i)]
      [] b.lacing = "fixed" -> [i \in 1 .. b.count - 1 |-> Len(b.rest) \div b.count]
      [] OTHER              -> <<>>

\* EBML lacing of one frame has no size coded, but a first size is read all the
\* same: from the payload.
Alone(b)     == b.lacing = "ebml" /\ b.count = 1
Swallowed(b) == IF Alone(b) THEN b.vint ELSE 0

BadLacing(b) ==
    LET sizes == LeadingSizes(b)
    IN  \/ b.lacing = "fixed" /\ Len(b.rest) % b.count # 0
        \/ Alone(b) /\ b.vint = 0
        \/ \E i \in DOMAIN sizes : sizes[i] < 0
        \/ SumTo(sizes, Len(sizes)) > Len(b.rest)

\* The frames of a block, `step` units apart; the last one takes the remainder.
\* Each has the flag and the duration of the block.
Unlace(b, ts, step, key, dur) ==
    LET sizes == LeadingSizes(b)
        from(i) == Swallowed(b) + SumTo(sizes, i - 1) + 1
        upto(i) == IF i = b.count THEN Len(b.rest) ELSE SumTo(sizes, i)
    IN  [i \in 1 .. b.count |->
            Packet(b.track, ts + b.rel + (i - 1) * step, key, dur,
                   SubSeq(b.rest, from(i), upto(i)))]

-----------------------------------------------------------------------------
(* Demuxer.                                                                *)

Demuxer0 ==
    [pos |-> 0, phase |-> "ebml", opened |-> FALSE, segEnd |-> 0, end |-> 0, ts |-> 0,
     scale |-> 1, date |-> {}, entries |-> <<>>, tags |-> NoTags, packets |-> <<>>]

\* defaultDurTS: DefaultDuration in timestamp units, zero when unknown.
DefaultDurTS(d, tr) ==
    LET k == SelectInSeq(d.entries, LAMBDA te : te.number = tr /\ te.defaultDuration > 0)
    IN  IF k = 0 THEN 0 ELSE d.entries[k].defaultDuration \div d.scale

\* A later tag of the same name replaces the earlier one.
WithTags(d, c) ==
    [d EXCEPT !.tags = [name \in DOMAIN c.tags \cup DOMAIN @ |->
                           IF name \in DOMAIN c.tags THEN c.tags[name] ELSE @[name]]]

\* An element before the first cluster: Info, Tracks and Tags, the rest skipped.
HeaderElement(d, c) ==
    CASE c.el = "info"   -> [d EXCEPT !.scale = IF c.scale > 0 THEN c.scale ELSE @,
                                      !.date = c.date]
      [] c.el = "tracks" -> [d EXCEPT !.entries =
                                @ \o [k \in DOMAIN c.entries |-> ParseTrackEntry(c.entries[k])]]
      [] c.el = "tags"   -> WithTags(d, c)
      [] OTHER           -> d

\* A child of a cluster.  A BlockGroup without a reference is a keyframe.
ClusterElement(d, c) ==
    LET frames(key, dur) ==
            IF BadLacing(c.block) THEN [d EXCEPT !.phase = "error"]
            ELSE [d EXCEPT !.packets = @ \o
                     Unlace(c.block, d.ts,
                            IF c.block.lacing = "none" THEN 0 ELSE DefaultDurTS(d, c.block.track),
                            key, dur)]
    IN  CASE c.el = "timestamp" -> [d EXCEPT !.ts = c.ts]
          [] c.el = "simple"    -> frames(c.key, 0)
          [] c.el = "group"     -> IF c.hasBlock THEN frames(~c.ref, c.dur)
                                   ELSE [d EXCEPT !.phase = "error"]
          [] OTHER              -> d

\* An element between clusters: Tags are still collected.
TopElement(d, c) ==
    LET r == [d EXCEPT !.phase = "top"]
    IN  IF c.el = "tags" THEN WithTags(r, c) ELSE r

\* A cluster of unknown size lasts to the end of the segment, or to the next
\* cluster, which opens its own scope wherever it stands.
EnterCluster(d, c, size) ==
    [d EXCEPT !.phase = "in", !.opened = TRUE, !.ts = 0,
              !.end = IF c.size = Unknown THEN d.segEnd ELSE d.pos + c.size]

\* One cell of a file of the given size.  A known size that exceeds the file is
\* malformed at once, before any child is read.
ReadCell(d, c, size) ==
    LET r     == [d EXCEPT !.pos = @ + 1]
        fail  == [d EXCEPT !.phase = "error"]
        fits  == c.size = Unknown \/ r.pos + c.size <= size
        top   == d.phase = "top" \/ (d.phase = "in" /\ d.pos >= d.end)
    IN  CASE d.phase \in {"eof", "error"} -> d
          [] d.phase = "ebml" ->
                IF c.el = "ebml" /\ c.matroska THEN [r EXCEPT !.phase = "segment"] ELSE fail
          [] d.phase = "segment" ->
                IF c.el = "segment" /\ fits
                THEN [r EXCEPT !.phase = "header",
                               !.segEnd = IF c.size = Unknown THEN size ELSE r.pos + c.size]
                ELSE fail
          [] (d.phase = "header" \/ top) /\ d.pos >= d.segEnd ->
                [d EXCEPT !.phase = "eof", !.opened = TRUE]
          [] OTHER ->
                CASE c.el \in {"torn", "master"} -> fail
                  [] c.el = "cluster" -> IF fits THEN EnterCluster(r, c, size) ELSE fail
                  [] OTHER -> IF d.phase = "header" THEN HeaderElement(r, c)
                              ELSE IF top THEN TopElement(r, c) ELSE ClusterElement(r, c)

\* The walk over the first n cells.
Walk(file, n) ==
    LET walked[k \in 0 .. n] ==
            IF k = 0 THEN Demuxer0 ELSE ReadCell(walked[k - 1], file[k], Len(file))
    IN  walked[n]

\* The end of the file ends a walk that got past the segment header.
AtEnd(d) ==
    CASE d.phase \in {"ebml", "segment"} -> [d EXCEPT !.phase = "error"]
      [] d.phase \in {"header", "top", "in"} -> [d EXCEPT !.phase = "eof", !.opened = TRUE]
      [] OTHER -> d

\* What is known after NewDemuxer, which stops at the first cluster, and after
\* ReadPacket has returned io.EOF or an error.
NewDemuxer(file) ==
    LET first == SelectInSeq(file, LAMBDA c : c.el = "cluster")
    IN  IF first = 0 THEN AtEnd(Walk(file, Len(file))) ELSE Walk(file, first)
Demux(file) == AtEnd(Walk(file, Len(file)))
=============================================================================
