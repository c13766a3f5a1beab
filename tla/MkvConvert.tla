---------------------------- MODULE MkvConvert -----------------------------
(***************************************************************************)
(* mkv.Export through Muxer, one step per write to the output file after   *)
(* the header, with the exporting process stopping at any point.           *)
(*                                                                         *)
(* The GMC source is a finalized file given by its frames in storage       *)
(* order; the text of a subtitle, or the payload, is the frame's position  *)
(* there, so that a packet says which frame it carries.  Times are         *)
(* nanoseconds in Range, units of num / den seconds in GMC, and units of   *)
(* Scale ns in Matroska.                                                   *)
(***************************************************************************)
EXTENDS MkvFormat, Select

CONSTANTS Order,          \* the GMC tracks in the order of their ids
          TrackInfo,      \* TrackInfo of every track
          Timebase,       \* [num, den] of every track
          Nano,           \* nanoseconds in a second
          FrameTracks,    \* the tracks that have frames
          SourceTags,     \* the tags of the GMC file
          Reserved,       \* names that begin with "gmc."
          StartTime,      \* {} or the start time
          Epoch,          \* 2001-01-01 in the time scale of StartTime
          Scale,          \* TimestampScale: ns per Matroska timestamp unit
          RelLimit,       \* largest |rel| a block may have (32000)
          ClusterLimit,   \* bytes after which a cluster is closed (4 MiB), in blocks
          Ranges,         \* the Range options tried; [from |-> 0, to |-> 0] is whole
          Selections,     \* the Tracks options tried; {} selects all
          MaxPTS, Durations, MaxFrames   \* bounds of the source

Tracks == Range(Order)

ASSUME ConvertAssumption ==
    /\ Order \in Seq(Tracks)
    /\ \A tr \in Tracks : TrackInfo[tr].kind \in DOMAIN TypeOf
    /\ Timebase \in [Tracks -> [num : Nat \ {0}, den : Nat \ {0}]]
    /\ Nano \in Nat \ {0} /\ Scale \in Nat \ {0}
    /\ RelLimit \in Nat /\ RelLimit < RelHalf
    /\ ClusterLimit \in Nat /\ MaxPTS \in Nat /\ MaxFrames \in Nat
    /\ Durations \subseteq Nat /\ FrameTracks \subseteq Tracks
    /\ Ranges \subseteq [from : Nat, to : Nat]

\* An envelope that decodes is one EncodePrivate made, of uint32 sizes and rates; an
\* output rate is zero when it is identical to the rate (codec.go:57-58).  The start
\* time is in nanoseconds.
ASSUME TrackInfoAssumption ==
    /\ StartTime \subseteq Int /\ Epoch \in Int
    /\ \A tr \in Tracks : CanExport(TrackInfo[tr]) =>
          LET envelope == TrackInfo[tr].private
              p        == envelope.params
          IN  /\ envelope = EncodePrivate(p, envelope.private)
              /\ CASE TrackInfo[tr].kind = "video" ->
                        p \in [width : 0 .. Uint32 - 1, height : 0 .. Uint32 - 1]
                   [] TrackInfo[tr].kind = "audio" ->
                        /\ p \in [rate : 0 .. Uint32 - 1, outRate : 0 .. Uint32 - 1, channels : 0 .. Byte - 1,
                                  depth : 0 .. Byte - 1]
                        /\ p.rate = p.outRate => p.rate = 0
                   [] OTHER -> p = [none |-> TRUE]

VARIABLES src,        \* frames of the GMC file
          opts,       \* ExportOptions: tracks, range
          pc,         \* where Export stands
          it,         \* position of the interleaved iterator
          ended,      \* videoDone
          pkt,        \* the packet being written
          file,       \* cells of the MKV file
          mux,        \* Muxer fields and Export's maxTS
          written     \* packets WritePacket has accepted (their count is Result.Frames)

vars == <<src, opts, pc, it, ended, pkt, file, mux, written>>

Whole == [from |-> 0, to |-> 0]
range == opts.range
IsVideo(tr) == TrackInfo[tr].kind = "video"

PC == {"refused", "header", "next", "close", "open", "stamp", "block", "finalize", "cues",
       "segment", "duration", "seekhead", "done", "stopped"}

\* The tracks that survive the selection and the codec check, in id order; a
\* track's Matroska number is its position among them.
Exported == {tr \in Tracks : (opts.tracks = {} \/ tr \in opts.tracks) /\ CanExport(TrackInfo[tr])}
Maps == Select(Order, Exported)
maps == Range(Maps)
Number(tr) == SelectInSeq(Maps, LAMBDA x : x = tr)

-----------------------------------------------------------------------------
(* The GMC source.                                                         *)

\* A subtitle's payload may not be a text frame: then it has no duration either.
SrcFrame == {fr \in [track : FrameTracks, pts : 0 .. MaxPTS, key : BOOLEAN,
                     dur : {0} \cup Durations, decodes : BOOLEAN] :
                /\ ~IsVideo(fr.track) => fr.key
                /\ TrackInfo[fr.track].kind # "data" => fr.dur = 0 /\ fr.decodes
                /\ ~fr.decodes => fr.dur = 0}

\* What Writer accepts (video tracks are Reordered, the others ordered by pts),
\* in an order decoders accept: a frame stored before a keyframe of its track is
\* shown before it.
Proper(s) ==
    \A i, j \in DOMAIN s : (i < j /\ s[i].track = s[j].track) =>
        IF IsVideo(s[i].track) THEN s[j].key => s[i].pts < s[j].pts
        ELSE s[i].pts <= s[j].pts

Sources == {s \in BoundedSeq(SrcFrame, MaxFrames) : Proper(s)}

\* The frames of a track that are in the index: every keyframe, except that
\* audio has one entry per checkpoint interval, here longer than the stream.
Indexed(tr) ==
    LET keys == {k \in DOMAIN src : src[k].track = tr /\ src[k].key}
    IN  IF TrackInfo[tr].kind = "audio" THEN {k \in keys : \A j \in keys : k <= j} ELSE keys

\* Offset of the last sync point at or before pts, else the stream start.
SeekPTS(tr, pts) ==
    LET before == {k \in Indexed(tr) : src[k].pts <= pts}
    IN  IF before = {} THEN 1 ELSE CHOOSE k \in before : \A j \in before : j <= k

\* The least of those offsets over the tracks converted.
ReadInterleaved(pts) ==
    LET starts == {SeekPTS(tr, pts) : tr \in maps}
    IN  CHOOSE k \in starts : \A j \in starts : k <= j

-----------------------------------------------------------------------------
(* Export: which frames are converted.                                     *)

ToScale(tr, pts) == ((pts * (Timebase[tr].num * Nano)) \div Timebase[tr].den) \div Scale
ToPTS(tr, ns)    == (ns * Timebase[tr].den) \div (Timebase[tr].num * Nano)

\* snapPTS: for video the pts of the first frame from the sync point on.
HasSnap(tr) ==
    IsVideo(tr) => \E k \in DOMAIN src : /\ k >= SeekPTS(tr, ToPTS(tr, range.from))
                                         /\ src[k].track = tr
SnapPTS(tr) ==
    LET from == ToPTS(tr, range.from)
        rest == {k \in DOMAIN src : k >= SeekPTS(tr, from) /\ src[k].track = tr}
    IN  IF IsVideo(tr) THEN src[CHOOSE k \in rest : \A j \in rest : k <= j].pts ELSE from

BeforeRange(fr) ==
    range # Whole /\ (~HasSnap(fr.track) \/ fr.pts < SnapPTS(fr.track))

\* Mutant: the end of the range cuts video at the exact time too.
AfterRangeExact(fr) ==
    /\ range.to > 0
    /\ fr.pts >= ToPTS(fr.track, range.to)

\* The frame is behind the end of the range; on video only a keyframe ends it.
AfterRange(fr) ==
    /\ range.to > 0
    /\ IF IsVideo(fr.track)
       THEN \/ fr.track \in ended
            \/ fr.key /\ fr.pts >= ToPTS(fr.track, range.to)
       ELSE fr.pts >= ToPTS(fr.track, range.to)

-----------------------------------------------------------------------------
(* The header.                                                             *)

\* SeekHead is reserved as a Void; tags of the start time (carried as DateUTC)
\* and other reserved names stay behind.
Header ==
    LET entry(k) == EncodeTrackEntry(MapTrackOut(TrackInfo[Maps[k]], k))
        tags == [name \in DOMAIN SourceTags \ Reserved |-> SourceTags[name]]
    IN  <<EBML(TRUE), Segment(Unknown), Void, Info(Scale, {st - Epoch : st \in StartTime}, 0),
          TrackList([k \in DOMAIN Maps |-> entry(k)])>>
        \o (IF tags = NoTags THEN <<>> ELSE <<Tags(tags)>>)

SegDataOff == 2            \* positions are relative to the Segment's content
SegmentAt == 2
VoidAt    == 3
InfoAt    == 4
TracksAt  == 5

Init ==
    /\ src \in Sources
    /\ opts \in [tracks : Selections, range : Ranges]
    /\ pc = IF opts.tracks \subseteq Tracks THEN "header" ELSE "refused"
    /\ it = 0 /\ ended = {} /\ pkt = <<>> /\ file = <<>>
    /\ mux = [open |-> FALSE, sizeAt |-> 0, ts |-> 0, bytes |-> 0, cues |-> <<>>,
              cuesPos |-> 0, maxTS |-> 0]
    /\ written = <<>>

\* WriteHeader is six writes that nobody reads in between; Stop says what is left
\* when one fails.  Without tracks to convert there is no frame loop.
WriteHeader ==
    /\ pc = "header" /\ pc' = "next"
    /\ file' = Header
    /\ it' = IF maps = {} THEN Len(src) + 1 ELSE ReadInterleaved(0)
    /\ UNCHANGED <<src, opts, ended, pkt, mux, written>>

\* A keyframe of the first video track starts a cluster and gets a cue.
videoTrack  == SelectInSeq(Maps, LAMBDA tr : IsVideo(tr))
VideoKey(p) == p.key /\ p.track = videoTrack

\* Mutant: only positive relative timestamps are limited.
NeedNewOneSided(p) ==
    \/ ~mux.open
    \/ VideoKey(p)
    \/ p.ts - mux.ts > RelLimit
    \/ mux.bytes > ClusterLimit

\* Mutant: a cluster may grow without bound.
NeedNewUnbounded(p) ==
    \/ ~mux.open
    \/ VideoKey(p)
    \/ p.ts - mux.ts > RelLimit \/ p.ts - mux.ts < -RelLimit

NeedNew(p) ==
    \/ ~mux.open
    \/ VideoKey(p)
    \/ p.ts - mux.ts > RelLimit \/ p.ts - mux.ts < -RelLimit
    \/ mux.bytes > ClusterLimit

\* it.Next, the range rules, DecodeTextFrame, and the head of WritePacket up to its
\* first write.
NextFrame ==
    /\ pc = "next" /\ it <= Len(src)
    /\ it' = it + 1
    /\ LET fr == src[it]
           p  == Packet(Number(fr.track), ToScale(fr.track, fr.pts), fr.key,
                        ToScale(fr.track, fr.dur), <<it>>)
           skipped == fr.track \notin maps \/ BeforeRange(fr)
       IN  /\ ended' = IF ~skipped /\ AfterRange(fr) /\ IsVideo(fr.track)
                       THEN ended \cup {fr.track} ELSE ended
           /\ IF skipped \/ AfterRange(fr) \/ ~fr.decodes THEN UNCHANGED <<pkt, pc>>
              ELSE /\ pkt' = p
                   /\ pc' = IF NeedNew(p) THEN "close" ELSE "block"
    /\ UNCHANGED <<src, opts, file, mux, written>>

LastFrame ==
    /\ pc = "next" /\ it > Len(src) /\ pc' = "finalize"
    /\ UNCHANGED <<src, opts, it, ended, pkt, file, mux, written>>

-----------------------------------------------------------------------------
(* Muxer.                                                                  *)

reading == <<src, opts, it, ended>>      \* what only the frame loop changes

Write(cell) == file' = Append(file, cell)

\* Mutant: the size counts the cluster's own header too.
CloseClusterOneMore ==
    /\ pc \in {"close", "finalize"}
    /\ pc' = IF pc = "close" THEN "open" ELSE "cues"
    /\ file' = IF mux.open THEN [file EXCEPT ![mux.sizeAt] = Cluster(Len(file) - mux.sizeAt + 1)]
               ELSE file
    /\ mux' = [mux EXCEPT !.open = FALSE]
    /\ UNCHANGED <<reading, pkt, written>>

\* closeCluster patches the size of the cluster that is open, if any.
CloseCluster ==
    /\ pc \in {"close", "finalize"}
    /\ pc' = IF pc = "close" THEN "open" ELSE "cues"
    /\ file' = IF mux.open THEN [file EXCEPT ![mux.sizeAt] = Cluster(Len(file) - mux.sizeAt)]
               ELSE file
    /\ mux' = [mux EXCEPT !.open = FALSE]
    /\ UNCHANGED <<reading, pkt, written>>

OpenCluster ==
    /\ pc = "open" /\ pc' = "stamp"
    /\ Write(Cluster(Unknown))
    /\ mux' = [mux EXCEPT !.open = TRUE, !.sizeAt = Len(file) + 1, !.ts = pkt.ts, !.bytes = 0]
    /\ UNCHANGED <<reading, pkt, written>>

StampCluster ==
    /\ pc = "stamp" /\ pc' = "block"
    /\ Write(Timestamp(pkt.ts))
    /\ UNCHANGED <<reading, pkt, mux, written>>

\* Mutant: the cue points at the block, the write position, not at its cluster.
CueAtBlock == [time |-> pkt.ts, track |-> pkt.track, cluster |-> Len(file) - SegDataOff]

\* m.off less the two cells of a cluster header, clusterHeaderLen.
Cue == [time |-> pkt.ts, track |-> pkt.track, cluster |-> Len(file) - SegDataOff - 2]

\* A packet with a duration, only text has one, is a BlockGroup without a
\* keyframe bit.
Block(rel) ==
    LET block == Plain(pkt.track, rel, pkt.data)
    IN  IF pkt.dur > 0 THEN BlockGroup(TRUE, FALSE, pkt.dur, block)
        ELSE SimpleBlock(pkt.key, block)

WriteBlock ==
    /\ pc = "block" /\ pc' = "next"
    /\ Write(Block(ToInt16(pkt.ts - mux.ts)))
    /\ mux' = [mux EXCEPT !.bytes = @ + 1,
                          !.cues = IF VideoKey(pkt) THEN Append(@, Cue) ELSE @,
                          !.maxTS = IF pkt.ts > @ THEN pkt.ts ELSE @]
    /\ written' = Append(written, pkt)
    /\ UNCHANGED <<reading, pkt>>

\* Finalize: Cues if there are any, then the three patches and fsync.
WriteCues ==
    /\ pc = "cues" /\ pc' = "segment"
    /\ mux' = [mux EXCEPT !.cuesPos = Len(file) - SegDataOff]
    /\ IF mux.cues = <<>> THEN UNCHANGED file ELSE Write(Cues(mux.cues))
    /\ UNCHANGED <<reading, pkt, written>>

PatchSegment ==
    /\ pc = "segment" /\ pc' = "duration"
    /\ file' = [file EXCEPT ![SegmentAt] = Segment(Len(file) - SegDataOff)]
    /\ UNCHANGED <<reading, pkt, mux, written>>

PatchDuration ==
    /\ pc = "duration" /\ pc' = "seekhead"
    /\ file' = [file EXCEPT ![InfoAt].duration = mux.maxTS]
    /\ UNCHANGED <<reading, pkt, mux, written>>

\* Cues is listed only when it was written.
SeekTargets ==
    {[id |-> "info", pos |-> InfoAt - 1 - SegDataOff],
     [id |-> "tracks", pos |-> TracksAt - 1 - SegDataOff]}
    \cup (IF mux.cues = <<>> THEN {} ELSE {[id |-> "cues", pos |-> mux.cuesPos]})

\* The reserved Void becomes the SeekHead and a shorter Void, one cell here.
PatchSeekHead ==
    /\ pc = "seekhead" /\ pc' = "done"
    /\ file' = [file EXCEPT ![VoidAt] = SeekHead(SeekTargets)]
    /\ UNCHANGED <<reading, pkt, mux, written>>

\* A write fails and Export returns, or the process dies; the element being
\* written may be cut short.
Stop ==
    /\ pc \notin {"refused", "done", "stopped"} /\ pc' = "stopped"
    /\ \/ pc = "header" /\ \E k \in 0 .. Len(Header) - 1 :
             file' \in {SubSeq(Header, 1, k), Append(SubSeq(Header, 1, k), Torn)}
       \/ pc # "header" /\ UNCHANGED file
       \/ pc \in {"open", "stamp", "block", "cues"} /\ Write(Torn)
    /\ UNCHANGED <<reading, pkt, mux, written>>

Next == WriteHeader \/ NextFrame \/ LastFrame \/ CloseCluster \/ OpenCluster \/ StampCluster
        \/ WriteBlock \/ WriteCues \/ PatchSegment \/ PatchDuration \/ PatchSeekHead \/ Stop

Spec == Init /\ [][Next]_vars

-----------------------------------------------------------------------------
(* Correctness.                                                            *)

TypeOK ==
    /\ opts \in [tracks : Selections, range : Ranges] /\ pc \in PC
    /\ it \in 0 .. Len(src) + 1 /\ ended \in SUBSET maps
    /\ mux.open \in BOOLEAN /\ mux.sizeAt \in 0 .. Len(file)
    /\ mux.bytes \in 0 .. ClusterLimit + 1
    /\ \A k \in DOMAIN written :
          /\ written[k].track \in DOMAIN Maps /\ written[k].data[1] \in DOMAIN src
          /\ k > 1 => written[k - 1].data[1] < written[k].data[1]

\* Wherever the export stands or stopped, and whatever sizes are not patched yet,
\* a reader of the file gets every packet written so far, with its time, flag,
\* duration and payload, and an error only at a cut-off element.
CompletePacketsRead ==
    LET d == Demux(file)
    IN  /\ d.packets = written
        /\ d.phase = "error" <=> \/ Len(file) < SegDataOff
                                 \/ \E k \in DOMAIN file : file[k] = Torn

At(pos) == file[SegDataOff + pos + 1]      \* the cell at a position in the segment

\* In a finished file every size is patched, and a walk by sizes alone meets
\* the header, clusters one after the other, then the cues or the end.
SizesDescribeFile ==
    pc = "done" =>
        /\ file[SegmentAt].size = Len(file) - SegDataOff
        /\ \A i \in DOMAIN file : file[i].el = "cluster" =>
              LET next == i + file[i].size + 1
              IN  /\ file[i].size > 0 /\ next <= Len(file) + 1
                  /\ next <= Len(file) => file[next].el \in {"cluster", "cues"}
                  /\ \A j \in i + 1 .. next - 1 : file[j].el \notin {"cluster", "cues"}

\* A finished file has a cue for every keyframe of the first video track, in
\* order, and each leads to a cluster that has the keyframe's time and begins
\* with it; every entry of the SeekHead leads to an element of that kind, and the
\* cues are listed exactly when there are some.
CuesFindKeyframes ==
    pc = "done" =>
        LET keys    == Select(written, {p \in Range(written) : VideoKey(p)})
            targets == file[VoidAt].targets
        IN  /\ \A t \in targets : At(t.pos).el = t.id
            /\ {"info", "tracks"} \subseteq {t.id : t \in targets}
            /\ keys # <<>> <=> \E t \in targets : t.id = "cues"
            /\ \A t \in targets : t.id = "cues" =>
                  LET points == At(t.pos).points
                  IN  /\ Len(points) = Len(keys)
                      /\ \A k \in DOMAIN keys :
                            LET at == points[k].cluster
                            IN  /\ points[k].time = keys[k].ts
                                /\ At(at).el = "cluster" /\ At(at + 1) = Timestamp(keys[k].ts)
                                /\ IsBlock(At(at + 2)) /\ At(at + 2).block.rest = keys[k].data

\* From the header of an exported file, finished or not, Import would make the
\* tracks Export started from, except for their timebase: kind, codec, private
\* data and every parameter survive both mappings; start time and free tags too.
\* The duration of a finished file is its last packet's time.
HeaderSurvives ==
    pc \notin {"refused", "header", "stopped"} =>
        LET d == NewDemuxer(file)
        IN  /\ Len(d.entries) = Len(Maps)
            /\ \A k \in DOMAIN Maps :
                  LET info == TrackInfo[Maps[k]]
                      back == MapTrack(d.entries[k], d.scale)
                  IN  /\ d.entries[k].number = k /\ CanImport(d.entries[k])
                      /\ back.kind = info.kind /\ back.codec = info.codec
                      /\ back.private = info.private
            /\ {date + Epoch : date \in d.date} = StartTime
            /\ d.tags = [name \in DOMAIN SourceTags \ Reserved |-> SourceTags[name]]
            /\ pc = "done" =>
                  /\ \A k \in DOMAIN written : written[k].ts <= file[InfoAt].duration
                  /\ written # <<>> => \E k \in DOMAIN written : written[k].ts = file[InfoAt].duration

\* The frames of a track that the range asks for, by position.  Video runs from
\* the last keyframe at or before `from` up to the first keyframe at or after
\* `to`, without frames shown before it starts; the others are cut exactly.
\* Video that has no such keyframe starts with its first frame's time.
Wanted(tr) ==
    LET own   == {k \in DOMAIN src : src[k].track = tr}
        from  == ToPTS(tr, range.from)
        to    == ToPTS(tr, range.to)
        syncs == {k \in own : src[k].key /\ src[k].pts <= from}
        last  == CHOOSE k \in syncs : \A j \in syncs : j <= k
        first == CHOOSE k \in own : \A j \in own : k <= j
        start == IF syncs = {} THEN first ELSE last
        stops == {k \in own : src[k].key /\ src[k].pts >= to}
    IN  IF range = Whole THEN own
        ELSE IF IsVideo(tr)
        THEN {k \in own : /\ k >= start /\ src[k].pts >= src[start].pts
                          /\ range.to > 0 => \A j \in stops : k < j}
        ELSE {k \in own : src[k].pts >= from /\ (range.to > 0 => src[k].pts < to)}

\* Export converts exactly the frames of the range, once each, but for subtitles
\* whose payload is no text frame (export.go:193-196), as long as no track has a
\* second frame at pts 0.
ExportCut ==
    (/\ pc = "done"
     /\ \A j, k \in DOMAIN src : (src[j].track = src[k].track /\ src[j].pts = 0 /\ src[k].pts = 0)
                                    => j = k) =>
        {written[k].data[1] : k \in DOMAIN written}
            = {k \in UNION {Wanted(tr) : tr \in maps} : src[k].decodes}

\* A whole export converts every frame of the selected tracks that decodes ("The zero
\* value means the whole file", import.go:13-14).
WholeExportKeepsEveryFrame ==
    (pc = "done" /\ range = Whole) =>
        {written[k].data[1] : k \in DOMAIN written}
            = {k \in DOMAIN src : src[k].track \in maps /\ src[k].decodes}
=============================================================================
