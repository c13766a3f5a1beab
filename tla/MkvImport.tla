----------------------------- MODULE MkvImport -----------------------------
(***************************************************************************)
(* mkv.Import of a Matroska file that another program wrote.               *)
(*                                                                         *)
(* The other muxer chooses cluster sizes, lacing and the place of its tags *)
(* as Matroska allows, and may stop anywhere; `meant` records what it put  *)
(* in.  Import then runs step by step against the GMC output it creates,   *)
(* may fail or die after every step, and may be run again.                 *)
(***************************************************************************)
EXTENDS MkvFormat, Select

CONSTANTS Headers,        \* the cells up to the first cluster that are tried
          Clusters,       \* [ts, size] of the clusters tried
          Blocks,         \* the blocks tried, see Encode
          LateTags,       \* the Tags elements tried behind clusters
          MaxClusters, MaxBlocks, MaxLate,       \* bounds of the file
          Options,        \* ImportOptions tried: [from, to, tracks]; {} selects all
          Reserved,       \* name of the tag that holds the start time
          Epoch,          \* 2001-01-01 in the time scale of the start time
          TagsRoom,       \* tags that fit a slot of the tags area
          MaxRuns         \* how often Import is run

ASSUME ImportAssumption ==
    /\ MaxClusters \in Nat /\ MaxBlocks \in Nat /\ MaxLate \in Nat /\ MaxRuns \in Nat
    /\ Epoch \in Nat /\ TagsRoom \in Nat
    /\ \A o \in Options : o.from \in Nat /\ o.to \in Nat

\* The other muxer's headers have one Info and one Tracks at most, every track a
\* number of its own.  Its blocks are of those tracks; a SimpleBlock has a frame and no
\* duration, and an unlaced block one frame.  Fixed lacing of frames of unequal
\* sizes shows in the length.  The payload of a block begins with what reads as a
\* number of `vint` bytes.
ASSUME MuxerAssumption ==
    /\ \A h \in Headers :
          /\ h \in Seq(Range(h)) /\ h # <<>> /\ \E m \in BOOLEAN : h[1] = EBML(m)
          /\ Len(h) > 1 => h[2] = Segment(Unknown)
          /\ \A k \in 3 .. Len(h) :
                /\ h[k].el \in {"void", "seekhead", "info", "tracks", "tags"}
                /\ h[k].el = "info" => h[k].scale \in Nat \ {0}
                /\ h[k].el = "tags" => IsFiniteSet(DOMAIN h[k].tags)
                /\ h[k].el \in {"info", "tracks"} => \A j \in 3 .. Len(h) : h[j].el = h[k].el => j = k
                /\ h[k].el = "tracks" =>
                      LET els == h[k].entries
                      IN  /\ els \in Seq(Range(els))
                          /\ \A i \in DOMAIN els :
                                /\ "number" \in DOMAIN els[i]
                                /\ ParseTrackEntry(els[i]).defaultDuration \in Nat
                                /\ \A j \in DOMAIN els : els[j].number = els[i].number => j = i
                          /\ \A b \in Blocks : \E i \in DOMAIN els : els[i].number = b.track
    /\ Clusters \subseteq [ts : Nat, size : {Unknown} \cup (Nat \ {0})]
    /\ \A b \in Blocks :
          LET n == Len(b.sizes)
          IN  /\ b.rel \in Int /\ b.key \in BOOLEAN /\ b.group \in BOOLEAN /\ b.dur \in Nat
              /\ b.lacing \in {"none", "xiph", "ebml", "fixed"} /\ b.sizes \in Seq(Nat)
              /\ b.vint \in 0 .. SumTo(b.sizes, n)
              /\ ~b.group => n > 0 /\ b.dur = 0
              /\ b.lacing = "none" => n <= 1
              /\ (b.lacing = "fixed" /\ n > 0 /\ SumTo(b.sizes, n) % n = 0) =>
                    \A i \in 1 .. n : b.sizes[i] * n = SumTo(b.sizes, n)
    /\ \A map \in LateTags : IsFiniteSet(DOMAIN map)

VARIABLES file,           \* cells of the MKV file
          left,           \* elements the open cluster still owes, or Unknown
          meant,          \* the frames put into the file
          demuxed,        \* what a demuxer has read after NewDemuxer, and at the end
          opts,           \* ImportOptions
          pc,             \* the muxer's and Import's position
          at,             \* packets read by pass 2
          snap,           \* snap: start of the video tracks
          ended,          \* videoDone
          todo,           \* names of the tags still to be set
          out,            \* the GMC output, <<>> while there is none
          runs            \* Import calls so far

vars == <<file, left, meant, demuxed, opts, pc, at, snap, ended, todo, out, runs>>

PC == {"mux", "idle", "open", "scan", "create", "tracks", "tags", "frames", "late",
       "finalize", "done", "failed", "broken"}

-----------------------------------------------------------------------------
(* The other muxer.                                                        *)

InfoOf == SelectInSeq(file, LAMBDA c : c.el = "info")
ScaleIn == IF InfoOf = 0 THEN Demuxer0.scale ELSE file[InfoOf].scale

\* A block of frames of the given sizes.  Xiph lacing codes the sizes, EBML the
\* first and then differences; neither codes the last one.
Encode(b, rest) ==
    LET n == Len(b.sizes)
        coded == CASE b.lacing = "xiph" -> SubSeq(b.sizes, 1, n - 1)
                   [] b.lacing = "ebml" ->
                         [i \in 1 .. n - 1 |-> b.sizes[i] - (IF i = 1 THEN 0 ELSE b.sizes[i - 1])]
                   [] OTHER -> <<>>
        block == Payload(b.track, b.rel, b.lacing, n, coded, b.vint, rest)
    IN  IF b.group THEN BlockGroup(n > 0, ~b.key, b.dur, block) ELSE SimpleBlock(b.key, block)

\* The frames of a block, their time in ns: each lasts DefaultDuration.  `lost` says
\* how many bytes of a frame a reader takes for its size.
Frames(b, rest, ts) ==
    LET tracks == file[SelectInSeq(file, LAMBDA c : c.el = "tracks")].entries
        k      == SelectInSeq(tracks, LAMBDA els : els.number = b.track)
        each   == ParseTrackEntry(tracks[k]).defaultDuration
    IN  [i \in DOMAIN b.sizes |->
            [cell |-> Len(file) + 1, lace |-> i, track |-> b.track, key |-> b.key, dur |-> b.dur,
             ns |-> (ts + b.rel) * ScaleIn + (i - 1) * each,
             lost |-> IF b.lacing = "ebml" /\ Len(b.sizes) = 1 THEN b.vint ELSE 0,
             data |-> SubSeq(rest, SumTo(b.sizes, i - 1) + 1, SumTo(b.sizes, i))]]

Count(el) == Cardinality({i \in DOMAIN file : file[i].el = el})

Everything == [from |-> 0, to |-> 0, tracks |-> {}]      \* the zero ImportOptions

Init ==
    /\ file \in Headers /\ left = 0 /\ meant = <<>> /\ demuxed = <<>>
    /\ opts = Everything /\ pc = "mux" /\ runs = 0
    /\ at = 0 /\ snap = [n \in {} |-> 0] /\ ended = {} /\ todo = {} /\ out = <<>>

importing == <<demuxed, opts, at, snap, ended, todo, out, runs>>

MuxCluster ==
    /\ pc = "mux" /\ left \in {0, Unknown} /\ Count("tracks") > 0
    /\ Count("cluster") < MaxClusters
    /\ \E c \in Clusters :
          /\ file' = file \o <<Cluster(c.size), Timestamp(c.ts)>>
          /\ left' = IF c.size = Unknown THEN Unknown ELSE c.size - 1
    /\ UNCHANGED <<meant, pc, importing>>

MuxBlock ==
    /\ pc = "mux" /\ left # 0 /\ Count("simple") + Count("group") < MaxBlocks
    /\ \E b \in Blocks :
          LET rest == [i \in 1 .. SumTo(b.sizes, Len(b.sizes)) |-> <<Len(file), i>>]
              ts   == file[SelectLastInSeq(file, LAMBDA c : c.el = "timestamp")].ts
          IN  /\ file' = Append(file, Encode(b, rest))
              /\ meant' = meant \o Frames(b, rest, ts)
    /\ left' = IF left = Unknown THEN Unknown ELSE left - 1
    /\ UNCHANGED <<pc, importing>>

\* Tags on the level of the clusters.
MuxTags ==
    /\ pc = "mux" /\ left \in {0, Unknown} /\ Count("cluster") > 0
    /\ Cardinality({i \in DOMAIN file : file[i].el = "tags" /\ \E j \in 1 .. i : file[j].el = "cluster"})
          < MaxLate
    /\ \E map \in LateTags : file' = Append(file, Tags(map))
    /\ left' = 0
    /\ UNCHANGED <<meant, pc, importing>>

\* The muxer stops: it patches the size of the Segment, of which the last cell
\* may be lost afterwards, or it leaves it unknown, where an element, or a
\* cluster of known size, may be cut short.
MuxEnds ==
    /\ pc = "mux" /\ pc' = "idle"
    /\ \/ file' \in {file, Append(file, Torn)}
       \/ /\ left \in {0, Unknown} /\ Len(file) > 2
          /\ \E k \in {Len(file), Len(file) - 1} :
                file' = SubSeq([file EXCEPT ![2] = Segment(Len(file) - 2)], 1, k)
    /\ demuxed' = <<NewDemuxer(file'), Demux(file')>>
    /\ UNCHANGED <<left, meant, opts, at, snap, ended, todo, out, runs>>

-----------------------------------------------------------------------------
(* Import.                                                                 *)

muxed == <<file, left, meant, demuxed>>

Opened == demuxed[1]
Read   == demuxed[2]
scale  == Opened.scale

Ranged == opts.from > 0 \/ opts.to > 0
FromTS == opts.from \div scale
ToTS   == opts.to \div scale

Chosen(n) == opts.tracks = {} \/ n \in opts.tracks
Numbers   == {Opened.entries[k].number : k \in DOMAIN Opened.entries}

\* The tracks of the output, in the order of their entries.
Mapped == Select(Opened.entries,
                 {te \in Range(Opened.entries) : Chosen(te.number) /\ CanImport(te)})
KindIn(n) == KindOf[Mapped[SelectInSeq(Mapped, LAMBDA te : te.number = n)].type]
HasID(n)  == SelectInSeq(Mapped, LAMBDA te : te.number = n) > 0

Fail == pc' = "failed" /\ UNCHANGED <<at, snap, ended, todo, out>>

\* Import is called; a caller that runs it again does so with the same options.
Begin ==
    /\ pc \in {"idle", "done", "failed", "broken"}
    /\ runs < MaxRuns /\ runs' = runs + 1 /\ pc' = "open"
    /\ IF runs = 0 THEN opts' \in Options ELSE UNCHANGED opts
    /\ at' = 0 /\ snap' = [n \in {} |-> 0] /\ ended' = {} /\ todo' = {}
    /\ UNCHANGED <<muxed, out>>

\* NewDemuxer and the check of the selection.
Open ==
    /\ pc = "open"
    /\ IF Opened.phase = "error" \/ ~(opts.tracks \subseteq Numbers) THEN Fail
       ELSE pc' = (IF Ranged THEN "scan" ELSE "create") /\ UNCHANGED <<at, snap, ended, todo, out>>
    /\ UNCHANGED <<muxed, opts, runs>>

\* Pass 1: the last keyframe stored with a time at or before `from`.
Scan ==
    /\ pc = "scan"
    /\ LET video == {n \in Numbers : Chosen(n) /\ \E k \in DOMAIN Opened.entries :
                        Opened.entries[k].number = n /\ Opened.entries[k].type = "video"}
           last(n) == SelectLastInSeq(Read.packets,
                          LAMBDA p : p.track = n /\ p.key /\ p.ts <= FromTS)
       IN  IF Read.phase = "error" THEN Fail
           ELSE /\ snap' = [n \in {v \in video : last(v) > 0} |-> Read.packets[last(n)].ts]
                /\ pc' = "create" /\ UNCHANGED <<at, ended, todo, out>>
    /\ UNCHANGED <<muxed, opts, runs>>

StartTag == IF Opened.date = {} THEN {} ELSE {Reserved}

EmptyOutput == [tracks |-> <<>>, tags |-> NoTags, frames |-> <<>>, final |-> FALSE]

\* Mutant: an output that exists is truncated.
CreateTruncates ==
    /\ pc = "create"
    /\ out' = EmptyOutput /\ pc' = "tracks" /\ UNCHANGED <<at, snap, ended, todo>>
    /\ UNCHANGED <<muxed, opts, runs>>

\* gmc.Create opens with O_EXCL.
Create ==
    /\ pc = "create"
    /\ IF out # <<>> THEN Fail
       ELSE out' = EmptyOutput /\ pc' = "tracks" /\ UNCHANGED <<at, snap, ended, todo>>
    /\ UNCHANGED <<muxed, opts, runs>>

\* SetTag: the snapshot with the new tag has to fit its slot.
Fits(tags) == Cardinality(DOMAIN tags) <= TagsRoom

\* AddTrack refuses a timebase of zero.
Refused == Mapped # <<>> /\ scale % Uint32 = 0

\* AddTrack for every mapped track, and SetStartTime if the file has a date.
AddTracks ==
    LET start == [name \in StartTag |->
                     {date + Epoch : date \in Opened.date}]
        made  == [out EXCEPT !.tracks = [k \in DOMAIN Mapped |-> MapTrack(Mapped[k], scale)]]
    IN  /\ pc = "tracks"
        /\ todo' = DOMAIN Opened.tags
        /\ IF Refused THEN pc' = "failed" /\ out' = out
           ELSE IF Fits(start) THEN pc' = "tags" /\ out' = [made EXCEPT !.tags = start]
           ELSE pc' = "failed" /\ out' = made
        /\ UNCHANGED <<muxed, opts, runs, at, snap, ended>>

\* One round of either loop over d.Tags(), which Go walks in any order.
SetTag ==
    /\ pc \in {"tags", "late"}
    /\ \E name \in todo :
          LET tags == IF pc = "tags" THEN Opened.tags ELSE Read.tags
              next == [n \in {name} \cup DOMAIN out.tags |->
                          IF n = name THEN tags[name] ELSE out.tags[n]]
          IN  IF Fits(next)
              THEN /\ out' = [out EXCEPT !.tags = next] /\ todo' = todo \ {name}
                   /\ UNCHANGED <<pc, at, snap, ended>>
              ELSE Fail
    /\ UNCHANGED <<muxed, opts, runs>>

TagsSet ==
    /\ pc \in {"tags", "late"} /\ todo = {}
    /\ pc' = IF pc = "tags" THEN "frames" ELSE "finalize"
    /\ UNCHANGED <<muxed, opts, runs, at, snap, ended, todo, out>>

\* Video is Reordered: only its keyframes are in order.  The last frame of the
\* track that is.
LastInOrder(fr) ==
    SelectLastInSeq(out.frames, LAMBDA g : /\ g.track = fr.track
                                           /\ KindIn(g.track) = "video" => g.key)

\* Mutant: a frame at the time of the one before is refused.
AcceptsStrict(fr) ==
    (KindIn(fr.track) = "video" => fr.key) /\ LastInOrder(fr) > 0 =>
        fr.pts > out.frames[LastInOrder(fr)].pts

\* WriteFrame.
Accepts(fr) ==
    (KindIn(fr.track) = "video" => fr.key) /\ LastInOrder(fr) > 0 =>
        fr.pts >= out.frames[LastInOrder(fr)].pts

BeforeRange(p) ==
    Ranged /\ p.ts < IF KindIn(p.track) # "video" THEN FromTS
                     ELSE IF p.track \in DOMAIN snap THEN snap[p.track] ELSE 0

\* Mutant: a keyframe past the end does not end its track.
AfterRangeForgets(p) ==
    Ranged /\ ToTS > 0 /\ p.ts >= ToTS /\ (KindIn(p.track) = "video" => p.key)

AfterRange(p) ==
    /\ Ranged /\ ToTS > 0
    /\ IF KindIn(p.track) = "video" THEN p.track \in ended \/ (p.key /\ p.ts >= ToTS)
       ELSE p.ts >= ToTS

\* Mutant: a time before zero is not noticed.
SkippedNegative(p) == ~HasID(p.track)

Skipped(p) == ~HasID(p.track) \/ p.ts < 0

\* ReadPacket and the body of the frame loop.  Text keeps its duration.
ReadFrame ==
    /\ pc = "frames" /\ at < Len(Read.packets)
    /\ LET p  == Read.packets[at + 1]
           fr == [track |-> p.track, pts |-> p.ts, key |-> p.key, data |-> p.data,
                  dur |-> IF KindIn(p.track) = "data" THEN p.dur ELSE 0]
       IN  IF Skipped(p) \/ BeforeRange(p)
           THEN at' = at + 1 /\ UNCHANGED <<pc, snap, ended, todo, out>>
           ELSE IF AfterRange(p)
           THEN /\ ended' = IF KindIn(p.track) = "video" THEN ended \cup {p.track} ELSE ended
                /\ at' = at + 1 /\ UNCHANGED <<pc, snap, todo, out>>
           ELSE IF Accepts(fr)
           THEN /\ out' = [out EXCEPT !.frames = Append(@, fr)]
                /\ at' = at + 1 /\ UNCHANGED <<pc, snap, ended, todo>>
           ELSE Fail
    /\ UNCHANGED <<muxed, opts, runs>>

\* Mutant: the tags behind the clusters are not set.
EndOfFileNoTags ==
    /\ pc = "frames" /\ at = Len(Read.packets)
    /\ IF Read.phase = "error" THEN Fail
       ELSE pc' = "late" /\ todo' = {} /\ UNCHANGED <<at, snap, ended, out>>
    /\ UNCHANGED <<muxed, opts, runs>>

\* io.EOF or an error instead of a packet.
EndOfFile ==
    /\ pc = "frames" /\ at = Len(Read.packets)
    /\ IF Read.phase = "error" THEN Fail
       ELSE pc' = "late" /\ todo' = DOMAIN Read.tags /\ UNCHANGED <<at, snap, ended, out>>
    /\ UNCHANGED <<muxed, opts, runs>>

Finalize ==
    /\ pc = "finalize" /\ pc' = "done"
    /\ out' = [out EXCEPT !.final = TRUE]
    /\ UNCHANGED <<muxed, opts, runs, at, snap, ended, todo>>

\* A write to the output fails, or the process dies: the output stays as it is,
\* without its footer.
Break ==
    /\ pc \in {"tracks", "tags", "frames", "late", "finalize"} /\ pc' = "broken"
    /\ UNCHANGED <<muxed, opts, runs, at, snap, ended, todo, out>>

Next == MuxCluster \/ MuxBlock \/ MuxTags \/ MuxEnds \/ Begin \/ Open \/ Scan \/ Create
        \/ AddTracks \/ SetTag \/ TagsSet \/ ReadFrame \/ EndOfFile \/ Finalize \/ Break

Spec == Init /\ [][Next]_vars

-----------------------------------------------------------------------------
(* Correctness.                                                            *)

TypeOK ==
    /\ pc \in PC /\ opts \in Options \cup {Everything} /\ runs \in 0 .. MaxRuns
    /\ at \in Nat
    /\ out # <<>> =>
          /\ out.final \in BOOLEAN /\ Fits(out.tags)
          /\ \A k \in DOMAIN out.frames : HasID(out.frames[k].track) /\ out.frames[k].pts \in Nat

\* The cells no reader can get past: a master that ends behind the end of the
\* file, an element cut short, a block that contradicts itself, a single frame in
\* EBML lacing that does not begin with a number.
Broken ==
    {i \in DOMAIN file :
        LET c == file[i] IN
        \/ i = 1 /\ ~c.matroska
        \/ c = Torn
        \/ c.el \in {"segment", "cluster"} /\ c.size # Unknown /\ i + c.size > Len(file)
        \/ c.el = "group" /\ ~c.hasBlock
        \/ IsBlock(c) /\ c.block.lacing = "fixed" /\ Len(c.block.rest) % c.block.count # 0
        \/ IsBlock(c) /\ Alone(c.block) /\ c.block.vint = 0}

\* The first of them, else the end of the file; a file needs a Segment.
ReadTo == CHOOSE i \in Broken \cup {Len(file) + 1} : \A j \in Broken : i <= j
Unreadable == Broken # {} \/ Len(file) < 2

\* The tags in front of ReadTo, but for those behind a cluster of unknown size,
\* which the reader takes for its children.
TagsIn ==
    LET scope(i) == SelectLastInSeq(SubSeq(file, 1, i), LAMBDA c : c.el = "cluster")
        seen == {i \in 1 .. ReadTo - 1 : /\ file[i].el = "tags"
                                         /\ scope(i) > 0 => file[scope(i)].size # Unknown}
        value(name) == LET own == {i \in seen : name \in DOMAIN file[i].tags}
                       IN  file[CHOOSE i \in own : \A j \in own : j <= i].tags[name]
    IN  [name \in UNION {DOMAIN file[i].tags : i \in seen} |-> value(name)]

\* A demuxer gets every frame put in front of the first broken cell, whatever
\* cluster sizes and lacing carry it, with its flag, duration and payload, and an
\* error exactly if there is such a cell; it gets the tags between clusters.  The
\* payload is whole but for a single frame in EBML lacing, which loses what is
\* read as its size (demux.go:517-522).
\* Times are exact but for the rounding of DefaultDuration, which laced frames
\* add up: each may be early by less than a unit more than the one before.
DemuxReadsFile ==
    pc = "idle" =>
        LET seen == Select(meant, {f \in Range(meant) : f.cell < ReadTo})
            got  == Read.packets
        IN  /\ Read.phase = "error" <=> Unreadable
            /\ ~Unreadable => Read.tags = TagsIn
            /\ Len(got) = Len(seen)
            /\ \A k \in DOMAIN seen :
                  LET early == seen[k].ns - got[k].ts * ScaleIn
                  IN  /\ got[k].track = seen[k].track /\ got[k].key = seen[k].key
                      /\ got[k].dur = seen[k].dur
                      /\ got[k].data = SubSeq(seen[k].data, seen[k].lost + 1, Len(seen[k].data))
                      /\ 0 <= early /\ early <= (seen[k].lace - 1) * (ScaleIn - 1)

\* The packets of the file that the options ask for, by position: of the tracks
\* that can be imported and not before zero.  Video runs from the time of the last
\* keyframe at or before `from` up to the first keyframe at or after `to`; the
\* others are cut in whole timestamp units.
Wanted ==
    LET ps   == Read.packets
        video(n) == KindIn(n) = "video"
        start(n) == LET k == SelectLastInSeq(ps, LAMBDA p : p.track = n /\ p.key /\ p.ts <= FromTS)
                    IN  IF ~video(n) THEN FromTS ELSE IF k = 0 THEN 0 ELSE ps[k].ts
        over(n, k) == \E j \in IF video(n) THEN 1 .. k ELSE {k} :
                         /\ ps[j].track = n /\ ps[j].ts >= start(n) /\ ps[j].ts >= ToTS
                         /\ video(n) => ps[j].key
        of(n) == {k \in DOMAIN ps : ps[k].track = n /\ ps[k].ts >= 0}
    IN  UNION {{k \in of(n) : Ranged => ps[k].ts >= start(n) /\ (ToTS > 0 => ~over(n, k))}
               : n \in {Mapped[k].number : k \in DOMAIN Mapped}}

WantedFrames ==
    LET kept == Select([k \in DOMAIN Read.packets |-> k], Wanted)
    IN  [i \in DOMAIN kept |-> Read.packets[kept[i]]]

\* A frame stored before a keyframe of its track is shown before it.
Decodable(n) ==
    \A i, j \in DOMAIN Read.packets :
        (/\ i < j /\ Read.packets[i].track = n /\ Read.packets[j].track = n
         /\ Read.packets[j].key) => Read.packets[i].ts < Read.packets[j].ts

\* What Import has written is a beginning of what the options ask for, in file
\* order, and all of it once Import has returned without error.  A video track in
\* decoding order, cut behind a keyframe, starts with a keyframe, unless that one
\* is skipped as it lies before zero.
ImportCut ==
    (pc \in {"done", "failed", "broken"} /\ out # <<>> /\ runs = 1) =>
        LET frames == WantedFrames
        IN  /\ Len(out.frames) <= Len(frames)
            /\ \A k \in DOMAIN out.frames :
                  LET fr == out.frames[k]
                      p  == frames[k]
                  IN  /\ fr.track = p.track /\ fr.pts = p.ts /\ fr.key = p.key
                      /\ fr.data = p.data
                      /\ KindIn(fr.track) = "data" => fr.dur = p.dur
            /\ pc = "done" => Len(out.frames) = Len(frames)
            /\ Ranged => \A n \in DOMAIN snap :
                  LET k == SelectInSeq(out.frames, LAMBDA fr : fr.track = n)
                  IN  (k > 0 /\ KindIn(n) = "video" /\ snap[n] >= 0 /\ Decodable(n)) =>
                          out.frames[k].key

\* A pair of frames that GMC cannot store in this order.
OutOfOrder ==
    LET frames == WantedFrames
    IN  \E i, j \in DOMAIN frames :
            /\ i < j /\ frames[i].track = frames[j].track /\ frames[j].ts < frames[i].ts
            /\ KindIn(frames[i].track) = "video" => frames[i].key /\ frames[j].key

\* Import fails on its first run exactly for these: a broken file, a selected
\* number that is not there, a time scale that AddTrack takes for zero, tags that
\* do not fit, frames out of order.  So a file that has none of them is imported,
\* and one that has is never reported as done.
ImportFailsForAReason ==
    (pc \in {"done", "failed"} /\ runs = 1) =>
        (pc = "failed" <=>
            \/ Unreadable
            \/ ~(opts.tracks \subseteq Numbers)
            \/ Refused
            \/ Cardinality(DOMAIN TagsIn \cup StartTag) > TagsRoom
            \/ OutOfOrder)

\* What any run of Import reports as done is a finalized file with every track that can be
\* imported, in order, and every readable tag with its last value, the start time
\* included.
FinishedImportComplete ==
    pc = "done" =>
        /\ out.final
        /\ Len(out.tracks) = Len(Mapped)
        /\ DOMAIN out.tags = DOMAIN TagsIn \cup StartTag
        /\ \A name \in DOMAIN TagsIn : out.tags[name] = TagsIn[name]

\* A finished output is never touched again: not by another run either.
FinishedOutputStays ==
    [][(out # <<>> /\ out.final) => out' = out]_vars

\* Audio and text are cut at the given times ("exact for audio/text",
\* import.go:13-15; "pts >= From" and "pts < To" in design 3.4).
ImportCutExact ==
    (out # <<>>) =>
        \A k \in DOMAIN out.frames :
            KindIn(out.frames[k].track) # "video" =>
                /\ out.frames[k].pts * scale >= opts.from
                /\ opts.to > 0 => out.frames[k].pts * scale < opts.to
=============================================================================
