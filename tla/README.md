# A TLA+ model of GMC and its Matroska converter

This directory holds TLA+ modules for `go-container`: package `gmc` (a crash-tolerant,
append-only media container that can be read while it is written) and package `mkv` (a
Matroska muxer, demuxer, and the conversion in both directions). TLC checks the modules on small
instances; TLAPS proves, for every value of the constants, every safety property that the passing runs check, of package `gmc`, of
Export and of Import, and the two refinements of abstract specifications. References such as `writer.go:145` are to files of the repository.

To run: `tlc -config MCGmcWriter.cfg MCGmcWriter` (and likewise for the other configurations),
and `tlapm` on `SelectLemmas.tla`, `GmcWriterProofs.tla`, `GmcLiveProofs.tla`, `GmcTagsProofs.tla`, `GmcFileProofs.tla`,
`MkvFormatProofs.tla`, `MkvConvertProofs.tla` and `MkvImportProofs.tla`.

## 1. The system

```
   application goroutines                     conversion
        |  calls                                  |
   gmc.Writer --- committed (atomic), idx ---> gmc.Reader (live) --> Iterator, Follow
        |  WriteAt, Sync         mu + cond             |
        v                                              v
   [header | tags slot 0 | tags slot 1 | chunk chunk chunk ... footer | trailer]
        ^                                              ^
   gmc.Repair                                     gmc.Open (footer, or recovery scan)
                                                       |
            mkv.Import  <--- demuxer  <--- MKV file <--- muxer <--- mkv.Export
                                              ^
                                     other Matroska muxers
```

| component | state | operations | interacts by | hard behaviour | what makes it correct |
|---|---|---|---|---|---|
| gmc Writer (`gmc/writer.go`, `checkpoint.go`, `data.go`, `track.go`, `footer.go`) | committed size, tracks and their counters, sync-point index, pending checkpoint entries, checkpoint chain, closed flag | Create, AddTrack, WriteFrame, SetTag, SetStartTime, Sync, Close, Finalize | one mutex; the atomic `committed`; a condition variable | any WriteAt or Sync fails half way; a frame is committed although its checkpoint failed; bytes of failed writes stay in the file | what a crash leaves rebuilds what the writer knew; entries name real sync points, none lost or doubled; the footer is only a cache |
| sync-point index (`gmc/index.go`) | entries per track | add, addAll, seek, dump | locked by itself, read by live readers | binary search over an order that only some tracks keep | a seek lands on the last sync point at or before the target |
| Reader and recovery (`gmc/reader.go`) | tracks, index, last pts, committed | Open, scan, loadFooter, Summaries, SeekPTS, ReadInterleaved | the file | scan after any crash; stale footer; torn tail | scan = live state; footer = scan |
| time queries (`gmc/reader.go`, `timeconv.go`) | none | LastPTS, LastTime, SeekTime | the index, the start time tag | int64 nanoseconds wrap, 128-bit quotients clamp, two conversions round | a seek by time is never behind a frame that belongs to it |
| live readers (`gmc/iterator.go`) | offset, limit, channel | Next, Follow | `committed` without a lock, `mu`/`cond`, `context.AfterFunc`, channel | lost wake-ups, torn chunks, cancel racing Wait, a consumer that stops, drain at close | every committed frame once and in order; ends only for a reason; ends when it should |
| tags area (`gmc/tags.go`) | two slots, sequence number, next slot | SetTag, pickTagsSlot | the file | crash in a slot write; power loss over unsynced slots; another process that opens the file during SetTag | an atomic register |
| Repair (`gmc/repair.go`) | none but the file | Repair | the file | interrupted at any of its steps and run again; power loss | no readable frame is lost; the result opens through its footer |
| header, cursor, format (`gmc/header.go`, ...) | none | encode, decode | - | - | round trip |
| codec envelopes (`gmc/codec`) | none | pure byte conversions | called by the mkv package | versions, narrow fields | what is stored in a track comes back |
| mkv muxer (`mkv/mux.go`) | open cluster, its base time, cues, patch positions | AddTrack, WritePacket, Finalize | the file | int16 relative times, unknown sizes until patched, interruption | every complete packet can be read wherever writing stopped; sizes and cues describe the file |
| mkv demuxer (`mkv/demux.go`, `ebml.go`) | position, open cluster, queue of laced frames | Open, Next | the file | unknown sizes, torn tail, lacing, late Tags of foreign files | packets as put in |
| Export, Import (`mkv/export.go`, `import.go`, `timeconv.go`) | per-track end flags, snap points, the output file | Export, Import with a Range | reader -> muxer, demuxer -> writer | the GOP rule keeps state over the loop; rounding; two passes that must agree; failure half way and a second run | the frames of the range, each once; a finished output is complete and stays |
| commands and examples (`cmd/media-info`, `example/*`) | none | reports, wiring | - | - | - |

`PROJECT.json` lists the same components with their status, and under `hazards` everything in
the code that is hard to reach by a test, each with the properties that cover it.

## 2. The modules

| module | models | a step is | state and actions against the code |
|---|---|---|---|
| `GmcFormat` | chunks, the index, the recovery scan | - (operators) | `IndexAdd`, `SeekStart`, `InterleavedStart` are `index.add`, `index.seek`, `ReadInterleaved`; `Scan` is `Reader.scan`; a chunk's offset is its position in the stream |
| `GmcWriter` | the Writer, single-threaded view | one API call, under `w.mu` | `log` is the committed prefix, `residue` and `trailer` say what lies behind it; `tracks`, `idx`, `pending`, `prevCPOff`, `lastCPEnd`, `closed` are the fields of the same names; `AddTrack`, `WriteFrame` (with the trailing `MaybeCheckpoint`), `Close`, `Finalize` are the methods with all their error returns |
| `GmcQueries` (extends `GmcWriter`) | queries by pts and by time | - (evaluated in every state of the writer) | `MulDiv64` is the clamped 128-bit quotient, `Signed` the conversion to int64; `LastTime`, `SeekTime`, `ReadInterleaved` are the methods |
| `LogTail` | what live readers promise | a commit, a join, a delivery | the abstract specification: an append-only log, readers that take what they asked for one at a time |
| `GmcLive` | the Writer and goroutines that read while it writes | one observable operation: WriteAt, store of `committed`, lock, Broadcast, Wait, send, ... | `fpc` is the program counter of `follow`; `afterFunc` is the goroutine of `context.AfterFunc`; `disk` against `log` tells bytes in the file from committed ones; refines `LogTail` (`ImplementsLogTail`) |
| `TagsRegister` | what the tags area promises | one SetTag, Crash or Open | the abstract specification: one snapshot, replaced atomically |
| `GmcTags` | the double-slot area | begin or end of a slot write, Sync, crash, power loss | `slots` is what ReadAt finds, `media` what a power loss may leave; refines `TagsRegister` (`ImplementsRegister`) |
| `GmcTagsOpen` (extends `GmcTags`) | Open of another process during SetTag | begin and end of the ReadAt, the moment it takes each slot | `opening` holds the copies, the `tagsSeq` at the start and the slots written since |
| `GmcFile` | one file through writer, crashes, power losses and Repair runs | one file operation | `cells` and `media` as above, per chunk; `pc` walks through Finalize and Repair |
| `MkvTracks` | track descriptions | - (operators) | `EncodeTrackEntry`, `ParseTrackEntry`, `MapTrack`, `MapTrackOut`, `EncodePrivate` are the functions of the same names |
| `MkvFormat` | the elements of a file, the demuxer | - (operators) | `NewDemuxer` reads the header up to the first cluster, `Demux` is `ReadPacket` called to the end; `ToInt16` is the conversion of the relative time, `LeadingSizes` the sizes of laced frames, `Swallowed` what a lone frame in EBML lacing loses to one |
| `MkvConvert` | Export with its muxer, interrupted anywhere, read back by the demuxer | one write of the muxer | `NextFrame` is the loop body of Export with its range rules and the skip of payloads that are no text frame; `CloseCluster` ... `PatchSeekHead` are the writes of `WritePacket` and `Finalize` in their order |
| `MkvImport` | a muxer of someone else, then Import of its file, possibly twice | one element of the other muxer; one call of Import on its output | `pc` walks through Import: `Open`, `Scan` (pass 1), `Create`, `AddTracks`, `SetTag`, `ReadFrame` (pass 2), `EndOfFile`, late `SetTag`, `Finalize`; `Break` is a failed write or a crash at any of them |
| `Select` | the elements of a sequence that lie in a set | - (operator) | what a filter of tracks leaves of a log, which tracks Export and Import convert, which packets a range asks for |
| `SelectLemmas` | lemmas: induction over the naturals, `Select` of one element more | | |
| `GmcWriterProofs` | theorems about the Writer (types, sound entries, checkpoints, recovery, sampling, footer) and about the queries of `GmcQueries` | | |
| `GmcLiveProofs`, `GmcTagsProofs`, `GmcFileProofs` | theorems about `GmcLive`, `GmcTags` with `GmcTagsOpen`, `GmcFile` | | |
| `MkvFormatProofs` | lemmas about the demuxer's walk over the cells of a file, and where it stands in one laid out as Matroska wants it | | |
| `MkvConvertProofs` | theorems about Export, its muxer and the demuxer that reads its files | | |
| `MkvImportProofs` | theorems about the files of other muxers and Import: types, what a demuxer reads, the cut, why an import fails, when an output is complete and that it stays | | |
| `MC*` | instances for TLC | | |

`GmcWriter` is built on `GmcFormat`; `MkvConvert` and `MkvImport` are built on `MkvFormat` and `MkvTracks`.
`GmcWriter` and `GmcLive` are two views of the same methods: the first has the data and takes a
method as one step, which the mutex justifies for everything but readers; the second keeps only
what other goroutines see, splits the method where they can look, and has no timestamps. `GmcFile`
is a third view, of the medium, which drops tracks and keeps the steps of Repair.

In every module a definition whose comment begins "Mutant" is a deliberately wrong variant of the definition
behind it. No behaviour uses it; it shows that a property can fail (section 4).

### Abstractions

- **Offsets** are positions in a sequence of chunks. Only order and equality of offsets, and
  distances in `CheckpointDue`, matter to the code. Byte lengths are not modelled: every chunk
  is of readable size (`maxPayloadLen` is listed as an uncovered hazard).
- **Payloads** are positions in the source or model values. A CRC is assumed to detect what it is meant to
  detect: a chunk that is not complete does not read as a chunk.
- **Failed WriteAt**: nothing or a part is written, the call returns an error, and the writer's state is
  what it was. A part leaves bytes that later, shorter writes do not cover.
- **A process crash** keeps every byte written so far (page cache). In `GmcWriter` it needs no action:
  what a crash leaves is an expression over the state, and each recovery property
  quantifies over every cut of the log.
- **A power loss** (`GmcTags`, `GmcFile`) keeps, of every unsynced cell, any content it had since the last sync or
  a torn one, independently for each cell and for the file length: fsync is the only
  barrier. The preallocated tags area has a fixed length.
- **A ReadAt during a WriteAt** (`GmcTagsOpen`) takes each slot at some moment; a copy that overlaps a write of the
  slot does not pass its checksum.
- **The time trigger** of checkpoints may fire at any call.
- **Words.** `GmcQueries` computes with the code's integers at a chosen width (`Half` for 2^63, `Nano` for the nanoseconds of
  a second), so that products clamp and differences wrap within the instance. In `MkvTracks` a uint32 has
  `Uint32` values: the sizes of a picture and the time scale of a foreign file wrap, and a scale that wraps to zero is one that AddTrack refuses.
- **Time** in `MkvConvert` is in units of num / den seconds, as in the code, of `Nano` nanoseconds each, on a scale of 2 ns, so that rounding,
  the int16 limit of relative times and the cluster limit all lie within 3 ticks.
- **Text frames** either decode or do not (`decodes`); what makes them decode is in the bytes.
- **Element lists** of a Matroska master are functions of the fields present; sampling frequencies are counted in half
  hertz, so that the rounding to whole hertz shows. A cluster's size is the number of elements in it. The numbers of
  EBML are not encoded.
- **Laced frames** are sequences of bytes that know which frame they belong to, so that a wrong size
  mixes frames; sizes are coded as the lacing codes them (Xiph absolute, EBML as differences). The demuxer reads a first EBML size even when the
  block has one frame and none is coded: `vint` is how many bytes of the payload read as that size, 0 when they read as none.

## 3. Runs, bounds and what they show

`writer` (`MCGmcWriter.cfg`, 0.2 million states). Two of: a video track in default mode, a Reordered one, an audio track;
keyframes at pts 0, 1, 4, a non-keyframe at pts 1, a keyframe with dts 1 and pts 0. Bounds:
`MaxTracks = 2`, a call starts below `MaxChunks = 5` chunks, a checkpoint is due after
`CheckpointChunks = 3`. Five chunks hold two checkpoints or a checkpoint, a footer and a later frame, so
that failed checkpoints, chained checkpoints and a footer that is no longer the last chunk all occur.
`Half = 64` and `Nano = 10` let the time of the largest pts clamp, and times before or long after the start wrap. A unit of the first track is 10/13 ns, so that
a conversion to whole nanoseconds and back can lose two.
Shown: the index and all entries on disk name sync points (`IndexSound`); the chain of checkpoints from
the last one, with what is pending, holds every entry of the index once (`CheckpointsCoverIndex`); audio
is sampled once an interval (`AudioSampling`); a scan of any prefix rebuilds the live index and
counters (`RecoveryRebuildsIndex`, `RecoveryRebuildsSummaries`); a footer that loads says what the scan would
(`FooterIsCache`); seeks by pts and by time land where their contract says, clamped or not (`SeekFindsLastSyncPoint`,
`InterleavedMissesNothing`). A seek to the time of the last frame may land before its sync point, by at most as many units as make up less
than a nanosecond (`Early`): one at most for units of 1 ns or more.

`live` (`MCGmcLive.cfg`, 92 thousand states). The writer with either one follower, its context and its consumer, or one
iterator. An iterator takes no lock and nobody sees it, so `MCSpec` has no behaviour with both; the two kinds share
only variables neither of them writes. `FollowChunks = 2`: one chunk written before
`Follow` and one after it, or two after it, gives the follower both a second round through its loop and a
writer that closes at every point of it. `MaxChunks = 3` for iterators: one chunk of another track to skip, one to
return, one in flight. Two followers share nothing but `mu` and `cond` and are beyond the time of a liveness run (the
safety of any number of them is proved, section 6). Shown: exactly the committed frames (`FollowerExact`, `IteratorExact`, and
`ImplementsLogTail`, the refinement of the abstract log, which also forbids a delivery that is taken back), a committed
chunk never touched again (`CommittedIntact`), an end only by cancel or after draining a closed writer
(`FollowerEndsForAReason`), and under fairness `CancelEndsFollow`, `CloseEndsFollow`, `FollowerCatchesUp`.

`tags` (`MCGmcTags.cfg`, 1.9 million states). Three keys (SetStartTime is a SetTag of one of them), two values,
`SlotEntries = 2` so that a snapshot may be too large, four successful SetTag calls (`MaxSeq = 4`: every slot is written
twice, also during one Open). Shown: `OpenShowsTags`, `SyncedTagsSurvive`, the refinement `ImplementsRegister`, and
`OpenDuringUpdates`: an Open in another process that overlaps any number of SetTags, failed ones included, shows a whole snapshot that is at least as
new as the one current when it began, as long as one slot is not written meanwhile.

`file` (`MCGmcFile.cfg`, 0.3 million states). Three frames, up to two power losses, a file of at most `MaxCells = 5` cells, any number of
Repair runs, each interruptible at each step. Two power losses: one to damage what the writer left, one in the Repair of it. Three frames:
one that a sync found, one that the first power loss tears and one behind it. Shown: `SyncedFramesSurvive` (the frames that were readable
at the last successful sync stay the beginning of what is read, in order), `CommittedFramesRead`, `RepairedOpensFinalized`, `RepairKeepsFrames`.
What is read need not be without a gap after two power losses: the second may undo the truncation of a Repair that had not synced but keep its
footer, which then stands where the torn frame was, and the scan walks over it to the frame behind. No synced frame is concerned.

`convert` (`MCMkvConvert.cfg`, 2.0 million states). A GMC file of five tracks: a video track (timebase = scale), a subtitle track
(a timebase of one and a half ns, durations 2, payloads that do not decode), an audio track without frames, one with an unknown codec and one whose envelope does not
decode; tags with reserved names; every stream of up to three frames (`MaxFrames`), pts up to 3. Relative times within 1 unit and
clusters of one block, so that clusters are closed for each of their three reasons; four ranges, four track selections; a stop
before every write. Shown: `CompletePacketsRead`, `SizesDescribeFile`, `CuesFindKeyframes`, `HeaderSurvives` (start time, tags and
tracks read back as they were in the GMC file), `ExportCut` (exactly the frames of the range, less the subtitles whose payload is no text frame).

`import` (`MCMkvImport.cfg`, 3.3 million states). Files of another muxer: with or without an EBML header of type matroska, with a time scale that
is zero as a uint32 (`Uint32 = 8`) or is not, up to two
clusters of known or unknown size, up to three blocks of six kinds (plain, EBML, fixed and Xiph
lacing, a single frame in EBML lacing that loses a byte, and one that does not begin with a number), one Tags element behind a cluster, cut at the end or in the last elements; then Import with five sets of options, twice
(`MaxRuns`), failing or dying at any of its steps. Two clusters and three blocks make an unknown-size cluster that is ended by
another one, Tags behind either kind, and a video frame behind the end of the range that must stay out. `TagsRoom = 2`
lets the late tags not fit. Shown: the demuxer returns the frames that were put in up to the first broken element, whole but for a lone frame in EBML lacing (`DemuxReadsFile`);
the output is a prefix of what the options ask for, and all of it at the end (`ImportCut`; a cut video track whose frames are in decoding order starts
at a keyframe, unless the keyframe lies before time zero and is skipped, `import.go:181`); a first run fails for exactly
the listed reasons (`ImportFailsForAReason`); whatever run reports success, its output is finalized and has all tracks and
tags (`FinishedImportComplete`); a finished output is never touched again (`FinishedOutputStays`).

Deadlock checking is off in every configuration: a closed writer, a finished conversion and a bound
that was reached are legitimate ends. For the follower the absence of deadlock is what the liveness
properties say.

### Disagreements between the code and what is said of it

Each of these runs has one property, which states a sentence of the documentation, and
TLC shows a behaviour of the code that violates it.

| run | property | what happens |
|---|---|---|
| `index_order` | `IndexAscending` | a default-mode track with DTS is ordered by DTS only (`writer.go:190`), so that its index need not be in pts order (`index.go:13-15`), which the binary search assumes |
| `finalize` | `FinalizedFileLoadsFooter` | bytes of a failed append stick out behind the trailer, as Finalize does not truncate; it returns nil, and the file opens as unfinalized |
| `tags_open` | `OneGenerationOld` | an Open that overlaps two SetTag calls may read both slots torn and show no tags at all, against the design's "at worst one generation old" |
| `file_read` | `RepairIsLossless` | a read error counts as the end of the file, and Repair truncates behind it |
| `export_whole` | `WholeExportKeepsEveryFrame` | a whole export seeks to pts 0, the last sync point at 0 wins, and frames before it that also have pts 0 are dropped |
| `import_range` | `ImportCutExact` | a `To` below one timestamp unit is rounded down to 0, which means unbounded |

Other divergences met in reading, without a run of their own:

- Two SetTag calls without a Sync between them leave both slots exposed to a power loss (against `writer.go:255-257`).
- Finalize has one fsync for frames, footer and trailer, so that a power loss may keep the trailer and lose a frame; the
  footer then counts more frames than can be read (against `reader.go:394-395`).
- Import rejects a torn tail with `errMalformed` where the mkv design document (3.3) says it reads as far as it can.
- Tags behind an unknown-size cluster are skipped (`demux.go:394`), although Import looks for late tags (`import.go:215`).
- The mkv design document (3.1) has periodic cues for files without video; the code writes none.
- A BlockGroup without a reference is read as a keyframe whatever the flag was.
- A range in nanoseconds is rounded down to timestamp units, so that a `From` between units admits one frame before it.
- A block of one frame in EBML lacing has no size coded, but the demuxer reads one (`demux.go:517`), from the payload: the frame loses its first bytes, or the
  block is malformed, against "payload unchanged in both directions" of the mkv design document (3.3, line 228).
- Export skips a subtitle whose payload is no text frame, without an error or a count (`export.go:194`).
- Import stores the time scale as a uint32 (`import.go:146`). One of 2^32 ns or more wraps, so that the times of all tracks are wrong, or Import fails when it
  wraps to zero, after the output was created.
- The frames of a laced block are placed at multiples of `DefaultDuration` rounded down to units (`demux.go:326`), so that
  the rounding adds up over the frames of a block; `DemuxReadsFile` states the bound that does hold.

## 4. How the properties were tested

For each property of each passing run `PROJECT.json` names a mutant: a definition of the model replaced by a plausible
bug (a missing broadcast, an offset loaded after the append, a flag not reset, a size patched one off), for
which TLC finds the property violated on the same instance. So no property holds because the instance is too
small or the premise never true.

## 5. Fairness

Safety properties need none. `GmcLive` has liveness properties under
- `WF` of the steps of a call under way and of a follower: a running goroutine is scheduled;
- `SF` of a follower's `Lock` and of the `AfterFunc` goroutine: `sync.Mutex` switches to starvation mode after 1 ms, so a waiter
  gets the mutex even when the writer locks it again and again.

No fairness is assumed of the application: it need not call a method, receive from the channel, cancel a context or
call `Next`. `CloseEndsFollow` and `FollowerCatchesUp` take a consumer that keeps receiving (`Patient`) as their hypothesis; `CancelEndsFollow` does not,
as the `select` in `follow` must end either way.

## 6. Proofs

All proofs are for arbitrary constants that satisfy the named assumptions (`TrackIDSpaceAssumption`, `WriterAssumption`, `QueriesAssumption`,
`TagsAssumption`, `LiveAssumption`, `WordAssumption`, `FileAssumption`, `FormatAssumption`, `ConvertAssumption`, `TrackInfoAssumption`, `ImportAssumption`, `MuxerAssumption`), which TLC evaluates on every run.
`MuxerAssumption` describes the other muxer: what follows its Segment header has at most one Info and one Tracks element, no two tracks share a number, its
blocks are of those tracks, only a BlockGroup has a duration or no frames, frames of unequal sizes in fixed lacing show in the length of the block, and no number is longer than the payload it is read from.
`QueriesAssumption` and `ConvertAssumption` take every timebase that AddTrack accepts; that `num * Nano` fits a word, which the first asks for, holds for a numerator of 32 bits.
`TrackInfoAssumption` says that an envelope that decodes is one that the codec package made; in particular the output rate of an audio track is zero
when it is the same as the rate (`codec.go:57-58`), without which a rate of its own would not come back, and sizes and rates are uint32. Two groups of theorems have one hypothesis more:
- those about the index and the queries take `MaxTracks <= TrackIDSpace`. After 65536 tracks `AddTrack` gives the id of the first one
  again and replaces its state (`writer.go:165`, a listed hazard), and what is on disk under that id is then of two tracks;
- those of `GmcFileProofs` take `~ReadErrors`. With read errors Repair loses frames: that is what the run `file_read` shows.

**Induction over a log.** The operators that fold over a log or a list of entries (`ScanChunks`, `IndexAddAll`, `ChainEntries`, `Dump`, `SortSearch`, `Select`,
`Survivors`) are recursive functions, not RECURSIVE operators. Each has a lemma that it obeys its recursion (`ScanRecursion`, ...), from the
definition of recursive functions as a CHOOSE. Induction goes through sets: `NatSetInduction` (`SelectLemmas`) says that a set that
contains 0 and with n also n + 1 contains all naturals, and is applied to the set of lengths for which the claim holds.

**GmcWriterProofs.** `TypeCorrect`: `Spec => []TypeOK`; the invariant is inductive as it stands. One lemma per action, with
`CheckpointStep` as a summary of the four outcomes of `maybeCheckpointLocked`.
`IndexIsSound`: `Spec => []IndexSound`. The property is inductive relative to `TypeOK`; the argument is that a log only ever grows
(`NamesGrow`, `EntriesGrow`, `MemoryGrow`, `CheckpointsGrow`: an entry that names a committed keyframe goes on naming it) and
that WriteFrame makes its entry for the very chunk it appends (`FrameSound`), whether or not the checkpoint that follows is
written.

For the index, the scan and the footer there are four more invariants, each inductive relative to `TypeOK`:
- `IndexState`, for `CheckpointsHoldIndex` and `RecoveryRebuildsTheIndex`. Checkpoints point back, and for each track the entries of the chain from
  `prevCPOff` followed by `pending` are its index (so the coverage property itself is inductive once the chain is described); for every
  prefix of the log what the scan recovers is ascending in offset and `Faithful` to the live entries up to there: equal, or for audio
  at least those. A failed checkpoint changes neither log nor pending, a written one moves all of `pending` into the chain, and the scan, which at a
  checkpoint drops its tail and adds the entries, has without its tail exactly the entries of the chain.
- `SummaryState`, for `RecoveryRebuildsTheSummaries`: what the scan of the whole log counts is what the fields of the tracks hold; one step of the writer
  is one step of the scan (`ScanAppend`).
- `SamplingState`, for `AudioIsSampled`: at most one entry of an audio track in `pending` and in each checkpoint, by position rather than by
  cardinality, and the flag set exactly while it is there.
- `FooterCurrent`, for `FooterCaches`: a trailer stands behind the footer of the present index and counters, since every later append, successful or not,
  overwrites it. With it, the footer's entries are the dump of the index, and adding a dump to an empty index gives the index back (`OwnOfDump`).

For the queries, `SearchFinds`: on entries in pts order the binary search returns the number of those at or before the target; by induction over the
length of the range. `SeekState`, the invariant: the frames of a track are in the log in the order that WriteFrame enforces (`OrderInv`), and every keyframe of a track that is
not audio has an entry (`AllIndexed`); with `IndexSound` and the order of offsets its entries are then in pts order (`KeysInOrder`). `SeeksFindLastSyncPoint` follows for seeks by pts. For seeks by time, `UnitsOfNano` and `UnitsOfPTS` say
between which units a time lies after the clamped, rounded conversion (one nanosecond lost on the way out is at most `Early` units on the way back), and `NanoSinceStart` where the difference of two times wraps. `InterleavedReadsMissNothing`:
the least of the starts is no later than each of them, and a frame before the start of its own track is not behind the target.

**GmcTagsProofs.** None of the properties is inductive: they say nothing of what is in the slot
being written. `IInv` adds `SlotsInv` (at each point of SetTag the other slot holds the current snapshot, and this one is older,
torn, or just completed) and `MediaInv` (either nothing completed since the last Sync and the current slot is on the medium, or
one SetTag did and the other slot is still the synced one unless it was written again). `InitIInv`, `NextIInv` and `Inductive` prove it;
from it follow `TagsTypeCorrect`, `OpenAgreesWithWriter`, `SyncedTagsAreSafe`, and, with `StepRefines` (each step of the
detailed specification is a step of the register or a stutter), `TagsRefinement`: `Spec => ImplementsRegister`.

`OpenMissesNothing` (second part of the module): `OpenSpec => []OpenDuringUpdates`, for any number of updates during one Open. `OpenInv` adds to the
types and to `IInv` of the tags area what the copies may be: `WritesCounted` (a slot under a write is among those touched), `CopiesFresh` (a copy of
an untouched slot is still what the slot holds) and `OtherIsCurrent` (when only one slot was touched, the other holds a snapshot
no older than the start of Open, as the writer never writes the slot of the current snapshot first). So one of the copies is as new as
promised, and the choice by sequence number cannot be older.

**GmcLiveProofs.** `LiveInv` ties every program counter to the file: `Intact` (below the committed size file and log agree,
position by position), `WriterInv` (`committed` is stored only when the chunk is complete, and a closed writer appends no more),
`FollowerInv` (where a follower may stand in the log, that it sends a chunk it asked for, and why it may be done) and `IteratorInv`.
One lemma per group of actions: `WriteSteps` and `StoreStep` for an append, `FollowerFrame` for every step of one
follower that leaves the others and the writer alone. From it: `LiveTypeCorrect`, `CommittedStaysIntact`,
`FollowersEndForAReason`, `IteratorsNeverFail`, for any number of tracks, followers and iterators and without the bound on both
kinds at once that the run has.
`DeliveryInv` adds what was delivered: `FollowerGot` and `IteratorGot` say for each program counter which chunks the reader has, as a `Select` from the log
between its start and its position; a commit does not disturb them, as they lie below the committed size, and each read extends them by
one chunk that is asked for or not (`SelectAppend`). From it `FollowersReceiveExactly` and `IteratorsReturnExactly`. `LiveImplementsLogTail`: every step is a commit, a join or a
delivery of `LogTail`, or changes nothing it sees; the step of a follower that takes a chunk from the log is none (it is not delivered yet), the
send is.

**GmcFileProofs.** `FileInv` is `TypeOK` with
- `DiskInv`, what a power loss may leave: `MediaInv` (the medium may hold what the file shows), `Ordered` (wherever frames may be on the medium, they are
  in order, so that every outcome of a power loss is), `Settled` (the frames read at the last sync lie in chunks that no power loss can change or cut off),
  `Gapless` (while power was lost at most once, what is read has no gap), `Unique` (before any power loss the medium holds no chunk but those of the file);
- `WriterInv` (a writer has seen no power loss, and its committed prefix is what a scan finds), `RepairInv` (Repair works behind the logical end it found, and keeps the
  frames before it) and `RepairedInv` (a repaired file is all on the medium, and nobody writes).

The property `SyncedFramesSurvive` alone is not inductive: what matters for it is what the medium holds, of which the file is only one outcome. One lemma per action; `RepairLosesNothing`
comes out of the lemmas of the steps of Repair.

**MkvConvertProofs.** What a reader gets of a file is a fold of `ReadCell` over all cells, and the file changes in the middle when a size is patched. So the
proofs go through a description of files: `Framed` (a header, then clusters whose children lie in their scope, of known or unknown size, the last element
perhaps torn) and the lemma `FramedRead`: whatever the sizes say, a framed file reads as its blocks, one packet each, by induction over the walk (`WalkHeading`, `WalkBody`).
`FramedPatch`, `GrowsAtTop` and `GrowsInside` say that the muxer's patches and appends keep a file framed. The invariants:
- `LoopInv`, types and order: the iterator is in the stream, packets are written in the order of their frames, and the one being written is behind them all;
- `StreamInv` = `FileInv` (the file is framed; before Finalize the segment's size is unknown), `ScopeInv` (every cluster but the open one is patched, and the open one has the
  muxer's base time) and `ReadInv` (the packets read are those written; here the int16 of a relative time comes back because `NeedNew` limits it on both sides);
- `CueInv`, that each keyframe written has a cue which leads to its cluster (`KeysInv`), also in the Cues element once that is written (`FinishInv`);
- `HeadInv` and `TimeInv`, that the header cells are those of `Header` but for the patched fields, and that `maxTS` is the greatest time written;
- `CutInv`, that `videoDone` is the set of video tracks of which the loop has passed a keyframe behind the range, and that the packets are the frames taken so far, but for those that do not decode.

`ExportReadable`, for any export that stops at any write: `PartComplete` covers a file cut within its header and `StopComplete` a torn last cell.
`ExportSizes` and `ExportCues` follow from `ScopeInv` and `CueInv` once pc is done. `ExportHeader` reads the header back: `HeadRead` (the demuxer collects exactly the header's
fields), `EntryReadBack` and `MapBack` (a track description survives both mappings, for each kind of track). `ExportCuts`: what the loop takes with its flags, one frame at a time, is the set that
the range asks for. It rests on `SnapIsStart` (the snap point is the time of the last keyframe at or before `From`, or of the track's first frame), on the order that Writer enforces
(`OwnFrames`: nothing stored before a keyframe is shown after it) and on `NothingMissed` (the interleaved iterator starts at or before every frame of every track, where only one frame of a track has pts 0: see
the run `export_whole`).

**MkvImportProofs.** Six invariants, for any file of another muxer, any options and any number of runs:
- `FileInv`: the cells have their types, and once the muxer has stopped `demuxed` is what the demuxer makes of the file; the walk keeps packets, entries and tags in their
  types (`ReadCellOK`, `WalkOK`, `DemuxersOK`), laced blocks and torn cells included. From then on no step changes the file.
- `OutInv`: an output exists exactly when Import is behind Create or an earlier run was, it is final only when a run is done, and every frame in it belongs to a mapped track.
  `ImportTypeCorrect` follows, and `ImportLeavesFinished`: a later run opens with O_EXCL and fails before it writes.
- `CutInv`, on the first run: the snap points are those of pass 1, `ended` is the set of video tracks of which the loop has passed a keyframe behind the range (`EndedBy`), and the
  output is, packet by packet, what `Wanted` keeps of the packets read so far (`CutStep`). The loop decides with its flags, the property looks at the whole file; that both agree is
  `CutReads`. A decodable track starts with a keyframe, since the frames stored before its snap keyframe are shown before it (`StartsWithKeyframe`). `ImportCutCorrect` follows.
- `ReadInv`, what a demuxer reads of the other muxer's file. `DemuxReadsFile` speaks of the end of the walk over a finished file and is far from inductive: the
  file changes while the muxer writes it, sizes are known before their children are there, and the size of the Segment, or a cut, decides at the very end which cells are broken.
  So while the muxer writes, `MuxOK` says of the cells so far that they are laid out as Matroska wants it (`Laid`, `Settled`: one Info and one Tracks in front, each
  cluster complete or owed exactly `left` cells), and that a demuxer, *whatever number of cells the file will turn out to have* (`ReadsAt`), stands behind cell n where `Place` says,
  has read the header (`HeadSeen`), the tags (`TagsRead`) and the frames meant by the first n cells (`Match`), up to the first broken cell, where it stops. One lemma per step of the muxer:
  `ClusterMuxOK`, `BlockMuxOK`, `TagsMuxOK`; under them `PlaceNext` and `ContentNext` say what each cell does to a demuxer that stands in its place, `LeadingIs` and
  `UnlaceIs` that the four lacings come apart into the frames put in, and `RoundedTimes` how far the rounding of a default duration can add up. When the muxer ends (`EndReads`), the number
  of cells is known, the file is `Finished`, and `FirstBroken` and `DemuxEnds` say where the walk stops: a torn cell (`EndsTorn`), a Segment size patched
  (`EndsPatched`) or a file cut short (`EndsCut`). `DemuxReadsWholeFile` is `ReadInv` with the operators of the property read back (`ReadToIs`, `TagsReadIs`).
- `CompleteInv`, on every run: which tags the output has, and which are still to do, in the first pass over the tags of the header (`FirstTags`) and the second over all of them (`LastTags`), and that every
  mapped track was added. It needs that NewDemuxer's tags are among those read at the end (`OpenedRead`). `FinishedImportIsComplete` follows with `DemuxReadsWholeFile`.
- `ReasonInv`: behind Open the options name tracks that are there, what has been written is in order (`InOrder`), behind AddTracks the scale was one that AddTrack takes (`Refused`), and a first run that failed has one of the five reasons. A step that
  refuses a frame shows that the frames asked for are out of order (`RefusedOutOfOrder`: the last frame in order of its track and this one are such a pair, as the output is a beginning of `Wanted` by `CutInv`), one that
  runs out of room shows that the tags do not fit (`TooManyTags`). The other direction is for a run that is done: everything wanted was accepted, so it is in order
  (`AcceptedInOrder`), and everything else was passed on the way. `ImportFailsForThese` is both.

**Only model-checked.** Liveness (TLAPS 1.4.5 does not prove it) and the fairness it rests on: `CancelEndsFollow`, `CloseEndsFollow`, `FollowerCatchesUp`. Every
invariant and every other action property of the passing runs is a theorem. The invariants of the proofs that quantify over
all numbers of cells (`MuxOK`) are out of TLC's reach the other way round: they are proved and not model-checked; the properties they serve are both.
The six runs that expect a violation are TLC's: a counterexample needs no proof.

## 7. What is not modelled

- Byte encodings (file header, chunk framing, EBML numbers, tag lengths, the layout of codec envelopes): pure functions without
  state, and well covered by the repository's round-trip and fuzz tests. What the envelopes keep of a track, the widths of their fields
  and their version check are in `MkvTracks`.
- The Annex-B, avcC and hvcC helpers of `gmc/codec`: byte conversions without a caller in this repository.
- `Follow` on a reader that is not live, which is a plain iteration.
- `RepairResult`, the list of skipped tracks of Export and Import, and everything else that only reports; `cmd` and `example`
  (`gmc-stitch-mkv` is wiring around Open, Export and Import).
- Numbers that leave their type where this is not said otherwise: in Export and Import, times from 2^63 ns on (also as products that clamp) and sampling
  frequencies from 2^32 Hz on. `Fits` counts the tags of a snapshot, as if all had the same size, and not their bytes.
- Seven hazards are listed without a property, with their reasons. Of four the model has not the means: a caller that repeats a frame after a checkpoint error,
  the 16-bit wrap of track ids, frames beyond `maxPayloadLen`, and the length prefixes of tag keys. ReadInterleaved loads `committed` before it searches the index, and
  `GmcLive`, where an append can come in between, has no pts to search by. Two are what the code does, listed as divergences in section 3: two SetTag calls without a Sync,
  and the one fsync of Finalize.

## 8. Plan

Done, in this order: `GmcFormat`, `GmcWriter` and its proofs; `GmcLive`; `TagsRegister`, `GmcTags` and its proofs; `GmcFile`; `MkvFormat`, `MkvConvert`;
`LogTail`; `GmcTagsOpen` and its proofs; `GmcQueries`; `MkvTracks`; `MkvImport`; the proofs about `GmcLive`; `Select` with its lemmas; the proofs about the index and recovery,
the queries, the file on its medium, and Export.

Then the proofs about `MkvImport`: types, the finished output, the cut, what a demuxer reads of another muxer's file, the reasons of a failed import and
the finished import.

Next, the model: frames beyond `maxPayloadLen`, track ids that wrap, and what WriteFrame promises a caller that retries.
