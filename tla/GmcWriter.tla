----------------------------- MODULE GmcWriter -----------------------------
(***************************************************************************)
(* The Writer of package gmc (writer.go): one action per method.  Every    *)
(* method holds w.mu from its first line to its return, so a call is one   *)
(* atomic step here; GmcLive models what other goroutines see in between.  *)
(*                                                                         *)
(* Any WriteAt or Sync may fail.  A failed WriteAt may leave bytes behind  *)
(* the committed size: `residue` says that the file ends in such bytes     *)
(* (they are never truncated, only overwritten by later, longer writes),   *)
(* `trailer` is the footer offset recorded by a trailer that directly      *)
(* follows the last committed chunk, 0 when there is none.  A process      *)
(* crash in the middle of a call leaves what one of these failures leaves, *)
(* so "crash here and Open" is an expression over each reachable state.    *)
(***************************************************************************)
EXTENDS GmcFormat, Select

CONSTANTS Frames,           \* the frames callers may pass to WriteFrame
          TrackModes,       \* the [kind, reordered] pairs callers may pass to AddTrack
          CheckpointChunks, \* CheckpointBytes, counted in chunks
          MaxTracks,        \* bound: tracks added
          MaxChunks         \* bound: a call starts only below this many chunks

ASSUME WriterAssumption ==
    /\ Frames \subseteq Frame
    /\ TrackModes \subseteq [kind : Kinds, reordered : BOOLEAN]
    /\ CheckpointChunks \in Nat \ {0}
    /\ MaxTracks \in Nat
    /\ MaxChunks \in Nat

VARIABLES
    log,        \* committed chunks; committed = Len(log) + 1
    residue,    \* stale bytes of failed writes reach the end of the file
    trailer,    \* footerOff in a trailer right after the log, else 0
    footer,     \* contents of the last Footer chunk written
    tracks,     \* w.tracks
    nextTrack,  \* w.nextTrack
    idx,        \* w.idx
    pending,    \* w.pending
    prevCPOff,  \* w.prevCPOff
    lastCPEnd,  \* w.lastCPEnd
    closed      \* w.closed

disk == <<log, residue, trailer, footer>>
vars == <<log, residue, trailer, footer, tracks, nextTrack, idx, pending,
          prevCPOff, lastCPEnd, closed>>

TrackState ==
    [kind : Kinds, reordered : BOOLEAN, hasLast : BOOLEAN, hasKey : BOOLEAN,
     firstPTS : PTS, lastEff : Nat, lastKeyPTS : PTS, maxPTS : PTS,
     frames : Nat, indexedThisCP : BOOLEAN]

\* Mutant: -1 as "no frame yet" in an unsigned field.
NewTrackSentinel(mode) ==
    [kind |-> mode.kind, reordered |-> mode.reordered, hasLast |-> FALSE,
     hasKey |-> FALSE, firstPTS |-> -1, lastEff |-> 0, lastKeyPTS |-> 0,
     maxPTS |-> 0, frames |-> 0, indexedThisCP |-> FALSE]

NewTrack(mode) ==
    [kind |-> mode.kind, reordered |-> mode.reordered, hasLast |-> FALSE,
     hasKey |-> FALSE, firstPTS |-> 0, lastEff |-> 0, lastKeyPTS |-> 0,
     maxPTS |-> 0, frames |-> 0, indexedThisCP |-> FALSE]

NoFooter == [kinds |-> EmptyMap, sums |-> EmptyMap, entries |-> <<>>]

Committed == Len(log) + 1

Init ==
    /\ log = <<>> /\ residue = FALSE /\ trailer = 0 /\ footer = NoFooter
    /\ tracks = EmptyMap /\ nextTrack = 1
    /\ idx = EmptyMap /\ pending = <<>>
    /\ prevCPOff = 0 /\ lastCPEnd = StreamStart
    /\ closed = FALSE

-----------------------------------------------------------------------------
(* appendChunkLocked.  A chunk is longer than a trailer, so a successful   *)
(* append overwrites the trailer; residue may or may not stick out behind. *)

Appended(newLog) ==
    /\ log' = newLog
    /\ trailer' = 0
    /\ residue' \in {residue, FALSE}

AppendFailed ==
    /\ log' = log
    /\ \/ UNCHANGED <<residue, trailer>>           \* nothing was written
       \/ trailer' = 0 /\ residue' = TRUE          \* part of it was

Room == Len(log) < MaxChunks

-----------------------------------------------------------------------------
AddTrack(mode) ==
    /\ ~closed /\ Room /\ Cardinality(DOMAIN tracks) < MaxTracks
    /\ \/ /\ Appended(Append(log, [type |-> "trackinfo", id |-> nextTrack,
                                   kind |-> mode.kind]))
          /\ tracks' = Put(tracks, nextTrack, NewTrack(mode))
          /\ nextTrack' = (nextTrack + 1) % TrackIDSpace
       \/ AppendFailed /\ UNCHANGED <<tracks, nextTrack>>
    /\ UNCHANGED <<footer, idx, pending, prevCPOff, lastCPEnd, closed>>

-----------------------------------------------------------------------------
Eff(fr) == IF fr.hasDTS THEN fr.dts ELSE fr.pts

\* WriteFrame does not return ErrNonMonotonicPTS.
Monotonic(ts, fr) ==
    ts.hasLast =>
        IF ts.reordered
        THEN fr.key /\ ts.hasKey => fr.pts >= ts.lastKeyPTS
        ELSE Eff(fr) >= ts.lastEff

\* trackState.shouldIndexSync, for a keyframe.
ShouldIndexSync(ts) == ts.kind # "audio" \/ ~ts.indexedThisCP

\* Mutant: maxPTS follows the last frame instead of the highest.
CountedLast(ts, fr) ==
    [ts EXCEPT
       !.firstPTS   = IF ts.hasLast THEN @ ELSE fr.pts,
       !.maxPTS     = fr.pts,
       !.hasLast    = TRUE,
       !.lastEff    = Eff(fr),
       !.hasKey     = IF fr.key THEN TRUE ELSE @,
       !.lastKeyPTS = IF fr.key THEN fr.pts ELSE @,
       !.frames     = @ + 1,
       !.indexedThisCP = IF fr.key /\ ts.kind = "audio" THEN TRUE ELSE @]

\* The trackState after the frame is committed.
Counted(ts, fr) ==
    [ts EXCEPT
       !.firstPTS   = IF ts.hasLast THEN @ ELSE fr.pts,
       !.maxPTS     = IF ts.hasLast /\ fr.pts <= @ THEN @ ELSE fr.pts,
       !.hasLast    = TRUE,
       !.lastEff    = Eff(fr),
       !.hasKey     = IF fr.key THEN TRUE ELSE @,
       !.lastKeyPTS = IF fr.key THEN fr.pts ELSE @,
       !.frames     = @ + 1,
       !.indexedThisCP = IF fr.key /\ ts.kind = "audio" THEN TRUE ELSE @]

ResetSampling(trs) == [id \in DOMAIN trs |-> [trs[id] EXCEPT !.indexedThisCP = FALSE]]

CheckpointDue(n) == n - lastCPEnd >= CheckpointChunks

(* maybeCheckpointLocked after the frame: log1, tracks1, pending1 are the  *)
(* log, tracks and pending entries it finds, off the committed size.       *)

CheckpointOf(entries) ==
    [type |-> "checkpoint", prev |-> prevCPOff, entries |-> entries]

NotDue(log1, tracks1, pending1) ==
    /\ ~CheckpointDue(Len(log1) + 1)
    /\ Appended(log1)
    /\ tracks' = tracks1 /\ pending' = pending1
    /\ UNCHANGED <<prevCPOff, lastCPEnd>>

NothingPending(log1, tracks1, pending1) ==
    /\ pending1 = <<>>
    /\ Appended(log1)
    /\ tracks' = ResetSampling(tracks1) /\ pending' = <<>>
    /\ lastCPEnd' = Len(log1) + 1
    /\ UNCHANGED prevCPOff

\* Mutants: pending is not emptied; the chain is not advanced; the audio flags
\* are not reset.
CheckpointUnchained(log1, tracks1, pending1) ==
    /\ pending1 # <<>>
    /\ Appended(Append(log1, CheckpointOf(pending1)))
    /\ tracks' = ResetSampling(tracks1) /\ pending' = <<>>
    /\ prevCPOff' = prevCPOff /\ lastCPEnd' = Len(log1) + 2

CheckpointNoReset(log1, tracks1, pending1) ==
    /\ pending1 # <<>>
    /\ Appended(Append(log1, CheckpointOf(pending1)))
    /\ tracks' = tracks1 /\ pending' = <<>>
    /\ prevCPOff' = Len(log1) + 1 /\ lastCPEnd' = Len(log1) + 2

CheckpointWritten(log1, tracks1, pending1) ==
    /\ pending1 # <<>>
    /\ Appended(Append(log1, CheckpointOf(pending1)))
    /\ tracks' = ResetSampling(tracks1) /\ pending' = <<>>
    /\ prevCPOff' = Len(log1) + 1 /\ lastCPEnd' = Len(log1) + 2

\* Mutant: pending is emptied before the append that may fail.
CheckpointFailedEmpties(log1, tracks1, pending1) ==
    /\ pending1 # <<>>
    /\ log' = log1 /\ trailer' = 0 /\ residue' \in BOOLEAN
    /\ tracks' = tracks1 /\ pending' = <<>>
    /\ UNCHANGED <<prevCPOff, lastCPEnd>>

\* WriteFrame returns an error although its frame is committed.
CheckpointFailed(log1, tracks1, pending1) ==
    /\ pending1 # <<>>
    /\ log' = log1 /\ trailer' = 0 /\ residue' \in BOOLEAN
    /\ tracks' = tracks1 /\ pending' = pending1
    /\ UNCHANGED <<prevCPOff, lastCPEnd>>

\* The time trigger may make a checkpoint due at any call.
MaybeCheckpoint(log1, tracks1, pending1) ==
    \/ NotDue(log1, tracks1, pending1)
    \/ NothingPending(log1, tracks1, pending1)
    \/ CheckpointWritten(log1, tracks1, pending1)
    \/ CheckpointFailed(log1, tracks1, pending1)

Indexed(id, fr) == fr.key /\ ShouldIndexSync(tracks[id])

LogWith(id, fr) ==
    Append(log, [type |-> "data", track |-> id, frame |-> fr])

\* Mutant: the offset is loaded after the append.
PendingWithLate(id, fr) ==
    IF Indexed(id, fr)
    THEN Append(pending, [track |-> id, pts |-> fr.pts, off |-> Committed + 1])
    ELSE pending

PendingWith(id, fr) ==
    IF Indexed(id, fr)
    THEN Append(pending, [track |-> id, pts |-> fr.pts, off |-> Committed])
    ELSE pending

CommitFrame(id, fr) ==
    /\ idx' = IF Indexed(id, fr) THEN IndexAdd(idx, id, fr.pts, Committed) ELSE idx
    /\ MaybeCheckpoint(LogWith(id, fr), [tracks EXCEPT ![id] = Counted(@, fr)],
                       PendingWith(id, fr))

WriteFrame(id, fr) ==
    /\ ~closed /\ Room
    /\ Monotonic(tracks[id], fr)
    /\ \/ CommitFrame(id, fr)
       \/ AppendFailed /\ UNCHANGED <<tracks, idx, pending, prevCPOff, lastCPEnd>>
    /\ UNCHANGED <<footer, nextTrack, closed>>

-----------------------------------------------------------------------------
Close ==
    /\ ~closed
    /\ closed' = TRUE
    /\ UNCHANGED <<disk, tracks, nextTrack, idx, pending, prevCPOff, lastCPEnd>>

\* Mutant: the summary takes the decode timestamp for the last pts.
FooterContentsEff ==
    [kinds   |-> [id \in DOMAIN tracks |-> tracks[id].kind],
     sums    |-> [id \in DOMAIN tracks |->
                    [firstPTS |-> tracks[id].firstPTS, lastPTS |-> tracks[id].lastEff,
                     frames   |-> tracks[id].frames]],
     entries |-> Dump(idx)]

FooterContents ==
    [kinds   |-> [id \in DOMAIN tracks |-> tracks[id].kind],
     sums    |-> [id \in DOMAIN tracks |->
                    [firstPTS |-> tracks[id].firstPTS, lastPTS |-> tracks[id].maxPTS,
                     frames   |-> tracks[id].frames]],
     entries |-> Dump(idx)]

\* The footer is committed; then the trailer is written, then the file synced,
\* then the writer closed, and each of the three may fail and return early.
FooterWritten ==
    /\ log' = Append(log, [type |-> "footer"])
    /\ footer' = FooterContents
    /\ \/ trailer' = 0 /\ residue' \in BOOLEAN /\ closed' = FALSE
       \/ trailer' = Committed /\ residue' \in {residue, FALSE} /\ closed' \in BOOLEAN

Finalize ==
    /\ ~closed /\ Room
    /\ \/ FooterWritten
       \/ AppendFailed /\ UNCHANGED <<footer, closed>>
    /\ UNCHANGED <<tracks, nextTrack, idx, pending, prevCPOff, lastCPEnd>>

Next ==
    \/ \E mode \in TrackModes : AddTrack(mode)
    \/ \E id \in DOMAIN tracks, fr \in Frames : WriteFrame(id, fr)
    \/ Close
    \/ Finalize

Spec == Init /\ [][Next]_vars
-----------------------------------------------------------------------------
(* Open (newReaderFromFile) on the file as a crash now would leave it.     *)

\* loadFooter succeeds: the file ends in a trailer whose footer ends at it.
FooterLoads ==
    /\ ~residue /\ trailer # 0
    /\ trailer = Len(log) /\ log[trailer].type = "footer"

LoadFooter ==
    [tracks |-> footer.kinds,
     idx    |-> IndexAddAll(EmptyMap, footer.entries),
     maxPTS |-> [id \in {x \in DOMAIN footer.sums : footer.sums[x].frames > 0} |->
                    footer.sums[id].lastPTS],
     committed |-> trailer]

OpenScan(n) ==
    LET r == Scan(log, n)
    IN  [tracks |-> r.tracks, idx |-> r.idx, maxPTS |-> r.maxPTS, committed |-> n + 1]

-----------------------------------------------------------------------------
(* Correctness.                                                            *)

StreamTypeOK ==
    /\ log \in Seq(Chunk) /\ trailer \in Nat
    /\ prevCPOff \in Nat /\ lastCPEnd \in Nat

FlagsTypeOK == residue \in BOOLEAN /\ closed \in BOOLEAN

TracksTypeOK ==
    /\ DOMAIN tracks \subseteq TrackIDs
    /\ \A id \in DOMAIN tracks : tracks[id] \in TrackState
    /\ nextTrack \in TrackIDs

IndexTypeOK ==
    /\ DOMAIN idx \subseteq DOMAIN tracks
    /\ \A id \in DOMAIN idx : idx[id] \in Seq(IndexEntry)
    /\ pending \in Seq(CpEntry)

\* Types: committed chunks are well formed, only registered tracks are indexed.
TypeOK == StreamTypeOK /\ FlagsTypeOK /\ TracksTypeOK /\ IndexTypeOK

\* Every sync-point entry, in memory, waiting in pending or in a committed
\* checkpoint, names a committed keyframe of its own track and pts that lies
\* before it (WriteFrame adds the entry at the offset it loaded before the
\* append; a checkpoint is appended after the frames it indexes).
NamesSyncPoint(l, e, id, before) ==
    /\ e.off \in DOMAIN l /\ e.off < before
    /\ SyncPointOf(l[e.off], id) /\ l[e.off].frame.pts = e.pts

MemorySound(ix, l) ==
    \A id \in DOMAIN ix : \A k \in DOMAIN ix[id] :
        NamesSyncPoint(l, ix[id][k], id, Len(l) + 1)

EntriesSound(entries, l, before) ==
    \A k \in DOMAIN entries : NamesSyncPoint(l, entries[k], entries[k].track, before)

CheckpointsSound(l) ==
    \A i \in DOMAIN l : l[i].type = "checkpoint" => EntriesSound(l[i].entries, l, i)

IndexSound ==
    /\ MemorySound(idx, log)
    /\ EntriesSound(pending, log, Committed)
    /\ CheckpointsSound(log)

\* The entries of the chain of checkpoints that ends with the one at prev.
ChainEntries(l, prev) ==
    LET upTo[i \in 0 .. Len(l)] ==
            IF i = 0 \/ l[i].type # "checkpoint" THEN <<>>
            ELSE upTo[l[i].prev] \o l[i].entries
    IN  upTo[prev]

\* No sync point is lost or indexed twice: the entries met when walking back the
\* chain of checkpoints from prevCPOff (checkpoint.go prevOff), followed by
\* pending, make exactly the in-memory index of every track, whatever checkpoint
\* writes failed, were skipped or were retried (writer.go:219-253).
CheckpointsCoverIndex ==
    \A id \in DOMAIN tracks :
        EntriesOf(IndexAddAll(EmptyMap, ChainEntries(log, prevCPOff) \o pending), id)
            = EntriesOf(idx, id)

\* An audio track has at most one entry in each checkpoint, and its flag is set
\* exactly while its entry of the current interval waits in pending
\* (shouldIndexSync; the reset must happen with every interval, not before).
AtMostOneOf(entries, id) ==
    Cardinality({k \in DOMAIN entries : entries[k].track = id}) <= 1

AudioSampling ==
    \A id \in DOMAIN tracks : tracks[id].kind = "audio" =>
        /\ AtMostOneOf(pending, id)
        /\ tracks[id].indexedThisCP <=> \E k \in DOMAIN pending : pending[k].track = id
        /\ \A i \in DOMAIN log :
              log[i].type = "checkpoint" => AtMostOneOf(log[i].entries, id)

\* Wherever a crash cuts the stream, the scan rebuilds the live index of the
\* chunks that survive: the same entries in the same order, except that for
\* audio it may also hold unsampled keyframes after the last checkpoint.
UpTo(entries, n) == Select(entries, [pts : PTS, off : 0 .. n])

RecoveryRebuildsIndex ==
    \A n \in 0 .. Len(log) : \A id \in DOMAIN tracks :
        LET recovered == EntriesOf(OpenScan(n).idx, id)
            live      == UpTo(EntriesOf(idx, id), n)
        IN  IF tracks[id].kind # "audio"
            THEN recovered = live
            ELSE /\ \A k \in DOMAIN live : Contains(recovered, live[k])
                 /\ \A j, k \in DOMAIN recovered :
                       j < k => recovered[j].off < recovered[k].off

\* Tracks and per-track summaries recovered from the chunks alone are the ones
\* the live writer holds ("reflects exactly the frames written so far",
\* reader.go:254; Repair's footer is the one Finalize would have written).
RecoveryRebuildsSummaries ==
    LET r == Scan(log, Len(log))
    IN  /\ r.tracks = FooterContents.kinds
        /\ RecoveredSummaries(r) = FooterContents.sums

\* The footer is only a cache (writer.go:341-343): a file that opens through its
\* footer shows the tracks, last pts, sync points and frames the scan would
\* show, also after a Finalize that failed was followed by more writes.
FooterIsCache ==
    FooterLoads =>
        LET scanned == OpenScan(Len(log))
        IN  /\ LoadFooter.tracks = scanned.tracks
            /\ LoadFooter.maxPTS = scanned.maxPTS
            /\ \A i \in DOMAIN log : IsData(log[i]) => i < LoadFooter.committed
            /\ \A id \in DOMAIN tracks :
                  LET cached == EntriesOf(LoadFooter.idx, id)
                      found  == EntriesOf(scanned.idx, id)
                  IN  IF tracks[id].kind # "audio" THEN cached = found
                      ELSE \A k \in DOMAIN cached : Contains(found, cached[k])

\* index.go:13-15 says of every track: "(pts, offset) entries in ascending pts
\* order", "pts is monotonic per track".
IndexAscending ==
    \A id \in DOMAIN idx : \A j, k \in DOMAIN idx[id] :
        j < k => idx[id][j].pts <= idx[id][k].pts

\* reader.go:379-380: Finalized "reports whether the file was properly closed
\* with a footer and trailer".  A writer closed after its footer and trailer
\* were written and synced is such a file.
FinalizedFileLoadsFooter == closed /\ trailer # 0 => FooterLoads
=============================================================================
