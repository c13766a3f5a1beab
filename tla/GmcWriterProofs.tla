-------------------------- MODULE GmcWriterProofs ---------------------------
(***************************************************************************)
(* Proofs about GmcWriter and GmcQueries: the types of the writer and that *)
(* every entry is sound; that checkpoints, recovery and the footer hold    *)
(* the index and the counters of the tracks; that seeks find the last sync *)
(* point, by pts and by time.  AddTrack gives the id of the first track    *)
(* again when all ids are taken: the theorems about the index are for no   *)
(* more tracks than ids.                                                   *)
(***************************************************************************)
EXTENDS GmcQueries, SelectLemmas, FiniteSetTheorems

-----------------------------------------------------------------------------
(* Lemmas about the index maps.                                            *)

\* The entries of a track are a sequence of entries, empty if it has none.
LEMMA EntriesOfType ==
    ASSUME NEW ix, NEW id, \A x \in DOMAIN ix : ix[x] \in Seq(IndexEntry)
    PROVE  EntriesOf(ix, id) \in Seq(IndexEntry)
BY DEF EntriesOf, Get

\* Adding an entry touches one track and keeps the index well typed.
LEMMA IndexAddType ==
    ASSUME NEW ix, NEW id, NEW pts \in PTS, NEW off \in Nat,
           \A x \in DOMAIN ix : ix[x] \in Seq(IndexEntry)
    PROVE  /\ DOMAIN IndexAdd(ix, id, pts, off) = DOMAIN ix \cup {id}
           /\ \A x \in DOMAIN IndexAdd(ix, id, pts, off) :
                 IndexAdd(ix, id, pts, off)[x] \in Seq(IndexEntry)
<1> DEFINE new == Append(EntriesOf(ix, id), [pts |-> pts, off |-> off])
<1>1. new \in Seq(IndexEntry)
  <2>1. EntriesOf(ix, id) \in Seq(IndexEntry)
    BY EntriesOfType
  <2>2. [pts |-> pts, off |-> off] \in IndexEntry
    BY DEF IndexEntry
  <2> QED
    BY <2>1, <2>2, AppendProperties
<1>2. IndexAdd(ix, id, pts, off) = Put(ix, id, new)
  BY DEF IndexAdd
<1> HIDE DEF new
<1>3. /\ DOMAIN Put(ix, id, new) = DOMAIN ix \cup {id}
      /\ \A x \in DOMAIN Put(ix, id, new) : Put(ix, id, new)[x] \in Seq(IndexEntry)
  BY <1>1 DEF Put
<1> QED
  BY <1>2, <1>3 DEF new

-----------------------------------------------------------------------------
(* Lemmas about growing the log.                                           *)

\* new is old with more chunks behind it.
Extends(new, old) ==
    /\ Len(new) >= Len(old)
    /\ \A i \in 1 .. Len(old) : new[i] = old[i]

\* Appending keeps the chunks before and their offsets.
LEMMA AppendChunk ==
    ASSUME NEW l \in Seq(Chunk), NEW c \in Chunk
    PROVE  /\ Append(l, c) \in Seq(Chunk)
           /\ Len(Append(l, c)) = Len(l) + 1
           /\ Append(l, c)[Len(l) + 1] = c
           /\ Extends(Append(l, c), l)
BY AppendProperties DEF Extends

\* The chunks the writer builds are well typed.
LEMMA ChunksTyped ==
    /\ [type |-> "footer"] \in Chunk
    /\ \A id \in TrackIDs, k \in Kinds :
          [type |-> "trackinfo", id |-> id, kind |-> k] \in Chunk
    /\ \A id \in TrackIDs, fr \in Frame :
          [type |-> "data", track |-> id, frame |-> fr] \in Chunk
    /\ \A p \in Nat, es \in Seq(CpEntry) :
          [type |-> "checkpoint", prev |-> p, entries |-> es] \in Chunk
BY DEF Chunk, FooterChunk, TrackInfoChunk, DataChunk, CheckpointChunk

\* What maybeCheckpointLocked does to the writer's state, however it ends.
LEMMA CheckpointStep ==
    ASSUME NEW log1 \in Seq(Chunk), NEW tracks1, NEW pending1 \in Seq(CpEntry),
           TypeOK, MaybeCheckpoint(log1, tracks1, pending1)
    PROVE  /\ log' \in Seq(Chunk) /\ Extends(log', log1)
           /\ trailer' = 0
           /\ prevCPOff' \in Nat /\ lastCPEnd' \in Nat
           /\ tracks' = tracks1 \/ tracks' = ResetSampling(tracks1)
           /\ \/ log' = log1 /\ pending' = pending1 /\ prevCPOff' = prevCPOff
              \/ log' = log1 /\ pending' = <<>> /\ pending1 = <<>> /\ prevCPOff' = prevCPOff
              \/ /\ log' = Append(log1, CheckpointOf(pending1))
                 /\ pending' = <<>> /\ prevCPOff' = Len(log1) + 1
<1>1. CheckpointOf(pending1) \in Chunk
  BY ChunksTyped DEF TypeOK, StreamTypeOK, CheckpointOf
<1>2. /\ prevCPOff \in Nat /\ lastCPEnd \in Nat /\ Len(log1) \in Nat
  BY DEF TypeOK, StreamTypeOK
<1>3. /\ Append(log1, CheckpointOf(pending1)) \in Seq(Chunk)
      /\ Extends(Append(log1, CheckpointOf(pending1)), log1)
      /\ Extends(log1, log1)
  BY <1>1, AppendChunk DEF Extends
<1>4. CASE NotDue(log1, tracks1, pending1)
  BY <1>2, <1>3, <1>4 DEF NotDue, Appended
<1>5. CASE NothingPending(log1, tracks1, pending1)
  BY <1>2, <1>3, <1>5 DEF NothingPending, Appended
<1>6. CASE CheckpointWritten(log1, tracks1, pending1)
  BY <1>2, <1>3, <1>6 DEF CheckpointWritten, Appended
<1>7. CASE CheckpointFailed(log1, tracks1, pending1)
  BY <1>2, <1>3, <1>7 DEF CheckpointFailed
<1> QED
  BY <1>4, <1>5, <1>6, <1>7 DEF MaybeCheckpoint

\* Counting a frame keeps the trackState well typed.
LEMMA CountedType ==
    ASSUME NEW ts \in TrackState, NEW fr \in Frame
    PROVE  Counted(ts, fr) \in TrackState
<1>1. /\ fr.pts \in PTS /\ Eff(fr) \in Nat /\ fr.key \in BOOLEAN
      /\ ts.frames + 1 \in Nat
  BY DEF Frame, Eff, PTS, TrackState
<1>2. (IF fr.key THEN TRUE ELSE ts.hasKey) \in BOOLEAN
  BY DEF TrackState
<1>3. (IF fr.key /\ ts.kind = "audio" THEN TRUE ELSE ts.indexedThisCP) \in BOOLEAN
  BY DEF TrackState
<1>4. (IF ts.hasLast THEN ts.firstPTS ELSE fr.pts) \in PTS
  BY <1>1 DEF TrackState
<1>5. (IF ts.hasLast /\ fr.pts <= ts.maxPTS THEN ts.maxPTS ELSE fr.pts) \in PTS
  BY <1>1 DEF TrackState
<1>6. (IF fr.key THEN fr.pts ELSE ts.lastKeyPTS) \in PTS
  BY <1>1 DEF TrackState
<1> QED
  BY <1>1, <1>2, <1>3, <1>4, <1>5, <1>6, ZenonT(40) DEF Counted, TrackState

\* So does the reset of the audio sampling flags.
LEMMA ResetSamplingType ==
    ASSUME NEW trs, \A id \in DOMAIN trs : trs[id] \in TrackState
    PROVE  /\ DOMAIN ResetSampling(trs) = DOMAIN trs
           /\ \A id \in DOMAIN trs : ResetSampling(trs)[id] \in TrackState
BY DEF ResetSampling, TrackState

\* What a WriteFrame that commits its frame hands to maybeCheckpointLocked.
LEMMA FrameWritten ==
    ASSUME TypeOK, NEW id \in DOMAIN tracks, NEW fr \in Frames
    PROVE  /\ LogWith(id, fr) \in Seq(Chunk)
           /\ Len(LogWith(id, fr)) = Committed
           /\ Extends(LogWith(id, fr), log)
           /\ LogWith(id, fr)[Committed] = [type |-> "data", track |-> id, frame |-> fr]
           /\ PendingWith(id, fr) \in Seq(CpEntry)
           /\ Committed \in Nat \ {0}
<1>1. fr \in Frame /\ id \in TrackIDs /\ log \in Seq(Chunk) /\ pending \in Seq(CpEntry)
  BY WriterAssumption DEF TypeOK, StreamTypeOK, TracksTypeOK, IndexTypeOK
<1>2. [type |-> "data", track |-> id, frame |-> fr] \in Chunk
  BY <1>1, ChunksTyped
<1>3. Committed \in Nat \ {0} /\ Committed = Len(log) + 1
  BY <1>1 DEF Committed
<1>4. [track |-> id, pts |-> fr.pts, off |-> Committed] \in CpEntry
  BY <1>1, <1>3 DEF CpEntry, Frame
<1>5. PendingWith(id, fr) \in Seq(CpEntry)
  BY <1>1, <1>4, AppendProperties DEF PendingWith
<1> QED
  BY <1>1, <1>2, <1>3, <1>5, AppendChunk DEF LogWith

-----------------------------------------------------------------------------
(* The type invariant.                                                     *)

\* A failed append changes nothing but what follows the log.
LEMMA FailedAppendType ==
    ASSUME TypeOK, AppendFailed
    PROVE  log' = log /\ trailer' \in Nat /\ residue' \in BOOLEAN
<1>1. trailer \in Nat /\ residue \in BOOLEAN
  BY DEF TypeOK, StreamTypeOK, FlagsTypeOK
<1>2. log' = log /\ (trailer' = 0 \/ trailer' = trailer)
  BY Zenon DEF AppendFailed
<1>3. residue' = TRUE \/ residue' = residue
  BY Zenon DEF AppendFailed
<1>4. residue' \in BOOLEAN
  BY <1>1, <1>3, Zenon
<1>5. trailer' \in Nat
  BY <1>1, <1>2
<1> QED
  BY <1>2, <1>4, <1>5

\* AddTrack preserves the types.
LEMMA AddTrackType ==
    ASSUME TypeOK, NEW mode \in TrackModes, AddTrack(mode)
    PROVE  TypeOK'
<1> DEFINE chunk == [type |-> "trackinfo", id |-> nextTrack, kind |-> mode.kind]
<1>1. mode \in [kind : Kinds, reordered : BOOLEAN] /\ nextTrack \in TrackIDs
  BY WriterAssumption DEF TypeOK, TracksTypeOK
<1>2. chunk \in Chunk
  BY <1>1, ChunksTyped
<1> HIDE DEF chunk
<1>3. CASE AppendFailed /\ UNCHANGED <<tracks, nextTrack>>
  BY <1>3, FailedAppendType
     DEF AddTrack, TypeOK, StreamTypeOK, FlagsTypeOK, TracksTypeOK, IndexTypeOK
<1>4. CASE /\ Appended(Append(log, chunk))
           /\ tracks' = Put(tracks, nextTrack, NewTrack(mode))
           /\ nextTrack' = (nextTrack + 1) % TrackIDSpace
  <2>1. StreamTypeOK'
    BY <1>2, <1>4, AppendChunk DEF AddTrack, Appended, TypeOK, StreamTypeOK
  <2>2. FlagsTypeOK'
    BY <1>4 DEF AddTrack, Appended, TypeOK, FlagsTypeOK
  <2>3. NewTrack(mode) \in TrackState
    BY <1>1 DEF NewTrack, TrackState, PTS
  <2>4. TracksTypeOK'
    <3>1. DOMAIN tracks' = DOMAIN tracks \cup {nextTrack}
      BY <1>4 DEF Put
    <3>2. \A id \in DOMAIN tracks' : tracks'[id] \in TrackState
      BY <1>4, <2>3 DEF Put, TypeOK, TracksTypeOK
    <3>3. nextTrack' \in TrackIDs
      BY <1>1, <1>4, TrackIDSpaceAssumption DEF TrackIDs
    <3> QED
      BY <1>1, <3>1, <3>2, <3>3 DEF TypeOK, TracksTypeOK
  <2>5. IndexTypeOK'
    BY <1>4 DEF AddTrack, Put, TypeOK, IndexTypeOK
  <2> QED
    BY <2>1, <2>2, <2>4, <2>5 DEF TypeOK
<1> QED
  BY <1>3, <1>4 DEF AddTrack, chunk

\* WriteFrame preserves the types.
LEMMA WriteFrameType ==
    ASSUME TypeOK, NEW id \in DOMAIN tracks, NEW fr \in Frames, WriteFrame(id, fr)
    PROVE  TypeOK'
<1> DEFINE tracks1 == [tracks EXCEPT ![id] = Counted(@, fr)]
<1>1. CASE AppendFailed /\ UNCHANGED <<tracks, idx, pending, prevCPOff, lastCPEnd>>
  BY <1>1, FailedAppendType
     DEF WriteFrame, TypeOK, StreamTypeOK, FlagsTypeOK, TracksTypeOK, IndexTypeOK
<1>2. CASE CommitFrame(id, fr)
  <2>1. MaybeCheckpoint(LogWith(id, fr), tracks1, PendingWith(id, fr))
    BY <1>2 DEF CommitFrame
  <2>2. /\ log' \in Seq(Chunk) /\ trailer' = 0
        /\ prevCPOff' \in Nat /\ lastCPEnd' \in Nat
        /\ tracks' = tracks1 \/ tracks' = ResetSampling(tracks1)
        /\ pending' = PendingWith(id, fr) \/ pending' = <<>>
    BY <2>1, FrameWritten, CheckpointStep
  <2>3. StreamTypeOK'
    BY <2>2 DEF StreamTypeOK
  <2>4. FlagsTypeOK'
    BY <2>1, Zenon DEF MaybeCheckpoint, NotDue, NothingPending, CheckpointWritten,
       CheckpointFailed, Appended, WriteFrame, TypeOK, FlagsTypeOK
  <2>5. \A x \in DOMAIN tracks1 : tracks1[x] \in TrackState
    BY CountedType, WriterAssumption DEF TypeOK, TracksTypeOK
  <2>6. TracksTypeOK'
    BY <2>2, <2>5, ResetSamplingType DEF WriteFrame, TypeOK, TracksTypeOK
  <2>7. IndexTypeOK'
    <3>1. DOMAIN tracks' = DOMAIN tracks
      BY <2>2, <2>5, ResetSamplingType
    <3>2. fr.pts \in PTS
      BY WriterAssumption DEF Frame
    <3>3. /\ DOMAIN idx' \subseteq DOMAIN tracks
          /\ \A x \in DOMAIN idx' : idx'[x] \in Seq(IndexEntry)
      <4>1. Committed \in Nat
        BY FrameWritten
      <4>2. idx' = idx \/ idx' = IndexAdd(idx, id, fr.pts, Committed)
        BY <1>2 DEF CommitFrame
      <4>3. /\ DOMAIN idx \subseteq DOMAIN tracks
            /\ \A x \in DOMAIN idx : idx[x] \in Seq(IndexEntry)
        BY DEF TypeOK, IndexTypeOK
      <4> DEFINE new == IndexAdd(idx, id, fr.pts, Committed)
      <4>4. /\ DOMAIN new = DOMAIN idx \cup {id}
            /\ \A x \in DOMAIN new : new[x] \in Seq(IndexEntry)
        BY <3>2, <4>1, <4>3, IndexAddType
      <4> HIDE DEF new
      <4> QED
        BY <4>2, <4>3, <4>4 DEF new
    <3>4. pending' \in Seq(CpEntry)
      <4>1. PendingWith(id, fr) \in Seq(CpEntry)
        BY FrameWritten
      <4> QED
        BY <2>2, <4>1, EmptySeq
    <3> QED
      BY <3>1, <3>3, <3>4 DEF IndexTypeOK
  <2> QED
    BY <2>3, <2>4, <2>6, <2>7 DEF TypeOK
<1> QED
  BY <1>1, <1>2 DEF WriteFrame

\* Finalize preserves the types.
LEMMA FinalizeType ==
    ASSUME TypeOK, Finalize
    PROVE  TypeOK'
<1>1. CASE AppendFailed /\ UNCHANGED <<footer, closed>>
  BY <1>1, FailedAppendType
     DEF Finalize, TypeOK, StreamTypeOK, FlagsTypeOK, TracksTypeOK, IndexTypeOK
<1>2. CASE FooterWritten
  <2>1. Committed \in Nat
    BY DEF Committed, TypeOK, StreamTypeOK
  <2>2. log' \in Seq(Chunk)
    BY <1>2, ChunksTyped, AppendChunk DEF FooterWritten, TypeOK, StreamTypeOK
  <2>3. trailer' \in Nat
    <3>1. trailer' = 0 \/ trailer' = Committed
      BY <1>2, Zenon DEF FooterWritten
    <3> QED
      BY <2>1, <3>1
  <2>4. StreamTypeOK'
    BY <2>2, <2>3 DEF Finalize, TypeOK, StreamTypeOK
  <2>5. FlagsTypeOK'
    BY <1>2, Zenon DEF FooterWritten, TypeOK, FlagsTypeOK
  <2>6. TracksTypeOK' /\ IndexTypeOK'
    BY DEF Finalize, TypeOK, TracksTypeOK, IndexTypeOK
  <2> QED
    BY <2>4, <2>5, <2>6 DEF TypeOK
<1> QED
  BY <1>1, <1>2 DEF Finalize

\* Every reachable state of the writer is well typed, whatever the constants.
THEOREM TypeCorrect == Spec => []TypeOK
<1>1. Init => TypeOK
  <2> SUFFICES ASSUME Init PROVE TypeOK
    OBVIOUS
  <2>1. StreamTypeOK
    BY DEF Init, StreamTypeOK, StreamStart
  <2>2. FlagsTypeOK
    BY DEF Init, FlagsTypeOK
  <2>3. TracksTypeOK
    BY TrackIDSpaceAssumption DEF Init, TracksTypeOK, EmptyMap, TrackIDs
  <2>4. IndexTypeOK
    BY DEF Init, IndexTypeOK, EmptyMap
  <2> QED
    BY <2>1, <2>2, <2>3, <2>4 DEF TypeOK
<1>2. TypeOK /\ [Next]_vars => TypeOK'
  <2> SUFFICES ASSUME TypeOK, [Next]_vars PROVE TypeOK'
    OBVIOUS
  <2>1. ASSUME NEW mode \in TrackModes, AddTrack(mode) PROVE TypeOK'
    BY <2>1, AddTrackType
  <2>2. ASSUME NEW id \in DOMAIN tracks, NEW fr \in Frames, WriteFrame(id, fr)
        PROVE TypeOK'
    BY <2>2, WriteFrameType
  <2>3. CASE Close
    BY <2>3 DEF Close, disk, TypeOK, StreamTypeOK, FlagsTypeOK, TracksTypeOK, IndexTypeOK
  <2>4. CASE Finalize
    BY <2>4, FinalizeType
  <2>5. CASE UNCHANGED vars
    BY <2>5 DEF vars, TypeOK, StreamTypeOK, FlagsTypeOK, TracksTypeOK, IndexTypeOK
  <2> QED
    BY <2>1, <2>2, <2>3, <2>4, <2>5 DEF Next
<1> QED
  BY <1>1, <1>2, PTL DEF Spec

-----------------------------------------------------------------------------
(* IndexSound.                                                             *)

\* An entry that names a sync point names it in every longer log.
LEMMA NamesGrow ==
    ASSUME NEW old \in Seq(Chunk), NEW new \in Seq(Chunk), Extends(new, old),
           NEW e, NEW id, NEW b \in Int, NEW c \in Int, b <= c,
           NamesSyncPoint(old, e, id, b)
    PROVE  NamesSyncPoint(new, e, id, c)
<1>1. e.off \in 1 .. Len(old) /\ e.off < b
  BY DEF NamesSyncPoint
<1>2. new[e.off] = old[e.off] /\ e.off \in DOMAIN new
  BY <1>1 DEF Extends
<1>3. e.off < c
  BY <1>1
<1> QED
  BY <1>2, <1>3 DEF NamesSyncPoint

\* Hence so do all entries of a sequence, ...
LEMMA EntriesGrow ==
    ASSUME NEW old \in Seq(Chunk), NEW new \in Seq(Chunk), Extends(new, old),
           NEW entries, NEW b \in Int, NEW c \in Int, b <= c,
           EntriesSound(entries, old, b)
    PROVE  EntriesSound(entries, new, c)
BY NamesGrow DEF EntriesSound

\* ... and all entries of the in-memory index.
LEMMA MemoryGrow ==
    ASSUME NEW old \in Seq(Chunk), NEW new \in Seq(Chunk), Extends(new, old),
           NEW ix, MemorySound(ix, old)
    PROVE  MemorySound(ix, new)
<1>1. Len(old) + 1 \in Int /\ Len(new) + 1 \in Int /\ Len(old) + 1 <= Len(new) + 1
  BY DEF Extends
<1> QED
  BY <1>1, NamesGrow DEF MemorySound

\* Appending a chunk keeps the checkpoints sound if the chunk itself is.
LEMMA CheckpointsGrow ==
    ASSUME NEW l \in Seq(Chunk), NEW c \in Chunk, CheckpointsSound(l),
           c.type = "checkpoint" => EntriesSound(c.entries, l, Len(l) + 1)
    PROVE  CheckpointsSound(Append(l, c))
<1> DEFINE new == Append(l, c)
<1>1. /\ new \in Seq(Chunk) /\ Len(new) = Len(l) + 1 /\ new[Len(l) + 1] = c
      /\ Extends(new, l) /\ Len(l) \in Nat
  BY AppendChunk
<1> HIDE DEF new
<1> SUFFICES ASSUME NEW i \in DOMAIN new, new[i].type = "checkpoint"
             PROVE  EntriesSound(new[i].entries, new, i)
  BY DEF CheckpointsSound, new
<1>2. CASE i \in 1 .. Len(l)
  <2>1. new[i] = l[i] /\ i \in DOMAIN l /\ i \in Int
    BY <1>1, <1>2 DEF Extends
  <2>2. EntriesSound(l[i].entries, l, i)
    BY <2>1 DEF CheckpointsSound
  <2> QED
    BY <1>1, <2>1, <2>2, EntriesGrow
<1>3. CASE i = Len(l) + 1
  <2>1. EntriesSound(c.entries, l, i)
    BY <1>1, <1>3
  <2> QED
    BY <1>1, <1>3, <2>1, EntriesGrow
<1> QED
  BY <1>1, <1>2, <1>3

\* After a committed WriteFrame, index and pending are sound in the new log.
LEMMA FrameSound ==
    ASSUME TypeOK, IndexSound, NEW id \in DOMAIN tracks, NEW fr \in Frames,
           WriteFrame(id, fr), CommitFrame(id, fr)
    PROVE  /\ MemorySound(idx', LogWith(id, fr))
           /\ EntriesSound(PendingWith(id, fr), LogWith(id, fr), Committed + 1)
           /\ CheckpointsSound(LogWith(id, fr))
<1> DEFINE l1    == LogWith(id, fr)
           chunk == [type |-> "data", track |-> id, frame |-> fr]
           entry == [track |-> id, pts |-> fr.pts, off |-> Committed]
<1>1. /\ l1 \in Seq(Chunk) /\ Len(l1) = Committed /\ Extends(l1, log)
      /\ l1[Committed] = chunk /\ Committed \in Nat \ {0} /\ log \in Seq(Chunk)
      /\ Committed = Len(log) + 1
  BY FrameWritten DEF Committed, TypeOK, StreamTypeOK
<1>2. chunk \in Chunk /\ chunk.type # "checkpoint" /\ l1 = Append(log, chunk)
      /\ fr \in Frame /\ id \in TrackIDs
  BY ChunksTyped, WriterAssumption DEF LogWith, TypeOK, TracksTypeOK
<1>3. CheckpointsSound(l1)
  BY <1>1, <1>2, CheckpointsGrow DEF IndexSound
<1>4. Indexed(id, fr) => fr.key
  BY DEF Indexed
<1>5. ASSUME fr.key, NEW e, e.off = Committed, e.pts = fr.pts
      PROVE  NamesSyncPoint(l1, e, id, Committed + 1)
  <2>1. SyncPointOf(l1[Committed], id) /\ l1[Committed].frame.pts = fr.pts
    BY <1>1, <1>5 DEF SyncPointOf, DataOf
  <2>2. Committed \in DOMAIN l1 /\ Committed < Committed + 1
    BY <1>1
  <2> HIDE DEF l1
  <2> QED
    BY <1>5, <2>1, <2>2 DEF NamesSyncPoint
<1> HIDE DEF l1
<1>6. EntriesSound(pending, l1, Committed + 1)
  BY <1>1, EntriesGrow DEF IndexSound
<1>7. EntriesSound(PendingWith(id, fr), l1, Committed + 1)
  <2>1. CASE Indexed(id, fr)
    <3>1. /\ PendingWith(id, fr) = Append(pending, entry) /\ entry \in CpEntry
          /\ pending \in Seq(CpEntry)
      BY <1>1, <1>2, <2>1 DEF PendingWith, CpEntry, Frame, TypeOK, IndexTypeOK
    <3>2. NamesSyncPoint(l1, entry, entry.track, Committed + 1)
      BY <1>4, <1>5, <2>1
    <3> HIDE DEF entry
    <3> QED
      BY <1>6, <3>1, <3>2, AppendProperties DEF EntriesSound
  <2>2. CASE ~Indexed(id, fr)
    BY <1>6, <2>2 DEF PendingWith
  <2> QED
    BY <2>1, <2>2
<1>8. MemorySound(idx, l1)
  BY <1>1, MemoryGrow DEF IndexSound
<1>9. MemorySound(idx', l1)
  <2>1. CASE Indexed(id, fr)
    <3> DEFINE e   == [pts |-> fr.pts, off |-> Committed]
               ix2 == IndexAdd(idx, id, fr.pts, Committed)
               old == EntriesOf(idx, id)
    <3>1. idx' = ix2
      BY <2>1 DEF CommitFrame
    <3>2. /\ DOMAIN ix2 = DOMAIN idx \cup {id}
          /\ ix2[id] = Append(old, e)
          /\ \A x \in DOMAIN idx \ {id} : ix2[x] = idx[x]
      <4> DEFINE new == Append(old, e)
      <4>1. ix2 = Put(idx, id, new)
        BY DEF IndexAdd
      <4> HIDE DEF new, ix2
      <4>2. /\ DOMAIN ix2 = DOMAIN idx \cup {id} /\ ix2[id] = new
            /\ \A x \in DOMAIN idx \ {id} : ix2[x] = idx[x]
        BY <4>1 DEF Put
      <4> QED
        BY <4>2 DEF new
    <3>3. NamesSyncPoint(l1, e, id, Committed + 1)
      BY <1>4, <1>5, <2>1
    <3>4. old \in Seq(IndexEntry) /\ e \in IndexEntry
      BY <1>1, <1>2, EntriesOfType DEF TypeOK, IndexTypeOK, IndexEntry, Frame
    <3>5. \A k \in DOMAIN old : NamesSyncPoint(l1, old[k], id, Committed + 1)
      BY <1>1, <1>8 DEF MemorySound, EntriesOf, Get
    <3> HIDE DEF e, ix2, old
    <3>6. \A k \in DOMAIN ix2[id] : NamesSyncPoint(l1, ix2[id][k], id, Committed + 1)
      BY <3>2, <3>3, <3>4, <3>5, AppendProperties
    <3> QED
      BY <1>1, <1>8, <3>1, <3>2, <3>6 DEF MemorySound
  <2>2. CASE ~Indexed(id, fr)
    BY <1>8, <2>2 DEF CommitFrame
  <2> QED
    BY <2>1, <2>2
<1> QED
  BY <1>3, <1>7, <1>9 DEF l1

\* Every step preserves the soundness of the index.
LEMMA IndexSoundStep ==
    ASSUME TypeOK, TypeOK', IndexSound, [Next]_vars
    PROVE  IndexSound'
<1>1. ASSUME Extends(log', log), idx' = idx, pending' = pending, CheckpointsSound(log')
      PROVE  IndexSound'
  <2>1. /\ log \in Seq(Chunk) /\ log' \in Seq(Chunk)
        /\ Committed \in Int /\ Committed' \in Int /\ Committed <= Committed'
    BY <1>1 DEF TypeOK, StreamTypeOK, Committed, Extends
  <2>2. MemorySound(idx, log')
    BY <1>1, <2>1, MemoryGrow DEF IndexSound
  <2>3. EntriesSound(pending, log', Committed')
    BY <1>1, <2>1, EntriesGrow DEF IndexSound
  <2> QED
    BY <1>1, <2>2, <2>3 DEF IndexSound
<1>2. ASSUME UNCHANGED <<log, idx, pending>> PROVE IndexSound'
  BY <1>2 DEF IndexSound, Committed
<1>3. ASSUME NEW c \in Chunk, c.type # "checkpoint", log' = Append(log, c),
             UNCHANGED <<idx, pending>>
      PROVE  IndexSound'
  <2>1. Extends(log', log)
    BY <1>3, AppendChunk DEF TypeOK, StreamTypeOK
  <2>2. CheckpointsSound(log')
    BY <1>3, CheckpointsGrow DEF IndexSound, TypeOK, StreamTypeOK
  <2> QED
    BY <1>1, <1>3, <2>1, <2>2
<1>4. ASSUME NEW mode \in TrackModes, AddTrack(mode) PROVE IndexSound'
  <2> DEFINE chunk == [type |-> "trackinfo", id |-> nextTrack, kind |-> mode.kind]
  <2>1. chunk \in Chunk /\ chunk.type # "checkpoint"
    BY ChunksTyped, WriterAssumption DEF TypeOK, TracksTypeOK
  <2>2. log' = Append(log, chunk) \/ log' = log
    BY <1>4 DEF AddTrack, Appended, AppendFailed
  <2>3. UNCHANGED <<idx, pending>>
    BY <1>4 DEF AddTrack
  <2> QED
    BY <1>2, <1>3, <2>1, <2>2, <2>3
<1>5. ASSUME NEW id \in DOMAIN tracks, NEW fr \in Frames, WriteFrame(id, fr)
      PROVE  IndexSound'
  <2>1. CASE AppendFailed /\ UNCHANGED <<tracks, idx, pending, prevCPOff, lastCPEnd>>
    BY <1>2, <2>1 DEF AppendFailed
  <2>2. CASE CommitFrame(id, fr)
    <3> DEFINE l1 == LogWith(id, fr)
               p1 == PendingWith(id, fr)
    <3>1. /\ MemorySound(idx', l1) /\ EntriesSound(p1, l1, Committed + 1)
          /\ CheckpointsSound(l1)
      BY <1>5, <2>2, FrameSound
    <3>2. /\ l1 \in Seq(Chunk) /\ Len(l1) = Committed /\ p1 \in Seq(CpEntry)
      BY FrameWritten
    <3>3. MaybeCheckpoint(l1, [tracks EXCEPT ![id] = Counted(@, fr)], p1)
      BY <2>2 DEF CommitFrame
    <3>4. /\ log' \in Seq(Chunk) /\ Extends(log', l1)
          /\ \/ log' = l1 /\ pending' = p1
             \/ log' = l1 /\ pending' = <<>>
             \/ log' = Append(l1, CheckpointOf(p1)) /\ pending' = <<>>
      BY <3>2, <3>3, CheckpointStep
    <3>5. CheckpointOf(p1) \in Chunk /\ CheckpointOf(p1).entries = p1
      BY <3>2, ChunksTyped DEF CheckpointOf, TypeOK, StreamTypeOK
    <3> HIDE DEF l1, p1
    <3>6. CheckpointsSound(Append(l1, CheckpointOf(p1)))
      BY <3>1, <3>2, <3>5, CheckpointsGrow
    <3>7. MemorySound(idx', log') /\ CheckpointsSound(log')
      BY <3>1, <3>2, <3>4, <3>6, MemoryGrow
    <3>8. EntriesSound(pending', log', Committed')
      <4>1. CASE log' = l1 /\ pending' = p1
        BY <3>1, <3>2, <4>1 DEF Committed
      <4>2. CASE pending' = <<>>
        BY <4>2 DEF EntriesSound
      <4> QED
        BY <3>4, <4>1, <4>2
    <3> QED
      BY <3>7, <3>8 DEF IndexSound
  <2> QED
    BY <1>5, <2>1, <2>2 DEF WriteFrame
<1>6. CASE Close
  BY <1>2, <1>6 DEF Close, disk
<1>7. CASE Finalize
  <2>1. [type |-> "footer"] \in Chunk
    BY ChunksTyped
  <2>2. log' = Append(log, [type |-> "footer"]) \/ log' = log
    BY <1>7 DEF Finalize, FooterWritten, AppendFailed
  <2>3. UNCHANGED <<idx, pending>>
    BY <1>7 DEF Finalize
  <2> QED
    BY <1>2, <1>3, <2>1, <2>2, <2>3
<1>8. CASE UNCHANGED vars
  BY <1>2, <1>8 DEF vars
<1> QED
  BY <1>4, <1>5, <1>6, <1>7, <1>8 DEF Next

\* Every index entry (in memory, pending, or in a checkpoint on disk) names a
\* committed keyframe of its track and pts, for any number of tracks, frames
\* and failures.
THEOREM IndexIsSound == Spec => []IndexSound
<1>1. Init => IndexSound
  BY DEF Init, IndexSound, MemorySound, EntriesSound, CheckpointsSound, EmptyMap
<1>2. TypeOK /\ TypeOK' /\ IndexSound /\ [Next]_vars => IndexSound'
  BY IndexSoundStep
<1> QED
  BY <1>1, <1>2, TypeCorrect, PTL DEF Spec

-----------------------------------------------------------------------------
(* Adding entries to an index.                                             *)

EntryOf(e) == [pts |-> e.pts, off |-> e.off]

\* Adding one entry touches the entries of its track only.
LEMMA EntriesOfAdd ==
    ASSUME NEW ix, NEW id, NEW pts, NEW off, NEW x
    PROVE  EntriesOf(IndexAdd(ix, id, pts, off), x) =
               IF x = id THEN Append(EntriesOf(ix, id), [pts |-> pts, off |-> off])
               ELSE EntriesOf(ix, x)
<1> DEFINE new == Append(EntriesOf(ix, id), [pts |-> pts, off |-> off])
<1>1. IndexAdd(ix, id, pts, off) = Put(ix, id, new)
  BY DEF IndexAdd
<1> HIDE DEF new
<1>2. EntriesOf(Put(ix, id, new), x) = IF x = id THEN new ELSE EntriesOf(ix, x)
  BY DEF EntriesOf, Get, Put
<1> QED BY <1>1, <1>2 DEF new

\* f follows the recursion of IndexAddAll over es.
Adds(f, ix, es) ==
    /\ f[0] = ix
    /\ \A k \in 1 .. Len(es) : f[k] = IndexAdd(f[k - 1], es[k].track, es[k].pts, es[k].off)

\* IndexAddAll is such a recursion.
LEMMA IndexAddAllRecursion ==
    ASSUME NEW ix, NEW es, Len(es) \in Nat
    PROVE  \E f : Adds(f, ix, es) /\ IndexAddAll(ix, es) = f[Len(es)]
<1> DEFINE Step(m, k) == IndexAdd(m, es[k].track, es[k].pts, es[k].off)
           Body(f, m) == [k \in 0 .. m |-> IF k = 0 THEN ix ELSE Step(f[k - 1], k)]
           Solvable == {m \in Nat : \E f : f = Body(f, m)}
<1> HIDE DEF Step
<1>1. 0 \in Solvable
  <2> DEFINE f == [k \in 0 .. 0 |-> ix]
  <2>1. f = Body(f, 0)
    OBVIOUS
  <2>2. \E h : h = Body(h, 0)
    <3> HIDE DEF f, Body
    <3> QED BY <2>1
  <2> QED BY <2>2
<1>2. ASSUME NEW m \in Nat, m \in Solvable PROVE m + 1 \in Solvable
  <2>1. PICK f : f = Body(f, m)
    BY <1>2
  <2> DEFINE last == Step(f[m], m + 1)
             g == [k \in 0 .. m + 1 |-> IF k = m + 1 THEN last ELSE f[k]]
  <2>2. \A k \in 0 .. m + 1 : g[k] = Body(g, m + 1)[k]
    <3> SUFFICES ASSUME NEW k \in 0 .. m + 1 PROVE g[k] = Body(g, m + 1)[k]
      OBVIOUS
    <3>1. CASE k = m + 1
      <4>1. g[k - 1] = f[m] /\ g[k] = last
        BY <3>1
      <4> QED BY <3>1, <4>1
    <3>2. CASE k # m + 1
      <4>1. k \in 0 .. m /\ g[k] = f[k] /\ (k # 0 => g[k - 1] = f[k - 1])
        BY <3>2
      <4>2. f[k] = IF k = 0 THEN ix ELSE Step(f[k - 1], k)
        BY <2>1, <4>1
      <4> QED BY <4>1, <4>2
    <3> QED BY <3>1, <3>2
  <2>3. g = Body(g, m + 1)
    BY <2>2
  <2>4. \E h : h = Body(h, m + 1)
    <3> HIDE DEF g, Body
    <3> QED BY <2>3
  <2> QED BY <2>4
<1>3. Len(es) \in Solvable
  <2> HIDE DEF Solvable
  <2> QED BY <1>1, <1>2, NatSetInduction
<1> DEFINE added == CHOOSE f : f = Body(f, Len(es))
<1>4. added = Body(added, Len(es))
  <2>1. \E f : f = Body(f, Len(es))
    BY <1>3
  <2> HIDE DEF Body
  <2> QED BY <2>1
<1>5. IndexAddAll(ix, es) = added[Len(es)]
  BY DEF IndexAddAll, Step
<1> HIDE DEF added
<1>6. Adds(added, ix, es)
  <2>1. added[0] = ix
    BY <1>4
  <2>2. \A k \in 1 .. Len(es) : added[k] = Step(added[k - 1], k)
    <3> SUFFICES ASSUME NEW k \in 1 .. Len(es) PROVE added[k] = Step(added[k - 1], k)
      OBVIOUS
    <3>1. k \in 0 .. Len(es) /\ k # 0
      OBVIOUS
    <3> QED BY <1>4, <3>1
  <2> QED BY <2>1, <2>2 DEF Adds, Step
<1> QED BY <1>5, <1>6

\* No entries, and one entry more.
LEMMA IndexAddAllEmpty == ASSUME NEW ix PROVE IndexAddAll(ix, <<>>) = ix
<1>1. Len(<<>>) = 0
  OBVIOUS
<1>2. PICK f : Adds(f, ix, <<>>) /\ IndexAddAll(ix, <<>>) = f[Len(<<>>)]
  BY <1>1, IndexAddAllRecursion
<1> QED BY <1>1, <1>2 DEF Adds

\* The last entry is added last.
LEMMA IndexAddAllAppend ==
    ASSUME NEW ix, NEW S, NEW es \in Seq(S), NEW e \in S
    PROVE  IndexAddAll(ix, Append(es, e)) = IndexAdd(IndexAddAll(ix, es), e.track, e.pts, e.off)
<1> DEFINE fs == Append(es, e)
           n == Len(es)
<1>1. /\ n \in Nat /\ Len(fs) = n + 1 /\ fs[n + 1] = e /\ \A k \in 1 .. n : fs[k] = es[k]
  BY LenProperties, AppendProperties
<1> HIDE DEF fs
<1>2. PICK f : Adds(f, ix, es) /\ IndexAddAll(ix, es) = f[n]
  BY <1>1, IndexAddAllRecursion
<1>3. PICK g : Adds(g, ix, fs) /\ IndexAddAll(ix, fs) = g[n + 1]
  BY <1>1, IndexAddAllRecursion
<1> DEFINE Same == {k \in Nat : k <= n => f[k] = g[k]}
<1>4. 0 \in Same
  BY <1>2, <1>3 DEF Adds
<1>5. ASSUME NEW k \in Nat, k \in Same PROVE k + 1 \in Same
  <2> SUFFICES ASSUME k + 1 <= n PROVE f[k + 1] = g[k + 1]
    OBVIOUS
  <2>1. k + 1 \in 1 .. n /\ k + 1 \in 1 .. n + 1 /\ (k + 1) - 1 = k /\ f[k] = g[k]
    BY <1>1, <1>5
  <2>2. f[k + 1] = IndexAdd(f[k], es[k + 1].track, es[k + 1].pts, es[k + 1].off)
    BY <1>2, <2>1 DEF Adds
  <2>3. g[k + 1] = IndexAdd(g[k], fs[k + 1].track, fs[k + 1].pts, fs[k + 1].off)
    BY <1>1, <1>3, <2>1 DEF Adds
  <2> QED BY <1>1, <2>1, <2>2, <2>3
<1>6. n \in Same
  <2> HIDE DEF Same
  <2> QED BY <1>1, <1>4, <1>5, NatSetInduction
<1>7. g[n + 1] = IndexAdd(g[n], fs[n + 1].track, fs[n + 1].pts, fs[n + 1].off)
  <2>1. n + 1 \in 1 .. n + 1 /\ (n + 1) - 1 = n
    BY <1>1
  <2> QED BY <1>1, <1>3, <2>1 DEF Adds
<1> QED BY <1>1, <1>2, <1>3, <1>6, <1>7 DEF fs

\* An empty index has no entries.
LEMMA EntriesOfEmpty == ASSUME NEW x PROVE EntriesOf(EmptyMap, x) = <<>>
BY DEF EntriesOf, Get, EmptyMap

\* The entries that a sequence of checkpoint entries has for a track.
Own(es, id) == EntriesOf(IndexAddAll(EmptyMap, es), id)

\* No entries, none of x.
LEMMA OwnEmpty == ASSUME NEW x PROVE Own(<<>>, x) = <<>>
BY IndexAddAllEmpty, EntriesOfEmpty DEF Own

\* What adding one entry more does to the entries of x.
LEMMA EntriesOfAddAll ==
    ASSUME NEW ix, NEW es \in Seq(CpEntry), NEW e \in CpEntry, NEW x
    PROVE  EntriesOf(IndexAddAll(ix, Append(es, e)), x) =
               IF e.track = x THEN Append(EntriesOf(IndexAddAll(ix, es), x), EntryOf(e))
               ELSE EntriesOf(IndexAddAll(ix, es), x)
<1> DEFINE old == IndexAddAll(ix, es)
<1>1. IndexAddAll(ix, Append(es, e)) = IndexAdd(old, e.track, e.pts, e.off)
  BY IndexAddAllAppend
<1> HIDE DEF old
<1>2. EntriesOf(IndexAdd(old, e.track, e.pts, e.off), x) =
         IF x = e.track THEN Append(EntriesOf(old, e.track), [pts |-> e.pts, off |-> e.off])
         ELSE EntriesOf(old, x)
  <2>1. \A id, pts, off : EntriesOf(IndexAdd(old, id, pts, off), x) =
           IF x = id THEN Append(EntriesOf(old, id), [pts |-> pts, off |-> off])
           ELSE EntriesOf(old, x)
    BY EntriesOfAdd
  <2> QED BY <2>1
<1> QED BY <1>1, <1>2 DEF old, EntryOf

\* One entry more, of x or of another track.
LEMMA OwnAppend ==
    ASSUME NEW es \in Seq(CpEntry), NEW e \in CpEntry, NEW x
    PROVE  Own(Append(es, e), x) =
               IF e.track = x THEN Append(Own(es, x), EntryOf(e)) ELSE Own(es, x)
BY EntriesOfAddAll DEF Own

\* The index entry of a checkpoint entry.
LEMMA EntryOfType == ASSUME NEW e \in CpEntry PROVE EntryOf(e) \in IndexEntry
BY DEF CpEntry, EntryOf, IndexEntry

\* A prefix of a sequence, one longer, is that prefix with an element appended.
LEMMA PrefixNext ==
    ASSUME NEW S, NEW s \in Seq(S), NEW k \in Nat, k + 1 <= Len(s)
    PROVE  /\ SubSeq(s, 1, k) \in Seq(S) /\ s[k + 1] \in S
           /\ SubSeq(s, 1, k + 1) = Append(SubSeq(s, 1, k), s[k + 1])
<1>1. Len(s) \in Nat
  BY LenProperties
<1>2. SubSeq(s, 1, k + 1) = Append(SubSeq(s, 1, k), s[k + 1])
  BY <1>1, RangeNext
<1>3. s[k + 1] \in S /\ SubSeq(s, 1, k) \in Seq(S)
  BY <1>1, ElementOfSeq
<1> QED BY <1>2, <1>3

\* The longest and the shortest prefix.
LEMMA PrefixWhole ==
    ASSUME NEW S, NEW s \in Seq(S)
    PROVE  SubSeq(s, 1, Len(s)) = s /\ SubSeq(s, 1, 0) = <<>>
<1>1. Len(s) \in Nat
  BY LenProperties
<1>2. /\ SubSeq(s, 1, Len(s)) \in Seq(S) /\ Len(SubSeq(s, 1, Len(s))) = Len(s)
      /\ \A i \in 1 .. Len(s) : SubSeq(s, 1, Len(s))[i] = s[i]
  BY <1>1
<1>3. SubSeq(s, 1, Len(s)) = s
  BY <1>2, SeqEqual
<1> QED BY <1>3, SubSeqEmpty

\* Concatenation under a name that the provers do not take apart.
Cat(s, t) == s \o t

\* What a concatenation consists of.
LEMMA CatProperties ==
    ASSUME NEW S, NEW s \in Seq(S), NEW t \in Seq(S)
    PROVE  /\ Cat(s, t) \in Seq(S) /\ Len(Cat(s, t)) = Len(s) + Len(t)
           /\ \A i \in 1 .. Len(s) : Cat(s, t)[i] = s[i]
           /\ \A i \in Len(s) + 1 .. Len(s) + Len(t) : Cat(s, t)[i] = t[i - Len(s)]
<1>1. Len(s) \in Nat /\ Len(t) \in Nat
  BY LenProperties
<1>2. s \o t \in Seq(S) /\ Len(s \o t) = Len(s) + Len(t)
  BY ConcatProperties
<1>3. ASSUME NEW i \in 1 .. Len(s) PROVE (s \o t)[i] = s[i]
  BY <1>1, ConcatProperties
<1>4. ASSUME NEW i \in Len(s) + 1 .. Len(s) + Len(t) PROVE (s \o t)[i] = t[i - Len(s)]
  <2>1. i \in 1 .. Len(s) + Len(t) /\ ~(i <= Len(s))
    BY <1>1
  <2> QED BY <1>1, <2>1, ConcatProperties
<1> QED BY <1>2, <1>3, <1>4 DEF Cat

\* Nothing to concatenate.
LEMMA CatEmpty ==
    ASSUME NEW S, NEW s \in Seq(S)
    PROVE  Cat(s, <<>>) = s /\ Cat(<<>>, s) = s
BY ConcatEmptySeq DEF Cat

\* An element behind a concatenation is one behind its second part.
LEMMA CatAppend ==
    ASSUME NEW S, NEW s \in Seq(S), NEW t \in Seq(S), NEW e \in S
    PROVE  Append(Cat(s, t), e) = Cat(s, Append(t, e))
<1> DEFINE st == Cat(s, t)
           te == Append(t, e)
           a == Append(st, e)
           b == Cat(s, te)
<1>1. Len(s) \in Nat /\ Len(t) \in Nat
  BY LenProperties
<1>2. /\ st \in Seq(S) /\ Len(st) = Len(s) + Len(t)
      /\ \A i \in 1 .. Len(s) : st[i] = s[i]
      /\ \A i \in Len(s) + 1 .. Len(s) + Len(t) : st[i] = t[i - Len(s)]
  BY CatProperties
<1>3. /\ te \in Seq(S) /\ Len(te) = Len(t) + 1 /\ te[Len(t) + 1] = e
      /\ \A i \in 1 .. Len(t) : te[i] = t[i]
  BY AppendProperties
<1> HIDE DEF st, te
<1>4. /\ a \in Seq(S) /\ Len(a) = Len(st) + 1 /\ a[Len(st) + 1] = e
      /\ \A i \in 1 .. Len(st) : a[i] = st[i]
  BY <1>2, AppendProperties
<1>5. /\ b \in Seq(S) /\ Len(b) = Len(s) + Len(te)
      /\ \A i \in 1 .. Len(s) : b[i] = s[i]
      /\ \A i \in Len(s) + 1 .. Len(s) + Len(te) : b[i] = te[i - Len(s)]
  BY <1>3, CatProperties
<1> HIDE DEF a, b
<1>6. Len(a) = Len(b) /\ Len(a) = Len(s) + (Len(t) + 1)
  BY <1>1, <1>2, <1>3, <1>4, <1>5
<1>7. ASSUME NEW i \in 1 .. Len(a) PROVE a[i] = b[i]
  <2>1. CASE i <= Len(s)
    <3>1. i \in 1 .. Len(s) /\ i \in 1 .. Len(st)
      BY <1>1, <1>2, <2>1
    <3> QED BY <1>2, <1>4, <1>5, <3>1
  <2>2. CASE i > Len(s) /\ i <= Len(s) + Len(t)
    <3> DEFINE k == i - Len(s)
    <3>1. /\ k \in 1 .. Len(t) /\ i \in 1 .. Len(st)
          /\ i \in Len(s) + 1 .. Len(s) + Len(t) /\ i \in Len(s) + 1 .. Len(s) + Len(te)
      BY <1>1, <1>2, <1>3, <2>2
    <3> QED BY <1>2, <1>3, <1>4, <1>5, <3>1
  <2>3. CASE i = Len(s) + (Len(t) + 1)
    <3>1. /\ i = Len(st) + 1 /\ i - Len(s) = Len(t) + 1
          /\ i \in Len(s) + 1 .. Len(s) + Len(te)
      BY <1>1, <1>2, <1>3, <2>3
    <3> QED BY <1>3, <1>4, <1>5, <2>3, <3>1
  <2> QED BY <1>1, <1>6, <2>1, <2>2, <2>3
<1>8. a = b
  BY <1>4, <1>5, <1>6, <1>7, SeqEqual
<1> QED BY <1>8 DEF a, b, st, te

\* Concatenations may be regrouped.
LEMMA CatAssociative ==
    ASSUME NEW S, NEW s \in Seq(S), NEW t \in Seq(S), NEW u \in Seq(S)
    PROVE  Cat(Cat(s, t), u) = Cat(s, Cat(t, u))
BY ConcatAssociative DEF Cat

\* Adding entries to an index appends the own entries of each track.
LEMMA OwnAdded ==
    ASSUME NEW ix, NEW es \in Seq(CpEntry), NEW x, EntriesOf(ix, x) \in Seq(IndexEntry)
    PROVE  /\ Own(es, x) \in Seq(IndexEntry)
           /\ EntriesOf(IndexAddAll(ix, es), x) = Cat(EntriesOf(ix, x), Own(es, x))
<1> DEFINE old == EntriesOf(ix, x)
           P(k) == SubSeq(es, 1, k)
           Good == {k \in Nat : k <= Len(es) =>
                       /\ Own(P(k), x) \in Seq(IndexEntry)
                       /\ EntriesOf(IndexAddAll(ix, P(k)), x) = Cat(old, Own(P(k), x))}
<1>0. Len(es) \in Nat /\ old \in Seq(IndexEntry)
  BY LenProperties
<1> HIDE DEF old
<1>1. 0 \in Good
  <2>1. P(0) = <<>>
    BY PrefixWhole
  <2>2. Own(<<>>, x) = <<>> /\ EntriesOf(IndexAddAll(ix, <<>>), x) = old
    BY OwnEmpty, IndexAddAllEmpty DEF old
  <2>3. Cat(old, <<>>) = old /\ <<>> \in Seq(IndexEntry)
    BY <1>0, CatEmpty, EmptySeq
  <2> QED BY <2>1, <2>2, <2>3
<1>2. ASSUME NEW k \in Nat, k \in Good PROVE k + 1 \in Good
  <2> SUFFICES ASSUME k + 1 <= Len(es)
               PROVE  /\ Own(P(k + 1), x) \in Seq(IndexEntry)
                      /\ EntriesOf(IndexAddAll(ix, P(k + 1)), x) = Cat(old, Own(P(k + 1), x))
    OBVIOUS
  <2> DEFINE e == es[k + 1]
             ds == P(k)
             fs == P(k + 1)
             own == Own(ds, x)
             added == EntriesOf(IndexAddAll(ix, ds), x)
  <2>1. ds \in Seq(CpEntry) /\ e \in CpEntry /\ fs = Append(ds, e)
    BY PrefixNext
  <2>2. own \in Seq(IndexEntry) /\ added = Cat(old, own)
    BY <1>0, <1>2
  <2> HIDE DEF e, ds, fs
  <2>3. Own(fs, x) = IF e.track = x THEN Append(own, EntryOf(e)) ELSE own
    BY <2>1, OwnAppend
  <2>4. EntriesOf(IndexAddAll(ix, fs), x) =
           IF e.track = x THEN Append(added, EntryOf(e)) ELSE added
    BY <2>1, EntriesOfAddAll
  <2> HIDE DEF own, added
  <2> DEFINE new == EntryOf(e)
  <2>5. new \in IndexEntry
    BY <2>1, EntryOfType
  <2> HIDE DEF new
  <2>6. Append(Cat(old, own), new) = Cat(old, Append(own, new))
    <3>1. old \in Seq(IndexEntry) /\ own \in Seq(IndexEntry)
      BY <1>0, <2>2
    <3>2. new \in IndexEntry
      BY <2>5
    <3> QED BY ONLY <3>1, <3>2, CatAppend
  <2>7. Append(own, new) \in Seq(IndexEntry)
    BY <2>2, <2>5, AppendProperties
  <2>8. /\ Own(fs, x) \in Seq(IndexEntry)
        /\ EntriesOf(IndexAddAll(ix, fs), x) = Cat(old, Own(fs, x))
    BY <2>2, <2>3, <2>4, <2>6, <2>7 DEF new
  <2> QED BY <2>8 DEF fs
<1>3. Len(es) \in Good
  <2> HIDE DEF Good
  <2> QED BY <1>0, <1>1, <1>2, NatSetInduction
<1>4. P(Len(es)) = es
  BY PrefixWhole
<1>5. /\ Own(P(Len(es)), x) \in Seq(IndexEntry)
      /\ EntriesOf(IndexAddAll(ix, P(Len(es))), x) = Cat(old, Own(P(Len(es)), x))
  BY <1>0, <1>3
<1> DEFINE whole == P(Len(es))
<1> HIDE DEF whole
<1>6. /\ Own(whole, x) \in Seq(IndexEntry) /\ whole = es
      /\ EntriesOf(IndexAddAll(ix, whole), x) = Cat(old, Own(whole, x))
  BY <1>4, <1>5 DEF whole
<1> QED BY <1>6 DEF old

\* The own entries of a concatenation.
LEMMA OwnOfCat ==
    ASSUME NEW es \in Seq(CpEntry), NEW fs \in Seq(CpEntry), NEW x
    PROVE  Own(Cat(es, fs), x) = Cat(Own(es, x), Own(fs, x))
<1> DEFINE old == Own(es, x)
           P(k) == SubSeq(fs, 1, k)
           Good == {k \in Nat : k <= Len(fs) => Own(Cat(es, P(k)), x) = Cat(old, Own(P(k), x))}
<1>0. Len(fs) \in Nat /\ old \in Seq(IndexEntry)
  <2>1. EntriesOf(EmptyMap, x) \in Seq(IndexEntry)
    BY EntriesOfEmpty, EmptySeq
  <2> QED BY <2>1, OwnAdded, LenProperties
<1>1. 0 \in Good
  <2>1. P(0) = <<>>
    BY PrefixWhole
  <2>2. Own(<<>>, x) = <<>> /\ Cat(es, <<>>) = es
    BY OwnEmpty, CatEmpty
  <2>3. Cat(old, <<>>) = old
    <3> HIDE DEF old
    <3> QED BY <1>0, CatEmpty
  <2> QED BY <2>1, <2>2, <2>3
<1>2. ASSUME NEW k \in Nat, k \in Good PROVE k + 1 \in Good
  <2> SUFFICES ASSUME k + 1 <= Len(fs)
               PROVE  Own(Cat(es, P(k + 1)), x) = Cat(old, Own(P(k + 1), x))
    OBVIOUS
  <2> DEFINE e == fs[k + 1]
             ds == P(k)
             ns == P(k + 1)
             own == Own(ds, x)
             all == Cat(es, ds)
             new == EntryOf(e)
  <2>1. ds \in Seq(CpEntry) /\ e \in CpEntry /\ ns = Append(ds, e)
    BY PrefixNext
  <2>2. Own(all, x) = Cat(old, own)
    BY <1>0, <1>2
  <2> HIDE DEF e, ds, ns, old
  <2>3. all \in Seq(CpEntry)
    BY <2>1, CatProperties
  <2>4. own \in Seq(IndexEntry)
    <3>1. EntriesOf(EmptyMap, x) \in Seq(IndexEntry)
      BY EntriesOfEmpty, EmptySeq
    <3> QED BY <2>1, <3>1, OwnAdded
  <2>5. Cat(es, ns) = Append(all, e)
    BY ONLY <2>1, CatAppend, es \in Seq(CpEntry)
  <2> HIDE DEF all
  <2>6. Own(Append(all, e), x) = IF e.track = x THEN Append(Own(all, x), new) ELSE Own(all, x)
    BY <2>1, <2>3, OwnAppend
  <2>7. Own(ns, x) = IF e.track = x THEN Append(own, new) ELSE own
    BY <2>1, OwnAppend
  <2>8. new \in IndexEntry
    BY <2>1, EntryOfType
  <2> HIDE DEF new, own
  <2>9. Append(Cat(old, own), new) = Cat(old, Append(own, new))
    <3>1. old \in Seq(IndexEntry)
      BY <1>0
    <3> QED BY ONLY <2>4, <2>8, <3>1, CatAppend
  <2>10. Own(Cat(es, ns), x) = Cat(old, Own(ns, x))
    BY <2>2, <2>5, <2>6, <2>7, <2>9
  <2> QED BY <2>10 DEF ns
<1>3. Len(fs) \in Good
  <2> HIDE DEF Good
  <2> QED BY <1>0, <1>1, <1>2, NatSetInduction
<1> DEFINE whole == P(Len(fs))
<1>4. whole = fs
  BY PrefixWhole
<1>5. Own(Cat(es, whole), x) = Cat(old, Own(whole, x))
  BY <1>0, <1>3
<1> HIDE DEF whole
<1> QED BY <1>4, <1>5

-----------------------------------------------------------------------------
(* The recovery scan.                                                      *)

\* f follows the recursion of ScanChunks over the first n chunks.
Scans(f, l, n) ==
    /\ f[0] = EmptyScan
    /\ \A k \in 1 .. n : f[k] = ScanChunk(f[k - 1], l[k], k)

\* ScanChunks is such a recursion.
LEMMA ScanRecursion ==
    ASSUME NEW l, NEW n \in Nat
    PROVE  \E f : Scans(f, l, n) /\ ScanChunks(l, n) = f[n]
<1> DEFINE Step(r, k) == ScanChunk(r, l[k], k)
           Body(f, m) == [k \in 0 .. m |-> IF k = 0 THEN EmptyScan ELSE Step(f[k - 1], k)]
           Solvable == {m \in Nat : \E f : f = Body(f, m)}
<1> HIDE DEF Step
<1>1. 0 \in Solvable
  <2> DEFINE f == [k \in 0 .. 0 |-> EmptyScan]
  <2>1. f = Body(f, 0)
    OBVIOUS
  <2>2. \E h : h = Body(h, 0)
    <3> HIDE DEF f, Body
    <3> QED BY <2>1
  <2> QED BY <2>2
<1>2. ASSUME NEW m \in Nat, m \in Solvable PROVE m + 1 \in Solvable
  <2>1. PICK f : f = Body(f, m)
    BY <1>2
  <2> DEFINE last == Step(f[m], m + 1)
             g == [k \in 0 .. m + 1 |-> IF k = m + 1 THEN last ELSE f[k]]
  <2>2. \A k \in 0 .. m + 1 : g[k] = Body(g, m + 1)[k]
    <3> SUFFICES ASSUME NEW k \in 0 .. m + 1 PROVE g[k] = Body(g, m + 1)[k]
      OBVIOUS
    <3>1. CASE k = m + 1
      <4>1. g[k - 1] = f[m] /\ g[k] = last
        BY <3>1
      <4> QED BY <3>1, <4>1
    <3>2. CASE k # m + 1
      <4>1. k \in 0 .. m /\ g[k] = f[k] /\ (k # 0 => g[k - 1] = f[k - 1])
        BY <3>2
      <4>2. f[k] = IF k = 0 THEN EmptyScan ELSE Step(f[k - 1], k)
        BY <2>1, <4>1
      <4> QED BY <4>1, <4>2
    <3> QED BY <3>1, <3>2
  <2>3. g = Body(g, m + 1)
    BY <2>2
  <2>4. \E h : h = Body(h, m + 1)
    <3> HIDE DEF g, Body
    <3> QED BY <2>3
  <2> QED BY <2>4
<1>3. n \in Solvable
  <2> HIDE DEF Solvable
  <2> QED BY <1>1, <1>2, NatSetInduction
<1> DEFINE scanned == CHOOSE f : f = Body(f, n)
<1>4. scanned = Body(scanned, n)
  <2>1. \E f : f = Body(f, n)
    BY <1>3
  <2> HIDE DEF Body
  <2> QED BY <2>1
<1>5. ScanChunks(l, n) = scanned[n]
  BY DEF ScanChunks, Step
<1> HIDE DEF scanned
<1>6. Scans(scanned, l, n)
  <2>1. scanned[0] = EmptyScan
    BY <1>4
  <2>2. \A k \in 1 .. n : scanned[k] = Step(scanned[k - 1], k)
    <3> SUFFICES ASSUME NEW k \in 1 .. n PROVE scanned[k] = Step(scanned[k - 1], k)
      OBVIOUS
    <3>1. k \in 0 .. n /\ k # 0
      OBVIOUS
    <3> QED BY <1>4, <3>1
  <2> QED BY <2>1, <2>2 DEF Scans, Step
<1> QED BY <1>5, <1>6

\* Scans of streams that begin alike are alike.
LEMMA ScanSame ==
    ASSUME NEW l, NEW m, NEW n \in Nat, \A k \in 1 .. n : l[k] = m[k]
    PROVE  ScanChunks(l, n) = ScanChunks(m, n)
<1>1. PICK f : Scans(f, l, n) /\ ScanChunks(l, n) = f[n]
  BY ScanRecursion
<1>2. PICK g : Scans(g, m, n) /\ ScanChunks(m, n) = g[n]
  BY ScanRecursion
<1> DEFINE Same == {k \in Nat : k <= n => f[k] = g[k]}
<1>3. 0 \in Same
  BY <1>1, <1>2 DEF Scans
<1>4. ASSUME NEW k \in Nat, k \in Same PROVE k + 1 \in Same
  <2> SUFFICES ASSUME k + 1 <= n PROVE f[k + 1] = g[k + 1]
    OBVIOUS
  <2>1. k + 1 \in 1 .. n /\ (k + 1) - 1 = k /\ f[k] = g[k]
    BY <1>4
  <2>2. f[k + 1] = ScanChunk(f[k], l[k + 1], k + 1) /\ g[k + 1] = ScanChunk(g[k], m[k + 1], k + 1)
    BY <1>1, <1>2, <2>1 DEF Scans
  <2> QED BY <2>1, <2>2
<1>5. n \in Same
  <2> HIDE DEF Same
  <2> QED BY <1>3, <1>4, NatSetInduction
<1> QED BY <1>1, <1>2, <1>5

\* A scan of no chunks.
LEMMA ScanNone == ASSUME NEW l PROVE ScanChunks(l, 0) = EmptyScan
<1>1. PICK f : Scans(f, l, 0) /\ ScanChunks(l, 0) = f[0]
  BY ScanRecursion
<1> QED BY <1>1 DEF Scans

\* The scan of one chunk more.
LEMMA ScanNext ==
    ASSUME NEW l, NEW n \in Nat
    PROVE  ScanChunks(l, n + 1) = ScanChunk(ScanChunks(l, n), l[n + 1], n + 1)
<1> DEFINE b == n + 1
<1>0. b \in Nat /\ n <= b /\ b \in 1 .. b /\ b - 1 = n
  OBVIOUS
<1> HIDE DEF b
<1>1. PICK f : Scans(f, l, n) /\ ScanChunks(l, n) = f[n]
  BY ScanRecursion
<1>2. PICK g : Scans(g, l, b) /\ ScanChunks(l, b) = g[b]
  BY <1>0, ScanRecursion
<1> DEFINE Same == {k \in Nat : k <= n => f[k] = g[k]}
<1>3. 0 \in Same
  BY <1>1, <1>2 DEF Scans
<1>4. ASSUME NEW k \in Nat, k \in Same PROVE k + 1 \in Same
  <2> SUFFICES ASSUME k + 1 <= n PROVE f[k + 1] = g[k + 1]
    OBVIOUS
  <2>1. k + 1 \in 1 .. n /\ k + 1 \in 1 .. b /\ (k + 1) - 1 = k /\ f[k] = g[k]
    BY <1>0, <1>4
  <2>2. f[k + 1] = ScanChunk(f[k], l[k + 1], k + 1) /\ g[k + 1] = ScanChunk(g[k], l[k + 1], k + 1)
    BY <1>1, <1>2, <2>1 DEF Scans
  <2> QED BY <2>1, <2>2
<1>5. n \in Same
  <2> HIDE DEF Same
  <2> QED BY <1>3, <1>4, NatSetInduction
<1>6. g[b] = ScanChunk(g[n], l[b], b)
  BY <1>0, <1>2 DEF Scans
<1> QED BY <1>1, <1>2, <1>5, <1>6 DEF b

\* The fields of a scan state.
ScanShape(r) == DOMAIN r = {"tracks", "idx", "tail", "frames", "firstPTS", "maxPTS"}

\* The counters of a scan state agree.
SameCounters(q, r) ==
    q.frames = r.frames /\ q.firstPTS = r.firstPTS /\ q.maxPTS = r.maxPTS

\* What a scan takes from each type of chunk.
LEMMA ScanOfTrackInfo ==
    ASSUME NEW r, ScanShape(r), NEW c, c.type = "trackinfo", NEW off
    PROVE  LET q == ScanChunk(r, c, off)
           IN  /\ ScanShape(q) /\ SameCounters(q, r)
               /\ q.tracks = Put(r.tracks, c.id, c.kind) /\ q.idx = r.idx /\ q.tail = r.tail
<1>1. ScanChunk(r, c, off) = [r EXCEPT !.tracks = Put(r.tracks, c.id, c.kind)]
  BY DEF ScanChunk
<1> DEFINE new == Put(r.tracks, c.id, c.kind)
<1> HIDE DEF new
<1>2. ScanChunk(r, c, off) = [r EXCEPT !.tracks = new]
  BY <1>1 DEF new
<1>3. LET q == ScanChunk(r, c, off)
      IN  /\ ScanShape(q) /\ SameCounters(q, r)
          /\ q.tracks = new /\ q.idx = r.idx /\ q.tail = r.tail
  BY <1>2 DEF ScanShape, SameCounters
<1> QED BY <1>3 DEF new

LEMMA ScanOfCheckpoint ==
    ASSUME NEW r, ScanShape(r), NEW c, c.type = "checkpoint", NEW off
    PROVE  LET q == ScanChunk(r, c, off)
           IN  /\ ScanShape(q) /\ SameCounters(q, r)
               /\ q.tracks = r.tracks /\ q.idx = IndexAddAll(r.idx, c.entries) /\ q.tail = <<>>
<1> DEFINE new == IndexAddAll(r.idx, c.entries)
<1>1. ScanChunk(r, c, off) = [r EXCEPT !.idx = new, !.tail = <<>>]
  BY DEF ScanChunk
<1> HIDE DEF new
<1>2. LET q == ScanChunk(r, c, off)
      IN  /\ ScanShape(q) /\ SameCounters(q, r)
          /\ q.tracks = r.tracks /\ q.idx = new /\ q.tail = <<>>
  BY <1>1 DEF ScanShape, SameCounters
<1> QED BY <1>2 DEF new

LEMMA ScanOfFooter ==
    ASSUME NEW r, NEW c, c.type = "footer", NEW off
    PROVE  ScanChunk(r, c, off) = r
BY DEF ScanChunk

LEMMA ScanOfData ==
    ASSUME NEW r, ScanShape(r), NEW c, c.type = "data", NEW off
    PROVE  LET q  == ScanChunk(r, c, off)
               id == c.track
               p  == c.frame.pts
           IN  /\ ScanShape(q) /\ q.tracks = r.tracks /\ q.idx = r.idx
               /\ q.tail = IF c.frame.key
                           THEN Append(r.tail, [track |-> id, pts |-> p, off |-> off])
                           ELSE r.tail
               /\ q.frames = Put(r.frames, id, Get(r.frames, id, 0) + 1)
               /\ q.firstPTS = IF id \in DOMAIN r.frames THEN r.firstPTS
                               ELSE Put(r.firstPTS, id, p)
               /\ q.maxPTS = IF id \in DOMAIN r.maxPTS /\ p <= r.maxPTS[id] THEN r.maxPTS
                             ELSE Put(r.maxPTS, id, p)
<1> DEFINE id == c.track
           p  == c.frame.pts
           first == IF id \in DOMAIN r.frames THEN r.firstPTS ELSE Put(r.firstPTS, id, p)
           frames == Put(r.frames, id, Get(r.frames, id, 0) + 1)
           max == IF id \in DOMAIN r.maxPTS /\ p <= r.maxPTS[id] THEN r.maxPTS
                  ELSE Put(r.maxPTS, id, p)
           tail == IF c.frame.key THEN Append(r.tail, [track |-> id, pts |-> p, off |-> off])
                   ELSE r.tail
<1>1. ScanChunk(r, c, off) = ScanData(r, c, off)
  BY DEF ScanChunk
<1>2. ScanData(r, c, off) =
         [r EXCEPT !.firstPTS = first, !.frames = frames, !.maxPTS = max, !.tail = tail]
  BY DEF ScanData
<1> HIDE DEF first, frames, max, tail
<1>3. LET q == ScanChunk(r, c, off)
      IN  /\ ScanShape(q) /\ q.tracks = r.tracks /\ q.idx = r.idx /\ q.tail = tail
          /\ q.frames = frames /\ q.firstPTS = first /\ q.maxPTS = max
  BY <1>1, <1>2 DEF ScanShape
<1> QED BY <1>3 DEF first, frames, max, tail

\* A data chunk adds no track.
LEMMA ScanOfDataTracks ==
    ASSUME NEW r, ScanShape(r), NEW c, c.type = "data", NEW off
    PROVE  ScanChunk(r, c, off).tracks = r.tracks
<1>1. ScanChunk(r, c, off) = ScanData(r, c, off)
  BY DEF ScanChunk
<1>2. \A first, frames, max, tail :
         [r EXCEPT !.firstPTS = first, !.frames = frames, !.maxPTS = max, !.tail = tail].tracks
             = r.tracks
  BY DEF ScanShape
<1>3. \E first, frames, max, tail :
         ScanData(r, c, off) =
             [r EXCEPT !.firstPTS = first, !.frames = frames, !.maxPTS = max, !.tail = tail]
  BY DEF ScanData
<1> QED BY <1>1, <1>2, <1>3

-----------------------------------------------------------------------------
(* The chain of checkpoints.                                               *)

IsCheckpoint(c) == c.type = "checkpoint"

\* A checkpoint points back at an earlier chunk.
PointsBack(l) == \A i \in 1 .. Len(l) : IsCheckpoint(l[i]) => l[i].prev \in 0 .. i - 1

\* f follows the recursion of ChainEntries.
Chains(f, l) ==
    \A i \in 0 .. Len(l) :
        f[i] = IF i = 0 \/ ~IsCheckpoint(l[i]) THEN <<>> ELSE Cat(f[l[i].prev], l[i].entries)

\* ChainEntries is such a recursion, as every checkpoint points back.
LEMMA ChainRecursion ==
    ASSUME NEW l, Len(l) \in Nat, PointsBack(l)
    PROVE  \E f : Chains(f, l) /\ \A p \in 0 .. Len(l) : ChainEntries(l, p) = f[p]
<1> DEFINE Step(f, i) == IF i = 0 \/ ~IsCheckpoint(l[i]) THEN <<>>
                         ELSE Cat(f[l[i].prev], l[i].entries)
           Body(f, m) == [i \in 0 .. m |-> Step(f, i)]
           Solvable == {m \in Nat : m <= Len(l) => \E f : f = Body(f, m)}
<1>1. 0 \in Solvable
  <2> DEFINE f == [i \in 0 .. 0 |-> <<>>]
  <2>1. f = Body(f, 0)
    OBVIOUS
  <2>2. \E h : h = Body(h, 0)
    <3> HIDE DEF f, Body
    <3> QED BY <2>1
  <2> QED BY <2>2
<1>2. ASSUME NEW m \in Nat, m \in Solvable PROVE m + 1 \in Solvable
  <2> SUFFICES ASSUME m + 1 <= Len(l) PROVE \E f : f = Body(f, m + 1)
    OBVIOUS
  <2>1. PICK f : f = Body(f, m)
    BY <1>2
  <2> DEFINE last == Step(f, m + 1)
             g == [i \in 0 .. m + 1 |-> IF i = m + 1 THEN last ELSE f[i]]
  <2>2. \A i \in 0 .. m + 1 : g[i] = Step(g, i)
    <3> SUFFICES ASSUME NEW i \in 0 .. m + 1 PROVE g[i] = Step(g, i)
      OBVIOUS
    <3>1. CASE i = 0 \/ ~IsCheckpoint(l[i])
      <4>1. Step(g, i) = <<>> /\ Step(f, i) = <<>>
        BY <3>1
      <4>2. i # m + 1 => f[i] = Step(f, i)
        BY <2>1
      <4> HIDE DEF Step
      <4> QED BY <4>1, <4>2
    <3>2. CASE ~(i = 0 \/ ~IsCheckpoint(l[i]))
      <4> DEFINE p == l[i].prev
      <4>1. p \in 0 .. i - 1
        BY <3>2 DEF PointsBack
      <4>2. g[p] = f[p]
        BY <4>1
      <4>3. Step(g, i) = Step(f, i)
        BY <3>2, <4>2
      <4>4. i # m + 1 => f[i] = Step(f, i)
        BY <2>1
      <4> HIDE DEF Step
      <4> QED BY <4>3, <4>4
    <3> QED BY <3>1, <3>2
  <2>3. g = Body(g, m + 1)
    <3> HIDE DEF Step
    <3> QED BY <2>2
  <2>4. \E h : h = Body(h, m + 1)
    <3> HIDE DEF g, Body
    <3> QED BY <2>3
  <2> QED BY <2>4
<1>3. Len(l) \in Solvable
  <2> HIDE DEF Solvable
  <2> QED BY <1>1, <1>2, NatSetInduction
<1> DEFINE chain == CHOOSE f : f = Body(f, Len(l))
<1>4. chain = Body(chain, Len(l))
  <2>1. \E f : f = Body(f, Len(l))
    BY <1>3
  <2> HIDE DEF Body
  <2> QED BY <2>1
<1>5. \A p \in 0 .. Len(l) : ChainEntries(l, p) = chain[p]
  BY DEF ChainEntries, Cat, IsCheckpoint
<1> HIDE DEF chain
<1>6. Chains(chain, l)
  <2> HIDE DEF Step
  <2>1. \A i \in 0 .. Len(l) : chain[i] = Step(chain, i)
    BY <1>4
  <2> QED BY <2>1 DEF Chains, Step
<1> QED BY <1>5, <1>6

\* The chain from 0 is empty; the chain from a checkpoint is the one from its
\* predecessor and its own entries.
LEMMA ChainStart ==
    ASSUME NEW l, Len(l) \in Nat, PointsBack(l)
    PROVE  ChainEntries(l, 0) = <<>>
<1>1. PICK f : Chains(f, l) /\ \A p \in 0 .. Len(l) : ChainEntries(l, p) = f[p]
  BY ChainRecursion
<1> QED BY <1>1 DEF Chains

\* The entries of a chain are those of the checkpoint before, then its own.
LEMMA ChainNext ==
    ASSUME NEW l, Len(l) \in Nat, PointsBack(l),
           NEW i \in 1 .. Len(l), IsCheckpoint(l[i])
    PROVE  ChainEntries(l, i) = Cat(ChainEntries(l, l[i].prev), l[i].entries)
<1>1. PICK f : Chains(f, l) /\ \A p \in 0 .. Len(l) : ChainEntries(l, p) = f[p]
  BY ChainRecursion
<1>2. l[i].prev \in 0 .. Len(l) /\ i \in 0 .. Len(l) /\ i # 0
  BY DEF PointsBack
<1>3. f[i] = Cat(f[l[i].prev], l[i].entries)
  BY <1>1, <1>2 DEF Chains
<1> QED BY <1>1, <1>2, <1>3

\* Appending to the log keeps the chains that are there.
LEMMA ChainSame ==
    ASSUME NEW l, Len(l) \in Nat, PointsBack(l), NEW m, Len(m) \in Nat, PointsBack(m),
           Extends(m, l), NEW p \in 0 .. Len(l)
    PROVE  ChainEntries(m, p) = ChainEntries(l, p)
<1>1. PICK f : Chains(f, l) /\ \A i \in 0 .. Len(l) : ChainEntries(l, i) = f[i]
  BY ChainRecursion
<1>2. PICK g : Chains(g, m) /\ \A i \in 0 .. Len(m) : ChainEntries(m, i) = g[i]
  BY ChainRecursion
<1> DEFINE Same == {k \in Nat : k <= Len(l) => \A i \in 0 .. k : f[i] = g[i]}
<1>3. 0 \in Same
  BY <1>1, <1>2 DEF Chains
<1>4. ASSUME NEW k \in Nat, k \in Same PROVE k + 1 \in Same
  <2> SUFFICES ASSUME k + 1 <= Len(l) PROVE f[k + 1] = g[k + 1]
    BY <1>4
  <2>1. /\ k + 1 \in 0 .. Len(l) /\ k + 1 \in 1 .. Len(l) /\ k + 1 \in 0 .. Len(m)
        /\ \A i \in 0 .. k : f[i] = g[i]
    BY <1>4 DEF Extends
  <2>2. m[k + 1] = l[k + 1] /\ k + 1 # 0
    BY <2>1 DEF Extends
  <2>3. IsCheckpoint(l[k + 1]) => l[k + 1].prev \in 0 .. k
    BY <2>1 DEF PointsBack
  <2>4. f[k + 1] = IF k + 1 = 0 \/ ~IsCheckpoint(l[k + 1]) THEN <<>>
                   ELSE Cat(f[l[k + 1].prev], l[k + 1].entries)
    BY <1>1, <2>1 DEF Chains
  <2>5. g[k + 1] = IF k + 1 = 0 \/ ~IsCheckpoint(m[k + 1]) THEN <<>>
                   ELSE Cat(g[m[k + 1].prev], m[k + 1].entries)
    BY <1>2, <2>1 DEF Chains
  <2> QED BY <2>1, <2>2, <2>3, <2>4, <2>5
<1>5. Len(l) \in Same
  <2> HIDE DEF Same
  <2> QED BY <1>3, <1>4, NatSetInduction
<1>6. p \in 0 .. Len(m) /\ f[p] = g[p]
  BY <1>5 DEF Extends
<1> QED BY <1>1, <1>2, <1>6

\* A chain is a sequence of checkpoint entries.
LEMMA ChainType ==
    ASSUME NEW l \in Seq(Chunk), PointsBack(l), NEW p \in 0 .. Len(l)
    PROVE  ChainEntries(l, p) \in Seq(CpEntry)
<1>1. Len(l) \in Nat
  BY LenProperties
<1>2. PICK f : Chains(f, l) /\ \A i \in 0 .. Len(l) : ChainEntries(l, i) = f[i]
  BY <1>1, ChainRecursion
<1> DEFINE Good == {k \in Nat : k <= Len(l) => \A i \in 0 .. k : f[i] \in Seq(CpEntry)}
<1>3. 0 \in Good
  <2>1. f[0] = <<>>
    BY <1>1, <1>2 DEF Chains
  <2>2. <<>> \in Seq(CpEntry)
    BY EmptySeq
  <2>3. f[0] \in Seq(CpEntry)
    BY <2>1, <2>2, Zenon
  <2>4. \A i \in 0 .. 0 : f[i] \in Seq(CpEntry)
    BY <2>3
  <2> QED BY <2>4
<1>4. ASSUME NEW k \in Nat, k \in Good PROVE k + 1 \in Good
  <2> SUFFICES ASSUME k + 1 <= Len(l) PROVE f[k + 1] \in Seq(CpEntry)
    BY <1>4
  <2>1. k + 1 \in 0 .. Len(l) /\ k + 1 \in 1 .. Len(l) /\ k + 1 # 0
    BY <1>1
  <2>2. CASE ~IsCheckpoint(l[k + 1])
    <3>1. f[k + 1] = <<>>
      BY <1>2, <2>1, <2>2 DEF Chains
    <3> QED BY <3>1, EmptySeq
  <2>3. CASE IsCheckpoint(l[k + 1])
    <3> DEFINE c == l[k + 1]
    <3>1. c \in Chunk
      BY <2>1, ElementOfSeq
    <3>2. c.entries \in Seq(CpEntry) /\ c.prev \in 0 .. k
      <4>1. c \in CheckpointChunk
        BY <2>3, <3>1 DEF Chunk, CheckpointChunk, DataChunk, FooterChunk, TrackInfoChunk,
           IsCheckpoint
      <4> QED BY <2>1, <2>3, <4>1 DEF CheckpointChunk, PointsBack
    <3>3. f[k + 1] = Cat(f[c.prev], c.entries)
      BY <1>2, <2>1, <2>3 DEF Chains
    <3>4. f[c.prev] \in Seq(CpEntry)
      BY <1>1, <1>4, <3>2
    <3> HIDE DEF c
    <3>5. Cat(f[c.prev], c.entries) \in Seq(CpEntry)
      <4> DEFINE a == f[c.prev]
                 b == c.entries
      <4>1. a \in Seq(CpEntry) /\ b \in Seq(CpEntry)
        BY <3>2, <3>4
      <4> HIDE DEF a, b
      <4>2. Cat(a, b) \in Seq(CpEntry)
        BY <4>1, CatProperties
      <4> QED BY <4>2 DEF a, b
    <3> QED BY <3>3, <3>5
  <2> QED BY <2>2, <2>3
<1>5. Len(l) \in Good
  <2> HIDE DEF Good
  <2> QED BY <1>1, <1>3, <1>4, NatSetInduction
<1> QED BY <1>1, <1>2, <1>5

-----------------------------------------------------------------------------
(* What the scan of the first n chunks has recovered for a track: the      *)
(* entries of the checkpoints it met, then those of the keyframes behind   *)
(* the last checkpoint.                                                    *)

Base(l, n, x) == EntriesOf(ScanChunks(l, n).idx, x)
Rec(l, n, x)  == Cat(Base(l, n, x), Own(ScanChunks(l, n).tail, x))

ScanTyped(r) ==
    /\ ScanShape(r)
    /\ r.tail \in Seq(CpEntry)
    /\ \A x : EntriesOf(r.idx, x) \in Seq(IndexEntry)

\* The entries of a checkpoint, and the entry that the scan makes of a keyframe.
LEMMA CheckpointEntries ==
    ASSUME NEW c \in Chunk, IsCheckpoint(c)
    PROVE  c.entries \in Seq(CpEntry) /\ c.prev \in Nat
<1>1. c \in CheckpointChunk
  BY DEF Chunk, CheckpointChunk, DataChunk, FooterChunk, TrackInfoChunk, IsCheckpoint
<1> QED BY <1>1 DEF CheckpointChunk

TailEntry(c, off) == [track |-> c.track, pts |-> c.frame.pts, off |-> off]

\* The entry that a scan makes for a keyframe.
LEMMA KeyframeEntry ==
    ASSUME NEW c \in Chunk, IsData(c), NEW off \in Nat
    PROVE  /\ c.track \in TrackIDs /\ c.frame \in Frame
           /\ TailEntry(c, off) \in CpEntry
           /\ EntryOf(TailEntry(c, off)) = [pts |-> c.frame.pts, off |-> off]
<1>1. c \in DataChunk
  BY DEF Chunk, CheckpointChunk, DataChunk, FooterChunk, TrackInfoChunk, IsData
<1>2. c.track \in TrackIDs /\ c.frame \in Frame /\ c.frame.pts \in PTS
  BY <1>1 DEF DataChunk, Frame
<1> QED BY <1>2 DEF TailEntry, CpEntry, EntryOf

\* The types a chunk may have.
LEMMA ChunkTypes ==
    ASSUME NEW c \in Chunk
    PROVE  c.type \in {"trackinfo", "data", "checkpoint", "footer"}
BY DEF Chunk, CheckpointChunk, DataChunk, FooterChunk, TrackInfoChunk

\* The types of one step of the scan.
LEMMA ScanStepTyped ==
    ASSUME NEW r, ScanTyped(r), NEW c \in Chunk, NEW off \in Nat
    PROVE  ScanTyped(ScanChunk(r, c, off))
<1> DEFINE q == ScanChunk(r, c, off)
<1>0. ScanShape(r) /\ r.tail \in Seq(CpEntry) /\ \A x : EntriesOf(r.idx, x) \in Seq(IndexEntry)
  BY DEF ScanTyped
<1>1. CASE c.type = "trackinfo"
  <2>1. ScanShape(q) /\ q.idx = r.idx /\ q.tail = r.tail
    BY <1>0, <1>1, ScanOfTrackInfo
  <2> HIDE DEF q
  <2>2. ScanTyped(q)
    BY <1>0, <2>1 DEF ScanTyped
  <2> QED BY <2>2 DEF q
<1>2. CASE c.type = "footer"
  <2>1. q = r
    BY <1>2, ScanOfFooter
  <2> QED BY <2>1
<1>3. CASE c.type = "checkpoint"
  <2>1. ScanShape(q) /\ q.idx = IndexAddAll(r.idx, c.entries) /\ q.tail = <<>>
    BY <1>0, <1>3, ScanOfCheckpoint
  <2>2. c.entries \in Seq(CpEntry)
    BY <1>3, CheckpointEntries DEF IsCheckpoint
  <2> DEFINE es == c.entries
             ix == r.idx
  <2>3. es \in Seq(CpEntry) /\ \A x : EntriesOf(ix, x) \in Seq(IndexEntry)
    BY <1>0, <2>2
  <2> HIDE DEF es, ix
  <2>4. ASSUME NEW x PROVE EntriesOf(IndexAddAll(ix, es), x) \in Seq(IndexEntry)
    <3> DEFINE a == EntriesOf(ix, x)
               b == Own(es, x)
    <3>1. a \in Seq(IndexEntry)
      BY <2>3
    <3>2. b \in Seq(IndexEntry) /\ EntriesOf(IndexAddAll(ix, es), x) = Cat(a, b)
      BY <2>3, <3>1, OwnAdded
    <3> HIDE DEF a, b
    <3>3. Cat(a, b) \in Seq(IndexEntry)
      BY <3>1, <3>2, CatProperties
    <3> QED BY <3>2, <3>3
  <2>5. <<>> \in Seq(CpEntry)
    BY EmptySeq
  <2> HIDE DEF q
  <2>6. ScanTyped(q)
    BY <2>1, <2>4, <2>5 DEF ScanTyped, es, ix
  <2> QED BY <2>6 DEF q
<1>4. CASE c.type = "data"
  <2>1. /\ ScanShape(q) /\ q.idx = r.idx
        /\ q.tail = IF c.frame.key THEN Append(r.tail, TailEntry(c, off)) ELSE r.tail
    BY <1>0, <1>4, ScanOfData DEF TailEntry
  <2>2. TailEntry(c, off) \in CpEntry
    BY <1>4, KeyframeEntry DEF IsData
  <2> HIDE DEF q
  <2>3. q.tail \in Seq(CpEntry)
    BY <1>0, <2>1, <2>2, AppendProperties
  <2>4. ScanTyped(q)
    BY <1>0, <2>1, <2>3 DEF ScanTyped
  <2> QED BY <2>4 DEF q
<1> QED BY <1>1, <1>2, <1>3, <1>4, ChunkTypes

\* What a scan returns, whatever the log.
LEMMA ScanTypes ==
    ASSUME NEW l \in Seq(Chunk), NEW n \in 0 .. Len(l)
    PROVE  ScanTyped(ScanChunks(l, n))
<1> DEFINE Good == {k \in Nat : k <= Len(l) => ScanTyped(ScanChunks(l, k))}
<1>0. Len(l) \in Nat
  BY LenProperties
<1>1. 0 \in Good
  <2>1. ScanChunks(l, 0) = EmptyScan
    BY ScanNone
  <2>2. ScanTyped(EmptyScan)
    BY EntriesOfEmpty, EmptySeq DEF ScanTyped, EmptyScan, ScanShape
  <2> QED BY <2>1, <2>2
<1>2. ASSUME NEW k \in Nat, k \in Good PROVE k + 1 \in Good
  <2> SUFFICES ASSUME k + 1 <= Len(l) PROVE ScanTyped(ScanChunks(l, k + 1))
    OBVIOUS
  <2> DEFINE r == ScanChunks(l, k)
             c == l[k + 1]
             off == k + 1
  <2>1. ScanTyped(r) /\ c \in Chunk /\ off \in Nat
    BY <1>0, <1>2, ElementOfSeq
  <2>2. ScanChunks(l, k + 1) = ScanChunk(r, c, off)
    BY ScanNext
  <2> HIDE DEF r, c, off
  <2>3. ScanTyped(ScanChunk(r, c, off))
    BY <2>1, ScanStepTyped
  <2> QED BY <2>2, <2>3
<1>3. Len(l) \in Good
  <2> HIDE DEF Good
  <2> QED BY <1>0, <1>1, <1>2, NatSetInduction
<1>4. n \in Good
  <2> HIDE DEF Good
  <2> QED BY <1>0, <1>1, <1>2, NatSetInduction
<1> QED BY <1>0, <1>4

\* The types of what is recovered.
LEMMA OwnType == ASSUME NEW es \in Seq(CpEntry), NEW x PROVE Own(es, x) \in Seq(IndexEntry)
<1>1. EntriesOf(EmptyMap, x) \in Seq(IndexEntry)
  BY EntriesOfEmpty, EmptySeq
<1> QED BY <1>1, OwnAdded

\* The entries a scan returns for a track.
LEMMA RecoveredType ==
    ASSUME NEW l \in Seq(Chunk), NEW n \in 0 .. Len(l), NEW x
    PROVE  Base(l, n, x) \in Seq(IndexEntry) /\ Rec(l, n, x) \in Seq(IndexEntry)
<1>1. ScanTyped(ScanChunks(l, n))
  BY ScanTypes
<1> DEFINE a == Base(l, n, x)
           t == ScanChunks(l, n).tail
           b == Own(t, x)
<1>2. a \in Seq(IndexEntry) /\ t \in Seq(CpEntry)
  BY <1>1 DEF ScanTyped, Base
<1> HIDE DEF t
<1>3. b \in Seq(IndexEntry)
  BY <1>2, OwnType
<1> HIDE DEF a, b
<1>4. Cat(a, b) \in Seq(IndexEntry)
  BY <1>2, <1>3, CatProperties
<1> QED BY <1>2, <1>4 DEF Rec, a, b, t

\* What Scan returns: the index of the scan with the tail added to it.
LEMMA ScanFields ==
    ASSUME NEW l \in Seq(Chunk), NEW n \in 0 .. Len(l)
    PROVE  LET r == ScanChunks(l, n)
           IN  /\ Scan(l, n).tracks = r.tracks /\ SameCounters(Scan(l, n), r)
               /\ \A x : EntriesOf(Scan(l, n).idx, x) = Rec(l, n, x)
<1> DEFINE r == ScanChunks(l, n)
           new == IndexAddAll(r.idx, r.tail)
<1>1. ScanTyped(r)
  BY ScanTypes
<1>2. Scan(l, n) = [r EXCEPT !.idx = new, !.tail = <<>>]
  BY DEF Scan
<1>3. ASSUME NEW x PROVE EntriesOf(new, x) = Rec(l, n, x)
  <2> DEFINE ix == r.idx
             es == r.tail
  <2>1. es \in Seq(CpEntry) /\ EntriesOf(ix, x) \in Seq(IndexEntry)
    BY <1>1 DEF ScanTyped
  <2> HIDE DEF ix, es
  <2>2. EntriesOf(IndexAddAll(ix, es), x) = Cat(EntriesOf(ix, x), Own(es, x))
    BY <2>1, OwnAdded
  <2> QED BY <2>2 DEF ix, es, Rec, Base
<1> HIDE DEF r, new
<1>4. LET q == Scan(l, n)
      IN  q.tracks = r.tracks /\ SameCounters(q, r) /\ q.idx = new
  BY <1>1, <1>2 DEF ScanTyped, ScanShape, SameCounters
<1> QED BY <1>3, <1>4 DEF r

\* One chunk more recovers the entry of a keyframe; a checkpoint replaces what
\* the tail had by its own entries.
LEMMA RecoveredNext ==
    ASSUME NEW l \in Seq(Chunk), NEW n \in Nat, n + 1 <= Len(l), NEW x
    PROVE  LET c == l[n + 1]
               e == [pts |-> c.frame.pts, off |-> n + 1]
           IN  /\ ~IsCheckpoint(c) =>
                    /\ Base(l, n + 1, x) = Base(l, n, x)
                    /\ Rec(l, n + 1, x) = IF SyncPointOf(c, x) THEN Append(Rec(l, n, x), e)
                                          ELSE Rec(l, n, x)
               /\ IsCheckpoint(c) =>
                    /\ Base(l, n + 1, x) = Cat(Base(l, n, x), Own(c.entries, x))
                    /\ Rec(l, n + 1, x) = Base(l, n + 1, x)
<1> DEFINE r == ScanChunks(l, n)
           q == ScanChunks(l, n + 1)
           c == l[n + 1]
           off == n + 1
           e == [pts |-> c.frame.pts, off |-> off]
<1>0. /\ Len(l) \in Nat /\ n \in 0 .. Len(l) /\ off \in Nat /\ c \in Chunk
  BY LenProperties, ElementOfSeq
<1>1. q = ScanChunk(r, c, off)
  BY ScanNext
<1>2. ScanTyped(r)
  BY <1>0, ScanTypes
<1> HIDE DEF r, c, off, q
<1>3. ScanShape(r) /\ r.tail \in Seq(CpEntry) /\ EntriesOf(r.idx, x) \in Seq(IndexEntry)
  BY <1>2 DEF ScanTyped
<1> DEFINE a == EntriesOf(r.idx, x)
           t == r.tail
           b == Own(t, x)
<1>4. a \in Seq(IndexEntry) /\ b \in Seq(IndexEntry) /\ t \in Seq(CpEntry)
  <2> HIDE DEF t
  <2> QED BY <1>3, OwnType DEF t
<1>5. CASE c.type = "trackinfo"
  <2>1. q.idx = r.idx /\ q.tail = r.tail
    BY <1>1, <1>3, <1>5, ScanOfTrackInfo
  <2>2. ~IsCheckpoint(c) /\ ~SyncPointOf(c, x)
    BY <1>5 DEF IsCheckpoint, SyncPointOf, DataOf
  <2> QED BY <2>1, <2>2 DEF Base, Rec, q, r, c
<1>6. CASE c.type = "footer"
  <2>1. q = r
    BY <1>1, <1>6, ScanOfFooter
  <2>2. ~IsCheckpoint(c) /\ ~SyncPointOf(c, x)
    BY <1>6 DEF IsCheckpoint, SyncPointOf, DataOf
  <2> QED BY <2>1, <2>2 DEF Base, Rec, q, r, c
<1>7. CASE c.type = "checkpoint"
  <2>1. q.idx = IndexAddAll(r.idx, c.entries) /\ q.tail = <<>>
    BY <1>1, <1>3, <1>7, ScanOfCheckpoint
  <2>2. c.entries \in Seq(CpEntry) /\ IsCheckpoint(c)
    BY <1>0, <1>7, CheckpointEntries DEF IsCheckpoint
  <2> DEFINE es == c.entries
             own == Own(es, x)
             ix == r.idx
             sum == Cat(a, own)
  <2>3. EntriesOf(IndexAddAll(ix, es), x) = Cat(EntriesOf(ix, x), Own(es, x))
        /\ Own(es, x) \in Seq(IndexEntry)
    <3>1. es \in Seq(CpEntry) /\ EntriesOf(ix, x) \in Seq(IndexEntry)
      BY <1>3, <2>2
    <3> HIDE DEF es, ix
    <3> QED BY <3>1, OwnAdded
  <2>4. EntriesOf(q.idx, x) = sum
    BY <2>1, <2>3
  <2>5. Own(q.tail, x) = <<>>
    BY <2>1, OwnEmpty
  <2>6. sum \in Seq(IndexEntry)
    <3>1. own \in Seq(IndexEntry)
      BY <2>3
    <3> HIDE DEF own, a
    <3> QED BY <1>4, <3>1, CatProperties
  <2>7. Cat(sum, <<>>) = sum
    <3> HIDE DEF sum
    <3> QED BY <2>6, CatEmpty
  <2> QED BY <2>2, <2>4, <2>5, <2>7 DEF Base, Rec, q, r, c
<1>8. CASE c.type = "data"
  <2>1. /\ q.idx = r.idx
        /\ q.tail = IF c.frame.key THEN Append(r.tail, TailEntry(c, off)) ELSE r.tail
    BY <1>1, <1>3, <1>8, ScanOfData DEF TailEntry
  <2>2. /\ TailEntry(c, off) \in CpEntry /\ EntryOf(TailEntry(c, off)) = e
        /\ TailEntry(c, off).track = c.track
    BY <1>0, <1>8, KeyframeEntry DEF IsData, TailEntry
  <2>3. ~IsCheckpoint(c) /\ (SyncPointOf(c, x) <=> c.track = x /\ c.frame.key)
    BY <1>8 DEF IsCheckpoint, SyncPointOf, DataOf
  <2>4. CASE ~c.frame.key
    BY <2>1, <2>3, <2>4 DEF Base, Rec, q, r, c
  <2>5. CASE c.frame.key
    <3> DEFINE te == TailEntry(c, off)
    <3>1. te \in CpEntry /\ EntryOf(te) = e /\ te.track = c.track /\ e \in IndexEntry
      BY <2>2, EntryOfType
    <3> HIDE DEF te, e
    <3>2. Own(Append(t, te), x) = IF te.track = x THEN Append(Own(t, x), EntryOf(te))
                                  ELSE Own(t, x)
      <4> HIDE DEF t
      <4> QED BY <1>4, <3>1, OwnAppend
    <3>3. Append(Cat(a, b), e) = Cat(a, Append(b, e))
      <4> HIDE DEF a, b
      <4> QED BY <1>4, <3>1, CatAppend
    <3>4. Cat(a, Own(q.tail, x)) =
             IF c.track = x THEN Append(Cat(a, b), e) ELSE Cat(a, b)
      BY <2>1, <2>5, <3>1, <3>2, <3>3 DEF te
    <3>5. EntriesOf(q.idx, x) = a
      BY <2>1
    <3> QED BY <2>3, <2>5, <3>4, <3>5 DEF Base, Rec, q, r, c, e, off
  <2> QED BY <2>4, <2>5
<1> QED BY <1>0, <1>5, <1>6, <1>7, <1>8, ChunkTypes

\* What a prefix recovers does not depend on what follows.
LEMMA RecoveredSame ==
    ASSUME NEW l, NEW m, Extends(m, l), NEW n \in 0 .. Len(l), Len(l) \in Nat, NEW x
    PROVE  Base(m, n, x) = Base(l, n, x) /\ Rec(m, n, x) = Rec(l, n, x)
<1>1. n \in Nat /\ \A k \in 1 .. n : m[k] = l[k]
  BY DEF Extends
<1>2. ScanChunks(m, n) = ScanChunks(l, n)
  BY <1>1, ScanSame
<1> QED BY <1>2 DEF Base, Rec

\* What one chunk appended recovers, at the end of the log and before.
LEMMA RecoveredAppend ==
    ASSUME NEW l \in Seq(Chunk), NEW c \in Chunk, NEW x
    PROVE  LET m == Append(l, c)
               N == Len(l)
               e == [pts |-> c.frame.pts, off |-> N + 1]
           IN  /\ \A n \in 0 .. N : Rec(m, n, x) = Rec(l, n, x)
               /\ ~IsCheckpoint(c) =>
                    /\ Base(m, N + 1, x) = Base(l, N, x)
                    /\ Rec(m, N + 1, x) = IF SyncPointOf(c, x) THEN Append(Rec(l, N, x), e)
                                          ELSE Rec(l, N, x)
               /\ IsCheckpoint(c) =>
                    /\ Base(m, N + 1, x) = Cat(Base(l, N, x), Own(c.entries, x))
                    /\ Rec(m, N + 1, x) = Base(m, N + 1, x)
<1> DEFINE m == Append(l, c)
           N == Len(l)
           e == [pts |-> c.frame.pts, off |-> N + 1]
<1>1. /\ m \in Seq(Chunk) /\ Len(m) = N + 1 /\ m[N + 1] = c /\ Extends(m, l) /\ N \in Nat
  BY AppendChunk, LenProperties
<1> HIDE DEF m, N
<1>2. \A n \in 0 .. N : Base(m, n, x) = Base(l, n, x) /\ Rec(m, n, x) = Rec(l, n, x)
  BY <1>1, RecoveredSame DEF N
<1>3. LET d == m[N + 1]
          f == [pts |-> d.frame.pts, off |-> N + 1]
      IN  /\ ~IsCheckpoint(d) =>
               /\ Base(m, N + 1, x) = Base(m, N, x)
               /\ Rec(m, N + 1, x) = IF SyncPointOf(d, x) THEN Append(Rec(m, N, x), f)
                                     ELSE Rec(m, N, x)
          /\ IsCheckpoint(d) =>
               /\ Base(m, N + 1, x) = Cat(Base(m, N, x), Own(d.entries, x))
               /\ Rec(m, N + 1, x) = Base(m, N + 1, x)
  <2>1. N + 1 <= Len(m)
    BY <1>1
  <2> QED BY <1>1, <2>1, RecoveredNext
<1>4. Base(m, N, x) = Base(l, N, x) /\ Rec(m, N, x) = Rec(l, N, x)
  BY <1>1, <1>2
<1> QED BY <1>1, <1>2, <1>3, <1>4 DEF m, N

-----------------------------------------------------------------------------
(* Entries in ascending order, and the ones up to an offset.               *)

Ascending(es, n) ==
    /\ \A j, k \in 1 .. Len(es) : j < k => es[j].off < es[k].off
    /\ \A k \in 1 .. Len(es) : es[k].off <= n

\* The fields of an entry.
LEMMA EntryFields ==
    ASSUME NEW es \in Seq(IndexEntry), NEW k \in 1 .. Len(es)
    PROVE  es[k] \in IndexEntry /\ es[k].off \in Nat /\ es[k].pts \in PTS
<1>1. es[k] \in IndexEntry
  BY ElementOfSeq
<1> QED BY <1>1 DEF IndexEntry

\* An entry for the next offset keeps the order.
LEMMA AscendingAppend ==
    ASSUME NEW es \in Seq(IndexEntry), NEW n \in Nat, Ascending(es, n),
           NEW e \in IndexEntry, e.off = n + 1
    PROVE  Ascending(Append(es, e), n + 1)
<1> DEFINE fs == Append(es, e)
<1>1. /\ Len(es) \in Nat /\ Len(fs) = Len(es) + 1 /\ fs[Len(es) + 1] = e
      /\ \A k \in 1 .. Len(es) : fs[k] = es[k]
  BY LenProperties, AppendProperties
<1> HIDE DEF fs
<1>0. \A k \in 1 .. Len(es) : es[k].off \in Nat
  BY EntryFields
<1>2. \A k \in 1 .. Len(es) : fs[k].off <= n /\ fs[k].off \in Nat
  BY <1>0, <1>1 DEF Ascending
<1>3. fs[Len(es) + 1].off = n + 1
  BY <1>1
<1>4. ASSUME NEW k \in 1 .. Len(fs) PROVE fs[k].off <= n + 1
  <2>1. k \in 1 .. Len(es) \/ k = Len(es) + 1
    BY <1>1
  <2> QED BY <1>2, <1>3, <2>1
<1>5. ASSUME NEW j \in 1 .. Len(fs), NEW k \in 1 .. Len(fs), j < k
      PROVE  fs[j].off < fs[k].off
  <2>1. j \in 1 .. Len(es) /\ (k \in 1 .. Len(es) \/ k = Len(es) + 1)
    BY <1>1, <1>5
  <2>2. CASE k \in 1 .. Len(es)
    BY <1>1, <1>5, <2>1, <2>2 DEF Ascending
  <2>3. CASE k = Len(es) + 1
    BY <1>2, <1>3, <2>1, <2>3
  <2> QED BY <2>1, <2>2, <2>3
<1>6. Ascending(fs, n + 1)
  BY <1>4, <1>5 DEF Ascending
<1> QED BY <1>6 DEF fs

\* Entries up to n are entries up to any later m.
LEMMA AscendingLater ==
    ASSUME NEW es \in Seq(IndexEntry), NEW n \in Nat, NEW m \in Nat, n <= m, Ascending(es, n)
    PROVE  Ascending(es, m)
<1>1. \A k \in 1 .. Len(es) : es[k].off \in Nat
  BY EntryFields
<1>2. Len(es) \in Nat
  BY LenProperties
<1> QED BY <1>1, <1>2 DEF Ascending

\* Selecting everything, and one entry that is too late.
LEMMA UpToAll ==
    ASSUME NEW es \in Seq(IndexEntry), NEW n \in Nat,
           \A k \in 1 .. Len(es) : es[k].off <= n
    PROVE  UpTo(es, n) = es
<1> DEFINE T == [pts : PTS, off : 0 .. n]
           P(k) == SubSeq(es, 1, k)
           Good == {k \in Nat : k <= Len(es) => Select(P(k), T) = P(k)}
<1>0. Len(es) \in Nat
  BY LenProperties
<1> HIDE DEF T
<1>1. 0 \in Good
  BY PrefixWhole, SelectEmpty
<1>2. ASSUME NEW k \in Nat, k \in Good PROVE k + 1 \in Good
  <2> SUFFICES ASSUME k + 1 <= Len(es) PROVE Select(P(k + 1), T) = P(k + 1)
    OBVIOUS
  <2> DEFINE ds == P(k)
             fs == P(k + 1)
             e == es[k + 1]
  <2>1. ds \in Seq(IndexEntry) /\ e \in IndexEntry /\ fs = Append(ds, e)
    BY PrefixNext
  <2>2. Select(ds, T) = ds
    BY <1>2
  <2>3. e.off <= n
    BY <1>0
  <2> HIDE DEF e, ds, fs
  <2>4. e \in T
    BY <2>1, <2>3 DEF IndexEntry, T
  <2>5. Select(Append(ds, e), T) = IF e \in T THEN Append(Select(ds, T), e) ELSE Select(ds, T)
    BY <2>1, SelectAppend
  <2>6. Select(fs, T) = fs
    BY <2>1, <2>2, <2>4, <2>5
  <2> QED BY <2>6 DEF fs
<1>3. Len(es) \in Good
  <2> HIDE DEF Good
  <2> QED BY <1>0, <1>1, <1>2, NatSetInduction
<1>4. Select(P(Len(es)), T) = P(Len(es))
  BY <1>0, <1>3
<1> QED BY <1>4, PrefixWhole DEF UpTo, T

\* An entry behind n does not count up to n.
LEMMA UpToAppend ==
    ASSUME NEW es \in Seq(IndexEntry), NEW e \in IndexEntry, NEW n \in Nat, n < e.off
    PROVE  UpTo(Append(es, e), n) = UpTo(es, n)
<1> DEFINE T == [pts : PTS, off : 0 .. n]
<1>1. e \notin T
  BY DEF IndexEntry
<1> HIDE DEF T
<1>2. Select(Append(es, e), T) = IF e \in T THEN Append(Select(es, T), e) ELSE Select(es, T)
  BY SelectAppend
<1> QED BY <1>1, <1>2 DEF UpTo, T

-----------------------------------------------------------------------------
(* The index of one track x and what recovery makes of it: es is the index *)
(* in memory, chained the part of it that the chain of checkpoints holds,  *)
(* waiting the part that is pending, sampled whether x is an audio track.  *)

Faithful(sampled, rec, live) ==
    IF sampled THEN \A k \in 1 .. Len(live) : Contains(rec, live[k]) ELSE rec = live

TrackIndex(l, sampled, es, chained, waiting, x) ==
    /\ es \in Seq(IndexEntry) /\ chained \in Seq(IndexEntry) /\ waiting \in Seq(IndexEntry)
    /\ Base(l, Len(l), x) = chained
    /\ es = Cat(chained, waiting)
    /\ Ascending(es, Len(l))
    /\ \A n \in 0 .. Len(l) :
          Ascending(Rec(l, n, x), n) /\ Faithful(sampled, Rec(l, n, x), UpTo(es, n))

\* Which entries an appended sequence contains.
LEMMA ContainsAppend ==
    ASSUME NEW s \in Seq(IndexEntry), NEW e \in IndexEntry, NEW d
    PROVE  /\ Contains(s, d) => Contains(Append(s, e), d)
           /\ Contains(Append(s, e), e)
<1> DEFINE t == Append(s, e)
<1>1. /\ Len(s) \in Nat /\ Len(t) = Len(s) + 1 /\ t[Len(s) + 1] = e
      /\ \A i \in 1 .. Len(s) : t[i] = s[i]
  BY LenProperties, AppendProperties
<1> HIDE DEF t
<1>2. Contains(s, d) => Contains(t, d)
  BY <1>1 DEF Contains
<1>3. Contains(t, e)
  <2>1. Len(s) + 1 \in 1 .. Len(t)
    BY <1>1
  <2> QED BY <1>1, <2>1 DEF Contains
<1> QED BY <1>2, <1>3 DEF t

\* Every index is faithful to itself.
LEMMA FaithfulItself == ASSUME NEW sampled \in BOOLEAN, NEW es PROVE Faithful(sampled, es, es)
BY DEF Faithful, Contains

\* An entry added to both keeps them faithful; to the recovered one alone, on a sampled track.
LEMMA FaithfulAppend ==
    ASSUME NEW sampled \in BOOLEAN, NEW rec \in Seq(IndexEntry), NEW live \in Seq(IndexEntry),
           Faithful(sampled, rec, live), NEW e \in IndexEntry
    PROVE  /\ Faithful(sampled, Append(rec, e), Append(live, e))
           /\ sampled => Faithful(sampled, Append(rec, e), live)
<1> DEFINE r == Append(rec, e)
           v == Append(live, e)
<1>1. CASE ~sampled
  BY <1>1 DEF Faithful
<1>2. CASE sampled
  <2>1. /\ Len(live) \in Nat /\ Len(v) = Len(live) + 1 /\ v[Len(live) + 1] = e
        /\ \A i \in 1 .. Len(live) : v[i] = live[i]
    BY LenProperties, AppendProperties
  <2>2. \A k \in 1 .. Len(live) : Contains(rec, live[k])
    BY <1>2 DEF Faithful
  <2>3. \A k \in 1 .. Len(live) : Contains(r, live[k])
    BY <2>2, ContainsAppend
  <2>4. Contains(r, e)
    BY ContainsAppend
  <2> HIDE DEF r, v
  <2>5. \A k \in 1 .. Len(v) : Contains(r, v[k])
    <3> SUFFICES ASSUME NEW k \in 1 .. Len(v) PROVE Contains(r, v[k])
      OBVIOUS
    <3>1. k \in 1 .. Len(live) \/ k = Len(live) + 1
      BY <2>1
    <3> QED BY <2>1, <2>3, <2>4, <3>1
  <2>6. Faithful(sampled, r, v) /\ Faithful(sampled, r, live)
    BY <1>2, <2>3, <2>5 DEF Faithful
  <2> QED BY <2>6 DEF r, v
<1> QED BY <1>1, <1>2

\* The index in memory is the whole of its entries up to the end of the log.
LEMMA TrackIndexWhole ==
    ASSUME NEW l \in Seq(Chunk), NEW sampled \in BOOLEAN, NEW es, NEW chained, NEW waiting,
           NEW x, TrackIndex(l, sampled, es, chained, waiting, x)
    PROVE  /\ UpTo(es, Len(l)) = es
           /\ Faithful(sampled, Rec(l, Len(l), x), es)
<1>1. Len(l) \in Nat /\ Len(l) \in 0 .. Len(l)
  BY LenProperties
<1>2. es \in Seq(IndexEntry) /\ \A k \in 1 .. Len(es) : es[k].off <= Len(l)
  BY DEF TrackIndex, Ascending
<1>3. UpTo(es, Len(l)) = es
  BY <1>1, <1>2, UpToAll
<1>4. Faithful(sampled, Rec(l, Len(l), x), UpTo(es, Len(l)))
  BY <1>1 DEF TrackIndex
<1> QED BY <1>3, <1>4

\* A chunk that is neither a checkpoint nor a keyframe of the track.
LEMMA TrackIndexOther ==
    ASSUME NEW l \in Seq(Chunk), NEW sampled \in BOOLEAN, NEW es, NEW chained, NEW waiting,
           NEW x, TrackIndex(l, sampled, es, chained, waiting, x),
           NEW c \in Chunk, ~IsCheckpoint(c), ~SyncPointOf(c, x)
    PROVE  TrackIndex(Append(l, c), sampled, es, chained, waiting, x)
<1> DEFINE m == Append(l, c)
           N == Len(l)
<1>1. /\ m \in Seq(Chunk) /\ Len(m) = N + 1 /\ m[N + 1] = c /\ Extends(m, l) /\ N \in Nat
  BY AppendChunk, LenProperties
<1>2. /\ \A n \in 0 .. N : Rec(m, n, x) = Rec(l, n, x)
      /\ Base(m, N + 1, x) = Base(l, N, x) /\ Rec(m, N + 1, x) = Rec(l, N, x)
  BY RecoveredAppend
<1> HIDE DEF m
<1>4. /\ es \in Seq(IndexEntry) /\ Ascending(es, N)
      /\ Ascending(Rec(l, N, x), N) /\ Rec(l, N, x) \in Seq(IndexEntry)
  <2>1. N \in 0 .. N
    BY <1>1
  <2> QED BY <1>1, <2>1, RecoveredType DEF TrackIndex
<1>5. Ascending(es, N + 1) /\ Ascending(Rec(l, N, x), N + 1)
  BY <1>1, <1>4, AscendingLater
<1>6. Faithful(sampled, Rec(l, N, x), es)
  BY TrackIndexWhole
<1>7. UpTo(es, N + 1) = es
  BY <1>1, <1>4, <1>5, UpToAll DEF Ascending
<1>8. ASSUME NEW n \in 0 .. N + 1
      PROVE  Ascending(Rec(m, n, x), n) /\ Faithful(sampled, Rec(m, n, x), UpTo(es, n))
  <2>1. CASE n \in 0 .. N
    BY <1>2, <2>1 DEF TrackIndex
  <2>2. CASE n = N + 1
    BY <1>2, <1>5, <1>6, <1>7, <2>2
  <2> QED BY <1>1, <2>1, <2>2
<1>9. TrackIndex(m, sampled, es, chained, waiting, x)
  BY <1>1, <1>2, <1>5, <1>8 DEF TrackIndex
<1> QED BY <1>9 DEF m

\* A keyframe of the track that enters the index, in memory and in pending.
LEMMA TrackIndexKeyframe ==
    ASSUME NEW l \in Seq(Chunk), NEW sampled \in BOOLEAN, NEW es, NEW chained, NEW waiting,
           NEW x, TrackIndex(l, sampled, es, chained, waiting, x),
           NEW c \in Chunk, SyncPointOf(c, x),
           NEW e, e = [pts |-> c.frame.pts, off |-> Len(l) + 1]
    PROVE  TrackIndex(Append(l, c), sampled, Append(es, e), chained, Append(waiting, e), x)
<1> DEFINE m == Append(l, c)
           N == Len(l)
           fs == Append(es, e)
           ws == Append(waiting, e)
           R == Rec(l, N, x)
<1>1. /\ m \in Seq(Chunk) /\ Len(m) = N + 1 /\ m[N + 1] = c /\ Extends(m, l) /\ N \in Nat
  BY AppendChunk, LenProperties
<1>0. ~IsCheckpoint(c) /\ IsData(c)
  BY DEF SyncPointOf, DataOf, IsCheckpoint, IsData
<1>2. e \in IndexEntry /\ e.off = N + 1
  BY <1>0, <1>1, KeyframeEntry DEF IndexEntry, Frame
<1>3. /\ \A n \in 0 .. N : Rec(m, n, x) = Rec(l, n, x)
      /\ Base(m, N + 1, x) = Base(l, N, x)
      /\ Rec(m, N + 1, x) = Append(R, [pts |-> c.frame.pts, off |-> N + 1])
  BY <1>0, RecoveredAppend
<1> HIDE DEF m
<1>4. Rec(m, N + 1, x) = Append(R, e)
  BY <1>3
<1>5. /\ es \in Seq(IndexEntry) /\ Ascending(es, N)
      /\ chained \in Seq(IndexEntry) /\ waiting \in Seq(IndexEntry)
      /\ Ascending(R, N) /\ R \in Seq(IndexEntry)
  <2>1. N \in 0 .. N
    BY <1>1
  <2> QED BY <1>1, <2>1, RecoveredType DEF TrackIndex
<1>6. fs \in Seq(IndexEntry) /\ ws \in Seq(IndexEntry)
  BY <1>2, <1>5, AppendProperties
<1>7. Ascending(fs, N + 1) /\ Ascending(Append(R, e), N + 1)
  <2> HIDE DEF R, N
  <2> QED BY <1>1, <1>2, <1>5, AscendingAppend
<1>8. Faithful(sampled, Append(R, e), fs)
  <2>1. Faithful(sampled, R, es)
    BY TrackIndexWhole
  <2> HIDE DEF R
  <2> QED BY <1>2, <1>5, <2>1, FaithfulAppend
<1>9. fs = Cat(chained, ws)
  <2>1. Append(Cat(chained, waiting), e) = Cat(chained, Append(waiting, e))
    <3>1. e \in IndexEntry
      BY <1>2
    <3>2. chained \in Seq(IndexEntry) /\ waiting \in Seq(IndexEntry)
      BY <1>5
    <3> QED BY ONLY <3>1, <3>2, CatAppend
  <2> QED BY <2>1 DEF TrackIndex
<1>10. \A n \in 0 .. N : UpTo(fs, n) = UpTo(es, n)
  BY <1>1, <1>2, <1>5, UpToAppend
<1> HIDE DEF fs, ws
<1>11. UpTo(fs, N + 1) = fs
  BY <1>1, <1>6, <1>7, UpToAll DEF Ascending
<1>12. ASSUME NEW n \in 0 .. N + 1
      PROVE  Ascending(Rec(m, n, x), n) /\ Faithful(sampled, Rec(m, n, x), UpTo(fs, n))
  <2>1. CASE n \in 0 .. N
    BY <1>3, <1>10, <2>1 DEF TrackIndex
  <2>2. CASE n = N + 1
    BY <1>4, <1>7, <1>8, <1>11, <2>2
  <2> QED BY <1>1, <2>1, <2>2
<1>13. TrackIndex(m, sampled, fs, chained, ws, x)
  BY <1>1, <1>3, <1>5, <1>6, <1>7, <1>9, <1>12 DEF TrackIndex
<1> QED BY <1>13 DEF m, fs, ws

\* A keyframe of an audio track that the index leaves out.
LEMMA TrackIndexUnsampled ==
    ASSUME NEW l \in Seq(Chunk), NEW sampled \in BOOLEAN, sampled,
           NEW es, NEW chained, NEW waiting,
           NEW x, TrackIndex(l, sampled, es, chained, waiting, x),
           NEW c \in Chunk, SyncPointOf(c, x)
    PROVE  TrackIndex(Append(l, c), sampled, es, chained, waiting, x)
<1> DEFINE m == Append(l, c)
           N == Len(l)
           R == Rec(l, N, x)
           e == [pts |-> c.frame.pts, off |-> N + 1]
<1>1. /\ m \in Seq(Chunk) /\ Len(m) = N + 1 /\ m[N + 1] = c /\ Extends(m, l) /\ N \in Nat
  BY AppendChunk, LenProperties
<1>0. ~IsCheckpoint(c) /\ IsData(c)
  BY DEF SyncPointOf, DataOf, IsCheckpoint, IsData
<1>2. e \in IndexEntry /\ e.off = N + 1
  BY <1>0, <1>1, KeyframeEntry DEF IndexEntry, Frame
<1>3. /\ \A n \in 0 .. N : Rec(m, n, x) = Rec(l, n, x)
      /\ Base(m, N + 1, x) = Base(l, N, x)
      /\ Rec(m, N + 1, x) = Append(R, [pts |-> c.frame.pts, off |-> N + 1])
  BY <1>0, RecoveredAppend
<1> HIDE DEF m
<1>4. Rec(m, N + 1, x) = Append(R, e)
  BY <1>3
<1> HIDE DEF e
<1>5. /\ es \in Seq(IndexEntry) /\ Ascending(es, N)
      /\ Ascending(R, N) /\ R \in Seq(IndexEntry)
  <2>1. N \in 0 .. N
    BY <1>1
  <2> QED BY <1>1, <2>1, RecoveredType DEF TrackIndex
<1>6. Ascending(es, N + 1) /\ Ascending(Append(R, e), N + 1)
  <2>1. Ascending(es, N + 1)
    BY <1>1, <1>5, AscendingLater
  <2> HIDE DEF R, N
  <2> QED BY <1>1, <1>2, <1>5, <2>1, AscendingAppend
<1>7. Faithful(sampled, Append(R, e), es)
  <2>1. Faithful(sampled, R, es)
    BY TrackIndexWhole
  <2> HIDE DEF R
  <2> QED BY <1>2, <1>5, <2>1, FaithfulAppend
<1>8. UpTo(es, N + 1) = es
  BY <1>1, <1>5, <1>6, UpToAll DEF Ascending
<1>9. ASSUME NEW n \in 0 .. N + 1
      PROVE  Ascending(Rec(m, n, x), n) /\ Faithful(sampled, Rec(m, n, x), UpTo(es, n))
  <2>1. CASE n \in 0 .. N
    BY <1>3, <2>1 DEF TrackIndex
  <2>2. CASE n = N + 1
    BY <1>4, <1>6, <1>7, <1>8, <2>2
  <2>3. n \in 0 .. N \/ n = N + 1
    BY <1>1
  <2> QED BY <2>1, <2>2, <2>3, Zenon
<1>10. TrackIndex(m, sampled, es, chained, waiting, x)
  BY <1>1, <1>3, <1>6, <1>9 DEF TrackIndex
<1> QED BY <1>10 DEF m

\* A checkpoint with what was waiting.
LEMMA TrackIndexCheckpoint ==
    ASSUME NEW l \in Seq(Chunk), NEW sampled \in BOOLEAN, NEW es, NEW chained, NEW waiting,
           NEW x, TrackIndex(l, sampled, es, chained, waiting, x),
           NEW c \in Chunk, IsCheckpoint(c), Own(c.entries, x) = waiting
    PROVE  TrackIndex(Append(l, c), sampled, es, es, <<>>, x)
<1> DEFINE m == Append(l, c)
           N == Len(l)
<1>1. /\ m \in Seq(Chunk) /\ Len(m) = N + 1 /\ m[N + 1] = c /\ Extends(m, l) /\ N \in Nat
  BY AppendChunk, LenProperties
<1>2. \A n \in 0 .. N : Rec(m, n, x) = Rec(l, n, x)
  BY RecoveredAppend
<1>3. /\ Base(m, N + 1, x) = Cat(Base(l, N, x), Own(c.entries, x))
      /\ Rec(m, N + 1, x) = Base(m, N + 1, x)
  BY RecoveredAppend
<1> HIDE DEF m
<1>4. /\ es \in Seq(IndexEntry) /\ Ascending(es, N) /\ Base(l, N, x) = chained
      /\ es = Cat(chained, waiting)
  BY DEF TrackIndex
<1>5. Base(m, N + 1, x) = es /\ Rec(m, N + 1, x) = es
  BY <1>3, <1>4
<1>6. Ascending(es, N + 1)
  BY <1>1, <1>4, AscendingLater
<1>7. UpTo(es, N + 1) = es
  BY <1>1, <1>4, <1>6, UpToAll DEF Ascending
<1>8. ASSUME NEW n \in 0 .. N + 1
      PROVE  Ascending(Rec(m, n, x), n) /\ Faithful(sampled, Rec(m, n, x), UpTo(es, n))
  <2>1. CASE n \in 0 .. N
    BY <1>2, <2>1 DEF TrackIndex
  <2>2. CASE n = N + 1
    BY <1>5, <1>6, <1>7, <2>2, FaithfulItself
  <2> QED BY <1>1, <2>1, <2>2
<1>9. es = Cat(es, <<>>) /\ <<>> \in Seq(IndexEntry)
  BY <1>4, CatEmpty, EmptySeq
<1>10. TrackIndex(m, sampled, es, es, <<>>, x)
  BY <1>1, <1>4, <1>5, <1>6, <1>8, <1>9 DEF TrackIndex
<1> QED BY <1>10 DEF m

\* Appending to the chain.
LEMMA ChainAppend ==
    ASSUME NEW l \in Seq(Chunk), PointsBack(l),
           NEW c \in Chunk, IsCheckpoint(c) => c.prev \in 0 .. Len(l)
    PROVE  LET m == Append(l, c)
           IN  /\ PointsBack(m)
               /\ \A p \in 0 .. Len(l) : ChainEntries(m, p) = ChainEntries(l, p)
               /\ IsCheckpoint(c) =>
                    ChainEntries(m, Len(l) + 1) = Cat(ChainEntries(l, c.prev), c.entries)
<1> DEFINE m == Append(l, c)
           N == Len(l)
<1>1. /\ m \in Seq(Chunk) /\ Len(m) = N + 1 /\ m[N + 1] = c /\ Extends(m, l) /\ N \in Nat
  BY AppendChunk, LenProperties
<1> HIDE DEF m
<1>2. PointsBack(m)
  <2> SUFFICES ASSUME NEW i \in 1 .. Len(m), IsCheckpoint(m[i])
               PROVE  m[i].prev \in 0 .. i - 1
    BY DEF PointsBack
  <2>1. CASE i \in 1 .. N
    BY <1>1, <2>1 DEF Extends, PointsBack
  <2>2. CASE i = N + 1
    BY <1>1, <2>2
  <2> QED BY <1>1, <2>1, <2>2
<1>3. \A p \in 0 .. N : ChainEntries(m, p) = ChainEntries(l, p)
  BY <1>1, <1>2, ChainSame
<1>4. ASSUME IsCheckpoint(c)
      PROVE  ChainEntries(m, N + 1) = Cat(ChainEntries(l, c.prev), c.entries)
  <2> DEFINE i == N + 1
  <2>1. i \in 1 .. Len(m) /\ IsCheckpoint(m[i]) /\ m[i] = c
    BY <1>1, <1>4
  <2> HIDE DEF i
  <2>2. ChainEntries(m, i) = Cat(ChainEntries(m, m[i].prev), m[i].entries)
    BY <1>1, <1>2, <2>1, ChainNext
  <2>3. ChainEntries(m, c.prev) = ChainEntries(l, c.prev)
    BY <1>3, <1>4
  <2> QED BY <2>1, <2>2, <2>3 DEF i
<1> QED BY <1>2, <1>3, <1>4 DEF m

-----------------------------------------------------------------------------
(* The index of all tracks.                                                *)

IsSampled(trs, x) == x \in DOMAIN trs /\ trs[x].kind = "audio"

IndexInv(l, trs, ix, pend, prev) ==
    /\ l \in Seq(Chunk) /\ PointsBack(l) /\ prev \in 0 .. Len(l) /\ pend \in Seq(CpEntry)
    /\ \A x \in TrackIDs :
          TrackIndex(l, IsSampled(trs, x), EntriesOf(ix, x),
                     Own(ChainEntries(l, prev), x), Own(pend, x), x)

\* Sampling may leave out entries of tracks that had them all.
LEMMA TrackIndexSampled ==
    ASSUME NEW l, NEW a \in BOOLEAN, NEW b \in BOOLEAN, a => b,
           NEW es, NEW chained, NEW waiting, NEW x,
           TrackIndex(l, a, es, chained, waiting, x)
    PROVE  TrackIndex(l, b, es, chained, waiting, x)
<1>1. ASSUME NEW rec, NEW live, Faithful(a, rec, live) PROVE Faithful(b, rec, live)
  BY <1>1 DEF Faithful, Contains
<1> QED BY <1>1 DEF TrackIndex

\* The invariant depends on the tracks only through which are sampled.
LEMMA IndexOfOtherTracks ==
    ASSUME NEW l, NEW trs, NEW trs2, NEW ix, NEW pend, NEW prev,
           IndexInv(l, trs, ix, pend, prev),
           \A x \in TrackIDs : IsSampled(trs, x) => IsSampled(trs2, x)
    PROVE  IndexInv(l, trs2, ix, pend, prev)
<1>1. ASSUME NEW x \in TrackIDs
      PROVE  TrackIndex(l, IsSampled(trs2, x), EntriesOf(ix, x),
                        Own(ChainEntries(l, prev), x), Own(pend, x), x)
  <2> DEFINE a == IsSampled(trs, x)
             b == IsSampled(trs2, x)
  <2>1. a \in BOOLEAN /\ b \in BOOLEAN /\ (a => b)
    BY DEF IsSampled
  <2>2. TrackIndex(l, a, EntriesOf(ix, x), Own(ChainEntries(l, prev), x), Own(pend, x), x)
    BY DEF IndexInv
  <2> HIDE DEF a, b
  <2>3. TrackIndex(l, b, EntriesOf(ix, x), Own(ChainEntries(l, prev), x), Own(pend, x), x)
    BY <2>1, <2>2, TrackIndexSampled
  <2> QED BY <2>3 DEF b
<1> QED BY <1>1 DEF IndexInv

\* A chunk that the index does not care for.
LEMMA IndexOfOtherChunk ==
    ASSUME NEW l, NEW trs, NEW ix, NEW pend, NEW prev, IndexInv(l, trs, ix, pend, prev),
           NEW c \in Chunk, ~IsCheckpoint(c), \A x \in TrackIDs : ~SyncPointOf(c, x)
    PROVE  IndexInv(Append(l, c), trs, ix, pend, prev)
<1> DEFINE m == Append(l, c)
<1>1. l \in Seq(Chunk) /\ PointsBack(l) /\ prev \in 0 .. Len(l) /\ pend \in Seq(CpEntry)
  BY DEF IndexInv
<1>2. PointsBack(m) /\ ChainEntries(m, prev) = ChainEntries(l, prev)
  BY <1>1, ChainAppend
<1>3. m \in Seq(Chunk) /\ prev \in 0 .. Len(m)
  BY <1>1, AppendChunk, LenProperties
<1>4. ASSUME NEW x \in TrackIDs
      PROVE  TrackIndex(m, IsSampled(trs, x), EntriesOf(ix, x),
                        Own(ChainEntries(l, prev), x), Own(pend, x), x)
  <2> DEFINE a == IsSampled(trs, x)
  <2>1. a \in BOOLEAN /\ ~SyncPointOf(c, x)
    BY DEF IsSampled
  <2>2. TrackIndex(l, a, EntriesOf(ix, x), Own(ChainEntries(l, prev), x), Own(pend, x), x)
    BY DEF IndexInv
  <2> HIDE DEF a
  <2>3. TrackIndex(m, a, EntriesOf(ix, x), Own(ChainEntries(l, prev), x), Own(pend, x), x)
    BY <1>1, <2>1, <2>2, TrackIndexOther
  <2> QED BY <2>3 DEF a
<1> HIDE DEF m
<1>5. IndexInv(m, trs, ix, pend, prev)
  BY <1>1, <1>2, <1>3, <1>4 DEF IndexInv
<1> QED BY <1>5 DEF m

\* A checkpoint with the pending entries.
LEMMA IndexOfCheckpoint ==
    ASSUME NEW l, NEW trs, NEW ix, NEW pend, NEW prev, IndexInv(l, trs, ix, pend, prev),
           NEW c \in Chunk, IsCheckpoint(c), c.prev = prev, c.entries = pend
    PROVE  IndexInv(Append(l, c), trs, ix, <<>>, Len(l) + 1)
<1> DEFINE m == Append(l, c)
           chain == ChainEntries(l, prev)
           all == Cat(chain, pend)
<1>1. l \in Seq(Chunk) /\ PointsBack(l) /\ prev \in 0 .. Len(l) /\ pend \in Seq(CpEntry)
  BY DEF IndexInv
<1>2. PointsBack(m) /\ ChainEntries(m, Len(l) + 1) = all
  BY <1>1, ChainAppend
<1>3. m \in Seq(Chunk) /\ Len(l) + 1 \in 0 .. Len(m) /\ <<>> \in Seq(CpEntry)
  BY <1>1, AppendChunk, LenProperties, EmptySeq
<1>4. chain \in Seq(CpEntry)
  BY <1>1, ChainType
<1>5. ASSUME NEW x \in TrackIDs
      PROVE  TrackIndex(m, IsSampled(trs, x), EntriesOf(ix, x), Own(all, x), Own(<<>>, x), x)
  <2> DEFINE a == IsSampled(trs, x)
             es == EntriesOf(ix, x)
  <2>1. a \in BOOLEAN
    BY DEF IsSampled
  <2>2. TrackIndex(l, a, es, Own(chain, x), Own(pend, x), x)
    BY DEF IndexInv
  <2> HIDE DEF a, chain, es
  <2>3. TrackIndex(m, a, es, es, <<>>, x)
    BY <1>1, <2>1, <2>2, TrackIndexCheckpoint
  <2>4. es = Cat(Own(chain, x), Own(pend, x))
    BY <2>2 DEF TrackIndex
  <2>5. Own(all, x) = es
    BY <1>1, <1>4, <2>4, OwnOfCat
  <2>6. Own(<<>>, x) = <<>>
    BY OwnEmpty
  <2> HIDE DEF all
  <2> QED BY <2>3, <2>5, <2>6 DEF a, es
<1> HIDE DEF m, all
<1>6. IndexInv(m, trs, ix, <<>>, Len(l) + 1)
  BY <1>2, <1>3, <1>5 DEF IndexInv
<1> QED BY <1>6 DEF m

\* A frame: a keyframe enters the index, unless its track is sampled.
LEMMA IndexOfFrame ==
    ASSUME NEW l, NEW trs, NEW ix, NEW pend, NEW prev, IndexInv(l, trs, ix, pend, prev),
           NEW id \in TrackIDs, NEW fr \in Frame, NEW c, c = [type |-> "data", track |-> id, frame |-> fr],
           NEW indexed \in BOOLEAN, indexed => fr.key, fr.key /\ ~indexed => IsSampled(trs, id),
           NEW e, e = [track |-> id, pts |-> fr.pts, off |-> Len(l) + 1],
           NEW ix2, ix2 = IF indexed THEN IndexAdd(ix, id, fr.pts, Len(l) + 1) ELSE ix,
           NEW pend2, pend2 = IF indexed THEN Append(pend, e) ELSE pend
    PROVE  IndexInv(Append(l, c), trs, ix2, pend2, prev)
<1> DEFINE m == Append(l, c)
           new == [pts |-> fr.pts, off |-> Len(l) + 1]
<1>1. /\ l \in Seq(Chunk) /\ PointsBack(l) /\ prev \in 0 .. Len(l) /\ pend \in Seq(CpEntry)
      /\ Len(l) \in Nat
  BY LenProperties DEF IndexInv
<1>2. c \in Chunk /\ ~IsCheckpoint(c)
  BY ChunksTyped DEF IsCheckpoint
<1>3. PointsBack(m) /\ ChainEntries(m, prev) = ChainEntries(l, prev)
  BY <1>1, <1>2, ChainAppend
<1>4. m \in Seq(Chunk) /\ prev \in 0 .. Len(m)
  BY <1>1, <1>2, AppendChunk
<1>5. e \in CpEntry /\ EntryOf(e) = new /\ e.track = id
  BY <1>1 DEF CpEntry, EntryOf, Frame
<1>6. pend2 \in Seq(CpEntry)
  BY <1>1, <1>5, AppendProperties
<1>7. ASSUME NEW x \in TrackIDs
      PROVE  TrackIndex(m, IsSampled(trs, x), EntriesOf(ix2, x),
                        Own(ChainEntries(l, prev), x), Own(pend2, x), x)
  <2> DEFINE a == IsSampled(trs, x)
             es == EntriesOf(ix, x)
             chained == Own(ChainEntries(l, prev), x)
             waiting == Own(pend, x)
  <2>1. a \in BOOLEAN /\ (SyncPointOf(c, x) <=> x = id /\ fr.key)
    BY DEF IsSampled, SyncPointOf, DataOf
  <2>2. TrackIndex(l, a, es, chained, waiting, x)
    BY DEF IndexInv
  <2>3. EntriesOf(ix2, x) = IF indexed /\ x = id THEN Append(es, new) ELSE es
    <3>1. EntriesOf(IndexAdd(ix, id, fr.pts, Len(l) + 1), x) =
             IF x = id THEN Append(EntriesOf(ix, id), new) ELSE EntriesOf(ix, x)
      <4>1. \A i, pts, off :
               EntriesOf(IndexAdd(ix, i, pts, off), x) =
                   IF x = i THEN Append(EntriesOf(ix, i), [pts |-> pts, off |-> off])
                   ELSE EntriesOf(ix, x)
        BY EntriesOfAdd
      <4> QED BY <4>1
    <3> QED BY <3>1
  <2>4. Own(pend2, x) = IF indexed /\ x = id THEN Append(waiting, new) ELSE waiting
    <3>1. Own(Append(pend, e), x) = IF e.track = x THEN Append(Own(pend, x), EntryOf(e))
                                    ELSE Own(pend, x)
      BY <1>1, <1>5, OwnAppend
    <3> QED BY <1>5, <3>1
  <2> HIDE DEF a, es, chained, waiting
  <2>5. CASE ~SyncPointOf(c, x)
    <3>1. TrackIndex(m, a, es, chained, waiting, x)
      BY <1>1, <1>2, <2>1, <2>2, <2>5, TrackIndexOther
    <3> QED BY <2>1, <2>3, <2>4, <2>5, <3>1 DEF a, chained
  <2>6. CASE SyncPointOf(c, x) /\ indexed
    <3>1. new = [pts |-> c.frame.pts, off |-> Len(l) + 1]
      OBVIOUS
    <3> HIDE DEF new
    <3>2. TrackIndex(m, a, Append(es, new), chained, Append(waiting, new), x)
      BY <1>1, <1>2, <2>1, <2>2, <2>6, <3>1, TrackIndexKeyframe
    <3> QED BY <2>1, <2>3, <2>4, <2>6, <3>2 DEF a, chained
  <2>7. CASE SyncPointOf(c, x) /\ ~indexed
    <3>1. a
      BY <2>1, <2>7 DEF a
    <3>2. TrackIndex(m, a, es, chained, waiting, x)
      BY <1>1, <1>2, <2>1, <2>2, <2>7, <3>1, TrackIndexUnsampled
    <3> QED BY <2>3, <2>4, <2>7, <3>2 DEF a, chained
  <2> QED BY <2>5, <2>6, <2>7
<1> HIDE DEF m
<1>8. IndexInv(m, trs, ix2, pend2, prev)
  BY <1>3, <1>4, <1>6, <1>7 DEF IndexInv
<1> QED BY <1>8 DEF m

-----------------------------------------------------------------------------
(* Track ids.  They are given in the order 1, 2, .., 0, so that the next   *)
(* one is fresh until all are taken.                                       *)

Fresh ==
    \E n \in 0 .. TrackIDSpace :
        /\ DOMAIN tracks = IF n = TrackIDSpace THEN TrackIDs ELSE 1 .. n
        /\ nextTrack = (n + 1) % TrackIDSpace

\* The next id is not taken, at first ...
LEMMA FreshInit == Init => Fresh
<1> SUFFICES ASSUME Init PROVE Fresh
  OBVIOUS
<1>1. TrackIDSpace \in Nat /\ TrackIDSpace >= 2
  BY TrackIDSpaceAssumption
<1>2. DOMAIN tracks = 1 .. 0 /\ nextTrack = (0 + 1) % TrackIDSpace
  BY <1>1 DEF Init, EmptyMap
<1>3. 0 \in 0 .. TrackIDSpace /\ 0 # TrackIDSpace
  BY <1>1
<1> QED BY <1>2, <1>3 DEF Fresh

\* The track that AddTrack adds is new.
LEMMA FreshTrack ==
    ASSUME Fresh, Cardinality(DOMAIN tracks) < TrackIDSpace
    PROVE  /\ nextTrack \notin DOMAIN tracks
           /\ \E n \in 0 .. TrackIDSpace :
                 /\ DOMAIN tracks \cup {nextTrack} = IF n = TrackIDSpace THEN TrackIDs ELSE 1 .. n
                 /\ (nextTrack + 1) % TrackIDSpace = (n + 1) % TrackIDSpace
<1>1. TrackIDSpace \in Nat /\ TrackIDSpace >= 2
  BY TrackIDSpaceAssumption
<1>2. PICK n \in 0 .. TrackIDSpace :
         /\ DOMAIN tracks = IF n = TrackIDSpace THEN TrackIDs ELSE 1 .. n
         /\ nextTrack = (n + 1) % TrackIDSpace
  BY DEF Fresh
<1>3. n # TrackIDSpace
  <2>1. Cardinality(0 .. TrackIDSpace - 1) = TrackIDSpace
    BY <1>1, FS_Interval
  <2> QED BY <1>1, <1>2, <2>1 DEF TrackIDs
<1>4. DOMAIN tracks = 1 .. n /\ n \in Nat /\ n < TrackIDSpace
  BY <1>1, <1>2, <1>3
<1>5. CASE n = TrackIDSpace - 1
  <2>1. nextTrack = 0
    BY <1>1, <1>2, <1>5
  <2>2. nextTrack \notin DOMAIN tracks /\ DOMAIN tracks \cup {nextTrack} = TrackIDs
    BY <1>1, <1>4, <1>5, <2>1 DEF TrackIDs
  <2>3. (nextTrack + 1) % TrackIDSpace = (TrackIDSpace + 1) % TrackIDSpace
    BY <1>1, <2>1
  <2>4. TrackIDSpace \in 0 .. TrackIDSpace
    BY <1>1
  <2> QED BY <2>2, <2>3, <2>4
<1>6. CASE n # TrackIDSpace - 1
  <2>1. nextTrack = n + 1 /\ n + 1 < TrackIDSpace /\ n + 1 \in 0 .. TrackIDSpace
    BY <1>1, <1>2, <1>4, <1>6
  <2>2. nextTrack \notin DOMAIN tracks /\ DOMAIN tracks \cup {nextTrack} = 1 .. n + 1
    BY <1>4, <2>1
  <2>3. (nextTrack + 1) % TrackIDSpace = ((n + 1) + 1) % TrackIDSpace /\ n + 1 # TrackIDSpace
    BY <1>1, <2>1
  <2> QED BY <2>1, <2>2, <2>3
<1> QED BY <1>5, <1>6

\* AddTrack takes a fresh id as long as there are no more tracks than ids.
LEMMA AddTrackFresh ==
    ASSUME MaxTracks <= TrackIDSpace, TypeOK, Fresh, NEW mode \in TrackModes, AddTrack(mode)
    PROVE  nextTrack \notin DOMAIN tracks /\ Fresh'
<1>1. IsFiniteSet(DOMAIN tracks)
  <2>1. IsFiniteSet(0 .. TrackIDSpace - 1)
    BY TrackIDSpaceAssumption, FS_Interval
  <2> QED BY <2>1, FS_Subset DEF TypeOK, TracksTypeOK, TrackIDs
<1>2. Cardinality(DOMAIN tracks) < TrackIDSpace
  <2>1. Cardinality(DOMAIN tracks) \in Nat
    BY <1>1, FS_CardinalityType
  <2>2. Cardinality(DOMAIN tracks) < MaxTracks
    BY DEF AddTrack
  <2> QED BY <2>1, <2>2, TrackIDSpaceAssumption, WriterAssumption
<1>3. nextTrack \notin DOMAIN tracks
  BY <1>2, FreshTrack
<1>4. CASE UNCHANGED <<tracks, nextTrack>>
  BY <1>3, <1>4 DEF Fresh
<1>5. CASE /\ tracks' = Put(tracks, nextTrack, NewTrack(mode))
           /\ nextTrack' = (nextTrack + 1) % TrackIDSpace
  <2>1. DOMAIN tracks' = DOMAIN tracks \cup {nextTrack}
    BY <1>5 DEF Put
  <2>2. Fresh'
    BY <1>2, <1>5, <2>1, FreshTrack DEF Fresh
  <2> QED BY <1>3, <2>2
<1> QED BY <1>4, <1>5 DEF AddTrack

\* WriteFrame keeps the set of tracks.
LEMMA WriteFrameTracks ==
    ASSUME TypeOK, NEW id \in DOMAIN tracks, NEW fr \in Frames, WriteFrame(id, fr)
    PROVE  DOMAIN tracks' = DOMAIN tracks
<1>1. CASE UNCHANGED tracks
  BY <1>1
<1>2. CASE CommitFrame(id, fr)
  <2> DEFINE tracks1 == [tracks EXCEPT ![id] = Counted(@, fr)]
  <2>1. tracks' = tracks1 \/ tracks' = ResetSampling(tracks1)
    BY <1>2, Zenon DEF CommitFrame, MaybeCheckpoint, NotDue, NothingPending,
       CheckpointWritten, CheckpointFailed
  <2> QED BY <2>1 DEF ResetSampling
<1> QED BY <1>1, <1>2 DEF WriteFrame

\* Track ids are given once.
LEMMA FreshHolds ==
    ASSUME MaxTracks <= TrackIDSpace
    PROVE  Spec => []Fresh
<1>1. TypeOK /\ Fresh /\ [Next]_vars => Fresh'
  <2> SUFFICES ASSUME TypeOK, Fresh, [Next]_vars PROVE Fresh'
    OBVIOUS
  <2>1. ASSUME NEW mode \in TrackModes, AddTrack(mode) PROVE Fresh'
    BY <2>1, AddTrackFresh
  <2>2. ASSUME NEW id \in DOMAIN tracks, NEW fr \in Frames, WriteFrame(id, fr) PROVE Fresh'
    <3>1. DOMAIN tracks' = DOMAIN tracks
      BY <2>2, WriteFrameTracks
    <3>2. nextTrack' = nextTrack
      BY <2>2 DEF WriteFrame
    <3> QED BY <3>1, <3>2 DEF Fresh
  <2>3. CASE Close
    BY <2>3 DEF Close, Fresh
  <2>4. CASE Finalize
    BY <2>4 DEF Finalize, Fresh
  <2>5. CASE UNCHANGED vars
    BY <2>5 DEF vars, Fresh
  <2> QED BY <2>1, <2>2, <2>3, <2>4, <2>5 DEF Next
<1> QED BY <1>1, FreshInit, TypeCorrect, PTL DEF Spec

-----------------------------------------------------------------------------
(* The index in every reachable state.                                     *)

IndexState == IndexInv(log, tracks, idx, pending, prevCPOff)

\* The index invariant, action by action.
LEMMA IndexInit == Init => IndexState
<1> SUFFICES ASSUME Init PROVE IndexInv(<<>>, EmptyMap, EmptyMap, <<>>, 0)
  BY DEF IndexState, Init
<1> DEFINE l == <<>>
<1>1. l \in Seq(Chunk) /\ Len(l) = 0 /\ <<>> \in Seq(CpEntry) /\ <<>> \in Seq(IndexEntry)
  BY EmptySeq
<1>2. PointsBack(l) /\ 0 \in 0 .. Len(l)
  BY <1>1 DEF PointsBack
<1>3. ChainEntries(l, 0) = <<>>
  BY <1>1, <1>2, ChainStart
<1>4. ASSUME NEW x \in TrackIDs
      PROVE  TrackIndex(l, IsSampled(EmptyMap, x), <<>>, <<>>, <<>>, x)
  <2>1. ScanChunks(l, 0) = EmptyScan
    BY ScanNone
  <2>2. Base(l, 0, x) = <<>> /\ Own(ScanChunks(l, 0).tail, x) = <<>>
    BY <2>1, EntriesOfEmpty, OwnEmpty DEF Base, EmptyScan
  <2>3. Cat(<<>>, <<>>) = <<>>
    BY <1>1, CatEmpty
  <2>4. Rec(l, 0, x) = <<>>
    BY <2>2, <2>3 DEF Rec
  <2>5. Ascending(<<>>, 0)
    BY DEF Ascending
  <2>6. UpTo(<<>>, 0) = <<>>
    BY SelectEmpty DEF UpTo
  <2>7. Faithful(IsSampled(EmptyMap, x), <<>>, <<>>)
    BY DEF Faithful
  <2> HIDE DEF l
  <2>8. ASSUME NEW n \in 0 .. Len(l)
        PROVE  /\ Ascending(Rec(l, n, x), n)
               /\ Faithful(IsSampled(EmptyMap, x), Rec(l, n, x), UpTo(<<>>, n))
    <3>1. n = 0
      BY <1>1
    <3> QED BY <2>4, <2>5, <2>6, <2>7, <3>1
  <2> QED BY <1>1, <2>2, <2>3, <2>5, <2>8 DEF TrackIndex
<1>5. \A x \in TrackIDs : EntriesOf(EmptyMap, x) = <<>> /\ Own(<<>>, x) = <<>>
  BY EntriesOfEmpty, OwnEmpty
<1> HIDE DEF l
<1>6. IndexInv(l, EmptyMap, EmptyMap, <<>>, 0)
  BY <1>1, <1>2, <1>3, <1>4, <1>5 DEF IndexInv
<1> QED BY <1>6 DEF l

LEMMA AddTrackIndex ==
    ASSUME TypeOK, IndexState, NEW mode \in TrackModes, AddTrack(mode),
           nextTrack \notin DOMAIN tracks
    PROVE  IndexState'
<1> DEFINE c == [type |-> "trackinfo", id |-> nextTrack, kind |-> mode.kind]
<1>1. UNCHANGED <<idx, pending, prevCPOff>>
  BY DEF AddTrack
<1>2. CASE AppendFailed /\ UNCHANGED <<tracks, nextTrack>>
  BY <1>1, <1>2 DEF AppendFailed, IndexState
<1>3. CASE log' = Append(log, c) /\ tracks' = Put(tracks, nextTrack, NewTrack(mode))
  <2>1. c \in Chunk /\ ~IsCheckpoint(c) /\ \A x \in TrackIDs : ~SyncPointOf(c, x)
    BY ChunksTyped, WriterAssumption DEF TypeOK, TracksTypeOK, IsCheckpoint, SyncPointOf, DataOf
  <2> HIDE DEF c
  <2>2. IndexInv(Append(log, c), tracks, idx, pending, prevCPOff)
    BY <2>1, IndexOfOtherChunk DEF IndexState
  <2>3. \A x \in TrackIDs : IsSampled(tracks, x) => IsSampled(tracks', x)
    BY <1>3 DEF IsSampled, Put
  <2>4. IndexInv(Append(log, c), tracks', idx, pending, prevCPOff)
    BY <2>2, <2>3, IndexOfOtherTracks
  <2> QED BY <1>1, <1>3, <2>4 DEF IndexState
<1> QED BY <1>2, <1>3 DEF AddTrack, Appended

\* The trackStates keep their kinds.
LEMMA KindsKept ==
    ASSUME NEW trs, NEW id \in DOMAIN trs, NEW fr, \A x \in DOMAIN trs : trs[x] \in TrackState
    PROVE  LET trs1 == [trs EXCEPT ![id] = Counted(@, fr)]
           IN  /\ \A x : IsSampled(trs, x) => IsSampled(trs1, x)
               /\ \A x : IsSampled(trs1, x) => IsSampled(ResetSampling(trs1), x)
<1> DEFINE trs1 == [trs EXCEPT ![id] = Counted(@, fr)]
<1>1. DOMAIN trs1 = DOMAIN trs /\ \A x \in DOMAIN trs : trs1[x].kind = trs[x].kind
  BY DEF Counted, TrackState
<1>2. \A x : IsSampled(trs, x) => IsSampled(trs1, x)
  BY <1>1 DEF IsSampled
<1>3. \A x \in DOMAIN trs1 : trs1[x] = trs[x] \/ (x = id /\ trs1[x] = Counted(trs[x], fr))
  OBVIOUS
<1>4. \A x \in DOMAIN trs1 : "kind" \in DOMAIN trs1[x]
  BY <1>3, ZenonT(40) DEF Counted, TrackState
<1> HIDE DEF trs1
<1>5. /\ DOMAIN ResetSampling(trs1) = DOMAIN trs1
      /\ \A x \in DOMAIN trs1 : ResetSampling(trs1)[x].kind = trs1[x].kind
  BY <1>4 DEF ResetSampling
<1>6. \A x : IsSampled(trs1, x) => IsSampled(ResetSampling(trs1), x)
  BY <1>5 DEF IsSampled
<1> QED BY <1>2, <1>6 DEF trs1

LEMMA WriteFrameIndex ==
    ASSUME TypeOK, IndexState, NEW id \in DOMAIN tracks, NEW fr \in Frames, WriteFrame(id, fr)
    PROVE  IndexState'
<1>1. CASE AppendFailed /\ UNCHANGED <<tracks, idx, pending, prevCPOff, lastCPEnd>>
  BY <1>1 DEF AppendFailed, IndexState
<1>2. CASE CommitFrame(id, fr)
  <2> DEFINE log1 == LogWith(id, fr)
             tracks1 == [tracks EXCEPT ![id] = Counted(@, fr)]
             pending1 == PendingWith(id, fr)
             c == [type |-> "data", track |-> id, frame |-> fr]
             indexed == Indexed(id, fr)
  <2>1. MaybeCheckpoint(log1, tracks1, pending1)
    BY <1>2 DEF CommitFrame
  <2>2. log1 \in Seq(Chunk) /\ pending1 \in Seq(CpEntry)
    BY FrameWritten
  <2>3. id \in TrackIDs /\ fr \in Frame /\ tracks[id] \in TrackState
    BY WriterAssumption DEF TypeOK, TracksTypeOK
  <2>4. IndexInv(log1, tracks, idx', pending1, prevCPOff)
    <3>1. indexed \in BOOLEAN /\ (indexed => fr.key)
      BY <2>3 DEF Indexed, ShouldIndexSync, Frame, TrackState
    <3>2. fr.key /\ ~indexed => IsSampled(tracks, id)
      BY <2>3 DEF Indexed, ShouldIndexSync, IsSampled, Frame
    <3>3. idx' = IF indexed THEN IndexAdd(idx, id, fr.pts, Len(log) + 1) ELSE idx
      BY <1>2 DEF CommitFrame, Committed
    <3>4. pending1 = IF indexed
                     THEN Append(pending, [track |-> id, pts |-> fr.pts, off |-> Len(log) + 1])
                     ELSE pending
      BY DEF PendingWith, Committed
    <3>5. log1 = Append(log, c)
      BY DEF LogWith
    <3> DEFINE pend2 == pending1
               ix2 == idx'
    <3> HIDE DEF indexed, pending1, log1, pend2, ix2
    <3>6. IndexInv(Append(log, c), tracks, ix2, pend2, prevCPOff)
      BY <2>3, <3>1, <3>2, <3>3, <3>4, IndexOfFrame DEF IndexState, pend2, ix2
    <3> QED BY <3>5, <3>6 DEF pend2, ix2
  <2>5. /\ \A x : IsSampled(tracks, x) => IsSampled(tracks1, x)
        /\ \A x : IsSampled(tracks1, x) => IsSampled(ResetSampling(tracks1), x)
    BY KindsKept DEF TypeOK, TracksTypeOK
  <2>6. \A x : IsSampled(tracks, x) => IsSampled(tracks', x)
    <3>1. tracks' = tracks1 \/ tracks' = ResetSampling(tracks1)
      BY <2>1, <2>2, CheckpointStep
    <3> QED BY <2>5, <3>1
  <2>7. IndexInv(log1, tracks', idx', pending1, prevCPOff)
    BY <2>4, <2>6, IndexOfOtherTracks
  <2>8. CASE log' = log1 /\ pending' = pending1 /\ prevCPOff' = prevCPOff
    BY <2>7, <2>8 DEF IndexState
  <2>9. CASE log' = log1 /\ pending' = <<>> /\ pending1 = <<>> /\ prevCPOff' = prevCPOff
    BY <2>7, <2>9 DEF IndexState
  <2>10. CASE /\ log' = Append(log1, CheckpointOf(pending1))
              /\ pending' = <<>> /\ prevCPOff' = Len(log1) + 1
    <3> DEFINE cp == CheckpointOf(pending1)
    <3>1. cp \in Chunk /\ IsCheckpoint(cp) /\ cp.prev = prevCPOff /\ cp.entries = pending1
      <4>1. prevCPOff \in Nat
        BY DEF TypeOK, StreamTypeOK
      <4> QED BY <2>2, <4>1, ChunksTyped DEF CheckpointOf, IsCheckpoint
    <3> HIDE DEF cp, log1, pending1
    <3>2. IndexInv(Append(log1, cp), tracks', idx', <<>>, Len(log1) + 1)
      BY <2>7, <3>1, IndexOfCheckpoint
    <3> QED BY <2>10, <3>2 DEF IndexState, cp
  <2> QED BY <2>1, <2>2, <2>8, <2>9, <2>10, CheckpointStep
<1> QED BY <1>1, <1>2 DEF WriteFrame

LEMMA FinalizeIndex ==
    ASSUME TypeOK, IndexState, Finalize
    PROVE  IndexState'
<1> DEFINE c == [type |-> "footer"]
<1>1. UNCHANGED <<tracks, idx, pending, prevCPOff>>
  BY DEF Finalize
<1>2. CASE AppendFailed
  BY <1>1, <1>2 DEF AppendFailed, IndexState
<1>3. CASE log' = Append(log, c)
  <2>1. c \in Chunk /\ ~IsCheckpoint(c) /\ \A x \in TrackIDs : ~SyncPointOf(c, x)
    BY ChunksTyped DEF IsCheckpoint, SyncPointOf, DataOf
  <2> HIDE DEF c
  <2>2. IndexInv(Append(log, c), tracks, idx, pending, prevCPOff)
    BY <2>1, IndexOfOtherChunk DEF IndexState
  <2> QED BY <1>1, <1>3, <2>2 DEF IndexState
<1> QED BY <1>2, <1>3 DEF Finalize, FooterWritten

\* The index invariant holds throughout.
LEMMA IndexHolds ==
    ASSUME MaxTracks <= TrackIDSpace
    PROVE  Spec => []IndexState
<1>1. TypeOK /\ Fresh /\ IndexState /\ [Next]_vars => IndexState'
  <2> SUFFICES ASSUME TypeOK, Fresh, IndexState, [Next]_vars PROVE IndexState'
    OBVIOUS
  <2>1. ASSUME NEW mode \in TrackModes, AddTrack(mode) PROVE IndexState'
    BY <2>1, AddTrackFresh, AddTrackIndex
  <2>2. ASSUME NEW id \in DOMAIN tracks, NEW fr \in Frames, WriteFrame(id, fr)
        PROVE  IndexState'
    BY <2>2, WriteFrameIndex
  <2>3. CASE Close
    BY <2>3 DEF Close, disk, IndexState
  <2>4. CASE Finalize
    BY <2>4, FinalizeIndex
  <2>5. CASE UNCHANGED vars
    BY <2>5 DEF vars, IndexState
  <2> QED BY <2>1, <2>2, <2>3, <2>4, <2>5 DEF Next
<1> QED BY <1>1, IndexInit, FreshHolds, TypeCorrect, PTL DEF Spec

\* What follows from it.
LEMMA IndexStateCovers == TypeOK /\ IndexState => CheckpointsCoverIndex
<1> SUFFICES ASSUME TypeOK, IndexState, NEW id \in DOMAIN tracks
             PROVE  Own(ChainEntries(log, prevCPOff) \o pending, id) = EntriesOf(idx, id)
  BY DEF CheckpointsCoverIndex, Own
<1> DEFINE chain == ChainEntries(log, prevCPOff)
<1>1. id \in TrackIDs
  BY DEF TypeOK, TracksTypeOK
<1>2. EntriesOf(idx, id) = Cat(Own(chain, id), Own(pending, id))
  BY <1>1 DEF IndexState, IndexInv, TrackIndex
<1>3. chain \in Seq(CpEntry) /\ pending \in Seq(CpEntry)
  BY ChainType DEF IndexState, IndexInv
<1> HIDE DEF chain
<1>4. Own(Cat(chain, pending), id) = Cat(Own(chain, id), Own(pending, id))
  BY <1>3, OwnOfCat
<1> QED BY <1>2, <1>4 DEF Cat, chain

\* The chain of checkpoints and pending hold the index of every track, in its
\* order and with nothing twice, whatever checkpoints failed.
THEOREM CheckpointsHoldIndex ==
    ASSUME MaxTracks <= TrackIDSpace
    PROVE  Spec => []CheckpointsCoverIndex
BY IndexHolds, TypeCorrect, IndexStateCovers, PTL

LEMMA IndexStateRebuilt == TypeOK /\ IndexState => RecoveryRebuildsIndex
<1> SUFFICES ASSUME TypeOK, IndexState, NEW n \in 0 .. Len(log), NEW id \in DOMAIN tracks
             PROVE  LET recovered == EntriesOf(OpenScan(n).idx, id)
                        live      == UpTo(EntriesOf(idx, id), n)
                    IN  IF tracks[id].kind # "audio"
                        THEN recovered = live
                        ELSE /\ \A k \in DOMAIN live : Contains(recovered, live[k])
                             /\ \A j, k \in DOMAIN recovered :
                                   j < k => recovered[j].off < recovered[k].off
  BY DEF RecoveryRebuildsIndex
<1> DEFINE recovered == EntriesOf(OpenScan(n).idx, id)
           es == EntriesOf(idx, id)
           live == UpTo(es, n)
           rec == Rec(log, n, id)
<1>1. id \in TrackIDs /\ log \in Seq(Chunk) /\ n \in Nat
  BY DEF TypeOK, TracksTypeOK, StreamTypeOK
<1>2. recovered = rec
  BY <1>1, ScanFields DEF OpenScan
<1>3. es \in Seq(IndexEntry) /\ Ascending(rec, n) /\ Faithful(IsSampled(tracks, id), rec, live)
  BY <1>1 DEF IndexState, IndexInv, TrackIndex
<1>4. rec \in Seq(IndexEntry)
  BY <1>1, RecoveredType
<1> HIDE DEF es
<1>5. DOMAIN live = 1 .. Len(live)
  <2>1. live \in Seq(IndexEntry \cap [pts : PTS, off : 0 .. n])
    BY <1>3, SelectType DEF UpTo
  <2> QED BY <2>1, LenProperties
<1>6. DOMAIN rec = 1 .. Len(rec)
  BY <1>4, LenProperties
<1> HIDE DEF recovered, live, rec
<1>7. CASE tracks[id].kind # "audio"
  <2>1. ~IsSampled(tracks, id)
    BY <1>7 DEF IsSampled
  <2> QED BY <1>2, <1>3, <1>7, <2>1 DEF Faithful, recovered, live, es
<1>8. CASE tracks[id].kind = "audio"
  <2>1. IsSampled(tracks, id)
    BY <1>8 DEF IsSampled
  <2>2. \A k \in DOMAIN live : Contains(recovered, live[k])
    BY <1>2, <1>3, <1>5, <2>1 DEF Faithful
  <2>3. \A j, k \in DOMAIN recovered : j < k => recovered[j].off < recovered[k].off
    BY <1>2, <1>3, <1>6 DEF Ascending
  <2> QED BY <1>8, <2>2, <2>3 DEF recovered, live, es
<1> QED BY <1>7, <1>8

\* Wherever a crash cuts the stream, the recovery scan finds the sync points
\* that the writer had up to there.
THEOREM RecoveryRebuildsTheIndex ==
    ASSUME MaxTracks <= TrackIDSpace
    PROVE  Spec => []RecoveryRebuildsIndex
BY IndexHolds, TypeCorrect, IndexStateRebuilt, PTL

-----------------------------------------------------------------------------
(* The counters of the tracks.                                             *)

\* The tracks that have a frame.
Seen(trs) == {id \in DOMAIN trs : trs[id].hasLast}

Summaries(r, trs) ==
    /\ r.tracks = [id \in DOMAIN trs |-> trs[id].kind]
    /\ r.frames = [id \in Seen(trs) |-> trs[id].frames]
    /\ r.firstPTS = [id \in Seen(trs) |-> trs[id].firstPTS]
    /\ r.maxPTS = [id \in Seen(trs) |-> trs[id].maxPTS]
    /\ \A id \in DOMAIN trs :
          IF trs[id].hasLast THEN trs[id].frames > 0
          ELSE trs[id].frames = 0 /\ trs[id].firstPTS = 0 /\ trs[id].maxPTS = 0

SummaryInv(l, trs) == l \in Seq(Chunk) /\ Summaries(ScanChunks(l, Len(l)), trs)

\* The scan of one chunk more.
LEMMA ScanAppend ==
    ASSUME NEW l \in Seq(Chunk), NEW c \in Chunk
    PROVE  /\ Append(l, c) \in Seq(Chunk)
           /\ ScanShape(ScanChunks(l, Len(l)))
           /\ ScanChunks(Append(l, c), Len(Append(l, c))) =
                  ScanChunk(ScanChunks(l, Len(l)), c, Len(l) + 1)
<1> DEFINE m == Append(l, c)
           N == Len(l)
<1>1. /\ m \in Seq(Chunk) /\ Len(m) = N + 1 /\ m[N + 1] = c /\ Extends(m, l) /\ N \in Nat
  BY AppendChunk, LenProperties
<1>2. ScanShape(ScanChunks(l, N))
  <2>1. N \in 0 .. Len(l)
    BY <1>1
  <2> QED BY <2>1, ScanTypes DEF ScanTyped
<1> HIDE DEF m, N
<1>3. ScanChunks(m, N + 1) = ScanChunk(ScanChunks(m, N), m[N + 1], N + 1)
  BY <1>1, ScanNext
<1>4. ScanChunks(m, N) = ScanChunks(l, N)
  <2>1. \A k \in 1 .. N : m[k] = l[k]
    BY <1>1 DEF Extends, N
  <2> QED BY <1>1, <2>1, ScanSame
<1> QED BY <1>1, <1>2, <1>3, <1>4 DEF m, N

\* A chunk that carries neither a track nor a frame.
LEMMA SummaryOfOther ==
    ASSUME NEW l, NEW trs, SummaryInv(l, trs),
           NEW c \in Chunk, c.type \in {"checkpoint", "footer"}
    PROVE  SummaryInv(Append(l, c), trs)
<1> DEFINE r == ScanChunks(l, Len(l))
           m == Append(l, c)
           q == ScanChunks(m, Len(m))
           off == Len(l) + 1
<1>1. l \in Seq(Chunk) /\ Summaries(r, trs)
  BY DEF SummaryInv
<1>2. m \in Seq(Chunk) /\ ScanShape(r) /\ q = ScanChunk(r, c, off)
  BY <1>1, ScanAppend
<1> HIDE DEF r, m, off
<1>3. SameCounters(ScanChunk(r, c, off), r) /\ ScanChunk(r, c, off).tracks = r.tracks
  <2>1. CASE c.type = "checkpoint"
    BY <1>2, <2>1, ScanOfCheckpoint
  <2>2. CASE c.type = "footer"
    <3>1. ScanChunk(r, c, off) = r
      BY <2>2, ScanOfFooter
    <3> QED BY <3>1 DEF SameCounters
  <2> QED BY <2>1, <2>2
<1> HIDE DEF q
<1>4. Summaries(q, trs)
  BY <1>1, <1>2, <1>3 DEF Summaries, SameCounters
<1> QED BY <1>2, <1>4 DEF SummaryInv, q, m

\* A new track.
LEMMA SummaryOfTrack ==
    ASSUME NEW l, NEW trs, SummaryInv(l, trs),
           NEW id \in TrackIDs, id \notin DOMAIN trs, NEW mode, mode.kind \in Kinds,
           NEW c, c = [type |-> "trackinfo", id |-> id, kind |-> mode.kind],
           NEW trs2, trs2 = Put(trs, id, NewTrack(mode))
    PROVE  SummaryInv(Append(l, c), trs2)
<1> DEFINE r == ScanChunks(l, Len(l))
           m == Append(l, c)
           q == ScanChunks(m, Len(m))
           off == Len(l) + 1
<1>0. c \in Chunk /\ c.type = "trackinfo"
  BY ChunksTyped
<1>1. l \in Seq(Chunk) /\ Summaries(r, trs)
  BY DEF SummaryInv
<1>2. m \in Seq(Chunk) /\ ScanShape(r) /\ q = ScanChunk(r, c, off)
  BY <1>0, <1>1, ScanAppend
<1> HIDE DEF r, m, off
<1>3. SameCounters(ScanChunk(r, c, off), r) /\ ScanChunk(r, c, off).tracks = Put(r.tracks, id, mode.kind)
  BY <1>0, <1>2, ScanOfTrackInfo
<1> HIDE DEF q
<1>4. /\ DOMAIN trs2 = DOMAIN trs \cup {id}
      /\ \A x \in DOMAIN trs : trs2[x] = trs[x]
      /\ trs2[id] = NewTrack(mode)
  BY DEF Put
<1>5. /\ ~trs2[id].hasLast /\ trs2[id].frames = 0 /\ trs2[id].firstPTS = 0
      /\ trs2[id].maxPTS = 0 /\ trs2[id].kind = mode.kind
  BY <1>4 DEF NewTrack
<1>6. Seen(trs2) = Seen(trs) /\ \A x \in Seen(trs) : x \in DOMAIN trs
  BY <1>4, <1>5 DEF Seen
<1>7. /\ q.tracks = Put(r.tracks, id, mode.kind)
      /\ q.frames = r.frames /\ q.firstPTS = r.firstPTS /\ q.maxPTS = r.maxPTS
  BY <1>2, <1>3 DEF SameCounters
<1>8. q.tracks = [x \in DOMAIN trs2 |-> trs2[x].kind]
  BY <1>1, <1>4, <1>5, <1>7 DEF Put, Summaries
<1>9. /\ q.frames = [x \in Seen(trs2) |-> trs2[x].frames]
      /\ q.firstPTS = [x \in Seen(trs2) |-> trs2[x].firstPTS]
      /\ q.maxPTS = [x \in Seen(trs2) |-> trs2[x].maxPTS]
  BY <1>1, <1>4, <1>6, <1>7 DEF Summaries
<1>10. \A x \in DOMAIN trs2 :
          IF trs2[x].hasLast THEN trs2[x].frames > 0
          ELSE trs2[x].frames = 0 /\ trs2[x].firstPTS = 0 /\ trs2[x].maxPTS = 0
  BY <1>1, <1>4, <1>5 DEF Summaries
<1>11. Summaries(q, trs2)
  BY <1>8, <1>9, <1>10 DEF Summaries
<1> QED BY <1>2, <1>11 DEF SummaryInv, q, m

\* A value put into a map of counters.
LEMMA PutIs ==
    ASSUME NEW f, NEW id, NEW g \in [DOMAIN f \cup {id} -> Nat],
           \A x \in DOMAIN f : x # id => f[x] = g[x]
    PROVE  Put(f, id, g[id]) = g
BY DEF Put

\* A frame.
LEMMA SummaryOfFrame ==
    ASSUME NEW l, NEW trs, SummaryInv(l, trs), \A x \in DOMAIN trs : trs[x] \in TrackState,
           NEW id \in DOMAIN trs, id \in TrackIDs, NEW fr \in Frame,
           NEW c, c = [type |-> "data", track |-> id, frame |-> fr],
           NEW trs2, trs2 = [trs EXCEPT ![id] = Counted(@, fr)]
    PROVE  SummaryInv(Append(l, c), trs2)
<1> DEFINE r == ScanChunks(l, Len(l))
           m == Append(l, c)
           q == ScanChunks(m, Len(m))
           off == Len(l) + 1
           p == fr.pts
           ts == trs[id]
           ns == Counted(ts, fr)
<1>0. c \in Chunk /\ c.type = "data" /\ c.track = id /\ c.frame.pts = p
  BY ChunksTyped
<1>1. l \in Seq(Chunk) /\ Summaries(r, trs)
  BY DEF SummaryInv
<1>2. m \in Seq(Chunk) /\ ScanShape(r) /\ q = ScanChunk(r, c, off)
  BY <1>0, <1>1, ScanAppend
<1> HIDE DEF r, m, off, q
<1>3. /\ q.tracks = r.tracks
      /\ q.frames = Put(r.frames, id, Get(r.frames, id, 0) + 1)
      /\ q.firstPTS = IF id \in DOMAIN r.frames THEN r.firstPTS ELSE Put(r.firstPTS, id, p)
      /\ q.maxPTS = IF id \in DOMAIN r.maxPTS /\ p <= r.maxPTS[id] THEN r.maxPTS
                    ELSE Put(r.maxPTS, id, p)
  <2> DEFINE s == ScanChunk(r, c, off)
  <2>0. ScanShape(r) /\ c.type = "data"
    BY <1>0, <1>2
  <2>1. s.tracks = r.tracks
    BY <2>0, ScanOfDataTracks
  <2>2. s.frames = Put(r.frames, c.track, Get(r.frames, c.track, 0) + 1)
    BY <2>0, ScanOfData
  <2>3. s.firstPTS = IF c.track \in DOMAIN r.frames THEN r.firstPTS
                     ELSE Put(r.firstPTS, c.track, c.frame.pts)
    BY <2>0, ScanOfData, ZenonT(40)
  <2>4. s.maxPTS = IF c.track \in DOMAIN r.maxPTS /\ c.frame.pts <= r.maxPTS[c.track]
                   THEN r.maxPTS ELSE Put(r.maxPTS, c.track, c.frame.pts)
    BY <2>0, ScanOfData, ZenonT(40)
  <2> QED BY <1>0, <1>2, <2>1, <2>2, <2>3, <2>4
<1>4. ts \in TrackState /\ p \in Nat
  BY DEF Frame, PTS
<1>5. /\ ns.hasLast /\ ns.frames = ts.frames + 1 /\ ns.kind = ts.kind
      /\ ns.firstPTS = IF ts.hasLast THEN ts.firstPTS ELSE p
      /\ ns.maxPTS = IF ts.hasLast /\ p <= ts.maxPTS THEN ts.maxPTS ELSE p
  BY <1>4 DEF Counted, TrackState
<1> HIDE DEF ns
<1>6. /\ DOMAIN trs2 = DOMAIN trs /\ trs2[id] = ns
      /\ \A x \in DOMAIN trs : x # id => trs2[x] = trs[x]
  BY DEF ns
<1>7. Seen(trs2) = Seen(trs) \cup {id} /\ (id \in Seen(trs) <=> ts.hasLast)
  BY <1>5, <1>6 DEF Seen
<1>8. q.tracks = [x \in DOMAIN trs2 |-> trs2[x].kind]
  BY <1>1, <1>3, <1>5, <1>6 DEF Summaries
<1>9. /\ r.frames = [x \in Seen(trs) |-> trs[x].frames]
      /\ r.firstPTS = [x \in Seen(trs) |-> trs[x].firstPTS]
      /\ r.maxPTS = [x \in Seen(trs) |-> trs[x].maxPTS]
      /\ IF ts.hasLast THEN ts.frames > 0
         ELSE ts.frames = 0 /\ ts.firstPTS = 0 /\ ts.maxPTS = 0
  BY <1>1 DEF Summaries
<1>10. \A x \in Seen(trs) : x \in DOMAIN trs
  BY DEF Seen
<1> DEFINE counts == [x \in Seen(trs2) |-> trs2[x].frames]
           firsts == [x \in Seen(trs2) |-> trs2[x].firstPTS]
           maxima == [x \in Seen(trs2) |-> trs2[x].maxPTS]
<1>16. /\ DOMAIN r.frames = Seen(trs) /\ DOMAIN r.firstPTS = Seen(trs)
       /\ DOMAIN r.maxPTS = Seen(trs)
       /\ \A x \in Seen(trs) : /\ r.frames[x] = trs[x].frames
                              /\ r.firstPTS[x] = trs[x].firstPTS
                              /\ r.maxPTS[x] = trs[x].maxPTS
  BY <1>9
<1>17. \A x \in Seen(trs) : x # id => trs2[x] = trs[x]
  BY <1>6, <1>10
<1>18. /\ counts \in [Seen(trs) \cup {id} -> Nat] /\ firsts \in [Seen(trs) \cup {id} -> Nat]
       /\ maxima \in [Seen(trs) \cup {id} -> Nat]
  <2>1. \A x \in Seen(trs2) : trs2[x] \in TrackState
    BY <1>6, CountedType DEF Seen, ns
  <2>2. \A x \in Seen(trs2) :
           trs2[x].frames \in Nat /\ trs2[x].firstPTS \in Nat /\ trs2[x].maxPTS \in Nat
    BY <2>1 DEF TrackState, PTS
  <2> QED BY <1>7, <2>2
<1>19. /\ \A x \in Seen(trs) : x # id => /\ r.frames[x] = counts[x]
                                        /\ r.firstPTS[x] = firsts[x]
                                        /\ r.maxPTS[x] = maxima[x]
       /\ counts[id] = ns.frames /\ firsts[id] = ns.firstPTS /\ maxima[id] = ns.maxPTS
  BY <1>6, <1>7, <1>16, <1>17
<1> HIDE DEF counts, firsts, maxima
<1>11. q.frames = counts
  <2>1. Get(r.frames, id, 0) + 1 = ns.frames
    BY <1>5, <1>7, <1>9, <1>16 DEF Get
  <2> DEFINE f == r.frames
  <2>2. /\ counts \in [DOMAIN f \cup {id} -> Nat]
        /\ \A x \in DOMAIN f : x # id => f[x] = counts[x]
    BY <1>16, <1>18, <1>19
  <2> HIDE DEF f
  <2>3. Put(f, id, counts[id]) = counts
    BY ONLY <2>2, PutIs, SMTT(30)
  <2> QED BY <1>3, <1>19, <2>1, <2>3 DEF f
<1>12. q.firstPTS = firsts
  <2> DEFINE f == r.firstPTS
  <2>1. /\ firsts \in [DOMAIN f \cup {id} -> Nat]
        /\ \A x \in DOMAIN f : x # id => f[x] = firsts[x]
    BY <1>16, <1>18, <1>19
  <2>2. q.firstPTS = IF ts.hasLast THEN f ELSE Put(f, id, p)
    BY <1>3, <1>7, <1>16
  <2>3. CASE ts.hasLast
    <3>1. Seen(trs2) = Seen(trs) /\ ns.firstPTS = ts.firstPTS
      BY <1>5, <1>7, <2>3
    <3>2. \A x \in Seen(trs) : trs2[x].firstPTS = trs[x].firstPTS
      BY <1>6, <1>17, <3>1
    <3> QED BY <1>9, <2>2, <2>3, <3>1, <3>2 DEF firsts
  <2>4. CASE ~ts.hasLast
    <3>1. firsts[id] = p
      BY <1>5, <1>19, <2>4
    <3> HIDE DEF f, p
    <3>2. Put(f, id, firsts[id]) = firsts
      BY ONLY <2>1, PutIs, SMTT(30)
    <3> QED BY <2>2, <2>4, <3>1, <3>2
  <2> QED BY <2>3, <2>4
<1>13. q.maxPTS = maxima
  <2> DEFINE f == r.maxPTS
             stays == ts.hasLast /\ p <= ts.maxPTS
  <2>1. /\ maxima \in [DOMAIN f \cup {id} -> Nat]
        /\ \A x \in DOMAIN f : x # id => f[x] = maxima[x]
    BY <1>16, <1>18, <1>19
  <2>2. q.maxPTS = IF stays THEN f ELSE Put(f, id, p)
    BY <1>3, <1>7, <1>16
  <2>3. CASE stays
    <3>1. Seen(trs2) = Seen(trs) /\ ns.maxPTS = ts.maxPTS
      BY <1>5, <1>7, <2>3
    <3>2. \A x \in Seen(trs) : trs2[x].maxPTS = trs[x].maxPTS
      BY <1>6, <1>17, <3>1
    <3> QED BY <1>9, <2>2, <2>3, <3>1, <3>2 DEF maxima
  <2>4. CASE ~stays
    <3>1. maxima[id] = p
      BY <1>5, <1>19, <2>4
    <3> HIDE DEF f, p, stays
    <3>2. Put(f, id, maxima[id]) = maxima
      BY ONLY <2>1, PutIs, SMTT(30)
    <3> QED BY <2>2, <2>4, <3>1, <3>2
  <2> QED BY <2>3, <2>4
<1>14. \A x \in DOMAIN trs2 :
          IF trs2[x].hasLast THEN trs2[x].frames > 0
          ELSE trs2[x].frames = 0 /\ trs2[x].firstPTS = 0 /\ trs2[x].maxPTS = 0
  <2>1. ns.frames > 0
    BY <1>4, <1>5 DEF TrackState
  <2> QED BY <1>1, <1>5, <1>6, <2>1 DEF Summaries
<1>15. Summaries(q, trs2)
  BY <1>8, <1>11, <1>12, <1>13, <1>14 DEF Summaries, counts, firsts, maxima
<1> QED BY <1>2, <1>15 DEF SummaryInv, q, m

\* The reset of the sampling flags.
LEMMA SummaryOfReset ==
    ASSUME NEW l, NEW trs, SummaryInv(l, trs), \A x \in DOMAIN trs : trs[x] \in TrackState
    PROVE  SummaryInv(l, ResetSampling(trs))
<1> DEFINE trs2 == ResetSampling(trs)
<1>1. /\ DOMAIN trs2 = DOMAIN trs
      /\ \A x \in DOMAIN trs :
            /\ trs2[x].kind = trs[x].kind /\ trs2[x].hasLast = trs[x].hasLast
            /\ trs2[x].frames = trs[x].frames /\ trs2[x].firstPTS = trs[x].firstPTS
            /\ trs2[x].maxPTS = trs[x].maxPTS
  BY DEF ResetSampling, TrackState
<1> HIDE DEF trs2
<1>2. Seen(trs2) = Seen(trs) /\ \A x \in Seen(trs) : x \in DOMAIN trs
  BY <1>1 DEF Seen
<1> DEFINE r == ScanChunks(l, Len(l))
<1> HIDE DEF r
<1>3. Summaries(r, trs)
  BY DEF SummaryInv, r
<1>4. /\ r.tracks = [x \in DOMAIN trs2 |-> trs2[x].kind]
      /\ r.frames = [x \in Seen(trs2) |-> trs2[x].frames]
      /\ r.firstPTS = [x \in Seen(trs2) |-> trs2[x].firstPTS]
      /\ r.maxPTS = [x \in Seen(trs2) |-> trs2[x].maxPTS]
  BY <1>1, <1>2, <1>3 DEF Summaries
<1>5. \A x \in DOMAIN trs2 :
         IF trs2[x].hasLast THEN trs2[x].frames > 0
         ELSE trs2[x].frames = 0 /\ trs2[x].firstPTS = 0 /\ trs2[x].maxPTS = 0
  BY <1>1, <1>3 DEF Summaries
<1>6. Summaries(r, trs2)
  BY <1>4, <1>5 DEF Summaries
<1> QED BY <1>6 DEF SummaryInv, r, trs2

SummaryState == SummaryInv(log, tracks)

\* The invariant of the counters, action by action.
LEMMA SummaryInit == Init => SummaryState
<1> SUFFICES ASSUME Init PROVE SummaryInv(<<>>, EmptyMap)
  BY DEF SummaryState, Init
<1>1. ScanChunks(<<>>, 0) = EmptyScan
  BY ScanNone
<1>2. DOMAIN EmptyMap = {} /\ Seen(EmptyMap) = {}
  BY DEF EmptyMap, Seen
<1>3. Summaries(EmptyScan, EmptyMap)
  BY <1>2 DEF Summaries, EmptyScan, EmptyMap
<1>4. <<>> \in Seq(Chunk) /\ Len(<<>>) = 0
  BY EmptySeq
<1>5. SummaryInv(<<>>, EmptyMap) <=> Summaries(ScanChunks(<<>>, 0), EmptyMap)
  BY <1>4, Zenon DEF SummaryInv
<1> QED BY <1>1, <1>3, <1>5

LEMMA AddTrackSummary ==
    ASSUME TypeOK, SummaryState, NEW mode \in TrackModes, AddTrack(mode),
           nextTrack \notin DOMAIN tracks
    PROVE  SummaryState'
<1> DEFINE c == [type |-> "trackinfo", id |-> nextTrack, kind |-> mode.kind]
<1>1. CASE AppendFailed /\ UNCHANGED <<tracks, nextTrack>>
  BY <1>1 DEF AppendFailed, SummaryState
<1>2. CASE log' = Append(log, c) /\ tracks' = Put(tracks, nextTrack, NewTrack(mode))
  <2>1. nextTrack \in TrackIDs /\ mode.kind \in Kinds
    BY WriterAssumption DEF TypeOK, TracksTypeOK
  <2> DEFINE trs2 == Put(tracks, nextTrack, NewTrack(mode))
  <2>2. trs2 = Put(tracks, nextTrack, NewTrack(mode))
    OBVIOUS
  <2>3. c = [type |-> "trackinfo", id |-> nextTrack, kind |-> mode.kind]
    OBVIOUS
  <2> HIDE DEF c, trs2
  <2>4. SummaryInv(Append(log, c), trs2)
    BY <2>1, <2>2, <2>3, SummaryOfTrack DEF SummaryState
  <2> QED BY <1>2, <2>4 DEF SummaryState, trs2
<1> QED BY <1>1, <1>2 DEF AddTrack, Appended

LEMMA WriteFrameSummary ==
    ASSUME TypeOK, SummaryState, NEW id \in DOMAIN tracks, NEW fr \in Frames,
           WriteFrame(id, fr)
    PROVE  SummaryState'
<1>1. CASE AppendFailed /\ UNCHANGED <<tracks, idx, pending, prevCPOff, lastCPEnd>>
  BY <1>1 DEF AppendFailed, SummaryState
<1>2. CASE CommitFrame(id, fr)
  <2> DEFINE log1 == LogWith(id, fr)
             tracks1 == [tracks EXCEPT ![id] = Counted(@, fr)]
             pending1 == PendingWith(id, fr)
             c == [type |-> "data", track |-> id, frame |-> fr]
  <2>1. MaybeCheckpoint(log1, tracks1, pending1)
    BY <1>2 DEF CommitFrame
  <2>2. log1 \in Seq(Chunk) /\ pending1 \in Seq(CpEntry)
    BY FrameWritten
  <2>3. id \in TrackIDs /\ fr \in Frame /\ \A x \in DOMAIN tracks : tracks[x] \in TrackState
    BY WriterAssumption DEF TypeOK, TracksTypeOK
  <2>4. SummaryInv(log1, tracks1)
    <3>1. c = [type |-> "data", track |-> id, frame |-> fr] /\ log1 = Append(log, c)
      BY DEF LogWith
    <3>2. tracks1 = [tracks EXCEPT ![id] = Counted(@, fr)]
      OBVIOUS
    <3> HIDE DEF c, log1, tracks1
    <3>3. SummaryInv(Append(log, c), tracks1)
      BY <2>3, <3>1, <3>2, SummaryOfFrame DEF SummaryState
    <3> QED BY <3>1, <3>3
  <2>5. \A x \in DOMAIN tracks1 : tracks1[x] \in TrackState
    BY <2>3, CountedType
  <2>6. SummaryInv(log1, tracks')
    <3>1. tracks' = tracks1 \/ tracks' = ResetSampling(tracks1)
      BY <2>1, <2>2, CheckpointStep
    <3> HIDE DEF log1, tracks1
    <3> QED BY <2>4, <2>5, <3>1, SummaryOfReset
  <2>7. CASE log' = log1
    BY <2>6, <2>7 DEF SummaryState
  <2>8. CASE log' = Append(log1, CheckpointOf(pending1))
    <3> DEFINE cp == CheckpointOf(pending1)
    <3>1. cp \in Chunk /\ cp.type \in {"checkpoint", "footer"}
      <4>1. prevCPOff \in Nat
        BY DEF TypeOK, StreamTypeOK
      <4> QED BY <2>2, <4>1, ChunksTyped DEF CheckpointOf
    <3> HIDE DEF cp, log1
    <3>2. SummaryInv(Append(log1, cp), tracks')
      BY <2>6, <3>1, SummaryOfOther
    <3> QED BY <2>8, <3>2 DEF SummaryState, cp
  <2> QED BY <2>1, <2>2, <2>7, <2>8, CheckpointStep
<1> QED BY <1>1, <1>2 DEF WriteFrame

LEMMA FinalizeSummary ==
    ASSUME TypeOK, SummaryState, Finalize
    PROVE  SummaryState'
<1> DEFINE c == [type |-> "footer"]
<1>1. tracks' = tracks
  BY DEF Finalize
<1>2. CASE AppendFailed
  BY <1>1, <1>2 DEF AppendFailed, SummaryState
<1>3. CASE log' = Append(log, c)
  <2>1. c \in Chunk /\ c.type \in {"checkpoint", "footer"}
    BY ChunksTyped
  <2> HIDE DEF c
  <2>2. SummaryInv(Append(log, c), tracks)
    BY <2>1, SummaryOfOther DEF SummaryState
  <2> QED BY <1>1, <1>3, <2>2 DEF SummaryState
<1> QED BY <1>2, <1>3 DEF Finalize, FooterWritten

\* The invariant of the counters holds throughout.
LEMMA SummaryHolds ==
    ASSUME MaxTracks <= TrackIDSpace
    PROVE  Spec => []SummaryState
<1>1. TypeOK /\ Fresh /\ SummaryState /\ [Next]_vars => SummaryState'
  <2> SUFFICES ASSUME TypeOK, Fresh, SummaryState, [Next]_vars PROVE SummaryState'
    OBVIOUS
  <2>1. ASSUME NEW mode \in TrackModes, AddTrack(mode) PROVE SummaryState'
    BY <2>1, AddTrackFresh, AddTrackSummary
  <2>2. ASSUME NEW id \in DOMAIN tracks, NEW fr \in Frames, WriteFrame(id, fr)
        PROVE  SummaryState'
    BY <2>2, WriteFrameSummary
  <2>3. CASE Close
    BY <2>3 DEF Close, disk, SummaryState
  <2>4. CASE Finalize
    BY <2>4, FinalizeSummary
  <2>5. CASE UNCHANGED vars
    BY <2>5 DEF vars, SummaryState
  <2> QED BY <2>1, <2>2, <2>3, <2>4, <2>5 DEF Next
<1> QED BY <1>1, SummaryInit, FreshHolds, TypeCorrect, PTL DEF Spec

\* What the scan of the whole stream returns.
LEMMA ScanSummaries ==
    ASSUME TypeOK, SummaryState
    PROVE  LET r == Scan(log, Len(log))
               s == Seen(tracks)
           IN  /\ r.tracks = [id \in DOMAIN tracks |-> tracks[id].kind]
               /\ r.frames = [id \in s |-> tracks[id].frames]
               /\ r.firstPTS = [id \in s |-> tracks[id].firstPTS]
               /\ r.maxPTS = [id \in s |-> tracks[id].maxPTS]
<1> DEFINE q == ScanChunks(log, Len(log))
           r == Scan(log, Len(log))
<1>1. log \in Seq(Chunk) /\ Len(log) \in 0 .. Len(log)
  BY LenProperties DEF TypeOK, StreamTypeOK
<1>2. r.tracks = q.tracks /\ SameCounters(r, q)
  BY <1>1, ScanFields
<1>3. Summaries(q, tracks)
  BY DEF SummaryState, SummaryInv
<1> HIDE DEF q, r
<1>4. r.frames = q.frames /\ r.firstPTS = q.firstPTS /\ r.maxPTS = q.maxPTS
  BY <1>2 DEF SameCounters
<1> QED BY <1>2, <1>3, <1>4 DEF Summaries, r

\* What follows from it.
LEMMA SummaryStateRebuilt == TypeOK /\ SummaryState => RecoveryRebuildsSummaries
<1> SUFFICES ASSUME TypeOK, SummaryState PROVE RecoveryRebuildsSummaries
  OBVIOUS
<1> DEFINE r == Scan(log, Len(log))
           s == Seen(tracks)
<1>1. /\ r.tracks = [id \in DOMAIN tracks |-> tracks[id].kind]
      /\ r.frames = [id \in s |-> tracks[id].frames]
      /\ r.firstPTS = [id \in s |-> tracks[id].firstPTS]
      /\ r.maxPTS = [id \in s |-> tracks[id].maxPTS]
  BY ScanSummaries
<1> HIDE DEF r
<1>2. \A id \in DOMAIN tracks :
         IF tracks[id].hasLast THEN tracks[id].frames > 0
         ELSE tracks[id].frames = 0 /\ tracks[id].firstPTS = 0 /\ tracks[id].maxPTS = 0
  BY DEF SummaryState, SummaryInv, Summaries
<1>3. \A id \in DOMAIN tracks :
         /\ Get(r.frames, id, 0) = tracks[id].frames
         /\ Get(r.firstPTS, id, 0) = tracks[id].firstPTS
         /\ Get(r.maxPTS, id, 0) = tracks[id].maxPTS
  BY <1>1, <1>2 DEF Get, Seen
<1>4. DOMAIN r.tracks = DOMAIN tracks
  BY <1>1
<1>5. RecoveredSummaries(r) =
         [id \in DOMAIN tracks |->
             [firstPTS |-> tracks[id].firstPTS, lastPTS |-> tracks[id].maxPTS,
              frames   |-> tracks[id].frames]]
  BY <1>3, <1>4 DEF RecoveredSummaries
<1>6. FooterContents.kinds = [id \in DOMAIN tracks |-> tracks[id].kind]
  BY DEF FooterContents
<1>7. FooterContents.sums =
         [id \in DOMAIN tracks |->
             [firstPTS |-> tracks[id].firstPTS, lastPTS |-> tracks[id].maxPTS,
              frames   |-> tracks[id].frames]]
  BY DEF FooterContents
<1> QED BY <1>1, <1>5, <1>6, <1>7 DEF RecoveryRebuildsSummaries, r

\* The scan of the whole stream counts what the writer has counted.
THEOREM RecoveryRebuildsTheSummaries ==
    ASSUME MaxTracks <= TrackIDSpace
    PROVE  Spec => []RecoveryRebuildsSummaries
BY SummaryHolds, TypeCorrect, SummaryStateRebuilt, PTL

-----------------------------------------------------------------------------
(* Audio sampling.                                                         *)

Has(entries, id) == \E k \in 1 .. Len(entries) : entries[k].track = id

Single(entries, id) ==
    \A j, k \in 1 .. Len(entries) : entries[j].track = id /\ entries[k].track = id => j = k

\* Entries are of registered tracks, an audio track has one at most in pending
\* and in each checkpoint, and its flag says whether it waits in pending.
SamplingInv(l, trs, pend) ==
    /\ \A k \in 1 .. Len(pend) : pend[k].track \in DOMAIN trs
    /\ \A i \in 1 .. Len(l) : IsCheckpoint(l[i]) =>
          \A k \in 1 .. Len(l[i].entries) : l[i].entries[k].track \in DOMAIN trs
    /\ \A id \in DOMAIN trs : trs[id].kind = "audio" =>
          /\ Single(pend, id)
          /\ trs[id].indexedThisCP <=> Has(pend, id)
          /\ \A i \in 1 .. Len(l) : IsCheckpoint(l[i]) => Single(l[i].entries, id)

\* A chunk that is no checkpoint.
LEMMA SamplingOfOther ==
    ASSUME NEW l \in Seq(Chunk), NEW trs, NEW pend, SamplingInv(l, trs, pend),
           NEW c \in Chunk, ~IsCheckpoint(c)
    PROVE  SamplingInv(Append(l, c), trs, pend)
<1> DEFINE m == Append(l, c)
<1>1. /\ Len(m) = Len(l) + 1 /\ Len(l) \in Nat /\ m[Len(l) + 1] = c
      /\ \A i \in 1 .. Len(l) : m[i] = l[i]
  BY AppendProperties, LenProperties
<1> HIDE DEF m
<1>2. \A i \in 1 .. Len(m) : IsCheckpoint(m[i]) => i \in 1 .. Len(l) /\ m[i] = l[i]
  BY <1>1
<1>3. SamplingInv(m, trs, pend)
  BY <1>2 DEF SamplingInv
<1> QED BY <1>3 DEF m

\* A new track.
LEMMA SamplingOfTrack ==
    ASSUME NEW l, NEW trs, NEW pend, SamplingInv(l, trs, pend),
           NEW id, id \notin DOMAIN trs, NEW mode
    PROVE  SamplingInv(l, Put(trs, id, NewTrack(mode)), pend)
<1> DEFINE trs2 == Put(trs, id, NewTrack(mode))
<1>1. /\ DOMAIN trs2 = DOMAIN trs \cup {id}
      /\ \A x \in DOMAIN trs : trs2[x] = trs[x]
      /\ trs2[id].indexedThisCP = FALSE
  BY DEF Put, NewTrack
<1> HIDE DEF trs2
<1>2. ~Has(pend, id) /\ Single(pend, id)
  BY DEF SamplingInv, Has, Single
<1>3. \A i \in 1 .. Len(l) : IsCheckpoint(l[i]) => Single(l[i].entries, id)
  BY DEF SamplingInv, Single
<1>4. SamplingInv(l, trs2, pend)
  BY <1>1, <1>2, <1>3 DEF SamplingInv
<1> QED BY <1>4 DEF trs2

\* A frame, as far as trackState and pending are concerned.
LEMMA SamplingOfFrame ==
    ASSUME NEW l, NEW trs, NEW pend \in Seq(CpEntry), SamplingInv(l, trs, pend),
           NEW id \in DOMAIN trs, trs[id] \in TrackState, NEW fr \in Frame,
           NEW e \in CpEntry, e.track = id,
           NEW pend2, pend2 = IF fr.key /\ ShouldIndexSync(trs[id]) THEN Append(pend, e) ELSE pend
    PROVE  SamplingInv(l, [trs EXCEPT ![id] = Counted(@, fr)], pend2)
<1> DEFINE trs2 == [trs EXCEPT ![id] = Counted(@, fr)]
           ts == trs[id]
           ns == Counted(ts, fr)
           indexed == fr.key /\ ShouldIndexSync(ts)
<1>1. /\ ns.kind = ts.kind
      /\ ns.indexedThisCP = IF fr.key /\ ts.kind = "audio" THEN TRUE ELSE ts.indexedThisCP
  BY DEF Counted, TrackState
<1> HIDE DEF ns
<1>2. /\ DOMAIN trs2 = DOMAIN trs /\ trs2[id] = ns
      /\ \A x \in DOMAIN trs : x # id => trs2[x] = trs[x]
  BY DEF ns
<1> HIDE DEF trs2
<1>3. /\ Len(pend) \in Nat /\ Len(Append(pend, e)) = Len(pend) + 1
      /\ Append(pend, e)[Len(pend) + 1] = e
      /\ \A k \in 1 .. Len(pend) : Append(pend, e)[k] = pend[k]
  BY LenProperties, AppendProperties
<1>4. \A k \in 1 .. Len(pend2) :
         \/ k \in 1 .. Len(pend) /\ pend2[k] = pend[k]
         \/ indexed /\ k = Len(pend) + 1 /\ pend2[k] = e
  BY <1>3
<1>5. \A k \in 1 .. Len(pend) : k \in 1 .. Len(pend2) /\ pend2[k] = pend[k]
  BY <1>3
<1>6. \A k \in 1 .. Len(pend2) : pend2[k].track \in DOMAIN trs
  BY <1>4 DEF SamplingInv
<1>7. ASSUME NEW x \in DOMAIN trs, trs2[x].kind = "audio"
      PROVE  /\ Single(pend2, x)
             /\ trs2[x].indexedThisCP <=> Has(pend2, x)
  <2>1. /\ trs[x].kind = "audio" /\ Single(pend, x)
        /\ trs[x].indexedThisCP <=> Has(pend, x)
    BY <1>1, <1>2, <1>7 DEF SamplingInv
  <2>2. CASE x # id \/ ~indexed
    <3>1. \A k \in 1 .. Len(pend2) : pend2[k].track = x => k \in 1 .. Len(pend) /\ pend2[k] = pend[k]
      BY <1>4, <2>2
    <3>2. Single(pend2, x) /\ (Has(pend2, x) <=> Has(pend, x))
      BY <1>5, <2>1, <3>1 DEF Single, Has
    <3>3. trs2[x].indexedThisCP <=> trs[x].indexedThisCP
      <4>1. CASE x # id
        BY <1>2, <4>1
      <4>2. CASE x = id /\ ~indexed
        <5>1. fr.key => ts.indexedThisCP
          BY <2>1, <4>2 DEF ShouldIndexSync
        <5> QED BY <1>1, <1>2, <2>1, <4>2, <5>1
      <4> QED BY <2>2, <4>1, <4>2
    <3> QED BY <2>1, <3>2, <3>3
  <2>3. CASE x = id /\ indexed
    <3>1. ~Has(pend, x)
      BY <2>1, <2>3 DEF ShouldIndexSync
    <3>2. trs2[x].indexedThisCP
      BY <1>1, <1>2, <2>1, <2>3
    <3>3. \A k \in 1 .. Len(pend2) : pend2[k].track = x => k = Len(pend) + 1
      BY <1>4, <3>1 DEF Has
    <3>4. Len(pend) + 1 \in 1 .. Len(pend2) /\ pend2[Len(pend) + 1] = e
      BY <1>3, <2>3
    <3>5. Single(pend2, x) /\ Has(pend2, x)
      BY <2>3, <3>3, <3>4 DEF Single, Has
    <3> QED BY <3>2, <3>5
  <2> QED BY <2>2, <2>3
<1>8. SamplingInv(l, trs2, pend2)
  <2>1. ASSUME NEW x \in DOMAIN trs, trs2[x].kind = "audio"
        PROVE  \A i \in 1 .. Len(l) : IsCheckpoint(l[i]) => Single(l[i].entries, x)
    BY <1>1, <1>2, <2>1 DEF SamplingInv
  <2> QED BY <1>2, <1>6, <1>7, <2>1 DEF SamplingInv
<1> QED BY <1>8 DEF trs2

\* The end of an interval: the flags are reset, and what was pending, if there
\* was anything, is in a checkpoint.
LEMMA SamplingOfReset ==
    ASSUME NEW l \in Seq(Chunk), NEW trs, NEW pend, SamplingInv(l, trs, pend),
           \A x \in DOMAIN trs : trs[x] \in TrackState,
           NEW m, \/ m = l
                  \/ \E c \in Chunk : IsCheckpoint(c) /\ c.entries = pend /\ m = Append(l, c)
    PROVE  SamplingInv(m, ResetSampling(trs), <<>>)
<1> DEFINE trs2 == ResetSampling(trs)
<1>1. /\ DOMAIN trs2 = DOMAIN trs
      /\ \A x \in DOMAIN trs : trs2[x].kind = trs[x].kind /\ trs2[x].indexedThisCP = FALSE
  BY DEF ResetSampling, TrackState
<1> HIDE DEF trs2
<1>2. \A i \in 1 .. Len(m) : IsCheckpoint(m[i]) =>
         (i \in 1 .. Len(l) /\ m[i] = l[i]) \/ m[i].entries = pend
  <2>1. CASE m = l
    BY <2>1
  <2>2. ASSUME NEW c \in Chunk, IsCheckpoint(c), c.entries = pend, m = Append(l, c)
        PROVE  \A i \in 1 .. Len(m) : (i \in 1 .. Len(l) /\ m[i] = l[i]) \/ m[i].entries = pend
    <3>1. /\ Len(m) = Len(l) + 1 /\ Len(l) \in Nat /\ m[Len(l) + 1] = c
          /\ \A i \in 1 .. Len(l) : m[i] = l[i]
      BY <2>2, AppendProperties, LenProperties
    <3> QED BY <2>2, <3>1
  <2> QED BY <2>1, <2>2
<1>3. Len(<<>>) = 0 /\ \A x : Single(<<>>, x) /\ ~Has(<<>>, x)
  BY DEF Single, Has
<1>4. ASSUME NEW x \in DOMAIN trs, trs2[x].kind = "audio"
      PROVE  \A i \in 1 .. Len(m) : IsCheckpoint(m[i]) => Single(m[i].entries, x)
  BY <1>1, <1>2, <1>4 DEF SamplingInv
<1>5. \A i \in 1 .. Len(m) : IsCheckpoint(m[i]) =>
         \A k \in 1 .. Len(m[i].entries) : m[i].entries[k].track \in DOMAIN trs
  BY <1>2 DEF SamplingInv
<1>6. SamplingInv(m, trs2, <<>>)
  BY <1>1, <1>3, <1>4, <1>5 DEF SamplingInv
<1> QED BY <1>6 DEF trs2

SamplingState == SamplingInv(log, tracks, pending)

\* The sampling invariant, action by action.
LEMMA SamplingInit == Init => SamplingState
BY DEF Init, SamplingState, SamplingInv, EmptyMap

LEMMA AddTrackSampling ==
    ASSUME TypeOK, SamplingState, NEW mode \in TrackModes, AddTrack(mode),
           nextTrack \notin DOMAIN tracks
    PROVE  SamplingState'
<1> DEFINE c == [type |-> "trackinfo", id |-> nextTrack, kind |-> mode.kind]
<1>1. pending' = pending
  BY DEF AddTrack
<1>2. CASE AppendFailed /\ UNCHANGED <<tracks, nextTrack>>
  BY <1>1, <1>2 DEF AppendFailed, SamplingState
<1>3. CASE log' = Append(log, c) /\ tracks' = Put(tracks, nextTrack, NewTrack(mode))
  <2>1. c \in Chunk /\ ~IsCheckpoint(c) /\ log \in Seq(Chunk)
    BY ChunksTyped, WriterAssumption DEF TypeOK, TracksTypeOK, StreamTypeOK, IsCheckpoint
  <2> HIDE DEF c
  <2>2. SamplingInv(Append(log, c), tracks, pending)
    BY <2>1, SamplingOfOther DEF SamplingState
  <2>3. SamplingInv(Append(log, c), Put(tracks, nextTrack, NewTrack(mode)), pending)
    BY <2>2, SamplingOfTrack
  <2> QED BY <1>1, <1>3, <2>3 DEF SamplingState
<1> QED BY <1>2, <1>3 DEF AddTrack, Appended

LEMMA WriteFrameSampling ==
    ASSUME TypeOK, SamplingState, NEW id \in DOMAIN tracks, NEW fr \in Frames,
           WriteFrame(id, fr)
    PROVE  SamplingState'
<1>1. CASE AppendFailed /\ UNCHANGED <<tracks, idx, pending, prevCPOff, lastCPEnd>>
  BY <1>1 DEF AppendFailed, SamplingState
<1>2. CASE CommitFrame(id, fr)
  <2> DEFINE log1 == LogWith(id, fr)
             tracks1 == [tracks EXCEPT ![id] = Counted(@, fr)]
             pending1 == PendingWith(id, fr)
             c == [type |-> "data", track |-> id, frame |-> fr]
             e == [track |-> id, pts |-> fr.pts, off |-> Committed]
             cp == CheckpointOf(pending1)
  <2>1. MaybeCheckpoint(log1, tracks1, pending1)
    BY <1>2 DEF CommitFrame
  <2>2. log1 \in Seq(Chunk) /\ pending1 \in Seq(CpEntry) /\ Committed \in Nat
    BY FrameWritten
  <2>3. /\ id \in TrackIDs /\ fr \in Frame /\ \A x \in DOMAIN tracks : tracks[x] \in TrackState
        /\ log \in Seq(Chunk) /\ pending \in Seq(CpEntry) /\ prevCPOff \in Nat
    BY WriterAssumption DEF TypeOK, TracksTypeOK, StreamTypeOK, IndexTypeOK
  <2>4. SamplingInv(log1, tracks1, pending1)
    <3>1. c \in Chunk /\ ~IsCheckpoint(c) /\ log1 = Append(log, c)
      BY <2>3, ChunksTyped DEF IsCheckpoint, LogWith
    <3>2. e \in CpEntry /\ e.track = id
      BY <2>2, <2>3 DEF CpEntry, Frame
    <3>3. pending1 = IF fr.key /\ ShouldIndexSync(tracks[id]) THEN Append(pending, e) ELSE pending
      BY DEF PendingWith, Indexed
    <3> HIDE DEF c, e, log1, pending1
    <3>4. SamplingInv(log1, tracks, pending)
      BY <2>3, <3>1, SamplingOfOther DEF SamplingState
    <3> QED BY <2>3, <3>2, <3>3, <3>4, SamplingOfFrame
  <2>5. \A x \in DOMAIN tracks1 : tracks1[x] \in TrackState
    BY <2>3, CountedType
  <2>6. cp \in Chunk /\ IsCheckpoint(cp) /\ cp.entries = pending1
    BY <2>2, <2>3, ChunksTyped DEF CheckpointOf, IsCheckpoint
  <2>7. CASE log' = log1 /\ tracks' = tracks1 /\ pending' = pending1
    BY <2>4, <2>7 DEF SamplingState
  <2>8. CASE log' = log1 /\ tracks' = ResetSampling(tracks1) /\ pending1 = <<>> /\ pending' = <<>>
    <3> HIDE DEF log1, tracks1, pending1
    <3>1. SamplingInv(log1, ResetSampling(tracks1), <<>>)
      BY <2>2, <2>4, <2>5, SamplingOfReset
    <3> QED BY <2>8, <3>1 DEF SamplingState
  <2>9. CASE log' = Append(log1, cp) /\ tracks' = ResetSampling(tracks1) /\ pending' = <<>>
    <3> HIDE DEF log1, tracks1, pending1, cp
    <3>1. SamplingInv(Append(log1, cp), ResetSampling(tracks1), <<>>)
      BY <2>2, <2>4, <2>5, <2>6, SamplingOfReset
    <3> QED BY <2>9, <3>1 DEF SamplingState
  <2> QED BY <2>1, <2>7, <2>8, <2>9 DEF MaybeCheckpoint, NotDue, NothingPending,
       CheckpointWritten, CheckpointFailed, Appended
<1> QED BY <1>1, <1>2 DEF WriteFrame

LEMMA FinalizeSampling ==
    ASSUME TypeOK, SamplingState, Finalize
    PROVE  SamplingState'
<1> DEFINE c == [type |-> "footer"]
<1>1. UNCHANGED <<tracks, pending>>
  BY DEF Finalize
<1>2. CASE AppendFailed
  BY <1>1, <1>2 DEF AppendFailed, SamplingState
<1>3. CASE log' = Append(log, c)
  <2>1. c \in Chunk /\ ~IsCheckpoint(c) /\ log \in Seq(Chunk)
    BY ChunksTyped DEF IsCheckpoint, TypeOK, StreamTypeOK
  <2> HIDE DEF c
  <2>2. SamplingInv(Append(log, c), tracks, pending)
    BY <2>1, SamplingOfOther DEF SamplingState
  <2> QED BY <1>1, <1>3, <2>2 DEF SamplingState
<1> QED BY <1>2, <1>3 DEF Finalize, FooterWritten

\* The sampling invariant holds throughout.
LEMMA SamplingHolds ==
    ASSUME MaxTracks <= TrackIDSpace
    PROVE  Spec => []SamplingState
<1>1. TypeOK /\ Fresh /\ SamplingState /\ [Next]_vars => SamplingState'
  <2> SUFFICES ASSUME TypeOK, Fresh, SamplingState, [Next]_vars PROVE SamplingState'
    OBVIOUS
  <2>1. ASSUME NEW mode \in TrackModes, AddTrack(mode) PROVE SamplingState'
    BY <2>1, AddTrackFresh, AddTrackSampling
  <2>2. ASSUME NEW id \in DOMAIN tracks, NEW fr \in Frames, WriteFrame(id, fr)
        PROVE  SamplingState'
    BY <2>2, WriteFrameSampling
  <2>3. CASE Close
    BY <2>3 DEF Close, disk, SamplingState
  <2>4. CASE Finalize
    BY <2>4, FinalizeSampling
  <2>5. CASE UNCHANGED vars
    BY <2>5 DEF vars, SamplingState
  <2> QED BY <2>1, <2>2, <2>3, <2>4, <2>5 DEF Next
<1> QED BY <1>1, SamplingInit, FreshHolds, TypeCorrect, PTL DEF Spec

\* Two entries of a track would be two positions.
LEMMA SingleIsOne ==
    ASSUME NEW entries \in Seq(CpEntry), NEW id, Single(entries, id)
    PROVE  AtMostOneOf(entries, id)
<1> DEFINE ks == {k \in DOMAIN entries : entries[k].track = id}
<1>1. \A j, k \in ks : j = k
  BY LenProperties DEF Single
<1>2. CASE ks = {}
  <2>1. Cardinality(ks) = 0
    <3> HIDE DEF ks
    <3> QED BY <1>2, FS_EmptySet
  <2> QED BY <2>1 DEF AtMostOneOf
<1>3. CASE ks # {}
  <2>1. PICK k \in ks : TRUE
    BY <1>3
  <2>2. ks = {k}
    BY <1>1, <2>1
  <2>3. Cardinality(ks) = 1
    <3> HIDE DEF ks
    <3> QED BY <2>2, FS_Singleton
  <2> QED BY <2>3 DEF AtMostOneOf
<1> QED BY <1>2, <1>3

\* What follows from it.
LEMMA SamplingStateSound == TypeOK /\ SamplingState => AudioSampling
<1> SUFFICES ASSUME TypeOK, SamplingState, NEW id \in DOMAIN tracks, tracks[id].kind = "audio"
             PROVE  /\ AtMostOneOf(pending, id)
                    /\ tracks[id].indexedThisCP <=> \E k \in DOMAIN pending : pending[k].track = id
                    /\ \A i \in DOMAIN log :
                          log[i].type = "checkpoint" => AtMostOneOf(log[i].entries, id)
  BY DEF AudioSampling
<1>1. pending \in Seq(CpEntry) /\ log \in Seq(Chunk)
  BY DEF TypeOK, IndexTypeOK, StreamTypeOK
<1>2. /\ Single(pending, id) /\ (tracks[id].indexedThisCP <=> Has(pending, id))
      /\ \A i \in 1 .. Len(log) : IsCheckpoint(log[i]) => Single(log[i].entries, id)
  BY DEF SamplingState, SamplingInv
<1>3. AtMostOneOf(pending, id)
  BY <1>1, <1>2, SingleIsOne
<1>4. tracks[id].indexedThisCP <=> \E k \in DOMAIN pending : pending[k].track = id
  BY <1>1, <1>2, LenProperties DEF Has
<1>5. ASSUME NEW i \in DOMAIN log, log[i].type = "checkpoint"
      PROVE  AtMostOneOf(log[i].entries, id)
  <2>1. i \in 1 .. Len(log) /\ log[i] \in Chunk /\ IsCheckpoint(log[i])
    BY <1>1, <1>5, LenProperties, ElementOfSeq DEF IsCheckpoint
  <2> DEFINE entries == log[i].entries
  <2>2. entries \in Seq(CpEntry) /\ Single(entries, id)
    BY <1>2, <2>1, CheckpointEntries
  <2> HIDE DEF entries
  <2>3. AtMostOneOf(entries, id)
    BY <2>2, SingleIsOne
  <2> QED BY <2>3 DEF entries
<1> QED BY <1>3, <1>4, <1>5

\* At most one keyframe of an audio track is pending, and at most one is in
\* each checkpoint, whatever checkpoints failed or were skipped.
THEOREM AudioIsSampled ==
    ASSUME MaxTracks <= TrackIDSpace
    PROVE  Spec => []AudioSampling
BY SamplingHolds, TypeCorrect, SamplingStateSound, PTL

-----------------------------------------------------------------------------
(* The footer.                                                             *)

\* The entries of one track as the footer writes them.
Tagged(es, id) == [k \in DOMAIN es |-> [track |-> id, pts |-> es[k].pts, off |-> es[k].off]]

\* They are the entries of that track and of no other.
LEMMA OwnOfTagged ==
    ASSUME NEW es \in Seq(IndexEntry), NEW id \in TrackIDs
    PROVE  /\ Tagged(es, id) \in Seq(CpEntry)
           /\ \A x : Own(Tagged(es, id), x) = IF x = id THEN es ELSE <<>>
<1> DEFINE ts == Tagged(es, id)
<1>1. Len(es) \in Nat /\ DOMAIN es = 1 .. Len(es)
  BY LenProperties
<1>2. ASSUME NEW k \in 1 .. Len(es)
      PROVE  ts[k] \in CpEntry /\ ts[k].track = id /\ EntryOf(ts[k]) = es[k]
  <2>1. es[k] \in IndexEntry
    BY ElementOfSeq
  <2>2. ts[k] = [track |-> id, pts |-> es[k].pts, off |-> es[k].off]
    BY <1>1 DEF Tagged
  <2>3. EntryOf(ts[k]) = [pts |-> es[k].pts, off |-> es[k].off]
    BY <2>2 DEF EntryOf
  <2>4. es[k] = [pts |-> es[k].pts, off |-> es[k].off]
    BY <2>1 DEF IndexEntry
  <2> QED BY <2>1, <2>2, <2>3, <2>4 DEF IndexEntry, CpEntry
<1>3. ts \in Seq(CpEntry) /\ Len(ts) = Len(es)
  <2>1. ts \in [1 .. Len(es) -> CpEntry]
    BY <1>1, <1>2 DEF Tagged
  <2> HIDE DEF ts
  <2> QED BY <1>1, <2>1, IsASeq
<1> HIDE DEF ts
<1>4. ASSUME NEW x PROVE Own(ts, x) = IF x = id THEN es ELSE <<>>
  <2> DEFINE P(k) == SubSeq(ts, 1, k)
             Q(k) == SubSeq(es, 1, k)
             Good == {k \in Nat : k <= Len(es) => Own(P(k), x) = IF x = id THEN Q(k) ELSE <<>>}
  <2>1. 0 \in Good
    <3>1. P(0) = <<>> /\ Q(0) = <<>>
      BY <1>3, PrefixWhole
    <3> QED BY <3>1, OwnEmpty
  <2>2. ASSUME NEW k \in Nat, k \in Good PROVE k + 1 \in Good
    <3> SUFFICES ASSUME k + 1 <= Len(es)
                 PROVE  Own(P(k + 1), x) = IF x = id THEN Q(k + 1) ELSE <<>>
      OBVIOUS
    <3> DEFINE ps == P(k)
               e == ts[k + 1]
    <3>1. ps \in Seq(CpEntry) /\ e \in CpEntry /\ P(k + 1) = Append(ps, e)
      BY <1>3, PrefixNext
    <3>2. Q(k + 1) = Append(Q(k), es[k + 1])
      BY PrefixNext
    <3>3. Own(ps, x) = IF x = id THEN Q(k) ELSE <<>>
      BY <1>1, <2>2
    <3>4. e.track = id /\ EntryOf(e) = es[k + 1]
      BY <1>1, <1>2
    <3> HIDE DEF ps, e
    <3>5. Own(Append(ps, e), x) = IF e.track = x THEN Append(Own(ps, x), EntryOf(e))
                                  ELSE Own(ps, x)
      BY <3>1, OwnAppend
    <3> QED BY <3>1, <3>2, <3>3, <3>4, <3>5
  <2>3. Len(es) \in Good
    <3> HIDE DEF Good
    <3> QED BY <1>1, <2>1, <2>2, NatSetInduction
  <2> DEFINE ps == P(Len(es))
             qs == Q(Len(es))
  <2>4. ps = ts /\ qs = es
    BY <1>3, PrefixWhole
  <2>5. Own(ps, x) = IF x = id THEN qs ELSE <<>>
    BY <1>1, <2>3
  <2> HIDE DEF ps, qs
  <2> QED BY <2>4, <2>5
<1> QED BY <1>3, <1>4 DEF ts

\* f follows the recursion of Dump.
Dumps(f, ix) ==
    /\ f[0] = <<>>
    /\ \A n \in 1 .. TrackIDSpace : f[n] = f[n - 1] \o Tagged(EntriesOf(ix, n - 1), n - 1)

\* Dump is such a recursion.
LEMMA DumpRecursion ==
    ASSUME NEW ix
    PROVE  \E f : Dumps(f, ix) /\ Dump(ix) = f[TrackIDSpace]
<1> DEFINE Step(d, k) == d \o Tagged(EntriesOf(ix, k - 1), k - 1)
           Body(f, m) == [k \in 0 .. m |-> IF k = 0 THEN <<>> ELSE Step(f[k - 1], k)]
           Solvable == {m \in Nat : \E f : f = Body(f, m)}
<1>0. TrackIDSpace \in Nat
  BY TrackIDSpaceAssumption
<1> HIDE DEF Step
<1>1. 0 \in Solvable
  <2> DEFINE f == [k \in 0 .. 0 |-> <<>>]
  <2>1. f = Body(f, 0)
    OBVIOUS
  <2>2. \E h : h = Body(h, 0)
    <3> HIDE DEF f, Body
    <3> QED BY <2>1
  <2> QED BY <2>2
<1>2. ASSUME NEW m \in Nat, m \in Solvable PROVE m + 1 \in Solvable
  <2>1. PICK f : f = Body(f, m)
    BY <1>2
  <2> DEFINE last == Step(f[m], m + 1)
             g == [k \in 0 .. m + 1 |-> IF k = m + 1 THEN last ELSE f[k]]
  <2>2. \A k \in 0 .. m + 1 : g[k] = Body(g, m + 1)[k]
    <3> SUFFICES ASSUME NEW k \in 0 .. m + 1 PROVE g[k] = Body(g, m + 1)[k]
      OBVIOUS
    <3>1. CASE k = m + 1
      <4>1. g[k - 1] = f[m] /\ g[k] = last
        BY <3>1
      <4> QED BY <3>1, <4>1
    <3>2. CASE k # m + 1
      <4>1. k \in 0 .. m /\ g[k] = f[k] /\ (k # 0 => g[k - 1] = f[k - 1])
        BY <3>2
      <4>2. f[k] = IF k = 0 THEN <<>> ELSE Step(f[k - 1], k)
        BY <2>1, <4>1
      <4> QED BY <4>1, <4>2
    <3> QED BY <3>1, <3>2
  <2>3. g = Body(g, m + 1)
    BY <2>2
  <2>4. \E h : h = Body(h, m + 1)
    <3> HIDE DEF g, Body
    <3> QED BY <2>3
  <2> QED BY <2>4
<1>3. TrackIDSpace \in Solvable
  <2> HIDE DEF Solvable
  <2> QED BY <1>0, <1>1, <1>2, NatSetInduction
<1> DEFINE dumped == CHOOSE f : f = Body(f, TrackIDSpace)
<1>4. dumped = Body(dumped, TrackIDSpace)
  <2>1. \E f : f = Body(f, TrackIDSpace)
    BY <1>3
  <2> HIDE DEF Body
  <2> QED BY <2>1
<1>5. Dump(ix) = dumped[TrackIDSpace]
  BY DEF Dump, Step, Tagged
<1> HIDE DEF dumped
<1>6. Dumps(dumped, ix)
  <2>1. dumped[0] = <<>>
    BY <1>0, <1>4
  <2>2. \A k \in 1 .. TrackIDSpace : dumped[k] = Step(dumped[k - 1], k)
    <3> SUFFICES ASSUME NEW k \in 1 .. TrackIDSpace PROVE dumped[k] = Step(dumped[k - 1], k)
      OBVIOUS
    <3>1. k \in 0 .. TrackIDSpace /\ k # 0
      BY <1>0
    <3> QED BY <1>4, <3>1
  <2> QED BY <2>1, <2>2 DEF Dumps, Step
<1> QED BY <1>5, <1>6

\* The footer holds the whole index.
LEMMA OwnOfDump ==
    ASSUME NEW ix, \A x \in TrackIDs : EntriesOf(ix, x) \in Seq(IndexEntry), NEW x \in TrackIDs
    PROVE  Own(Dump(ix), x) = EntriesOf(ix, x)
<1> DEFINE N == TrackIDSpace
           ex == EntriesOf(ix, x)
<1>1. N \in Nat /\ x \in 0 .. N - 1 /\ ex \in Seq(IndexEntry)
  BY TrackIDSpaceAssumption DEF TrackIDs
<1>2. PICK f : Dumps(f, ix) /\ Dump(ix) = f[N]
  BY DumpRecursion
<1> DEFINE Good == {n \in Nat : n <= N =>
                        /\ f[n] \in Seq(CpEntry)
                        /\ Own(f[n], x) = IF x < n THEN ex ELSE <<>>}
<1>3. 0 \in Good
  <2>1. f[0] = <<>> /\ ~(x < 0)
    BY <1>1, <1>2 DEF Dumps
  <2>2. <<>> \in Seq(CpEntry) /\ Own(<<>>, x) = <<>>
    BY OwnEmpty, EmptySeq
  <2>3. f[0] \in Seq(CpEntry) /\ Own(f[0], x) = <<>>
    BY <2>1, <2>2, Zenon
  <2> QED BY <2>1, <2>3
<1>4. ASSUME NEW n \in Nat, n \in Good PROVE n + 1 \in Good
  <2> SUFFICES ASSUME n + 1 <= N
               PROVE  /\ f[n + 1] \in Seq(CpEntry)
                      /\ Own(f[n + 1], x) = IF x < n + 1 THEN ex ELSE <<>>
    OBVIOUS
  <2> DEFINE old == f[n]
             es == EntriesOf(ix, n)
             new == Tagged(es, n)
  <2>1. n \in TrackIDs
    BY <1>1 DEF TrackIDs
  <2>2. old \in Seq(CpEntry) /\ Own(old, x) = IF x < n THEN ex ELSE <<>>
    BY <1>1, <1>4
  <2>3. es \in Seq(IndexEntry)
    BY <2>1
  <2>4. f[n + 1] = Cat(old, new)
    <3>1. n + 1 \in 1 .. N /\ (n + 1) - 1 = n
      BY <1>1
    <3> QED BY <1>2, <3>1 DEF Dumps, Cat
  <2>5. x = n => es = ex
    OBVIOUS
  <2> HIDE DEF old, es
  <2>6. new \in Seq(CpEntry) /\ Own(new, x) = IF x = n THEN es ELSE <<>>
    BY <2>1, <2>3, OwnOfTagged
  <2> HIDE DEF new, ex
  <2>7. Cat(old, new) \in Seq(CpEntry) /\ Own(Cat(old, new), x) = Cat(Own(old, x), Own(new, x))
    <3>1. Cat(old, new) \in Seq(CpEntry)
      BY ONLY <2>2, <2>6, CatProperties
    <3>2. Own(Cat(old, new), x) = Cat(Own(old, x), Own(new, x))
      BY ONLY <2>2, <2>6, OwnOfCat
    <3> QED BY <3>1, <3>2
  <2>8. Cat(<<>>, ex) = ex /\ Cat(ex, <<>>) = ex /\ Cat(<<>>, <<>>) = <<>>
    <3>1. <<>> \in Seq(IndexEntry)
      BY EmptySeq
    <3> QED BY ONLY <1>1, <3>1, CatEmpty
  <2>9. CASE x < n
    <3>1. x # n /\ x < n + 1
      BY <1>1, <2>9
    <3> QED BY <2>2, <2>4, <2>6, <2>7, <2>8, <2>9, <3>1
  <2>10. CASE x = n
    <3>1. ~(x < n) /\ x < n + 1
      BY <1>1, <2>10
    <3> QED BY <2>2, <2>4, <2>5, <2>6, <2>7, <2>8, <2>10, <3>1
  <2>11. CASE x > n
    <3>1. ~(x < n) /\ x # n /\ ~(x < n + 1)
      BY <1>1, <2>11
    <3> QED BY <2>2, <2>4, <2>6, <2>7, <2>8, <3>1
  <2> QED BY <1>1, <2>9, <2>10, <2>11
<1>5. N \in Good
  <2> HIDE DEF Good
  <2> QED BY <1>1, <1>3, <1>4, NatSetInduction
<1> QED BY <1>1, <1>2, <1>5

\* A trailer is behind the footer of the present index and counters, which ends
\* the log: whatever is written after it removes it.
FooterCurrent ==
    trailer # 0 =>
        /\ trailer = Len(log) /\ log[trailer].type = "footer"
        /\ footer = FooterContents

\* The footer that is last in the log was written from the fields as they are now.
LEMMA FooterHolds == Spec => []FooterCurrent
<1>1. Init => FooterCurrent
  BY DEF Init, FooterCurrent
<1>2. TypeOK /\ FooterCurrent /\ [Next]_vars => FooterCurrent'
  <2> SUFFICES ASSUME TypeOK, FooterCurrent, [Next]_vars PROVE FooterCurrent'
    OBVIOUS
  <2>1. ASSUME AppendFailed, UNCHANGED <<footer, tracks, idx>> PROVE FooterCurrent'
    BY <2>1 DEF AppendFailed, FooterCurrent, FooterContents
  <2>2. ASSUME trailer' = 0 PROVE FooterCurrent'
    BY <2>2 DEF FooterCurrent
  <2>3. ASSUME NEW mode \in TrackModes, AddTrack(mode) PROVE FooterCurrent'
    BY <2>1, <2>2, <2>3 DEF AddTrack, Appended
  <2>4. ASSUME NEW id \in DOMAIN tracks, NEW fr \in Frames, WriteFrame(id, fr)
        PROVE  FooterCurrent'
    <3>1. CASE CommitFrame(id, fr)
      <4>1. LogWith(id, fr) \in Seq(Chunk) /\ PendingWith(id, fr) \in Seq(CpEntry)
        BY FrameWritten
      <4>2. trailer' = 0
        BY <3>1, <4>1, CheckpointStep DEF CommitFrame
      <4> QED BY <2>2, <4>2
    <3>2. CASE AppendFailed /\ UNCHANGED <<tracks, idx, pending, prevCPOff, lastCPEnd>>
      BY <2>1, <2>4, <3>2 DEF WriteFrame
    <3> QED BY <2>4, <3>1, <3>2 DEF WriteFrame
  <2>5. CASE Close
    BY <2>5 DEF Close, disk, FooterCurrent, FooterContents
  <2>6. CASE Finalize
    <3>1. UNCHANGED <<tracks, idx>>
      BY <2>6 DEF Finalize
    <3>2. CASE FooterWritten
      <4> DEFINE c == [type |-> "footer"]
      <4>1. log \in Seq(Chunk) /\ c \in Chunk
        BY ChunksTyped DEF TypeOK, StreamTypeOK
      <4>2. c.type = "footer"
        OBVIOUS
      <4> HIDE DEF c
      <4>3. Len(Append(log, c)) = Len(log) + 1 /\ Append(log, c)[Len(log) + 1] = c
        BY <4>1, AppendProperties
      <4>4. log' = Append(log, c) /\ footer' = FooterContents
        BY <3>2 DEF FooterWritten, c
      <4>5. trailer' = 0 \/ trailer' = Len(log) + 1
        BY <3>2 DEF FooterWritten, Committed
      <4>6. FooterContents' = FooterContents
        BY <3>1 DEF FooterContents
      <4> QED BY <4>2, <4>3, <4>4, <4>5, <4>6 DEF FooterCurrent
    <3>3. CASE AppendFailed /\ UNCHANGED <<footer, closed>>
      BY <2>1, <3>1, <3>3
    <3> QED BY <2>6, <3>2, <3>3 DEF Finalize
  <2>7. CASE UNCHANGED vars
    BY <2>7 DEF vars, FooterCurrent, FooterContents
  <2> QED BY <2>3, <2>4, <2>5, <2>6, <2>7 DEF Next
<1> QED BY <1>1, <1>2, TypeCorrect, PTL DEF Spec

\* What loads from it is therefore what the scan finds.
LEMMA FooterStateCaches ==
    TypeOK /\ IndexState /\ SummaryState /\ FooterCurrent => FooterIsCache
<1> SUFFICES ASSUME TypeOK, IndexState, SummaryState, FooterCurrent, FooterLoads
             PROVE  LET scanned == OpenScan(Len(log))
                    IN  /\ LoadFooter.tracks = scanned.tracks
                        /\ LoadFooter.maxPTS = scanned.maxPTS
                        /\ \A i \in DOMAIN log : IsData(log[i]) => i < LoadFooter.committed
                        /\ \A id \in DOMAIN tracks :
                              LET cached == EntriesOf(LoadFooter.idx, id)
                                  found  == EntriesOf(scanned.idx, id)
                              IN  IF tracks[id].kind # "audio" THEN cached = found
                                  ELSE \A k \in DOMAIN cached : Contains(found, cached[k])
  BY DEF FooterIsCache
<1> DEFINE scanned == OpenScan(Len(log))
           r == Scan(log, Len(log))
<1>1. /\ footer = FooterContents /\ trailer = Len(log) /\ log[trailer].type = "footer"
      /\ log \in Seq(Chunk) /\ Len(log) \in Nat /\ DOMAIN log = 1 .. Len(log)
  BY LenProperties DEF FooterLoads, FooterCurrent, TypeOK, StreamTypeOK
<1>2. scanned.tracks = r.tracks /\ scanned.maxPTS = r.maxPTS /\ scanned.idx = r.idx
  BY DEF OpenScan
<1>3. /\ r.tracks = [id \in DOMAIN tracks |-> tracks[id].kind]
      /\ r.maxPTS = [id \in Seen(tracks) |-> tracks[id].maxPTS]
  BY ScanSummaries
<1> HIDE DEF scanned, r
<1>4. LoadFooter.tracks = scanned.tracks
  BY <1>1, <1>2, <1>3 DEF LoadFooter, FooterContents
<1>5. LoadFooter.maxPTS = scanned.maxPTS
  <2> DEFINE sums == footer.sums
  <2>1. sums = [id \in DOMAIN tracks |->
                   [firstPTS |-> tracks[id].firstPTS, lastPTS |-> tracks[id].maxPTS,
                    frames   |-> tracks[id].frames]]
    BY <1>1 DEF FooterContents
  <2>2. \A id \in DOMAIN tracks : tracks[id].hasLast <=> tracks[id].frames > 0
    BY DEF SummaryState, SummaryInv, Summaries
  <2>3. {x \in DOMAIN sums : sums[x].frames > 0} = Seen(tracks)
    BY <2>1, <2>2 DEF Seen
  <2>4. \A id \in Seen(tracks) : sums[id].lastPTS = tracks[id].maxPTS
    BY <2>1 DEF Seen
  <2>5. LoadFooter.maxPTS = [id \in {x \in DOMAIN sums : sums[x].frames > 0} |->
                                sums[id].lastPTS]
    BY DEF LoadFooter
  <2> HIDE DEF sums
  <2> QED BY <1>2, <1>3, <2>3, <2>4, <2>5
<1>6. ASSUME NEW i \in DOMAIN log, IsData(log[i]) PROVE i < LoadFooter.committed
  <2>1. LoadFooter.committed = Len(log) /\ i # Len(log)
    BY <1>1, <1>6 DEF LoadFooter, IsData
  <2> QED BY <1>1, <2>1
<1>7. ASSUME NEW id \in DOMAIN tracks
      PROVE  LET cached == EntriesOf(LoadFooter.idx, id)
                 found  == EntriesOf(scanned.idx, id)
             IN  IF tracks[id].kind # "audio" THEN cached = found
                 ELSE \A k \in DOMAIN cached : Contains(found, cached[k])
  <2> DEFINE es == EntriesOf(idx, id)
             chained == Own(ChainEntries(log, prevCPOff), id)
             waiting == Own(pending, id)
             a == IsSampled(tracks, id)
             found == EntriesOf(scanned.idx, id)
  <2>1. id \in TrackIDs
    BY DEF TypeOK, TracksTypeOK
  <2>2. \A x \in TrackIDs : EntriesOf(idx, x) \in Seq(IndexEntry)
    BY DEF IndexState, IndexInv, TrackIndex
  <2>3. EntriesOf(LoadFooter.idx, id) = es
    <3>1. Own(Dump(idx), id) = EntriesOf(idx, id)
      BY <2>1, <2>2, OwnOfDump
    <3>2. LoadFooter.idx = IndexAddAll(EmptyMap, Dump(idx))
      BY <1>1 DEF LoadFooter, FooterContents
    <3> QED BY <3>1, <3>2 DEF Own
  <2>4. found = Rec(log, Len(log), id)
    <3>1. Len(log) \in 0 .. Len(log)
      BY <1>1
    <3> QED BY <1>1, <1>2, <3>1, ScanFields DEF r
  <2>5. TrackIndex(log, a, es, chained, waiting, id) /\ a \in BOOLEAN
    BY <2>1 DEF IndexState, IndexInv, IsSampled
  <2>6. DOMAIN es = 1 .. Len(es)
    BY <2>1, <2>2, LenProperties
  <2> HIDE DEF es, chained, waiting, a, found
  <2>7. Faithful(a, found, es)
    BY <1>1, <2>4, <2>5, TrackIndexWhole
  <2> QED BY <2>3, <2>6, <2>7 DEF Faithful, found, a, IsSampled
<1> QED BY <1>4, <1>5, <1>6, <1>7 DEF scanned

\* A file that opens through its footer shows what the scan would show.
THEOREM FooterCaches ==
    ASSUME MaxTracks <= TrackIDSpace
    PROVE  Spec => []FooterIsCache
BY FooterHolds, IndexHolds, SummaryHolds, TypeCorrect, FooterStateCaches, PTL

-----------------------------------------------------------------------------
(* The binary search.                                                      *)

\* The middle of a range that is not empty.
LEMMA Middle ==
    ASSUME NEW i \in Nat, NEW j \in Nat, i < j
    PROVE  (i + j) \div 2 \in Nat /\ i <= (i + j) \div 2 /\ (i + j) \div 2 < j
OBVIOUS

\* f follows the recursion of SortSearch.
Searches(f, es, pts) ==
    \A i, j \in 0 .. Len(es) :
        LET h == (i + j) \div 2
        IN  f[<<i, j>>] = IF i >= j THEN i
                          ELSE IF es[h + 1].pts > pts THEN f[<<i, h>>] ELSE f[<<h + 1, j>>]

\* SortSearch is such a recursion.
LEMMA SearchRecursion ==
    ASSUME NEW es, Len(es) \in Nat, NEW pts
    PROVE  \E f : Searches(f, es, pts) /\ SortSearch(es, pts) = f[<<0, Len(es)>>]
<1> DEFINE N == Len(es)
           R == (0 .. N) \X (0 .. N)
           Mid(r) == (r[1] + r[2]) \div 2
           Step(f, r) == IF r[1] >= r[2] THEN r[1]
                         ELSE IF es[Mid(r) + 1].pts > pts THEN f[<<r[1], Mid(r)>>]
                         ELSE f[<<Mid(r) + 1, r[2]>>]
           Solves(f, d) == /\ f = [r \in R |-> f[r]]
                           /\ \A r \in R : r[2] - r[1] <= d => f[r] = Step(f, r)
           Solvable == {d \in Nat : \E f : Solves(f, d)}
<1>0. N \in Nat
  OBVIOUS
<1> HIDE DEF N
<1>1. 0 \in Solvable
  <2> DEFINE f == [r \in R |-> r[1]]
  <2>1. f = [r \in R |-> f[r]]
    OBVIOUS
  <2>2. ASSUME NEW r \in R, r[2] - r[1] <= 0 PROVE f[r] = Step(f, r)
    <3>1. r[1] \in 0 .. N /\ r[2] \in 0 .. N
      OBVIOUS
    <3>2. r[1] >= r[2]
      BY <1>0, <2>2, <3>1
    <3> QED BY <3>2
  <2>3. Solves(f, 0)
    <3> HIDE DEF f, Step
    <3> QED BY <2>1, <2>2
  <2> QED
    <3> HIDE DEF Solves, f
    <3> QED BY <2>3
<1>2. ASSUME NEW d \in Nat, d \in Solvable PROVE d + 1 \in Solvable
  <2>1. PICK f : Solves(f, d)
    BY <1>2
  <2> DEFINE g == [r \in R |-> IF r[2] - r[1] <= d THEN f[r] ELSE Step(f, r)]
  <2>2. ASSUME NEW r \in R, r[2] - r[1] <= d + 1 PROVE Step(g, r) = Step(f, r)
    <3>1. r[1] \in 0 .. N /\ r[2] \in 0 .. N
      OBVIOUS
    <3>2. CASE r[1] >= r[2]
      BY <3>2
    <3>3. CASE r[1] < r[2]
      <4> DEFINE h == Mid(r)
      <4>1. h \in Nat /\ r[1] <= h /\ h < r[2]
        BY <1>0, <3>1, <3>3, Middle
      <4> HIDE DEF h
      <4>2. <<r[1], h>> \in R /\ <<h + 1, r[2]>> \in R
        BY <1>0, <3>1, <4>1
      <4>3. h - r[1] <= d /\ r[2] - (h + 1) <= d
        BY <1>0, <2>2, <3>1, <4>1
      <4>4. g[<<r[1], h>>] = f[<<r[1], h>>]
        BY <4>2, <4>3
      <4>5. g[<<h + 1, r[2]>>] = f[<<h + 1, r[2]>>]
        BY <4>2, <4>3
      <4> HIDE DEF g
      <4> QED BY <4>4, <4>5 DEF h
    <3>4. r[1] >= r[2] \/ r[1] < r[2]
      BY <1>0, <3>1
    <3> HIDE DEF Step, g
    <3> QED BY <3>2, <3>3, <3>4
  <2>3. ASSUME NEW r \in R, r[2] - r[1] <= d + 1 PROVE g[r] = Step(f, r)
    <3>1. CASE r[2] - r[1] <= d
      <4>1. g[r] = f[r] /\ f[r] = Step(f, r)
        <5> HIDE DEF Step
        <5> QED BY <2>1, <3>1
      <4> QED BY <4>1
    <3>2. CASE ~(r[2] - r[1] <= d)
      <4> HIDE DEF Step
      <4> QED BY <3>2
    <3> QED BY <3>1, <3>2
  <2>4. g = [r \in R |-> g[r]]
    <3> HIDE DEF Step
    <3> QED OBVIOUS
  <2>5. Solves(g, d + 1)
    <3> HIDE DEF Step, g
    <3> QED BY <2>2, <2>3, <2>4
  <2>6. \E h : Solves(h, d + 1)
    <3> HIDE DEF Solves, g
    <3> QED BY <2>5
  <2> QED
    <3> HIDE DEF Solves
    <3> QED BY <2>6
<1>3. PICK f : Solves(f, N)
  <2>1. N \in Solvable
    <3> HIDE DEF Solvable
    <3> QED BY <1>0, <1>1, <1>2, NatSetInduction
  <2> QED BY <2>1
<1> DEFINE Body(f0) == [r \in R |-> Step(f0, r)]
<1>4. f = Body(f)
  <2>1. \A r \in R : f[r] = Step(f, r)
    <3> SUFFICES ASSUME NEW r \in R PROVE f[r] = Step(f, r)
      OBVIOUS
    <3>1. r[2] - r[1] <= N
      BY <1>0
    <3> HIDE DEF Step
    <3> QED BY <1>3, <3>1
  <2>2. f = [r \in R |-> f[r]]
    <3> HIDE DEF Step
    <3> QED BY <1>3
  <2> HIDE DEF Step
  <2> QED BY <2>1, <2>2
<1> DEFINE search == CHOOSE f0 : f0 = Body(f0)
<1>5. search = Body(search)
  <2> HIDE DEF Body
  <2> QED BY <1>4
<1>6. SortSearch(es, pts) = search[<<0, N>>]
  BY DEF SortSearch, N
<1> HIDE DEF search
<1>7. Searches(search, es, pts)
  <2> SUFFICES ASSUME NEW i \in 0 .. N, NEW j \in 0 .. N
               PROVE  LET h == (i + j) \div 2
                      IN  search[<<i, j>>] =
                              IF i >= j THEN i
                              ELSE IF es[h + 1].pts > pts THEN search[<<i, h>>]
                              ELSE search[<<h + 1, j>>]
    BY DEF Searches, N
  <2> DEFINE r == <<i, j>>
  <2>1. r \in R /\ r[1] = i /\ r[2] = j
    OBVIOUS
  <2>2. search[r] = Step(search, r)
    <3> HIDE DEF r, Step
    <3> QED BY <1>5, <2>1
  <2> QED BY <2>2
<1> QED BY <1>6, <1>7 DEF N

\* Entries in ascending pts order.
Rising(es) == \A j, k \in 1 .. Len(es) : j < k => es[j].pts <= es[k].pts

\* On entries in pts order the search counts the ones at or before the target.
LEMMA SearchFinds ==
    ASSUME NEW es \in Seq(IndexEntry), Rising(es), NEW pts \in Int
    PROVE  /\ SortSearch(es, pts) \in 0 .. Len(es)
           /\ \A k \in 1 .. Len(es) : k <= SortSearch(es, pts) <=> es[k].pts <= pts
<1> DEFINE N == Len(es)
<1>0. N \in Nat /\ \A k \in 1 .. N : es[k].pts \in Nat
  BY LenProperties, EntryFields DEF PTS
<1>1. PICK f : Searches(f, es, pts) /\ SortSearch(es, pts) = f[<<0, N>>]
  BY <1>0, SearchRecursion
<1> DEFINE Low(i) == \A k \in 1 .. N : k <= i => es[k].pts <= pts
           High(j) == \A k \in 1 .. N : k > j => es[k].pts > pts
           Found(d, i, j) ==
               i <= j /\ j - i <= d /\ Low(i) /\ High(j) =>
                   f[<<i, j>>] \in 0 .. N /\ Low(f[<<i, j>>]) /\ High(f[<<i, j>>])
           Good == {d \in Nat : \A i, j \in 0 .. N : Found(d, i, j)}
<1>2. \A i, j \in 0 .. N :
         f[<<i, j>>] = IF i >= j THEN i
                       ELSE IF es[((i + j) \div 2) + 1].pts > pts THEN f[<<i, (i + j) \div 2>>]
                       ELSE f[<<((i + j) \div 2) + 1, j>>]
  BY <1>1 DEF Searches
<1>3. 0 \in Good
  <2> SUFFICES ASSUME NEW i \in 0 .. N, NEW j \in 0 .. N, i <= j, j - i <= 0, Low(i), High(j)
               PROVE  f[<<i, j>>] \in 0 .. N /\ Low(f[<<i, j>>]) /\ High(f[<<i, j>>])
    OBVIOUS
  <2>1. i = j
    BY <1>0
  <2>2. f[<<i, j>>] = i
    BY <1>2, <2>1
  <2> QED BY <2>1, <2>2
<1>4. ASSUME NEW d \in Nat, d \in Good PROVE d + 1 \in Good
  <2> SUFFICES ASSUME NEW i \in 0 .. N, NEW j \in 0 .. N PROVE Found(d + 1, i, j)
    <3> HIDE DEF Found
    <3> QED OBVIOUS
  <2> SUFFICES ASSUME i <= j, j - i <= d + 1, Low(i), High(j)
               PROVE  f[<<i, j>>] \in 0 .. N /\ Low(f[<<i, j>>]) /\ High(f[<<i, j>>])
    OBVIOUS
  <2>1. CASE i = j
    <3>1. f[<<i, j>>] = i
      BY <1>2, <2>1
    <3> QED BY <2>1, <3>1
  <2>2. CASE i # j
    <3> DEFINE h == (i + j) \div 2
    <3>1. h \in Nat /\ i <= h /\ h < j
      BY <1>0, <2>2, Middle
    <3>2. f[<<i, j>>] = IF es[h + 1].pts > pts THEN f[<<i, h>>] ELSE f[<<h + 1, j>>]
      <4>1. ~(i >= j)
        BY <1>0, <2>2
      <4> QED BY <1>2, <4>1
    <3> HIDE DEF h
    <3>3. /\ h \in 0 .. N /\ h + 1 \in 0 .. N /\ h + 1 \in 1 .. N
          /\ h - i <= d /\ h + 1 <= j /\ j - (h + 1) <= d
      BY <1>0, <3>1
    <3>4. CASE es[h + 1].pts > pts
      <4>1. High(h)
        <5> SUFFICES ASSUME NEW k \in 1 .. N, k > h PROVE es[k].pts > pts
          OBVIOUS
        <5>1. es[h + 1].pts <= es[k].pts
          <6>1. k = h + 1 \/ h + 1 < k
            BY <3>1
          <6> QED BY <1>0, <3>3, <6>1 DEF Rising
        <5>2. es[k].pts \in Nat /\ es[h + 1].pts \in Nat
          BY <1>0, <3>3
        <5> QED BY <3>4, <5>1, <5>2
      <4>2. f[<<i, h>>] \in 0 .. N /\ Low(f[<<i, h>>]) /\ High(f[<<i, h>>])
        <5> HIDE DEF Low, High
        <5> QED BY <1>4, <3>1, <3>3, <4>1
      <4> QED BY <3>2, <3>4, <4>2
    <3>5. CASE ~(es[h + 1].pts > pts)
      <4>1. Low(h + 1)
        <5> SUFFICES ASSUME NEW k \in 1 .. N, k <= h + 1 PROVE es[k].pts <= pts
          OBVIOUS
        <5>1. es[k].pts <= es[h + 1].pts
          <6>1. k = h + 1 \/ k < h + 1
            BY <3>1
          <6> QED BY <1>0, <3>3, <6>1 DEF Rising
        <5>2. es[k].pts \in Nat /\ es[h + 1].pts \in Nat
          BY <1>0, <3>3
        <5> QED BY <3>5, <5>1, <5>2, SMTT(30)
      <4>2. f[<<h + 1, j>>] \in 0 .. N /\ Low(f[<<h + 1, j>>]) /\ High(f[<<h + 1, j>>])
        <5> HIDE DEF Low, High
        <5> QED BY <1>4, <3>1, <3>3, <4>1
      <4> QED BY <3>2, <3>5, <4>2
    <3> QED BY <3>4, <3>5
  <2> QED BY <2>1, <2>2
<1>5. N \in Good
  <2> HIDE DEF Good
  <2> QED BY <1>0, <1>3, <1>4, NatSetInduction
<1> DEFINE found == f[<<0, N>>]
<1>6. found \in 0 .. N /\ Low(found) /\ High(found)
  <2>1. 0 \in 0 .. N /\ N \in 0 .. N /\ 0 <= N /\ N - 0 <= N
    BY <1>0
  <2>2. Low(0) /\ High(N)
    BY <1>0
  <2> HIDE DEF Low, High
  <2> QED BY <1>5, <2>1, <2>2
<1> HIDE DEF found
<1>7. \A k \in 1 .. N : k <= found <=> es[k].pts <= pts
  <2> SUFFICES ASSUME NEW k \in 1 .. N PROVE k <= found <=> es[k].pts <= pts
    OBVIOUS
  <2>1. k <= found \/ k > found
    BY <1>0, <1>6
  <2> QED BY <1>0, <1>6, <2>1
<1> QED BY <1>1, <1>6, <1>7 DEF found

-----------------------------------------------------------------------------
(* Frames in order.  The writer keeps the effective timestamps of a track  *)
(* in order, on a Reordered track the pts of the keyframes.                *)

TrackOrder(l, ts, id) ==
    /\ \A i \in 1 .. Len(l) : DataOf(l[i], id) =>
          /\ ts.hasLast
          /\ ~ts.reordered => Eff(l[i].frame) <= ts.lastEff
          /\ ts.reordered /\ l[i].frame.key => ts.hasKey /\ l[i].frame.pts <= ts.lastKeyPTS
    /\ \A i, j \in 1 .. Len(l) : i < j /\ DataOf(l[i], id) /\ DataOf(l[j], id) =>
          /\ ~ts.reordered => Eff(l[i].frame) <= Eff(l[j].frame)
          /\ ts.reordered /\ l[i].frame.key /\ l[j].frame.key =>
                l[i].frame.pts <= l[j].frame.pts

OrderInv(l, trs) ==
    /\ \A i \in 1 .. Len(l) : IsData(l[i]) => l[i].track \in DOMAIN trs
    /\ \A id \in DOMAIN trs : TrackOrder(l, trs[id], id)

\* The frame in a chunk.
LEMMA FrameOfChunk ==
    ASSUME NEW c \in Chunk, c.type = "data"
    PROVE  c.frame \in Frame /\ c.frame.pts \in Nat /\ Eff(c.frame) \in Nat
<1>1. c.frame \in Frame
  BY DEF Chunk, CheckpointChunk, DataChunk, FooterChunk, TrackInfoChunk
<1> QED BY <1>1 DEF Eff, Frame, PTS

\* The counters that the order depends on.
SameOrder(ts, ns) ==
    /\ ns.hasLast = ts.hasLast /\ ns.reordered = ts.reordered /\ ns.lastEff = ts.lastEff
    /\ ns.hasKey = ts.hasKey /\ ns.lastKeyPTS = ts.lastKeyPTS

\* A chunk that is no frame.
LEMMA OrderOfOther ==
    ASSUME NEW l \in Seq(Chunk), NEW trs, OrderInv(l, trs), NEW c \in Chunk, ~IsData(c)
    PROVE  OrderInv(Append(l, c), trs)
<1> DEFINE m == Append(l, c)
<1>1. /\ Len(m) = Len(l) + 1 /\ m[Len(l) + 1] = c /\ Len(l) \in Nat
      /\ \A i \in 1 .. Len(l) : m[i] = l[i]
  BY AppendChunk, LenProperties DEF Extends
<1> HIDE DEF m
<1>2. \A i \in 1 .. Len(m) : IsData(m[i]) => i \in 1 .. Len(l)
  BY <1>1
<1>3. ASSUME NEW id \in DOMAIN trs PROVE TrackOrder(m, trs[id], id)
  <2>1. TrackOrder(l, trs[id], id)
    BY DEF OrderInv
  <2>2. \A i \in 1 .. Len(m) : DataOf(m[i], id) => i \in 1 .. Len(l) /\ m[i] = l[i]
    BY <1>1, <1>2 DEF DataOf, IsData
  <2> QED BY <2>1, <2>2 DEF TrackOrder
<1>4. OrderInv(m, trs)
  BY <1>1, <1>2, <1>3 DEF OrderInv
<1> QED BY <1>4 DEF m

\* A new track.
LEMMA OrderOfTrack ==
    ASSUME NEW l \in Seq(Chunk), NEW trs, OrderInv(l, trs), NEW id, id \notin DOMAIN trs,
           NEW ts
    PROVE  OrderInv(l, Put(trs, id, ts))
<1> DEFINE trs2 == Put(trs, id, ts)
<1>1. DOMAIN trs2 = DOMAIN trs \cup {id} /\ \A x \in DOMAIN trs : trs2[x] = trs[x]
  BY DEF Put
<1> HIDE DEF trs2
<1>2. ASSUME NEW x \in DOMAIN trs2 PROVE TrackOrder(l, trs2[x], x)
  <2>1. CASE x \in DOMAIN trs
    BY <1>1, <2>1 DEF OrderInv
  <2>2. CASE x \notin DOMAIN trs
    <3>1. \A i \in 1 .. Len(l) : ~DataOf(l[i], x)
      BY <2>2 DEF OrderInv, DataOf, IsData
    <3> QED BY <3>1 DEF TrackOrder
  <2> QED BY <2>1, <2>2
<1>3. OrderInv(l, trs2)
  BY <1>1, <1>2 DEF OrderInv
<1> QED BY <1>3 DEF trs2

\* A frame that the monotonicity check lets through.
LEMMA OrderOfFrame ==
    ASSUME NEW l \in Seq(Chunk), NEW trs, OrderInv(l, trs),
           NEW id \in DOMAIN trs, id \in TrackIDs, trs[id] \in TrackState, NEW fr \in Frame,
           Monotonic(trs[id], fr),
           NEW c, c = [type |-> "data", track |-> id, frame |-> fr],
           NEW trs2, trs2 = [trs EXCEPT ![id] = Counted(@, fr)]
    PROVE  OrderInv(Append(l, c), trs2)
<1> DEFINE m == Append(l, c)
           ts == trs[id]
           ns == trs2[id]
           N == Len(l)
<1>0. c \in Chunk /\ c.frame = fr /\ c.track = id /\ c.type = "data"
  BY ChunksTyped
<1>1. /\ Len(m) = N + 1 /\ m[N + 1] = c /\ N \in Nat /\ \A i \in 1 .. N : m[i] = l[i]
  BY <1>0, AppendChunk, LenProperties DEF Extends
<1> HIDE DEF m
<1>2. DOMAIN trs2 = DOMAIN trs /\ \A x \in DOMAIN trs : x # id => trs2[x] = trs[x]
  OBVIOUS
<1>3. /\ ns.hasLast /\ ns.reordered = ts.reordered /\ ns.lastEff = Eff(fr)
      /\ ns.hasKey = (IF fr.key THEN TRUE ELSE ts.hasKey)
      /\ ns.lastKeyPTS = (IF fr.key THEN fr.pts ELSE ts.lastKeyPTS)
  <2>1. ns = Counted(ts, fr)
    OBVIOUS
  <2> QED BY <2>1 DEF Counted, TrackState
<1>4. TrackOrder(l, ts, id)
  BY DEF OrderInv
<1>5. Eff(fr) \in Nat /\ ts.lastEff \in Nat /\ fr.pts \in Nat /\ ts.lastKeyPTS \in Nat
  BY DEF Eff, Frame, PTS, TrackState
<1>6. \A i \in 1 .. N : DataOf(l[i], id) => Eff(l[i].frame) \in Nat /\ l[i].frame.pts \in Nat
  <2> SUFFICES ASSUME NEW i \in 1 .. N, DataOf(l[i], id)
               PROVE  Eff(l[i].frame) \in Nat /\ l[i].frame.pts \in Nat
    OBVIOUS
  <2>1. l[i] \in Chunk
    BY ElementOfSeq
  <2> QED BY <2>1, FrameOfChunk DEF DataOf
<1>7. \A i \in 1 .. N : DataOf(l[i], id) =>
         /\ ~ts.reordered => Eff(l[i].frame) <= Eff(fr)
         /\ ts.reordered /\ l[i].frame.key /\ fr.key => l[i].frame.pts <= fr.pts
  <2> SUFFICES ASSUME NEW i \in 1 .. N, DataOf(l[i], id)
               PROVE  /\ ~ts.reordered => Eff(l[i].frame) <= Eff(fr)
                      /\ ts.reordered /\ l[i].frame.key /\ fr.key => l[i].frame.pts <= fr.pts
    OBVIOUS
  <2>1. /\ ts.hasLast
        /\ ~ts.reordered => Eff(l[i].frame) <= ts.lastEff
        /\ ts.reordered /\ l[i].frame.key => ts.hasKey /\ l[i].frame.pts <= ts.lastKeyPTS
    BY <1>4 DEF TrackOrder
  <2>2. /\ ~ts.reordered => Eff(fr) >= ts.lastEff
        /\ ts.reordered /\ fr.key /\ ts.hasKey => fr.pts >= ts.lastKeyPTS
    BY <2>1 DEF Monotonic
  <2> QED BY <1>5, <1>6, <2>1, <2>2
<1> HIDE DEF ns, ts
<1>8. TrackOrder(m, ns, id)
  <2>1. ASSUME NEW i \in 1 .. Len(m), DataOf(m[i], id)
        PROVE  /\ ns.hasLast
               /\ ~ns.reordered => Eff(m[i].frame) <= ns.lastEff
               /\ ns.reordered /\ m[i].frame.key => ns.hasKey /\ m[i].frame.pts <= ns.lastKeyPTS
    <3>1. CASE i = N + 1
      BY <1>0, <1>1, <1>3, <1>5, <3>1
    <3>2. CASE i # N + 1
      <4>1. i \in 1 .. N /\ m[i] = l[i] /\ DataOf(l[i], id)
        BY <1>1, <2>1, <3>2
      <4>2. /\ ~ts.reordered => Eff(l[i].frame) <= Eff(fr)
            /\ ts.reordered /\ l[i].frame.key /\ fr.key => l[i].frame.pts <= fr.pts
        BY <1>7, <4>1
      <4>3. ts.reordered /\ l[i].frame.key => ts.hasKey /\ l[i].frame.pts <= ts.lastKeyPTS
        BY <1>4, <4>1 DEF TrackOrder
      <4> QED BY <1>3, <4>1, <4>2, <4>3
    <3> QED BY <3>1, <3>2
  <2>2. ASSUME NEW i \in 1 .. Len(m), NEW j \in 1 .. Len(m), i < j,
               DataOf(m[i], id), DataOf(m[j], id)
        PROVE  /\ ~ns.reordered => Eff(m[i].frame) <= Eff(m[j].frame)
               /\ ns.reordered /\ m[i].frame.key /\ m[j].frame.key =>
                     m[i].frame.pts <= m[j].frame.pts
    <3>1. i \in 1 .. N /\ m[i] = l[i] /\ DataOf(l[i], id)
      BY <1>1, <2>2
    <3>2. CASE j = N + 1
      BY <1>0, <1>1, <1>3, <1>7, <3>1, <3>2
    <3>3. CASE j # N + 1
      <4>1. j \in 1 .. N /\ m[j] = l[j] /\ DataOf(l[j], id)
        BY <1>1, <2>2, <3>3
      <4> QED BY <1>3, <1>4, <2>2, <3>1, <4>1 DEF TrackOrder
    <3> QED BY <3>2, <3>3
  <2> QED BY <2>1, <2>2 DEF TrackOrder
<1>9. ASSUME NEW x \in DOMAIN trs, x # id PROVE TrackOrder(m, trs[x], x)
  <2>1. TrackOrder(l, trs[x], x)
    BY DEF OrderInv
  <2>2. \A i \in 1 .. Len(m) : DataOf(m[i], x) => i \in 1 .. N /\ m[i] = l[i]
    BY <1>0, <1>1, <1>9 DEF DataOf
  <2> QED BY <2>1, <2>2 DEF TrackOrder
<1>10. ASSUME NEW i \in 1 .. Len(m), IsData(m[i]) PROVE m[i].track \in DOMAIN trs
  <2>1. i \in 1 .. N \/ i = N + 1
    BY <1>1
  <2> QED BY <1>0, <1>1, <1>10, <2>1 DEF OrderInv
<1>11. ASSUME NEW x \in DOMAIN trs2 PROVE TrackOrder(m, trs2[x], x)
  BY <1>2, <1>8, <1>9 DEF ns
<1>12. OrderInv(m, trs2)
  BY <1>2, <1>10, <1>11 DEF OrderInv
<1> QED BY <1>12 DEF m

\* The reset of the sampling flags.
LEMMA OrderOfReset ==
    ASSUME NEW l, NEW trs, OrderInv(l, trs), \A x \in DOMAIN trs : trs[x] \in TrackState
    PROVE  OrderInv(l, ResetSampling(trs))
<1> DEFINE trs2 == ResetSampling(trs)
<1>1. DOMAIN trs2 = DOMAIN trs /\ \A x \in DOMAIN trs : SameOrder(trs[x], trs2[x])
  BY DEF ResetSampling, TrackState, SameOrder
<1> HIDE DEF trs2
<1>2. ASSUME NEW x \in DOMAIN trs2 PROVE TrackOrder(l, trs2[x], x)
  <2>1. TrackOrder(l, trs[x], x) /\ SameOrder(trs[x], trs2[x])
    BY <1>1 DEF OrderInv
  <2> QED BY <2>1 DEF TrackOrder, SameOrder
<1>3. OrderInv(l, trs2)
  BY <1>1, <1>2 DEF OrderInv
<1> QED BY <1>3 DEF trs2

-----------------------------------------------------------------------------
(* Every keyframe of a track that is not sampled is in the index.          *)

HasEntry(es, i) == \E k \in 1 .. Len(es) : es[k].off = i

AllIndexed(l, trs, ix) ==
    \A id \in DOMAIN trs : trs[id].kind # "audio" =>
        \A i \in 1 .. Len(l) : SyncPointOf(l[i], id) => HasEntry(EntriesOf(ix, id), i)

\* A chunk that is no frame.
LEMMA AllIndexedOther ==
    ASSUME NEW l \in Seq(Chunk), NEW trs, NEW ix, AllIndexed(l, trs, ix),
           NEW c \in Chunk, ~IsData(c)
    PROVE  AllIndexed(Append(l, c), trs, ix)
<1> DEFINE m == Append(l, c)
<1>1. /\ Len(m) = Len(l) + 1 /\ m[Len(l) + 1] = c /\ Len(l) \in Nat
      /\ \A i \in 1 .. Len(l) : m[i] = l[i]
  BY AppendChunk, LenProperties DEF Extends
<1> HIDE DEF m
<1>2. \A id : \A i \in 1 .. Len(m) : SyncPointOf(m[i], id) => i \in 1 .. Len(l) /\ m[i] = l[i]
  BY <1>1 DEF SyncPointOf, DataOf, IsData
<1>3. AllIndexed(m, trs, ix)
  BY <1>2 DEF AllIndexed
<1> QED BY <1>3 DEF m

\* The same index under other tracks, of the same kinds or new.
LEMMA AllIndexedTracks ==
    ASSUME NEW l, NEW trs, NEW ix, AllIndexed(l, trs, ix), NEW trs2,
           \A x \in DOMAIN trs2 :
               \/ x \in DOMAIN trs /\ trs2[x].kind = trs[x].kind
               \/ \A i \in 1 .. Len(l) : ~DataOf(l[i], x)
    PROVE  AllIndexed(l, trs2, ix)
BY DEF AllIndexed, SyncPointOf

\* A frame.
LEMMA AllIndexedFrame ==
    ASSUME NEW l \in Seq(Chunk), NEW trs, NEW ix, AllIndexed(l, trs, ix),
           \A x \in TrackIDs : EntriesOf(ix, x) \in Seq(IndexEntry), DOMAIN trs \subseteq TrackIDs,
           NEW id \in DOMAIN trs, NEW fr \in Frame,
           NEW c, c = [type |-> "data", track |-> id, frame |-> fr],
           NEW indexed \in BOOLEAN, fr.key /\ ~indexed => trs[id].kind = "audio",
           NEW ix2, ix2 = IF indexed THEN IndexAdd(ix, id, fr.pts, Len(l) + 1) ELSE ix
    PROVE  AllIndexed(Append(l, c), trs, ix2)
<1> DEFINE m == Append(l, c)
           N == Len(l)
<1>0. c \in Chunk /\ c.frame = fr /\ c.track = id /\ c.type = "data"
  BY ChunksTyped
<1>1. /\ Len(m) = N + 1 /\ m[N + 1] = c /\ N \in Nat /\ \A i \in 1 .. N : m[i] = l[i]
  BY <1>0, AppendChunk, LenProperties DEF Extends
<1> HIDE DEF m
<1>2. ASSUME NEW x \in DOMAIN trs, trs[x].kind # "audio", NEW i \in 1 .. Len(m),
             SyncPointOf(m[i], x)
      PROVE  HasEntry(EntriesOf(ix2, x), i)
  <2> DEFINE es == EntriesOf(ix, x)
             e == [pts |-> fr.pts, off |-> N + 1]
  <2>1. es \in Seq(IndexEntry) /\ e \in IndexEntry
    <3>1. es \in Seq(IndexEntry)
      OBVIOUS
    <3>2. e \in IndexEntry
      BY <1>1 DEF IndexEntry, Frame
    <3> QED BY <3>1, <3>2
  <2>2. EntriesOf(ix2, x) = IF indexed /\ x = id THEN Append(es, e) ELSE es
    <3>1. \A y, pts, off : EntriesOf(IndexAdd(ix, y, pts, off), x) =
             IF x = y THEN Append(EntriesOf(ix, y), [pts |-> pts, off |-> off])
             ELSE EntriesOf(ix, x)
      BY EntriesOfAdd
    <3> QED BY <3>1
  <2>3. e.off = N + 1
    OBVIOUS
  <2> DEFINE new == Append(es, e)
  <2> HIDE DEF es, e
  <2>4. /\ Len(es) \in Nat /\ Len(new) = Len(es) + 1 /\ new[Len(es) + 1] = e
        /\ \A k \in 1 .. Len(es) : new[k] = es[k]
    BY <2>1, AppendProperties, LenProperties
  <2> HIDE DEF new
  <2>5. CASE i = N + 1
    <3>1. x = id /\ fr.key
      BY <1>0, <1>1, <1>2, <2>5 DEF SyncPointOf, DataOf
    <3>2. indexed
      BY <1>2, <3>1
    <3>3. HasEntry(new, N + 1)
      <4>1. Len(es) + 1 \in 1 .. Len(new)
        BY <2>4
      <4> QED BY <2>3, <2>4, <4>1 DEF HasEntry
    <3> QED BY <2>2, <2>5, <3>1, <3>2, <3>3 DEF new
  <2>6. CASE i # N + 1
    <3>1. i \in 1 .. N /\ SyncPointOf(l[i], x)
      BY <1>1, <1>2, <2>6
    <3>2. HasEntry(es, i)
      BY <1>2, <3>1 DEF AllIndexed, es
    <3>3. HasEntry(new, i)
      <4>1. PICK k \in 1 .. Len(es) : es[k].off = i
        BY <3>2 DEF HasEntry
      <4>2. k \in 1 .. Len(new)
        BY <2>4
      <4> QED BY <2>4, <4>1, <4>2 DEF HasEntry
    <3> QED BY <2>2, <3>2, <3>3 DEF new
  <2> QED BY <2>5, <2>6
<1>3. AllIndexed(m, trs, ix2)
  BY <1>2 DEF AllIndexed
<1> QED BY <1>3 DEF m

-----------------------------------------------------------------------------
(* Order and completeness of the index in every reachable state.           *)

SeekState == OrderInv(log, tracks) /\ AllIndexed(log, tracks, idx)

\* The order of the index, action by action.
LEMMA SeekInit == Init => SeekState
<1> SUFFICES ASSUME Init PROVE OrderInv(<<>>, EmptyMap) /\ AllIndexed(<<>>, EmptyMap, EmptyMap)
  BY DEF SeekState, Init
<1>1. DOMAIN EmptyMap = {}
  BY DEF EmptyMap
<1> QED BY <1>1 DEF OrderInv, AllIndexed

LEMMA AddTrackSeek ==
    ASSUME TypeOK, SeekState, NEW mode \in TrackModes, AddTrack(mode),
           nextTrack \notin DOMAIN tracks
    PROVE  SeekState'
<1> DEFINE c == [type |-> "trackinfo", id |-> nextTrack, kind |-> mode.kind]
           ts == NewTrack(mode)
           trs2 == Put(tracks, nextTrack, ts)
<1>1. idx' = idx
  BY DEF AddTrack
<1>2. CASE AppendFailed /\ UNCHANGED <<tracks, nextTrack>>
  BY <1>1, <1>2 DEF AppendFailed, SeekState
<1>3. CASE log' = Append(log, c) /\ tracks' = trs2
  <2>1. c \in Chunk /\ ~IsData(c) /\ log \in Seq(Chunk)
    BY ChunksTyped, WriterAssumption DEF TypeOK, TracksTypeOK, StreamTypeOK, IsData
  <2>2. DOMAIN trs2 = DOMAIN tracks \cup {nextTrack} /\ \A x \in DOMAIN tracks : trs2[x] = tracks[x]
    BY DEF Put
  <2>3. \A i \in 1 .. Len(log) : ~DataOf(log[i], nextTrack)
    BY DEF SeekState, OrderInv, DataOf, IsData
  <2> HIDE DEF ts
  <2>4. OrderInv(log, trs2)
    BY <2>1, OrderOfTrack DEF SeekState
  <2>5. AllIndexed(log, trs2, idx)
    <3>1. \A x \in DOMAIN trs2 : \/ x \in DOMAIN tracks /\ trs2[x].kind = tracks[x].kind
                                 \/ \A i \in 1 .. Len(log) : ~DataOf(log[i], x)
      BY <2>2, <2>3
    <3> HIDE DEF trs2
    <3> QED BY <3>1, AllIndexedTracks DEF SeekState
  <2> HIDE DEF trs2, c
  <2>6. OrderInv(Append(log, c), trs2) /\ AllIndexed(Append(log, c), trs2, idx)
    BY <2>1, <2>4, <2>5, OrderOfOther, AllIndexedOther
  <2> QED BY <1>1, <1>3, <2>6 DEF SeekState
<1> QED BY <1>2, <1>3 DEF AddTrack, Appended

LEMMA WriteFrameSeek ==
    ASSUME TypeOK, IndexState, SeekState, NEW id \in DOMAIN tracks, NEW fr \in Frames,
           WriteFrame(id, fr)
    PROVE  SeekState'
<1>1. CASE AppendFailed /\ UNCHANGED <<tracks, idx, pending, prevCPOff, lastCPEnd>>
  BY <1>1 DEF AppendFailed, SeekState
<1>2. CASE CommitFrame(id, fr)
  <2> DEFINE log1 == LogWith(id, fr)
             tracks1 == [tracks EXCEPT ![id] = Counted(@, fr)]
             pending1 == PendingWith(id, fr)
             c == [type |-> "data", track |-> id, frame |-> fr]
             indexed == Indexed(id, fr)
             ix2 == idx'
  <2>1. MaybeCheckpoint(log1, tracks1, pending1)
    BY <1>2 DEF CommitFrame
  <2>2. log1 \in Seq(Chunk) /\ pending1 \in Seq(CpEntry) /\ log1 = Append(log, c)
    BY FrameWritten DEF LogWith
  <2>3. /\ id \in TrackIDs /\ fr \in Frame /\ \A x \in DOMAIN tracks : tracks[x] \in TrackState
        /\ log \in Seq(Chunk) /\ DOMAIN tracks \subseteq TrackIDs
    BY WriterAssumption DEF TypeOK, TracksTypeOK, StreamTypeOK
  <2>4. Monotonic(tracks[id], fr)
    BY DEF WriteFrame
  <2>5. OrderInv(log1, tracks1)
    <3>1. c = [type |-> "data", track |-> id, frame |-> fr]
          /\ tracks1 = [tracks EXCEPT ![id] = Counted(@, fr)]
      OBVIOUS
    <3> HIDE DEF c, tracks1, log1
    <3>2. OrderInv(Append(log, c), tracks1)
      BY <2>3, <2>4, <3>1, OrderOfFrame DEF SeekState
    <3> QED BY <2>2, <3>2
  <2>6. AllIndexed(log1, tracks, ix2)
    <3>1. indexed \in BOOLEAN /\ (fr.key /\ ~indexed => tracks[id].kind = "audio")
      BY <2>3 DEF Indexed, ShouldIndexSync, Frame, TrackState
    <3>2. ix2 = IF indexed THEN IndexAdd(idx, id, fr.pts, Len(log) + 1) ELSE idx
      BY <1>2 DEF CommitFrame, Committed
    <3>3. \A x \in TrackIDs : EntriesOf(idx, x) \in Seq(IndexEntry)
      BY DEF IndexState, IndexInv, TrackIndex
    <3>4. c = [type |-> "data", track |-> id, frame |-> fr]
      OBVIOUS
    <3> HIDE DEF c, indexed, ix2, log1
    <3>5. AllIndexed(Append(log, c), tracks, ix2)
      BY <2>3, <3>1, <3>2, <3>3, <3>4, AllIndexedFrame DEF SeekState
    <3> QED BY <2>2, <3>5
  <2>7. tracks' = tracks1 \/ tracks' = ResetSampling(tracks1)
    BY <2>1, <2>2, CheckpointStep
  <2>8. OrderInv(log1, tracks')
    <3>1. \A x \in DOMAIN tracks1 : tracks1[x] \in TrackState
      BY <2>3, CountedType
    <3> HIDE DEF log1, tracks1
    <3> QED BY <2>5, <2>7, <3>1, OrderOfReset
  <2>9. AllIndexed(log1, tracks', ix2)
    <3>1. DOMAIN tracks' = DOMAIN tracks /\ \A x \in DOMAIN tracks : tracks'[x].kind = tracks[x].kind
      <4>1. DOMAIN tracks1 = DOMAIN tracks /\ \A x \in DOMAIN tracks : tracks1[x].kind = tracks[x].kind
        BY <2>3 DEF Counted, TrackState
      <4>2. \A x \in DOMAIN tracks1 : tracks1[x] \in TrackState
        BY <2>3, CountedType
      <4> HIDE DEF tracks1
      <4>3. /\ DOMAIN ResetSampling(tracks1) = DOMAIN tracks1
            /\ \A x \in DOMAIN tracks1 : ResetSampling(tracks1)[x].kind = tracks1[x].kind
        BY <4>2 DEF ResetSampling, TrackState
      <4> QED BY <2>7, <4>1, <4>3
    <3> HIDE DEF log1, ix2
    <3> QED BY <2>6, <3>1, AllIndexedTracks
  <2>10. CASE log' = log1
    BY <2>8, <2>9, <2>10 DEF SeekState
  <2>11. CASE log' = Append(log1, CheckpointOf(pending1))
    <3> DEFINE cp == CheckpointOf(pending1)
    <3>1. cp \in Chunk /\ ~IsData(cp)
      <4>1. prevCPOff \in Nat
        BY DEF TypeOK, StreamTypeOK
      <4> QED BY <2>2, <4>1, ChunksTyped DEF CheckpointOf, IsData
    <3> HIDE DEF cp, log1, ix2
    <3>2. OrderInv(Append(log1, cp), tracks') /\ AllIndexed(Append(log1, cp), tracks', ix2)
      BY <2>2, <2>8, <2>9, <3>1, OrderOfOther, AllIndexedOther
    <3> QED BY <2>11, <3>2 DEF SeekState, cp, ix2
  <2> QED BY <2>1, <2>2, <2>10, <2>11, CheckpointStep
<1> QED BY <1>1, <1>2 DEF WriteFrame

LEMMA FinalizeSeek ==
    ASSUME TypeOK, SeekState, Finalize
    PROVE  SeekState'
<1> DEFINE c == [type |-> "footer"]
<1>1. UNCHANGED <<tracks, idx>>
  BY DEF Finalize
<1>2. CASE AppendFailed
  BY <1>1, <1>2 DEF AppendFailed, SeekState
<1>3. CASE log' = Append(log, c)
  <2>1. c \in Chunk /\ ~IsData(c) /\ log \in Seq(Chunk)
    BY ChunksTyped DEF IsData, TypeOK, StreamTypeOK
  <2> HIDE DEF c
  <2>2. OrderInv(Append(log, c), tracks) /\ AllIndexed(Append(log, c), tracks, idx)
    BY <2>1, OrderOfOther, AllIndexedOther DEF SeekState
  <2> QED BY <1>1, <1>3, <2>2 DEF SeekState
<1> QED BY <1>2, <1>3 DEF Finalize, FooterWritten

\* The order of the index holds throughout.
LEMMA SeekHolds ==
    ASSUME MaxTracks <= TrackIDSpace
    PROVE  Spec => []SeekState
<1>1. TypeOK /\ Fresh /\ IndexState /\ SeekState /\ [Next]_vars => SeekState'
  <2> SUFFICES ASSUME TypeOK, Fresh, IndexState, SeekState, [Next]_vars PROVE SeekState'
    OBVIOUS
  <2>1. ASSUME NEW mode \in TrackModes, AddTrack(mode) PROVE SeekState'
    BY <2>1, AddTrackFresh, AddTrackSeek
  <2>2. ASSUME NEW id \in DOMAIN tracks, NEW fr \in Frames, WriteFrame(id, fr)
        PROVE  SeekState'
    BY <2>2, WriteFrameSeek
  <2>3. CASE Close
    BY <2>3 DEF Close, disk, SeekState
  <2>4. CASE Finalize
    BY <2>4, FinalizeSeek
  <2>5. CASE UNCHANGED vars
    BY <2>5 DEF vars, SeekState
  <2> QED BY <2>1, <2>2, <2>3, <2>4, <2>5 DEF Next
<1> QED BY <1>1, SeekInit, FreshHolds, IndexHolds, TypeCorrect, PTL DEF Spec

-----------------------------------------------------------------------------
(* What a seek finds.                                                      *)

\* On a track whose pts are in order, so are its keyframes and its entries.
LEMMA KeysInOrder ==
    ASSUME TypeOK, SeekState, NEW id \in DOMAIN tracks, PTSOrdered(id),
           NEW i \in 1 .. Len(log), NEW j \in 1 .. Len(log), i <= j,
           DataOf(log[i], id), DataOf(log[j], id),
           tracks[id].reordered => log[i].frame.key /\ log[j].frame.key
    PROVE  log[i].frame.pts <= log[j].frame.pts
<1>1. log \in Seq(Chunk) /\ DOMAIN log = 1 .. Len(log) /\ Len(log) \in Nat
  BY LenProperties DEF TypeOK, StreamTypeOK
<1>2. /\ log[i].frame \in Frame /\ log[i].frame.pts \in Nat
      /\ log[j].frame \in Frame /\ log[j].frame.pts \in Nat
  BY <1>1, ElementOfSeq, FrameOfChunk DEF DataOf
<1>3. TrackOrder(log, tracks[id], id)
  BY DEF SeekState, OrderInv
<1>4. CASE i = j
  BY <1>2, <1>4
<1>5. CASE i # j /\ tracks[id].reordered
  <2>1. i < j
    BY <1>1, <1>5
  <2> QED BY <1>3, <1>5, <2>1 DEF TrackOrder
<1>6. CASE i # j /\ ~tracks[id].reordered
  <2>1. i < j
    BY <1>1, <1>6
  <2>2. Eff(log[i].frame) <= Eff(log[j].frame)
    BY <1>3, <1>6, <2>1 DEF TrackOrder
  <2>3. ~log[i].frame.hasDTS /\ ~log[j].frame.hasDTS
    BY <1>1, <1>6 DEF PTSOrdered, UsesDTS
  <2> QED BY <2>2, <2>3 DEF Eff
<1> QED BY <1>4, <1>5, <1>6

\* The entries of a track.
LEMMA IndexedTrack ==
    ASSUME TypeOK, IndexSound, IndexState, SeekState, NEW id \in DOMAIN tracks
    PROVE  LET es == EntriesOf(idx, id)
           IN  /\ es \in Seq(IndexEntry) /\ Ascending(es, Len(log))
               /\ \A k \in 1 .. Len(es) :
                     /\ es[k].off \in 1 .. Len(log) /\ es[k].pts \in Nat
                     /\ SyncPointOf(log[es[k].off], id) /\ log[es[k].off].frame.pts = es[k].pts
               /\ PTSOrdered(id) => Rising(es)
<1> DEFINE es == EntriesOf(idx, id)
<1>1. id \in TrackIDs /\ DOMAIN log = 1 .. Len(log)
  BY LenProperties DEF TypeOK, TracksTypeOK, StreamTypeOK
<1>2. es \in Seq(IndexEntry) /\ Ascending(es, Len(log))
  BY <1>1 DEF IndexState, IndexInv, TrackIndex
<1>3. ASSUME NEW k \in 1 .. Len(es)
      PROVE  /\ es[k].off \in 1 .. Len(log) /\ es[k].pts \in Nat
             /\ SyncPointOf(log[es[k].off], id) /\ log[es[k].off].frame.pts = es[k].pts
  <2>1. es[k].pts \in Nat
    BY <1>2, EntryFields DEF PTS
  <2>2. id \in DOMAIN idx /\ es = idx[id]
    BY <1>3 DEF EntriesOf, Get
  <2>3. k \in DOMAIN idx[id]
    BY <1>2, <2>2, LenProperties
  <2>4. NamesSyncPoint(log, idx[id][k], id, Len(log) + 1)
    BY <2>2, <2>3 DEF IndexSound, MemorySound
  <2> QED BY <1>1, <2>1, <2>2, <2>4 DEF NamesSyncPoint
<1> HIDE DEF es
<1>4. ASSUME PTSOrdered(id), NEW j \in 1 .. Len(es), NEW k \in 1 .. Len(es), j < k
      PROVE  es[j].pts <= es[k].pts
  <2>1. es[j].off < es[k].off
    BY <1>2, <1>4 DEF Ascending
  <2>2. es[j].off <= es[k].off
    BY <1>3, <2>1
  <2>3. log[es[j].off].frame.pts <= log[es[k].off].frame.pts
    BY <1>3, <1>4, <2>2, KeysInOrder DEF SyncPointOf
  <2> QED BY <1>3, <2>3
<1>5. PTSOrdered(id) => Rising(es)
  BY <1>4 DEF Rising
<1> QED BY <1>2, <1>3, <1>5 DEF es

\* What SeekPTS returns on a track in pts order: the stream start or the offset of
\* an entry, with every later entry behind the target.
LEMMA SeekReturns ==
    ASSUME TypeOK, IndexSound, IndexState, SeekState, NEW id \in DOMAIN tracks, PTSOrdered(id),
           NEW pts \in Int
    PROVE  LET es == EntriesOf(idx, id)
               s  == SeekStart(idx, id, pts)
           IN  \/ s = StreamStart /\ \A k \in 1 .. Len(es) : es[k].pts > pts
               \/ \E k \in 1 .. Len(es) :
                     /\ s = es[k].off /\ es[k].pts <= pts
                     /\ \A j \in 1 .. Len(es) : es[j].pts <= pts => j <= k
<1> DEFINE es == EntriesOf(idx, id)
           n == SortSearch(es, pts)
<1>1. /\ es \in Seq(IndexEntry) /\ Rising(es) /\ Len(es) \in Nat
      /\ \A k \in 1 .. Len(es) : es[k].off \in 1 .. Len(log) /\ es[k].pts \in Nat
  BY IndexedTrack, LenProperties
<1>2. SeekStart(idx, id, pts) =
         IF (IF n = 0 THEN 0 ELSE es[n].off) = 0 THEN StreamStart
         ELSE (IF n = 0 THEN 0 ELSE es[n].off)
  BY DEF SeekStart, Seek
<1> HIDE DEF es
<1>3. n \in 0 .. Len(es) /\ \A k \in 1 .. Len(es) : k <= n <=> es[k].pts <= pts
  BY <1>1, SearchFinds
<1> HIDE DEF n
<1>4. CASE n = 0
  <2>1. \A k \in 1 .. Len(es) : es[k].pts > pts
    BY <1>1, <1>3, <1>4
  <2> QED BY <1>2, <1>4, <2>1 DEF es
<1>5. CASE n # 0
  <2>1. n \in 1 .. Len(es) /\ es[n].off # 0 /\ es[n].pts <= pts
    BY <1>1, <1>3, <1>5
  <2>2. SeekStart(idx, id, pts) = es[n].off
    BY <1>2, <1>5, <2>1
  <2> QED BY <1>3, <2>1, <2>2 DEF es
<1> QED BY <1>4, <1>5

\* A seek on a track that is not sampled lands on its last sync point.
LEMMA SeekIsLast ==
    ASSUME TypeOK, IndexSound, IndexState, SeekState, NEW id \in DOMAIN tracks, PTSOrdered(id),
           tracks[id].kind # "audio", NEW pts \in Int
    PROVE  SeekStart(idx, id, pts) = LastSyncPoint(id, pts)
<1> DEFINE es == EntriesOf(idx, id)
           s == SeekStart(idx, id, pts)
           at == {i \in DOMAIN log : SyncPointOf(log[i], id) /\ log[i].frame.pts <= pts}
<1>1. DOMAIN log = 1 .. Len(log)
  BY LenProperties DEF TypeOK, StreamTypeOK
<1>2. /\ Ascending(es, Len(log))
      /\ \A k \in 1 .. Len(es) :
            /\ es[k].off \in 1 .. Len(log) /\ es[k].pts \in Nat
            /\ SyncPointOf(log[es[k].off], id) /\ log[es[k].off].frame.pts = es[k].pts
  BY IndexedTrack
<1>3. ASSUME NEW i \in at
      PROVE  \E k \in 1 .. Len(es) : es[k].off = i /\ es[k].pts <= pts
  <2>1. i \in 1 .. Len(log) /\ SyncPointOf(log[i], id) /\ log[i].frame.pts <= pts
    BY <1>1
  <2>2. HasEntry(es, i)
    BY <2>1 DEF SeekState, AllIndexed
  <2>3. PICK k \in 1 .. Len(es) : es[k].off = i
    BY <2>2 DEF HasEntry
  <2> QED BY <1>2, <2>1, <2>3
<1>4. LastSyncPoint(id, pts) =
         IF at = {} THEN StreamStart ELSE CHOOSE i \in at : \A j \in at : j <= i
  BY DEF LastSyncPoint
<1>5. \/ s = StreamStart /\ \A k \in 1 .. Len(es) : es[k].pts > pts
      \/ \E k \in 1 .. Len(es) :
            /\ s = es[k].off /\ es[k].pts <= pts
            /\ \A j \in 1 .. Len(es) : es[j].pts <= pts => j <= k
  BY SeekReturns
<1>6. \A i \in at : i \in 1 .. Len(log)
  BY <1>1
<1>7. \A k \in 1 .. Len(es) : es[k].pts <= pts => es[k].off \in at
  BY <1>1, <1>2
<1> HIDE DEF es, s, at
<1>8. CASE s = StreamStart /\ \A k \in 1 .. Len(es) : es[k].pts > pts
  <2>1. at = {}
    BY <1>2, <1>3, <1>8
  <2> QED BY <1>4, <1>8, <2>1 DEF s
<1>9. ASSUME NEW k \in 1 .. Len(es), s = es[k].off, es[k].pts <= pts,
             \A j \in 1 .. Len(es) : es[j].pts <= pts => j <= k
      PROVE  s = LastSyncPoint(id, pts)
  <2>1. s \in at
    BY <1>7, <1>9
  <2>2. ASSUME NEW i \in at PROVE i <= s
    <3>1. PICK j \in 1 .. Len(es) : es[j].off = i /\ es[j].pts <= pts
      BY <1>3
    <3>2. j = k \/ j < k
      BY <1>9, <3>1
    <3> QED BY <1>2, <1>9, <3>1, <3>2 DEF Ascending
  <2>3. \A i \in at : (\A j \in at : j <= i) => i = s
    BY <1>6, <2>1, <2>2
  <2> QED BY <1>4, <2>1, <2>2, <2>3
<1> QED BY <1>5, <1>8, <1>9 DEF s

\* No frame behind the target lies before the start of a seek.
LEMMA SeekIsEarly ==
    ASSUME TypeOK, IndexSound, IndexState, SeekState, NEW id \in DOMAIN tracks, PTSOrdered(id),
           ~tracks[id].reordered, NEW pts \in Int,
           NEW i \in 1 .. Len(log), i < SeekStart(idx, id, pts), DataOf(log[i], id)
    PROVE  log[i].frame.pts <= pts
<1> DEFINE es == EntriesOf(idx, id)
           s == SeekStart(idx, id, pts)
<1>1. \A k \in 1 .. Len(es) :
            /\ es[k].off \in 1 .. Len(log) /\ es[k].pts \in Nat
            /\ SyncPointOf(log[es[k].off], id) /\ log[es[k].off].frame.pts = es[k].pts
  BY IndexedTrack
<1>2. \/ s = StreamStart
      \/ \E k \in 1 .. Len(es) : s = es[k].off /\ es[k].pts <= pts
  BY SeekReturns
<1>3. s # StreamStart
  BY DEF StreamStart
<1> HIDE DEF es, s
<1>4. PICK k \in 1 .. Len(es) : s = es[k].off /\ es[k].pts <= pts
  BY <1>2, <1>3
<1>5. s \in 1 .. Len(log) /\ DataOf(log[s], id) /\ log[s].frame.pts = es[k].pts
  BY <1>1, <1>4 DEF SyncPointOf
<1>6. i <= s
  BY <1>5 DEF s
<1>7. log[i].frame.pts <= log[s].frame.pts
  BY <1>5, <1>6, KeysInOrder
<1>8. log[i].frame.pts \in Nat
  <2>1. log[i] \in Chunk
    BY ElementOfSeq DEF TypeOK, StreamTypeOK
  <2> QED BY <2>1, FrameOfChunk DEF DataOf
<1> QED BY <1>1, <1>4, <1>5, <1>7, <1>8

\* A seek starts at a committed chunk, or where the first one will be.
LEMMA SeekInStream ==
    ASSUME TypeOK, IndexSound, IndexState, SeekState, NEW id \in DOMAIN tracks, PTSOrdered(id),
           NEW pts \in Int
    PROVE  SeekStart(idx, id, pts) \in 1 .. Committed
<1> DEFINE es == EntriesOf(idx, id)
           s == SeekStart(idx, id, pts)
<1>1. \A k \in 1 .. Len(es) : es[k].off \in 1 .. Len(log)
  BY IndexedTrack
<1>2. s = StreamStart \/ \E k \in 1 .. Len(es) : s = es[k].off
  BY SeekReturns
<1>3. Len(log) \in Nat
  BY LenProperties DEF TypeOK, StreamTypeOK
<1> HIDE DEF es, s
<1>4. s \in 1 .. Len(log) + 1
  BY <1>1, <1>2, <1>3 DEF StreamStart
<1> QED BY <1>4 DEF s, Committed

\* The start of an interleaved read is the least of the starts of its tracks.
LEMMA InterleavedIsLeast ==
    ASSUME TypeOK, IndexSound, IndexState, SeekState, NEW at,
           \A id \in DOMAIN at : id \in DOMAIN tracks /\ PTSOrdered(id) /\ at[id] \in Int
    PROVE  LET m == InterleavedStart(idx, Committed, at)
               S == {Committed} \cup {SeekStart(idx, id, at[id]) : id \in DOMAIN at}
           IN  /\ m \in S /\ m \in 1 .. Committed
               /\ \A id \in DOMAIN at : m <= SeekStart(idx, id, at[id])
<1> DEFINE m == InterleavedStart(idx, Committed, at)
           T == {SeekStart(idx, id, at[id]) : id \in DOMAIN at}
           S == {Committed} \cup T
<1>1. Committed \in Nat /\ Committed >= 1
  BY LenProperties DEF TypeOK, StreamTypeOK, Committed
<1>2. \A id \in DOMAIN at : SeekStart(idx, id, at[id]) \in 1 .. Committed
  BY SeekInStream
<1>3. S \subseteq 1 .. Committed
  BY <1>1, <1>2
<1>4. m = CHOOSE o \in S : \A p \in S : o <= p
  BY DEF InterleavedStart
<1>5. \A id \in DOMAIN at : SeekStart(idx, id, at[id]) \in S
  OBVIOUS
<1>6. Committed \in S
  OBVIOUS
<1> HIDE DEF S, m
<1>7. \E o \in S : \A p \in S : o <= p
  <2>1. S \subseteq Nat /\ S # {}
    BY <1>1, <1>3, <1>6
  <2> QED BY ONLY <2>1, LeastNatural
<1>8. m \in S /\ \A p \in S : m <= p
  BY <1>4, <1>7
<1>9. m \in 1 .. Committed
  BY <1>3, <1>8
<1>10. \A id \in DOMAIN at : m <= SeekStart(idx, id, at[id])
  BY <1>5, <1>8
<1> QED BY <1>8, <1>9, <1>10 DEF m, S

-----------------------------------------------------------------------------
(* Words and times.                                                        *)

\* Products and order.
LEMMA ProductsInOrder ==
    ASSUME NEW a \in Int, NEW b \in Int, NEW c \in Nat
    PROVE  /\ a <= b => a * c <= b * c /\ c * a <= c * b
           /\ a < b /\ c # 0 => a * c < b * c
           /\ a * c < b * c => a < b
OBVIOUS

\* A quotient.
LEMMA QuotientBounds ==
    ASSUME NEW a \in Nat, NEW c \in Nat \ {0}
    PROVE  a \div c \in Nat /\ (a \div c) * c <= a /\ a < ((a \div c) + 1) * c
OBVIOUS

\* int64 of what fits, and of what is too large by less than a word.
LEMMA SignedFits ==
    ASSUME NEW n \in Int, -Half <= n
    PROVE  /\ n < Half => Signed(n) = n
           /\ Half <= n /\ n < 3 * Half => Signed(n) = n - 2 * Half
<1>1. Half \in Nat \ {0}
  BY QueriesAssumption
<1> QED BY <1>1 DEF Signed

\* A unit of a track, in nanoseconds: num * Nano / den.
LEMMA UnitOfTrack ==
    ASSUME NEW id \in TrackIDs
    PROVE  LET d == Timebase[id].den
               m == Timebase[id].num * Nano
           IN  /\ d \in Nat \ {0} /\ m \in Nat \ {0}
               /\ \A p \in Int : p * m = p * Timebase[id].num * Nano
<1>1. /\ Timebase[id].den \in Nat \ {0} /\ Timebase[id].num \in Nat \ {0}
      /\ Nano \in Nat \ {0}
  BY QueriesAssumption
<1> DEFINE a == Timebase[id].num
           b == Nano
<1>2. a \in Nat \ {0} /\ b \in Nat \ {0}
  BY <1>1
<1> HIDE DEF a, b
<1>3. a * b \in Nat \ {0} /\ \A p \in Int : p * (a * b) = p * a * b
  BY <1>2
<1> QED BY <1>1, <1>3 DEF a, b

\* Nanoseconds in units: the quotient may clamp, then it is the largest word.
LEMMA UnitsOfNano ==
    ASSUME NEW id \in TrackIDs, NEW ns \in Nat
    PROVE  LET d == Timebase[id].den
               m == Timebase[id].num * Nano
               q == NanoToPTS(ns, id)
           IN  q \in Nat /\ q * m <= ns * d /\ (q = MaxUint \/ ns * d < (q + 1) * m)
<1> DEFINE d == Timebase[id].den
           m == Timebase[id].num * Nano
           h == 2 * Half
           x == ns * d
<1>1. d \in Nat \ {0} /\ m \in Nat \ {0}
  BY UnitOfTrack
<1>2. h \in Nat /\ h > 0 /\ MaxUint = h - 1
  BY QueriesAssumption DEF MaxUint
<1>3. NanoToPTS(ns, id) = IF x >= h * m THEN MaxUint ELSE x \div m
  BY DEF NanoToPTS, MulDiv64
<1> HIDE DEF d, m, h
<1>4. x \in Nat /\ h * m \in Nat
  BY <1>1, <1>2
<1> HIDE DEF x
<1>5. x \div m \in Nat /\ (x \div m) * m <= x /\ x < ((x \div m) + 1) * m
  BY <1>1, <1>4, QuotientBounds
<1>6. CASE x >= h * m
  <2>1. MaxUint \in Nat /\ MaxUint * m <= h * m /\ MaxUint * m \in Nat
    BY <1>1, <1>2, ProductsInOrder
  <2>2. MaxUint * m <= x
    BY <1>4, <1>6, <2>1
  <2> QED BY <1>3, <1>6, <2>1, <2>2 DEF d, m, x
<1>7. CASE ~(x >= h * m)
  BY <1>3, <1>5, <1>7 DEF d, m, x
<1> QED BY <1>6, <1>7

\* The pts of the last frame in nanoseconds, when that fits int64, and back.
LEMMA UnitsOfPTS ==
    ASSUME NEW id \in TrackIDs, NEW pts \in Nat,
           pts <= MaxUint, pts * Timebase[id].num * Nano < Half * Timebase[id].den
    PROVE  LET ns == PtsToNano(pts, id)
           IN  ns \in Nat /\ ns < Half /\ NanoToPTS(ns, id) \in {pts - k : k \in 0 .. Early(id)}
<1> DEFINE d == Timebase[id].den
           m == Timebase[id].num * Nano
           h == Half
           a == pts * m
           ns == PtsToNano(pts, id)
           q == NanoToPTS(ns, id)
           e == (d - 1 + m - 1) \div m
<1>0. Early(id) = e
  BY DEF Early
<1>1. d \in Nat \ {0} /\ m \in Nat \ {0} /\ h \in Nat \ {0} /\ MaxUint \in Int
  BY UnitOfTrack, QueriesAssumption DEF MaxUint
<1>2. a < h * d
  BY UnitOfTrack
<1>3. ns = IF a >= 2 * h * d THEN MaxUint ELSE a \div d
  BY DEF PtsToNano, MulDiv64
<1> HIDE DEF d, m, h
<1>4. a \in Nat /\ h * d \in Nat /\ 2 * h * d = 2 * (h * d)
  BY <1>1
<1>5. ns = a \div d
  BY <1>2, <1>3, <1>4
<1> HIDE DEF a, ns
<1>6. ns \in Nat /\ ns * d <= a /\ a < (ns + 1) * d
  BY <1>1, <1>4, <1>5, QuotientBounds
<1>7. ns < h
  <2>1. ns * d < h * d
    BY <1>1, <1>2, <1>4, <1>6
  <2> QED BY <1>1, <1>6, <2>1, ProductsInOrder
<1>8. q \in Nat /\ q * m <= ns * d /\ (q = MaxUint \/ ns * d < (q + 1) * m)
  BY <1>6, <1>7, UnitsOfNano DEF d, m
<1> HIDE DEF q
<1>9. q <= pts
  <2>1. q * m <= pts * m /\ pts * m < (pts + 1) * m
    BY <1>1, <1>4, <1>6, <1>8 DEF a
  <2>2. q * m < (pts + 1) * m
    BY <1>1, <1>8, <2>1
  <2>3. q < pts + 1
    BY <1>1, <1>8, <2>2, ProductsInOrder
  <2> QED BY <1>8, <2>3
<1>10. e \in Nat /\ d - 1 <= e * m
  <2> DEFINE n == d - 1 + m - 1
  <2>1. n \in Nat
    BY <1>1
  <2>2. n \div m \in Nat /\ n < ((n \div m) + 1) * m
    BY <1>1, <2>1, QuotientBounds
  <2>3. e = n \div m
    OBVIOUS
  <2> HIDE DEF e
  <2>4. (e + 1) * m = e * m + m /\ e * m \in Nat
    BY <1>1, <2>2, <2>3
  <2>5. n < e * m + m
    BY <2>2, <2>3, <2>4
  <2> QED BY <1>1, <2>2, <2>3, <2>4, <2>5
<1> HIDE DEF e
<1>11. pts - e <= q
  <2>1. CASE q = MaxUint
    BY <1>1, <1>8, <1>10, <2>1
  <2>2. CASE ns * d < (q + 1) * m
    <3>1. (ns + 1) * d = ns * d + d /\ ns * d \in Nat
      BY <1>1, <1>6
    <3>2. a <= ns * d + (d - 1)
      BY <1>1, <1>4, <1>6, <3>1
    <3>3. (q + 1) * m \in Nat /\ e * m \in Nat
      BY <1>1, <1>8, <1>10
    <3>4. a < (q + 1) * m + e * m
      BY <1>1, <1>4, <1>10, <2>2, <3>1, <3>2, <3>3
    <3>5. (q + 1) * m + e * m = (q + 1 + e) * m
      BY <1>1, <1>8, <1>10
    <3>6. pts * m < (q + 1 + e) * m
      BY <3>4, <3>5 DEF a
    <3>7. q + 1 + e \in Int
      BY <1>8, <1>10
    <3>8. pts < q + 1 + e
      BY <1>1, <3>6, <3>7, ProductsInOrder
    <3> QED BY <1>8, <1>10, <3>8
  <2> QED BY <1>8, <2>1, <2>2
<1>12. q = pts - (pts - q) /\ pts - q \in 0 .. e
  BY <1>8, <1>9, <1>10, <1>11
<1>13. ns \in Nat /\ ns < h /\ q \in {pts - k : k \in 0 .. Early(id)}
  BY <1>0, <1>6, <1>7, <1>12
<1> QED BY <1>13 DEF ns, q, h

\* The nanoseconds since the start: never more than the difference says, and
\* exactly that when the difference fits.
LEMMA NanoSinceStart ==
    ASSUME NEW start \in -Half .. Half - 1, NEW t \in -Half .. Half - 1, t - start >= -Half
    PROVE  /\ SinceStart(start, t) \in Nat /\ SinceStart(start, t) < Half
           /\ SinceStart(start, t) <= (IF t > start THEN t - start ELSE 0)
           /\ 0 <= t - start /\ t - start < Half => SinceStart(start, t) = t - start
<1>1. Half \in Nat \ {0}
  BY QueriesAssumption
<1>2. Signed(t) = t
  BY <1>1, SignedFits
<1>3. Signed(t - start) = IF t - start < Half THEN t - start ELSE t - start - 2 * Half
  BY <1>1, SignedFits
<1> QED BY <1>1, <1>2, <1>3 DEF SinceStart

-----------------------------------------------------------------------------
(* The contracts of the queries.                                           *)

\* What follows for seeks by pts ...
LEMMA SeeksFind ==
    TypeOK /\ IndexSound /\ IndexState /\ SeekState => SeekFindsLastSyncPoint
<1> SUFFICES ASSUME TypeOK, IndexSound, IndexState, SeekState,
                    NEW id \in DOMAIN tracks, PTSOrdered(id), tracks[id].kind # "audio"
             PROVE  /\ \A pts \in {fr.pts : fr \in Frames} :
                          SeekStart(idx, id, pts) = LastSyncPoint(id, pts)
                    /\ HasLastPTS(id) => \A start \in StartTimes :
                          LET pts  == LastPTS(id)
                              fits == /\ pts <= MaxUint
                                      /\ pts * Timebase[id].num * Nano < Half * Timebase[id].den
                                      /\ LastTime(start, id) < Half
                          IN  fits => SeekTime(start, LastTime(start, id), {id})
                                         \in {LastSyncPoint(id, pts - k) : k \in 0 .. Early(id)}
  BY DEF SeekFindsLastSyncPoint
<1>1. ASSUME NEW fr \in Frames PROVE SeekStart(idx, id, fr.pts) = LastSyncPoint(id, fr.pts)
  <2>1. fr.pts \in Int
    BY WriterAssumption DEF Frame, PTS
  <2> QED BY <2>1, SeekIsLast
<1>2. ASSUME NEW start \in StartTimes, LastPTS(id) <= MaxUint,
             LastPTS(id) * Timebase[id].num * Nano < Half * Timebase[id].den,
             LastTime(start, id) < Half
      PROVE  SeekTime(start, LastTime(start, id), {id})
                 \in {LastSyncPoint(id, LastPTS(id) - k) : k \in 0 .. Early(id)}
  <2> DEFINE pts == LastPTS(id)
             ns == PtsToNano(pts, id)
             t == LastTime(start, id)
             q == NanoToPTS(ns, id)
             at == [x \in {id} |-> NanoToPTS(SinceStart(start, t), x)]
  <2>1. id \in TrackIDs /\ pts \in Nat
    BY DEF TypeOK, TracksTypeOK, LastPTS, TrackState, PTS
  <2>2. ns \in Nat /\ ns < Half /\ q \in {pts - k : k \in 0 .. Early(id)}
    BY <1>2, <2>1, UnitsOfPTS
  <2>3. Half \in Nat \ {0} /\ start \in -Half .. Half - 1
    BY QueriesAssumption
  <2>4. t = start + Signed(ns)
    BY DEF LastTime
  <2> HIDE DEF ns, t, pts
  <2>5. t = start + ns /\ t \in -Half .. Half - 1
    <3>1. Signed(ns) = ns
      BY <2>2, <2>3, SignedFits
    <3>2. t < Half
      BY <1>2 DEF t
    <3> QED BY <2>2, <2>3, <2>4, <3>1, <3>2
  <2>6. SinceStart(start, t) = ns
    <3>1. t - start = ns /\ t - start >= -Half
      BY <2>2, <2>3, <2>5
    <3> QED BY <2>2, <2>3, <2>5, <3>1, NanoSinceStart
  <2>7. DOMAIN at = {id} /\ at[id] = q
    BY <2>6
  <2> HIDE DEF at, q
  <2>8. PICK k \in 0 .. Early(id) : q = pts - k
    BY <2>2
  <2>a. q \in Int
    BY <2>1, <2>8
  <2> DEFINE m == InterleavedStart(idx, Committed, at)
             s == SeekStart(idx, id, q)
  <2>9. /\ m \in {Committed} \cup {SeekStart(idx, x, at[x]) : x \in DOMAIN at}
        /\ m \in 1 .. Committed
        /\ \A x \in DOMAIN at : m <= SeekStart(idx, x, at[x])
    <3>1. \A x \in DOMAIN at : x \in DOMAIN tracks /\ PTSOrdered(x) /\ at[x] \in Int
      BY <2>7, <2>a
    <3> QED BY <3>1, InterleavedIsLeast
  <2>10. s \in 1 .. Committed
    BY <2>a, SeekInStream
  <2> HIDE DEF m, s
  <2>11. m = Committed \/ m = s
    BY <2>7, <2>9 DEF s
  <2>12. m <= s
    BY <2>7, <2>9 DEF s
  <2>13. m = s
    BY <2>9, <2>10, <2>11, <2>12
  <2>14. s = LastSyncPoint(id, q)
    BY <2>a, SeekIsLast DEF s
  <2>15. SeekTime(start, t, {id}) = m
    BY DEF SeekTime, m, at
  <2>16. SeekTime(start, t, {id}) = LastSyncPoint(id, pts - k)
    BY <2>8, <2>13, <2>14, <2>15
  <2> QED BY <2>16 DEF pts, t
<1> QED BY <1>1, <1>2

\* SeekPTS lands on the last sync point at or before the target, and SeekTime on
\* that of the last pts or of one at most Early(id) units before it, wherever
\* conversions round.
THEOREM SeeksFindLastSyncPoint ==
    ASSUME MaxTracks <= TrackIDSpace
    PROVE  Spec => []SeekFindsLastSyncPoint
BY SeekHolds, IndexHolds, IndexIsSound, TypeCorrect, SeeksFind, PTL

\* ... and for interleaved reads and seeks by time.
LEMMA ReadsMissNothing ==
    TypeOK /\ IndexSound /\ IndexState /\ SeekState => InterleavedMissesNothing
<1> SUFFICES ASSUME TypeOK, IndexSound, IndexState, SeekState,
                    NEW ids \in SUBSET {x \in DOMAIN tracks :
                                           PTSOrdered(x) /\ ~tracks[x].reordered}
             PROVE  /\ \A pts \in {fr.pts : fr \in Frames} :
                          \A i \in 1 .. ReadInterleaved(pts, ids) - 1 : \A id \in ids :
                              DataOf(log[i], id) => log[i].frame.pts <= pts
                    /\ \A start \in StartTimes : \A t \in {x \in Times : x - start >= -Half} :
                          \A i \in 1 .. SeekTime(start, t, ids) - 1 : \A id \in ids :
                              DataOf(log[i], id) =>
                                  log[i].frame.pts * Timebase[id].num * Nano
                                      <= (IF t > start THEN t - start ELSE 0)
                                            * Timebase[id].den
  BY DEF InterleavedMissesNothing
<1>0. /\ \A id \in ids : id \in DOMAIN tracks /\ PTSOrdered(id) /\ ~tracks[id].reordered
      /\ \A id \in ids : id \in TrackIDs
      /\ Len(log) \in Nat /\ Committed = Len(log) + 1
  BY LenProperties DEF TypeOK, TracksTypeOK, StreamTypeOK, Committed
<1>1. ASSUME NEW at, DOMAIN at = ids, \A id \in ids : at[id] \in Int,
             NEW i \in 1 .. InterleavedStart(idx, Committed, at) - 1,
             NEW id \in ids, DataOf(log[i], id)
      PROVE  log[i].frame.pts <= at[id] /\ log[i].frame.pts \in Nat
  <2> DEFINE m == InterleavedStart(idx, Committed, at)
             s == SeekStart(idx, id, at[id])
  <2>1. \A x \in DOMAIN at : x \in DOMAIN tracks /\ PTSOrdered(x) /\ at[x] \in Int
    BY <1>0, <1>1
  <2>2. m \in 1 .. Committed /\ m <= s
    BY <1>1, <2>1, InterleavedIsLeast
  <2>3. s \in 1 .. Committed
    BY <1>0, <1>1, SeekInStream
  <2> HIDE DEF m, s
  <2>4. i \in 1 .. Len(log) /\ i < s
    <3>1. i \in 1 .. m - 1
      BY <1>1 DEF m
    <3> QED BY <1>0, <2>2, <2>3, <3>1
  <2>5. log[i].frame.pts <= at[id]
    BY <1>0, <1>1, <2>4, SeekIsEarly DEF s
  <2>6. log[i] \in Chunk
    BY <2>4, ElementOfSeq DEF TypeOK, StreamTypeOK
  <2> QED BY <1>1, <2>5, <2>6, FrameOfChunk DEF DataOf
<1>2. ASSUME NEW fr \in Frames, NEW i \in 1 .. ReadInterleaved(fr.pts, ids) - 1,
             NEW id \in ids, DataOf(log[i], id)
      PROVE  log[i].frame.pts <= fr.pts
  <2> DEFINE p == fr.pts
             at == [x \in ids |-> p]
  <2>1. p \in Int
    BY WriterAssumption DEF Frame, PTS
  <2> HIDE DEF p
  <2>2. DOMAIN at = ids /\ (\A x \in ids : at[x] \in Int) /\ at[id] = p
    BY <2>1
  <2>3. i \in 1 .. InterleavedStart(idx, Committed, at) - 1
    BY <1>2 DEF ReadInterleaved, p
  <2> HIDE DEF at
  <2>4. log[i].frame.pts <= at[id]
    BY <1>1, <1>2, <2>2, <2>3
  <2> QED BY <2>2, <2>4 DEF p
<1>3. ASSUME NEW start \in StartTimes, NEW t \in Times, t - start >= -Half,
             NEW i \in 1 .. SeekTime(start, t, ids) - 1, NEW id \in ids, DataOf(log[i], id)
      PROVE  log[i].frame.pts * Timebase[id].num * Nano
                 <= (IF t > start THEN t - start ELSE 0) * Timebase[id].den
  <2> DEFINE ns == SinceStart(start, t)
             at == [x \in ids |-> NanoToPTS(ns, x)]
             after == IF t > start THEN t - start ELSE 0
             d == Timebase[id].den
             m == Timebase[id].num * Nano
             p == log[i].frame.pts
             q == at[id]
  <2>1. start \in -Half .. Half - 1 /\ t \in -Half .. Half - 1 /\ Half \in Nat \ {0}
    BY QueriesAssumption
  <2>2. ns \in Nat /\ ns < Half /\ ns <= after /\ after \in Nat
    <3>1. after \in Nat
      BY <2>1
    <3> QED BY <1>3, <2>1, <3>1, NanoSinceStart
  <2>3. d \in Nat \ {0} /\ m \in Nat \ {0} /\ \A x \in Int : x * m = x * Timebase[id].num * Nano
    BY <1>0, UnitOfTrack
  <2>4. i \in 1 .. InterleavedStart(idx, Committed, at) - 1
    BY <1>3 DEF SeekTime
  <2> HIDE DEF ns, after
  <2>5. \A x \in ids : NanoToPTS(ns, x) \in Nat
    BY <1>0, <2>2, UnitsOfNano
  <2>6. DOMAIN at = ids /\ \A x \in ids : at[x] \in Int
    BY <2>5
  <2>7. q \in Nat /\ q * m <= ns * d
    BY <1>0, <2>2, UnitsOfNano
  <2> HIDE DEF at, d, m, p, q
  <2>8. p <= q /\ p \in Nat
    BY <1>1, <1>3, <2>4, <2>6 DEF p, q
  <2>9. p * m <= q * m /\ ns * d <= after * d
    BY <2>2, <2>3, <2>7, <2>8, ProductsInOrder
  <2>10. p * m <= after * d
    BY <2>2, <2>3, <2>7, <2>8, <2>9
  <2>11. p * m = p * Timebase[id].num * Nano
    BY <2>3, <2>8
  <2> QED BY <2>10, <2>11 DEF p, after, d
<1> QED BY <1>2, <1>3

\* An interleaved read, by pts or by time, starts early enough for each of its tracks.
THEOREM InterleavedReadsMissNothing ==
    ASSUME MaxTracks <= TrackIDSpace
    PROVE  Spec => []InterleavedMissesNothing
BY SeekHolds, IndexHolds, IndexIsSound, TypeCorrect, ReadsMissNothing, PTL
=============================================================================
