----------------------------- MODULE GmcFormat -----------------------------
(***************************************************************************)
(* The on-disk vocabulary of a GMC file and the pure functions over it     *)
(* that the writer, the readers and Repair share: chunks, the sync-point   *)
(* index, its binary search, and the recovery scan.                        *)
(*                                                                         *)
(* A stream is a sequence of chunks.  The offset of a chunk is its         *)
(* position in that sequence, so StreamStart is 1, the committed size of a *)
(* stream of n chunks is n + 1, and 0 is "no offset" as in the code.       *)
(* Byte lengths, CRCs and field encodings are abstracted: a chunk is       *)
(* either complete and valid, or it is not there.                          *)
(***************************************************************************)
EXTENDS Integers, Sequences, FiniteSets, SequencesExt

CONSTANT TrackIDSpace     \* number of values of TrackID (2^16 in the code)

ASSUME TrackIDSpaceAssumption == TrackIDSpace \in Nat \ {0, 1}

TrackIDs == 0 .. TrackIDSpace - 1
Kinds    == {"video", "audio", "data"}
PTS      == Nat

Frame   == [pts : PTS, dts : PTS, hasDTS : BOOLEAN, key : BOOLEAN]
IndexEntry == [pts : PTS, off : Nat]
CpEntry == [track : TrackIDs, pts : PTS, off : Nat]

\* Reordered is deliberately absent: it is not serialized.
TrackInfoChunk  == [type : {"trackinfo"}, id : TrackIDs, kind : Kinds]
DataChunk       == [type : {"data"}, track : TrackIDs, frame : Frame]
CheckpointChunk == [type : {"checkpoint"}, prev : Nat, entries : Seq(CpEntry)]
FooterChunk     == [type : {"footer"}]
Chunk == TrackInfoChunk \cup DataChunk \cup CheckpointChunk \cup FooterChunk

StreamStart == 1

IsData(c)         == c.type = "data"
IsSyncPoint(c)    == c.type = "data" /\ c.frame.key
DataOf(c, id)     == c.type = "data" /\ c.track = id
SyncPointOf(c, id) == DataOf(c, id) /\ c.frame.key

-----------------------------------------------------------------------------
(* Go maps: a missing key reads as the given default.                      *)

Put(m, k, v) == [x \in DOMAIN m \cup {k} |-> IF x = k THEN v ELSE m[x]]
Get(m, k, default) == IF k \in DOMAIN m THEN m[k] ELSE default
EmptyMap == [x \in {} |-> x]

-----------------------------------------------------------------------------
(* fileIndex: per track, entries in the order they were added.             *)

EntriesOf(ix, id) == Get(ix, id, <<>>)

IndexAdd(ix, id, pts, off) ==
    Put(ix, id, Append(EntriesOf(ix, id), [pts |-> pts, off |-> off]))

\* IndexAdd of every entry of a sequence of checkpoint entries, in order.
IndexAddAll(ix, entries) ==
    LET added[k \in 0 .. Len(entries)] ==
            IF k = 0 THEN ix
            ELSE IndexAdd(added[k - 1], entries[k].track, entries[k].pts, entries[k].off)
    IN  added[Len(entries)]

\* fileIndex.dump: track by track in ascending id, each in insertion order.
Dump(ix) ==
    LET TrackEntries(id) == [k \in DOMAIN EntriesOf(ix, id) |->
            [track |-> id, pts |-> EntriesOf(ix, id)[k].pts, off |-> EntriesOf(ix, id)[k].off]]
        dumped[n \in 0 .. TrackIDSpace] ==
            IF n = 0 THEN <<>> ELSE dumped[n - 1] \o TrackEntries(n - 1)
    IN  dumped[TrackIDSpace]

\* Mutant: the search predicate is >= instead of >.
SortSearchNotStrict(es, pts) ==
    LET search[r \in (0 .. Len(es)) \X (0 .. Len(es))] ==
          LET h == (r[1] + r[2]) \div 2
          IN  IF r[1] >= r[2] THEN r[1]
              ELSE IF es[h + 1].pts >= pts THEN search[<<r[1], h>>]
              ELSE search[<<h + 1, r[2]>>]
    IN  search[<<0, Len(es)>>]

\* sort.Search(n, es[i].pts > pts) on the half-open range r = <<i, j>>: 0-based,
\* as the library does it, so that an unsorted slice gives what Go would give.
SortSearch(es, pts) ==
    LET search[r \in (0 .. Len(es)) \X (0 .. Len(es))] ==
          LET h == (r[1] + r[2]) \div 2
          IN  IF r[1] >= r[2] THEN r[1]
              ELSE IF es[h + 1].pts > pts THEN search[<<r[1], h>>]
              ELSE search[<<h + 1, r[2]>>]
    IN  search[<<0, Len(es)>>]

\* fileIndex.seek: the offset of the last entry with pts <= target; 0 = not ok.
Seek(ix, id, pts) ==
    LET i == SortSearch(EntriesOf(ix, id), pts)
    IN  IF i = 0 THEN 0 ELSE EntriesOf(ix, id)[i].off

\* Reader.SeekPTS: where the iterator starts.
SeekStart(ix, id, pts) ==
    LET off == Seek(ix, id, pts) IN IF off = 0 THEN StreamStart ELSE off

\* Reader.ReadInterleaved and SeekTime: the minimum start over the tracks, each
\* looked up at its own pts, never past the committed offset loaded first.
InterleavedStart(ix, committed, at) ==
    CHOOSE m \in {committed} \cup {SeekStart(ix, id, at[id]) : id \in DOMAIN at} :
        \A o \in {committed} \cup {SeekStart(ix, id, at[id]) : id \in DOMAIN at} : m <= o

-----------------------------------------------------------------------------
(* The recovery scan over the first n chunks of a stream: Reader.scan when *)
(* chunk n + 1 is the first invalid one.                                   *)

EmptyScan == [tracks |-> EmptyMap, idx |-> EmptyMap, tail |-> <<>>,
              frames |-> EmptyMap, firstPTS |-> EmptyMap, maxPTS |-> EmptyMap]

ScanData(r, c, off) ==
    LET id == c.track
        p  == c.frame.pts
    IN  [r EXCEPT
           !.firstPTS = IF id \in DOMAIN r.frames THEN @ ELSE Put(@, id, p),
           !.frames   = Put(@, id, Get(@, id, 0) + 1),
           !.maxPTS   = IF id \in DOMAIN @ /\ p <= @[id] THEN @ ELSE Put(@, id, p),
           !.tail     = IF c.frame.key
                        THEN Append(@, [track |-> id, pts |-> p, off |-> off])
                        ELSE @]

ScanChunk(r, c, off) ==
    CASE c.type = "trackinfo"  -> [r EXCEPT !.tracks = Put(@, c.id, c.kind)]
      [] c.type = "checkpoint" -> [r EXCEPT !.idx = IndexAddAll(@, c.entries),
                                            !.tail = <<>>]
      [] c.type = "data"       -> ScanData(r, c, off)
      [] OTHER                 -> r       \* unknown chunk types are skipped

ScanChunks(log, n) ==
    LET scanned[k \in 0 .. n] ==
            IF k = 0 THEN EmptyScan ELSE ScanChunk(scanned[k - 1], log[k], k)
    IN  scanned[n]

Scan(log, n) ==
    LET r == ScanChunks(log, n)
    IN  [r EXCEPT !.idx = IndexAddAll(@, r.tail), !.tail = <<>>]

\* Reader.recoveredFooter: what Repair writes from a scan result.
RecoveredSummaries(r) ==
    [id \in DOMAIN r.tracks |->
        [firstPTS |-> Get(r.firstPTS, id, 0), lastPTS |-> Get(r.maxPTS, id, 0),
         frames   |-> Get(r.frames, id, 0)]]
=============================================================================
