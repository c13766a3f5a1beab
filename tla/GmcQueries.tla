---------------------------- MODULE GmcQueries -----------------------------
(***************************************************************************)
(* What a reader of the stream asks for: positions by pts and by           *)
(* wall-clock time, and the time of the last frame, in the integers of     *)
(* the code.  Half stands for 2^63: uint64 counts to 2 * Half, int64 and   *)
(* time.Duration run from -Half.                                           *)
(***************************************************************************)
EXTENDS GmcWriter

CONSTANTS Half,         \* half the range of a word
          Nano,         \* nanoseconds in a second
          Timebase,     \* [num, den] of each track id
          StartTimes,   \* start times that are tried, in ns
          Times         \* times looked for

ASSUME QueriesAssumption ==
    /\ Half \in Nat \ {0} /\ Nano \in Nat \ {0}
    /\ Timebase \in [TrackIDs -> [num : Nat \ {0}, den : Nat \ {0}]]
    /\ \A id \in TrackIDs : Timebase[id].num * Nano < 2 * Half
    /\ StartTimes \cup Times \subseteq -Half .. Half - 1

MaxUint   == 2 * Half - 1
Signed(n) == ((n + Half) % (2 * Half)) - Half      \* int64(n)

\* mulDiv64: a 128-bit product, clamped.
MulDiv64(a, b, c) == IF a * b >= 2 * Half * c THEN MaxUint ELSE (a * b) \div c

PtsToNano(pts, id) == MulDiv64(pts, Timebase[id].num * Nano, Timebase[id].den)

\* Mutant: the quotient is rounded up.
NanoToPTSUp(ns, id) ==
    MulDiv64(ns, Timebase[id].den, Timebase[id].num * Nano) + 1

NanoToPTS(ns, id) == MulDiv64(ns, Timebase[id].den, Timebase[id].num * Nano)

\* LastPTS of a live reader; ok is false while the track has no frame.
HasLastPTS(id) == id \in DOMAIN tracks /\ tracks[id].hasLast
LastPTS(id)    == tracks[id].maxPTS

\* start.Add(time.Duration(ns)): the sum is a time.Time, which does not wrap.
LastTime(start, id) == start + Signed(PtsToNano(LastPTS(id), id))

\* SeekTime subtracts in int64; times before the start count as the start.
SinceStart(start, t) == LET d == Signed(Signed(t) - start) IN IF d > 0 THEN d ELSE 0

SeekTime(start, t, ids) ==
    InterleavedStart(idx, Committed, [id \in ids |-> NanoToPTS(SinceStart(start, t), id)])

ReadInterleaved(pts, ids) == InterleavedStart(idx, Committed, [id \in ids |-> pts])

-----------------------------------------------------------------------------
(* Correctness.                                                            *)

UsesDTS(id)    == \E i \in DOMAIN log : DataOf(log[i], id) /\ log[i].frame.hasDTS
PTSOrdered(id) == tracks[id].reordered \/ ~UsesDTS(id)

\* How many units whole nanoseconds can be off: less than 1 ns, rounded up to units.
\* It is at most 1 for a unit of 1 ns or more.
Early(id) == LET unit == Timebase[id].num * Nano
             IN  (Timebase[id].den - 1 + unit - 1) \div unit

LastSyncPoint(id, pts) ==
    LET at == {i \in DOMAIN log : SyncPointOf(log[i], id) /\ log[i].frame.pts <= pts}
    IN  IF at = {} THEN StreamStart ELSE CHOOSE i \in at : \A j \in at : j <= i

\* On a non-audio track whose pts the writer keeps in order, SeekPTS lands on the
\* last committed keyframe at or before the target, or at the stream start when
\* there is none (reader.go:300-302).  SeekTime at LastTime, converted to nanoseconds
\* and back, lands there for the last pts or one at most Early(id) units before it, as
\* long as the pts is one that uint64 holds and the time one that int64 holds.
SeekFindsLastSyncPoint ==
    \A id \in {x \in DOMAIN tracks : PTSOrdered(x) /\ tracks[x].kind # "audio"} :
        /\ \A pts \in {fr.pts : fr \in Frames} :
              SeekStart(idx, id, pts) = LastSyncPoint(id, pts)
        /\ HasLastPTS(id) => \A start \in StartTimes :
              LET pts  == LastPTS(id)
                  fits == /\ pts <= MaxUint
                          /\ pts * Timebase[id].num * Nano < Half * Timebase[id].den
                          /\ LastTime(start, id) < Half
              IN  fits => SeekTime(start, LastTime(start, id), {id})
                             \in {LastSyncPoint(id, pts - k) : k \in 0 .. Early(id)}

\* An interleaved read starts early enough for each of its tracks: on tracks
\* stored in pts order, audio with its sampled index included, no frame after the
\* target lies before the start, whether the target is a pts (reader.go:314-317)
\* or a time that is not more than half the range of int64 before the start time,
\* wherever conversions clamp or wrap.
InterleavedMissesNothing ==
    \A ids \in SUBSET {x \in DOMAIN tracks : PTSOrdered(x) /\ ~tracks[x].reordered} :
        /\ \A pts \in {fr.pts : fr \in Frames} :
              \A i \in 1 .. ReadInterleaved(pts, ids) - 1 : \A id \in ids :
                  DataOf(log[i], id) => log[i].frame.pts <= pts
        /\ \A start \in StartTimes : \A t \in {x \in Times : x - start >= -Half} :
              \A i \in 1 .. SeekTime(start, t, ids) - 1 : \A id \in ids :
                  DataOf(log[i], id) =>
                      log[i].frame.pts * Timebase[id].num * Nano
                          <= (IF t > start THEN t - start ELSE 0) * Timebase[id].den
=============================================================================
