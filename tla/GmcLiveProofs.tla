--------------------------- MODULE GmcLiveProofs ---------------------------
(***************************************************************************)
(* Proofs about the safety of GmcLive, for any tracks, filters, number of  *)
(* readers and of chunks.  LiveInv strengthens the properties: it says     *)
(* what the bytes at the committed size are at each point of an append,    *)
(* that a closed writer appends nothing more, and where each reader may    *)
(* stand in the committed log.                                             *)
(***************************************************************************)
EXTENDS GmcLive, SelectLemmas

\* Position by position what CommittedIntact says of the whole.
Intact == Len(disk) >= Len(log) /\ \A i \in 1 .. Len(log) : disk[i] = log[i]

\* committed is stored only after the chunk is complete, and a closed writer is
\* past its appends.
WriterInv ==
    /\ wpc = "store" => Len(disk) = Len(log) + 1 /\ disk[Len(log) + 1] = chunk
    /\ wpc \in {"wake", "index"} => Len(log) > 0
    /\ closed => wpc \in {"wakeClosed", "unlock", "idle"}

\* A follower stands in the committed log, on its way out only for a reason.
FollowerInv ==
    \A f \in Followers :
        /\ fpc[f] # "new" => off[f] >= 1 /\ off[f] <= Committed
        /\ limit[f] <= Committed
        /\ fpc[f] = "send" => off[f] > 1 /\ log[off[f] - 1] \in Filter[f]
        /\ sawClosed[f] => closed
        /\ fpc[f] = "done" => canceled[f] \/ (closed /\ off[f] = Committed)

IteratorInv ==
    \A i \in Iterators :
        /\ ipc[i] # "failed"
        /\ ipc[i] # "new" => ioff[i] >= 1 /\ ioff[i] <= Committed
        /\ ipc[i] = "read" => ioff[i] <= Len(log)

LiveInv == TypeOK /\ Intact /\ WriterInv /\ FollowerInv /\ IteratorInv

-----------------------------------------------------------------------------
(* Lemmas.                                                                 *)

\* Intact is CommittedIntact.
LEMMA IntactIsCommittedIntact ==
    ASSUME TypeOK, Intact
    PROVE  CommittedIntact
<1> DEFINE S == Chunk \cup {Torn}
<1>1. disk \in Seq(S) /\ log \in Seq(Chunk)
  BY DEF TypeOK
<1>2. Len(log) \in Nat /\ Len(log) <= Len(disk)
  BY <1>1, LenProperties DEF Intact
<1>3. /\ SubSeq(disk, 1, Len(log)) \in Seq(S)
      /\ Len(SubSeq(disk, 1, Len(log))) = Len(log)
      /\ \A i \in 1 .. Len(log) : SubSeq(disk, 1, Len(log))[i] = disk[i]
  BY <1>1, <1>2
<1>4. \A i \in 1 .. Len(log) : SubSeq(disk, 1, Len(log))[i] = log[i]
  BY <1>3 DEF Intact
<1>5. SubSeq(disk, 1, Len(log)) = log
  BY <1>1, <1>3, <1>4, SeqEqual
<1> QED BY <1>5 DEF Intact, CommittedIntact

\* A write at the committed size touches nothing before it.
LEMMA WriteBehind ==
    ASSUME TypeOK, Intact, NEW c \in Chunk \cup {Torn}, AtCommitted(c)
    PROVE  /\ disk' \in Seq(Chunk \cup {Torn})
           /\ Len(disk') = Len(log) + 1
           /\ disk'[Len(log) + 1] = c
           /\ \A i \in 1 .. Len(log) : disk'[i] = log[i]
<1> DEFINE S == Chunk \cup {Torn}
           kept == SubSeq(disk, 1, Len(log))
<1>1. disk \in Seq(S) /\ log \in Seq(Chunk)
  BY DEF TypeOK
<1>2. Len(log) \in Nat /\ Len(log) <= Len(disk)
  BY <1>1, LenProperties DEF Intact
<1>3. kept \in Seq(S) /\ Len(kept) = Len(log) /\ \A i \in 1 .. Len(log) : kept[i] = disk[i]
  BY <1>1, <1>2
<1>4. disk' = Append(kept, c)
  BY DEF AtCommitted
<1> HIDE DEF kept
<1>5. /\ disk' \in Seq(S) /\ Len(disk') = Len(log) + 1 /\ disk'[Len(log) + 1] = c
      /\ \A i \in 1 .. Len(log) : disk'[i] = kept[i]
  BY <1>2, <1>3, <1>4, AppendProperties
<1> QED BY <1>3, <1>5 DEF Intact

\* No committed chunk reads as torn.
LEMMA CommittedReads ==
    ASSUME TypeOK, Intact, NEW n \in Nat, n >= 1, n <= Len(log)
    PROVE  disk[n] = log[n] /\ disk[n] \in Chunk /\ disk[n] # Torn
<1>1. log \in Seq(Chunk) /\ n \in 1 .. Len(log)
  BY DEF TypeOK
<1>2. log[n] \in Chunk /\ disk[n] = log[n]
  BY <1>1, ElementOfSeq DEF Intact
<1> QED BY <1>2, LiveAssumption DEF Chunk

\* What readers rely on survives every step that leaves them and the log alone
\* and does not reopen the writer.
LEMMA ReadersKeep ==
    ASSUME FollowerInv, IteratorInv, UNCHANGED <<log, followerVars, ctxVars, iterVars>>,
           closed => closed'
    PROVE  FollowerInv' /\ IteratorInv'
BY DEF FollowerInv, IteratorInv, Committed, followerVars, ctxVars, iterVars

\* Broadcast moves waiting followers only.
LEMMA BroadcastKeeps ==
    ASSUME TypeOK, FollowerInv, Broadcast,
           UNCHANGED <<log, closed, off, limit, from, got, sawClosed, ctxVars>>
    PROVE  FollowerInv' /\ fpc' \in [Followers -> FollowerPC]
<1>1. fpc' \in [Followers -> FollowerPC]
  BY DEF TypeOK, Broadcast, FollowerPC
<1>2. ASSUME NEW f \in Followers
      PROVE  fpc'[f] = fpc[f] \/ (fpc[f] = "waiting" /\ fpc'[f] = "woken")
  BY DEF Broadcast
<1>3. FollowerInv'
  BY <1>2 DEF FollowerInv, Committed, ctxVars
<1> QED BY <1>1, <1>3

-----------------------------------------------------------------------------
\* The invariant holds at first ...
LEMMA InitLiveInv == Init => LiveInv
<1> SUFFICES ASSUME Init PROVE LiveInv
  OBVIOUS
<1> USE DEF Init
<1>1. TypeOK
  <2>1. /\ disk \in Seq(Chunk \cup {Torn}) /\ log \in Seq(Chunk) /\ idx \subseteq DOMAIN log
        /\ got \in [Followers -> Seq(Tracks)] /\ igot \in [Iterators -> Seq(Tracks)]
    BY EmptySeq
  <2>2. /\ closed \in BOOLEAN /\ sawClosed \in [Followers -> BOOLEAN]
        /\ canceled \in [Followers -> BOOLEAN]
    OBVIOUS
  <2>3. /\ mu \in {None, "writer"} \cup Followers /\ wpc \in WriterPC /\ chunk \in Chunk
        /\ fpc \in [Followers -> FollowerPC] /\ ipc \in [Iterators -> IteratorPC]
        /\ afterFunc \in [Followers -> {"none", "armed", "lock", "ran", "stopped"}]
    BY DEF Chunk, WriterPC, FollowerPC, IteratorPC
  <2>4. /\ off \in [Followers -> Nat] /\ limit \in [Followers -> Nat]
        /\ from \in [Followers -> Nat]
        /\ ioff \in [Iterators -> Nat] /\ ilimit \in [Iterators -> Nat]
        /\ ifrom \in [Iterators -> Nat]
    OBVIOUS
  <2> QED BY <2>1, <2>2, <2>3, <2>4 DEF TypeOK
<1>2. Intact
  BY DEF Intact
<1>3. WriterInv
  BY DEF WriterInv
<1>4. FollowerInv
  BY DEF FollowerInv, Committed
<1>5. IteratorInv
  BY DEF IteratorInv
<1> QED BY <1>1, <1>2, <1>3, <1>4, <1>5 DEF LiveInv

\* Steps of the writer that leave file and log alone.
LEMMA QuietSteps ==
    ASSUME LiveInv,
           \/ Call \/ AddToIndex \/ MaybeCheckpoint \/ Sync \/ SetClosed \/ Unlock
    PROVE  LiveInv'
<1> USE DEF LiveInv
<1>1. UNCHANGED <<disk, log, followerVars, ctxVars, iterVars>> /\ (closed => closed')
  BY DEF Call, StartCall, AddToIndex, MaybeCheckpoint, Sync, SetClosed, Unlock
<1>2. /\ wpc' \in WriterPC /\ chunk' \in Chunk /\ closed' \in BOOLEAN
      /\ mu' \in {None, "writer"} \cup Followers
  BY DEF TypeOK, Call, StartCall, AddToIndex, MaybeCheckpoint, Sync, SetClosed, Unlock, Goto,
         WriterPC, Chunk
<1>3. idx' \subseteq DOMAIN log
  <2>1. CASE AddToIndex
    <3>1. Len(log) \in 1 .. Len(log) /\ DOMAIN log = 1 .. Len(log)
      BY <2>1, LenProperties DEF AddToIndex, WriterInv, TypeOK
    <3> QED BY <2>1, <3>1 DEF AddToIndex, TypeOK
  <2>2. CASE idx' = idx
    BY <2>2 DEF TypeOK
  <2> QED BY <2>1, <2>2 DEF Call, StartCall, MaybeCheckpoint, Sync, SetClosed, Unlock
<1>4. TypeOK'
  BY <1>1, <1>2, <1>3 DEF TypeOK, followerVars, ctxVars, iterVars
<1>5. Intact'
  BY <1>1 DEF Intact
<1>6. WriterInv'
  BY <1>1 DEF WriterInv, Call, StartCall, AddToIndex, MaybeCheckpoint, Sync, SetClosed, Unlock, Goto,
              TypeOK
<1> QED BY <1>1, <1>4, <1>5, <1>6, ReadersKeep

\* WriteAt, of a chunk or of the trailer, begins, completes or fails.
LEMMA WriteSteps ==
    ASSUME LiveInv, BeginWrite \/ EndWrite \/ WriteTrailer
    PROVE  LiveInv'
<1> USE DEF LiveInv
<1>1. /\ UNCHANGED <<log, idx, closed, mu, call, chunk, followerVars, ctxVars, iterVars>>
      /\ wpc' \in WriterPC
  BY DEF BeginWrite, EndWrite, WriteTrailer, Goto, WriterPC
<1>2. disk' = disk \/ \E c \in Chunk \cup {Torn} : AtCommitted(c)
  BY DEF BeginWrite, EndWrite, WriteTrailer, TypeOK
<1>3. disk' \in Seq(Chunk \cup {Torn}) /\ Intact'
  <2>1. CASE disk' = disk
    BY <1>1, <2>1 DEF TypeOK, Intact
  <2>2. ASSUME NEW c \in Chunk \cup {Torn}, AtCommitted(c)
        PROVE  disk' \in Seq(Chunk \cup {Torn}) /\ Intact'
    <3>1. Len(log) \in Nat
      BY LenProperties DEF TypeOK
    <3> QED BY <1>1, <2>2, <3>1, WriteBehind DEF Intact
  <2> QED BY <1>2, <2>1, <2>2
<1>4. TypeOK'
  BY <1>1, <1>3 DEF TypeOK, followerVars, ctxVars, iterVars
<1>5. WriterInv'
  <2>1. CASE EndWrite
    <3>1. CASE AtCommitted(chunk) /\ wpc' = "store"
      <4>1. chunk \in Chunk \cup {Torn}
        BY DEF TypeOK
      <4>2. Len(disk') = Len(log) + 1 /\ disk'[Len(log) + 1] = chunk
        BY <3>1, <4>1, WriteBehind
      <4> QED BY <1>1, <2>1, <3>1, <4>2 DEF EndWrite, WriterInv
    <3>2. CASE wpc' = "unlock"
      BY <1>1, <3>2 DEF WriterInv
    <3> QED BY <2>1, <3>1, <3>2 DEF EndWrite, Goto
  <2>2. CASE BeginWrite \/ WriteTrailer
    BY <1>1, <2>2 DEF BeginWrite, WriteTrailer, WriterInv, Goto
  <2> QED BY <2>1, <2>2
<1> QED BY <1>1, <1>3, <1>4, <1>5, ReadersKeep

\* The new committed size covers a complete chunk; the writer is not closed, so
\* that no follower has ended by draining it.
LEMMA StoreStep ==
    ASSUME LiveInv, StoreCommitted
    PROVE  LiveInv'
<1> USE DEF LiveInv
<1>1. /\ UNCHANGED <<disk, idx, closed, mu, call, chunk, followerVars, ctxVars, iterVars>>
      /\ wpc = "store" /\ wpc' = "wake" /\ log' = Append(log, chunk) /\ ~closed
  BY DEF StoreCommitted, Goto, WriterInv
<1>2. log \in Seq(Chunk) /\ chunk \in Chunk /\ Len(log) \in Nat /\ DOMAIN log = 1 .. Len(log)
  BY LenProperties DEF TypeOK
<1>3. /\ log' \in Seq(Chunk) /\ Len(log') = Len(log) + 1 /\ DOMAIN log' = 1 .. Len(log')
      /\ log'[Len(log) + 1] = chunk /\ \A i \in 1 .. Len(log) : log'[i] = log[i]
  BY <1>1, <1>2, AppendProperties, LenProperties
<1>4. TypeOK'
  <2>1. idx' \subseteq DOMAIN log'
    BY <1>1, <1>2, <1>3 DEF TypeOK
  <2> QED BY <1>1, <1>3, <2>1 DEF TypeOK, WriterPC, followerVars, ctxVars, iterVars
<1>5. Intact'
  BY <1>1, <1>2, <1>3 DEF Intact, WriterInv
<1>6. WriterInv'
  BY <1>1, <1>2, <1>3 DEF WriterInv
<1>7. FollowerInv'
  <2> SUFFICES ASSUME NEW f \in Followers
               PROVE  /\ fpc[f] # "new" => off[f] >= 1 /\ off[f] <= Len(log')  + 1
                      /\ limit[f] <= Len(log') + 1
                      /\ fpc[f] = "send" => off[f] > 1 /\ log'[off[f] - 1] \in Filter[f]
                      /\ sawClosed[f] => closed
                      /\ fpc[f] = "done" => canceled[f]
    BY <1>1 DEF FollowerInv, Committed, followerVars, ctxVars
  <2>1. off[f] \in Nat /\ limit[f] \in Nat
    BY DEF TypeOK
  <2> QED BY <1>1, <1>2, <1>3, <2>1 DEF FollowerInv, Committed
<1>8. IteratorInv'
  <2>1. \A i \in Iterators : ioff[i] \in Nat
    BY DEF TypeOK
  <2> QED BY <1>1, <1>2, <1>3, <2>1 DEF IteratorInv, Committed, iterVars
<1> QED BY <1>4, <1>5, <1>6, <1>7, <1>8

\* Both broadcasts of the writer.
LEMMA WakeSteps ==
    ASSUME LiveInv, Wake \/ WakeClosed
    PROVE  LiveInv'
<1> USE DEF LiveInv
<1>1. /\ UNCHANGED <<disk, log, idx, closed, mu, call, chunk,
                     off, limit, from, got, sawClosed, ctxVars, iterVars>>
      /\ Broadcast
  BY DEF Wake, WakeClosed
<1>2. FollowerInv' /\ fpc' \in [Followers -> FollowerPC]
  BY <1>1, BroadcastKeeps
<1>3. /\ wpc' \in {"index", "checkpoint", "trailer", "unlock"}
      /\ wpc' = "index" => wpc = "wake"
      /\ wpc = "wake" \/ wpc' = "unlock"
  BY DEF Wake, WakeClosed, AfterAppend, Goto
<1>4. TypeOK'
  BY <1>1, <1>2, <1>3 DEF TypeOK, WriterPC, ctxVars, iterVars
<1>5. Intact' /\ IteratorInv'
  BY <1>1 DEF Intact, IteratorInv, Committed, iterVars
<1>6. WriterInv'
  BY <1>1, <1>3 DEF WriterInv
<1> QED BY <1>2, <1>4, <1>5, <1>6
-----------------------------------------------------------------------------
\* What a step of follower f has to show: types, its own part of the invariant,
\* and that it leaves every other follower where it is.
LEMMA FollowerFrame ==
    ASSUME LiveInv, NEW f \in Followers,
           UNCHANGED <<shared, iterVars, canceled>>, TypeOK',
           \A h \in Followers \ {f} : /\ fpc'[h] = fpc[h] /\ off'[h] = off[h]
                                     /\ limit'[h] = limit[h] /\ sawClosed'[h] = sawClosed[h],
           fpc'[f] # "new" => off'[f] >= 1 /\ off'[f] <= Committed,
           limit'[f] <= Committed,
           fpc'[f] = "send" => off'[f] > 1 /\ log[off'[f] - 1] \in Filter[f],
           sawClosed'[f] => closed,
           fpc'[f] = "done" => canceled[f] \/ (closed /\ off'[f] = Committed)
    PROVE  LiveInv'
<1> USE DEF LiveInv
<1>1. UNCHANGED <<disk, log, idx, closed, wpc, call, chunk>>
  BY DEF shared, writerVars
<1>2. Intact' /\ WriterInv' /\ IteratorInv'
  BY <1>1 DEF Intact, WriterInv, IteratorInv, Committed, iterVars
<1>3. ASSUME NEW h \in Followers
      PROVE  /\ fpc'[h] # "new" => off'[h] >= 1 /\ off'[h] <= Committed
             /\ limit'[h] <= Committed
             /\ fpc'[h] = "send" => off'[h] > 1 /\ log[off'[h] - 1] \in Filter[h]
             /\ sawClosed'[h] => closed
             /\ fpc'[h] = "done" => canceled[h] \/ (closed /\ off'[h] = Committed)
  <2>1. CASE h = f
    BY <2>1
  <2>2. CASE h # f
    BY <2>2 DEF FollowerInv
  <2> QED BY <2>1, <2>2
<1>4. FollowerInv'
  BY <1>1, <1>3 DEF FollowerInv, Committed
<1> QED BY <1>2, <1>4

\* Steps of follow that move nothing but its position in the code, or load the
\* committed size.
LEMMA FollowerMoves ==
    ASSUME LiveInv, NEW f \in Followers,
           \/ Follow(f) \/ Register(f) \/ LoadLimit(f)
           \/ Lock(f) \/ MustWaitNow(f) \/ Wait(f) \/ Proceed(f)
    PROVE  LiveInv'
<1> USE DEF LiveInv
<1>1. UNCHANGED <<shared, iterVars, canceled>>
  BY DEF Follow, Register, LoadLimit, Lock, MustWaitNow, Wait, Proceed, ctxVars
<1>2. UNCHANGED <<disk, log, idx, closed, wpc, call, chunk>>
  BY <1>1 DEF shared, writerVars
<1>3. Len(log) \in Nat /\ Committed \in Nat /\ Committed >= 1
  BY LenProperties DEF TypeOK, Committed
<1>4. TypeOK'
  <2>1. fpc' \in [Followers -> FollowerPC]
    BY DEF TypeOK, FollowerPC, Move, Follow, Register, LoadLimit, Lock, MustWaitNow, Wait, Proceed
  <2>2. got' = got
    BY DEF Follow, Register, LoadLimit, Lock, MustWaitNow, Wait, Proceed
  <2>3. /\ off' = off \/ off' = [off EXCEPT ![f] = Committed]
        /\ from' = from \/ from' = [from EXCEPT ![f] = Committed]
        /\ limit' = limit \/ limit' = [limit EXCEPT ![f] = Committed]
    BY DEF Follow, Register, LoadLimit, Lock, MustWaitNow, Wait, Proceed
  <2>4. /\ off' \in [Followers -> Nat] /\ limit' \in [Followers -> Nat]
        /\ from' \in [Followers -> Nat]
    <3>1. ASSUME NEW g \in [Followers -> Nat] PROVE [g EXCEPT ![f] = Committed] \in [Followers -> Nat]
      BY <1>3
    <3>2. off \in [Followers -> Nat] /\ limit \in [Followers -> Nat] /\ from \in [Followers -> Nat]
      BY DEF TypeOK
    <3> QED BY <2>3, <3>1, <3>2
  <2>5. /\ mu' \in {None, "writer"} \cup Followers
        /\ sawClosed' \in [Followers -> BOOLEAN]
    BY DEF TypeOK, Follow, Register, LoadLimit, Lock, MustWaitNow, Wait, Proceed
  <2>6. afterFunc' \in [Followers -> {"none", "armed", "lock", "ran", "stopped"}]
    BY DEF TypeOK, Follow, Register, LoadLimit, Lock, MustWaitNow, Wait, Proceed, ctxVars
  <2> QED BY <1>1, <1>2, <2>1, <2>2, <2>4, <2>5, <2>6 DEF TypeOK, iterVars
<1>5. \A h \in Followers \ {f} : /\ fpc'[h] = fpc[h] /\ off'[h] = off[h]
                                /\ limit'[h] = limit[h] /\ sawClosed'[h] = sawClosed[h]
  BY DEF TypeOK, Move, Follow, Register, LoadLimit, Lock, MustWaitNow, Wait, Proceed
<1>6. fpc'[f] \notin {"new", "send", "done"}
  BY DEF TypeOK, Move, Follow, Register, LoadLimit, Lock, MustWaitNow, Wait, Proceed
<1>7. off'[f] >= 1 /\ off'[f] <= Committed
  <2>1. CASE Follow(f)
    BY <1>3, <2>1 DEF TypeOK, Follow
  <2>2. CASE ~Follow(f)
    <3>1. fpc[f] # "new" /\ off' = off
      BY <2>2 DEF At, Register, LoadLimit, Lock, MustWaitNow, Wait, Proceed
    <3> QED BY <3>1 DEF FollowerInv
  <2> QED BY <2>1, <2>2
<1>8. limit'[f] <= Committed
  BY <1>3 DEF TypeOK, FollowerInv, Follow, Register, LoadLimit, Lock, MustWaitNow, Wait, Proceed
<1>9. sawClosed'[f] => closed
  BY DEF TypeOK, FollowerInv, Follow, Register, LoadLimit, Lock, MustWaitNow, Wait, Proceed
<1> QED BY <1>1, <1>4, <1>5, <1>6, <1>7, <1>8, <1>9, FollowerFrame

\* Below a loaded limit there are only complete chunks, so the scan goes on.
LEMMA ReadNextStep ==
    ASSUME LiveInv, NEW f \in Followers, ReadNext(f)
    PROVE  LiveInv'
<1> USE DEF LiveInv
<1>1. UNCHANGED <<shared, mu, limit, from, got, sawClosed, canceled, iterVars>>
  BY DEF ReadNext
<1>2. UNCHANGED <<disk, log, idx, closed, wpc, call, chunk>>
  BY <1>1 DEF shared, writerVars
<1>3. /\ fpc[f] = "scan" /\ off[f] \in Nat /\ off[f] >= 1 /\ off[f] <= Len(log)
      /\ Len(log) \in Nat
  BY LenProperties DEF TypeOK, ReadNext, At, FollowerInv, Committed
<1>4. disk[off[f]] = log[off[f]] /\ disk[off[f]] # Torn
  BY <1>3, CommittedReads
<1>5. /\ off' = [off EXCEPT ![f] = @ + 1] /\ afterFunc' = afterFunc
      /\ fpc' = [fpc EXCEPT ![f] = IF log[off[f]] \in Filter[f] THEN "send" ELSE "scan"]
  BY <1>4 DEF ReadNext, Move
<1>6. TypeOK'
  <2>1. off' \in [Followers -> Nat]
    BY <1>3, <1>5 DEF TypeOK
  <2>2. fpc' \in [Followers -> FollowerPC]
    BY <1>5 DEF TypeOK, FollowerPC
  <2> QED BY <1>1, <1>2, <1>5, <2>1, <2>2 DEF TypeOK, iterVars
<1>7. \A h \in Followers \ {f} : fpc'[h] = fpc[h] /\ off'[h] = off[h]
  BY <1>5 DEF TypeOK
<1>8. /\ off'[f] = off[f] + 1
      /\ fpc'[f] = IF log[off[f]] \in Filter[f] THEN "send" ELSE "scan"
  BY <1>5 DEF TypeOK
<1>9. /\ off'[f] >= 1 /\ off'[f] <= Committed
      /\ fpc'[f] = "send" => off'[f] > 1 /\ log[off'[f] - 1] \in Filter[f]
      /\ fpc'[f] # "done"
  BY <1>3, <1>8 DEF Committed
<1>10. limit'[f] <= Committed /\ (sawClosed'[f] => closed)
  BY <1>1 DEF FollowerInv
<1> QED BY <1>1, <1>6, <1>7, <1>9, <1>10, FollowerFrame

\* The frame handed over is one of a track.
LEMMA ReceiveStep ==
    ASSUME LiveInv, NEW f \in Followers, Receive(f)
    PROVE  LiveInv'
<1> USE DEF LiveInv
<1>1. UNCHANGED <<shared, mu, off, limit, from, sawClosed, ctxVars, iterVars>>
  BY DEF Receive
<1>2. UNCHANGED <<disk, log, idx, closed, wpc, call, chunk, canceled, afterFunc>>
  BY <1>1 DEF shared, writerVars, ctxVars
<1>3. /\ fpc[f] = "send" /\ off[f] - 1 \in Nat /\ off[f] - 1 >= 1 /\ off[f] - 1 <= Len(log)
      /\ log[off[f] - 1] \in Filter[f]
  <2>1. Len(log) \in Nat /\ off[f] \in Nat
    BY LenProperties DEF TypeOK
  <2>2. /\ fpc[f] = "send" /\ off[f] > 1 /\ off[f] <= Len(log) + 1
        /\ log[off[f] - 1] \in Filter[f]
    BY DEF Receive, At, FollowerInv, Committed
  <2> QED BY <2>1, <2>2
<1>4. disk[off[f] - 1] \in Tracks
  <2>1. disk[off[f] - 1] = log[off[f] - 1]
    BY <1>3, CommittedReads
  <2> QED BY <1>3, <2>1, LiveAssumption
<1>5. got' \in [Followers -> Seq(Tracks)]
  <2>1. Append(got[f], disk[off[f] - 1]) \in Seq(Tracks)
    BY <1>4, AppendProperties DEF TypeOK
  <2> QED BY <2>1 DEF Receive, TypeOK
<1>6. fpc' = [fpc EXCEPT ![f] = "scan"]
  BY DEF Receive, Move
<1>7. TypeOK'
  BY <1>1, <1>2, <1>5, <1>6 DEF TypeOK, FollowerPC, iterVars
<1>8. fpc'[f] = "scan" /\ \A h \in Followers \ {f} : fpc'[h] = fpc[h]
  BY <1>6 DEF TypeOK
<1>9. /\ off'[f] >= 1 /\ off'[f] <= Committed /\ limit'[f] <= Committed
      /\ sawClosed'[f] => closed
  BY <1>1, <1>3 DEF FollowerInv
<1> QED BY <1>1, <1>2, <1>7, <1>8, <1>9, FollowerFrame

\* Both ways to leave the loop: the context is canceled, or the writer was seen
\* closed and nothing is left to read.
LEMMA LeaveSteps ==
    ASSUME LiveInv, NEW f \in Followers, GiveUpSend(f) \/ Decide(f)
    PROVE  LiveInv'
<1> USE DEF LiveInv
<1>1. UNCHANGED <<shared, mu, off, limit, from, got, sawClosed, canceled, iterVars>>
  BY DEF GiveUpSend, Decide
<1>2. UNCHANGED <<disk, log, idx, closed, wpc, call, chunk>>
  BY <1>1 DEF shared, writerVars
<1>3. /\ fpc[f] # "new"
      /\ \/ fpc' = [fpc EXCEPT ![f] = "load"] /\ afterFunc' = afterFunc
         \/ /\ fpc' = [fpc EXCEPT ![f] = "done"]
            /\ afterFunc' = [afterFunc EXCEPT ![f] = IF @ = "armed" THEN "stopped" ELSE @]
            /\ canceled[f] \/ (sawClosed[f] /\ Committed = off[f])
  BY DEF GiveUpSend, Decide, At, Return, Move
<1>4. TypeOK'
  <2>1. fpc' \in [Followers -> FollowerPC]
    BY <1>3 DEF TypeOK, FollowerPC
  <2>2. afterFunc' \in [Followers -> {"none", "armed", "lock", "ran", "stopped"}]
    BY <1>3 DEF TypeOK
  <2> QED BY <1>1, <1>2, <2>1, <2>2 DEF TypeOK, iterVars
<1>5. /\ \A h \in Followers \ {f} : fpc'[h] = fpc[h]
      /\ fpc'[f] \in {"load", "done"}
      /\ fpc'[f] = "done" => canceled[f] \/ (sawClosed[f] /\ Committed = off[f])
  BY <1>3 DEF TypeOK
<1>6. /\ off'[f] >= 1 /\ off'[f] <= Committed /\ limit'[f] <= Committed
      /\ sawClosed'[f] => closed
  BY <1>1, <1>3 DEF FollowerInv
<1>7. fpc'[f] = "done" => canceled[f] \/ (closed /\ off'[f] = Committed)
  BY <1>1, <1>5, <1>6
<1> QED BY <1>1, <1>4, <1>5, <1>6, <1>7, FollowerFrame

\* Cancel and the AfterFunc goroutine.
LEMMA ContextSteps ==
    ASSUME LiveInv, NEW f \in Followers, Cancel(f) \/ AfterFunc(f)
    PROVE  LiveInv'
<1> USE DEF LiveInv
<1>1. UNCHANGED <<shared, mu, off, limit, from, got, sawClosed, iterVars>>
  BY DEF Cancel, AfterFunc, followerVars
<1>2. UNCHANGED <<disk, log, idx, closed, wpc, call, chunk>>
  BY <1>1 DEF shared, writerVars
<1>3. Intact' /\ WriterInv' /\ IteratorInv'
  BY <1>1, <1>2 DEF Intact, WriterInv, IteratorInv, Committed, iterVars
<1>4. /\ afterFunc' \in [Followers -> {"none", "armed", "lock", "ran", "stopped"}]
      /\ canceled' \in [Followers -> BOOLEAN]
  BY DEF TypeOK, Cancel, AfterFunc
<1>5. FollowerInv' /\ fpc' \in [Followers -> FollowerPC]
  <2>1. CASE Cancel(f)
    <3>1. fpc' = fpc /\ \A h \in Followers : canceled[h] => canceled'[h]
      BY <2>1 DEF Cancel, followerVars, TypeOK
    <3> QED BY <1>1, <1>2, <3>1 DEF FollowerInv, Committed, TypeOK
  <2>2. CASE AfterFunc(f)
    <3>1. \A h \in Followers :
             fpc'[h] = fpc[h] \/ (fpc[h] = "waiting" /\ fpc'[h] = "woken")
      BY <2>2 DEF AfterFunc, Broadcast
    <3>2. fpc' \in [Followers -> FollowerPC] /\ canceled' = canceled
      BY <2>2 DEF AfterFunc, Broadcast, TypeOK, FollowerPC
    <3> QED BY <1>1, <1>2, <3>1, <3>2 DEF FollowerInv, Committed
  <2> QED BY <2>1, <2>2
<1>6. TypeOK'
  BY <1>1, <1>2, <1>4, <1>5 DEF TypeOK, iterVars
<1> QED BY <1>3, <1>5, <1>6

-----------------------------------------------------------------------------
\* An iterator is placed at or before the committed size and reads below it.
LEMMA IteratorSteps ==
    ASSUME LiveInv, NEW i \in Iterators, IteratorStep(i)
    PROVE  LiveInv'
<1> USE DEF LiveInv
<1>1. UNCHANGED <<shared, mu, followerVars, ctxVars>>
  BY DEF IteratorStep, NewIterator, SeekIndex, NextLoad, NextRead
<1>2. UNCHANGED <<disk, log, idx, closed, wpc, call, chunk>>
  BY <1>1 DEF shared, writerVars
<1>3. Intact' /\ WriterInv' /\ FollowerInv'
  BY <1>1, <1>2 DEF Intact, WriterInv, FollowerInv, Committed, followerVars, ctxVars
<1>4. Len(log) \in Nat /\ Committed = Len(log) + 1
  BY LenProperties DEF TypeOK, Committed
<1>5. /\ ipc' \in [Iterators -> IteratorPC] /\ ioff' \in [Iterators -> Nat]
      /\ ilimit' \in [Iterators -> Nat] /\ ifrom' \in [Iterators -> Nat]
      /\ igot' \in [Iterators -> Seq(Tracks)]
      /\ \A j \in Iterators \ {i} : ipc'[j] = ipc[j] /\ ioff'[j] = ioff[j]
      /\ ipc'[i] # "failed"
      /\ ioff'[i] >= 1 /\ ioff'[i] <= Committed
      /\ ipc'[i] = "read" => ioff'[i] <= Len(log)
  <2>1. CASE NewIterator(i)
    BY <1>4, <2>1 DEF NewIterator, TypeOK, IteratorPC
  <2>2. CASE SeekIndex(i)
    <3>1. PICK p \in idx \cup {Start} :
             LET start == IF p < ioff[i] THEN p ELSE ioff[i]
             IN  /\ ioff' = [ioff EXCEPT ![i] = start]
                 /\ ifrom' = [ifrom EXCEPT ![i] = start]
      BY <2>2 DEF SeekIndex
    <3>2. p \in Nat /\ p >= 1
      BY LenProperties DEF TypeOK, Start
    <3>3. ioff[i] \in Nat /\ ioff[i] >= 1 /\ ioff[i] <= Committed
      BY <2>2 DEF SeekIndex, TypeOK, IteratorInv
    <3> DEFINE start == IF p < ioff[i] THEN p ELSE ioff[i]
    <3>4. start \in Nat /\ start >= 1 /\ start <= Committed
      BY <1>4, <3>2, <3>3
    <3>5. ioff' = [ioff EXCEPT ![i] = start] /\ ifrom' = [ifrom EXCEPT ![i] = start]
      BY <3>1
    <3> HIDE DEF start
    <3> QED BY <2>2, <3>4, <3>5 DEF SeekIndex, TypeOK, IteratorPC
  <2>3. CASE NextLoad(i)
    BY <1>4, <2>3 DEF NextLoad, TypeOK, IteratorPC, IteratorInv
  <2>4. CASE NextRead(i)
    <3>1. /\ ipc[i] = "read" /\ ioff[i] \in Nat /\ ioff[i] >= 1 /\ ioff[i] <= Len(log)
      BY <2>4 DEF NextRead, TypeOK, IteratorInv
    <3>2. disk[ioff[i]] # Torn
      BY <3>1, CommittedReads
    <3>3. /\ ioff' = [ioff EXCEPT ![i] = @ + 1] /\ ipc' = [ipc EXCEPT ![i] = "idle"]
          /\ igot' = IF disk[ioff[i]] \in Filter[i]
                     THEN [igot EXCEPT ![i] = Append(@, disk[ioff[i]])] ELSE igot
          /\ UNCHANGED <<ilimit, ifrom>>
      BY <2>4, <3>2 DEF NextRead
    <3>4. igot' \in [Iterators -> Seq(Tracks)]
      <4>1. CASE disk[ioff[i]] \in Filter[i]
        <5>1. disk[ioff[i]] \in Tracks
          BY <4>1, LiveAssumption
        <5>2. Append(igot[i], disk[ioff[i]]) \in Seq(Tracks)
          BY <5>1, AppendProperties DEF TypeOK
        <5> QED BY <3>3, <4>1, <5>2 DEF TypeOK
      <4>2. CASE disk[ioff[i]] \notin Filter[i]
        BY <3>3, <4>2 DEF TypeOK
      <4> QED BY <4>1, <4>2
    <3> QED BY <1>4, <3>1, <3>3, <3>4 DEF TypeOK, IteratorPC
  <2> QED BY <2>1, <2>2, <2>3, <2>4 DEF IteratorStep
<1>6. TypeOK'
  BY <1>1, <1>2, <1>5 DEF TypeOK, followerVars, ctxVars
<1>7. IteratorInv'
  <2> SUFFICES ASSUME NEW j \in Iterators
               PROVE  /\ ipc'[j] # "failed"
                      /\ ipc'[j] # "new" => ioff'[j] >= 1 /\ ioff'[j] <= Committed
                      /\ ipc'[j] = "read" => ioff'[j] <= Len(log)
    BY <1>2 DEF IteratorInv, Committed
  <2>1. CASE j = i
    BY <1>5, <2>1
  <2>2. CASE j # i
    BY <1>5, <2>2 DEF IteratorInv
  <2> QED BY <2>1, <2>2
<1> QED BY <1>3, <1>6, <1>7

-----------------------------------------------------------------------------
(* The theorems.                                                           *)

\* LiveInv is inductive.
LEMMA NextLiveInv == LiveInv /\ [Next]_vars => LiveInv'
<1> SUFFICES ASSUME LiveInv, [Next]_vars PROVE LiveInv'
  OBVIOUS
<1>1. CASE Call \/ CallStep
  BY <1>1, QuietSteps, WriteSteps, StoreStep, WakeSteps DEF CallStep
<1>2. ASSUME NEW f \in Followers,
             Follow(f) \/ FollowerStep(f) \/ Receive(f) \/ Cancel(f) \/ AfterFunc(f)
      PROVE  LiveInv'
  BY <1>2, FollowerMoves, ReadNextStep, ReceiveStep, LeaveSteps, ContextSteps DEF FollowerStep
<1>3. ASSUME NEW i \in Iterators, IteratorStep(i)
      PROVE  LiveInv'
  BY <1>3, IteratorSteps
<1>4. CASE UNCHANGED vars
  BY <1>4 DEF vars, writerVars, followerVars, ctxVars, iterVars, LiveInv, TypeOK, Intact, WriterInv,
              FollowerInv, IteratorInv, Committed
<1> QED BY <1>1, <1>2, <1>3, <1>4 DEF Next

\* ... and throughout.
LEMMA LiveInvHolds == Spec => []LiveInv
<1>1. Spec => Init /\ [][Next]_vars
  BY DEF Spec
<1> QED BY <1>1, InitLiveInv, NextLiveInv, PTL

\* The type invariant of the live writer and its readers.
THEOREM LiveTypeCorrect == Spec => []TypeOK
<1>1. LiveInv => TypeOK
  BY DEF LiveInv
<1> QED BY <1>1, LiveInvHolds, PTL

\* No later append, failed append or trailer touches a committed chunk
\* (appendChunkLocked, writer.go:137-148).
THEOREM CommittedStaysIntact == Spec => []CommittedIntact
<1>1. LiveInv => CommittedIntact
  BY IntactIsCommittedIntact DEF LiveInv
<1> QED BY <1>1, LiveInvHolds, PTL

\* However writer, followers and cancellations interleave, a channel is closed
\* only for a canceled context or for a closed writer that has been read to its
\* end; no torn chunk ends a follower (follow, iterator.go:95-153).
THEOREM FollowersEndForAReason == Spec => []FollowerEndsForAReason
<1>1. LiveInv => FollowerEndsForAReason
  BY DEF LiveInv, FollowerInv, FollowerEndsForAReason
<1> QED BY <1>1, LiveInvHolds, PTL

\* A live iterator never fails on a chunk being written (Iterator.Next,
\* iterator.go:18-56).
THEOREM IteratorsNeverFail == Spec => [](\A i \in Iterators : ipc[i] # "failed")
<1>1. LiveInv => \A i \in Iterators : ipc[i] # "failed"
  BY DEF LiveInv, IteratorInv
<1> QED BY <1>1, LiveInvHolds, PTL

-----------------------------------------------------------------------------
(* What readers are handed.                                                *)

\* A follower has what it asked for up to its offset, short of the frame it is
\* sending or was sending when its context was canceled.
FollowerGot ==
    \A f \in Followers :
        /\ fpc[f] = "new" => from[f] = 0 /\ got[f] = <<>>
        /\ fpc[f] # "new" => from[f] >= 1 /\ from[f] <= off[f]
        /\ fpc[f] = "send" => from[f] < off[f] /\ got[f] = Matching(f, from[f], off[f] - 2)
        /\ fpc[f] \notin {"new", "send"} =>
              \/ got[f] = Matching(f, from[f], off[f] - 1)
              \/ /\ fpc[f] = "done" /\ canceled[f] /\ from[f] < off[f]
                 /\ log[off[f] - 1] \in Filter[f]
                 /\ got[f] = Matching(f, from[f], off[f] - 2)

IteratorGot ==
    \A i \in Iterators :
        /\ ipc[i] \in {"new", "seek"} => ifrom[i] = 0 /\ igot[i] = <<>>
        /\ ipc[i] \in {"idle", "read"} =>
              /\ ifrom[i] >= 1 /\ ifrom[i] <= ioff[i]
              /\ igot[i] = Matching(i, ifrom[i], ioff[i] - 1)

DeliveryInv == LiveInv /\ FollowerGot /\ IteratorGot

\* An empty range matches nothing.
LEMMA MatchingNothing ==
    ASSUME NEW x, NEW lo \in Int, NEW hi \in Int, hi < lo
    PROVE  Matching(x, lo, hi) = <<>>
BY SelectNothing DEF Matching

\* The next position of the log is handed over if the reader asked for its track.
LEMMA MatchingNext ==
    ASSUME TypeOK, NEW x, NEW lo \in Nat, NEW hi \in Nat,
           lo >= 1, lo <= hi, hi <= Len(log)
    PROVE  Matching(x, lo, hi) =
               IF log[hi] \in Filter[x] THEN Append(Matching(x, lo, hi - 1), log[hi])
               ELSE Matching(x, lo, hi - 1)
<1> DEFINE k == hi - 1
           T == Filter[x]
<1>1. log \in Seq(Chunk) /\ k \in Nat /\ k + 1 = hi /\ lo <= k + 1 /\ k + 1 <= Len(log)
  BY DEF TypeOK
<1>2. Select(SubSeq(log, lo, k + 1), T) =
          IF log[k + 1] \in T THEN Append(Select(SubSeq(log, lo, k), T), log[k + 1])
          ELSE Select(SubSeq(log, lo, k), T)
  <2> HIDE DEF k, T
  <2> QED BY <1>1, SelectNext
<1>3. Select(SubSeq(log, lo, hi), T) =
          IF log[hi] \in T THEN Append(Select(SubSeq(log, lo, k), T), log[hi])
          ELSE Select(SubSeq(log, lo, k), T)
  <2> HIDE DEF k, T
  <2> QED BY <1>1, <1>2
<1> QED BY <1>3 DEF Matching

\* A commit does not change what precedes it.
LEMMA MatchingKeeps ==
    ASSUME TypeOK, NEW c \in Chunk, log' = Append(log, c),
           NEW x, NEW lo \in Nat, NEW hi \in Int, lo >= 1, hi <= Len(log)
    PROVE  Select(SubSeq(log', lo, hi), Filter[x]) = Matching(x, lo, hi)
<1>1. SubSeq(log', lo, hi) = SubSeq(log, lo, hi)
  BY RangeOfAppend DEF TypeOK
<1> QED BY <1>1 DEF Matching

\* Steps that hand over nothing and move no reader in the log.
LEMMA HandsOverNothing ==
    ASSUME DeliveryInv,
           UNCHANGED <<log, off, from, got, iterVars>>,
           \A f \in Followers :
              /\ canceled[f] => canceled'[f]
              /\ \/ fpc'[f] = fpc[f]
                 \/ fpc[f] \notin {"new", "send", "done"} /\ fpc'[f] \notin {"new", "send"}
    PROVE  FollowerGot' /\ IteratorGot' /\ UNCHANGED Delivery!vars
<1>1. FollowerGot'
  <2> SUFFICES ASSUME NEW f \in Followers
               PROVE  /\ fpc'[f] = "new" => from[f] = 0 /\ got[f] = <<>>
                      /\ fpc'[f] # "new" => from[f] >= 1 /\ from[f] <= off[f]
                      /\ fpc'[f] = "send" =>
                            from[f] < off[f] /\ got[f] = Matching(f, from[f], off[f] - 2)
                      /\ fpc'[f] \notin {"new", "send"} =>
                            \/ got[f] = Matching(f, from[f], off[f] - 1)
                            \/ /\ fpc'[f] = "done" /\ canceled'[f] /\ from[f] < off[f]
                               /\ log[off[f] - 1] \in Filter[f]
                               /\ got[f] = Matching(f, from[f], off[f] - 2)
    BY DEF FollowerGot, Matching
  <2>1. CASE fpc'[f] = fpc[f]
    BY <2>1 DEF DeliveryInv, FollowerGot
  <2>2. CASE fpc[f] \notin {"new", "send", "done"} /\ fpc'[f] \notin {"new", "send"}
    BY <2>2 DEF DeliveryInv, FollowerGot
  <2> QED BY <2>1, <2>2
<1>2. IteratorGot'
  BY DEF DeliveryInv, IteratorGot, Matching, iterVars
<1>3. UNCHANGED Delivery!vars
  BY DEF Delivery!vars, Placed, Handed, iterVars
<1> QED BY <1>1, <1>2, <1>3

\* A commit leaves every reader where it is.
LEMMA StoreCommits ==
    ASSUME DeliveryInv, StoreCommitted
    PROVE  FollowerGot' /\ IteratorGot' /\ Delivery!Commit
<1>1. UNCHANGED <<followerVars, ctxVars, iterVars>> /\ log' = Append(log, chunk)
  BY DEF StoreCommitted
<1>2. /\ TypeOK /\ chunk \in Chunk /\ log \in Seq(Chunk) /\ Len(log) \in Nat
      /\ \A i \in 1 .. Len(log) : log'[i] = log[i]
  BY <1>1, LenProperties, AppendProperties DEF DeliveryInv, LiveInv, TypeOK
<1>3. \A x \in Readers : \A lo \in Nat : \A hi \in Int :
         lo >= 1 /\ hi <= Len(log) =>
            Select(SubSeq(log', lo, hi), Filter[x]) = Matching(x, lo, hi)
  BY <1>1, <1>2, MatchingKeeps
<1>4. FollowerGot'
  <2> SUFFICES ASSUME NEW f \in Followers
               PROVE  /\ fpc[f] = "new" => from[f] = 0 /\ got[f] = <<>>
                      /\ fpc[f] # "new" => from[f] >= 1 /\ from[f] <= off[f]
                      /\ fpc[f] = "send" =>
                            /\ from[f] < off[f]
                            /\ got[f] = Select(SubSeq(log', from[f], off[f] - 2), Filter[f])
                      /\ fpc[f] \notin {"new", "send"} =>
                            \/ got[f] = Select(SubSeq(log', from[f], off[f] - 1), Filter[f])
                            \/ /\ fpc[f] = "done" /\ canceled[f] /\ from[f] < off[f]
                               /\ log'[off[f] - 1] \in Filter[f]
                               /\ got[f] = Select(SubSeq(log', from[f], off[f] - 2), Filter[f])
    BY <1>1 DEF FollowerGot, Matching, followerVars, ctxVars
  <2>1. CASE fpc[f] = "new"
    BY <2>1 DEF DeliveryInv, FollowerGot
  <2>2. CASE fpc[f] # "new"
    <3>1. /\ from[f] \in Nat /\ off[f] \in Nat /\ from[f] >= 1 /\ from[f] <= off[f]
          /\ off[f] - 1 <= Len(log) /\ off[f] - 2 <= Len(log)
      BY <1>2, <2>2 DEF DeliveryInv, LiveInv, TypeOK, FollowerInv, FollowerGot, Committed
    <3>2. /\ Select(SubSeq(log', from[f], off[f] - 1), Filter[f]) =
                Matching(f, from[f], off[f] - 1)
          /\ Select(SubSeq(log', from[f], off[f] - 2), Filter[f]) =
                Matching(f, from[f], off[f] - 2)
      BY <1>3, <3>1 DEF Readers
    <3>3. from[f] < off[f] => log'[off[f] - 1] = log[off[f] - 1]
      BY <1>2, <3>1
    <3> QED BY <2>2, <3>1, <3>2, <3>3 DEF DeliveryInv, FollowerGot
  <2> QED BY <2>1, <2>2
<1>5. IteratorGot'
  <2> SUFFICES ASSUME NEW i \in Iterators, ipc[i] \in {"idle", "read"}
               PROVE  igot[i] = Select(SubSeq(log', ifrom[i], ioff[i] - 1), Filter[i])
    BY <1>1 DEF DeliveryInv, IteratorGot, Matching, iterVars
  <2>1. /\ ifrom[i] \in Nat /\ ioff[i] \in Nat /\ ifrom[i] >= 1 /\ ioff[i] - 1 <= Len(log)
        /\ igot[i] = Matching(i, ifrom[i], ioff[i] - 1)
    BY <1>2 DEF DeliveryInv, LiveInv, TypeOK, IteratorInv, IteratorGot, Committed
  <2> QED BY <1>3, <2>1 DEF Readers
<1>6. Delivery!Commit
  BY <1>1, <1>2 DEF Delivery!Commit, Placed, Handed, followerVars, iterVars
<1> QED BY <1>4, <1>5, <1>6

\* What a step of follower f has to show of FollowerGot.
LEMMA FollowerGotFrame ==
    ASSUME DeliveryInv, NEW f \in Followers, log' = log, canceled' = canceled,
           \A h \in Followers \ {f} : /\ fpc'[h] = fpc[h] /\ off'[h] = off[h]
                                     /\ from'[h] = from[h] /\ got'[h] = got[h],
           fpc'[f] # "new", from'[f] >= 1, from'[f] <= off'[f],
           fpc'[f] = "send" =>
              from'[f] < off'[f] /\ got'[f] = Matching(f, from'[f], off'[f] - 2),
           fpc'[f] # "send" =>
              \/ got'[f] = Matching(f, from'[f], off'[f] - 1)
              \/ /\ fpc'[f] = "done" /\ canceled[f] /\ from'[f] < off'[f]
                 /\ log[off'[f] - 1] \in Filter[f]
                 /\ got'[f] = Matching(f, from'[f], off'[f] - 2)
    PROVE  FollowerGot'
<1> SUFFICES ASSUME NEW h \in Followers
             PROVE  /\ fpc'[h] = "new" => from'[h] = 0 /\ got'[h] = <<>>
                    /\ fpc'[h] # "new" => from'[h] >= 1 /\ from'[h] <= off'[h]
                    /\ fpc'[h] = "send" =>
                          from'[h] < off'[h] /\ got'[h] = Matching(h, from'[h], off'[h] - 2)
                    /\ fpc'[h] \notin {"new", "send"} =>
                          \/ got'[h] = Matching(h, from'[h], off'[h] - 1)
                          \/ /\ fpc'[h] = "done" /\ canceled[h] /\ from'[h] < off'[h]
                             /\ log[off'[h] - 1] \in Filter[h]
                             /\ got'[h] = Matching(h, from'[h], off'[h] - 2)
  BY DEF FollowerGot, Matching
<1>1. CASE h = f
  BY <1>1
<1>2. CASE h # f
  BY <1>2 DEF DeliveryInv, FollowerGot
<1> QED BY <1>1, <1>2

\* What was delivered is not disturbed by steps elsewhere.
LEMMA IteratorGotKept ==
    ASSUME DeliveryInv, UNCHANGED <<log, iterVars>>
    PROVE  IteratorGot'
BY DEF DeliveryInv, IteratorGot, Matching, iterVars

\* Follow places a reader behind the last committed chunk.
LEMMA FollowJoins ==
    ASSUME DeliveryInv, NEW f \in Followers, Follow(f)
    PROVE  FollowerGot' /\ IteratorGot' /\ Delivery!Join(f)
<1>1. /\ UNCHANGED <<log, iterVars, canceled, got>> /\ fpc[f] = "new"
      /\ fpc' = [fpc EXCEPT ![f] = "spawned"]
      /\ off' = [off EXCEPT ![f] = Committed] /\ from' = [from EXCEPT ![f] = Committed]
  BY DEF Follow, At, Move, shared, ctxVars
<1>2. /\ TypeOK /\ Len(log) \in Nat /\ Committed \in Nat /\ Committed >= 1
      /\ Committed = Len(log) + 1
  BY LenProperties DEF DeliveryInv, LiveInv, TypeOK, Committed
<1>3. from[f] = 0 /\ got[f] = <<>>
  BY <1>1 DEF DeliveryInv, FollowerGot
<1>4. /\ fpc'[f] = "spawned" /\ off'[f] = Committed /\ from'[f] = Committed /\ got'[f] = <<>>
      /\ \A h \in Followers \ {f} : /\ fpc'[h] = fpc[h] /\ off'[h] = off[h]
                                    /\ from'[h] = from[h] /\ got'[h] = got[h]
  BY <1>1, <1>3 DEF LiveInv, DeliveryInv, TypeOK
<1>5. Matching(f, Committed, Committed - 1) = <<>>
  BY <1>2, MatchingNothing
<1>6. FollowerGot'
  BY <1>1, <1>2, <1>4, <1>5, FollowerGotFrame
<1>7. Delivery!Join(f)
  <2>1. Placed[f] = 0 /\ f \in Readers
    BY <1>3 DEF Placed, Readers
  <2>2. Committed \in 1 .. Len(log) + 1
    BY <1>2
  <2>3. Placed' = [Placed EXCEPT ![f] = Committed]
    BY <1>1, <1>2 DEF Placed, Readers, iterVars, TypeOK
  <2>4. Handed' = Handed
    BY <1>1 DEF Handed, iterVars
  <2> QED BY <1>1, <2>1, <2>2, <2>3, <2>4 DEF Delivery!Join
<1> QED BY <1>1, <1>6, <1>7, IteratorGotKept

\* The scan passes a chunk nobody asked for, or holds the one that was.
LEMMA ReadNextAdvances ==
    ASSUME DeliveryInv, NEW f \in Followers, ReadNext(f)
    PROVE  FollowerGot' /\ IteratorGot' /\ UNCHANGED Delivery!vars
<1> DEFINE n == off[f]
<1>1. UNCHANGED <<log, from, got, canceled, iterVars>> /\ fpc[f] = "scan"
  BY DEF ReadNext, shared, At
<1>2. /\ TypeOK /\ n \in Nat /\ n <= Len(log) /\ from[f] \in Nat
      /\ from[f] >= 1 /\ from[f] <= n
      /\ got[f] = Matching(f, from[f], n - 1)
  <2>1. TypeOK /\ Len(log) \in Nat /\ n \in Nat /\ from[f] \in Nat /\ limit[f] \in Nat
    BY LenProperties DEF DeliveryInv, LiveInv, TypeOK
  <2>2. n < limit[f] /\ limit[f] <= Len(log) + 1
    BY DEF ReadNext, DeliveryInv, LiveInv, FollowerInv, Committed
  <2>3. /\ from[f] >= 1 /\ from[f] <= n
        /\ got[f] = Matching(f, from[f], n - 1)
    BY <1>1 DEF DeliveryInv, FollowerGot
  <2> QED BY <2>1, <2>2, <2>3
<1>3. disk[n] = log[n] /\ disk[n] # Torn
  BY <1>2, CommittedReads DEF DeliveryInv, LiveInv
<1>4. /\ off' = [off EXCEPT ![f] = n + 1]
      /\ fpc' = [fpc EXCEPT ![f] = IF log[n] \in Filter[f] THEN "send" ELSE "scan"]
  BY <1>3 DEF ReadNext, Move
<1>5. /\ off'[f] = n + 1 /\ fpc'[f] = IF log[n] \in Filter[f] THEN "send" ELSE "scan"
      /\ \A h \in Followers \ {f} : fpc'[h] = fpc[h] /\ off'[h] = off[h]
  BY <1>2, <1>4 DEF TypeOK
<1>6. Matching(f, from[f], n) =
          IF log[n] \in Filter[f] THEN Append(Matching(f, from[f], n - 1), log[n])
          ELSE Matching(f, from[f], n - 1)
  BY <1>2, MatchingNext
<1>7. off'[f] - 1 = n /\ off'[f] - 2 = n - 1 /\ from'[f] < off'[f] /\ from'[f] = from[f]
  BY <1>1, <1>2, <1>5
<1>8. FollowerGot'
  <2>1. fpc'[f] = "send" =>
           from'[f] < off'[f] /\ got'[f] = Matching(f, from'[f], off'[f] - 2)
    BY <1>1, <1>2, <1>7
  <2>2. fpc'[f] # "send" => got'[f] = Matching(f, from'[f], off'[f] - 1)
    <3> HIDE DEF n
    <3> QED BY <1>1, <1>2, <1>5, <1>6, <1>7
  <2>3. fpc'[f] # "new" /\ from'[f] >= 1 /\ from'[f] <= off'[f]
    BY <1>1, <1>2, <1>5
  <2> HIDE DEF n
  <2> QED BY <1>1, <1>5, <2>1, <2>2, <2>3, FollowerGotFrame
<1>9. UNCHANGED Delivery!vars
  BY <1>1 DEF Delivery!vars, Placed, Handed, iterVars
<1> QED BY <1>1, <1>8, <1>9, IteratorGotKept

\* The consumer receives the frame that is held.
LEMMA ReceiveDelivers ==
    ASSUME DeliveryInv, NEW f \in Followers, Receive(f)
    PROVE  FollowerGot' /\ IteratorGot' /\ Delivery!Deliver(f)
<1> DEFINE n == off[f] - 1
<1>1. UNCHANGED <<log, off, from, canceled, iterVars>> /\ fpc[f] = "send"
  BY DEF Receive, shared, ctxVars, At
<1>2. /\ TypeOK /\ n \in Nat /\ n >= 1 /\ n <= Len(log) /\ from[f] \in Nat
      /\ from[f] >= 1 /\ from[f] <= n /\ log[n] \in Filter[f]
      /\ got[f] = Matching(f, from[f], n - 1) /\ off[f] \in Nat
  <2>1. Len(log) \in Nat /\ off[f] \in Nat /\ n - 1 = off[f] - 2
    BY LenProperties DEF DeliveryInv, LiveInv, TypeOK
  <2> QED BY <1>1, <2>1, SMTT(30) DEF DeliveryInv, LiveInv, TypeOK, FollowerInv, FollowerGot, Committed
<1>3. disk[n] = log[n]
  BY <1>2, CommittedReads DEF DeliveryInv, LiveInv
<1>4. /\ got' = [got EXCEPT ![f] = Append(@, log[n])] /\ fpc' = [fpc EXCEPT ![f] = "scan"]
  BY <1>3 DEF Receive, Move
<1>5. /\ got'[f] = Append(got[f], log[n]) /\ fpc'[f] = "scan"
      /\ \A h \in Followers \ {f} : fpc'[h] = fpc[h] /\ got'[h] = got[h]
  BY <1>2, <1>4 DEF TypeOK
<1>6. Matching(f, from[f], n) = Append(Matching(f, from[f], n - 1), log[n])
  <2> HIDE DEF n
  <2> QED BY <1>2, MatchingNext
<1>7. FollowerGot'
  <2>1. off'[f] - 1 = n /\ from'[f] = from[f] /\ from[f] <= off[f]
    BY <1>1, <1>2
  <2> HIDE DEF n
  <2> QED BY <1>1, <1>2, <1>5, <1>6, <2>1, FollowerGotFrame
<1>8. Delivery!Deliver(f)
  <2>1. f \in Readers /\ Placed[f] = from[f] /\ Handed[f] = got[f]
    BY DEF Placed, Handed, Readers
  <2>2. Handed' = [Handed EXCEPT ![f] = Append(@, log[n])]
    BY <1>1, <1>2, <1>4, <2>1 DEF Handed, Readers, iterVars, TypeOK
  <2>3. Placed' = Placed
    BY <1>1 DEF Placed, iterVars
  <2>4. Delivery!Asked(f, n - 1) = Matching(f, from[f], n - 1)
    BY <2>1 DEF Delivery!Asked, Matching, Delivery!Select, Select
  <2>5. n \in Placed[f] .. Len(log)
    BY <1>2, <2>1
  <2>6. \E m \in Placed[f] .. Len(log) :
           /\ log[m] \in Filter[f]
           /\ Handed[f] = Delivery!Asked(f, m - 1)
           /\ Handed' = [Handed EXCEPT ![f] = Append(@, log[m])]
    <3> HIDE DEF n
    <3> QED BY <1>2, <2>1, <2>2, <2>4, <2>5
  <2>7. Placed[f] > 0
    BY <1>2, <2>1
  <2> QED BY <1>1, <2>3, <2>6, <2>7 DEF Delivery!Deliver
<1> QED BY <1>1, <1>7, <1>8, IteratorGotKept

\* A canceled follower drops the frame it was sending.
LEMMA GiveUpDrops ==
    ASSUME DeliveryInv, NEW f \in Followers, GiveUpSend(f)
    PROVE  FollowerGot' /\ IteratorGot' /\ UNCHANGED Delivery!vars
<1>1. /\ UNCHANGED <<log, off, from, got, canceled, iterVars>> /\ fpc[f] = "send"
      /\ canceled[f] /\ fpc' = [fpc EXCEPT ![f] = "done"]
  BY DEF GiveUpSend, shared, At, Return, Move
<1>2. fpc'[f] = "done" /\ \A h \in Followers \ {f} : fpc'[h] = fpc[h]
  BY <1>1 DEF DeliveryInv, LiveInv, TypeOK
<1>3. /\ from[f] >= 1 /\ from[f] <= off[f] /\ from[f] < off[f]
      /\ got[f] = Matching(f, from[f], off[f] - 2) /\ log[off[f] - 1] \in Filter[f]
  BY <1>1 DEF DeliveryInv, LiveInv, FollowerInv, FollowerGot
<1>4. FollowerGot'
  BY <1>1, <1>2, <1>3, FollowerGotFrame
<1>5. UNCHANGED Delivery!vars
  BY <1>1 DEF Delivery!vars, Placed, Handed, iterVars
<1> QED BY <1>1, <1>4, <1>5, IteratorGotKept

\* What a step of iterator i has to show of IteratorGot.
LEMMA IteratorGotFrame ==
    ASSUME DeliveryInv, NEW i \in Iterators, log' = log,
           \A j \in Iterators \ {i} : /\ ipc'[j] = ipc[j] /\ ioff'[j] = ioff[j]
                                     /\ ifrom'[j] = ifrom[j] /\ igot'[j] = igot[j],
           ipc'[i] \in {"new", "seek"} => ifrom'[i] = 0 /\ igot'[i] = <<>>,
           ipc'[i] \in {"idle", "read"} =>
              /\ ifrom'[i] >= 1 /\ ifrom'[i] <= ioff'[i]
              /\ igot'[i] = Matching(i, ifrom'[i], ioff'[i] - 1)
    PROVE  IteratorGot'
<1> SUFFICES ASSUME NEW j \in Iterators
             PROVE  /\ ipc'[j] \in {"new", "seek"} => ifrom'[j] = 0 /\ igot'[j] = <<>>
                    /\ ipc'[j] \in {"idle", "read"} =>
                          /\ ifrom'[j] >= 1 /\ ifrom'[j] <= ioff'[j]
                          /\ igot'[j] = Matching(j, ifrom'[j], ioff'[j] - 1)
  BY DEF IteratorGot, Matching
<1>1. CASE j = i
  BY <1>1
<1>2. CASE j # i
  BY <1>2 DEF DeliveryInv, IteratorGot
<1> QED BY <1>1, <1>2

LEMMA FollowerGotKept ==
    ASSUME DeliveryInv, UNCHANGED <<log, followerVars, ctxVars>>
    PROVE  FollowerGot'
BY DEF DeliveryInv, FollowerGot, Matching, followerVars, ctxVars

\* Loading the committed size, before the index lookup or before a read.
LEMMA IteratorLoads ==
    ASSUME DeliveryInv, NEW i \in Iterators, NewIterator(i) \/ NextLoad(i)
    PROVE  FollowerGot' /\ IteratorGot' /\ UNCHANGED Delivery!vars
<1>1. UNCHANGED <<log, followerVars, ctxVars, ifrom, igot>>
  BY DEF NewIterator, NextLoad, shared
<1>2. TypeOK
  BY DEF DeliveryInv, LiveInv
<1>3. \A j \in Iterators \ {i} : ipc'[j] = ipc[j] /\ ioff'[j] = ioff[j]
  BY <1>2 DEF NewIterator, NextLoad, TypeOK
<1>4. \/ ipc[i] = "new" /\ ipc'[i] = "seek"
      \/ ipc[i] = "idle" /\ ipc'[i] = "read" /\ ioff' = ioff
  BY <1>2 DEF NewIterator, NextLoad, TypeOK
<1>5. /\ ipc'[i] \in {"new", "seek"} => ifrom'[i] = 0 /\ igot'[i] = <<>>
      /\ ipc'[i] \in {"idle", "read"} =>
            /\ ifrom'[i] >= 1 /\ ifrom'[i] <= ioff'[i]
            /\ igot'[i] = Matching(i, ifrom'[i], ioff'[i] - 1)
  BY <1>1, <1>4 DEF DeliveryInv, IteratorGot
<1>6. IteratorGot'
  BY <1>1, <1>3, <1>5, IteratorGotFrame
<1>7. UNCHANGED Delivery!vars
  BY <1>1 DEF Delivery!vars, Placed, Handed, followerVars
<1> QED BY <1>1, <1>6, <1>7, FollowerGotKept

\* The lookup places the iterator at or before the committed size it loaded.
LEMMA SeekJoins ==
    ASSUME DeliveryInv, NEW i \in Iterators, SeekIndex(i)
    PROVE  FollowerGot' /\ IteratorGot' /\ Delivery!Join(i)
<1>1. UNCHANGED <<log, followerVars, ctxVars, igot>> /\ ipc[i] = "seek"
  BY DEF SeekIndex, shared
<1>2. TypeOK /\ Len(log) \in Nat
  BY LenProperties DEF DeliveryInv, LiveInv, TypeOK
<1>3. PICK p \in idx \cup {Start} :
         LET at == IF p < ioff[i] THEN p ELSE ioff[i]
         IN  /\ ioff' = [ioff EXCEPT ![i] = at]
             /\ ifrom' = [ifrom EXCEPT ![i] = at]
  BY DEF SeekIndex
<1> DEFINE at == IF p < ioff[i] THEN p ELSE ioff[i]
<1>4. at \in Nat /\ at >= 1 /\ at <= Len(log) + 1
  <2>1. p \in Nat /\ p >= 1
    BY LenProperties, <1>2 DEF TypeOK, Start
  <2>2. ioff[i] \in Nat /\ ioff[i] >= 1 /\ ioff[i] <= Len(log) + 1
    BY <1>1, <1>2 DEF TypeOK, DeliveryInv, LiveInv, IteratorInv, Committed
  <2> QED BY <1>2, <2>1, <2>2
<1>5. /\ ioff' = [ioff EXCEPT ![i] = at] /\ ifrom' = [ifrom EXCEPT ![i] = at]
      /\ ipc' = [ipc EXCEPT ![i] = "idle"]
  BY <1>3 DEF SeekIndex
<1> HIDE DEF at
<1>6. /\ ioff'[i] = at /\ ifrom'[i] = at /\ ipc'[i] = "idle"
      /\ \A j \in Iterators \ {i} : /\ ipc'[j] = ipc[j] /\ ioff'[j] = ioff[j]
                                    /\ ifrom'[j] = ifrom[j]
  BY <1>2, <1>5 DEF TypeOK
<1>7. ifrom[i] = 0 /\ igot[i] = <<>>
  BY <1>1 DEF DeliveryInv, IteratorGot
<1>8. Matching(i, at, at - 1) = <<>>
  BY <1>4, MatchingNothing
<1>9. IteratorGot'
  BY <1>1, <1>4, <1>6, <1>7, <1>8, IteratorGotFrame
<1>10. Delivery!Join(i)
  <2>1. i \in Readers /\ i \notin Followers
    BY LiveAssumption DEF Readers
  <2>2. Placed[i] = 0
    BY <1>7, <2>1 DEF Placed
  <2>3. at \in 1 .. Len(log) + 1
    BY <1>2, <1>4
  <2>4. Placed' = [Placed EXCEPT ![i] = at]
    BY <1>1, <1>2, <1>5, <2>1 DEF Placed, Readers, followerVars, TypeOK
  <2>5. Handed' = Handed
    BY <1>1 DEF Handed, followerVars
  <2> QED BY <1>1, <2>2, <2>3, <2>4, <2>5 DEF Delivery!Join
<1> QED BY <1>1, <1>9, <1>10, FollowerGotKept

\* Next returns the chunk if the caller asked for its track, or passes it.
LEMMA NextReadDelivers ==
    ASSUME DeliveryInv, NEW i \in Iterators, NextRead(i)
    PROVE  FollowerGot' /\ IteratorGot' /\ (Delivery!Deliver(i) \/ UNCHANGED Delivery!vars)
<1> DEFINE n == ioff[i]
<1>1. UNCHANGED <<log, followerVars, ctxVars, ifrom>> /\ ipc[i] = "read"
  BY DEF NextRead, shared
<1>2. /\ TypeOK /\ n \in Nat /\ n >= 1 /\ n <= Len(log) /\ ifrom[i] \in Nat
      /\ ifrom[i] >= 1 /\ ifrom[i] <= n /\ Len(log) \in Nat
      /\ igot[i] = Matching(i, ifrom[i], n - 1)
  <2>1. TypeOK /\ n \in Nat /\ ifrom[i] \in Nat /\ Len(log) \in Nat
    BY LenProperties DEF DeliveryInv, LiveInv, TypeOK
  <2>2. n >= 1 /\ n <= Len(log)
    BY <1>1 DEF DeliveryInv, LiveInv, IteratorInv
  <2>3. ifrom[i] >= 1 /\ ifrom[i] <= n /\ igot[i] = Matching(i, ifrom[i], n - 1)
    BY <1>1 DEF DeliveryInv, IteratorGot
  <2> QED BY <2>1, <2>2, <2>3
<1>3. disk[n] = log[n] /\ disk[n] # Torn
  BY <1>2, CommittedReads DEF DeliveryInv, LiveInv
<1>4. /\ ioff' = [ioff EXCEPT ![i] = n + 1] /\ ipc' = [ipc EXCEPT ![i] = "idle"]
      /\ igot' = IF log[n] \in Filter[i] THEN [igot EXCEPT ![i] = Append(@, log[n])]
                 ELSE igot
  BY <1>3 DEF NextRead
<1>5. /\ ioff'[i] = n + 1 /\ ipc'[i] = "idle"
      /\ igot'[i] = IF log[n] \in Filter[i] THEN Append(igot[i], log[n]) ELSE igot[i]
      /\ \A j \in Iterators \ {i} : /\ ipc'[j] = ipc[j] /\ ioff'[j] = ioff[j]
                                    /\ igot'[j] = igot[j]
  BY <1>2, <1>4 DEF TypeOK
<1>6. Matching(i, ifrom[i], n) =
          IF log[n] \in Filter[i] THEN Append(Matching(i, ifrom[i], n - 1), log[n])
          ELSE Matching(i, ifrom[i], n - 1)
  BY <1>2, MatchingNext
<1>7. IteratorGot'
  <2>1. ioff'[i] - 1 = n /\ ifrom'[i] = ifrom[i] /\ ifrom'[i] >= 1 /\ ifrom'[i] <= ioff'[i]
    BY <1>1, <1>2, <1>5
  <2>2. igot'[i] = Matching(i, ifrom'[i], ioff'[i] - 1)
    <3> HIDE DEF n
    <3> QED BY <1>2, <1>5, <1>6, <2>1
  <2> HIDE DEF n
  <2> QED BY <1>1, <1>5, <2>1, <2>2, IteratorGotFrame
<1>8. Delivery!Deliver(i) \/ UNCHANGED Delivery!vars
  <2>1. /\ i \in Readers /\ i \notin Followers /\ Placed[i] = ifrom[i] /\ Handed[i] = igot[i]
    BY LiveAssumption DEF Placed, Handed, Readers
  <2>2. Placed' = Placed
    BY <1>1 DEF Placed, followerVars
  <2>3. CASE log[n] \notin Filter[i]
    <3>1. igot' = igot
      BY <1>4, <2>3
    <3> QED BY <1>1, <2>2, <3>1 DEF Delivery!vars, Handed, followerVars
  <2>4. CASE log[n] \in Filter[i]
    <3>1. Handed' = [Handed EXCEPT ![i] = Append(@, log[n])]
      BY <1>1, <1>2, <1>4, <2>1, <2>4 DEF Handed, Readers, followerVars, TypeOK
    <3>2. Delivery!Asked(i, n - 1) = Matching(i, ifrom[i], n - 1)
      BY <2>1 DEF Delivery!Asked, Matching, Delivery!Select, Select
    <3>3. n \in Placed[i] .. Len(log) /\ Placed[i] > 0
      BY <1>2, <2>1
    <3>4. \E m \in Placed[i] .. Len(log) :
             /\ log[m] \in Filter[i]
             /\ Handed[i] = Delivery!Asked(i, m - 1)
             /\ Handed' = [Handed EXCEPT ![i] = Append(@, log[m])]
      <4> HIDE DEF n
      <4> QED BY <1>2, <2>1, <2>4, <3>1, <3>2, <3>3
    <3> QED BY <1>1, <2>2, <3>3, <3>4 DEF Delivery!Deliver
  <2> QED BY <2>3, <2>4
<1> QED BY <1>1, <1>7, <1>8, FollowerGotKept

\* Every step keeps what readers were handed exact, and is a step of LogTail or
\* invisible to it.
LEMMA NextDelivers ==
    ASSUME DeliveryInv, [Next]_vars
    PROVE  DeliveryInv' /\ [Delivery!Next]_(Delivery!vars)
<1>1. LiveInv'
  BY NextLiveInv DEF DeliveryInv
<1> SUFFICES FollowerGot' /\ IteratorGot' /\ (Delivery!Next \/ UNCHANGED Delivery!vars)
  BY <1>1 DEF DeliveryInv
<1>2. TypeOK
  BY DEF DeliveryInv, LiveInv
<1>3. CASE \/ Call \/ BeginWrite \/ EndWrite \/ AddToIndex \/ MaybeCheckpoint \/ WriteTrailer
           \/ Sync \/ SetClosed \/ Unlock \/ UNCHANGED vars
  <2>1. UNCHANGED <<log, followerVars, ctxVars, iterVars>>
    BY <1>3 DEF Call, StartCall, BeginWrite, EndWrite, AddToIndex, MaybeCheckpoint, WriteTrailer,
                Sync, SetClosed, Unlock, vars
  <2>2. UNCHANGED <<log, off, from, got, fpc, canceled, iterVars>>
    BY <2>1 DEF followerVars, ctxVars
  <2> QED BY <2>2, HandsOverNothing
<1>4. CASE Wake \/ WakeClosed \/ \E f \in Followers : AfterFunc(f)
  <2>1. UNCHANGED <<log, off, from, got, canceled, iterVars>> /\ Broadcast
    BY <1>4 DEF Wake, WakeClosed, AfterFunc, shared, ctxVars
  <2>2. \A h \in Followers :
           fpc'[h] = fpc[h] \/ (fpc[h] = "waiting" /\ fpc'[h] = "woken")
    BY <2>1 DEF Broadcast
  <2> QED BY <2>1, <2>2, HandsOverNothing
<1>5. CASE StoreCommitted
  BY <1>5, StoreCommits DEF Delivery!Next
<1>6. ASSUME NEW f \in Followers,
             \/ Register(f) \/ LoadLimit(f) \/ Lock(f) \/ MustWaitNow(f) \/ Wait(f) \/ Proceed(f)
             \/ Decide(f) \/ Cancel(f)
      PROVE  FollowerGot' /\ IteratorGot' /\ UNCHANGED Delivery!vars
  <2>1. UNCHANGED <<log, off, from, got, iterVars>>
    BY <1>6 DEF Register, LoadLimit, Lock, MustWaitNow, Wait, Proceed, Decide, Cancel, shared,
                followerVars
  <2>2. \A h \in Followers : canceled[h] => canceled'[h]
    <3>1. canceled' = canceled \/ canceled' = [canceled EXCEPT ![f] = TRUE]
      BY <1>6 DEF Register, LoadLimit, Lock, MustWaitNow, Wait, Proceed, Decide, Cancel, ctxVars
    <3> QED BY <1>2, <3>1, Zenon DEF TypeOK
  <2>3. \/ fpc' = fpc
        \/ /\ fpc[f] \notin {"new", "send", "done"}
           /\ \E label \in FollowerPC \ {"new", "send"} : fpc' = [fpc EXCEPT ![f] = label]
    BY <1>6 DEF Register, LoadLimit, Lock, MustWaitNow, Wait, Proceed, Decide, Cancel, At,
                Move, Return, followerVars, FollowerPC
  <2>4. \A h \in Followers :
           \/ fpc'[h] = fpc[h]
           \/ fpc[h] \notin {"new", "send", "done"} /\ fpc'[h] \notin {"new", "send"}
    BY <1>2, <2>3 DEF TypeOK
  <2> QED BY <2>1, <2>2, <2>4, HandsOverNothing
<1>7. ASSUME NEW f \in Followers,
             Follow(f) \/ ReadNext(f) \/ Receive(f) \/ GiveUpSend(f)
      PROVE  FollowerGot' /\ IteratorGot' /\ (Delivery!Next \/ UNCHANGED Delivery!vars)
  <2>1. f \in Readers
    BY DEF Readers
  <2> QED BY <1>7, <2>1, FollowJoins, ReadNextAdvances, ReceiveDelivers, GiveUpDrops
          DEF Delivery!Next
<1>8. ASSUME NEW i \in Iterators, IteratorStep(i)
      PROVE  FollowerGot' /\ IteratorGot' /\ (Delivery!Next \/ UNCHANGED Delivery!vars)
  <2>1. i \in Readers
    BY DEF Readers
  <2> QED BY <1>8, <2>1, IteratorLoads, SeekJoins, NextReadDelivers
          DEF Delivery!Next, IteratorStep
<1> QED BY <1>3, <1>4, <1>5, <1>6, <1>7, <1>8 DEF Next, CallStep, FollowerStep

\* Both sides begin with nothing delivered.
LEMMA InitDelivers ==
    ASSUME Init
    PROVE  DeliveryInv /\ Delivery!Init
<1>1. LiveInv
  BY InitLiveInv
<1>2. FollowerGot
  BY DEF Init, FollowerGot
<1>3. IteratorGot
  BY DEF Init, IteratorGot
<1>4. Delivery!Init
  BY DEF Init, Delivery!Init, Placed, Handed, Readers
<1> QED BY <1>1, <1>2, <1>3, <1>4 DEF DeliveryInv

\* The delivery invariant holds throughout.
LEMMA DeliveryInvHolds == Spec => []DeliveryInv
<1>1. Init => DeliveryInv
  BY InitDelivers
<1>2. DeliveryInv /\ [Next]_vars => DeliveryInv'
  BY NextDelivers
<1> QED BY <1>1, <1>2, PTL DEF Spec

\* A sequence is a prefix of itself with one more element.
LEMMA PrefixOfAppend ==
    ASSUME NEW S, NEW s \in Seq(S), NEW x \in S
    PROVE  IsPrefix(s, Append(s, x))
<1>1. Len(s) \in Nat /\ Len(Append(s, x)) = Len(s) + 1
  BY LenProperties, AppendProperties
<1>2. SubSeq(Append(s, x), 1, Len(s)) = SubSeq(s, 1, Len(s))
  BY <1>1, RangeOfAppend
<1> QED BY <1>1, <1>2 DEF IsPrefix

\* Whatever writer and other readers do meanwhile, a follower has received
\* exactly the frames of its tracks committed since Follow, in commit order, up
\* to its offset (Follow and follow, iterator.go:73-153).
THEOREM FollowersReceiveExactly == Spec => []FollowerExact
<1>1. ASSUME DeliveryInv PROVE FollowerExact
  <2> SUFFICES ASSUME NEW f \in Followers, fpc[f] # "new"
               PROVE  LET all == Matching(f, from[f], off[f] - 1)
                      IN  CASE fpc[f] = "send" -> Append(got[f], log[off[f] - 1]) = all
                            [] fpc[f] = "done" /\ canceled[f] -> IsPrefix(got[f], all)
                            [] OTHER -> got[f] = all
    BY DEF FollowerExact
  <2> DEFINE n == off[f] - 1
             all == Matching(f, from[f], n)
  <2>1. /\ TypeOK /\ Len(log) \in Nat /\ off[f] \in Nat /\ from[f] \in Nat /\ from[f] >= 1
        /\ off[f] <= Len(log) + 1 /\ n - 1 = off[f] - 2 /\ got[f] \in Seq(Tracks)
    BY <1>1, LenProperties, SMTT(30) DEF DeliveryInv, LiveInv, FollowerInv, FollowerGot, TypeOK, Committed
  <2>2. from[f] < off[f] /\ log[n] \in Filter[f] =>
           /\ all = Append(Matching(f, from[f], n - 1), log[n])
           /\ log[n] \in Tracks
    <3> SUFFICES ASSUME from[f] < off[f], log[n] \in Filter[f]
                 PROVE  /\ all = Append(Matching(f, from[f], n - 1), log[n])
                        /\ log[n] \in Tracks
      OBVIOUS
    <3>1. n \in Nat /\ from[f] <= n /\ n <= Len(log)
      BY <2>1
    <3>2. log[n] \in Tracks
      BY LiveAssumption
    <3> HIDE DEF n
    <3> QED BY <2>1, <3>1, <3>2, MatchingNext
  <2>3. CASE fpc[f] = "send"
    <3>1. /\ from[f] < off[f] /\ log[n] \in Filter[f]
          /\ got[f] = Matching(f, from[f], n - 1)
      BY <1>1, <2>1, <2>3 DEF DeliveryInv, LiveInv, FollowerInv, FollowerGot
    <3> QED BY <2>2, <2>3, <3>1
  <2>4. CASE fpc[f] # "send" /\ got[f] = all
    <3>1. IsPrefix(got[f], all)
      BY <2>1, <2>4, LenProperties DEF IsPrefix
    <3> QED BY <2>4, <3>1
  <2>5. CASE /\ fpc[f] = "done" /\ canceled[f] /\ from[f] < off[f] /\ log[n] \in Filter[f]
             /\ got[f] = Matching(f, from[f], n - 1)
    <3>1. all = Append(got[f], log[n]) /\ log[n] \in Tracks
      BY <2>2, <2>5
    <3>2. IsPrefix(got[f], all)
      BY <2>1, <3>1, PrefixOfAppend
    <3> QED BY <2>5, <3>2
  <2> QED BY <1>1, <2>1, <2>3, <2>4, <2>5 DEF DeliveryInv, FollowerGot
<1> QED BY <1>1, DeliveryInvHolds, PTL

\* A live iterator returns, from where the lookup placed it, exactly the committed
\* frames of its tracks in order, and never fails (Iterator.Next, iterator.go:18-56).
THEOREM IteratorsReturnExactly == Spec => []IteratorExact
<1>1. DeliveryInv => IteratorExact
  BY DEF DeliveryInv, LiveInv, IteratorInv, IteratorGot, IteratorExact
<1> QED BY <1>1, DeliveryInvHolds, PTL

\* The writer's appends, the torn bytes behind its committed size, the wake-ups
\* and the two kinds of reader implement the tail of an append-only log.
THEOREM LiveImplementsLogTail == Spec => ImplementsLogTail
<1>1. Init => Delivery!Init
  BY InitDelivers
<1>2. DeliveryInv /\ [Next]_vars => [Delivery!Next]_(Delivery!vars)
  BY NextDelivers
<1> QED BY <1>1, <1>2, DeliveryInvHolds, PTL DEF Spec, ImplementsLogTail, Delivery!Spec
=============================================================================
