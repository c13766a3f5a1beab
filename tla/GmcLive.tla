------------------------------ MODULE GmcLive ------------------------------
(***************************************************************************)
(* A Writer and the live readers that share its committed size, its index  *)
(* and its condition variable: Reader.Follow goroutines and iterators made *)
(* by ReadInterleaved / SeekPTS.  GmcWriter takes a Writer call as one     *)
(* step; here a call is the sequence of its steps that readers can observe *)
(* without w.mu: WriteAt, the store of committed, Broadcast, idx.add.      *)
(*                                                                         *)
(* A chunk is the track of a data chunk or Meta (track info, checkpoint,   *)
(* footer).  disk[i] is what ReadAt finds at the i-th chunk position: a    *)
(* chunk, or Torn while a write is under way, after one failed, and where  *)
(* the trailer starts.  `log` is the committed prefix; the atomic counter  *)
(* w.committed is Len(log) + 1.                                            *)
(***************************************************************************)
EXTENDS Integers, Sequences, FiniteSets, SequencesExt, Select

CONSTANTS Tracks, Meta, Torn, None,
          Followers,   \* goroutines running follow
          Iterators,   \* iterators over the live reader
          Filter,      \* the track filter of every follower and iterator
          MaxChunks    \* bound: positions that may be written

ASSUME LiveAssumption ==
    /\ Meta \notin Tracks /\ Torn \notin Tracks /\ Meta # Torn
    /\ Followers \cap Iterators = {}
    /\ Filter \in [Followers \cup Iterators -> SUBSET Tracks]
    /\ MaxChunks \in Nat

VARIABLES
    disk, log,     \* file positions, and the committed prefix of them
    idx,           \* positions in w.idx
    closed, mu,    \* w.closed, and who holds w.mu
    wpc, call, chunk,      \* the Writer call under way and the chunk it appends
    fpc, off, limit, from, got, sawClosed,   \* followers
    canceled, afterFunc,                     \* their contexts
    ipc, ioff, ilimit, ifrom, igot           \* iterators

writerVars   == <<wpc, call, chunk>>
followerVars == <<fpc, off, limit, from, got, sawClosed>>
ctxVars      == <<canceled, afterFunc>>
iterVars     == <<ipc, ioff, ilimit, ifrom, igot>>
vars == <<disk, log, idx, closed, mu, writerVars, followerVars, ctxVars, iterVars>>

Chunk     == Tracks \cup {Meta}
Committed == Len(log) + 1
Start     == 1                                   \* streamStart

WriterPC   == {"idle", "append", "writing", "store", "wake", "index", "checkpoint",
               "trailer", "sync", "close", "wakeClosed", "unlock"}
FollowerPC == {"new", "spawned", "load", "scan", "send", "lock", "check", "wait", "waiting", "woken",
               "unlocked", "done"}
IteratorPC == {"new", "seek", "idle", "read", "failed"}

Init ==
    /\ disk = <<>> /\ log = <<>> /\ idx = {}
    /\ closed = FALSE /\ mu = None
    /\ wpc = "idle" /\ call = None /\ chunk = Meta
    /\ fpc = [f \in Followers |-> "new"]
    /\ off = [f \in Followers |-> 0] /\ limit = [f \in Followers |-> 0]
    /\ from = [f \in Followers |-> 0] /\ got = [f \in Followers |-> <<>>]
    /\ sawClosed = [f \in Followers |-> FALSE]
    /\ canceled = [f \in Followers |-> FALSE]
    /\ afterFunc = [f \in Followers |-> "none"]
    /\ ipc = [i \in Iterators |-> "new"]
    /\ ioff = [i \in Iterators |-> 0] /\ ilimit = [i \in Iterators |-> 0]
    /\ ifrom = [i \in Iterators |-> 0] /\ igot = [i \in Iterators |-> <<>>]

-----------------------------------------------------------------------------
(* The Writer.                                                             *)

Goto(label) == wpc' = label

\* AddTrack, WriteFrame, Finalize and Close take w.mu and return at once when
\* the writer is closed.
StartCall(op, c) ==
    /\ wpc = "idle" /\ mu = None /\ ~closed
    /\ op = "close" \/ Len(log) < MaxChunks
    /\ mu' = "writer" /\ call' = op /\ chunk' = c
    /\ Goto(IF op = "close" THEN "close" ELSE "append")
    /\ UNCHANGED <<disk, log, idx, closed, followerVars, ctxVars, iterVars>>

Call == \/ \E t \in Tracks : StartCall("frame", t)
        \/ \E op \in {"track", "finalize", "close"} : StartCall(op, Meta)

AtCommitted(c) == disk' = Append(SubSeq(disk, 1, Len(log)), c)

\* appendChunkLocked: WriteAt begins; it completes or fails; the new size is
\* stored; followers are woken.
BeginWrite ==
    /\ wpc = "append" /\ AtCommitted(Torn) /\ Goto("writing")
    /\ UNCHANGED <<log, idx, closed, mu, call, chunk, followerVars, ctxVars, iterVars>>

\* Mutant: the error of WriteAt is ignored.
EndWriteUnchecked ==
    /\ wpc = "writing" /\ Goto("store")
    /\ AtCommitted(chunk) \/ UNCHANGED disk
    /\ UNCHANGED <<log, idx, closed, mu, call, chunk, followerVars, ctxVars, iterVars>>

EndWrite ==
    /\ wpc = "writing"
    /\ \/ AtCommitted(chunk) /\ Goto("store")
       \/ UNCHANGED disk /\ Goto("unlock")
    /\ UNCHANGED <<log, idx, closed, mu, call, chunk, followerVars, ctxVars, iterVars>>

StoreCommitted ==
    /\ wpc = "store" /\ log' = Append(log, chunk) /\ Goto("wake")
    /\ UNCHANGED <<disk, idx, closed, mu, call, chunk, followerVars, ctxVars, iterVars>>

\* sync.Cond.Broadcast: every waiting follower must now reacquire w.mu.
Broadcast == fpc' = [f \in Followers |-> IF fpc[f] = "waiting" THEN "woken" ELSE fpc[f]]

AfterAppend ==
    CASE call = "frame"    -> {"index", "checkpoint"}   \* a keyframe, or not
      [] call = "finalize" -> {"trailer"}
      [] OTHER             -> {"unlock"}

\* Mutant: no Broadcast after the store.
WakeNobody ==
    /\ wpc = "wake" /\ UNCHANGED fpc
    /\ \E label \in AfterAppend : Goto(label)
    /\ UNCHANGED <<disk, log, idx, closed, mu, call, chunk,
                   off, limit, from, got, sawClosed, ctxVars, iterVars>>

Wake ==
    /\ wpc = "wake" /\ Broadcast
    /\ \E label \in AfterAppend : Goto(label)
    /\ UNCHANGED <<disk, log, idx, closed, mu, call, chunk,
                   off, limit, from, got, sawClosed, ctxVars, iterVars>>

\* Mutant: the offset is loaded after the append.
AddToIndexLate ==
    /\ wpc = "index" /\ idx' = idx \cup {Committed} /\ Goto("checkpoint")
    /\ UNCHANGED <<disk, log, closed, mu, call, chunk, followerVars, ctxVars, iterVars>>

\* WriteFrame adds the offset it loaded before the append.
AddToIndex ==
    /\ wpc = "index" /\ idx' = idx \cup {Len(log)} /\ Goto("checkpoint")
    /\ UNCHANGED <<disk, log, closed, mu, call, chunk, followerVars, ctxVars, iterVars>>

\* maybeCheckpointLocked: not due or nothing pending, or one more append.
MaybeCheckpoint ==
    /\ wpc = "checkpoint"
    /\ \/ Goto("unlock") /\ UNCHANGED <<call, chunk>>
       \/ /\ Len(log) < MaxChunks
          /\ Goto("append") /\ call' = "checkpoint" /\ chunk' = Meta
    /\ UNCHANGED <<disk, log, idx, closed, mu, followerVars, ctxVars, iterVars>>

\* Finalize after its footer: the trailer, then Sync; each may fail.
WriteTrailer ==
    /\ wpc = "trailer" /\ AtCommitted(Torn)
    /\ \E label \in {"sync", "unlock"} : Goto(label)
    /\ UNCHANGED <<log, idx, closed, mu, call, chunk, followerVars, ctxVars, iterVars>>

Sync ==
    /\ wpc = "sync"
    /\ \E label \in {"close", "unlock"} : Goto(label)
    /\ UNCHANGED <<disk, log, idx, closed, mu, call, chunk, followerVars, ctxVars, iterVars>>

SetClosed ==
    /\ wpc = "close" /\ closed' = TRUE /\ Goto("wakeClosed")
    /\ UNCHANGED <<disk, log, idx, mu, call, chunk, followerVars, ctxVars, iterVars>>

\* Mutant: Close does not wake the followers.
WakeClosedNobody ==
    /\ wpc = "wakeClosed" /\ UNCHANGED fpc /\ Goto("unlock")
    /\ UNCHANGED <<disk, log, idx, closed, mu, call, chunk,
                   off, limit, from, got, sawClosed, ctxVars, iterVars>>

WakeClosed ==
    /\ wpc = "wakeClosed" /\ Broadcast /\ Goto("unlock")
    /\ UNCHANGED <<disk, log, idx, closed, mu, call, chunk,
                   off, limit, from, got, sawClosed, ctxVars, iterVars>>

Unlock ==
    /\ wpc = "unlock" /\ Goto("idle") /\ mu' = None
    /\ UNCHANGED <<disk, log, idx, closed, call, chunk, followerVars, ctxVars, iterVars>>

\* The steps of a call under way; starting a call is up to the application.
CallStep == \/ BeginWrite \/ EndWrite \/ StoreCommitted \/ Wake \/ AddToIndex
            \/ MaybeCheckpoint \/ WriteTrailer \/ Sync \/ SetClosed \/ WakeClosed
            \/ Unlock

shared == <<disk, log, idx, closed, writerVars>>
-----------------------------------------------------------------------------
(* Follow and follow.                                                      *)

At(f, label) == fpc[f] = label
Move(f, label) == fpc' = [fpc EXCEPT ![f] = label]

\* Mutant: the start offset is left to the goroutine, which takes the stream start.
FollowFromStart(f) ==
    /\ At(f, "new") /\ Move(f, "spawned")
    /\ off' = [off EXCEPT ![f] = Start] /\ from' = [from EXCEPT ![f] = Committed]
    /\ UNCHANGED <<shared, mu, limit, got, sawClosed, ctxVars, iterVars>>

Follow(f) ==
    /\ At(f, "new") /\ Move(f, "spawned")
    /\ off' = [off EXCEPT ![f] = Committed] /\ from' = [from EXCEPT ![f] = Committed]
    /\ UNCHANGED <<shared, mu, limit, got, sawClosed, ctxVars, iterVars>>

\* context.AfterFunc: runs its function in a goroutine of its own, at once if
\* the context is already done.
Register(f) ==
    /\ At(f, "spawned") /\ Move(f, "load")
    /\ afterFunc' = [afterFunc EXCEPT ![f] = IF canceled[f] THEN "lock" ELSE "armed"]
    /\ UNCHANGED <<shared, mu, off, limit, from, got, sawClosed, canceled, iterVars>>

\* The deferred stop(), then close(ch).
Return(f) ==
    /\ Move(f, "done")
    /\ afterFunc' = [afterFunc EXCEPT ![f] = IF @ = "armed" THEN "stopped" ELSE @]

LoadLimit(f) ==
    /\ At(f, "load") /\ Move(f, "scan")
    /\ limit' = [limit EXCEPT ![f] = Committed]
    /\ UNCHANGED <<shared, mu, off, from, got, sawClosed, ctxVars, iterVars>>

\* readChunkAt on an offset below the loaded limit; an error ends the goroutine.
ReadNext(f) ==
    /\ At(f, "scan") /\ off[f] < limit[f]
    /\ \/ /\ disk[off[f]] = Torn /\ Return(f) /\ UNCHANGED off
       \/ /\ disk[off[f]] # Torn
          /\ off' = [off EXCEPT ![f] = @ + 1]
          /\ Move(f, IF disk[off[f]] \in Filter[f] THEN "send" ELSE "scan")
          /\ UNCHANGED afterFunc
    /\ UNCHANGED <<shared, mu, limit, from, got, sawClosed, canceled, iterVars>>

\* select: the consumer receives the frame, or the context is done.
Receive(f) ==
    /\ At(f, "send") /\ Move(f, "scan")
    /\ got' = [got EXCEPT ![f] = Append(@, disk[off[f] - 1])]
    /\ UNCHANGED <<shared, mu, off, limit, from, sawClosed, ctxVars, iterVars>>

GiveUpSend(f) ==
    /\ At(f, "send") /\ canceled[f] /\ Return(f)
    /\ UNCHANGED <<shared, mu, off, limit, from, got, sawClosed, canceled, iterVars>>

\* The scan reached the limit, or Wait returns: take w.mu.
Lock(f) ==
    /\ \/ At(f, "scan") /\ off[f] >= limit[f]
       \/ At(f, "woken")
    /\ mu = None /\ mu' = f
    /\ Move(f, "check")
    /\ UNCHANGED <<shared, off, limit, from, got, sawClosed, ctxVars, iterVars>>

MustWait(f) == Committed = off[f] /\ ~closed /\ ~canceled[f]

MustWaitNow(f) ==
    /\ At(f, "check") /\ MustWait(f) /\ Move(f, "wait")
    /\ UNCHANGED <<shared, mu, off, limit, from, got, sawClosed, ctxVars, iterVars>>

\* cond.Wait joins the wait set, then releases w.mu; a Broadcast holds w.mu, so
\* none can fall in between.
Wait(f) ==
    /\ At(f, "wait") /\ Move(f, "waiting")
    /\ mu' = None
    /\ UNCHANGED <<shared, off, limit, from, got, sawClosed, ctxVars, iterVars>>

Proceed(f) ==
    /\ At(f, "check") /\ ~MustWait(f) /\ Move(f, "unlocked")
    /\ sawClosed' = [sawClosed EXCEPT ![f] = closed]
    /\ mu' = None
    /\ UNCHANGED <<shared, off, limit, from, got, ctxVars, iterVars>>

\* Mutant: a closed writer ends the follower without a last look at committed.
DecideAtOnce(f) ==
    /\ At(f, "unlocked")
    /\ IF canceled[f] \/ closed
       THEN Return(f) ELSE Move(f, "load") /\ UNCHANGED afterFunc
    /\ UNCHANGED <<shared, mu, off, limit, from, got, sawClosed, canceled, iterVars>>

Decide(f) ==
    /\ At(f, "unlocked")
    /\ IF canceled[f] \/ (sawClosed[f] /\ Committed = off[f])
       THEN Return(f) ELSE Move(f, "load") /\ UNCHANGED afterFunc
    /\ UNCHANGED <<shared, mu, off, limit, from, got, sawClosed, canceled, iterVars>>

FollowerStep(f) == \/ Register(f) \/ LoadLimit(f) \/ ReadNext(f) \/ GiveUpSend(f)
                   \/ Lock(f) \/ MustWaitNow(f) \/ Wait(f) \/ Proceed(f)
                   \/ Decide(f)

\* The application cancels the context; a registered AfterFunc starts.
Cancel(f) ==
    /\ ~canceled[f]
    /\ canceled' = [canceled EXCEPT ![f] = TRUE]
    /\ afterFunc' = [afterFunc EXCEPT ![f] = IF @ = "armed" THEN "lock" ELSE @]
    /\ UNCHANGED <<shared, mu, followerVars, iterVars>>

\* Mutant: the function broadcasts without taking w.mu.
AfterFuncUnlocked(f) ==
    /\ afterFunc[f] = "lock"
    /\ Broadcast
    /\ afterFunc' = [afterFunc EXCEPT ![f] = "ran"]
    /\ UNCHANGED <<shared, mu, off, limit, from, got, sawClosed, canceled, iterVars>>

\* The function locks w.mu, broadcasts and unlocks.
AfterFunc(f) ==
    /\ afterFunc[f] = "lock" /\ mu = None
    /\ Broadcast
    /\ afterFunc' = [afterFunc EXCEPT ![f] = "ran"]
    /\ UNCHANGED <<shared, mu, off, limit, from, got, sawClosed, canceled, iterVars>>

-----------------------------------------------------------------------------
(* ReadInterleaved / SeekPTS, and Iterator.Next, on a live reader.         *)

\* start := committed, before any index lookup.
NewIterator(i) ==
    /\ ipc[i] = "new" /\ ipc' = [ipc EXCEPT ![i] = "seek"]
    /\ ioff' = [ioff EXCEPT ![i] = Committed]
    /\ UNCHANGED <<shared, mu, followerVars, ctxVars, ilimit, ifrom, igot>>

\* idx.seek finds a sync point that was indexed meanwhile, or none; which one
\* depends on the target pts.
SeekIndex(i) ==
    /\ ipc[i] = "seek" /\ ipc' = [ipc EXCEPT ![i] = "idle"]
    /\ \E p \in idx \cup {Start} :
          LET start == IF p < ioff[i] THEN p ELSE ioff[i]
          IN  /\ ioff' = [ioff EXCEPT ![i] = start]
              /\ ifrom' = [ifrom EXCEPT ![i] = start]
    /\ UNCHANGED <<shared, mu, followerVars, ctxVars, ilimit, igot>>

\* Next: the limit is loaded for each chunk; at the limit it returns false and
\* may be called again later.
NextLoad(i) ==
    /\ ipc[i] = "idle" /\ ioff[i] < Committed
    /\ ipc' = [ipc EXCEPT ![i] = "read"]
    /\ ilimit' = [ilimit EXCEPT ![i] = Committed]
    /\ UNCHANGED <<shared, mu, followerVars, ctxVars, ioff, ifrom, igot>>

\* Mutant: a chunk of another track is returned too.
NextReadUnfiltered(i) ==
    /\ ipc[i] = "read" /\ disk[ioff[i]] # Torn
    /\ ioff' = [ioff EXCEPT ![i] = @ + 1]
    /\ ipc' = [ipc EXCEPT ![i] = "idle"]
    /\ igot' = IF disk[ioff[i]] # Meta THEN [igot EXCEPT ![i] = Append(@, disk[ioff[i]])]
               ELSE igot
    /\ UNCHANGED <<shared, mu, followerVars, ctxVars, ilimit, ifrom>>

NextRead(i) ==
    /\ ipc[i] = "read"
    /\ LET c == disk[ioff[i]]
       IN  \/ /\ c = Torn /\ ipc' = [ipc EXCEPT ![i] = "failed"]
              /\ UNCHANGED <<ioff, igot>>
           \/ /\ c # Torn /\ ioff' = [ioff EXCEPT ![i] = @ + 1]
              /\ ipc' = [ipc EXCEPT ![i] = "idle"]
              /\ igot' = IF c \in Filter[i] THEN [igot EXCEPT ![i] = Append(@, c)]
                         ELSE igot
    /\ UNCHANGED <<shared, mu, followerVars, ctxVars, ilimit, ifrom>>

IteratorStep(i) == NewIterator(i) \/ SeekIndex(i) \/ NextLoad(i) \/ NextRead(i)

-----------------------------------------------------------------------------
Next ==
    \/ Call \/ CallStep
    \/ \E f \in Followers : \/ Follow(f) \/ FollowerStep(f) \/ Receive(f)
                            \/ Cancel(f) \/ AfterFunc(f)
    \/ \E i \in Iterators : IteratorStep(i)

\* Goroutines that can run do run, and a contended mutex is eventually granted
\* (sync.Mutex is starvation free).  Nobody has to start a call, to receive, to
\* cancel a context or to call Next.
Fairness ==
    /\ WF_vars(CallStep)
    /\ \A f \in Followers :
          /\ WF_vars(FollowerStep(f)) /\ SF_vars(Lock(f))
          /\ SF_vars(AfterFunc(f))

Spec == Init /\ [][Next]_vars /\ Fairness

-----------------------------------------------------------------------------
(* Correctness.                                                            *)

TypeOK ==
    /\ disk \in Seq(Chunk \cup {Torn}) /\ log \in Seq(Chunk)
    /\ idx \subseteq DOMAIN log /\ closed \in BOOLEAN
    /\ mu \in {None, "writer"} \cup Followers
    /\ wpc \in WriterPC /\ chunk \in Chunk
    /\ fpc \in [Followers -> FollowerPC]
    /\ off \in [Followers -> Nat] /\ limit \in [Followers -> Nat]
    /\ from \in [Followers -> Nat] /\ got \in [Followers -> Seq(Tracks)]
    /\ sawClosed \in [Followers -> BOOLEAN] /\ canceled \in [Followers -> BOOLEAN]
    /\ afterFunc \in [Followers -> {"none", "armed", "lock", "ran", "stopped"}]
    /\ ipc \in [Iterators -> IteratorPC]
    /\ ioff \in [Iterators -> Nat] /\ ilimit \in [Iterators -> Nat]
    /\ ifrom \in [Iterators -> Nat] /\ igot \in [Iterators -> Seq(Tracks)]

\* A committed chunk stays on disk as it was committed: later appends, failed
\* ones and the trailer only touch bytes past the committed size.
CommittedIntact == Len(disk) >= Len(log) /\ SubSeq(disk, 1, Len(log)) = log

\* The chunks from lo to hi that reader x asked for.
Matching(x, lo, hi) == Select(SubSeq(log, lo, hi), Filter[x])

\* A follower has received the frames of its tracks committed since Follow, each
\* once and in commit order; at most the one it is sending is outstanding, and
\* only a canceled context drops that one.
FollowerExact ==
    \A f \in Followers : fpc[f] # "new" =>
        LET all == Matching(f, from[f], off[f] - 1)
        IN  CASE fpc[f] = "send" -> Append(got[f], log[off[f] - 1]) = all
              [] fpc[f] = "done" /\ canceled[f] -> IsPrefix(got[f], all)
              [] OTHER -> got[f] = all

\* The channel closes only when the context is canceled or when the writer is
\* closed and everything committed has been read (Follow's contract,
\* iterator.go:75-77); in particular no torn chunk ever ends a follower.
FollowerEndsForAReason ==
    \A f \in Followers :
        fpc[f] = "done" => canceled[f] \/ (closed /\ off[f] = Committed)

\* A live iterator never sees a torn chunk and returns, from where it was placed,
\* exactly the committed frames of its tracks in order.
IteratorExact ==
    \A i \in Iterators :
        /\ ipc[i] # "failed"
        /\ ipc[i] \in {"idle", "read"} => igot[i] = Matching(i, ifrom[i], ioff[i] - 1)

\* The refinement: where every reader was placed and what it was handed.
Readers == Followers \cup Iterators
Placed  == [x \in Readers |-> IF x \in Followers THEN from[x] ELSE ifrom[x]]
Handed  == [x \in Readers |-> IF x \in Followers THEN got[x] ELSE igot[x]]

Delivery == INSTANCE LogTail WITH
    Value <- Chunk, Wanted <- Filter, start <- Placed, got <- Handed

\* Followers and iterators alike implement a tail of the committed log: whatever
\* torn bytes, failed appends and wake-ups happen below, each reader is handed
\* what it asked for in commit order from where it was placed (iterator.go:58-60,
\* 73-77), and a committed chunk is never taken back.
ImplementsLogTail == Delivery!Spec

\* A canceled follower ends, whether its consumer reads or not: no interleaving
\* of cancel and Wait loses the wake-up.
CancelEndsFollow ==
    \A f \in Followers : (canceled[f] /\ fpc[f] # "new") ~> (fpc[f] = "done")

\* A consumer that keeps receiving, which nothing in the code forces it to be.
Patient(f) == WF_vars(Receive(f))

\* Close and Finalize end every follower whose consumer keeps receiving.
CloseEndsFollow ==
    \A f \in Followers :
        Patient(f) => ((closed /\ fpc[f] # "new") ~> (fpc[f] = "done"))

\* Every committed chunk eventually reaches such a follower.
FollowerCatchesUp ==
    \A f \in Followers : Patient(f) =>
        \A n \in 1 .. MaxChunks :
            (fpc[f] # "new" /\ Len(log) >= n) ~> (off[f] > n \/ canceled[f])
=============================================================================
