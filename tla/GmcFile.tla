------------------------------ MODULE GmcFile ------------------------------
(***************************************************************************)
(* One GMC file from Create through crashes and power losses to Repair:    *)
(* what Sync, the footer and the trailer, the recovery scan and Repair     *)
(* promise about the frames in it.  Only one process writes at a time: the *)
(* Writer, which is never reopened, and after it any number of Repair runs *)
(* (repair.go), each of which may be cut off between two of its steps.     *)
(*                                                                         *)
(* `cells` is what ReadAt finds from streamStart to the end of the file, a *)
(* cell being a chunk, a trailer or Torn (bytes that fail their CRC).  A   *)
(* power loss keeps only what the medium holds: media[i] is the set of     *)
(* contents cell i may then have and sizes the set of lengths the file may *)
(* have, because unsynced pages reach the medium in any order.             *)
(***************************************************************************)
EXTENDS Integers, Sequences, SequencesExt, Select

CONSTANTS ReadErrors,      \* ReadAt may fail on good bytes
          MaxPowerLosses,  \* bound: power losses
          MaxFrames,       \* bound: frames the Writer appends
          MaxCells         \* bound: cells of the file

ASSUME FileAssumption ==
    /\ ReadErrors \in BOOLEAN /\ MaxPowerLosses \in Nat
    /\ MaxFrames \in Nat /\ MaxCells \in Nat

VARIABLES
    cells, media, sizes,   \* the file, and what a power loss may leave of it
    committed,             \* cells in the Writer's committed prefix
    written,               \* frames for which appendChunkLocked succeeded
    pc,                    \* where the writing process is
    found,                 \* Repair: the logical EOF and the frames of its scan
    repaired,              \* a Repair returned Repaired, and none was begun since
    safe,                  \* the frames read at the last sync
    powerLosses            \* power losses so far

file == <<cells, media, sizes>>
vars == <<cells, media, sizes, committed, written, pc, found, repaired, safe, powerLosses>>

Torn       == [type |-> "torn"]
Data(k)    == [type |-> "data", frame |-> k]
Footer(n)  == [type |-> "footer", frames |-> n]
Trailer(i) == [type |-> "trailer", off |-> i]

Positions == 1 .. MaxCells
Frames == {Data(k) : k \in 1..MaxFrames}
Cell == {Torn} \cup Frames
               \cup {Footer(n) : n \in 0..MaxFrames} \cup {Trailer(i) : i \in Positions}

WriterPC == {"write", "trailer", "sync"}
RepairPC == {"truncate", "footer", "repairTrailer", "repairSync"}
NotFound == [end |-> 0, frames |-> 0]

Init ==
    /\ cells = <<>> /\ media = [i \in Positions |-> {Torn}] /\ sizes = {0}
    /\ committed = 0 /\ written = 0
    /\ pc = "write" /\ found = NotFound
    /\ repaired = FALSE /\ safe = <<>> /\ powerLosses = 0

-----------------------------------------------------------------------------
(* Reading a file: readChunkAt, loadFooter, scan, Iterator.Next.           *)

IsChunk(c) == c.type \in {"data", "footer"}

\* Reader.scan: the logical EOF is before the first cell that is not a chunk.
ScanEnd(cs) ==
    CHOOSE n \in 0 .. Len(cs) : /\ \A i \in 1..n : IsChunk(cs[i])
                                /\ n < Len(cs) => ~IsChunk(cs[n + 1])

\* loadFooter succeeds.
FooterLoads(cs) ==
    LET n == Len(cs)
    IN  /\ n >= 2 /\ cs[n].type = "trailer"
        /\ cs[n].off = n - 1 /\ cs[n - 1].type = "footer"

\* The frames among the first n cells.
FramesIn(cs, n) == Select(SubSeq(cs, 1, n), Frames)

\* What an iterator over the opened file returns: up to committed, and up to the
\* first chunk that fails its CRC.
Readable(cs) == FramesIn(cs, ScanEnd(cs))

-----------------------------------------------------------------------------
(* Writing a file.                                                         *)

\* The cells after WriteAt of c behind the first n; a longer failed write may
\* still stick out behind it.
Written(n, c) == LET cs == Append(SubSeq(cells, 1, n), c)
                 IN  {cs} \cup (IF Len(cells) > n + 1 \/ (Len(cells) = n + 1 /\ cells[n + 1] = Torn)
                                THEN {Append(cs, Torn)} ELSE {})

SetCells(cs) ==
    /\ cells' = cs /\ Len(cs) <= MaxCells
    /\ media' = [i \in Positions |->
                    IF i > Len(cs) THEN media[i] \cup {Torn}
                    ELSE IF i <= Len(cells) /\ cs[i] = cells[i] THEN media[i]
                    ELSE media[i] \cup {Torn, cs[i]}]
    /\ sizes' = sizes \cup {Len(cs)}

WriteCell(n, c) == \E cs \in Written(n, c) : SetCells(cs)

\* WriteAt fails, or the process crashes in it: nothing or a part was written.
WriteFails(n) == UNCHANGED file \/ WriteCell(n, Torn)

Synced ==
    /\ media' = [i \in Positions |-> IF i <= Len(cells) THEN {cells[i]} ELSE {Torn}]
    /\ sizes' = {Len(cells)}
    /\ safe' = Readable(cells)
    /\ UNCHANGED cells

-----------------------------------------------------------------------------
(* The Writer.                                                             *)

\* Mutant: the error of WriteAt is dropped.
WriteFrameUnchecked ==
    /\ pc = "write" /\ written < MaxFrames
    /\ WriteCell(committed, Data(written + 1)) \/ WriteFails(committed)
    /\ committed' = committed + 1 /\ written' = written + 1
    /\ UNCHANGED <<pc, found, repaired, safe, powerLosses>>

WriteFrame ==
    /\ pc = "write" /\ written < MaxFrames
    /\ \/ /\ WriteCell(committed, Data(written + 1))
          /\ committed' = committed + 1 /\ written' = written + 1
       \/ WriteFails(committed) /\ UNCHANGED <<committed, written>>
    /\ UNCHANGED <<pc, found, repaired, safe, powerLosses>>

\* Writer.Sync; when it fails, nothing is known to be on the medium.
Sync ==
    /\ pc = "write" /\ Synced
    /\ UNCHANGED <<committed, written, pc, found, repaired, powerLosses>>

\* Mutant: the footer counts one frame too many.
FinalizeFooterPlusOne ==
    /\ pc = "write"
    /\ \/ /\ WriteCell(committed, Footer(written + 1))
          /\ committed' = committed + 1 /\ pc' = "trailer"
       \/ WriteFails(committed) /\ UNCHANGED <<committed, pc>>
    /\ UNCHANGED <<written, found, repaired, safe, powerLosses>>

\* Finalize: the footer is appended as a chunk, ...
FinalizeFooter ==
    /\ pc = "write"
    /\ \/ /\ WriteCell(committed, Footer(written))
          /\ committed' = committed + 1 /\ pc' = "trailer"
       \/ WriteFails(committed) /\ UNCHANGED <<committed, pc>>
    /\ UNCHANGED <<written, found, repaired, safe, powerLosses>>

\* ... the trailer is written behind it, ...
FinalizeTrailer ==
    /\ pc = "trailer"
    /\ \/ WriteCell(committed, Trailer(committed)) /\ pc' = "sync"
       \/ WriteFails(committed) /\ pc' = "write"
    /\ UNCHANGED <<committed, written, found, repaired, safe, powerLosses>>

\* ... and the file is synced; after an error the Writer is still open.
FinalizeSync ==
    /\ pc = "sync"
    /\ \/ Synced /\ pc' = "stopped"
       \/ UNCHANGED <<file, safe>> /\ pc' = "write"
    /\ UNCHANGED <<committed, written, found, repaired, powerLosses>>

\* Close, or a crash of the process, also of one that runs Repair.
Stop ==
    /\ pc # "stopped" /\ pc' = "stopped"
    /\ UNCHANGED <<file, committed, written, found, repaired, safe, powerLosses>>

\* Every combination of contents and length the medium may hold.
Survivors(n) ==
    LET survivors[k \in 0 .. n] ==
            IF k = 0 THEN {<<>>}
            ELSE {Append(cs, c) : cs \in survivors[k - 1], c \in media[k]}
    IN  survivors[n]

PowerLoss ==
    /\ powerLosses < MaxPowerLosses /\ powerLosses' = powerLosses + 1
    /\ \E n \in sizes : cells' \in Survivors(n)
    /\ media' = [i \in Positions |-> IF i <= Len(cells') THEN {cells'[i]} ELSE {Torn}]
    /\ sizes' = {Len(cells')}
    /\ pc' = "stopped"
    /\ UNCHANGED <<committed, written, found, repaired, safe>>

-----------------------------------------------------------------------------
(* Repair.                                                                 *)

\* newReaderFromFile and the early returns: on a ReadAt error loadFooter gives
\* way to scan, which takes such an error for the logical EOF.
OpenForRepair ==
    /\ pc = "stopped"
    /\ FooterLoads(cells) => ReadErrors
    /\ \E end \in 0 .. ScanEnd(cells) :
          /\ end < ScanEnd(cells) => ReadErrors
          /\ Len(FramesIn(cells, end)) > 0
          /\ found' = [end |-> end, frames |-> Len(FramesIn(cells, end))]
    /\ pc' = "truncate" /\ repaired' = FALSE
    /\ UNCHANGED <<file, committed, written, safe, powerLosses>>

\* Mutants: the last valid chunk is cut off too; nothing is cut off.
RepairTruncateOneMore ==
    /\ pc = "truncate" /\ pc' = "footer"
    /\ SetCells(SubSeq(cells, 1, found.end - 1))
    /\ UNCHANGED <<committed, written, found, repaired, safe, powerLosses>>

RepairNoTruncate ==
    /\ pc = "truncate" /\ pc' = "footer"
    /\ UNCHANGED <<file, committed, written, found, repaired, safe, powerLosses>>

RepairTruncate ==
    /\ pc = "truncate" /\ pc' = "footer"
    /\ SetCells(SubSeq(cells, 1, found.end))
    /\ UNCHANGED <<committed, written, found, repaired, safe, powerLosses>>

\* Mutant: the footer overwrites the last valid chunk.
RepairFooterOneEarly ==
    /\ pc = "footer"
    /\ \/ WriteCell(found.end - 1, Footer(found.frames)) /\ pc' = "repairTrailer"
       \/ WriteFails(found.end - 1) /\ pc' = "stopped"
    /\ UNCHANGED <<committed, written, found, repaired, safe, powerLosses>>

RepairFooter ==
    /\ pc = "footer"
    /\ \/ WriteCell(found.end, Footer(found.frames)) /\ pc' = "repairTrailer"
       \/ WriteFails(found.end) /\ pc' = "stopped"
    /\ UNCHANGED <<committed, written, found, repaired, safe, powerLosses>>

RepairTrailer ==
    /\ pc = "repairTrailer"
    /\ \/ WriteCell(found.end + 1, Trailer(found.end + 1)) /\ pc' = "repairSync"
       \/ WriteFails(found.end + 1) /\ pc' = "stopped"
    /\ UNCHANGED <<committed, written, found, repaired, safe, powerLosses>>

RepairSync ==
    /\ pc = "repairSync" /\ pc' = "stopped"
    /\ \/ Synced /\ repaired' = TRUE
       \/ UNCHANGED <<file, safe, repaired>>
    /\ UNCHANGED <<committed, written, found, powerLosses>>

RepairStep == OpenForRepair \/ RepairTruncate \/ RepairFooter \/ RepairTrailer \/ RepairSync

Next == \/ WriteFrame \/ Sync \/ FinalizeFooter \/ FinalizeTrailer \/ FinalizeSync
        \/ Stop \/ PowerLoss \/ RepairStep

Spec == Init /\ [][Next]_vars
-----------------------------------------------------------------------------
(* Correctness.                                                            *)

TypeOK ==
    /\ cells \in Seq(Cell) /\ Len(cells) <= MaxCells
    /\ media \in [Positions -> SUBSET Cell] /\ sizes \subseteq 0 .. MaxCells
    /\ committed \in 0 .. MaxCells /\ written \in 0 .. MaxFrames
    /\ pc \in WriterPC \cup RepairPC \cup {"stopped"}
    /\ found.end \in 0 .. MaxCells /\ found.frames \in 0 .. MaxFrames
    /\ repaired \in BOOLEAN /\ powerLosses \in 0 .. MaxPowerLosses /\ safe \in Seq(Frames)

FirstFrames(n) == [k \in 1..n |-> Data(k)]

\* Frames that a successful Sync (the Writer's, Finalize's or Repair's) found in
\* the file stay the beginning of what is read, whatever crashes, power losses
\* and interrupted Repair runs follow.  What is read is never out of order or
\* doubled, and has no gap unless power was lost twice: the truncation of an
\* unsynced Repair may be undone, and where its footer ends just before a frame
\* behind the lost one, that frame is read again.
SyncedFramesSurvive ==
    LET now == Readable(cells)
    IN  /\ IsPrefix(safe, now)
        /\ \A i, j \in DOMAIN now : i < j => now[i].frame < now[j].frame
        /\ powerLosses <= 1 => now = FirstFrames(Len(now))

\* Without a power loss every frame the Writer committed is read, also after a
\* crash, a failed Finalize and any number of interrupted Repair runs.
CommittedFramesRead == powerLosses = 0 => Readable(cells) = FirstFrames(written)

\* Repair never changes which frames are read, at any of its steps.
RepairKeepsFrames == [][RepairStep => Readable(cells') = Readable(cells)]_vars

\* A file that was repaired opens through its footer ever after, so that another
\* Repair is a no-op, and the footer counts exactly its frames.
RepairedOpensFinalized ==
    repaired => /\ FooterLoads(cells)
                /\ cells[Len(cells) - 1].frames = Len(Readable(cells))

\* repair.go:23-24: Repair is "lossless: it only truncates the incomplete bytes
\* past the last valid frame".
RepairIsLossless ==
    pc = "truncate" => \A i \in DOMAIN cells : cells[i].type = "data" => i <= found.end
=============================================================================
