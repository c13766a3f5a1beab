------------------------------ MODULE GmcTags ------------------------------
(***************************************************************************)
(* The tags area (tags.go, Writer.SetTag): two slots, written alternately, *)
(* each holding a whole snapshot with a sequence number and a CRC.  A slot *)
(* whose CRC fails (torn) and a zero-filled slot decode to the same: not   *)
(* ok, here seq 0.                                                         *)
(*                                                                         *)
(* `slots` is what ReadAt finds (the page cache, which survives a crash of *)
(* the process); `media[s]` is the set of contents slot s may turn out to  *)
(* have after a power loss.  A WriteAt in progress is two steps, so that a *)
(* crash can fall between them.                                            *)
(***************************************************************************)
EXTENDS GmcFormat

CONSTANTS Keys, Values,
          SlotEntries,   \* slotSize, counted in entries that fit
          MaxSeq         \* bound: successful SetTag calls

ASSUME TagsAssumption == SlotEntries \in Nat /\ MaxSeq \in Nat

VARIABLES
    slots, media,            \* the tags area of the file
    tagsSeq, nextSlot, tags, \* w.tagsSeq, w.nextSlot, w.tags
    next,                    \* the snapshot SetTag is writing
    pc,                      \* where SetTag is: "idle", "writing", "written"
    running,                 \* the process is alive and the writer not closed
    syncedSeq                \* tagsSeq at the last successful Sync

memory == <<tagsSeq, nextSlot, tags>>
vars == <<slots, media, tagsSeq, nextSlot, tags, next, pc, running, syncedSeq>>

SlotIds  == {0, 1}
Maps     == UNION {[S -> Values] : S \in SUBSET Keys}
Slot     == [seq : Nat, tags : Maps]
NotOk    == [seq |-> 0, tags |-> EmptyMap]

\* Mutant: the older valid slot is adopted.
PickOlder(a, b) == IF a.seq # 0 /\ (b.seq = 0 \/ a.seq <= b.seq) THEN a ELSE b

\* pickTagsSlot, without the slot to write next, which no reader uses.
Pick(a, b) == IF a.seq # 0 /\ (b.seq = 0 \/ a.seq >= b.seq) THEN a ELSE b

Opened == Pick(slots[0], slots[1])

-----------------------------------------------------------------------------
Init ==
    /\ slots = [s \in SlotIds |-> NotOk] /\ media = [s \in SlotIds |-> {NotOk}]
    /\ tagsSeq = 0 /\ nextSlot = 0 /\ tags = EmptyMap
    /\ next = EmptyMap /\ pc = "idle" /\ running = TRUE /\ syncedSeq = 0

\* Up to the WriteAt, which tears the slot first.  With ErrTagsTooLarge, and when
\* WriteAt fails before its first byte, nothing changes.
BeginSetTag(k, v) ==
    /\ running /\ pc = "idle" /\ tagsSeq < MaxSeq
    /\ Cardinality(DOMAIN Put(tags, k, v)) <= SlotEntries
    /\ next' = Put(tags, k, v)
    /\ slots' = [slots EXCEPT ![nextSlot] = NotOk]
    /\ media' = [media EXCEPT ![nextSlot] = @ \cup {NotOk}]
    /\ pc' = "writing"
    /\ UNCHANGED <<memory, running, syncedSeq>>

CompleteWrite ==
    /\ running /\ pc = "writing"
    /\ LET slot == [seq |-> tagsSeq + 1, tags |-> next]
       IN  /\ slots' = [slots EXCEPT ![nextSlot] = slot]
           /\ media' = [media EXCEPT ![nextSlot] = @ \cup {slot}]
    /\ pc' = "written"
    /\ UNCHANGED <<memory, next, running, syncedSeq>>

\* Mutant: the slots are swapped although the write failed.
FailWriteFlips ==
    /\ running /\ pc = "writing" /\ pc' = "idle"
    /\ nextSlot' = 1 - nextSlot
    /\ UNCHANGED <<slots, media, tagsSeq, tags, next, running, syncedSeq>>

\* SetTag returns the error of WriteAt: the next call uses the same slot and seq.
FailWrite ==
    /\ running /\ pc = "writing" /\ pc' = "idle"
    /\ UNCHANGED <<slots, media, memory, next, running, syncedSeq>>

\* Mutants: the slots are not swapped; the slot number is not brought back to 0.
EndSetTagSameSlot ==
    /\ running /\ pc = "written" /\ pc' = "idle"
    /\ tagsSeq' = tagsSeq + 1 /\ nextSlot' = nextSlot /\ tags' = next
    /\ UNCHANGED <<slots, media, next, running, syncedSeq>>

EndSetTagCounts ==
    /\ running /\ pc = "written" /\ pc' = "idle"
    /\ tagsSeq' = tagsSeq + 1 /\ nextSlot' = nextSlot + 1 /\ tags' = next
    /\ UNCHANGED <<slots, media, next, running, syncedSeq>>

EndSetTag ==
    /\ running /\ pc = "written" /\ pc' = "idle"
    /\ tagsSeq' = tagsSeq + 1 /\ nextSlot' = 1 - nextSlot /\ tags' = next
    /\ UNCHANGED <<slots, media, next, running, syncedSeq>>

\* Writer.Sync; Finalize ends in one too.
Sync ==
    /\ running /\ pc = "idle"
    /\ media' = [s \in SlotIds |-> {slots[s]}] /\ syncedSeq' = tagsSeq
    /\ UNCHANGED <<slots, memory, next, pc, running>>

\* Close waits for w.mu; a crash of the process does not.
Stop ==
    /\ running /\ running' = FALSE
    /\ UNCHANGED <<slots, media, memory, next, pc, syncedSeq>>

Next == \/ \E k \in Keys, v \in Values : BeginSetTag(k, v)
        \/ CompleteWrite \/ FailWrite \/ EndSetTag \/ Sync \/ Stop

Spec == Init /\ [][Next]_vars
-----------------------------------------------------------------------------
(* Correctness.                                                            *)

TypeOK ==
    /\ slots \in [SlotIds -> Slot] /\ media \in [SlotIds -> SUBSET Slot]
    /\ tagsSeq \in Nat /\ nextSlot \in SlotIds /\ tags \in Maps /\ next \in Maps
    /\ pc \in {"idle", "writing", "written"} /\ running \in BOOLEAN
    /\ syncedSeq \in Nat

\* Between calls, Open shows the snapshot the live writer holds
\* (Reader.Tags, reader.go:206), also after failed calls.
OpenShowsTags == pc = "idle" => Opened = [seq |-> tagsSeq, tags |-> tags]

\* The slot that is not being written holds the current snapshot, and any power
\* loss in which at most one slot was written since the last Sync recovers a
\* snapshot at least as new as the synced one.
Outcomes == {Pick(a, b) : a \in media[0], b \in media[1]}

Unsynced == {s \in SlotIds : media[s] # {slots[s]}}

SyncedTagsSurvive ==
    Cardinality(Unsynced) <= 1 => \A o \in Outcomes : o.seq >= syncedSeq

\* The double slot implements the atomic register.
Register == INSTANCE TagsRegister WITH
    value     <- Opened.tags,
    pending   <- IF pc = "idle" THEN {} ELSE {next},
    installed <- pc = "written"

ImplementsRegister == Register!Spec
=============================================================================
