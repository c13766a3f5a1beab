---------------------------- MODULE GmcTagsOpen ----------------------------
(***************************************************************************)
(* Open reads the tags area of a file whose writer goes on setting tags.   *)
(*                                                                         *)
(* The one ReadAt of the area is not atomic: each slot is taken at some    *)
(* moment of it.  A copy of a slot that overlaps a write of that slot      *)
(* mixes old and new bytes and decodes to NotOk, as one taken in the       *)
(* middle of the write does, so that a moment for each slot is enough.     *)
(***************************************************************************)
EXTENDS GmcTags

VARIABLE opening   \* the slots read so far, tagsSeq when Open began, slots written since

openVars == <<vars, opening>>

NotOpening == [read |-> EmptyMap, from |-> 0, touched |-> {}, done |-> FALSE]

OpenInit == Init /\ opening = [NotOpening EXCEPT !.done = TRUE]

\* ReadAt begins; a slot may be under a write already.
BeginOpen ==
    /\ opening.done
    /\ opening' = [NotOpening EXCEPT !.from = tagsSeq,
                       !.touched = IF pc = "writing" THEN {nextSlot} ELSE {}]
    /\ UNCHANGED vars

ReadSlot(s) ==
    /\ ~opening.done /\ s \notin DOMAIN opening.read
    /\ opening' = [opening EXCEPT !.read = Put(@, s, slots[s])]
    /\ UNCHANGED vars

\* pickTagsSlot on what was read; nil becomes the empty map.
EndOpen ==
    /\ ~opening.done /\ DOMAIN opening.read = SlotIds
    /\ opening' = [opening EXCEPT !.done = TRUE]
    /\ UNCHANGED vars

Shown == Pick(opening.read[0], opening.read[1])

\* A step of the writer, which the reader does not see but in the slots.
WriterStep ==
    /\ Next
    /\ opening' = [opening EXCEPT !.touched = IF pc = "idle" /\ pc' = "writing"
                                              THEN @ \cup {nextSlot} ELSE @]

OpenNext == WriterStep \/ BeginOpen \/ (\E s \in SlotIds : ReadSlot(s)) \/ EndOpen

OpenSpec == OpenInit /\ [][OpenNext]_openVars

-----------------------------------------------------------------------------
(* Correctness.                                                            *)

Read == opening.done /\ DOMAIN opening.read = SlotIds

\* An Open that races the writer shows a whole snapshot at least as new as the
\* last one set when it began, as long as no more than one of the slots is
\* written while it reads, however often and with whatever result.
OpenDuringUpdates ==
    (Read /\ opening.touched # SlotIds) => Shown.seq >= opening.from

\* The design document, 4.1 rule 3, on reading the area during an update: at
\* worst the snapshot of one generation before is seen.
OneGenerationOld == Read => Shown.seq >= opening.from - 1
=============================================================================
