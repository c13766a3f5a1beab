--------------------------- MODULE GmcTagsProofs ---------------------------
(***************************************************************************)
(* Proofs about GmcTags, for any keys, values, slot size and number of     *)
(* calls.  IInv strengthens the properties: it says what each slot holds   *)
(* at each point of SetTag, and which slots may have been lost to a power  *)
(* failure since the last Sync.  The second part is about an Open that     *)
(* races the writer and reads across the writes of one slot at most.       *)
(***************************************************************************)
EXTENDS GmcTagsOpen, TLAPS, FiniteSetTheorems

CurrentSlot == slots[1 - nextSlot]
TargetSlot  == slots[nextSlot]
New         == [seq |-> tagsSeq + 1, tags |-> next]

\* The slot not being written holds the current snapshot; the other one is
\* older, torn or just completed.
SlotsInv ==
    /\ CurrentSlot = [seq |-> tagsSeq, tags |-> tags]
    /\ tagsSeq = 0 => tags = EmptyMap
    /\ pc = "idle" => TargetSlot = NotOk \/ TargetSlot.seq < tagsSeq
    /\ pc = "writing" => TargetSlot = NotOk
    /\ pc = "written" => TargetSlot = New

\* Either no SetTag completed since the last Sync, so the current slot is on the
\* medium, or one did, and then the other slot still is unless it was written.
MediaInv ==
    /\ \A s \in SlotIds : slots[s] \in media[s]
    /\ pc # "idle" => NotOk \in media[nextSlot]
    /\ \/ /\ syncedSeq = tagsSeq
          /\ media[1 - nextSlot] = {CurrentSlot}
       \/ /\ media[1 - nextSlot] # {CurrentSlot}
          /\ media[nextSlot] = {TargetSlot} => TargetSlot.seq = syncedSeq

IInv == TypeOK /\ SlotsInv /\ MediaInv

-----------------------------------------------------------------------------
\* Pick returns one of the two slots, and never the older one.
LEMMA PickNewer ==
    ASSUME NEW a \in Slot, NEW b \in Slot
    PROVE  /\ Pick(a, b) \in {a, b}
           /\ Pick(a, b).seq >= a.seq
           /\ Pick(a, b).seq >= b.seq
BY DEF Pick, Slot

\* A slot that is strictly newer is picked from either position.
LEMMA PickNewest ==
    ASSUME NEW a \in Slot, NEW b \in Slot, a.seq > b.seq
    PROVE  Pick(a, b) = a /\ Pick(b, a) = a
BY DEF Pick, Slot

\* The empty snapshot is one.
LEMMA EmptyMapIsMap == EmptyMap \in Maps
<1>1. EmptyMap \in [{} -> Values]
  BY DEF EmptyMap
<1>2. {} \in SUBSET Keys
  OBVIOUS
<1> QED BY <1>1, <1>2 DEF Maps

\* Setting a key of a snapshot gives a snapshot.
LEMMA PutIsMap ==
    ASSUME NEW m \in Maps, NEW k \in Keys, NEW v \in Values
    PROVE  Put(m, k, v) \in Maps
<1>1. PICK S \in SUBSET Keys : m \in [S -> Values]
  BY DEF Maps
<1>2. Put(m, k, v) \in [S \cup {k} -> Values]
  BY <1>1 DEF Put
<1>3. S \cup {k} \in SUBSET Keys
  OBVIOUS
<1> QED BY <1>2, <1>3 DEF Maps

\* A slot that does not decode is typed as one with seq 0 and no tags.
LEMMA NotOkIsSlot == NotOk \in Slot /\ NotOk.seq = 0 /\ NotOk.tags = EmptyMap
BY EmptyMapIsMap DEF NotOk, Slot
-----------------------------------------------------------------------------
\* The invariant holds in a file just created, ...
LEMMA InitIInv == Init => IInv
<1> SUFFICES ASSUME Init PROVE IInv
  OBVIOUS
<1> USE DEF Init
<1>1. TypeOK
  BY NotOkIsSlot, EmptyMapIsMap DEF TypeOK, SlotIds
<1>2. SlotsInv
  BY DEF SlotsInv, SlotIds, CurrentSlot, TargetSlot, NotOk
<1>3. MediaInv
  BY DEF MediaInv, SlotIds, CurrentSlot, TargetSlot
<1> QED BY <1>1, <1>2, <1>3 DEF IInv

\* ... and every step preserves it: one case per action, one step per conjunct.
LEMMA NextIInv == IInv /\ [Next]_vars => IInv'
<1> SUFFICES ASSUME IInv, [Next]_vars PROVE IInv'
  OBVIOUS
<1> USE DEF IInv
<1>0. nextSlot \in SlotIds /\ 1 - nextSlot \in SlotIds /\ nextSlot # 1 - nextSlot
  BY DEF TypeOK, SlotIds
<1>1. ASSUME NEW k \in Keys, NEW v \in Values, BeginSetTag(k, v) PROVE IInv'
  <2> USE <1>1 DEF BeginSetTag, memory
  <2>1. TypeOK'
    BY NotOkIsSlot, PutIsMap DEF TypeOK
  <2>2. SlotsInv'
    BY <1>0 DEF SlotsInv, TypeOK, CurrentSlot, TargetSlot
  <2>3. MediaInv'
    <3>1. \A s \in SlotIds : slots'[s] \in media'[s]
      BY <1>0 DEF MediaInv, TypeOK
    <3>2. NotOk \in media'[nextSlot]
      BY <1>0 DEF TypeOK
    <3>3. CurrentSlot' = CurrentSlot /\ media'[1 - nextSlot] = media[1 - nextSlot]
      BY <1>0 DEF TypeOK, CurrentSlot
    <3>4. TargetSlot' = NotOk /\ media'[nextSlot] = media[nextSlot] \cup {NotOk}
      BY <1>0 DEF TypeOK, TargetSlot
    <3>5. ASSUME media'[nextSlot] = {TargetSlot'}
          PROVE  media[nextSlot] = {TargetSlot} /\ TargetSlot = NotOk
      BY <1>0, <3>4, <3>5 DEF MediaInv, TargetSlot
    <3> QED BY <3>1, <3>2, <3>3, <3>4, <3>5 DEF MediaInv
  <2> QED BY <2>1, <2>2, <2>3
<1>2. ASSUME CompleteWrite PROVE IInv'
  <2> USE <1>2 DEF CompleteWrite, memory
  <2>1. New \in Slot /\ New # NotOk
    BY DEF New, Slot, TypeOK, NotOk
  <2>2. TypeOK'
    BY <2>1 DEF TypeOK, New
  <2>3. SlotsInv'
    BY <1>0 DEF SlotsInv, TypeOK, CurrentSlot, TargetSlot, New
  <2>4. MediaInv'
    <3>1. \A s \in SlotIds : slots'[s] \in media'[s]
      BY <1>0 DEF MediaInv, TypeOK
    <3>2. CurrentSlot' = CurrentSlot /\ media'[1 - nextSlot] = media[1 - nextSlot]
      BY <1>0 DEF TypeOK, CurrentSlot
    <3>3. TargetSlot' = New /\ media'[nextSlot] = media[nextSlot] \cup {New}
      BY <1>0 DEF TypeOK, TargetSlot, New
    <3>4. NotOk \in media'[nextSlot]
      BY <3>3 DEF MediaInv
    <3> QED BY <2>1, <3>1, <3>2, <3>3, <3>4 DEF MediaInv
  <2> QED BY <2>2, <2>3, <2>4
<1>3. ASSUME FailWrite PROVE IInv'
  <2> USE <1>3 DEF FailWrite, memory
  <2>1. TypeOK'
    BY DEF TypeOK
  <2>2. SlotsInv'
    BY DEF SlotsInv, CurrentSlot, TargetSlot
  <2>3. MediaInv'
    BY DEF MediaInv, CurrentSlot, TargetSlot
  <2> QED BY <2>1, <2>2, <2>3
<1>4. ASSUME EndSetTag PROVE IInv'
  <2> USE <1>4 DEF EndSetTag
  <2>1. TypeOK'
    BY <1>0 DEF TypeOK
  <2>2. 1 - nextSlot' = nextSlot
    BY <1>0 DEF SlotIds
  <2>3. CurrentSlot' = New /\ TargetSlot' = CurrentSlot
    BY <2>2 DEF CurrentSlot, TargetSlot, SlotsInv
  <2>4. SlotsInv'
    BY <2>3 DEF SlotsInv, New, TypeOK
  <2>5. MediaInv'
    <3>1. media'[1 - nextSlot'] # {CurrentSlot'}
      <4>1. NotOk \in media[nextSlot] /\ NotOk # New
        BY DEF MediaInv, New, NotOk, TypeOK
      <4> QED BY <2>2, <2>3, <4>1
    <3>2. media'[nextSlot'] = {TargetSlot'} => TargetSlot'.seq = syncedSeq'
      BY <2>3 DEF MediaInv, SlotsInv
    <3> QED BY <3>1, <3>2 DEF MediaInv
  <2> QED BY <2>1, <2>4, <2>5
<1>5. ASSUME Sync PROVE IInv'
  <2> USE <1>5 DEF Sync, memory
  <2>1. TypeOK'
    BY DEF TypeOK
  <2>2. SlotsInv'
    BY DEF SlotsInv, CurrentSlot, TargetSlot
  <2>3. MediaInv'
    BY <1>0 DEF MediaInv, CurrentSlot, TargetSlot
  <2> QED BY <2>1, <2>2, <2>3
<1>6. ASSUME Stop PROVE IInv'
  <2> USE <1>6 DEF Stop, memory
  <2>1. TypeOK'
    BY DEF TypeOK
  <2>2. SlotsInv'
    BY DEF SlotsInv, CurrentSlot, TargetSlot, New
  <2>3. MediaInv'
    BY DEF MediaInv, CurrentSlot, TargetSlot
  <2> QED BY <2>1, <2>2, <2>3
<1>7. ASSUME UNCHANGED vars PROVE IInv'
  <2> USE <1>7 DEF vars
  <2>1. TypeOK'
    BY DEF TypeOK
  <2>2. SlotsInv'
    BY DEF SlotsInv, CurrentSlot, TargetSlot, New
  <2>3. MediaInv'
    BY DEF MediaInv, CurrentSlot, TargetSlot
  <2> QED BY <2>1, <2>2, <2>3
<1> QED BY <1>1, <1>2, <1>3, <1>4, <1>5, <1>6, <1>7 DEF Next

\* So it always holds.
LEMMA Inductive == Spec => []IInv
BY InitIInv, NextIInv, PTL DEF Spec

-----------------------------------------------------------------------------
\* Type correctness of the tags area and of the writer's copy of it.
THEOREM TagsTypeCorrect == Spec => []TypeOK
<1>1. IInv => TypeOK
  BY DEF IInv
<1> QED BY <1>1, Inductive, PTL

\* What Open finds at each point of SetTag.
LEMMA OpenedIs ==
    ASSUME IInv
    PROVE  Opened = IF pc = "written" THEN New ELSE [seq |-> tagsSeq, tags |-> tags]
<1> USE DEF IInv
<1>1. nextSlot \in SlotIds /\ slots[0] \in Slot /\ slots[1] \in Slot
  BY DEF TypeOK, SlotIds
<1>2. TargetSlot \in Slot /\ CurrentSlot \in Slot
  BY <1>1 DEF TargetSlot, CurrentSlot, SlotIds
<1>3. Opened \in {Pick(CurrentSlot, TargetSlot), Pick(TargetSlot, CurrentSlot)}
  BY <1>1 DEF Opened, CurrentSlot, TargetSlot, SlotIds
<1>4. CASE pc = "written"
  <2>1. TargetSlot.seq > CurrentSlot.seq
    BY <1>4 DEF SlotsInv, New, TypeOK
  <2> QED BY <1>2, <1>3, <1>4, <2>1, PickNewest DEF SlotsInv
<1>5. CASE pc # "written"
  <2>1. TargetSlot = NotOk \/ TargetSlot.seq < tagsSeq
    BY <1>5 DEF SlotsInv, TypeOK
  <2>2. CASE tagsSeq = 0
    <3>1. TargetSlot = NotOk /\ CurrentSlot = NotOk
      BY <1>2, <2>1, <2>2 DEF SlotsInv, NotOk, Slot
    <3> QED BY <1>2, <1>3, <1>5, <3>1, PickNewer DEF SlotsInv
  <2>3. CASE tagsSeq # 0
    <3>1. TargetSlot.seq < CurrentSlot.seq
      BY <2>1, <2>3, NotOkIsSlot DEF SlotsInv, TypeOK
    <3> QED BY <1>2, <1>3, <1>5, <3>1, PickNewest DEF SlotsInv
  <2> QED BY <2>2, <2>3
<1> QED BY <1>4, <1>5

\* Between SetTag calls, also after failed ones, an Open of the file shows the
\* snapshot that Reader.Tags of a live reader shows.
THEOREM OpenAgreesWithWriter == Spec => []OpenShowsTags
<1>1. IInv => OpenShowsTags
  BY OpenedIs DEF OpenShowsTags
<1> QED BY <1>1, Inductive, PTL

\* A power loss never takes back the synced tags while at most one slot has been
\* written since.
THEOREM SyncedTagsAreSafe == Spec => []SyncedTagsSurvive
<1>1. ASSUME IInv PROVE SyncedTagsSurvive
  <2> USE <1>1 DEF IInv
  <2> SUFFICES ASSUME Cardinality(Unsynced) <= 1, NEW a \in media[0], NEW b \in media[1]
               PROVE  Pick(a, b).seq >= syncedSeq
    BY DEF SyncedTagsSurvive, Outcomes
  <2>1. a \in Slot /\ b \in Slot /\ nextSlot \in SlotIds
    BY DEF TypeOK, SlotIds
  <2>2. \E s \in SlotIds : media[s] = {slots[s]} /\ slots[s].seq = syncedSeq
    <3>1. CASE media[1 - nextSlot] = {CurrentSlot} /\ syncedSeq = tagsSeq
      BY <2>1, <3>1 DEF SlotsInv, CurrentSlot, SlotIds
    <3>2. CASE /\ media[1 - nextSlot] # {CurrentSlot}
               /\ media[nextSlot] = {TargetSlot} => TargetSlot.seq = syncedSeq
      <4>1. 1 - nextSlot \in Unsynced /\ 1 - nextSlot # nextSlot
        BY <2>1, <3>2 DEF Unsynced, CurrentSlot, SlotIds
      <4>2. nextSlot \notin Unsynced
        <5> SUFFICES ASSUME nextSlot \in Unsynced PROVE FALSE
          OBVIOUS
        <5>1. Unsynced = {0, 1}
          BY <2>1, <4>1 DEF Unsynced, SlotIds
        <5>2. Cardinality({0, 1}) = 2
          <6>1. IsFiniteSet({0}) /\ Cardinality({0}) = 1
            BY FS_Singleton
          <6>2. Cardinality({0} \cup {1}) = IF 1 \in {0} THEN 1 ELSE 1 + 1
            BY <6>1, FS_AddElement
          <6>3. {0, 1} = {0} \cup {1}
            OBVIOUS
          <6> HIDE <1>1
          <6> QED BY <6>2, <6>3
        <5> QED BY <5>1, <5>2
      <4> QED BY <2>1, <3>2, <4>2 DEF Unsynced, TargetSlot
    <3> QED BY <3>1, <3>2 DEF MediaInv
  <2>3. a.seq >= syncedSeq \/ b.seq >= syncedSeq
    BY <2>2 DEF SlotIds, TypeOK
  <2>4. /\ Pick(a, b).seq \in Nat /\ a.seq \in Nat /\ b.seq \in Nat /\ syncedSeq \in Nat
        /\ Pick(a, b).seq >= a.seq /\ Pick(a, b).seq >= b.seq
    BY <2>1, PickNewer DEF Slot, TypeOK
  <2> QED BY <2>3, <2>4
<1> QED BY <1>1, Inductive, PTL

-----------------------------------------------------------------------------
\* The tags Open shows, before and after a step.
OpenedRight == Opened.tags = IF pc = "written" THEN next ELSE tags

\* The invariant decides what Open shows ...
LEMMA OpenedTags == IInv => OpenedRight
BY OpenedIs DEF New, OpenedRight

\* ... before and after a step.
LEMMA OpenedTagsNext == IInv' => OpenedRight'
BY OpenedTags, PTL

\* Every step of SetTag, Sync, Close or a crash is a step of the register or
\* leaves it alone.
LEMMA StepRefines == IInv /\ IInv' /\ [Next]_vars => [Register!Next]_(Register!vars)
<1> SUFFICES ASSUME IInv, IInv', [Next]_vars
             PROVE  [Register!Next]_(Register!vars)
  OBVIOUS
<1>0. /\ next \in Maps /\ next' \in Maps
      /\ Opened.tags = IF pc = "written" THEN next ELSE tags
  BY OpenedTags DEF IInv, TypeOK, OpenedRight
<1>1. Opened'.tags = IF pc' = "written" THEN next' ELSE tags'
  BY OpenedTagsNext DEF OpenedRight
<1> USE <1>0, <1>1 DEF Register!Next, Register!vars
<1>2. ASSUME NEW k \in Keys, NEW v \in Values, BeginSetTag(k, v)
      PROVE  Register!Begin
  BY <1>2 DEF BeginSetTag, memory, Register!Begin
<1>3. ASSUME CompleteWrite PROVE Register!Install
  BY <1>3 DEF CompleteWrite, memory, Register!Install
<1>4. ASSUME FailWrite PROVE Register!Fail
  BY <1>4 DEF FailWrite, memory, Register!Fail
<1>5. ASSUME EndSetTag PROVE Register!Succeed
  BY <1>5 DEF EndSetTag, Register!Succeed
<1>6. ASSUME Sync PROVE UNCHANGED Register!vars
  BY <1>6 DEF Sync, memory
<1>7. ASSUME Stop PROVE Register!Stop
  BY <1>7 DEF Stop, memory, Register!Stop
<1>8. ASSUME UNCHANGED vars PROVE UNCHANGED Register!vars
  BY <1>8 DEF vars
<1> QED BY <1>2, <1>3, <1>4, <1>5, <1>6, <1>7, <1>8 DEF Next

\* The double slot implements the atomic, crash-safe register.
THEOREM TagsRefinement == Spec => ImplementsRegister
<1>1. Init => Register!Init
  <2> SUFFICES ASSUME Init PROVE Register!Init
    OBVIOUS
  <2>1. Opened = NotOk
    BY NotOkIsSlot DEF Init, Opened, Pick, SlotIds
  <2> QED BY <2>1, NotOkIsSlot, EmptyMapIsMap DEF Init, Register!Init
<1> QED BY <1>1, Inductive, StepRefines, PTL DEF Spec, ImplementsRegister, Register!Spec

-----------------------------------------------------------------------------
(* An Open during SetTag calls: it misses no snapshot, for any number of   *)
(* them, failed ones included.                                             *)


Copies == UNION {[S -> Slot] : S \in SUBSET SlotIds}

OpenTypeOK ==
    /\ opening \in [read : Copies, from : Nat, touched : SUBSET SlotIds, done : BOOLEAN]
    /\ opening.from <= tagsSeq

\* A slot under a write is one that counts as written.
WritesCounted == pc = "writing" => nextSlot \in opening.touched

\* What was read of a slot that was not written since is what the slot holds, ...
CopiesFresh == \A s \in DOMAIN opening.read :
    s \notin opening.touched => opening.read[s] = slots[s]

\* ... and if only the other slot was written, it holds what Open must not miss:
\* the writer never touches the slot of the current snapshot first.
OtherIsCurrent == \A s \in SlotIds :
    opening.touched = {1 - s} => slots[s].seq >= opening.from

OpenInv == OpenTypeOK /\ WritesCounted /\ CopiesFresh /\ OtherIsCurrent

-----------------------------------------------------------------------------
\* A copy of some slots, the empty one and one more slot.
LEMMA CopyHas ==
    ASSUME NEW c \in Copies
    PROVE  DOMAIN c \in SUBSET SlotIds /\ \A s \in DOMAIN c : c[s] \in Slot
BY DEF Copies

\* A copy of neither slot, ...
LEMMA EmptyCopy == EmptyMap \in Copies /\ DOMAIN EmptyMap = {}
<1>1. EmptyMap \in [{} -> Slot] /\ DOMAIN EmptyMap = {}
  BY DEF EmptyMap
<1>2. {} \in SUBSET SlotIds
  OBVIOUS
<1> QED BY <1>1, <1>2 DEF Copies

\* ... and of one more.
LEMMA PutIsCopy ==
    ASSUME NEW c \in Copies, NEW s \in SlotIds, NEW slot \in Slot
    PROVE  Put(c, s, slot) \in Copies
<1>1. PICK S \in SUBSET SlotIds : c \in [S -> Slot]
  BY DEF Copies
<1>2. Put(c, s, slot) \in [S \cup {s} -> Slot]
  BY <1>1 DEF Put
<1>3. S \cup {s} \in SUBSET SlotIds
  OBVIOUS
<1> QED BY <1>2, <1>3 DEF Copies
-----------------------------------------------------------------------------
\* Nothing is read in a file just created, ...
LEMMA OpenInitInv == OpenInit => IInv /\ OpenInv
<1> SUFFICES ASSUME OpenInit PROVE IInv /\ OpenInv
  OBVIOUS
<1>1. IInv
  BY InitIInv DEF OpenInit
<1>2. /\ opening.read = EmptyMap /\ opening.from = 0 /\ opening.touched = {}
      /\ DOMAIN opening.read = {}
  BY EmptyCopy DEF OpenInit, NotOpening
<1>3. OpenTypeOK
  <2>1. opening = [read |-> EmptyMap, from |-> 0, touched |-> {}, done |-> TRUE]
    BY DEF OpenInit, NotOpening
  <2>2. tagsSeq = 0
    BY DEF OpenInit, Init
  <2> QED BY <2>1, <2>2, EmptyCopy DEF OpenTypeOK
<1>4. WritesCounted /\ CopiesFresh /\ OtherIsCurrent
  BY <1>2 DEF OpenInit, Init, WritesCounted, CopiesFresh, OtherIsCurrent
<1> QED BY <1>1, <1>3, <1>4 DEF OpenInv

\* ... a step of the writer counts the slot it begins to write and changes no
\* other, ...
LEMMA WriterStepOpenInv == IInv /\ OpenInv /\ WriterStep => OpenInv'
<1> SUFFICES ASSUME IInv, OpenInv, WriterStep PROVE OpenInv'
  OBVIOUS
<1> USE DEF OpenInv
<1>0. /\ nextSlot \in SlotIds /\ slots \in [SlotIds -> Slot] /\ tagsSeq \in Nat
      /\ slots[1 - nextSlot].seq = tagsSeq
  BY DEF IInv, TypeOK, SlotsInv, CurrentSlot
<1>1. ASSUME NEW k \in Keys, NEW v \in Values, BeginSetTag(k, v) PROVE OpenInv'
  <2>1. /\ opening' = [opening EXCEPT !.touched = @ \cup {nextSlot}]
        /\ nextSlot' = nextSlot /\ tagsSeq' = tagsSeq
        /\ slots' = [slots EXCEPT ![nextSlot] = NotOk]
    BY <1>1 DEF WriterStep, BeginSetTag, memory
  <2>2. /\ opening'.read = opening.read /\ opening'.from = opening.from
        /\ opening'.touched = opening.touched \cup {nextSlot}
    BY <2>1 DEF OpenTypeOK
  <2>3. OpenTypeOK'
    BY <1>0, <2>1, <2>2 DEF OpenTypeOK
  <2>4. WritesCounted'
    BY <2>1, <2>2 DEF WritesCounted
  <2>5. CopiesFresh'
    BY <1>0, <2>1, <2>2 DEF CopiesFresh, OpenTypeOK
  <2>6. OtherIsCurrent'
    BY <1>0, <2>1, <2>2 DEF OtherIsCurrent, OpenTypeOK, SlotIds
  <2> QED BY <2>3, <2>4, <2>5, <2>6
<1>2. ASSUME CompleteWrite PROVE OpenInv'
  <2>1. /\ opening' = [opening EXCEPT !.touched = @] /\ tagsSeq' = tagsSeq
        /\ pc' = "written" /\ nextSlot \in opening.touched
        /\ \A s \in SlotIds \ {nextSlot} : slots'[s] = slots[s]
    BY <1>0, <1>2 DEF WriterStep, CompleteWrite, memory, WritesCounted
  <2>2. /\ opening'.read = opening.read /\ opening'.from = opening.from
        /\ opening'.touched = opening.touched
        /\ opening'.done \in BOOLEAN
        /\ OpenTypeOK'
    BY <1>0, <2>1 DEF OpenTypeOK, vars
  <2>3. WritesCounted'
    BY <2>1 DEF WritesCounted
  <2>4. CopiesFresh'
    <3>1. \A s \in DOMAIN opening.read : s \in SlotIds
      BY CopyHas DEF OpenTypeOK
    <3> QED BY <2>1, <2>2, <3>1 DEF CopiesFresh
  <2>5. OtherIsCurrent'
    <3> SUFFICES ASSUME NEW s \in SlotIds, opening.touched = {1 - s}
                 PROVE  slots'[s].seq >= opening.from
      BY <2>2 DEF OtherIsCurrent
    <3>1. nextSlot = 1 - s /\ s # nextSlot
      BY <2>1 DEF SlotIds
    <3> QED BY <2>1, <3>1 DEF OtherIsCurrent
  <2> QED BY <2>2, <2>3, <2>4, <2>5
<1>3. ASSUME FailWrite \/ EndSetTag \/ Sync \/ Stop PROVE OpenInv'
  <2>1. /\ opening' = [opening EXCEPT !.touched = @] /\ slots' = slots
        /\ tagsSeq' \in Nat /\ tagsSeq' >= tagsSeq
        /\ pc' = "writing" => pc = "writing" /\ nextSlot' = nextSlot
    BY <1>0, <1>3 DEF WriterStep, FailWrite, EndSetTag, Sync, Stop, memory
  <2>2. /\ opening'.read = opening.read /\ opening'.from = opening.from
        /\ opening'.touched = opening.touched
        /\ opening'.done \in BOOLEAN
        /\ OpenTypeOK'
    BY <1>0, <2>1 DEF OpenTypeOK, vars
  <2>3. WritesCounted' /\ CopiesFresh' /\ OtherIsCurrent'
    BY <2>1, <2>2 DEF WritesCounted, CopiesFresh, OtherIsCurrent
  <2> QED BY <2>2, <2>3
<1> QED BY <1>1, <1>2, <1>3 DEF WriterStep, Next

\* ... and so does every step of Open.
LEMMA ReaderStepOpenInv ==
    ASSUME IInv, OpenInv, BeginOpen \/ (\E s \in SlotIds : ReadSlot(s)) \/ EndOpen
    PROVE  OpenInv'
<1> USE DEF OpenInv
<1>0. /\ nextSlot \in SlotIds /\ slots \in [SlotIds -> Slot] /\ tagsSeq \in Nat
      /\ slots[1 - nextSlot].seq = tagsSeq
  BY DEF IInv, TypeOK, SlotsInv, CurrentSlot
<1>1. ASSUME BeginOpen PROVE OpenInv'
  <2>1. /\ opening'.read = EmptyMap /\ opening'.from = tagsSeq
        /\ opening'.touched = IF pc = "writing" THEN {nextSlot} ELSE {}
        /\ DOMAIN opening'.read = {} /\ UNCHANGED vars
    BY <1>1, EmptyCopy DEF BeginOpen, NotOpening
  <2>2. OpenTypeOK'
    <3> DEFINE t == IF pc = "writing" THEN {nextSlot} ELSE {}
    <3>1. t \in SUBSET SlotIds
      BY <1>0
    <3>2. opening' = [read |-> EmptyMap, from |-> tagsSeq, touched |-> t, done |-> FALSE]
      BY <1>1 DEF BeginOpen, NotOpening
    <3> HIDE DEF t
    <3> QED BY <1>0, <2>1, <3>1, <3>2, EmptyCopy DEF vars, OpenTypeOK
  <2>3. WritesCounted' /\ CopiesFresh'
    BY <2>1 DEF vars, WritesCounted, CopiesFresh
  <2>4. OtherIsCurrent'
    <3> SUFFICES ASSUME NEW s \in SlotIds, opening'.touched = {1 - s}
                 PROVE  slots'[s].seq >= opening'.from
      BY DEF OtherIsCurrent
    <3>1. nextSlot = 1 - s
      BY <2>1
    <3>2. s = 1 - nextSlot
      BY <3>1 DEF SlotIds
    <3> QED BY <1>0, <2>1, <3>2 DEF vars
  <2> QED BY <2>2, <2>3, <2>4
<1>2. ASSUME NEW s \in SlotIds, ReadSlot(s) PROVE OpenInv'
  <2>1. /\ opening' = [opening EXCEPT !.read = Put(@, s, slots[s])]
        /\ UNCHANGED vars
    BY <1>2 DEF ReadSlot
  <2>2. /\ opening'.read = Put(opening.read, s, slots[s])
        /\ opening'.from = opening.from /\ opening'.touched = opening.touched
    BY <2>1
  <2>3. /\ DOMAIN opening'.read = DOMAIN opening.read \cup {s}
        /\ opening'.read[s] = slots[s]
        /\ \A r \in DOMAIN opening.read : r # s => opening'.read[r] = opening.read[r]
    BY <2>2 DEF Put
  <2>4. OpenTypeOK'
    <3>1. Put(opening.read, s, slots[s]) \in Copies
      BY <1>0, PutIsCopy DEF OpenTypeOK
    <3> QED BY <2>1, <3>1 DEF OpenTypeOK, vars
  <2>5. CopiesFresh'
    BY <2>1, <2>2, <2>3 DEF CopiesFresh, vars
  <2> QED BY <2>1, <2>2, <2>4, <2>5 DEF WritesCounted, OtherIsCurrent, vars
<1>3. ASSUME EndOpen PROVE OpenInv'
  <2>1. /\ opening' = [opening EXCEPT !.done = TRUE] /\ UNCHANGED vars
    BY <1>3 DEF EndOpen
  <2>2. /\ opening'.read = opening.read /\ opening'.from = opening.from
        /\ opening'.touched = opening.touched
        /\ opening'.done \in BOOLEAN
        /\ OpenTypeOK'
    BY <1>0, <2>1 DEF OpenTypeOK, vars
  <2> QED BY <2>1, <2>2
          DEF vars, OpenTypeOK, WritesCounted, CopiesFresh, OtherIsCurrent
<1> QED BY <1>1, <1>2, <1>3

\* Every step preserves both invariants.
LEMMA OpenNextInv == IInv /\ OpenInv /\ [OpenNext]_openVars => (IInv /\ OpenInv)'
<1> SUFFICES ASSUME IInv, OpenInv, [OpenNext]_openVars PROVE IInv' /\ OpenInv'
  OBVIOUS
<1>1. [Next]_vars
  BY DEF OpenNext, WriterStep, BeginOpen, ReadSlot, EndOpen, openVars
<1>2. IInv'
  BY <1>1, NextIInv
<1>3. ASSUME UNCHANGED openVars PROVE OpenInv'
  <2>1. OpenTypeOK'
    BY <1>3 DEF openVars, vars, OpenInv, OpenTypeOK
  <2>2. WritesCounted' /\ CopiesFresh' /\ OtherIsCurrent'
    BY <1>3 DEF openVars, vars, OpenInv, WritesCounted, CopiesFresh, OtherIsCurrent
  <2> QED BY <2>1, <2>2 DEF OpenInv
<1>4. OpenInv'
  BY <1>3, WriterStepOpenInv, ReaderStepOpenInv DEF OpenNext
<1> QED BY <1>2, <1>4

\* An Open of a file whose writer is setting tags shows a snapshot at least as
\* new as the last one set when it began, if it overlaps the writes of at most
\* one slot (Open, reader.go:65, pickTagsSlot, SetTag).
THEOREM OpenMissesNothing == OpenSpec => []OpenDuringUpdates
<1>1. ASSUME IInv, OpenInv PROVE OpenDuringUpdates
  <2> SUFFICES ASSUME Read, opening.touched # SlotIds
               PROVE  Shown.seq >= opening.from
    BY DEF OpenDuringUpdates
  <2>1. /\ opening.read[0] \in Slot /\ opening.read[1] \in Slot
        /\ opening.from \in Nat /\ opening.touched \in SUBSET SlotIds
        /\ opening.from <= tagsSeq /\ DOMAIN opening.read = SlotIds
    <3>1. opening.read \in Copies /\ DOMAIN opening.read = SlotIds
      BY <1>1 DEF OpenInv, OpenTypeOK, Read
    <3>2. opening.read[0] \in Slot /\ opening.read[1] \in Slot
      BY <3>1, CopyHas DEF SlotIds
    <3> QED BY <1>1, <3>1, <3>2 DEF OpenInv, OpenTypeOK
  <2>2. /\ Shown.seq \in Nat /\ opening.read[0].seq \in Nat /\ opening.read[1].seq \in Nat
        /\ Shown.seq >= opening.read[0].seq /\ Shown.seq >= opening.read[1].seq
    BY <2>1, PickNewer DEF Shown, Slot
  <2>3. \E s \in SlotIds : opening.read[s].seq >= opening.from
    <3>1. CASE opening.touched = {}
      <4>1. /\ 1 - nextSlot \in SlotIds /\ slots[1 - nextSlot].seq = tagsSeq
        BY <1>1 DEF IInv, TypeOK, SlotsInv, CurrentSlot, SlotIds
      <4>2. opening.read[1 - nextSlot] = slots[1 - nextSlot]
        BY <1>1, <2>1, <3>1, <4>1 DEF OpenInv, CopiesFresh
      <4> QED BY <1>1, <2>1, <4>1, <4>2 DEF IInv, TypeOK
    <3>2. CASE opening.touched # {}
      <4>1. PICK s \in SlotIds : opening.touched = {1 - s} /\ s \notin opening.touched
        BY <2>1, <3>2 DEF SlotIds
      <4>2. opening.read[s] = slots[s] /\ slots[s].seq >= opening.from
        BY <1>1, <2>1, <4>1 DEF OpenInv, CopiesFresh, OtherIsCurrent
      <4> QED BY <4>2
    <3> QED BY <3>1, <3>2
  <2> QED BY <2>1, <2>2, <2>3 DEF SlotIds
<1>2. OpenSpec => [](IInv /\ OpenInv)
  BY OpenInitInv, OpenNextInv, PTL DEF OpenSpec
<1> QED BY <1>1, <1>2, PTL
=============================================================================
