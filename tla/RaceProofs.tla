----------------------------- MODULE RaceProofs -----------------------------
(***************************************************************************)
(* Proofs about Race.tla for every course, every number of laps and every  *)
(* bound: type correctness, the inductive invariant IInv with the safety   *)
(* properties it contains, the closed-race action property, and the        *)
(* refinement of LapRace.                                                  *)
(***************************************************************************)
EXTENDS Race, FiniteSetTheorems, TLAPS

-----------------------------------------------------------------------------
(* The checkpoint slots are finite, as many as the course requires, and do *)
(* not contain the finish slot.                                            *)
LEMMA SlotFacts ==
    /\ IsFiniteSet(Checkpoints)
    /\ Cardinality(Checkpoints) = Required
    /\ FinishSlot \notin Checkpoints
    /\ FinishSlot \in Slots
    /\ Slots = Checkpoints \cup {FinishSlot}
<1>1. IsFiniteSet(Checkpoints) /\ Cardinality(Checkpoints) = Required
    BY RequiredAssumption, FS_Interval DEF Checkpoints
<1> QED
    BY <1>1, RequiredAssumption DEF Checkpoints, FinishSlot, Slots

(* The marks of a lap are finite, no more than the checkpoints, and as     *)
(* many only when they are all of them; one new mark makes one more.       *)
LEMMA MarkFacts ==
    ASSUME NEW r \in RaceState
    PROVE  LET marks == r.passed \ {FinishSlot} IN
           /\ IsFiniteSet(marks)
           /\ Cardinality(marks) \in Nat
           /\ Cardinality(marks) <= Required
           /\ Cardinality(marks) = Required => marks = Checkpoints
           /\ \A slot \in Checkpoints \ r.passed :
                 /\ Cardinality(marks) < Required
                 /\ (r.passed \cup {slot}) \ {FinishSlot} = marks \cup {slot}
                 /\ Cardinality(marks \cup {slot}) = Cardinality(marks) + 1
<1> DEFINE marks == r.passed \ {FinishSlot}
<1>1. r.passed \in SUBSET Slots
    BY DEF RaceState
<1>2. marks \in SUBSET Checkpoints
    BY <1>1, SlotFacts
<1>3. IsFiniteSet(marks) /\ Cardinality(marks) <= Required
      /\ (Cardinality(marks) = Required => marks = Checkpoints)
    <2>1. Cardinality(marks) <= Cardinality(Checkpoints)
          /\ (Cardinality(Checkpoints) = Cardinality(marks) => Checkpoints = marks)
          /\ IsFiniteSet(marks)
        BY <1>2, SlotFacts, FS_Subset
    <2> QED
        BY <2>1, SlotFacts
<1>4. Cardinality(marks) \in Nat
    BY <1>3, FS_CardinalityType
<1>5. ASSUME NEW slot \in Checkpoints \ r.passed
      PROVE  /\ Cardinality(marks) < Required
             /\ (r.passed \cup {slot}) \ {FinishSlot} = marks \cup {slot}
             /\ Cardinality(marks \cup {slot}) = Cardinality(marks) + 1
    <2>1. slot \notin marks /\ slot # FinishSlot
        BY SlotFacts
    <2>2. Cardinality(marks) # Required
        BY <2>1, <1>3
    <2>3. Cardinality(marks \cup {slot}) = Cardinality(marks) + 1
        BY <2>1, <1>3, FS_AddElement
    <2> QED
        BY <2>1, <2>2, <2>3, <1>3, <1>4, RequiredAssumption
<1> QED
    BY <1>3, <1>4, <1>5

-----------------------------------------------------------------------------
(* The types of the fields, and what may be stored in them. *)
LEMMA FieldTypes ==
    ASSUME NEW r \in RaceState
    PROVE  /\ r.sized \in BOOLEAN /\ r.completed \in BOOLEAN /\ r.spawnReady \in BOOLEAN
           /\ r.passed \in SUBSET Slots
           /\ r.lapCheckpoints \in Nat /\ r.checkpoints \in Nat
           /\ r.finishes \in Nat /\ r.laps \in Nat /\ r.total \in Nat
           /\ r.freewheelClears \in Nat /\ r.contacts \in Nat
           /\ r.prepared \in Nat /\ r.requiredLaps \in Nat /\ r.events \in Nat
           /\ r.mode \in Modes /\ r.journal \in Seq(Event)
           /\ r.previousSpawn \in Locations /\ r.currentSpawn \in Locations
           /\ r.respawn \in Locations \cup {NoLocation}
    BY DEF RaceState

(* A field updated with a value of its type leaves a race state. *)
LEMMA UpdateTypes ==
    ASSUME NEW r \in RaceState, NEW n \in Nat, NEW m \in Nat
    PROVE  /\ [r EXCEPT !.freewheelClears = n] \in RaceState
           /\ [r EXCEPT !.prepared = n, !.contacts = m] \in RaceState
           /\ [r EXCEPT !.finishes = n, !.laps = m] \in RaceState
           /\ [r EXCEPT !.finishes = n, !.laps = m, !.completed = TRUE] \in RaceState
           /\ [r EXCEPT !.completed = TRUE] \in RaceState
           /\ [r EXCEPT !.passed = {}, !.lapCheckpoints = n] \in RaceState
           /\ \A s \in Seq(Event) :
                 /\ [r EXCEPT !.journal = s] \in RaceState
                 /\ [r EXCEPT !.journal = s, !.events = n] \in RaceState
    BY DEF RaceState

(* The helpers keep a race state a race state. *)
LEMMA RecordType ==
    ASSUME NEW r \in RaceState, NEW index \in Slots, NEW slot \in Slots,
           NEW finish \in BOOLEAN
    PROVE  RecordAcceptedCheckpoint(r, index, slot, finish) \in RaceState
<1> DEFINE e == [slot |-> slot, index |-> index, lap |-> r.laps + 1,
                 event |-> r.events + 1, finish |-> finish]
<1>1. e \in Event
    BY DEF RaceState, Event
<1>2. Append(r.journal, e) \in Seq(Event)
    BY <1>1 DEF RaceState
<1> HIDE DEF e
<1>3. r.events + 1 \in Nat
    BY DEF RaceState
<1>4. [r EXCEPT !.journal = Append(@, e), !.events = @ + 1] \in RaceState
    BY <1>2, <1>3 DEF RaceState
<1> QED
    BY <1>4 DEF RecordAcceptedCheckpoint, e

(* CountPassage as a plain update of four fields. *)
LEMMA CountUpdate ==
    ASSUME NEW r \in RaceState, NEW marks \in SUBSET Slots,
           NEW inLap \in Nat, NEW inAll \in Nat, NEW passages \in Nat
    PROVE  [r EXCEPT !.passed = marks, !.lapCheckpoints = inLap,
                     !.checkpoints = inAll, !.total = passages] \in RaceState
    BY DEF RaceState

(* Counting a passage gives a race state. *)
LEMMA CountType ==
    ASSUME NEW r \in RaceState, NEW index \in Slots, NEW slot \in Slots
    PROVE  CountPassage(r, index, slot) \in RaceState
<1> DEFINE ordinary == IF index = FinishSlot THEN 0 ELSE 1
<1>1. /\ r.passed \cup {slot} \in SUBSET Slots
      /\ r.lapCheckpoints + ordinary \in Nat
      /\ r.checkpoints + ordinary \in Nat
      /\ r.total + 1 \in Nat
    BY FieldTypes
<1> HIDE DEF ordinary
<1>2. [r EXCEPT !.passed = @ \cup {slot}, !.lapCheckpoints = @ + ordinary,
                !.checkpoints = @ + ordinary, !.total = @ + 1] \in RaceState
    BY <1>1, CountUpdate, Zenon
<1> QED
    BY <1>2, Zenon DEF CountPassage, ordinary

(* Moving the spawn gives a race state. *)
LEMMA MoveType ==
    ASSUME NEW r \in RaceState, NEW loc \in Locations \cup {NoLocation}
    PROVE  MoveSpawn(r, loc) \in RaceState
    BY DEF MoveSpawn, ReturnToPreviousSpawn, StoreSpawnLocation, RaceState

(* Clearing the freewheel state gives a race state. *)
LEMMA ClearType ==
    ASSUME NEW r \in RaceState
    PROVE  ClearVehicleFreewheelState(r) \in RaceState
<1>1. r.freewheelClears + 1 \in Nat
    BY FieldTypes
<1> QED
    BY <1>1, UpdateTypes, Zenon DEF ClearVehicleFreewheelState

(* An accepted passage gives a race state. *)
LEMMA AcceptType ==
    ASSUME NEW r \in RaceState, NEW index \in Slots, NEW slot \in Slots,
           NEW loc \in Locations \cup {NoLocation}
    PROVE  InternalOnCheckpoint(r, index, slot, loc) \in RaceState
<1>1. (slot = FinishSlot) \in BOOLEAN
    OBVIOUS
<1>2. RecordAcceptedCheckpoint(r, index, slot, slot = FinishSlot) \in RaceState
    BY <1>1, RecordType
<1> QED
    BY <1>2, CountType, MoveType, ClearType DEF InternalOnCheckpoint

(* A reset race is a race state. *)
LEMMA FreshType ==
    ASSUME NEW mode \in Modes, NEW nbLaps \in Nat, NEW sized \in BOOLEAN
    PROVE  ResetValidationSession(mode, nbLaps, sized) \in RaceState
<1>1. {} \in SUBSET Slots /\ <<>> \in Seq(Event)
    OBVIOUS
<1> QED
    BY <1>1, CourseAssumption DEF ResetValidationSession, RaceState

(* Establishing the initial spawn gives a race state. *)
LEMMA InitialSpawnType ==
    ASSUME NEW r \in RaceState, NEW loc \in Locations
    PROVE  SetInitialSpawnLocation(r, loc) \in RaceState
    BY DEF SetInitialSpawnLocation, RaceState

(* Preparing an event gives a race state. *)
LEMMA PrepareType ==
    ASSUME NEW r \in RaceState, now \in Nat
    PROVE  InternalPrepareEvent(r) \in RaceState
<1>1. r.contacts + 1 \in Nat
    BY FieldTypes
<1> QED
    BY <1>1, UpdateTypes, Zenon DEF InternalPrepareEvent

(* Clearing the journal gives a race state. *)
LEMMA JournalClearType ==
    ASSUME NEW r \in RaceState
    PROVE  ClearAcceptedCheckpointEvents(r) \in RaceState
<1>1. <<>> \in Seq(Event)
    OBVIOUS
<1> QED
    BY <1>1, UpdateTypes, Zenon DEF ClearAcceptedCheckpointEvents

(* Touching a block gives a race state, and its spawn is a location. *)
LEMMA TouchType ==
    ASSUME NEW r \in RaceState, NEW slot \in Checkpoints
    PROVE  /\ TouchBlock(r, slot) \in RaceState
           /\ SpawnOf(r, slot) \in Locations \cup {NoLocation}
<1>1. TouchBlock(r, slot) \in RaceState
    BY ClearType DEF TouchBlock
<1>2. SpawnOf(r, slot) \in Locations \cup {NoLocation}
    BY CourseAssumption DEF SpawnOf, RaceState
<1> QED
    BY <1>1, <1>2

(* A checkpoint contact gives a race state. *)
LEMMA OnCheckpointType ==
    ASSUME NEW r \in RaceState, NEW slot \in Checkpoints
    PROVE  OnCheckpoint(r, slot) \in RaceState
<1> DEFINE t == TouchBlock(r, slot)
<1>1. t \in RaceState
    BY TouchType
<1> HIDE DEF t
<1>2. slot \in Slots
    BY SlotFacts
<1>3. ASSUME Accepts(t, t.lapCheckpoints, slot)
      PROVE  InternalOnCheckpoint(t, t.lapCheckpoints, slot, SpawnOf(t, slot)) \in RaceState
    BY <1>1, <1>2, <1>3, TouchType, AcceptType DEF Accepts
<1> QED
    BY <1>1, <1>3 DEF OnCheckpoint, t

(* Counting a lap gives a race state. *)
LEMMA CountLapType ==
    ASSUME NEW r \in RaceState
    PROVE  CountLap(r) \in RaceState
<1> DEFINE l == [r EXCEPT !.finishes = @ + 1, !.laps = @ + 1]
<1>1. r.finishes + 1 \in Nat /\ r.laps + 1 \in Nat /\ 0 \in Nat
    BY FieldTypes
<1>2. l \in RaceState
    BY <1>1, UpdateTypes, Zenon
<1>3. CountLap(r) = IF l.requiredLaps # 0 /\ l.laps >= l.requiredLaps
                    THEN [l EXCEPT !.completed = TRUE]
                    ELSE [l EXCEPT !.passed = {}, !.lapCheckpoints = 0]
    BY Zenon DEF CountLap
<1> HIDE DEF l
<1>4. /\ [l EXCEPT !.completed = TRUE] \in RaceState
      /\ [l EXCEPT !.passed = {}, !.lapCheckpoints = 0] \in RaceState
    BY <1>1, <1>2, UpdateTypes
<1> QED
    BY <1>3, <1>4

(* A finish contact gives a race state. *)
LEMMA OnFinishLineType ==
    ASSUME NEW r \in RaceState
    PROVE  OnFinishLine(r) \in RaceState
<1>1. ShortcutFinish(r) \in RaceState
    <2> DEFINE q == RecordAcceptedCheckpoint(r, FinishSlot, FinishSlot, TRUE)
    <2>1. q \in RaceState
        BY SlotFacts, RecordType
    <2>2. ShortcutFinish(r) =
            [q EXCEPT !.finishes = @ + 1, !.laps = 1, !.completed = TRUE]
        BY Zenon DEF ShortcutFinish
    <2> HIDE DEF q
    <2>3. q.finishes + 1 \in Nat
        BY <2>1, FieldTypes
    <2>4. [q EXCEPT !.finishes = @ + 1, !.laps = 1, !.completed = TRUE] \in RaceState
        BY <2>1, <2>3, UpdateTypes
    <2> QED
        BY <2>2, <2>4
<1>2. CountLap(InternalOnCheckpoint(r, FinishSlot, FinishSlot, NoLocation)) \in RaceState
    BY SlotFacts, AcceptType, CountLapType
<1> QED
    BY <1>1, <1>2 DEF OnFinishLine

-----------------------------------------------------------------------------
(* Type correctness: every reachable state has the declared types.         *)
LEMMA TypeInit == Init => TypeOK
<1> SUFFICES ASSUME Init
             PROVE  TypeOK
    OBVIOUS
<1>1. race \in RaceState
    <2>1. "Race" \in Modes /\ 1 \in Nat /\ FALSE \in BOOLEAN
        BY DEF Modes
    <2> QED
        BY <2>1, FreshType, Zenon DEF Init
<1> QED
    BY <1>1 DEF Init, TypeOK, Phases

(* Every step keeps the state type-correct. *)
LEMMA TypeStep == TypeOK /\ [Next]_vars => TypeOK'
<1> SUFFICES ASSUME TypeOK, [Next]_vars
             PROVE  TypeOK'
    OBVIOUS
<1> USE DEF TypeOK, Phases
<1>1. ASSUME NEW mode \in Modes, NEW nbLaps \in 0..MaxLaps, NEW sized \in BOOLEAN,
             StartSession(mode, nbLaps, sized)
      PROVE  TypeOK'
    <2>1. nbLaps \in Nat /\ 0 \in Nat /\ StartLocation \in Locations
        BY BoundsAssumption, CourseAssumption
    <2>2. race' \in RaceState
        BY <1>1, <2>1, FreshType, InitialSpawnType, Zenon DEF StartSession
    <2> QED
        BY <1>1, <2>1, <2>2 DEF StartSession
<1>2. CASE BeginTick
    BY <1>2, JournalClearType DEF BeginTick
<1>3. ASSUME NEW slot \in Checkpoints, CheckpointContact(slot)
      PROVE  TypeOK'
    BY <1>3, PrepareType, OnCheckpointType DEF CheckpointContact
<1>4. CASE FinishContact
    BY <1>4, PrepareType, OnFinishLineType DEF FinishContact
<1>5. CASE EndTick
    BY <1>5 DEF EndTick
<1>6. CASE CaptureRuntimeClone
    BY <1>6 DEF CaptureRuntimeClone, Clone
<1>7. ASSUME NEW clone \in saved, RestoreRuntimeClone(clone)
      PROVE  TypeOK'
    BY <1>7 DEF RestoreRuntimeClone, Clone
<1>8. CASE UNCHANGED vars
    BY <1>8 DEF vars
<1> QED
    BY <1>1, <1>2, <1>3, <1>4, <1>5, <1>6, <1>7, <1>8
       DEF Next, Start, Simulate, Contact, Restore

(* Every variable has its declared type in every reachable state. *)
THEOREM TypeCorrect == Spec => []TypeOK
    BY TypeInit, TypeStep, PTL DEF Spec

-----------------------------------------------------------------------------
(* What the handlers do to each field, once for every proof below.         *)
LEMMA RecordEffect ==
    ASSUME NEW r \in RaceState, NEW index \in Slots, NEW slot \in Slots,
           NEW finish \in BOOLEAN
    PROVE  LET q == RecordAcceptedCheckpoint(r, index, slot, finish) IN
           /\ q.journal = Append(r.journal,
                                 [slot |-> slot, index |-> index, lap |-> r.laps + 1,
                                  event |-> r.events + 1, finish |-> finish])
           /\ q.events = r.events + 1
           /\ q.sized = r.sized /\ q.passed = r.passed
           /\ q.lapCheckpoints = r.lapCheckpoints /\ q.checkpoints = r.checkpoints
           /\ q.finishes = r.finishes /\ q.laps = r.laps /\ q.total = r.total
           /\ q.freewheelClears = r.freewheelClears
           /\ q.completed = r.completed /\ q.mode = r.mode
           /\ q.requiredLaps = r.requiredLaps
           /\ q.previousSpawn = r.previousSpawn /\ q.currentSpawn = r.currentSpawn
           /\ q.spawnReady = r.spawnReady /\ q.respawn = r.respawn
    BY DEF RecordAcceptedCheckpoint, RaceState

(* What counting a passage does to each field. *)
LEMMA CountEffect ==
    ASSUME NEW r \in RaceState, NEW index \in Slots, NEW slot \in Slots
    PROVE  LET q == CountPassage(r, index, slot)
               ordinary == IF index = FinishSlot THEN 0 ELSE 1 IN
           /\ q.passed = r.passed \cup {slot}
           /\ q.lapCheckpoints = r.lapCheckpoints + ordinary
           /\ q.checkpoints = r.checkpoints + ordinary
           /\ q.total = r.total + 1
           /\ q.journal = r.journal /\ q.events = r.events
           /\ q.sized = r.sized
           /\ q.finishes = r.finishes /\ q.laps = r.laps
           /\ q.freewheelClears = r.freewheelClears
           /\ q.completed = r.completed /\ q.mode = r.mode
           /\ q.requiredLaps = r.requiredLaps
           /\ q.previousSpawn = r.previousSpawn /\ q.currentSpawn = r.currentSpawn
           /\ q.spawnReady = r.spawnReady /\ q.respawn = r.respawn
    BY DEF CountPassage, RaceState

(* With the spawn established, the previous one never moves again. *)
LEMMA MoveEffect ==
    ASSUME NEW r \in RaceState, NEW loc \in Locations \cup {NoLocation}, r.spawnReady
    PROVE  LET q == MoveSpawn(r, loc) IN
           /\ q.spawnReady
           /\ q.previousSpawn = r.previousSpawn
           /\ q.currentSpawn = IF loc = NoLocation THEN r.previousSpawn ELSE loc
           /\ q.respawn = q.currentSpawn
           /\ q.journal = r.journal /\ q.events = r.events
           /\ q.sized = r.sized /\ q.passed = r.passed
           /\ q.lapCheckpoints = r.lapCheckpoints /\ q.checkpoints = r.checkpoints
           /\ q.finishes = r.finishes /\ q.laps = r.laps /\ q.total = r.total
           /\ q.freewheelClears = r.freewheelClears
           /\ q.completed = r.completed /\ q.mode = r.mode
           /\ q.requiredLaps = r.requiredLaps
    BY DEF MoveSpawn, ReturnToPreviousSpawn, StoreSpawnLocation, RaceState

(* Clearing the freewheel state counts, and changes nothing else. *)
LEMMA ClearEffect ==
    ASSUME NEW r \in RaceState
    PROVE  LET q == ClearVehicleFreewheelState(r) IN
           /\ q.freewheelClears = r.freewheelClears + 1
           /\ q.journal = r.journal /\ q.events = r.events
           /\ q.sized = r.sized /\ q.passed = r.passed
           /\ q.lapCheckpoints = r.lapCheckpoints /\ q.checkpoints = r.checkpoints
           /\ q.finishes = r.finishes /\ q.laps = r.laps /\ q.total = r.total
           /\ q.completed = r.completed /\ q.mode = r.mode
           /\ q.requiredLaps = r.requiredLaps
           /\ q.previousSpawn = r.previousSpawn /\ q.currentSpawn = r.currentSpawn
           /\ q.spawnReady = r.spawnReady /\ q.respawn = r.respawn
    BY DEF ClearVehicleFreewheelState, RaceState

(* Preparing an event changes no field RaceOK reads. *)
LEMMA PrepareEffect ==
    ASSUME NEW r \in RaceState
    PROVE  LET q == InternalPrepareEvent(r) IN
           /\ q.journal = r.journal
           /\ q.sized = r.sized /\ q.passed = r.passed /\ q.events = r.events
           /\ q.lapCheckpoints = r.lapCheckpoints /\ q.checkpoints = r.checkpoints
           /\ q.finishes = r.finishes /\ q.laps = r.laps /\ q.total = r.total
           /\ q.freewheelClears = r.freewheelClears
           /\ q.completed = r.completed /\ q.mode = r.mode
           /\ q.requiredLaps = r.requiredLaps
           /\ q.previousSpawn = r.previousSpawn /\ q.currentSpawn = r.currentSpawn
           /\ q.spawnReady = r.spawnReady /\ q.respawn = r.respawn
    BY DEF InternalPrepareEvent, RaceState

(* A new tick empties the journal and changes nothing else. *)
LEMMA JournalClearEffect ==
    ASSUME NEW r \in RaceState
    PROVE  LET q == ClearAcceptedCheckpointEvents(r) IN
           /\ q.journal = <<>>
           /\ q.sized = r.sized /\ q.passed = r.passed /\ q.events = r.events
           /\ q.lapCheckpoints = r.lapCheckpoints /\ q.checkpoints = r.checkpoints
           /\ q.finishes = r.finishes /\ q.laps = r.laps /\ q.total = r.total
           /\ q.freewheelClears = r.freewheelClears
           /\ q.completed = r.completed /\ q.mode = r.mode
           /\ q.requiredLaps = r.requiredLaps
           /\ q.previousSpawn = r.previousSpawn /\ q.currentSpawn = r.currentSpawn
           /\ q.spawnReady = r.spawnReady /\ q.respawn = r.respawn
    BY DEF ClearAcceptedCheckpointEvents, RaceState

(* What a Shortcut finish does to each field. *)
LEMMA ShortcutEffect ==
    ASSUME NEW r \in RaceState
    PROVE  LET q == ShortcutFinish(r) IN
           /\ q.journal = Append(r.journal,
                                 [slot |-> FinishSlot, index |-> FinishSlot,
                                  lap |-> r.laps + 1, event |-> r.events + 1,
                                  finish |-> TRUE])
           /\ q.events = r.events + 1
           /\ q.finishes = r.finishes + 1 /\ q.laps = 1 /\ q.completed
           /\ q.passed = r.passed /\ q.lapCheckpoints = r.lapCheckpoints
           /\ q.checkpoints = r.checkpoints /\ q.total = r.total
           /\ q.freewheelClears = r.freewheelClears /\ q.mode = r.mode
           /\ q.requiredLaps = r.requiredLaps
           /\ q.previousSpawn = r.previousSpawn /\ q.currentSpawn = r.currentSpawn
           /\ q.spawnReady = r.spawnReady /\ q.respawn = r.respawn
    BY DEF ShortcutFinish, RecordAcceptedCheckpoint, RaceState

(* What counting a lap does: the last lap ends the race, another opens a lap. *)
LEMMA CountLapEffect ==
    ASSUME NEW r \in RaceState
    PROVE  LET q == CountLap(r)
               last == r.requiredLaps # 0 /\ r.laps + 1 >= r.requiredLaps IN
           /\ q.finishes = r.finishes + 1 /\ q.laps = r.laps + 1
           /\ last => /\ q.completed
                      /\ q.passed = r.passed
                      /\ q.lapCheckpoints = r.lapCheckpoints
           /\ ~last => /\ q.completed = r.completed
                       /\ q.passed = {}
                       /\ q.lapCheckpoints = 0
           /\ q.journal = r.journal /\ q.events = r.events
           /\ q.checkpoints = r.checkpoints /\ q.total = r.total
           /\ q.freewheelClears = r.freewheelClears /\ q.mode = r.mode
           /\ q.requiredLaps = r.requiredLaps
           /\ q.previousSpawn = r.previousSpawn /\ q.currentSpawn = r.currentSpawn
           /\ q.spawnReady = r.spawnReady /\ q.respawn = r.respawn
    BY DEF CountLap, RaceState

(* What an accepted passage does to each field. *)
LEMMA AcceptEffect ==
    ASSUME NEW r \in RaceState, NEW index \in Slots, NEW slot \in Slots,
           NEW loc \in Locations \cup {NoLocation}, r.spawnReady
    PROVE  LET q == InternalOnCheckpoint(r, index, slot, loc)
               ordinary == IF index = FinishSlot THEN 0 ELSE 1 IN
           /\ q.journal = Append(r.journal,
                                 [slot |-> slot, index |-> index, lap |-> r.laps + 1,
                                  event |-> r.events + 1, finish |-> (slot = FinishSlot)])
           /\ q.events = r.events + 1
           /\ q.passed = r.passed \cup {slot}
           /\ q.lapCheckpoints = r.lapCheckpoints + ordinary
           /\ q.checkpoints = r.checkpoints + ordinary
           /\ q.total = r.total + 1
           /\ q.freewheelClears = r.freewheelClears + 1
           /\ q.spawnReady
           /\ q.previousSpawn = r.previousSpawn
           /\ q.currentSpawn = IF loc = NoLocation THEN r.previousSpawn ELSE loc
           /\ q.respawn = q.currentSpawn
           /\ q.sized = r.sized
           /\ q.finishes = r.finishes /\ q.laps = r.laps
           /\ q.completed = r.completed /\ q.mode = r.mode
           /\ q.requiredLaps = r.requiredLaps
<1> DEFINE finish == (slot = FinishSlot)
           a == RecordAcceptedCheckpoint(r, index, slot, finish)
           b == CountPassage(a, index, slot)
           c == MoveSpawn(b, loc)
<1>1. finish \in BOOLEAN
    OBVIOUS
<1>2. a \in RaceState
    BY <1>1, RecordType
<1>3. b \in RaceState
    BY <1>2, CountType
<1>4. c \in RaceState
    BY <1>3, MoveType
<1> DEFINE q == ClearVehicleFreewheelState(c)
           e == [slot |-> slot, index |-> index, lap |-> r.laps + 1,
                 event |-> r.events + 1, finish |-> finish]
           ordinary == IF index = FinishSlot THEN 0 ELSE 1
<1>5. InternalOnCheckpoint(r, index, slot, loc) = q
    BY DEF InternalOnCheckpoint
<1>6. /\ a.journal = Append(r.journal, e) /\ a.events = r.events + 1
      /\ a.sized = r.sized /\ a.passed = r.passed
      /\ a.lapCheckpoints = r.lapCheckpoints /\ a.checkpoints = r.checkpoints
      /\ a.finishes = r.finishes /\ a.laps = r.laps /\ a.total = r.total
      /\ a.freewheelClears = r.freewheelClears
      /\ a.completed = r.completed /\ a.mode = r.mode
      /\ a.requiredLaps = r.requiredLaps
      /\ a.previousSpawn = r.previousSpawn /\ a.spawnReady
  <2> HIDE DEF finish
  <2> QED
    BY <1>1, RecordEffect
<1> HIDE DEF finish, e, a
<1>7. /\ b.journal = Append(r.journal, e) /\ b.events = r.events + 1
      /\ b.sized = r.sized /\ b.passed = r.passed \cup {slot}
      /\ b.lapCheckpoints = r.lapCheckpoints + ordinary
      /\ b.checkpoints = r.checkpoints + ordinary
      /\ b.finishes = r.finishes /\ b.laps = r.laps /\ b.total = r.total + 1
      /\ b.freewheelClears = r.freewheelClears
      /\ b.completed = r.completed /\ b.mode = r.mode
      /\ b.requiredLaps = r.requiredLaps
      /\ b.previousSpawn = r.previousSpawn /\ b.spawnReady
    BY <1>2, <1>6, CountEffect
<1> HIDE DEF b, ordinary
<1>8. /\ q.journal = Append(r.journal, e) /\ q.events = r.events + 1
      /\ q.sized = r.sized /\ q.passed = r.passed \cup {slot}
      /\ q.lapCheckpoints = r.lapCheckpoints + ordinary
      /\ q.checkpoints = r.checkpoints + ordinary
      /\ q.finishes = r.finishes /\ q.laps = r.laps /\ q.total = r.total + 1
      /\ q.freewheelClears = r.freewheelClears + 1
      /\ q.completed = r.completed /\ q.mode = r.mode
      /\ q.requiredLaps = r.requiredLaps
      /\ q.previousSpawn = r.previousSpawn /\ q.spawnReady
      /\ q.currentSpawn = (IF loc = NoLocation THEN r.previousSpawn ELSE loc)
      /\ q.respawn = q.currentSpawn
    BY <1>3, <1>4, <1>7, MoveEffect, ClearEffect
<1> QED
    BY <1>5, <1>8, Zenon DEF e, finish, ordinary

-----------------------------------------------------------------------------
(* Two race states that differ in no field RaceOK reads (but for more      *)
(* freewheel clears where the per-contact rule allows them) are good       *)
(* together: used for the steps that only prepare an event or clear.       *)
LEMMA SameGood ==
    ASSUME NEW r \in RaceState, NEW q \in RaceState, Good(r),
           q.journal = r.journal \/ q.journal = <<>>, q.events = r.events,
           q.passed = r.passed, q.lapCheckpoints = r.lapCheckpoints,
           q.checkpoints = r.checkpoints, q.finishes = r.finishes,
           q.laps = r.laps, q.total = r.total, q.completed = r.completed,
           q.mode = r.mode, q.requiredLaps = r.requiredLaps,
           q.previousSpawn = r.previousSpawn, q.currentSpawn = r.currentSpawn,
           q.spawnReady = r.spawnReady, q.respawn = r.respawn,
           \/ q.freewheelClears = r.freewheelClears
           \/ ClearOnContact /\ q.freewheelClears = r.freewheelClears + 1
    PROVE  Good(q)
<1>1. LapCounterMatchesSlots(q)
    BY DEF Good, RaceOK, LapCounterMatchesSlots
<1>2. FinishSlotMarksCompletion(q)
    BY DEF Good, RaceOK, FinishSlotMarksCompletion
<1>3. CompletionIsEarned(q)
    BY DEF Good, RaceOK, CompletionIsEarned
<1>4. CountersAgree(q)
    BY DEF Good, RaceOK, CountersAgree
<1>5. JournalNumbersPassages(q)
    BY DEF Good, RaceOK, JournalNumbersPassages
<1>6. RespawnIsEarned(q)
    BY DEF Good, RaceOK, RespawnIsEarned
<1>7. FreewheelClearsCovered(q)
    BY FieldTypes DEF Good, RaceOK, FreewheelClearsCovered
<1> QED
    BY <1>1, <1>2, <1>3, <1>4, <1>5, <1>6, <1>7 DEF Good, RaceOK

(* Preparing an event keeps a race good. *)
LEMMA PrepareGood ==
    ASSUME NEW r, Good(r), now \in Nat
    PROVE  Good(InternalPrepareEvent(r))
<1> DEFINE q == InternalPrepareEvent(r)
<1>1. r \in RaceState /\ q \in RaceState
    BY PrepareType DEF Good
<1>2. /\ q.journal = r.journal /\ q.events = r.events
      /\ q.passed = r.passed /\ q.lapCheckpoints = r.lapCheckpoints
      /\ q.checkpoints = r.checkpoints /\ q.finishes = r.finishes
      /\ q.laps = r.laps /\ q.total = r.total /\ q.completed = r.completed
      /\ q.mode = r.mode /\ q.requiredLaps = r.requiredLaps
      /\ q.previousSpawn = r.previousSpawn /\ q.currentSpawn = r.currentSpawn
      /\ q.spawnReady = r.spawnReady /\ q.respawn = r.respawn
      /\ q.freewheelClears = r.freewheelClears
    BY <1>1, PrepareEffect
<1> HIDE DEF q
<1>3. \/ q.freewheelClears = r.freewheelClears
      \/ ClearOnContact /\ q.freewheelClears = r.freewheelClears + 1
    BY <1>2
<1>4. q.journal = r.journal \/ q.journal = <<>>
    BY <1>2
<1>5. Good(q)
    BY <1>1, <1>2, <1>3, <1>4, SameGood, Zenon
<1> QED
    BY <1>5 DEF q

(* Clearing the journal keeps a race good. *)
LEMMA JournalClearGood ==
    ASSUME NEW r, Good(r)
    PROVE  Good(ClearAcceptedCheckpointEvents(r))
<1> DEFINE q == ClearAcceptedCheckpointEvents(r)
<1>1. r \in RaceState /\ q \in RaceState
    BY JournalClearType DEF Good
<1>2. /\ q.journal = <<>> /\ q.events = r.events
      /\ q.passed = r.passed /\ q.lapCheckpoints = r.lapCheckpoints
      /\ q.checkpoints = r.checkpoints /\ q.finishes = r.finishes
      /\ q.laps = r.laps /\ q.total = r.total /\ q.completed = r.completed
      /\ q.mode = r.mode /\ q.requiredLaps = r.requiredLaps
      /\ q.previousSpawn = r.previousSpawn /\ q.currentSpawn = r.currentSpawn
      /\ q.spawnReady = r.spawnReady /\ q.respawn = r.respawn
      /\ q.freewheelClears = r.freewheelClears
    BY <1>1, JournalClearEffect
<1> HIDE DEF q
<1>3. \/ q.freewheelClears = r.freewheelClears
      \/ ClearOnContact /\ q.freewheelClears = r.freewheelClears + 1
    BY <1>2
<1>4. q.journal = r.journal \/ q.journal = <<>>
    BY <1>2
<1>5. Good(q)
    BY <1>1, <1>2, <1>3, <1>4, SameGood, Zenon
<1> QED
    BY <1>5 DEF q

(* Touching a block keeps a race good. *)
LEMMA TouchGood ==
    ASSUME NEW r, Good(r), NEW slot \in Checkpoints
    PROVE  /\ Good(TouchBlock(r, slot))
           /\ TouchBlock(r, slot).passed = r.passed
           /\ TouchBlock(r, slot).laps = r.laps
           /\ TouchBlock(r, slot).completed = r.completed
<1> DEFINE q == ClearVehicleFreewheelState(r)
<1>1. r \in RaceState /\ q \in RaceState
    BY ClearType DEF Good
<1>2. CASE ClearOnContact /\ slot \in CurrentTransform
    <2>1. TouchBlock(r, slot) = q
        BY <1>2 DEF TouchBlock
    <2>2. /\ q.journal = r.journal /\ q.events = r.events
          /\ q.passed = r.passed /\ q.lapCheckpoints = r.lapCheckpoints
          /\ q.checkpoints = r.checkpoints /\ q.finishes = r.finishes
          /\ q.laps = r.laps /\ q.total = r.total /\ q.completed = r.completed
          /\ q.mode = r.mode /\ q.requiredLaps = r.requiredLaps
          /\ q.previousSpawn = r.previousSpawn /\ q.currentSpawn = r.currentSpawn
          /\ q.spawnReady = r.spawnReady /\ q.respawn = r.respawn
          /\ q.freewheelClears = r.freewheelClears + 1
        BY <1>1, ClearEffect
    <2> HIDE DEF q
    <2>3. Good(q)
        BY <1>1, <1>2, <2>2, SameGood
    <2> QED
        BY <2>1, <2>2, <2>3
<1>3. CASE ~(ClearOnContact /\ slot \in CurrentTransform)
    BY <1>3 DEF TouchBlock
<1> QED
    BY <1>2, <1>3

-----------------------------------------------------------------------------
(* Arithmetic of the journal numbers.                                      *)
LEMMA NumberFacts ==
    ASSUME NEW laps \in Nat, NEW k \in Nat
    PROVE  /\ laps * Required \in Nat
           /\ (laps + 1) * Required = laps * Required + Required
           /\ laps * (Required + 1) = laps * Required + laps
           /\ 1 * Required = Required /\ 0 * Required = 0
    BY RequiredAssumption

(* A new last entry numbered and placed as the rule says keeps the rule.   *)
LEMMA JournalAppend ==
    ASSUME NEW r \in RaceState, NEW q \in RaceState, JournalNumbersPassages(r),
           NEW e \in Event, q.journal = Append(r.journal, e),
           q.events = r.events + 1, e.event = q.events,
           e.event = (e.lap - 1) * (Required + 1) + e.index + 1,
           e.finish <=> e.index = FinishSlot
    PROVE  JournalNumbersPassages(q)
<1>1. /\ r.journal \in Seq(Event) /\ r.events \in Nat /\ Len(r.journal) \in Nat
    BY FieldTypes
<1>2. Len(q.journal) = Len(r.journal) + 1
    BY <1>1
<1>3. ASSUME NEW i \in 1..Len(q.journal)
      PROVE  /\ q.journal[i].event + Len(q.journal) = q.events + i
             /\ q.journal[i].event = (q.journal[i].lap - 1) * (Required + 1)
                                       + q.journal[i].index + 1
             /\ q.journal[i].finish <=> q.journal[i].index = FinishSlot
    <2>1. CASE i = Len(r.journal) + 1
        <3>1. q.journal[i] = e
            BY <1>1, <2>1
        <3>2. e.event \in Nat
            BY DEF Event
        <3> QED
            BY <1>1, <1>2, <2>1, <3>1, <3>2
    <2>2. CASE i \in 1..Len(r.journal)
        <3> DEFINE f == r.journal[i]
        <3>1. q.journal[i] = f
            BY <1>1, <2>2
        <3>2. /\ f.event + Len(r.journal) = r.events + i
              /\ f.event = (f.lap - 1) * (Required + 1) + f.index + 1
              /\ f.finish <=> f.index = FinishSlot
            BY <2>2 DEF JournalNumbersPassages
        <3>3. f \in Event
            BY <1>1, <2>2
        <3>4. f.event \in Nat
            BY <3>3 DEF Event
        <3> HIDE DEF f
        <3>5. f.event + Len(q.journal) = q.events + i
            <4> DEFINE n == Len(r.journal)
                       m == r.events
                       g == f.event
            <4>1. n \in Nat /\ m \in Nat /\ g \in Nat /\ i \in Nat /\ g + n = m + i
                BY <1>1, <2>2, <3>2, <3>4
            <4>2. Len(q.journal) = n + 1 /\ q.events = m + 1
                BY <1>2
            <4> HIDE DEF n, m, g
            <4>3. g + (n + 1) = (m + 1) + i
                BY <4>1
            <4> QED
                BY <4>2, <4>3 DEF g
        <3> QED
            BY <3>1, <3>2, <3>5
    <2> QED
        BY <1>1, <1>2, <2>1, <2>2
<1> QED
    BY <1>3 DEF JournalNumbersPassages

(* The event of the passage that follows r's carries the right number.     *)
LEMMA NextEvent ==
    ASSUME NEW r, Good(r), ~r.completed, NEW slot \in Slots,
           NEW index \in Slots, index = r.lapCheckpoints, NEW finish \in BOOLEAN
    PROVE  LET e == [slot |-> slot, index |-> index, lap |-> r.laps + 1,
                     event |-> r.events + 1, finish |-> finish] IN
           /\ e \in Event
           /\ e.event = (e.lap - 1) * (Required + 1) + e.index + 1
<1>1. /\ r.laps \in Nat /\ r.events \in Nat /\ r.lapCheckpoints \in Nat
      /\ r.checkpoints \in Nat /\ r.finishes \in Nat
    BY FieldTypes DEF Good
<1>2. r.events = r.laps * Required + r.lapCheckpoints + r.laps
    BY DEF Good, RaceOK, CountersAgree
<1>3. r.events + 1 = r.laps * (Required + 1) + index + 1
    <2> DEFINE done == r.laps * Required
               upTo == r.laps * (Required + 1)
    <2>1. done \in Nat /\ upTo = done + r.laps
        BY <1>1, NumberFacts
    <2>2. r.events = done + r.lapCheckpoints + r.laps
        BY <1>2
    <2> HIDE DEF done, upTo
    <2>3. r.events + 1 = upTo + index + 1
        BY <1>1, <2>1, <2>2
    <2> QED
        BY <2>3 DEF upTo
<1>4. r.events + 1 = ((r.laps + 1) - 1) * (Required + 1) + index + 1
    BY <1>1, <1>3
<1>5. r.laps + 1 \in Nat /\ r.events + 1 \in Nat
    BY <1>1
<1> QED
    BY <1>4, <1>5 DEF Event

(* An accepted checkpoint leaves a good race.                              *)
LEMMA AcceptGood ==
    ASSUME NEW r, Good(r), NEW slot \in Checkpoints,
           Accepts(r, r.lapCheckpoints, slot)
    PROVE  Good(InternalOnCheckpoint(r, r.lapCheckpoints, slot, SpawnOf(r, slot)))
<1> DEFINE index == r.lapCheckpoints
           loc == SpawnOf(r, slot)
           q == InternalOnCheckpoint(r, index, slot, loc)
           marks == r.passed \ {FinishSlot}
           e == [slot |-> slot, index |-> index, lap |-> r.laps + 1,
                 event |-> r.events + 1, finish |-> (slot = FinishSlot)]
<1>1. /\ r \in RaceState /\ r.spawnReady
      /\ index \in Slots /\ slot \in Slots /\ slot \notin r.passed
      /\ slot # FinishSlot
    BY SlotFacts DEF Good, Accepts
<1>2. loc \in Locations \cup {NoLocation}
    BY <1>1, TouchType
<1>3. q \in RaceState
    BY <1>1, <1>2, AcceptType
<1>4. ~r.completed
    BY <1>1 DEF Good, RaceOK, CompletionIsEarned
<1>5. /\ index = Cardinality(marks)
      /\ index < Required
      /\ (r.passed \cup {slot}) \ {FinishSlot} = marks \cup {slot}
      /\ Cardinality(marks \cup {slot}) = index + 1
    BY <1>1, MarkFacts DEF Good, RaceOK, LapCounterMatchesSlots
<1>6. index # FinishSlot
    BY <1>5, RequiredAssumption DEF FinishSlot
<1>7. /\ q.journal = Append(r.journal, e)
      /\ q.events = r.events + 1
      /\ q.passed = r.passed \cup {slot}
      /\ q.lapCheckpoints = r.lapCheckpoints + 1
      /\ q.checkpoints = r.checkpoints + 1
      /\ q.total = r.total + 1
      /\ q.freewheelClears = r.freewheelClears + 1
      /\ q.spawnReady
      /\ q.previousSpawn = r.previousSpawn
      /\ q.currentSpawn = IF loc = NoLocation THEN r.previousSpawn ELSE loc
      /\ q.respawn = q.currentSpawn
      /\ q.finishes = r.finishes /\ q.laps = r.laps
      /\ q.completed = r.completed /\ q.mode = r.mode
      /\ q.requiredLaps = r.requiredLaps
    BY <1>1, <1>2, <1>6, AcceptEffect
<1>8. e \in Event /\ e.event = (e.lap - 1) * (Required + 1) + e.index + 1
    BY <1>1, <1>4, NextEvent
<1>9. /\ r.lapCheckpoints \in Nat /\ r.checkpoints \in Nat /\ r.finishes \in Nat
      /\ r.laps \in Nat /\ r.total \in Nat /\ r.events \in Nat
      /\ r.freewheelClears \in Nat
    BY <1>1, FieldTypes
<1> HIDE DEF q, loc, marks
<1>10. LapCounterMatchesSlots(q)
    BY <1>5, <1>7 DEF LapCounterMatchesSlots
<1>11. FinishSlotMarksCompletion(q)
    BY <1>1, <1>7 DEF Good, RaceOK, FinishSlotMarksCompletion
<1>12. CompletionIsEarned(q)
    BY <1>4, <1>7 DEF Good, RaceOK, CompletionIsEarned
<1>13. CountersAgree(q)
    <2>1. /\ r.checkpoints = r.laps * Required + r.lapCheckpoints
          /\ r.finishes = r.laps /\ r.events = r.checkpoints + r.finishes
          /\ r.events = r.total
        BY <1>4, <1>9 DEF Good, RaceOK, CountersAgree
    <2>2. q.checkpoints = q.laps * Required + q.lapCheckpoints
        <3> DEFINE done == r.laps * Required
        <3>1. done \in Nat /\ q.laps * Required = done
            BY <1>7, <1>9, NumberFacts
        <3>2. r.checkpoints = done + r.lapCheckpoints
            BY <2>1
        <3> HIDE DEF done
        <3>3. q.checkpoints = done + q.lapCheckpoints
            BY <1>7, <1>9, <3>1, <3>2
        <3> QED
            BY <3>1, <3>3
    <2> QED
        BY <1>4, <1>7, <1>9, <2>1, <2>2 DEF CountersAgree
<1>14. JournalNumbersPassages(q)
    <2>1. e.event = q.events /\ (e.finish <=> e.index = FinishSlot)
        BY <1>1, <1>6, <1>7
    <2> HIDE DEF e, index
    <2> QED
        BY <1>1, <1>3, <1>7, <1>8, <2>1, JournalAppend DEF Good, RaceOK
<1>15. RespawnIsEarned(q)
    <2>1. /\ r.previousSpawn = StartLocation
          /\ \/ r.currentSpawn = StartLocation
             \/ \E s \in r.passed \cap Checkpoints : r.currentSpawn = BlockSpawn[s]
        BY <1>1 DEF Good, RaceOK, RespawnIsEarned
    <2>2. \/ q.currentSpawn = StartLocation
          \/ \E s \in q.passed \cap Checkpoints : q.currentSpawn = BlockSpawn[s]
        <3>1. CASE slot \in CurrentTransform
            BY <1>7, <2>1, <3>1 DEF loc, SpawnOf
        <3>2. CASE slot \notin CurrentTransform
            <4>1. loc = BlockSpawn[slot] /\ slot \in q.passed \cap Checkpoints
                BY <1>7, <3>2 DEF loc, SpawnOf
            <4> QED
                BY <1>7, <2>1, <4>1
        <3> QED
            BY <3>1, <3>2
    <2> QED
        BY <1>7, <2>1, <2>2 DEF RespawnIsEarned
<1>16. FreewheelClearsCovered(q)
    BY <1>7, <1>9 DEF Good, RaceOK, FreewheelClearsCovered
<1>17. Good(q)
    BY <1>3, <1>7, <1>10, <1>11, <1>12, <1>13, <1>14, <1>15, <1>16 DEF Good, RaceOK
<1> QED
    BY <1>17 DEF q, loc

(* OnCheckpoint keeps a race good and leaves a completed one as it is.     *)
LEMMA CheckpointGood ==
    ASSUME NEW r, Good(r), NEW slot \in Checkpoints
    PROVE  Good(OnCheckpoint(r, slot))
<1> DEFINE t == TouchBlock(r, slot)
<1>1. Good(t)
    BY TouchGood
<1> HIDE DEF t
<1>2. CASE Accepts(t, t.lapCheckpoints, slot)
    BY <1>1, <1>2, AcceptGood DEF OnCheckpoint, t
<1>3. CASE ~Accepts(t, t.lapCheckpoints, slot)
    BY <1>1, <1>3 DEF OnCheckpoint, t
<1> QED
    BY <1>2, <1>3

(* What is known of a race at a finish line that does not refuse it.       *)
LEMMA FinishOpen ==
    ASSUME NEW r, Good(r), ~FinishRefused(r)
    PROVE  /\ ~r.completed
           /\ r.lapCheckpoints = FinishSlot
           /\ r.passed = Checkpoints
           /\ r.checkpoints = r.laps * Required + Required
           /\ r.finishes = r.laps
           /\ r.events = r.checkpoints + r.finishes
           /\ r.events = r.total
           /\ r.laps \in Nat /\ r.events \in Nat /\ r.total \in Nat
           /\ r.checkpoints \in Nat /\ r.freewheelClears \in Nat
           /\ r.laps * Required \in Nat /\ r.requiredLaps \in Nat
<1>1. /\ r \in RaceState /\ r.lapCheckpoints \in Nat /\ r.laps \in Nat
      /\ r.events \in Nat /\ r.total \in Nat /\ r.checkpoints \in Nat
      /\ r.freewheelClears \in Nat /\ r.requiredLaps \in Nat
    BY FieldTypes DEF Good
<1>2. ~r.completed /\ ~(r.lapCheckpoints < Required)
    BY DEF FinishRefused
<1>3. r.lapCheckpoints = Required /\ r.passed \ {FinishSlot} = Checkpoints
    <2> DEFINE marks == r.passed \ {FinishSlot}
    <2>1. r.lapCheckpoints = Cardinality(marks)
        BY DEF Good, RaceOK, LapCounterMatchesSlots
    <2>2. /\ Cardinality(marks) <= Required
          /\ Cardinality(marks) = Required => marks = Checkpoints
        BY <1>1, MarkFacts
    <2> HIDE DEF marks
    <2>3. r.lapCheckpoints = Required
        BY <1>1, <1>2, <2>1, <2>2, RequiredAssumption
    <2>4. marks = Checkpoints
        BY <2>1, <2>2, <2>3
    <2> QED
        BY <2>3, <2>4 DEF marks
<1>4. r.passed = Checkpoints
    BY <1>2, <1>3, SlotFacts DEF Good, RaceOK, FinishSlotMarksCompletion
<1>5. /\ r.checkpoints = r.laps * Required + r.lapCheckpoints
      /\ r.finishes = r.laps /\ r.events = r.checkpoints + r.finishes
      /\ r.events = r.total
    BY <1>1, <1>2 DEF Good, RaceOK, CountersAgree
<1>6. r.laps * Required \in Nat
    BY <1>1, NumberFacts
<1> QED
    BY <1>1, <1>2, <1>3, <1>4, <1>5, <1>6 DEF FinishSlot

(* A Shortcut finish leaves a good, completed race.                        *)
LEMMA ShortcutGood ==
    ASSUME NEW r, Good(r), ~FinishRefused(r), r.mode = "Shortcut"
    PROVE  Good(ShortcutFinish(r))
<1> DEFINE q == ShortcutFinish(r)
           e == [slot |-> FinishSlot, index |-> FinishSlot, lap |-> r.laps + 1,
                 event |-> r.events + 1, finish |-> TRUE]
<1>1. r \in RaceState /\ r.spawnReady
    BY DEF Good
<1>2. q \in RaceState
    <2>1. OnFinishLine(r) = q
        BY DEF OnFinishLine
    <2> QED
        BY <1>1, <2>1, OnFinishLineType
<1>3. r.laps = 0
    BY FinishOpen DEF Good, RaceOK, CompletionIsEarned
<1>4. /\ q.journal = Append(r.journal, e)
      /\ q.events = r.events + 1
      /\ q.finishes = r.finishes + 1 /\ q.laps = 1 /\ q.completed
      /\ q.passed = r.passed /\ q.lapCheckpoints = r.lapCheckpoints
      /\ q.checkpoints = r.checkpoints /\ q.total = r.total
      /\ q.freewheelClears = r.freewheelClears /\ q.mode = r.mode
      /\ q.requiredLaps = r.requiredLaps
      /\ q.previousSpawn = r.previousSpawn /\ q.currentSpawn = r.currentSpawn
      /\ q.spawnReady /\ q.respawn = r.respawn
    BY <1>1, ShortcutEffect
<1>5. e \in Event /\ e.event = (e.lap - 1) * (Required + 1) + e.index + 1
    <2>1. /\ ~r.completed /\ FinishSlot \in Slots
          /\ FinishSlot = r.lapCheckpoints
        BY SlotFacts, FinishOpen
    <2>2. TRUE \in BOOLEAN /\ (FinishSlot = FinishSlot) \in BOOLEAN
        OBVIOUS
    <2> QED
        BY <2>1, <2>2, NextEvent, ZenonT(60)
<1> HIDE DEF q
<1>6. LapCounterMatchesSlots(q)
    BY <1>4 DEF Good, RaceOK, LapCounterMatchesSlots
<1>7. FinishSlotMarksCompletion(q)
    BY <1>4, FinishOpen, SlotFacts DEF FinishSlotMarksCompletion
<1>8. CompletionIsEarned(q)
    BY <1>4, FinishOpen DEF CompletionIsEarned
<1>9. CountersAgree(q)
    <2>1. r.checkpoints = Required
        <3>1. r.checkpoints = r.laps * Required + Required
            BY FinishOpen
        <3>2. r.checkpoints = 0 * Required + Required
            BY <1>3, <3>1, Zenon
        <3>3. 0 * Required + Required = Required
            BY RequiredAssumption
        <3> QED
            BY <3>2, <3>3
    <2>2. q.laps * Required + 0 = Required
        BY <1>4, RequiredAssumption
    <2>3. /\ r.finishes = 0 /\ r.events = r.checkpoints + r.finishes
          /\ r.events = r.total
        BY <1>3, FinishOpen
    <2>4. q.checkpoints = q.laps * Required + (IF q.completed THEN 0 ELSE q.lapCheckpoints)
        BY <1>4, <2>1, <2>2
    <2>5. /\ q.finishes = q.laps
          /\ q.events = q.checkpoints + q.finishes
          /\ q.events = q.total + 1
        BY <1>4, <2>1, <2>3, RequiredAssumption
    <2>6. q.completed /\ q.mode = "Shortcut"
        BY <1>4
    <2> QED
        BY <2>4, <2>5, <2>6 DEF CountersAgree
<1>10. JournalNumbersPassages(q)
    <2>1. e.event = q.events /\ (e.finish <=> e.index = FinishSlot)
        BY <1>4
    <2> HIDE DEF e
    <2> QED
        BY <1>1, <1>2, <1>4, <1>5, <2>1, JournalAppend DEF Good, RaceOK
<1>11. RespawnIsEarned(q)
    BY <1>1, <1>4 DEF Good, RaceOK, RespawnIsEarned
<1>12. FreewheelClearsCovered(q)
    BY <1>4 DEF Good, RaceOK, FreewheelClearsCovered
<1>13. Good(q)
    BY <1>2, <1>4, <1>6, <1>7, <1>8, <1>9, <1>10, <1>11, <1>12 DEF Good, RaceOK
<1> QED
    BY <1>13 DEF q

(* An accepted finish line outside Shortcut leaves a good race: completed  *)
(* on the last lap, with empty slots before it.                            *)
LEMMA LapGood ==
    ASSUME NEW r, Good(r), ~FinishRefused(r), r.mode # "Shortcut"
    PROVE  Good(CountLap(InternalOnCheckpoint(r, FinishSlot, FinishSlot, NoLocation)))
<1> DEFINE p == InternalOnCheckpoint(r, FinishSlot, FinishSlot, NoLocation)
           q == CountLap(p)
           last == r.requiredLaps # 0 /\ r.laps + 1 >= r.requiredLaps
           e == [slot |-> FinishSlot, index |-> FinishSlot, lap |-> r.laps + 1,
                 event |-> r.events + 1, finish |-> (FinishSlot = FinishSlot)]
<1>1. r \in RaceState /\ r.spawnReady
    BY DEF Good
<1>2. p \in RaceState
    BY <1>1, SlotFacts, AcceptType
<1>3. q \in RaceState
    BY <1>2, CountLapType
<1>4. /\ p.journal = Append(r.journal, e)
      /\ p.events = r.events + 1
      /\ p.passed = r.passed \cup {FinishSlot}
      /\ p.lapCheckpoints = r.lapCheckpoints + 0
      /\ p.checkpoints = r.checkpoints + 0
      /\ p.total = r.total + 1
      /\ p.freewheelClears = r.freewheelClears + 1
      /\ p.spawnReady
      /\ p.previousSpawn = r.previousSpawn
      /\ p.currentSpawn = r.previousSpawn
      /\ p.respawn = p.currentSpawn
      /\ p.finishes = r.finishes /\ p.laps = r.laps
      /\ p.completed = r.completed /\ p.mode = r.mode
      /\ p.requiredLaps = r.requiredLaps
    BY <1>1, SlotFacts, AcceptEffect
<1> HIDE DEF p
<1>5. /\ q.journal = Append(r.journal, e)
      /\ q.events = r.events + 1
      /\ q.checkpoints = r.checkpoints + 0
      /\ q.total = r.total + 1
      /\ q.freewheelClears = r.freewheelClears + 1
      /\ q.spawnReady
      /\ q.previousSpawn = r.previousSpawn
      /\ q.currentSpawn = r.previousSpawn
      /\ q.respawn = q.currentSpawn
      /\ q.finishes = r.finishes + 1 /\ q.laps = r.laps + 1
      /\ q.mode = r.mode
      /\ q.requiredLaps = r.requiredLaps
      /\ last => /\ q.completed
                 /\ q.passed = r.passed \cup {FinishSlot}
                 /\ q.lapCheckpoints = r.lapCheckpoints + 0
      /\ ~last => /\ q.completed = r.completed
                  /\ q.passed = {}
                  /\ q.lapCheckpoints = 0
    BY <1>2, <1>4, CountLapEffect
<1>6. e \in Event /\ e.event = (e.lap - 1) * (Required + 1) + e.index + 1
    <2>1. /\ ~r.completed /\ FinishSlot \in Slots
          /\ FinishSlot = r.lapCheckpoints
        BY SlotFacts, FinishOpen
    <2>2. TRUE \in BOOLEAN /\ (FinishSlot = FinishSlot) \in BOOLEAN
        OBVIOUS
    <2> QED
        BY <2>1, <2>2, NextEvent, ZenonT(60)
<1> HIDE DEF q
<1>7. LapCounterMatchesSlots(q)
    <2>1. CASE last
        <3>1. q.passed \ {FinishSlot} = Checkpoints
            BY <1>5, <2>1, FinishOpen, SlotFacts
        <3> QED
            <4>1. q.lapCheckpoints = Required
                BY <1>5, <2>1, FinishOpen, RequiredAssumption DEF FinishSlot
            <4> QED
                BY <3>1, <4>1, SlotFacts DEF LapCounterMatchesSlots
    <2>2. CASE ~last
        <3>1. q.passed \ {FinishSlot} = {}
            BY <1>5, <2>2
        <3> QED
            BY <1>5, <2>2, <3>1, FS_EmptySet DEF LapCounterMatchesSlots
    <2> QED
        BY <2>1, <2>2
<1>8. FinishSlotMarksCompletion(q)
    BY <1>5, FinishOpen DEF FinishSlotMarksCompletion
<1>9. CompletionIsEarned(q)
    BY <1>5, FinishOpen DEF Good, RaceOK, CompletionIsEarned
<1>10. CountersAgree(q)
    <2> DEFINE done == r.laps * Required
    <2>1. done \in Nat /\ q.laps * Required = done + Required
        BY <1>5, FinishOpen, NumberFacts
    <2>2. /\ r.checkpoints = done + Required
          /\ r.finishes = r.laps /\ r.events = r.checkpoints + r.finishes
          /\ r.events = r.total /\ ~r.completed /\ r.laps \in Nat
        BY FinishOpen
    <2> HIDE DEF done
    <2>3. q.checkpoints = q.laps * Required
        BY <1>5, <2>1, <2>2, RequiredAssumption
    <2>4. q.checkpoints = q.laps * Required
                            + (IF q.completed THEN 0 ELSE q.lapCheckpoints)
        <3>1. CASE last
            BY <1>5, <2>1, <2>2, <2>3, <3>1, RequiredAssumption
        <3>2. CASE ~last
            BY <1>5, <2>1, <2>2, <2>3, <3>2, RequiredAssumption
        <3> HIDE DEF last
        <3> QED
            BY <3>1, <3>2
    <2>5. q.finishes = q.laps /\ q.events = q.checkpoints + q.finishes /\ q.events = q.total
        <3>1. /\ q.finishes = r.finishes + 1 /\ q.laps = r.laps + 1
              /\ q.events = r.events + 1 /\ q.total = r.total + 1
              /\ q.checkpoints = r.checkpoints + 0
            BY <1>5
        <3> QED
            BY <2>1, <2>2, <3>1, RequiredAssumption
    <2>6. q.total + 0 = q.total /\ q.mode # "Shortcut"
        BY <1>5, <2>1, <2>2, RequiredAssumption
    <2> QED
        BY <2>4, <2>5, <2>6 DEF CountersAgree
<1>11. JournalNumbersPassages(q)
    <2>1. e.event = q.events /\ (e.finish <=> e.index = FinishSlot)
        BY <1>5
    <2> HIDE DEF e
    <2> QED
        BY <1>1, <1>3, <1>5, <1>6, <2>1, JournalAppend DEF Good, RaceOK
<1>12. RespawnIsEarned(q)
    BY <1>1, <1>5 DEF Good, RaceOK, RespawnIsEarned
<1>13. FreewheelClearsCovered(q)
    BY <1>5, FinishOpen DEF Good, RaceOK, FreewheelClearsCovered
<1>14. Good(q)
    BY <1>3, <1>5, <1>7, <1>8, <1>9, <1>10, <1>11, <1>12, <1>13 DEF Good, RaceOK
<1> QED
    BY <1>14 DEF q, p

(* OnFinishLine keeps a race good.                                         *)
LEMMA FinishGood ==
    ASSUME NEW r, Good(r)
    PROVE  Good(OnFinishLine(r))
<1>1. CASE FinishRefused(r)
    BY <1>1 DEF OnFinishLine
<1>2. CASE ~FinishRefused(r) /\ r.mode = "Shortcut"
    BY <1>2, ShortcutGood DEF OnFinishLine
<1>3. CASE ~FinishRefused(r) /\ r.mode # "Shortcut"
    BY <1>3, LapGood DEF OnFinishLine
<1> QED
    BY <1>1, <1>2, <1>3

-----------------------------------------------------------------------------
(* The first state of a session is good.                                   *)
LEMMA FreshGood ==
    ASSUME NEW mode \in Modes, NEW nbLaps \in Nat, NEW sized \in BOOLEAN
    PROVE  Good(SetInitialSpawnLocation(
                    ResetValidationSession(mode, nbLaps, sized), StartLocation))
<1> DEFINE f == ResetValidationSession(mode, nbLaps, sized)
           q == SetInitialSpawnLocation(f, StartLocation)
<1>1. f \in RaceState
    BY FreshType
<1>2. q \in RaceState
    BY <1>1, CourseAssumption, InitialSpawnType
<1>3. /\ f.journal = <<>> /\ f.events = 0 /\ f.passed = {}
      /\ f.lapCheckpoints = 0 /\ f.checkpoints = 0 /\ f.finishes = 0
      /\ f.laps = 0 /\ f.total = 0 /\ f.freewheelClears = 0
      /\ f.completed = FALSE /\ f.requiredLaps = nbLaps /\ f.mode = mode
    BY DEF ResetValidationSession
<1> HIDE DEF f
<1>4. /\ q.previousSpawn = StartLocation /\ q.currentSpawn = StartLocation
      /\ q.respawn = StartLocation /\ q.spawnReady
      /\ q.journal = f.journal /\ q.events = f.events /\ q.passed = f.passed
      /\ q.lapCheckpoints = f.lapCheckpoints /\ q.checkpoints = f.checkpoints
      /\ q.finishes = f.finishes /\ q.laps = f.laps /\ q.total = f.total
      /\ q.freewheelClears = f.freewheelClears /\ q.completed = f.completed
      /\ q.requiredLaps = f.requiredLaps /\ q.mode = f.mode
    BY <1>1 DEF SetInitialSpawnLocation, RaceState
<1> HIDE DEF q
<1>5. LapCounterMatchesSlots(q)
    <2>1. q.passed \ {FinishSlot} = {} /\ q.lapCheckpoints = 0
        BY <1>3, <1>4
    <2> QED
        BY <2>1, FS_EmptySet DEF LapCounterMatchesSlots
<1>6. FinishSlotMarksCompletion(q)
    BY <1>3, <1>4 DEF FinishSlotMarksCompletion
<1>7. CompletionIsEarned(q)
    BY <1>3, <1>4 DEF CompletionIsEarned
<1>8. CountersAgree(q)
    <2>1. 0 * Required + 0 = 0
        BY RequiredAssumption
    <2> QED
        BY <1>3, <1>4, <2>1 DEF CountersAgree
<1>9. JournalNumbersPassages(q)
    <2>1. Len(q.journal) = 0
        BY <1>3, <1>4
    <2> QED
        BY <2>1 DEF JournalNumbersPassages
<1>10. RespawnIsEarned(q)
    BY <1>4 DEF RespawnIsEarned
<1>11. FreewheelClearsCovered(q)
    BY <1>3, <1>4 DEF FreewheelClearsCovered
<1>12. Good(q)
    BY <1>2, <1>4, <1>5, <1>6, <1>7, <1>8, <1>9, <1>10, <1>11 DEF Good, RaceOK
<1> QED
    BY <1>12 DEF q, f

(* The first state satisfies the inductive invariant. *)
LEMMA InvInit == Init => IInv
<1> SUFFICES ASSUME Init
             PROVE  IInv
    OBVIOUS
<1> QED
    BY TypeInit DEF Init, IInv

(* Every step keeps the inductive invariant. *)
LEMMA InvStep == IInv /\ [Next]_vars => IInv'
<1> SUFFICES ASSUME IInv, [Next]_vars
             PROVE  IInv'
    OBVIOUS
<1>1. TypeOK /\ TypeOK'
    BY TypeStep DEF IInv
<1>2. ASSUME NEW mode \in Modes, NEW nbLaps \in 0..MaxLaps, NEW sized \in BOOLEAN,
             StartSession(mode, nbLaps, sized)
      PROVE  IInv'
    <2>1. nbLaps \in Nat
        BY BoundsAssumption
    <2>2. Good(race')
        BY <1>2, <2>1, FreshGood, Zenon DEF StartSession
    <2> QED
        BY <1>1, <1>2, <2>2 DEF StartSession, IInv
<1>3. CASE BeginTick
    <2>1. Good(race)
        BY <1>3 DEF BeginTick, IInv
    <2>2. Good(race')
        BY <1>3, <2>1, JournalClearGood DEF BeginTick
    <2> QED
        BY <1>1, <1>3, <2>2 DEF BeginTick, IInv
<1>4. ASSUME NEW slot \in Checkpoints, CheckpointContact(slot)
      PROVE  IInv'
    <2>1. Good(race) /\ now \in Nat
        BY <1>1, <1>4 DEF CheckpointContact, IInv, TypeOK
    <2>2. Good(race')
        BY <1>4, <2>1, PrepareGood, CheckpointGood DEF CheckpointContact
    <2> QED
        BY <1>1, <1>4, <2>2 DEF CheckpointContact, IInv
<1>5. CASE FinishContact
    <2>1. Good(race) /\ now \in Nat
        BY <1>1, <1>5 DEF FinishContact, IInv, TypeOK
    <2>2. Good(race')
        BY <1>5, <2>1, PrepareGood, FinishGood DEF FinishContact
    <2> QED
        BY <1>1, <1>5, <2>2 DEF FinishContact, IInv
<1>6. CASE EndTick
    BY <1>1, <1>6 DEF EndTick, IInv
<1>7. CASE CaptureRuntimeClone
    <2>1. Good(race)
        BY <1>7 DEF CaptureRuntimeClone, IInv
    <2>2. \A clone \in saved' : clone.race = race
        BY <1>7 DEF CaptureRuntimeClone
    <2> QED
        BY <1>1, <1>7, <2>1, <2>2 DEF CaptureRuntimeClone, IInv
<1>8. ASSUME NEW clone \in saved, RestoreRuntimeClone(clone)
      PROVE  IInv'
    BY <1>1, <1>8 DEF RestoreRuntimeClone, IInv
<1>9. CASE UNCHANGED vars
    BY <1>1, <1>9 DEF vars, IInv
<1> QED
    BY <1>2, <1>3, <1>4, <1>5, <1>6, <1>7, <1>8, <1>9
       DEF Next, Start, Simulate, Contact, Restore

(* Every reachable state of every session satisfies the inductive          *)
(* invariant.                                                              *)
THEOREM Invariance == Spec => []IInv
    BY InvInit, InvStep, PTL DEF Spec

(* The race of a runtime that has no session yet is good but for its       *)
(* spawn, so RaceOK holds in every state of the inductive invariant.       *)
LEMMA InvImpliesOK == IInv => RaceOK(race)
<1> SUFFICES ASSUME IInv
             PROVE  RaceOK(race)
    OBVIOUS
<1>1. CASE phase # "Detached"
    BY <1>1 DEF IInv, Good
<1>2. CASE phase = "Detached"
    <2> DEFINE f == ResetValidationSession("Race", 1, FALSE)
    <2>1. race = f
        BY <1>2 DEF IInv
    <2>2. /\ f.journal = <<>> /\ f.events = 0 /\ f.passed = {}
          /\ f.lapCheckpoints = 0 /\ f.checkpoints = 0 /\ f.finishes = 0
          /\ f.laps = 0 /\ f.total = 0 /\ f.freewheelClears = 0
          /\ f.completed = FALSE /\ f.requiredLaps = 1 /\ f.mode = "Race"
          /\ f.spawnReady = FALSE
        BY DEF ResetValidationSession
    <2> HIDE DEF f
    <2>3. LapCounterMatchesSlots(f)
        <3>1. f.passed \ {FinishSlot} = {}
            BY <2>2
        <3> QED
            BY <2>2, <3>1, FS_EmptySet DEF LapCounterMatchesSlots
    <2>4. FinishSlotMarksCompletion(f) /\ CompletionIsEarned(f)
        BY <2>2 DEF FinishSlotMarksCompletion, CompletionIsEarned
    <2>5. CountersAgree(f)
        <3>1. 0 * Required + 0 = 0
            BY RequiredAssumption
        <3> QED
            BY <2>2, <3>1 DEF CountersAgree
    <2>6. JournalNumbersPassages(f)
        <3>1. Len(f.journal) = 0
            BY <2>2
        <3> QED
            BY <3>1 DEF JournalNumbersPassages
    <2>7. RespawnIsEarned(f) /\ FreewheelClearsCovered(f)
        BY <2>2 DEF RespawnIsEarned, FreewheelClearsCovered
    <2> QED
        BY <2>1, <2>3, <2>4, <2>5, <2>6, <2>7 DEF RaceOK
<1> QED
    BY <1>1, <1>2

(* All parts of RaceOK hold of the race in every reachable state.          *)
THEOREM RaceCorrect == Spec => []RaceOK(race)
    BY Invariance, InvImpliesOK, PTL

(* The lap counter is the number of marked checkpoint slots, always.       *)
THEOREM LapCounterCorrect == Spec => []LapCounterInv
<1>1. RaceOK(race) => LapCounterInv
    BY DEF RaceOK, LapCounterInv
<1> QED
    BY <1>1, RaceCorrect, PTL

(* The finish slot is marked exactly on a race completed in its laps.      *)
THEOREM FinishSlotCorrect == Spec => []FinishSlotInv
<1>1. RaceOK(race) => FinishSlotInv
    BY DEF RaceOK, FinishSlotInv
<1> QED
    BY <1>1, RaceCorrect, PTL

(* A race is completed when, and only when, its laps were run in full.     *)
THEOREM CompletionCorrect == Spec => []CompletionInv
<1>1. RaceOK(race) => CompletionInv
    BY DEF RaceOK, CompletionInv
<1> QED
    BY <1>1, RaceCorrect, PTL

(* The separately kept counters never drift apart.                         *)
THEOREM CountersCorrect == Spec => []CountersInv
<1>1. RaceOK(race) => CountersInv
    BY DEF RaceOK, CountersInv
<1> QED
    BY <1>1, RaceCorrect, PTL

(* Journal events are numbered without gap or repetition, always.          *)
THEOREM JournalCorrect == Spec => []JournalInv
<1>1. RaceOK(race) => JournalInv
    BY DEF RaceOK, JournalInv
<1> QED
    BY <1>1, RaceCorrect, PTL

(* A respawn goes to the start or to a checkpoint of the running lap.      *)
THEOREM RespawnCorrect == Spec => []RespawnInv
<1>1. RaceOK(race) => RespawnInv
    BY DEF RaceOK, RespawnInv
<1> QED
    BY <1>1, RaceCorrect, PTL

(* Every accepted passage cleared the freewheel state.                     *)
THEOREM FreewheelCorrect == Spec => []FreewheelInv
<1>1. RaceOK(race) => FreewheelInv
    BY DEF RaceOK, FreewheelInv
<1> QED
    BY <1>1, RaceCorrect, PTL

-----------------------------------------------------------------------------
(* What a contact does to a prepared good race, seen from the abstract lap *)
(* race; and a completed race keeps its outcome.                           *)
LEMMA TouchEffect ==
    ASSUME NEW r \in RaceState, NEW slot
    PROVE  LET t == TouchBlock(r, slot) IN
           /\ t.passed = r.passed /\ t.laps = r.laps /\ t.completed = r.completed
           /\ Outcome(t) = Outcome(r)
    BY ClearEffect DEF TouchBlock, Outcome

(* Of an accepted passage the lap race sees only the new mark.             *)
LEMMA AcceptMarks ==
    ASSUME NEW r \in RaceState, NEW index \in Slots, NEW slot \in Slots,
           NEW loc \in Locations \cup {NoLocation}
    PROVE  LET q == InternalOnCheckpoint(r, index, slot, loc) IN
           /\ q.passed = r.passed \cup {slot}
           /\ q.laps = r.laps /\ q.completed = r.completed
<1> DEFINE finish == (slot = FinishSlot)
           a == RecordAcceptedCheckpoint(r, index, slot, finish)
           b == CountPassage(a, index, slot)
           c == MoveSpawn(b, loc)
<1>1. finish \in BOOLEAN
    OBVIOUS
<1>2. a \in RaceState
    BY <1>1, RecordType
<1> HIDE DEF finish
<1>3. /\ a.passed = r.passed
      /\ a.laps = r.laps /\ a.completed = r.completed
    BY DEF RecordAcceptedCheckpoint, RaceState
<1> HIDE DEF a
<1>4. /\ b \in RaceState /\ b.passed = r.passed \cup {slot}
      /\ b.laps = r.laps /\ b.completed = r.completed
    <2>1. b \in RaceState
        BY <1>2, CountType
    <2> QED
        BY <1>2, <1>3, <2>1 DEF CountPassage, RaceState
<1> HIDE DEF b
<1>5. /\ c \in RaceState /\ c.passed = r.passed \cup {slot}
      /\ c.laps = r.laps /\ c.completed = r.completed
    <2>1. c \in RaceState
        BY <1>4, MoveType
    <2> QED
        BY <1>4, <2>1
           DEF MoveSpawn, StoreSpawnLocation, ReturnToPreviousSpawn, RaceState
<1> HIDE DEF c
<1>6. InternalOnCheckpoint(r, index, slot, loc) = ClearVehicleFreewheelState(c)
    BY DEF InternalOnCheckpoint, a, b, c, finish
<1> QED
    BY <1>5, <1>6, ClearEffect

(* A checkpoint contact takes a checkpoint of an open lap, or changes      *)
(* nothing the outcome shows.                                              *)
LEMMA CheckpointMaps ==
    ASSUME NEW r, Good(r), NEW slot \in Checkpoints
    PROVE  LET q == OnCheckpoint(r, slot) IN
           \/ /\ AbsLap(q) = AbsLap(r) /\ q.laps = r.laps
              /\ q.completed = r.completed /\ Outcome(q) = Outcome(r)
           \/ /\ ~r.completed /\ ~q.completed /\ q.laps = r.laps
              /\ slot \notin AbsLap(r)
              /\ AbsLap(q) = AbsLap(r) \cup {slot}
<1> DEFINE t == TouchBlock(r, slot)
           q == OnCheckpoint(r, slot)
<1>1. r \in RaceState
    BY DEF Good
<1>2. /\ t.passed = r.passed /\ t.laps = r.laps /\ t.completed = r.completed
      /\ Outcome(t) = Outcome(r)
    BY <1>1, TouchEffect
<1>3. Good(t)
    BY TouchGood
<1>4. t \in RaceState /\ t.spawnReady
    BY <1>3 DEF Good
<1>5. SpawnOf(t, slot) \in Locations \cup {NoLocation}
    BY <1>4, TouchType
<1>6. slot \in Slots /\ slot # FinishSlot
    BY SlotFacts
<1> HIDE DEF t
<1>7. CASE Accepts(t, t.lapCheckpoints, slot)
    <2>1. q = InternalOnCheckpoint(t, t.lapCheckpoints, slot, SpawnOf(t, slot))
        BY <1>7 DEF OnCheckpoint, t
    <2>2. t.lapCheckpoints \in Slots /\ slot \notin t.passed
        BY <1>7 DEF Accepts
    <2>3. q.passed = t.passed \cup {slot} /\ q.laps = t.laps /\ q.completed = t.completed
        BY <1>4, <1>5, <1>6, <2>1, <2>2, AcceptMarks
    <2>4. ~t.completed
        BY <1>3, <2>2 DEF Good, RaceOK, CompletionIsEarned
    <2> HIDE DEF q
    <2>5. slot \notin AbsLap(r) /\ AbsLap(q) = AbsLap(r) \cup {slot}
        BY <1>2, <1>6, <2>2, <2>3 DEF AbsLap
    <2> QED
        BY <1>2, <2>3, <2>4, <2>5 DEF q
<1>8. CASE ~Accepts(t, t.lapCheckpoints, slot)
    <2>1. q = t
        BY <1>8 DEF OnCheckpoint, t
    <2> QED
        BY <1>2, <2>1 DEF AbsLap
<1> QED
    BY <1>7, <1>8

(* A finish contact closes a complete lap, ends the race, or changes       *)
(* nothing at all.                                                         *)
LEMMA FinishMaps ==
    ASSUME NEW r, Good(r)
    PROVE  LET q == OnFinishLine(r) IN
           \/ q = r
           \/ /\ ~r.completed /\ ~q.completed /\ q.laps = r.laps + 1
              /\ AbsLap(r) = Checkpoints /\ AbsLap(q) = {}
           \/ /\ ~r.completed /\ q.completed /\ q.laps = r.laps + 1
              /\ AbsLap(r) = Checkpoints /\ AbsLap(q) = AbsLap(r)
<1> DEFINE q == OnFinishLine(r)
<1>1. r \in RaceState /\ r.spawnReady
    BY DEF Good
<1>2. CASE FinishRefused(r)
    BY <1>2 DEF OnFinishLine
<1>3. CASE ~FinishRefused(r)
    <2>1. ~r.completed /\ r.passed = Checkpoints
        BY <1>3, FinishOpen
    <2>2. AbsLap(r) = Checkpoints
        BY <2>1, SlotFacts DEF AbsLap
    <2>3. CASE r.mode = "Shortcut"
        <3>1. q = ShortcutFinish(r)
            BY <1>3, <2>3 DEF OnFinishLine
        <3>2. r.laps = 0
            BY <2>1, <2>3 DEF Good, RaceOK, CompletionIsEarned
        <3>3. q.laps = 1 /\ q.completed /\ q.passed = r.passed
            BY <1>1, <3>1, ShortcutEffect
        <3> HIDE DEF q
        <3>4. AbsLap(q) = AbsLap(r)
            BY <3>3 DEF AbsLap
        <3> QED
            BY <2>1, <2>2, <3>2, <3>3, <3>4 DEF q
    <2>4. CASE r.mode # "Shortcut"
        <3> DEFINE p == InternalOnCheckpoint(r, FinishSlot, FinishSlot, NoLocation)
        <3>1. q = IF Accepts(r, FinishSlot, FinishSlot) THEN CountLap(p) ELSE r
            BY <1>3, <2>4 DEF OnFinishLine
        <3>2. /\ p \in RaceState
              /\ p.passed = r.passed \cup {FinishSlot}
              /\ p.laps = r.laps /\ p.completed = r.completed
            BY <1>1, SlotFacts, AcceptType, AcceptEffect
        <3> HIDE DEF p
        <3>3. ASSUME q = CountLap(p)
              PROVE  /\ q.laps = r.laps + 1
                     /\ \/ ~q.completed /\ AbsLap(q) = {}
                        \/ q.completed /\ AbsLap(q) = AbsLap(r)
            <4> HIDE DEF q
            <4>1. /\ q.laps = p.laps + 1
                  /\ \/ q.completed /\ q.passed = p.passed
                     \/ q.completed = p.completed /\ q.passed = {}
                BY <3>2, <3>3, CountLapEffect
            <4> QED
                BY <2>1, <3>2, <4>1 DEF AbsLap
        <3> QED
            BY <2>1, <2>2, <3>1, <3>3
    <2> QED
        BY <2>3, <2>4
<1> QED
    BY <1>2, <1>3

(* Preparing an event or clearing the journal is no step of the lap race.  *)
LEMMA PrepareMaps ==
    ASSUME NEW r \in RaceState
    PROVE  /\ AbsLap(InternalPrepareEvent(r)) = AbsLap(r)
           /\ InternalPrepareEvent(r).laps = r.laps
           /\ InternalPrepareEvent(r).completed = r.completed
           /\ Outcome(InternalPrepareEvent(r)) = Outcome(r)
           /\ AbsLap(ClearAcceptedCheckpointEvents(r)) = AbsLap(r)
           /\ ClearAcceptedCheckpointEvents(r).laps = r.laps
           /\ ClearAcceptedCheckpointEvents(r).completed = r.completed
           /\ Outcome(ClearAcceptedCheckpointEvents(r)) = Outcome(r)
    BY PrepareEffect, JournalClearEffect DEF AbsLap, Outcome

(* A step of the simulation leaves a completed race its outcome: every     *)
(* slot is marked, so no checkpoint is accepted, and the finish refuses.   *)
LEMMA ClosedStep ==
    ASSUME IInv, Simulate, race.completed
    PROVE  Outcome(race') = Outcome(race)
<1>1. Good(race) /\ race \in RaceState /\ now \in Nat
    BY DEF IInv, TypeOK, Simulate, BeginTick, Contact, CheckpointContact,
           FinishContact, EndTick
<1>2. CASE BeginTick
    BY <1>1, <1>2, PrepareMaps DEF BeginTick
<1>3. ASSUME NEW slot \in Checkpoints, CheckpointContact(slot)
      PROVE  Outcome(race') = Outcome(race)
    <2> DEFINE p == InternalPrepareEvent(race)
    <2>1. Good(p) /\ p.completed /\ Outcome(p) = Outcome(race)
        BY <1>1, PrepareGood, PrepareMaps
    <2>2. race' = OnCheckpoint(p, slot)
        BY <1>3 DEF CheckpointContact
    <2> HIDE DEF p
    <2> QED
        BY <2>1, <2>2, CheckpointMaps
<1>4. CASE FinishContact
    <2> DEFINE p == InternalPrepareEvent(race)
    <2>1. Good(p) /\ p.completed /\ Outcome(p) = Outcome(race)
        BY <1>1, PrepareGood, PrepareMaps
    <2>2. race' = OnFinishLine(p)
        BY <1>4 DEF FinishContact
    <2> HIDE DEF p
    <2> QED
        BY <2>1, <2>2, FinishMaps
<1>5. CASE EndTick
    BY <1>5 DEF EndTick
<1> QED
    BY <1>2, <1>3, <1>4, <1>5 DEF Simulate, Contact

(* A completed race is closed: no later step of the simulation changes its *)
(* outcome, whatever blocks the car still touches.                         *)
THEOREM CompletedStaysClosed == Spec => CompletedRaceIsClosed
<1>1. IInv /\ [Next]_vars =>
          [Simulate /\ race.completed => Outcome(race') = Outcome(race)]_vars
    BY ClosedStep
<1> QED
    BY <1>1, Invariance, PTL DEF Spec, CompletedRaceIsClosed

-----------------------------------------------------------------------------
(* The refinement: the first state is the abstract one, and every step is  *)
(* an abstract step or a stutter.                                          *)
LEMMA MapInit == Init => Abs!AbsInit
<1>1. ASSUME race = ResetValidationSession("Race", 1, FALSE)
      PROVE  AbsLap(race) = {} /\ race.laps = 0 /\ race.completed = FALSE
    BY <1>1 DEF ResetValidationSession, AbsLap
<1> QED
    BY <1>1 DEF Init, Abs!AbsInit

(* Every step of the race under the inductive invariant maps.              *)
LEMMA MapStep == IInv /\ [Next]_vars => [Abs!AbsNext]_(Abs!absVars)
<1> SUFFICES ASSUME IInv, [Next]_vars
             PROVE  [Abs!AbsNext]_(Abs!absVars)
    OBVIOUS
<1> DEFINE keptNow == {AbsClone(clone.race) : clone \in saved}
           Stutter == /\ AbsLap(race') = AbsLap(race)
                      /\ race'.laps = race.laps
                      /\ race'.completed = race.completed
                      /\ saved' = saved
<1>1. ASSUME Stutter
      PROVE  [Abs!AbsNext]_(Abs!absVars)
    BY <1>1 DEF Abs!absVars
<1>2. ASSUME NEW mode \in Modes, NEW nbLaps \in 0..MaxLaps, NEW sized \in BOOLEAN,
             StartSession(mode, nbLaps, sized)
      PROVE  [Abs!AbsNext]_(Abs!absVars)
    <2> DEFINE f == ResetValidationSession(mode, nbLaps, sized)
    <2>1. f \in RaceState
        BY BoundsAssumption, FreshType
    <2>2. f.passed = {} /\ f.laps = 0 /\ f.completed = FALSE
        BY DEF ResetValidationSession
    <2>3. race' = SetInitialSpawnLocation(f, StartLocation) /\ saved' = saved
        BY <1>2 DEF StartSession
    <2> HIDE DEF f
    <2>4. race'.passed = {} /\ race'.laps = 0 /\ race'.completed = FALSE
        BY <2>1, <2>2, <2>3 DEF SetInitialSpawnLocation, RaceState
    <2>5. AbsLap(race') = {}
        BY <2>4 DEF AbsLap
    <2> QED
        BY <2>3, <2>4, <2>5 DEF Abs!AbsNext, Abs!NewRace
<1>3. CASE BeginTick
    <2>1. race \in RaceState
        BY DEF IInv, TypeOK
    <2>2. Stutter
        BY <1>3, <2>1, PrepareMaps DEF BeginTick
    <2> QED
        BY <1>1, <2>2
<1>4. ASSUME NEW slot \in Checkpoints, CheckpointContact(slot)
      PROVE  [Abs!AbsNext]_(Abs!absVars)
    <2> DEFINE p == InternalPrepareEvent(race)
    <2>1. Good(race) /\ now \in Nat
        BY <1>4 DEF IInv, TypeOK, CheckpointContact
    <2>2. /\ Good(p) /\ AbsLap(p) = AbsLap(race) /\ p.laps = race.laps
          /\ p.completed = race.completed
        BY <2>1, PrepareGood, PrepareMaps DEF Good
    <2>3. race' = OnCheckpoint(p, slot) /\ saved' = saved
        BY <1>4 DEF CheckpointContact
    <2> HIDE DEF p
    <2>4. \/ Stutter
          \/ /\ ~race.completed /\ ~race'.completed /\ race'.laps = race.laps
             /\ slot \notin AbsLap(race)
             /\ AbsLap(race') = AbsLap(race) \cup {slot}
        BY <2>2, <2>3, CheckpointMaps
    <2>5. race.completed \in BOOLEAN /\ race'.completed \in BOOLEAN
        <3>1. race \in RaceState /\ race' \in RaceState
            BY TypeStep DEF IInv, TypeOK
        <3> QED
            BY <3>1 DEF RaceState
    <2> QED
        BY <1>1, <2>3, <2>4, <2>5 DEF Abs!AbsNext, Abs!TakeCheckpoint
<1>5. CASE FinishContact
    <2> DEFINE p == InternalPrepareEvent(race)
    <2>1. Good(race) /\ now \in Nat
        BY <1>5 DEF IInv, TypeOK, FinishContact
    <2>2. /\ Good(p) /\ AbsLap(p) = AbsLap(race) /\ p.laps = race.laps
          /\ p.completed = race.completed
        BY <2>1, PrepareGood, PrepareMaps DEF Good
    <2>3. race' = OnFinishLine(p) /\ saved' = saved
        BY <1>5 DEF FinishContact
    <2> HIDE DEF p
    <2>4. \/ Stutter
          \/ /\ ~race.completed /\ ~race'.completed /\ race'.laps = race.laps + 1
             /\ AbsLap(race) = Checkpoints /\ AbsLap(race') = {}
          \/ /\ ~race.completed /\ race'.completed /\ race'.laps = race.laps + 1
             /\ AbsLap(race) = Checkpoints /\ AbsLap(race') = AbsLap(race)
        BY <2>2, <2>3, FinishMaps
    <2>5. race.completed \in BOOLEAN /\ race'.completed \in BOOLEAN
        <3>1. race \in RaceState /\ race' \in RaceState
            BY TypeStep DEF IInv, TypeOK
        <3> QED
            BY <3>1 DEF RaceState
    <2> QED
        BY <1>1, <2>3, <2>4, <2>5 DEF Abs!AbsNext, Abs!CloseLap, Abs!EndRace
<1>6. CASE EndTick
    BY <1>1, <1>6 DEF EndTick
<1>7. CASE CaptureRuntimeClone
    <2>1. race' = race /\ saved' = {[race |-> race, now |-> now]}
        BY <1>7 DEF CaptureRuntimeClone
    <2>2. {AbsClone(clone.race) : clone \in saved'}
              = {[lap |-> AbsLap(race), laps |-> race.laps, over |-> race.completed]}
        BY <2>1 DEF AbsClone
    <2> QED
        BY <2>1, <2>2 DEF Abs!AbsNext, Abs!Keep
<1>8. ASSUME NEW clone \in saved, RestoreRuntimeClone(clone)
      PROVE  [Abs!AbsNext]_(Abs!absVars)
    <2> DEFINE state == AbsClone(clone.race)
    <2>1. state \in keptNow
        OBVIOUS
    <2>2. /\ state.lap = AbsLap(clone.race) /\ state.laps = clone.race.laps
          /\ state.over = clone.race.completed
        BY DEF AbsClone
    <2>3. race' = clone.race /\ saved' = saved
        BY <1>8 DEF RestoreRuntimeClone
    <2> HIDE DEF state
    <2>4. Abs!GoBack(state)
        BY <2>2, <2>3 DEF Abs!GoBack
    <2> QED
        BY <2>1, <2>4 DEF Abs!AbsNext
<1>9. CASE UNCHANGED vars
    BY <1>1, <1>9 DEF vars
<1> QED
    BY <1>2, <1>3, <1>4, <1>5, <1>6, <1>7, <1>8, <1>9
       DEF Next, Start, Simulate, Contact, Restore

(* The race, with its counters, slots, spawns, journal and clones, behaves *)
(* as the abstract lap race.                                               *)
THEOREM RaceImplementsLapRace == Spec => ImplementsLapRace
    BY MapInit, MapStep, Invariance, PTL DEF Spec, ImplementsLapRace, Abs!AbsSpec
=============================================================================
