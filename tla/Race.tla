-------------------------------- MODULE Race --------------------------------
(***************************************************************************)
(* The race state of one validation session: CTrackManiaRace              *)
(* (engine/game/trackmania_race.cpp).  The physics step calls              *)
(* OnCheckpointContact for every contact of the car with a checkpoint or   *)
(* finish trigger; the handler decides whether the contact is accepted,    *)
(* counts it, moves the respawn location, journals it, and completes the   *)
(* race.  The runtime begins and ends ticks around those calls, clears the *)
(* journal at each tick, and may capture the whole state and restore it.   *)
(*                                                                         *)
(* The fields of progress_ and of the player are one record, because the   *)
(* code copies them as one (RuntimeClone).  Locations are opaque values;   *)
(* the stunt part of the class has no influence on these fields.           *)
(***************************************************************************)
EXTENDS Naturals, Sequences, FiniteSets

CONSTANTS
    Required,          \* number of checkpoint blocks of the course
    CurrentTransform,  \* the slots whose block respawns at the current transform
    Locations,         \* places a car can respawn at
    NoLocation,        \* std::nullopt, and a null spawn pointer
    StartLocation,     \* where the car stands on the first tick
    OriginLocation,    \* the value-initialised GmIso4 of a fresh player
    BlockSpawn,        \* slot -> spawn of its block, or NoLocation
    ClearOnContact,    \* currentTransformCheckpointFreewheelClearEnabled_
    MaxLaps,           \* bound: the lap counts a challenge may ask for
    MaxContacts,       \* bound: trigger contacts in one session
    MaxTick,           \* bound: ticks in one session
    CloneTicks         \* bound: the ticks after which a caller captures a clone

Slots == 0..Required
Checkpoints == 0..(Required - 1)
FinishSlot == Required

ASSUME RequiredAssumption == Required \in Nat
ASSUME CourseAssumption ==
    /\ CurrentTransform \subseteq Checkpoints
    /\ StartLocation \in Locations
    /\ OriginLocation \in Locations
    /\ NoLocation \notin Locations
    /\ BlockSpawn \in [Checkpoints -> Locations \cup {NoLocation}]
ASSUME BoundsAssumption ==
    /\ MaxLaps \in Nat
    /\ MaxContacts \in Nat
    /\ MaxTick \in Nat
    /\ CloneTicks \subseteq Nat
    /\ ClearOnContact \in BOOLEAN

Modes == {"Race", "Shortcut"}
Phases == {"Detached", "Idle", "Stepping"}

VARIABLES
    race,    \* the fields of CTrackManiaRace
    now,     \* the timer's tick time, in ticks
    phase,   \* ReplaySimulationRuntime's phase
    saved    \* the RuntimeClone a caller holds: a set of at most one

vars == <<race, now, phase, saved>>

Event == [slot : Slots, index : Slots, lap : Nat, event : Nat, finish : BOOLEAN]

RaceState == [
    sized : BOOLEAN,             \* checkpointSlotsPassed_ could be allocated
    passed : SUBSET Slots,       \* the nonzero elements of checkpointSlotsPassed_
    lapCheckpoints : Nat,        \* currentLapCheckpointCount
    checkpoints : Nat,           \* checkpointCount
    finishes : Nat,              \* finishCount
    laps : Nat,                  \* completedLapCount
    total : Nat,                 \* totalCheckpointEventCount
    freewheelClears : Nat,       \* freewheelClearCount
    contacts : Nat,              \* preparedEventCount
    prepared : Nat,              \* lastPrepareTimeMs, in ticks
    completed : BOOLEAN,         \* raceCompleted
    mode : Modes,                \* replayPlayMode_
    requiredLaps : Nat,          \* requiredLapCount
    previousSpawn : Locations,   \* player.previousSpawnIso_
    currentSpawn : Locations,    \* player.currentSpawnIso_
    spawnReady : BOOLEAN,        \* currentSpawnLocationInitialized_
    respawn : Locations \cup {NoLocation},  \* playerSpawnLocation_
    journal : Seq(Event),        \* acceptedCheckpointEvents_
    events : Nat]                \* acceptedCheckpointEventCount_

Clone == [race : RaceState, now : Nat]

-----------------------------------------------------------------------------
(* ResetValidationSession and PrepareCheckpoints; the latter gives up the  *)
(* slots when their allocation fails.                                      *)
ResetValidationSession(mode, nbLaps, sized) == [
    sized |-> sized, passed |-> {}, lapCheckpoints |-> 0, checkpoints |-> 0,
    finishes |-> 0, laps |-> 0, total |-> 0, freewheelClears |-> 0,
    contacts |-> 0, prepared |-> 0, completed |-> FALSE,
    mode |-> mode, requiredLaps |-> nbLaps,
    previousSpawn |-> OriginLocation, currentSpawn |-> OriginLocation,
    spawnReady |-> FALSE, respawn |-> NoLocation,
    journal |-> <<>>, events |-> 0]

SetInitialSpawnLocation(r, loc) ==
    [r EXCEPT !.previousSpawn = loc, !.currentSpawn = loc,
              !.respawn = loc, !.spawnReady = TRUE]

InternalPrepareEvent(r) ==
    [r EXCEPT !.prepared = now, !.contacts = @ + 1]

(* Mutant: the event number is taken before it is incremented. *)
RecordStaleNumber(r, index, slot, finish) ==
    [r EXCEPT !.journal = Append(@, [slot |-> slot, index |-> index,
                                     lap |-> r.laps + 1,
                                     event |-> r.events,
                                     finish |-> finish]),
              !.events = @ + 1]

RecordAcceptedCheckpoint(r, index, slot, finish) ==
    [r EXCEPT !.journal = Append(@, [slot |-> slot, index |-> index,
                                     lap |-> r.laps + 1,
                                     event |-> r.events + 1,
                                     finish |-> finish]),
              !.events = @ + 1]

ClearVehicleFreewheelState(r) == [r EXCEPT !.freewheelClears = @ + 1]

(* Mutant: the player is not told of its new spawn. *)
StoreSpawnHalfway(r, loc) ==
    [r EXCEPT !.previousSpawn = IF r.spawnReady THEN @ ELSE loc,
              !.spawnReady = TRUE,
              !.respawn = loc]

(* EnsurePreviousSpawnLocationInitialized and StoreSpawnLocation *)
StoreSpawnLocation(r, loc) ==
    [r EXCEPT !.previousSpawn = IF r.spawnReady THEN @ ELSE loc,
              !.spawnReady = TRUE,
              !.respawn = loc,
              !.currentSpawn = loc]

(* A passage that brings no spawn sends the player back to the previous one. *)
ReturnToPreviousSpawn(r) ==
    [r EXCEPT !.currentSpawn = r.previousSpawn,
              !.respawn = IF r.spawnReady THEN r.previousSpawn ELSE @]

MoveSpawn(r, loc) ==
    IF loc = NoLocation THEN ReturnToPreviousSpawn(r) ELSE StoreSpawnLocation(r, loc)

CountPassage(r, index, slot) ==
    LET ordinary == IF index = FinishSlot THEN 0 ELSE 1
    IN [r EXCEPT !.passed = @ \cup {slot},
                 !.lapCheckpoints = @ + ordinary,
                 !.checkpoints = @ + ordinary,
                 !.total = @ + 1]

(* Mutant: a slot already marked is no obstacle. *)
AcceptsAgain(r, index, slot) == r.sized /\ index \in Slots

(* The guard of InternalOnCheckpoint and, when it holds, its effect. *)
Accepts(r, index, slot) ==
    /\ r.sized
    /\ index \in Slots
    /\ slot \notin r.passed

InternalOnCheckpoint(r, index, slot, loc) ==
    LET recorded == RecordAcceptedCheckpoint(r, index, slot, slot = FinishSlot)
        counted == CountPassage(recorded, index, slot)
    IN ClearVehicleFreewheelState(MoveSpawn(counted, loc))

(* A checkpoint whose block respawns at the current transform clears the   *)
(* freewheel state on every contact, accepted or not.                      *)
TouchBlock(r, slot) ==
    IF ClearOnContact /\ slot \in CurrentTransform
    THEN ClearVehicleFreewheelState(r) ELSE r

SpawnOf(r, slot) ==
    IF slot \in CurrentTransform THEN r.currentSpawn ELSE BlockSpawn[slot]

OnCheckpoint(r, slot) ==
    LET touched == TouchBlock(r, slot)
    IN IF Accepts(touched, touched.lapCheckpoints, slot)
       THEN InternalOnCheckpoint(touched, touched.lapCheckpoints, slot,
                                 SpawnOf(touched, slot))
       ELSE touched

(* Mutants: one lap too many; slots cleared before the end is tested.      *)
CountLapOffByOne(r) ==
    LET lapped == [r EXCEPT !.finishes = @ + 1, !.laps = @ + 1]
    IN IF lapped.requiredLaps # 0 /\ lapped.laps > lapped.requiredLaps
       THEN [lapped EXCEPT !.completed = TRUE]
       ELSE [lapped EXCEPT !.passed = {}, !.lapCheckpoints = 0]
CountLapClearsFirst(r) ==
    [r EXCEPT !.finishes = @ + 1, !.laps = @ + 1,
              !.passed = {}, !.lapCheckpoints = 0,
              !.completed = r.requiredLaps # 0 /\ r.laps + 1 >= r.requiredLaps]

(* The lap the finish line closes is counted; the last one ends the race,  *)
(* any other clears the slots for the next.                                *)
CountLap(r) ==
    LET lapped == [r EXCEPT !.finishes = @ + 1, !.laps = @ + 1]
    IN IF lapped.requiredLaps # 0 /\ lapped.laps >= lapped.requiredLaps
       THEN [lapped EXCEPT !.completed = TRUE]
       ELSE [lapped EXCEPT !.passed = {}, !.lapCheckpoints = 0]

ShortcutFinish(r) ==
    [RecordAcceptedCheckpoint(r, FinishSlot, FinishSlot, TRUE)
        EXCEPT !.finishes = @ + 1, !.laps = 1, !.completed = TRUE]

(* Mutant: a Shortcut race may skip checkpoints. *)
FinishRefusedWhenDone(r) == r.completed

FinishRefused(r) == r.completed \/ r.lapCheckpoints < Required

OnFinishLine(r) ==
    CASE FinishRefused(r) -> r
      [] ~FinishRefused(r) /\ r.mode = "Shortcut" -> ShortcutFinish(r)
      [] ~FinishRefused(r) /\ r.mode # "Shortcut" ->
            IF Accepts(r, FinishSlot, FinishSlot)
            THEN CountLap(InternalOnCheckpoint(r, FinishSlot, FinishSlot, NoLocation))
            ELSE r

ClearAcceptedCheckpointEvents(r) == [r EXCEPT !.journal = <<>>]


-----------------------------------------------------------------------------
Init ==
    /\ race = ResetValidationSession("Race", 1, FALSE)
    /\ now = 0
    /\ phase = "Detached"
    /\ saved = {}

(* ConfigureReplayRace, the map scene's reset of the race, and the first   *)
(* control tick, which always establishes the race spawn.                  *)
StartSession(mode, nbLaps, sized) ==
    /\ phase # "Stepping"
    /\ race' = SetInitialSpawnLocation(
                   ResetValidationSession(mode, nbLaps, sized), StartLocation)
    /\ now' = 0
    /\ phase' = "Idle"
    /\ UNCHANGED saved

BeginTick ==
    /\ phase = "Idle"
    /\ now < MaxTick
    /\ race' = ClearAcceptedCheckpointEvents(race)
    /\ now' = now + 1
    /\ phase' = "Stepping"
    /\ UNCHANGED saved

(* OnCheckpointContact with the car and a block of role Checkpoint *)
CheckpointContact(slot) ==
    /\ phase = "Stepping"
    /\ race.contacts < MaxContacts
    /\ race' = OnCheckpoint(InternalPrepareEvent(race), slot)
    /\ UNCHANGED <<now, phase, saved>>

(* OnCheckpointContact with the car and a (start-)finish block *)
FinishContact ==
    /\ phase = "Stepping"
    /\ race.contacts < MaxContacts
    /\ race' = OnFinishLine(InternalPrepareEvent(race))
    /\ UNCHANGED <<now, phase, saved>>

EndTick ==
    /\ phase = "Stepping"
    /\ phase' = "Idle"
    /\ UNCHANGED <<race, now, saved>>

CaptureRuntimeClone ==
    /\ phase = "Idle"
    /\ now \in CloneTicks
    /\ saved' = {[race |-> race, now |-> now]}
    /\ UNCHANGED <<race, now, phase>>

(* PrepareRuntimeCloneRestore refuses a clone with other slots. *)
RestoreRuntimeClone(clone) ==
    /\ phase = "Idle"
    /\ clone.race.sized = race.sized
    /\ race' = clone.race
    /\ now' = clone.now
    /\ UNCHANGED <<phase, saved>>

Start == \E mode \in Modes, nbLaps \in 0..MaxLaps, sized \in BOOLEAN :
            StartSession(mode, nbLaps, sized)

Contact == \/ \E slot \in Checkpoints : CheckpointContact(slot)
           \/ FinishContact

(* The steps of a running simulation: neither a restart nor a restore. *)
Simulate == BeginTick \/ Contact \/ EndTick

Restore == \E clone \in saved : RestoreRuntimeClone(clone)

Next == Start \/ Simulate \/ CaptureRuntimeClone \/ Restore

Spec == Init /\ [][Next]_vars

-----------------------------------------------------------------------------
(* Properties.  Each is a predicate on a race state, because it must hold  *)
(* of a captured clone as well as of the running race.                     *)

(* Every variable has its declared type, a captured clone included.        *)
TypeOK ==
    /\ race \in RaceState
    /\ now \in Nat
    /\ phase \in Phases
    /\ saved \in SUBSET Clone

(* The lap counter the finish line consults is the number of checkpoint    *)
(* slots marked in the running lap, however contacts repeat and whatever   *)
(* order they come in: no checkpoint is counted twice, none is lost.       *)
LapCounterMatchesSlots(r) ==
    r.lapCheckpoints = Cardinality(r.passed \ {FinishSlot})

(* Outside Shortcut the finish slot stays marked exactly on a completed    *)
(* race, so a lap that continues always finds its finish line open.        *)
FinishSlotMarksCompletion(r) ==
    (FinishSlot \in r.passed) <=> (r.completed /\ r.mode # "Shortcut")

(* A race completes when, and only when, its laps are done, and with every *)
(* checkpoint of the last lap marked; zero required laps never completes.  *)
CompletionIsEarned(r) ==
    /\ r.completed <=> IF r.mode = "Shortcut" THEN r.laps = 1
                       ELSE r.requiredLaps # 0 /\ r.laps = r.requiredLaps
    /\ r.completed => Checkpoints \subseteq r.passed
    /\ ~r.completed /\ r.requiredLaps # 0 /\ r.mode # "Shortcut"
            => r.laps < r.requiredLaps
    /\ ~r.completed /\ r.mode = "Shortcut" => r.laps = 0

(* The separately kept counters agree: checkpoints over all laps, finishes *)
(* with laps, journalled events with both, and the event total, which a    *)
(* Shortcut finish alone does not reach.                                   *)
CountersAgree(r) ==
    /\ r.checkpoints = r.laps * Required + (IF r.completed THEN 0 ELSE r.lapCheckpoints)
    /\ r.finishes = r.laps
    /\ r.events = r.checkpoints + r.finishes
    /\ r.events = r.total + (IF r.completed /\ r.mode = "Shortcut" THEN 1 ELSE 0)

(* The journal of a tick is the tail of one gap-free global sequence, and  *)
(* an event's number is determined by its lap and its place in the lap, so *)
(* several acceptances in one tick, a restore, or a lap change never       *)
(* repeat, skip or reorder a number.                                       *)
JournalNumbersPassages(r) ==
    \A i \in 1..Len(r.journal) :
        LET e == r.journal[i]
        IN /\ e.event + Len(r.journal) = r.events + i
           /\ e.event = (e.lap - 1) * (Required + 1) + e.index + 1
           /\ e.finish <=> e.index = FinishSlot

(* A respawn, which tests playerSpawnLocation_ but uses the player's own   *)
(* current spawn, goes to a place earned in the running lap: the start, or *)
(* the spawn of a checkpoint block marked since the last finish line.      *)
RespawnIsEarned(r) ==
    r.spawnReady =>
        /\ r.respawn = r.currentSpawn
        /\ r.previousSpawn = StartLocation
        /\ \/ r.currentSpawn = StartLocation
           \/ \E slot \in r.passed \cap Checkpoints :
                 r.currentSpawn = BlockSpawn[slot]

(* Each accepted passage but a Shortcut finish cleared the freewheel       *)
(* state; without the per-contact rule nothing else clears it.             *)
FreewheelClearsCovered(r) ==
    /\ r.freewheelClears >= r.total
    /\ ~ClearOnContact => r.freewheelClears = r.total

RaceOK(r) ==
    /\ LapCounterMatchesSlots(r)
    /\ FinishSlotMarksCompletion(r)
    /\ CompletionIsEarned(r)
    /\ CountersAgree(r)
    /\ JournalNumbersPassages(r)
    /\ RespawnIsEarned(r)
    /\ FreewheelClearsCovered(r)

(* LapCounterMatchesSlots of the running race *)
LapCounterInv == LapCounterMatchesSlots(race)
(* FinishSlotMarksCompletion of the running race *)
FinishSlotInv == FinishSlotMarksCompletion(race)
(* CompletionIsEarned of the running race *)
CompletionInv == CompletionIsEarned(race)
(* CountersAgree of the running race *)
CountersInv == CountersAgree(race)
(* JournalNumbersPassages of the running race *)
JournalInv == JournalNumbersPassages(race)
(* RespawnIsEarned of the running race *)
RespawnInv == RespawnIsEarned(race)
(* FreewheelClearsCovered of the running race *)
FreewheelInv == FreewheelClearsCovered(race)

(* A race in a started session with every part of RaceOK.                  *)
Good(r) ==
    /\ r \in RaceState
    /\ r.spawnReady
    /\ RaceOK(r)

(* The inductive invariant: all parts of RaceOK hold together, of the      *)
(* running race and of a captured clone, which a restore makes the running *)
(* race; the spawn is established before the first contact.                *)
IInv ==
    /\ TypeOK
    /\ phase # "Detached" => Good(race)
    /\ phase = "Detached" => race = ResetValidationSession("Race", 1, FALSE)
    /\ \A clone \in saved : Good(clone.race)

(* What a completed race may no longer change. *)
Outcome(r) == <<r.passed, r.lapCheckpoints, r.checkpoints, r.finishes, r.laps,
                r.total, r.completed, r.events, r.currentSpawn, r.respawn>>

(* A completed race is closed: no later contact, with any block in any     *)
(* order, is accepted, moves the respawn location or changes a counter;    *)
(* OnCheckpoint has no test of raceCompleted and relies on its slots.      *)
CompletedRaceIsClosed ==
    [][Simulate /\ race.completed => Outcome(race') = Outcome(race)]_vars

(* The refinement of the abstract lap race: the finish slot is no          *)
(* checkpoint, and a clone maps field by field.                            *)
AbsLap(r) == r.passed \ {FinishSlot}
AbsClone(r) == [lap |-> AbsLap(r), laps |-> r.laps, over |-> r.completed]
Abs == INSTANCE LapRace WITH
           lap <- AbsLap(race),
           laps <- race.laps,
           over <- race.completed,
           kept <- {AbsClone(clone.race) : clone \in saved}

(* Every step of the race is a step of the abstract lap race, or none.     *)
ImplementsLapRace == Abs!AbsSpec
=============================================================================
