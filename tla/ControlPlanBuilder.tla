------------------------- MODULE ControlPlanBuilder -------------------------
(***************************************************************************)
(* BuildReplayControlPlan: the walk over an input timeline that makes the  *)
(* ticks of a control plan, one tick per turn of its loop.  A plan is      *)
(* either input-only (one target, at the end of the recorded duration) or  *)
(* compared with the samples of a ghost trajectory.                        *)
(*                                                                         *)
(* The events of the walk are the inputs of module ControlPlan, flattened  *)
(* into the one list the code reads with eventCursor.  Allocation failures *)
(* stop the build at any of its allocations.                               *)
(***************************************************************************)
EXTENDS ControlPlan, SequencesExt

CONSTANTS
    InputLists,     \* the input timelines to build from
    Requests        \* the ReplayControlPlanRequests to build

NoSamples == <<>>

ASSUME RequestAssumption ==
    /\ InputLists \subseteq Inputs
    /\ \A q \in Requests :
        /\ {q.tick, q.prestart, q.requested} \subseteq Nat
        /\ {q.duration, q.enable, q.spawn} \subseteq Int
        /\ q.compare \in BOOLEAN /\ q.trailing \in BOOLEAN
        /\ q.samples \in Seq(Nat)

VARIABLES
    request,        \* the request
    inputs,         \* its input timeline
    events,         \* the timeline as one list
    result,         \* "building", then a ReplayControlPlanBuildResult
    targets,        \* the times of the comparison targets
    clock,          \* timeMs of the last tick made
    state,          \* the ReplayControlState
    eventCursor,    \* events consumed
    endpointCursor, \* targets passed
    running,        \* previousRaceRunning
    resetDone,      \* raceStartResetDone
    spawned,        \* raceSpawnEstablished
    compared,       \* comparisonTargetCount
    ticks           \* the plan

vars == <<request, inputs, events, result, targets, clock, state, eventCursor,
          endpointCursor, running, resetDone, spawned, compared, ticks>>

Flat(in) ==
    FlattenSeq([i \in 1..(MaxTime + 1) |->
        [k \in DOMAIN in[i - 1] |->
            [time |-> i - 1, action |-> in[i - 1][k].action,
             value |-> in[i - 1][k].value]]])

-----------------------------------------------------------------------------
InputOnly(q) == ~q.compare /\ q.requested = 0 /\ q.duration >= 0

Invalid(q) ==
    \/ q.tick = 0
    \/ /\ ~InputOnly(q)
       /\ \/ ~q.compare \/ q.samples = NoSamples
          \/ q.requested = 0 \/ q.requested > Len(q.samples)

Targets(q) ==
    IF InputOnly(q) THEN <<q.prestart + q.duration>>
    ELSE [i \in 1..q.requested |-> q.prestart + q.samples[i]]

Ordered(times) == \A i \in 2..Len(times) : times[i - 1] <= times[i]

\* The tick that is observed although no target falls on it.
ObservationTime(q) == IF q.duration >= 0 THEN q.prestart + q.duration ELSE NoTime

FinalTime(q, times) == Later(times[Len(times)], ObservationTime(q))

-----------------------------------------------------------------------------
ApplyEvent(s, e) ==
    IF e.action \in {"Respawn", "FinishLine"} THEN s
    ELSE [s EXCEPT !.value[e.action] = e.value, !.time[e.action] = e.time]

StartState == [value |-> [a \in Actions |-> 0], time |-> [a \in Actions |-> Never],
               respawns |-> 0, finish |-> FALSE]

(* Mutant: the respawn is judged after the event has been applied to a     *)
(* state that starts the race anyway.                                      *)
ConsumeRespawnAlways(s, e) ==
    [ApplyEvent(s, e) EXCEPT
        !.respawns = IF e.action = "Respawn" /\ Active(e) THEN @ + 1 ELSE @,
        !.finish = @ \/ (e.action = "FinishLine" /\ CanonicalPress(e))]

\* One event of the inner loop, with the counts the tick takes from it.
Consume(s, e) ==
    [ApplyEvent(s, e) EXCEPT
        !.respawns = IF /\ e.action = "Respawn" /\ Active(e)
                        /\ s.value["RaceRunning"] # 0
                     THEN @ + 1 ELSE @,
        !.finish = @ \/ (e.action = "FinishLine" /\ CanonicalPress(e))]

(* Mutant: an event of the sample time itself waits for the next tick. *)
DueUpToBefore(t) ==
    Cardinality({i \in (eventCursor + 1)..Len(events) : events[i].time < t})

\* How many events the inner loop consumes: it stops at the first later one.
DueUpTo(t) ==
    Cardinality({i \in (eventCursor + 1)..Len(events) :
        \A j \in (eventCursor + 1)..i : events[j].time <= t})

\* The inner loop, from event to event.
Sampled(t) ==
    LET consumed[n \in 0..DueUpTo(t)] ==
            IF n = 0 THEN [state EXCEPT !.respawns = 0, !.finish = FALSE]
            ELSE Consume(consumed[n - 1], events[eventCursor + n])
    IN consumed[DueUpTo(t)]

-----------------------------------------------------------------------------
\* The target the tick looks at: the loop skips the ones before t, but
\* never past the last.
Endpoint(t) ==
    endpointCursor + Cardinality({i \in (endpointCursor + 1)..(Len(targets) - 1) :
        \A j \in (endpointCursor + 1)..i : targets[j] < t})

(* Mutant: a tick takes a target that fell between it and the last one. *)
MatchesLate(t) == Endpoint(t) < Len(targets) /\ targets[Endpoint(t) + 1] <= t

Matches(t) == Endpoint(t) < Len(targets) /\ targets[Endpoint(t) + 1] = t

Resets(t, s) ==
    /\ AtOrAfter(t, request.enable)
    /\ ~resetDone /\ ~running
    /\ s.value["RaceRunning"] # 0

Spawns(t) == ~spawned /\ AtOrAfter(t, SpawnTime(request))

MakeTick(t, s) == [
    observe |-> Matches(t) \/ t = ObservationTime(request),
    target |-> IF Matches(t) THEN Endpoint(t) + 1 ELSE 0,
    control |-> [
        clock |-> t,
        establishRaceSpawn |-> Spawns(t),
        enableRaceSimulation |-> AtOrAfter(t, request.enable),
        resetAtRaceStart |-> Resets(t, s),
        finishRace |-> s.finish,
        respawns |-> IF AtOrAfter(t, request.enable) THEN s.respawns ELSE 0,
        controls |-> Controls(s),
        stunts |-> StuntInputs(s)]]

Trailing(tick) ==
    [tick EXCEPT !.observe = FALSE, !.target = 0,
                 !.control.clock = @ + request.tick,
                 !.control.establishRaceSpawn = FALSE,
                 !.control.resetAtRaceStart = FALSE,
                 !.control.finishRace = FALSE,
                 !.control.respawns = 0]

-----------------------------------------------------------------------------
Init ==
    /\ request \in Requests
    /\ inputs \in InputLists
    /\ events = Flat(inputs)
    /\ result = "unchecked"
    /\ targets = <<>>
    /\ clock = 0
    /\ state = StartState
    /\ eventCursor = 0
    /\ endpointCursor = 0
    /\ running = FALSE
    /\ resetDone = FALSE
    /\ spawned = FALSE
    /\ compared = 0
    /\ ticks = <<>>

UntouchedPlan == UNCHANGED <<clock, state, eventCursor, endpointCursor, running,
                             resetDone, spawned, compared, ticks>>

\* The checks BuildReplayControlPlan makes before the walk.
CheckRequest ==
    /\ result = "unchecked"
    /\ \/ /\ Invalid(request)
          /\ result' = "InvalidRequest"
          /\ targets' = targets
       \/ /\ ~Invalid(request)
          /\ targets' = Targets(request)
          /\ result' = IF Ordered(targets') THEN "building"
                       ELSE "TargetTimeOutOfRange"
    /\ UntouchedPlan
    /\ UNCHANGED <<request, inputs, events>>

\* One turn of the loop.
BuildTick ==
    /\ result = "building"
    /\ clock + request.tick <= FinalTime(request, targets)
    /\ LET t == clock + request.tick
           s == Sampled(t)
       IN /\ ticks' = Append(ticks, MakeTick(t, s))
          /\ clock' = t
          /\ state' = s
          /\ eventCursor' = eventCursor + DueUpTo(t)
          /\ endpointCursor' = Endpoint(t) + IF Matches(t) THEN 1 ELSE 0
          /\ compared' = compared + IF Matches(t) THEN 1 ELSE 0
          /\ running' = (s.value["RaceRunning"] # 0)
          /\ resetDone' = (resetDone \/ Resets(t, s))
          /\ spawned' = (spawned \/ Spawns(t))
    /\ UNCHANGED <<request, inputs, events, result, targets>>

\* The trailing tick, and the count of targets.
FinishPlan ==
    /\ result = "building"
    /\ clock + request.tick > FinalTime(request, targets)
    /\ \/ /\ request.trailing /\ ticks = <<>>
          /\ result' = "MissingComparisonTarget"
          /\ ticks' = ticks
       \/ /\ request.trailing => ticks # <<>>
          /\ ticks' = IF request.trailing
                      THEN Append(ticks, Trailing(ticks[Len(ticks)]))
                      ELSE ticks
          /\ result' = IF compared = Len(targets) THEN "Success"
                       ELSE "MissingComparisonTarget"
    /\ UNCHANGED <<request, inputs, events, targets, clock, state, eventCursor,
                   endpointCursor, running, resetDone, spawned, compared>>

\* TargetAllocationFailed, TickReservationFailed and TickAllocationFailed
RunOutOfMemory ==
    /\ \/ result = "unchecked" /\ ~Invalid(request)
       \/ result = "building"
    /\ result' = "AllocationFailed"
    /\ UntouchedPlan
    /\ UNCHANGED <<request, inputs, events, targets>>

Next == CheckRequest \/ BuildTick \/ FinishPlan \/ RunOutOfMemory

Spec == Init /\ [][Next]_vars

-----------------------------------------------------------------------------
\* The ticks of the loop: all but the trailing one.
Sampling == {i \in DOMAIN ticks : ticks[i].control.clock <= clock}

(* The walk over the events gives every tick what the inputs up to its     *)
(* sample time determine, and nothing of a later input: the incremental    *)
(* state is never behind or ahead of the timeline.                         *)
TicksSampleTheInputs ==
    \A i \in Sampling :
        ticks[i].control = Control(request, inputs, i * request.tick)

(* A respawn pressed while the race runs is delivered by exactly one tick, *)
(* also when a trailing tick copies the last one; those before the race is *)
(* enabled are dropped, never delivered late.                              *)
RespawnsDeliveredOnce ==
    LET enabled == {i \in Sampling : AtOrAfter(i * request.tick, request.enable)}
        sum[k \in 0..Len(ticks)] ==
            IF k = 0 THEN 0 ELSE sum[k - 1] + ticks[k].control.respawns
        due == {p \in UNION {Due(request, inputs, i * request.tick) : i \in enabled} :
                    /\ inputs[p[1]][p[2]].action = "Respawn"
                    /\ Active(inputs[p[1]][p[2]])
                    /\ RunningBefore(inputs, p[1], p[2])}
    IN sum[Len(ticks)] = Cardinality(due)

(* A finished build reports success exactly when each target falls on a    *)
(* tick of its own; then that tick, and no other, carries it.  The         *)
(* recorded end of the run is observed if it falls on the grid, and the    *)
(* trailing tick adds no observation.                                      *)
TargetsComparedExactly ==
    result \in {"Success", "MissingComparisonTarget"} =>
        LET onGrid == \A i \in DOMAIN targets :
                /\ targets[i] > 0 /\ targets[i] % request.tick = 0
                /\ \A j \in DOMAIN targets : j # i => targets[j] # targets[i]
            end == ObservationTime(request)
            observed == {k \in DOMAIN ticks : ticks[k].observe}
        IN /\ (result = "Success") = onGrid
           /\ result = "Success" =>
                /\ \A i \in DOMAIN targets :
                    {k \in DOMAIN ticks : ticks[k].target = i}
                        = {targets[i] \div request.tick}
                /\ end > 0 /\ end % request.tick = 0 => end \div request.tick \in observed
                /\ \A k \in observed : ticks[k].target # 0 \/ ticks[k].control.clock = end
=============================================================================
