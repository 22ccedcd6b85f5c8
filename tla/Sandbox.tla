------------------------------ MODULE Sandbox ------------------------------
(***************************************************************************)
(* PhysicsSandbox (validation/api/validation_api.cpp): a loaded scenario,  *)
(* an input timeline the caller may edit, the control plan built from it,  *)
(* a runtime that has executed a prefix of that plan, and captured states  *)
(* that can be restored.                                                   *)
(*                                                                         *)
(* The runtime's state is a function of the control ticks it has executed  *)
(* since it was started, so it is modelled as that sequence: executed.     *)
(* Whether the sandbox still is what its inputs say is then a question     *)
(* about executed, the plan and the inputs.                                *)
(*                                                                         *)
(* Times are on the simulation clock of module ControlPlan: race time plus *)
(* the prestart.  Plan indexes are the code's, from 0.                     *)
(***************************************************************************)
EXTENDS ControlPlan

CONSTANTS
    Tick,            \* tickDurationMs
    Prestart,        \* prestartTicks
    Canonical,       \* timelineMode = Canonical
    Scenarios,       \* the replays a caller loads
    LoadedInputs,    \* scenario -> the inputs LoadScenarioFile takes from it
    Duration,        \* scenario -> its recorded duration, in ticks
    InitialHorizon,  \* options.simulationHorizonMs, in ticks
    Horizons,        \* bound: the horizons a caller asks for, in ticks
    Edits,           \* bound: the timelines a caller writes
    Windows,         \* bound: the windows <<minimum, maximum>> a caller edits
    MaxCount,        \* bound: the ticks asked of one AdvanceTicks
    MaxFailures      \* bound: the calls that fail half done

NoScenario == "none"

ASSUME TimingAssumption ==
    /\ Tick \in Nat \ {0} /\ Prestart \in Nat \ {0}
    /\ InitialHorizon \in Nat \ {0}
    /\ Horizons \subseteq Nat \ {0}
    /\ Duration \in [Scenarios -> Nat \ {0}]
    /\ Canonical \in BOOLEAN
ASSUME InputAssumption ==
    /\ \A h \in Horizons \cup {InitialHorizon} \cup {Duration[s] : s \in Scenarios} :
        (Prestart + h) * Tick <= MaxTime
    /\ LoadedInputs \in [Scenarios -> Inputs]
    /\ Edits \subseteq Inputs
    /\ \A w \in Windows : {w[1], w[2]} \subseteq Times /\ w[1] <= w[2]
ASSUME ScenarioAssumption == NoScenario \notin Scenarios
ASSUME BoundAssumption == MaxCount \in Nat /\ MaxFailures \in Nat

VARIABLES
    scenario,   \* scenarioFingerprint, NoScenario before the first load
    loaded,     \* loaded
    horizon,    \* simulationHorizonMs, in ticks
    inputs,     \* a SandboxInputStorage
    plan,       \* a SandboxControlPlanStorage
    cursor,     \* cursor
    phase,      \* the runtime's phase; "Detached" if there is no started one
    executed,   \* the ticks the runtime has executed since it was started
    saved,      \* the PhysicsSandboxState a caller holds: a set of at most one
    rewritten,  \* the executed ticks whose own inputs were edited afterwards,
                \* noted until a call has failed half done
    failed,     \* the runtime descends from a call that failed half done
    failures    \* how many calls have

vars == <<scenario, loaded, horizon, inputs, plan, cursor, phase, executed,
          saved, rewritten, failed, failures>>

Phases == {"Detached", "Idle", "Stepping"}

-----------------------------------------------------------------------------
(* SandboxInputStorage: a base timeline and a window over it, which is a   *)
(* timeline of its own interval of times; no interval, no window.          *)
NoWindow == <<>>

Full(in) == [base |-> in, window |-> NoWindow]

Materialize(s) ==
    [t \in Times |-> IF t \in DOMAIN s.window THEN s.window[t] ELSE s.base[t]]

\* The events up to a time, without those after it.
MaterializeThrough(s, end) ==
    [t \in Times |-> IF t <= end THEN Materialize(s)[t] ELSE <<>>]

(* SandboxControlPlanStorage: a base plan and a replaced stretch of it.    *)
FullPlan(ticks) == [base |-> ticks, begin |-> 0, replacement |-> <<>>]

Size(p) == Len(p.base)

Replaced(p, i) == i >= p.begin /\ i - p.begin < Len(p.replacement)

TickAt(p, i) == IF Replaced(p, i) THEN p.replacement[i - p.begin + 1]
                ELSE p.base[i + 1]

MaterializePlan(p) == [i \in 1..Size(p) |-> TickAt(p, i - 1)]

\* AdvanceControlPlan: the ticks handed to the runtime, chunk by chunk.
Stretch(p, begin, count) == [i \in 1..count |-> TickAt(p, begin + i - 1)]

-----------------------------------------------------------------------------
(* BuildControlPlan: the request the sandbox makes of the plan builder.    *)
RaceStart == Prestart * Tick

PlanRequest == [tick |-> Tick, enable |-> RaceStart, spawn |-> 0]

BuildPlan(in, ticks) ==
    [i \in 1..(Prestart + ticks) |-> Control(PlanRequest, in, i * Tick)]

\* The clock of the last tick executed; the edits' currentTime.
CurrentTime == cursor * Tick

HorizonEnd == RaceStart + horizon * Tick

-----------------------------------------------------------------------------
Init ==
    /\ scenario = NoScenario
    /\ loaded = FALSE
    /\ horizon = InitialHorizon
    /\ inputs = Full([t \in Times |-> <<>>])
    /\ plan = FullPlan(<<>>)
    /\ cursor = 0
    /\ phase = "Detached"
    /\ executed = <<>>
    /\ saved = {}
    /\ rewritten = {}
    /\ failed = FALSE
    /\ failures = 0

\* The members LoadScenarioFile assigns before it builds the plan.
CommitScenario(s) ==
    /\ scenario' = s
    /\ horizon' = IF Canonical THEN horizon ELSE Duration[s]
    /\ inputs' = Full(LoadedInputs[s])
    /\ saved' = saved

\* LoadReplay, LoadScenario: Restart(0) runs the prestart ticks.
Load(s) ==
    /\ CommitScenario(s)
    /\ plan' = FullPlan(BuildPlan(LoadedInputs[s], horizon'))
    /\ loaded' = TRUE
    /\ cursor' = Prestart
    /\ phase' = "Idle"
    /\ executed' = Stretch(plan', 0, Prestart)
    /\ rewritten' = {}
    /\ failed' = FALSE
    /\ UNCHANGED failures

\* The plan could not be allocated: the new session has no runtime yet, and
\* the old plan, cursor and loaded flag stay.
LoadFailsInPlan(s) ==
    /\ failures < MaxFailures
    /\ CommitScenario(s)
    /\ phase' = "Detached"
    /\ executed' = <<>>
    /\ failed' = TRUE
    /\ rewritten' = {}
    /\ failures' = failures + 1
    /\ UNCHANGED <<loaded, plan, cursor>>

\* Restart(0) stops after some of the prestart ticks, or before any: the
\* cursor is only written when it succeeds.
LoadFailsInRestart(s) ==
    /\ failures < MaxFailures
    /\ CommitScenario(s)
    /\ plan' = FullPlan(BuildPlan(LoadedInputs[s], horizon'))
    /\ loaded' = TRUE
    /\ \E done \in 0..Prestart :
        /\ executed' = Stretch(plan', 0, done)
        /\ phase' \in IF done < Prestart THEN Phases ELSE {"Idle"}
        /\ phase' = "Detached" => done = 0
    /\ failed' = TRUE
    /\ rewritten' = {}
    /\ failures' = failures + 1
    /\ UNCHANGED <<cursor>>

-----------------------------------------------------------------------------
(* Mutant: events of the current time are protected, but only up to the    *)
(* tick before it.                                                         *)
PastUnchangedLoose(new) ==
    \A t \in Times : t < CurrentTime - Tick => new[t] = Materialize(inputs)[t]

PastUnchanged(new) ==
    \A t \in Times : t < CurrentTime => new[t] = Materialize(inputs)[t]

\* The tick of the current time has been executed, and its inputs are open.
Rewrites(new) ==
    rewritten \cup IF ~failed /\ new[CurrentTime] # Materialize(inputs)[CurrentTime]
                   THEN {cursor} ELSE {}

ReplaceInputs(new) ==
    /\ loaded
    /\ PastUnchanged(new)
    /\ cursor <= Prestart + horizon
    /\ inputs' = Full(new)
    /\ plan' = FullPlan(BuildPlan(new, horizon))
    /\ rewritten' = Rewrites(new)
    /\ UNCHANGED <<scenario, loaded, horizon, cursor, phase, executed, saved,
                   failed, failures>>

\* The new plan's storage could not be allocated: the inputs are in already.
ReplaceInputsFails(new) ==
    /\ failures < MaxFailures
    /\ loaded
    /\ PastUnchanged(new)
    /\ cursor <= Prestart + horizon
    /\ inputs' = Full(new)
    /\ failed' = TRUE
    /\ rewritten' = {}
    /\ failures' = failures + 1
    /\ UNCHANGED <<scenario, loaded, horizon, plan, cursor, phase, executed, saved>>

\* Accelerate and Gas are one control to a window edit; the switch keys of
\* the steering and the race transitions are none of its three.
Controlled == {{"Steer"}, {"Accelerate", "Gas"}, {"Brake"}}

Touches(in, interval, acts) ==
    \E t \in interval, e \in acts : \E k \in DOMAIN in[t] : in[t][k].action = e

Affected(old, w) ==
    {acts \in Controlled : Touches(old, DOMAIN w, acts) \/ Touches(w, DOMAIN w, acts)}

Minimum(w) == CHOOSE t \in DOMAIN w : \A u \in DOMAIN w : t <= u
Maximum(w) == CHOOSE t \in DOMAIN w : \A u \in DOMAIN w : u <= t

\* The next event of a control after the window ends what the edit changed.
ResetTime(in, w, acts) ==
    LET next == {t \in Times : /\ Maximum(w) < t /\ t <= HorizonEnd
                               /\ Touches(in, {t}, acts)}
    IN IF next = {} THEN HorizonEnd
       ELSE CHOOSE t \in next : \A u \in next : t <= u

(* Mutant: only the window itself is planned again. *)
ReplacementEndAtWindow(old, w) == Maximum(w)

ReplacementEnd(old, w) ==
    LET ends == {Maximum(w)} \cup {ResetTime(old, w, acts) : acts \in Affected(old, w)}
        last == CHOOSE t \in ends : \A u \in ends : u <= t
    IN (last \div Tick) * Tick

ValidWindow(w) ==
    /\ RaceStart <= Minimum(w)
    /\ Minimum(w) % Tick = 0 /\ Maximum(w) % Tick = 0
    /\ Maximum(w) <= HorizonEnd

WindowBase == Materialize(inputs)

\* The bounds, the past, the new events, the stretch of plan they change.
ReplaceInputWindow(w) ==
    /\ loaded
    /\ ValidWindow(w)
    /\ Minimum(w) >= CurrentTime
    /\ LET old == WindowBase
           storage == [base |-> old, window |-> w]
           end == ReplacementEnd(old, w)
           partial == BuildPlan(MaterializeThrough(storage, end),
                                end \div Tick - Prestart)
           begin == Minimum(w) \div Tick - 1
       IN /\ Len(partial) <= Size(plan)
          /\ inputs' = storage
          /\ plan' = [base |-> IF plan.replacement = <<>> THEN plan.base
                               ELSE MaterializePlan(plan),
                      begin |-> begin,
                      replacement |-> SubSeq(partial, begin + 1, Len(partial))]
          /\ rewritten' = Rewrites(Materialize(storage))
    /\ UNCHANGED <<scenario, loaded, horizon, cursor, phase, executed, saved,
                   failed, failures>>

\* The part of a timeline a caller hands over with a window.
WindowOf(bounds, in) == [t \in bounds[1]..bounds[2] |-> in[t]]

(* Mutant: the replaced stretch stays over the new plan. *)
ResizedBase(ticks) ==
    [plan EXCEPT !.base = BuildPlan(Materialize(inputs), ticks)]

Resized(ticks) == FullPlan(BuildPlan(Materialize(inputs), ticks))

SetSimulationHorizon(ticks) ==
    /\ loaded /\ Canonical
    /\ cursor <= Prestart + ticks
    /\ horizon' = ticks
    /\ plan' = Resized(ticks)
    /\ UNCHANGED <<scenario, loaded, inputs, cursor, phase, executed, saved,
                   rewritten, failed, failures>>

\* The new plan's storage could not be allocated: the horizon is set already.
SetSimulationHorizonFails(ticks) ==
    /\ failures < MaxFailures
    /\ loaded /\ Canonical
    /\ cursor <= Prestart + ticks
    /\ horizon' = ticks
    /\ failed' = TRUE
    /\ rewritten' = {}
    /\ failures' = failures + 1
    /\ UNCHANGED <<scenario, loaded, inputs, plan, cursor, phase, executed, saved>>

-----------------------------------------------------------------------------
(* Mutant: a runtime within a tick is good enough. *)
StartedAtAll == phase # "Detached"

\* The session's guards: the runtime has been started and is between ticks.
BetweenTicks == phase = "Idle"

CanAdvance(count) == /\ loaded
                     /\ cursor + count <= Size(plan)
                     /\ BetweenTicks

AdvanceTicks(count) ==
    /\ CanAdvance(count)
    /\ executed' = executed \o Stretch(plan, cursor, count)
    /\ cursor' = cursor + count
    /\ UNCHANGED <<scenario, loaded, horizon, inputs, plan, phase, saved,
                   rewritten, failed, failures>>

\* An allocation fails in or between the ticks, or the scope cannot be left:
\* the ticks already run stay, a torn one leaves the runtime stepping, and
\* the cursor does not move.
AdvanceFails(count) ==
    /\ CanAdvance(count)
    /\ failures < MaxFailures
    /\ \E done \in 0..count :
        /\ executed' = executed \o Stretch(plan, cursor, done)
        /\ phase' \in IF done < count THEN {"Idle", "Stepping"} ELSE {"Idle"}
    /\ failed' = TRUE
    /\ rewritten' = {}
    /\ failures' = failures + 1
    /\ UNCHANGED <<scenario, loaded, horizon, inputs, plan, cursor, saved>>

Snapshot == [
    scenario |-> scenario, horizon |-> horizon, inputs |-> inputs,
    plan |-> plan, cursor |-> cursor, executed |-> executed,
    rewritten |-> rewritten, failed |-> failed]

\* CaptureState: ReadView must succeed and the runtime be between ticks.
CaptureState ==
    /\ loaded
    /\ cursor >= Prestart
    /\ BetweenTicks
    /\ saved' = {Snapshot}
    /\ UNCHANGED <<scenario, loaded, horizon, inputs, plan, cursor, phase,
                   executed, rewritten, failed, failures>>

\* A state captured under another horizon has its plan rebuilt.
PlanOf(s) == IF s.horizon = horizon THEN s.plan
             ELSE FullPlan(BuildPlan(Materialize(s.inputs), horizon))

RestoreState(s) ==
    /\ loaded
    /\ s.scenario = scenario
    /\ s.horizon = horizon \/ Canonical
    /\ s.cursor >= Prestart
    /\ s.cursor <= Size(PlanOf(s))
    /\ BetweenTicks
    /\ inputs' = s.inputs
    /\ plan' = PlanOf(s)
    /\ cursor' = s.cursor
    /\ executed' = s.executed
    /\ rewritten' = s.rewritten
    /\ failed' = s.failed
    /\ UNCHANGED <<scenario, loaded, horizon, phase, saved, failures>>

-----------------------------------------------------------------------------
Next ==
    \/ \E s \in Scenarios : Load(s) \/ LoadFailsInPlan(s) \/ LoadFailsInRestart(s)
    \/ \E new \in Edits : ReplaceInputs(new) \/ ReplaceInputsFails(new)
    \/ \E bounds \in Windows, new \in Edits : ReplaceInputWindow(WindowOf(bounds, new))
    \/ \E ticks \in Horizons :
        SetSimulationHorizon(ticks) \/ SetSimulationHorizonFails(ticks)
    \/ \E count \in 1..MaxCount : AdvanceTicks(count) \/ AdvanceFails(count)
    \/ CaptureState
    \/ \E s \in saved : RestoreState(s)

Spec == Init /\ [][Next]_vars

-----------------------------------------------------------------------------
WithinBase(p) == p.replacement # <<>> => p.begin + Len(p.replacement) <= Size(p)

(* A loaded sandbox none of whose calls failed half done has been started, *)
(* has a plan that ends at its horizon, and stands at a tick of the race   *)
(* or at its end, so it can be read and captured; a captured state of such *)
(* a sandbox stands within the plan captured with it.  A replaced stretch  *)
(* never reaches past the plan it lies over, a failure or not.             *)
PositionInPlan ==
    /\ loaded /\ ~failed =>
        /\ scenario # NoScenario
        /\ phase = "Idle"
        /\ Size(plan) = Prestart + horizon
        /\ Prestart <= cursor /\ cursor <= Size(plan)
    /\ \A s \in saved : ~s.failed =>
        Prestart <= s.cursor /\ s.cursor <= Size(s.plan)
    /\ \A p \in {plan} \cup {s.plan : s \in saved} : WithinBase(p)

(* What has been executed is the plan up to the cursor, but for the ticks  *)
(* whose own inputs were edited while they were the current one: edits,    *)
(* resizes, captures and restores, in any order, change no other tick that *)
(* the runtime has executed, and a restored runtime is put back on the     *)
(* plan it was captured with or on its rebuilding for the new horizon.     *)
Follows(run, p, position, excepted) ==
    /\ Len(run) = position
    /\ \A i \in 1..position : i \notin excepted => run[i] = TickAt(p, i - 1)

RuntimeFollowsPlan ==
    /\ loaded /\ ~failed => Follows(executed, plan, cursor, rewritten)
    /\ \A s \in saved : ~s.failed => Follows(s.executed, s.plan, s.cursor, s.rewritten)

\* Controls of a single action: the next event of the action settles them.
Independent == {"Steer", "Brake"}

OnlyIndependent(events) == \A k \in DOMAIN events : events[k].action \in Independent

Known == Edits \cup {LoadedInputs[s] : s \in Scenarios}

(* The timelines differ from one another in events of independent controls *)
(* alone.  The code ends a splice for accelerate and gas at the next event *)
(* of either, from where the plan keeps the value and the change time of   *)
(* the other; it does not extend one for the remaining actions.            *)
EditsIndependent ==
    \A d, e \in Known, t \in Times :
        d[t] = e[t] \/ (OnlyIndependent(d[t]) /\ OnlyIndependent(e[t]))

(* Edits of windows, one over another, leave the plan a full rebuild from  *)
(* the inputs ReadInputs reports would give, if they are independent.      *)
PlanIsRebuiltFrom(in) ==
    MaterializePlan(plan) = BuildPlan(Materialize(in), horizon)

WindowPlanIsRebuiltPlan == loaded /\ ~failed => PlanIsRebuiltFrom(inputs)

(* A runtime that a failure left within a tick is neither read into a      *)
(* captured state nor run on: until a load replaces it, it executes        *)
(* nothing, and no restore takes it for a whole one.                       *)
Reloaded == inputs' = Full(LoadedInputs[scenario']) /\ Len(executed') <= Prestart

TornUntilLoaded ==
    [][phase = "Stepping" =>
        \/ UNCHANGED <<phase, executed, cursor, saved>>
        \/ Reloaded /\ saved' = saved]_vars
=============================================================================
