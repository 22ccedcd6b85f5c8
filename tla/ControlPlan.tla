---------------------------- MODULE ControlPlan ----------------------------
(***************************************************************************)
(* What a control plan is (simulation/control/replay_control_plan.cpp): a  *)
(* recorded or scripted input timeline, sampled once per control tick.     *)
(* The builder walks the events once and carries a ReplayControlState; the *)
(* operators here say, without a walk, what each tick of its result is, as *)
(* a function of the inputs.  ControlPlanBuilder checks the two against    *)
(* each other.                                                             *)
(*                                                                         *)
(* An input timeline is ordered by time (ReplayInputTimeline::Create       *)
(* refuses any other), so it is given as a function from times to the      *)
(* events of that time, in order.  Times are on the simulation clock:      *)
(* input time - inputTimeBaseMs + validationPrestartMs, and 0 there is a   *)
(* positive input time, so an event is later than the initial change time  *)
(* 0 of an action that has had none.                                       *)
(***************************************************************************)
EXTENDS Integers, Sequences, FiniteSets

CONSTANT MaxTime     \* bound: the last time at which an input may lie

ASSUME MaxTimeAssumption == MaxTime \in Nat

Times == 0..MaxTime
Never == -1          \* the change time of an action that has had no event

Keys == {"Accelerate", "Brake", "SteerLeft", "SteerRight"}
Axes == {"Steer", "Gas"}
Actions == Keys \cup Axes \cup {"RaceRunning", "Respawn", "FinishLine"}
StuntActions == Keys \cup Axes

\* A switch is 0 released, 1 pressed or 2 active by another value; an axis
\* is its analog amount.
Event == [action : Actions, value : Int]
Inputs == [Times -> Seq(Event)]

Active(e) == e.value # 0
CanonicalPress(e) == e.value = 1

FullSteer == 65536
DeadZone == 655
GasThreshold == 19661

-----------------------------------------------------------------------------
(* The state left by the events up to time t: ApplyEvent keeps, for each   *)
(* action, the value and the time of its last event.                       *)
ChangesOf(in, a, t) ==
    {u \in Times : u <= t /\ \E k \in DOMAIN in[u] : in[u][k].action = a}

LastTime(in, a, t) ==
    LET changes == ChangesOf(in, a, t)
    IN IF changes = {} THEN Never
       ELSE CHOOSE u \in changes : \A v \in changes : v <= u

LastOf(seq, a) ==
    seq[CHOOSE k \in DOMAIN seq :
            /\ seq[k].action = a
            /\ \A j \in DOMAIN seq : seq[j].action = a => j <= k]

Value(in, a, u) == IF u = Never THEN 0 ELSE LastOf(in[u], a).value

\* f itself, but TLC evaluates it once and not at every application.
Evaluated(f) == CHOOSE g \in {f} : g = f

StateAt(in, t) ==
    LET last == Evaluated([a \in Actions |-> LastTime(in, a, t)])
    IN [time |-> last,
        value |-> Evaluated([a \in Actions |-> Value(in, a, last[a])])]

Pressed(in, a, t) == Value(in, a, LastTime(in, a, t)) # 0

-----------------------------------------------------------------------------
(* ControlsFromState: an axis and a pair of keys compete, and the later    *)
(* change wins.  On a tie the keys win if one is pressed.                  *)
Later(x, y) == IF x > y THEN x ELSE y

Magnitude(x) == IF x < 0 THEN -x ELSE x

Held(s, a) == s.value[a] # 0

Outdates(s, axis, keys) == \A a \in keys : s.time[axis] > s.time[a]

\* The axis and the later of its two keys have changed at one time, or never.
Tied(s, axis, key1, key2) == s.time[axis] = Later(s.time[key1], s.time[key2])

SteersByAxis(s) ==
    \/ Outdates(s, "Steer", {"SteerLeft", "SteerRight"})
    \/ /\ Tied(s, "Steer", "SteerLeft", "SteerRight")
       /\ ~Held(s, "SteerLeft") /\ ~Held(s, "SteerRight")
       /\ Magnitude(s.value["Steer"]) > DeadZone

GasByAxis(s) ==
    \/ Outdates(s, "Gas", {"Accelerate", "Brake"})
    \/ /\ Tied(s, "Gas", "Accelerate", "Brake")
       /\ ~Held(s, "Accelerate") /\ ~Held(s, "Brake")

KeySteering(s) ==
    IF Held(s, "SteerLeft") THEN -FullSteer
    ELSE IF Held(s, "SteerRight") THEN FullSteer ELSE 0

Controls(s) == [
    steering |-> IF SteersByAxis(s) THEN s.value["Steer"] ELSE KeySteering(s),
    gateA |-> IF GasByAxis(s) THEN s.value["Gas"] <= -GasThreshold
              ELSE Held(s, "Accelerate"),
    gateB |-> IF GasByAxis(s) THEN s.value["Gas"] >= GasThreshold
              ELSE Held(s, "Brake")]

\* StuntInputStateFromControlState
StuntInputs(s) == [a \in StuntActions |-> Later(s.time[a], 0)]

-----------------------------------------------------------------------------
(* The transitions of one tick.  A request q gives the tick period, and    *)
(* the times at which the race is enabled and the spawn is established     *)
(* (NoTime if not at all).                                                 *)
NoTime == -1

AtOrAfter(t, threshold) == threshold # NoTime /\ t >= threshold

SpawnTime(q) == IF q.spawn # NoTime THEN q.spawn ELSE q.enable

EarlierTicks(q, t) == {u \in 1..(t - 1) : u % q.tick = 0}

\* The events a tick consumes: those after the previous tick's sample time;
\* the first tick consumes the ones before it too.
DueTimes(q, t) == {u \in Times : u <= t /\ (t > q.tick => u > t - q.tick)}

Due(q, in, t) ==
    UNION {{<<u, k>> : k \in DOMAIN in[u]} : u \in DueTimes(q, t)}

\* Whether the race runs just before event k of time u is applied.
RunningBefore(in, u, k) ==
    LET before == SubSeq(in[u], 1, k - 1)
    IN IF \E j \in DOMAIN before : before[j].action = "RaceRunning"
       THEN Active(LastOf(before, "RaceRunning"))
       ELSE Pressed(in, "RaceRunning", u - 1)

Respawns(q, in, t) ==
    Cardinality({p \in Due(q, in, t) :
        /\ in[p[1]][p[2]].action = "Respawn"
        /\ Active(in[p[1]][p[2]])
        /\ RunningBefore(in, p[1], p[2])})

FinishPressed(q, in, t) ==
    \E p \in Due(q, in, t) : /\ in[p[1]][p[2]].action = "FinishLine"
                             /\ CanonicalPress(in[p[1]][p[2]])

\* The race starts to run on this tick, seen from tick to tick.
StartsRunning(q, in, t) ==
    /\ AtOrAfter(t, q.enable)
    /\ Pressed(in, "RaceRunning", t)
    /\ t > q.tick => ~Pressed(in, "RaceRunning", t - q.tick)

ResetsRace(q, in, t) ==
    /\ StartsRunning(q, in, t)
    /\ \A u \in EarlierTicks(q, t) : ~StartsRunning(q, in, u)

SpawnsRace(q, t) ==
    /\ AtOrAfter(t, SpawnTime(q))
    /\ \A u \in EarlierTicks(q, t) : ~AtOrAfter(u, SpawnTime(q))

\* The part of a tick that the inputs and the thresholds determine.
Control(q, in, t) ==
    LET s == StateAt(in, t)
    IN [clock |-> t,
        establishRaceSpawn |-> SpawnsRace(q, t),
        enableRaceSimulation |-> AtOrAfter(t, q.enable),
        resetAtRaceStart |-> ResetsRace(q, in, t),
        finishRace |-> FinishPressed(q, in, t),
        respawns |-> IF AtOrAfter(t, q.enable) THEN Respawns(q, in, t) ELSE 0,
        controls |-> Controls(s),
        stunts |-> StuntInputs(s)]
=============================================================================
