--------------------------- MODULE FinishEstimate --------------------------
(* A tick of ReplaySimulationRuntime and the refinement of the finish time *)
(* on the tick that completes the race (Step and EstimateFinishTime): the  *)
(* runtime goes back to before the tick, runs it again under an observer   *)
(* that keeps the state before the finishing substep, goes back to the end *)
(* of the tick, reruns parts of that substep as FinishBracket chooses, and *)
(* goes back to the end of the tick once more.                             *)
(*                                                                         *)
(* What the physics computes is abstracted to where it stands: a place is  *)
(* a tick boundary, a substep within a tick, or a rerun of a substep for   *)
(* some nanoseconds.  The race and the rest of the runtime (world, body,   *)
(* vehicle) are cloned and restored one after the other, so each has its   *)
(* place.  The same tick run from the same state takes the same course.    *)
(* The three Step functions have this one shape.                           *)
(*                                                                         *)
(* A tick is simulated for what its period is in binary32 seconds, and its *)
(* substeps take that up to rounding: they begin and end anywhere between  *)
(* two whole nanoseconds, and the last one before, on or after the period. *)
(* Offsets within a tick are in halves of a nanosecond, where an odd one   *)
(* stands for any point strictly between two whole nanoseconds.            *)
EXTENDS Integers, Sequences

CONSTANTS
    Period,       \* nanoseconds of a tick
    Splits,       \* the ways a tick is cut into substeps: their end offsets,
                  \* in halves of a nanosecond
    MaxTicks,     \* bound: the ticks of a run
    MaxFailures   \* bound: allocations that fail

ASSUME SplitAssumption ==
    /\ Period \in Nat \ {0}
    /\ Splits \subseteq Seq(Nat \ {0})
    /\ \A ends \in Splits : /\ ends # <<>>
                            /\ \A k \in 1..Len(ends) - 1 : ends[k] < ends[k + 1]
ASSUME BoundAssumption == MaxTicks \in Nat /\ MaxFailures \in Nat

VARIABLES
    race,       \* the race: its place and raceCompleted
    runtime,    \* the rest of the runtime: its place and finishTime
    phase,      \* Idle or Stepping
    pc,         \* how far the call has come; "idle" between calls
    sub,        \* substeps run of the tick
    course,     \* what this tick does: substeps, finish, outcomes of reruns
    preTick,    \* the clone taken before the tick, where one was
    final,      \* the clone taken after it
    watch,      \* capturing, found and the rest the observer notes
    snapshot,   \* finishSubstepSnapshot, then exactPreSubstep
    low, high,       \* the bounds of the search, as in FinishBracket
    ticks,      \* ticks the caller has seen succeed
    outcome,    \* what the last Step gave
    reference,  \* history: the state the ordinary tick ended in, and the
                \* substep in which the race was completed in it
    saved,      \* a clone the caller holds: a set of at most one
    failures    \* allocations that have failed

vars == <<race, runtime, phase, pc, sub, course, preTick, final, watch, snapshot,
          low, high, ticks, outcome, reference, saved, failures>>

-----------------------------------------------------------------------------
\* Places: after n ticks; within the tick then begun, after k substeps; after
\* a rerun for d more halves of a nanosecond from there.
Boundary(n) == <<n>>
Inside(n, k) == <<n, k>>
Within(at, k) == SubSeq(at, 1, Len(at) - 1) \o <<k>>
RerunFor(at, d) == at \o <<d>>

\* The interval a tick simulates begins at its time.
TickTime == ticks * Period
OffsetBefore(ends, k) == IF k = 1 THEN 0 ELSE ends[k - 1]

\* A substep of the tick in whole nanoseconds, its bounds rounded outward.
Nanoseconds(from, to) == [start |-> TickTime + from \div 2,
                          end |-> TickTime + (to + 1) \div 2]

(* Mutant: the tick is taken to end at its time.                           *)
SubstepOfTickBefore ==
    [start |-> Nanoseconds(watch.start, watch.start).start - Period,
     end |-> Nanoseconds(watch.start, watch.start + watch.duration).end - Period]

\* The substep under refinement, as the observer has noted it.
Substep == Nanoseconds(watch.start, watch.start + watch.duration)

\* A substep as the tick is cut.
SubstepOf(ends, k) == Nanoseconds(OffsetBefore(ends, k), ends[k])

Bracket == INSTANCE FinishBracket WITH
    lower <- low, upper <- high,
    MaxTime <- (MaxTicks + 1) * Period,
    substep <- Substep, finishing <- course.finishing, whole <- course.whole,
    stage <- IF pc = "probing" THEN "searching" ELSE "called",
    estimate <- {}

\* A tick may finish an unfinished race in one of its substeps; any set of
\* partial reruns of that substep may finish it too, and the whole rerun.
Course(ends, k, durations, full) ==
    [ends |-> ends, finishAt |-> k, finishing |-> durations, whole |-> full]

Unfinished == {Course(ends, 0, {}, FALSE) : ends \in Splits}

Finishing(ends, k) ==
    {Course(ends, k, durations, full) :
        durations \in SUBSET Bracket!Interior(SubstepOf(ends, k).start,
                                              SubstepOf(ends, k).end),
        full \in BOOLEAN}

Courses ==
    Unfinished \cup
    IF race.completed THEN {}
    ELSE UNION {UNION {Finishing(ends, k) : k \in DOMAIN ends} : ends \in Splits}

NotWatching == [capturing |-> FALSE, observing |-> FALSE, found |-> FALSE,
                before |-> FALSE, elapsed |-> 0, start |-> 0, duration |-> 0]

Fresh == [race |-> [at |-> Boundary(0), completed |-> FALSE],
          runtime |-> [at |-> Boundary(0), finishTime |-> {}]]

-----------------------------------------------------------------------------
Init ==
    /\ race = Fresh.race /\ runtime = Fresh.runtime
    /\ phase = "Idle" /\ pc = "idle"
    /\ sub = 0 /\ course \in Unfinished
    /\ preTick = {} /\ final = {} /\ snapshot = {}
    /\ watch = NotWatching
    /\ low = 0 /\ high = 0
    /\ ticks = 0 /\ outcome = "none"
    /\ reference = [state |-> Fresh, finishedIn |-> {}, whole |-> FALSE]
    /\ saved = {} /\ failures = 0

\* PrepareStep, the environment, the respawns: the tick is entered.
Enter(clone) ==
    /\ race' = [clone.race EXCEPT !.at = @ \o <<0>>]
    /\ runtime' = [clone.runtime EXCEPT !.at = @ \o <<0>>]
    /\ phase' = "Stepping"
    /\ sub' = 0

State == [race |-> race, runtime |-> runtime]

\* finishPreCaptured, and finishTickSnapshot with it.
PreTick == IF ~watch.capturing /\ ~race.completed THEN {State} ELSE {}

BeginTick ==
    /\ pc = "idle" /\ phase = "Idle"
    /\ ticks < MaxTicks
    /\ course' \in Courses
    /\ preTick' = PreTick
    /\ Enter(State)
    /\ pc' = "tick"
    /\ outcome' = "none"
    /\ UNCHANGED <<final, watch, snapshot, low, high, ticks, reference, saved,
                   failures>>

(* Mutant: every substep is noted, the ones after the finish too. *)
NotedEvery(finishes) ==
    IF ~watch.observing \/ ~watch.capturing THEN UNCHANGED <<watch, snapshot>>
    ELSE LET duration == course.ends[sub + 1] - OffsetBefore(course.ends, sub + 1)
             first == ~watch.found /\ finishes
         IN /\ snapshot' = {State}
            /\ watch' = [watch EXCEPT
                    !.before = race.completed,
                    !.start = watch.elapsed,
                    !.found = @ \/ first,
                    !.duration = IF first THEN duration ELSE @,
                    !.elapsed = @ + duration]

\* BeforeCollisionSubstep and AfterCollisionSubstep around a substep that
\* finishes the race or not.
Noted(finishes) ==
    IF ~watch.observing \/ ~watch.capturing THEN UNCHANGED <<watch, snapshot>>
    ELSE LET duration == course.ends[sub + 1] - OffsetBefore(course.ends, sub + 1)
             first == ~watch.found /\ ~race.completed /\ finishes
         IN /\ snapshot' = IF watch.found THEN snapshot ELSE {State}
            /\ watch' = [watch EXCEPT
                    !.before = IF watch.found THEN @ ELSE race.completed,
                    !.start = IF watch.found THEN @ ELSE watch.elapsed,
                    !.found = @ \/ first,
                    !.duration = IF first THEN duration ELSE @,
                    !.elapsed = @ + duration]

CollisionSubstep ==
    /\ pc \in {"tick", "replay"}
    /\ sub < Len(course.ends)
    /\ sub' = sub + 1
    /\ race' = [at |-> Within(race.at, sub + 1),
                completed |-> race.completed \/ course.finishAt = sub + 1]
    /\ runtime' = [runtime EXCEPT !.at = Within(@, sub + 1)]
    /\ Noted(race'.completed)
    /\ UNCHANGED <<phase, pc, course, preTick, final, low, high, ticks, outcome,
                   reference, saved, failures>>

\* The tick is over, in the call itself or in the replay within it.
Leave ==
    /\ sub = Len(course.ends)
    /\ race' = [race EXCEPT !.at = Boundary(@[1] + 1)]
    /\ runtime' = [runtime EXCEPT !.at = Boundary(@[1] + 1)]
    /\ phase' = "Idle"

Succeed == /\ pc' = "idle"
           /\ outcome' = "Success"
           /\ ticks' = ticks + 1

EndTick ==
    /\ pc = "tick"
    /\ Leave
    /\ LET completes == race.completed /\ \E c \in preTick : ~c.race.completed
       IN /\ reference' = [
                state |-> [race |-> race', runtime |-> runtime'],
                finishedIn |-> IF completes
                               THEN {SubstepOf(course.ends, course.finishAt)}
                               ELSE reference.finishedIn,
                whole |-> IF completes THEN course.whole ELSE reference.whole]
          /\ IF completes
             THEN pc' = "estimate" /\ UNCHANGED <<ticks, outcome>>
             ELSE Succeed
    /\ UNCHANGED <<sub, course, preTick, final, watch, snapshot, low, high,
                   saved, failures>>

-----------------------------------------------------------------------------
(* EstimateFinishTime.                                                     *)
Restore(clone) == race' = clone.race /\ runtime' = clone.runtime

\* Back to before the tick, and into its replay under the observer.
BeginReplay ==
    /\ pc = "estimate"
    /\ final' = {State}
    /\ \E clone \in preTick : Enter(clone)
    /\ watch' = [NotWatching EXCEPT !.capturing = TRUE, !.observing = TRUE]
    /\ snapshot' = {}
    /\ pc' = "replay"
    /\ UNCHANGED <<course, preTick, low, high, ticks, outcome, reference, saved,
                   failures>>

(* Mutant: the runtime goes on capturing. *)
StillCapturing == [watch EXCEPT !.observing = FALSE]

Unobserved == [watch EXCEPT !.capturing = FALSE, !.observing = FALSE]

EndReplay ==
    /\ pc = "replay"
    /\ Leave
    /\ watch' = Unobserved
    /\ pc' = "replayed"
    /\ UNCHANGED <<sub, course, preTick, final, snapshot, low, high, ticks,
                   outcome, reference, saved, failures>>

\* transitionReady: the replay must have shown the transition.
BeginSearch ==
    /\ pc = "replayed"
    /\ \E clone \in final : Restore(clone)
    /\ IF watch.found /\ snapshot # {}
       THEN /\ pc' = "search"
            /\ low' = Substep.start /\ high' = Substep.end
            /\ UNCHANGED <<ticks, outcome>>
       ELSE Succeed /\ UNCHANGED <<low, high>>
    /\ UNCHANGED <<phase, sub, course, preTick, final, watch, snapshot, reference,
                   saved, failures>>

(* Mutant: a rerun goes on from where the last one ended. *)
RunFromHere(d, finished) ==
    /\ race' = [at |-> RerunFor(race.at, d), completed |-> race.completed \/ finished]
    /\ runtime' = [runtime EXCEPT !.at = RerunFor(@, d)]

\* restoreExactPreSubstep and ProbeFinishSubstep for d halves of a nanosecond.
RunFrom(d, finished) ==
    \E clone \in snapshot :
        /\ race' = [at |-> RerunFor(clone.race.at, d),
                    completed |-> clone.race.completed \/ finished]
        /\ runtime' = [clone.runtime EXCEPT !.at = RerunFor(@, d)]

ProbeWhole ==
    /\ pc = "search"
    /\ RunFrom(watch.duration, course.whole)
    /\ pc' = IF race'.completed THEN "probing" ELSE "searched"
    /\ UNCHANGED <<phase, sub, course, preTick, final, watch, snapshot, low, high,
                   ticks, outcome, reference, saved, failures>>

ProbePart ==
    /\ pc = "probing"
    /\ Bracket!Searching
    /\ RunFrom(2 * (Bracket!Candidate - TickTime) - watch.start,
               Bracket!Candidate \in course.finishing)
    /\ Bracket!Move(race'.completed)
    /\ UNCHANGED <<phase, pc, sub, course, preTick, final, watch, snapshot, ticks,
                   outcome, reference, saved, failures>>

EndProbing ==
    /\ pc = "probing"
    /\ ~Bracket!Searching
    /\ pc' = "bracketed"
    /\ UNCHANGED <<race, runtime, phase, sub, course, preTick, final, watch, snapshot,
                   low, high, ticks, outcome, reference, saved, failures>>

(* Mutant: the race is not put back to the end of the tick. *)
RestoreRuntimeOnly(clone) ==
    /\ race' = race
    /\ runtime' = clone.runtime

\* Back to the end of the tick, now with the finish time.
RestoreFinal(clone) == Restore(clone)

EndEstimate ==
    /\ pc \in {"searched", "bracketed"}
    /\ \E clone \in final :
        \E found \in {IF pc = "searched" THEN {} ELSE Bracket!EstimateOf(low, high)} :
            RestoreFinal([clone EXCEPT !.runtime.finishTime = found])
    /\ Succeed
    /\ UNCHANGED <<phase, sub, course, preTick, final, watch, snapshot, low, high,
                   reference, saved, failures>>

-----------------------------------------------------------------------------
(* Allocations that fail.  PrepareRuntimeCloneRestore reports one as false *)
(* and EstimateFinishTime then returns as if all was done; a copy of a     *)
(* clone that fails throws bad_alloc out of Step.                          *)
Fails == failures < MaxFailures /\ failures' = failures + 1

\* The clones to go back to cannot be prepared: the call just returns.
PreparationRefused ==
    /\ Fails
    /\ pc \in {"estimate", "replayed", "searched", "bracketed"}
    /\ Succeed
    /\ UNCHANGED <<race, runtime, phase, sub, course, preTick, final, watch, snapshot,
                   low, high, reference, saved>>

\* Within the search a rerun that cannot be prepared counts as a failed one.
ProbeRefused ==
    /\ Fails
    /\ \/ pc = "search" /\ pc' = "searched" /\ UNCHANGED <<low, high>>
       \/ pc = "probing" /\ Bracket!Searching /\ Bracket!Move(FALSE) /\ UNCHANGED pc
    /\ UNCHANGED <<race, runtime, phase, sub, course, preTick, final, watch, snapshot,
                   ticks, outcome, reference, saved>>

\* The copy of a race or of a runtime throws before either is restored, or
\* with the race restored and the runtime not.
Throw(clones) ==
    /\ runtime' = runtime
    /\ race' \in {race} \cup {c.race : c \in clones}
    /\ outcome' = "bad_alloc"
    /\ pc' = "idle"

CopyThrows ==
    /\ Fails
    /\ \/ pc = "estimate" /\ Throw({})
       \/ pc = "replayed" /\ Throw(final)
       \/ pc = "search" /\ Throw(snapshot)
       \/ pc = "probing" /\ Bracket!Searching /\ Throw(snapshot)
       \/ pc \in {"tick", "replay"} /\ sub < Len(course.ends) /\ Throw({})
    /\ UNCHANGED <<phase, sub, course, preTick, final, watch, snapshot, low, high,
                   ticks, reference, saved>>

\* The rerun itself throws, from within its collisions: the race and the
\* runtime are somewhere in the substep, and the phase stays Stepping.
RerunThrows ==
    /\ Fails
    /\ \/ pc = "search"
       \/ pc = "probing" /\ Bracket!Searching
    /\ \E finished \in BOOLEAN : RunFrom(0, finished)
    /\ phase' = "Stepping"
    /\ outcome' = "bad_alloc"
    /\ pc' = "idle"
    /\ UNCHANGED <<sub, course, preTick, final, watch, snapshot, low, high, ticks,
                   reference, saved>>

-----------------------------------------------------------------------------
(* What the caller does between the calls; of clones it holds one.         *)
CaptureState ==
    /\ pc = "idle" /\ phase = "Idle"
    /\ saved = {}
    /\ saved' = {[state |-> State, ticks |-> ticks, reference |-> reference,
                  outcome |-> outcome]}
    /\ UNCHANGED <<race, runtime, phase, pc, sub, course, preTick, final, watch,
                   snapshot, low, high, ticks, outcome, reference, failures>>

RestoreState ==
    /\ pc = "idle" /\ phase = "Idle"
    /\ \E clone \in saved :
        /\ Restore(clone.state)
        /\ ticks' = clone.ticks
        /\ reference' = clone.reference
        /\ outcome' = clone.outcome
    /\ UNCHANGED <<phase, pc, sub, course, preTick, final, watch, snapshot, low,
                   high, saved, failures>>

StepActions ==
    \/ CollisionSubstep \/ EndTick
    \/ BeginReplay \/ EndReplay
    \/ BeginSearch \/ ProbeWhole \/ ProbePart \/ EndProbing \/ EndEstimate

Next ==
    \/ BeginTick
    \/ StepActions
    \/ PreparationRefused \/ ProbeRefused \/ CopyThrows \/ RerunThrows
    \/ CaptureState \/ RestoreState

\* A call that has begun runs on to its end.
Spec == Init /\ [][Next]_vars /\ WF_vars(StepActions)

-----------------------------------------------------------------------------
(* "After refinement, the authoritative post-tick runtime and race state   *)
(* are restored" (docs/finish-time-approximation.md:56): a caller whose    *)
(* tick has succeeded finds the race and the runtime where the ordinary    *)
(* tick ended, but for the finish time.                                    *)
RefinementLeavesNoTrace ==
    pc = "idle" /\ outcome = "Success" =>
        /\ race = reference.state.race
        /\ runtime.at = reference.state.runtime.at

(* It is so unless an allocation has failed on the way.                    *)
NoTraceWithoutFailure == failures = 0 => RefinementLeavesNoTrace

(* Each rerun is of the substep in which the replay completed the race,    *)
(* from the state before it, and so are the bounds of the search; after a  *)
(* tick that threw, the race and the runtime may stand apart.              *)
RerunsTheFinishingSubstep ==
    pc \in {"search", "probing", "searched", "bracketed"} =>
        /\ snapshot # {}
        /\ \A clone \in snapshot : ~clone.race.completed
        /\ failures = 0 => \A clone \in snapshot :
            /\ clone.race.at = Inside(ticks, course.finishAt - 1)
            /\ clone.runtime.at = clone.race.at
        /\ watch.start = OffsetBefore(course.ends, course.finishAt)
        /\ watch.start + watch.duration = course.ends[course.finishAt]

(* The bounds of a search whose reruns start afresh are what reruns of the *)
(* finishing substep gave, unless one could not be prepared.               *)
BoundsAreReruns == pc \in {"probing", "bracketed"} =>
    /\ Substep.start <= low /\ low < high /\ high <= Substep.end
    /\ low # Substep.start /\ failures = 0 => low \notin course.finishing
    /\ high # Substep.end => high \in course.finishing

(* A finish time is of a completed race, and is one nanosecond of the very *)
(* substep that completed it, counted from the time of its tick ("The      *)
(* refinement origin is T, not T - period",                                *)
(* docs/finish-time-approximation.md:47), later ticks, captures and        *)
(* restores notwithstanding; and where the rerun of the whole substep      *)
(* completes the race as the tick did, there is one.  That the substeps of *)
(* a tick end within its period is not assumed, and not so in binary32.    *)
FinishTimeOfCompletingSubstep ==
    pc = "idle" =>
        /\ \A e \in runtime.finishTime :
            /\ race.completed
            /\ e.upperBoundNs = e.lowerBoundNs + 1
            /\ \E s \in reference.finishedIn :
                s.start < e.estimatedNs /\ e.estimatedNs <= s.end
        /\ outcome = "Success" /\ failures = 0 =>
            (race.completed /\ reference.whole <=> runtime.finishTime # {})

(* A runtime that can be stepped is not left observed by a refinement that *)
(* did not get to its end: the next finish would go unrefined.             *)
ReadyRuntimeUnobserved ==
    pc = "idle" /\ phase = "Idle" => ~watch.capturing /\ ~watch.observing

(* A tick that has begun ends, its refinement included.                    *)
StepReturns == pc # "idle" ~> pc = "idle"
=============================================================================
