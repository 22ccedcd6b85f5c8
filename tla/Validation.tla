----------------------------- MODULE Validation -----------------------------
(***************************************************************************)
(* ValidateReplay of one decoded replay: the request is classified, the    *)
(* recorded inputs are simulated on the ticks of the control plan, the     *)
(* outcome the replay records takes the place of the simulated one in the  *)
(* modes where it is authoritative, the compared ghost samples are         *)
(* scanned, and a verdict and a public report are made.                    *)
(*                                                                         *)
(* The physics is nondeterministic: a tick may complete the race, touch a  *)
(* trigger again, respawn, and land at any distance from the ghost.        *)
(* Distances are classes ordered as numbers: 0 is bit-exact, Threshold and *)
(* more is a divergence, NotFinite is an infinity or a NaN.  Times are in  *)
(* ms, and the nanoseconds of a finish time estimate in units of           *)
(* 1/NsPerMs ms.                                                           *)
(***************************************************************************)
EXTENDS Integers, Sequences, FiniteSetsExt

CONSTANTS
    Replays,        \* decoded replays
    Requested,      \* values of ValidationOptions::requestedSamples
    Tick,           \* controlTickMs
    Prestart,       \* validationPrestartMs
    Period,         \* samplePeriodMs of the ghosts
    Tolerance,      \* ReplayValidationRaceTimeToleranceMs
    Distances,      \* distances of a compared sample from the ghost
    Threshold,      \* ReplayValidationThreshold
    NotFinite,      \* a distance that is not finite
    NsPerMs,        \* nanoseconds of a ms
    RespawnLimit,   \* ReplayRespawnCountLimit
    MaxRespawns,    \* bound on the simulated respawns
    Scores,         \* simulated stunt scores
    StuntsLimit,    \* stuntsTimeLimitMs
    PenaltyUnit     \* ms of overtime that cost a point

NoValue == -1
Modes == {"Race", "Platform", "Puzzle", "Stunts"}
OrNone(S) == S \cup {NoValue}

Replay == [mode : Modes, compatible : BOOLEAN, hasInput : BOOLEAN,
           scripted : BOOLEAN,
           raceTime : OrNone(Nat), score : OrNone(Nat), respawns : OrNone(Nat),
           duration : Nat,      \* durationMs
           samples : Nat,       \* ghost samples
           finish : OrNone(Nat),    \* a FinishLine press that ends the inputs
           presses : Nat]       \* respawn presses of the inputs

ASSUME ValidationAssumption ==
    /\ Replays \subseteq Replay
    /\ Requested \subseteq Nat \ {0}
    /\ {Tick, Prestart, Period, NsPerMs, PenaltyUnit, Threshold} \subseteq Nat \ {0}
    \* what a tick may take beyond its period is less than a ms
    /\ NsPerMs > 1
    \* off the grid, no control plan is built (ControlPlanBuilder)
    /\ Prestart % Tick = 0 /\ Period % Tick = 0
    /\ \A r \in Replays : r.samples = 0 => r.duration % Tick = 0
    /\ {Tolerance, RespawnLimit, MaxRespawns, StuntsLimit} \subseteq Nat
    /\ Distances \subseteq Nat /\ NotFinite \notin Distances
    /\ Scores \subseteq Nat

VARIABLES
    replay,     \* the replay
    requested,  \* requestedSamples of the options
    pc,         \* where ValidateReplay is
    clock,      \* timeMs of the last simulated tick
    run,        \* what the simulation did
    sim,        \* the ReplaySimulationTimelineResult that is evaluated
    cursor,     \* observations scanned
    scan,       \* the ReplayValidationResult
    report      \* the public report

vars == <<replay, requested, pc, clock, run, sim, cursor, scan, report>>

-----------------------------------------------------------------------------
\* The plan of the validation.

Through(t) == IF replay.samples = 0 THEN 0
              ELSE Min({t \div Period + 1, replay.samples})

Expected == Through(IF replay.raceTime = NoValue THEN 0 ELSE replay.raceTime)

Targets == Min({Expected, requested})

TimedByInputs == replay.mode \in {"Platform", "Puzzle"}

ExpectedTime ==
    CASE replay.mode = "Stunts" -> NoValue
      [] replay.mode = "Race" /\ replay.raceTime = NoValue -> 0
      [] OTHER -> replay.raceTime

ExpectedScore == IF replay.mode = "Stunts" THEN replay.score ELSE NoValue

\* The grid of the control plan, with the trailing tick of a race.
End == Prestart + replay.duration
LastTarget == IF Targets = 0 THEN End ELSE Prestart + (Targets - 1) * Period
LastTick == (Max({End, LastTarget}) \div Tick) * Tick
            + IF replay.mode = "Race" THEN Tick ELSE 0

IsTarget(t) == \E i \in 0..(Targets - 1) : t = Prestart + i * Period
IsObserved(t) == IsTarget(t) \/ t = End

-----------------------------------------------------------------------------
\* The simulation.

NoEstimate == [lower |-> NoValue, upper |-> NoValue, estimated |-> NoValue]

\* One nanosecond, by its end.
Nanosecond(ns) == [lower |-> ns - 1, upper |-> ns, estimated |-> ns]

\* Brackets of a finish on the tick of time t, whose interval begins at t: its
\* first nanosecond, its last, and the one after, as the substeps of a tick
\* may end just past the period (FinishEstimate).
Brackets(t) ==
    {NoEstimate, Nanosecond(t * NsPerMs + 1),
     Nanosecond((t + Tick) * NsPerMs), Nanosecond((t + Tick) * NsPerMs + 1)}

\* The finish time of the race is the tick of its last trigger.
FinishChoices(t) ==
    IF run.finish = NoValue
    THEN {[run EXCEPT !.finish = t, !.first = t, !.estimate = b] :
            b \in IF t >= Prestart THEN Brackets(t) ELSE {}} \cup {run}
    ELSE {run, [run EXCEPT !.finish = t]}

Observation(t, r) ==
    {[distance |-> d, compared |-> TRUE, finish |-> r.finish] :
        d \in IF IsTarget(t) THEN Distances \cup {NotFinite} ELSE {}}
    \cup IF IsObserved(t) /\ ~IsTarget(t)
         THEN {[distance |-> NotFinite, compared |-> FALSE, finish |-> r.finish]}
         ELSE {}

NotRun == [finish |-> NoValue, first |-> NoValue, estimate |-> NoEstimate,
           respawns |-> 0, score |-> NoValue, atLimit |-> NoValue,
           observations |-> <<>>]

NotScanned == [status |-> "Valid", outcome |-> "Valid", wrong |-> FALSE,
               measured |-> 0, exact |-> 0, max |-> 0, maxAt |-> NoValue,
               firstDivergence |-> NoValue, firstExact |-> NoValue]

NotReported == [valid |-> FALSE, status |-> "None", outcome |-> "None",
                wrong |-> FALSE, match |-> "Unavailable", completed |-> FALSE,
                raceTime |-> NoValue, estimate |-> NoEstimate, respawns |-> 0]

Init ==
    /\ replay \in Replays
    /\ requested \in Requested
    /\ pc = "classify"
    /\ clock = 0
    /\ run = NotRun
    /\ sim = NotRun
    /\ cursor = 0
    /\ scan = NotScanned
    /\ report = NotReported

\* ToPublicReport: a scripted replay is never valid.
Public(verdict, actual) ==
    LET hidden == replay.scripted /\ verdict.status = "Valid"
    IN [valid |-> verdict.status = "Valid" /\ ~hidden,
        status |-> IF hidden THEN "ScriptedReplay" ELSE verdict.status,
        outcome |-> IF hidden THEN "Invalid" ELSE verdict.outcome,
        wrong |-> verdict.wrong /\ ~hidden,
        match |-> CASE ~replay.scripted -> "Unavailable"
                    [] verdict.status = "WrongSimulation" -> "Mismatch"
                    [] verdict.status # "WrongSimulation" /\ Expected > 0
                       /\ scan.measured = Expected -> "Match"
                    [] OTHER -> "Unavailable",
        completed |-> actual.completed,
        raceTime |-> actual.raceTime,
        estimate |-> actual.estimate,
        respawns |-> actual.respawns]

NoActual == [completed |-> FALSE, raceTime |-> NoValue, validated |-> NoValue,
             estimate |-> NoEstimate, score |-> NoValue, respawns |-> 0]

ReportAs(status, outcome) ==
    /\ report' = Public([status |-> status, outcome |-> outcome,
                         wrong |-> outcome = "WrongSimulation"], NoActual)
    /\ pc' = "done"

\* Replays that are reported without a simulation.
Classify ==
    /\ pc = "classify"
    /\ \/ /\ ~replay.compatible
          /\ ReportAs("IncompatibleReplayVersion", "Invalid")
       \/ /\ replay.compatible /\ ~replay.hasInput
          /\ ReportAs("InputUnavailable", "Unavailable")
       \/ /\ replay.compatible /\ replay.hasInput
          /\ pc' = "simulate"
          /\ report' = report
    /\ UNCHANGED <<replay, requested, clock, run, sim, cursor, scan>>

\* A map without a start line is reported as a wrong simulation.
NoMapStart ==
    /\ pc = "simulate" /\ clock = 0
    /\ ReportAs("WrongSimulation", "WrongSimulation")
    /\ UNCHANGED <<replay, requested, clock, run, sim, cursor, scan>>

\* An allocation, the construction of the scene or a backend fails.
Fail ==
    /\ pc = "simulate"
    /\ pc' = "failed"
    /\ UNCHANGED <<replay, requested, clock, run, sim, cursor, scan, report>>

SimulateTick ==
    /\ pc = "simulate" /\ clock + Tick <= LastTick
    /\ clock' = clock + Tick
    /\ \E r \in FinishChoices(clock'), extra \in 0..1 :
        /\ r.respawns + extra <= MaxRespawns
        /\ extra = 1 => clock' >= Prestart
        /\ \/ /\ ~IsObserved(clock')
              /\ run' = [r EXCEPT !.respawns = @ + extra]
           \/ \E o \in Observation(clock', r) :
                run' = [r EXCEPT !.respawns = @ + extra,
                                 !.observations = Append(@, o)]
    /\ UNCHANGED <<replay, requested, pc, sim, cursor, scan, report>>

-----------------------------------------------------------------------------
\* The outcome that is evaluated.

(* Mutant: a run whose inputs record no finish keeps the simulated one. *)
RecordedOutcomeKept(r) ==
    IF replay.mode = "Race" THEN r
    ELSE [r EXCEPT !.finish = IF replay.finish = NoValue THEN @
                              ELSE Prestart + replay.finish,
                   !.estimate = NoEstimate,
                   !.respawns = replay.presses]

\* ApplyReplayRecordedInputOutcome
RecordedOutcome(r) ==
    IF replay.mode = "Race" THEN r
    ELSE [r EXCEPT !.finish = IF replay.finish = NoValue THEN NoValue
                              ELSE Prestart + replay.finish,
                   !.estimate = NoEstimate,
                   !.respawns = replay.presses]

\* ApplyReplayStuntTimePenalty: overtime costs points of the score at the limit.
Penalised(r) ==
    IF replay.finish > StuntsLimit
    THEN LET score == IF r.atLimit = NoValue THEN r.score ELSE r.atLimit
         IN [r EXCEPT !.score = Max({0, score - (replay.finish - StuntsLimit) \div PenaltyUnit})]
    ELSE r

\* The end of the timeline, and what ExecuteReplayValidation makes of it.
EndSimulation ==
    /\ pc = "simulate" /\ clock + Tick > LastTick
    /\ \/ /\ replay.mode # "Stunts"
          /\ run' = run
          /\ sim' = RecordedOutcome(run)
       \/ /\ replay.mode = "Stunts"
          /\ \E score \in Scores, atLimit \in OrNone(Scores) :
                run' = [run EXCEPT !.score = score, !.atLimit = atLimit]
          /\ sim' = RecordedOutcome(Penalised(run'))
    /\ pc' = "evaluate"
    /\ UNCHANGED <<replay, requested, clock, cursor, scan, report>>

-----------------------------------------------------------------------------
\* The scan of the compared samples.

(* Mutant: a divergence does not end the scan. *)
ScanOnAndOn == cursor < Len(sim.observations)

\* The loop of EvaluateTrajectory goes on until it breaks.
Scanning == cursor < Len(sim.observations) /\ scan.status = "Valid"

\* A finite distance is counted before it is judged.
Measured(d) ==
    [scan EXCEPT
        !.measured = @ + 1,
        !.exact = @ + 1,
        !.firstExact = IF @ = NoValue /\ d > 0 THEN scan.measured ELSE @,
        !.max = Max({@, d}),
        !.maxAt = IF scan.max < d THEN scan.measured ELSE @,
        !.status = IF d >= Threshold THEN "WrongSimulation" ELSE @,
        !.outcome = IF d >= Threshold THEN "WrongSimulation" ELSE @,
        !.wrong = d >= Threshold,
        !.firstDivergence = IF d >= Threshold THEN scan.measured ELSE @]

NotMeasurable ==
    [scan EXCEPT !.measured = @ + 1,
                 !.status = "ObservationError",
                 !.outcome = "Error",
                 !.firstDivergence = scan.measured]

ScanObservation ==
    /\ pc = "evaluate" /\ Scanning
    /\ LET o == sim.observations[cursor + 1]
       IN scan' = IF ~o.compared THEN scan
                  ELSE IF o.distance = NotFinite THEN NotMeasurable
                  ELSE Measured(o.distance)
    /\ cursor' = cursor + 1
    /\ UNCHANGED <<replay, requested, pc, clock, run, sim, report>>

-----------------------------------------------------------------------------
\* The verdict.

\* simulatedFinishRaceTimeMs: the first finish the scan came across.
ScannedFinish ==
    LET seen == {i \in 1..cursor : sim.observations[i].finish >= Prestart}
    IN IF seen = {} THEN NoValue ELSE sim.observations[Min(seen)].finish - Prestart

(* Mutant: the lower bound is not moved to the start of the race.          *)
FromStartButLower(b) ==
    [lower |-> Max({0, b.lower}),
     upper |-> b.upper - Prestart * NsPerMs,
     estimated |-> b.estimated - Prestart * NsPerMs]

\* An estimate counted from the start of the race.
FromStart(b) ==
    [lower |-> Max({0, b.lower - Prestart * NsPerMs}),
     upper |-> b.upper - Prestart * NsPerMs,
     estimated |-> b.estimated - Prestart * NsPerMs]

\* ResolveActualMetadata
Actual ==
    LET fallback == replay.mode = "Race" /\ ScannedFinish # NoValue
        validated == IF sim.finish >= Prestart THEN sim.finish - Prestart
                     ELSE IF fallback THEN ScannedFinish ELSE NoValue
        estimated == sim.estimate.estimated >= Prestart * NsPerMs
    IN [completed |-> sim.finish # NoValue \/ estimated \/ fallback,
        validated |-> validated,
        raceTime |-> IF estimated THEN FromStart(sim.estimate).estimated \div NsPerMs
                     ELSE validated,
        estimate |-> IF estimated THEN FromStart(sim.estimate) ELSE NoEstimate,
        score |-> sim.score,
        respawns |-> Min({sim.respawns, RespawnLimit})]

(* Mutant: a late finish counts as one within the tolerance. *)
TimeDiffersEarly(time) ==
    ExpectedTime # NoValue /\ (time = NoValue \/ ExpectedTime - time > Tolerance)

\* RaceTimeDiffers, and an unfinished race that was expected to finish.
TimeDiffers(time) ==
    /\ ExpectedTime # NoValue
    /\ \/ time = NoValue
       \/ ExpectedTime - time > Tolerance
       \/ time - ExpectedTime > Tolerance

ScoreDiffers(a) == ExpectedScore # NoValue /\ ExpectedScore # a.score
RespawnsDiffer(a) == replay.respawns # NoValue /\ replay.respawns # a.respawns

ComparedTime(a) == IF a.validated # NoValue THEN a.validated ELSE a.raceTime

\* ReplayValidationCompareResult
Compared(a) ==
    CASE scan.max >= Threshold -> "WrongSimulation"
      [] scan.max < Threshold /\ (\/ ~a.completed \/ TimeDiffers(ComparedTime(a))
                                  \/ ScoreDiffers(a) \/ RespawnsDiffer(a)) -> "Invalid"
      [] OTHER -> "Valid"

Row(when, status, outcome) == [when |-> when, status |-> status, outcome |-> outcome]

\* The row of the first early return taken.
FirstOf(rows) == rows[Min({i \in DOMAIN rows : rows[i].when})]

(* Mutant: the reason is looked for with the estimated time. *)
ReasonTimeEstimated(a) == a.raceTime

\* The time the reason is looked for with is the one that was compared.
ReasonTime(a) == IF a.validated # NoValue THEN a.validated ELSE a.raceTime

\* StatusFromComparison: the reason is looked for again, in its own order.
Reason(a) ==
    FirstOf(<<Row(Compared(a) = "Valid", "Valid", "Valid"),
              Row(Compared(a) = "WrongSimulation", "WrongSimulation", "WrongSimulation"),
              Row(TimeDiffers(ReasonTime(a)), "RaceTimeMismatch", "Invalid"),
              Row(ScoreDiffers(a), "StuntsScoreMismatch", "Invalid"),
              Row(RespawnsDiffer(a), "RespawnCountMismatch", "Invalid"),
              Row(TRUE, "ExpectingCompletedRace", "Invalid")>>)

\* FinalizeValidation
Verdict(a) ==
    FirstOf(<<
        Row(scan.status # "Valid", scan.status, scan.outcome),
        Row(scan.measured < Expected, "IncompleteStandaloneRun", "Unavailable"),
        Row(TimedByInputs /\ ExpectedTime = NoValue, "ObservationError", "Error"),
        Row(replay.mode = "Stunts" /\ ExpectedScore = NoValue, "ObservationError", "Error"),
        Row(replay.mode # "Race" /\ replay.respawns = NoValue,
            "RespawnExpectationUnavailable", "Unavailable"),
        Row(TimedByInputs /\ ~a.completed, "ExpectingCompletedRace", "Invalid"),
        Row(TRUE, Reason(a).status, Reason(a).outcome)>>)

Report ==
    /\ pc = "evaluate" /\ ~Scanning
    /\ LET v == Verdict(Actual)
       IN report' = Public([status |-> v.status, outcome |-> v.outcome,
                            wrong |-> v.outcome = "WrongSimulation"], Actual)
    /\ pc' = "done"
    /\ UNCHANGED <<replay, requested, clock, run, sim, cursor, scan>>

Next ==
    \/ Classify \/ NoMapStart \/ Fail
    \/ SimulateTick \/ EndSimulation
    \/ ScanObservation \/ Report

Spec == Init /\ [][Next]_vars
-----------------------------------------------------------------------------
\* Brackets counted from the start of the race.
Bracket == {NoEstimate} \cup
    {b \in [lower : Nat, upper : Nat, estimated : Nat] :
        b.lower < b.estimated /\ b.estimated <= b.upper}

\* The compared samples: where they stand among the observations, in the
\* order of the ghost, and the number of each.
Shown == {i \in DOMAIN run.observations : run.observations[i].compared}
SampleOf(i) == Cardinality({j \in Shown : j < i})
Within(o) == o.distance # NotFinite /\ o.distance < Threshold

\* The finish that counts: a race has to be finished by the simulation, the
\* other modes by their recorded inputs.
CountedFinish ==
    IF replay.mode # "Race" THEN replay.finish
    ELSE IF run.finish = NoValue THEN NoValue ELSE run.finish - Prestart
CountedRespawns ==
    Min({IF replay.mode = "Race" THEN run.respawns ELSE replay.presses, RespawnLimit})

TimeAgrees ==
    LET recorded == IF replay.raceTime = NoValue THEN 0 ELSE replay.raceTime
    IN CountedFinish # NoValue /\ CountedFinish \in (recorded - Tolerance)..(recorded + Tolerance)
ScoreAgrees ==
    LET score == IF replay.finish > StuntsLimit /\ run.atLimit # NoValue
                 THEN run.atLimit ELSE run.score
        overtime == Max({0, replay.finish - StuntsLimit})
    IN replay.score = Max({0, score - overtime \div PenaltyUnit})

OutcomeAgrees ==
    /\ CountedFinish # NoValue
    /\ replay.mode # "Stunts" => TimeAgrees
    /\ replay.mode = "Stunts" => ScoreAgrees
    /\ replay.respawns # NoValue => replay.respawns = CountedRespawns

\* What a replay of its mode has to record to be validated.
Recorded ==
    /\ replay.compatible /\ replay.hasInput
    /\ replay.mode # "Race" => replay.respawns # NoValue
    /\ TimedByInputs => replay.raceTime # NoValue
    /\ replay.mode = "Stunts" => replay.score # NoValue

Evaluated == pc = "done" /\ clock > 0

(* A replay is reported valid exactly when it was reproduced: the recording *)
(* is complete and not scripted, the simulation stayed with the ghost on   *)
(* every sample up to the recorded time, and the finish, the time or score *)
(* and the respawns that count agree with the recorded ones.               *)
Reproduced ==
    /\ Evaluated /\ Recorded
    /\ Cardinality(Shown) = Expected
    /\ \A i \in Shown : Within(run.observations[i])
    /\ OutcomeAgrees

ValidExactlyIfReproduced ==
    /\ report.valid <=> Reproduced /\ ~replay.scripted
    /\ Reproduced /\ replay.scripted =>
          report.status = "ScriptedReplay" /\ report.outcome = "Invalid"

(* The scan reports the first sample that cannot be measured or diverges,  *)
(* also when later ones do, and the largest distance up to it.             *)
ScanStopsAtFirstDivergence ==
    LET scanned == {i \in Shown : SampleOf(i) < scan.measured}
        bad == {i \in scanned : ~Within(run.observations[i])}
        inexact == {i \in scanned : run.observations[i].distance \in Distances \ {0}}
    IN /\ Cardinality(scanned) = scan.measured
       /\ {SampleOf(i) : i \in bad} = IF scan.firstDivergence = NoValue THEN {}
                                      ELSE {scan.firstDivergence}
       /\ \A i \in bad : SampleOf(i) = scan.measured - 1
       /\ scan.firstExact = IF inexact = {} THEN NoValue ELSE SampleOf(Min(inexact))
       /\ scan.maxAt # NoValue => \E i \in scanned :
              SampleOf(i) = scan.maxAt /\ run.observations[i].distance = scan.max
       /\ \A i \in inexact : run.observations[i].distance <= scan.max

(* The reason that is reported is a true one although it is looked for     *)
(* apart from the comparison that rejected the replay.                     *)
StatusExplainsOutcome ==
    pc = "done" =>
        /\ report.valid = (report.status = "Valid")
        /\ report.valid = (report.outcome = "Valid")
        /\ report.wrong = (report.outcome = "WrongSimulation")
        /\ report.status = "RaceTimeMismatch" => replay.mode # "Stunts" /\ ~TimeAgrees
        /\ report.status = "ExpectingCompletedRace" => CountedFinish = NoValue
        /\ report.status = "StuntsScoreMismatch" => replay.mode = "Stunts" /\ ~ScoreAgrees
        /\ report.status = "RespawnCountMismatch" => replay.respawns # CountedRespawns
        /\ report.status = "ScriptedReplay" => replay.scripted

(* In the modes whose outcome the inputs record, the reported outcome is   *)
(* theirs, whatever finish or respawns the simulation came to.             *)
RecordedOutcomeReported ==
    Evaluated /\ replay.mode # "Race" =>
        /\ report.completed = (replay.finish # NoValue)
        /\ report.raceTime = replay.finish
        /\ report.estimate = NoEstimate
        /\ report.respawns = Min({replay.presses, RespawnLimit})

(* A reported estimate is a bracket counted from the start of the race,    *)
(* and the reported ms of it lie in the interval that the tick of the      *)
(* first finish simulates, which begins at the time of that tick ("T, not  *)
(* T - period", docs/finish-time-approximation.md:47), even when the       *)
(* finish that is compared has moved on to a later tick.                   *)
EstimateWithinFinishTick ==
    report.estimate # NoEstimate =>
        /\ report.estimate \in Bracket
        /\ report.raceTime = report.estimate.estimated \div NsPerMs
        /\ report.raceTime + Prestart \in run.first..(run.first + Tick)

(* What README.md says of --requested-samples: fewer compared samples      *)
(* preserve the evaluation of the outcome.                                 *)
SamplesKeepOutcome ==
    /\ Evaluated /\ Recorded /\ ~replay.scripted
    /\ requested < Expected /\ \A i \in Shown : Within(run.observations[i])
    => report.valid = OutcomeAgrees
=============================================================================
