# ForeverValidator: TLA+ models, model checking and proofs

ForeverValidator decodes a TrackMania replay, simulates its recorded inputs with
a deterministic reimplementation of the game's physics and says whether the run
is reproduced. It also offers that simulation as a *sandbox*: a caller edits
inputs, moves a horizon, advances, captures states and goes back to them, or
starts a *search session* that simulates batches of mutated inputs on a GPU and
keeps the best of them.

This directory models the control of that program in TLA+, checks it with TLC on
small instances and proves part of it with TLAPS. The physics itself (binary32
dynamics and collision) is data to these models: where a tick ends, whether a
trigger is touched and how far a car is from the ghost are nondeterministic
choices, so the properties hold whatever the physics does.

Paths below are relative to the repository's root. `PROJECT.json` maps every
definition that models code to the lines it stands for and lists the runs, the
mutants that show that each property can fail, the findings, the hazards and the
theorems.

## 1. The system

| Part | State it keeps | Operations | Modelled by |
|---|---|---|---|
| Race state, `src/engine/game/trackmania_race.cpp` | marked checkpoint slots, lap and checkpoint counters, the spawn of the race and of the player, the journal of accepted checkpoints | session reset, course preparation, contact with a checkpoint or the finish, journal trim, clone and restore | `Race`, `LapRace` |
| Control plan, `src/simulation/control/replay_control_plan.cpp` | a walk over the events with a `ReplayControlState`; its result is a list of ticks | `BuildReplayControlPlan` | `ControlPlan`, `ControlPlanBuilder` |
| Physics sandbox, `src/validation/api/validation_api.cpp` | the inputs and a window over them, the plan and a replaced stretch of it, cursor, horizon, runtime, captured states | load, advance, replace inputs or a window, set the horizon, capture, restore | `Sandbox` |
| Validation, `src/validation/evaluation/` and the report in `validation_api.cpp` | the observations of a run, the recorded outcome, the scan of the ghost's samples | classify, simulate, evaluate, report | `Validation` |
| Finish-time refinement, `src/simulation/runtime/replay_simulation_runtime.cpp` and `replay_finish_time_estimator.cpp` | clones before and after a tick, the observer's notes, the bounds of a bisection | a tick, its replay under the observer, reruns of the finishing substep, the final restore | `FinishEstimate`, `FinishBracket` |
| Contexts, asset caches, batches, `validation_api.cpp`; deterministic scope, `replay_deterministic_execution.cpp` | four append-only caches per context or sandbox, the repositories in them filled later; the rounding mode and one random sequence per process, saved by a scope | validate one replay or a list, load, advance, capture, restore, with the fill of the caches and the draws of the map inside | `ValidationContext` |
| Search session, `src/simulation/backends/cuda/cuda_search_executor.cu` and `src/simulation/runtime/replay_simulation_session.cpp` | slots of a batch on the device, the incumbent (sample, inputs, state), a cancellation flag of the host | baseline, batch, cancel, reserve; per slot generation, simulation, refinement; reduction, finalization | `SearchSession`, `SearchWinner` |
| Search candidates: the mutation kernels of the same file, `cuda_search_segments.cuh`, `src/validation/planning/search_*.h` | the events of one candidate, the segments selected for mutation | five modifiers, normalization, restoration of controls after a segment, pruning; the capacity planned for all that | `SearchCandidate` |
| Vehicle simulation lifecycle, `replay_vehicle_*.cpp`, `replay_physics_world.cpp` | car, body and world and their bindings | construction, start, step | not modelled |
| Map scene, `src/simulation/replay/replay_map_scene.cpp` | flags and collections, set up once per map | install, load a course, bind the race, destroy | only the mobils drawn on the way, in `ValidationContext` |
| Stunt scoring, `trackmania_race_stunts.cpp` | figure and combo timers | per tick | only the time penalty, in `Validation` |
| Challenge construction, scene definition, asset routes, decoders, serialization, command line | none between calls | sequential translations | not modelled |
| Physics and collision on CPU and GPU, batched and optimized backends, rendering, native platform | kernels and buffers | arithmetic and I/O | not modelled |

The parts interact by plain calls on one thread. A validation decodes a replay
(outside the models), builds one control plan, hands its ticks to the runtime one
by one, takes an observation from the runtime on each observed tick and evaluates
the list at the end. A tick runs the physics in a number of substeps, each of
which may call back into the race state when the car touches a trigger; on the
tick that completes the race the runtime nests itself, from saved clones of its
own state, to refine the finish time. A sandbox drives the same plan builder and
runtime, but its caller decides the order of the calls.

A search session shares the sandbox's scenario and works on the device: its
kernels run one after another, the slots of a kernel in any order. What all calls
of a process share is the random sequence, the rounding mode and, in a batch, the
context's caches.

The only concurrency is that of the slots of a kernel, of the parallel reduction
and of a host that raises the cancellation flag while they run. What is hard in
this code is therefore

* **protocols**: long sequences of legal calls (contacts with triggers in any
  order over several laps; edits, horizons, captures and restores in any order)
  that have to keep separately stored pieces of state in step;
* **stale state**: captured states restored under another horizon, a plan of
  which only a stretch is rebuilt, the observer's snapshot of a substep, a finish
  time that is read after the fact;
* **partial failure**: an allocation that fails between two assignments, or in
  the middle of a tick, and leaves the members of a sandbox or a runtime at
  different moments; a call that breaks off between two caches; a batch that
  fails after the device has already replaced the incumbent;
* **ordering and boundaries**: events between two ticks, observation targets off
  the grid, a scan that stops at the first failure of several kinds, a bisection
  between a floor and a ceiling;
* **interleaving and cancellation**: slots that see the flag at different ticks, a
  refinement that one slot has done and another has not, a winner picked in one
  order and counted in another;
* **capacity**: a bound on the events of a candidate that is computed before any
  of its random draws is known.

`PROJECT.json` lists these, each at its line, with the properties that would
catch it, or with the reason why no property does yet.

### What makes each part correct

* **Race.** The lap counter is the number of marked checkpoints; a race completes
  exactly when its laps are done, and is closed from then on; journal entries are
  numbered without gaps over laps and clones; a respawn goes to a place that was
  earned in the running lap.
* **Control plan.** Each tick is what the inputs up to its time say; a respawn is
  delivered on exactly one tick; the spawn and the reset happen once; a target is
  compared exactly when a tick falls on it.
* **Sandbox.** The runtime has executed the plan up to the cursor, the plan is
  that of the reported inputs, the cursor is within the plan, also after a
  restore; a runtime torn by a failure is not used until a load.
* **Validation.** Valid means reproduced, and the other way round; the reported
  status is true of the run; in the modes whose outcome the inputs record, theirs
  is reported.
* **Finish-time refinement.** It reruns the substep that finished the race, its
  bracket consists of reruns that were made and is a nanosecond of that substep,
  counted from the time of the tick; it leaves nothing but the finish time behind,
  and it ends.
* **Contexts and scopes.** A replay is validated on the map, and under the
  rounding mode, it would have as the first call of a process, whatever ran or
  failed before; of what an earlier call left half done, only one thing makes a
  later call fail, a repository that ran out of memory while it filled itself (a
  fault of the code, section 5); callers find the process as they left it.
* **Search session.** The incumbent is the one a sequential search over the same
  candidates would keep; its sample, inputs and state are of one candidate; it
  never worsens, and a change is announced when it is handed out.
* **Search candidates.** The planned capacity suffices for every draw; only opened
  windows change; ticks outside the selected segments follow the baseline;
  skipped sorting and dropped steering are not felt.

## 2. The modules

```
LapRace        <- Race <- RaceProofs
                       <- MCRace
ControlPlan    <- ControlPlanBuilder <- MCControlPlan
                                     <- ControlPlanBuilderProofs
               <- Sandbox <- MCSandbox
                          <- SandboxProofs
FinishBracket  <- FinishEstimate <- MCFinishEstimate
                                 <- FinishEstimateProofs
               <- MCFinishBracket
Validation     <- MCValidation
               <- ValidationProofs
SearchWinner   <- SearchSession <- MCSearchSession
               <- SearchSessionProofs
SearchCandidate    <- MCSearchCandidate
                   <- SearchCandidateInvariant <- SearchCandidateProofs
ValidationContext  <- MCValidationContext
                   <- ValidationContextProofs
```

`A <- B`: B extends or instantiates A. `FinishEstimateProofs` also has the proofs of
`FinishBracket`, whose operators its argument goes over.

### `Race` and its abstract specification `LapRace`

`race` is one record with the fields of `progress_`, the player and the journal,
because the code copies them as one. `BeginTick`, `CheckpointContact(slot)`,
`FinishContact` and `EndTick` are the simulation's calls; a contact is a whole
`OnCheckpointContact`, with `InternalPrepareEvent`, the acceptance test, journal,
counters, spawn and lap turn-over in the order of the code. `StartSession` is the
configuration and the map scene's reset (course preparation may lose its slots to
an allocation failure: `sized`) together with the first control tick, which
always establishes the spawn. `CaptureRuntimeClone` and `RestoreRuntimeClone`
copy the record out and in. Locations are opaque. Stunt state does not influence
these fields and is left out.

`LapRace` says what a lap race promises with none of that bookkeeping: the
checkpoints taken since the last finish line, the laps, whether it is over, and
one state to go back to. `ImplementsLapRace` is the refinement, under `lap <-
passed \ {FinishSlot}`.

### `ControlPlan` and `ControlPlanBuilder`

`ControlPlan` defines a tick of a plan as a function of the inputs and the
request: the last change of each action up to the tick's time, which of the axis
and the keys wins, which transitions happen. `ControlPlanBuilder` is the code's
loop (`CheckRequest`, `BuildTick`, `FinishPlan`, an allocation failure in
`RunOutOfMemory`): one walk over the flattened event list with an event cursor, a
target cursor and one-shot flags. `TicksSampleTheInputs` says that the walk
computes the function. Analog amounts are integers in the units of the file; the
division by the scale is left out.

### `Sandbox`

The runtime's state is a function of the ticks it has executed, so it is modelled
as that sequence. `inputs` and `plan` are the code's two storages, each a base
and something laid over it. Each of the caller's calls is one action with the
code's guards; where the code assigns members before an allocation that may fail,
there is a second action (`LoadFailsInPlan`, `LoadFailsInRestart`,
`ReplaceInputsFails`, `SetSimulationHorizonFails`, `AdvanceFails`) that stops
between those assignments. `failed` is a history variable: it marks a sandbox, or
a state captured from one, that descends from such a call. `rewritten` is another:
the executed ticks whose own inputs were edited while they were current, which
the code allows (see the findings); it is noted until a call fails half done. Plans are built with `ControlPlan`.

### `FinishBracket` and `FinishEstimate`

`FinishBracket` is `RefineReplayFinishTime`: the bisection over the whole
nanoseconds of a substep, where any set of durations may finish the race. The
doubles of the code are only looked at through `floor` and `ceil`, which stand in
their place. `FinishEstimate` is `Step` with `EstimateFinishTime`: the ordinary
tick substep by substep under the observer's callbacks, the restore to before the
tick and its replay, the restore to its end, the reruns (with `FinishBracket`'s
operators), the final restore. A physics state is represented by the *place* it
is a state of (a tick boundary, after a substep, after a rerun of some
nanoseconds), separately for the race and for the rest, because the code restores
the one after the other. `PreparationRefused`, `ProbeRefused`, `CopyThrows` and
`RerunThrows` are the allocations that fail.

A tick of time T simulates what follows T. Its substeps are cut from a period in
binary32 seconds, and what they take need not add up to the period, so the model
does not say where the last one ends: offsets are in halves of a nanosecond, an odd
one standing for any point strictly between two whole ones, and `Nanoseconds` rounds
them outward as the code does.

### `Validation`

`ValidateReplay` of one decoded replay: `Classify`, `NoMapStart` and `Fail` are
the early returns; `SimulateTick` is a tick of the run, which may finish the race,
move its finish time, respawn, score, and land at any distance from the ghost;
`EndSimulation` puts the recorded outcome over the simulated one in the modes
where it is authoritative; `ScanObservation` is one turn of the comparison loop;
a refined finish is a nanosecond of the interval that begins at the time of the
finishing tick, or the one just past its end (`Brackets`);
`Report` is the verdict, the reason for it and the public report. Distances are
classes; times are in ms.

### `SearchWinner` and `SearchSession`

`SearchWinner` has the comparisons: `StrictlyBetter` (score, then fewer events),
`StrictlyDominates` for scripted evaluators with several objectives, and
`BetterSample`, the operator of the parallel reduction, which settles ties by the
logical order of the samples.

`SearchSession` is a session call by call and, within a call, kernel by kernel.
`EvaluateBaseline`, `RunBatch` and `ReserveBatchCapacity` are the host's calls;
`Simulate(s)` and `Refine(s)` run one slot of a kernel, in any order;
`RequestCancellation` may come at any time of them, and each slot notices it at
one of its polls or not at all. `Reduce` merges the samples and the seed of the
incumbent, `Finalize` takes the winner, its inputs and its captured state, and
`Return` hands the summary to the caller. `LaunchFails` and `CopyFails` are the
device failures, before and after the incumbent has been replaced. What physics
makes of a candidate is its *run*, the evaluator's value after each tick; a run
may be refused at a tick, its inputs may be unchanged or overflow. A finish has two
times: the coarse one is that of its tick, by which runs are given up early, and the
refined one (`FineTime`) lies after it, by an amount the model leaves open. `ideal`,
`tainted` and `withheld` are history variables: the winner of a sequential search
over the candidates evaluated whole, whether some batch has not succeeded, and
whether a failed batch has changed the incumbent unseen.

Along the loops of the code, what a run, a reduction and a count compute is written
step by step: `AfterTick` is one tick of the evaluation, `Merge` one comparison of
the reduction, `IdealAfter` one candidate of the sequential search.

### `SearchCandidate`

One candidate: the baseline's suffix behind the mutable boundary, the segments
selected for mutation (none in a flat search), the modifiers one after another,
and after each mutated segment the restoration of the controls. Each modifier is
an operator that gives the *set* of event streams its draws may lead to, so one
action covers all seeds; where the kernel loops (over the deformations, the samples of
one, the insertions of a channel), that set is a function of the number of steps made.
A filter or a sort is a choice of places of the stream (`Kept`, `InOrder`). `Capacity` is the bound the code computes on the host;
`Push` gives `Overflow` beyond it. The properties compare streams by the controls
the car feels at each tick (`ControlsFromState`), the way the simulation kernel
samples them. `SearchCandidateInvariant` adds nothing to the model: it has the
words its proofs are stated in (a sound stream, the outcome of a modifier, what a
restoration writes) and the three inductive invariants.

### `ValidationContext`

One thread of a process: the calls of a context (batches of validations) and of a
sandbox (load, advance, capture, restore), each step by step: keys, packs,
repositories and vehicles filled on demand, the mobils of the map drawn from the
random sequence, the scope opened and closed. `Fault` may end any call between
two steps; the scope's destructor runs on that way too. A vehicle is decoded before
it is cached; a repository is cached as it is configured, and fills itself when a map
first needs it (`EnsurePack`, which may run out of memory after it has noted its pack
as ready). A call that meets a repository without its stores fails
(`AssetsUnavailable`): without block infos there is no catalog, and without materials
the solids of a map or of a decoration are refused, each of which is taken to need one
of its pack. `SetRounding` is the
application between its calls. The random sequence is given by the position in
it.

## 3. The runs

All runs finish within five minutes with two workers.

| Run | States | What it shows |
|---|---|---|
| `race` | 751,201 | lap counter, completion, journal and respawn are consistent, a completed race is closed, `Race` implements `LapRace` |
| `control_plan` | 594,930 | the walk samples the inputs; respawns are delivered once; targets are compared exactly |
| `sandbox` | 49,419 | what has been executed is the plan, the spliced plan is the rebuilt one, a torn runtime is out of use |
| `validation` | 1,542,072 | valid exactly if reproduced; status, outcome and estimate are true of the run |
| `finish_bracket` | 8,035 | bounds are probes, exact where finishing is monotone, each probe halves |
| `finish_estimate` | 552,709 | the right substep, no trace, a finish time of the completing substep, the call returns |
| `search_session` | 2,589,985 | the incumbent is the ideal one, belongs together, never worsens, is announced |
| `search_candidate` | 31,357 | capacity, canonical order, windows, baseline outside of segments, invisible pruning |
| `validation_context` | 1,827,702 | validations do not depend on what ran before, only a half-built repository is remembered, callers are undisturbed |
| `validation_samples` | violation | fewer requested samples suppress the evaluation of the outcome |
| `search_refine` | violation | a cancelled refinement lets a later finish replace the incumbent |
| `search_restore` | violation | keys used before the boundary take the steering away after a mutated segment |

### The bounds and why they are enough

* **race**: two checkpoints, of the two kinds that differ in the code (a block
  with a spawn of its own, one that respawns at the current transform); 0, 1 and
  2 required laps, where 0 never completes; both kinds of play mode; six contacts,
  which is two laps, or one lap with three repeated or misplaced contacts anywhere; two ticks, so that the journal is trimmed between contacts; one clone,
  after a tick, restored at any later point, also in a later session. What the
  bound leaves out is covered by the proofs, which have none.
* **control_plan**: six clock values with ticks of two, so an event is before,
  on or between ticks, or after the last; all pairs of events of an alphabet with
  every action, each switch value and both sides of each threshold, and every
  extension by one event of two longer timelines in which the race runs, stops,
  starts again and respawns; thirteen requests, of which some are refused and
  some miss their targets. It may stop: `CHECK_DEADLOCK FALSE`, as in every run
  that models one call.
* **sandbox**: a prestart tick and three race ticks, a horizon that shrinks to one;
  timelines that differ in one analog event on a tick, edited whole or in a window
  of one tick with both its ends, laid over one another, with a tick after it that
  must follow; up to two ticks per advance; a state captured and restored at any
  point, under either horizon; one call that fails half done, anywhere. A second
  failure finds nothing that the first one has not left: `failed` stays set until a
  load or a restore. `WindowPlanIsRebuiltPlan` is claimed for edits of controls whose
  next event settles them; see section 6.
* **validation**: up to three samples and four ticks, one or all samples
  requested, each recorded value absent, equal, off by the tolerance or by more,
  finishes on and beyond the stunts limit, and every kind of special recording;
  a refined finish is the first or the last nanosecond of its tick, or the one after.
* **finish_bracket**: every substep within nine nanoseconds and every subset of
  finishing durations. Three halvings cover both parities of an interior at each
  level; the proofs cover all sizes.
* **finish_estimate**: two ticks of one to three substeps, so that the finish may
  be in a first, middle or last one, in the first or second tick; the last substep ends
  half a nanosecond after the period of three, on it, or a nanosecond before, and
  substeps meet on whole nanoseconds and between them; all subsets of finishing reruns;
  one captured state; one failing allocation anywhere.
* **search_session**: two candidates and the baseline, with runs that peak early
  and late, tie with one another, are refused by the physics, find nothing, are
  unchanged or overflow; three evaluated ticks with a poll every two, so that a
  cancellation comes before, between and after polls; three batches, the fewest
  in which an incumbent is taken, kept and replaced; batches of one and of two, so
  that the reduction has a seed and two samples; one device failure. Ticks are of four
  ns; a finish lies within its tick, at its end, or a nanosecond past it, where it ties
  with the first one of the next tick; the prestart is three ms, so that a clock with
  it and one without it are far apart. That the
  grouping and the order of a larger reduction change nothing is proved, as are the
  four properties for sessions of any size. `search_refine` is the same instance with a finish evaluator and two
  batches.
* **search_candidate**: thirteen searches, together all five modifiers, alone and
  in pipelines of two and three, flat and over two or three segments of one or
  two ticks, with windows that begin and end between ticks, inputs canonical and
  not, analog and digital, with and without events before the boundary; four
  values a random draw may have, the extremes included. Each search is explored
  for every selection of segments and every draw.
* **validation_context**: a batch of one or two, five calls, one fault, two
  rounding modes; two replays that share the pack of their maps, one whose map draws
  twice with a block between that does not draw, one that draws once and has its
  decoration and its vehicle in another pack, so that one repository of a route may be
  half built and the other not, in one context and not in a sandbox. So a batch may
  start in the middle of the sequence, after a load that has moved it or a snapshot
  restored after that. One fault leaves one thing half done, which a later call then
  finds; the proofs cover every number of calls and faults.

### Fairness

`FinishEstimate` assumes weak fairness of the steps of a call (`StepActions`): it is
a sequential function whose caller waits for it and nothing in it blocks. The
actions of the caller (begin a tick, capture, restore) and the failures are not
fair. No other module states a liveness property, and none assumes fairness: a
sandbox or a search session may be left alone for ever, and the code promises
nothing about a kernel that does not end.

## 4. What is proved

`RaceProofs` (1246 obligations), `ControlPlanBuilderProofs` (3093), `SandboxProofs`
(1188), `FinishEstimateProofs` (1331, those of `FinishBracket` included),
`ValidationProofs` (1779), `ValidationContextProofs` (599), `SearchSessionProofs` (3636)
and `SearchCandidateProofs` (8851) are
checked by TLAPS for every value of the constants that satisfies the modules' named
assumptions: the number of checkpoints is a natural number, the special blocks are
checkpoints, spawns are locations or none, routes and blocks are given for every
replay and a route begins with the repository of the map, durations and horizons are
positive, windows are intervals of the clock, the period and the prestart of a
validation are positive and its resolution is of more than one unit a ms, a tick is cut
into one or more substeps that end at increasing times, scripted evaluators have a
fixed number of objectives, a finish lies after the time of the tick that found it, the
bounds are natural numbers; a tick of a search lasts more than two
milliseconds and its boundary stands on one, draws of the generator lie in the range of
a channel, inputs have no negative times, the weights of the smooth modifier are
integers.

**Race.** `Invariance` proves `Spec => []IInv`. None of the properties is
inductive by itself: that the lap counter is the number of marked slots needs
that the finish slot is only marked on a completed race, which needs that
completion is earned; numbering in the journal needs the counters to agree; and
all of them need that a clone that may be restored is as good as the running
race. `IInv` is therefore the conjunction `Good` of all parts of the running race
*and* of every captured clone, with the state before the first session spelled
out. The proof goes over the operators on race records first (what
`CountPassage`, `MoveSpawn`, `CountLap`, ... preserve, as lemmas), then over the
actions, one step each. From it follow `LapCounterCorrect`, `FinishSlotCorrect`,
`CompletionCorrect`, `CountersCorrect`, `JournalCorrect`, `RespawnCorrect`,
`FreewheelCorrect` and `TypeCorrect` (the invariants; three of them are proved only,
and no run lists them), `CompletedStaysClosed` (the action property:
on a completed race the slots that `Good` says are marked refuse every contact)
and `RaceImplementsLapRace` (initial states map to initial states, each action to
an action of `LapRace` or a stutter).

**ControlPlanBuilder.** `TargetsAreComparedExactly` (`TargetsComparedExactly`) is
about numbers. The walk keeps that the clock is the number of ticks times the period
and that the targets before the cursor lie at or before the clock (`Walk`); while all
targets stand on ticks (`OnGrid`) the targets before the cursor are those that some
tick carries (`Caught`), so that `compared`, which counts ticks, counts targets. That
two targets never share a tick is that they ascend strictly; the first one off the
grid is skipped, which `FinishPlan` notices by the count.

`TicksAreSamples` (`TicksSampleTheInputs`) says that the walk over a flattened list of
events computes the function that `ControlPlan` defines over times. What the code
does element by element, the list, the inner loop over it and the sum of the
respawns, is written as recursive functions, and neither their values nor the
existence of a function with such values is known to the provers. Two lemmas take
the place of induction. `StepByStep`: for a first value and a step from each value to
the next, there is a function of `0..n` that starts with the one and takes the
others. `Least`: a nonempty set of natural numbers has a least element, so a claim
about all steps is proved by the step that would violate it first. With them
`Layout` gives each event of each time its place in the list: the places of a time
follow one another, those of a later time come later, and there are no others.
`Keeps` says of the state of the controls that it stems from the last event of each
action among those consumed; `WalkOverEvents` that the inner loop keeps it up,
together with the running flag (`RunsAt`) and the pending respawns.
`KeptIsState`, `RunsIsRunning` and `DueIsWalked` translate from places in the list to
times, the last one counts respawns by a bijection between those walked over and
those due. The invariant of the walk (`Sampler`, in `SInv`) then says of the state
between two ticks what `ControlPlan` says of the time between them, of the one-shot
flags when they were raised, and of every tick made that it is the one specified;
`Settled` says the same of a finished walk, after its trailing tick or without one.

`RespawnsAreDeliveredOnce` (`RespawnsDeliveredOnce`) follows from it: each tick
delivers what falls due within its window, the windows of different ticks are
disjoint (`WindowsApart`), and `DeliverOneMore` adds up their sizes along the plan.

**FinishBracket** (in `FinishEstimateProofs`, under `BracketIInv`).
`BracketInvariance` strengthens `BoundsAreProbes` by what a
returned state remembers of the search. `BoundsCorrect`, `EstimateCorrect`
(every estimate is valid; none only where the call is refused), `ExactCorrect`
(the first finishing nanosecond, where finishing is upward closed) and
`HalvingCorrect` follow, for substeps of any size.

**FinishEstimate.** A call goes through stages, and `IInv` has a part for each: what
stands between two calls (`Idling`: both halves of the state are at the end of the
last tick, unless a failure tore it), a tick at work (`Ticking`), the saved states
and what they are saved before (`Saved`), the replay under the observer
(`Replaying`), what it found (`Replayed`, `Transition`), the reruns (`Refining`) and
the bounds they have narrowed (`Bounded`). `NoTraceWithoutFailure` is not inductive
without them, because what Step returns depends on a clone made before the tick, a
clone made at its end and the substep that a replay noticed in between: that the
replay finishes in the substep in which the tick finished needs that it starts from
the state before the tick and takes the same substeps, and that every rerun starts
before that substep needs that the observer saved the state at its beginning. A
failed allocation weakens what is claimed of the positions and of nothing else.
`NoTrace`, `RerunsAreOfFinish`, `BoundsOfReruns`, `FinishTimeInItsSubstep` and
`NeverLeftObserved` follow, for every cut of the ticks into substeps, every set of
finishing durations, and any number of ticks and failures. The cut is arbitrary: that
the substeps of a tick add up to its period is assumed nowhere, so
`FinishTimeInItsSubstep` places a finish time in the substep that completed the race,
counted from the time T of its tick, and not in (T, T + period].

**ValidationContext.** The invariant says of a running validation that its scope is
open, has saved the state the call was made in, and that the sequence stands at
exactly as many draws as the blocks built so far make (`NothingDrawn` and
`OneBlockMore` count them); that every cached pack was probed before it was
cached; that a repository whose pack is ready has both of its stores, or is noted as
one that ran out of memory, and one whose pack is not ready has none (`FillInv`); and
that no scope is open without a running call. It is needed because
the map of a call is the product of many steps, any of which may be the last, and
because the request after it starts wherever those have left the sequence. From
it follow `ValidationIsReproducible`, `OnlyHalfBuiltFails` and `ScopesLeaveNoTrace`,
for any routes, any random sequence, and any number of calls and faults.

**SearchSession.** First the two orders on samples. `ImprovementIsAnOrder` and
`DominanceIsAnOrder`: irreflexive and transitive, so incumbents never cycle.
`ReductionMayBeGrouped`: `BetterSample` is associative, without which a parallel
reduction would depend on the grid. `ReductionMayBeReordered`: it gives the same
winner from either side, for samples of different logical orders, one of them valid
(of two invalid ones it returns either). `WinnerStandsForBoth`: what improves the
winner improves both operands, so that comparing with the winner alone is enough.
All for any scores and any number of objectives.

`SessionInvariance` is the inductive invariant of a session (`IInv`), for any set of
candidates and runs, any number of ticks, batches and slots, and slots,
cancellations, polls and failures in any order. `BatchOK` says of every slot how far
it has come: fresh, simulated, awaiting its refinement or done, its sample always its
own candidate's (`IsOf`, `InSlot`), and, where the slot succeeded, what the candidate
does alone, or none if it cannot beat the incumbent (`Agrees`). `WinnerOK` says that
the winner is where a walk over the slots from the first to the last would end,
`IncumbentOK` and `IdealOK` what the incumbent is and how it stands to the ideal best,
`KnownOK` what the caller knows of it.

The work is in four arguments. *A run*: `LocalBest` is made tick after tick
(`LocalBestSteps`), so that its value where the run ends is found at the tick it names
(`BestIsOf`), and is the same in every slot but for the slot's number
(`WholeAgrees`). *Pruning*: a finish after the tick at which a run is given up cannot
beat the incumbent (`PrunedIsBeaten`), nor one that the refinement rejects
(`TooLateIsBeaten`). *The reduction*: a walk that keeps the better of two samples ends
with one that none improves, for every strict order (`KeptBest`). It is used with
improvement for the walk of the slots and the ideal search, and with
`PreferredToLater` for the merge in an arbitrary order; since logical orders ascend
with the slots, both end with the same sample (`WinnerIsWalk`). *The ideal search*:
slot after slot, both walks have the same best, as long as no slot has failed, and
otherwise the ideal one never gets ahead (`IdealStands`; `IdealFinishStands` for
finishes, of which only the time counts).

`BestIsTheIdealBest` (`BestIsIdealBest`), `IncumbentBelongsTogether`
(`BestBelongsTogether`), `IncumbentOnlyImproves` (`IncumbentNeverWorsens`) and
`CallerHearsOfChanges` (`ChangesAreAnnounced`) follow. The second conjunct of the last
one compares a count over the slots in order with a reduction in any order: both say
whether the walk has left the incumbent (`CountFacts`, `AfterFacts`).

`SearchAssumption` says two things of the runs that the proofs need and the code
provides: a scripted evaluator has the same number of objectives at every tick, since
its program is fixed when the session is created, and the instant of a finish lies
after the time of the tick that found it, since the bracket is searched from there on
and a bound that rounds down to it is the lower one. How far after is not assumed: that
a run is given up as soon as its clock has reached the incumbent's refined time is
sound because a finish is never before the time of its tick. The
proofs also showed a fault of the model, now mended: a tick that is
both refused and pruned had two outcomes, because the guards of a `CASE` overlapped,
although the kernel looks for a refusal first.

**Sandbox.** `StandsWithinPlan` (`PositionInPlan`) needs that the plan of a whole
sandbox has its horizon's length, and that a captured state's plan has the length
of the horizon *it* was captured under, since a restore may bring it back or
rebuild it. The step that needs work is the splice of a window: `Least` and
`Greatest` give the times that the code's scans for the first and the last event
find, `ReplacementEndTick` puts the end of the splice on a tick not before the
race, and `WindowKeepsPlan` concludes that the stretch ends within the plan.
`TornStaysOutOfUse` (`TornUntilLoaded`) holds of every step by itself.

`RuntimeOnPlan` (`RuntimeFollowsPlan`) and `SplicesAreRebuilds`
(`WindowPlanIsRebuiltPlan`) have an assumption on the edits, `EditsIndependent`, that
TLC evaluates on the run's instance: timelines differ in events of the analog
steering and the brake only. Without it both are false of the code (section 6).
Neither is inductive: that a rebuilt plan agrees with what was executed from the
old one needs that the old one was that of the inputs, which is the other property,
and both must be kept for captured states, at their own horizon. `RInv` says so.
The argument rests on two theorems about `ControlPlan`, proved in the same module: a tick depends on nothing
after its time (`TickOfPastInputs`: the ticks before an edit), and two timelines
whose differences have been settled by a later change of the same action give the
same tick (`TickOfSettledInputs`: the ticks after a splice). That they apply is
`SettledAfterSplice`: past the end of the splice each control the window touched
has had its next event, and the others have not been touched. `SplicedPlan` puts
the three stretches together, before, within and after.

**Validation.** `IInv` of `ValidationProofs` carries what the report is made from: a
finish is never before the race has started, its estimate is a bracket of the tick
that first finished the race (`RunInv`: the compared finish may move on, the bracket
may not), the evaluated outcome is the run's or the recorded one put over it
(`SimInv`), and a scan that has stopped has a status and an outcome that belong
together (`ScanInv`). `VerdictGiven` goes through the early returns of
`FinalizeValidation` and `StatusFromComparison`: the row that is taken is the first
that applies, so that the last one of all, an unfinished race, is reached only when
nothing else has made the comparison invalid. `TimeOfReason`, `ScoreOfReason` and
`RespawnsOfReason` then turn what the code compared into what the run and the recording
say. `BracketFromStart` is the arithmetic of the estimate, whose three bounds are moved
to the start of the race alike.

`ReproducedIsValid` (`ValidExactlyIfReproduced`) and `DivergenceEndsScan`
(`ScanStopsAtFirstDivergence`) need what the scan has seen so far, `JInv`. The count
of compared samples is the cardinality of a set of indices, no larger than the number
of targets whose time has passed (`ObservedInv`): that all of them were compared is
then an equation between two counts. `ScannedInv` says of the samples before the
cursor that each was measured and none diverged, and that the largest distance among
them is the one noted. `VerdictValid` joins this with the rows of the verdict: none of
them applies exactly if the outcome, the count and the distances all agree.

**SearchCandidate.** A candidate is a stream of events under a dozen operations that
sort, filter, replace and append, and the first part of the module says what those do.
`InOrderFacts`: the members of a finite set come out once each, in their order. With it
`KeptFacts` and `NormalizeFacts` say where each event of a filtered or a sorted stream
was before, `MatchedKept` and `KeptMatches` when two filters give the same, and
`NormalizeSameAt` that sorting and merging at a time depends on the events of that time
alone.

`SuffixInvariance` proves `Spec => []SuffixInvariant`. The invariant has five parts.
`Requested`: the request is one the executor accepted and prepared. `PlaceInWork`: where
the kernel is, and that it has not run out of room. `FlagIsTrue`: the suffix is what the
`normalized` flag says of it, and with segments it always is in order. `RoomIsLeft`: its
length is at most the baseline's, the growth planned for the segments done, and that of
the modifiers done in this one. `ClosedIsKept`: at times that no window and no
restoration may write, sorting the suffix gives what sorting the baseline gives. None of
the properties is inductive alone: that there is room for a modifier needs that the ones
before it grew no more than planned, that a modifier may skip the sort needs the flag,
and what is left of the baseline can only be compared once both are sorted.

A step needs one fact of each modifier, `Outcome`: the stream it leaves has so many
events more, in their ranges, and differs only within its window (begun at a tick, since
samples and insertions are put on ticks). Outcomes compose (`OutcomesCompose`), so that
it is enough to look at one event replaced, dropped or appended; the repetitions of a
modifier, which the model writes as functions of the number of steps, are taken one
after the other (`DeformedSteps`, `SmoothSteps`, `InsertionSteps`: `StepByStep` again).
`ApplyModifierFacts` joins the five kinds, `RestoreFacts` adds the six events of a
restoration, `GrowthUpToFacts` the sum that the host plans with.
From the invariant follow `CapacityIsEnough` (`CapacitySuffices`),
`CandidatesAreCanonical` (`CandidateIsCanonical`) and `OnlyOpenTimesChange`
(`OnlyWindowsChange`), for every request, any number of segments and modifiers, and
every draw.

`SegmentsAreRestored` proves `Spec => []RestorationInvariant`, the second inductive
invariant, for searches over segments. `PendingIsKept`: a time that no modifier may
write, and that is not one of the two after a segment done with, has the baseline's
events. `DigitalStays`: a digital steering event of the baseline is not lost but
replaced in its channel. `RestoredIsKept`: after each segment done with, if the next tick
is not mutated too, every channel has the baseline's value, and the car the baseline's
controls where inputs begin after the boundary. The step that establishes the
last compares three states of the controls at the end of the segment: the baseline's, the
mutated stream's, and the mutated stream's with the restoration written over it
(`WrittenBackFacts`, `AroundRestoration`). A group of channels that differed has been set
to the baseline's values, in the order of its priority (`RestoredSteering`,
`RestoredGates`); one that did not is as it was. The kernel decides this in
times counted from the boundary and the car is simulated in race times, where a channel
that was never set has the time 0 in both: the priorities agree since inputs begin
after the boundary (`SteeringOfOrigins`, `GatesOfOrigins`), which is why
`UnselectedTicksFollowBaseline` claims them only then, and why `search_restore` finds
them lost otherwise. From a restored segment to an unselected tick, both streams do the
same (`ControlsFollow`), so `UnselectedTicksAreTheBaseline` follows.

`RedundantSteeringIsNotFelt` proves `PruningIsInvisible`. A steering event that repeats
the held value leaves the value of the wheel alone, but not the time at which the wheel
was last set, and by that time the wheel has priority over the digital steering or has
not. It would be felt if a digital release lay between the event that is held and the
one that is dropped. A search prunes only inputs without digital steering, but a
restoration writes digital releases. So a third invariant is needed, `OnlyRestoredDigital`: each digital
steering event is a release, written after a segment that is done with, together with
a wheel that comes after it, or that is in the dead zone. Later modifiers write ahead of
it (`WroteAhead`), so what a pruned stream holds was set no earlier than the release
(`ReleasedSteering`, `PrunedReaches`), or is too small to move the wheels.

Left to TLC: liveness (`StepReturns`), since fairness and ENABLED are beyond the
prover. Every safety property of the passing runs has a theorem. The library's induction theorems cannot be
instantiated with the provers at hand; `StepByStep` and `Least` get around that for
functions defined by their last step. The properties of the three runs that
expect a violation are false and therefore have no theorem.

## 5. Findings

Three runs check what a document or a comment of the repository says and find it
violated by what the code does. Each is quoted in `PROJECT.json`.

1. `validation_samples`: a run with fewer requested samples than the ghost has is
   called incomplete before its outcome is looked at.
2. `search_refine`: a slot whose refinement is cancelled or refused keeps its
   coarse score, in ms of the race, which the reduction compares with refined
   scores, in ns; the coarse one wins whatever it is, and may finish later than
   the incumbent it replaces.
3. `search_restore`: the controls restored after a mutated segment mix times
   counted from the mutable boundary with absolute ones, so keys that were
   released before the boundary take priority over the analog steering of the
   baseline.

Smaller divergences that were met while modelling and that no run asserts:

* The legacy finish time is the time of the last prepared contact, and contacts
  after the finish still move it (`trackmania_race.cpp`,
  `replay_vehicle_simulation.cpp:227`). `Validation` lets it move.
* "Past sandbox inputs are immutable", but the tick at the current time has been
  executed and its inputs may still be edited (`validation_api.cpp:2515` compares
  the inputs strictly before it). `Sandbox` keeps track of such ticks (`rewritten`)
  and `RuntimeFollowsPlan` excepts them, so no property is about this.
* `EnsurePack` (`installed_pack_asset_repository.cpp:250-253`) notes its pack as
  ready before it allocates the stores for block infos and materials, and the
  repository is cached by then. If memory runs out at one of them, every later
  call of the context that needs the repository fails, since `EnsurePack` returns
  early and there is no catalog or no material; README.md:223-224 says "A validation context lazily caches pack and vehicle data,
  so it can be reused for replays from different United environments." `OnlyHalfBuiltIsRemembered`
  says that nothing else is remembered.
* docs/finish-time-approximation.md:44-47 has refined finish times in (T, T + period].
  A period of ten ms is 10.0f * 0.001f seconds (`physics_step.cpp:14-17`), which is
  0.010000000707805157, so the last substep may reach past the period: a tick of one
  substep ends at 10,000,000.7 ns, rounded up to T + 10,000,001 ns. With more substeps,
  whose durations and sums are rounded in turn, the end lies between 9,999,887 and
  10,000,127 ns (computed for up to a thousand substeps). `FinishEstimate` leaves the
  end open.
* The device rejects a coarse finish only if it is a whole tick later than the
  incumbent (`cuda_search_executor.cu:3413-3417`), which is what a time at the end of
  a tick would call for; counted from T, it could reject a tick earlier. It costs
  refinements and changes no result.
* The report of a scripted replay counts measured samples, and one that cannot be
  measured is counted.
* When the last restore of a refinement cannot be prepared
  (`replay_simulation_runtime.cpp:929`), the step reports success in the state of
  the last rerun; `NoTraceWithoutFailure` excepts it.
* The map of a sandbox is built outside of a scope (`validation_api.cpp:2312`): its
  blocks draw from wherever the process-wide sequence stands, so the same replay
  may be loaded onto two maps. `ValidatesAsFirstCall` is claimed for validations,
  which open a scope first.

## 6. What is not modelled, and why

* **Physics, collision, backends.** Most of the repository's lines are arithmetic on
  binary32 values: the engine, its copies as CUDA and HIP kernels (the HIP ones
  are generated from the CUDA ones) and Vulkan shaders. TLC would enumerate
  nothing of interest in them, so the models cover a small share of all lines and
  most of the control. The substep loop is in `FinishEstimate`.
* **Decoders, scene and challenge construction, serialization, command line.**
  Sequential translations whose correctness is that of tables and formats.
* **Window edits of most controls.** The code extends the rebuilt stretch of the
  plan for analog steering, brake, and accelerate or gas as one control. The digital
  steering, the race start and respawns are not among them, and a stretch that ends
  at an accelerate event leaves the change time of an edited gas (and its value, once
  they compete again) as it was. The actions of `Sandbox` treat every action as the
  code does, but `RuntimeFollowsPlan` and `WindowPlanIsRebuiltPlan` are claimed for
  analog steering and brake; for the others the plan's tail keeps the old values.
  No document says what they should do, so this is recorded as a hazard and not as
  a finding.
* **Render frames and the byte encoding of states** in the sandbox: they change
  nothing.
* **In the search:** the random generators (every draw is possible) and the hash
  that selects segments (any nonempty selection is); the sparse, compact and
  edited encodings of a candidate's events, which store the same stream; the
  weights of the smooth modifier (a parameter); the memory plans of the device;
  inputs split off behind the horizon (`search_input_boundary.h`); the saturation
  of the capacity at 1,048,576 events; the stunts evaluator's change times; the
  older path that simulates candidates on the host.
* **Also in the search:** a `CaptureSearchWinnerStateKernel` that fails and leaves the
  state it captured for an earlier winner (`cuda_search_executor.cu`, from line 3593 on):
  the model's capture succeeds or the batch fails before it. Inputs with negative times,
  which the proofs about candidates exclude: `ReplaceInputs`
  (`validation_api.cpp:2500-2553`) does not refuse them. A refined finish whose upper
  bound is the unrounded end of its substep and rounds up to the incumbent's time: the
  device keeps it as a tie, the model rejects it like other ties, and it is no faster
  either way.
* **Repositories, their other failures:** a pack that does not open is tried again by
  the next call, and so is a catalog that does not load, so nothing is remembered of
  either; the model has them as faults of the running call.
* **Map scene and vehicle lifecycle.** Both are set up once, in one fixed order, by
  one caller that stops at the first failure and discards the objects: no order
  of calls is left to explore.
* **Stunt scores.** Figures depend on poses. The penalty is in `Validation`.
* **Threads, nested scopes, re-entrant providers.** The library promises nothing
  about calls from several threads; no call opens a scope inside another (the
  code refuses it, and so does `Open`); a provider that calls back into the
  library is not a documented use.

## 7. Plan

The modules were written in the order of what a wrong verdict depends on most:
`Race` and `LapRace` with their proofs; `ControlPlan` and its builder, with proofs; `Sandbox`
over it, with its proofs; `FinishBracket` and `FinishEstimate` with their proofs; `Validation`
with its proofs; `ValidationContext` with its proofs; `SearchWinner` and `SearchSession` with
their proofs; `SearchCandidate` with its proofs. What is left:

1. A composition of `Sandbox` with `SearchSession`: the branch a session starts from
   is a captured state, and its best inputs are installed back into the sandbox.

## 8. Running it

```
tlasany Race.tla
tlc -workers 2 -config MCRace.cfg MCRace
tlapm RaceProofs.tla
```

`PROJECT.json` names the module and the configuration of each run. A mutant is
tried by replacing the body of the definition it names by a use of the mutated
form, which stands before it in the same module.
