---------------------------- MODULE SearchSession ----------------------------
(***************************************************************************)
(* A GPU search session: the baseline and then batches of mutated inputs   *)
(* are simulated, one slot of the device per candidate, and the best       *)
(* sample so far - the incumbent - stays on the device from batch to       *)
(* batch.  A batch runs as a sequence of kernels: generation and           *)
(* simulation, refinement of finish times, reduction to one winner, capture *)
(* of its state, finalization.  Within a kernel the slots run in any order *)
(* and each polls the cancellation flag of the host at its own time.       *)
(*                                                                         *)
(* What the physics makes of a candidate is its run, fixed by its inputs:  *)
(* the value the evaluator finds after each tick.  Scores and fine times   *)
(* are integers, finish times ns after the start of the race.              *)
(***************************************************************************)
EXTENDS SearchWinner, FiniteSets, FiniteSetsExt

CONSTANTS
    Candidates,     \* candidate ids
    Baseline,       \* the unmutated inputs
    Kinds,          \* evaluator kinds, a subset of EvaluatorKinds
    Runs,           \* of every kind, the runs of its candidates
    Ticks,          \* timelineTickCount, all of them evaluated
    PollPeriod,     \* ticks between two polls of the flag (64 in the code)
    TickMs,         \* tickDurationMs
    NsPerMs,        \* ns of a ms (10^6 in the code)
    Prestart,       \* prestartDurationMs
    KeepsFinishState,   \* the simulation keeps the state before the finish
    InitialCapacity,    \* maximumBatchSize of a new session
    MaxCapacity,    \* bound on the batch size
    MaxBatches,     \* bound on the batches launched
    MaxFailures     \* bound on the device failures

\* "min" a point, "max" a velocity, "report" a volume entry
EvaluatorKinds == {"min", "max", "report", "finish", "scripted"}
None == <<>>
Uninitialised == <<>>

\* values[t] are the objectives after tick t, None when the condition is
\* false or nothing is evaluated; of a finish, the end of its nanosecond,
\* counted from the time of the tick.
Run == [values : [1..Ticks -> Seq(Int)],
        fails : 0..Ticks,       \* the tick the physics refuses, 0 for none
        refines : BOOLEAN,      \* the finish can be bracketed
        generated : {"Mutated", "Unchanged", "Overflow"},
        events : Nat]

ASSUME SearchAssumption ==
    /\ Candidates \subseteq Nat /\ Baseline \notin Candidates
    /\ Kinds \subseteq EvaluatorKinds
    /\ \A k \in Kinds : Runs[k] \subseteq Run
    /\ {Ticks, PollPeriod, TickMs, NsPerMs, InitialCapacity} \subseteq Nat \ {0}
    /\ {Prestart, MaxBatches, MaxFailures, MaxCapacity} \subseteq Nat
    /\ KeepsFinishState \in BOOLEAN
    \* a scripted evaluator has a fixed number of objectives
    /\ \A k \in Kinds : \A r \in Runs[k], t \in 1..Ticks, u \in 1..Ticks :
            None \in {r.values[t], r.values[u]} \/ Len(r.values[t]) = Len(r.values[u])
    \* a finish is found in the interval that begins at the time of its tick;
    \* that it ends within the period is not assumed (FinishEstimate)
    /\ "finish" \in Kinds =>
            \A r \in Runs["finish"], t \in 1..Ticks :
                r.values[t] = None \/ r.values[t][1] \in Nat \ {0}

VARIABLES
    kind,       \* evaluator.kind
    run,        \* the run of every candidate
    evaluated,  \* baselineEvaluated
    capacity,   \* maximumBatchSize
    best,       \* globalBestSample
    bestInputs, \* globalBestInputs and counts: the candidate they are of
    bestState,  \* globalBestState: candidate and tick
    batch,      \* the candidates of the batch in flight, by slot
    phase,      \* the kernel running
    todo,       \* slots the kernel has not run; samples it has not merged
    flag,       \* the cancellation flag, and when it was raised
    status,     \* statuses
    samples,    \* candidateBestSamples
    winner,     \* reducedBest
    captured,   \* capturedWinnerState
    summary,    \* DeviceBatchSummary
    known,      \* the best sample last returned
    withheld,   \* a failed call has changed the best since
    ideal,      \* the best of the candidates evaluated one after another
    tainted,    \* a batch has not succeeded
    batches, failures

session == <<kind, run>>
incumbent == <<evaluated, best, bestInputs, bestState>>
device == <<batch, status, samples>>
answer == <<summary, known, withheld>>
history == <<ideal, tainted>>
vars == <<session, incumbent, capacity, device, phase, todo, flag, winner,
          captured, answer, history, batches, failures>>

-----------------------------------------------------------------------------
NsPerTick == TickMs * NsPerMs
Slots == DOMAIN status
Maximize == kind = "max"

NoSample == [valid |-> FALSE, of |-> Baseline, score |-> 0, objectives |-> None,
             time |-> 0, slot |-> NoSlot, order |-> Unordered, tick |-> 0,
             events |-> 0, precise |-> FALSE]

Improves(a, b) ==
    IF kind = "scripted" THEN StrictlyDominates(a, b) ELSE StrictlyBetter(a, b, Maximize)

\* EvaluateState, after tick t of candidate c in a slot.
Scored(c, slot, t) ==
    LET value == run[c].values[t]
        ms == Prestart + t * TickMs     \* lastPrepareTimeMs
    IN [NoSample EXCEPT
            !.valid = TRUE, !.of = c, !.slot = slot, !.tick = t - 1,
            !.events = run[c].events, !.order = 1 + slot * Ticks + (t - 1),
            !.score = IF kind = "finish" THEN ms ELSE value[1],
            !.time = (IF kind = "finish" THEN ms ELSE t * TickMs) * NsPerMs]

(* The best of a run after tick t, given the best before it.  A scripted   *)
(* one keeps the best of every objective on its own and the tick it was    *)
(* last evaluated.                                                         *)
AfterTick(c, slot, t, before) ==
    LET value == run[c].values[t]
        now == Scored(c, slot, t)
        kept == [i \in DOMAIN value |->
                    IF before.valid /\ before.objectives[i] > value[i]
                    THEN before.objectives[i] ELSE value[i]]
    IN IF value = None THEN before
       ELSE IF kind = "scripted" THEN [now EXCEPT !.objectives = kept, !.score = kept[1]]
       ELSE IF StrictlyBetter(now, before, Maximize) THEN now ELSE before

\* The best of the first t ticks of candidate c.
LocalBest(c, slot) ==
    LET local[t \in 0..Ticks] ==
            IF t = 0 THEN NoSample ELSE AfterTick(c, slot, t, local[t - 1])
    IN local

Reported(c) ==
    {t \in 1..Ticks : kind \in {"report", "finish"} /\ run[c].values[t] # None}

(* Mutant: the clock that is compared counts from before the prestart.     *)
PrunedWithPrestart(c, inc) ==
    {t \in 1..Ticks : /\ kind = "finish" /\ inc.precise
                      /\ run[c].values[t] = None
                      /\ (Prestart + t * TickMs) * NsPerMs >= inc.time}

\* The ticks at which an unfinished run can no longer beat the incumbent.
Pruned(c, inc) ==
    {t \in 1..Ticks : /\ kind = "finish" /\ inc.precise
                      /\ run[c].values[t] = None
                      /\ t * NsPerTick >= inc.time}

Refused(c) == {t \in 1..Ticks : run[c].fails = t}

\* The last tick candidate c is simulated on.  One that is not simulated is
\* done with its generation, which polls the flag once.
LastTick(c, inc) ==
    IF run[c].generated # "Mutated" THEN 1
    ELSE Min(Reported(c) \cup Pruned(c, inc) \cup Refused(c) \cup {Ticks})

\* The instant of the finish, in ns: upperBoundNs - prestartNs.  Tick t is of
\* the time t * TickMs after the prestart, where what it simulates begins.
FineTime(c) ==
    LET t == Min(Reported(c)) IN t * NsPerTick + run[c].values[t][1]

\* What a slot leaves when it is cut off after `cut' ticks, and when not.
Outcome(c, slot, cut, inc) ==
    LET last == LastTick(c, inc)
        left(s, sample) == [status |-> s, sample |-> sample]
    IN CASE cut < last -> left("Cancelled", LocalBest(c, slot)[cut])
         [] cut >= last /\ run[c].generated = "Overflow" -> left("CapacityExceeded", NoSample)
         [] cut >= last /\ run[c].generated = "Unchanged" -> left("Success", NoSample)
         [] OTHER ->
                CASE last \in Refused(c) ->
                        left("UnsupportedPhysicsTransition", LocalBest(c, slot)[last - 1])
                  [] last \in Pruned(c, inc) \ Refused(c) -> left("Success", NoSample)
                  [] OTHER -> left("Success", LocalBest(c, slot)[last])

Polls(from, to) == {t \in from..to : t % PollPeriod = 0}
Never == Ticks + 1

(* The ticks at which a slot that polls after each of `polls' may be cut    *)
(* off: at the first when the flag was up before the launch, at any or     *)
(* none when it went up meanwhile.                                         *)
Cuts(polls) ==
    CASE flag = "Down" -> {Never}
      [] flag = "Before" -> IF polls = {} THEN {Never} ELSE {Min(polls)}
      [] flag = "During" -> polls \cup {Never}

Refined(sample) ==
    LET fine == FineTime(sample.of)
    IN [sample EXCEPT !.score = fine, !.time = fine, !.precise = TRUE]

\* A candidate simulated alone, to its end.
Alone(c) ==
    LET whole == LocalBest(c, 0)[LastTick(c, NoSample)]
    IN IF kind = "finish" /\ whole.valid THEN Refined(whole) ELSE whole

-----------------------------------------------------------------------------
NoSummary == [status |-> "None", changed |-> FALSE, improvements |-> 0]

Seed == [Alone(Baseline) EXCEPT !.slot = NoSlot, !.order = 0]

\* CudaSearchExecutor::Create, with the best of another session or without.
Init ==
    /\ kind \in Kinds
    /\ run \in [Candidates \cup {Baseline} -> Runs[kind]]
    /\ run[Baseline].generated = "Mutated"
    /\ \/ /\ evaluated = FALSE
          /\ best = NoSample
       \/ /\ evaluated = TRUE
          /\ run[Baseline].fails = 0 /\ run[Baseline].refines
          /\ best = Seed /\ best.valid
    /\ bestInputs = Baseline
    /\ bestState = Uninitialised
    /\ capacity = InitialCapacity
    /\ batch = <<>> /\ status = <<>> /\ samples = <<>>
    /\ phase = "Idle" /\ todo = {} /\ flag = "Down"
    /\ winner = NoSample /\ captured = Uninitialised
    /\ summary = NoSummary /\ known = best /\ withheld = FALSE
    /\ ideal = best /\ tainted = FALSE
    /\ batches = 0 /\ failures = 0

(* Mutant: the incumbent does not take part in the batch. *)
NotSeeded == NoSample

\* SeedCandidateBestSamplesKernel
Seeded == [best EXCEPT !.order = 0, !.slot = NoSlot]

\* The seed of a batch; no sample of an earlier one stays in a slot.
Launch(chosen, polled) ==
    /\ phase = "Idle"
    /\ batches < MaxBatches
    /\ batch' = chosen
    /\ status' = [s \in DOMAIN chosen |-> "Success"]
    /\ samples' = [s \in DOMAIN chosen \cup {0} |-> IF s = 0 THEN Seeded ELSE NoSample]
    /\ todo' = DOMAIN chosen
    /\ phase' = "Simulate"
    /\ flag' = IF polled THEN "Before" ELSE "Down"
    /\ batches' = batches + 1
    /\ UNCHANGED <<session, incumbent, capacity, winner, captured, answer, history,
                   failures>>

EvaluateBaseline == /\ ~evaluated
                    /\ \E polled \in BOOLEAN : Launch(<<Baseline>>, polled)

RunBatch(first, count) ==
    /\ evaluated
    /\ count \in 1..capacity
    /\ first..(first + count - 1) \subseteq Candidates
    /\ \E polled \in BOOLEAN : Launch([s \in 1..count |-> first + s - 1], polled)

\* The host polls its callback while it waits for the kernels; those after
\* the refinement do not read the flag.
RequestCancellation ==
    /\ phase \in {"Simulate", "Refine"}
    /\ flag = "Down"
    /\ flag' = "During"
    /\ UNCHANGED <<session, incumbent, capacity, device, phase, todo, winner, captured,
                   answer, history, batches, failures>>

(* A slot of GenerateSearchCandidatesKernel and SimulateSearchBatchKernel. *)
Simulate(s) ==
    /\ phase = "Simulate"
    /\ s \in todo
    /\ \E cut \in Cuts(Polls(0, Ticks - 1)) :
        LET left == Outcome(batch[s], s - 1, cut, samples[0])
        IN /\ status' = [status EXCEPT ![s] = left.status]
           /\ samples' = [samples EXCEPT ![s] = left.sample]
    /\ todo' = todo \ {s}
    /\ UNCHANGED <<session, incumbent, capacity, batch, phase, flag, winner, captured,
                   answer, history, batches, failures>>

FinishesSimulation ==
    /\ phase = "Simulate"
    /\ todo = {}
    /\ phase' = "Refine"
    /\ todo' = IF kind # "finish" THEN {}
               ELSE {s \in Slots : samples[s].valid /\ status[s] = "Success"}
    /\ UNCHANGED <<session, incumbent, capacity, device, flag, winner, captured, answer,
                   history, batches, failures>>

\* Rejected by the coarse bound.
FarBehind(sample) ==
    /\ samples[0].precise
    /\ sample.time - (Prestart + TickMs) * NsPerMs >= samples[0].time

\* Rejected by the coarse bound, or by RefineTransition.
TooLate(sample) ==
    \/ FarBehind(sample)
    \/ samples[0].precise /\ FineTime(sample.of) >= samples[0].score

(* A slot of RefineSearchFinishTimesKernel: the finishing tick is run      *)
(* again, from the state kept before it or from the branch.  Cut off or    *)
(* refused, it leaves the unrefined sample.                                *)
Refine(s) ==
    /\ phase = "Refine"
    /\ s \in todo
    /\ todo' = todo \ {s}
    /\ LET sample == samples[s]
           far == FarBehind(sample)
           from == IF KeepsFinishState THEN sample.tick ELSE 0
       IN \E cut \in IF far THEN {Never} ELSE Cuts(Polls(from, sample.tick)) :
            CASE cut # Never ->
                    /\ status' = [status EXCEPT ![s] = "Cancelled"]
                    /\ UNCHANGED samples
              [] cut = Never /\ ~far /\ ~run[batch[s]].refines ->
                    /\ status' = [status EXCEPT ![s] = "UnsupportedPhysicsTransition"]
                    /\ UNCHANGED samples
              [] OTHER ->
                    /\ samples' = [samples EXCEPT ![s] =
                            IF TooLate(sample) THEN NoSample ELSE Refined(sample)]
                    /\ UNCHANGED status
    /\ UNCHANGED <<session, incumbent, capacity, batch, phase, flag, winner, captured,
                   answer, history, batches, failures>>

FinishesRefinement ==
    /\ phase = "Refine"
    /\ todo = {}
    /\ phase' = "Reduce"
    /\ UNCHANGED <<session, incumbent, capacity, device, todo, flag, winner, captured,
                   answer, history, batches, failures>>

\* The better of what has been reduced and of one more sample.
Merge(a, b) ==
    IF kind = "scripted" THEN IF StrictlyDominates(b, a) THEN b ELSE a
    ELSE BetterSample(a, b, Maximize)

\* The samples merged in an order, after the initial value of the reduction.
Merged(order) ==
    LET last == Cardinality(DOMAIN samples)
        seen[n \in 0..last] ==
            IF n = 0 THEN IF kind = "scripted" THEN samples[0] ELSE NoSample
            ELSE Merge(seen[n - 1], samples[order[n - 1]])
    IN seen[last]

(* cub::DeviceReduce merges the samples in any order; the scripted winner  *)
(* is selected by one thread, slot after slot.  Then                       *)
(* CaptureSearchWinnerStateKernel replays it to its winning tick.          *)
Winners ==
    LET places == DOMAIN samples
        orders == {order \in [places -> places] :
                      \A i \in places : \E j \in places : order[j] = i}
    IN {Merged(order) : order \in IF kind = "scripted" THEN {[i \in places |-> i]} ELSE orders}

Reduce ==
    /\ phase = "Reduce"
    /\ winner' \in Winners
    /\ captured' = IF winner'.valid /\ winner'.slot # NoSlot
                   THEN <<batch[winner'.slot + 1], winner'.tick>> ELSE captured
    /\ phase' = "Finalize"
    /\ UNCHANGED <<session, incumbent, capacity, device, todo, flag, answer, history,
                   batches, failures>>

\* The last slot that did not succeed gives the batch its status.
BatchStatus ==
    LET unsuccessful == {s \in Slots : status[s] # "Success"}
    IN IF unsuccessful = {} THEN "Success" ELSE status[Max(unsuccessful)]

\* The samples that replace the best before them, slot after slot.
CountReplacing(Replaces(_, _)) ==
    LET seen[s \in 0..Len(batch)] ==
            IF s = 0 THEN [best |-> samples[0], count |-> 0]
            ELSE IF Replaces(samples[s], seen[s - 1].best)
                 THEN [best |-> samples[s], count |-> seen[s - 1].count + 1]
                 ELSE seen[s - 1]
    IN seen[Len(batch)].count

(* Mutant: a tie with the incumbent counts as an improvement. *)
ImprovementsOrTies == CountReplacing(LAMBDA a, b : a.valid /\ ~Improves(b, a))

\* Candidate bests that improve the incumbent, in the order of the slots.
Improvements == CountReplacing(Improves)

IsBaseline == batch = <<Baseline>>

\* The order of an ideal search: a finish tied to the ns does not replace.
IdeallyImproves(a, b) ==
    IF kind = "finish" THEN a.valid /\ (b.valid => a.score < b.score)
    ELSE Improves(a, b)

\* The ideal best after one more slot: its candidate, evaluated whole, if
\* that is better.
IdealAfter(seen, s) ==
    LET alone == [Alone(batch[s]) EXCEPT !.slot = s - 1] IN
    IF /\ status[s] = "Success" /\ run[batch[s]].generated = "Mutated"
       /\ IdeallyImproves(alone, seen)
    THEN alone ELSE seen

IdealAfterBatch ==
    LET seen[s \in 0..Len(batch)] == IF s = 0 THEN ideal ELSE IdealAfter(seen[s - 1], s)
    IN seen[Len(batch)]

Wins == /\ winner.valid /\ winner.slot # NoSlot
        /\ samples[winner.slot + 1].valid

(* Mutant: the state of the winner is not copied with its sample. *)
TakeWinnerWithoutState ==
    /\ best' = IF Wins THEN samples[winner.slot + 1] ELSE best
    /\ bestInputs' = IF Wins THEN batch[winner.slot + 1] ELSE bestInputs
    /\ UNCHANGED bestState

\* The winner replaces the incumbent, unless it is the incumbent.
TakeWinner ==
    /\ best' = IF Wins THEN samples[winner.slot + 1] ELSE best
    /\ bestInputs' = IF Wins THEN batch[winner.slot + 1] ELSE bestInputs
    /\ bestState' = IF Wins THEN captured ELSE bestState

\* FinalizeSearchBatchKernel, with the summary it leaves.
Finalize ==
    /\ phase = "Finalize"
    /\ TakeWinner
    /\ summary' = [status |-> BatchStatus, changed |-> Wins,
                   improvements |-> IF IsBaseline THEN 0 ELSE Improvements]
    /\ ideal' = IdealAfterBatch
    /\ tainted' = (tainted \/ BatchStatus # "Success")
    /\ phase' = "Return"
    /\ UNCHANGED <<session, evaluated, capacity, device, todo, flag, winner, captured,
                   known, withheld, batches, failures>>

Handed == {"Success", "Cancelled"}

\* What a batch leaves in its buffers is not read by the next one.
ForgetsBatch ==
    /\ batch' = <<>> /\ status' = <<>> /\ samples' = <<>> /\ todo' = {}
    /\ winner' = NoSample /\ captured' = Uninitialised
    /\ summary' = NoSummary /\ flag' = "Down"

(* The rest of Execute, and Convert: the caller sees the best of a batch   *)
(* that succeeded or was cancelled, and only an error of any other.        *)
Return ==
    /\ phase = "Return"
    /\ phase' = "Idle"
    /\ evaluated' = (evaluated \/ (IsBaseline /\ summary.status = "Success"))
    /\ IF summary.status \in Handed
       THEN known' = best /\ withheld' = FALSE
       ELSE withheld' = (withheld \/ summary.changed) /\ UNCHANGED known
    /\ ForgetsBatch
    /\ UNCHANGED <<session, best, bestInputs, bestState, capacity, history, batches,
                   failures>>

DeviceFailure ==
    /\ failures < MaxFailures
    /\ failures' = failures + 1
    /\ phase' = "Idle"
    /\ ForgetsBatch
    /\ UNCHANGED <<session, incumbent, capacity, known, batches>>

\* A kernel or the reduction cannot be launched: nothing is finalized.
LaunchFails ==
    /\ phase = "Reduce"
    /\ DeviceFailure
    /\ tainted' = TRUE
    /\ UNCHANGED <<withheld, ideal>>

\* The summary or the best cannot be copied to the host.
CopyFails ==
    /\ phase = "Return"
    /\ DeviceFailure
    /\ withheld' = (withheld \/ summary.changed)
    /\ UNCHANGED history

\* The buffers of a larger batch are allocated before any is exchanged.
ReserveBatchCapacity(count) ==
    /\ phase = "Idle"
    /\ count \in 1..MaxCapacity
    /\ capacity' \in {capacity, Max({capacity, count})}
    /\ UNCHANGED <<session, incumbent, device, phase, todo, flag, winner, captured,
                   answer, history, batches, failures>>

Finished == /\ phase = "Idle" /\ batches = MaxBatches
            /\ UNCHANGED vars

Next ==
    \/ EvaluateBaseline
    \/ \E first \in Candidates, count \in 1..MaxCapacity : RunBatch(first, count)
    \/ \E count \in 1..MaxCapacity : ReserveBatchCapacity(count)
    \/ RequestCancellation
    \/ \E s \in Slots : Simulate(s) \/ Refine(s)
    \/ FinishesSimulation \/ FinishesRefinement
    \/ Reduce \/ Finalize \/ Return
    \/ LaunchFails \/ CopyFails
    \/ Finished

Spec == Init /\ [][Next]_vars

-----------------------------------------------------------------------------
(* Between batches, no candidate that was evaluated whole would improve    *)
(* the incumbent, and while every batch has succeeded the incumbent is the *)
(* one a search evaluating the same candidates one by one, each to its end *)
(* and in the order of their ids, would have: pruning, slots, batch sizes  *)
(* and the order of the reduction change nothing.  Of finishes tied to the *)
(* ns only the time is the same; an incumbent whose finish time was not    *)
(* refined is excepted (FinishIncumbentNeverLater).                        *)
SameResult(a, b) ==
    /\ a.valid = b.valid
    /\ a.valid => /\ a.score = b.score /\ a.objectives = b.objectives
                  /\ kind # "finish" => a.of = b.of /\ a.tick = b.tick

BestIsIdealBest ==
    phase = "Idle" /\ (kind = "finish" /\ best.valid => best.precise) =>
        /\ ~IdeallyImproves(ideal, best)
        /\ ~tainted => SameResult(best, ideal)

(* The parts of the incumbent are of one candidate: its inputs, its number *)
(* of events, its state at the tick that won and the value found at that   *)
(* tick, whatever slot it ran in and whatever batch failed since.  Only an *)
(* incumbent taken from another session has no state.                      *)
ValueAt(c, tick) ==
    CASE kind = "finish" -> IF best.precise THEN FineTime(c)
                            ELSE Prestart + (tick + 1) * TickMs
      [] kind = "scripted" -> best.objectives[1]
      [] OTHER -> run[c].values[tick + 1][1]

BestBelongsTogether ==
    best.valid /\ phase = "Idle" =>
        /\ bestInputs = best.of
        /\ best.events = run[best.of].events
        /\ best.score = ValueAt(best.of, best.tick)
        /\ IF bestState = Uninitialised
           THEN best = Seed
           ELSE bestState = <<best.of, best.tick>>

(* The incumbent is never lost, and is only replaced by a sample that      *)
(* improves it: by a better score, by fewer events at the same score, or   *)
(* by dominance.                                                           *)
IncumbentNeverWorsens ==
    [][best.valid => best' = best \/ Improves(best', best)]_vars

(* A batch that is handed to the caller says the incumbent has changed     *)
(* exactly when the caller has not seen it yet, and a batch of mutations   *)
(* also counts an improvement exactly then, although the reduction and the *)
(* count walk the samples in different orders.  A change made by a batch   *)
(* that ended in an error is the exception: it is never announced.         *)
ChangesAreAnnounced ==
    [][Return /\ summary.status \in Handed =>
        /\ ~withheld => (summary.changed <=> best # known)
        /\ ~IsBaseline => (summary.changed <=> summary.improvements > 0)]_vars

(* "Winner ordering is otherwise unchanged; candidates tied at the legacy  *)
(* tick continue to use their precise brackets in the same order"          *)
(* (docs/finish-time-approximation.md:68): an incumbent of a finish search *)
(* is never replaced by a candidate that finishes later.  A refinement     *)
(* that is cancelled or refused leaves a score in ms, which beats every    *)
(* refined score, in ns.                                                   *)
FinishIncumbentNeverLater ==
    [][kind = "finish" /\ best.valid =>
        best'.valid /\ FineTime(best'.of) <= FineTime(best.of)]_vars
=============================================================================
