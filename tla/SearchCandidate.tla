--------------------------- MODULE SearchCandidate ---------------------------
(***************************************************************************)
(* How a GPU search makes one candidate out of the baseline inputs.  The   *)
(* inputs before the mutable boundary stay, those of the suffix are        *)
(* counted from it.  A pipeline of modifiers runs over the suffix, once    *)
(* (a flat search) or once for every segment that was selected for         *)
(* mutation.  After a segment the controls are restored, so that the ticks *)
(* that follow it see the baseline again.                                  *)
(*                                                                         *)
(* Every draw of the generator of random numbers is a choice.  Values of   *)
(* analog channels are scaled down to -Full..Full; the weights of the      *)
(* smooth modifier are a parameter.  The sparse and compact forms in which *)
(* some pipelines store the same stream are not told apart from it.        *)
(***************************************************************************)
EXTENDS Integers, FiniteSets, SequencesExt

CONSTANTS
    Searches,            \* what callers ask for, see SearchForm
    Origin,              \* mutableFromTimeMs
    Tick,                \* tickDurationMs
    Full,                \* 65536
    DeadZone,            \* 655
    GasThreshold,        \* 19661
    Draws,               \* values RandomSteering may draw
    Weighted(_, _),      \* delta of an amplitude at a distance in ticks
    Overflow             \* a stream for which there is no room

ASSUME SearchAssumption ==
    /\ Tick \in Nat /\ Tick > 2
    /\ Origin \in Nat /\ Origin >= Tick /\ Origin % Tick = 0
    /\ Full \in Nat /\ DeadZone \in 0..(Full - 1) /\ GasThreshold \in 1..Full
    /\ Draws \subseteq -Full..Full /\ {-Full, Full} \subseteq Draws

Accelerate == 1
Gas == 2
Brake == 3
Steer == 4
SteerLeft == 5
SteerRight == 6
Actions == 1..6
Analog == {Gas, Steer}

Events == [time : Int, action : Actions, value : Int]
Event(time, action, value) == [time |-> time, action |-> action, value |-> value]

InRange(e) == e.value \in IF e.action \in Analog THEN -Full..Full ELSE 0..1

ASSUME OverflowAssumption == Overflow \notin Seq(Events)

VARIABLES
    search,      \* the request, with times counted from the mutable boundary
    selected,    \* indices of the selected segments
    events,      \* the candidate's suffix
    normalized,  \* whether the kernel takes the suffix for canonical
    part,        \* segment in work
    pass,        \* modifier in work
    status,      \* statuses and activeCandidates
    unpruned     \* history: the suffix before redundant steering was dropped

vars == <<search, selected, events, normalized, part, pass, status, unpruned>>

-----------------------------------------------------------------------------
(* Streams of events.                                                      *)

\* The members of S as the relation orders them.
InOrder(S, less) ==
    [n \in 1..Cardinality(S) |->
        CHOOSE i \in S : Cardinality({j \in S : <<j, i>> \in less}) = n - 1]

\* The events of a stream at some of its places.
Kept(es, places) ==
    LET order == InOrder(places, {p \in places \X places : p[1] < p[2]})
    IN [n \in DOMAIN order |-> es[order[n]]]

At(es, t) == Kept(es, {i \in DOMAIN es : es[i].time = t})
Before(es, t) == Kept(es, {i \in DOMAIN es : es[i].time < t})
From(es, t) == Kept(es, {i \in DOMAIN es : es[i].time >= t})
Shifted(es, by) == [i \in DOMAIN es |-> [es[i] EXCEPT !.time = @ + by]]

Sorted(es) == \A i, j \in DOMAIN es : i < j => es[i].time <= es[j].time
SameChannel(a, b) == a.time = b.time /\ a.action = b.action

Canonical(es) ==
    /\ Sorted(es)
    /\ \A i, j \in DOMAIN es : i # j => ~SameChannel(es[i], es[j])

Saturate(v) == CASE v > Full -> Full [] v < -Full -> -Full [] OTHER -> v

\* Stable by time.  The first event of a time and an action gives the place,
\* the last one the value.  Times before the boundary are dropped.
Normalize(es) ==
    LET firsts == {i \in DOMAIN es :
            es[i].time >= 0 /\ \A j \in DOMAIN es : j < i => ~SameChannel(es[j], es[i])}
        order == InOrder(firsts, {p \in firsts \X firsts :
            \/ es[p[1]].time < es[p[2]].time
            \/ es[p[1]].time = es[p[2]].time /\ p[1] < p[2]})
        last == [i \in firsts |-> Max({j \in DOMAIN es : SameChannel(es[j], es[i])})]
    IN [n \in DOMAIN order |-> [es[last[order[n]]] EXCEPT !.value = Saturate(@)]]

\* The value of a channel at a time, from the events alone.
StateAt(es, action, t, initial) ==
    LET past == {i \in DOMAIN es : es[i].action = action /\ es[i].time <= t}
        latest == {i \in past : \A j \in past : es[j].time <= es[i].time}
    IN IF past = {} THEN initial ELSE es[Max(latest)].value

-----------------------------------------------------------------------------
(* DeviceControlState: the value of each channel and when it last changed. *)

NoControls == [value |-> [a \in Actions |-> 0], time |-> [a \in Actions |-> 0]]

ApplyControlEvent(s, e, origin) ==
    [value |-> [s.value EXCEPT ![e.action] = e.value],
     time |-> [s.time EXCEPT ![e.action] = origin + e.time]]

ControlsAt(es, initial, origin, t) ==
    LET after[n \in 0..Len(es)] ==
            IF n = 0 THEN initial
            ELSE IF es[n].time <= t THEN ApplyControlEvent(after[n - 1], es[n], origin)
                 ELSE after[n - 1]
    IN after[Len(es)]

Abs(v) == IF v < 0 THEN -v ELSE v
Later(s, a, b) == Max({s.time[a], s.time[b]})

AnalogSteeringWins(s) ==
    LET digital == Later(s, SteerLeft, SteerRight)
    IN \/ s.time[Steer] > digital
       \/ /\ s.time[Steer] = digital
          /\ s.value[SteerLeft] = 0 /\ s.value[SteerRight] = 0
          /\ Abs(s.value[Steer]) > DeadZone

AnalogGasWins(s) ==
    LET digital == Later(s, Accelerate, Brake)
    IN \/ s.time[Gas] > digital
       \/ /\ s.time[Gas] = digital
          /\ s.value[Accelerate] = 0 /\ s.value[Brake] = 0

Steering(s) ==
    CASE AnalogSteeringWins(s) -> s.value[Steer]
      [] ~AnalogSteeringWins(s) /\ s.value[SteerLeft] = 1 -> -Full
      [] ~AnalogSteeringWins(s) /\ s.value[SteerLeft] = 0 /\ s.value[SteerRight] = 1 -> Full
      [] OTHER -> 0

Gates(s) ==
    IF AnalogGasWins(s)
    THEN <<s.value[Gas] <= -GasThreshold, s.value[Gas] >= GasThreshold>>
    ELSE <<s.value[Accelerate] = 1, s.value[Brake] = 1>>

ControlsFromState(s) == <<Steering(s), Gates(s)>>

-----------------------------------------------------------------------------
(* What is asked for, and what the executor makes of it.  Times of a       *)
(* request are race times.                                                 *)

Window == [first : Int, last : Int]
Channel == [fewest : Nat, most : Nat, hold : Nat]

Modifier(m) ==
    /\ \/ m \in [kind : {"RandomSteering"}, first : Int, last : Int]
       \/ m \in [kind : {"ExistingEvent"}, first : Int, last : Int, fewest : Nat,
                 most : Nat, shift : Nat, absolute : BOOLEAN, values : SUBSET Int,
                 toggles : SUBSET {"accelerate", "brake"}]
       \/ m \in [kind : {"SmoothSteering"}, first : Int, last : Int,
                 deformations : Nat, radius : Nat, amplitudes : SUBSET Int]
       \/ m \in [kind : {"InputInsertion"}, first : Int, last : Int, steering : Channel,
                 accelerate : Channel, brake : Channel, offset : BOOLEAN,
                 values : SUBSET Int]
       \/ m \in [kind : {"InputDeletion"}, first : Int, last : Int, steering : Nat,
                 accelerate : Nat, brake : Nat]
    /\ m.first <= m.last
    /\ m.kind = "ExistingEvent" => (m.absolute => m.values \subseteq -Full..Full)
    /\ m.kind = "SmoothSteering" =>
        \A a \in m.amplitudes, d \in 0..(m.radius \div Tick) : Weighted(a, d) \in Int

SearchForm(s) ==
    /\ s = [inputs |-> s.inputs, pipeline |-> s.pipeline, segments |-> s.segments,
            horizon |-> s.horizon, stunts |-> s.stunts]
    /\ s.inputs \in Seq(Events) /\ \A i \in DOMAIN s.inputs : s.inputs[i].time >= 0
    /\ s.pipeline = [i \in 1..Len(s.pipeline) |-> s.pipeline[i]]
    /\ Len(s.pipeline) \in Nat \ {0}
    /\ \A i \in DOMAIN s.pipeline : Modifier(s.pipeline[i])
    /\ s.segments \in Seq(Window) /\ s.horizon \in Int /\ s.stunts \in BOOLEAN

ASSUME SearchesAssumption == \A s \in Searches : SearchForm(s)

Suffix(s) == Shifted(From(s.inputs, Origin), -Origin)

\* Segments are ordered, disjoint, in the mutable part and made of ticks, and
\* the inputs they cut are canonical.
Accepted(s) ==
    /\ Sorted(s.inputs) /\ \A i \in DOMAIN s.inputs : InRange(s.inputs[i])
    /\ \A i \in DOMAIN s.pipeline :
        /\ s.pipeline[i].last >= Origin
        /\ s.pipeline[i].kind = "SmoothSteering" => s.pipeline[i].radius % Tick = 0
    /\ \A i \in DOMAIN s.segments :
        /\ s.segments[i].first > (IF i = 1 THEN Origin - 1 ELSE s.segments[i - 1].last)
        /\ s.segments[i].first <= s.segments[i].last
        /\ s.segments[i].first % Tick = 0 /\ s.segments[i].last % Tick = 0
    /\ s.segments # <<>> => Canonical(Suffix(s))

Relative(w) == [w EXCEPT !.first = Max({@, Origin}) - Origin, !.last = @ - Origin]

(* Mutant: the digital steering is not looked for. *)
PrunesUnlessStunts(s) == ~s.stunts

\* pruneRedundantAnalogInsertions
Prunes(s) ==
    ~s.stunts /\ \A i \in DOMAIN s.inputs : s.inputs[i].action \notin {SteerLeft, SteerRight}

Prepared(s) ==
    LET pipeline == [i \in DOMAIN s.pipeline |-> Relative(s.pipeline[i])]
        segments == [i \in DOMAIN s.segments |-> Relative(s.segments[i])]
        end == Max({s.horizon - Origin} \cup {pipeline[i].last : i \in DOMAIN pipeline}
                   \cup {segments[i].last + Tick : i \in DOMAIN segments})
    IN [prefix |-> Before(s.inputs, Origin),
        boundary |-> ControlsAt(Before(s.inputs, Origin), NoControls, 0, Origin),
        baseline |-> Before(Suffix(s), end + 1),
        tail |-> From(Suffix(s), end + 1),
        pipeline |-> pipeline,
        segments |-> segments,
        prunes |-> Prunes(s)]

Flat == search.segments = <<>>

(* Mutant: an insertion takes one event, not a start and an end. *)
OneEventGrowth(m) ==
    CASE m.kind = "SmoothSteering" -> m.deformations * (2 * (m.radius \div Tick) + 2)
      [] m.kind = "InputInsertion" -> m.steering.most + m.accelerate.most + m.brake.most
      [] OTHER -> 0

Growth(m) ==
    CASE m.kind = "SmoothSteering" -> m.deformations * (2 * (m.radius \div Tick) + 2)
      [] m.kind = "InputInsertion" -> 2 * (m.steering.most + m.accelerate.most + m.brake.most)
      [] OTHER -> 0

\* By how many events the first modifiers of a pipeline lengthen a stream.
GrowthUpTo(pipeline) ==
    LET sum[n \in 0..Len(pipeline)] ==
            IF n = 0 THEN 0 ELSE sum[n - 1] + Growth(pipeline[n])
    IN sum

PipelineGrowth(pipeline) == GrowthUpTo(pipeline)[Len(pipeline)]

\* What is left of maximumEventCount once the prefix and the tail are kept.
Capacity ==
    LET growth == PipelineGrowth(search.pipeline)
    IN Len(search.baseline)
        + (IF Flat THEN growth ELSE Len(search.segments) * (growth + 6))

-----------------------------------------------------------------------------
(* Modifiers.  Each gives the set of streams its draws may lead to.        *)

Push(es, e) == IF es = Overflow \/ Len(es) >= Capacity THEN Overflow ELSE Append(es, e)

InWindow(e, w) == w.first <= e.time /\ e.time <= w.last
Floor(t) == (t \div Tick) * Tick
TicksIn(w) == {n * Tick : n \in (w.first \div Tick)..(w.last \div Tick)}

\* All ways to replace the events at some places by one of their edits.
Replaced(es, places, edits) ==
    {[i \in DOMAIN es |-> IF i \in places THEN f[i] ELSE es[i]] :
        f \in {f \in [places -> UNION {edits[i] : i \in places}] :
                \A i \in places : f[i] \in edits[i]}}

RandomSteering(es, w) ==
    LET places == {i \in DOMAIN es : InWindow(es[i], w) /\ es[i].action = Steer}
    IN Replaced(es, places, [i \in places |->
            {[es[i] EXCEPT !.value = v] : v \in Draws \ {es[i].value}}])

Eligible(m) ==
    {Steer} \cup (IF "accelerate" \in m.toggles THEN {Accelerate, Gas} ELSE {})
            \cup (IF "brake" \in m.toggles THEN {Brake} ELSE {})

(* Mutant: a shift may leave the window. *)
Unclamped(t, w) == t

Clamped(t, w) == CASE t < w.first -> w.first [] t > w.last -> w.last [] OTHER -> t

EditedValues(e, m) ==
    CASE e.action = Steer /\ m.absolute -> m.values
      [] e.action = Steer /\ ~m.absolute -> {Saturate(e.value + d) : d \in m.values}
      [] e.action \in {Accelerate, Brake} -> {1 - e.value}
      [] e.action = Gas -> {e.value}

Edited(e, m, w) ==
    LET steps == m.shift \div Tick
    IN {Event(Clamped(e.time + k * Tick, w), e.action, v) :
            k \in -steps..steps, v \in EditedValues(e, m)}

ExistingEvents(es, m, w) ==
    {i \in DOMAIN es : InWindow(es[i], w) /\ es[i].action \in Eligible(m)}

ExistingEvent(es, m, w) ==
    LET eligible == ExistingEvents(es, m, w)
    IN UNION {Replaced(es, places, [i \in places |-> Edited(es[i], m, w)]) :
                places \in UNION {kSubset(Min({n, Cardinality(eligible)}), eligible) :
                                    n \in m.fewest..m.most}}

\* A sample is added to what the stream has there.
Sampled(es, t, center, amplitude) ==
    IF es = Overflow THEN Overflow
    ELSE Push(es, Event(t, Steer,
            Saturate(StateAt(es, Steer, t, search.boundary.value[Steer])
                     + Weighted(amplitude, Abs(t - center) \div Tick))))

\* One deformation: each sample is added to what the run before it left.
Deformed(es, m, w, center, amplitude) ==
    LET start == Floor(Max({center - m.radius, w.first}))
        end == Min({center + m.radius, w.last})
        count == (end - start) \div Tick + 1
        run[n \in 0..count] ==
            IF n = 0 THEN es
            ELSE Sampled(run[n - 1], start + (n - 1) * Tick, center, amplitude)
    IN IF run[count] = Overflow THEN Overflow ELSE Normalize(run[count])

DeformedOnce(streams, m, w) ==
    UNION {IF es = Overflow THEN {Overflow}
           ELSE {Deformed(es, m, w, center, amplitude) :
                    center \in TicksIn(w), amplitude \in m.amplitudes} : es \in streams}

SmoothSteering(es, m, w) ==
    LET runs[n \in 0..m.deformations] ==
            IF n = 0 THEN {es} ELSE DeformedOnce(runs[n - 1], m, w)
    IN runs[m.deformations]

\* A held input: takes the channel over from start to end, and gives it back
\* the value the stream had there when the modifier began.
Inserted(es, before, action, start, end, value) ==
    LET rest == Kept(es, {i \in DOMAIN es :
                    ~(es[i].action = action /\ start <= es[i].time /\ es[i].time <= end)})
        held == Push(rest, Event(start, action, value))
    IN IF end = start THEN held
       ELSE Push(held, Event(end, action,
                    StateAt(before, action, end, search.boundary.value[action])))

InsertedValues(es, m, action, start) ==
    LET previous == StateAt(es, action, start, search.boundary.value[action])
    IN CASE action # Steer -> {1 - previous}
         [] action = Steer /\ m.offset -> {Saturate(previous + d) : d \in m.values}
         [] action = Steer /\ ~m.offset -> m.values

InsertionDraws(es, m, w, channel, action) ==
    UNION {{<<start, n * Tick, v>> :
                n \in 0..(channel.hold \div Tick), v \in InsertedValues(es, m, action, start)} :
            start \in TicksIn(w)}

InsertedOnce(streams, before, m, w, channel, action) ==
    UNION {IF es = Overflow THEN {Overflow}
           ELSE {Inserted(es, before, action, d[1], Min({d[1] + d[2], w.last}), d[3]) :
                    d \in InsertionDraws(es, m, w, channel, action)} : es \in streams}

InsertedChannel(streams, before, m, w, channel, action) ==
    LET runs[n \in 0..channel.most] ==
            IF n = 0 THEN streams
            ELSE InsertedOnce(runs[n - 1], before, m, w, channel, action)
    IN UNION {runs[n] : n \in channel.fewest..channel.most}

InputInsertion(es, m, w) ==
    LET steered == InsertedChannel({es}, es, m, w, m.steering, Steer)
        accelerated == InsertedChannel(steered, es, m, w, m.accelerate, Accelerate)
    IN InsertedChannel(accelerated, es, m, w, m.brake, Brake)

\* Drops steering events that are not of the stream before and repeat the
\* value that is held.
Pruned(es, before) ==
    LET held[n \in 0..Len(es)] ==
            IF n = 0 THEN search.boundary.value[Steer]
            ELSE IF es[n].action = Steer THEN es[n].value ELSE held[n - 1]
    IN Kept(es, {n \in DOMAIN es : \/ es[n].action # Steer
                                   \/ es[n].value # held[n - 1]
                                   \/ \E i \in DOMAIN before : before[i] = es[n]})

DeletedChannel(streams, w, most, group) ==
    UNION {{Kept(es, (DOMAIN es) \ places) : places \in
                {p \in SUBSET {i \in DOMAIN es : InWindow(es[i], w) /\ es[i].action \in group} :
                    Cardinality(p) <= most}} :
            es \in streams}

InputDeletion(es, m, w) ==
    LET steering == DeletedChannel({es}, w, m.steering, {Steer})
        accelerate == DeletedChannel(steering, w, m.accelerate, {Accelerate, Gas})
    IN DeletedChannel(accelerate, w, m.brake, {Brake})

-----------------------------------------------------------------------------
(* ApplyModifier.                                                          *)

Fails == [room |-> FALSE, events |-> <<>>, normalized |-> FALSE, unpruned |-> <<>>]

Result(es, canonical, whole) ==
    [room |-> TRUE, events |-> es, normalized |-> canonical, unpruned |-> whole]

Settled(es) == Result(Normalize(es), TRUE, Normalize(es))
AsIs(es, canonical) == Result(es, canonical, es)
Settle(es) == IF normalized THEN AsIs(es, TRUE) ELSE Settled(es)

(* Mutant: events that were moved keep their places. *)
SettleAlways(m, es) == Settle(es)

\* Only a stream whose times stay as they were remains canonical.
SettleExisting(m, es) == IF m.shift = 0 THEN Settle(es) ELSE Settled(es)

AfterInsertion(es) ==
    IF es = Overflow THEN Fails
    ELSE LET whole == Normalize(es)
         IN Result(IF search.prunes /\ normalized THEN Pruned(whole, events) ELSE whole,
                   TRUE, whole)

ApplyModifier(m, w) ==
    CASE m.kind = "RandomSteering" -> {Settle(es) : es \in RandomSteering(events, w)}
      [] m.kind = "ExistingEvent" ->
            IF ExistingEvents(events, m, w) = {} THEN {AsIs(events, normalized)}
            ELSE {SettleExisting(m, es) : es \in ExistingEvent(events, m, w)}
      [] m.kind = "SmoothSteering" ->
            {IF es = Overflow THEN Fails
             ELSE AsIs(es, normalized \/ m.deformations > 0) :
                es \in SmoothSteering(events, m, w)}
      [] m.kind = "InputInsertion" -> {AfterInsertion(es) : es \in InputInsertion(events, m, w)}
      [] m.kind = "InputDeletion" -> {Settle(es) : es \in InputDeletion(events, m, w)}

-----------------------------------------------------------------------------
(* GenerateSearchCandidatesKernel.                                         *)

Parts == IF Flat THEN 1 ELSE Len(search.segments)
InWork == status = "Mutating" /\ part <= Parts
Mutates == Flat \/ part \in selected

\* The window of a modifier, cut to the segment in work.
WindowOf(m) ==
    IF Flat THEN [first |-> m.first, last |-> m.last]
    ELSE LET s == search.segments[part]
         IN [first |-> Max({m.first, s.first}), last |-> Min({m.last, s.last})]

Chosen(s) ==
    IF s.segments = <<>> THEN {{}} ELSE SUBSET (DOMAIN s.segments) \ {{}}

Begin(s, chosen) ==
    /\ selected' = chosen
    /\ events' = s.baseline
    /\ normalized' = Canonical(s.baseline)
    /\ part' = 1 /\ pass' = 1
    /\ status' = "Mutating"
    /\ unpruned' = s.baseline

Init ==
    /\ search \in {Prepared(s) : s \in {s \in Searches : Accepted(s)}}
    /\ selected \in Chosen(search)
    /\ events = search.baseline
    /\ normalized = Canonical(search.baseline)
    /\ part = 1 /\ pass = 1
    /\ status = "Mutating"
    /\ unpruned = search.baseline

SkipSegment ==
    /\ InWork /\ ~Mutates
    /\ part' = part + 1
    /\ UNCHANGED <<search, selected, events, normalized, pass, status, unpruned>>

\* The modifier's window does not meet the segment.
SkipModifier ==
    /\ InWork /\ Mutates /\ pass <= Len(search.pipeline)
    /\ LET w == WindowOf(search.pipeline[pass]) IN w.first > w.last
    /\ pass' = pass + 1
    /\ UNCHANGED <<search, selected, events, normalized, part, status, unpruned>>

Mutate ==
    /\ InWork /\ Mutates /\ pass <= Len(search.pipeline)
    /\ LET m == search.pipeline[pass]
           w == WindowOf(m)
       IN /\ w.first <= w.last
          /\ \E r \in ApplyModifier(m, w) :
                IF r.room
                THEN /\ events' = r.events
                     /\ normalized' = r.normalized
                     /\ unpruned' = r.unpruned
                     /\ pass' = pass + 1
                     /\ UNCHANGED status
                ELSE /\ status' = "CapacityExceeded"
                     /\ UNCHANGED <<events, normalized, unpruned, pass>>
    /\ UNCHANGED <<search, selected, part>>

\* SegmentSelection::Contains
InSelected(t) == \E i \in selected : InWindow([time |-> t], search.segments[i])

(* Mutant: the channel that has priority is written first. *)
RestoredWithPriorityFirst(analog, first, second, wins, s, end) ==
    LET analogTime == end + (IF wins THEN 1 ELSE 2)
        digitalTime == end + (IF wins THEN 2 ELSE 1)
    IN <<Event(analogTime, analog, s.value[analog]),
         Event(digitalTime, first, s.value[first]),
         Event(digitalTime, second, s.value[second])>>

Restored(analog, first, second, wins, s, end) ==
    LET analogTime == end + (IF wins THEN 2 ELSE 1)
        digitalTime == end + (IF wins THEN 1 ELSE 2)
    IN <<Event(analogTime, analog, s.value[analog]),
         Event(digitalTime, first, s.value[first]),
         Event(digitalTime, second, s.value[second])>>

Differ(a, b, channels) == \E c \in channels : a.value[c] # b.value[c]

SteeringDiffers(a, b) ==
    \/ Differ(a, b, {Steer, SteerLeft, SteerRight})
    \/ AnalogSteeringWins(a) # AnalogSteeringWins(b)

GasDiffers(a, b) ==
    \/ Differ(a, b, {Gas, Accelerate, Brake})
    \/ AnalogGasWins(a) # AnalogGasWins(b)

Restoration(expected, actual, end) ==
    (IF SteeringDiffers(expected, actual)
     THEN Restored(Steer, SteerLeft, SteerRight, AnalogSteeringWins(expected), expected, end)
     ELSE <<>>)
    \o (IF GasDiffers(expected, actual)
        THEN Restored(Gas, Accelerate, Brake, AnalogGasWins(expected), expected, end)
        ELSE <<>>)

\* Both states count events from the mutable boundary, and start from controls
\* whose times are race times.
RestoreSegmentControls(es, end) ==
    LET added == Restoration(ControlsAt(search.baseline, search.boundary, 0, end + 2),
                             ControlsAt(es, search.boundary, 0, end + 2), end)
    IN IF Len(es) + Len(added) > Capacity THEN Overflow ELSE es \o added

EndSegment ==
    /\ InWork /\ ~Flat /\ Mutates /\ pass > Len(search.pipeline)
    /\ LET end == search.segments[part].last
           settled == IF normalized THEN events ELSE Normalize(events)
           restored == IF InSelected(end + Tick) THEN settled
                       ELSE RestoreSegmentControls(settled, end)
       IN IF restored = Overflow
          THEN /\ status' = "CapacityExceeded"
               /\ UNCHANGED <<events, normalized, unpruned, part, pass>>
          ELSE /\ events' = Normalize(restored)
               /\ unpruned' = events'
               /\ normalized' = TRUE
               /\ part' = part + 1
               /\ pass' = 1
               /\ UNCHANGED status
    /\ UNCHANGED <<search, selected>>

EndPipeline ==
    /\ InWork /\ Flat /\ pass > Len(search.pipeline)
    /\ events' = IF normalized THEN events ELSE Normalize(events)
    /\ unpruned' = IF normalized THEN unpruned ELSE events'
    /\ normalized' = TRUE
    /\ part' = part + 1
    /\ UNCHANGED <<search, selected, pass, status>>

EffectiveChangeCount(es) ==
    LET common == Min({Len(search.baseline), Len(es)})
        longer == Max({Len(search.baseline), Len(es)})
    IN longer - common
        + Cardinality({i \in 1..common : es[i] # search.baseline[i]})
        + (IF longer # common THEN Len(search.tail) ELSE 0)

\* A candidate without a change is not simulated.
Deliver ==
    /\ status = "Mutating" /\ part > Parts
    /\ status' = IF EffectiveChangeCount(events) = 0 THEN "Unchanged" ELSE "Active"
    /\ UNCHANGED <<search, selected, events, normalized, part, pass, unpruned>>

\* The slot is used again for the candidate of another identifier.
NextCandidate ==
    /\ status # "Mutating"
    /\ \E chosen \in Chosen(search) : Begin(search, chosen)
    /\ UNCHANGED search

Next ==
    \/ SkipSegment
    \/ SkipModifier
    \/ Mutate
    \/ EndSegment
    \/ EndPipeline
    \/ Deliver
    \/ NextCandidate

Spec == Init /\ [][Next]_vars

-----------------------------------------------------------------------------
(* Properties.                                                             *)

Delivered == status \in {"Active", "Unchanged"}

\* The room that the caller computed from the request is enough for every
\* draw: no candidate of an accepted request is refused for its length.
CapacitySuffices == status # "CapacityExceeded"

\* Several modifiers skip the sort and search by bisection when the suffix is
\* said to be canonical, and the simulation reads it in order: the flag is
\* never set on a suffix out of order or with a channel set twice at a time,
\* no value leaves the range of its channel, and what is delivered fits
\* between the prefix and the tail.
CandidateIsCanonical ==
    /\ normalized => Canonical(events)
    /\ \A i \in DOMAIN events : InRange(events[i])
    /\ Delivered =>
        /\ normalized
        /\ Sorted(search.prefix \o Shifted(events, Origin) \o Shifted(search.tail, Origin))

\* The times a modifier may write: its window, begun at a tick, within the
\* selected segments.
Writable(t) ==
    \E i \in DOMAIN search.pipeline :
        LET m == search.pipeline[i]
        IN /\ Floor(m.first) <= t /\ t <= m.last
           /\ Flat \/ InSelected(t)

RestoreTime(t) ==
    \E i \in selected : t - search.segments[i].last \in 1..2

\* Only what the caller opened is changed: an input at any other time is the
\* baseline's, however often the suffix was sorted, merged or pruned.
OnlyWindowsChange ==
    \A t \in {search.baseline[i].time : i \in DOMAIN search.baseline}
              \cup {events[i].time : i \in DOMAIN events} :
        ~Writable(t) /\ ~RestoreTime(t) =>
            At(Normalize(events), t) = At(Normalize(search.baseline), t)

\* The ticks after a segment, up to the next one that is mutated.
Unselected ==
    LET last == Max({search.segments[i].last : i \in DOMAIN search.segments})
    IN {t \in TicksIn([first |-> 0, last |-> last + 2 * Tick]) : ~InSelected(t)}

Simulated(es, t) == ControlsAt(es, search.boundary, Origin, t)

\* No channel has a time from before the mutable boundary or at it.
Fresh ==
    /\ search.boundary = NoControls
    /\ \A i \in DOMAIN search.baseline : search.baseline[i].time > 0

\* In a tick outside the selected segments every channel has the baseline's
\* value, and a search whose inputs begin after the boundary gives the car the
\* baseline's controls: analog and digital keep their priority.
UnselectedTicksFollowBaseline ==
    Delivered /\ ~Flat =>
        \A t \in Unselected :
            LET mutated == Simulated(events, t)
                base == Simulated(search.baseline, t)
            IN /\ mutated.value = base.value
               /\ Fresh => ControlsFromState(mutated) = ControlsFromState(base)

\* Leaving out the steering that repeats the held value is not felt: at no
\* time does it move the wheels by more than the dead zone.
PruningIsInvisible ==
    \A t \in {unpruned[i].time : i \in DOMAIN unpruned} :
        Abs(Steering(Simulated(events, t)) - Steering(Simulated(unpruned, t))) <= DeadZone

\* "Distinct timestamps preserve analog/digital priority": after a segment the
\* car has the baseline's controls, whenever its channels last changed.
PriorityIsRestored ==
    Delivered /\ ~Flat =>
        \A t \in Unselected :
            ControlsFromState(Simulated(events, t))
                = ControlsFromState(Simulated(search.baseline, t))
=============================================================================
