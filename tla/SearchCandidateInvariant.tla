---------------------- MODULE SearchCandidateInvariant ----------------------
(***************************************************************************)
(* The words in which candidates of a GPU search are proved right: what is *)
(* known of a stream, of a modifier's work, of the controls and of a       *)
(* restoration, and the three inductive invariants.                        *)
(*   SuffixInvariant       room, order and times that nobody opened        *)
(*   RestorationInvariant  the ticks after a segment that is done with     *)
(*   OnlyRestoredDigital   digital steering in a search that prunes        *)
(***************************************************************************)
EXTENDS SearchCandidate

-----------------------------------------------------------------------------
(* Values made step by step, and members of sets in order.                 *)

\* A value made step by step.
MadeBySteps(f, X, base, n, step) ==
    /\ f \in [0..n -> X] /\ f[0] = base
    /\ \A i \in 1..n : f[i - 1] \in X /\ f[i] = step[i][f[i - 1]]

\* A relation that puts the members of a set in one order.
StrictOrder(S, less) ==
    /\ \A i \in S : <<i, i>> \notin less
    /\ \A i, j, k \in S : <<i, j>> \in less /\ <<j, k>> \in less => <<i, k>> \in less
    /\ \A i, j \in S : i # j => <<i, j>> \in less \/ <<j, i>> \in less

\* The members before one.
Under(S, less, i) == {j \in S : <<j, i>> \in less}

\* A map of one ordered set onto another that keeps the order matches the
\* members at the same places.
Follows(S, less, T, more, g) ==
    /\ g \in [S -> T]
    /\ \A j \in T : \E i \in S : g[i] = j
    /\ \A i, j \in S : <<i, j>> \in less => <<g[i], g[j]>> \in more

\* Streams of events, and the order of their places.
Streams == Seq(Events)
Upwards(S) == {p \in S \X S : p[1] < p[2]}

\* Some places of a stream one after another.
Lists(p, n, S) ==
    /\ n \in Nat /\ p \in [1..n -> S]
    /\ \A i \in S : \E k \in 1..n : p[k] = i
    /\ \A k, l \in 1..n : k < l <=> p[k] < p[l]

\* Two streams have the same events at some places of each.
Matches(a, S, b, T, g) ==
    /\ g \in [S -> T]
    /\ \A j \in T : \E i \in S : g[i] = j
    /\ \A i, j \in S : i < j => g[i] < g[j]
    /\ \A i \in S : a[i] = b[g[i]]

-----------------------------------------------------------------------------
(* Streams, before and after they are sorted.                              *)

\* The places that sorting keeps: the first of each channel and time, ...
Firsts(es) ==
    {i \in DOMAIN es :
        es[i].time >= 0 /\ \A j \in DOMAIN es : j < i => ~SameChannel(es[j], es[i])}

\* ... in the order of their times, then of their places.
Earlier(es, S) ==
    {p \in S \X S : \/ es[p[1]].time < es[p[2]].time
                    \/ es[p[1]].time = es[p[2]].time /\ p[1] < p[2]}

\* The same, for two places.
Precedes(es, i, j) ==
    es[i].time < es[j].time \/ (es[i].time = es[j].time /\ i < j)

\* The events that one stands for, of its channel and time.
Channelled(es, i) == {j \in DOMAIN es : SameChannel(es[j], es[i])}
NormalOrder(es) == InOrder(Firsts(es), Earlier(es, Firsts(es)))

\* Two streams are told apart at a time by the events of that time.
Moments(es, t) == {i \in DOMAIN es : es[i].time = t}

\* An event a modifier may leave, whose analog value is still to be saturated.
Plausible(e) ==
    /\ e \in Events /\ e.time >= 0
    /\ e.action \notin Analog => e.value \in 0..1

\* A stream of them.
Plausibles(es) == es \in Streams /\ \A i \in DOMAIN es : Plausible(es[i])

\* A stream whose values are in the range of their channels.
Sound(es) ==
    /\ es \in Streams
    /\ \A i \in DOMAIN es : es[i].time >= 0 /\ InRange(es[i])

-----------------------------------------------------------------------------
(* What a modifier may do to a stream in its window.                       *)

\* A window, and the times out of its ticks.
GoodWindow(w) == w.first \in Int /\ w.last \in Int /\ 0 <= w.first /\ w.first <= w.last
Outside(w, t) == t < Floor(w.first) \/ t > w.last
Digital == {SteerLeft, SteerRight}

\* Out of the window, two streams are the same when sorted.
Untouched(a, b, w) ==
    \A t \in Int : Outside(w, t) => At(Normalize(b), t) = At(Normalize(a), t)

\* No digital steering event is new, ...
NothingDigital(a, b) ==
    \A i \in DOMAIN b : b[i].action \in Digital => \E j \in DOMAIN a : a[j] = b[i]

\* ... and none is lost.
DigitalStays(a, b) ==
    \A j \in DOMAIN a : a[j].action \in Digital => \E i \in DOMAIN b : SameChannel(b[i], a[j])

\* What a modifier may make of a stream that it lets grow by some events at most.
Outcome(a, b, w, n) ==
    /\ Plausibles(b) /\ Len(b) <= Len(a) + n
    /\ Untouched(a, b, w) /\ NothingDigital(a, b) /\ DigitalStays(a, b)

\* What a modifier leaves that only drops events.
Thinned(a, r, w) ==
    Outcome(a, r, w, 0) /\ Sound(r) /\ (Canonical(a) => Canonical(r))

\* A modifier of a prepared pipeline.
GoodModifier(m) ==
    /\ Modifier(m) /\ 0 <= m.first
    /\ m.kind = "SmoothSteering" => m.radius % Tick = 0

-----------------------------------------------------------------------------
(* Values of channels.                                                     *)

\* A value that a channel may have.
InChannel(a, v) == v \in IF a \in Analog THEN -Full..Full ELSE 0..1

\* Controls that channels may have.
GoodControls(s) ==
    /\ s = [value |-> s.value, time |-> s.time]
    /\ s.value \in [Actions -> Int] /\ s.time \in [Actions -> Int]
    /\ \A a \in Actions : InChannel(a, s.value[a])

\* The prepared request, as far as its modifiers need it.
GoodSearch ==
    /\ Capacity \in Int
    /\ GoodControls(search.boundary)

\* A sample of a deformation.
SampledValue(es, t, center, amplitude) ==
    Saturate(StateAt(es, Steer, t, search.boundary.value[Steer])
             + Weighted(amplitude, Abs(t - center) \div Tick))

\* Streams, and what stands for one that does not fit.
Attempts == Streams \cup {Overflow}

\* Where its samples are.
SampleStart(m, w, center) == Floor(Max({center - m.radius, w.first}))
SampleEnd(m, w, center) == Min({center + m.radius, w.last})
SampleCount(m, w, center) ==
    (SampleEnd(m, w, center) - SampleStart(m, w, center)) \div Tick + 1
SampleTime(m, w, center, i) == SampleStart(m, w, center) + (i - 1) * Tick

-----------------------------------------------------------------------------
(* What smoothing and insertion are made of.                               *)

\* Its times and what is added at them are whole numbers.
Sampling(m, w, center, amplitude) ==
    /\ SampleCount(m, w, center) \in Nat
    /\ \A i \in 1..SampleCount(m, w, center) :
        /\ SampleTime(m, w, center, i) \in Int
        /\ Weighted(amplitude, Abs(SampleTime(m, w, center, i) - center) \div Tick) \in Int

\* What one or more deformations leave.
Smoothed(a, r, w, n) == Outcome(a, r, w, n) /\ Sound(r) /\ Canonical(r)

\* The sets of streams that each deformation leaves.
Deformations(f, es, m, w) ==
    /\ f \in [0..m.deformations -> SUBSET Attempts]
    /\ f[0] = {es}
    /\ \A i \in 1..m.deformations : f[i] = DeformedOnce(f[i - 1], m, w)
    /\ SmoothSteering(es, m, w) = f[m.deformations]

\* Channels that an insertion may take over.
Insertable == {Steer, Accelerate, Brake}

\* The events of an insertion.
RestOf(es, action, start, end) ==
    Kept(es, {i \in DOMAIN es :
                ~(es[i].action = action /\ start <= es[i].time /\ es[i].time <= end)})
HeldEvent(action, start, v) == Event(start, action, v)
ReleaseEvent(before, action, end) ==
    Event(end, action, StateAt(before, action, end, search.boundary.value[action]))

\* A stream that is left by an insertion into another.
InsertedInto(r, es, before, m, w, action) ==
    IF es = Overflow THEN r = Overflow
    ELSE \E start \in TicksIn(w), length \in Nat :
            \E v \in InsertedValues(es, m, action, start) :
                r = Inserted(es, before, action, start, Min({start + length, w.last}), v)

\* The sets of streams that each insertion leaves.
Insertions(f, streams, before, m, w, channel, action) ==
    /\ f \in [0..channel.most -> SUBSET Attempts]
    /\ f[0] = streams
    /\ \A i \in 1..channel.most :
        f[i] = InsertedOnce(f[i - 1], before, m, w, channel, action)
    /\ InsertedChannel(streams, before, m, w, channel, action)
        = UNION {f[n] : n \in channel.fewest..channel.most}

-----------------------------------------------------------------------------
(* Controls, and their restoration.                                        *)

\* Values of all channels, with the times they were set at.
Controls == [value : [Actions -> Int], time : [Actions -> Int]]

\* What one event makes of them, if it is due.
ControlsAfter(s, e, origin, t) ==
    IF e.time <= t THEN ApplyControlEvent(s, e, origin) ELSE s

\* The controls after each event of a stream.
History(f, es, initial, origin, t) ==
    /\ f \in [0..Len(es) -> Controls]
    /\ f[0] = initial
    /\ \A i \in 1..Len(es) : f[i] = ControlsAfter(f[i - 1], es[i], origin, t)
    /\ ControlsAt(es, initial, origin, t) = f[Len(es)]

\* A channel was not set yet, or by its last event.
NotSet(es, a, t) == \A i \in DOMAIN es : es[i].action = a => es[i].time > t
SetBy(es, a, t, i) ==
    /\ i \in DOMAIN es /\ es[i].action = a /\ es[i].time <= t
    /\ \A j \in DOMAIN es : es[j].action = a /\ es[j].time <= t => j <= i

\* When the analog channel of a group is written, and when its switches are.
AnalogTime(wins, end) == end + (IF wins THEN 2 ELSE 1)
DigitalTime(wins, end) == end + (IF wins THEN 1 ELSE 2)

\* The events that restore the steering, and those that restore the gas.
SteeringRestored(s, end) ==
    Restored(Steer, SteerLeft, SteerRight, AnalogSteeringWins(s), s, end)
GasRestored(s, end) == Restored(Gas, Accelerate, Brake, AnalogGasWins(s), s, end)

\* What restores: the events of the groups that differ, shortly after the end.
IsRestoration(added, s, actual, end) ==
    /\ \A k \in DOMAIN added : added[k].time \in {end + 1, end + 2} /\ InRange(added[k])
    /\ SteeringDiffers(s, actual) =>
          \A j \in 1..3 : \E k \in DOMAIN added : added[k] = SteeringRestored(s, end)[j]
    /\ GasDiffers(s, actual) =>
          \A j \in 1..3 : \E k \in DOMAIN added : added[k] = GasRestored(s, end)[j]
    /\ \A k \in DOMAIN added :
          \/ /\ SteeringDiffers(s, actual)
             /\ \E j \in 1..3 : added[k] = SteeringRestored(s, end)[j]
          \/ /\ GasDiffers(s, actual)
             /\ \E j \in 1..3 : added[k] = GasRestored(s, end)[j]

\* The value of the steering before each event of a stream.
Values == Int
HeldValues(f, es, initial) ==
    /\ f \in [0..Len(es) -> Values]
    /\ f[0] = initial
    /\ \A n \in 1..Len(es) :
        f[n] = IF es[n].action = Steer THEN es[n].value ELSE f[n - 1]

\* The places of a stream that are kept when the steering is known.
KeptPlaces(f, es, before) ==
    {n \in DOMAIN es : \/ es[n].action # Steer
                       \/ es[n].value # f[n - 1]
                       \/ \E i \in DOMAIN before : before[i] = es[n]}

-----------------------------------------------------------------------------
(* What the executor makes of a request.                                   *)

\* What a modifier may leave: a stream with room, changed in the window, and
\* pruned at most.
PrunedAtMost(r, w, n) ==
    \/ r.unpruned = r.events
    \/ /\ search.prunes /\ normalized /\ r.events = Pruned(r.unpruned, events)
       /\ Outcome(events, r.unpruned, w, n) /\ Sound(r.unpruned) /\ Canonical(r.unpruned)

Modified(r, w, n) ==
    /\ r.room /\ Outcome(events, r.events, w, n) /\ Sound(r.events)
    /\ r.normalized \in BOOLEAN
    /\ r.normalized => Canonical(r.events)
    /\ normalized => r.normalized
    /\ PrunedAtMost(r, w, n)

\* Segments one after another, made of ticks.
GoodSegments(segments) ==
    /\ segments \in Seq(Window)
    /\ \A i \in DOMAIN segments :
        /\ 0 <= segments[i].first /\ segments[i].first <= segments[i].last
        /\ Floor(segments[i].first) = segments[i].first
        /\ Floor(segments[i].last) = segments[i].last
    /\ \A i, j \in DOMAIN segments : i < j => segments[i].last < segments[j].first

\* A pipeline of at least one modifier.
GoodPipeline(pipeline) ==
    /\ Len(pipeline) \in Nat \ {0} /\ DOMAIN pipeline = 1..Len(pipeline)
    /\ \A i \in 1..Len(pipeline) : GoodModifier(pipeline[i])

\* What a prepared request is: a baseline in order, that ends where the
\* modifiers and the segments do, between a prefix and a tail.
Ends(p, end) ==
    /\ end \in Int
    /\ \A i \in DOMAIN p.pipeline : p.pipeline[i].last <= end
    /\ \A i \in DOMAIN p.segments : p.segments[i].last + Tick <= end
    /\ \A i \in DOMAIN p.baseline : p.baseline[i].time <= end
    /\ \A i \in DOMAIN p.tail : p.tail[i].time > end

WellPrepared(p) ==
    /\ Sound(p.baseline) /\ Sorted(p.baseline)
    /\ p.segments # <<>> => Canonical(p.baseline)
    /\ p.prefix \in Streams /\ Sorted(p.prefix)
    /\ \A i \in DOMAIN p.prefix : p.prefix[i].time < Origin
    /\ p.tail \in Streams /\ Sorted(p.tail)
    /\ GoodControls(p.boundary)
    /\ GoodPipeline(p.pipeline) /\ GoodSegments(p.segments)
    /\ \E end \in Int : Ends(p, end)

\* The growth of the first modifiers of a pipeline.
Growths(f, pipeline) ==
    /\ f \in [0..Len(pipeline) -> Values]
    /\ f[0] = 0
    /\ \A n \in 1..Len(pipeline) : f[n] = f[n - 1] + Growth(pipeline[n])

-----------------------------------------------------------------------------
(* The inductive invariant of the suffix.                                  *)

\* The search in work is an accepted request, as the executor prepared it.
Requested == \E s \in Searches : Accepted(s) /\ search = Prepared(s)

\* The pointers of the kernel.
PlaceInWork ==
    /\ selected \subseteq DOMAIN search.segments
    /\ part \in 1..(Parts + 1) /\ pass \in 1..(Len(search.pipeline) + 1)
    /\ status \in {"Mutating", "Active", "Unchanged"}
    /\ Delivered => part > Parts

\* The suffix is what the flag says of it.
FlagIsTrue ==
    /\ Sound(events) /\ normalized \in BOOLEAN
    /\ normalized => Canonical(events)
    /\ ~Flat \/ part > Parts => normalized

\* What is left of the room is enough for the modifiers and segments to come.
RoomIsLeft ==
    Len(events) <= Len(search.baseline)
                    + (part - 1) * (PipelineGrowth(search.pipeline) + 6)
                    + GrowthUpTo(search.pipeline)[pass - 1]

\* A time that no selected segment or modifier opens, not even for a restoration.
Closed(t) == ~Writable(t) /\ ~RestoreTime(t)

\* What the caller did not open is as it was.
ClosedIsKept ==
    \A t \in Int : Closed(t) => At(Normalize(events), t) = At(Normalize(search.baseline), t)

SuffixInvariant == Requested /\ PlaceInWork /\ FlagIsTrue /\ RoomIsLeft /\ ClosedIsKept

-----------------------------------------------------------------------------
(* What the car feels.                                                     *)

\* The last event of a channel up to a time.
LastOf(es, c, t, e) ==
    /\ \E i \in DOMAIN es : es[i] = e
    /\ e.action = c /\ e.time <= t
    /\ \A j \in DOMAIN es : es[j].action = c /\ es[j].time <= t => es[j].time <= e.time

\* Streams that agree on a stretch of time.
Agree(a, b, s, t) == \A u \in Int : s < u /\ u <= t => At(a, u) = At(b, u)

\* At the end of a stretch on which streams agree, a channel has been set alike,
\* or is as it was in each.
AsBefore(p, q, c) == q.value[c] = p.value[c] /\ q.time[c] = p.time[c]

\* An analog channel wins against two switches if it was set later, and
\* perhaps if it was set with the later one.
Reaches(s, analog, first, second) ==
    s.time[analog] >= s.time[first] /\ s.time[analog] >= s.time[second]
Passes(s, analog, first, second) ==
    s.time[analog] > s.time[first] /\ s.time[analog] > s.time[second]
Wins(s, analog, first, second, tie) ==
    IF tie THEN Reaches(s, analog, first, second) ELSE Passes(s, analog, first, second)
SamePriority(p, q, analog, first, second) ==
    /\ Reaches(p, analog, first, second) <=> Reaches(q, analog, first, second)
    /\ Passes(p, analog, first, second) <=> Passes(q, analog, first, second)

\* When a tie goes to the analog channel.
SteeringTie(s) ==
    s.value[SteerLeft] = 0 /\ s.value[SteerRight] = 0 /\ Abs(s.value[Steer]) > DeadZone
GasTie(s) == s.value[Accelerate] = 0 /\ s.value[Brake] = 0

\* The channels that are restored together.
SteeringGroup == {Steer, SteerLeft, SteerRight}
GasGroup == {Gas, Accelerate, Brake}

\* Controls with the same values.
SameValues(p, q, group) == \A c \in group : q.value[c] = p.value[c]

\* What becomes of two controls when the same is done to them: each channel is
\* set alike after a time, or as it was before it.
Follow(as, bs, at, bt, time, group) ==
    /\ {as, bs, at, bt} \subseteq Controls /\ time \in Int
    /\ \A c \in group : as.time[c] <= time /\ bs.time[c] <= time
    /\ \A c \in group : \/ AsBefore(at, bt, c) /\ at.time[c] > time
                        \/ AsBefore(as, at, c) /\ AsBefore(bs, bt, c)

\* A channel that was never set, or was at a time counted from the boundary.
Shift(p, q, c) ==
    \/ p.time[c] = 0 /\ q.time[c] = 0 /\ p.value[c] = 0
    \/ p.time[c] >= 0 /\ q.time[c] = Origin + p.time[c]

-----------------------------------------------------------------------------
(* What a restoration leaves.                                              *)

\* The channels that are restored, and the event that restores each.
IsRestored(s, actual, c) ==
    IF c \in SteeringGroup THEN SteeringDiffers(s, actual) ELSE GasDiffers(s, actual)
RestoredAt(s, end, c) ==
    CASE c = Steer -> AnalogTime(AnalogSteeringWins(s), end)
      [] c = Gas -> AnalogTime(AnalogGasWins(s), end)
      [] c \in Digital -> DigitalTime(AnalogSteeringWins(s), end)
      [] OTHER -> DigitalTime(AnalogGasWins(s), end)
RestoringEvent(s, end, c) == Event(RestoredAt(s, end, c), c, s.value[c])

\* A channel is set at a time.
SetAt(es, c, t) == \E i \in DOMAIN es : es[i].action = c /\ es[i].time = t

\* What the restoration after a segment makes of a stream.
Expected(b, initial, end) == ControlsAt(b, initial, 0, end + 2)
Found(es, initial, end) == ControlsAt(es, initial, 0, end + 2)
WrittenBackTo(es, b, initial, end) ==
    Normalize(es \o Restoration(Expected(b, initial, end), Found(es, initial, end), end))

\* The stream has the events that restore, and all others of the stream before.
RestoredWith(r, es, expected, found, end) ==
    /\ \A c \in Actions : IsRestored(expected, found, c) =>
            \E k \in DOMAIN r : r[k] = RestoringEvent(expected, end, c)
    /\ \A i \in DOMAIN es :
            \/ \E k \in DOMAIN r : r[k] = es[i]
            \/ \E c \in Actions : /\ IsRestored(expected, found, c)
                                  /\ SameChannel(RestoringEvent(expected, end, c), es[i])
    /\ \A k \in DOMAIN r :
            \/ \E c \in Actions : /\ IsRestored(expected, found, c)
                                  /\ r[k] = RestoringEvent(expected, end, c)
            \/ \E i \in DOMAIN es : r[k] = es[i]

\* A time counted from the boundary, zero where a channel is not set, as a race
\* time.
Raced(t, u) == (t = 0 /\ u = 0) \/ (t >= 0 /\ u = Origin + t)

\* A stream that sets nothing at the boundary.
Begun(b) == \A i \in DOMAIN b : b[i].time > 0

\* A channel that was written back at a time, unless the stream had it set
\* at the last of the two.
WrittenAt(p, q, end, c, t) ==
    /\ p.time[c] <= end + 2
    /\ t = end + 2 \/ p.time[c] = end + 2 => q.time[c] = Origin + (end + 2)
    /\ t # end + 2 /\ p.time[c] # end + 2 => q.time[c] = Origin + (end + 2) - 1

\* The controls before and after a restoration, for inputs that begin after the
\* boundary.
Before0(b, end) == Expected(b, NoControls, end)
Found0(es, end) == Found(es, NoControls, end)
After0(es, b, end) ==
    ControlsAt(WrittenBackTo(es, b, NoControls, end), NoControls, Origin, end + 2)

\* What is known of them, channel by channel: m are those the stream had in
\* race times.
Around(p, f, q, m, end) ==
    /\ p \in Controls /\ f \in Controls /\ q \in Controls /\ m \in Controls
    /\ \A c \in Actions :
        /\ q.value[c] = p.value[c] /\ Shift(f, m, c) /\ m.value[c] = f.value[c]
        /\ IsRestored(p, f, c) => WrittenAt(p, q, end, c, RestoredAt(p, end, c))
        /\ ~IsRestored(p, f, c) => AsBefore(m, q, c)

-----------------------------------------------------------------------------
(* The inductive invariant of the restored segments.                       *)

\* The car has the controls of the baseline, as far as it is to have them.
SameFeel(a, b, initial, t) ==
    LET mutated == ControlsAt(a, initial, Origin, t)
        base == ControlsAt(b, initial, Origin, t)
    IN /\ mutated.value = base.value
       /\ initial = NoControls /\ Begun(b) =>
            ControlsFromState(mutated) = ControlsFromState(base)

\* The times after the segments that are done with.
WrittenBack(t) == \E i \in selected : i < part /\ t - search.segments[i].last \in 1..2

\* Until its segment is done with, a time after it is as it was.
PendingIsKept ==
    \A t \in Int : ~Writable(t) /\ ~WrittenBack(t) => At(events, t) = At(search.baseline, t)

\* A segment after which the ticks are the baseline's again.
HandedBack(i) == i < part /\ ~InSelected(search.segments[i].last + Tick)

\* After it the car has the baseline's controls.
RestoredIsKept ==
    \A i \in selected : HandedBack(i) =>
        SameFeel(events, search.baseline, search.boundary, search.segments[i].last + 2)

RestorationInvariant ==
    ~Flat => /\ PendingIsKept
             /\ DigitalStays(search.baseline, events)
             /\ RestoredIsKept

-----------------------------------------------------------------------------
(* The digital steering of a search that prunes.                           *)

\* A digital steering event is one of a restoration: before one of the wheel,
\* or after one that is in the dead zone.
RestoredBeside(es, k, end) ==
    \/ /\ es[k].time = end + 1
       /\ \E n \in DOMAIN es : es[n].action = Steer /\ es[n].time = end + 2
    \/ /\ es[k].time = end + 2
       /\ \E n \in DOMAIN es : /\ es[n].action = Steer /\ es[n].time = end + 1
                               /\ Abs(es[n].value) <= DeadZone

\* In a search that prunes, whose inputs have no digital steering, there is no
\* other.
OnlyRestoredDigital ==
    search.prunes =>
        \A k \in DOMAIN events : events[k].action \in Digital =>
            /\ events[k].value = 0
            /\ \E i \in selected : /\ HandedBack(i)
                                   /\ RestoredBeside(events, k, search.segments[i].last)

\* A stream that a modifier left, changed ahead of the segments before.
WroteAhead(b) ==
    /\ Sound(b) /\ Canonical(b) /\ NothingDigital(events, b)
    /\ ~Flat => \A u \in Int : u < search.segments[part].first => At(b, u) = At(events, u)

=============================================================================
