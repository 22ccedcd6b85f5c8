---------------------- MODULE ControlPlanBuilderProofs ----------------------
(***************************************************************************)
(* The walk makes the plan, for every timeline and every request: every    *)
(* tick is what the inputs up to its time say, every respawn of a running  *)
(* race is delivered once, each target that falls on a tick is carried by  *)
(* that tick and by no other, and the build succeeds exactly if all do.    *)
(*                                                                         *)
(* The walk reads a list of events, and the ticks are specified over times *)
(* and places within a time; Layout relates the two.  What is computed     *)
(* from element to element (the list itself, the inner loop, the sum of    *)
(* the respawns) is a recursive function: that it exists is StepByStep,    *)
(* and what holds of all its values has no least counterexample (Least).   *)
(***************************************************************************)
EXTENDS ControlPlanBuilder, FiniteSetTheorems, WellFoundedInduction, TLAPS

-----------------------------------------------------------------------------
(* Times, and the first elements of an interval.                           *)

LEMMA Least ==
    ASSUME NEW S \in SUBSET Nat, S # {}
    PROVE  \E x \in S : \A y \in S : x <= y
<1>1. PICK x \in S : \A y \in S : ~(<<y, x>> \in OpToRel(<, Nat))
  BY NatLessThanWellFounded, WFMin
<1>2. \A y \in S : <<y, x>> \in OpToRel(<, Nat) <=> y < x
  BY DEF OpToRel
<1>3. \A y \in S : ~(y < x)
  BY <1>1, <1>2, Zenon
<1>4. \A y \in S : x <= y
  BY <1>3
<1> QED
  BY <1>4

\* What is true of an element only if it is true of all before it, is true
\* of as many from the first on as it is true of.
LEMMA FirstOnes ==
    ASSUME NEW a \in Nat, NEW b \in Nat, NEW S \in SUBSET ((a + 1)..b),
           \A i \in S : \A j \in (a + 1)..i : j \in S
    PROVE  Cardinality(S) \in Nat /\ S = (a + 1)..(a + Cardinality(S))
<1> DEFINE gaps == {i \in Nat : a < i /\ i \notin S}
<1>1. gaps \in SUBSET Nat /\ a + b + 1 \in gaps
  OBVIOUS
<1>2. PICK g \in gaps : \A i \in gaps : g <= i
  BY <1>1, Least
<1>3. g \in Nat /\ a < g /\ g \notin S
  OBVIOUS
<1>4. \A i \in Nat : a < i /\ i < g => i \in S
  BY <1>2
<1>5. ASSUME NEW i \in S PROVE i \in Nat /\ a < i /\ i < g
  <2>1. i \in Nat /\ a < i /\ \A j \in (a + 1)..i : j \in S
    OBVIOUS
  <2>2. g \notin (a + 1)..i
    BY <1>3, <2>1
  <2> QED
    BY <1>3, <2>1, <2>2
<1>6. S = (a + 1)..(g - 1)
  <2>1. ASSUME NEW i \in (a + 1)..(g - 1) PROVE i \in S
    BY <1>3, <1>4
  <2>2. ASSUME NEW i \in S PROVE i \in (a + 1)..(g - 1)
    BY <1>3, <1>5
  <2> QED
    BY <2>1, <2>2
<1>7. Cardinality(S) = g - 1 - a
  <2>1. Cardinality((a + 1)..(g - 1)) = IF a + 1 > g - 1 THEN 0 ELSE (g - 1) - (a + 1) + 1
    BY <1>3, FS_Interval
  <2> QED
    BY <1>3, <1>6, <2>1
<1> QED
  BY <1>3, <1>6, <1>7

\* A value made step by step exists.
LEMMA StepByStep ==
    ASSUME NEW X, NEW base \in X, NEW n \in Nat, NEW step \in [1..n -> [X -> X]]
    PROVE  \E f \in [0..n -> X] :
              f[0] = base /\ \A i \in 1..n : f[i] = step[i][f[i - 1]]
<1> DEFINE Made(m, f) == f[0] = base /\ \A i \in 1..m : f[i] = step[i][f[i - 1]]
           missing == {m \in 0..n : \A f \in [0..m -> X] : ~Made(m, f)}
<1>1. SUFFICES missing = {}
  <2>1. n \in 0..n
    OBVIOUS
  <2>2. \E f \in [0..n -> X] : Made(n, f)
    <3> HIDE DEF Made
    <3> QED
      BY <1>1, <2>1
  <2> QED
    BY <2>2
<1> SUFFICES ASSUME missing # {} PROVE FALSE
  OBVIOUS
<1>2. PICK m \in missing : \A k \in missing : m <= k
  <2>1. missing \in SUBSET Nat
    OBVIOUS
  <2> HIDE DEF missing
  <2> QED
    BY <2>1, Least
<1>3. m \in 0..n /\ \A f \in [0..m -> X] : ~Made(m, f)
  OBVIOUS
<1>4. m # 0
  <2> DEFINE f == [i \in 0..0 |-> base]
  <2>1. f \in [0..0 -> X] /\ Made(0, f)
    OBVIOUS
  <2> QED
    BY <1>3, <2>1
<1>5. PICK f \in [0..(m - 1) -> X] : Made(m - 1, f)
  <2>1. m - 1 \in 0..n /\ m - 1 < m
    BY <1>3, <1>4
  <2>2. m - 1 \notin missing
    <3> HIDE DEF missing
    <3> QED
      BY <1>2, <1>3, <2>1
  <2> QED
    BY <2>1, <2>2
<1> DEFINE g == [i \in 0..m |-> IF i = m THEN step[m][f[m - 1]] ELSE f[i]]
<1>6. g \in [0..m -> X]
  <2>1. m \in 1..n /\ f[m - 1] \in X
    BY <1>3, <1>4
  <2>2. step[m][f[m - 1]] \in X
    BY <2>1
  <2>3. \A i \in 0..m : i # m => f[i] \in X
    BY <1>3
  <2> QED
    BY <2>2, <2>3
<1>7. Made(m, g)
  <2>1. g[0] = base
    BY <1>3, <1>4, <1>5
  <2>2. ASSUME NEW i \in 1..m PROVE g[i] = step[i][g[i - 1]]
    BY <1>3, <1>4, <1>5
  <2> QED
    BY <2>1, <2>2
<1> QED
  BY <1>3, <1>6, <1>7

LEMMA OnTicks ==
    ASSUME NEW tick \in Nat \ {0}, NEW t \in Nat, t % tick = 0
    PROVE  /\ t \div tick \in Nat /\ t = (t \div tick) * tick
           /\ t > 0 => t \div tick > 0
<1>1. t = (t \div tick) * tick + (t % tick) /\ t \div tick \in Nat
  OBVIOUS
<1> QED
  BY <1>1

LEMMA TicksAscend ==
    ASSUME NEW tick \in Nat \ {0}, NEW j \in Nat, NEW k \in Nat
    PROVE  /\ j * tick \in Nat /\ (j + 1) * tick = j * tick + tick
           /\ j < k <=> j * tick < k * tick
           /\ j = k <=> j * tick = k * tick
<1>1. ASSUME NEW m \in Nat, NEW n \in Nat, m < n PROVE m * tick < n * tick
  <2>1. PICK d \in Nat \ {0} : n = m + d
    <3>1. n - m \in Nat \ {0} /\ n = m + (n - m)
      BY <1>1
    <3> QED
      BY <3>1
  <2>2. n * tick = m * tick + d * tick /\ d * tick > 0
    BY <2>1
  <2> QED
    BY <2>2
<1> QED
  BY <1>1

LEMMA TicksDivide ==
    ASSUME NEW tick \in Nat \ {0}, NEW k \in Nat
    PROVE  (k * tick) % tick = 0 /\ (k * tick) \div tick = k
OBVIOUS

\* Sequences that need not be of any set.
IsSeq(s) == Len(s) \in Nat /\ s = [k \in 1..Len(s) |-> s[k]]

LEMMA AppendTo ==
    ASSUME NEW s, IsSeq(s), NEW e
    PROVE  LET longer == Append(s, e)
           IN /\ IsSeq(longer) /\ Len(longer) = Len(s) + 1
              /\ DOMAIN longer = 1..(Len(s) + 1)
              /\ \A k \in 1..Len(s) : longer[k] = s[k]
              /\ longer[Len(s) + 1] = e
<1> DEFINE S == {s[k] : k \in 1..Len(s)} \cup {e}
           n == Len(s)
<1>1. n \in Nat /\ s = [k \in 1..n |-> s[k]]
  BY DEF IsSeq
<1>2. \A k \in 1..n : s[k] \in S
  OBVIOUS
<1>3. e \in S
  OBVIOUS
<1> HIDE DEF S, n
<1>4. [k \in 1..n |-> s[k]] \in Seq(S)
  BY <1>1, <1>2
<1>5. s \in Seq(S)
  BY <1>1, <1>4, Zenon
<1>6. /\ Append(s, e) \in Seq(S) /\ Len(Append(s, e)) = Len(s) + 1
      /\ \A k \in 1..Len(s) : Append(s, e)[k] = s[k]
      /\ Append(s, e)[Len(s) + 1] = e
  BY <1>3, <1>5
<1>7. ASSUME NEW r \in Seq(S)
      PROVE  IsSeq(r) /\ DOMAIN r = 1..Len(r)
  <2>1. Len(r) \in Nat /\ r \in [1..Len(r) -> S]
    OBVIOUS
  <2> QED
    BY <2>1 DEF IsSeq
<1> QED
  BY <1>6, <1>7

-----------------------------------------------------------------------------
(* The request, and its targets.                                           *)

LEMMA RequestType ==
    ASSUME NEW q \in Requests
    PROVE  /\ q.tick \in Nat /\ q.prestart \in Nat /\ q.requested \in Nat
           /\ q.duration \in Int /\ q.enable \in Int /\ q.spawn \in Int
           /\ q.compare \in BOOLEAN /\ q.trailing \in BOOLEAN
           /\ q.samples \in Seq(Nat)
  BY RequestAssumption

LEMMA TargetType ==
    ASSUME NEW q \in Requests, ~Invalid(q)
    PROVE  /\ q.tick \in Nat \ {0}
           /\ Targets(q) \in Seq(Nat) /\ Len(Targets(q)) > 0
<1>1. q.tick \in Nat \ {0}
  BY RequestType DEF Invalid
<1>2. CASE InputOnly(q)
  <2>1. q.prestart + q.duration \in Nat
    BY <1>2, RequestType DEF InputOnly
  <2> QED
    BY <1>1, <1>2, <2>1 DEF Targets
<1>3. CASE ~InputOnly(q)
  <2>1. /\ q.requested \in 1..Len(q.samples) /\ q.samples \in Seq(Nat)
        /\ q.prestart \in Nat
    BY <1>3, RequestType DEF Invalid
  <2>2. Targets(q) = [i \in 1..q.requested |-> q.prestart + q.samples[i]]
    BY <1>3 DEF Targets
  <2>3. \A i \in 1..q.requested : q.prestart + q.samples[i] \in Nat
    BY <2>1
  <2>4. ASSUME NEW n \in Nat, NEW f \in [1..n -> Nat]
        PROVE  f \in Seq(Nat) /\ Len(f) = n
    OBVIOUS
  <2>5. q.requested \in Nat /\ Targets(q) \in [1..q.requested -> Nat]
    BY <2>1, <2>2, <2>3
  <2>6. Targets(q) \in Seq(Nat) /\ Len(Targets(q)) = q.requested
    BY <2>4, <2>5, Zenon
  <2> QED
    BY <1>1, <2>1, <2>6
<1> QED
  BY <1>2, <1>3

LEMMA TargetsAscend ==
    ASSUME NEW times \in Seq(Nat), Ordered(times),
           NEW i \in 1..Len(times), NEW j \in i..Len(times)
    PROVE  times[i] <= times[j]
<1> DEFINE lower == {k \in i..Len(times) : ~(times[i] <= times[k])}
<1>1. SUFFICES ASSUME lower # {} PROVE FALSE
  OBVIOUS
<1>2. lower \in SUBSET Nat
  OBVIOUS
<1>3. PICK k \in lower : \A m \in lower : k <= m
  BY <1>1, <1>2, Least
<1>4. k \in i..Len(times) /\ ~(times[i] <= times[k]) /\ k # i
  OBVIOUS
<1>5. k - 1 \in i..Len(times) /\ k - 1 \notin lower
  BY <1>3, <1>4
<1>6. times[i] <= times[k - 1] /\ times[k - 1] <= times[k]
  BY <1>4, <1>5 DEF Ordered
<1> QED
  BY <1>4, <1>5, <1>6

-----------------------------------------------------------------------------
(* The inductive invariant.                                                *)

IsControl(c) ==
    c = [clock |-> c.clock, establishRaceSpawn |-> c.establishRaceSpawn,
         enableRaceSimulation |-> c.enableRaceSimulation,
         resetAtRaceStart |-> c.resetAtRaceStart, finishRace |-> c.finishRace,
         respawns |-> c.respawns, controls |-> c.controls, stunts |-> c.stunts]

IsTick(k) ==
    /\ k = [observe |-> k.observe, target |-> k.target, control |-> k.control]
    /\ IsControl(k.control)

\* What the k-th tick carries.
Carried(k) ==
    /\ IsTick(ticks[k])
    /\ ticks[k].control.clock = k * request.tick
    /\ ticks[k].observe <=> \/ ticks[k].target # 0
                            \/ k * request.tick = ObservationTime(request)
    /\ ticks[k].target \in 0..endpointCursor
    /\ ticks[k].target # 0 => targets[ticks[k].target] = k * request.tick

Matched == {ticks[k].target : k \in DOMAIN ticks} \ {0}

OnGrid ==
    \A i \in DOMAIN targets :
        /\ targets[i] > 0 /\ targets[i] % request.tick = 0
        /\ \A j \in DOMAIN targets : j # i => targets[j] # targets[i]

\* Of targets that are on the grid, the ones that have passed are carried.
Caught == /\ Matched = 1..endpointCursor
          /\ \A i \in (endpointCursor + 1)..Len(targets) : targets[i] > clock

Walk ==
    /\ ~Invalid(request)
    /\ targets = Targets(request) /\ Ordered(targets)
    /\ IsSeq(ticks)
    /\ clock = Len(ticks) * request.tick
    /\ endpointCursor \in 0..Len(targets)
    /\ \A k \in DOMAIN ticks : Carried(k)
    /\ IsFiniteSet(Matched) /\ compared = Cardinality(Matched)
    /\ OnGrid => Caught

IInv ==
    /\ request \in Requests
    /\ result = "unchecked" =>
          clock = 0 /\ endpointCursor = 0 /\ compared = 0 /\ ticks = <<>>
    /\ result = "building" => Walk

LEMMA WalkType ==
    ASSUME request \in Requests, Walk
    PROVE  /\ request.tick \in Nat \ {0} /\ request.trailing \in BOOLEAN
           /\ targets \in Seq(Nat) /\ Len(targets) \in Nat \ {0}
           /\ Len(ticks) \in Nat /\ DOMAIN ticks = 1..Len(ticks)
           /\ clock \in Nat /\ endpointCursor \in Nat
           /\ ObservationTime(request) \in Int
           /\ FinalTime(request, targets) \in Int
           /\ targets[Len(targets)] <= FinalTime(request, targets)
           /\ ObservationTime(request) <= FinalTime(request, targets)
<1>1. /\ request.tick \in Nat \ {0} /\ request.trailing \in BOOLEAN
      /\ targets \in Seq(Nat) /\ Len(targets) \in Nat \ {0}
  BY RequestType, TargetType DEF Walk
<1>2. Len(ticks) \in Nat /\ DOMAIN ticks = 1..Len(ticks)
  BY DEF Walk, IsSeq
<1>3. clock \in Nat /\ endpointCursor \in Nat
  BY <1>1, <1>2 DEF Walk
<1>4. ObservationTime(request) \in Int
  BY RequestType DEF ObservationTime, NoTime
<1>5. targets[Len(targets)] \in Nat
  BY <1>1
<1> QED
  BY <1>1, <1>2, <1>3, <1>4, <1>5 DEF FinalTime, Later

\* The targets that a tick skips are earlier, and the one it looks at is not,
\* unless it is the last.
LEMMA EndpointFacts ==
    ASSUME request \in Requests, Walk, NEW t \in Nat
    PROVE  /\ Endpoint(t) \in endpointCursor..Len(targets)
           /\ \A i \in (endpointCursor + 1)..Endpoint(t) : targets[i] < t
<1> DEFINE skipped == {i \in (endpointCursor + 1)..(Len(targets) - 1) :
                          \A j \in (endpointCursor + 1)..i : targets[j] < t}
           n == Cardinality(skipped)
<1>1. endpointCursor \in 0..Len(targets) /\ Len(targets) \in Nat \ {0}
  BY WalkType DEF Walk
<1>2. n \in Nat /\ skipped = (endpointCursor + 1)..(endpointCursor + n)
  <2>1. \A i \in skipped : \A j \in (endpointCursor + 1)..i : j \in skipped
    BY <1>1
  <2>2. skipped \in SUBSET ((endpointCursor + 1)..(Len(targets) - 1))
    OBVIOUS
  <2>3. endpointCursor \in Nat /\ Len(targets) - 1 \in Nat
    BY <1>1
  <2> HIDE DEF skipped
  <2> QED
    BY <2>1, <2>2, <2>3, FirstOnes
<1>3. Endpoint(t) = endpointCursor + n
  BY DEF Endpoint
<1>4. \A i \in skipped : i <= Len(targets) /\ targets[i] < t
  BY <1>1
<1> HIDE DEF skipped, n
<1>5. endpointCursor + n <= Len(targets)
  <2>1. n = 0 \/ endpointCursor + n \in skipped
    BY <1>1, <1>2
  <2> QED
    BY <1>1, <1>2, <1>4, <2>1
<1> QED
  BY <1>1, <1>2, <1>3, <1>4, <1>5

-----------------------------------------------------------------------------
(* One turn of the loop.                                                   *)

LEMMA TurnTime ==
    ASSUME request \in Requests, Walk, BuildTick
    PROVE  LET t == clock + request.tick
           IN /\ t \in Nat /\ t > clock /\ t = (Len(ticks) + 1) * request.tick
              /\ clock' = t
              /\ UNCHANGED <<request, inputs, events, result, targets>>
              /\ ticks' = Append(ticks, MakeTick(t, Sampled(t)))
              /\ endpointCursor' = Endpoint(t) + IF Matches(t) THEN 1 ELSE 0
              /\ compared' = compared + IF Matches(t) THEN 1 ELSE 0
<1>1. request.tick \in Nat \ {0} /\ clock \in Nat /\ Len(ticks) \in Nat
  BY WalkType
<1>2. clock + request.tick = (Len(ticks) + 1) * request.tick
  BY <1>1, TicksAscend DEF Walk
<1> QED
  BY <1>1, <1>2 DEF BuildTick

LEMMA TurnTicks ==
    ASSUME request \in Requests, Walk, BuildTick
    PROVE  LET t == clock + request.tick
               k == Len(ticks) + 1
           IN /\ IsSeq(ticks') /\ Len(ticks') = k
              /\ DOMAIN ticks' = 1..k
              /\ \A j \in 1..Len(ticks) : ticks'[j] = ticks[j]
              /\ IsTick(ticks'[k])
              /\ ticks'[k].control.clock = t
              /\ ticks'[k].target = IF Matches(t) THEN Endpoint(t) + 1 ELSE 0
              /\ ticks'[k].observe <=> Matches(t) \/ t = ObservationTime(request)
<1> DEFINE t == clock + request.tick
           m == MakeTick(t, Sampled(t))
<1>1. ticks' = Append(ticks, m)
  BY TurnTime
<1>2. /\ IsTick(m) /\ m.control.clock = t
      /\ m.target = IF Matches(t) THEN Endpoint(t) + 1 ELSE 0
      /\ m.observe <=> Matches(t) \/ t = ObservationTime(request)
  <2> DEFINE s == Sampled(t)
  <2> HIDE DEF s
  <2>1. m = MakeTick(t, s)
    BY DEF s
  <2> QED
    BY <2>1 DEF MakeTick, IsTick, IsControl
<1>3. IsSeq(ticks)
  BY DEF Walk
<1> HIDE DEF m, t
<1> QED
  BY <1>1, <1>2, <1>3, AppendTo DEF t

\* A tick either takes the target it looks at or none.
LEMMA TurnMatched ==
    ASSUME request \in Requests, Walk, BuildTick
    PROVE  LET t == clock + request.tick
           IN /\ Matches(t) => /\ Endpoint(t) + 1 \in 1..Len(targets)
                               /\ targets[Endpoint(t) + 1] = t
                               /\ Matched' = Matched \cup {Endpoint(t) + 1}
                               /\ endpointCursor' = Endpoint(t) + 1
                               /\ compared' = compared + 1
              /\ ~Matches(t) => /\ Matched' = Matched
                                /\ endpointCursor' = Endpoint(t)
                                /\ compared' = compared
<1> DEFINE t == clock + request.tick
           k == Len(ticks) + 1
<1>1. Len(ticks) \in Nat /\ DOMAIN ticks = 1..Len(ticks)
  BY WalkType
<1>2. DOMAIN ticks' = 1..Len(ticks) \cup {k} /\ \A j \in 1..Len(ticks) : ticks'[j] = ticks[j]
  BY <1>1, TurnTicks
<1>3. Matched' = ({ticks[j].target : j \in 1..Len(ticks)} \cup {ticks'[k].target}) \ {0}
  BY <1>2 DEF Matched
<1>4. Endpoint(t) \in Nat /\ Endpoint(t) <= Len(targets) /\ Len(targets) \in Nat
  <2>1. Endpoint(t) \in endpointCursor..Len(targets)
    BY TurnTime, EndpointFacts
  <2>2. endpointCursor \in Nat /\ Len(targets) \in Nat
    BY WalkType
  <2> QED
    BY <2>1, <2>2
<1>5. ticks'[k].target = IF Matches(t) THEN Endpoint(t) + 1 ELSE 0
  BY TurnTicks
<1>6. /\ endpointCursor' = Endpoint(t) + IF Matches(t) THEN 1 ELSE 0
      /\ compared' = compared + IF Matches(t) THEN 1 ELSE 0
  BY TurnTime
<1>7. Matches(t) => Endpoint(t) < Len(targets) /\ targets[Endpoint(t) + 1] = t
  BY DEF Matches
<1>8. compared \in Nat
  BY FS_CardinalityType DEF Walk
<1> HIDE DEF t, k
<1>9. Matched = {ticks[j].target : j \in 1..Len(ticks)} \ {0}
  BY <1>1 DEF Matched
<1>10. CASE Matches(t)
  <2>1. Endpoint(t) + 1 # 0
    BY <1>4
  <2>2. Matched' = Matched \cup {Endpoint(t) + 1}
    BY <1>3, <1>5, <1>9, <1>10, <2>1
  <2> QED
    BY <1>4, <1>6, <1>7, <1>10, <2>2 DEF t
<1>11. CASE ~Matches(t)
  <2>1. Matched' = Matched
    BY <1>3, <1>5, <1>9, <1>11
  <2> QED
    BY <1>4, <1>6, <1>8, <1>11, <2>1 DEF t
<1> QED
  BY <1>10, <1>11

LEMMA TurnCarries ==
    ASSUME request \in Requests, Walk, BuildTick
    PROVE  /\ endpointCursor' \in 0..Len(targets)
           /\ \A k \in DOMAIN ticks' : Carried(k)'
<1> DEFINE t == clock + request.tick
<1>1. /\ Len(ticks) \in Nat /\ endpointCursor \in Nat /\ Len(targets) \in Nat
      /\ DOMAIN ticks = 1..Len(ticks)
  BY WalkType
<1>2. t = (Len(ticks) + 1) * request.tick /\ UNCHANGED <<request, targets>>
  BY TurnTime
<1>3. Endpoint(t) \in endpointCursor..Len(targets)
  BY TurnTime, EndpointFacts
<1>4. /\ endpointCursor' = Endpoint(t) + IF Matches(t) THEN 1 ELSE 0
      /\ Matches(t) => Endpoint(t) + 1 \in 1..Len(targets) /\ targets[Endpoint(t) + 1] = t
  BY TurnTime, TurnMatched
<1>5. endpointCursor' \in endpointCursor..Len(targets)
  BY <1>1, <1>3, <1>4
<1>6. ASSUME NEW k \in 1..Len(ticks) PROVE Carried(k)'
  <2>1. ticks'[k] = ticks[k] /\ Carried(k)
    BY <1>1, TurnTicks DEF Walk
  <2>2. ObservationTime(request)' = ObservationTime(request)
    BY <1>2
  <2> QED
    BY <1>1, <1>2, <1>5, <2>1, <2>2 DEF Carried
<1>7. ASSUME NEW k, k = Len(ticks) + 1 PROVE Carried(k)'
  <2>1. /\ IsTick(ticks'[k]) /\ ticks'[k].control.clock = t
        /\ ticks'[k].target = IF Matches(t) THEN Endpoint(t) + 1 ELSE 0
        /\ ticks'[k].observe <=> Matches(t) \/ t = ObservationTime(request)
    BY <1>7, TurnTicks
  <2>2. ObservationTime(request)' = ObservationTime(request)
    BY <1>2
  <2>3. t = k * request.tick /\ t = k * request'.tick
    BY <1>2, <1>7
  <2> HIDE DEF t
  <2>4. CASE Matches(t)
    <3>1. ticks'[k].target = Endpoint(t) + 1 /\ Endpoint(t) + 1 # 0
      BY <1>1, <1>3, <2>1, <2>4
    <3> QED
      BY <1>1, <1>2, <1>3, <1>4, <2>1, <2>2, <2>3, <2>4, <3>1 DEF Carried
  <2>5. CASE ~Matches(t)
    BY <1>1, <1>2, <1>3, <1>4, <2>1, <2>2, <2>3, <2>5 DEF Carried
  <2> QED
    BY <2>4, <2>5
<1>8. DOMAIN ticks' = 1..(Len(ticks) + 1)
  BY TurnTicks
<1> QED
  BY <1>1, <1>5, <1>6, <1>7, <1>8

\* A target on the grid that has not passed is no earlier than the next tick.
LEMMA NextOnGrid ==
    ASSUME NEW tick \in Nat \ {0}, NEW n \in Nat,
           NEW u \in Nat, u % tick = 0, u > n * tick
    PROVE  u >= (n + 1) * tick
<1> DEFINE m == u \div tick
<1>1. m \in Nat /\ u = m * tick
  BY OnTicks
<1> HIDE DEF m
<1>2. m > n
  BY <1>1, TicksAscend
<1>3. m = n + 1 \/ (n + 1 \in Nat /\ n + 1 < m)
  BY <1>1, <1>2
<1>4. (n + 1) * tick \in Nat /\ n + 1 \in Nat
  BY TicksAscend
<1>5. n + 1 < m => (n + 1) * tick < m * tick
  BY <1>1, <1>4, TicksAscend
<1> QED
  BY <1>1, <1>3, <1>4, <1>5

LEMMA TurnCatches ==
    ASSUME request \in Requests, Walk, BuildTick, OnGrid
    PROVE  Caught'
<1> DEFINE t == clock + request.tick
<1>1. /\ Len(ticks) \in Nat /\ endpointCursor \in Nat /\ Len(targets) \in Nat \ {0}
      /\ targets \in Seq(Nat) /\ request.tick \in Nat \ {0}
      /\ clock \in Nat /\ clock = Len(ticks) * request.tick
  BY WalkType DEF Walk
<1>2. /\ t \in Nat /\ t = (Len(ticks) + 1) * request.tick /\ UNCHANGED <<request, targets>>
      /\ clock' = t /\ t > clock
  BY TurnTime
<1>3. Endpoint(t) \in endpointCursor..Len(targets)
  BY TurnTime, EndpointFacts
<1>4. /\ Matched = 1..endpointCursor
      /\ \A i \in (endpointCursor + 1)..Len(targets) : targets[i] > clock
  BY DEF Caught, Walk
<1>5. ASSUME NEW i \in (endpointCursor + 1)..Len(targets)
      PROVE  targets[i] >= t /\ targets[i] \in Nat
  <2>1. i \in DOMAIN targets /\ targets[i] \in Nat /\ targets[i] % request.tick = 0
    BY <1>1 DEF OnGrid
  <2>2. targets[i] > Len(ticks) * request.tick
    BY <1>1, <1>4
  <2>3. targets[i] >= t
    BY <1>1, <1>2, <2>1, <2>2, NextOnGrid
  <2> QED
    BY <2>1, <2>3
<1>6. Endpoint(t) = endpointCursor
  <2>1. \A i \in (endpointCursor + 1)..Endpoint(t) : targets[i] < t
    BY <1>2, EndpointFacts
  <2>2. ASSUME Endpoint(t) > endpointCursor PROVE FALSE
    <3>1. endpointCursor + 1 \in (endpointCursor + 1)..Endpoint(t)
      BY <1>1, <1>3, <2>2
    <3>2. endpointCursor + 1 \in (endpointCursor + 1)..Len(targets)
      BY <1>1, <1>3, <2>2
    <3>3. targets[endpointCursor + 1] \in Nat
      BY <1>1, <3>2
    <3> QED
      BY <1>2, <1>5, <2>1, <3>1, <3>2, <3>3
  <2> QED
    BY <1>1, <1>3, <2>2
<1>7. /\ Matches(t) => /\ endpointCursor' = endpointCursor + 1
                       /\ endpointCursor + 1 \in 1..Len(targets)
                       /\ targets[endpointCursor + 1] = t
                       /\ Matched' = Matched \cup {endpointCursor + 1}
      /\ ~Matches(t) => endpointCursor' = endpointCursor /\ Matched' = Matched
  BY <1>6, TurnMatched
<1> HIDE DEF t
<1>8. CASE Matches(t)
  <2>1. Matched' = 1..endpointCursor'
    <3>1. \A c \in Nat : 1..c \cup {c + 1} = 1..(c + 1)
      OBVIOUS
    <3> QED
      BY <1>1, <1>4, <1>7, <1>8, <3>1, Zenon
  <2>2. ASSUME NEW i \in (endpointCursor + 2)..Len(targets) PROVE targets[i] > t
    <3>1. targets[i] >= t /\ targets[i] \in Nat
      <4>1. i \in (endpointCursor + 1)..Len(targets)
        BY <1>1
      <4> QED
        BY <1>5, <4>1
    <3>2. targets[i] # targets[endpointCursor + 1]
      BY <1>1, <1>7, <1>8 DEF OnGrid
    <3> QED
      BY <1>2, <1>7, <1>8, <3>1, <3>2
  <2>3. endpointCursor' + 1 = endpointCursor + 2
    BY <1>1, <1>7, <1>8
  <2> QED
    BY <1>2, <2>1, <2>2, <2>3 DEF Caught
<1>9. CASE ~Matches(t)
  <2>1. Matched' = 1..endpointCursor'
    BY <1>4, <1>7, <1>9
  <2>2. ASSUME NEW i \in (endpointCursor + 1)..Len(targets) PROVE targets[i] > t
    <3>1. targets[i] >= t /\ targets[i] \in Nat
      <4>1. i \in (endpointCursor + 1)..Len(targets)
        BY <1>1
      <4> QED
        BY <1>5, <4>1
    <3>2. targets[endpointCursor + 1] # t
      BY <1>1, <1>6, <1>9 DEF Matches
    <3>3. targets[endpointCursor + 1] >= t /\ targets[endpointCursor + 1] \in Nat
      <4>1. endpointCursor + 1 \in (endpointCursor + 1)..Len(targets)
        BY <1>1
      <4> HIDE DEF t
      <4> QED
        BY <1>5, <4>1
    <3>4. targets[endpointCursor + 1] <= targets[i]
      <4>1. endpointCursor + 1 \in 1..Len(targets) /\ i \in (endpointCursor + 1)..Len(targets)
        BY <1>1
      <4> QED
        BY <1>1, <4>1, TargetsAscend DEF Walk
    <3> QED
      BY <1>2, <3>1, <3>2, <3>3, <3>4
  <2> QED
    BY <1>2, <1>7, <1>9, <2>1, <2>2 DEF Caught
<1> QED
  BY <1>8, <1>9

LEMMA TurnWalk ==
    ASSUME request \in Requests, Walk, BuildTick
    PROVE  Walk'
<1> DEFINE t == clock + request.tick
<1>1. /\ UNCHANGED <<request, inputs, events, result, targets>>
      /\ clock' = t /\ t = (Len(ticks) + 1) * request.tick
  BY TurnTime
<1>2. /\ IsSeq(ticks') /\ Len(ticks') = Len(ticks) + 1
  BY TurnTicks
<1>3. IsFiniteSet(Matched') /\ compared' = Cardinality(Matched')
  <2>1. CASE Matches(t)
    <3>1. Matched' = Matched \cup {Endpoint(t) + 1} /\ compared' = compared + 1
      BY <2>1, TurnMatched
    <3>2. Endpoint(t) + 1 \notin Matched
      <4>1. Endpoint(t) \in endpointCursor..Len(targets)
        BY TurnTime, EndpointFacts
      <4>2. endpointCursor \in Nat /\ Len(targets) \in Nat
        BY WalkType
      <4>3. \A i \in Matched : i <= endpointCursor
        BY <4>2 DEF Walk, Carried, Matched
      <4> QED
        BY <4>1, <4>2, <4>3
    <3> QED
      BY <3>1, <3>2, FS_AddElement DEF Walk
  <2>2. CASE ~Matches(t)
    BY <2>2, TurnMatched DEF Walk
  <2> QED
    BY <2>1, <2>2
<1>4. OnGrid' => OnGrid
  BY <1>1 DEF OnGrid
<1>5. ~Invalid(request') /\ targets' = Targets(request') /\ Ordered(targets')
  BY <1>1 DEF Walk
<1>6. endpointCursor' \in 0..Len(targets') /\ \A k \in DOMAIN ticks' : Carried(k)'
  BY <1>1, TurnCarries
<1>7. clock' = Len(ticks') * request'.tick
  BY <1>1, <1>2
<1> QED
  BY <1>2, <1>3, <1>4, <1>5, <1>6, <1>7, TurnCatches DEF Walk

-----------------------------------------------------------------------------
(* The end of the walk.                                                    *)

\* The last target is on a tick that has been made.
LEMMA AllPassed ==
    ASSUME request \in Requests, Walk, clock + request.tick > FinalTime(request, targets),
           NEW u \in Nat, u <= FinalTime(request, targets), u % request.tick = 0
    PROVE  u <= clock
<1>1. /\ request.tick \in Nat \ {0} /\ Len(ticks) \in Nat
      /\ clock \in Nat /\ clock = Len(ticks) * request.tick
      /\ FinalTime(request, targets) \in Int
  BY WalkType DEF Walk
<1>2. u > clock => u >= (Len(ticks) + 1) * request.tick
  BY <1>1, NextOnGrid
<1>3. (Len(ticks) + 1) * request.tick = clock + request.tick
  BY <1>1, TicksAscend
<1> QED
  BY <1>1, <1>2, <1>3

LEMMA AllMatched ==
    ASSUME request \in Requests, Walk, clock + request.tick > FinalTime(request, targets)
    PROVE  /\ Matched \subseteq 1..Len(targets)
           /\ OnGrid => Matched = 1..Len(targets)
           /\ compared = Len(targets) <=> Matched = 1..Len(targets)
           /\ OnGrid => ticks # <<>>
<1>1. /\ Len(targets) \in Nat \ {0} /\ endpointCursor \in 0..Len(targets)
      /\ targets \in Seq(Nat) /\ clock \in Nat /\ Len(ticks) \in Nat
      /\ DOMAIN ticks = 1..Len(ticks)
  BY WalkType DEF Walk
<1>2. Matched \subseteq 1..Len(targets)
  <2>1. ASSUME NEW i \in Matched PROVE i \in 1..Len(targets)
    <3>1. PICK k \in DOMAIN ticks : i = ticks[k].target /\ i # 0
      BY DEF Matched
    <3>2. i \in 0..endpointCursor
      BY <3>1 DEF Walk, Carried
    <3> QED
      BY <1>1, <3>1, <3>2
  <2> QED
    BY <2>1
<1>3. ASSUME OnGrid PROVE Matched = 1..Len(targets) /\ ticks # <<>>
  <2>1. targets[Len(targets)] \in Nat /\ Len(targets) \in DOMAIN targets
    BY <1>1
  <2>2. targets[Len(targets)] % request.tick = 0 /\ targets[Len(targets)] > 0
    BY <1>3, <2>1 DEF OnGrid
  <2>3. targets[Len(targets)] <= clock
    BY <2>1, <2>2, WalkType, AllPassed
  <2>4. endpointCursor = Len(targets)
    <3>1. endpointCursor < Len(targets)
            => Len(targets) \in (endpointCursor + 1)..Len(targets)
      BY <1>1
    <3>2. endpointCursor < Len(targets) => targets[Len(targets)] > clock
      BY <1>3, <3>1 DEF Walk, Caught
    <3> QED
      BY <1>1, <2>1, <2>3, <3>2
  <2>5. Len(ticks) # 0
    BY <2>1, <2>2, <2>3, WalkType DEF Walk
  <2> QED
    BY <1>3, <2>4, <2>5 DEF Walk, Caught
<1>4. IsFiniteSet(1..Len(targets)) /\ Cardinality(1..Len(targets)) = Len(targets)
  <2>1. /\ IsFiniteSet(1..Len(targets))
        /\ Cardinality(1..Len(targets))
             = IF 1 > Len(targets) THEN 0 ELSE Len(targets) - 1 + 1
    BY <1>1, FS_Interval
  <2> QED
    BY <1>1, <2>1
<1>5. ASSUME compared = Len(targets) PROVE Matched = 1..Len(targets)
  <2> DEFINE all == 1..Len(targets)
  <2>1. Cardinality(all \ Matched) = Cardinality(all) - Cardinality(all \cap Matched)
    BY <1>4, FS_Difference
  <2>2. all \cap Matched = Matched
    BY <1>2
  <2>3. IsFiniteSet(all \ Matched)
    BY <1>4, FS_Difference
  <2> HIDE DEF all
  <2>4. Cardinality(all \ Matched) = 0
    <3>1. Cardinality(all) = Len(targets)
      BY <1>4 DEF all
    <3>2. Cardinality(Matched) = Len(targets)
      BY <1>5 DEF Walk
    <3>3. Cardinality(all \ Matched) = Len(targets) - Len(targets)
      BY <2>1, <2>2, <3>1, <3>2, Zenon
    <3> QED
      BY <1>1, <3>3
  <2>5. all \ Matched = {}
    BY <2>3, <2>4, FS_EmptySet
  <2> QED
    BY <1>2, <2>5 DEF all
<1>6. Matched = 1..Len(targets) => compared = Len(targets)
  BY <1>4 DEF Walk
<1> QED
  BY <1>2, <1>3, <1>5, <1>6

LEMMA MatchedOnGrid ==
    ASSUME request \in Requests, Walk, Matched = 1..Len(targets)
    PROVE  OnGrid
<1>1. /\ Len(targets) \in Nat \ {0} /\ targets \in Seq(Nat)
      /\ request.tick \in Nat \ {0} /\ DOMAIN ticks = 1..Len(ticks) /\ Len(ticks) \in Nat
      /\ DOMAIN targets = 1..Len(targets)
  BY WalkType
<1>2. ASSUME NEW i \in DOMAIN targets
      PROVE  \E k \in DOMAIN ticks : /\ ticks[k].target = i
                                     /\ targets[i] = k * request.tick
  <2>1. i \in Matched /\ i # 0
    BY <1>1
  <2> QED
    BY <2>1 DEF Matched, Walk, Carried
<1>3. ASSUME NEW i \in DOMAIN targets
      PROVE  targets[i] > 0 /\ targets[i] % request.tick = 0
  <2>1. PICK k \in 1..Len(ticks) : targets[i] = k * request.tick
    BY <1>1, <1>2
  <2>2. k \in Nat /\ 0 < k
    BY <1>1
  <2>3. 0 * request.tick < k * request.tick
    BY <1>1, <2>2, TicksAscend
  <2>4. (k * request.tick) % request.tick = 0
    BY <1>1, <2>2, TicksDivide
  <2> QED
    BY <1>1, <2>1, <2>3, <2>4
<1>4. ASSUME NEW i \in DOMAIN targets, NEW j \in DOMAIN targets, j # i
      PROVE  targets[j] # targets[i]
  <2>1. PICK k \in 1..Len(ticks) : ticks[k].target = i /\ targets[i] = k * request.tick
    BY <1>1, <1>2
  <2>2. PICK l \in 1..Len(ticks) : ticks[l].target = j /\ targets[j] = l * request.tick
    BY <1>1, <1>2
  <2>3. k \in Nat /\ l \in Nat /\ k # l
    BY <1>1, <1>4, <2>1, <2>2
  <2>4. k * request.tick # l * request.tick
    BY <1>1, <2>3, TicksAscend
  <2> QED
    BY <2>1, <2>2, <2>4
<1> QED
  BY <1>3, <1>4 DEF OnGrid

\* The plan that is returned: the walk's, and a tick that carries nothing.
LEMMA ReturnedTicks ==
    ASSUME request \in Requests, Walk, FinishPlan
    PROVE  /\ DOMAIN ticks \subseteq DOMAIN ticks'
           /\ \A k \in DOMAIN ticks : ticks'[k] = ticks[k]
           /\ \A k \in DOMAIN ticks' \ DOMAIN ticks :
                 ticks'[k].target = 0 /\ ticks'[k].observe = FALSE
<1>1. Len(ticks) \in Nat /\ DOMAIN ticks = 1..Len(ticks) /\ IsSeq(ticks)
  BY WalkType DEF Walk
<1>2. CASE ticks' = ticks
  BY <1>2
<1>3. CASE ticks' # ticks
  <2> DEFINE last == ticks[Len(ticks)]
             more == Trailing(last)
  <2>1. ticks' = Append(ticks, more) /\ ticks # <<>>
    BY <1>3 DEF FinishPlan
  <2>2. Len(ticks) \in DOMAIN ticks
    BY <1>1, <2>1 DEF IsSeq
  <2>3. IsTick(last)
    BY <2>2 DEF Walk, Carried
  <2>4. more.target = 0 /\ more.observe = FALSE
    <3> HIDE DEF last
    <3> QED
      BY <2>3 DEF Trailing, IsTick
  <2> HIDE DEF more
  <2>5. /\ DOMAIN ticks' = 1..(Len(ticks) + 1)
        /\ \A k \in 1..Len(ticks) : ticks'[k] = ticks[k]
        /\ ticks'[Len(ticks) + 1] = more
    BY <1>1, <2>1, AppendTo
  <2>6. \A k \in DOMAIN ticks' \ DOMAIN ticks : k = Len(ticks) + 1
    BY <1>1, <2>5
  <2> QED
    BY <1>1, <2>4, <2>5, <2>6
<1> QED
  BY <1>2, <1>3

LEMMA FinishStep ==
    ASSUME request \in Requests, Walk, FinishPlan
    PROVE  TargetsComparedExactly'
<1> DEFINE end == ObservationTime(request)
           observed == {k \in DOMAIN ticks' : ticks'[k].observe}
<1>1. UNCHANGED <<request, targets>> /\ clock + request.tick > FinalTime(request, targets)
  BY DEF FinishPlan
<1>2. /\ request.tick \in Nat \ {0} /\ DOMAIN ticks = 1..Len(ticks) /\ Len(ticks) \in Nat
      /\ DOMAIN targets = 1..Len(targets) /\ Len(targets) \in Nat \ {0}
      /\ targets \in Seq(Nat) /\ clock = Len(ticks) * request.tick /\ end \in Int
      /\ end <= FinalTime(request, targets)
  BY WalkType DEF Walk
<1>3. (result' = "Success") = OnGrid
  <2>1. compared = Len(targets) <=> OnGrid
    BY <1>1, AllMatched, MatchedOnGrid
  <2>2. OnGrid => ticks # <<>>
    BY <1>1, AllMatched
  <2>3. result' = "Success" <=> compared = Len(targets) /\ ~(request.trailing /\ ticks = <<>>)
    BY DEF FinishPlan
  <2> QED
    BY <2>1, <2>2, <2>3
<1>4. ASSUME OnGrid, NEW i \in DOMAIN targets
      PROVE  {k \in DOMAIN ticks' : ticks'[k].target = i} = {targets[i] \div request.tick}
  <2>1. i \in Matched /\ i # 0
    BY <1>1, <1>2, <1>4, AllMatched
  <2>2. PICK l \in DOMAIN ticks : ticks[l].target = i
    BY <2>1 DEF Matched
  <2>3. ASSUME NEW k \in DOMAIN ticks, ticks[k].target = i
        PROVE  k = targets[i] \div request.tick
    <3>1. k \in Nat /\ targets[i] = k * request.tick
      <4>1. Carried(k)
        BY DEF Walk
      <4> QED
        BY <1>2, <2>1, <2>3, <4>1 DEF Carried
    <3> QED
      BY <1>2, <3>1, TicksDivide
  <2>4. \A k \in DOMAIN ticks' : ticks'[k].target = i
          => k \in DOMAIN ticks /\ ticks[k].target = i
    BY <2>1, ReturnedTicks
  <2>5. l \in DOMAIN ticks' /\ ticks'[l].target = i
    BY <2>2, ReturnedTicks
  <2>6. \A k \in DOMAIN ticks' : ticks'[k].target = i => k = targets[i] \div request.tick
    BY <2>3, <2>4
  <2>7. l = targets[i] \div request.tick
    BY <2>2, <2>3
  <2> QED
    BY <2>5, <2>6, <2>7
<1>5. end > 0 /\ end % request.tick = 0 => end \div request.tick \in observed
  <2> SUFFICES ASSUME end > 0, end % request.tick = 0
               PROVE  end \div request.tick \in observed
    OBVIOUS
  <2> DEFINE k == end \div request.tick
  <2>1. end \in Nat /\ k \in Nat /\ end = k * request.tick /\ k > 0
    <3> HIDE DEF end
    <3>1. end \in Nat
      BY <1>2
    <3> QED
      BY <1>2, <3>1, OnTicks
  <2>2. end <= clock
    BY <1>1, <1>2, <2>1, AllPassed
  <2> HIDE DEF k
  <2>3. k <= Len(ticks)
    <3>1. Len(ticks) < k => Len(ticks) * request.tick < k * request.tick
      BY <1>2, <2>1, TicksAscend
    <3>2. Len(ticks) * request.tick \in Nat /\ k * request.tick \in Nat
      BY <1>2, <2>1, TicksAscend
    <3> QED
      BY <1>2, <2>1, <2>2, <3>1, <3>2
  <2>4. k \in DOMAIN ticks
    BY <1>2, <2>1, <2>3
  <2>5. ticks[k].observe
    BY <2>1, <2>4 DEF Walk, Carried
  <2> QED
    BY <2>4, <2>5, ReturnedTicks DEF k
<1>6. ASSUME NEW k \in observed
      PROVE  ticks'[k].target # 0 \/ ticks'[k].control.clock = end
  <2>1. k \in DOMAIN ticks /\ ticks[k].observe /\ ticks'[k] = ticks[k]
    BY ReturnedTicks
  <2> QED
    BY <2>1 DEF Walk, Carried
<1>7. ObservationTime(request)' = end
  BY <1>1
<1>8. OnGrid' = OnGrid
  BY <1>1 DEF OnGrid
<1> HIDE DEF end, observed
<1> QED
  BY <1>1, <1>3, <1>4, <1>5, <1>6, <1>7, <1>8
  DEF TargetsComparedExactly, OnGrid, observed

-----------------------------------------------------------------------------
LEMMA IInvInit == Init => IInv
  BY DEF Init, IInv

LEMMA CheckedWalk ==
    ASSUME IInv, CheckRequest, result' = "building"
    PROVE  Walk'
<1>1. /\ ~Invalid(request) /\ targets' = Targets(request) /\ Ordered(targets')
      /\ request' = request /\ UntouchedPlan
      /\ clock = 0 /\ endpointCursor = 0 /\ compared = 0 /\ ticks = <<>>
  BY DEF CheckRequest, IInv
<1>2. /\ clock' = 0 /\ endpointCursor' = 0 /\ compared' = 0 /\ ticks' = <<>>
  BY <1>1 DEF UntouchedPlan
<1>3. /\ request.tick \in Nat \ {0} /\ targets' \in Seq(Nat) /\ Len(targets') \in Nat
  BY <1>1, TargetType DEF IInv
<1>4. IsSeq(ticks') /\ Len(ticks') = 0 /\ DOMAIN ticks' = {}
  BY <1>2 DEF IsSeq
<1>5. Matched' = {}
  BY <1>4 DEF Matched
<1>6. IsFiniteSet(Matched') /\ compared' = Cardinality(Matched')
  BY <1>2, <1>5, FS_EmptySet
<1>7. ASSUME OnGrid' PROVE Caught'
  <2>1. \A i \in 1..Len(targets') : targets'[i] > 0
    BY <1>3, <1>7 DEF OnGrid
  <2> QED
    BY <1>2, <1>5, <2>1 DEF Caught
<1>8. clock' = Len(ticks') * request'.tick
  BY <1>1, <1>2, <1>3, <1>4
<1> QED
  BY <1>1, <1>2, <1>3, <1>4, <1>6, <1>7, <1>8 DEF Walk

LEMMA NextStep ==
    ASSUME IInv, TargetsComparedExactly, [Next]_vars
    PROVE  IInv' /\ TargetsComparedExactly'
<1>1. CASE CheckRequest
  <2>1. request' = request /\ result' # "unchecked"
    BY <1>1 DEF CheckRequest
  <2>2. result' \notin {"Success", "MissingComparisonTarget"}
    BY <1>1 DEF CheckRequest
  <2> QED
    BY <1>1, <2>1, <2>2, CheckedWalk DEF IInv, TargetsComparedExactly
<1>2. CASE BuildTick
  <2>1. /\ result = "building" /\ Walk /\ UNCHANGED <<request, result>>
    BY <1>2 DEF BuildTick, IInv
  <2> QED
    BY <1>2, <2>1, TurnWalk DEF IInv, TargetsComparedExactly
<1>3. CASE FinishPlan
  <2>1. /\ result = "building" /\ Walk /\ request' = request
        /\ result' \in {"Success", "MissingComparisonTarget"}
    BY <1>3 DEF FinishPlan, IInv
  <2> QED
    BY <1>3, <2>1, FinishStep DEF IInv
<1>4. CASE RunOutOfMemory
  BY <1>4 DEF RunOutOfMemory, IInv, TargetsComparedExactly
<1>5. CASE UNCHANGED vars
  <2>1. Walk' <=> Walk
    BY <1>5 DEF vars, Walk, Caught, OnGrid, Matched, Carried
  <2>2. TargetsComparedExactly' <=> TargetsComparedExactly
    BY <1>5 DEF vars, TargetsComparedExactly
  <2> QED
    BY <1>5, <2>1, <2>2 DEF vars, IInv
<1> QED
  BY <1>1, <1>2, <1>3, <1>4, <1>5 DEF Next

(* A finished build reports success exactly when each target falls on a    *)
(* tick of its own; then that tick, and no other, carries it, and nothing  *)
(* else but the recorded end is observed.                                  *)
THEOREM TargetsAreComparedExactly == Spec => []TargetsComparedExactly
<1>1. Init => IInv /\ TargetsComparedExactly
  BY IInvInit DEF Init, TargetsComparedExactly
<1>2. IInv /\ TargetsComparedExactly /\ [Next]_vars => IInv' /\ TargetsComparedExactly'
  BY NextStep
<1> QED
  BY <1>1, <1>2, PTL DEF Spec

-----------------------------------------------------------------------------
(* The list of events, and the times and places it is made from.           *)

Timed == [time : Times, action : Actions, value : Int]

At(in, u, k) == [time |-> u, action |-> in[u][k].action, value |-> in[u][k].value]

\* The rows that are flattened.
Rows(in) == [i \in 1..(MaxTime + 1) |-> [k \in DOMAIN in[i - 1] |-> At(in, i - 1, k)]]

LEMMA RowsType ==
    ASSUME NEW in \in Inputs
    PROVE  /\ Rows(in) \in [1..(MaxTime + 1) -> Seq(Timed)]
           /\ Rows(in) \in Seq(Seq(Timed)) /\ Len(Rows(in)) = MaxTime + 1
           /\ \A u \in Times :
                /\ in[u] \in Seq(Event) /\ DOMAIN in[u] = 1..Len(in[u])
                /\ Len(in[u]) \in Nat
                /\ Len(Rows(in)[u + 1]) = Len(in[u])
                /\ \A k \in DOMAIN in[u] : Rows(in)[u + 1][k] = At(in, u, k)
<1>1. MaxTime + 1 \in Nat /\ MaxTime \in Nat
  BY MaxTimeAssumption
<1>2. ASSUME NEW u \in Times
      PROVE  /\ in[u] \in Seq(Event) /\ DOMAIN in[u] = 1..Len(in[u]) /\ Len(in[u]) \in Nat
             /\ [k \in DOMAIN in[u] |-> At(in, u, k)] \in Seq(Timed)
             /\ Len([k \in DOMAIN in[u] |-> At(in, u, k)]) = Len(in[u])
  <2>1. in[u] \in Seq(Event)
    BY DEF Inputs
  <2>2. DOMAIN in[u] = 1..Len(in[u]) /\ Len(in[u]) \in Nat
    BY <2>1
  <2>3. \A k \in 1..Len(in[u]) : At(in, u, k) \in Timed
    <3>1. ASSUME NEW k \in 1..Len(in[u]) PROVE in[u][k] \in Event
      BY <2>1
    <3>2. ASSUME NEW e \in Event
          PROVE  [time |-> u, action |-> e.action, value |-> e.value] \in Timed
      BY DEF Event, Timed
    <3> QED
      BY <3>1, <3>2 DEF At
  <2>4. ASSUME NEW n \in Nat, NEW f \in [1..n -> Timed]
        PROVE  f \in Seq(Timed) /\ Len(f) = n
    OBVIOUS
  <2>5. [k \in DOMAIN in[u] |-> At(in, u, k)] \in [1..Len(in[u]) -> Timed]
    BY <2>2, <2>3
  <2> QED
    BY <2>1, <2>2, <2>4, <2>5, Zenon
<1>3. \A i \in 1..(MaxTime + 1) : i - 1 \in Times
  BY <1>1 DEF Times
<1>4. Rows(in) \in [1..(MaxTime + 1) -> Seq(Timed)]
  BY <1>2, <1>3 DEF Rows
<1>5. ASSUME NEW n \in Nat, NEW f \in [1..n -> Seq(Timed)]
      PROVE  f \in Seq(Seq(Timed)) /\ Len(f) = n
  <2> DEFINE S == Seq(Timed)
  <2>1. f \in [1..n -> S]
    OBVIOUS
  <2> HIDE DEF S
  <2>2. f \in Seq(S) /\ Len(f) = n
    BY <2>1
  <2> QED
    BY <2>2 DEF S
<1>6. ASSUME NEW u \in Times
      PROVE  Rows(in)[u + 1] = [k \in DOMAIN in[u] |-> At(in, u, k)]
  <2>1. u + 1 \in 1..(MaxTime + 1) /\ (u + 1) - 1 = u
    BY <1>1 DEF Times
  <2> QED
    BY <2>1 DEF Rows
<1> QED
  BY <1>1, <1>2, <1>4, <1>5, <1>6

\* Flattening, row by row.
LEMMA FlatRows ==
    ASSUME NEW in \in Inputs
    PROVE  \E f \in [0..(MaxTime + 1) -> Seq(Timed)] :
              /\ f[0] = <<>>
              /\ \A i \in 1..(MaxTime + 1) : f[i] = f[i - 1] \o Rows(in)[i]
              /\ Flat(in) = f[MaxTime + 1]
<1> DEFINE N == MaxTime + 1
           rows == Rows(in)
           X == Seq(Timed)
           step == [i \in 1..N |-> [x \in X |-> x \o rows[i]]]
<1>1. N \in Nat /\ N >= 1
  BY MaxTimeAssumption
<1>2. \A i \in 1..N : rows[i] \in X
  BY RowsType
<1> HIDE DEF rows
<1>3. step \in [1..N -> [X -> X]]
  <2>1. \A i \in 1..N : \A x \in X : x \o rows[i] \in X
    BY <1>2
  <2> QED
    BY <2>1
<1>4. <<>> \in X
  OBVIOUS
<1> HIDE DEF N, X
<1>5. PICK f \in [0..N -> X] : f[0] = <<>> /\ \A i \in 1..N : f[i] = step[i][f[i - 1]]
  <2> DEFINE base == <<>>
  <2>1. base \in X
    BY <1>4
  <2>2. N \in Nat
    BY <1>1
  <2> HIDE DEF step, base
  <2>3. \E f \in [0..N -> X] : f[0] = base /\ \A i \in 1..N : f[i] = step[i][f[i - 1]]
    BY <1>3, <2>1, <2>2, StepByStep
  <2> QED
    BY <2>3 DEF base
<1>6. ASSUME NEW i \in 1..N
      PROVE  i - 1 \in 0..N /\ f[i - 1] \in X /\ f[i] = f[i - 1] \o rows[i]
  <2>1. i - 1 \in 0..N
    BY <1>1
  <2>2. step[i][f[i - 1]] = f[i - 1] \o rows[i]
    BY <2>1
  <2> QED
    BY <1>5, <2>1, <2>2
<1> DEFINE g == [i \in 1..N |-> f[i]]
           Eq(h) == h = [i \in 1..N |-> IF i = 1 THEN rows[i] ELSE h[i - 1] \o rows[i]]
<1>7. Eq(g)
  <2>1. f[1] = rows[1]
    <3>1. f[1] = <<>> \o rows[1]
      <4>1. 1 \in 1..N /\ 1 - 1 = 0
        BY <1>1
      <4>2. f[1] = f[1 - 1] \o rows[1]
        BY <1>6, <4>1
      <4> QED
        BY <1>5, <4>1, <4>2
    <3>2. rows[1] \in Seq(Timed)
      BY <1>1, <1>2 DEF X
    <3>3. ASSUME NEW r \in Seq(Timed) PROVE <<>> \o r = r
      OBVIOUS
    <3> QED
      BY <3>1, <3>2, <3>3
  <2>2. \A i \in 1..N : i # 1 => i - 1 \in 1..N
    BY <1>1
  <2>3. \A i \in 1..N : f[i] = IF i = 1 THEN rows[i] ELSE g[i - 1] \o rows[i]
    BY <1>6, <2>1, <2>2
  <2> QED
    BY <2>3
<1> DEFINE flatten == CHOOSE h : Eq(h)
<1>8. Eq(flatten)
  <2> HIDE DEF Eq, g
  <2> QED
    BY <1>7, Zenon
<1>9. ASSUME NEW m \in 1..N PROVE flatten[m] = f[m]
  <2> DEFINE wrong == {i \in 1..N : flatten[i] # f[i]}
  <2> SUFFICES ASSUME wrong # {} PROVE FALSE
    <3>1. m \in wrong \/ flatten[m] = f[m]
      <4> HIDE DEF flatten
      <4> QED
        OBVIOUS
    <3> QED
      BY <3>1
  <2>1. wrong \in SUBSET Nat
    BY <1>1
  <2>2. PICK i \in wrong : \A j \in wrong : i <= j
    <3> HIDE DEF wrong
    <3> QED
      BY <2>1, Least
  <2>3. i \in 1..N /\ flatten[i] # f[i]
    OBVIOUS
  <2>4. flatten[i] = IF i = 1 THEN rows[i] ELSE flatten[i - 1] \o rows[i]
    <3> HIDE DEF flatten
    <3> QED
      BY <1>8, <2>3
  <2>5. i # 1 => i - 1 \in 1..N /\ i - 1 \notin wrong
    <3>1. i # 1 => i - 1 \in 1..N /\ ~(i <= i - 1)
      BY <1>1, <2>3
    <3> HIDE DEF wrong
    <3> QED
      BY <2>2, <3>1
  <2>6. g[i] = IF i = 1 THEN rows[i] ELSE g[i - 1] \o rows[i]
    <3> HIDE DEF g
    <3> QED
      BY <1>7, <2>3
  <2>7. i # 1 => flatten[i - 1] = f[i - 1]
    BY <2>5
  <2> QED
    BY <2>3, <2>4, <2>5, <2>6, <2>7
<1>10. Flat(in) = flatten[N]
  <2>1. Flat(in) = FlattenSeq(rows)
    BY DEF Flat, rows, Rows, At
  <2>2. Len(rows) = N
    BY RowsType DEF rows, N
  <2>3. FlattenSeq(rows) = flatten[N]
    BY <1>1, <2>2 DEF FlattenSeq
  <2> QED
    BY <2>1, <2>3
<1>11. Flat(in) = f[N]
  BY <1>1, <1>9, <1>10
<1> QED
  BY <1>5, <1>6, <1>11 DEF N, X, rows


(* The place of event k of time u is before[u] + k.                        *)
Laid(before, in, es) ==
    /\ before \in [Times -> Nat] /\ es \in Seq(Timed)
    /\ \A u \in Times : \A k \in DOMAIN in[u] :
          /\ before[u] + k \in 1..Len(es)
          /\ es[before[u] + k] = At(in, u, k)
          /\ \A v \in Times : u < v => before[u] + k <= before[v]
    /\ \A n \in 1..Len(es) :
          \E u \in Times : \E k \in DOMAIN in[u] : n = before[u] + k

LEMMA Layout ==
    ASSUME NEW in \in Inputs
    PROVE  \E before \in [Times -> Nat] : Laid(before, in, Flat(in))
<1> DEFINE N == MaxTime + 1
<1>1. N \in Nat /\ N >= 1 /\ Times = 0..(N - 1)
  BY MaxTimeAssumption DEF Times
<1>2. PICK f \in [0..N -> Seq(Timed)] :
              /\ f[0] = <<>>
              /\ \A i \in 1..N : f[i] = f[i - 1] \o Rows(in)[i]
              /\ Flat(in) = f[N]
  BY FlatRows
<1> DEFINE len == [u \in 0..N |-> Len(f[u])]
           Filled(i) == \A u \in 0..(i - 1) : \A k \in DOMAIN in[u] :
                            len[u] + k <= len[i] /\ f[i][len[u] + k] = At(in, u, k)
           Known(i) == \A n \in 1..len[i] :
                            \E u \in 0..(i - 1) : \E k \in DOMAIN in[u] : n = len[u] + k
<1>3. \A i \in 0..N : f[i] \in Seq(Timed) /\ len[i] = Len(f[i]) /\ len[i] \in Nat
  OBVIOUS
<1>4. ASSUME NEW i \in 0..(N - 1), Filled(i), Known(i)
      PROVE  Filled(i + 1) /\ Known(i + 1)
  <2> DEFINE row == Rows(in)[i + 1]
  <2>1. i \in Times /\ i + 1 \in 1..N /\ i \in 0..N /\ i + 1 \in 0..N /\ (i + 1) - 1 = i
    BY <1>1
  <2>2. /\ row \in Seq(Timed) /\ Len(row) = Len(in[i])
        /\ DOMAIN in[i] = 1..Len(in[i]) /\ Len(in[i]) \in Nat
        /\ \A k \in DOMAIN in[i] : row[k] = At(in, i, k)
    BY <1>1, <2>1, RowsType
  <2> HIDE DEF row
  <2>3. f[i + 1] = f[i] \o row
    BY <1>2, <2>1 DEF row
  <2>4. /\ len[i + 1] = len[i] + Len(row)
        /\ \A n \in 1..len[i] : f[i + 1][n] = f[i][n]
        /\ \A k \in 1..Len(row) : f[i + 1][len[i] + k] = row[k]
    <3>1. ASSUME NEW x \in Seq(Timed), NEW y \in Seq(Timed)
          PROVE  /\ Len(x \o y) = Len(x) + Len(y)
                 /\ \A n \in 1..Len(x) : (x \o y)[n] = x[n]
                 /\ \A k \in 1..Len(y) : (x \o y)[Len(x) + k] = y[k]
      OBVIOUS
    <3>2. f[i] \in Seq(Timed) /\ len[i] = Len(f[i]) /\ len[i + 1] = Len(f[i + 1])
      BY <1>3, <2>1
    <3>3. /\ Len(f[i] \o row) = Len(f[i]) + Len(row)
          /\ \A n \in 1..Len(f[i]) : (f[i] \o row)[n] = f[i][n]
          /\ \A k \in 1..Len(row) : (f[i] \o row)[Len(f[i]) + k] = row[k]
      BY <2>2, <3>1, <3>2, Zenon
    <3> HIDE DEF len
    <3> QED
      BY <2>3, <3>2, <3>3, Zenon
  <2>5. len[i] \in Nat /\ len[i + 1] \in Nat
    BY <1>3, <2>1
  <2> HIDE DEF len
  <2>6. ASSUME NEW u \in 0..i, NEW k \in DOMAIN in[u]
        PROVE  len[u] + k <= len[i + 1] /\ f[i + 1][len[u] + k] = At(in, u, k)
    <3>1. CASE u = i
      <4>1. k \in DOMAIN in[i] /\ k \in 1..Len(row) /\ k \in Nat
        BY <2>2, <3>1
      <4>2. len[i] + k <= len[i + 1]
        BY <2>2, <2>4, <2>5, <4>1
      <4>3. f[i + 1][len[i] + k] = At(in, i, k)
        BY <2>2, <2>4, <4>1
      <4> QED
        BY <3>1, <4>2, <4>3
    <3>2. CASE u # i
      <4>1. u \in 0..(i - 1) /\ u \in Times /\ u \in 0..N
        BY <1>1, <3>2
      <4>2. len[u] + k <= len[i] /\ f[i][len[u] + k] = At(in, u, k)
        BY <1>4, <4>1
      <4>3. k \in Nat \ {0} /\ len[u] \in Nat
        <5>1. DOMAIN in[u] = 1..Len(in[u]) /\ Len(in[u]) \in Nat
          BY <4>1, RowsType
        <5> QED
          BY <1>3, <4>1, <5>1
      <4>4. len[u] + k \in 1..len[i]
        BY <2>5, <4>2, <4>3
      <4> QED
        BY <2>2, <2>4, <2>5, <4>2, <4>4
    <3> QED
      BY <3>1, <3>2
  <2>7. ASSUME NEW n \in 1..len[i + 1]
        PROVE  \E u \in 0..i : \E k \in DOMAIN in[u] : n = len[u] + k
    <3>1. CASE n <= len[i]
      <4>1. PICK u \in 0..(i - 1) : \E k \in DOMAIN in[u] : n = len[u] + k
        BY <1>4, <2>5, <3>1
      <4>2. u \in 0..i
        BY <1>1
      <4> QED
        BY <4>1, <4>2
    <3>2. CASE n > len[i]
      <4>1. n - len[i] \in DOMAIN in[i] /\ n = len[i] + (n - len[i])
        BY <2>2, <2>4, <2>5, <3>2
      <4>2. i \in 0..i
        BY <1>1
      <4> QED
        BY <4>1, <4>2
    <3> QED
      BY <2>5, <3>1, <3>2
  <2> QED
    BY <2>1, <2>6, <2>7
<1>5. Filled(0) /\ Known(0)
  <2>1. len[0] = 0
    BY <1>1, <1>2
  <2>2. 0..(0 - 1) = {} /\ 1..0 = {}
    OBVIOUS
  <2> HIDE DEF len
  <2> QED
    BY <2>1, <2>2
<1> DEFINE wrong == {i \in 0..N : ~(Filled(i) /\ Known(i))}
<1>6. wrong = {}
  <2> SUFFICES ASSUME wrong # {} PROVE FALSE
    OBVIOUS
  <2>1. wrong \in SUBSET Nat
    BY <1>1
  <2>2. PICK i \in wrong : \A j \in wrong : i <= j
    <3> HIDE DEF wrong
    <3> QED
      BY <2>1, Least
  <2>3. i \in 0..N /\ ~(Filled(i) /\ Known(i))
    OBVIOUS
  <2> HIDE DEF Filled, Known
  <2>4. i # 0
    BY <1>5, <2>3
  <2>5. i - 1 \in 0..(N - 1) /\ i - 1 \in 0..N /\ ~(i <= i - 1) /\ (i - 1) + 1 = i
    BY <1>1, <2>3, <2>4
  <2>6. i - 1 \notin wrong
    <3> HIDE DEF wrong
    <3> QED
      BY <2>2, <2>5
  <2>7. Filled(i - 1) /\ Known(i - 1)
    BY <2>5, <2>6
  <2>8. Filled((i - 1) + 1) /\ Known((i - 1) + 1)
    BY <1>4, <2>5, <2>7
  <2> QED
    BY <2>3, <2>5, <2>8
<1>7. ASSUME NEW i \in 0..N PROVE Filled(i) /\ Known(i)
  <2>1. i \notin wrong
    BY <1>6
  <2> HIDE DEF Filled, Known
  <2> QED
    BY <2>1
<1> DEFINE before == [u \in Times |-> len[u]]
<1>8. before \in [Times -> Nat]
  BY <1>1, <1>3
<1>9. Laid(before, in, Flat(in))
  <2>1. Flat(in) \in Seq(Timed) /\ Len(Flat(in)) = len[N] /\ Flat(in) = f[N]
    BY <1>1, <1>2, <1>3
  <2>2. ASSUME NEW u \in Times, NEW k \in DOMAIN in[u]
        PROVE  /\ before[u] + k \in 1..len[N]
               /\ f[N][before[u] + k] = At(in, u, k)
               /\ \A v \in Times : u < v => before[u] + k <= before[v]
    <3>1. k \in Nat \ {0} /\ before[u] = len[u] /\ before[u] \in Nat
      <4>1. DOMAIN in[u] = 1..Len(in[u]) /\ Len(in[u]) \in Nat
        BY RowsType
      <4>2. before[u] = len[u] /\ before[u] \in Nat
        BY <1>8
      <4> QED
        BY <4>1, <4>2
    <3>2. u \in 0..(N - 1) /\ N \in 0..N
      BY <1>1
    <3>3. len[u] + k <= len[N] /\ f[N][len[u] + k] = At(in, u, k)
      <4>1. Filled(N)
        BY <1>7, <3>2
      <4> HIDE DEF len, N
      <4> QED
        BY <3>2, <4>1
    <3>4. ASSUME NEW v \in Times, u < v PROVE len[u] + k <= before[v]
      <4>1. v \in 0..N /\ u \in 0..(v - 1) /\ before[v] = len[v]
        BY <1>1, <3>2, <3>4
      <4>2. Filled(v)
        BY <1>7, <4>1
      <4> QED
        BY <4>1, <4>2
    <3>5. len[N] \in Nat
      BY <1>3, <3>2
    <3> HIDE DEF before, len
    <3> QED
      BY <3>1, <3>3, <3>4, <3>5
  <2>3. ASSUME NEW n \in 1..len[N]
        PROVE  \E u \in Times : \E k \in DOMAIN in[u] : n = before[u] + k
    <3>1. Known(N)
      <4>1. N \in 0..N
        BY <1>1
      <4> HIDE DEF N, Known
      <4> QED
        BY <1>7, <4>1
    <3>2. PICK u \in 0..(N - 1) : \E k \in DOMAIN in[u] : n = len[u] + k
      BY <3>1
    <3>3. u \in Times /\ before[u] = len[u]
      BY <1>1
    <3> QED
      BY <3>2, <3>3
  <2> HIDE DEF before
  <2> QED
    BY <1>8, <2>1, <2>2, <2>3 DEF Laid
<1> QED
  BY <1>8, <1>9

-----------------------------------------------------------------------------
(* The inner loop, event by event: the state keeps the last change of      *)
(* every action but the two that are counted.                              *)

Kept == Actions \ {"Respawn", "FinishLine"}

States == [value : [Actions -> Int], time : [Actions -> Int],
           respawns : Nat, finish : BOOLEAN]

\* Of the first c events, i is the last of action a.
LastIn(es, a, c, i) ==
    i \in 1..c /\ es[i].action = a /\ \A j \in 1..c : j > i => es[j].action # a

NoneIn(es, a, c) == \A j \in 1..c : es[j].action # a

Keeps(s, es, a, c) ==
    \/ NoneIn(es, a, c) /\ s.value[a] = 0 /\ s.time[a] = Never
    \/ \E i \in 1..c : /\ LastIn(es, a, c, i)
                       /\ s.value[a] = es[i].value /\ s.time[a] = es[i].time

KeepsAll(s, es, c) == s \in States /\ \A a \in Kept : Keeps(s, es, a, c)

\* The race runs before event i.
RunsAt(es, i) ==
    \E j \in 1..(i - 1) : LastIn(es, "RaceRunning", i - 1, j) /\ es[j].value # 0

RespawnAt(es, i) == es[i].action = "Respawn" /\ es[i].value # 0 /\ RunsAt(es, i)

FinishAt(es, i) == es[i].action = "FinishLine" /\ es[i].value = 1

LEMMA RunsIfKept ==
    ASSUME NEW es, NEW i \in Nat \ {0}, NEW s, Keeps(s, es, "RaceRunning", i - 1)
    PROVE  s.value["RaceRunning"] # 0 <=> RunsAt(es, i)
<1>1. ASSUME NoneIn(es, "RaceRunning", i - 1) PROVE ~RunsAt(es, i)
  BY <1>1 DEF NoneIn, RunsAt, LastIn
<1>2. ASSUME NEW j \in 1..(i - 1), NEW k \in 1..(i - 1),
             LastIn(es, "RaceRunning", i - 1, j), LastIn(es, "RaceRunning", i - 1, k)
      PROVE  j = k
  BY <1>2 DEF LastIn
<1> QED
  BY <1>1, <1>2 DEF Keeps, RunsAt

LEMMA ConsumeFacts ==
    ASSUME NEW s \in States, NEW e \in Timed
    PROVE  LET r == Consume(s, e)
           IN /\ r \in States
              /\ \A a \in Kept :
                    IF e.action = a THEN r.value[a] = e.value /\ r.time[a] = e.time
                    ELSE r.value[a] = s.value[a] /\ r.time[a] = s.time[a]
              /\ r.respawns = IF /\ e.action = "Respawn" /\ e.value # 0
                                 /\ s.value["RaceRunning"] # 0
                              THEN s.respawns + 1 ELSE s.respawns
              /\ r.finish <=> s.finish \/ (e.action = "FinishLine" /\ e.value = 1)
<1> DEFINE p == ApplyEvent(s, e)
           r == Consume(s, e)
<1>1. e.action \in Actions /\ e.value \in Int /\ e.time \in Int
  BY MaxTimeAssumption DEF Timed, Times
<1>2. /\ p \in States /\ p.respawns = s.respawns /\ p.finish = s.finish
      /\ \A a \in Kept : IF e.action = a THEN p.value[a] = e.value /\ p.time[a] = e.time
                         ELSE p.value[a] = s.value[a] /\ p.time[a] = s.time[a]
  <2>1. CASE e.action \in {"Respawn", "FinishLine"}
    BY <2>1 DEF ApplyEvent, Kept
  <2>2. CASE e.action \notin {"Respawn", "FinishLine"}
    <3>1. p = [s EXCEPT !.value[e.action] = e.value, !.time[e.action] = e.time]
      BY <2>2 DEF ApplyEvent
    <3>2. /\ s.value \in [Actions -> Int] /\ s.time \in [Actions -> Int]
      BY DEF States
    <3>3. /\ p.value = [s.value EXCEPT ![e.action] = e.value]
          /\ p.time = [s.time EXCEPT ![e.action] = e.time]
          /\ p.respawns = s.respawns /\ p.finish = s.finish
      BY <3>1 DEF States
    <3>4. p \in States
      <4>1. ASSUME NEW v \in [Actions -> Int], NEW w \in [Actions -> Int]
            PROVE  [s EXCEPT !.value = v, !.time = w] \in States
        BY DEF States
      <4>2. /\ [s.value EXCEPT ![e.action] = e.value] \in [Actions -> Int]
            /\ [s.time EXCEPT ![e.action] = e.time] \in [Actions -> Int]
        BY <1>1, <3>2
      <4>3. p = [s EXCEPT !.value = [s.value EXCEPT ![e.action] = e.value],
                          !.time = [s.time EXCEPT ![e.action] = e.time]]
        BY <3>1
      <4> HIDE DEF p
      <4> QED
        BY <4>1, <4>2, <4>3
    <3> HIDE DEF p
    <3> QED
      BY <1>1, <3>2, <3>3, <3>4 DEF Kept
  <2> QED
    BY <2>1, <2>2
<1> HIDE DEF p
<1>3. r = [p EXCEPT !.respawns = IF /\ e.action = "Respawn" /\ e.value # 0
                                    /\ s.value["RaceRunning"] # 0
                                 THEN p.respawns + 1 ELSE p.respawns,
                    !.finish = p.finish \/ (e.action = "FinishLine" /\ e.value = 1)]
  BY DEF Consume, p, Active, CanonicalPress
<1> HIDE DEF r
<1>4. ASSUME NEW n \in Nat, NEW f \in BOOLEAN
      PROVE  LET q == [p EXCEPT !.respawns = n, !.finish = f]
             IN /\ q \in States /\ q.value = p.value /\ q.time = p.time
                /\ q.respawns = n /\ q.finish = f
  BY <1>2 DEF States
<1>5. s.respawns \in Nat /\ p.respawns = s.respawns /\ p.finish = s.finish
  BY <1>2 DEF States
<1> DEFINE n == IF e.action = "Respawn" /\ e.value # 0 /\ s.value["RaceRunning"] # 0
                THEN p.respawns + 1 ELSE p.respawns
           f == p.finish \/ (e.action = "FinishLine" /\ e.value = 1)
<1>6. n \in Nat /\ f \in BOOLEAN
  BY <1>2, <1>5 DEF States
<1>7. r = [p EXCEPT !.respawns = n, !.finish = f]
  BY <1>3
<1>8. /\ n = IF e.action = "Respawn" /\ e.value # 0 /\ s.value["RaceRunning"] # 0
             THEN s.respawns + 1 ELSE s.respawns
      /\ f <=> s.finish \/ (e.action = "FinishLine" /\ e.value = 1)
  BY <1>5
<1> HIDE DEF n, f
<1>9. /\ r \in States /\ r.value = p.value /\ r.time = p.time
      /\ r.respawns = n /\ r.finish = f
  BY <1>4, <1>6, <1>7
<1> QED
  BY <1>2, <1>8, <1>9 DEF r

LEMMA ConsumeCounts ==
    ASSUME NEW s \in States, NEW e \in Timed
    PROVE  /\ Consume(s, e).respawns = IF /\ e.action = "Respawn" /\ e.value # 0
                                          /\ s.value["RaceRunning"] # 0
                                       THEN s.respawns + 1 ELSE s.respawns
           /\ Consume(s, e).finish
                 <=> s.finish \/ (e.action = "FinishLine" /\ e.value = 1)
BY ConsumeFacts

LEMMA ConsumeKeeps ==
    ASSUME NEW es \in Seq(Timed), NEW c \in Nat, c + 1 <= Len(es), NEW s,
           KeepsAll(s, es, c)
    PROVE  KeepsAll(Consume(s, es[c + 1]), es, c + 1)
<1> DEFINE e == es[c + 1]
           r == Consume(s, e)
<1>1. s \in States /\ e \in Timed
  BY DEF KeepsAll
<1>2. /\ r \in States
      /\ \A a \in Kept : IF e.action = a THEN r.value[a] = e.value /\ r.time[a] = e.time
                         ELSE r.value[a] = s.value[a] /\ r.time[a] = s.time[a]
  BY <1>1, ConsumeFacts
<1> HIDE DEF r
<1>3. ASSUME NEW a \in Kept PROVE Keeps(r, es, a, c + 1)
  <2>1. CASE e.action = a
    <3>1. c + 1 \in 1..(c + 1) /\ LastIn(es, a, c + 1, c + 1)
      BY <2>1 DEF LastIn
    <3>2. r.value[a] = es[c + 1].value /\ r.time[a] = es[c + 1].time
      BY <1>2, <2>1
    <3> QED
      BY <3>1, <3>2 DEF Keeps
  <2>2. CASE e.action # a
    <3>1. r.value[a] = s.value[a] /\ r.time[a] = s.time[a]
      BY <1>2, <2>2
    <3>2. Keeps(s, es, a, c)
      BY DEF KeepsAll
    <3>3. NoneIn(es, a, c) => NoneIn(es, a, c + 1)
      BY <2>2 DEF NoneIn
    <3>4. \A i \in 1..c : LastIn(es, a, c, i) => i \in 1..(c + 1) /\ LastIn(es, a, c + 1, i)
      BY <2>2 DEF LastIn
    <3> QED
      BY <3>1, <3>2, <3>3, <3>4 DEF Keeps
  <2> QED
    BY <2>1, <2>2
<1> QED
  BY <1>2, <1>3 DEF KeepsAll, r

\* One more element, or none.
LEMMA CountOneMore ==
    ASSUME NEW a \in Nat, NEW b \in Nat, NEW S \in SUBSET Nat, a <= b
    PROVE  Cardinality({i \in (a + 1)..(b + 1) : i \in S})
              = Cardinality({i \in (a + 1)..b : i \in S}) + IF b + 1 \in S THEN 1 ELSE 0
<1> DEFINE A == {i \in (a + 1)..b : i \in S}
           B == {i \in (a + 1)..(b + 1) : i \in S}
<1>1. IsFiniteSet(A) /\ Cardinality(A) \in Nat
  <2>1. IsFiniteSet((a + 1)..b)
    BY FS_Interval
  <2>2. A \subseteq (a + 1)..b
    OBVIOUS
  <2> HIDE DEF A
  <2> QED
    BY <2>1, <2>2, FS_Subset, FS_CardinalityType
<1>2. b + 1 \notin A
  OBVIOUS
<1>3. b + 1 \in S => B = A \cup {b + 1}
  OBVIOUS
<1>4. b + 1 \notin S => B = A
  OBVIOUS
<1> HIDE DEF A, B
<1>5. Cardinality(A \cup {b + 1}) = Cardinality(A) + 1
  BY <1>1, <1>2, FS_AddElement
<1> QED
  BY <1>1, <1>3, <1>4, <1>5 DEF A, B

\* The walk over d events from the c-th on.
LEMMA WalkOverEvents ==
    ASSUME NEW es \in Seq(Timed), NEW c \in Nat, NEW d \in Nat, c + d <= Len(es),
           NEW s, KeepsAll(s, es, c), s.respawns = 0, s.finish = FALSE,
           NEW h, h = [n \in 0..d |-> IF n = 0 THEN s ELSE Consume(h[n - 1], es[c + n])]
    PROVE  /\ KeepsAll(h[d], es, c + d)
           /\ h[d].respawns = Cardinality({i \in (c + 1)..(c + d) : RespawnAt(es, i)})
           /\ h[d].finish <=> \E i \in (c + 1)..(c + d) : FinishAt(es, i)
<1> DEFINE Count(n) == Cardinality({i \in (c + 1)..(c + n) : RespawnAt(es, i)})
           Right(n) == /\ KeepsAll(h[n], es, c + n)
                       /\ h[n].respawns = Count(n)
                       /\ h[n].finish <=> \E i \in (c + 1)..(c + n) : FinishAt(es, i)
           wrong == {n \in 0..d : ~Right(n)}
<1>1. Right(0)
  <2>1. h[0] = s /\ c + 0 = c /\ (c + 1)..(c + 0) = {}
    OBVIOUS
  <2>2. Count(0) = 0
    BY <2>1, FS_EmptySet
  <2> QED
    BY <2>1, <2>2
<1>2. ASSUME NEW n \in 0..(d - 1), Right(n) PROVE Right(n + 1)
  <2> DEFINE m == c + n
  <2>1. m \in Nat /\ m + 1 <= Len(es) /\ c + (n + 1) = m + 1 /\ c <= m /\ es[m + 1] \in Timed
    OBVIOUS
  <2>2. h[n + 1] = Consume(h[n], es[m + 1])
    <3>1. n + 1 \in 0..d /\ n + 1 # 0 /\ (n + 1) - 1 = n
      OBVIOUS
    <3> QED
      BY <2>1, <3>1
  <2>3. KeepsAll(h[n + 1], es, m + 1)
    BY <1>2, <2>1, <2>2, ConsumeKeeps
  <2>4. h[n] \in States /\ Keeps(h[n], es, "RaceRunning", m)
    BY <1>2 DEF KeepsAll, Kept, Actions
  <2>5. h[n].value["RaceRunning"] # 0 <=> RunsAt(es, m + 1)
    <3>1. m + 1 \in Nat \ {0} /\ (m + 1) - 1 = m
      BY <2>1
    <3> HIDE DEF m
    <3> QED
      BY <2>4, <3>1, RunsIfKept
  <2>6. /\ h[n + 1].respawns = h[n].respawns + IF RespawnAt(es, m + 1) THEN 1 ELSE 0
        /\ h[n + 1].finish <=> h[n].finish \/ FinishAt(es, m + 1)
    <3>1. h[n].respawns \in Nat
      BY <2>4 DEF States
    <3> DEFINE x == h[n]
               e == es[m + 1]
    <3>2. /\ h[n + 1].respawns = IF /\ e.action = "Respawn" /\ e.value # 0
                                    /\ x.value["RaceRunning"] # 0
                                 THEN x.respawns + 1 ELSE x.respawns
          /\ h[n + 1].finish <=> x.finish \/ (e.action = "FinishLine" /\ e.value = 1)
      <4>1. x \in States /\ e \in Timed /\ h[n + 1] = Consume(x, e)
        BY <2>1, <2>2, <2>4
      <4> HIDE DEF x, e
      <4> QED
        BY <4>1, ConsumeCounts
    <3> HIDE DEF m
    <3>3. h[n + 1].respawns = h[n].respawns + IF RespawnAt(es, m + 1) THEN 1 ELSE 0
      <4>1. RespawnAt(es, m + 1) <=> /\ es[m + 1].action = "Respawn"
                                     /\ es[m + 1].value # 0
                                     /\ h[n].value["RaceRunning"] # 0
        BY <2>5, Zenon DEF RespawnAt
      <4>2. CASE RespawnAt(es, m + 1)
        BY <2>2, <3>1, <3>2, <4>1, <4>2
      <4>3. CASE ~RespawnAt(es, m + 1)
        BY <2>2, <3>1, <3>2, <4>1, <4>3
      <4> QED
        BY <4>2, <4>3
    <3>4. h[n + 1].finish <=> h[n].finish \/ FinishAt(es, m + 1)
      BY <2>2, <3>2, Zenon DEF FinishAt
    <3> QED
      BY <3>3, <3>4, Zenon
  <2>7. Count(n + 1) = Count(n) + IF RespawnAt(es, m + 1) THEN 1 ELSE 0
    <3> DEFINE S == {i \in Nat : RespawnAt(es, i)}
    <3>1. /\ {i \in (c + 1)..(m + 1) : i \in S} = {i \in (c + 1)..(m + 1) : RespawnAt(es, i)}
          /\ {i \in (c + 1)..m : i \in S} = {i \in (c + 1)..m : RespawnAt(es, i)}
          /\ m + 1 \in S <=> RespawnAt(es, m + 1)
          /\ S \in SUBSET Nat
      BY <2>1
    <3> HIDE DEF S
    <3>2. Cardinality({i \in (c + 1)..(m + 1) : i \in S})
             = Cardinality({i \in (c + 1)..m : i \in S}) + IF m + 1 \in S THEN 1 ELSE 0
      BY <2>1, <3>1, CountOneMore
    <3> QED
      BY <2>1, <3>1, <3>2
  <2>8. (\E i \in (c + 1)..(m + 1) : FinishAt(es, i))
           <=> (\E i \in (c + 1)..m : FinishAt(es, i)) \/ FinishAt(es, m + 1)
    <3> HIDE DEF m
    <3>1. ASSUME NEW i \in (c + 1)..(m + 1) PROVE i \in (c + 1)..m \/ i = m + 1
      BY <2>1
    <3>2. m + 1 \in (c + 1)..(m + 1) /\ \A i \in (c + 1)..m : i \in (c + 1)..(m + 1)
      BY <2>1
    <3> QED
      BY <3>1, <3>2, Zenon
  <2> HIDE DEF Count
  <2> QED
    BY <1>2, <2>1, <2>3, <2>6, <2>7, <2>8
<1>3. wrong = {}
  <2> SUFFICES ASSUME wrong # {} PROVE FALSE
    OBVIOUS
  <2>1. wrong \in SUBSET Nat
    OBVIOUS
  <2>2. PICK n \in wrong : \A j \in wrong : n <= j
    <3> HIDE DEF wrong
    <3> QED
      BY <2>1, Least
  <2>3. n \in 0..d /\ ~Right(n)
    OBVIOUS
  <2> HIDE DEF Right
  <2>4. n - 1 \in 0..(d - 1) /\ n - 1 \in 0..d /\ ~(n <= n - 1) /\ (n - 1) + 1 = n
    BY <1>1, <2>3
  <2>5. n - 1 \notin wrong
    <3> HIDE DEF wrong
    <3> QED
      BY <2>2, <2>4
  <2>6. Right(n - 1)
    BY <2>4, <2>5
  <2>7. Right((n - 1) + 1)
    BY <1>2, <2>4, <2>6
  <2> QED
    BY <2>3, <2>4, <2>7
<1> QED
  <2>1. Right(d)
    <3>1. d \in 0..d
      OBVIOUS
    <3> HIDE DEF Right
    <3> QED
      BY <1>3, <3>1
  <2> QED
    BY <2>1

-----------------------------------------------------------------------------
(* From places in the list back to the times of the inputs.                *)

LEMMA Greatest ==
    ASSUME NEW n \in Nat, NEW S \in SUBSET (0..n), S # {}
    PROVE  \E x \in S : \A y \in S : y <= x
<1> DEFINE R == {m \in 0..n : n - m \in S}
<1>1. R \in SUBSET Nat
  OBVIOUS
<1>2. R # {}
  <2>1. PICK x \in S : TRUE
    OBVIOUS
  <2>2. n - x \in 0..n /\ n - (n - x) = x
    OBVIOUS
  <2>3. n - x \in R
    BY <2>2
  <2> QED
    BY <2>3
<1>3. PICK m \in R : \A k \in R : m <= k
  <2> HIDE DEF R
  <2> QED
    BY <1>1, <1>2, Least
<1>4. ASSUME NEW y \in S PROVE y <= n - m
  <2>1. n - y \in 0..n /\ n - (n - y) = y
    OBVIOUS
  <2>2. n - y \in R
    BY <2>1
  <2>3. m <= n - y
    BY <1>3, <2>2
  <2> QED
    BY <2>1, <2>3
<1>5. n - m \in S
  OBVIOUS
<1> QED
  BY <1>4, <1>5

LEMMA KeepsOne ==
    ASSUME NEW es, NEW a, NEW c \in Nat
    PROVE  \E s : Keeps(s, es, a, c)
<1>1. CASE NoneIn(es, a, c)
  <2> DEFINE s == [value |-> [b \in {a} |-> 0], time |-> [b \in {a} |-> Never]]
  <2>1. s.value[a] = 0 /\ s.time[a] = Never
    OBVIOUS
  <2> HIDE DEF s
  <2> QED
    BY <1>1, <2>1 DEF Keeps
<1>2. CASE ~NoneIn(es, a, c)
  <2> DEFINE S == {i \in 1..c : es[i].action = a}
  <2>1. S \in SUBSET (0..c) /\ S # {}
    BY <1>2 DEF NoneIn
  <2>2. PICK i \in S : \A j \in S : j <= i
    <3> HIDE DEF S
    <3> QED
      BY <2>1, Greatest
  <2>3. i \in 1..c /\ LastIn(es, a, c, i)
    <3>1. i \in 1..c /\ es[i].action = a
      OBVIOUS
    <3>2. ASSUME NEW j \in 1..c, j > i PROVE es[j].action # a
      <4>1. ~(j <= i)
        BY <3>1, <3>2
      <4>2. j \notin S
        BY <2>2, <4>1
      <4> QED
        BY <4>2
    <3> QED
      BY <3>1, <3>2 DEF LastIn
  <2> DEFINE s == [value |-> [b \in {a} |-> es[i].value],
                   time |-> [b \in {a} |-> es[i].time]]
  <2>4. s.value[a] = es[i].value /\ s.time[a] = es[i].time
    OBVIOUS
  <2> HIDE DEF s
  <2> QED
    BY <2>3, <2>4 DEF Keeps
<1> QED
  BY <1>1, <1>2

LEMMA LaidFacts ==
    ASSUME NEW in \in Inputs, NEW before, NEW es, Laid(before, in, es)
    PROVE  /\ es \in Seq(Timed) /\ Len(es) \in Nat
           /\ \A u \in Times : /\ u \in Int /\ before[u] \in Nat
                               /\ in[u] \in Seq(Event)
                               /\ DOMAIN in[u] = 1..Len(in[u]) /\ Len(in[u]) \in Nat
           /\ \A u \in Times : \A k \in DOMAIN in[u] :
                 /\ before[u] + k \in 1..Len(es) /\ before[u] + k \in Nat
                 /\ es[before[u] + k].time = u
                 /\ es[before[u] + k].action = in[u][k].action
                 /\ es[before[u] + k].value = in[u][k].value
<1>1. ASSUME NEW u \in Times
      PROVE  /\ u \in Int /\ before[u] \in Nat /\ in[u] \in Seq(Event)
             /\ DOMAIN in[u] = 1..Len(in[u]) /\ Len(in[u]) \in Nat
  <2>1. u \in Int
    BY MaxTimeAssumption DEF Times
  <2>2. before[u] \in Nat
    BY DEF Laid
  <2>3. in[u] \in Seq(Event) /\ DOMAIN in[u] = 1..Len(in[u]) /\ Len(in[u]) \in Nat
    BY RowsType
  <2> QED
    BY <2>1, <2>2, <2>3
<1>2. es \in Seq(Timed) /\ Len(es) \in Nat
  BY DEF Laid
<1>3. ASSUME NEW u \in Times, NEW k \in DOMAIN in[u]
      PROVE  /\ before[u] + k \in 1..Len(es) /\ before[u] + k \in Nat
             /\ es[before[u] + k].time = u
             /\ es[before[u] + k].action = in[u][k].action
             /\ es[before[u] + k].value = in[u][k].value
  <2>1. before[u] + k \in 1..Len(es) /\ es[before[u] + k] = At(in, u, k)
    BY DEF Laid
  <2> QED
    BY <2>1 DEF At
<1> QED
  BY <1>1, <1>2, <1>3

LEMMA PlaceFacts ==
    ASSUME NEW in \in Inputs, NEW before, NEW es, Laid(before, in, es),
           NEW u \in Times, NEW k \in DOMAIN in[u]
    PROVE  /\ u \in Int /\ before[u] \in Nat /\ k \in Nat \ {0}
           /\ before[u] + k \in 1..Len(es) /\ before[u] + k \in Nat
           /\ es[before[u] + k].time = u
           /\ es[before[u] + k].action = in[u][k].action
           /\ es[before[u] + k].value = in[u][k].value
<1>1. /\ u \in Int /\ before[u] \in Nat
      /\ DOMAIN in[u] = 1..Len(in[u]) /\ Len(in[u]) \in Nat
  BY LaidFacts, Zenon
<1>2. k \in Nat \ {0}
  BY <1>1
<1> QED
  BY <1>1, <1>2, LaidFacts

LEMMA PlacesAscend ==
    ASSUME NEW in \in Inputs, NEW before, NEW es, Laid(before, in, es),
           NEW u \in Times, NEW v \in Times, NEW k \in DOMAIN in[u], NEW j \in DOMAIN in[v],
           before[u] + k <= before[v] + j
    PROVE  u <= v /\ (u = v => k <= j)
<1>1. /\ u \in Int /\ v \in Int /\ before[u] \in Nat /\ before[v] \in Nat
      /\ k \in Nat \ {0} /\ j \in Nat \ {0}
  BY PlaceFacts
<1>2. v < u => before[v] + j <= before[u]
  BY DEF Laid
<1> QED
  BY <1>1, <1>2

\* What the list keeps up to a place is what the inputs say at a time.
LEMMA KeptIsState ==
    ASSUME NEW in \in Inputs, NEW before, NEW es, Laid(before, in, es),
           NEW a \in Actions, NEW t \in Int, NEW c \in 0..Len(es),
           \A i \in 1..Len(es) : es[i].action = a => (i <= c <=> es[i].time <= t),
           NEW s, Keeps(s, es, a, c)
    PROVE  s.time[a] = LastTime(in, a, t) /\ s.value[a] = Value(in, a, LastTime(in, a, t))
<1> DEFINE changes == ChangesOf(in, a, t)
<1>1. ASSUME NEW u \in Times, NEW k \in DOMAIN in[u], in[u][k].action = a
      PROVE  before[u] + k \in 1..c <=> u <= t
  <2>1. /\ before[u] + k \in 1..Len(es) /\ es[before[u] + k].time = u
        /\ es[before[u] + k].action = a
    BY <1>1, PlaceFacts
  <2>2. before[u] + k <= c <=> u <= t
    BY <2>1
  <2> HIDE DEF changes
  <2> QED
    BY <2>1, <2>2
<1>2. ASSUME NEW i \in 1..c
      PROVE  \E u \in Times : \E k \in DOMAIN in[u] :
                i = before[u] + k /\ es[i].time = u /\ es[i].action = in[u][k].action
                /\ es[i].value = in[u][k].value
  <2>1. i \in 1..Len(es)
    BY LaidFacts
  <2>2. PICK u \in Times : \E k \in DOMAIN in[u] : i = before[u] + k
    BY <2>1 DEF Laid
  <2>3. PICK k \in DOMAIN in[u] : i = before[u] + k
    BY <2>2
  <2> QED
    BY <2>3, PlaceFacts
<1>3. CASE NoneIn(es, a, c) /\ s.value[a] = 0 /\ s.time[a] = Never
  <2>1. ASSUME NEW u \in Times, u <= t, NEW k \in DOMAIN in[u], in[u][k].action = a
        PROVE  FALSE
    <3>1. before[u] + k \in 1..c
      BY <1>1, <2>1
    <3>2. es[before[u] + k].action = a
      BY <2>1, PlaceFacts
    <3> QED
      BY <1>3, <3>1, <3>2 DEF NoneIn
  <2>2. changes = {}
    BY <2>1 DEF ChangesOf
  <2>3. LastTime(in, a, t) = Never
    BY <2>2 DEF LastTime
  <2> QED
    BY <1>3, <2>3 DEF Value
<1>4. ASSUME NEW i \in 1..c, LastIn(es, a, c, i),
             s.value[a] = es[i].value, s.time[a] = es[i].time
      PROVE  s.time[a] = LastTime(in, a, t)
             /\ s.value[a] = Value(in, a, LastTime(in, a, t))
  <2>1. es[i].action = a /\ i \in Nat /\ i <= c
    BY <1>4 DEF LastIn
  <2> DEFINE Is(u, k) == /\ i = before[u] + k /\ es[i].time = u
                         /\ es[i].action = in[u][k].action
                         /\ es[i].value = in[u][k].value
  <2>0. PICK u \in Times : \E k \in DOMAIN in[u] : Is(u, k)
    BY <1>2
  <2>2. PICK k \in DOMAIN in[u] : Is(u, k)
    BY <2>0
  <2>3. in[u][k].action = a /\ u <= t
    BY <1>1, <2>1, <2>2
  <2>4. ASSUME NEW v \in Times, v <= t, NEW j \in DOMAIN in[v], in[v][j].action = a
        PROVE  v <= u /\ (v = u => j <= k)
    <3>1. before[v] + j \in 1..c /\ es[before[v] + j].action = a
      BY <1>1, <2>4, PlaceFacts
    <3>2. ~(before[v] + j > i)
      BY <1>4, <3>1 DEF LastIn
    <3>3. before[v] + j <= before[u] + k
      BY <2>1, <2>2, <3>1, <3>2
    <3> QED
      BY <3>3, PlacesAscend
  <2>5. u \in changes /\ \A v \in changes : v <= u /\ v \in Int
    BY <2>3, <2>4, LaidFacts DEF ChangesOf
  <2>6. \A w \in changes : (\A v \in changes : v <= w) => w = u
    BY <2>5
  <2>7. LastTime(in, a, t) = u
    <3> HIDE DEF changes
    <3>1. (CHOOSE w \in changes : \A v \in changes : v <= w) = u
      BY <2>5, <2>6
    <3>2. changes # {}
      BY <2>5
    <3> QED
      BY <3>1, <3>2 DEF LastTime, changes
  <2>8. LastOf(in[u], a) = in[u][k]
    <3> DEFINE P(m) == /\ in[u][m].action = a
                       /\ \A j \in DOMAIN in[u] : in[u][j].action = a => j <= m
    <3>1. P(k) /\ \A m \in DOMAIN in[u] : P(m) => m = k
      <4>1. \A j \in DOMAIN in[u] : j \in Int
        BY LaidFacts
      <4>2. P(k)
        BY <2>3, <2>4
      <4> QED
        BY <2>3, <4>1, <4>2
    <3>2. (CHOOSE m \in DOMAIN in[u] : P(m)) = k
      <4> HIDE DEF P
      <4> QED
        BY <3>1
    <3> QED
      BY <3>2 DEF LastOf
  <2>9. u # Never
    BY MaxTimeAssumption DEF Times, Never
  <2>10. Value(in, a, u) = in[u][k].value
    BY <2>8, <2>9 DEF Value
  <2> QED
    BY <1>4, <2>2, <2>7, <2>10
<1> QED
  BY <1>3, <1>4 DEF Keeps

LEMMA RunsIsRunning ==
    ASSUME NEW in \in Inputs, NEW before, NEW es, Laid(before, in, es),
           NEW u \in Times, NEW k \in DOMAIN in[u]
    PROVE  RunsAt(es, before[u] + k) <=> RunningBefore(in, u, k)
<1> DEFINE RR == "RaceRunning"
           i == before[u] + k
           early == SubSeq(in[u], 1, k - 1)
           S == {j \in 1..(k - 1) : in[u][j].action = RR}
<1>1. /\ k \in Nat \ {0} /\ k <= Len(in[u]) /\ before[u] \in Nat /\ u \in Int
      /\ in[u] \in Seq(Event) /\ DOMAIN in[u] = 1..Len(in[u]) /\ Len(in[u]) \in Nat
      /\ i \in Nat \ {0} /\ i <= Len(es) /\ Len(es) \in Nat
  BY LaidFacts
<1>2. DOMAIN early = 1..(k - 1) /\ \A j \in 1..(k - 1) : early[j] = in[u][j]
  <2>1. ASSUME NEW w \in Seq(Event), NEW n \in 0..Len(w)
        PROVE  /\ DOMAIN SubSeq(w, 1, n) = 1..n
               /\ \A j \in 1..n : SubSeq(w, 1, n)[j] = w[j]
    OBVIOUS
  <2>2. k - 1 \in 0..Len(in[u])
    BY <1>1
  <2> HIDE DEF early
  <2> QED
    BY <1>1, <2>1, <2>2 DEF early
<1> HIDE DEF early
<1>3. ASSUME NEW j \in 1..(k - 1)
      PROVE  /\ before[u] + j \in 1..(i - 1) /\ j \in DOMAIN in[u]
             /\ es[before[u] + j].action = in[u][j].action
             /\ es[before[u] + j].value = in[u][j].value
  <2>1. j \in DOMAIN in[u] /\ before[u] + j \in 1..(i - 1)
    <3>1. j \in 1..Len(in[u]) /\ j >= 1 /\ j <= k - 1
      BY <1>1
    <3>2. before[u] + j \in 1..(before[u] + k - 1)
      BY <1>1, <3>1
    <3> QED
      BY <1>1, <3>1, <3>2
  <2> QED
    BY <2>1, PlaceFacts
<1>4. CASE S # {}
  <2>1. S \in SUBSET (0..k)
    BY <1>1
  <2>2. PICK j \in S : \A m \in S : m <= j
    <3> HIDE DEF S
    <3> QED
      BY <1>1, <1>4, <2>1, Greatest
  <2>3. j \in 1..(k - 1) /\ in[u][j].action = RR
    OBVIOUS
  <2>4. \A m \in 1..(k - 1) : in[u][m].action = RR => m <= j
    BY <2>2
  <2>5. LastOf(early, RR) = in[u][j]
    <3> DEFINE P(m) == /\ early[m].action = RR
                       /\ \A n \in DOMAIN early : early[n].action = RR => n <= m
    <3>1. P(j) /\ j \in DOMAIN early
      BY <1>2, <2>3, <2>4
    <3>2. \A m \in DOMAIN early : P(m) => m = j
      <4>1. ASSUME NEW m \in DOMAIN early, P(m) PROVE m = j
        <5>1. m \in 1..(k - 1) /\ m <= j /\ j <= m
          BY <1>2, <2>3, <2>4, <3>1, <4>1
        <5> QED
          BY <1>1, <2>3, <5>1
      <4> QED
        BY <4>1
    <3>3. (CHOOSE m \in DOMAIN early : P(m)) = j
      <4> HIDE DEF P
      <4> QED
        BY <3>1, <3>2
    <3> QED
      BY <1>2, <2>3, <3>3 DEF LastOf
  <2>6. RunningBefore(in, u, k) <=> in[u][j].value # 0
    <3>1. \E m \in DOMAIN early : early[m].action = RR
      BY <1>2, <2>3
    <3> QED
      BY <2>5, <3>1 DEF RunningBefore, early, Active
  <2> DEFINE p == before[u] + j
  <2>7. p \in 1..(i - 1) /\ es[p].action = RR /\ es[p].value = in[u][j].value
    BY <1>3, <2>3
  <2>8. ASSUME NEW m \in 1..(i - 1), m > p PROVE es[m].action # RR
    <3>1. m - before[u] \in 1..(k - 1) /\ ~(m - before[u] <= j)
          /\ before[u] + (m - before[u]) = m
      <4>1. before[u] \in Nat /\ k \in Nat \ {0} /\ m \in Nat
            /\ m <= before[u] + k - 1 /\ m > before[u] + j /\ j \in 1..(k - 1)
        BY <1>1, <2>3, <2>8
      <4> HIDE DEF S, p, i
      <4> QED
        BY <4>1
    <3>2. es[m].action = in[u][m - before[u]].action
      BY <1>3, <3>1
    <3> QED
      BY <2>4, <3>1, <3>2
  <2>9. LastIn(es, RR, i - 1, p)
    BY <2>7, <2>8 DEF LastIn
  <2>10. ASSUME NEW m \in 1..(i - 1), LastIn(es, RR, i - 1, m) PROVE m = p
    <3>1. ~(m > p) /\ ~(p > m)
      BY <2>7, <2>8, <2>10 DEF LastIn
    <3> HIDE DEF p
    <3> QED
      BY <1>1, <2>7, <3>1
  <2> HIDE DEF p, i
  <2>11. RunsAt(es, i) <=> es[p].value # 0
    BY <2>7, <2>9, <2>10 DEF RunsAt
  <2> QED
    BY <2>6, <2>7, <2>11 DEF i
<1>5. CASE S = {}
  <2>1. \A j \in 1..(k - 1) : in[u][j].action # RR
    BY <1>5
  <2>2. RunningBefore(in, u, k) <=> Value(in, RR, LastTime(in, RR, u - 1)) # 0
    BY <1>2, <2>1 DEF RunningBefore, early, Pressed
  <2>3. i - 1 \in Nat /\ i - 1 \in 0..Len(es) /\ u - 1 \in Int /\ RR \in Actions
    BY <1>1 DEF Actions
  <2>4. PICK s : Keeps(s, es, RR, i - 1)
    BY <2>3, KeepsOne
  <2>5. ASSUME NEW n \in 1..Len(es), es[n].action = RR
        PROVE  n <= i - 1 <=> es[n].time <= u - 1
    <3>1. PICK v \in Times : \E j \in DOMAIN in[v] : n = before[v] + j
      BY DEF Laid
    <3>2. PICK j \in DOMAIN in[v] : n = before[v] + j
      BY <3>1
    <3>3. /\ es[n].time = v /\ in[v][j].action = RR /\ v \in Int
          /\ before[v] \in Nat /\ j \in Nat \ {0}
      <4>1. /\ es[before[v] + j].time = v /\ v \in Int
            /\ es[before[v] + j].action = in[v][j].action
            /\ before[v] \in Nat /\ j \in Nat \ {0}
        BY PlaceFacts
      <4> QED
        BY <2>5, <3>2, <4>1
    <3> HIDE DEF S
    <3>4. v < u => before[v] + j <= before[u]
      BY DEF Laid
    <3>5. u < v => before[u] + k <= before[v]
      BY DEF Laid
    <3>6. v = u => j \notin 1..(k - 1)
      BY <2>1, <3>3
    <3>7. CASE v < u
      BY <1>1, <3>2, <3>3, <3>4, <3>7
    <3>8. CASE u < v
      <4> DEFINE b == before[u]
                 d == before[v]
      <4>3. b + k <= d /\ n = d + j /\ i = b + k
        BY <3>2, <3>5, <3>8
      <4>4. b \in Nat /\ d \in Nat /\ j \in Nat \ {0} /\ k \in Nat
        BY <1>1, <3>3
      <4> HIDE DEF b, d, i
      <4>1. ~(n <= i - 1)
        BY <4>3, <4>4
      <4>2. ~(v <= u - 1)
        BY <1>1, <3>3, <3>8
      <4> QED
        BY <3>3, <4>1, <4>2
    <3>9. CASE v = u
      <4>1. ~(j <= k - 1)
        BY <1>1, <3>3, <3>6, <3>9
      <4>2. before[v] = before[u]
        BY <3>9
      <4>3. ~(n <= i - 1)
        BY <1>1, <3>2, <3>3, <4>1, <4>2
      <4>4. ~(v <= u - 1)
        BY <1>1, <3>9
      <4> QED
        BY <3>3, <4>3, <4>4
    <3> QED
      BY <1>1, <3>3, <3>7, <3>8, <3>9
  <2>6. s.value[RR] = Value(in, RR, LastTime(in, RR, u - 1))
    <3> DEFINE c == i - 1
               t == u - 1
    <3>1. c \in 0..Len(es) /\ t \in Int /\ RR \in Actions /\ Keeps(s, es, RR, c)
      BY <2>3, <2>4
    <3>2. \A n \in 1..Len(es) : es[n].action = RR => (n <= c <=> es[n].time <= t)
      BY <2>5
    <3> HIDE DEF i, RR, c, t
    <3>3. s.value[RR] = Value(in, RR, LastTime(in, RR, t))
      BY <3>1, <3>2, KeptIsState, SMTT(30)
    <3> QED
      BY <3>3 DEF t
  <2>7. s.value[RR] # 0 <=> RunsAt(es, i)
    <3> HIDE DEF i
    <3> QED
      BY <1>1, <2>4, RunsIfKept
  <2> QED
    BY <2>2, <2>6, <2>7
<1> QED
  BY <1>4, <1>5

\* As many, if they correspond.
LEMMA SameNumber ==
    ASSUME NEW S, NEW T, IsFiniteSet(T), NEW F \in [S -> T],
           \A x, y \in S : F[x] = F[y] => x = y,
           \A z \in T : \E x \in S : F[x] = z
    PROVE  IsFiniteSet(S) /\ Cardinality(S) = Cardinality(T)
<1>1. F \in Injection(S, T) /\ F \in Surjection(S, T)
  BY DEF Injection, IsInjective, Surjection
<1> QED
  BY <1>1, FS_Injection

LEMMA DuePairs ==
    ASSUME NEW q, NEW in, NEW t
    PROVE  \A p : p \in Due(q, in, t)
                    <=> \E u \in DueTimes(q, t) : \E k \in DOMAIN in[u] : p = <<u, k>>
BY DEF Due

LEMMA DueIsWalked ==
    ASSUME NEW in \in Inputs, NEW before, NEW es, Laid(before, in, es),
           NEW q, NEW t, NEW a \in Nat, NEW b \in Nat, b <= Len(es),
           \A i \in 1..Len(es) : i \in (a + 1)..b <=> es[i].time \in DueTimes(q, t)
    PROVE  /\ Respawns(q, in, t) = Cardinality({i \in (a + 1)..b : RespawnAt(es, i)})
           /\ FinishPressed(q, in, t) <=> \E i \in (a + 1)..b : FinishAt(es, i)
<1> DEFINE P == {p \in Due(q, in, t) : /\ in[p[1]][p[2]].action = "Respawn"
                                       /\ Active(in[p[1]][p[2]])
                                       /\ RunningBefore(in, p[1], p[2])}
           I == {i \in (a + 1)..b : RespawnAt(es, i)}
           F == [p \in P |-> before[p[1]] + p[2]]
           D == DueTimes(q, t)
<1>1. D \subseteq Times /\ Len(es) \in Nat /\ \A i \in (a + 1)..b : i \in 1..Len(es)
  BY LaidFacts DEF DueTimes
<1>2. ASSUME NEW u \in D, NEW k \in DOMAIN in[u]
      PROVE  /\ before[u] + k \in (a + 1)..b
             /\ es[before[u] + k].action = in[u][k].action
             /\ es[before[u] + k].value = in[u][k].value
             /\ RunsAt(es, before[u] + k) <=> RunningBefore(in, u, k)
  <2>1. u \in Times
    BY <1>1
  <2>2. /\ before[u] + k \in 1..Len(es) /\ es[before[u] + k].time = u
        /\ es[before[u] + k].action = in[u][k].action
        /\ es[before[u] + k].value = in[u][k].value
    BY <2>1, LaidFacts
  <2>3. RunsAt(es, before[u] + k) <=> RunningBefore(in, u, k)
    BY <2>1, RunsIsRunning
  <2>4. before[u] + k \in (a + 1)..b
    BY <2>2
  <2> QED
    BY <2>2, <2>3, <2>4
<1>3. ASSUME NEW i \in (a + 1)..b
      PROVE  \E u \in D : \E k \in DOMAIN in[u] : i = before[u] + k
  <2>1. i \in 1..Len(es) /\ es[i].time \in D
    BY <1>1
  <2>2. PICK u \in Times : \E k \in DOMAIN in[u] : i = before[u] + k
    BY <2>1 DEF Laid
  <2>3. PICK k \in DOMAIN in[u] : i = before[u] + k
    BY <2>2
  <2>4. es[i].time = u
    BY <2>3, LaidFacts
  <2> QED
    BY <2>1, <2>3, <2>4
<1>4. ASSUME NEW p \in P
      PROVE  /\ p = <<p[1], p[2]>> /\ p[1] \in D /\ p[2] \in DOMAIN in[p[1]]
             /\ F[p] = before[p[1]] + p[2] /\ F[p] \in I
  <2>1. PICK u \in D : \E k \in DOMAIN in[u] : p = <<u, k>>
    BY DuePairs
  <2>2. PICK k \in DOMAIN in[u] : p = <<u, k>>
    BY <2>1
  <2>3. p[1] = u /\ p[2] = k
    BY <2>2
  <2>4. in[u][k].action = "Respawn" /\ in[u][k].value # 0 /\ RunningBefore(in, u, k)
    BY <2>3 DEF Active
  <2>5. before[u] + k \in I
    BY <1>2, <2>4 DEF RespawnAt
  <2> QED
    BY <2>2, <2>3, <2>5
<1>5. F \in [P -> I]
  BY <1>4
<1>6. ASSUME NEW x \in P, NEW y \in P, F[x] = F[y] PROVE x = y
  <2> DEFINE u == x[1]  k == x[2]  v == y[1]  j == y[2]
  <2>1. /\ x = <<u, k>> /\ y = <<v, j>> /\ u \in Times /\ v \in Times
        /\ k \in DOMAIN in[u] /\ j \in DOMAIN in[v]
        /\ before[u] + k = before[v] + j
    BY <1>1, <1>4, <1>6
  <2> HIDE DEF u, k, v, j
  <2>2. /\ u \in Int /\ v \in Int /\ k \in Int /\ j \in Int
        /\ before[u] \in Int /\ before[v] \in Int
    <3>1. u \in Int /\ before[u] \in Nat /\ k \in Nat \ {0}
      BY <2>1, PlaceFacts
    <3>2. v \in Int /\ before[v] \in Nat /\ j \in Nat \ {0}
      BY <2>1, PlaceFacts
    <3> QED
      BY <3>1, <3>2
  <2>3. before[u] + k <= before[v] + j /\ before[v] + j <= before[u] + k
    BY <2>1, <2>2
  <2>4. u <= v /\ (u = v => k <= j) /\ v <= u /\ (v = u => j <= k)
    BY <2>1, <2>3, PlacesAscend
  <2>5. u = v /\ k = j
    BY <2>2, <2>4
  <2> QED
    BY <2>1, <2>5
<1>7. ASSUME NEW i \in I PROVE \E p \in P : F[p] = i
  <2>1. PICK u \in D : \E k \in DOMAIN in[u] : i = before[u] + k
    BY <1>3
  <2>2. PICK k \in DOMAIN in[u] : i = before[u] + k
    BY <2>1
  <2>3. in[u][k].action = "Respawn" /\ in[u][k].value # 0 /\ RunningBefore(in, u, k)
    BY <1>2, <2>2 DEF RespawnAt
  <2>4. <<u, k>> \in Due(q, in, t)
    BY DuePairs
  <2>5. <<u, k>> \in P /\ F[<<u, k>>] = before[u] + k
    BY <2>3, <2>4 DEF Active
  <2> QED
    BY <2>2, <2>5
<1>8. IsFiniteSet(I)
  <2>1. IsFiniteSet((a + 1)..b) /\ I \subseteq (a + 1)..b
    BY FS_Interval
  <2> HIDE DEF I
  <2> QED
    BY <2>1, FS_Subset
<1>9. Cardinality(P) = Cardinality(I)
  <2> HIDE DEF P, I, F
  <2> QED
    BY <1>5, <1>6, <1>7, <1>8, SameNumber
<1>10. Respawns(q, in, t) = Cardinality(P)
  BY DEF Respawns
<1>11. FinishPressed(q, in, t) => \E i \in (a + 1)..b : FinishAt(es, i)
  <2> SUFFICES ASSUME FinishPressed(q, in, t) PROVE \E i \in (a + 1)..b : FinishAt(es, i)
    OBVIOUS
  <2>1. PICK p \in Due(q, in, t) : /\ in[p[1]][p[2]].action = "FinishLine"
                                   /\ CanonicalPress(in[p[1]][p[2]])
    BY DEF FinishPressed
  <2>2. PICK u \in D : \E k \in DOMAIN in[u] : p = <<u, k>>
    BY DuePairs
  <2>3. PICK k \in DOMAIN in[u] : p = <<u, k>>
    BY <2>2
  <2>4. in[u][k].action = "FinishLine" /\ in[u][k].value = 1
    BY <2>1, <2>3 DEF CanonicalPress
  <2> QED
    BY <1>2, <2>4 DEF FinishAt
<1>12. ASSUME NEW i \in (a + 1)..b, FinishAt(es, i) PROVE FinishPressed(q, in, t)
  <2>1. PICK u \in D : \E k \in DOMAIN in[u] : i = before[u] + k
    BY <1>3
  <2>2. PICK k \in DOMAIN in[u] : i = before[u] + k
    BY <2>1
  <2>3. in[u][k].action = "FinishLine" /\ in[u][k].value = 1
    BY <1>2, <1>12, <2>2 DEF FinishAt
  <2>4. <<u, k>> \in Due(q, in, t)
    BY DuePairs
  <2> DEFINE p == <<u, k>>
  <2>5. p \in Due(q, in, t) /\ p[1] = u /\ p[2] = k
    BY <2>4
  <2> HIDE DEF p
  <2> QED
    BY <2>3, <2>5 DEF FinishPressed, CanonicalPress
<1> QED
  BY <1>9, <1>10, <1>11, <1>12

-----------------------------------------------------------------------------
(* One turn of the loop, as a sample of the inputs.                        *)

TicksUpTo(t) == {u \in 1..t : u % request.tick = 0}

\* What the walk has read of the inputs, and what it remembers of its ticks.
Sampler ==
    /\ inputs \in Inputs /\ events = Flat(inputs)
    /\ eventCursor \in 0..Len(events)
    /\ \A i \in 1..eventCursor : events[i].time <= clock
    /\ ticks # <<>> =>
          \A i \in (eventCursor + 1)..Len(events) : events[i].time > clock
    /\ ticks = <<>> => eventCursor = 0
    /\ KeepsAll(state, events, eventCursor)
    /\ running \in BOOLEAN /\ resetDone \in BOOLEAN /\ spawned \in BOOLEAN
    /\ running <=> ticks # <<>> /\ Pressed(inputs, "RaceRunning", clock)
    /\ resetDone <=> \E u \in TicksUpTo(clock) : StartsRunning(request, inputs, u)
    /\ spawned <=> \E u \in TicksUpTo(clock) : AtOrAfter(u, SpawnTime(request))
    /\ \A k \in DOMAIN ticks : ticks[k].control = Control(request, inputs, k * request.tick)

LEMMA EventsAscend ==
    ASSUME NEW in \in Inputs, NEW before, NEW es, Laid(before, in, es),
           NEW i \in 1..Len(es), NEW j \in 1..Len(es), i <= j
    PROVE  es[i].time <= es[j].time
<1>1. PICK u \in Times : \E k \in DOMAIN in[u] : i = before[u] + k
  BY DEF Laid
<1>2. PICK k \in DOMAIN in[u] : i = before[u] + k
  BY <1>1
<1>3. PICK v \in Times : \E l \in DOMAIN in[v] : j = before[v] + l
  BY DEF Laid
<1>4. PICK l \in DOMAIN in[v] : j = before[v] + l
  BY <1>3
<1>5. u <= v
  BY <1>2, <1>4, PlacesAscend
<1>6. es[i].time = u /\ es[j].time = v
  BY <1>2, <1>4, LaidFacts
<1> QED
  BY <1>5, <1>6

\* What a turn consumes are the events up to its time that are left.
LEMMA DueFacts ==
    ASSUME Sampler, NEW t \in Nat
    PROVE  LET a == eventCursor
               b == eventCursor + DueUpTo(t)
           IN /\ a \in Nat /\ DueUpTo(t) \in Nat /\ b \in Nat /\ b <= Len(events)
              /\ \A i \in 1..Len(events) : i > a => (i <= b <=> events[i].time <= t)
<1> DEFINE a == eventCursor
           S == {i \in (a + 1)..Len(events) : \A j \in (a + 1)..i : events[j].time <= t}
           n == Cardinality(S)
<1>1. PICK before \in [Times -> Nat] : Laid(before, inputs, events)
  BY Layout DEF Sampler
<1>2. /\ events \in Seq(Timed) /\ Len(events) \in Nat /\ inputs \in Inputs
      /\ a \in Nat /\ a <= Len(events)
  BY <1>1, LaidFacts DEF Sampler
<1>3. n \in Nat /\ S = (a + 1)..(a + n)
  <2>1. S \in SUBSET ((a + 1)..Len(events)) /\ \A i \in S : \A j \in (a + 1)..i : j \in S
    BY <1>2
  <2> HIDE DEF S
  <2> QED
    BY <1>2, <2>1, FirstOnes
<1>4. DueUpTo(t) = n
  BY DEF DueUpTo
<1>5. \A i \in S : i <= Len(events) /\ events[i].time <= t
  BY <1>2
<1>6. \A i \in (a + 1)..Len(events) : i \notin S =>
          \E j \in (a + 1)..i : ~(events[j].time <= t)
  OBVIOUS
<1> HIDE DEF S, n
<1>7. a + n <= Len(events)
  <2>1. n = 0 \/ a + n \in S
    BY <1>2, <1>3
  <2> QED
    BY <1>2, <1>3, <1>5, <2>1
<1>8. ASSUME NEW i \in 1..Len(events), i > a PROVE i <= a + n <=> events[i].time <= t
  <2>1. CASE i <= a + n
    BY <1>2, <1>3, <1>5, <1>8, <2>1
  <2>2. CASE i > a + n
    <3>1. i \in (a + 1)..Len(events) /\ i \notin S
      BY <1>2, <1>3, <1>8, <2>2
    <3>2. PICK j \in (a + 1)..i : ~(events[j].time <= t)
      BY <1>6, <3>1
    <3>3. j \in 1..Len(events) /\ j <= i /\ i \in 1..Len(events)
      BY <1>2, <3>1
    <3>4. events[j].time <= events[i].time
      BY <1>1, <1>2, <3>3, EventsAscend
    <3>5. events[j] \in Timed /\ events[i] \in Timed
      BY <1>2, <3>3
    <3>6. events[j].time \in Int /\ events[i].time \in Int
      BY <3>5, MaxTimeAssumption DEF Timed, Times
    <3>7. a + n \in Nat /\ i \in Nat
      BY <1>2, <1>3
    <3> HIDE DEF a
    <3> QED
      BY <2>2, <3>2, <3>4, <3>6, <3>7
  <2> QED
    BY <1>2, <1>3, <2>1, <2>2
<1> QED
  BY <1>2, <1>3, <1>4, <1>7, <1>8

\* The inner loop leaves what the events up to the time of the tick make.
LEMMA SampledFacts ==
    ASSUME Sampler, NEW t \in Nat
    PROVE  LET a == eventCursor
               b == eventCursor + DueUpTo(t)
               s == Sampled(t)
           IN /\ KeepsAll(s, events, b)
              /\ s.respawns = Cardinality({i \in (a + 1)..b : RespawnAt(events, i)})
              /\ s.finish <=> \E i \in (a + 1)..b : FinishAt(events, i)
<1> DEFINE a == eventCursor
           d == DueUpTo(t)
           start == [state EXCEPT !.respawns = 0, !.finish = FALSE]
           Eq(h) == h = [n \in 0..d |-> IF n = 0 THEN start
                                        ELSE Consume(h[n - 1], events[a + n])]
           made == CHOOSE h : Eq(h)
<1>1. a \in Nat /\ d \in Nat /\ a + d <= Len(events)
  BY DueFacts
<1>2. PICK before \in [Times -> Nat] : Laid(before, inputs, events)
  BY Layout DEF Sampler
<1>3. events \in Seq(Timed) /\ Len(events) \in Nat
  BY <1>2, LaidFacts DEF Sampler
<1>4. start \in States /\ start.respawns = 0 /\ start.finish = FALSE
      /\ start.value = state.value /\ start.time = state.time
  <2>1. state \in States
    BY DEF Sampler, KeepsAll
  <2> QED
    BY <2>1 DEF States
<1>5. KeepsAll(start, events, a)
  <2> HIDE DEF start
  <2> QED
    BY <1>4 DEF Sampler, KeepsAll, Keeps
<1>6. Sampled(t) = made[d]
  BY DEF Sampled
<1> HIDE DEF a, d, start
<1>7. \E h : Eq(h)
  <2> DEFINE step == [n \in 1..d |-> [s \in States |-> Consume(s, events[a + n])]]
  <2>1. ASSUME NEW n \in 1..d PROVE events[a + n] \in Timed
    BY <1>1, <1>3
  <2>2. step \in [1..d -> [States -> States]]
    <3>1. \A n \in 1..d : \A s \in States : Consume(s, events[a + n]) \in States
      BY <2>1, ConsumeFacts
    <3> QED
      BY <3>1
  <2> HIDE DEF step
  <2>3. PICK f \in [0..d -> States] : f[0] = start /\ \A n \in 1..d : f[n] = step[n][f[n - 1]]
    <3>1. start \in States /\ d \in Nat
      BY <1>1, <1>4
    <3> QED
      BY <2>2, <3>1, StepByStep
  <2>4. ASSUME NEW n \in 0..d
        PROVE  f[n] = IF n = 0 THEN start ELSE Consume(f[n - 1], events[a + n])
    <3>1. CASE n = 0
      BY <2>3, <3>1
    <3>2. CASE n # 0
      <4>1. n \in 1..d /\ n - 1 \in 0..d
        BY <1>1, <3>2
      <4>2. f[n - 1] \in States
        BY <4>1
      <4> QED
        BY <2>3, <3>2, <4>1, <4>2 DEF step
    <3> QED
      BY <3>1, <3>2
  <2>5. f = [n \in 0..d |-> f[n]]
    OBVIOUS
  <2>6. Eq(f)
    BY <2>4, <2>5
  <2> HIDE DEF Eq
  <2> QED
    BY <2>6
<1>8. Eq(made)
  <2> HIDE DEF Eq
  <2> QED
    BY <1>7, Zenon
<1> HIDE DEF made
<1>9. made = [n \in 0..d |-> IF n = 0 THEN start ELSE Consume(made[n - 1], events[a + n])]
  BY <1>8
<1>10. /\ KeepsAll(made[d], events, a + d)
       /\ made[d].respawns = Cardinality({i \in (a + 1)..(a + d) : RespawnAt(events, i)})
       /\ made[d].finish <=> \E i \in (a + 1)..(a + d) : FinishAt(events, i)
  BY <1>1, <1>3, <1>4, <1>5, <1>9, WalkOverEvents, SMTT(30)
<1> QED
  BY <1>6, <1>10 DEF a, d

\* What a tick takes from a state, it takes from these actions.
LEMMA ControlsAgree ==
    ASSUME NEW s, NEW r,
           \A a \in StuntActions : s.value[a] = r.value[a] /\ s.time[a] = r.time[a]
    PROVE  Controls(s) = Controls(r) /\ StuntInputs(s) = StuntInputs(r)
<1>1. \A a \in {"Accelerate", "Brake", "SteerLeft", "SteerRight", "Steer", "Gas"} :
          s.value[a] = r.value[a] /\ s.time[a] = r.time[a]
  BY DEF StuntActions, Keys, Axes
<1>2. StuntInputs(s) = StuntInputs(r)
  BY DEF StuntInputs
<1>3. SteersByAxis(s) = SteersByAxis(r)
  BY <1>1 DEF SteersByAxis, Outdates, Tied, Held
<1>4. GasByAxis(s) = GasByAxis(r)
  BY <1>1 DEF GasByAxis, Outdates, Tied, Held
<1>5. KeySteering(s) = KeySteering(r)
  BY <1>1 DEF KeySteering, Held
<1> QED
  BY <1>1, <1>2, <1>3, <1>4, <1>5 DEF Controls, Held

LEMMA StateAtIs ==
    ASSUME NEW in, NEW t, NEW a \in Actions
    PROVE  /\ StateAt(in, t).time[a] = LastTime(in, a, t)
           /\ StateAt(in, t).value[a] = Value(in, a, LastTime(in, a, t))
<1> DEFINE last == Evaluated([b \in Actions |-> LastTime(in, b, t)])
<1>1. ASSUME NEW f PROVE Evaluated(f) = f
  BY DEF Evaluated
<1>2. last = [b \in Actions |-> LastTime(in, b, t)]
  BY <1>1
<1> HIDE DEF last
<1>3. Evaluated([b \in Actions |-> Value(in, b, last[b])])
          = [b \in Actions |-> Value(in, b, last[b])]
  BY <1>1
<1>4. StateAt(in, t).time = last
      /\ StateAt(in, t).value = [b \in Actions |-> Value(in, b, last[b])]
  BY <1>3 DEF StateAt, last
<1> QED
  BY <1>2, <1>4

\* The times of a turn, by its number.
LEMMA TurnNumbers ==
    ASSUME request \in Requests, Walk
    PROVE  LET t == clock + request.tick
           IN /\ request.tick \in Nat \ {0} /\ clock \in Nat /\ t \in Nat /\ clock < t
              /\ t - request.tick = clock
              /\ t > request.tick <=> ticks # <<>>
              /\ EarlierTicks(request, t) = TicksUpTo(clock)
              /\ \A u : u \in TicksUpTo(t) <=> u \in TicksUpTo(clock) \/ u = t
<1> DEFINE tick == request.tick
           n == Len(ticks)
           t == clock + tick
<1>1. tick \in Nat \ {0} /\ clock \in Nat /\ n \in Nat /\ clock = n * tick
  BY WalkType DEF Walk
<1>2. n = 0 <=> ticks = <<>>
  <2>1. ticks = [k \in 1..n |-> ticks[k]]
    BY DEF Walk, IsSeq
  <2>2. ASSUME n = 0 PROVE ticks = <<>>
    <3>1. 1..n = {}
      BY <2>2
    <3>2. DOMAIN ticks = {}
      BY <2>1, <3>1
    <3>3. ticks = [k \in {} |-> ticks[k]]
      BY <2>1, <3>1
    <3> QED
      BY <3>3
  <2> QED
    BY <2>2
<1>3. t = (n + 1) * tick /\ (clock > 0 <=> n > 0)
  BY <1>1, TicksAscend
<1> HIDE DEF tick, n
<1>4. t \in Nat /\ clock < t /\ t - tick = clock /\ (t > tick <=> ticks # <<>>)
  BY <1>1, <1>2, <1>3
<1>5. t % tick = 0
  BY <1>1, <1>3, TicksDivide
<1>6. ASSUME NEW u \in 1..t, u % tick = 0, u # t PROVE u <= clock
  <2>1. u \in Nat /\ u = (u \div tick) * tick /\ u \div tick \in Nat
    BY <1>1, <1>4, <1>6, OnTicks
  <2> DEFINE k == u \div tick
  <2> HIDE DEF k
  <2>2. k \in Nat /\ u = k * tick
    BY <2>1 DEF k
  <2>3. u < t
    BY <1>4, <1>6
  <2>4. k * tick < (n + 1) * tick
    BY <1>3, <2>2, <2>3
  <2>5. n + 1 \in Nat
    BY <1>1
  <2>6. k < n + 1
    BY <1>1, <2>2, <2>4, <2>5, TicksAscend
  <2>7. k < n \/ k = n
    BY <1>1, <2>2, <2>6
  <2>8. k < n => k * tick < n * tick
    BY <1>1, <2>2, TicksAscend
  <2> QED
    BY <1>1, <2>1, <2>2, <2>7, <2>8
<1>7. EarlierTicks(request, t) = TicksUpTo(clock)
  <2>1. ASSUME NEW u \in 1..(t - 1), u % tick = 0 PROVE u \in 1..clock
    <3>1. u \in 1..t /\ u # t
      BY <1>4
    <3>2. u <= clock
      BY <1>6, <2>1, <3>1
    <3> HIDE DEF t
    <3> QED
      BY <1>1, <3>1, <3>2
  <2>2. \A u \in 1..clock : u \in 1..(t - 1)
    BY <1>1, <1>4
  <2> HIDE DEF t
  <2> QED
    BY <2>1, <2>2 DEF EarlierTicks, TicksUpTo, tick
<1>8. ASSUME NEW u PROVE u \in TicksUpTo(t) <=> u \in TicksUpTo(clock) \/ u = t
  <2>1. t \in 1..t /\ \A v \in 1..clock : v \in 1..t
    BY <1>1, <1>4
  <2>2. \A v \in 1..t : v % tick = 0 => v \in 1..clock \/ v = t
    BY <1>1, <1>4, <1>6
  <2> HIDE DEF t
  <2> QED
    BY <1>5, <2>1, <2>2 DEF TicksUpTo, tick
<1> QED
  BY <1>1, <1>4, <1>7, <1>8 DEF tick

LEMMA TurnState ==
    ASSUME request \in Requests, Walk, Sampler
    PROVE  LET t == clock + request.tick
               s == Sampled(t)
           IN /\ Controls(s) = Controls(StateAt(inputs, t))
              /\ StuntInputs(s) = StuntInputs(StateAt(inputs, t))
              /\ s.value["RaceRunning"] # 0 <=> Pressed(inputs, "RaceRunning", t)
              /\ s.respawns = Respawns(request, inputs, t)
              /\ s.finish = FinishPressed(request, inputs, t)
<1> DEFINE t == clock + request.tick
           s == Sampled(t)
           a == eventCursor
           b == eventCursor + DueUpTo(t)
<1>1. PICK before \in [Times -> Nat] : Laid(before, inputs, events)
  BY Layout DEF Sampler
<1>2. /\ t \in Nat /\ clock \in Nat /\ clock < t /\ request.tick \in Nat \ {0}
      /\ t - request.tick = clock /\ (t > request.tick <=> ticks # <<>>)
  BY TurnNumbers
<1>3. /\ inputs \in Inputs /\ a \in Nat /\ b \in Nat /\ b <= Len(events) /\ a <= b
      /\ \A i \in 1..Len(events) : i > a => (i <= b <=> events[i].time <= t)
      /\ Len(events) \in Nat
  <2>1. inputs \in Inputs /\ Len(events) \in Nat
    BY <1>1, LaidFacts DEF Sampler
  <2>2. /\ a \in Nat /\ DueUpTo(t) \in Nat /\ b \in Nat /\ b <= Len(events)
        /\ \A i \in 1..Len(events) : i > a => (i <= b <=> events[i].time <= t)
    BY <1>2, DueFacts
  <2> QED
    BY <2>1, <2>2
<1>4. /\ KeepsAll(s, events, b)
      /\ s.respawns = Cardinality({i \in (a + 1)..b : RespawnAt(events, i)})
      /\ s.finish <=> \E i \in (a + 1)..b : FinishAt(events, i)
  BY <1>2, SampledFacts
<1> HIDE DEF t, s, b
<1>5. \A i \in 1..Len(events) : events[i].time \in Times /\ events[i].time \in Int
  <2>1. ASSUME NEW i \in 1..Len(events) PROVE events[i] \in Timed
    <3>1. events \in Seq(Timed)
      BY <1>1, <1>3, LaidFacts
    <3> QED
      BY <3>1
  <2> QED
    BY <2>1, MaxTimeAssumption DEF Timed, Times
<1>6. \A i \in 1..Len(events) : i <= a => events[i].time <= clock
  BY <1>3 DEF Sampler
<1>7. \A i \in 1..Len(events) : i > a /\ ticks # <<>> => events[i].time > clock
  BY <1>3 DEF Sampler
<1>8. \A i \in 1..Len(events) : i <= b <=> events[i].time <= t
  <2>1. ASSUME NEW i \in 1..Len(events), i <= a PROVE i <= b /\ events[i].time <= t
    BY <1>2, <1>3, <1>5, <1>6, <2>1
  <2> QED
    BY <1>3, <2>1
<1>9. ASSUME NEW c \in Kept
      PROVE  /\ s.time[c] = LastTime(inputs, c, t)
             /\ s.value[c] = Value(inputs, c, LastTime(inputs, c, t))
  <2>1. c \in Actions /\ t \in Int /\ b \in 0..Len(events) /\ Keeps(s, events, c, b)
    BY <1>2, <1>3, <1>4 DEF Kept, KeepsAll
  <2> QED
    <3>1. inputs \in Inputs /\ \A i \in 1..Len(events) :
              events[i].action = c => (i <= b <=> events[i].time <= t)
      BY <1>3, <1>8, Zenon
    <3> QED
      BY <1>1, <2>1, <3>1, KeptIsState
<1>10. /\ Controls(s) = Controls(StateAt(inputs, t))
       /\ StuntInputs(s) = StuntInputs(StateAt(inputs, t))
  <2>1. ASSUME NEW c \in StuntActions
        PROVE  /\ s.value[c] = StateAt(inputs, t).value[c]
               /\ s.time[c] = StateAt(inputs, t).time[c]
    <3>1. c \in Kept /\ c \in Actions
      BY DEF StuntActions, Keys, Axes, Kept, Actions
    <3> QED
      BY <1>9, <3>1, StateAtIs
  <2> QED
    BY <2>1, ControlsAgree
<1>11. s.value["RaceRunning"] # 0 <=> Pressed(inputs, "RaceRunning", t)
  <2>1. "RaceRunning" \in Kept
    BY DEF Kept, Actions
  <2> QED
    BY <1>9, <2>1 DEF Pressed
<1>12. \A i \in 1..Len(events) : i \in (a + 1)..b <=> events[i].time \in DueTimes(request, t)
  <2>1. ASSUME NEW i \in 1..Len(events)
        PROVE  i \in (a + 1)..b <=> events[i].time \in DueTimes(request, t)
    <3>1. events[i].time \in DueTimes(request, t)
             <=> events[i].time <= t /\ (ticks # <<>> => events[i].time > clock)
      BY <1>2, <1>5 DEF DueTimes
    <3>2. i \in (a + 1)..b <=> i > a /\ i <= b
      BY <1>3
    <3>3. ticks = <<>> => i > a
      BY DEF Sampler
    <3>4. i > a \/ i <= a
      BY <1>3
    <3>5. i <= a => ~(events[i].time > clock)
      BY <1>2, <1>5, <1>6
    <3>6. i > a /\ ticks # <<>> => events[i].time > clock
      BY <1>7
    <3>7. i <= b <=> events[i].time <= t
      BY <1>8
    <3>8. ~(i > a /\ i <= a)
      BY <1>3
    <3> HIDE DEF a
    <3> QED
      BY <3>1, <3>2, <3>3, <3>4, <3>5, <3>6, <3>7, <3>8
  <2> QED
    BY <2>1
<1>13. /\ Respawns(request, inputs, t) = Cardinality({i \in (a + 1)..b : RespawnAt(events, i)})
       /\ FinishPressed(request, inputs, t) <=> \E i \in (a + 1)..b : FinishAt(events, i)
  <2>1. inputs \in Inputs /\ a \in Nat /\ b \in Nat /\ b <= Len(events)
    BY <1>3
  <2> HIDE DEF a
  <2> QED
    BY <1>1, <1>12, <2>1, DueIsWalked, Zenon
<1>14. s.finish \in BOOLEAN
  BY <1>4 DEF KeepsAll, States
<1>15. s.finish = FinishPressed(request, inputs, t)
  <2>1. FinishPressed(request, inputs, t) \in BOOLEAN
    BY DEF FinishPressed
  <2> QED
    BY <1>4, <1>13, <1>14, <2>1
<1> QED
  BY <1>4, <1>10, <1>11, <1>13, <1>15 DEF t, s

LEMMA TurnTransitions ==
    ASSUME request \in Requests, Walk, Sampler
    PROVE  LET t == clock + request.tick
               s == Sampled(t)
           IN /\ Spawns(t) <=> SpawnsRace(request, t)
              /\ Resets(t, s) <=> ResetsRace(request, inputs, t)
              /\ spawned \/ Spawns(t)
                    <=> \E u \in TicksUpTo(t) : AtOrAfter(u, SpawnTime(request))
              /\ resetDone \/ Resets(t, s)
                    <=> \E u \in TicksUpTo(t) : StartsRunning(request, inputs, u)
<1> DEFINE t == clock + request.tick
           s == Sampled(t)
           Starts(u) == StartsRunning(request, inputs, u)
           Established(u) == AtOrAfter(u, SpawnTime(request))
<1>1. /\ t - request.tick = clock /\ (t > request.tick <=> ticks # <<>>)
      /\ EarlierTicks(request, t) = TicksUpTo(clock)
      /\ \A u : u \in TicksUpTo(t) <=> u \in TicksUpTo(clock) \/ u = t
  BY TurnNumbers
<1>2. s.value["RaceRunning"] # 0 <=> Pressed(inputs, "RaceRunning", t)
  BY TurnState
<1> HIDE DEF t, s
<1>3. Starts(t) <=> /\ AtOrAfter(t, request.enable) /\ ~running
                    /\ s.value["RaceRunning"] # 0
  BY <1>1, <1>2 DEF StartsRunning, Sampler
<1>4. /\ resetDone <=> \E u \in TicksUpTo(clock) : Starts(u)
      /\ spawned <=> \E u \in TicksUpTo(clock) : Established(u)
  BY DEF Sampler
<1>5. Resets(t, s) <=> Starts(t) /\ ~resetDone
  BY <1>3 DEF Resets
<1>6. ResetsRace(request, inputs, t) <=> Starts(t) /\ ~resetDone
  <2> HIDE DEF Starts
  <2>1. ResetsRace(request, inputs, t)
           <=> Starts(t) /\ \A u \in TicksUpTo(clock) : ~Starts(u)
    BY <1>1, Zenon DEF ResetsRace, Starts
  <2> QED
    BY <1>4, <2>1, Zenon
<1>7. Spawns(t) <=> Established(t) /\ ~spawned
  BY DEF Spawns
<1>8. SpawnsRace(request, t) <=> Established(t) /\ ~spawned
  <2> HIDE DEF Established
  <2>1. SpawnsRace(request, t)
           <=> Established(t) /\ \A u \in TicksUpTo(clock) : ~Established(u)
    BY <1>1, Zenon DEF SpawnsRace, Established
  <2> QED
    BY <1>4, <2>1, Zenon
<1> HIDE DEF Starts, Established
<1>9. (\E u \in TicksUpTo(t) : Starts(u))
         <=> (\E u \in TicksUpTo(clock) : Starts(u)) \/ Starts(t)
  BY <1>1, Zenon
<1>10. (\E u \in TicksUpTo(t) : Established(u))
          <=> (\E u \in TicksUpTo(clock) : Established(u)) \/ Established(t)
  BY <1>1, Zenon
<1>11. resetDone \/ Resets(t, s) <=> \E u \in TicksUpTo(t) : Starts(u)
  BY <1>4, <1>5, <1>9, Zenon
<1>12. spawned \/ Spawns(t) <=> \E u \in TicksUpTo(t) : Established(u)
  BY <1>4, <1>7, <1>10, Zenon
<1> QED
  BY <1>5, <1>6, <1>7, <1>8, <1>11, <1>12 DEF t, s, Starts, Established

\* The tick that a turn makes is what the inputs say of its time.
LEMMA TurnControl ==
    ASSUME request \in Requests, Walk, Sampler
    PROVE  LET t == clock + request.tick
           IN MakeTick(t, Sampled(t)).control = Control(request, inputs, t)
<1> DEFINE t == clock + request.tick
           s == Sampled(t)
<1>1. /\ Controls(s) = Controls(StateAt(inputs, t))
      /\ StuntInputs(s) = StuntInputs(StateAt(inputs, t))
      /\ s.respawns = Respawns(request, inputs, t)
      /\ s.finish = FinishPressed(request, inputs, t)
  BY TurnState
<1>2. /\ Spawns(t) <=> SpawnsRace(request, t)
      /\ Resets(t, s) <=> ResetsRace(request, inputs, t)
  BY TurnTransitions
<1>3. Spawns(t) = SpawnsRace(request, t)
  BY <1>2 DEF Spawns, SpawnsRace
<1>4. Resets(t, s) = ResetsRace(request, inputs, t)
  BY <1>2 DEF Resets, ResetsRace
<1> HIDE DEF t, s
<1> QED
  BY <1>1, <1>3, <1>4 DEF MakeTick, Control, t, s

LEMMA TurnSampler ==
    ASSUME request \in Requests, Walk, Sampler, BuildTick
    PROVE  Sampler'
<1> DEFINE t == clock + request.tick
           s == Sampled(t)
           b == eventCursor + DueUpTo(t)
           n == Len(ticks)
<1>1. /\ UNCHANGED <<request, inputs, events>> /\ clock' = t
      /\ ticks' = Append(ticks, MakeTick(t, s)) /\ t = (n + 1) * request.tick
  BY TurnTime
<1>2. /\ state' = s /\ eventCursor' = b
      /\ running' = (s.value["RaceRunning"] # 0)
      /\ resetDone' = (resetDone \/ Resets(t, s))
      /\ spawned' = (spawned \/ Spawns(t))
  BY DEF BuildTick
<1>3. /\ t \in Nat /\ clock \in Nat /\ clock < t
  BY TurnNumbers
<1>4. /\ eventCursor \in Nat /\ DueUpTo(t) \in Nat /\ b \in Nat /\ b <= Len(events)
      /\ \A i \in 1..Len(events) : i > eventCursor => (i <= b <=> events[i].time <= t)
      /\ eventCursor <= b
  <2>1. /\ eventCursor \in Nat /\ DueUpTo(t) \in Nat /\ b \in Nat /\ b <= Len(events)
        /\ \A i \in 1..Len(events) : i > eventCursor => (i <= b <=> events[i].time <= t)
    BY <1>3, DueFacts
  <2> QED
    BY <2>1
<1>5. KeepsAll(s, events, b)
  BY <1>3, SampledFacts
<1>6. s.value["RaceRunning"] # 0 <=> Pressed(inputs, "RaceRunning", t)
  BY TurnState
<1>7. /\ spawned \/ Spawns(t) <=> \E u \in TicksUpTo(t) : AtOrAfter(u, SpawnTime(request))
      /\ resetDone \/ Resets(t, s)
            <=> \E u \in TicksUpTo(t) : StartsRunning(request, inputs, u)
  BY TurnTransitions
<1>8. /\ n \in Nat /\ DOMAIN ticks = 1..n /\ DOMAIN ticks' = 1..(n + 1)
      /\ \A k \in 1..n : ticks'[k] = ticks[k]
      /\ ticks'[n + 1] = MakeTick(t, s)
  <2>1. IsSeq(ticks) /\ n \in Nat /\ DOMAIN ticks = 1..n
    BY WalkType DEF Walk
  <2> DEFINE m == MakeTick(t, s)
  <2>2. ticks' = Append(ticks, m)
    BY <1>1
  <2> HIDE DEF m
  <2> QED
    BY <2>1, <2>2, AppendTo DEF m
<1>9. MakeTick(t, s).control = Control(request, inputs, t)
  BY TurnControl
<1> HIDE DEF t, s, b, n
<1>10. ticks' # <<>>
  BY <1>8
<1>11. PICK before \in [Times -> Nat] : Laid(before, inputs, events)
  BY Layout DEF Sampler
<1>12. events \in Seq(Timed) /\ Len(events) \in Nat
  BY <1>11, LaidFacts DEF Sampler
<1>13. \A i \in 1..Len(events) : events[i].time \in Int
  <2>1. \A i \in 1..Len(events) : events[i] \in Timed
    BY <1>12
  <2> QED
    BY <2>1, MaxTimeAssumption DEF Timed, Times
<1>14. \A i \in 1..b : events[i].time <= t
  <2>1. ASSUME NEW i \in 1..b PROVE events[i].time <= t
    <3>1. CASE i <= eventCursor
      <4>1. i \in 1..eventCursor /\ i \in 1..Len(events)
        BY <1>4, <1>12, <3>1
      <4>2. events[i].time <= clock
        BY <4>1 DEF Sampler
      <4> QED
        BY <1>3, <1>13, <4>1, <4>2
    <3>2. CASE i > eventCursor
      BY <1>4, <1>12, <3>2
    <3> QED
      BY <1>4, <3>1, <3>2
  <2> QED
    BY <2>1
<1>15. \A i \in (b + 1)..Len(events) : events[i].time > t
  <2>1. ASSUME NEW i \in (b + 1)..Len(events) PROVE events[i].time > t
    <3>1. i \in 1..Len(events) /\ i > eventCursor /\ ~(i <= b)
      BY <1>4, <1>12
    <3>2. ~(events[i].time <= t)
      BY <1>4, <3>1
    <3> QED
      BY <1>3, <1>13, <3>1, <3>2
  <2> QED
    BY <2>1
<1>16. \A k \in 1..(n + 1) : ticks'[k].control = Control(request, inputs, k * request.tick)
  <2>1. ASSUME NEW k \in 1..(n + 1)
        PROVE  ticks'[k].control = Control(request, inputs, k * request.tick)
    <3>1. CASE k = n + 1
      BY <1>1, <1>8, <1>9, <3>1
    <3>2. CASE k # n + 1
      <4>1. k \in 1..n
        BY <1>8, <3>2
      <4> QED
        BY <1>8, <4>1 DEF Sampler
    <3> QED
      BY <3>1, <3>2
  <2> QED
    BY <2>1
<1>17. running' \in BOOLEAN /\ resetDone' \in BOOLEAN /\ spawned' \in BOOLEAN
  BY <1>2 DEF Sampler, Resets, Spawns
<1>18. b \in 0..Len(events)
  BY <1>4, <1>12
<1>19. TicksUpTo(clock)' = TicksUpTo(t)
  BY <1>1 DEF TicksUpTo
<1>20. /\ (inputs \in Inputs /\ events = Flat(inputs))'
       /\ (eventCursor \in 0..Len(events))'
       /\ (\A i \in 1..eventCursor : events[i].time <= clock)'
       /\ (\A i \in (eventCursor + 1)..Len(events) : events[i].time > clock)'
       /\ KeepsAll(state, events, eventCursor)'
  BY <1>1, <1>2, <1>5, <1>14, <1>15, <1>18 DEF Sampler
<1>21. /\ (running <=> Pressed(inputs, "RaceRunning", clock))'
       /\ (resetDone <=> \E u \in TicksUpTo(clock) : StartsRunning(request, inputs, u))'
       /\ (spawned <=> \E u \in TicksUpTo(clock) : AtOrAfter(u, SpawnTime(request)))'
  BY <1>1, <1>2, <1>6, <1>7, <1>19
<1>22. (\A k \in DOMAIN ticks : ticks[k].control = Control(request, inputs, k * request.tick))'
  BY <1>1, <1>8, <1>16
<1> QED
  BY <1>10, <1>17, <1>20, <1>21, <1>22 DEF Sampler

-----------------------------------------------------------------------------
(* The plan, tick by tick, and the respawns it delivers.                   *)

\* The first n ticks are of the loop, and the trailing tick delivers nothing.
Settled(n) ==
    /\ IsSeq(ticks) /\ (Len(ticks) = n \/ Len(ticks) = n + 1)
    /\ clock = n * request.tick /\ (n > 0 => request.tick # 0)
    /\ \A k \in 1..n : ticks[k].control = Control(request, inputs, k * request.tick)
    /\ \A k \in (n + 1)..Len(ticks) :
          ~(ticks[k].control.clock <= clock) /\ ticks[k].control.respawns = 0

Fresh ==
    /\ inputs \in Inputs /\ events = Flat(inputs)
    /\ state = StartState /\ eventCursor = 0
    /\ running = FALSE /\ resetDone = FALSE /\ spawned = FALSE

SInv ==
    /\ inputs \in Inputs
    /\ result = "unchecked" => Fresh
    /\ result = "building" => Sampler
    /\ \E n \in Nat : Settled(n)

LEMMA SettledTicks ==
    ASSUME request \in Requests, NEW n \in Nat, Settled(n)
    PROVE  /\ request.tick \in Nat /\ Len(ticks) \in Nat /\ DOMAIN ticks = 1..Len(ticks)
           /\ Sampling = 1..n /\ n <= Len(ticks)
<1> DEFINE m == Len(ticks)
           tick == request.tick
<1>1. /\ tick \in Nat /\ m \in Nat /\ DOMAIN ticks = 1..m
      /\ \A k \in 1..n : ticks[k].control = Control(request, inputs, k * tick)
      /\ \A k \in (n + 1)..m : ~(ticks[k].control.clock <= clock)
  BY RequestType DEF Settled, IsSeq
<1>2. m = n \/ m = n + 1
  BY DEF Settled
<1>3. clock = n * tick /\ (n > 0 => tick # 0)
  BY DEF Settled
<1>4. \A k \in DOMAIN ticks : k \in Sampling <=> ticks[k].control.clock <= clock
  BY DEF Sampling
<1>5. Sampling \subseteq DOMAIN ticks
  BY DEF Sampling
<1> HIDE DEF m, tick
<1>6. n <= m /\ \A k \in 1..m : k \in 1..n \/ k = n + 1
  BY <1>1, <1>2
<1>7. \A k \in 1..n : k \in 1..m
  BY <1>1, <1>2
<1>8. ASSUME NEW k \in 1..n PROVE k \in Sampling
  <2>1. tick \in Nat \ {0}
    BY <1>1, <1>3
  <2>2. ticks[k].control = Control(request, inputs, k * tick)
    BY <1>1
  <2>3. ticks[k].control.clock = k * tick
    BY <2>2 DEF Control
  <2>4. k < n \/ k = n
    OBVIOUS
  <2>5. k < n => k * tick < n * tick
    BY <2>1, TicksAscend
  <2>6. k * tick \in Nat /\ n * tick \in Nat
    BY <2>1
  <2>7. k * tick <= n * tick
    BY <2>4, <2>5, <2>6
  <2>8. k \in DOMAIN ticks
    BY <1>1, <1>7
  <2> QED
    BY <1>3, <1>4, <2>3, <2>7, <2>8
<1>9. n + 1 \notin Sampling
  <2> SUFFICES ASSUME n + 1 \in DOMAIN ticks PROVE ~(ticks[n + 1].control.clock <= clock)
    BY <1>4, <1>5
  <2>1. n + 1 \in (n + 1)..m
    BY <1>1
  <2> QED
    BY <1>1, <2>1
<1>10. ASSUME NEW k \in Sampling PROVE k \in 1..n
  <2>1. k \in 1..m
    BY <1>1, <1>5
  <2> QED
    BY <1>6, <1>9, <1>10, <2>1
<1>11. Sampling = 1..n
  BY <1>8, <1>10
<1> QED
  BY <1>1, <1>6, <1>11 DEF m, tick

LEMMA SettledSamples ==
    ASSUME request \in Requests, SInv
    PROVE  TicksSampleTheInputs
<1>1. PICK n \in Nat : Settled(n)
  BY DEF SInv
<1>2. Sampling = 1..n
  BY <1>1, SettledTicks
<1> QED
  BY <1>1, <1>2 DEF TicksSampleTheInputs, Settled

LEMMA FreshSampler ==
    ASSUME request \in Requests, Fresh, clock = 0, ticks = <<>>
    PROVE  Sampler
<1>1. PICK before \in [Times -> Nat] : Laid(before, inputs, events)
  BY Layout DEF Fresh
<1>2. events \in Seq(Timed) /\ Len(events) \in Nat
  BY <1>1, LaidFacts DEF Fresh
<1>3. KeepsAll(state, events, 0)
  <2>1. state \in States
    BY DEF Fresh, StartState, States, Never
  <2>2. \A a \in Kept : state.value[a] = 0 /\ state.time[a] = Never
    BY DEF Fresh, StartState, Kept
  <2>3. \A a : NoneIn(events, a, 0)
    BY DEF NoneIn
  <2> QED
    BY <2>1, <2>2, <2>3 DEF KeepsAll, Keeps
<1>4. TicksUpTo(clock) = {}
  <2>1. 1..0 = {}
    OBVIOUS
  <2> QED
    BY <2>1 DEF TicksUpTo
<1>5. DOMAIN ticks = {}
  OBVIOUS
<1>6. 0 \in 0..Len(events) /\ 1..0 = {}
  BY <1>2
<1> QED
  BY <1>3, <1>4, <1>5, <1>6 DEF Fresh, Sampler

LEMMA SInvInit == Init => SInv
<1> SUFFICES ASSUME Init PROVE SInv
  OBVIOUS
<1>1. inputs \in Inputs /\ request \in Requests
  BY RequestAssumption DEF Init
<1>2. Settled(0)
  <2>1. IsSeq(ticks) /\ Len(ticks) = 0
    BY DEF Init, IsSeq
  <2>2. 1..0 = {} /\ (0 + 1)..0 = {}
    OBVIOUS
  <2>3. clock = 0 /\ request.tick \in Nat
    BY <1>1, RequestType DEF Init
  <2>4. clock = 0 * request.tick
    BY <2>3
  <2> QED
    BY <2>1, <2>2, <2>4 DEF Settled
<1>3. Fresh /\ result = "unchecked"
  BY <1>1 DEF Init, Fresh
<1> QED
  BY <1>1, <1>2, <1>3 DEF SInv

\* A turn and the end of the walk leave the plan settled.
LEMMA TurnSettles ==
    ASSUME request \in Requests, Walk, Sampler, BuildTick
    PROVE  \E n \in Nat : Settled(n)'
<1> DEFINE n == Len(ticks) + 1
<1>1. Sampler' /\ Walk' /\ request' = request
  BY TurnSampler, TurnWalk, TurnTime
<1>2. Len(ticks') = n /\ DOMAIN ticks' = 1..n /\ n \in Nat
  BY TurnTicks, WalkType
<1>3. /\ IsSeq(ticks') /\ clock' = n * request'.tick /\ request'.tick # 0
      /\ \A k \in 1..n : ticks'[k].control = Control(request', inputs', k * request'.tick)
  BY <1>1, <1>2, TargetType DEF Walk, Sampler
<1> HIDE DEF n
<1>4. (n + 1)..Len(ticks') = {}
  BY <1>2
<1>5. ASSUME NEW m \in Nat, m = n PROVE Settled(m)'
  BY <1>2, <1>3, <1>4, <1>5 DEF Settled
<1> QED
  BY <1>2, <1>5

LEMMA FinishSettles ==
    ASSUME request \in Requests, Walk, Sampler, FinishPlan
    PROVE  \E n \in Nat : Settled(n)'
<1> DEFINE n == Len(ticks)
           more == Trailing(ticks[n])
<1>1. /\ n \in Nat /\ DOMAIN ticks = 1..n /\ IsSeq(ticks) /\ clock = n * request.tick
      /\ request.tick \in Nat \ {0}
      /\ \A k \in 1..n : ticks[k].control = Control(request, inputs, k * request.tick)
  BY WalkType DEF Walk, Sampler
<1>2. UNCHANGED <<request, inputs, clock>>
  BY DEF FinishPlan
<1>3. CASE ticks' = ticks
  <2>1. Len(ticks') = n /\ (n + 1)..n = {}
    BY <1>1, <1>3
  <2>2. Settled(n)'
    BY <1>1, <1>2, <1>3, <2>1 DEF Settled
  <2> QED
    BY <1>1, <2>2
<1>4. CASE ticks' # ticks
  <2>1. ticks' = Append(ticks, more) /\ ticks # <<>>
    BY <1>4 DEF FinishPlan
  <2>2. n \in DOMAIN ticks
    BY <1>1, <2>1 DEF IsSeq
  <2>3. more.control.clock = clock + request.tick /\ more.control.respawns = 0
    <3> DEFINE last == ticks[n]
    <3>1. IsTick(last) /\ last.control.clock = clock
      BY <1>1, <2>2 DEF Walk, Carried
    <3> HIDE DEF last
    <3>2. LET tr == Trailing(last)
          IN tr.control.clock = clock + request.tick /\ tr.control.respawns = 0
      BY <3>1 DEF Trailing, IsTick, IsControl
    <3> QED
      BY <3>2 DEF last
  <2> HIDE DEF more
  <2>4. /\ IsSeq(ticks') /\ Len(ticks') = n + 1
        /\ \A k \in 1..n : ticks'[k] = ticks[k]
        /\ ticks'[n + 1] = more
    BY <1>1, <2>1, AppendTo
  <2> HIDE DEF n
  <2>5. \A k \in (n + 1)..(n + 1) : k = n + 1
    BY <1>1
  <2>6. ~(clock + request.tick <= clock)
    BY <1>1
  <2>7. ASSUME NEW m \in Nat, m = n PROVE Settled(m)'
    <3>1. /\ IsSeq(ticks') /\ Len(ticks') = m + 1
          /\ clock' = m * request'.tick /\ request'.tick # 0
      BY <1>1, <1>2, <2>4, <2>7
    <3>2. \A k \in 1..m : ticks'[k].control = Control(request', inputs', k * request'.tick)
      BY <1>1, <1>2, <2>4, <2>7
    <3>3. \A k \in (m + 1)..(m + 1) :
              ~(ticks'[k].control.clock <= clock') /\ ticks'[k].control.respawns = 0
      BY <1>2, <2>3, <2>4, <2>5, <2>6, <2>7
    <3> QED
      BY <3>1, <3>2, <3>3 DEF Settled
  <2> QED
    BY <1>1, <2>7
<1> QED
  BY <1>3, <1>4

LEMMA SInvStep ==
    ASSUME IInv, SInv, [Next]_vars
    PROVE  SInv'
<1> USE DEF IInv
<1>1. PICK n \in Nat : Settled(n)
  BY DEF SInv
<1>2. UNCHANGED <<request, inputs, clock, ticks>> => Settled(n)'
  BY <1>1 DEF Settled
<1>3. CASE CheckRequest
  <2>1. UNCHANGED <<request, inputs, events, clock, state, eventCursor, running,
                    resetDone, spawned, ticks>> /\ result = "unchecked"
    BY <1>3 DEF CheckRequest, UntouchedPlan
  <2>2. Fresh /\ clock = 0 /\ ticks = <<>>
    BY <2>1 DEF SInv
  <2>3. Sampler
    BY <2>2, FreshSampler
  <2>4. Sampler'
    BY <2>1, <2>3 DEF Sampler, TicksUpTo
  <2>5. result' # "unchecked"
    BY <1>3 DEF CheckRequest
  <2> QED
    BY <1>2, <2>1, <2>4, <2>5 DEF SInv
<1>4. CASE BuildTick
  <2>1. result = "building" /\ UNCHANGED <<result, inputs>>
    BY <1>4 DEF BuildTick
  <2> QED
    BY <1>4, <2>1, TurnSampler, TurnSettles DEF SInv
<1>5. CASE FinishPlan
  <2>1. result = "building" /\ result' \notin {"unchecked", "building"} /\ inputs' = inputs
    BY <1>5 DEF FinishPlan
  <2> QED
    BY <1>5, <2>1, FinishSettles DEF SInv
<1>6. CASE RunOutOfMemory
  <2>1. /\ UNCHANGED <<request, inputs, clock, ticks>>
        /\ result' \notin {"unchecked", "building"}
    BY <1>6 DEF RunOutOfMemory, UntouchedPlan
  <2> QED
    BY <1>2, <2>1 DEF SInv
<1>7. CASE UNCHANGED vars
  <2>1. Sampler' <=> Sampler
    BY <1>7 DEF vars, Sampler, TicksUpTo
  <2>2. Fresh' <=> Fresh
    BY <1>7 DEF vars, Fresh
  <2> QED
    BY <1>2, <1>7, <2>1, <2>2 DEF SInv, vars
<1> QED
  BY <1>3, <1>4, <1>5, <1>6, <1>7 DEF Next

(* The walk over the events gives every tick of the plan what the inputs   *)
(* up to its sample time determine, for every timeline and every request.  *)
THEOREM TicksAreSamples == Spec => []TicksSampleTheInputs
<1>1. Init => IInv /\ TargetsComparedExactly /\ SInv
  BY IInvInit, SInvInit DEF Init, TargetsComparedExactly
<1>2. IInv /\ TargetsComparedExactly /\ SInv /\ [Next]_vars
         => (IInv /\ TargetsComparedExactly /\ SInv)'
  BY NextStep, SInvStep
<1>3. IInv /\ SInv => TicksSampleTheInputs
  BY SettledSamples DEF IInv
<1> QED
  BY <1>1, <1>2, <1>3, PTL DEF Spec

\* All places of an input timeline.
Pairs(in) == UNION {{<<u, k>> : k \in DOMAIN in[u]} : u \in Times}

LEMMA PairsAreFinite ==
    ASSUME NEW in \in Inputs
    PROVE  IsFiniteSet(Pairs(in)) /\ \A q, t : Due(q, in, t) \subseteq Pairs(in)
<1> DEFINE es == Flat(in)
           P == Pairs(in)
<1>1. PICK before \in [Times -> Nat] : Laid(before, in, es)
  BY Layout
<1> HIDE DEF es
<1> DEFINE F == [p \in P |-> before[p[1]] + p[2]]
<1>2. ASSUME NEW p \in P
      PROVE  p = <<p[1], p[2]>> /\ p[1] \in Times /\ p[2] \in DOMAIN in[p[1]]
             /\ F[p] = before[p[1]] + p[2] /\ F[p] \in 1..Len(es)
  <2>1. PICK u \in Times : p \in {<<u, k>> : k \in DOMAIN in[u]}
    BY DEF Pairs
  <2>2. PICK k \in DOMAIN in[u] : p = <<u, k>>
    BY <2>1
  <2>3. before[u] + k \in 1..Len(es)
    BY <1>1, LaidFacts
  <2> QED
    BY <2>2, <2>3
<1>3. F \in [P -> 1..Len(es)]
  BY <1>2
<1>4. ASSUME NEW x \in P, NEW y \in P, F[x] = F[y] PROVE x = y
  <2> DEFINE u == x[1]  k == x[2]  v == y[1]  j == y[2]
  <2>1. /\ x = <<u, k>> /\ y = <<v, j>> /\ u \in Times /\ v \in Times
        /\ k \in DOMAIN in[u] /\ j \in DOMAIN in[v]
        /\ before[u] + k = before[v] + j
    BY <1>2, <1>4
  <2> HIDE DEF u, k, v, j
  <2>2. /\ u \in Int /\ v \in Int /\ k \in Int /\ j \in Int
        /\ before[u] \in Int /\ before[v] \in Int
    <3>1. u \in Int /\ before[u] \in Nat /\ k \in Nat \ {0}
      BY <1>1, <2>1, PlaceFacts
    <3>2. v \in Int /\ before[v] \in Nat /\ j \in Nat \ {0}
      BY <1>1, <2>1, PlaceFacts
    <3> QED
      BY <3>1, <3>2
  <2>3. before[u] + k <= before[v] + j /\ before[v] + j <= before[u] + k
    BY <2>1, <2>2
  <2>4. u <= v /\ (u = v => k <= j) /\ v <= u /\ (v = u => j <= k)
    BY <1>1, <2>1, <2>3, PlacesAscend
  <2>5. u = v /\ k = j
    BY <2>2, <2>4
  <2> QED
    BY <2>1, <2>5
<1>5. F \in Injection(P, 1..Len(es))
  <2> HIDE DEF F, P
  <2> QED
    BY <1>3, <1>4 DEF Injection, IsInjective
<1>6. IsFiniteSet(1..Len(es))
  <2>1. Len(es) \in Int
    BY <1>1, LaidFacts
  <2> QED
    BY <2>1, FS_Interval
<1>7. IsFiniteSet(P)
  <2> HIDE DEF P, F
  <2> QED
    BY <1>5, <1>6, FS_Injection
<1>8. ASSUME NEW q, NEW t PROVE Due(q, in, t) \subseteq P
  BY DEF Due, DueTimes, Pairs
<1> QED
  BY <1>7, <1>8

\* Whether event p of the inputs is a respawn of a running race.
Delivers(in, p) == /\ in[p[1]][p[2]].action = "Respawn"
                   /\ Active(in[p[1]][p[2]])
                   /\ RunningBefore(in, p[1], p[2])

\* The ticks up to the k-th that deliver respawns, and the respawns due then.
Enabled(n, k) ==
    {i \in 1..n : i <= k /\ AtOrAfter(i * request.tick, request.enable)}

DueThen(I) ==
    {p \in UNION {Due(request, inputs, i * request.tick) : i \in I} : Delivers(inputs, p)}

\* Windows of different ticks do not meet.
LEMMA WindowsApart ==
    ASSUME request.tick \in Nat \ {0}, NEW i \in Nat \ {0}, NEW k \in Nat \ {0}, i < k,
           NEW p, p \in Due(request, inputs, i * request.tick)
    PROVE  p \notin Due(request, inputs, k * request.tick)
<1> DEFINE tick == request.tick
<1> SUFFICES ASSUME p \in Due(request, inputs, k * tick) PROVE FALSE
  OBVIOUS
<1>1. PICK u \in DueTimes(request, i * tick) : \E j \in DOMAIN inputs[u] : p = <<u, j>>
  BY DuePairs
<1>2. PICK v \in DueTimes(request, k * tick) : \E j \in DOMAIN inputs[v] : p = <<v, j>>
  BY DuePairs
<1>3. u = v
  BY <1>1, <1>2
<1>4. u \in Times /\ u \in Int /\ u <= i * tick /\ (k * tick > tick => u > k * tick - tick)
  BY <1>1, <1>2, <1>3, MaxTimeAssumption DEF DueTimes, Times
<1>5. tick \in Nat \ {0}
  OBVIOUS
<1> HIDE DEF tick
<1>6. k - 1 \in Nat /\ (k - 1) + 1 = k /\ (i < k - 1 \/ i = k - 1) /\ k - 1 > 0
  OBVIOUS
<1> DEFINE m == k - 1
<1>7. m \in Nat /\ k = m + 1 /\ (i < m \/ i = m) /\ 0 < m
  BY <1>6
<1> HIDE DEF m
<1>8. (m + 1) * tick = m * tick + tick /\ m * tick \in Nat /\ i * tick \in Nat
      /\ 0 * tick < m * tick
  BY <1>5, <1>7, TicksAscend
<1>9. i < m => i * tick < m * tick
  BY <1>5, <1>7, TicksAscend
<1>10. i * tick <= m * tick
  BY <1>7, <1>8, <1>9
<1>11. k * tick = m * tick + tick /\ 0 * tick = 0
  BY <1>5, <1>7, <1>8
<1> QED
  BY <1>4, <1>5, <1>8, <1>10, <1>11

LEMMA DeliverOneMore ==
    ASSUME request \in Requests, inputs \in Inputs, NEW n \in Nat, Settled(n),
           NEW k \in Nat, k + 1 \in 1..Len(ticks)
    PROVE  /\ ticks[k + 1].control.respawns \in Nat
           /\ IsFiniteSet(DueThen(Enabled(n, k)))
           /\ Cardinality(DueThen(Enabled(n, k + 1)))
                = Cardinality(DueThen(Enabled(n, k))) + ticks[k + 1].control.respawns
<1> DEFINE tick == request.tick
           t == (k + 1) * tick
           R == {p \in Due(request, inputs, t) : Delivers(inputs, p)}
           A == DueThen(Enabled(n, k))
           B == DueThen(Enabled(n, k + 1))
<1>1. A \subseteq Pairs(inputs) /\ R \subseteq Pairs(inputs) /\ IsFiniteSet(Pairs(inputs))
  BY PairsAreFinite DEF DueThen
<1>2. /\ IsFiniteSet(A) /\ IsFiniteSet(R)
      /\ Cardinality(A) \in Nat /\ Cardinality(R) \in Nat
  <2> HIDE DEF A, R
  <2> QED
    BY <1>1, FS_Subset, FS_CardinalityType
<1>3. CASE k + 1 \in 1..n /\ AtOrAfter(t, request.enable)
  <2>1. tick \in Nat \ {0} /\ ticks[k + 1].control = Control(request, inputs, t)
    BY <1>3, RequestType DEF Settled
  <2>2. ticks[k + 1].control.respawns = Cardinality(R)
    BY <1>3, <2>1 DEF Control, Respawns, Delivers
  <2>3. \A i : i \in Enabled(n, k + 1) <=> i \in Enabled(n, k) \/ i = k + 1
    BY <1>3 DEF Enabled
  <2>4. B = A \cup R
    <3> HIDE DEF t
    <3>1. \A p : p \in B <=> /\ Delivers(inputs, p)
                             /\ \E i \in Enabled(n, k + 1) : p \in Due(request, inputs, i * tick)
      BY DEF DueThen
    <3>2. \A p : p \in A <=> /\ Delivers(inputs, p)
                             /\ \E i \in Enabled(n, k) : p \in Due(request, inputs, i * tick)
      BY DEF DueThen
    <3>3. \A p : p \in R <=> Delivers(inputs, p) /\ p \in Due(request, inputs, (k + 1) * tick)
      BY DEF t
    <3> HIDE DEF A, B, R, tick
    <3>4. \A p : p \in B <=> p \in A \/ p \in R
      BY <2>3, <3>1, <3>2, <3>3, Zenon
    <3> QED
      BY <3>4
  <2>5. A \cap R = {}
    <3> SUFFICES ASSUME NEW p, p \in A, p \in R PROVE FALSE
      OBVIOUS
    <3>1. PICK i \in Enabled(n, k) : p \in Due(request, inputs, i * tick)
      BY DEF DueThen
    <3>2. i \in Nat \ {0} /\ k + 1 \in Nat \ {0} /\ i < k + 1
      BY <1>3 DEF Enabled
    <3>3. p \in Due(request, inputs, (k + 1) * tick)
      OBVIOUS
    <3> QED
      BY <2>1, <3>1, <3>2, <3>3, WindowsApart
  <2> HIDE DEF A, B, R
  <2>6. Cardinality(B) = Cardinality(A) + Cardinality(R) - Cardinality(A \cap R)
    BY <1>2, <2>4, FS_Union
  <2>7. Cardinality(A \cap R) = 0
    BY <2>5, FS_EmptySet
  <2> QED
    BY <1>2, <2>2, <2>6, <2>7 DEF A, B
<1>4. CASE ~(k + 1 \in 1..n /\ AtOrAfter(t, request.enable))
  <2>1. Enabled(n, k + 1) = Enabled(n, k)
    BY <1>4 DEF Enabled
  <2>2. ticks[k + 1].control.respawns = 0
    <3>1. CASE k + 1 \in 1..n
      <4>1. ticks[k + 1].control = Control(request, inputs, t)
        BY <3>1 DEF Settled
      <4> QED
        BY <1>4, <3>1, <4>1 DEF Control
    <3>2. CASE k + 1 \notin 1..n
      <4>1. Len(ticks) \in Nat
        BY DEF Settled, IsSeq
      <4>2. k + 1 \in (n + 1)..Len(ticks)
        BY <3>2, <4>1
      <4> QED
        BY <4>2 DEF Settled
    <3> QED
      BY <3>1, <3>2
  <2> HIDE DEF A
  <2> QED
    BY <1>2, <2>1, <2>2 DEF A
<1> QED
  BY <1>3, <1>4

LEMMA SettledDelivers ==
    ASSUME request \in Requests, SInv
    PROVE  RespawnsDeliveredOnce
<1>1. PICK n \in Nat : Settled(n)
  BY DEF SInv
<1> DEFINE m == Len(ticks)
           Eq(g) == g = [k \in 0..m |-> IF k = 0 THEN 0
                                        ELSE g[k - 1] + ticks[k].control.respawns]
           sum == CHOOSE g : Eq(g)
           Right(k) == sum[k] = Cardinality(DueThen(Enabled(n, k)))
           wrong == {k \in 0..m : ~Right(k)}
<1>2. inputs \in Inputs /\ m \in Nat /\ Sampling = 1..n /\ n <= m
  BY <1>1, SettledTicks DEF SInv
<1>3. RespawnsDeliveredOnce <=> sum[m] = Cardinality(DueThen(Enabled(n, m)))
  <2>1. {i \in Sampling : AtOrAfter(i * request.tick, request.enable)} = Enabled(n, m)
    BY <1>2 DEF Enabled
  <2> QED
    BY <2>1 DEF RespawnsDeliveredOnce, DueThen, Delivers
<1> HIDE DEF m
<1>4. ASSUME NEW k \in 0..(m - 1)
      PROVE  /\ ticks[k + 1].control.respawns \in Nat
             /\ IsFiniteSet(DueThen(Enabled(n, k)))
             /\ Cardinality(DueThen(Enabled(n, k + 1)))
                  = Cardinality(DueThen(Enabled(n, k))) + ticks[k + 1].control.respawns
  <2>1. k \in Nat /\ k + 1 \in 1..Len(ticks)
    BY <1>2 DEF m
  <2> QED
    BY <1>1, <1>2, <2>1, DeliverOneMore
<1>5. \E g : Eq(g)
  <2> DEFINE step == [k \in 1..m |-> [x \in Nat |-> x + ticks[k].control.respawns]]
  <2>1. ASSUME NEW k \in 1..m PROVE ticks[k].control.respawns \in Nat
    <3>1. k - 1 \in 0..(m - 1) /\ (k - 1) + 1 = k
      BY <1>2
    <3>2. ticks[(k - 1) + 1].control.respawns \in Nat
      BY <1>4, <3>1
    <3> QED
      BY <3>1, <3>2
  <2>2. step \in [1..m -> [Nat -> Nat]]
    BY <2>1
  <2> HIDE DEF step
  <2>3. PICK f \in [0..m -> Nat] : f[0] = 0 /\ \A k \in 1..m : f[k] = step[k][f[k - 1]]
    <3> DEFINE zero == 0
               X == Nat
    <3>1. zero \in X /\ m \in Nat /\ step \in [1..m -> [X -> X]]
      BY <1>2, <2>2
    <3> HIDE DEF zero, X
    <3>2. \E f \in [0..m -> X] :
              f[0] = zero /\ \A k \in 1..m : f[k] = step[k][f[k - 1]]
      BY <3>1, StepByStep
    <3> QED
      BY <3>2 DEF zero, X
  <2>4. ASSUME NEW k \in 0..m
        PROVE  f[k] = IF k = 0 THEN 0 ELSE f[k - 1] + ticks[k].control.respawns
    <3>1. CASE k = 0
      BY <2>3, <3>1
    <3>2. CASE k # 0
      <4>1. k \in 1..m /\ k - 1 \in 0..m
        BY <1>2, <3>2
      <4>2. f[k - 1] \in Nat
        BY <4>1
      <4> QED
        BY <2>3, <3>2, <4>1, <4>2 DEF step
    <3> QED
      BY <3>1, <3>2
  <2>5. f = [k \in 0..m |-> f[k]]
    OBVIOUS
  <2>6. Eq(f)
    BY <2>4, <2>5
  <2> HIDE DEF Eq
  <2> QED
    BY <2>6
<1>6. Eq(sum)
  <2> HIDE DEF Eq
  <2> QED
    BY <1>5, Zenon
<1> HIDE DEF sum
<1>7. ASSUME NEW k \in 0..m
      PROVE  sum[k] = IF k = 0 THEN 0 ELSE sum[k - 1] + ticks[k].control.respawns
  BY <1>6
<1>8. Right(0)
  <2>1. Enabled(n, 0) = {}
    BY DEF Enabled
  <2>2. DueThen({}) = {}
    BY DEF DueThen
  <2>3. sum[0] = 0
    BY <1>2, <1>7
  <2> QED
    BY <2>1, <2>2, <2>3, FS_EmptySet
<1>9. ASSUME NEW k \in 0..(m - 1), Right(k) PROVE Right(k + 1)
  <2>1. k + 1 \in 0..m /\ k + 1 # 0 /\ (k + 1) - 1 = k
    BY <1>2
  <2>2. sum[k + 1] = sum[k] + ticks[k + 1].control.respawns
    BY <1>7, <2>1
  <2> QED
    BY <1>4, <1>9, <2>2
<1>10. wrong = {}
  <2> SUFFICES ASSUME wrong # {} PROVE FALSE
    OBVIOUS
  <2>1. wrong \in SUBSET Nat
    BY <1>2
  <2>2. PICK k \in wrong : \A j \in wrong : k <= j
    <3> HIDE DEF wrong
    <3> QED
      BY <2>1, Least
  <2>3. k \in 0..m /\ ~Right(k)
    OBVIOUS
  <2> HIDE DEF Right
  <2>4. k - 1 \in 0..(m - 1) /\ k - 1 \in 0..m /\ ~(k <= k - 1) /\ (k - 1) + 1 = k
    BY <1>2, <1>8, <2>3
  <2>5. k - 1 \notin wrong
    <3> HIDE DEF wrong
    <3> QED
      BY <2>2, <2>4
  <2>6. Right(k - 1)
    BY <2>4, <2>5
  <2>7. Right((k - 1) + 1)
    BY <1>9, <2>4, <2>6
  <2> QED
    BY <2>3, <2>4, <2>7
<1>11. Right(m)
  <2>1. m \in 0..m
    BY <1>2
  <2> HIDE DEF Right
  <2> QED
    BY <1>10, <2>1
<1> QED
  BY <1>3, <1>11

(* A respawn pressed while the race runs is delivered by exactly one tick, *)
(* and none by the trailing tick: in total the ticks of a plan deliver as  *)
(* many as fall due at the ticks at which the race is enabled.             *)
THEOREM RespawnsAreDeliveredOnce == Spec => []RespawnsDeliveredOnce
<1>1. Init => IInv /\ TargetsComparedExactly /\ SInv
  BY IInvInit, SInvInit DEF Init, TargetsComparedExactly
<1>2. IInv /\ TargetsComparedExactly /\ SInv /\ [Next]_vars
         => (IInv /\ TargetsComparedExactly /\ SInv)'
  BY NextStep, SInvStep
<1>3. IInv /\ SInv => RespawnsDeliveredOnce
  BY SettledDelivers DEF IInv
<1> QED
  BY <1>1, <1>2, <1>3, PTL DEF Spec
=============================================================================
