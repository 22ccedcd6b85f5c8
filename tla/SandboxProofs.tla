---------------------------- MODULE SandboxProofs ----------------------------
(***************************************************************************)
(* What a tick of a control plan depends on: two timelines that agree, up  *)
(* to its time, on the actions they have events of, give the same tick.    *)
(* Plans may therefore be spliced, and ticks already executed survive an   *)
(* edit of what comes later.                                               *)
(*                                                                         *)
(* So a sandbox stands within its plan, and a torn runtime stays out of    *)
(* use, for every scenario, edit, window, horizon and number of failures.  *)
(* What a whole sandbox has executed is its plan, and its plan is that of  *)
(* the inputs it reports, whatever edits, windows, resizes, captures and   *)
(* restores came before.                                                   *)
(***************************************************************************)
EXTENDS Sandbox, SequenceTheorems, WellFoundedInduction, TLAPS

-----------------------------------------------------------------------------
(* Least and greatest times.                                               *)

LEMMA Least ==
    ASSUME NEW S \in SUBSET Nat, S # {}
    PROVE  \E x \in S : \A y \in S : x <= y
<1>1. PICK x \in S : \A y \in S : ~(<<y, x>> \in OpToRel(<, Nat))
  BY NatLessThanWellFounded, WFMin
<1>2. \A y \in S : <<y, x>> \in OpToRel(<, Nat) <=> y < x
  BY DEF OpToRel
<1>3. \A y \in S : ~(y < x)
  BY <1>1, <1>2, Zenon
<1>4. \A y \in S : x <= y
  BY <1>3
<1> QED
  BY <1>4

LEMMA Greatest ==
    ASSUME NEW S \in SUBSET Nat, S # {}, NEW b \in Nat, \A x \in S : x <= b
    PROVE  \E x \in S : \A y \in S : y <= x
<1> DEFINE R == {b - x : x \in S}
<1>1. R \in SUBSET Nat /\ R # {}
  <2>1. PICK x \in S : TRUE
    OBVIOUS
  <2>2. b - x \in R
    BY <2>1
  <2>3. \A y \in S : b - y \in Nat
    OBVIOUS
  <2> QED
    BY <2>2, <2>3
<1>2. PICK r \in R : \A q \in R : r <= q
  BY <1>1, Least
<1>3. PICK x \in S : r = b - x
  OBVIOUS
<1>4. \A y \in S : b - x <= b - y
  BY <1>2, <1>3
<1>5. \A y \in S : y <= x
  BY <1>4
<1> QED
  BY <1>5

-----------------------------------------------------------------------------
(* The last change of an action.                                           *)

Lacks(events, a) == \A k \in DOMAIN events : events[k].action # a

\* Up to t, two timelines have the same events wherever one of them has an
\* event of the action.
AgreeOn(x, y, a, t) ==
    \A u \in Times : u <= t => \/ x[u] = y[u]
                               \/ Lacks(x[u], a) /\ Lacks(y[u], a)

\* The action's last change at t is the same in both, and of one value.
Settled(x, y, a, t) ==
    /\ LastTime(x, a, t) = LastTime(y, a, t)
    /\ Value(x, a, LastTime(x, a, t)) = Value(y, a, LastTime(y, a, t))

LEMMA LastTimeIsChange ==
    ASSUME NEW x, NEW a, NEW t \in Int, ChangesOf(x, a, t) # {}
    PROVE  /\ LastTime(x, a, t) \in ChangesOf(x, a, t)
           /\ \A u \in ChangesOf(x, a, t) : u <= LastTime(x, a, t)
<1> DEFINE C == ChangesOf(x, a, t)
<1>1. C \in SUBSET Nat /\ \A u \in C : u <= MaxTime
  BY MaxTimeAssumption DEF ChangesOf, Times
<1>2. LastTime(x, a, t) = CHOOSE u \in C : \A v \in C : v <= u
  BY DEF LastTime
<1> HIDE DEF C
<1>3. C # {}
  BY DEF C
<1>4. \E u \in C : \A v \in C : v <= u
  BY <1>1, <1>3, Greatest, MaxTimeAssumption
<1>5. LastTime(x, a, t) \in C /\ \A u \in C : u <= LastTime(x, a, t)
  BY <1>2, <1>4
<1> QED
  BY <1>5 DEF C

LEMMA AgreementSettles ==
    ASSUME NEW x, NEW y, NEW a, NEW t \in Int, AgreeOn(x, y, a, t)
    PROVE  Settled(x, y, a, t)
<1>1. ChangesOf(x, a, t) = ChangesOf(y, a, t)
  BY DEF ChangesOf, AgreeOn, Lacks
<1>2. LastTime(x, a, t) = LastTime(y, a, t)
  BY <1>1 DEF LastTime
<1>3. CASE ChangesOf(x, a, t) = {}
  BY <1>1, <1>2, <1>3 DEF Settled, LastTime, Value
<1>4. CASE ChangesOf(x, a, t) # {}
  <2>1. LastTime(x, a, t) \in ChangesOf(x, a, t)
    BY <1>4, LastTimeIsChange
  <2>2. x[LastTime(x, a, t)] = y[LastTime(x, a, t)]
    BY <2>1 DEF ChangesOf, AgreeOn, Lacks
  <2> QED
    BY <1>2, <2>2 DEF Settled, Value
<1> QED
  BY <1>3, <1>4

\* A change that both have, later than all their differences.
LEMMA LaterChangeSettles ==
    ASSUME NEW x, NEW y, NEW a, NEW t \in Int,
           NEW r \in Times, r <= t, ~Lacks(x[r], a),
           \A u \in Times : r <= u => x[u] = y[u]
    PROVE  Settled(x, y, a, t)
<1>1. r \in ChangesOf(x, a, t) /\ r \in ChangesOf(y, a, t)
  BY MaxTimeAssumption DEF ChangesOf, Lacks, Times
<1> DEFINE p == LastTime(x, a, t)
           q == LastTime(y, a, t)
<1>2. /\ p \in ChangesOf(x, a, t) /\ \A u \in ChangesOf(x, a, t) : u <= p
      /\ q \in ChangesOf(y, a, t) /\ \A u \in ChangesOf(y, a, t) : u <= q
  BY <1>1, LastTimeIsChange
<1> HIDE DEF p, q
<1>3. /\ p \in Times /\ q \in Times /\ r <= p /\ r <= q
      /\ p \in ChangesOf(y, a, t) /\ q \in ChangesOf(x, a, t)
  BY <1>1, <1>2 DEF ChangesOf
<1>4. p = q
  BY <1>2, <1>3, MaxTimeAssumption DEF Times
<1>5. x[p] = y[p]
  BY <1>3
<1> QED
  BY <1>4, <1>5 DEF Settled, Value, p, q

-----------------------------------------------------------------------------
(* Transitions.                                                            *)

Transitions == {"RaceRunning", "Respawn", "FinishLine"}

LEMMA PressedAgrees ==
    ASSUME NEW x, NEW y, NEW a, NEW t \in Int, AgreeOn(x, y, a, t),
           NEW u \in Int, u <= t
    PROVE  Pressed(x, a, u) = Pressed(y, a, u)
<1>1. AgreeOn(x, y, a, u)
  BY MaxTimeAssumption DEF AgreeOn, Times
<1> QED
  BY <1>1, AgreementSettles DEF Settled, Pressed

LEMMA ResetsAgree ==
    ASSUME NEW q, q.tick \in Nat, NEW x, NEW y, NEW t \in Nat,
           AgreeOn(x, y, "RaceRunning", t)
    PROVE  ResetsRace(q, x, t) = ResetsRace(q, y, t)
<1>1. ASSUME NEW u \in Int, u <= t
      PROVE  StartsRunning(q, x, u) = StartsRunning(q, y, u)
  <2>1. Pressed(x, "RaceRunning", u) = Pressed(y, "RaceRunning", u)
    BY <1>1, PressedAgrees
  <2>2. Pressed(x, "RaceRunning", u - q.tick) = Pressed(y, "RaceRunning", u - q.tick)
    <3>1. u - q.tick \in Int /\ u - q.tick <= t
      BY <1>1
    <3> QED
      BY <3>1, PressedAgrees
  <2> QED
    BY <2>1, <2>2 DEF StartsRunning
<1>2. \A u \in EarlierTicks(q, t) : u \in Int /\ u <= t
  BY DEF EarlierTicks
<1> QED
  BY <1>1, <1>2 DEF ResetsRace

\* The events a tick consumes of an action are the same ones.
LEMMA EventsAgree ==
    ASSUME NEW q, NEW x, NEW y, NEW a, NEW t \in Nat, AgreeOn(x, y, a, t),
           NEW p \in Due(q, x, t), x[p[1]][p[2]].action = a
    PROVE  /\ p \in Due(q, y, t) /\ x[p[1]] = y[p[1]]
           /\ p[1] \in Times /\ p[1] <= t
<1>1. PICK u \in DueTimes(q, t) : p \in {<<u, k>> : k \in DOMAIN x[u]}
  BY DEF Due
<1>2. PICK k \in DOMAIN x[u] : p = <<u, k>>
  BY <1>1
<1>3. u \in Times /\ u <= t
  BY DEF DueTimes
<1>4. x[u] = y[u]
  BY <1>2, <1>3 DEF AgreeOn, Lacks
<1>5. p \in Due(q, y, t)
  BY <1>1, <1>2, <1>4 DEF Due
<1> QED
  BY <1>2, <1>3, <1>4, <1>5

LEMMA AgreementIsMutual ==
    ASSUME NEW x, NEW y, NEW a, NEW t, AgreeOn(x, y, a, t)
    PROVE  AgreeOn(y, x, a, t)
  BY DEF AgreeOn

LEMMA FinishAgrees ==
    ASSUME NEW q, NEW x, NEW y, NEW t \in Nat, AgreeOn(x, y, "FinishLine", t)
    PROVE  FinishPressed(q, x, t) = FinishPressed(q, y, t)
<1>1. ASSUME NEW v, NEW w, AgreeOn(v, w, "FinishLine", t), FinishPressed(q, v, t)
      PROVE  FinishPressed(q, w, t)
  <2>1. PICK p \in Due(q, v, t) : /\ v[p[1]][p[2]].action = "FinishLine"
                                  /\ CanonicalPress(v[p[1]][p[2]])
    BY <1>1 DEF FinishPressed
  <2>2. p \in Due(q, w, t) /\ v[p[1]] = w[p[1]]
    BY <1>1, <2>1, EventsAgree
  <2> QED
    BY <2>1, <2>2 DEF FinishPressed
<1>2. FinishPressed(q, x, t) \in BOOLEAN /\ FinishPressed(q, y, t) \in BOOLEAN
  BY DEF FinishPressed
<1> QED
  BY <1>1, <1>2, AgreementIsMutual

LEMMA RespawnsAgree ==
    ASSUME NEW q, NEW x, NEW y, NEW t \in Nat,
           AgreeOn(x, y, "Respawn", t), AgreeOn(x, y, "RaceRunning", t)
    PROVE  Respawns(q, x, t) = Respawns(q, y, t)
<1> DEFINE Counted(in) == {p \in Due(q, in, t) :
               /\ in[p[1]][p[2]].action = "Respawn"
               /\ Active(in[p[1]][p[2]])
               /\ RunningBefore(in, p[1], p[2])}
<1>1. ASSUME NEW v, NEW w, AgreeOn(v, w, "Respawn", t),
             AgreeOn(v, w, "RaceRunning", t), NEW p \in Counted(v)
      PROVE  p \in Counted(w)
  <2>1. /\ p \in Due(q, w, t) /\ v[p[1]] = w[p[1]]
        /\ p[1] \in Times /\ p[1] <= t
    BY <1>1, EventsAgree
  <2>2. Pressed(v, "RaceRunning", p[1] - 1) = Pressed(w, "RaceRunning", p[1] - 1)
    <3>1. p[1] - 1 \in Int /\ p[1] - 1 <= t
      BY <2>1, MaxTimeAssumption DEF Times
    <3> QED
      BY <1>1, <3>1, PressedAgrees
  <2>3. RunningBefore(v, p[1], p[2]) = RunningBefore(w, p[1], p[2])
    BY <2>1, <2>2 DEF RunningBefore
  <2> QED
    BY <2>1, <2>3
<1>2. Counted(x) = Counted(y)
  <2>1. \A p \in Counted(x) : p \in Counted(y)
    BY <1>1
  <2>2. \A p \in Counted(y) : p \in Counted(x)
    BY <1>1, AgreementIsMutual
  <2> HIDE DEF Counted
  <2> QED
    BY <2>1, <2>2
<1> QED
  BY <1>2 DEF Respawns

-----------------------------------------------------------------------------
(* Two timelines give the same tick if every action is settled the same    *)
(* way at its time and they agree on the transitions up to it.             *)
THEOREM TickOfSettledInputs ==
    ASSUME NEW q, q.tick \in Nat, NEW x, NEW y, NEW t \in Nat,
           \A a \in Actions : Settled(x, y, a, t),
           \A a \in Transitions : AgreeOn(x, y, a, t)
    PROVE  Control(q, x, t) = Control(q, y, t)
<1>1. [a \in Actions |-> LastTime(x, a, t)] = [a \in Actions |-> LastTime(y, a, t)]
  BY DEF Settled
<1>2. StateAt(x, t) = StateAt(y, t)
  <2> DEFINE last == Evaluated([a \in Actions |-> LastTime(x, a, t)])
  <2>1. \A a \in Actions : last[a] = LastTime(x, a, t)
    BY DEF Evaluated
  <2>2. [a \in Actions |-> Value(x, a, last[a])] = [a \in Actions |-> Value(y, a, last[a])]
    BY <1>1, <2>1 DEF Settled
  <2> HIDE DEF last
  <2> QED
    BY <1>1, <2>2 DEF StateAt, last
<1>3. ResetsRace(q, x, t) = ResetsRace(q, y, t)
  BY ResetsAgree DEF Transitions
<1>4. FinishPressed(q, x, t) = FinishPressed(q, y, t)
  BY FinishAgrees DEF Transitions
<1>5. Respawns(q, x, t) = Respawns(q, y, t)
  BY RespawnsAgree DEF Transitions
<1> QED
  BY <1>2, <1>3, <1>4, <1>5, Zenon DEF Control

(* A tick is a function of the inputs up to its time: what is edited later *)
(* does not change it.                                                     *)
THEOREM TickOfPastInputs ==
    ASSUME NEW q, q.tick \in Nat, NEW x, NEW y, NEW t \in Nat,
           \A u \in Times : u <= t => x[u] = y[u]
    PROVE  Control(q, x, t) = Control(q, y, t)
<1>1. \A a : AgreeOn(x, y, a, t)
  BY DEF AgreeOn
<1>2. \A a : Settled(x, y, a, t)
  BY <1>1, AgreementSettles
<1> QED
  BY <1>1, <1>2, TickOfSettledInputs

-----------------------------------------------------------------------------
(* Times and the ticks they fall on.                                       *)

\* The tick a time falls on.
LEMMA TickNumber ==
    ASSUME NEW t \in Nat
    PROVE  /\ t \div Tick \in Nat
           /\ RaceStart <= t => t \div Tick >= Prestart
           /\ ((t \div Tick) * Tick) \div Tick = t \div Tick
<1> DEFINE q == t \div Tick
<1>1. Tick \in Nat /\ Tick > 0 /\ Prestart \in Nat /\ Prestart > 0
  BY TimingAssumption
<1>2. q \in Int /\ q * Tick <= t /\ t < (q + 1) * Tick
  BY <1>1
<1>3. q >= 0
  BY <1>1
<1>4. ASSUME Prestart * Tick <= t, q < Prestart PROVE FALSE
  <2>1. (q + 1) * Tick <= Prestart * Tick
    <3> HIDE DEF q
    <3>1. q + 1 \in Int /\ q + 1 <= Prestart
      BY <1>1, <1>2, <1>4
    <3> QED
      BY <3>1, <1>1
  <2> QED
    BY <1>1, <1>2, <1>4, <2>1
<1>5. (q * Tick) \div Tick = q
  <2> HIDE DEF q
  <2> QED
    BY <1>1, <1>2, <1>3
<1> QED
  BY <1>1, <1>2, <1>3, <1>4, <1>5 DEF RaceStart

-----------------------------------------------------------------------------
(* Plans.                                                                  *)

LEMMA StretchLength ==
    ASSUME NEW p, NEW begin, NEW count \in Nat
    PROVE  Len(Stretch(p, begin, count)) = count
  BY DEF Stretch

LEMMA PlanLength ==
    ASSUME NEW in, NEW ticks \in Int, Prestart + ticks \in Nat
    PROVE  Len(BuildPlan(in, ticks)) = Prestart + ticks
  BY DEF BuildPlan

\* A plan without a replaced stretch.
LEMMA FullPlanSize ==
    ASSUME NEW in, NEW ticks \in Nat
    PROVE  LET p == FullPlan(BuildPlan(in, ticks)) IN
           Size(p) = Prestart + ticks /\ Size(p) \in Nat /\ WithinBase(p)
  BY PlanLength, TimingAssumption DEF FullPlan, Size, WithinBase

-----------------------------------------------------------------------------
(* Windows.                                                                *)

LEMMA WindowBounds ==
    ASSUME NEW bounds \in Windows, NEW new
    PROVE  LET w == WindowOf(bounds, new) IN
           /\ Minimum(w) \in Nat /\ Maximum(w) \in Nat
           /\ Minimum(w) <= Maximum(w)
           /\ \A t \in DOMAIN w : /\ t \in Times /\ w[t] = new[t]
                                 /\ Minimum(w) <= t /\ t <= Maximum(w)
<1> DEFINE w == WindowOf(bounds, new)
           first == bounds[1]
           last == bounds[2]
<1>1. first \in Nat /\ last \in Nat /\ first <= last
  BY InputAssumption, MaxTimeAssumption DEF Times
<1>2. DOMAIN w = first..last /\ \A t \in first..last : w[t] = new[t]
  BY DEF WindowOf
<1>3. Minimum(w) \in DOMAIN w /\ \A t \in DOMAIN w : Minimum(w) <= t
  <2>1. first \in DOMAIN w /\ \A t \in DOMAIN w : first <= t
    BY <1>1, <1>2
  <2> HIDE DEF w
  <2> QED
    BY <2>1 DEF Minimum
<1>4. Maximum(w) \in DOMAIN w /\ \A t \in DOMAIN w : t <= Maximum(w)
  <2>1. last \in DOMAIN w /\ \A t \in DOMAIN w : t <= last
    BY <1>1, <1>2
  <2> HIDE DEF w
  <2> QED
    BY <2>1 DEF Maximum
<1>5. first..last \subseteq Times
  BY <1>1, InputAssumption, MaxTimeAssumption DEF Times
<1> HIDE DEF w, first, last
<1>6. Minimum(w) \in Nat /\ Maximum(w) \in Nat /\ Minimum(w) <= Maximum(w)
  BY <1>1, <1>2, <1>3, <1>4
<1>7. \A t \in DOMAIN w : /\ t \in Times /\ w[t] = new[t]
                         /\ Minimum(w) <= t /\ t <= Maximum(w)
  BY <1>2, <1>3, <1>4, <1>5
<1> QED
  BY <1>6, <1>7 DEF w

LEMMA ResetTimeType ==
    ASSUME NEW old, NEW w, NEW acts, HorizonEnd \in Nat
    PROVE  /\ ResetTime(old, w, acts) \in Nat
           /\ ResetTime(old, w, acts) <= HorizonEnd
<1> DEFINE next == {t \in Times : /\ Maximum(w) < t /\ t <= HorizonEnd
                                  /\ Touches(old, {t}, acts)}
<1>1. next \in SUBSET Nat /\ \A t \in next : t <= HorizonEnd
  BY MaxTimeAssumption DEF Times
<1>2. CASE next = {}
  BY <1>2 DEF ResetTime
<1>3. CASE next # {}
  <2>1. \E t \in next : \A u \in next : t <= u
    BY <1>1, <1>3, Least
  <2>2. ResetTime(old, w, acts) = CHOOSE t \in next : \A u \in next : t <= u
    BY <1>3 DEF ResetTime
  <2> HIDE DEF next
  <2>3. ResetTime(old, w, acts) \in next
    BY <2>1, <2>2
  <2> QED
    BY <1>1, <2>3
<1> QED
  BY <1>2, <1>3

\* The end of a splice is the time of a tick, the last tick of the window or
\* a later one, and the next tick is beyond what the splice must reach.
LEMMA ReplacementEndTick ==
    ASSUME NEW old, NEW w, HorizonEnd \in Nat, Maximum(w) \in Nat,
           RaceStart <= Maximum(w), Maximum(w) <= HorizonEnd
    PROVE  LET end == ReplacementEnd(old, w) IN
           /\ end \div Tick \in Nat /\ end = (end \div Tick) * Tick
           /\ end \div Tick >= Prestart
           /\ \A i \in Nat : end \div Tick < i =>
                  /\ Maximum(w) < i * Tick
                  /\ \A acts \in Affected(old, w) : ResetTime(old, w, acts) < i * Tick
<1> DEFINE ends == {Maximum(w)} \cup {ResetTime(old, w, acts) : acts \in Affected(old, w)}
           last == CHOOSE t \in ends : \A u \in ends : u <= t
           n == last \div Tick
<1>1. ends \in SUBSET Nat /\ \A t \in ends : t <= HorizonEnd
  BY ResetTimeType
<1>2. /\ Maximum(w) \in ends
      /\ \A acts \in Affected(old, w) : ResetTime(old, w, acts) \in ends
  OBVIOUS
<1>3. ReplacementEnd(old, w) = n * Tick
  BY DEF ReplacementEnd
<1> HIDE DEF ends
<1>4. \E t \in ends : \A u \in ends : u <= t
  BY <1>1, <1>2, Greatest
<1>5. last \in ends /\ \A u \in ends : u <= last
  BY <1>4
<1> HIDE DEF last
<1>6. last \in Nat /\ RaceStart <= last
  <2>1. last \in Nat /\ Maximum(w) <= last
    BY <1>1, <1>2, <1>5
  <2>2. RaceStart \in Int
    BY TimingAssumption DEF RaceStart
  <2> QED
    BY <2>1, <2>2
<1>7. n \in Nat /\ n >= Prestart /\ (n * Tick) \div Tick = n
  BY <1>6, TickNumber
<1>8. ASSUME NEW i \in Nat, n < i PROVE \A u \in ends : u < i * Tick
  <2>1. Tick \in Nat /\ Tick > 0
    BY TimingAssumption
  <2>2. last < (n + 1) * Tick
    BY <1>6, <2>1
  <2> HIDE DEF n
  <2>3. n + 1 <= i
    BY <1>7, <1>8
  <2>4. (n + 1) * Tick <= i * Tick
    BY <1>7, <2>1, <2>3
  <2>5. last < i * Tick
    BY <1>6, <1>7, <2>1, <2>2, <2>4
  <2> QED
    BY <1>1, <1>5, <1>6, <2>1, <2>5
<1> HIDE DEF n
<1> QED
  BY <1>2, <1>3, <1>7, <1>8

\* A spliced plan keeps its size, and its stretch ends within it.
LEMMA WindowKeepsPlan ==
    ASSUME NEW bounds \in Windows, NEW new, horizon \in Nat, Size(plan) \in Nat,
           ReplaceInputWindow(WindowOf(bounds, new))
    PROVE  Size(plan') = Size(plan) /\ WithinBase(plan')
<1> DEFINE w == WindowOf(bounds, new)
           old == WindowBase
           end == ReplacementEnd(old, w)
           ticks == end \div Tick - Prestart
           through == MaterializeThrough([base |-> old, window |-> w], end)
           partial == BuildPlan(through, ticks)
           begin == Minimum(w) \div Tick - 1
           base == IF plan.replacement = <<>> THEN plan.base ELSE MaterializePlan(plan)
           stretch == SubSeq(partial, begin + 1, Len(partial))
<1>1. /\ plan' = [base |-> base, begin |-> begin, replacement |-> stretch]
      /\ Len(partial) <= Size(plan)
      /\ RaceStart <= Minimum(w) /\ Maximum(w) <= HorizonEnd
  BY DEF ReplaceInputWindow, ValidWindow
<1>2. Minimum(w) \in Nat /\ Maximum(w) \in Nat /\ Minimum(w) <= Maximum(w)
  BY WindowBounds
<1> HIDE DEF w
<1>3. RaceStart \in Nat /\ HorizonEnd \in Nat /\ Prestart \in Nat /\ Prestart > 0
  BY TimingAssumption DEF RaceStart, HorizonEnd
<1>4. RaceStart <= Maximum(w)
  BY <1>1, <1>2, <1>3
<1>5. end \div Tick \in Nat
  BY <1>1, <1>2, <1>3, <1>4, ReplacementEndTick
<1>6. begin \in Nat
  <2>1. Minimum(w) \div Tick \in Nat /\ Minimum(w) \div Tick >= Prestart
    BY <1>1, <1>2, TickNumber
  <2> QED
    BY <2>1, <1>3
<1> HIDE DEF end, old, through
<1>7. Len(partial) \in Nat
  <2> DEFINE N == end \div Tick
  <2> HIDE DEF N
  <2>1. ticks = N - Prestart
    BY DEF N
  <2>2. N \in Nat
    BY <1>5 DEF N
  <2> HIDE DEF ticks
  <2>3. ticks \in Int /\ Prestart + ticks \in Nat
    BY <2>1, <2>2, <1>3
  <2>4. Len(BuildPlan(through, ticks)) = Prestart + ticks
    BY <2>3, PlanLength
  <2> QED
    BY <2>3, <2>4
<1> HIDE DEF begin, partial
<1>8. stretch = <<>> \/ begin + Len(stretch) = Len(partial)
  <2> DEFINE S == {partial[i] : i \in (begin + 1)..Len(partial)}
  <2>1. \A i \in (begin + 1)..Len(partial) : partial[i] \in S
    OBVIOUS
  <2> HIDE DEF S
  <2>2. CASE begin + 1 <= Len(partial)
    <3>1. Len(stretch) = Len(partial) - (begin + 1) + 1
      BY <1>6, <1>7, <2>1, <2>2, SubSeqProperties
    <3> QED
      BY <3>1, <1>6, <1>7
  <2>3. CASE begin + 1 > Len(partial)
    BY <1>6, <1>7, <2>3, SubSeqEmpty
  <2> QED
    BY <2>2, <2>3, <1>6, <1>7
<1> HIDE DEF stretch
<1>9. Len(base) = Size(plan)
  <2>1. CASE plan.replacement = <<>>
    BY <2>1 DEF Size
  <2>2. CASE plan.replacement # <<>>
    <3>1. Len(MaterializePlan(plan)) = Size(plan)
      BY DEF MaterializePlan
    <3> QED
      BY <3>1, <2>2
  <2> QED
    BY <2>1, <2>2
<1> HIDE DEF base
<1> QED
  BY <1>1, <1>8, <1>9 DEF Size, WithinBase

-----------------------------------------------------------------------------
(* A loaded runtime with whole calls behind it is between ticks, within a  *)
(* plan of its horizon's length.  So are the captured states, at their own *)
(* horizon: a restore may bring one back, and rebuild its plan.            *)
Whole ==
    loaded /\ ~failed =>
        /\ phase = "Idle"
        /\ Size(plan) = Prestart + horizon
        /\ Prestart <= cursor /\ cursor <= Size(plan)

SavedWhole(s) ==
    /\ s.cursor \in Nat /\ s.horizon \in Nat
    /\ Size(s.plan) \in Nat /\ WithinBase(s.plan)
    /\ ~s.failed => /\ Size(s.plan) = Prestart + s.horizon
                    /\ Prestart <= s.cursor /\ s.cursor <= Size(s.plan)

IInv ==
    /\ horizon \in Nat /\ cursor \in Nat
    /\ Size(plan) \in Nat /\ WithinBase(plan)
    /\ loaded => scenario # NoScenario
    /\ Whole
    /\ \A s \in saved : SavedWhole(s)

LEMMA IInvInit == Init => IInv
  BY TimingAssumption DEF Init, IInv, Whole, FullPlan, Size, WithinBase

LEMMA IInvStep == IInv /\ [Next]_vars => IInv'
<1> SUFFICES ASSUME IInv, [Next]_vars PROVE IInv'
  OBVIOUS
<1> USE TimingAssumption
<1>1. CASE UNCHANGED vars
  BY <1>1 DEF vars, IInv, Whole, SavedWhole, Size, WithinBase
<1>2. ASSUME NEW s \in Scenarios, CommitScenario(s)
      PROVE  /\ horizon' \in Nat /\ scenario' # NoScenario /\ saved' = saved
             /\ LET p == FullPlan(BuildPlan(LoadedInputs[s], horizon')) IN
                Size(p) = Prestart + horizon' /\ Size(p) \in Nat /\ WithinBase(p)
  <2>1. horizon' \in Nat
    BY <1>2 DEF CommitScenario, IInv
  <2> QED
    BY <1>2, <2>1, FullPlanSize, ScenarioAssumption DEF CommitScenario
<1>3. ASSUME NEW s \in Scenarios, Load(s) PROVE IInv'
  <2>1. CommitScenario(s)
    BY <1>3 DEF Load
  <2> QED
    BY <1>3, <1>2, <2>1 DEF Load, IInv, Whole
<1>4. ASSUME NEW s \in Scenarios, LoadFailsInPlan(s) PROVE IInv'
  <2>1. CommitScenario(s)
    BY <1>4 DEF LoadFailsInPlan
  <2> QED
    BY <1>4, <1>2, <2>1 DEF LoadFailsInPlan, IInv, Whole
<1>5. ASSUME NEW s \in Scenarios, LoadFailsInRestart(s) PROVE IInv'
  <2>1. CommitScenario(s)
    BY <1>5 DEF LoadFailsInRestart
  <2> QED
    BY <1>5, <1>2, <2>1 DEF LoadFailsInRestart, IInv, Whole
<1>6. ASSUME NEW new \in Edits, ReplaceInputs(new) PROVE IInv'
  <2>1. LET p == FullPlan(BuildPlan(new, horizon)) IN
        Size(p) = Prestart + horizon /\ Size(p) \in Nat /\ WithinBase(p)
    BY FullPlanSize DEF IInv
  <2> QED
    BY <1>6, <2>1 DEF ReplaceInputs, IInv, Whole
<1>7. ASSUME NEW new \in Edits, ReplaceInputsFails(new) PROVE IInv'
  BY <1>7 DEF ReplaceInputsFails, IInv, Whole
<1>8. ASSUME NEW bounds \in Windows, NEW new \in Edits,
             ReplaceInputWindow(WindowOf(bounds, new))
      PROVE  IInv'
  <2>1. Size(plan') = Size(plan) /\ WithinBase(plan')
    BY <1>8, WindowKeepsPlan DEF IInv
  <2>2. UNCHANGED <<scenario, loaded, horizon, cursor, phase, saved, failed>>
    BY <1>8 DEF ReplaceInputWindow
  <2> QED
    BY <2>1, <2>2 DEF IInv, Whole
<1>9. ASSUME NEW ticks \in Horizons,
             SetSimulationHorizon(ticks) \/ SetSimulationHorizonFails(ticks)
      PROVE  IInv'
  <2>1. ticks \in Nat /\ Size(Resized(ticks)) = Prestart + ticks
        /\ Size(Resized(ticks)) \in Nat /\ WithinBase(Resized(ticks))
    BY FullPlanSize DEF Resized
  <2>2. CASE SetSimulationHorizon(ticks)
    BY <2>1, <2>2 DEF SetSimulationHorizon, IInv, Whole
  <2>3. CASE SetSimulationHorizonFails(ticks)
    BY <2>1, <2>3 DEF SetSimulationHorizonFails, IInv, Whole
  <2> QED
    BY <1>9, <2>2, <2>3
<1>10. ASSUME NEW count \in 1..MaxCount, AdvanceTicks(count) PROVE IInv'
  <2>1. count \in Nat /\ cursor + count <= Size(plan) /\ cursor' = cursor + count
    BY <1>10, BoundAssumption DEF AdvanceTicks, CanAdvance
  <2>2. UNCHANGED <<scenario, loaded, horizon, plan, phase, saved, failed>>
    BY <1>10 DEF AdvanceTicks
  <2> QED
    BY <2>1, <2>2 DEF IInv, Whole
<1>11. ASSUME NEW count \in 1..MaxCount, AdvanceFails(count) PROVE IInv'
  BY <1>11 DEF AdvanceFails, IInv, Whole
<1>12. CASE CaptureState
  <2>1. SavedWhole(Snapshot)
    BY <1>12 DEF CaptureState, Snapshot, SavedWhole, IInv, Whole
  <2> QED
    BY <1>12, <2>1 DEF CaptureState, IInv, Whole
<1>13. ASSUME NEW s \in saved, RestoreState(s) PROVE IInv'
  <2>1. SavedWhole(s)
    BY DEF IInv
  <2>2. /\ Size(PlanOf(s)) \in Nat /\ WithinBase(PlanOf(s))
        /\ ~s.failed => Size(PlanOf(s)) = Prestart + horizon
    <3>1. CASE s.horizon = horizon
      BY <2>1, <3>1 DEF PlanOf, SavedWhole
    <3>2. CASE s.horizon # horizon
      BY <3>2, FullPlanSize DEF PlanOf, IInv
    <3> QED
      BY <3>1, <3>2
  <2>3. /\ plan' = PlanOf(s) /\ cursor' = s.cursor /\ failed' = s.failed
        /\ s.cursor >= Prestart /\ s.cursor <= Size(PlanOf(s)) /\ phase = "Idle"
        /\ UNCHANGED <<scenario, loaded, horizon, phase, saved>>
    BY <1>13 DEF RestoreState, BetweenTicks
  <2>4. Whole'
    BY <2>2, <2>3 DEF Whole
  <2> QED
    BY <2>1, <2>2, <2>3, <2>4 DEF IInv, SavedWhole
<1> QED
  BY <1>1, <1>3, <1>4, <1>5, <1>6, <1>7, <1>8, <1>9, <1>10, <1>11, <1>12, <1>13
  DEF Next

(* Whatever edits, resizes, captures, restores and failures came before, a *)
(* loaded sandbox whose calls have all been whole stands at a tick of its  *)
(* own plan, a captured one within the plan it was captured with, and a    *)
(* spliced stretch within the plan it lies over.                           *)
THEOREM StandsWithinPlan == Spec => []PositionInPlan
<1>1. IInv => PositionInPlan
  BY DEF IInv, Whole, SavedWhole, PositionInPlan
<1> QED
  BY <1>1, IInvInit, IInvStep, PTL DEF Spec

(* A runtime left within a tick executes nothing, is captured by nothing   *)
(* and takes no restored state until a load starts another one.            *)
THEOREM TornStaysOutOfUse == Spec => TornUntilLoaded
<1> DEFINE Torn == phase = "Stepping" =>
               \/ UNCHANGED <<phase, executed, cursor, saved>>
               \/ Reloaded /\ saved' = saved
<1>1. ASSUME [Next]_vars PROVE Torn
  <2> SUFFICES ASSUME phase = "Stepping"
               PROVE  \/ UNCHANGED <<phase, executed, cursor, saved>>
                      \/ Reloaded /\ saved' = saved
    OBVIOUS
  <2>0. ~BetweenTicks
    BY DEF BetweenTicks
  <2>1. CASE UNCHANGED vars
    BY <2>1 DEF vars
  <2>2. ASSUME NEW s \in Scenarios, Load(s) PROVE Reloaded /\ saved' = saved
    BY <2>2, StretchLength, TimingAssumption DEF Load, CommitScenario, Reloaded
  <2>3. ASSUME NEW s \in Scenarios, LoadFailsInPlan(s)
        PROVE  Reloaded /\ saved' = saved
    BY <2>3, TimingAssumption DEF LoadFailsInPlan, CommitScenario, Reloaded
  <2>4. ASSUME NEW s \in Scenarios, LoadFailsInRestart(s)
        PROVE  Reloaded /\ saved' = saved
    <3>1. PICK done \in 0..Prestart : executed' = Stretch(plan', 0, done)
      BY <2>4 DEF LoadFailsInRestart
    <3>2. Len(executed') <= Prestart
      BY <3>1, StretchLength, TimingAssumption
    <3> QED
      BY <2>4, <3>2 DEF LoadFailsInRestart, CommitScenario, Reloaded
  <2>5. ASSUME NEW new \in Edits, ReplaceInputs(new) \/ ReplaceInputsFails(new)
        PROVE  UNCHANGED <<phase, executed, cursor, saved>>
    BY <2>5 DEF ReplaceInputs, ReplaceInputsFails
  <2>6. ASSUME NEW w, ReplaceInputWindow(w)
        PROVE  UNCHANGED <<phase, executed, cursor, saved>>
    BY <2>6 DEF ReplaceInputWindow
  <2>7. ASSUME NEW ticks \in Horizons,
               SetSimulationHorizon(ticks) \/ SetSimulationHorizonFails(ticks)
        PROVE  UNCHANGED <<phase, executed, cursor, saved>>
    BY <2>7 DEF SetSimulationHorizon, SetSimulationHorizonFails
  <2>8. ASSUME NEW count \in 1..MaxCount, AdvanceTicks(count) \/ AdvanceFails(count)
        PROVE  FALSE
    BY <2>0, <2>8 DEF AdvanceTicks, AdvanceFails, CanAdvance
  <2>9. ~CaptureState
    BY <2>0 DEF CaptureState
  <2>10. ASSUME NEW s \in saved, RestoreState(s) PROVE FALSE
    BY <2>0, <2>10 DEF RestoreState
  <2> QED
    BY <1>1, <2>1, <2>2, <2>3, <2>4, <2>5, <2>6, <2>7, <2>8, <2>9, <2>10 DEF Next
<1> QED
  BY <1>1, PTL DEF Spec, TornUntilLoaded

-----------------------------------------------------------------------------
(* The executed ticks and the inputs reported.                             *)

\* Every instant of a timeline is that of one the caller wrote or loaded.
Mixed(in) == \A t \in Times : \E e \in Known : in[t] = e[t]

PlanIs(p, in) ==
    \A i \in 1..Size(p) : TickAt(p, i - 1) = Control(PlanRequest, in, i * Tick)

IsRun(run) == Len(run) \in Nat /\ run = [i \in 1..Len(run) |-> run[i]]

-----------------------------------------------------------------------------
(* Plans and what follows them.                                            *)

LEMMA WholeTicks ==
    ASSUME NEW t \in Nat, t % Tick = 0
    PROVE  t \div Tick \in Nat /\ t = (t \div Tick) * Tick
<1>1. Tick \in Nat /\ Tick > 0
  BY TimingAssumption
<1>2. t = (t \div Tick) * Tick + (t % Tick)
  BY <1>1
<1> QED
  BY <1>1, <1>2

LEMMA PlanTimes ==
    /\ PlanRequest.tick \in Nat
    /\ \A i \in Nat : i * Tick \in Nat
  BY TimingAssumption DEF PlanRequest

LEMMA FullInputs ==
    ASSUME NEW in \in Known
    PROVE  Materialize(Full(in)) = in
<1>1. in \in Inputs
  BY InputAssumption DEF Known
<1> QED
  BY <1>1 DEF Inputs, Materialize, Full, NoWindow

LEMMA FullPlanIs ==
    ASSUME NEW in, NEW ticks \in Nat
    PROVE  PlanIs(FullPlan(BuildPlan(in, ticks)), in)
<1> DEFINE b == BuildPlan(in, ticks)
           p == FullPlan(b)
<1>1. Size(p) = Prestart + ticks
  BY FullPlanSize
<1>2. \A i \in 1..(Prestart + ticks) : b[i] = Control(PlanRequest, in, i * Tick)
  BY DEF BuildPlan
<1> HIDE DEF b
<1>3. ASSUME NEW i \in 1..(Prestart + ticks) PROVE TickAt(p, i - 1) = b[i]
  <2>1. ~Replaced(p, i - 1)
    BY DEF Replaced, FullPlan
  <2>2. i - 1 + 1 = i
    OBVIOUS
  <2> QED
    BY <2>1, <2>2 DEF TickAt, FullPlan
<1> QED
  BY <1>1, <1>2, <1>3 DEF PlanIs, b

\* The prestart of a restart.
LEMMA StretchRuns ==
    ASSUME NEW p, NEW count \in Nat
    PROVE  /\ IsRun(Stretch(p, 0, count))
           /\ Follows(Stretch(p, 0, count), p, count, {})
<1> DEFINE run == Stretch(p, 0, count)
<1>1. run = [i \in 1..count |-> TickAt(p, 0 + i - 1)] /\ Len(run) = count
  BY StretchLength DEF Stretch
<1>2. \A i \in 1..count : 0 + i - 1 = i - 1
  OBVIOUS
<1> HIDE DEF run
<1>3. IsRun(run) /\ Follows(run, p, count, {})
  BY <1>1, <1>2 DEF IsRun, Follows
<1> QED
  BY <1>3 DEF run

LEMMA StretchExtends ==
    ASSUME NEW run, IsRun(run), NEW p, NEW position \in Nat, NEW excepted,
           Follows(run, p, position, excepted), NEW count \in Nat
    PROVE  LET more == run \o Stretch(p, position, count) IN
           IsRun(more) /\ Follows(more, p, position + count, excepted)
<1> DEFINE s == Stretch(p, position, count)
           more == run \o s
           S == {run[i] : i \in 1..position} \cup {s[i] : i \in 1..count}
<1>1. s = [i \in 1..count |-> TickAt(p, position + i - 1)] /\ Len(s) = count
  BY StretchLength DEF Stretch
<1>2. Len(run) = position /\ run = [i \in 1..position |-> run[i]]
  BY DEF IsRun, Follows
<1> HIDE DEF s
<1>3. run \in Seq(S) /\ s \in Seq(S)
  <2>1. /\ \A i \in 1..position : run[i] \in S
        /\ \A i \in 1..count : s[i] \in S
    OBVIOUS
  <2>2. DOMAIN s = 1..count /\ s = [i \in 1..count |-> s[i]]
    BY <1>1
  <2> HIDE DEF S
  <2>3. [i \in 1..position |-> run[i]] \in Seq(S)
    BY <2>1
  <2>4. [i \in 1..count |-> s[i]] \in Seq(S)
    BY <2>1
  <2> QED
    BY <1>2, <2>2, <2>3, <2>4, Zenon
<1> HIDE DEF S
<1>4. /\ more \in Seq(S) /\ Len(more) = position + count
      /\ \A i \in 1..(position + count) :
            more[i] = IF i <= position THEN run[i] ELSE s[i - position]
  BY <1>1, <1>2, <1>3
<1> HIDE DEF more
<1>5. IsRun(more)
  BY <1>4 DEF IsRun
<1>6. ASSUME NEW i \in 1..(position + count), i \notin excepted
      PROVE  more[i] = TickAt(p, i - 1)
  <2>1. CASE i <= position
    BY <1>4, <1>6, <2>1 DEF Follows
  <2>2. CASE i > position
    <3>1. i - position \in 1..count /\ position + (i - position) - 1 = i - 1
      BY <2>2
    <3> QED
      BY <1>1, <1>4, <2>2, <3>1
  <2> QED
    BY <2>1, <2>2
<1>7. IsRun(more) /\ Follows(more, p, position + count, excepted)
  BY <1>4, <1>5, <1>6 DEF Follows
<1> QED
  BY <1>7 DEF more, s

(* A runtime that has followed one plan follows another, if the inputs of  *)
(* the two agree before the current time, and at it or the tick of the     *)
(* current time is excepted.                                               *)
LEMMA FollowsEditedPlan ==
    ASSUME NEW run, NEW position \in Nat, NEW p, NEW p2, NEW x, NEW y,
           NEW excepted, NEW excepted2, excepted \subseteq excepted2,
           Size(p) \in Nat, Size(p2) \in Nat,
           position <= Size(p), position <= Size(p2),
           PlanIs(p, x), PlanIs(p2, y), Follows(run, p, position, excepted),
           \A t \in Times : t < position * Tick => x[t] = y[t],
           position \notin excepted2 => x[position * Tick] = y[position * Tick]
    PROVE  Follows(run, p2, position, excepted2)
<1>1. ASSUME NEW i \in 1..position, i \notin excepted2
      PROVE  run[i] = TickAt(p2, i - 1)
  <2>1. run[i] = TickAt(p, i - 1)
    BY <1>1 DEF Follows
  <2>2. i \in 1..Size(p) /\ i \in 1..Size(p2)
    OBVIOUS
  <2>3. \A t \in Times : t <= i * Tick => x[t] = y[t]
    <3>1. Tick \in Nat /\ Tick > 0 /\ Times \subseteq Nat
      BY TimingAssumption, MaxTimeAssumption DEF Times
    <3>2. CASE i = position
      BY <1>1, <3>1, <3>2
    <3>3. CASE i < position
      <4>1. i + 1 <= position
        BY <3>3
      <4>2. (i + 1) * Tick <= position * Tick
        BY <4>1, <3>1
      <4>3. i * Tick < position * Tick
        BY <4>2, <3>1
      <4> QED
        BY <4>3, <3>1
    <3> QED
      BY <3>2, <3>3
  <2>4. Control(PlanRequest, x, i * Tick) = Control(PlanRequest, y, i * Tick)
    BY <2>3, PlanTimes, TickOfPastInputs
  <2> QED
    BY <2>1, <2>2, <2>4 DEF PlanIs
<1> QED
  BY <1>1 DEF Follows

-----------------------------------------------------------------------------
(* The splice of a window.                                                 *)

LEMMA EditMixed ==
    ASSUME NEW e \in Known
    PROVE  Mixed(Materialize(Full(e)))
  BY FullInputs DEF Mixed

LEMMA SpliceMixed ==
    ASSUME NEW bounds \in Windows, NEW new \in Edits, NEW old, Mixed(old)
    PROVE  LET spliced == Materialize([base |-> old, window |-> WindowOf(bounds, new)])
           IN /\ Mixed(spliced)
              /\ \A t \in Times : t < Minimum(WindowOf(bounds, new)) => spliced[t] = old[t]
              /\ \A t \in Times : t > Maximum(WindowOf(bounds, new)) => spliced[t] = old[t]
<1> DEFINE w == WindowOf(bounds, new)
           spliced == Materialize([base |-> old, window |-> w])
<1>1. /\ Minimum(w) \in Nat /\ Maximum(w) \in Nat
      /\ \A t \in DOMAIN w : /\ t \in Times /\ w[t] = new[t]
                              /\ Minimum(w) <= t /\ t <= Maximum(w)
  BY WindowBounds
<1> HIDE DEF w
<1>2. \A t \in Times : spliced[t] = IF t \in DOMAIN w THEN w[t] ELSE old[t]
  BY DEF Materialize
<1> HIDE DEF spliced
<1>3. new \in Known /\ Times \subseteq Nat
  BY MaxTimeAssumption DEF Known, Times
<1>4. Mixed(spliced)
  BY <1>1, <1>2, <1>3 DEF Mixed
<1>5. \A t \in Times : t < Minimum(w) \/ t > Maximum(w) => t \notin DOMAIN w
  BY <1>1, <1>3
<1>6. \A t \in Times : t < Minimum(w) \/ t > Maximum(w) => spliced[t] = old[t]
  BY <1>2, <1>5
<1> QED
  BY <1>4, <1>6 DEF spliced, w

\* After the splice the plan of the old inputs is that of the new ones.
LEMMA SettledAfterSplice ==
    ASSUME EditsIndependent, NEW bounds \in Windows, NEW new \in Edits,
           NEW old, Mixed(old), NEW t \in Nat, t <= HorizonEnd, HorizonEnd \in Nat,
           Maximum(WindowOf(bounds, new)) < t,
           \A acts \in Affected(old, WindowOf(bounds, new)) :
                ResetTime(old, WindowOf(bounds, new), acts) < t
    PROVE  LET spliced == Materialize([base |-> old, window |-> WindowOf(bounds, new)])
           IN Control(PlanRequest, old, t) = Control(PlanRequest, spliced, t)
<1> DEFINE w == WindowOf(bounds, new)
           spliced == Materialize([base |-> old, window |-> w])
<1>1. /\ Mixed(spliced) /\ Maximum(w) \in Nat
      /\ \A u \in Times : u > Maximum(w) => spliced[u] = old[u]
  BY SpliceMixed, WindowBounds
<1>2. \A u \in Times : spliced[u] = IF u \in DOMAIN w THEN w[u] ELSE old[u]
  BY DEF Materialize
<1> HIDE DEF spliced
<1>3. \A u \in Times : \/ old[u] = spliced[u]
                       \/ OnlyIndependent(old[u]) /\ OnlyIndependent(spliced[u])
  BY <1>1 DEF Mixed, EditsIndependent
<1>4. ASSUME NEW a \in Actions \ Independent PROVE AgreeOn(old, spliced, a, t)
  BY <1>3 DEF AgreeOn, OnlyIndependent, Lacks
<1>5. ASSUME NEW a \in Independent PROVE Settled(old, spliced, a, t)
  <2>1. {a} \in Controlled
    BY <1>5 DEF Independent, Controlled
  <2>2. CASE {a} \notin Affected(old, w)
    <3>1. \A u \in DOMAIN w : Lacks(old[u], a) /\ Lacks(w[u], a)
      BY <2>1, <2>2 DEF Affected, Touches, Lacks
    <3>2. AgreeOn(old, spliced, a, t)
      BY <1>2, <3>1 DEF AgreeOn
    <3> QED
      BY <3>2, AgreementSettles
  <2>3. CASE {a} \in Affected(old, w)
    <3> DEFINE next == {u \in Times : /\ Maximum(w) < u /\ u <= HorizonEnd
                                      /\ Touches(old, {u}, {a})}
               r == ResetTime(old, w, {a})
    <3>1. r < t
      BY <2>3
    <3>2. next # {}
      <4>1. next = {} => r = HorizonEnd
        BY DEF ResetTime
      <4> QED
        BY <3>1, <4>1
    <3>3. r = CHOOSE u \in next : \A v \in next : u <= v
      BY <3>2 DEF ResetTime
    <3>4. next \in SUBSET Nat
      BY MaxTimeAssumption DEF Times
    <3> HIDE DEF next, r
    <3>5. r \in next
      <4>1. \E u \in next : \A v \in next : u <= v
        BY <3>2, <3>4, Least
      <4> QED
        BY <3>3, <4>1
    <3>6. r \in Times /\ Maximum(w) < r /\ ~Lacks(old[r], a)
      BY <3>5 DEF next, Touches, Lacks
    <3>7. \A u \in Times : r <= u => old[u] = spliced[u]
      BY <1>1, <3>6, MaxTimeAssumption DEF Times
    <3>8. r <= t
      BY <3>1, <3>6, MaxTimeAssumption DEF Times
    <3> QED
      BY <3>6, <3>7, <3>8, LaterChangeSettles
  <2> QED
    BY <2>2, <2>3
<1>6. \A a \in Actions : Settled(old, spliced, a, t)
  BY <1>4, <1>5, AgreementSettles
<1>7. \A a \in Transitions : AgreeOn(old, spliced, a, t)
  BY <1>4 DEF Transitions, Independent, Actions
<1>8. Control(PlanRequest, old, t) = Control(PlanRequest, spliced, t)
  BY <1>6, <1>7, PlanTimes, TickOfSettledInputs
<1> QED
  BY <1>8 DEF spliced

\* The spliced plan is the plan of the spliced inputs.
LEMMA SplicedPlan ==
    ASSUME EditsIndependent, NEW bounds \in Windows, NEW new \in Edits,
           horizon \in Nat, Size(plan) = Prestart + horizon, plan.begin \in Int,
           Mixed(Materialize(inputs)), PlanIs(plan, Materialize(inputs)),
           ReplaceInputWindow(WindowOf(bounds, new))
    PROVE  PlanIs(plan', Materialize(inputs'))
<1> DEFINE w == WindowOf(bounds, new)
           old == WindowBase
           storage == [base |-> old, window |-> w]
           spliced == Materialize(storage)
           end == ReplacementEnd(old, w)
           n == end \div Tick
           through == MaterializeThrough(storage, end)
           partial == BuildPlan(through, n - Prestart)
           first == Minimum(w) \div Tick
           base == IF plan.replacement = <<>> THEN plan.base ELSE MaterializePlan(plan)
           stretch == SubSeq(partial, first - 1 + 1, Len(partial))
<1>1. /\ plan' = [base |-> base, begin |-> first - 1, replacement |-> stretch]
      /\ inputs' = storage
      /\ Len(partial) <= Size(plan)
      /\ RaceStart <= Minimum(w) /\ Maximum(w) <= HorizonEnd
      /\ Minimum(w) % Tick = 0
  BY DEF ReplaceInputWindow, ValidWindow
<1>2. Minimum(w) \in Nat /\ Maximum(w) \in Nat /\ Minimum(w) <= Maximum(w)
  BY WindowBounds
<1>3. /\ RaceStart \in Nat /\ HorizonEnd \in Nat /\ Prestart \in Nat
      /\ Tick \in Nat /\ Tick > 0 /\ Size(plan) \in Nat
      /\ HorizonEnd = Size(plan) * Tick
  BY TimingAssumption DEF RaceStart, HorizonEnd
<1>4. Mixed(old) /\ PlanIs(plan, old)
  BY DEF WindowBase
<1>5. \A t \in Times : t < Minimum(w) => spliced[t] = old[t]
  BY <1>4, SpliceMixed
<1>6. /\ n \in Nat /\ end = n * Tick
      /\ \A i \in Nat : n < i =>
             /\ Maximum(w) < i * Tick
             /\ \A acts \in Affected(old, w) : ResetTime(old, w, acts) < i * Tick
  <2> HIDE DEF w
  <2>1. RaceStart <= Maximum(w)
    BY <1>1, <1>2, <1>3
  <2> QED
    BY <1>1, <1>2, <1>3, <2>1, ReplacementEndTick
<1>7. first \in Nat /\ Minimum(w) = first * Tick
  BY <1>1, <1>2, WholeTicks
<1>8. /\ Len(partial) = n
      /\ \A i \in 1..n : partial[i] = Control(PlanRequest, through, i * Tick)
  <2> HIDE DEF n
  <2>1. n - Prestart \in Int /\ Prestart + (n - Prestart) = n
    BY <1>3, <1>6
  <2>2. Len(partial) = n
    BY <1>6, <2>1, PlanLength
  <2>3. partial = [i \in 1..n |-> Control(PlanRequest, through, i * Tick)]
    BY <2>1 DEF BuildPlan
  <2> HIDE DEF partial
  <2> QED
    BY <2>2, <2>3
<1>9. \A t \in Times : t <= end => through[t] = spliced[t]
  BY DEF MaterializeThrough
<1>10. /\ Len(base) = Size(plan)
       /\ \A i \in 1..Size(plan) : base[i] = TickAt(plan, i - 1)
  <2>1. CASE plan.replacement = <<>>
    <3>1. ASSUME NEW i \in 1..Size(plan) PROVE TickAt(plan, i - 1) = plan.base[i]
      <4>1. ~Replaced(plan, i - 1)
        BY <2>1 DEF Replaced
      <4>2. i - 1 + 1 = i
        OBVIOUS
      <4> QED
        BY <4>1, <4>2 DEF TickAt
    <3> QED
      BY <2>1, <3>1 DEF Size
  <2>2. CASE plan.replacement # <<>>
    <3>1. /\ Len(MaterializePlan(plan)) = Size(plan)
          /\ \A i \in 1..Size(plan) : MaterializePlan(plan)[i] = TickAt(plan, i - 1)
      BY <1>3 DEF MaterializePlan
    <3> QED
      BY <2>2, <3>1
  <2> QED
    BY <2>1, <2>2
<1> HIDE DEF base
<1>11. /\ Len(stretch) = IF first <= n THEN n - first + 1 ELSE 0
       /\ \A j \in 1..(n - first + 1) : stretch[j] = partial[first + j - 1]
  <2> DEFINE S == {partial[i] : i \in first..n}
  <2>1. \A i \in first..n : partial[i] \in S
    OBVIOUS
  <2> HIDE DEF S, first, partial, n
  <2>2. first - 1 + 1 = first
    BY <1>7
  <2> QED
    BY <1>6, <1>7, <1>8, <2>1, <2>2, SubSeqProperties
<1> HIDE DEF stretch, partial, first, n
<1>12. ASSUME NEW i \in 1..Size(plan)
       PROVE  TickAt(plan', i - 1) = Control(PlanRequest, spliced, i * Tick)
  <2>1. CASE first <= i /\ i <= n
    <3>1. Replaced(plan', i - 1) /\ i - 1 - (first - 1) + 1 = i - first + 1
      BY <1>1, <1>6, <1>7, <1>11, <2>1 DEF Replaced
    <3>2. TickAt(plan', i - 1) = stretch[i - first + 1]
      BY <1>1, <3>1 DEF TickAt
    <3>3. i - first + 1 \in 1..(n - first + 1) /\ first + (i - first + 1) - 1 = i
      BY <1>6, <1>7, <2>1
    <3>4. TickAt(plan', i - 1) = Control(PlanRequest, through, i * Tick)
      BY <1>6, <1>8, <1>11, <2>1, <3>2, <3>3
    <3>5. i * Tick <= end
      BY <1>3, <1>6, <2>1
    <3>6. \A t \in Times : t <= i * Tick => through[t] = spliced[t]
      <4> HIDE DEF through, spliced, end
      <4> QED
        BY <1>3, <1>6, <1>9, <3>5, MaxTimeAssumption DEF Times
    <3>7. Control(PlanRequest, through, i * Tick) = Control(PlanRequest, spliced, i * Tick)
      BY <3>6, PlanTimes, TickOfPastInputs
    <3> QED
      BY <3>4, <3>7
  <2>2. CASE ~(first <= i /\ i <= n)
    <3>1. ~Replaced(plan', i - 1)
      BY <1>1, <1>6, <1>7, <1>11, <2>2 DEF Replaced
    <3>2. i - 1 + 1 = i
      OBVIOUS
    <3>3. TickAt(plan', i - 1) = base[i]
      BY <1>1, <3>1, <3>2 DEF TickAt
    <3>4. TickAt(plan', i - 1) = Control(PlanRequest, old, i * Tick)
      BY <1>4, <1>10, <3>3 DEF PlanIs
    <3>5. CASE i < first
      <4>1. i + 1 <= first
        BY <1>7, <3>5
      <4>2. (i + 1) * Tick <= first * Tick
        BY <1>3, <1>7, <4>1
      <4>3. i * Tick < Minimum(w)
        BY <1>3, <1>7, <4>2
      <4>4. \A t \in Times : t <= i * Tick => old[t] = spliced[t]
        <5> HIDE DEF w, spliced
        <5> QED
          BY <1>2, <1>3, <1>5, <4>3, MaxTimeAssumption DEF Times
      <4>5. Control(PlanRequest, old, i * Tick) = Control(PlanRequest, spliced, i * Tick)
        BY <4>4, PlanTimes, TickOfPastInputs
      <4> QED
        BY <3>4, <4>5
    <3>6. CASE n < i
      <4>1. i * Tick <= HorizonEnd /\ i * Tick \in Nat
        BY <1>3
      <4>2. Control(PlanRequest, old, i * Tick) = Control(PlanRequest, spliced, i * Tick)
        BY <1>3, <1>4, <1>6, <3>6, <4>1, SettledAfterSplice
      <4> QED
        BY <3>4, <4>2
    <3> QED
      BY <1>6, <1>7, <2>2, <3>5, <3>6
  <2> QED
    BY <2>1, <2>2
<1>13. Size(plan') = Size(plan) /\ Materialize(inputs') = spliced
  BY <1>1, <1>10 DEF Size
<1> QED
  BY <1>12, <1>13 DEF PlanIs

-----------------------------------------------------------------------------
(* The invariant.  What has been executed can only be compared with a plan *)
(* that an edit builds anew because the plan it replaces was that of the   *)
(* inputs; so both are kept, for the sandbox and for what it has captured. *)

Matches(in, p, run, position, excepted) ==
    /\ PlanIs(p, Materialize(in))
    /\ IsRun(run) /\ Follows(run, p, position, excepted)

Mixture == /\ plan.begin \in Int
           /\ loaded => Mixed(Materialize(inputs))

SavedMatches(s) ==
    /\ s.plan.begin \in Int /\ Mixed(Materialize(s.inputs))
    /\ ~s.failed => Matches(s.inputs, s.plan, s.executed, s.cursor, s.rewritten)

RInv ==
    /\ Mixture
    /\ loaded /\ ~failed => Matches(inputs, plan, executed, cursor, rewritten)
    /\ \A s \in saved : SavedMatches(s)

LEMMA RInvInit == Init => RInv
  BY DEF Init, RInv, Mixture, FullPlan

\* An edit of a sandbox whose calls were whole.
LEMMA EditedMatches ==
    ASSUME IInv, RInv, loaded, ~failed,
           UNCHANGED <<cursor, executed>>,
           rewritten' = Rewrites(Materialize(inputs')),
           \A t \in Times : t < CurrentTime =>
                Materialize(inputs')[t] = Materialize(inputs)[t],
           PlanIs(plan', Materialize(inputs')),
           Size(plan') = Size(plan)
    PROVE  Matches(inputs', plan', executed', cursor', rewritten')
<1> DEFINE x == Materialize(inputs)
           y == Materialize(inputs')
<1>1. /\ PlanIs(plan, x) /\ IsRun(executed)
      /\ Follows(executed, plan, cursor, rewritten)
  BY DEF RInv, Matches
<1>2. cursor \in Nat /\ Size(plan) \in Nat /\ cursor <= Size(plan)
  BY DEF IInv, Whole
<1>3. rewritten \subseteq rewritten'
  BY DEF Rewrites
<1>4. cursor \notin rewritten' => x[cursor * Tick] = y[cursor * Tick]
  BY DEF Rewrites, CurrentTime
<1>5. \A t \in Times : t < cursor * Tick => x[t] = y[t]
  BY DEF CurrentTime
<1>6. PlanIs(plan', y)
  OBVIOUS
<1> HIDE DEF x, y
<1>7. Follows(executed, plan', cursor, rewritten')
  BY <1>1, <1>2, <1>3, <1>4, <1>5, <1>6, FollowsEditedPlan
<1> QED
  BY <1>1, <1>7 DEF Matches

LEMMA WriteStep ==
    ASSUME IInv, RInv, NEW new \in Edits, ReplaceInputs(new) \/ ReplaceInputsFails(new)
    PROVE  RInv'
<1>1. Materialize(Full(new)) = new /\ Mixed(Materialize(Full(new)))
  BY FullInputs, EditMixed DEF Known
<1>2. CASE ReplaceInputs(new)
  <2>1. /\ loaded /\ inputs' = Full(new) /\ plan' = FullPlan(BuildPlan(new, horizon))
        /\ UNCHANGED <<cursor, executed, saved, loaded, failed>>
        /\ rewritten' = Rewrites(new)
        /\ \A t \in Times : t < CurrentTime => new[t] = Materialize(inputs)[t]
    BY <1>2 DEF ReplaceInputs, PastUnchanged
  <2>2. plan'.begin \in Int
    BY <2>1 DEF FullPlan
  <2>3. ASSUME ~failed PROVE Matches(inputs', plan', executed', cursor', rewritten')
    <3>1. PlanIs(plan', Materialize(inputs'))
      BY <1>1, <2>1, FullPlanIs DEF IInv
    <3>2. Size(plan') = Size(plan)
      BY <2>1, <2>3, FullPlanSize DEF IInv, Whole
    <3> QED
      BY <1>1, <2>1, <2>3, <3>1, <3>2, EditedMatches
  <2> QED
    BY <1>1, <2>1, <2>2, <2>3 DEF RInv, Mixture, SavedMatches
<1>3. CASE ReplaceInputsFails(new)
  <2>1. /\ inputs' = Full(new) /\ failed'
        /\ UNCHANGED <<plan, saved>>
    BY <1>3 DEF ReplaceInputsFails
  <2> QED
    BY <1>1, <2>1 DEF RInv, Mixture, SavedMatches
<1> QED
  BY <1>2, <1>3

LEMMA WindowStep ==
    ASSUME EditsIndependent, IInv, RInv, NEW bounds \in Windows, NEW new \in Edits,
           ReplaceInputWindow(WindowOf(bounds, new))
    PROVE  RInv'
<1> DEFINE w == WindowOf(bounds, new)
           storage == [base |-> WindowBase, window |-> w]
<1>1. /\ loaded /\ inputs' = storage /\ Minimum(w) >= CurrentTime
      /\ plan'.begin = Minimum(w) \div Tick - 1
      /\ UNCHANGED <<cursor, executed, saved, loaded, failed>>
      /\ rewritten' = Rewrites(Materialize(storage))
      /\ RaceStart <= Minimum(w)
  BY DEF ReplaceInputWindow, ValidWindow
<1>2. Minimum(w) \in Nat
  BY WindowBounds
<1>3. plan'.begin \in Int
  BY <1>1, <1>2, TickNumber
<1>4. Mixed(WindowBase)
  BY <1>1 DEF RInv, Mixture, WindowBase
<1>5. /\ Mixed(Materialize(storage))
      /\ \A t \in Times : t < Minimum(w) => Materialize(storage)[t] = WindowBase[t]
  BY <1>4, SpliceMixed
<1>6. ASSUME ~failed PROVE Matches(inputs', plan', executed', cursor', rewritten')
  <2>1. /\ horizon \in Nat /\ Size(plan) = Prestart + horizon /\ Size(plan) \in Nat
        /\ plan.begin \in Int /\ PlanIs(plan, Materialize(inputs))
    BY <1>1, <1>6 DEF IInv, Whole, RInv, Mixture, Matches
  <2>2. PlanIs(plan', Materialize(inputs')) /\ Size(plan') = Size(plan)
    BY <1>4, <2>1, SplicedPlan, WindowKeepsPlan DEF WindowBase
  <2>3. \A t \in Times : t < CurrentTime =>
           Materialize(inputs')[t] = Materialize(inputs)[t]
    <3>1. CurrentTime \in Nat
      BY PlanTimes DEF CurrentTime, IInv
    <3> HIDE DEF w
    <3>2. \A t \in Times : t < CurrentTime => t < Minimum(w)
      BY <1>1, <1>2, <3>1, MaxTimeAssumption DEF Times
    <3> HIDE DEF storage
    <3> QED
      BY <1>1, <1>5, <3>2 DEF WindowBase
  <2> QED
    BY <1>1, <1>6, <2>2, <2>3, EditedMatches
<1> HIDE DEF storage, w
<1> QED
  BY <1>1, <1>3, <1>5, <1>6 DEF RInv, Mixture, SavedMatches

LEMMA LoadStep ==
    ASSUME IInv, IInv', RInv, NEW s \in Scenarios,
           Load(s) \/ LoadFailsInPlan(s) \/ LoadFailsInRestart(s)
    PROVE  RInv'
<1>1. CommitScenario(s)
  BY DEF Load, LoadFailsInPlan, LoadFailsInRestart
<1>2. LoadedInputs[s] \in Known
  BY DEF Known
<1>3. /\ saved' = saved /\ Mixed(Materialize(inputs'))
      /\ Materialize(inputs') = LoadedInputs[s]
  BY <1>1, <1>2, EditMixed, FullInputs DEF CommitScenario
<1>4. CASE Load(s)
  <2>1. /\ plan' = FullPlan(BuildPlan(LoadedInputs[s], horizon')) /\ cursor' = Prestart
        /\ executed' = Stretch(plan', 0, Prestart) /\ rewritten' = {}
    BY <1>4 DEF Load
  <2>2. PlanIs(plan', Materialize(inputs')) /\ plan'.begin \in Int
    <3>1. plan'.begin \in Int
      BY <2>1 DEF FullPlan
    <3> QED
      BY <1>3, <2>1, <3>1, FullPlanIs DEF IInv
  <2>3. IsRun(executed') /\ Follows(executed', plan', cursor', rewritten')
    BY <2>1, StretchRuns, TimingAssumption
  <2> QED
    BY <1>3, <2>2, <2>3 DEF RInv, Mixture, SavedMatches, Matches
<1>5. CASE LoadFailsInPlan(s)
  BY <1>3, <1>5 DEF LoadFailsInPlan, RInv, Mixture, SavedMatches
<1>6. CASE LoadFailsInRestart(s)
  <2>1. plan'.begin \in Int /\ failed'
    BY <1>6 DEF LoadFailsInRestart, FullPlan
  <2> QED
    BY <1>3, <2>1 DEF RInv, Mixture, SavedMatches
<1> QED
  BY <1>4, <1>5, <1>6

LEMMA ResizeStep ==
    ASSUME IInv, RInv, NEW ticks \in Horizons,
           SetSimulationHorizon(ticks) \/ SetSimulationHorizonFails(ticks)
    PROVE  RInv'
<1>1. CASE SetSimulationHorizon(ticks)
  <2>1. /\ loaded /\ cursor <= Prestart + ticks
        /\ plan' = FullPlan(BuildPlan(Materialize(inputs), ticks))
        /\ UNCHANGED <<loaded, inputs, cursor, executed, saved, rewritten, failed>>
    BY <1>1 DEF SetSimulationHorizon, Resized
  <2>2. ticks \in Nat
    BY TimingAssumption
  <2>3. /\ PlanIs(plan', Materialize(inputs)) /\ plan'.begin \in Int
        /\ Size(plan') = Prestart + ticks /\ Size(plan') \in Nat
    <3>1. plan'.begin \in Int
      BY <2>1 DEF FullPlan
    <3> QED
      BY <2>1, <2>2, <3>1, FullPlanIs, FullPlanSize
  <2>4. ASSUME ~failed PROVE Matches(inputs', plan', executed', cursor', rewritten')
    <3>1. /\ cursor \in Nat /\ Size(plan) \in Nat /\ cursor <= Size(plan)
          /\ PlanIs(plan, Materialize(inputs)) /\ IsRun(executed)
          /\ Follows(executed, plan, cursor, rewritten)
      BY <2>1, <2>4 DEF IInv, Whole, RInv, Matches
    <3>2. Follows(executed, plan', cursor, rewritten)
      BY <2>1, <2>3, <3>1, FollowsEditedPlan
    <3> QED
      BY <2>1, <2>3, <3>1, <3>2 DEF Matches
  <2> QED
    BY <2>1, <2>3, <2>4 DEF RInv, Mixture, SavedMatches
<1>2. CASE SetSimulationHorizonFails(ticks)
  BY <1>2 DEF SetSimulationHorizonFails, RInv, Mixture, SavedMatches
<1> QED
  BY <1>1, <1>2

LEMMA AdvanceStep ==
    ASSUME IInv, RInv, NEW count \in 1..MaxCount,
           AdvanceTicks(count) \/ AdvanceFails(count)
    PROVE  RInv'
<1>1. CASE AdvanceTicks(count)
  <2>1. /\ executed' = executed \o Stretch(plan, cursor, count)
        /\ cursor' = cursor + count /\ loaded
        /\ UNCHANGED <<loaded, inputs, plan, saved, rewritten, failed>>
    BY <1>1 DEF AdvanceTicks, CanAdvance
  <2>2. count \in Nat /\ cursor \in Nat
    BY BoundAssumption DEF IInv
  <2>3. ASSUME ~failed PROVE Matches(inputs', plan', executed', cursor', rewritten')
    <3>1. /\ PlanIs(plan, Materialize(inputs)) /\ IsRun(executed)
          /\ Follows(executed, plan, cursor, rewritten)
      BY <2>1, <2>3 DEF RInv, Matches
    <3>2. IsRun(executed') /\ Follows(executed', plan, cursor', rewritten)
      BY <2>1, <2>2, <3>1, StretchExtends
    <3> QED
      BY <2>1, <3>1, <3>2 DEF Matches
  <2> QED
    BY <2>1, <2>3 DEF RInv, Mixture, SavedMatches
<1>2. CASE AdvanceFails(count)
  BY <1>2 DEF AdvanceFails, RInv, Mixture, SavedMatches
<1> QED
  BY <1>1, <1>2

LEMMA CaptureStep ==
    ASSUME RInv, CaptureState
    PROVE  RInv'
<1>1. SavedMatches(Snapshot)
  BY DEF CaptureState, Snapshot, SavedMatches, RInv, Mixture
<1>2. /\ saved' = {Snapshot}
      /\ UNCHANGED <<loaded, inputs, plan, cursor, executed, rewritten, failed>>
  BY DEF CaptureState
<1> QED
  BY <1>1, <1>2 DEF RInv, Mixture, SavedMatches

LEMMA RestoreStep ==
    ASSUME IInv, RInv, NEW s \in saved, RestoreState(s)
    PROVE  RInv'
<1>1. /\ inputs' = s.inputs /\ plan' = PlanOf(s) /\ cursor' = s.cursor
      /\ executed' = s.executed /\ rewritten' = s.rewritten /\ failed' = s.failed
      /\ s.cursor <= Size(PlanOf(s)) /\ UNCHANGED <<loaded, saved>>
  BY DEF RestoreState
<1>2. SavedMatches(s) /\ SavedWhole(s) /\ horizon \in Nat
  BY DEF RInv, IInv
<1> DEFINE in == Materialize(s.inputs)
           p == PlanOf(s)
<1>3. /\ p.begin \in Int /\ Size(p) \in Nat
      /\ ~s.failed => PlanIs(p, in)
  <2>1. CASE s.horizon = horizon
    BY <1>2, <2>1 DEF PlanOf, SavedMatches, SavedWhole, Matches
  <2>2. CASE s.horizon # horizon
    <3>1. p = FullPlan(BuildPlan(in, horizon))
      BY <2>2 DEF PlanOf
    <3>2. p.begin \in Int
      BY <3>1 DEF FullPlan
    <3> QED
      BY <1>2, <3>1, <3>2, FullPlanIs, FullPlanSize
  <2> QED
    BY <2>1, <2>2
<1>4. ASSUME ~s.failed PROVE Matches(s.inputs, p, s.executed, s.cursor, s.rewritten)
  <2>1. /\ PlanIs(s.plan, in) /\ IsRun(s.executed)
        /\ Follows(s.executed, s.plan, s.cursor, s.rewritten)
    BY <1>2, <1>4 DEF SavedMatches, Matches
  <2>2. /\ s.cursor \in Nat /\ Size(s.plan) \in Nat
        /\ s.cursor <= Size(s.plan) /\ s.cursor <= Size(p)
    BY <1>1, <1>2, <1>4 DEF SavedWhole
  <2>3. PlanIs(p, in) /\ Size(p) \in Nat
    BY <1>3, <1>4
  <2> HIDE DEF p
  <2>4. Follows(s.executed, p, s.cursor, s.rewritten)
    BY <2>1, <2>2, <2>3, FollowsEditedPlan
  <2> QED
    BY <2>1, <2>3, <2>4 DEF Matches
<1> HIDE DEF p, in
<1>5. plan' = p
  BY <1>1 DEF p
<1> QED
  BY <1>1, <1>2, <1>3, <1>4, <1>5 DEF RInv, Mixture, SavedMatches

LEMMA RInvStep ==
    ASSUME EditsIndependent, IInv, IInv', RInv, [Next]_vars
    PROVE  RInv'
<1>1. CASE UNCHANGED vars
  BY <1>1 DEF vars, RInv, Mixture, SavedMatches
<1>2. CASE Next
  BY <1>2, LoadStep, WriteStep, WindowStep, ResizeStep, AdvanceStep, CaptureStep,
     RestoreStep DEF Next
<1> QED
  BY <1>1, <1>2

(* What a whole sandbox has executed is its plan, but for the ticks edited *)
(* while they were current, and a captured state's is the plan captured    *)
(* with it, for independent edits in any number and order.                 *)
THEOREM RuntimeOnPlan ==
    ASSUME EditsIndependent
    PROVE  Spec => []RuntimeFollowsPlan
<1>1. RInv => RuntimeFollowsPlan
  BY DEF RInv, SavedMatches, Matches, RuntimeFollowsPlan
<1>2. IInv /\ RInv /\ [Next]_vars => RInv'
  BY IInvStep, RInvStep
<1> QED
  BY <1>1, <1>2, IInvInit, IInvStep, RInvInit, PTL DEF Spec

(* Windows spliced over windows leave the plan that a full rebuild from    *)
(* the reported inputs would give, for independent edits.                  *)
THEOREM SplicesAreRebuilds ==
    ASSUME EditsIndependent
    PROVE  Spec => []WindowPlanIsRebuiltPlan
<1>1. IInv /\ RInv => WindowPlanIsRebuiltPlan
  <2> SUFFICES ASSUME IInv, RInv, loaded, ~failed
               PROVE  MaterializePlan(plan) = BuildPlan(Materialize(inputs), horizon)
    BY DEF WindowPlanIsRebuiltPlan, PlanIsRebuiltFrom
  <2>1. /\ Size(plan) = Prestart + horizon
        /\ \A i \in 1..Size(plan) :
              TickAt(plan, i - 1) = Control(PlanRequest, Materialize(inputs), i * Tick)
    BY DEF IInv, Whole, RInv, Matches, PlanIs
  <2> QED
    BY <2>1 DEF MaterializePlan, BuildPlan
<1>2. IInv /\ RInv /\ [Next]_vars => RInv'
  BY IInvStep, RInvStep
<1> QED
  BY <1>1, <1>2, IInvInit, IInvStep, RInvInit, PTL DEF Spec
=============================================================================
