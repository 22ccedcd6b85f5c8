------------------------ MODULE SearchSessionProofs ------------------------
(***************************************************************************)
(* Why a batch may be reduced in any order and grouping, and why what      *)
(* stays on the device is what a search of one candidate after another     *)
(* would keep: the two orders on samples, for any scores, ticks and        *)
(* numbers of events, and then sessions of any number of batches, slots,   *)
(* cancellations and failures.                                             *)
(***************************************************************************)
EXTENDS SearchSession, FiniteSetTheorems, WellFoundedInduction, TLAPS

Cands == Candidates \cup {Baseline}
Samples == DeviceSample(Cands, Int, Nat, Nat)

-----------------------------------------------------------------------------
(* First elements, and values made step by step.                           *)

LEMMA Least ==
    ASSUME NEW S \in SUBSET Nat, S # {}
    PROVE  \E x \in S : \A y \in S : x <= y
<1>1. PICK x \in S : \A y \in S : ~(<<y, x>> \in OpToRel(<, Nat))
  BY NatLessThanWellFounded, WFMin
<1>2. \A y \in S : <<y, x>> \in OpToRel(<, Nat) <=> y < x
  BY DEF OpToRel
<1>3. \A y \in S : ~(y < x)
  BY <1>1, <1>2, Zenon
<1>4. \A y \in S : x <= y
  BY <1>3
<1> QED
  BY <1>4

\* A value made step by step exists.
LEMMA StepByStep ==
    ASSUME NEW X, NEW base \in X, NEW n \in Nat, NEW step \in [1..n -> [X -> X]]
    PROVE  \E f \in [0..n -> X] :
              f[0] = base /\ \A i \in 1..n : f[i] = step[i][f[i - 1]]
<1> DEFINE Made(m, f) == f[0] = base /\ \A i \in 1..m : f[i] = step[i][f[i - 1]]
           missing == {m \in 0..n : \A f \in [0..m -> X] : ~Made(m, f)}
<1>1. SUFFICES missing = {}
  <2>1. n \in 0..n
    OBVIOUS
  <2>2. \E f \in [0..n -> X] : Made(n, f)
    <3> HIDE DEF Made
    <3> QED
      BY <1>1, <2>1
  <2> QED
    BY <2>2
<1> SUFFICES ASSUME missing # {} PROVE FALSE
  OBVIOUS
<1>2. PICK m \in missing : \A k \in missing : m <= k
  <2>1. missing \in SUBSET Nat
    OBVIOUS
  <2> HIDE DEF missing
  <2> QED
    BY <2>1, Least
<1>3. m \in 0..n /\ \A f \in [0..m -> X] : ~Made(m, f)
  OBVIOUS
<1>4. m # 0
  <2> DEFINE f == [i \in 0..0 |-> base]
  <2>1. f \in [0..0 -> X] /\ Made(0, f)
    OBVIOUS
  <2> QED
    BY <1>3, <2>1
<1>5. PICK f \in [0..(m - 1) -> X] : Made(m - 1, f)
  <2>1. m - 1 \in 0..n /\ m - 1 < m
    BY <1>3, <1>4
  <2>2. m - 1 \notin missing
    <3> HIDE DEF missing
    <3> QED
      BY <1>2, <1>3, <2>1
  <2> QED
    BY <2>1, <2>2
<1> DEFINE g == [i \in 0..m |-> IF i = m THEN step[m][f[m - 1]] ELSE f[i]]
<1>6. g \in [0..m -> X]
  <2>1. m \in 1..n /\ f[m - 1] \in X
    BY <1>3, <1>4
  <2>2. step[m][f[m - 1]] \in X
    BY <2>1
  <2>3. \A i \in 0..m : i # m => f[i] \in X
    BY <1>3
  <2> QED
    BY <2>2, <2>3
<1>7. Made(m, g)
  <2>1. g[0] = base
    BY <1>3, <1>4, <1>5
  <2>2. ASSUME NEW i \in 1..m PROVE g[i] = step[i][g[i - 1]]
    BY <1>3, <1>4, <1>5
  <2> QED
    BY <2>1, <2>2
<1> QED
  BY <1>3, <1>6, <1>7

\* One item after another is compared with what has been kept so far, and
\* kept if it is better (in R).  In the end none of them is better than what
\* is kept, which is the first or was better than what was kept before it.
IsOrder(R, X) ==
    /\ R \in SUBSET (X \X X)
    /\ \A x \in X : <<x, x>> \notin R
    /\ \A x, y, z \in X : <<x, y>> \in R /\ <<y, z>> \in R => <<x, z>> \in R

Keeps(X, R, n, f, item, use) ==
    /\ IsOrder(R, X) /\ n \in Nat /\ f \in [0..n -> X]
    /\ item \in [1..n -> X] /\ use \in SUBSET (1..n)
    /\ \A i \in 1..n : f[i] = IF i \in use /\ <<item[i], f[i - 1]>> \in R
                              THEN item[i] ELSE f[i - 1]

\* What the walk ends with is the base or an item that was better, and no item is better.
LEMMA KeptBest ==
    ASSUME NEW X, NEW R, NEW n, NEW f, NEW item, NEW use, Keeps(X, R, n, f, item, use)
    PROVE  \A m \in 0..n :
              /\ \/ f[m] = f[0]
                 \/ \E i \in use : /\ i <= m /\ f[m] = item[i]
                                   /\ <<item[i], f[i - 1]>> \in R /\ <<item[i], f[0]>> \in R
              /\ \A i \in use : i <= m => <<item[i], f[m]>> \notin R
<1>0. /\ n \in Nat /\ f \in [0..n -> X] /\ item \in [1..n -> X] /\ use \in SUBSET (1..n)
      /\ \A i \in 1..n : f[i] = IF i \in use /\ <<item[i], f[i - 1]>> \in R
                                THEN item[i] ELSE f[i - 1]
      /\ \A x \in X : <<x, x>> \notin R
      /\ \A x, y, z \in X : <<x, y>> \in R /\ <<y, z>> \in R => <<x, z>> \in R
  BY DEF Keeps, IsOrder
<1> DEFINE From(m) == \/ f[m] = f[0]
                      \/ \E i \in use : /\ i <= m /\ f[m] = item[i]
                                        /\ <<item[i], f[i - 1]>> \in R
                                        /\ <<item[i], f[0]>> \in R
           NoBetter(m) == \A i \in use : i <= m => <<item[i], f[m]>> \notin R
           wrong == {m \in 0..n : ~(From(m) /\ NoBetter(m))}
<1>1. SUFFICES ASSUME wrong # {} PROVE FALSE
  BY <1>0
<1>2. PICK m \in wrong : \A k \in wrong : m <= k
  <2>1. wrong \in SUBSET Nat
    BY <1>0
  <2> HIDE DEF wrong
  <2> QED
    BY <1>0, <1>1, <2>1, Least
<1>3. m \in 0..n /\ ~(From(m) /\ NoBetter(m))
  BY <1>0
<1>4. m # 0
  <2>1. ASSUME m = 0 PROVE From(m) /\ NoBetter(m)
    BY <1>0, <2>1
  <2> QED
    BY <1>0, <1>3, <2>1
<1>5. m \in 1..n /\ m - 1 \in 0..n /\ m - 1 < m
  BY <1>0, <1>3, <1>4
<1>6. From(m - 1) /\ NoBetter(m - 1)
  <2>1. m - 1 \notin wrong
    <3> HIDE DEF wrong
    <3> QED
      BY <1>0, <1>2, <1>5
  <2> QED
    BY <1>0, <1>5, <2>1
<1>7. f[m] \in X /\ f[m - 1] \in X /\ f[0] \in X /\ item[m] \in X
  BY <1>0, <1>3, <1>5
<1>8. \A i \in use : i \in Nat /\ item[i] \in X /\ (i <= m => i = m \/ i <= m - 1)
  BY <1>0, <1>3, <1>5
<1>9. CASE m \in use /\ <<item[m], f[m - 1]>> \in R
  <2>1. f[m] = item[m]
    BY <1>0, <1>5, <1>9
  <2>2. <<item[m], f[0]>> \in R
    BY <1>0, <1>6, <1>7, <1>8, <1>9
  <2>3. From(m)
    <3>1. /\ m \in use /\ m <= m /\ f[m] = item[m]
          /\ <<item[m], f[m - 1]>> \in R /\ <<item[m], f[0]>> \in R
      BY <1>0, <1>5, <1>9, <2>1, <2>2
    <3> QED
      BY <1>0, <3>1
  <2>4. ASSUME NEW i \in use, i <= m PROVE <<item[i], f[m]>> \notin R
    <3>1. CASE i = m
      BY <1>0, <1>7, <2>1, <3>1
    <3>2. CASE i <= m - 1
      <4>1. <<item[i], f[m - 1]>> \notin R
        BY <1>0, <1>6, <3>2
      <4> QED
        BY <1>0, <1>7, <1>8, <1>9, <2>1, <4>1
    <3> QED
      BY <1>0, <1>8, <2>4, <3>1, <3>2
  <2> QED
    BY <1>0, <1>3, <2>3, <2>4
<1>10. CASE ~(m \in use /\ <<item[m], f[m - 1]>> \in R)
  <2>1. f[m] = f[m - 1]
    BY <1>0, <1>5, <1>10
  <2>2. From(m)
    <3>1. CASE f[m - 1] = f[0]
      BY <2>1, <3>1
    <3>2. ASSUME NEW i \in use, i <= m - 1, f[m - 1] = item[i],
                 <<item[i], f[i - 1]>> \in R, <<item[i], f[0]>> \in R
          PROVE  From(m)
      <4>1. i <= m /\ f[m] = item[i]
        BY <1>0, <1>5, <1>8, <2>1, <3>2
      <4> QED
        BY <3>2, <4>1
    <3> QED
      BY <1>6, <3>1, <3>2
  <2>3. ASSUME NEW i \in use, i <= m PROVE <<item[i], f[m]>> \notin R
    <3>1. CASE i = m
      BY <1>0, <1>10, <2>1, <3>1
    <3>2. CASE i <= m - 1
      BY <1>0, <1>6, <2>1, <3>2
    <3> QED
      BY <1>0, <1>8, <2>3, <3>1, <3>2
  <2> QED
    BY <1>0, <1>3, <2>2, <2>3
<1> QED
  BY <1>0, <1>9, <1>10

(* What the comparisons of numbers need of a sample.                       *)
LEMMA Numbers ==
    ASSUME NEW a \in Samples
    PROVE  /\ a.valid \in BOOLEAN
           /\ a.score \in Int /\ a.events \in Int /\ a.order \in Int
           /\ a.objectives \in Seq(Int)
<1>1. a \in DeviceSample(Cands, Int, Nat, Nat)
  BY DEF Samples
<1>2. a.score \in Int /\ a.events \in Int /\ a.order \in Int
  BY <1>1 DEF DeviceSample
<1>3. a.valid \in BOOLEAN
  BY <1>1, Zenon DEF DeviceSample
<1>4. a.objectives \in Seq(Int)
  BY <1>1 DEF DeviceSample
<1> QED BY <1>2, <1>3, <1>4

-----------------------------------------------------------------------------
(* Improving by score or by events (StrictlyBetter in                      *)
(* cuda_search_winner_selection.cuh) is a strict order: no sample improves *)
(* itself, no two improve each other, and an improvement of an improvement *)
(* is one - so an incumbent replaced time after time never comes back.     *)
THEOREM ImprovementIsAnOrder ==
    ASSUME NEW a \in Samples, NEW b \in Samples, NEW c \in Samples,
           NEW maximize \in BOOLEAN
    PROVE  /\ ~StrictlyBetter(a, a, maximize)
           /\ ~(StrictlyBetter(a, b, maximize) /\ StrictlyBetter(b, a, maximize))
           /\ StrictlyBetter(a, b, maximize) /\ StrictlyBetter(b, c, maximize) =>
                  StrictlyBetter(a, c, maximize)
  BY Numbers DEF StrictlyBetter, Higher

(* Dominance of scripted samples (StrictlyDominates) is a strict order     *)
(* too, for any number of objectives.                                      *)
THEOREM DominanceIsAnOrder ==
    ASSUME NEW a \in Samples, NEW b \in Samples, NEW c \in Samples
    PROVE  /\ ~StrictlyDominates(a, a)
           /\ StrictlyDominates(a, b) /\ StrictlyDominates(b, c) =>
                  StrictlyDominates(a, c)
<1>1. ~StrictlyDominates(a, a)
  <2> SUFFICES ASSUME StrictlyDominates(a, a) PROVE FALSE
    OBVIOUS
  <2>1. PICK i \in DOMAIN a.objectives : a.objectives[i] > a.objectives[i]
    BY DEF StrictlyDominates
  <2>2. a.objectives[i] \in Int
    BY Numbers, <2>1
  <2> QED BY <2>1, <2>2
<1>2. ASSUME StrictlyDominates(a, b), StrictlyDominates(b, c)
      PROVE  StrictlyDominates(a, c)
  <2>1. a.valid /\ b.valid
    BY <1>2 DEF StrictlyDominates
  <2>2. CASE ~c.valid
    BY <2>1, <2>2 DEF StrictlyDominates
  <2>3. CASE c.valid
    <3>1. /\ Len(a.objectives) # 0
          /\ Len(a.objectives) = Len(b.objectives)
          /\ Len(b.objectives) = Len(c.objectives)
      BY <1>2, <2>1, <2>3 DEF StrictlyDominates
    <3>2. /\ DOMAIN a.objectives = DOMAIN b.objectives
          /\ DOMAIN b.objectives = DOMAIN c.objectives
      <4>1. /\ DOMAIN a.objectives = 1..Len(a.objectives)
            /\ DOMAIN b.objectives = 1..Len(b.objectives)
            /\ DOMAIN c.objectives = 1..Len(c.objectives)
        BY Numbers
      <4> QED BY <3>1, <4>1
    <3>3. ASSUME NEW i \in DOMAIN a.objectives
          PROVE  /\ a.objectives[i] \in Int
                 /\ b.objectives[i] \in Int
                 /\ c.objectives[i] \in Int
      BY <3>2, <3>3, Numbers
    <3>4. /\ \A i \in DOMAIN a.objectives : a.objectives[i] >= b.objectives[i]
          /\ \A i \in DOMAIN b.objectives : b.objectives[i] >= c.objectives[i]
      BY <1>2, <2>1, <2>3 DEF StrictlyDominates
    <3>5. \A i \in DOMAIN a.objectives : a.objectives[i] >= c.objectives[i]
      BY <3>2, <3>3, <3>4
    <3>6. PICK i \in DOMAIN a.objectives : a.objectives[i] > b.objectives[i]
      BY <1>2, <2>1 DEF StrictlyDominates
    <3>7. a.objectives[i] > c.objectives[i]
      BY <3>2, <3>3, <3>4, <3>6
    <3> QED BY <2>1, <3>1, <3>5, <3>6, <3>7 DEF StrictlyDominates
  <2> QED BY <2>2, <2>3
<1> QED BY <1>1, <1>2

-----------------------------------------------------------------------------
(* cub::DeviceReduce groups its operands as it likes, which needs an       *)
(* associative operator: BetterSample is one, whatever samples are invalid *)
(* or tied.                                                                *)
THEOREM ReductionMayBeGrouped ==
    ASSUME NEW a \in Samples, NEW b \in Samples, NEW c \in Samples,
           NEW maximize \in BOOLEAN
    PROVE  BetterSample(BetterSample(a, b, maximize), c, maximize) =
           BetterSample(a, BetterSample(b, c, maximize), maximize)
<1> DEFINE First(x, y) == PreferredToLater(x, y, maximize)
<1>1. /\ First(a, b) /\ First(b, c) => First(a, c)
      /\ ~First(a, b) /\ ~First(b, c) => ~First(a, c)
  BY Numbers DEF PreferredToLater, StrictlyBetter, Higher
<1>2. \A x, y : BetterSample(x, y, maximize) = IF First(x, y) THEN x ELSE y
  BY DEF BetterSample
<1> HIDE DEF First
<1>3. CASE First(a, b) /\ First(b, c)
  BY <1>1, <1>2, <1>3
<1>4. CASE First(a, b) /\ ~First(b, c)
  BY <1>2, <1>4
<1>5. CASE ~First(a, b) /\ First(b, c)
  BY <1>2, <1>5
<1>6. CASE ~First(a, b) /\ ~First(b, c)
  BY <1>1, <1>2, <1>6
<1> QED BY <1>3, <1>4, <1>5, <1>6

(* And it takes them in any order: samples of different slots or ticks     *)
(* have different logical orders, so a tie is broken the same way from     *)
(* either side.                                                            *)
THEOREM ReductionMayBeReordered ==
    ASSUME NEW a \in Samples, NEW b \in Samples, NEW maximize \in BOOLEAN,
           a.valid \/ b.valid, a.order # b.order
    PROVE  BetterSample(a, b, maximize) = BetterSample(b, a, maximize)
  BY Numbers DEF BetterSample, PreferredToLater, StrictlyBetter, Higher

(* Neither operand improves the winner, and what improves the winner       *)
(* improves them both: a reduction that holds the seed of the incumbent    *)
(* ends in the incumbent or in an improvement of it, and the next batch    *)
(* loses nothing by comparing with the winner only.                        *)
THEOREM WinnerStandsForBoth ==
    ASSUME NEW a \in Samples, NEW b \in Samples, NEW c \in Samples,
           NEW maximize \in BOOLEAN
    PROVE  LET won == BetterSample(a, b, maximize) IN
           /\ won \in {a, b}
           /\ ~StrictlyBetter(a, won, maximize)
           /\ ~StrictlyBetter(b, won, maximize)
           /\ StrictlyBetter(c, won, maximize) =>
                  StrictlyBetter(c, a, maximize) /\ StrictlyBetter(c, b, maximize)
<1>1. CASE PreferredToLater(a, b, maximize)
  <2>1. BetterSample(a, b, maximize) = a
    BY <1>1 DEF BetterSample
  <2>2. /\ ~StrictlyBetter(a, a, maximize)
        /\ ~StrictlyBetter(b, a, maximize)
        /\ StrictlyBetter(c, a, maximize) => StrictlyBetter(c, b, maximize)
    BY <1>1, Numbers DEF PreferredToLater, StrictlyBetter, Higher
  <2> QED BY <2>1, <2>2
<1>2. CASE ~PreferredToLater(a, b, maximize)
  <2>1. BetterSample(a, b, maximize) = b
    BY <1>2 DEF BetterSample
  <2>2. /\ ~StrictlyBetter(b, b, maximize)
        /\ ~StrictlyBetter(a, b, maximize)
        /\ StrictlyBetter(c, b, maximize) => StrictlyBetter(c, a, maximize)
    BY <1>2, Numbers DEF PreferredToLater, StrictlyBetter, Higher
  <2> QED BY <2>1, <2>2
<1> QED BY <1>1, <1>2

-----------------------------------------------------------------------------
(* The inductive invariant.                                                *)

RunOK == kind \in Kinds /\ run \in [Cands -> Runs[kind]]

\* What the runs make of the candidates, each alone.
Wholes == [c \in Cands |-> Alone(c)]
FineTimes == [c \in Cands |-> FineTime(c)]
Reports == [c \in Cands |-> Reported(c)]

\* What the evaluator found where a sample says it did.
Found(s) ==
    CASE kind = "finish" -> IF s.precise THEN FineTimes[s.of]
                            ELSE Prestart + (s.tick + 1) * TickMs
      [] kind = "scripted" -> s.objectives[1]
      [] OTHER -> run[s.of].values[s.tick + 1][1]

\* A sample of candidate c, or none.
IsOf(s, c) ==
    /\ s \in Samples
    /\ ~s.valid => s = NoSample
    /\ s.valid => /\ s.of = c /\ s.events = run[c].events /\ s.score = Found(s)
                  /\ s.tick \in 0..(Ticks - 1)
    /\ s.precise => kind = "finish" /\ s.time = s.score
    /\ kind # "scripted" => s.objectives = None

InSlot(s, slot) ==
    s.valid => s.slot = slot /\ s.order = 1 + slot * Ticks + s.tick

\* Samples of one candidate that differ in what the slot makes of them only.
Twins(a, b) ==
    /\ a.valid = b.valid
    /\ a.valid => /\ a.score = b.score /\ a.objectives = b.objectives
                  /\ a.of = b.of /\ a.tick = b.tick /\ a.events = b.events

IncumbentOK ==
    /\ bestInputs \in Cands
    /\ IsOf(best, bestInputs)
    /\ best.valid => IF bestState = Uninitialised THEN best = Seed
                     ELSE bestState = <<best.of, best.tick>>

\* The incumbent and the best of the candidates evaluated one by one.
IdealOK ==
    /\ IsOf(ideal, ideal.of)
    /\ kind # "finish" => ~Improves(ideal, best)
    /\ kind = "finish" /\ ideal.valid => best.valid /\ best.score <= ideal.score
    /\ ~tainted => IF kind = "finish" THEN SameResult(best, ideal) /\ best.precise = best.valid
                   ELSE Twins(best, ideal)

\* What the caller knows of the incumbent.
KnownOK ==
    /\ phase # "Return" /\ ~withheld => known = best
    /\ phase = "Return" =>
        /\ ~withheld => (summary.changed <=> best # known)
        /\ ~IsBaseline => (summary.changed <=> summary.improvements > 0)

\* The evaluation of candidate c, run to its end.  A finish that cannot beat
\* the incumbent may be dropped.
Agrees(s, c) ==
    IF run[c].generated # "Mutated" THEN ~s.valid
    ELSE IF kind # "finish" THEN Twins(s, Wholes[c])
    ELSE /\ s.valid => Wholes[c].valid
         /\ Wholes[c].valid => s.valid \/ (best.precise /\ best.score <= Wholes[c].score)

Coarse(s, c) ==
    /\ ~s.precise
    /\ kind = "finish" /\ s.valid =>
        /\ Reports[c] # {} /\ s.tick + 1 = Min(Reports[c])
        /\ s.time = (Prestart + (s.tick + 1) * TickMs) * NsPerMs

\* The sample in a slot is its candidate's.
Evaluated(i) ==
    /\ IsOf(samples[i], batch[i]) /\ InSlot(samples[i], i - 1)
    /\ status[i] = "Success" => Agrees(samples[i], batch[i])

Fresh(i) == samples[i] = NoSample /\ status[i] = "Success"

Simulated(i) == Evaluated(i) /\ Coarse(samples[i], batch[i])

Awaiting(i) == /\ Simulated(i) /\ samples[i].valid
               /\ status[i] = "Success" /\ kind = "finish"

Done(i) ==
    /\ Evaluated(i)
    /\ kind = "finish" /\ status[i] = "Success" => samples[i].precise = samples[i].valid

InFlight == {"Simulate", "Refine", "Reduce", "Finalize"}

BatchOK ==
    /\ batch \in Seq(Cands)
    /\ status = [i \in 1..Len(batch) |-> status[i]]
    /\ samples = [i \in 0..Len(batch) |-> samples[i]]
    /\ samples[0] = Seeded
    /\ todo \subseteq 1..Len(batch)
    /\ \A i \in 1..Len(batch) :
        /\ phase = "Simulate" => IF i \in todo THEN Fresh(i) ELSE Simulated(i)
        /\ phase = "Refine" => IF i \in todo THEN Awaiting(i) ELSE Done(i)
        /\ phase \in {"Reduce", "Finalize"} => Done(i)

\* Slot after slot, the best so far.
Walks(h) ==
    /\ h \in [0..Len(batch) -> Samples]
    /\ h[0] = samples[0]
    /\ \A i \in 1..Len(batch) :
        h[i] = IF Improves(samples[i], h[i - 1]) THEN samples[i] ELSE h[i - 1]

\* Equal for a search: both are none, or the same sample.
Stands(w, s) == (w.valid <=> s.valid) /\ (w.valid => w = s)

\* The reduction ends where the walk ends, and its state is captured.
WinnerOK ==
    /\ \A h : Walks(h) => Stands(winner, h[Len(batch)])
    /\ winner.valid /\ winner.slot # NoSlot =>
            captured = <<batch[winner.slot + 1], winner.tick>>

IInv ==
    /\ RunOK
    /\ phase \in {"Idle", "Return"} \cup InFlight
    /\ phase = "Idle" => status = <<>>
    /\ flag \in {"Down", "Before", "During"}
    /\ run[Baseline].generated = "Mutated"
    /\ tainted \in BOOLEAN /\ withheld \in BOOLEAN
    /\ IncumbentOK /\ IdealOK /\ KnownOK
    /\ phase \in InFlight => BatchOK
    /\ phase = "Finalize" => WinnerOK

-----------------------------------------------------------------------------
(* Runs, and the best of their first ticks.                                *)

\* The runs of the candidates are as SearchAssumption says.
LEMMA RunFacts ==
    ASSUME RunOK, NEW c \in Cands
    PROVE  /\ run[c].fails \in 0..Ticks /\ run[c].events \in Nat
           /\ \A t \in 1..Ticks :
                /\ run[c].values[t] \in Seq(Int)
                /\ run[c].values[t] # None =>
                        /\ 1 \in DOMAIN run[c].values[t] /\ run[c].values[t][1] \in Int
                        /\ kind = "finish" => run[c].values[t][1] >= 0
           /\ \A t \in 1..Ticks, u \in 1..Ticks :
                \/ None \in {run[c].values[t], run[c].values[u]}
                \/ DOMAIN run[c].values[t] = DOMAIN run[c].values[u]
<1> DEFINE r == run[c]
<1>1. r \in Runs[kind] /\ r \in Run
  BY SearchAssumption DEF RunOK
<1>2. r.fails \in 0..Ticks /\ r.events \in Nat /\ r.values \in [1..Ticks -> Seq(Int)]
  BY <1>1 DEF Run
<1>3. ASSUME NEW t \in 1..Ticks, NEW u \in 1..Ticks
      PROVE  \/ None \in {r.values[t], r.values[u]}
             \/ Len(r.values[t]) = Len(r.values[u])
  BY <1>1, SearchAssumption DEF RunOK
<1>4. ASSUME NEW t \in 1..Ticks, kind = "finish"
      PROVE  r.values[t] = None \/ r.values[t][1] \in Nat \ {0}
  BY <1>1, <1>4, SearchAssumption DEF RunOK
<1> HIDE DEF r
<1>5. ASSUME NEW v \in Seq(Int), v # None
      PROVE  1 \in DOMAIN v /\ v[1] \in Int
  BY <1>5 DEF None
<1>6. ASSUME NEW t \in 1..Ticks
      PROVE  /\ r.values[t] \in Seq(Int)
             /\ r.values[t] # None =>
                        /\ 1 \in DOMAIN r.values[t] /\ r.values[t][1] \in Int
                        /\ kind = "finish" => r.values[t][1] >= 0
  <2>1. r.values[t] \in Seq(Int)
    BY <1>2
  <2>2. ASSUME r.values[t] # None, kind = "finish" PROVE r.values[t][1] >= 0
    BY <1>4, <2>2
  <2> QED
    BY <1>5, <2>1, <2>2
<1>7. ASSUME NEW t \in 1..Ticks, NEW u \in 1..Ticks
      PROVE  \/ None \in {r.values[t], r.values[u]}
             \/ DOMAIN r.values[t] = DOMAIN r.values[u]
  <2>1. DOMAIN r.values[t] = 1..Len(r.values[t]) /\ DOMAIN r.values[u] = 1..Len(r.values[u])
    BY <1>2
  <2> QED
    BY <1>3, <2>1
<1> QED
  BY <1>2, <1>6, <1>7 DEF r

\* The lengths of ticks and the products of times.
LEMMA ConstantFacts ==
    /\ Ticks \in Nat \ {0} /\ TickMs \in Nat \ {0} /\ NsPerMs \in Nat \ {0} /\ Prestart \in Nat
    /\ NsPerTick \in Nat \ {0}
    /\ \A m \in Nat : m * TickMs \in Nat /\ m * Ticks \in Nat /\ m * NsPerMs \in Nat
                      /\ m * NsPerTick \in Nat
    /\ \A m \in Nat, n \in Nat : m < n => m * TickMs < n * TickMs
                                          /\ m * NsPerTick < n * NsPerTick
<1>1. /\ Ticks \in Nat \ {0} /\ TickMs \in Nat \ {0} /\ NsPerMs \in Nat \ {0} /\ Prestart \in Nat
  BY SearchAssumption
<1>2. \A m \in Nat, n \in Nat : m * n \in Nat
  OBVIOUS
<1>3. \A m \in Nat \ {0}, n \in Nat \ {0} : m * n \in Nat \ {0}
  OBVIOUS
<1>4. \A m \in Nat, n \in Nat, k \in Nat \ {0} : m < n => m * k < n * k
  OBVIOUS
<1>5. NsPerTick \in Nat \ {0}
  BY <1>1, <1>3 DEF NsPerTick
<1> QED
  BY <1>1, <1>2, <1>4, <1>5

LEMMA NoSampleIsSample == NoSample \in Samples
<1>1. Baseline \in Cands /\ None \in Seq(Int) /\ Unordered \in Nat /\ 0 \in Nat
  BY DEF Cands, None, Unordered
<1> QED
  BY <1>1 DEF NoSample, NoSlot, Samples, DeviceSample

\* What an evaluated tick of a candidate gives.
LEMMA ScoredFacts ==
    ASSUME RunOK, NEW c \in Cands, NEW slot \in Nat, NEW t \in 1..Ticks,
           run[c].values[t] # None
    PROVE  \E x \in Int, ns \in Int :
              /\ Scored(c, slot, t) =
                   [valid |-> TRUE, of |-> c, score |-> x, objectives |-> None, time |-> ns,
                    slot |-> slot, order |-> 1 + slot * Ticks + (t - 1), tick |-> t - 1,
                    events |-> run[c].events, precise |-> FALSE]
              /\ Scored(c, slot, t) \in Samples
              /\ x = IF kind = "finish" THEN Prestart + t * TickMs ELSE run[c].values[t][1]
              /\ kind = "finish" => ns = (Prestart + t * TickMs) * NsPerMs
<1> DEFINE x == IF kind = "finish" THEN Prestart + t * TickMs ELSE run[c].values[t][1]
           ns == (IF kind = "finish" THEN Prestart + t * TickMs ELSE t * TickMs) * NsPerMs
           o == 1 + slot * Ticks + (t - 1)
<1>1. Scored(c, slot, t) =
        [valid |-> TRUE, of |-> c, score |-> x, objectives |-> None, time |-> ns,
         slot |-> slot, order |-> o, tick |-> t - 1, events |-> run[c].events,
         precise |-> FALSE]
  <2>1. Scored(c, slot, t) = [NoSample EXCEPT
            !.valid = TRUE, !.of = c, !.slot = slot, !.tick = t - 1,
            !.events = run[c].events, !.order = o, !.score = x, !.time = ns]
    BY DEF Scored
  <2> HIDE DEF x, ns, o
  <2> QED
    BY <2>1, ZenonT(60) DEF NoSample
<1>2. x \in Int /\ ns \in Int /\ o \in Nat /\ t - 1 \in Nat
  <2>1. t \in Nat /\ t * TickMs \in Nat /\ slot * Ticks \in Nat
    BY ConstantFacts
  <2>2. run[c].values[t][1] \in Int
    BY RunFacts
  <2>3. Prestart + t * TickMs \in Nat /\ t - 1 \in Nat
    BY <2>1, ConstantFacts
  <2>4. x \in Int
    BY <2>2, <2>3
  <2>5. (Prestart + t * TickMs) * NsPerMs \in Nat /\ (t * TickMs) * NsPerMs \in Nat
    BY <2>1, <2>3, ConstantFacts
  <2>6. ns \in Int
    BY <2>5
  <2>7. o \in Nat
    BY <2>1, <2>3
  <2> QED
    BY <2>3, <2>4, <2>6, <2>7
<1>3. None \in Seq(Int) /\ run[c].events \in Nat
  BY RunFacts DEF None
<1> HIDE DEF x, ns, o
<1>4. Scored(c, slot, t) \in Samples
  BY <1>1, <1>2, <1>3 DEF Samples, DeviceSample
<1>5. /\ x = IF kind = "finish" THEN Prestart + t * TickMs ELSE run[c].values[t][1]
      /\ kind = "finish" => ns = (Prestart + t * TickMs) * NsPerMs
  BY DEF x, ns
<1> QED
  BY <1>1, <1>2, <1>4, <1>5, Zenon DEF o

\* A sample says what was found at a tick of candidate c.
SaysOf(s, c, slot) ==
    /\ s.of = c /\ s.slot = slot /\ s.events = run[c].events
    /\ s.order = 1 + slot * Ticks + s.tick
    /\ run[c].values[s.tick + 1] # None
    /\ kind = "scripted" => /\ DOMAIN s.objectives = DOMAIN run[c].values[s.tick + 1]
                            /\ s.score = s.objectives[1]
    /\ kind \notin {"scripted", "finish"} => s.score = run[c].values[s.tick + 1][1]
    /\ kind = "finish" =>
          /\ s.score = Prestart + (s.tick + 1) * TickMs
          /\ s.time = (Prestart + (s.tick + 1) * TickMs) * NsPerMs
          /\ \A u \in 1..s.tick : run[c].values[u] = None

\* The best of the first t ticks of candidate c in a slot.
IsBestAfter(s, c, slot, t) ==
    /\ s \in Samples
    /\ ~s.valid => s = NoSample
    /\ s.valid <=> \E u \in 1..t : run[c].values[u] # None
    /\ s.valid => s.tick \in 0..(t - 1) /\ SaysOf(s, c, slot)
    /\ ~s.precise
    /\ kind # "scripted" => s.objectives = None

\* Before the first tick there is no best.
LEMMA NothingBefore ==
    ASSUME RunOK, NEW c \in Cands, NEW slot \in Nat
    PROVE  IsBestAfter(NoSample, c, slot, 0)
  BY NoSampleIsSample DEF IsBestAfter, NoSample

\* The objectives a scripted evaluator keeps are numbers, as many as before.
LEMMA KeptObjectives ==
    ASSUME RunOK, NEW c \in Cands, NEW t \in 1..Ticks, run[c].values[t] # None,
           NEW before \in Samples,
           before.valid => DOMAIN before.objectives = DOMAIN run[c].values[t]
    PROVE  LET value == run[c].values[t]
               kept == [i \in DOMAIN value |->
                          IF before.valid /\ before.objectives[i] > value[i]
                          THEN before.objectives[i] ELSE value[i]]
           IN /\ kept \in Seq(Int) /\ DOMAIN kept = DOMAIN value /\ kept[1] \in Int
              /\ 1 \in DOMAIN value
<1> DEFINE value == run[c].values[t]
           kept == [i \in DOMAIN value |->
                      IF before.valid /\ before.objectives[i] > value[i]
                      THEN before.objectives[i] ELSE value[i]]
<1>1. value \in Seq(Int) /\ 1 \in DOMAIN value
  BY RunFacts
<1>2. before.objectives \in Seq(Int)
  BY Numbers
<1>3. \A i \in DOMAIN value : value[i] \in Int
  BY <1>1
<1>4. before.valid => \A i \in DOMAIN value : before.objectives[i] \in Int
  BY <1>2
<1>5. DOMAIN value = 1..Len(value) /\ Len(value) \in Nat
  BY <1>1
<1> HIDE DEF value
<1>6. kept \in [1..Len(value) -> Int]
  BY <1>3, <1>4, <1>5
<1>7. kept \in Seq(Int) /\ DOMAIN kept = DOMAIN value /\ kept[1] \in Int
  BY <1>1, <1>5, <1>6
<1> QED
  BY <1>1, <1>7 DEF value

\* A tick keeps what is said of the best of a run.
LEMMA AfterTickFacts ==
    ASSUME RunOK, NEW c \in Cands, NEW slot \in Nat, NEW t \in 1..Ticks, NEW s,
           IsBestAfter(s, c, slot, t - 1)
    PROVE  IsBestAfter(AfterTick(c, slot, t, s), c, slot, t)
<1> DEFINE value == run[c].values[t]
           now == Scored(c, slot, t)
           after == AfterTick(c, slot, t, s)
<1>1. s \in Samples /\ t \in Nat /\ t - 1 \in Nat /\ t <= Ticks /\ Ticks \in Nat
  BY ConstantFacts DEF IsBestAfter
<1>2. \A u \in 1..t : u = t \/ u \in 1..(t - 1)
  BY <1>1
<1>3. CASE value = None
  <2>1. after = s
    BY <1>3 DEF AfterTick
  <2>2. (\E u \in 1..t : run[c].values[u] # None)
            <=> \E u \in 1..(t - 1) : run[c].values[u] # None
    BY <1>1, <1>2, <1>3
  <2>3. s.valid => s.tick \in 0..(t - 1) /\ SaysOf(s, c, slot)
    BY <1>1 DEF IsBestAfter
  <2>4. IsBestAfter(s, c, slot, t)
    BY <2>2, <2>3 DEF IsBestAfter
  <2> QED
    BY <2>1, <2>4
<1>4. CASE value # None
  <2>1. PICK x \in Int, ns \in Int :
            /\ now = [valid |-> TRUE, of |-> c, score |-> x, objectives |-> None, time |-> ns,
                      slot |-> slot, order |-> 1 + slot * Ticks + (t - 1), tick |-> t - 1,
                      events |-> run[c].events, precise |-> FALSE]
            /\ now \in Samples
            /\ x = IF kind = "finish" THEN Prestart + t * TickMs ELSE value[1]
            /\ kind = "finish" => ns = (Prestart + t * TickMs) * NsPerMs
    BY <1>4, ScoredFacts
  <2>2. (t - 1) + 1 = t /\ t - 1 \in 0..(t - 1) /\ t \in 1..t
    BY <1>1
  <2>3. \A m \in 0..((t - 1) - 1) : m \in 0..(t - 1)
    BY <1>1
  <2>4. value \in Seq(Int) /\ 1 \in DOMAIN value /\ value[1] \in Int
    BY <1>4, RunFacts
  <2>5. CASE kind = "scripted"
    <3> DEFINE kept == [i \in DOMAIN value |->
                          IF s.valid /\ s.objectives[i] > value[i]
                          THEN s.objectives[i] ELSE value[i]]
    <3>1. s.valid => DOMAIN s.objectives = DOMAIN value
      <4>1. ASSUME s.valid
            PROVE  /\ s.tick + 1 \in 1..Ticks /\ run[c].values[s.tick + 1] # None
                   /\ DOMAIN s.objectives = DOMAIN run[c].values[s.tick + 1]
        BY <1>1, <2>5, <4>1 DEF IsBestAfter, SaysOf
      <4> QED
        BY <1>4, <4>1, RunFacts
    <3>2. kept \in Seq(Int) /\ DOMAIN kept = DOMAIN value /\ kept[1] \in Int
      BY <1>1, <1>4, <3>1, KeptObjectives
    <3>3. after = [now EXCEPT !.objectives = kept, !.score = kept[1]]
      BY <1>4, <2>5 DEF AfterTick
    <3> HIDE DEF kept, value, now, after
    <3>4. after = [valid |-> TRUE, of |-> c, score |-> kept[1], objectives |-> kept,
                   time |-> ns, slot |-> slot, order |-> 1 + slot * Ticks + (t - 1),
                   tick |-> t - 1, events |-> run[c].events, precise |-> FALSE]
      BY <2>1, <3>3
    <3>5. after \in Samples
      BY <2>1, <3>2, <3>3 DEF Samples, DeviceSample
    <3>6. run[c].values[t] # None /\ DOMAIN kept = DOMAIN run[c].values[t]
      BY <1>4, <3>2 DEF value
    <3>7. SaysOf(after, c, slot)
      BY <2>2, <2>5, <3>4, <3>6 DEF SaysOf
    <3> QED
      BY <2>2, <2>5, <3>4, <3>5, <3>6, <3>7 DEF IsBestAfter, after
  <2>6. CASE kind # "scripted" /\ StrictlyBetter(now, s, Maximize)
    <3>1. after = now
      BY <1>4, <2>6 DEF AfterTick
    <3>2. run[c].values[t] # None
      BY <1>4
    <3>3. kind = "finish" => \A u \in 1..(t - 1) : run[c].values[u] = None
      <4> SUFFICES ASSUME kind = "finish", s.valid PROVE FALSE
        BY DEF IsBestAfter, SaysOf
      <4>1. /\ s.tick \in Nat /\ s.tick + 1 < t
            /\ s.score = Prestart + (s.tick + 1) * TickMs
        BY <1>1 DEF IsBestAfter, SaysOf
      <4>2. (s.tick + 1) * TickMs < t * TickMs /\ (s.tick + 1) * TickMs \in Nat
            /\ t * TickMs \in Nat /\ Prestart \in Nat
        <5>1. s.tick + 1 \in Nat /\ t \in Nat
          BY <1>1, <4>1
        <5> QED
          BY <4>1, <5>1, ConstantFacts
      <4>3. now.score = Prestart + t * TickMs /\ now.score > s.score
        BY <2>1, <4>1, <4>2
      <4>4. ~Maximize
        BY DEF Maximize
      <4> HIDE DEF now
      <4>5. s.score \in Int /\ now.score \in Int
        BY <4>1, <4>2, <4>3
      <4> QED
        BY <2>6, <4>3, <4>4, <4>5 DEF StrictlyBetter, Higher
    <3>4. now.tick = t - 1 /\ now.valid /\ ~now.precise /\ now.objectives = None
      BY <2>1
    <3>5. SaysOf(now, c, slot)
      <4> HIDE DEF now
      <4> QED
        BY <2>1, <2>2, <2>6, <3>2, <3>3 DEF SaysOf
    <3>6. \E u \in 1..t : run[c].values[u] # None
      BY <2>2, <3>2
    <3>7. now \in Samples
      BY <2>1
    <3> HIDE DEF now, after, value
    <3>8. IsBestAfter(now, c, slot, t)
      BY <2>2, <3>4, <3>5, <3>6, <3>7 DEF IsBestAfter
    <3> QED
      BY <3>1, <3>8 DEF after
  <2>7. CASE kind # "scripted" /\ ~StrictlyBetter(now, s, Maximize)
    <3>1. after = s
      BY <1>4, <2>7 DEF AfterTick
    <3>2. s.valid
      BY <2>1, <2>7 DEF StrictlyBetter
    <3>3. \E u \in 1..t : run[c].values[u] # None
      BY <1>4, <2>2
    <3>4. s.valid => s.tick \in 0..(t - 1) /\ SaysOf(s, c, slot)
      BY <1>1 DEF IsBestAfter
    <3>5. IsBestAfter(s, c, slot, t)
      BY <3>2, <3>3, <3>4 DEF IsBestAfter
    <3> QED
      BY <3>1, <3>5
  <2> QED
    BY <2>5, <2>6, <2>7
<1> QED
  BY <1>3, <1>4

\* The slot leaves no trace in the evaluation.
LEMMA AfterTickTwins ==
    ASSUME RunOK, NEW c \in Cands, NEW slot \in Nat, NEW other \in Nat, NEW t \in 1..Ticks,
           NEW s, NEW r, Twins(s, r), IsBestAfter(s, c, slot, t - 1),
           IsBestAfter(r, c, other, t - 1)
    PROVE  Twins(AfterTick(c, slot, t, s), AfterTick(c, other, t, r))
<1> DEFINE value == run[c].values[t]
           now == Scored(c, slot, t)
           then == Scored(c, other, t)
<1>1. CASE value = None
  BY <1>1 DEF AfterTick
<1>2. CASE value # None
  <2>1. PICK x \in Int, ns \in Int :
            /\ now = [valid |-> TRUE, of |-> c, score |-> x, objectives |-> None, time |-> ns,
                      slot |-> slot, order |-> 1 + slot * Ticks + (t - 1), tick |-> t - 1,
                      events |-> run[c].events, precise |-> FALSE]
            /\ x = IF kind = "finish" THEN Prestart + t * TickMs ELSE value[1]
    BY <1>2, ScoredFacts
  <2>2. PICK ms \in Int :
            then = [valid |-> TRUE, of |-> c, score |-> x, objectives |-> None, time |-> ms,
                    slot |-> other, order |-> 1 + other * Ticks + (t - 1), tick |-> t - 1,
                    events |-> run[c].events, precise |-> FALSE]
    <3>1. PICK y \in Int, ms \in Int :
            /\ then = [valid |-> TRUE, of |-> c, score |-> y, objectives |-> None, time |-> ms,
                       slot |-> other, order |-> 1 + other * Ticks + (t - 1), tick |-> t - 1,
                       events |-> run[c].events, precise |-> FALSE]
            /\ y = IF kind = "finish" THEN Prestart + t * TickMs ELSE value[1]
      BY <1>2, ScoredFacts
    <3>2. y = x
      BY <2>1, <3>1
    <3> QED
      BY <3>1, <3>2, Zenon
  <2>3. CASE kind = "scripted"
    <3> DEFINE kept == [i \in DOMAIN value |->
                          IF s.valid /\ s.objectives[i] > value[i]
                          THEN s.objectives[i] ELSE value[i]]
               same == [i \in DOMAIN value |->
                          IF r.valid /\ r.objectives[i] > value[i]
                          THEN r.objectives[i] ELSE value[i]]
    <3>1. kept = same
      BY DEF Twins
    <3>2. /\ AfterTick(c, slot, t, s) = [now EXCEPT !.objectives = kept, !.score = kept[1]]
          /\ AfterTick(c, other, t, r) = [then EXCEPT !.objectives = same, !.score = same[1]]
      BY <1>2, <2>3 DEF AfterTick
    <3> HIDE DEF now, then, kept, same
    <3> QED
      BY <2>1, <2>2, <3>1, <3>2 DEF Twins
  <2>4. CASE kind # "scripted"
    <3>1. StrictlyBetter(now, s, Maximize) <=> StrictlyBetter(then, r, Maximize)
      <4> HIDE DEF now, then
      <4> QED
        BY <2>1, <2>2 DEF Twins, StrictlyBetter
    <3>2. /\ AfterTick(c, slot, t, s) = IF StrictlyBetter(now, s, Maximize) THEN now ELSE s
          /\ AfterTick(c, other, t, r) = IF StrictlyBetter(then, r, Maximize) THEN then ELSE r
      BY <1>2, <2>4 DEF AfterTick
    <3> HIDE DEF now, then
    <3>3. Twins(now, then)
      BY <2>1, <2>2 DEF Twins
    <3> QED
      BY <3>1, <3>2, <3>3
  <2> QED
    BY <2>3, <2>4
<1> QED
  BY <1>1, <1>2

\* What AfterTick is applied to stays within these.
Lasting(c) ==
    {s \in Samples : s.valid /\ kind = "scripted" =>
        \A t \in 1..Ticks : \/ run[c].values[t] = None
                            \/ DOMAIN s.objectives = DOMAIN run[c].values[t]}

\* A tick keeps the number of objectives.
LEMMA AfterTickLasts ==
    ASSUME RunOK, NEW c \in Cands, NEW slot \in Nat, NEW t \in 1..Ticks, NEW s \in Lasting(c)
    PROVE  AfterTick(c, slot, t, s) \in Lasting(c)
<1> DEFINE value == run[c].values[t]
           now == Scored(c, slot, t)
           after == AfterTick(c, slot, t, s)
<1>1. CASE value = None
  BY <1>1 DEF AfterTick
<1>2. CASE value # None
  <2>1. now \in Samples
    BY <1>2, ScoredFacts
  <2>2. CASE kind = "scripted"
    <3> DEFINE kept == [i \in DOMAIN value |->
                          IF s.valid /\ s.objectives[i] > value[i]
                          THEN s.objectives[i] ELSE value[i]]
    <3>1. s.valid => DOMAIN s.objectives = DOMAIN value
      BY <1>2, <2>2 DEF Lasting
    <3>2. kept \in Seq(Int) /\ DOMAIN kept = DOMAIN value /\ kept[1] \in Int
      BY <1>2, <3>1, KeptObjectives DEF Lasting
    <3>3. after = [now EXCEPT !.objectives = kept, !.score = kept[1]]
      BY <1>2, <2>2 DEF AfterTick
    <3>4. \A u \in 1..Ticks : \/ run[c].values[u] = None
                              \/ DOMAIN kept = DOMAIN run[c].values[u]
      BY <1>2, <3>2, RunFacts
    <3> HIDE DEF kept, value, now, after
    <3>5. after \in Samples /\ after.objectives = kept
      BY <2>1, <3>2, <3>3 DEF Samples, DeviceSample
    <3>6. after \in Lasting(c)
      BY <3>4, <3>5 DEF Lasting
    <3> QED
      BY <3>6 DEF after
  <2>3. CASE kind # "scripted"
    <3>1. after \in {now, s}
      BY <1>2, <2>3 DEF AfterTick
    <3> HIDE DEF now, after
    <3>2. after \in Lasting(c)
      BY <2>1, <2>3, <3>1 DEF Lasting
    <3> QED
      BY <3>2 DEF after
  <2> QED
    BY <2>2, <2>3
<1> QED
  BY <1>1, <1>2

\* The best of a run is made tick after tick.
LEMMA LocalBestSteps ==
    ASSUME RunOK, NEW c \in Cands, NEW slot \in Nat
    PROVE  /\ LocalBest(c, slot)[0] = NoSample
           /\ \A t \in 1..Ticks :
                LocalBest(c, slot)[t] = AfterTick(c, slot, t, LocalBest(c, slot)[t - 1])
<1> DEFINE X == Lasting(c)
           Eq(h) == h = [t \in 0..Ticks |->
                           IF t = 0 THEN NoSample ELSE AfterTick(c, slot, t, h[t - 1])]
           local == CHOOSE h : Eq(h)
<1>1. Ticks \in Nat
  BY ConstantFacts
<1>2. NoSample \in X
  BY NoSampleIsSample DEF Lasting, NoSample
<1>3. \E h : Eq(h)
  <2> DEFINE step == [t \in 1..Ticks |-> [s \in X |-> AfterTick(c, slot, t, s)]]
             base == NoSample
  <2>1. step \in [1..Ticks -> [X -> X]]
    BY AfterTickLasts
  <2>2. base \in X
    BY <1>2
  <2> HIDE DEF step, X, base
  <2>3. PICK f \in [0..Ticks -> X] : f[0] = base /\ \A t \in 1..Ticks : f[t] = step[t][f[t - 1]]
    BY <1>1, <2>1, <2>2, StepByStep
  <2>4. ASSUME NEW t \in 0..Ticks
        PROVE  f[t] = IF t = 0 THEN NoSample ELSE AfterTick(c, slot, t, f[t - 1])
    <3>1. CASE t = 0
      BY <2>3, <3>1 DEF base
    <3>2. CASE t # 0
      <4>1. t \in 1..Ticks /\ t - 1 \in 0..Ticks
        BY <1>1, <3>2
      <4>2. f[t - 1] \in X
        BY <4>1
      <4> QED
        BY <2>3, <3>2, <4>1, <4>2 DEF step
    <3> QED
      BY <3>1, <3>2
  <2>5. f = [t \in 0..Ticks |-> f[t]]
    OBVIOUS
  <2>6. Eq(f)
    BY <2>4, <2>5
  <2> HIDE DEF Eq
  <2> QED
    BY <2>6
<1>4. Eq(local)
  <2> HIDE DEF Eq
  <2> QED
    BY <1>3, Zenon
<1>5. LocalBest(c, slot) = local
  BY DEF LocalBest
<1> HIDE DEF local
<1>6. ASSUME NEW t \in 0..Ticks
      PROVE  local[t] = IF t = 0 THEN NoSample ELSE AfterTick(c, slot, t, local[t - 1])
  BY <1>4
<1>7. 0 \in 0..Ticks /\ \A t \in 1..Ticks : t \in 0..Ticks /\ t # 0
  BY <1>1
<1> QED
  BY <1>5, <1>6, <1>7

\* What the first ticks of a candidate have given, in any slot.
LEMMA LocalBestFacts ==
    ASSUME RunOK, NEW c \in Cands, NEW slot \in Nat
    PROVE  \A t \in 0..Ticks : /\ IsBestAfter(LocalBest(c, slot)[t], c, slot, t)
                               /\ Twins(LocalBest(c, slot)[t], LocalBest(c, 0)[t])
<1> DEFINE local == LocalBest(c, slot)
           first == LocalBest(c, 0)
           Right(t) == /\ IsBestAfter(local[t], c, slot, t)
                       /\ IsBestAfter(first[t], c, 0, t)
                       /\ Twins(local[t], first[t])
           wrong == {t \in 0..Ticks : ~Right(t)}
<1>1. SUFFICES ASSUME wrong # {} PROVE FALSE
  OBVIOUS
<1>2. PICK t \in wrong : \A u \in wrong : t <= u
  <2>1. wrong \in SUBSET Nat
    OBVIOUS
  <2> HIDE DEF wrong
  <2> QED
    BY <1>1, <2>1, Least
<1>3. t \in 0..Ticks /\ ~Right(t) /\ Ticks \in Nat
  BY ConstantFacts
<1>4. Right(0)
  <2>1. local[0] = NoSample /\ first[0] = NoSample
    BY LocalBestSteps
  <2> HIDE DEF local, first
  <2> QED
    BY <2>1, NothingBefore DEF Twins
<1>5. t \in 1..Ticks /\ t - 1 \in 0..Ticks /\ t - 1 < t
  <2> HIDE DEF Right
  <2> QED
    BY <1>3, <1>4
<1>6. Right(t - 1)
  <2>1. t - 1 \notin wrong
    <3> HIDE DEF wrong
    <3> QED
      BY <1>2, <1>5
  <2> HIDE DEF Right
  <2> QED
    BY <1>5, <2>1
<1>7. /\ local[t] = AfterTick(c, slot, t, local[t - 1])
      /\ first[t] = AfterTick(c, 0, t, first[t - 1])
  BY <1>5, LocalBestSteps
<1> HIDE DEF local, first
<1>8. Right(t)
  BY <1>5, <1>6, <1>7, AfterTickFacts, AfterTickTwins
<1> QED
  BY <1>3, <1>8

-----------------------------------------------------------------------------
(* Where a run ends, and what its slot leaves.                             *)

\* The least of a set of numbers.
LEMMA MinFacts ==
    ASSUME NEW S \in SUBSET Nat, S # {}
    PROVE  Min(S) \in S /\ \A x \in S : Min(S) <= x
<1>1. \E x \in S : \A y \in S : x =< y
  BY Least
<1> QED
  BY <1>1 DEF Min

\* The last tick is the least of those that end the run.
LEMMA LastTickFacts ==
    ASSUME RunOK, NEW c \in Cands, NEW inc
    PROVE  /\ LastTick(c, inc) \in 1..Ticks
           /\ run[c].generated = "Mutated" =>
                LET ends == Reported(c) \cup Pruned(c, inc) \cup Refused(c) \cup {Ticks}
                IN LastTick(c, inc) \in ends /\ \A t \in ends : LastTick(c, inc) <= t
<1> DEFINE ends == Reported(c) \cup Pruned(c, inc) \cup Refused(c) \cup {Ticks}
<1>1. Ticks \in Nat \ {0}
  BY ConstantFacts
<1>2. ends \in SUBSET (1..Ticks) /\ ends # {}
  BY <1>1 DEF Reported, Pruned, Refused
<1>3. 1..Ticks \in SUBSET Nat /\ 1 \in 1..Ticks
  BY <1>1
<1> HIDE DEF ends
<1>4. Min(ends) \in ends /\ \A t \in ends : Min(ends) <= t
  BY <1>2, <1>3, MinFacts
<1>5. LastTick(c, inc) = IF run[c].generated # "Mutated" THEN 1 ELSE Min(ends)
  BY DEF LastTick, ends
<1>6. LastTick(c, inc) \in 1..Ticks
  BY <1>2, <1>3, <1>4, <1>5
<1>7. run[c].generated = "Mutated" =>
        LastTick(c, inc) \in ends /\ \A t \in ends : LastTick(c, inc) <= t
  BY <1>4, <1>5
<1> QED
  BY <1>6, <1>7 DEF ends

\* A run that is neither pruned nor refused ends where it ends alone.
LEMMA EndsAsAlone ==
    ASSUME RunOK, NEW c \in Cands, NEW inc, run[c].generated = "Mutated",
           LastTick(c, inc) \notin Pruned(c, inc)
    PROVE  LastTick(c, NoSample) = LastTick(c, inc)
<1> DEFINE m == LastTick(c, inc)
           n == LastTick(c, NoSample)
<1>1. /\ m \in 1..Ticks /\ m \in Reported(c) \cup Pruned(c, inc) \cup Refused(c) \cup {Ticks}
      /\ \A t \in Reported(c) \cup Pruned(c, inc) \cup Refused(c) \cup {Ticks} : m <= t
  BY LastTickFacts
<1>2. /\ n \in 1..Ticks /\ n \in Reported(c) \cup Pruned(c, NoSample) \cup Refused(c) \cup {Ticks}
      /\ \A t \in Reported(c) \cup Pruned(c, NoSample) \cup Refused(c) \cup {Ticks} : n <= t
  BY LastTickFacts
<1>3. Pruned(c, NoSample) = {}
  BY DEF Pruned, NoSample
<1> HIDE DEF m, n
<1>4. m <= n /\ n <= m
  BY <1>1, <1>2, <1>3 DEF m
<1>5. m = n
  BY <1>1, <1>2, <1>4
<1> QED
  BY <1>5 DEF m, n

\* A finish is the first tick that reports one.
LEMMA FinishIsFirst ==
    ASSUME RunOK, NEW c \in Cands, kind = "finish"
    PROVE  /\ \A slot \in Nat, t \in 0..Ticks : \A s :
                IsBestAfter(s, c, slot, t) /\ s.valid =>
                    Reported(c) # {} /\ s.tick + 1 = Min(Reported(c))
           /\ Reported(c) # {} =>
                /\ Min(Reported(c)) \in Reported(c)
                /\ \A t \in Reported(c) : Min(Reported(c)) <= t
                /\ FineTime(c) \in Int
                /\ Min(Reported(c)) * NsPerTick <= FineTime(c)
<1>1. Reported(c) = {t \in 1..Ticks : run[c].values[t] # None} /\ Ticks \in Nat
  BY ConstantFacts DEF Reported
<1>2. Reported(c) \in SUBSET Nat
  BY <1>1
<1>3. ASSUME Reported(c) # {}
      PROVE  /\ Min(Reported(c)) \in Reported(c)
             /\ \A t \in Reported(c) : Min(Reported(c)) <= t
             /\ FineTime(c) \in Int
             /\ Min(Reported(c)) * NsPerTick <= FineTime(c)
  <2> DEFINE m == Min(Reported(c))
             v == run[c].values[m][1]
             ns == m * NsPerTick
  <2>1. m \in Reported(c) /\ \A t \in Reported(c) : m <= t
    BY <1>2, <1>3, MinFacts
  <2>2. m \in 1..Ticks /\ run[c].values[m] # None
    BY <1>1, <2>1
  <2>3. v \in Int /\ v >= 0
    BY <2>2, RunFacts
  <2>4. m \in Nat
    BY <1>1, <2>2
  <2>5. ns \in Nat
    BY <2>4, ConstantFacts
  <2>6. FineTime(c) = ns + v
    BY DEF FineTime
  <2> HIDE DEF ns, v
  <2>7. FineTime(c) \in Int /\ ns <= FineTime(c)
    BY <2>3, <2>5, <2>6
  <2> QED
    BY <2>1, <2>7 DEF ns
<1>4. ASSUME NEW slot \in Nat, NEW t \in 0..Ticks, NEW s, IsBestAfter(s, c, slot, t), s.valid
      PROVE  Reported(c) # {} /\ s.tick + 1 = Min(Reported(c))
  <2>1. /\ s.tick \in Nat /\ s.tick + 1 \in 1..Ticks /\ run[c].values[s.tick + 1] # None
        /\ \A u \in 1..s.tick : run[c].values[u] = None
    BY <1>1, <1>4 DEF IsBestAfter, SaysOf
  <2>2. s.tick + 1 \in Reported(c)
    BY <1>1, <2>1
  <2>3. Min(Reported(c)) \in Reported(c) /\ Min(Reported(c)) <= s.tick + 1
    BY <1>3, <2>2
  <2>4. Min(Reported(c)) \in 1..Ticks /\ run[c].values[Min(Reported(c))] # None
    BY <1>1, <2>3
  <2>5. ~(Min(Reported(c)) <= s.tick)
    BY <2>1, <2>4
  <2> QED
    BY <2>1, <2>2, <2>3, <2>4, <2>5
<1> QED
  BY <1>3, <1>4

\* A candidate alone: as its run leaves it, and a finish refined.
LEMMA AloneFacts ==
    ASSUME RunOK, NEW c \in Cands
    PROVE  LET last == LastTick(c, NoSample)
               whole == LocalBest(c, 0)[last]
           IN /\ last \in 0..Ticks /\ IsBestAfter(whole, c, 0, last)
              /\ kind # "finish" => Alone(c) = whole
              /\ kind = "finish" => Alone(c) = IF whole.valid THEN Refined(whole) ELSE whole
<1>1. LastTick(c, NoSample) \in 0..Ticks
  BY LastTickFacts, ConstantFacts
<1>2. 0 \in Nat
  OBVIOUS
<1>3. IsBestAfter(LocalBest(c, 0)[LastTick(c, NoSample)], c, 0, LastTick(c, NoSample))
  BY <1>1, <1>2, LocalBestFacts
<1> QED
  BY <1>1, <1>3 DEF Alone

\* The best of a run, where it ends, is a sample of its candidate.
LEMMA BestIsOf ==
    ASSUME RunOK, NEW c \in Cands, NEW slot \in Nat, NEW t \in 0..Ticks, NEW s,
           IsBestAfter(s, c, slot, t)
    PROVE  IsOf(s, c) /\ InSlot(s, slot)
<1>1. s.valid => s.tick \in 0..(Ticks - 1)
  BY ConstantFacts DEF IsBestAfter
<1>2. s.valid => s.score = Found(s)
  <2> SUFFICES ASSUME s.valid PROVE s.score = Found(s)
    OBVIOUS
  <2>1. CASE kind = "finish"
    BY <2>1 DEF IsBestAfter, SaysOf, Found
  <2>2. CASE kind = "scripted"
    BY <2>2 DEF IsBestAfter, SaysOf, Found
  <2>3. CASE kind \notin {"scripted", "finish"}
    BY <2>3 DEF IsBestAfter, SaysOf, Found
  <2> QED
    BY <2>1, <2>2, <2>3
<1> QED
  BY <1>1, <1>2 DEF IsOf, InSlot, IsBestAfter, SaysOf

\* What refining changes of a sample.
LEMMA RefinedFacts ==
    ASSUME RunOK, NEW c \in Cands, kind = "finish", NEW s, IsOf(s, c), s.valid,
           NEW slot, InSlot(s, slot), Reported(c) # {}
    PROVE  /\ IsOf(Refined(s), c) /\ InSlot(Refined(s), slot)
           /\ Refined(s).valid /\ Refined(s).precise
           /\ Refined(s).score = FineTime(c)
<1>1. FineTime(c) \in Int /\ s.of = c
  BY FinishIsFirst DEF IsOf
<1> DEFINE x == FineTime(c)
<1>2. Refined(s) = [s EXCEPT !.score = x, !.time = x, !.precise = TRUE]
  BY <1>1 DEF Refined
<1>3. s \in DeviceSample(Cands, Int, Nat, Nat)
  BY DEF IsOf, Samples
<1> HIDE DEF x
<1>4. /\ Refined(s).valid = s.valid /\ Refined(s).of = s.of /\ Refined(s).score = x
      /\ Refined(s).objectives = s.objectives /\ Refined(s).time = x
      /\ Refined(s).slot = s.slot /\ Refined(s).order = s.order
      /\ Refined(s).tick = s.tick /\ Refined(s).events = s.events /\ Refined(s).precise = TRUE
  BY <1>2, <1>3 DEF DeviceSample
<1>5. Refined(s) \in Samples
  BY <1>1, <1>2, <1>3 DEF Samples, DeviceSample, x
<1>6. Found(Refined(s)) = x
  BY <1>1, <1>4 DEF Found, FineTimes, x
<1> QED
  BY <1>1, <1>4, <1>5, <1>6 DEF IsOf, InSlot, x

\* No sample is one of any candidate.
LEMMA NothingIsOf ==
    ASSUME NEW c, NEW slot
    PROVE  IsOf(NoSample, c) /\ InSlot(NoSample, slot) /\ Coarse(NoSample, c)
  BY NoSampleIsSample DEF IsOf, InSlot, Coarse, NoSample

\* A finish after the last tick of a pruned run is no better than the
\* incumbent that pruned it.
LEMMA PrunedIsBeaten ==
    ASSUME RunOK, NEW c \in Cands, NEW inc, kind = "finish",
           run[c].generated = "Mutated", LastTick(c, inc) \in Pruned(c, inc),
           inc.time \in Int, Alone(c).valid
    PROVE  inc.precise /\ inc.time <= Alone(c).score
<1> DEFINE last == LastTick(c, inc)
           alone == LastTick(c, NoSample)
           whole == LocalBest(c, 0)[alone]
           m == Min(Reported(c))
<1>1. /\ last \in 1..Ticks /\ inc.precise
      /\ run[c].values[last] = None /\ last * NsPerTick >= inc.time
  BY DEF Pruned
<1>2. \A t \in Reported(c) : last <= t
  BY LastTickFacts
<1>3. IsBestAfter(whole, c, 0, alone) /\ whole.valid /\ alone \in 0..Ticks
      /\ Alone(c) = Refined(whole)
  BY AloneFacts
<1>4. Reported(c) # {} /\ Alone(c).score = FineTime(c)
  <2>1. Reported(c) # {} /\ 0 \in Nat
    BY <1>3, FinishIsFirst
  <2>2. IsOf(whole, c) /\ InSlot(whole, 0)
    BY <1>3, <2>1, BestIsOf
  <2> HIDE DEF whole, alone
  <2> QED
    BY <1>3, <2>1, <2>2, RefinedFacts
<1>5. /\ m \in Reported(c) /\ FineTime(c) \in Int /\ m * NsPerTick <= FineTime(c)
  BY <1>4, FinishIsFirst
<1>6. m \in 1..Ticks /\ run[c].values[m] # None /\ last <= m
  BY <1>2, <1>5 DEF Reported
<1>7. last \in Nat /\ m \in Nat /\ last <= m
  BY <1>1, <1>6, ConstantFacts
<1>8. last * NsPerTick <= m * NsPerTick /\ last * NsPerTick \in Int
      /\ m * NsPerTick \in Int
  BY <1>7, ConstantFacts
<1> HIDE DEF last, m
<1> QED
  BY <1>1, <1>4, <1>5, <1>8

\* A slot that is not cut off leaves what the candidate alone does.
LEMMA WholeAgrees ==
    ASSUME RunOK, NEW c \in Cands, NEW slot \in Nat, NEW inc, run[c].generated = "Mutated",
           LastTick(c, inc) \notin Pruned(c, inc)
    PROVE  Agrees(LocalBest(c, slot)[LastTick(c, inc)], c)
<1> DEFINE last == LastTick(c, inc)
           s == LocalBest(c, slot)[last]
           whole == LocalBest(c, 0)[last]
<1>1. last = LastTick(c, NoSample) /\ last \in 0..Ticks
  BY EndsAsAlone, LastTickFacts, ConstantFacts
<1>2. Twins(s, whole)
  BY <1>1, LocalBestFacts
<1>3. /\ kind # "finish" => Alone(c) = whole
      /\ kind = "finish" => Alone(c) = IF whole.valid THEN Refined(whole) ELSE whole
      /\ IsBestAfter(whole, c, 0, last)
  <2>1. /\ whole = LocalBest(c, 0)[LastTick(c, NoSample)]
        /\ last = LastTick(c, NoSample)
    BY <1>1
  <2> DEFINE n == LastTick(c, NoSample)
             w == LocalBest(c, 0)[n]
  <2>2. /\ kind # "finish" => Alone(c) = w
        /\ kind = "finish" => Alone(c) = IF w.valid THEN Refined(w) ELSE w
        /\ IsBestAfter(w, c, 0, n)
    BY AloneFacts
  <2>3. whole = w /\ last = n
    BY <2>1
  <2> HIDE DEF whole, last, w, n
  <2> QED
    BY <2>2, <2>3
<1>4. kind = "finish" => (Alone(c).valid <=> whole.valid)
  <2> SUFFICES ASSUME kind = "finish", whole.valid PROVE Alone(c).valid
    BY <1>3
  <2>1. whole \in DeviceSample(Cands, Int, Nat, Nat)
    BY <1>3 DEF IsBestAfter, Samples
  <2> HIDE DEF whole
  <2> QED
    BY <1>3, <2>1 DEF Refined, DeviceSample
<1> HIDE DEF s, whole
<1>5. Agrees(s, c)
  BY <1>2, <1>3, <1>4 DEF Agrees, Twins, Wholes
<1> QED
  BY <1>5 DEF s

\* What a slot of the simulation leaves, wherever it is cut off.
LEMMA OutcomeFacts ==
    ASSUME RunOK, NEW c \in Cands, NEW slot \in Nat, NEW inc, NEW cut \in Nat,
           inc.precise = best.precise, inc.time = best.time, IsOf(best, bestInputs)
    PROVE  LET left == Outcome(c, slot, cut, inc) IN
           /\ IsOf(left.sample, c) /\ InSlot(left.sample, slot) /\ Coarse(left.sample, c)
           /\ left.status = "Success" => Agrees(left.sample, c)
<1> DEFINE last == LastTick(c, inc)
           local == LocalBest(c, slot)
           left == Outcome(c, slot, cut, inc)
<1>1. last \in 1..Ticks /\ last - 1 \in 0..Ticks /\ last \in 0..Ticks /\ Ticks \in Nat
  BY LastTickFacts, ConstantFacts
<1>2. ASSUME NEW t \in 0..Ticks
      PROVE  IsOf(local[t], c) /\ InSlot(local[t], slot) /\ Coarse(local[t], c)
  <2>1. IsBestAfter(local[t], c, slot, t)
    BY LocalBestFacts
  <2> HIDE DEF local
  <2>2. Coarse(local[t], c)
    BY <2>1, FinishIsFirst DEF IsBestAfter, SaysOf, Coarse, Reports
  <2> QED
    BY <2>1, <2>2, BestIsOf
<1>3. ASSUME NEW x, x = [status |-> "Cancelled", sample |-> local[cut]], cut < last
      PROVE  /\ IsOf(x.sample, c) /\ InSlot(x.sample, slot) /\ Coarse(x.sample, c)
             /\ x.status # "Success"
  <2>1. cut \in 0..Ticks
    BY <1>1, <1>3
  <2> HIDE DEF local
  <2> QED
    BY <1>2, <1>3, <2>1
<1>4. CASE cut < last
  <2>1. left = [status |-> "Cancelled", sample |-> local[cut]]
    BY <1>1, <1>4 DEF Outcome
  <2> HIDE DEF left
  <2> QED
    BY <1>3, <1>4, <2>1 DEF left
<1>5. ASSUME cut >= last, run[c].generated # "Mutated"
      PROVE  /\ left.sample = NoSample
             /\ left.status = "Success" => Agrees(left.sample, c)
  <2>1. run[c].generated \in {"Unchanged", "Overflow"}
    BY <1>5, SearchAssumption DEF RunOK, Run
  <2>2. left.sample = NoSample
    BY <1>1, <1>5, <2>1 DEF Outcome
  <2>3. Agrees(NoSample, c)
    BY <1>5 DEF Agrees, NoSample
  <2> QED
    BY <2>2, <2>3
<1>6. CASE cut >= last /\ run[c].generated # "Mutated"
  BY <1>5, <1>6, NothingIsOf
<1>7. CASE cut >= last /\ run[c].generated = "Mutated"
  <2>1. CASE last \in Refused(c)
    <3>1. left = [status |-> "UnsupportedPhysicsTransition", sample |-> local[last - 1]]
      BY <1>1, <1>7, <2>1 DEF Outcome
    <3> HIDE DEF left, local, last
    <3> QED
      BY <1>1, <1>2, <3>1 DEF left
  <2>2. CASE last \notin Refused(c) /\ last \in Pruned(c, inc)
    <3>1. left = [status |-> "Success", sample |-> NoSample]
      BY <1>1, <1>7, <2>2 DEF Outcome
    <3>2. Agrees(NoSample, c)
      <4>1. kind = "finish"
        BY <2>2 DEF Pruned
      <4>2. inc.time \in Int /\ (inc.precise => best.precise /\ inc.time = best.score)
        <5>1. /\ best \in DeviceSample(Cands, Int, Nat, Nat)
              /\ best.precise => best.time = best.score
          BY DEF IsOf, Samples
        <5>2. best.time \in Int
          BY <5>1 DEF DeviceSample
        <5> QED
          BY <5>1, <5>2
      <4>3. Alone(c).valid => best.precise /\ best.score <= Alone(c).score
        <5>1. Alone(c).valid => inc.precise /\ inc.time <= Alone(c).score
          BY <1>7, <2>2, <4>1, <4>2, PrunedIsBeaten
        <5> QED
          BY <4>2, <5>1
      <4> QED
        BY <1>7, <4>1, <4>3 DEF Agrees, NoSample, Wholes
    <3> HIDE DEF left
    <3> QED
      BY <3>1, <3>2, NothingIsOf DEF left
  <2>3. CASE last \notin Refused(c) /\ last \notin Pruned(c, inc)
    <3>1. left = [status |-> "Success", sample |-> local[last]]
      BY <1>1, <1>7, <2>3 DEF Outcome
    <3>2. Agrees(local[last], c)
      BY <1>7, <2>3, WholeAgrees
    <3> HIDE DEF left, local, last
    <3> QED
      BY <1>1, <1>2, <3>1, <3>2 DEF left
  <2> QED
    BY <2>1, <2>2, <2>3
<1> QED
  BY <1>1, <1>4, <1>6, <1>7

-----------------------------------------------------------------------------
(* The reduction, the count of the improvements and the walk of the ideal  *)
(* search.                                                                 *)

Improvement == {p \in Samples \X Samples : Improves(p[1], p[2])}
IdealImprovement == {p \in Samples \X Samples : IdeallyImproves(p[1], p[2])}
\* What the reduction prefers although it comes later.
Preference == {p \in Samples \X Samples : ~PreferredToLater(p[2], p[1], Maximize)}

LEMMA ImprovementOrders == IsOrder(Improvement, Samples)
<1>1. ASSUME NEW x \in Samples PROVE ~Improves(x, x)
  BY ImprovementIsAnOrder, DominanceIsAnOrder DEF Improves, Maximize
<1>2. ASSUME NEW x \in Samples, NEW y \in Samples, NEW z \in Samples,
             Improves(x, y), Improves(y, z)
      PROVE  Improves(x, z)
  <2>1. CASE kind = "scripted"
    BY <1>2, <2>1, DominanceIsAnOrder DEF Improves
  <2>2. CASE kind # "scripted"
    <3>1. Maximize \in BOOLEAN
      BY DEF Maximize
    <3>2. StrictlyBetter(x, y, Maximize) /\ StrictlyBetter(y, z, Maximize)
      BY <1>2, <2>2 DEF Improves
    <3>3. StrictlyBetter(x, z, Maximize)
      BY <3>1, <3>2, ImprovementIsAnOrder
    <3> QED
      BY <2>2, <3>3 DEF Improves
  <2> QED
    BY <2>1, <2>2
<1> QED
  BY <1>1, <1>2 DEF IsOrder, Improvement

LEMMA IdealImprovementOrders == IsOrder(IdealImprovement, Samples)
<1>1. CASE kind = "finish"
  <2>1. ASSUME NEW x \in Samples PROVE ~IdeallyImproves(x, x)
    BY <1>1, Numbers DEF IdeallyImproves
  <2>2. ASSUME NEW x \in Samples, NEW y \in Samples, NEW z \in Samples,
               IdeallyImproves(x, y), IdeallyImproves(y, z)
        PROVE  IdeallyImproves(x, z)
    BY <1>1, <2>2, Numbers DEF IdeallyImproves
  <2> QED
    BY <2>1, <2>2 DEF IsOrder, IdealImprovement
<1>2. CASE kind # "finish"
  <2>1. \A x, y : IdeallyImproves(x, y) <=> Improves(x, y)
    BY <1>2 DEF IdeallyImproves
  <2>2. IdealImprovement = Improvement
    BY <2>1 DEF IdealImprovement, Improvement
  <2> QED
    BY <2>2, ImprovementOrders
<1> QED
  BY <1>1, <1>2

LEMMA PreferenceOrders == IsOrder(Preference, Samples)
<1>1. ASSUME NEW x \in Samples PROVE PreferredToLater(x, x, Maximize)
  BY Numbers DEF PreferredToLater
<1>2. ASSUME NEW x \in Samples, NEW y \in Samples, NEW z \in Samples,
             ~PreferredToLater(y, x, Maximize), ~PreferredToLater(z, y, Maximize)
      PROVE  ~PreferredToLater(z, x, Maximize)
  <2>1. Maximize \in BOOLEAN
    BY DEF Maximize
  <2> QED
    BY <1>2, <2>1, Numbers DEF PreferredToLater, StrictlyBetter, Higher
<1> QED
  BY <1>1, <1>2 DEF IsOrder, Preference

\* The samples of a batch, in the order of the slots after the incumbent.
SamplesOK ==
    /\ Len(batch) \in Nat
    /\ samples = [i \in 0..Len(batch) |-> samples[i]]
    /\ \A i \in 0..Len(batch) :
        samples[i] \in Samples /\ (samples[i].valid => samples[i].tick \in 0..(Ticks - 1))
    /\ samples[0].order = 0 /\ samples[0].slot = NoSlot
    /\ \A i \in 1..Len(batch) : InSlot(samples[i], i - 1)

\* The walk of the slots can be made.
LEMMA WalkExists ==
    ASSUME SamplesOK
    PROVE  \E h : Walks(h)
<1> DEFINE n == Len(batch)
           step == [i \in 1..n |->
                      [x \in Samples |-> IF Improves(samples[i], x) THEN samples[i] ELSE x]]
           base == samples[0]
           X == Samples
<1>1. n \in Nat /\ base \in X /\ step \in [1..n -> [X -> X]]
  BY DEF SamplesOK
<1> HIDE DEF n, step, base, X
<1>2. PICK h \in [0..n -> X] : h[0] = base /\ \A i \in 1..n : h[i] = step[i][h[i - 1]]
  BY <1>1, StepByStep
<1>3. ASSUME NEW i \in 1..n
      PROVE  h[i] = IF Improves(samples[i], h[i - 1]) THEN samples[i] ELSE h[i - 1]
  <2>1. i - 1 \in 0..n
    BY <1>1
  <2>2. h[i - 1] \in X
    BY <2>1
  <2> QED
    BY <1>2, <2>2 DEF step, X
<1> QED
  BY <1>2, <1>3 DEF Walks, n, base, X

\* What is best in the end, and on the way.
LEMMA WalkFacts ==
    ASSUME SamplesOK, NEW h, Walks(h)
    PROVE  \A m \in 0..Len(batch) :
              /\ h[m] \in Samples
              /\ \/ h[m] = samples[0]
                 \/ \E i \in 1..Len(batch) :
                        /\ i <= m /\ h[m] = samples[i] /\ Improves(samples[i], h[i - 1])
                        /\ Improves(samples[i], samples[0])
              /\ \A i \in 1..Len(batch) : i <= m => ~Improves(samples[i], h[m])
<1> DEFINE n == Len(batch)
           item == [i \in 1..n |-> samples[i]]
           use == 1..n
           R == Improvement
           X == Samples
<1>1. n \in Nat /\ h \in [0..n -> X] /\ item \in [1..n -> X]
  BY DEF SamplesOK, Walks
<1>2. ASSUME NEW x \in X, NEW y \in X
      PROVE  <<x, y>> \in R <=> Improves(x, y)
  BY DEF Improvement
<1>3. \A i \in 1..n : h[i] \in X /\ h[i - 1] \in X /\ item[i] \in X /\ item[i] = samples[i]
  <2>1. \A i \in 1..n : i \in 0..n /\ i - 1 \in 0..n
    BY <1>1
  <2> QED
    BY <1>1, <2>1
<1>4. \A i \in 1..n : h[i] = IF i \in use /\ <<item[i], h[i - 1]>> \in R
                             THEN item[i] ELSE h[i - 1]
  <2> HIDE DEF item, R, X
  <2> QED
    BY <1>2, <1>3 DEF Walks
<1>5. IsOrder(R, X) /\ use \in SUBSET (1..n)
  BY ImprovementOrders
<1>6. h[0] = samples[0] /\ h[0] \in X
  BY <1>1 DEF Walks
<1> HIDE DEF n, item, R, X, use
<1>7. \A m \in 0..n :
              /\ \/ h[m] = h[0]
                 \/ \E i \in use : /\ i <= m /\ h[m] = item[i]
                                   /\ <<item[i], h[i - 1]>> \in R /\ <<item[i], h[0]>> \in R
              /\ \A i \in use : i <= m => <<item[i], h[m]>> \notin R
  <2>1. Keeps(X, R, n, h, item, use)
    BY <1>1, <1>4, <1>5 DEF Keeps
  <2> QED
    BY <2>1, KeptBest
<1>8. ASSUME NEW m \in 0..n
      PROVE  /\ h[m] \in X
             /\ \/ h[m] = samples[0]
                \/ \E i \in 1..n :
                        /\ i <= m /\ h[m] = samples[i] /\ Improves(samples[i], h[i - 1])
                        /\ Improves(samples[i], samples[0])
             /\ \A i \in 1..n : i <= m => ~Improves(samples[i], h[m])
  <2>1. h[m] \in X
    BY <1>1
  <2>2. \A i \in 1..n : i <= m => ~Improves(samples[i], h[m])
    BY <1>2, <1>3, <1>7, <2>1 DEF use
  <2>3. CASE h[m] = h[0]
    BY <1>6, <2>1, <2>2, <2>3
  <2>4. ASSUME NEW i \in use, i <= m, h[m] = item[i], <<item[i], h[i - 1]>> \in R,
               <<item[i], h[0]>> \in R
        PROVE  /\ i \in 1..n /\ h[m] = samples[i] /\ Improves(samples[i], h[i - 1])
               /\ Improves(samples[i], samples[0])
    BY <1>2, <1>3, <1>6, <2>4 DEF use
  <2> QED
    BY <1>7, <2>1, <2>2, <2>3, <2>4
<1> QED
  BY <1>8 DEF n, X


-----------------------------------------------------------------------------
(* What is fixed with the runs.                                            *)

LocalBestIsMade ==
    RunOK => \A c \in Cands, slot \in Nat :
        /\ LocalBest(c, slot)[0] = NoSample
        /\ \A t \in 1..Ticks :
             LocalBest(c, slot)[t] = AfterTick(c, slot, t, LocalBest(c, slot)[t - 1])

LEMMA NowMade == LocalBestIsMade
  BY LocalBestSteps DEF LocalBestIsMade

LEMMA LaterMade == LocalBestIsMade'
  BY NowMade, PTL

\* What a run makes of its candidate does not change in a session.
LEMMA LocalBestStays ==
    ASSUME RunOK, UNCHANGED session, NEW c \in Cands, NEW slot \in Nat
    PROVE  \A t \in 0..Ticks : (LocalBest(c, slot)[t])' = LocalBest(c, slot)[t]
<1> DEFINE now == LocalBest(c, slot)
           wrong == {t \in 0..Ticks : now'[t] # now[t]}
<1>1. SUFFICES wrong = {}
  OBVIOUS
<1>2. SUFFICES ASSUME wrong # {} PROVE FALSE
  OBVIOUS
<1>3. PICK t \in wrong : \A u \in wrong : t <= u
  <2>1. wrong \in SUBSET Nat
    OBVIOUS
  <2> HIDE DEF wrong
  <2> QED
    BY <1>2, <2>1, Least
<1>4. t \in 0..Ticks /\ now'[t] # now[t] /\ Ticks \in Nat
  BY ConstantFacts
<1>5. RunOK'
  BY DEF RunOK, session
<1>6. /\ now[0] = NoSample /\ now'[0] = NoSample
      /\ \A u \in 1..Ticks : /\ now[u] = AfterTick(c, slot, u, now[u - 1])
                             /\ now'[u] = AfterTick(c, slot, u, now[u - 1])'
  <2>1. now'[0] = NoSample /\ \A u \in 1..Ticks : now'[u] = AfterTick(c, slot, u, now[u - 1])'
    BY LaterMade, <1>5 DEF LocalBestIsMade
  <2> QED
    BY <2>1, LocalBestSteps
<1>7. t \in 1..Ticks /\ t - 1 \in 0..Ticks /\ t - 1 < t
  BY <1>4, <1>6
<1>8. now'[t - 1] = now[t - 1]
  <2>1. t - 1 \notin wrong
    <3> HIDE DEF wrong
    <3> QED
      BY <1>3, <1>7
  <2> QED
    BY <1>7, <2>1
<1>9. AfterTick(c, slot, t, now[t - 1])' = AfterTick(c, slot, t, now[t - 1])
  <2> DEFINE s == now[t - 1]
           value == run[c].values[t]
             scored == Scored(c, slot, t)
             kept == [i \in DOMAIN value |->
                        IF s.valid /\ s.objectives[i] > value[i]
                        THEN s.objectives[i] ELSE value[i]]
  <2>1. s' = s /\ kind' = kind /\ run' = run
    BY <1>8 DEF session
  <2>2. value' = value /\ Maximize' = Maximize
    BY <2>1 DEF Maximize
  <2>3. scored' = scored
    BY <2>1 DEF Scored, NoSample
  <2> HIDE DEF s
  <2>4. kept' = kept
    BY <2>1, <2>2
  <2>5. AfterTick(c, slot, t, s) =
          IF value = None THEN s
          ELSE IF kind = "scripted"
               THEN [scored EXCEPT !.objectives = kept, !.score = kept[1]]
          ELSE IF StrictlyBetter(scored, s, Maximize) THEN scored ELSE s
    BY DEF AfterTick
  <2>6. AfterTick(c, slot, t, s)' =
          IF value' = None THEN s'
          ELSE IF kind' = "scripted"
               THEN [scored' EXCEPT !.objectives = kept', !.score = kept'[1]]
          ELSE IF StrictlyBetter(scored', s', Maximize') THEN scored' ELSE s'
    BY DEF AfterTick
  <2> HIDE DEF value, scored, kept
  <2>7. AfterTick(c, slot, t, s)' = AfterTick(c, slot, t, s)
    BY <2>1, <2>2, <2>3, <2>4, <2>5, <2>6
  <2> QED
    BY <2>7 DEF s
<1> QED
  BY <1>4, <1>6, <1>7, <1>9

\* A session keeps its runs and all that follows from them.
LEMMA RunsStay ==
    ASSUME RunOK, UNCHANGED session
    PROVE  /\ kind' = kind /\ run' = run /\ RunOK'
           /\ Wholes' = Wholes /\ FineTimes' = FineTimes /\ Reports' = Reports
           /\ Seed' = Seed
<1>1. kind' = kind /\ run' = run /\ RunOK'
  BY DEF session, RunOK
<1>2. ASSUME NEW c PROVE Reported(c)' = Reported(c)
  BY <1>1 DEF Reported
<1>3. ASSUME NEW c PROVE FineTime(c)' = FineTime(c)
  BY <1>1, <1>2 DEF FineTime
<1>4. ASSUME NEW c \in Cands PROVE Alone(c)' = Alone(c)
  <2> DEFINE last == LastTick(c, NoSample)
             whole == LocalBest(c, 0)[last]
  <2>1. last' = last
    <3>1. Pruned(c, NoSample)' = {} /\ Pruned(c, NoSample) = {}
      BY DEF Pruned, NoSample
    <3>2. Refused(c)' = Refused(c)
      BY <1>1 DEF Refused
    <3> QED
      BY <1>1, <1>2, <3>1, <3>2 DEF LastTick
  <2>2. last \in 0..Ticks /\ 0 \in Nat /\ IsBestAfter(whole, c, 0, last)
    BY AloneFacts
  <2>3. whole' = whole
    <3>1. \A t \in 0..Ticks : LocalBest(c, 0)'[t] = LocalBest(c, 0)[t]
      BY <2>2, LocalBestStays
    <3> HIDE DEF last
    <3> QED
      BY <2>1, <2>2, <3>1
  <2>4. whole.valid => whole.of = c
    BY <2>2 DEF IsBestAfter, SaysOf
  <2>5. /\ Alone(c) = IF kind = "finish" /\ whole.valid
                      THEN [whole EXCEPT !.score = FineTime(whole.of),
                                         !.time = FineTime(whole.of), !.precise = TRUE]
                      ELSE whole
        /\ Alone(c)' = IF kind' = "finish" /\ whole'.valid
                       THEN [whole' EXCEPT !.score = FineTime(whole.of)',
                                           !.time = FineTime(whole.of)', !.precise = TRUE]
                       ELSE whole'
    BY DEF Alone, Refined
  <2>6. FineTime(whole.of)' = FineTime(whole.of)
    <3> HIDE DEF whole
    <3>1. Reported(whole.of)' = Reported(whole.of)
      BY <1>1, <2>3 DEF Reported
    <3> QED
      BY <1>1, <2>3, <3>1 DEF FineTime
  <2> HIDE DEF whole, last
  <2> QED
    BY <1>1, <2>3, <2>5, <2>6
<1>5. Wholes' = Wholes
  BY <1>4 DEF Wholes
<1>6. FineTimes' = FineTimes /\ Reports' = Reports
  BY <1>2, <1>3 DEF FineTimes, Reports
<1>7. Baseline \in Cands /\ Alone(Baseline)' = Alone(Baseline)
  BY <1>4 DEF Cands
<1>8. Seed' = Seed
  BY <1>7 DEF Seed
<1> QED
  BY <1>1, <1>5, <1>6, <1>8

\* A candidate alone is a sample of it, and a finish is refined.
LEMMA WholeIsOf ==
    ASSUME RunOK, NEW c \in Cands
    PROVE  /\ Wholes[c] = Alone(c) /\ IsOf(Wholes[c], c) /\ InSlot(Wholes[c], 0)
           /\ kind = "finish" => (Wholes[c].precise <=> Wholes[c].valid)
<1> DEFINE last == LastTick(c, NoSample)
           whole == LocalBest(c, 0)[last]
<1>1. /\ last \in 0..Ticks /\ IsBestAfter(whole, c, 0, last)
      /\ kind # "finish" => Alone(c) = whole
      /\ kind = "finish" => Alone(c) = IF whole.valid THEN Refined(whole) ELSE whole
  BY AloneFacts
<1>2. 0 \in Nat /\ Wholes[c] = Alone(c)
  BY DEF Wholes
<1> HIDE DEF whole, last
<1>3. IsOf(whole, c) /\ InSlot(whole, 0)
  BY <1>1, <1>2, BestIsOf
<1>4. CASE kind = "finish" /\ whole.valid
  <2>1. Reported(c) # {}
    BY <1>1, <1>2, <1>4, FinishIsFirst
  <2>2. /\ IsOf(Refined(whole), c) /\ InSlot(Refined(whole), 0)
        /\ Refined(whole).valid /\ Refined(whole).precise
    BY <1>3, <1>4, <2>1, RefinedFacts
  <2>3. Alone(c) = Refined(whole)
    BY <1>1, <1>4
  <2> QED
    BY <1>2, <2>2, <2>3
<1>5. CASE ~(kind = "finish" /\ whole.valid)
  <2>1. Alone(c) = whole
    BY <1>1, <1>5
  <2>2. ~whole.precise
    BY <1>1 DEF IsBestAfter
  <2> QED
    BY <1>2, <1>3, <1>5, <2>1, <2>2
<1> QED
  BY <1>4, <1>5

\* Improving is a strict order on samples, whatever the evaluator.
LEMMA ImprovesFacts ==
    ASSUME NEW x \in Samples, NEW y \in Samples, NEW z \in Samples
    PROVE  /\ ~Improves(x, x)
           /\ Improves(x, y) /\ Improves(y, z) => Improves(x, z)
           /\ Improves(x, y) => ~Improves(y, x) /\ x.valid
<1> DEFINE P == Improvement
<1>1. \A a, b \in Samples : <<a, b>> \in P <=> Improves(a, b)
  BY DEF Improvement
<1>2. /\ \A a \in Samples : <<a, a>> \notin P
      /\ \A a, b, c \in Samples : <<a, b>> \in P /\ <<b, c>> \in P => <<a, c>> \in P
  BY ImprovementOrders DEF IsOrder
<1> HIDE DEF P
<1>3. ~Improves(x, x) /\ (Improves(x, y) /\ Improves(y, z) => Improves(x, z))
  BY <1>1, <1>2
<1>4. Improves(x, y) => ~Improves(y, x)
  BY <1>1, <1>2
<1>5. Improves(x, y) => x.valid
  BY DEF Improves, StrictlyDominates, StrictlyBetter
<1> QED
  BY <1>3, <1>4, <1>5

\* The improvements counted are those of the walk.
LEMMA CountFacts ==
    ASSUME SamplesOK, NEW h, Walks(h)
    PROVE  Improvements > 0 <=> Improves(h[Len(batch)], samples[0])
<1> DEFINE n == Len(batch)
           X == [best : Samples, count : Nat]
           base == [best |-> samples[0], count |-> 0]
           Next1(x, i) == IF Improves(samples[i], x.best)
                          THEN [best |-> samples[i], count |-> x.count + 1] ELSE x
           Eq(f) == f = [s \in 0..n |-> IF s = 0 THEN base ELSE Next1(f[s - 1], s)]
           seen == CHOOSE f : Eq(f)
<1>1. n \in Nat /\ base \in X /\ \A i \in 1..n : samples[i] \in Samples
  BY DEF SamplesOK
<1>2. ASSUME NEW x \in X, NEW i \in 1..n PROVE Next1(x, i) \in X
  BY <1>1, <1>2
<1>3. \E f : Eq(f)
  <2> DEFINE step == [i \in 1..n |-> [x \in X |-> Next1(x, i)]]
  <2>1. step \in [1..n -> [X -> X]]
    <3> HIDE DEF Next1, X
    <3> QED
      BY <1>2
  <2> HIDE DEF step, X, base
  <2>2. PICK f \in [0..n -> X] : f[0] = base /\ \A i \in 1..n : f[i] = step[i][f[i - 1]]
    BY <1>1, <2>1, StepByStep
  <2> HIDE DEF Next1
  <2>3. ASSUME NEW s \in 0..n
        PROVE  f[s] = IF s = 0 THEN base ELSE Next1(f[s - 1], s)
    <3>1. CASE s = 0
      BY <2>2, <3>1
    <3>2. CASE s # 0
      <4>1. s \in 1..n /\ s - 1 \in 0..n
        BY <1>1, <3>2
      <4>2. f[s - 1] \in X
        BY <4>1
      <4> QED
        BY <2>2, <3>2, <4>1, <4>2 DEF step
    <3> QED
      BY <3>1, <3>2
  <2>4. f = [s \in 0..n |-> f[s]]
    OBVIOUS
  <2>5. Eq(f)
    BY <2>3, <2>4
  <2> HIDE DEF Eq
  <2> QED
    BY <2>5
<1>4. Eq(seen)
  <2> HIDE DEF Eq
  <2> QED
    BY <1>3, Zenon
<1>5. Improvements = seen[n].count
  BY DEF Improvements, CountReplacing
<1> HIDE DEF seen
<1>6. /\ seen[0] = base
      /\ \A i \in 1..n : seen[i] = Next1(seen[i - 1], i)
  <2>1. \A s \in 0..n : seen[s] = IF s = 0 THEN base ELSE Next1(seen[s - 1], s)
    <3> HIDE DEF Next1, base
    <3> QED
      BY <1>4
  <2>2. 0 \in 0..n /\ \A i \in 1..n : i \in 0..n /\ i # 0
    BY <1>1
  <2> HIDE DEF Next1, base
  <2> QED
    BY <2>1, <2>2
<1> DEFINE Right(m) == /\ seen[m] \in X /\ seen[m].best = h[m]
                       /\ seen[m].count > 0 <=> Improves(h[m], samples[0])
           wrong == {m \in 0..n : ~Right(m)}
<1>7. wrong = {}
  <2> SUFFICES ASSUME wrong # {} PROVE FALSE
    OBVIOUS
  <2>1. PICK m \in wrong : \A k \in wrong : m <= k
    <3>1. wrong \in SUBSET Nat
      OBVIOUS
    <3> HIDE DEF wrong
    <3> QED
      BY <3>1, Least
  <2>2. m \in 0..n /\ ~Right(m)
    OBVIOUS
  <2>3. samples[0] \in Samples /\ ~Improves(samples[0], samples[0])
    BY <1>1, ImprovesFacts DEF SamplesOK
  <2>4. Right(0)
    BY <1>1, <1>6, <2>3 DEF Walks
  <2>5. m \in 1..n /\ m - 1 \in 0..n /\ m - 1 < m
    <3> HIDE DEF Right
    <3> QED
      BY <1>1, <2>2, <2>4
  <2>6. Right(m - 1)
    <3>1. m - 1 \notin wrong
      <4> HIDE DEF wrong
      <4> QED
        BY <2>1, <2>5
    <3> HIDE DEF Right
    <3> QED
      BY <2>5, <3>1
  <2>7. h[m] = IF Improves(samples[m], h[m - 1]) THEN samples[m] ELSE h[m - 1]
    BY <2>5 DEF Walks
  <2>8. seen[m] = Next1(seen[m - 1], m) /\ samples[m] \in Samples /\ h[m - 1] \in Samples
    BY <1>1, <1>6, <2>5 DEF Walks
  <2>9. CASE Improves(samples[m], h[m - 1])
    <3>1. h[m - 1] = samples[0] \/ Improves(h[m - 1], samples[0])
      BY <2>5, WalkFacts
    <3>2. Improves(samples[m], samples[0])
      BY <2>3, <2>8, <2>9, <3>1, ImprovesFacts
    <3>3. h[m] = samples[m] /\ seen[m] = [best |-> samples[m], count |-> seen[m - 1].count + 1]
      BY <2>6, <2>7, <2>8, <2>9
    <3>4. seen[m - 1].count \in Nat
      BY <2>6
    <3>5. Right(m)
      BY <2>8, <3>2, <3>3, <3>4
    <3> QED
      BY <2>2, <3>5
  <2>10. CASE ~Improves(samples[m], h[m - 1])
    <3>1. h[m] = h[m - 1] /\ seen[m] = seen[m - 1]
      BY <2>6, <2>7, <2>8, <2>10
    <3> QED
      BY <2>2, <2>6, <3>1
  <2> QED
    BY <2>9, <2>10
<1>8. Right(n)
  <2>1. n \in 0..n /\ n \notin wrong
    BY <1>1, <1>7
  <2> HIDE DEF Right
  <2> QED
    BY <2>1
<1> QED
  BY <1>5, <1>8

\* The samples merged one after another.
Merges(order, f) ==
    /\ f \in [0..(Len(batch) + 1) -> Samples]
    /\ f[0] = IF kind = "scripted" THEN samples[0] ELSE NoSample
    /\ \A k \in 1..(Len(batch) + 1) : f[k] = Merge(f[k - 1], samples[order[k - 1]])

\* A reduction merges one sample after another.
LEMMA MergedFacts ==
    ASSUME SamplesOK, NEW order \in [0..Len(batch) -> 0..Len(batch)]
    PROVE  \E f : Merges(order, f) /\ Merged(order) = f[Len(batch) + 1]
<1> DEFINE n == Len(batch)
           last == Cardinality(DOMAIN samples)
           X == Samples
           base == IF kind = "scripted" THEN samples[0] ELSE NoSample
           Next1(x, k) == Merge(x, samples[order[k - 1]])
           Eq(f) == f = [k \in 0..last |-> IF k = 0 THEN base ELSE Next1(f[k - 1], k)]
           seen == CHOOSE f : Eq(f)
<1>1. n \in Nat /\ base \in X /\ \A i \in 0..n : samples[i] \in Samples
  BY NoSampleIsSample DEF SamplesOK
<1>2. last = n + 1
  <2>1. DOMAIN samples = 0..n
    BY DEF SamplesOK
  <2>2. Cardinality(0..n) = n + 1
    <3> HIDE DEF n
    <3> QED
      BY <1>1, FS_Interval
  <2> QED
    BY <2>1, <2>2
<1>3. last \in Nat /\ \A k \in 1..last : k - 1 \in 0..n
  BY <1>1, <1>2
<1>4. ASSUME NEW x \in X, NEW k \in 1..last PROVE Next1(x, k) \in X
  <2>1. samples[order[k - 1]] \in X
    BY <1>1, <1>3
  <2> HIDE DEF X
  <2> QED
    BY <2>1 DEF Merge, BetterSample
<1>5. \E f \in [0..last -> X] : Eq(f)
  <2> DEFINE step == [k \in 1..last |-> [x \in X |-> Next1(x, k)]]
  <2>1. step \in [1..last -> [X -> X]]
    <3> HIDE DEF Next1, X, last
    <3> QED
      BY <1>4
  <2>0. base \in X /\ last \in Nat
    BY <1>1, <1>3
  <2> HIDE DEF step, X, base, last
  <2>2. PICK f \in [0..last -> X] : f[0] = base /\ \A i \in 1..last : f[i] = step[i][f[i - 1]]
    BY <2>0, <2>1, StepByStep
  <2> HIDE DEF Next1
  <2>3. ASSUME NEW s \in 0..last
        PROVE  f[s] = IF s = 0 THEN base ELSE Next1(f[s - 1], s)
    <3>1. CASE s = 0
      BY <2>2, <3>1
    <3>2. CASE s # 0
      <4>1. s \in 1..last /\ s - 1 \in 0..last
        BY <1>3, <3>2
      <4>2. f[s - 1] \in X
        BY <4>1
      <4> QED
        BY <2>2, <3>2, <4>1, <4>2 DEF step
    <3> QED
      BY <3>1, <3>2
  <2>4. f = [s \in 0..last |-> f[s]]
    OBVIOUS
  <2>5. Eq(f)
    BY <2>3, <2>4
  <2> HIDE DEF Eq
  <2> QED
    BY <2>5
<1>6. Eq(seen)
  <2> HIDE DEF Eq
  <2> QED
    BY <1>5, Zenon
<1>7. Merged(order) = seen[last]
  BY DEF Merged
<1> HIDE DEF seen, last, base
<1>8. /\ seen = [k \in 0..last |-> seen[k]]
      /\ seen[0] = base
      /\ \A k \in 1..last : seen[k] = Next1(seen[k - 1], k)
  <2>1. \A s \in 0..last : seen[s] = IF s = 0 THEN base ELSE Next1(seen[s - 1], s)
    <3> HIDE DEF Next1
    <3> QED
      BY <1>6
  <2>2. 0 \in 0..last /\ \A i \in 1..last : i \in 0..last /\ i # 0
    BY <1>3
  <2>3. seen = [k \in 0..last |-> seen[k]]
    <3> HIDE DEF Next1
    <3> QED
      BY <1>6
  <2> HIDE DEF Next1
  <2> QED
    BY <2>1, <2>2, <2>3
<1>9. \A k \in 0..last : seen[k] \in X
  <2> DEFINE wrong == {k \in 0..last : seen[k] \notin X}
  <2> SUFFICES ASSUME wrong # {} PROVE FALSE
    OBVIOUS
  <2>1. PICK m \in wrong : \A k \in wrong : m <= k
    <3>1. wrong \in SUBSET Nat
      OBVIOUS
    <3> HIDE DEF wrong
    <3> QED
      BY <3>1, Least
  <2>2. m \in 0..last /\ seen[m] \notin X
    OBVIOUS
  <2>3. m \in 1..last /\ m - 1 \in 0..last /\ m - 1 < m
    <3> HIDE DEF X
    <3> QED
      BY <1>1, <1>3, <1>8, <2>2
  <2>4. seen[m - 1] \in X
    <3>1. m - 1 \notin wrong
      <4> HIDE DEF wrong
      <4> QED
        BY <2>1, <2>3
    <3> QED
      BY <2>3, <3>1
  <2> HIDE DEF X, Next1
  <2> QED
    BY <1>4, <1>8, <2>2, <2>3, <2>4
<1>10. Merges(order, seen)
  <2>1. seen \in [0..last -> X]
    <3> HIDE DEF X
    <3> QED
      BY <1>8, <1>9
  <2> QED
    BY <1>2, <1>8, <2>1 DEF Merges, base
<1> QED
  BY <1>2, <1>7, <1>10

\* What one thread selects slot after slot is the end of the walk.
LEMMA ScriptedWinner ==
    ASSUME SamplesOK, NEW h, Walks(h), kind = "scripted", NEW order, NEW f,
           order = [i \in 0..Len(batch) |-> i], Merges(order, f)
    PROVE  f[Len(batch) + 1] = h[Len(batch)]
<1> DEFINE n == Len(batch)
           wrong == {m \in 0..n : f[m + 1] # h[m]}
<1>1. n \in Nat /\ samples[0] \in Samples
  BY DEF SamplesOK
<1>2. SUFFICES wrong = {}
  <2>1. n \in 0..n /\ n \notin wrong
    BY <1>1, <1>2
  <2> QED
    BY <2>1
<1>3. SUFFICES ASSUME wrong # {} PROVE FALSE
  OBVIOUS
<1>4. PICK m \in wrong : \A k \in wrong : m <= k
  <2>1. wrong \in SUBSET Nat
    OBVIOUS
  <2> HIDE DEF wrong
  <2> QED
    BY <1>3, <2>1, Least
<1>5. m \in 0..n /\ f[m + 1] # h[m]
  OBVIOUS
<1>6. \A k \in 0..n : f[k + 1] = IF Improves(samples[k], f[k]) THEN samples[k] ELSE f[k]
  <2>1. ASSUME NEW k \in 0..n
        PROVE  k + 1 \in 1..(n + 1) /\ (k + 1) - 1 = k /\ order[k] = k
    BY <1>1
  <2>2. \A k \in 1..(n + 1) : f[k] = Merge(f[k - 1], samples[order[k - 1]])
    BY DEF Merges
  <2>3. ASSUME NEW k \in 0..n
        PROVE  f[k + 1] = Merge(f[k], samples[k])
    <3>1. f[k + 1] = Merge(f[(k + 1) - 1], samples[order[(k + 1) - 1]])
      BY <2>1, <2>2
    <3> QED
      BY <2>1, <3>1
  <2> QED
    BY <2>3 DEF Merge, Improves
<1>7. f[0] = samples[0] /\ h[0] = samples[0]
      /\ \A i \in 1..n : h[i] = IF Improves(samples[i], h[i - 1]) THEN samples[i] ELSE h[i - 1]
  BY DEF Merges, Walks
<1>8. CASE m = 0
  <2>1. ~Improves(samples[0], samples[0])
    BY <1>1, ImprovesFacts
  <2>2. f[0 + 1] = f[0]
    BY <1>1, <1>5, <1>6, <1>7, <1>8, <2>1
  <2> QED
    BY <1>5, <1>7, <1>8, <2>2
<1>9. CASE m # 0
  <2>1. m \in 1..n /\ m - 1 \in 0..n /\ m - 1 < m /\ (m - 1) + 1 = m
    BY <1>1, <1>5, <1>9
  <2>2. m - 1 \notin wrong
    <3> HIDE DEF wrong
    <3> QED
      BY <1>4, <2>1
  <2>3. f[m] = h[m - 1]
    BY <2>1, <2>2
  <2> QED
    BY <1>5, <1>6, <1>7, <2>1, <2>3
<1> QED
  BY <1>8, <1>9

\* Nothing merged is preferred to the result of the reduction.
LEMMA ScalarWinner ==
    ASSUME SamplesOK, kind # "scripted", NEW order \in [0..Len(batch) -> 0..Len(batch)],
           \A i \in 0..Len(batch) : \E j \in 0..Len(batch) : order[j] = i,
           NEW f, Merges(order, f)
    PROVE  LET w == f[Len(batch) + 1] IN
           /\ w \in Samples
           /\ w = NoSample \/ \E i \in 0..Len(batch) : w = samples[i]
           /\ \A i \in 0..Len(batch) : PreferredToLater(w, samples[i], Maximize)
<1> DEFINE n == Len(batch)
           last == n + 1
           use == 1..last
           item == [k \in 1..last |-> samples[order[k - 1]]]
           R == Preference
           X == Samples
<1>1. n \in Nat /\ last \in Nat /\ \A i \in 0..n : samples[i] \in X
  BY DEF SamplesOK
<1>2. \A k \in 1..last : k - 1 \in 0..n /\ order[k - 1] \in 0..n
                         /\ item[k] = samples[order[k - 1]] /\ item[k] \in X
  <2>1. \A k \in 1..last : k - 1 \in 0..n
    BY <1>1
  <2>2. \A k \in 1..last : order[k - 1] \in 0..n
    BY <2>1
  <2>3. \A k \in 1..last : item[k] = samples[order[k - 1]]
    OBVIOUS
  <2> HIDE DEF item, X, n, last
  <2> QED
    BY <1>1, <2>1, <2>2, <2>3
<1>3. f \in [0..last -> X] /\ f[0] = NoSample
      /\ \A k \in 1..last : f[k] = Merge(f[k - 1], samples[order[k - 1]])
  BY DEF Merges
<1>4. ASSUME NEW x \in X, NEW y \in X
      PROVE  <<x, y>> \in R <=> ~PreferredToLater(y, x, Maximize)
  BY DEF Preference
<1>5. ASSUME NEW k \in 1..last
      PROVE  f[k] = IF k \in use /\ <<item[k], f[k - 1]>> \in R THEN item[k] ELSE f[k - 1]
  <2>1. f[k - 1] \in X /\ f[k] = Merge(f[k - 1], item[k])
    <3>1. k - 1 \in 0..last
      BY <1>1
    <3> HIDE DEF item, X, last
    <3> QED
      BY <1>2, <1>3, <3>1
  <2>2. Merge(f[k - 1], item[k]) = IF PreferredToLater(f[k - 1], item[k], Maximize)
                                   THEN f[k - 1] ELSE item[k]
    BY DEF Merge, BetterSample
  <2> HIDE DEF item, X, R
  <2> QED
    BY <1>2, <1>4, <2>1, <2>2
<1>6. item \in [1..last -> X] /\ use \in SUBSET (1..last)
  BY <1>2
<1> HIDE DEF item, R, X
<1>7. Keeps(X, R, last, f, item, use)
  <2>1. IsOrder(R, X)
    BY PreferenceOrders DEF R, X
  <2> HIDE DEF last, use
  <2> QED
    BY <1>1, <1>3, <1>5, <1>6, <2>1 DEF Keeps
<1>8. \A m \in 0..last :
              /\ \/ f[m] = f[0]
                 \/ \E i \in use : /\ i <= m /\ f[m] = item[i]
                                   /\ <<item[i], f[i - 1]>> \in R /\ <<item[i], f[0]>> \in R
              /\ \A i \in use : i <= m => <<item[i], f[m]>> \notin R
  <2> HIDE DEF last, use
  <2> QED
    BY <1>7, KeptBest
<1>9. last \in 0..last /\ f[last] \in X /\ \A i \in use : i <= last
  <2>1. last \in 0..last /\ \A i \in use : i <= last
    BY <1>1
  <2> QED
    BY <1>3, <2>1
<1>10. f[last] = NoSample \/ \E i \in 0..n : f[last] = samples[i]
  <2>1. f[last] = f[0] \/ \E i \in use : f[last] = item[i]
    BY <1>8, <1>9
  <2>2. CASE f[last] = f[0]
    BY <1>3, <2>2
  <2>3. ASSUME NEW k \in use, f[last] = item[k] PROVE \E i \in 0..n : f[last] = samples[i]
    <3>1. order[k - 1] \in 0..n /\ item[k] = samples[order[k - 1]]
      BY <1>2
    <3> QED
      BY <2>3, <3>1
  <2> QED
    BY <2>1, <2>2, <2>3
<1>11. ASSUME NEW i \in 0..n PROVE PreferredToLater(f[last], samples[i], Maximize)
  <2>1. PICK j \in 0..n : order[j] = i
    OBVIOUS
  <2>2. j + 1 \in use /\ (j + 1) - 1 = j
    BY <1>1
  <2>3. item[j + 1] = samples[i]
    BY <1>2, <2>1, <2>2
  <2>4. <<item[j + 1], f[last]>> \notin R
    BY <1>8, <1>9, <2>2
  <2> QED
    BY <1>1, <1>4, <1>9, <2>3, <2>4
<1> QED
  BY <1>9, <1>10, <1>11 DEF X

\* The logical order is that of the slots.
LEMMA LaterSlotLaterOrder ==
    ASSUME SamplesOK, NEW i \in 0..Len(batch), NEW j \in 0..Len(batch), i < j,
           samples[i].valid, samples[j].valid
    PROVE  samples[i].order < samples[j].order
<1>1. j \in 1..Len(batch) /\ j \in Nat /\ i \in Nat /\ j - 1 \in Nat
  BY DEF SamplesOK
<1>2. samples[j].tick \in 0..(Ticks - 1) /\ samples[i].tick \in 0..(Ticks - 1)
  BY DEF SamplesOK
<1>3. samples[j].order = 1 + (j - 1) * Ticks + samples[j].tick
  BY <1>1 DEF SamplesOK, InSlot
<1>4. Ticks \in Nat \ {0} /\ \A k \in Nat : k * Ticks \in Nat
  BY ConstantFacts
<1> DEFINE a == samples[i].tick
           b == samples[j].tick
           x == samples[i].order
           y == samples[j].order
           p == (j - 1) * Ticks
<1>5. p \in Nat
  BY <1>1, <1>4
<1>6. CASE i = 0
  <2>1. x = 0
    BY <1>6 DEF SamplesOK
  <2> HIDE DEF x, y, p, b
  <2>2. y = 1 + p + b
    BY <1>3 DEF y, p, b
  <2>3. b \in Nat
    BY <1>2, <1>4 DEF b
  <2>4. x < y
    BY <1>5, <2>1, <2>2, <2>3
  <2> QED
    BY <2>4 DEF x, y
<1>7. CASE i # 0
  <2> DEFINE q == (i - 1) * Ticks
  <2>1. i \in 1..Len(batch) /\ i - 1 \in Nat /\ i - 1 + 1 <= j - 1
    BY <1>1, <1>7 DEF SamplesOK
  <2>2. x = 1 + q + a
    BY <2>1 DEF SamplesOK, InSlot
  <2>3. y = 1 + p + b
    BY <1>3
  <2>4. q + Ticks <= p
    <3>1. \A k \in Nat, l \in Nat, t \in Nat : k + 1 <= l => k * t + t <= l * t
      <4>1. ASSUME NEW k \in Nat, NEW l \in Nat, NEW t \in Nat, k + 1 <= l
            PROVE  k * t + t <= l * t
        <5>1. (k + 1) * t <= l * t
          BY <4>1
        <5>2. (k + 1) * t = k * t + t
          OBVIOUS
        <5> QED
          BY <5>1, <5>2
      <4> QED
        BY <4>1
    <3> QED
      BY <1>1, <1>4, <2>1, <3>1
  <2>5. q \in Nat /\ a \in 0..(Ticks - 1) /\ b \in 0..(Ticks - 1)
    BY <1>2, <1>4, <2>1
  <2> HIDE DEF x, y, p, q, a, b
  <2>6. x < y
    BY <1>4, <1>5, <2>2, <2>3, <2>4, <2>5
  <2> QED
    BY <2>6 DEF x, y
<1> QED
  BY <1>6, <1>7

\* Samples equal in what the comparison reads improve the same samples.
LEMMA ImproveAlike ==
    ASSUME kind # "scripted", NEW x \in Samples, NEW y \in Samples, NEW z \in Samples,
           x.valid, y.valid, x.score = y.score, x.events = y.events
    PROVE  Improves(x, z) <=> Improves(y, z)
  BY DEF Improves, StrictlyBetter

\* The reduction, in whatever order, ends where the walk of the slots ends.
LEMMA WinnerIsWalk ==
    ASSUME SamplesOK, NEW h, Walks(h), NEW w \in Winners
    PROVE  Stands(w, h[Len(batch)]) /\ w \in Samples
<1> DEFINE n == Len(batch)
<1>1. n \in Nat /\ n \in 0..n /\ DOMAIN samples = 0..n
      /\ \A i \in 0..n : samples[i] \in Samples
  BY DEF SamplesOK
<1>2. CASE kind = "scripted"
  <2> DEFINE order == [i \in 0..n |-> i]
  <2>1. w = Merged(order) /\ order \in [0..n -> 0..n]
    BY <1>1, <1>2 DEF Winners
  <2> HIDE DEF order
  <2>2. PICK f : Merges(order, f) /\ w = f[n + 1]
    BY <2>1, MergedFacts
  <2>3. w = h[n]
    BY <1>2, <2>2, ScriptedWinner DEF order
  <2>4. h[n] \in Samples
    BY <1>1, WalkFacts
  <2> QED
    BY <2>3, <2>4 DEF Stands
<1>3. CASE kind # "scripted"
  <2>1. PICK order \in [0..n -> 0..n] : /\ \A i \in 0..n : \E j \in 0..n : order[j] = i
                                        /\ w = Merged(order)
    BY <1>1, <1>3 DEF Winners
  <2>2. PICK f : Merges(order, f) /\ w = f[n + 1]
    BY <2>1, MergedFacts
  <2>3. /\ w \in Samples
        /\ w = NoSample \/ \E i \in 0..n : w = samples[i]
        /\ \A i \in 0..n : PreferredToLater(w, samples[i], Maximize)
    BY <1>3, <2>1, <2>2, ScalarWinner
  <2>4. h[n] \in Samples /\ \E i \in 0..n : h[n] = samples[i]
    <3>1. \A i \in 1..n : i \in 0..n
      OBVIOUS
    <3> QED
      BY <1>1, <3>1, WalkFacts
  <2>5. PreferredToLater(w, h[n], Maximize)
    BY <2>3, <2>4
  <2>6. CASE ~w.valid
    BY <2>3, <2>5, <2>6 DEF PreferredToLater, StrictlyBetter, Stands
  <2>7. CASE w.valid
    <3>1. PICK j \in 0..n : w = samples[j]
      BY <2>3, <2>7 DEF NoSample
    <3>2. \A m \in 0..n : j <= m => ~Improves(w, h[m])
      <4> SUFFICES ASSUME NEW m \in 0..n, j <= m PROVE ~Improves(w, h[m])
        OBVIOUS
      <4>1. h[m] \in Samples /\ (h[m] = samples[0] \/ Improves(h[m], samples[0]))
        BY WalkFacts
      <4>2. CASE j = 0
        BY <1>1, <2>3, <3>1, <4>1, <4>2, ImprovesFacts
      <4>3. CASE j # 0
        <5>1. j \in 1..n
          BY <1>1, <4>3
        <5> QED
          BY <3>1, <5>1, WalkFacts
      <4> QED
        BY <4>2, <4>3
    <3>3. j <= n /\ ~Improves(w, h[n])
      BY <1>1, <3>2
    <3>4. h[n].valid
      BY <1>3, <2>7, <3>3 DEF Improves, StrictlyBetter
    <3>5. w.score = h[n].score /\ w.events = h[n].events /\ w.order <= h[n].order
      <4>1. ~StrictlyBetter(w, h[n], Maximize)
        BY <1>3, <3>3 DEF Improves
      <4> QED
        BY <2>5, <2>7, <4>1 DEF PreferredToLater
    <3>6. CASE h[n] = samples[0]
      <4>1. ~(0 < j)
        <5> SUFFICES ASSUME 0 < j PROVE FALSE
          OBVIOUS
        <5>1. samples[0].order < samples[j].order /\ 0 \in 0..n
          BY <1>1, <2>7, <3>1, <3>4, <3>6, LaterSlotLaterOrder
        <5> QED
          BY <1>1, <3>1, <3>5, <3>6, <5>1, Numbers
      <4>2. j = 0
        BY <4>1
      <4> QED
        BY <2>3, <3>1, <3>4, <3>6, <4>2 DEF Stands
    <3>7. ASSUME NEW i \in 1..n, h[n] = samples[i], Improves(samples[i], h[i - 1])
          PROVE  w = h[n]
      <4>1. i \in 0..n /\ i - 1 \in 0..n /\ i \in Int /\ j \in Int
        BY <1>1
      <4>2. ~(i < j)
        <5> SUFFICES ASSUME i < j PROVE FALSE
          OBVIOUS
        <5>1. samples[i].order < samples[j].order
          BY <2>7, <3>1, <3>4, <3>7, <4>1, LaterSlotLaterOrder
        <5> QED
          BY <1>1, <3>1, <3>5, <3>7, <4>1, <5>1, Numbers
      <4>3. ~(j < i)
        <5> SUFFICES ASSUME j < i PROVE FALSE
          OBVIOUS
        <5>1. j <= i - 1
          BY <4>1
        <5>2. ~Improves(w, h[i - 1]) /\ h[i - 1] \in Samples
          BY <3>2, <4>1, <5>1, WalkFacts
        <5>3. Improves(w, h[i - 1]) <=> Improves(h[n], h[i - 1])
          BY <1>3, <2>3, <2>4, <2>7, <3>4, <3>5, <5>2, ImproveAlike
        <5> QED
          BY <3>7, <5>2, <5>3
      <4> QED
        BY <3>1, <3>7, <4>1, <4>2, <4>3
    <3>8. w = h[n]
      <4>1. h[n] = samples[0] \/ \E i \in 1..n : h[n] = samples[i] /\ Improves(samples[i], h[i - 1])
        BY <1>1, WalkFacts
      <4>2. CASE h[n] = samples[0]
        BY <2>7, <3>6, <4>2 DEF Stands
      <4> QED
        BY <3>7, <4>1, <4>2
    <3> QED
      BY <2>3, <3>8 DEF Stands
  <2> QED
    BY <2>6, <2>7
<1> QED
  BY <1>2, <1>3

-----------------------------------------------------------------------------
(* A batch that is finalized.                                              *)

Ready ==
    /\ RunOK /\ BatchOK /\ IncumbentOK
    /\ phase \in {"Reduce", "Finalize"}

\* What seeding the batch changes of the incumbent.
LEMMA SeededFacts ==
    ASSUME best \in Samples
    PROVE  /\ Seeded \in Samples /\ Seeded.order = 0 /\ Seeded.slot = NoSlot
           /\ Seeded.valid = best.valid /\ Seeded.tick = best.tick
           /\ Seeded.precise = best.precise /\ Seeded.time = best.time
           /\ Seeded.score = best.score /\ Seeded.events = best.events
           /\ Twins(Seeded, best)
<1>1. best \in DeviceSample(Cands, Int, Nat, Nat)
  BY DEF Samples
<1>2. Seeded = [best EXCEPT !.order = 0, !.slot = NoSlot] /\ NoSlot \in Nat \cup {NoSlot}
  BY DEF Seeded
<1>3. /\ Seeded.valid = best.valid /\ Seeded.of = best.of /\ Seeded.score = best.score
      /\ Seeded.objectives = best.objectives /\ Seeded.time = best.time
      /\ Seeded.tick = best.tick /\ Seeded.events = best.events
      /\ Seeded.precise = best.precise /\ Seeded.order = 0 /\ Seeded.slot = NoSlot
  BY <1>1, <1>2 DEF DeviceSample
<1>4. Seeded \in Samples
  BY <1>1, <1>2 DEF Samples, DeviceSample
<1> QED
  BY <1>3, <1>4 DEF Twins

\* The samples of a batch that is ready to be reduced.
LEMMA BatchFacts ==
    ASSUME Ready
    PROVE  /\ SamplesOK /\ best \in Samples /\ samples[0] = Seeded /\ Len(batch) \in Nat
           /\ Slots = 1..Len(batch)
           /\ \A i \in 1..Len(batch) : batch[i] \in Cands /\ Done(i)
<1>1. /\ best \in Samples /\ (best.valid => best.tick \in 0..(Ticks - 1))
  BY DEF Ready, IncumbentOK, IsOf
<1>2. /\ Len(batch) \in Nat /\ samples[0] = Seeded /\ Slots = 1..Len(batch)
      /\ samples = [i \in 0..Len(batch) |-> samples[i]]
      /\ \A i \in 1..Len(batch) : batch[i] \in Cands /\ Done(i)
  BY DEF Ready, BatchOK, Slots
<1>3. \A i \in 1..Len(batch) :
        /\ samples[i] \in Samples /\ (samples[i].valid => samples[i].tick \in 0..(Ticks - 1))
        /\ InSlot(samples[i], i - 1)
  BY <1>2 DEF Done, Evaluated, IsOf
<1>4. /\ Seeded \in Samples /\ Seeded.order = 0 /\ Seeded.slot = NoSlot
      /\ Seeded.valid = best.valid /\ Seeded.tick = best.tick
  BY <1>1, SeededFacts
<1>5. \A i \in 0..Len(batch) : i = 0 \/ i \in 1..Len(batch)
  BY <1>2
<1>6. SamplesOK
  BY <1>1, <1>2, <1>3, <1>4, <1>5 DEF SamplesOK
<1> QED
  BY <1>1, <1>2, <1>6

\* The candidate of a slot, alone.
AloneIn(i) == [Alone(batch[i]) EXCEPT !.slot = i - 1]

\* A candidate evaluated alone, as if in its slot.
LEMMA AloneInFacts ==
    ASSUME Ready, NEW i \in 1..Len(batch)
    PROVE  /\ AloneIn(i) \in Samples
           /\ Twins(AloneIn(i), Wholes[batch[i]])
           /\ AloneIn(i).valid => IsOf(AloneIn(i), batch[i])
           /\ kind = "finish" => (AloneIn(i).precise <=> AloneIn(i).valid)
<1> DEFINE c == batch[i]
           whole == Wholes[c]
           s == AloneIn(i)
<1>1. c \in Cands /\ RunOK /\ i - 1 \in Nat
  BY BatchFacts DEF Ready
<1>2. /\ whole = Alone(c) /\ IsOf(whole, c)
      /\ kind = "finish" => (whole.precise <=> whole.valid)
  <2> HIDE DEF c
  <2> QED
    BY <1>1, WholeIsOf
<1>3. whole \in DeviceSample(Cands, Int, Nat, Nat)
  <2> HIDE DEF whole, c
  <2> QED
    BY <1>2 DEF IsOf, Samples
<1>4. s = [whole EXCEPT !.slot = i - 1]
  <2>1. whole = Alone(batch[i])
    BY <1>2
  <2> HIDE DEF whole
  <2> QED
    BY <2>1 DEF AloneIn
<1> HIDE DEF whole, s, c
<1>5. /\ s.valid = whole.valid /\ s.of = whole.of /\ s.score = whole.score
      /\ s.objectives = whole.objectives /\ s.time = whole.time
      /\ s.tick = whole.tick /\ s.events = whole.events /\ s.precise = whole.precise
  BY <1>3, <1>4 DEF DeviceSample
<1>6. s \in Samples
  BY <1>1, <1>3, <1>4 DEF Samples, DeviceSample
<1>7. Found(s) = Found(whole)
  BY <1>5 DEF Found
<1>8. s.valid => IsOf(s, c)
  BY <1>2, <1>5, <1>6, <1>7 DEF IsOf
<1>9. Twins(s, whole)
  BY <1>2, <1>5 DEF Twins
<1>10. kind = "finish" => (s.precise <=> s.valid)
  BY <1>2, <1>5
<1> QED
  BY <1>6, <1>8, <1>9, <1>10 DEF s, c, whole

\* One candidate after another, evaluated whole.
IdealWalks(g) ==
    /\ g \in [0..Len(batch) -> Samples]
    /\ g[0] = ideal
    /\ \A i \in 1..Len(batch) :
        g[i] = IF /\ status[i] = "Success" /\ run[batch[i]].generated = "Mutated"
                  /\ IdeallyImproves(AloneIn(i), g[i - 1])
               THEN AloneIn(i) ELSE g[i - 1]

\* The walk of the ideal search can be made.
LEMMA IdealWalkExists ==
    ASSUME Ready, ideal \in Samples
    PROVE  \E g : IdealWalks(g) /\ IdealAfterBatch = g[Len(batch)]
<1> DEFINE n == Len(batch)
           X == Samples
           base == ideal
           Next1(x, i) == IdealAfter(x, i)
           Eq(f) == f = [s \in 0..n |-> IF s = 0 THEN base ELSE Next1(f[s - 1], s)]
           seen == CHOOSE f : Eq(f)
<1>1. n \in Nat /\ base \in X
  BY BatchFacts
<1>2. \A x, i : Next1(x, i) = IF /\ status[i] = "Success" /\ run[batch[i]].generated = "Mutated"
                                /\ IdeallyImproves(AloneIn(i), x)
                             THEN AloneIn(i) ELSE x
  BY DEF IdealAfter, AloneIn
<1>3. ASSUME NEW x \in X, NEW i \in 1..n PROVE Next1(x, i) \in X
  BY <1>2, AloneInFacts
<1>4. \E f : Eq(f)
  <2> DEFINE step == [i \in 1..n |-> [x \in X |-> Next1(x, i)]]
  <2>1. step \in [1..n -> [X -> X]]
    <3> HIDE DEF Next1, X
    <3> QED
      BY <1>3
  <2>0. base \in X /\ n \in Nat
    BY <1>1
  <2> HIDE DEF step, X, base, n
  <2>2. PICK f \in [0..n -> X] : f[0] = base /\ \A i \in 1..n : f[i] = step[i][f[i - 1]]
    BY <2>0, <2>1, StepByStep
  <2> HIDE DEF Next1
  <2>3. ASSUME NEW s \in 0..n
        PROVE  f[s] = IF s = 0 THEN base ELSE Next1(f[s - 1], s)
    <3>1. CASE s = 0
      BY <2>2, <3>1
    <3>2. CASE s # 0
      <4>1. s \in 1..n /\ s - 1 \in 0..n
        BY <1>1, <3>2
      <4>2. f[s - 1] \in X
        BY <4>1
      <4> QED
        BY <2>2, <3>2, <4>1, <4>2 DEF step
    <3> QED
      BY <3>1, <3>2
  <2>4. f = [s \in 0..n |-> f[s]]
    OBVIOUS
  <2>5. Eq(f)
    BY <2>3, <2>4
  <2> HIDE DEF Eq
  <2> QED
    BY <2>5
<1>5. Eq(seen)
  <2> HIDE DEF Eq
  <2> QED
    BY <1>4, Zenon
<1>6. IdealAfterBatch = seen[n]
  BY DEF IdealAfterBatch
<1> HIDE DEF seen
<1>7. /\ seen = [k \in 0..n |-> seen[k]]
      /\ seen[0] = base
      /\ \A i \in 1..n : seen[i] = Next1(seen[i - 1], i)
  <2>1. \A s \in 0..n : seen[s] = IF s = 0 THEN base ELSE Next1(seen[s - 1], s)
    <3> HIDE DEF Next1, base
    <3> QED
      BY <1>5
  <2>2. 0 \in 0..n /\ \A i \in 1..n : i \in 0..n /\ i # 0
    BY <1>1
  <2>3. seen = [k \in 0..n |-> seen[k]]
    <3> HIDE DEF Next1, base
    <3> QED
      BY <1>5
  <2> HIDE DEF Next1, base
  <2> QED
    BY <2>1, <2>2, <2>3
<1>8. \A k \in 0..n : seen[k] \in X
  <2> DEFINE wrong == {k \in 0..n : seen[k] \notin X}
  <2> SUFFICES ASSUME wrong # {} PROVE FALSE
    OBVIOUS
  <2>1. PICK m \in wrong : \A k \in wrong : m <= k
    <3>1. wrong \in SUBSET Nat
      OBVIOUS
    <3> HIDE DEF wrong
    <3> QED
      BY <3>1, Least
  <2>2. m \in 0..n /\ seen[m] \notin X
    OBVIOUS
  <2>3. m \in 1..n /\ m - 1 \in 0..n /\ m - 1 < m
    <3> HIDE DEF X
    <3> QED
      BY <1>1, <1>7, <2>2
  <2>4. seen[m - 1] \in X
    <3>1. m - 1 \notin wrong
      <4> HIDE DEF wrong
      <4> QED
        BY <2>1, <2>3
    <3> QED
      BY <2>3, <3>1
  <2> HIDE DEF X, Next1
  <2> QED
    BY <1>3, <1>7, <2>2, <2>3, <2>4
<1>9. IdealWalks(seen)
  <2>1. seen \in [0..n -> X]
    <3> HIDE DEF X, Next1
    <3> QED
      BY <1>7, <1>8
  <2>2. \A i \in 1..n : seen[i] = IF /\ status[i] = "Success"
                                     /\ run[batch[i]].generated = "Mutated"
                                     /\ IdeallyImproves(AloneIn(i), seen[i - 1])
                                  THEN AloneIn(i) ELSE seen[i - 1]
    <3> HIDE DEF Next1
    <3> QED
      BY <1>2, <1>7
  <2>3. seen[0] = ideal
    BY <1>7
  <2> QED
    BY <2>1, <2>2, <2>3 DEF IdealWalks
<1> QED
  BY <1>6, <1>9

Counted == {i \in 1..Len(batch) : status[i] = "Success" /\ run[batch[i]].generated = "Mutated"}

\* The ideal best is the one before or a candidate's, and no candidate is better.
LEMMA IdealWalkFacts ==
    ASSUME Ready, NEW g, IdealWalks(g)
    PROVE  \A m \in 0..Len(batch) :
              /\ g[m] \in Samples
              /\ \/ g[m] = ideal
                 \/ \E i \in Counted : /\ i <= m /\ g[m] = AloneIn(i)
                                       /\ IdeallyImproves(AloneIn(i), ideal)
              /\ \A i \in Counted : i <= m => ~IdeallyImproves(AloneIn(i), g[m])
<1> DEFINE n == Len(batch)
           item == [i \in 1..n |-> AloneIn(i)]
           use == Counted
           R == IdealImprovement
           X == Samples
<1>1. n \in Nat /\ g \in [0..n -> X] /\ item \in [1..n -> X]
  BY BatchFacts, AloneInFacts DEF IdealWalks
<1>2. ASSUME NEW x \in X, NEW y \in X
      PROVE  <<x, y>> \in R <=> IdeallyImproves(x, y)
  BY DEF IdealImprovement
<1>3. \A i \in 1..n : g[i] \in X /\ g[i - 1] \in X /\ item[i] \in X /\ item[i] = AloneIn(i)
  <2>1. \A i \in 1..n : i \in 0..n /\ i - 1 \in 0..n
    BY <1>1
  <2> QED
    BY <1>1, <2>1
<1>4. \A i \in 1..n : g[i] = IF i \in use /\ <<item[i], g[i - 1]>> \in R
                             THEN item[i] ELSE g[i - 1]
  <2> HIDE DEF item, R, X
  <2> QED
    BY <1>2, <1>3 DEF IdealWalks, Counted
<1>5. IsOrder(R, X) /\ use \in SUBSET (1..n)
  BY IdealImprovementOrders DEF Counted
<1>6. g[0] = ideal /\ g[0] \in X
  BY <1>1 DEF IdealWalks
<1> HIDE DEF n, item, R, X, use
<1>7. \A m \in 0..n :
              /\ \/ g[m] = g[0]
                 \/ \E i \in use : /\ i <= m /\ g[m] = item[i]
                                   /\ <<item[i], g[i - 1]>> \in R /\ <<item[i], g[0]>> \in R
              /\ \A i \in use : i <= m => <<item[i], g[m]>> \notin R
  <2>1. Keeps(X, R, n, g, item, use)
    BY <1>1, <1>4, <1>5 DEF Keeps
  <2> QED
    BY <2>1, KeptBest
<1>8. ASSUME NEW m \in 0..n
      PROVE  /\ g[m] \in X
             /\ \/ g[m] = ideal
                \/ \E i \in use : /\ i <= m /\ g[m] = AloneIn(i)
                                  /\ IdeallyImproves(AloneIn(i), ideal)
             /\ \A i \in use : i <= m => ~IdeallyImproves(AloneIn(i), g[m])
  <2>1. g[m] \in X
    BY <1>1
  <2>2. \A i \in use : i <= m => ~IdeallyImproves(AloneIn(i), g[m])
    <3> SUFFICES ASSUME NEW i \in use, i <= m PROVE ~IdeallyImproves(AloneIn(i), g[m])
      OBVIOUS
    <3>1. i \in 1..n /\ item[i] \in X /\ item[i] = AloneIn(i)
      BY <1>3, <1>5
    <3>2. <<item[i], g[m]>> \notin R
      BY <1>7
    <3> QED
      BY <1>2, <2>1, <3>1, <3>2
  <2>3. CASE g[m] = g[0]
    BY <1>6, <2>1, <2>2, <2>3
  <2>4. ASSUME NEW i \in use, i <= m, g[m] = item[i], <<item[i], g[0]>> \in R
        PROVE  g[m] = AloneIn(i) /\ IdeallyImproves(AloneIn(i), ideal)
    BY <1>2, <1>3, <1>5, <1>6, <2>4
  <2> QED
    BY <1>7, <2>1, <2>2, <2>3, <2>4
<1> QED
  BY <1>8 DEF n, X, use

\* What becomes of the incumbent when the batch is finalized.
After == IF Wins THEN samples[winner.slot + 1] ELSE best

\* The winner is the incumbent, or the sample of a slot that improves it.
LEMMA FinalWinner ==
    ASSUME Ready, NEW h, Walks(h), Stands(winner, h[Len(batch)])
    PROVE  \/ /\ Wins
              /\ \E i \in 1..Len(batch) : /\ winner = samples[i] /\ winner.slot = i - 1
                                          /\ winner.slot + 1 = i
                                          /\ h[Len(batch)] = samples[i]
                                          /\ Improves(samples[i], samples[0])
           \/ ~Wins /\ h[Len(batch)] = samples[0]
<1> DEFINE n == Len(batch)
           last == h[n]
<1>1. /\ n \in Nat /\ n \in 0..n /\ SamplesOK
      /\ \A i \in 0..n : samples[i] \in Samples
  BY BatchFacts DEF SamplesOK
<1>2. Stands(winner, last)
  OBVIOUS
<1>3. \/ last = samples[0]
      \/ \E i \in 1..n : last = samples[i] /\ Improves(samples[i], samples[0])
  BY <1>1, WalkFacts
<1> HIDE DEF last
<1>4. CASE last = samples[0]
  <2>1. samples[0].slot = NoSlot
    BY <1>1 DEF SamplesOK
  <2>2. ~Wins
    BY <1>2, <1>4, <2>1 DEF Wins, Stands
  <2> QED
    BY <1>4, <2>2 DEF last
<1>5. ASSUME NEW i \in 1..n, last = samples[i], Improves(samples[i], samples[0])
      PROVE  Wins /\ winner = samples[i] /\ winner.slot = i - 1 /\ winner.slot + 1 = i
  <2>1. samples[i] \in Samples /\ samples[0] \in Samples
    BY <1>1
  <2>2. samples[i].valid
    BY <1>5, <2>1, ImprovesFacts
  <2>3. winner = samples[i]
    BY <1>2, <1>5, <2>2 DEF Stands
  <2>4. winner.slot = i - 1
    BY <1>1, <2>2, <2>3 DEF SamplesOK, InSlot
  <2>5. i - 1 # NoSlot /\ (i - 1) + 1 = i
    BY <1>1 DEF NoSlot
  <2> QED
    BY <2>2, <2>3, <2>4, <2>5 DEF Wins
<1> QED
  BY <1>3, <1>4, <1>5 DEF last

\* Samples that differ in their slot only improve the same samples.
LEMMA TwinsImprove ==
    ASSUME NEW a \in Samples, NEW b \in Samples, NEW c \in Samples, NEW d \in Samples,
           Twins(a, b), Twins(c, d)
    PROVE  Improves(a, c) <=> Improves(b, d)
<1>1. (a.valid <=> b.valid) /\ (c.valid <=> d.valid)
  BY DEF Twins
<1>2. CASE ~a.valid
  BY <1>1, <1>2 DEF Improves, StrictlyDominates, StrictlyBetter
<1>3. CASE a.valid /\ ~c.valid
  BY <1>1, <1>3 DEF Improves, StrictlyDominates, StrictlyBetter
<1>4. CASE a.valid /\ c.valid
  <2>1. /\ a.score = b.score /\ a.objectives = b.objectives /\ a.events = b.events
        /\ c.score = d.score /\ c.objectives = d.objectives /\ c.events = d.events
        /\ b.valid /\ d.valid
    BY <1>1, <1>4 DEF Twins
  <2> QED
    BY <1>4, <2>1 DEF Improves, StrictlyDominates, StrictlyBetter
<1> QED
  BY <1>2, <1>3, <1>4

\* The incumbent after a batch is the end of the walk, and another only if better.
LEMMA AfterFacts ==
    ASSUME Ready, NEW h, Walks(h), Stands(winner, h[Len(batch)])
    PROVE  /\ After \in Samples /\ Twins(After, h[Len(batch)])
           /\ After.precise = h[Len(batch)].precise
           /\ After = best \/ Improves(After, best)
           /\ Wins <=> Improves(h[Len(batch)], samples[0])
           /\ Wins <=> After # best
<1> DEFINE last == h[Len(batch)]
<1>1. /\ best \in Samples /\ samples[0] = Seeded /\ samples[0] \in Samples
      /\ \A i \in 1..Len(batch) : samples[i] \in Samples
  BY BatchFacts DEF SamplesOK
<1>2. Twins(samples[0], best) /\ samples[0].precise = best.precise
  BY <1>1, SeededFacts
<1>3. CASE ~Wins /\ last = samples[0]
  <2>1. After = best
    BY <1>3 DEF After
  <2>2. Twins(best, samples[0])
    BY <1>2 DEF Twins
  <2>3. ~Improves(samples[0], samples[0])
    BY <1>1, ImprovesFacts
  <2> QED
    BY <1>1, <1>2, <1>3, <2>1, <2>2, <2>3
<1>4. ASSUME Wins, NEW i \in 1..Len(batch), winner.slot + 1 = i,
             last = samples[i], Improves(samples[i], samples[0])
      PROVE  /\ After \in Samples /\ Twins(After, last) /\ After.precise = last.precise
             /\ Improves(After, best) /\ Improves(last, samples[0]) /\ After # best
  <2>1. After = samples[i] /\ samples[i] \in Samples
    BY <1>1, <1>4 DEF After
  <2>2. Twins(samples[i], samples[i])
    BY DEF Twins
  <2>3. Improves(samples[i], best)
    BY <1>1, <1>2, <1>4, <2>1, <2>2, TwinsImprove
  <2>4. ~Improves(best, best)
    BY <1>1, ImprovesFacts
  <2> QED
    BY <1>4, <2>1, <2>2, <2>3, <2>4
<1> HIDE DEF last
<1>5. \/ ~Wins /\ last = samples[0]
      \/ Wins /\ \E i \in 1..Len(batch) : /\ winner.slot + 1 = i /\ last = samples[i]
                                          /\ Improves(samples[i], samples[0])
  BY FinalWinner DEF last
<1> QED
  BY <1>3, <1>4, <1>5 DEF last

AllSucceed == \A i \in 1..Len(batch) : status[i] = "Success"

\* Slot after slot, the incumbent and the best of an ideal search.
LEMMA IdealStands ==
    ASSUME Ready, NEW h, Walks(h), NEW g, IdealWalks(g), kind # "finish",
           ideal \in Samples, ~Improves(ideal, best)
    PROVE  /\ ~Improves(g[Len(batch)], h[Len(batch)])
           /\ AllSucceed /\ Twins(best, ideal) => Twins(h[Len(batch)], g[Len(batch)])
<1> DEFINE n == Len(batch)
<1>1. /\ n \in Nat /\ n \in 0..n /\ SamplesOK /\ best \in Samples /\ samples[0] = Seeded
      /\ \A i \in 0..n : samples[i] \in Samples
      /\ Twins(samples[0], best)
  <2>1. /\ n \in Nat /\ SamplesOK /\ best \in Samples /\ samples[0] = Seeded
        /\ \A i \in 0..n : samples[i] \in Samples
    BY BatchFacts DEF SamplesOK
  <2>2. Twins(Seeded, best)
    BY <2>1, SeededFacts
  <2> QED
    BY <2>1, <2>2
<1>2. /\ h[0] = samples[0] /\ g[0] = ideal
      /\ \A m \in 0..n : h[m] \in Samples /\ g[m] \in Samples
  BY DEF Walks, IdealWalks
<1>3. ASSUME NEW i \in 1..n
      PROVE  /\ AloneIn(i) \in Samples /\ samples[i] \in Samples
             /\ status[i] = "Success" =>
                    IF run[batch[i]].generated = "Mutated"
                    THEN Twins(AloneIn(i), samples[i]) ELSE ~samples[i].valid
  <2>1. Done(i) /\ AloneIn(i) \in Samples /\ samples[i] \in Samples
        /\ Twins(AloneIn(i), Wholes[batch[i]])
    BY <1>1, BatchFacts, AloneInFacts
  <2>2. status[i] = "Success" =>
            IF run[batch[i]].generated = "Mutated"
            THEN Twins(samples[i], Wholes[batch[i]]) ELSE ~samples[i].valid
    BY <2>1 DEF Done, Evaluated, Agrees
  <2> QED
    BY <2>1, <2>2 DEF Twins
<1>4. \A x, y : IdeallyImproves(x, y) <=> Improves(x, y)
  BY DEF IdeallyImproves
<1>5. ~Improves(g[n], h[n])
  <2>1. h[n] = samples[0] \/ Improves(h[n], samples[0])
    BY <1>1, WalkFacts
  <2>2. CASE g[n] = ideal
    <3>1. Twins(ideal, ideal)
      BY DEF Twins
    <3>2. ~Improves(ideal, samples[0])
      BY <1>1, <3>1, TwinsImprove
    <3> QED
      BY <1>1, <1>2, <2>1, <2>2, <3>2, ImprovesFacts
  <2>3. ASSUME NEW i \in Counted, g[n] = AloneIn(i) PROVE ~Improves(AloneIn(i), h[n])
    <3>1. i \in 1..n /\ i <= n /\ status[i] = "Success" /\ run[batch[i]].generated = "Mutated"
      BY <1>1 DEF Counted
    <3>2. Twins(AloneIn(i), samples[i]) /\ AloneIn(i) \in Samples /\ samples[i] \in Samples
      BY <1>3, <3>1
    <3>3. ~Improves(samples[i], h[n])
      BY <1>1, <3>1, WalkFacts
    <3>4. Twins(h[n], h[n])
      BY DEF Twins
    <3> QED
      BY <1>1, <1>2, <3>2, <3>3, <3>4, TwinsImprove
  <2>4. g[n] = ideal \/ \E i \in Counted : g[n] = AloneIn(i)
    BY <1>1, IdealWalkFacts
  <2> QED
    BY <2>2, <2>3, <2>4
<1>6. ASSUME AllSucceed, Twins(best, ideal) PROVE Twins(h[n], g[n])
  <2> DEFINE wrong == {m \in 0..n : ~Twins(h[m], g[m])}
  <2>1. SUFFICES wrong = {}
    BY <1>1
  <2>2. SUFFICES ASSUME wrong # {} PROVE FALSE
    OBVIOUS
  <2>3. PICK m \in wrong : \A k \in wrong : m <= k
    <3>1. wrong \in SUBSET Nat
      OBVIOUS
    <3> HIDE DEF wrong
    <3> QED
      BY <2>2, <3>1, Least
  <2>4. m \in 0..n /\ ~Twins(h[m], g[m])
    OBVIOUS
  <2>5. Twins(h[0], g[0])
    BY <1>1, <1>2, <1>6 DEF Twins
  <2>6. m \in 1..n /\ m - 1 \in 0..n /\ m - 1 < m
    BY <1>1, <2>4, <2>5
  <2>7. Twins(h[m - 1], g[m - 1])
    <3>1. m - 1 \notin wrong
      <4> HIDE DEF wrong
      <4> QED
        BY <2>3, <2>6
    <3> QED
      BY <2>6, <3>1
  <2>8. /\ h[m] = IF Improves(samples[m], h[m - 1]) THEN samples[m] ELSE h[m - 1]
        /\ g[m] = IF run[batch[m]].generated = "Mutated" /\ Improves(AloneIn(m), g[m - 1])
                  THEN AloneIn(m) ELSE g[m - 1]
    BY <1>4, <1>6, <2>6 DEF Walks, IdealWalks, AllSucceed
  <2>9. /\ AloneIn(m) \in Samples /\ samples[m] \in Samples
        /\ IF run[batch[m]].generated = "Mutated"
           THEN Twins(AloneIn(m), samples[m]) ELSE ~samples[m].valid
    BY <1>3, <1>6, <2>6 DEF AllSucceed
  <2>10. h[m - 1] \in Samples /\ g[m - 1] \in Samples
    BY <1>2, <2>6
  <2>11. CASE run[batch[m]].generated = "Mutated"
    <3>1. Twins(samples[m], AloneIn(m))
      BY <2>9, <2>11 DEF Twins
    <3>2. Improves(samples[m], h[m - 1]) <=> Improves(AloneIn(m), g[m - 1])
      BY <2>7, <2>9, <2>10, <3>1, TwinsImprove
    <3> QED
      BY <2>4, <2>7, <2>8, <2>11, <3>1, <3>2
  <2>12. CASE run[batch[m]].generated # "Mutated"
    <3>1. ~Improves(samples[m], h[m - 1])
      BY <2>9, <2>10, <2>12, ImprovesFacts
    <3> QED
      BY <2>4, <2>7, <2>8, <2>12, <3>1
  <2> QED
    BY <2>11, <2>12
<1> QED
  BY <1>5, <1>6

\* A finish is evaluated as alone, or is no better than the incumbent.
LEMMA FinishAgrees ==
    ASSUME Ready, kind = "finish", NEW i \in 1..Len(batch), status[i] = "Success"
    PROVE  /\ samples[i].valid => run[batch[i]].generated = "Mutated"
           /\ run[batch[i]].generated = "Mutated" =>
                /\ samples[i].valid => /\ AloneIn(i).valid /\ samples[i].precise
                                       /\ samples[i].score = AloneIn(i).score
                /\ AloneIn(i).valid => \/ samples[i].valid
                                       \/ best.valid /\ best.score <= AloneIn(i).score
<1> DEFINE c == batch[i]
           whole == Wholes[c]
           s == samples[i]
<1>1. /\ c \in Cands /\ RunOK /\ Done(i) /\ AloneIn(i) \in Samples
      /\ Twins(AloneIn(i), whole) /\ IsOf(best, bestInputs)
  BY BatchFacts, AloneInFacts DEF Ready, IncumbentOK
<1>2. IsOf(whole, c) /\ (whole.precise <=> whole.valid)
  <2> HIDE DEF c
  <2> QED
    BY <1>1, WholeIsOf
<1>3. IsOf(s, c) /\ s.precise = s.valid /\ Agrees(s, c)
  BY <1>1 DEF Done, Evaluated
<1>4. best.precise => best.valid
  BY <1>1 DEF IsOf, NoSample
<1> HIDE DEF whole, s
<1>5. s.valid => s.score = FineTimes[c] /\ s.precise
  BY <1>3 DEF IsOf, Found
<1>6. whole.valid => whole.score = FineTimes[c]
  BY <1>2 DEF IsOf, Found
<1>7. s.valid => run[c].generated = "Mutated"
  BY <1>3 DEF Agrees
<1>8. run[c].generated = "Mutated" =>
        /\ s.valid => whole.valid
        /\ whole.valid => s.valid \/ (best.precise /\ best.score <= whole.score)
  BY <1>3 DEF Agrees, whole
<1>9. (AloneIn(i).valid <=> whole.valid)
      /\ (whole.valid => AloneIn(i).score = whole.score)
  BY <1>1 DEF Twins
<1> QED
  BY <1>4, <1>5, <1>6, <1>7, <1>8, <1>9 DEF s

\* The same of finishes, of which only the time counts.
LEMMA IdealFinishStands ==
    ASSUME Ready, NEW h, Walks(h), NEW g, IdealWalks(g), kind = "finish", ideal \in Samples,
           ideal.valid => best.valid /\ best.score <= ideal.score
    PROVE  /\ g[Len(batch)].valid => /\ h[Len(batch)].valid
                                     /\ h[Len(batch)].score <= g[Len(batch)].score
           /\ /\ AllSucceed
              /\ best.precise <=> best.valid
              /\ best.valid => ideal.valid /\ ideal.score <= best.score
              => /\ h[Len(batch)].valid => /\ g[Len(batch)].valid
                                           /\ g[Len(batch)].score <= h[Len(batch)].score
                 /\ h[Len(batch)].precise <=> h[Len(batch)].valid
<1> DEFINE n == Len(batch)
           last == h[n]
           first == g[n]
<1>1. /\ n \in Nat /\ n \in 0..n /\ SamplesOK /\ best \in Samples /\ samples[0] = Seeded
      /\ \A i \in 0..n : samples[i] \in Samples
      /\ \A i \in 1..n : AloneIn(i) \in Samples
  BY BatchFacts, AloneInFacts DEF SamplesOK
<1>2. /\ Seeded.valid <=> best.valid
      /\ Seeded.score = best.score
      /\ Seeded.precise <=> best.precise
      /\ Seeded \in Samples
  BY <1>1, SeededFacts
<1>3. /\ last \in Samples
      /\ \/ last = Seeded
         \/ \E i \in 1..n : last = samples[i] /\ Improves(samples[i], Seeded)
      /\ \A i \in 1..n : ~Improves(samples[i], last)
  BY <1>1, WalkFacts
<1>4. /\ first \in Samples
      /\ \/ first = ideal
         \/ \E i \in Counted : first = AloneIn(i) /\ IdeallyImproves(AloneIn(i), ideal)
      /\ \A i \in Counted : ~IdeallyImproves(AloneIn(i), first)
  <2>1. \A i \in Counted : i <= n
    BY <1>1 DEF Counted
  <2> QED
    BY <1>1, <2>1, IdealWalkFacts
<1> HIDE DEF last, first
<1>5. /\ best.score \in Int /\ last.score \in Int /\ first.score \in Int /\ ideal.score \in Int
      /\ \A i \in 1..n : samples[i].score \in Int /\ AloneIn(i).score \in Int
  BY <1>1, <1>3, <1>4, Numbers
<1>6. ASSUME NEW x \in Samples, NEW y \in Samples
      PROVE  /\ Improves(x, y) => x.valid /\ (y.valid => x.score <= y.score)
             /\ x.valid /\ ~Improves(x, y) => y.valid /\ y.score <= x.score
             /\ IdeallyImproves(x, y) => x.valid /\ (y.valid => x.score <= y.score)
             /\ x.valid /\ ~IdeallyImproves(x, y) => y.valid /\ y.score <= x.score
  <2>1. x.score \in Int /\ y.score \in Int /\ ~Maximize /\ kind # "scripted"
    BY Numbers DEF Maximize
  <2>2. Improves(x, y) <=> StrictlyBetter(x, y, Maximize)
    BY <2>1 DEF Improves
  <2>3. /\ Improves(x, y) => x.valid /\ (y.valid => x.score <= y.score)
        /\ x.valid /\ ~Improves(x, y) => y.valid /\ y.score <= x.score
    BY <2>1, <2>2 DEF StrictlyBetter, Higher
  <2>4. /\ IdeallyImproves(x, y) => x.valid /\ (y.valid => x.score <= y.score)
        /\ x.valid /\ ~IdeallyImproves(x, y) => y.valid /\ y.score <= x.score
    BY <2>1 DEF IdeallyImproves
  <2> QED
    BY <2>3, <2>4
<1>7. best.valid => last.valid /\ last.score <= best.score
  <2>1. CASE last = Seeded
    BY <1>2, <1>5, <2>1
  <2>2. ASSUME NEW i \in 1..n, last = samples[i], Improves(samples[i], Seeded), best.valid
        PROVE  last.valid /\ last.score <= best.score
    BY <1>1, <1>2, <1>3, <1>5, <1>6, <2>2
  <2> QED
    BY <1>3, <2>1, <2>2
<1>8. ASSUME NEW i \in 1..n, samples[i].valid
      PROVE  last.valid /\ last.score <= samples[i].score
  <2>1. ~Improves(samples[i], last)
    BY <1>3
  <2> QED
    BY <1>1, <1>3, <1>5, <1>6, <1>8, <2>1
<1>9. first.valid => last.valid /\ last.score <= first.score
  <2>1. CASE first = ideal
    BY <1>5, <1>7, <2>1
  <2>2. ASSUME NEW i \in Counted, first = AloneIn(i), first.valid
        PROVE  last.valid /\ last.score <= first.score
    <3>1. i \in 1..n /\ status[i] = "Success" /\ run[batch[i]].generated = "Mutated"
      BY DEF Counted
    <3>2. \/ samples[i].valid /\ samples[i].score = AloneIn(i).score
          \/ best.valid /\ best.score <= AloneIn(i).score
      BY <2>2, <3>1, FinishAgrees
    <3> QED
      BY <1>5, <1>7, <1>8, <2>2, <3>1, <3>2
  <2> QED
    BY <1>4, <2>1, <2>2
<1>10. ASSUME AllSucceed, best.precise <=> best.valid,
              best.valid => ideal.valid /\ ideal.score <= best.score
       PROVE  /\ last.valid => first.valid /\ first.score <= last.score
              /\ last.precise <=> last.valid
  <2>1. CASE last = Seeded
    <3>1. ideal.valid => first.valid /\ first.score <= ideal.score
      <4>1. CASE first = ideal
        BY <1>5, <4>1
      <4>2. ASSUME NEW i \in Counted, first = AloneIn(i), IdeallyImproves(AloneIn(i), ideal),
                   ideal.valid
            PROVE  first.valid /\ first.score <= ideal.score
        BY <1>1, <1>4, <1>5, <1>6, <4>2
      <4> QED
        BY <1>4, <4>1, <4>2
    <3> QED
      BY <1>2, <1>5, <1>10, <2>1, <3>1
  <2>2. ASSUME NEW i \in 1..n, last = samples[i], Improves(samples[i], Seeded)
        PROVE  /\ last.valid /\ first.valid /\ first.score <= last.score
               /\ last.precise
    <3>1. samples[i].valid /\ status[i] = "Success"
      BY <1>1, <1>2, <1>6, <1>10, <2>2 DEF AllSucceed
    <3>2. /\ AloneIn(i).valid /\ samples[i].precise /\ samples[i].score = AloneIn(i).score
          /\ i \in Counted
      BY <3>1, FinishAgrees DEF Counted
    <3>3. ~IdeallyImproves(AloneIn(i), first)
      BY <1>4, <3>2
    <3> QED
      BY <1>1, <1>4, <1>5, <1>6, <2>2, <3>1, <3>2, <3>3
  <2>3. last.precise \in BOOLEAN /\ last.valid \in BOOLEAN
    BY <1>3, Zenon DEF Samples, DeviceSample
  <2>4. CASE \E i \in 1..n : last = samples[i] /\ Improves(samples[i], Seeded)
    BY <2>2, <2>3, <2>4
  <2> QED
    BY <1>3, <2>1, <2>4
<1> QED
  BY <1>9, <1>10 DEF last, first

-----------------------------------------------------------------------------
(* Every step keeps the invariant.                                         *)

\* A step that keeps incumbent and ideal keeps what is said of them.
LEMMA HistoryStays ==
    ASSUME IInv, UNCHANGED <<session, best, bestInputs, bestState>>, ideal' = ideal,
           tainted' \in BOOLEAN, tainted => tainted'
    PROVE  /\ RunOK' /\ run'[Baseline].generated = "Mutated"
           /\ IncumbentOK' /\ IdealOK'
<1>1. /\ kind' = kind /\ run' = run /\ RunOK'
      /\ Wholes' = Wholes /\ FineTimes' = FineTimes /\ Reports' = Reports
      /\ Seed' = Seed
  BY RunsStay DEF IInv
<1>2. best' = best /\ bestInputs' = bestInputs /\ bestState' = bestState /\ ideal' = ideal
  OBVIOUS
<1>3. IncumbentOK'
  BY <1>1, <1>2 DEF IInv, IncumbentOK, IsOf, Found
<1>4. IsOf(ideal, ideal.of)'
  BY <1>1, <1>2 DEF IInv, IdealOK, IsOf, Found
<1>5. Improves(ideal, best)' <=> Improves(ideal, best)
  BY <1>1, <1>2 DEF Improves, Maximize
<1>6. SameResult(best, ideal)' <=> SameResult(best, ideal)
  BY <1>1, <1>2 DEF SameResult
<1>7. Twins(best, ideal)' <=> Twins(best, ideal)
  BY <1>2 DEF Twins
<1>8. IdealOK'
  BY <1>1, <1>2, <1>4, <1>5, <1>6, <1>7 DEF IInv, IdealOK
<1> QED
  BY <1>1, <1>3, <1>8 DEF IInv

\* What is said of a slot, after a step.
LEMMA SlotPrimes ==
    ASSUME RunOK, UNCHANGED <<session, best, batch>>, NEW i
    PROVE  /\ Evaluated(i)' <=>
                /\ IsOf(samples'[i], batch[i]) /\ InSlot(samples'[i], i - 1)
                /\ status'[i] = "Success" => Agrees(samples'[i], batch[i])
           /\ Coarse(samples[i], batch[i])' <=> Coarse(samples'[i], batch[i])
<1>1. /\ kind' = kind /\ run' = run /\ batch' = batch /\ best' = best
      /\ Wholes' = Wholes /\ FineTimes' = FineTimes /\ Reports' = Reports
  BY RunsStay
<1>2. IsOf(samples[i], batch[i])' <=> IsOf(samples'[i], batch[i])
  BY <1>1 DEF IsOf, Found
<1>3. InSlot(samples[i], i - 1)' <=> InSlot(samples'[i], i - 1)
  BY DEF InSlot
<1>4. Agrees(samples[i], batch[i])' <=> Agrees(samples'[i], batch[i])
  <2>1. Twins(samples[i], Wholes[batch[i]])' <=> Twins(samples'[i], Wholes[batch[i]])
    BY <1>1 DEF Twins
  <2> QED
    BY <1>1, <2>1 DEF Agrees
<1>5. Coarse(samples[i], batch[i])' <=> Coarse(samples'[i], batch[i])
  BY <1>1 DEF Coarse
<1> QED
  BY <1>2, <1>3, <1>4, <1>5 DEF Evaluated

\* A slot that does not change stays as it is.
LEMMA SlotStays ==
    ASSUME RunOK, UNCHANGED <<session, best, batch>>, NEW i,
           samples'[i] = samples[i], status'[i] = status[i]
    PROVE  /\ Fresh(i) => Fresh(i)'
           /\ Simulated(i) => Simulated(i)'
           /\ Awaiting(i) => Awaiting(i)'
           /\ Done(i) => Done(i)'
<1>1. kind' = kind
  BY DEF session
<1>2. Evaluated(i)' <=> Evaluated(i)
  BY SlotPrimes DEF Evaluated
<1>3. Coarse(samples[i], batch[i])' <=> Coarse(samples[i], batch[i])
  BY SlotPrimes
<1>4. (Fresh(i) => Fresh(i)') /\ (Simulated(i) => Simulated(i)')
  BY <1>2, <1>3 DEF Fresh, Simulated
<1> QED
  BY <1>1, <1>2, <1>4 DEF Awaiting, Done

\* A batch that does not change stays as it is.
LEMMA BatchStays ==
    ASSUME RunOK, BatchOK, UNCHANGED <<session, best, device, phase, todo>>
    PROVE  BatchOK'
<1>1. UNCHANGED <<session, best, batch>> /\ samples' = samples /\ status' = status
      /\ phase' = phase /\ todo' = todo
  BY DEF device
<1>2. Seeded' = Seeded
  BY <1>1 DEF Seeded
<1>3. ASSUME NEW i \in 1..Len(batch)
      PROVE  /\ phase' = "Simulate" => IF i \in todo' THEN Fresh(i)' ELSE Simulated(i)'
             /\ phase' = "Refine" => IF i \in todo' THEN Awaiting(i)' ELSE Done(i)'
             /\ phase' \in {"Reduce", "Finalize"} => Done(i)'
  BY <1>1, SlotStays DEF BatchOK
<1> QED
  BY <1>1, <1>2, <1>3 DEF BatchOK

\* The incumbent taken from another session is the baseline's.
LEMMA SeedFacts ==
    ASSUME RunOK, Seed.valid
    PROVE  /\ IsOf(Seed, Baseline) /\ Seed \in Samples /\ Seed.of = Baseline
           /\ kind = "finish" => Seed.precise
<1> DEFINE whole == Wholes[Baseline]
           s == Seed
<1>1. Baseline \in Cands
  BY DEF Cands
<1>2. /\ whole = Alone(Baseline) /\ IsOf(whole, Baseline)
      /\ kind = "finish" => (whole.precise <=> whole.valid)
  BY <1>1, WholeIsOf
<1>3. whole \in DeviceSample(Cands, Int, Nat, Nat)
  BY <1>2 DEF IsOf, Samples
<1>4. s = [whole EXCEPT !.slot = NoSlot, !.order = 0]
  BY <1>2 DEF Seed
<1> HIDE DEF whole, s
<1>5. /\ s.valid = whole.valid /\ s.of = whole.of /\ s.score = whole.score
      /\ s.objectives = whole.objectives /\ s.time = whole.time
      /\ s.tick = whole.tick /\ s.events = whole.events /\ s.precise = whole.precise
  BY <1>3, <1>4 DEF DeviceSample
<1>6. NoSlot \in Nat \cup {NoSlot} /\ 0 \in Nat
  OBVIOUS
<1>7. s \in Samples
  BY <1>3, <1>4, <1>6 DEF Samples, DeviceSample
<1>8. Found(s) = Found(whole)
  BY <1>5 DEF Found
<1>9. s.valid
  BY DEF s
<1>10. IsOf(s, Baseline) /\ s.of = Baseline
  BY <1>2, <1>5, <1>7, <1>8, <1>9 DEF IsOf
<1>11. kind = "finish" => s.precise
  BY <1>2, <1>5, <1>9
<1> QED
  BY <1>7, <1>10, <1>11 DEF s

LEMMA InitIInv == Init => IInv
<1> SUFFICES ASSUME Init PROVE IInv
  OBVIOUS
<1>1. RunOK
  BY DEF Init, RunOK, Cands
<1>2. /\ best = NoSample \/ (best = Seed /\ best.valid)
      /\ bestInputs = Baseline /\ bestState = Uninitialised /\ Baseline \in Cands
      /\ ideal = best /\ known = best /\ ~tainted /\ ~withheld /\ phase = "Idle"
  BY DEF Init, Cands
<1>3. /\ IsOf(best, Baseline) /\ best \in Samples /\ best.of = Baseline
      /\ kind = "finish" => (best.precise <=> best.valid)
  <2>1. CASE best = NoSample
    <3>1. IsOf(NoSample, Baseline)
      BY NothingIsOf
    <3> QED
      BY <2>1, <3>1, NoSampleIsSample DEF NoSample
  <2>2. CASE best = Seed /\ best.valid
    BY <1>1, <2>2, SeedFacts
  <2> QED
    BY <1>2, <2>1, <2>2
<1>4. IncumbentOK
  <2>1. best.valid => best = Seed
    BY <1>2 DEF NoSample
  <2> QED
    BY <1>2, <1>3, <2>1 DEF IncumbentOK
<1>5. IdealOK
  <2>1. ~Improves(best, best)
    BY <1>3, ImprovesFacts
  <2>2. best.score \in Int /\ best.valid \in BOOLEAN /\ best.precise \in BOOLEAN
    <3>1. best \in DeviceSample(Cands, Int, Nat, Nat)
      BY <1>3 DEF Samples
    <3>2. best.valid \in BOOLEAN /\ best.precise \in BOOLEAN
      BY <3>1, Zenon DEF DeviceSample
    <3> QED
      BY <1>3, <3>2, Numbers
  <2>3. Twins(best, best) /\ SameResult(best, best)
    BY DEF Twins, SameResult
  <2>4. kind = "finish" => best.precise = best.valid
    BY <1>3, <2>2
  <2> QED
    BY <1>2, <1>3, <2>1, <2>2, <2>3, <2>4 DEF IdealOK
<1>6. KnownOK
  BY <1>2 DEF KnownOK
<1>7. /\ status = <<>> /\ flag = "Down" /\ run[Baseline].generated = "Mutated"
      /\ tainted = FALSE /\ withheld = FALSE
  BY DEF Init
<1> QED
  BY <1>1, <1>2, <1>4, <1>5, <1>6, <1>7 DEF IInv, InFlight

\* What a step that is not of the reduction or the return has to keep.
LEMMA StepKeeps ==
    ASSUME IInv, UNCHANGED <<session, incumbent, history, known, withheld>>,
           phase # "Return", phase' \in InFlight, phase' # "Finalize",
           flag' \in {"Down", "Before", "During"}, BatchOK'
    PROVE  IInv'
<1>1. UNCHANGED <<session, best, bestInputs, bestState>> /\ ideal' = ideal /\ tainted' = tainted
      /\ known' = known /\ withheld' = withheld
  BY DEF incumbent, history
<1>2. tainted' \in BOOLEAN /\ withheld' \in BOOLEAN
  BY <1>1 DEF IInv
<1>3. /\ RunOK' /\ run'[Baseline].generated = "Mutated"
      /\ IncumbentOK' /\ IdealOK'
  BY <1>1, <1>2, HistoryStays
<1>4. phase' # "Return" /\ phase' # "Idle"
  BY DEF InFlight
<1>5. KnownOK'
  BY <1>1, <1>4 DEF IInv, KnownOK
<1> QED
  BY <1>2, <1>3, <1>4, <1>5 DEF IInv, InFlight

\* A batch starts with fresh slots and the incumbent as its seed.
LEMMA LaunchStep ==
    ASSUME IInv, NEW chosen \in Seq(Cands), NEW polled \in BOOLEAN, Launch(chosen, polled)
    PROVE  IInv'
<1> DEFINE n == Len(chosen)
<1>1. /\ phase = "Idle" /\ batch' = chosen /\ phase' = "Simulate"
      /\ status' = [s \in DOMAIN chosen |-> "Success"]
      /\ samples' = [s \in DOMAIN chosen \cup {0} |-> IF s = 0 THEN Seeded ELSE NoSample]
      /\ todo' = DOMAIN chosen
      /\ flag' = IF polled THEN "Before" ELSE "Down"
      /\ UNCHANGED <<session, incumbent, history, known, withheld>>
  BY DEF Launch, answer
<1>2. n \in Nat /\ DOMAIN chosen = 1..n /\ DOMAIN chosen \cup {0} = 0..n
  OBVIOUS
<1>3. Seeded' = Seeded
  BY <1>1 DEF Seeded, incumbent
<1>4. /\ status' = [i \in 1..n |-> status'[i]]
      /\ samples' = [i \in 0..n |-> samples'[i]]
      /\ samples'[0] = Seeded
      /\ \A i \in 1..n : samples'[i] = NoSample /\ status'[i] = "Success"
  <2>1. 0 \in 0..n /\ \A i \in 1..n : i \in 0..n /\ i # 0
    BY <1>2
  <2> HIDE DEF n
  <2> QED
    BY <1>1, <1>2, <2>1
<1>5. \A i \in 1..n : Fresh(i)'
  BY <1>4 DEF Fresh
<1>6. BatchOK'
  BY <1>1, <1>2, <1>3, <1>4, <1>5 DEF BatchOK
<1> QED
  BY <1>1, <1>6, StepKeeps DEF InFlight

LEMMA RequestCancellationStep ==
    ASSUME IInv, RequestCancellation
    PROVE  IInv'
<1>1. /\ phase \in {"Simulate", "Refine"} /\ flag' = "During"
      /\ UNCHANGED <<session, incumbent, device, phase, todo, history, known, withheld>>
  BY DEF RequestCancellation, answer
<1>2. BatchOK'
  BY <1>1, BatchStays DEF IInv, InFlight, incumbent
<1> QED
  BY <1>1, <1>2, StepKeeps DEF InFlight

\* Where a slot may be cut off is a number of ticks.
LEMMA CutFacts ==
    ASSUME flag \in {"Down", "Before", "During"}, NEW from \in Nat, NEW to \in Int,
           NEW cut \in Cuts(Polls(from, to))
    PROVE  cut \in Nat
<1> DEFINE polls == Polls(from, to)
<1>1. polls \in SUBSET Nat
  BY DEF Polls
<1>2. Never \in Nat
  BY ConstantFacts DEF Never
<1> HIDE DEF polls
<1>3. polls # {} => Min(polls) \in Nat
  BY <1>1, MinFacts
<1>4. cut \in Cuts(polls)
  BY DEF polls
<1> QED
  BY <1>1, <1>2, <1>3, <1>4 DEF Cuts

\* A slot of a kernel changes nothing of the others.
LEMMA SlotStep ==
    ASSUME IInv, phase \in {"Simulate", "Refine"}, NEW s \in todo,
           UNCHANGED <<session, incumbent, history, known, withheld, batch, phase, flag>>,
           todo' = todo \ {s},
           status' = [status EXCEPT ![s] = status'[s]],
           samples' = [samples EXCEPT ![s] = samples'[s]],
           IF phase = "Simulate" THEN Simulated(s)' ELSE Done(s)'
    PROVE  IInv'
<1> DEFINE n == Len(batch)
<1>1. /\ BatchOK /\ RunOK /\ n \in Nat /\ s \in 1..n /\ n' = n
      /\ status = [i \in 1..n |-> status[i]] /\ samples = [i \in 0..n |-> samples[i]]
      /\ UNCHANGED <<session, best, batch>> /\ phase' = phase /\ todo' \subseteq 1..n
  BY DEF IInv, InFlight, BatchOK, incumbent
<1>2. Seeded' = Seeded
  BY <1>1 DEF Seeded
<1>3. /\ status' = [i \in 1..n |-> status'[i]]
      /\ samples' = [i \in 0..n |-> samples'[i]]
      /\ samples'[0] = samples[0]
      /\ \A i \in 1..n : i # s => samples'[i] = samples[i] /\ status'[i] = status[i]
  <2>1. 0 \in 0..n /\ s # 0 /\ \A i \in 1..n : i \in 0..n
    BY <1>1
  <2> HIDE DEF n
  <2>2. DOMAIN status = 1..n /\ DOMAIN samples = 0..n
    BY <1>1
  <2> QED
    BY <2>1, <2>2
<1>4. ASSUME NEW i \in 1..n
      PROVE  /\ phase' = "Simulate" => IF i \in todo' THEN Fresh(i)' ELSE Simulated(i)'
             /\ phase' = "Refine" => IF i \in todo' THEN Awaiting(i)' ELSE Done(i)'
             /\ phase' \in {"Reduce", "Finalize"} => Done(i)'
  <2>1. CASE i = s
    BY <1>1, <2>1
  <2>2. CASE i # s
    <3>1. /\ Fresh(i) => Fresh(i)'
          /\ Simulated(i) => Simulated(i)'
          /\ Awaiting(i) => Awaiting(i)'
          /\ Done(i) => Done(i)'
      BY <1>1, <1>3, <2>2, SlotStays
    <3>2. /\ phase = "Simulate" => IF i \in todo THEN Fresh(i) ELSE Simulated(i)
          /\ phase = "Refine" => IF i \in todo THEN Awaiting(i) ELSE Done(i)
      BY <1>1 DEF BatchOK
    <3> QED
      BY <1>1, <2>2, <3>1, <3>2
  <2> QED
    BY <2>1, <2>2
<1>5. BatchOK'
  BY <1>1, <1>2, <1>3, <1>4 DEF BatchOK
<1> QED
  BY <1>5, StepKeeps DEF IInv, InFlight

\* A simulated slot holds a sample of its candidate, or none.
LEMMA SimulateStep ==
    ASSUME IInv, NEW s, Simulate(s)
    PROVE  IInv'
<1>1. /\ phase = "Simulate" /\ s \in todo /\ todo' = todo \ {s}
      /\ UNCHANGED <<session, incumbent, history, known, withheld, batch, phase, flag>>
  BY DEF Simulate, answer
<1>2. PICK cut \in Cuts(Polls(0, Ticks - 1)) :
        /\ status' = [status EXCEPT ![s] = Outcome(batch[s], s - 1, cut, samples[0]).status]
        /\ samples' = [samples EXCEPT ![s] = Outcome(batch[s], s - 1, cut, samples[0]).sample]
  BY DEF Simulate
<1> DEFINE c == batch[s]
           left == Outcome(c, s - 1, cut, samples[0])
<1>3. /\ RunOK /\ BatchOK /\ s \in 1..Len(batch) /\ Len(batch) \in Nat /\ c \in Cands
      /\ samples[0] = Seeded /\ DOMAIN status = 1..Len(batch)
      /\ DOMAIN samples = 0..Len(batch) /\ IsOf(best, bestInputs)
  BY <1>1 DEF IInv, InFlight, BatchOK, IncumbentOK
<1>4. cut \in Nat /\ s - 1 \in Nat
  <2> DEFINE to == Ticks - 1
  <2>1. to \in Int /\ 0 \in Nat /\ cut \in Cuts(Polls(0, to))
    BY ConstantFacts
  <2>2. flag \in {"Down", "Before", "During"}
    BY DEF IInv
  <2> HIDE DEF to
  <2>3. cut \in Nat
    BY <2>1, <2>2, CutFacts
  <2> QED
    BY <1>3, <2>3
<1>5. samples[0].precise = best.precise /\ samples[0].time = best.time
  BY <1>3, SeededFacts DEF IsOf
<1>6. /\ IsOf(left.sample, c) /\ InSlot(left.sample, s - 1) /\ Coarse(left.sample, c)
      /\ left.status = "Success" => Agrees(left.sample, c)
  <2> HIDE DEF c
  <2> QED
    BY <1>3, <1>4, <1>5, OutcomeFacts
<1>7. samples'[s] = left.sample /\ status'[s] = left.status
  <2> HIDE DEF left
  <2>1. s \in DOMAIN status /\ s \in DOMAIN samples
    BY <1>3
  <2> QED
    BY <1>2, <2>1 DEF left
<1> HIDE DEF left, c
<1>8. Simulated(s)'
  <2>1. UNCHANGED <<session, best, batch>>
    BY <1>1 DEF incumbent
  <2> QED
    BY <1>3, <1>6, <1>7, <2>1, SlotPrimes DEF Simulated, c
<1>9. /\ status' = [status EXCEPT ![s] = status'[s]]
      /\ samples' = [samples EXCEPT ![s] = samples'[s]]
  BY <1>2, <1>7 DEF left, c
<1> QED
  BY <1>1, <1>8, <1>9, SlotStep

\* Only valid finishes of slots that succeeded await refinement.
LEMMA FinishesSimulationStep ==
    ASSUME IInv, FinishesSimulation
    PROVE  IInv'
<1> DEFINE n == Len(batch)
<1>1. /\ phase = "Simulate" /\ todo = {} /\ phase' = "Refine"
      /\ todo' = IF kind # "finish" THEN {}
                 ELSE {s \in Slots : samples[s].valid /\ status[s] = "Success"}
      /\ UNCHANGED <<session, incumbent, history, known, withheld, device, flag>>
  BY DEF FinishesSimulation, answer
<1>2. /\ RunOK /\ BatchOK /\ Slots = 1..n /\ UNCHANGED <<session, best, batch>>
      /\ samples' = samples /\ status' = status
  BY <1>1 DEF IInv, InFlight, BatchOK, Slots, incumbent, device
<1>3. ASSUME NEW i \in 1..n PROVE IF i \in todo' THEN Awaiting(i)' ELSE Done(i)'
  <2>1. Simulated(i)
    BY <1>1, <1>2 DEF BatchOK
  <2>2. CASE i \in todo'
    <3>1. Awaiting(i)
      BY <1>1, <2>1, <2>2 DEF Awaiting
    <3> QED
      BY <1>2, <2>2, <3>1, SlotStays
  <2>3. CASE i \notin todo'
    <3>1. kind # "finish" \/ ~samples[i].valid \/ status[i] # "Success"
      BY <1>1, <1>2, <2>3
    <3>2. samples[i].valid \in BOOLEAN /\ samples[i].precise \in BOOLEAN /\ ~samples[i].precise
      <4>1. samples[i] \in DeviceSample(Cands, Int, Nat, Nat)
        BY <2>1 DEF Simulated, Evaluated, IsOf, Samples
      <4>2. samples[i].valid \in BOOLEAN /\ samples[i].precise \in BOOLEAN
        BY <4>1, Zenon DEF DeviceSample
      <4> QED
        BY <2>1, <4>2 DEF Simulated, Coarse
    <3>3. Done(i)
      BY <2>1, <3>1, <3>2 DEF Simulated, Done
    <3> QED
      BY <1>2, <2>3, <3>3, SlotStays
  <2> QED
    BY <2>2, <2>3
<1>4. Seeded' = Seeded
  BY <1>2 DEF Seeded
<1>5. BatchOK'
  BY <1>1, <1>2, <1>3, <1>4 DEF BatchOK
<1> QED
  BY <1>1, <1>5, StepKeeps DEF IInv, InFlight

\* A finish that is dropped is no better than the incumbent.
LEMMA TooLateIsBeaten ==
    ASSUME IInv, phase = "Refine", NEW s \in todo, TooLate(samples[s])
    PROVE  best.precise /\ best.score <= FineTimes[batch[s]]
<1> DEFINE c == batch[s]
           x == samples[s]
           m == Min(Reported(c))
           ns == (m - 1) * NsPerTick
<1>1. /\ RunOK /\ BatchOK /\ Awaiting(s) /\ s \in 1..Len(batch) /\ c \in Cands
      /\ samples[0] = Seeded /\ IsOf(best, bestInputs)
  BY DEF IInv, InFlight, BatchOK, IncumbentOK
<1>2. /\ IsOf(x, c) /\ Coarse(x, c) /\ x.valid /\ kind = "finish"
  BY <1>1 DEF Awaiting, Simulated, Evaluated
<1>3. /\ Seeded.precise = best.precise /\ Seeded.time = best.time /\ Seeded.score = best.score
      /\ best \in Samples
  BY <1>1, SeededFacts DEF IsOf
<1>4. best.precise /\ best.time = best.score /\ best.score \in Int
  BY <1>1, <1>3, Numbers DEF TooLate, FarBehind, IsOf
<1>5. /\ Reported(c) # {} /\ x.tick + 1 = m
      /\ x.time = (Prestart + (x.tick + 1) * TickMs) * NsPerMs
  <2> HIDE DEF x
  <2>1. Reports[c] = Reported(c)
    BY <1>1 DEF Reports
  <2> QED
    BY <1>2, <2>1 DEF Coarse
<1>6. FineTime(c) \in Int /\ m * NsPerTick <= FineTime(c) /\ FineTimes[c] = FineTime(c)
  <2>1. FineTimes[c] = FineTime(c)
    BY <1>1 DEF FineTimes
  <2> HIDE DEF c
  <2> QED
    BY <1>1, <1>2, <1>5, <2>1, FinishIsFirst
<1>7. x.of = c /\ x.tick \in 0..(Ticks - 1)
  <2> HIDE DEF x, c
  <2> QED
    BY <1>2 DEF IsOf
<1>8. x.time - (Prestart + TickMs) * NsPerMs = ns
  <2>1. \A p \in Nat, t \in Nat, k \in Nat, j \in Nat :
            (p + (t + 1) * k) * j - (p + k) * j = ((t + 1) - 1) * (k * j)
    OBVIOUS
  <2>2. x.tick \in Nat /\ Prestart \in Nat /\ TickMs \in Nat /\ NsPerMs \in Nat
    BY <1>7, ConstantFacts
  <2>3. x.tick + 1 = m
    BY <1>5
  <2> HIDE DEF x, m
  <2>4. ((x.tick + 1) - 1) * (TickMs * NsPerMs) = (m - 1) * (TickMs * NsPerMs)
    BY <2>3
  <2> QED
    BY <1>5, <2>1, <2>2, <2>4 DEF NsPerTick
<1>9. \/ x.time - (Prestart + TickMs) * NsPerMs >= best.time
      \/ FineTime(x.of) >= best.score
  <2> HIDE DEF x
  <2>1. \/ x.time - (Prestart + TickMs) * NsPerMs >= Seeded.time
        \/ FineTime(x.of) >= Seeded.score
    BY <1>1 DEF TooLate, FarBehind, x
  <2> QED
    BY <1>3, <2>1
<1>10. ns \in Int /\ ns <= m * NsPerTick /\ m * NsPerTick \in Int
  <2>1. m \in Nat
    <3> HIDE DEF x, m
    <3> QED
      BY <1>5, <1>7, ConstantFacts
  <2>2. NsPerTick \in Nat
    BY ConstantFacts
  <2>3. \A a \in Nat, b \in Nat : (a - 1) * b = a * b - b /\ a * b \in Int
    OBVIOUS
  <2> HIDE DEF m
  <2> QED
    BY <2>1, <2>2, <2>3
<1> DEFINE early == x.time - (Prestart + TickMs) * NsPerMs
           fine == m * NsPerTick
<1>11. FineTime(x.of) = FineTime(c)
  BY <1>7
<1>12. early = ns /\ (early >= best.time \/ FineTime(c) >= best.score)
  BY <1>8, <1>9, <1>11
<1>13. ns \in Int /\ fine \in Int /\ ns <= fine /\ fine <= FineTime(c)
  BY <1>6, <1>10
<1> HIDE DEF early, fine, ns, m, x, c
<1> QED
  BY <1>4, <1>6, <1>12, <1>13 DEF c

\* A refined slot is done: its time is the instant of the finish.
LEMMA RefineStep ==
    ASSUME IInv, NEW s, Refine(s)
    PROVE  IInv'
<1> DEFINE c == batch[s]
           x == samples[s]
<1>1. /\ phase = "Refine" /\ s \in todo /\ todo' = todo \ {s}
      /\ UNCHANGED <<session, incumbent, history, known, withheld, batch, phase, flag>>
  BY DEF Refine, answer
<1>2. \/ /\ status' = [status EXCEPT ![s] = "Cancelled"]
         /\ UNCHANGED samples
      \/ /\ status' = [status EXCEPT ![s] = "UnsupportedPhysicsTransition"]
         /\ UNCHANGED samples
      \/ /\ samples' = [samples EXCEPT ![s] = IF TooLate(x) THEN NoSample ELSE Refined(x)]
         /\ UNCHANGED status
  BY DEF Refine
<1>3. /\ RunOK /\ BatchOK /\ Awaiting(s) /\ s \in 1..Len(batch) /\ c \in Cands
      /\ DOMAIN status = 1..Len(batch) /\ DOMAIN samples = 0..Len(batch)
      /\ status = [i \in 1..Len(batch) |-> status[i]]
      /\ samples = [i \in 0..Len(batch) |-> samples[i]]
      /\ s \in 0..Len(batch) /\ UNCHANGED <<session, best, batch>>
  BY <1>1 DEF IInv, InFlight, BatchOK, incumbent
<1>4. /\ IsOf(x, c) /\ InSlot(x, s - 1) /\ Coarse(x, c) /\ x.valid /\ kind = "finish"
      /\ status[s] = "Success" /\ Agrees(x, c)
  BY <1>3 DEF Awaiting, Simulated, Evaluated
<1>5. ASSUME status'[s] # "Success", samples' = samples PROVE Done(s)'
  <2>1. Evaluated(s)'
    BY <1>3, <1>4, <1>5, SlotPrimes
  <2> QED
    BY <1>5, <2>1 DEF Done
<1>6. CASE \/ status' = [status EXCEPT ![s] = "Cancelled"] /\ UNCHANGED samples
           \/ status' = [status EXCEPT ![s] = "UnsupportedPhysicsTransition"] /\ UNCHANGED samples
  <2>1. status'[s] # "Success" /\ samples' = samples
    BY <1>3, <1>6
  <2>2. Done(s)'
    BY <1>5, <2>1
  <2>3. /\ status' = [status EXCEPT ![s] = status'[s]]
        /\ samples' = [samples EXCEPT ![s] = samples'[s]]
    BY <1>3, <1>6, <2>1
  <2> QED
    BY <1>1, <2>2, <2>3, SlotStep
<1>7. CASE /\ samples' = [samples EXCEPT ![s] = IF TooLate(x) THEN NoSample ELSE Refined(x)]
           /\ UNCHANGED status
  <2> DEFINE y == IF TooLate(x) THEN NoSample ELSE Refined(x)
  <2>1. samples'[s] = y /\ status' = status /\ kind' = kind
    <3> HIDE DEF y
    <3>1. samples' = [samples EXCEPT ![s] = y]
      BY <1>7 DEF y
    <3> QED
      BY <1>3, <1>7, <3>1 DEF session
  <2>2. run[c].generated = "Mutated" /\ Wholes[c].valid
    BY <1>4 DEF Agrees
  <2>3. Wholes[c].score = FineTimes[c]
    <3>1. IsOf(Wholes[c], c) /\ (Wholes[c].precise <=> Wholes[c].valid)
      <4> HIDE DEF c
      <4> QED
        BY <1>3, <1>4, WholeIsOf
    <3> QED
      BY <1>4, <2>2, <3>1 DEF IsOf, Found
  <2>4. /\ IsOf(y, c) /\ InSlot(y, s - 1) /\ Agrees(y, c)
        /\ y.precise = y.valid
    <3>1. CASE TooLate(x)
      <4>1. best.precise /\ best.score <= Wholes[c].score
        BY <1>1, <2>3, <3>1, TooLateIsBeaten
      <4>2. ~NoSample.valid /\ NoSample.precise = NoSample.valid
        BY DEF NoSample
      <4>3. Agrees(NoSample, c)
        BY <1>4, <2>2, <4>1, <4>2 DEF Agrees
      <4>4. y = NoSample
        BY <3>1
      <4> HIDE DEF y
      <4> QED
        BY <4>2, <4>3, <4>4, NothingIsOf
    <3>2. CASE ~TooLate(x)
      <4>1. Reported(c) # {}
        <5>1. Reports[c] # {} /\ Reports[c] = Reported(c)
          BY <1>3, <1>4 DEF Coarse, Reports
        <5> QED
          BY <5>1
      <4>2. /\ IsOf(Refined(x), c) /\ InSlot(Refined(x), s - 1)
            /\ Refined(x).valid /\ Refined(x).precise
        <5> HIDE DEF x, c
        <5> QED
          BY <1>3, <1>4, <4>1, RefinedFacts
      <4>3. Refined(x).valid \in BOOLEAN /\ Refined(x).precise \in BOOLEAN
        <5>1. Refined(x) \in DeviceSample(Cands, Int, Nat, Nat)
          BY <4>2 DEF IsOf, Samples
        <5> QED
          BY <5>1, Zenon DEF DeviceSample
      <4>4. y = Refined(x)
        BY <3>2
      <4> HIDE DEF y, x, c
      <4>5. Agrees(y, c)
        BY <1>4, <2>2, <4>2, <4>4 DEF Agrees
      <4> QED
        BY <4>2, <4>3, <4>4, <4>5
    <3> QED
      BY <3>1, <3>2
  <2> HIDE DEF y
  <2>5. Evaluated(s)'
    BY <1>3, <2>1, <2>4, SlotPrimes
  <2>6. Done(s)'
    BY <2>1, <2>4, <2>5 DEF Done
  <2>7. /\ status' = [status EXCEPT ![s] = status'[s]]
        /\ samples' = [samples EXCEPT ![s] = samples'[s]]
    BY <1>3, <1>7, <2>1 DEF y
  <2> QED
    BY <1>1, <2>6, <2>7, SlotStep
<1> QED
  BY <1>2, <1>6, <1>7

LEMMA FinishesRefinementStep ==
    ASSUME IInv, FinishesRefinement
    PROVE  IInv'
<1>1. /\ phase = "Refine" /\ todo = {} /\ phase' = "Reduce" /\ todo' = todo
      /\ UNCHANGED <<session, incumbent, history, known, withheld, device, flag>>
  BY DEF FinishesRefinement, answer
<1>2. /\ RunOK /\ BatchOK /\ UNCHANGED <<session, best, batch>>
      /\ samples' = samples /\ status' = status
  BY <1>1 DEF IInv, InFlight, incumbent, device
<1>3. ASSUME NEW i \in 1..Len(batch) PROVE Done(i)'
  BY <1>1, <1>2, SlotStays DEF BatchOK
<1>4. Seeded' = Seeded
  BY <1>2 DEF Seeded
<1>5. BatchOK'
  BY <1>1, <1>2, <1>3, <1>4 DEF BatchOK
<1> QED
  BY <1>1, <1>5, StepKeeps DEF IInv, InFlight

\* The winner of the reduction is the end of the walk.
LEMMA ReduceStep ==
    ASSUME IInv, Reduce
    PROVE  IInv'
<1>1. /\ phase = "Reduce" /\ winner' \in Winners /\ phase' = "Finalize"
      /\ captured' = IF winner'.valid /\ winner'.slot # NoSlot
                     THEN <<batch[winner'.slot + 1], winner'.tick>> ELSE captured
      /\ todo' = todo
      /\ UNCHANGED <<session, incumbent, history, known, withheld, device, flag>>
  BY DEF Reduce, answer
<1>2. /\ RunOK /\ BatchOK /\ UNCHANGED <<session, best, batch>>
      /\ samples' = samples /\ status' = status /\ batch' = batch /\ kind' = kind
  BY <1>1 DEF IInv, InFlight, incumbent, device, session
<1>3. Ready /\ SamplesOK
  <2>1. Ready
    BY <1>1, <1>2 DEF IInv, Ready
  <2> QED
    BY <2>1, BatchFacts
<1>4. ASSUME NEW i \in 1..Len(batch) PROVE Done(i)'
  BY <1>1, <1>2, SlotStays DEF BatchOK
<1>5. Seeded' = Seeded
  BY <1>2 DEF Seeded
<1>6. BatchOK'
  BY <1>1, <1>2, <1>4, <1>5 DEF BatchOK
<1>7. WinnerOK'
  <2>1. ASSUME NEW h, Walks(h)' PROVE Stands(winner', h[Len(batch)])
    <3>1. Walks(h)
      <4>1. \A a, b : Improves(a, b)' <=> Improves(a, b)
        BY <1>2 DEF Improves, Maximize
      <4>2. ASSUME NEW i PROVE Improves(samples[i], h[i - 1])' <=> Improves(samples[i], h[i - 1])
        BY <1>2 DEF Improves, Maximize
      <4> QED
        BY <1>2, <2>1, <4>2 DEF Walks
    <3> QED
      BY <1>1, <1>3, <3>1, WinnerIsWalk
  <2>2. ASSUME NEW h, Walks(h)' PROVE Stands(winner, h[Len(batch)])'
    BY <1>2, <2>1, <2>2 DEF Stands
  <2>3. winner'.valid /\ winner'.slot # NoSlot =>
            captured' = <<batch'[winner'.slot + 1], winner'.tick>>
    BY <1>1, <1>2
  <2> QED
    BY <2>2, <2>3 DEF WinnerOK
<1>8. UNCHANGED <<session, best, bestInputs, bestState>> /\ ideal' = ideal /\ tainted' = tainted
      /\ known' = known /\ withheld' = withheld
  BY <1>1 DEF incumbent, history
<1>9. tainted' \in BOOLEAN /\ withheld' \in BOOLEAN
  BY <1>8 DEF IInv
<1>10. /\ RunOK' /\ run'[Baseline].generated = "Mutated"
       /\ IncumbentOK' /\ IdealOK'
  BY <1>8, <1>9, HistoryStays
<1>11. KnownOK'
  BY <1>1, <1>8 DEF IInv, KnownOK
<1> QED
  BY <1>1, <1>6, <1>7, <1>9, <1>10, <1>11 DEF IInv, InFlight

\* A batch of which nothing failed has only successful slots.
LEMMA SuccessIsOfAll ==
    ASSUME Ready, BatchStatus = "Success"
    PROVE  AllSucceed
<1> DEFINE S == {s \in Slots : status[s] # "Success"}
           below == {Len(batch) - s : s \in S}
<1>1. Len(batch) \in Nat /\ Slots = 1..Len(batch)
  BY BatchFacts
<1>2. S = {}
  <2> SUFFICES ASSUME S # {} PROVE FALSE
    OBVIOUS
  <2>1. \A s \in S : s \in Nat /\ Len(batch) - s \in Nat
    BY <1>1
  <2>2. \E s \in S : \A y \in S : s >= y
    <3>1. below \in SUBSET Nat /\ below # {}
      BY <2>1
    <3>2. PICK x \in below : \A y \in below : x <= y
      <4> HIDE DEF below
      <4> QED
        BY <3>1, Least
    <3>3. PICK s \in S : x = Len(batch) - s
      BY <3>2
    <3>4. ASSUME NEW y \in S PROVE s >= y
      <4>1. Len(batch) - s <= Len(batch) - y
        BY <3>2, <3>3
      <4> HIDE DEF S
      <4> QED
        BY <1>1, <2>1, <4>1
    <3> QED
      BY <3>4
  <2>3. Max(S) \in S
    <3> HIDE DEF S
    <3> QED
      BY <2>2 DEF Max
  <2>4. BatchStatus = status[Max(S)]
    BY DEF BatchStatus
  <2> QED
    BY <2>3, <2>4
<1> QED
  BY <1>1, <1>2 DEF AllSucceed

\* The incumbent after a batch, its inputs and its state.
LEMMA FinalizeIncumbent ==
    ASSUME IInv, Finalize
    PROVE  IncumbentOK' /\ IsOf(best', bestInputs') /\ best' = After
<1>1. /\ phase = "Finalize" /\ best' = After
      /\ bestInputs' = (IF Wins THEN batch[winner.slot + 1] ELSE bestInputs)
      /\ bestState' = (IF Wins THEN captured ELSE bestState)
      /\ UNCHANGED session
  BY DEF Finalize, TakeWinner, After
<1>2. Ready /\ WinnerOK /\ IncumbentOK /\ RunOK
  BY <1>1 DEF IInv, Ready, InFlight
<1>3. PICK h : Walks(h)
  BY <1>2, BatchFacts, WalkExists
<1>4. Stands(winner, h[Len(batch)])
  BY <1>2, <1>3 DEF WinnerOK
<1>5. /\ IncumbentOK' <=>
            /\ bestInputs' \in Cands
            /\ IsOf(best', bestInputs')
            /\ best'.valid => IF bestState' = Uninitialised THEN best' = Seed
                              ELSE bestState' = <<best'.of, best'.tick>>
  <2>1. /\ kind' = kind /\ run' = run /\ FineTimes' = FineTimes /\ Seed' = Seed
    BY <1>1, <1>2, RunsStay
  <2>2. IsOf(best, bestInputs)' <=> IsOf(best', bestInputs')
    BY <2>1 DEF IsOf, Found
  <2> QED
    BY <2>1, <2>2 DEF IncumbentOK
<1>6. CASE ~Wins
  <2>1. best' = best /\ bestInputs' = bestInputs /\ bestState' = bestState
    BY <1>1, <1>6 DEF After
  <2>2. IsOf(best', bestInputs')
    BY <1>2, <2>1 DEF IncumbentOK
  <2> QED
    BY <1>1, <1>2, <1>5, <2>1, <2>2 DEF IncumbentOK
<1>7. CASE Wins
  <2>1. PICK i \in 1..Len(batch) : winner = samples[i] /\ winner.slot + 1 = i
    BY <1>2, <1>3, <1>4, <1>7, FinalWinner
  <2>2. batch[i] \in Cands /\ IsOf(samples[i], batch[i])
    BY <1>2, BatchFacts DEF Done, Evaluated
  <2>3. /\ best' = samples[i] /\ bestInputs' = batch[i]
        /\ bestState' = <<batch[i], samples[i].tick>>
    <3>1. winner.valid /\ winner.slot # NoSlot
      BY <1>7 DEF Wins
    <3>2. captured = <<batch[i], samples[i].tick>>
      BY <1>2, <2>1, <3>1 DEF WinnerOK
    <3> QED
      BY <1>1, <1>7, <2>1, <3>2 DEF After
  <2>4. bestState' # Uninitialised
    BY <2>3 DEF Uninitialised
  <2>5. best'.valid => bestState' = <<best'.of, best'.tick>>
    BY <2>2, <2>3 DEF IsOf
  <2> QED
    BY <1>1, <1>5, <2>2, <2>3, <2>4, <2>5
<1> QED
  BY <1>6, <1>7

\* The ideal best after a batch stands to the incumbent as before it.
LEMMA FinalizeIdeal ==
    ASSUME IInv, Finalize
    PROVE  IdealOK'
<1> DEFINE n == Len(batch)
<1>1. /\ phase = "Finalize" /\ ideal' = IdealAfterBatch /\ UNCHANGED session
      /\ tainted' = (tainted \/ BatchStatus # "Success")
  BY DEF Finalize
<1>2. /\ Ready /\ WinnerOK /\ RunOK /\ IdealOK /\ ideal \in Samples
      /\ IsOf(ideal, ideal.of)
  BY <1>1 DEF IInv, Ready, InFlight, IdealOK, IsOf
<1>3. best' = After /\ IsOf(best', bestInputs')
  BY FinalizeIncumbent
<1>4. PICK h : Walks(h)
  BY <1>2, BatchFacts, WalkExists
<1>5. PICK g : IdealWalks(g) /\ ideal' = g[n]
  BY <1>1, <1>2, IdealWalkExists
<1>6. /\ n \in Nat /\ n \in 0..n /\ h[n] \in Samples /\ g[n] \in Samples
  BY <1>2, <1>4, <1>5, BatchFacts DEF Walks, IdealWalks
<1>7. /\ After \in Samples /\ Twins(After, h[n]) /\ After.precise = h[n].precise
  <2>1. Stands(winner, h[n])
    BY <1>2, <1>4 DEF WinnerOK
  <2> HIDE DEF n
  <2> QED
    BY <1>2, <1>4, <2>1, AfterFacts DEF n
<1>8. /\ kind' = kind /\ run' = run /\ FineTimes' = FineTimes
  BY <1>1, <1>2, RunsStay
<1>9. ~tainted' => ~tainted /\ AllSucceed
  BY <1>1, <1>2, SuccessIsOfAll
<1>10. IsOf(g[n], g[n].of)
  <2>1. CASE g[n] = ideal
    BY <1>2, <2>1
  <2>2. ASSUME NEW i \in Counted, g[n] = AloneIn(i), IdeallyImproves(AloneIn(i), ideal)
        PROVE  IsOf(g[n], g[n].of)
    <3>1. i \in 1..n
      BY DEF Counted
    <3>2. AloneIn(i) \in Samples /\ (AloneIn(i).valid => IsOf(AloneIn(i), batch[i]))
      BY <1>2, <3>1, AloneInFacts
    <3>3. AloneIn(i).valid
      BY <1>2, <2>2, <3>2, ImprovesFacts DEF IdeallyImproves
    <3> HIDE DEF AloneIn
    <3>4. AloneIn(i).of = batch[i]
      BY <3>2, <3>3 DEF IsOf
    <3> QED
      BY <2>2, <3>2, <3>3, <3>4
  <2> QED
    BY <1>2, <1>5, <1>6, <2>1, <2>2, IdealWalkFacts
<1>11. IsOf(ideal, ideal.of)' <=> IsOf(ideal', ideal'.of)
  BY <1>8 DEF IsOf, Found
<1>12. Improves(ideal, best)' <=> Improves(ideal', best')
  BY <1>8 DEF Improves, Maximize
<1>13. SameResult(best, ideal)' <=> SameResult(best', ideal')
  BY <1>8 DEF SameResult
<1>14. Twins(best, ideal)' <=> Twins(best', ideal')
  BY DEF Twins
<1>15. CASE kind # "finish"
  <2>1. ~Improves(ideal, best) /\ (~tainted => Twins(best, ideal))
    BY <1>2, <1>15 DEF IdealOK
  <2>2. /\ ~Improves(g[n], h[n])
        /\ ~tainted' => Twins(h[n], g[n])
    BY <1>2, <1>4, <1>5, <1>9, <1>15, <2>1, IdealStands
  <2>3. Twins(g[n], g[n])
    BY DEF Twins
  <2>4. ~Improves(g[n], After)
    BY <1>6, <1>7, <2>2, <2>3, TwinsImprove
  <2>5. ~tainted' => Twins(After, g[n])
    BY <1>7, <2>2 DEF Twins
  <2> QED
    BY <1>3, <1>5, <1>8, <1>10, <1>11, <1>12, <1>14, <1>15, <2>4, <2>5 DEF IdealOK
<1>16. CASE kind = "finish"
  <2>1. /\ ideal.valid => best.valid /\ best.score <= ideal.score
        /\ ~tainted => SameResult(best, ideal) /\ best.precise = best.valid
    BY <1>2, <1>16 DEF IdealOK
  <2>2. best.score \in Int /\ ideal.score \in Int
    BY <1>2, BatchFacts, Numbers
  <2>3. ~tainted => /\ best.precise <=> best.valid
                    /\ best.valid => ideal.valid /\ ideal.score <= best.score
    BY <2>1, <2>2 DEF SameResult
  <2>4. /\ g[n].valid => h[n].valid /\ h[n].score <= g[n].score
        /\ ~tainted' => /\ h[n].valid => g[n].valid /\ g[n].score <= h[n].score
                        /\ h[n].precise <=> h[n].valid
    <3> HIDE DEF n
    <3> QED
      BY <1>2, <1>4, <1>5, <1>9, <1>16, <2>1, <2>3, IdealFinishStands DEF n
  <2>5. /\ After.valid = h[n].valid /\ (h[n].valid => After.score = h[n].score)
    BY <1>7 DEF Twins
  <2>6. g[n].score \in Int /\ h[n].score \in Int
    BY <1>6, Numbers
  <2>7. /\ g[n].valid \in BOOLEAN /\ After.valid \in BOOLEAN /\ After.precise \in BOOLEAN
    <3>1. g[n] \in DeviceSample(Cands, Int, Nat, Nat)
          /\ After \in DeviceSample(Cands, Int, Nat, Nat)
      BY <1>6, <1>7 DEF Samples
    <3> QED
      BY <3>1, Zenon DEF DeviceSample
  <2>8. After.objectives = None /\ g[n].objectives = None
    BY <1>3, <1>10, <1>16 DEF IsOf
  <2>9. g[n].valid => After.valid /\ After.score <= g[n].score
    BY <2>4, <2>5
  <2>10. ASSUME ~tainted' PROVE SameResult(After, g[n]) /\ After.precise = After.valid
    <3>1. After.valid <=> g[n].valid
      BY <2>4, <2>5, <2>10
    <3>2. After.valid => After.score = g[n].score
      BY <2>4, <2>5, <2>6, <2>10
    <3>3. After.precise <=> After.valid
      BY <1>7, <2>4, <2>5, <2>10
    <3>4. After.valid = g[n].valid /\ After.precise = After.valid
      BY <2>7, <3>1, <3>3
    <3> QED
      BY <1>16, <2>8, <3>2, <3>4 DEF SameResult
  <2> QED
    BY <1>3, <1>5, <1>8, <1>10, <1>11, <1>13, <1>16, <2>9, <2>10 DEF IdealOK
<1> QED
  BY <1>15, <1>16

\* What the batch says of the incumbent is what the caller does not know.
LEMMA FinalizeStep ==
    ASSUME IInv, Finalize
    PROVE  IInv'
<1> DEFINE n == Len(batch)
<1>1. /\ phase = "Finalize" /\ phase' = "Return" /\ known' = known /\ withheld' = withheld
      /\ summary' = [status |-> BatchStatus, changed |-> Wins,
                     improvements |-> IF IsBaseline THEN 0 ELSE Improvements]
      /\ tainted' = (tainted \/ BatchStatus # "Success")
      /\ flag' = flag /\ UNCHANGED <<session, batch>>
  BY DEF Finalize, device
<1>2. Ready /\ WinnerOK /\ RunOK
  BY <1>1 DEF IInv, Ready, InFlight
<1>3. PICK h : Walks(h)
  BY <1>2, BatchFacts, WalkExists
<1>4. /\ best' = After /\ (Wins <=> After # best)
      /\ Wins <=> Improves(h[n], samples[0])
  <2>1. Stands(winner, h[n])
    BY <1>2, <1>3 DEF WinnerOK
  <2>2. best' = After
    BY FinalizeIncumbent
  <2> HIDE DEF n
  <2> QED
    BY <1>2, <1>3, <2>1, <2>2, AfterFacts DEF n
<1>5. Improvements > 0 <=> Wins
  <2> HIDE DEF n
  <2> QED
    BY <1>2, <1>3, <1>4, BatchFacts, CountFacts DEF n
<1>6. summary'.changed = Wins /\ (~IsBaseline => summary'.improvements = Improvements)
  BY <1>1
<1>7. KnownOK'
  <2>1. ~withheld => known = best
    BY <1>1 DEF IInv, KnownOK
  <2>2. IsBaseline' <=> IsBaseline
    BY <1>1 DEF IsBaseline
  <2>3. ~withheld' => (summary'.changed <=> best' # known')
    BY <1>1, <1>4, <1>6, <2>1
  <2>4. ~IsBaseline' => (summary'.changed <=> summary'.improvements > 0)
    BY <1>5, <1>6, <2>2
  <2> QED
    BY <1>1, <2>3, <2>4 DEF KnownOK
<1>8. RunOK' /\ run'[Baseline].generated = "Mutated"
  BY <1>1, <1>2, RunsStay DEF IInv
<1>9. tainted' \in BOOLEAN /\ withheld' \in BOOLEAN
  BY <1>1 DEF IInv
<1>10. flag' \in {"Down", "Before", "During"}
  BY <1>1 DEF IInv
<1> QED
  BY <1>1, <1>7, <1>8, <1>9, <1>10, FinalizeIncumbent, FinalizeIdeal DEF IInv, InFlight

\* Between two batches.
LEMMA IdleKeeps ==
    ASSUME IInv, UNCHANGED <<session, best, bestInputs, bestState>>, ideal' = ideal,
           tainted' \in BOOLEAN, tainted => tainted', withheld' \in BOOLEAN,
           phase' = "Idle", status' = <<>>, flag' \in {"Down", "Before", "During"},
           ~withheld' => known' = best
    PROVE  IInv'
<1>1. /\ RunOK' /\ run'[Baseline].generated = "Mutated"
      /\ IncumbentOK' /\ IdealOK'
  BY HistoryStays
<1>2. KnownOK'
  BY DEF KnownOK
<1> QED
  BY <1>1, <1>2 DEF IInv, InFlight

\* What is handed over is known, what is not is withheld.
LEMMA ReturnStep ==
    ASSUME IInv, Return
    PROVE  IInv'
<1>1. /\ phase = "Return" /\ phase' = "Idle" /\ status' = <<>> /\ flag' = "Down"
      /\ UNCHANGED <<session, best, bestInputs, bestState>>
      /\ ideal' = ideal /\ tainted' = tainted
      /\ IF summary.status \in Handed THEN known' = best /\ withheld' = FALSE
         ELSE withheld' = (withheld \/ summary.changed) /\ known' = known
  BY DEF Return, ForgetsBatch, history
<1>2. /\ tainted \in BOOLEAN
      /\ ~withheld => (summary.changed <=> best # known)
  BY <1>1 DEF IInv, KnownOK
<1>3. withheld' \in BOOLEAN /\ (~withheld' => known' = best)
  BY <1>1, <1>2
<1> QED
  BY <1>1, <1>2, <1>3, IdleKeeps

LEMMA LaunchFailsStep ==
    ASSUME IInv, LaunchFails
    PROVE  IInv'
<1>1. /\ phase = "Reduce" /\ phase' = "Idle" /\ status' = <<>> /\ flag' = "Down"
      /\ UNCHANGED <<session, best, bestInputs, bestState>>
      /\ ideal' = ideal /\ tainted' = TRUE /\ withheld' = withheld /\ known' = known
  BY DEF LaunchFails, DeviceFailure, ForgetsBatch, incumbent
<1>2. withheld \in BOOLEAN /\ (~withheld => known = best)
  BY <1>1 DEF IInv, KnownOK
<1> QED
  BY <1>1, <1>2, IdleKeeps

LEMMA CopyFailsStep ==
    ASSUME IInv, CopyFails
    PROVE  IInv'
<1>1. /\ phase = "Return" /\ phase' = "Idle" /\ status' = <<>> /\ flag' = "Down"
      /\ UNCHANGED <<session, best, bestInputs, bestState>>
      /\ ideal' = ideal /\ tainted' = tainted /\ known' = known
      /\ withheld' = (withheld \/ summary.changed)
  BY DEF CopyFails, DeviceFailure, ForgetsBatch, incumbent, history
<1>2. /\ tainted \in BOOLEAN
      /\ ~withheld => (summary.changed <=> best # known)
  BY <1>1 DEF IInv, KnownOK
<1>3. withheld' \in BOOLEAN /\ (~withheld' => known' = best)
  BY <1>1, <1>2
<1> QED
  BY <1>1, <1>2, <1>3, IdleKeeps

LEMMA IdleStep ==
    ASSUME IInv, UNCHANGED <<session, incumbent, device, phase, flag, answer, history>>,
           phase = "Idle"
    PROVE  IInv'
<1>1. /\ phase' = "Idle" /\ status' = status /\ flag' = flag
      /\ UNCHANGED <<session, best, bestInputs, bestState>>
      /\ ideal' = ideal /\ tainted' = tainted /\ known' = known /\ withheld' = withheld
  BY DEF incumbent, device, answer, history
<1>2. /\ tainted \in BOOLEAN /\ withheld \in BOOLEAN /\ status = <<>>
      /\ flag \in {"Down", "Before", "During"} /\ (~withheld => known = best)
  BY DEF IInv, KnownOK
<1> QED
  BY <1>1, <1>2, IdleKeeps

\* Nothing changes.
LEMMA StutteringStep ==
    ASSUME IInv, UNCHANGED vars
    PROVE  IInv'
<1>1. /\ UNCHANGED <<session, best, bestInputs, bestState, batch, device, phase, todo>>
      /\ status' = status /\ samples' = samples /\ batch' = batch
      /\ phase' = phase /\ flag' = flag /\ winner' = winner /\ captured' = captured
      /\ summary' = summary /\ known' = known /\ withheld' = withheld
      /\ ideal' = ideal /\ tainted' = tainted
  BY DEF vars, incumbent, device, answer, history
<1>2. tainted' \in BOOLEAN /\ withheld' \in BOOLEAN /\ flag' \in {"Down", "Before", "During"}
  BY <1>1 DEF IInv
<1>3. /\ RunOK' /\ run'[Baseline].generated = "Mutated"
      /\ IncumbentOK' /\ IdealOK'
  BY <1>1, <1>2, HistoryStays
<1>4. KnownOK'
  BY <1>1 DEF IInv, KnownOK, IsBaseline
<1>5. phase' \in InFlight => BatchOK'
  BY <1>1, BatchStays DEF IInv
<1>6. phase' = "Finalize" => WinnerOK'
  <2> SUFFICES ASSUME phase = "Finalize" PROVE WinnerOK'
    BY <1>1
  <2>1. WinnerOK /\ kind' = kind
    BY <1>1 DEF IInv, session
  <2>2. ASSUME NEW h, Walks(h)' PROVE Stands(winner, h[Len(batch)])'
    <3>1. ASSUME NEW i
          PROVE  Improves(samples[i], h[i - 1])' <=> Improves(samples[i], h[i - 1])
      BY <1>1, <2>1 DEF Improves, Maximize
    <3>2. Walks(h)
      BY <1>1, <2>2, <3>1 DEF Walks
    <3>3. Stands(winner, h[Len(batch)])
      BY <2>1, <3>2 DEF WinnerOK
    <3> QED
      BY <1>1, <3>3 DEF Stands
  <2> QED
    BY <1>1, <2>1, <2>2 DEF WinnerOK
<1> QED
  BY <1>1, <1>2, <1>3, <1>4, <1>5, <1>6 DEF IInv

LEMMA RunBatchStep ==
    ASSUME IInv, NEW first \in Candidates, NEW count \in 1..MaxCapacity,
           RunBatch(first, count)
    PROVE  IInv'
<1> DEFINE chosen == [s \in 1..count |-> first + s - 1]
<1>1. PICK polled \in BOOLEAN : Launch(chosen, polled)
  BY DEF RunBatch
<1>2. first..(first + count - 1) \subseteq Candidates /\ count \in Nat /\ first \in Nat
  <2>1. Candidates \subseteq Nat /\ MaxCapacity \in Nat
    BY SearchAssumption
  <2>2. first..(first + count - 1) \subseteq Candidates
    BY DEF RunBatch
  <2> QED
    BY <2>1, <2>2
<1>3. \A s \in 1..count : chosen[s] \in Cands
  BY <1>2 DEF Cands
<1>4. chosen \in Seq(Cands)
  BY <1>2, <1>3
<1> HIDE DEF chosen
<1> QED
  BY <1>1, <1>4, LaunchStep

\* Every action keeps the invariant.
LEMMA NextStep == IInv /\ [Next]_vars => IInv'
<1> SUFFICES ASSUME IInv, [Next]_vars PROVE IInv'
  OBVIOUS
<1>1. CASE EvaluateBaseline
  <2>1. PICK polled \in BOOLEAN : Launch(<<Baseline>>, polled)
    BY <1>1 DEF EvaluateBaseline
  <2>2. <<Baseline>> \in Seq(Cands)
    BY DEF Cands
  <2> QED
    BY <2>1, <2>2, LaunchStep
<1>2. CASE \E first \in Candidates, count \in 1..MaxCapacity : RunBatch(first, count)
  BY <1>2, RunBatchStep
<1>3. CASE \E count \in 1..MaxCapacity : ReserveBatchCapacity(count)
  BY <1>3, IdleStep DEF ReserveBatchCapacity
<1>4. CASE RequestCancellation
  BY <1>4, RequestCancellationStep
<1>5. CASE \E s \in Slots : Simulate(s) \/ Refine(s)
  BY <1>5, SimulateStep, RefineStep
<1>6. CASE FinishesSimulation
  BY <1>6, FinishesSimulationStep
<1>7. CASE FinishesRefinement
  BY <1>7, FinishesRefinementStep
<1>8. CASE Reduce
  BY <1>8, ReduceStep
<1>9. CASE Finalize
  BY <1>9, FinalizeStep
<1>10. CASE Return
  BY <1>10, ReturnStep
<1>11. CASE LaunchFails
  BY <1>11, LaunchFailsStep
<1>12. CASE CopyFails
  BY <1>12, CopyFailsStep
<1>13. CASE Finished \/ UNCHANGED vars
  BY <1>13, StutteringStep DEF Finished
<1> QED
  BY <1>1, <1>2, <1>3, <1>4, <1>5, <1>6, <1>7, <1>8, <1>9, <1>10, <1>11, <1>12, <1>13
     DEF Next

(* The inductive invariant holds in every reachable state, for every set   *)
(* of candidates, all their runs and every order of the kernels' slots.    *)
THEOREM SessionInvariance == Spec => []IInv
<1> QED
  BY InitIInv, NextStep, PTL DEF Spec

-----------------------------------------------------------------------------
(* The properties of the runs.                                             *)

(* The incumbent is only replaced by a sample that improves it.            *)
THEOREM IncumbentOnlyImproves == Spec => IncumbentNeverWorsens
<1>1. ASSUME IInv, [Next]_vars
      PROVE  best.valid => best' = best \/ Improves(best', best)
  <2>1. CASE Finalize
    <3>1. best' = After /\ Ready /\ WinnerOK
      BY <1>1, <2>1, FinalizeIncumbent DEF Finalize, IInv, Ready, InFlight
    <3>2. PICK h : Walks(h)
      BY <3>1, BatchFacts, WalkExists
    <3>3. Stands(winner, h[Len(batch)])
      BY <3>1, <3>2 DEF WinnerOK
    <3> QED
      BY <3>1, <3>2, <3>3, AfterFacts
  <2>2. CASE ~Finalize
    <3>1. best' = best
      BY <1>1, <2>2 DEF Next, EvaluateBaseline, RunBatch, Launch, ReserveBatchCapacity,
            RequestCancellation, Simulate, Refine, FinishesSimulation, FinishesRefinement,
            Reduce, Return, LaunchFails, CopyFails, DeviceFailure, Finished, vars, incumbent
    <3> QED
      BY <3>1
  <2> QED
    BY <2>1, <2>2
<1>2. IInv /\ [Next]_vars => [best.valid => best' = best \/ Improves(best', best)]_vars
  BY <1>1
<1> QED
  BY <1>2, SessionInvariance, PTL DEF Spec, IncumbentNeverWorsens

(* What a batch that is handed over says of the incumbent is what the      *)
(* caller does not know yet, although the improvements are counted slot    *)
(* after slot and the winner is reduced in any order.                      *)
THEOREM CallerHearsOfChanges == Spec => ChangesAreAnnounced
<1> DEFINE Announced == /\ ~withheld => (summary.changed <=> best # known)
                        /\ ~IsBaseline => (summary.changed <=> summary.improvements > 0)
<1>1. IInv /\ [Next]_vars => [Return /\ summary.status \in Handed => Announced]_vars
  BY DEF IInv, KnownOK, Return
<1> QED
  BY <1>1, SessionInvariance, PTL DEF Spec, ChangesAreAnnounced

(* Pruning, slots, batch sizes, cancellations and the order of the         *)
(* reduction change nothing of the best between batches.                   *)
THEOREM BestIsTheIdealBest == Spec => []BestIsIdealBest
<1>1. ASSUME IInv PROVE BestIsIdealBest
  <2> SUFFICES ASSUME phase = "Idle", kind = "finish" /\ best.valid => best.precise
               PROVE  /\ ~IdeallyImproves(ideal, best)
                      /\ ~tainted => SameResult(best, ideal)
    BY DEF BestIsIdealBest
  <2>1. CASE kind # "finish"
    <3>1. ~Improves(ideal, best) /\ (~tainted => Twins(best, ideal))
      BY <1>1, <2>1 DEF IInv, IdealOK
    <3> QED
      BY <2>1, <3>1 DEF IdeallyImproves, SameResult, Twins
  <2>2. CASE kind = "finish"
    <3>1. /\ ideal.valid => best.valid /\ best.score <= ideal.score
          /\ ~tainted => SameResult(best, ideal)
          /\ best \in Samples /\ ideal \in Samples
      BY <1>1, <2>2 DEF IInv, IdealOK, IncumbentOK, IsOf
    <3>2. best.score \in Int /\ ideal.score \in Int
      BY <3>1, Numbers
    <3> QED
      BY <2>2, <3>1, <3>2 DEF IdeallyImproves
  <2> QED
    BY <2>1, <2>2
<1> QED
  BY <1>1, SessionInvariance, PTL

(* Inputs, events, score and state of the incumbent are one candidate's,   *)
(* whatever failed or was cut off since.                                   *)
THEOREM IncumbentBelongsTogether == Spec => []BestBelongsTogether
<1>1. ASSUME IInv PROVE BestBelongsTogether
  <2> SUFFICES ASSUME best.valid, phase = "Idle"
               PROVE  /\ bestInputs = best.of
                      /\ best.events = run[best.of].events
                      /\ best.score = ValueAt(best.of, best.tick)
                      /\ IF bestState = Uninitialised THEN best = Seed
                         ELSE bestState = <<best.of, best.tick>>
    BY DEF BestBelongsTogether
  <2>1. /\ bestInputs \in Cands /\ best.of = bestInputs
        /\ best.events = run[bestInputs].events /\ best.score = Found(best)
        /\ IF bestState = Uninitialised THEN best = Seed
           ELSE bestState = <<best.of, best.tick>>
    BY <1>1 DEF IInv, IncumbentOK, IsOf
  <2>2. Found(best) = ValueAt(best.of, best.tick)
    BY <2>1 DEF Found, ValueAt, FineTimes
  <2> QED
    BY <2>1, <2>2
<1> QED
  BY <1>1, SessionInvariance, PTL
=============================================================================
