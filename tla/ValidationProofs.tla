-------------------------- MODULE ValidationProofs --------------------------
(***************************************************************************)
(* The report is true of the run, for every replay, run and setting of the *)
(* constants: a replay is valid exactly if its run reproduced it, sample by *)
(* sample and in the outcome; the reason given for a rejection is one; the *)
(* recorded outcome is the one reported where it counts; the scan of the   *)
(* samples ends at the first that diverges, and says which that is; and an *)
(* estimated finish time lies in the tick that finished the race.          *)
(***************************************************************************)
EXTENDS Validation, FiniteSetTheorems, WellFoundedInduction, TLAPS

-----------------------------------------------------------------------------
(* The least and the greatest of two.                                      *)

LEMMA MinOfTwo ==
    ASSUME NEW a \in Int, NEW b \in Int
    PROVE  Min({a, b}) = IF a <= b THEN a ELSE b
<1>1. \E x \in {a, b} : \A y \in {a, b} : x =< y
  OBVIOUS
<1>2. Min({a, b}) \in {a, b} /\ \A y \in {a, b} : Min({a, b}) =< y
  BY <1>1 DEF Min
<1> QED
  BY <1>2

LEMMA MaxOfTwo ==
    ASSUME NEW a \in Int, NEW b \in Int
    PROVE  Max({a, b}) = IF a >= b THEN a ELSE b
<1>1. \E x \in {a, b} : \A y \in {a, b} : x >= y
  OBVIOUS
<1>2. Max({a, b}) \in {a, b} /\ \A y \in {a, b} : Max({a, b}) >= y
  BY <1>1 DEF Max
<1> QED
  BY <1>2

LEMMA LeastIndex ==
    ASSUME NEW S \in SUBSET Nat, S # {}
    PROVE  Min(S) \in S /\ \A i \in S : Min(S) <= i
<1>1. PICK k \in S : \A i \in S : ~(<<i, k>> \in OpToRel(<, Nat))
  BY NatLessThanWellFounded, WFMin
<1>2. \A i \in S : <<i, k>> \in OpToRel(<, Nat) <=> i < k
  BY DEF OpToRel
<1>3. \A i \in S : ~(i < k)
  BY <1>1, <1>2, Zenon
<1>4. \A i \in S : k =< i
  BY <1>3
<1> QED
  BY <1>4 DEF Min

LEMMA LeastIs ==
    ASSUME NEW S \in SUBSET Nat, NEW k \in S, \A i \in S : k <= i
    PROVE  Min(S) = k
<1> DEFINE m == Min(S)
<1>1. m \in S /\ \A i \in S : m <= i
  BY LeastIndex
<1> HIDE DEF m
<1>2. m \in Nat /\ k \in Nat /\ m <= k /\ k <= m
  BY <1>1
<1>3. m = k
  BY <1>2
<1> QED
  BY <1>3 DEF m

\* The row taken applies, and none before it does.
LEMMA FirstRow ==
    ASSUME NEW n \in Nat \ {0}, NEW rows, DOMAIN rows = 1..n, rows[n].when
    PROVE  \E i \in 1..n : /\ FirstOf(rows) = rows[i] /\ rows[i].when
                           /\ \A j \in 1..(i - 1) : ~rows[j].when
<1> DEFINE S == {i \in 1..n : rows[i].when}
<1>1. S \in SUBSET Nat /\ S # {}
  OBVIOUS
<1>2. FirstOf(rows) = rows[Min(S)]
  BY DEF FirstOf
<1>3. Min(S) \in S /\ \A j \in S : Min(S) <= j
  BY <1>1, LeastIndex
<1>4. \A j \in 1..(Min(S) - 1) : ~rows[j].when
  BY <1>3
<1> QED
  BY <1>2, <1>3, <1>4

-----------------------------------------------------------------------------
(* What is known of a run before it is evaluated.                          *)

\* A record of the fields of run, of sim; whatever they are.
IsRun(r) ==
    r = [finish |-> r.finish, first |-> r.first, estimate |-> r.estimate,
         respawns |-> r.respawns, score |-> r.score, atLimit |-> r.atLimit,
         observations |-> r.observations]

Estimates(t) == {NoEstimate} \cup Brackets(t)

RunInv ==
    /\ clock \in Nat
    /\ IsRun(run)
    /\ run.respawns \in Nat
    /\ \/ run.finish = NoValue /\ run.estimate = NoEstimate
       \/ /\ run.finish \in Prestart..clock
          /\ run.first \in Nat /\ run.first >= Prestart
          /\ run.estimate \in Estimates(run.first)

IsScan(s) ==
    s = [status |-> s.status, outcome |-> s.outcome, wrong |-> s.wrong,
         measured |-> s.measured, exact |-> s.exact, max |-> s.max,
         maxAt |-> s.maxAt, firstDivergence |-> s.firstDivergence,
         firstExact |-> s.firstExact]

\* The scan of an evaluated run, and the status it has come to.
ScanInv ==
    /\ IsScan(scan)
    /\ \/ scan.status = "Valid"
       \/ scan.status = "WrongSimulation" /\ scan.outcome = "WrongSimulation"
       \/ scan.status = "ObservationError" /\ scan.outcome = "Error"

\* The outcome evaluated is the run's, or the recorded one put over it.
SimInv ==
    pc = "evaluate" =>
        IF replay.mode = "Stunts"
        THEN /\ run.score \in Scores /\ run.atLimit \in OrNone(Scores)
             /\ sim = RecordedOutcome(Penalised(run))
        ELSE sim = RecordedOutcome(run)

IInv ==
    /\ replay \in Replays
    /\ pc \in {"classify", "simulate", "evaluate", "done", "failed"}
    /\ pc = "classify" => clock = 0
    /\ RunInv /\ SimInv /\ ScanInv
    /\ pc \in {"classify", "simulate", "evaluate"} => report = NotReported

LEMMA ConstantsType ==
    /\ Tick \in Nat \ {0} /\ Prestart \in Nat \ {0} /\ NsPerMs \in Nat \ {0}
    /\ PenaltyUnit \in Nat \ {0} /\ Threshold \in Nat \ {0}
    /\ Tolerance \in Nat /\ RespawnLimit \in Nat /\ StuntsLimit \in Nat
    /\ Scores \subseteq Nat /\ Distances \subseteq Nat
  BY ValidationAssumption

LEMMA ReplayType ==
    ASSUME replay \in Replays
    PROVE  /\ replay \in Replay /\ replay.mode \in Modes
           /\ replay.compatible \in BOOLEAN /\ replay.scripted \in BOOLEAN
           /\ replay.finish \in OrNone(Nat) /\ replay.raceTime \in OrNone(Nat)
           /\ replay.score \in OrNone(Nat) /\ replay.respawns \in OrNone(Nat)
           /\ replay.presses \in Nat
<1>1. replay \in Replay
  BY ValidationAssumption
<1> QED
  BY <1>1 DEF Replay

LEMMA IInvInit == Init => IInv
  BY DEF Init, IInv, RunInv, SimInv, ScanInv, NotRun, NotScanned, IsRun, IsScan

\* A finish is never before the race has started, and its bracket is of the
\* tick of the first one.
LEMMA FinishStaysInRace ==
    ASSUME RunInv, NEW t \in Nat, clock <= t, NEW r \in FinishChoices(t)
    PROVE  /\ IsRun(r) /\ r.respawns = run.respawns
           /\ \/ r.finish = NoValue /\ r.estimate = NoEstimate
              \/ /\ r.finish \in Prestart..t
                 /\ r.first \in Nat /\ r.first >= Prestart
                 /\ r.estimate \in Estimates(r.first)
<1>c. Prestart \in Nat
  BY ConstantsType
<1>1. CASE run.finish = NoValue
  <2>1. \/ r = run
        \/ /\ t >= Prestart
           /\ \E b \in Brackets(t) :
                r = [run EXCEPT !.finish = t, !.first = t, !.estimate = b]
    BY <1>1 DEF FinishChoices
  <2>2. CASE r = run
    BY <1>c, <2>2 DEF RunInv
  <2>3. ASSUME t >= Prestart, NEW b \in Brackets(t),
               r = [run EXCEPT !.finish = t, !.first = t, !.estimate = b]
        PROVE  /\ IsRun(r) /\ r.respawns = run.respawns
               /\ r.finish \in Prestart..t /\ r.first \in Nat /\ r.first >= Prestart
               /\ r.estimate \in Estimates(r.first)
    <3>1. /\ IsRun(r) /\ r.respawns = run.respawns
          /\ r.finish = t /\ r.first = t /\ r.estimate = b
      BY <2>3 DEF RunInv, IsRun
    <3>2. b \in Estimates(t)
      BY DEF Estimates
    <3>3. t \in Prestart..t
      BY <1>c, <2>3
    <3> QED
      BY <3>1, <3>2, <3>3, <2>3
  <2> QED
    BY <2>1, <2>2, <2>3
<1>2. CASE run.finish # NoValue
  <2>1. r = run \/ r = [run EXCEPT !.finish = t]
    BY <1>2 DEF FinishChoices
  <2>2. CASE r = run
    BY <1>c, <2>2 DEF RunInv
  <2>3. CASE r = [run EXCEPT !.finish = t]
    <3>1. /\ IsRun(r) /\ r.respawns = run.respawns
          /\ r.finish = t /\ r.first = run.first /\ r.estimate = run.estimate
      BY <2>3 DEF RunInv, IsRun
    <3> QED
      BY <1>c, <1>2, <3>1 DEF RunInv
  <2> QED
    BY <2>1, <2>2, <2>3
<1> QED
  BY <1>1, <1>2

\* A tick of the simulation.
LEMMA TickKeepsRun ==
    ASSUME IInv, SimulateTick
    PROVE  RunInv'
<1>1. PICK r \in FinishChoices(clock'), extra \in 0..1 :
        \/ run' = [r EXCEPT !.respawns = @ + extra]
        \/ \E o \in Observation(clock', r) :
             run' = [r EXCEPT !.respawns = @ + extra,
                              !.observations = Append(@, o)]
  BY DEF SimulateTick
<1>2. clock' \in Nat /\ clock <= clock'
  <2>1. clock \in Nat /\ clock' = clock + Tick
    BY DEF SimulateTick, IInv, RunInv
  <2>2. Tick \in Nat
    BY ConstantsType
  <2> QED
    BY <2>1, <2>2
<1>3. /\ IsRun(r) /\ r.respawns = run.respawns
      /\ \/ r.finish = NoValue /\ r.estimate = NoEstimate
         \/ /\ r.finish \in Prestart..clock'
            /\ r.first \in Nat /\ r.first >= Prestart
            /\ r.estimate \in Estimates(r.first)
  BY <1>2, FinishStaysInRace DEF IInv
<1>4. /\ IsRun(run') /\ run'.respawns = r.respawns + extra
      /\ run'.finish = r.finish /\ run'.first = r.first
      /\ run'.estimate = r.estimate
  <2>1. CASE run' = [r EXCEPT !.respawns = @ + extra]
    BY <1>3, <2>1 DEF IsRun
  <2>2. ASSUME NEW o, run' = [r EXCEPT !.respawns = @ + extra,
                                       !.observations = Append(@, o)]
        PROVE  /\ IsRun(run') /\ run'.respawns = r.respawns + extra
               /\ run'.finish = r.finish /\ run'.first = r.first
               /\ run'.estimate = r.estimate
    BY <1>3, <2>2 DEF IsRun
  <2> QED
    BY <1>1, <2>1, <2>2
<1>5. run'.respawns \in Nat
  BY <1>3, <1>4 DEF IInv, RunInv
<1>6. RunInv' <=>
        /\ clock' \in Nat /\ IsRun(run') /\ run'.respawns \in Nat
        /\ \/ run'.finish = NoValue /\ run'.estimate = NoEstimate
           \/ /\ run'.finish \in Prestart..clock'
              /\ run'.first \in Nat /\ run'.first >= Prestart
              /\ run'.estimate \in Estimates(run'.first)
  BY DEF RunInv, IsRun, Estimates, Brackets, Nanosecond, NoEstimate
<1> QED
  BY <1>2, <1>3, <1>4, <1>5, <1>6

LEMMA IInvStep == IInv /\ [Next]_vars => IInv'
<1> SUFFICES ASSUME IInv, [Next]_vars
             PROVE  IInv'
  OBVIOUS
<1> USE DEF IInv
<1>k. ASSUME UNCHANGED <<replay, clock, run>>
      PROVE  RunInv' /\ replay' \in Replays
  BY <1>k DEF RunInv, IsRun, Estimates, Brackets, Nanosecond, NoEstimate
<1>s. ASSUME UNCHANGED scan
      PROVE  ScanInv'
  BY <1>s DEF ScanInv, IsScan
<1>1. CASE Classify
  <2>1. UNCHANGED <<replay, clock, run, scan>> /\ pc' \in {"simulate", "done"}
    BY <1>1 DEF Classify, ReportAs
  <2>2. pc' = "simulate" => report' = NotReported
    BY <1>1 DEF Classify, ReportAs, NotReported, NoEstimate
  <2> QED
    BY <1>k, <1>s, <2>1, <2>2 DEF SimInv, NotReported, NoEstimate
<1>2. CASE NoMapStart
  BY <1>k, <1>s, <1>2 DEF NoMapStart, ReportAs, SimInv
<1>3. CASE Fail
  BY <1>k, <1>s, <1>3 DEF Fail, SimInv
<1>4. CASE SimulateTick
  <2>1. UNCHANGED <<replay, scan, report, pc>> /\ pc = "simulate"
    BY <1>4 DEF SimulateTick
  <2> QED
    BY <1>s, <1>4, <2>1, TickKeepsRun DEF SimInv, NotReported, NoEstimate
<1>5. CASE EndSimulation
  <2>1. /\ UNCHANGED <<replay, clock, scan, report>>
        /\ pc = "simulate" /\ pc' = "evaluate"
    BY <1>5 DEF EndSimulation
  <2>2. CASE replay.mode # "Stunts" /\ run' = run /\ sim' = RecordedOutcome(run)
    <3>1. SimInv'
      BY <2>1, <2>2 DEF SimInv, RecordedOutcome, NoEstimate
    <3> QED
      BY <1>k, <1>s, <2>1, <2>2, <3>1 DEF NotReported, NoEstimate
  <2>3. ASSUME NEW score \in Scores, NEW atLimit \in OrNone(Scores),
               replay.mode = "Stunts",
               run' = [run EXCEPT !.score = score, !.atLimit = atLimit],
               sim' = RecordedOutcome(Penalised(run'))
        PROVE  IInv'
    <3>1. /\ IsRun(run') /\ run'.score = score /\ run'.atLimit = atLimit
          /\ run'.finish = run.finish /\ run'.first = run.first
          /\ run'.estimate = run.estimate /\ run'.respawns = run.respawns
      BY <2>3 DEF RunInv, IsRun
    <3>2. RunInv'
      BY <2>1, <3>1 DEF RunInv, IsRun, Estimates, Brackets, Nanosecond, NoEstimate
    <3>3. SimInv'
      BY <2>1, <2>3, <3>1
         DEF SimInv, RecordedOutcome, Penalised, NoEstimate, OrNone, NoValue
    <3> QED
      BY <1>s, <2>1, <3>2, <3>3 DEF NotReported, NoEstimate
  <2> QED
    BY <1>5, <2>2, <2>3 DEF EndSimulation
<1>6. CASE ScanObservation
  <2>1. /\ UNCHANGED <<replay, clock, run, sim, report, pc>> /\ pc = "evaluate"
        /\ scan.status = "Valid"
        /\ \E d : scan' \in {scan, NotMeasurable, Measured(d)}
    BY <1>6 DEF ScanObservation, Scanning
  <2>2. ScanInv'
    <3>1. CASE scan' = scan
      BY <1>s, <3>1
    <3>2. CASE scan' = NotMeasurable
      BY <3>2 DEF NotMeasurable, ScanInv, IsScan
    <3>3. ASSUME NEW d, scan' = Measured(d)
          PROVE  ScanInv'
      <4>1. IsScan(scan')
        BY <3>3 DEF Measured, ScanInv, IsScan
      <4>2. \/ scan'.status = "Valid"
            \/ scan'.status = "WrongSimulation" /\ scan'.outcome = "WrongSimulation"
        BY <2>1, <3>3 DEF Measured, ScanInv, IsScan
      <4> QED
        BY <4>1, <4>2 DEF ScanInv, IsScan
    <3> QED
      BY <2>1, <3>1, <3>2, <3>3
  <2>3. SimInv'
    BY <2>1 DEF SimInv, RecordedOutcome, Penalised, NoEstimate, OrNone, NoValue
  <2> QED
    BY <1>k, <2>1, <2>2, <2>3 DEF NotReported, NoEstimate
<1>7. CASE Report
  BY <1>k, <1>s, <1>7 DEF Report, SimInv
<1>8. CASE UNCHANGED vars
  <2>1. SimInv'
    BY <1>8 DEF vars, SimInv, RecordedOutcome, Penalised, NoEstimate, OrNone, NoValue
  <2> QED
    BY <1>k, <1>s, <1>8, <2>1 DEF vars, NotReported, NoEstimate
<1> QED
  BY <1>1, <1>2, <1>3, <1>4, <1>5, <1>6, <1>7, <1>8 DEF Next

LEMMA IInvHolds == Spec => []IInv
  BY IInvInit, IInvStep, PTL DEF Spec

-----------------------------------------------------------------------------
(* The outcome that is reported.                                           *)

\* What the simulation, or the inputs it ran, came to.
LEMMA EvaluatedRun ==
    ASSUME IInv, pc = "evaluate"
    PROVE  /\ replay.mode = "Race" => sim = run
           /\ replay.mode # "Race" =>
                /\ sim.finish = IF replay.finish = NoValue THEN NoValue
                                ELSE Prestart + replay.finish
                /\ sim.estimate = NoEstimate
                /\ sim.respawns = replay.presses
           /\ replay.mode = "Stunts" => sim.score = Penalised(run).score
<1>1. /\ replay.mode = "Stunts" => sim = RecordedOutcome(Penalised(run))
      /\ replay.mode # "Stunts" => sim = RecordedOutcome(run)
  BY DEF IInv, SimInv
<1>2. IsRun(run) /\ IsRun(Penalised(run))
  BY DEF IInv, RunInv, IsRun, Penalised
<1>3. ASSUME NEW r, IsRun(r), replay.mode # "Race"
      PROVE  LET s == RecordedOutcome(r)
             IN /\ s.finish = IF replay.finish = NoValue THEN NoValue
                              ELSE Prestart + replay.finish
                /\ s.estimate = NoEstimate
                /\ s.respawns = replay.presses
                /\ s.score = r.score
  BY <1>3 DEF RecordedOutcome, IsRun
<1>4. replay.mode = "Race" => RecordedOutcome(run) = run
  BY DEF RecordedOutcome
<1> QED
  BY <1>1, <1>2, <1>3, <1>4

\* The fields of the outcome, one by one.
LEMMA ActualFields ==
    ASSUME IInv, pc = "evaluate"
    PROVE  /\ Actual.respawns = CountedRespawns
           /\ Actual.score = sim.score
           /\ CountedFinish # NoValue =>
                /\ CountedFinish \in Nat
                /\ Actual.completed /\ Actual.validated = CountedFinish
           /\ replay.mode # "Race" =>
                /\ Actual.completed <=> replay.finish # NoValue
                /\ Actual.validated = replay.finish
                /\ Actual.raceTime = replay.finish
                /\ Actual.estimate = NoEstimate
<1>c. Prestart \in Nat \ {0} /\ NsPerMs \in Nat \ {0}
  BY ConstantsType
<1>r. replay.finish \in Nat \cup {-1}
  BY ReplayType DEF IInv, OrNone, NoValue
<1> DEFINE estimated == sim.estimate.estimated >= Prestart * NsPerMs
           fallback == replay.mode = "Race" /\ ScannedFinish # NoValue
           validated == IF sim.finish >= Prestart THEN sim.finish - Prestart
                        ELSE IF fallback THEN ScannedFinish ELSE NoValue
<1>1. /\ Actual.respawns = Min({sim.respawns, RespawnLimit})
      /\ Actual.score = sim.score
      /\ Actual.validated = validated
      /\ Actual.completed <=> sim.finish # NoValue \/ estimated \/ fallback
      /\ ~estimated => Actual.raceTime = validated /\ Actual.estimate = NoEstimate
  BY DEF Actual
<1>2. CASE replay.mode = "Race"
  <2>1. sim = run
    BY <1>2, EvaluatedRun
  <2>2. Actual.respawns = CountedRespawns
    BY <1>1, <1>2, <2>1 DEF CountedRespawns
  <2>3. CASE run.finish = NoValue
    BY <1>1, <1>2, <2>2, <2>3 DEF CountedFinish
  <2>4. CASE run.finish # NoValue
    <3>1. run.finish \in Nat /\ run.finish >= Prestart
      BY <1>c, <2>4 DEF IInv, RunInv
    <3>2. CountedFinish = run.finish - Prestart
      BY <1>2, <2>4 DEF CountedFinish
    <3>3. Actual.validated = run.finish - Prestart
      BY <1>1, <2>1, <3>1
    <3> QED
      BY <1>1, <1>2, <1>c, <2>1, <2>2, <2>4, <3>1, <3>2, <3>3
  <2> QED
    BY <2>3, <2>4
<1>3. CASE replay.mode # "Race"
  <2>1. /\ sim.finish = IF replay.finish = NoValue THEN NoValue
                        ELSE Prestart + replay.finish
        /\ sim.estimate = NoEstimate /\ sim.respawns = replay.presses
    BY <1>3, EvaluatedRun
  <2>2. ~estimated
    <3>1. Prestart * NsPerMs \in Nat
      BY <1>c
    <3>2. sim.estimate.estimated = -1
      BY <2>1 DEF NoEstimate, NoValue
    <3>3. \A n \in Nat : ~(-1 >= n)
      OBVIOUS
    <3> QED
      BY <3>1, <3>2, <3>3, Zenon
  <2>3. ~fallback
    BY <1>3
  <2>4. /\ validated = replay.finish
        /\ sim.finish # NoValue <=> replay.finish # NoValue
    BY <1>c, <1>r, <2>1, <2>3 DEF NoValue
  <2>5. Actual.respawns = CountedRespawns
    BY <1>1, <1>3, <2>1 DEF CountedRespawns
  <2> QED
    BY <1>1, <1>3, <1>r, <2>2, <2>3, <2>4, <2>5 DEF CountedFinish, NoValue
<1> QED
  BY <1>2, <1>3

-----------------------------------------------------------------------------
(* The verdict, by the early return that made it.                          *)

LEMMA FirstOfSix ==
    ASSUME NEW r1, NEW r2, NEW r3, NEW r4, NEW r5, NEW r6, r6.when
    PROVE  LET row == FirstOf(<<r1, r2, r3, r4, r5, r6>>)
           IN \/ r1.when /\ row = r1
              \/ r2.when /\ row = r2 /\ ~r1.when
              \/ r3.when /\ row = r3 /\ ~r1.when /\ ~r2.when
              \/ r4.when /\ row = r4 /\ ~r1.when /\ ~r2.when
              \/ r5.when /\ row = r5 /\ ~r1.when /\ ~r2.when
              \/ /\ row = r6 /\ ~r1.when /\ ~r2.when /\ ~r3.when
                 /\ ~r4.when /\ ~r5.when
<1> DEFINE rows == <<r1, r2, r3, r4, r5, r6>>
<1>1. /\ DOMAIN rows = 1..6 /\ rows[6].when
      /\ rows[1] = r1 /\ rows[2] = r2 /\ rows[3] = r3
      /\ rows[4] = r4 /\ rows[5] = r5 /\ rows[6] = r6
  OBVIOUS
<1> HIDE DEF rows
<1>2. PICK i \in 1..6 : /\ FirstOf(rows) = rows[i] /\ rows[i].when
                        /\ \A j \in 1..(i - 1) : ~rows[j].when
  <2>1. 6 \in Nat \ {0}
    OBVIOUS
  <2> QED
    BY <1>1, <2>1, FirstRow, Zenon
<1>3. i \in {1, 2, 3, 4, 5, 6}
  OBVIOUS
<1>4. /\ i > 1 => ~r1.when
      /\ i > 2 => ~r2.when
      /\ i > 3 => ~r3.when
      /\ i > 4 => ~r4.when
      /\ i > 5 => ~r5.when
  BY <1>1, <1>2
<1>5. \/ r1.when /\ rows[i] = r1
      \/ r2.when /\ rows[i] = r2 /\ ~r1.when
      \/ r3.when /\ rows[i] = r3 /\ ~r1.when /\ ~r2.when
      \/ r4.when /\ rows[i] = r4 /\ ~r1.when /\ ~r2.when
      \/ r5.when /\ rows[i] = r5 /\ ~r1.when /\ ~r2.when
      \/ /\ rows[i] = r6 /\ ~r1.when /\ ~r2.when /\ ~r3.when
         /\ ~r4.when /\ ~r5.when
  BY <1>1, <1>2, <1>3, <1>4
<1> QED
  BY <1>2, <1>5 DEF rows

\* The row taken of the seven of FinalizeValidation.
LEMMA OneOfSeven ==
    ASSUME NEW r1, NEW r2, NEW r3, NEW r4, NEW r5, NEW r6, NEW r7, r7.when
    PROVE  LET row == FirstOf(<<r1, r2, r3, r4, r5, r6, r7>>)
           IN /\ row \in {r1, r2, r3, r4, r5, r6, r7}
              /\ row.when
<1> DEFINE rows == <<r1, r2, r3, r4, r5, r6, r7>>
<1>1. /\ DOMAIN rows = 1..7 /\ rows[7].when
      /\ \A i \in 1..7 : rows[i] \in {r1, r2, r3, r4, r5, r6, r7}
  OBVIOUS
<1> HIDE DEF rows
<1>2. PICK i \in 1..7 : FirstOf(rows) = rows[i] /\ rows[i].when
  <2>1. 7 \in Nat \ {0}
    OBVIOUS
  <2> QED
    BY <1>1, <2>1, FirstRow, Zenon
<1> QED
  BY <1>1, <1>2 DEF rows

\* What a verdict is given for.
GivenFor(v, a) ==
    /\ v.status = "Valid" <=> v.outcome = "Valid"
    /\ v.status = "RaceTimeMismatch" => TimeDiffers(ReasonTime(a))
    /\ v.status = "ExpectingCompletedRace" => ~a.completed
    /\ v.status = "StuntsScoreMismatch" => ScoreDiffers(a)
    /\ v.status = "RespawnCountMismatch" => RespawnsDiffer(a)
    /\ v.status # "ScriptedReplay"

LEMMA ReasonGiven ==
    ASSUME NEW a
    PROVE  GivenFor(Reason(a), a)
<1> DEFINE r1 == Row(Compared(a) = "Valid", "Valid", "Valid")
           r2 == Row(Compared(a) = "WrongSimulation",
                     "WrongSimulation", "WrongSimulation")
           r3 == Row(TimeDiffers(ReasonTime(a)), "RaceTimeMismatch", "Invalid")
           r4 == Row(ScoreDiffers(a), "StuntsScoreMismatch", "Invalid")
           r5 == Row(RespawnsDiffer(a), "RespawnCountMismatch", "Invalid")
           r6 == Row(TRUE, "ExpectingCompletedRace", "Invalid")
<1>1. \/ Compared(a) = "Valid" \/ Compared(a) = "WrongSimulation"
      \/ ~a.completed \/ TimeDiffers(ReasonTime(a))
      \/ ScoreDiffers(a) \/ RespawnsDiffer(a)
  BY DEF Compared, ComparedTime, ReasonTime
<1>2. /\ r1.when <=> Compared(a) = "Valid"
      /\ r2.when <=> Compared(a) = "WrongSimulation"
      /\ r3.when <=> TimeDiffers(ReasonTime(a))
      /\ r4.when <=> ScoreDiffers(a)
      /\ r5.when <=> RespawnsDiffer(a)
      /\ r6.when
  BY DEF Row
<1>3. /\ r1.status = "Valid" /\ r1.outcome = "Valid"
      /\ r2.status = "WrongSimulation" /\ r2.outcome = "WrongSimulation"
      /\ r3.status = "RaceTimeMismatch" /\ r3.outcome = "Invalid"
      /\ r4.status = "StuntsScoreMismatch" /\ r4.outcome = "Invalid"
      /\ r5.status = "RespawnCountMismatch" /\ r5.outcome = "Invalid"
      /\ r6.status = "ExpectingCompletedRace" /\ r6.outcome = "Invalid"
  BY DEF Row
<1>4. Reason(a) = FirstOf(<<r1, r2, r3, r4, r5, r6>>)
  BY DEF Reason
<1> HIDE DEF r1, r2, r3, r4, r5, r6
<1>5. \/ r1.when /\ Reason(a) = r1
      \/ r2.when /\ Reason(a) = r2
      \/ r3.when /\ Reason(a) = r3
      \/ r4.when /\ Reason(a) = r4
      \/ r5.when /\ Reason(a) = r5
      \/ /\ Reason(a) = r6 /\ ~r1.when /\ ~r2.when /\ ~r3.when
         /\ ~r4.when /\ ~r5.when
  <2> DEFINE row == FirstOf(<<r1, r2, r3, r4, r5, r6>>)
  <2>1. \/ r1.when /\ row = r1
        \/ r2.when /\ row = r2 /\ ~r1.when
        \/ r3.when /\ row = r3 /\ ~r1.when /\ ~r2.when
        \/ r4.when /\ row = r4 /\ ~r1.when /\ ~r2.when
        \/ r5.when /\ row = r5 /\ ~r1.when /\ ~r2.when
        \/ /\ row = r6 /\ ~r1.when /\ ~r2.when /\ ~r3.when
           /\ ~r4.when /\ ~r5.when
    BY <1>2, FirstOfSix
  <2> QED
    BY <1>4, <2>1
<1> QED
  BY <1>1, <1>2, <1>3, <1>5 DEF GivenFor

LEMMA VerdictGiven ==
    ASSUME IInv, NEW a
    PROVE  GivenFor(Verdict(a), a)
<1> DEFINE r1 == Row(scan.status # "Valid", scan.status, scan.outcome)
           r2 == Row(scan.measured < Expected, "IncompleteStandaloneRun", "Unavailable")
           r3 == Row(TimedByInputs /\ ExpectedTime = NoValue, "ObservationError", "Error")
           r4 == Row(replay.mode = "Stunts" /\ ExpectedScore = NoValue,
                     "ObservationError", "Error")
           r5 == Row(replay.mode # "Race" /\ replay.respawns = NoValue,
                     "RespawnExpectationUnavailable", "Unavailable")
           r6 == Row(TimedByInputs /\ ~a.completed, "ExpectingCompletedRace", "Invalid")
           r7 == Row(TRUE, Reason(a).status, Reason(a).outcome)
<1>1. Verdict(a) = FirstOf(<<r1, r2, r3, r4, r5, r6, r7>>)
  BY DEF Verdict
<1>2. r7.when
  BY DEF Row
<1>3. r1.when => GivenFor(r1, a)
  BY DEF Row, GivenFor, IInv, ScanInv
<1>4. GivenFor(r2, a) /\ GivenFor(r3, a) /\ GivenFor(r4, a) /\ GivenFor(r5, a)
  BY DEF Row, GivenFor
<1>5. r6.when => GivenFor(r6, a)
  BY DEF Row, GivenFor
<1>6. GivenFor(r7, a)
  BY ReasonGiven DEF Row, GivenFor
<1> HIDE DEF r1, r2, r3, r4, r5, r6, r7
<1>7. /\ Verdict(a) \in {r1, r2, r3, r4, r5, r6, r7}
      /\ Verdict(a).when
  <2> DEFINE row == FirstOf(<<r1, r2, r3, r4, r5, r6, r7>>)
  <2>1. row \in {r1, r2, r3, r4, r5, r6, r7} /\ row.when
    BY <1>2, OneOfSeven
  <2> QED
    BY <1>1, <2>1
<1> QED
  BY <1>3, <1>4, <1>5, <1>6, <1>7

-----------------------------------------------------------------------------
(* The reason given is true of the run.                                    *)

LEMMA TimeOfReason ==
    ASSUME IInv, pc = "evaluate", TimeDiffers(ReasonTime(Actual))
    PROVE  replay.mode # "Stunts" /\ ~TimeAgrees
<1>1. replay.mode # "Stunts"
  BY DEF TimeDiffers, ExpectedTime
<1>2. SUFFICES ASSUME TimeAgrees PROVE FALSE
  BY <1>1
<1> DEFINE recorded == IF replay.raceTime = NoValue THEN 0 ELSE replay.raceTime
<1>3. /\ CountedFinish # NoValue
      /\ CountedFinish \in (recorded - Tolerance)..(recorded + Tolerance)
  BY <1>2 DEF TimeAgrees
<1>4. CountedFinish \in Nat /\ ReasonTime(Actual) = CountedFinish
  BY <1>3, ActualFields DEF ReasonTime
<1>5. ExpectedTime # NoValue => ExpectedTime = recorded
  BY <1>1 DEF ExpectedTime
<1>6. recorded \in Nat /\ Tolerance \in Nat
  BY ReplayType, ConstantsType DEF IInv, OrNone, NoValue
<1> QED
  BY <1>3, <1>4, <1>5, <1>6 DEF TimeDiffers, NoValue

\* The score that is evaluated is the one the penalty leaves.
LEMMA EvaluatedScore ==
    ASSUME IInv, pc = "evaluate", replay.mode = "Stunts"
    PROVE  ScoreAgrees <=> replay.score = sim.score
<1>1. /\ sim.score = Penalised(run).score /\ IsRun(run)
      /\ run.score \in Nat /\ run.atLimit \in Nat \cup {-1}
  BY EvaluatedRun, ConstantsType DEF IInv, RunInv, SimInv, OrNone, NoValue
<1>2. /\ replay.finish \in Nat \cup {-1} /\ StuntsLimit \in Nat
      /\ PenaltyUnit \in Nat \ {0}
  BY ReplayType, ConstantsType DEF IInv, OrNone, NoValue
<1> DEFINE score == IF replay.finish > StuntsLimit /\ run.atLimit # NoValue
                    THEN run.atLimit ELSE run.score
           overtime == Max({0, replay.finish - StuntsLimit})
<1>3. sim.score = Max({0, score - overtime \div PenaltyUnit})
  <2>1. CASE replay.finish > StuntsLimit
    <3>1. overtime = replay.finish - StuntsLimit
      BY <1>2, <2>1, MaxOfTwo
    <3>2. score = IF run.atLimit = NoValue THEN run.score ELSE run.atLimit
      BY <2>1
    <3> HIDE DEF score, overtime
    <3> QED
      BY <1>1, <2>1, <3>1, <3>2 DEF Penalised, IsRun
  <2>2. CASE ~(replay.finish > StuntsLimit)
    <3>1. overtime = 0
      BY <1>2, <2>2, MaxOfTwo
    <3>2. score = run.score
      BY <2>2
    <3>3. score - overtime \div PenaltyUnit = run.score
      BY <1>1, <1>2, <3>1, <3>2
    <3>4. Max({0, run.score}) = run.score
      BY <1>1, MaxOfTwo
    <3>5. sim.score = run.score
      BY <1>1, <2>2 DEF Penalised
    <3> HIDE DEF score, overtime
    <3> QED
      BY <3>3, <3>4, <3>5
  <2> QED
    BY <2>1, <2>2
<1> QED
  BY <1>3 DEF ScoreAgrees

LEMMA ScoreOfReason ==
    ASSUME IInv, pc = "evaluate", ScoreDiffers(Actual)
    PROVE  replay.mode = "Stunts" /\ ~ScoreAgrees
  BY ActualFields, EvaluatedScore DEF ScoreDiffers, ExpectedScore

LEMMA RespawnsOfReason ==
    ASSUME IInv, pc = "evaluate", RespawnsDiffer(Actual)
    PROVE  replay.respawns # CountedRespawns
  BY ActualFields DEF RespawnsDiffer

\* Only the end of a validation reports.
LEMMA ReportedWhenDone ==
    ASSUME IInv, [Next]_vars, pc' = "done"
    PROVE  \/ UNCHANGED vars
           \/ Classify \/ NoMapStart \/ Report
<1>1. ~Fail /\ ~SimulateTick /\ ~EndSimulation /\ ~ScanObservation
  BY DEF Fail, SimulateTick, EndSimulation, ScanObservation
<1> QED
  BY <1>1 DEF Next

\* A report made without a simulation.
LEMMA ReportedUnsimulated ==
    ASSUME Classify \/ NoMapStart, pc' = "done"
    PROVE  /\ UNCHANGED <<replay, run, clock>>
           /\ report'.estimate = NoEstimate
           /\ report'.valid = FALSE
           /\ report'.status \in {"IncompatibleReplayVersion", "InputUnavailable",
                                  "WrongSimulation"}
           /\ report'.outcome \in {"Invalid", "Unavailable", "WrongSimulation"}
           /\ report'.wrong = (report'.outcome = "WrongSimulation")
<1>1. /\ UNCHANGED <<replay, run, clock>>
      /\ \/ ReportAs("IncompatibleReplayVersion", "Invalid")
         \/ ReportAs("InputUnavailable", "Unavailable")
         \/ ReportAs("WrongSimulation", "WrongSimulation")
  BY DEF Classify, NoMapStart
<1>2. CASE ReportAs("IncompatibleReplayVersion", "Invalid")
  BY <1>1, <1>2 DEF ReportAs, Public, NoActual
<1>3. CASE ReportAs("InputUnavailable", "Unavailable")
  BY <1>1, <1>3 DEF ReportAs, Public, NoActual
<1>4. CASE ReportAs("WrongSimulation", "WrongSimulation")
  BY <1>1, <1>4 DEF ReportAs, Public, NoActual
<1> QED
  BY <1>1, <1>2, <1>3, <1>4

\* A report made of an evaluated run.
LEMMA ReportedEvaluated ==
    ASSUME Report
    PROVE  LET v == Verdict(Actual)
               hidden == replay.scripted /\ v.status = "Valid"
           IN /\ report'.valid = (v.status = "Valid" /\ ~hidden)
              /\ report'.status = IF hidden THEN "ScriptedReplay" ELSE v.status
              /\ report'.outcome = IF hidden THEN "Invalid" ELSE v.outcome
              /\ report'.wrong = (v.outcome = "WrongSimulation" /\ ~hidden)
              /\ report'.completed = Actual.completed
              /\ report'.raceTime = Actual.raceTime
              /\ report'.estimate = Actual.estimate
              /\ report'.respawns = Actual.respawns
  BY DEF Report, Public

(* The status of a report is a true reason of its outcome.                 *)
LEMMA ExplainedStep ==
    ASSUME IInv, StatusExplainsOutcome, [Next]_vars
    PROVE  StatusExplainsOutcome'
<1> SUFFICES ASSUME pc' = "done"
             PROVE  StatusExplainsOutcome'
  BY DEF StatusExplainsOutcome
<1>1. CASE UNCHANGED vars
  BY <1>1 DEF vars, StatusExplainsOutcome, TimeAgrees, ScoreAgrees,
              CountedFinish, CountedRespawns
<1>2. CASE Classify \/ NoMapStart
  BY <1>2, ReportedUnsimulated DEF StatusExplainsOutcome
<1>3. CASE Report
  <2> DEFINE v == Verdict(Actual)
             hidden == replay.scripted /\ v.status = "Valid"
  <2>1. pc = "evaluate" /\ UNCHANGED <<replay, run>>
    BY <1>3 DEF Report
  <2>2. /\ TimeAgrees' <=> TimeAgrees
        /\ ScoreAgrees' <=> ScoreAgrees
        /\ CountedFinish' = CountedFinish
        /\ CountedRespawns' = CountedRespawns
    BY <2>1 DEF TimeAgrees, ScoreAgrees, CountedFinish, CountedRespawns
  <2>3. GivenFor(v, Actual)
    BY VerdictGiven
  <2>4. /\ v.status = "RaceTimeMismatch" => replay.mode # "Stunts" /\ ~TimeAgrees
        /\ v.status = "ExpectingCompletedRace" => CountedFinish = NoValue
        /\ v.status = "StuntsScoreMismatch" => replay.mode = "Stunts" /\ ~ScoreAgrees
        /\ v.status = "RespawnCountMismatch" => replay.respawns # CountedRespawns
    BY <2>1, <2>3, ActualFields, TimeOfReason, ScoreOfReason, RespawnsOfReason
       DEF GivenFor
  <2>5. /\ report'.valid = (v.status = "Valid" /\ ~hidden)
        /\ report'.status = IF hidden THEN "ScriptedReplay" ELSE v.status
        /\ report'.outcome = IF hidden THEN "Invalid" ELSE v.outcome
        /\ report'.wrong = (v.outcome = "WrongSimulation" /\ ~hidden)
    BY <1>3, ReportedEvaluated
  <2>6. /\ v.status = "Valid" <=> v.outcome = "Valid"
        /\ v.status # "ScriptedReplay"
    BY <2>3 DEF GivenFor
  <2> HIDE DEF v
  <2> QED
    BY <2>1, <2>2, <2>4, <2>5, <2>6 DEF StatusExplainsOutcome
<1> QED
  BY <1>1, <1>2, <1>3, ReportedWhenDone

(* In the modes whose outcome the inputs record, it is the one reported.   *)
LEMMA RecordedStep ==
    ASSUME IInv, RecordedOutcomeReported, [Next]_vars
    PROVE  RecordedOutcomeReported'
<1> SUFFICES ASSUME pc' = "done"
             PROVE  RecordedOutcomeReported'
  BY DEF RecordedOutcomeReported, Evaluated
<1>1. CASE UNCHANGED vars
  BY <1>1 DEF vars, RecordedOutcomeReported, Evaluated, NoEstimate
<1>2. CASE Classify \/ NoMapStart
  <2>1. clock' = 0
    BY <1>2 DEF Classify, NoMapStart, IInv
  <2> QED
    BY <2>1 DEF RecordedOutcomeReported, Evaluated
<1>3. CASE Report
  <2>1. pc = "evaluate" /\ replay' = replay
    BY <1>3 DEF Report
  <2>2. /\ report'.completed = Actual.completed
        /\ report'.raceTime = Actual.raceTime
        /\ report'.estimate = Actual.estimate
        /\ report'.respawns = Actual.respawns
    BY <1>3, ReportedEvaluated
  <2>3. CASE replay.mode # "Race"
    <3>1. CountedRespawns = Min({replay.presses, RespawnLimit})
      BY <2>3 DEF CountedRespawns
    <3>2. Actual.completed = (replay.finish # NoValue)
      BY <2>1, <2>3, ActualFields DEF Actual
    <3>3. /\ Actual.raceTime = replay.finish /\ Actual.estimate = NoEstimate
          /\ Actual.respawns = CountedRespawns
      BY <2>1, <2>3, ActualFields
    <3> QED
      BY <2>1, <2>2, <3>1, <3>2, <3>3 DEF RecordedOutcomeReported, NoEstimate
  <2> QED
    BY <2>1, <2>3 DEF RecordedOutcomeReported
<1> QED
  BY <1>1, <1>2, <1>3, ReportedWhenDone

-----------------------------------------------------------------------------
(* An estimate counted from the start of the race.                         *)

LEMMA Multiples ==
    ASSUME NEW n \in Nat \ {0}, NEW a \in Int, NEW b \in Int
    PROVE  /\ a * n \in Int /\ a * n - b * n = (a - b) * n
           /\ a <= b => a * n <= b * n
<1>1. a * n \in Int /\ b * n \in Int /\ a * n - b * n = (a - b) * n
  OBVIOUS
<1>2. ASSUME a <= b PROVE a * n <= b * n
  <2>1. (b - a) \in Nat /\ b * n - a * n = (b - a) * n
    BY <1>2
  <2>2. (b - a) * n >= 0
    BY <2>1
  <2> QED
    BY <1>1, <2>1, <2>2
<1> QED
  BY <1>1, <1>2

\* Whole ms of a time that is at most one past a multiple of them.
LEMMA WholeMs ==
    ASSUME NEW n \in Nat, n > 1, NEW d \in Int, NEW x \in Nat,
           d * n <= x, x <= d * n + 1
    PROVE  x \div n = d
<1> DEFINE q == x \div n
<1>1. q \in Int /\ n * q <= x /\ x < n * (q + 1)
  OBVIOUS
<1> HIDE DEF q
<1>2. n * q = q * n /\ n * (q + 1) = (q + 1) * n
  BY <1>1
<1>3. q >= d
  <2>1. SUFFICES ASSUME q + 1 <= d PROVE FALSE
    BY <1>1
  <2>2. (q + 1) * n <= d * n
    BY <1>1, <2>1, Multiples
  <2> QED
    BY <1>1, <1>2, <2>2, Multiples
<1>4. q <= d
  <2>1. SUFFICES ASSUME d + 1 <= q PROVE FALSE
    BY <1>1
  <2>2. (d + 1) * n <= q * n /\ (d + 1) * n = d * n + n
    BY <1>1, <2>1, Multiples
  <2> QED
    BY <1>1, <1>2, <2>2, Multiples
<1> QED
  BY <1>1, <1>3, <1>4 DEF q

\* A nanosecond after the start of the race, at most one past the ms a.
LEMMA NanosecondFromStart ==
    ASSUME NEW a \in Nat, NEW j \in 0..1, a >= Prestart, a > Prestart \/ j = 1
    PROVE  LET e == FromStart(Nanosecond(a * NsPerMs + j))
           IN /\ e \in Bracket
              /\ e.estimated \div NsPerMs = a - Prestart
<1>c. Prestart \in Nat /\ NsPerMs \in Nat /\ NsPerMs > 1
  BY ConstantsType, ValidationAssumption
<1> DEFINE ns == a * NsPerMs + j
           p == Prestart * NsPerMs
           d == a - Prestart
           e == FromStart(Nanosecond(ns))
<1>1. /\ d \in Nat /\ p \in Nat /\ ns \in Nat /\ ns - p = d * NsPerMs + j
  <2>1. a * NsPerMs \in Int /\ a * NsPerMs - p = d * NsPerMs
    BY <1>c, Multiples
  <2>2. d \in Nat /\ p \in Nat /\ a * NsPerMs \in Nat
    BY <1>c
  <2> HIDE DEF p, d
  <2> QED
    BY <2>1, <2>2
<1>2. ns - p \in Nat /\ ns - p >= 1
  <2>1. CASE j = 1
    <3>1. d * NsPerMs \in Nat
      BY <1>c, <1>1
    <3> HIDE DEF d, ns, p
    <3> QED
      BY <1>1, <2>1, <3>1
  <2>2. CASE a > Prestart
    <3>1. 1 * NsPerMs <= d * NsPerMs /\ d * NsPerMs \in Int
      BY <1>c, <1>1, <2>2, Multiples
    <3> HIDE DEF d, ns, p
    <3> QED
      BY <1>c, <1>1, <3>1
  <2> QED
    BY <2>1, <2>2
<1>3. /\ e.lower = Max({0, ns - 1 - p})
      /\ e.upper = ns - p /\ e.estimated = ns - p
      /\ e = [lower |-> e.lower, upper |-> e.upper, estimated |-> e.estimated]
  BY DEF FromStart, Nanosecond
<1> HIDE DEF e
<1>4. e.lower = ns - p - 1
  <2> HIDE DEF ns, p
  <2>1. ns - 1 - p \in Nat /\ ns - 1 - p = ns - p - 1
    BY <1>1, <1>2
  <2>2. e.lower = IF 0 >= ns - 1 - p THEN 0 ELSE ns - 1 - p
    BY <1>3, <2>1, MaxOfTwo
  <2> QED
    BY <2>1, <2>2
<1>5. e \in Bracket
  <2> HIDE DEF ns, p
  <2>1. /\ e.lower \in Nat /\ e.upper \in Nat /\ e.estimated \in Nat
        /\ e.lower < e.estimated /\ e.estimated <= e.upper
    BY <1>1, <1>2, <1>3, <1>4
  <2>2. e \in [lower : Nat, upper : Nat, estimated : Nat]
    BY <1>3, <2>1
  <2> QED
    BY <2>1, <2>2 DEF Bracket
<1>6. e.estimated \div NsPerMs = d
  <2>1. d * NsPerMs \in Int
    BY <1>c, <1>1
  <2> HIDE DEF ns, p, d
  <2>2. /\ e.estimated \in Nat
        /\ d * NsPerMs <= e.estimated /\ e.estimated <= d * NsPerMs + 1
    BY <1>1, <1>2, <1>3, <2>1
  <2> QED
    BY <1>c, <1>1, <2>2, WholeMs
<1> QED
  BY <1>5, <1>6 DEF e, d

\* The nanosecond counted from the start is of the tick it was found in.
LEMMA BracketFromStart ==
    ASSUME NEW t \in Nat, t >= Prestart, NEW b \in Estimates(t),
           b.estimated >= Prestart * NsPerMs
    PROVE  LET e == FromStart(b)
           IN /\ e \in Bracket
              /\ e.estimated \div NsPerMs + Prestart \in t..(t + Tick)
<1>c. Prestart \in Nat \ {0} /\ NsPerMs \in Nat \ {0} /\ Tick \in Nat \ {0}
  BY ConstantsType
<1> DEFINE e == FromStart(b)
<1>1. CASE b = Nanosecond(t * NsPerMs + 1)
  <2>1. e \in Bracket /\ e.estimated \div NsPerMs = t - Prestart
    BY <1>c, <1>1, NanosecondFromStart
  <2> HIDE DEF e
  <2> QED
    BY <1>c, <2>1 DEF e
<1>2. ASSUME NEW j \in 0..1, b = Nanosecond((t + Tick) * NsPerMs + j)
      PROVE  /\ e \in Bracket
             /\ e.estimated \div NsPerMs + Prestart \in t..(t + Tick)
  <2>1. t + Tick \in Nat /\ t + Tick > Prestart
    BY <1>c
  <2>2. e \in Bracket /\ e.estimated \div NsPerMs = t + Tick - Prestart
    BY <1>c, <1>2, <2>1, NanosecondFromStart
  <2> HIDE DEF e
  <2>3. e.estimated \div NsPerMs + Prestart = t + Tick
    BY <1>c, <2>2
  <2> QED
    BY <1>c, <2>2, <2>3
<1>3. CASE b = Nanosecond((t + Tick) * NsPerMs)
  <2>1. (t + Tick) * NsPerMs = (t + Tick) * NsPerMs + 0
    BY <1>c
  <2> QED
    BY <1>2, <1>3, <2>1
<1>4. CASE b = Nanosecond((t + Tick) * NsPerMs + 1)
  BY <1>2, <1>4
<1>5. b # NoEstimate
  <2>1. \A n \in Nat : ~(-1 >= n)
    OBVIOUS
  <2>2. ASSUME b = NoEstimate PROVE b.estimated = -1
    BY <2>2 DEF NoEstimate, NoValue
  <2>3. Prestart * NsPerMs \in Nat
    BY <1>c
  <2> QED
    BY <2>1, <2>2, <2>3, Zenon
<1> QED
  BY <1>1, <1>3, <1>4, <1>5 DEF Estimates, Brackets

LEMMA EstimateStep ==
    ASSUME IInv, EstimateWithinFinishTick, [Next]_vars
    PROVE  EstimateWithinFinishTick'
<1>1. CASE UNCHANGED <<report, run>>
  BY <1>1 DEF EstimateWithinFinishTick, NoEstimate, Bracket
<1>2. CASE Classify \/ NoMapStart
  <2>1. CASE report' = report
    BY <1>1, <1>2, <2>1 DEF Classify, NoMapStart
  <2>2. CASE report' # report
    <3>1. pc' = "done"
      BY <1>2, <2>2 DEF Classify, NoMapStart, ReportAs
    <3> QED
      BY <1>2, <3>1, ReportedUnsimulated DEF EstimateWithinFinishTick, NoEstimate
  <2> QED
    BY <2>1, <2>2
<1>3. CASE SimulateTick \/ EndSimulation
  <2>1. report' = NotReported
    BY <1>3 DEF SimulateTick, EndSimulation, IInv
  <2> QED
    BY <2>1 DEF NotReported, EstimateWithinFinishTick, NoEstimate
<1>4. CASE Report
  <2>1. pc = "evaluate" /\ run' = run
    BY <1>4 DEF Report
  <2>2. report'.raceTime = Actual.raceTime /\ report'.estimate = Actual.estimate
    BY <1>4, ReportedEvaluated
  <2> DEFINE estimated == sim.estimate.estimated >= Prestart * NsPerMs
  <2>3. CASE ~estimated
    <3>1. Actual.estimate = NoEstimate
      BY <2>3 DEF Actual
    <3> QED
      BY <2>2, <3>1 DEF EstimateWithinFinishTick, NoEstimate
  <2>4. CASE estimated
    <3>1. sim.estimate # NoEstimate
      <4>1. Prestart * NsPerMs \in Nat
        BY ConstantsType
      <4>2. \A n \in Nat : ~(-1 >= n)
        OBVIOUS
      <4>3. ASSUME sim.estimate = NoEstimate PROVE sim.estimate.estimated = -1
        BY <4>3 DEF NoEstimate, NoValue
      <4> QED
        BY <2>4, <4>1, <4>2, <4>3, Zenon
    <3>2. sim = run
      BY <2>1, <3>1, EvaluatedRun
    <3>3. /\ run.first \in Nat /\ run.first >= Prestart
          /\ run.estimate \in Estimates(run.first)
      BY <3>1, <3>2 DEF IInv, RunInv
    <3> DEFINE e == FromStart(run.estimate)
    <3>4. e \in Bracket /\ e.estimated \div NsPerMs + Prestart
                             \in run.first..(run.first + Tick)
      BY <2>4, <3>2, <3>3, BracketFromStart
    <3>5. Actual.estimate = e /\ Actual.raceTime = e.estimated \div NsPerMs
      BY <2>4, <3>2 DEF Actual
    <3> HIDE DEF e
    <3> QED
      BY <2>1, <2>2, <3>4, <3>5 DEF EstimateWithinFinishTick, NoEstimate, Bracket
  <2> QED
    BY <2>3, <2>4
<1> QED
  BY <1>1, <1>2, <1>3, <1>4 DEF Next, Fail, ScanObservation, vars

-----------------------------------------------------------------------------
(* The compared samples and the scan of them.                              *)

Observed == [distance : Distances \cup {NotFinite}, compared : BOOLEAN,
             finish : OrNone(Nat)]

\* The compared samples among the first n observations.
UpTo(n) == {i \in Shown : i <= n}

Distance(i) == run.observations[i].distance
Inexact(S) == {i \in S : Distance(i) \in Distances \ {0}}

\* The targets that lie in the past at t.
Passed(t) == {i \in 0..(Targets - 1) : Prestart + i * Period <= t}

ObservedInv ==
    /\ run.observations \in Seq(Observed)
    /\ \A i \in DOMAIN run.observations :
          run.observations[i].finish # NoValue => run.finish # NoValue
    /\ Cardinality(Shown) <= Cardinality(Passed(clock))

\* What the scan says of the samples before the cursor.
ScannedInv ==
    /\ cursor \in 0..Len(run.observations)
    /\ scan.measured = Cardinality(UpTo(cursor))
    /\ \/ /\ scan.status = "Valid" /\ scan.firstDivergence = NoValue
          /\ \A i \in UpTo(cursor) : Within(run.observations[i])
          /\ scan.max < Threshold
       \/ /\ scan.status # "Valid" /\ scan.firstDivergence = SampleOf(cursor)
          /\ cursor \in Shown /\ ~Within(run.observations[cursor])
          /\ \A i \in UpTo(cursor - 1) : Within(run.observations[i])
    /\ \/ scan.firstExact = NoValue /\ Inexact(UpTo(cursor)) = {}
       \/ \E k \in Inexact(UpTo(cursor)) :
            /\ scan.firstExact = SampleOf(k)
            /\ \A i \in Inexact(UpTo(cursor)) : k <= i
    /\ scan.max \in Nat
    /\ \/ scan.maxAt = NoValue
       \/ \E i \in UpTo(cursor) : SampleOf(i) = scan.maxAt /\ Distance(i) = scan.max
    /\ \A i \in Inexact(UpTo(cursor)) : Distance(i) <= scan.max

JInv ==
    /\ requested \in Requested
    /\ ObservedInv /\ ScannedInv
    /\ pc \in {"simulate", "evaluate"} => replay.compatible /\ replay.hasInput
    /\ pc \in {"classify", "simulate"} => cursor = 0
    /\ pc = "evaluate" => clock > 0 /\ sim.observations = run.observations

LEMMA ShownFinite ==
    ASSUME run.observations \in Seq(Observed)
    PROVE  /\ Shown \subseteq 1..Len(run.observations) /\ Len(run.observations) \in Nat
           /\ IsFiniteSet(Shown) /\ Cardinality(Shown) \in Nat
           /\ \A S \in SUBSET Shown : IsFiniteSet(S) /\ Cardinality(S) \in Nat
<1>1. /\ Len(run.observations) \in Nat
      /\ DOMAIN run.observations = 1..Len(run.observations)
  OBVIOUS
<1>2. Shown \subseteq 1..Len(run.observations)
  BY <1>1 DEF Shown
<1>3. IsFiniteSet(1..Len(run.observations))
  BY <1>1, FS_Interval
<1>4. \A S \in SUBSET (1..Len(run.observations)) : IsFiniteSet(S)
  BY <1>3, FS_Subset
<1>5. \A S \in SUBSET Shown : IsFiniteSet(S) /\ Cardinality(S) \in Nat
  BY <1>2, <1>4, FS_CardinalityType
<1> QED
  BY <1>1, <1>2, <1>5

\* The samples before the cursor have the first numbers.
LEMMA Numbers ==
    ASSUME run.observations \in Seq(Observed), NEW n \in Nat, NEW i \in Shown
    PROVE  /\ SampleOf(i) \in Nat
           /\ i <= n <=> SampleOf(i) < Cardinality(UpTo(n))
<1> DEFINE before == {j \in Shown : j < i}
<1>1. /\ before \in SUBSET Shown /\ UpTo(n) \in SUBSET Shown /\ i \notin before
      /\ i \in Nat /\ Shown \subseteq Nat
  BY ShownFinite DEF UpTo
<1>2. /\ IsFiniteSet(before) /\ Cardinality(before) \in Nat
      /\ IsFiniteSet(UpTo(n)) /\ Cardinality(UpTo(n)) \in Nat
  BY <1>1, ShownFinite
<1>3. CASE i <= n
  <2>1. before \cup {i} \in SUBSET UpTo(n)
    <3>1. \A j \in Nat : j < i => j <= n
      BY <1>1, <1>3
    <3> QED
      BY <1>1, <1>3, <3>1 DEF UpTo
  <2>2. Cardinality(before \cup {i}) = Cardinality(before) + 1
    BY <1>1, <1>2, FS_AddElement
  <2>3. Cardinality(before \cup {i}) <= Cardinality(UpTo(n))
    BY <1>2, <2>1, FS_Subset
  <2> QED
    BY <1>2, <1>3, <2>2, <2>3 DEF SampleOf
<1>4. CASE ~(i <= n)
  <2>1. UpTo(n) \in SUBSET before
    <3>1. \A j \in Nat : j <= n => j < i
      BY <1>1, <1>4
    <3> QED
      BY <1>1, <3>1 DEF UpTo
  <2>2. Cardinality(UpTo(n)) <= Cardinality(before)
    BY <1>2, <2>1, FS_Subset
  <2> QED
    BY <1>2, <1>4, <2>2 DEF SampleOf
<1> QED
  BY <1>3, <1>4

\* One observation further.
LEMMA OneFurther ==
    ASSUME run.observations \in Seq(Observed), NEW n \in Nat,
           n < Len(run.observations)
    PROVE  IF run.observations[n + 1].compared
           THEN /\ n + 1 \in Shown /\ UpTo(n + 1) = UpTo(n) \cup {n + 1}
                /\ n + 1 \notin UpTo(n)
                /\ SampleOf(n + 1) = Cardinality(UpTo(n))
                /\ Cardinality(UpTo(n + 1)) = Cardinality(UpTo(n)) + 1
           ELSE UpTo(n + 1) = UpTo(n)
<1>1. n + 1 \in DOMAIN run.observations /\ Shown \subseteq Nat
  BY ShownFinite
<1>2. IsFiniteSet(UpTo(n))
  BY ShownFinite DEF UpTo
<1>3. CASE run.observations[n + 1].compared
  <2>1. /\ n + 1 \in Shown /\ UpTo(n + 1) = UpTo(n) \cup {n + 1}
        /\ n + 1 \notin UpTo(n)
    BY <1>1, <1>3 DEF UpTo, Shown
  <2>2. {j \in Shown : j < n + 1} = UpTo(n)
    <3>1. \A j \in Nat : j < n + 1 <=> j <= n
      OBVIOUS
    <3> QED
      BY <1>1, <3>1 DEF UpTo
  <2>3. SampleOf(n + 1) = Cardinality(UpTo(n))
    BY <2>2 DEF SampleOf
  <2> QED
    BY <1>2, <1>3, <2>1, <2>3, FS_AddElement
<1>4. CASE ~run.observations[n + 1].compared
  BY <1>1, <1>4 DEF UpTo, Shown
<1> QED
  BY <1>3, <1>4

LEMMA ScannedKept ==
    ASSUME ScannedInv, run'.observations = run.observations, UNCHANGED <<cursor, scan>>
    PROVE  ScannedInv'
  BY DEF ScannedInv, UpTo, Shown, SampleOf, Inexact, Distance, Within

LEMMA ObservedKept ==
    ASSUME ObservedInv, run'.observations = run.observations, run'.finish = run.finish,
           UNCHANGED <<clock, replay, requested>>
    PROVE  ObservedInv'
  BY DEF ObservedInv, Shown, Passed, Targets, Expected, Through, Observed

\* The samples compared and the length of the simulation.
LEMMA PlanType ==
    ASSUME replay \in Replays, requested \in Requested
    PROVE  /\ Expected \in Nat /\ Targets \in Nat /\ Targets <= Expected
           /\ LastTick \in Int /\ LastTick >= Tick
<1>1. /\ Tick \in Nat \ {0} /\ Prestart \in Nat \ {0} /\ Period \in Nat \ {0}
      /\ Prestart % Tick = 0 /\ requested \in Nat \ {0}
  BY ValidationAssumption
<1>2. /\ replay.raceTime \in Nat \cup {-1} /\ replay.samples \in Nat
      /\ replay.duration \in Nat
  <2>1. replay \in Replay
    BY ValidationAssumption
  <2> QED
    BY <2>1 DEF Replay, OrNone, NoValue
<1>3. Expected \in Nat
  <2> DEFINE t == IF replay.raceTime = NoValue THEN 0 ELSE replay.raceTime
  <2>1. t \in Nat /\ Expected = Through(t)
    BY <1>2 DEF Expected, NoValue
  <2> HIDE DEF t
  <2>2. t \div Period + 1 \in Nat
    BY <1>1, <2>1
  <2>3. Min({t \div Period + 1, replay.samples}) \in Nat
    BY <1>2, <2>2, MinOfTwo
  <2> QED
    BY <2>1, <2>3 DEF Through
<1>4. Targets \in Nat /\ Targets <= Expected
  BY <1>1, <1>3, MinOfTwo DEF Targets
<1>5. LastTick \in Int /\ LastTick >= Tick
  <2> DEFINE m == Max({End, LastTarget})
             q == m \div Tick
  <2>1. End \in Nat /\ End >= Prestart
    BY <1>1, <1>2 DEF End
  <2>2. LastTarget \in Int
    <3>1. (Targets - 1) * Period \in Int
      BY <1>1, <1>4
    <3> QED
      BY <1>1, <2>1, <3>1 DEF LastTarget
  <2>3. m \in Nat /\ m >= Prestart
    BY <1>1, <2>1, <2>2, MaxOfTwo
  <2>4. Prestart >= Tick
    BY <1>1
  <2> HIDE DEF m
  <2>5. q \in Int /\ q >= 1
    BY <1>1, <2>3, <2>4
  <2>6. q * Tick >= Tick
    BY <1>1, <2>5
  <2>7. LastTick = q * Tick + IF replay.mode = "Race" THEN Tick ELSE 0
    BY DEF LastTick, m
  <2>8. q * Tick \in Int
    BY <1>1, <2>5
  <2> DEFINE w == q * Tick
  <2> HIDE DEF w
  <2> QED
    BY <1>1, <2>6, <2>7, <2>8 DEF w
<1> QED
  BY <1>3, <1>4, <1>5

LEMMA PassedFinite ==
    ASSUME Targets \in Nat, NEW t \in Nat
    PROVE  /\ IsFiniteSet(Passed(t)) /\ Cardinality(Passed(t)) \in Nat
           /\ Cardinality(Passed(t)) <= Targets
<1>1. IsFiniteSet(0..(Targets - 1)) /\ Cardinality(0..(Targets - 1)) = Targets
  BY FS_Interval
<1>2. Passed(t) \in SUBSET (0..(Targets - 1))
  BY DEF Passed
<1> QED
  BY <1>1, <1>2, FS_Subset, FS_CardinalityType

LEMMA JInvInit == Init => JInv
<1> SUFFICES ASSUME Init PROVE JInv
  OBVIOUS
<1> USE DEF Init, NotRun, NotScanned
<1>1. run.observations = <<>> /\ Shown = {}
  BY DEF Shown
<1>2. Cardinality({}) = 0 /\ UpTo(0) = {} /\ Inexact({}) = {}
  BY <1>1, FS_EmptySet DEF UpTo, Inexact
<1>3. ObservedInv
  <2>1. Cardinality(Passed(0)) \in Nat
    BY PlanType, PassedFinite
  <2> QED
    BY <1>1, <1>2, <2>1 DEF ObservedInv
<1>4. ScannedInv
  <2>1. Threshold \in Nat \ {0} /\ 0 \in 0..Len(run.observations)
    BY <1>1, ConstantsType
  <2>2. /\ cursor = 0 /\ scan.measured = 0 /\ scan.status = "Valid" /\ scan.max = 0
        /\ scan.firstDivergence = NoValue /\ scan.firstExact = NoValue
        /\ scan.maxAt = NoValue
    OBVIOUS
  <2>3. UpTo(cursor) = {} /\ Inexact(UpTo(cursor)) = {} /\ Cardinality(UpTo(cursor)) = 0
    BY <1>2
  <2>4. 0 < Threshold /\ cursor \in 0..Len(run.observations)
    BY <2>1
  <2> HIDE DEF Init, NotRun, NotScanned
  <2> QED
    BY <2>2, <2>3, <2>4 DEF ScannedInv
<1> QED
  BY <1>3, <1>4 DEF JInv

-----------------------------------------------------------------------------
(* The samples are observed while the simulation runs.                     *)

LEMMA ClockAdvances ==
    ASSUME IInv, SimulateTick
    PROVE  /\ clock \in Nat /\ clock' \in Nat /\ clock' = clock + Tick
           /\ clock <= clock' /\ clock' > 0
<1>1. clock \in Nat /\ clock' = clock + Tick
  BY DEF SimulateTick, IInv, RunInv
<1> QED
  BY <1>1, ConstantsType

\* A tick appends at most one observation, and compares it at a target only.
LEMMA TickObserves ==
    ASSUME IInv, JInv, SimulateTick
    PROVE  \/ run'.observations = run.observations
           \/ \E o \in Observed :
                /\ run'.observations = Append(run.observations, o)
                /\ o.compared => IsTarget(clock')
                /\ o.finish # NoValue => run'.finish # NoValue
<1>1. PICK r \in FinishChoices(clock'), extra \in 0..1 :
        \/ run' = [r EXCEPT !.respawns = @ + extra]
        \/ \E o \in Observation(clock', r) :
             run' = [r EXCEPT !.respawns = @ + extra,
                              !.observations = Append(@, o)]
  BY DEF SimulateTick
<1>2. /\ r.observations = run.observations /\ IsRun(r)
      /\ r.finish \in OrNone(Nat)
  <2>1. clock' \in Nat /\ clock <= clock' /\ Prestart \in Nat
    BY ClockAdvances, ConstantsType
  <2>2. /\ IsRun(r) /\ (r.finish = NoValue \/ r.finish \in Prestart..clock')
    BY <2>1, FinishStaysInRace DEF IInv
  <2>3. r.observations = run.observations
    BY DEF FinishChoices, IInv, RunInv, IsRun
  <2> QED
    BY <2>1, <2>2, <2>3 DEF OrNone
<1>3. CASE run' = [r EXCEPT !.respawns = @ + extra]
  BY <1>2, <1>3 DEF IsRun
<1>4. ASSUME NEW o \in Observation(clock', r),
             run' = [r EXCEPT !.respawns = @ + extra, !.observations = Append(@, o)]
      PROVE  /\ run'.observations = Append(run.observations, o)
             /\ o \in Observed
             /\ o.compared => IsTarget(clock')
             /\ o.finish # NoValue => run'.finish # NoValue
  <2>1. run'.observations = Append(run.observations, o) /\ run'.finish = r.finish
    BY <1>2, <1>4 DEF IsRun
  <2>2. /\ o \in Observed /\ o.finish = r.finish
        /\ o.compared => IsTarget(clock')
    <3> DEFINE far == [distance |-> NotFinite, compared |-> FALSE, finish |-> r.finish]
    <3>1. CASE o \in {[distance |-> d, compared |-> TRUE, finish |-> r.finish] :
                        d \in IF IsTarget(clock') THEN Distances \cup {NotFinite}
                              ELSE {}}
      <4>1. PICK d \in Distances \cup {NotFinite} :
              /\ IsTarget(clock')
              /\ o = [distance |-> d, compared |-> TRUE, finish |-> r.finish]
        BY <3>1
      <4>2. /\ o \in [distance : Distances \cup {NotFinite}, compared : BOOLEAN,
                      finish : OrNone(Nat)]
            /\ o.finish = r.finish
        BY <1>2, <4>1
      <4> QED
        BY <4>1, <4>2 DEF Observed
    <3>2. CASE o = far
      BY <1>2, <3>2 DEF Observed
    <3>3. \/ o \in {[distance |-> d, compared |-> TRUE, finish |-> r.finish] :
                     d \in IF IsTarget(clock') THEN Distances \cup {NotFinite} ELSE {}}
          \/ o \in IF IsObserved(clock') /\ ~IsTarget(clock') THEN {far} ELSE {}
      BY <1>4 DEF Observation
    <3> QED
      BY <3>1, <3>2, <3>3
  <2> QED
    BY <2>1, <2>2
<1> QED
  BY <1>1, <1>3, <1>4

LEMMA TickKeepsFinish ==
    ASSUME IInv, SimulateTick, run.finish # NoValue
    PROVE  run'.finish # NoValue
<1>1. PICK r \in FinishChoices(clock'), extra \in 0..1 :
        \/ run' = [r EXCEPT !.respawns = @ + extra]
        \/ \E o \in Observation(clock', r) :
             run' = [r EXCEPT !.respawns = @ + extra,
                              !.observations = Append(@, o)]
  BY DEF SimulateTick
<1>2. clock' \in Nat /\ clock' # NoValue
  BY ClockAdvances DEF NoValue
<1>3. r.finish \in {run.finish, clock'} /\ IsRun(r)
  BY DEF FinishChoices, IInv, RunInv, IsRun
<1>4. run'.finish = r.finish
  <2>1. CASE run' = [r EXCEPT !.respawns = @ + extra]
    BY <1>3, <2>1 DEF IsRun
  <2>2. ASSUME NEW o, run' = [r EXCEPT !.respawns = @ + extra,
                                       !.observations = Append(@, o)]
        PROVE  run'.finish = r.finish
    BY <1>3, <2>2 DEF IsRun
  <2> QED
    BY <1>1, <2>1, <2>2
<1> QED
  BY <1>2, <1>3, <1>4

\* A target reached is one more in the past.
LEMMA TargetPasses ==
    ASSUME Targets \in Nat, clock \in Nat, clock' = clock + Tick, IsTarget(clock')
    PROVE  Cardinality(Passed(clock)) + 1 <= Cardinality(Passed(clock'))
<1>1. Tick \in Nat \ {0} /\ clock' \in Nat
  BY ConstantsType
<1>2. PICK i \in 0..(Targets - 1) : clock' = Prestart + i * Period
  BY DEF IsTarget
<1>3. i \notin Passed(clock) /\ i \in Passed(clock')
  BY <1>1, <1>2 DEF Passed
<1>4. Passed(clock) \subseteq Passed(clock')
  <2>1. \A j \in 0..(Targets - 1) : Prestart + j * Period \in Int
    BY ValidationAssumption
  <2> QED
    BY <1>1, <2>1 DEF Passed
<1>5. Passed(clock) \cup {i} \in SUBSET Passed(clock')
  BY <1>3, <1>4
<1>6. /\ IsFiniteSet(Passed(clock)) /\ IsFiniteSet(Passed(clock'))
      /\ Cardinality(Passed(clock)) \in Nat
  BY <1>1, PassedFinite
<1>7. Cardinality(Passed(clock) \cup {i}) = Cardinality(Passed(clock)) + 1
  BY <1>3, <1>6, FS_AddElement
<1> QED
  BY <1>5, <1>6, <1>7, FS_Subset

LEMMA PassedGrows ==
    ASSUME Targets \in Nat, NEW t \in Nat, NEW u \in Nat, t <= u
    PROVE  Cardinality(Passed(t)) <= Cardinality(Passed(u))
<1>1. Passed(t) \in SUBSET Passed(u)
  <2>1. \A j \in 0..(Targets - 1) : Prestart + j * Period \in Int
    BY ValidationAssumption
  <2> QED
    BY <2>1 DEF Passed
<1> QED
  BY <1>1, PassedFinite, FS_Subset

LEMMA TickKeepsObserved ==
    ASSUME IInv, JInv, SimulateTick
    PROVE  ObservedInv'
<1>1. /\ ObservedInv /\ UNCHANGED <<replay, requested>>
      /\ Targets \in Nat /\ clock \in Nat /\ clock' \in Nat
      /\ clock' = clock + Tick /\ clock <= clock'
  BY PlanType, ClockAdvances DEF SimulateTick, IInv, JInv
<1>2. Passed(clock)' = Passed(clock')
  BY <1>1 DEF Passed, Targets, Expected, Through
<1>3. /\ run.observations \in Seq(Observed)
      /\ \A i \in DOMAIN run.observations :
            run.observations[i].finish # NoValue => run.finish # NoValue
      /\ Cardinality(Shown) <= Cardinality(Passed(clock))
      /\ Cardinality(Shown) \in Nat /\ IsFiniteSet(Shown)
      /\ Cardinality(Passed(clock)) \in Nat /\ Cardinality(Passed(clock')) \in Nat
  BY <1>1, ShownFinite, PassedFinite DEF ObservedInv
<1>4. run.finish # NoValue => run'.finish # NoValue
  BY TickKeepsFinish
<1>5. Cardinality(Passed(clock)) <= Cardinality(Passed(clock'))
  BY <1>1, PassedGrows
<1>6. CASE run'.observations = run.observations
  <2>1. Shown' = Shown
    BY <1>6 DEF Shown
  <2>2. Cardinality(Shown') <= Cardinality(Passed(clock'))
    BY <1>3, <1>5, <2>1
  <2> QED
    BY <1>2, <1>3, <1>4, <1>6, <2>2 DEF ObservedInv, Observed
<1>7. ASSUME NEW o \in Observed,
             run'.observations = Append(run.observations, o),
             o.compared => IsTarget(clock'),
             o.finish # NoValue => run'.finish # NoValue
      PROVE  ObservedInv'
  <2> DEFINE n == Len(run.observations)
  <2>1. /\ n \in Nat /\ DOMAIN run.observations = 1..n
        /\ run'.observations \in Seq(Observed)
        /\ DOMAIN run'.observations = 1..(n + 1)
        /\ run'.observations[n + 1] = o
        /\ \A i \in 1..n : run'.observations[i] = run.observations[i]
    BY <1>3, <1>7
  <2>2. \A i \in DOMAIN run'.observations :
            run'.observations[i].finish # NoValue => run'.finish # NoValue
    BY <1>3, <1>4, <1>7, <2>1
  <2>3. Cardinality(Shown') <= Cardinality(Passed(clock'))
    <3>1. CASE o.compared
      <4>1. Shown' = Shown \cup {n + 1} /\ n + 1 \notin Shown
        BY <2>1, <3>1 DEF Shown
      <4>2. Cardinality(Shown') = Cardinality(Shown) + 1
        BY <1>3, <4>1, FS_AddElement
      <4>3. Cardinality(Passed(clock)) + 1 <= Cardinality(Passed(clock'))
        BY <1>1, <1>7, <3>1, TargetPasses
      <4> QED
        BY <1>3, <4>2, <4>3
    <3>2. CASE ~o.compared
      <4>1. Shown' = Shown
        BY <2>1, <3>2 DEF Shown
      <4> QED
        BY <1>3, <1>5, <4>1
    <3> QED
      BY <3>1, <3>2
  <2> QED
    BY <1>2, <2>1, <2>2, <2>3 DEF ObservedInv, Observed
<1> QED
  BY <1>6, <1>7, TickObserves

\* Nothing is scanned yet.
LEMMA TickKeepsScanned ==
    ASSUME IInv, JInv, SimulateTick
    PROVE  ScannedInv'
<1>1. /\ ScannedInv /\ cursor = 0 /\ UNCHANGED <<cursor, scan>>
      /\ run.observations \in Seq(Observed)
  BY DEF SimulateTick, JInv, ObservedInv
<1>2. run'.observations \in Seq(Observed)
  BY TickKeepsObserved DEF ObservedInv, Observed
<1>3. UpTo(0) = {} /\ cursor \notin Shown
  BY <1>1, ShownFinite DEF UpTo
<1>4. Shown' \subseteq Nat \ {0} /\ 0 \in 0..Len(run'.observations)
  BY <1>2 DEF Shown
<1>5. UpTo(cursor)' = {} /\ Inexact(UpTo(cursor))' = {}
  <2>1. \A i \in Nat \ {0} : ~(i <= 0)
    OBVIOUS
  <2>2. UpTo(cursor)' = {}
    BY <1>1, <1>4, <2>1 DEF UpTo
  <2> QED
    BY <2>2 DEF Inexact
<1>6. UpTo(cursor) = {} /\ Inexact(UpTo(cursor)) = {}
  BY <1>1, <1>3 DEF Inexact
<1>7. /\ scan.measured = Cardinality({}) /\ scan.status = "Valid"
      /\ scan.firstDivergence = NoValue /\ scan.firstExact = NoValue
      /\ scan.maxAt = NoValue /\ scan.max \in Nat /\ scan.max < Threshold
  BY <1>1, <1>3, <1>6 DEF ScannedInv
<1> QED
  BY <1>1, <1>4, <1>5, <1>7 DEF ScannedInv

-----------------------------------------------------------------------------
(* A sample is scanned.                                                    *)

\* A sample that ends the scan, or one more that does not.
LEMMA ScanAdvances ==
    ASSUME IInv, JInv, ScanObservation
    PROVE  ScannedInv'
<1> DEFINE n == cursor + 1
           o == run.observations[n]
           d == o.distance
<1>1. /\ ScannedInv /\ run.observations \in Seq(Observed)
      /\ scan.status = "Valid" /\ cursor < Len(run.observations) /\ cursor' = n
      /\ scan' = IF ~o.compared THEN scan
                 ELSE IF d = NotFinite THEN NotMeasurable ELSE Measured(d)
      /\ UNCHANGED run /\ IsScan(scan)
  BY DEF ScanObservation, Scanning, JInv, ObservedInv, IInv, ScanInv
<1>2. /\ cursor \in Nat /\ n \in Nat /\ n \in 1..Len(run.observations)
      /\ n \in 0..Len(run.observations)
      /\ cursor = n - 1 /\ o \in Observed
  BY <1>1, ShownFinite DEF ScannedInv
<1>3. /\ \A i : SampleOf(i)' = SampleOf(i)
      /\ Shown' = Shown
      /\ \A m : UpTo(m)' = UpTo(m)
      /\ \A i : Distance(i)' = Distance(i)
      /\ \A i : (Within(run.observations[i]))' = Within(run.observations[i])
  BY <1>1 DEF SampleOf, Shown, UpTo, Distance, Within
<1>4. UpTo(cursor)' = UpTo(n) /\ UpTo(cursor - 1)' = UpTo(cursor)
  BY <1>1, <1>2 DEF UpTo, Shown
<1>5. Inexact(UpTo(cursor))' = Inexact(UpTo(n))
  BY <1>1, <1>4 DEF Inexact, Distance
<1>6. /\ scan.measured = Cardinality(UpTo(cursor)) /\ scan.firstDivergence = NoValue
      /\ \A i \in UpTo(cursor) : Within(run.observations[i])
      /\ scan.max \in Nat /\ scan.max < Threshold
      /\ \A i \in Inexact(UpTo(cursor)) : Distance(i) <= scan.max
      /\ \/ scan.maxAt = NoValue
         \/ \E i \in UpTo(cursor) : SampleOf(i) = scan.maxAt /\ Distance(i) = scan.max
      /\ \/ scan.firstExact = NoValue /\ Inexact(UpTo(cursor)) = {}
         \/ \E k \in Inexact(UpTo(cursor)) :
              /\ scan.firstExact = SampleOf(k)
              /\ \A i \in Inexact(UpTo(cursor)) : k <= i
  BY <1>1 DEF ScannedInv
<1>7. CASE ~o.compared
  <2>1. UpTo(n) = UpTo(cursor) /\ scan' = scan
    BY <1>1, <1>2, <1>7, OneFurther
  <2>2. cursor' \in 0..Len(run'.observations)
    BY <1>1, <1>2
  <2> QED
    BY <1>1, <1>3, <1>4, <1>5, <1>6, <2>1, <2>2 DEF ScannedInv
<1>8. CASE o.compared
  <2>1. /\ n \in Shown /\ UpTo(n) = UpTo(cursor) \cup {n}
        /\ SampleOf(n) = scan.measured /\ scan.measured \in Nat
        /\ Cardinality(UpTo(n)) = scan.measured + 1
        /\ UpTo(cursor) \subseteq UpTo(n) /\ n \in UpTo(n)
    BY <1>1, <1>2, <1>6, <1>8, OneFurther, Numbers
  <2>2. cursor' \in 0..Len(run'.observations) /\ Distance(n) = d
    BY <1>1, <1>2 DEF Distance
  <2> HIDE DEF o, d
  <2>3. CASE d = NotFinite
    <3>1. /\ scan'.measured = scan.measured + 1 /\ scan'.status = "ObservationError"
          /\ scan'.firstDivergence = scan.measured /\ scan'.max = scan.max
          /\ scan'.maxAt = scan.maxAt /\ scan'.firstExact = scan.firstExact
      BY <1>1, <1>8, <2>3 DEF NotMeasurable, IsScan
    <3>2. Inexact(UpTo(n)) = Inexact(UpTo(cursor))
      BY <2>1, <2>2, <2>3, ValidationAssumption DEF Inexact
    <3>3. ~Within(run.observations[n])
      BY <2>2, <2>3 DEF Within, Distance
    <3>4. \/ scan'.maxAt = NoValue
          \/ \E i \in UpTo(n) : SampleOf(i) = scan'.maxAt /\ Distance(i) = scan'.max
      BY <1>6, <2>1, <3>1
    <3> QED
      BY <1>1, <1>3, <1>4, <1>5, <1>6, <2>1, <2>2, <3>1, <3>2, <3>3, <3>4
         DEF ScannedInv
  <2>4. CASE d # NotFinite
    <3>1. d \in Distances /\ d \in Nat /\ Threshold \in Nat
      BY <1>2, <2>4, ConstantsType DEF Observed, o, d
    <3>2. /\ scan'.measured = scan.measured + 1
          /\ scan'.firstExact = IF scan.firstExact = NoValue /\ d > 0
                                THEN scan.measured ELSE scan.firstExact
          /\ scan'.max = Max({scan.max, d})
          /\ scan'.maxAt = IF scan.max < d THEN scan.measured ELSE scan.maxAt
          /\ scan'.status = IF d >= Threshold THEN "WrongSimulation" ELSE scan.status
          /\ scan'.firstDivergence = IF d >= Threshold THEN scan.measured
                                     ELSE scan.firstDivergence
      BY <1>1, <1>8, <2>4 DEF Measured, IsScan
    <3>3. /\ scan'.max = IF scan.max >= d THEN scan.max ELSE d
          /\ scan'.max \in Nat /\ d <= scan'.max /\ scan.max <= scan'.max
      BY <1>6, <3>1, <3>2, MaxOfTwo
    <3>4. Inexact(UpTo(n)) = IF d > 0 THEN Inexact(UpTo(cursor)) \cup {n}
                             ELSE Inexact(UpTo(cursor))
      BY <2>1, <2>2, <3>1 DEF Inexact
    <3>5. \A i \in Inexact(UpTo(n)) : Distance(i) <= scan'.max
      <4>1. \A i \in Inexact(UpTo(cursor)) : Distance(i) \in Nat
        BY ConstantsType DEF Inexact
      <4> QED
        BY <1>6, <2>2, <3>1, <3>3, <3>4, <4>1
    <3>6. \/ scan'.firstExact = NoValue /\ Inexact(UpTo(n)) = {}
          \/ \E k \in Inexact(UpTo(n)) :
               /\ scan'.firstExact = SampleOf(k)
               /\ \A i \in Inexact(UpTo(n)) : k <= i
      <4>1. CASE scan.firstExact = NoValue /\ Inexact(UpTo(cursor)) = {}
        <5>1. CASE d > 0
          <6>1. Inexact(UpTo(n)) = {n} /\ scan'.firstExact = SampleOf(n)
            BY <2>1, <3>2, <3>4, <4>1, <5>1
          <6> QED
            BY <1>2, <6>1
        <5>2. CASE ~(d > 0)
          BY <3>2, <3>4, <4>1, <5>2
        <5> QED
          BY <5>1, <5>2
      <4>2. ASSUME NEW k \in Inexact(UpTo(cursor)),
                   scan.firstExact = SampleOf(k),
                   \A i \in Inexact(UpTo(cursor)) : k <= i
            PROVE  /\ k \in Inexact(UpTo(n)) /\ scan'.firstExact = SampleOf(k)
                   /\ \A i \in Inexact(UpTo(n)) : k <= i
        <5>1. k \in Shown /\ k \in Nat /\ k <= cursor
          BY <1>1, ShownFinite DEF Inexact, UpTo
        <5>2. SampleOf(k) \in Nat
          BY <1>1, <1>2, <5>1, Numbers
        <5>3. scan.firstExact # NoValue
          BY <4>2, <5>2 DEF NoValue
        <5>4. k <= n
          BY <1>2, <5>1
        <5> QED
          BY <3>2, <3>4, <4>2, <5>3, <5>4
      <4> QED
        BY <1>6, <4>1, <4>2
    <3>7. \/ scan'.maxAt = NoValue
          \/ \E i \in UpTo(n) : SampleOf(i) = scan'.maxAt /\ Distance(i) = scan'.max
      <4>1. CASE scan.max < d
        BY <1>6, <2>1, <2>2, <3>1, <3>2, <3>3, <4>1
      <4>2. CASE ~(scan.max < d)
        <5>1. scan'.max = scan.max /\ scan'.maxAt = scan.maxAt
          BY <1>6, <3>1, <3>2, <3>3, <4>2
        <5> QED
          BY <1>6, <2>1, <5>1
      <4> QED
        BY <4>1, <4>2
    <3>8. \/ /\ scan'.status = "Valid" /\ scan'.firstDivergence = NoValue
             /\ \A i \in UpTo(n) : Within(run.observations[i])
             /\ scan'.max < Threshold
          \/ /\ scan'.status # "Valid" /\ scan'.firstDivergence = SampleOf(n)
             /\ n \in Shown /\ ~Within(run.observations[n])
             /\ \A i \in UpTo(cursor) : Within(run.observations[i])
      <4>1. Within(run.observations[n]) <=> d < Threshold
        BY <2>2, <2>4 DEF Within, Distance
      <4>2. CASE d >= Threshold
        BY <1>6, <2>1, <3>1, <3>2, <4>1, <4>2
      <4>3. CASE ~(d >= Threshold)
        <5>1. d < Threshold /\ scan'.max < Threshold
          BY <1>6, <3>1, <3>3, <4>3
        <5> QED
          BY <1>1, <1>6, <2>1, <3>2, <4>1, <4>3, <5>1
      <4> QED
        BY <4>2, <4>3
    <3> QED
      BY <1>1, <1>3, <1>4, <1>5, <2>1, <2>2, <3>2, <3>3, <3>5, <3>6, <3>7, <3>8
         DEF ScannedInv
  <2> QED
    BY <2>3, <2>4
<1> QED
  BY <1>7, <1>8

LEMMA JInvStep == IInv /\ JInv /\ [Next]_vars => JInv'
<1> SUFFICES ASSUME IInv, JInv, [Next]_vars
             PROVE  JInv'
  OBVIOUS
<1> USE DEF JInv
<1>k. ASSUME UNCHANGED <<replay, requested, clock, run, cursor, scan>>
      PROVE  requested' \in Requested /\ ObservedInv' /\ ScannedInv'
  BY <1>k, ObservedKept, ScannedKept
<1>1. CASE Classify
  <2>1. /\ UNCHANGED <<replay, requested, clock, run, cursor, scan>>
        /\ \/ pc' = "done"
           \/ pc' = "simulate" /\ replay.compatible /\ replay.hasInput
        /\ pc = "classify"
    BY <1>1 DEF Classify, ReportAs
  <2> QED
    BY <1>k, <2>1
<1>2. CASE NoMapStart
  BY <1>k, <1>2 DEF NoMapStart, ReportAs
<1>3. CASE Fail
  BY <1>k, <1>3 DEF Fail
<1>4. CASE SimulateTick
  <2>1. /\ UNCHANGED <<replay, requested, pc, cursor>> /\ pc = "simulate"
    BY <1>4 DEF SimulateTick
  <2> QED
    BY <1>4, <2>1, TickKeepsObserved, TickKeepsScanned
<1>5. CASE EndSimulation
  <2>1. /\ UNCHANGED <<replay, requested, clock, cursor, scan>>
        /\ pc = "simulate" /\ pc' = "evaluate"
        /\ IsRun(run) /\ clock \in Nat
    BY <1>5 DEF EndSimulation, IInv, RunInv
  <2>2. clock > 0
    <3>1. ~(clock + Tick <= LastTick) /\ LastTick >= Tick /\ Tick \in Nat
      <4>1. clock + Tick > LastTick
        BY <1>5 DEF EndSimulation
      <4>2. LastTick \in Int /\ LastTick >= Tick /\ Tick \in Nat
        BY PlanType, ConstantsType DEF IInv
      <4> QED
        BY <2>1, <4>1, <4>2
    <3>2. clock # 0
      BY <3>1
    <3> QED
      BY <2>1, <3>2
  <2>3. /\ run'.observations = run.observations /\ run'.finish = run.finish
        /\ sim'.observations = run'.observations
    <3>1. CASE run' = run /\ sim' = RecordedOutcome(run)
      BY <2>1, <3>1 DEF RecordedOutcome, IsRun
    <3>2. ASSUME NEW score, NEW atLimit,
                 run' = [run EXCEPT !.score = score, !.atLimit = atLimit],
                 sim' = RecordedOutcome(Penalised(run'))
          PROVE  /\ run'.observations = run.observations /\ run'.finish = run.finish
                 /\ sim'.observations = run'.observations
      BY <2>1, <3>2 DEF RecordedOutcome, Penalised, IsRun
    <3> QED
      BY <1>5, <3>1, <3>2 DEF EndSimulation
  <2> QED
    BY <2>1, <2>2, <2>3, ObservedKept, ScannedKept
<1>6. CASE ScanObservation
  <2>1. /\ UNCHANGED <<replay, requested, clock, run, sim, pc>> /\ pc = "evaluate"
    BY <1>6 DEF ScanObservation
  <2> QED
    BY <1>6, <2>1, ObservedKept, ScanAdvances
<1>7. CASE Report
  BY <1>k, <1>7 DEF Report
<1>8. CASE UNCHANGED vars
  BY <1>k, <1>8 DEF vars
<1> QED
  BY <1>1, <1>2, <1>3, <1>4, <1>5, <1>6, <1>7, <1>8 DEF Next

LEMMA JInvHolds == Spec => [](IInv /\ JInv)
<1>1. IInv /\ JInv /\ [Next]_vars => (IInv /\ JInv)'
  BY IInvStep, JInvStep
<1> QED
  BY <1>1, IInvInit, JInvInit, PTL DEF Spec

\* The samples scanned are those with the first numbers.
LEMMA ScannedSamples ==
    ASSUME ObservedInv, ScannedInv
    PROVE  {i \in Shown : SampleOf(i) < scan.measured} = UpTo(cursor)
<1>1. /\ run.observations \in Seq(Observed) /\ cursor \in Nat
      /\ scan.measured = Cardinality(UpTo(cursor))
  BY ShownFinite DEF ObservedInv, ScannedInv
<1>2. \A i \in Shown : i <= cursor <=> SampleOf(i) < scan.measured
  BY <1>1, Numbers
<1> QED
  BY <1>2 DEF UpTo

LEMMA ScanStops == ObservedInv /\ ScannedInv => ScanStopsAtFirstDivergence
<1> SUFFICES ASSUME ObservedInv, ScannedInv PROVE ScanStopsAtFirstDivergence
  OBVIOUS
<1> DEFINE scanned == {i \in Shown : SampleOf(i) < scan.measured}
           bad == {i \in scanned : ~Within(run.observations[i])}
           inexact == {i \in scanned : run.observations[i].distance \in Distances \ {0}}
<1>1. scanned = UpTo(cursor) /\ inexact = Inexact(UpTo(cursor))
  BY ScannedSamples DEF Inexact, Distance
<1>2. /\ run.observations \in Seq(Observed) /\ cursor \in Nat /\ Shown \subseteq Nat \ {0}
      /\ Cardinality(scanned) = scan.measured
  <2>1. run.observations \in Seq(Observed) /\ scan.measured = Cardinality(UpTo(cursor))
        /\ cursor \in 0..Len(run.observations)
    BY DEF ObservedInv, ScannedInv
  <2>2. Shown \subseteq 1..Len(run.observations) /\ Len(run.observations) \in Nat
    BY <2>1, ShownFinite
  <2> HIDE DEF scanned
  <2> QED
    BY <1>1, <2>1, <2>2
<1>3. /\ {SampleOf(i) : i \in bad} = IF scan.firstDivergence = NoValue THEN {}
                                     ELSE {scan.firstDivergence}
      /\ \A i \in bad : SampleOf(i) = scan.measured - 1
  <2>1. CASE scan.status = "Valid"
    <3>1. bad = {} /\ scan.firstDivergence = NoValue
      BY <1>1, <2>1 DEF ScannedInv
    <3> QED
      BY <3>1
  <2>2. CASE scan.status # "Valid"
    <3>1. /\ scan.firstDivergence = SampleOf(cursor)
          /\ cursor \in Shown /\ ~Within(run.observations[cursor])
          /\ \A i \in UpTo(cursor - 1) : Within(run.observations[i])
      BY <2>2 DEF ScannedInv
    <3>2. \A i \in Nat : i <= cursor => i <= cursor - 1 \/ i = cursor
      BY <1>2
    <3>3. bad = {cursor}
      <4>1. cursor \in UpTo(cursor) /\ UpTo(cursor) \subseteq Nat
        <5>1. cursor <= cursor
          BY <1>2
        <5> QED
          BY <1>2, <3>1, <5>1 DEF UpTo
      <4>2. \A i \in UpTo(cursor) : i \in UpTo(cursor - 1) \/ i = cursor
        BY <1>2, <3>2, <4>1 DEF UpTo
      <4>3. bad = {i \in UpTo(cursor) : ~Within(run.observations[i])}
        BY <1>1
      <4> HIDE DEF bad, scanned
      <4> QED
        BY <3>1, <4>1, <4>2, <4>3
    <3>4. SampleOf(cursor) \in Nat /\ scan.measured = SampleOf(cursor) + 1
      <4> DEFINE m == cursor - 1
      <4>1. m \in Nat /\ m + 1 = cursor /\ cursor <= Len(run.observations)
            /\ Len(run.observations) \in Nat
        BY <1>2, <3>1, ShownFinite DEF ScannedInv
      <4>2. m < Len(run.observations) /\ run.observations[m + 1].compared
        BY <3>1, <4>1 DEF Shown
      <4>3. /\ SampleOf(m + 1) = Cardinality(UpTo(m))
            /\ Cardinality(UpTo(m + 1)) = Cardinality(UpTo(m)) + 1
        BY <1>2, <4>1, <4>2, OneFurther
      <4> QED
        BY <1>1, <1>2, <3>1, <4>1, <4>3, Numbers
    <3>5. scan.firstDivergence # NoValue
      BY <3>1, <3>4 DEF NoValue
    <3> HIDE DEF bad
    <3> QED
      BY <3>1, <3>3, <3>4, <3>5
  <2> QED
    BY <2>1, <2>2
<1>4. scan.firstExact = IF inexact = {} THEN NoValue ELSE SampleOf(Min(inexact))
  <2>1. CASE inexact = {}
    BY <1>1, <2>1 DEF ScannedInv
  <2>2. CASE inexact # {}
    <3>1. PICK k \in inexact : /\ scan.firstExact = SampleOf(k)
                               /\ \A i \in inexact : k <= i
      BY <1>1, <2>2 DEF ScannedInv
    <3>2. inexact \in SUBSET Nat
      BY <1>2
    <3>3. Min(inexact) = k
      BY <3>1, <3>2, LeastIs
    <3> HIDE DEF inexact
    <3> QED
      BY <2>2, <3>1, <3>3
  <2> QED
    BY <2>1, <2>2
<1>5. /\ scan.maxAt # NoValue => \E i \in scanned :
            SampleOf(i) = scan.maxAt /\ run.observations[i].distance = scan.max
      /\ \A i \in inexact : run.observations[i].distance <= scan.max
  BY <1>1 DEF ScannedInv, Distance
<1> QED
  BY <1>2, <1>3, <1>4, <1>5 DEF ScanStopsAtFirstDivergence

-----------------------------------------------------------------------------
(* A replay is valid exactly if it was reproduced.                         *)

\* The seventh row is taken if no row before it applies.
LEMMA LastOfSeven ==
    ASSUME NEW r1, NEW r2, NEW r3, NEW r4, NEW r5, NEW r6, NEW r7, r7.when
    PROVE  LET row == FirstOf(<<r1, r2, r3, r4, r5, r6, r7>>)
           IN IF r1.when \/ r2.when \/ r3.when \/ r4.when \/ r5.when \/ r6.when
              THEN (r1.when /\ row = r1) \/ row \in {r2, r3, r4, r5, r6}
              ELSE row = r7
<1> DEFINE rows == <<r1, r2, r3, r4, r5, r6, r7>>
<1>1. /\ DOMAIN rows = 1..7 /\ rows[7].when
      /\ rows[1] = r1 /\ rows[2] = r2 /\ rows[3] = r3
      /\ rows[4] = r4 /\ rows[5] = r5 /\ rows[6] = r6 /\ rows[7] = r7
  OBVIOUS
<1> HIDE DEF rows
<1>2. PICK i \in 1..7 : /\ FirstOf(rows) = rows[i] /\ rows[i].when
                        /\ \A j \in 1..(i - 1) : ~rows[j].when
  <2>1. 7 \in Nat \ {0}
    OBVIOUS
  <2> QED
    BY <1>1, <2>1, FirstRow, Zenon
<1>3. i \in {1, 2, 3, 4, 5, 6, 7}
  OBVIOUS
<1>4. i = 7 => /\ ~r1.when /\ ~r2.when /\ ~r3.when
               /\ ~r4.when /\ ~r5.when /\ ~r6.when
  BY <1>1, <1>2
<1> QED
  BY <1>1, <1>2, <1>3, <1>4 DEF rows

LEMMA ReasonValid ==
    ASSUME NEW a
    PROVE  Reason(a).status = "Valid" <=> Compared(a) = "Valid"
<1> DEFINE r1 == Row(Compared(a) = "Valid", "Valid", "Valid")
           r2 == Row(Compared(a) = "WrongSimulation",
                     "WrongSimulation", "WrongSimulation")
           r3 == Row(TimeDiffers(ReasonTime(a)), "RaceTimeMismatch", "Invalid")
           r4 == Row(ScoreDiffers(a), "StuntsScoreMismatch", "Invalid")
           r5 == Row(RespawnsDiffer(a), "RespawnCountMismatch", "Invalid")
           r6 == Row(TRUE, "ExpectingCompletedRace", "Invalid")
<1>1. /\ r1.when <=> Compared(a) = "Valid"
      /\ r6.when
      /\ r1.status = "Valid" /\ r2.status # "Valid" /\ r3.status # "Valid"
      /\ r4.status # "Valid" /\ r5.status # "Valid" /\ r6.status # "Valid"
  BY DEF Row
<1>2. Reason(a) = FirstOf(<<r1, r2, r3, r4, r5, r6>>)
  BY DEF Reason
<1> HIDE DEF r1, r2, r3, r4, r5, r6
<1>3. \/ r1.when /\ Reason(a) = r1
      \/ Reason(a) \in {r2, r3, r4, r5, r6} /\ ~r1.when
  <2> DEFINE row == FirstOf(<<r1, r2, r3, r4, r5, r6>>)
  <2>1. \/ r1.when /\ row = r1
        \/ row \in {r2, r3, r4, r5, r6} /\ ~r1.when
    BY <1>1, FirstOfSix
  <2> QED
    BY <1>2, <2>1
<1> QED
  BY <1>1, <1>3

\* What every early return has to let pass.
LEMMA VerdictValid ==
    ASSUME IInv, NEW a
    PROVE  Verdict(a).status = "Valid" <=>
             /\ scan.status = "Valid"
             /\ ~(scan.measured < Expected)
             /\ ~(TimedByInputs /\ ExpectedTime = NoValue)
             /\ ~(replay.mode = "Stunts" /\ ExpectedScore = NoValue)
             /\ ~(replay.mode # "Race" /\ replay.respawns = NoValue)
             /\ ~(TimedByInputs /\ ~a.completed)
             /\ Compared(a) = "Valid"
<1> DEFINE r1 == Row(scan.status # "Valid", scan.status, scan.outcome)
           r2 == Row(scan.measured < Expected, "IncompleteStandaloneRun", "Unavailable")
           r3 == Row(TimedByInputs /\ ExpectedTime = NoValue, "ObservationError", "Error")
           r4 == Row(replay.mode = "Stunts" /\ ExpectedScore = NoValue,
                     "ObservationError", "Error")
           r5 == Row(replay.mode # "Race" /\ replay.respawns = NoValue,
                     "RespawnExpectationUnavailable", "Unavailable")
           r6 == Row(TimedByInputs /\ ~a.completed, "ExpectingCompletedRace", "Invalid")
           r7 == Row(TRUE, Reason(a).status, Reason(a).outcome)
<1>1. Verdict(a) = FirstOf(<<r1, r2, r3, r4, r5, r6, r7>>)
  BY DEF Verdict
<1>2. /\ r1.when <=> scan.status # "Valid"
      /\ r2.when <=> scan.measured < Expected
      /\ r3.when <=> TimedByInputs /\ ExpectedTime = NoValue
      /\ r4.when <=> replay.mode = "Stunts" /\ ExpectedScore = NoValue
      /\ r5.when <=> replay.mode # "Race" /\ replay.respawns = NoValue
      /\ r6.when <=> TimedByInputs /\ ~a.completed
      /\ r7.when
  BY DEF Row
<1>3. /\ r1.status = scan.status /\ r7.status = Reason(a).status
      /\ r2.status # "Valid" /\ r3.status # "Valid" /\ r4.status # "Valid"
      /\ r5.status # "Valid" /\ r6.status # "Valid"
  BY DEF Row
<1> HIDE DEF r1, r2, r3, r4, r5, r6, r7
<1>4. IF r1.when \/ r2.when \/ r3.when \/ r4.when \/ r5.when \/ r6.when
      THEN (r1.when /\ Verdict(a) = r1) \/ Verdict(a) \in {r2, r3, r4, r5, r6}
      ELSE Verdict(a) = r7
  <2> DEFINE row == FirstOf(<<r1, r2, r3, r4, r5, r6, r7>>)
  <2>1. IF r1.when \/ r2.when \/ r3.when \/ r4.when \/ r5.when \/ r6.when
        THEN (r1.when /\ row = r1) \/ row \in {r2, r3, r4, r5, r6}
        ELSE row = r7
    BY <1>2, LastOfSeven
  <2> QED
    BY <1>1, <2>1
<1> QED
  BY <1>2, <1>3, <1>4, ReasonValid

\* Compared as far as the recorded time, and within the threshold.
LEMMA GhostFollowed ==
    ASSUME IInv, JInv, pc = "evaluate", ~Scanning
    PROVE  scan.status = "Valid" /\ ~(scan.measured < Expected) <=>
             /\ Cardinality(Shown) = Expected
             /\ \A i \in Shown : Within(run.observations[i])
<1>1. /\ run.observations \in Seq(Observed) /\ cursor \in 0..Len(run.observations)
      /\ scan.measured = Cardinality(UpTo(cursor))
      /\ Cardinality(Shown) <= Cardinality(Passed(clock))
      /\ sim.observations = run.observations
  BY DEF JInv, ObservedInv, ScannedInv
<1>2. /\ Cardinality(Shown) \in Nat /\ Expected \in Nat
      /\ Cardinality(Shown) <= Expected
  <2>1. /\ Targets \in Nat /\ clock \in Nat /\ Expected \in Nat /\ Targets <= Expected
    BY PlanType DEF IInv, JInv, RunInv
  <2>2. /\ Cardinality(Passed(clock)) \in Nat /\ Cardinality(Passed(clock)) <= Targets
        /\ Cardinality(Shown) \in Nat
    BY <1>1, <2>1, PassedFinite, ShownFinite
  <2> QED
    BY <1>1, <2>1, <2>2
<1>3. scan.status = "Valid" =>
        /\ UpTo(cursor) = Shown
        /\ \A i \in Shown : Within(run.observations[i])
  <2> SUFFICES ASSUME scan.status = "Valid"
               PROVE  UpTo(cursor) = Shown /\ \A i \in Shown : Within(run.observations[i])
    OBVIOUS
  <2>1. cursor = Len(run.observations) /\ Len(run.observations) \in Nat
    BY <1>1, ShownFinite DEF Scanning
  <2>2. UpTo(cursor) = Shown
    BY <1>1, <2>1, ShownFinite DEF UpTo
  <2>3. \A i \in UpTo(cursor) : Within(run.observations[i])
    BY DEF JInv, ScannedInv
  <2> QED
    BY <2>2, <2>3
<1>4. scan.status # "Valid" => \E i \in Shown : ~Within(run.observations[i])
  BY DEF JInv, ScannedInv
<1> QED
  BY <1>1, <1>2, <1>3, <1>4

\* A race that counts as completed has a finish that counts.
LEMMA CompletedFinish ==
    ASSUME IInv, JInv, pc = "evaluate"
    PROVE  Actual.completed <=> CountedFinish # NoValue
<1>1. CASE replay.mode # "Race"
  BY <1>1, ActualFields DEF CountedFinish
<1>2. CASE replay.mode = "Race"
  <2>1. CountedFinish # NoValue => Actual.completed
    BY ActualFields
  <2>2. ASSUME run.finish = NoValue PROVE ~Actual.completed
    <3>1. sim = run /\ run.estimate = NoEstimate
      BY <1>2, <2>2, EvaluatedRun, ConstantsType DEF IInv, RunInv, NoValue
    <3>2. ~(sim.estimate.estimated >= Prestart * NsPerMs)
      <4>1. Prestart * NsPerMs \in Nat
        BY ConstantsType
      <4>2. sim.estimate.estimated = -1
        BY <3>1 DEF NoEstimate, NoValue
      <4>3. \A n \in Nat : ~(-1 >= n)
        OBVIOUS
      <4> QED
        BY <4>1, <4>2, <4>3, Zenon
    <3>3. ScannedFinish = NoValue
      <4>1. /\ run.observations \in Seq(Observed) /\ cursor \in 0..Len(run.observations)
            /\ \A i \in DOMAIN run.observations : run.observations[i].finish = NoValue
        BY <2>2 DEF JInv, ObservedInv, ScannedInv
      <4>2. \A i \in 1..cursor : ~(sim.observations[i].finish >= Prestart)
        <5>1. \A i \in 1..cursor : i \in DOMAIN run.observations
          BY <4>1
        <5>2. ~(NoValue >= Prestart)
          BY ConstantsType DEF NoValue
        <5> QED
          BY <3>1, <4>1, <5>1, <5>2
      <4>3. {i \in 1..cursor : sim.observations[i].finish >= Prestart} = {}
        BY <4>2
      <4> QED
        BY <4>3 DEF ScannedFinish
    <3> QED
      BY <2>2, <3>1, <3>2, <3>3 DEF Actual
  <2>3. run.finish # NoValue => CountedFinish # NoValue
    <3>1. run.finish # NoValue => run.finish \in Nat /\ run.finish - Prestart \in Nat
      BY ConstantsType DEF IInv, RunInv, NoValue
    <3>2. -1 \notin Nat
      OBVIOUS
    <3> QED
      BY <1>2, <3>1, <3>2 DEF CountedFinish, NoValue
  <2>4. run.finish = NoValue => CountedFinish = NoValue
    BY <1>2 DEF CountedFinish
  <2>5. Actual.completed \in BOOLEAN
    BY DEF Actual
  <2> QED
    BY <2>1, <2>2, <2>3, <2>4, <2>5, Zenon
<1> QED
  BY <1>1, <1>2

\* What the code compares is what the outcome has to agree in.
LEMMA OutcomeCompared ==
    ASSUME IInv, JInv, pc = "evaluate", Recorded, scan.max < Threshold
    PROVE  Compared(Actual) = "Valid" <=> OutcomeAgrees
<1>1. scan.max \in Nat /\ Threshold \in Nat
  BY ConstantsType DEF JInv, ScannedInv
<1>2. Compared(Actual) = "Valid" <=>
        /\ Actual.completed /\ ~TimeDiffers(ComparedTime(Actual))
        /\ ~ScoreDiffers(Actual) /\ ~RespawnsDiffer(Actual)
  BY <1>1 DEF Compared
<1>3. Actual.completed <=> CountedFinish # NoValue
  BY CompletedFinish
<1>4. RespawnsDiffer(Actual) <=>
        replay.respawns # NoValue /\ replay.respawns # CountedRespawns
  BY ActualFields DEF RespawnsDiffer
<1>5. ScoreDiffers(Actual) <=> replay.mode = "Stunts" /\ ~ScoreAgrees
  BY ActualFields, EvaluatedScore DEF ScoreDiffers, ExpectedScore, Recorded, NoValue
<1>6. ASSUME CountedFinish # NoValue
      PROVE  TimeDiffers(ComparedTime(Actual)) <=>
               replay.mode # "Stunts" /\ ~TimeAgrees
  <2>1. CountedFinish \in Nat /\ ComparedTime(Actual) = CountedFinish
    BY <1>6, ActualFields DEF ComparedTime
  <2>2. CASE replay.mode = "Stunts"
    BY <2>2 DEF TimeDiffers, ExpectedTime
  <2>3. CASE replay.mode # "Stunts"
    <3> DEFINE recorded == IF replay.raceTime = NoValue THEN 0 ELSE replay.raceTime
    <3>1. replay.mode # "Race" => replay.raceTime # NoValue
      BY <2>3, ReplayType DEF Recorded, TimedByInputs, IInv, Modes
    <3>2. ExpectedTime = recorded /\ recorded \in Nat /\ Tolerance \in Nat
      BY <2>3, <3>1, ReplayType, ConstantsType DEF ExpectedTime, IInv, OrNone, NoValue
    <3>3. TimeAgrees <=>
            CountedFinish \in (recorded - Tolerance)..(recorded + Tolerance)
      BY <1>6 DEF TimeAgrees
    <3> HIDE DEF recorded
    <3> QED
      BY <2>1, <2>3, <3>2, <3>3 DEF TimeDiffers, NoValue
  <2> QED
    BY <2>2, <2>3
<1> QED
  BY <1>2, <1>3, <1>4, <1>5, <1>6 DEF OutcomeAgrees

LEMMA VerdictReproduced ==
    ASSUME IInv, JInv, Report
    PROVE  Verdict(Actual).status = "Valid" <=> Reproduced'
<1>1. /\ pc = "evaluate" /\ ~Scanning /\ pc' = "done"
      /\ UNCHANGED <<replay, requested, clock, run>>
  BY DEF Report
<1>2. Reproduced' <=>
        /\ Recorded
        /\ Cardinality(Shown) = Expected
        /\ \A i \in Shown : Within(run.observations[i])
        /\ OutcomeAgrees
  <2>1. Evaluated' <=> TRUE
    BY <1>1 DEF Evaluated, JInv
  <2>2. /\ Recorded' <=> Recorded /\ TRUE
        /\ OutcomeAgrees' <=> OutcomeAgrees /\ TRUE
        /\ Shown' = Shown /\ Expected' = Expected
    BY <1>1 DEF Recorded, TimedByInputs, OutcomeAgrees, TimeAgrees, ScoreAgrees,
                CountedFinish, CountedRespawns, Shown, Expected, Through
  <2> QED
    BY <1>1, <2>1, <2>2 DEF Reproduced, Within
<1>3. Recorded <=>
        /\ ~(TimedByInputs /\ ExpectedTime = NoValue)
        /\ ~(replay.mode = "Stunts" /\ ExpectedScore = NoValue)
        /\ ~(replay.mode # "Race" /\ replay.respawns = NoValue)
  <2>1. replay.compatible /\ replay.hasInput
    BY <1>1 DEF JInv
  <2> QED
    BY <2>1 DEF Recorded, TimedByInputs, ExpectedTime, ExpectedScore
<1>4. Verdict(Actual).status = "Valid" <=>
        /\ Cardinality(Shown) = Expected
        /\ \A i \in Shown : Within(run.observations[i])
        /\ Recorded
        /\ ~(TimedByInputs /\ ~Actual.completed)
        /\ Compared(Actual) = "Valid"
  BY <1>1, <1>3, GhostFollowed, VerdictValid
<1>5. (\A i \in Shown : Within(run.observations[i])) => scan.max < Threshold
  BY DEF JInv, ScannedInv
<1>6. OutcomeAgrees => Actual.completed
  BY <1>1, CompletedFinish DEF OutcomeAgrees
<1> QED
  BY <1>1, <1>2, <1>4, <1>5, <1>6, OutcomeCompared

LEMMA ValidStep ==
    ASSUME IInv, JInv, ValidExactlyIfReproduced, [Next]_vars
    PROVE  ValidExactlyIfReproduced'
<1>1. CASE UNCHANGED vars
  BY <1>1 DEF vars, ValidExactlyIfReproduced, Reproduced, Evaluated, Recorded,
              TimedByInputs, Shown, Expected, Through, Within, OutcomeAgrees, TimeAgrees,
              ScoreAgrees, CountedFinish, CountedRespawns
<1>2. CASE pc' # "done" /\ ~UNCHANGED vars
  <2>1. report' = NotReported
    BY <1>2 DEF Next, Classify, NoMapStart, ReportAs, Fail, SimulateTick, EndSimulation,
                ScanObservation, Report, IInv
  <2> QED
    BY <1>2, <2>1 DEF NotReported, ValidExactlyIfReproduced, Reproduced, Evaluated
<1>3. CASE pc' = "done" /\ (Classify \/ NoMapStart)
  <2>1. clock' = 0 /\ report'.valid = FALSE
    BY <1>3, ReportedUnsimulated DEF Classify, NoMapStart, IInv
  <2> QED
    BY <2>1 DEF ValidExactlyIfReproduced, Reproduced, Evaluated
<1>4. CASE Report
  <2>1. /\ Verdict(Actual).status = "Valid" <=> Reproduced'
        /\ replay' = replay
    BY <1>4, VerdictReproduced DEF Report
  <2> QED
    BY <1>4, <2>1, ReportedEvaluated DEF ValidExactlyIfReproduced
<1> QED
  BY <1>1, <1>2, <1>3, <1>4, ReportedWhenDone

-----------------------------------------------------------------------------

(* Whatever replay is validated and whatever its simulation does, the      *)
(* status that is reported explains the outcome: valid exactly if nothing  *)
(* rejected the replay, and otherwise a reason that the run and the        *)
(* recording bear out.                                                     *)
THEOREM ReasonsAreTrue == Spec => []StatusExplainsOutcome
<1>1. Init => StatusExplainsOutcome
  BY DEF Init, StatusExplainsOutcome
<1>2. IInv /\ StatusExplainsOutcome /\ [Next]_vars => StatusExplainsOutcome'
  BY ExplainedStep
<1> QED
  BY <1>1, <1>2, IInvHolds, PTL DEF Spec

(* Where the inputs record the outcome, it is the one that is reported.    *)
THEOREM RecordedOutcomeIsReported == Spec => []RecordedOutcomeReported
<1>1. Init => RecordedOutcomeReported
  BY DEF Init, RecordedOutcomeReported, Evaluated
<1>2. IInv /\ RecordedOutcomeReported /\ [Next]_vars => RecordedOutcomeReported'
  BY RecordedStep
<1> QED
  BY <1>1, <1>2, IInvHolds, PTL DEF Spec

(* A reported finish time estimate is a bracket counted from the start,    *)
(* within the tick that first finished the race.                           *)
THEOREM EstimateLiesInFinishTick == Spec => []EstimateWithinFinishTick
<1>1. Init => EstimateWithinFinishTick
  BY DEF Init, NotReported, EstimateWithinFinishTick
<1>2. IInv /\ EstimateWithinFinishTick /\ [Next]_vars => EstimateWithinFinishTick'
  BY EstimateStep
<1> QED
  BY <1>1, <1>2, IInvHolds, PTL DEF Spec

(* A replay is reported valid exactly when it was reproduced: compared     *)
(* sample by sample up to the recorded time and never beyond the threshold, *)
(* and with the finish, time or score, and respawns that it records.       *)
THEOREM ReproducedIsValid == Spec => []ValidExactlyIfReproduced
<1>1. Init => ValidExactlyIfReproduced
  BY DEF Init, NotReported, ValidExactlyIfReproduced, Reproduced, Evaluated
<1>2. IInv /\ JInv /\ ValidExactlyIfReproduced /\ [Next]_vars
        => ValidExactlyIfReproduced'
  BY ValidStep
<1> QED
  BY <1>1, <1>2, JInvHolds, PTL DEF Spec

(* The scan ends at the first sample that cannot be measured or diverges,  *)
(* and reports it, and the largest distance up to it.                      *)
THEOREM DivergenceEndsScan == Spec => []ScanStopsAtFirstDivergence
<1>1. JInv => ScanStopsAtFirstDivergence
  BY ScanStops DEF JInv
<1> QED
  BY <1>1, JInvHolds, PTL
=============================================================================
