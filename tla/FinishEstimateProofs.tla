------------------------ MODULE FinishEstimateProofs ------------------------
(***************************************************************************)
(* A tick with its refinement, for every period, cut of the ticks, course  *)
(* of the physics, number of ticks and of failed allocations: it leaves no *)
(* trace but the finish time, the reruns and the bounds are those of the   *)
(* substep that finished the race, and a finish time lies in the substep   *)
(* that completed it, wherever in the tick or past it that one ends.       *)
(***************************************************************************)
EXTENDS FinishEstimate, FinishBracket, SequenceTheorems, TLAPS

-----------------------------------------------------------------------------
(* The inductive invariant, by the stages of a call.                       *)

IsRace(r) == /\ r = [at |-> r.at, completed |-> r.completed]
             /\ r.completed \in BOOLEAN
IsRuntime(r) == r = [at |-> r.at, finishTime |-> r.finishTime]
IsState(s) == /\ s = [race |-> s.race, runtime |-> s.runtime]
              /\ IsRace(s.race) /\ IsRuntime(s.runtime)

BothAt(s, place) == s.race.at = place /\ s.runtime.at = place

\* Every finish time is one nanosecond of a substep that completed the race.
OfCompletingSubstep(times, ref) ==
    \A e \in times :
        /\ e.upperBoundNs = e.lowerBoundNs + 1
        /\ \E s \in ref.finishedIn :
            s.start < e.estimatedNs /\ e.estimatedNs <= s.end

\* Between two calls, now or when a clone was taken.
Standing(s, n, ref) ==
    /\ IsState(s) /\ n \in Nat
    /\ s.runtime.finishTime # {} => s.race.completed
    /\ OfCompletingSubstep(s.runtime.finishTime, ref)
    /\ failures = 0 =>
        /\ BothAt(s, Boundary(n))
        /\ s.race = ref.state.race /\ s.runtime.at = ref.state.runtime.at
        /\ s.race.completed => (ref.whole <=> s.runtime.finishTime # {})

Unwatched == ~watch.capturing /\ ~watch.observing

CourseOK == /\ course.ends \in Splits
            /\ course.finishAt \in 0..Len(course.ends)
            /\ course.whole \in BOOLEAN

\* A clone from before the tick that completes the race.
BeforeFinish(clone) ==
    /\ IsState(clone) /\ ~clone.race.completed /\ clone.runtime.finishTime = {}
    /\ failures = 0 => BothAt(clone, Boundary(ticks))

\* Within the ordinary tick.
Ticking ==
    /\ phase = "Stepping" /\ Unwatched
    /\ CourseOK /\ sub \in 0..Len(course.ends)
    /\ OfCompletingSubstep(runtime.finishTime, reference)
    /\ failures = 0 => BothAt(State, Inside(ticks, sub))
    /\ \/ /\ preTick = {} /\ race.completed
          /\ failures = 0 => (reference.whole <=> runtime.finishTime # {})
       \/ /\ \E clone : preTick = {clone} /\ BeforeFinish(clone)
          /\ runtime.finishTime = {}
          /\ race.completed <=> course.finishAt \in 1..sub

\* From the end of the tick that completed the race on.
Refining ==
    /\ CourseOK /\ course.finishAt # 0
    /\ runtime.finishTime = {}
    /\ reference.finishedIn = {SubstepOf(course.ends, course.finishAt)}
    /\ reference.whole = course.whole
    /\ IsState(reference.state)
    /\ reference.state.race.completed /\ reference.state.runtime.finishTime = {}
    /\ failures = 0 => BothAt(reference.state, Boundary(ticks + 1))

Completed ==
    /\ phase = "Idle" /\ Unwatched
    /\ State = reference.state
    /\ \E clone : preTick = {clone} /\ BeforeFinish(clone)

EndOf(k) == IF k = 0 THEN 0 ELSE course.ends[k]

\* What the observer has of the finishing substep.
Transition ==
    /\ watch.start = OffsetBefore(course.ends, course.finishAt)
    /\ watch.duration = course.ends[course.finishAt] - watch.start
    /\ \E clone : /\ snapshot = {clone}
                  /\ IsState(clone) /\ ~clone.race.completed
                  /\ clone.runtime.finishTime = {}
                  /\ failures = 0 => BothAt(clone, Inside(ticks, course.finishAt - 1))

IsWatch == watch = [capturing |-> watch.capturing, observing |-> watch.observing,
                    found |-> watch.found, before |-> watch.before,
                    elapsed |-> watch.elapsed, start |-> watch.start,
                    duration |-> watch.duration]

Replaying ==
    /\ phase = "Stepping" /\ watch.capturing /\ watch.observing
    /\ final = {reference.state}
    /\ sub \in 0..Len(course.ends)
    /\ watch.elapsed = EndOf(sub)
    /\ watch.found \in BOOLEAN
    /\ watch.found <=> sub >= course.finishAt
    /\ race.completed <=> sub >= course.finishAt
    /\ watch.found => Transition
    /\ failures = 0 => BothAt(State, Inside(ticks, sub))

Replayed == phase = "Idle" /\ Unwatched /\ final = {reference.state} /\ Transition

Bounded ==
    /\ low \in Nat /\ high \in Nat
    /\ Substep.start <= low /\ low < high /\ high <= Substep.end
    /\ low # Substep.start /\ failures = 0 => low \notin course.finishing
    /\ high # Substep.end => high \in course.finishing

Refinement == {"estimate", "replay", "replayed", "search", "probing", "searched",
               "bracketed"}

Basics ==
    /\ pc \in {"idle", "tick"} \cup Refinement
    /\ phase \in {"Idle", "Stepping"}
    /\ ticks \in Nat /\ failures \in Nat
    /\ IsState(State) /\ IsWatch
    /\ runtime.finishTime # {} => race.completed
    /\ reference = [state |-> reference.state, finishedIn |-> reference.finishedIn,
                    whole |-> reference.whole]

Idling == /\ Standing(State, ticks, reference)
          /\ phase = "Idle" => Unwatched

Saved == \A clone \in saved :
            /\ Standing(clone.state, clone.ticks, clone.reference)
            /\ clone.reference = [state |-> clone.reference.state,
                                  finishedIn |-> clone.reference.finishedIn,
                                  whole |-> clone.reference.whole]

IInv ==
    /\ Basics /\ Saved
    /\ pc = "idle" => Idling
    /\ pc = "tick" => Ticking
    /\ pc \in Refinement => Refining
    /\ pc = "estimate" => Completed
    /\ pc = "replay" => Replaying
    /\ pc \in {"replayed", "search", "probing", "searched", "bracketed"} => Replayed
    /\ pc = "replayed" => watch.found
    /\ pc = "search" => low = Substep.start /\ high = Substep.end
    /\ pc \in {"probing", "bracketed"} =>
          Bounded /\ (failures = 0 => course.whole)
    /\ pc = "bracketed" => low + 1 >= high
    /\ pc = "searched" /\ failures = 0 => ~course.whole

-----------------------------------------------------------------------------
(* Places, courses and substeps.                                           *)

LEMMA OnePlusOne ==
    ASSUME NEW n \in Nat, NEW k \in Nat
    PROVE  <<n>> \o <<k>> = <<n, k>>
<1>1. <<n>> \in Seq(Nat) /\ <<k>> \in Seq(Nat) /\ <<n, k>> \in Seq(Nat)
  OBVIOUS
<1>2. Len(<<n>>) = 1 /\ Len(<<k>>) = 1 /\ Len(<<n, k>>) = 2
  OBVIOUS
<1>3. /\ <<n>> \o <<k>> \in Seq(Nat) /\ Len(<<n>> \o <<k>>) = 2
      /\ (<<n>> \o <<k>>)[1] = n /\ (<<n>> \o <<k>>)[2] = k
  <2>1. /\ <<n>> \o <<k>> \in Seq(Nat) /\ Len(<<n>> \o <<k>>) = 1 + 1
        /\ \A i \in 1..1 + 1 : (<<n>> \o <<k>>)[i] =
                IF i <= 1 THEN <<n>>[i] ELSE <<k>>[i - 1]
    BY <1>1, <1>2, ConcatProperties
  <2> QED
    BY <2>1
<1>4. \A i \in 1..2 : (<<n>> \o <<k>>)[i] = <<n, k>>[i]
  BY <1>3
<1> QED
  BY <1>1, <1>2, <1>3, <1>4, SeqEqual

LEMMA Places ==
    ASSUME NEW n \in Nat, NEW k \in Nat, NEW j \in Nat
    PROVE  /\ Boundary(n) \o <<0>> = Inside(n, 0)
           /\ Within(Inside(n, k), j) = Inside(n, j)
           /\ Boundary(Inside(n, k)[1] + 1) = Boundary(n + 1)
<1>1. Boundary(n) \o <<0>> = Inside(n, 0)
  BY OnePlusOne DEF Boundary, Inside
<1>2. <<n, k>> \in Seq(Nat) /\ Len(<<n, k>>) = 2 /\ Len(<<n, k>>) - 1 = 1
  OBVIOUS
<1>3. SubSeq(<<n, k>>, 1, 1) = <<n>>
  <2>1. \A i \in 1..1 : <<n, k>>[i] \in Nat
    OBVIOUS
  <2>2. /\ SubSeq(<<n, k>>, 1, 1) \in Seq(Nat)
        /\ Len(SubSeq(<<n, k>>, 1, 1)) = 1
        /\ \A i \in 1..1 : SubSeq(<<n, k>>, 1, 1)[i] = <<n, k>>[1 + i - 1]
    BY <2>1, SubSeqProperties
  <2>3. SubSeq(<<n, k>>, 1, 1)[1] = n
    BY <2>2
  <2>4. <<n>> \in Seq(Nat) /\ Len(<<n>>) = 1 /\ <<n>>[1] = n
    OBVIOUS
  <2>5. \A i \in 1..1 : SubSeq(<<n, k>>, 1, 1)[i] = <<n>>[i]
    BY <2>3, <2>4
  <2> QED
    BY <2>2, <2>4, <2>5, SeqEqual
<1>4. Within(Inside(n, k), j) = Inside(n, j)
  <2>1. Within(Inside(n, k), j) = SubSeq(<<n, k>>, 1, 1) \o <<j>>
    BY <1>2 DEF Within, Inside
  <2> QED
    BY <1>3, <2>1, OnePlusOne DEF Inside
<1> QED
  BY <1>1, <1>4 DEF Boundary, Inside

LEMMA SplitFacts ==
    ASSUME NEW ends \in Splits
    PROVE  /\ Len(ends) \in Nat \ {0}
           /\ \A k \in 1..Len(ends) : /\ ends[k] \in Nat
                                      /\ OffsetBefore(ends, k) \in Nat
                                      /\ OffsetBefore(ends, k) < ends[k]
<1>1. /\ ends \in Seq(Nat \ {0}) /\ ends # <<>>
      /\ \A k \in 1..Len(ends) - 1 : ends[k] < ends[k + 1]
  BY SplitAssumption
<1>2. Len(ends) \in Nat \ {0} /\ \A k \in 1..Len(ends) : ends[k] \in Nat \ {0}
  BY <1>1
<1>3. ASSUME NEW k \in 1..Len(ends)
      PROVE  OffsetBefore(ends, k) \in Nat /\ OffsetBefore(ends, k) < ends[k]
  <2>1. CASE k = 1
    BY <1>2, <2>1 DEF OffsetBefore
  <2>2. CASE k # 1
    <3>1. k - 1 \in 1..Len(ends) - 1 /\ (k - 1) + 1 = k /\ k - 1 \in 1..Len(ends)
      BY <1>2, <2>2
    <3>2. ends[k - 1] < ends[k] /\ ends[k - 1] \in Nat
      BY <1>1, <1>2, <3>1
    <3> QED
      BY <2>2, <3>2, <1>1 DEF OffsetBefore
  <2> QED
    BY <2>1, <2>2
<1> QED
  BY <1>1, <1>2, <1>3

LEMMA CourseFacts ==
    ASSUME NEW c \in Courses
    PROVE  /\ c.ends \in Splits /\ c.finishAt \in 0..Len(c.ends)
           /\ c.whole \in BOOLEAN
<1>1. CASE c \in Unfinished
  <2>1. PICK ends \in Splits : c = Course(ends, 0, {}, FALSE)
    BY <1>1 DEF Unfinished
  <2>2. 0 \in 0..Len(ends)
    BY SplitFacts
  <2> QED
    BY <2>1, <2>2 DEF Course
<1>2. CASE c \notin Unfinished
  <2>1. PICK ends \in Splits : \E k \in DOMAIN ends : c \in Finishing(ends, k)
    BY <1>2 DEF Courses
  <2>2. PICK k \in DOMAIN ends : c \in Finishing(ends, k)
    BY <2>1
  <2>3. \E durations : \E full \in BOOLEAN : c = Course(ends, k, durations, full)
    BY <2>2 DEF Finishing
  <2>4. DOMAIN ends = 1..Len(ends) /\ Len(ends) \in Nat
    BY SplitAssumption
  <2> QED
    BY <2>3, <2>4 DEF Course
<1> QED
  BY <1>1, <1>2

-----------------------------------------------------------------------------
(* Init and the ordinary tick.                                             *)

LEMMA IInvInit == Init => IInv
<1> SUFFICES ASSUME Init PROVE IInv
  OBVIOUS
<1> USE DEF Init, Fresh, State
<1>1. Basics
  BY BoundAssumption DEF Basics, IsState, IsRace, IsRuntime, IsWatch, NotWatching
<1>2. Idling
  BY DEF Idling, Standing, IsState, IsRace, IsRuntime, OfCompletingSubstep, BothAt,
         Boundary, Unwatched, NotWatching
<1> QED
  BY <1>1, <1>2 DEF IInv, Saved, Refinement

LEMMA BeginTickStep == IInv /\ BeginTick => IInv'
<1> SUFFICES ASSUME IInv, BeginTick PROVE IInv'
  OBVIOUS
<1>1. /\ Basics /\ Saved /\ Standing(State, ticks, reference) /\ Unwatched
      /\ pc' = "tick" /\ phase' = "Stepping" /\ sub' = 0
      /\ race' = [race EXCEPT !.at = @ \o <<0>>]
      /\ runtime' = [runtime EXCEPT !.at = @ \o <<0>>]
      /\ preTick' = IF race.completed THEN {} ELSE {State}
      /\ UNCHANGED <<watch, ticks, reference, saved, failures>>
  BY DEF BeginTick, IInv, Idling, Enter, PreTick, State, Unwatched
<1>2. CourseOK'
  BY CourseFacts DEF BeginTick, CourseOK
<1>3. /\ IsState(State) /\ State.race = race /\ State.runtime = runtime
  BY <1>1 DEF Standing, State
<1>4. /\ IsState(State') /\ race'.completed = race.completed
      /\ runtime'.finishTime = runtime.finishTime
      /\ race'.at = race.at \o <<0>> /\ runtime'.at = runtime.at \o <<0>>
  BY <1>1, <1>3 DEF IsState, IsRace, IsRuntime, State
<1>5. Basics'
  BY <1>1, <1>4 DEF Basics, IsWatch, IsState, IsRace, IsRuntime, State
<1>6. Saved'
  BY <1>1 DEF Saved, Standing, OfCompletingSubstep, BothAt, IsState, IsRace, IsRuntime
<1>7. Ticking'
  <2>1. failures = 0 => BothAt(State, Inside(ticks, 0))'
    BY <1>1, <1>3, <1>4, Places DEF Standing, BothAt, State, Inside, Boundary
  <2>2. sub' \in 0..Len(course'.ends)
    BY <1>1, <1>2, SplitFacts DEF CourseOK
  <2>3. OfCompletingSubstep(runtime.finishTime, reference)'
    BY <1>1, <1>3, <1>4 DEF Standing, OfCompletingSubstep
  <2>4. CASE race.completed
    <3>1. failures = 0 => (reference.whole <=> runtime.finishTime # {})
      BY <1>1, <1>3, <2>4 DEF Standing
    <3> QED
      BY <1>1, <1>2, <1>4, <2>1, <2>2, <2>3, <2>4, <3>1
         DEF Ticking, Unwatched, Inside
  <2>5. CASE ~race.completed
    <3>1. preTick' = {State} /\ runtime.finishTime = {}
      BY <1>1, <1>3, <2>5 DEF Standing
    <3>2. BeforeFinish(State)
      BY <1>1, <1>3, <2>5, <3>1 DEF BeforeFinish, Standing
    <3>3. \E clone : preTick' = {clone} /\ BeforeFinish(clone)'
      BY <1>1, <3>1, <3>2 DEF BeforeFinish, BothAt, IsState, IsRace, IsRuntime, Boundary
    <3>4. race'.completed <=> course'.finishAt \in 1..sub'
      BY <1>1, <1>4, <2>5
    <3> QED
      BY <1>1, <1>2, <1>4, <2>1, <2>2, <2>3, <3>1, <3>3, <3>4
         DEF Ticking, Unwatched, Inside
  <2> QED
    BY <2>4, <2>5
<1> QED
  BY <1>1, <1>5, <1>6, <1>7 DEF IInv, Refinement

LEMMA SavedKept ==
    ASSUME Saved, saved' = saved, failures' = failures \/ failures' # 0
    PROVE  Saved'
  BY DEF Saved, Standing, OfCompletingSubstep, BothAt, IsState, IsRace, IsRuntime,
         Boundary

LEMMA TickSubstep == IInv /\ pc = "tick" /\ CollisionSubstep => IInv'
<1> SUFFICES ASSUME IInv, pc = "tick", CollisionSubstep PROVE IInv'
  OBVIOUS
<1>1. /\ Basics /\ Saved /\ Ticking
      /\ sub < Len(course.ends) /\ sub' = sub + 1
      /\ race' = [at |-> Within(race.at, sub + 1),
                  completed |-> race.completed \/ course.finishAt = sub + 1]
      /\ runtime' = [runtime EXCEPT !.at = Within(@, sub + 1)]
      /\ UNCHANGED <<phase, pc, course, preTick, ticks, reference, saved, failures>>
  BY DEF CollisionSubstep, IInv
<1>2. watch' = watch
  BY <1>1 DEF CollisionSubstep, Noted, Ticking, Unwatched
<1>3. /\ IsState(State) /\ State.race = race /\ State.runtime = runtime
  BY <1>1 DEF Basics, State
<1>4. /\ IsState(State') /\ State'.race = race' /\ State'.runtime = runtime'
      /\ race'.completed <=> (race.completed \/ course.finishAt = sub + 1)
      /\ runtime'.finishTime = runtime.finishTime
      /\ race'.at = Within(race.at, sub + 1)
      /\ runtime'.at = Within(runtime.at, sub + 1)
  BY <1>1, <1>3 DEF IsState, IsRace, IsRuntime, State
<1>5. Basics'
  BY <1>1, <1>2, <1>4 DEF Basics, IsWatch, IsState, IsRace, IsRuntime, State
<1>6. Saved'
  BY <1>1, SavedKept
<1>7. Ticking'
  <2>1. /\ sub \in Nat /\ Len(course.ends) \in Nat /\ ticks \in Nat
        /\ course.finishAt \in Nat /\ sub' \in 0..Len(course.ends)
    BY <1>1, SplitFacts DEF Ticking, CourseOK, Basics
  <2>2. failures = 0 => BothAt(State, Inside(ticks, sub))'
    <3>1. failures = 0 => BothAt(State, Inside(ticks, sub))
      BY <1>1 DEF Ticking
    <3>2. Within(Inside(ticks, sub), sub + 1) = Inside(ticks, sub + 1)
      BY <2>1, Places
    <3> QED
      BY <1>1, <1>3, <1>4, <3>1, <3>2 DEF BothAt, Inside
  <2>3. OfCompletingSubstep(runtime.finishTime, reference)'
    BY <1>1, <1>4 DEF Ticking, OfCompletingSubstep
  <2>4. CASE preTick = {} /\ race.completed
    <3>1. failures = 0 => (reference.whole <=> runtime.finishTime # {})
      BY <1>1, <2>4 DEF Ticking
    <3> QED
      BY <1>1, <1>2, <1>4, <2>1, <2>2, <2>3, <2>4, <3>1
         DEF Ticking, Unwatched, CourseOK, Inside
  <2>5. CASE ~(preTick = {} /\ race.completed)
    <3>1. /\ \E clone : preTick = {clone} /\ BeforeFinish(clone)
          /\ runtime.finishTime = {}
          /\ race.completed <=> course.finishAt \in 1..sub
      BY <1>1, <2>5 DEF Ticking
    <3>2. \E clone : preTick' = {clone} /\ BeforeFinish(clone)'
      BY <1>1, <3>1 DEF BeforeFinish, BothAt, IsState, IsRace, IsRuntime, Boundary
    <3>3. race'.completed <=> course'.finishAt \in 1..sub'
      BY <1>1, <1>4, <2>1, <3>1
    <3> QED
      BY <1>1, <1>2, <1>4, <2>1, <2>2, <2>3, <3>1, <3>2, <3>3
         DEF Ticking, Unwatched, CourseOK, Inside
  <2> QED
    BY <2>4, <2>5
<1> QED
  BY <1>1, <1>5, <1>6, <1>7 DEF IInv, Refinement

LEMMA EndTickStep == IInv /\ EndTick => IInv'
<1> SUFFICES ASSUME IInv, EndTick PROVE IInv'
  OBVIOUS
<1> DEFINE completes == race.completed /\ \E c \in preTick : ~c.race.completed
<1>1. /\ Basics /\ Saved /\ Ticking
      /\ sub = Len(course.ends)
      /\ race' = [race EXCEPT !.at = Boundary(@[1] + 1)]
      /\ runtime' = [runtime EXCEPT !.at = Boundary(@[1] + 1)]
      /\ phase' = "Idle"
      /\ reference' = [state |-> State',
                       finishedIn |-> IF completes
                                      THEN {SubstepOf(course.ends, course.finishAt)}
                                      ELSE reference.finishedIn,
                       whole |-> IF completes THEN course.whole ELSE reference.whole]
      /\ IF completes THEN pc' = "estimate" /\ ticks' = ticks
         ELSE pc' = "idle" /\ ticks' = ticks + 1
      /\ UNCHANGED <<sub, course, preTick, watch, saved, failures>>
  BY DEF EndTick, Leave, Succeed, State, IInv
<1>3. /\ IsState(State) /\ State.race = race /\ State.runtime = runtime
  BY <1>1 DEF Basics, State
<1>4. /\ IsState(State') /\ State'.race = race' /\ State'.runtime = runtime'
      /\ race'.completed = race.completed
      /\ runtime'.finishTime = runtime.finishTime
      /\ race'.at = Boundary(race.at[1] + 1)
      /\ runtime'.at = Boundary(runtime.at[1] + 1)
  BY <1>1, <1>3 DEF IsState, IsRace, IsRuntime, State
<1>5. failures = 0 => BothAt(State', Boundary(ticks + 1))
  <2>1. sub \in Nat /\ ticks \in Nat
    BY <1>1 DEF Ticking, Basics
  <2>2. Boundary(Inside(ticks, sub)[1] + 1) = Boundary(ticks + 1)
    BY <2>1, Places
  <2>3. failures = 0 => race.at = Inside(ticks, sub) /\ runtime.at = Inside(ticks, sub)
    BY <1>1, <1>3 DEF Ticking, BothAt
  <2> QED
    BY <1>4, <2>2, <2>3 DEF BothAt
<1>6. Saved'
  BY <1>1, SavedKept
<1>7. Unwatched'
  BY <1>1 DEF Ticking, Unwatched
<1>8. Basics' /\ reference'.state = State'
  <2>1. /\ reference'.state = State'
        /\ reference' = [state |-> reference'.state,
                         finishedIn |-> reference'.finishedIn,
                         whole |-> reference'.whole]
    BY <1>1
  <2>2. pc' \in {"idle", "estimate"} /\ ticks' \in Nat
    BY <1>1 DEF Basics
  <2> QED
    BY <1>1, <1>4, <2>1, <2>2
       DEF Basics, IsWatch, IsState, IsRace, IsRuntime, State, Refinement
<1>9. CASE completes
  <2>1. /\ \E clone : preTick = {clone} /\ BeforeFinish(clone)
        /\ runtime.finishTime = {}
        /\ course.finishAt # 0 /\ CourseOK
    <3>1. preTick # {}
      BY <1>9
    <3>2. /\ \E clone : preTick = {clone} /\ BeforeFinish(clone)
          /\ runtime.finishTime = {}
          /\ race.completed <=> course.finishAt \in 1..sub
      BY <1>1, <3>1 DEF Ticking
    <3>3. course.finishAt # 0 /\ CourseOK
      BY <1>1, <1>9, <3>2 DEF Ticking
    <3> QED
      BY <3>2, <3>3
  <2>2. \E clone : preTick' = {clone} /\ BeforeFinish(clone)'
    BY <1>1, <1>9, <2>1 DEF BeforeFinish, BothAt, IsState, IsRace, IsRuntime, Boundary
  <2>3. Completed'
    BY <1>1, <1>7, <1>8, <2>2 DEF Completed
  <2>4. Refining'
    <3>1. CourseOK' /\ course'.finishAt # 0 /\ runtime'.finishTime = {}
      BY <1>1, <1>4, <2>1 DEF CourseOK
    <3>2. /\ reference'.finishedIn = {SubstepOf(course.ends, course.finishAt)'}
          /\ reference'.whole = course'.whole
      BY <1>1, <1>9 DEF SubstepOf, Nanoseconds, OffsetBefore, TickTime
    <3>3. /\ IsState(reference'.state)
          /\ reference'.state.race.completed
          /\ reference'.state.runtime.finishTime = {}
      BY <1>4, <1>8, <1>9, <2>1
    <3>4. failures' = 0 => BothAt(reference'.state, Boundary(ticks' + 1))
      BY <1>1, <1>5, <1>8, <1>9
    <3> QED
      BY <3>1, <3>2, <3>3, <3>4 DEF Refining, IsState, IsRace, IsRuntime, BothAt, Boundary
  <2> QED
    BY <1>1, <1>6, <1>8, <1>9, <2>3, <2>4 DEF IInv, Refinement
<1>10. CASE ~completes
  <2>1. Standing(State', ticks', reference')
    <3>1. OfCompletingSubstep(runtime'.finishTime, reference')
      BY <1>1, <1>4, <1>10 DEF Ticking, OfCompletingSubstep
    <3>2. /\ ticks' \in Nat
          /\ runtime'.finishTime # {} => race'.completed
      BY <1>1, <1>4, <1>10 DEF Basics
    <3>3. failures = 0 /\ race.completed =>
            (reference'.whole <=> runtime'.finishTime # {})
      <4>1. CASE race.completed
        <5>1. preTick = {}
          BY <1>1, <1>10, <4>1 DEF Ticking, BeforeFinish
        <5> QED
          BY <1>1, <1>4, <1>10, <5>1 DEF Ticking
      <4> QED
        BY <4>1
    <3>4. /\ failures = 0 => BothAt(State', Boundary(ticks'))
          /\ State'.race = reference'.state.race
          /\ State'.runtime.at = reference'.state.runtime.at
      BY <1>1, <1>5, <1>8, <1>10
    <3> QED
      BY <1>4, <3>1, <3>2, <3>3, <3>4 DEF Standing
  <2>2. Idling'
    BY <1>1, <1>7, <2>1
       DEF Idling, Standing, OfCompletingSubstep, BothAt, IsState, IsRace, IsRuntime,
           Boundary
  <2> QED
    BY <1>1, <1>6, <1>8, <1>10, <2>2 DEF IInv, Refinement
<1> QED
  BY <1>9, <1>10

-----------------------------------------------------------------------------
(* The replay of the tick under the observer.                              *)

LEMMA RefiningKept ==
    ASSUME Refining, UNCHANGED <<course, reference, ticks>>,
           runtime'.finishTime = {}, failures' = failures \/ failures' # 0
    PROVE  Refining'
<1>1. SubstepOf(course.ends, course.finishAt)' = SubstepOf(course.ends, course.finishAt)
  BY DEF SubstepOf, Nanoseconds, OffsetBefore, TickTime
<1> QED
  BY <1>1 DEF Refining, CourseOK, IsState, IsRace, IsRuntime, BothAt, Boundary

LEMMA ReplayedKept ==
    ASSUME Replayed,
           UNCHANGED <<phase, watch, final, snapshot, course, ticks, reference>>,
           failures' = failures \/ failures' # 0
    PROVE  Replayed'
  BY DEF Replayed, Unwatched, Transition, OffsetBefore, IsState, IsRace, IsRuntime,
         BothAt, Inside

LEMMA BeginReplayStep == IInv /\ BeginReplay => IInv'
<1> SUFFICES ASSUME IInv, BeginReplay PROVE IInv'
  OBVIOUS
<1>1. PICK clone : preTick = {clone} /\ BeforeFinish(clone)
  BY DEF BeginReplay, IInv, Completed
<1>2. /\ Basics /\ Saved /\ Refining /\ Completed
      /\ final' = {State} /\ State = reference.state
      /\ race' = [clone.race EXCEPT !.at = @ \o <<0>>]
      /\ runtime' = [clone.runtime EXCEPT !.at = @ \o <<0>>]
      /\ phase' = "Stepping" /\ sub' = 0 /\ pc' = "replay"
      /\ watch' = [NotWatching EXCEPT !.capturing = TRUE, !.observing = TRUE]
      /\ UNCHANGED <<course, ticks, reference, saved, failures>>
  BY <1>1 DEF BeginReplay, IInv, Refinement, Completed, Enter
<1>3. /\ IsState(State') /\ race'.completed = FALSE /\ runtime'.finishTime = {}
      /\ State'.race = race' /\ State'.runtime = runtime'
      /\ race'.at = clone.race.at \o <<0>> /\ runtime'.at = clone.runtime.at \o <<0>>
  BY <1>1, <1>2 DEF BeforeFinish, IsState, IsRace, IsRuntime, State
<1>4. /\ IsWatch' /\ watch'.capturing /\ watch'.observing /\ watch'.found = FALSE
      /\ watch'.elapsed = 0
  BY <1>2 DEF IsWatch, NotWatching
<1>5. Basics'
  BY <1>2, <1>3, <1>4 DEF Basics, Refinement, IsWatch, IsState, IsRace, IsRuntime, State
<1>6. Saved' /\ Refining'
  BY <1>2, <1>3, SavedKept, RefiningKept
<1>7. Replaying'
  <2>1. /\ ticks \in Nat /\ 0 \in 0..Len(course.ends)
        /\ course.finishAt \in Nat \ {0}
    BY <1>2, SplitFacts DEF Basics, Refining, CourseOK
  <2>2. failures = 0 => BothAt(State', Inside(ticks, 0))
    BY <1>1, <1>3, <2>1, Places DEF BeforeFinish, BothAt
  <2>3. (failures = 0 => BothAt(State, Inside(ticks, sub)))'
    BY <1>2, <2>2 DEF BothAt, Inside
  <2>4. EndOf(0)' = 0 /\ ~(0 >= course.finishAt)
    BY <2>1 DEF EndOf
  <2>5. watch'.elapsed = EndOf(sub)'
    BY <1>2, <1>4, <2>4 DEF EndOf
  <2> QED
    BY <1>2, <1>3, <1>4, <2>1, <2>3, <2>4, <2>5 DEF Replaying
<1> QED
  BY <1>2, <1>5, <1>6, <1>7 DEF IInv, Refinement

LEMMA ReplaySubstep == IInv /\ pc = "replay" /\ CollisionSubstep => IInv'
<1> SUFFICES ASSUME IInv, pc = "replay", CollisionSubstep PROVE IInv'
  OBVIOUS
<1> DEFINE k == sub + 1
           duration == course.ends[k] - OffsetBefore(course.ends, k)
<1>1. /\ Basics /\ Saved /\ Refining /\ Replaying
      /\ sub < Len(course.ends) /\ sub' = k
      /\ race' = [at |-> Within(race.at, k),
                  completed |-> race.completed \/ course.finishAt = k]
      /\ runtime' = [runtime EXCEPT !.at = Within(@, k)]
      /\ Noted(race'.completed)
      /\ UNCHANGED <<phase, pc, course, final, ticks, reference, saved, failures>>
  BY DEF CollisionSubstep, IInv, Refinement
<1>2. /\ sub \in Nat /\ Len(course.ends) \in Nat /\ ticks \in Nat
      /\ k \in 1..Len(course.ends) /\ course.finishAt \in 1..Len(course.ends)
      /\ course.ends \in Splits
  BY <1>1, SplitFacts DEF Replaying, Refining, CourseOK, Basics
<1>3. /\ IsState(State) /\ State.race = race /\ State.runtime = runtime
  BY <1>1 DEF Basics, State
<1>4. /\ IsState(State') /\ State'.race = race' /\ State'.runtime = runtime'
      /\ race'.completed <=> (race.completed \/ course.finishAt = k)
      /\ runtime'.finishTime = runtime.finishTime
      /\ race'.at = Within(race.at, k) /\ runtime'.at = Within(runtime.at, k)
  BY <1>1, <1>3 DEF IsState, IsRace, IsRuntime, State
<1>5. /\ race.completed <=> sub >= course.finishAt
      /\ watch.found <=> sub >= course.finishAt
      /\ race'.completed <=> k >= course.finishAt
  BY <1>1, <1>2, <1>4 DEF Replaying
<1>6. /\ watch.elapsed = EndOf(sub) /\ EndOf(sub) = OffsetBefore(course.ends, k)
      /\ OffsetBefore(course.ends, k) \in Nat /\ course.ends[k] \in Nat
  BY <1>1, <1>2, SplitFacts DEF Replaying, EndOf, OffsetBefore
<1> DEFINE first == ~watch.found /\ ~race.completed /\ race'.completed
<1>7. /\ snapshot' = IF watch.found THEN snapshot ELSE {State}
      /\ watch' = [watch EXCEPT
                    !.before = IF watch.found THEN @ ELSE race.completed,
                    !.start = IF watch.found THEN @ ELSE watch.elapsed,
                    !.found = @ \/ first,
                    !.duration = IF first THEN duration ELSE @,
                    !.elapsed = @ + duration]
  BY <1>1 DEF Noted, Replaying
<1>8. /\ IsWatch' /\ watch'.capturing /\ watch'.observing
      /\ watch'.start = IF watch.found THEN watch.start ELSE watch.elapsed
      /\ watch'.found = (watch.found \/ first)
      /\ watch'.duration = IF first THEN duration ELSE watch.duration
      /\ watch'.elapsed = watch.elapsed + duration
  BY <1>1, <1>7 DEF Basics, Replaying, IsWatch
<1> HIDE DEF duration
<1>9. Basics'
  BY <1>1, <1>4, <1>5, <1>8
     DEF Basics, Refining, IsWatch, IsState, IsRace, IsRuntime, State
<1>10. Saved' /\ Refining'
  BY <1>1, <1>4, SavedKept, RefiningKept DEF Refining
<1>11. Transition' \/ ~watch'.found
  <2>1. CASE watch.found
    <3>1. /\ Transition /\ ~first /\ snapshot' = snapshot
          /\ watch'.start = watch.start /\ watch'.duration = watch.duration
      BY <1>1, <1>7, <1>8, <2>1 DEF Replaying
    <3> QED
      BY <1>1, <3>1
         DEF Transition, OffsetBefore, IsState, IsRace, IsRuntime, BothAt, Inside
  <2>2. CASE first
    <3>1. /\ k = course.finishAt
          /\ watch'.start = OffsetBefore(course.ends, k)
          /\ watch'.duration = duration /\ snapshot' = {State}
      BY <1>2, <1>5, <1>6, <1>7, <1>8, <2>2
    <3>2. watch'.duration = course.ends[k] - watch'.start
      BY <3>1 DEF duration
    <3>3. /\ IsState(State) /\ ~State.race.completed /\ State.runtime.finishTime = {}
          /\ failures = 0 => BothAt(State, Inside(ticks, course.finishAt - 1))
      <4>1. sub = course.finishAt - 1
        BY <1>2, <3>1
      <4> QED
        BY <1>1, <1>3, <2>2, <4>1 DEF Refining, Replaying
    <3> QED
      BY <1>1, <3>1, <3>2, <3>3
         DEF Transition, OffsetBefore, IsState, IsRace, IsRuntime, BothAt, Inside
  <2>3. CASE ~watch.found /\ ~first
    BY <1>8, <2>3
  <2> QED
    BY <2>1, <2>2, <2>3
<1>12. Replaying'
  <2>1. (failures = 0 => BothAt(State, Inside(ticks, sub)))'
    <3>1. failures = 0 => race.at = Inside(ticks, sub) /\ runtime.at = Inside(ticks, sub)
      BY <1>1, <1>3 DEF Replaying, BothAt
    <3>2. Within(Inside(ticks, sub), k) = Inside(ticks, k)
      BY <1>2, Places
    <3> QED
      BY <1>1, <1>4, <3>1, <3>2 DEF BothAt, Inside
  <2>2. watch'.elapsed = EndOf(sub)'
    <3>1. watch'.elapsed = course.ends[k]
      BY <1>6, <1>8 DEF duration
    <3> QED
      BY <1>1, <1>2, <3>1 DEF EndOf
  <2>3. /\ watch'.found \in BOOLEAN
        /\ watch'.found <=> sub' >= course'.finishAt
    <3>1. watch.found \/ first <=> k >= course.finishAt
      BY <1>2, <1>5
    <3> QED
      BY <1>1, <1>8, <3>1
  <2>4. race'.completed <=> sub' >= course'.finishAt
    BY <1>1, <1>5
  <2> QED
    BY <1>1, <1>2, <1>8, <1>11, <2>1, <2>2, <2>3, <2>4 DEF Replaying
<1> QED
  BY <1>1, <1>9, <1>10, <1>12 DEF IInv, Refinement

LEMMA EndReplayStep == IInv /\ EndReplay => IInv'
<1> SUFFICES ASSUME IInv, EndReplay PROVE IInv'
  OBVIOUS
<1>1. /\ Basics /\ Saved /\ Refining /\ Replaying
      /\ sub = Len(course.ends)
      /\ race' = [race EXCEPT !.at = Boundary(@[1] + 1)]
      /\ runtime' = [runtime EXCEPT !.at = Boundary(@[1] + 1)]
      /\ phase' = "Idle" /\ pc' = "replayed"
      /\ watch' = [watch EXCEPT !.capturing = FALSE, !.observing = FALSE]
      /\ UNCHANGED <<course, final, snapshot, ticks, reference, saved, failures>>
  BY DEF EndReplay, Leave, Unobserved, IInv, Refinement
<1>2. /\ IsState(State') /\ race'.completed = race.completed
      /\ runtime'.finishTime = runtime.finishTime
  BY <1>1 DEF Basics, IsState, IsRace, IsRuntime, State
<1>3. /\ IsWatch' /\ Unwatched'
      /\ watch'.found = watch.found /\ watch'.start = watch.start
      /\ watch'.duration = watch.duration
  BY <1>1 DEF Basics, IsWatch, Unwatched
<1>4. Basics'
  BY <1>1, <1>2, <1>3 DEF Basics, Refinement, IsWatch, IsState, IsRace, IsRuntime, State
<1>5. Saved' /\ Refining'
  BY <1>1, <1>2, SavedKept, RefiningKept DEF Refining
<1>6. watch.found /\ Transition
  <2>1. sub >= course.finishAt
    BY <1>1, SplitFacts DEF Refining, CourseOK
  <2> QED
    BY <1>1, <2>1 DEF Replaying
<1>7. Transition'
  BY <1>1, <1>3, <1>6
     DEF Transition, OffsetBefore, IsState, IsRace, IsRuntime, BothAt, Inside
<1>8. Replayed' /\ watch'.found
  BY <1>1, <1>3, <1>6, <1>7 DEF Replayed, Replaying
<1> QED
  BY <1>1, <1>4, <1>5, <1>8 DEF IInv, Refinement

-----------------------------------------------------------------------------
(* The search within the finishing substep.                                *)

\* Offsets of halves of a nanosecond, rounded outward.
LEMMA RoundedOutward ==
    ASSUME NEW time \in Nat, NEW from \in Nat, NEW to \in Nat, from < to
    PROVE  /\ time + from \div 2 \in Nat
           /\ time + (to + 1) \div 2 \in Nat
           /\ time + from \div 2 < time + (to + 1) \div 2
  BY SMT

\* The substep under refinement is the one that finished the race.
LEMMA SubstepFacts ==
    ASSUME Basics, Refining, Transition
    PROVE  /\ Substep.start \in Nat /\ Substep.end \in Nat
           /\ Substep.start < Substep.end
           /\ Substep = SubstepOf(course.ends, course.finishAt)
           /\ watch.start + watch.duration = course.ends[course.finishAt]
<1> DEFINE k == course.finishAt
<1>1. course.ends \in Splits /\ k \in 1..Len(course.ends) /\ TickTime \in Nat
  BY SplitFacts, SplitAssumption DEF Refining, CourseOK, Basics, TickTime
<1>2. /\ course.ends[k] \in Nat /\ watch.start \in Nat
      /\ watch.start < course.ends[k]
      /\ watch.start = OffsetBefore(course.ends, k)
      /\ watch.duration = course.ends[k] - watch.start
  BY <1>1, SplitFacts DEF Transition
<1>3. watch.start + watch.duration = course.ends[k]
  <2> HIDE DEF k
  <2> QED
    BY <1>2
<1>4. Substep = SubstepOf(course.ends, k)
  BY <1>2, <1>3 DEF Substep, SubstepOf
<1>5. Substep = [start |-> TickTime + watch.start \div 2,
                 end |-> TickTime + (course.ends[k] + 1) \div 2]
  BY <1>3 DEF Substep, Nanoseconds
<1>6. /\ Substep.start = TickTime + watch.start \div 2
      /\ Substep.end = TickTime + (course.ends[k] + 1) \div 2
  BY <1>5
<1>7. /\ Substep.start \in Nat /\ Substep.end \in Nat
      /\ Substep.start < Substep.end
  BY <1>1, <1>2, <1>6, RoundedOutward
<1> QED
  BY <1>3, <1>4, <1>7

LEMMA CandidateBetween ==
    ASSUME low \in Nat, high \in Nat, low + 1 < high
    PROVE  /\ Bracket!Candidate \in Nat
           /\ low < Bracket!Candidate /\ Bracket!Candidate < high
  BY SMT DEF Bracket!Candidate

\* What is kept while the substep is searched.
Searched == {"replayed", "search", "probing", "searched", "bracketed"}

LEMMA SearchFacts ==
    ASSUME IInv, pc \in Searched
    PROVE  /\ Basics /\ Saved /\ Refining /\ Replayed /\ Transition
           /\ \E clone : /\ snapshot = {clone} /\ IsState(clone)
                         /\ ~clone.race.completed /\ clone.runtime.finishTime = {}
  BY DEF IInv, Searched, Refinement, Replayed, Transition

LEMMA BeginSearchStep == IInv /\ BeginSearch => IInv'
<1> SUFFICES ASSUME IInv, BeginSearch PROVE IInv'
  OBVIOUS
<1>1. /\ pc = "replayed" /\ watch.found
      /\ Basics /\ Saved /\ Refining /\ Replayed /\ Transition
  BY SearchFacts DEF BeginSearch, IInv, Searched
<1>2. /\ race' = reference.state.race /\ runtime' = reference.state.runtime
      /\ pc' = "search" /\ low' = Substep.start /\ high' = Substep.end
      /\ UNCHANGED <<phase, course, preTick, final, watch, snapshot, ticks,
                     reference, saved, failures>>
  BY <1>1 DEF BeginSearch, Restore, Replayed, Transition
<1>3. IsState(State') /\ runtime'.finishTime = {}
  BY <1>1, <1>2 DEF Refining, IsState, IsRace, IsRuntime, State
<1>4. Basics'
  BY <1>1, <1>2, <1>3
     DEF Basics, Refinement, IsWatch, IsState, IsRace, IsRuntime, State
<1>5. Saved' /\ Refining' /\ Replayed'
  BY <1>1, <1>2, <1>3, SavedKept, RefiningKept, ReplayedKept
<1>6. (low = Substep.start /\ high = Substep.end)'
  BY <1>2 DEF Substep, Nanoseconds, TickTime
<1> QED
  BY <1>2, <1>4, <1>5, <1>6 DEF IInv, Refinement

\* A rerun of the substep from the state before it.
LEMMA RunFromFacts ==
    ASSUME IInv, pc \in Searched, NEW d, NEW finished \in BOOLEAN,
           RunFrom(d, finished)
    PROVE  /\ IsState(State') /\ race'.completed = finished
           /\ runtime'.finishTime = {}
<1>1. PICK clone \in snapshot :
        /\ race' = [at |-> RerunFor(clone.race.at, d),
                    completed |-> clone.race.completed \/ finished]
        /\ runtime' = [clone.runtime EXCEPT !.at = RerunFor(@, d)]
  BY DEF RunFrom
<1>2. IsState(clone) /\ ~clone.race.completed /\ clone.runtime.finishTime = {}
  BY <1>1, SearchFacts
<1> QED
  BY <1>1, <1>2 DEF IsState, IsRace, IsRuntime, State

LEMMA ProbeWholeStep == IInv /\ ProbeWhole => IInv'
<1> SUFFICES ASSUME IInv, ProbeWhole PROVE IInv'
  OBVIOUS
<1>1. /\ pc = "search" /\ low = Substep.start /\ high = Substep.end
      /\ Basics /\ Saved /\ Refining /\ Replayed /\ Transition
  BY SearchFacts DEF ProbeWhole, IInv, Searched
<1>2. /\ RunFrom(watch.duration, course.whole)
      /\ pc' = IF race'.completed THEN "probing" ELSE "searched"
      /\ UNCHANGED <<phase, course, final, watch, snapshot, low, high, ticks,
                     reference, saved, failures>>
  BY DEF ProbeWhole
<1>3. /\ IsState(State') /\ race'.completed = course.whole
      /\ runtime'.finishTime = {}
  BY <1>1, <1>2, RunFromFacts DEF Refining, CourseOK, Searched
<1>4. Basics'
  BY <1>1, <1>2, <1>3
     DEF Basics, Refinement, IsWatch, IsState, IsRace, IsRuntime, State
<1>5. Saved' /\ Refining' /\ Replayed'
  BY <1>1, <1>2, <1>3, SavedKept, RefiningKept, ReplayedKept
<1>6. Bounded'
  <2>1. Bounded
    BY <1>1, SubstepFacts DEF Bounded
  <2> QED
    BY <1>2, <2>1 DEF Bounded, Substep, Nanoseconds, TickTime
<1> QED
  BY <1>2, <1>3, <1>4, <1>5, <1>6 DEF IInv, Refinement

\* A candidate that finished, or one that did not or could not be rerun.
LEMMA MoveBounded ==
    ASSUME Basics, Refining, Transition, Bounded, low + 1 < high,
           NEW finished \in BOOLEAN, Bracket!Move(finished),
           finished => Bracket!Candidate \in course.finishing,
           finished \/ failures' # 0 \/ Bracket!Candidate \notin course.finishing,
           failures' = failures \/ failures' # 0,
           UNCHANGED <<course, ticks, watch>>
    PROVE  Bounded'
<1>1. /\ Bracket!Candidate \in Nat
      /\ low < Bracket!Candidate /\ Bracket!Candidate < high
  BY CandidateBetween DEF Bounded
<1>2. /\ high' = IF finished THEN Bracket!Candidate ELSE high
      /\ low' = IF finished THEN low ELSE Bracket!Candidate
  BY DEF Bracket!Move
<1>3. Substep' = Substep /\ Substep.start \in Nat /\ Substep.end \in Nat
  BY SubstepFacts DEF Substep, Nanoseconds, TickTime
<1> HIDE DEF Substep
<1>4. /\ low' \in Nat /\ high' \in Nat
      /\ Substep'.start <= low' /\ low' < high' /\ high' <= Substep'.end
  BY <1>1, <1>2, <1>3 DEF Bounded
<1>5. (low # Substep.start /\ failures = 0 => low \notin course.finishing)'
  BY <1>2, <1>3 DEF Bounded
<1>6. (high # Substep.end => high \in course.finishing)'
  BY <1>2, <1>3 DEF Bounded
<1> QED
  BY <1>4, <1>5, <1>6 DEF Bounded

LEMMA ProbePartStep == IInv /\ ProbePart => IInv'
<1> SUFFICES ASSUME IInv, ProbePart PROVE IInv'
  OBVIOUS
<1> DEFINE finished == Bracket!Candidate \in course.finishing
<1>1. /\ pc = "probing" /\ low + 1 < high
      /\ Bounded /\ (failures = 0 => course.whole)
      /\ Basics /\ Saved /\ Refining /\ Replayed /\ Transition
  BY SearchFacts DEF ProbePart, IInv, Searched, Bracket!Searching
<1>2. /\ finished \in BOOLEAN
      /\ RunFrom(2 * (Bracket!Candidate - TickTime) - watch.start, finished)
      /\ Bracket!Move(race'.completed)
      /\ UNCHANGED <<phase, pc, course, final, watch, snapshot, ticks,
                     reference, saved, failures>>
  BY DEF ProbePart
<1> HIDE DEF finished
<1>3. /\ IsState(State') /\ race'.completed = finished
      /\ runtime'.finishTime = {}
  BY <1>1, <1>2, RunFromFacts DEF Searched
<1>4. Basics'
  BY <1>1, <1>2, <1>3
     DEF Basics, Refinement, IsWatch, IsState, IsRace, IsRuntime, State
<1>5. Saved' /\ Refining' /\ Replayed'
  BY <1>1, <1>2, <1>3, SavedKept, RefiningKept, ReplayedKept
<1>6. Bounded'
  <2>1. Bracket!Move(finished)
    BY <1>2, <1>3
  <2>2. finished <=> Bracket!Candidate \in course.finishing
    BY DEF finished
  <2> QED
    BY <1>1, <1>2, <2>1, <2>2, MoveBounded
<1> QED
  BY <1>1, <1>2, <1>4, <1>5, <1>6 DEF IInv, Refinement

LEMMA BoundedKept ==
    ASSUME Bounded, UNCHANGED <<course, ticks, watch, low, high, failures>>
    PROVE  Bounded'
  BY DEF Bounded, Substep, Nanoseconds, TickTime

LEMMA EndProbingStep == IInv /\ EndProbing => IInv'
<1> SUFFICES ASSUME IInv, EndProbing PROVE IInv'
  OBVIOUS
<1>1. /\ pc = "probing" /\ pc' = "bracketed" /\ ~(low + 1 < high)
      /\ Bounded /\ (failures = 0 => course.whole)
      /\ Basics /\ Saved /\ Refining /\ Replayed
      /\ UNCHANGED <<race, runtime, phase, course, final, watch, snapshot,
                     low, high, ticks, reference, saved, failures>>
  BY SearchFacts DEF EndProbing, IInv, Searched, Bracket!Searching
<1>2. Basics'
  BY <1>1 DEF Basics, Refinement, IsWatch, IsState, IsRace, IsRuntime, State
<1>3. Saved' /\ Refining' /\ Replayed' /\ Bounded'
  BY <1>1, SavedKept, RefiningKept, ReplayedKept, BoundedKept DEF Refining
<1>4. low' + 1 >= high'
  BY <1>1 DEF Bounded
<1> QED
  BY <1>1, <1>2, <1>3, <1>4 DEF IInv, Refinement

LEMMA EndEstimateStep == IInv /\ EndEstimate => IInv'
<1> SUFFICES ASSUME IInv, EndEstimate PROVE IInv'
  OBVIOUS
<1>1. /\ pc \in {"searched", "bracketed"}
      /\ Basics /\ Saved /\ Refining /\ Replayed /\ Transition
      /\ pc = "bracketed" => Bounded /\ low + 1 >= high
      /\ pc = "bracketed" /\ failures = 0 => course.whole
      /\ pc = "searched" /\ failures = 0 => ~course.whole
  BY SearchFacts DEF EndEstimate, IInv, Searched
<1>2. PICK found :
        /\ found = IF pc = "searched" THEN {} ELSE Bracket!EstimateOf(low, high)
        /\ race' = reference.state.race
        /\ runtime' = [reference.state.runtime EXCEPT !.finishTime = found]
  <2>1. PICK clone \in final :
          \E found \in {IF pc = "searched" THEN {}
                        ELSE Bracket!EstimateOf(low, high)} :
            RestoreFinal([clone EXCEPT !.runtime.finishTime = found])
    BY DEF EndEstimate
  <2>2. clone = reference.state /\ IsState(clone)
    BY <1>1, <2>1 DEF Replayed, Refining
  <2> QED
    BY <2>1, <2>2 DEF RestoreFinal, Restore, IsState
<1>3. /\ pc' = "idle" /\ ticks' = ticks + 1
      /\ UNCHANGED <<phase, course, watch, reference, saved, failures>>
  BY DEF EndEstimate, Succeed
<1>4. /\ IsState(State') /\ race'.completed /\ runtime'.finishTime = found
      /\ State'.race = race' /\ State'.runtime = runtime'
      /\ race' = reference.state.race /\ runtime'.at = reference.state.runtime.at
  BY <1>1, <1>2 DEF Refining, IsState, IsRace, IsRuntime, State
<1>5. Basics'
  BY <1>1, <1>3, <1>4
     DEF Basics, Refinement, IsWatch, IsState, IsRace, IsRuntime, State
<1>6. Saved'
  BY <1>1, <1>3, SavedKept
<1>7. pc = "bracketed" =>
        found = {[lowerBoundNs |-> low, upperBoundNs |-> high, estimatedNs |-> high]}
  BY <1>1, <1>2 DEF Bracket!EstimateOf, Bracket!IsValid, Bounded
<1>8. OfCompletingSubstep(found, reference)
  <2>1. CASE pc = "searched"
    BY <1>2, <2>1 DEF OfCompletingSubstep
  <2>2. CASE pc = "bracketed"
    <3>1. /\ low \in Nat /\ high \in Nat /\ high = low + 1
          /\ Substep.start <= low /\ high <= Substep.end
      BY <1>1, <2>2 DEF Bounded
    <3>2. Substep.start \in Nat /\ Substep \in reference.finishedIn
      BY <1>1, SubstepFacts DEF Refining
    <3>3. Substep.start < high
      BY <3>1, <3>2
    <3> QED
      BY <1>7, <2>2, <3>1, <3>2, <3>3 DEF OfCompletingSubstep
  <2> QED
    BY <1>1, <2>1, <2>2
<1>9. Standing(State', ticks', reference')
  <2>1. failures = 0 => (reference.whole <=> found # {})
    BY <1>1, <1>2, <1>7 DEF Refining
  <2>2. failures = 0 => BothAt(State', Boundary(ticks'))
    BY <1>1, <1>3, <1>4 DEF Refining, BothAt
  <2>3. ticks' \in Nat
    BY <1>1, <1>3 DEF Basics
  <2> QED
    BY <1>3, <1>4, <1>8, <2>1, <2>2, <2>3 DEF Standing, OfCompletingSubstep
<1>10. Idling'
  BY <1>1, <1>3, <1>9
     DEF Idling, Standing, OfCompletingSubstep, BothAt, IsState, IsRace, IsRuntime,
         Boundary, Replayed, Unwatched
<1> QED
  BY <1>3, <1>5, <1>6, <1>10 DEF IInv, Refinement

-----------------------------------------------------------------------------
(* Allocations that fail: only what does not depend on them is kept.       *)

LEMMA FailsFacts == Basics /\ Fails => failures' \in Nat /\ failures' # 0
  BY DEF Basics, Fails

\* A call that gives up leaves a state to stand on, whatever is in it.
LEMMA StandingAfterFailure ==
    ASSUME failures' # 0, IsState(State'), ticks' \in Nat,
           runtime'.finishTime # {} => race'.completed,
           OfCompletingSubstep(runtime'.finishTime, reference'),
           phase' = "Idle" => Unwatched'
    PROVE  Idling'
  BY DEF Idling, Standing, OfCompletingSubstep, IsState, IsRace, IsRuntime, State

LEMMA PreparationRefusedStep == IInv /\ PreparationRefused => IInv'
<1> SUFFICES ASSUME IInv, PreparationRefused PROVE IInv'
  OBVIOUS
<1>1. /\ Basics /\ Saved /\ Refining /\ Unwatched
  BY DEF PreparationRefused, IInv, Refinement, Completed, Replayed
<1>2. /\ failures' \in Nat /\ failures' # 0
      /\ pc' = "idle" /\ ticks' = ticks + 1
      /\ UNCHANGED <<race, runtime, phase, course, watch, reference, saved>>
  BY <1>1, FailsFacts DEF PreparationRefused, Succeed
<1>3. Basics'
  BY <1>1, <1>2 DEF Basics, IsWatch, IsState, IsRace, IsRuntime, State
<1>4. Saved'
  BY <1>1, <1>2, SavedKept
<1>5. Idling'
  <2>1. OfCompletingSubstep(runtime'.finishTime, reference')
    BY <1>1, <1>2 DEF Refining, OfCompletingSubstep
  <2>2. IsState(State') /\ ticks' \in Nat /\ runtime'.finishTime = {}
    BY <1>1, <1>2 DEF Basics, Refining, State
  <2> QED
    BY <1>1, <1>2, <2>1, <2>2, StandingAfterFailure DEF Unwatched
<1> QED
  BY <1>2, <1>3, <1>4, <1>5 DEF IInv, Refinement

LEMMA ProbeRefusedStep == IInv /\ ProbeRefused => IInv'
<1> SUFFICES ASSUME IInv, ProbeRefused PROVE IInv'
  OBVIOUS
<1>1. /\ pc \in {"search", "probing"}
      /\ Basics /\ Saved /\ Refining /\ Replayed /\ Transition
  BY SearchFacts DEF ProbeRefused, IInv, Searched
<1>2. /\ failures' \in Nat /\ failures' # 0
      /\ UNCHANGED <<race, runtime, phase, course, final, watch, snapshot, ticks,
                     reference, saved>>
  BY <1>1, FailsFacts DEF ProbeRefused
<1>3. Saved' /\ Refining' /\ Replayed'
  BY <1>1, <1>2, SavedKept, RefiningKept, ReplayedKept DEF Refining
<1>4. pc' \in Refinement => Basics'
  BY <1>1, <1>2 DEF Basics, IsWatch, IsState, IsRace, IsRuntime, State
<1>5. CASE pc' = "searched"
  BY <1>2, <1>3, <1>4, <1>5 DEF IInv, Refinement
<1>6. CASE pc = "probing" /\ pc' = pc
  <2>1. Bounded /\ low + 1 < high /\ Bracket!Move(FALSE)
    BY <1>6 DEF ProbeRefused, IInv, Bracket!Searching
  <2>2. Bounded'
    BY <1>1, <1>2, <2>1, MoveBounded
  <2> QED
    BY <1>2, <1>3, <1>4, <1>6, <2>2 DEF IInv, Refinement
<1> QED
  BY <1>1, <1>5, <1>6 DEF ProbeRefused

LEMMA CopyThrowsStep == IInv /\ CopyThrows => IInv'
<1> SUFFICES ASSUME IInv, CopyThrows PROVE IInv'
  OBVIOUS
<1>1. Basics /\ Saved
  BY DEF IInv
<1>2. /\ failures' \in Nat /\ failures' # 0 /\ pc' = "idle" /\ runtime' = runtime
      /\ UNCHANGED <<phase, course, watch, ticks, reference, saved>>
  BY <1>1, FailsFacts DEF CopyThrows, Throw
<1>3. /\ race' = [at |-> race'.at, completed |-> race'.completed]
      /\ race'.completed \in BOOLEAN
      /\ runtime'.finishTime # {} => race'.completed
      /\ OfCompletingSubstep(runtime'.finishTime, reference')
      /\ phase' = "Idle" => Unwatched'
  <2>1. CASE pc = "tick"
    <3>1. Ticking /\ race' = race
      BY <2>1 DEF CopyThrows, IInv, Throw
    <3> QED
      BY <1>1, <1>2, <3>1
         DEF Ticking, Basics, State, IsState, IsRace, OfCompletingSubstep, Unwatched
  <2>2. CASE pc # "tick"
    <3>1. Refining /\ (phase = "Idle" => Unwatched)
      BY <2>2 DEF CopyThrows, IInv, Refinement, Completed, Replaying, Replayed
    <3>2. /\ runtime'.finishTime = {} /\ (phase' = "Idle" => Unwatched')
          /\ OfCompletingSubstep(runtime'.finishTime, reference')
      BY <1>2, <3>1 DEF Refining, OfCompletingSubstep, Unwatched
    <3>3. CASE race' = race
      BY <1>1, <3>2, <3>3 DEF Basics, State, IsState, IsRace
    <3>4. CASE race' # race
      <4>1. CASE pc = "replayed"
        <5>1. race' = reference.state.race
          BY <3>4, <4>1 DEF CopyThrows, Throw, IInv, Replayed
        <5> QED
          BY <3>1, <3>2, <5>1 DEF Refining, IsState, IsRace
      <4>2. CASE pc \in {"search", "probing"}
        <5>1. \E clone \in snapshot : race' = clone.race
          BY <3>4, <4>2 DEF CopyThrows, Throw
        <5>2. \A clone \in snapshot : IsState(clone)
          BY <4>2, SearchFacts DEF Searched
        <5> QED
          BY <3>2, <5>1, <5>2 DEF IsState, IsRace
      <4> QED
        BY <2>2, <3>4, <4>1, <4>2 DEF CopyThrows, Throw
    <3> QED
      BY <3>3, <3>4
  <2> QED
    BY <2>1, <2>2
<1>4. IsState(State')
  BY <1>1, <1>2, <1>3 DEF Basics, State, IsState, IsRace, IsRuntime
<1>5. Basics'
  BY <1>1, <1>2, <1>3, <1>4 DEF Basics, IsWatch, State
<1>6. Saved'
  BY <1>1, <1>2, SavedKept
<1>7. Idling'
  BY <1>1, <1>2, <1>3, <1>4, StandingAfterFailure DEF Basics
<1> QED
  BY <1>2, <1>5, <1>6, <1>7 DEF IInv, Refinement

LEMMA RerunThrowsStep == IInv /\ RerunThrows => IInv'
<1> SUFFICES ASSUME IInv, RerunThrows PROVE IInv'
  OBVIOUS
<1>1. /\ pc \in Searched /\ Basics /\ Saved /\ Refining
  BY SearchFacts DEF RerunThrows, IInv, Searched
<1>2. /\ failures' \in Nat /\ failures' # 0 /\ pc' = "idle" /\ phase' = "Stepping"
      /\ UNCHANGED <<course, watch, ticks, reference, saved>>
  BY <1>1, FailsFacts DEF RerunThrows
<1>3. IsState(State') /\ runtime'.finishTime = {}
  BY <1>1, RunFromFacts DEF RerunThrows
<1>4. Basics'
  BY <1>1, <1>2, <1>3 DEF Basics, IsWatch, IsState, IsRace, IsRuntime, State
<1>5. Saved'
  BY <1>1, <1>2, SavedKept
<1>6. OfCompletingSubstep(runtime'.finishTime, reference')
  BY <1>3 DEF OfCompletingSubstep
<1>7. Idling'
  BY <1>1, <1>2, <1>3, <1>6, StandingAfterFailure DEF Basics
<1> QED
  BY <1>2, <1>4, <1>5, <1>7 DEF IInv, Refinement

-----------------------------------------------------------------------------
(* The caller between the calls.                                           *)

LEMMA CaptureStateStep == IInv /\ CaptureState => IInv'
<1> SUFFICES ASSUME IInv, CaptureState PROVE IInv'
  OBVIOUS
<1>1. /\ pc = "idle" /\ pc' = "idle" /\ Basics /\ Idling
      /\ saved' = {[state |-> State, ticks |-> ticks, reference |-> reference,
                    outcome |-> outcome]}
      /\ UNCHANGED <<race, runtime, phase, course, watch, ticks, reference, failures>>
  BY DEF CaptureState, IInv
<1>2. Basics' /\ Idling'
  BY <1>1 DEF Basics, Idling, Standing, OfCompletingSubstep, BothAt, Boundary, Unwatched,
              IsWatch, IsState, IsRace, IsRuntime, State
<1>3. Standing(State, ticks, reference)'
  BY <1>2 DEF Idling
<1>4. Saved'
  <2>1. ASSUME NEW clone \in saved'
        PROVE  /\ clone.state = State' /\ clone.ticks = ticks'
               /\ clone.reference = reference'
    BY <1>1, <2>1 DEF State
  <2> QED
    BY <1>1, <1>2, <1>3, <2>1
       DEF Saved, Basics, Standing, OfCompletingSubstep, BothAt, Boundary, State
<1> QED
  BY <1>1, <1>2, <1>4 DEF IInv, Refinement

LEMMA RestoreStateStep == IInv /\ RestoreState => IInv'
<1> SUFFICES ASSUME IInv, RestoreState PROVE IInv'
  OBVIOUS
<1>1. /\ pc = "idle" /\ phase = "Idle" /\ Basics /\ Saved /\ Unwatched
      /\ UNCHANGED <<phase, pc, course, watch, saved, failures>>
  BY DEF RestoreState, IInv, Idling
<1>2. PICK clone \in saved :
        /\ race' = clone.state.race /\ runtime' = clone.state.runtime
        /\ ticks' = clone.ticks /\ reference' = clone.reference
  BY DEF RestoreState, Restore
<1>3. /\ Standing(clone.state, clone.ticks, clone.reference)
      /\ clone.reference = [state |-> clone.reference.state,
                            finishedIn |-> clone.reference.finishedIn,
                            whole |-> clone.reference.whole]
  BY <1>1, <1>2 DEF Saved
<1>4. State' = clone.state
  BY <1>2, <1>3 DEF State, Standing, IsState
<1>5. Standing(State, ticks, reference)'
  BY <1>1, <1>2, <1>3, <1>4
     DEF Standing, OfCompletingSubstep, BothAt, Boundary, IsState, IsRace, IsRuntime
<1>6. Basics'
  BY <1>1, <1>2, <1>3, <1>4
     DEF Basics, Standing, IsWatch, IsState, IsRace, IsRuntime, State
<1>7. Saved'
  BY <1>1, SavedKept
<1> QED
  BY <1>1, <1>5, <1>6, <1>7 DEF IInv, Idling, Unwatched, Refinement

-----------------------------------------------------------------------------
LEMMA StutterStep == IInv /\ UNCHANGED vars => IInv'
<1> SUFFICES ASSUME IInv, UNCHANGED vars PROVE IInv'
  OBVIOUS
<1> USE DEF vars
<1>1. Basics' /\ Saved'
  BY SavedKept DEF IInv, Basics, IsWatch, IsState, IsRace, IsRuntime, State
<1>2. pc' = "idle" => Idling'
  BY DEF IInv, Idling, Standing, OfCompletingSubstep, BothAt, Boundary, Unwatched,
         IsState, IsRace, IsRuntime, State
<1>3. pc' = "tick" => Ticking'
  BY DEF IInv, Ticking, Unwatched, CourseOK, OfCompletingSubstep, BothAt, Inside,
         BeforeFinish, Boundary, IsState, IsRace, IsRuntime, State
<1>4. pc' \in Refinement => Refining'
  BY RefiningKept DEF IInv, Refining
<1>5. pc' = "estimate" => Completed'
  BY DEF IInv, Completed, Unwatched, BeforeFinish, BothAt, Boundary,
         IsState, IsRace, IsRuntime, State
<1>6. pc' = "replay" => Replaying'
  BY DEF IInv, Replaying, EndOf, Transition, OffsetBefore, BothAt, Inside,
         IsState, IsRace, IsRuntime, State
<1>7. pc' \in Searched => Replayed'
  BY ReplayedKept DEF IInv, Searched
<1>8. pc' \in {"probing", "bracketed"} => Bounded'
  BY BoundedKept DEF IInv
<1> QED
  BY <1>1, <1>2, <1>3, <1>4, <1>5, <1>6, <1>7, <1>8
     DEF IInv, Searched, Refinement, Substep, Nanoseconds, TickTime

LEMMA IInvStep == IInv /\ [Next]_vars => IInv'
<1> SUFFICES ASSUME IInv, [Next]_vars PROVE IInv'
  OBVIOUS
<1>1. CASE CollisionSubstep
  BY <1>1, TickSubstep, ReplaySubstep DEF CollisionSubstep
<1>2. CASE StepActions /\ ~CollisionSubstep
  BY <1>2, EndTickStep, BeginReplayStep, EndReplayStep, BeginSearchStep,
     ProbeWholeStep, ProbePartStep, EndProbingStep, EndEstimateStep DEF StepActions
<1>3. CASE Next /\ ~StepActions
  BY <1>3, BeginTickStep, PreparationRefusedStep, ProbeRefusedStep, CopyThrowsStep,
     RerunThrowsStep, CaptureStateStep, RestoreStateStep DEF Next
<1>4. CASE UNCHANGED vars
  BY <1>4, StutterStep
<1> QED
  BY <1>1, <1>2, <1>3, <1>4

\* Every stage of a call finds what the stage before it left.
THEOREM EstimateInvariance == Spec => []IInv
  BY IInvInit, IInvStep, PTL DEF Spec

-----------------------------------------------------------------------------
(* The checked invariants.                                                 *)

\* Unless an allocation fails, the runtime and the race are where the
\* ordinary tick left them when Step returns Success, whatever was rerun to
\* find the finish time.
THEOREM NoTrace == Spec => []NoTraceWithoutFailure
<1>1. IInv => NoTraceWithoutFailure
  BY DEF IInv, Idling, Standing, State, NoTraceWithoutFailure, RefinementLeavesNoTrace
<1> QED
  BY <1>1, EstimateInvariance, PTL

\* The search always reruns the substep that finished the race, from before it.
THEOREM RerunsAreOfFinish == Spec => []RerunsTheFinishingSubstep
<1>1. IInv => RerunsTheFinishingSubstep
  <2> SUFFICES ASSUME IInv, pc \in {"search", "probing", "searched", "bracketed"}
               PROVE  /\ snapshot # {}
                      /\ \A clone \in snapshot : ~clone.race.completed
                      /\ failures = 0 => \A clone \in snapshot :
                            /\ clone.race.at = Inside(ticks, course.finishAt - 1)
                            /\ clone.runtime.at = clone.race.at
                      /\ watch.start = OffsetBefore(course.ends, course.finishAt)
                      /\ watch.start + watch.duration = course.ends[course.finishAt]
    BY DEF RerunsTheFinishingSubstep
  <2>1. Basics /\ Refining /\ Transition
    BY SearchFacts DEF Searched
  <2> QED
    BY <2>1, SubstepFacts DEF Transition, BothAt
<1> QED
  BY <1>1, EstimateInvariance, PTL

\* The bounds stay apart and within the substep, and what they say of the
\* finish is what reruns of it said.
THEOREM BoundsOfReruns == Spec => []BoundsAreReruns
<1>1. IInv => BoundsAreReruns
  BY DEF IInv, Bounded, BoundsAreReruns
<1> QED
  BY <1>1, EstimateInvariance, PTL

\* A finish time is of the substep that completed the race, rounded outward to
\* nanoseconds, and missing only where that substep, rerun, does not complete it.
THEOREM FinishTimeInItsSubstep == Spec => []FinishTimeOfCompletingSubstep
<1>1. IInv => FinishTimeOfCompletingSubstep
  <2> SUFFICES ASSUME IInv, pc = "idle"
               PROVE  /\ \A e \in runtime.finishTime :
                            /\ race.completed
                            /\ e.upperBoundNs = e.lowerBoundNs + 1
                            /\ \E s \in reference.finishedIn :
                                s.start < e.estimatedNs /\ e.estimatedNs <= s.end
                      /\ outcome = "Success" /\ failures = 0 =>
                            (race.completed /\ reference.whole
                                <=> runtime.finishTime # {})
    BY DEF FinishTimeOfCompletingSubstep
  <2>1. Standing(State, ticks, reference) /\ State.race = race /\ State.runtime = runtime
    BY DEF IInv, Idling, State
  <2> QED
    BY <2>1 DEF Standing, OfCompletingSubstep
<1> QED
  BY <1>1, EstimateInvariance, PTL

\* No failure leaves a runtime that can be stepped under the observer of a
\* refinement that did not end.
THEOREM NeverLeftObserved == Spec => []ReadyRuntimeUnobserved
<1>1. IInv => ReadyRuntimeUnobserved
  BY DEF IInv, Idling, Unwatched, ReadyRuntimeUnobserved
<1> QED
  BY <1>1, EstimateInvariance, PTL

-----------------------------------------------------------------------------
Record(from, to) ==
    [lowerBoundNs |-> from, upperBoundNs |-> to, estimatedNs |-> to]

(* The inductive invariant: the bounds are probes or the substep's own,    *)
(* and what has been returned is the bracket they ended on.                *)
InSubstep == finishing \subseteq Interior(substep.start, substep.end)

AtCall == stage = "called" =>
    lower = substep.start /\ upper = substep.end /\ estimate = {}

AtSearch == stage = "searching" =>
    substep.start < substep.end /\ whole /\ estimate = {}

AtReturn == stage = "returned" =>
    \/ estimate = {} /\ (substep.start >= substep.end \/ ~whole)
    \/ /\ substep.start < substep.end /\ whole
       /\ upper = lower + 1
       /\ estimate = {Record(lower, upper)}

BracketIInv == TypeOK /\ InSubstep /\ AtCall /\ AtSearch /\ AtReturn /\ BoundsAreProbes

-----------------------------------------------------------------------------
(* Half of a whole number, rounded down.                                   *)
LEMMA Half ==
    ASSUME NEW n \in Int
    PROVE  /\ n \div 2 \in Int
           /\ 2 * (n \div 2) <= n
           /\ n < 2 * (n \div 2) + 2
  BY SMT

(* The candidate lies strictly between the bounds of a search that has not *)
(* ended, with at most half of the interior on either side.                *)
LEMMA CandidateInside ==
    ASSUME lower \in Nat, upper \in Nat, lower + 1 < upper
    PROVE  /\ Candidate \in Nat
           /\ lower < Candidate /\ Candidate < upper
           /\ 2 * (upper - Candidate - 1) <= upper - lower - 1
           /\ 2 * (Candidate - lower - 1) <= upper - lower - 1
<1> DEFINE n == (upper - 1) - (lower + 1)
<1> DEFINE h == n \div 2
<1>1. n \in Int /\ n >= 0
  OBVIOUS
<1>2. h \in Int /\ 2 * h <= n /\ n < 2 * h + 2
  <2> HIDE DEF n
  <2> QED BY <1>1, Half
<1>3. Candidate = lower + 1 + h
  BY DEF Candidate
<1> HIDE DEF h
<1>4. QED
  BY <1>1, <1>2, <1>3

-----------------------------------------------------------------------------
LEMMA BracketIInvInit == BracketInit => BracketIInv
<1> SUFFICES ASSUME BracketInit PROVE BracketIInv
  OBVIOUS
<1>0. PICK start \in 0..MaxTime, end \in 0..MaxTime, full \in BOOLEAN :
        \E durations \in SUBSET Interior(start, end) :
            Called([start |-> start, end |-> end], durations, full)
  BY DEF BracketInit
<1>1. PICK durations \in SUBSET Interior(start, end) :
        Called([start |-> start, end |-> end], durations, full)
  BY <1>0
<1>2. /\ substep = [start |-> start, end |-> end] /\ finishing = durations
      /\ whole = full /\ lower = start /\ upper = end
      /\ stage = "called" /\ estimate = {}
  BY <1>1 DEF Called
<1>3. start \in Nat /\ end \in Nat
  BY MaxTimeAssumption
<1>4. finishing \subseteq Interior(start, end) /\ finishing \subseteq Nat
  BY <1>2, <1>3 DEF Interior
<1>5. TypeOK
  BY <1>2, <1>3, <1>4 DEF TypeOK, Stages
<1>6. QED
  BY <1>2, <1>4, <1>5
  DEF BracketIInv, InSubstep, AtCall, AtSearch, AtReturn, BoundsAreProbes

LEMMA ProbeIInv ==
    ASSUME BracketIInv, Probe
    PROVE  BracketIInv'
<1>1. /\ stage = "searching" /\ stage' = "searching" /\ lower + 1 < upper
      /\ UNCHANGED <<substep, finishing, whole, estimate>>
      /\ upper' = IF Candidate \in finishing THEN Candidate ELSE upper
      /\ lower' = IF Candidate \in finishing THEN lower ELSE Candidate
  BY DEF Probe, Searching, Move
<1>2. /\ substep.start \in Nat /\ substep.end \in Nat
      /\ lower \in Nat /\ upper \in Nat /\ TypeOK
  BY DEF BracketIInv, TypeOK
<1>3. Candidate \in Nat /\ lower < Candidate /\ Candidate < upper
  BY <1>1, <1>2, CandidateInside
<1> HIDE DEF Candidate
<1>4. TypeOK'
  BY <1>1, <1>2, <1>3 DEF TypeOK, Stages
<1>5. /\ substep.start <= lower /\ lower < upper /\ upper <= substep.end
      /\ lower # substep.start => lower \notin finishing
      /\ upper # substep.end => upper \in finishing
  BY <1>1 DEF BracketIInv, BoundsAreProbes
<1>6. BoundsAreProbes'
  <2>1. CASE Candidate \in finishing
    BY <1>1, <1>2, <1>3, <1>5, <2>1 DEF BoundsAreProbes
  <2>2. CASE Candidate \notin finishing
    BY <1>1, <1>2, <1>3, <1>5, <2>2 DEF BoundsAreProbes
  <2>3. QED BY <2>1, <2>2
<1>7. QED
  BY <1>1, <1>4, <1>6 DEF BracketIInv, InSubstep, AtCall, AtSearch, AtReturn

LEMMA ReturnIInv ==
    ASSUME BracketIInv, Return
    PROVE  BracketIInv'
<1>1. /\ stage = "searching" /\ stage' = "returned" /\ ~(lower + 1 < upper)
      /\ UNCHANGED <<substep, finishing, whole, lower, upper>>
      /\ estimate' = EstimateOf(lower, upper)
  BY DEF Return, Searching
<1>2. /\ lower \in Nat /\ upper \in Nat /\ lower < upper
      /\ substep.start < substep.end /\ whole /\ TypeOK
  BY <1>1 DEF BracketIInv, TypeOK, BoundsAreProbes, AtSearch
<1>3. upper = lower + 1
  BY <1>1, <1>2
<1>4. IsValid(Record(lower, upper))
  BY <1>2, <1>3 DEF IsValid, Record
<1>5. estimate' = {Record(lower, upper)}
  BY <1>1, <1>4 DEF EstimateOf, Record
<1>6. TypeOK'
  BY <1>1, <1>2, <1>5 DEF TypeOK, Stages, Record
<1>7. BoundsAreProbes'
  BY <1>1 DEF BracketIInv, BoundsAreProbes
<1>8. AtReturn'
  BY <1>1, <1>2, <1>3, <1>5 DEF AtReturn, Record
<1>9. QED
  BY <1>1, <1>6, <1>7, <1>8 DEF BracketIInv, InSubstep, AtCall, AtSearch

LEMMA BracketIInvStep == BracketIInv /\ [BracketNext]_bracketVars => BracketIInv'
<1> SUFFICES ASSUME BracketIInv, [BracketNext]_bracketVars PROVE BracketIInv'
  OBVIOUS
<1>1. CASE Begin
  <2>1. /\ stage' = "searching" /\ substep.start < substep.end /\ whole
        /\ lower = substep.start /\ upper = substep.end /\ estimate = {}
        /\ UNCHANGED <<substep, finishing, whole, lower, upper, estimate>>
    BY <1>1 DEF Begin, BracketIInv, AtCall
  <2>2. substep.start \in Nat /\ substep.end \in Nat /\ TypeOK
    BY DEF BracketIInv, TypeOK
  <2>3. TypeOK'
    BY <2>1, <2>2 DEF TypeOK, Stages
  <2>4. BoundsAreProbes'
    BY <2>1, <2>2 DEF BoundsAreProbes
  <2>5. QED
    BY <2>1, <2>3, <2>4 DEF BracketIInv, InSubstep, AtCall, AtSearch, AtReturn
<1>2. CASE Refuse
  <2>1. /\ stage' = "returned"
        /\ substep.start >= substep.end \/ ~whole
        /\ estimate = {}
        /\ UNCHANGED <<substep, finishing, whole, lower, upper, estimate>>
    BY <1>2 DEF Refuse, BracketIInv, AtCall
  <2>2. TypeOK'
    BY <2>1 DEF BracketIInv, TypeOK, Stages
  <2>3. QED
    BY <2>1, <2>2
    DEF BracketIInv, InSubstep, AtCall, AtSearch, AtReturn, BoundsAreProbes
<1>3. CASE Probe
  BY <1>3, ProbeIInv
<1>4. CASE Return
  BY <1>4, ReturnIInv
<1>5. CASE UNCHANGED bracketVars
  BY <1>5 DEF bracketVars, BracketIInv, TypeOK, InSubstep, AtCall, AtSearch, AtReturn,
              BoundsAreProbes
<1>6. QED
  BY <1>1, <1>2, <1>3, <1>4, <1>5 DEF BracketNext

(* The inductive invariant of the search, for substeps of any length.      *)
THEOREM BracketInvariance == BracketSpec => []BracketIInv
<1>1. BracketInit => BracketIInv
  BY BracketIInvInit
<1>2. BracketIInv /\ [BracketNext]_bracketVars => BracketIInv'
  BY BracketIInvStep
<1>3. QED
  BY <1>1, <1>2, PTL DEF BracketSpec

(* The bounds of the search are probes that did and did not finish, or     *)
(* those of the substep, whatever set of durations finishes.               *)
THEOREM BoundsCorrect == BracketSpec => []BoundsAreProbes
<1>1. BracketIInv => BoundsAreProbes
  BY DEF BracketIInv
<1>2. QED
  BY <1>1, BracketInvariance, PTL

(* A search that was not refused ends on exactly one nanosecond.           *)
THEOREM EstimateCorrect == BracketSpec => []ValidUnlessRefused
<1>1. BracketIInv => ValidUnlessRefused
  <2> SUFFICES ASSUME BracketIInv, stage = "returned"
               PROVE  /\ (estimate = {}) <=> (substep.start >= substep.end \/ ~whole)
                      /\ \A e \in estimate : /\ IsValid(e)
                                             /\ substep.start <= e.lowerBoundNs
                                             /\ e.upperBoundNs <= substep.end
    BY DEF ValidUnlessRefused
  <2>1. substep.start \in Nat /\ substep.end \in Nat /\ lower \in Nat /\ upper \in Nat
    BY DEF BracketIInv, TypeOK
  <2>2. CASE estimate = {} /\ (substep.start >= substep.end \/ ~whole)
    BY <2>2
  <2>3. CASE /\ substep.start < substep.end /\ whole
             /\ upper = lower + 1
             /\ estimate = {Record(lower, upper)}
    <3>1. substep.start <= lower /\ upper <= substep.end
      BY <2>3 DEF BracketIInv, BoundsAreProbes
    <3>2. \A e \in estimate : e.lowerBoundNs = lower /\ e.upperBoundNs = upper
                              /\ e.estimatedNs = upper
      BY <2>3 DEF Record
    <3>3. \A e \in estimate : IsValid(e)
      BY <2>1, <2>3, <3>2 DEF IsValid
    <3>4. ~(substep.start >= substep.end \/ ~whole) /\ estimate # {}
      BY <2>1, <2>3
    <3>5. QED
      BY <3>1, <3>2, <3>3, <3>4
  <2>4. QED
    BY <2>2, <2>3 DEF BracketIInv, AtReturn
<1>2. QED
  BY <1>1, BracketInvariance, PTL

(* On an upward-closed set of durations binary search finds the first.     *)
THEOREM ExactCorrect == BracketSpec => []MonotoneSearchIsExact
<1>1. BracketIInv => MonotoneSearchIsExact
  <2> SUFFICES ASSUME BracketIInv, UpwardClosed, NEW e \in estimate
               PROVE  FirstFinishing(e.estimatedNs)
    BY DEF MonotoneSearchIsExact
  <2>1. /\ substep.start \in Nat /\ substep.end \in Nat
        /\ lower \in Nat /\ upper \in Nat
        /\ finishing \subseteq Interior(substep.start, substep.end)
    BY DEF BracketIInv, TypeOK, InSubstep
  <2>2. stage = "returned"
    BY DEF BracketIInv, AtCall, AtSearch, TypeOK, Stages
  <2>3. upper = lower + 1 /\ e.estimatedNs = upper
    BY <2>2 DEF BracketIInv, AtReturn, Record
  <2>4. /\ substep.start <= lower /\ upper <= substep.end
        /\ lower # substep.start => lower \notin finishing
        /\ upper # substep.end => upper \in finishing
    BY DEF BracketIInv, BoundsAreProbes
  <2>5. ASSUME NEW m \in Interior(substep.start, upper)
        PROVE  m \notin finishing
    <3>1. m \in Int /\ substep.start < m /\ m <= lower
      BY <2>1, <2>3, <2>5 DEF Interior
    <3>2. lower \in Interior(substep.start, substep.end) /\ lower \notin finishing
      BY <2>1, <2>3, <2>4, <3>1 DEF Interior
    <3>3. m \in finishing => m = lower
      BY <2>1, <3>1, <3>2 DEF UpwardClosed
    <3>4. QED
      BY <3>2, <3>3
  <2>6. QED
    BY <2>3, <2>4, <2>5 DEF FirstFinishing
<1>2. QED
  BY <1>1, BracketInvariance, PTL

(* A substep of n nanoseconds is decided in the binary logarithm of n      *)
(* reruns: none leaves more than half of the interior.                     *)
THEOREM HalvingCorrect == BracketSpec => ProbesHalve
<1>1. ASSUME BracketIInv, [BracketNext]_bracketVars
      PROVE  [InteriorSize' # InteriorSize => 2 * InteriorSize' <= InteriorSize]_bracketVars
  <2>1. CASE Probe
    <3>1. lower \in Nat /\ upper \in Nat /\ lower + 1 < upper
      BY <1>1, <2>1 DEF Probe, Searching, BracketIInv, TypeOK
    <3>2. /\ Candidate \in Nat
          /\ 2 * (upper - Candidate - 1) <= upper - lower - 1
          /\ 2 * (Candidate - lower - 1) <= upper - lower - 1
      BY <3>1, CandidateInside
    <3> HIDE DEF Candidate
    <3>3. QED
      BY <2>1, <3>1, <3>2 DEF Probe, Move, InteriorSize
  <2>2. CASE Begin \/ Refuse \/ Return \/ UNCHANGED bracketVars
    BY <2>2 DEF Begin, Refuse, Return, InteriorSize, bracketVars
  <2>3. QED
    BY <1>1, <2>1, <2>2 DEF BracketNext
<1>2. QED
  BY <1>1, BracketInvariance, PTL DEF BracketSpec, ProbesHalve
=============================================================================
