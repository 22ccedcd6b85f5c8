--------------------------- MODULE FinishBracket ---------------------------
(* RefineReplayFinishTime (replay_finish_time_estimator.cpp): a binary     *)
(* search over the whole nanoseconds of a collision substep for the        *)
(* duration at which a rerun of the substep finishes the race.             *)
(*                                                                         *)
(* The search keeps lower and upper as doubles and looks at them only      *)
(* through floor(lower) and ceil(upper), which are what stands here; all   *)
(* they are ever assigned after the start is a whole number of             *)
(* nanoseconds.  A substep is thus given by its outward-rounded bounds.    *)
(* A candidate is a whole nanosecond after the floor of the substep's      *)
(* start, so partialSeconds > 0 and the branch for the contrary is dead.   *)
(* Whether a rerun finishes is the physics' affair: any set of durations   *)
(* may, an upward-closed one or not.                                       *)
EXTENDS Integers

CONSTANT MaxTime  \* bound: the last nanosecond a substep may end at

ASSUME MaxTimeAssumption == MaxTime \in Nat

VARIABLES
    substep,    \* [start, end], in nanoseconds on the timeline
    finishing,  \* the nanoseconds up to which a rerun finishes the race
    whole,      \* whether the rerun of the whole substep does
    lower,      \* floor(lower)
    upper,      \* ceil(upper)
    stage,      \* "called", "searching" or "returned"
    estimate    \* the optional FinishTimeEstimate: a set of at most one

bracketVars == <<substep, finishing, whole, lower, upper, stage, estimate>>

Stages == {"called", "searching", "returned"}

Interior(from, to) == (from + 1)..(to - 1)

\* The estimate the final bounds give, if it is valid.
IsValid(e) ==
    /\ e.lowerBoundNs < e.upperBoundNs
    /\ e.upperBoundNs - e.lowerBoundNs <= 1
    /\ e.estimatedNs = e.upperBoundNs

(* Mutant: the bracket after the one found. *)
EstimateAfter(from, to) ==
    {[lowerBoundNs |-> from + 1, upperBoundNs |-> to + 1, estimatedNs |-> to + 1]}

EstimateOf(from, to) ==
    {e \in {[lowerBoundNs |-> from, upperBoundNs |-> to, estimatedNs |-> to]} :
        IsValid(e)}

-----------------------------------------------------------------------------
Called(s, durations, full) ==
    /\ substep = s
    /\ finishing = durations
    /\ whole = full
    /\ lower = s.start
    /\ upper = s.end
    /\ stage = "called"
    /\ estimate = {}

BracketInit ==
    \E start, end \in 0..MaxTime, full \in BOOLEAN :
        \E durations \in SUBSET Interior(start, end) :
            Called([start |-> start, end |-> end], durations, full)

\* lower < upper, and the whole substep must finish the race by itself.
Begin ==
    /\ stage = "called"
    /\ substep.start < substep.end
    /\ whole
    /\ stage' = "searching"
    /\ UNCHANGED <<substep, finishing, whole, lower, upper, estimate>>

Refuse ==
    /\ stage = "called"
    /\ substep.start >= substep.end \/ ~whole
    /\ stage' = "returned"
    /\ UNCHANGED <<substep, finishing, whole, lower, upper, estimate>>

(* Mutant: the first candidate instead of the middle one. *)
CandidateFirst == lower + 1

Candidate == (lower + 1) + ((upper - 1) - (lower + 1)) \div 2

(* Mutant: the bounds trade places. *)
MoveSwapped(finished) ==
    /\ upper' = IF finished THEN upper ELSE Candidate
    /\ lower' = IF finished THEN Candidate ELSE lower

\* One probe: a success moves the upper bound, a failure the lower one.
Move(finished) ==
    /\ upper' = IF finished THEN Candidate ELSE upper
    /\ lower' = IF finished THEN lower ELSE Candidate

(* Mutant: the search stops one nanosecond early. *)
SearchingWide == stage = "searching" /\ lower + 2 < upper

(* Mutant: the search goes on between adjacent bounds. *)
SearchingAdjacent == stage = "searching" /\ lower < upper

Searching == stage = "searching" /\ lower + 1 < upper

Probe ==
    /\ Searching
    /\ Move(Candidate \in finishing)
    /\ UNCHANGED <<substep, finishing, whole, stage, estimate>>

Return ==
    /\ stage = "searching"
    /\ ~Searching
    /\ estimate' = EstimateOf(lower, upper)
    /\ stage' = "returned"
    /\ UNCHANGED <<substep, finishing, whole, lower, upper>>

BracketNext == Begin \/ Refuse \/ Probe \/ Return

BracketSpec == BracketInit /\ [][BracketNext]_bracketVars

-----------------------------------------------------------------------------
TypeOK ==
    /\ substep \in [start : Nat, end : Nat]
    /\ finishing \subseteq Nat
    /\ whole \in BOOLEAN
    /\ lower \in Nat /\ upper \in Nat
    /\ stage \in Stages
    /\ \A e, f \in estimate : e = f
    /\ estimate \subseteq [lowerBoundNs : Nat, upperBoundNs : Nat, estimatedNs : Nat]

(* "A failed probe moves the exclusive lower bound; a successful probe     *)
(* moves the inclusive upper bound" (docs/finish-time-approximation.md:50):*)
(* whatever set of durations finishes, the exclusive bound is the start of *)
(* the substep or a probe that did not finish, the inclusive one its end   *)
(* or a probe that did, and the bounds never cross.                        *)
BoundsAreProbes ==
    stage = "searching" \/ estimate # {} =>
        /\ substep.start <= lower /\ lower < upper /\ upper <= substep.end
        /\ lower # substep.start => lower \notin finishing
        /\ upper # substep.end => upper \in finishing

(* The search gives no estimate only where the whole substep does not      *)
(* finish the race or is no interval, and what it gives is one nanosecond  *)
(* inside the substep.                                                     *)
ValidUnlessRefused ==
    stage = "returned" =>
        /\ (estimate = {}) <=> (substep.start >= substep.end \/ ~whole)
        /\ \A e \in estimate :
            /\ IsValid(e)
            /\ substep.start <= e.lowerBoundNs
            /\ e.upperBoundNs <= substep.end

(* Where every longer rerun of a finishing one finishes too, the estimate  *)
(* is the first whole nanosecond that finishes, or the end of the substep  *)
(* where only the whole of it does.                                        *)
UpwardClosed ==
    \A n \in finishing : \A m \in Interior(substep.start, substep.end) :
        n < m => m \in finishing

FirstFinishing(n) ==
    /\ n \in finishing \cup {substep.end}
    /\ \A m \in Interior(substep.start, n) : m \notin finishing

MonotoneSearchIsExact ==
    UpwardClosed => \A e \in estimate : FirstFinishing(e.estimatedNs)

(* Each probe leaves at most half of the interior, so that a substep of    *)
(* 10 ms takes at most 24 reruns.                                          *)
InteriorSize == upper - lower - 1

ProbesHalve ==
    [][InteriorSize' # InteriorSize => 2 * InteriorSize' <= InteriorSize]_bracketVars
=============================================================================
