------------------------------ MODULE LapRace ------------------------------
(***************************************************************************)
(* What a lap race promises, with none of the bookkeeping: a lap is the    *)
(* set of checkpoints taken since the last passage of the finish line, the *)
(* finish line only counts when that set is complete, and the race is over *)
(* for good once it has been run to its end.  One earlier state may be     *)
(* kept and gone back to.  Race.tla is shown to implement this module.     *)
(***************************************************************************)
EXTENDS Naturals

CONSTANT
    Checkpoints    \* the checkpoints of the course

VARIABLES
    lap,           \* checkpoints taken in the running lap
    laps,          \* laps completed
    over,          \* the race has been completed
    kept           \* the state kept: a set of at most one

absVars == <<lap, laps, over, kept>>

AbsInit ==
    /\ lap = {}
    /\ laps = 0
    /\ over = FALSE
    /\ kept = {}

(* A new race starts from nothing; the kept state survives it. *)
NewRace ==
    /\ lap' = {}
    /\ laps' = 0
    /\ over' = FALSE
    /\ UNCHANGED kept

(* A checkpoint counts once per lap, and never after the end. *)
TakeCheckpoint(c) ==
    /\ ~over
    /\ c \notin lap
    /\ lap' = lap \cup {c}
    /\ UNCHANGED <<laps, over, kept>>

(* The finish line closes a complete lap and opens the next one. *)
CloseLap ==
    /\ ~over
    /\ lap = Checkpoints
    /\ laps' = laps + 1
    /\ lap' = {}
    /\ UNCHANGED <<over, kept>>

(* The finish line of the last lap ends the race. *)
EndRace ==
    /\ ~over
    /\ lap = Checkpoints
    /\ laps' = laps + 1
    /\ over' = TRUE
    /\ UNCHANGED <<lap, kept>>

Keep ==
    /\ kept' = {[lap |-> lap, laps |-> laps, over |-> over]}
    /\ UNCHANGED <<lap, laps, over>>

GoBack(state) ==
    /\ lap' = state.lap
    /\ laps' = state.laps
    /\ over' = state.over
    /\ UNCHANGED kept

AbsNext ==
    \/ NewRace
    \/ \E c \in Checkpoints : TakeCheckpoint(c)
    \/ CloseLap
    \/ EndRace
    \/ Keep
    \/ \E state \in kept : GoBack(state)

AbsSpec == AbsInit /\ [][AbsNext]_absVars
=============================================================================
