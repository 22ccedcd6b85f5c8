--------------------------- MODULE MCValidation ---------------------------
(* Small replays for Validation.                                           *)
EXTENDS Validation

\* Recordings of two to three samples, complete and not.
Recording(mode, raceTime, score, respawns, finish, presses) == [
    mode |-> mode, compatible |-> TRUE, hasInput |-> TRUE, scripted |-> FALSE,
    raceTime |-> raceTime, score |-> score, respawns |-> respawns,
    duration |-> 20, samples |-> 3, finish |-> finish, presses |-> presses]

MCDistances == {0, 1, 2}

Races ==
    {Recording("Race", time, NoValue, respawns, 10, 0) :
        time \in {NoValue, 0, 10, 20}, respawns \in {NoValue, 0, 1}}
ByInputs ==
    {Recording(mode, time, NoValue, respawns, finish, presses) :
        mode \in {"Platform", "Puzzle"}, time \in {NoValue, 10},
        respawns \in {NoValue, 1}, finish \in {NoValue, 10, 20, 30},
        presses \in {1, 3}}
Stunts ==
    {Recording("Stunts", time, score, respawns, finish, 1) :
        time \in {NoValue, 10}, score \in {NoValue, 0, 1, 3},
        respawns \in {NoValue, 1}, finish \in {NoValue, 10, 20}}

Complete == Recording("Race", 10, NoValue, 0, 10, 0)
Special ==
    {[Complete EXCEPT !.compatible = FALSE], [Complete EXCEPT !.hasInput = FALSE],
     [Complete EXCEPT !.scripted = TRUE], [Complete EXCEPT !.samples = 0],
     [Complete EXCEPT !.duration = 15], [Complete EXCEPT !.duration = 0]}

MCReplays == Races \cup ByInputs \cup Stunts \cup Special
=============================================================================
