-------------------------- MODULE MCSearchCandidate --------------------------
(* Small searches for SearchCandidate: flat and segmented ones, with inputs *)
(* before the boundary or none, that are canonical or not, and windows that *)
(* begin and end between ticks.                                             *)
EXTENDS SearchCandidate

MCWeighted(amplitude, distance) ==
    CASE distance = 0 -> amplitude [] distance = 1 -> amplitude \div 2 [] OTHER -> 0

MCDraws == {-2, 0, 1, 2}

Off == [fewest |-> 0, most |-> 0, hold |-> 0]
Once(hold) == [fewest |-> 0, most |-> 1, hold |-> hold]

Randomized(first, last) == [kind |-> "RandomSteering", first |-> first, last |-> last]

Existing(first, last, fewest, most, shift, values, toggles) ==
    [kind |-> "ExistingEvent", first |-> first, last |-> last, fewest |-> fewest,
     most |-> most, shift |-> shift, absolute |-> FALSE, values |-> values,
     toggles |-> toggles]

Smooth(first, last, deformations, radius) ==
    [kind |-> "SmoothSteering", first |-> first, last |-> last,
     deformations |-> deformations, radius |-> radius, amplitudes |-> {-2, 2}]

Insertion(first, last, steering, accelerate, brake, offset) ==
    [kind |-> "InputInsertion", first |-> first, last |-> last, steering |-> steering,
     accelerate |-> accelerate, brake |-> brake, offset |-> offset,
     values |-> {0, 1, 2}]

Deletion(first, last, steering, accelerate) ==
    [kind |-> "InputDeletion", first |-> first, last |-> last, steering |-> steering,
     accelerate |-> accelerate, brake |-> 0]

Segment(first, last) == [first |-> first, last |-> last]

Search(inputs, pipeline, segments) ==
    [inputs |-> inputs, pipeline |-> pipeline, segments |-> segments, horizon |-> 24,
     stunts |-> FALSE]

Pressed == <<Event(8, Accelerate, 1), Event(9, Steer, 2), Event(13, Accelerate, 0),
             Event(18, Steer, -2), Event(30, Steer, 1)>>

Twice == <<Event(0, Steer, 1), Event(10, Steer, 2), Event(10, Steer, 1),
           Event(14, Brake, 1), Event(20, Steer, 0)>>

Analogs == <<Event(9, Steer, 2), Event(11, Gas, -2), Event(17, Accelerate, 1),
             Event(18, Steer, -1), Event(22, Steer, 2)>>

Digital == <<Event(9, SteerLeft, 1), Event(11, Steer, 2), Event(17, SteerLeft, 0),
             Event(21, Accelerate, 1)>>

Carried == <<Event(4, Steer, 2), Event(6, SteerLeft, 0), Event(6, Gas, 2),
             Event(7, Brake, 1), Event(9, Steer, -2), Event(16, Brake, 0)>>

Two == <<Segment(8, 12), Segment(20, 24)>>
Three == <<Segment(8, 8), Segment(12, 12), Segment(16, 20)>>

MCSearches ==
    {Search(Twice, <<Existing(10, 18, 1, 2, 4, {-1, 1}, {"brake"}),
                     Existing(8, 22, 0, 2, 0, {2}, {})>>, <<>>),
     Search(Pressed, <<Insertion(10, 18, Once(4), Once(8), Off, FALSE),
                       Existing(8, 16, 1, 2, 8, {1}, {"accelerate"})>>, <<>>),
     Search(Twice, <<Smooth(9, 20, 1, 8), Randomized(12, 22)>>, <<>>),
     Search(Pressed, <<Randomized(8, 12), Smooth(8, 16, 2, 4),
                       Deletion(8, 18, 1, 1)>>, <<>>),
     Search(Analogs, <<Insertion(8, 24, Once(4), Off, Once(0), FALSE)>>, Three),
     Search(Analogs, <<Deletion(8, 24, 1, 1), Randomized(20, 24)>>, Two),
     Search(Digital, <<Insertion(8, 24, Once(0), Once(4), Off, TRUE)>>, Three),
     Search(Digital, <<Existing(8, 24, 1, 1, 4, {-2}, {"accelerate"})>>, Two),
     Search(Carried, <<Insertion(8, 24, Once(4), Off, Off, FALSE)>>, Two),
     Search(Carried, <<Existing(8, 24, 0, 2, 8, {-1, 2}, {"accelerate", "brake"})>>, Three),
     Search(Digital, <<Smooth(8, 22, 1, 4), Existing(10, 22, 0, 1, 4, {1}, {"brake"})>>, Three),
     Search(Carried, <<Randomized(8, 24), Insertion(11, 20, Once(4), Off, Once(4), TRUE)>>,
            Two),
     Search(Analogs, <<Insertion(9, 22, [fewest |-> 1, most |-> 2, hold |-> 8], Off, Off, FALSE),
                       Deletion(8, 24, 2, 0), Existing(8, 18, 1, 1, 4, {1}, {})>>, <<>>)}
=============================================================================
