-------------------------- MODULE MCFinishEstimate --------------------------
(* Ticks of a few nanoseconds: run whole and half a nanosecond longer than *)
(* the period, as ten binary32 ms are; cut between two nanoseconds; and    *)
(* cut in three that end a nanosecond early.                               *)
EXTENDS FinishEstimate

MCSplits == {<<7>>, <<3, 6>>, <<2, 3, 4>>}
=============================================================================
