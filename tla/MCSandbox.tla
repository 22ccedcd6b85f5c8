----------------------------- MODULE MCSandbox -----------------------------
(* Small scenarios and edits for Sandbox: two clock units to a tick, one   *)
(* prestart tick, and timelines of a few events after the race has started.*)
EXTENDS Sandbox

CONSTANTS EditActions,   \* the actions a caller edits
          EditTimes,     \* the times at which an edit may have an event
          MaxEdits       \* the events an edit adds to the loaded timeline

On(a) == [action |-> a, value |-> 1]
EventOf(a) == IF a \in Axes THEN [action |-> a, value |-> 30000] ELSE On(a)

Silence == [t \in Times |-> <<>>]
Started == [Silence EXCEPT ![2] = <<On("RaceRunning")>>]

\* What a canonical timeline starts from, and what one replay has recorded.
MCScenarios == {"map"}
MCCanonical == [s \in MCScenarios |-> Started]
MCShortDurations == [s \in MCScenarios |-> 3]

With(lists) == lists \cup {[in EXCEPT ![t] = Append(@, EventOf(a))] :
                              in \in lists, t \in EditTimes, a \in EditActions}

MCEdits == IF MaxEdits = 1 THEN With({Started}) ELSE With(With({Started}))
MCWindows == {<<4, 6>>}

ASSUME IndependentEdits == EditsIndependent
=============================================================================
