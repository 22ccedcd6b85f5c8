--------------------------- MODULE MCSearchSession ---------------------------
(* Small runs of every kind of evaluator for SearchSession.                *)
EXTENDS SearchSession

Plain(values, events) ==
    [values |-> values, fails |-> 0, refines |-> TRUE, generated |-> "Mutated",
     events |-> events]

N == None

\* Scores that peak early and late, tie, fail, and are never found.
Scores ==
    {Plain(<<<<1>>, <<2>>, <<1>>>>, 2), Plain(<<<<2>>, <<1>>, <<2>>>>, 1),
     Plain(<<N, <<2>>, <<3>>>>, 2),
     [Plain(<<<<1>>, <<3>>, N>>, 1) EXCEPT !.fails = 3],
     [Plain(<<<<1>>, <<2>>, <<1>>>>, 1) EXCEPT !.generated = "Overflow"]}

\* Entries early, late, tied and none; inputs that are not changed.
Reports ==
    {Plain(<<<<2>>, N, N>>, 1), Plain(<<N, <<2>>, <<1>>>>, 2),
     [Plain(<<<<2>>, N, N>>, 1) EXCEPT !.generated = "Unchanged"], Plain(<<N, N, N>>, 1)}

\* Finishes in each of the ticks, tied to the ns with one another and with one
\* just past the end of the tick before, not bracketed, and none.
Finishes ==
    {Plain(<<N, <<2>>, N>>, 2), Plain(<<N, <<2>>, N>>, 1),
     Plain(<<N, <<5>>, N>>, 1), Plain(<<N, N, <<1>>>>, 1), Plain(<<N, N, N>>, 1),
     [Plain(<<<<3>>, N, N>>, 1) EXCEPT !.refines = FALSE]}

\* Objectives that dominate, tie and are not comparable.
Objectives ==
    {Plain(<<<<1, 2>>, <<2, 1>>, N>>, 1), Plain(<<<<2, 1>>, N, <<1, 1>>>>, 1),
     Plain(<<N, <<3, 1>>, N>>, 1), Plain(<<N, N, <<3, 2>>>>, 1)}

MCRuns == [k \in EvaluatorKinds |->
    CASE k \in {"min", "max"} -> Scores
      [] k = "report" -> Reports
      [] k = "finish" -> Finishes
      [] k = "scripted" -> Objectives]

MCKinds == EvaluatorKinds
=============================================================================
