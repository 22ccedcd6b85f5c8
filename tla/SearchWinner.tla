---------------------------- MODULE SearchWinner ----------------------------
(***************************************************************************)
(* The orders by which a GPU search compares two samples.  A sample is the *)
(* best evaluation of one candidate; an invalid one stands for a candidate *)
(* that was never scored.  A scalar evaluator compares scores, then the    *)
(* number of input events, then the logical order.  A scripted evaluator   *)
(* has several objectives and compares by Pareto dominance.                *)
(***************************************************************************)
EXTENDS Integers, Sequences

NoSlot == -1        \* InvalidCandidateSlot
Unordered == 1000   \* UINT64_MAX, above every logical order of an instance

DeviceSample(candidates, scores, ticks, events) ==
    [valid : BOOLEAN,
     of : candidates,           \* candidateId and mutation
     score : scores,
     objectives : Seq(scores),  \* objectiveScores, empty unless scripted
     time : scores,             \* timeMs, in ns
     slot : Nat \cup {NoSlot},  \* candidateSlot
     order : Nat,               \* logicalOrder
     tick : ticks,              \* evaluationTick
     events : events,           \* eventCount
     precise : BOOLEAN]         \* preciseFinish

\* Every objective of a is at least as good as b's and one is better.
StrictlyDominates(a, b) ==
    /\ a.valid
    /\ \/ ~b.valid
       \/ /\ Len(a.objectives) # 0
          /\ Len(a.objectives) = Len(b.objectives)
          /\ \A i \in DOMAIN a.objectives : a.objectives[i] >= b.objectives[i]
          /\ \E i \in DOMAIN a.objectives : a.objectives[i] > b.objectives[i]

Higher(maximize, x, y) == IF maximize THEN x > y ELSE x < y

\* A tie on the score and on the events does not replace the incumbent.
StrictlyBetter(a, b, maximize) ==
    /\ a.valid
    /\ \/ ~b.valid
       \/ Higher(maximize, a.score, b.score)
       \/ a.score = b.score /\ a.events < b.events

PreferredToLater(a, b, maximize) ==
    \/ StrictlyBetter(a, b, maximize)
    \/ /\ a.valid /\ b.valid
       /\ a.score = b.score /\ a.events = b.events /\ a.order <= b.order
    \/ ~a.valid /\ ~b.valid

BetterSample(a, b, maximize) == IF PreferredToLater(a, b, maximize) THEN a ELSE b
=============================================================================
