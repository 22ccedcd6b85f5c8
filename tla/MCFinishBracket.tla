--------------------------- MODULE MCFinishBracket --------------------------
(* Every substep of up to nine nanoseconds, with every set of finishing    *)
(* reruns of it.                                                           *)
EXTENDS FinishBracket
=============================================================================
