------------------------------- MODULE MCRace -------------------------------
(* Two checkpoints with blocks of the three kinds: an ordinary block with a *)
(* spawn of its own, and a block that respawns at the current transform.    *)
EXTENDS Race

CONSTANTS start, origin, gateA

MCLocations == {start, origin, gateA}
MCBlockSpawn == [s \in Checkpoints |-> IF s = 0 THEN gateA ELSE NoLocation]
MCCurrentTransform == Checkpoints \ {0}
=============================================================================
