------------------------ MODULE MCValidationContext ------------------------
(* Two replays that share the pack of their maps: one with two automatic   *)
(* blocks that draw and one that does not between them, one with a single  *)
(* one and its decoration and vehicle in a pack of their own.              *)
EXTENDS ValidationContext

Stadium == "Stadium"
Island == "Island"
Entry(kind, pack) == [kind |-> kind, pack |-> pack]

MCReplays == {"A", "B"}
MCRoutes == [r \in MCReplays |->
    IF r = "A" THEN <<Entry("repository", Stadium), Entry("vehicle", Stadium)>>
    ELSE <<Entry("repository", Stadium), Entry("repository", Island),
           Entry("vehicle", Island)>>]
MCBlocks == [r \in MCReplays |-> IF r = "A" THEN <<2, 1, 3>> ELSE <<2>>]
MCRandoms == [position \in 0..30 |-> (5 * position + 1) % 8]
=============================================================================
