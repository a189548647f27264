--------------------------- MODULE MCPassManager ---------------------------
(* PassManager with three passes, which are interchangeable. *)
EXTENDS PassManager, TLC

CONSTANTS a, b, c

MCPasses == {a, b, c}
PassSymmetry == Permutations(MCPasses)
=============================================================================
