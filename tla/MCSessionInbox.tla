--------------------------- MODULE MCSessionInbox ---------------------------
(* SessionInbox for TLC: two writers and three notes, one of them a dead end and longer.        *)
(* All three would fit into MaxBytes; MaxEntries takes two.                                     *)
EXTENDS SessionInbox, TLC

CONSTANTS n2, n3

LineBytes == [n \in Notes |-> IF n \in DeadEnds THEN 4 ELSE 3]

Symmetry == Permutations(Writers) \cup Permutations({n2, n3})
=============================================================================
