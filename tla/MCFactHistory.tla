--------------------------- MODULE MCFactHistory ---------------------------
(* FactHistory for TLC: entities are interchangeable, and payloads differ by a *)
(* changed, an added or a removed fact.                                        *)
EXTENDS FactHistory, TLC

CONSTANTS s1, s2, v1, v2

Few ==
  { s1 :> v1 @@ s2 :> Absent, s1 :> v2 @@ s2 :> Absent, s1 :> v2 @@ s2 :> v1 }

Symmetry == Permutations(Entities)
=============================================================================
