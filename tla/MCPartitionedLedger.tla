------------------------ MODULE MCPartitionedLedger ------------------------
(* PartitionedLedger for TLC: an object whose versions may go to two partitions, and an event. *)
EXTENDS PartitionedLedger, TLC

CONSTANTS obj, evt

MCEntries == (obj :> <<obj>>) @@ (evt :> <<evt>>)
MCKeysOf == (obj :> {1, 2}) @@ (evt :> {3})
Symmetry == Permutations(Threads)
=============================================================================
