----------------------------- MODULE MCCluster -----------------------------
(* Cluster for TLC: workers, pids and places are interchangeable. *)
EXTENDS Cluster, TLC

Symmetry ==
  Permutations(Workers) \cup Permutations(Holders) \cup Permutations(Locations)

\* One deployment in which all processes compete for a shard under names of their own.
Rivals ==
  {CHOOSE d \in AnyDeployment :
     /\ \A v, w \in Workers : v # w => d[v].holder # d[w].holder
     /\ \A v, w \in Workers : d[v].shard = d[w].shard}
=============================================================================
