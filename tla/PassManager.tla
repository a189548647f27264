---------------------------- MODULE PassManager ----------------------------
(***************************************************************************)
(* The pass manager (compiler-core/src/pass.rs and cache.rs): Kahn's       *)
(* algorithm over the declared dependencies, runs of the passes one by one *)
(* with a cache of what has run, and runs of whole levels side by side.    *)
(*                                                                         *)
(* A plan is a sequence of sets of passes: execution_order makes one of    *)
(* singletons, execution_levels one of levels.  Pass managers are made     *)
(* for every command; the manifests of the cache outlive them.             *)
(***************************************************************************)
EXTENDS Naturals, Sequences, FiniteSets

CONSTANTS
  Passes,     \* names under which a pass may be registered
  Ghost,      \* a name that is never registered
  Identities, \* version, config hash and inputs of a pass, taken together
  NoIdentity, \* no readable manifest
  MaxRuns,    \* bound: runs
  MaxChanges, \* bound: edits of a pass, of the configuration or of an input
  MaxKills    \* bound: processes that end in the middle of a run

ASSUME PassAssumption ==
  /\ Ghost \notin Passes /\ NoIdentity \notin Identities /\ Identities # {}
  /\ MaxRuns \in Nat /\ MaxChanges \in Nat /\ MaxKills \in Nat

VARIABLES
  deps,       \* deps[p]: dependencies() of p
  declared,   \* the names the command registers
  taken,      \* run_all_parallel has taken the passes out of the manager
  unique,     \* no name is registered twice
  identity,   \* identity[p]: what p is and reads, now
  manifest,   \* pass-manifests/: identity[p] as of the last recorded run of p
  succeeded,  \* history: <<p, i>> if p has succeeded as i
  phase,      \* of the run: "idle", "sort", "run", "end", "refused"
  parallel,   \* the run is run_all_parallel
  fail_fast,  \* FailureMode of the run
  waits,      \* waits[p]: dependencies of p not yet placed; in_degree is their number
  plan,       \* the passes placed so far, in order
  level,      \* index into plan of what is running
  running,    \* passes inside run
  unrecorded, \* the pass that has succeeded and whose manifest is to be written, or none
  outcome,    \* outcome[p]: "none", "ok", "failed" or "skipped"
  runs, changes, kills

graph == <<deps, declared, unique>>
cache == <<identity, manifest, succeeded>>
sorting == <<waits, plan>>
running_vars == <<level, running, unrecorded, outcome>>
bounds == <<runs, changes, kills>>
vars == <<graph, taken, cache, phase, parallel, fail_fast, sorting, running_vars, bounds>>

\* The names in PassManager.passes.
registered == IF taken THEN {} ELSE declared
NoOutcome == [p \in Passes |-> "none"]
Placed == UNION {plan[i] : i \in DOMAIN plan}
Unplaced == registered \ Placed

-----------------------------------------------------------------------------
(* execution_order and execution_levels *)

\* check_unique_names, and the check of every declared dependency.
Invalid == ~unique \/ \E p \in registered : ~(deps[p] \subseteq registered)

\* run_all or run_all_parallel is called.
Call(par, ff) ==
  /\ phase \in {"idle", "end", "refused"} /\ runs < MaxRuns /\ runs' = runs + 1
  /\ parallel' = par /\ fail_fast' = ff
  /\ phase' = IF Invalid THEN "refused" ELSE "sort"
  /\ waits' = [p \in Passes |-> deps[p]]
  /\ plan' = <<>> /\ outcome' = NoOutcome
  /\ level' = 1 /\ running' = {} /\ unrecorded' = {}
  /\ UNCHANGED <<graph, taken, cache, changes, kills>>

\* Mutation of Ready: a pass with one dependency left is ready.
MReady == {p \in Unplaced : Cardinality(waits[p]) <= 1}
\* The passes whose in-degree has come down to 0: the queue, or the next level.
Ready == {p \in Unplaced : waits[p] = {}}

\* Mutation of Place: a dependency placed is not taken off.
MPlace(ps) ==
  /\ plan' = Append(plan, ps)
  /\ waits' = [p \in Passes |-> IF Cardinality(ps) > 1 THEN waits[p] ELSE waits[p] \ ps]
Place(ps) ==
  /\ plan' = Append(plan, ps)
  /\ waits' = [p \in Passes |-> waits[p] \ ps]

\* execution_order pops a pass; which of those that are ready depends on a hash map.
Pop(p) ==
  /\ phase = "sort" /\ ~parallel /\ p \in Ready
  /\ Place({p})
  /\ UNCHANGED <<graph, taken, cache, phase, parallel, fail_fast, running_vars, bounds>>

\* execution_levels takes all that are ready.
Layer ==
  /\ phase = "sort" /\ parallel /\ Ready # {}
  /\ Place(Ready)
  /\ UNCHANGED <<graph, taken, cache, phase, parallel, fail_fast, running_vars, bounds>>

\* No pass is ready: if some are left there is a cycle. A parallel run takes the passes out of
\* the manager and does not put them back.
Sorted ==
  /\ phase = "sort" /\ Ready = {}
  /\ phase' = IF Unplaced # {} THEN "refused" ELSE "run"
  /\ taken' = (taken \/ (Unplaced = {} /\ parallel))
  /\ UNCHANGED <<graph, cache, parallel, fail_fast, sorting, running_vars, bounds>>

-----------------------------------------------------------------------------
(* run_all *)

Current == CHOOSE p \in plan[level] : TRUE

\* should_recompute, against the manifest.
ShouldRecompute(p) == manifest[p] # identity[p]

InPlan == phase = "run" /\ level \in DOMAIN plan /\ running = {} /\ unrecorded = {}

Skip ==
  /\ InPlan /\ ~parallel /\ ~ShouldRecompute(Current)
  /\ outcome' = [outcome EXCEPT ![Current] = "skipped"]
  /\ level' = level + 1
  /\ UNCHANGED <<graph, taken, cache, phase, parallel, fail_fast, sorting, running, unrecorded,
                 bounds>>

Start ==
  /\ InPlan /\ ~parallel /\ ShouldRecompute(Current)
  /\ running' = {Current}
  /\ UNCHANGED <<graph, taken, cache, phase, parallel, fail_fast, sorting, level, unrecorded,
                 outcome, bounds>>

Succeed(p) ==
  /\ ~parallel /\ p \in running
  /\ running' = {} /\ unrecorded' = {p}
  /\ succeeded' = succeeded \cup {<<p, identity[p]>>}
  /\ UNCHANGED <<graph, taken, identity, manifest, phase, parallel, fail_fast, sorting, level,
                 outcome, bounds>>

\* record_manifest, which may fail without notice: it leaves the old file, or one that cannot
\* be read.
Record(p) ==
  /\ p \in unrecorded
  /\ \E i \in {identity[p], manifest[p], NoIdentity} : manifest' = [manifest EXCEPT ![p] = i]
  /\ unrecorded' = {} /\ outcome' = [outcome EXCEPT ![p] = "ok"] /\ level' = level + 1
  /\ UNCHANGED <<graph, taken, identity, succeeded, phase, parallel, fail_fast, sorting,
                 running, bounds>>

\* Mutation of FailPass: the manifest is written for a pass that has failed as well.
MFailPass(p) ==
  /\ ~parallel /\ p \in running
  /\ running' = {} /\ outcome' = [outcome EXCEPT ![p] = "failed"] /\ level' = level + 1
  /\ manifest' = [manifest EXCEPT ![p] = identity[p]]
  /\ phase' = IF fail_fast THEN "end" ELSE phase
  /\ UNCHANGED <<graph, taken, identity, succeeded, parallel, fail_fast, sorting, unrecorded,
                 bounds>>

FailPass(p) ==
  /\ ~parallel /\ p \in running
  /\ running' = {} /\ outcome' = [outcome EXCEPT ![p] = "failed"] /\ level' = level + 1
  /\ phase' = IF fail_fast THEN "end" ELSE phase
  /\ UNCHANGED <<graph, taken, cache, parallel, fail_fast, sorting, unrecorded, bounds>>

-----------------------------------------------------------------------------
(* run_all_parallel *)

Failed == \E p \in Passes : outcome[p] = "failed"

\* A level is spawned; with FailFast, not after a failure. The cache has no part in it.
Spawn ==
  /\ InPlan /\ parallel /\ ~(Failed /\ fail_fast)
  /\ running' = plan[level]
  /\ UNCHANGED <<graph, taken, cache, phase, parallel, fail_fast, sorting, level, unrecorded,
                 outcome, bounds>>

\* Mutation of TaskEnds: a task that panics is joined as one more kind of outcome.
MTaskEnds(p, ok) ==
  /\ parallel /\ p \in running
  /\ running' = running \ {p}
  /\ outcome' = [outcome EXCEPT ![p] = IF ok THEN "ok" ELSE "panicked"]
  /\ level' = IF running = {p} THEN level + 1 ELSE level
  /\ UNCHANGED <<graph, taken, cache, phase, parallel, fail_fast, sorting, unrecorded, bounds>>

\* A task of the level ends; the last of them ends the level.
TaskEnds(p, ok) ==
  /\ parallel /\ p \in running
  /\ running' = running \ {p}
  /\ outcome' = [outcome EXCEPT ![p] = IF ok THEN "ok" ELSE "failed"]
  /\ succeeded' = IF ok THEN succeeded \cup {<<p, identity[p]>>} ELSE succeeded
  /\ level' = IF running = {p} THEN level + 1 ELSE level
  /\ UNCHANGED <<graph, taken, identity, manifest, phase, parallel, fail_fast, sorting,
                 unrecorded, bounds>>

\* The loop is over, or left after a failure.
Finish ==
  /\ phase = "run" /\ running = {} /\ unrecorded = {}
  /\ level \notin DOMAIN plan \/ (parallel /\ Failed /\ fail_fast)
  /\ phase' = "end"
  /\ UNCHANGED <<graph, taken, cache, parallel, fail_fast, sorting, running_vars, bounds>>

-----------------------------------------------------------------------------
(* Between and beside the runs *)

\* The next command makes its pass manager; a pass, the configuration or an input may have
\* been changed since the last one.
Command(p, i) ==
  /\ phase \in {"end", "refused"}
  /\ identity' = [identity EXCEPT ![p] = i]
  /\ changes' = IF i = identity[p] THEN changes ELSE changes + 1
  /\ changes' <= MaxChanges
  /\ taken' = FALSE /\ phase' = "idle" /\ outcome' = NoOutcome
  /\ UNCHANGED <<graph, manifest, succeeded, parallel, fail_fast, sorting, level, running,
                 unrecorded, runs, kills>>

\* The process ends in the middle of a run; the command is given again.
Kill ==
  /\ phase \in {"sort", "run"} /\ kills < MaxKills /\ kills' = kills + 1
  /\ phase' = "idle" /\ running' = {} /\ unrecorded' = {} /\ outcome' = NoOutcome
  /\ taken' = FALSE
  /\ UNCHANGED <<graph, cache, parallel, fail_fast, sorting, level, runs, changes>>

-----------------------------------------------------------------------------
\* A command has registered some passes, with whatever dependencies they declare.
Init ==
  /\ declared \in SUBSET Passes /\ taken = FALSE /\ unique \in BOOLEAN
  /\ deps \in [Passes -> SUBSET (Passes \cup {Ghost})]
  /\ \A p \in Passes \ declared : deps[p] = {}
  /\ identity = [p \in Passes |-> CHOOSE i \in Identities : TRUE]
  /\ manifest = [p \in Passes |-> NoIdentity] /\ succeeded = {}
  /\ phase = "idle" /\ parallel = FALSE /\ fail_fast = FALSE
  /\ waits = [p \in Passes |-> {}] /\ plan = <<>> /\ level = 1 /\ running = {} /\ unrecorded = {}
  /\ outcome = NoOutcome /\ runs = 0 /\ changes = 0 /\ kills = 0

Progress ==
  \/ Layer \/ Sorted \/ Skip \/ Start \/ Spawn \/ Finish
  \/ \E p \in Passes : Pop(p) \/ Succeed(p) \/ Record(p) \/ FailPass(p)
  \/ \E p \in Passes : \E ok \in BOOLEAN : TaskEnds(p, ok)

Next ==
  \/ \E par, ff \in BOOLEAN : Call(par, ff)
  \/ Progress
  \/ \E p \in Passes : \E i \in Identities : Command(p, i)
  \/ Kill

Spec == Init /\ [][Next]_vars

-----------------------------------------------------------------------------
(* Properties *)

\* What the variables hold.
TypeOK ==
  /\ deps \in [Passes -> SUBSET (Passes \cup {Ghost})] /\ declared \subseteq Passes
  /\ taken \in BOOLEAN
  /\ unique \in BOOLEAN /\ parallel \in BOOLEAN /\ fail_fast \in BOOLEAN
  /\ identity \in [Passes -> Identities]
  /\ manifest \in [Passes -> Identities \cup {NoIdentity}]
  /\ succeeded \subseteq Passes \X Identities
  /\ phase \in {"idle", "sort", "run", "end", "refused"}
  /\ waits \in [Passes -> SUBSET (Passes \cup {Ghost})] /\ plan \in Seq(SUBSET Passes)
  /\ level \in Nat /\ running \subseteq Passes /\ unrecorded \subseteq Passes
  /\ outcome \in [Passes -> {"none", "ok", "failed", "skipped"}]
  /\ runs \in Nat /\ changes \in Nat /\ kills \in Nat

\* "Names of passes that must complete before this one runs": no pass is started, skipped or
\* reported before every one of its dependencies has an outcome, in both kinds of runs.
DependenciesFirst ==
  \A p \in Passes : p \in running \cup unrecorded \/ outcome[p] # "none" =>
    \A d \in deps[p] : outcome[d] # "none"

\* Some passes wait for each other.
Cyclic(ps) == \E s \in SUBSET ps : s # {} /\ \A p \in s : deps[p] \cap s # {}

\* The graph is refused exactly if it is not valid: a run of passes with a cycle, an unknown
\* dependency or a name used twice never begins, and every other one does, with each of the
\* passes in its plan once (none of them if an earlier parallel run has taken them).
RefusedExactly ==
  /\ phase = "refused" => Invalid \/ Cyclic(declared)
  /\ phase = "run" =>
       /\ ~Cyclic(Placed) /\ unique
       /\ \A p \in Placed : deps[p] \subseteq Placed
       /\ Placed = declared \/ (taken /\ Placed = {})
       /\ \A i, j \in DOMAIN plan : i # j => plan[i] \cap plan[j] = {}

\* A pass is skipped only if it has once succeeded as it is now, whatever failed, was killed or
\* ran in parallel in between.
SkippedHasRun ==
  \A p \in Passes : outcome[p] = "skipped" => <<p, identity[p]>> \in succeeded
=============================================================================
