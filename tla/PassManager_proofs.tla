------------------------ MODULE PassManager_proofs -------------------------
(***************************************************************************)
(* The plans of the pass manager, the order of its runs and what it skips, *)
(* for every dependency graph and any number of passes, runs, failures and *)
(* kills.                                                                  *)
(*                                                                         *)
(* The argument: whatever is placed has its dependencies placed before it, *)
(* so that nothing placed is part of a cycle (PlanInv); what waits, waits  *)
(* for what is not placed, so that passes left over wait for each other    *)
(* (GraphInv); a run goes through the plan from left to right (RunInv).    *)
(***************************************************************************)
EXTENDS PassManager, WellFoundedInduction, SequenceTheorems, TLAPS

\* Dependencies come earlier in the plan, which has no pass twice and, for run_all, one pass at
\* a time.
PlanInv ==
  /\ \A i \in DOMAIN plan : \A p \in plan[i] : \A d \in deps[p] :
       \E j \in DOMAIN plan : j < i /\ d \in plan[j]
  /\ \A i, j \in DOMAIN plan : i # j => plan[i] \cap plan[j] = {}
  /\ \A i \in DOMAIN plan : plan[i] \subseteq declared
  /\ ~parallel => \A i \in DOMAIN plan : \E p \in Passes : plan[i] = {p}

Closed == unique /\ \A p \in declared : deps[p] \subseteq declared

\* What each phase knows of the graph.
GraphInv ==
  /\ taken \/ phase \in {"sort", "run"} => Closed
  /\ phase = "sort" =>
       /\ \A p \in Passes : waits[p] = deps[p] \ Placed
       /\ taken => plan = <<>>
  /\ phase = "run" => Placed = declared \/ (taken /\ plan = <<>>)
  /\ phase = "refused" => Invalid \/ Cyclic(declared)

\* A run is at level of its plan: all before it has an outcome, nothing behind it has.
RunInv ==
  /\ level >= 1
  /\ phase = "sort" => level = 1
  /\ phase \notin {"run", "end"} => outcome = NoOutcome
  /\ phase # "run" => running = {} /\ unrecorded = {}
  /\ running = {} \/ unrecorded = {}
  /\ \A p \in running \cup unrecorded : level \in DOMAIN plan /\ p \in plan[level]
  /\ phase \in {"run", "end"} =>
       \A i \in DOMAIN plan : i < level => \A p \in plan[i] : outcome[p] # "none"
  /\ \A p \in Passes : outcome[p] # "none" => \E i \in DOMAIN plan : i <= level /\ p \in plan[i]
  /\ parallel => unrecorded = {} /\
       (running # {} => \A p \in plan[level] \ running : outcome[p] # "none")

\* A manifest is that of a run that succeeded.
CacheInv ==
  /\ \A p \in Passes : manifest[p] # NoIdentity => <<p, manifest[p]>> \in succeeded
  /\ \A p \in unrecorded : <<p, identity[p]>> \in succeeded
  /\ SkippedHasRun

\* The inductive invariant.
IInv == TypeOK /\ PlanInv /\ GraphInv /\ RunInv /\ CacheInv

-----------------------------------------------------------------------------
(* Numbers and plans *)

\* A non-empty set of numbers has a least one.
LEMMA LeastNat ==
  ASSUME NEW T, T \subseteq Nat, T # {}
  PROVE  \E x \in T : \A y \in T : ~(y < x)
<1>1. PICK x \in T : \A y \in T : ~(<<y, x>> \in OpToRel(<, Nat))
  BY NatLessThanWellFounded, WFMin, Zenon
<1>2. ASSUME NEW y \in T, y < x PROVE FALSE
  <2>1. <<y, x>> \in Nat \X Nat /\ <<y, x>>[1] = y /\ <<y, x>>[2] = x
    OBVIOUS
  <2>2. <<y, x>> \in {ss \in Nat \X Nat : ss[1] < ss[2]}
    BY <1>2, <2>1
  <2>3. <<y, x>> \in OpToRel(<, Nat)
    BY <2>2, Zenon DEF OpToRel
  <2> QED BY <1>1, <2>3, Zenon
<1> QED BY <1>2

\* Membership in what is placed.
LEMMA PlacedMembers ==
  ASSUME NEW p
  PROVE  p \in Placed <=> \E i \in DOMAIN plan : p \in plan[i]
BY DEF Placed

\* What one more entry of the plan places.
LEMMA AppendPlan ==
  ASSUME NEW ps \in SUBSET Passes, plan \in Seq(SUBSET Passes), plan' = Append(plan, ps)
  PROVE  /\ DOMAIN plan' = DOMAIN plan \cup {Len(plan) + 1}
         /\ plan'[Len(plan) + 1] = ps
         /\ \A i \in DOMAIN plan : plan'[i] = plan[i] /\ i \in Nat /\ i >= 1 /\ i < Len(plan) + 1
         /\ Len(plan) + 1 \in Nat
         /\ Placed' = Placed \cup ps
<1>1. /\ Len(plan) \in Nat /\ DOMAIN plan = 1 .. Len(plan)
      /\ DOMAIN plan' = 1 .. Len(plan) + 1
      /\ plan'[Len(plan) + 1] = ps
      /\ \A i \in DOMAIN plan : plan'[i] = plan[i]
  OBVIOUS
<1>2. DOMAIN plan' = DOMAIN plan \cup {Len(plan) + 1}
  BY <1>1
<1>3. Placed' = UNION {plan'[i] : i \in DOMAIN plan'}
  BY DEF Placed
<1>4. ASSUME NEW p PROVE p \in Placed' <=> p \in Placed \cup ps
  <2>1. p \in Placed' <=> \E i \in DOMAIN plan' : p \in plan'[i]
    BY <1>3
  <2>2. p \in Placed <=> \E i \in DOMAIN plan : p \in plan[i]
    BY PlacedMembers
  <2> QED BY <1>1, <1>2, <2>1, <2>2
<1> QED BY <1>1, <1>2, <1>4

\* Whatever has its dependencies placed before it is not part of a cycle.
LEMMA PlacedAcyclic ==
  ASSUME plan \in Seq(SUBSET Passes), PlanInv
  PROVE  ~Cyclic(Placed)
<1>1. SUFFICES ASSUME NEW s \in SUBSET Placed, s # {}, \A p \in s : deps[p] \cap s # {}
               PROVE  FALSE
  BY DEF Cyclic
<1> DEFINE T == {i \in DOMAIN plan : plan[i] \cap s # {}}
<1>2. T \subseteq Nat
  OBVIOUS
<1>3. T # {}
  <2>1. PICK p \in s : TRUE
    BY <1>1
  <2>2. PICK i \in DOMAIN plan : p \in plan[i]
    BY <2>1, <1>1, PlacedMembers
  <2> QED BY <2>1, <2>2
<1> HIDE DEF T
<1>4. PICK i \in T : \A j \in T : ~(j < i)
  BY <1>2, <1>3, LeastNat
<1>5. PICK p \in plan[i] : i \in DOMAIN plan /\ p \in s
  BY <1>4 DEF T
<1>6. PICK d \in deps[p] : d \in s
  BY <1>1, <1>5
<1>7. PICK j \in DOMAIN plan : j < i /\ d \in plan[j]
  BY <1>5, <1>6 DEF PlanInv
<1>8. j \in T
  BY <1>6, <1>7 DEF T
<1> QED BY <1>4, <1>7, <1>8

\* A sequential run has one pass before it.
LEMMA CurrentPass ==
  ASSUME TypeOK, PlanInv, InPlan, ~parallel
  PROVE  Current \in Passes /\ plan[level] = {Current}
<1>1. PICK p \in Passes : plan[level] = {p}
  BY DEF InPlan, PlanInv
<1> QED BY <1>1 DEF Current

-----------------------------------------------------------------------------
(* Types *)

\* A step keeps the types.
LEMMA TypeStep ==
  ASSUME TypeOK, PlanInv, [Next]_vars
  PROVE  TypeOK'
<1> USE PassAssumption DEF TypeOK
<1>1. CASE UNCHANGED vars
  BY <1>1 DEF vars, graph, cache, sorting, running_vars, bounds
<1>2. ASSUME NEW par \in BOOLEAN, NEW ff \in BOOLEAN, Call(par, ff) PROVE TypeOK'
  BY <1>2 DEF Call, graph, cache, NoOutcome
<1>3. CASE Layer
  <2>1. Ready \subseteq Passes
    BY DEF Ready, Unplaced, registered
  <2> QED BY <1>3, <2>1 DEF Layer, Place, graph, cache, running_vars, bounds
<1>4. CASE Sorted
  BY <1>4 DEF Sorted, graph, cache, sorting, running_vars, bounds
<1>5. CASE Skip
  BY <1>5, CurrentPass DEF Skip, graph, cache, sorting, bounds
<1>6. CASE Start
  BY <1>6, CurrentPass DEF Start, graph, cache, sorting, bounds
<1>7. CASE Spawn
  BY <1>7 DEF Spawn, InPlan, graph, cache, sorting, bounds
<1>8. CASE Finish
  BY <1>8 DEF Finish, graph, cache, sorting, running_vars, bounds
<1>9. ASSUME NEW p \in Passes, Pop(p) PROVE TypeOK'
  BY <1>9 DEF Pop, Place, graph, cache, running_vars, bounds
<1>10. ASSUME NEW p \in Passes, Succeed(p) PROVE TypeOK'
  BY <1>10 DEF Succeed, graph, sorting, bounds
<1>11. ASSUME NEW p \in Passes, Record(p) PROVE TypeOK'
  BY <1>11 DEF Record, graph, sorting, bounds
<1>12. ASSUME NEW p \in Passes, FailPass(p) PROVE TypeOK'
  BY <1>12 DEF FailPass, graph, cache, sorting, bounds
<1>13. ASSUME NEW p \in Passes, NEW ok \in BOOLEAN, TaskEnds(p, ok) PROVE TypeOK'
  BY <1>13 DEF TaskEnds, graph, sorting, bounds
<1>14. ASSUME NEW p \in Passes, NEW i \in Identities, Command(p, i) PROVE TypeOK'
  <2>1. taken' \in BOOLEAN /\ outcome' \in [Passes -> {"none", "ok", "failed", "skipped"}]
    BY <1>14 DEF Command, NoOutcome
  <2>2. changes' \in Nat
    BY <1>14 DEF Command
  <2> QED BY <1>14, <2>1, <2>2 DEF Command, graph, sorting
<1>15. CASE Kill
  <2>1. taken' \in BOOLEAN /\ outcome' \in [Passes -> {"none", "ok", "failed", "skipped"}]
    BY <1>15 DEF Kill, NoOutcome
  <2> QED BY <1>15, <2>1 DEF Kill, graph, cache, sorting
<1> QED BY <1>1, <1>2, <1>3, <1>4, <1>5, <1>6, <1>7, <1>8, <1>9, <1>10, <1>11, <1>12, <1>13,
           <1>14, <1>15 DEF Next, Progress

-----------------------------------------------------------------------------
(* The plan *)

\* Placing passes that wait for nothing keeps the order of the plan.
LEMMA PlaceStep ==
  ASSUME TypeOK, PlanInv, GraphInv, phase = "sort", NEW ps \in SUBSET Ready, ps # {},
         Place(ps), UNCHANGED <<graph, taken, phase, parallel>>,
         ~parallel => \E p \in Passes : ps = {p}
  PROVE  PlanInv' /\ GraphInv'
<1>1. /\ deps' = deps /\ declared' = declared /\ unique' = unique /\ taken' = taken
      /\ phase' = phase /\ parallel' = parallel
      /\ plan' = Append(plan, ps) /\ waits' = [p \in Passes |-> waits[p] \ ps]
  BY DEF Place, graph
<1>2. /\ ps \subseteq Passes /\ ps \subseteq declared /\ ps \cap Placed = {}
      /\ ~taken
      /\ \A p \in ps : waits[p] = {}
  BY DEF Ready, Unplaced, registered, TypeOK
<1>3. /\ DOMAIN plan' = DOMAIN plan \cup {Len(plan) + 1}
      /\ plan'[Len(plan) + 1] = ps
      /\ \A i \in DOMAIN plan : plan'[i] = plan[i] /\ i \in Nat /\ i >= 1 /\ i < Len(plan) + 1
      /\ Len(plan) + 1 \in Nat
      /\ Placed' = Placed \cup ps
  BY <1>1, <1>2, AppendPlan DEF TypeOK
<1>4. \A p \in ps : deps[p] \subseteq Placed
  BY <1>2 DEF GraphInv
<1>5. ASSUME NEW i \in DOMAIN plan', NEW p \in plan'[i], NEW d \in deps'[p]
      PROVE  \E j \in DOMAIN plan' : j < i /\ d \in plan'[j]
  <2>1. CASE i \in DOMAIN plan
    <3>1. PICK j \in DOMAIN plan : j < i /\ d \in plan[j]
      BY <1>1, <1>3, <1>5, <2>1 DEF PlanInv
    <3> QED BY <1>3, <3>1
  <2>2. CASE i = Len(plan) + 1
    <3>1. d \in Placed
      BY <1>1, <1>3, <1>4, <1>5, <2>2
    <3>2. PICK j \in DOMAIN plan : d \in plan[j]
      BY <3>1, PlacedMembers
    <3> QED BY <1>3, <2>2, <3>2
  <2> QED BY <1>3, <2>1, <2>2
<1>6. \A j \in DOMAIN plan : plan[j] \cap ps = {}
  BY <1>2, PlacedMembers
<1>7. ASSUME NEW i \in DOMAIN plan', NEW j \in DOMAIN plan', i # j
      PROVE  plan'[i] \cap plan'[j] = {}
  <2>1. CASE i \in DOMAIN plan /\ j \in DOMAIN plan
    BY <1>3, <1>7, <2>1 DEF PlanInv
  <2>2. CASE i \in DOMAIN plan /\ j = Len(plan) + 1
    BY <1>3, <1>6, <2>2
  <2>3. CASE i = Len(plan) + 1 /\ j \in DOMAIN plan
    BY <1>3, <1>6, <2>3
  <2> QED BY <1>3, <1>7, <2>1, <2>2, <2>3
<1>8. \A i \in DOMAIN plan' : plan'[i] \subseteq declared'
  BY <1>1, <1>2, <1>3 DEF PlanInv
<1>9. ~parallel' => \A i \in DOMAIN plan' : \E p \in Passes : plan'[i] = {p}
  BY <1>1, <1>3 DEF PlanInv
<1>10. PlanInv'
  BY <1>5, <1>7, <1>8, <1>9 DEF PlanInv
<1>11. \A p \in Passes : waits'[p] = deps'[p] \ Placed'
  BY <1>1, <1>3 DEF GraphInv
<1>12. GraphInv'
  BY <1>1, <1>2, <1>11 DEF GraphInv, Closed
<1> QED BY <1>10, <1>12

\* A step keeps the order of the plan and what is known of the graph.
LEMMA PlanStep ==
  ASSUME TypeOK, PlanInv, GraphInv, RunInv, [Next]_vars
  PROVE  PlanInv' /\ GraphInv'
<1>1. ASSUME UNCHANGED <<graph, plan, parallel>> PROVE PlanInv'
  BY <1>1 DEF PlanInv, graph
<1>2. ASSUME UNCHANGED <<graph, plan, waits, parallel, taken, phase>> PROVE PlanInv' /\ GraphInv'
  <2>1. /\ deps' = deps /\ declared' = declared /\ unique' = unique /\ taken' = taken
        /\ plan' = plan /\ waits' = waits /\ phase' = phase /\ PlanInv'
    BY <1>1, <1>2 DEF graph
  <2>2. Placed' = Placed /\ Invalid' = Invalid /\ Closed' = Closed
    BY <2>1 DEF Placed, Invalid, registered, Closed
  <2>3. Cyclic(declared)' = Cyclic(declared)
    BY <2>1 DEF Cyclic
  <2> QED BY <2>1, <2>2, <2>3 DEF GraphInv
<1>3. ASSUME UNCHANGED <<graph, plan, parallel, taken>>, phase' \in {"idle", "end"}
      PROVE PlanInv' /\ GraphInv'
  BY <1>1, <1>3 DEF graph, GraphInv, Closed
<1>4. CASE UNCHANGED vars
  BY <1>2, <1>4 DEF vars, sorting
<1>5. ASSUME NEW par \in BOOLEAN, NEW ff \in BOOLEAN, Call(par, ff) PROVE PlanInv' /\ GraphInv'
  <2>1. /\ plan' = <<>> /\ taken' = taken /\ waits' = [p \in Passes |-> deps[p]]
        /\ phase' = IF Invalid THEN "refused" ELSE "sort"
        /\ deps' = deps /\ declared' = declared /\ unique' = unique
    BY <1>5 DEF Call, graph
  <2>2. DOMAIN plan' = {} /\ Placed' = {}
    BY <2>1 DEF Placed
  <2>3. PlanInv'
    BY <2>2 DEF PlanInv
  <2>4. Invalid' = Invalid
    BY <2>1 DEF Invalid, registered
  <2>5. CASE Invalid
    BY <2>1, <2>3, <2>4, <2>5 DEF GraphInv, Closed
  <2>6. CASE ~Invalid
    <3>1. Closed
      BY <2>6 DEF Closed, Invalid, registered, GraphInv
    <3>2. \A p \in Passes : waits'[p] = deps'[p] \ Placed'
      BY <2>1, <2>2 DEF TypeOK
    <3> QED BY <2>1, <2>3, <2>6, <3>1, <3>2 DEF GraphInv, Closed
  <2> QED BY <2>5, <2>6
<1>6. CASE Layer
  BY <1>6, PlaceStep DEF Layer
<1>7. ASSUME NEW p \in Passes, Pop(p) PROVE PlanInv' /\ GraphInv'
  BY <1>7, PlaceStep DEF Pop
<1>8. CASE Sorted
  <2>1. /\ PlanInv' /\ Placed' = Placed /\ phase = "sort" /\ Ready = {}
        /\ phase' = IF Unplaced # {} THEN "refused" ELSE "run"
        /\ taken' = (taken \/ (Unplaced = {} /\ parallel))
        /\ deps' = deps /\ declared' = declared /\ unique' = unique /\ plan' = plan
    BY <1>1, <1>8 DEF Sorted, graph, sorting, Placed
  <2>2. Closed /\ Closed'
    BY <2>1 DEF GraphInv, Closed
  <2>3. CASE Unplaced = {}
    <3>1. Placed \subseteq declared
      BY PlacedMembers DEF PlanInv
    <3>2. registered \subseteq Placed
      BY <2>3 DEF Unplaced
    <3>3. taken => plan = <<>>
      BY <2>1 DEF GraphInv
    <3>4. Placed = declared \/ (taken /\ plan = <<>>)
      BY <3>1, <3>2, <3>3 DEF registered
    <3>5. phase' = "run" /\ (taken => taken')
      BY <2>1, <2>3
    <3> QED BY <2>1, <2>2, <3>4, <3>5 DEF GraphInv
  <2>4. CASE Unplaced # {}
    <3>1. Unplaced \subseteq declared /\ ~taken
      BY <2>4 DEF Unplaced, registered
    <3>2. ASSUME NEW p \in Unplaced PROVE deps[p] \cap Unplaced # {}
      <4>1. p \in declared /\ p \in Passes
        BY <3>1 DEF TypeOK
      <4>2. waits[p] # {} /\ waits[p] = deps[p] \ Placed
        BY <2>1, <4>1 DEF Ready, GraphInv
      <4>3. deps[p] \subseteq declared
        BY <2>2, <4>1 DEF Closed
      <4> QED BY <3>1, <4>2, <4>3 DEF Unplaced, registered
    <3>3. Cyclic(declared)
      BY <2>4, <3>1, <3>2 DEF Cyclic
    <3>4. Cyclic(declared)'
      BY <2>1, <3>3 DEF Cyclic
    <3>5. phase' = "refused"
      BY <2>1, <2>4
    <3> QED BY <2>1, <2>2, <3>4, <3>5 DEF GraphInv
  <2> QED BY <2>3, <2>4
<1>9. CASE Skip
  BY <1>2, <1>9 DEF Skip, sorting
<1>10. CASE Start
  BY <1>2, <1>10 DEF Start, sorting
<1>11. CASE Spawn
  BY <1>2, <1>11 DEF Spawn, sorting
<1>12. CASE Finish
  BY <1>3, <1>12 DEF Finish, sorting
<1>13. ASSUME NEW p \in Passes, Succeed(p) PROVE PlanInv' /\ GraphInv'
  BY <1>2, <1>13 DEF Succeed, sorting
<1>14. ASSUME NEW p \in Passes, Record(p) PROVE PlanInv' /\ GraphInv'
  BY <1>2, <1>14 DEF Record, sorting
<1>15. ASSUME NEW p \in Passes, FailPass(p) PROVE PlanInv' /\ GraphInv'
  BY <1>2, <1>3, <1>15 DEF FailPass, sorting
<1>16. ASSUME NEW p \in Passes, NEW ok \in BOOLEAN, TaskEnds(p, ok) PROVE PlanInv' /\ GraphInv'
  BY <1>2, <1>16 DEF TaskEnds, sorting
<1>17. ASSUME NEW p \in Passes, NEW i \in Identities, Command(p, i) PROVE PlanInv' /\ GraphInv'
  <2>1. PlanInv'
    BY <1>1, <1>17 DEF Command, sorting
  <2> QED BY <1>17, <2>1 DEF Command, GraphInv
<1>18. CASE Kill
  <2>1. PlanInv'
    BY <1>1, <1>18 DEF Kill, sorting
  <2> QED BY <1>18, <2>1 DEF Kill, GraphInv
<1> QED BY <1>4, <1>5, <1>6, <1>7, <1>8, <1>9, <1>10, <1>11, <1>12, <1>13, <1>14, <1>15, <1>16,
           <1>17, <1>18 DEF Next, Progress

-----------------------------------------------------------------------------
(* The run *)

\* Between two runs there is nothing to know but that nothing runs.
LEMMA Between ==
  ASSUME TypeOK, TypeOK', level' >= 1, phase' \notin {"run", "end"}, phase' = "sort" => level' = 1,
         outcome' = NoOutcome, running' = {}, unrecorded' = {}
  PROVE  RunInv'
BY DEF RunInv, NoOutcome

\* A run at its next level: what is before it has outcomes, what has outcomes is before it.
LEMMA Advance ==
  ASSUME TypeOK, RunInv, phase = "run", level \in DOMAIN plan, phase' \in {"run", "end"},
         plan' = plan, level' = level + 1, running' = {}, unrecorded' = {},
         \A p \in plan[level] : outcome'[p] # "none",
         \A p \in Passes \ plan[level] : outcome'[p] = outcome[p]
  PROVE  RunInv'
<1>1. /\ level \in Nat /\ level >= 1
      /\ \A i \in DOMAIN plan : i \in Nat /\ i >= 1 /\ plan[i] \subseteq Passes
  BY DEF TypeOK, RunInv
<1>2. ASSUME NEW i \in DOMAIN plan, i < level + 1, NEW p \in plan[i] PROVE outcome'[p] # "none"
  <2>1. CASE p \in plan[level]
    BY <2>1
  <2>2. CASE p \notin plan[level]
    BY <1>1, <1>2, <2>2 DEF RunInv
  <2> QED BY <2>1, <2>2
<1>3. ASSUME NEW p \in Passes, outcome'[p] # "none"
      PROVE  \E i \in DOMAIN plan : i <= level + 1 /\ p \in plan[i]
  <2>1. CASE p \in plan[level]
    BY <1>1, <2>1
  <2>2. CASE p \notin plan[level]
    <3>1. PICK i \in DOMAIN plan : i <= level /\ p \in plan[i]
      BY <1>3, <2>2 DEF RunInv
    <3> QED BY <1>1, <3>1
  <2> QED BY <2>1, <2>2
<1> QED BY <1>1, <1>2, <1>3 DEF RunInv

\* A step keeps the order of the run.
LEMMA RunStep ==
  ASSUME TypeOK, TypeOK', PlanInv, RunInv, [Next]_vars
  PROVE  RunInv'
<1>1. CASE UNCHANGED vars
  BY <1>1 DEF vars, sorting, running_vars, RunInv
<1>2. ASSUME NEW par \in BOOLEAN, NEW ff \in BOOLEAN, Call(par, ff) PROVE RunInv'
  BY <1>2, Between DEF Call
<1>3. CASE Layer
  BY <1>3, Between DEF Layer, running_vars, RunInv
<1>4. ASSUME NEW p \in Passes, Pop(p) PROVE RunInv'
  BY <1>4, Between DEF Pop, running_vars, RunInv
<1>5. CASE Sorted
  <2>1. CASE phase' = "refused"
    BY <1>5, <2>1, Between DEF Sorted, running_vars, RunInv
  <2>2. CASE phase' = "run"
    BY <1>5, <2>2 DEF Sorted, running_vars, sorting, RunInv, NoOutcome, TypeOK
  <2> QED BY <1>5, <2>1, <2>2 DEF Sorted
<1>6. CASE Skip
  BY <1>6, Advance, CurrentPass DEF Skip, InPlan, sorting, TypeOK
<1>7. CASE Start
  BY <1>7, CurrentPass DEF Start, InPlan, sorting, RunInv
<1>8. CASE Spawn
  BY <1>8 DEF Spawn, InPlan, sorting, RunInv
<1>9. CASE Finish
  BY <1>9 DEF Finish, sorting, running_vars, RunInv
<1>10. ASSUME NEW p \in Passes, Succeed(p) PROVE RunInv'
  BY <1>10 DEF Succeed, sorting, RunInv
<1>11. ASSUME NEW p \in Passes, p \in running \cup unrecorded, ~parallel
       PROVE  plan[level] = {p} /\ level \in DOMAIN plan /\ phase = "run"
  BY <1>11 DEF RunInv, PlanInv
<1>12. ASSUME NEW p \in Passes, Record(p) PROVE RunInv'
  <2>1. ~parallel /\ plan[level] = {p} /\ level \in DOMAIN plan /\ phase = "run"
    BY <1>11, <1>12 DEF Record, RunInv
  <2>2. outcome'[p] # "none" /\ \A r \in Passes \ {p} : outcome'[r] = outcome[r]
    BY <1>12 DEF Record, TypeOK
  <2>3. /\ plan' = plan /\ level' = level + 1 /\ running' = {} /\ unrecorded' = {}
        /\ phase' \in {"run", "end"}
    BY <1>12, <2>1 DEF Record, sorting, RunInv, PlanInv
  <2> QED BY <2>1, <2>2, <2>3, Advance
<1>13. ASSUME NEW p \in Passes, FailPass(p) PROVE RunInv'
  <2>1. plan[level] = {p} /\ level \in DOMAIN plan /\ phase = "run"
    BY <1>11, <1>13 DEF FailPass
  <2>2. outcome'[p] # "none" /\ \A r \in Passes \ {p} : outcome'[r] = outcome[r]
    BY <1>13 DEF FailPass, TypeOK
  <2>3. /\ plan' = plan /\ level' = level + 1 /\ running' = {} /\ unrecorded' = {}
        /\ phase' \in {"run", "end"}
    BY <1>13, <2>1 DEF FailPass, sorting, RunInv, PlanInv
  <2> QED BY <2>1, <2>2, <2>3, Advance
<1>14. ASSUME NEW p \in Passes, NEW ok \in BOOLEAN, TaskEnds(p, ok) PROVE RunInv'
  <2>1. /\ level \in DOMAIN plan /\ p \in plan[level] /\ phase = "run" /\ parallel
        /\ p \in running /\ unrecorded = {}
        /\ \A r \in plan[level] \ running : outcome[r] # "none"
    BY <1>14 DEF TaskEnds, RunInv
  <2>2. /\ phase' = phase /\ plan' = plan /\ parallel' = parallel /\ unrecorded' = {}
        /\ running' = running \ {p}
        /\ outcome'[p] # "none" /\ \A r \in Passes \ {p} : outcome'[r] = outcome[r]
    BY <1>14, <2>1 DEF TaskEnds, sorting, TypeOK
  <2>3. CASE running = {p}
    <3>1. level' = level + 1 /\ running' = {}
      BY <1>14, <2>2, <2>3 DEF TaskEnds
    <3>2. plan[level] \subseteq Passes
      BY <2>1 DEF TypeOK
    <3>3. \A r \in plan[level] : outcome'[r] # "none"
      BY <2>1, <2>2, <2>3, <3>2
    <3> QED BY <2>1, <2>2, <3>1, <3>3, Advance
  <2>4. CASE running # {p}
    <3>1. level' = level
      BY <1>14, <2>4 DEF TaskEnds
    <3>2. \A i \in DOMAIN plan : plan[i] \subseteq Passes /\ i \in Nat
      BY DEF TypeOK
    <3>3. ASSUME NEW i \in DOMAIN plan, i < level, NEW r \in plan[i] PROVE outcome'[r] # "none"
      BY <2>1, <2>2, <3>2, <3>3 DEF RunInv
    <3>4. ASSUME NEW r \in Passes, outcome'[r] # "none"
          PROVE  \E i \in DOMAIN plan : i <= level /\ r \in plan[i]
      <4>1. CASE r = p
        BY <2>1, <4>1 DEF TypeOK
      <4>2. CASE r # p
        BY <2>2, <3>4, <4>2 DEF RunInv
      <4> QED BY <4>1, <4>2
    <3>5. \A r \in plan[level] \ running' : outcome'[r] # "none"
      BY <2>1, <2>2, <3>2
    <3> QED BY <2>1, <2>2, <3>1, <3>3, <3>4, <3>5 DEF RunInv
  <2> QED BY <2>3, <2>4
<1>15. ASSUME NEW p \in Passes, NEW i \in Identities, Command(p, i) PROVE RunInv'
  BY <1>15, Between DEF Command, RunInv
<1>16. CASE Kill
  BY <1>16, Between DEF Kill, RunInv
<1> QED BY <1>1, <1>2, <1>3, <1>4, <1>5, <1>6, <1>7, <1>8, <1>9, <1>10, <1>12, <1>13, <1>14,
           <1>15, <1>16 DEF Next, Progress

-----------------------------------------------------------------------------
(* The cache *)

\* A step keeps the manifests true.
LEMMA CacheStep ==
  ASSUME TypeOK, PlanInv, RunInv, CacheInv, [Next]_vars
  PROVE  CacheInv'
<1> USE DEF CacheInv, SkippedHasRun
<1>1. ASSUME UNCHANGED <<cache, unrecorded, outcome>> PROVE CacheInv'
  BY <1>1 DEF cache
<1>2. ASSUME UNCHANGED <<manifest, succeeded>>, unrecorded' = {}, outcome' = NoOutcome
      PROVE  CacheInv'
  BY <1>2 DEF NoOutcome
<1>3. CASE UNCHANGED vars
  BY <1>1, <1>3 DEF vars, running_vars
<1>4. ASSUME NEW par \in BOOLEAN, NEW ff \in BOOLEAN, Call(par, ff) PROVE CacheInv'
  BY <1>2, <1>4 DEF Call, cache
<1>5. CASE Layer \/ Sorted \/ Finish \/ Start \/ Spawn
  BY <1>1, <1>5 DEF Layer, Sorted, Finish, Start, Spawn, running_vars
<1>6. ASSUME NEW p \in Passes, Pop(p) PROVE CacheInv'
  BY <1>1, <1>6 DEF Pop, running_vars
<1>7. CASE Skip
  <2>1. <<Current, identity[Current]>> \in succeeded
    BY <1>7, CurrentPass, PassAssumption DEF Skip, ShouldRecompute, TypeOK
  <2> QED BY <1>7, <2>1, CurrentPass DEF Skip, cache, TypeOK
<1>8. ASSUME NEW p \in Passes, Succeed(p) PROVE CacheInv'
  BY <1>8 DEF Succeed
<1>9. ASSUME NEW p \in Passes, Record(p) PROVE CacheInv'
  <2>1. <<p, identity[p]>> \in succeeded
    BY <1>9 DEF Record
  <2> QED BY <1>9, <2>1 DEF Record, TypeOK
<1>10. ASSUME NEW p \in Passes, FailPass(p) PROVE CacheInv'
  BY <1>10 DEF FailPass, cache, TypeOK
<1>11. ASSUME NEW p \in Passes, NEW ok \in BOOLEAN, TaskEnds(p, ok) PROVE CacheInv'
  BY <1>11 DEF TaskEnds, TypeOK
<1>12. ASSUME NEW p \in Passes, NEW i \in Identities, Command(p, i) PROVE CacheInv'
  BY <1>2, <1>12 DEF Command, RunInv
<1>13. CASE Kill
  BY <1>2, <1>13 DEF Kill, cache
<1> QED BY <1>3, <1>4, <1>5, <1>6, <1>7, <1>8, <1>9, <1>10, <1>11, <1>12, <1>13
        DEF Next, Progress

-----------------------------------------------------------------------------
(* Theorems *)

\* The invariant holds when a command has registered its passes.
LEMMA InitIInv == Init => IInv
<1>1. SUFFICES ASSUME Init PROVE IInv
  OBVIOUS
<1>2. TypeOK
  <2>1. (CHOOSE i \in Identities : TRUE) \in Identities
    BY PassAssumption
  <2>2. identity \in [Passes -> Identities]
    BY <1>1, <2>1 DEF Init
  <2>3. plan \in Seq(SUBSET Passes) /\ waits \in [Passes -> SUBSET (Passes \cup {Ghost})]
    BY <1>1 DEF Init
  <2>4. /\ manifest \in [Passes -> Identities \cup {NoIdentity}]
        /\ outcome \in [Passes -> {"none", "ok", "failed", "skipped"}]
    BY <1>1 DEF Init, NoOutcome
  <2>5. taken \in BOOLEAN /\ unique \in BOOLEAN /\ parallel \in BOOLEAN /\ fail_fast \in BOOLEAN
    BY <1>1 DEF Init
  <2> QED BY <1>1, <2>2, <2>3, <2>4, <2>5 DEF Init, TypeOK
<1>3. PlanInv /\ GraphInv
  BY <1>1 DEF Init, PlanInv, GraphInv
<1>4. RunInv
  BY <1>1 DEF Init, RunInv, NoOutcome
<1>5. CacheInv
  BY <1>1 DEF Init, CacheInv, SkippedHasRun, NoOutcome
<1> QED BY <1>2, <1>3, <1>4, <1>5 DEF IInv

\* Every step keeps it.
LEMMA StepIInv == IInv /\ [Next]_vars => IInv'
BY TypeStep, PlanStep, RunStep, CacheStep DEF IInv

\* It holds always.
LEMMA AlwaysIInv == Spec => []IInv
BY InitIInv, StepIInv, PTL DEF Spec

\* The variables keep their types, for any number of passes, runs, changes and kills.
THEOREM TypeCorrect == Spec => []TypeOK
<1>1. IInv => TypeOK
  BY DEF IInv
<1> QED BY <1>1, AlwaysIInv, PTL

\* In run_all and run_all_parallel no pass is started, skipped or reported before all of its
\* dependencies have outcomes, whatever the graph.
THEOREM DependenciesComeFirst == Spec => []DependenciesFirst
<1>1. IInv => DependenciesFirst
  <2>1. SUFFICES ASSUME IInv, NEW p \in Passes, p \in running \cup unrecorded \/ outcome[p] # "none",
                        NEW d \in deps[p]
                 PROVE  outcome[d] # "none"
    BY DEF DependenciesFirst
  <2>2. phase \in {"run", "end"}
    BY <2>1 DEF IInv, RunInv, NoOutcome
  <2>3. PICK i \in DOMAIN plan : i <= level /\ p \in plan[i]
    BY <2>1 DEF IInv, TypeOK, RunInv
  <2>4. PICK j \in DOMAIN plan : j < i /\ d \in plan[j]
    BY <2>1, <2>3 DEF IInv, PlanInv
  <2>5. i \in Nat /\ j \in Nat /\ level \in Nat
    BY <2>1 DEF IInv, TypeOK
  <2> QED BY <2>1, <2>2, <2>3, <2>4, <2>5 DEF IInv, RunInv
<1> QED BY <1>1, AlwaysIInv, PTL

\* execution_order and execution_levels refuse a graph only for a cycle, an unknown dependency or
\* a doubled name, and what they accept has none of these and is planned once and completely.
THEOREM RefusesExactly == Spec => []RefusedExactly
<1>1. IInv => RefusedExactly
  <2>1. SUFFICES ASSUME IInv PROVE RefusedExactly
    OBVIOUS
  <2>2. ~Cyclic(Placed)
    BY <2>1, PlacedAcyclic DEF IInv, TypeOK
  <2>3. ASSUME NEW p \in Placed PROVE deps[p] \subseteq Placed
    <3>1. PICK i \in DOMAIN plan : p \in plan[i]
      BY PlacedMembers
    <3> QED BY <2>1, <3>1, PlacedMembers DEF IInv, PlanInv
  <2>4. plan = <<>> => Placed = {}
    BY DEF Placed
  <2> QED BY <2>1, <2>2, <2>3, <2>4 DEF IInv, RefusedExactly, GraphInv, PlanInv, Closed
<1> QED BY <1>1, AlwaysIInv, PTL

\* run_all skips a pass only if it has succeeded with the identity it has now: neither a failure,
\* nor a kill before record_manifest, nor a lost manifest leads to a pass that never ran.
THEOREM SkipsOnlyWhatRan == Spec => []SkippedHasRun
<1>1. IInv => SkippedHasRun
  BY DEF IInv, CacheInv
<1> QED BY <1>1, AlwaysIInv, PTL
=============================================================================
