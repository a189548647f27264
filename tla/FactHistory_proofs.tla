------------------------- MODULE FactHistory_proofs -------------------------
(***************************************************************************)
(* Exact reads for every number of entities, slots, values and readers,    *)
(* every checkpoint interval and every history.                            *)
(*                                                                         *)
(* The argument: every batch, seen alone, takes its entity from one        *)
(* version to the next (StepExact), and every checkpoint that anybody has  *)
(* is a version (CheckpointsSound).  A fold from a version therefore ends  *)
(* in a version, wherever it starts.                                       *)
(***************************************************************************)
EXTENDS FactHistory, SequenceTheorems, WellFoundedInduction, TLAPS

Touched(t, e, s) ==
  log[t].entity = e /\ \E i \in 1..2 : log[t].ops[i].facts[s] # Absent

\* What batch t leaves in slot s of its entity, if it touches it.
Written(t, s) == IF LastOp(t, s).op = "Assert" THEN LastOp(t, s).facts[s] ELSE Absent

\* A batch is the difference between two versions.
StepExact ==
  \A t \in 1..Len(log), e \in Entities, s \in Slots :
    Version(e, t)[s] = IF Touched(t, e, s) THEN Written(t, s) ELSE Version(e, t - 1)[s]

Sound(C) == \A c \in C : c.facts = Version(c.entity, c.tx)

\* A checkpoint in the file or in a handle is a version.
CheckpointsSound == Sound(lines) /\ Sound(w.ckpts) /\ \A r \in Readers : Sound(rd[r].ckpts)

\* The writer knows every batch and caches no signature but the current one.
HandleInv ==
  /\ Len(hist) = Len(log) /\ Len(log) <= MaxTx
  /\ pc # "closed" => w.len = Len(log)
  /\ pc \notin {"closed", "idle"} => log # <<>>
  /\ \A e \in Entities : sig[e] # Nothing => sig[e] = Version(e, Len(log))

\* The inductive invariant.
IInv == TypeOK /\ HandleInv /\ StepExact /\ CheckpointsSound /\ NoRedundantVersion

-----------------------------------------------------------------------------
(* Naturals *)

LEMMA LeastNat ==
  ASSUME NEW T, T \subseteq Nat, T # {}
  PROVE  \E x \in T : \A y \in T : x <= y
<1>1. PICK x \in T : \A y \in T : ~(<<y, x>> \in OpToRel(<, Nat))
  BY NatLessThanWellFounded, WFMin, Zenon
<1>2. ASSUME NEW y \in T, y < x PROVE FALSE
  <2>1. <<y, x>> \in Nat \X Nat /\ <<y, x>>[1] = y /\ <<y, x>>[2] = x
    OBVIOUS
  <2>2. <<y, x>> \in {ss \in Nat \X Nat : ss[1] < ss[2]}
    BY <1>2, <2>1
  <2>3. <<y, x>> \in OpToRel(<, Nat)
    BY <2>2, Zenon DEF OpToRel
  <2> QED BY <1>1, <2>3, Zenon
<1> QED BY <1>2

LEMMA GreatestNat ==
  ASSUME NEW n \in Nat, NEW T, T \subseteq 0..n, T # {}
  PROVE  \E x \in T : \A y \in T : y <= x
<1> DEFINE D == {n - t : t \in T}
<1>0. PICK t0 \in T : TRUE
  OBVIOUS
<1>1. D \subseteq Nat /\ n - t0 \in D
  BY <1>0
<1> HIDE DEF D
<1>2. PICK d \in D : \A y \in D : d <= y
  BY <1>1, LeastNat
<1> USE DEF D
<1>3. PICK t \in T : d = n - t
  BY <1>2
<1>4. \A u \in T : u <= t
  BY <1>2, <1>3
<1> QED BY <1>4

LEMMA LatestIs ==
  ASSUME NEW n \in Nat, NEW T, T \subseteq 0..n, T # {}
  PROVE  Latest(T) \in T /\ \A u \in T : u <= Latest(T)
BY GreatestNat DEF Latest

-----------------------------------------------------------------------------
(* Versions and folds, in one state *)

LEMMA VersionType ==
  ASSUME TypeOK, HandleInv, NEW e \in Entities, NEW t \in 0..Len(log)
  PROVE  Version(e, t) \in State
<1>1. CASE t = 0
  BY <1>1 DEF Version, Nothing, State
<1>2. CASE t # 0
  BY <1>2 DEF Version, TypeOK, HandleInv
<1> QED BY <1>1, <1>2

LEMMA Untouched ==
  ASSUME TypeOK, HandleInv, StepExact, NEW e \in Entities, NEW s \in Slots,
         NEW c \in 0..Len(log), NEW t \in 0..Len(log), c <= t,
         \A u \in (c + 1)..t : ~Touched(u, e, s)
  PROVE  Version(e, t)[s] = Version(e, c)[s]
<1> DEFINE B == {u \in c..t : Version(e, u)[s] # Version(e, c)[s]}
<1>0. Len(log) \in Nat
  BY DEF TypeOK
<1>1. SUFFICES ASSUME Version(e, t)[s] # Version(e, c)[s] PROVE FALSE
  OBVIOUS
<1>b. t \in B /\ B \subseteq Nat
  BY <1>0, <1>1
<1> HIDE DEF B
<1>2. PICK u \in B : \A v \in B : u <= v
  BY <1>b, LeastNat
<1> USE DEF B
<1>3. u \in (c + 1)..t /\ u - 1 \in c..t /\ u \in 1..Len(log)
  BY <1>0, <1>2
<1>4. u - 1 \notin B
  BY <1>0, <1>2, <1>3
<1>5. Version(e, u)[s] = Version(e, u - 1)[s]
  BY <1>3 DEF StepExact
<1> QED BY <1>2, <1>3, <1>4, <1>5

LEMMA FoldExact ==
  ASSUME TypeOK, HandleInv, StepExact, NEW e \in Entities,
         NEW c \in 0..Len(log), NEW t \in 0..Len(log), c <= t
  PROVE  FoldState(e, Version(e, c), c, t) = Version(e, t)
<1>0. Len(log) \in Nat
  BY DEF TypeOK
<1>1. ASSUME NEW s \in Slots
      PROVE  FoldState(e, Version(e, c), c, t)[s] = Version(e, t)[s]
  <2> DEFINE T == Touching(e, s, c, t)
  <2>1. T = {u \in (c + 1)..t : Touched(u, e, s)}
    BY DEF Touching, Touched
  <2>2. CASE T = {}
    <3>1. \A u \in (c + 1)..t : ~Touched(u, e, s)
      BY <2>1, <2>2
    <3> HIDE DEF T
    <3>2. FoldState(e, Version(e, c), c, t)[s] = Version(e, c)[s]
      BY <2>2 DEF FoldState, T
    <3> QED BY <3>1, <3>2, Untouched
  <2>3. CASE T # {}
    <3> DEFINE m == Latest(T)
    <3>1. m \in T /\ \A u \in T : u <= m
      BY <1>0, <2>1, <2>3, LatestIs
    <3>2. FoldState(e, Version(e, c), c, t)[s] = Written(m, s)
      BY <2>3 DEF FoldState, Written
    <3> HIDE DEF m
    <3>3. m \in 1..Len(log) /\ m <= t /\ Touched(m, e, s)
      BY <1>0, <2>1, <3>1
    <3>4. Version(e, m)[s] = Written(m, s)
      BY <3>3 DEF StepExact
    <3>5. \A u \in (m + 1)..t : ~Touched(u, e, s)
      BY <1>0, <2>1, <3>1, <3>3
    <3>6. Version(e, t)[s] = Version(e, m)[s]
      BY <1>0, <3>3, <3>5, Untouched
    <3> QED BY <3>2, <3>4, <3>6
  <2> QED BY <2>2, <2>3
<1>2. Version(e, t) \in State
  BY VersionType
<1>3. Version(e, t) = [s \in Slots |-> Version(e, t)[s]]
  BY <1>2 DEF State
<1>4. FoldState(e, Version(e, c), c, t)
        = [s \in Slots |-> FoldState(e, Version(e, c), c, t)[s]]
  BY DEF FoldState
<1> QED BY <1>1, <1>3, <1>4, Zenon

LEMMA ReadExact ==
  ASSUME TypeOK, HandleInv, StepExact, NEW e \in Entities, NEW h, NEW cut \in Nat,
         h.len \in 0..Len(log), h.ckpts \subseteq Records, Sound(h.ckpts),
         h.len = Len(log) \/ cut <= h.len
  PROVE  /\ StateAt(h, e, cut) = Version(e, UpTo(h, cut))
         /\ FoldState(e, Nothing, 0, UpTo(h, cut)) = Version(e, UpTo(h, cut))
<1>0. Len(log) \in Nat
  BY DEF TypeOK
<1>1. UpTo(h, cut) \in 0..Len(log)
  BY <1>0 DEF UpTo
<1>2. Nothing = Version(e, 0)
  BY DEF Version
<1>3. FoldState(e, Nothing, 0, UpTo(h, cut)) = Version(e, UpTo(h, cut))
  BY <1>0, <1>1, <1>2, FoldExact
<1> DEFINE C == CheckpointsAt(h, e, cut)
           c == CheckpointAt(C)
<1>4. CASE C = {}
  BY <1>3, <1>4 DEF StateAt
<1>5. CASE C # {}
  <2> DEFINE T == {d.tx : d \in C}
  <2>1. \A d \in C : d.tx \in 1..Len(log) /\ d.tx <= cut /\ d.entity = e
    BY DEF CheckpointsAt, Records
  <2>2. T \subseteq 0..Len(log) /\ T # {}
    BY <1>0, <1>5, <2>1
  <2> HIDE DEF T
  <2>3. PICK m \in T : \A u \in T : u <= m
    BY <1>0, <2>2, GreatestNat
  <2> USE DEF T
  <2>4. \E x \in C : \A d \in C : d.tx <= x.tx
    BY <2>3
  <2>5. c \in C
    BY <2>4 DEF CheckpointAt
  <2>6. c.tx \in 0..Len(log) /\ c.tx <= UpTo(h, cut) /\ c.entity = e
    BY <1>0, <2>1, <2>5 DEF UpTo
  <2>7. c.facts = Version(e, c.tx)
    BY <2>5, <2>6 DEF Sound, CheckpointsAt
  <2>8. StateAt(h, e, cut) = FoldState(e, c.facts, c.tx, UpTo(h, cut))
    BY <1>5 DEF StateAt
  <2> HIDE DEF c
  <2>9. FoldState(e, Version(e, c.tx), c.tx, UpTo(h, cut)) = Version(e, UpTo(h, cut))
    BY <1>1, <2>6, FoldExact
  <2> QED BY <1>3, <2>7, <2>8, <2>9
<1> QED BY <1>4, <1>5

-----------------------------------------------------------------------------
(* Every step preserves the invariant *)

LEMMA RecordsGrow ==
  ASSUME TypeOK, Len(log') \in Nat, Len(log) <= Len(log')
  PROVE  Records \subseteq Records'
BY DEF TypeOK, Records

\* What two states have in common that agree on the log and the history.
LEMMA SameLog ==
  ASSUME UNCHANGED <<log, hist>>
  PROVE  /\ Records' = Records /\ Batches' = Batches
         /\ StepExact' <=> StepExact
         /\ NoRedundantVersion' <=> NoRedundantVersion
         /\ \A e, t : Version(e, t)' = Version(e, t)
         /\ \A C : Sound(C) => \A c \in C : c.facts = Version(c.entity, c.tx)'
<1>1. \A e, t : Version(e, t)' = Version(e, t)
  BY DEF Version
<1>2. StepExact' <=> StepExact
  BY DEF StepExact, Version, Touched, Written, LastOp
<1> QED BY <1>1, <1>2 DEF Records, Batches, NoRedundantVersion, Sound, Version

\* The writer's current read is the last version.
LEMMA CurrentRead ==
  ASSUME ConstantsAssumption, IInv, pc # "closed", NEW e \in Entities
  PROVE  /\ StateAt(w, e, Now) = Version(e, Len(log))
         /\ StateAt(w, e, Len(log)) = Version(e, Len(log))
         /\ CurrentSig(e) = Version(e, Len(log))
<1>1. /\ TypeOK /\ HandleInv /\ StepExact /\ Sound(w.ckpts)
      /\ Len(log) \in Nat /\ w.len = Len(log) /\ w.ckpts \subseteq Records
      /\ Now \in Nat /\ Len(log) < Now
  BY DEF IInv, TypeOK, HandleInv, CheckpointsSound, ConstantsAssumption, Now
<1>2. UpTo(w, Now) = Len(log) /\ UpTo(w, Len(log)) = Len(log)
  BY <1>1 DEF UpTo
<1>3. StateAt(w, e, Now) = Version(e, Len(log))
  BY <1>1, <1>2, ReadExact
<1>4. StateAt(w, e, Len(log)) = Version(e, Len(log))
  BY <1>1, <1>2, ReadExact
<1>5. CurrentSig(e) = Version(e, Len(log))
  BY <1>1, <1>3 DEF CurrentSig, HandleInv
<1> QED BY <1>3, <1>4, <1>5

LEMMA AppendNewInv ==
  ASSUME ConstantsAssumption, IInv, NEW e \in Entities, NEW p \in Payloads, AppendNew(e, p)
  PROVE  IInv'
<1>0. PICK n, old : n \in Nat /\ n = Len(log) /\ old = StateAt(w, e, Now)
  BY DEF IInv, TypeOK
<1> DEFINE b == [entity |-> e, ops |-> Diff(old, p)]
<1>1. /\ TypeOK /\ HandleInv /\ StepExact /\ CheckpointsSound /\ NoRedundantVersion
      /\ n \in Nat /\ n = Len(log) /\ n < MaxTx /\ w.len = n /\ Len(hist) = n
  BY <1>0 DEF IInv, TypeOK, HandleInv, AppendNew
<1>2. old = Version(e, n) /\ p # Version(e, n)
  BY <1>0, CurrentRead DEF AppendNew
<1>3. old \in State /\ p \in State /\ p # Nothing
  BY <1>1, <1>2, VersionType DEF ConstantsAssumption
<1>4. log' = Append(log, b) /\ hist' = Append(hist, [Before EXCEPT ![e] = p])
  BY <1>0 DEF AppendNew
<1>5. b \in Batches
  <2>1. Changed(old, p) \in State /\ Changed(p, old) \in State
    BY <1>3 DEF Changed, State
  <2> QED BY <2>1 DEF Diff, Batches
<1>6. Before \in [Entities -> State] /\ \A f \in Entities : Before[f] = Version(f, n)
  <2>1. CASE n = 0
    <3>1. hist = <<>>
      BY <1>1, <2>1, EmptySeq DEF TypeOK
    <3> QED BY <2>1, <3>1 DEF Before, Version, Nothing, State
  <2>2. CASE n # 0
    <3>1. hist # <<>> /\ Len(hist) \in 1..Len(hist)
      BY <1>1, <2>2 DEF TypeOK
    <3> QED BY <1>1, <2>2, <3>1 DEF Before, Version, TypeOK
  <2> QED BY <2>1, <2>2
<1>7. /\ log' \in Seq(Batches) /\ hist' \in Seq([Entities -> State])
      /\ Len(log') = n + 1 /\ Len(hist') = n + 1
      /\ \A t \in 1..n : log'[t] = log[t] /\ hist'[t] = hist[t]
      /\ log'[n + 1] = b /\ hist'[n + 1] = [Before EXCEPT ![e] = p]
  BY <1>1, <1>3, <1>4, <1>5, <1>6 DEF TypeOK
<1>8. /\ \A f \in Entities, t \in 0..n : Version(f, t)' = Version(f, t)
      /\ \A f \in Entities : Version(f, n + 1)' = IF f = e THEN p ELSE Version(f, n)
  BY <1>1, <1>6, <1>7 DEF Version
<1>9. Records \subseteq Records'
  BY <1>1, <1>7, RecordsGrow
<1>10. TypeOK'
  <2>1. w' \in [len : 0..Len(log'), ckpts : SUBSET Records']
    <3>1. w' = [len |-> n + 1, ckpts |-> w.ckpts] /\ w.ckpts \subseteq Records
      BY <1>1 DEF TypeOK, AppendNew
    <3> QED BY <1>7, <1>9, <3>1
  <2>2. rd' \in [Readers -> [pc : {"none", "opening", "open"}, len : 0..Len(log'),
                             ckpts : SUBSET Records']]
    <3>1. \A x \in [pc : {"none", "opening", "open"}, len : 0..n, ckpts : SUBSET Records] :
            x \in [pc : {"none", "opening", "open"}, len : 0..Len(log'), ckpts : SUBSET Records']
      BY <1>1, <1>7, <1>9
    <3> QED BY <1>1, <3>1 DEF TypeOK, AppendNew
  <2>3. lines' \in SUBSET Records' /\ torn' \in BOOLEAN /\ pc' = "appended"
        /\ sig' \in [Entities -> State] /\ crashes' \in Nat
    BY <1>1, <1>3, <1>9 DEF TypeOK, AppendNew
  <2>4. Batches' = Batches
    BY DEF Batches
  <2> QED BY <1>7, <2>1, <2>2, <2>3, <2>4 DEF TypeOK
<1>11. HandleInv'
  <2>1. Len(hist') = Len(log') /\ Len(log') <= MaxTx /\ w'.len = Len(log')
    BY <1>1, <1>7 DEF AppendNew, ConstantsAssumption, TypeOK
  <2>2. log' # <<>>
    BY <1>1, <1>7
  <2>3. \A f \in Entities : sig'[f] # Nothing => sig'[f] = Version(f, n + 1)'
    BY <1>1, <1>8 DEF AppendNew, TypeOK, HandleInv
  <2>4. \A f \in Entities : sig'[f] # Nothing => sig'[f] = Version(f, Len(log))'
    BY <1>7, <2>3 DEF Version
  <2> QED BY <2>1, <2>2, <2>4 DEF HandleInv, Nothing
<1>12. StepExact'
  <2> SUFFICES ASSUME NEW t \in 1..(n + 1), NEW f \in Entities, NEW s \in Slots
               PROVE  Version(f, t)'[s] = IF Touched(t, f, s)' THEN Written(t, s)'
                                          ELSE Version(f, t - 1)'[s]
    BY <1>7 DEF StepExact
  <2>1. CASE t \in 1..n
    <3>1. Touched(t, f, s)' = Touched(t, f, s) /\ Written(t, s)' = Written(t, s)
      BY <1>7, <2>1 DEF Touched, Written, LastOp
    <3>2. Version(f, t)' = Version(f, t) /\ Version(f, t - 1)' = Version(f, t - 1)
      BY <1>1, <1>8, <2>1
    <3>3. Version(f, t)[s] = IF Touched(t, f, s) THEN Written(t, s) ELSE Version(f, t - 1)[s]
      BY <1>1, <2>1 DEF StepExact
    <3> QED BY <3>1, <3>2, <3>3
  <2>2. CASE t = n + 1
    <3>1. Version(f, t - 1)' = Version(f, n)
      BY <1>1, <1>8, <2>2
    <3>2. /\ log'[t].entity = e
          /\ log'[t].ops[1].op = "Retract" /\ log'[t].ops[1].facts[s] = Changed(old, p)[s]
          /\ log'[t].ops[2].op = "Assert"  /\ log'[t].ops[2].facts[s] = Changed(p, old)[s]
      BY <1>7, <2>2 DEF Diff
    <3>3. /\ Changed(old, p)[s] = IF old[s] # p[s] THEN old[s] ELSE Absent
          /\ Changed(p, old)[s] = IF p[s] # old[s] THEN p[s] ELSE Absent
      BY DEF Changed
    <3>4. CASE f # e
      <4>1. ~Touched(t, f, s)'
        BY <3>2, <3>4 DEF Touched
      <4> QED BY <1>8, <2>2, <3>1, <3>4, <4>1
    <3>5. CASE f = e
      <4>1. Version(f, t)'[s] = p[s] /\ Version(f, t - 1)'[s] = old[s]
        BY <1>2, <1>8, <2>2, <3>1, <3>5
      <4>2. Touched(t, f, s)' <=> old[s] # p[s]
        BY <3>2, <3>3, <3>5 DEF Touched
      <4>3. old[s] # p[s] => Written(t, s)' = p[s]
        BY <3>2, <3>3 DEF Written, LastOp
      <4> QED BY <4>1, <4>2, <4>3
    <3> QED BY <3>4, <3>5
  <2> QED BY <1>1, <2>1, <2>2
<1>13. CheckpointsSound'
  <2>1. \A c \in Records : c.entity \in Entities /\ c.tx \in 0..n
    BY <1>1 DEF Records
  <2>2. ASSUME NEW C, C \subseteq Records, Sound(C)
        PROVE  \A c \in C : c.facts = Version(c.entity, c.tx)'
    BY <1>8, <2>1, <2>2 DEF Sound
  <2>3. lines' = lines /\ w'.ckpts = w.ckpts /\ rd' = rd
    BY DEF AppendNew, TypeOK, IInv
  <2>4. /\ lines \subseteq Records /\ w.ckpts \subseteq Records
        /\ \A r \in Readers : rd[r].ckpts \subseteq Records
    BY <1>1 DEF TypeOK
  <2>5. Sound(lines) /\ Sound(w.ckpts) /\ \A r \in Readers : Sound(rd[r].ckpts)
    BY <1>1 DEF CheckpointsSound
  <2>6. /\ \A c \in lines : c.facts = Version(c.entity, c.tx)'
        /\ \A c \in w.ckpts : c.facts = Version(c.entity, c.tx)'
        /\ \A r \in Readers : \A c \in rd[r].ckpts : c.facts = Version(c.entity, c.tx)'
    BY <2>2, <2>4, <2>5
  <2> QED BY <2>3, <2>6 DEF CheckpointsSound, Sound, Version
<1>14. NoRedundantVersion'
  <2> SUFFICES ASSUME NEW t \in 1..(n + 1)
               PROVE  Version(log[t].entity, t)' # Version(log[t].entity, t - 1)'
    BY <1>7 DEF NoRedundantVersion
  <2>1. CASE t \in 1..n
    <3>1. log'[t] = log[t] /\ log[t].entity \in Entities
      <4>1. log'[t] = log[t] /\ log[t] \in Batches
        BY <1>1, <1>7, <2>1 DEF TypeOK
      <4> QED BY <4>1 DEF Batches
    <3>2. Version(log[t].entity, t) # Version(log[t].entity, t - 1)
      BY <1>1, <2>1 DEF NoRedundantVersion
    <3>4. /\ hist'[t][log'[t].entity] = hist[t][log[t].entity]
          /\ t - 1 # 0 => hist'[t - 1][log'[t].entity] = hist[t - 1][log[t].entity]
      BY <1>1, <1>7, <2>1, <3>1
    <3> QED BY <2>1, <3>2, <3>4 DEF Version
  <2>2. CASE t = n + 1
    <3>1. log'[t].entity = e
      BY <1>7, <2>2
    <3>2. Version(e, n + 1)' = p /\ Version(e, n)' = Version(e, n)
      BY <1>1, <1>8
    <3> QED BY <1>1, <1>2, <2>2, <3>1, <3>2 DEF Version
  <2> QED BY <1>1, <2>1, <2>2
<1> QED BY <1>10, <1>11, <1>12, <1>13, <1>14 DEF IInv

\* The steps that append nothing: enough for them are the parts of the invariant about
\* what they change.
LEMMA KeepLog ==
  ASSUME IInv, UNCHANGED <<log, hist>>,
         lines' \subseteq Records, torn' \in BOOLEAN, crashes' \in Nat,
         pc' \in {"closed", "idle", "appended", "line", "glued"},
         w' \in [len : 0..Len(log), ckpts : SUBSET Records],
         sig' \in [Entities -> State],
         rd' \in [Readers -> [pc : {"none", "opening", "open"}, len : 0..Len(log),
                              ckpts : SUBSET Records]],
         pc' # "closed" => w'.len = Len(log),
         pc' \notin {"closed", "idle"} => log # <<>>,
         \A e \in Entities : sig'[e] # Nothing => sig'[e] = Version(e, Len(log)),
         \A c \in lines' \cup w'.ckpts : c.facts = Version(c.entity, c.tx),
         \A r \in Readers : \A c \in rd'[r].ckpts : c.facts = Version(c.entity, c.tx)
  PROVE  IInv'
<1>1. /\ Records' = Records /\ Batches' = Batches /\ StepExact' /\ NoRedundantVersion'
      /\ \A e, t : Version(e, t)' = Version(e, t)
  BY SameLog DEF IInv
<1>2. TypeOK'
  BY <1>1 DEF IInv, TypeOK
<1>3. HandleInv'
  BY <1>1 DEF IInv, HandleInv, Version, Nothing
<1>4. CheckpointsSound'
  BY <1>1 DEF CheckpointsSound, Sound, Version
<1> QED BY <1>1, <1>2, <1>3, <1>4 DEF IInv

LEMMA InitInv ==
  ASSUME ConstantsAssumption, Init
  PROVE  IInv
<1>1. Len(log) = 0 /\ Len(hist) = 0
  BY DEF Init
<1>2. TypeOK
  <2>1. log \in Seq(Batches) /\ hist \in Seq([Entities -> State])
    BY EmptySeq DEF Init
  <2>2. w \in [len : 0..Len(log), ckpts : SUBSET Records]
        /\ rd \in [Readers -> [pc : {"none", "opening", "open"}, len : 0..Len(log),
                               ckpts : SUBSET Records]]
    BY <1>1 DEF Init, Closed
  <2>3. sig \in [Entities -> State]
    BY DEF Init, Nothing, State
  <2> QED BY <2>1, <2>2, <2>3 DEF Init, TypeOK
<1>3. HandleInv
  BY <1>1 DEF Init, HandleInv, ConstantsAssumption
<1>4. StepExact /\ NoRedundantVersion
  BY <1>1 DEF StepExact, NoRedundantVersion
<1>5. CheckpointsSound
  BY DEF Init, Closed, CheckpointsSound, Sound
<1> QED BY <1>2, <1>3, <1>4, <1>5 DEF IInv

LEMMA StepInv ==
  ASSUME ConstantsAssumption, IInv, [Next]_vars
  PROVE  IInv'
<1> USE DEF IInv
<1> DEFINE Handles == [pc : {"none", "opening", "open"}, len : 0..Len(log),
                       ckpts : SUBSET Records]
<1>0. /\ Len(log) \in Nat /\ w.ckpts \subseteq Records /\ lines \subseteq Records
      /\ \A c \in lines \cup w.ckpts : c.facts = Version(c.entity, c.tx)
      /\ \A r \in Readers : \A c \in rd[r].ckpts : c.facts = Version(c.entity, c.tx)
      /\ rd \in [Readers -> Handles] /\ sig \in [Entities -> State]
      /\ w \in [len : 0..Len(log), ckpts : SUBSET Records]
  BY DEF TypeOK, CheckpointsSound, Sound
<1>1. CASE Open
  <2>1. w' = [len |-> Len(log), ckpts |-> lines] /\ pc' = "idle"
        /\ UNCHANGED <<log, lines, torn, sig, rd, crashes, hist>>
    BY <1>1 DEF Open
  <2>2. torn' \in BOOLEAN /\ crashes' \in Nat
        /\ \A e \in Entities : sig'[e] # Nothing => sig'[e] = Version(e, Len(log))
    BY <2>1 DEF TypeOK, HandleInv
  <2>3. w' \in [len : 0..Len(log), ckpts : SUBSET Records] /\ w'.ckpts = lines
        /\ w'.len = Len(log)
    BY <1>0, <2>1
  <2> QED BY <1>0, <2>1, <2>2, <2>3, KeepLog
<1>2. CASE NoCheckpoint \/ FailCheckpoint
  <2>1. pc # "closed" /\ pc' = "idle"
        /\ UNCHANGED <<log, lines, torn, w, sig, rd, crashes, hist>>
    BY <1>2 DEF NoCheckpoint, FailCheckpoint
  <2>2. torn' \in BOOLEAN /\ crashes' \in Nat /\ w'.len = Len(log)
        /\ \A e \in Entities : sig'[e] # Nothing => sig'[e] = Version(e, Len(log))
    BY <2>1 DEF TypeOK, HandleInv
  <2> QED BY <1>0, <2>1, <2>2, KeepLog
<1>3. CASE StartCheckpoint
  <2>1. pc = "appended" /\ torn' = TRUE /\ pc' \in {"line", "glued"}
        /\ UNCHANGED <<log, lines, w, sig, rd, crashes, hist>>
    BY <1>3 DEF StartCheckpoint
  <2>2. crashes' \in Nat /\ w'.len = Len(log) /\ log # <<>>
        /\ \A e \in Entities : sig'[e] # Nothing => sig'[e] = Version(e, Len(log))
    BY <2>1 DEF TypeOK, HandleInv
  <2> QED BY <1>0, <2>1, <2>2, KeepLog
<1>4. CASE FinishCheckpoint
  <2>1. pc \in {"line", "glued"} /\ torn' = FALSE /\ pc' = "idle"
        /\ lines' \subseteq lines \cup {Checkpoint}
        /\ w' = [w EXCEPT !.ckpts = @ \cup {Checkpoint}]
        /\ UNCHANGED <<log, sig, rd, crashes, hist>>
    BY <1>4 DEF FinishCheckpoint
  <2>2. w.len = Len(log) /\ crashes' \in Nat
        /\ \A e \in Entities : sig'[e] # Nothing => sig'[e] = Version(e, Len(log))
    BY <2>1 DEF TypeOK, HandleInv
  <2>3. Entity \in Entities /\ Len(log) \in 1..Len(log)
    <3>1. log # <<>> /\ log \in Seq(Batches)
      BY <2>1 DEF TypeOK, HandleInv
    <3>2. Len(log) \in 1..Len(log) /\ log[Len(log)] \in Batches
      BY <3>1, EmptySeq
    <3> QED BY <3>2 DEF Entity, Batches
  <2>4. StateAt(w, Entity, Len(log)) = Version(Entity, Len(log))
    BY <2>1, <2>3, CurrentRead
  <2>5. Version(Entity, Len(log)) \in State
    BY <1>0, <2>3, VersionType
  <2>6. /\ Checkpoint \in Records
        /\ Checkpoint.facts = Version(Checkpoint.entity, Checkpoint.tx)
    BY <2>3, <2>4, <2>5 DEF Checkpoint, Records
  <2> HIDE DEF IInv
  <2>7. w' = [len |-> Len(log), ckpts |-> w.ckpts \cup {Checkpoint}]
    BY <1>0, <2>1, <2>2
  <2>8. w' \in [len : 0..Len(log), ckpts : SUBSET Records] /\ w'.len = Len(log)
        /\ w'.ckpts = w.ckpts \cup {Checkpoint} /\ lines' \subseteq Records
    BY <1>0, <2>1, <2>6, <2>7
  <2>9. \A c \in lines' \cup w'.ckpts : c.facts = Version(c.entity, c.tx)
    BY <1>0, <2>1, <2>6, <2>8
  <2> QED BY <1>0, <2>1, <2>2, <2>8, <2>9, KeepLog
<1>5. CASE Crash \/ PowerLoss
  <2>1. pc' = "closed" /\ w' = Closed /\ sig' = [e \in Entities |-> Nothing]
        /\ UNCHANGED <<log, hist>> /\ crashes' = crashes + 1
        /\ lines' \subseteq lines /\ torn' \in BOOLEAN
        /\ \/ rd' = rd
           \/ rd' = [r \in Readers |-> [pc |-> "none", len |-> 0, ckpts |-> {}]]
    BY <1>5 DEF Crash, PowerLoss, Stop, TypeOK
  <2>2. rd' \in [Readers -> Handles]
        /\ \A r \in Readers : \A c \in rd'[r].ckpts : c.facts = Version(c.entity, c.tx)
    BY <1>0, <2>1
  <2>3. w' \in [len : 0..Len(log), ckpts : SUBSET Records] /\ w'.ckpts = {}
    BY <1>0, <2>1 DEF Closed
  <2>4. sig' \in [Entities -> State] /\ \A e \in Entities : sig'[e] = Nothing
    BY <2>1 DEF Nothing, State
  <2>5. crashes' \in Nat /\ lines' \subseteq Records
    BY <1>0, <2>1 DEF TypeOK
  <2> QED BY <1>0, <2>1, <2>2, <2>3, <2>4, <2>5, KeepLog
<1>6. ASSUME NEW e \in Entities, AppendSame(e) PROVE IInv'
  <2>1. pc = "idle" /\ sig' = [sig EXCEPT ![e] = CurrentSig(e)]
        /\ UNCHANGED <<log, lines, torn, pc, w, rd, crashes, hist>>
    BY <1>6 DEF AppendSame
  <2>2. CurrentSig(e) = Version(e, Len(log)) /\ Version(e, Len(log)) \in State
    BY <1>0, <2>1, CurrentRead, VersionType
  <2>3. torn' \in BOOLEAN /\ crashes' \in Nat /\ w'.len = Len(log)
        /\ \A f \in Entities : sig[f] # Nothing => sig[f] = Version(f, Len(log))
    BY <2>1 DEF TypeOK, HandleInv
  <2> HIDE DEF IInv
  <2>4. sig' \in [Entities -> State]
        /\ \A f \in Entities : sig'[f] # Nothing => sig'[f] = Version(f, Len(log))
    BY <1>0, <2>1, <2>2, <2>3
  <2> QED BY <1>0, <2>1, <2>3, <2>4, KeepLog
<1>7. ASSUME NEW r \in Readers, ReaderOpen(r) \/ ReaderLoadCheckpoints(r) \/ ReaderRefresh(r)
      PROVE  IInv'
  <2>1. UNCHANGED <<log, lines, torn, pc, w, sig, crashes, hist>>
    BY <1>7 DEF ReaderOpen, ReaderLoadCheckpoints, ReaderRefresh
  <2>2. PICK h : /\ h \in Handles /\ rd' = [rd EXCEPT ![r] = h]
                 /\ h.ckpts \in {{}, lines, rd[r].ckpts}
    <3>1. CASE ReaderOpen(r)
      <4> DEFINE g == [pc |-> "opening", len |-> Len(log), ckpts |-> {}]
      <4>1. g \in Handles /\ g.ckpts = {}
        BY <1>0
      <4>2. rd' = [rd EXCEPT ![r] = g]
        BY <3>1 DEF ReaderOpen
      <4> HIDE DEF g
      <4> QED BY <4>1, <4>2
    <3>2. CASE ReaderLoadCheckpoints(r)
      <4>1. [rd[r] EXCEPT !.pc = "open", !.ckpts = lines] \in Handles
        BY <1>0
      <4>2. rd' = [rd EXCEPT ![r] = [rd[r] EXCEPT !.pc = "open", !.ckpts = lines]]
        BY <1>0, <3>2 DEF ReaderLoadCheckpoints
      <4>3. [rd[r] EXCEPT !.pc = "open", !.ckpts = lines].ckpts = lines
        BY <1>0
      <4> QED BY <4>1, <4>2, <4>3
    <3>3. CASE ReaderRefresh(r)
      <4>1. [rd[r] EXCEPT !.len = Len(log)] \in Handles
        BY <1>0
      <4>2. [rd[r] EXCEPT !.len = Len(log)].ckpts = rd[r].ckpts
        BY <1>0
      <4> QED BY <3>3, <4>1, <4>2 DEF ReaderRefresh
    <3> QED BY <1>7, <3>1, <3>2, <3>3
  <2>3. torn' \in BOOLEAN /\ crashes' \in Nat
        /\ pc' \in {"closed", "idle", "appended", "line", "glued"}
        /\ (pc' # "closed" => w'.len = Len(log))
        /\ (pc' \notin {"closed", "idle"} => log # <<>>)
        /\ \A e \in Entities : sig'[e] # Nothing => sig'[e] = Version(e, Len(log))
    BY <2>1 DEF TypeOK, HandleInv
  <2> HIDE DEF IInv
  <2>4. rd' \in [Readers -> Handles]
        /\ \A q \in Readers : rd'[q].ckpts \in {{}, lines, rd[q].ckpts}
    BY <1>0, <2>2
  <2>5. \A q \in Readers : \A c \in rd'[q].ckpts : c.facts = Version(c.entity, c.tx)
    BY <1>0, <2>4
  <2> QED BY <1>0, <2>1, <2>3, <2>4, <2>5, KeepLog
<1>8. CASE UNCHANGED vars
  <2>1. UNCHANGED <<log, lines, torn, pc, w, sig, rd, crashes, hist>>
    BY <1>8 DEF vars
  <2>2. torn' \in BOOLEAN /\ crashes' \in Nat
        /\ pc' \in {"closed", "idle", "appended", "line", "glued"}
        /\ (pc' # "closed" => w'.len = Len(log))
        /\ (pc' \notin {"closed", "idle"} => log # <<>>)
        /\ \A e \in Entities : sig'[e] # Nothing => sig'[e] = Version(e, Len(log))
    BY <2>1 DEF TypeOK, HandleInv
  <2> QED BY <1>0, <2>1, <2>2, KeepLog
<1> HIDE DEF IInv
<1> QED BY <1>1, <1>2, <1>3, <1>4, <1>5, <1>6, <1>7, <1>8, AppendNewInv DEF Next

-----------------------------------------------------------------------------

\* IInv is an invariant of the ledger, whatever is appended, crashed and lost.
THEOREM Invariance == Spec => []IInv
BY ConstantsAssumption, InitInv, StepInv, PTL DEF Spec

\* Every state has its type: no checkpoint is ahead of the committed batches, although
\* checkpoints.jsonl is neither fsynced nor repaired.
THEOREM TypeCorrect == Spec => []TypeOK
<1>1. IInv => TypeOK
  BY DEF IInv
<1> QED BY <1>1, Invariance, PTL

\* A writable handle's get_object and object_at return what append_object was given, for
\* every entity and every cut, with or without checkpoints.
THEOREM ReadCorrectness == Spec => []ReadsExact
<1>1. ASSUME IInv, ConstantsAssumption PROVE ReadsExact
  <2> SUFFICES ASSUME pc # "closed", NEW e \in Entities, NEW cut \in 0..Now
               PROVE  /\ StateAt(w, e, cut) = Version(e, UpTo(w, cut))
                      /\ FoldState(e, Nothing, 0, UpTo(w, cut)) = Version(e, UpTo(w, cut))
    BY DEF ReadsExact
  <2>1. /\ TypeOK /\ HandleInv /\ StepExact /\ Sound(w.ckpts)
        /\ w.len = Len(log) /\ w.len \in 0..Len(log) /\ w.ckpts \subseteq Records
        /\ cut \in Nat
    BY <1>1 DEF IInv, TypeOK, HandleInv, CheckpointsSound, Now, ConstantsAssumption
  <2> QED BY <2>1, ReadExact
<1> QED BY <1>1, ConstantsAssumption, Invariance, PTL

\* append_inner never commits a batch that changes nothing, not even in a handle that has
\* cached no signature.
THEOREM Idempotence == Spec => []NoRedundantVersion
<1>1. IInv => NoRedundantVersion
  BY DEF IInv
<1> QED BY <1>1, Invariance, PTL

\* A read-only handle answers exactly about every batch of its snapshot, whichever
\* checkpoints it has loaded and however far the writer has gone since.
THEOREM ReaderHistoryCorrectness == Spec => []ReaderHistory
<1>1. ASSUME IInv PROVE ReaderHistory
  <2> SUFFICES ASSUME NEW r \in Readers, NEW e \in Entities, NEW cut \in 0..rd[r].len
               PROVE  StateAt(rd[r], e, cut) = Version(e, cut)
    BY DEF ReaderHistory
  <2>1. /\ TypeOK /\ HandleInv /\ StepExact /\ Sound(rd[r].ckpts)
        /\ rd[r].len \in 0..Len(log) /\ rd[r].ckpts \subseteq Records
        /\ cut \in Nat /\ cut <= rd[r].len
    BY <1>1 DEF IInv, TypeOK, CheckpointsSound
  <2>2. UpTo(rd[r], cut) = cut
    BY <2>1 DEF UpTo
  <2>3. StateAt(rd[r], e, cut) = Version(e, UpTo(rd[r], cut))
    BY <2>1, ReadExact
  <2> QED BY <2>2, <2>3
<1> QED BY <1>1, Invariance, PTL
=============================================================================
