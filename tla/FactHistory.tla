---------------------------- MODULE FactHistory ----------------------------
(***************************************************************************)
(* Versions of entities in a fact ledger (ledger/src/fact.rs and the write *)
(* and read paths of ledger/src/fact_ledger.rs).  An append stores only    *)
(* the difference to the entity's current state; a read folds those        *)
(* differences up to a cut, starting from the newest checkpoint at or      *)
(* before it.  Checkpoints are lines of a file that is neither fsynced nor *)
(* repaired.                                                               *)
(*                                                                         *)
(* A batch is in the segment store when append_with_seal has returned      *)
(* (SegmentStore), and a handle finds every batch of its snapshot in its   *)
(* runs and its memtable (FactIndex): here a handle is a number of batches *)
(* and the checkpoints it has loaded.                                      *)
(***************************************************************************)
EXTENDS Naturals, Sequences, FiniteSets

CONSTANTS Entities,
          Slots,       \* (attribute, position) pairs
          Values,
          Absent,      \* no fact in this slot
          Payloads,    \* what callers append; a payload has at least one fact
          Readers,     \* read-only handles
          Interval,    \* CHECKPOINT_INTERVAL
          MaxTx,       \* bound: batches
          MaxCrashes   \* bound: ends of the writing process and power failures

State   == [Slots -> Values \cup {Absent}]
Nothing == [s \in Slots |-> Absent]

ASSUME ConstantsAssumption ==
  /\ Absent \notin Values
  /\ Payloads \subseteq State \ {Nothing}
  /\ Interval \in Nat \ {0} /\ MaxTx \in Nat /\ MaxCrashes \in Nat

VARIABLES
  log,      \* the committed batches; a batch's tx is its place here
  lines,    \* the readable lines of checkpoints.jsonl
  torn,     \* its last line is not complete
  pc,       \* where the writer is; "closed" when there is none
  w,        \* the writer's handle
  sig,      \* sig_cache: the payload whose signature is cached, or Nothing
  rd,       \* rd[r]: a reader's handle
  crashes,
  hist      \* history: hist[t] is every entity's payload after batch t

vars == <<log, lines, torn, pc, w, sig, rd, crashes, hist>>

Now == MaxTx + 1   \* a cut no batch reaches: TxId(u64::MAX), or no cut at all

Closed == [len |-> 0, ckpts |-> {}]

Init ==
  /\ log = <<>> /\ lines = {} /\ torn = FALSE
  /\ pc = "closed" /\ w = Closed /\ sig = [e \in Entities |-> Nothing]
  /\ rd = [r \in Readers |-> [pc |-> "none", len |-> 0, ckpts |-> {}]]
  /\ crashes = 0 /\ hist = <<>>

-----------------------------------------------------------------------------
(* fact.rs *)

\* The facts of x that y does not have.
Changed(x, y) == [s \in Slots |-> IF x[s] # y[s] THEN x[s] ELSE Absent]

\* Mutation of Diff: asserts before retracts.
MDiff(old, new) == << [op |-> "Assert",  facts |-> Changed(new, old)],
                      [op |-> "Retract", facts |-> Changed(old, new)] >>

\* diff: the facts that are gone are retracted, then the new ones are asserted.
Diff(old, new) == << [op |-> "Retract", facts |-> Changed(old, new)],
                     [op |-> "Assert",  facts |-> Changed(new, old)] >>

-----------------------------------------------------------------------------
(* Inner: reads *)

Latest(T) == CHOOSE t \in T : \A u \in T : u <= t

\* The batches after `from` and up to `upto` with an operation on slot s of entity e.
Touching(e, s, from, upto) ==
  {t \in (from + 1)..upto : /\ log[t].entity = e
                            /\ \E i \in 1..2 : log[t].ops[i].facts[s] # Absent}

\* The operation of batch t on slot s that comes last.
LastOp(t, s) == log[t].ops[IF log[t].ops[2].facts[s] # Absent THEN 2 ELSE 1]

\* fold_state: the latest operation of a slot wins, and a retract empties it.
FoldState(e, seed, from, upto) ==
  [s \in Slots |->
     LET T == Touching(e, s, from, upto)
     IN  IF T = {} THEN seed[s]
         ELSE LET o == LastOp(Latest(T), s)
              IN  IF o.op = "Assert" THEN o.facts[s] ELSE Absent]

UpTo(h, cut) == IF cut < h.len THEN cut ELSE h.len

\* Mutation of CheckpointsAt: the newest checkpoint, whatever the cut.
MCheckpointsAt(h, e, cut) == {c \in h.ckpts : c.entity = e}

\* The checkpoints from which checkpoint_at takes the latest.
CheckpointsAt(h, e, cut) == {c \in h.ckpts : c.entity = e /\ c.tx <= cut}

CheckpointAt(C) == CHOOSE c \in C : \A d \in C : d.tx <= c.tx

StateAt(h, e, cut) ==
  LET C == CheckpointsAt(h, e, cut)
      c == CheckpointAt(C)
  IN  IF C = {} THEN FoldState(e, Nothing, 0, UpTo(h, cut))
      ELSE FoldState(e, c.facts, c.tx, UpTo(h, cut))

\* Mutation of CurrentSig: a handle knows only the signatures it has cached.
MCurrentSig(e) == sig[e]

\* current_sig: cached, or computed from the entity's current state.
CurrentSig(e) == IF sig[e] # Nothing THEN sig[e] ELSE StateAt(w, e, Now)

-----------------------------------------------------------------------------
(* The writer *)

Open ==
  /\ pc = "closed"
  /\ w' = [len |-> Len(log), ckpts |-> lines]
  /\ pc' = "idle"
  /\ UNCHANGED <<log, lines, torn, sig, rd, crashes, hist>>

\* append_inner of what is already the current state: nothing but the cache changes.
AppendSame(e) ==
  /\ pc = "idle"
  /\ sig' = [sig EXCEPT ![e] = CurrentSig(e)]
  /\ UNCHANGED <<log, lines, torn, pc, w, rd, crashes, hist>>

Before == IF hist = <<>> THEN [e \in Entities |-> Nothing] ELSE hist[Len(hist)]

\* append_inner of a new payload p, up to maybe_checkpoint.
AppendNew(e, p) ==
  /\ pc = "idle" /\ Len(log) < MaxTx
  /\ p # CurrentSig(e)
  /\ log' = Append(log, [entity |-> e, ops |-> Diff(StateAt(w, e, Now), p)])
  /\ w' = [w EXCEPT !.len = @ + 1]
  /\ sig' = [sig EXCEPT ![e] = p]
  /\ hist' = Append(hist, [Before EXCEPT ![e] = p])
  /\ pc' = "appended"
  /\ UNCHANGED <<lines, torn, rd, crashes>>

Entity == log[Len(log)].entity   \* the entity maybe_checkpoint is called for

\* The versions since the entity's latest checkpoint.
Since(e) ==
  {t \in 1..w.len : /\ log[t].entity = e
                    /\ \A c \in CheckpointsAt(w, e, Now) : c.tx < t}

\* Mutation of Checkpoint: it has the number of the next batch.
MCheckpoint == [entity |-> Entity, tx |-> Len(log) + 1, facts |-> StateAt(w, Entity, Len(log))]

Checkpoint == [entity |-> Entity, tx |-> Len(log), facts |-> StateAt(w, Entity, Len(log))]

\* maybe_checkpoint: too few versions ...
NoCheckpoint ==
  /\ pc = "appended"
  /\ Cardinality(Since(Entity)) < Interval
  /\ pc' = "idle"
  /\ UNCHANGED <<log, lines, torn, w, sig, rd, crashes, hist>>

\* ... or append_checkpoint: a part of the line is in the file, perhaps behind what an
\* earlier process has left of another one ...
StartCheckpoint ==
  /\ pc = "appended"
  /\ Cardinality(Since(Entity)) >= Interval
  /\ torn' = TRUE
  /\ pc' = IF torn THEN "glued" ELSE "line"
  /\ UNCHANGED <<log, lines, w, sig, rd, crashes, hist>>

\* ... and then all of it.  A line that begins with a fragment cannot be read.
FinishCheckpoint ==
  /\ pc \in {"line", "glued"}
  /\ lines' = IF pc = "line" THEN lines \cup {Checkpoint} ELSE lines
  /\ torn' = FALSE
  /\ w' = [w EXCEPT !.ckpts = @ \cup {Checkpoint}]
  /\ pc' = "idle"
  /\ UNCHANGED <<log, sig, rd, crashes, hist>>

\* The file reports an error: append_inner returns it although the batch is committed,
\* and the handle goes on.
FailCheckpoint ==
  /\ pc \in {"line", "glued"}
  /\ pc' = "idle"
  /\ UNCHANGED <<log, lines, torn, w, sig, rd, crashes, hist>>

-----------------------------------------------------------------------------
(* Failures (the environment) *)

Stop ==
  /\ crashes < MaxCrashes /\ crashes' = crashes + 1
  /\ pc' = "closed" /\ w' = Closed /\ sig' = [e \in Entities |-> Nothing]
  /\ UNCHANGED <<log, hist>>

\* The writing process ends, on purpose or not.
Crash ==
  /\ pc # "closed" /\ Stop
  /\ UNCHANGED <<lines, torn, rd>>

\* The machine stops: batches are synced, lines of checkpoints.jsonl are not.
PowerLoss ==
  /\ Stop
  /\ lines' \in SUBSET lines /\ torn' \in BOOLEAN
  /\ rd' = [r \in Readers |-> [pc |-> "none", len |-> 0, ckpts |-> {}]]

-----------------------------------------------------------------------------
(* A reader: build_ro_inner opens the segment store first and loads the     *)
(* checkpoints last; refresh_snapshot folds new batches in or does it again *)

ReaderOpen(r) ==
  /\ rd[r].pc # "opening"
  /\ rd' = [rd EXCEPT ![r] = [pc |-> "opening", len |-> Len(log), ckpts |-> {}]]
  /\ UNCHANGED <<log, lines, torn, pc, w, sig, crashes, hist>>

ReaderLoadCheckpoints(r) ==
  /\ rd[r].pc = "opening"
  /\ rd' = [rd EXCEPT ![r].pc = "open", ![r].ckpts = lines]
  /\ UNCHANGED <<log, lines, torn, pc, w, sig, crashes, hist>>

ReaderRefresh(r) ==
  /\ rd[r].pc = "open"
  /\ rd' = [rd EXCEPT ![r].len = Len(log)]
  /\ UNCHANGED <<log, lines, torn, pc, w, sig, crashes, hist>>

-----------------------------------------------------------------------------

Next ==
  \/ Open \/ NoCheckpoint \/ StartCheckpoint \/ FinishCheckpoint \/ FailCheckpoint
  \/ Crash \/ PowerLoss
  \/ \E e \in Entities : AppendSame(e) \/ \E p \in Payloads : AppendNew(e, p)
  \/ \E r \in Readers : ReaderOpen(r) \/ ReaderLoadCheckpoints(r) \/ ReaderRefresh(r)

Spec == Init /\ [][Next]_vars

-----------------------------------------------------------------------------
(* Properties *)

Records == [entity : Entities, tx : 1..Len(log), facts : State]
Batches == [entity : Entities, ops : [1..2 -> [op : {"Assert", "Retract"}, facts : State]]]

\* The type invariant: in particular, a checkpoint belongs to a batch that is committed.
TypeOK ==
  /\ log \in Seq(Batches) /\ lines \in SUBSET Records /\ torn \in BOOLEAN
  /\ pc \in {"closed", "idle", "appended", "line", "glued"}
  /\ w \in [len : 0..Len(log), ckpts : SUBSET Records]
  /\ sig \in [Entities -> State]
  /\ rd \in [Readers -> [pc : {"none", "opening", "open"}, len : 0..Len(log),
                         ckpts : SUBSET Records]]
  /\ crashes \in Nat /\ hist \in Seq([Entities -> State])

\* The payload that was last written to e at or before batch t.
Version(e, t) == IF t = 0 THEN Nothing ELSE hist[t][e]

\* A writable handle reads back exactly what was written, now and at every earlier cut:
\* differences and checkpoints are invisible, whatever was lost of the checkpoints, and
\* the reads that use them (get_object, object_at) agree with those that do not
\* (all_objects, all_objects_at, object_history).
ReadsExact ==
  pc # "closed" =>
    \A e \in Entities, cut \in 0..Now :
      LET v == Version(e, UpTo(w, cut))
      IN  StateAt(w, e, cut) = v /\ FoldState(e, Nothing, 0, UpTo(w, cut)) = v

\* Appends are idempotent: a batch always changes its entity, even when the process that
\* writes it did not write the version before.
NoRedundantVersion ==
  \A t \in 1..Len(log) : Version(log[t].entity, t) # Version(log[t].entity, t - 1)

\* A reader's answers about a batch of its snapshot, or an earlier one, are exact while a
\* writer appends and writes checkpoints, however old the checkpoints are that it loaded.
\* (Its current state is another matter: state_at without a cut starts from a checkpoint past
\* the snapshot, if the reader has loaded one.)
ReaderHistory ==
  \A r \in Readers, e \in Entities :
    rd[r].pc = "open" =>
      \A cut \in 0..rd[r].len : StateAt(rd[r], e, cut) = Version(e, cut)
=============================================================================
