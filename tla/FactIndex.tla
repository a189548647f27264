----------------------------- MODULE FactIndex -----------------------------
(***************************************************************************)
(* The index runs of a fact ledger (ledger/src/index.rs, and open_writable,*)
(* build_ro_inner, refresh_snapshot and flush_memtable of                  *)
(* ledger/src/fact_ledger.rs): the writer, and readers without a lock.     *)
(*                                                                         *)
(* The segment store is the truth and is only a number here: batches 1..tx *)
(* are committed, those up to sealed in sealed segments.  Everything       *)
(* under indexes/ is derived from it: one run file per sort order and      *)
(* flush, and last_tx, the batch up to which the runs are complete.        *)
(* Batches past last_tx are decoded into the memtable by every open.  A    *)
(* step is one change or one read of the directory, so that a crash or     *)
(* another process can fall between any two of them.                       *)
(***************************************************************************)
EXTENDS Naturals, FiniteSets

CONSTANTS Readers,     \* processes that open the ledger for reading
          NumOrders,   \* the sort orders of SortOrder::ALL, by number
          MergeAt,     \* MERGE_RUNS_AT
          Old,         \* batches of a ledger that is not new
          MaxNew,      \* bound: batches appended
          MaxOpens,    \* bound: opens and refreshes of readers
          MaxCrashes,  \* bound: ends of the writing process
          MaxUpgrades  \* bound: changes of the format of runs

ASSUME ConstantsAssumption ==
  /\ NumOrders \in Nat \ {0} /\ MergeAt \in Nat \ {0}
  /\ Old \in Nat /\ MaxNew \in Nat /\ MaxOpens \in Nat /\ MaxCrashes \in Nat /\ MaxUpgrades \in Nat

VARIABLES
  tx,        \* batches committed to the segment store
  sealed,    \* batches in sealed segments
  base,      \* batches there were at first: 0 or Old
  files,     \* the run files
  last_tx,   \* indexes/last_tx; 0 when absent or empty
  pc,        \* where the writer is; "closed" when there is none
  runs,      \* FactIndexes::runs of the writer
  memtable,  \* batches whose entries are in the writer's memtable
  at,        \* the sort order that the writer's loop over SortOrder::ALL has reached
  crashes, upgrades,
  torn_dir,  \* history: a process ended while it was replacing runs by others, or an open has
             \* removed a run file with entries in it and no heal has ended since
  rd,        \* rd[r]: the Inner of reader r
  ro,        \* ro[r]: the open or refresh of reader r under way
  opens      \* opens and refreshes begun

readers == <<rd, ro, opens>>
store   == <<tx, sealed, base>>
bounds  == <<crashes, upgrades>>
vars    == <<store, files, last_tx, pc, runs, memtable, at, bounds, torn_dir, readers>>

Orders == 1..NumOrders

Merged == 0   \* the name of <order>-merged.run; a flushed run is named after its last batch

\* A run file; one that is not whole, because it is being written or is of an older format, has
\* a footer that IndexRun::open refuses.
RunFile(o, n, t, ok) == [order |-> o, name |-> n, txs |-> t, whole |-> ok]

\* An open run is its path and the block directory it was opened with: every block read opens the
\* file at that path again. What a scan can read of such runs are those whose files are still as
\* they were; at a path that has none it fails, and in another file it reads other bytes.
Readable(fs) == fs \cap files

Whole(fs)    == {f \in fs : f.whole}
Of(fs, o)    == {f \in fs : f.order = o}
Indexed(fs)  == UNION {f.txs : f \in fs}
Without(o, n) == {g \in files : g.order # o \/ g.name # n}
Replace(f)   == Without(f.order, f.name) \cup {f}

\* A reader before its first open.
NoInner == [live |-> FALSE, tx |-> 0, sealed |-> 0, runs |-> {}, memtable |-> {}, marker |-> 0,
            odd |-> FALSE]
Resting == [pc |-> "idle"]

\* A new ledger, or one that earlier processes have filled and compacted.
Init ==
  /\ base \in {0, Old} /\ tx = base /\ sealed = base /\ last_tx = base
  /\ files = IF base = 0 THEN {} ELSE {RunFile(o, Merged, 1..base, TRUE) : o \in Orders}
  /\ pc = "closed" /\ runs = {} /\ memtable = {} /\ at = 1
  /\ crashes = 0 /\ upgrades = 0 /\ torn_dir = FALSE
  /\ rd = [r \in Readers |-> NoInner] /\ ro = [r \in Readers |-> Resting] /\ opens = 0

-----------------------------------------------------------------------------
(* open_writable *)

\* FactIndexes::open: run files that cannot be read are deleted.
OpenRuns ==
  /\ pc = "closed"
  /\ files' = Whole(files)
  /\ runs' = Whole(files)
  /\ pc' = IF files = Whole(files) THEN "load" ELSE "heal"
  /\ torn_dir' = (torn_dir \/ \E f \in files \ files' : f.txs # {})
  /\ UNCHANGED <<store, last_tx, memtable, at, bounds, readers>>

\* Some were: after the merge_runs of every order below, the directory is removed file by
\* file ...
RemoveSome ==
  /\ pc = "heal" /\ at > NumOrders
  /\ \E rest \in SUBSET files : files' = rest
  /\ last_tx' \in {0, last_tx}
  /\ pc' = "removing"
  /\ UNCHANGED <<store, runs, memtable, at, bounds, torn_dir, readers>>

\* ... and created again, empty.
Recreate ==
  /\ pc = "removing"
  /\ files' = {} /\ last_tx' = 0 /\ runs' = {} /\ at' = 1
  /\ pc' = "load"
  /\ torn_dir' = FALSE
  /\ UNCHANGED <<store, memtable, bounds, readers>>

\* Mutation of After: one batch too many.
MAfterFrom(marker) == marker..tx

\* batches_after(marker)
After(marker) == {t \in 1..tx : t > marker}

LoadMemtable ==
  /\ pc = "load"
  /\ memtable' = After(last_tx)
  /\ pc' = "idle"
  /\ UNCHANGED <<store, files, last_tx, runs, at, bounds, torn_dir, readers>>

-----------------------------------------------------------------------------
(* append_inner, and flush_memtable when the append sealed a segment *)

Append ==
  /\ pc = "idle" /\ tx < base + MaxNew
  /\ tx' = tx + 1
  /\ memtable' = memtable \cup {tx + 1}
  /\ \/ pc' = "idle" /\ UNCHANGED sealed
     \/ pc' = "flush" /\ sealed' = tx + 1
  /\ UNCHANGED <<base, files, last_tx, runs, at, bounds, torn_dir, readers>>

\* seal_and_flush, which only migrate_to_v3 calls, on the handle that created the store and if no
\* append has failed: all that is sealed is flushed.
\* Nothing is flushed when the memtable is empty.
SealAndFlush ==
  /\ pc = "idle" /\ base = 0 /\ crashes = 0 /\ memtable # {} /\ memtable = After(sealed)
  /\ pc' = "flush" /\ sealed' = tx
  /\ UNCHANGED <<tx, base, files, last_tx, runs, memtable, at, bounds, torn_dir, readers>>

\* write_run creates the file under its final name ...
CreateRun ==
  /\ pc = "flush" /\ at \in Orders
  /\ files' = Replace(RunFile(at, tx, {}, FALSE))
  /\ pc' = "run"
  /\ UNCHANGED <<store, last_tx, runs, memtable, at, bounds, torn_dir, readers>>

\* ... and add_runs opens it once it is complete.
FinishRun ==
  LET f == RunFile(at, tx, memtable, TRUE)
  IN  /\ pc = "run" /\ RunFile(at, tx, {}, FALSE) \in files
      /\ files' = Replace(f)
      /\ runs' = runs \cup {f}
      /\ at' = at + 1
      /\ pc' = "flush"
      /\ UNCHANGED <<store, last_tx, memtable, bounds, torn_dir, readers>>

\* A reader has removed it, and add_runs cannot open it: the append fails, with its batch durable
\* and in the memtable.
FlushFails ==
  /\ pc = "run" /\ RunFile(at, tx, {}, FALSE) \notin files
  /\ pc' = "idle" /\ at' = 1
  /\ UNCHANGED <<store, files, last_tx, runs, memtable, bounds, torn_dir, readers>>

\* Mutation of RunsWritten: the marker goes out after the first order.
MRunsWritten == at > 1

RunsWritten == at > NumOrders

\* fs::write(last_tx) truncates, then writes ...
TruncateMarker ==
  /\ pc = "flush" /\ RunsWritten
  /\ last_tx' = 0
  /\ pc' = "marker"
  /\ UNCHANGED <<store, files, runs, memtable, at, bounds, torn_dir, readers>>

\* ... and the memtable is dropped; orders with too many runs are compacted.
WriteMarker ==
  /\ pc = "marker"
  /\ last_tx' = tx
  /\ memtable' = {}
  /\ at' = 1
  /\ pc' = "merge"
  /\ ro' = [r \in Readers |-> IF ro[r].pc \in {"open", "remove"} THEN [ro[r] EXCEPT !.odd = TRUE]
                                                             ELSE ro[r]]
  /\ UNCHANGED <<store, files, runs, bounds, torn_dir, rd, opens>>

-----------------------------------------------------------------------------
(* merge_runs, at the end of a flush for orders with more than MergeAt runs *)
(* and at the start of a heal for every order with more than one: the       *)
(* merged run is complete under another name before the old ones are        *)
(* removed, and takes its name after that.                                  *)

MergeDue ==
  /\ at \in Orders
  /\ Cardinality(Of(runs, at)) > (IF pc = "heal" THEN 1 ELSE MergeAt)

RemoveMerged ==
  /\ pc \in {"merge", "heal"} /\ MergeDue /\ Of(runs, at) = Readable(Of(runs, at))
  /\ \E rest \in SUBSET Of(files, at) : files' = (files \ Of(files, at)) \cup rest
  /\ pc' = IF pc = "heal" THEN "heal_merging" ELSE "merging"
  /\ UNCHANGED <<store, last_tx, runs, memtable, at, bounds, torn_dir, readers>>

\* One of the runs was removed by a reader: merge_runs has taken the order's runs out of the
\* handle when it fails to read it. A heal goes on, an append fails.
MergeFails ==
  /\ pc \in {"merge", "heal"} /\ MergeDue /\ Of(runs, at) # Readable(Of(runs, at))
  /\ runs' = runs \ Of(runs, at)
  /\ \/ pc = "heal" /\ at' = at + 1 /\ UNCHANGED pc
     \/ pc = "merge" /\ at' = 1 /\ pc' = "idle"
  /\ UNCHANGED <<store, files, last_tx, memtable, bounds, torn_dir, readers>>

\* Mutation of MergedRun: only the flushed runs are merged, not an earlier merged one.
MMergedRun(o) == RunFile(o, Merged, Indexed({f \in Of(runs, o) : f.name # Merged}), TRUE)

MergedRun(o) == RunFile(o, Merged, Indexed(Of(runs, o)), TRUE)

Merging(fs) == (fs \ Of(fs, at)) \cup {MergedRun(at)}

RenameMerged ==
  /\ pc \in {"merging", "heal_merging"}
  /\ files' = Merging(files)
  /\ runs' = Merging(runs)
  /\ at' = at + 1
  /\ pc' = IF pc = "heal_merging" THEN "heal" ELSE "merge"
  /\ UNCHANGED <<store, last_tx, memtable, bounds, torn_dir, readers>>

NextOrder ==
  /\ pc \in {"merge", "heal"} /\ at \in Orders /\ ~MergeDue
  /\ at' = at + 1
  /\ UNCHANGED <<store, files, last_tx, pc, runs, memtable, bounds, torn_dir, readers>>

FlushDone ==
  /\ pc = "merge" /\ at > NumOrders
  /\ at' = 1
  /\ pc' = "idle"
  /\ UNCHANGED <<store, files, last_tx, runs, memtable, bounds, torn_dir, readers>>

\* While runs are being replaced, or were when a process ended, the directory may lack
\* what last_tx promises.
Replacing == torn_dir \/ pc \in {"removing", "merging", "heal_merging"}

\* The process ends, on purpose or not.
Stop ==
  /\ pc # "closed" /\ crashes < MaxCrashes
  /\ pc' = "closed" /\ runs' = {} /\ memtable' = {} /\ at' = 1
  /\ crashes' = crashes + 1 /\ UNCHANGED upgrades
  /\ torn_dir' = Replacing
  /\ UNCHANGED <<store, files, last_tx, readers>>

\* The next version of the program has another format of runs.
Upgrade ==
  /\ pc = "closed" /\ upgrades < MaxUpgrades /\ upgrades' = upgrades + 1
  /\ files' = {[f EXCEPT !.whole = FALSE] : f \in files}
  /\ UNCHANGED <<store, last_tx, pc, runs, memtable, at, crashes, torn_dir, readers>>

-----------------------------------------------------------------------------
(* build_ro_inner, when a reader opens the ledger or has to do so again *)

\* The segment store, as far as it is committed, which is what SegmentStore shows of it ...
ReadStore(r) ==
  /\ \/ ro[r].pc = "store" /\ UNCHANGED opens
     \/ ro[r].pc = "idle" /\ ~rd[r].live /\ opens < MaxOpens /\ opens' = opens + 1
  /\ ro' = [ro EXCEPT ![r] = [pc |-> "list", tx |-> tx, sealed |-> sealed]]
  /\ UNCHANGED <<store, files, last_tx, pc, runs, memtable, at, bounds, torn_dir, rd>>

\* ... then FactIndexes::open: the names in the directory ...
ListRuns(r) ==
  /\ ro[r].pc = "list"
  /\ ro' = [ro EXCEPT ![r] = [pc |-> "open", tx |-> ro[r].tx, sealed |-> ro[r].sealed,
                              listed |-> {<<f.order, f.name>> : f \in files},
                              runs |-> {}, clean |-> TRUE, odd |-> Replacing]]
  /\ UNCHANGED <<store, files, last_tx, pc, runs, memtable, at, bounds, torn_dir, rd, opens>>

\* The paths are sorted, and "merged" comes after the numbers.
First(names) ==
  CHOOSE n \in names : \A m \in names :
    \/ n[1] < m[1]
    \/ n[1] = m[1] /\ (n = m \/ m[2] = Merged \/ (n[2] # Merged /\ n[2] < m[2]))

\* ... and one file after the other, if it is still there and can be read; of what it has opened
\* the handle keeps the path and the directory (see Readable) ...
OpenRun(r) ==
  /\ ro[r].pc = "open" /\ ro[r].listed # {}
  /\ LET n == First(ro[r].listed)
         found == {f \in Whole(files) : <<f.order, f.name>> = n}
     IN  ro' = [ro EXCEPT ![r].runs = @ \cup found,
                          ![r].listed = IF found = {} THEN @ ELSE @ \ {n},
                          ![r].pc = IF found = {} THEN "remove" ELSE "open"]
  /\ UNCHANGED <<store, files, last_tx, pc, runs, memtable, at, bounds, torn_dir, rd, opens>>

\* ... and if it could not, the file that has its name by now is removed.
RemoveRun(r) ==
  /\ ro[r].pc = "remove"
  /\ LET n == First(ro[r].listed)
     IN  /\ files' = Without(n[1], n[2])
         /\ torn_dir' = (torn_dir \/ \E f \in files \ files' : f.txs # {})
         /\ ro' = [ro EXCEPT ![r].listed = @ \ {n}, ![r].clean = FALSE, ![r].pc = "open"]
  /\ UNCHANGED <<store, last_tx, pc, runs, memtable, at, bounds, rd, opens>>

\* The handle of an open that has read marker.
Inner(o, marker) ==
  [live |-> TRUE, tx |-> o.tx, sealed |-> o.sealed, runs |-> o.runs,
   memtable |-> {t \in 1..o.tx : t > marker}, marker |-> marker,
   odd |-> o.odd \/ torn_dir]

\* Mutation of ReadMarker: files that could not be read are no error.
MReadMarker(r) ==
  /\ ro[r].pc = "open" /\ ro[r].listed = {}
  /\ rd' = [rd EXCEPT ![r] = Inner(ro[r], last_tx)]
  /\ ro' = [ro EXCEPT ![r] = Resting]
  /\ UNCHANGED <<store, files, last_tx, pc, runs, memtable, at, bounds, torn_dir, opens>>

\* An open that has removed files is an error, and leaves a reader with the Inner it had.
ReadMarker(r) ==
  /\ ro[r].pc = "open" /\ ro[r].listed = {}
  /\ rd' = [rd EXCEPT ![r] = IF ro[r].clean THEN Inner(ro[r], last_tx) ELSE @]
  /\ ro' = [ro EXCEPT ![r] = Resting]
  /\ UNCHANGED <<store, files, last_tx, pc, runs, memtable, at, bounds, torn_dir, opens>>

-----------------------------------------------------------------------------
(* refresh_snapshot *)

\* Another marker than the one the handle was opened with means to open again.
CheckMarker(r) ==
  /\ ro[r].pc = "idle" /\ rd[r].live /\ opens < MaxOpens /\ opens' = opens + 1
  /\ ro' = [ro EXCEPT ![r] = [pc |-> IF last_tx # rd[r].marker THEN "store" ELSE "tail"]]
  /\ UNCHANGED <<store, files, last_tx, pc, runs, memtable, at, bounds, torn_dir, rd>>

\* refresh_read_only of the store: a seal means to open again, else new batches go to the
\* memtable.
ReadTail(r) ==
  /\ ro[r].pc = "tail"
  /\ \/ /\ sealed # rd[r].sealed
        /\ ro' = [ro EXCEPT ![r].pc = "store"] /\ UNCHANGED rd
     \/ /\ sealed = rd[r].sealed
        /\ rd' = [rd EXCEPT ![r].tx = tx, ![r].memtable = @ \cup {t \in 1..tx : t > rd[r].tx}]
        /\ ro' = [ro EXCEPT ![r] = Resting]
  /\ UNCHANGED <<store, files, last_tx, pc, runs, memtable, at, bounds, torn_dir, opens>>

-----------------------------------------------------------------------------
Writer ==
  \/ OpenRuns \/ RemoveSome \/ Recreate \/ LoadMemtable \/ Append \/ SealAndFlush
  \/ CreateRun \/ FinishRun \/ FlushFails \/ TruncateMarker \/ WriteMarker
  \/ RemoveMerged \/ MergeFails \/ RenameMerged \/ NextOrder \/ FlushDone \/ Stop \/ Upgrade

Reader(r) ==
  \/ ReadStore(r) \/ ListRuns(r) \/ OpenRun(r) \/ RemoveRun(r) \/ ReadMarker(r)
  \/ CheckMarker(r) \/ ReadTail(r)

Next == Writer \/ \E r \in Readers : Reader(r)

Spec == Init /\ [][Next]_vars

-----------------------------------------------------------------------------
(* Properties *)

WriterStates == {"closed", "heal", "removing", "load", "idle", "flush", "run", "marker",
                 "merge", "merging", "heal_merging"}
FileType == [order : Orders, name : Nat, txs : SUBSET (1..tx), whole : BOOLEAN]

\* The type invariant: in particular, no run and no memtable holds a batch that was
\* never committed.
TypeOK ==
  /\ tx \in Nat /\ base \in 0..tx /\ sealed \in 0..tx /\ last_tx \in 0..tx
  /\ at \in 1..(NumOrders + 1) /\ crashes \in Nat /\ upgrades \in Nat /\ opens \in Nat
  /\ files \in SUBSET FileType /\ runs \in SUBSET FileType
  /\ memtable \in SUBSET (1..tx)
  /\ pc \in WriterStates /\ torn_dir \in BOOLEAN
  /\ \A r \in Readers :
       /\ rd[r].tx \in 0..tx /\ rd[r].sealed \in 0..sealed
       /\ rd[r].runs \in SUBSET FileType /\ rd[r].memtable \in SUBSET (1..rd[r].tx)
       /\ ro[r].pc \in {"idle", "store", "list", "open", "remove", "tail"}

\* The marker never runs ahead of the runs: whatever the point at which the process ends,
\* every batch up to last_tx is in a run file of every sort order, if only in one of an older
\* format that makes the next writable open rebuild them. Readers may remove files at any time.
MarkerCovered ==
  Replacing \/ \A o \in Orders : 1..last_tx \subseteq Indexed(Of(files, o))

\* The runs and the memtable of a writable handle together are the whole ledger: between
\* operations every committed batch is in every sort order, in a run whose file is still the one
\* that was opened or in the memtable, whichever step of a flush or a heal the last process ended
\* in.
IndexComplete ==
  pc = "idle" /\ ~torn_dir =>
    \A o \in Orders : 1..tx \subseteq memtable \cup Indexed(Readable(Of(runs, o)))

\* A scan that finds the runs of its sort order as the reader has opened them finds every batch of
\* the reader's snapshot, after an open or a refresh beside any step of the writer, its end, its
\* heal or the removal of files by other readers. Excepted is a reader that listed the runs while
\* they were being replaced, that opened those of a directory with runs missing, or that read a
\* marker written after it had listed them. Of a reader one of whose runs has been removed or
\* replaced since it opened them this says nothing for that sort order: its scans fail or read
\* other bytes until it opens again, and as long as the marker is the one it knows no refresh
\* does that.
ReaderComplete ==
  \A r \in Readers : \A o \in Orders :
    ~rd[r].odd /\ Of(rd[r].runs, o) = Readable(Of(rd[r].runs, o)) =>
      1..rd[r].tx \subseteq rd[r].memtable \cup Indexed(Of(rd[r].runs, o))

\* fact_ledger.rs:8-10: "entries up to the `indexes/last_tx` marker are served from the
\* on-disk EAVT/AEVT/AVET runs", whatever happened to earlier writers of the directory.
ServedFromRuns ==
  pc = "idle" => \A o \in Orders : 1..last_tx \subseteq Indexed(Of(runs, o))
=============================================================================
