# EKOS: ledger, cluster, session memory and passes in TLA+

EKOS compiles an organisation's sources into a ledger of facts that is only ever
appended to. This directory models the parts of it on which everything else stands and
that tests reach least: how the ledger survives crashes while readers look at it without
a lock, how it gives back versions it stores only as differences, how the threads of a
process share a ledger of many partitions, how several machines write one ledger under
leases and others read it over pooled connections, how the notes of several agents become
claims, and in which order, and whether at all, compiler passes run. Paths below are
relative to `ekos/crates/`.

## The system and its parts

| part | state | operations | hard behaviour |
|---|---|---|---|
| segment store `ledger/src/segment/mod.rs` | `segments/seg-n.facts`, `manifest.json`, `HEAD`; in memory `head`, `next_tx` | open and recovery, append, seal, read-only open, refresh | crash or power failure between two writes, torn frames, readers without a lock that may write, write errors |
| fact index `ledger/src/index.rs`, `flush_memtable` | run files per sort order, `last_tx`, memtable | open and self-heal, flush, compaction | end of the process between any two changes of the directory; readers of the same directory, whose runs are paths |
| fact history `ledger/src/fact.rs`, `fact_ledger.rs` | batches of assert/retract, checkpoints, signature cache | append, read now, read at a cut, checkpoint, refresh | unsynced and torn checkpoint lines, checkpoints newer than a snapshot, stale caches |
| coordinator `cluster/src/{lease,coordinator,catalog,protocol}.rs` | leases and tokens (memory), catalog, entity index, watermarks (state file) | acquire, renew, release, register, record, commit | expiry, takeover, late requests, restart, failing state file |
| compile worker `cluster/src/{client,worker}.rs`, `cli/src/commands/cluster.rs` | one run, one heartbeat, one connection | acquire with retry, pipeline, register, record, commit, release | two tasks on one connection, lost lease, lost answers |
| partitioned ledger `ledger/src/partitioned/` | partitions, entity index and its run files, catalog | append, lookup with self-healing scan, rebuild of the index, demotion | threads between two locks, crash between ledger and index, half-written lines, rebuild beside append, a second process that opens for reading |
| query workers and gateway `distributed/` | cached handles, one pooled connection per worker | lookups and fan-outs, retry, failover, pruning | calls that share a connection, dropped calls, stopped workers, reads beside a publisher |
| pass manager `compiler-core/src/{pass,cache}.rs` | passes, manifests of what has run | order, levels, sequential and parallel runs, skipping | failures and kills between a pass and its manifest |
| session memory `session/` | inbox file, its lock, the ledger | note, commit, review, supersede, purge | a lock reclaimed by age, torn lines, a commit that ends half-way, purge beside commit and beside notes |
| migration approval `migrate-approval/` | requests, decisions | approve, reject, authorise | decision on an outdated snapshot |

How they interact: `FactLedger` appends a batch to the segment store, then pushes its
entries into the memtable, which a seal flushes into index runs; it adds a checkpoint line
every `CHECKPOINT_INTERVAL` versions. Readers in other processes open the same directory
without a lock and refresh. `PartitionedLedger` keeps one `FactLedger` per partition. A
compile worker runs the whole pipeline into a partitioned ledger under a lease of the
coordinator and then tells it what is there; gateways ask the coordinator which
partitions to read and send the reads to query workers.

What makes the parts correct: an acknowledged batch survives crashes and power failures and
keeps its number; a sealed segment never changes; a reader sees a gap-free prefix, at least as long
as what was committed when it started; runs and memtable together hold every batch; a
read returns what was appended, whatever the representation; a lookup reaches every
partition in which its id was stored when it began; only the newest holder of a lease
commits; what a commit announces can be found, by every call's own answer; a note that was
accepted is a claim or will be one, and a decision about a claim stands; no pass comes
before its dependencies, and none is skipped that has not run as it is.

## Modules

| module | models | run by |
|---|---|---|
| `SegmentStore` | the store on a local directory: one step per write another process or a crash can see, one step per file a reader reads or writes | `MCSegmentStore` |
| `SegmentStoreFaults` | the same with failing writes and syncs | itself |
| `AppendLog` | the abstract promise of the store: a log that grows at its end, acknowledgements that last, readers with prefixes, until a reader writes into it | implemented by `SegmentStore` |
| `SegmentStore_proofs` | theorems about `SegmentStore` | |
| `FactIndex` | the writer of `indexes/` and its readers | itself |
| `FactIndex_proofs` | theorems about `FactIndex` | |
| `FactHistory` | differences, folds, checkpoints, signatures, readers | `MCFactHistory` |
| `FactHistory_proofs` | theorems about `FactHistory` | |
| `Cluster` | coordinator, connections, runs and heartbeats | `MCCluster` |
| `Cluster_proofs` | theorems about `Cluster` | |
| `PartitionedLedger` | threads over the catalog, the open partitions and the entity index, one step per lock | `MCPartitionedLedger` |
| `PartitionedLedger_proofs` | theorems about `PartitionedLedger` | |
| `SessionInbox` | one session's notes from several processes, commit, review, purge | `MCSessionInbox` |
| `SessionInbox_proofs` | theorems about `SessionInbox` | |
| `QueryGateway` | queries as sets of calls over pooled connections, workers, a publisher | itself |
| `QueryGateway_proofs` | theorems about `QueryGateway` | |
| `PassManager` | sorting and running the passes, the cache | `MCPassManager` |
| `PassManager_proofs` | theorems about `PassManager` | |

`PROJECT.json` maps every definition to the lines it translates. Some correspondences are
worth saying in words.

*SegmentStore.* A file is the sequence of its frames and every frame has length one; a
frame of which only a part is in the file is `Torn`. `synced[n]` is the part of a file
that a power failure cannot take. `write_head` and `save_manifest` replace a file
atomically and are one step each. An append is `WriteStart`, `WriteEnd`, `SyncActive`,
`PublishHead` and, if the segment is full, `SaveManifest` and `Roll`; attribute names are
a number that `PersistManifest` raises before a frame that uses them. `OpenScan` is the
recovery (scan, truncate), `OpenHead` the rewritten `HEAD`; `OpenRefused` is
`SegmentError::Corrupt`. The write lock means that there is at most one writer. A sealed
segment's hash is its contents. Power failures keep what was synced and any part of the
rest, and every manifest and `HEAD`, whose file and directory are synced. That a new active
segment keeps its name when its first frame is synced is assumed of the file system:
`segments/` itself is synced only when a segment is sealed.

A reader of a local ledger writes as well. `open_inner` looks an active segment that is absent or
empty up in its backend, which `build_ro_inner` makes of the same directory, and puts what it
gets, and then `HEAD`, where it has got it from (`segment/mod.rs:272`-`284`): `ReaderStat`,
`ReaderGet`, `ReaderTruncate`, `ReaderWrite`, `ReaderGetHead`, `ReaderTruncateHead` and
`ReaderWriteHead`, between any of which the writer may append, seal or roll. Nothing is written
unless the first frame of the segment came between the stat and the read. What the writer has
appended behind is overwritten by bytes that need not end at a frame's end, so any number of
frames behind the rewritten ones may be gone and the first of the rest cut (`Behind`). A `HEAD`
that is being written is empty, does not parse and is compared with nothing (`EmptyHead`). The
history variable `rewritten` is set by `ReaderTruncate`; the properties of the store except
`TypeOK` and `RefreshResolves` promise nothing from then on, and only `WriteEnd` and
`PowerLoss` look at it, since a write under way and an unsynced `HEAD` have more outcomes then. On a
filesystem that is mounted read-only the write fails and the open with it, which changes nothing
and is no step here.

*FactIndex.* A batch is a number and a run the set of batches in it; the store is the number
`tx`. A run file that is being written is there but not whole, which is what its footer is
for. `last_tx` is rewritten with `fs::write`, so it is empty for a moment. The self-heal
calls `merge_runs` on what it is about to delete, so the model does too. A reader's open
reads the store, lists the names, opens file after file, removes what it could not open, and
reads the marker; each is a step. `Upgrade` makes every run unreadable, which is what the
self-heal is for. `torn_dir` and the reader's `odd` are history variables. A handle keeps of
a run its path and its block directory and opens the file again for every block
(`index.rs:628`), so what a handle has opened (`runs`, `rd[r].runs`) and what is at those
paths now (`files`) are two things, and `Readable` is what both have: a removed run makes a
scan fail, a replaced one gives it other bytes. `merge_runs` reads its inputs in that way
too, which is the guard of `RemoveMerged` and `MergeFails`.

*FactHistory.* A payload is a function from slots (attribute and position) to values;
`decompose` and `reconstruct` are inverse to each other on the payloads the code accepts
and both sides of that are left to the tests of `fact.rs`. Two payloads with the same
content signature are the same payload. A handle is a number of batches and the
checkpoints it has loaded; how it finds the batches is `SegmentStore` and `FactIndex`.
`hist` is a history variable, what callers have written, and appears in no guard.

*Cluster.* Time is only the moment at which a lease stops being live; the clock may also
be set back. A connection is two queues. The heartbeat and the run take turns at the
mutex (`LockFree`); a restart of the coordinator loses the leases, the tokens and every
connection, and keeps the state file. The watermark is the number of entries in the
workspace, which runs on the same workspace share (`store`). `grants` and `committed` are
history variables.

*PartitionedLedger.* No two of its locks are ever held together, so an action is what a
thread does under one lock: `Register` the catalog, `OpenPartition` the map of handles,
`InsertSite` the index in memory, `Record` the current run file. A partition is a durable
set of items. An item has the ids it is indexed under (`Entries`; a relationship also has
its end points) and the partitions its versions may be routed to (`KeysOf`). `current` is
`"unlinked"` when the run file that is open was removed by a compaction or a rebuild: lines
written to it are lost. `exposed` and `unsaved` are the history variables behind the
exceptions of `ReadsFindAcked` and `DataIsListed`; they are no guards. A run is the set of the
lines that `load_index` reads of it, which end at the first that does not parse. A `writeln!` that
fails may leave a part of its line, and the handle stays open: `current` is then `"torn"` and
`whole` what lies before the fragment. A fragment that lacks only its newline is still read, until
the next line is glued to it (`Write`, `WriteFails`).

*SessionInbox.* The inbox is a sequence of lines, each a note, `Torn` (UTF-8 that does not
decode) or `Broken` (cut inside a character, which only notes in `Wide` can be), and `closed`
says whether the last has its newline, which is what the repair before an append looks at; `bytes`
is the length of the file, with `Bytes[n]` for the line of note n. Opening the file
(`open_private_append`) and writing the line (`WriteNote`) are two steps: a purge, which takes no
lock, may unlink the file in between (`gone`), and the line goes where nobody finds it. The
lock file has a holder and an age; a waiter that finds it old and removes it are two steps.
Commit and review open the ledger for writing and hold its lock, so there is one `job` at
a time, whose puts into the ledger are single steps; notes and purge take no part in that
lock. `stolen`, `raced` and `cut` are history variables for the exceptions.

*QueryGateway.* One entity is followed. A query is a set of calls, one per partition that
the catalog or the index names; a call is a future that moves on its own, waits for the
mutex of its connection, sends, receives, retries once on a fresh connection and fails
over to the next worker. A connection is two queues, so an answer that nobody has read
stays in it. What the compile worker and the coordinator do is what `Cluster` shows of
them: data, registration, record, commit, in this order. `handle` is the version of a
partition that a worker has open, which it never refreshes.

*PassManager.* An in-degree is the set of dependencies it counts (`waits`), and the plan a
sequence of sets: singletons from `execution_order`, levels from `execution_levels`. The
hash map's order is a choice among the ready passes. `identity` is version, configuration
and inputs together, fixed when a command makes its manager.

## Runs

| run | asks | bounds | distinct states |
|---|---|---|---|
| `segment_store` | does any crash, power failure or interleaving with a reader break the store's promises | 1 reader, 3 appends, segments of 2 frames, 2 sealed segments, 1 new attribute, 2 crashes, power failures or rewrites | about 2.0 million |
| `cluster` | can two runs on one shard step on each other | 2 workers with any pids and places, 1 shard, 1 fault | 2,430,554 |
| `cluster_liveness` | does every run end | 2 rivals, 1 shard, no fault | 158,105 |
| `fact_index` | is the index complete after the process ended anywhere, and for a reader beside it | 1 reader with 2 opens or refreshes, 2 sort orders, compaction above 1 run, a new ledger or one of 2 batches, 2 new ones, 1 end, 1 change of format | about 9.1 million |
| `fact_history` | are reads exact | 2 entities, 2 slots, 2 values, 1 reader, interval 2, 4 batches, 2 crashes | 377,784 |
| `partitioned_ledger` | do lookups find what threads stored beside each other | 2 threads, an object over 2 partitions and an event, compaction above 1 run, 5 operations, 1 fault | about 7.3 million |
| `session_inbox` | is any accepted note or decision lost | 2 writers, 3 notes of which 2 are allowed, lines of 3 and 4 bytes in a file of 10, one with a character of several bytes, 5 operations, 2 faults | about 5.2 million |
| `query_gateway` | do queries return what was committed, and their own answers | a query of 2 calls at a time, 2 workers, 2 partitions, 2 versions, 2 queries, 2 faults | about 3.1 million |
| `pass_manager` | are plans right, and skips | every dependency graph of 3 names and an unknown one, 3 runs, 1 change, 1 kill | 568,332 |

Why these bounds are enough to be interesting: three appends and segments of two frames give
a sealed segment, a non-empty active one behind it and a seal inside an append; two crashes
give a crash during the recovery from a crash, or a rewrite and a crash on either side of
it; one reader is enough because readers see each other only through a rewrite, after which
all that is claimed of them is `RefreshResolves`, of each reader alone. Two workers of one
shard are what a takeover needs, and a fault of any kind at any point is enough to lose each
message once. Two new batches on top of a compacted ledger give two compactions that merge
the result of an earlier one, and a change of format before them a heal in which the process
can end. Four batches with interval two give two checkpoints of one entity or one of each,
and cuts before, at, between and after them. An object in two partitions is what makes an
index entry incomplete, an event is what a rebuild does not find again, and five operations
are two appends, a rebuild or demotion, and a lookup beside them. Three notes of which two
are allowed reach the cap on entries; ten bytes are enough for three whole lines, but not
for what two processes that die in a line may leave in front of them, nor always for the
newline that repairs a torn one, and two faults let a process die while another cleans up
after the first. In `query_gateway` the two calls of one query share connections exactly as
two queries would, and the second query meets what the first has left; two threads with two
partitions each are not finished in minutes. Three names give every shape of cycle and a
level of two, and three runs are enough for one that records, one that is disturbed and one
that skips.

`CHECK_DEADLOCK FALSE` is in every configuration: a store nobody appends to, and a cluster
whose runs have ended, may stop.

### Properties that hold

* `AckedDurable`, `TxDense`, `SealedImmutable`: acknowledged frames are in the store,
  numbers continue without gap or repetition, a sealed segment is what the manifest says; all of
  it until a read-only open writes a segment anew (see below), which the run shows to be the only
  way to break it as long as writes do not fail (`write_error`).
* `ReaderPrefix`, `FreshAsOfStart`, `RefreshResolves`: a reader has decoded a gap-free
  prefix, no shorter than what was published when its operation began (both with the same
  exception), and knows the attributes of every frame it decoded (without it).
* `ImplementsAppendLog`: `SegmentStore` implements `AppendLog`, with the decodable frames
  as the log: batch number t of the sealed history where the manifest's ranges say it is,
  then the readable frames of the active segment. The truncation by a read-only open is the
  step `Spoil` of the log, behind which it promises nothing.
* `MarkerCovered`, `IndexComplete`, `ReaderComplete`: `last_tx` never promises a batch that
  is in no run, and runs and memtable hold everything, those of the writer and, but for the
  races named below, those of a reader in every sort order whose runs are still where and what
  they were when it opened them. That they are, nothing guarantees.
* `ReadsExact`, `NoRedundantVersion`, `ReaderHistory`: reads give back what was appended,
  appends are idempotent across processes, a reader's past is exact.
* `CommitFenced`, `OnlyOwnRelease`, `OkIsDurable`, `RegisteredBeforeCommitted`,
  `NoCrossTalk`, `RunEnds`: only the newest grant commits, nobody releases another's
  lease, a run that reports success is in the state file with all it wrote and is so
  before its generation is, the two tasks never read each other's answers (except an
  answer left behind by an aborted heartbeat), and every run ends.
* `ReadsFindAcked`, `SitesAreReal`, `DataIsListed`: a lookup by id reaches every partition
  in which the id was stored when it began, and only such; every partition with data is in
  `catalog.json`. Appends that met a kill, a failing write, a rebuild or the merge of a
  read-only open, or whose line went behind the fragment of a failed write, are excepted, because
  the code gives no guarantee there (see below).
* `AcceptedReachable`, `ExactInbox`, `ClaimsComplete`, `ReviewStands`: an accepted note is
  in the ledger or pending, unless a purge overlapped its write or its commit; deduplication and
  the cap on entries are exact, and the file is at most one byte longer than the cap on bytes; a
  claim has its evidence, relationships and events once its commit is over; a review is not undone.
* `OwnAnswer`, `FailsOnlyWithoutWorkers`, `ReadsCommitted`: every call gets its own answer,
  fails only if no worker was there throughout, and a query returns at least the version
  committed when it began. Answers of a connection on which a call was dropped, and of a
  handle older than its partition, are excepted.
* `DependenciesFirst`, `RefusedExactly`, `SkippedHasRun`: no pass comes before its
  dependencies; exactly the graphs with a cycle, an unknown or a doubled name are refused,
  and any other plan has every pass once; a skipped pass has succeeded as it is now.

### Disagreements between the code and what it says

Three are runs that TLC must find violated; `findings` in `PROJECT.json` quotes the lines.

* `seal_crash`: a process that ends between `save_manifest` and `write_head` leaves a
  store that every later open refuses, with all data intact.
* `write_error`: a failed write leaves a fragment in front of the next, acknowledged,
  frame, and recovery cuts both.
* `index_merge_crash`: compaction removes the old runs before the new one has its name.
  `IndexComplete` and `MarkerCovered` exclude such directories (`torn_dir`).

The others have no run of their own: the models follow the code, and where a property would
fail because of one of them, it names it as an exception.

* "A read-only open must not create `segments/`, take a write handle on the active segment, or
  rewrite `HEAD`" (`ledger/src/fact_ledger.rs:521`), yet `open_inner` does the last two on a local
  workspace if the first append to an active segment comes between its stat and its read
  (`ledger/src/segment/mod.rs:272`-`284`). The write is in place, without the lock and without a
  sync. A frame that is acknowledged between the read and the write is destroyed, a gap in the
  numbers with it; a segment that was sealed meanwhile no longer has its hash, so that reads of it
  end in `Corrupt`; a `HEAD` published meanwhile may go back to an older one, which refuses later
  opens. All properties of the store but `TypeOK` and `RefreshResolves` except stores to which this
  has happened (`rewritten`). The models of the index, the history and the partitions take the
  store as one to which it has not.
* An open run is re-opened by its path for every block (`ledger/src/index.rs:628`). A reader whose
  runs a compaction has removed gets `NotFound`, one whose `merged.run` was replaced reads the
  new file at the old offsets; and no refresh helps as long as `last_tx` is the one it knows
  (`fact_ledger.rs:596`-`608`). `ReaderComplete` says nothing of such a sort order.
* A reader that lists the runs before a flush and reads the marker after it lacks the
  flushed batches, and no refresh notices, since the marker is the one it has
  (`ledger/src/fact_ledger.rs:534` and `:542`; `ReaderComplete`).
* An open removes run files that it cannot read, a read-only one too
  (`ledger/src/index.rs:738`). It can hit a run that the writer has completed since, and
  runs of an older format: the error asks to "open writable once to self-heal", but the next
  writable open finds nothing unreadable and trusts the marker. A self-heal that ends after
  its open has removed files has the same effect.
* A reader's current state can come from a checkpoint past its snapshot, because
  checkpoints are loaded last (`ledger/src/fact_ledger.rs:574`; `ReaderHistory` is what
  remains true).
* Fencing tokens start again after a restart of the coordinator
  (`cluster/src/coordinator.rs:51`), so they are monotone only between restarts.
* Aborting the heartbeat leaves its answer for the next call on the connection
  (`cluster/src/worker.rs:146`), and `try_join_all` does the same to the calls it drops
  (`distributed/src/gateway.rs:320`).
* A query worker never refreshes a handle and never reconnects to the coordinator
  (`distributed/src/worker.rs:57` and `:60`).
* A process that ends inside a character of several bytes leaves a line that is not UTF-8.
  `read_entries` ends there (`session/src/inbox.rs:513`, `map_while(Result::ok)`) instead of
  skipping it, as its comment says ("Skips blank and undecodable lines, so a torn final line
  from a crash never poisons the rest", `:504`): notes accepted later are never read or
  committed. `AcceptedReachable` excepts files with such a line.
* Two waiters can both find one lock file stale, and the second removes the lock the first
  has just made (`session/src/inbox.rs:453`); a commit cut after a claim never writes the
  claim's relationships and events, since the claim is no longer fresh (`commit.rs:129`).
* A read-only open of the partitioned ledger merges run files and removes the old ones
  (`ledger/src/partitioned/mod.rs:441`), also the one a writer has open; a failing
  `persist_catalog` leaves the memory ahead of the file (`:774`); and an entry that is
  complete in memory hides partitions whose lines a kill has taken.
* A failing `writeln!` (`ledger/src/partitioned/mod.rs:589`) leaves what it has written of its line
  in a run file that stays open. The next record succeeds behind it, as part of the same line, and
  `load_index` ends there (`:557`): everything this process records later is lost at the next open,
  unless a rebuild comes first, and lookups by those ids then miss what was acknowledged.
* A purge takes no lock (`session/src/inbox.rs:352`), so it can unlink the file that an append has
  opened (`:292`) and not yet written: the note goes to the unlinked file and is `Accepted`.
  `AcceptedReachable` excepts it.
* The cap on bytes is checked for the new line (`session/src/inbox.rs:283`) and not for the newline
  that is written before it if the last line is torn (`:293`): the file can be one byte longer than
  `max_bytes_per_session`, which is what `ExactInbox` says.
* A parallel run neither consults nor records the cache and leaves the manager empty; a
  pass without cache inputs, which `pass.rs:95` says is always recomputed, is skipped on
  its second run (`cache.rs:52`).

### Fairness

Only `cluster_liveness` uses any. `Run(w)`, everything a run does by itself, is strongly
fair, because the connection's mutex is tokio's, which serves waiters in order, so the
heartbeat cannot overtake a waiting run for ever. The coordinator answers what is in its
connections and the heartbeat task makes its steps (weak fairness); the deadline of the
retry loop passes (`GiveUp`). Nothing is assumed of the environment, and faults are off:
a call has no timeout, so with a connection that hangs the property would be false.

## Proofs

`tlapm` checks the proof modules from nothing. Everything is proved for all values of the
constants under the named assumption of the component's module.

*SegmentStore_proofs.* There are two layers. `Formed` holds in every reachable state, whatever a
read-only open has rewritten: types, the numbering of the segments, and that every attribute in a
file or on its way into a reader is one the manifest names, since a rewrite moves frames and makes
none. `TypeOK` and `RefreshResolves` follow from it alone. Everything else is proved in the form
`~rewritten => ...`: `rewritten` never goes back, so an invariant of the states before it that every
step but `ReaderTruncate` preserves is enough, and `ReaderTruncate` itself makes the claim void.

`AckedDurable`, `TxDense` and `SealedImmutable` are
invariants in this form. None is inductive: durability of an
acknowledged frame depends on where the writer is. `IInv` says what the manifest says
about each sealed file (`SealedInv`), that only the last frame of the active segment can
be torn and the others continue the numbers (`ActiveInv`), what the handle's memory means
at each point of an append and a seal (`WriterInv`), and where an acknowledged frame is
(`AckedInv`: in a sealed segment or in the synced part of the active one). One lemma per
action; `PowerLoss` is the case that needs `synced`.

The readers take no lock, and what they have read may be old. `RInv` says that `HEAD` is behind
the manifest only between the two writes of a seal, and then the active segment is empty
(`HeadInv`), that the manifest names the attributes of every frame (`AttrInv`), and of every
handle (`HandleInv`) that its view is the segments before its own and the first `len` frames of
that (`ViewOk`), that the tail a refresh has read still follows in the file, up to a torn frame
(`TailOk`), and where the operation under way will find what was acknowledged before it began
(`StartOk`). `ReaderInvariance` proves it from `Grown`, what every step of the writer leaves to
a reader; `FreshAsOfStart`, `RefreshResolves` and `ReaderPrefix` follow. For the last,
`First(n)` is the number at which segment n begins: two frames with one number are in one
place, and each number below the end of a prefix is in it, by the least segment that begins
beyond the number.

`Refinement` proves `Spec => ImplementsAppendLog`. `MInv` adds that each number was given to an
append that was started (so that the new frame is one of `Batches`), that an append has one
pending batch, and that a reopen does not go back behind the handle's segment. The log as a
sequence (`LogSeq`) lists a set of frames numbered from 0 (`Dense`, `Lists`), and there is one
such list of a set; so a step is known by the set of whole frames it leaves: none new
(`NoNew`) and none lost (`Grown`) for every step of the writer but `WriteEnd`, which is `Add`;
`PublishHead` and `Roll` are `Acknowledge` when the append returns; `PowerLoss` leaves a
shorter list with all that was acknowledged, which is `LosePower`; each file a reader reads is
`Observe`, most of them of the prefix it had; `ReaderTruncate` is `Spoil`, and so is every later
step.

*FactHistory_proofs.* `TypeOK`, `ReadsExact`, `NoRedundantVersion` and `ReaderHistory` are
invariants. `IInv` says that each batch alone takes its entity from one version to the
next (`StepExact`), that every checkpoint in the file or a handle is a version
(`CheckpointsSound`), and that the writer knows all batches and caches only current
signatures (`HandleInv`). From these, `FoldExact`: a fold that starts from a version ends
in a version, by the least batch at which it could differ. `AppendNew` is the one action
that adds a batch; it reads the current state through the same fold, which is where exact
reads are needed to keep reads exact.

*PassManager_proofs.* `TypeOK`, `DependenciesFirst`, `RefusedExactly` and `SkippedHasRun` are
invariants for any number of passes and every graph. `IInv` says that everything placed has
its dependencies placed earlier (`PlanInv`), that what waits, waits for what is not placed
(`GraphInv`), that a run goes through its plan from left to right (`RunInv`), and that a
manifest is that of a run that succeeded (`CacheInv`). That a plan has no cycle follows from
the least place in it at which a cycle would begin; that a refused graph has one, from the
passes left over, which wait for each other.

*Cluster_proofs.* `TypeOK`, `OkIsDurable`, `RegisteredBeforeCommitted` and `NoCrossTalk` are
invariants, and `CommitFenced` and `OnlyOwnRelease` hold of every step, for any number of
workers, shards, restarts and faults. The assumption is that `Workers` is finite (a generation is
the number of runs in a store) and that `NoWhere`, which stands for a scope without a
partition, is none of the locations. `IInv` has four parts. `LineInv`: the mutex of a
connection means that at most one request is under way on it, and that it is the one the
waiting task sent. `StageInv`: what a run has been told so far is in the state file; at
"committing", say, its partition and its entities are, and if the answer is there and is not
an error, its generation too. `MemInv`: the state file lags behind the memory, and both only
grow, so that what it has once got stays. `LeaseInv` and `FenceInv`: the tokens of a process
start at zero, so that tokens of two lives of the coordinator cannot be compared; but
no connection survives its restart, and whoever is connected and has the newest token
received the newest grant.

*FactIndex_proofs.* `TypeOK`, `MarkerCovered`, `IndexComplete` and `ReaderComplete` are
invariants, for any number of sort orders, batches, readers and crashes. `NamesInv` says that
the name a flush takes is new in each order it has not done yet, `PlaceInv` where the
writer is, and `CoverInv` what the files, the runs in memory and the memtable cover at each
such place. The reader's promise needs most: a reader lists names and opens them later, and
between these the writer may have replaced, removed or written the file. `OpenInv` therefore
says of each name still to be opened that there is a file with the batch under it or
none that can be read (`Promised`), in which case the open fails, and that no run still to be
written will take the name (`Known`). What a handle has opened is then complete for good;
`ReaderComplete` claims of it only the sort orders of which all files are still there and the same
(`Readable`), and `IndexComplete` needs a last part of `CoverInv`, that the writer's own runs are.

*PartitionedLedger_proofs.* `TypeOK`, `ReadsFindAcked`, `SitesAreReal` and `DataIsListed` are
invariants, for any number of threads, items, partitions, operations and faults. `CatalogInv`:
`catalog.json` lags behind the catalog only by keys that could not be saved. `RealInv`: every
pair of an id and a partition in the map, in a run file, in a reader's copy or acknowledged is
true. `KnownInv`: the map has what was acknowledged, and what the map has a restart finds
again (`Safe`), since it is among the lines that are read of a run file or a thread is about to
record it, unless it is excused; a step that takes lines away, by a fragment or by gluing the next
line to one, puts exactly these among the excused (`Lost`), and what is left of a torn run
(`whole`) is as true as the rest; the ids of events
and evidence, which no rebuild scans, are the exception. An append, a lookup and a rebuild
under way know only what they have seen; `AppendInv`, `ReadInv` and `RebuildInv` say what that
is worth at each of their steps, and `Keeps` and `SafeKept` what every step of another thread
leaves of it. The assumption on the constants that matters: the id of an event or of evidence
belongs to one item, in one partition, because it is made with the time it is routed by.

*SessionInbox_proofs.* `TypeOK`, `AcceptedReachable`, `ExactInbox` and `ClaimsComplete` are
invariants and `ReviewStands` holds of every step, for any number of writers, notes,
operations and faults. `LockInv` and `FileInv`: unless a lock was stolen, one process at
most is between taking the lock and leaving it, and what it has checked about the file still
holds when it writes: the file is longer than the cap by the one repairing newline at most,
and what was accepted and not purged is in it. `CountInv` and `ReachInv`: the counter covers
only claims, and a commit under way has in its list what its total promises beyond them.
`TodoInv`: the list of a commit or a review is in an order in which whatever a process
leaves undone is a suffix that no claim written so far is bare without. `LedgerInv`: each
claim has its parts, or they are still in the list. The list of a commit is five lists
behind each other; what each puts, and where, is shown of `Kept`, the sequence of chosen
elements, by the least place at which it could fail. The attempt to prove `committed <=
MaxEntries` without a condition showed it to be false: after a stolen lock two processes can
both pass the cap.

*QueryGateway_proofs.* `TypeOK`, `OwnAnswer`, `FailsOnlyWithoutWorkers` and `ReadsCommitted`
are invariants, for any number of threads, workers, partitions, versions, queries and faults;
the assumption is that there is a worker and that partitions are finitely many, with their
bucket as number. `ConnInv`: the lock of a connection belongs to a call that is reading from
it, and unless a call was dropped there is at most one request or answer in the connection,
that of this call. `CallInv`: a worker that was there throughout a call is not among those the
rotation has left behind (`Passed`), and a connection that the call made itself lives as long
as its worker was not disturbed; so the last worker fails only if none was there throughout.
`PubInv`: data, catalog, index and generation are written in this order, and the partitions
newer than the one being written have nothing. From it `CoverInv`: some partition of a query has
a version that is new enough, and whatever the calls for it and for newer partitions
have found, or have still to read, is an error, new enough or, for the newer ones, nothing;
hence the newest partition that decides is right. The frame lemmas (`LocalStep`, `CoverStill`)
are stated once for the calls and connections a step may change.

TLC found these invariants of the instances of the runs before they were proved.

Only model-checked: liveness (`RunEnds`), which is out of the prover's reach, and the three
runs that end in a counterexample.

## Not modelled

Most of the repository's 226,000 lines are parsers, language plugins, semantic passes,
generators, migration tooling and the command line: pure transformations whose inputs
cannot be enumerated in any useful number, or input and output. `PROJECT.json` lists them
with the reason. They have no state that steps of several actors could bring out of
order, and a model of them would be a copy; their place is in the fixtures the repository
has. Migration approval is a check and an append by a single process. SQLite, tantivy and
object stores are external.

Of the modelled parts: dictionaries of the segment store and the copies of its files for
readers on other machines (of what a reader on the same machine does to the files, see
*SegmentStore*); the codec of index runs; the search and vector indexes and provenance; the
reads of the coordinator's tables; broad reads, search and vacuum of the partitioned ledger;
materialisation of partitions from an object store and the merging of ranked results in the
gateway; redaction, anchors, capture from transcripts, brief and recall of the session
memory.

## Plan

1. Failing seals in `FactHistory`: an append that fails after its batch is durable leaves the
   memtable and the signatures behind the store. That is a composition of `SegmentStoreFaults`
   with `FactHistory`.
2. With it, a theorem on what a handle still promises after such a failure.
