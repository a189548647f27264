------------------------- MODULE PartitionedLedger -------------------------
(***************************************************************************)
(* The partitioned ledger (ledger/src/partitioned/mod.rs): appends routed  *)
(* to one fact ledger per partition, catalog.json with the partitions, and *)
(* the run files index/run-*.jsonl that say in which partitions an id is.  *)
(*                                                                         *)
(* Threads of one writing process append, look ids up, rebuild the index   *)
(* and demote partitions.  No two of the locks are held at once, so every  *)
(* action below is what one thread does under one lock, and all else may   *)
(* happen in between.  Another process may open the ledger for reading,    *)
(* which merges run files too.  A partition is a durable set of items      *)
(* here: what a fact ledger does with them is the matter of SegmentStore   *)
(* and FactIndex.                                                          *)
(***************************************************************************)
EXTENDS Naturals, Sequences, FiniteSets

CONSTANTS
  Threads,
  Items,      \* objects, relationships, events, evidence
  Ids,        \* what the index maps from: the items' ids and, of relationships, the end points
  Keys,       \* PartitionKeys, in their order
  Entries,    \* Entries[i]: the ids under which an append of i is indexed, in the code's order
  KeysOf,     \* KeysOf[i]: the keys that versions of i may be routed to
  Scanned,    \* the ids rebuild_entity_index finds again: all but those of events and evidence
  CompactAt,  \* COMPACT_AT
  MaxOps,     \* bound: operations begun
  MaxFaults   \* bound: kills and failing calls

EntriesOf(i) == {Entries[i][n] : n \in DOMAIN Entries[i]}

ASSUME PartitionAssumption ==
  /\ Keys \subseteq Nat /\ CompactAt \in Nat /\ MaxOps \in Nat /\ MaxFaults \in Nat
  /\ Entries \in [Items -> Seq(Ids)]
  /\ KeysOf \in [Items -> SUBSET Keys]
  /\ Scanned \subseteq Ids
  \* the id of an event or of evidence is its own, and the time it is routed by does not change
  /\ \A i, j \in Items : \A x \in (EntriesOf(i) \cap EntriesOf(j)) \ Scanned :
       \A k \in KeysOf[i], l \in KeysOf[j] : k = l

VARIABLES
  parts,     \* parts[k]: the items in the partition at k, on disk
  saved,     \* catalog.json: registered key -> tier
  runs,      \* index/run-<n>.jsonl: n -> the lines <<id, key>> that load_index reads of it
  catalog,   \* the catalog in memory
  open,      \* keys with a handle in the map of open partitions
  sites,     \* id -> its partitions, for ids with an entry; entries are always complete
  next_run,  \* IndexWriter.next_run
  current,   \* IndexWriter.current: "none", run next_run is "open", or it is and ends with a
             \* fragment ("torn"), or what is open has no name ("unlinked")
  whole,     \* the lines of a torn run before its fragment
  th,        \* th[t]: the operation of thread t
  acked,     \* history: <<id, key>> of appends that returned Ok
  reader,    \* what a read-only open has read of the index so far, or NoReader
  exposed,   \* history: <<id, key>> of appends that met a kill, a rebuild or the merge of a
             \* read-only open, or whose line could not be written or went behind a fragment
  unsaved,   \* history: keys for which saving the catalog failed
  ops, faults

disk == <<parts, saved, runs>>
handles == <<catalog, open>>
writer == <<next_run, current, whole>>
history == <<acked, exposed, unsaved>>
bounds == <<ops, faults>>
process == <<handles, sites, writer>>
vars == <<disk, process, th, reader, history, bounds>>

None == [pc |-> "idle"]
NoReader == [reading |-> FALSE]

Lines(i, k) == EntriesOf(i) \X {k}

\* What an append under way, whatever it has done so far, will have indexed.
InFlight(t) == IF th[t].pc \in {"lookup", "register", "open", "append", "insert", "record"}
                 THEN Lines(th[t].item, th[t].key) ELSE {}
Rebuilding == \E t \in Threads : th[t].pc \in {"rebuild", "collapse", "replace"}

\* An id's partitions as the index in memory has them.
SitesOf(x) == IF x \in DOMAIN sites THEN sites[x] ELSE {}
Put(f, x, v) == [y \in DOMAIN f \cup {x} |-> IF y = x THEN v ELSE f[y]]

\* The handles a thread has in its hands, whose write.lock they keep.
Arcs(t) == IF th[t].pc \in {"append", "insert", "record"} THEN {th[t].key}
           ELSE IF th[t].pc \in {"check", "rebuild"} THEN th[t].arcs
           ELSE {}

\* acquire_write_lock finds the lock taken: a handle that is no longer in the map lives on.
Locked(k) == k \notin open /\ \E t \in Threads : k \in Arcs(t)

-----------------------------------------------------------------------------
(* Opening *)

AllLines(rs) == UNION {rs[n] : n \in DOMAIN rs}

\* load_index folds all runs into one map, and new marks every entry complete.
Loaded(rs) ==
  LET lines == AllLines(rs)
  IN  [x \in {l[1] : l \in lines} |-> {l[2] : l \in {m \in lines : m[1] = x}}]
NextRun(rs) == IF DOMAIN rs = {} THEN 1
               ELSE 1 + CHOOSE n \in DOMAIN rs : \A m \in DOMAIN rs : m <= n

\* new merges all runs into one once there are CompactAt of them.
Compacted(rs) ==
  IF Cardinality(DOMAIN rs) >= CompactAt /\ AllLines(rs) # {}
    THEN [n \in {NextRun(rs)} |-> AllLines(rs)]
    ELSE rs

\* The state of a process that has just called new.
Opened ==
  /\ runs' = Compacted(runs)
  /\ catalog' = saved /\ open' = {} /\ sites' = Loaded(runs)
  /\ next_run' = NextRun(Compacted(runs)) /\ current' = "none" /\ whole' = {}
  /\ th' = [t \in Threads |-> None]

\* The process ends when all its work is done, and another one opens the ledger.
Reopen ==
  /\ \A t \in Threads : th[t].pc \in {"idle", "done"}
  /\ ops < MaxOps /\ ops' = ops + 1
  /\ Opened
  /\ UNCHANGED <<parts, saved, history, reader, faults>>

\* The process is killed wherever its threads are. What it has written is with the OS.
Kill ==
  /\ faults < MaxFaults /\ faults' = faults + 1
  /\ exposed' = exposed \cup UNION {InFlight(t) : t \in Threads}
  /\ Opened
  /\ UNCHANGED <<parts, saved, acked, unsaved, reader, ops>>

-----------------------------------------------------------------------------
(* partition *)

\* The operation of t returns Err.
Fail(t) == th' = [th EXCEPT ![t] = None]

\* The map of open partitions is asked first.
Lookup(t) ==
  /\ th[t].pc = "lookup"
  /\ th' = [th EXCEPT ![t].pc = IF th[t].key \in open THEN "append" ELSE "register"]
  /\ UNCHANGED <<disk, process, history, reader, bounds>>

\* The catalog entry of k after an access: registered, and hot.
Accessed(ks) == [k \in DOMAIN catalog \cup ks |-> IF k \in ks THEN "hot" ELSE catalog[k]]

\* Mutation of Register: a partition's directory is opened without an entry of its own.
MRegisterNot(t) ==
  /\ th[t].pc = "register"
  /\ th' = [th EXCEPT ![t].pc = "open"]
  /\ UNCHANGED <<disk, process, history, reader, bounds>>

\* Mutation of Register: the catalog is saved at a promotion only.
MRegister(t) ==
  /\ th[t].pc = "register"
  /\ catalog' = Accessed({th[t].key})
  /\ saved' = IF th[t].key \in DOMAIN catalog THEN catalog' ELSE saved
  /\ th' = [th EXCEPT ![t].pc = "open"]
  /\ UNCHANGED <<parts, runs, open, sites, writer, history, reader, bounds>>

\* Under the catalog lock: the entry is added or promoted, and the catalog saved if it changed.
Register(t) ==
  /\ th[t].pc = "register"
  /\ catalog' = Accessed({th[t].key})
  /\ saved' = IF catalog' = catalog THEN saved ELSE catalog'
  /\ th' = [th EXCEPT ![t].pc = "open"]
  /\ UNCHANGED <<parts, runs, open, sites, writer, history, reader, bounds>>

\* persist_catalog fails: the entry stays in memory.
RegisterFails(t) ==
  /\ th[t].pc = "register" /\ faults < MaxFaults /\ faults' = faults + 1
  /\ catalog' = Accessed({th[t].key}) /\ catalog' # catalog
  /\ Fail(t)
  /\ unsaved' = unsaved \cup {th[t].key}
  /\ UNCHANGED <<disk, open, sites, writer, acked, exposed, reader, ops>>

\* FactLedger::open, and the handle goes into the map. Another thread may have been faster:
\* its handle has the lock of the partition.
OpenPartition(t) ==
  /\ th[t].pc = "open"
  /\ \/ /\ th[t].key \notin open /\ ~Locked(th[t].key)
        /\ open' = open \cup {th[t].key}
        /\ th' = [th EXCEPT ![t].pc = "append"]
     \/ /\ th[t].key \in open \/ Locked(th[t].key)
        /\ Fail(t) /\ open' = open
  /\ UNCHANGED <<disk, catalog, sites, writer, history, reader, bounds>>

\* catalog_snapshot opens the partitions of the catalog for a thread that will scan them, or
\* fails at one whose lock is taken.
Snapshot(t, next) ==
  \/ /\ \A k \in DOMAIN catalog : ~Locked(k)
     /\ open' = open \cup DOMAIN catalog
     /\ catalog' = Accessed(DOMAIN catalog \ open)
     /\ saved' = IF catalog' = catalog THEN saved ELSE catalog'
     /\ th' = [th EXCEPT ![t] = next]
  \/ /\ \E k \in DOMAIN catalog : Locked(k)
     /\ Fail(t) /\ UNCHANGED <<open, catalog, saved>>

-----------------------------------------------------------------------------
(* append_object, append_relationship, append_event and append_evidence *)

\* key_for and its siblings route by the item's own time and kind.
BeginAppend(t, i, k) ==
  /\ th[t].pc \in {"idle", "done"} /\ k \in KeysOf[i]
  /\ ops < MaxOps /\ ops' = ops + 1
  /\ th' = [th EXCEPT ![t] = [pc |-> "lookup", item |-> i, key |-> k, n |-> 1]]
  /\ exposed' = exposed \cup (IF Rebuilding THEN Lines(i, k) ELSE {})
  /\ UNCHANGED <<disk, process, acked, unsaved, reader, faults>>

Append_(t) ==
  /\ th[t].pc = "append"
  /\ parts' = [parts EXCEPT ![th[t].key] = @ \cup {th[t].item}]
  /\ th' = [th EXCEPT ![t].pc = "insert"]
  /\ UNCHANGED <<saved, runs, process, history, reader, bounds>>

\* Mutation of AppendFails: the error is not passed on, and the item is indexed all the same.
MAppendFails(t) ==
  /\ th[t].pc = "append" /\ faults < MaxFaults /\ faults' = faults + 1
  /\ th' = [th EXCEPT ![t].pc = "insert"]
  /\ UNCHANGED <<disk, process, history, reader, ops>>

\* The fact ledger returns an error, before or after the item became durable.
AppendFails(t) ==
  /\ th[t].pc = "append" /\ faults < MaxFaults /\ faults' = faults + 1
  /\ \/ parts' = [parts EXCEPT ![th[t].key] = @ \cup {th[t].item}]
     \/ parts' = parts
  /\ Fail(t)
  /\ UNCHANGED <<saved, runs, process, history, reader, ops>>

Returned(t) == [th EXCEPT ![t] = None]

\* insert_site: an id that has no entry gets a complete one. A new pair is recorded next.
InsertSite(t) ==
  LET x == Entries[th[t].item][th[t].n] IN
  /\ th[t].pc = "insert" /\ th[t].n <= Len(Entries[th[t].item])
  /\ sites' = Put(sites, x, SitesOf(x) \cup {th[t].key})
  /\ th' = [th EXCEPT ![t].pc = IF th[t].key \in SitesOf(x) THEN "insert" ELSE "record",
                      ![t].n = IF th[t].key \in SitesOf(x) THEN @ + 1 ELSE @]
  /\ UNCHANGED <<disk, handles, writer, history, reader, bounds>>

Content(rs, n) == IF n \in DOMAIN rs THEN rs[n] ELSE {}

\* A rebuild has the writer locked.
Collapsing == \E t \in Threads : th[t].pc = "collapse"

\* Lines that load_index would have read, but for this step.
Lost(lines) == (AllLines(runs) \cup lines) \ AllLines(runs')

\* record and IndexWriter::file: lines go to the run of this process, which the first of them
\* opens, or to a file that has lost its name. A line behind a fragment becomes part of it, and
\* load_index reads no line of the run from there on.
Write(lines) ==
  /\ ~Collapsing
  /\ runs' = IF lines = {} \/ current = "unlinked" THEN runs
             ELSE Put(runs, next_run, IF current = "torn" THEN whole
                                      ELSE Content(runs, next_run) \cup lines)
  /\ current' = IF lines # {} /\ current = "none" THEN "open" ELSE current
  /\ exposed' = exposed \cup Lost(lines)
  /\ whole' = whole

\* record fails with the file it cannot open, or with line l: nothing of it is in the file, or a
\* part, which may be all but its newline.
WriteFails(lines) ==
  /\ ~Collapsing
  /\ \/ current \in {"none", "unlinked"} /\ UNCHANGED <<runs, current, whole>>
     \/ \E l \in lines :
          LET before == {m \in lines : m[2] < l[2]}
              content == Content(runs, next_run) \cup before
          IN
          \/ /\ current \in {"none", "open"}
             /\ \/ /\ runs' = Put(runs, next_run, content)
                   /\ current' = "open" /\ whole' = whole
                \/ /\ \E tail \in {{}, {l}} : runs' = Put(runs, next_run, content \cup tail)
                   /\ current' = "torn" /\ whole' = content
          \/ /\ current = "torn" /\ UNCHANGED <<current, whole>>
             /\ \/ before = {} /\ runs' = runs
                \/ runs' = Put(runs, next_run, whole)

Record(t) ==
  /\ th[t].pc = "record"
  /\ Write({<<Entries[th[t].item][th[t].n], th[t].key>>})
  /\ th' = [th EXCEPT ![t].pc = "insert", ![t].n = @ + 1]
  /\ UNCHANGED <<parts, saved, handles, sites, next_run, acked, unsaved, reader, bounds>>

\* The line cannot be written: the append fails, but its pair is known in memory.
RecordFails(t) ==
  /\ th[t].pc = "record" /\ faults < MaxFaults /\ faults' = faults + 1
  /\ WriteFails({<<Entries[th[t].item][th[t].n], th[t].key>>})
  /\ exposed' = exposed \cup InFlight(t) \cup Lost({})
  /\ Fail(t)
  /\ UNCHANGED <<parts, saved, handles, sites, next_run, acked, unsaved, reader, ops>>

EndAppend(t) ==
  /\ th[t].pc = "insert" /\ th[t].n > Len(Entries[th[t].item])
  /\ acked' = acked \cup InFlight(t)
  /\ th' = Returned(t)
  /\ UNCHANGED <<disk, process, exposed, unsaved, reader, bounds>>

-----------------------------------------------------------------------------
(* resolve_sites: every lookup by id *)

\* The fast path answers from the map; without an entry the catalog is scanned.
BeginRead(t, x) ==
  /\ th[t].pc \in {"idle", "done"}
  /\ ops < MaxOps /\ ops' = ops + 1
  /\ LET must == {l[2] : l \in {m \in acked : m[1] = x}} IN
     IF x \in DOMAIN sites
       THEN /\ th' = [th EXCEPT ![t] = [pc |-> "done", id |-> x, must |-> must,
                                        found |-> sites[x]]]
            /\ UNCHANGED <<open, catalog, saved>>
       ELSE Snapshot(t, [pc |-> "check", id |-> x, must |-> must, found |-> {},
                         left |-> DOMAIN catalog, arcs |-> DOMAIN catalog])
  /\ UNCHANGED <<parts, runs, sites, writer, history, reader, faults>>

Least(ks) == CHOOSE k \in ks : \A l \in ks : k <= l
Holds(k, x) == \E i \in parts[k] : x \in EntriesOf(i)

\* One partition is asked whether it has the id.
Check(t) ==
  /\ th[t].pc = "check" /\ th[t].left # {}
  /\ LET k == Least(th[t].left) IN
     th' = [th EXCEPT ![t].left = @ \ {k},
                      ![t].found = @ \cup IF Holds(k, th[t].id) THEN {k} ELSE {}]
  /\ UNCHANGED <<disk, process, history, reader, bounds>>

\* What was found and is not known is recorded ...
Unknown(t) == {th[t].id} \X (th[t].found \ SitesOf(th[t].id))

Heal(t) ==
  /\ th[t].pc = "check" /\ th[t].left = {}
  /\ Write(Unknown(t))
  /\ th' = [th EXCEPT ![t] = [pc |-> "merge", id |-> @.id, must |-> @.must, found |-> @.found]]
  /\ UNCHANGED <<parts, saved, handles, sites, next_run, acked, unsaved, reader, bounds>>

\* ... or the lookup fails, and with it the entry is not made.
HealFails(t) ==
  /\ th[t].pc = "check" /\ th[t].left = {} /\ Unknown(t) # {}
  /\ faults < MaxFaults /\ faults' = faults + 1
  /\ WriteFails(Unknown(t))
  /\ exposed' = exposed \cup Lost({})
  /\ Fail(t)
  /\ UNCHANGED <<parts, saved, handles, sites, next_run, acked, unsaved, reader, ops>>

\* Mutation of Merge: the scan replaces what appends have put there meanwhile.
MMerge(t) ==
  /\ th[t].pc = "merge"
  /\ sites' = Put(sites, th[t].id, th[t].found)
  /\ th' = [th EXCEPT ![t].pc = "done", ![t].found = sites'[th[t].id]]
  /\ UNCHANGED <<disk, handles, writer, history, reader, bounds>>

\* The entry takes in what was found and is complete from now on.
Merge(t) ==
  /\ th[t].pc = "merge"
  /\ sites' = Put(sites, th[t].id, SitesOf(th[t].id) \cup th[t].found)
  /\ th' = [th EXCEPT ![t].pc = "done", ![t].found = sites'[th[t].id]]
  /\ UNCHANGED <<disk, handles, writer, history, reader, bounds>>

-----------------------------------------------------------------------------
(* rebuild_entity_index *)

BeginRebuild(t) ==
  /\ th[t].pc \in {"idle", "done"}
  /\ ops < MaxOps /\ ops' = ops + 1
  /\ Snapshot(t, [pc |-> "rebuild", fresh |-> {},
                  left |-> DOMAIN catalog, arcs |-> DOMAIN catalog])
  /\ exposed' = exposed \cup UNION {InFlight(u) : u \in Threads}
  /\ UNCHANGED <<parts, runs, sites, writer, acked, unsaved, reader, faults>>

\* all_objects and all_relationships of one partition; events and evidence are not listed.
Rescan(t) ==
  /\ th[t].pc = "rebuild" /\ th[t].left # {}
  /\ LET k == Least(th[t].left) IN
     th' = [th EXCEPT ![t].left = @ \ {k},
                      ![t].fresh = @ \cup {x \in Scanned : Holds(k, x)} \X {k}]
  /\ UNCHANGED <<disk, process, history, reader, bounds>>

\* With the writer locked, the new index is written as the run of this process ...
WriteFresh(t) ==
  /\ th[t].pc = "rebuild" /\ th[t].left = {}
  /\ ~Collapsing
  /\ runs' = Put(runs, next_run, th[t].fresh)
  /\ th' = [th EXCEPT ![t] = [pc |-> "collapse", fresh |-> @.fresh]]
  /\ UNCHANGED <<parts, saved, process, history, reader, bounds>>

\* ... and all others are removed.
Collapse(t) ==
  /\ th[t].pc = "collapse"
  /\ runs' = [n \in DOMAIN runs \cap {next_run} |-> runs[n]]
  /\ exposed' = exposed \cup (th[t].fresh \ AllLines(runs'))
  /\ next_run' = next_run + 1 /\ current' = "none" /\ whole' = {}
  /\ th' = [th EXCEPT ![t].pc = "replace"]
  /\ UNCHANGED <<parts, saved, handles, sites, acked, unsaved, reader, bounds>>

\* The maps are replaced, those of events and evidence excepted.
Replace(t) ==
  LET fresh == th[t].fresh
      ids == {l[1] : l \in fresh}
  IN
  /\ th[t].pc = "replace"
  /\ sites' = [x \in ids \cup (DOMAIN sites \ Scanned) |->
                 IF x \in Scanned THEN {l[2] : l \in {m \in fresh : m[1] = x}} ELSE sites[x]]
  /\ th' = Returned(t)
  /\ UNCHANGED <<disk, handles, writer, history, reader, bounds>>

-----------------------------------------------------------------------------
(* mark_cold_before *)

\* Under the catalog lock, the partitions before the cutoff become cold ...
MarkCold(t, cutoff) ==
  LET demoted == {k \in DOMAIN catalog : k < cutoff /\ catalog[k] = "hot"} IN
  /\ th[t].pc \in {"idle", "done"} /\ demoted # {}
  /\ ops < MaxOps /\ ops' = ops + 1
  /\ catalog' = [k \in DOMAIN catalog |-> IF k \in demoted THEN "cold" ELSE catalog[k]]
  /\ saved' = catalog'
  /\ th' = [th EXCEPT ![t] = [pc |-> "evict", left |-> demoted]]
  /\ UNCHANGED <<parts, runs, open, sites, writer, history, reader, faults>>

\* ... and their handles leave the map.
Evict(t) ==
  /\ th[t].pc = "evict"
  /\ open' = open \ th[t].left
  /\ th' = Returned(t)
  /\ UNCHANGED <<disk, catalog, sites, writer, history, reader, bounds>>

-----------------------------------------------------------------------------
(* A process that opens the ledger for reading also calls new *)

ReaderLoads ==
  /\ ~reader.reading /\ ops < MaxOps /\ ops' = ops + 1
  /\ Compacted(runs) # runs
  /\ reader' = [reading |-> TRUE, runs |-> runs]
  /\ UNCHANGED <<disk, process, th, history, faults>>

\* It writes the merged run and removes the files it has read, whoever has them open.
ReaderCompacts ==
  LET read == reader.runs
      merged == NextRun(read)
  IN
  /\ reader.reading /\ reader' = NoReader
  /\ runs' = [n \in (DOMAIN runs \ DOMAIN read) \cup {merged} |->
                IF n = merged THEN AllLines(read) ELSE runs[n]]
  /\ IF current \in {"open", "torn"} /\ next_run \in DOMAIN read \cup {merged}
       THEN current' = "unlinked" /\ whole' = {}
       ELSE UNCHANGED <<current, whole>>
  /\ exposed' = exposed \cup Lost({})
  /\ UNCHANGED <<parts, saved, handles, sites, next_run, th, acked, unsaved, bounds>>

-----------------------------------------------------------------------------
Nothing == [x \in {} |-> {}]

Init ==
  /\ parts = [k \in Keys |-> {}] /\ saved = Nothing /\ runs = Nothing
  /\ catalog = Nothing /\ open = {} /\ sites = Nothing
  /\ next_run = 1 /\ current = "none" /\ whole = {} /\ reader = NoReader
  /\ th = [t \in Threads |-> None]
  /\ acked = {} /\ exposed = {} /\ unsaved = {} /\ ops = 0 /\ faults = 0

Step(t) ==
  \/ \E i \in Items : \E k \in Keys : BeginAppend(t, i, k)
  \/ Lookup(t) \/ Register(t) \/ RegisterFails(t) \/ OpenPartition(t)
  \/ Append_(t) \/ AppendFails(t) \/ InsertSite(t) \/ Record(t) \/ RecordFails(t) \/ EndAppend(t)
  \/ \E x \in Ids : BeginRead(t, x)
  \/ Check(t) \/ Heal(t) \/ HealFails(t) \/ Merge(t)
  \/ BeginRebuild(t) \/ Rescan(t) \/ WriteFresh(t) \/ Collapse(t) \/ Replace(t)
  \/ \E k \in Keys : MarkCold(t, k)
  \/ Evict(t)

Next == Reopen \/ Kill \/ ReaderLoads \/ ReaderCompacts \/ \E t \in Threads : Step(t)
Spec == Init /\ [][Next]_vars

-----------------------------------------------------------------------------
(* Properties *)

\* What the variables hold.
TypeOK ==
  /\ parts \in [Keys -> SUBSET Items]
  /\ DOMAIN saved \subseteq Keys /\ DOMAIN catalog \subseteq Keys
  /\ \A k \in DOMAIN saved : saved[k] \in {"hot", "cold"}
  /\ \A k \in DOMAIN catalog : catalog[k] \in {"hot", "cold"}
  /\ open \subseteq DOMAIN catalog
  /\ DOMAIN runs \subseteq Nat /\ \A n \in DOMAIN runs : runs[n] \subseteq Ids \X Keys
  /\ DOMAIN sites \subseteq Ids /\ \A x \in DOMAIN sites : sites[x] \subseteq Keys
  /\ next_run \in Nat /\ current \in {"none", "open", "torn", "unlinked"}
  /\ whole \subseteq Ids \X Keys
  /\ acked \subseteq Ids \X Keys /\ exposed \subseteq Ids \X Keys /\ unsaved \subseteq Keys

\* A lookup by id (get_object, object_history, relationships_for ...) reaches every partition in
\* which the id had been stored when the lookup began, whatever appends, rebuilds and restarts
\* happen beside it. The appends excepted are those that met a kill, a rebuild or the merge of a
\* read-only open, those whose line in the index could not be written or went behind what such a
\* failure had left in the run file, and those to a partition for which saving the catalog failed.
ReadsFindAcked ==
  \A t \in Threads : th[t].pc = "done" =>
    \A k \in th[t].must : k \in th[t].found \/ <<th[t].id, k>> \in exposed \/ k \in unsaved

\* A lookup never names a partition that does not have the id.
SitesAreReal ==
  \A t \in Threads : th[t].pc = "done" => \A k \in th[t].found : Holds(k, th[t].id)

\* Every partition with data in it is in catalog.json, so that reads of everything find it after
\* a restart, unless saving the catalog for it failed.
DataIsListed ==
  \A k \in Keys : parts[k] # {} => k \in DOMAIN saved \cup unsaved
=============================================================================
