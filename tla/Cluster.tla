------------------------------ MODULE Cluster ------------------------------
(***************************************************************************)
(* The coordinator of ekos-cluster and its compile workers: write leases   *)
(* with fencing tokens, the partition catalog, the entity index and the    *)
(* committed watermarks (cluster/src/{lease,coordinator,client,worker}.rs  *)
(* and cli/src/commands/cluster.rs).                                       *)
(*                                                                         *)
(* A worker is one `ekos compile-worker run` process with one connection.  *)
(* Two tasks share that connection, the run itself and its heartbeat, so a *)
(* request may wait in the connection while the lease behind it expires,   *)
(* is taken over, or the coordinator restarts.  Wall-clock time appears    *)
(* only as the moment at which a lease stops (or, when the clock is set    *)
(* back, starts again) being live.                                         *)
(***************************************************************************)
EXTENDS Naturals, Sequences, FiniteSets

CONSTANTS Workers,      \* compile-worker processes
          Shards,       \* the names leases are granted on
          Holders,      \* "compile-worker-<pid>": two hosts may have the same pid
          Locations,    \* where a workspace keeps the partition
          Deployments,  \* what the processes may have been started with
          MaxFaults     \* bound: restarts and failing writes of the coordinator, deaths and
                        \* failing counts of workers and broken connections, together

AnyDeployment == [Workers -> [holder : Holders, location : Locations, shard : Shards]]

NoWhere == "unregistered"

ASSUME ConstantsAssumption ==
  /\ IsFiniteSet(Workers) /\ NoWhere \notin Locations
  /\ MaxFaults \in Nat /\ Deployments \subseteq AnyDeployment

VARIABLES
  active,      \* LeaseTable.active: shard -> lease, or NoLease
  next_token,  \* LeaseTable.next_token
  mem,         \* catalog, entity_partitions and watermarks of the running coordinator
  disk,        \* ... and the state file
  conn,        \* conn[w]: the connection of worker w, with what is under way in it
  wk,          \* wk[w]: the run_shard call of worker w
  store,       \* store[l]: the runs whose pipeline has committed to the workspace at l
  faults,      \* faults so far
  grants,      \* history: grants ever made for a shard, by any coordinator process
  committed    \* history: workers whose ManifestCommit was accepted

coordinator == <<active, next_token, mem, disk>>
vars == <<active, next_token, mem, disk, conn, wk, store, faults, grants, committed>>

NoLease == [holder |-> "nobody", token |-> 0, live |-> FALSE]

\* One partition stands for those a run writes: catalog is where it is registered.
\* An entity is one run's output: entities are those with an entry in entity_partitions.
Empty == [catalog |-> NoWhere, entities |-> {}, watermarks |-> [s \in Shards |-> 0]]

Disconnected == [up |-> FALSE, req |-> <<>>, resp |-> <<>>]

\* A process that was started with d: a pid, a workspace and a shard.
Fresh(d) ==
  [holder |-> d.holder, location |-> d.location, shard |-> d.shard, pc |-> "start", hb |-> "off",
   lost |-> FALSE, token |-> 0, serial |-> 0, todo |-> {},
   watermark |-> 0, result |-> "none"]

Init ==
  /\ active = [s \in Shards |-> NoLease]
  /\ next_token = [s \in Shards |-> 0]
  /\ mem = Empty /\ disk = Empty
  /\ conn = [w \in Workers |-> Disconnected]
  /\ \E d \in Deployments : wk = [w \in Workers |-> Fresh(d[w])]
  /\ store = [l \in Locations |-> {}] /\ faults = 0
  /\ grants = [s \in Shards |-> 0] /\ committed = {}

-----------------------------------------------------------------------------
(* LeaseTable *)

\* A live lease of somebody else is in the way.
AlreadyLeased(s, h) == active[s].live /\ active[s].holder # h

\* Mutation of Check: whoever has the holder's name may go on.
MCheck(s, h, t) == IF active[s].live /\ active[s].holder = h THEN "ok" ELSE "expired"

\* The fencing check of every mutating call.
Check(s, h, t) ==
  IF active[s].token > t THEN "fenced"
  ELSE IF active[s].holder = h /\ active[s].token = t /\ active[s].live THEN "ok"
  ELSE "expired"

-----------------------------------------------------------------------------
(* Coordinator::handle, one request of one connection at a time *)

Request(op, e) == [op |-> op, entity |-> e]
Fault == faults < MaxFaults /\ faults' = faults + 1

Incoming(w, op) == conn[w].req # <<>> /\ Head(conn[w].req).op = op

\* The response line; nobody is left to read it when the connection is gone.
Answer(w, status, token, serial) ==
  LET r == Head(conn[w].req)
  IN  conn' = [conn EXCEPT ![w].req = Tail(@),
                           ![w].resp = IF conn[w].up
                                         THEN Append(@, [op |-> r.op, status |-> status,
                                                         token |-> token, serial |-> serial])
                                         ELSE @]

\* Mutation of Persisted: an error of the state file goes unreported.
MPersisted(w, m) ==
  /\ mem' = m
  /\ \/ disk' = m /\ UNCHANGED faults
     \/ Fault /\ UNCHANGED disk
  /\ Answer(w, "ok", 0, 0)

\* The state file is written before the answer goes out; when that fails the caller is
\* told, and memory keeps what the file has not got.
Persisted(w, m) ==
  /\ mem' = m
  /\ \/ disk' = m /\ UNCHANGED faults /\ Answer(w, "ok", 0, 0)
     \/ Fault /\ UNCHANGED disk /\ Answer(w, "error", 0, 0)

LeaseAcquire(w) ==
  LET s == wk[w].shard
      h == wk[w].holder
  IN  /\ Incoming(w, "acquire")
      /\ IF AlreadyLeased(s, h)
           THEN Answer(w, "already", 0, 0) /\ UNCHANGED <<active, next_token, grants>>
           ELSE /\ next_token' = [next_token EXCEPT ![s] = @ + 1]
                /\ active' = [active EXCEPT ![s] = [holder |-> h, token |-> next_token'[s], live |-> TRUE]]
                /\ grants' = [grants EXCEPT ![s] = @ + 1]
                /\ Answer(w, "lease", next_token'[s], grants'[s])
      /\ UNCHANGED <<mem, disk, wk, store, faults, committed>>

LeaseRenew(w) ==
  /\ Incoming(w, "renew")
  /\ LET c == Check(wk[w].shard, wk[w].holder, wk[w].token)
     IN  IF c = "ok" THEN Answer(w, "lease", wk[w].token, wk[w].serial) ELSE Answer(w, c, 0, 0)
  /\ UNCHANGED <<coordinator, wk, store, faults, grants, committed>>

\* Mutation of Released: whatever lease the shard has is removed.
MReleased(w) == TRUE

Released(w) ==
  LET l == active[wk[w].shard] IN l.holder = wk[w].holder /\ l.token = wk[w].token

LeaseRelease(w) ==
  LET s == wk[w].shard
  IN  /\ Incoming(w, "release")
      /\ Answer(w, IF active[s].token > wk[w].token THEN "fenced" ELSE "ok", 0, 0)
      /\ active' = IF Released(w) THEN [active EXCEPT ![s] = NoLease] ELSE active
      /\ UNCHANGED <<next_token, mem, disk, wk, store, faults, grants, committed>>

ManifestCommit(w) ==
  LET s == wk[w].shard
      c == Check(s, wk[w].holder, wk[w].token)
  IN  /\ Incoming(w, "commit")
      /\ IF c = "ok"
           THEN /\ Persisted(w, [mem EXCEPT !.watermarks[s] =
                                   IF @ > wk[w].watermark THEN @ ELSE wk[w].watermark])
                /\ committed' = committed \cup {w}
           ELSE Answer(w, c, 0, 0) /\ UNCHANGED <<mem, disk, faults, committed>>
      /\ UNCHANGED <<active, next_token, wk, store, grants>>

\* Registering again at the same place is fine, at another one is refused.
CatalogRegister(w) ==
  /\ Incoming(w, "register")
  /\ IF mem.catalog \in {NoWhere, wk[w].location}
       THEN Persisted(w, [mem EXCEPT !.catalog = wk[w].location])
       ELSE Answer(w, "error", 0, 0) /\ UNCHANGED <<mem, disk, faults>>
  /\ UNCHANGED <<active, next_token, wk, store, grants, committed>>

RecordEntityPartitions(w) ==
  /\ Incoming(w, "record")
  /\ Persisted(w, [mem EXCEPT !.entities = @ \cup {Head(conn[w].req).entity}])
  /\ UNCHANGED <<active, next_token, wk, store, grants, committed>>

Handle(w) ==
  \/ LeaseAcquire(w) \/ LeaseRenew(w) \/ LeaseRelease(w) \/ ManifestCommit(w)
  \/ CatalogRegister(w) \/ RecordEntityPartitions(w)

\* The coordinator's process ends and is started again on its state file: leases and
\* tokens are gone, and so is every connection.
Restart ==
  /\ Fault
  /\ active' = [s \in Shards |-> NoLease]
  /\ next_token' = [s \in Shards |-> 0]
  /\ mem' = disk
  /\ conn' = [w \in Workers |-> [conn[w] EXCEPT !.up = FALSE, !.req = <<>>]]
  /\ UNCHANGED <<disk, wk, store, grants, committed>>

-----------------------------------------------------------------------------
(* CoordinatorClient::call: the write lock covers the round trip, so a task *)
(* sends only while the other one is not waiting for an answer.             *)

Waiting == {"acquiring", "registering", "recording", "committing", "releasing"}
Working == {"pipeline", "finalize", "count", "register", "registering", "record",
            "recording", "committing"}

\* Mutation of LockFree: separate locks for the two halves of a round trip.
MLockFree(w) == TRUE

LockFree(w) == wk[w].hb # "sent" /\ wk[w].pc \notin Waiting

Send(w, op, e) ==
  /\ conn[w].up /\ LockFree(w)
  /\ conn' = [conn EXCEPT ![w].req = Append(@, Request(op, e))]

Receive(w) ==
  /\ conn[w].resp # <<>>
  /\ conn' = [conn EXCEPT ![w].resp = Tail(@)]

Response(w) == Head(conn[w].resp)

NotWorker == <<coordinator, store, faults, grants, committed>>

-----------------------------------------------------------------------------
(* CompileWorker::run_shard around the pipeline of compile_worker_run_with *)

Connect(w) ==
  /\ wk[w].pc = "start"
  /\ conn' = [conn EXCEPT ![w].up = TRUE]
  /\ wk' = [wk EXCEPT ![w].pc = "acquire"]
  /\ UNCHANGED NotWorker

\* The process ends with this result; what it has sent may still be handled.
Ended(w, result) ==
  /\ wk' = [wk EXCEPT ![w].pc = "ended", ![w].hb = "off",
                      ![w].todo = {}, ![w].result = result]
  /\ conn' = [conn EXCEPT ![w].up = FALSE, ![w].resp = <<>>]

SendAcquire(w) ==
  /\ wk[w].pc = "acquire"
  /\ Send(w, "acquire", w)
  /\ wk' = [wk EXCEPT ![w].pc = "acquiring"]
  /\ UNCHANGED NotWorker

\* Granted: the heartbeat starts.
Acquired(w) ==
  /\ wk[w].pc = "acquiring"
  /\ Receive(w) /\ Response(w).status = "lease"
  /\ wk' = [wk EXCEPT ![w].pc = "pipeline", ![w].hb = "on", ![w].token = Response(w).token,
                      ![w].serial = Response(w).serial]
  /\ UNCHANGED NotWorker

\* "already leased": before the deadline of --retry-lease-seconds the same call is made
\* again after a pause ...
RetryAcquire(w) ==
  /\ wk[w].pc = "acquiring"
  /\ Receive(w) /\ Response(w).status = "already"
  /\ wk' = [wk EXCEPT ![w].pc = "acquire"]
  /\ UNCHANGED NotWorker

\* ... and after it, or without that flag, the run is over.
GiveUp(w) ==
  /\ wk[w].pc = "acquiring"
  /\ conn[w].resp # <<>> /\ Response(w).status = "already"
  /\ Ended(w, "error")
  /\ UNCHANGED NotWorker

\* build, recover, resolve, compile, commit: the run's output is in the workspace.
Pipeline(w) ==
  /\ wk[w].pc = "pipeline"
  /\ store' = [store EXCEPT ![wk[w].location] = @ \cup {w}]
  /\ wk' = [wk EXCEPT ![w].pc = "finalize"]
  /\ UNCHANGED <<coordinator, conn, faults, grants, committed>>

\* finalize_partitions: the ids of everything in the workspace ...
ListEntities(w) ==
  /\ wk[w].pc = "finalize"
  /\ wk' = [wk EXCEPT ![w].pc = "count", ![w].todo = store[wk[w].location]]
  /\ UNCHANGED <<conn, NotWorker>>

\* Mutation of Generation: the index of the last entry that was there before the run.
MGeneration(w) == Cardinality(store[wk[w].location] \ {w}) - 1

Generation(w) == Cardinality(store[wk[w].location])

\* ... and then its entry count, which is the generation to commit; 0 when counting fails.
CountEntries(w) ==
  /\ wk[w].pc = "count"
  /\ \E n \in {Generation(w), 0} :
       /\ wk' = [wk EXCEPT ![w].pc = "register", ![w].watermark = n]
       /\ IF n = Generation(w) THEN UNCHANGED faults ELSE Fault
  /\ UNCHANGED <<coordinator, conn, store, grants, committed>>

\* A step of the work fails: the closure returns and run_shard goes on to the release.
Fails(w, result) == wk' = [wk EXCEPT ![w].pc = "release", ![w].result = result]

WorkFails(w) ==
  /\ wk[w].pc \in {"pipeline", "finalize", "count"}
  /\ Fails(w, "error")
  /\ UNCHANGED <<conn, NotWorker>>

SendRegister(w) ==
  /\ wk[w].pc = "register"
  /\ Send(w, "register", w)
  /\ wk' = [wk EXCEPT ![w].pc = "registering"]
  /\ UNCHANGED NotWorker

SendRecord(w) ==
  /\ wk[w].pc = "record"
  /\ \E e \in wk[w].todo :
       /\ Send(w, "record", e)
       /\ wk' = [wk EXCEPT ![w].pc = "recording", ![w].todo = @ \ {e}]
  /\ UNCHANGED NotWorker

\* Mutation of AllRecorded: the commit does not wait for the entity index.
MAllRecorded(w) == TRUE

AllRecorded(w) == wk[w].todo = {}

SendCommit(w) ==
  /\ wk[w].pc = "record" /\ AllRecorded(w)
  /\ Send(w, "commit", w)
  /\ wk' = [wk EXCEPT ![w].pc = "committing"]
  /\ UNCHANGED NotWorker

\* Response::ok: anything but an error is a success, whichever request it answers.
Accepted(r) == r.status \in {"ok", "lease"}

Registered(w) ==
  /\ wk[w].pc \in {"registering", "recording"}
  /\ Receive(w)
  /\ IF Accepted(Response(w)) THEN wk' = [wk EXCEPT ![w].pc = "record"] ELSE Fails(w, "error")
  /\ UNCHANGED NotWorker

\* LeaseGuard::commit: any refusal counts as a lost lease.
CommitAnswered(w) ==
  /\ wk[w].pc = "committing"
  /\ Receive(w)
  /\ wk' = [wk EXCEPT ![w].pc = "release",
                      ![w].lost = @ \/ ~Accepted(Response(w)),
                      ![w].result = IF Accepted(Response(w)) THEN "ok" ELSE "lost"]
  /\ UNCHANGED NotWorker

\* What run_shard returns once the work has.
Outcome(w) == IF wk[w].result = "ok" /\ wk[w].lost THEN "lost" ELSE wk[w].result

\* hb.abort(), wherever the heartbeat is, and a release whose result is ignored.
SendRelease(w) ==
  /\ wk[w].pc = "release" /\ conn[w].up
  /\ conn' = [conn EXCEPT ![w].req = Append(@, Request("release", w))]
  /\ wk' = [wk EXCEPT ![w].pc = "releasing", ![w].hb = "off"]
  /\ UNCHANGED NotWorker

ReleaseAnswered(w) ==
  /\ wk[w].pc = "releasing" /\ conn[w].resp # <<>>
  /\ Ended(w, Outcome(w))
  /\ UNCHANGED NotWorker

\* The connection is gone: nothing but the release's error is ignored.
CallFails(w) ==
  /\ ~conn[w].up
  /\ \/ wk[w].pc \in {"acquire", "acquiring"} /\ Ended(w, "error")
     \/ wk[w].pc \in {"register", "registering", "record", "recording", "committing"}
        /\ wk[w].hb # "sent" /\ Fails(w, "error") /\ UNCHANGED conn
     \/ wk[w].pc \in {"release", "releasing"} /\ Ended(w, Outcome(w))
  /\ UNCHANGED NotWorker

-----------------------------------------------------------------------------
(* The heartbeat task *)

HeartbeatSend(w) ==
  /\ wk[w].hb = "on" /\ ~wk[w].lost
  /\ Send(w, "renew", w)
  /\ wk' = [wk EXCEPT ![w].hb = "sent"]
  /\ UNCHANGED NotWorker

\* Mutation of HeartbeatAnswered: the call of a refused heartbeat never returns.
MHeartbeatAnswered(w) ==
  /\ wk[w].hb = "sent"
  /\ Receive(w) /\ Response(w).status = "lease"
  /\ wk' = [wk EXCEPT ![w].hb = "on"]
  /\ UNCHANGED NotWorker

HeartbeatAnswered(w) ==
  /\ wk[w].hb = "sent"
  /\ Receive(w)
  /\ wk' = IF Response(w).status = "lease"
             THEN [wk EXCEPT ![w].hb = "on"]
             ELSE [wk EXCEPT ![w].hb = "off", ![w].lost = TRUE]
  /\ UNCHANGED NotWorker

\* Any error ends the heartbeat; so does a lease the commit found lost.
HeartbeatStops(w) ==
  /\ \/ wk[w].hb = "on" /\ wk[w].lost
     \/ wk[w].hb \in {"on", "sent"} /\ ~conn[w].up /\ (wk[w].hb = "on" => LockFree(w))
  /\ wk' = [wk EXCEPT ![w].hb = "off", ![w].lost = TRUE]
  /\ UNCHANGED <<conn, NotWorker>>

-----------------------------------------------------------------------------
(* The environment *)

\* expires_at is reached; expires_at is ahead again when the wall clock is set back.
ClockMoves(s) ==
  /\ active[s] # NoLease
  /\ active' = [active EXCEPT ![s].live = ~@]
  /\ UNCHANGED <<next_token, mem, disk, conn, wk, store, faults, grants, committed>>

\* The process is killed.
Die(w) ==
  /\ Fault
  /\ wk[w].pc \notin {"start", "ended"}
  /\ Ended(w, "none")
  /\ UNCHANGED <<coordinator, store, grants, committed>>

Disconnect(w) ==
  /\ Fault
  /\ conn[w].up
  /\ conn' = [conn EXCEPT ![w].up = FALSE]
  /\ UNCHANGED <<coordinator, wk, store, grants, committed>>

\* A request that was under way when the connection broke is not read any more.
LoseRequests(w) ==
  /\ ~conn[w].up /\ conn[w].req # <<>>
  /\ conn' = [conn EXCEPT ![w].req = <<>>]
  /\ UNCHANGED <<wk, NotWorker>>

-----------------------------------------------------------------------------

Run(w) ==
  \/ Connect(w) \/ SendAcquire(w) \/ Acquired(w) \/ RetryAcquire(w) \/ GiveUp(w)
  \/ Pipeline(w) \/ ListEntities(w) \/ CountEntries(w) \/ WorkFails(w)
  \/ SendRegister(w) \/ SendRecord(w) \/ SendCommit(w) \/ Registered(w)
  \/ CommitAnswered(w) \/ SendRelease(w) \/ ReleaseAnswered(w) \/ CallFails(w)

Heartbeat(w) == HeartbeatSend(w) \/ HeartbeatAnswered(w) \/ HeartbeatStops(w)

Next ==
  \/ \E w \in Workers : \/ Handle(w) \/ Run(w) \/ Heartbeat(w)
                        \/ Die(w) \/ Disconnect(w) \/ LoseRequests(w)
  \/ \E s \in Shards : ClockMoves(s)
  \/ Restart

Spec == Init /\ [][Next]_vars

\* Two tasks want the connection's tokio Mutex, which serves them in the order in which
\* they ask: a task that waits for it gets it.  Everything else a process or the
\* coordinator can do, it eventually does; a deadline passes.  Nothing is assumed of the
\* environment.
Fairness ==
  /\ \A w \in Workers :
       /\ SF_vars(Run(w))
       /\ WF_vars(HeartbeatAnswered(w) \/ HeartbeatStops(w))
       /\ WF_vars(Handle(w))
       /\ SF_vars(GiveUp(w))

FairSpec == Spec /\ Fairness

-----------------------------------------------------------------------------
(* Properties *)

WorkerStates == Working \cup Waiting
                  \cup {"start", "acquire", "release", "ended"}
Ops == {"acquire", "renew", "release", "commit", "register", "record"}

StateType == [catalog : Locations \cup {NoWhere}, entities : SUBSET Workers,
              watermarks : [Shards -> Nat]]
LeaseType == [holder : Holders \cup {"nobody"}, token : Nat, live : BOOLEAN]
ConnType  == [up : BOOLEAN, req : Seq([op : Ops, entity : Workers]),
              resp : Seq([op : Ops, status : {"ok", "lease", "already", "fenced", "expired", "error"},
                          token : Nat, serial : Nat])]
WorkerType ==
  [holder : Holders, location : Locations, shard : Shards, pc : WorkerStates,
   hb : {"off", "on", "sent"}, lost : BOOLEAN, token : Nat, serial : Nat,
   todo : SUBSET Workers, watermark : Nat, result : {"none", "ok", "lost", "error"}]

\* The type invariant of the coordinator, its state file, the connections and the runs.
TypeOK ==
  /\ active \in [Shards -> LeaseType] /\ next_token \in [Shards -> Nat]
  /\ mem \in StateType /\ disk \in StateType
  /\ conn \in [Workers -> ConnType] /\ wk \in [Workers -> WorkerType]
  /\ store \in [Locations -> SUBSET Workers] /\ faults \in Nat
  /\ grants \in [Shards -> Nat] /\ committed \in SUBSET Workers

\* "a slow ex-lease-holder can never overwrite the new one's work": the coordinator accepts
\* a commit only from the run that received the newest grant of the shard, however late the
\* request arrives, whoever has the same pid, and across coordinator restarts.
CommitFenced ==
  [][\A w \in committed' \ committed : wk[w].serial = grants[wk[w].shard]]_vars

\* "A stale token can't release a newer holder's lease": a live lease disappears only when
\* the run it was granted to releases it, or when the coordinator restarts.
OnlyOwnRelease ==
  [][\A s \in Shards :
       active[s].live /\ active'[s] = NoLease =>
         \/ next_token'[s] = 0
         \/ \E w \in Workers : /\ wk[w].shard = s /\ wk[w].serial = grants[s]
                               /\ wk[w].pc \in {"releasing", "ended"}]_vars

\* A run that returned Ok has its generation, its partition and its entities in the
\* coordinator's state file: no restart, no failed write of that file and no takeover by
\* another worker makes the coordinator forget them.
OkIsDurable ==
  \A w \in Workers :
    wk[w].result = "ok" =>
      /\ w \in committed
      /\ disk.watermarks[wk[w].shard] >= wk[w].watermark
      /\ disk.catalog = wk[w].location /\ w \in disk.entities

\* Readers prune by the catalog and by the entity index: when the coordinator accepts a
\* generation, the state file already names the partition and the entities that the
\* committing run wrote, even if storing the generation itself fails.
RegisteredBeforeCommitted ==
  \A w \in committed : disk.catalog = wk[w].location /\ w \in disk.entities

\* The operation whose answer the run is waiting for.
Expected(w) ==
  [pc \in Waiting |-> CASE pc = "acquiring" -> "acquire" [] pc = "registering" -> "register"
                        [] pc = "recording" -> "record" [] pc = "committing" -> "commit"
                        [] pc = "releasing" -> "release"][wk[w].pc]

\* As long as the heartbeat runs, neither task reads the answer to the other one's request. The
\* release that follows the abort of the heartbeat is excepted: it may read the answer to a
\* renewal that was under way.
NoCrossTalk ==
  \A w \in Workers :
    conn[w].resp # <<>> =>
      /\ wk[w].hb = "sent" => Response(w).op = "renew"
      /\ wk[w].pc \in Waiting \ {"releasing"} => Response(w).op = Expected(w)

\* Every run of compile-worker ends, whatever happens to its lease and whoever holds the
\* shard: the heartbeat never keeps the run from the connection they share, and a held
\* shard is not waited for for ever.
RunEnds ==
  \A w \in Workers : wk[w].pc # "start" ~> wk[w].pc = "ended"
=============================================================================
