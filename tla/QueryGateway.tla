---------------------------- MODULE QueryGateway ----------------------------
(***************************************************************************)
(* The read side of the cluster (distributed/src): a gateway that fans     *)
(* queries out to query workers over one pooled connection per worker, and *)
(* the workers with their cached handles.  One entity is followed: its     *)
(* versions lie in one or more partitions, numbered by their time bucket.  *)
(*                                                                         *)
(* Threads of the gateway run queries side by side; a query is a set of    *)
(* calls, one per partition, each a future that moves on its own.  The     *)
(* coordinator and the compile worker appear by what they publish (module  *)
(* Cluster has their protocol).                                            *)
(***************************************************************************)
EXTENDS Integers, Sequences, FiniteSets

CONSTANTS
  Threads,     \* threads of the gateway
  N,           \* number of worker addresses
  Parts,       \* partitions of the entity's class, numbered by bucket
  MaxVersion,  \* bound: versions of the entity
  MaxQueries,  \* bound: queries
  MaxFaults    \* bound: stopped workers, lost connections, restarts of the coordinator

ASSUME GatewayAssumption ==
  /\ N \in Nat \ {0} /\ Parts \subseteq Nat /\ IsFiniteSet(Parts)
  /\ MaxVersion \in Nat \ {0} /\ MaxQueries \in Nat /\ MaxFaults \in Nat

Workers == 0 .. N - 1

VARIABLES
  content,     \* content[p]: the newest version in partition p, 0 if none
  catalog,     \* the coordinator's catalog: partitions registered
  index,       \* the coordinator's entity index: partitions recorded for the entity
  pub,         \* the compile worker's run: what it has still to do for which partition
  committed,   \* the version whose generation was committed last
  up,          \* up[w]: worker w is running
  handle,      \* handle[w][p]: the version of p that w has open, or None
  linked,      \* linked[w]: the connection of w to the coordinator, made once, is alive
  slot,        \* worker_conns[w]: the pooled connection, or 0
  conns,       \* the gateway's connections to workers
  next_worker, \* the rotation
  q,           \* q[t]: the query of thread t
  queries, faults

cluster == <<content, catalog, index, pub, committed>>
workers == <<up, handle, linked>>
bounds == <<queries, faults>>
vars == <<cluster, workers, slot, conns, next_worker, q, bounds>>

None == -1
Idle == [pc |-> "idle"]
NoLock == <<>>

\* Results of a call besides a version: the connection failed, or the worker reported an error.
ConnErr == -2
WorkerErr == -3
IsErr(r) == r \in {ConnErr, WorkerErr}

-----------------------------------------------------------------------------
(* What compile-worker does: the partition's data, then the catalog, then the
   entity index, then the generation *)

\* New versions go to the newest bucket that has one, or to a newer one.
PubWrite(p) ==
  /\ pub = Idle /\ committed < MaxVersion
  /\ \A r \in Parts : r > p => content[r] = 0
  /\ content' = [content EXCEPT ![p] = committed + 1]
  /\ pub' = [pc |-> "register", part |-> p]
  /\ UNCHANGED <<catalog, index, committed, workers, slot, conns, next_worker, q, bounds>>

\* Mutation of PubRegister: the coordinator is not told of the partition.
MPubRegister ==
  /\ pub.pc = "register"
  /\ pub' = [pub EXCEPT !.pc = "record"]
  /\ UNCHANGED <<content, catalog, index, committed, workers, slot, conns, next_worker, q, bounds>>

PubRegister ==
  /\ pub.pc = "register"
  /\ catalog' = catalog \cup {pub.part}
  /\ pub' = [pub EXCEPT !.pc = "record"]
  /\ UNCHANGED <<content, index, committed, workers, slot, conns, next_worker, q, bounds>>

PubRecord ==
  /\ pub.pc = "record"
  /\ index' = index \cup {pub.part}
  /\ pub' = [pub EXCEPT !.pc = "commit"]
  /\ UNCHANGED <<content, catalog, committed, workers, slot, conns, next_worker, q, bounds>>

PubCommit ==
  /\ pub.pc = "commit"
  /\ committed' = committed + 1
  /\ pub' = Idle
  /\ UNCHANGED <<content, catalog, index, workers, slot, conns, next_worker, q, bounds>>

-----------------------------------------------------------------------------
(* Queries *)

\* Position of p among ps in the order of dispatch: newest first, or for fan_out oldest first.
Rank(kind, ps, p) ==
  Cardinality({r \in ps : IF kind = "first" THEN r > p ELSE r < p})

\* next_index: the worker that the n-th call of a query starts with.
Start(n) == (next_worker + n) % N

\* worker: the pooled connection of worker w, or none, so that the call connects first.
Attempt(w) == [pc |-> IF slot[w] # 0 THEN "send" ELSE "connect", idx |-> w, conn |-> slot[w]]

\* One call per partition. calm: the workers that have been there since.
Dispatch(t, kind, floor, ps) ==
  /\ q' = [q EXCEPT ![t] =
       [pc |-> "run", kind |-> kind, floor |-> floor, no |-> queries', tainted |-> FALSE,
        calls |-> [p \in ps |->
          [at |-> Attempt(Start(Rank(kind, ps, p))), tried |-> 0, retried |-> FALSE,
           calm |-> {w \in Workers : up[w]}, own |-> TRUE, result |-> 0]]]]
  /\ next_worker' = (next_worker + Cardinality(ps)) % N

Begin(t) == q[t].pc \in {"idle", "end"} /\ queries < MaxQueries /\ queries' = queries + 1

\* get_object and its siblings (first_present): candidate_partitions asks the coordinator's
\* index for the id, and the catalog if the index has nothing.
GetFirst(t) ==
  /\ Begin(t)
  /\ IF index # {} THEN Dispatch(t, "first", committed, index)
     ELSE /\ q' = [q EXCEPT ![t] = [pc |-> "catalog", floor |-> committed]]
          /\ next_worker' = next_worker
  /\ UNCHANGED <<cluster, workers, slot, conns, faults>>

AskCatalog(t) ==
  /\ q[t].pc = "catalog" /\ queries' = queries
  /\ Dispatch(t, "first", q[t].floor, catalog)
  /\ UNCHANGED <<cluster, workers, slot, conns, faults>>

\* all_objects and its siblings (fan_out): the partitions of the class, as the catalog has them.
GetAll(t) ==
  /\ Begin(t)
  /\ Dispatch(t, "all", committed, catalog)
  /\ UNCHANGED <<cluster, workers, slot, conns, faults>>

\* calm: of the call whose error ended the query, if one did.
Ended(t, r, tainted, calm) ==
  [pc |-> "end", floor |-> q[t].floor, result |-> r, tainted |-> tainted, calm |-> calm]

\* call_coordinator has reconnected once and failed again: the query fails. One that fails at its
\* first question leaves nothing behind and is not modelled.
AskFails(t) ==
  /\ q[t].pc = "catalog" /\ faults < MaxFaults /\ faults' = faults + 1
  /\ q' = [q EXCEPT ![t] = Ended(t, WorkerErr, FALSE, {})]
  /\ UNCHANGED <<cluster, workers, slot, conns, next_worker, queries>>

Call(t, p) == q[t].calls[p]
Running(t) == q[t].pc = "run"
\* The call for partition p is at step pc.
At(t, p, pc) == Running(t) /\ p \in DOMAIN q[t].calls /\ Call(t, p).at.pc = pc
Done == [pc |-> "done", conn |-> 0]
SetCall(t, p, c) == q' = [q EXCEPT ![t].calls[p] = c]

\* Connections on which a call of t is waiting for an answer.
InFlight(t, cs) == {c \in DOMAIN cs : cs[c].lock # NoLock /\ cs[c].lock[1] = t}

\* A dropped future lets go of its connection, whose answer is still to come.
Dropped(t, cs) ==
  [c \in DOMAIN cs |-> IF c \in InFlight(t, cs) THEN [cs[c] EXCEPT !.lock = NoLock, !.dirty = TRUE]
                       ELSE cs[c]]

\* The client of a connection closes it when it is neither pooled nor used by a call.
Keep(cs) ==
  LET Pooled(c) == \E w \in Workers : slot'[w] = c
      Used(c) == \E t \in Threads : q'[t].pc = "run" /\
                   \E p \in DOMAIN q'[t].calls : q'[t].calls[p].at.conn = c
  IN  conns' = [c \in {d \in DOMAIN cs : Pooled(d) \/ Used(d)} |-> cs[c]]

Answered(t, p, r, own, tainted) ==
  [q[t] EXCEPT !.calls[p] = [@ EXCEPT !.at = Done, !.result = r, !.own = own],
               !.tainted = @ \/ tainted]

\* The call has a result r, read from a connection; cs are the connections without its lock.
\* try_join_all ends with the first error and drops the other calls.
Finish(t, p, r, own, tainted, cs) ==
  IF q[t].kind = "all" /\ IsErr(r)
    THEN /\ q' = [q EXCEPT ![t] = Ended(t, r, q[t].tainted, Call(t, p).calm)]
         /\ Keep(Dropped(t, cs))
    ELSE /\ q' = [q EXCEPT ![t] = Answered(t, p, r, own, tainted)]
         /\ Keep(cs)

-----------------------------------------------------------------------------
(* call_worker_failover, call_worker and QueryWorkerClient::call *)

NewConn(w) == [worker |-> w, alive |-> TRUE, lock |-> NoLock, reqs |-> <<>>, resps |-> <<>>,
               dirty |-> FALSE]

NewId == CHOOSE n \in 1 .. Cardinality(DOMAIN conns) + 1 : n \notin DOMAIN conns

\* reconnect_worker: the new connection also replaces the pooled one.
Connect(t, p) ==
  LET w == Call(t, p).at.idx IN
  /\ At(t, p, "connect") /\ up[w]
  /\ slot' = [slot EXCEPT ![w] = NewId]
  /\ SetCall(t, p, [Call(t, p) EXCEPT !.at.pc = "send", !.at.conn = NewId])
  /\ Keep([c \in DOMAIN conns \cup {NewId} |-> IF c = NewId THEN NewConn(w) ELSE conns[c]])
  /\ UNCHANGED <<cluster, workers, next_worker, bounds>>

LastWorker(c) == c.tried + 1 = N

\* A connection error of the worker: its slot is cleared and the next worker is tried.
FailOver(t, p, cs) ==
  LET c == Call(t, p) IN
  /\ slot' = [slot EXCEPT ![c.at.idx] = 0]
  /\ IF LastWorker(c) THEN Finish(t, p, ConnErr, TRUE, FALSE, cs)
     ELSE /\ SetCall(t, p, [c EXCEPT !.at = Attempt((@.idx + 1) % N), !.tried = @ + 1,
                                     !.retried = FALSE])
          /\ Keep(cs)

ConnectFails(t, p) ==
  /\ At(t, p, "connect") /\ ~up[Call(t, p).at.idx]
  /\ FailOver(t, p, conns)
  /\ UNCHANGED <<cluster, workers, next_worker, bounds>>

\* Mutation of ConnFails: a dead pooled connection counts as a dead worker.
MConnFails(t, p, cs) == FailOver(t, p, cs)

\* The first connection error of a worker is answered with a new connection.
ConnFails(t, p, cs) ==
  LET c == Call(t, p) IN
  IF c.retried THEN FailOver(t, p, cs)
  ELSE /\ SetCall(t, p, [c EXCEPT !.at.pc = "connect", !.at.conn = 0, !.retried = TRUE])
       /\ slot' = slot /\ Keep(cs)

\* Mutation of WriteLock: calls on one connection do not exclude each other.
MWriteLock(c) == TRUE
WriteLock(c) == conns[c].lock = NoLock

\* With the write lock of the connection, the request is sent.
Send(t, p) ==
  LET c == Call(t, p).at.conn
      req == [part |-> p, kind |-> q[t].kind, no |-> q[t].no]
  IN
  /\ At(t, p, "send") /\ WriteLock(c)
  /\ IF conns[c].alive
       THEN /\ conns' = [conns EXCEPT ![c].lock = <<t, p>>, ![c].reqs = Append(@, req)]
            /\ SetCall(t, p, [Call(t, p) EXCEPT !.at.pc = "read"]) /\ slot' = slot
       ELSE ConnFails(t, p, conns)
  /\ UNCHANGED <<cluster, workers, next_worker, bounds>>

\* The answer that comes first is taken. Of an unexpected type, it is an error.
Receive(t, p) ==
  LET c == Call(t, p).at.conn
      a == Head(conns[c].resps)
      r == IF a.kind = q[t].kind THEN a.result ELSE WorkerErr
      own == conns[c].dirty \/ (a.no = q[t].no /\ a.part = p)
  IN
  /\ At(t, p, "read") /\ conns[c].resps # <<>>
  /\ slot' = slot
  /\ Finish(t, p, r, own, conns[c].dirty \/ a.stale,
            [conns EXCEPT ![c].lock = NoLock, ![c].resps = Tail(@)])
  /\ UNCHANGED <<cluster, workers, next_worker, bounds>>

\* The peer has closed the connection.
Closed(t, p) ==
  LET c == Call(t, p).at.conn IN
  /\ At(t, p, "read") /\ conns[c].resps = <<>> /\ ~conns[c].alive
  /\ ConnFails(t, p, [conns EXCEPT ![c].lock = NoLock])
  /\ UNCHANGED <<cluster, workers, next_worker, bounds>>

\* The greatest partition among those whose call has found the entity, or an error before it.
Decides(t, p) == Call(t, p).result # 0
\* Mutation of FirstPresent: the oldest partition decides.
MFirstPresent(t) ==
  LET ps == {p \in DOMAIN q[t].calls : Decides(t, p)}
  IN  IF ps = {} THEN 0 ELSE Call(t, CHOOSE p \in ps : \A r \in ps : p <= r).result
\* first_present: the newest partition with an object or an error decides; all_objects: the
\* newest partition's version is the last to be put into the map.
FirstPresent(t) ==
  LET ps == {p \in DOMAIN q[t].calls : Decides(t, p)}
  IN  IF ps = {} THEN 0 ELSE Call(t, CHOOSE p \in ps : \A r \in ps : r <= p).result

End(t) ==
  /\ Running(t) /\ \A p \in DOMAIN q[t].calls : Call(t, p).at = Done
  /\ q' = [q EXCEPT ![t] = Ended(t, FirstPresent(t), q[t].tainted, {})]
  /\ UNCHANGED <<cluster, workers, slot, conns, next_worker, bounds>>

-----------------------------------------------------------------------------
(* Query workers *)

\* dispatch and ledger_for: a handle once open serves every later request. A partition that is
\* not open is looked up at the coordinator and opened as it is now.
Serve(c) ==
  LET w == conns[c].worker
      req == Head(conns[c].reqs)
      p == req.part
      opened == IF handle[w][p] # None THEN handle[w][p]
                ELSE IF linked[w] /\ p \in catalog THEN content[p] ELSE None
  IN
  /\ conns[c].alive /\ conns[c].reqs # <<>>
  /\ handle' = [handle EXCEPT ![w][p] = opened]
  /\ conns' = [conns EXCEPT ![c].reqs = Tail(@),
       ![c].resps = Append(@, [part |-> p, kind |-> req.kind, no |-> req.no,
                               result |-> IF opened = None THEN WorkerErr ELSE opened,
                               stale |-> opened # content[p]])]
  /\ UNCHANGED <<cluster, up, linked, slot, next_worker, q, bounds>>

Cut(cs) ==
  [c \in DOMAIN conns |-> IF c \in cs THEN [conns[c] EXCEPT !.alive = FALSE, !.reqs = <<>>]
                          ELSE conns[c]]

\* Calls under way no longer have w as a worker that was there all the time.
Disturbed(w) ==
  [t \in Threads |-> IF ~Running(t) THEN q[t]
     ELSE [q[t] EXCEPT !.calls = [p \in DOMAIN q[t].calls |->
                                [Call(t, p) EXCEPT !.calm = @ \ {w}]]]]

WorkerStops(w) ==
  /\ up[w] /\ faults < MaxFaults /\ faults' = faults + 1
  /\ up' = [up EXCEPT ![w] = FALSE]
  /\ handle' = [handle EXCEPT ![w] = [p \in Parts |-> None]]
  /\ conns' = Cut({c \in DOMAIN conns : conns[c].worker = w})
  /\ q' = Disturbed(w)
  /\ UNCHANGED <<cluster, linked, slot, next_worker, queries>>

WorkerStarts(w) ==
  /\ ~up[w]
  /\ up' = [up EXCEPT ![w] = TRUE] /\ linked' = [linked EXCEPT ![w] = TRUE]
  /\ UNCHANGED <<cluster, handle, slot, conns, next_worker, q, bounds>>

ConnLost(c) ==
  /\ conns[c].alive /\ faults < MaxFaults /\ faults' = faults + 1
  /\ conns' = Cut({c}) /\ q' = Disturbed(conns[c].worker)
  /\ UNCHANGED <<cluster, workers, slot, next_worker, queries>>

\* The workers connect to the coordinator once.
CoordinatorRestarts ==
  /\ faults < MaxFaults /\ faults' = faults + 1
  /\ linked' = [w \in Workers |-> FALSE]
  /\ UNCHANGED <<cluster, up, handle, slot, conns, next_worker, q, queries>>

-----------------------------------------------------------------------------
\* A first version is published, by a compile worker that records entities or by an older one,
\* perhaps among partitions without this entity.
Init ==
  /\ \E p \in Parts : /\ content = [r \in Parts |-> IF r = p THEN 1 ELSE 0]
                       /\ catalog \in {ps \in SUBSET Parts : p \in ps} /\ index \in {{}, {p}}
  /\ pub = Idle /\ committed = 1
  /\ up = [w \in Workers |-> TRUE] /\ linked = [w \in Workers |-> TRUE]
  /\ handle = [w \in Workers |-> [p \in Parts |-> None]]
  /\ slot = [w \in Workers |-> 0] /\ conns = [c \in {} |-> 0] /\ next_worker = 0
  /\ q = [t \in Threads |-> Idle] /\ queries = 0 /\ faults = 0

Query(t) ==
  \/ GetFirst(t) \/ GetAll(t) \/ AskCatalog(t) \/ AskFails(t) \/ End(t)
  \/ \E p \in Parts : \/ Connect(t, p) \/ ConnectFails(t, p) \/ Send(t, p)
                       \/ Receive(t, p) \/ Closed(t, p)

Next ==
  \/ \E p \in Parts : PubWrite(p)
  \/ PubRegister \/ PubRecord \/ PubCommit
  \/ \E t \in Threads : Query(t)
  \/ \E c \in DOMAIN conns : Serve(c) \/ ConnLost(c)
  \/ \E w \in Workers : WorkerStops(w) \/ WorkerStarts(w)
  \/ CoordinatorRestarts

Spec == Init /\ [][Next]_vars

-----------------------------------------------------------------------------
(* Properties *)

Results == {ConnErr, WorkerErr} \cup 0 .. MaxVersion

\* What the variables hold.
TypeOK ==
  /\ content \in [Parts -> 0 .. MaxVersion] /\ catalog \subseteq Parts /\ index \subseteq catalog
  /\ committed \in 0 .. MaxVersion
  /\ up \in [Workers -> BOOLEAN] /\ linked \in [Workers -> BOOLEAN]
  /\ handle \in [Workers -> [Parts -> {None} \cup 0 .. MaxVersion]]
  /\ slot \in [Workers -> {0} \cup DOMAIN conns] /\ next_worker \in Workers
  /\ \A t \in Threads : q[t].pc = "run" => \A p \in DOMAIN q[t].calls :
       /\ Call(t, p).result \in Results
       /\ Call(t, p).at # Done => Call(t, p).at.idx \in Workers

\* Every call gets the answer to its own request, although calls of several queries share a
\* connection, retry and fail over. Excepted are connections on which try_join_all has dropped a
\* call between request and answer.
OwnAnswer ==
  \A t \in Threads : q[t].pc = "run" =>
    \A p \in DOMAIN q[t].calls : Call(t, p).at = Done => Call(t, p).own

\* A call fails for its connections only if no worker was there throughout the call: dead
\* pooled connections, restarted and stopped workers are not the caller's problem as long as one
\* worker is left.
FailsOnlyWithoutWorkers ==
  \A t \in Threads :
    /\ q[t].pc = "run" =>
         \A p \in DOMAIN q[t].calls : Call(t, p).result = ConnErr => Call(t, p).calm = {}
    /\ q[t].pc = "end" /\ q[t].result = ConnErr => q[t].calm = {}

\* A query that succeeds returns at least the version that was committed when it began, through
\* the index or the catalog, with data, registration, index and generation published one by one
\* beside it. Excepted are answers of a handle that was opened before the last change of its
\* partition, and of connections with a dropped call.
ReadsCommitted ==
  \A t \in Threads : q[t].pc = "end" =>
    IsErr(q[t].result) \/ q[t].tainted \/ q[t].result >= q[t].floor
=============================================================================
