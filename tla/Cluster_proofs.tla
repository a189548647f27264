-------------------------- MODULE Cluster_proofs ---------------------------
(***************************************************************************)
(* The fencing of commits and releases, and the durability of what a run   *)
(* was told is stored, for any number of workers, shards, workspaces and   *)
(* faults.                                                                 *)
(*                                                                         *)
(* The argument: the lock of a connection keeps at most one request under  *)
(* way in it, and what is under way belongs to the task that waits         *)
(* (LineInv), so that a worker never takes an answer for another one.      *)
(* What a worker has been told, the state file has got (StageInv), which   *)
(* only grows (MemInv).  A connection does not survive a restart of the    *)
(* coordinator, so that the tokens compared with each other are always     *)
(* those of one process (FenceInv).                                        *)
(***************************************************************************)
EXTENDS Cluster, SequenceTheorems, FiniteSetTheorems, TLAPS

Items(s) == {s[i] : i \in DOMAIN s}

\* What is under way in the connection of w is of these kinds.
Carries(w, ops) ==
  /\ \A r \in Items(conn[w].req) : r.op \in ops
  /\ \A r \in Items(conn[w].resp) : r.op \in ops
Alone(w) == Len(conn[w].req) + Len(conn[w].resp) <= 1

\* The connection of w and the tasks that share it.
LineInv(w) ==
  /\ wk[w].pc = "start" =>
       ~conn[w].up /\ conn[w].req = <<>> /\ conn[w].resp = <<>> /\ wk[w].token = 0
  /\ wk[w].pc = "ended" => ~conn[w].up /\ conn[w].resp = <<>>
  /\ wk[w].hb # "off" => wk[w].pc \in Working \cup {"release"}
  /\ wk[w].hb = "sent" => wk[w].pc \notin Waiting /\ Alone(w) /\ Carries(w, {"renew"})
  /\ wk[w].pc \in Waiting \ {"releasing"} => Alone(w)
  /\ wk[w].pc = "acquiring" => Carries(w, {"acquire"})
  /\ wk[w].pc = "registering" => Carries(w, {"register"})
  /\ wk[w].pc = "recording" => Carries(w, {"record"})
  /\ wk[w].pc = "committing" => Carries(w, {"commit"})
  /\ wk[w].pc = "releasing" => Carries(w, {"renew", "release"})
  /\ conn[w].up /\ LockFree(w) => conn[w].req = <<>> /\ conn[w].resp = <<>>
  /\ \A r \in Items(conn[w].req) : r.op = "release" => wk[w].pc \in {"releasing", "ended"}

\* The state file lags behind the memory of the coordinator, and both only grow.
Ahead(m, d) ==
  /\ d.catalog \in {NoWhere, m.catalog}
  /\ d.entities \subseteq m.entities
  /\ \A s \in Shards : d.watermarks[s] <= m.watermarks[s]
MemInv == Ahead(mem, disk)

Placed(w) == disk.catalog = wk[w].location
Listed(w) == Placed(w) /\ w \in disk.entities
Stored(w) == w \in committed /\ disk.watermarks[wk[w].shard] >= wk[w].watermark

\* How far the run of w has come, and what the state file has got of it by then.
StageInv(w) ==
  /\ wk[w].result = "ok" => wk[w].pc \in {"release", "releasing", "ended"} /\ Stored(w)
  /\ w \in committed => Listed(w)
  /\ wk[w].pc = "finalize" => w \in store[wk[w].location]
  /\ wk[w].pc \in {"count", "register", "registering"} => w \in wk[w].todo
  /\ wk[w].pc = "registering" => \A r \in Items(conn[w].resp) : Accepted(r) => Placed(w)
  /\ wk[w].pc \in {"record", "recording", "committing"} => Placed(w)
  /\ wk[w].pc = "record" => w \in wk[w].todo \cup disk.entities
  /\ wk[w].pc = "recording" => \/ w \in wk[w].todo \cup disk.entities
                               \/ /\ \A r \in Items(conn[w].req) : r.entity = w
                                  /\ \A r \in Items(conn[w].resp) : ~Accepted(r)
  /\ wk[w].pc = "committing" =>
       w \in disk.entities /\ \A r \in Items(conn[w].resp) : Accepted(r) => Stored(w)
  /\ \A r \in Items(conn[w].req) : r.op = "commit" => Listed(w)

\* A lease in force has the newest token of its shard.
LeaseInv ==
  \A s \in Shards : active[s] = NoLease \/ (active[s].token = next_token[s] /\ active[s].token > 0)

\* Whoever has the newest token, or will read it, received the newest grant.
Newest(token, serial, s) ==
  token <= next_token[s] /\ (token = next_token[s] /\ token > 0 => serial = grants[s])
Connected(w) == conn[w].up \/ conn[w].req # <<>>

FenceInv(w) ==
  Connected(w) =>
    /\ Newest(wk[w].token, wk[w].serial, wk[w].shard)
    /\ \A r \in Items(conn[w].resp) :
         r.op = "acquire" /\ r.status = "lease" => Newest(r.token, r.serial, wk[w].shard)

\* The inductive invariant.
IInv ==
  /\ TypeOK /\ MemInv /\ LeaseInv
  /\ \A w \in Workers : LineInv(w) /\ StageInv(w) /\ FenceInv(w)

-----------------------------------------------------------------------------
(* Sequences *)

\* The items of a queue are of its type.
LEMMA ItemsIn ==
  ASSUME NEW S, NEW s \in Seq(S)
  PROVE  Items(s) \subseteq S
BY LenProperties DEF Items

\* What the first item and the rest of a queue are.
LEMMA HeadTail ==
  ASSUME NEW S, NEW s \in Seq(S), s # <<>>
  PROVE  /\ Head(s) \in S /\ Head(s) \in Items(s)
         /\ Tail(s) \in Seq(S) /\ Items(Tail(s)) \subseteq Items(s)
         /\ Len(s) \in Nat /\ Len(Tail(s)) = Len(s) - 1 /\ Len(s) > 0
<1>1. /\ Len(s) \in Nat /\ Len(s) > 0 /\ 1 \in DOMAIN s /\ Head(s) = s[1]
      /\ Tail(s) \in Seq(S) /\ Len(Tail(s)) = Len(s) - 1
  BY EmptySeq, LenProperties, HeadTailProperties
<1>2. ASSUME NEW i \in DOMAIN Tail(s) PROVE i + 1 \in DOMAIN s /\ Tail(s)[i] = s[i + 1]
  BY <1>1, HeadTailProperties
<1>3. s[1] \in S
  BY <1>1, ElementOfSeq
<1> QED BY <1>1, <1>2, <1>3 DEF Items

\* A queue with at most one item is empty without its first.
LEMMA LastItem ==
  ASSUME NEW S, NEW s \in Seq(S), s # <<>>, Len(s) <= 1
  PROVE  Tail(s) = <<>>
BY HeadTail, EmptySeq

\* What is in a queue behind which an item is put.
LEMMA AppendItems ==
  ASSUME NEW S, NEW s \in Seq(S), NEW x \in S
  PROVE  /\ Append(s, x) \in Seq(S) /\ Items(Append(s, x)) = Items(s) \cup {x}
         /\ Len(s) \in Nat /\ Len(Append(s, x)) = Len(s) + 1 /\ Append(s, x) # <<>>
<1>1. /\ Append(s, x) \in Seq(S) /\ Len(Append(s, x)) = Len(s) + 1 /\ Len(s) \in Nat
      /\ \A i \in 1 .. Len(s) : Append(s, x)[i] = s[i]
      /\ Append(s, x)[Len(s) + 1] = x
      /\ DOMAIN s = 1 .. Len(s) /\ DOMAIN Append(s, x) = 1 .. Len(s) + 1
  BY AppendProperties
<1>2. Items(Append(s, x)) = Items(s) \cup {x}
  BY <1>1 DEF Items
<1> QED BY <1>1, <1>2

\* Nothing is in the empty queue.
LEMMA EmptyItems == Items(<<>>) = {} /\ Len(<<>>) = 0 /\ \A S : <<>> \in Seq(S)
BY DEF Items

-----------------------------------------------------------------------------
(* Frames: what a step of one worker leaves alone *)

Reqs == [op : Ops, entity : Workers]
Resps == [op : Ops, status : {"ok", "lease", "already", "fenced", "expired", "error"},
          token : Nat, serial : Nat]

\* What the type invariant says of one worker.
LEMMA TypeAt ==
  ASSUME TypeOK, NEW w \in Workers
  PROVE  /\ wk[w] \in WorkerType /\ conn[w] \in ConnType
         /\ conn[w].up \in BOOLEAN /\ conn[w].req \in Seq(Reqs) /\ conn[w].resp \in Seq(Resps)
         /\ wk[w].holder \in Holders /\ wk[w].location \in Locations /\ wk[w].shard \in Shards
         /\ wk[w].pc \in WorkerStates /\ wk[w].hb \in {"off", "on", "sent"}
         /\ wk[w].lost \in BOOLEAN /\ wk[w].token \in Nat /\ wk[w].serial \in Nat
         /\ wk[w].todo \in SUBSET Workers /\ wk[w].watermark \in Nat
         /\ wk[w].result \in {"none", "ok", "lost", "error"}
BY DEF TypeOK, WorkerType, ConnType, Reqs, Resps

\* Only the connection and the run of w change, and they keep their types.
Only(w) ==
  /\ wk' \in [Workers -> WorkerType] /\ conn' \in [Workers -> ConnType]
  /\ \A v \in Workers \ {w} : wk'[v] = wk[v] /\ conn'[v] = conn[v]

\* What the state file has got stays.
Grows ==
  /\ disk.catalog \in {NoWhere, disk'.catalog}
  /\ disk.entities \subseteq disk'.entities
  /\ \A s \in Shards : disk'.watermarks[s] >= disk.watermarks[s]

\* What the state file has got of a run that does nothing, it keeps.
LEMMA Grown ==
  ASSUME TypeOK, TypeOK', Grows, NEW v \in Workers, wk'[v] = wk[v],
         v \in committed => v \in committed'
  PROVE  (Placed(v) => Placed(v)') /\ (Listed(v) => Listed(v)') /\ (Stored(v) => Stored(v)')
<1>1. wk[v].location # NoWhere /\ wk[v].shard \in Shards /\ wk[v].watermark \in Nat
  BY TypeAt, ConstantsAssumption
<1>2. disk.watermarks[wk[v].shard] \in Nat /\ disk'.watermarks[wk[v].shard] \in Nat
  BY <1>1 DEF TypeOK, StateType
<1> QED BY <1>1, <1>2 DEF Grows, Placed, Listed, Stored

\* A connection that the step leaves alone stays as it should be.
LEMMA OtherLine ==
  ASSUME NEW v \in Workers, wk'[v] = wk[v], conn'[v] = conn[v], LineInv(v)
  PROVE  LineInv(v)'
BY DEF LineInv, Alone, Carries, LockFree

\* A run that the step leaves alone finds all it was told still in the state file.
LEMMA OtherStage ==
  ASSUME TypeOK, TypeOK', Grows, NEW v \in Workers, wk'[v] = wk[v], conn'[v] = conn[v],
         v \in committed <=> v \in committed',
         \A l \in Locations : store[l] \subseteq store'[l], StageInv(v)
  PROVE  StageInv(v)'
<1>1. (Placed(v) => Placed(v)') /\ (Listed(v) => Listed(v)') /\ (Stored(v) => Stored(v)')
  BY Grown
<1>2. disk.entities \subseteq disk'.entities /\ wk[v].location \in Locations
  BY TypeAt DEF Grows
<1> QED BY <1>1, <1>2 DEF StageInv

\* Tokens stay what they are, or a grant makes older ones of those there are.
Newer(s) ==
  \/ next_token'[s] = next_token[s] /\ grants'[s] = grants[s]
  \/ next_token'[s] = next_token[s] + 1

\* A grant to somebody else makes the token of a worker old, never wrong.
LEMMA OtherFence ==
  ASSUME TypeOK, NEW v \in Workers, wk'[v] = wk[v], conn'[v] = conn[v], Newer(wk[v].shard),
         FenceInv(v)
  PROVE  FenceInv(v)'
<1>1. wk[v].token \in Nat /\ next_token[wk[v].shard] \in Nat
  BY TypeAt DEF TypeOK
<1>2. \A r \in Items(conn[v].resp) : r.token \in Nat
  <2>1. Items(conn[v].resp) \subseteq Resps
    BY TypeAt, ItemsIn
  <2> QED BY <2>1 DEF Resps
<1>3. ASSUME NEW t \in Nat, NEW n, Newest(t, n, wk[v].shard)
      PROVE  Newest(t, n, wk[v].shard)'
  BY <1>1, <1>3 DEF Newest, Newer
<1> QED BY <1>1, <1>2, <1>3 DEF FenceInv, Connected

\* A step of the worker w, its heartbeat or its connection.
LEMMA WorkerStep ==
  ASSUME IInv, NEW w \in Workers, Only(w), UNCHANGED <<coordinator, grants, committed>>,
         faults' \in Nat, store' \in [Locations -> SUBSET Workers],
         \A l \in Locations : store[l] \subseteq store'[l],
         LineInv(w)', StageInv(w)', FenceInv(w)'
  PROVE  IInv'
<1>1. TypeOK'
  BY DEF IInv, TypeOK, Only, coordinator
<1>2. MemInv' /\ LeaseInv'
  BY DEF IInv, MemInv, LeaseInv, Ahead, coordinator
<1>3. Grows
  BY DEF Grows, coordinator, IInv, TypeOK, StateType
<1>4. ASSUME NEW v \in Workers \ {w} PROVE LineInv(v)' /\ StageInv(v)' /\ FenceInv(v)'
  <2>1. /\ wk'[v] = wk[v] /\ conn'[v] = conn[v] /\ TypeOK
        /\ LineInv(v) /\ StageInv(v) /\ FenceInv(v)
        /\ Newer(wk[v].shard)
    BY DEF Only, IInv, Newer, coordinator
  <2> QED BY <1>1, <1>3, <2>1, OtherLine, OtherStage, OtherFence
<1> QED BY <1>1, <1>2, <1>4 DEF IInv

-----------------------------------------------------------------------------
(* Steps of a worker *)

\* The run of w has these fields after the step; those it was started with never change.
Becomes(w, pc, hb, lost, token, serial, todo, watermark, result) ==
  /\ wk' \in [Workers -> WorkerType] /\ \A v \in Workers \ {w} : wk'[v] = wk[v]
  /\ wk'[w].location = wk[w].location /\ wk'[w].shard = wk[w].shard
  /\ wk'[w].pc = pc /\ wk'[w].hb = hb /\ wk'[w].lost = lost
  /\ wk'[w].token = token /\ wk'[w].serial = serial
  /\ wk'[w].todo = todo /\ wk'[w].watermark = watermark /\ wk'[w].result = result

\* An update of one run.
LEMMA RunSet ==
  ASSUME TypeOK, NEW w \in Workers, NEW r \in WorkerType, wk' = [wk EXCEPT ![w] = r],
         r.location = wk[w].location, r.shard = wk[w].shard
  PROVE  Becomes(w, r.pc, r.hb, r.lost, r.token, r.serial, r.todo, r.watermark, r.result)
<1>1. wk \in [Workers -> WorkerType]
  BY DEF TypeOK
<1>2. wk' \in [Workers -> WorkerType] /\ wk'[w] = r /\ \A v \in Workers \ {w} : wk'[v] = wk[v]
  BY <1>1
<1> QED BY <1>2 DEF Becomes

\* The run goes on to its next step.
LEMMA GoesOn ==
  ASSUME TypeOK, NEW w \in Workers,
         NEW pc \in WorkerStates,
         wk' = [wk EXCEPT ![w].pc = pc]
  PROVE  Becomes(w, pc, wk[w].hb, wk[w].lost, wk[w].token, wk[w].serial,
                 wk[w].todo, wk[w].watermark, wk[w].result)
<1> DEFINE r == [wk[w] EXCEPT !.pc = pc]
<1>1. /\ r \in WorkerType /\ r.location = wk[w].location /\ r.shard = wk[w].shard
      /\ r.pc = pc /\ r.hb = wk[w].hb /\ r.lost = wk[w].lost
      /\ r.token = wk[w].token /\ r.serial = wk[w].serial
      /\ r.todo = wk[w].todo /\ r.watermark = wk[w].watermark /\ r.result = wk[w].result
  <2>1. wk[w] \in WorkerType
    BY TypeAt
  <2> QED BY <2>1 DEF WorkerType
<1>2. wk' = [wk EXCEPT ![w] = r]
  OBVIOUS
<1> HIDE DEF r
<1> QED BY <1>1, <1>2, RunSet

\* The work of a run has failed.
LEMMA RunFails ==
  ASSUME TypeOK, NEW w \in Workers,
         NEW result \in {"none", "ok", "lost", "error"},
         wk' = [wk EXCEPT ![w].pc = "release", ![w].result = result]
  PROVE  Becomes(w, "release", wk[w].hb, wk[w].lost, wk[w].token, wk[w].serial,
                 wk[w].todo, wk[w].watermark, result)
<1> DEFINE r == [wk[w] EXCEPT !.pc = "release", !.result = result]
<1>1. /\ r \in WorkerType /\ r.location = wk[w].location /\ r.shard = wk[w].shard
      /\ r.pc = "release" /\ r.hb = wk[w].hb /\ r.lost = wk[w].lost
      /\ r.token = wk[w].token /\ r.serial = wk[w].serial
      /\ r.todo = wk[w].todo /\ r.watermark = wk[w].watermark /\ r.result = result
  <2>1. wk[w] \in WorkerType
    BY TypeAt
  <2> QED BY <2>1 DEF WorkerType, WorkerStates, Working, Waiting
<1>2. wk' = [wk EXCEPT ![w] = r]
  OBVIOUS
<1> HIDE DEF r
<1> QED BY <1>1, <1>2, RunSet

\* The run is over.
LEMMA RunEnded ==
  ASSUME TypeOK, NEW w \in Workers,
         NEW result \in {"none", "ok", "lost", "error"},
         wk' = [wk EXCEPT ![w].pc = "ended", ![w].hb = "off", ![w].todo = {}, ![w].result = result]
  PROVE  Becomes(w, "ended", "off", wk[w].lost, wk[w].token, wk[w].serial,
                 {}, wk[w].watermark, result)
<1> DEFINE r == [wk[w] EXCEPT !.pc = "ended", !.hb = "off", !.todo = {}, !.result = result]
<1>1. /\ r \in WorkerType /\ r.location = wk[w].location /\ r.shard = wk[w].shard
      /\ r.pc = "ended" /\ r.hb = "off" /\ r.lost = wk[w].lost
      /\ r.token = wk[w].token /\ r.serial = wk[w].serial
      /\ r.todo = {} /\ r.watermark = wk[w].watermark /\ r.result = result
  <2>1. wk[w] \in WorkerType
    BY TypeAt
  <2> QED BY <2>1 DEF WorkerType, WorkerStates, Working, Waiting
<1>2. wk' = [wk EXCEPT ![w] = r]
  OBVIOUS
<1> HIDE DEF r
<1> QED BY <1>1, <1>2, RunSet

\* The run has got its lease.
LEMMA Granted ==
  ASSUME TypeOK, NEW w \in Workers,
         NEW token \in Nat, NEW serial \in Nat,
         wk' = [wk EXCEPT ![w].pc = "pipeline", ![w].hb = "on", ![w].token = token, ![w].serial = serial]
  PROVE  Becomes(w, "pipeline", "on", wk[w].lost, token, serial,
                 wk[w].todo, wk[w].watermark, wk[w].result)
<1> DEFINE r == [wk[w] EXCEPT !.pc = "pipeline", !.hb = "on", !.token = token, !.serial = serial]
<1>1. /\ r \in WorkerType /\ r.location = wk[w].location /\ r.shard = wk[w].shard
      /\ r.pc = "pipeline" /\ r.hb = "on" /\ r.lost = wk[w].lost
      /\ r.token = token /\ r.serial = serial
      /\ r.todo = wk[w].todo /\ r.watermark = wk[w].watermark /\ r.result = wk[w].result
  <2>1. wk[w] \in WorkerType
    BY TypeAt
  <2> QED BY <2>1 DEF WorkerType, WorkerStates, Working, Waiting
<1>2. wk' = [wk EXCEPT ![w] = r]
  OBVIOUS
<1> HIDE DEF r
<1> QED BY <1>1, <1>2, RunSet

\* The run has listed what it has to record, or has recorded one entry more.
LEMMA Lists ==
  ASSUME TypeOK, NEW w \in Workers,
         NEW pc \in WorkerStates, NEW todo \in SUBSET Workers,
         wk' = [wk EXCEPT ![w].pc = pc, ![w].todo = todo]
  PROVE  Becomes(w, pc, wk[w].hb, wk[w].lost, wk[w].token, wk[w].serial,
                 todo, wk[w].watermark, wk[w].result)
<1> DEFINE r == [wk[w] EXCEPT !.pc = pc, !.todo = todo]
<1>1. /\ r \in WorkerType /\ r.location = wk[w].location /\ r.shard = wk[w].shard
      /\ r.pc = pc /\ r.hb = wk[w].hb /\ r.lost = wk[w].lost
      /\ r.token = wk[w].token /\ r.serial = wk[w].serial
      /\ r.todo = todo /\ r.watermark = wk[w].watermark /\ r.result = wk[w].result
  <2>1. wk[w] \in WorkerType
    BY TypeAt
  <2> QED BY <2>1 DEF WorkerType
<1>2. wk' = [wk EXCEPT ![w] = r]
  OBVIOUS
<1> HIDE DEF r
<1> QED BY <1>1, <1>2, RunSet

\* The run has counted.
LEMMA Counts ==
  ASSUME TypeOK, NEW w \in Workers,
         NEW pc \in WorkerStates, NEW watermark \in Nat,
         wk' = [wk EXCEPT ![w].pc = pc, ![w].watermark = watermark]
  PROVE  Becomes(w, pc, wk[w].hb, wk[w].lost, wk[w].token, wk[w].serial,
                 wk[w].todo, watermark, wk[w].result)
<1> DEFINE r == [wk[w] EXCEPT !.pc = pc, !.watermark = watermark]
<1>1. /\ r \in WorkerType /\ r.location = wk[w].location /\ r.shard = wk[w].shard
      /\ r.pc = pc /\ r.hb = wk[w].hb /\ r.lost = wk[w].lost
      /\ r.token = wk[w].token /\ r.serial = wk[w].serial
      /\ r.todo = wk[w].todo /\ r.watermark = watermark /\ r.result = wk[w].result
  <2>1. wk[w] \in WorkerType
    BY TypeAt
  <2> QED BY <2>1 DEF WorkerType
<1>2. wk' = [wk EXCEPT ![w] = r]
  OBVIOUS
<1> HIDE DEF r
<1> QED BY <1>1, <1>2, RunSet

\* The commit of the run is answered.
LEMMA Answered ==
  ASSUME TypeOK, NEW w \in Workers,
         NEW lost \in BOOLEAN, NEW result \in {"none", "ok", "lost", "error"},
         wk' = [wk EXCEPT ![w].pc = "release", ![w].lost = lost, ![w].result = result]
  PROVE  Becomes(w, "release", wk[w].hb, lost, wk[w].token, wk[w].serial,
                 wk[w].todo, wk[w].watermark, result)
<1> DEFINE r == [wk[w] EXCEPT !.pc = "release", !.lost = lost, !.result = result]
<1>1. /\ r \in WorkerType /\ r.location = wk[w].location /\ r.shard = wk[w].shard
      /\ r.pc = "release" /\ r.hb = wk[w].hb /\ r.lost = lost
      /\ r.token = wk[w].token /\ r.serial = wk[w].serial
      /\ r.todo = wk[w].todo /\ r.watermark = wk[w].watermark /\ r.result = result
  <2>1. wk[w] \in WorkerType
    BY TypeAt
  <2> QED BY <2>1 DEF WorkerType, WorkerStates, Working, Waiting
<1>2. wk' = [wk EXCEPT ![w] = r]
  OBVIOUS
<1> HIDE DEF r
<1> QED BY <1>1, <1>2, RunSet

\* The run has aborted its heartbeat.
LEMMA Aborts ==
  ASSUME TypeOK, NEW w \in Workers,
         wk' = [wk EXCEPT ![w].pc = "releasing", ![w].hb = "off"]
  PROVE  Becomes(w, "releasing", "off", wk[w].lost, wk[w].token, wk[w].serial,
                 wk[w].todo, wk[w].watermark, wk[w].result)
<1> DEFINE r == [wk[w] EXCEPT !.pc = "releasing", !.hb = "off"]
<1>1. /\ r \in WorkerType /\ r.location = wk[w].location /\ r.shard = wk[w].shard
      /\ r.pc = "releasing" /\ r.hb = "off" /\ r.lost = wk[w].lost
      /\ r.token = wk[w].token /\ r.serial = wk[w].serial
      /\ r.todo = wk[w].todo /\ r.watermark = wk[w].watermark /\ r.result = wk[w].result
  <2>1. wk[w] \in WorkerType
    BY TypeAt
  <2> QED BY <2>1 DEF WorkerType, WorkerStates, Working, Waiting
<1>2. wk' = [wk EXCEPT ![w] = r]
  OBVIOUS
<1> HIDE DEF r
<1> QED BY <1>1, <1>2, RunSet

\* The heartbeat has gone out, or was answered.
LEMMA Beats ==
  ASSUME TypeOK, NEW w \in Workers,
         NEW hb \in {"off", "on", "sent"},
         wk' = [wk EXCEPT ![w].hb = hb]
  PROVE  Becomes(w, wk[w].pc, hb, wk[w].lost, wk[w].token, wk[w].serial,
                 wk[w].todo, wk[w].watermark, wk[w].result)
<1> DEFINE r == [wk[w] EXCEPT !.hb = hb]
<1>1. /\ r \in WorkerType /\ r.location = wk[w].location /\ r.shard = wk[w].shard
      /\ r.pc = wk[w].pc /\ r.hb = hb /\ r.lost = wk[w].lost
      /\ r.token = wk[w].token /\ r.serial = wk[w].serial
      /\ r.todo = wk[w].todo /\ r.watermark = wk[w].watermark /\ r.result = wk[w].result
  <2>1. wk[w] \in WorkerType
    BY TypeAt
  <2> QED BY <2>1 DEF WorkerType
<1>2. wk' = [wk EXCEPT ![w] = r]
  OBVIOUS
<1> HIDE DEF r
<1> QED BY <1>1, <1>2, RunSet

\* The heartbeat has ended.
LEMMA BeatStops ==
  ASSUME TypeOK, NEW w \in Workers,
         wk' = [wk EXCEPT ![w].hb = "off", ![w].lost = TRUE]
  PROVE  Becomes(w, wk[w].pc, "off", TRUE, wk[w].token, wk[w].serial,
                 wk[w].todo, wk[w].watermark, wk[w].result)
<1> DEFINE r == [wk[w] EXCEPT !.hb = "off", !.lost = TRUE]
<1>1. /\ r \in WorkerType /\ r.location = wk[w].location /\ r.shard = wk[w].shard
      /\ r.pc = wk[w].pc /\ r.hb = "off" /\ r.lost = TRUE
      /\ r.token = wk[w].token /\ r.serial = wk[w].serial
      /\ r.todo = wk[w].todo /\ r.watermark = wk[w].watermark /\ r.result = wk[w].result
  <2>1. wk[w] \in WorkerType
    BY TypeAt
  <2> QED BY <2>1 DEF WorkerType
<1>2. wk' = [wk EXCEPT ![w] = r]
  OBVIOUS
<1> HIDE DEF r
<1> QED BY <1>1, <1>2, RunSet

\* The connection of w has these fields after the step.
Line(w, up, req, resp) ==
  /\ conn' \in [Workers -> ConnType] /\ \A v \in Workers \ {w} : conn'[v] = conn[v]
  /\ conn'[w].up = up /\ conn'[w].req = req /\ conn'[w].resp = resp

\* An update of one connection.
LEMMA LineSet ==
  ASSUME TypeOK, NEW w \in Workers, NEW c \in ConnType, conn' = [conn EXCEPT ![w] = c]
  PROVE  Line(w, c.up, c.req, c.resp)
<1>1. conn \in [Workers -> ConnType]
  BY DEF TypeOK
<1>2. conn' \in [Workers -> ConnType] /\ conn'[w] = c /\ \A v \in Workers \ {w} : conn'[v] = conn[v]
  BY <1>1
<1> QED BY <1>2 DEF Line

\* The three parts of a connection.
LEMMA LineParts == ConnType = [up : BOOLEAN, req : Seq(Reqs), resp : Seq(Resps)]
BY DEF ConnType, Reqs, Resps

\* A request is put behind those under way.
LEMMA SendLine ==
  ASSUME TypeOK, NEW w \in Workers, NEW r \in Reqs, conn' = [conn EXCEPT ![w].req = Append(@, r)]
  PROVE  Line(w, conn[w].up, Append(conn[w].req, r), conn[w].resp)
<1> DEFINE req == Append(conn[w].req, r)
           d == [conn[w] EXCEPT !.req = req]
<1>1. req \in Seq(Reqs) /\ conn[w] \in ConnType
  BY TypeAt, AppendItems
<1>2. d \in ConnType /\ d.up = conn[w].up /\ d.req = req /\ d.resp = conn[w].resp
  <2> HIDE DEF req
  <2> QED BY <1>1, LineParts
<1>3. conn' = [conn EXCEPT ![w] = d]
  OBVIOUS
<1> HIDE DEF d
<1> QED BY <1>2, <1>3, LineSet

\* An answer is taken; when it was alone, nothing is under way any more.
LEMMA ReceiveLine ==
  ASSUME TypeOK, NEW w \in Workers, Receive(w)
  PROVE  /\ Line(w, conn[w].up, conn[w].req, Tail(conn[w].resp)) /\ conn[w].resp # <<>>
         /\ Response(w) \in Resps /\ Response(w) \in Items(conn[w].resp)
         /\ Items(Tail(conn[w].resp)) \subseteq Items(conn[w].resp)
         /\ Alone(w) => conn[w].req = <<>> /\ Tail(conn[w].resp) = <<>>
<1> DEFINE resp == Tail(conn[w].resp)
           d == [conn[w] EXCEPT !.resp = resp]
<1>1. conn[w].resp # <<>> /\ conn' = [conn EXCEPT ![w] = d]
  BY DEF Receive
<1>2. conn[w] \in ConnType /\ conn[w].resp \in Seq(Resps) /\ conn[w].req \in Seq(Reqs)
  BY TypeAt
<1>3. /\ Head(conn[w].resp) \in Resps /\ Head(conn[w].resp) \in Items(conn[w].resp)
      /\ resp \in Seq(Resps) /\ Items(resp) \subseteq Items(conn[w].resp)
      /\ Len(conn[w].resp) \in Nat /\ Len(resp) = Len(conn[w].resp) - 1
      /\ Len(conn[w].resp) > 0
  BY <1>1, <1>2, HeadTail
<1>4. d \in ConnType /\ d.up = conn[w].up /\ d.req = conn[w].req /\ d.resp = resp
  <2>1. resp \in Seq(Resps)
    BY <1>3
  <2> HIDE DEF resp
  <2> QED BY <1>2, <2>1, LineParts
<1>5. Alone(w) => conn[w].req = <<>> /\ resp = <<>>
  <2> HIDE DEF resp
  <2>1. Len(conn[w].req) \in Nat
    BY <1>2, LenProperties
  <2>2. conn[w].req # <<>> => Len(conn[w].req) > 0
    BY <1>2, HeadTail
  <2>3. resp # <<>> => Len(resp) > 0
    BY <1>3, HeadTail
  <2>4. Len(conn[w].resp) \in Nat /\ Len(resp) = Len(conn[w].resp) - 1 /\ Len(conn[w].resp) > 0
    BY <1>3
  <2>5. Alone(w) => Len(conn[w].req) = 0 /\ Len(resp) = 0
    <3>1. \A a, b \in Nat : a + b <= 1 /\ b > 0 => a = 0 /\ b - 1 = 0
      OBVIOUS
    <3> QED BY <2>1, <2>4, <3>1, Zenon DEF Alone
  <2> QED BY <2>2, <2>3, <2>5
<1> HIDE DEF d
<1>6. Line(w, conn[w].up, conn[w].req, resp)
  BY <1>1, <1>4, LineSet
<1> QED BY <1>1, <1>3, <1>5, <1>6 DEF Response

\* The process ends, and with it its side of the connection.
LEMMA EndedLine ==
  ASSUME TypeOK, NEW w \in Workers, NEW result \in {"none", "ok", "lost", "error"},
         Ended(w, result)
  PROVE  /\ Line(w, FALSE, conn[w].req, <<>>)
         /\ Becomes(w, "ended", "off", wk[w].lost, wk[w].token, wk[w].serial, {}, wk[w].watermark,
                    result)
<1> DEFINE d == [conn[w] EXCEPT !.up = FALSE, !.resp = <<>>]
<1>1. d \in ConnType /\ d.up = FALSE /\ d.req = conn[w].req /\ d.resp = <<>>
  <2>1. conn[w] \in ConnType /\ <<>> \in Seq(Resps) /\ <<>> \in Seq(Reqs) /\ FALSE \in BOOLEAN
    BY TypeAt, EmptyItems
  <2> QED BY <2>1, LineParts
<1>2. conn' = [conn EXCEPT ![w] = d]
  BY DEF Ended
<1> HIDE DEF d
<1>3. Line(w, FALSE, conn[w].req, <<>>)
  BY <1>1, <1>2, LineSet
<1> QED BY <1>3, RunEnded DEF Ended

\* The connection is as it was.
LEMMA SameLine ==
  ASSUME TypeOK, NEW w \in Workers, UNCHANGED conn
  PROVE  Line(w, conn[w].up, conn[w].req, conn[w].resp)
BY DEF TypeOK, Line

\* A request goes out on a connection in which nothing is under way.
LEMMA SendAlone ==
  ASSUME TypeOK, NEW w \in Workers, LineInv(w), NEW op \in Ops, NEW e \in Workers, Send(w, op, e)
  PROVE  /\ Line(w, TRUE, conn'[w].req, <<>>)
         /\ Items(conn'[w].req) = {Request(op, e)} /\ Items(conn'[w].resp) = {}
         /\ Request(op, e).op = op /\ Request(op, e).entity = e
         /\ Alone(w)' /\ LockFree(w) /\ conn[w].up
<1> DEFINE r == Request(op, e)
<1>1. r \in Reqs /\ r.op = op /\ r.entity = e
  BY DEF Request, Reqs
<1>2. conn[w].up /\ LockFree(w) /\ conn' = [conn EXCEPT ![w].req = Append(@, r)]
  BY DEF Send
<1>3. conn[w].req = <<>> /\ conn[w].resp = <<>> /\ conn[w].up = TRUE
  BY <1>2, TypeAt DEF LineInv
<1> HIDE DEF r
<1>4. Line(w, conn[w].up, Append(conn[w].req, r), conn[w].resp)
  BY <1>1, <1>2, SendLine
<1>5. /\ Items(Append(<<>>, r)) = Items(<<>>) \cup {r} /\ Len(Append(<<>>, r)) = Len(<<>>) + 1
  BY <1>1, AppendItems, EmptyItems
<1>6. conn'[w].req = Append(<<>>, r) /\ conn'[w].resp = <<>> /\ Line(w, TRUE, conn'[w].req, <<>>)
  BY <1>3, <1>4 DEF Line
<1>7. Items(conn'[w].req) = {r} /\ Items(conn'[w].resp) = {} /\ Alone(w)'
  BY <1>5, <1>6, EmptyItems DEF Alone
<1> QED BY <1>1, <1>2, <1>6, <1>7 DEF r

\* The one answer under way is read.
LEMMA ReceiveAlone ==
  ASSUME TypeOK, NEW w \in Workers, Alone(w), Receive(w)
  PROVE  /\ Line(w, conn[w].up, <<>>, <<>>) /\ conn[w].req = <<>>
         /\ Response(w) \in Resps /\ Response(w) \in Items(conn[w].resp)
         /\ Items(conn'[w].req) = {} /\ Items(conn'[w].resp) = {} /\ Alone(w)'
<1>1. Line(w, conn[w].up, <<>>, <<>>) /\ conn[w].req = <<>>
  BY ReceiveLine
<1>2. conn'[w].req = <<>> /\ conn'[w].resp = <<>>
  BY <1>1 DEF Line
<1>3. Items(conn'[w].req) = {} /\ Items(conn'[w].resp) = {} /\ Alone(w)'
  BY <1>2, EmptyItems DEF Alone
<1> QED BY <1>1, <1>3, ReceiveLine

\* A worker keeps its token, and no new answer is under way to it.
LEMMA FenceKept ==
  ASSUME TypeOK, NEW w \in Workers, FenceInv(w), UNCHANGED <<coordinator, grants>>,
         wk'[w].token = wk[w].token, wk'[w].serial = wk[w].serial, wk'[w].shard = wk[w].shard,
         Connected(w)' => Connected(w), Items(conn'[w].resp) \subseteq Items(conn[w].resp)
  PROVE  FenceInv(w)'
BY DEF FenceInv, Newest, coordinator

\* The process connects: nothing has been sent yet.
LEMMA ConnectStep ==
  ASSUME IInv, NEW w \in Workers, Connect(w)
  PROVE  IInv'
<1>1. TypeOK /\ LineInv(w) /\ StageInv(w)
  BY DEF IInv
<1>2. /\ wk[w].pc = "start" /\ UNCHANGED <<coordinator, store, faults, grants, committed>>
      /\ Becomes(w, "acquire", wk[w].hb, wk[w].lost, wk[w].token, wk[w].serial, wk[w].todo,
                 wk[w].watermark, wk[w].result)
  BY <1>1, GoesOn DEF Connect, NotWorker, WorkerStates
<1>3. Line(w, TRUE, <<>>, <<>>)
  <2> DEFINE d == [conn[w] EXCEPT !.up = TRUE]
  <2>1. d \in ConnType /\ d.up = TRUE /\ d.req = <<>> /\ d.resp = <<>>
    <3>1. conn[w].req = <<>> /\ conn[w].resp = <<>> /\ conn[w] \in ConnType
      BY <1>1, <1>2, TypeAt DEF LineInv, Disconnected
    <3> QED BY <3>1, LineParts
  <2>2. conn' = [conn EXCEPT ![w] = d]
    BY DEF Connect
  <2> HIDE DEF d
  <2> QED BY <1>1, <2>1, <2>2, LineSet
<1>4. Items(conn'[w].req) = {} /\ Items(conn'[w].resp) = {}
  BY <1>3, EmptyItems DEF Line
<1>5. LineInv(w)'
  BY <1>1, <1>2, <1>3, <1>4, TypeAt DEF LineInv, Line, Becomes, Waiting, Working
<1>6. StageInv(w)'
  BY <1>1, <1>2, <1>4 DEF StageInv, Becomes, coordinator, Placed, Listed, Stored
<1>7. FenceInv(w)'
  <2>1. wk'[w].token = 0 /\ next_token'[wk'[w].shard] \in Nat
    BY <1>1, <1>2, TypeAt DEF LineInv, Becomes, coordinator, TypeOK
  <2> QED BY <1>4, <2>1 DEF FenceInv, Newest
<1> QED BY <1>1, <1>2, <1>3, <1>5, <1>6, <1>7, WorkerStep DEF Only, Becomes, Line, TypeOK

\* LeaseAcquire goes out alone.
LEMMA SendAcquireStep ==
  ASSUME IInv, NEW w \in Workers, SendAcquire(w)
  PROVE  IInv'
<1>1. TypeOK /\ LineInv(w) /\ StageInv(w) /\ FenceInv(w)
  BY DEF IInv
<1>2. /\ wk[w].pc = "acquire" /\ UNCHANGED <<coordinator, store, faults, grants, committed>>
      /\ Becomes(w, "acquiring", wk[w].hb, wk[w].lost, wk[w].token, wk[w].serial, wk[w].todo,
                 wk[w].watermark, wk[w].result)
  BY <1>1, GoesOn DEF SendAcquire, NotWorker, WorkerStates, Waiting
<1>3. /\ Line(w, TRUE, conn'[w].req, <<>>)
      /\ Items(conn'[w].req) = {Request("acquire", w)} /\ Items(conn'[w].resp) = {}
      /\ Request("acquire", w).op = "acquire" /\ Request("acquire", w).entity = w
      /\ Alone(w)' /\ LockFree(w) /\ conn[w].up
  BY <1>1, SendAlone DEF SendAcquire, Ops
<1>4. LineInv(w)'
  BY <1>1, <1>2, <1>3, TypeAt DEF LineInv, Line, Becomes, Waiting, Working, LockFree, Carries
<1>5. StageInv(w)'
  BY <1>1, <1>2, <1>3 DEF StageInv, Becomes, coordinator, Placed, Listed, Stored
<1>6. FenceInv(w)'
  BY <1>1, <1>2, <1>3, FenceKept DEF Becomes, Connected
<1> QED BY <1>1, <1>2, <1>3, <1>4, <1>5, <1>6, WorkerStep DEF Only, Becomes, Line, TypeOK

\* CatalogRegister goes out alone, with the run's own entity still to record.
LEMMA SendRegisterStep ==
  ASSUME IInv, NEW w \in Workers, SendRegister(w)
  PROVE  IInv'
<1>1. TypeOK /\ LineInv(w) /\ StageInv(w) /\ FenceInv(w)
  BY DEF IInv
<1>2. /\ wk[w].pc = "register" /\ UNCHANGED <<coordinator, store, faults, grants, committed>>
      /\ Becomes(w, "registering", wk[w].hb, wk[w].lost, wk[w].token, wk[w].serial, wk[w].todo,
                 wk[w].watermark, wk[w].result)
  BY <1>1, GoesOn DEF SendRegister, NotWorker, WorkerStates, Waiting
<1>3. /\ Line(w, TRUE, conn'[w].req, <<>>)
      /\ Items(conn'[w].req) = {Request("register", w)} /\ Items(conn'[w].resp) = {}
      /\ Request("register", w).op = "register" /\ Request("register", w).entity = w
      /\ Alone(w)' /\ LockFree(w) /\ conn[w].up
  BY <1>1, SendAlone DEF SendRegister, Ops
<1>4. LineInv(w)'
  BY <1>1, <1>2, <1>3, TypeAt DEF LineInv, Line, Becomes, Waiting, Working, LockFree, Carries
<1>5. StageInv(w)'
  BY <1>1, <1>2, <1>3 DEF StageInv, Becomes, coordinator, Placed, Listed, Stored
<1>6. FenceInv(w)'
  BY <1>1, <1>2, <1>3, FenceKept DEF Becomes, Connected
<1> QED BY <1>1, <1>2, <1>3, <1>4, <1>5, <1>6, WorkerStep DEF Only, Becomes, Line, TypeOK

\* ManifestCommit goes out after everything has been registered.
LEMMA SendCommitStep ==
  ASSUME IInv, NEW w \in Workers, SendCommit(w)
  PROVE  IInv'
<1>1. TypeOK /\ LineInv(w) /\ StageInv(w) /\ FenceInv(w)
  BY DEF IInv
<1>2. /\ wk[w].pc = "record" /\ UNCHANGED <<coordinator, store, faults, grants, committed>>
      /\ Becomes(w, "committing", wk[w].hb, wk[w].lost, wk[w].token, wk[w].serial, wk[w].todo,
                 wk[w].watermark, wk[w].result)
  BY <1>1, GoesOn DEF SendCommit, NotWorker, WorkerStates, Waiting
<1>3. /\ Line(w, TRUE, conn'[w].req, <<>>)
      /\ Items(conn'[w].req) = {Request("commit", w)} /\ Items(conn'[w].resp) = {}
      /\ Request("commit", w).op = "commit" /\ Request("commit", w).entity = w
      /\ Alone(w)' /\ LockFree(w) /\ conn[w].up
  BY <1>1, SendAlone DEF SendCommit, Ops
<1>4. LineInv(w)'
  BY <1>1, <1>2, <1>3, TypeAt DEF LineInv, Line, Becomes, Waiting, Working, LockFree, Carries
<1>5. StageInv(w)'
  BY <1>1, <1>2, <1>3 DEF SendCommit, AllRecorded, StageInv, Becomes, coordinator, Placed, Listed, Stored
<1>6. FenceInv(w)'
  BY <1>1, <1>2, <1>3, FenceKept DEF Becomes, Connected
<1> QED BY <1>1, <1>2, <1>3, <1>4, <1>5, <1>6, WorkerStep DEF Only, Becomes, Line, TypeOK

\* An entity leaves the list only as a request under way.
LEMMA SendRecordStep ==
  ASSUME IInv, NEW w \in Workers, SendRecord(w)
  PROVE  IInv'
<1>1. TypeOK /\ LineInv(w) /\ StageInv(w) /\ FenceInv(w)
  BY DEF IInv
<1>2. PICK e \in wk[w].todo : /\ Send(w, "record", e)
                             /\ wk' = [wk EXCEPT ![w].pc = "recording", ![w].todo = @ \ {e}]
  BY DEF SendRecord
<1>3. wk[w].todo \in SUBSET Workers /\ e \in Workers
  BY <1>1, TypeAt
<1>4. /\ wk[w].pc = "record" /\ UNCHANGED <<coordinator, store, faults, grants, committed>>
      /\ Becomes(w, "recording", wk[w].hb, wk[w].lost, wk[w].token, wk[w].serial,
                 wk[w].todo \ {e}, wk[w].watermark, wk[w].result)
  BY <1>1, <1>2, <1>3, Lists DEF SendRecord, NotWorker, WorkerStates, Waiting
<1>5. /\ Line(w, TRUE, conn'[w].req, <<>>)
      /\ Items(conn'[w].req) = {Request("record", e)} /\ Items(conn'[w].resp) = {}
      /\ Request("record", e).op = "record" /\ Request("record", e).entity = e
      /\ Alone(w)' /\ LockFree(w) /\ conn[w].up
  BY <1>1, <1>2, <1>3, SendAlone DEF Ops
<1>6. LineInv(w)'
  BY <1>1, <1>4, <1>5, TypeAt DEF LineInv, Line, Becomes, Waiting, Working, LockFree, Carries
<1>7. StageInv(w)'
  BY <1>1, <1>4, <1>5 DEF StageInv, Becomes, coordinator, Placed, Listed, Stored
<1>8. FenceInv(w)'
  BY <1>1, <1>4, <1>5, FenceKept DEF Becomes, Connected
<1> QED BY <1>1, <1>4, <1>5, <1>6, <1>7, <1>8, WorkerStep DEF Only, Becomes, Line, TypeOK

\* A renewal goes out while the run is not waiting.
LEMMA HeartbeatSendStep ==
  ASSUME IInv, NEW w \in Workers, HeartbeatSend(w)
  PROVE  IInv'
<1>1. TypeOK /\ LineInv(w) /\ StageInv(w) /\ FenceInv(w)
  BY DEF IInv
<1>2. /\ wk[w].hb = "on" /\ UNCHANGED <<coordinator, store, faults, grants, committed>>
      /\ Becomes(w, wk[w].pc, "sent", wk[w].lost, wk[w].token, wk[w].serial, wk[w].todo,
                 wk[w].watermark, wk[w].result)
  BY <1>1, Beats DEF HeartbeatSend, NotWorker
<1>3. /\ Line(w, TRUE, conn'[w].req, <<>>)
      /\ Items(conn'[w].req) = {Request("renew", w)} /\ Items(conn'[w].resp) = {}
      /\ Request("renew", w).op = "renew" /\ Request("renew", w).entity = w
      /\ Alone(w)' /\ LockFree(w) /\ conn[w].up
  BY <1>1, SendAlone DEF HeartbeatSend, Ops
<1>4. LineInv(w)'
  BY <1>1, <1>2, <1>3, TypeAt DEF LineInv, Line, Becomes, Waiting, Working, LockFree, Carries
<1>5. StageInv(w)'
  BY <1>1, <1>2, <1>3 DEF LockFree, Waiting, StageInv, Becomes, coordinator, Placed, Listed, Stored
<1>6. FenceInv(w)'
  BY <1>1, <1>2, <1>3, FenceKept DEF Becomes, Connected
<1> QED BY <1>1, <1>2, <1>3, <1>4, <1>5, <1>6, WorkerStep DEF Only, Becomes, Line, TypeOK

\* The token read is the newest, or an older one of the same coordinator.
LEMMA AcquiredStep ==
  ASSUME IInv, NEW w \in Workers, Acquired(w)
  PROVE  IInv'
<1>1. TypeOK /\ LineInv(w) /\ StageInv(w) /\ FenceInv(w)
  BY DEF IInv
<1>2. wk[w].pc = "acquiring" /\ Receive(w) /\ Response(w).status = "lease" /\ UNCHANGED <<coordinator, store, faults, grants, committed>>
  BY DEF Acquired, NotWorker
<1>3. Alone(w)
  BY <1>1, <1>2 DEF LineInv, Waiting
<1>4. /\ Line(w, conn[w].up, <<>>, <<>>) /\ conn[w].req = <<>>
      /\ Response(w) \in Resps /\ Response(w) \in Items(conn[w].resp)
      /\ Items(conn'[w].req) = {} /\ Items(conn'[w].resp) = {} /\ Alone(w)'
  BY <1>1, <1>2, <1>3, ReceiveAlone
<1>5. Becomes(w, "pipeline", "on", wk[w].lost, Response(w).token, Response(w).serial, wk[w].todo,
              wk[w].watermark, wk[w].result)
  <2>1. Response(w).token \in Nat /\ Response(w).serial \in Nat
    BY <1>4 DEF Resps
  <2> QED BY <1>1, <2>1, Granted DEF Acquired
<1>6. LineInv(w)'
  BY <1>1, <1>2, <1>4, <1>5, TypeAt DEF LineInv, Line, Becomes, Waiting, Working, LockFree, Carries
<1>7. StageInv(w)'
  BY <1>1, <1>2, <1>4, <1>5 DEF StageInv, Becomes, coordinator, Placed, Listed, Stored
<1>8. FenceInv(w)'
  <2>1. Response(w).op = "acquire"
    BY <1>1, <1>2, <1>4 DEF LineInv, Carries
  <2>2. Connected(w) => Newest(Response(w).token, Response(w).serial, wk[w].shard)
    BY <1>1, <1>2, <1>4, <2>1 DEF FenceInv
  <2> QED BY <1>2, <1>4, <1>5, <2>2 DEF FenceInv, Newest, Becomes, Line, Connected, coordinator
<1> QED BY <1>1, <1>2, <1>4, <1>5, <1>6, <1>7, <1>8, WorkerStep DEF Only, Becomes, Line, TypeOK

\* A refused grant leaves the worker as it was.
LEMMA RetryAcquireStep ==
  ASSUME IInv, NEW w \in Workers, RetryAcquire(w)
  PROVE  IInv'
<1>1. TypeOK /\ LineInv(w) /\ StageInv(w) /\ FenceInv(w)
  BY DEF IInv
<1>2. wk[w].pc = "acquiring" /\ Receive(w) /\ UNCHANGED <<coordinator, store, faults, grants, committed>>
  BY DEF RetryAcquire, NotWorker
<1>3. Alone(w)
  BY <1>1, <1>2 DEF LineInv, Waiting
<1>4. /\ Line(w, conn[w].up, <<>>, <<>>) /\ conn[w].req = <<>>
      /\ Response(w) \in Resps /\ Response(w) \in Items(conn[w].resp)
      /\ Items(conn'[w].req) = {} /\ Items(conn'[w].resp) = {} /\ Alone(w)'
  BY <1>1, <1>2, <1>3, ReceiveAlone
<1>5. Becomes(w, "acquire", wk[w].hb, wk[w].lost, wk[w].token, wk[w].serial, wk[w].todo,
                 wk[w].watermark, wk[w].result)
  BY <1>1, GoesOn DEF RetryAcquire, WorkerStates
<1>6. LineInv(w)'
  BY <1>1, <1>2, <1>4, <1>5, TypeAt DEF LineInv, Line, Becomes, Waiting, Working, LockFree, Carries
<1>7. StageInv(w)'
  BY <1>1, <1>2, <1>4, <1>5 DEF StageInv, Becomes, coordinator, Placed, Listed, Stored
<1>8. FenceInv(w)'
  BY <1>1, <1>2, <1>4, <1>5, FenceKept DEF Becomes, Connected, Line
<1> QED BY <1>1, <1>2, <1>4, <1>5, <1>6, <1>7, <1>8, WorkerStep DEF Only, Becomes, Line, TypeOK

\* An accepted answer means that the state file has got it.
LEMMA RegisteredStep ==
  ASSUME IInv, NEW w \in Workers, Registered(w)
  PROVE  IInv'
<1>1. TypeOK /\ LineInv(w) /\ StageInv(w) /\ FenceInv(w)
  BY DEF IInv
<1>2. wk[w].pc \in {"registering", "recording"} /\ Receive(w) /\ UNCHANGED <<coordinator, store, faults, grants, committed>>
  BY DEF Registered, NotWorker
<1>3. Alone(w)
  BY <1>1, <1>2 DEF LineInv, Waiting
<1>4. /\ Line(w, conn[w].up, <<>>, <<>>) /\ conn[w].req = <<>>
      /\ Response(w) \in Resps /\ Response(w) \in Items(conn[w].resp)
      /\ Items(conn'[w].req) = {} /\ Items(conn'[w].resp) = {} /\ Alone(w)'
  BY <1>1, <1>2, <1>3, ReceiveAlone
<1>5. CASE Accepted(Response(w))
  <2>1. Becomes(w, "record", wk[w].hb, wk[w].lost, wk[w].token, wk[w].serial, wk[w].todo,
                 wk[w].watermark, wk[w].result)
    BY <1>1, <1>5, GoesOn DEF Registered, WorkerStates, Working
  <2>2. LineInv(w)'
    BY <1>1, <1>2, <1>4, <2>1, TypeAt DEF LineInv, Line, Becomes, Waiting, Working, LockFree, Carries
  <2>3. StageInv(w)'
    BY <1>1, <1>2, <1>4, <1>5, <2>1 DEF StageInv, Becomes, coordinator, Placed, Listed, Stored
  <2>4. FenceInv(w)'
    BY <1>1, <1>2, <1>4, <2>1, FenceKept DEF Becomes, Connected, Line
  <2> QED BY <1>1, <1>2, <1>4, <2>1, <2>2, <2>3, <2>4, WorkerStep DEF Only, Becomes, Line, TypeOK
<1>6. CASE ~Accepted(Response(w))
  <2>1. Becomes(w, "release", wk[w].hb, wk[w].lost, wk[w].token, wk[w].serial, wk[w].todo,
                wk[w].watermark, "error")
    BY <1>1, <1>6, RunFails DEF Registered, Fails
  <2>2. LineInv(w)'
    BY <1>1, <1>2, <1>4, <2>1, TypeAt DEF LineInv, Line, Becomes, Waiting, Working, LockFree, Carries
  <2>3. StageInv(w)'
    BY <1>1, <1>2, <1>4, <2>1 DEF StageInv, Becomes, coordinator, Placed, Listed, Stored
  <2>4. FenceInv(w)'
    BY <1>1, <1>2, <1>4, <2>1, FenceKept DEF Becomes, Connected, Line
  <2> QED BY <1>1, <1>2, <1>4, <2>1, <2>2, <2>3, <2>4, WorkerStep DEF Only, Becomes, Line, TypeOK
<1> QED BY <1>5, <1>6

\* Only an accepted commit makes the result ok.
LEMMA CommitAnsweredStep ==
  ASSUME IInv, NEW w \in Workers, CommitAnswered(w)
  PROVE  IInv'
<1>1. TypeOK /\ LineInv(w) /\ StageInv(w) /\ FenceInv(w)
  BY DEF IInv
<1>2. wk[w].pc = "committing" /\ Receive(w) /\ UNCHANGED <<coordinator, store, faults, grants, committed>>
  BY DEF CommitAnswered, NotWorker
<1>3. Alone(w)
  BY <1>1, <1>2 DEF LineInv, Waiting
<1>4. /\ Line(w, conn[w].up, <<>>, <<>>) /\ conn[w].req = <<>>
      /\ Response(w) \in Resps /\ Response(w) \in Items(conn[w].resp)
      /\ Items(conn'[w].req) = {} /\ Items(conn'[w].resp) = {} /\ Alone(w)'
  BY <1>1, <1>2, <1>3, ReceiveAlone
<1> DEFINE ok == Accepted(Response(w))
           result == IF ok THEN "ok" ELSE "lost"
           lost == wk[w].lost \/ ~ok
<1>5. Becomes(w, "release", wk[w].hb, lost, wk[w].token, wk[w].serial, wk[w].todo,
              wk[w].watermark, result)
  <2>1. lost \in BOOLEAN /\ result \in {"none", "ok", "lost", "error"}
    OBVIOUS
  <2>2. wk' = [wk EXCEPT ![w].pc = "release", ![w].lost = lost, ![w].result = result]
    BY DEF CommitAnswered
  <2> HIDE DEF lost, result
  <2> QED BY <1>1, <2>1, <2>2, Answered
<1>6. LineInv(w)'
  BY <1>1, <1>2, <1>4, <1>5, TypeAt DEF LineInv, Line, Becomes, Waiting, Working, LockFree, Carries
<1>7. StageInv(w)'
  BY <1>1, <1>2, <1>4, <1>5 DEF StageInv, Becomes, coordinator, Placed, Listed, Stored
<1>8. FenceInv(w)'
  BY <1>1, <1>2, <1>4, <1>5, FenceKept DEF Becomes, Connected, Line
<1> QED BY <1>1, <1>2, <1>4, <1>5, <1>6, <1>7, <1>8, WorkerStep DEF Only, Becomes, Line, TypeOK

\* The answer to a renewal changes nothing but the heartbeat.
LEMMA HeartbeatAnsweredStep ==
  ASSUME IInv, NEW w \in Workers, HeartbeatAnswered(w)
  PROVE  IInv'
<1>1. TypeOK /\ LineInv(w) /\ StageInv(w) /\ FenceInv(w)
  BY DEF IInv
<1>2. wk[w].hb = "sent" /\ Receive(w) /\ UNCHANGED <<coordinator, store, faults, grants, committed>>
  BY DEF HeartbeatAnswered, NotWorker
<1>3. Alone(w)
  BY <1>1, <1>2 DEF LineInv, Waiting
<1>4. /\ Line(w, conn[w].up, <<>>, <<>>) /\ conn[w].req = <<>>
      /\ Response(w) \in Resps /\ Response(w) \in Items(conn[w].resp)
      /\ Items(conn'[w].req) = {} /\ Items(conn'[w].resp) = {} /\ Alone(w)'
  BY <1>1, <1>2, <1>3, ReceiveAlone
<1>5. PICK h \in {"on", "off"}, l \in BOOLEAN :
        Becomes(w, wk[w].pc, h, l, wk[w].token, wk[w].serial, wk[w].todo,
                wk[w].watermark, wk[w].result)
  <2>1. CASE Response(w).status = "lease"
    <3>1. Becomes(w, wk[w].pc, "on", wk[w].lost, wk[w].token, wk[w].serial, wk[w].todo,
                  wk[w].watermark, wk[w].result)
      BY <1>1, <2>1, Beats DEF HeartbeatAnswered
    <3> QED BY <1>1, <3>1, TypeAt
  <2>2. CASE Response(w).status # "lease"
    <3>1. Becomes(w, wk[w].pc, "off", TRUE, wk[w].token, wk[w].serial, wk[w].todo,
                  wk[w].watermark, wk[w].result)
      BY <1>1, <2>2, BeatStops DEF HeartbeatAnswered
    <3> QED BY <3>1
  <2> QED BY <2>1, <2>2
<1>6. LineInv(w)'
  BY <1>1, <1>2, <1>4, <1>5, TypeAt DEF LineInv, Line, Becomes, Waiting, Working, LockFree, Carries
<1>7. StageInv(w)'
  BY <1>1, <1>2, <1>4, <1>5 DEF LineInv, Waiting, StageInv, Becomes, coordinator, Placed, Listed, Stored
<1>8. FenceInv(w)'
  BY <1>1, <1>2, <1>4, <1>5, FenceKept DEF Becomes, Connected, Line
<1> QED BY <1>1, <1>2, <1>4, <1>5, <1>6, <1>7, <1>8, WorkerStep DEF Only, Becomes, Line, TypeOK

\* A process that ends leaves its requests behind.
LEMMA EndsStep ==
  ASSUME IInv, NEW w \in Workers, NEW result \in {"none", "ok", "lost", "error"},
         Ended(w, result), result = "ok" => wk[w].result = "ok",
         UNCHANGED <<coordinator, store, grants, committed>>, faults' \in Nat
  PROVE  IInv'
<1>1. TypeOK /\ LineInv(w) /\ StageInv(w) /\ FenceInv(w)
  BY DEF IInv
<1>2. /\ Line(w, FALSE, conn[w].req, <<>>)
      /\ Becomes(w, "ended", "off", wk[w].lost, wk[w].token, wk[w].serial, {}, wk[w].watermark,
                 result)
  BY <1>1, EndedLine
<1>3. Items(conn'[w].resp) = {} /\ conn'[w].req = conn[w].req
  BY <1>2, EmptyItems DEF Line
<1>4. LineInv(w)'
  BY <1>1, <1>2, <1>3 DEF LineInv, Line, Becomes, Waiting, Working, LockFree, Carries
<1>5. StageInv(w)'
  BY <1>1, <1>2, <1>3 DEF StageInv, Becomes, coordinator, Placed, Listed, Stored
<1>6. FenceInv(w)'
  BY <1>1, <1>2, <1>3, FenceKept DEF Becomes, Connected, Line
<1> QED BY <1>1, <1>2, <1>4, <1>5, <1>6, WorkerStep DEF Only, Becomes, Line, TypeOK

\* run_shard returns ok only if the work did.
LEMMA OutcomeOk ==
  ASSUME TypeOK, NEW w \in Workers
  PROVE  /\ Outcome(w) \in {"none", "ok", "lost", "error"}
         /\ Outcome(w) = "ok" => wk[w].result = "ok"
BY TypeAt DEF Outcome

\* The three ways in which a process with a connection ends.
LEMMA EndingSteps ==
  ASSUME IInv, NEW w \in Workers, GiveUp(w) \/ ReleaseAnswered(w) \/ Die(w)
  PROVE  IInv'
<1>1. TypeOK /\ faults \in Nat
  BY DEF IInv, TypeOK
<1>2. CASE GiveUp(w)
  BY <1>1, <1>2, EndsStep DEF GiveUp, NotWorker
<1>3. CASE ReleaseAnswered(w)
  BY <1>1, <1>3, OutcomeOk, EndsStep DEF ReleaseAnswered, NotWorker
<1>4. CASE Die(w)
  BY <1>1, <1>4, EndsStep DEF Die, Fault
<1> QED BY <1>2, <1>3, <1>4

\* The pipeline or the listing fails before anything is registered.
LEMMA WorkFailsStep ==
  ASSUME IInv, NEW w \in Workers, WorkFails(w)
  PROVE  IInv'
<1>1. TypeOK /\ LineInv(w) /\ StageInv(w) /\ FenceInv(w)
  BY DEF IInv
<1>2. wk[w].pc \in {"pipeline", "finalize", "count"} /\ UNCHANGED conn /\ UNCHANGED <<coordinator, store, faults, grants, committed>>
  BY DEF WorkFails, NotWorker, LockFree
<1>3. Becomes(w, "release", wk[w].hb, wk[w].lost, wk[w].token, wk[w].serial, wk[w].todo,
              wk[w].watermark, "error")
  BY <1>1, RunFails DEF WorkFails, Fails
<1>4. Line(w, conn[w].up, conn[w].req, conn[w].resp)
  BY <1>1, <1>2, SameLine
<1>5. LineInv(w)'
  BY <1>1, <1>2, <1>3, <1>4, TypeAt DEF Alone, LineInv, Line, Becomes, Waiting, Working, LockFree, Carries
<1>6. StageInv(w)'
  BY <1>1, <1>2, <1>3, <1>4 DEF Line, StageInv, Becomes, coordinator, Placed, Listed, Stored
<1>7. FenceInv(w)'
  BY <1>1, <1>2, <1>3, <1>4, FenceKept DEF Becomes, Connected, Line
<1> QED BY <1>1, <1>2, <1>3, <1>4, <1>5, <1>6, <1>7, WorkerStep DEF Only, Becomes, Line, TypeOK

\* The list holds what the run has written.
LEMMA ListEntitiesStep ==
  ASSUME IInv, NEW w \in Workers, ListEntities(w)
  PROVE  IInv'
<1>1. TypeOK /\ LineInv(w) /\ StageInv(w) /\ FenceInv(w)
  BY DEF IInv
<1>2. wk[w].pc = "finalize" /\ UNCHANGED conn /\ UNCHANGED <<coordinator, store, faults, grants, committed>>
  BY DEF ListEntities, NotWorker, LockFree
<1>3. Becomes(w, "count", wk[w].hb, wk[w].lost, wk[w].token, wk[w].serial,
              store[wk[w].location], wk[w].watermark, wk[w].result)
  BY <1>1, TypeAt, Lists DEF ListEntities, TypeOK, WorkerStates, Working
<1>4. Line(w, conn[w].up, conn[w].req, conn[w].resp)
  BY <1>1, <1>2, SameLine
<1>5. LineInv(w)'
  BY <1>1, <1>2, <1>3, <1>4, TypeAt DEF Alone, LineInv, Line, Becomes, Waiting, Working, LockFree, Carries
<1>6. StageInv(w)'
  BY <1>1, <1>2, <1>3, <1>4 DEF Line, StageInv, Becomes, coordinator, Placed, Listed, Stored
<1>7. FenceInv(w)'
  BY <1>1, <1>2, <1>3, <1>4, FenceKept DEF Becomes, Connected, Line
<1> QED BY <1>1, <1>2, <1>3, <1>4, <1>5, <1>6, <1>7, WorkerStep DEF Only, Becomes, Line, TypeOK

\* A heartbeat that stops leaves the run to find out.
LEMMA HeartbeatStopsStep ==
  ASSUME IInv, NEW w \in Workers, HeartbeatStops(w)
  PROVE  IInv'
<1>1. TypeOK /\ LineInv(w) /\ StageInv(w) /\ FenceInv(w)
  BY DEF IInv
<1>2. wk[w].hb # "off" /\ (wk[w].hb = "on" \/ ~conn[w].up) /\ UNCHANGED conn
      /\ UNCHANGED <<coordinator, store, faults, grants, committed>>
  BY DEF HeartbeatStops, NotWorker, LockFree
<1>3. Becomes(w, wk[w].pc, "off", TRUE, wk[w].token, wk[w].serial, wk[w].todo,
              wk[w].watermark, wk[w].result)
  BY <1>1, BeatStops DEF HeartbeatStops
<1>4. Line(w, conn[w].up, conn[w].req, conn[w].resp)
  BY <1>1, <1>2, SameLine
<1>5. LineInv(w)'
  BY <1>1, <1>2, <1>3, <1>4, TypeAt DEF Alone, LineInv, Line, Becomes, Waiting, Working, LockFree, Carries
<1>6. StageInv(w)'
  BY <1>1, <1>2, <1>3, <1>4 DEF Line, StageInv, Becomes, coordinator, Placed, Listed, Stored
<1>7. FenceInv(w)'
  BY <1>1, <1>2, <1>3, <1>4, FenceKept DEF Becomes, Connected, Line
<1> QED BY <1>1, <1>2, <1>3, <1>4, <1>5, <1>6, <1>7, WorkerStep DEF Only, Becomes, Line, TypeOK

\* A call without a connection ends the run or its work.
LEMMA CallFailsStep ==
  ASSUME IInv, NEW w \in Workers, CallFails(w)
  PROVE  IInv'
<1>1. TypeOK /\ LineInv(w) /\ StageInv(w) /\ FenceInv(w)
  BY DEF IInv
<1>2. UNCHANGED <<coordinator, store, faults, grants, committed>> /\ ~conn[w].up
  BY DEF CallFails, NotWorker
<1>3. CASE \/ wk[w].pc \in {"acquire", "acquiring"} /\ Ended(w, "error")
           \/ wk[w].pc \in {"release", "releasing"} /\ Ended(w, Outcome(w))
  BY <1>1, <1>2, <1>3, OutcomeOk, EndsStep DEF TypeOK
<1>4. CASE /\ wk[w].pc \in {"register", "registering", "record", "recording", "committing"}
           /\ wk[w].hb # "sent" /\ Fails(w, "error") /\ UNCHANGED conn
  <2>1. Becomes(w, "release", wk[w].hb, wk[w].lost, wk[w].token, wk[w].serial, wk[w].todo,
                wk[w].watermark, "error")
    BY <1>1, <1>4, RunFails DEF Fails
  <2>2. Line(w, conn[w].up, conn[w].req, conn[w].resp)
    BY <1>1, <1>4, SameLine
  <2>3. LineInv(w)'
    BY <1>1, <1>2, <1>4, <2>1, <2>2, TypeAt DEF LineInv, Line, Becomes, Waiting, Working, LockFree, Carries
  <2>4. StageInv(w)'
    BY <1>1, <1>2, <1>4, <2>1, <2>2 DEF Line, StageInv, Becomes, coordinator, Placed, Listed, Stored
  <2>5. FenceInv(w)'
    BY <1>1, <1>2, <2>1, <2>2, FenceKept DEF Becomes, Connected, Line
  <2> QED BY <1>1, <1>2, <2>1, <2>2, <2>3, <2>4, <2>5, WorkerStep DEF Only, Becomes, Line, TypeOK
<1> QED BY <1>3, <1>4 DEF CallFails

\* The output of the run is in its workspace.
LEMMA PipelineStep ==
  ASSUME IInv, NEW w \in Workers, Pipeline(w)
  PROVE  IInv'
<1>1. TypeOK /\ LineInv(w) /\ StageInv(w) /\ FenceInv(w)
  BY DEF IInv
<1>2. wk[w].pc = "pipeline" /\ UNCHANGED <<conn, coordinator, faults, grants, committed>>
  BY DEF Pipeline
<1>3. /\ store' \in [Locations -> SUBSET Workers] /\ \A l \in Locations : store[l] \subseteq store'[l]
      /\ w \in store'[wk[w].location]
  BY <1>1, TypeAt DEF Pipeline, TypeOK
<1>4. Becomes(w, "finalize", wk[w].hb, wk[w].lost, wk[w].token, wk[w].serial, wk[w].todo,
              wk[w].watermark, wk[w].result)
  BY <1>1, GoesOn DEF Pipeline, WorkerStates, Working
<1>5. Line(w, conn[w].up, conn[w].req, conn[w].resp)
  BY <1>1, <1>2, SameLine
<1>6. LineInv(w)'
  BY <1>1, <1>2, <1>4, <1>5, TypeAt DEF Alone, LineInv, Line, Becomes, Waiting, Working, LockFree, Carries
<1>7. StageInv(w)'
  BY <1>1, <1>2, <1>3, <1>4, <1>5 DEF Line, StageInv, Becomes, coordinator, Placed, Listed, Stored
<1>8. FenceInv(w)'
  BY <1>1, <1>2, <1>4, <1>5, FenceKept DEF Becomes, Connected, Line
<1> QED BY <1>1, <1>2, <1>3, <1>4, <1>5, <1>6, <1>7, <1>8, WorkerStep DEF Only, Becomes, Line, TypeOK

\* The generation to commit is a number, also when counting fails.
LEMMA CountEntriesStep ==
  ASSUME IInv, NEW w \in Workers, CountEntries(w)
  PROVE  IInv'
<1>1. TypeOK /\ LineInv(w) /\ StageInv(w) /\ FenceInv(w)
  BY DEF IInv
<1>2. wk[w].pc = "count" /\ UNCHANGED <<conn, coordinator, store, grants, committed>>
  BY DEF CountEntries
<1>3. PICK n \in {Generation(w), 0} :
        /\ wk' = [wk EXCEPT ![w].pc = "register", ![w].watermark = n]
        /\ IF n = Generation(w) THEN UNCHANGED faults ELSE Fault
  BY DEF CountEntries
<1>4. n \in Nat /\ faults' \in Nat
  <2>1. IsFiniteSet(store[wk[w].location])
    BY <1>1, TypeAt, FS_Subset, ConstantsAssumption DEF TypeOK
  <2>2. Generation(w) \in Nat
    BY <2>1, FS_CardinalityType DEF Generation
  <2> QED BY <1>1, <1>3, <2>2 DEF Fault, TypeOK
<1>5. Becomes(w, "register", wk[w].hb, wk[w].lost, wk[w].token, wk[w].serial, wk[w].todo, n,
              wk[w].result)
  BY <1>1, <1>3, <1>4, Counts DEF WorkerStates, Working
<1>6. Line(w, conn[w].up, conn[w].req, conn[w].resp)
  BY <1>1, <1>2, SameLine
<1>7. LineInv(w)'
  BY <1>1, <1>2, <1>5, <1>6, TypeAt DEF Alone, LineInv, Line, Becomes, Waiting, Working, LockFree, Carries
<1>8. StageInv(w)'
  BY <1>1, <1>2, <1>5, <1>6 DEF Line, StageInv, Becomes, coordinator, Placed, Listed, Stored
<1>9. FenceInv(w)'
  BY <1>1, <1>2, <1>5, <1>6, FenceKept DEF Becomes, Connected, Line
<1> QED BY <1>1, <1>2, <1>4, <1>5, <1>6, <1>7, <1>8, <1>9, WorkerStep DEF Only, Becomes, Line, TypeOK

\* The release may follow a renewal whose sender is gone.
LEMMA SendReleaseStep ==
  ASSUME IInv, NEW w \in Workers, SendRelease(w)
  PROVE  IInv'
<1>1. TypeOK /\ LineInv(w) /\ StageInv(w) /\ FenceInv(w)
  BY DEF IInv
<1> DEFINE r == Request("release", w)
<1>2. r \in Reqs /\ r.op = "release"
  BY DEF Request, Reqs, Ops
<1>3. /\ wk[w].pc = "release" /\ conn[w].up /\ UNCHANGED <<coordinator, store, faults, grants, committed>>
      /\ conn' = [conn EXCEPT ![w].req = Append(@, r)]
  BY DEF SendRelease, NotWorker
<1>4. Becomes(w, "releasing", "off", wk[w].lost, wk[w].token, wk[w].serial, wk[w].todo,
              wk[w].watermark, wk[w].result)
  BY <1>1, Aborts DEF SendRelease
<1> HIDE DEF r
<1>5. Line(w, conn[w].up, Append(conn[w].req, r), conn[w].resp)
  BY <1>1, <1>2, <1>3, SendLine
<1>6. Items(conn'[w].req) = Items(conn[w].req) \cup {r} /\ conn'[w].resp = conn[w].resp
  BY <1>1, <1>2, <1>5, TypeAt, AppendItems DEF Line
<1>7. Carries(w, {"renew"})
  <2>1. CASE wk[w].hb = "sent"
    BY <1>1, <2>1 DEF LineInv
  <2>2. CASE wk[w].hb # "sent"
    BY <1>1, <1>3, <2>2, EmptyItems DEF LineInv, LockFree, Waiting, Carries
  <2> QED BY <2>1, <2>2
<1>8. LineInv(w)'
  BY <1>1, <1>2, <1>3, <1>4, <1>5, <1>6, <1>7, TypeAt DEF LineInv, Line, Becomes, Waiting, Working, LockFree, Carries
<1>9. StageInv(w)'
  BY <1>1, <1>2, <1>3, <1>4, <1>6, <1>7 DEF Carries, StageInv, Becomes, coordinator, Placed, Listed, Stored
<1>10. FenceInv(w)'
  BY <1>1, <1>3, <1>4, <1>6, FenceKept DEF Becomes, Connected
<1> QED BY <1>1, <1>3, <1>4, <1>5, <1>8, <1>9, <1>10, WorkerStep DEF Only, Becomes, Line, TypeOK

\* A broken connection keeps what is under way in it.
LEMMA DisconnectStep ==
  ASSUME IInv, NEW w \in Workers, Disconnect(w)
  PROVE  IInv'
<1>1. TypeOK /\ LineInv(w) /\ StageInv(w) /\ FenceInv(w)
  BY DEF IInv
<1>2. conn[w].up /\ faults' \in Nat /\ UNCHANGED <<wk, coordinator, store, grants, committed>>
  BY <1>1 DEF Disconnect, Fault, NotWorker, TypeOK
<1>3. Line(w, FALSE, conn[w].req, conn[w].resp)
  <2> DEFINE d == [conn[w] EXCEPT !.up = FALSE]
  <2>1. d \in ConnType /\ d.up = FALSE /\ d.req = conn[w].req /\ d.resp = conn[w].resp
    <3>1. conn[w] \in ConnType /\ <<>> \in Seq(Reqs)
      BY <1>1, TypeAt, EmptyItems
    <3> QED BY <3>1, LineParts
  <2>2. conn' = [conn EXCEPT ![w] = d]
    BY DEF Disconnect
  <2> HIDE DEF d
  <2> QED BY <1>1, <2>1, <2>2, LineSet
<1>4. wk' = wk /\ conn'[w].req = conn[w].req /\ conn'[w].resp = conn[w].resp
  BY <1>2, <1>3, EmptyItems DEF Line
<1>5. LineInv(w)'
  <2>1. wk[w].pc # "start"
    BY <1>1, <1>2 DEF LineInv, Disconnected
  <2>2. Alone(w) => Alone(w)'
    BY <1>4 DEF Alone
  <2>3. /\ Carries(w, {"acquire"}) => Carries(w, {"acquire"})'
        /\ Carries(w, {"register"}) => Carries(w, {"register"})'
        /\ Carries(w, {"record"}) => Carries(w, {"record"})'
        /\ Carries(w, {"commit"}) => Carries(w, {"commit"})'
        /\ Carries(w, {"renew"}) => Carries(w, {"renew"})'
        /\ Carries(w, {"renew", "release"}) => Carries(w, {"renew", "release"})'
    BY <1>4 DEF Carries
  <2> QED BY <1>1, <1>2, <1>3, <1>4, <2>1, <2>2, <2>3 DEF Line, LineInv, LockFree
<1>6. StageInv(w)'
  BY <1>1, <1>2, <1>4 DEF StageInv, coordinator, Placed, Listed, Stored
<1>7. FenceInv(w)'
  BY <1>1, <1>2, <1>3, <1>4, FenceKept DEF Connected, Line
<1> QED BY <1>1, <1>2, <1>3, <1>4, <1>5, <1>6, <1>7, WorkerStep DEF Only, Line, TypeOK

\* Requests of a broken connection may be lost.
LEMMA LoseRequestsStep ==
  ASSUME IInv, NEW w \in Workers, LoseRequests(w)
  PROVE  IInv'
<1>1. TypeOK /\ LineInv(w) /\ StageInv(w) /\ FenceInv(w)
  BY DEF IInv
<1>2. conn[w].req # <<>> /\ ~conn[w].up /\ UNCHANGED wk /\ UNCHANGED <<coordinator, store, faults, grants, committed>>
  BY <1>1 DEF LoseRequests, Fault, NotWorker, TypeOK
<1>3. Line(w, conn[w].up, <<>>, conn[w].resp)
  <2> DEFINE d == [conn[w] EXCEPT !.req = <<>>]
  <2>1. d \in ConnType /\ d.up = conn[w].up /\ d.req = <<>> /\ d.resp = conn[w].resp
    <3>1. conn[w] \in ConnType /\ <<>> \in Seq(Reqs)
      BY <1>1, TypeAt, EmptyItems
    <3> QED BY <3>1, LineParts
  <2>2. conn' = [conn EXCEPT ![w] = d]
    BY DEF LoseRequests
  <2> HIDE DEF d
  <2> QED BY <1>1, <2>1, <2>2, LineSet
<1>4. wk' = wk /\ Items(conn'[w].req) = {} /\ conn'[w].resp = conn[w].resp
  BY <1>2, <1>3, EmptyItems DEF Line
<1>5. LineInv(w)'
  <2>1. wk[w].pc # "start"
    BY <1>1, <1>2 DEF LineInv, Disconnected
  <2>2. Alone(w) => Alone(w)'
    <3>1. Len(conn[w].req) \in Nat /\ Len(conn[w].resp) \in Nat
      BY <1>1, TypeAt, LenProperties
    <3>2. Len(conn'[w].req) = 0 /\ conn'[w].resp = conn[w].resp
      BY <1>3, EmptyItems DEF Line
    <3>3. \A a, b \in Nat : a + b <= 1 => 0 + b <= 1
      OBVIOUS
    <3> QED BY <3>1, <3>2, <3>3 DEF Alone
  <2>3. /\ Carries(w, {"acquire"}) => Carries(w, {"acquire"})'
        /\ Carries(w, {"register"}) => Carries(w, {"register"})'
        /\ Carries(w, {"record"}) => Carries(w, {"record"})'
        /\ Carries(w, {"commit"}) => Carries(w, {"commit"})'
        /\ Carries(w, {"renew"}) => Carries(w, {"renew"})'
        /\ Carries(w, {"renew", "release"}) => Carries(w, {"renew", "release"})'
    BY <1>4 DEF Carries
  <2> QED BY <1>1, <1>2, <1>3, <1>4, <2>1, <2>2, <2>3 DEF Line, LineInv, LockFree
<1>6. StageInv(w)'
  BY <1>1, <1>2, <1>4 DEF StageInv, coordinator, Placed, Listed, Stored
<1>7. FenceInv(w)'
  BY <1>1, <1>2, <1>3, <1>4, FenceKept DEF Connected, Line
<1> QED BY <1>1, <1>2, <1>3, <1>4, <1>5, <1>6, <1>7, WorkerStep DEF Only, Line, TypeOK

-----------------------------------------------------------------------------
(* Steps of the coordinator *)

Statuses == {"ok", "lease", "already", "fenced", "expired", "error"}

\* The first request is taken and, while there is a connection, answered.
LEMMA AnswerLine ==
  ASSUME TypeOK, NEW w \in Workers, conn[w].req # <<>>, NEW status \in Statuses,
         NEW token \in Nat, NEW serial \in Nat, Answer(w, status, token, serial)
  PROVE  /\ Line(w, conn[w].up, conn'[w].req, conn'[w].resp)
         /\ Items(conn'[w].req) \subseteq Items(conn[w].req)
         /\ Items(conn'[w].resp) \subseteq Items(conn[w].resp) \cup
              {[op |-> Head(conn[w].req).op, status |-> status, token |-> token, serial |-> serial]}
         /\ ~conn[w].up => conn'[w].resp = conn[w].resp
         /\ Alone(w) => Alone(w)'
         /\ Head(conn[w].req) \in Items(conn[w].req) /\ Head(conn[w].req) \in Reqs
<1> DEFINE a == [op |-> Head(conn[w].req).op, status |-> status, token |-> token, serial |-> serial]
           req == Tail(conn[w].req)
           resp == IF conn[w].up THEN Append(conn[w].resp, a) ELSE conn[w].resp
           d == [conn[w] EXCEPT !.req = req, !.resp = resp]
<1>1. conn[w] \in ConnType /\ conn[w].req \in Seq(Reqs) /\ conn[w].resp \in Seq(Resps)
  BY TypeAt
<1>2. /\ Head(conn[w].req) \in Reqs /\ Head(conn[w].req) \in Items(conn[w].req)
      /\ req \in Seq(Reqs) /\ Items(req) \subseteq Items(conn[w].req)
      /\ Len(conn[w].req) \in Nat /\ Len(req) = Len(conn[w].req) - 1
  BY <1>1, HeadTail
<1>3. a \in Resps
  <2>1. Head(conn[w].req).op \in Ops
    BY <1>2 DEF Reqs
  <2> QED BY <2>1 DEF Resps, Statuses
<1>0. conn' = [conn EXCEPT ![w] = d]
  BY Zenon DEF Answer
<1> HIDE DEF a
<1>4. /\ Append(conn[w].resp, a) \in Seq(Resps)
      /\ Items(Append(conn[w].resp, a)) = Items(conn[w].resp) \cup {a}
      /\ Len(conn[w].resp) \in Nat /\ Len(Append(conn[w].resp, a)) = Len(conn[w].resp) + 1
  BY <1>1, <1>3, AppendItems
<1>5. /\ resp \in Seq(Resps) /\ Items(resp) \subseteq Items(conn[w].resp) \cup {a}
      /\ Len(resp) \in Nat /\ Len(resp) <= Len(conn[w].resp) + 1
      /\ ~conn[w].up => resp = conn[w].resp
  <2>1. CASE conn[w].up
    <3>1. resp = Append(conn[w].resp, a)
      BY <2>1
    <3> HIDE DEF resp
    <3> QED BY <1>4, <2>1, <3>1
  <2>2. CASE ~conn[w].up
    <3>1. resp = conn[w].resp
      BY <2>2
    <3> HIDE DEF resp
    <3> QED BY <1>1, <1>4, <2>2, <3>1
  <2> QED BY <2>1, <2>2
<1>7. d \in ConnType /\ d.up = conn[w].up /\ d.req = req /\ d.resp = resp
  <2>1. req \in Seq(Reqs) /\ resp \in Seq(Resps)
    BY <1>2, <1>5
  <2> HIDE DEF req, resp
  <2> QED BY <1>1, <2>1, LineParts
<1> HIDE DEF d, req, resp
<1>8. Line(w, conn[w].up, req, resp)
  BY <1>0, <1>7, LineSet
<1>9. conn'[w].req = req /\ conn'[w].resp = resp
  BY <1>8 DEF Line
<1>10. Alone(w) => Alone(w)'
  <2>1. \A i, j, k, l \in Nat : i + j <= 1 /\ l <= j + 1 /\ k = i - 1 => k + l <= 1
    OBVIOUS
  <2>2. Len(req) \in Nat /\ Len(req) = Len(conn[w].req) - 1
    BY <1>2, LenProperties
  <2>3. Len(conn[w].req) \in Nat /\ Len(conn[w].resp) \in Nat
    BY <1>2, <1>4
  <2>4. Len(resp) \in Nat /\ Len(resp) <= Len(conn[w].resp) + 1
    BY <1>5
  <2>5. Alone(w) => Len(req) + Len(resp) <= 1
    BY <2>1, <2>2, <2>3, <2>4, Zenon DEF Alone
  <2> QED BY <1>9, <2>5 DEF Alone
<1> QED BY <1>2, <1>5, <1>8, <1>9, <1>10 DEF a

\* What a handler has to do for its answer to be true.
Justified(w, status, token, serial) ==
  LET r == Head(conn[w].req) IN
  /\ status \in {"ok", "lease"} =>
       /\ r.op = "register" => Placed(w)'
       /\ r.op = "record" => r.entity \in disk'.entities
       /\ r.op = "commit" => Stored(w)'
  /\ r.op = "acquire" /\ status = "lease" => Newest(token, serial, wk[w].shard)'

\* A handler whose answer is true, and that forgets nothing, keeps the invariant.
LEMMA HandlerStep ==
  ASSUME IInv, NEW w \in Workers, conn[w].req # <<>>, NEW status \in Statuses,
         NEW token \in Nat, NEW serial \in Nat, Answer(w, status, token, serial),
         Justified(w, status, token, serial), UNCHANGED <<wk, store>>,
         active' \in [Shards -> LeaseType], next_token' \in [Shards -> Nat],
         grants' \in [Shards -> Nat], mem' \in StateType, disk' \in StateType, faults' \in Nat,
         MemInv', LeaseInv', Grows, \A s \in Shards : Newer(s),
         committed' = committed \/ (committed' = committed \cup {w} /\ Listed(w))
  PROVE  IInv'
<1>1. TypeOK /\ LineInv(w) /\ StageInv(w) /\ FenceInv(w)
  BY DEF IInv
<1> DEFINE h == Head(conn[w].req)
           a == [op |-> h.op, status |-> status, token |-> token, serial |-> serial]
<1>2. /\ Line(w, conn[w].up, conn'[w].req, conn'[w].resp)
      /\ Items(conn'[w].req) \subseteq Items(conn[w].req)
      /\ Items(conn'[w].resp) \subseteq Items(conn[w].resp) \cup {a}
      /\ ~conn[w].up => conn'[w].resp = conn[w].resp
      /\ Alone(w) => Alone(w)'
      /\ h \in Items(conn[w].req) /\ h \in Reqs
  BY <1>1, AnswerLine
<1>3. a.op = h.op /\ a.status = status /\ a.token = token /\ a.serial = serial
  OBVIOUS
<1>4. Justified(w, status, token, serial) /\ wk' = wk
  OBVIOUS
<1>5. TypeOK'
  BY <1>1, <1>2 DEF TypeOK, Line
<1>6. (Placed(w) => Placed(w)') /\ (Listed(w) => Listed(w)') /\ (Stored(w) => Stored(w)')
  BY <1>1, <1>5, Grown
<1> HIDE DEF a
<1>7. LineInv(w)'
  <2>1. wk[w].pc # "start" /\ ~(conn[w].up /\ LockFree(w))
    BY <1>1 DEF LineInv, Disconnected
  <2>2. ASSUME NEW ops, Carries(w, ops) PROVE Carries(w, ops)'
    BY <1>2, <1>3, <2>2 DEF Carries
  <2> QED BY <1>1, <1>2, <1>4, <2>1, <2>2 DEF LineInv, LockFree, Line
<1>8. StageInv(w)'
  <2>1. CASE wk[w].pc = "registering"
    <3>1. h.op = "register"
      BY <1>1, <1>2, <2>1 DEF LineInv, Carries
    <3>2. \A r \in Items(conn'[w].resp) : Accepted(r) => Placed(w)'
      BY <1>1, <1>2, <1>3, <1>4, <1>6, <2>1, <3>1 DEF StageInv, Justified, Accepted
    <3> QED BY <1>1, <1>2, <1>4, <1>6, <2>1, <3>2 DEF StageInv, Grows
  <2>2. CASE wk[w].pc = "recording"
    <3>1. h.op = "record"
      BY <1>1, <1>2, <2>2 DEF LineInv, Carries
    <3>2. \/ w \in wk[w].todo \cup disk'.entities
          \/ /\ \A r \in Items(conn'[w].req) : r.entity = w
             /\ \A r \in Items(conn'[w].resp) : ~Accepted(r)
      <4>1. CASE w \in wk[w].todo \cup disk.entities
        BY <4>1 DEF Grows
      <4>2. CASE /\ \A r \in Items(conn[w].req) : r.entity = w
                 /\ \A r \in Items(conn[w].resp) : ~Accepted(r)
        BY <1>2, <1>3, <1>4, <3>1, <4>2 DEF Justified, Accepted
      <4> QED BY <1>1, <2>2, <4>1, <4>2 DEF StageInv
    <3> QED BY <1>1, <1>2, <1>4, <1>6, <2>2, <3>2 DEF StageInv
  <2>3. CASE wk[w].pc = "committing"
    <3>1. h.op = "commit"
      BY <1>1, <1>2, <2>3 DEF LineInv, Carries
    <3>2. \A r \in Items(conn'[w].resp) : Accepted(r) => Stored(w)'
      BY <1>1, <1>2, <1>3, <1>4, <1>6, <2>3, <3>1 DEF StageInv, Justified, Accepted
    <3> QED BY <1>1, <1>2, <1>4, <1>6, <2>3, <3>2 DEF StageInv, Grows
  <2>4. CASE wk[w].pc \notin {"registering", "recording", "committing"}
    BY <1>1, <1>2, <1>4, <1>6, <2>4 DEF StageInv, Grows
  <2> QED BY <2>1, <2>2, <2>3, <2>4
<1>9. FenceInv(w)'
  <2>1. wk[w].token \in Nat /\ wk[w].shard \in Shards /\ next_token[wk[w].shard] \in Nat
    BY <1>1, TypeAt DEF TypeOK
  <2>2. Items(conn[w].resp) \subseteq Resps /\ Newer(wk[w].shard)
    BY <1>1, <2>1, TypeAt, ItemsIn
  <2>3. ASSUME NEW t \in Nat, NEW n, Newest(t, n, wk[w].shard)
        PROVE  Newest(t, n, wk[w].shard)'
    BY <1>4, <2>1, <2>2, <2>3 DEF Newest, Newer
  <2>4. \A r \in Items(conn[w].resp) : r.token \in Nat
    BY <2>2 DEF Resps
  <2>5. Connected(w)
    BY DEF Connected
  <2>6. ASSUME NEW r \in Items(conn'[w].resp), r.op = "acquire", r.status = "lease"
        PROVE  Newest(r.token, r.serial, wk[w].shard)'
    <3>1. CASE r = a
      BY <1>3, <1>4, <2>6, <3>1 DEF Justified
    <3>2. CASE r # a
      BY <1>1, <1>2, <2>3, <2>4, <2>5, <2>6, <3>2 DEF FenceInv
    <3> QED BY <3>1, <3>2
  <2> QED BY <1>1, <1>4, <2>1, <2>3, <2>5, <2>6 DEF FenceInv
<1>10. ASSUME NEW v \in Workers \ {w} PROVE LineInv(v)' /\ StageInv(v)' /\ FenceInv(v)'
  <2>1. /\ wk'[v] = wk[v] /\ conn'[v] = conn[v] /\ wk[v].shard \in Shards
        /\ LineInv(v) /\ StageInv(v) /\ FenceInv(v) /\ (v \in committed <=> v \in committed')
    BY <1>1, <1>2, <1>4, TypeAt DEF Line, IInv
  <2> QED BY <1>1, <1>5, <2>1, OtherLine, OtherStage, OtherFence
<1> QED BY <1>5, <1>7, <1>8, <1>9, <1>10 DEF IInv

\* The state file is written, or the caller is told that it was not.
LEMMA PersistedStep ==
  ASSUME IInv, NEW w \in Workers, conn[w].req # <<>>, NEW m \in StateType, Persisted(w, m),
         Ahead(m, mem), UNCHANGED <<active, next_token, wk, store, grants>>,
         committed' = committed \/ (committed' = committed \cup {w} /\ Listed(w)),
         disk' = m => Justified(w, "ok", 0, 0)
  PROVE  IInv'
<1>1. TypeOK /\ MemInv /\ LeaseInv /\ mem' = m
  BY DEF IInv, Persisted
<1>2. /\ active' \in [Shards -> LeaseType] /\ next_token' \in [Shards -> Nat]
      /\ grants' \in [Shards -> Nat] /\ mem' \in StateType /\ disk \in StateType /\ faults \in Nat
      /\ mem \in StateType
  BY <1>1 DEF TypeOK
<1>3. LeaseInv' /\ \A s \in Shards : Newer(s)
  BY <1>1 DEF LeaseInv, Newer
<1>4. Ahead(m, disk) /\ Ahead(m, m)
  <2>1. /\ m.watermarks \in [Shards -> Nat] /\ mem.watermarks \in [Shards -> Nat]
        /\ disk.watermarks \in [Shards -> Nat]
    BY <1>2 DEF StateType
  <2>2. \A s \in Shards : disk.watermarks[s] <= m.watermarks[s] /\ m.watermarks[s] <= m.watermarks[s]
    BY <1>1, <2>1 DEF MemInv, Ahead
  <2> QED BY <1>1, <2>2 DEF MemInv, Ahead
<1>5. CASE disk' = m /\ UNCHANGED faults /\ Answer(w, "ok", 0, 0)
  <2>1. MemInv'
    BY <1>1, <1>4, <1>5 DEF MemInv, Ahead
  <2>2. Grows
    <3>1. \A s \in Shards : disk.watermarks[s] \in Nat /\ m.watermarks[s] \in Nat
      BY <1>2 DEF StateType
    <3> QED BY <1>4, <1>5, <3>1 DEF Ahead, Grows
  <2>3. Justified(w, "ok", 0, 0) /\ disk' \in StateType /\ faults' \in Nat /\ "ok" \in Statuses
    BY <1>2, <1>5 DEF Statuses
  <2> QED BY <1>2, <1>3, <1>5, <2>1, <2>2, <2>3, HandlerStep
<1>6. CASE Fault /\ UNCHANGED disk /\ Answer(w, "error", 0, 0)
  <2>1. MemInv'
    BY <1>1, <1>4, <1>6 DEF MemInv, Ahead
  <2>2. Grows
    <3>1. \A s \in Shards : disk.watermarks[s] \in Nat
      BY <1>2 DEF StateType
    <3> QED BY <1>6, <3>1 DEF Grows
  <2>3. /\ Justified(w, "error", 0, 0) /\ disk' \in StateType /\ faults' \in Nat
        /\ "error" \in Statuses
    BY <1>2, <1>6 DEF Statuses, Justified, Fault
  <2> QED BY <1>2, <1>3, <1>6, <2>1, <2>2, <2>3, HandlerStep
<1> QED BY <1>5, <1>6 DEF Persisted

\* A request is refused, or answered, without anything else happening.
LEMMA QuietStep ==
  ASSUME IInv, NEW w \in Workers, conn[w].req # <<>>, NEW status \in Statuses,
         NEW token \in Nat, NEW serial \in Nat, Answer(w, status, token, serial),
         UNCHANGED <<next_token, mem, disk, wk, store, faults, grants, committed>>,
         active' \in [Shards -> LeaseType], \A s \in Shards : active'[s] \in {active[s], NoLease},
         Head(conn[w].req).op \in {"renew", "release"} \/ status \notin {"ok", "lease"}
  PROVE  IInv'
<1>1. TypeOK /\ MemInv /\ LeaseInv
  BY DEF IInv
<1>2. /\ next_token' \in [Shards -> Nat] /\ grants' \in [Shards -> Nat]
      /\ mem' \in StateType /\ disk' \in StateType /\ faults' \in Nat
  BY <1>1 DEF TypeOK
<1>3. MemInv' /\ LeaseInv' /\ \A s \in Shards : Newer(s)
  BY <1>1 DEF MemInv, Ahead, LeaseInv, Newer
<1>4. Grows
  <2>1. \A s \in Shards : disk.watermarks[s] \in Nat
    BY <1>1 DEF TypeOK, StateType
  <2> QED BY <2>1 DEF Grows
<1>5. Justified(w, status, token, serial)
  BY DEF Justified
<1> QED BY <1>2, <1>3, <1>4, <1>5, HandlerStep

\* The absence of a lease is not live.
LEMMA NoLeaseTyped == NoLease \in LeaseType /\ ~NoLease.live
BY DEF NoLease, LeaseType

\* A renewal changes no token.
LEMMA LeaseRenewStep ==
  ASSUME IInv, NEW w \in Workers, LeaseRenew(w)
  PROVE  IInv'
<1> DEFINE c == Check(wk[w].shard, wk[w].holder, wk[w].token)
<1>1. /\ conn[w].req # <<>> /\ Head(conn[w].req).op = "renew"
      /\ UNCHANGED <<active, next_token, mem, disk, wk, store, faults, grants, committed>>
  BY DEF LeaseRenew, Incoming, coordinator
<1>2. /\ active' \in [Shards -> LeaseType] /\ \A s \in Shards : active'[s] \in {active[s], NoLease}
      /\ wk[w].token \in Nat /\ wk[w].serial \in Nat
  BY <1>1, TypeAt DEF IInv, TypeOK
<1>3. c \in Statuses /\ "lease" \in Statuses
  BY DEF Check, Statuses
<1>4. Answer(w, "lease", wk[w].token, wk[w].serial) \/ Answer(w, c, 0, 0)
  BY DEF LeaseRenew
<1> HIDE DEF c
<1> QED BY <1>1, <1>2, <1>3, <1>4, QuietStep

\* A release removes a lease and leaves the tokens.
LEMMA LeaseReleaseStep ==
  ASSUME IInv, NEW w \in Workers, LeaseRelease(w)
  PROVE  IInv'
<1> DEFINE s == wk[w].shard
           status == IF active[s].token > wk[w].token THEN "fenced" ELSE "ok"
<1>1. /\ conn[w].req # <<>> /\ Head(conn[w].req).op = "release"
      /\ UNCHANGED <<next_token, mem, disk, wk, store, faults, grants, committed>>
      /\ Answer(w, status, 0, 0)
      /\ active' = IF Released(w) THEN [active EXCEPT ![s] = NoLease] ELSE active
  BY DEF LeaseRelease, Incoming
<1>2. active' \in [Shards -> LeaseType] /\ \A t \in Shards : active'[t] \in {active[t], NoLease}
  BY <1>1, NoLeaseTyped DEF IInv, TypeOK
<1>3. status \in Statuses
  BY DEF Statuses
<1> HIDE DEF status, s
<1> QED BY <1>1, <1>2, <1>3, QuietStep

\* The new token is above all others of the shard, and with it goes the newest grant.
LEMMA LeaseAcquireStep ==
  ASSUME IInv, NEW w \in Workers, LeaseAcquire(w)
  PROVE  IInv'
<1> DEFINE s == wk[w].shard
           h == wk[w].holder
<1>1. TypeOK /\ MemInv /\ LeaseInv
  BY DEF IInv
<1>2. /\ conn[w].req # <<>> /\ Head(conn[w].req).op = "acquire"
      /\ UNCHANGED <<mem, disk, wk, store, faults, committed>>
  BY DEF LeaseAcquire, Incoming
<1>3. s \in Shards /\ h \in Holders
  BY <1>1, TypeAt
<1>4. CASE AlreadyLeased(s, h)
  <2>1. Answer(w, "already", 0, 0) /\ UNCHANGED <<active, next_token, grants>>
    BY <1>4 DEF LeaseAcquire
  <2>2. /\ active' \in [Shards -> LeaseType] /\ \A t \in Shards : active'[t] \in {active[t], NoLease}
        /\ "already" \in Statuses
    BY <1>1, <2>1 DEF TypeOK, Statuses
  <2> QED BY <1>2, <2>1, <2>2, QuietStep
<1>5. CASE ~AlreadyLeased(s, h)
  <2> HIDE DEF s, h
  <2>1. /\ next_token' = [next_token EXCEPT ![s] = @ + 1]
        /\ active' = [active EXCEPT ![s] = [holder |-> h, token |-> next_token'[s], live |-> TRUE]]
        /\ grants' = [grants EXCEPT ![s] = @ + 1]
        /\ Answer(w, "lease", next_token'[s], grants'[s])
    BY <1>5 DEF LeaseAcquire, s, h
  <2>2. /\ next_token' \in [Shards -> Nat] /\ grants' \in [Shards -> Nat]
        /\ next_token'[s] = next_token[s] + 1 /\ next_token[s] \in Nat
        /\ next_token'[s] \in Nat /\ grants'[s] \in Nat
        /\ \A t \in Shards \ {s} : next_token'[t] = next_token[t] /\ grants'[t] = grants[t]
    BY <1>1, <1>3, <2>1 DEF TypeOK
  <2> DEFINE l == [holder |-> h, token |-> next_token'[s], live |-> TRUE]
  <2>3. l \in LeaseType /\ l.token = next_token'[s]
    BY <1>3, <2>2 DEF LeaseType
  <2>4. active' = [active EXCEPT ![s] = l]
    BY <2>1
  <2> HIDE DEF l
  <2>5. /\ active' \in [Shards -> LeaseType] /\ active'[s] = l
        /\ \A t \in Shards \ {s} : active'[t] = active[t]
    BY <1>1, <1>3, <2>3, <2>4 DEF TypeOK
  <2>6. LeaseInv'
    <3>1. next_token'[s] > 0
      BY <2>2
    <3> QED BY <1>1, <2>2, <2>3, <2>5, <3>1 DEF LeaseInv
  <2>7. MemInv' /\ \A t \in Shards : Newer(t)
    BY <1>1, <1>2, <2>2 DEF MemInv, Ahead, Newer
  <2>8. Grows /\ mem' \in StateType /\ disk' \in StateType /\ faults' \in Nat
    <3>1. \A t \in Shards : disk.watermarks[t] \in Nat
      BY <1>1 DEF TypeOK, StateType
    <3> QED BY <1>1, <1>2, <3>1 DEF Grows, TypeOK
  <2>9. PICK token \in Nat, serial \in Nat : token = next_token'[s] /\ serial = grants'[s]
    BY <2>2
  <2>10. Answer(w, "lease", token, serial) /\ "lease" \in Statuses
    BY <2>1, <2>9 DEF Statuses
  <2>11. Justified(w, "lease", token, serial)
    BY <1>2, <2>9 DEF Justified, Newest, s
  <2> QED BY <1>2, <2>2, <2>5, <2>6, <2>7, <2>8, <2>10, <2>11, HandlerStep
<1> QED BY <1>4, <1>5

\* The watermark never falls, and the committing run is registered.
LEMMA ManifestCommitStep ==
  ASSUME IInv, NEW w \in Workers, ManifestCommit(w)
  PROVE  IInv'
<1> DEFINE s == wk[w].shard
           c == Check(s, wk[w].holder, wk[w].token)
           n == IF mem.watermarks[s] > wk[w].watermark THEN mem.watermarks[s] ELSE wk[w].watermark
           m == [mem EXCEPT !.watermarks[s] = n]
<1>1. TypeOK /\ StageInv(w)
  BY DEF IInv
<1>2. /\ conn[w].req # <<>> /\ Head(conn[w].req).op = "commit"
      /\ UNCHANGED <<active, next_token, wk, store, grants>>
  BY DEF ManifestCommit, Incoming
<1>3. CASE c # "ok"
  <2>1. Answer(w, c, 0, 0) /\ UNCHANGED <<mem, disk, faults, committed>>
    BY <1>3 DEF ManifestCommit
  <2>2. /\ active' \in [Shards -> LeaseType] /\ \A t \in Shards : active'[t] \in {active[t], NoLease}
        /\ c \in Statuses \ {"ok", "lease"}
    BY <1>1, <1>2, <1>3 DEF TypeOK, Statuses, Check
  <2> HIDE DEF c
  <2> QED BY <1>2, <2>1, <2>2, QuietStep
<1>4. CASE c = "ok"
  <2>1. Persisted(w, m) /\ committed' = committed \cup {w}
    BY <1>4 DEF ManifestCommit
  <2>2. /\ mem \in StateType /\ s \in Shards /\ wk[w].watermark \in Nat /\ n \in Nat
        /\ mem.watermarks \in [Shards -> Nat] /\ n >= wk[w].watermark /\ n >= mem.watermarks[s]
    BY <1>1, TypeAt DEF TypeOK, StateType
  <2> HIDE DEF n, s
  <2>3. /\ m \in StateType /\ m.catalog = mem.catalog /\ m.entities = mem.entities
        /\ m.watermarks = [mem.watermarks EXCEPT ![s] = n]
    BY <2>2 DEF StateType
  <2> HIDE DEF m
  <2>4. Ahead(m, mem) /\ m.watermarks[s] = n
    BY <2>2, <2>3 DEF Ahead
  <2>5. Listed(w)
    <3>1. Head(conn[w].req) \in Items(conn[w].req)
      BY <1>1, <1>2, TypeAt, HeadTail
    <3> QED BY <1>1, <1>2, <3>1 DEF StageInv
  <2>6. disk' = m => Justified(w, "ok", 0, 0)
    BY <1>2, <2>1, <2>2, <2>4 DEF Justified, Stored, s
  <2> QED BY <1>2, <2>1, <2>3, <2>4, <2>5, <2>6, PersistedStep
<1> QED BY <1>3, <1>4

\* A partition is registered where nobody else has registered it.
LEMMA CatalogRegisterStep ==
  ASSUME IInv, NEW w \in Workers, CatalogRegister(w)
  PROVE  IInv'
<1> DEFINE m == [mem EXCEPT !.catalog = wk[w].location]
<1>1. TypeOK
  BY DEF IInv
<1>2. /\ conn[w].req # <<>> /\ Head(conn[w].req).op = "register"
      /\ UNCHANGED <<active, next_token, wk, store, grants, committed>>
  BY DEF CatalogRegister, Incoming
<1>3. CASE mem.catalog \notin {NoWhere, wk[w].location}
  <2>1. Answer(w, "error", 0, 0) /\ UNCHANGED <<mem, disk, faults>>
    BY <1>3 DEF CatalogRegister
  <2>2. /\ active' \in [Shards -> LeaseType] /\ \A t \in Shards : active'[t] \in {active[t], NoLease}
        /\ "error" \in Statuses \ {"ok", "lease"}
    BY <1>1, <1>2 DEF TypeOK, Statuses
  <2> QED BY <1>2, <2>1, <2>2, QuietStep
<1>4. CASE mem.catalog \in {NoWhere, wk[w].location}
  <2>1. Persisted(w, m)
    BY <1>4 DEF CatalogRegister
  <2>2. mem \in StateType /\ wk[w].location \in Locations
    BY <1>1, TypeAt DEF TypeOK
  <2>3. /\ m \in StateType /\ m.catalog = wk[w].location /\ m.entities = mem.entities
        /\ m.watermarks = mem.watermarks /\ mem.watermarks \in [Shards -> Nat]
    BY <2>2 DEF StateType
  <2> HIDE DEF m
  <2>4. Ahead(m, mem)
    BY <1>4, <2>3 DEF Ahead
  <2>5. disk' = m => Justified(w, "ok", 0, 0)
    BY <1>2, <2>3 DEF Justified, Placed
  <2> QED BY <1>2, <2>1, <2>3, <2>4, <2>5, PersistedStep
<1> QED BY <1>3, <1>4

\* The entity of the request is in the state file, or the answer is an error.
LEMMA RecordStep ==
  ASSUME IInv, NEW w \in Workers, RecordEntityPartitions(w)
  PROVE  IInv'
<1> DEFINE e == Head(conn[w].req).entity
           m == [mem EXCEPT !.entities = @ \cup {e}]
<1>1. TypeOK
  BY DEF IInv
<1>2. /\ conn[w].req # <<>> /\ Head(conn[w].req).op = "record" /\ Persisted(w, m)
      /\ UNCHANGED <<active, next_token, wk, store, grants, committed>>
  BY DEF RecordEntityPartitions, Incoming
<1>3. mem \in StateType /\ e \in Workers
  <2>1. Head(conn[w].req) \in Reqs
    BY <1>1, <1>2, TypeAt, HeadTail
  <2> QED BY <1>1, <2>1 DEF TypeOK, Reqs
<1>4. /\ m \in StateType /\ m.catalog = mem.catalog /\ m.entities = mem.entities \cup {e}
      /\ m.watermarks = mem.watermarks /\ mem.watermarks \in [Shards -> Nat]
  <2> HIDE DEF e
  <2> QED BY <1>3 DEF StateType
<1>5. disk' = m => Justified(w, "ok", 0, 0)
  <2> HIDE DEF m
  <2> QED BY <1>2, <1>4 DEF Justified
<1> HIDE DEF m, e
<1>6. Ahead(m, mem)
  BY <1>4 DEF Ahead
<1> QED BY <1>2, <1>4, <1>5, <1>6, PersistedStep

-----------------------------------------------------------------------------
(* Steps of the environment *)

\* A lease comes into force or runs out: nobody's token changes.
LEMMA ClockMovesStep ==
  ASSUME IInv, NEW s \in Shards, ClockMoves(s)
  PROVE  IInv'
<1>1. TypeOK /\ MemInv /\ LeaseInv /\ \A w \in Workers : LineInv(w) /\ StageInv(w) /\ FenceInv(w)
  BY DEF IInv
<1>2. /\ active[s] # NoLease
      /\ UNCHANGED <<next_token, mem, disk, conn, wk, store, faults, grants, committed>>
  BY DEF ClockMoves
<1> DEFINE l == [active[s] EXCEPT !.live = ~@]
<1>3. active[s] \in LeaseType
  BY <1>1 DEF TypeOK
<1>4. l \in LeaseType /\ l.token = active[s].token
  BY <1>3 DEF LeaseType
<1>5. active' = [active EXCEPT ![s] = l]
  BY DEF ClockMoves
<1> HIDE DEF l
<1>6. /\ active' \in [Shards -> LeaseType] /\ active'[s] = l
      /\ \A t \in Shards \ {s} : active'[t] = active[t]
  BY <1>1, <1>4, <1>5 DEF TypeOK
<1>7. LeaseInv'
  BY <1>1, <1>2, <1>4, <1>6 DEF LeaseInv
<1>8. TypeOK' /\ MemInv'
  BY <1>1, <1>2, <1>6 DEF TypeOK, MemInv, Ahead
<1>9. ASSUME NEW w \in Workers PROVE LineInv(w)' /\ StageInv(w)' /\ FenceInv(w)'
  <2>1. LineInv(w) /\ StageInv(w) /\ FenceInv(w) /\ wk'[w] = wk[w] /\ conn'[w] = conn[w]
    BY <1>1, <1>2
  <2>2. Newer(wk[w].shard)
    BY <1>2 DEF Newer
  <2>3. Grows /\ \A k \in Locations : store[k] \subseteq store'[k]
    <3>1. \A t \in Shards : disk.watermarks[t] \in Nat
      BY <1>1 DEF TypeOK, StateType
    <3> QED BY <1>2, <3>1 DEF Grows
  <2>4. w \in committed <=> w \in committed'
    BY <1>2
  <2> QED BY <1>1, <1>8, <2>1, <2>2, <2>3, <2>4, OtherLine, OtherStage, OtherFence
<1> QED BY <1>7, <1>8, <1>9 DEF IInv

\* The coordinator forgets its tokens, and with them every connection on which one could
\* still be shown to it.
LEMMA RestartStep ==
  ASSUME IInv, Restart
  PROVE  IInv'
<1>1. TypeOK /\ MemInv /\ LeaseInv /\ \A w \in Workers : LineInv(w) /\ StageInv(w) /\ FenceInv(w)
  BY DEF IInv
<1>2. /\ faults' \in Nat /\ active' = [s \in Shards |-> NoLease]
      /\ next_token' = [s \in Shards |-> 0] /\ mem' = disk
      /\ UNCHANGED <<disk, wk, store, grants, committed>>
  <2>1. faults \in Nat /\ faults' = faults + 1
    BY <1>1 DEF Restart, Fault, TypeOK
  <2>2. faults' \in Nat
    BY <2>1
  <2> QED BY <2>2, Zenon DEF Restart
<1>3. ASSUME NEW w \in Workers
      PROVE  /\ conn'[w] \in ConnType /\ conn'[w].up = FALSE /\ conn'[w].req = <<>>
             /\ conn'[w].resp = conn[w].resp
  <2> DEFINE d == [conn[w] EXCEPT !.up = FALSE, !.req = <<>>]
  <2>1. conn'[w] = d
    BY DEF Restart
  <2>2. conn[w] \in ConnType /\ <<>> \in Seq(Reqs)
    BY <1>1, TypeAt, EmptyItems
  <2>3. d \in ConnType /\ d.up = FALSE /\ d.req = <<>> /\ d.resp = conn[w].resp
    BY <2>2, LineParts
  <2> HIDE DEF d
  <2> QED BY <2>1, <2>3
<1>4. conn' \in [Workers -> ConnType]
  <2>1. conn' = [w \in Workers |-> conn'[w]]
    BY DEF Restart
  <2> QED BY <1>3, <2>1
<1>5. TypeOK'
  BY <1>1, <1>2, <1>4, NoLeaseTyped DEF TypeOK
<1>6. MemInv' /\ LeaseInv'
  <2>1. \A s \in Shards : disk.watermarks[s] \in Nat
    BY <1>1 DEF TypeOK, StateType
  <2> QED BY <1>2, <2>1 DEF MemInv, Ahead, LeaseInv
<1>7. ASSUME NEW w \in Workers PROVE LineInv(w)' /\ StageInv(w)' /\ FenceInv(w)'
  <2>1. LineInv(w) /\ StageInv(w) /\ wk' = wk
    BY <1>1, <1>2
  <2>2. /\ Items(conn'[w].req) = {} /\ conn'[w].resp = conn[w].resp /\ conn'[w].up = FALSE
        /\ conn'[w].req = <<>>
    BY <1>3, EmptyItems
  <2>3. Alone(w) => Alone(w)'
    <3>1. Len(conn[w].req) \in Nat /\ Len(conn[w].resp) \in Nat
      BY <1>1, TypeAt, LenProperties
    <3>2. Len(conn'[w].req) = 0 /\ conn'[w].resp = conn[w].resp
      BY <2>2, EmptyItems
    <3>3. \A a, b \in Nat : a + b <= 1 => 0 + b <= 1
      OBVIOUS
    <3> QED BY <3>1, <3>2, <3>3 DEF Alone
  <2>4. /\ Carries(w, {"acquire"}) => Carries(w, {"acquire"})'
        /\ Carries(w, {"register"}) => Carries(w, {"register"})'
        /\ Carries(w, {"record"}) => Carries(w, {"record"})'
        /\ Carries(w, {"commit"}) => Carries(w, {"commit"})'
        /\ Carries(w, {"renew"}) => Carries(w, {"renew"})'
        /\ Carries(w, {"renew", "release"}) => Carries(w, {"renew", "release"})'
    BY <2>2 DEF Carries
  <2>5. LineInv(w)'
    BY <2>1, <2>2, <2>3, <2>4 DEF LineInv, LockFree
  <2>6. StageInv(w)'
    BY <1>2, <2>1, <2>2 DEF StageInv, Placed, Listed, Stored
  <2>7. FenceInv(w)'
    BY <2>2 DEF FenceInv, Connected
  <2> QED BY <2>5, <2>6, <2>7
<1> QED BY <1>5, <1>6, <1>7 DEF IInv

-----------------------------------------------------------------------------
(* The invariant *)

\* Nobody is connected and nothing is promised.
LEMMA InitIInv == Init => IInv
<1> SUFFICES ASSUME Init PROVE IInv
  OBVIOUS
<1>1. PICK d \in Deployments : wk = [w \in Workers |-> Fresh(d[w])]
  BY DEF Init
<1>2. d \in [Workers -> [holder : Holders, location : Locations, shard : Shards]]
  BY ConstantsAssumption DEF AnyDeployment
<1>3. ASSUME NEW w \in Workers
      PROVE  /\ wk[w] \in WorkerType /\ wk[w].pc = "start" /\ wk[w].hb = "off" /\ wk[w].token = 0
             /\ wk[w].result = "none" /\ conn[w] = Disconnected
  <2> DEFINE f == Fresh(d[w])
  <2>1. d[w].holder \in Holders /\ d[w].location \in Locations /\ d[w].shard \in Shards
    BY <1>2
  <2>2. /\ f \in WorkerType /\ f.pc = "start" /\ f.hb = "off" /\ f.token = 0 /\ f.result = "none"
    BY <2>1 DEF Fresh, WorkerType, WorkerStates
  <2>3. wk[w] = f /\ conn[w] = Disconnected
    BY <1>1 DEF Init
  <2> HIDE DEF f
  <2> QED BY <2>2, <2>3
<1>4. wk \in [Workers -> WorkerType]
  BY <1>1, <1>3
<1>5. Disconnected \in ConnType /\ Disconnected.req = <<>> /\ Disconnected.resp = <<>> /\ ~Disconnected.up
  <2>1. <<>> \in Seq(Reqs) /\ <<>> \in Seq(Resps)
    BY EmptyItems
  <2> QED BY <2>1, LineParts DEF Disconnected
<1>6. conn \in [Workers -> ConnType]
  BY <1>5 DEF Init
<1>7. /\ Empty \in StateType /\ Empty.catalog = NoWhere /\ Empty.entities = {}
      /\ Empty.watermarks = [s \in Shards |-> 0]
  BY DEF Empty, StateType
<1>8. /\ active = [s \in Shards |-> NoLease] /\ next_token = [s \in Shards |-> 0]
      /\ mem = Empty /\ disk = Empty /\ store = [l \in Locations |-> {}] /\ faults = 0
      /\ grants = [s \in Shards |-> 0] /\ committed = {}
  BY DEF Init
<1>9. TypeOK
  BY <1>4, <1>6, <1>7, <1>8, NoLeaseTyped DEF TypeOK
<1>10. MemInv /\ LeaseInv
  BY <1>7, <1>8 DEF MemInv, Ahead, LeaseInv
<1>11. ASSUME NEW w \in Workers PROVE LineInv(w) /\ StageInv(w) /\ FenceInv(w)
  <2>1. /\ conn[w].req = <<>> /\ conn[w].resp = <<>> /\ ~conn[w].up
        /\ Items(conn[w].req) = {} /\ Items(conn[w].resp) = {}
    BY <1>3, <1>5, EmptyItems
  <2>2. LineInv(w)
    BY <1>3, <2>1 DEF LineInv, Waiting, Working
  <2>3. StageInv(w)
    BY <1>3, <1>8, <2>1 DEF StageInv
  <2>4. FenceInv(w)
    BY <2>1 DEF FenceInv, Connected
  <2> QED BY <2>2, <2>3, <2>4
<1> QED BY <1>9, <1>10, <1>11 DEF IInv

\* Every step of the coordinator, of a worker and of the environment keeps the invariant.
LEMMA NextIInv ==
  ASSUME IInv, Next
  PROVE  IInv'
<1>1. ASSUME NEW w \in Workers, Handle(w) PROVE IInv'
  BY <1>1, LeaseAcquireStep, LeaseRenewStep, LeaseReleaseStep, ManifestCommitStep,
     CatalogRegisterStep, RecordStep DEF Handle
<1>2. ASSUME NEW w \in Workers, Run(w) PROVE IInv'
  BY <1>2, ConnectStep, SendAcquireStep, AcquiredStep, RetryAcquireStep, EndingSteps,
     PipelineStep, ListEntitiesStep, CountEntriesStep, WorkFailsStep, SendRegisterStep,
     SendRecordStep, SendCommitStep, RegisteredStep, CommitAnsweredStep, SendReleaseStep,
     CallFailsStep DEF Run
<1>3. ASSUME NEW w \in Workers, Heartbeat(w) PROVE IInv'
  BY <1>3, HeartbeatSendStep, HeartbeatAnsweredStep, HeartbeatStopsStep DEF Heartbeat
<1>4. ASSUME NEW w \in Workers, Die(w) \/ Disconnect(w) \/ LoseRequests(w) PROVE IInv'
  BY <1>4, EndingSteps, DisconnectStep, LoseRequestsStep
<1>5. ASSUME NEW s \in Shards, ClockMoves(s) PROVE IInv'
  BY <1>5, ClockMovesStep
<1>6. CASE Restart
  BY <1>6, RestartStep
<1> QED BY <1>1, <1>2, <1>3, <1>4, <1>5, <1>6 DEF Next

\* Nor does a step in which nothing happens.
LEMMA StutterIInv ==
  ASSUME IInv, UNCHANGED vars
  PROVE  IInv'
<1>1. /\ active' = active /\ next_token' = next_token /\ mem' = mem /\ disk' = disk
      /\ conn' = conn /\ wk' = wk /\ store' = store /\ faults' = faults
      /\ grants' = grants /\ committed' = committed
  BY DEF vars
<1>2. TypeOK' /\ MemInv' /\ LeaseInv'
  BY <1>1 DEF IInv, TypeOK, MemInv, Ahead, LeaseInv
<1>3. ASSUME NEW w \in Workers PROVE LineInv(w)' /\ StageInv(w)' /\ FenceInv(w)'
  <2>1. LineInv(w) /\ StageInv(w) /\ FenceInv(w)
    BY DEF IInv
  <2>2. LineInv(w)'
    BY <1>1, <2>1, OtherLine
  <2>3. StageInv(w)'
    BY <1>1, <2>1 DEF StageInv, Placed, Listed, Stored
  <2>4. FenceInv(w)'
    BY <1>1, <2>1 DEF FenceInv, Connected, Newest
  <2> QED BY <2>2, <2>3, <2>4
<1> QED BY <1>2, <1>3 DEF IInv

\* The inductive invariant holds in every state of every behaviour.
THEOREM Invariant == Spec => []IInv
<1>1. IInv /\ [Next]_vars => IInv'
  BY NextIInv, StutterIInv
<1> QED BY <1>1, InitIInv, PTL DEF Spec

-----------------------------------------------------------------------------
(* What it shows *)

\* The coordinator, its state file, the connections and the runs keep their types, whatever
\* the processes were started with.
THEOREM TypeCorrect == Spec => []TypeOK
<1>1. IInv => TypeOK
  BY DEF IInv
<1> QED BY <1>1, Invariant, PTL

\* A run that returned Ok (CompileWorker::run_shard) has its generation, its partition and
\* its entities in the state file of the coordinator.
THEOREM OkDurable == Spec => []OkIsDurable
<1>1. IInv => OkIsDurable
  BY DEF IInv, StageInv, Listed, Placed, Stored, OkIsDurable
<1> QED BY <1>1, Invariant, PTL

\* When ManifestCommit accepts a generation, the state file names the partition and the
\* entities of the run that commits it.
THEOREM RegisteredFirst == Spec => []RegisteredBeforeCommitted
<1>1. IInv => RegisteredBeforeCommitted
  BY DEF IInv, TypeOK, StageInv, Listed, Placed, RegisteredBeforeCommitted
<1> QED BY <1>1, Invariant, PTL

\* CoordinatorClient::call never takes the answer to one task's request for the answer to
\* the other's.
THEOREM AnswersMatch == Spec => []NoCrossTalk
<1>1. ASSUME IInv, NEW w \in Workers, conn[w].resp # <<>>
      PROVE  /\ wk[w].hb = "sent" => Response(w).op = "renew"
             /\ wk[w].pc \in Waiting \ {"releasing"} => Response(w).op = Expected(w)
  <2>1. LineInv(w) /\ Response(w) \in Items(conn[w].resp)
    BY <1>1, TypeAt, HeadTail DEF IInv, Response
  <2>2. wk[w].hb = "sent" => Response(w).op = "renew"
    BY <2>1 DEF LineInv, Carries
  <2>3. /\ wk[w].pc = "acquiring" => Response(w).op = "acquire"
        /\ wk[w].pc = "registering" => Response(w).op = "register"
        /\ wk[w].pc = "recording" => Response(w).op = "record"
        /\ wk[w].pc = "committing" => Response(w).op = "commit"
    BY <2>1 DEF LineInv, Carries
  <2>4. /\ wk[w].pc = "acquiring" => Expected(w) = "acquire"
        /\ wk[w].pc = "registering" => Expected(w) = "register"
        /\ wk[w].pc = "recording" => Expected(w) = "record"
        /\ wk[w].pc = "committing" => Expected(w) = "commit"
    BY DEF Expected, Waiting
  <2> QED BY <2>2, <2>3, <2>4 DEF Waiting
<1>2. IInv => NoCrossTalk
  BY <1>1 DEF NoCrossTalk
<1> QED BY <1>2, Invariant, PTL

\* A worker whose token the coordinator finds in force received the newest grant.
LEMMA InForce ==
  ASSUME IInv, NEW w \in Workers, Connected(w),
         active[wk[w].shard] # NoLease, active[wk[w].shard].token = wk[w].token
  PROVE  wk[w].serial = grants[wk[w].shard]
<1>1. wk[w].shard \in Shards /\ wk[w].token \in Nat
  BY TypeAt DEF IInv
<1>2. wk[w].token = next_token[wk[w].shard] /\ wk[w].token > 0
  BY <1>1 DEF IInv, LeaseInv
<1> QED BY <1>2 DEF IInv, FenceInv, Newest

\* The coordinator accepts a ManifestCommit only from the run that received the newest
\* grant of the shard.
THEOREM Fenced == Spec => CommitFenced
<1>1. ASSUME IInv, Next, NEW w \in committed' \ committed
      PROVE  wk[w].serial = grants[wk[w].shard]
  <2>1. PICK v \in Workers : ManifestCommit(v) /\ committed' = committed \cup {v}
    BY <1>1 DEF Next, Handle, LeaseAcquire, LeaseRenew, LeaseRelease, ManifestCommit,
       CatalogRegister, RecordEntityPartitions, Run, Connect, SendAcquire, Acquired, RetryAcquire,
       GiveUp, Pipeline, ListEntities, CountEntries, WorkFails, SendRegister, SendRecord,
       SendCommit, Registered, CommitAnswered, SendRelease, ReleaseAnswered, CallFails, Heartbeat,
       HeartbeatSend, HeartbeatAnswered, HeartbeatStops, Die, Disconnect, LoseRequests,
       ClockMoves, Restart, NotWorker
  <2>2. v = w /\ Connected(v)
    BY <1>1, <2>1 DEF ManifestCommit, Incoming, Connected
  <2>3. Check(wk[v].shard, wk[v].holder, wk[v].token) = "ok"
    BY <1>1, <2>1, <2>2 DEF ManifestCommit
  <2>4. active[wk[v].shard].token = wk[v].token /\ active[wk[v].shard].live
    BY <2>3 DEF Check
  <2> QED BY <1>1, <2>1, <2>2, <2>4, NoLeaseTyped, InForce
<1>2. IInv /\ [Next]_vars =>
        [\A w \in committed' \ committed : wk[w].serial = grants[wk[w].shard]]_vars
  BY <1>1
<1> QED BY <1>2, Invariant, PTL DEF Spec, CommitFenced

\* A live lease disappears only when the run it was granted to releases it, or when the
\* coordinator restarts.
THEOREM ReleasedByOwner == Spec => OnlyOwnRelease
<1>1. ASSUME IInv, Next, NEW s \in Shards, active[s].live, active'[s] = NoLease
      PROVE  \/ next_token'[s] = 0
             \/ \E w \in Workers : /\ wk[w].shard = s /\ wk[w].serial = grants[s]
                                   /\ wk[w].pc \in {"releasing", "ended"}
  <2>1. active[s] # NoLease /\ TypeOK
    BY <1>1, NoLeaseTyped DEF IInv
  <2>2. \/ \E w \in Workers : LeaseRelease(w) \/ LeaseAcquire(w)
        \/ \E t \in Shards : ClockMoves(t)
        \/ Restart
    BY <1>1, <2>1 DEF Next, Handle, LeaseRenew, ManifestCommit,
       CatalogRegister, RecordEntityPartitions, Run, Connect, SendAcquire, Acquired, RetryAcquire,
       GiveUp, Pipeline, ListEntities, CountEntries, WorkFails, SendRegister, SendRecord,
       SendCommit, Registered, CommitAnswered, SendRelease, ReleaseAnswered, CallFails, Heartbeat,
       HeartbeatSend, HeartbeatAnswered, HeartbeatStops, Die, Disconnect, LoseRequests,
       NotWorker, coordinator
  <2>3. CASE Restart
    BY <2>3 DEF Restart
  <2>4. ASSUME NEW w \in Workers, LeaseRelease(w)
        PROVE  wk[w].shard = s /\ wk[w].serial = grants[s] /\ wk[w].pc \in {"releasing", "ended"}
    <3>1. Released(w) /\ wk[w].shard = s
      BY <1>1, <2>1, <2>4 DEF LeaseRelease, TypeOK
    <3>2. Connected(w) /\ Head(conn[w].req) \in Items(conn[w].req) /\ Head(conn[w].req).op = "release"
      BY <2>1, <2>4, TypeAt, HeadTail DEF LeaseRelease, Incoming, Connected
    <3>3. wk[w].pc \in {"releasing", "ended"}
      BY <1>1, <3>2 DEF IInv, LineInv
    <3>4. active[wk[w].shard].token = wk[w].token
      BY <3>1 DEF Released
    <3> QED BY <1>1, <2>1, <3>1, <3>2, <3>3, <3>4, InForce
  <2>5. ASSUME NEW w \in Workers, LeaseAcquire(w) PROVE FALSE
    <3>1. wk[w].shard \in Shards /\ wk[w].holder \in Holders
      BY <2>1, TypeAt
    <3>2. next_token[s] \in Nat /\ active \in [Shards -> LeaseType] /\ next_token \in [Shards -> Nat]
      BY <2>1 DEF TypeOK
    <3>3. s = wk[w].shard /\ active'[s].live = TRUE
      BY <1>1, <2>1, <2>5, <3>1, <3>2 DEF LeaseAcquire
    <3> QED BY <1>1, <3>3, NoLeaseTyped
  <2>6. ASSUME NEW t \in Shards, ClockMoves(t) PROVE FALSE
    <3>1. active[s] \in LeaseType /\ active \in [Shards -> LeaseType]
      BY <2>1 DEF TypeOK
    <3>2. t = s /\ active' = [active EXCEPT ![s].live = ~@]
      BY <1>1, <2>1, <2>6, <3>1 DEF ClockMoves
    <3>3. active'[s].token = active[s].token
      BY <3>1, <3>2 DEF LeaseType
    <3>4. active[s].token > 0 /\ NoLease.token = 0
      BY <1>1, <2>1 DEF IInv, LeaseInv, NoLease
    <3> QED BY <1>1, <3>3, <3>4
  <2> QED BY <2>2, <2>3, <2>4, <2>5, <2>6
<1> DEFINE A == \A s \in Shards :
       active[s].live /\ active'[s] = NoLease =>
         \/ next_token'[s] = 0
         \/ \E w \in Workers : /\ wk[w].shard = s /\ wk[w].serial = grants[s]
                               /\ wk[w].pc \in {"releasing", "ended"}
<1>2. IInv /\ [Next]_vars => [A]_vars
  BY <1>1
<1> QED BY <1>2, Invariant, PTL DEF Spec, OnlyOwnRelease
=============================================================================
