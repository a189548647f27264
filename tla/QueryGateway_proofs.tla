------------------------ MODULE QueryGateway_proofs -------------------------
(***************************************************************************)
(* What a query returns, and when it fails, for any number of threads,     *)
(* workers, partitions, versions, queries and faults.                      *)
(*                                                                         *)
(* The argument: the lock of a connection keeps at most one request under  *)
(* way in it, that of the call which has the lock, unless a call was       *)
(* dropped (ConnInv).  A worker that a call has left behind was not there  *)
(* all the time, and a connection that a call has just made is alive while *)
(* its worker is (CallInv).  Data is in place before the catalog, the      *)
(* index and the generation speak of it (PubInv), so that a query has a    *)
(* call for a partition that is new enough, and the calls behind it find   *)
(* nothing or something newer (CoverInv).                                  *)
(***************************************************************************)
EXTENDS QueryGateway, SequenceTheorems, FiniteSetTheorems, WellFoundedInduction, TLAPS

Kinds == {"first", "all"}
Requests == [part : Parts, kind : Kinds, no : Nat]
Answers == [part : Parts, kind : Kinds, no : Nat, result : {WorkerErr} \cup 0 .. MaxVersion,
            stale : BOOLEAN]
Conns == [worker : Workers, alive : BOOLEAN, lock : {NoLock} \cup (Threads \X Parts),
          reqs : Seq(Requests), resps : Seq(Answers), dirty : BOOLEAN]

Steps == [pc : {"connect", "send", "read"}, idx : Workers, conn : Nat]
Calls == [at : {Done} \cup Steps, tried : Workers, retried : BOOLEAN, calm : SUBSET Workers,
          own : BOOLEAN, result : Results]
Runs == [pc : {"run"}, kind : Kinds, floor : 0 .. MaxVersion, no : Nat, tainted : BOOLEAN,
         calls : UNION {[ps -> Calls] : ps \in SUBSET Parts}]
Ends == [pc : {"end"}, floor : 0 .. MaxVersion, result : Results, tainted : BOOLEAN,
         calm : SUBSET Workers]
Asks == [pc : {"catalog"}, floor : 0 .. MaxVersion]

\* The types, by what is shared: the cluster, its workers, the connections, the queries.
ClusterType ==
  /\ content \in [Parts -> 0 .. MaxVersion] /\ catalog \subseteq Parts /\ index \subseteq catalog
  /\ committed \in 0 .. MaxVersion
  /\ pub \in {Idle} \cup [pc : {"register", "record", "commit"}, part : Parts]
WorkerType ==
  /\ up \in [Workers -> BOOLEAN] /\ linked \in [Workers -> BOOLEAN]
  /\ handle \in [Workers -> [Parts -> {None} \cup 0 .. MaxVersion]]
ConnType ==
  /\ conns \in [DOMAIN conns -> Conns] /\ DOMAIN conns \subseteq Nat \ {0}
  /\ IsFiniteSet(DOMAIN conns)
  /\ slot \in [Workers -> {0} \cup DOMAIN conns]
QueryType ==
  /\ q \in [Threads -> {Idle} \cup Runs \cup Ends \cup Asks]
  /\ next_worker \in Workers /\ queries \in Nat

\* Among ps is a partition with version f, and those behind it have nothing or no less.
Enough(m, ps, f) == content[m] >= f /\ \A r \in ps : r > m => content[r] = 0 \/ content[r] >= f
Covered(ps, f) == \E m \in ps : Enough(m, ps, f)

\* What is published.
PubInv ==
  /\ committed >= 1 /\ Covered(catalog, committed)
  /\ index # {} => Covered(index, committed)
  /\ pub = Idle => \A r \in Parts : content[r] <= committed
  /\ pub # Idle =>
       /\ committed < MaxVersion /\ content[pub.part] = committed + 1
       /\ \A r \in Parts : r > pub.part => content[r] = 0
       /\ \A r \in Parts : r # pub.part => content[r] <= committed
       /\ pub.pc \in {"record", "commit"} => pub.part \in catalog
       /\ pub.pc = "commit" => pub.part \in index

\* The pooled connection of a worker is one to it.
PoolInv ==
  \A w \in Workers : slot[w] # 0 => conns[slot[w]].worker = w

\* The worker w comes in the n places before worker i, in the rotation.
Passed(w, i, n) == IF w < i THEN i - w <= n ELSE w > i /\ i + N - w <= n

\* A call c, of thread t for partition p, in the midst of connections cs.
CallOk(c, t, p, cs) ==
  /\ \A w \in c.calm : up[w]
  /\ c.at # Done =>
       /\ c.result = 0
       /\ \A w \in c.calm : ~Passed(w, c.at.idx, c.tried)
       /\ c.at.pc = "connect" <=> c.at.conn = 0
       /\ c.at.conn # 0 =>
            /\ c.at.conn \in DOMAIN cs /\ cs[c.at.conn].worker = c.at.idx
            /\ c.at.pc = "read" => cs[c.at.conn].lock = <<t, p>>
            /\ c.retried /\ c.at.idx \in c.calm => cs[c.at.conn].alive
  /\ c.at = Done => c.own /\ (c.result = ConnErr => c.calm = {})
CallInv ==
  \A t \in Threads : Running(t) =>
    \A p \in DOMAIN q[t].calls : CallOk(Call(t, p), t, p, conns)
EndInv == \A t \in Threads : q[t].pc = "end" /\ q[t].result = ConnErr => q[t].calm = {}

Items(s) == {s[i] : i \in DOMAIN s}

\* An item of a connection is of the call that has the lock.
OfCall(x, l) ==
  /\ x.part = l[2] /\ x.no = q[l[1]].no /\ x.kind = q[l[1]].kind

\* What is in the connection k, whose number is n.
Locked(k, n) == k.lock # NoLock =>
  At(k.lock[1], k.lock[2], "read") /\ Call(k.lock[1], k.lock[2]).at.conn = n
Pure(k) == k.dirty \/
  /\ Len(k.reqs) + Len(k.resps) <= 1
  /\ k.lock = NoLock => k.reqs = <<>> /\ k.resps = <<>>
  /\ k.lock # NoLock => \A x \in Items(k.reqs) \cup Items(k.resps) : OfCall(x, k.lock)
ConnOk(k, n) == Locked(k, n) /\ Pure(k) /\ (~k.alive => k.reqs = <<>>)
ConnInv == \A n \in DOMAIN conns : ConnOk(conns[n], n)

\* A result v for partition r is an error or new enough, or, behind m, says there is nothing.
Fine(v, m, r, f) == IsErr(v) \/ v >= f \/ (r > m /\ v = 0)

\* What the call for partition r has found, or has still to read, if it can be used.
ResultOk(t, m, r) ==
  Call(t, r).at = Done /\ ~q[t].tainted => Fine(Call(t, r).result, m, r, q[t].floor)
AnswerOk(t, m, r) ==
  Call(t, r).at.pc = "read" /\ ~conns[Call(t, r).at.conn].dirty =>
    \A a \in Items(conns[Call(t, r).at.conn].resps) :
      a.stale \/ Fine(a.result, m, r, q[t].floor)

\* The query of thread t has a call for m, and no answer that it can use is older.
CoveredAt(t, m) ==
  /\ Enough(m, DOMAIN q[t].calls, q[t].floor)
  /\ \A r \in DOMAIN q[t].calls : r >= m => ResultOk(t, m, r) /\ AnswerOk(t, m, r)
CoverInv ==
  \A t \in Threads :
    /\ q[t].pc \in {"catalog", "run", "end"} => 1 <= q[t].floor /\ q[t].floor <= committed
    /\ Running(t) => \E m \in DOMAIN q[t].calls : CoveredAt(t, m)

\* The inductive invariant.
IInv ==
  /\ ClusterType /\ WorkerType /\ ConnType /\ QueryType
  /\ PubInv /\ PoolInv /\ CallInv /\ EndInv /\ ConnInv /\ CoverInv /\ ReadsCommitted

-----------------------------------------------------------------------------
(* The rotation *)

LEMMA Modulo == ASSUME NEW x \in Nat PROVE x % N \in Workers
BY GatewayAssumption DEF Workers

LEMMA NextWorker ==
  ASSUME NEW i \in Workers
  PROVE  (i + 1) % N = IF i + 1 = N THEN 0 ELSE i + 1
BY GatewayAssumption DEF Workers

\* Going to the next worker leaves one more behind.
LEMMA OnePassed ==
  ASSUME NEW i \in Workers, NEW n \in Nat, n + 1 < N, NEW w \in Workers,
         Passed(w, (i + 1) % N, n + 1)
  PROVE  w = i \/ Passed(w, i, n)
BY NextWorker, GatewayAssumption DEF Workers, Passed

\* With the last worker, all have been tried.
LEMMA AllPassed ==
  ASSUME NEW i \in Workers, NEW n \in Nat, n + 1 = N, NEW w \in Workers
  PROVE  w = i \/ Passed(w, i, n)
BY GatewayAssumption DEF Workers, Passed

-----------------------------------------------------------------------------
(* Queues, sets and pairs *)

\* What the first item and the rest of a queue are.
LEMMA HeadTail ==
  ASSUME NEW S, NEW s \in Seq(S), s # <<>>
  PROVE  /\ Head(s) \in S /\ Head(s) \in Items(s)
         /\ Tail(s) \in Seq(S) /\ Items(Tail(s)) \subseteq Items(s)
         /\ Len(s) \in Nat /\ Len(Tail(s)) = Len(s) - 1 /\ Len(s) > 0
<1>1. /\ Len(s) \in Nat /\ Len(s) > 0 /\ 1 \in DOMAIN s /\ Head(s) = s[1]
      /\ Tail(s) \in Seq(S) /\ Len(Tail(s)) = Len(s) - 1
  BY EmptySeq, LenProperties, HeadTailProperties
<1>2. ASSUME NEW i \in DOMAIN Tail(s) PROVE i + 1 \in DOMAIN s /\ Tail(s)[i] = s[i + 1]
  BY <1>1, HeadTailProperties
<1>3. s[1] \in S
  BY <1>1, ElementOfSeq
<1> QED BY <1>1, <1>2, <1>3 DEF Items

\* What is in a queue behind which an item is put.
LEMMA AppendItems ==
  ASSUME NEW S, NEW s \in Seq(S), NEW x \in S
  PROVE  /\ Append(s, x) \in Seq(S) /\ Items(Append(s, x)) = Items(s) \cup {x}
         /\ Len(s) \in Nat /\ Len(Append(s, x)) = Len(s) + 1
<1>1. /\ Append(s, x) \in Seq(S) /\ Len(Append(s, x)) = Len(s) + 1 /\ Len(s) \in Nat
      /\ \A i \in 1 .. Len(s) : Append(s, x)[i] = s[i]
      /\ Append(s, x)[Len(s) + 1] = x
      /\ DOMAIN s = 1 .. Len(s) /\ DOMAIN Append(s, x) = 1 .. Len(s) + 1
  BY AppendProperties
<1>2. Items(Append(s, x)) = Items(s) \cup {x}
  BY <1>1 DEF Items
<1> QED BY <1>1, <1>2

\* Nothing is in the empty queue.
LEMMA EmptyItems == Items(<<>>) = {} /\ Len(<<>>) = 0 /\ \A S : <<>> \in Seq(S)
BY DEF Items

\* A queue without items is empty.
LEMMA NoItems ==
  ASSUME NEW S, NEW s \in Seq(S), Len(s) = 0
  PROVE  s = <<>>
BY EmptySeq

\* Who has a lock.
LEMMA LockOf ==
  ASSUME NEW l \in {NoLock} \cup (Threads \X Parts), l # NoLock
  PROVE  l[1] \in Threads /\ l[2] \in Parts /\ l = <<l[1], l[2]>>
BY DEF NoLock

LEMMA LockIs ==
  ASSUME NEW t, NEW p
  PROVE  /\ <<t, p>> # NoLock /\ <<t, p>>[1] = t /\ <<t, p>>[2] = p
         /\ t \in Threads /\ p \in Parts => <<t, p>> \in Threads \X Parts
BY DEF NoLock

LEMMA LeastNat ==
  ASSUME NEW T, T \subseteq Nat, T # {}
  PROVE  \E x \in T : \A y \in T : x <= y
<1>1. PICK x \in T : \A y \in T : ~(<<y, x>> \in OpToRel(<, Nat))
  BY NatLessThanWellFounded, WFMin, Zenon
<1>2. ASSUME NEW y \in T, y < x PROVE FALSE
  <2>1. <<y, x>> \in Nat \X Nat /\ <<y, x>>[1] = y /\ <<y, x>>[2] = x
    OBVIOUS
  <2>2. <<y, x>> \in {ss \in Nat \X Nat : ss[1] < ss[2]}
    BY <1>2, <2>1
  <2>3. <<y, x>> \in OpToRel(<, Nat)
    BY <2>2, Zenon DEF OpToRel
  <2> QED BY <1>1, <2>3, Zenon
<1> QED BY <1>2

\* A finite set of numbers has a greatest: the one with the fewest above it.
LEMMA Greatest ==
  ASSUME NEW S, S \subseteq Nat, IsFiniteSet(S), S # {}
  PROVE  \E x \in S : \A y \in S : y <= x
<1> DEFINE Above(x) == {y \in S : y > x}
           T == {Cardinality(Above(x)) : x \in S}
<1>1. ASSUME NEW x \in S PROVE IsFiniteSet(Above(x)) /\ Cardinality(Above(x)) \in Nat
  <2>1. Above(x) \subseteq S
    OBVIOUS
  <2> QED BY <2>1, FS_Subset, FS_CardinalityType
<1>2. T \subseteq Nat /\ T # {}
  BY <1>1
<1>3. PICK k \in T : \A j \in T : k <= j
  <2> HIDE DEF T
  <2> QED BY <1>2, LeastNat
<1>4. PICK x \in S : k = Cardinality(Above(x))
  OBVIOUS
<1>5. ASSUME NEW y \in S, y > x PROVE FALSE
  <2>a. x \in Nat /\ y \in Nat /\ \A z \in S : z \in Nat
    OBVIOUS
  <2>1. Above(y) \subseteq Above(x) /\ y \in Above(x) /\ y \notin Above(y)
    <3>1. ASSUME NEW z \in S, z > y PROVE z > x
      BY <1>5, <2>a, <3>1
    <3>2. ~(y > y)
      BY <2>a
    <3> QED BY <1>5, <3>1, <3>2, Zenon
  <2>2. Above(y) \subseteq Above(x) /\ Above(y) # Above(x)
    BY <2>1
  <2>3. Cardinality(Above(y)) < Cardinality(Above(x))
    <3>1. PICK a, b : a = Above(x) /\ b = Above(y)
      OBVIOUS
    <3>2. IsFiniteSet(a) /\ Cardinality(a) \in Nat /\ Cardinality(b) \in Nat
      BY <1>1, <3>1
    <3>3. b \in SUBSET a /\ a # b
      BY <2>2, <3>1
    <3>4. Cardinality(b) <= Cardinality(a) /\ Cardinality(a) # Cardinality(b)
      BY <3>2, <3>3, FS_Subset
    <3> QED BY <3>1, <3>2, <3>4
  <2>4. Cardinality(Above(y)) \in T /\ Cardinality(Above(y)) \in Nat /\ k \in Nat
    BY <1>1, <1>2
  <2> QED BY <1>3, <1>4, <2>3, <2>4
<1> QED BY <1>5

\* A connection gets a number that no other has.
LEMMA NewIdIs ==
  ASSUME ConnType
  PROVE  NewId \in Nat \ {0} /\ NewId \notin DOMAIN conns
<1>1. PICK D : D = DOMAIN conns
  OBVIOUS
<1>2. IsFiniteSet(D) /\ Cardinality(D) \in Nat
  BY <1>1, FS_CardinalityType DEF ConnType
<1>3. PICK k \in Nat : k = Cardinality(D) + 1
  BY <1>2
<1>4. \E n \in 1 .. k : n \notin D
  <2>1. SUFFICES ASSUME 1 .. k \subseteq D PROVE FALSE
    OBVIOUS
  <2>2. Cardinality(1 .. k) <= Cardinality(D)
    BY <1>2, <2>1, FS_Subset
  <2>3. Cardinality(1 .. k) = k
    BY <1>3, FS_Interval
  <2> QED BY <1>2, <1>3, <2>2, <2>3
<1>5. NewId \in 1 .. k /\ NewId \notin D
  BY <1>1, <1>3, <1>4 DEF NewId
<1> QED BY <1>1, <1>3, <1>5

-----------------------------------------------------------------------------
(* What the types say *)

LEMMA ConnIs ==
  ASSUME ConnType, NEW n \in DOMAIN conns
  PROVE  /\ n \in Nat \ {0} /\ conns[n] \in Conns
         /\ conns[n].worker \in Workers /\ conns[n].lock \in {NoLock} \cup (Threads \X Parts)
         /\ conns[n].reqs \in Seq(Requests) /\ conns[n].resps \in Seq(Answers)
<1>1. conns[n] \in Conns /\ n \in Nat \ {0}
  BY DEF ConnType
<1> QED BY <1>1 DEF Conns

LEMMA RunIs ==
  ASSUME QueryType, NEW t \in Threads, Running(t)
  PROVE  /\ q[t] \in Runs /\ q[t].kind \in Kinds /\ q[t].floor \in 0 .. MaxVersion
         /\ q[t].no \in Nat /\ q[t].tainted \in BOOLEAN
         /\ DOMAIN q[t].calls \subseteq Parts
         /\ q[t].calls \in [DOMAIN q[t].calls -> Calls]
         /\ \A p \in DOMAIN q[t].calls : p \in Parts /\ Call(t, p) \in Calls
<1>1. q[t] \in Runs
  BY DEF QueryType, Running, Idle, Ends, Asks
<1>2. /\ q[t].kind \in Kinds /\ q[t].floor \in 0 .. MaxVersion /\ q[t].no \in Nat
      /\ q[t].tainted \in BOOLEAN /\ q[t].calls \in UNION {[ps -> Calls] : ps \in SUBSET Parts}
  BY <1>1 DEF Runs
<1>3. PICK ps \in SUBSET Parts : q[t].calls \in [ps -> Calls]
  BY <1>2
<1> QED BY <1>1, <1>2, <1>3 DEF Call

LEMMA CallIs ==
  ASSUME NEW c \in Calls
  PROVE  /\ c.at \in {Done} \cup Steps /\ c.tried \in Workers /\ c.retried \in BOOLEAN
         /\ c.calm \subseteq Workers /\ c.own \in BOOLEAN /\ c.result \in Results
         /\ c.at # Done => /\ c.at \in Steps /\ c.at.idx \in Workers /\ c.at.conn \in Nat
                           /\ c.at.pc \in {"connect", "send", "read"}
         /\ c.at.pc \in {"connect", "send", "read"} => c.at # Done
         /\ c.at = Done => c.at.conn = 0 /\ c.at.pc = "done"
<1>1. /\ c.at \in {Done} \cup Steps /\ c.tried \in Workers /\ c.retried \in BOOLEAN
      /\ c.calm \subseteq Workers /\ c.own \in BOOLEAN /\ c.result \in Results
  BY DEF Calls
<1>2. Done.pc = "done" /\ Done.conn = 0
  BY DEF Done
<1>3. c.at # Done => c.at \in Steps
  BY <1>1
<1>4. c.at # Done => /\ c.at.idx \in Workers /\ c.at.conn \in Nat
                     /\ c.at.pc \in {"connect", "send", "read"}
  BY <1>3 DEF Steps
<1> QED BY <1>1, <1>2, <1>3, <1>4

\* A call that is at a step.
LEMMA AtIs ==
  ASSUME QueryType, NEW t \in Threads, NEW p, NEW pc \in {"connect", "send", "read"}, At(t, p, pc)
  PROVE  /\ Running(t) /\ p \in DOMAIN q[t].calls /\ p \in Parts /\ Call(t, p) \in Calls
         /\ Call(t, p).at # Done /\ Call(t, p).at \in Steps /\ Call(t, p).at.pc = pc
         /\ Call(t, p).at.idx \in Workers /\ Call(t, p).at.conn \in Nat
<1>1. Running(t) /\ p \in DOMAIN q[t].calls /\ Call(t, p).at.pc = pc
  BY DEF At
<1>2. p \in Parts /\ Call(t, p) \in Calls
  BY <1>1, RunIs
<1> QED BY <1>1, <1>2, CallIs

-----------------------------------------------------------------------------
(* Frames *)

Live(t, p) == Running(t) /\ p \in DOMAIN q[t].calls

\* The call of t for p goes on as it was.
Goes(t, p) ==
  /\ Live(t, p)' /\ Call(t, p)' = Call(t, p) /\ q'[t].no = q[t].no /\ q'[t].kind = q[t].kind

LEMMA ConnStill ==
  ASSUME NEW k \in Conns, NEW n, ConnOk(k, n),
         k.lock # NoLock => Goes(k.lock[1], k.lock[2])
  PROVE  ConnOk(k, n)'
<1>1. Locked(k, n)'
  BY DEF ConnOk, Locked, Goes, Live, At, Running
<1>2. Pure(k)'
  <2>1. CASE k.lock = NoLock
    BY <2>1 DEF ConnOk, Pure
  <2>2. CASE k.lock # NoLock
    <3>1. PICK l : l = k.lock
      OBVIOUS
    <3>2. ASSUME NEW x, OfCall(x, l) PROVE OfCall(x, l)'
      BY <2>2, <3>1, <3>2 DEF OfCall, Goes
    <3> QED BY <2>2, <3>1, <3>2 DEF ConnOk, Pure
  <2> QED BY <2>1, <2>2
<1> QED BY <1>1, <1>2 DEF ConnOk

\* L: the calls that a step changes, X: the connections.
LocalCalls(L) ==
  \A u \in Threads, s \in Parts : <<u, s>> \notin L =>
    (Live(u, s) => Goes(u, s)) /\ (Live(u, s)' => Live(u, s))
LocalConns(L, X) ==
  /\ \A n \in DOMAIN conns' : n \notin X =>
       n \in DOMAIN conns /\ conns'[n] = conns[n] /\ conns[n].lock \notin L
  /\ \A n \in X \cap DOMAIN conns :
       /\ conns[n].lock \in L \cup {NoLock}
       /\ n \in DOMAIN conns' => /\ conns'[n].worker = conns[n].worker
                                 /\ conns'[n].alive = conns[n].alive
  /\ \A u \in Threads, s \in Parts :
       Live(u, s)' /\ Call(u, s)'.at.conn # 0 => Call(u, s)'.at.conn \in DOMAIN conns'
Local(L, X) == LocalCalls(L) /\ LocalConns(L, X)

\* A call that goes on still has its connection.
LEMMA CallStill ==
  ASSUME QueryType, ConnType, CallInv, NEW L, NEW X, Local(L, X), up' = up,
         NEW u \in Threads, NEW s \in Parts, <<u, s>> \notin L, Live(u, s)'
  PROVE  /\ CallOk(Call(u, s), u, s, conns)'
         /\ Call(u, s).at.pc = "read" =>
              /\ Call(u, s).at.conn \in DOMAIN conns /\ Call(u, s).at.conn \in DOMAIN conns'
              /\ conns'[Call(u, s).at.conn] = conns[Call(u, s).at.conn]
<1>1. Live(u, s) /\ Goes(u, s)
  BY DEF Local, LocalCalls, LocalConns
<1>2. PICK c : c = Call(u, s)
  OBVIOUS
<1>3. Call(u, s)' = c /\ c \in Calls /\ CallOk(c, u, s, conns)
  BY <1>1, <1>2, RunIs DEF Live, Goes, CallInv
<1>4. PICK n : n = c.at.conn
  OBVIOUS
<1>5. c.at # Done /\ n # 0 =>
        /\ n \in DOMAIN conns /\ n \in DOMAIN conns'
        /\ conns'[n].worker = conns[n].worker /\ conns'[n].alive = conns[n].alive
        /\ c.at.pc = "read" => conns'[n] = conns[n]
  <2>1. SUFFICES ASSUME c.at # Done, n # 0
                 PROVE  /\ n \in DOMAIN conns /\ n \in DOMAIN conns'
                        /\ conns'[n].worker = conns[n].worker /\ conns'[n].alive = conns[n].alive
                        /\ c.at.pc = "read" => conns'[n] = conns[n]
    OBVIOUS
  <2>2. n \in DOMAIN conns /\ (c.at.pc = "read" => conns[n].lock = <<u, s>>)
    BY <1>3, <1>4, <2>1 DEF CallOk
  <2>3. n \in DOMAIN conns'
    BY <1>3, <1>4, <2>1 DEF Local, LocalCalls, LocalConns
  <2>4. CASE n \in X
    <3>1. conns[n].lock \in L \cup {NoLock} /\ conns'[n].worker = conns[n].worker
          /\ conns'[n].alive = conns[n].alive
      BY <2>2, <2>3, <2>4 DEF Local, LocalCalls, LocalConns
    <3> QED BY <2>2, <2>3, <3>1, LockIs
  <2>5. CASE n \notin X
    BY <2>2, <2>3, <2>5 DEF Local, LocalCalls, LocalConns
  <2> QED BY <2>4, <2>5
<1>6. CallOk(c, u, s, conns)'
  BY <1>3, <1>4, <1>5 DEF CallOk
<1>7. c.at.pc = "read" => c.at # Done /\ n # 0
  BY <1>3, <1>4, CallIs DEF CallOk
<1> QED BY <1>2, <1>3, <1>4, <1>5, <1>6, <1>7

LEMMA LocalStep ==
  ASSUME QueryType, ConnType, CallInv, ConnInv, NEW L, NEW X, Local(L, X), up' = up,
         QueryType', ConnType',
         \A n \in X \cap DOMAIN conns' : ConnOk(conns[n], n)',
         \A u \in Threads, s \in Parts : <<u, s>> \in L /\ Live(u, s)' =>
            CallOk(Call(u, s), u, s, conns)'
  PROVE  ConnInv' /\ CallInv'
<1>1. CallInv'
  <2>1. SUFFICES ASSUME NEW u \in Threads, Running(u)', NEW s \in DOMAIN (q'[u].calls)
                 PROVE  CallOk(Call(u, s), u, s, conns)'
    BY DEF CallInv
  <2>2. s \in Parts /\ Live(u, s)'
    BY <2>1 DEF QueryType, Live, Running, Runs, Idle, Ends, Asks
  <2> QED BY <2>2, CallStill
<1>2. ConnInv'
  <2>1. SUFFICES ASSUME NEW n \in DOMAIN conns' PROVE ConnOk(conns[n], n)'
    BY DEF ConnInv
  <2>2. CASE n \in X
    BY <2>2
  <2>3. CASE n \notin X
    <3>1. n \in DOMAIN conns /\ conns'[n] = conns[n] /\ conns[n].lock \notin L
      BY <2>3 DEF Local, LocalCalls, LocalConns
    <3>2. PICK k : k = conns[n]
      OBVIOUS
    <3>3. k \in Conns /\ ConnOk(k, n) /\ k.lock \in {NoLock} \cup (Threads \X Parts)
      BY <3>1, <3>2, ConnIs DEF ConnInv
    <3>4. k.lock # NoLock => Goes(k.lock[1], k.lock[2])
      <4>1. SUFFICES ASSUME k.lock # NoLock PROVE Goes(k.lock[1], k.lock[2])
        OBVIOUS
      <4>2. k.lock[1] \in Threads /\ k.lock[2] \in Parts /\ k.lock = <<k.lock[1], k.lock[2]>>
        BY <3>3, <4>1, LockOf
      <4>3. Live(k.lock[1], k.lock[2])
        BY <3>3, <4>1 DEF ConnOk, Locked, At, Live
      <4> QED BY <3>1, <3>2, <4>2, <4>3 DEF Local, LocalCalls, LocalConns
    <3>5. ConnOk(k, n)'
      BY <3>3, <3>4, ConnStill
    <3> QED BY <3>1, <3>2, <3>5
  <2> QED BY <2>2, <2>3
<1> QED BY <1>1, <1>2

\* A query stays covered if the calls that change have found enough.
LEMMA CoverStill ==
  ASSUME QueryType, ConnType, CallInv, CoverInv, NEW L, NEW X, Local(L, X), up' = up,
         content' = content, NEW u \in Threads, Running(u), Running(u)',
         DOMAIN (q'[u].calls) = DOMAIN q[u].calls, q'[u].floor = q[u].floor,
         q[u].tainted => q'[u].tainted,
         \A s \in DOMAIN q[u].calls, m \in DOMAIN q[u].calls :
           <<u, s>> \in L /\ s >= m /\ CoveredAt(u, m) => ResultOk(u, m, s)' /\ AnswerOk(u, m, s)'
  PROVE  \E m \in DOMAIN (q'[u].calls) : CoveredAt(u, m)'
<1>1. PICK m \in DOMAIN q[u].calls : CoveredAt(u, m)
  BY DEF CoverInv
<1>2. Enough(m, DOMAIN q[u].calls, q[u].floor)'
  BY <1>1 DEF CoveredAt, Enough
<1>3. ASSUME NEW s \in DOMAIN q[u].calls, s >= m PROVE ResultOk(u, m, s)' /\ AnswerOk(u, m, s)'
  <2>1. CASE <<u, s>> \in L
    BY <1>1, <1>3, <2>1
  <2>2. CASE <<u, s>> \notin L
    <3>1. s \in Parts /\ Live(u, s) /\ Live(u, s)'
      BY RunIs DEF Live
    <3>2. Call(u, s)' = Call(u, s)
      BY <2>2, <3>1 DEF Local, LocalCalls, Goes
    <3>3. ResultOk(u, m, s) /\ AnswerOk(u, m, s)
      BY <1>1, <1>3 DEF CoveredAt
    <3>4. ResultOk(u, m, s)'
      BY <3>2, <3>3 DEF ResultOk
    <3>5. Call(u, s).at.pc = "read" => conns'[Call(u, s).at.conn] = conns[Call(u, s).at.conn]
      BY <2>2, <3>1, CallStill
    <3>6. AnswerOk(u, m, s)'
      BY <3>2, <3>3, <3>5 DEF AnswerOk
    <3> QED BY <3>4, <3>6
  <2> QED BY <2>1, <2>2
<1> QED BY <1>1, <1>2, <1>3 DEF CoveredAt

\* The connections that are left when those nobody uses are closed.
LEMMA KeepIs ==
  ASSUME NEW cs, Keep(cs)
  PROVE  /\ DOMAIN conns' \subseteq DOMAIN cs
         /\ \A n \in DOMAIN conns' : conns'[n] = cs[n]
         /\ \A w \in Workers : slot'[w] \in DOMAIN cs => slot'[w] \in DOMAIN conns'
         /\ \A u \in Threads, s \in Parts : Live(u, s)' /\ Call(u, s)'.at.conn \in DOMAIN cs =>
              Call(u, s)'.at.conn \in DOMAIN conns'
BY DEF Keep, Live, Call, Running

LEMMA KeepType ==
  ASSUME NEW cs, NEW D, cs \in [D -> Conns], D \subseteq Nat \ {0}, IsFiniteSet(D), Keep(cs),
         slot' \in [Workers -> {0} \cup D],
         \A w \in Workers : slot'[w] # 0 => cs[slot'[w]].worker = w
  PROVE  ConnType' /\ PoolInv'
<1>1. DOMAIN cs = D /\ DOMAIN conns' \subseteq D /\ \A n \in DOMAIN conns' : conns'[n] = cs[n]
  BY KeepIs
<1>2. IsFiniteSet(DOMAIN conns')
  BY <1>1, FS_Subset
<1>3. conns' \in [DOMAIN conns' -> Conns]
  <2>1. conns' = [n \in DOMAIN conns' |-> conns'[n]]
    BY DEF Keep
  <2> QED BY <1>1, <2>1
<1>4. ASSUME NEW w \in Workers
      PROVE  /\ slot'[w] \in {0} \cup DOMAIN conns'
             /\ slot'[w] # 0 => conns'[slot'[w]].worker = w
  BY <1>1, KeepIs
<1>5. slot' \in [Workers -> {0} \cup DOMAIN conns']
  BY <1>4
<1> QED BY <1>1, <1>2, <1>3, <1>4, <1>5 DEF ConnType, PoolInv

LEMMA SameCluster ==
  ASSUME ClusterType, PubInv, UNCHANGED cluster
  PROVE  ClusterType' /\ PubInv'
BY DEF ClusterType, PubInv, Covered, Enough, cluster

LEMMA SameWorkers == ASSUME WorkerType, UNCHANGED workers PROVE WorkerType'
BY DEF WorkerType, workers

\* A step of thread t that changes its query to r.
LEMMA QueryStep ==
  ASSUME QueryType, EndInv, ReadsCommitted, NEW t \in Threads,
         NEW r \in {Idle} \cup Runs \cup Ends \cup Asks, q' = [q EXCEPT ![t] = r],
         next_worker' \in Workers, queries' \in Nat,
         r.pc = "end" => /\ r.result = ConnErr => r.calm = {}
                         /\ IsErr(r.result) \/ r.tainted \/ r.result >= r.floor
  PROVE  /\ QueryType' /\ EndInv' /\ ReadsCommitted' /\ q'[t] = r
         /\ \A u \in Threads : u # t => q'[u] = q[u]
<1>1. q \in [Threads -> {Idle} \cup Runs \cup Ends \cup Asks]
  BY DEF QueryType
<1>2. /\ q' \in [Threads -> {Idle} \cup Runs \cup Ends \cup Asks] /\ q'[t] = r
      /\ \A u \in Threads : u # t => q'[u] = q[u]
  BY <1>1
<1>3. QueryType'
  BY <1>2 DEF QueryType
<1>4. EndInv'
  BY <1>2 DEF EndInv
<1>5. ReadsCommitted'
  BY <1>2 DEF ReadsCommitted, IsErr
<1> QED BY <1>2, <1>3, <1>4, <1>5

\* The query r is that of t with another call for p.
Changed(t, p, r) ==
  /\ r \in Runs /\ q' = [q EXCEPT ![t] = r]
  /\ r.no = q[t].no /\ r.kind = q[t].kind /\ r.floor = q[t].floor
  /\ q[t].tainted => r.tainted
  /\ DOMAIN r.calls = DOMAIN q[t].calls
  /\ \A s \in DOMAIN q[t].calls : s # p => r.calls[s] = q[t].calls[s]

LEMMA ChangedCalls ==
  ASSUME QueryType, NEW t \in Threads, NEW p \in Parts, Live(t, p), NEW r, Changed(t, p, r)
  PROVE  LocalCalls({<<t, p>>})
<1>1. q \in [Threads -> {Idle} \cup Runs \cup Ends \cup Asks] /\ r.pc = "run"
  BY DEF QueryType, Changed, Runs
<1>2. q'[t] = r /\ \A u \in Threads : u # t => q'[u] = q[u]
  BY <1>1 DEF Changed
<1>3. SUFFICES ASSUME NEW u \in Threads, NEW s \in Parts, <<u, s>> # <<t, p>>
               PROVE  (Live(u, s) => Goes(u, s)) /\ (Live(u, s)' => Live(u, s))
  BY DEF LocalCalls
<1>4. CASE u # t
  BY <1>2, <1>4 DEF Live, Goes, Running, Call
<1>5. CASE u = t
  <2>1. s # p
    BY <1>3, <1>5
  <2> QED BY <1>1, <1>2, <1>5, <2>1 DEF Live, Goes, Running, Call, Changed
<1> QED BY <1>4, <1>5

\* A step of the call of t for p keeps the invariant if it keeps what concerns this call and the
\* connections X.
LEMMA CallStep ==
  ASSUME IInv, NEW t \in Threads, NEW p \in Parts, Live(t, p), NEW r, Changed(t, p, r),
         UNCHANGED <<cluster, workers, next_worker, bounds>>, ConnType', PoolInv',
         NEW X, LocalConns({<<t, p>>}, X),
         \A n \in X \cap DOMAIN conns' : ConnOk(conns[n], n)',
         CallOk(Call(t, p), t, p, conns)',
         \A m \in DOMAIN q[t].calls : p >= m /\ CoveredAt(t, m) =>
           ResultOk(t, m, p)' /\ AnswerOk(t, m, p)'
  PROVE  IInv'
<1>1. /\ ClusterType /\ WorkerType /\ ConnType /\ QueryType /\ PubInv /\ PoolInv /\ CallInv
      /\ EndInv /\ ConnInv /\ CoverInv /\ ReadsCommitted
  BY DEF IInv
<1>2. ClusterType' /\ PubInv'
  BY <1>1, SameCluster
<1>3. WorkerType' /\ up' = up /\ content' = content /\ committed' = committed
  BY <1>1, SameWorkers DEF workers, cluster
<1>4. next_worker' \in Workers /\ queries' \in Nat
  BY <1>1 DEF QueryType, bounds
<1>5. r \in Runs /\ r.pc = "run" /\ q' = [q EXCEPT ![t] = r]
  BY DEF Changed, Runs
<1>6. /\ QueryType' /\ EndInv' /\ ReadsCommitted' /\ q'[t] = r
      /\ \A u \in Threads : u # t => q'[u] = q[u]
  BY <1>1, <1>4, <1>5, QueryStep
<1>7. Local({<<t, p>>}, X)
  BY <1>1, ChangedCalls DEF Local
<1>8. ASSUME NEW u \in Threads, NEW s \in Parts, <<u, s>> \in {<<t, p>>} PROVE u = t /\ s = p
  BY <1>8
<1>9. ConnInv' /\ CallInv'
  BY <1>1, <1>3, <1>6, <1>7, <1>8, LocalStep
<1>10. CoverInv'
  <2>1. ASSUME NEW u \in Threads, Running(u)' PROVE \E m \in DOMAIN (q'[u].calls) : CoveredAt(u, m)'
    <3>1. /\ Running(u) /\ DOMAIN (q'[u].calls) = DOMAIN q[u].calls
          /\ q'[u].floor = q[u].floor /\ (q[u].tainted => q'[u].tainted)
      BY <1>6, <2>1 DEF Running, Changed, Live
    <3>2. DOMAIN q[u].calls \subseteq Parts
      BY <1>1, <3>1, RunIs
    <3>3. \A s \in DOMAIN q[u].calls, m \in DOMAIN q[u].calls :
            <<u, s>> \in {<<t, p>>} /\ s >= m /\ CoveredAt(u, m) =>
              ResultOk(u, m, s)' /\ AnswerOk(u, m, s)'
      BY <1>8, <3>2
    <3> QED BY <1>1, <1>3, <1>7, <2>1, <3>1, <3>3, CoverStill
  <2>2. ASSUME NEW u \in Threads, q'[u].pc \in {"catalog", "run", "end"}
        PROVE  1 <= q'[u].floor /\ q'[u].floor <= committed'
    <3>1. q[u].pc \in {"catalog", "run", "end"} /\ q'[u].floor = q[u].floor
      BY <1>6, <2>2 DEF Running, Changed, Live
    <3> QED BY <1>1, <1>3, <3>1 DEF CoverInv
  <2> QED BY <2>1, <2>2 DEF CoverInv
<1> QED BY <1>2, <1>3, <1>6, <1>9, <1>10 DEF IInv

\* A step that ends the query of t, or leaves it without calls.
LEMMA EndStep ==
  ASSUME IInv, NEW t \in Threads, NEW r \in Ends \cup Asks, q' = [q EXCEPT ![t] = r],
         UNCHANGED <<cluster, workers>>, next_worker' \in Workers, queries' \in Nat,
         r.pc = "end" => /\ r.result = ConnErr => r.calm = {}
                         /\ IsErr(r.result) \/ r.tainted \/ r.result >= r.floor,
         1 <= r.floor, r.floor <= committed, ConnType', PoolInv',
         NEW X, LocalConns({t} \X Parts, X),
         \A n \in X \cap DOMAIN conns' : ConnOk(conns[n], n)'
  PROVE  IInv'
<1> DEFINE L == {t} \X Parts
<1>1. /\ ClusterType /\ WorkerType /\ ConnType /\ QueryType /\ PubInv /\ PoolInv /\ CallInv
      /\ EndInv /\ ConnInv /\ CoverInv /\ ReadsCommitted
  BY DEF IInv
<1>2. ClusterType' /\ PubInv'
  BY <1>1, SameCluster
<1>3. WorkerType' /\ up' = up /\ content' = content /\ committed' = committed
  BY <1>1, SameWorkers DEF workers, cluster
<1>4. r.pc \in {"end", "catalog"} /\ r \in {Idle} \cup Runs \cup Ends \cup Asks
  BY DEF Ends, Asks
<1>5. /\ QueryType' /\ EndInv' /\ ReadsCommitted' /\ q'[t] = r
      /\ \A u \in Threads : u # t => q'[u] = q[u]
  BY <1>1, <1>4, QueryStep
<1>6. ~Running(t)'
  BY <1>4, <1>5 DEF Running
<1>7. \A u \in Threads, s \in Parts : <<u, s>> \in L <=> u = t
  OBVIOUS
<1> HIDE DEF L
<1>8. LocalCalls(L)
  BY <1>5, <1>7 DEF LocalCalls, Live, Goes, Running, Call
<1>9. Local(L, X)
  BY <1>8 DEF Local, L
<1>10. ConnInv' /\ CallInv'
  BY <1>1, <1>3, <1>5, <1>6, <1>7, <1>9, LocalStep DEF Live
<1>11. CoverInv'
  <2>1. ASSUME NEW u \in Threads, Running(u)' PROVE \E m \in DOMAIN (q'[u].calls) : CoveredAt(u, m)'
    <3>1. u # t /\ q'[u] = q[u] /\ Running(u)
      BY <1>5, <1>6, <2>1 DEF Running
    <3>2. DOMAIN q[u].calls \subseteq Parts
      BY <1>1, <3>1, RunIs
    <3>3. \A s \in DOMAIN q[u].calls : <<u, s>> \notin L
      BY <1>7, <3>1, <3>2
    <3> QED BY <1>1, <1>3, <1>9, <2>1, <3>1, <3>3, CoverStill
  <2>2. ASSUME NEW u \in Threads, q'[u].pc \in {"catalog", "run", "end"}
        PROVE  1 <= q'[u].floor /\ q'[u].floor <= committed'
    BY <1>1, <1>3, <1>5, <2>2 DEF CoverInv
  <2> QED BY <2>1, <2>2 DEF CoverInv
<1> QED BY <1>2, <1>3, <1>5, <1>10, <1>11 DEF IInv

-----------------------------------------------------------------------------
(* Calls that let go of their connection *)

\* A connection nobody has, with nothing in it unless a call was dropped.
Unused(k) ==
  /\ k.lock = NoLock /\ (k.dirty \/ (k.reqs = <<>> /\ k.resps = <<>>))
  /\ ~k.alive => k.reqs = <<>>

LEMMA UnusedOk == ASSUME NEW k, NEW n, Unused(k) PROVE ConnOk(k, n)'
<1>1. Len(<<>>) + Len(<<>>) <= 1
  OBVIOUS
<1>2. Pure(k)'
  <2>1. CASE k.dirty
    BY <2>1 DEF Pure
  <2>2. CASE ~k.dirty
    BY <1>1, <2>2, Zenon DEF Unused, Pure
  <2> QED BY <2>1, <2>2
<1> QED BY <1>2 DEF Unused, ConnOk, Locked

\* cs are the connections without the lock of t for p.
Released(t, p, cs) ==
  /\ cs \in [DOMAIN conns -> Conns]
  /\ \A n \in DOMAIN conns :
       /\ cs[n].worker = conns[n].worker /\ cs[n].alive = conns[n].alive
       /\ IF conns[n].lock = <<t, p>> THEN Unused(cs[n]) ELSE cs[n] = conns[n]

\* The slots are those before, some of them cleared.
Cleared == slot' \in [Workers -> Nat] /\ \A w \in Workers : slot'[w] \in {0, slot[w]}

LEMMA ReleasedType ==
  ASSUME ConnType, PoolInv, NEW t, NEW p, NEW cs, Released(t, p, cs), Keep(cs), Cleared
  PROVE  ConnType' /\ PoolInv'
<1>1. /\ DOMAIN conns \subseteq Nat \ {0} /\ IsFiniteSet(DOMAIN conns)
      /\ \A w \in Workers : slot[w] \in {0} \cup DOMAIN conns
  BY DEF ConnType
<1>2. slot' \in [Workers -> {0} \cup DOMAIN conns]
  BY <1>1 DEF Cleared
<1>3. ASSUME NEW w \in Workers, slot'[w] # 0 PROVE cs[slot'[w]].worker = w
  <2>1. slot'[w] = slot[w] /\ slot[w] \in DOMAIN conns
    BY <1>1, <1>3 DEF Cleared
  <2> QED BY <1>3, <2>1 DEF Released, PoolInv
<1>4. cs \in [DOMAIN conns -> Conns]
  BY DEF Released
<1> QED BY <1>1, <1>2, <1>3, <1>4, KeepType

\* A call that has let go of its connection and is not reading.
LEMMA MovedOn ==
  ASSUME IInv, NEW t \in Threads, NEW p \in Parts, Live(t, p), NEW r, Changed(t, p, r),
         UNCHANGED <<cluster, workers, next_worker, bounds>>,
         NEW cs, Released(t, p, cs), Keep(cs), Cleared,
         r.calls[p].at.pc # "read", CallOk(r.calls[p], t, p, conns),
         r.calls[p].at = Done => r.calls[p].at.conn = 0,
         \A m \in DOMAIN q[t].calls : p >= m /\ CoveredAt(t, m) => ResultOk(t, m, p)'
  PROVE  IInv'
<1> DEFINE X == {n \in DOMAIN conns : conns[n].lock = <<t, p>>}
<1>1. ConnType /\ QueryType /\ PoolInv /\ CallInv /\ ConnInv /\ up' = up
  BY DEF IInv, workers
<1>2. ConnType' /\ PoolInv'
  BY <1>1, ReleasedType
<1>3. /\ DOMAIN cs = DOMAIN conns /\ DOMAIN conns' \subseteq DOMAIN conns
      /\ \A n \in DOMAIN conns' : conns'[n] = cs[n]
      /\ \A u \in Threads, s \in Parts : Live(u, s)' /\ Call(u, s)'.at.conn \in DOMAIN cs =>
           Call(u, s)'.at.conn \in DOMAIN conns'
  BY KeepIs DEF Released
<1>4. PICK c : c = r.calls[p]
  OBVIOUS
<1>5. q'[t] = r /\ Call(t, p)' = c
  BY <1>1, <1>4 DEF Changed, QueryType, Call
<1>6. c.at.conn # 0 => c.at.conn \in DOMAIN conns
  BY <1>4 DEF CallOk
<1>7. LocalCalls({<<t, p>>})
  BY <1>1, ChangedCalls
<1>8. ASSUME NEW u \in Threads, NEW s \in Parts, Live(u, s)', Call(u, s)'.at.conn # 0
      PROVE  Call(u, s)'.at.conn \in DOMAIN conns'
  <2>1. Call(u, s)'.at.conn \in DOMAIN conns
    <3>1. CASE <<u, s>> = <<t, p>>
      <4>1. u = t /\ s = p
        BY <3>1
      <4> QED BY <1>5, <1>6, <1>8, <4>1
    <3>2. CASE <<u, s>> # <<t, p>>
      <4>1. Live(u, s) /\ Call(u, s)' = Call(u, s)
        BY <1>7, <1>8, <3>2 DEF LocalCalls, Goes
      <4>2. Call(u, s) \in Calls /\ CallOk(Call(u, s), u, s, conns)
        BY <1>1, <4>1, RunIs DEF Live, CallInv
      <4> QED BY <1>8, <4>1, <4>2, CallIs DEF CallOk
    <3> QED BY <3>1, <3>2
  <2> QED BY <1>3, <1>8, <2>1
<1>9. LocalConns({<<t, p>>}, X)
  <2>1. ASSUME NEW n \in DOMAIN conns', n \notin X
        PROVE  n \in DOMAIN conns /\ conns'[n] = conns[n] /\ conns[n].lock \notin {<<t, p>>}
    BY <1>3, <2>1 DEF Released
  <2>2. ASSUME NEW n \in X \cap DOMAIN conns
        PROVE  /\ conns[n].lock \in {<<t, p>>} \cup {NoLock}
               /\ n \in DOMAIN conns' => /\ conns'[n].worker = conns[n].worker
                                         /\ conns'[n].alive = conns[n].alive
    BY <1>3, <2>2 DEF Released
  <2> HIDE DEF X
  <2> QED BY <1>8, <2>1, <2>2 DEF LocalConns
<1>10. ASSUME NEW n \in X \cap DOMAIN conns' PROVE ConnOk(conns[n], n)'
  <2>1. PICK k : k = conns'[n]
    OBVIOUS
  <2>2. Unused(k)
    BY <1>3, <2>1 DEF Released
  <2> QED BY <2>1, <2>2, UnusedOk
<1>11. CallOk(Call(t, p), t, p, conns)'
  <2>0. Live(t, p)'
    BY <1>5 DEF Live, Changed, Running, Runs
  <2>1. c.at.conn # 0 =>
          /\ c.at.conn \in DOMAIN conns' /\ conns'[c.at.conn].worker = conns[c.at.conn].worker
          /\ conns'[c.at.conn].alive = conns[c.at.conn].alive
    BY <1>3, <1>5, <1>6, <1>8, <2>0 DEF Released
  <2>2. CallOk(c, t, p, conns)'
    BY <1>1, <1>4, <2>1 DEF CallOk
  <2> QED BY <1>5, <2>2
<1>12. \A m \in DOMAIN q[t].calls : AnswerOk(t, m, p)'
  BY <1>4, <1>5 DEF AnswerOk
<1> HIDE DEF X
<1> QED BY <1>2, <1>9, <1>10, <1>11, <1>12, CallStep

\* The query of t with c as its call for p.
IsWith(r, t, p, c, b) == r = [q[t] EXCEPT !.calls = [@ EXCEPT ![p] = c], !.tainted = b]

Puts(t, r) == q' = [q EXCEPT ![t] = r]
Became(t, p, r, c, b) ==
  Changed(t, p, r) /\ r.calls[p] = c /\ r.tainted = b /\ r.floor = q[t].floor

\* What an assignment to a call makes of its query.
LEMMA SetCallIs ==
  ASSUME QueryType, NEW t \in Threads, NEW p \in Parts, Live(t, p), NEW c \in Calls,
         NEW b \in BOOLEAN, q[t].tainted => b,
         NEW r, IsWith(r, t, p, c, b), Puts(t, r)
  PROVE  Became(t, p, r, c, b)
<1>2. PICK cs : cs = [q[t].calls EXCEPT ![p] = c]
  OBVIOUS
<1>3. /\ q[t] \in Runs /\ DOMAIN q[t].calls \in SUBSET Parts
      /\ q[t].calls \in [DOMAIN q[t].calls -> Calls] /\ p \in DOMAIN q[t].calls
  BY RunIs DEF Live
<1>4. /\ cs \in [DOMAIN q[t].calls -> Calls] /\ DOMAIN cs = DOMAIN q[t].calls /\ cs[p] = c
      /\ \A s \in DOMAIN q[t].calls : s # p => cs[s] = q[t].calls[s]
  BY <1>2, <1>3
<1>5. r = [q[t] EXCEPT !.calls = cs, !.tainted = b]
  BY <1>2 DEF IsWith
<1>6. cs \in UNION {[ps -> Calls] : ps \in SUBSET Parts}
  BY <1>3, <1>4
<1>7. r \in Runs
  BY <1>3, <1>5, <1>6 DEF Runs
<1>8. /\ r.calls = cs /\ r.tainted = b /\ r.no = q[t].no /\ r.kind = q[t].kind
      /\ r.floor = q[t].floor
  BY <1>3, <1>5 DEF Runs
<1>9. Changed(t, p, r)
  BY <1>4, <1>7, <1>8 DEF Changed, Puts
<1> QED BY <1>4, <1>8, <1>9 DEF Became

LEMMA SetCallOnly ==
  ASSUME QueryType, NEW t \in Threads, NEW p \in Parts, Live(t, p), NEW c \in Calls,
         SetCall(t, p, c)
  PROVE  \E r : /\ Changed(t, p, r) /\ r.calls[p] = c /\ r.tainted = q[t].tainted
                /\ r.floor = q[t].floor /\ Call(t, p)' = c
<1>1. q[t] \in Runs /\ q[t].tainted \in BOOLEAN
  BY RunIs DEF Live
<1>0. PICK b \in BOOLEAN : b = q[t].tainted
  BY <1>1
<1>2. PICK r : r = [q[t] EXCEPT !.calls = [@ EXCEPT ![p] = c], !.tainted = b]
  OBVIOUS
<1>3. r = [q[t] EXCEPT !.calls[p] = c]
  BY <1>0, <1>1, <1>2 DEF Runs
<1>4. q' = [q EXCEPT ![t] = r]
  BY <1>3 DEF SetCall
<1>5. /\ Changed(t, p, r) /\ r.calls[p] = c /\ r.tainted = q[t].tainted
      /\ r.floor = q[t].floor
  <2>1. q[t].tainted => b
    BY <1>0, Zenon
  <2>2. Changed(t, p, r) /\ r.calls[p] = c /\ r.tainted = b /\ r.floor = q[t].floor
    <3>1. IsWith(r, t, p, c, b)
      BY <1>2 DEF IsWith
    <3>2. Puts(t, r)
      BY <1>4 DEF Puts
    <3>3. Became(t, p, r, c, b)
      BY <2>1, <3>1, <3>2, SetCallIs, Zenon
    <3> QED BY <3>3 DEF Became
  <2> QED BY <1>0, <2>2, Zenon
<1>6. Call(t, p)' = c
  BY <1>4, <1>5 DEF QueryType, Call
<1> QED BY <1>5, <1>6

\* A call ends with the result v, and with it the query if that is an error and all are asked.
LEMMA FinishStep ==
  ASSUME IInv, NEW t \in Threads, NEW p \in Parts, Live(t, p), Call(t, p).at # Done,
         UNCHANGED <<cluster, workers, next_worker, bounds>>,
         NEW cs, Released(t, p, cs), Cleared,
         NEW v \in Results, NEW b \in BOOLEAN, Finish(t, p, v, TRUE, b, cs),
         v = ConnErr => Call(t, p).calm = {},
         \A m \in DOMAIN q[t].calls :
           p >= m /\ CoveredAt(t, m) /\ ~q[t].tainted /\ ~b => Fine(v, m, p, q[t].floor)
  PROVE  IInv'
<1>1. /\ ConnType /\ QueryType /\ PoolInv /\ CallInv /\ ConnInv /\ CoverInv /\ up' = up
      /\ next_worker' \in Workers /\ queries' \in Nat
  BY DEF IInv, workers, bounds, QueryType
<1>2. /\ q[t] \in Runs /\ q[t].floor \in 0 .. MaxVersion /\ q[t].tainted \in BOOLEAN
      /\ Call(t, p) \in Calls /\ Call(t, p).calm \subseteq Workers
      /\ CallOk(Call(t, p), t, p, conns)
      /\ 1 <= q[t].floor /\ q[t].floor <= committed
  BY <1>1, RunIs, CallIs DEF Live, CallInv, CoverInv, Running
<1>3. CASE q[t].kind = "all" /\ IsErr(v)
  <2> DEFINE L == {t} \X Parts
             X == {n \in DOMAIN conns : conns[n].lock \in L}
             ds == Dropped(t, cs)
  <2>1. PICK r : r = Ended(t, v, q[t].tainted, Call(t, p).calm)
    OBVIOUS
  <2>2. q' = [q EXCEPT ![t] = r] /\ Keep(ds)
    BY <1>3, <2>1 DEF Finish
  <2>3. /\ r \in Ends /\ r.pc = "end" /\ r.result = v /\ r.calm = Call(t, p).calm
        /\ r.floor = q[t].floor
    BY <1>2, <2>1 DEF Ended, Ends
  <2>4. DOMAIN cs = DOMAIN conns
    BY DEF Released
  <2>5. ASSUME NEW n \in DOMAIN conns
        PROVE  /\ ds[n] \in Conns /\ ds[n].worker = conns[n].worker /\ ds[n].alive = conns[n].alive
               /\ IF conns[n].lock \in L THEN Unused(ds[n]) ELSE ds[n] = conns[n]
    <3>1. PICK k : k = conns[n]
      OBVIOUS
    <3>2. k \in Conns /\ k.lock \in {NoLock} \cup (Threads \X Parts) /\ cs[n] \in Conns
      BY <1>1, <3>1, ConnIs DEF Released
    <3>3. ds[n] = IF cs[n].lock # NoLock /\ cs[n].lock[1] = t
                  THEN [cs[n] EXCEPT !.lock = NoLock, !.dirty = TRUE] ELSE cs[n]
      BY <2>4 DEF Dropped, InFlight
    <3>4. CASE k.lock = <<t, p>>
      <4>1. Unused(cs[n]) /\ cs[n].worker = k.worker /\ cs[n].alive = k.alive /\ k.lock \in L
        BY <3>1, <3>4 DEF Released
      <4>2. ds[n] = cs[n]
        BY <3>3, <4>1 DEF Unused
      <4> QED BY <3>1, <3>2, <4>1, <4>2
    <3>5. CASE k.lock \in L /\ k.lock # <<t, p>>
      <4>1. cs[n] = k /\ k.lock # NoLock /\ k.lock[1] = t
        BY <3>1, <3>5, LockIs DEF Released, NoLock
      <4>2. ds[n] = [k EXCEPT !.lock = NoLock, !.dirty = TRUE]
        BY <3>3, <4>1
      <4>3. PICK d : d = ds[n]
        OBVIOUS
      <4>4. /\ d \in Conns /\ d.worker = k.worker /\ d.alive = k.alive /\ d.lock = NoLock
            /\ d.reqs = k.reqs
        BY <3>2, <4>2, <4>3 DEF Conns
      <4>5. d.dirty
        BY <3>2, <4>2, <4>3 DEF Conns
      <4>6. ~k.alive => k.reqs = <<>>
        BY <1>1, <3>1 DEF ConnInv, ConnOk
      <4>7. Unused(d)
        BY <4>4, <4>5, <4>6 DEF Unused
      <4> QED BY <3>1, <3>5, <4>3, <4>4, <4>7
    <3>6. CASE k.lock \notin L
      <4>1. k.lock # <<t, p>> /\ (k.lock # NoLock => k.lock[1] # t)
        BY <3>2, <3>6, LockOf
      <4>2. cs[n] = k
        BY <3>1, <4>1 DEF Released
      <4> QED BY <3>1, <3>2, <3>3, <3>6, <4>1, <4>2
    <3> QED BY <3>1, <3>4, <3>5, <3>6
  <2>6. ds \in [DOMAIN conns -> Conns]
    BY <2>4, <2>5 DEF Dropped
  <2> HIDE DEF ds
  <2>7. ConnType' /\ PoolInv'
    <3>1. /\ DOMAIN conns \subseteq Nat \ {0} /\ IsFiniteSet(DOMAIN conns)
          /\ \A w \in Workers : slot[w] \in {0} \cup DOMAIN conns
      BY <1>1 DEF ConnType
    <3>2. slot' \in [Workers -> {0} \cup DOMAIN conns]
      BY <3>1 DEF Cleared
    <3>3. ASSUME NEW w \in Workers, slot'[w] # 0 PROVE ds[slot'[w]].worker = w
      <4>1. slot'[w] = slot[w] /\ slot[w] \in DOMAIN conns
        BY <3>1, <3>3 DEF Cleared
      <4> QED BY <1>1, <2>5, <3>3, <4>1 DEF PoolInv
    <3> QED BY <2>2, <2>6, <3>1, <3>2, <3>3, KeepType
  <2>8. /\ DOMAIN conns' \subseteq DOMAIN conns /\ \A n \in DOMAIN conns' : conns'[n] = ds[n]
        /\ \A u \in Threads, s \in Parts : Live(u, s)' /\ Call(u, s)'.at.conn \in DOMAIN conns =>
             Call(u, s)'.at.conn \in DOMAIN conns'
    BY <2>2, <2>6, KeepIs
  <2>9. q'[t] = r /\ \A u \in Threads : u # t => q'[u] = q[u]
    BY <1>1, <2>2 DEF QueryType
  <2>10. ASSUME NEW u \in Threads, NEW s \in Parts, Live(u, s)', Call(u, s)'.at.conn # 0
         PROVE  Call(u, s)'.at.conn \in DOMAIN conns'
    <3>1. u # t /\ Live(u, s) /\ Call(u, s)' = Call(u, s)
      BY <2>3, <2>9, <2>10 DEF Live, Running, Call
    <3>2. Call(u, s) \in Calls /\ CallOk(Call(u, s), u, s, conns)
      BY <1>1, <3>1, RunIs DEF Live, CallInv
    <3>3. Call(u, s).at.conn \in DOMAIN conns
      BY <2>10, <3>1, <3>2, CallIs DEF CallOk
    <3> QED BY <2>8, <2>10, <3>1, <3>3
  <2>11. LocalConns(L, X)
    <3>1. ASSUME NEW n \in DOMAIN conns', n \notin X
          PROVE  n \in DOMAIN conns /\ conns'[n] = conns[n] /\ conns[n].lock \notin L
      BY <2>5, <2>8, <3>1
    <3>2. ASSUME NEW n \in X \cap DOMAIN conns
          PROVE  /\ conns[n].lock \in L \cup {NoLock}
                 /\ n \in DOMAIN conns' => /\ conns'[n].worker = conns[n].worker
                                           /\ conns'[n].alive = conns[n].alive
      BY <2>5, <2>8, <3>2
    <3> HIDE DEF X, L
    <3> QED BY <2>10, <3>1, <3>2 DEF LocalConns
  <2>12. ASSUME NEW n \in X \cap DOMAIN conns' PROVE ConnOk(conns[n], n)'
    <3>1. PICK k : k = conns'[n]
      OBVIOUS
    <3>2. Unused(k)
      BY <2>5, <2>8, <3>1
    <3> QED BY <3>1, <3>2, UnusedOk
  <2>13. IsErr(r.result) /\ (r.result = ConnErr => r.calm = {})
    BY <1>3, <2>3
  <2> HIDE DEF X
  <2> QED BY <1>1, <1>2, <2>2, <2>3, <2>7, <2>11, <2>12, <2>13, EndStep
<1>4. CASE ~(q[t].kind = "all" /\ IsErr(v))
  <2>1. PICK c : c = [Call(t, p) EXCEPT !.at = Done, !.result = v, !.own = TRUE]
    OBVIOUS
  <2>2. PICK d \in BOOLEAN : d = (q[t].tainted \/ b)
    OBVIOUS
  <2>3. c \in Calls /\ c.at = Done /\ c.result = v /\ c.calm = Call(t, p).calm
    BY <1>2, <2>1 DEF Calls
  <2>3a. c.own
    BY <1>2, <2>1 DEF Calls
  <2>4. PICK r : r = [q[t] EXCEPT !.calls = [@ EXCEPT ![p] = c], !.tainted = d]
    OBVIOUS
  <2>5. q' = [q EXCEPT ![t] = r] /\ Keep(cs)
    <3>1. PICK e : e = Answered(t, p, v, TRUE, b)
      OBVIOUS
    <3>2. q' = [q EXCEPT ![t] = e] /\ Keep(cs)
      BY <1>4, <3>1 DEF Finish
    <3>3. e = r
      BY <1>2, <2>1, <2>2, <2>4, <3>1 DEF Answered, Call, Runs
    <3> QED BY <3>2, <3>3
  <2>6. Changed(t, p, r) /\ r.calls[p] = c /\ r.tainted = d /\ r.floor = q[t].floor
    <3>1. q[t].tainted => d
      BY <2>2, Zenon
    <3>2. IsWith(r, t, p, c, d)
      BY <2>4 DEF IsWith
    <3>3. Puts(t, r)
      BY <2>5 DEF Puts
    <3>4. Became(t, p, r, c, d)
      BY <1>1, <2>3, <3>1, <3>2, <3>3, SetCallIs, Zenon
    <3> QED BY <3>4 DEF Became
  <2>7. c.at.pc # "read" /\ c.at.conn = 0
    BY <2>3 DEF Done
  <2>8. CallOk(c, t, p, conns)
    BY <1>2, <2>3, <2>3a DEF CallOk
  <2>9. q'[t] = r /\ Call(t, p)' = c
    BY <1>1, <2>5, <2>6 DEF QueryType, Call
  <2>10. ASSUME NEW m \in DOMAIN q[t].calls, p >= m, CoveredAt(t, m) PROVE ResultOk(t, m, p)'
    <3>1. ~r.tainted => ~q[t].tainted /\ ~b
      BY <2>2, <2>6
    <3>2. ~r.tainted => Fine(v, m, p, q[t].floor)
      BY <2>10, <3>1
    <3> QED BY <2>3, <2>6, <2>9, <3>2 DEF ResultOk, Fine
  <2> QED BY <2>5, <2>6, <2>7, <2>8, <2>10, MovedOn
<1> QED BY <1>3, <1>4

\* A call that is not reading has no lock to let go of.
LEMMA NotReading ==
  ASSUME IInv, NEW t \in Threads, NEW p \in Parts, Call(t, p).at.pc # "read"
  PROVE  Released(t, p, conns) /\ \A n \in DOMAIN conns : conns[n].lock # <<t, p>>
<1>1. \A n \in DOMAIN conns : conns[n].lock # <<t, p>>
  <2>1. SUFFICES ASSUME NEW n \in DOMAIN conns, conns[n].lock = <<t, p>> PROVE FALSE
    OBVIOUS
  <2>2. Locked(conns[n], n)
    BY DEF IInv, ConnInv, ConnOk
  <2> QED BY <2>1, <2>2, LockIs DEF Locked, At
<1> QED BY <1>1 DEF Released, IInv, ConnType

\* An idle slot is no hindrance.
LEMMA ClearedSlot ==
  ASSUME ConnType, NEW w \in Workers, slot' = [slot EXCEPT ![w] = 0] \/ slot' = slot
  PROVE  Cleared
BY DEF ConnType, Cleared

\* The errors of a call.
LEMMA Errors ==
  /\ ConnErr \in Results /\ WorkerErr \in Results /\ IsErr(ConnErr) /\ IsErr(WorkerErr)
  /\ 0 \in Results /\ \A v \in 0 .. MaxVersion : v \in Results /\ ~IsErr(v) /\ v # ConnErr
  /\ WorkerErr # ConnErr
BY GatewayAssumption DEF Results, ConnErr, WorkerErr, IsErr

\* The first try of a call at worker w.
LEMMA AttemptIs ==
  ASSUME ConnType, PoolInv, NEW w \in Workers
  PROVE  /\ Attempt(w) \in Steps /\ Attempt(w).idx = w /\ Attempt(w).conn = slot[w]
         /\ Attempt(w).pc = (IF slot[w] # 0 THEN "send" ELSE "connect")
         /\ slot[w] \in Nat /\ Attempt(w) # Done
         /\ slot[w] # 0 => slot[w] \in DOMAIN conns /\ conns[slot[w]].worker = w
<1>1. slot[w] \in {0} \cup DOMAIN conns /\ DOMAIN conns \subseteq Nat
  BY DEF ConnType
<1>2. Attempt(w) = [pc |-> IF slot[w] # 0 THEN "send" ELSE "connect", idx |-> w, conn |-> slot[w]]
  BY DEF Attempt
<1>3. Attempt(w) \in Steps /\ Attempt(w).pc # "done"
  BY <1>1, <1>2 DEF Steps
<1>4. Done.pc = "done"
  BY DEF Done
<1> QED BY <1>1, <1>2, <1>3, <1>4 DEF PoolInv

\* The worker of a call was not there all the time: the next is tried.
LEMMA FailOverStep ==
  ASSUME IInv, NEW t \in Threads, NEW p \in Parts, Live(t, p), Call(t, p).at # Done,
         Call(t, p).at.idx \notin Call(t, p).calm,
         UNCHANGED <<cluster, workers, next_worker, bounds>>,
         NEW cs, Released(t, p, cs), FailOver(t, p, cs)
  PROVE  IInv'
<1>1. ConnType /\ QueryType /\ PoolInv /\ CallInv /\ N \in Nat \ {0}
  BY GatewayAssumption DEF IInv
<1>2. PICK c : c = Call(t, p)
  OBVIOUS
<1>3. /\ c \in Calls /\ c.at \in Steps /\ c.at.idx \in Workers /\ c.tried \in Workers
      /\ c.calm \subseteq Workers /\ CallOk(c, t, p, conns)
  BY <1>1, <1>2, RunIs, CallIs DEF Live, CallInv
<1>4. /\ c.tried \in Nat /\ c.tried < N
      /\ \A w \in c.calm : w \in Workers /\ ~Passed(w, c.at.idx, c.tried) /\ w # c.at.idx
  BY <1>1, <1>2, <1>3 DEF CallOk, Workers
<1>5. Cleared
  BY <1>1, <1>2, <1>3, ClearedSlot DEF FailOver
<1>6. CASE LastWorker(c)
  <2>1. Finish(t, p, ConnErr, TRUE, FALSE, cs) /\ c.tried + 1 = N
    BY <1>2, <1>6 DEF FailOver, LastWorker
  <2>2. c.calm = {}
    BY <1>3, <1>4, <2>1, AllPassed
  <2>3. \A m : Fine(ConnErr, m, p, q[t].floor)
    BY Errors DEF Fine
  <2> QED BY <1>2, <1>5, <2>1, <2>2, <2>3, Errors, FinishStep
<1>7. CASE ~LastWorker(c)
  <2>1. c.tried + 1 < N /\ c.tried + 1 \in Workers
    BY <1>1, <1>4, <1>7 DEF LastWorker, Workers
  <2>2. PICK w \in Workers : w = (c.at.idx + 1) % N
    BY <1>3, Modulo DEF Workers
  <2>3. PICK a : a = Attempt(w)
    OBVIOUS
  <2>4. PICK d : d = [c EXCEPT !.at = a, !.tried = @ + 1, !.retried = FALSE]
    OBVIOUS
  <2>5. SetCall(t, p, d) /\ Keep(cs)
    <3>1. SetCall(t, p, [c EXCEPT !.at = Attempt((@.idx + 1) % N), !.tried = @ + 1,
                                  !.retried = FALSE]) /\ Keep(cs)
      BY <1>2, <1>7 DEF FailOver
    <3> QED BY <2>2, <2>3, <2>4, <3>1
  <2>6. /\ a \in Steps /\ a.idx = w /\ a.conn = slot[w] /\ a # Done
        /\ a.pc = (IF slot[w] # 0 THEN "send" ELSE "connect")
        /\ slot[w] # 0 => slot[w] \in DOMAIN conns /\ conns[slot[w]].worker = w
    BY <1>1, <2>3, AttemptIs
  <2>7. d \in Calls /\ d.at = a /\ d.tried = c.tried + 1 /\ d.calm = c.calm /\ d.result = c.result
    BY <1>3, <2>1, <2>4, <2>6 DEF Calls
  <2>8. ~d.retried
    BY <1>3, <2>4 DEF Calls
  <2>9. \A x \in c.calm : ~Passed(x, w, c.tried + 1)
    BY <1>3, <1>4, <2>1, <2>2, OnePassed
  <2>10. CallOk(d, t, p, conns)
    BY <1>2, <1>3, <2>6, <2>7, <2>8, <2>9 DEF CallOk
  <2>11. PICK r : /\ Changed(t, p, r) /\ r.calls[p] = d /\ r.floor = q[t].floor
                  /\ Call(t, p)' = d
    BY <1>1, <2>5, <2>7, SetCallOnly
  <2>12. d.at.pc # "read" /\ d.at # Done
    BY <2>6, <2>7
  <2>13. \A m : ResultOk(t, m, p)'
    BY <2>11, <2>12 DEF ResultOk
  <2> QED BY <1>5, <2>5, <2>10, <2>11, <2>12, <2>13, MovedOn
<1> QED BY <1>6, <1>7

\* The connection of a call has failed.
LEMMA ConnFailsStep ==
  ASSUME IInv, NEW t \in Threads, NEW p \in Parts, Live(t, p), Call(t, p).at # Done,
         Call(t, p).retried => Call(t, p).at.idx \notin Call(t, p).calm,
         UNCHANGED <<cluster, workers, next_worker, bounds>>,
         NEW cs, Released(t, p, cs), ConnFails(t, p, cs)
  PROVE  IInv'
<1>1. ConnType /\ QueryType /\ PoolInv /\ CallInv
  BY DEF IInv
<1>2. PICK c : c = Call(t, p)
  OBVIOUS
<1>3. /\ c \in Calls /\ c.at \in Steps /\ c.at.idx \in Workers /\ CallOk(c, t, p, conns)
      /\ c.retried \in BOOLEAN /\ c.at # Done
  BY <1>1, <1>2, RunIs, CallIs DEF Live, CallInv
<1>4. CASE c.retried
  BY <1>2, <1>4, FailOverStep DEF ConnFails
<1>5. CASE ~c.retried
  <2>1. PICK a : a = [c.at EXCEPT !.pc = "connect", !.conn = 0]
    OBVIOUS
  <2>2. a \in Steps /\ a.pc = "connect" /\ a.conn = 0 /\ a.idx = c.at.idx
    BY <1>3, <2>1 DEF Steps
  <2>3. a # Done
    BY <2>2 DEF Done
  <2>4. PICK d : d = [c EXCEPT !.at = a, !.retried = TRUE]
    OBVIOUS
  <2>5. /\ d \in Calls /\ d.at = a /\ d.tried = c.tried /\ d.calm = c.calm /\ d.result = c.result
    BY <1>3, <2>2, <2>4 DEF Calls
  <2>6. SetCall(t, p, d) /\ slot' = slot /\ Keep(cs)
    <3>1. /\ SetCall(t, p, [c EXCEPT !.at.pc = "connect", !.at.conn = 0, !.retried = TRUE])
          /\ slot' = slot /\ Keep(cs)
      BY <1>2, <1>5 DEF ConnFails
    <3>2. d = [c EXCEPT !.at.pc = "connect", !.at.conn = 0, !.retried = TRUE]
      BY <1>3, <2>1, <2>4 DEF Calls, Steps
    <3> QED BY <3>1, <3>2
  <2>7. Cleared
    BY <1>1, <1>3, <2>6, ClearedSlot
  <2>8. CallOk(d, t, p, conns)
    BY <1>3, <2>2, <2>3, <2>5 DEF CallOk
  <2>9. PICK r : Changed(t, p, r) /\ r.calls[p] = d /\ Call(t, p)' = d
    BY <1>1, <2>5, <2>6, SetCallOnly
  <2>10. d.at.pc # "read" /\ d.at # Done
    BY <2>2, <2>3, <2>5
  <2>11. \A m : ResultOk(t, m, p)'
    BY <2>9, <2>10 DEF ResultOk
  <2> QED BY <2>6, <2>7, <2>8, <2>9, <2>10, <2>11, MovedOn
<1> QED BY <1>3, <1>4, <1>5

-----------------------------------------------------------------------------
(* The steps of a call *)

\* What the invariant says of a call that is at a step.
LEMMA CallAt ==
  ASSUME IInv, NEW t \in Threads, NEW p, NEW pc \in {"connect", "send", "read"}, At(t, p, pc)
  PROVE  /\ p \in Parts /\ Live(t, p) /\ Call(t, p) \in Calls /\ Call(t, p).at # Done
         /\ Call(t, p).at \in Steps /\ Call(t, p).at.pc = pc /\ Call(t, p).at.idx \in Workers
         /\ Call(t, p).at.conn \in Nat /\ CallOk(Call(t, p), t, p, conns)
         /\ pc # "connect" => Call(t, p).at.conn # 0 /\ Call(t, p).at.conn \in DOMAIN conns
<1>1. QueryType /\ CallInv
  BY DEF IInv
<1>2. /\ Running(t) /\ p \in DOMAIN q[t].calls /\ p \in Parts /\ Call(t, p) \in Calls
      /\ Call(t, p).at # Done /\ Call(t, p).at \in Steps /\ Call(t, p).at.pc = pc
      /\ Call(t, p).at.idx \in Workers /\ Call(t, p).at.conn \in Nat
  BY <1>1, AtIs
<1>3. CallOk(Call(t, p), t, p, conns)
  BY <1>1, <1>2 DEF CallInv
<1> QED BY <1>2, <1>3 DEF Live, CallOk

LEMMA StepConnectFails ==
  ASSUME IInv, NEW t \in Threads, NEW p \in Parts, ConnectFails(t, p)
  PROVE  IInv'
<1>1. /\ At(t, p, "connect") /\ ~up[Call(t, p).at.idx] /\ FailOver(t, p, conns)
      /\ UNCHANGED <<cluster, workers, next_worker, bounds>>
  BY DEF ConnectFails
<1>2. /\ Live(t, p) /\ Call(t, p).at # Done /\ Call(t, p).at.pc = "connect"
      /\ CallOk(Call(t, p), t, p, conns)
  BY <1>1, CallAt
<1>3. Call(t, p).at.idx \notin Call(t, p).calm
  BY <1>1, <1>2 DEF CallOk
<1>4. PICK cs : cs = conns
  OBVIOUS
<1>5. Released(t, p, cs) /\ FailOver(t, p, cs)
  BY <1>1, <1>2, <1>4, NotReading
<1> QED BY <1>1, <1>2, <1>3, <1>5, FailOverStep

\* The connection a call has, without the lock and with other answers in it.
LEMMA Release ==
  ASSUME IInv, NEW t \in Threads, NEW p \in Parts, At(t, p, "read"),
         NEW n, n = Call(t, p).at.conn, NEW a \in Seq(Answers),
         NEW k, k = [conns[n] EXCEPT !.lock = NoLock, !.resps = a],
         conns[n].dirty \/ (conns[n].reqs = <<>> /\ a = <<>>),
         NEW cs, cs = [conns EXCEPT ![n] = k]
  PROVE  Released(t, p, cs)
<1>1. n \in DOMAIN conns /\ conns[n].lock = <<t, p>> /\ ConnType /\ ConnInv
  BY CallAt DEF IInv, CallOk
<1>2. /\ conns[n] \in Conns /\ ConnOk(conns[n], n)
  BY <1>1, ConnIs DEF ConnInv
<1>3. /\ k \in Conns /\ k.worker = conns[n].worker /\ k.alive = conns[n].alive /\ k.lock = NoLock
      /\ k.reqs = conns[n].reqs /\ k.resps = a
  BY <1>2 DEF Conns
<1>4. k.dirty = conns[n].dirty
  BY <1>2 DEF Conns
<1>5. ~k.alive => k.reqs = <<>>
  BY <1>2, <1>3 DEF ConnOk
<1>6. Unused(k)
  BY <1>3, <1>4, <1>5 DEF Unused
<1>7. ASSUME NEW m \in DOMAIN conns, conns[m].lock = <<t, p>> PROVE m = n
  <2>1. Locked(conns[m], m)
    BY <1>1 DEF ConnInv, ConnOk
  <2> QED BY <1>7, <2>1, LockIs DEF Locked
<1>8. conns \in [DOMAIN conns -> Conns]
  BY <1>1 DEF ConnType
<1>9. /\ cs \in [DOMAIN conns -> Conns] /\ cs[n] = k
      /\ \A m \in DOMAIN conns : m # n => cs[m] = conns[m]
  BY <1>1, <1>3, <1>8
<1> QED BY <1>1, <1>3, <1>6, <1>7, <1>9 DEF Released

\* A connection whose worker is gone has nothing more to read.
LEMMA StepClosed ==
  ASSUME IInv, NEW t \in Threads, NEW p \in Parts, Closed(t, p)
  PROVE  IInv'
<1>1. PICK n : n = Call(t, p).at.conn
  OBVIOUS
<1>2. /\ At(t, p, "read") /\ conns[n].resps = <<>> /\ ~conns[n].alive
      /\ ConnFails(t, p, [conns EXCEPT ![n].lock = NoLock])
      /\ UNCHANGED <<cluster, workers, next_worker, bounds>>
  BY <1>1 DEF Closed
<1>3. /\ Live(t, p) /\ Call(t, p).at # Done /\ CallOk(Call(t, p), t, p, conns)
      /\ n \in DOMAIN conns /\ n # 0
  BY <1>1, <1>2, CallAt
<1>4. conns[n] \in Conns /\ ConnOk(conns[n], n)
  BY <1>3, ConnIs DEF IInv, ConnInv
<1>5. conns[n].reqs = <<>>
  BY <1>2, <1>4 DEF ConnOk
<1>6. PICK k : k = [conns[n] EXCEPT !.lock = NoLock, !.resps = <<>>]
  OBVIOUS
<1>7. k = [conns[n] EXCEPT !.lock = NoLock]
  BY <1>2, <1>4, <1>6 DEF Conns
<1>8. PICK cs : cs = [conns EXCEPT ![n] = k]
  OBVIOUS
<1>9. cs = [conns EXCEPT ![n].lock = NoLock]
  BY <1>7, <1>8
<1>10. Released(t, p, cs)
  BY <1>1, <1>2, <1>5, <1>6, <1>8, EmptyItems, Release
<1>11. Call(t, p).retried => Call(t, p).at.idx \notin Call(t, p).calm
  BY <1>1, <1>2, <1>3 DEF CallOk
<1>12. ConnFails(t, p, cs)
  BY <1>2, <1>9
<1> QED BY <1>2, <1>3, <1>10, <1>11, <1>12, ConnFailsStep

\* The answer a call reads is its own, unless a call was dropped on the connection.
LEMMA StepReceive ==
  ASSUME IInv, NEW t \in Threads, NEW p \in Parts, Receive(t, p)
  PROVE  IInv'
<1>1. PICK n : n = Call(t, p).at.conn
  OBVIOUS
<1>2. PICK a : a = Head(conns[n].resps)
  OBVIOUS
<1>3. PICK v : v = (IF a.kind = q[t].kind THEN a.result ELSE WorkerErr)
  OBVIOUS
<1>4. PICK own \in BOOLEAN : own = (conns[n].dirty \/ (a.no = q[t].no /\ a.part = p))
  OBVIOUS
<1>5. PICK b \in BOOLEAN : b = (conns[n].dirty \/ a.stale)
  OBVIOUS
<1>6. PICK as : as = Tail(conns[n].resps)
  OBVIOUS
<1>7. PICK k : k = [conns[n] EXCEPT !.lock = NoLock, !.resps = as]
  OBVIOUS
<1>8. PICK cs : cs = [conns EXCEPT ![n] = k]
  OBVIOUS
<1>9. /\ At(t, p, "read") /\ conns[n].resps # <<>> /\ slot' = slot
      /\ UNCHANGED <<cluster, workers, next_worker, bounds>>
  BY <1>1 DEF Receive
<1>10. /\ Live(t, p) /\ Call(t, p).at # Done /\ CallOk(Call(t, p), t, p, conns)
       /\ n \in DOMAIN conns /\ n # 0 /\ Call(t, p).at.pc = "read"
  BY <1>1, <1>9, CallAt
<1>11. /\ conns[n] \in Conns /\ ConnOk(conns[n], n) /\ conns[n].lock = <<t, p>>
       /\ conns[n].reqs \in Seq(Requests) /\ conns[n].resps \in Seq(Answers)
  BY <1>1, <1>10, ConnIs DEF IInv, ConnInv, CallOk
<1>12. Finish(t, p, v, own, b, cs)
  <2>1. Finish(t, p, v, own, b, [conns EXCEPT ![n].lock = NoLock, ![n].resps = Tail(@)])
    BY <1>1, <1>2, <1>3, <1>4, <1>5, Zenon DEF Receive
  <2>2. cs = [conns EXCEPT ![n].lock = NoLock, ![n].resps = Tail(@)]
    BY <1>6, <1>7, <1>8, <1>10, <1>11 DEF Conns
  <2> QED BY <2>1, <2>2, Zenon
<1>13. /\ a \in Answers /\ a \in Items(conns[n].resps) /\ as \in Seq(Answers)
       /\ Len(conns[n].resps) \in Nat /\ Len(as) = Len(conns[n].resps) - 1
       /\ Len(conns[n].resps) > 0
  BY <1>2, <1>6, <1>9, <1>11, HeadTail
<1>14. ~conns[n].dirty =>
         /\ conns[n].reqs = <<>> /\ as = <<>> /\ OfCall(a, conns[n].lock)
  <2>1. SUFFICES ASSUME ~conns[n].dirty
                 PROVE  conns[n].reqs = <<>> /\ as = <<>> /\ OfCall(a, conns[n].lock)
    OBVIOUS
  <2>a. conns[n].lock # NoLock
    BY <1>11, LockIs
  <2>2. Len(conns[n].reqs) + Len(conns[n].resps) <= 1 /\ OfCall(a, conns[n].lock)
    BY <1>11, <1>13, <2>1, <2>a, Zenon DEF ConnOk, Pure
  <2>3. PICK x, y : x = Len(conns[n].reqs) /\ y = Len(conns[n].resps)
    OBVIOUS
  <2>b. x \in Nat /\ y \in Nat /\ y > 0 /\ Len(as) = y - 1
    BY <1>11, <1>13, <2>3, LenProperties
  <2>c. x + y <= 1
    BY <2>2, <2>3
  <2>d. x = 0 /\ y = 1
    BY <2>b, <2>c
  <2>4. Len(conns[n].reqs) = 0 /\ Len(as) = 0
    BY <2>3, <2>b, <2>d
  <2> QED BY <1>11, <1>13, <2>2, <2>4, NoItems
<1>15. Released(t, p, cs)
  BY <1>1, <1>7, <1>8, <1>9, <1>13, <1>14, Release
<1>16. own = TRUE
  <2>1. ~conns[n].dirty => a.no = q[t].no /\ a.part = p
    <3>1. conns[n].lock[1] = t /\ conns[n].lock[2] = p
      BY <1>11, LockIs
    <3> QED BY <1>14, <3>1, Zenon DEF OfCall
  <2> QED BY <1>4, <2>1
<1>17. v \in Results /\ v # ConnErr
  BY <1>3, <1>13, Errors DEF Answers
<1>18. Cleared
  BY <1>9 DEF IInv, ConnType, Cleared
<1>19. ASSUME NEW m \in DOMAIN q[t].calls, p >= m, CoveredAt(t, m), ~q[t].tainted, ~b
       PROVE  Fine(v, m, p, q[t].floor)
  <2>1. AnswerOk(t, m, p)
    BY <1>10, <1>19 DEF CoveredAt, Live
  <2>2. ~conns[n].dirty /\ ~a.stale
    BY <1>5, <1>19
  <2>3. Fine(a.result, m, p, q[t].floor)
    BY <1>1, <1>10, <1>13, <2>1, <2>2 DEF AnswerOk
  <2> QED BY <1>3, <2>3, Errors DEF Fine
<1>20. Finish(t, p, v, TRUE, b, cs)
  BY <1>12, <1>16
<1> QED BY <1>9, <1>10, <1>15, <1>17, <1>18, <1>19, <1>20, FinishStep

\* All calls but that of t for p have the connections they had.
LEMMA OthersUsed ==
  ASSUME QueryType, CallInv, NEW t \in Threads, NEW p \in Parts, LocalCalls({<<t, p>>}),
         NEW u \in Threads, NEW s \in Parts, <<u, s>> # <<t, p>>, Live(u, s)',
         Call(u, s)'.at.conn # 0
  PROVE  Call(u, s)'.at.conn \in DOMAIN conns
<1>1. Live(u, s) /\ Call(u, s)' = Call(u, s)
  BY DEF LocalCalls, Goes
<1>2. Call(u, s) \in Calls /\ CallOk(Call(u, s), u, s, conns)
  BY <1>1, RunIs DEF Live, CallInv
<1> QED BY <1>1, <1>2, CallIs DEF CallOk

\* A new connection is alive, and is so while its worker stays.
LEMMA StepConnect ==
  ASSUME IInv, NEW t \in Threads, NEW p \in Parts, Connect(t, p)
  PROVE  IInv'
<1>1. PICK c : c = Call(t, p)
  OBVIOUS
<1>2. PICK w : w = c.at.idx
  OBVIOUS
<1>3. PICK n : n = NewId
  OBVIOUS
<1>4. PICK k : k = NewConn(w)
  OBVIOUS
<1>5. PICK cs : cs = [m \in DOMAIN conns \cup {n} |-> IF m = n THEN k ELSE conns[m]]
  OBVIOUS
<1>6. /\ At(t, p, "connect") /\ up[w] /\ slot' = [slot EXCEPT ![w] = n] /\ Keep(cs)
      /\ SetCall(t, p, [c EXCEPT !.at.pc = "send", !.at.conn = n])
      /\ UNCHANGED <<cluster, workers, next_worker, bounds>>
  BY <1>1, <1>2, <1>3, <1>4, <1>5 DEF Connect
<1>7. /\ Live(t, p) /\ c \in Calls /\ c.at # Done /\ c.at \in Steps /\ c.at.pc = "connect"
      /\ w \in Workers /\ CallOk(c, t, p, conns)
  BY <1>1, <1>2, <1>6, CallAt
<1>8. ConnType /\ QueryType /\ PoolInv /\ CallInv /\ ConnInv /\ up' = up
  BY <1>6 DEF IInv, workers
<1>9. n \in Nat \ {0} /\ n \notin DOMAIN conns
  BY <1>3, <1>8, NewIdIs
<1>10. /\ k \in Conns /\ k.worker = w /\ k.lock = NoLock /\ k.reqs = <<>> /\ k.resps = <<>>
  BY <1>4, <1>7, EmptyItems DEF NewConn, Conns
<1>11. k.alive /\ ~k.dirty
  BY <1>4 DEF NewConn
<1>12. Unused(k)
  BY <1>10, <1>11 DEF Unused
<1>13. PICK a : a = [c.at EXCEPT !.pc = "send", !.conn = n]
  OBVIOUS
<1>14. a \in Steps /\ a.pc = "send" /\ a.conn = n /\ a.idx = w
  BY <1>2, <1>7, <1>9, <1>13 DEF Steps
<1>15. a # Done
  BY <1>14 DEF Done
<1>16. PICK d : d = [c EXCEPT !.at = a]
  OBVIOUS
<1>17. /\ d \in Calls /\ d.at = a /\ d.tried = c.tried /\ d.calm = c.calm /\ d.result = c.result
  BY <1>7, <1>14, <1>16 DEF Calls
<1>18. SetCall(t, p, d)
  <2>1. d = [c EXCEPT !.at.pc = "send", !.at.conn = n]
    BY <1>7, <1>13, <1>16 DEF Calls, Steps
  <2> QED BY <1>6, <2>1
<1>19. PICK r : Changed(t, p, r) /\ r.calls[p] = d /\ Call(t, p)' = d
  BY <1>7, <1>8, <1>17, <1>18, SetCallOnly
<1>20. /\ conns \in [DOMAIN conns -> Conns] /\ DOMAIN conns \subseteq Nat \ {0}
       /\ IsFiniteSet(DOMAIN conns) /\ slot \in [Workers -> {0} \cup DOMAIN conns]
  BY <1>8 DEF ConnType
<1>21. PICK D : D = DOMAIN conns \cup {n}
  OBVIOUS
<1>22. /\ cs \in [D -> Conns] /\ DOMAIN cs = D /\ D \subseteq Nat \ {0} /\ cs[n] = k
       /\ \A m \in DOMAIN conns : cs[m] = conns[m]
  BY <1>5, <1>9, <1>10, <1>20, <1>21
<1>23. IsFiniteSet(D)
  BY <1>20, <1>21, FS_AddElement
<1>24. ConnType' /\ PoolInv'
  <2>1. slot' \in [Workers -> {0} \cup D]
    BY <1>6, <1>20, <1>21
  <2>2. ASSUME NEW x \in Workers, slot'[x] # 0 PROVE cs[slot'[x]].worker = x
    <3>1. CASE x = w
      BY <1>6, <1>7, <1>10, <1>20, <1>22, <3>1
    <3>2. CASE x # w
      <4>1. slot'[x] = slot[x] /\ slot[x] \in DOMAIN conns
        BY <1>6, <1>20, <2>2, <3>2
      <4> QED BY <1>8, <1>22, <2>2, <4>1 DEF PoolInv
    <3> QED BY <3>1, <3>2
  <2> QED BY <1>6, <1>22, <1>23, <2>1, <2>2, KeepType
<1>25. LocalCalls({<<t, p>>})
  BY <1>7, <1>8, <1>19, ChangedCalls
<1>26. /\ DOMAIN conns' \subseteq D /\ \A m \in DOMAIN conns' : conns'[m] = cs[m]
       /\ \A u \in Threads, s \in Parts : Live(u, s)' /\ Call(u, s)'.at.conn \in D =>
            Call(u, s)'.at.conn \in DOMAIN conns'
  BY <1>6, <1>22, KeepIs
<1>27. Live(t, p)'
  BY <1>7, <1>8, <1>19 DEF Live, Changed, Running, Runs, QueryType
<1>28. ASSUME NEW u \in Threads, NEW s \in Parts, Live(u, s)', Call(u, s)'.at.conn # 0
       PROVE  Call(u, s)'.at.conn \in DOMAIN conns'
  <2>1. CASE <<u, s>> = <<t, p>>
    <3>1. u = t /\ s = p
      BY <2>1
    <3>2. Call(u, s)'.at.conn = n
      BY <1>14, <1>17, <1>19, <3>1
    <3> QED BY <1>21, <1>26, <1>28, <3>2
  <2>2. CASE <<u, s>> # <<t, p>>
    <3>1. Call(u, s)'.at.conn \in DOMAIN conns
      BY <1>8, <1>25, <1>28, <2>2, OthersUsed
    <3> QED BY <1>21, <1>26, <1>28, <3>1
  <2> QED BY <2>1, <2>2
<1>29. LocalConns({<<t, p>>}, {n})
  <2>1. ASSUME NEW m \in DOMAIN conns', m \notin {n}
        PROVE  m \in DOMAIN conns /\ conns'[m] = conns[m] /\ conns[m].lock \notin {<<t, p>>}
    <3>1. m \in DOMAIN conns
      BY <1>21, <1>26, <2>1
    <3>2. conns[m].lock # <<t, p>>
      BY <1>1, <1>7, <3>1, NotReading
    <3> QED BY <1>22, <1>26, <3>1, <3>2
  <2>2. {n} \cap DOMAIN conns = {}
    BY <1>9
  <2> QED BY <1>28, <2>1, <2>2 DEF LocalConns
<1>30. ASSUME NEW m \in {n} \cap DOMAIN conns' PROVE ConnOk(conns[m], m)'
  <2>1. conns'[m] = k
    BY <1>22, <1>26
  <2> QED BY <1>12, <2>1, UnusedOk
<1>31. CallOk(Call(t, p), t, p, conns)'
  <2>1. n \in DOMAIN conns'
    BY <1>9, <1>14, <1>17, <1>19, <1>27, <1>28
  <2>2. conns'[n].worker = w /\ conns'[n].alive
    BY <1>10, <1>11, <1>22, <1>26, <2>1
  <2>3. CallOk(d, t, p, conns)'
    BY <1>2, <1>7, <1>8, <1>9, <1>14, <1>15, <1>17, <2>1, <2>2 DEF CallOk
  <2> QED BY <1>19, <2>3
<1>32. \A m : ResultOk(t, m, p)' /\ AnswerOk(t, m, p)'
  BY <1>14, <1>15, <1>17, <1>19 DEF ResultOk, AnswerOk
<1> QED BY <1>6, <1>7, <1>19, <1>24, <1>29, <1>30, <1>31, <1>32, CallStep

\* A request is sent under the lock, into a connection with nothing in it.
LEMMA StepSend ==
  ASSUME IInv, NEW t \in Threads, NEW p \in Parts, Send(t, p)
  PROVE  IInv'
<1>1. PICK c : c = Call(t, p)
  OBVIOUS
<1>2. PICK n : n = c.at.conn
  OBVIOUS
<1>3. PICK x : x = [part |-> p, kind |-> q[t].kind, no |-> q[t].no]
  OBVIOUS
<1>4. /\ At(t, p, "send") /\ conns[n].lock = NoLock
      /\ UNCHANGED <<cluster, workers, next_worker, bounds>>
  BY <1>1, <1>2 DEF Send, WriteLock
<1>5. /\ Live(t, p) /\ c \in Calls /\ c.at # Done /\ c.at \in Steps /\ c.at.pc = "send"
      /\ CallOk(c, t, p, conns) /\ n \in DOMAIN conns /\ n # 0
  BY <1>1, <1>2, <1>4, CallAt
<1>6. ConnType /\ QueryType /\ PoolInv /\ CallInv /\ ConnInv /\ up' = up
  BY <1>4 DEF IInv, workers
<1>7. /\ conns[n] \in Conns /\ ConnOk(conns[n], n) /\ conns[n].reqs \in Seq(Requests)
  BY <1>5, <1>6, ConnIs DEF ConnInv
<1>8. CASE ~conns[n].alive
  <2>1. PICK cs : cs = conns
    OBVIOUS
  <2>2. ConnFails(t, p, cs) /\ Released(t, p, cs)
    BY <1>1, <1>2, <1>5, <1>8, <2>1, NotReading DEF Send
  <2>3. Call(t, p).retried => Call(t, p).at.idx \notin Call(t, p).calm
    BY <1>1, <1>2, <1>5, <1>8 DEF CallOk
  <2> QED BY <1>1, <1>4, <1>5, <2>2, <2>3, ConnFailsStep
<1>9. CASE conns[n].alive
  <2>1. PICK k : k = [conns[n] EXCEPT !.lock = <<t, p>>, !.reqs = Append(@, x)]
    OBVIOUS
  <2>2. /\ conns' = [conns EXCEPT ![n].lock = <<t, p>>, ![n].reqs = Append(@, x)]
        /\ SetCall(t, p, [c EXCEPT !.at.pc = "read"]) /\ slot' = slot
    BY <1>1, <1>2, <1>3, <1>9 DEF Send
  <2>3. x \in Requests /\ x.part = p /\ x.kind = q[t].kind /\ x.no = q[t].no
    BY <1>3, <1>5, <1>6, RunIs DEF Live, Requests
  <2>4. Append(conns[n].reqs, x) \in Seq(Requests)
    BY <1>7, <2>3, AppendItems
  <2>5. /\ k \in Conns /\ k.worker = conns[n].worker /\ k.lock = <<t, p>>
        /\ k.reqs = Append(conns[n].reqs, x) /\ k.resps = conns[n].resps
    BY <1>7, <2>1, <2>4, LockIs DEF Conns
  <2>6. k.alive = conns[n].alive /\ k.dirty = conns[n].dirty
    BY <1>7, <2>1 DEF Conns
  <2>7. /\ conns' = [conns EXCEPT ![n] = k] /\ DOMAIN conns' = DOMAIN conns /\ conns'[n] = k
        /\ \A m \in DOMAIN conns : m # n => conns'[m] = conns[m]
    <3>1. conns' = [conns EXCEPT ![n] = k]
      BY <1>5, <1>6, <1>7, <2>1, <2>2 DEF Conns, ConnType
    <3> QED BY <1>5, <1>6, <3>1 DEF ConnType
  <2>8. PICK a : a = [c.at EXCEPT !.pc = "read"]
    OBVIOUS
  <2>9. a \in Steps /\ a.pc = "read" /\ a.conn = n /\ a.idx = c.at.idx
    BY <1>2, <1>5, <2>8 DEF Steps
  <2>10. a # Done
    BY <2>9 DEF Done
  <2>11. PICK d : d = [c EXCEPT !.at = a]
    OBVIOUS
  <2>12. /\ d \in Calls /\ d.at = a /\ d.tried = c.tried /\ d.calm = c.calm /\ d.result = c.result
         /\ d.retried = c.retried
    BY <1>5, <2>9, <2>11 DEF Calls
  <2>13. SetCall(t, p, d)
    <3>1. d = [c EXCEPT !.at.pc = "read"]
      BY <1>5, <2>8, <2>11 DEF Calls, Steps
    <3> QED BY <2>2, <3>1
  <2>14. PICK r : Changed(t, p, r) /\ r.calls[p] = d /\ Call(t, p)' = d
    BY <1>5, <1>6, <2>12, <2>13, SetCallOnly
  <2>15. /\ q'[t] = r /\ Live(t, p)' /\ Running(t)' /\ q'[t].no = q[t].no /\ q'[t].kind = q[t].kind
    BY <1>5, <1>6, <2>14 DEF Live, Changed, Running, Runs, QueryType
  <2>16. ConnType'
    BY <1>5, <1>6, <2>2, <2>5, <2>7 DEF ConnType
  <2>17. PoolInv'
    BY <1>6, <2>2, <2>5, <2>7 DEF PoolInv, ConnType
  <2>18. LocalCalls({<<t, p>>})
    BY <1>5, <1>6, <2>14, ChangedCalls
  <2>19. ASSUME NEW u \in Threads, NEW s \in Parts, Live(u, s)', Call(u, s)'.at.conn # 0
         PROVE  Call(u, s)'.at.conn \in DOMAIN conns'
    <3>1. CASE <<u, s>> = <<t, p>>
      <4>1. u = t /\ s = p
        BY <3>1
      <4> QED BY <1>5, <2>7, <2>9, <2>12, <2>14, <4>1
    <3>2. CASE <<u, s>> # <<t, p>>
      BY <1>6, <2>7, <2>18, <2>19, <3>2, OthersUsed
    <3> QED BY <3>1, <3>2
  <2>20. LocalConns({<<t, p>>}, {n})
    <3>1. ASSUME NEW m \in DOMAIN conns', m \notin {n}
          PROVE  m \in DOMAIN conns /\ conns'[m] = conns[m] /\ conns[m].lock \notin {<<t, p>>}
      BY <1>1, <1>5, <2>7, <3>1, NotReading
    <3>2. conns[n].lock \in {<<t, p>>} \cup {NoLock} /\ conns'[n].worker = conns[n].worker
          /\ conns'[n].alive = conns[n].alive
      BY <1>4, <2>5, <2>6, <2>7
    <3> QED BY <2>19, <3>1, <3>2 DEF LocalConns
  <2>21. ~conns[n].dirty => conns[n].reqs = <<>> /\ conns[n].resps = <<>>
    BY <1>4, <1>7 DEF ConnOk, Pure
  <2>22. ConnOk(k, n)'
    <3>1. k.lock # NoLock /\ k.lock[1] = t /\ k.lock[2] = p
      BY <2>5, LockIs
    <3>2. Locked(k, n)'
      BY <1>5, <2>9, <2>12, <2>14, <2>15, <3>1 DEF Locked, At, Live
    <3>3. OfCall(x, k.lock)'
      BY <2>3, <2>15, <3>1 DEF OfCall
    <3>4. Pure(k)'
      <4>1. CASE k.dirty
        BY <4>1 DEF Pure
      <4>2. CASE ~k.dirty
        <5>1. k.reqs = Append(<<>>, x) /\ k.resps = <<>>
          BY <2>5, <2>6, <2>21, <4>2
        <5>2. /\ Len(k.reqs) + Len(k.resps) <= 1 /\ Items(k.reqs) = {x} /\ Items(k.resps) = {}
          <6>1. Len(k.reqs) = 1 /\ Items(k.reqs) = {x}
            <7>1. /\ <<>> \in Seq(Requests) /\ Len(<<>>) = 0 /\ Items(<<>>) = {}
              BY EmptyItems
            <7>2. PICK e : e = <<>>
              OBVIOUS
            <7>3. /\ Items(Append(e, x)) = Items(e) \cup {x} /\ Len(e) \in Nat
                  /\ Len(Append(e, x)) = Len(e) + 1
              <8>1. e \in Seq(Requests) /\ x \in Requests
                BY <2>3, <7>1, <7>2, Zenon
              <8> QED BY <8>1, AppendItems
            <7>4. Items(Append(e, x)) = {x} /\ Len(Append(e, x)) = 1
              <8>1. Items(e) = {} /\ Len(e) = 0
                BY <7>1, <7>2, Zenon
              <8>2. Items(Append(e, x)) = {x}
                BY <7>3, <8>1, Zenon
              <8>3. Len(Append(e, x)) = 0 + 1
                BY <7>3, <8>1, Zenon
              <8> QED BY <8>2, <8>3
            <7> QED BY <5>1, <7>2, <7>4, Zenon
          <6>2. Len(k.resps) = 0 /\ Items(k.resps) = {}
            BY <5>1, EmptyItems
          <6> QED BY <6>1, <6>2
        <5>3. PICK l : l = k.lock
          OBVIOUS
        <5>4. \A y \in Items(k.reqs) \cup Items(k.resps) : OfCall(y, l)'
          BY <3>3, <5>2, <5>3, Zenon
        <5> QED BY <3>1, <5>2, <5>3, <5>4, Zenon DEF Pure
      <4> QED BY <4>1, <4>2
    <3>5. k.alive
      BY <1>9, <2>6
    <3> QED BY <3>2, <3>4, <3>5 DEF ConnOk
  <2>23. CallOk(Call(t, p), t, p, conns)'
    <3>1. CallOk(d, t, p, conns)'
      BY <1>2, <1>5, <1>6, <1>9, <2>5, <2>6, <2>7, <2>9, <2>10, <2>12 DEF CallOk
    <3> QED BY <2>14, <3>1
  <2>24. \A m : ResultOk(t, m, p)'
    BY <2>10, <2>12, <2>14 DEF ResultOk
  <2>25. \A m : AnswerOk(t, m, p)'
    <3>1. ~k.dirty => Items(k.resps) = {}
      BY <2>5, <2>6, <2>21, EmptyItems
    <3>2. Call(t, p)'.at.conn = n
      BY <2>9, <2>12, <2>14
    <3> QED BY <2>7, <3>1, <3>2 DEF AnswerOk
  <2>26. \A m \in {n} \cap DOMAIN conns' : ConnOk(conns[m], m)'
    BY <2>7, <2>22
  <2> QED BY <1>4, <1>5, <2>14, <2>16, <2>17, <2>20, <2>23, <2>24, <2>25, <2>26, CallStep
<1> QED BY <1>7, <1>8, <1>9 DEF Conns

-----------------------------------------------------------------------------
(* The steps of a query *)

\* While t runs no query, it has no lock; while its calls are all done, neither.
LEMMA NoLocks ==
  ASSUME IInv, NEW t \in Threads, \A p : ~At(t, p, "read")
  PROVE  \A n \in DOMAIN conns : conns[n].lock \notin {t} \X Parts
<1>1. SUFFICES ASSUME NEW n \in DOMAIN conns, conns[n].lock \in {t} \X Parts PROVE FALSE
  OBVIOUS
<1>2. conns[n].lock # NoLock /\ conns[n].lock[1] = t
  BY <1>1 DEF NoLock
<1>3. Locked(conns[n], n)
  BY DEF IInv, ConnInv, ConnOk
<1> QED BY <1>2, <1>3 DEF Locked

\* The connections that other threads use, when they are all left.
LEMMA AllLeft ==
  ASSUME IInv, NEW t \in Threads, \A p : ~At(t, p, "read"), conns' = conns,
         \A u \in Threads : u # t => q'[u] = q[u],
         \A s \in Parts : Live(t, s)' /\ Call(t, s)'.at.conn # 0 =>
           Call(t, s)'.at.conn \in DOMAIN conns
  PROVE  LocalConns({t} \X Parts, {})
<1>1. QueryType /\ CallInv
  BY DEF IInv
<1>2. ASSUME NEW u \in Threads, NEW s \in Parts, Live(u, s)', Call(u, s)'.at.conn # 0
      PROVE  Call(u, s)'.at.conn \in DOMAIN conns'
  <2>1. CASE u = t
    BY <1>2, <2>1
  <2>2. CASE u # t
    <3>1. Live(u, s) /\ Call(u, s)' = Call(u, s)
      BY <1>2, <2>2 DEF Live, Running, Call
    <3>2. Call(u, s) \in Calls /\ CallOk(Call(u, s), u, s, conns)
      BY <1>1, <3>1, RunIs DEF Live, CallInv
    <3> QED BY <1>2, <3>1, <3>2, CallIs DEF CallOk
  <2> QED BY <2>1, <2>2
<1>3. \A n \in DOMAIN conns' :
        n \in DOMAIN conns /\ conns'[n] = conns[n] /\ conns[n].lock \notin {t} \X Parts
  BY NoLocks
<1> QED BY <1>2, <1>3 DEF LocalConns

\* The first calls of a query over the partitions ps, which have what is asked for.
LEMMA DispatchStep ==
  ASSUME IInv, NEW t \in Threads, ~Running(t), NEW kind \in Kinds, NEW f \in 0 .. MaxVersion,
         1 <= f, f <= committed, NEW ps \in SUBSET Parts, Covered(ps, f), queries' \in Nat,
         UNCHANGED <<cluster, workers, slot, conns>>, Dispatch(t, kind, f, ps)
  PROVE  IInv'
<1> DEFINE L == {t} \X Parts
           First(p) == [at |-> Attempt(Start(Rank(kind, ps, p))), tried |-> 0, retried |-> FALSE,
                        calm |-> {w \in Workers : up[w]}, own |-> TRUE, result |-> 0]
<1>1. /\ ClusterType /\ WorkerType /\ ConnType /\ QueryType /\ PubInv /\ PoolInv /\ CallInv
      /\ EndInv /\ ConnInv /\ CoverInv /\ ReadsCommitted
  BY DEF IInv
<1>2. /\ ClusterType' /\ PubInv' /\ WorkerType' /\ up' = up /\ content' = content
      /\ committed' = committed /\ conns' = conns
  BY <1>1, SameCluster, SameWorkers DEF workers, cluster
<1>3. ConnType' /\ PoolInv'
  BY <1>1 DEF ConnType, PoolInv
<1>4. N \in Nat \ {0} /\ IsFiniteSet(Parts) /\ Parts \subseteq Nat /\ next_worker \in Workers
  BY <1>1, GatewayAssumption DEF QueryType
<1>5. ASSUME NEW p \in ps
      PROVE  \E w \in Workers : Start(Rank(kind, ps, p)) = w
  <2>1. PICK S : S = {s \in ps : IF kind = "first" THEN s > p ELSE s < p}
    OBVIOUS
  <2>2. S \in SUBSET Parts
    BY <2>1
  <2>3. Cardinality(S) \in Nat
    BY <1>4, <2>2, FS_Subset, FS_CardinalityType
  <2>4. Rank(kind, ps, p) = Cardinality(S)
    BY <2>1 DEF Rank
  <2>5. next_worker + Cardinality(S) \in Nat
    BY <1>4, <2>3 DEF Workers
  <2> QED BY <2>4, <2>5, Modulo DEF Start
<1>6. ASSUME NEW p \in ps
      PROVE  /\ First(p) \in Calls /\ CallOk(First(p), t, p, conns) /\ First(p).at # Done
             /\ First(p).at.pc # "read"
             /\ First(p).at.conn # 0 => First(p).at.conn \in DOMAIN conns
  <2>1. PICK w \in Workers : Start(Rank(kind, ps, p)) = w
    BY <1>5
  <2>2. PICK a : a = Attempt(w)
    OBVIOUS
  <2>3. /\ a \in Steps /\ a.idx = w /\ a.conn = slot[w] /\ a # Done
        /\ a.pc = (IF slot[w] # 0 THEN "send" ELSE "connect")
        /\ slot[w] # 0 => slot[w] \in DOMAIN conns /\ conns[slot[w]].worker = w
    BY <1>1, <2>2, AttemptIs
  <2>4. PICK c : c = First(p)
    OBVIOUS
  <2>5. c = [at |-> a, tried |-> 0, retried |-> FALSE, calm |-> {x \in Workers : up[x]},
             own |-> TRUE, result |-> 0]
    BY <2>1, <2>2, <2>4
  <2>6. 0 \in Workers
    BY <1>4 DEF Workers
  <2>7. /\ c \in Calls /\ c.at = a /\ c.tried = 0 /\ c.calm = {x \in Workers : up[x]}
        /\ c.result = 0
    BY <2>3, <2>5, <2>6, Errors DEF Calls
  <2>8. ~c.retried
    BY <2>5
  <2>9. \A x \in Workers : ~Passed(x, w, 0)
    BY <1>4 DEF Passed, Workers
  <2>10. CallOk(c, t, p, conns)
    BY <2>3, <2>7, <2>8, <2>9 DEF CallOk
  <2>11. c.at # Done /\ c.at.pc # "read" /\ (c.at.conn # 0 => c.at.conn \in DOMAIN conns)
    BY <2>3, <2>7
  <2> HIDE DEF First
  <2> QED BY <2>4, <2>7, <2>10, <2>11
<1> HIDE DEF First
<1>7. PICK cs : cs = [p \in ps |-> First(p)]
  OBVIOUS
<1>8. cs \in [ps -> Calls] /\ DOMAIN cs = ps
  BY <1>6, <1>7
<1>9. PICK r : r = [pc |-> "run", kind |-> kind, floor |-> f, no |-> queries', tainted |-> FALSE,
                    calls |-> cs]
  OBVIOUS
<1>10. q' = [q EXCEPT ![t] = r] /\ next_worker' = (next_worker + Cardinality(ps)) % N
  BY <1>7, <1>9 DEF Dispatch, First
<1>11. next_worker' \in Workers
  <2>1. Cardinality(ps) \in Nat
    BY <1>4, FS_Subset, FS_CardinalityType
  <2>2. next_worker + Cardinality(ps) \in Nat
    BY <1>4, <2>1 DEF Workers
  <2> QED BY <1>10, <2>2, Modulo
<1>12. /\ r \in Runs /\ r.pc = "run" /\ r.floor = f /\ r.calls = cs
  <2>1. cs \in UNION {[xs -> Calls] : xs \in SUBSET Parts}
    BY <1>8
  <2> QED BY <1>9, <2>1 DEF Runs
<1>13. /\ QueryType' /\ EndInv' /\ ReadsCommitted' /\ q'[t] = r
       /\ \A u \in Threads : u # t => q'[u] = q[u]
  BY <1>1, <1>10, <1>11, <1>12, QueryStep
<1>14. \A p \in Parts : Live(t, p)' => p \in ps /\ Call(t, p)' = First(p)
  BY <1>7, <1>8, <1>12, <1>13 DEF Live, Call
<1>15. \A u \in Threads, s \in Parts : <<u, s>> \in L <=> u = t
  OBVIOUS
<1>16. \A p : ~At(t, p, "read")
  BY DEF At
<1>17. LocalConns(L, {})
  BY <1>2, <1>6, <1>13, <1>14, <1>16, AllLeft
<1> HIDE DEF L
<1>18. LocalCalls(L)
  BY <1>13, <1>15 DEF LocalCalls, Live, Goes, Running, Call
<1>19. Local(L, {})
  BY <1>17, <1>18 DEF Local
<1>20. ASSUME NEW u \in Threads, NEW s \in Parts, <<u, s>> \in L, Live(u, s)'
       PROVE  CallOk(Call(u, s), u, s, conns)'
  <2>1. u = t /\ s \in ps /\ Call(u, s)' = First(s)
    BY <1>14, <1>15, <1>20
  <2>2. PICK c : c = First(s)
    OBVIOUS
  <2>3. CallOk(c, t, s, conns)
    BY <1>6, <2>1, <2>2
  <2>4. CallOk(c, t, s, conns)'
    BY <1>2, <2>3 DEF CallOk
  <2> QED BY <2>1, <2>2, <2>4
<1>21. ConnInv' /\ CallInv'
  BY <1>1, <1>2, <1>3, <1>13, <1>19, <1>20, LocalStep
<1>22. CoverInv'
  <2>1. ASSUME NEW u \in Threads, Running(u)' PROVE \E m \in DOMAIN (q'[u].calls) : CoveredAt(u, m)'
    <3>1. CASE u = t
      <4>1. PICK m \in ps : Enough(m, ps, f)
        BY DEF Covered
      <4>2. DOMAIN (q'[t].calls) = ps /\ q'[t].floor = f
        BY <1>8, <1>12, <1>13
      <4>3. Enough(m, DOMAIN q[t].calls, q[t].floor)'
        BY <1>2, <4>1, <4>2 DEF Enough
      <4>4. ASSUME NEW s \in ps PROVE ResultOk(t, m, s)' /\ AnswerOk(t, m, s)'
        <5>1. Call(t, s)' = First(s)
          BY <1>7, <1>12, <1>13 DEF Call
        <5> QED BY <1>6, <5>1 DEF ResultOk, AnswerOk
      <4> QED BY <3>1, <4>1, <4>2, <4>3, <4>4 DEF CoveredAt
    <3>2. CASE u # t
      <4>1. q'[u] = q[u] /\ Running(u)
        BY <1>13, <2>1, <3>2 DEF Running
      <4>2. DOMAIN q[u].calls \subseteq Parts
        BY <1>1, <4>1, RunIs
      <4>3. \A s \in DOMAIN q[u].calls : <<u, s>> \notin L
        BY <1>15, <3>2, <4>2
      <4> QED BY <1>1, <1>2, <1>19, <2>1, <4>1, <4>3, CoverStill
    <3> QED BY <3>1, <3>2
  <2>2. ASSUME NEW u \in Threads, q'[u].pc \in {"catalog", "run", "end"}
        PROVE  1 <= q'[u].floor /\ q'[u].floor <= committed'
    BY <1>1, <1>2, <1>12, <1>13, <2>2 DEF CoverInv
  <2> QED BY <2>1, <2>2 DEF CoverInv
<1> QED BY <1>2, <1>3, <1>13, <1>21, <1>22 DEF IInv

\* A step of t between its calls that leaves no call behind.
LEMMA QuietStep ==
  ASSUME IInv, NEW t \in Threads, \A p : ~At(t, p, "read"), NEW r \in Ends \cup Asks,
         q' = [q EXCEPT ![t] = r], UNCHANGED <<cluster, workers, slot, conns>>,
         next_worker' \in Workers, queries' \in Nat,
         r.pc = "end" => /\ r.result = ConnErr => r.calm = {}
                         /\ IsErr(r.result) \/ r.tainted \/ r.result >= r.floor,
         1 <= r.floor, r.floor <= committed
  PROVE  IInv'
<1>1. ConnType /\ PoolInv /\ QueryType
  BY DEF IInv
<1>2. ConnType' /\ PoolInv' /\ conns' = conns
  BY <1>1 DEF ConnType, PoolInv
<1>3. q'[t] = r /\ \A u \in Threads : u # t => q'[u] = q[u]
  BY <1>1 DEF QueryType
<1>4. ~Running(t)'
  BY <1>3 DEF Running, Ends, Asks
<1>5. LocalConns({t} \X Parts, {})
  BY <1>2, <1>3, <1>4, AllLeft DEF Live
<1>6. \A n \in {} \cap DOMAIN conns' : ConnOk(conns[n], n)'
  OBVIOUS
<1> QED BY <1>2, <1>5, <1>6, EndStep

LEMMA StepGetFirst ==
  ASSUME IInv, NEW t \in Threads, GetFirst(t)
  PROVE  IInv'
<1>1. /\ q[t].pc \in {"idle", "end"} /\ queries' = queries + 1
      /\ UNCHANGED <<cluster, workers, slot, conns>>
  BY DEF GetFirst, Begin
<1>2. ClusterType /\ QueryType /\ PubInv
  BY DEF IInv
<1>3. /\ ~Running(t) /\ queries' \in Nat /\ committed \in 0 .. MaxVersion /\ 1 <= committed
      /\ committed <= committed /\ index \in SUBSET Parts
  BY <1>1, <1>2 DEF ClusterType, QueryType, PubInv, Running
<1>4. CASE index # {}
  <2>1. Covered(index, committed) /\ Dispatch(t, "first", committed, index) /\ "first" \in Kinds
    BY <1>2, <1>4 DEF PubInv, GetFirst, Kinds
  <2> QED BY <1>1, <1>3, <2>1, DispatchStep
<1>5. CASE index = {}
  <2>1. PICK r : r = [pc |-> "catalog", floor |-> committed]
    OBVIOUS
  <2>2. q' = [q EXCEPT ![t] = r] /\ next_worker' = next_worker
    BY <1>5, <2>1 DEF GetFirst
  <2>3. r \in Asks /\ r.pc = "catalog" /\ r.floor = committed
    BY <1>3, <2>1 DEF Asks
  <2>4. next_worker' \in Workers
    BY <1>2, <2>2 DEF QueryType
  <2>5. \A p : ~At(t, p, "read")
    BY <1>3 DEF At
  <2> QED BY <1>1, <1>3, <2>2, <2>3, <2>4, <2>5, QuietStep
<1> QED BY <1>4, <1>5

LEMMA StepGetAll ==
  ASSUME IInv, NEW t \in Threads, GetAll(t)
  PROVE  IInv'
<1>1. /\ q[t].pc \in {"idle", "end"} /\ queries' = queries + 1
      /\ UNCHANGED <<cluster, workers, slot, conns>> /\ Dispatch(t, "all", committed, catalog)
  BY DEF GetAll, Begin
<1>2. ClusterType /\ QueryType /\ PubInv
  BY DEF IInv
<1>3. /\ ~Running(t) /\ queries' \in Nat /\ committed \in 0 .. MaxVersion /\ 1 <= committed
      /\ committed <= committed /\ catalog \in SUBSET Parts /\ Covered(catalog, committed)
      /\ "all" \in Kinds
  BY <1>1, <1>2 DEF ClusterType, QueryType, PubInv, Running, Kinds
<1> QED BY <1>1, <1>3, DispatchStep

\* A query that waits for the catalog.
LEMMA AskIs ==
  ASSUME IInv, NEW t \in Threads, q[t].pc = "catalog"
  PROVE  /\ ~Running(t) /\ q[t].floor \in 0 .. MaxVersion /\ 1 <= q[t].floor
         /\ q[t].floor <= committed
<1>1. QueryType /\ CoverInv
  BY DEF IInv
<1>2. q[t] \in Asks
  BY <1>1 DEF QueryType, Runs, Idle, Ends
<1> QED BY <1>1, <1>2 DEF Asks, CoverInv, Running

\* What the catalog has for the last version, it has for an earlier one.
LEMMA StepAskCatalog ==
  ASSUME IInv, NEW t \in Threads, AskCatalog(t)
  PROVE  IInv'
<1>1. PICK f : f = q[t].floor
  OBVIOUS
<1>2. /\ q[t].pc = "catalog" /\ queries' = queries /\ Dispatch(t, "first", f, catalog)
      /\ UNCHANGED <<cluster, workers, slot, conns>>
  BY <1>1 DEF AskCatalog
<1>3. ClusterType /\ QueryType /\ PubInv
  BY DEF IInv
<1>4. ~Running(t) /\ f \in 0 .. MaxVersion /\ 1 <= f /\ f <= committed
  BY <1>1, <1>2, AskIs
<1>5. queries' \in Nat /\ catalog \in SUBSET Parts /\ "first" \in Kinds
  BY <1>2, <1>3 DEF ClusterType, QueryType, Kinds
<1>6. Covered(catalog, f)
  <2>1. PICK m \in catalog : Enough(m, catalog, committed)
    BY <1>3 DEF PubInv, Covered
  <2>2. \A r \in catalog : content[r] \in Int
    BY <1>3 DEF ClusterType
  <2>3. committed \in Int /\ f \in Int
    BY <1>3, <1>4 DEF ClusterType
  <2>4. Enough(m, catalog, f)
    BY <1>4, <2>1, <2>2, <2>3 DEF Enough
  <2> QED BY <2>4 DEF Covered
<1> QED BY <1>2, <1>4, <1>5, <1>6, DispatchStep

LEMMA StepAskFails ==
  ASSUME IInv, NEW t \in Threads, AskFails(t)
  PROVE  IInv'
<1>1. PICK r : r = Ended(t, WorkerErr, FALSE, {})
  OBVIOUS
<1>2. /\ q[t].pc = "catalog" /\ q' = [q EXCEPT ![t] = r]
      /\ UNCHANGED <<cluster, workers, slot, conns, next_worker, queries>>
  BY <1>1 DEF AskFails
<1>3. /\ ~Running(t) /\ q[t].floor \in 0 .. MaxVersion /\ 1 <= q[t].floor
      /\ q[t].floor <= committed
  BY <1>2, AskIs
<1>4. WorkerErr \in Results /\ IsErr(WorkerErr)
  BY DEF Results, IsErr
<1>5. r \in Ends /\ r.floor = q[t].floor /\ r.calm = {} /\ r.result = WorkerErr
  BY <1>1, <1>3, <1>4 DEF Ended, Ends
<1>6. next_worker' \in Workers /\ queries' \in Nat
  BY <1>2 DEF IInv, QueryType
<1>7. \A p : ~At(t, p, "read")
  BY <1>3 DEF At
<1> QED BY <1>2, <1>3, <1>4, <1>5, <1>6, <1>7, QuietStep

\* The partition that decides is not older than the one that is new enough.
LEMMA DecidedRight ==
  ASSUME IInv, NEW t \in Threads, Running(t), \A p \in DOMAIN q[t].calls : Call(t, p).at = Done
  PROVE  /\ FirstPresent(t) \in Results
         /\ ~q[t].tainted => IsErr(FirstPresent(t)) \/ FirstPresent(t) >= q[t].floor
<1> DEFINE ps == {p \in DOMAIN q[t].calls : Decides(t, p)}
<1>1. QueryType /\ CoverInv
  BY DEF IInv
<1>2. /\ DOMAIN q[t].calls \subseteq Parts /\ q[t].floor \in Nat /\ 1 <= q[t].floor
      /\ \A p \in DOMAIN q[t].calls : Call(t, p).result \in Results
  BY <1>1, RunIs, CallIs DEF CoverInv, Running
<1>3. ps \subseteq Nat /\ IsFiniteSet(ps)
  <2>1. ps \subseteq Parts
    BY <1>2
  <2> QED BY <2>1, GatewayAssumption, FS_Subset
<1>4. FirstPresent(t) =
        IF ps = {} THEN 0 ELSE Call(t, CHOOSE p \in ps : \A r \in ps : r <= p).result
  BY DEF FirstPresent
<1>5. ps # {} => \E p \in ps : (\A r \in ps : r <= p) /\ FirstPresent(t) = Call(t, p).result
  <2> HIDE DEF ps
  <2>1. SUFFICES ASSUME ps # {}
                 PROVE  \E p \in ps : (\A r \in ps : r <= p) /\ FirstPresent(t) = Call(t, p).result
    OBVIOUS
  <2>2. \E x \in ps : \A y \in ps : y <= x
    BY <1>3, <2>1, Greatest
  <2>3. PICK p : p = CHOOSE x \in ps : \A y \in ps : y <= x
    OBVIOUS
  <2>4. p \in ps /\ \A y \in ps : y <= p
    BY <2>2, <2>3
  <2> QED BY <1>4, <2>1, <2>3, <2>4
<1>6. FirstPresent(t) \in Results
  BY <1>2, <1>4, <1>5, Errors
<1>7. ASSUME ~q[t].tainted PROVE IsErr(FirstPresent(t)) \/ FirstPresent(t) >= q[t].floor
  <2>1. PICK m \in DOMAIN q[t].calls : CoveredAt(t, m)
    BY <1>1 DEF CoverInv
  <2>2. ASSUME NEW s \in DOMAIN q[t].calls, s >= m
        PROVE  Fine(Call(t, s).result, m, s, q[t].floor)
    BY <1>7, <2>1, <2>2 DEF CoveredAt, ResultOk
  <2>3. m \in Nat /\ m >= m
    <3>1. Parts \subseteq Nat
      BY GatewayAssumption
    <3>2. m \in Nat
      BY <1>2, <3>1, Zenon
    <3> QED BY <3>2
  <2>4. Call(t, m).result # 0
    BY <1>2, <2>2, <2>3 DEF Fine, IsErr, ConnErr, WorkerErr
  <2>5. m \in ps
    BY <2>4 DEF Decides
  <2>6. PICK p \in ps : (\A r \in ps : r <= p) /\ FirstPresent(t) = Call(t, p).result
    BY <1>5, <2>5
  <2>7. p \in Nat /\ p >= m /\ p \in DOMAIN q[t].calls /\ Call(t, p).result # 0
    BY <1>3, <2>3, <2>5, <2>6 DEF Decides
  <2>8. Fine(Call(t, p).result, m, p, q[t].floor)
    BY <2>2, <2>7
  <2> QED BY <2>6, <2>7, <2>8 DEF Fine
<1> QED BY <1>6, <1>7

LEMMA StepEnd ==
  ASSUME IInv, NEW t \in Threads, End(t)
  PROVE  IInv'
<1>1. PICK v : v = FirstPresent(t)
  OBVIOUS
<1>2. PICK r : r = Ended(t, v, q[t].tainted, {})
  OBVIOUS
<1>3. /\ Running(t) /\ \A p \in DOMAIN q[t].calls : Call(t, p).at = Done
      /\ q' = [q EXCEPT ![t] = r]
      /\ UNCHANGED <<cluster, workers, slot, conns, next_worker, bounds>>
  BY <1>1, <1>2 DEF End
<1>4. v \in Results /\ (~q[t].tainted => IsErr(v) \/ v >= q[t].floor)
  BY <1>1, <1>3, DecidedRight
<1>5. QueryType /\ CoverInv
  BY DEF IInv
<1>6. /\ q[t].floor \in 0 .. MaxVersion /\ 1 <= q[t].floor /\ q[t].floor <= committed
      /\ q[t].tainted \in BOOLEAN
  BY <1>3, <1>5, RunIs DEF CoverInv, Running
<1>7. r \in Ends /\ r.floor = q[t].floor /\ r.calm = {} /\ r.result = v
  BY <1>2, <1>4, <1>6 DEF Ended, Ends
<1>8. r.tainted = q[t].tainted
  BY <1>2 DEF Ended
<1>9. IsErr(r.result) \/ r.tainted \/ r.result >= r.floor
  BY <1>4, <1>7, <1>8
<1>10. next_worker' \in Workers /\ queries' \in Nat
  BY <1>3, <1>5 DEF QueryType, bounds
<1>11. \A p : ~At(t, p, "read")
  BY <1>3 DEF At, Done
<1> QED BY <1>3, <1>6, <1>7, <1>9, <1>10, <1>11, QuietStep

-----------------------------------------------------------------------------
(* The steps of the workers and of the coordinator *)

\* A call without changes, as its connection has changed nothing that it relies on.
LEMMA CallKept ==
  ASSUME QueryType, CallInv, q' = q, up' = up, DOMAIN conns' = DOMAIN conns,
         \A n \in DOMAIN conns : /\ conns'[n].worker = conns[n].worker
                                 /\ conns'[n].lock = conns[n].lock
                                 /\ conns'[n].alive = conns[n].alive
  PROVE  CallInv'
<1>1. SUFFICES ASSUME NEW t \in Threads, Running(t), NEW p \in DOMAIN q[t].calls
               PROVE  CallOk(Call(t, p), t, p, conns)'
  BY DEF CallInv, Running
<1>2. PICK c : c = Call(t, p)
  OBVIOUS
<1>3. CallOk(c, t, p, conns) /\ Call(t, p)' = c
  BY <1>1, <1>2 DEF CallInv, Call
<1>4. CallOk(c, t, p, conns)'
  BY <1>3 DEF CallOk
<1> QED BY <1>3, <1>4

\* A connection stays as it is while the queries do.
LEMMA ConnKept ==
  ASSUME ConnType, ConnInv, q' = q, NEW n \in DOMAIN conns, conns'[n] = conns[n]
  PROVE  ConnOk(conns[n], n)'
<1>1. PICK k : k = conns[n]
  OBVIOUS
<1>2. k \in Conns /\ ConnOk(k, n)
  BY <1>1, ConnIs DEF ConnInv
<1>3. k.lock # NoLock => Goes(k.lock[1], k.lock[2])
  BY <1>2 DEF ConnOk, Locked, At, Goes, Live, Running, Call
<1>4. ConnOk(k, n)'
  BY <1>2, <1>3, ConnStill
<1> QED BY <1>1, <1>4

\* What a worker answers that has the partition open as it is.
LEMMA FreshAnswer ==
  ASSUME ClusterType, NEW m, NEW ps, NEW f, Enough(m, ps, f), m \in Nat, NEW r \in ps, r \in Nat,
         r >= m
  PROVE  Fine(content[r], m, r, f)
BY DEF Enough, Fine

\* The answer is to the request that was first, and it is the partition's version unless the
\* worker had the partition open before.
LEMMA StepServe ==
  ASSUME IInv, NEW n \in DOMAIN conns, Serve(n)
  PROVE  IInv'
<1>1. PICK w, x, p : w = conns[n].worker /\ x = Head(conns[n].reqs) /\ p = x.part
  OBVIOUS
<1>2. PICK o : o = IF handle[w][p] # None THEN handle[w][p]
                   ELSE IF linked[w] /\ p \in catalog THEN content[p] ELSE None
  OBVIOUS
<1>3. PICK a : a = [part |-> p, kind |-> x.kind, no |-> x.no,
                    result |-> IF o = None THEN WorkerErr ELSE o, stale |-> o # content[p]]
  OBVIOUS
<1>4. /\ conns[n].alive /\ conns[n].reqs # <<>> /\ handle' = [handle EXCEPT ![w][p] = o]
      /\ conns' = [conns EXCEPT ![n].reqs = Tail(@), ![n].resps = Append(@, a)]
      /\ UNCHANGED <<cluster, up, linked, slot, next_worker, q, bounds>>
  BY <1>1, <1>2, <1>3 DEF Serve
<1>5. /\ ClusterType /\ WorkerType /\ ConnType /\ QueryType /\ PubInv /\ PoolInv /\ CallInv
      /\ EndInv /\ ConnInv /\ CoverInv /\ ReadsCommitted
  BY DEF IInv
<1>6. /\ w \in Workers /\ conns[n] \in Conns /\ conns[n].reqs \in Seq(Requests)
      /\ conns[n].resps \in Seq(Answers) /\ ConnOk(conns[n], n)
      /\ conns[n].lock \in {NoLock} \cup (Threads \X Parts)
  BY <1>1, <1>5, ConnIs DEF ConnInv
<1>7. /\ x \in Requests /\ x \in Items(conns[n].reqs) /\ Tail(conns[n].reqs) \in Seq(Requests)
      /\ Items(Tail(conns[n].reqs)) \subseteq Items(conns[n].reqs)
      /\ Len(conns[n].reqs) \in Nat /\ Len(Tail(conns[n].reqs)) = Len(conns[n].reqs) - 1
  BY <1>1, <1>4, <1>6, HeadTail
<1>8. /\ x.part \in Parts /\ x.kind \in Kinds /\ x.no \in Nat /\ p \in Parts
      /\ content[p] \in 0 .. MaxVersion
  BY <1>1, <1>5, <1>7 DEF Requests, ClusterType
<1>9. o \in {None} \cup 0 .. MaxVersion
  BY <1>2, <1>5, <1>6, <1>8 DEF WorkerType
<1>10. a \in Answers /\ a.part = x.part /\ a.kind = x.kind /\ a.no = x.no
  <2>1. (IF o = None THEN WorkerErr ELSE o) \in {WorkerErr} \cup 0 .. MaxVersion
    BY <1>9
  <2> QED BY <1>1, <1>3, <1>8, <2>1 DEF Answers
<1>11. ~a.stale => a.result = content[p]
  <2>1. a.stale <=> o # content[p]
    BY <1>3, Zenon
  <2>2. a.result = IF o = None THEN WorkerErr ELSE o
    BY <1>3
  <2>3. content[p] # None
    BY <1>8 DEF None
  <2> QED BY <2>1, <2>2, <2>3
<1>12. /\ Append(conns[n].resps, a) \in Seq(Answers) /\ Len(conns[n].resps) \in Nat
       /\ Items(Append(conns[n].resps, a)) = Items(conns[n].resps) \cup {a}
       /\ Len(Append(conns[n].resps, a)) = Len(conns[n].resps) + 1
  BY <1>6, <1>10, AppendItems
<1>13. PICK k : k = [conns[n] EXCEPT !.reqs = Tail(@), !.resps = Append(@, a)]
  OBVIOUS
<1>14. /\ k \in Conns /\ k.worker = conns[n].worker /\ k.lock = conns[n].lock
       /\ k.reqs = Tail(conns[n].reqs) /\ k.resps = Append(conns[n].resps, a)
  BY <1>6, <1>7, <1>12, <1>13 DEF Conns
<1>15. k.alive = conns[n].alive /\ k.dirty = conns[n].dirty
  BY <1>6, <1>13 DEF Conns
<1>16. /\ DOMAIN conns' = DOMAIN conns /\ conns'[n] = k
       /\ \A m \in DOMAIN conns : m # n => conns'[m] = conns[m]
  <2>1. conns' = [conns EXCEPT ![n] = k]
    BY <1>4, <1>5, <1>6, <1>13 DEF Conns, ConnType
  <2>2. /\ conns' = [conns EXCEPT ![n] = k] /\ DOMAIN conns' = DOMAIN conns /\ conns'[n] = k
        /\ \A m \in DOMAIN conns : m # n => conns'[m] = conns[m]
    BY <1>5, <2>1 DEF ConnType
  <2> QED BY <2>2
<1>17. /\ content' = content /\ committed' = committed /\ up' = up /\ slot' = slot /\ q' = q
       /\ next_worker' = next_worker /\ queries' = queries /\ linked' = linked /\ UNCHANGED cluster
  BY <1>4 DEF cluster, bounds
<1>18. ClusterType' /\ PubInv'
  BY <1>5, <1>17, SameCluster
<1>19. WorkerType'
  <2>1. handle' \in [Workers -> [Parts -> {None} \cup 0 .. MaxVersion]]
    BY <1>4, <1>5, <1>6, <1>8, <1>9 DEF WorkerType
  <2> QED BY <1>5, <1>17, <2>1 DEF WorkerType
<1>20. ConnType'
  <2>1. conns' \in [DOMAIN conns' -> Conns]
    <3>1. conns' = [conns EXCEPT ![n] = k]
      BY <1>4, <1>5, <1>6, <1>13 DEF Conns, ConnType
    <3> QED BY <1>5, <1>14, <3>1 DEF ConnType
  <2> QED BY <1>5, <1>16, <1>17, <2>1 DEF ConnType
<1>21. PoolInv'
  BY <1>5, <1>14, <1>16, <1>17 DEF PoolInv, ConnType
<1>22. QueryType' /\ EndInv' /\ ReadsCommitted'
  BY <1>5, <1>17 DEF QueryType, EndInv, ReadsCommitted
<1>23. CallInv'
  <2>1. \A m \in DOMAIN conns : conns'[m].worker = conns[m].worker /\ conns'[m].lock = conns[m].lock
    BY <1>14, <1>16
  <2>2. \A m \in DOMAIN conns : conns'[m].alive = conns[m].alive
    BY <1>15, <1>16
  <2> QED BY <1>5, <1>16, <1>17, <2>1, <2>2, CallKept
<1>24. ConnOk(k, n)'
  <2>1. Locked(k, n)'
    BY <1>6, <1>14, <1>17 DEF ConnOk, Locked, At, Running, Call
  <2>2. CASE k.dirty
    BY <1>4, <1>15, <2>1, <2>2 DEF ConnOk, Pure
  <2>3. CASE ~k.dirty
    <3>1. /\ Len(conns[n].reqs) + Len(conns[n].resps) <= 1 /\ conns[n].lock # NoLock
          /\ \A y \in Items(conns[n].reqs) \cup Items(conns[n].resps) : OfCall(y, conns[n].lock)
      BY <1>4, <1>6, <1>15, <2>3 DEF ConnOk, Pure
    <3>2. Len(k.reqs) + Len(k.resps) <= 1
      <4>1. PICK i \in Nat, j \in Nat : i = Len(conns[n].reqs) /\ j = Len(conns[n].resps)
        BY <1>7, <1>12
      <4>2. i + j <= 1
        BY <3>1, <4>1, Zenon
      <4>3. Len(k.reqs) = i - 1 /\ Len(k.resps) = j + 1
        BY <1>7, <1>12, <1>14, <4>1, Zenon
      <4>4. (i - 1) + (j + 1) <= 1
        BY <4>2
      <4> QED BY <4>3, <4>4, Zenon
    <3>3. PICK l : l = conns[n].lock
      OBVIOUS
    <3>4. OfCall(a, l)
      BY <1>7, <1>10, <3>1, <3>3 DEF OfCall
    <3>5. \A y \in Items(k.reqs) \cup Items(k.resps) : OfCall(y, l)
      BY <1>7, <1>12, <1>14, <3>1, <3>3, <3>4
    <3>6. \A y \in Items(k.reqs) \cup Items(k.resps) : OfCall(y, l)'
      BY <1>17, <3>5 DEF OfCall
    <3>7. k.lock = l /\ k.lock # NoLock
      BY <1>14, <3>1, <3>3
    <3>8. Pure(k)'
      BY <3>2, <3>6, <3>7, Zenon DEF Pure
    <3> QED BY <1>4, <1>15, <2>1, <3>8 DEF ConnOk
  <2> QED BY <2>2, <2>3
<1>25. ConnInv'
  <2>1. ASSUME NEW m \in DOMAIN conns' PROVE ConnOk(conns[m], m)'
    <3>1. CASE m = n
      BY <1>16, <1>24, <3>1
    <3>2. CASE m # n
      BY <1>5, <1>16, <1>17, <3>2, ConnKept
    <3> QED BY <3>1, <3>2
  <2> QED BY <2>1 DEF ConnInv
<1>26. ASSUME NEW t \in Threads, Running(t), NEW m \in DOMAIN q[t].calls, CoveredAt(t, m)
       PROVE  CoveredAt(t, m)'
  <2>1. /\ DOMAIN q[t].calls \subseteq Parts /\ q[t].floor \in Nat
        /\ \A r \in DOMAIN q[t].calls : Call(t, r) \in Calls /\ CallOk(Call(t, r), t, r, conns)
    BY <1>5, <1>26, RunIs DEF CallInv
  <2>2. Enough(m, DOMAIN q[t].calls, q[t].floor) /\ Enough(m, DOMAIN q[t].calls, q[t].floor)'
    BY <1>17, <1>26 DEF CoveredAt, Enough
  <2>3. ASSUME NEW r \in DOMAIN q[t].calls, r >= m PROVE ResultOk(t, m, r)' /\ AnswerOk(t, m, r)'
    <3>1. ResultOk(t, m, r) /\ AnswerOk(t, m, r)
      BY <1>26, <2>3 DEF CoveredAt
    <3>2. ResultOk(t, m, r)'
      BY <1>17, <3>1 DEF ResultOk, Call
    <3>3. PICK j : j = Call(t, r).at.conn
      OBVIOUS
    <3>4. SUFFICES ASSUME Call(t, r).at.pc = "read", ~conns'[j].dirty,
                          NEW b \in Items(conns'[j].resps)
                   PROVE  b.stale \/ Fine(b.result, m, r, q[t].floor)
      BY <1>17, <3>2, <3>3 DEF AnswerOk, Call
    <3>5. j \in DOMAIN conns /\ conns[j].lock = <<t, r>>
      <4>1. Call(t, r).at # Done
        BY <2>1, <3>4, CallIs
      <4> QED BY <2>1, <3>3, <3>4, <4>1 DEF CallOk
    <3>6. CASE j # n
      <4>1. conns'[j] = conns[j]
        BY <1>16, <3>5, <3>6
      <4> QED BY <3>1, <3>3, <3>4, <4>1 DEF AnswerOk
    <3>7. CASE j = n
      <4>1. ~conns[n].dirty /\ b \in Items(conns[n].resps) \cup {a}
        BY <1>12, <1>14, <1>15, <1>16, <3>4, <3>7
      <4>2. CASE b \in Items(conns[n].resps)
        BY <3>1, <3>3, <3>4, <3>7, <4>1, <4>2 DEF AnswerOk
      <4>3. CASE b = a
        <5>1. conns[n].lock # NoLock /\ conns[n].lock[2] = r
          BY <3>5, <3>7, LockIs
        <5>2. OfCall(x, conns[n].lock)
          BY <1>6, <1>7, <4>1, <5>1 DEF ConnOk, Pure
        <5>3. p = r
          BY <1>1, <5>1, <5>2 DEF OfCall
        <5>4. m \in Nat /\ r \in Nat
          <6>1. Parts \subseteq Nat
            BY GatewayAssumption
          <6> QED BY <2>1, <6>1, Zenon
        <5>5. Fine(content[r], m, r, q[t].floor)
          BY <1>5, <2>2, <2>3, <5>4, FreshAnswer
        <5> QED BY <1>11, <4>3, <5>3, <5>5
      <4> QED BY <4>1, <4>2, <4>3
    <3> QED BY <3>6, <3>7
  <2> QED BY <1>17, <2>2, <2>3 DEF CoveredAt
<1>27. CoverInv'
  <2>1. ASSUME NEW t \in Threads, Running(t)' PROVE \E m \in DOMAIN (q'[t].calls) : CoveredAt(t, m)'
    <3>1. Running(t)
      BY <1>17, <2>1 DEF Running
    <3>2. PICK m \in DOMAIN q[t].calls : CoveredAt(t, m)
      BY <1>5, <3>1 DEF CoverInv
    <3> QED BY <1>17, <1>26, <3>1, <3>2
  <2>2. \A t \in Threads : q'[t].pc \in {"catalog", "run", "end"} =>
          1 <= q'[t].floor /\ q'[t].floor <= committed'
    BY <1>5, <1>17 DEF CoverInv
  <2> QED BY <2>1, <2>2 DEF CoverInv
<1> QED BY <1>18, <1>19, <1>20, <1>21, <1>22, <1>23, <1>25, <1>27 DEF IInv

\* The call d is c without the worker w among those that were there throughout.
Without(d, c, w) ==
  /\ d \in Calls /\ d.at = c.at /\ d.tried = c.tried /\ d.result = c.result
  /\ d.calm = c.calm \ {w} /\ (d.retried <=> c.retried) /\ (d.own <=> c.own)

\* The query r is s with such calls.
WithoutIn(r, s, w) ==
  /\ r \in Runs /\ r.floor = s.floor /\ r.no = s.no /\ r.kind = s.kind /\ (r.tainted <=> s.tainted)
  /\ DOMAIN r.calls = DOMAIN s.calls
  /\ \A p \in DOMAIN s.calls : Without(r.calls[p], s.calls[p], w)

LEMMA WithoutIs ==
  ASSUME NEW c \in Calls, NEW w
  PROVE  Without([c EXCEPT !.calm = @ \ {w}], c, w)
<1>1. PICK d : d = [c EXCEPT !.calm = @ \ {w}]
  OBVIOUS
<1>2. c.calm \ {w} \subseteq Workers
  BY CallIs
<1>3. /\ d \in Calls /\ d.at = c.at /\ d.tried = c.tried /\ d.result = c.result
      /\ d.calm = c.calm \ {w}
  BY <1>1, <1>2 DEF Calls
<1>4. (d.retried <=> c.retried) /\ (d.own <=> c.own)
  BY <1>1 DEF Calls
<1> QED BY <1>1, <1>3, <1>4 DEF Without

LEMMA DisturbedIs ==
  ASSUME QueryType, NEW w, q' = Disturbed(w)
  PROVE  /\ q' \in [Threads -> {Idle} \cup Runs \cup Ends \cup Asks]
         /\ \A t \in Threads : IF Running(t) THEN WithoutIn(q'[t], q[t], w) ELSE q'[t] = q[t]
<1>1. ASSUME NEW t \in Threads, Running(t) PROVE WithoutIn(q'[t], q[t], w)
  <2>1. PICK cs : cs = [p \in DOMAIN q[t].calls |-> [Call(t, p) EXCEPT !.calm = @ \ {w}]]
    OBVIOUS
  <2>2. /\ q[t] \in Runs /\ DOMAIN q[t].calls \in SUBSET Parts
        /\ \A p \in DOMAIN q[t].calls : Call(t, p) \in Calls
    BY <1>1, RunIs
  <2>3. DOMAIN cs = DOMAIN q[t].calls
        /\ \A p \in DOMAIN q[t].calls : Without(cs[p], Call(t, p), w)
    BY <2>1, <2>2, WithoutIs
  <2>4. cs \in [DOMAIN q[t].calls -> Calls]
    BY <2>1, <2>3 DEF Without
  <2>5. cs \in UNION {[ps -> Calls] : ps \in SUBSET Parts}
    BY <2>2, <2>4
  <2>6. PICK r : r = [q[t] EXCEPT !.calls = cs]
    OBVIOUS
  <2>7. q'[t] = r
    <3>1. q'[t] = [q[t] EXCEPT !.calls =
                     [p \in DOMAIN q[t].calls |-> [Call(t, p) EXCEPT !.calm = @ \ {w}]]]
      BY <1>1, Zenon DEF Disturbed
    <3> QED BY <2>1, <2>6, <3>1, Zenon
  <2>8. r \in Runs
    BY <2>2, <2>5, <2>6 DEF Runs
  <2>9. r.floor = q[t].floor /\ r.no = q[t].no /\ r.kind = q[t].kind /\ r.calls = cs
    BY <2>2, <2>6 DEF Runs
  <2>10. r.tainted <=> q[t].tainted
    BY <2>2, <2>6 DEF Runs
  <2> QED BY <2>3, <2>7, <2>8, <2>9, <2>10 DEF WithoutIn, Call
<1>2. \A t \in Threads : ~Running(t) => q'[t] = q[t]
  BY DEF Disturbed
<1>3. \A t \in Threads : q'[t] \in {Idle} \cup Runs \cup Ends \cup Asks
  BY <1>1, <1>2 DEF QueryType, WithoutIn
<1>4. q' = [t \in Threads |-> q'[t]]
  BY DEF Disturbed
<1> QED BY <1>1, <1>2, <1>3, <1>4

\* Connections S of the worker w are lost, and with them what was asked and not answered.
LEMMA CutStep ==
  ASSUME IInv, NEW w \in Workers, NEW S \in SUBSET DOMAIN conns,
         \A n \in S : conns[n].worker = w, conns' = Cut(S), q' = Disturbed(w),
         UNCHANGED <<cluster, slot, next_worker, queries>>, WorkerType',
         \A x \in Workers : x # w => up'[x] = up[x]
  PROVE  IInv'
<1>1. /\ ClusterType /\ WorkerType /\ ConnType /\ QueryType /\ PubInv /\ PoolInv /\ CallInv
      /\ EndInv /\ ConnInv /\ CoverInv /\ ReadsCommitted
  BY DEF IInv
<1>2. /\ ClusterType' /\ PubInv' /\ content' = content /\ committed' = committed /\ slot' = slot
      /\ next_worker' = next_worker /\ queries' = queries
  BY <1>1, SameCluster DEF cluster
<1>3. /\ q' \in [Threads -> {Idle} \cup Runs \cup Ends \cup Asks]
      /\ \A t \in Threads : IF Running(t) THEN WithoutIn(q'[t], q[t], w) ELSE q'[t] = q[t]
  BY <1>1, DisturbedIs
<1>4. ASSUME NEW t \in Threads PROVE Running(t)' <=> Running(t)
  BY <1>3 DEF Running, WithoutIn, Runs
<1>5. ASSUME NEW t \in Threads, ~Running(t) PROVE q'[t] = q[t]
  BY <1>3, <1>5
<1>6. ASSUME NEW t \in Threads, Running(t)
      PROVE  /\ q'[t].floor = q[t].floor /\ q'[t].no = q[t].no /\ q'[t].kind = q[t].kind
             /\ q'[t].tainted <=> q[t].tainted
             /\ DOMAIN (q'[t].calls) = DOMAIN q[t].calls
             /\ \A p \in DOMAIN q[t].calls : Without(Call(t, p)', Call(t, p), w)
  BY <1>3, <1>6 DEF WithoutIn, Call
<1>7. QueryType'
  BY <1>1, <1>2, <1>3 DEF QueryType
<1>8. EndInv' /\ ReadsCommitted'
  <2>1. ASSUME NEW t \in Threads, q'[t].pc = "end" PROVE q'[t] = q[t]
    BY <1>4, <1>5, <2>1 DEF Running
  <2>2. EndInv'
    BY <1>1, <2>1 DEF EndInv
  <2>3. ReadsCommitted'
    BY <1>1, <2>1 DEF ReadsCommitted, IsErr
  <2> QED BY <2>2, <2>3
<1>9. DOMAIN conns' = DOMAIN conns
  BY DEF Cut
<1>10. ASSUME NEW n \in DOMAIN conns
       PROVE  /\ conns'[n] \in Conns /\ conns'[n].worker = conns[n].worker
              /\ conns'[n].lock = conns[n].lock /\ conns'[n].resps = conns[n].resps
              /\ conns'[n].dirty <=> conns[n].dirty
              /\ conns'[n].reqs = IF n \in S THEN <<>> ELSE conns[n].reqs
              /\ conns'[n].alive <=> conns[n].alive /\ n \notin S
  <2>1. conns[n] \in Conns
    BY <1>1, ConnIs
  <2>2. CASE n \in S
    <3>1. PICK k : k = [conns[n] EXCEPT !.alive = FALSE, !.reqs = <<>>]
      OBVIOUS
    <3>2. conns'[n] = k
      BY <2>2, <3>1 DEF Cut
    <3>3. /\ k \in Conns /\ k.worker = conns[n].worker /\ k.lock = conns[n].lock
          /\ k.resps = conns[n].resps /\ k.reqs = <<>>
      <4>1. PICK e \in Seq(Requests) : e = <<>>
        BY EmptyItems, Zenon
      <4>2. k = [conns[n] EXCEPT !.alive = FALSE, !.reqs = e]
        BY <3>1, <4>1, Zenon
      <4>3. /\ k \in Conns /\ k.worker = conns[n].worker /\ k.lock = conns[n].lock
            /\ k.resps = conns[n].resps /\ k.reqs = e
        BY <2>1, <4>2 DEF Conns
      <4> QED BY <4>1, <4>3, Zenon
    <3>4. (k.dirty <=> conns[n].dirty) /\ ~k.alive
      BY <2>1, <3>1 DEF Conns
    <3> QED BY <2>2, <3>2, <3>3, <3>4
  <2>3. CASE n \notin S
    <3>1. conns'[n] = conns[n]
      BY <2>3 DEF Cut
    <3> QED BY <2>1, <2>3, <3>1, Zenon
  <2> QED BY <2>2, <2>3
<1>11. ConnType' /\ PoolInv'
  <2>1. conns' = [n \in DOMAIN conns' |-> conns'[n]]
    BY DEF Cut
  <2>2. conns' \in [DOMAIN conns' -> Conns]
    BY <1>9, <1>10, <2>1
  <2> QED BY <1>1, <1>2, <1>9, <1>10, <2>2 DEF ConnType, PoolInv
<1>12. CallInv'
  <2>1. SUFFICES ASSUME NEW t \in Threads, Running(t), NEW p \in DOMAIN q[t].calls
                 PROVE  CallOk(Call(t, p), t, p, conns)'
    BY <1>4, <1>6 DEF CallInv
  <2>2. PICK c, d : c = Call(t, p) /\ d = Call(t, p)'
    OBVIOUS
  <2>3. Without(d, c, w) /\ c \in Calls /\ CallOk(c, t, p, conns)
    BY <1>1, <1>6, <2>1, <2>2, RunIs DEF CallInv
  <2>4. /\ \A x \in d.calm : x \in c.calm /\ x # w /\ x \in Workers
        /\ d.at = c.at /\ d.tried = c.tried /\ d.result = c.result
    BY <2>3, CallIs DEF Without
  <2>5. \A x \in d.calm : up'[x]
    BY <2>3, <2>4 DEF CallOk
  <2>6. d.at = Done => d.own /\ (d.result = ConnErr => d.calm = {})
    BY <2>3, <2>4 DEF CallOk, Without
  <2>7. PICK n : n = c.at.conn
    OBVIOUS
  <2>8. d.at # Done /\ n # 0 =>
          /\ n \in DOMAIN conns' /\ conns'[n].worker = d.at.idx
          /\ d.at.pc = "read" => conns'[n].lock = <<t, p>>
    BY <1>9, <1>10, <2>3, <2>4, <2>7 DEF CallOk
  <2>9. d.at # Done /\ n # 0 /\ d.retried /\ d.at.idx \in d.calm => conns'[n].alive
    BY <1>9, <1>10, <2>3, <2>4, <2>7 DEF CallOk, Without
  <2>10. d.at # Done => /\ d.result = 0 /\ \A x \in d.calm : ~Passed(x, d.at.idx, d.tried)
                        /\ d.at.pc = "connect" <=> d.at.conn = 0
    BY <2>3, <2>4 DEF CallOk
  <2>11. CallOk(d, t, p, conns)'
    BY <2>4, <2>5, <2>6, <2>7, <2>8, <2>9, <2>10 DEF CallOk
  <2> QED BY <2>2, <2>11
<1>13. ConnInv'
  <2>1. SUFFICES ASSUME NEW n \in DOMAIN conns PROVE ConnOk(conns[n], n)'
    BY <1>9 DEF ConnInv
  <2>2. PICK k, j : k = conns'[n] /\ j = conns[n]
    OBVIOUS
  <2>3. /\ j \in Conns /\ ConnOk(j, n) /\ j.lock \in {NoLock} \cup (Threads \X Parts)
        /\ j.reqs \in Seq(Requests) /\ j.resps \in Seq(Answers)
    BY <1>1, <2>2, ConnIs DEF ConnInv
  <2>4. /\ k.lock = j.lock /\ k.resps = j.resps /\ k.reqs \in {<<>>, j.reqs}
        /\ k.dirty <=> j.dirty
        /\ ~k.alive => k.reqs = <<>>
    BY <1>10, <2>2, <2>3 DEF ConnOk
  <2>5. PICK l : l = j.lock
    OBVIOUS
  <2>6. l # NoLock => /\ l[1] \in Threads /\ Running(l[1]) /\ l[2] \in DOMAIN q[l[1]].calls
                      /\ Call(l[1], l[2]).at.pc = "read" /\ Call(l[1], l[2]).at.conn = n
    BY <2>3, <2>5, LockOf DEF ConnOk, Locked, At
  <2>7. Locked(k, n)'
    <3>1. SUFFICES ASSUME l # NoLock PROVE At(l[1], l[2], "read")' /\ Call(l[1], l[2])'.at.conn = n
      BY <2>4, <2>5 DEF Locked
    <3>2. Call(l[1], l[2])'.at = Call(l[1], l[2]).at
      BY <1>6, <2>6, <3>1 DEF Without
    <3> QED BY <1>4, <1>6, <2>6, <3>1, <3>2 DEF At
  <2>8. Pure(k)'
    <3>1. CASE j.dirty
      BY <2>4, <3>1 DEF Pure
    <3>2. CASE ~j.dirty
      <4>1. /\ Len(j.reqs) + Len(j.resps) <= 1
            /\ l = NoLock => j.reqs = <<>> /\ j.resps = <<>>
            /\ l # NoLock => \A x \in Items(j.reqs) \cup Items(j.resps) : OfCall(x, l)
        BY <2>3, <2>5, <3>2 DEF ConnOk, Pure
      <4>2. Len(k.reqs) + Len(k.resps) <= 1 /\ Items(k.reqs) \subseteq Items(j.reqs)
        <5>1. CASE k.reqs = j.reqs
          BY <2>4, <4>1, <5>1
        <5>2. CASE k.reqs = <<>>
          <6>1. Len(k.reqs) = 0 /\ Items(k.reqs) = {}
            BY <5>2, EmptyItems
          <6>2. Len(j.reqs) \in Nat /\ Len(j.resps) \in Nat
            BY <2>3, LenProperties
          <6>3. PICK a \in Nat, b \in Nat : a = Len(j.reqs) /\ b = Len(j.resps)
            BY <6>2
          <6>4. a + b <= 1
            BY <4>1, <6>3, Zenon
          <6>5. 0 + b <= 1
            BY <6>4
          <6> QED BY <2>4, <6>1, <6>3, <6>5, Zenon
        <5> QED BY <2>4, <5>1, <5>2
      <4>3. l = NoLock => k.reqs = <<>> /\ k.resps = <<>>
        BY <2>4, <4>1
      <4>4. l # NoLock => \A x \in Items(k.reqs) \cup Items(k.resps) : OfCall(x, l)'
        <5>1. SUFFICES ASSUME l # NoLock, NEW x \in Items(k.reqs) \cup Items(k.resps)
                       PROVE  OfCall(x, l)'
          OBVIOUS
        <5>2. OfCall(x, l)
          BY <2>4, <4>1, <4>2, <5>1
        <5>3. q'[l[1]].no = q[l[1]].no /\ q'[l[1]].kind = q[l[1]].kind
          BY <1>6, <2>6, <5>1
        <5> QED BY <5>2, <5>3 DEF OfCall
      <4>5. k.lock = l
        BY <2>4, <2>5
      <4> QED BY <4>2, <4>3, <4>4, <4>5, Zenon DEF Pure
    <3> QED BY <3>1, <3>2
  <2>9. ConnOk(k, n)'
    BY <2>4, <2>7, <2>8 DEF ConnOk
  <2> QED BY <2>2, <2>9
<1>14. CoverInv'
  <2>1. ASSUME NEW t \in Threads, Running(t)' PROVE \E m \in DOMAIN (q'[t].calls) : CoveredAt(t, m)'
    <3>1. Running(t)
      BY <1>4, <2>1
    <3>2. PICK m \in DOMAIN q[t].calls : CoveredAt(t, m)
      BY <1>1, <3>1 DEF CoverInv
    <3>3. Enough(m, DOMAIN q[t].calls, q[t].floor)'
      BY <1>2, <1>6, <3>1, <3>2 DEF CoveredAt, Enough
    <3>4. ASSUME NEW r \in DOMAIN q[t].calls, r >= m PROVE ResultOk(t, m, r)' /\ AnswerOk(t, m, r)'
      <4>1. ResultOk(t, m, r) /\ AnswerOk(t, m, r)
        BY <3>2, <3>4 DEF CoveredAt
      <4>2. Call(t, r)'.at = Call(t, r).at /\ Call(t, r)'.result = Call(t, r).result
        BY <1>6, <3>1 DEF Without
      <4>3. ResultOk(t, m, r)'
        BY <1>6, <3>1, <4>1, <4>2 DEF ResultOk
      <4>4. PICK n : n = Call(t, r).at.conn
        OBVIOUS
      <4>5. Call(t, r).at.pc = "read" => n \in DOMAIN conns
        <5>1. Call(t, r) \in Calls /\ CallOk(Call(t, r), t, r, conns)
          BY <1>1, <3>1, RunIs DEF CallInv
        <5> QED BY <4>4, <5>1, CallIs DEF CallOk
      <4>6. AnswerOk(t, m, r)'
        <5>1. SUFFICES ASSUME Call(t, r).at.pc = "read", ~conns'[n].dirty
                       PROVE  \A a \in Items(conns'[n].resps) :
                                a.stale \/ Fine(a.result, m, r, q'[t].floor)
          BY <4>2, <4>4 DEF AnswerOk
        <5>2. ~conns[n].dirty /\ conns'[n].resps = conns[n].resps
          BY <1>10, <4>5, <5>1
        <5>3. q'[t].floor = q[t].floor
          BY <1>6, <3>1
        <5> QED BY <4>1, <4>4, <5>1, <5>2, <5>3 DEF AnswerOk
      <4> QED BY <4>3, <4>6
    <3> QED BY <1>6, <3>1, <3>3, <3>4 DEF CoveredAt
  <2>2. ASSUME NEW t \in Threads, q'[t].pc \in {"catalog", "run", "end"}
        PROVE  1 <= q'[t].floor /\ q'[t].floor <= committed'
    <3>1. q[t].pc \in {"catalog", "run", "end"} /\ q'[t].floor = q[t].floor
      BY <1>4, <1>5, <1>6, <2>2 DEF Running
    <3> QED BY <1>1, <1>2, <3>1 DEF CoverInv
  <2> QED BY <2>1, <2>2 DEF CoverInv
<1> QED BY <1>2, <1>7, <1>8, <1>11, <1>12, <1>13, <1>14 DEF IInv

LEMMA StepWorkerStops ==
  ASSUME IInv, NEW w \in Workers, WorkerStops(w)
  PROVE  IInv'
<1>1. WorkerType
  BY DEF IInv
<1>2. PICK S : S = {c \in DOMAIN conns : conns[c].worker = w}
  OBVIOUS
<1>3. /\ up' = [up EXCEPT ![w] = FALSE] /\ handle' = [handle EXCEPT ![w] = [p \in Parts |-> None]]
      /\ conns' = Cut(S) /\ q' = Disturbed(w)
      /\ UNCHANGED <<cluster, linked, slot, next_worker, queries>>
  BY <1>2 DEF WorkerStops
<1>4. WorkerType' /\ \A x \in Workers : x # w => up'[x] = up[x]
  BY <1>1, <1>3 DEF WorkerType
<1>5. S \in SUBSET DOMAIN conns /\ \A n \in S : conns[n].worker = w
  BY <1>2
<1> QED BY <1>3, <1>4, <1>5, CutStep

LEMMA StepConnLost ==
  ASSUME IInv, NEW n \in DOMAIN conns, ConnLost(n)
  PROVE  IInv'
<1>1. ConnType /\ WorkerType
  BY DEF IInv
<1>2. PICK w \in Workers : w = conns[n].worker
  BY <1>1, ConnIs
<1>3. /\ conns' = Cut({n}) /\ q' = Disturbed(w)
      /\ UNCHANGED <<cluster, workers, slot, next_worker, queries>>
  BY <1>2 DEF ConnLost
<1>4. WorkerType' /\ up' = up
  BY <1>1, <1>3, SameWorkers DEF workers
<1>5. {n} \in SUBSET DOMAIN conns /\ \A m \in {n} : conns[m].worker = w
  BY <1>2
<1> QED BY <1>3, <1>4, <1>5, CutStep

\* Every partition is as it was or has a version that is newer than the committed one.
Grows == \A p \in Parts : content'[p] = content[p] \/ content'[p] >= committed

\* What is new enough stays so.
LEMMA EnoughStill ==
  ASSUME ClusterType, ClusterType', Grows, NEW f \in Nat, f <= committed,
         NEW ps \in SUBSET Parts, NEW m \in ps, Enough(m, ps, f)
  PROVE  Enough(m, ps, f)'
<1>1. committed \in Nat /\ \A r \in ps : content[r] \in Nat /\ content'[r] \in Nat
  BY DEF ClusterType
<1>2. content[m] >= f /\ \A r \in ps : r > m => content[r] = 0 \/ content[r] >= f
  BY DEF Enough
<1>3. ASSUME NEW r \in ps PROVE content'[r] = content[r] \/ content'[r] >= f
  BY <1>1 DEF Grows
<1> QED BY <1>2, <1>3 DEF Enough

\* A step outside of the gateway and its connections.
LEMMA OutsideStep ==
  ASSUME IInv, UNCHANGED <<slot, conns, next_worker, q, queries>>,
         WorkerType', \A w \in Workers : up[w] => up'[w],
         ClusterType', PubInv', Grows, committed <= committed'
  PROVE  IInv'
<1>1. /\ ClusterType /\ WorkerType /\ ConnType /\ QueryType /\ PubInv /\ PoolInv /\ CallInv
      /\ EndInv /\ ConnInv /\ CoverInv /\ ReadsCommitted
  BY DEF IInv
<1>2. slot' = slot /\ conns' = conns /\ next_worker' = next_worker /\ q' = q /\ queries' = queries
  OBVIOUS
<1>3. ConnType' /\ PoolInv' /\ QueryType' /\ EndInv' /\ ReadsCommitted'
  BY <1>1, <1>2 DEF ConnType, PoolInv, QueryType, EndInv, ReadsCommitted
<1>4. ConnInv'
  BY <1>1, <1>2, ConnKept DEF ConnInv
<1>5. CallInv'
  <2>1. SUFFICES ASSUME NEW t \in Threads, Running(t), NEW p \in DOMAIN q[t].calls
                 PROVE  CallOk(Call(t, p), t, p, conns)'
    BY <1>2 DEF CallInv, Running
  <2>2. PICK c : c = Call(t, p)
    OBVIOUS
  <2>3. CallOk(c, t, p, conns) /\ Call(t, p)' = c /\ c.calm \subseteq Workers
    BY <1>1, <1>2, <2>1, <2>2, RunIs, CallIs DEF CallInv, Call
  <2>4. CallOk(c, t, p, conns)'
    BY <1>2, <2>3 DEF CallOk
  <2> QED BY <2>3, <2>4
<1>6. CoverInv'
  <2>1. ASSUME NEW t \in Threads, Running(t) PROVE \E m \in DOMAIN q[t].calls : CoveredAt(t, m)'
    <3>1. PICK m \in DOMAIN q[t].calls : CoveredAt(t, m)
      BY <1>1, <2>1 DEF CoverInv
    <3>2. PICK ps, f : ps = DOMAIN q[t].calls /\ f = q[t].floor
      OBVIOUS
    <3>3. ps \in SUBSET Parts /\ m \in ps /\ f \in Nat /\ f <= committed
      BY <1>1, <2>1, <3>2, RunIs DEF CoverInv, Running
    <3>4. Enough(m, ps, f)
      BY <3>1, <3>2 DEF CoveredAt
    <3>5. Enough(m, ps, f)'
      BY <1>1, <3>3, <3>4, EnoughStill
    <3>6. Enough(m, DOMAIN q[t].calls, q[t].floor)'
      BY <1>2, <3>2, <3>5
    <3>7. \A r \in DOMAIN q[t].calls : r >= m => ResultOk(t, m, r)' /\ AnswerOk(t, m, r)'
      BY <1>2, <3>1 DEF CoveredAt, ResultOk, AnswerOk, Call
    <3> QED BY <1>2, <3>6, <3>7 DEF CoveredAt
  <2>2. ASSUME NEW t \in Threads, q[t].pc \in {"catalog", "run", "end"}
        PROVE  1 <= q[t].floor /\ q[t].floor <= committed'
    <3>1. 1 <= q[t].floor /\ q[t].floor <= committed
      BY <1>1, <2>2 DEF CoverInv
    <3>2. q[t] \in Runs \cup Ends \cup Asks
      BY <1>1, <2>2 DEF QueryType, Idle
    <3>3. q[t].floor \in Nat /\ committed \in Nat /\ committed' \in Nat
      BY <1>1, <3>2 DEF Runs, Ends, Asks, ClusterType
    <3> QED BY <3>1, <3>3
  <2> QED BY <1>2, <2>1, <2>2 DEF CoverInv, Running
<1> QED BY <1>3, <1>4, <1>5, <1>6 DEF IInv

LEMMA StepWorkerStarts ==
  ASSUME IInv, NEW w \in Workers, WorkerStarts(w)
  PROVE  IInv'
<1>1. ClusterType /\ WorkerType /\ PubInv
  BY DEF IInv
<1>2. /\ up' = [up EXCEPT ![w] = TRUE] /\ linked' = [linked EXCEPT ![w] = TRUE]
      /\ UNCHANGED <<cluster, handle, slot, conns, next_worker, q, bounds>>
  BY DEF WorkerStarts
<1>3. WorkerType' /\ \A x \in Workers : up[x] => up'[x]
  BY <1>1, <1>2 DEF WorkerType
<1>4. ClusterType' /\ PubInv' /\ Grows /\ committed <= committed'
  BY <1>1, <1>2, SameCluster DEF cluster, Grows, ClusterType
<1> QED BY <1>2, <1>3, <1>4, OutsideStep DEF bounds

LEMMA StepCoordinatorRestarts ==
  ASSUME IInv, CoordinatorRestarts
  PROVE  IInv'
<1>1. ClusterType /\ WorkerType /\ PubInv
  BY DEF IInv
<1>2. /\ linked' = [w \in Workers |-> FALSE]
      /\ UNCHANGED <<cluster, up, handle, slot, conns, next_worker, q, queries>>
  BY DEF CoordinatorRestarts
<1>3. WorkerType' /\ \A x \in Workers : up[x] => up'[x]
  BY <1>1, <1>2 DEF WorkerType
<1>4. ClusterType' /\ PubInv' /\ Grows /\ committed <= committed'
  BY <1>1, <1>2, SameCluster DEF cluster, Grows, ClusterType
<1> QED BY <1>2, <1>3, <1>4, OutsideStep

-----------------------------------------------------------------------------
(* The steps of the compile worker *)

\* A run of the compile worker.
LEMMA PubIs ==
  ASSUME ClusterType, PubInv, pub.pc \in {"register", "record", "commit"}
  PROVE  /\ pub \in [pc : {"register", "record", "commit"}, part : Parts] /\ pub.part \in Parts
         /\ pub # Idle /\ committed \in Nat /\ committed < MaxVersion
         /\ content[pub.part] = committed + 1
         /\ \A r \in Parts : r > pub.part => content[r] = 0
         /\ \A r \in Parts : content[r] \in Nat /\ (r # pub.part => content[r] <= committed)
         /\ pub.pc \in {"record", "commit"} => pub.part \in catalog
         /\ pub.pc = "commit" => pub.part \in index
<1>1. pub # Idle
  BY DEF Idle
<1>2. pub \in [pc : {"register", "record", "commit"}, part : Parts] /\ pub.part \in Parts
  BY <1>1 DEF ClusterType
<1> QED BY <1>1, <1>2 DEF ClusterType, PubInv

LEMMA StepPubWrite ==
  ASSUME IInv, NEW p \in Parts, PubWrite(p)
  PROVE  IInv'
<1>1. ClusterType /\ WorkerType /\ PubInv
  BY DEF IInv
<1>2. /\ pub = Idle /\ committed < MaxVersion /\ \A r \in Parts : r > p => content[r] = 0
      /\ content' = [content EXCEPT ![p] = committed + 1]
      /\ pub' = [pc |-> "register", part |-> p]
      /\ UNCHANGED <<catalog, index, committed, workers, slot, conns, next_worker, q, bounds>>
  BY DEF PubWrite
<1>3. WorkerType' /\ \A x \in Workers : up[x] => up'[x]
  BY <1>1, <1>2, SameWorkers DEF workers
<1>4. /\ committed \in Nat /\ MaxVersion \in Nat /\ \A r \in Parts : content[r] <= committed
      /\ committed >= 1 /\ committed <= committed /\ committed + 1 \in 0 .. MaxVersion
      /\ committed \in 0 .. MaxVersion
  BY <1>1, <1>2, GatewayAssumption DEF ClusterType, PubInv
<1>5. /\ content' \in [Parts -> 0 .. MaxVersion] /\ content'[p] = committed + 1
      /\ \A r \in Parts : r # p => content'[r] = content[r]
  BY <1>1, <1>2, <1>4 DEF ClusterType
<1>6. /\ pub' \in [pc : {"register", "record", "commit"}, part : Parts] /\ pub'.part = p
      /\ pub'.pc = "register"
  BY <1>2
<1>7. ClusterType'
  BY <1>1, <1>2, <1>5, <1>6 DEF ClusterType
<1>8. Grows
  BY <1>4, <1>5 DEF Grows
<1>9. ASSUME NEW ps \in SUBSET Parts, Covered(ps, committed) PROVE Covered(ps, committed)'
  <2>1. PICK f : f = committed
    OBVIOUS
  <2>2. PICK m \in ps : Enough(m, ps, f)
    BY <1>9, <2>1 DEF Covered
  <2>3. Enough(m, ps, f)'
    BY <1>1, <1>4, <1>7, <1>8, <2>1, <2>2, EnoughStill
  <2> QED BY <1>2, <2>1, <2>3 DEF Covered
<1>10. Covered(catalog, committed)' /\ (index' # {} => Covered(index, committed)')
  <2>1. PICK c, i : c = catalog /\ i = index
    OBVIOUS
  <2>2. /\ c \in SUBSET Parts /\ i \in SUBSET Parts /\ Covered(c, committed)
        /\ i # {} => Covered(i, committed)
    BY <1>1, <2>1 DEF ClusterType, PubInv
  <2>3. Covered(c, committed)' /\ (i # {} => Covered(i, committed)')
    BY <1>9, <2>2
  <2> QED BY <1>2, <2>1, <2>3
<1>11. pub' # Idle
  BY <1>6 DEF Idle
<1>12. \A r \in Parts : (r > p => content'[r] = 0) /\ (r # p => content'[r] <= committed)
  <2>1. p \in Nat
    BY GatewayAssumption
  <2>2. ~(p > p)
    BY <2>1
  <2> QED BY <1>2, <1>4, <1>5, <2>2
<1>13. PubInv'
  BY <1>2, <1>4, <1>5, <1>6, <1>10, <1>11, <1>12 DEF PubInv
<1> QED BY <1>2, <1>3, <1>4, <1>7, <1>8, <1>13, OutsideStep DEF bounds

\* The next step of the run, for the same partition.
LEMMA PubNext ==
  ASSUME ClusterType, PubInv, pub.pc \in {"register", "record", "commit"},
         NEW pc \in {"register", "record", "commit"}, pub' = [pub EXCEPT !.pc = pc]
  PROVE  /\ pub' \in [pc : {"register", "record", "commit"}, part : Parts]
         /\ pub'.part = pub.part /\ pub'.pc = pc /\ pub' # Idle
<1>1. pub \in [pc : {"register", "record", "commit"}, part : Parts]
  BY PubIs
<1>2. /\ pub' \in [pc : {"register", "record", "commit"}, part : Parts]
      /\ pub'.part = pub.part /\ pub'.pc = pc
  BY <1>1
<1> QED BY <1>2 DEF Idle

LEMMA StepPubRegister ==
  ASSUME IInv, PubRegister
  PROVE  IInv'
<1>1. ClusterType /\ WorkerType /\ PubInv
  BY DEF IInv
<1>2. /\ pub.pc = "register" /\ catalog' = catalog \cup {pub.part}
      /\ pub' = [pub EXCEPT !.pc = "record"]
      /\ UNCHANGED <<content, index, committed, workers, slot, conns, next_worker, q, bounds>>
  BY DEF PubRegister
<1>3. WorkerType' /\ \A x \in Workers : up[x] => up'[x]
  BY <1>1, <1>2, SameWorkers DEF workers
<1>4. /\ pub.part \in Parts /\ committed \in Nat /\ committed < MaxVersion
      /\ content[pub.part] = committed + 1
      /\ \A r \in Parts : r > pub.part => content[r] = 0
      /\ \A r \in Parts : content[r] \in Nat /\ (r # pub.part => content[r] <= committed)
  BY <1>1, <1>2, PubIs
<1>5. /\ pub' \in [pc : {"register", "record", "commit"}, part : Parts]
      /\ pub'.part = pub.part /\ pub'.pc = "record" /\ pub' # Idle
  BY <1>1, <1>2, PubNext
<1>6. ClusterType'
  BY <1>1, <1>2, <1>4, <1>5 DEF ClusterType
<1>7. Covered(catalog', committed)
  <2>1. PICK m \in catalog : Enough(m, catalog, committed)
    BY <1>1 DEF PubInv, Covered
  <2>2. content[pub.part] >= committed
    BY <1>4
  <2>3. Enough(m, catalog', committed)
    BY <1>2, <2>1, <2>2 DEF Enough
  <2> QED BY <1>2, <2>1, <2>3 DEF Covered
<1>8. Covered(catalog, committed)' /\ (index' # {} => Covered(index, committed)')
  BY <1>1, <1>2, <1>7 DEF PubInv, Covered, Enough
<1>9. PubInv'
  BY <1>1, <1>2, <1>4, <1>5, <1>8 DEF PubInv
<1>10. Grows /\ committed <= committed'
  BY <1>2, <1>4 DEF Grows
<1> QED BY <1>2, <1>3, <1>6, <1>9, <1>10, OutsideStep DEF bounds

\* The partition of the run is new enough, and nothing is behind it.
LEMMA NewestCovers ==
  ASSUME ClusterType, PubInv, pub.pc \in {"register", "record", "commit"},
         NEW ps \in SUBSET Parts, pub.part \in ps, NEW f \in Nat, f <= committed + 1
  PROVE  Covered(ps, f)
<1>1. content[pub.part] >= f /\ \A r \in ps : r > pub.part => content[r] = 0
  BY PubIs
<1>2. Enough(pub.part, ps, f)
  BY <1>1 DEF Enough
<1> QED BY <1>2 DEF Covered

LEMMA StepPubRecord ==
  ASSUME IInv, PubRecord
  PROVE  IInv'
<1>1. ClusterType /\ WorkerType /\ PubInv
  BY DEF IInv
<1>2. /\ pub.pc = "record" /\ index' = index \cup {pub.part}
      /\ pub' = [pub EXCEPT !.pc = "commit"]
      /\ UNCHANGED <<content, catalog, committed, workers, slot, conns, next_worker, q, bounds>>
  BY DEF PubRecord
<1>3. WorkerType' /\ \A x \in Workers : up[x] => up'[x]
  BY <1>1, <1>2, SameWorkers DEF workers
<1>4. /\ pub.part \in Parts /\ committed \in Nat /\ committed < MaxVersion
      /\ content[pub.part] = committed + 1 /\ pub.part \in catalog
      /\ \A r \in Parts : r > pub.part => content[r] = 0
      /\ \A r \in Parts : content[r] \in Nat /\ (r # pub.part => content[r] <= committed)
  BY <1>1, <1>2, PubIs
<1>5. /\ pub' \in [pc : {"register", "record", "commit"}, part : Parts]
      /\ pub'.part = pub.part /\ pub'.pc = "commit" /\ pub' # Idle
  BY <1>1, <1>2, PubNext
<1>6. ClusterType'
  BY <1>1, <1>2, <1>4, <1>5 DEF ClusterType
<1>7. Covered(index', committed)
  <2>1. PICK i : i = index'
    OBVIOUS
  <2>2. i \in SUBSET Parts /\ pub.part \in i /\ committed <= committed + 1
    BY <1>1, <1>2, <1>4, <2>1 DEF ClusterType
  <2>3. Covered(i, committed)
    BY <1>1, <1>2, <1>4, <2>2, NewestCovers
  <2> QED BY <2>1, <2>3
<1>8. Covered(catalog, committed)' /\ Covered(index, committed)'
  BY <1>1, <1>2, <1>7 DEF PubInv, Covered, Enough
<1>9. PubInv'
  BY <1>1, <1>2, <1>4, <1>5, <1>8 DEF PubInv
<1>10. Grows /\ committed <= committed'
  BY <1>2, <1>4 DEF Grows
<1> QED BY <1>2, <1>3, <1>6, <1>9, <1>10, OutsideStep DEF bounds

LEMMA StepPubCommit ==
  ASSUME IInv, PubCommit
  PROVE  IInv'
<1>1. ClusterType /\ WorkerType /\ PubInv
  BY DEF IInv
<1>2. /\ pub.pc = "commit" /\ committed' = committed + 1 /\ pub' = Idle
      /\ UNCHANGED <<content, catalog, index, workers, slot, conns, next_worker, q, bounds>>
  BY DEF PubCommit
<1>3. WorkerType' /\ \A x \in Workers : up[x] => up'[x]
  BY <1>1, <1>2, SameWorkers DEF workers
<1>4. /\ pub.part \in Parts /\ committed \in Nat /\ committed < MaxVersion
      /\ content[pub.part] = committed + 1 /\ pub.part \in catalog /\ pub.part \in index
      /\ \A r \in Parts : content[r] \in Nat /\ (r # pub.part => content[r] <= committed)
  BY <1>1, <1>2, PubIs
<1>5. committed + 1 \in 0 .. MaxVersion /\ committed <= committed + 1 /\ committed + 1 >= 1
  BY <1>4, GatewayAssumption
<1>6. ClusterType'
  BY <1>1, <1>2, <1>5 DEF ClusterType
<1>7. Covered(catalog, committed + 1) /\ Covered(index, committed + 1)
  <2>1. PICK f \in Nat : f = committed + 1
    BY <1>4
  <2>2. f <= committed + 1 /\ catalog \in SUBSET Parts /\ index \in SUBSET Parts
    BY <1>1, <1>4, <2>1 DEF ClusterType
  <2>3. Covered(catalog, f) /\ Covered(index, f)
    BY <1>1, <1>2, <1>4, <2>2, NewestCovers
  <2> QED BY <2>1, <2>3
<1>8. Covered(catalog, committed)' /\ Covered(index, committed)'
  BY <1>2, <1>7 DEF Covered, Enough
<1>9. \A r \in Parts : content'[r] <= committed'
  BY <1>2, <1>4
<1>10. PubInv'
  BY <1>2, <1>5, <1>8, <1>9 DEF PubInv
<1>11. Grows /\ committed <= committed'
  BY <1>2, <1>4, <1>5 DEF Grows
<1> QED BY <1>2, <1>3, <1>6, <1>10, <1>11, OutsideStep DEF bounds

-----------------------------------------------------------------------------
(* The theorems *)

LEMMA Initial == Init => IInv
<1>1. SUFFICES ASSUME Init PROVE IInv
  OBVIOUS
<1>2. PICK p \in Parts : /\ content = [r \in Parts |-> IF r = p THEN 1 ELSE 0]
                         /\ catalog \in {ps \in SUBSET Parts : p \in ps} /\ index \in {{}, {p}}
  BY <1>1 DEF Init
<1>3. /\ pub = Idle /\ committed = 1 /\ up = [w \in Workers |-> TRUE]
      /\ linked = [w \in Workers |-> TRUE] /\ handle = [w \in Workers |-> [r \in Parts |-> None]]
      /\ slot = [w \in Workers |-> 0] /\ conns = [c \in {} |-> 0] /\ next_worker = 0
      /\ q = [t \in Threads |-> Idle] /\ queries = 0
  BY <1>1 DEF Init
<1>4. MaxVersion \in Nat \ {0} /\ N \in Nat \ {0} /\ Parts \subseteq Nat
  BY GatewayAssumption
<1>5. ClusterType
  BY <1>2, <1>3, <1>4 DEF ClusterType
<1>6. WorkerType
  BY <1>3 DEF WorkerType
<1>7. DOMAIN conns = {} /\ conns \in [DOMAIN conns -> Conns]
  BY <1>3
<1>8. ConnType
  <2>1. IsFiniteSet({})
    BY FS_EmptySet
  <2> QED BY <1>3, <1>7, <2>1 DEF ConnType
<1>9. 0 \in Workers
  BY <1>4 DEF Workers
<1>10. QueryType
  BY <1>3, <1>9 DEF QueryType
<1>11. PubInv
  <2>1. content[p] = 1 /\ \A r \in Parts : r # p => content[r] = 0
    BY <1>2
  <2>2. p \in Nat
    BY <1>4
  <2>3. ASSUME NEW ps \in SUBSET Parts, p \in ps PROVE Covered(ps, 1)
    <3>1. Enough(p, ps, 1)
      BY <2>1, <2>2, <2>3 DEF Enough
    <3> QED BY <2>3, <3>1 DEF Covered
  <2>4. Covered(catalog, committed) /\ (index # {} => Covered(index, committed))
    BY <1>2, <1>3, <2>3
  <2>5. \A r \in Parts : content[r] <= 1
    BY <2>1
  <2> QED BY <1>3, <2>4, <2>5 DEF PubInv
<1>12. \A t \in Threads : q[t].pc = "idle"
  BY <1>3 DEF Idle
<1>13. PoolInv
  BY <1>3 DEF PoolInv
<1>14. ConnInv
  BY <1>7 DEF ConnInv
<1>15. CallInv /\ EndInv /\ CoverInv /\ ReadsCommitted
  BY <1>12 DEF CallInv, EndInv, CoverInv, ReadsCommitted, Running
<1> QED BY <1>5, <1>6, <1>8, <1>10, <1>11, <1>13, <1>14, <1>15 DEF IInv

LEMMA StepQuery ==
  ASSUME IInv, NEW t \in Threads, Query(t)
  PROVE  IInv'
<1>1. CASE GetFirst(t)
  BY <1>1, StepGetFirst
<1>2. CASE GetAll(t)
  BY <1>2, StepGetAll
<1>3. CASE AskCatalog(t)
  BY <1>3, StepAskCatalog
<1>4. CASE AskFails(t)
  BY <1>4, StepAskFails
<1>5. CASE End(t)
  BY <1>5, StepEnd
<1>6. CASE \E p \in Parts : \/ Connect(t, p) \/ ConnectFails(t, p) \/ Send(t, p)
                            \/ Receive(t, p) \/ Closed(t, p)
  <2>1. PICK p \in Parts : \/ Connect(t, p) \/ ConnectFails(t, p) \/ Send(t, p)
                           \/ Receive(t, p) \/ Closed(t, p)
    BY <1>6
  <2>2. CASE Connect(t, p)
    BY <2>2, StepConnect
  <2>3. CASE ConnectFails(t, p)
    BY <2>3, StepConnectFails
  <2>4. CASE Send(t, p)
    BY <2>4, StepSend
  <2>5. CASE Receive(t, p)
    BY <2>5, StepReceive
  <2>6. CASE Closed(t, p)
    BY <2>6, StepClosed
  <2> QED BY <2>1, <2>2, <2>3, <2>4, <2>5, <2>6
<1> QED BY <1>1, <1>2, <1>3, <1>4, <1>5, <1>6 DEF Query

LEMMA Inductive == IInv /\ [Next]_vars => IInv'
<1>1. SUFFICES ASSUME IInv, [Next]_vars PROVE IInv'
  OBVIOUS
<1>2. ASSUME NEW p \in Parts, PubWrite(p) PROVE IInv'
  BY <1>1, <1>2, StepPubWrite
<1>3. CASE PubRegister \/ PubRecord \/ PubCommit
  BY <1>1, <1>3, StepPubRegister, StepPubRecord, StepPubCommit
<1>4. ASSUME NEW t \in Threads, Query(t) PROVE IInv'
  BY <1>1, <1>4, StepQuery
<1>5. ASSUME NEW c \in DOMAIN conns, Serve(c) \/ ConnLost(c) PROVE IInv'
  BY <1>1, <1>5, StepServe, StepConnLost
<1>6. ASSUME NEW w \in Workers, WorkerStops(w) \/ WorkerStarts(w) PROVE IInv'
  BY <1>1, <1>6, StepWorkerStops, StepWorkerStarts
<1>7. CASE CoordinatorRestarts
  BY <1>1, <1>7, StepCoordinatorRestarts
<1>8. CASE UNCHANGED vars
  <2>1. UNCHANGED cluster /\ UNCHANGED workers /\ UNCHANGED <<slot, conns, next_worker, q, queries>>
    BY <1>8 DEF vars, bounds
  <2>2. ClusterType /\ WorkerType /\ PubInv
    BY <1>1 DEF IInv
  <2>3. ClusterType' /\ PubInv' /\ WorkerType'
    BY <2>1, <2>2, SameCluster, SameWorkers
  <2>4. Grows /\ committed <= committed' /\ \A x \in Workers : up[x] => up'[x]
    BY <2>1, <2>2 DEF cluster, workers, Grows, ClusterType
  <2> QED BY <1>1, <2>1, <2>3, <2>4, OutsideStep
<1> QED BY <1>1, <1>2, <1>3, <1>4, <1>5, <1>6, <1>7, <1>8 DEF Next

\* The parts of IInv hold together in every state: publishing, pooled connections, calls, answers
\* under way and what a query has gathered (DistributedLedger; QueryWorker::ledger_for).
THEOREM Invariant == Spec => []IInv
BY Initial, Inductive, PTL DEF Spec

\* Slots name open connections, the rotation names workers, handles and results are versions, and
\* the entity index never names a partition that the catalog does not have.
THEOREM TypeCorrect == Spec => []TypeOK
<1>1. IInv => TypeOK
  <2>1. SUFFICES ASSUME IInv PROVE TypeOK
    OBVIOUS
  <2>2. ClusterType /\ WorkerType /\ ConnType /\ QueryType
    BY <2>1 DEF IInv
  <2>3. ASSUME NEW t \in Threads, q[t].pc = "run", NEW p \in DOMAIN q[t].calls
        PROVE  /\ Call(t, p).result \in Results
               /\ Call(t, p).at # Done => Call(t, p).at.idx \in Workers
    <3>1. Running(t)
      BY <2>3 DEF Running
    <3>2. Call(t, p) \in Calls
      BY <2>2, <3>1, RunIs
    <3> QED BY <3>2, CallIs
  <2> QED BY <2>2, <2>3 DEF TypeOK, ClusterType, WorkerType, ConnType, QueryType
<1> QED BY <1>1, Invariant, PTL

\* Every call gets the answer to its own request, whatever the number of threads that share a
\* connection, except on connections with a dropped call (QueryWorkerClient::call).
THEOREM Own == Spec => []OwnAnswer
<1>1. IInv => OwnAnswer
  BY DEF IInv, CallInv, CallOk, OwnAnswer, Running
<1> QED BY <1>1, Invariant, PTL

\* A call fails for its connections only if no worker was there throughout: the rotation has come
\* to every worker, and a dead pooled connection is made anew before its worker is given up
\* (call_worker_failover, call_worker).
THEOREM FailsOnly == Spec => []FailsOnlyWithoutWorkers
<1>1. IInv => FailsOnlyWithoutWorkers
  <2>1. SUFFICES ASSUME IInv, NEW t \in Threads
                 PROVE  /\ q[t].pc = "run" => \A p \in DOMAIN q[t].calls :
                             Call(t, p).result = ConnErr => Call(t, p).calm = {}
                        /\ q[t].pc = "end" /\ q[t].result = ConnErr => q[t].calm = {}
    BY DEF FailsOnlyWithoutWorkers
  <2>2. ASSUME q[t].pc = "run", NEW p \in DOMAIN q[t].calls, Call(t, p).result = ConnErr
        PROVE  Call(t, p).calm = {}
    <3>1. CallOk(Call(t, p), t, p, conns)
      BY <2>1, <2>2 DEF IInv, CallInv, Running
    <3>2. Call(t, p).at = Done
      BY <2>2, <3>1 DEF CallOk, ConnErr
    <3> QED BY <2>2, <3>1, <3>2 DEF CallOk
  <2> QED BY <2>1, <2>2 DEF IInv, EndInv
<1> QED BY <1>1, Invariant, PTL

\* A query that succeeds returns at least the version that was committed when it began, unless a
\* handle was opened before the last change or a call was dropped (candidate_partitions,
\* first_present, all_objects).
THEOREM Reads == Spec => []ReadsCommitted
<1>1. IInv => ReadsCommitted
  BY DEF IInv
<1> QED BY <1>1, Invariant, PTL
=============================================================================
