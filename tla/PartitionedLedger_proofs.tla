---------------------- MODULE PartitionedLedger_proofs ----------------------
(***************************************************************************)
(* The partitioned ledger for any number of threads, items, partitions,    *)
(* operations and faults.                                                  *)
(*                                                                         *)
(* The argument: a pair <<id, key>> is only ever written down for an item  *)
(* that is in the partition (RealInv), and a pair that the map in memory   *)
(* has is in a run file too, or a thread is about to write it (KnownInv).  *)
(* What an append under way, a lookup under way and a rebuild under way    *)
(* know is said of each thread by an invariant of its own.                 *)
(***************************************************************************)
EXTENDS PartitionedLedger, WellFoundedInduction, TLAPS

Appending == {"lookup", "register", "open", "append", "insert", "record"}

IdleType == [pc : {"idle"}]
AppendType == [pc : Appending, item : Items, key : Keys, n : Nat \ {0}]
CheckType == [pc : {"check"}, id : Ids, must : SUBSET Keys, found : SUBSET Keys,
              left : SUBSET Keys, arcs : SUBSET Keys]
AnswerType == [pc : {"merge", "done"}, id : Ids, must : SUBSET Keys, found : SUBSET Keys]
RebuildType == [pc : {"rebuild"}, fresh : SUBSET (Ids \X Keys),
                left : SUBSET Keys, arcs : SUBSET Keys]
FreshType == [pc : {"collapse", "replace"}, fresh : SUBSET (Ids \X Keys)]
EvictType == [pc : {"evict"}, left : SUBSET Keys]
ThreadType == IdleType \cup AppendType \cup CheckType \cup AnswerType \cup RebuildType
                \cup FreshType \cup EvictType

\* Run files: their numbers have a greatest one.
RunsType(rs) ==
  /\ DOMAIN rs \subseteq Nat /\ \E b \in Nat : \A n \in DOMAIN rs : n <= b
  /\ \A n \in DOMAIN rs : rs[n] \subseteq Ids \X Keys

\* What TypeOK leaves out: the threads, the reader, and that run numbers are bounded.
TypeInv ==
  /\ TypeOK /\ th \in [Threads -> ThreadType]
  /\ RunsType(runs) /\ reader.reading \in BOOLEAN
  /\ reader.reading => RunsType(reader.runs)
  /\ ops \in Nat /\ faults \in Nat

\* catalog.json lags behind the catalog, by keys that could not be saved.
CatalogInv ==
  /\ DOMAIN saved \subseteq DOMAIN catalog /\ DOMAIN catalog \subseteq DOMAIN saved \cup unsaved
  /\ DataIsListed
  /\ \A k \in Keys : \A i \in parts[k] : k \in KeysOf[i]

\* No index, in memory or on disk, names a partition for an id that it does not have.
RealInv ==
  \A x \in Ids, k \in Keys :
    \/ k \in SitesOf(x) \/ <<x, k>> \in acked \/ <<x, k>> \in AllLines(runs) \cup whole
    \/ (reader.reading /\ <<x, k>> \in AllLines(reader.runs))
    => Holds(k, x)

\* The pairs of which nothing is promised.
Excused(x, k) == <<x, k>> \in exposed \/ k \in unsaved

\* A thread has put the pair into the map and is about to record it.
Pending(x, k) ==
  \E u \in Threads : /\ th[u].pc = "record" /\ th[u].key = k
                     /\ x = Entries[th[u].item][th[u].n]

\* A restart finds the pair again.
Safe(x, k) ==
  x \notin Scanned \/ Excused(x, k) \/ <<x, k>> \in AllLines(runs) \/ Pending(x, k)

\* What the map has is safe, and it has what was acknowledged. Of the id of an event or of
\* evidence it may have no entry at all, after a rebuild and a restart.
KnownInv ==
  \A x \in Ids, k \in Keys :
    /\ k \in SitesOf(x) => Safe(x, k)
    /\ <<x, k>> \in acked =>
         Excused(x, k) \/ k \in SitesOf(x) \/ (x \notin Scanned /\ x \notin DOMAIN sites)

\* An append under way: its partition is registered, has the item from "insert" on, and
\* the ids done so far are in the map; a rebuild beside it makes no promise about it.
AppendInv(t) ==
  \A i \in Items, k \in Keys :
    th[t].pc \in Appending /\ th[t].item = i /\ th[t].key = k =>
      /\ k \in KeysOf[i]
      /\ th[t].pc \in {"open", "append", "insert", "record"} => k \in DOMAIN catalog
      /\ th[t].pc \in {"insert", "record"} => i \in parts[k]
      /\ th[t].pc \notin {"insert", "record"} => th[t].n = 1
      /\ th[t].pc = "record" => th[t].n \in DOMAIN Entries[i]
      /\ \A m \in DOMAIN Entries[i], x \in Ids :
           /\ x = Entries[i][m]
           /\ (th[t].pc = "insert" /\ m < th[t].n) \/ (th[t].pc = "record" /\ m <= th[t].n)
           => Excused(x, k) \/ k \in SitesOf(x)
      /\ Rebuilding => Lines(i, k) \subseteq exposed

\* What a scan for an id has still to look at.
ToCheck(t) == IF th[t].pc = "check" THEN th[t].left ELSE {}

\* A lookup under way or done.
ReadInv(t) ==
  \A x \in Ids, k \in Keys :
    th[t].pc \in {"check", "merge", "done"} /\ th[t].id = x =>
      /\ k \in th[t].must \cup th[t].found => Holds(k, x)
      /\ k \in th[t].must => k \in th[t].found \cup ToCheck(t) \/ Excused(x, k)
      /\ th[t].pc # "done" /\ x \notin Scanned /\ <<x, k>> \in acked =>
           k \in th[t].found \cup ToCheck(t) \cup SitesOf(x) \/ Excused(x, k)
      /\ th[t].pc = "merge" /\ k \in th[t].found => Safe(x, k)

\* What a rebuild has still to look at.
ToScan(t) == IF th[t].pc = "rebuild" THEN th[t].left ELSE {}

\* A rebuild under way has all that it has passed, except what came after it.
RebuildInv(t) ==
  th[t].pc \in {"rebuild", "collapse", "replace"} =>
    \A x \in Ids, k \in Keys :
      /\ <<x, k>> \in th[t].fresh => x \in Scanned /\ Holds(k, x)
      /\ x \in Scanned /\ Holds(k, x) =>
           <<x, k>> \in th[t].fresh \/ k \in ToScan(t) \/ Excused(x, k)
      /\ th[t].pc = "replace" /\ <<x, k>> \in th[t].fresh => Safe(x, k)

ThreadInv(t) == AppendInv(t) /\ ReadInv(t) /\ RebuildInv(t)

\* The inductive invariant.
IInv ==
  /\ TypeInv /\ CatalogInv /\ RealInv /\ KnownInv
  /\ \A t \in Threads : ThreadInv(t)

-----------------------------------------------------------------------------
(* Numbers *)

\* A set of numbers that is not empty has a least one ...
LEMMA LeastNat ==
  ASSUME NEW T, T \subseteq Nat, T # {}
  PROVE  \E x \in T : \A y \in T : x <= y
<1>1. PICK x \in T : \A y \in T : ~(<<y, x>> \in OpToRel(<, Nat))
  BY NatLessThanWellFounded, WFMin, Zenon
<1>2. ASSUME NEW y \in T, y < x PROVE FALSE
  <2>1. <<y, x>> \in Nat \X Nat /\ <<y, x>>[1] = y /\ <<y, x>>[2] = x
    OBVIOUS
  <2>2. <<y, x>> \in {ss \in Nat \X Nat : ss[1] < ss[2]}
    BY <1>2, <2>1
  <2>3. <<y, x>> \in OpToRel(<, Nat)
    BY <2>2, Zenon DEF OpToRel
  <2> QED BY <1>1, <2>3, Zenon
<1> QED BY <1>2

\* ... and, if it is bounded, a greatest one.
LEMMA GreatestNat ==
  ASSUME NEW T, T \subseteq Nat, T # {}, NEW b \in Nat, \A n \in T : n <= b
  PROVE  \E x \in T : \A y \in T : y <= x
<1> DEFINE D == {b - n : n \in T}
<1>1. PICK n0 \in T : TRUE
  OBVIOUS
<1>2. D \subseteq Nat /\ b - n0 \in D
  BY <1>1
<1> HIDE DEF D
<1>3. PICK d \in D : \A y \in D : d <= y
  BY <1>2, LeastNat
<1> USE DEF D
<1>4. PICK n \in T : d = b - n
  BY <1>3
<1>5. ASSUME NEW m \in T PROVE m <= n
  <2>1. b - m \in D
    OBVIOUS
  <2>2. d <= b - m
    BY <1>3, <2>1
  <2> QED BY <1>4, <2>2
<1> QED BY <1>5

\* The partition that a scan takes next is one that is left.
LEMMA LeastIs ==
  ASSUME NEW ks \in SUBSET Keys, ks # {}
  PROVE  Least(ks) \in ks
<1>1. ks \subseteq Nat
  BY PartitionAssumption
<1>2. \E x \in ks : \A y \in ks : x <= y
  BY <1>1, LeastNat
<1> QED BY <1>2 DEF Least

-----------------------------------------------------------------------------
(* Run files *)

\* A pair is in the index on disk if some run file has it.
LEMMA InLines ==
  ASSUME NEW rs, NEW l
  PROVE  l \in AllLines(rs) <=> \E n \in DOMAIN rs : l \in rs[n]
BY DEF AllLines

\* The next run has a number, above all of the others.
LEMMA NextRunIs ==
  ASSUME NEW rs, RunsType(rs)
  PROVE  NextRun(rs) \in Nat /\ \A n \in DOMAIN rs : n < NextRun(rs)
<1>1. CASE DOMAIN rs = {}
  BY <1>1 DEF NextRun
<1>2. CASE DOMAIN rs # {}
  <2> DEFINE D == DOMAIN rs
             Top(n) == n \in D /\ \A m \in D : m <= n
  <2>1. PICK b \in Nat : \A n \in D : n <= b
    BY DEF RunsType
  <2>2. D \subseteq Nat
    BY DEF RunsType
  <2>3. \E x \in D : \A y \in D : y <= x
    BY <1>2, <2>1, <2>2, GreatestNat
  <2>4. PICK x : x = (CHOOSE n \in D : \A m \in D : m <= n) /\ x \in D /\ \A y \in D : y <= x
    BY <2>3
  <2>5. NextRun(rs) = 1 + x
    BY <1>2, <2>4 DEF NextRun
  <2> QED BY <2>2, <2>4, <2>5
<1> QED BY <1>1, <1>2

\* A merge of all runs changes no line.
LEMMA CompactedIs ==
  ASSUME NEW rs, RunsType(rs)
  PROVE  RunsType(Compacted(rs)) /\ \A l : l \in AllLines(Compacted(rs)) <=> l \in AllLines(rs)
<1> DEFINE lines == AllLines(rs)
           m == NextRun(rs)
           one == [n \in {m} |-> lines]
<1>1. CASE Compacted(rs) = rs
  BY <1>1
<1>2. CASE Compacted(rs) = one
  <2>1. m \in Nat
    BY NextRunIs
  <2>2. lines \subseteq Ids \X Keys
    BY InLines DEF RunsType
  <2> HIDE DEF lines, m
  <2>3. RunsType(one)
    BY <2>1, <2>2 DEF RunsType
  <2>4. \A l : l \in AllLines(one) <=> l \in lines
    BY InLines
  <2> QED BY <1>2, <2>3, <2>4 DEF lines
<1> QED BY <1>1, <1>2 DEF Compacted

\* A run that grows, or is there for the first time.
LEMMA PutRun ==
  ASSUME NEW rs, RunsType(rs), NEW n \in Nat, NEW ls \in SUBSET (Ids \X Keys)
  PROVE  /\ RunsType(Put(rs, n, ls))
         /\ DOMAIN Put(rs, n, ls) = DOMAIN rs \cup {n}
         /\ \A l : l \in AllLines(Put(rs, n, ls)) <=>
                     l \in ls \/ \E m \in DOMAIN rs : m # n /\ l \in rs[m]
<1> DEFINE q == Put(rs, n, ls)
<1>1. /\ DOMAIN q = DOMAIN rs \cup {n} /\ q[n] = ls
      /\ \A m \in DOMAIN rs : m # n => q[m] = rs[m]
  BY DEF Put
<1>2. PICK b \in Nat : \A m \in DOMAIN rs : m <= b
  BY DEF RunsType
<1>3. DOMAIN rs \subseteq Nat /\ \A m \in DOMAIN rs : rs[m] \subseteq Ids \X Keys
  BY DEF RunsType
<1> HIDE DEF q
<1>4. (b + n) \in Nat /\ \A m \in DOMAIN q : m <= b + n
  BY <1>1, <1>2, <1>3
<1>5. RunsType(q)
  BY <1>1, <1>3, <1>4 DEF RunsType
<1>6. \A l : l \in AllLines(q) <=> \E m \in DOMAIN q : l \in q[m]
  BY InLines
<1>7. \A l : l \in AllLines(q) <=> l \in ls \/ \E m \in DOMAIN rs : m # n /\ l \in rs[m]
  BY <1>1, <1>6
<1> QED BY <1>1, <1>5, <1>7 DEF q

\* What the next process has in its map is what is in the run files.
LEMMA LoadedIs ==
  ASSUME NEW rs, RunsType(rs), NEW x \in Ids, NEW k \in Keys
  PROVE  /\ x \in DOMAIN Loaded(rs) => \E j \in Keys : <<x, j>> \in AllLines(rs)
         /\ <<x, k>> \in AllLines(rs) <=> (x \in DOMAIN Loaded(rs) /\ k \in Loaded(rs)[x])
<1> DEFINE ls == AllLines(rs)
<1>1. ls \subseteq Ids \X Keys
  BY InLines DEF RunsType
<1>2. Loaded(rs) = [y \in {l[1] : l \in ls} |-> {l[2] : l \in {m \in ls : m[1] = y}}]
  BY DEF Loaded
<1> HIDE DEF ls
<1>3. x \in {l[1] : l \in ls} => \E j \in Keys : <<x, j>> \in ls
  BY <1>1
<1>4. k \in {l[2] : l \in {m \in ls : m[1] = x}} <=> <<x, k>> \in ls
  BY <1>1
<1>5. <<x, k>> \in ls => x \in {l[1] : l \in ls}
  OBVIOUS
<1> QED BY <1>2, <1>3, <1>4, <1>5 DEF ls

\* ... and it is of the map's type.
LEMMA LoadedType ==
  ASSUME NEW rs, RunsType(rs)
  PROVE  DOMAIN Loaded(rs) \subseteq Ids /\ \A x \in DOMAIN Loaded(rs) : Loaded(rs)[x] \subseteq Keys
<1> DEFINE ls == AllLines(rs)
<1>1. ls \subseteq Ids \X Keys
  BY InLines DEF RunsType
<1>2. Loaded(rs) = [y \in {l[1] : l \in ls} |-> {l[2] : l \in {m \in ls : m[1] = y}}]
  BY DEF Loaded
<1> HIDE DEF ls
<1> QED BY <1>1, <1>2

-----------------------------------------------------------------------------
(* Threads *)

\* What a thread does shows what it knows.
LEMMA ThreadAt ==
  ASSUME NEW r \in ThreadType
  PROVE  /\ r.pc \in Appending => r \in AppendType
         /\ r.pc = "check" => r \in CheckType
         /\ r.pc \in {"merge", "done"} => r \in AnswerType
         /\ r.pc = "rebuild" => r \in RebuildType
         /\ r.pc \in {"collapse", "replace"} => r \in FreshType
         /\ r.pc = "evict" => r \in EvictType
BY DEF ThreadType, IdleType, AppendType, CheckType, AnswerType, RebuildType, FreshType, EvictType,
       Appending

\* The kinds of records.
LEMMA AppendFields ==
  ASSUME NEW r \in AppendType
  PROVE  r.pc \in Appending /\ r.item \in Items /\ r.key \in Keys /\ r.n \in Nat \ {0}
BY DEF AppendType

\* ... of a scan ...
LEMMA CheckFields ==
  ASSUME NEW r \in CheckType
  PROVE  /\ r.pc = "check" /\ r.id \in Ids /\ r.must \in SUBSET Keys /\ r.found \in SUBSET Keys
         /\ r.left \in SUBSET Keys /\ r.arcs \in SUBSET Keys
BY DEF CheckType

\* ... of an answer ...
LEMMA AnswerFields ==
  ASSUME NEW r \in AnswerType
  PROVE  r.id \in Ids /\ r.must \in SUBSET Keys /\ r.found \in SUBSET Keys
BY DEF AnswerType

\* ... of a rebuild that scans ...
LEMMA RebuildFields ==
  ASSUME NEW r \in RebuildType
  PROVE  /\ r.pc = "rebuild" /\ r.fresh \in SUBSET (Ids \X Keys)
         /\ r.left \in SUBSET Keys /\ r.arcs \in SUBSET Keys
BY DEF RebuildType

\* ... and of one that writes.
LEMMA FreshFields ==
  ASSUME NEW r \in FreshType
  PROVE  r.fresh \in SUBSET (Ids \X Keys)
BY DEF FreshType

\* They are all kinds of threads.
LEMMA Kinds ==
  /\ IdleType \subseteq ThreadType /\ AppendType \subseteq ThreadType
  /\ CheckType \subseteq ThreadType /\ AnswerType \subseteq ThreadType
  /\ RebuildType \subseteq ThreadType /\ FreshType \subseteq ThreadType
  /\ EvictType \subseteq ThreadType
BY DEF ThreadType

\* A thread without an operation.
LEMMA IdleIs == None \in ThreadType /\ None.pc = "idle"
BY DEF None, ThreadType, IdleType

\* A step of an append.
LEMMA AppendMoves ==
  ASSUME NEW r \in AppendType, NEW p \in Appending, NEW m \in Nat \ {0}
  PROVE  /\ [r EXCEPT !.pc = p] \in AppendType
         /\ [r EXCEPT !.pc = p].pc = p /\ [r EXCEPT !.pc = p].item = r.item
         /\ [r EXCEPT !.pc = p].key = r.key /\ [r EXCEPT !.pc = p].n = r.n
         /\ [r EXCEPT !.pc = p, !.n = m] \in AppendType
         /\ [r EXCEPT !.pc = p, !.n = m].pc = p /\ [r EXCEPT !.pc = p, !.n = m].item = r.item
         /\ [r EXCEPT !.pc = p, !.n = m].key = r.key /\ [r EXCEPT !.pc = p, !.n = m].n = m
BY DEF AppendType

\* One thread makes a step.
LEMMA Turn ==
  ASSUME th \in [Threads -> ThreadType], NEW t \in Threads, NEW r \in ThreadType,
         th' = [th EXCEPT ![t] = r]
  PROVE  /\ th' \in [Threads -> ThreadType] /\ th'[t] = r
         /\ \A u \in Threads : u # t => th'[u] = th[u]
OBVIOUS

\* The ids of an item are ids.
LEMMA EntryIs ==
  ASSUME NEW i \in Items, NEW n \in DOMAIN Entries[i]
  PROVE  /\ Entries[i][n] \in Ids /\ Entries[i][n] \in EntriesOf(i) /\ n \in Nat \ {0}
         /\ n <= Len(Entries[i])
<1>1. Entries[i] \in Seq(Ids)
  BY PartitionAssumption
<1> QED BY <1>1 DEF EntriesOf

\* ... and all of them come from a place in its list.
LEMMA EntriesAre ==
  ASSUME NEW i \in Items, NEW x \in EntriesOf(i)
  PROVE  x \in Ids /\ \E n \in DOMAIN Entries[i] : x = Entries[i][n]
BY EntryIs DEF EntriesOf

\* What an append under way will have indexed.
LEMMA InFlightIs ==
  ASSUME NEW t \in Threads, th[t].pc \in Appending
  PROVE  InFlight(t) = Lines(th[t].item, th[t].key)
BY DEF InFlight, Appending

\* The lines of an append are pairs of an id and a key.
LEMMA LinesAre ==
  ASSUME NEW i \in Items, NEW k \in Keys
  PROVE  Lines(i, k) \subseteq Ids \X Keys
BY EntriesAre DEF Lines

\* The pair that a thread is about to record is one that it is indexing.
LEMMA PendingIs ==
  ASSUME TypeInv, NEW t \in Threads, ThreadInv(t), th[t].pc = "record"
  PROVE  /\ th[t].item \in Items /\ th[t].key \in Keys /\ th[t].n \in DOMAIN Entries[th[t].item]
         /\ Entries[th[t].item][th[t].n] \in Ids
         /\ <<Entries[th[t].item][th[t].n], th[t].key>> \in InFlight(t)
         /\ th[t].item \in parts[th[t].key]
<1>1. th[t] \in ThreadType /\ th[t].pc \in Appending
  BY DEF TypeInv, Appending
<1>2. th[t].item \in Items /\ th[t].key \in Keys
  BY <1>1, ThreadAt, AppendFields
<1>3. th[t].n \in DOMAIN Entries[th[t].item] /\ th[t].item \in parts[th[t].key]
  BY <1>1, <1>2 DEF ThreadInv, AppendInv
<1> QED BY <1>1, <1>2, <1>3, EntryIs, InFlightIs DEF Lines

-----------------------------------------------------------------------------
(* What a step of the living process keeps *)

SafeKept == \A x \in Ids, k \in Keys : Holds(k, x) /\ Safe(x, k) => Safe(x, k)'

\* Appends, lookups and rebuilds under way may go on from what they know.
Keeps ==
  /\ \A k \in Keys : parts[k] \subseteq parts'[k]
  /\ DOMAIN catalog \subseteq DOMAIN catalog'
  /\ exposed \subseteq exposed' /\ unsaved \subseteq unsaved'
  /\ \A x \in Ids, k \in Keys :
       k \in SitesOf(x) => k \in SitesOf(x)' \/ (x \in Scanned /\ Rebuilding)
  /\ \A x \in Ids, k \in Keys :
       <<x, k>> \in acked' => <<x, k>> \in acked \/ k \in SitesOf(x)' \/ Excused(x, k)'
  /\ \A x \in Ids, k \in Keys :
       Rebuilding /\ Holds(k, x)' => Holds(k, x) \/ Excused(x, k)'
  /\ Rebuilding' => Rebuilding \/ \A u \in Threads : InFlight(u) \subseteq exposed'

\* A thread that does nothing itself.
LEMMA OtherThread ==
  ASSUME TypeInv, Keeps, SafeKept, NEW u \in Threads, ThreadInv(u), th'[u] = th[u]
  PROVE  ThreadInv(u)'
<1>0. th[u] \in ThreadType
  BY DEF TypeInv
<1>e. \A x \in Ids, k \in Keys : Excused(x, k) => Excused(x, k)'
  BY DEF Keeps, Excused
<1>h. \A x \in Ids, k \in Keys : Holds(k, x) => Holds(k, x)'
  BY DEF Keeps, Holds
<1>1. AppendInv(u)'
  <2>1. SUFFICES ASSUME NEW i \in Items, NEW k \in Keys,
                        th[u].pc \in Appending, th[u].item = i, th[u].key = k
                 PROVE  /\ k \in KeysOf[i]
                        /\ th[u].pc \in {"open", "append", "insert", "record"} => k \in DOMAIN catalog'
                        /\ th[u].pc \in {"insert", "record"} => i \in parts'[k]
                        /\ th[u].pc \notin {"insert", "record"} => th[u].n = 1
                        /\ th[u].pc = "record" => th[u].n \in DOMAIN Entries[i]
                        /\ \A m \in DOMAIN Entries[i], x \in Ids :
                             /\ x = Entries[i][m]
                             /\ (th[u].pc = "insert" /\ m < th[u].n)
                                  \/ (th[u].pc = "record" /\ m <= th[u].n)
                             => Excused(x, k)' \/ k \in SitesOf(x)'
                        /\ Rebuilding' => Lines(i, k) \subseteq exposed'
    BY DEF AppendInv
  <2>2. /\ k \in KeysOf[i]
        /\ th[u].pc \in {"open", "append", "insert", "record"} => k \in DOMAIN catalog
        /\ th[u].pc \in {"insert", "record"} => i \in parts[k]
        /\ th[u].pc \notin {"insert", "record"} => th[u].n = 1
        /\ th[u].pc = "record" => th[u].n \in DOMAIN Entries[i]
        /\ Rebuilding => Lines(i, k) \subseteq exposed
    BY <2>1 DEF ThreadInv, AppendInv
  <2>3. ASSUME NEW m \in DOMAIN Entries[i], NEW x \in Ids, x = Entries[i][m],
               (th[u].pc = "insert" /\ m < th[u].n) \/ (th[u].pc = "record" /\ m <= th[u].n)
        PROVE  Excused(x, k)' \/ k \in SitesOf(x)'
    <3>1. Excused(x, k) \/ k \in SitesOf(x)
      BY <2>1, <2>3 DEF ThreadInv, AppendInv
    <3>2. CASE Rebuilding
      <4>1. <<x, k>> \in exposed
        BY <2>2, <2>3, <3>2, EntryIs DEF Lines
      <4> QED BY <1>e, <4>1 DEF Excused
    <3>3. CASE ~Rebuilding
      BY <1>e, <3>1, <3>3 DEF Keeps
    <3> QED BY <3>2, <3>3
  <2>4. Rebuilding' => Lines(i, k) \subseteq exposed'
    BY <2>1, <2>2, InFlightIs DEF Keeps
  <2> QED BY <2>2, <2>3, <2>4 DEF Keeps
<1>2. ReadInv(u)'
  <2>1. SUFFICES ASSUME NEW x \in Ids, NEW k \in Keys,
                        th[u].pc \in {"check", "merge", "done"}, th[u].id = x
                 PROVE  /\ k \in th[u].must \cup th[u].found => Holds(k, x)'
                        /\ k \in th[u].must => k \in th[u].found \cup ToCheck(u) \/ Excused(x, k)'
                        /\ th[u].pc # "done" /\ x \notin Scanned /\ <<x, k>> \in acked' =>
                             k \in th[u].found \cup ToCheck(u) \cup SitesOf(x)' \/ Excused(x, k)'
                        /\ th[u].pc = "merge" /\ k \in th[u].found => Safe(x, k)'
    BY DEF ReadInv, ToCheck
  <2>2. /\ k \in th[u].must \cup th[u].found => Holds(k, x)
        /\ k \in th[u].must => k \in th[u].found \cup ToCheck(u) \/ Excused(x, k)
        /\ th[u].pc # "done" /\ x \notin Scanned /\ <<x, k>> \in acked =>
             k \in th[u].found \cup ToCheck(u) \cup SitesOf(x) \/ Excused(x, k)
        /\ th[u].pc = "merge" /\ k \in th[u].found => Safe(x, k)
    BY <2>1 DEF ThreadInv, ReadInv
  <2>3. /\ x \notin Scanned /\ k \in SitesOf(x) => k \in SitesOf(x)'
        /\ <<x, k>> \in acked' => <<x, k>> \in acked \/ k \in SitesOf(x)' \/ Excused(x, k)'
    BY DEF Keeps
  <2>4. Excused(x, k) => Excused(x, k)'
    BY <1>e
  <2>5. Holds(k, x) /\ Safe(x, k) => Safe(x, k)'
    BY DEF SafeKept
  <2>6. Holds(k, x) => Holds(k, x)'
    BY <1>h
  <2> QED BY <2>2, <2>3, <2>4, <2>5, <2>6
<1>3. RebuildInv(u)'
  <2>1. SUFFICES ASSUME th[u].pc \in {"rebuild", "collapse", "replace"}, NEW x \in Ids, NEW k \in Keys
                 PROVE  /\ <<x, k>> \in th[u].fresh => x \in Scanned /\ Holds(k, x)'
                        /\ x \in Scanned /\ Holds(k, x)' =>
                             <<x, k>> \in th[u].fresh \/ k \in ToScan(u) \/ Excused(x, k)'
                        /\ th[u].pc = "replace" /\ <<x, k>> \in th[u].fresh => Safe(x, k)'
    BY DEF RebuildInv, ToScan
  <2>2. /\ <<x, k>> \in th[u].fresh => x \in Scanned /\ Holds(k, x)
        /\ x \in Scanned /\ Holds(k, x) =>
             <<x, k>> \in th[u].fresh \/ k \in ToScan(u) \/ Excused(x, k)
        /\ th[u].pc = "replace" /\ <<x, k>> \in th[u].fresh => Safe(x, k)
    BY <2>1 DEF ThreadInv, RebuildInv
  <2>3. Rebuilding
    BY <2>1 DEF Rebuilding
  <2>4. Holds(k, x)' => Holds(k, x) \/ Excused(x, k)'
    BY <2>3 DEF Keeps
  <2>5. Holds(k, x) /\ Safe(x, k) => Safe(x, k)'
    BY DEF SafeKept
  <2> QED BY <1>e, <1>h, <2>2, <2>4, <2>5
<1> QED BY <1>1, <1>2, <1>3 DEF ThreadInv

\* What is not about the threads is kept by a step that does not change the index and gives up
\* no pair that is about to be recorded.
LEMMA Quiet ==
  ASSUME IInv, NEW t \in Threads, \A u \in Threads : u # t => th'[u] = th[u],
         UNCHANGED <<runs, whole, sites, acked, reader>>, \A k \in Keys : parts[k] \subseteq parts'[k],
         exposed \subseteq exposed', unsaved \subseteq unsaved',
         th[t].pc # "record" \/ InFlight(t) \subseteq exposed'
  PROVE  RealInv' /\ KnownInv' /\ SafeKept
<1>1. \A x \in Ids, k \in Keys : /\ SitesOf(x)' = SitesOf(x) /\ (Holds(k, x) => Holds(k, x)')
                                 /\ Excused(x, k) => Excused(x, k)'
  BY DEF SitesOf, Holds, Excused
<1>2. ASSUME NEW x \in Ids, NEW k \in Keys, Safe(x, k)
      PROVE  Safe(x, k)'
  <2>1. CASE Pending(x, k)
    <3>1. PICK u \in Threads : /\ th[u].pc = "record" /\ th[u].key = k
                               /\ x = Entries[th[u].item][th[u].n]
      BY <2>1 DEF Pending
    <3>2. CASE u = t
      <4>1. <<x, k>> \in InFlight(t)
        BY <3>1, <3>2, PendingIs DEF IInv
      <4> QED BY <3>1, <3>2, <4>1 DEF Safe, Excused
    <3>3. CASE u # t
      <4>1. Pending(x, k)'
        BY <3>1, <3>3 DEF Pending
      <4> QED BY <4>1 DEF Safe
    <3> QED BY <3>2, <3>3
  <2>2. CASE x \notin Scanned \/ Excused(x, k) \/ <<x, k>> \in AllLines(runs)
    BY <1>1, <2>2 DEF Safe
  <2> QED BY <1>2, <2>1, <2>2 DEF Safe
<1>3. RealInv'
  BY <1>1 DEF IInv, RealInv
<1>4. KnownInv'
  <2>1. ASSUME NEW x \in Ids, NEW k \in Keys
        PROVE  /\ k \in SitesOf(x)' => Safe(x, k)'
               /\ <<x, k>> \in acked' =>
                    \/ Excused(x, k)' \/ k \in SitesOf(x)'
                    \/ (x \notin Scanned /\ x \notin DOMAIN sites')
    BY <1>1, <1>2 DEF IInv, KnownInv
  <2> QED BY <2>1 DEF KnownInv
<1> QED BY <1>2, <1>3, <1>4 DEF SafeKept

\* The catalog grows in memory and on disk, and no partition gets data.
LEMMA CatalogKept ==
  ASSUME CatalogInv, parts' = parts, unsaved \subseteq unsaved', DOMAIN saved \subseteq DOMAIN saved',
         DOMAIN saved' \subseteq DOMAIN catalog', DOMAIN catalog' \subseteq DOMAIN saved' \cup unsaved'
  PROVE  CatalogInv'
BY DEF CatalogInv, DataIsListed

\* Steps that begin, go on with or end no rebuild.
LEMMA SameRebuilding ==
  ASSUME NEW t \in Threads, \A u \in Threads : u # t => th'[u] = th[u],
         th[t].pc \notin {"rebuild", "collapse", "replace"},
         th'[t].pc \notin {"rebuild", "collapse", "replace"}
  PROVE  Rebuilding' <=> Rebuilding
BY DEF Rebuilding

\* A thread that is idle, or only evicts, knows nothing.
LEMMA AtRest ==
  ASSUME NEW t \in Threads, th'[t].pc \in {"idle", "evict"}
  PROVE  ThreadInv(t)'
BY DEF ThreadInv, AppendInv, ReadInv, RebuildInv, Appending

\* The pieces of a step of t.
LEMMA StepDone ==
  ASSUME IInv, NEW t \in Threads, \A u \in Threads : u # t => th'[u] = th[u],
         TypeInv', CatalogInv', RealInv', KnownInv', Keeps, SafeKept, ThreadInv(t)'
  PROVE  IInv'
<1>1. ASSUME NEW u \in Threads PROVE ThreadInv(u)'
  <2>1. CASE u = t
    BY <2>1
  <2>2. CASE u # t
    BY <2>2, OtherThread DEF IInv
  <2> QED BY <2>1, <2>2
<1> QED BY <1>1 DEF IInv

\* The same for a step that neither changes partitions or index nor begins a rebuild.
LEMMA QuietStep ==
  ASSUME IInv, NEW t \in Threads, \A u \in Threads : u # t => th'[u] = th[u],
         UNCHANGED <<parts, runs, whole, sites, acked, reader>>,
         exposed \subseteq exposed', unsaved \subseteq unsaved',
         DOMAIN saved \subseteq DOMAIN saved', DOMAIN catalog \subseteq DOMAIN catalog',
         DOMAIN saved' \subseteq DOMAIN catalog', DOMAIN catalog' \subseteq DOMAIN saved' \cup unsaved',
         th[t].pc # "record" \/ InFlight(t) \subseteq exposed',
         Rebuilding' => Rebuilding \/ \A u \in Threads : InFlight(u) \subseteq exposed',
         TypeInv', ThreadInv(t)'
  PROVE  IInv'
<1>1. RealInv' /\ KnownInv' /\ SafeKept
  BY Quiet
<1>2. CatalogInv'
  BY CatalogKept DEF IInv
<1>3. \A x \in Ids, k \in Keys : SitesOf(x)' = SitesOf(x) /\ Holds(k, x)' = Holds(k, x)
  BY DEF SitesOf, Holds
<1>4. Keeps
  BY <1>3 DEF Keeps
<1> QED BY <1>1, <1>2, <1>4, StepDone

\* What the type invariant says of the catalog.
CatalogType ==
  /\ DOMAIN saved \subseteq Keys /\ DOMAIN catalog \subseteq Keys
  /\ \A k \in DOMAIN saved : saved[k] \in {"hot", "cold"}
  /\ \A k \in DOMAIN catalog : catalog[k] \in {"hot", "cold"}
  /\ open \subseteq DOMAIN catalog

\* The type of the state after a step that changes neither partitions nor index.
LEMMA QuietType ==
  ASSUME TypeInv, th' \in [Threads -> ThreadType], CatalogType',
         UNCHANGED <<parts, runs, sites, writer, acked, reader>>,
         exposed' \subseteq Ids \X Keys, unsaved' \subseteq Keys, ops' \in Nat, faults' \in Nat
  PROVE  TypeInv'
BY DEF TypeInv, TypeOK, CatalogType, RunsType, writer

\* What the invariant says about the step of a thread, before it.
LEMMA Before ==
  ASSUME IInv, NEW t \in Threads
  PROVE  /\ th \in [Threads -> ThreadType] /\ th[t] \in ThreadType
         /\ TypeInv /\ CatalogType /\ ThreadInv(t)
         /\ exposed \subseteq Ids \X Keys /\ acked \subseteq Ids \X Keys /\ unsaved \subseteq Keys
         /\ ops \in Nat /\ faults \in Nat
         /\ DOMAIN saved \subseteq DOMAIN catalog /\ DOMAIN catalog \subseteq DOMAIN saved \cup unsaved
BY DEF IInv, TypeInv, TypeOK, CatalogType, CatalogInv

\* What it says of an append.
LEMMA BeforeAppend ==
  ASSUME IInv, NEW t \in Threads, th[t].pc \in Appending
  PROVE  /\ th[t] \in AppendType /\ th[t].item \in Items /\ th[t].key \in Keys
         /\ th[t].n \in Nat \ {0} /\ th[t].key \in KeysOf[th[t].item]
         /\ InFlight(t) = Lines(th[t].item, th[t].key)
         /\ InFlight(t) \subseteq Ids \X Keys
         /\ Rebuilding => InFlight(t) \subseteq exposed
         /\ th[t].pc \notin {"insert", "record"} => th[t].n = 1
<1>1. th[t] \in ThreadType /\ ThreadInv(t)
  BY Before
<1>2. th[t] \in AppendType
  BY <1>1, ThreadAt
<1>3. th[t].item \in Items /\ th[t].key \in Keys /\ th[t].n \in Nat \ {0}
  BY <1>2, AppendFields
<1>4. /\ th[t].pc \notin {"insert", "record"} => th[t].n = 1
      /\ th[t].key \in KeysOf[th[t].item] /\ (Rebuilding => Lines(th[t].item, th[t].key) \subseteq exposed)
  BY <1>1, <1>3 DEF ThreadInv, AppendInv
<1> QED BY <1>2, <1>3, <1>4, InFlightIs, LinesAre

\* What all appends under way will have indexed are pairs.
LEMMA FlightsType ==
  ASSUME IInv
  PROVE  UNION {InFlight(u) : u \in Threads} \subseteq Ids \X Keys
<1>1. ASSUME NEW u \in Threads PROVE InFlight(u) \subseteq Ids \X Keys
  <2>1. CASE th[u].pc \in Appending
    BY <2>1, BeforeAppend
  <2>2. CASE th[u].pc \notin Appending
    BY <2>2 DEF InFlight, Appending
  <2> QED BY <2>1, <2>2
<1> QED BY <1>1

-----------------------------------------------------------------------------
(* One lemma per action: appends *)

\* BeginAppend: beside a rebuild, nothing is promised about the append.
LEMMA BeginAppendStep ==
  ASSUME IInv, NEW t \in Threads, NEW i \in Items, NEW k \in Keys, BeginAppend(t, i, k)
  PROVE  IInv'
<1> DEFINE r == [pc |-> "lookup", item |-> i, key |-> k, n |-> 1]
<1>1. r \in AppendType /\ r.pc = "lookup" /\ r.item = i /\ r.key = k /\ r.n = 1
  BY DEF AppendType, Appending
<1>2. /\ th' = [th EXCEPT ![t] = r] /\ k \in KeysOf[i] /\ th[t].pc \in {"idle", "done"}
      /\ exposed' = exposed \cup (IF Rebuilding THEN Lines(i, k) ELSE {})
      /\ ops' = ops + 1
      /\ UNCHANGED <<parts, runs, saved, catalog, open, sites, next_run, current, whole, acked, unsaved,
                     reader, faults>>
  BY DEF BeginAppend, disk, process, handles, writer
<1> HIDE DEF r
<1>3. th' \in [Threads -> ThreadType] /\ th'[t] = r /\ \A u \in Threads : u # t => th'[u] = th[u]
  BY <1>1, <1>2, Before, Turn, Kinds
<1>4. Rebuilding' <=> Rebuilding
  BY <1>1, <1>2, <1>3, SameRebuilding
<1>5. TypeInv'
  <2>1. CatalogType'
    BY <1>2, Before DEF CatalogType
  <2>2. exposed' \subseteq Ids \X Keys
    BY <1>2, Before, LinesAre
  <2> QED BY <1>2, <1>3, <2>1, <2>2, Before, QuietType DEF writer
<1>6. ThreadInv(t)'
  <2>1. AppendInv(t)'
    BY <1>1, <1>2, <1>3, <1>4 DEF AppendInv
  <2>2. ReadInv(t)' /\ RebuildInv(t)'
    BY <1>1, <1>3 DEF ReadInv, RebuildInv
  <2> QED BY <2>1, <2>2 DEF ThreadInv
<1> QED BY <1>2, <1>3, <1>4, <1>5, <1>6, Before, QuietStep

\* The thread of an append goes on, from the facts that it needs to.
LEMMA AppendGoesOn ==
  ASSUME IInv, NEW t \in Threads, th[t].pc \in Appending \ {"insert", "record"},
         NEW p \in Appending \ {"insert", "record"},
         th' = [th EXCEPT ![t].pc = p], exposed' = exposed,
         p \in {"open", "append"} => th[t].key \in DOMAIN catalog'
  PROVE  /\ th' \in [Threads -> ThreadType] /\ \A u \in Threads : u # t => th'[u] = th[u]
         /\ (Rebuilding' <=> Rebuilding) /\ ThreadInv(t)'
<1> DEFINE r == [th[t] EXCEPT !.pc = p]
<1>0. th \in [Threads -> ThreadType]
  BY Before
<1>1. /\ r \in AppendType /\ r.pc = p /\ r.item = th[t].item /\ r.key = th[t].key /\ r.n = th[t].n
  <2>1. th[t] \in AppendType /\ th[t].n \in Nat \ {0}
    BY BeforeAppend
  <2> QED BY <2>1, AppendMoves
<1>2. th' = [th EXCEPT ![t] = r]
  OBVIOUS
<1> HIDE DEF r
<1>3. th' \in [Threads -> ThreadType] /\ th'[t] = r /\ \A u \in Threads : u # t => th'[u] = th[u]
  BY <1>0, <1>1, <1>2, Turn, Kinds
<1>4. Rebuilding' <=> Rebuilding
  BY <1>1, <1>3, SameRebuilding DEF Appending
<1>5. AppendInv(t)'
  <2>1. /\ th[t].n = 1 /\ th[t].key \in KeysOf[th[t].item]
          /\ (Rebuilding => Lines(th[t].item, th[t].key) \subseteq exposed)
    BY BeforeAppend
  <2> QED BY <1>1, <1>3, <1>4, <2>1 DEF AppendInv, Appending
<1>6. ReadInv(t)' /\ RebuildInv(t)'
  BY <1>1, <1>3 DEF ReadInv, RebuildInv, Appending
<1> QED BY <1>3, <1>4, <1>5, <1>6 DEF ThreadInv

\* An operation of t ends, or fails.
LEMMA Ends ==
  ASSUME IInv, NEW t \in Threads, th' = [th EXCEPT ![t] = None]
  PROVE  /\ th' \in [Threads -> ThreadType] /\ th'[t].pc = "idle"
         /\ \A u \in Threads : u # t => th'[u] = th[u]
         /\ Rebuilding' => Rebuilding
         /\ ThreadInv(t)'
<1>1. th' \in [Threads -> ThreadType] /\ th'[t] = None /\ \A u \in Threads : u # t => th'[u] = th[u]
  BY IdleIs, Before, Turn
<1>2. th'[t].pc = "idle"
  BY <1>1, IdleIs
<1>3. Rebuilding' => Rebuilding
  BY <1>1, <1>2 DEF Rebuilding
<1> QED BY <1>1, <1>2, <1>3, AtRest

\* Lookup: an open partition is a registered one.
LEMMA LookupStep ==
  ASSUME IInv, NEW t \in Threads, Lookup(t)
  PROVE  IInv'
<1> DEFINE p == IF th[t].key \in open THEN "append" ELSE "register"
<1>1. /\ th' = [th EXCEPT ![t].pc = p] /\ th[t].pc = "lookup"
      /\ UNCHANGED <<disk, process, history, reader, bounds>>
  BY DEF Lookup
<1>2. UNCHANGED <<parts, runs, saved, catalog, open, sites, next_run, current, whole, acked, exposed,
                  unsaved, reader, ops, faults>>
  BY <1>1 DEF disk, process, handles, writer, history, bounds
<1>3. /\ p \in Appending /\ p \notin {"insert", "record", "open"} /\ th[t].pc \in Appending
      /\ p = "append" => th[t].key \in DOMAIN catalog'
  BY <1>1, <1>2, Before DEF Appending, CatalogType
<1> HIDE DEF p
<1>4. /\ th' \in [Threads -> ThreadType] /\ \A u \in Threads : u # t => th'[u] = th[u]
      /\ (Rebuilding' <=> Rebuilding) /\ ThreadInv(t)'
  BY <1>1, <1>2, <1>3, AppendGoesOn
<1>5. CatalogType'
  BY <1>2, Before DEF CatalogType
<1>6. TypeInv'
  BY <1>2, <1>4, <1>5, Before, QuietType DEF writer
<1> QED BY <1>1, <1>2, <1>4, <1>6, Before, QuietStep

\* An access adds to the catalog.
LEMMA AccessedIs ==
  ASSUME CatalogType, NEW ks \in SUBSET Keys
  PROVE  /\ DOMAIN Accessed(ks) = DOMAIN catalog \cup ks
         /\ \A k \in DOMAIN Accessed(ks) : Accessed(ks)[k] \in {"hot", "cold"}
BY DEF Accessed, CatalogType

\* Register: the key is in the catalog, and on disk if it was not before.
LEMMA RegisterStep ==
  ASSUME IInv, NEW t \in Threads, Register(t)
  PROVE  IInv'
<1>1. /\ th' = [th EXCEPT ![t].pc = "open"] /\ th[t].pc = "register" /\ th[t].pc \in Appending
      /\ catalog' = Accessed({th[t].key}) /\ saved' = IF catalog' = catalog THEN saved ELSE catalog'
      /\ UNCHANGED <<parts, runs, open, sites, next_run, current, whole, acked, exposed, unsaved, reader,
                     ops, faults>>
  BY DEF Register, writer, history, bounds, Appending
<1>2. th[t].key \in Keys
  BY <1>1, BeforeAppend
<1>3. /\ DOMAIN catalog' = DOMAIN catalog \cup {th[t].key}
      /\ \A k \in DOMAIN catalog' : catalog'[k] \in {"hot", "cold"}
  BY <1>1, <1>2, Before, AccessedIs
<1>4. /\ th' \in [Threads -> ThreadType] /\ \A u \in Threads : u # t => th'[u] = th[u]
      /\ (Rebuilding' <=> Rebuilding) /\ ThreadInv(t)'
  BY <1>1, <1>3, AppendGoesOn DEF Appending
<1>5. CatalogType'
  BY <1>1, <1>2, <1>3, Before DEF CatalogType
<1>6. TypeInv'
  BY <1>1, <1>4, <1>5, Before, QuietType DEF writer
<1>7. /\ DOMAIN saved \subseteq DOMAIN saved' /\ DOMAIN saved' \subseteq DOMAIN catalog'
      /\ DOMAIN catalog' \subseteq DOMAIN saved' \cup unsaved'
  BY <1>1, <1>3, Before
<1> QED BY <1>1, <1>3, <1>4, <1>6, <1>7, QuietStep

\* RegisterFails: the key is in memory only, and is marked.
LEMMA RegisterFailsStep ==
  ASSUME IInv, NEW t \in Threads, RegisterFails(t)
  PROVE  IInv'
<1>1. /\ th' = [th EXCEPT ![t] = None] /\ th[t].pc = "register" /\ th[t].pc \in Appending
      /\ catalog' = Accessed({th[t].key}) /\ unsaved' = unsaved \cup {th[t].key} /\ faults' = faults + 1
      /\ UNCHANGED <<parts, runs, saved, open, sites, next_run, current, whole, acked, exposed, reader, ops>>
  BY DEF RegisterFails, Fail, disk, writer, Appending
<1>2. th[t].key \in Keys
  BY <1>1, BeforeAppend
<1>3. /\ DOMAIN catalog' = DOMAIN catalog \cup {th[t].key}
      /\ \A k \in DOMAIN catalog' : catalog'[k] \in {"hot", "cold"}
  BY <1>1, <1>2, Before, AccessedIs
<1>4. /\ th' \in [Threads -> ThreadType] /\ \A u \in Threads : u # t => th'[u] = th[u]
      /\ (Rebuilding' => Rebuilding) /\ ThreadInv(t)'
  BY <1>1, Ends
<1>5. CatalogType'
  BY <1>1, <1>2, <1>3, Before DEF CatalogType
<1>6. TypeInv'
  BY <1>1, <1>2, <1>4, <1>5, Before, QuietType DEF writer
<1>7. /\ DOMAIN saved \subseteq DOMAIN saved' /\ DOMAIN saved' \subseteq DOMAIN catalog'
      /\ DOMAIN catalog' \subseteq DOMAIN saved' \cup unsaved'
  BY <1>1, <1>3, Before
<1> QED BY <1>1, <1>3, <1>4, <1>6, <1>7, QuietStep

\* OpenPartition: the handle is for a registered key, or the append fails.
LEMMA OpenPartitionStep ==
  ASSUME IInv, NEW t \in Threads, OpenPartition(t)
  PROVE  IInv'
<1>1. /\ th[t].pc = "open" /\ th[t].pc \in Appending
      /\ UNCHANGED <<parts, runs, saved, catalog, sites, next_run, current, whole, acked, exposed,
                     unsaved, reader, ops, faults>>
  BY DEF OpenPartition, disk, writer, history, bounds, Appending
<1>2. th[t].key \in DOMAIN catalog
  BY <1>1, Before, BeforeAppend DEF ThreadInv, AppendInv
<1>3. /\ th' \in [Threads -> ThreadType] /\ \A u \in Threads : u # t => th'[u] = th[u]
      /\ (Rebuilding' => Rebuilding) /\ ThreadInv(t)' /\ open' \subseteq open \cup {th[t].key}
  <2>1. CASE open' = open \cup {th[t].key} /\ th' = [th EXCEPT ![t].pc = "append"]
    BY <1>1, <1>2, <2>1, AppendGoesOn DEF Appending
  <2>2. CASE open' = open /\ th' = [th EXCEPT ![t] = None]
    BY <2>2, Ends
  <2> QED BY <2>1, <2>2 DEF OpenPartition, Fail
<1>5. CatalogType'
  BY <1>1, <1>2, <1>3, Before DEF CatalogType
<1>6. TypeInv'
  BY <1>1, <1>3, <1>5, Before, QuietType DEF writer
<1> QED BY <1>1, <1>3, <1>6, Before, QuietStep

\* The item of an append becomes durable in its partition.
Stored(t) == parts' = [parts EXCEPT ![th[t].key] = @ \cup {th[t].item}]

\* What Stored means for the partitions.
LEMMA StoredIs ==
  ASSUME IInv, NEW t \in Threads, th[t].pc = "append", Stored(t) \/ parts' = parts
  PROVE  /\ parts' \in [Keys -> SUBSET Items]
         /\ \A k \in Keys : parts[k] \subseteq parts'[k]
         /\ \A k \in Keys : parts'[k] \subseteq parts[k] \cup (IF k = th[t].key THEN {th[t].item} ELSE {})
         /\ Stored(t) => th[t].item \in parts'[th[t].key]
         /\ th[t].key \in DOMAIN catalog /\ th[t].key \in Keys /\ th[t].item \in Items
<1>1. th[t].pc \in Appending
  BY DEF Appending
<1>2. th[t].key \in Keys /\ th[t].item \in Items /\ parts \in [Keys -> SUBSET Items]
  BY <1>1, BeforeAppend DEF IInv, TypeInv, TypeOK
<1>3. th[t].key \in DOMAIN catalog
  BY <1>1, <1>2, Before DEF ThreadInv, AppendInv
<1> QED BY <1>2, <1>3 DEF Stored

\* A step that stores the item, and changes nothing else but its thread.
LEMMA StoringStep ==
  ASSUME IInv, NEW t \in Threads, th[t].pc = "append", Stored(t) \/ parts' = parts,
         th' \in [Threads -> ThreadType], \A u \in Threads : u # t => th'[u] = th[u],
         UNCHANGED <<runs, saved, catalog, open, sites, next_run, current, whole, acked, exposed, unsaved,
                     reader, ops>>,
         faults' \in Nat, Rebuilding' => Rebuilding, ThreadInv(t)'
  PROVE  IInv'
<1> DEFINE i == th[t].item
           k0 == th[t].key
<1>1. /\ parts' \in [Keys -> SUBSET Items]
      /\ \A k \in Keys : parts[k] \subseteq parts'[k]
      /\ \A k \in Keys : parts'[k] \subseteq parts[k] \cup (IF k = k0 THEN {i} ELSE {})
      /\ k0 \in DOMAIN catalog /\ k0 \in Keys /\ i \in Items
  BY StoredIs
<1>2. k0 \in KeysOf[i] /\ (Rebuilding => Lines(i, k0) \subseteq exposed)
  BY BeforeAppend DEF Appending
<1> HIDE DEF i, k0
<1>3. TypeInv'
  BY <1>1, Before DEF TypeInv, TypeOK, RunsType
<1>4. RealInv' /\ KnownInv' /\ SafeKept
  BY <1>1, Quiet
<1>5. CatalogInv'
  <2>1. \A k \in Keys : \A j \in parts'[k] : k \in KeysOf[j]
    BY <1>1, <1>2 DEF IInv, CatalogInv
  <2>2. DataIsListed'
    BY <1>1, Before DEF IInv, CatalogInv, DataIsListed
  <2> QED BY <2>1, <2>2 DEF IInv, CatalogInv
<1>6. Keeps
  <2>1. ASSUME NEW x \in Ids, NEW k \in Keys, Rebuilding, Holds(k, x)', ~Holds(k, x)
        PROVE  Excused(x, k)'
    <3>1. k = k0 /\ x \in EntriesOf(i)
      BY <1>1, <2>1 DEF Holds
    <3> QED BY <1>2, <2>1, <3>1 DEF Excused, Lines
  <2>2. \A x \in Ids : SitesOf(x)' = SitesOf(x)
    BY DEF SitesOf
  <2> QED BY <1>1, <2>1, <2>2 DEF Keeps
<1> QED BY <1>3, <1>4, <1>5, <1>6, StepDone

\* Append_: the item is in the partition, and no id of it is indexed yet.
LEMMA AppendStep ==
  ASSUME IInv, NEW t \in Threads, Append_(t)
  PROVE  IInv'
<1>1. /\ th[t].pc = "append" /\ th[t].pc \in Appending /\ Stored(t)
      /\ th' = [th EXCEPT ![t].pc = "insert"]
      /\ UNCHANGED <<runs, saved, catalog, open, sites, next_run, current, whole, acked, exposed, unsaved,
                     reader, ops, faults>>
  BY DEF Append_, Stored, process, handles, writer, history, bounds, Appending
<1> DEFINE r == [th[t] EXCEPT !.pc = "insert"]
<1>2. r \in AppendType /\ r.pc = "insert" /\ r.item = th[t].item /\ r.key = th[t].key /\ r.n = th[t].n
  <2>1. th[t] \in AppendType /\ th[t].n \in Nat \ {0} /\ "insert" \in Appending
    BY <1>1, BeforeAppend DEF Appending
  <2> QED BY <2>1, AppendMoves
<1>3. th' = [th EXCEPT ![t] = r]
  BY <1>1
<1> HIDE DEF r
<1>4. th' \in [Threads -> ThreadType] /\ th'[t] = r /\ \A u \in Threads : u # t => th'[u] = th[u]
  BY <1>2, <1>3, Before, Turn, Kinds
<1>5. Rebuilding' <=> Rebuilding
  BY <1>1, <1>2, <1>4, SameRebuilding
<1>6. ThreadInv(t)'
  <2>1. /\ th[t].item \in parts'[th[t].key] /\ th[t].key \in DOMAIN catalog
        /\ th[t].item \in Items /\ th[t].key \in Keys /\ th[t].key \in KeysOf[th[t].item]
        /\ th[t].n = 1 /\ (Rebuilding => Lines(th[t].item, th[t].key) \subseteq exposed)
    BY <1>1, StoredIs, BeforeAppend
  <2>3. \A m \in DOMAIN Entries[th[t].item] : ~(m < 1)
    BY <2>1, EntryIs
  <2>5. AppendInv(t)'
    BY <1>1, <1>2, <1>4, <1>5, <2>1, <2>3 DEF AppendInv
  <2>4. ReadInv(t)' /\ RebuildInv(t)'
    BY <1>2, <1>4 DEF ReadInv, RebuildInv
  <2> QED BY <2>4, <2>5 DEF ThreadInv
<1> QED BY <1>1, <1>4, <1>5, <1>6, Before, StoringStep

\* AppendFails: the item may be in the partition without an index entry.
LEMMA AppendFailsStep ==
  ASSUME IInv, NEW t \in Threads, AppendFails(t)
  PROVE  IInv'
<1>1. /\ th[t].pc = "append" /\ (Stored(t) \/ parts' = parts)
      /\ th' = [th EXCEPT ![t] = None] /\ faults' = faults + 1
      /\ UNCHANGED <<runs, saved, catalog, open, sites, next_run, current, whole, acked, exposed, unsaved,
                     reader, ops>>
  BY DEF AppendFails, Fail, Stored, process, handles, writer, history
<1>2. faults' \in Nat
  BY <1>1, Before
<1> QED BY <1>1, <1>2, Ends, StoringStep

\* An event or evidence is in one partition only.
LEMMA OneKey ==
  ASSUME IInv, NEW x \in Ids, x \notin Scanned, NEW k \in Keys, NEW l \in Keys, Holds(k, x), Holds(l, x)
  PROVE  k = l
<1>1. PICK i \in parts[k] : x \in EntriesOf(i)
  BY DEF Holds
<1>2. PICK j \in parts[l] : x \in EntriesOf(j)
  BY DEF Holds
<1>3. i \in Items /\ j \in Items /\ k \in KeysOf[i] /\ l \in KeysOf[j]
  BY <1>1, <1>2 DEF IInv, TypeInv, TypeOK, CatalogInv
<1> QED BY <1>1, <1>2, <1>3, PartitionAssumption

\* The entry of an id grows.
LEMMA PutSite ==
  ASSUME NEW x0 \in Ids, NEW ks, sites' = Put(sites, x0, SitesOf(x0) \cup ks)
  PROVE  /\ DOMAIN sites' = DOMAIN sites \cup {x0} /\ sites'[x0] = SitesOf(x0) \cup ks
         /\ \A x \in DOMAIN sites : x # x0 => sites'[x] = sites[x]
         /\ \A x \in Ids : SitesOf(x)' = SitesOf(x) \cup (IF x = x0 THEN ks ELSE {})
<1> DEFINE v == SitesOf(x0) \cup ks
<1>1. sites' = [y \in DOMAIN sites \cup {x0} |-> IF y = x0 THEN v ELSE sites[y]]
  BY DEF Put
<1> HIDE DEF v
<1>2. /\ DOMAIN sites' = DOMAIN sites \cup {x0} /\ sites'[x0] = v
      /\ \A x \in DOMAIN sites : x # x0 => sites'[x] = sites[x]
  BY <1>1
<1>3. \A x \in Ids : SitesOf(x)' = IF x = x0 THEN v ELSE SitesOf(x)
  BY <1>2 DEF SitesOf
<1> QED BY <1>2, <1>3 DEF v

\* A step of a thread by which the entry of an id grows, by partitions that have it.
LEMMA SitesGrow ==
  ASSUME IInv, NEW t \in Threads, \A u \in Threads : u # t => th'[u] = th[u],
         th' \in [Threads -> ThreadType], NEW x0 \in Ids, NEW ks \in SUBSET Keys,
         sites' = Put(sites, x0, SitesOf(x0) \cup ks), th[t].pc # "record",
         UNCHANGED <<parts, runs, saved, catalog, open, next_run, current, whole, acked, exposed, unsaved,
                     reader, ops, faults>>,
         \A k \in ks : Holds(k, x0) /\ (k \in SitesOf(x0) \/ Safe(x0, k)'),
         \A k \in Keys : x0 \notin Scanned /\ <<x0, k>> \in acked =>
                           k \in SitesOf(x0) \cup ks \/ Excused(x0, k),
         Rebuilding' => Rebuilding, ThreadInv(t)'
  PROVE  IInv'
<1>1. /\ DOMAIN sites' = DOMAIN sites \cup {x0} /\ sites'[x0] = SitesOf(x0) \cup ks
      /\ \A x \in DOMAIN sites : x # x0 => sites'[x] = sites[x]
      /\ \A x \in Ids : SitesOf(x)' = SitesOf(x) \cup (IF x = x0 THEN ks ELSE {})
  BY PutSite
<1>2. TypeInv'
  <2>1. SitesOf(x0) \subseteq Keys
    BY DEF IInv, TypeInv, TypeOK, SitesOf
  <2> QED BY <1>1, <2>1 DEF IInv, TypeInv, TypeOK, RunsType
<1>3. \A x \in Ids, k \in Keys : (Holds(k, x)' <=> Holds(k, x)) /\ (Excused(x, k)' <=> Excused(x, k))
  BY DEF Holds, Excused
<1>4. ASSUME NEW x \in Ids, NEW k \in Keys, Safe(x, k)
      PROVE  Safe(x, k)'
  <2>1. CASE Pending(x, k)
    <3>1. Pending(x, k)'
      BY <2>1 DEF Pending
    <3> QED BY <3>1 DEF Safe
  <2>2. CASE ~Pending(x, k)
    BY <1>3, <1>4, <2>2 DEF Safe
  <2> QED BY <2>1, <2>2
<1>5. RealInv'
  BY <1>1, <1>3 DEF IInv, RealInv
<1>6. KnownInv'
  <2>1. ASSUME NEW x \in Ids, NEW k \in Keys
        PROVE  /\ k \in SitesOf(x)' => Safe(x, k)'
               /\ <<x, k>> \in acked' =>
                    \/ Excused(x, k)' \/ k \in SitesOf(x)'
                    \/ (x \notin Scanned /\ x \notin DOMAIN sites')
    <3>1. /\ k \in SitesOf(x) => Safe(x, k)
          /\ <<x, k>> \in acked =>
               Excused(x, k) \/ k \in SitesOf(x) \/ (x \notin Scanned /\ x \notin DOMAIN sites)
      BY DEF IInv, KnownInv
    <3>2. k \in SitesOf(x)' => Safe(x, k)'
      BY <1>1, <1>4, <3>1
    <3>3. <<x, k>> \in acked =>
               Excused(x, k)' \/ k \in SitesOf(x)' \/ (x \notin Scanned /\ x \notin DOMAIN sites')
      BY <1>1, <1>3, <3>1
    <3> QED BY <3>2, <3>3
  <2> QED BY <2>1 DEF KnownInv
<1>7. CatalogInv'
  BY CatalogKept DEF IInv, CatalogInv
<1>8. SafeKept
  BY <1>4 DEF SafeKept
<1>9. Keeps
  BY <1>1, <1>3 DEF Keeps
<1> QED BY <1>2, <1>5, <1>6, <1>7, <1>8, <1>9, StepDone

\* InsertSite: the pair is in the map, and is pending if it was not before.
LEMMA InsertSiteStep ==
  ASSUME IInv, NEW t \in Threads, InsertSite(t)
  PROVE  IInv'
<1>1. /\ th[t].pc = "insert" /\ th[t].pc \in Appending /\ th[t].n <= Len(Entries[th[t].item])
      /\ UNCHANGED <<parts, runs, saved, catalog, open, next_run, current, whole, acked, exposed, unsaved,
                     reader, ops, faults>>
  BY DEF InsertSite, disk, handles, writer, history, bounds, Appending
<1>2. PICK i \in Items, k0 \in Keys, n \in Nat \ {0} : i = th[t].item /\ k0 = th[t].key /\ n = th[t].n
  BY <1>1, BeforeAppend
<1>3. /\ k0 \in KeysOf[i] /\ (Rebuilding => Lines(i, k0) \subseteq exposed)
      /\ th[t] \in AppendType /\ th \in [Threads -> ThreadType]
  BY <1>1, <1>2, Before, BeforeAppend
<1>4. n \in DOMAIN Entries[i]
  <2>1. Entries[i] \in Seq(Ids)
    BY <1>2, PartitionAssumption
  <2> QED BY <1>1, <1>2, <2>1
<1>5. PICK x0 \in Ids : x0 = Entries[i][n] /\ x0 \in EntriesOf(i)
  BY <1>2, <1>4, EntryIs
<1>6. /\ i \in parts[k0] /\ k0 \in DOMAIN catalog
      /\ \A m \in DOMAIN Entries[i], x \in Ids :
           x = Entries[i][m] /\ m < n => Excused(x, k0) \/ k0 \in SitesOf(x)
  BY <1>1, <1>2, Before DEF ThreadInv, AppendInv
<1>7. Holds(k0, x0)
  BY <1>5, <1>6 DEF Holds
<1>8. PICK p, m0 : /\ p = IF k0 \in SitesOf(x0) THEN "insert" ELSE "record"
                   /\ m0 = IF k0 \in SitesOf(x0) THEN n + 1 ELSE n
  OBVIOUS
<1>9. /\ p \in Appending /\ m0 \in Nat \ {0}
      /\ (k0 \in SitesOf(x0) /\ p = "insert" /\ m0 = n + 1) \/ (p = "record" /\ m0 = n)
  BY <1>2, <1>8 DEF Appending
<1>10. PICK r : r = [th[t] EXCEPT !.pc = p, !.n = m0]
  OBVIOUS
<1>11. r \in AppendType /\ r.pc = p /\ r.item = i /\ r.key = k0 /\ r.n = m0
  <2>1. PICK q : q = th[t] /\ q \in AppendType
    BY <1>3
  <2>2. r = [q EXCEPT !.pc = p, !.n = m0]
    BY <1>10, <2>1
  <2>3. r \in AppendType /\ r.pc = p /\ r.item = q.item /\ r.key = q.key /\ r.n = m0
    BY <1>9, <2>1, <2>2 DEF AppendType
  <2> QED BY <1>2, <2>1, <2>3
<1>12. th' = [th EXCEPT ![t] = r] /\ sites' = Put(sites, x0, SitesOf(x0) \cup {k0})
  BY <1>2, <1>3, <1>5, <1>8, <1>10 DEF InsertSite
<1>13. th' \in [Threads -> ThreadType] /\ th'[t] = r /\ \A u \in Threads : u # t => th'[u] = th[u]
  BY <1>3, <1>11, <1>12, Turn, Kinds
<1>14. Rebuilding' <=> Rebuilding
  BY <1>1, <1>9, <1>11, <1>13, SameRebuilding
<1>15. \A x \in Ids : SitesOf(x)' = SitesOf(x) \cup (IF x = x0 THEN {k0} ELSE {})
  BY <1>12, PutSite
<1>16. k0 \in SitesOf(x0) \/ Safe(x0, k0)'
  <2>1. CASE p = "record" /\ m0 = n
    <3>1. Pending(x0, k0)'
      BY <1>5, <1>11, <1>13, <2>1 DEF Pending
    <3> QED BY <3>1 DEF Safe
  <2> QED BY <1>9, <2>1
<1>17. \A k \in Keys : x0 \notin Scanned /\ <<x0, k>> \in acked => k = k0
  BY <1>2, <1>7, OneKey DEF IInv, RealInv
<1>18. ThreadInv(t)'
  <2>1. ASSUME NEW m \in DOMAIN Entries[i], NEW x \in Ids, x = Entries[i][m], m <= n
        PROVE  Excused(x, k0)' \/ k0 \in SitesOf(x)'
    <3>1. CASE m < n
      BY <1>1, <1>6, <1>15, <2>1, <3>1 DEF Excused
    <3>2. CASE m = n
      BY <1>5, <1>15, <2>1, <3>2
    <3>3. m \in Nat
      BY <1>2, EntryIs
    <3> QED BY <1>2, <2>1, <3>1, <3>2, <3>3
  <2>2. \A m \in DOMAIN Entries[i] : m \in Nat
    BY <1>2, EntryIs
  <2>3. \A m \in DOMAIN Entries[i] :
          (p = "insert" /\ m < m0) \/ (p = "record" /\ m <= m0) => m <= n
    BY <1>2, <1>9, <2>2
  <2>4. AppendInv(t)'
    BY <1>1, <1>2, <1>3, <1>4, <1>6, <1>9, <1>11, <1>13, <1>14, <2>1, <2>3 DEF AppendInv
  <2>5. ReadInv(t)' /\ RebuildInv(t)'
    BY <1>9, <1>11, <1>13 DEF ReadInv, RebuildInv
  <2> QED BY <2>4, <2>5 DEF ThreadInv
<1>19. \A k \in {k0} : Holds(k, x0) /\ (k \in SitesOf(x0) \/ Safe(x0, k)')
  BY <1>7, <1>16
<1>20. \A k \in Keys : x0 \notin Scanned /\ <<x0, k>> \in acked =>
                           k \in SitesOf(x0) \cup {k0} \/ Excused(x0, k)
  BY <1>17
<1>21. {k0} \in SUBSET Keys /\ th[t].pc # "record"
  BY <1>1, <1>2
<1> QED BY <1>1, <1>12, <1>13, <1>14, <1>18, <1>19, <1>20, <1>21, SitesGrow

\* What a step that writes to a run file, or fails to, does to the run files: it adds none but
\* the lines ls, and what it takes away is marked.
RunsChange(ls) ==
  /\ RunsType(runs') /\ current' \in {"none", "open", "torn", "unlinked"}
  /\ whole' \subseteq Ids \X Keys
  /\ \A l : l \in AllLines(runs) => l \in AllLines(runs') \cup exposed'
  /\ \A l : l \in AllLines(runs') \cup whole' => l \in AllLines(runs) \cup whole \cup ls
  /\ exposed \subseteq exposed' /\ exposed' \subseteq Ids \X Keys

\* The run of this process gets a new content.
LEMMA RunIs ==
  ASSUME IInv, NEW ls \in SUBSET (Ids \X Keys), NEW c, runs' = Put(runs, next_run, c),
         \A l \in c : l \in Content(runs, next_run) \cup whole \cup ls
  PROVE  /\ RunsType(runs')
         /\ \A l : l \in AllLines(runs') => l \in AllLines(runs) \cup whole \cup ls
         /\ \A l \in c : l \in AllLines(runs')
<1>1. RunsType(runs) /\ next_run \in Nat /\ whole \subseteq Ids \X Keys
  BY DEF IInv, TypeInv, TypeOK
<1>2. \A l : l \in Content(runs, next_run) <=> next_run \in DOMAIN runs /\ l \in runs[next_run]
  BY DEF Content
<1>3. c \in SUBSET (Ids \X Keys)
  BY <1>1, <1>2 DEF RunsType
<1>4. /\ RunsType(runs')
      /\ \A l : l \in AllLines(runs') <=> l \in c \/ \E m \in DOMAIN runs : m # next_run /\ l \in runs[m]
  BY <1>1, <1>3, PutRun
<1>5. \A l : l \in AllLines(runs) <=> \E m \in DOMAIN runs : l \in runs[m]
  BY InLines
<1> QED BY <1>2, <1>4, <1>5

\* Lines are written to the run of this process, or they are lost with a file without a name or
\* behind a fragment.
LEMMA WriteIs ==
  ASSUME IInv, NEW ls \in SUBSET (Ids \X Keys), Write(ls)
  PROVE  RunsChange(ls) /\ \A l \in ls : l \in AllLines(runs') \cup exposed'
<1>1. /\ RunsType(runs) /\ next_run \in Nat /\ current \in {"none", "open", "torn", "unlinked"}
      /\ exposed \subseteq Ids \X Keys /\ whole \subseteq Ids \X Keys
  BY DEF IInv, TypeInv, TypeOK
<1>2. AllLines(runs) \subseteq Ids \X Keys
  BY <1>1, InLines DEF RunsType
<1>3. /\ exposed \subseteq exposed' /\ exposed' \subseteq Ids \X Keys
      /\ current' \in {"none", "open", "torn", "unlinked"} /\ whole' = whole
      /\ \A l : l \in AllLines(runs) \/ l \in ls => l \in AllLines(runs') \cup exposed'
  BY <1>1, <1>2 DEF Write, Lost
<1>4. CASE ls = {} \/ current = "unlinked"
  <2>1. runs' = runs
    BY <1>4 DEF Write
  <2> QED BY <1>1, <1>3, <2>1 DEF RunsChange
<1>5. CASE ~(ls = {} \/ current = "unlinked")
  <2>1. PICK c : c = IF current = "torn" THEN whole ELSE Content(runs, next_run) \cup ls
    OBVIOUS
  <2>2. runs' = Put(runs, next_run, c)
    BY <1>5, <2>1 DEF Write
  <2>3. \A l \in c : l \in Content(runs, next_run) \cup whole \cup ls
    BY <2>1
  <2>4. /\ RunsType(runs')
        /\ \A l : l \in AllLines(runs') => l \in AllLines(runs) \cup whole \cup ls
    BY <2>2, <2>3, RunIs
  <2> QED BY <1>1, <1>3, <2>4 DEF RunsChange
<1> QED BY <1>4, <1>5

\* A write that fails may leave some of its lines, and a fragment that hides what follows.
LEMMA WriteFailsIs ==
  ASSUME IInv, NEW ls \in SUBSET (Ids \X Keys), WriteFails(ls),
         exposed' \subseteq Ids \X Keys, exposed \cup Lost({}) \subseteq exposed'
  PROVE  RunsChange(ls)
<1>1. /\ RunsType(runs) /\ next_run \in Nat /\ current \in {"none", "open", "torn", "unlinked"}
      /\ whole \subseteq Ids \X Keys
  BY DEF IInv, TypeInv, TypeOK
<1>2. \A l : l \in AllLines(runs) => l \in AllLines(runs') \cup exposed'
  BY DEF Lost
<1>3. CASE UNCHANGED <<runs, current, whole>>
  BY <1>1, <1>2, <1>3 DEF RunsChange
<1>4. Content(runs, next_run) \subseteq Ids \X Keys
  BY <1>1 DEF Content, RunsType
<1>5. \A l : l \in Content(runs, next_run) => l \in AllLines(runs)
  BY InLines DEF Content
<1>6. ASSUME NEW l \in ls, NEW before, before = {m \in ls : m[2] < l[2]},
             NEW content, content = Content(runs, next_run) \cup before,
             current' \in {"open", "torn"}, whole' = whole \/ whole' = content,
             NEW tail \in {{}, {l}}, runs' = Put(runs, next_run, content \cup tail)
      PROVE  RunsChange(ls)
  <2>1. PICK c : c = content \cup tail
    OBVIOUS
  <2>2. \A m \in c : m \in Content(runs, next_run) \cup whole \cup ls
    BY <1>6, <2>1
  <2>3. /\ RunsType(runs')
        /\ \A m : m \in AllLines(runs') => m \in AllLines(runs) \cup whole \cup ls
    BY <1>6, <2>1, <2>2, RunIs
  <2>4. content \subseteq Ids \X Keys /\ \A m \in content : m \in AllLines(runs) \cup ls
    BY <1>4, <1>5, <1>6
  <2> QED BY <1>1, <1>2, <1>6, <2>3, <2>4 DEF RunsChange
<1>7. ASSUME current' = current, whole' = whole, runs' = Put(runs, next_run, whole)
      PROVE  RunsChange(ls)
  <2>1. /\ RunsType(runs')
        /\ \A l : l \in AllLines(runs') => l \in AllLines(runs) \cup whole \cup ls
    BY <1>7, RunIs
  <2> QED BY <1>1, <1>2, <1>7, <2>1 DEF RunsChange
<1>8. CASE ~UNCHANGED <<runs, current, whole>>
  <2>1. PICK l \in ls :
          LET before == {m \in ls : m[2] < l[2]}
              content == Content(runs, next_run) \cup before
          IN
          \/ /\ current \in {"none", "open"}
             /\ \/ /\ runs' = Put(runs, next_run, content)
                   /\ current' = "open" /\ whole' = whole
                \/ /\ \E tail \in {{}, {l}} : runs' = Put(runs, next_run, content \cup tail)
                   /\ current' = "torn" /\ whole' = content
          \/ /\ current = "torn" /\ UNCHANGED <<current, whole>>
             /\ \/ before = {} /\ runs' = runs
                \/ runs' = Put(runs, next_run, whole)
    BY <1>8 DEF WriteFails
  <2>2. PICK before : before = {m \in ls : m[2] < l[2]}
    OBVIOUS
  <2>3. PICK content : content = Content(runs, next_run) \cup before
    OBVIOUS
  <2>4. \/ /\ runs' = Put(runs, next_run, content) /\ current' = "open" /\ whole' = whole
        \/ /\ \E tail \in {{}, {l}} : runs' = Put(runs, next_run, content \cup tail)
           /\ current' = "torn" /\ whole' = content
        \/ current' = current /\ whole' = whole /\ runs' = Put(runs, next_run, whole)
    BY <1>8, <2>1, <2>2, <2>3
  <2>5. CASE runs' = Put(runs, next_run, content) /\ current' = "open" /\ whole' = whole
    <3>1. content \cup {} = content /\ {} \in {{}, {l}}
      OBVIOUS
    <3>2. runs' = Put(runs, next_run, content \cup {})
      BY <2>5, <3>1
    <3> QED BY <1>6, <2>2, <2>3, <2>5, <3>1, <3>2
  <2>6. CASE /\ \E tail \in {{}, {l}} : runs' = Put(runs, next_run, content \cup tail)
             /\ current' = "torn" /\ whole' = content
    BY <1>6, <2>2, <2>3, <2>6
  <2>7. CASE current' = current /\ whole' = whole /\ runs' = Put(runs, next_run, whole)
    BY <1>7, <2>7
  <2> QED BY <2>4, <2>5, <2>6, <2>7
<1> QED BY <1>3, <1>8

\* A step of a thread that writes lines for partitions that have the ids.
LEMMA Written ==
  ASSUME IInv, NEW t \in Threads, \A u \in Threads : u # t => th'[u] = th[u],
         th' \in [Threads -> ThreadType], NEW ls \in SUBSET (Ids \X Keys), RunsChange(ls),
         UNCHANGED <<parts, saved, catalog, open, sites, next_run, acked, unsaved, reader, ops>>,
         faults' \in Nat,
         \A x \in Ids, k \in Keys : <<x, k>> \in ls => Holds(k, x),
         th[t].pc = "record" =>
           <<Entries[th[t].item][th[t].n], th[t].key>> \in AllLines(runs') \cup exposed',
         Rebuilding' => Rebuilding
  PROVE  TypeInv' /\ CatalogInv' /\ RealInv' /\ KnownInv' /\ Keeps /\ SafeKept
<1>1. /\ RunsType(runs') /\ current' \in {"none", "open", "torn", "unlinked"}
      /\ whole' \subseteq Ids \X Keys
      /\ \A l : l \in AllLines(runs) => l \in AllLines(runs') \cup exposed'
      /\ \A l : l \in AllLines(runs') \cup whole' => l \in AllLines(runs) \cup whole \cup ls
      /\ exposed \subseteq exposed' /\ exposed' \subseteq Ids \X Keys
  BY DEF RunsChange
<1>2. TypeInv'
  BY <1>1 DEF IInv, TypeInv, TypeOK, RunsType
<1>3. CatalogInv'
  BY CatalogKept DEF IInv, CatalogInv
<1>4. \A x \in Ids, k \in Keys : /\ SitesOf(x)' = SitesOf(x) /\ (Holds(k, x)' <=> Holds(k, x))
                                 /\ (Excused(x, k) => Excused(x, k)')
  BY <1>1 DEF SitesOf, Holds, Excused
<1>5. ASSUME NEW x \in Ids, NEW k \in Keys, Safe(x, k)
      PROVE  Safe(x, k)'
  <2>1. CASE Pending(x, k)
    <3>1. PICK u \in Threads : /\ th[u].pc = "record" /\ th[u].key = k
                               /\ x = Entries[th[u].item][th[u].n]
      BY <2>1 DEF Pending
    <3>2. CASE u = t
      <4>1. <<x, k>> \in AllLines(runs') \cup exposed'
        BY <1>1, <3>1, <3>2
      <4> QED BY <4>1 DEF Safe, Excused
    <3>3. CASE u # t
      <4>1. Pending(x, k)'
        BY <3>1, <3>3 DEF Pending
      <4> QED BY <4>1 DEF Safe
    <3> QED BY <3>2, <3>3
  <2>2. CASE x \notin Scanned \/ Excused(x, k) \/ <<x, k>> \in AllLines(runs)
    BY <1>1, <1>4, <2>2 DEF Safe, Excused
  <2> QED BY <1>5, <2>1, <2>2 DEF Safe
<1>6. RealInv'
  <2>1. ASSUME NEW x \in Ids, NEW k \in Keys,
               \/ k \in SitesOf(x)' \/ <<x, k>> \in acked'
               \/ <<x, k>> \in AllLines(runs') \cup whole'
               \/ (reader.reading /\ <<x, k>> \in AllLines(reader.runs))
        PROVE  Holds(k, x)'
    BY <1>1, <1>4, <2>1 DEF IInv, RealInv
  <2> QED BY <2>1 DEF RealInv
<1>7. KnownInv'
  <2>1. ASSUME NEW x \in Ids, NEW k \in Keys
        PROVE  /\ k \in SitesOf(x)' => Safe(x, k)'
               /\ <<x, k>> \in acked' =>
                    \/ Excused(x, k)' \/ k \in SitesOf(x)'
                    \/ (x \notin Scanned /\ x \notin DOMAIN sites')
    BY <1>4, <1>5 DEF IInv, KnownInv
  <2> QED BY <2>1 DEF KnownInv
<1>8. Keeps
  BY <1>1, <1>4 DEF Keeps
<1> QED BY <1>2, <1>3, <1>5, <1>6, <1>7, <1>8 DEF SafeKept

\* Record: the pair is no longer pending, but on disk.
LEMMA RecordStep ==
  ASSUME IInv, NEW t \in Threads, Record(t)
  PROVE  IInv'
<1>1. /\ th[t].pc = "record" /\ th[t].pc \in Appending
      /\ UNCHANGED <<parts, saved, catalog, open, sites, next_run, acked, unsaved, reader, ops, faults>>
  BY DEF Record, handles, bounds, Appending
<1>2. PICK i \in Items, k0 \in Keys, n \in Nat \ {0} : i = th[t].item /\ k0 = th[t].key /\ n = th[t].n
  BY <1>1, BeforeAppend
<1>3. /\ k0 \in KeysOf[i] /\ (Rebuilding => Lines(i, k0) \subseteq exposed)
      /\ th[t] \in AppendType /\ th \in [Threads -> ThreadType]
  BY <1>1, <1>2, Before, BeforeAppend
<1>4. /\ i \in parts[k0] /\ k0 \in DOMAIN catalog /\ n \in DOMAIN Entries[i]
      /\ \A m \in DOMAIN Entries[i], x \in Ids :
           x = Entries[i][m] /\ m <= n => Excused(x, k0) \/ k0 \in SitesOf(x)
  BY <1>1, <1>2, Before DEF ThreadInv, AppendInv
<1>5. PICK x0 \in Ids : x0 = Entries[i][n] /\ x0 \in EntriesOf(i)
  BY <1>2, <1>4, EntryIs
<1>6. Holds(k0, x0)
  BY <1>4, <1>5 DEF Holds
<1>7. PICK r : r = [th[t] EXCEPT !.pc = "insert", !.n = n + 1]
  OBVIOUS
<1>8. r \in AppendType /\ r.pc = "insert" /\ r.item = i /\ r.key = k0 /\ r.n = n + 1
  <2>1. PICK q : q = th[t] /\ q \in AppendType
    BY <1>3
  <2>2. r = [q EXCEPT !.pc = "insert", !.n = n + 1] /\ "insert" \in Appending /\ n + 1 \in Nat \ {0}
    BY <1>2, <1>7, <2>1 DEF Appending
  <2>3. r \in AppendType /\ r.pc = "insert" /\ r.item = q.item /\ r.key = q.key /\ r.n = n + 1
    BY <2>1, <2>2 DEF AppendType
  <2> QED BY <1>2, <2>1, <2>3
<1>9. th' = [th EXCEPT ![t] = r] /\ Write({<<x0, k0>>})
  BY <1>2, <1>3, <1>5, <1>7 DEF Record
<1>10. th' \in [Threads -> ThreadType] /\ th'[t] = r /\ \A u \in Threads : u # t => th'[u] = th[u]
  BY <1>3, <1>8, <1>9, Turn, Kinds
<1>11. Rebuilding' <=> Rebuilding
  BY <1>1, <1>8, <1>10, SameRebuilding
<1>12. /\ {<<x0, k0>>} \in SUBSET (Ids \X Keys)
       /\ \A x \in Ids, k \in Keys : <<x, k>> \in {<<x0, k0>>} => Holds(k, x)
       /\ <<Entries[th[t].item][th[t].n], th[t].key>> \in {<<x0, k0>>}
  BY <1>2, <1>5, <1>6
<1>13. TypeInv' /\ CatalogInv' /\ RealInv' /\ KnownInv' /\ Keeps /\ SafeKept
  <2>1. RunsChange({<<x0, k0>>}) /\ \A l \in {<<x0, k0>>} : l \in AllLines(runs') \cup exposed'
    BY <1>9, <1>12, WriteIs
  <2>2. <<Entries[th[t].item][th[t].n], th[t].key>> \in AllLines(runs') \cup exposed'
    BY <1>12, <2>1
  <2>3. faults' \in Nat
    BY <1>1, Before
  <2> QED BY <1>1, <1>10, <1>11, <1>12, <2>1, <2>2, <2>3, Written
<1>14. ThreadInv(t)'
  <2>1. ASSUME NEW m \in DOMAIN Entries[i], NEW x \in Ids, x = Entries[i][m], m <= n
        PROVE  Excused(x, k0)' \/ k0 \in SitesOf(x)'
    <3>1. Excused(x, k0) \/ k0 \in SitesOf(x)
      BY <1>4, <2>1
    <3>2. SitesOf(x)' = SitesOf(x)
      BY <1>1 DEF SitesOf
    <3> QED BY <1>1, <1>13, <3>1, <3>2 DEF Excused, Keeps
  <2>2. \A m \in DOMAIN Entries[i] : m \in Nat
    BY <1>2, EntryIs
  <2>3. \A m \in DOMAIN Entries[i] : m < n + 1 => m <= n
    BY <1>2, <2>2
  <2>4. exposed \subseteq exposed'
    BY <1>13 DEF Keeps
  <2>5. AppendInv(t)'
    BY <1>1, <1>2, <1>3, <1>4, <1>8, <1>10, <1>11, <2>1, <2>3, <2>4 DEF AppendInv
  <2>6. ReadInv(t)' /\ RebuildInv(t)'
    BY <1>8, <1>10 DEF ReadInv, RebuildInv
  <2> QED BY <2>5, <2>6 DEF ThreadInv
<1> QED BY <1>10, <1>13, <1>14, StepDone

\* RecordFails: the pair stays in the map but is not on disk, and is marked.
LEMMA RecordFailsStep ==
  ASSUME IInv, NEW t \in Threads, RecordFails(t)
  PROVE  IInv'
<1>1. /\ th' = [th EXCEPT ![t] = None] /\ th[t].pc = "record" /\ th[t].pc \in Appending
      /\ faults' = faults + 1
      /\ UNCHANGED <<parts, saved, catalog, open, sites, next_run, acked, unsaved, reader, ops>>
  BY DEF RecordFails, Fail, handles, Appending
<1>2. /\ th' \in [Threads -> ThreadType] /\ \A u \in Threads : u # t => th'[u] = th[u]
      /\ (Rebuilding' => Rebuilding) /\ ThreadInv(t)'
  BY <1>1, Ends
<1>3. PICK i \in Items, k0 \in Keys, n \in Nat \ {0} : i = th[t].item /\ k0 = th[t].key /\ n = th[t].n
  BY <1>1, BeforeAppend
<1>4. i \in parts[k0] /\ n \in DOMAIN Entries[i]
  BY <1>1, <1>3, Before DEF ThreadInv, AppendInv
<1>5. PICK x0 \in Ids : x0 = Entries[i][n] /\ x0 \in EntriesOf(i)
  BY <1>3, <1>4, EntryIs
<1>6. Holds(k0, x0)
  BY <1>4, <1>5 DEF Holds
<1>7. PICK ls : ls = {<<x0, k0>>}
  OBVIOUS
<1>8. /\ ls \in SUBSET (Ids \X Keys)
      /\ \A x \in Ids, k \in Keys : <<x, k>> \in ls => Holds(k, x)
  BY <1>6, <1>7
<1>9. AllLines(runs) \subseteq Ids \X Keys
  BY InLines DEF IInv, TypeInv, RunsType
<1>10. exposed' = exposed \cup InFlight(t) \cup Lost({}) /\ WriteFails(ls)
  BY <1>3, <1>5, <1>7 DEF RecordFails
<1>11. /\ exposed' \subseteq Ids \X Keys /\ exposed \cup Lost({}) \subseteq exposed'
       /\ <<x0, k0>> \in exposed'
  BY <1>1, <1>3, <1>5, <1>9, <1>10, Before, BeforeAppend DEF Lost, Lines
<1>12. RunsChange(ls)
  BY <1>8, <1>10, <1>11, WriteFailsIs
<1>13. <<Entries[th[t].item][th[t].n], th[t].key>> \in AllLines(runs') \cup exposed'
  BY <1>3, <1>5, <1>11
<1>14. faults' \in Nat
  BY <1>1, Before
<1>15. TypeInv' /\ CatalogInv' /\ RealInv' /\ KnownInv' /\ Keeps /\ SafeKept
  BY <1>1, <1>2, <1>8, <1>12, <1>13, <1>14, Written
<1> QED BY <1>2, <1>15, StepDone

\* EndAppend: all pairs of the append are in the map when it is acknowledged.
LEMMA EndAppendStep ==
  ASSUME IInv, NEW t \in Threads, EndAppend(t)
  PROVE  IInv'
<1>1. /\ th[t].pc = "insert" /\ th[t].pc \in Appending /\ th[t].n > Len(Entries[th[t].item])
      /\ acked' = acked \cup InFlight(t) /\ th' = [th EXCEPT ![t] = None]
      /\ UNCHANGED <<parts, runs, saved, catalog, open, sites, next_run, current, whole, exposed, unsaved,
                     reader, ops, faults>>
  BY DEF EndAppend, Returned, disk, process, handles, writer, bounds, Appending
<1>2. PICK i \in Items, k0 \in Keys, n \in Nat \ {0} : i = th[t].item /\ k0 = th[t].key /\ n = th[t].n
  BY <1>1, BeforeAppend
<1>3. InFlight(t) = Lines(i, k0) /\ Lines(i, k0) \subseteq Ids \X Keys
  BY <1>1, <1>2, BeforeAppend
<1>4. ASSUME NEW x \in Ids, NEW k \in Keys, <<x, k>> \in Lines(i, k0)
      PROVE  Holds(k, x) /\ (Excused(x, k) \/ k \in SitesOf(x))
  <2>1. k = k0 /\ x \in EntriesOf(i)
    BY <1>4 DEF Lines
  <2>2. PICK m \in DOMAIN Entries[i] : x = Entries[i][m]
    BY <1>2, <2>1, EntriesAre
  <2>3. m < n
    <3>1. Entries[i] \in Seq(Ids)
      BY <1>2, PartitionAssumption
    <3> QED BY <1>1, <1>2, <2>2, <3>1
  <2>4. i \in parts[k0] /\ (Excused(x, k0) \/ k0 \in SitesOf(x))
    BY <1>1, <1>2, <2>2, <2>3, Before DEF ThreadInv, AppendInv
  <2> QED BY <2>1, <2>4 DEF Holds
<1>5. /\ th' \in [Threads -> ThreadType] /\ th'[t].pc = "idle"
      /\ \A u \in Threads : u # t => th'[u] = th[u]
      /\ (Rebuilding' => Rebuilding) /\ ThreadInv(t)'
  BY <1>1, Ends
<1>6. TypeInv'
  BY <1>1, <1>3, <1>5 DEF IInv, TypeInv, TypeOK, RunsType
<1>7. CatalogInv'
  BY <1>1, CatalogKept DEF IInv, CatalogInv
<1>8. \A x \in Ids, k \in Keys : /\ SitesOf(x)' = SitesOf(x) /\ (Holds(k, x)' <=> Holds(k, x))
                                 /\ (Excused(x, k)' <=> Excused(x, k))
  BY <1>1 DEF SitesOf, Holds, Excused
<1>9. ASSUME NEW x \in Ids, NEW k \in Keys, Safe(x, k)
      PROVE  Safe(x, k)'
  <2>1. CASE Pending(x, k)
    <3>1. Pending(x, k)'
      BY <1>1, <1>5, <2>1 DEF Pending
    <3> QED BY <3>1 DEF Safe
  <2>2. CASE ~Pending(x, k)
    BY <1>1, <1>8, <1>9, <2>2 DEF Safe
  <2> QED BY <2>1, <2>2
<1>10. RealInv'
  <2>1. ASSUME NEW x \in Ids, NEW k \in Keys,
               \/ k \in SitesOf(x)' \/ <<x, k>> \in acked'
               \/ <<x, k>> \in AllLines(runs') \cup whole'
               \/ (reader.reading /\ <<x, k>> \in AllLines(reader.runs))
        PROVE  Holds(k, x)'
    BY <1>1, <1>3, <1>4, <1>8, <2>1 DEF IInv, RealInv
  <2> QED BY <1>1, <2>1 DEF RealInv
<1>11. KnownInv'
  <2>1. ASSUME NEW x \in Ids, NEW k \in Keys
        PROVE  /\ k \in SitesOf(x)' => Safe(x, k)'
               /\ <<x, k>> \in acked' =>
                    \/ Excused(x, k)' \/ k \in SitesOf(x)'
                    \/ (x \notin Scanned /\ x \notin DOMAIN sites')
    BY <1>1, <1>3, <1>4, <1>8, <1>9 DEF IInv, KnownInv
  <2> QED BY <2>1 DEF KnownInv
<1>12. Keeps
  BY <1>1, <1>3, <1>4, <1>5, <1>8 DEF Keeps
<1>13. SafeKept
  BY <1>9 DEF SafeKept
<1> QED BY <1>5, <1>6, <1>7, <1>10, <1>11, <1>12, <1>13, StepDone

-----------------------------------------------------------------------------
(* Lookups *)

\* A snapshot adds no partition to the catalog.
LEMMA SnapshotIs ==
  ASSUME IInv, NEW t \in Threads, NEW r, Snapshot(t, r)
  PROVE  /\ DOMAIN catalog' = DOMAIN catalog /\ CatalogType' /\ DOMAIN saved \subseteq DOMAIN saved'
         /\ DOMAIN saved' \subseteq DOMAIN catalog' /\ DOMAIN catalog' \subseteq DOMAIN saved' \cup unsaved
         /\ th' = [th EXCEPT ![t] = r] \/ th' = [th EXCEPT ![t] = None]
<1>0. /\ CatalogType /\ DOMAIN saved \subseteq DOMAIN catalog
      /\ DOMAIN catalog \subseteq DOMAIN saved \cup unsaved
  BY Before
<1>1. CASE /\ open' = open \cup DOMAIN catalog
           /\ catalog' = Accessed(DOMAIN catalog \ open)
           /\ saved' = IF catalog' = catalog THEN saved ELSE catalog'
           /\ th' = [th EXCEPT ![t] = r]
  <2>1. DOMAIN catalog \ open \in SUBSET Keys
    BY <1>0 DEF CatalogType
  <2>2. /\ DOMAIN catalog' = DOMAIN catalog
        /\ \A k \in DOMAIN catalog' : catalog'[k] \in {"hot", "cold"}
    BY <1>0, <1>1, <2>1, AccessedIs
  <2> QED BY <1>0, <1>1, <2>2 DEF CatalogType
<1>2. CASE UNCHANGED <<open, catalog, saved>> /\ th' = [th EXCEPT ![t] = None]
  BY <1>0, <1>2 DEF CatalogType
<1> QED BY <1>1, <1>2 DEF Snapshot, Fail

\* A partition that has data is in the catalog.
LEMMA InCatalog ==
  ASSUME IInv, NEW x \in Ids, NEW k \in Keys, Holds(k, x)
  PROVE  k \in DOMAIN catalog \/ k \in unsaved
BY DEF IInv, CatalogInv, DataIsListed, Holds

\* BeginRead: an entry has all that was acknowledged, or the whole catalog is to be scanned.
LEMMA BeginReadStep ==
  ASSUME IInv, NEW t \in Threads, NEW x \in Ids, BeginRead(t, x)
  PROVE  IInv'
<1>1. PICK must : must = {l[2] : l \in {m \in acked : m[1] = x}}
  OBVIOUS
<1>2. must \in SUBSET Keys /\ \A k \in Keys : k \in must <=> <<x, k>> \in acked
  BY <1>1, Before
<1>3. /\ th[t].pc \in {"idle", "done"} /\ ops' = ops + 1
      /\ UNCHANGED <<parts, runs, sites, next_run, current, whole, acked, exposed, unsaved, reader, faults>>
  BY DEF BeginRead, writer, history
<1>4. PICK r : r = IF x \in DOMAIN sites
                     THEN [pc |-> "done", id |-> x, must |-> must, found |-> sites[x]]
                     ELSE [pc |-> "check", id |-> x, must |-> must, found |-> {},
                           left |-> DOMAIN catalog, arcs |-> DOMAIN catalog]
  OBVIOUS
<1>5. /\ CatalogType' /\ DOMAIN saved \subseteq DOMAIN saved' /\ DOMAIN catalog' = DOMAIN catalog
      /\ DOMAIN saved' \subseteq DOMAIN catalog' /\ DOMAIN catalog' \subseteq DOMAIN saved' \cup unsaved
      /\ th' = [th EXCEPT ![t] = r] \/ th' = [th EXCEPT ![t] = None]
  <2>1. CASE x \in DOMAIN sites
    <3>1. UNCHANGED <<open, catalog, saved>> /\ th' = [th EXCEPT ![t] = r]
      BY <1>1, <1>4, <2>1 DEF BeginRead
    <3> QED BY <3>1, Before DEF CatalogType
  <2>2. CASE x \notin DOMAIN sites
    <3>1. Snapshot(t, r)
      BY <1>1, <1>4, <2>2 DEF BeginRead
    <3> QED BY <3>1, SnapshotIs
  <2> QED BY <2>1, <2>2
<1>6. /\ r \in ThreadType /\ r.pc \in {"check", "done"} /\ r.id = x /\ r.must = must
      /\ r.pc = "done" => r.found = sites[x] /\ x \in DOMAIN sites
      /\ r.pc = "check" => r.found = {} /\ r.left = DOMAIN catalog /\ x \notin DOMAIN sites
  <2>1. CASE x \in DOMAIN sites
    <3>1. sites[x] \in SUBSET Keys
      BY <2>1 DEF IInv, TypeInv, TypeOK
    <3>2. r \in AnswerType
      BY <1>2, <1>4, <2>1, <3>1 DEF AnswerType
    <3> QED BY <1>4, <2>1, <3>2, Kinds
  <2>2. CASE x \notin DOMAIN sites
    <3>1. DOMAIN catalog \in SUBSET Keys
      BY Before DEF CatalogType
    <3>2. r \in CheckType
      BY <1>2, <1>4, <2>2, <3>1 DEF CheckType
    <3> QED BY <1>4, <2>2, <3>2, Kinds
  <2> QED BY <2>1, <2>2
<1>7. /\ th' \in [Threads -> ThreadType] /\ \A u \in Threads : u # t => th'[u] = th[u]
      /\ (Rebuilding' => Rebuilding) /\ ThreadInv(t)'
  <2>1. CASE th' = [th EXCEPT ![t] = None]
    BY <2>1, Ends
  <2>2. CASE th' = [th EXCEPT ![t] = r]
    <3>1. th' \in [Threads -> ThreadType] /\ th'[t] = r /\ \A u \in Threads : u # t => th'[u] = th[u]
      BY <1>6, <2>2, Before, Turn
    <3>2. Rebuilding' => Rebuilding
      BY <1>6, <3>1 DEF Rebuilding
    <3>3. \A k \in Keys : /\ SitesOf(x)' = SitesOf(x) /\ Holds(k, x)' = Holds(k, x)
                          /\ Excused(x, k)' = Excused(x, k)
      BY <1>3 DEF SitesOf, Holds, Excused
    <3>4. ASSUME NEW k \in Keys
          PROVE  /\ k \in r.must \cup r.found => Holds(k, x)
                 /\ k \in r.must => \/ k \in r.found \/ Excused(x, k)
                                    \/ (r.pc = "check" /\ k \in r.left)
                 /\ r.pc # "done" /\ x \notin Scanned /\ <<x, k>> \in acked =>
                      \/ k \in r.found \/ Excused(x, k)
                      \/ (r.pc = "check" /\ k \in r.left)
      <4>1. k \in r.must \cup r.found => Holds(k, x)
        BY <1>2, <1>6 DEF IInv, RealInv, SitesOf
      <4>2. CASE r.pc = "done"
        BY <1>2, <1>6, <4>1, <4>2 DEF IInv, KnownInv, SitesOf
      <4>3. CASE r.pc = "check"
        <5>1. <<x, k>> \in acked => k \in DOMAIN catalog \/ k \in unsaved
          BY InCatalog DEF IInv, RealInv
        <5> QED BY <1>2, <1>6, <4>1, <4>3, <5>1 DEF Excused
      <4> QED BY <1>6, <4>2, <4>3
    <3>5. ReadInv(t)'
      BY <1>3, <1>6, <3>1, <3>3, <3>4 DEF ReadInv, ToCheck
    <3>6. AppendInv(t)' /\ RebuildInv(t)'
      BY <1>6, <3>1 DEF AppendInv, RebuildInv, Appending
    <3> QED BY <3>1, <3>2, <3>5, <3>6 DEF ThreadInv
  <2> QED BY <1>5, <2>1, <2>2
<1>8. TypeInv'
  BY <1>3, <1>5, <1>7, Before, QuietType DEF writer
<1> QED BY <1>3, <1>5, <1>7, <1>8, QuietStep

\* What the invariant says of a scan.
LEMMA BeforeCheck ==
  ASSUME IInv, NEW t \in Threads, th[t].pc = "check"
  PROVE  /\ th[t] \in CheckType /\ th[t].id \in Ids /\ th[t].must \in SUBSET Keys
         /\ th[t].found \in SUBSET Keys /\ th[t].left \in SUBSET Keys /\ th[t].arcs \in SUBSET Keys
         /\ \A x \in Ids, k \in Keys : x = th[t].id =>
              /\ k \in th[t].must \cup th[t].found => Holds(k, x)
              /\ k \in th[t].must => k \in th[t].found \cup th[t].left \/ Excused(x, k)
              /\ x \notin Scanned /\ <<x, k>> \in acked =>
                   k \in th[t].found \cup th[t].left \cup SitesOf(x) \/ Excused(x, k)
<1>1. th[t] \in CheckType
  BY Before, ThreadAt
<1> QED BY <1>1, CheckFields, Before DEF ThreadInv, ReadInv, ToCheck

\* Check: a partition is passed with its answer.
LEMMA CheckStep ==
  ASSUME IInv, NEW t \in Threads, Check(t)
  PROVE  IInv'
<1>1. /\ th[t].pc = "check" /\ th[t].left # {}
      /\ UNCHANGED <<parts, runs, saved, catalog, open, sites, next_run, current, whole, acked, exposed,
                     unsaved, reader, ops, faults>>
  BY DEF Check, disk, process, handles, writer, history, bounds
<1>2. PICK q, x, k0 : q = th[t] /\ x = q.id /\ k0 = Least(q.left)
  OBVIOUS
<1>3. /\ q \in CheckType /\ x \in Ids /\ q.must \in SUBSET Keys /\ q.found \in SUBSET Keys
      /\ q.left \in SUBSET Keys /\ q.arcs \in SUBSET Keys
      /\ \A k \in Keys :
           /\ k \in q.must \cup q.found => Holds(k, x)
           /\ k \in q.must => k \in q.found \cup q.left \/ Excused(x, k)
           /\ x \notin Scanned /\ <<x, k>> \in acked =>
                k \in q.found \cup q.left \cup SitesOf(x) \/ Excused(x, k)
  BY <1>1, <1>2, BeforeCheck
<1>4. k0 \in q.left /\ k0 \in Keys
  BY <1>1, <1>2, <1>3, LeastIs
<1>5. PICK left, found : left = q.left \ {k0} /\ found = q.found \cup (IF Holds(k0, x) THEN {k0} ELSE {})
  OBVIOUS
<1>6. left \in SUBSET Keys /\ found \in SUBSET Keys
  BY <1>3, <1>4, <1>5
<1>7. PICK r : r = [q EXCEPT !.left = left, !.found = found]
  OBVIOUS
<1>8. /\ r \in CheckType /\ r.pc = "check" /\ r.id = x /\ r.must = q.must /\ r.left = left /\ r.found = found
  BY <1>2, <1>3, <1>6, <1>7 DEF CheckType
<1>9. th' = [th EXCEPT ![t] = r]
  BY <1>2, <1>5, <1>7, Before DEF Check
<1>10. th' \in [Threads -> ThreadType] /\ th'[t] = r /\ \A u \in Threads : u # t => th'[u] = th[u]
  BY <1>8, <1>9, Before, Turn, Kinds
<1>11. Rebuilding' <=> Rebuilding
  BY <1>1, <1>8, <1>10, SameRebuilding
<1>12. ThreadInv(t)'
  <2>1. \A k \in Keys : /\ SitesOf(x)' = SitesOf(x) /\ Holds(k, x)' = Holds(k, x)
                        /\ Excused(x, k)' = Excused(x, k)
    BY <1>1 DEF SitesOf, Holds, Excused
  <2>2. ASSUME NEW k \in Keys
        PROVE  /\ k \in q.must \cup found => Holds(k, x)
               /\ k \in q.must => k \in found \cup left \/ Excused(x, k)
               /\ x \notin Scanned /\ <<x, k>> \in acked =>
                    k \in found \cup left \cup SitesOf(x) \/ Excused(x, k)
    <3>1. k \in q.must \cup found => Holds(k, x)
      BY <1>3, <1>5
    <3>2. <<x, k>> \in acked => Holds(k, x)
      BY <1>3 DEF IInv, RealInv
    <3>3. k \in q.found \cup q.left /\ Holds(k, x) => k \in found \cup left
      BY <1>4, <1>5
    <3> QED BY <1>3, <1>5, <3>1, <3>2, <3>3
  <2>3. ReadInv(t)'
    BY <1>1, <1>8, <1>10, <2>1, <2>2 DEF ReadInv, ToCheck
  <2>4. AppendInv(t)' /\ RebuildInv(t)'
    BY <1>8, <1>10 DEF AppendInv, RebuildInv, Appending
  <2> QED BY <2>3, <2>4 DEF ThreadInv
<1>13. CatalogType'
  BY <1>1, Before DEF CatalogType
<1>14. TypeInv'
  BY <1>1, <1>10, <1>13, Before, QuietType DEF writer
<1> QED BY <1>1, <1>10, <1>11, <1>12, <1>14, Before, QuietStep

\* Heal: what was found is on disk before it is in the map.
LEMMA HealStep ==
  ASSUME IInv, NEW t \in Threads, Heal(t)
  PROVE  IInv'
<1>1. /\ th[t].pc = "check" /\ th[t].left = {}
      /\ UNCHANGED <<parts, saved, catalog, open, sites, next_run, acked, unsaved, reader, ops, faults>>
  BY DEF Heal, handles, bounds
<1>2. PICK q, x : q = th[t] /\ x = q.id
  OBVIOUS
<1>3. /\ q \in CheckType /\ x \in Ids /\ q.must \in SUBSET Keys /\ q.found \in SUBSET Keys
      /\ \A k \in Keys :
           /\ k \in q.must \cup q.found => Holds(k, x)
           /\ k \in q.must => k \in q.found \/ Excused(x, k)
           /\ x \notin Scanned /\ <<x, k>> \in acked =>
                k \in q.found \cup SitesOf(x) \/ Excused(x, k)
  BY <1>1, <1>2, BeforeCheck
<1>4. PICK r : r = [pc |-> "merge", id |-> x, must |-> q.must, found |-> q.found]
  OBVIOUS
<1>5. r \in AnswerType /\ r.pc = "merge" /\ r.id = x /\ r.must = q.must /\ r.found = q.found
  BY <1>3, <1>4 DEF AnswerType
<1>6. PICK ls : ls = {x} \X (q.found \ SitesOf(x))
  OBVIOUS
<1>7. th' = [th EXCEPT ![t] = r] /\ Write(ls)
  BY <1>2, <1>4, <1>6 DEF Heal, Unknown
<1>8. th' \in [Threads -> ThreadType] /\ th'[t] = r /\ \A u \in Threads : u # t => th'[u] = th[u]
  BY <1>5, <1>7, Before, Turn, Kinds
<1>9. Rebuilding' <=> Rebuilding
  BY <1>1, <1>5, <1>8, SameRebuilding
<1>10. /\ ls \in SUBSET (Ids \X Keys)
       /\ \A y \in Ids, k \in Keys : <<y, k>> \in ls => Holds(k, y)
  BY <1>3, <1>6
<1>11. TypeInv' /\ CatalogInv' /\ RealInv' /\ KnownInv' /\ Keeps /\ SafeKept
  <2>1. RunsChange(ls) /\ faults' \in Nat
    BY <1>1, <1>7, <1>10, WriteIs, Before
  <2> QED BY <1>1, <1>8, <1>9, <1>10, <2>1, Written
<1>12. ThreadInv(t)'
  <2>1. \A k \in Keys : /\ SitesOf(x)' = SitesOf(x) /\ Holds(k, x)' = Holds(k, x)
                        /\ (Excused(x, k) => Excused(x, k)')
    BY <1>1, <1>11 DEF SitesOf, Holds, Excused, Keeps
  <2>2. ASSUME NEW k \in Keys, k \in q.found
        PROVE  Safe(x, k)'
    <3>1. CASE k \in SitesOf(x)
      <4>1. Safe(x, k)
        BY <1>3, <3>1 DEF IInv, KnownInv
      <4> QED BY <1>3, <1>11, <2>2, <4>1 DEF SafeKept
    <3>2. CASE k \notin SitesOf(x)
      <4>1. <<x, k>> \in ls
        BY <1>6, <2>2, <3>2
      <4>2. <<x, k>> \in AllLines(runs') \cup exposed'
        BY <1>7, <1>10, <4>1, WriteIs
      <4> QED BY <4>2 DEF Safe, Excused
    <3> QED BY <3>1, <3>2
  <2>3. ReadInv(t)'
    BY <1>1, <1>3, <1>5, <1>8, <2>1, <2>2 DEF ReadInv, ToCheck
  <2>4. AppendInv(t)' /\ RebuildInv(t)'
    BY <1>5, <1>8 DEF AppendInv, RebuildInv, Appending
  <2> QED BY <2>3, <2>4 DEF ThreadInv
<1> QED BY <1>8, <1>11, <1>12, StepDone

\* HealFails: nothing is promised yet, and what is lost with the line is marked.
LEMMA HealFailsStep ==
  ASSUME IInv, NEW t \in Threads, HealFails(t)
  PROVE  IInv'
<1>1. /\ th[t].pc = "check" /\ th[t].left = {} /\ th' = [th EXCEPT ![t] = None]
      /\ faults' = faults + 1
      /\ UNCHANGED <<parts, saved, catalog, open, sites, next_run, acked, unsaved, reader, ops>>
  BY DEF HealFails, Fail, handles
<1>2. PICK q, x : q = th[t] /\ x = q.id
  OBVIOUS
<1>3. /\ q \in CheckType /\ x \in Ids /\ q.found \in SUBSET Keys
      /\ \A k \in Keys : k \in q.found => Holds(k, x)
  BY <1>1, <1>2, BeforeCheck
<1>4. PICK ls : ls = {x} \X (q.found \ SitesOf(x))
  OBVIOUS
<1>5. /\ ls \in SUBSET (Ids \X Keys)
      /\ \A y \in Ids, k \in Keys : <<y, k>> \in ls => Holds(k, y)
  BY <1>3, <1>4
<1>6. WriteFails(ls) /\ exposed' = exposed \cup Lost({})
  BY <1>2, <1>4 DEF HealFails, Unknown
<1>7. AllLines(runs) \subseteq Ids \X Keys
  BY InLines DEF IInv, TypeInv, RunsType
<1>8. exposed' \subseteq Ids \X Keys
  BY <1>6, <1>7, Before DEF Lost
<1>9. RunsChange(ls)
  BY <1>5, <1>6, <1>8, WriteFailsIs
<1>10. /\ th' \in [Threads -> ThreadType] /\ \A u \in Threads : u # t => th'[u] = th[u]
       /\ (Rebuilding' => Rebuilding) /\ ThreadInv(t)'
  BY <1>1, Ends
<1>11. faults' \in Nat
  BY <1>1, Before
<1>12. TypeInv' /\ CatalogInv' /\ RealInv' /\ KnownInv' /\ Keeps /\ SafeKept
  BY <1>1, <1>5, <1>9, <1>10, <1>11, Written
<1> QED BY <1>10, <1>12, StepDone

\* Merge: the entry has all that was acknowledged, though it may not have been there before.
LEMMA MergeStep ==
  ASSUME IInv, NEW t \in Threads, Merge(t)
  PROVE  IInv'
<1>1. /\ th[t].pc = "merge" /\ th[t].pc # "record"
      /\ UNCHANGED <<parts, runs, saved, catalog, open, next_run, current, whole, acked, exposed, unsaved,
                     reader, ops, faults>>
  BY DEF Merge, disk, handles, writer, history, bounds
<1>2. PICK q, x : q = th[t] /\ x = q.id
  OBVIOUS
<1>3. q \in AnswerType /\ x \in Ids /\ q.must \in SUBSET Keys /\ q.found \in SUBSET Keys
  BY <1>1, <1>2, Before, ThreadAt, AnswerFields
<1>4. \A k \in Keys :
        /\ k \in q.must \cup q.found => Holds(k, x)
        /\ k \in q.must => k \in q.found \/ Excused(x, k)
        /\ x \notin Scanned /\ <<x, k>> \in acked => k \in q.found \cup SitesOf(x) \/ Excused(x, k)
        /\ k \in q.found => Safe(x, k)
  BY <1>1, <1>2, <1>3, Before DEF ThreadInv, ReadInv, ToCheck
<1>5. sites' = Put(sites, x, SitesOf(x) \cup q.found)
  BY <1>2 DEF Merge
<1>6. /\ sites'[x] = SitesOf(x) \cup q.found
      /\ \A y \in Ids : SitesOf(y)' = SitesOf(y) \cup (IF y = x THEN q.found ELSE {})
  BY <1>3, <1>5, PutSite
<1>7. PICK found : found = SitesOf(x) \cup q.found
  OBVIOUS
<1>8. found \in SUBSET Keys
  BY <1>3, <1>7 DEF IInv, TypeInv, TypeOK, SitesOf
<1>9. PICK r : r = [q EXCEPT !.pc = "done", !.found = found]
  OBVIOUS
<1>10. r \in AnswerType /\ r.pc = "done" /\ r.id = x /\ r.must = q.must /\ r.found = found
  BY <1>2, <1>3, <1>8, <1>9 DEF AnswerType
<1>11. th' = [th EXCEPT ![t] = r]
  BY <1>2, <1>6, <1>7, <1>9, Before DEF Merge
<1>12. th' \in [Threads -> ThreadType] /\ th'[t] = r /\ \A u \in Threads : u # t => th'[u] = th[u]
  BY <1>10, <1>11, Before, Turn, Kinds
<1>13. Rebuilding' <=> Rebuilding
  BY <1>1, <1>10, <1>12, SameRebuilding
<1>14. ASSUME NEW k \in Keys, k \in q.found
       PROVE  Safe(x, k)'
  <2>1. CASE Pending(x, k)
    <3>1. Pending(x, k)'
      BY <1>1, <1>12, <2>1 DEF Pending
    <3> QED BY <3>1 DEF Safe
  <2>2. CASE ~Pending(x, k)
    BY <1>1, <1>4, <1>14, <2>2 DEF Safe, Excused
  <2> QED BY <2>1, <2>2
<1>15. ThreadInv(t)'
  <2>1. \A k \in Keys : Holds(k, x)' = Holds(k, x) /\ Excused(x, k)' = Excused(x, k)
    BY <1>1 DEF Holds, Excused
  <2>2. \A k \in Keys : k \in found => Holds(k, x)
    BY <1>3, <1>4, <1>7 DEF IInv, RealInv
  <2>3. ReadInv(t)'
    BY <1>1, <1>4, <1>7, <1>10, <1>12, <2>1, <2>2 DEF ReadInv, ToCheck
  <2>4. AppendInv(t)' /\ RebuildInv(t)'
    BY <1>10, <1>12 DEF AppendInv, RebuildInv, Appending
  <2> QED BY <2>3, <2>4 DEF ThreadInv
<1>16. \A k \in q.found : Holds(k, x) /\ (k \in SitesOf(x) \/ Safe(x, k)')
  BY <1>3, <1>4, <1>14
<1>17. \A k \in Keys : x \notin Scanned /\ <<x, k>> \in acked =>
                         k \in SitesOf(x) \cup q.found \/ Excused(x, k)
  BY <1>4
<1>18. PICK ks \in SUBSET Keys : ks = q.found
  BY <1>3
<1> QED BY <1>1, <1>3, <1>5, <1>12, <1>13, <1>15, <1>16, <1>17, <1>18, SitesGrow

-----------------------------------------------------------------------------
(* Rebuilds *)

\* BeginRebuild: every partition with data is to be scanned, and appends under way are marked.
LEMMA BeginRebuildStep ==
  ASSUME IInv, NEW t \in Threads, BeginRebuild(t)
  PROVE  IInv'
<1>1. /\ th[t].pc \in {"idle", "done"} /\ ops' = ops + 1
      /\ exposed' = exposed \cup UNION {InFlight(u) : u \in Threads}
      /\ UNCHANGED <<parts, runs, sites, next_run, current, whole, acked, unsaved, reader, faults>>
  BY DEF BeginRebuild, writer
<1>2. PICK r : r = [pc |-> "rebuild", fresh |-> {}, left |-> DOMAIN catalog, arcs |-> DOMAIN catalog]
  OBVIOUS
<1>3. r \in RebuildType /\ r.pc = "rebuild" /\ r.fresh = {} /\ r.left = DOMAIN catalog
  <2>1. DOMAIN catalog \in SUBSET Keys
    BY Before DEF CatalogType
  <2> QED BY <1>2, <2>1 DEF RebuildType
<1>4. /\ CatalogType' /\ DOMAIN saved \subseteq DOMAIN saved' /\ DOMAIN catalog' = DOMAIN catalog
      /\ DOMAIN saved' \subseteq DOMAIN catalog' /\ DOMAIN catalog' \subseteq DOMAIN saved' \cup unsaved
      /\ th' = [th EXCEPT ![t] = r] \/ th' = [th EXCEPT ![t] = None]
  <2>1. Snapshot(t, r)
    BY <1>2 DEF BeginRebuild
  <2> QED BY <2>1, SnapshotIs
<1>5. /\ th' \in [Threads -> ThreadType] /\ \A u \in Threads : u # t => th'[u] = th[u]
      /\ ThreadInv(t)'
  <2>1. CASE th' = [th EXCEPT ![t] = None]
    BY <2>1, Ends
  <2>2. CASE th' = [th EXCEPT ![t] = r]
    <3>1. th' \in [Threads -> ThreadType] /\ th'[t] = r /\ \A u \in Threads : u # t => th'[u] = th[u]
      BY <1>3, <2>2, Before, Turn, Kinds
    <3>2. ASSUME NEW x \in Ids, NEW k \in Keys, Holds(k, x)'
          PROVE  k \in r.left \/ Excused(x, k)'
      <4>1. Holds(k, x)
        BY <1>1, <3>2 DEF Holds
      <4> QED BY <1>1, <1>3, <4>1, InCatalog DEF Excused
    <3>3. RebuildInv(t)'
      BY <1>3, <3>1, <3>2 DEF RebuildInv, ToScan
    <3>4. AppendInv(t)' /\ ReadInv(t)'
      BY <1>3, <3>1 DEF AppendInv, ReadInv, Appending
    <3> QED BY <3>1, <3>3, <3>4 DEF ThreadInv
  <2> QED BY <1>4, <2>1, <2>2
<1>6. exposed' \subseteq Ids \X Keys /\ \A u \in Threads : InFlight(u) \subseteq exposed'
  BY <1>1, Before, FlightsType
<1>7. TypeInv'
  BY <1>1, <1>4, <1>5, <1>6, Before, QuietType DEF writer
<1> QED BY <1>1, <1>4, <1>5, <1>6, <1>7, QuietStep

\* What the invariant says of a rebuild.
LEMMA BeforeRebuild ==
  ASSUME IInv, NEW t \in Threads, th[t].pc \in {"rebuild", "collapse", "replace"}
  PROVE  /\ th[t].fresh \in SUBSET (Ids \X Keys)
         /\ th[t].pc = "rebuild" => th[t] \in RebuildType /\ th[t].left \in SUBSET Keys
         /\ th[t].pc # "rebuild" => th[t] \in FreshType
         /\ Rebuilding
         /\ \A x \in Ids, k \in Keys :
              /\ <<x, k>> \in th[t].fresh => x \in Scanned /\ Holds(k, x)
              /\ x \in Scanned /\ Holds(k, x) =>
                   <<x, k>> \in th[t].fresh \/ k \in ToScan(t) \/ Excused(x, k)
              /\ th[t].pc = "replace" /\ <<x, k>> \in th[t].fresh => Safe(x, k)
<1>1. th[t] \in ThreadType /\ ThreadInv(t)
  BY Before
<1>2. /\ th[t].pc = "rebuild" => th[t] \in RebuildType
      /\ th[t].pc # "rebuild" => th[t] \in FreshType
  BY <1>1, ThreadAt
<1>3. /\ th[t].fresh \in SUBSET (Ids \X Keys)
      /\ th[t].pc = "rebuild" => th[t].left \in SUBSET Keys
  BY <1>2, RebuildFields, FreshFields
<1>4. Rebuilding
  BY DEF Rebuilding
<1> QED BY <1>1, <1>2, <1>3, <1>4 DEF ThreadInv, RebuildInv

\* Rescan: a partition is passed with all its ids.
LEMMA RescanStep ==
  ASSUME IInv, NEW t \in Threads, Rescan(t)
  PROVE  IInv'
<1>1. /\ th[t].pc = "rebuild" /\ th[t].left # {}
      /\ UNCHANGED <<parts, runs, saved, catalog, open, sites, next_run, current, whole, acked, exposed,
                     unsaved, reader, ops, faults>>
  BY DEF Rescan, disk, process, handles, writer, history, bounds
<1>2. PICK q, k0 : q = th[t] /\ k0 = Least(q.left)
  OBVIOUS
<1>3. /\ q \in RebuildType /\ q.fresh \in SUBSET (Ids \X Keys) /\ q.left \in SUBSET Keys /\ Rebuilding
      /\ \A x \in Ids, k \in Keys :
           /\ <<x, k>> \in q.fresh => x \in Scanned /\ Holds(k, x)
           /\ x \in Scanned /\ Holds(k, x) => <<x, k>> \in q.fresh \/ k \in q.left \/ Excused(x, k)
  BY <1>1, <1>2, BeforeRebuild DEF ToScan
<1>4. k0 \in q.left /\ k0 \in Keys
  BY <1>1, <1>2, <1>3, LeastIs
<1>5. PICK left, fresh : left = q.left \ {k0} /\ fresh = q.fresh \cup ({x \in Scanned : Holds(k0, x)} \X {k0})
  OBVIOUS
<1>6. /\ left \in SUBSET Keys /\ fresh \in SUBSET (Ids \X Keys)
      /\ \A x \in Ids, k \in Keys :
           <<x, k>> \in fresh <=> <<x, k>> \in q.fresh \/ (k = k0 /\ x \in Scanned /\ Holds(k0, x))
  BY <1>3, <1>4, <1>5, PartitionAssumption
<1>7. PICK r : r = [q EXCEPT !.left = left, !.fresh = fresh]
  OBVIOUS
<1>8. r \in RebuildType /\ r.pc = "rebuild" /\ r.left = left /\ r.fresh = fresh
  BY <1>3, <1>6, <1>7 DEF RebuildType
<1>9. th' = [th EXCEPT ![t] = r]
  BY <1>2, <1>5, <1>7, Before DEF Rescan
<1>10. th' \in [Threads -> ThreadType] /\ th'[t] = r /\ \A u \in Threads : u # t => th'[u] = th[u]
  BY <1>8, <1>9, Before, Turn, Kinds
<1>11. ThreadInv(t)'
  <2>1. \A x \in Ids, k \in Keys : Holds(k, x)' = Holds(k, x) /\ Excused(x, k)' = Excused(x, k)
    BY <1>1 DEF Holds, Excused
  <2>2. \A x \in Ids, k \in Keys :
          /\ <<x, k>> \in fresh => x \in Scanned /\ Holds(k, x)
          /\ x \in Scanned /\ Holds(k, x) => <<x, k>> \in fresh \/ k \in left \/ Excused(x, k)
    BY <1>3, <1>4, <1>5, <1>6
  <2>3. RebuildInv(t)'
    BY <1>8, <1>10, <2>1, <2>2 DEF RebuildInv, ToScan
  <2>4. AppendInv(t)' /\ ReadInv(t)'
    BY <1>8, <1>10 DEF AppendInv, ReadInv, Appending
  <2> QED BY <2>3, <2>4 DEF ThreadInv
<1>12. CatalogType'
  BY <1>1, Before DEF CatalogType
<1>13. TypeInv'
  BY <1>1, <1>10, <1>12, Before, QuietType DEF writer
<1> QED BY <1>1, <1>3, <1>10, <1>11, <1>13, Before, QuietStep

\* A rebuild that has passed all partitions puts its lines in the place of others.
LEMMA RunsReplaced ==
  ASSUME IInv, NEW t \in Threads, th[t].pc \in {"rebuild", "collapse"}, ToScan(t) = {},
         \A u \in Threads : u # t => th'[u] = th[u], th' \in [Threads -> ThreadType],
         RunsType(runs'), next_run' \in Nat, current' \in {"none", "open", "torn", "unlinked"},
         exposed \subseteq exposed', exposed' \subseteq Ids \X Keys,
         \A x \in Ids, k \in Keys : <<x, k>> \in AllLines(runs') => Holds(k, x),
         th[t].fresh \subseteq AllLines(runs') \cup exposed', whole' \subseteq whole,
         UNCHANGED <<parts, saved, catalog, open, sites, acked, unsaved, reader, ops, faults>>
  PROVE  /\ TypeInv' /\ CatalogInv' /\ RealInv' /\ KnownInv' /\ Keeps /\ SafeKept
         /\ \A x \in Ids, k \in Keys : Holds(k, x) => Safe(x, k)'
<1>1. TypeInv'
  BY DEF IInv, TypeInv, TypeOK, RunsType
<1>2. CatalogInv'
  BY CatalogKept DEF IInv, CatalogInv
<1>3. \A x \in Ids, k \in Keys : /\ SitesOf(x)' = SitesOf(x) /\ (Holds(k, x)' <=> Holds(k, x))
                                 /\ (Excused(x, k) => Excused(x, k)')
  BY DEF SitesOf, Holds, Excused
<1>4. ASSUME NEW x \in Ids, NEW k \in Keys, Holds(k, x)
      PROVE  Safe(x, k)'
  <2>1. CASE x \in Scanned
    <3>1. <<x, k>> \in th[t].fresh \/ Excused(x, k)
      BY <1>4, <2>1, BeforeRebuild
    <3>2. <<x, k>> \in AllLines(runs') \/ Excused(x, k)'
      BY <1>3, <3>1 DEF Excused
    <3> QED BY <3>2 DEF Safe
  <2> QED BY <2>1 DEF Safe
<1>5. RealInv'
  <2>1. ASSUME NEW x \in Ids, NEW k \in Keys,
               \/ k \in SitesOf(x)' \/ <<x, k>> \in acked'
               \/ <<x, k>> \in AllLines(runs') \cup whole'
               \/ (reader.reading /\ <<x, k>> \in AllLines(reader.runs))
        PROVE  Holds(k, x)'
    BY <1>3, <2>1 DEF IInv, RealInv
  <2> QED BY <2>1 DEF RealInv
<1>6. KnownInv'
  <2>1. ASSUME NEW x \in Ids, NEW k \in Keys
        PROVE  /\ k \in SitesOf(x)' => Safe(x, k)'
               /\ <<x, k>> \in acked' =>
                    \/ Excused(x, k)' \/ k \in SitesOf(x)'
                    \/ (x \notin Scanned /\ x \notin DOMAIN sites')
    <3>1. k \in SitesOf(x) => Holds(k, x)
      BY DEF IInv, RealInv
    <3> QED BY <1>3, <1>4, <3>1 DEF IInv, KnownInv
  <2> QED BY <2>1 DEF KnownInv
<1>7. Keeps
  BY <1>3, BeforeRebuild DEF Keeps
<1> QED BY <1>1, <1>2, <1>4, <1>5, <1>6, <1>7 DEF SafeKept

\* WriteFresh: the run of this process is overwritten by what has all of it.
LEMMA WriteFreshStep ==
  ASSUME IInv, NEW t \in Threads, WriteFresh(t)
  PROVE  IInv'
<1>1. /\ th[t].pc = "rebuild" /\ th[t].left = {}
      /\ UNCHANGED <<parts, saved, catalog, open, sites, next_run, current, whole, acked, exposed,
                     unsaved, reader, ops, faults>>
  BY DEF WriteFresh, process, handles, writer, history, bounds
<1>2. PICK fresh : fresh = th[t].fresh
  OBVIOUS
<1>3. /\ fresh \in SUBSET (Ids \X Keys) /\ ToScan(t) = {}
      /\ \A x \in Ids, k \in Keys :
           /\ <<x, k>> \in fresh => x \in Scanned /\ Holds(k, x)
           /\ x \in Scanned /\ Holds(k, x) => <<x, k>> \in fresh \/ Excused(x, k)
  BY <1>1, <1>2, BeforeRebuild DEF ToScan
<1>4. PICK r : r = [pc |-> "collapse", fresh |-> fresh]
  OBVIOUS
<1>5. r \in FreshType /\ r.pc = "collapse" /\ r.fresh = fresh
  BY <1>3, <1>4 DEF FreshType
<1>6. th' = [th EXCEPT ![t] = r] /\ runs' = Put(runs, next_run, fresh)
  BY <1>2, <1>4 DEF WriteFresh
<1>7. th' \in [Threads -> ThreadType] /\ th'[t] = r /\ \A u \in Threads : u # t => th'[u] = th[u]
  BY <1>5, <1>6, Before, Turn, Kinds
<1>8. /\ RunsType(runs) /\ next_run \in Nat /\ current \in {"none", "open", "torn", "unlinked"}
      /\ exposed \subseteq Ids \X Keys
  BY DEF IInv, TypeInv, TypeOK
<1>9. /\ RunsType(runs')
      /\ \A l : l \in AllLines(runs') <=> l \in fresh \/ \E m \in DOMAIN runs : m # next_run /\ l \in runs[m]
  BY <1>3, <1>6, <1>8, PutRun
<1>10. \A x \in Ids, k \in Keys : <<x, k>> \in AllLines(runs') => Holds(k, x)
  <2>1. ASSUME NEW x \in Ids, NEW k \in Keys, <<x, k>> \in AllLines(runs')
        PROVE  <<x, k>> \in fresh \/ <<x, k>> \in AllLines(runs)
    BY <1>9, <2>1, InLines
  <2> QED BY <1>3, <2>1 DEF IInv, RealInv
<1>11. th[t].fresh \subseteq AllLines(runs') \cup exposed'
  BY <1>2, <1>9
<1>12. TypeInv' /\ CatalogInv' /\ RealInv' /\ KnownInv' /\ Keeps /\ SafeKept
  BY <1>1, <1>3, <1>7, <1>8, <1>9, <1>10, <1>11, RunsReplaced
<1>13. ThreadInv(t)'
  <2>1. \A x \in Ids, k \in Keys : Holds(k, x)' = Holds(k, x) /\ Excused(x, k)' = Excused(x, k)
    BY <1>1 DEF Holds, Excused
  <2>2. RebuildInv(t)'
    BY <1>3, <1>5, <1>7, <2>1 DEF RebuildInv, ToScan
  <2>3. AppendInv(t)' /\ ReadInv(t)'
    BY <1>5, <1>7 DEF AppendInv, ReadInv, Appending
  <2> QED BY <2>2, <2>3 DEF ThreadInv
<1> QED BY <1>7, <1>12, <1>13, StepDone

\* Collapse: the other runs go, and what is lost with them is marked.
LEMMA CollapseStep ==
  ASSUME IInv, NEW t \in Threads, Collapse(t)
  PROVE  IInv'
<1>1. /\ th[t].pc = "collapse" /\ next_run' = next_run + 1 /\ current' = "none" /\ whole' = {}
      /\ exposed' = exposed \cup (th[t].fresh \ AllLines(runs'))
      /\ runs' = [n \in DOMAIN runs \cap {next_run} |-> runs[n]]
      /\ UNCHANGED <<parts, saved, catalog, open, sites, acked, unsaved, reader, ops, faults>>
  BY DEF Collapse, handles, bounds
<1>2. PICK q, fresh : q = th[t] /\ fresh = q.fresh
  OBVIOUS
<1>3. /\ q \in FreshType /\ fresh \in SUBSET (Ids \X Keys) /\ ToScan(t) = {}
      /\ \A x \in Ids, k \in Keys :
           /\ <<x, k>> \in fresh => x \in Scanned /\ Holds(k, x)
           /\ x \in Scanned /\ Holds(k, x) => <<x, k>> \in fresh \/ Excused(x, k)
  BY <1>1, <1>2, BeforeRebuild DEF ToScan
<1>4. PICK r : r = [q EXCEPT !.pc = "replace"]
  OBVIOUS
<1>5. r \in FreshType /\ r.pc = "replace" /\ r.fresh = fresh
  BY <1>2, <1>3, <1>4 DEF FreshType
<1>6. th' = [th EXCEPT ![t] = r]
  BY <1>2, <1>4 DEF Collapse
<1>7. th' \in [Threads -> ThreadType] /\ th'[t] = r /\ \A u \in Threads : u # t => th'[u] = th[u]
  BY <1>5, <1>6, Before, Turn, Kinds
<1>8. RunsType(runs) /\ next_run \in Nat /\ exposed \subseteq Ids \X Keys
  BY DEF IInv, TypeInv, TypeOK
<1>9. RunsType(runs') /\ \A l : l \in AllLines(runs') => l \in AllLines(runs)
  <2>1. /\ DOMAIN runs' = DOMAIN runs \cap {next_run}
        /\ \A n \in DOMAIN runs' : runs'[n] = runs[n]
    BY <1>1
  <2>2. RunsType(runs')
    BY <1>8, <2>1 DEF RunsType
  <2>3. \A l : l \in AllLines(runs') <=> \E n \in DOMAIN runs' : l \in runs'[n]
    BY InLines
  <2>4. \A l : l \in AllLines(runs) <=> \E n \in DOMAIN runs : l \in runs[n]
    BY InLines
  <2> QED BY <2>1, <2>2, <2>3, <2>4
<1>10. \A x \in Ids, k \in Keys : <<x, k>> \in AllLines(runs') => Holds(k, x)
  BY <1>9 DEF IInv, RealInv
<1>11. /\ exposed \subseteq exposed' /\ exposed' \subseteq Ids \X Keys
       /\ th[t].fresh \subseteq AllLines(runs') \cup exposed'
  BY <1>1, <1>2, <1>3, <1>8
<1>12. /\ TypeInv' /\ CatalogInv' /\ RealInv' /\ KnownInv' /\ Keeps /\ SafeKept
       /\ \A x \in Ids, k \in Keys : Holds(k, x) => Safe(x, k)'
  <2>1. /\ next_run' \in Nat /\ current' \in {"none", "open", "torn", "unlinked"}
        /\ th[t].pc \in {"rebuild", "collapse"} /\ whole' \subseteq whole
        /\ UNCHANGED <<parts, saved, catalog, open, sites, acked, unsaved, reader, ops, faults>>
    BY <1>1, <1>8
  <2> QED BY <1>3, <1>7, <1>9, <1>10, <1>11, <2>1, RunsReplaced
<1>13. ThreadInv(t)'
  <2>1. \A x \in Ids, k \in Keys : Holds(k, x)' = Holds(k, x) /\ (Excused(x, k) => Excused(x, k)')
    BY <1>1 DEF Holds, Excused
  <2>2. RebuildInv(t)'
    BY <1>3, <1>5, <1>7, <1>12, <2>1 DEF RebuildInv, ToScan
  <2>3. AppendInv(t)' /\ ReadInv(t)'
    BY <1>5, <1>7 DEF AppendInv, ReadInv, Appending
  <2> QED BY <2>2, <2>3 DEF ThreadInv
<1> QED BY <1>7, <1>12, <1>13, StepDone

\* Replace: the new map has all that was acknowledged, since it was in the partitions.
LEMMA ReplaceStep ==
  ASSUME IInv, NEW t \in Threads, Replace(t)
  PROVE  IInv'
<1>1. /\ th[t].pc = "replace" /\ th' = [th EXCEPT ![t] = None]
      /\ UNCHANGED <<parts, runs, saved, catalog, open, next_run, current, whole, acked, exposed, unsaved,
                     reader, ops, faults>>
  BY DEF Replace, Returned, disk, handles, writer, history, bounds
<1>2. PICK fresh : fresh = th[t].fresh
  OBVIOUS
<1>3. /\ fresh \in SUBSET (Ids \X Keys) /\ Rebuilding
      /\ \A x \in Ids, k \in Keys :
           /\ <<x, k>> \in fresh => x \in Scanned /\ Holds(k, x) /\ Safe(x, k)
           /\ x \in Scanned /\ Holds(k, x) => <<x, k>> \in fresh \/ Excused(x, k)
  BY <1>1, <1>2, BeforeRebuild DEF ToScan
<1>4. PICK ids : ids = {l[1] : l \in fresh}
  OBVIOUS
<1>5. ids \subseteq Ids /\ \A x \in Ids : x \in ids <=> \E k \in Keys : <<x, k>> \in fresh
  <2>1. fresh \subseteq Ids \X Keys
    BY <1>3
  <2>2. ASSUME NEW x \in ids PROVE x \in Ids /\ \E k \in Keys : <<x, k>> \in fresh
    <3>1. PICK l \in fresh : x = l[1]
      BY <1>4
    <3>2. l = <<l[1], l[2]>> /\ l[1] \in Ids /\ l[2] \in Keys
      BY <2>1
    <3> QED BY <3>1, <3>2
  <2>3. ASSUME NEW x \in Ids, NEW k \in Keys, <<x, k>> \in fresh PROVE x \in ids
    <3>1. <<x, k>>[1] = x
      OBVIOUS
    <3> QED BY <1>4, <2>3, <3>1
  <2> QED BY <2>2, <2>3
<1>6. sites' = [x \in ids \cup (DOMAIN sites \ Scanned) |->
                  IF x \in Scanned THEN {l[2] : l \in {m \in fresh : m[1] = x}} ELSE sites[x]]
  BY <1>2, <1>4 DEF Replace
<1>7. DOMAIN sites \subseteq Ids /\ \A x \in DOMAIN sites : sites[x] \subseteq Keys
  BY DEF IInv, TypeInv, TypeOK
<1>8. ASSUME NEW x \in Ids
      PROVE  /\ x \in Scanned => \A k \in Keys : k \in SitesOf(x)' <=> <<x, k>> \in fresh
             /\ x \notin Scanned => SitesOf(x)' = SitesOf(x) /\ (x \in DOMAIN sites' <=> x \in DOMAIN sites)
             /\ x \in DOMAIN sites' => sites'[x] \subseteq Keys
  <2>1. \A k \in Keys : k \in {l[2] : l \in {m \in fresh : m[1] = x}} <=> <<x, k>> \in fresh
    BY <1>3
  <2>2. {l[2] : l \in {m \in fresh : m[1] = x}} \subseteq Keys
    BY <1>3
  <2>3. x \in DOMAIN sites' <=> x \in ids \/ (x \in DOMAIN sites /\ x \notin Scanned)
    BY <1>6
  <2>4. x \in ids => x \in Scanned
    BY <1>3, <1>5
  <2>5. x \in DOMAIN sites' => sites'[x] = IF x \in Scanned THEN {l[2] : l \in {m \in fresh : m[1] = x}}
                                           ELSE sites[x]
    BY <1>6
  <2>6. CASE x \in Scanned
    <3>1. SitesOf(x)' = IF x \in ids THEN {l[2] : l \in {m \in fresh : m[1] = x}} ELSE {}
      BY <2>3, <2>5, <2>6 DEF SitesOf
    <3> QED BY <1>5, <2>1, <2>2, <2>5, <2>6, <3>1
  <2>7. CASE x \notin Scanned
    BY <1>7, <2>3, <2>4, <2>5, <2>7 DEF SitesOf
  <2> QED BY <2>6, <2>7
<1>9. /\ th' \in [Threads -> ThreadType] /\ th'[t].pc = "idle"
      /\ \A u \in Threads : u # t => th'[u] = th[u]
      /\ (Rebuilding' => Rebuilding) /\ ThreadInv(t)'
  BY <1>1, Ends
<1>10. TypeInv'
  <2>1. DOMAIN sites' \subseteq Ids
    BY <1>5, <1>6, <1>7
  <2>2. \A x \in DOMAIN sites' : sites'[x] \subseteq Keys
    BY <1>8, <2>1
  <2> QED BY <1>1, <1>9, <2>1, <2>2 DEF IInv, TypeInv, TypeOK, RunsType
<1>11. \A x \in Ids, k \in Keys : (Holds(k, x)' <=> Holds(k, x)) /\ (Excused(x, k)' <=> Excused(x, k))
  BY <1>1 DEF Holds, Excused
<1>12. ASSUME NEW x \in Ids, NEW k \in Keys, Safe(x, k)
       PROVE  Safe(x, k)'
  <2>1. CASE Pending(x, k)
    <3>1. Pending(x, k)'
      BY <1>1, <1>9, <2>1 DEF Pending
    <3> QED BY <3>1 DEF Safe
  <2>2. CASE ~Pending(x, k)
    BY <1>1, <1>11, <1>12, <2>2 DEF Safe
  <2> QED BY <2>1, <2>2
<1>13. RealInv'
  <2>1. ASSUME NEW x \in Ids, NEW k \in Keys,
               \/ k \in SitesOf(x)' \/ <<x, k>> \in acked'
               \/ <<x, k>> \in AllLines(runs') \cup whole'
               \/ (reader.reading /\ <<x, k>> \in AllLines(reader.runs))
        PROVE  Holds(k, x)'
    BY <1>1, <1>3, <1>8, <1>11, <2>1 DEF IInv, RealInv
  <2> QED BY <1>1, <2>1 DEF RealInv
<1>14. KnownInv'
  <2>1. ASSUME NEW x \in Ids, NEW k \in Keys
        PROVE  /\ k \in SitesOf(x)' => Safe(x, k)'
               /\ <<x, k>> \in acked' =>
                    \/ Excused(x, k)' \/ k \in SitesOf(x)'
                    \/ (x \notin Scanned /\ x \notin DOMAIN sites')
    <3>1. <<x, k>> \in acked => Holds(k, x)
      BY DEF IInv, RealInv
    <3>2. CASE x \in Scanned
      BY <1>1, <1>3, <1>8, <1>11, <1>12, <3>1, <3>2
    <3>3. CASE x \notin Scanned
      BY <1>1, <1>8, <1>11, <1>12, <3>3 DEF IInv, KnownInv
    <3> QED BY <3>2, <3>3
  <2> QED BY <2>1 DEF KnownInv
<1>15. CatalogInv'
  BY <1>1, CatalogKept DEF IInv, CatalogInv
<1>16. Keeps
  BY <1>1, <1>3, <1>8, <1>11 DEF Keeps
<1>17. SafeKept
  BY <1>12 DEF SafeKept
<1> QED BY <1>9, <1>10, <1>13, <1>14, <1>15, <1>16, <1>17, StepDone

-----------------------------------------------------------------------------
(* Demotions *)

\* MarkCold: no partition leaves the catalog.
LEMMA MarkColdStep ==
  ASSUME IInv, NEW t \in Threads, NEW cutoff \in Keys, MarkCold(t, cutoff)
  PROVE  IInv'
<1>1. PICK demoted : demoted = {k \in DOMAIN catalog : k < cutoff /\ catalog[k] = "hot"}
  OBVIOUS
<1>2. /\ th[t].pc \in {"idle", "done"} /\ ops' = ops + 1 /\ saved' = catalog'
      /\ catalog' = [k \in DOMAIN catalog |-> IF k \in demoted THEN "cold" ELSE catalog[k]]
      /\ th' = [th EXCEPT ![t] = [pc |-> "evict", left |-> demoted]]
      /\ UNCHANGED <<parts, runs, open, sites, next_run, current, whole, acked, exposed, unsaved, reader,
                     faults>>
  BY <1>1 DEF MarkCold, writer, history
<1>3. PICK r : r = [pc |-> "evict", left |-> demoted]
  OBVIOUS
<1>4. r \in EvictType /\ r.pc = "evict"
  BY <1>1, <1>3, Before DEF EvictType, CatalogType
<1>5. th' \in [Threads -> ThreadType] /\ th'[t] = r /\ \A u \in Threads : u # t => th'[u] = th[u]
  BY <1>2, <1>3, <1>4, Before, Turn, Kinds
<1>6. (Rebuilding' <=> Rebuilding) /\ ThreadInv(t)'
  BY <1>2, <1>4, <1>5, SameRebuilding, AtRest
<1>7. DOMAIN catalog' = DOMAIN catalog /\ DOMAIN saved' = DOMAIN catalog
  BY <1>2
<1>8. CatalogType'
  BY <1>2, <1>7, Before DEF CatalogType
<1>9. TypeInv'
  BY <1>2, <1>5, <1>8, Before, QuietType DEF writer
<1>10. th[t].pc # "record" /\ DOMAIN saved \subseteq DOMAIN saved'
  BY <1>2, <1>7, Before
<1> QED BY <1>2, <1>5, <1>6, <1>7, <1>9, <1>10, QuietStep

\* Evict: handles leave the map of open partitions.
LEMMA EvictStep ==
  ASSUME IInv, NEW t \in Threads, Evict(t)
  PROVE  IInv'
<1>1. /\ th[t].pc = "evict" /\ open' = open \ th[t].left /\ th' = [th EXCEPT ![t] = None]
      /\ UNCHANGED <<parts, runs, saved, catalog, sites, next_run, current, whole, acked, exposed,
                     unsaved, reader, ops, faults>>
  BY DEF Evict, Returned, disk, writer, history, bounds
<1>2. /\ th' \in [Threads -> ThreadType] /\ \A u \in Threads : u # t => th'[u] = th[u]
      /\ (Rebuilding' => Rebuilding) /\ ThreadInv(t)'
  BY <1>1, Ends
<1>3. CatalogType'
  BY <1>1, Before DEF CatalogType
<1>4. TypeInv'
  BY <1>1, <1>2, <1>3, Before, QuietType DEF writer
<1> QED BY <1>1, <1>2, <1>4, Before, QuietStep

-----------------------------------------------------------------------------
(* The process that opens the ledger for reading *)

\* No thread of the writing process makes a step.
LEMMA BesideThreads ==
  ASSUME IInv, th' = th, UNCHANGED <<parts, saved, catalog, sites, acked, unsaved>>,
         exposed \subseteq exposed', whole' \subseteq whole, TypeInv',
         \A l : l \in AllLines(runs) => l \in AllLines(runs') \cup exposed',
         \A x \in Ids, k \in Keys :
           \/ <<x, k>> \in AllLines(runs')
           \/ (reader'.reading /\ <<x, k>> \in AllLines(reader'.runs))
           => Holds(k, x)
  PROVE  IInv'
<1>1. CatalogInv'
  BY CatalogKept DEF IInv, CatalogInv
<1>2. \A x \in Ids, k \in Keys : /\ SitesOf(x)' = SitesOf(x) /\ (Holds(k, x)' <=> Holds(k, x))
                                 /\ (Excused(x, k) => Excused(x, k)')
                                 /\ (Pending(x, k)' <=> Pending(x, k))
  BY DEF SitesOf, Holds, Excused, Pending
<1>3. ASSUME NEW x \in Ids, NEW k \in Keys, Safe(x, k)
      PROVE  Safe(x, k)'
  BY <1>2, <1>3 DEF Safe, Excused
<1>4. RealInv'
  <2>1. ASSUME NEW x \in Ids, NEW k \in Keys,
               \/ k \in SitesOf(x)' \/ <<x, k>> \in acked'
               \/ <<x, k>> \in AllLines(runs') \cup whole'
               \/ (reader'.reading /\ <<x, k>> \in AllLines(reader'.runs))
        PROVE  Holds(k, x)'
    BY <1>2, <2>1 DEF IInv, RealInv
  <2> QED BY <2>1 DEF RealInv
<1>5. KnownInv'
  <2>1. ASSUME NEW x \in Ids, NEW k \in Keys
        PROVE  /\ k \in SitesOf(x)' => Safe(x, k)'
               /\ <<x, k>> \in acked' =>
                    \/ Excused(x, k)' \/ k \in SitesOf(x)'
                    \/ (x \notin Scanned /\ x \notin DOMAIN sites')
    BY <1>2, <1>3 DEF IInv, KnownInv
  <2> QED BY <2>1 DEF KnownInv
<1>6. Rebuilding' <=> Rebuilding
  BY DEF Rebuilding
<1>7. Keeps
  BY <1>2, <1>6 DEF Keeps
<1>8. SafeKept
  BY <1>3 DEF SafeKept
<1>9. \A u \in Threads : ThreadInv(u)'
  BY <1>7, <1>8, OtherThread DEF IInv
<1> QED BY <1>1, <1>4, <1>5, <1>9 DEF IInv

\* ReaderLoads: what it has read is real.
LEMMA ReaderLoadsStep ==
  ASSUME IInv, ReaderLoads
  PROVE  IInv'
<1>1. /\ reader' = [reading |-> TRUE, runs |-> runs] /\ ops' = ops + 1
      /\ UNCHANGED <<parts, runs, saved, catalog, open, sites, next_run, current, whole, th, acked,
                     exposed, unsaved, faults>>
  BY DEF ReaderLoads, disk, process, handles, writer, history
<1>2. reader'.reading /\ reader'.runs = runs
  BY <1>1
<1>3. TypeInv'
  BY <1>1, <1>2 DEF IInv, TypeInv, TypeOK, RunsType
<1>4. \A x \in Ids, k \in Keys :
        \/ <<x, k>> \in AllLines(runs')
        \/ (reader'.reading /\ <<x, k>> \in AllLines(reader'.runs))
        => Holds(k, x)
  BY <1>1, <1>2 DEF IInv, RealInv
<1> QED BY <1>1, <1>3, <1>4, BesideThreads

\* ReaderCompacts: lines that were written since it read are lost, and marked.
LEMMA ReaderCompactsStep ==
  ASSUME IInv, ReaderCompacts
  PROVE  IInv'
<1>1. PICK read, merged : read = reader.runs /\ merged = NextRun(read)
  OBVIOUS
<1>2. /\ reader.reading /\ reader' = NoReader
      /\ runs' = [n \in (DOMAIN runs \ DOMAIN read) \cup {merged} |->
                    IF n = merged THEN AllLines(read) ELSE runs[n]]
      /\ current' \in {current, "unlinked"} /\ whole' \subseteq whole
      /\ exposed' = exposed \cup (AllLines(runs) \ AllLines(runs'))
      /\ UNCHANGED <<parts, saved, catalog, open, sites, next_run, th, acked, unsaved, ops, faults>>
  BY <1>1 DEF ReaderCompacts, Lost, handles, bounds
<1>3. ~reader'.reading /\ reader'.reading \in BOOLEAN
  BY <1>2 DEF NoReader
<1>4. RunsType(read) /\ RunsType(runs) /\ merged \in Nat
  BY <1>1, <1>2, NextRunIs DEF IInv, TypeInv
<1>5. PICK ls : ls = AllLines(read)
  OBVIOUS
<1>6. ls \subseteq Ids \X Keys
  BY <1>4, <1>5, InLines DEF RunsType
<1>7. /\ DOMAIN runs' = (DOMAIN runs \ DOMAIN read) \cup {merged}
      /\ \A n \in DOMAIN runs' : runs'[n] = IF n = merged THEN ls ELSE runs[n]
  BY <1>2, <1>5
<1>8. RunsType(runs')
  <2>1. PICK b \in Nat : \A n \in DOMAIN runs : n <= b
    BY <1>4 DEF RunsType
  <2>2. (b + merged) \in Nat /\ \A n \in DOMAIN runs' : n <= b + merged
    BY <1>4, <1>7, <2>1 DEF RunsType
  <2>3. DOMAIN runs' \subseteq Nat /\ \A n \in DOMAIN runs' : runs'[n] \subseteq Ids \X Keys
    BY <1>4, <1>6, <1>7 DEF RunsType
  <2> QED BY <2>2, <2>3 DEF RunsType
<1>9. \A l : l \in AllLines(runs') => l \in ls \/ l \in AllLines(runs)
  <2>1. \A l : l \in AllLines(runs') <=> \E n \in DOMAIN runs' : l \in runs'[n]
    BY InLines
  <2>2. \A l : l \in AllLines(runs) <=> \E n \in DOMAIN runs : l \in runs[n]
    BY InLines
  <2> QED BY <1>7, <2>1, <2>2
<1>10. \A x \in Ids, k \in Keys : <<x, k>> \in AllLines(runs') => Holds(k, x)
  <2>1. \A x \in Ids, k \in Keys : <<x, k>> \in ls \/ <<x, k>> \in AllLines(runs) => Holds(k, x)
    BY <1>1, <1>2, <1>5 DEF IInv, RealInv
  <2> QED BY <1>9, <2>1
<1>11. AllLines(runs) \subseteq Ids \X Keys
  BY <1>4, InLines DEF RunsType
<1>12. exposed \subseteq exposed' /\ \A l : l \in AllLines(runs) => l \in AllLines(runs') \cup exposed'
  BY <1>2
<1>13. TypeInv'
  <2>1. /\ exposed' \subseteq Ids \X Keys /\ current' \in {"none", "open", "torn", "unlinked"}
        /\ whole' \subseteq Ids \X Keys
    BY <1>2, <1>11 DEF IInv, TypeInv, TypeOK
  <2>2. DOMAIN runs' \subseteq Nat /\ \A n \in DOMAIN runs' : runs'[n] \subseteq Ids \X Keys
    BY <1>8 DEF RunsType
  <2>3. UNCHANGED <<parts, saved, catalog, open, sites, next_run, th, acked, unsaved, ops, faults>>
    BY <1>2
  <2> QED BY <1>3, <1>8, <2>1, <2>2, <2>3 DEF IInv, TypeInv, TypeOK
<1>14. /\ whole' \subseteq whole
       /\ UNCHANGED <<parts, saved, catalog, open, sites, next_run, th, acked, unsaved, ops, faults>>
  BY <1>2
<1> QED BY <1>3, <1>10, <1>12, <1>13, <1>14, BesideThreads

-----------------------------------------------------------------------------
(* Opening *)

\* A new process, after the end of one that left nothing pending that is not excused.
LEMMA OpenedStep ==
  ASSUME IInv, Opened, UNCHANGED <<parts, saved, acked, unsaved, reader>>,
         exposed \subseteq exposed', exposed' \subseteq Ids \X Keys,
         \A u \in Threads : InFlight(u) \subseteq exposed', ops' \in Nat, faults' \in Nat
  PROVE  IInv'
<1>1. /\ runs' = Compacted(runs) /\ catalog' = saved /\ open' = {} /\ sites' = Loaded(runs)
      /\ next_run' = NextRun(runs') /\ current' = "none" /\ whole' = {}
      /\ th' = [t \in Threads |-> None]
  BY DEF Opened
<1>2. RunsType(runs) /\ RunsType(runs') /\ \A l : l \in AllLines(runs') <=> l \in AllLines(runs)
  BY <1>1, CompactedIs DEF IInv, TypeInv
<1>3. next_run' \in Nat
  BY <1>1, <1>2, NextRunIs
<1>4. /\ th' \in [Threads -> ThreadType] /\ \A t \in Threads : th'[t].pc = "idle" /\ ThreadInv(t)'
  <2>1. th' \in [Threads -> ThreadType] /\ \A t \in Threads : th'[t].pc = "idle"
    BY <1>1, IdleIs
  <2> QED BY <2>1, AtRest
<1>5. TypeInv'
  <2>1. DOMAIN sites' \subseteq Ids /\ \A x \in DOMAIN sites' : sites'[x] \subseteq Keys
    BY <1>1, <1>2, LoadedType
  <2>2. DOMAIN runs' \subseteq Nat /\ \A n \in DOMAIN runs' : runs'[n] \subseteq Ids \X Keys
    BY <1>2 DEF RunsType
  <2>3. catalog' = saved /\ open' = {} /\ current' = "none" /\ whole' = {}
    BY <1>1
  <2> QED BY <1>2, <1>3, <1>4, <2>1, <2>2, <2>3 DEF IInv, TypeInv, TypeOK
<1>6. CatalogInv'
  BY <1>1, CatalogKept DEF IInv
<1>7. \A x \in Ids, k \in Keys :
        /\ k \in SitesOf(x)' <=> <<x, k>> \in AllLines(runs)
        /\ x \in DOMAIN sites' => \E j \in Keys : <<x, j>> \in AllLines(runs)
  <2>1. ASSUME NEW x \in Ids, NEW k \in Keys
        PROVE  /\ x \in DOMAIN sites' => \E j \in Keys : <<x, j>> \in AllLines(runs)
               /\ <<x, k>> \in AllLines(runs) <=> (x \in DOMAIN sites' /\ k \in sites'[x])
    BY <1>1, <1>2, LoadedIs
  <2> QED BY <2>1 DEF SitesOf
<1>8. \A x \in Ids, k \in Keys : (Holds(k, x)' <=> Holds(k, x)) /\ (Excused(x, k) => Excused(x, k)')
  BY DEF Holds, Excused
<1>9. RealInv'
  <2>1. ASSUME NEW x \in Ids, NEW k \in Keys,
               \/ k \in SitesOf(x)' \/ <<x, k>> \in acked'
               \/ <<x, k>> \in AllLines(runs') \cup whole'
               \/ (reader.reading /\ <<x, k>> \in AllLines(reader.runs))
        PROVE  Holds(k, x)'
    BY <1>1, <1>2, <1>7, <1>8, <2>1 DEF IInv, RealInv
  <2> QED BY <2>1 DEF RealInv
<1>10. KnownInv'
  <2>1. ASSUME NEW x \in Ids, NEW k \in Keys
        PROVE  /\ k \in SitesOf(x)' => Safe(x, k)'
               /\ <<x, k>> \in acked' =>
                    \/ Excused(x, k)' \/ k \in SitesOf(x)'
                    \/ (x \notin Scanned /\ x \notin DOMAIN sites')
    <3>1. k \in SitesOf(x)' => Safe(x, k)'
      BY <1>2, <1>7 DEF Safe
    <3>2. ASSUME <<x, k>> \in acked, x \in Scanned
          PROVE  Excused(x, k)' \/ k \in SitesOf(x)'
      <4>1. Excused(x, k) \/ Safe(x, k)
        BY <3>2 DEF IInv, KnownInv
      <4>2. CASE Pending(x, k)
        <5>1. PICK u \in Threads : /\ th[u].pc = "record" /\ th[u].key = k
                                   /\ x = Entries[th[u].item][th[u].n]
          BY <4>2 DEF Pending
        <5>2. <<x, k>> \in InFlight(u)
          BY <5>1, PendingIs DEF IInv
        <5> QED BY <5>2 DEF Excused
      <4>3. CASE Excused(x, k) \/ <<x, k>> \in AllLines(runs)
        BY <1>7, <1>8, <4>3
      <4> QED BY <3>2, <4>1, <4>2, <4>3 DEF Safe
    <3>3. ASSUME <<x, k>> \in acked, x \notin Scanned, x \in DOMAIN sites'
          PROVE  k \in SitesOf(x)'
      <4>1. PICK j \in Keys : <<x, j>> \in AllLines(runs)
        BY <1>7, <3>3
      <4>2. Holds(j, x) /\ Holds(k, x)
        BY <3>3, <4>1 DEF IInv, RealInv
      <4>3. j = k
        BY <3>3, <4>2, OneKey
      <4> QED BY <1>7, <4>1, <4>3
    <3> QED BY <3>1, <3>2, <3>3
  <2> QED BY <2>1 DEF KnownInv
<1> QED BY <1>4, <1>5, <1>6, <1>9, <1>10 DEF IInv

\* Reopen: nothing was under way.
LEMMA ReopenStep ==
  ASSUME IInv, Reopen
  PROVE  IInv'
<1>1. /\ Opened /\ UNCHANGED <<parts, saved, acked, exposed, unsaved, reader, faults>> /\ ops' = ops + 1
      /\ \A t \in Threads : th[t].pc \in {"idle", "done"}
  BY DEF Reopen, history
<1>2. \A u \in Threads : InFlight(u) \subseteq exposed'
  BY <1>1 DEF InFlight
<1>3. exposed \subseteq Ids \X Keys /\ ops \in Nat /\ faults \in Nat
  BY DEF IInv, TypeInv, TypeOK
<1> QED BY <1>1, <1>2, <1>3, OpenedStep

\* Kill: what was under way is marked.
LEMMA KillStep ==
  ASSUME IInv, Kill
  PROVE  IInv'
<1>1. /\ Opened /\ UNCHANGED <<parts, saved, acked, unsaved, reader, ops>> /\ faults' = faults + 1
      /\ exposed' = exposed \cup UNION {InFlight(u) : u \in Threads}
  BY DEF Kill
<1>2. exposed \subseteq Ids \X Keys /\ ops \in Nat /\ faults \in Nat
  BY DEF IInv, TypeInv, TypeOK
<1>3. /\ \A u \in Threads : InFlight(u) \subseteq exposed'
      /\ exposed \subseteq exposed' /\ exposed' \subseteq Ids \X Keys
  BY <1>1, <1>2, FlightsType
<1> QED BY <1>1, <1>2, <1>3, OpenedStep

-----------------------------------------------------------------------------
(* The theorems *)

\* The invariant holds of an empty ledger.
LEMMA InitHolds ==
  ASSUME Init
  PROVE  IInv
<1>1. th \in [Threads -> ThreadType] /\ \A t \in Threads : th[t].pc = "idle"
  BY IdleIs DEF Init
<1>2. DOMAIN Nothing = {}
  BY DEF Nothing
<1>3. runs = Nothing /\ sites = Nothing /\ saved = Nothing /\ catalog = Nothing
  BY DEF Init
<1>4. RunsType(runs)
  BY <1>2, <1>3 DEF RunsType
<1>5. ~reader.reading /\ reader.reading \in BOOLEAN
  BY DEF Init, NoReader
<1>6. TypeOK
  BY <1>2, <1>3, <1>4 DEF Init, TypeOK, RunsType
<1>7. TypeInv
  BY <1>1, <1>4, <1>5, <1>6 DEF TypeInv, Init
<1>8. CatalogInv
  BY <1>2, <1>3 DEF Init, CatalogInv, DataIsListed
<1>9. \A x \in Ids : SitesOf(x) = {} /\ \A k \in Keys : <<x, k>> \notin AllLines(runs) \cup acked \cup whole
  BY <1>2, <1>3, InLines DEF Init, SitesOf
<1>10. RealInv
  BY <1>5, <1>9 DEF RealInv
<1>11. KnownInv
  BY <1>9 DEF KnownInv
<1>12. \A t \in Threads : ThreadInv(t)
  BY <1>1 DEF ThreadInv, AppendInv, ReadInv, RebuildInv, Appending
<1> QED BY <1>7, <1>8, <1>10, <1>11, <1>12 DEF IInv

\* Every step of a thread keeps the invariant.
LEMMA StepKeeps ==
  ASSUME IInv, NEW t \in Threads, Step(t)
  PROVE  IInv'
<1>1. CASE \E i \in Items : \E k \in Keys : BeginAppend(t, i, k)
  BY <1>1, BeginAppendStep
<1>2. CASE Lookup(t) \/ Register(t) \/ RegisterFails(t) \/ OpenPartition(t)
  BY <1>2, LookupStep, RegisterStep, RegisterFailsStep, OpenPartitionStep
<1>3. CASE Append_(t) \/ AppendFails(t) \/ InsertSite(t)
  BY <1>3, AppendStep, AppendFailsStep, InsertSiteStep
<1>4. CASE Record(t) \/ RecordFails(t) \/ EndAppend(t)
  BY <1>4, RecordStep, RecordFailsStep, EndAppendStep
<1>5. CASE \E x \in Ids : BeginRead(t, x)
  BY <1>5, BeginReadStep
<1>6. CASE Check(t) \/ Heal(t) \/ HealFails(t) \/ Merge(t)
  BY <1>6, CheckStep, HealStep, HealFailsStep, MergeStep
<1>7. CASE BeginRebuild(t) \/ Rescan(t) \/ WriteFresh(t) \/ Collapse(t) \/ Replace(t)
  BY <1>7, BeginRebuildStep, RescanStep, WriteFreshStep, CollapseStep, ReplaceStep
<1>8. CASE \E k \in Keys : MarkCold(t, k)
  BY <1>8, MarkColdStep
<1>9. CASE Evict(t)
  BY <1>9, EvictStep
<1> QED BY <1>1, <1>2, <1>3, <1>4, <1>5, <1>6, <1>7, <1>8, <1>9 DEF Step

\* Nothing happens.
LEMMA Stutter ==
  ASSUME IInv, UNCHANGED vars
  PROVE  IInv'
<1>1. UNCHANGED <<parts, runs, saved, catalog, open, sites, next_run, current, whole, th, acked, exposed,
                  unsaved, reader, ops, faults>>
  BY DEF vars, disk, process, handles, writer, history, bounds
<1>2. TypeInv'
  BY <1>1 DEF IInv, TypeInv, TypeOK, RunsType
<1>3. \A x \in Ids, k \in Keys :
        \/ <<x, k>> \in AllLines(runs')
        \/ (reader'.reading /\ <<x, k>> \in AllLines(reader'.runs))
        => Holds(k, x)
  BY <1>1 DEF IInv, RealInv
<1> QED BY <1>1, <1>2, <1>3, BesideThreads

\* The inductive invariant: what threads, map, run files and catalog know of each other, for
\* every interleaving of appends, lookups, rebuilds, demotions, kills and read-only opens.
THEOREM Invariant == Spec => []IInv
<1>1. Init => IInv
  BY InitHolds
<1>2. IInv /\ [Next]_vars => IInv'
  <2>1. ASSUME IInv, Next PROVE IInv'
    BY <2>1, ReopenStep, KillStep, ReaderLoadsStep, ReaderCompactsStep, StepKeeps DEF Next
  <2> QED BY <2>1, Stutter
<1> QED BY <1>1, <1>2, PTL DEF Spec

\* The state of the ledger, of its files and of its index is always of its type.
THEOREM TypeCorrect == Spec => []TypeOK
<1>1. IInv => TypeOK
  BY DEF IInv, TypeInv
<1> QED BY <1>1, Invariant, PTL

\* A lookup that is done names every partition in which the id had been stored when it began,
\* with the exceptions that ReadsFindAcked names (resolve_sites beside append, rebuild, restart).
THEOREM ReadsFind == Spec => []ReadsFindAcked
<1>1. IInv => ReadsFindAcked
  <2>1. SUFFICES ASSUME IInv, NEW t \in Threads, th[t].pc = "done", NEW k \in th[t].must
                 PROVE  k \in th[t].found \/ <<th[t].id, k>> \in exposed \/ k \in unsaved
    BY DEF ReadsFindAcked
  <2>2. th[t].id \in Ids /\ th[t].must \in SUBSET Keys
    BY <2>1, Before, ThreadAt, AnswerFields
  <2> QED BY <2>1, <2>2, Before DEF ThreadInv, ReadInv, ToCheck, Excused
<1> QED BY <1>1, Invariant, PTL

\* A lookup never names a partition that does not have the id.
THEOREM SitesReal == Spec => []SitesAreReal
<1>1. IInv => SitesAreReal
  <2>1. SUFFICES ASSUME IInv, NEW t \in Threads, th[t].pc = "done", NEW k \in th[t].found
                 PROVE  Holds(k, th[t].id)
    BY DEF SitesAreReal
  <2>2. th[t].id \in Ids /\ th[t].found \in SUBSET Keys
    BY <2>1, Before, ThreadAt, AnswerFields
  <2> QED BY <2>1, <2>2, Before DEF ThreadInv, ReadInv
<1> QED BY <1>1, Invariant, PTL

\* Every partition with data is in catalog.json, unless saving the catalog for it failed.
THEOREM DataListed == Spec => []DataIsListed
<1>1. IInv => DataIsListed
  BY DEF IInv, CatalogInv
<1> QED BY <1>1, Invariant, PTL
=============================================================================
