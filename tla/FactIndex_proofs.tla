-------------------------- MODULE FactIndex_proofs --------------------------
(***************************************************************************)
(* The index of a fact ledger is complete, for any number of sort orders,  *)
(* readers, batches, crashes and changes of the format.                    *)
(*                                                                         *)
(* The argument: the name of a flushed run is new, so that writing it      *)
(* destroys nothing (NamesInv).  As long as no file with entries has been  *)
(* removed behind the writer's back, its runs are files and hold all that  *)
(* its memtable does not (CoverInv).  What a reader has listed and not yet *)
(* opened is there with at least the entries it had, or it is missed and   *)
(* the open fails (Promised).                                              *)
(***************************************************************************)
EXTENDS FactIndex, FiniteSetTheorems, TLAPS

\* A batch has its entries of sort order o in one of these runs.
Has(fs, o, t) == \E f \in fs : f.order = o /\ t \in f.txs

\* Every batch up to n has, in every sort order.
Complete(fs, n) == \A o \in Orders : \A t \in 1..n : Has(fs, o, t)

\* What is known of the files' names, and of the run that is being written.
NamesInv ==
  /\ \A f, g \in files : f.order = g.order /\ f.name = g.name => f = g
  /\ \A f \in files : f.name <= sealed /\ (f.whole => f.txs # {})
  /\ \A f \in runs : f.whole /\ f.txs # {}
  /\ pc \in {"flush", "run"} =>
       \A f \in files : f.name = tx /\ f.order >= at => pc = "run" /\ f.order = at /\ f.txs = {} /\ ~f.whole

\* The runs of a sort order are being replaced by one.
Moving == {"merging", "heal_merging"}

\* Where the writer is.
PlaceInv ==
  /\ pc \in {"closed", "load", "idle"} => at = 1
  /\ pc = "closed" => runs = {}
  /\ pc \in {"flush", "run", "marker"} => sealed = tx /\ memtable # {}
  /\ pc \in {"run", "merging", "heal_merging"} => at \in Orders
  /\ pc \in Moving => \E f \in runs : f.order = at
  /\ pc = "marker" => at > NumOrders
  /\ pc \in {"merge", "merging"} => last_tx = tx /\ memtable = {}

\* The writer's runs, its memtable and the files, unless a file has been removed.
CoverInv ==
  ~torn_dir =>
    /\ pc \notin Moving \cup {"removing"} => Complete(files, last_tx)
    /\ pc \in Moving \cup {"load", "heal", "merge"} => Complete(runs, last_tx)
    /\ pc \in {"idle", "flush", "run", "marker"} =>
         \A o \in Orders : \A t \in 1..tx : t \in memtable \/ Has(runs, o, t)
    /\ pc \in {"flush", "run", "marker"} =>
         \A o \in Orders : o < at => \A t \in memtable : Has(runs, o, t)
    /\ pc # "removing" => \A f \in runs : f \in files \/ (pc \in Moving /\ f.order = at)

RestType == [pc : {"idle", "store", "tail"}]
ListType == [pc : {"list"}, tx : 0..tx, sealed : 0..sealed]
OpenType == [pc : {"open", "remove"}, tx : 0..tx, sealed : 0..sealed, listed : SUBSET (Orders \X Nat),
             runs : SUBSET FileType, clean : BOOLEAN, odd : BOOLEAN]
InnerType == [live : BOOLEAN, tx : 0..tx, sealed : 0..sealed, runs : SUBSET FileType,
              memtable : SUBSET (1..tx), marker : Nat, odd : BOOLEAN]

\* The name of a listed file is not that of a run still to be created ...
Known(n) ==
  /\ n[2] <= sealed
  /\ pc \in {"flush", "run"} /\ n[2] = tx => n[1] < at \/ (pc = "run" /\ n[1] = at)

\* ... and under it there is a file with the batch, or none that can be read.
Promised(n, t) ==
  /\ ~(pc = "run" /\ n[1] = at /\ n[2] = tx)
  /\ \A f \in files : f.order = n[1] /\ f.name = n[2] /\ f.whole => t \in f.txs

\* The open of a reader under way has the batches, or has listed a file with them.
OpenInv(r) ==
  ro[r].pc \in {"open", "remove"} =>
    /\ \A n \in ro[r].listed : Known(n)
    /\ ~torn_dir /\ ~ro[r].odd /\ ro[r].clean =>
         \A o \in Orders : \A t \in 1..last_tx :
           Has(ro[r].runs, o, t) \/ \E n \in ro[r].listed : n[1] = o /\ Promised(n, t)

\* The handle of a reader.
InnerInv(r) ==
  /\ rd[r].memtable \in SUBSET (1..rd[r].tx)
  /\ ~rd[r].odd =>
       \A o \in Orders : \A t \in 1..rd[r].tx : t \in rd[r].memtable \/ Has(rd[r].runs, o, t)

ReadersType == rd \in [Readers -> InnerType] /\ ro \in [Readers -> RestType \cup ListType \cup OpenType]

\* The inductive invariant.
IInv ==
  /\ TypeOK /\ ReadersType /\ NamesInv /\ PlaceInv /\ CoverInv
  /\ \A r \in Readers : OpenInv(r) /\ InnerInv(r)

-----------------------------------------------------------------------------
(* Types and frames *)

\* What the type invariant says of the writer and the directory.
WriterType ==
  /\ tx \in Nat /\ base \in 0..tx /\ sealed \in 0..tx /\ last_tx \in 0..tx
  /\ at \in 1..(NumOrders + 1) /\ crashes \in Nat /\ upgrades \in Nat /\ opens \in Nat
  /\ files \in SUBSET FileType /\ runs \in SUBSET FileType
  /\ memtable \in SUBSET (1..tx)
  /\ pc \in WriterStates /\ torn_dir \in BOOLEAN

\* What the type invariant says of one file.
LEMMA FileAt ==
  ASSUME NEW f \in FileType
  PROVE  f.order \in Orders /\ f.name \in Nat /\ f.txs \in SUBSET (1..tx) /\ f.whole \in BOOLEAN
BY DEF FileType

\* What a run that is written consists of.
LEMMA RunFileAt ==
  ASSUME NEW o \in Orders, NEW n \in Nat, NEW t \in SUBSET (1..tx), NEW ok \in BOOLEAN
  PROVE  /\ RunFile(o, n, t, ok) \in FileType
         /\ RunFile(o, n, t, ok).order = o /\ RunFile(o, n, t, ok).name = n
         /\ RunFile(o, n, t, ok).txs = t /\ RunFile(o, n, t, ok).whole = ok
BY DEF RunFile, FileType

\* The type of the whole state after a step, from its parts.
LEMMA TypeParts ==
  ASSUME WriterType', ReadersType', \A r \in Readers : InnerInv(r)'
  PROVE  TypeOK'
<1>1. ASSUME NEW r \in Readers
      PROVE  /\ rd'[r].tx \in 0..tx' /\ rd'[r].sealed \in 0..sealed'
             /\ rd'[r].runs \in SUBSET FileType' /\ rd'[r].memtable \in SUBSET (1..rd'[r].tx)
             /\ ro'[r].pc \in {"idle", "store", "list", "open", "remove", "tail"}
  <2>1. rd'[r] \in InnerType' /\ ro'[r] \in RestType' \cup ListType' \cup OpenType'
    BY DEF ReadersType
  <2>2. rd'[r].tx \in 0..tx' /\ rd'[r].sealed \in 0..sealed' /\ rd'[r].runs \in SUBSET FileType'
    BY <2>1 DEF InnerType
  <2>3. ro'[r].pc \in {"idle", "store", "list", "open", "remove", "tail"}
    BY <2>1 DEF RestType, ListType, OpenType
  <2> QED BY <2>2, <2>3 DEF InnerInv
<1> QED BY <1>1 DEF TypeOK, WriterType

\* The invariant without its reader part.
LEMMA Parts ==
  ASSUME IInv
  PROVE  WriterType /\ ReadersType /\ NamesInv /\ PlaceInv /\ CoverInv
BY DEF IInv, TypeOK, WriterType

\* A ledger that grows makes room for more.
LEMMA TypesGrow ==
  ASSUME tx \in Nat, sealed \in Nat, tx' \in Nat, sealed' \in Nat, tx <= tx', sealed <= sealed'
  PROVE  /\ FileType \subseteq FileType' /\ RestType \subseteq RestType'
         /\ ListType \subseteq ListType' /\ OpenType \subseteq OpenType'
         /\ InnerType \subseteq InnerType'
<1>1. 0..tx \subseteq 0..tx' /\ 1..tx \subseteq 1..tx' /\ 0..sealed \subseteq 0..sealed'
  OBVIOUS
<1>2. FileType \subseteq FileType'
  BY <1>1 DEF FileType
<1>3. RestType \subseteq RestType'
  BY DEF RestType
<1>4. ListType \subseteq ListType'
  BY <1>1 DEF ListType
<1>5. OpenType \subseteq OpenType'
  <2> DEFINE F == FileType
             G == FileType'
  <2>1. F \subseteq G
    BY <1>2
  <2> HIDE DEF F, G
  <2>2. [pc : {"open", "remove"}, tx : 0..tx, sealed : 0..sealed, listed : SUBSET (Orders \X Nat),
         runs : SUBSET F, clean : BOOLEAN, odd : BOOLEAN] \subseteq
        [pc : {"open", "remove"}, tx : 0..tx', sealed : 0..sealed', listed : SUBSET (Orders \X Nat),
         runs : SUBSET G, clean : BOOLEAN, odd : BOOLEAN]
    BY <1>1, <2>1
  <2> QED BY <2>2 DEF OpenType, F, G
<1>6. InnerType \subseteq InnerType'
  <2> DEFINE F == FileType
             G == FileType'
  <2>1. F \subseteq G
    BY <1>2
  <2> HIDE DEF F, G
  <2>2. [live : BOOLEAN, tx : 0..tx, sealed : 0..sealed, runs : SUBSET F,
         memtable : SUBSET (1..tx), marker : Nat, odd : BOOLEAN] \subseteq
        [live : BOOLEAN, tx : 0..tx', sealed : 0..sealed', runs : SUBSET G,
         memtable : SUBSET (1..tx'), marker : Nat, odd : BOOLEAN]
    BY <1>1, <2>1
  <2> QED BY <2>2 DEF InnerType, F, G
<1> QED BY <1>2, <1>3, <1>4, <1>5, <1>6

\* What the type invariant says of the open of a reader.
LEMMA OpenAt ==
  ASSUME ReadersType, NEW r \in Readers, ro[r].pc \in {"open", "remove"}
  PROVE  ro[r] \in OpenType
BY DEF ReadersType, RestType, ListType, OpenType

\* The promises to the readers are kept by the step.
Kept ==
  /\ \A n \in Orders \X Nat : Known(n) => Known(n)'
  /\ ~torn_dir' => \/ last_tx' = 0
                   \/ /\ ~torn_dir /\ last_tx' = last_tx
                      /\ \A n \in Orders \X Nat : \A t \in 1..last_tx :
                           Known(n) /\ Promised(n, t) => Promised(n, t)'

\* A reader that does nothing itself.
LEMMA OtherReader ==
  ASSUME IInv, NEW r \in Readers, rd'[r] = rd[r], ro'[r] = ro[r], Kept
  PROVE  OpenInv(r)' /\ InnerInv(r)'
<1>1. OpenInv(r) /\ InnerInv(r) /\ ReadersType
  BY DEF IInv
<1>2. InnerInv(r)'
  BY <1>1 DEF InnerInv, Has
<1>3. ASSUME ro[r].pc \in {"open", "remove"} PROVE OpenInv(r)'
  <2>1. ro[r].listed \subseteq Orders \X Nat
    BY <1>1, <1>3, OpenAt DEF OpenType
  <2>2. \A n \in ro[r].listed : Known(n) /\ Known(n)'
    BY <1>1, <1>3, <2>1 DEF OpenInv, Kept
  <2>3. ASSUME ~torn_dir', ~ro[r].odd, ro[r].clean, NEW o \in Orders, NEW t \in 1..last_tx'
        PROVE  Has(ro[r].runs, o, t) \/ \E n \in ro[r].listed : n[1] = o /\ Promised(n, t)'
    <3>1. last_tx' # 0
      BY <2>3
    <3>2. /\ ~torn_dir /\ last_tx' = last_tx
          /\ \A n \in Orders \X Nat : \A i \in 1..last_tx : Known(n) /\ Promised(n, i) => Promised(n, i)'
      BY <2>3, <3>1 DEF Kept
    <3>3. Has(ro[r].runs, o, t) \/ \E n \in ro[r].listed : n[1] = o /\ Promised(n, t)
      BY <1>1, <1>3, <2>3, <3>2 DEF OpenInv
    <3> QED BY <2>1, <2>2, <2>3, <3>2, <3>3
  <2>4. ~torn_dir' /\ ~ro[r].odd /\ ro[r].clean =>
          \A o \in Orders : \A t \in 1..last_tx' :
            Has(ro[r].runs, o, t) \/ \E n \in ro[r].listed : n[1] = o /\ Promised(n, t)'
    BY <2>3
  <2> QED BY <2>2, <2>4 DEF OpenInv, Has
<1>4. ro[r].pc \notin {"open", "remove"} => OpenInv(r)'
  BY DEF OpenInv
<1> QED BY <1>2, <1>3, <1>4

\* A step of the writer that readers do not take part in.
LEMMA WriterStep ==
  ASSUME IInv, UNCHANGED readers, WriterType', tx <= tx', sealed <= sealed', NamesInv', PlaceInv',
         CoverInv', Kept
  PROVE  IInv'
<1>1. rd' = rd /\ ro' = ro /\ ReadersType
  BY DEF readers, IInv
<1>2. ReadersType'
  <2>1. /\ RestType \subseteq RestType' /\ ListType \subseteq ListType'
        /\ OpenType \subseteq OpenType' /\ InnerType \subseteq InnerType'
    <3>1. tx \in Nat /\ sealed \in Nat /\ tx' \in Nat /\ sealed' \in Nat
      BY Parts DEF WriterType
    <3> QED BY <3>1, TypesGrow
  <2>2. rd \in [Readers -> InnerType'] /\ ro \in [Readers -> RestType' \cup ListType' \cup OpenType']
    BY <1>1, <2>1 DEF ReadersType
  <2> QED BY <1>1, <2>2 DEF ReadersType
<1>3. \A r \in Readers : OpenInv(r)' /\ InnerInv(r)'
  BY <1>1, OtherReader
<1>4. TypeOK'
  <2>1. \A r \in Readers : InnerInv(r)'
    BY <1>3
  <2> QED BY <1>2, <2>1, TypeParts
<1> QED BY <1>2, <1>3, <1>4 DEF IInv

\* What the type invariant says of every file and run.
LEMMA FilesAt ==
  ASSUME WriterType, NEW f \in files \cup runs
  PROVE  f.order \in Orders /\ f.name \in Nat /\ f.txs \in SUBSET (1..tx) /\ f.whole \in BOOLEAN
<1>1. f \in FileType
  BY DEF WriterType
<1> QED BY <1>1, FileAt

\* A change of the directory alone leaves room for the same files.
LEMMA SameFiles == UNCHANGED tx => FileType' = FileType
BY DEF FileType

-----------------------------------------------------------------------------
(* Steps of open_writable *)

\* What is deleted had no entries, or torn_dir says so.
LEMMA OpenRunsStep ==
  ASSUME IInv, OpenRuns
  PROVE  IInv'
<1>1. WriterType /\ NamesInv /\ PlaceInv /\ CoverInv
  BY Parts
<1>2. /\ pc = "closed" /\ files' = Whole(files) /\ runs' = Whole(files)
      /\ pc' \in {"load", "heal"} /\ torn_dir' = (torn_dir \/ \E f \in files \ files' : f.txs # {})
      /\ UNCHANGED <<tx, sealed, base, last_tx, memtable, at, crashes, upgrades, rd, ro, opens>>
  BY DEF OpenRuns, store, bounds, readers
<1>3. \A f : f \in files' <=> f \in files /\ f.whole
  BY <1>2 DEF Whole
<1>4. ~torn_dir' => ~torn_dir /\ \A o, t : Has(files, o, t) => Has(files', o, t)
  BY <1>2 DEF Has
<1>5. WriterType'
  <2>1. files' \in SUBSET FileType' /\ runs' \in SUBSET FileType'
    BY <1>1, <1>2, <1>3, SameFiles DEF WriterType
  <2>2. torn_dir' \in BOOLEAN /\ pc' \in WriterStates
    BY <1>2 DEF WriterStates
  <2> QED BY <1>1, <1>2, <2>1, <2>2 DEF WriterType
<1>6. NamesInv'
  BY <1>1, <1>2, <1>3 DEF NamesInv
<1>7. PlaceInv'
  BY <1>1, <1>2 DEF PlaceInv, Moving
<1>8. CoverInv'
  BY <1>1, <1>2, <1>4 DEF CoverInv, Complete, Moving
<1>9. Kept
  BY <1>2, <1>3, <1>4 DEF Kept, Known, Promised
<1> QED BY <1>1, <1>2, <1>5, <1>6, <1>7, <1>8, <1>9, WriterStep DEF readers, WriterType

LEMMA RemoveSomeStep ==
  ASSUME IInv, RemoveSome
  PROVE  IInv'
<1>1. WriterType /\ NamesInv /\ PlaceInv /\ CoverInv
  BY Parts
<1>2. /\ pc = "heal" /\ files' \subseteq files /\ last_tx' \in {0, last_tx} /\ pc' = "removing"
      /\ UNCHANGED <<tx, sealed, base, runs, memtable, at, crashes, upgrades, torn_dir, rd, ro, opens>>
  BY DEF RemoveSome, store, bounds, readers
<1>3. WriterType'
  <2>1. files' \in SUBSET FileType' /\ runs' \in SUBSET FileType'
    BY <1>1, <1>2, SameFiles DEF WriterType
  <2>2. pc' \in WriterStates /\ last_tx' \in 0..tx
    BY <1>1, <1>2 DEF WriterStates, WriterType
  <2> QED BY <1>1, <1>2, <2>1, <2>2 DEF WriterType
<1>4. NamesInv' /\ PlaceInv'
  BY <1>1, <1>2 DEF NamesInv, PlaceInv, Moving
<1>5. CoverInv'
  BY <1>2 DEF CoverInv, Moving
<1>6. Kept
  BY <1>2 DEF Kept, Known, Promised
<1> QED BY <1>1, <1>2, <1>3, <1>4, <1>5, <1>6, WriterStep DEF readers, WriterType

LEMMA RecreateStep ==
  ASSUME IInv, Recreate
  PROVE  IInv'
<1>1. WriterType /\ NamesInv /\ PlaceInv /\ CoverInv
  BY Parts
<1>2. /\ pc = "removing" /\ files' = {} /\ last_tx' = 0 /\ runs' = {} /\ at' = 1 /\ pc' = "load"
      /\ torn_dir' = FALSE
      /\ UNCHANGED <<tx, sealed, base, memtable, crashes, upgrades, rd, ro, opens>>
  BY DEF Recreate, store, bounds, readers
<1>3. WriterType'
  <2>1. files' \in SUBSET FileType' /\ runs' \in SUBSET FileType' /\ at' \in 1..(NumOrders + 1)
    BY <1>2, ConstantsAssumption
  <2>2. last_tx' \in 0..tx' /\ pc' \in WriterStates
    BY <1>1, <1>2 DEF WriterType, WriterStates
  <2>3. torn_dir' \in BOOLEAN
    BY Zenon DEF Recreate
  <2> QED BY <1>1, <1>2, <2>1, <2>2, <2>3 DEF WriterType
<1>4. NamesInv' /\ PlaceInv'
  BY <1>1, <1>2 DEF NamesInv, PlaceInv, Moving
<1>5. CoverInv'
  BY <1>2 DEF CoverInv, Moving, Complete
<1>6. Kept
  BY <1>2 DEF Kept, Known
<1> QED BY <1>1, <1>2, <1>3, <1>4, <1>5, <1>6, WriterStep DEF readers, WriterType

LEMMA LoadMemtableStep ==
  ASSUME IInv, LoadMemtable
  PROVE  IInv'
<1>1. WriterType /\ NamesInv /\ PlaceInv /\ CoverInv
  BY Parts
<1>2. /\ pc = "load" /\ memtable' = {t \in 1..tx : t > last_tx} /\ pc' = "idle"
      /\ UNCHANGED <<tx, sealed, base, files, last_tx, runs, at, crashes, upgrades, torn_dir, rd, ro, opens>>
  BY DEF LoadMemtable, After, store, bounds, readers
<1>3. WriterType'
  <2>1. files' \in SUBSET FileType' /\ runs' \in SUBSET FileType'
    BY <1>1, <1>2, SameFiles DEF WriterType
  <2> QED BY <1>1, <1>2, <2>1 DEF WriterType, WriterStates
<1>4. NamesInv' /\ PlaceInv'
  BY <1>1, <1>2 DEF NamesInv, PlaceInv, Moving
<1>5. CoverInv'
  <2>1. ~torn_dir => \A o \in Orders : \A t \in 1..tx : t \in memtable' \/ Has(runs, o, t)
    BY <1>1, <1>2 DEF CoverInv, Complete, WriterType
  <2> QED BY <1>1, <1>2, <2>1 DEF CoverInv, Complete, Moving
<1>6. Kept
  BY <1>2 DEF Kept, Known, Promised
<1> QED BY <1>1, <1>2, <1>3, <1>4, <1>5, <1>6, WriterStep DEF readers, WriterType

-----------------------------------------------------------------------------
(* Steps of an append and its flush *)

\* The name of the run to come is above all there are.
LEMMA AppendStep ==
  ASSUME IInv, Append
  PROVE  IInv'
<1>1. WriterType /\ NamesInv /\ PlaceInv /\ CoverInv
  BY Parts
<1>2. /\ pc = "idle" /\ tx' = tx + 1 /\ memtable' = memtable \cup {tx + 1}
      /\ (pc' = "idle" /\ sealed' = sealed) \/ (pc' = "flush" /\ sealed' = tx + 1)
      /\ UNCHANGED <<base, files, last_tx, runs, at, crashes, upgrades, torn_dir, rd, ro, opens>>
  BY DEF Append, store, bounds, readers
<1>3. /\ tx \in Nat /\ sealed \in 0..tx /\ tx' \in Nat /\ tx <= tx' /\ sealed <= sealed'
      /\ sealed \in Nat /\ sealed' \in Nat /\ sealed' \in 0..tx' /\ at = 1
  BY <1>1, <1>2 DEF WriterType, PlaceInv
<1>4. WriterType'
  <2>1. files' \in SUBSET FileType' /\ runs' \in SUBSET FileType'
    BY <1>1, <1>2, <1>3, TypesGrow DEF WriterType
  <2>2. base' \in 0..tx' /\ last_tx' \in 0..tx' /\ memtable' \in SUBSET (1..tx')
    BY <1>1, <1>2 DEF WriterType
  <2> QED BY <1>1, <1>2, <1>3, <2>1, <2>2 DEF WriterType, WriterStates
<1>5. NamesInv'
  <2>1. \A f \in files : f.name \in Nat /\ f.name <= sealed
    BY <1>1, FilesAt DEF NamesInv
  <2>2. \A f \in files : f.name <= sealed' /\ f.name # tx'
    BY <1>2, <1>3, <2>1
  <2> QED BY <1>1, <1>2, <2>2 DEF NamesInv
<1>6. PlaceInv'
  BY <1>1, <1>2, <1>3 DEF PlaceInv, Moving
<1>7. CoverInv'
  <2>1. ~torn_dir => \A o \in Orders : \A t \in 1..tx' : t \in memtable' \/ Has(runs, o, t)
    BY <1>1, <1>2, <1>3 DEF CoverInv
  <2> QED BY <1>1, <1>2, <1>3, <2>1 DEF CoverInv, Complete, Moving, Orders
<1>8. Kept
  <2>1. \A n \in Orders \X Nat : Known(n) => Known(n)'
    <3>1. \A n \in Orders \X Nat : n[2] \in Nat
      OBVIOUS
    <3>2. \A i \in Nat : i <= sealed => i <= sealed' /\ i # tx'
      BY <1>2, <1>3
    <3> QED BY <3>1, <3>2 DEF Known
  <2> QED BY <1>2, <2>1 DEF Kept, Promised
<1> QED BY <1>1, <1>2, <1>3, <1>4, <1>5, <1>6, <1>7, <1>8, WriterStep DEF readers

LEMMA SealAndFlushStep ==
  ASSUME IInv, SealAndFlush
  PROVE  IInv'
<1>1. WriterType /\ NamesInv /\ PlaceInv /\ CoverInv
  BY Parts
<1>2. /\ pc = "idle" /\ memtable # {} /\ memtable = {t \in 1..tx : t > sealed}
      /\ pc' = "flush" /\ sealed' = tx
      /\ UNCHANGED <<tx, base, files, last_tx, runs, memtable, at, crashes, upgrades, torn_dir, rd, ro, opens>>
  BY DEF SealAndFlush, After, store, bounds, readers
<1>3. tx \in Nat /\ sealed \in Nat /\ sealed < tx /\ at = 1
  BY <1>1, <1>2 DEF WriterType, PlaceInv
<1>4. WriterType'
  <2>1. files' \in SUBSET FileType' /\ runs' \in SUBSET FileType'
    BY <1>1, <1>2, SameFiles DEF WriterType
  <2> QED BY <1>1, <1>2, <1>3, <2>1 DEF WriterType, WriterStates
<1>5. NamesInv'
  <2>1. \A f \in files : f.name \in Nat /\ f.name <= sealed
    BY <1>1, FilesAt DEF NamesInv
  <2>2. \A f \in files : f.name <= sealed' /\ f.name # tx'
    BY <1>2, <1>3, <2>1
  <2> QED BY <1>1, <1>2, <2>2 DEF NamesInv
<1>6. PlaceInv'
  BY <1>1, <1>2, <1>3 DEF PlaceInv, Moving
<1>7. CoverInv'
  BY <1>1, <1>2, <1>3 DEF CoverInv, Complete, Moving, Orders
<1>8. Kept
  <2>1. \A n \in Orders \X Nat : Known(n) => Known(n)'
    <3>1. \A n \in Orders \X Nat : n[2] \in Nat
      OBVIOUS
    <3>2. \A i \in Nat : i <= sealed => i <= sealed' /\ i # tx'
      BY <1>2, <1>3
    <3> QED BY <3>1, <3>2 DEF Known
  <2> QED BY <1>2, <2>1 DEF Kept, Promised
<1> QED BY <1>1, <1>2, <1>3, <1>4, <1>5, <1>6, <1>7, <1>8, WriterStep DEF readers

\* What a file replaces.
LEMMA ReplaceIs ==
  ASSUME NEW f
  PROVE  \A g : g \in Replace(f) <=>
                  g = f \/ (g \in files /\ ~(g.order = f.order /\ g.name = f.name))
BY DEF Replace, Without

LEMMA CreateRunStep ==
  ASSUME IInv, CreateRun
  PROVE  IInv'
<1>1. WriterType /\ NamesInv /\ PlaceInv /\ CoverInv
  BY Parts
<1> DEFINE f == RunFile(at, tx, {}, FALSE)
<1>2. /\ pc = "flush" /\ at \in Orders /\ files' = Replace(f) /\ pc' = "run"
      /\ UNCHANGED <<tx, sealed, base, last_tx, runs, memtable, at, crashes, upgrades, torn_dir, rd, ro, opens>>
  BY DEF CreateRun, store, bounds, readers
<1>3. /\ tx \in Nat /\ at \in Nat /\ sealed = tx /\ f \in FileType
      /\ f.order = at /\ f.name = tx /\ f.txs = {} /\ ~f.whole
  <2>1. tx \in Nat /\ at \in Nat /\ sealed = tx
    BY <1>1, <1>2 DEF WriterType, PlaceInv
  <2>2. at \in Orders /\ {} \in SUBSET (1..tx)
    BY <1>2
  <2>3. FALSE \in BOOLEAN
    OBVIOUS
  <2>4. f.order = at /\ f.name = tx /\ f.txs = {} /\ ~f.whole
    BY DEF RunFile
  <2>5. f \in FileType
    BY <2>1, <2>2, <2>3 DEF RunFile, FileType
  <2> QED BY <2>1, <2>4, <2>5, Zenon
<1> HIDE DEF f
<1>4. \A g : g \in files' <=> g = f \/ g \in files
  <2>1. \A g \in files : ~(g.order = at /\ g.name = tx)
    BY <1>1, <1>2, <1>3 DEF NamesInv
  <2> QED BY <1>2, <1>3, <2>1, ReplaceIs
<1>5. \A g \in files : ~(g.order = at /\ g.name = tx)
  BY <1>1, <1>2, <1>3 DEF NamesInv
<1>6. WriterType'
  <2>1. files' \in SUBSET FileType' /\ runs' \in SUBSET FileType'
    BY <1>1, <1>2, <1>3, <1>4, SameFiles DEF WriterType
  <2> QED BY <1>1, <1>2, <2>1 DEF WriterType, WriterStates
<1>7. NamesInv'
  <2>1. \A g \in files' : g.name <= sealed' /\ (g.whole => g.txs # {})
    BY <1>1, <1>2, <1>3, <1>4 DEF NamesInv
  <2>2. \A g, h \in files' : g.order = h.order /\ g.name = h.name => g = h
    BY <1>1, <1>3, <1>4, <1>5 DEF NamesInv
  <2>3. \A g \in files' : g.name = tx /\ g.order >= at => g = f
    BY <1>1, <1>2, <1>4 DEF NamesInv
  <2> QED BY <1>1, <1>2, <1>3, <2>1, <2>2, <2>3 DEF NamesInv
<1>8. PlaceInv'
  BY <1>1, <1>2 DEF PlaceInv, Moving
<1>9. CoverInv'
  <2>1. \A o, t : Has(files, o, t) => Has(files', o, t)
    BY <1>4 DEF Has
  <2> QED BY <1>1, <1>2, <1>4, <2>1 DEF CoverInv, Complete, Moving
<1>10. Kept
  <2>1. \A n \in Orders \X Nat : Known(n) => Known(n)'
    BY <1>2 DEF Known
  <2>2. \A n \in Orders \X Nat : \A t \in 1..last_tx : Known(n) /\ Promised(n, t) => Promised(n, t)'
    <3>1. \A n \in Orders \X Nat : Known(n) => ~(n[1] = at /\ n[2] = tx)
      BY <1>2, <1>3 DEF Known
    <3> QED BY <1>2, <1>3, <1>4, <3>1 DEF Promised
  <2> QED BY <1>2, <2>1, <2>2 DEF Kept
<1> QED BY <1>1, <1>2, <1>3, <1>6, <1>7, <1>8, <1>9, <1>10, WriterStep DEF readers

LEMMA FinishRunStep ==
  ASSUME IInv, FinishRun
  PROVE  IInv'
<1>1. WriterType /\ NamesInv /\ PlaceInv /\ CoverInv
  BY Parts
<1> DEFINE f == RunFile(at, tx, memtable, TRUE)
<1>2. /\ pc = "run" /\ files' = Replace(f) /\ runs' = runs \cup {f} /\ at' = at + 1 /\ pc' = "flush"
      /\ UNCHANGED <<tx, sealed, base, last_tx, memtable, crashes, upgrades, torn_dir, rd, ro, opens>>
  BY DEF FinishRun, store, bounds, readers
<1>3. /\ tx \in Nat /\ at \in Nat /\ at \in Orders /\ sealed = tx /\ memtable # {} /\ f \in FileType
      /\ f.order = at /\ f.name = tx /\ f.txs = memtable /\ f.whole = TRUE
  <2>1. tx \in Nat /\ at \in Nat /\ sealed = tx /\ memtable # {}
    BY <1>1, <1>2 DEF WriterType, PlaceInv
  <2>2. at \in Orders /\ memtable \in SUBSET (1..tx)
    BY <1>1, <1>2 DEF PlaceInv, WriterType
  <2> QED BY <2>1, <2>2, RunFileAt
<1> HIDE DEF f
<1>4. \A g : g \in files' <=> g = f \/ (g \in files /\ ~(g.order = at /\ g.name = tx))
  BY <1>2, <1>3, ReplaceIs
<1>5. \A g \in files : g.order = at /\ g.name = tx => g.txs = {} /\ ~g.whole
  BY <1>1, <1>2, <1>3 DEF NamesInv
<1>6. WriterType'
  <2>1. files' \in SUBSET FileType' /\ runs' \in SUBSET FileType'
    BY <1>1, <1>2, <1>3, <1>4, SameFiles DEF WriterType
  <2>2. at' \in 1..(NumOrders + 1)
    BY <1>2, <1>3, ConstantsAssumption DEF Orders
  <2> QED BY <1>1, <1>2, <2>1, <2>2 DEF WriterType, WriterStates
<1>7. NamesInv'
  <2>1. \A g \in files' : g.name <= sealed' /\ (g.whole => g.txs # {})
    BY <1>1, <1>2, <1>3, <1>4 DEF NamesInv
  <2>2. \A g, h \in files' : g.order = h.order /\ g.name = h.name => g = h
    BY <1>1, <1>3, <1>4 DEF NamesInv
  <2>3. \A g \in files' : ~(g.name = tx /\ g.order >= at')
    <3>1. \A g \in files : g.name = tx /\ g.order >= at => g.order = at
      BY <1>1, <1>2 DEF NamesInv
    <3>2. \A g \in files : g.order \in Nat
      BY <1>1, FilesAt DEF Orders
    <3> QED BY <1>2, <1>3, <1>4, <3>1, <3>2
  <2>4. \A g \in runs' : g.whole /\ g.txs # {}
    BY <1>1, <1>2, <1>3 DEF NamesInv
  <2> QED BY <1>2, <2>1, <2>2, <2>3, <2>4 DEF NamesInv
<1>8. PlaceInv'
  BY <1>1, <1>2 DEF PlaceInv, Moving
<1>9. CoverInv'
  <2>1. \A o, t : Has(files, o, t) => Has(files', o, t)
    BY <1>4, <1>5 DEF Has
  <2>2. \A o, t : Has(runs, o, t) => Has(runs', o, t)
    BY <1>2 DEF Has
  <2>3. \A t \in memtable : Has(runs', at, t)
    BY <1>2, <1>3 DEF Has
  <2>4. \A o \in Orders : o < at' => o < at \/ o = at
    BY <1>2, <1>3 DEF Orders
  <2>5. \A g \in runs : g.whole
    BY <1>1 DEF NamesInv
  <2>6. ~torn_dir => \A g \in runs' : g \in files'
    BY <1>1, <1>2, <1>4, <1>5, <2>5 DEF CoverInv, Moving
  <2>7. ~torn_dir => \A o \in Orders : o < at' => \A t \in memtable : Has(runs', o, t)
    BY <1>1, <1>2, <2>2, <2>3, <2>4 DEF CoverInv
  <2> QED BY <1>1, <1>2, <2>1, <2>2, <2>6, <2>7 DEF CoverInv, Complete, Moving
<1>10. Kept
  <2>1. \A n \in Orders \X Nat : Known(n) => Known(n)'
    <3>1. \A n \in Orders \X Nat : n[1] \in Nat
      BY DEF Orders
    <3>2. \A i \in Nat : i < at \/ i = at => i < at'
      BY <1>2, <1>3
    <3> QED BY <1>2, <3>1, <3>2 DEF Known
  <2>2. \A n \in Orders \X Nat : \A t \in 1..last_tx : Known(n) /\ Promised(n, t) => Promised(n, t)'
    BY <1>2, <1>3, <1>4 DEF Promised
  <2> QED BY <1>2, <2>1, <2>2 DEF Kept
<1> QED BY <1>1, <1>2, <1>3, <1>6, <1>7, <1>8, <1>9, <1>10, WriterStep DEF readers

LEMMA FlushFailsStep ==
  ASSUME IInv, FlushFails
  PROVE  IInv'
<1>1. WriterType /\ NamesInv /\ PlaceInv /\ CoverInv
  BY Parts
<1>2. /\ pc = "run" /\ pc' = "idle" /\ at' = 1
      /\ UNCHANGED <<tx, sealed, base, files, last_tx, runs, memtable, crashes, upgrades, torn_dir, rd, ro, opens>>
  BY DEF FlushFails, store, bounds, readers
<1>3. WriterType'
  <2>1. files' \in SUBSET FileType' /\ runs' \in SUBSET FileType'
    BY <1>1, <1>2, SameFiles DEF WriterType
  <2> QED BY <1>1, <1>2, <2>1, ConstantsAssumption DEF WriterType, WriterStates
<1>4. NamesInv' /\ PlaceInv'
  BY <1>1, <1>2 DEF NamesInv, PlaceInv, Moving
<1>5. CoverInv'
  BY <1>1, <1>2 DEF CoverInv, Complete, Moving
<1>6. Kept
  BY <1>2 DEF Kept, Known, Promised
<1> QED BY <1>1, <1>2, <1>3, <1>4, <1>5, <1>6, WriterStep DEF readers, WriterType

LEMMA TruncateMarkerStep ==
  ASSUME IInv, TruncateMarker
  PROVE  IInv'
<1>1. WriterType /\ NamesInv /\ PlaceInv /\ CoverInv
  BY Parts
<1>2. /\ pc = "flush" /\ at > NumOrders /\ last_tx' = 0 /\ pc' = "marker"
      /\ UNCHANGED <<tx, sealed, base, files, runs, memtable, at, crashes, upgrades, torn_dir, rd, ro, opens>>
  BY DEF TruncateMarker, RunsWritten, store, bounds, readers
<1>3. WriterType'
  <2>1. files' \in SUBSET FileType' /\ runs' \in SUBSET FileType'
    BY <1>1, <1>2, SameFiles DEF WriterType
  <2> QED BY <1>1, <1>2, <2>1 DEF WriterType, WriterStates
<1>4. NamesInv' /\ PlaceInv'
  BY <1>1, <1>2 DEF NamesInv, PlaceInv, Moving
<1>5. CoverInv'
  <2>1. Complete(files', last_tx')
    BY <1>2 DEF Complete
  <2> QED BY <1>1, <1>2, <2>1 DEF CoverInv, Moving
<1>6. Kept
  BY <1>2 DEF Kept, Known
<1> QED BY <1>1, <1>2, <1>3, <1>4, <1>5, <1>6, WriterStep DEF readers, WriterType

\* After a step in which the reader r may have taken part.
LEMMA AnyStep ==
  ASSUME IInv, NEW r \in Readers, WriterType', tx' = tx, sealed' = sealed, NamesInv', PlaceInv',
         CoverInv', Kept, ReadersType',
         \A v \in Readers \ {r} : rd'[v] = rd[v] /\ ro'[v] = ro[v], OpenInv(r)', InnerInv(r)'
  PROVE  IInv'
<1>1. \A v \in Readers : OpenInv(v)' /\ InnerInv(v)'
  BY OtherReader
<1>2. TypeOK'
  <2>1. \A v \in Readers : InnerInv(v)'
    BY <1>1
  <2> QED BY <2>1, TypeParts
<1> QED BY <1>1, <1>2 DEF IInv

\* The marker is written when every sort order has its run; who has listed the files before
\* does not rely on it.
LEMMA WriteMarkerStep ==
  ASSUME IInv, WriteMarker
  PROVE  IInv'
<1>1. WriterType /\ NamesInv /\ PlaceInv /\ CoverInv /\ ReadersType
  BY Parts
<1>2. /\ pc = "marker" /\ last_tx' = tx /\ memtable' = {} /\ at' = 1 /\ pc' = "merge"
      /\ UNCHANGED <<tx, sealed, base, files, runs, crashes, upgrades, torn_dir, rd, opens>>
  BY DEF WriteMarker, store, bounds
<1>3. WriterType'
  <2>1. files' \in SUBSET FileType' /\ runs' \in SUBSET FileType'
    BY <1>1, <1>2, SameFiles DEF WriterType
  <2>2. last_tx' \in 0..tx' /\ pc' \in WriterStates /\ memtable' \in SUBSET (1..tx')
        /\ at' \in 1..(NumOrders + 1)
    BY <1>1, <1>2, ConstantsAssumption DEF WriterType, WriterStates
  <2> QED BY <1>1, <1>2, <2>1, <2>2 DEF WriterType
<1>4. NamesInv' /\ PlaceInv'
  BY <1>1, <1>2 DEF NamesInv, PlaceInv, Moving
<1>5. CoverInv'
  <2>1. \A o \in Orders : o < at
    BY <1>1, <1>2, ConstantsAssumption DEF PlaceInv, WriterType, Orders
  <2>2. ~torn_dir => Complete(runs, tx)
    BY <1>1, <1>2, <2>1 DEF CoverInv, Complete
  <2>3. ~torn_dir => \A f \in runs : f \in files
    BY <1>1, <1>2 DEF CoverInv, Moving
  <2>4. ~torn_dir => Complete(files, tx)
    BY <2>2, <2>3 DEF Complete, Has
  <2> QED BY <1>2, <2>2, <2>3, <2>4 DEF CoverInv, Moving, Complete
<1>6. ASSUME NEW r \in Readers
      PROVE  /\ ro'[r] \in RestType \cup ListType \cup OpenType /\ ro'[r].pc = ro[r].pc
             /\ ro[r].pc \in {"open", "remove"} => ro'[r].listed = ro[r].listed /\ ro'[r].odd
  <2>1. CASE ro[r].pc \in {"open", "remove"}
    <3> DEFINE y == [ro[r] EXCEPT !.odd = TRUE]
    <3>1. ro'[r] = y
      BY <2>1 DEF WriteMarker
    <3>2. ro[r] \in OpenType
      BY <1>1, <2>1, OpenAt
    <3>3. y \in OpenType /\ y.pc = ro[r].pc /\ y.listed = ro[r].listed /\ y.odd
      BY <3>2 DEF OpenType
    <3> HIDE DEF y
    <3> QED BY <3>1, <3>3
  <2>2. CASE ro[r].pc \notin {"open", "remove"}
    BY <1>1, <2>2 DEF WriteMarker, ReadersType
  <2> QED BY <2>1, <2>2
<1>7. ReadersType'
  <2>1. ro' = [r \in Readers |-> ro'[r]]
    BY DEF WriteMarker
  <2>2. ro' \in [Readers -> RestType \cup ListType \cup OpenType]
    BY <1>6, <2>1
  <2>3. RestType' = RestType /\ ListType' = ListType /\ OpenType' = OpenType /\ InnerType' = InnerType
    BY <1>2, SameFiles DEF RestType, ListType, OpenType, InnerType
  <2> QED BY <1>1, <1>2, <2>2, <2>3 DEF ReadersType
<1>8. ASSUME NEW r \in Readers PROVE OpenInv(r)' /\ InnerInv(r)'
  <2>1. OpenInv(r) /\ InnerInv(r)
    BY DEF IInv
  <2>2. InnerInv(r)'
    BY <1>2, <2>1 DEF InnerInv, Has
  <2>3. OpenInv(r)'
    BY <1>2, <1>6, <2>1 DEF OpenInv, Known
  <2> QED BY <2>2, <2>3
<1>9. TypeOK'
  <2>1. \A r \in Readers : InnerInv(r)'
    BY <1>8
  <2> QED BY <1>3, <1>7, <2>1, TypeParts
<1> QED BY <1>3, <1>4, <1>5, <1>7, <1>8, <1>9 DEF IInv

-----------------------------------------------------------------------------
(* Steps of merge_runs *)

LEMMA OfIs == \A fs, o, f : f \in Of(fs, o) <=> f \in fs /\ f.order = o
BY DEF Of

\* A sort order that is merged has runs.
LEMMA MergesSome ==
  ASSUME MergeDue
  PROVE  at \in Orders /\ \E f \in runs : f.order = at
<1>1. Cardinality(Of(runs, at)) > (IF pc = "heal" THEN 1 ELSE MergeAt) /\ at \in Orders
  BY DEF MergeDue
<1>2. Of(runs, at) # {}
  <2>1. SUFFICES ASSUME Of(runs, at) = {} PROVE FALSE
    OBVIOUS
  <2>2. Cardinality(Of(runs, at)) = 0
    BY <2>1, FS_EmptySet
  <2> QED BY <1>1, <2>2, ConstantsAssumption
<1> QED BY <1>1, <1>2, OfIs

LEMMA RemoveMergedStep ==
  ASSUME IInv, RemoveMerged
  PROVE  IInv'
<1>1. WriterType /\ NamesInv /\ PlaceInv /\ CoverInv
  BY Parts
<1>2. /\ pc \in {"merge", "heal"} /\ MergeDue
      /\ pc' = IF pc = "heal" THEN "heal_merging" ELSE "merging"
      /\ UNCHANGED <<tx, sealed, base, last_tx, runs, memtable, at, crashes, upgrades, torn_dir, rd, ro, opens>>
  BY DEF RemoveMerged, store, bounds, readers
<1>3. files' \subseteq files /\ \A f \in files : f.order # at => f \in files'
  BY OfIs DEF RemoveMerged
<1>4. WriterType'
  <2>1. files' \in SUBSET FileType' /\ runs' \in SUBSET FileType'
    BY <1>1, <1>2, <1>3, SameFiles DEF WriterType
  <2> QED BY <1>1, <1>2, <2>1 DEF WriterType, WriterStates
<1>5. NamesInv' /\ PlaceInv'
  BY <1>1, <1>2, <1>3, MergesSome DEF NamesInv, PlaceInv, Moving
<1>6. CoverInv'
  BY <1>1, <1>2, <1>3 DEF CoverInv, Moving, Complete
<1>7. Kept
  BY <1>2, <1>3 DEF Kept, Known, Promised
<1> QED BY <1>1, <1>2, <1>4, <1>5, <1>6, <1>7, WriterStep DEF readers, WriterType

\* Only a removed file makes a merge fail.
LEMMA MergeFailsStep ==
  ASSUME IInv, MergeFails
  PROVE  IInv'
<1>1. WriterType /\ NamesInv /\ PlaceInv /\ CoverInv
  BY Parts
<1>2. /\ pc \in {"merge", "heal"} /\ MergeDue
      /\ runs' = runs \ Of(runs, at)
      /\ (pc = "heal" /\ at' = at + 1 /\ pc' = pc) \/ (pc = "merge" /\ at' = 1 /\ pc' = "idle")
      /\ UNCHANGED <<tx, sealed, base, files, last_tx, memtable, crashes, upgrades, torn_dir, rd, ro, opens>>
  BY DEF MergeFails, store, bounds, readers
<1>3. torn_dir
  <2>1. PICK f \in Of(runs, at) : f \notin files
    BY DEF MergeFails, Readable
  <2> QED BY <1>1, <1>2, <2>1, OfIs DEF CoverInv, Moving
<1>4. WriterType'
  <2>1. files' \in SUBSET FileType' /\ runs' \in SUBSET FileType'
    BY <1>1, <1>2, SameFiles DEF WriterType
  <2>2. at' \in 1..(NumOrders + 1) /\ pc' \in WriterStates
    BY <1>1, <1>2, ConstantsAssumption, MergesSome DEF WriterType, Orders, WriterStates
  <2> QED BY <1>1, <1>2, <2>1, <2>2 DEF WriterType
<1>5. NamesInv' /\ PlaceInv'
  BY <1>1, <1>2 DEF NamesInv, PlaceInv, Moving
<1>6. CoverInv' /\ Kept
  BY <1>2, <1>3 DEF CoverInv, Kept, Known
<1> QED BY <1>1, <1>2, <1>4, <1>5, <1>6, WriterStep DEF readers, WriterType

\* The merged run holds what the runs it replaces do, also those it may have been listed for.
LEMMA RenameMergedStep ==
  ASSUME IInv, RenameMerged
  PROVE  IInv'
<1>1. WriterType /\ NamesInv /\ PlaceInv /\ CoverInv
  BY Parts
<1> DEFINE m == MergedRun(at)
<1>2. /\ pc \in Moving /\ at' = at + 1 /\ pc' = IF pc = "heal_merging" THEN "heal" ELSE "merge"
      /\ files' = (files \ Of(files, at)) \cup {m} /\ runs' = (runs \ Of(runs, at)) \cup {m}
      /\ UNCHANGED <<tx, sealed, base, last_tx, memtable, crashes, upgrades, torn_dir, rd, ro, opens>>
  BY DEF RenameMerged, Merging, Moving, store, bounds, readers
<1>3. at \in Orders /\ tx \in Nat /\ \E f \in runs : f.order = at
  BY <1>1, <1>2 DEF PlaceInv, Moving, WriterType
<1>4. \A t : t \in Indexed(Of(runs, at)) <=> Has(runs, at, t)
  BY OfIs DEF Indexed, Has
<1>5. /\ Indexed(Of(runs, at)) \in SUBSET (1..tx)
      /\ Indexed(Of(runs, at)) # {}
  <2>1. \A f \in runs : f.txs \in SUBSET (1..tx) /\ f.txs # {}
    BY <1>1, FilesAt DEF NamesInv
  <2> QED BY <1>3, <1>4, <2>1 DEF Has
<1>6. m \in FileType /\ m.order = at /\ m.name = 0 /\ m.txs = Indexed(Of(runs, at)) /\ m.whole
  <2> DEFINE i == Indexed(Of(runs, at))
  <2>1. i \in SUBSET (1..tx)
    BY <1>5
  <2>2. m = RunFile(at, 0, i, TRUE)
    BY DEF MergedRun, Merged
  <2> HIDE DEF i, m
  <2>3. RunFile(at, 0, i, TRUE) \in FileType
    BY <1>3, <2>1 DEF RunFile, FileType
  <2>4. m.order = at /\ m.name = 0 /\ m.txs = i /\ m.whole
    BY <2>2 DEF RunFile
  <2> QED BY <2>2, <2>3, <2>4 DEF i
<1> HIDE DEF m
<1>7. /\ \A f : f \in files' <=> f = m \/ (f \in files /\ f.order # at)
      /\ \A f : f \in runs' <=> f = m \/ (f \in runs /\ f.order # at)
  BY <1>2, OfIs
<1>8. WriterType'
  <2>1. files' \in SUBSET FileType' /\ runs' \in SUBSET FileType'
    BY <1>1, <1>2, <1>6, <1>7, SameFiles DEF WriterType
  <2>2. at' \in 1..(NumOrders + 1) /\ pc' \in WriterStates
    BY <1>1, <1>2, <1>3, ConstantsAssumption DEF Orders, WriterStates
  <2> QED BY <1>1, <1>2, <2>1, <2>2 DEF WriterType
<1>9. NamesInv'
  <2>1. 0 <= sealed
    BY <1>1 DEF WriterType
  <2>2. /\ \A f \in files' : f.name <= sealed' /\ (f.whole => f.txs # {})
        /\ \A f \in runs' : f.whole /\ f.txs # {}
    BY <1>1, <1>2, <1>5, <1>6, <1>7, <2>1 DEF NamesInv
  <2>3. \A f, g \in files' : f.order = g.order /\ f.name = g.name => f = g
    BY <1>1, <1>6, <1>7 DEF NamesInv
  <2> QED BY <1>2, <2>2, <2>3 DEF NamesInv
<1>10. PlaceInv'
  BY <1>1, <1>2 DEF PlaceInv, Moving
<1>11. ~torn_dir => Complete(runs, last_tx)
  BY <1>1, <1>2 DEF CoverInv
<1>12. CoverInv'
  <2>1. \A o, t : Has(runs, o, t) => Has(runs', o, t)
    BY <1>4, <1>6, <1>7 DEF Has
  <2>2. ~torn_dir => \A f \in runs' : f \in files'
    BY <1>1, <1>2, <1>7 DEF CoverInv, Moving
  <2>3. ~torn_dir => Complete(runs', last_tx)
    BY <1>11, <2>1 DEF Complete
  <2>4. ~torn_dir => Complete(files', last_tx)
    BY <2>2, <2>3 DEF Complete, Has
  <2> QED BY <1>2, <2>2, <2>3, <2>4 DEF CoverInv, Moving, Complete
<1>13. Kept
  <2>1. \A n \in Orders \X Nat : Known(n) => Known(n)'
    BY <1>2 DEF Known
  <2>2. ~torn_dir => \A t \in 1..last_tx : t \in m.txs
    BY <1>3, <1>4, <1>6, <1>11 DEF Complete
  <2>3. ~torn_dir => \A n \in Orders \X Nat : \A t \in 1..last_tx : Promised(n, t) => Promised(n, t)'
    BY <1>2, <1>7, <2>2 DEF Promised
  <2> QED BY <1>2, <2>1, <2>3 DEF Kept
<1> QED BY <1>1, <1>2, <1>8, <1>9, <1>10, <1>12, <1>13, WriterStep DEF readers, WriterType

LEMMA NextOrderStep ==
  ASSUME IInv, NextOrder
  PROVE  IInv'
<1>1. WriterType /\ NamesInv /\ PlaceInv /\ CoverInv
  BY Parts
<1>2. /\ pc \in {"merge", "heal"} /\ at \in Orders /\ at' = at + 1
      /\ UNCHANGED <<tx, sealed, base, files, last_tx, pc, runs, memtable, crashes, upgrades, torn_dir, rd, ro, opens>>
  BY DEF NextOrder, store, bounds, readers
<1>3. WriterType'
  <2>1. files' \in SUBSET FileType' /\ runs' \in SUBSET FileType'
    BY <1>1, <1>2, SameFiles DEF WriterType
  <2>2. at' \in 1..(NumOrders + 1)
    BY <1>2, ConstantsAssumption DEF Orders
  <2> QED BY <1>1, <1>2, <2>1, <2>2 DEF WriterType
<1>4. NamesInv' /\ PlaceInv'
  BY <1>1, <1>2 DEF NamesInv, PlaceInv, Moving
<1>5. CoverInv'
  BY <1>1, <1>2 DEF CoverInv, Complete, Moving
<1>6. Kept
  BY <1>2 DEF Kept, Known, Promised
<1> QED BY <1>1, <1>2, <1>3, <1>4, <1>5, <1>6, WriterStep DEF readers, WriterType

LEMMA FlushDoneStep ==
  ASSUME IInv, FlushDone
  PROVE  IInv'
<1>1. WriterType /\ NamesInv /\ PlaceInv /\ CoverInv
  BY Parts
<1>2. /\ pc = "merge" /\ at' = 1 /\ pc' = "idle"
      /\ UNCHANGED <<tx, sealed, base, files, last_tx, runs, memtable, crashes, upgrades, torn_dir, rd, ro, opens>>
  BY DEF FlushDone, store, bounds, readers
<1>3. WriterType'
  <2>1. files' \in SUBSET FileType' /\ runs' \in SUBSET FileType'
    BY <1>1, <1>2, SameFiles DEF WriterType
  <2> QED BY <1>1, <1>2, <2>1, ConstantsAssumption DEF WriterType, WriterStates
<1>4. NamesInv' /\ PlaceInv'
  BY <1>1, <1>2 DEF NamesInv, PlaceInv, Moving
<1>5. CoverInv'
  <2>1. last_tx = tx
    BY <1>1, <1>2 DEF PlaceInv
  <2> QED BY <1>1, <1>2, <2>1 DEF CoverInv, Complete, Moving
<1>6. Kept
  BY <1>2 DEF Kept, Known, Promised
<1> QED BY <1>1, <1>2, <1>3, <1>4, <1>5, <1>6, WriterStep DEF readers, WriterType

LEMMA StopStep ==
  ASSUME IInv, Stop
  PROVE  IInv'
<1>1. WriterType /\ NamesInv /\ PlaceInv /\ CoverInv
  BY Parts
<1>2. /\ pc' = "closed" /\ runs' = {} /\ memtable' = {} /\ at' = 1 /\ crashes' = crashes + 1
      /\ torn_dir' = Replacing
      /\ UNCHANGED <<tx, sealed, base, files, last_tx, upgrades, rd, ro, opens>>
  BY DEF Stop, store, bounds, readers
<1>3. torn_dir' = (torn_dir \/ pc \in Moving \cup {"removing"})
  BY <1>2 DEF Replacing, Moving
<1>4. WriterType'
  <2>1. files' \in SUBSET FileType' /\ runs' \in SUBSET FileType'
    BY <1>1, <1>2, SameFiles DEF WriterType
  <2>2. torn_dir' \in BOOLEAN
    BY <1>3
  <2> QED BY <1>1, <1>2, <2>1, <2>2, ConstantsAssumption DEF WriterType, WriterStates
<1>5. NamesInv' /\ PlaceInv'
  BY <1>1, <1>2 DEF NamesInv, PlaceInv, Moving
<1>6. CoverInv'
  BY <1>1, <1>2, <1>3 DEF CoverInv, Complete, Moving
<1>7. Kept
  BY <1>2, <1>3 DEF Kept, Known, Promised
<1> QED BY <1>1, <1>2, <1>4, <1>5, <1>6, <1>7, WriterStep DEF readers, WriterType

\* A new format makes every file unreadable, and takes nothing away.
LEMMA UpgradeStep ==
  ASSUME IInv, Upgrade
  PROVE  IInv'
<1>1. WriterType /\ NamesInv /\ PlaceInv /\ CoverInv
  BY Parts
<1>2. /\ pc = "closed" /\ upgrades' = upgrades + 1
      /\ files' = {[f EXCEPT !.whole = FALSE] : f \in files}
      /\ UNCHANGED <<tx, sealed, base, last_tx, pc, runs, memtable, at, crashes, torn_dir, rd, ro, opens>>
  BY DEF Upgrade, store, bounds, readers
<1>3. ASSUME NEW f \in files
      PROVE  LET g == [f EXCEPT !.whole = FALSE] IN
             /\ g \in FileType /\ g.order = f.order /\ g.name = f.name /\ g.txs = f.txs /\ ~g.whole
             /\ g \in files'
  <2>1. f \in FileType
    BY <1>1 DEF WriterType
  <2> QED BY <1>2, <2>1 DEF FileType
<1>4. \A g \in files' : \E f \in files : g = [f EXCEPT !.whole = FALSE]
  BY <1>2
<1>5. \A g \in files' : ~g.whole /\ g \in FileType
  BY <1>3, <1>4
<1>6. WriterType'
  <2>1. files' \in SUBSET FileType' /\ runs' \in SUBSET FileType'
    BY <1>1, <1>2, <1>5, SameFiles DEF WriterType
  <2> QED BY <1>1, <1>2, <2>1 DEF WriterType
<1>7. NamesInv'
  <2>1. ASSUME NEW g \in files' PROVE g.name <= sealed
    <3>1. PICK f \in files : g = [f EXCEPT !.whole = FALSE]
      BY <1>4
    <3>2. g.name = f.name
      BY <1>3, <3>1
    <3> QED BY <1>1, <3>2 DEF NamesInv
  <2>2. ASSUME NEW g \in files', NEW h \in files', g.order = h.order, g.name = h.name PROVE g = h
    <3>1. PICK f \in files : g = [f EXCEPT !.whole = FALSE]
      BY <1>4
    <3>2. PICK e \in files : h = [e EXCEPT !.whole = FALSE]
      BY <1>4
    <3>3. g.order = f.order /\ g.name = f.name /\ h.order = e.order /\ h.name = e.name
      BY <1>3, <3>1, <3>2
    <3>4. e = f
      BY <1>1, <2>2, <3>3 DEF NamesInv
    <3> QED BY <3>1, <3>2, <3>4
  <2> QED BY <1>1, <1>2, <1>5, <2>1, <2>2 DEF NamesInv
<1>8. PlaceInv'
  BY <1>1, <1>2 DEF PlaceInv, Moving
<1>9. CoverInv'
  <2>1. \A o, t : Has(files, o, t) => Has(files', o, t)
    BY <1>3 DEF Has
  <2>2. runs = {}
    BY <1>1, <1>2 DEF PlaceInv
  <2> QED BY <1>1, <1>2, <2>1, <2>2 DEF CoverInv, Complete, Moving
<1>10. Kept
  BY <1>2, <1>5 DEF Kept, Known, Promised
<1> QED BY <1>1, <1>2, <1>6, <1>7, <1>8, <1>9, <1>10, WriterStep DEF readers, WriterType

-----------------------------------------------------------------------------
(* Steps of a reader *)

\* A step in which a reader changes nothing but itself.
LEMMA ReaderStep ==
  ASSUME IInv, NEW r \in Readers, NEW x \in InnerType, NEW y \in RestType \cup ListType \cup OpenType,
         rd' = [rd EXCEPT ![r] = x], ro' = [ro EXCEPT ![r] = y], opens' \in Nat,
         UNCHANGED <<tx, sealed, base, files, last_tx, pc, runs, memtable, at, crashes, upgrades, torn_dir>>,
         OpenInv(r)', InnerInv(r)'
  PROVE  IInv'
<1>1. WriterType /\ NamesInv /\ PlaceInv /\ CoverInv /\ ReadersType
  BY Parts
<1>2. WriterType'
  BY <1>1, SameFiles DEF WriterType
<1>3. NamesInv' /\ PlaceInv' /\ CoverInv'
  BY <1>1 DEF NamesInv, PlaceInv, CoverInv, Complete, Has
<1>4. Kept
  BY DEF Kept, Known, Promised
<1>5. ReadersType'
  <2>1. RestType' = RestType /\ ListType' = ListType /\ OpenType' = OpenType /\ InnerType' = InnerType
    BY SameFiles DEF RestType, ListType, OpenType, InnerType
  <2>2. rd' \in [Readers -> InnerType] /\ ro' \in [Readers -> RestType \cup ListType \cup OpenType]
    BY <1>1 DEF ReadersType
  <2> QED BY <2>1, <2>2 DEF ReadersType
<1>6. \A v \in Readers \ {r} : rd'[v] = rd[v] /\ ro'[v] = ro[v]
  BY <1>1 DEF ReadersType
<1> QED BY <1>2, <1>3, <1>4, <1>5, <1>6, AnyStep

\* What the types say of a reader, and that another step of its open changes no handle.
LEMMA ReaderAt ==
  ASSUME IInv, NEW r \in Readers
  PROVE  /\ rd \in [Readers -> InnerType] /\ ro \in [Readers -> RestType \cup ListType \cup OpenType]
         /\ rd[r] \in InnerType /\ rd = [rd EXCEPT ![r] = rd[r]]
         /\ OpenInv(r) /\ InnerInv(r) /\ tx \in Nat /\ sealed \in 0..tx /\ last_tx \in 0..tx /\ opens \in Nat
BY DEF IInv, ReadersType, TypeOK

LEMMA InnerSame ==
  ASSUME NEW r \in Readers, InnerInv(r), rd'[r] = rd[r]
  PROVE  InnerInv(r)'
BY DEF InnerInv

LEMMA ReadStoreStep ==
  ASSUME IInv, NEW r \in Readers, ReadStore(r)
  PROVE  IInv'
<1> DEFINE y == [pc |-> "list", tx |-> tx, sealed |-> sealed]
<1>1. /\ rd \in [Readers -> InnerType] /\ ro \in [Readers -> RestType \cup ListType \cup OpenType]
      /\ rd[r] \in InnerType /\ rd = [rd EXCEPT ![r] = rd[r]]
      /\ InnerInv(r) /\ tx \in Nat /\ sealed \in 0..tx /\ opens \in Nat
  BY ReaderAt
<1>2. /\ ro' = [ro EXCEPT ![r] = y] /\ rd' = rd
      /\ UNCHANGED <<tx, sealed, base, files, last_tx, pc, runs, memtable, at, crashes, upgrades, torn_dir>>
  BY DEF ReadStore, store, bounds
<1>3. opens' \in Nat
  BY <1>1 DEF ReadStore
<1>4. y \in ListType /\ y.pc = "list"
  BY <1>1 DEF ListType
<1> HIDE DEF y
<1>5. OpenInv(r)' /\ InnerInv(r)'
  BY <1>1, <1>2, <1>4, InnerSame DEF OpenInv
<1> QED BY <1>1, <1>2, <1>3, <1>4, <1>5, ReaderStep

\* Every batch of the runs is in a file that the reader has on its list.
LEMMA ListRunsStep ==
  ASSUME IInv, NEW r \in Readers, ListRuns(r)
  PROVE  IInv'
<1> DEFINE l == {<<f.order, f.name>> : f \in files}
           y == [pc |-> "open", tx |-> ro[r].tx, sealed |-> ro[r].sealed, listed |-> l,
                 runs |-> {}, clean |-> TRUE, odd |-> Replacing]
<1>1. /\ rd \in [Readers -> InnerType] /\ ro \in [Readers -> RestType \cup ListType \cup OpenType]
      /\ rd[r] \in InnerType /\ rd = [rd EXCEPT ![r] = rd[r]]
      /\ InnerInv(r) /\ tx \in Nat /\ sealed \in 0..tx /\ opens \in Nat
  BY ReaderAt
<1>2. /\ ro[r].pc = "list" /\ ro' = [ro EXCEPT ![r] = y] /\ rd' = rd /\ opens' = opens
      /\ UNCHANGED <<tx, sealed, base, files, last_tx, pc, runs, memtable, at, crashes, upgrades, torn_dir>>
  BY DEF ListRuns, store, bounds
<1>3. WriterType /\ NamesInv /\ CoverInv
  BY Parts
<1>4. \A f \in files : f.order \in Orders /\ f.name \in Nat /\ <<f.order, f.name>> \in l
  BY <1>3, FilesAt
<1>5. l \in SUBSET (Orders \X Nat)
  BY <1>4
<1>6. y \in OpenType /\ y.pc = "open" /\ y.listed = l /\ (y.odd <=> Replacing)
  <2>1. ro[r] \in ListType
    BY <1>1, <1>2 DEF RestType, OpenType
  <2>2. ro[r].tx \in 0..tx /\ ro[r].sealed \in 0..sealed /\ Replacing \in BOOLEAN
    BY <1>3, <2>1 DEF ListType, Replacing, WriterType
  <2> HIDE DEF l
  <2>3. y.pc = "open" /\ y.listed = l /\ (y.odd <=> Replacing)
    OBVIOUS
  <2> QED BY <1>5, <2>2, <2>3 DEF OpenType
<1>7. ro'[r] = y
  BY <1>1, <1>2
<1> HIDE DEF y
<1>8. \A n \in l : Known(n)
  <2>1. ASSUME NEW f \in files PROVE Known(<<f.order, f.name>>)
    <3>1. at \in Nat /\ f.order \in Nat
      BY <1>3, <1>4 DEF WriterType, Orders
    <3>2. pc \in {"flush", "run"} /\ f.name = tx => f.order < at \/ (pc = "run" /\ f.order = at)
      BY <1>3, <3>1 DEF NamesInv
    <3> QED BY <1>3, <3>2 DEF Known, NamesInv
  <2> QED BY <2>1
<1>9. ASSUME ~Replacing, NEW o \in Orders, NEW t \in 1..last_tx
      PROVE  \E n \in l : n[1] = o /\ Promised(n, t)
  <2>1. PICK f \in files : f.order = o /\ t \in f.txs
    BY <1>3, <1>9 DEF CoverInv, Replacing, Moving, Complete, Has
  <2> DEFINE n == <<f.order, f.name>>
  <2>2. n \in l /\ n[1] = f.order /\ n[2] = f.name
    OBVIOUS
  <2> HIDE DEF n, l
  <2>3. at \in Nat
    BY <1>3 DEF WriterType
  <2>4. ~(pc = "run" /\ f.order = at /\ f.name = tx)
    BY <1>3, <2>1, <2>3 DEF NamesInv
  <2>5. \A g \in files : g.order = f.order /\ g.name = f.name => g = f
    BY <1>3 DEF NamesInv
  <2>6. Promised(n, t)
    BY <2>1, <2>2, <2>4, <2>5 DEF Promised
  <2> QED BY <2>1, <2>2, <2>6
<1> HIDE DEF l
<1>10. ~torn_dir /\ ~y.odd => ~Replacing
  BY <1>6
<1>11. OpenInv(r)'
  <2>1. \A n \in l : Known(n)'
    BY <1>2, <1>8 DEF Known
  <2>2. ~Replacing => \A o \in Orders : \A t \in 1..last_tx' : \E n \in l : n[1] = o /\ Promised(n, t)'
    BY <1>2, <1>9 DEF Promised
  <2> QED BY <1>2, <1>6, <1>7, <1>10, <2>1, <2>2 DEF OpenInv
<1>12. InnerInv(r)'
  BY <1>1, <1>2, InnerSame
<1> QED BY <1>1, <1>2, <1>6, <1>11, <1>12, ReaderStep

\* A file that is found has what was promised.
LEMMA OpenRunStep ==
  ASSUME IInv, NEW r \in Readers, OpenRun(r)
  PROVE  IInv'
<1> DEFINE n == First(ro[r].listed)
           found == {f \in Whole(files) : <<f.order, f.name>> = n}
           rs == ro[r].runs \cup found
           ls == IF found = {} THEN ro[r].listed ELSE ro[r].listed \ {n}
           p == IF found = {} THEN "remove" ELSE "open"
           y == [ro[r] EXCEPT !.runs = rs, !.listed = ls, !.pc = p]
<1>1. /\ rd \in [Readers -> InnerType] /\ ro \in [Readers -> RestType \cup ListType \cup OpenType]
      /\ rd[r] \in InnerType /\ rd = [rd EXCEPT ![r] = rd[r]] /\ OpenInv(r)
      /\ InnerInv(r) /\ tx \in Nat /\ sealed \in 0..tx /\ opens \in Nat
  BY ReaderAt
<1>2. /\ ro[r].pc = "open" /\ ro' = [ro EXCEPT ![r] = y] /\ rd' = rd /\ opens' = opens
      /\ UNCHANGED <<tx, sealed, base, files, last_tx, pc, runs, memtable, at, crashes, upgrades, torn_dir>>
  BY DEF OpenRun, store, bounds
<1>3. WriterType /\ ReadersType
  BY Parts
<1>4. ro[r] \in OpenType
  BY <1>2, <1>3, OpenAt
<1>5. /\ found \subseteq files /\ found \subseteq FileType
      /\ \A f \in files : f.whole /\ <<f.order, f.name>> = n => f \in found
      /\ \A f \in found : <<f.order, f.name>> = n /\ f.whole
  BY <1>3 DEF Whole, WriterType
<1> HIDE DEF found, n
<1>6. /\ rs \in SUBSET FileType /\ ls \in SUBSET (Orders \X Nat) /\ p \in {"open", "remove"}
      /\ ls \subseteq ro[r].listed
      /\ found # {} => ls = ro[r].listed \ {n}
      /\ found = {} => ls = ro[r].listed
  BY <1>4, <1>5 DEF OpenType
<1> HIDE DEF rs, ls, p
<1>7. /\ y \in OpenType /\ y.pc = p /\ y.listed = ls /\ y.runs = rs
      /\ y.odd = ro[r].odd /\ y.clean = ro[r].clean
  BY <1>4, <1>6 DEF OpenType
<1> HIDE DEF y
<1>8. ro'[r] = y
  BY <1>1, <1>2
<1>9. ASSUME ~torn_dir, ~ro[r].odd, ro[r].clean, NEW o \in Orders, NEW t \in 1..last_tx
      PROVE  Has(rs, o, t) \/ \E m \in ls : m[1] = o /\ Promised(m, t)
  <2>1. CASE Has(ro[r].runs, o, t)
    BY <2>1 DEF Has, rs
  <2>2. CASE \E m \in ro[r].listed : m[1] = o /\ Promised(m, t)
    <3>1. PICK m \in ro[r].listed : m[1] = o /\ Promised(m, t)
      BY <2>2
    <3>2. CASE m \in ls
      BY <3>1, <3>2
    <3>3. CASE m \notin ls
      <4>1. m = n /\ found # {}
        BY <1>6, <3>3
      <4>2. PICK f \in found : TRUE
        BY <4>1
      <4>3. f \in files /\ <<f.order, f.name>> = m /\ f.whole
        BY <1>5, <4>1, <4>2
      <4>4. f.order = m[1] /\ f.name = m[2]
        BY <4>3
      <4>5. t \in f.txs
        BY <3>1, <4>3, <4>4 DEF Promised
      <4> QED BY <3>1, <4>2, <4>4, <4>5 DEF Has, rs
    <3> QED BY <3>2, <3>3
  <2> QED BY <1>1, <1>2, <1>9, <2>1, <2>2 DEF OpenInv
<1>10. OpenInv(r)'
  <2>1. \A m \in ls : Known(m)'
    BY <1>1, <1>2, <1>6 DEF OpenInv, Known
  <2>2. ~torn_dir' /\ ~ro[r].odd /\ ro[r].clean =>
          \A o \in Orders : \A t \in 1..last_tx' : Has(rs, o, t) \/ \E m \in ls : m[1] = o /\ Promised(m, t)'
    BY <1>2, <1>9 DEF Promised
  <2> QED BY <1>7, <1>8, <2>1, <2>2 DEF OpenInv
<1>11. InnerInv(r)'
  BY <1>1, <1>2, InnerSame
<1> QED BY <1>1, <1>2, <1>7, <1>10, <1>11, ReaderStep

\* What a reader removes had no entries, or torn_dir says so; and its open fails.
LEMMA RemoveRunStep ==
  ASSUME IInv, NEW r \in Readers, RemoveRun(r)
  PROVE  IInv'
<1> DEFINE n == First(ro[r].listed)
           ls == ro[r].listed \ {n}
           y == [ro[r] EXCEPT !.listed = ls, !.clean = FALSE, !.pc = "open"]
<1>1. /\ rd \in [Readers -> InnerType] /\ ro \in [Readers -> RestType \cup ListType \cup OpenType]
      /\ rd[r] \in InnerType /\ OpenInv(r) /\ InnerInv(r)
  BY ReaderAt
<1>2. /\ ro[r].pc = "remove" /\ ro' = [ro EXCEPT ![r] = y] /\ rd' = rd /\ opens' = opens
      /\ files' \subseteq files
      /\ torn_dir' = (torn_dir \/ \E f \in files \ files' : f.txs # {})
      /\ UNCHANGED <<tx, sealed, base, last_tx, pc, runs, memtable, at, crashes, upgrades>>
  BY DEF RemoveRun, Without, store, bounds
<1>3. WriterType /\ NamesInv /\ PlaceInv /\ CoverInv /\ ReadersType
  BY Parts
<1>4. ro[r] \in OpenType
  BY <1>2, <1>3, OpenAt
<1>5. ls \in SUBSET (Orders \X Nat) /\ ls \subseteq ro[r].listed
  BY <1>4 DEF OpenType
<1> HIDE DEF ls, n
<1>6. y \in OpenType /\ y.pc = "open" /\ y.listed = ls /\ ~y.clean
  BY <1>4, <1>5 DEF OpenType
<1> HIDE DEF y
<1>7. ro'[r] = y
  BY <1>1, <1>2
<1>8. ~torn_dir' => ~torn_dir /\ \A f \in files : f.txs # {} => f \in files'
  BY <1>2
<1>9. WriterType'
  <2>1. files' \in SUBSET FileType' /\ runs' \in SUBSET FileType'
    BY <1>2, <1>3, SameFiles DEF WriterType
  <2>2. torn_dir' \in BOOLEAN
    BY <1>2, <1>3 DEF WriterType
  <2> QED BY <1>2, <1>3, <2>1, <2>2 DEF WriterType
<1>10. NamesInv' /\ PlaceInv'
  BY <1>2, <1>3 DEF NamesInv, PlaceInv
<1>11. CoverInv'
  <2>1. ~torn_dir' => \A o, t : Has(files, o, t) => Has(files', o, t)
    BY <1>8 DEF Has
  <2>2. ~torn_dir' => \A f \in runs : f \in files => f \in files'
    BY <1>3, <1>8 DEF NamesInv
  <2> QED BY <1>2, <1>3, <1>8, <2>1, <2>2 DEF CoverInv, Complete
<1>12. Kept
  BY <1>2, <1>8 DEF Kept, Known, Promised
<1>13. OpenInv(r)'
  BY <1>1, <1>2, <1>5, <1>6, <1>7 DEF OpenInv, Known
<1>14. InnerInv(r)'
  BY <1>1, <1>2, InnerSame
<1>15. ReadersType' /\ \A v \in Readers \ {r} : rd'[v] = rd[v] /\ ro'[v] = ro[v]
  <2>1. RestType' = RestType /\ ListType' = ListType /\ OpenType' = OpenType /\ InnerType' = InnerType
    BY <1>2, SameFiles DEF RestType, ListType, OpenType, InnerType
  <2>2. ro' \in [Readers -> RestType \cup ListType \cup OpenType]
    BY <1>1, <1>2, <1>6
  <2> QED BY <1>1, <1>2, <2>1, <2>2 DEF ReadersType
<1> QED BY <1>2, <1>9, <1>10, <1>11, <1>12, <1>13, <1>14, <1>15, AnyStep

\* A reader at rest has an open of one field.
LEMMA RestAt ==
  ASSUME NEW y \in RestType
  PROVE  y.pc \notin {"open", "remove"}
BY DEF RestType

LEMMA RestingIs == Resting \in RestType /\ [pc |-> "store"] \in RestType /\ [pc |-> "tail"] \in RestType
BY DEF Resting, RestType

\* All that was listed has been opened, and the marker is the one the promises are about.
LEMMA ReadMarkerStep ==
  ASSUME IInv, NEW r \in Readers, ReadMarker(r)
  PROVE  IInv'
<1>1. /\ rd \in [Readers -> InnerType] /\ ro \in [Readers -> RestType \cup ListType \cup OpenType]
      /\ rd[r] \in InnerType /\ rd = [rd EXCEPT ![r] = rd[r]] /\ OpenInv(r)
      /\ InnerInv(r) /\ tx \in Nat /\ sealed \in 0..tx /\ last_tx \in 0..tx /\ opens \in Nat
  BY ReaderAt
<1> DEFINE x == IF ro[r].clean THEN Inner(ro[r], last_tx) ELSE rd[r]
<1>2. /\ ro[r].pc = "open" /\ ro[r].listed = {} /\ ro' = [ro EXCEPT ![r] = Resting]
      /\ rd' = [rd EXCEPT ![r] = x] /\ opens' = opens
      /\ UNCHANGED <<tx, sealed, base, files, last_tx, pc, runs, memtable, at, crashes, upgrades, torn_dir>>
  BY DEF ReadMarker, store, bounds
<1>3. WriterType /\ ReadersType
  BY Parts
<1>4. ro[r] \in OpenType
  BY <1>2, <1>3, OpenAt
<1>5. /\ ro[r].tx \in 0..tx /\ ro[r].sealed \in 0..sealed /\ ro[r].runs \in SUBSET FileType
      /\ ro[r].odd \in BOOLEAN /\ ro[r].clean \in BOOLEAN
  BY <1>4 DEF OpenType
<1> DEFINE i == Inner(ro[r], last_tx)
           m == {t \in 1..ro[r].tx : t > last_tx}
<1>6. /\ i \in InnerType /\ i.tx = ro[r].tx /\ i.runs = ro[r].runs /\ i.memtable = m
      /\ (i.odd <=> ro[r].odd \/ torn_dir)
  <2>1. m \in SUBSET (1..tx) /\ last_tx \in Nat
    BY <1>1, <1>5
  <2>2. i = [live |-> TRUE, tx |-> ro[r].tx, sealed |-> ro[r].sealed, runs |-> ro[r].runs,
             memtable |-> m, marker |-> last_tx, odd |-> ro[r].odd \/ torn_dir]
    BY DEF Inner
  <2> HIDE DEF m, i
  <2>3. i.tx = ro[r].tx /\ i.runs = ro[r].runs /\ i.memtable = m /\ (i.odd <=> ro[r].odd \/ torn_dir)
    BY <2>2
  <2>4. (ro[r].odd \/ torn_dir) \in BOOLEAN
    OBVIOUS
  <2>5. i \in InnerType
    BY <1>5, <2>1, <2>2, <2>4 DEF InnerType
  <2> QED BY <2>3, <2>5
<1>7. x \in InnerType
  BY <1>1, <1>6
<1>8. rd'[r] = x /\ ro'[r] = Resting
  BY <1>1, <1>2
<1>9. InnerInv(r)'
  <2>1. CASE ~ro[r].clean
    BY <1>1, <1>8, <2>1, InnerSame
  <2>2. CASE ro[r].clean
    <3>1. rd'[r] = i
      BY <1>8, <2>2
    <3> HIDE DEF i, x
    <3>2. m \in SUBSET (1..ro[r].tx)
      OBVIOUS
    <3>3. ASSUME ~ro[r].odd, ~torn_dir, NEW o \in Orders, NEW t \in 1..ro[r].tx
          PROVE  t \in m \/ Has(ro[r].runs, o, t)
      <4>1. CASE t > last_tx
        BY <3>3, <4>1
      <4>2. CASE ~(t > last_tx)
        <5>1. t \in 1..last_tx
          BY <1>1, <1>5, <3>3, <4>2
        <5> QED BY <1>1, <1>2, <2>2, <3>3, <5>1 DEF OpenInv
      <4> QED BY <4>1, <4>2
    <3> HIDE DEF m
    <3> QED BY <1>6, <3>1, <3>2, <3>3 DEF InnerInv
  <2> QED BY <1>5, <2>1, <2>2
<1> HIDE DEF x
<1>10. OpenInv(r)'
  BY <1>8, RestingIs, RestAt DEF OpenInv
<1> QED BY <1>1, <1>2, <1>7, <1>9, <1>10, RestingIs, ReaderStep

LEMMA CheckMarkerStep ==
  ASSUME IInv, NEW r \in Readers, CheckMarker(r)
  PROVE  IInv'
<1> DEFINE p == IF last_tx # rd[r].marker THEN "store" ELSE "tail"
           y == [pc |-> p]
<1>1. /\ rd \in [Readers -> InnerType] /\ ro \in [Readers -> RestType \cup ListType \cup OpenType]
      /\ rd[r] \in InnerType /\ rd = [rd EXCEPT ![r] = rd[r]]
      /\ InnerInv(r) /\ opens \in Nat
  BY ReaderAt
<1>2. /\ ro' = [ro EXCEPT ![r] = y] /\ rd' = rd /\ opens' = opens + 1
      /\ UNCHANGED <<tx, sealed, base, files, last_tx, pc, runs, memtable, at, crashes, upgrades, torn_dir>>
  BY DEF CheckMarker, store, bounds
<1>3. y \in RestType
  <2>1. p \in {"store", "tail"}
    OBVIOUS
  <2> HIDE DEF p
  <2> QED BY <2>1 DEF RestType
<1> HIDE DEF y
<1>4. ro'[r] = y /\ opens' \in Nat
  BY <1>1, <1>2
<1>5. OpenInv(r)' /\ InnerInv(r)'
  BY <1>1, <1>2, <1>3, <1>4, InnerSame, RestAt DEF OpenInv
<1> QED BY <1>1, <1>2, <1>3, <1>4, <1>5, ReaderStep

\* Without a seal, the new batches go to the memtable.
LEMMA ReadTailStep ==
  ASSUME IInv, NEW r \in Readers, ReadTail(r)
  PROVE  IInv'
<1>1. /\ rd \in [Readers -> InnerType] /\ ro \in [Readers -> RestType \cup ListType \cup OpenType]
      /\ rd[r] \in InnerType /\ rd = [rd EXCEPT ![r] = rd[r]]
      /\ InnerInv(r) /\ tx \in Nat /\ opens \in Nat
  BY ReaderAt
<1>2. /\ ro[r].pc = "tail" /\ opens' = opens
      /\ UNCHANGED <<tx, sealed, base, files, last_tx, pc, runs, memtable, at, crashes, upgrades, torn_dir>>
  BY DEF ReadTail, store, bounds
<1>3. CASE rd' = rd /\ ro' = [ro EXCEPT ![r].pc = "store"]
  <2> DEFINE y == [ro[r] EXCEPT !.pc = "store"]
  <2>1. ro[r] \in RestType
    BY <1>1, <1>2 DEF ListType, OpenType
  <2>2. y \in RestType
    BY <2>1 DEF RestType
  <2>3. ro' = [ro EXCEPT ![r] = y]
    BY <1>3
  <2> HIDE DEF y
  <2>4. ro'[r] = y
    BY <1>1, <2>3
  <2>5. OpenInv(r)' /\ InnerInv(r)'
    BY <1>1, <1>3, <2>2, <2>4, InnerSame, RestAt DEF OpenInv
  <2> QED BY <1>1, <1>2, <1>3, <2>2, <2>3, <2>5, ReaderStep
<1>4. CASE /\ rd' = [rd EXCEPT ![r].tx = tx, ![r].memtable = @ \cup {t \in 1..tx : t > rd[r].tx}]
           /\ ro' = [ro EXCEPT ![r] = Resting]
  <2> DEFINE m == rd[r].memtable \cup {t \in 1..tx : t > rd[r].tx}
             x == [rd[r] EXCEPT !.tx = tx, !.memtable = m]
  <2>1. rd[r].tx \in 0..tx /\ rd[r].memtable \in SUBSET (1..tx)
    BY <1>1 DEF InnerType
  <2>2. m \in SUBSET (1..tx) /\ tx \in 0..tx
    BY <1>1, <2>1
  <2>3. ~rd[r].odd => \A o \in Orders : \A t \in 1..tx : t \in m \/ Has(rd[r].runs, o, t)
    BY <1>1, <2>1 DEF InnerInv
  <2>4. rd' = [rd EXCEPT ![r] = x]
    BY <1>4
  <2> HIDE DEF m
  <2>5. x \in InnerType /\ x.tx = tx /\ x.memtable = m /\ x.runs = rd[r].runs /\ x.odd = rd[r].odd
    BY <1>1, <2>2 DEF InnerType
  <2> HIDE DEF x
  <2>6. rd'[r] = x /\ ro'[r] = Resting
    BY <1>1, <1>4, <2>4
  <2>7. InnerInv(r)'
    BY <2>2, <2>3, <2>5, <2>6 DEF InnerInv
  <2>8. OpenInv(r)'
    BY <2>6, RestingIs, RestAt DEF OpenInv
  <2> QED BY <1>1, <1>2, <1>4, <2>4, <2>5, <2>7, <2>8, RestingIs, ReaderStep
<1> QED BY <1>3, <1>4 DEF ReadTail

-----------------------------------------------------------------------------
(* The invariant *)

LEMMA InitIInv == Init => IInv
<1> SUFFICES ASSUME Init PROVE IInv
  OBVIOUS
<1>1. /\ base \in {0, Old} /\ tx = base /\ sealed = base /\ last_tx = base
      /\ pc = "closed" /\ runs = {} /\ memtable = {} /\ at = 1
      /\ crashes = 0 /\ upgrades = 0 /\ ~torn_dir /\ torn_dir \in BOOLEAN
      /\ rd = [r \in Readers |-> NoInner] /\ ro = [r \in Readers |-> Resting] /\ opens = 0
  BY Zenon DEF Init
<1>2. tx \in Nat
  BY <1>1, ConstantsAssumption
<1>3. ASSUME NEW f \in files
      PROVE  /\ f \in FileType /\ f.name = 0 /\ f.txs = 1..tx /\ f.txs # {} /\ f.order \in Orders
             /\ base # 0
  <2>1. base # 0
    BY DEF Init
  <2>2. PICK o \in Orders : f = RunFile(o, Merged, 1..base, TRUE)
    BY <2>1 DEF Init
  <2>3. f = RunFile(o, 0, 1..tx, TRUE)
    BY <1>1, <2>2 DEF Merged
  <2>4. f.name = 0 /\ f.txs = 1..tx /\ f.order = o /\ f \in FileType
    BY <1>2, <2>3 DEF RunFile, FileType
  <2>5. 1 \in 1..tx
    BY <1>1, <1>2, <2>1
  <2> QED BY <2>1, <2>4, <2>5
<1>4. WriterType
  BY <1>1, <1>2, <1>3, ConstantsAssumption DEF WriterType, WriterStates
<1>5. NamesInv
  <2>1. ASSUME NEW f \in files, NEW g \in files, f.order = g.order PROVE f = g
    <3>1. base # 0
      BY <1>3
    <3>2. PICK o \in Orders : f = RunFile(o, Merged, 1..base, TRUE)
      BY <3>1 DEF Init
    <3>3. PICK i \in Orders : g = RunFile(i, Merged, 1..base, TRUE)
      BY <3>1 DEF Init
    <3>4. f.order = o /\ g.order = i
      BY <3>2, <3>3 DEF RunFile
    <3> QED BY <2>1, <3>2, <3>3, <3>4
  <2> QED BY <1>1, <1>2, <1>3, <2>1 DEF NamesInv
<1>6. PlaceInv
  BY <1>1 DEF PlaceInv, Moving
<1>7. CoverInv
  <2>1. Complete(files, last_tx)
    <3>1. CASE base = 0
      BY <1>1, <3>1 DEF Complete
    <3>2. CASE base # 0
      <4>1. ASSUME NEW o \in Orders, NEW t \in 1..tx PROVE Has(files, o, t)
        <5> DEFINE f == RunFile(o, Merged, 1..base, TRUE)
        <5>1. f \in files
          BY <3>2 DEF Init
        <5>2. f.order = o /\ f.txs = 1..tx
          BY <1>1 DEF RunFile
        <5> HIDE DEF f
        <5> QED BY <5>1, <5>2 DEF Has
      <4> QED BY <1>1, <4>1 DEF Complete
    <3> QED BY <3>1, <3>2
  <2> QED BY <1>1, <2>1 DEF CoverInv, Moving
<1>8. /\ NoInner \in InnerType /\ NoInner.tx = 0 /\ NoInner.memtable = {} /\ NoInner.runs = {}
      /\ NoInner.sealed = 0
  BY <1>1, <1>2 DEF NoInner, InnerType
<1>9. ReadersType
  BY <1>1, <1>8, RestingIs DEF ReadersType
<1>10. ASSUME NEW r \in Readers PROVE OpenInv(r) /\ InnerInv(r) /\ ro[r].pc = "idle"
  <2>1. rd[r] = NoInner /\ ro[r] = Resting
    BY <1>1
  <2>2. InnerInv(r)
    BY <1>8, <2>1 DEF InnerInv
  <2> QED BY <2>1, <2>2 DEF OpenInv, Resting
<1>11. TypeOK
  <2>1. ASSUME NEW r \in Readers
        PROVE  /\ rd[r].tx \in 0..tx /\ rd[r].sealed \in 0..sealed
               /\ rd[r].runs \in SUBSET FileType /\ rd[r].memtable \in SUBSET (1..rd[r].tx)
    BY <1>1, <1>2, <1>8
  <2> QED BY <1>4, <1>10, <2>1 DEF TypeOK, WriterType
<1> QED BY <1>5, <1>6, <1>7, <1>9, <1>10, <1>11 DEF IInv

\* Every step of the writer and of a reader keeps the invariant.
LEMMA NextIInv ==
  ASSUME IInv, Next
  PROVE  IInv'
<1>1. CASE Writer
  BY <1>1, OpenRunsStep, RemoveSomeStep, RecreateStep, LoadMemtableStep, AppendStep,
     SealAndFlushStep, CreateRunStep, FinishRunStep, FlushFailsStep, TruncateMarkerStep,
     WriteMarkerStep, RemoveMergedStep, MergeFailsStep, RenameMergedStep, NextOrderStep,
     FlushDoneStep, StopStep, UpgradeStep DEF Writer
<1>2. ASSUME NEW r \in Readers, Reader(r) PROVE IInv'
  BY <1>2, ReadStoreStep, ListRunsStep, OpenRunStep, RemoveRunStep, ReadMarkerStep,
     CheckMarkerStep, ReadTailStep DEF Reader
<1> QED BY <1>1, <1>2 DEF Next

LEMMA StutterIInv ==
  ASSUME IInv, UNCHANGED vars
  PROVE  IInv'
<1>1. UNCHANGED readers /\ tx' = tx /\ sealed' = sealed
      /\ UNCHANGED <<base, files, last_tx, pc, runs, memtable, at, crashes, upgrades, torn_dir, opens>>
  BY DEF vars, store, bounds, readers
<1>2. WriterType /\ NamesInv /\ PlaceInv /\ CoverInv
  BY Parts
<1>3. WriterType' /\ tx <= tx' /\ sealed <= sealed'
  BY <1>1, <1>2, SameFiles DEF WriterType
<1>4. NamesInv' /\ PlaceInv' /\ CoverInv'
  BY <1>1, <1>2 DEF NamesInv, PlaceInv, CoverInv, Complete, Has
<1>5. Kept
  BY <1>1 DEF Kept, Known, Promised
<1> QED BY <1>1, <1>3, <1>4, <1>5, WriterStep

\* The inductive invariant holds in every state of every behaviour.
THEOREM Invariant == Spec => []IInv
<1>1. IInv /\ [Next]_vars => IInv'
  BY NextIInv, StutterIInv
<1> QED BY <1>1, InitIInv, PTL DEF Spec

-----------------------------------------------------------------------------
(* What it shows *)

\* The batches of a sort order, as the properties name them.
LEMMA IndexedIs == \A fs, o, t : t \in Indexed(Of(fs, o)) <=> Has(fs, o, t)
BY DEF Indexed, Of, Has

\* No run, no memtable and no reader ever holds a batch that was never committed.
THEOREM TypeCorrect == Spec => []TypeOK
<1>1. IInv => TypeOK
  BY DEF IInv
<1> QED BY <1>1, Invariant, PTL

\* Whatever the point at which a process ends, every batch up to indexes/last_tx is in a run
\* file of every sort order, unless torn_dir says that one was removed.
THEOREM MarkerIsCovered == Spec => []MarkerCovered
<1>1. IInv => MarkerCovered
  BY IndexedIs DEF IInv, CoverInv, Complete, MarkerCovered, Replacing, Moving
<1> QED BY <1>1, Invariant, PTL

\* The runs and the memtable of a writable handle (FactLedger::open_writable) together hold
\* every committed batch, in every sort order, and its scans find the files of all its runs.
THEOREM IndexIsComplete == Spec => []IndexComplete
<1>1. ASSUME IInv, pc = "idle", ~torn_dir, NEW o \in Orders
      PROVE  1..tx \subseteq memtable \cup Indexed(Readable(Of(runs, o)))
  <2>1. /\ \A n \in 1..tx : n \in memtable \/ Has(runs, o, n)
        /\ \A f \in runs : f \in files
    BY <1>1 DEF IInv, CoverInv, Moving
  <2>2. Readable(Of(runs, o)) = Of(runs, o)
    BY <2>1 DEF Readable, Of
  <2> QED BY <2>1, <2>2, IndexedIs
<1>2. IInv => IndexComplete
  BY <1>1 DEF IndexComplete
<1> QED BY <1>2, Invariant, PTL

\* A scan of a reader (build_ro_inner, refresh_snapshot) that finds the runs of its sort order as
\* the reader has opened them finds every batch of its snapshot, whatever the writer and other
\* readers did meanwhile.
THEOREM ReadersAreComplete == Spec => []ReaderComplete
<1>1. IInv => ReaderComplete
  BY IndexedIs DEF IInv, InnerInv, ReaderComplete
<1> QED BY <1>1, Invariant, PTL
=============================================================================
