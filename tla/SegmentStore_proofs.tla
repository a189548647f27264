------------------------ MODULE SegmentStore_proofs ------------------------
(***************************************************************************)
(* The segment store for every number of readers, every seal threshold and *)
(* every bound: the type invariant, dense transaction numbers, immutable   *)
(* sealed segments, durable acknowledgements, what readers see, and that   *)
(* the store implements AppendLog.                                         *)
(*                                                                         *)
(* A read-only open can write over a segment (rewritten).  From then on    *)
(* only Formed holds: the types, the numbering of the segments, and that   *)
(* every frame in a file or on its way into a reader uses attributes that  *)
(* the manifest names.  Everything else is proved of the states before.    *)
(*                                                                         *)
(* None of it is inductive alone.  IInv adds what the code relies on       *)
(* silently: how the files look beyond the manifest, that only the last    *)
(* frame of the active file can be torn, and what the writer remembers at  *)
(* each point of append and seal.  RInv adds where HEAD can be behind the  *)
(* manifest, which attributes the manifest knows, and what each reader has *)
(* read at each point of an open and a refresh.  MInv adds what only the   *)
(* refinement needs: the bounds on the numbers, one batch per append, and  *)
(* that a reopen never goes back.                                          *)
(***************************************************************************)
EXTENDS MCSegmentStore, SequenceTheorems, FiniteSetTheorems, WellFoundedInduction, TLAPS

N == Len(manifest.sealed)
Base == SealedTxMax(manifest)

\* Sealed segment i with manifest entry e, in a file f of which y is synced, is complete and
\* numbered from `first` on.
SealedSeg(i, e, first, f, y) ==
  /\ e.seq = i - 1
  /\ e.sha = f
  /\ e.len = Len(f) /\ e.len >= 1
  /\ y = e.len
  /\ e.tx_min = first
  /\ e.tx_max = e.tx_min + e.len - 1
  /\ \A j \in 1..e.len : Whole(f[j]) /\ f[j].tx = e.tx_min + j - 1

\* Sealed segment i is file i - 1, and its numbers continue the ones before.
SealedInv ==
  \A i \in 1..N :
    SealedSeg(i, manifest.sealed[i],
              IF i = 1 THEN 0 ELSE manifest.sealed[i - 1].tx_max + 1,
              files[i - 1], synced[i - 1])

\* Nothing was written past the active segment.
EmptyInv == \A n \in Segs : n > N => files[n] = <<>> /\ synced[n] = 0

\* Only the last frame of the active segment can be torn; the others continue the numbers.
ActiveInv ==
  /\ \A j \in 1..Len(Active) : /\ j < Len(Active) => Whole(Active[j])
                               /\ Whole(Active[j]) => Active[j].tx = Base + j
  /\ synced[N] <= Len(Active)

AllWhole == \A j \in 1..Len(Active) : Whole(Active[j])

\* What the handle remembers when its memory and the files agree.
InStep ==
  /\ mhead.active_seq = N
  /\ mhead.committed_len = Len(Active)
  /\ next_tx = Base + 1 + Len(Active)
  /\ AllWhole

\* The frame the running append will acknowledge is already durable.
PendingSynced == \A f \in pending : \E j \in 1..synced[N] : j <= Len(Active) /\ Active[j] = f

WriterInv ==
  /\ wpc \in {"closed", "refused", "opening", "idle", "interned", "writing"} => pending = {}
  /\ wpc \in {"opening", "idle", "interned"} => InStep
  /\ wpc = "writing" => /\ mhead.active_seq = N
                        /\ Len(Active) = mhead.committed_len + 1
                        /\ next_tx = Base + 1 + mhead.committed_len
                        /\ attempts >= 1
                        /\ ~Whole(Active[Len(Active)])
  /\ wpc = "written" => /\ mhead.active_seq = N
                        /\ Len(Active) = mhead.committed_len + 1
                        /\ next_tx = Base + Len(Active)
                        /\ AllWhole
                        /\ \A f \in pending : f = Active[Len(Active)]
  /\ wpc = "synced"  => InStep /\ Len(Active) >= 1 /\ PendingSynced
  /\ wpc = "sealing" => InStep /\ Len(Active) >= 1 /\ PendingSynced
  /\ wpc = "manifested" => /\ N >= 1
                           /\ mhead.active_seq + 1 = N
                           /\ next_tx = Base + 1 /\ Active = <<>>
                           /\ \A f \in pending : \E j \in 1..Len(files[N - 1]) : files[N - 1][j] = f

\* Where an acknowledged frame is.
AckedInv ==
  \A f \in acked :
    \/ \E i \in 1..N : \E j \in 1..Len(files[i - 1]) : files[i - 1][j] = f
    \/ \E j \in 1..synced[N] : j <= Len(Active) /\ Whole(Active[j]) /\ Active[j] = f

\* What only an open that rewrites a segment would change: nothing but that writes to a file that
\* another process reads.
CleanTypeOK == StoreTypeOK /\ ~rewritten /\ head \in HeadType

\* The inductive invariant of the store; readers do not disturb it as long as they only read.
SInv ==
  /\ CleanTypeOK
  /\ N <= MaxSegs
  /\ SealedInv /\ EmptyInv /\ ActiveInv /\ WriterInv /\ AckedInv

\* A reader never knows more sealed segments than the manifest has.
ReaderSeq == \A r \in Readers : rd[r].mseq <= N

\* No reader is in the middle of a rewrite.
ReadersRead ==
  \A r \in Readers : rd[r].pc \notin {"o_write", "o_written", "o_gethead", "o_writehead"}

IInv == SInv /\ ReaderTypeOK /\ ReaderSeq /\ ReadersRead

-----------------------------------------------------------------------------
(* Frames and sequences *)

LEMMA TornType == Torn \in Frame /\ ~Whole(Torn)
  BY DEF Torn, Frame, Whole

\* walk_frames on a file of which only the last frame can be torn.
LEMMA ValidLenTail ==
  ASSUME NEW s \in Seq(Frame), \A j \in 1..Len(s) : j < Len(s) => Whole(s[j])
  PROVE  /\ ValidLen(s) \in 0..Len(s)
         /\ Len(s) - 1 <= ValidLen(s)
         /\ \A j \in 1..Len(s) : Whole(s[j]) <=> j <= ValidLen(s)
<1> DEFINE P(n) == /\ \A i \in 1..n : Whole(s[i])
                   /\ n < Len(s) => ~Whole(s[n + 1])
<1> HIDE DEF P
<1>0. Len(s) \in Nat
  OBVIOUS
<1>1. \E n \in 0..Len(s) : P(n)
  <2>1. CASE Len(s) = 0
    <3>1. P(0)
      BY <2>1 DEF P
    <3> QED BY <3>1, <1>0
  <2>2. CASE Len(s) # 0 /\ Whole(s[Len(s)])
    <3>1. P(Len(s))
      BY <2>2, <1>0 DEF P
    <3> QED BY <3>1, <1>0
  <2>3. CASE Len(s) # 0 /\ ~Whole(s[Len(s)])
    <3>1. P(Len(s) - 1)
      BY <2>3, <1>0 DEF P
    <3> QED BY <3>1, <1>0, <2>3
  <2> QED BY <2>1, <2>2, <2>3
<1>2. ValidLen(s) = CHOOSE n \in 0..Len(s) : P(n)
  BY DEF ValidLen, P
<1>3. ValidLen(s) \in 0..Len(s) /\ P(ValidLen(s))
  BY <1>1, <1>2
<1>4. \A j \in 1..Len(s) : Whole(s[j]) <=> j <= ValidLen(s)
  <2> SUFFICES ASSUME NEW j \in 1..Len(s) PROVE Whole(s[j]) <=> j <= ValidLen(s)
    OBVIOUS
  <2>1. CASE ValidLen(s) = Len(s)
    BY <1>3, <2>1, <1>0 DEF P
  <2>2. CASE ValidLen(s) < Len(s)
    <3>1. ~Whole(s[ValidLen(s) + 1])
      BY <1>3, <2>2 DEF P
    <3>2. ValidLen(s) + 1 \in 1..Len(s)
      BY <1>3, <2>2, <1>0
    <3>3. ValidLen(s) + 1 = Len(s)
      BY <3>1, <3>2, <1>0
    <3> QED BY <3>1, <3>3, <1>3, <1>0 DEF P
  <2> QED BY <2>1, <2>2, <1>3, <1>0
<1>5. Len(s) - 1 <= ValidLen(s)
  <2>1. CASE Len(s) <= 1
    BY <2>1, <1>3, <1>0
  <2>2. CASE Len(s) > 1
    <3>1. Len(s) - 1 \in 1..Len(s) /\ Whole(s[Len(s) - 1])
      BY <2>2, <1>0
    <3> QED BY <3>1, <1>4
  <2> QED BY <2>1, <2>2, <1>0
<1> QED BY <1>3, <1>4, <1>5

\* The first n elements of a sequence.
LEMMA PrefixFacts ==
  ASSUME NEW S, NEW s \in Seq(S), NEW n \in 0..Len(s)
  PROVE  /\ SubSeq(s, 1, n) \in Seq(S)
         /\ Len(SubSeq(s, 1, n)) = n
         /\ \A j \in 1..n : SubSeq(s, 1, n)[j] = s[j]
  BY SubSeqProperties

\* What a scan keeps of such a file.
LEMMA ValidFacts ==
  ASSUME NEW s \in Seq(Frame), \A j \in 1..Len(s) : j < Len(s) => Whole(s[j])
  PROVE  /\ Valid(s) \in Seq(Frame)
         /\ Len(Valid(s)) = ValidLen(s)
         /\ \A j \in 1..ValidLen(s) : Valid(s)[j] = s[j] /\ Whole(s[j])
         /\ ValidLen(s) \in 0..Len(s)
<1>1. /\ ValidLen(s) \in 0..Len(s)
      /\ \A j \in 1..Len(s) : Whole(s[j]) <=> j <= ValidLen(s)
  BY ValidLenTail
<1>2. /\ Valid(s) \in Seq(Frame) /\ Len(Valid(s)) = ValidLen(s)
      /\ \A j \in 1..ValidLen(s) : Valid(s)[j] = s[j]
  BY <1>1, PrefixFacts DEF Valid
<1> QED BY <1>1, <1>2


-----------------------------------------------------------------------------
(* The store: one lemma per action *)

LEMMA InitSInv == Init => SInv
<1> SUFFICES ASSUME Init PROVE SInv
  OBVIOUS
<1>1. NoHead \in HeadType
  BY DEF NoHead, HeadType
<1>2. CleanTypeOK
  <2>1. files \in [Segs -> Seq(Frame)] /\ synced \in [Segs -> Nat]
    BY DEF Init
  <2>2. manifest \in [sealed : Seq(SealedType), attrs : Nat]
    <3>1. <<>> \in Seq(SealedType)
      OBVIOUS
    <3> QED BY <3>1 DEF Init
  <2> QED BY <1>1, <2>1, <2>2 DEF Init, CleanTypeOK, StoreTypeOK, WriterStates
<1>3. /\ N = 0 /\ Base = -1 /\ Active = <<>> /\ synced[N] = 0
      /\ wpc = "closed" /\ acked = {} /\ pending = {}
      /\ \A n \in Segs : files[n] = <<>> /\ synced[n] = 0
  BY ConstantsAssumption DEF Init, N, Base, SealedTxMax, Active, ActiveSeq, Segs
<1>4. N <= MaxSegs /\ SealedInv /\ EmptyInv /\ ActiveInv /\ WriterInv /\ AckedInv
  BY <1>3, ConstantsAssumption
  DEF SealedInv, EmptyInv, ActiveInv, WriterInv, AckedInv
<1> QED BY <1>2, <1>4 DEF SInv

\* Steps that leave the segment files and the sealed list alone.
LEMMA SameFiles ==
  ASSUME SInv, UNCHANGED <<files, synced>>, manifest'.sealed = manifest.sealed
  PROVE  /\ N' = N /\ Base' = Base /\ Active' = Active /\ AllWhole' = AllWhole
         /\ (N <= MaxSegs)' /\ SealedInv' /\ EmptyInv' /\ ActiveInv'
<1>1. N' = N /\ Base' = Base /\ Active' = Active
  BY DEF N, Base, Active, ActiveSeq, SealedTxMax
<1>2. AllWhole' = AllWhole /\ (N <= MaxSegs)' /\ ActiveInv'
  BY <1>1 DEF SInv, ActiveInv, AllWhole
<1>3. SealedInv' /\ EmptyInv'
  BY <1>1 DEF SInv, SealedInv, EmptyInv
<1> QED BY <1>1, <1>2, <1>3

LEMMA OpenHeadInv == SInv /\ OpenHead => SInv'
<1> SUFFICES ASSUME SInv, OpenHead PROVE SInv'
  OBVIOUS
<1>1. /\ N' = N /\ Base' = Base /\ Active' = Active /\ AllWhole' = AllWhole
      /\ (N <= MaxSegs)' /\ SealedInv' /\ EmptyInv' /\ ActiveInv'
  BY SameFiles DEF OpenHead
<1>2. CleanTypeOK'
  BY DEF SInv, OpenHead, CleanTypeOK, StoreTypeOK, WriterStates
<1>3. WriterInv'
  BY <1>1 DEF SInv, OpenHead, WriterInv, InStep
<1>4. AckedInv'
  BY <1>1 DEF SInv, OpenHead, AckedInv
<1> QED BY <1>1, <1>2, <1>3, <1>4 DEF SInv

LEMMA OpenRefusedInv == SInv /\ OpenRefused => SInv'
<1> SUFFICES ASSUME SInv, OpenRefused PROVE SInv'
  OBVIOUS
<1>1. /\ N' = N /\ Base' = Base /\ Active' = Active /\ AllWhole' = AllWhole
      /\ (N <= MaxSegs)' /\ SealedInv' /\ EmptyInv' /\ ActiveInv'
  BY SameFiles DEF OpenRefused, disk
<1>2. CleanTypeOK'
  BY DEF SInv, OpenRefused, disk, CleanTypeOK, StoreTypeOK, WriterStates
<1>3. WriterInv' /\ AckedInv'
  BY <1>1 DEF SInv, OpenRefused, disk, WriterInv, AckedInv
<1> QED BY <1>1, <1>2, <1>3 DEF SInv

LEMMA PersistManifestInv == SInv /\ PersistManifest => SInv'
<1> SUFFICES ASSUME SInv, PersistManifest PROVE SInv'
  OBVIOUS
<1>0. manifest'.sealed = manifest.sealed /\ manifest' \in [sealed : Seq(SealedType), attrs : Nat]
  <2>1. manifest \in [sealed : Seq(SealedType), attrs : Nat]
    BY DEF SInv, CleanTypeOK, StoreTypeOK
  <2>2. manifest' = [manifest EXCEPT !.attrs = @ + 1]
    BY DEF PersistManifest
  <2> QED BY <2>1, <2>2
<1>1. /\ N' = N /\ Base' = Base /\ Active' = Active /\ AllWhole' = AllWhole
      /\ (N <= MaxSegs)' /\ SealedInv' /\ EmptyInv' /\ ActiveInv'
  BY <1>0, SameFiles DEF PersistManifest
<1>2. CleanTypeOK'
  BY <1>0 DEF SInv, PersistManifest, CleanTypeOK, StoreTypeOK, WriterStates
<1>3. WriterInv' /\ AckedInv'
  BY <1>1 DEF SInv, PersistManifest, WriterInv, InStep, AckedInv
<1> QED BY <1>1, <1>2, <1>3 DEF SInv

LEMMA SealActiveInv == SInv /\ SealActive => SInv'
<1> SUFFICES ASSUME SInv, SealActive PROVE SInv'
  OBVIOUS
<1>1. /\ N' = N /\ Base' = Base /\ Active' = Active /\ AllWhole' = AllWhole
      /\ (N <= MaxSegs)' /\ SealedInv' /\ EmptyInv' /\ ActiveInv'
  BY SameFiles DEF SealActive, disk
<1>2. CleanTypeOK'
  BY DEF SInv, SealActive, disk, CleanTypeOK, StoreTypeOK, WriterStates
<1>3. WriterInv'
  <2>1. InStep /\ pending = {} /\ mhead.committed_len \in Nat \ {0}
    BY DEF SInv, WriterInv, SealActive, CleanTypeOK, StoreTypeOK, HeadType
  <2> QED BY <1>1, <2>1 DEF SealActive, disk, WriterInv, InStep, PendingSynced
<1>4. AckedInv'
  BY <1>1 DEF SInv, SealActive, disk, AckedInv
<1> QED BY <1>1, <1>2, <1>3, <1>4 DEF SInv

LEMMA PublishHeadInv == SInv /\ PublishHead => SInv'
<1> SUFFICES ASSUME SInv, PublishHead PROVE SInv'
  OBVIOUS
<1>1. /\ N' = N /\ Base' = Base /\ Active' = Active /\ AllWhole' = AllWhole
      /\ (N <= MaxSegs)' /\ SealedInv' /\ EmptyInv' /\ ActiveInv'
  BY SameFiles DEF PublishHead
<1>2. CleanTypeOK'
  BY DEF SInv, PublishHead, CleanTypeOK, StoreTypeOK, WriterStates
<1>3. InStep /\ Len(Active) >= 1 /\ PendingSynced
  BY DEF SInv, WriterInv, PublishHead
<1>4. WriterInv'
  BY <1>1, <1>3 DEF PublishHead, WriterInv, InStep, PendingSynced
<1>5. AckedInv'
  <2> SUFFICES ASSUME NEW f \in acked', f \notin acked
               PROVE  \E j \in 1..synced[N] : j <= Len(Active) /\ Whole(Active[j]) /\ Active[j] = f
    BY <1>1 DEF SInv, PublishHead, AckedInv
  <2>1. f \in pending
    BY DEF PublishHead
  <2>2. PICK j \in 1..synced[N] : j <= Len(Active) /\ Active[j] = f
    BY <1>3, <2>1 DEF PendingSynced
  <2>3. Whole(Active[j])
    <3>1. synced[N] \in Nat /\ Len(Active) \in Nat
      BY DEF SInv, CleanTypeOK, StoreTypeOK, N, Active, ActiveSeq, Segs
    <3> QED BY <1>3, <2>2, <3>1 DEF InStep, AllWhole
  <2> QED BY <2>2, <2>3
<1> QED BY <1>1, <1>2, <1>4, <1>5 DEF SInv

LEMMA CrashInv == SInv /\ Crash => SInv'
<1> SUFFICES ASSUME SInv, Crash PROVE SInv'
  OBVIOUS
<1>1. /\ N' = N /\ Base' = Base /\ Active' = Active /\ AllWhole' = AllWhole
      /\ (N <= MaxSegs)' /\ SealedInv' /\ EmptyInv' /\ ActiveInv'
  BY SameFiles DEF Crash, disk
<1>2. CleanTypeOK'
  BY DEF SInv, Crash, ForgetWriter, disk, CleanTypeOK, StoreTypeOK, WriterStates, NoHead, HeadType
<1>3. WriterInv' /\ AckedInv'
  BY <1>1 DEF SInv, Crash, ForgetWriter, disk, WriterInv, AckedInv
<1> QED BY <1>1, <1>2, <1>3 DEF SInv


LEMMA Basics ==
  ASSUME SInv
  PROVE  /\ N \in Nat /\ N \in Segs /\ ActiveSeq(manifest) = N /\ Active = files[N]
         /\ Active \in Seq(Frame) /\ Len(Active) \in Nat
         /\ synced[N] \in Nat
         /\ Base \in Int /\ Base >= -1
         /\ \A i \in 1..N : i - 1 \in Segs /\ i - 1 # N
         /\ manifest \in [sealed : Seq(SealedType), attrs : Nat]
<1>1. N \in Nat /\ N \in Segs
  BY ConstantsAssumption DEF SInv, CleanTypeOK, StoreTypeOK, N, Segs
<1>2. Active = files[N] /\ ActiveSeq(manifest) = N
  BY DEF Active, ActiveSeq, N
<1>3. files[N] \in Seq(Frame) /\ synced[N] \in Nat
  BY <1>1 DEF SInv, CleanTypeOK, StoreTypeOK
<1>4. Base \in Int /\ Base >= -1
  <2>1. CASE manifest.sealed = <<>>
    BY <2>1 DEF Base, SealedTxMax
  <2>2. CASE manifest.sealed # <<>>
    <3>1. manifest.sealed[Len(manifest.sealed)] \in SealedType
      BY <2>2 DEF SInv, CleanTypeOK, StoreTypeOK
    <3> QED BY <2>2, <3>1 DEF Base, SealedTxMax, SealedType
  <2> QED BY <2>1, <2>2
<1>5. \A i \in 1..N : i - 1 \in Segs /\ i - 1 # N
  BY <1>1, ConstantsAssumption DEF Segs
<1> QED BY <1>1, <1>2, <1>3, <1>4, <1>5 DEF SInv, CleanTypeOK, StoreTypeOK

\* Steps that change no segment file but the active one.
LEMMA SameSealed ==
  ASSUME SInv, manifest'.sealed = manifest.sealed,
         \A n \in Segs : n # N => files'[n] = files[n] /\ synced'[n] = synced[n]
  PROVE  /\ N' = N /\ Base' = Base /\ Active' = files'[N]
         /\ (N <= MaxSegs)' /\ SealedInv' /\ EmptyInv'
<1>0. /\ N \in Nat /\ N \in Segs
      /\ \A i \in 1..N : i - 1 \in Segs /\ i - 1 # N
  BY Basics
<1>1. N' = N /\ Base' = Base /\ Active' = files'[N]
  BY DEF N, Base, Active, ActiveSeq, SealedTxMax
<1>2. SealedInv'
  BY <1>0, <1>1 DEF SInv, SealedInv
<1>3. EmptyInv'
  BY <1>0, <1>1 DEF SInv, EmptyInv, Segs
<1> QED BY <1>1, <1>2, <1>3 DEF SInv

\* Acknowledged frames when only the active file changes, and only past its synced part.
LEMMA AckedKept ==
  ASSUME SInv, manifest'.sealed = manifest.sealed, acked' = acked,
         \A n \in Segs : n # N => files'[n] = files[n],
         synced'[N] \in Nat, files'[N] \in Seq(Frame),
         \A j \in 1..synced[N] : j <= Len(Active) /\ Whole(Active[j]) =>
            j <= synced'[N] /\ j <= Len(files'[N]) /\ files'[N][j] = Active[j]
  PROVE  AckedInv'
<1>0. /\ N \in Nat /\ N \in Segs /\ synced[N] \in Nat
      /\ \A i \in 1..N : i - 1 \in Segs /\ i - 1 # N
  BY Basics
<1>1. N' = N /\ Active' = files'[N]
  BY DEF N, Active, ActiveSeq
<1> SUFFICES ASSUME NEW f \in acked
             PROVE  \/ \E i \in 1..N : \E j \in 1..Len(files'[i - 1]) : files'[i - 1][j] = f
                    \/ \E j \in 1..synced'[N] : /\ j <= Len(files'[N])
                                                /\ Whole(files'[N][j]) /\ files'[N][j] = f
  BY <1>1 DEF AckedInv
<1>2. CASE \E i \in 1..N : \E j \in 1..Len(files[i - 1]) : files[i - 1][j] = f
  BY <1>0, <1>2
<1>3. CASE \E j \in 1..synced[N] : j <= Len(Active) /\ Whole(Active[j]) /\ Active[j] = f
  <2>1. PICK j \in 1..synced[N] : j <= Len(Active) /\ Whole(Active[j]) /\ Active[j] = f
    BY <1>3
  <2>2. j <= synced'[N] /\ j <= Len(files'[N]) /\ files'[N][j] = Active[j]
    BY <2>1
  <2>3. j \in 1..synced'[N]
    BY <1>0, <2>2
  <2> QED BY <2>1, <2>2, <2>3
<1> QED BY <1>2, <1>3 DEF SInv, AckedInv

LEMMA SyncActiveInv == SInv /\ SyncActive => SInv'
<1> SUFFICES ASSUME SInv, SyncActive PROVE SInv'
  OBVIOUS
<1>0. /\ N \in Nat /\ N \in Segs /\ Active = files[N] /\ Active \in Seq(Frame)
      /\ Len(Active) \in Nat /\ synced[N] \in Nat /\ Base \in Int
  BY Basics
<1>1. /\ mhead.active_seq = N /\ Len(Active) = mhead.committed_len + 1
      /\ next_tx = Base + Len(Active) /\ AllWhole
      /\ \A f \in pending : f = Active[Len(Active)]
  BY DEF SInv, WriterInv, SyncActive
<1>2. /\ files' = files /\ manifest' = manifest /\ acked' = acked /\ pending' = pending
      /\ synced' = [synced EXCEPT ![N] = Len(Active)]
  BY <1>0, <1>1 DEF SyncActive, Fsync
<1>3. synced \in [Segs -> Nat]
  BY DEF SInv, CleanTypeOK, StoreTypeOK
<1>4. /\ synced'[N] = Len(Active) /\ synced' \in [Segs -> Nat]
      /\ \A n \in Segs : n # N => synced'[n] = synced[n]
  BY <1>0, <1>2, <1>3
<1>5. /\ N' = N /\ Base' = Base /\ Active' = Active
      /\ (N <= MaxSegs)' /\ SealedInv' /\ EmptyInv'
  BY <1>0, <1>2, <1>4, SameSealed
<1>6. CleanTypeOK'
  <2>1. mhead \in [active_seq : Nat, committed_len : Nat] /\ next_tx \in Nat
    BY DEF SInv, CleanTypeOK, StoreTypeOK, HeadType
  <2>2. mhead' = [mhead EXCEPT !.committed_len = @ + 1] /\ next_tx' = next_tx + 1
    BY DEF SyncActive
  <2>3. mhead' \in HeadType /\ next_tx' \in Nat
    BY <2>1, <2>2 DEF HeadType
  <2> QED BY <1>4, <2>3 DEF SInv, SyncActive, CleanTypeOK, StoreTypeOK, WriterStates
<1>7. ActiveInv'
  BY <1>0, <1>4, <1>5 DEF SInv, ActiveInv
<1>8. mhead'.active_seq = N /\ mhead'.committed_len = Len(Active) /\ next_tx' = Base + 1 + Len(Active)
  BY <1>0, <1>1 DEF SyncActive, SInv, CleanTypeOK, StoreTypeOK, HeadType
<1>9. WriterInv'
  <2>1. Len(Active) >= 1
    BY <1>0, <1>1 DEF SInv, CleanTypeOK, StoreTypeOK, HeadType
  <2>2. InStep'
    BY <1>1, <1>5, <1>8 DEF InStep, AllWhole
  <2>3. PendingSynced'
    BY <1>0, <1>1, <1>2, <1>4, <1>5, <2>1 DEF PendingSynced
  <2> QED BY <1>5, <2>1, <2>2, <2>3 DEF SyncActive, WriterInv
<1>10. AckedInv'
  BY <1>0, <1>2, <1>4, AckedKept DEF SInv, ActiveInv
<1> QED BY <1>5, <1>6, <1>7, <1>9, <1>10 DEF SInv


LEMMA WriteStartInv == SInv /\ WriteStart => SInv'
<1> SUFFICES ASSUME SInv, WriteStart PROVE SInv'
  OBVIOUS
<1>0. /\ N \in Nat /\ N \in Segs /\ Active = files[N] /\ Active \in Seq(Frame)
      /\ Len(Active) \in Nat /\ synced[N] \in Nat /\ Base \in Int
  BY Basics
<1>1. InStep /\ pending = {}
  BY DEF SInv, WriterInv, WriteStart
<1>2. /\ files' = [files EXCEPT ![N] = Append(Active, Torn)]
      /\ manifest' = manifest /\ acked' = acked /\ pending' = pending /\ synced' = synced
      /\ mhead' = mhead /\ next_tx' = next_tx /\ attempts' = attempts + 1 /\ wpc' = "writing"
  BY <1>0, <1>1 DEF WriteStart, InStep
<1>3. files \in [Segs -> Seq(Frame)] /\ attempts \in Nat
  BY DEF SInv, CleanTypeOK, StoreTypeOK
<1>4. /\ files'[N] = Append(Active, Torn) /\ files'[N] \in Seq(Frame)
      /\ Len(files'[N]) = Len(Active) + 1
      /\ \A j \in 1..Len(Active) : files'[N][j] = Active[j]
      /\ files'[N][Len(Active) + 1] = Torn
  BY <1>0, <1>2, <1>3, TornType, AppendProperties
<1>5. /\ files' \in [Segs -> Seq(Frame)]
      /\ \A n \in Segs : n # N => files'[n] = files[n]
  BY <1>0, <1>2, <1>3, <1>4
<1>6. /\ N' = N /\ Base' = Base /\ Active' = files'[N]
      /\ (N <= MaxSegs)' /\ SealedInv' /\ EmptyInv'
  BY <1>2, <1>5, SameSealed
<1>7. CleanTypeOK'
  BY <1>2, <1>3, <1>5 DEF SInv, WriteStart, CleanTypeOK, StoreTypeOK, WriterStates
<1>8. ActiveInv'
  <2>1. \A j \in 1..Len(Active) : Whole(Active[j]) /\ Active[j].tx = Base + j
    BY <1>1 DEF SInv, ActiveInv, InStep, AllWhole
  <2>2. synced[N] <= Len(Active)
    BY DEF SInv, ActiveInv
  <2>3. ASSUME NEW j \in 1..Len(files'[N])
        PROVE  /\ j < Len(files'[N]) => Whole(files'[N][j])
               /\ Whole(files'[N][j]) => files'[N][j].tx = Base + j
    <3>1. CASE j = Len(Active) + 1
      BY <3>1, <1>0, <1>4, TornType
    <3>2. CASE j # Len(Active) + 1
      <4>1. j \in 1..Len(Active)
        BY <3>2, <1>0, <1>4
      <4> QED BY <4>1, <1>4, <2>1
    <3> QED BY <3>1, <3>2
  <2>4. (synced[N] <= Len(Active))'
    BY <1>0, <1>2, <1>4, <1>6, <2>2
  <2> QED BY <1>6, <2>3, <2>4 DEF ActiveInv
<1>9. WriterInv'
  <2>1. ~Whole(files'[N][Len(files'[N])])
    BY <1>0, <1>4, TornType
  <2> QED BY <1>0, <1>1, <1>2, <1>3, <1>4, <1>6, <2>1 DEF WriterInv, InStep
<1>10. AckedInv'
  BY <1>0, <1>2, <1>4, <1>5, AckedKept DEF SInv, ActiveInv
<1> QED BY <1>6, <1>7, <1>8, <1>9, <1>10 DEF SInv

LEMMA WriteEndInv == SInv /\ WriteEnd => SInv'
<1> SUFFICES ASSUME SInv, WriteEnd PROVE SInv'
  OBVIOUS
<1> DEFINE m == Len(Active)
<1>0. /\ N \in Nat /\ N \in Segs /\ Active = files[N] /\ Active \in Seq(Frame)
      /\ m \in Nat /\ synced[N] \in Nat /\ Base \in Int
  BY Basics
<1>1. /\ mhead.active_seq = N /\ m = mhead.committed_len + 1
      /\ next_tx = Base + 1 + mhead.committed_len /\ attempts >= 1 /\ pending = {}
      /\ mhead.committed_len \in Nat
  BY DEF SInv, WriterInv, WriteEnd, CleanTypeOK, StoreTypeOK, HeadType
<1>2. /\ files' = [files EXCEPT ![N] = [Active EXCEPT ![m] = NewFrame]]
      /\ manifest' = manifest /\ acked' = acked /\ pending' = {NewFrame} /\ synced' = synced
      /\ mhead' = mhead /\ next_tx' = next_tx /\ attempts' = attempts /\ wpc' = "written"
  BY <1>0, <1>1 DEF WriteEnd, SInv, CleanTypeOK
<1>3. files \in [Segs -> Seq(Frame)]
  BY DEF SInv, CleanTypeOK, StoreTypeOK
<1>4. NewFrame \in Frame /\ Whole(NewFrame) /\ NewFrame.tx = Base + m
  <2>1. next_tx \in Nat /\ attempts \in Nat /\ manifest.attrs \in Nat
    BY DEF SInv, CleanTypeOK, StoreTypeOK
  <2>2. NewFrame \in Frame /\ NewFrame.id = attempts /\ NewFrame.tx = next_tx
    BY <2>1 DEF NewFrame, Frame
  <2> QED BY <1>0, <1>1, <2>1, <2>2 DEF Whole
<1>5. /\ files'[N] = [Active EXCEPT ![m] = NewFrame] /\ files'[N] \in Seq(Frame)
      /\ Len(files'[N]) = m
      /\ \A j \in 1..m : j # m => files'[N][j] = Active[j]
      /\ files'[N][m] = NewFrame
  <2>1. files'[N] = [Active EXCEPT ![m] = NewFrame]
    BY <1>0, <1>2, <1>3
  <2>2. m \in 1..Len(Active)
    BY <1>0, <1>1
  <2> QED BY <2>1, <2>2, <1>0, <1>4, ExceptSeq
<1>6. /\ files' \in [Segs -> Seq(Frame)]
      /\ \A n \in Segs : n # N => files'[n] = files[n]
  BY <1>0, <1>2, <1>3, <1>5
<1>7. /\ N' = N /\ Base' = Base /\ Active' = files'[N]
      /\ (N <= MaxSegs)' /\ SealedInv' /\ EmptyInv'
  BY <1>2, <1>6, SameSealed
<1>8. CleanTypeOK'
  BY <1>2, <1>4, <1>6 DEF SInv, WriteEnd, CleanTypeOK, StoreTypeOK, WriterStates
<1>9. \A j \in 1..m : Whole(files'[N][j]) /\ files'[N][j].tx = Base + j
  <2> SUFFICES ASSUME NEW j \in 1..m PROVE Whole(files'[N][j]) /\ files'[N][j].tx = Base + j
    OBVIOUS
  <2>1. CASE j = m
    BY <2>1, <1>4, <1>5
  <2>2. CASE j # m
    BY <2>2, <1>0, <1>5 DEF SInv, ActiveInv
  <2> QED BY <2>1, <2>2
<1>10. ActiveInv'
  BY <1>0, <1>2, <1>5, <1>7, <1>9 DEF SInv, ActiveInv
<1>11. WriterInv'
  <2>1. AllWhole'
    BY <1>5, <1>7, <1>9 DEF AllWhole
  <2>2. (mhead.active_seq = N /\ Len(Active) = mhead.committed_len + 1)'
    BY <1>1, <1>2, <1>5, <1>7
  <2>3. (next_tx = Base + Len(Active))'
    <3>1. next_tx = Base + m
      BY <1>0, <1>1
    <3> QED BY <1>2, <1>5, <1>7, <3>1
  <2>4. (\A f \in pending : f = Active[Len(Active)])'
    BY <1>2, <1>5, <1>7
  <2> QED BY <1>2, <2>1, <2>2, <2>3, <2>4 DEF WriterInv
<1>12. AckedInv'
  <2>1. ~Whole(Active[m])
    BY DEF SInv, WriterInv, WriteEnd
  <2> QED BY <1>0, <1>2, <1>5, <1>6, <2>1, AckedKept DEF SInv, ActiveInv
<1> QED BY <1>7, <1>8, <1>10, <1>11, <1>12 DEF SInv


\* What recovery reads off the files: the numbers continue where the scan stopped.
LEMMA NextTxFacts ==
  ASSUME SInv, NEW s \in Seq(Frame),
         Len(s) # 0 => s[Len(s)].tx = Base + Len(s)
  PROVE  NextTx(manifest, s) = Base + 1 + Len(s) /\ NextTx(manifest, s) \in Nat
<1>0. Base \in Int /\ Base >= -1 /\ Len(s) \in Nat
  BY Basics
<1>1. CASE s = <<>>
  <2>1. Len(s) = 0 /\ LastTx(s) = -1
    BY <1>1 DEF LastTx
  <2> QED BY <1>0, <2>1 DEF NextTx, Base
<1>2. CASE s # <<>>
  <2>1. Len(s) # 0
    BY <1>2, EmptySeq
  <2>2. LastTx(s) = Base + Len(s)
    BY <1>2, <2>1 DEF LastTx
  <2> QED BY <1>0, <2>1, <2>2 DEF NextTx, Base
<1> QED BY <1>1, <1>2

LEMMA OpenScanInv == SInv /\ OpenScan => SInv'
<1> SUFFICES ASSUME SInv, OpenScan PROVE SInv'
  OBVIOUS
<1> DEFINE v == ValidLen(Active)
<1>0. /\ N \in Nat /\ N \in Segs /\ ActiveSeq(manifest) = N /\ Active = files[N]
      /\ Active \in Seq(Frame) /\ Len(Active) \in Nat /\ synced[N] \in Nat /\ Base \in Int
  BY Basics
<1>1. /\ \A j \in 1..Len(Active) : j < Len(Active) => Whole(Active[j])
      /\ \A j \in 1..Len(Active) : Whole(Active[j]) => Active[j].tx = Base + j
      /\ synced[N] <= Len(Active)
  BY DEF SInv, ActiveInv
<1>2. /\ Valid(Active) \in Seq(Frame) /\ Len(Valid(Active)) = v /\ v \in 0..Len(Active)
      /\ \A j \in 1..v : Valid(Active)[j] = Active[j] /\ Whole(Active[j])
      /\ \A j \in 1..Len(Active) : Whole(Active[j]) <=> j <= v
  BY <1>0, <1>1, ValidFacts, ValidLenTail
<1>3. /\ files' = [files EXCEPT ![N] = Valid(Active)]
      /\ synced' = IF v < Len(Active) THEN [synced EXCEPT ![N] = v] ELSE synced
      /\ mhead' = [active_seq |-> N, committed_len |-> v]
      /\ next_tx' = NextTx(manifest, Valid(Active))
      /\ wpc' = "opening" /\ manifest' = manifest /\ acked' = acked /\ pending' = pending
  BY <1>0, <1>2 DEF OpenScan, Recovered
<1>4. /\ files \in [Segs -> Seq(Frame)] /\ synced \in [Segs -> Nat]
      /\ pending = {}
  BY DEF SInv, CleanTypeOK, StoreTypeOK, WriterInv, OpenScan
<1>5. /\ files'[N] = Valid(Active) /\ files' \in [Segs -> Seq(Frame)]
      /\ \A n \in Segs : n # N => files'[n] = files[n]
  BY <1>0, <1>2, <1>3, <1>4
<1>6. /\ synced' \in [Segs -> Nat] /\ synced'[N] = (IF v < Len(Active) THEN v ELSE synced[N])
      /\ \A n \in Segs : n # N => synced'[n] = synced[n]
  BY <1>0, <1>2, <1>3, <1>4
<1>7. /\ N' = N /\ Base' = Base /\ Active' = files'[N]
      /\ (N <= MaxSegs)' /\ SealedInv' /\ EmptyInv'
  BY <1>3, <1>5, <1>6, SameSealed
<1>8. \A j \in 1..v : Whole(Valid(Active)[j]) /\ Valid(Active)[j].tx = Base + j
  <2> SUFFICES ASSUME NEW j \in 1..v
               PROVE  Whole(Valid(Active)[j]) /\ Valid(Active)[j].tx = Base + j
    OBVIOUS
  <2>1. j \in 1..Len(Active)
    BY <1>0, <1>2
  <2>2. Valid(Active)[j] = Active[j] /\ Whole(Active[j])
    BY <1>2
  <2> QED BY <1>1, <2>1, <2>2
<1>9. next_tx' = Base + 1 + v /\ next_tx' \in Nat
  <2>1. v # 0 => Valid(Active)[v].tx = Base + v
    BY <1>0, <1>2, <1>8
  <2> QED BY <1>2, <1>3, <2>1, NextTxFacts
<1>10. CleanTypeOK'
  <2>1. mhead' \in HeadType
    BY <1>0, <1>2, <1>3 DEF HeadType
  <2> QED BY <1>5, <1>6, <1>9, <2>1 DEF SInv, OpenScan, CleanTypeOK, StoreTypeOK, WriterStates
<1>11. ActiveInv'
  <2>1. (synced[N] <= Len(Active))'
    BY <1>0, <1>1, <1>2, <1>5, <1>6, <1>7
  <2> QED BY <1>2, <1>5, <1>7, <1>8, <2>1 DEF ActiveInv
<1>12. WriterInv'
  <2>1. AllWhole'
    BY <1>2, <1>5, <1>7, <1>8 DEF AllWhole
  <2>2. InStep'
    BY <1>2, <1>3, <1>5, <1>7, <1>9, <2>1 DEF InStep
  <2> QED BY <1>3, <1>4, <2>2 DEF WriterInv
<1>13. AckedInv'
  <2>1. ASSUME NEW j \in 1..synced[N], j <= Len(Active) /\ Whole(Active[j])
        PROVE  j <= synced'[N] /\ j <= Len(files'[N]) /\ files'[N][j] = Active[j]
    <3>1. j \in 1..v
      BY <1>0, <1>2, <2>1
    <3> QED BY <1>0, <1>2, <1>5, <1>6, <3>1
  <2> QED BY <1>0, <1>2, <1>3, <1>5, <1>6, <2>1, AckedKept
<1> QED BY <1>7, <1>10, <1>11, <1>12, <1>13 DEF SInv


\* What is sealed is whole and as long as the watermark says: the checks of seal_active pass.
LEMMA SealableFacts ==
  ASSUME SInv, wpc = "sealing"
  PROVE  /\ mhead.active_seq = N /\ Sealable(N)
         /\ Len(Valid(Active)) = Len(Active)
         /\ \A j \in 1..Len(Active) : Valid(Active)[j] = Active[j]
<1>0. Active = files[N] /\ Active \in Seq(Frame) /\ Len(Active) \in Nat
  BY Basics
<1>1. InStep /\ Len(Active) >= 1
  BY DEF SInv, WriterInv
<1>2. /\ ValidLen(Active) \in 0..Len(Active)
      /\ \A j \in 1..Len(Active) : Whole(Active[j]) <=> j <= ValidLen(Active)
  BY <1>0, <1>1, ValidLenTail DEF InStep, AllWhole
<1>3. ValidLen(Active) = Len(Active)
  <2>1. Len(Active) \in 1..Len(Active)
    BY <1>0, <1>1
  <2>2. Len(Active) <= ValidLen(Active)
    BY <1>1, <1>2, <2>1 DEF InStep, AllWhole
  <2> QED BY <1>0, <1>2, <2>2
<1>4. Sealable(N) /\ mhead.active_seq = N
  BY <1>0, <1>1, <1>3 DEF Sealable, InStep
<1>5. /\ Len(Valid(Active)) = ValidLen(Active)
      /\ \A j \in 1..ValidLen(Active) : Valid(Active)[j] = Active[j]
  BY <1>0, <1>1, ValidFacts DEF InStep, AllWhole
<1> QED BY <1>3, <1>4, <1>5

LEMMA NoMismatch == SInv => ~SealMismatch
  BY SealableFacts DEF SealMismatch

LEMMA SaveManifestInv == SInv /\ SaveManifest => SInv'
<1> SUFFICES ASSUME SInv, SaveManifest PROVE SInv'
  OBVIOUS
<1> DEFINE m == Len(Active)
           e == SealedEntry(N)
<1>0. /\ N \in Nat /\ N \in Segs /\ Active = files[N] /\ Active \in Seq(Frame)
      /\ m \in Nat /\ synced[N] \in Nat /\ Base \in Int /\ Base >= -1
      /\ manifest \in [sealed : Seq(SealedType), attrs : Nat]
      /\ \A i \in 1..N : i - 1 \in Segs /\ i - 1 # N
  BY Basics
<1>1. InStep /\ m >= 1 /\ PendingSynced
  BY DEF SInv, WriterInv, SaveManifest
<1>2. /\ files' = files /\ acked' = acked /\ pending' = pending /\ mhead' = mhead
      /\ next_tx' = next_tx /\ wpc' = "manifested"
      /\ synced' = [synced EXCEPT ![N] = m]
      /\ manifest' = [manifest EXCEPT !.sealed = Append(@, e)]
      /\ N < MaxSegs
  BY <1>0, <1>1 DEF SaveManifest, Fsync, InStep, N
<1>3. \A j \in 1..m : Active[j] \in Frame /\ Whole(Active[j]) /\ Active[j].tx = Base + j
  BY <1>0, <1>1 DEF SInv, ActiveInv, InStep, AllWhole
<1>4. /\ e \in SealedType /\ e.seq = N /\ e.len = m /\ e.sha = Active
      /\ e.tx_min = Base + 1 /\ e.tx_max = Base + m
  <2>1. Active[1].tx = Base + 1 /\ Active[m].tx = Base + m
    BY <1>0, <1>1, <1>3
  <2>2. Len(Valid(Active)) = m /\ Valid(Active)[1] = Active[1] /\ Valid(Active)[m] = Active[m]
    <3>1. wpc = "sealing" /\ 1 \in 1..m /\ m \in 1..m
      BY <1>0, <1>1 DEF SaveManifest
    <3> QED BY <3>1, SealableFacts
  <2>3. e = [seq |-> N, len |-> m, sha |-> Active, tx_min |-> Base + 1, tx_max |-> Base + m]
    BY <1>0, <2>1, <2>2 DEF SealedEntry
  <2> QED BY <1>0, <1>1, <2>3 DEF SealedType
<1>5. /\ manifest' \in [sealed : Seq(SealedType), attrs : Nat]
      /\ manifest'.sealed = Append(manifest.sealed, e)
  <2>1. Append(manifest.sealed, e) \in Seq(SealedType)
    BY <1>0, <1>4, AppendProperties
  <2>2. manifest' = [manifest EXCEPT !.sealed = Append(manifest.sealed, e)]
    BY <1>2
  <2> HIDE DEF e
  <2> QED BY <1>0, <2>1, <2>2
<1>6. /\ N' = N + 1 /\ N' \in Segs
      /\ \A i \in 1..N : manifest'.sealed[i] = manifest.sealed[i]
      /\ manifest'.sealed[N + 1] = e
  <2>1. manifest.sealed \in Seq(SealedType)
    BY <1>0
  <2> QED BY <1>0, <1>2, <1>4, <1>5, <2>1, AppendProperties, ConstantsAssumption DEF N, Segs
<1>7. Base' = Base + m
  <2>1. manifest'.sealed # <<>>
    BY <1>0, <1>6, EmptySeq DEF N
  <2>2. Base' = manifest'.sealed[N'].tx_max
    BY <2>1 DEF Base, SealedTxMax, N
  <2> QED BY <1>4, <1>6, <2>2
<1>8. synced' \in [Segs -> Nat] /\ synced'[N] = m /\ \A n \in Segs : n # N => synced'[n] = synced[n]
  BY <1>0, <1>2 DEF SInv, CleanTypeOK, StoreTypeOK
<1>9. Active' = <<>> /\ Len(Active') = 0 /\ synced'[N'] = 0
  <2>1. files[N + 1] = <<>> /\ synced[N + 1] = 0
    BY <1>0, <1>6 DEF SInv, EmptyInv
  <2>2. Active' = files[N + 1]
    BY <1>2, <1>6 DEF Active, ActiveSeq, N
  <2> QED BY <1>0, <1>6, <1>8, <2>1, <2>2, EmptySeq
<1>10. CleanTypeOK'
  BY <1>5, <1>8 DEF SInv, SaveManifest, CleanTypeOK, StoreTypeOK, WriterStates
<1>11. SealedInv'
  <2> SUFFICES ASSUME NEW i \in 1..(N + 1)
      PROVE  LET d == manifest'.sealed[i]
             IN  /\ d.seq = i - 1 /\ d.sha = files[i - 1]
                 /\ d.len = Len(files[i - 1]) /\ d.len >= 1 /\ synced'[i - 1] = d.len
                 /\ d.tx_min = (IF i = 1 THEN 0 ELSE manifest'.sealed[i - 1].tx_max + 1)
                 /\ d.tx_max = d.tx_min + d.len - 1
                 /\ \A j \in 1..d.len : /\ Whole(files[i - 1][j])
                                        /\ files[i - 1][j].tx = d.tx_min + j - 1
    <3>1. files' = files /\ N' = N + 1
      BY <1>2, <1>6
    <3> QED BY <3>1 DEF SealedInv, SealedSeg
  <2>1. CASE i = N + 1
    <3>1. manifest'.sealed[i] = e /\ i - 1 = N
      BY <1>0, <1>6, <2>1
    <3>2. e.tx_min = (IF i = 1 THEN 0 ELSE manifest'.sealed[i - 1].tx_max + 1)
      <4>1. CASE N = 0
        BY <4>1, <1>0, <1>4, <2>1, EmptySeq DEF Base, SealedTxMax, N
      <4>2. CASE N # 0
        <5>1. Base = manifest.sealed[N].tx_max
          BY <4>2, EmptySeq DEF Base, SealedTxMax, N
        <5> QED BY <4>2, <5>1, <1>0, <1>4, <1>6, <2>1, <3>1
      <4> QED BY <4>1, <4>2
    <3>3. \A j \in 1..m : Whole(Active[j]) /\ Active[j].tx = e.tx_min + j - 1
      BY <1>0, <1>3, <1>4
    <3>4. e.tx_max = e.tx_min + e.len - 1
      <4>1. \A b \in Int, k \in Nat : b + k = (b + 1) + k - 1
        OBVIOUS
      <4> QED BY <1>0, <1>4, <4>1
    <3> QED BY <1>0, <1>1, <1>4, <1>8, <3>1, <3>2, <3>3, <3>4
  <2>2. CASE i # N + 1
    <3>1. i \in 1..N
      BY <1>0, <2>2
    <3>2. synced'[i - 1] = synced[i - 1]
      BY <1>0, <1>8, <3>1
    <3>3. manifest'.sealed[i] = manifest.sealed[i]
      BY <1>6, <3>1
    <3>4. i # 1 => manifest'.sealed[i - 1] = manifest.sealed[i - 1]
      BY <1>0, <1>6, <3>1
    <3>5. SealedSeg(i, manifest.sealed[i], IF i = 1 THEN 0 ELSE manifest.sealed[i - 1].tx_max + 1,
                    files[i - 1], synced[i - 1])
      BY <3>1 DEF SInv, SealedInv
    <3> QED BY <3>1, <3>2, <3>3, <3>4, <3>5 DEF SealedSeg
  <2> QED BY <2>1, <2>2
<1>12. EmptyInv'
  BY <1>0, <1>2, <1>6, <1>8 DEF SInv, EmptyInv, Segs
<1>13. ActiveInv'
  BY <1>6, <1>9 DEF ActiveInv
<1>14. WriterInv'
  <2>1. (N >= 1 /\ mhead.active_seq + 1 = N)'
    BY <1>0, <1>1, <1>2, <1>6 DEF InStep
  <2>2. (next_tx = Base + 1)'
    <3>1. next_tx = Base + 1 + m
      BY <1>1 DEF InStep
    <3>2. \A b \in Int, k \in Nat : b + 1 + k = (b + k) + 1
      OBVIOUS
    <3> QED BY <1>0, <1>2, <1>7, <3>1, <3>2
  <2>3. (\A f \in pending : \E j \in 1..Len(files[N - 1]) : files[N - 1][j] = f)'
    <3>1. N' - 1 = N
      BY <1>0, <1>6
    <3>2. \A f \in pending : \E j \in 1..m : Active[j] = f
      BY <1>0, <1>1 DEF PendingSynced
    <3> QED BY <1>0, <1>2, <3>1, <3>2
  <2> QED BY <1>2, <1>9, <2>1, <2>2, <2>3 DEF WriterInv
<1>15. AckedInv'
  <2> SUFFICES ASSUME NEW f \in acked
               PROVE  \E i \in 1..(N + 1) : \E j \in 1..Len(files[i - 1]) : files[i - 1][j] = f
    BY <1>2, <1>6 DEF AckedInv
  <2>1. CASE \E i \in 1..N : \E j \in 1..Len(files[i - 1]) : files[i - 1][j] = f
    BY <1>0, <2>1
  <2>2. CASE \E j \in 1..synced[N] : j <= Len(Active) /\ Whole(Active[j]) /\ Active[j] = f
    <3>1. PICK j \in 1..synced[N] : j <= m /\ Active[j] = f
      BY <2>2
    <3>2. j \in 1..Len(files[(N + 1) - 1]) /\ files[(N + 1) - 1][j] = f
      BY <1>0, <3>1
    <3>3. N + 1 \in 1..(N + 1)
      BY <1>0
    <3> QED BY <3>2, <3>3
  <2> QED BY <2>1, <2>2 DEF SInv, AckedInv
<1>16. (N <= MaxSegs)'
  BY <1>6, ConstantsAssumption DEF Segs
<1> QED BY <1>10, <1>11, <1>12, <1>13, <1>14, <1>15, <1>16 DEF SInv


LEMMA RollInv == SInv /\ Roll => SInv'
<1> SUFFICES ASSUME SInv, Roll PROVE SInv'
  OBVIOUS
<1>0. /\ N \in Nat /\ N \in Segs /\ Base \in Int /\ synced[N] \in Nat
  BY Basics
<1>1. /\ N >= 1 /\ mhead.active_seq + 1 = N /\ next_tx = Base + 1 /\ Active = <<>>
      /\ \A f \in pending : \E j \in 1..Len(files[N - 1]) : files[N - 1][j] = f
  BY DEF SInv, WriterInv, Roll
<1>2. /\ N' = N /\ Base' = Base /\ Active' = Active /\ AllWhole' = AllWhole
      /\ (N <= MaxSegs)' /\ SealedInv' /\ EmptyInv' /\ ActiveInv'
  BY SameFiles DEF Roll
<1>3. /\ mhead' = [active_seq |-> N, committed_len |-> 0] /\ head' = mhead'
      /\ pending' = {} /\ acked' = acked \cup pending /\ wpc' = "idle"
      /\ next_tx' = next_tx /\ files' = files /\ synced' = synced
  BY <1>1 DEF Roll, RolledHead
<1>4. CleanTypeOK'
  <2>1. mhead' \in HeadType
    BY <1>0, <1>3 DEF HeadType
  <2>2. acked' \in SUBSET Frame
    BY <1>3 DEF SInv, CleanTypeOK, StoreTypeOK
  <2> QED BY <1>3, <2>1, <2>2 DEF SInv, Roll, CleanTypeOK, StoreTypeOK, WriterStates
<1>5. WriterInv'
  <2>1. Len(Active) = 0 /\ AllWhole
    BY <1>1, EmptySeq DEF AllWhole
  <2>2. InStep'
    BY <1>0, <1>1, <1>2, <1>3, <2>1 DEF InStep
  <2> QED BY <1>3, <2>2 DEF WriterInv
<1>6. AckedInv'
  <2> SUFFICES ASSUME NEW f \in acked', f \notin acked
               PROVE  \E i \in 1..N : \E j \in 1..Len(files[i - 1]) : files[i - 1][j] = f
    BY <1>2, <1>3 DEF SInv, AckedInv
  <2>1. f \in pending
    BY <1>3
  <2>2. N \in 1..N
    BY <1>0, <1>1
  <2> QED BY <1>1, <2>1, <2>2
<1> QED BY <1>2, <1>4, <1>5, <1>6 DEF SInv

\* What a power failure leaves of a file.
LEMMA SurviveFacts ==
  ASSUME NEW s \in Seq(Frame), NEW n \in Nat, n <= Len(s), NEW more \in Nat, NEW torn \in 0..1
  PROVE  LET t == Survive(s, n, more, torn)
         IN  /\ t \in Seq(Frame)
             /\ n <= Len(t) /\ Len(t) <= Len(s)
             /\ \A j \in 1..Len(t) : t[j] = s[j] \/ (t[j] = Torn /\ j = Len(t) /\ j > n)
             /\ n = Len(s) => t = s
<1> DEFINE k == IF n + more < Len(s) THEN n + more ELSE Len(s)
           t == Survive(s, n, more, torn)
<1>0. Len(s) \in Nat
  OBVIOUS
<1>1. k \in 0..Len(s) /\ n <= k /\ (n = Len(s) => k = Len(s))
  BY <1>0
<1>2. t = IF torn = 1 /\ k < Len(s) THEN Append(SubSeq(s, 1, k), Torn) ELSE SubSeq(s, 1, k)
  BY DEF Survive
<1> HIDE DEF k, t
<1>3. /\ SubSeq(s, 1, k) \in Seq(Frame) /\ Len(SubSeq(s, 1, k)) = k
      /\ \A j \in 1..k : SubSeq(s, 1, k)[j] = s[j]
  BY <1>1, PrefixFacts
<1>4. /\ t \in Seq(Frame)
      /\ n <= Len(t) /\ Len(t) <= Len(s)
      /\ \A j \in 1..Len(t) : t[j] = s[j] \/ (t[j] = Torn /\ j = Len(t) /\ j > n)
      /\ n = Len(s) => t = s
  <2>1. CASE torn = 1 /\ k < Len(s)
    <3>1. t = Append(SubSeq(s, 1, k), Torn)
      BY <1>2, <2>1
    <3>2. /\ t \in Seq(Frame) /\ Len(t) = k + 1
          /\ \A j \in 1..k : t[j] = s[j]
          /\ t[k + 1] = Torn
      BY <3>1, <1>1, <1>3, TornType, AppendProperties
    <3>3. \A j \in 1..Len(t) : t[j] = s[j] \/ (t[j] = Torn /\ j = Len(t) /\ j > n)
      BY <3>2, <1>1
    <3> QED BY <1>0, <1>1, <2>1, <3>2, <3>3
  <2>2. CASE ~(torn = 1 /\ k < Len(s))
    <3>1. t = SubSeq(s, 1, k)
      BY <1>2, <2>2
    <3>2. n = Len(s) => t = s
      BY <1>0, <1>1, <1>3, <3>1, SeqEqual
    <3> QED BY <1>0, <1>1, <1>3, <3>1, <3>2
  <2> QED BY <2>1, <2>2
<1> QED BY <1>4 DEF t

LEMMA PowerLossInv == SInv /\ PowerLoss => SInv'
<1> SUFFICES ASSUME SInv, PowerLoss PROVE SInv'
  OBVIOUS
<1>0. /\ N \in Nat /\ N \in Segs /\ Active = files[N] /\ Active \in Seq(Frame)
      /\ Len(Active) \in Nat /\ synced[N] \in Nat /\ Base \in Int
      /\ \A i \in 1..N : i - 1 \in Segs /\ i - 1 # N
  BY Basics
<1>1. PICK more \in 0..MaxAppends, torn \in 0..1 :
        /\ files' = [n \in Segs |-> Survive(files[n], synced[n], more, torn)]
        /\ synced' = [n \in Segs |-> Len(Survive(files[n], synced[n], more, torn))]
  BY DEF PowerLoss
<1> DEFINE t(n) == Survive(files[n], synced[n], more, torn)
<1>2. files \in [Segs -> Seq(Frame)] /\ synced \in [Segs -> Nat] /\ more \in Nat
  BY ConstantsAssumption DEF SInv, CleanTypeOK, StoreTypeOK
<1>3. \A n \in Segs : n # N => synced[n] = Len(files[n])
  <2> SUFFICES ASSUME NEW n \in Segs, n # N PROVE synced[n] = Len(files[n])
    OBVIOUS
  <2>1. CASE n > N
    BY <2>1, EmptySeq DEF SInv, EmptyInv
  <2>2. CASE n < N
    <3>1. n + 1 \in 1..N /\ (n + 1) - 1 = n
      BY <1>0, <2>2, ConstantsAssumption DEF Segs
    <3> QED BY <3>1 DEF SInv, SealedInv, SealedSeg
  <2> QED BY <1>0, <2>1, <2>2, ConstantsAssumption DEF Segs
<1>4. \A n \in Segs : n # N => t(n) = files[n]
  BY <1>2, <1>3, SurviveFacts
<1>5. /\ t(N) \in Seq(Frame) /\ synced[N] <= Len(t(N)) /\ Len(t(N)) <= Len(Active)
      /\ \A j \in 1..Len(t(N)) : \/ t(N)[j] = Active[j]
                                 \/ t(N)[j] = Torn /\ j = Len(t(N)) /\ j > synced[N]
  BY <1>0, <1>2, SurviveFacts DEF SInv, ActiveInv
<1> HIDE DEF t
<1>6. /\ files'[N] = t(N) /\ synced'[N] = Len(t(N))
      /\ \A n \in Segs : n # N => files'[n] = files[n] /\ synced'[n] = synced[n]
  BY <1>0, <1>1, <1>3, <1>4 DEF t
<1>7. files' \in [Segs -> Seq(Frame)] /\ synced' \in [Segs -> Nat]
  <2>1. \A n \in Segs : t(n) \in Seq(Frame)
    BY <1>2, <1>4, <1>5
  <2> QED BY <1>1, <2>1 DEF t
<1>8. /\ N' = N /\ Base' = Base /\ Active' = t(N)
      /\ (N <= MaxSegs)' /\ SealedInv' /\ EmptyInv'
  BY <1>6, SameSealed DEF PowerLoss
<1>9. CleanTypeOK'
  BY <1>7 DEF SInv, PowerLoss, ForgetWriter, CleanTypeOK, StoreTypeOK, WriterStates, NoHead, HeadType
<1>10. ActiveInv'
  <2>1. ASSUME NEW j \in 1..Len(t(N))
        PROVE  /\ j < Len(t(N)) => Whole(t(N)[j])
               /\ Whole(t(N)[j]) => t(N)[j].tx = Base + j
    <3>1. CASE t(N)[j] = Torn /\ j = Len(t(N))
      BY <3>1, TornType, <1>5
    <3>2. CASE t(N)[j] = Active[j]
      <4>1. j \in 1..Len(Active)
        BY <1>0, <1>5
      <4>2. j < Len(t(N)) => j < Len(Active)
        BY <1>0, <1>5
      <4> QED BY <3>2, <4>1, <4>2 DEF SInv, ActiveInv
    <3> QED BY <1>5, <3>1, <3>2
  <2>2. (synced[N] <= Len(Active))'
    BY <1>5, <1>6, <1>8
  <2> QED BY <1>8, <2>1, <2>2 DEF ActiveInv
<1>11. WriterInv'
  BY DEF PowerLoss, ForgetWriter, WriterInv
<1>12. AckedInv'
  <2>1. ASSUME NEW j \in 1..synced[N], j <= Len(Active) /\ Whole(Active[j])
        PROVE  j <= synced'[N] /\ j <= Len(files'[N]) /\ files'[N][j] = Active[j]
    <3>1. j \in 1..Len(t(N)) /\ ~(j > synced[N])
      BY <1>0, <1>5
    <3> QED BY <1>0, <1>5, <1>6, <3>1
  <2>2. synced'[N] \in Nat
    BY <1>0, <1>7
  <2> QED BY <1>5, <1>6, <2>1, <2>2, AckedKept DEF PowerLoss
<1> QED BY <1>8, <1>9, <1>10, <1>11, <1>12 DEF SInv


-----------------------------------------------------------------------------
(* The readers *)

LEMMA LeastNat ==
  ASSUME NEW T, T \subseteq Nat, T # {}
  PROVE  \E x \in T : \A y \in T : x <= y
<1>1. PICK x \in T : \A y \in T : ~(<<y, x>> \in OpToRel(<, Nat))
  BY NatLessThanWellFounded, WFMin, Zenon
<1>2. ASSUME NEW y \in T, y < x PROVE FALSE
  <2>1. <<y, x>> \in Nat \X Nat /\ <<y, x>>[1] = y /\ <<y, x>>[2] = x
    OBVIOUS
  <2>2. <<y, x>> \in {ss \in Nat \X Nat : ss[1] < ss[2]}
    BY <1>2, <2>1
  <2>3. <<y, x>> \in OpToRel(<, Nat)
    BY <2>2, Zenon DEF OpToRel
  <2> QED BY <1>1, <2>3, Zenon
<1> QED BY <1>2

\* The walk ends somewhere in every byte string, whatever a reader found there.
LEMMA ValidType ==
  ASSUME NEW S, NEW s \in Seq(S)
  PROVE  /\ Valid(s) \in Seq(S) /\ Len(Valid(s)) \in Nat
         /\ ValidLen(s) \in 0..Len(s) /\ Len(Valid(s)) = ValidLen(s)
<1> DEFINE Bad == {i \in 1..Len(s) : ~Whole(s[i])}
           P(n) == (\A i \in 1..n : Whole(s[i])) /\ (n < Len(s) => ~Whole(s[n + 1]))
<1> HIDE DEF P
<1>0. Len(s) \in Nat
  OBVIOUS
<1>1. \E n \in 0..Len(s) : P(n)
  <2>1. CASE Bad = {}
    <3>1. P(Len(s))
      BY <1>0, <2>1 DEF P
    <3> QED BY <1>0, <3>1
  <2>2. CASE Bad # {}
    <3>1. PICK x \in Bad : \A y \in Bad : x <= y
      <4>1. Bad \subseteq Nat
        BY <1>0
      <4> HIDE DEF Bad
      <4> QED BY <2>2, <4>1, LeastNat
    <3>3. x - 1 \in 0..Len(s) /\ (x - 1) + 1 = x
      BY <1>0, <3>1
    <3>4. P(x - 1)
      BY <1>0, <3>1, <3>3 DEF P
    <3> QED BY <3>3, <3>4
  <2> QED BY <2>1, <2>2
<1>2. ValidLen(s) \in 0..Len(s)
  <2>1. ValidLen(s) = CHOOSE n \in 0..Len(s) : P(n)
    BY DEF ValidLen, P
  <2> QED BY <1>1, <2>1
<1> QED BY <1>0, <1>2, PrefixFacts DEF Valid

\* The tail a refresh reads, wherever its watermark is.
LEMMA TailType ==
  ASSUME NEW S, NEW s \in Seq(S), NEW n \in Nat
  PROVE  SubSeq(s, n + 1, Len(s)) \in Seq(S)
<1>0. Len(s) \in Nat
  OBVIOUS
<1>1. CASE n <= Len(s)
  BY <1>0, <1>1, SubSeqProperties
<1>2. CASE n > Len(s)
  <2>1. SubSeq(s, n + 1, Len(s)) = <<>>
    BY <1>0, <1>2
  <2> QED BY <2>1
<1> QED BY <1>0, <1>1, <1>2

\* What is left of a file behind bytes written over its beginning comes from that file.
LEMMA BehindType ==
  ASSUME NEW S, Torn \in S, NEW s \in Seq(S), NEW rest \in Behind(s)
  PROVE  rest \in Seq(S)
<1>1. CASE rest = <<>>
  BY <1>1
<1>2. CASE rest # <<>>
  <2>1. PICK n \in 1..Len(s), cut \in {<<>>, <<Torn>>} : rest = cut \o SubSeq(s, n + 1, Len(s))
    BY <1>2 DEF Behind
  <2>2. SubSeq(s, n + 1, Len(s)) \in Seq(S)
    BY TailType
  <2>3. <<>> \in Seq(S) /\ <<Torn>> \in Seq(S)
    OBVIOUS
  <2>4. cut \in Seq(S)
    BY <2>3
  <2> QED BY <2>4, <2>1, <2>2, <2>3, ConcatProperties
<1> QED BY <1>1, <1>2

\* What a power failure leaves of a file is made of what was in it, whatever was synced.
LEMMA SurviveType ==
  ASSUME NEW S, Torn \in S, NEW s \in Seq(S), NEW n \in Nat, NEW more \in Nat, NEW torn \in 0..1
  PROVE  Survive(s, n, more, torn) \in Seq(S)
<1> DEFINE k == IF n + more < Len(s) THEN n + more ELSE Len(s)
<1>0. k \in 0..Len(s)
  OBVIOUS
<1>1. Survive(s, n, more, torn)
        = IF torn = 1 /\ k < Len(s) THEN Append(SubSeq(s, 1, k), Torn) ELSE SubSeq(s, 1, k)
  BY DEF Survive
<1> HIDE DEF k
<1>2. SubSeq(s, 1, k) \in Seq(S)
  BY <1>0, PrefixFacts
<1>3. Append(SubSeq(s, 1, k), Torn) \in Seq(S)
  BY <1>2, AppendProperties
<1> QED BY <1>1, <1>2, <1>3

\* A reader's step reads; it changes nothing the store relies on.
LEMMA ReaderFrame == SInv /\ UNCHANGED NotReader => SInv'
<1> SUFFICES ASSUME SInv, UNCHANGED NotReader PROVE SInv'
  OBVIOUS
<1>0. UNCHANGED <<files, synced, manifest, head, wpc, mhead, next_tx, pending, attempts, acked,
                 crashes, rewritten>>
  BY DEF NotReader, disk, writer
<1>1. /\ N' = N /\ Base' = Base /\ Active' = Active /\ AllWhole' = AllWhole
      /\ (N <= MaxSegs)' /\ SealedInv' /\ EmptyInv' /\ ActiveInv'
  BY <1>0, SameFiles
<1>2. CleanTypeOK' /\ WriterInv' /\ AckedInv'
  BY <1>0, <1>1 DEF SInv, CleanTypeOK, StoreTypeOK, WriterInv, InStep, PendingSynced, AckedInv
<1> QED BY <1>1, <1>2 DEF SInv

\* What batches_after reads from sealed segments is exactly what their files hold.
LEMMA SealedFramesFacts ==
  ASSUME SInv, NEW n \in 0..N
  PROVE  /\ SealedFrames(n) \subseteq Frame
         /\ \A i \in 1..n : \A j \in 1..Len(files[i - 1]) : files[i - 1][j] \in SealedFrames(n)
         /\ \A x \in SealedFrames(n) : \E i \in 1..n : \E j \in 1..Len(files[i - 1]) :
              x = files[i - 1][j]
<1> DEFINE pre == SubSeq(manifest.sealed, 1, n)
<1>0. /\ N \in Nat /\ manifest \in [sealed : Seq(SealedType), attrs : Nat]
      /\ \A i \in 1..N : i - 1 \in Segs
      /\ files \in [Segs -> Seq(Frame)]
  BY Basics DEF SInv, CleanTypeOK, StoreTypeOK
<1>1. /\ pre \in Seq(SealedType) /\ Len(pre) = n
      /\ \A i \in 1..n : pre[i] = manifest.sealed[i]
  BY <1>0, PrefixFacts DEF N
<1> HIDE DEF pre
<1>2. \A i \in 1..n : i \in 1..N /\ files[i - 1] \in Seq(Frame)
  BY <1>0
<1>3. \A i \in 1..n : /\ pre[i].seq = i - 1 /\ pre[i].len = Len(files[i - 1])
  BY <1>1, <1>2 DEF SInv, SealedInv, SealedSeg
<1>4. \A i \in 1..n : SubSeq(files[pre[i].seq], 1, pre[i].len) = files[i - 1]
  <2> SUFFICES ASSUME NEW i \in 1..n PROVE SubSeq(files[i - 1], 1, Len(files[i - 1])) = files[i - 1]
    BY <1>3
  <2>1. files[i - 1] \in Seq(Frame)
    BY <1>2
  <2>2. Len(files[i - 1]) \in 0..Len(files[i - 1])
    BY <2>1
  <2> QED BY <2>1, <2>2, PrefixFacts, SeqEqual
<1>5. SealedFrames(n) = UNION {Elems(SubSeq(files[e.seq], 1, e.len)) : e \in Elems(pre)}
  BY DEF SealedFrames, pre
<1>6. ASSUME NEW x \in SealedFrames(n)
      PROVE  x \in Frame /\ \E i \in 1..n : \E j \in 1..Len(files[i - 1]) : x = files[i - 1][j]
  <2>1. PICK e \in Elems(pre) : x \in Elems(SubSeq(files[e.seq], 1, e.len))
    BY <1>5, <1>6
  <2>2. PICK i \in 1..n : e = pre[i]
    BY <1>1, <2>1 DEF Elems
  <2>3. x \in Elems(files[i - 1])
    BY <1>4, <2>1, <2>2
  <2>4. PICK j \in 1..Len(files[i - 1]) : x = files[i - 1][j]
    BY <2>3 DEF Elems
  <2>5. files[i - 1] \in Seq(Frame)
    BY <1>2
  <2> QED BY <2>4, <2>5
<1>7. ASSUME NEW i \in 1..n, NEW j \in 1..Len(files[i - 1]) PROVE files[i - 1][j] \in SealedFrames(n)
  <2>1. pre[i] \in Elems(pre)
    BY <1>1 DEF Elems
  <2>2. files[i - 1][j] \in Elems(files[i - 1])
    BY DEF Elems
  <2> QED BY <1>4, <1>5, <2>1, <2>2
<1> QED BY <1>6, <1>7

-----------------------------------------------------------------------------
(* What holds whatever a read-only open writes *)

\* The frames whose attributes the manifest can name.
Known == {f \in Frame : f.attr <= manifest.attrs}

\* Which segment the writer has open.
HandleSeq ==
  /\ wpc \in {"opening", "idle", "interned", "writing", "written", "synced", "sealing"} =>
       mhead.active_seq = N
  /\ wpc = "manifested" => mhead.active_seq + 1 = N

SealedSeqs == \A i \in 1..N : manifest.sealed[i].seq = i - 1

StoreFormed ==
  /\ StoreTypeOK
  /\ N <= MaxSegs /\ HandleSeq /\ SealedSeqs
  /\ files \in [Segs -> Seq(Known)]

ReadersFormed ==
  /\ ReaderTypeOK /\ ReaderSeq
  /\ \A r \in Readers : rd[r].tail \in Seq(Known)

\* The types, the numbering of the segments, and that the manifest can name every attribute which
\* is in a file or on its way into a reader: a rewrite moves frames, and makes none.
Formed == StoreFormed /\ ReadersFormed

LEMMA FormedBasics ==
  ASSUME StoreFormed
  PROVE  /\ N \in Nat /\ N \in Segs /\ ActiveSeq(manifest) = N
         /\ manifest \in [sealed : Seq(SealedType), attrs : Nat]
         /\ \A i \in 1..N : i - 1 \in Segs
         /\ Known \subseteq Frame /\ Torn \in Known
         /\ files \in [Segs -> Seq(Known)] /\ files \in [Segs -> Seq(Frame)]
<1>1. manifest \in [sealed : Seq(SealedType), attrs : Nat] /\ files \in [Segs -> Seq(Frame)]
  BY DEF StoreFormed, StoreTypeOK
<1>2. N \in Nat /\ N \in Segs /\ ActiveSeq(manifest) = N
  BY <1>1, ConstantsAssumption DEF StoreFormed, N, Segs, ActiveSeq
<1>3. \A i \in 1..N : i - 1 \in Segs
  BY <1>2, ConstantsAssumption DEF Segs
<1>4. Known \subseteq Frame /\ Torn \in Known
  BY <1>1, TornType DEF Known, Torn
<1> QED BY <1>1, <1>2, <1>3, <1>4 DEF StoreFormed

\* Steps that leave the files and the sealed list alone.
LEMMA SameFormed ==
  ASSUME StoreFormed, files' = files, manifest' = manifest, StoreTypeOK', HandleSeq'
  PROVE  StoreFormed' /\ N' = N /\ Known' = Known
<1>1. N' = N /\ Known' = Known
  BY DEF N, Known
<1> QED BY <1>1 DEF StoreFormed, SealedSeqs

LEMMA QuietFormed ==
  ASSUME StoreFormed,
         \/ OpenHead \/ OpenRefused \/ SyncActive \/ PublishHead \/ SealActive \/ SealMismatch
         \/ Roll \/ Crash
  PROVE  StoreFormed' /\ N' = N /\ Known' = Known
<1>0. /\ files \in [Segs -> Seq(Frame)] /\ N \in Nat /\ mhead \in HeadType /\ NoHead \in HeadType
      /\ synced \in [Segs -> Nat]
  BY FormedBasics DEF StoreFormed, StoreTypeOK, HeadType, NoHead
<1>1. files' = files /\ manifest' = manifest
  BY DEF OpenHead, OpenRefused, SyncActive, PublishHead, SealActive, SealMismatch, Roll, Crash, disk
<1>2. StoreTypeOK' /\ HandleSeq'
  <2>1. CASE OpenHead
    BY <2>1 DEF OpenHead, StoreFormed, StoreTypeOK, HandleSeq, N, WriterStates
  <2>2. CASE OpenRefused
    BY <2>2 DEF OpenRefused, disk, StoreFormed, StoreTypeOK, HandleSeq, N, WriterStates
  <2>3. CASE PublishHead
    BY <2>3 DEF PublishHead, StoreFormed, StoreTypeOK, HandleSeq, N, WriterStates
  <2>4. CASE SealActive
    BY <2>4 DEF SealActive, disk, StoreFormed, StoreTypeOK, HandleSeq, N, WriterStates
  <2>5. CASE Crash
    BY <1>0, <2>5 DEF Crash, ForgetWriter, disk, StoreFormed, StoreTypeOK, HandleSeq, N, WriterStates
  <2>6. CASE SyncActive \/ SealMismatch
    <3>1. synced' \in [Segs -> Nat]
      <4>1. mhead.active_seq = N /\ N \in Segs
        BY <2>6, FormedBasics DEF SyncActive, SealMismatch, StoreFormed, HandleSeq
      <4>2. Len(files[N]) \in Nat
        BY <1>0, <4>1
      <4> QED BY <1>0, <2>6, <4>1, <4>2 DEF SyncActive, SealMismatch, Fsync
    <3>2. mhead' \in HeadType /\ mhead'.active_seq = mhead.active_seq
      BY <1>0, <2>6 DEF SyncActive, SealMismatch, HeadType
    <3> QED BY <1>0, <2>6, <3>1, <3>2
            DEF SyncActive, SealMismatch, StoreFormed, StoreTypeOK, HandleSeq, N, WriterStates
  <2>7. CASE Roll
    <3>1. mhead' \in HeadType /\ mhead'.active_seq = N
      BY <1>0, <2>7 DEF Roll, RolledHead, StoreFormed, HandleSeq, HeadType
    <3>2. head' = mhead'
      BY <2>7 DEF Roll
    <3> QED BY <1>0, <2>7, <3>1, <3>2
            DEF Roll, StoreFormed, StoreTypeOK, HandleSeq, N, WriterStates
  <2> QED BY <2>1, <2>2, <2>3, <2>4, <2>5, <2>6, <2>7
<1> QED BY <1>1, <1>2, SameFormed

\* A new attribute path makes more frames known.
LEMMA PersistManifestFormed ==
  ASSUME StoreFormed, PersistManifest
  PROVE  StoreFormed' /\ N' = N /\ Known \subseteq Known'
<1>1. /\ manifest' \in [sealed : Seq(SealedType), attrs : Nat]
      /\ manifest'.sealed = manifest.sealed /\ manifest'.attrs = manifest.attrs + 1
      /\ manifest.attrs \in Nat
  BY FormedBasics DEF PersistManifest
<1>2. N' = N
  BY <1>1 DEF N
<1>3. Known \subseteq Known'
  <2> SUFFICES ASSUME NEW f \in Frame, f.attr <= manifest.attrs PROVE f.attr <= manifest'.attrs
    BY DEF Known
  <2>1. f.attr \in Nat
    BY DEF Frame
  <2> QED BY <1>1, <2>1
<1>4. files' \in [Segs -> Seq(Known')]
  <2>1. \A n \in Segs : files[n] \in Seq(Known')
    BY <1>3, FormedBasics
  <2> QED BY <2>1, FormedBasics DEF PersistManifest
<1>5. StoreTypeOK'
  BY <1>1 DEF PersistManifest, StoreFormed, StoreTypeOK, WriterStates
<1>6. HandleSeq' /\ SealedSeqs' /\ (N <= MaxSegs)'
  BY <1>1, <1>2 DEF PersistManifest, StoreFormed, HandleSeq, SealedSeqs
<1> QED BY <1>2, <1>3, <1>4, <1>5, <1>6 DEF StoreFormed

\* Steps that write one segment.
LEMMA WriteFormed ==
  ASSUME StoreFormed, manifest' = manifest, NEW s \in Seq(Known),
         files' = [files EXCEPT ![N] = s]
  PROVE  /\ files' \in [Segs -> Seq(Known')] /\ files' \in [Segs -> Seq(Frame)]
         /\ N' = N /\ Known' = Known
<1>1. N' = N /\ Known' = Known
  BY DEF N, Known
<1>2. s \in Seq(Frame)
  BY FormedBasics
<1> QED BY <1>1, <1>2, FormedBasics

LEMMA WriteStartFormed ==
  ASSUME StoreFormed, WriteStart
  PROVE  StoreFormed' /\ N' = N /\ Known' = Known
<1>1. mhead.active_seq = N /\ manifest' = manifest
  BY DEF WriteStart, StoreFormed, HandleSeq
<1>2. Append(files[N], Torn) \in Seq(Known) /\ files' = [files EXCEPT ![N] = Append(files[N], Torn)]
  BY <1>1, FormedBasics, AppendProperties DEF WriteStart
<1>3. /\ files' \in [Segs -> Seq(Known')] /\ files' \in [Segs -> Seq(Frame)]
      /\ N' = N /\ Known' = Known
  BY <1>1, <1>2, WriteFormed
<1>4. StoreTypeOK'
  BY <1>3 DEF WriteStart, StoreFormed, StoreTypeOK, WriterStates
<1> QED BY <1>1, <1>3, <1>4 DEF WriteStart, StoreFormed, HandleSeq, SealedSeqs

LEMMA WriteEndFormed ==
  ASSUME StoreFormed, WriteEnd
  PROVE  StoreFormed' /\ N' = N /\ Known' = Known
<1>1. mhead.active_seq = N /\ manifest' = manifest /\ files[N] \in Seq(Known)
  BY FormedBasics DEF WriteEnd, StoreFormed, HandleSeq
<1>2. NewFrame \in Known
  BY DEF NewFrame, Known, Frame, StoreFormed, StoreTypeOK
<1>3. \E s \in Seq(Known) : files' = [files EXCEPT ![N] = s]
  <2>1. CASE files' = [files EXCEPT ![N] = Append(files[N], Torn)]
    BY <1>1, <2>1, FormedBasics, AppendProperties
  <2>2. CASE /\ files[N] # <<>>
             /\ files' = [files EXCEPT ![N] = [files[N] EXCEPT ![Len(files[N])] = NewFrame]]
    <3>1. Len(files[N]) \in 1..Len(files[N])
      BY <1>1, <2>2, EmptySeq
    <3>2. [files[N] EXCEPT ![Len(files[N])] = NewFrame] \in Seq(Known)
      BY <1>1, <1>2, <3>1, ExceptSeq
    <3> QED BY <2>2, <3>2
  <2> QED BY <1>1, <2>1, <2>2 DEF WriteEnd
<1>4. /\ files' \in [Segs -> Seq(Known')] /\ files' \in [Segs -> Seq(Frame)]
      /\ N' = N /\ Known' = Known
  BY <1>1, <1>3, WriteFormed
<1>5. StoreTypeOK'
  BY <1>2, <1>4, FormedBasics DEF WriteEnd, StoreFormed, StoreTypeOK, WriterStates
<1> QED BY <1>1, <1>4, <1>5 DEF WriteEnd, StoreFormed, HandleSeq, SealedSeqs

LEMMA OpenScanFormed ==
  ASSUME StoreFormed, OpenScan
  PROVE  StoreFormed' /\ N' = N /\ Known' = Known
<1> DEFINE s == Valid(files[N])
<1>1. ActiveSeq(manifest) = N /\ N \in Nat /\ N \in Segs /\ manifest' = manifest
  BY FormedBasics DEF OpenScan
<1>2. s \in Seq(Known) /\ s \in Seq(Frame) /\ Len(s) \in Nat
  BY <1>1, ValidType, FormedBasics
<1>3. files' = [files EXCEPT ![N] = s]
  BY <1>1 DEF OpenScan, Recovered
<1>4. NextTx(manifest, s) \in Nat
  <2>1. LastTx(s) \in Nat \/ LastTx(s) = -1
    <3>1. CASE s = <<>>
      BY <3>1 DEF LastTx
    <3>2. CASE s # <<>>
      <4>1. Len(s) \in 1..Len(s)
        BY <1>2, <3>2, EmptySeq
      <4>2. s[Len(s)] \in Frame
        BY <1>2, <4>1
      <4> QED BY <3>2, <4>2 DEF LastTx, Frame
    <3> QED BY <3>1, <3>2
  <2>2. SealedTxMax(manifest) \in Nat \/ SealedTxMax(manifest) = -1
    <3>1. CASE manifest.sealed = <<>>
      BY <3>1 DEF SealedTxMax
    <3>2. CASE manifest.sealed # <<>>
      <4>1. manifest.sealed[Len(manifest.sealed)] \in SealedType
        BY <3>2, FormedBasics
      <4> QED BY <3>2, <4>1 DEF SealedTxMax, SealedType
    <3> QED BY <3>1, <3>2
  <2> QED BY <2>1, <2>2 DEF NextTx
<1>5. synced' \in [Segs -> Nat] /\ mhead' \in HeadType /\ mhead'.active_seq = N /\ next_tx' \in Nat
  <2>1. synced \in [Segs -> Nat]
    BY DEF StoreFormed, StoreTypeOK
  <2>2. /\ synced' = (IF Len(s) < Len(files[N]) THEN [synced EXCEPT ![N] = Len(s)] ELSE synced)
        /\ mhead' = [active_seq |-> N, committed_len |-> Len(s)]
        /\ next_tx' = NextTx(manifest, s)
    BY <1>1 DEF OpenScan, Recovered
  <2> HIDE DEF s
  <2> QED BY <1>1, <1>2, <1>4, <2>1, <2>2 DEF HeadType
<1> HIDE DEF s
<1>6. /\ files' \in [Segs -> Seq(Known')] /\ files' \in [Segs -> Seq(Frame)]
      /\ N' = N /\ Known' = Known
  BY <1>1, <1>2, <1>3, WriteFormed
<1>7. StoreTypeOK'
  BY <1>5, <1>6 DEF OpenScan, StoreFormed, StoreTypeOK, WriterStates
<1> QED BY <1>1, <1>5, <1>6, <1>7 DEF OpenScan, StoreFormed, HandleSeq, SealedSeqs

LEMMA SaveManifestFormed ==
  ASSUME StoreFormed, SaveManifest
  PROVE  StoreFormed' /\ N' = N + 1 /\ Known' = Known
<1> DEFINE e == SealedEntry(N)
<1>0. /\ mhead.active_seq = N /\ N \in Nat /\ N < MaxSegs /\ N \in Segs
      /\ manifest \in [sealed : Seq(SealedType), attrs : Nat]
  BY FormedBasics DEF SaveManifest, StoreFormed, HandleSeq, N
<1>1. files[N] \in Seq(Frame) /\ Len(files[N]) \in Nat
  BY <1>0, FormedBasics
<1>2. e \in SealedType /\ e.seq = N
  <2> DEFINE b == Valid(files[N])
  <2>1. b \in Seq(Frame) /\ Len(b) = ValidLen(files[N]) /\ ValidLen(files[N]) \in Nat
    BY <1>1, ValidType
  <2>2. Len(b) # 0
    BY <1>0, <2>1 DEF SaveManifest, Sealable
  <2>3. e = [seq |-> N, len |-> Len(files[N]), sha |-> files[N],
             tx_min |-> b[1].tx, tx_max |-> b[Len(b)].tx]
    BY DEF SealedEntry
  <2> HIDE DEF b, e
  <2>4. b[1] \in Frame /\ b[Len(b)] \in Frame
    BY <2>1, <2>2
  <2> QED BY <1>0, <1>1, <2>3, <2>4 DEF SealedType, Frame
<1>3. manifest' = [manifest EXCEPT !.sealed = Append(@, e)]
  BY <1>0 DEF SaveManifest
<1>4. synced' \in [Segs -> Nat]
  BY <1>0, <1>1 DEF SaveManifest, Fsync, StoreFormed, StoreTypeOK
<1> HIDE DEF e
<1>5. /\ manifest' \in [sealed : Seq(SealedType), attrs : Nat]
      /\ manifest'.sealed = Append(manifest.sealed, e) /\ manifest'.attrs = manifest.attrs
  BY <1>0, <1>2, <1>3, AppendProperties
<1>6. /\ N' = N + 1 /\ Known' = Known
      /\ \A i \in 1..N : manifest'.sealed[i] = manifest.sealed[i]
      /\ manifest'.sealed[N + 1] = e
  BY <1>0, <1>2, <1>5, AppendProperties DEF N, Known
<1>7. SealedSeqs'
  <2> SUFFICES ASSUME NEW i \in 1..(N + 1) PROVE manifest'.sealed[i].seq = i - 1
    BY <1>6 DEF SealedSeqs
  <2>1. CASE i = N + 1
    BY <1>0, <1>2, <1>6, <2>1
  <2>2. CASE i # N + 1
    <3>1. i \in 1..N
      BY <1>0, <2>2
    <3> QED BY <1>6, <3>1 DEF StoreFormed, SealedSeqs
  <2> QED BY <2>1, <2>2
<1>8. StoreTypeOK'
  BY <1>4, <1>5 DEF SaveManifest, StoreFormed, StoreTypeOK, WriterStates
<1>9. (N <= MaxSegs)' /\ HandleSeq' /\ files' \in [Segs -> Seq(Known')]
  BY <1>0, <1>6, FormedBasics, ConstantsAssumption DEF SaveManifest, HandleSeq
<1> QED BY <1>6, <1>7, <1>8, <1>9 DEF StoreFormed

LEMMA PowerLossFormed ==
  ASSUME StoreFormed, PowerLoss
  PROVE  StoreFormed' /\ N' = N /\ Known' = Known
<1>1. PICK more \in 0..MaxAppends, torn \in 0..1 :
        /\ files' = [n \in Segs |-> Survive(files[n], synced[n], more, torn)]
        /\ synced' = [n \in Segs |-> Len(Survive(files[n], synced[n], more, torn))]
  BY DEF PowerLoss
<1>2. \A n \in Segs : files[n] \in Seq(Known) /\ synced[n] \in Nat
  BY FormedBasics DEF StoreFormed, StoreTypeOK
<1>3. \A n \in Segs : Survive(files[n], synced[n], more, torn) \in Seq(Known)
  <2>1. more \in Nat /\ Torn \in Known
    BY ConstantsAssumption, FormedBasics
  <2> QED BY <1>2, <2>1, SurviveType
<1>4. manifest' = manifest /\ N' = N /\ Known' = Known
  BY DEF PowerLoss, N, Known
<1>5. files' \in [Segs -> Seq(Known)] /\ files' \in [Segs -> Seq(Frame)] /\ synced' \in [Segs -> Nat]
  <2>1. \A n \in Segs : /\ Survive(files[n], synced[n], more, torn) \in Seq(Frame)
                        /\ Len(Survive(files[n], synced[n], more, torn)) \in Nat
    BY <1>3, FormedBasics
  <2> QED BY <1>1, <1>3, <2>1
<1>6. StoreTypeOK'
  <2>1. head' \in HeadType \cup {EmptyHead} /\ NoHead \in HeadType
    BY DEF PowerLoss, StoreFormed, StoreTypeOK, NoHead, HeadType
  <2> QED BY <1>4, <1>5, <2>1 DEF PowerLoss, ForgetWriter, StoreFormed, StoreTypeOK, WriterStates
<1> QED BY <1>4, <1>5, <1>6 DEF PowerLoss, ForgetWriter, StoreFormed, HandleSeq, SealedSeqs

LEMMA ReadersKept ==
  ASSUME ReadersFormed, N \in Nat, N' \in Nat, N <= N', Known \subseteq Known', rd' = rd
  PROVE  ReadersFormed'
<1>1. \A r \in Readers : rd[r].mseq \in Nat
  BY ConstantsAssumption DEF ReadersFormed, ReaderTypeOK, ReaderType, Segs
<1>2. ReaderTypeOK' /\ \A r \in Readers : rd[r].tail \in Seq(Known')
  BY DEF ReadersFormed, ReaderTypeOK
<1> QED BY <1>1, <1>2 DEF ReadersFormed, ReaderSeq

\* A reader that has moved to rec.
GoodRecord(rec) == rec \in ReaderType /\ rec.mseq <= N /\ rec.tail \in Seq(Known)

LEMMA SetFormed ==
  ASSUME ReadersFormed, N' = N, Known' = Known,
         NEW r \in Readers, NEW rec, GoodRecord(rec), Set(r, rec)
  PROVE  ReadersFormed'
<1>1. /\ rd \in [Readers -> ReaderType] /\ rd' = [rd EXCEPT ![r] = rec] /\ rec \in ReaderType
  BY DEF ReadersFormed, ReaderTypeOK, Set, GoodRecord
<1>2. ReaderTypeOK'
  BY <1>1 DEF ReaderTypeOK
<1>3. \A q \in Readers : rd'[q].mseq <= N /\ rd'[q].tail \in Seq(Known)
  BY <1>1 DEF ReadersFormed, ReaderSeq, GoodRecord
<1> QED BY <1>2, <1>3 DEF ReadersFormed, ReaderSeq

LEMMA DoneGood ==
  ASSUME StoreFormed, NEW rec \in ReaderType, NEW pc \in ReaderStates
  PROVE  GoodRecord(Done(rec, pc))
<1>1. <<>> \in Seq(Frame) /\ <<>> \in Seq(Known) /\ 0 \in Segs /\ 0 <= N
  BY ConstantsAssumption, FormedBasics DEF Segs
<1>2. /\ Done(rec, pc) \in ReaderType /\ Done(rec, pc).mseq = 0 /\ Done(rec, pc).tail = <<>>
  BY <1>1 DEF Done, ReaderType
<1> QED BY <1>1, <1>2 DEF GoodRecord

LEMMA PlacedGood ==
  ASSUME NEW rec, GoodRecord(rec)
  PROVE  GoodRecord(Placed(rec))
<1>1. <<>> \in Seq(Frame) /\ <<>> \in Seq(Known) /\ NoHead \in HeadType
  BY DEF NoHead, HeadType
<1>2. /\ Placed(rec) \in ReaderType /\ Placed(rec).mseq = rec.mseq /\ Placed(rec).tail = <<>>
  BY <1>1 DEF Placed, ReaderType, ReaderStates, GoodRecord
<1> QED BY <1>1, <1>2 DEF GoodRecord

\* A sealed segment that a reader has decoded holds frames.
LEMMA SealedFramesType ==
  ASSUME StoreFormed, NEW n \in 0..N, SealedReadable(n)
  PROVE  SealedFrames(n) \subseteq Frame
<1> DEFINE pre == SubSeq(manifest.sealed, 1, n)
<1>1. /\ pre \in Seq(SealedType) /\ Len(pre) = n
      /\ \A i \in 1..n : pre[i] = manifest.sealed[i]
  BY FormedBasics, PrefixFacts DEF N
<1>2. \A i \in 1..n : pre[i].seq \in Segs /\ pre[i].len \in Nat
  <2> SUFFICES ASSUME NEW i \in 1..n PROVE pre[i].seq \in Segs /\ pre[i].len \in Nat
    OBVIOUS
  <2>1. i \in 1..N
    BY FormedBasics
  <2>2. pre[i].seq = i - 1 /\ i - 1 \in Segs
    BY <1>1, <2>1, FormedBasics DEF StoreFormed, SealedSeqs
  <2>3. pre[i] \in SealedType
    BY <1>1
  <2> QED BY <2>2, <2>3 DEF SealedType
<1>3. /\ SealedFrames(n) = UNION {Elems(SubSeq(files[e.seq], 1, e.len)) : e \in Elems(pre)}
      /\ \A e \in Elems(pre) : e.len <= ValidLen(files[e.seq])
  BY DEF SealedFrames, SealedReadable
<1> HIDE DEF pre
<1>4. ASSUME NEW e \in Elems(pre) PROVE Elems(SubSeq(files[e.seq], 1, e.len)) \subseteq Frame
  <2>1. PICK i \in 1..n : e = pre[i]
    BY <1>1 DEF Elems
  <2>2. files[e.seq] \in Seq(Frame) /\ e.len \in Nat
    BY <1>2, <2>1, FormedBasics
  <2>3. ValidLen(files[e.seq]) \in 0..Len(files[e.seq]) /\ e.len <= ValidLen(files[e.seq])
    BY <1>3, <2>2, ValidType
  <2>4. e.len \in 0..Len(files[e.seq])
    BY <2>2, <2>3
  <2>5. SubSeq(files[e.seq], 1, e.len) \in Seq(Frame)
    BY <2>2, <2>4, PrefixFacts
  <2> QED BY <2>5 DEF Elems
<1> QED BY <1>3, <1>4

\* The steps of a reader that only read.
LEMMA ReadFormed ==
  ASSUME Formed, NEW r \in Readers,
         \/ ReaderLoadManifest(r) \/ ReaderStat(r) \/ ReaderGet(r)
         \/ ReaderCheckHead(r) \/ ReaderScanActive(r)
         \/ RefreshHead(r) \/ RefreshStat(r) \/ RefreshTail(r)
         \/ RefreshAdvance(r) \/ RefreshReopen(r) \/ ReaderGetHead(r)
  PROVE  \E rec : GoodRecord(rec) /\ Set(r, rec)
<1>0. /\ rd[r] \in ReaderType /\ GoodRecord(rd[r]) /\ StoreFormed
      /\ files \in [Segs -> Seq(Frame)] /\ files \in [Segs -> Seq(Known)]
      /\ acked \in SUBSET Frame
      /\ manifest.attrs \in Nat /\ ActiveSeq(manifest) = N /\ N \in Segs /\ N \in Nat
      /\ head \in HeadType \cup {EmptyHead}
  <2>1. StoreFormed /\ ReadersFormed
    BY DEF Formed
  <2> QED BY <2>1, FormedBasics
          DEF ReadersFormed, ReaderTypeOK, ReaderSeq, StoreFormed, StoreTypeOK, GoodRecord
<1>01. rd[r].mseq <= N /\ rd[r].tail \in Seq(Known) /\ rd[r].mseq \in Segs /\ rd[r].mseq \in Nat
  BY <1>0, ConstantsAssumption DEF GoodRecord, ReaderType, Segs
<1>1. CASE ReaderLoadManifest(r)
  <2> DEFINE rec == [rd[r] EXCEPT !.pc = "o_manifest", !.mseq = ActiveSeq(manifest),
                                  !.mattrs = manifest.attrs,
                                  !.start = IF rd[r].pc = "reopen" THEN @ ELSE acked]
  <2>1. rec \in ReaderType /\ rec.mseq = N /\ rec.tail = rd[r].tail
    BY <1>0 DEF ReaderType, ReaderStates
  <2>2. Set(r, rec)
    BY <1>1 DEF ReaderLoadManifest
  <2> HIDE DEF rec
  <2> QED BY <1>0, <1>01, <2>1, <2>2 DEF GoodRecord
<1>2. CASE ReaderStat(r)
  <2>1. GoodRecord([rd[r] EXCEPT !.pc = "o_stat"])
    BY <1>0 DEF GoodRecord, ReaderType, ReaderStates
  <2> QED BY <1>0, <1>2, <2>1, PlacedGood DEF ReaderStat
<1>3. CASE ReaderGet(r)
  <2> DEFINE bytes == files[rd[r].mseq]
             rec == [rd[r] EXCEPT !.pc = "o_get", !.tail = bytes]
  <2>1. bytes \in Seq(Known) /\ bytes \in Seq(Frame)
    BY <1>0, <1>01
  <2>2. Set(r, IF bytes = <<>> THEN Placed(rd[r]) ELSE rec)
    BY <1>3 DEF ReaderGet
  <2> HIDE DEF bytes
  <2>3. GoodRecord(rec)
    BY <1>0, <2>1 DEF GoodRecord, ReaderType, ReaderStates
  <2> QED BY <1>0, <2>2, <2>3, PlacedGood
<1>4. CASE ReaderCheckHead(r)
  <2>1. GoodRecord([rd[r] EXCEPT !.pc = "o_head"])
    BY <1>0 DEF GoodRecord, ReaderType, ReaderStates
  <2>2. GoodRecord(Done(rd[r], "failed"))
    BY <1>0, DoneGood DEF ReaderStates
  <2> QED BY <1>4, <2>1, <2>2 DEF ReaderCheckHead
<1>5. CASE ReaderScanActive(r)
  <2> DEFINE active == Valid(files[rd[r].mseq])
             seen   == SealedFrames(rd[r].mseq) \cup Elems(active)
             rec    == [rd[r] EXCEPT !.live = TRUE, !.seq = rd[r].mseq, !.attrs = rd[r].mattrs,
                                     !.len = Len(active), !.view = seen]
  <2>1. CASE SealedReadable(rd[r].mseq) /\ Set(r, Done(rec, "open"))
    <3>1. active \in Seq(Frame) /\ Len(active) \in Nat
      BY <1>0, <1>01, ValidType
    <3>2. SealedFrames(rd[r].mseq) \subseteq Frame
      <4>1. rd[r].mseq \in 0..N
        BY <1>0, <1>01
      <4> QED BY <1>0, <2>1, <4>1, SealedFramesType
    <3>3. seen \in SUBSET Frame
      BY <3>1, <3>2 DEF Elems
    <3>4. rec \in ReaderType
      <4> HIDE DEF seen, active
      <4> QED BY <1>0, <3>1, <3>3 DEF ReaderType
    <3>5. GoodRecord(Done(rec, "open"))
      <4> HIDE DEF rec
      <4> QED BY <1>0, <3>4, DoneGood DEF ReaderStates
    <3> QED BY <2>1, <3>5
  <2>2. CASE Set(r, Done(rd[r], "failed"))
    BY <1>0, <2>2, DoneGood DEF ReaderStates
  <2> QED BY <1>5, <2>1, <2>2 DEF ReaderScanActive
<1>6. CASE RefreshHead(r)
  <2> DEFINE rec == [rd[r] EXCEPT !.start = acked,
                                  !.pc = IF HeadMoved(r) THEN "reopen" ELSE "r_head"]
  <2>1. rec \in ReaderType /\ rec.mseq = rd[r].mseq /\ rec.tail = rd[r].tail
    BY <1>0 DEF ReaderType, ReaderStates
  <2> QED BY <1>01, <1>6, <2>1 DEF RefreshHead, GoodRecord
<1>7. CASE RefreshStat(r)
  <2> DEFINE len == Len(files[rd[r].seq])
             rec == [rd[r] EXCEPT !.pc = IF len < rd[r].len THEN "reopen"
                                         ELSE IF len = rd[r].len THEN "open" ELSE "r_stat"]
  <2>1. rec \in ReaderType /\ rec.mseq = rd[r].mseq /\ rec.tail = rd[r].tail
    BY <1>0 DEF ReaderType, ReaderStates
  <2> QED BY <1>01, <1>7, <2>1 DEF RefreshStat, GoodRecord
<1>8. CASE RefreshReopen(r)
  <2>1. GoodRecord(Done(rd[r], "reopen"))
    BY <1>0, DoneGood DEF ReaderStates
  <2> QED BY <1>8, <2>1 DEF RefreshReopen
<1>9. CASE RefreshTail(r)
  <2> DEFINE tail == SubSeq(files[rd[r].seq], rd[r].len + 1, Len(files[rd[r].seq]))
             rec == [rd[r] EXCEPT !.pc = "r_tail", !.tail = tail]
  <2>1. tail \in Seq(Frame) /\ tail \in Seq(Known)
    <3>1. files[rd[r].seq] \in Seq(Frame) /\ files[rd[r].seq] \in Seq(Known) /\ rd[r].len \in Nat
      BY <1>0 DEF ReaderType
    <3> QED BY <3>1, TailType
  <2>2. Set(r, rec)
    BY <1>9 DEF RefreshTail
  <2> HIDE DEF tail
  <2>3. GoodRecord(rec)
    BY <1>0, <1>01, <2>1 DEF ReaderType, ReaderStates, GoodRecord
  <2> QED BY <2>2, <2>3
<1>10. CASE RefreshAdvance(r)
  <2> DEFINE new == Valid(rd[r].tail)
             len == rd[r].len + Len(new)
             view == rd[r].view \cup Elems(new)
             rec == [rd[r] EXCEPT !.attrs = FreshAttrs(r), !.len = len, !.view = view]
  <2>1. new \in Seq(Frame) /\ Len(new) \in Nat
    BY <1>0, ValidType DEF ReaderType
  <2>2. view \in SUBSET Frame /\ len \in Nat /\ FreshAttrs(r) \in Nat
    BY <1>0, <2>1 DEF Elems, FreshAttrs, ReaderType
  <2>3. Set(r, Done(rec, "open"))
    BY <1>10 DEF RefreshAdvance
  <2>4. rec \in ReaderType
    <3> HIDE DEF view, len
    <3> QED BY <1>0, <2>2 DEF ReaderType
  <2>5. GoodRecord(Done(rec, "open"))
    <3> HIDE DEF rec
    <3> QED BY <1>0, <2>4, DoneGood DEF ReaderStates
  <2> QED BY <2>3, <2>5
<1>11. CASE ReaderGetHead(r)
  <2> DEFINE rec == [rd[r] EXCEPT !.pc = "o_gethead", !.pulled = head]
  <2>1. rec \in ReaderType /\ rec.mseq = rd[r].mseq /\ rec.tail = rd[r].tail
    BY <1>0 DEF ReaderType, ReaderStates
  <2> QED BY <1>01, <1>11, <2>1 DEF ReaderGetHead, GoodRecord
<1> QED BY <1>1, <1>2, <1>3, <1>4, <1>5, <1>6, <1>7, <1>8, <1>9, <1>10, <1>11

\* The steps of a reader that write: the file they write gets frames that were in it, or Torn.
LEMMA RewriteFormed ==
  ASSUME Formed, NEW r \in Readers,
         ReaderTruncate(r) \/ ReaderWrite(r) \/ ReaderTruncateHead(r) \/ ReaderWriteHead(r)
  PROVE  Formed'
<1>0. /\ rd[r] \in ReaderType /\ GoodRecord(rd[r]) /\ StoreFormed /\ ReadersFormed
      /\ files \in [Segs -> Seq(Known)] /\ synced \in [Segs -> Nat]
      /\ Torn \in Known /\ Known \subseteq Frame /\ crashes \in Nat
      /\ head \in HeadType \cup {EmptyHead}
  <2>1. StoreFormed /\ ReadersFormed
    BY DEF Formed
  <2> QED BY <2>1, FormedBasics
          DEF ReadersFormed, ReaderTypeOK, ReaderSeq, StoreFormed, StoreTypeOK, GoodRecord
<1>1. manifest' = manifest /\ wpc' = wpc /\ mhead' = mhead /\ N' = N /\ Known' = Known
  BY DEF ReaderTruncate, ReaderWrite, ReaderTruncateHead, ReaderWriteHead, writer, N, Known
<1>2. files' \in [Segs -> Seq(Known)] /\ synced' \in [Segs -> Nat]
  <2>1. CASE ReaderTruncate(r)
    <3>1. /\ files' = [files EXCEPT ![rd[r].mseq] = <<>>]
          /\ synced' = [synced EXCEPT ![rd[r].mseq] = 0]
      BY <2>1 DEF ReaderTruncate
    <3>2. <<>> \in Seq(Known) /\ 0 \in Nat
      OBVIOUS
    <3> QED BY <1>0, <3>1, <3>2
  <2>2. CASE ReaderWrite(r)
    <3> DEFINE a == rd[r].mseq
    <3>1. PICK rest \in Behind(files[a]) : files' = [files EXCEPT ![a] = rd[r].tail \o rest]
      BY <2>2 DEF ReaderWrite
    <3>2. files[a] \in Seq(Known) /\ a \in Segs /\ rd[r].tail \in Seq(Known)
      BY <1>0 DEF ReaderType, GoodRecord
    <3>3. rest \in Seq(Known)
      BY <1>0, <3>2, BehindType
    <3>4. rd[r].tail \o rest \in Seq(Known)
      BY <3>2, <3>3, ConcatProperties
    <3>5. synced' = [synced EXCEPT ![a] = 0]
      BY <2>2 DEF ReaderWrite
    <3> QED BY <1>0, <3>1, <3>2, <3>4, <3>5
  <2>3. CASE ReaderTruncateHead(r) \/ ReaderWriteHead(r)
    BY <1>0, <2>3 DEF ReaderTruncateHead, ReaderWriteHead
  <2> QED BY <2>1, <2>2, <2>3
<1>3. files' \in [Segs -> Seq(Frame)]
  BY <1>0, <1>2
<1>4. head' \in HeadType \cup {EmptyHead} /\ crashes' \in Nat /\ rewritten' \in BOOLEAN
  <2>1. rd[r].pulled \in HeadType \cup {EmptyHead}
    BY <1>0 DEF ReaderType
  <2>2. head' \in {head, EmptyHead, rd[r].pulled}
    BY DEF ReaderTruncate, ReaderWrite, ReaderTruncateHead, ReaderWriteHead
  <2>3. crashes' \in {crashes, crashes + 1} /\ (rewritten' = rewritten \/ rewritten' = TRUE)
    BY DEF ReaderTruncate, ReaderWrite, ReaderTruncateHead, ReaderWriteHead
  <2>4. head' \in HeadType \cup {EmptyHead} /\ crashes' \in Nat
    BY <1>0, <2>1, <2>2, <2>3
  <2>5. rewritten' \in BOOLEAN
    BY <1>0, <2>3 DEF StoreFormed, StoreTypeOK
  <2> QED BY <2>4, <2>5
<1>5. StoreTypeOK'
  <2>1. UNCHANGED <<manifest, wpc, mhead, next_tx, pending, attempts, acked>>
    BY DEF ReaderTruncate, ReaderWrite, ReaderTruncateHead, ReaderWriteHead, writer
  <2> QED BY <1>0, <1>2, <1>3, <1>4, <2>1 DEF StoreFormed, StoreTypeOK
<1>6. StoreFormed'
  BY <1>0, <1>1, <1>2, <1>5 DEF StoreFormed, HandleSeq, SealedSeqs
<1>7. \E rec : GoodRecord(rec) /\ Set(r, rec)
  <2>1. CASE ReaderTruncate(r)
    <3>1. GoodRecord([rd[r] EXCEPT !.pc = "o_write"])
      BY <1>0 DEF GoodRecord, ReaderType, ReaderStates
    <3> QED BY <2>1, <3>1 DEF ReaderTruncate
  <2>2. CASE ReaderWrite(r)
    <3>1. <<>> \in Seq(Known) /\ <<>> \in Seq(Frame)
      OBVIOUS
    <3>2. GoodRecord([rd[r] EXCEPT !.pc = "o_written", !.tail = <<>>])
      BY <1>0, <3>1 DEF GoodRecord, ReaderType, ReaderStates
    <3> QED BY <2>2, <3>2 DEF ReaderWrite
  <2>3. CASE ReaderTruncateHead(r)
    <3>1. GoodRecord([rd[r] EXCEPT !.pc = "o_writehead"])
      BY <1>0 DEF GoodRecord, ReaderType, ReaderStates
    <3> QED BY <2>3, <3>1 DEF ReaderTruncateHead
  <2>4. CASE ReaderWriteHead(r)
    BY <1>0, <2>4, PlacedGood DEF ReaderWriteHead
  <2> QED BY <2>1, <2>2, <2>3, <2>4
<1>8. ReadersFormed'
  BY <1>0, <1>1, <1>7, SetFormed
<1> QED BY <1>6, <1>8 DEF Formed

LEMMA NoReaderGood == NoReader \in ReaderType /\ NoReader.mseq = 0 /\ NoReader.tail = <<>>
<1>1. <<>> \in Seq(Frame) /\ 0 \in Segs /\ NoHead \in HeadType
  BY ConstantsAssumption DEF Segs, NoHead, HeadType
<1> QED BY <1>1 DEF NoReader, ReaderType, ReaderStates

LEMMA InitFormed == Init => Formed
<1> SUFFICES ASSUME Init PROVE Formed
  OBVIOUS
<1>1. rd = [r \in Readers |-> NoReader] /\ N = 0 /\ manifest = [sealed |-> <<>>, attrs |-> 0]
  BY DEF Init, N
<1>2. StoreTypeOK
  BY InitSInv DEF SInv, CleanTypeOK
<1>3. StoreFormed
  BY <1>1, <1>2, ConstantsAssumption DEF Init, StoreFormed, HandleSeq, SealedSeqs
<1>4. ReadersFormed
  <2>1. /\ rd \in [Readers -> ReaderType]
        /\ \A r \in Readers : rd[r].mseq = 0 /\ rd[r].tail = <<>>
    BY <1>1, NoReaderGood
  <2>2. <<>> \in Seq(Known)
    OBVIOUS
  <2>3. \A r \in Readers : rd[r].tail \in Seq(Known)
    BY <2>1, <2>2, Zenon
  <2>4. \A r \in Readers : rd[r].mseq <= N
    BY <1>1, <2>1
  <2> QED BY <2>1, <2>3, <2>4 DEF ReadersFormed, ReaderTypeOK, ReaderSeq
<1> QED BY <1>3, <1>4 DEF Formed

LEMMA NextFormed == Formed /\ [Next]_vars => Formed'
<1> SUFFICES ASSUME Formed, [Next]_vars PROVE Formed'
  OBVIOUS
<1>0. StoreFormed /\ ReadersFormed /\ N \in Nat
  BY FormedBasics DEF Formed
<1>1. CASE WriterNext \/ Crash
  <2>1. StoreFormed' /\ N' \in Nat /\ N <= N' /\ Known \subseteq Known'
    BY <1>0, <1>1, QuietFormed, PersistManifestFormed, WriteStartFormed, WriteEndFormed,
       OpenScanFormed, SaveManifestFormed DEF WriterNext
  <2>2. rd' = rd
    BY <1>1 DEF WriterNext, Crash, OpenScan, OpenHead, OpenRefused, PersistManifest, WriteStart,
       WriteEnd, SyncActive, PublishHead, SealActive, SaveManifest, SealMismatch, Roll
  <2> QED BY <1>0, <2>1, <2>2, ReadersKept DEF Formed
<1>2. CASE PowerLoss
  <2>1. StoreFormed' /\ N' = N
    BY <1>0, <1>2, PowerLossFormed
  <2>2. rd' = [r \in Readers |-> NoReader]
    BY <1>2 DEF PowerLoss
  <2>3. ReadersFormed'
    <3>1. /\ rd' \in [Readers -> ReaderType]
          /\ \A r \in Readers : rd'[r].mseq = 0 /\ rd'[r].tail = <<>>
      BY <2>2, NoReaderGood
    <3>2. <<>> \in Seq(Known')
      OBVIOUS
    <3>3. \A r \in Readers : rd'[r].tail \in Seq(Known')
      BY <3>1, <3>2, Zenon
    <3>4. \A r \in Readers : rd'[r].mseq <= N'
      BY <1>0, <2>1, <3>1
    <3> QED BY <3>1, <3>3, <3>4 DEF ReadersFormed, ReaderTypeOK, ReaderSeq
  <2> QED BY <2>1, <2>3 DEF Formed
<1>3. ASSUME NEW r \in Readers, UNCHANGED NotReader, \E rec : GoodRecord(rec) /\ Set(r, rec)
      PROVE  Formed'
  <2>1. StoreFormed' /\ N' = N /\ Known' = Known
    BY <1>0, <1>3
    DEF NotReader, disk, writer, StoreFormed, StoreTypeOK, HandleSeq, SealedSeqs, N, Known
  <2>2. ReadersFormed'
    BY <1>0, <1>3, <2>1, SetFormed
  <2> QED BY <2>1, <2>2 DEF Formed
<1>4. CASE ReaderNext
  <2>1. PICK r \in Readers :
          \/ ReaderLoadManifest(r) \/ ReaderStat(r) \/ ReaderGet(r)
          \/ ReaderCheckHead(r) \/ ReaderScanActive(r)
          \/ RefreshHead(r) \/ RefreshStat(r) \/ RefreshTail(r)
          \/ RefreshAdvance(r) \/ RefreshReopen(r)
    BY <1>4 DEF ReaderNext
  <2>2. UNCHANGED NotReader
    BY <2>1 DEF ReaderLoadManifest, ReaderStat, ReaderGet, ReaderCheckHead, ReaderScanActive,
       RefreshHead, RefreshStat, RefreshTail, RefreshAdvance, RefreshReopen
  <2>3. \E rec : GoodRecord(rec) /\ Set(r, rec)
    BY <2>1, ReadFormed
  <2> QED BY <1>3, <2>2, <2>3
<1>5. CASE ReaderRewrites
  <2>1. PICK r \in Readers : \/ ReaderTruncate(r) \/ ReaderWrite(r)
                             \/ ReaderGetHead(r) \/ ReaderTruncateHead(r) \/ ReaderWriteHead(r)
    BY <1>5 DEF ReaderRewrites
  <2>2. CASE ReaderGetHead(r)
    <3>1. UNCHANGED NotReader
      BY <2>2 DEF ReaderGetHead
    <3>2. \E rec : GoodRecord(rec) /\ Set(r, rec)
      BY <2>2, ReadFormed
    <3> QED BY <1>3, <3>1, <3>2
  <2> QED BY <2>1, <2>2, RewriteFormed
<1>6. CASE UNCHANGED vars
  BY <1>6 DEF vars, Formed, StoreFormed, StoreTypeOK, HandleSeq, SealedSeqs, N, Known,
     ReadersFormed, ReaderTypeOK, ReaderSeq
<1> QED BY <1>1, <1>2, <1>4, <1>5, <1>6 DEF Next

\* The part of the invariant that no rewrite disturbs.
THEOREM FormInvariance == Spec => []Formed
  BY InitFormed, NextFormed, PTL DEF Spec

\* Every variable stays well formed, over every number of appends, seals, crashes,
\* concurrent refreshes and rewrites by a read-only open.
THEOREM TypeCorrect == Spec => []TypeOK
<1>1. Formed => TypeOK
  BY DEF Formed, StoreFormed, ReadersFormed, TypeOK
<1> QED BY <1>1, FormInvariance, PTL

-----------------------------------------------------------------------------
(* The inductive invariant *)

LEMMA InitIInv == Init => IInv
<1> SUFFICES ASSUME Init PROVE IInv
  OBVIOUS
<1>1. SInv /\ ReaderTypeOK /\ ReaderSeq
  BY InitSInv, InitFormed DEF Formed, ReadersFormed
<1>2. ReadersRead
  BY DEF Init, ReadersRead, NoReader
<1> QED BY <1>1, <1>2 DEF IInv

\* The store, step by step, as long as no reader writes.
LEMMA StoreStep ==
  IInv /\ (WriterNext \/ Crash \/ PowerLoss \/ ReaderNext \/ UNCHANGED vars) => SInv'
<1> SUFFICES ASSUME IInv, WriterNext \/ Crash \/ PowerLoss \/ ReaderNext \/ UNCHANGED vars
             PROVE  SInv'
  OBVIOUS
<1>0. SInv
  BY DEF IInv
<1>1. CASE WriterNext \/ Crash \/ PowerLoss
  BY <1>0, <1>1, OpenScanInv, OpenHeadInv, OpenRefusedInv, PersistManifestInv, WriteStartInv,
     WriteEndInv, SyncActiveInv, PublishHeadInv, SealActiveInv, SaveManifestInv, NoMismatch,
     RollInv, CrashInv, PowerLossInv DEF WriterNext
<1>2. CASE ReaderNext
  <2>1. UNCHANGED NotReader
    BY <1>2 DEF ReaderNext, ReaderLoadManifest, ReaderStat, ReaderGet, ReaderCheckHead,
       ReaderScanActive, RefreshHead, RefreshStat, RefreshTail, RefreshAdvance, RefreshReopen
  <2> QED BY <1>0, <2>1, ReaderFrame
<1>3. CASE UNCHANGED vars
  <2>1. UNCHANGED NotReader
    BY <1>3 DEF vars, NotReader, disk, writer
  <2> QED BY <1>0, <2>1, ReaderFrame
<1> QED BY <1>1, <1>2, <1>3

\* A step that only reads does not begin a rewrite.
LEMMA ReadsOnly ==
  ASSUME IInv, WriterNext \/ Crash \/ PowerLoss \/ ReaderNext \/ UNCHANGED vars
  PROVE  ReadersRead'
<1>0. ReadersRead /\ rd \in [Readers -> ReaderType]
  BY DEF IInv, ReaderTypeOK
<1>1. CASE WriterNext \/ Crash \/ UNCHANGED vars
  <2>1. rd' = rd
    BY <1>1 DEF WriterNext, Crash, OpenScan, OpenHead, OpenRefused, PersistManifest, WriteStart,
       WriteEnd, SyncActive, PublishHead, SealActive, SaveManifest, SealMismatch, Roll, vars
  <2> QED BY <1>0, <2>1 DEF ReadersRead
<1>2. CASE PowerLoss
  BY <1>2 DEF PowerLoss, ReadersRead, NoReader
<1>3. CASE ReaderNext
  <2>1. PICK r \in Readers :
          \/ ReaderLoadManifest(r) \/ ReaderStat(r) \/ ReaderGet(r)
          \/ ReaderCheckHead(r) \/ ReaderScanActive(r)
          \/ RefreshHead(r) \/ RefreshStat(r) \/ RefreshTail(r)
          \/ RefreshAdvance(r) \/ RefreshReopen(r)
    BY <1>3 DEF ReaderNext
  <2>2. rd[r] \in ReaderType
    BY <1>0
  <2>3. \E rec : /\ rec.pc \notin {"o_write", "o_written", "o_gethead", "o_writehead"}
                 /\ Set(r, rec)
    <3>1. CASE ReaderLoadManifest(r) \/ ReaderStat(r) \/ ReaderGet(r) \/ ReaderCheckHead(r)
      BY <2>2, <3>1 DEF ReaderLoadManifest, ReaderStat, ReaderGet, ReaderCheckHead, ReaderType,
         Placed, Done
    <3>2. CASE ReaderScanActive(r) \/ RefreshAdvance(r) \/ RefreshReopen(r)
      BY <2>2, <3>2 DEF ReaderScanActive, RefreshAdvance, RefreshReopen, ReaderType, Done
    <3>3. CASE RefreshHead(r) \/ RefreshStat(r) \/ RefreshTail(r)
      BY <2>2, <3>3 DEF RefreshHead, RefreshStat, RefreshTail, ReaderType
    <3> QED BY <2>1, <3>1, <3>2, <3>3
  <2> QED BY <1>0, <2>3 DEF ReadersRead, Set
<1> QED BY <1>1, <1>2, <1>3

\* Under the invariant the only step of a rewrite is its first one.
LEMMA FirstRewrite == IInv /\ ~rewritten' => ~ReaderRewrites
  BY DEF IInv, ReadersRead, ReaderRewrites, ReaderTruncate, ReaderWrite, ReaderGetHead,
     ReaderTruncateHead, ReaderWriteHead

LEMMA IInvStep == IInv /\ Formed' /\ ~rewritten' /\ [Next]_vars => IInv'
<1> SUFFICES ASSUME IInv, Formed', ~rewritten', [Next]_vars PROVE IInv'
  OBVIOUS
<1>1. WriterNext \/ Crash \/ PowerLoss \/ ReaderNext \/ UNCHANGED vars
  BY FirstRewrite DEF Next
<1>2. ReaderTypeOK' /\ ReaderSeq'
  BY DEF Formed, ReadersFormed
<1> QED BY <1>1, <1>2, StoreStep, ReadsOnly DEF IInv

\* Once a segment has been rewritten, that stays so.
LEMMA StaysRewritten == Formed /\ rewritten /\ [Next]_vars => rewritten'
<1> SUFFICES ASSUME rewritten, [Next]_vars PROVE rewritten'
  OBVIOUS
<1>1. CASE WriterNext \/ Crash \/ PowerLoss \/ UNCHANGED vars
  BY <1>1 DEF WriterNext, Crash, PowerLoss, OpenScan, OpenHead, OpenRefused, PersistManifest,
     WriteStart, WriteEnd, SyncActive, PublishHead, SealActive, SaveManifest, SealMismatch, Roll, vars
<1>2. CASE ReaderNext
  BY <1>2 DEF ReaderNext, ReaderLoadManifest, ReaderStat, ReaderGet, ReaderCheckHead,
     ReaderScanActive, RefreshHead, RefreshStat, RefreshTail, RefreshAdvance, RefreshReopen, NotReader
<1>3. CASE ReaderRewrites
  BY <1>3 DEF ReaderRewrites, ReaderTruncate, ReaderWrite, ReaderGetHead, ReaderTruncateHead,
     ReaderWriteHead, NotReader
<1> QED BY <1>1, <1>2, <1>3 DEF Next

Unspoilt == ~rewritten => IInv

\* The inductive invariant of the store: it holds initially, and every step of the writer, of
\* a reader, of a crash and of a power failure preserves it, until the step with which a read-only
\* open truncates the segment whose first append it has met.
THEOREM Invariance == Spec => [](~rewritten => IInv)
<1>1. Init => Unspoilt
  BY InitIInv DEF Unspoilt
<1>2. Unspoilt /\ Formed /\ Formed' /\ [Next]_vars => Unspoilt'
  BY IInvStep, StaysRewritten DEF Unspoilt
<1>3. Spec => []Unspoilt
  BY <1>1, <1>2, FormInvariance, PTL DEF Spec
<1>4. Unspoilt <=> (~rewritten => IInv)
  BY DEF Unspoilt
<1> QED BY <1>3, <1>4, PTL

-----------------------------------------------------------------------------
(* What the store promises *)

\* Segments that seal_active has published are never written again, but by the open that sets
\* rewritten: until then each file still is what the manifest recorded of it.
THEOREM SealedImmutability == Spec => []SealedImmutable
<1>1. ASSUME IInv PROVE SealedImmutable
  <2> SUFFICES ASSUME NEW e \in Elems(manifest.sealed)
               PROVE  files[e.seq] = e.sha /\ Len(e.sha) = e.len
    BY DEF SealedImmutable
  <2>1. PICK i \in 1..N : e = manifest.sealed[i]
    BY DEF Elems, N
  <2> QED BY <1>1, <2>1 DEF IInv, SInv, SealedInv, SealedSeg
<1>2. rewritten => SealedImmutable
  BY DEF SealedImmutable
<1> QED BY <1>1, <1>2, Invariance, PTL

\* tx is dense over sealed segments and the active one, and append continues it, whatever
\* a crash or a power failure cut off before the last recovery, as long as no read-only open has
\* rewritten a segment.
THEOREM TxDensity == Spec => []TxDense
<1>1. ASSUME IInv PROVE TxDense
  <2>0. SInv
    BY <1>1 DEF IInv
  <2>1. /\ N \in Nat /\ Active \in Seq(Frame)
        /\ \A j \in 1..Len(Active) : j < Len(Active) => Whole(Active[j])
    BY <2>0, Basics DEF SInv, ActiveInv
  <2>2. ASSUME NEW i \in 1..Len(manifest.sealed)
        PROVE  LET e == manifest.sealed[i]
               IN  /\ e.tx_min = (IF i = 1 THEN 0 ELSE manifest.sealed[i - 1].tx_max + 1)
                   /\ e.tx_max = e.tx_min + e.len - 1
                   /\ \A j \in 1..e.len : files[e.seq][j].tx = e.tx_min + j - 1
    BY <2>0, <2>2 DEF SInv, SealedInv, SealedSeg, N
  <2>3. ASSUME NEW j \in 1..ValidLen(Active)
        PROVE  Active[j].tx = SealedTxMax(manifest) + j
    <3>1. j \in 1..Len(Active) /\ Whole(Active[j])
      BY <2>1, ValidLenTail
    <3> QED BY <2>0, <3>1 DEF SInv, ActiveInv, Base
  <2>4. ASSUME wpc = "idle" PROVE next_tx = NextTx(manifest, Valid(Active))
    <3>1. InStep
      BY <2>0, <2>4 DEF SInv, WriterInv
    <3>2. /\ Valid(Active) \in Seq(Frame) /\ Len(Valid(Active)) = ValidLen(Active)
          /\ \A j \in 1..ValidLen(Active) : Valid(Active)[j] = Active[j]
          /\ ValidLen(Active) \in 0..Len(Active)
      BY <2>1, ValidFacts
    <3>3. ValidLen(Active) = Len(Active) /\ next_tx = Base + 1 + Len(Active)
      <4>1. \A j \in 1..Len(Active) : Whole(Active[j]) <=> j <= ValidLen(Active)
        BY <2>1, ValidLenTail
      <4>2. Len(Active) \in Nat
        BY <2>1
      <4> QED BY <3>1, <3>2, <4>1, <4>2 DEF InStep, AllWhole
    <3>4. Len(Active) # 0 => Active[Len(Active)].tx = Base + Len(Active)
      BY <2>0, <2>1, <3>1 DEF SInv, ActiveInv, InStep, AllWhole
    <3>5. NextTx(manifest, Valid(Active)) = Base + 1 + Len(Valid(Active))
      BY <2>0, <2>1, <3>2, <3>3, <3>4, NextTxFacts
    <3> QED BY <3>2, <3>3, <3>5
  <2> QED BY <2>2, <2>3, <2>4 DEF TxDense
<1>2. rewritten => TxDense
  BY DEF TxDense
<1> QED BY <1>1, <1>2, Invariance, PTL

\* A batch whose append returned Ok survives every crash and power failure that follows,
\* in append, in seal_active and in recovery, as long as no read-only open has rewritten a segment.
THEOREM AckedDurability == Spec => []AckedDurable
<1>1. ASSUME IInv PROVE AckedDurable
  <2>0. SInv
    BY <1>1 DEF IInv
  <2>1. /\ N \in Nat /\ Active \in Seq(Frame)
        /\ \A j \in 1..Len(Active) : j < Len(Active) => Whole(Active[j])
    BY <2>0, Basics DEF SInv, ActiveInv
  <2> SUFFICES ASSUME NEW f \in acked
               PROVE  \/ f \in SealedFrames(Len(manifest.sealed))
                      \/ \E j \in 1..synced[ActiveSeq(manifest)] :
                             j <= ValidLen(Active) /\ Active[j] = f
    BY DEF AckedDurable
  <2>2. CASE \E i \in 1..N : \E j \in 1..Len(files[i - 1]) : files[i - 1][j] = f
    <3>1. N \in 0..N
      BY <2>1
    <3>2. f \in SealedFrames(N)
      BY <2>0, <2>2, <3>1, SealedFramesFacts
    <3> QED BY <3>2 DEF N
  <2>3. CASE \E j \in 1..synced[N] : j <= Len(Active) /\ Whole(Active[j]) /\ Active[j] = f
    <3>1. PICK j \in 1..synced[N] : j <= Len(Active) /\ Whole(Active[j]) /\ Active[j] = f
      BY <2>3
    <3>2. j \in 1..Len(Active)
      BY <2>1, <3>1
    <3>3. j <= ValidLen(Active)
      BY <2>1, <3>1, <3>2, ValidLenTail
    <3> QED BY <3>1, <3>3 DEF N, ActiveSeq
  <2> QED BY <2>0, <2>2, <2>3 DEF SInv, AckedInv
<1>2. rewritten => AckedDurable
  BY DEF AckedDurable
<1> QED BY <1>1, <1>2, Invariance, PTL

-----------------------------------------------------------------------------
(* What readers have read *)

\* The whole frame f is in segment n.
In(f, n) == Whole(f) /\ \E j \in 1..Len(files[n]) : files[n][j] = f

\* All frames of the segments before n, and the first k of segment n.
Prefix(n, k) == (UNION {Elems(files[i]) : i \in 0..n - 1}) \cup {files[n][j] : j \in 1..k}

\* HEAD lags behind the manifest only between the two writes of a seal, and then nothing is in
\* the active segment.
HeadInv ==
  /\ head.active_seq = N \/ head.active_seq + 1 = N
  /\ head.active_seq # N => wpc \in {"manifested", "closed", "refused"} /\ Active = <<>>

\* The manifest knows the attributes of every frame.
AttrInv == \A n \in Segs : \A j \in 1..Len(files[n]) : files[n][j].attr <= manifest.attrs

\* A handle x has decoded a prefix of the log.
ViewOk(x) ==
  /\ x.pc \in {"open", "r_head", "r_stat", "r_tail"} => x.live
  /\ x.live => /\ x.seq <= N /\ x.len <= Len(files[x.seq])
               /\ \A j \in 1..x.len : Whole(files[x.seq][j])
               /\ x.view = Prefix(x.seq, x.len)

\* The tail a refresh has read is what follows in the segment, up to a torn frame.
TailOk(x) ==
  x.pc = "r_tail" => \A i \in 1..Len(x.tail) :
    /\ x.tail[i].attr <= manifest.attrs
    /\ i < Len(x.tail) => Whole(x.tail[i])
    /\ Whole(x.tail[i]) =>
         x.len + i <= Len(files[x.seq]) /\ files[x.seq][x.len + i] = x.tail[i]

\* Where an open is that has read the manifest.
Opening == {"o_manifest", "o_stat", "o_get", "o_local", "o_head"}

\* Where the operation under way finds what was acknowledged before it.
StartOk(x) ==
  /\ x.start \subseteq acked
  /\ x.pc \in Opening => \A f \in x.start : \E i \in 0..x.mseq : In(f, i)
  /\ x.pc \in {"r_head", "r_stat"} => \A f \in x.start : f \in x.view \/ In(f, x.seq)
  /\ x.pc = "r_tail" => \A f \in x.start :
       f \in x.view \/ (Whole(f) /\ \E i \in 1..Len(x.tail) : x.tail[i] = f)
  /\ x.pc = "open" => x.start \subseteq x.view

HandleInv == \A r \in Readers : ViewOk(rd[r]) /\ TailOk(rd[r]) /\ StartOk(rd[r])

\* The inductive invariant of the readers, beside IInv.
RInv == HeadInv /\ AttrInv /\ HandleInv

\* Every segment is whole but for the last frame of the active one.
LEMMA SegFacts ==
  ASSUME SInv, NEW n \in Segs
  PROVE  /\ n \in Nat /\ files[n] \in Seq(Frame) /\ Len(files[n]) \in Nat
         /\ \A j \in 1..Len(files[n]) : /\ files[n][j] \in Frame
                                        /\ j < Len(files[n]) => Whole(files[n][j])
                                        /\ n < N => Whole(files[n][j])
         /\ n > N => Len(files[n]) = 0
<1>0. /\ N \in Nat /\ Active = files[N]
      /\ n \in Nat /\ files[n] \in Seq(Frame)
  <2>1. N \in Nat /\ Active = files[N]
    BY Basics
  <2>2. n \in Nat
    BY ConstantsAssumption DEF Segs
  <2>3. files[n] \in Seq(Frame)
    BY DEF SInv, CleanTypeOK, StoreTypeOK
  <2> QED BY <2>1, <2>2, <2>3
<1>1. Len(files[n]) \in Nat /\ \A j \in 1..Len(files[n]) : files[n][j] \in Frame
  BY <1>0
<1>2. CASE n < N
  <2>1. n + 1 \in 1..N /\ (n + 1) - 1 = n
    BY <1>0, <1>2
  <2>2. SealedSeg(n + 1, manifest.sealed[n + 1],
                  IF n + 1 = 1 THEN 0 ELSE manifest.sealed[n + 1 - 1].tx_max + 1,
                  files[n], synced[n])
    BY <2>1 DEF SInv, SealedInv
  <2>3. \A j \in 1..Len(files[n]) : Whole(files[n][j])
    BY <2>2 DEF SealedSeg
  <2> QED BY <1>0, <1>1, <1>2, <2>3
<1>3. CASE n = N
  BY <1>0, <1>1, <1>3 DEF SInv, ActiveInv
<1>4. CASE n > N
  <2>1. files[n] = <<>>
    BY <1>4 DEF SInv, EmptyInv
  <2>2. Len(files[n]) = 0
    BY <2>1, EmptySeq
  <2> QED BY <1>0, <1>1, <1>4, <2>2
<1> QED BY <1>0, <1>2, <1>3, <1>4

\* What no step of the writer and no crash takes from a reader.
Grown ==
  /\ N <= N' /\ manifest.attrs <= manifest'.attrs /\ acked \subseteq acked' /\ rd' = rd
  /\ \A n \in Segs : n < N => files'[n] = files[n]
  /\ \A n \in Segs : \A j \in 1..Len(files[n]) :
       Whole(files[n][j]) => j <= Len(files'[n]) /\ files'[n][j] = files[n][j]

LEMMA SameFilesGrow ==
  ASSUME SInv, AttrInv, UNCHANGED <<files, rd>>, acked \subseteq acked',
         N <= N', manifest'.attrs \in Nat, manifest.attrs <= manifest'.attrs
  PROVE  Grown /\ AttrInv'
<1>1. \A n \in Segs : \A j \in 1..Len(files[n]) : j <= Len(files[n]) /\ files[n][j].attr \in Nat
  BY SegFacts DEF Frame
<1>2. manifest.attrs \in Nat
  BY DEF SInv, CleanTypeOK, StoreTypeOK
<1>3. Grown
  BY <1>1 DEF Grown
<1>4. AttrInv'
  BY <1>1, <1>2 DEF AttrInv
<1> QED BY <1>3, <1>4

\* Only the active file is written, its whole frames stay, and every new frame is within reach
\* of the manifest.
LEMMA ActiveGrow ==
  ASSUME SInv, AttrInv, manifest' = manifest, acked' = acked, rd' = rd,
         \A n \in Segs : n # N => files'[n] = files[n],
         \A j \in 1..Len(files[N]) : Whole(files[N][j]) =>
            j <= Len(files'[N]) /\ files'[N][j] = files[N][j],
         \A j \in 1..Len(files'[N]) : files'[N][j].attr <= manifest.attrs
  PROVE  Grown /\ AttrInv'
<1>0. N \in Segs /\ N \in Nat /\ N' = N /\ manifest.attrs \in Nat
  BY Basics DEF N, SInv, CleanTypeOK, StoreTypeOK
<1>1. \A n \in Segs : n \in Nat /\ \A j \in 1..Len(files[n]) : j <= Len(files[n])
  BY SegFacts
<1>2. \A n \in Segs : n < N => files'[n] = files[n]
  <2>1. \A n \in Segs : n < N => n # N
    BY <1>0, <1>1
  <2> QED BY <2>1
<1>3. ASSUME NEW n \in Segs, NEW j \in 1..Len(files[n]), Whole(files[n][j])
      PROVE  j <= Len(files'[n]) /\ files'[n][j] = files[n][j]
  <2>1. CASE n = N
    BY <1>3, <2>1
  <2>2. CASE n # N
    BY <1>1, <1>3, <2>2
  <2> QED BY <2>1, <2>2
<1>4. Grown
  BY <1>0, <1>2, <1>3 DEF Grown
<1>5. ASSUME NEW n \in Segs, NEW j \in 1..Len(files'[n]) PROVE files'[n][j].attr <= manifest.attrs
  <2>1. CASE n = N
    BY <2>1
  <2>2. CASE n # N
    BY <2>2 DEF AttrInv
  <2> QED BY <2>1, <2>2
<1> QED BY <1>4, <1>5 DEF AttrInv

LEMMA WriteStartGrow == SInv /\ AttrInv /\ WriteStart => Grown /\ AttrInv'
<1> SUFFICES ASSUME SInv, AttrInv, WriteStart PROVE Grown /\ AttrInv'
  OBVIOUS
<1>0. /\ N \in Segs /\ Active = files[N] /\ files[N] \in Seq(Frame) /\ Len(files[N]) \in Nat
      /\ files \in [Segs -> Seq(Frame)] /\ manifest.attrs \in Nat
  BY Basics DEF SInv, CleanTypeOK, StoreTypeOK
<1>1. mhead.active_seq = N
  BY DEF SInv, WriterInv, WriteStart, InStep
<1>2. /\ files' = [files EXCEPT ![N] = Append(files[N], Torn)]
      /\ manifest' = manifest /\ acked' = acked /\ rd' = rd
  BY <1>0, <1>1 DEF WriteStart
<1>3. /\ files'[N] = Append(files[N], Torn)
      /\ \A n \in Segs : n # N => files'[n] = files[n]
  BY <1>0, <1>2
<1>4. /\ Len(files'[N]) = Len(files[N]) + 1
      /\ \A j \in 1..Len(files[N]) : files'[N][j] = files[N][j]
      /\ files'[N][Len(files[N]) + 1] = Torn
  BY <1>0, <1>3, TornType, AppendProperties
<1>5. \A j \in 1..Len(files'[N]) : files'[N][j].attr <= manifest.attrs
  <2> SUFFICES ASSUME NEW j \in 1..Len(files'[N]) PROVE files'[N][j].attr <= manifest.attrs
    OBVIOUS
  <2>1. CASE j = Len(files[N]) + 1
    <3>1. Torn.attr = 0
      BY DEF Torn
    <3> QED BY <1>0, <1>4, <2>1, <3>1
  <2>2. CASE j # Len(files[N]) + 1
    <3>1. j \in 1..Len(files[N])
      BY <1>0, <1>4, <2>2
    <3> QED BY <1>0, <1>4, <3>1 DEF AttrInv
  <2> QED BY <2>1, <2>2
<1>6. \A j \in 1..Len(files[N]) : j <= Len(files'[N])
  BY <1>0, <1>4
<1> QED BY <1>2, <1>3, <1>4, <1>5, <1>6, ActiveGrow

LEMMA WriteEndGrow == SInv /\ AttrInv /\ WriteEnd => Grown /\ AttrInv'
<1> SUFFICES ASSUME SInv, AttrInv, WriteEnd PROVE Grown /\ AttrInv'
  OBVIOUS
<1> DEFINE m == Len(files[N])
<1>0. /\ N \in Segs /\ Active = files[N] /\ files[N] \in Seq(Frame) /\ m \in Nat
      /\ files \in [Segs -> Seq(Frame)] /\ manifest.attrs \in Nat
      /\ next_tx \in Nat /\ attempts \in Nat
  BY Basics DEF SInv, CleanTypeOK, StoreTypeOK
<1>1. mhead.active_seq = N /\ m = mhead.committed_len + 1 /\ ~Whole(files[N][m])
      /\ mhead.committed_len \in Nat
  BY <1>0 DEF SInv, WriterInv, WriteEnd, CleanTypeOK, StoreTypeOK, HeadType
<1>2. /\ files' = [files EXCEPT ![N] = [files[N] EXCEPT ![m] = NewFrame]]
      /\ manifest' = manifest /\ acked' = acked /\ rd' = rd
  BY <1>0, <1>1 DEF WriteEnd, SInv, CleanTypeOK
<1>3. /\ files'[N] = [files[N] EXCEPT ![m] = NewFrame]
      /\ \A n \in Segs : n # N => files'[n] = files[n]
  BY <1>0, <1>2
<1>4. NewFrame \in Frame /\ NewFrame.attr = manifest.attrs
  BY <1>0 DEF NewFrame, Frame
<1>5. /\ Len(files'[N]) = m
      /\ \A j \in 1..m : j # m => files'[N][j] = files[N][j]
      /\ files'[N][m] = NewFrame
  <2>1. m \in 1..Len(files[N])
    BY <1>0, <1>1
  <2> QED BY <1>0, <1>3, <1>4, <2>1, ExceptSeq
<1>6. \A j \in 1..Len(files'[N]) : files'[N][j].attr <= manifest.attrs
  BY <1>0, <1>4, <1>5 DEF AttrInv
<1>7. \A j \in 1..Len(files[N]) : Whole(files[N][j]) =>
         j <= Len(files'[N]) /\ files'[N][j] = files[N][j]
  BY <1>0, <1>1, <1>5
<1> QED BY <1>2, <1>3, <1>6, <1>7, ActiveGrow

LEMMA OpenScanGrow == SInv /\ AttrInv /\ OpenScan => Grown /\ AttrInv'
<1> SUFFICES ASSUME SInv, AttrInv, OpenScan PROVE Grown /\ AttrInv'
  OBVIOUS
<1> DEFINE v == ValidLen(files[N])
<1>0. /\ N \in Segs /\ ActiveSeq(manifest) = N /\ files[N] \in Seq(Frame) /\ Len(files[N]) \in Nat
      /\ files \in [Segs -> Seq(Frame)]
  BY Basics DEF SInv, CleanTypeOK, StoreTypeOK
<1>1. \A j \in 1..Len(files[N]) : j < Len(files[N]) => Whole(files[N][j])
  BY <1>0, SegFacts
<1>2. /\ Len(Valid(files[N])) = v /\ v \in 0..Len(files[N])
      /\ \A j \in 1..v : Valid(files[N])[j] = files[N][j]
      /\ \A j \in 1..Len(files[N]) : Whole(files[N][j]) <=> j <= v
  BY <1>0, <1>1, ValidFacts, ValidLenTail
<1>3. /\ files' = [files EXCEPT ![N] = Valid(files[N])]
      /\ manifest' = manifest /\ acked' = acked /\ rd' = rd
  BY <1>0 DEF OpenScan, Recovered
<1>4. /\ files'[N] = Valid(files[N])
      /\ \A n \in Segs : n # N => files'[n] = files[n]
  BY <1>0, <1>3
<1> HIDE DEF v
<1>5. \A j \in 1..Len(files'[N]) : files'[N][j].attr <= manifest.attrs
  <2>1. \A j \in 1..v : j \in 1..Len(files[N])
    BY <1>0, <1>2
  <2> QED BY <1>0, <1>2, <1>4, <2>1 DEF AttrInv
<1>6. \A j \in 1..Len(files[N]) : Whole(files[N][j]) =>
         j <= Len(files'[N]) /\ files'[N][j] = files[N][j]
  <2>1. \A j \in 1..Len(files[N]) : j <= v => j \in 1..v
    BY <1>0, <1>2
  <2> QED BY <1>2, <1>4, <2>1
<1> QED BY <1>3, <1>4, <1>5, <1>6, ActiveGrow

\* A writer's step or a crash leaves every whole frame where a reader has found it.
LEMMA WriterGrows == SInv /\ AttrInv /\ (WriterNext \/ Crash) => Grown /\ AttrInv'
<1> SUFFICES ASSUME SInv, AttrInv, WriterNext \/ Crash PROVE Grown /\ AttrInv'
  OBVIOUS
<1>0. N \in Nat /\ manifest \in [sealed : Seq(SealedType), attrs : Nat]
  BY Basics
<1>1. CASE WriteStart \/ WriteEnd \/ OpenScan
  BY <1>1, WriteStartGrow, WriteEndGrow, OpenScanGrow
<1>2. CASE PersistManifest
  <2>1. manifest'.sealed = manifest.sealed /\ manifest'.attrs = manifest.attrs + 1
    BY <1>0, <1>2 DEF PersistManifest
  <2>2. N' = N
    BY <2>1 DEF N
  <2>3. UNCHANGED <<files, rd>> /\ acked' = acked
    BY <1>2 DEF PersistManifest
  <2>4. manifest.attrs \in Nat
    BY <1>0
  <2> QED BY <1>0, <2>1, <2>2, <2>3, <2>4, SameFilesGrow
<1>3. CASE SaveManifest
  <2>1. manifest'.sealed = Append(manifest.sealed, SealedEntry(mhead.active_seq))
        /\ manifest'.attrs = manifest.attrs
    BY <1>0, <1>3 DEF SaveManifest
  <2>2. N' = N + 1
    BY <1>0, <2>1 DEF N
  <2>3. UNCHANGED <<files, rd>> /\ acked' = acked
    BY <1>3 DEF SaveManifest
  <2>4. manifest.attrs \in Nat
    BY <1>0
  <2> QED BY <1>0, <2>1, <2>2, <2>3, <2>4, SameFilesGrow
<1>4. CASE OpenHead \/ OpenRefused \/ SyncActive \/ PublishHead \/ SealActive \/ Roll \/ Crash
  <2>1. UNCHANGED <<files, rd>> /\ manifest' = manifest
    BY <1>4 DEF OpenHead, OpenRefused, SyncActive, PublishHead, SealActive, Roll, Crash, disk
  <2>2. acked \subseteq acked'
    BY <1>4 DEF OpenHead, OpenRefused, SyncActive, PublishHead, SealActive, Roll, Crash
  <2>3. N' = N /\ manifest.attrs \in Nat
    BY <1>0, <2>1 DEF N
  <2> QED BY <1>0, <2>1, <2>2, <2>3, SameFilesGrow
<1> QED BY <1>1, <1>2, <1>3, <1>4, NoMismatch DEF WriterNext

\* A HEAD that names another segment than the manifest implies is the one a seal left behind.
LEMMA WriterHead == SInv /\ SInv' /\ HeadInv /\ (WriterNext \/ Crash) => HeadInv'
<1> SUFFICES ASSUME SInv, SInv', HeadInv, WriterNext \/ Crash PROVE HeadInv'
  OBVIOUS
<1>0. N \in Nat /\ manifest \in [sealed : Seq(SealedType), attrs : Nat] /\ ActiveSeq(manifest) = N
  BY Basics
<1>1. CASE OpenScan
  <2>1. head' = head /\ manifest' = manifest /\ head.active_seq = N
    BY <1>0, <1>1 DEF OpenScan, HeadAgrees, EmptyHead, SInv, CleanTypeOK, HeadType
  <2> QED BY <2>1 DEF HeadInv, N
<1>2. CASE OpenHead \/ PublishHead
  <2>1. head' = mhead /\ manifest' = manifest /\ mhead.active_seq = N
    BY <1>2 DEF OpenHead, PublishHead, SInv, WriterInv, InStep
  <2> QED BY <2>1 DEF HeadInv, N
<1>3. CASE Roll
  <2>1. head'.active_seq = mhead.active_seq + 1 /\ manifest' = manifest /\ mhead.active_seq + 1 = N
    BY <1>3 DEF Roll, RolledHead, SInv, WriterInv
  <2> QED BY <2>1 DEF HeadInv, N
<1>4. CASE SaveManifest
  <2>1. manifest'.sealed = Append(manifest.sealed, SealedEntry(mhead.active_seq))
    BY <1>0, <1>4 DEF SaveManifest
  <2>2. N' = N + 1
    BY <1>0, <2>1 DEF N
  <2>3. head' = head /\ head.active_seq = N /\ wpc' = "manifested"
    BY <1>4 DEF SaveManifest, HeadInv
  <2>4. Active' = <<>>
    BY <2>3 DEF SInv, WriterInv
  <2> QED BY <2>2, <2>3, <2>4 DEF HeadInv
<1>5. CASE PersistManifest \/ WriteStart \/ WriteEnd \/ SyncActive \/ SealActive
  <2>1. head' = head /\ manifest'.sealed = manifest.sealed
    BY <1>0, <1>5 DEF PersistManifest, WriteStart, WriteEnd, SyncActive, SealActive, disk
  <2>2. head.active_seq = N
    BY <1>5 DEF PersistManifest, WriteStart, WriteEnd, SyncActive, SealActive, HeadInv
  <2> QED BY <2>1, <2>2 DEF HeadInv, N
<1>6. CASE OpenRefused \/ Crash
  <2>1. /\ head' = head /\ manifest' = manifest /\ files' = files
        /\ wpc' \in {"closed", "refused"}
    BY <1>6 DEF OpenRefused, Crash, ForgetWriter, disk
  <2> QED BY <2>1 DEF HeadInv, N, Active, ActiveSeq
<1> QED BY <1>1, <1>2, <1>3, <1>4, <1>5, <1>6, NoMismatch DEF WriterNext

-----------------------------------------------------------------------------
(* The handles *)

LEMMA PrefixMember ==
  ASSUME NEW n \in Nat, NEW k \in Nat, NEW f
  PROVE  f \in Prefix(n, k) <=> \/ \E i \in 0..n - 1 : \E j \in 1..Len(files[i]) : f = files[i][j]
                                \/ \E j \in 1..k : f = files[n][j]
<1> DEFINE A == UNION {Elems(files[i]) : i \in 0..n - 1}
           B == {files[n][j] : j \in 1..k}
<1>1. f \in A <=> \E i \in 0..n - 1 : f \in Elems(files[i])
  OBVIOUS
<1>2. \A i \in 0..n - 1 : f \in Elems(files[i]) <=> \E j \in 1..Len(files[i]) : f = files[i][j]
  BY DEF Elems
<1>3. f \in B <=> \E j \in 1..k : f = files[n][j]
  OBVIOUS
<1>4. Prefix(n, k) = A \cup B
  BY DEF Prefix
<1> HIDE DEF A, B
<1>5. f \in Prefix(n, k) <=> f \in A \/ f \in B
  BY <1>4
<1> QED BY <1>1, <1>2, <1>3, <1>5, Zenon

\* What a handle has decoded stays where it is.
LEMMA PrefixKept ==
  ASSUME SInv, SInv', Grown, NEW n \in Segs, n <= N, NEW k \in Nat, k <= Len(files[n]),
         \A j \in 1..k : Whole(files[n][j])
  PROVE  /\ Prefix(n, k)' = Prefix(n, k)
         /\ k <= Len(files'[n])
         /\ \A j \in 1..k : Whole(files'[n][j])
<1>0. /\ n \in Nat /\ Len(files[n]) \in Nat /\ Len(files'[n]) \in Nat /\ N \in Nat
  <2>1. n \in Nat /\ Len(files[n]) \in Nat /\ N \in Nat
    BY SegFacts, Basics
  <2>2. files'[n] \in Seq(Frame)
    BY DEF SInv, CleanTypeOK, StoreTypeOK
  <2> QED BY <2>1, <2>2
<1>1. \A j \in 1..k : j \in 1..Len(files[n])
  BY <1>0
<1>2. \A j \in 1..k : j <= Len(files'[n]) /\ files'[n][j] = files[n][j]
  BY <1>1 DEF Grown
<1>3. k <= Len(files'[n])
  <2>1. CASE k = 0
    BY <1>0, <2>1
  <2>2. CASE k # 0
    <3>1. k \in 1..k
      BY <2>2
    <3> QED BY <1>2, <3>1
  <2> QED BY <2>1, <2>2
<1>4. \A i \in 0..n - 1 : files'[i] = files[i]
  <2>1. \A i \in 0..n - 1 : i \in Segs /\ i < N
    BY <1>0, ConstantsAssumption DEF Segs
  <2> QED BY <2>1 DEF Grown
<1>5. {Elems(files'[i]) : i \in 0..n - 1} = {Elems(files[i]) : i \in 0..n - 1}
  BY <1>4
<1>6. {files'[n][j] : j \in 1..k} = {files[n][j] : j \in 1..k}
  BY <1>2
<1>7. Prefix(n, k)' = Prefix(n, k)
  BY <1>5, <1>6 DEF Prefix, Elems
<1> QED BY <1>2, <1>3, <1>7

LEMMA InKept ==
  ASSUME SInv, SInv', Grown, NEW n \in Segs, NEW f, In(f, n)
  PROVE  In(f, n)'
<1>1. PICK j \in 1..Len(files[n]) : files[n][j] = f
  BY DEF In
<1>2. Whole(f) /\ Len(files[n]) \in Nat
  BY SegFacts DEF In
<1>3. Whole(files[n][j])
  BY <1>1, <1>2
<1>4. j <= Len(files'[n]) /\ files'[n][j] = files[n][j]
  BY <1>1, <1>3 DEF Grown
<1>5. Len(files'[n]) \in Nat
  <2>1. files'[n] \in Seq(Frame)
    BY DEF SInv, CleanTypeOK, StoreTypeOK
  <2> QED BY <2>1
<1>6. j \in 1..Len(files'[n])
  BY <1>2, <1>4, <1>5
<1> QED BY <1>1, <1>2, <1>4, <1>6 DEF In

\* HandleInv in the next state, handle by handle.
LEMMA HandlePrimed ==
  ASSUME \A r \in Readers : \E x : x = rd'[r] /\ ViewOk(x)' /\ TailOk(x)' /\ StartOk(x)'
  PROVE  HandleInv'
<1> SUFFICES ASSUME NEW r \in Readers PROVE (ViewOk(rd[r]) /\ TailOk(rd[r]) /\ StartOk(rd[r]))'
  BY DEF HandleInv
<1>1. PICK x : x = rd'[r] /\ ViewOk(x)' /\ TailOk(x)' /\ StartOk(x)'
  OBVIOUS
<1>2. ViewOk(rd[r])'
  <2>1. x.live => /\ x.seq <= N' /\ x.len <= Len(files'[x.seq])
                  /\ \A j \in 1..x.len : Whole(files'[x.seq][j])
                  /\ x.view = Prefix(x.seq, x.len)'
    BY <1>1 DEF ViewOk
  <2>2. Prefix(x.seq, x.len)' = Prefix(rd[r].seq, rd[r].len)'
    BY <1>1 DEF Prefix
  <2>3. x.pc \in {"open", "r_head", "r_stat", "r_tail"} => x.live
    BY <1>1 DEF ViewOk
  <2> QED BY <1>1, <2>1, <2>2, <2>3 DEF ViewOk
<1>3. TailOk(rd[r])'
  BY <1>1 DEF TailOk
<1>4. StartOk(rd[r])'
  BY <1>1 DEF StartOk, Opening, In
<1> QED BY <1>2, <1>3, <1>4

\* A handle of the type of handles.
LEMMA HandleType ==
  ASSUME NEW x \in ReaderType
  PROVE  /\ x.seq \in Segs /\ x.mseq \in Segs /\ x.len \in Nat /\ x.tail \in Seq(Frame)
         /\ x.seq \in Nat /\ x.mseq \in Nat /\ Len(x.tail) \in Nat /\ x.live \in BOOLEAN
         /\ x.view \subseteq Frame /\ x.start \subseteq Frame /\ x.pc \in ReaderStates
<1>1. /\ x.seq \in Segs /\ x.mseq \in Segs /\ x.len \in Nat /\ x.tail \in Seq(Frame)
      /\ x.live \in BOOLEAN /\ x.view \subseteq Frame /\ x.start \subseteq Frame /\ x.pc \in ReaderStates
  BY DEF ReaderType
<1> QED BY <1>1, ConstantsAssumption DEF Segs

\* The writer's steps keep what every handle relies on.
LEMMA HandlesKept ==
  ASSUME SInv, SInv', ReaderTypeOK, Grown, HandleInv, ReaderSeq
  PROVE  HandleInv'
<1> SUFFICES ASSUME NEW r \in Readers
             PROVE  \E x : x = rd'[r] /\ ViewOk(x)' /\ TailOk(x)' /\ StartOk(x)'
  BY HandlePrimed
<1>0. PICK x : x = rd[r]
  OBVIOUS
<1>1. /\ x \in ReaderType /\ x = rd'[r] /\ x.mseq <= N
      /\ ViewOk(x) /\ TailOk(x) /\ StartOk(x)
  BY <1>0 DEF ReaderTypeOK, Grown, HandleInv, ReaderSeq
<1>2. /\ x.seq \in Segs /\ x.mseq \in Segs /\ x.len \in Nat /\ x.tail \in Seq(Frame)
      /\ x.seq \in Nat /\ x.mseq \in Nat /\ Len(x.tail) \in Nat
  BY <1>1, HandleType
<1>3. N \in Nat /\ N' \in Nat /\ N <= N' /\ acked \subseteq acked'
      /\ manifest.attrs \in Nat /\ manifest'.attrs \in Nat /\ manifest.attrs <= manifest'.attrs
  <2>1. N \in Nat
    BY Basics
  <2>2. N' \in Nat
    BY DEF SInv, CleanTypeOK, StoreTypeOK, N
  <2> QED BY <2>1, <2>2 DEF SInv, CleanTypeOK, StoreTypeOK, Grown
<1>4. ViewOk(x)'
  <2>1. CASE x.live
    <3>1. /\ x.seq <= N /\ x.len <= Len(files[x.seq])
          /\ \A j \in 1..x.len : Whole(files[x.seq][j])
          /\ x.view = Prefix(x.seq, x.len)
      BY <1>1, <2>1 DEF ViewOk
    <3>2. /\ Prefix(x.seq, x.len)' = Prefix(x.seq, x.len)
          /\ x.len <= Len(files'[x.seq])
          /\ \A j \in 1..x.len : Whole(files'[x.seq][j])
      BY <1>2, <3>1, PrefixKept
    <3>3. x.seq <= N'
      BY <1>2, <1>3, <3>1
    <3> QED BY <2>1, <3>1, <3>2, <3>3 DEF ViewOk
  <2>2. CASE ~x.live
    BY <1>1, <2>2 DEF ViewOk
  <2> QED BY <2>1, <2>2
<1>5. TailOk(x)'
  <2> SUFFICES ASSUME x.pc = "r_tail", NEW i \in 1..Len(x.tail)
               PROVE  /\ x.tail[i].attr <= manifest'.attrs
                      /\ i < Len(x.tail) => Whole(x.tail[i])
                      /\ Whole(x.tail[i]) =>
                           x.len + i <= Len(files'[x.seq]) /\ files'[x.seq][x.len + i] = x.tail[i]
    BY DEF TailOk
  <2>1. /\ x.tail[i].attr <= manifest.attrs
        /\ i < Len(x.tail) => Whole(x.tail[i])
        /\ Whole(x.tail[i]) =>
             x.len + i <= Len(files[x.seq]) /\ files[x.seq][x.len + i] = x.tail[i]
    BY <1>1 DEF TailOk
  <2>2. x.tail[i].attr \in Nat
    <3>1. x.tail[i] \in Frame
      BY <1>2
    <3> QED BY <3>1 DEF Frame
  <2>3. ASSUME Whole(x.tail[i])
        PROVE  x.len + i <= Len(files'[x.seq]) /\ files'[x.seq][x.len + i] = x.tail[i]
    <3>1. Len(files[x.seq]) \in Nat
      BY <1>2, SegFacts
    <3>2. x.len + i \in 1..Len(files[x.seq])
      BY <1>2, <2>1, <2>3, <3>1
    <3>3. Whole(files[x.seq][x.len + i])
      BY <2>1, <2>3
    <3> QED BY <1>2, <2>1, <2>3, <3>2, <3>3 DEF Grown
  <2> QED BY <1>3, <2>1, <2>2, <2>3
<1>6. StartOk(x)'
  <2>1. \A f : \A i \in Segs : In(f, i) => In(f, i)'
    BY InKept
  <2>2. x.start \subseteq acked'
    BY <1>1, <1>3 DEF StartOk, Opening
  <2>3. x.pc \in Opening => \A f \in x.start : \E i \in 0..x.mseq : In(f, i)'
    <3>1. \A i \in 0..x.mseq : i \in Segs
      BY <1>2, ConstantsAssumption DEF Segs
    <3>2. x.pc \in Opening => \A f \in x.start : \E i \in 0..x.mseq : In(f, i)
      BY <1>1 DEF StartOk, Opening
    <3> QED BY <2>1, <3>1, <3>2
  <2>4. x.pc \in {"r_head", "r_stat"} => \A f \in x.start : f \in x.view \/ In(f, x.seq)'
    <3>2. x.pc \in {"r_head", "r_stat"} => \A f \in x.start : f \in x.view \/ In(f, x.seq)
      BY <1>1 DEF StartOk, Opening
    <3> QED BY <1>2, <2>1, <3>2
  <2>5. x.pc = "r_tail" => \A f \in x.start :
          f \in x.view \/ (Whole(f) /\ \E i \in 1..Len(x.tail) : x.tail[i] = f)
    BY <1>1 DEF StartOk, Opening
  <2>6. x.pc = "open" => x.start \subseteq x.view
    BY <1>1 DEF StartOk, Opening
  <2> QED BY <2>2, <2>3, <2>4, <2>5, <2>6 DEF StartOk, Opening
<1> QED BY <1>1, <1>4, <1>5, <1>6

-----------------------------------------------------------------------------
(* One lemma per file a reader reads *)

\* The facts every reader step starts from.
HInv == SInv /\ ReaderTypeOK /\ ReaderSeq /\ RInv

\* A reader's step leaves the other handles as they were.
LEMMA SetHandle ==
  ASSUME HInv, UNCHANGED NotReader, NEW r \in Readers, NEW rec, Set(r, rec),
         ViewOk(rec), TailOk(rec), StartOk(rec)
  PROVE  HandleInv'
<1>0. files' = files /\ manifest' = manifest /\ acked' = acked
  BY DEF NotReader, disk, writer
<1>1. rd' = [rd EXCEPT ![r] = rec] /\ rd \in [Readers -> ReaderType]
  BY DEF Set, HInv, ReaderTypeOK
<1> SUFFICES ASSUME NEW q \in Readers
             PROVE  \E x : x = rd'[q] /\ ViewOk(x)' /\ TailOk(x)' /\ StartOk(x)'
  BY HandlePrimed
<1>2. PICK x : x = rd'[q]
  OBVIOUS
<1>3. ViewOk(x) /\ TailOk(x) /\ StartOk(x)
  <2>1. CASE q = r
    <3>1. x = rec
      BY <1>1, <1>2, <2>1
    <3> QED BY <3>1
  <2>2. CASE q # r
    <3>1. x = rd[q]
      BY <1>1, <1>2, <2>2
    <3> QED BY <3>1 DEF HInv, RInv, HandleInv
  <2> QED BY <2>1, <2>2
<1>4. ViewOk(x)'
  BY <1>0, <1>3 DEF ViewOk, Prefix, N
<1>5. TailOk(x)'
  BY <1>0, <1>3 DEF TailOk
<1>6. StartOk(x)'
  BY <1>0, <1>3 DEF StartOk, Opening, In
<1> QED BY <1>2, <1>4, <1>5, <1>6

\* A handle whose operation has not read anything yet, or has been given up.
LEMMA IdleHandle ==
  ASSUME NEW x, NEW y, ViewOk(x), StartOk(x), y.pc \in {"reopen", "failed"},
         y.live = x.live, y.seq = x.seq, y.len = x.len, y.view = x.view, y.start = x.start
  PROVE  ViewOk(y) /\ TailOk(y) /\ StartOk(y)
<1>1. ViewOk(y)
  BY DEF ViewOk
<1>2. TailOk(y)
  BY DEF TailOk
<1>3. StartOk(y)
  BY DEF StartOk, Opening
<1> QED BY <1>1, <1>2, <1>3

LEMMA DoneFields ==
  ASSUME NEW rec \in ReaderType, NEW pc
  PROVE  /\ Done(rec, pc).pc = pc /\ Done(rec, pc).live = rec.live /\ Done(rec, pc).seq = rec.seq
         /\ Done(rec, pc).len = rec.len /\ Done(rec, pc).view = rec.view
         /\ Done(rec, pc).start = rec.start /\ Done(rec, pc).attrs = rec.attrs
  BY DEF Done, ReaderType

\* Where the acknowledged frames are.
LEMMA AckedIn ==
  ASSUME SInv, NEW f \in acked
  PROVE  \E i \in 0..N : In(f, i)
<1>0. N \in Nat /\ N \in Segs /\ Active = files[N] /\ Len(files[N]) \in Nat /\ synced[N] \in Nat
  BY Basics
<1>1. CASE \E i \in 1..N : \E j \in 1..Len(files[i - 1]) : files[i - 1][j] = f
  <2>1. PICK i \in 1..N : \E j \in 1..Len(files[i - 1]) : files[i - 1][j] = f
    BY <1>1
  <2>0. PICK j \in 1..Len(files[i - 1]) : files[i - 1][j] = f
    BY <2>1
  <2>2. i - 1 \in 0..N /\ i - 1 < N
    BY <1>0
  <2>3. i - 1 \in Segs
    BY Basics
  <2>4. Whole(files[i - 1][j])
    BY <2>2, <2>3, SegFacts
  <2>5. In(f, i - 1)
    BY <2>0, <2>4 DEF In
  <2> QED BY <2>2, <2>5
<1>2. CASE \E j \in 1..synced[N] : j <= Len(Active) /\ Whole(Active[j]) /\ Active[j] = f
  <2>1. PICK j \in 1..synced[N] : j <= Len(Active) /\ Whole(Active[j]) /\ Active[j] = f
    BY <1>2
  <2>2. j \in 1..Len(files[N])
    BY <1>0, <2>1
  <2>3. In(f, N)
    BY <1>0, <2>1, <2>2 DEF In
  <2>4. N \in 0..N
    BY <1>0
  <2> QED BY <2>3, <2>4
<1> QED BY <1>1, <1>2 DEF SInv, AckedInv

\* A frame of an earlier segment is in every prefix that ends in a later one.
LEMMA InPrefix ==
  ASSUME NEW n \in Nat, NEW k \in Nat, NEW i \in 0..n - 1, NEW f, In(f, i)
  PROVE  f \in Prefix(n, k)
<1>1. \E j \in 1..Len(files[i]) : f = files[i][j]
  BY DEF In
<1> QED BY <1>1, PrefixMember

LEMMA LoadManifestHandle ==
  ASSUME HInv, NEW r \in Readers, ReaderLoadManifest(r)
  PROVE  HandleInv'
<1> DEFINE x == rd[r]
           y == [x EXCEPT !.pc = "o_manifest", !.mseq = ActiveSeq(manifest),
                          !.mattrs = manifest.attrs,
                          !.start = IF rd[r].pc = "reopen" THEN @ ELSE acked]
<1>0. /\ x \in ReaderType /\ ViewOk(x) /\ StartOk(x) /\ SInv
      /\ ActiveSeq(manifest) = N
  BY Basics DEF HInv, RInv, HandleInv, ReaderTypeOK
<1>1. /\ y.pc = "o_manifest" /\ y.mseq = N /\ y.live = x.live /\ y.seq = x.seq
      /\ y.len = x.len /\ y.view = x.view
      /\ y.start = IF x.pc = "reopen" THEN x.start ELSE acked
  BY <1>0 DEF ReaderType
<1>2. Set(r, y) /\ UNCHANGED NotReader
  BY DEF ReaderLoadManifest
<1> HIDE DEF x, y
<1>3. ViewOk(y)
  BY <1>0, <1>1 DEF ViewOk
<1>4. TailOk(y)
  BY <1>1 DEF TailOk
<1>5. y.start \subseteq acked
  BY <1>0, <1>1 DEF StartOk, Opening
<1>6. \A f \in y.start : \E i \in 0..N : In(f, i)
  BY <1>0, <1>5, AckedIn
<1>7. StartOk(y)
  BY <1>1, <1>5, <1>6 DEF StartOk, Opening
<1> QED BY <1>2, <1>3, <1>4, <1>7, SetHandle

\* An open that goes on with what it has read.
LEMMA OpeningHandle ==
  ASSUME HInv, UNCHANGED NotReader, NEW r \in Readers, rd[r].pc \in Opening, NEW y, Set(r, y),
         y.pc \in Opening, y.live = rd[r].live, y.seq = rd[r].seq, y.len = rd[r].len,
         y.view = rd[r].view, y.start = rd[r].start, y.mseq = rd[r].mseq
  PROVE  HandleInv'
<1> DEFINE x == rd[r]
<1>1. ViewOk(x) /\ StartOk(x)
  BY DEF HInv, RInv, HandleInv
<1>2. y.pc \notin {"open", "r_head", "r_stat", "r_tail"}
  BY DEF Opening
<1>3. ViewOk(y) /\ TailOk(y)
  BY <1>1, <1>2 DEF ViewOk, TailOk
<1>4. StartOk(y)
  BY <1>1, <1>2 DEF StartOk, Opening
<1> QED BY <1>3, <1>4, SetHandle

LEMMA PlacedFields ==
  ASSUME NEW x \in ReaderType
  PROVE  /\ Placed(x).pc = "o_local" /\ Placed(x).live = x.live /\ Placed(x).seq = x.seq
         /\ Placed(x).len = x.len /\ Placed(x).view = x.view
         /\ Placed(x).start = x.start /\ Placed(x).mseq = x.mseq
  BY DEF Placed, ReaderType

LEMMA StatHandle ==
  ASSUME HInv, NEW r \in Readers, ReaderStat(r) \/ ReaderGet(r)
  PROVE  HandleInv'
<1>0. rd[r] \in ReaderType /\ rd[r].pc \in Opening /\ UNCHANGED NotReader
  BY DEF HInv, ReaderTypeOK, ReaderStat, ReaderGet, Opening
<1>1. CASE Set(r, Placed(rd[r]))
  <2>1. Placed(rd[r]).pc \in Opening
    BY <1>0, PlacedFields DEF Opening
  <2> QED BY <1>0, <1>1, <2>1, PlacedFields, OpeningHandle
<1>2. CASE Set(r, [rd[r] EXCEPT !.pc = "o_stat"])
  <2> DEFINE y == [rd[r] EXCEPT !.pc = "o_stat"]
  <2>1. /\ y.pc \in Opening /\ y.live = rd[r].live /\ y.seq = rd[r].seq /\ y.len = rd[r].len
        /\ y.view = rd[r].view /\ y.start = rd[r].start /\ y.mseq = rd[r].mseq
    BY <1>0 DEF ReaderType, Opening
  <2> HIDE DEF y
  <2>2. Set(r, y)
    BY <1>2 DEF y
  <2> QED BY <1>0, <2>1, <2>2, OpeningHandle
<1>3. CASE Set(r, [rd[r] EXCEPT !.pc = "o_get", !.tail = files[rd[r].mseq]])
  <2> DEFINE y == [rd[r] EXCEPT !.pc = "o_get", !.tail = files[rd[r].mseq]]
  <2>1. /\ y.pc \in Opening /\ y.live = rd[r].live /\ y.seq = rd[r].seq /\ y.len = rd[r].len
        /\ y.view = rd[r].view /\ y.start = rd[r].start /\ y.mseq = rd[r].mseq
    BY <1>0 DEF ReaderType, Opening
  <2> HIDE DEF y
  <2>2. Set(r, y)
    BY <1>3 DEF y
  <2> QED BY <1>0, <2>1, <2>2, OpeningHandle
<1> QED BY <1>1, <1>2, <1>3 DEF ReaderStat, ReaderGet

LEMMA CheckHeadHandle ==
  ASSUME HInv, NEW r \in Readers, ReaderCheckHead(r)
  PROVE  HandleInv'
<1> DEFINE x == rd[r]
           y == [x EXCEPT !.pc = "o_head"]
<1>0. /\ x \in ReaderType /\ ViewOk(x) /\ StartOk(x) /\ x.pc \in Opening /\ UNCHANGED NotReader
      /\ Set(r, y) \/ Set(r, Done(x, "failed"))
  BY DEF HInv, RInv, HandleInv, ReaderTypeOK, ReaderCheckHead, Opening
<1>1. CASE Set(r, y)
  <2>1. /\ y.pc \in Opening /\ y.live = x.live /\ y.seq = x.seq /\ y.len = x.len
        /\ y.view = x.view /\ y.start = x.start /\ y.mseq = x.mseq
    BY <1>0 DEF ReaderType, Opening
  <2> HIDE DEF y
  <2> QED BY <1>0, <1>1, <2>1, OpeningHandle
<1>2. CASE Set(r, Done(x, "failed"))
  <2> HIDE DEF x
  <2>2. ViewOk(Done(x, "failed")) /\ TailOk(Done(x, "failed")) /\ StartOk(Done(x, "failed"))
    BY <1>0, DoneFields, IdleHandle
  <2> QED BY <1>0, <1>2, <2>2, SetHandle
<1> QED BY <1>0, <1>1, <1>2

LEMMA ReopenHandle ==
  ASSUME HInv, NEW r \in Readers, RefreshReopen(r)
  PROVE  HandleInv'
<1> DEFINE x == rd[r]
<1>0. x \in ReaderType /\ ViewOk(x) /\ StartOk(x) /\ UNCHANGED NotReader /\ Set(r, Done(x, "reopen"))
  BY DEF HInv, RInv, HandleInv, ReaderTypeOK, RefreshReopen
<1> HIDE DEF x
<1>1. ViewOk(Done(x, "reopen")) /\ TailOk(Done(x, "reopen")) /\ StartOk(Done(x, "reopen"))
  BY <1>0, DoneFields, IdleHandle
<1> QED BY <1>0, <1>1, SetHandle

\* What an open decodes is a prefix of the log.
LEMMA ScanPrefix ==
  ASSUME SInv, NEW n \in Segs, n <= N
  PROVE  /\ SealedFrames(n) \cup Elems(Valid(files[n])) = Prefix(n, Len(Valid(files[n])))
         /\ Len(Valid(files[n])) \in Nat /\ Len(Valid(files[n])) <= Len(files[n])
         /\ \A j \in 1..Len(Valid(files[n])) : Whole(files[n][j])
         /\ \A j \in 1..Len(files[n]) : Whole(files[n][j]) => j \in 1..Len(Valid(files[n]))
<1> DEFINE s == files[n]
           v == ValidLen(s)
<1>0. /\ n \in Nat /\ N \in Nat /\ s \in Seq(Frame) /\ Len(s) \in Nat
      /\ \A j \in 1..Len(s) : j < Len(s) => Whole(s[j])
  BY SegFacts, Basics
<1>1. /\ Len(Valid(s)) = v /\ v \in 0..Len(s)
      /\ \A j \in 1..v : Valid(s)[j] = s[j] /\ Whole(s[j])
      /\ \A j \in 1..Len(s) : Whole(s[j]) <=> j <= v
  BY <1>0, ValidFacts, ValidLenTail
<1>2. n \in 0..N
  BY <1>0
<1>3. Elems(Valid(s)) = {s[j] : j \in 1..v}
  <2> HIDE DEF v
  <2> QED BY <1>1 DEF Elems
<1>4. SealedFrames(n) = UNION {Elems(files[i]) : i \in 0..n - 1}
  <2>1. ASSUME NEW f \in SealedFrames(n) PROVE f \in UNION {Elems(files[i]) : i \in 0..n - 1}
    <3>1. PICK i \in 1..n : \E j \in 1..Len(files[i - 1]) : f = files[i - 1][j]
      BY <1>2, <2>1, SealedFramesFacts
    <3>2. i - 1 \in 0..n - 1
      BY <1>0
    <3>3. f \in Elems(files[i - 1])
      BY <3>1 DEF Elems
    <3> QED BY <3>2, <3>3
  <2>2. ASSUME NEW f \in UNION {Elems(files[i]) : i \in 0..n - 1} PROVE f \in SealedFrames(n)
    <3>1. PICK i \in 0..n - 1 : f \in Elems(files[i])
      BY <2>2
    <3>2. PICK j \in 1..Len(files[i]) : f = files[i][j]
      BY <3>1 DEF Elems
    <3>3. i + 1 \in 1..n /\ (i + 1) - 1 = i
      BY <1>0
    <3>4. \A ii \in 1..n : \A jj \in 1..Len(files[ii - 1]) : files[ii - 1][jj] \in SealedFrames(n)
      BY <1>2, SealedFramesFacts
    <3>5. \A jj \in 1..Len(files[(i + 1) - 1]) : files[(i + 1) - 1][jj] \in SealedFrames(n)
      BY <3>3, <3>4
    <3> QED BY <3>2, <3>3, <3>5
  <2> QED BY <2>1, <2>2
<1>5. SealedFrames(n) \cup Elems(Valid(s)) = Prefix(n, v)
  BY <1>3, <1>4 DEF Prefix
<1> HIDE DEF v
<1>6. v \in Nat /\ v <= Len(s) /\ \A j \in 1..Len(s) : Whole(s[j]) => j \in 1..v
  BY <1>0, <1>1
<1> QED BY <1>1, <1>5, <1>6

\* Under the invariant an open can decode every sealed segment.
LEMMA AllReadable ==
  ASSUME SInv, NEW n \in 0..N
  PROVE  SealedReadable(n)
<1>1. manifest.sealed \in Seq(SealedType) /\ N \in Nat
  BY Basics
<1> SUFFICES ASSUME NEW e \in Elems(SubSeq(manifest.sealed, 1, n))
             PROVE  e.len <= ValidLen(files[e.seq])
  BY DEF SealedReadable
<1>2. PICK i \in 1..N : e = manifest.sealed[i]
  BY <1>1, PrefixFacts DEF Elems, N
<1>3. /\ e.seq = i - 1 /\ i - 1 \in Segs /\ e.len = Len(files[i - 1])
      /\ \A j \in 1..e.len : Whole(files[i - 1][j])
      /\ e.len >= 1
  BY <1>2, Basics DEF SInv, SealedInv, SealedSeg
<1>4. files[i - 1] \in Seq(Frame)
  BY <1>3 DEF SInv, CleanTypeOK, StoreTypeOK
<1>5. /\ ValidLen(files[i - 1]) \in 0..Len(files[i - 1])
      /\ \A j \in 1..Len(files[i - 1]) : Whole(files[i - 1][j]) <=> j <= ValidLen(files[i - 1])
  BY <1>3, <1>4, ValidLenTail
<1>6. Len(files[i - 1]) \in 1..Len(files[i - 1])
  BY <1>3, <1>4
<1> QED BY <1>3, <1>5, <1>6

LEMMA ScanActiveHandle ==
  ASSUME HInv, NEW r \in Readers, ReaderScanActive(r)
  PROVE  HandleInv'
<1> DEFINE x == rd[r]
           n == x.mseq
           k == Len(Valid(files[n]))
           p == SealedFrames(n) \cup Elems(Valid(files[n]))
           z == [x EXCEPT !.live = TRUE, !.seq = n, !.attrs = x.mattrs, !.len = k, !.view = p]
           y == Done(z, "open")
<1>00. /\ x \in ReaderType /\ ViewOk(x) /\ StartOk(x) /\ SInv /\ x.mseq <= N
       /\ x.pc = "o_head" /\ x.pc \in Opening /\ UNCHANGED NotReader
       /\ Set(r, y) \/ ~SealedReadable(n)
  BY DEF HInv, RInv, HandleInv, ReaderTypeOK, ReaderSeq, ReaderScanActive, Opening
<1>1. n \in Segs /\ n \in Nat /\ x.start \subseteq Frame
  BY <1>00, HandleType
<1>01. n \in 0..N
  BY <1>00, <1>1, Basics
<1>0. /\ x \in ReaderType /\ ViewOk(x) /\ StartOk(x) /\ SInv /\ x.mseq <= N
      /\ x.pc = "o_head" /\ x.pc \in Opening /\ UNCHANGED NotReader /\ Set(r, y)
  BY <1>00, <1>01, AllReadable
<1>2. /\ p = Prefix(n, k) /\ k \in Nat /\ k <= Len(files[n])
      /\ \A j \in 1..k : Whole(files[n][j])
      /\ \A j \in 1..Len(files[n]) : Whole(files[n][j]) => j \in 1..k
  BY <1>0, <1>1, ScanPrefix
<1> HIDE DEF p, k
<1>3. y.pc = "open" /\ y.live = TRUE /\ y.seq = n /\ y.len = k /\ y.view = p /\ y.start = x.start
  BY <1>0 DEF Done, ReaderType
<1> HIDE DEF x, y, z
<1>4. ViewOk(y)
  BY <1>0, <1>2, <1>3 DEF ViewOk
<1>5. TailOk(y)
  BY <1>3 DEF TailOk
<1>6. ASSUME NEW f \in x.start PROVE f \in Prefix(n, k)
  <2>1. PICK i \in 0..n : In(f, i)
    BY <1>0, <1>6 DEF StartOk, Opening
  <2>2. CASE i = n
    <3>1. PICK j \in 1..Len(files[n]) : files[n][j] = f
      BY <2>1, <2>2 DEF In
    <3>2. j \in 1..k
      BY <1>2, <2>1, <3>1 DEF In
    <3> QED BY <1>1, <1>2, <3>1, <3>2, PrefixMember
  <2>3. CASE i # n
    <3>1. i \in 0..n - 1
      BY <1>1, <2>3
    <3> QED BY <1>1, <1>2, <2>1, <3>1, InPrefix
  <2> QED BY <2>2, <2>3
<1>7. StartOk(y)
  BY <1>0, <1>2, <1>3, <1>6 DEF StartOk, Opening
<1> QED BY <1>0, <1>4, <1>5, <1>7, SetHandle

LEMMA RefreshHeadHandle ==
  ASSUME HInv, NEW r \in Readers, RefreshHead(r)
  PROVE  HandleInv'
<1> DEFINE x == rd[r]
           p == IF HeadMoved(r) THEN "reopen" ELSE "r_head"
           y == [x EXCEPT !.start = acked, !.pc = p]
<1>0. /\ x \in ReaderType /\ ViewOk(x) /\ SInv /\ HeadInv /\ x.live /\ UNCHANGED NotReader
      /\ Set(r, y)
  BY DEF HInv, RInv, HandleInv, ReaderTypeOK, RefreshHead
<1>1. /\ y.pc = p /\ y.live = x.live /\ y.seq = x.seq /\ y.len = x.len
      /\ y.view = x.view /\ y.start = acked
  BY <1>0 DEF ReaderType
<1>2. p = "reopen" \/ (p = "r_head" /\ head.active_seq = x.seq)
  BY <1>0 DEF HeadMoved, HeadAgrees, EmptyHead, SInv, CleanTypeOK, HeadType
<1>3. /\ x.seq \in Nat /\ x.seq \in Segs /\ x.len \in Nat /\ N \in Nat /\ Active = files[N]
      /\ x.view = Prefix(x.seq, x.len) /\ x.seq <= N
  BY <1>0, HandleType, Basics DEF ViewOk
<1> HIDE DEF x, y, p
<1>4. ViewOk(y)
  BY <1>0, <1>1 DEF ViewOk
<1>5. TailOk(y)
  BY <1>1, <1>2 DEF TailOk
<1>6. ASSUME p = "r_head", NEW f \in acked PROVE f \in x.view \/ In(f, x.seq)
  <2>1. PICK i \in 0..N : In(f, i)
    BY <1>0, AckedIn
  <2>2. head.active_seq = x.seq
    BY <1>2, <1>6
  <2>3. CASE i = x.seq
    BY <2>1, <2>3
  <2>4. CASE i < x.seq
    <3>1. i \in 0..x.seq - 1
      BY <1>3, <2>4
    <3> QED BY <1>3, <2>1, <3>1, InPrefix
  <2>5. CASE i > x.seq
    <3>1. x.seq + 1 = N /\ Active = <<>>
      BY <1>0, <1>3, <2>2, <2>5 DEF HeadInv
    <3>2. i = N
      BY <1>3, <2>5, <3>1
    <3>3. Len(files[i]) = 0
      BY <1>3, <3>1, <3>2, EmptySeq
    <3> QED BY <2>1, <3>3 DEF In
  <2> QED BY <1>3, <2>3, <2>4, <2>5
<1>7. StartOk(y)
  BY <1>1, <1>2, <1>6 DEF StartOk, Opening
<1> QED BY <1>0, <1>4, <1>5, <1>7, SetHandle

\* A frame of the handle's own segment, once the whole segment is decoded.
LEMMA InRead ==
  ASSUME NEW n \in Nat, NEW f, In(f, n), Len(files[n]) \in Nat
  PROVE  f \in Prefix(n, Len(files[n]))
<1>1. \E j \in 1..Len(files[n]) : f = files[n][j]
  BY DEF In
<1> QED BY <1>1, PrefixMember

LEMMA RefreshStatHandle ==
  ASSUME HInv, NEW r \in Readers, RefreshStat(r)
  PROVE  HandleInv'
<1> DEFINE x == rd[r]
           n == x.seq
           p == IF Len(files[n]) < x.len THEN "reopen" ELSE IF Len(files[n]) = x.len THEN "open" ELSE "r_stat"
           y == [x EXCEPT !.pc = p]
<1>0. /\ x \in ReaderType /\ ViewOk(x) /\ StartOk(x) /\ SInv /\ x.pc = "r_head" /\ UNCHANGED NotReader
      /\ Set(r, y)
  BY DEF HInv, RInv, HandleInv, ReaderTypeOK, RefreshStat
<1>1. /\ y.pc = p /\ y.live = x.live /\ y.seq = n /\ y.len = x.len
      /\ y.view = x.view /\ y.start = x.start
  BY <1>0 DEF ReaderType
<1>2. p \in {"reopen", "r_stat"} \/ (p = "open" /\ Len(files[n]) = x.len)
  OBVIOUS
<1>3. n \in Nat /\ x.len \in Nat /\ x.live /\ x.view = Prefix(n, x.len)
  BY <1>0, HandleType DEF ViewOk
<1>4. x.start \subseteq acked /\ \A f \in x.start : f \in x.view \/ In(f, n)
  BY <1>0 DEF StartOk, Opening
<1> HIDE DEF x, y, p
<1>5. ViewOk(y)
  BY <1>0, <1>1, <1>3 DEF ViewOk
<1>6. TailOk(y)
  BY <1>1, <1>2 DEF TailOk
<1>7. p = "open" => x.start \subseteq x.view
  BY <1>2, <1>3, <1>4, InRead
<1>8. StartOk(y)
  BY <1>1, <1>2, <1>4, <1>7 DEF StartOk, Opening
<1> QED BY <1>0, <1>5, <1>6, <1>8, SetHandle

LEMMA RefreshTailHandle ==
  ASSUME HInv, NEW r \in Readers, RefreshTail(r)
  PROVE  HandleInv'
<1> DEFINE x == rd[r]
           s == files[x.seq]
           t == SubSeq(s, x.len + 1, Len(s))
           y == [x EXCEPT !.pc = "r_tail", !.tail = t]
<1>0. /\ x \in ReaderType /\ ViewOk(x) /\ StartOk(x) /\ SInv /\ AttrInv
      /\ x.pc = "r_stat" /\ UNCHANGED NotReader /\ Set(r, y)
  BY DEF HInv, RInv, HandleInv, ReaderTypeOK, RefreshTail
<1>1. x.seq \in Segs /\ x.seq \in Nat /\ x.len \in Nat
  BY <1>0, HandleType
<1>2. /\ s \in Seq(Frame) /\ Len(s) \in Nat
      /\ \A j \in 1..Len(s) : /\ s[j] \in Frame /\ s[j].attr <= manifest.attrs
                              /\ j < Len(s) => Whole(s[j])
  BY <1>0, <1>1, SegFacts DEF AttrInv
<1>3. x.live /\ x.len <= Len(s) /\ x.view = Prefix(x.seq, x.len)
  BY <1>0 DEF ViewOk
<1>4. Len(t) = Len(s) - x.len /\ \A i \in 1..Len(t) : t[i] = s[x.len + i]
  <2>1. \A i \in x.len + 1 .. Len(s) : s[i] \in Frame
    BY <1>1, <1>2
  <2>2. /\ Len(t) = IF x.len + 1 <= Len(s) THEN Len(s) - (x.len + 1) + 1 ELSE 0
        /\ \A i \in 1 .. Len(s) - (x.len + 1) + 1 : t[i] = s[(x.len + 1) + i - 1]
    <3>1. x.len + 1 \in Int /\ Len(s) \in Int
      BY <1>1, <1>2
    <3> HIDE DEF s, x
    <3> QED BY <2>1, <3>1, SubSeqProperties
  <2> HIDE DEF s, t, x
  <2>3. Len(t) = Len(s) - x.len
    BY <1>1, <1>2, <1>3, <2>2
  <2>4. \A i \in 1..Len(t) : (x.len + 1) + i - 1 = x.len + i /\ i \in 1 .. Len(s) - (x.len + 1) + 1
    BY <1>1, <1>2, <2>3
  <2> QED BY <2>2, <2>3, <2>4
<1> HIDE DEF t
<1>5. /\ y.pc = "r_tail" /\ y.live = x.live /\ y.seq = x.seq /\ y.len = x.len
      /\ y.view = x.view /\ y.start = x.start /\ y.tail = t
  BY <1>0 DEF ReaderType
<1>6. x.start \subseteq acked /\ \A f \in x.start : f \in x.view \/ In(f, x.seq)
  BY <1>0 DEF StartOk, Opening
<1> HIDE DEF x, y
<1>7. ViewOk(y)
  BY <1>0, <1>3, <1>5 DEF ViewOk
<1>8. TailOk(y)
  <2> SUFFICES ASSUME NEW i \in 1..Len(t)
               PROVE  /\ t[i].attr <= manifest.attrs
                      /\ i < Len(t) => Whole(t[i])
                      /\ x.len + i <= Len(s) /\ s[x.len + i] = t[i]
    BY <1>5 DEF TailOk
  <2>1. x.len + i \in 1..Len(s) /\ (i < Len(t) => x.len + i < Len(s)) /\ x.len + i <= Len(s)
    <3> HIDE DEF s
    <3> QED BY <1>1, <1>2, <1>3, <1>4
  <2>2. t[i] = s[x.len + i]
    BY <1>4
  <2> QED BY <1>2, <2>1, <2>2
<1>9. ASSUME NEW f \in x.start, f \notin x.view
      PROVE  Whole(f) /\ \E i \in 1..Len(t) : t[i] = f
  <2>1. In(f, x.seq)
    BY <1>6, <1>9
  <2>2. PICK j \in 1..Len(s) : s[j] = f
    BY <2>1 DEF In
  <2>3. ~(j \in 1..x.len)
    BY <1>1, <1>3, <1>9, <2>2, PrefixMember
  <2>4. j - x.len \in 1..Len(t) /\ x.len + (j - x.len) = j
    <3> HIDE DEF s
    <3> QED BY <1>1, <1>2, <1>3, <1>4, <2>3
  <2>5. t[j - x.len] = f
    BY <1>4, <2>2, <2>4
  <2> QED BY <2>1, <2>4, <2>5 DEF In
<1>10. StartOk(y)
  BY <1>5, <1>6, <1>9 DEF StartOk, Opening
<1> QED BY <1>0, <1>7, <1>8, <1>10, SetHandle

\* What the walk over a tail keeps.
LEMMA TailWalk ==
  ASSUME NEW x \in ReaderType, x.pc = "r_tail", TailOk(x)
  PROVE  /\ Len(Valid(x.tail)) \in Nat /\ Len(Valid(x.tail)) <= Len(x.tail)
         /\ \A i \in 1..Len(Valid(x.tail)) : /\ i \in 1..Len(x.tail)
                                             /\ Valid(x.tail)[i] = x.tail[i] /\ Whole(x.tail[i])
         /\ \A i \in 1..Len(x.tail) : Whole(x.tail[i]) => i \in 1..Len(Valid(x.tail))
<1> DEFINE t == x.tail
           v == ValidLen(t)
<1>1. t \in Seq(Frame) /\ Len(t) \in Nat
  BY HandleType
<1>2. \A j \in 1..Len(t) : j < Len(t) => Whole(t[j])
  BY DEF TailOk
<1>3. /\ Len(Valid(t)) = v /\ v \in 0..Len(t)
      /\ \A j \in 1..v : Valid(t)[j] = t[j] /\ Whole(t[j])
      /\ \A j \in 1..Len(t) : Whole(t[j]) <=> j <= v
  BY <1>1, <1>2, ValidFacts, ValidLenTail
<1> HIDE DEF t, v
<1>4. v \in Nat /\ v <= Len(t) /\ (\A i \in 1..v : i \in 1..Len(t))
      /\ (\A i \in 1..Len(t) : Whole(t[i]) => i \in 1..v)
  BY <1>1, <1>3
<1>5. /\ Len(Valid(t)) \in Nat /\ Len(Valid(t)) <= Len(t)
      /\ \A i \in 1..Len(Valid(t)) : i \in 1..Len(t) /\ Valid(t)[i] = t[i] /\ Whole(t[i])
      /\ \A i \in 1..Len(t) : Whole(t[i]) => i \in 1..Len(Valid(t))
  BY <1>3, <1>4
<1> QED BY <1>5 DEF t

LEMMA AdvanceHandle ==
  ASSUME HInv, NEW r \in Readers, RefreshAdvance(r)
  PROVE  HandleInv'
<1> DEFINE x == rd[r]
           t == x.tail
           s == files[x.seq]
           v == Len(Valid(t))
           len == x.len + v
           view == x.view \cup Elems(Valid(t))
           z == [x EXCEPT !.attrs = FreshAttrs(r), !.len = len, !.view = view]
           y == Done(z, "open")
<1>0. /\ x \in ReaderType /\ ViewOk(x) /\ TailOk(x) /\ StartOk(x) /\ SInv
      /\ x.pc = "r_tail" /\ UNCHANGED NotReader /\ Set(r, y)
  BY DEF HInv, RInv, HandleInv, ReaderTypeOK, RefreshAdvance
<1>1. x.seq \in Segs /\ x.seq \in Nat /\ x.len \in Nat /\ Len(s) \in Nat
  BY <1>0, HandleType, SegFacts
<1>2. /\ x.live /\ x.len <= Len(s) /\ x.view = Prefix(x.seq, x.len) /\ x.seq <= N
      /\ \A j \in 1..x.len : Whole(s[j])
  BY <1>0 DEF ViewOk
<1>3. /\ v \in Nat
      /\ \A i \in 1..v : i \in 1..Len(t) /\ Valid(t)[i] = t[i] /\ Whole(t[i])
      /\ \A i \in 1..Len(t) : Whole(t[i]) => i \in 1..v
  BY <1>0, TailWalk
<1>4. \A i \in 1..v : x.len + i <= Len(s) /\ s[x.len + i] = t[i]
  BY <1>0, <1>3 DEF TailOk
<1> HIDE DEF v
<1>5. len \in Nat /\ len <= Len(s)
  <2>1. CASE v = 0
    BY <1>1, <1>2, <2>1
  <2>2. CASE v # 0
    <3>1. v \in 1..v
      BY <1>3, <2>2
    <3> QED BY <1>1, <1>3, <1>4, <3>1
  <2> QED BY <2>1, <2>2
<1>6. \A j \in 1..len : j \in 1..x.len \/ (j - x.len \in 1..v /\ x.len + (j - x.len) = j)
  BY <1>1, <1>3
<1>7. \A j \in 1..len : Whole(s[j])
  <2> SUFFICES ASSUME NEW j \in 1..len PROVE Whole(s[j])
    OBVIOUS
  <2>1. CASE j \in 1..x.len
    BY <1>2, <2>1
  <2>2. CASE j - x.len \in 1..v /\ x.len + (j - x.len) = j
    <3>1. s[j] = t[j - x.len] /\ Whole(t[j - x.len])
      BY <1>3, <1>4, <2>2
    <3> QED BY <3>1
  <2> QED BY <1>6, <2>1, <2>2
<1>8. view = Prefix(x.seq, len)
  <2>1. ASSUME NEW f \in view PROVE f \in Prefix(x.seq, len)
    <3>1. CASE f \in x.view
      <4>1. CASE \E i \in 0..x.seq - 1 : \E j \in 1..Len(files[i]) : f = files[i][j]
        BY <1>1, <1>5, <4>1, PrefixMember
      <4>2. CASE \E j \in 1..x.len : f = s[j]
        <5>1. PICK j \in 1..x.len : f = s[j]
          BY <4>2
        <5>2. j \in 1..len
          BY <1>1, <1>3
        <5> QED BY <1>1, <1>5, <5>1, <5>2, PrefixMember
      <4> QED BY <1>1, <1>2, <3>1, <4>1, <4>2, PrefixMember
    <3>2. CASE f \in Elems(Valid(t))
      <4>1. PICK i \in 1..v : f = Valid(t)[i]
        BY <3>2 DEF Elems, v
      <4>2. f = s[x.len + i]
        BY <1>3, <1>4, <4>1
      <4>3. x.len + i \in 1..len
        BY <1>1, <1>3
      <4> QED BY <1>1, <1>5, <4>2, <4>3, PrefixMember
    <3> QED BY <2>1, <3>1, <3>2
  <2>2. ASSUME NEW f \in Prefix(x.seq, len) PROVE f \in view
    <3>1. CASE \E i \in 0..x.seq - 1 : \E j \in 1..Len(files[i]) : f = files[i][j]
      <4>1. f \in x.view
        BY <1>1, <1>2, <3>1, PrefixMember
      <4> QED BY <4>1
    <3>2. CASE \E j \in 1..len : f = s[j]
      <4>1. PICK j \in 1..len : f = s[j]
        BY <3>2
      <4>2. CASE j \in 1..x.len
        <5>1. f \in x.view
          BY <1>1, <1>2, <4>1, <4>2, PrefixMember
        <5> QED BY <5>1
      <4>3. CASE j - x.len \in 1..v /\ x.len + (j - x.len) = j
        <5>1. f = Valid(t)[j - x.len]
          BY <1>3, <1>4, <4>1, <4>3
        <5>2. f \in Elems(Valid(t))
          BY <4>3, <5>1 DEF Elems, v
        <5> QED BY <5>2
      <4> QED BY <1>6, <4>2, <4>3
    <3> QED BY <1>1, <1>5, <2>2, <3>1, <3>2, PrefixMember
  <2> QED BY <2>1, <2>2
<1>9. x.start \subseteq view
  <2> SUFFICES ASSUME NEW f \in x.start, f \notin x.view PROVE f \in Elems(Valid(t))
    OBVIOUS
  <2>1. PICK i \in 1..Len(t) : t[i] = f /\ Whole(f)
    BY <1>0 DEF StartOk, Opening
  <2>2. i \in 1..v
    BY <1>3, <2>1
  <2>3. f = Valid(t)[i]
    BY <1>3, <2>1, <2>2
  <2> QED BY <2>2, <2>3 DEF Elems, v
<1> HIDE DEF view, len
<1>10. y.pc = "open" /\ y.live = x.live /\ y.seq = x.seq /\ y.len = len /\ y.view = view /\ y.start = x.start
  BY <1>0 DEF Done, ReaderType
<1>11. x.start \subseteq acked
  BY <1>0 DEF StartOk, Opening
<1> HIDE DEF x, y, z
<1>12. ViewOk(y)
  BY <1>2, <1>5, <1>7, <1>8, <1>10 DEF ViewOk
<1>13. TailOk(y)
  BY <1>10 DEF TailOk
<1>14. StartOk(y)
  BY <1>9, <1>10, <1>11 DEF StartOk, Opening
<1> QED BY <1>0, <1>12, <1>13, <1>14, SetHandle

-----------------------------------------------------------------------------
(* The inductive invariant of the readers *)

LEMMA InitRInv == Init => RInv
<1> SUFFICES ASSUME Init PROVE RInv
  OBVIOUS
<1>1. /\ files = [n \in Segs |-> <<>>] /\ N = 0 /\ head.active_seq = 0
      /\ rd = [r \in Readers |-> NoReader]
  BY DEF Init, N, NoHead
<1>2. HeadInv
  BY <1>1 DEF HeadInv
<1>3. AttrInv
  BY <1>1 DEF AttrInv
<1>4. HandleInv
  BY <1>1 DEF HandleInv, ViewOk, TailOk, StartOk, Opening, NoReader
<1> QED BY <1>2, <1>3, <1>4 DEF RInv

\* No file is synced beyond its end.
LEMMA SyncedLen ==
  ASSUME SInv, NEW n \in Segs
  PROVE  synced[n] <= Len(files[n])
<1>0. n \in Nat /\ N \in Nat /\ Active = files[N] /\ synced[n] \in Nat
  BY SegFacts, Basics DEF SInv, CleanTypeOK, StoreTypeOK
<1>1. CASE n < N
  <2>1. n + 1 \in 1..N /\ (n + 1) - 1 = n
    BY <1>0, <1>1
  <2>2. synced[n] = Len(files[n])
    BY <2>1 DEF SInv, SealedInv, SealedSeg
  <2> QED BY <1>0, <2>2
<1>2. CASE n = N
  BY <1>0, <1>2 DEF SInv, ActiveInv
<1>3. CASE n > N
  BY <1>3, EmptySeq DEF SInv, EmptyInv
<1> QED BY <1>0, <1>1, <1>2, <1>3

\* A power failure takes every handle, and no frame that stays is new to the manifest.
LEMMA PowerLossRInv == SInv /\ RInv /\ PowerLoss => RInv'
<1> SUFFICES ASSUME SInv, RInv, PowerLoss PROVE RInv'
  OBVIOUS
<1>0. /\ N \in Segs /\ Active = files[N] /\ manifest.attrs \in Nat
      /\ files \in [Segs -> Seq(Frame)] /\ synced \in [Segs -> Nat]
  BY Basics DEF SInv, CleanTypeOK, StoreTypeOK
<1>1. PICK more \in 0..MaxAppends, torn \in 0..1 :
        files' = [n \in Segs |-> Survive(files[n], synced[n], more, torn)]
  BY DEF PowerLoss
<1>2. manifest' = manifest /\ head' = head /\ wpc' = "closed" /\ rd' = [r \in Readers |-> NoReader]
  BY DEF PowerLoss, ForgetWriter, SInv, CleanTypeOK
<1>3. \A n \in Segs : synced[n] <= Len(files[n])
  BY SyncedLen
<1>4. ASSUME NEW n \in Segs
      PROVE  /\ files'[n] \in Seq(Frame) /\ Len(files'[n]) <= Len(files[n])
             /\ \A j \in 1..Len(files'[n]) : files'[n][j] = files[n][j] \/ files'[n][j] = Torn
  <2>1. files[n] \in Seq(Frame) /\ synced[n] \in Nat /\ more \in Nat /\ synced[n] <= Len(files[n])
    BY <1>0, <1>3, ConstantsAssumption
  <2>2. files'[n] = Survive(files[n], synced[n], more, torn)
    BY <1>1
  <2>3. PICK s, y, t : s = files[n] /\ y = synced[n] /\ t = Survive(s, y, more, torn)
    OBVIOUS
  <2>4. s \in Seq(Frame) /\ y \in Nat /\ more \in Nat /\ y <= Len(s)
    BY <2>1, <2>3
  <2>5. /\ t \in Seq(Frame) /\ Len(t) <= Len(s)
        /\ \A j \in 1..Len(t) : t[j] = s[j] \/ (t[j] = Torn /\ j = Len(t) /\ j > y)
    BY <2>3, <2>4, SurviveFacts
  <2>6. files'[n] = t
    BY <2>2, <2>3
  <2> QED BY <2>3, <2>5, <2>6
<1>5. HeadInv'
  <2>1. N' = N /\ Active' = files'[N]
    BY <1>2 DEF N, Active, ActiveSeq
  <2>2. ASSUME Active = <<>> PROVE files'[N] = <<>>
    <3>1. files'[N] \in Seq(Frame) /\ Len(files'[N]) <= 0
      BY <1>0, <1>4, <2>2, EmptySeq
    <3>2. Len(files'[N]) = 0
      BY <3>1
    <3> QED BY <3>1, <3>2, EmptySeq
  <2> QED BY <1>2, <2>1, <2>2 DEF RInv, HeadInv
<1>6. AttrInv'
  <2> SUFFICES ASSUME NEW n \in Segs, NEW j \in 1..Len(files'[n])
               PROVE  files'[n][j].attr <= manifest.attrs
    BY <1>2 DEF AttrInv
  <2>1. j \in 1..Len(files[n])
    <3>1. Len(files[n]) \in Nat /\ Len(files'[n]) \in Nat /\ Len(files'[n]) <= Len(files[n])
      BY <1>0, <1>4
    <3> QED BY <3>1
  <2>2. CASE files'[n][j] = files[n][j]
    BY <2>1, <2>2 DEF RInv, AttrInv
  <2>3. CASE files'[n][j] = Torn
    BY <1>0, <2>3 DEF Torn
  <2> QED BY <1>4, <2>2, <2>3
<1>7. HandleInv'
  BY <1>2 DEF HandleInv, ViewOk, TailOk, StartOk, Opening, NoReader
<1> QED BY <1>5, <1>6, <1>7 DEF RInv

LEMMA ReaderRInv == IInv /\ RInv /\ ReaderNext => RInv'
<1> SUFFICES ASSUME IInv, RInv, ReaderNext PROVE RInv'
  OBVIOUS
<1>0. HInv
  BY DEF HInv, IInv
<1>1. PICK r \in Readers :
        \/ ReaderLoadManifest(r) \/ ReaderStat(r) \/ ReaderGet(r)
        \/ ReaderCheckHead(r) \/ ReaderScanActive(r)
        \/ RefreshHead(r) \/ RefreshStat(r) \/ RefreshTail(r)
        \/ RefreshAdvance(r) \/ RefreshReopen(r)
  BY DEF ReaderNext
<1>2. UNCHANGED NotReader
  BY <1>1 DEF ReaderLoadManifest, ReaderStat, ReaderGet, ReaderCheckHead, ReaderScanActive,
       RefreshHead, RefreshStat, RefreshTail, RefreshAdvance, RefreshReopen
<1>3. HandleInv'
  BY <1>0, <1>1, LoadManifestHandle, StatHandle, CheckHeadHandle, ScanActiveHandle, RefreshHeadHandle,
     RefreshStatHandle, RefreshTailHandle, AdvanceHandle, ReopenHandle
<1>4. files' = files /\ manifest' = manifest /\ head' = head /\ wpc' = wpc
  BY <1>2 DEF NotReader, disk, writer
<1>5. HeadInv' /\ AttrInv'
  BY <1>4 DEF RInv, HeadInv, AttrInv, N, Active, ActiveSeq
<1> QED BY <1>3, <1>5 DEF RInv

LEMMA WriterRInv == IInv /\ RInv /\ (WriterNext \/ Crash) => RInv'
<1> SUFFICES ASSUME IInv, RInv, WriterNext \/ Crash PROVE RInv'
  OBVIOUS
<1>1. SInv /\ SInv' /\ ReaderTypeOK /\ ReaderSeq /\ HeadInv /\ AttrInv /\ HandleInv
  BY StoreStep DEF IInv, RInv
<1>2. Grown /\ AttrInv'
  BY <1>1, WriterGrows
<1>3. HeadInv'
  BY <1>1, WriterHead
<1>4. HandleInv'
  BY <1>1, <1>2, HandlesKept
<1> QED BY <1>2, <1>3, <1>4 DEF RInv

LEMMA StutterRInv == RInv /\ UNCHANGED vars => RInv'
<1> SUFFICES ASSUME RInv, UNCHANGED vars PROVE RInv'
  OBVIOUS
<1>1. files' = files /\ manifest' = manifest /\ head' = head /\ wpc' = wpc /\ rd' = rd /\ acked' = acked
  BY DEF vars
<1>2. HeadInv' /\ AttrInv'
  BY <1>1 DEF RInv, HeadInv, AttrInv, N, Active, ActiveSeq
<1>3. HandleInv'
  <2> SUFFICES ASSUME NEW r \in Readers
               PROVE  \E x : x = rd'[r] /\ ViewOk(x)' /\ TailOk(x)' /\ StartOk(x)'
    BY HandlePrimed
  <2>1. PICK x : x = rd[r]
    OBVIOUS
  <2>2. ViewOk(x) /\ TailOk(x) /\ StartOk(x)
    BY <2>1 DEF RInv, HandleInv
  <2>3. ViewOk(x)'
    BY <1>1, <2>2 DEF ViewOk, Prefix, N
  <2>4. TailOk(x)' /\ StartOk(x)'
    BY <1>1, <2>2 DEF TailOk, StartOk, Opening, In
  <2> QED BY <1>1, <2>1, <2>3, <2>4
<1> QED BY <1>2, <1>3 DEF RInv

LEMMA RInvStep == IInv /\ RInv /\ ~rewritten' /\ [Next]_vars => RInv'
<1> SUFFICES ASSUME IInv, RInv, ~rewritten', [Next]_vars PROVE RInv'
  OBVIOUS
<1>1. WriterNext \/ Crash \/ PowerLoss \/ ReaderNext \/ UNCHANGED vars
  BY FirstRewrite DEF Next
<1> QED BY <1>1, WriterRInv, PowerLossRInv, ReaderRInv, StutterRInv DEF IInv

Unread == ~rewritten => RInv

\* The readers' inductive invariant: HEAD lags only within a seal, the manifest knows every
\* attribute, every handle holds a prefix of the log, and each operation under way still can
\* find what was acknowledged before it began; all of it until a read-only open truncates a segment.
THEOREM ReaderInvariance == Spec => [](~rewritten => IInv /\ RInv)
<1>1. Init => Unread
  BY InitRInv DEF Unread
<1>2. (~rewritten => IInv) /\ Formed /\ Unread /\ [Next]_vars => Unread'
  BY RInvStep, StaysRewritten DEF Unread
<1>3. Spec => []Unread
  BY <1>1, <1>2, Invariance, FormInvariance, PTL DEF Spec
<1>4. Unread <=> (~rewritten => RInv)
  BY DEF Unread
<1> QED BY <1>3, <1>4, Invariance, PTL

\* "the read observes everything committed before it started": an open or a refresh_snapshot
\* that returned Ok holds every batch acknowledged before the call, for every interleaving of
\* its file reads with appends, seals and crashes of the writer, as long as no read-only open has
\* rewritten a segment.
THEOREM Freshness == Spec => []FreshAsOfStart
<1>1. RInv => FreshAsOfStart
  BY DEF RInv, HandleInv, StartOk, Opening, FreshAsOfStart
<1>2. rewritten => FreshAsOfStart
  BY DEF FreshAsOfStart
<1> QED BY <1>1, <1>2, ReaderInvariance, PTL

\* A refresh reads the tail before the manifest, so its registry names every attribute of the
\* frames it adds, also when those come from a segment that a read-only open has rewritten.
THEOREM Resolves == Spec => RefreshResolves
<1>1. ASSUME Formed, [Next]_vars, NEW r \in Readers, rd[r].pc = "r_tail", rd'[r].pc = "open",
             NEW f \in rd'[r].view \ rd[r].view
      PROVE  f.attr <= rd'[r].attrs
  <2>0. rd[r] \in ReaderType /\ rd[r].tail \in Seq(Known) /\ rd \in [Readers -> ReaderType]
    BY <1>1 DEF Formed, ReadersFormed, ReaderTypeOK
  <2>1. rd' # rd
    BY <1>1
  <2>2. ~(WriterNext \/ Crash \/ UNCHANGED vars)
    BY <2>1 DEF WriterNext, Crash, OpenScan, OpenHead, OpenRefused, PersistManifest, WriteStart,
         WriteEnd, SyncActive, PublishHead, SealActive, SaveManifest, SealMismatch, Roll, vars
  <2>3. ~PowerLoss
    BY <1>1 DEF PowerLoss, NoReader
  <2>4. PICK q \in Readers :
        \/ ReaderLoadManifest(q) \/ ReaderStat(q) \/ ReaderGet(q)
        \/ ReaderCheckHead(q) \/ ReaderScanActive(q)
        \/ RefreshHead(q) \/ RefreshStat(q) \/ RefreshTail(q)
        \/ RefreshAdvance(q) \/ RefreshReopen(q)
        \/ ReaderTruncate(q) \/ ReaderWrite(q)
        \/ ReaderGetHead(q) \/ ReaderTruncateHead(q) \/ ReaderWriteHead(q)
    BY <1>1, <2>2, <2>3 DEF Next, ReaderNext, ReaderRewrites
  <2>5. q = r
    <3>1. \E rec : Set(q, rec)
      BY <2>4 DEF ReaderLoadManifest, ReaderStat, ReaderGet, ReaderCheckHead, ReaderScanActive,
         RefreshHead, RefreshStat, RefreshTail, RefreshAdvance, RefreshReopen,
         ReaderTruncate, ReaderWrite, ReaderGetHead, ReaderTruncateHead, ReaderWriteHead
    <3> QED BY <1>1, <2>0, <3>1 DEF Set
  <2>6. RefreshAdvance(r) \/ RefreshReopen(r)
    BY <1>1, <2>4, <2>5 DEF ReaderLoadManifest, ReaderStat, ReaderGet, ReaderCheckHead,
       ReaderScanActive, RefreshHead, RefreshStat, RefreshTail,
       ReaderTruncate, ReaderWrite, ReaderGetHead, ReaderTruncateHead, ReaderWriteHead
  <2>7. CASE RefreshReopen(r)
    <3>1. rd'[r] = Done(rd[r], "reopen")
      BY <2>0, <2>7 DEF RefreshReopen, Set
    <3>2. rd'[r].pc = "reopen"
      BY <2>0, <3>1, DoneFields
    <3> QED BY <1>1, <3>2
  <2>8. CASE RefreshAdvance(r)
    <3> DEFINE x == rd[r]
               new == Elems(Valid(x.tail))
               len == x.len + Len(Valid(x.tail))
               z == [x EXCEPT !.attrs = manifest.attrs, !.len = len, !.view = x.view \cup new]
    <3>1. rd'[r] = Done(z, "open")
      BY <2>0, <2>8 DEF RefreshAdvance, Set, FreshAttrs
    <3> HIDE DEF new, len
    <3>2. rd'[r].attrs = manifest.attrs /\ rd'[r].view = x.view \cup new
      BY <2>0, <3>1 DEF Done, ReaderType
    <3>3. f \in new
      BY <1>1, <3>2
    <3>4. Valid(x.tail) \in Seq(Known)
      BY <2>0, ValidType
    <3>5. f \in Known
      BY <3>3, <3>4 DEF new, Elems
    <3> QED BY <3>2, <3>5 DEF Known
  <2> QED BY <2>6, <2>7, <2>8
<1>2. Formed /\ [Next]_vars =>
        [\A r \in Readers :
           rd[r].pc = "r_tail" /\ rd'[r].pc = "open" =>
             \A f \in rd'[r].view \ rd[r].view : f.attr <= rd'[r].attrs]_vars
  BY <1>1
<1> QED BY <1>2, FormInvariance, PTL DEF Spec, RefreshResolves

-----------------------------------------------------------------------------
(* A prefix of the log holds exactly the first transactions *)

\* The number of the first frame of segment n.
First(n) == IF n = 0 THEN 0 ELSE manifest.sealed[n].tx_max + 1

\* A segment's numbers continue those of the segment before it.
LEMMA FirstFacts ==
  ASSUME SInv
  PROVE  /\ \A n \in 0..N : First(n) \in Nat
         /\ \A n \in 0..N - 1 : First(n + 1) = First(n) + Len(files[n])
         /\ \A n \in 0..N : \A j \in 1..Len(files[n]) :
              Whole(files[n][j]) => files[n][j].tx = First(n) + j - 1
<1>0. /\ N \in Nat /\ manifest.sealed \in Seq(SealedType) /\ Active = files[N]
  BY Basics
<1>1. \A i \in 1..N : /\ manifest.sealed[i].tx_max \in Nat /\ manifest.sealed[i].tx_min \in Nat
                      /\ manifest.sealed[i].len \in Nat
  <2>1. \A i \in 1..N : manifest.sealed[i] \in SealedType
    BY <1>0 DEF N
  <2> QED BY <2>1 DEF SealedType
<1>2. \A n \in 0..N : First(n) \in Nat
  BY <1>0, <1>1 DEF First
<1>3. ASSUME NEW n \in 0..N - 1
      PROVE  /\ First(n + 1) = First(n) + Len(files[n])
             /\ \A j \in 1..Len(files[n]) : files[n][j].tx = First(n) + j - 1
  <2>1. /\ n \in 0..N /\ n + 1 \in 1..N /\ (n + 1) - 1 = n /\ n + 1 # 0
        /\ (n + 1 = 1 <=> n = 0)
    BY <1>0
  <2>2. PICK e : e = manifest.sealed[n + 1]
    OBVIOUS
  <2>3. SealedSeg(n + 1, e, IF n + 1 = 1 THEN 0 ELSE manifest.sealed[(n + 1) - 1].tx_max + 1,
                  files[(n + 1) - 1], synced[(n + 1) - 1])
    BY <2>1, <2>2 DEF SInv, SealedInv
  <2>4. (IF n + 1 = 1 THEN 0 ELSE manifest.sealed[(n + 1) - 1].tx_max + 1) = First(n)
    BY <2>1 DEF First
  <2>5. /\ e.len = Len(files[n]) /\ e.tx_min = First(n) /\ e.tx_max = e.tx_min + e.len - 1
        /\ \A j \in 1..e.len : files[n][j].tx = e.tx_min + j - 1
    BY <2>1, <2>3, <2>4 DEF SealedSeg
  <2>6. First(n + 1) = e.tx_max + 1
    BY <2>1, <2>2 DEF First
  <2>7. e.tx_max \in Nat /\ e.len \in Nat /\ First(n) \in Nat
    BY <1>1, <1>2, <2>1, <2>2
  <2> QED BY <2>5, <2>6, <2>7
<1>4. ASSUME NEW j \in 1..Len(files[N]), Whole(files[N][j])
      PROVE  files[N][j].tx = First(N) + j - 1
  <2>1. files[N][j].tx = Base + j
    BY <1>0, <1>4 DEF SInv, ActiveInv
  <2>2. Base = First(N) - 1
    <3>1. CASE N = 0
      <4>1. manifest.sealed = <<>>
        BY <1>0, <3>1, EmptySeq DEF N
      <4> QED BY <3>1, <4>1 DEF Base, SealedTxMax, First
    <3>2. CASE N # 0
      <4>1. manifest.sealed # <<>>
        BY <1>0, <3>2, EmptySeq DEF N
      <4>2. Base = manifest.sealed[N].tx_max /\ First(N) = manifest.sealed[N].tx_max + 1
        BY <3>2, <4>1 DEF Base, SealedTxMax, First, N
      <4>3. manifest.sealed[N].tx_max \in Nat
        BY <1>0, <1>1, <3>2
      <4> QED BY <4>2, <4>3
    <3> QED BY <3>1, <3>2
  <2>3. First(N) \in Nat /\ Len(files[N]) \in Nat
    BY <1>0, <1>2, Basics
  <2> QED BY <2>1, <2>2, <2>3
<1>5. ASSUME NEW n \in 0..N, NEW j \in 1..Len(files[n]), Whole(files[n][j])
      PROVE  files[n][j].tx = First(n) + j - 1
  <2>1. CASE n = N
    BY <1>4, <1>5, <2>1
  <2>2. CASE n # N
    <3>1. n \in 0..N - 1
      BY <1>0, <2>2
    <3> QED BY <1>3, <3>1
  <2> QED BY <2>1, <2>2
<1> QED BY <1>2, <1>3, <1>5

LEMMA FirstMonotone ==
  ASSUME SInv, NEW a \in 0..N, NEW b \in 0..N, a <= b
  PROVE  First(a) <= First(b)
<1> DEFINE T == {m \in 0..N : a <= m /\ First(m) < First(a)}
<1>0. N \in Nat
  BY Basics
<1>1. \A n \in 0..N : First(n) \in Nat
  BY FirstFacts
<1>2. CASE T = {}
  <2>1. ~(First(b) < First(a))
    BY <1>2
  <2> QED BY <1>1, <2>1
<1>3. CASE T # {}
  <2>1. PICK x \in T : \A y \in T : x <= y
    <3>1. T \subseteq Nat
      BY <1>0
    <3> HIDE DEF T
    <3> QED BY <1>3, <3>1, LeastNat
  <2>2. x \in 0..N /\ a <= x /\ First(x) < First(a) /\ x # a
    BY <1>1, <2>1
  <2>3. x - 1 \in 0..N /\ x - 1 \in 0..N - 1 /\ a <= x - 1 /\ (x - 1) + 1 = x /\ ~(x <= x - 1)
    BY <1>0, <2>2
  <2>4. ~(First(x - 1) < First(a))
    BY <2>1, <2>3
  <2>5. First(x) = First(x - 1) + Len(files[x - 1])
    BY <2>3, FirstFacts
  <2>6. Len(files[x - 1]) \in Nat
    <3>1. x - 1 \in Segs
      BY <1>0, <2>3, ConstantsAssumption DEF Segs, SInv
    <3> QED BY <3>1, SegFacts
  <2>7. First(x - 1) \in Nat /\ First(a) \in Nat
    BY <1>1, <2>3
  <2> QED BY <2>2, <2>4, <2>5, <2>6, <2>7
<1> QED BY <1>2, <1>3

\* f is frame j of segment i.
At(f, i, j) == i \in 0..N /\ j \in 1..Len(files[i]) /\ Whole(files[i][j]) /\ f = files[i][j]

LEMMA PrefixAt ==
  ASSUME SInv, NEW n \in 0..N, NEW k \in Nat, k <= Len(files[n]),
         \A j \in 1..k : Whole(files[n][j]), NEW f
  PROVE  f \in Prefix(n, k) <=> \E i, j : At(f, i, j) /\ (i < n \/ (i = n /\ j <= k))
<1>0. N \in Nat /\ n \in Nat /\ \A i \in 0..N : i \in Segs /\ Len(files[i]) \in Nat
  <2>1. N \in Nat /\ N <= MaxSegs
    BY Basics DEF SInv
  <2>2. \A i \in 0..N : i \in Segs
    BY <2>1, ConstantsAssumption DEF Segs
  <2> QED BY <2>1, <2>2, SegFacts
<1>1. ASSUME NEW i \in 0..n - 1, NEW j \in 1..Len(files[i]), f = files[i][j]
      PROVE  At(f, i, j) /\ i < n
  <2>1. i \in 0..N /\ i < n /\ i < N
    BY <1>0
  <2>2. Whole(files[i][j])
    BY <1>0, <2>1, SegFacts
  <2> QED BY <1>1, <2>1, <2>2 DEF At
<1>2. ASSUME NEW j \in 1..k, f = files[n][j] PROVE At(f, n, j) /\ j <= k
  <2>1. j \in 1..Len(files[n]) /\ j <= k
    BY <1>0
  <2> QED BY <1>2, <2>1 DEF At
<1>3. ASSUME NEW i, NEW j, At(f, i, j), i < n PROVE i \in 0..n - 1 /\ j \in 1..Len(files[i]) /\ f = files[i][j]
  BY <1>0, <1>3 DEF At
<1>4. ASSUME NEW j, At(f, n, j), j <= k PROVE j \in 1..k /\ f = files[n][j]
  BY <1>0, <1>4 DEF At
<1>5. ASSUME f \in Prefix(n, k) PROVE \E i, j : At(f, i, j) /\ (i < n \/ (i = n /\ j <= k))
  <2>1. CASE \E i \in 0..n - 1 : \E j \in 1..Len(files[i]) : f = files[i][j]
    BY <1>1, <2>1
  <2>2. CASE \E j \in 1..k : f = files[n][j]
    BY <1>2, <2>2
  <2> QED BY <1>0, <1>5, <2>1, <2>2, PrefixMember
<1>6. ASSUME NEW i, NEW j, At(f, i, j), i < n \/ (i = n /\ j <= k) PROVE f \in Prefix(n, k)
  <2>1. CASE i < n
    <3>1. i \in 0..n - 1 /\ j \in 1..Len(files[i]) /\ f = files[i][j]
      BY <1>3, <1>6, <2>1
    <3> QED BY <1>0, <3>1, PrefixMember
  <2>2. CASE i = n /\ j <= k
    <3>1. j \in 1..k /\ f = files[n][j]
      BY <1>4, <1>6, <2>2
    <3> QED BY <1>0, <3>1, PrefixMember
  <2> QED BY <1>6, <2>1, <2>2
<1> QED BY <1>5, <1>6

\* The log is every whole frame up to the active segment.
LEMMA LogAt ==
  ASSUME SInv, NEW f
  PROVE  f \in LogFrames <=> \E i, j : At(f, i, j)
<1> DEFINE k == Len(Valid(files[N]))
<1>0. N \in Nat /\ N \in Segs /\ N <= N /\ N \in 0..N /\ Active = files[N] /\ Len(files[N]) \in Nat
  BY Basics
<1>1. /\ SealedFrames(N) \cup Elems(Valid(files[N])) = Prefix(N, k)
      /\ k \in Nat /\ k <= Len(files[N])
      /\ \A j \in 1..k : Whole(files[N][j])
      /\ \A j \in 1..Len(files[N]) : Whole(files[N][j]) => j \in 1..k
  BY <1>0, ScanPrefix
<1>2. LogFrames = Prefix(N, k)
  BY <1>0, <1>1 DEF LogFrames, N
<1> HIDE DEF k
<1>3. f \in Prefix(N, k) <=> \E i, j : At(f, i, j) /\ (i < N \/ (i = N /\ j <= k))
  BY <1>0, <1>1, PrefixAt
<1>4. ASSUME NEW i, NEW j, At(f, i, j) PROVE i < N \/ (i = N /\ j <= k)
  <2>1. i \in 0..N /\ (i < N \/ i = N)
    BY <1>0, <1>4 DEF At
  <2>2. CASE i = N
    <3>1. j \in 1..k
      BY <1>1, <1>4, <2>2 DEF At
    <3>2. j <= k
      BY <1>1, <3>1
    <3> QED BY <2>2, <3>2
  <2> QED BY <2>1, <2>2
<1> QED BY <1>2, <1>3, <1>4

\* Where a number is in the log.
LEMMA AtTx ==
  ASSUME SInv, NEW f, NEW i, NEW j, At(f, i, j)
  PROVE  /\ f.tx = First(i) + j - 1 /\ f.tx \in Nat /\ First(i) \in Nat /\ j \in Nat \ {0}
         /\ i \in Nat /\ First(i) <= f.tx
         /\ i < N => f.tx < First(i + 1)
<1>0. /\ N \in Nat /\ i \in 0..N /\ j \in 1..Len(files[i]) /\ Whole(files[i][j]) /\ f = files[i][j]
  BY Basics DEF At
<1>1. f.tx = First(i) + j - 1 /\ First(i) \in Nat
  BY <1>0, FirstFacts
<1>2. Len(files[i]) \in Nat
  <2>1. i \in Segs
    BY <1>0, ConstantsAssumption DEF Segs, SInv
  <2> QED BY <2>1, SegFacts
<1>3. i < N => First(i + 1) = First(i) + Len(files[i])
  <2>1. i < N => i \in 0..N - 1
    BY <1>0
  <2> QED BY <2>1, FirstFacts
<1> QED BY <1>0, <1>1, <1>2, <1>3

\* Two places with the same number are the same place.
LEMMA AtUnique ==
  ASSUME SInv, NEW f, NEW g, NEW i, NEW j, NEW m, NEW l, At(f, i, j), At(g, m, l), f.tx = g.tx
  PROVE  f = g
<1>0. /\ f.tx = First(i) + j - 1 /\ f.tx \in Nat /\ First(i) \in Nat /\ j \in Nat
      /\ i \in Nat /\ First(i) <= f.tx /\ (i < N => f.tx < First(i + 1))
  BY AtTx
<1>1. /\ g.tx = First(m) + l - 1 /\ g.tx \in Nat /\ First(m) \in Nat /\ l \in Nat
      /\ m \in Nat /\ First(m) <= g.tx /\ (m < N => g.tx < First(m + 1))
  BY AtTx
<1>2. N \in Nat /\ i \in 0..N /\ m \in 0..N
  BY Basics DEF At
<1>3. ASSUME i < m PROVE FALSE
  <2>1. i < N /\ i + 1 \in 0..N /\ i + 1 <= m
    BY <1>2, <1>3
  <2>2. First(i + 1) <= First(m) /\ First(i + 1) \in Nat
    BY <1>2, <2>1, FirstMonotone, FirstFacts
  <2> QED BY <1>0, <1>1, <2>1, <2>2
<1>4. ASSUME m < i PROVE FALSE
  <2>1. m < N /\ m + 1 \in 0..N /\ m + 1 <= i
    BY <1>2, <1>4
  <2>2. First(m + 1) <= First(i) /\ First(m + 1) \in Nat
    BY <1>2, <2>1, FirstMonotone, FirstFacts
  <2> QED BY <1>0, <1>1, <2>1, <2>2
<1>5. i = m
  BY <1>2, <1>3, <1>4
<1>6. j = l
  <2>1. PICK a : a = First(i)
    OBVIOUS
  <2>2. a + j - 1 = a + l - 1 /\ a \in Nat
    BY <1>0, <1>1, <1>5, <2>1
  <2> QED BY <1>0, <1>1, <2>2
<1> QED BY <1>5, <1>6 DEF At

\* Every number below the end of a prefix is there.
LEMMA AtExists ==
  ASSUME SInv, NEW n \in 0..N, NEW k \in Nat, k <= Len(files[n]),
         \A j \in 1..k : Whole(files[n][j]), NEW t \in 0..First(n) + k - 1
  PROVE  \E f \in Prefix(n, k) : f.tx = t
<1>0. /\ N \in Nat /\ \A i \in 0..N : i \in Segs /\ Len(files[i]) \in Nat /\ First(i) \in Nat
  <2>1. N \in Nat /\ N <= MaxSegs
    BY Basics DEF SInv
  <2>2. \A i \in 0..N : i \in Segs
    BY <2>1, ConstantsAssumption DEF Segs
  <2> QED BY <2>1, <2>2, SegFacts, FirstFacts
<1>1. CASE First(n) <= t
  <2>1. PICK j : j = t - First(n) + 1
    OBVIOUS
  <2>2. j \in 1..k /\ j \in 1..Len(files[n]) /\ j <= k /\ First(n) + j - 1 = t
    BY <1>0, <1>1, <2>1
  <2>3. At(files[n][j], n, j)
    BY <2>2 DEF At
  <2>4. files[n][j] \in Prefix(n, k)
    BY <2>2, <2>3, PrefixAt
  <2>5. files[n][j].tx = t
    BY <2>2, <2>3, AtTx
  <2> QED BY <2>4, <2>5
<1>2. CASE ~(First(n) <= t)
  <2> DEFINE T == {m \in 0..n : t < First(m)}
  <2>1. n \in T /\ T \subseteq Nat
    BY <1>0, <1>2
  <2>2. PICK m \in T : \A y \in T : m <= y
    <3> HIDE DEF T
    <3> QED BY <2>1, LeastNat
  <2>3. m \in 0..n /\ t < First(m) /\ m # 0
    BY <2>2 DEF First
  <2>4. PICK i : i = m - 1
    OBVIOUS
  <2>5. i \in 0..n /\ i \in 0..N /\ i \in 0..N - 1 /\ i < n /\ i + 1 = m /\ ~(m <= i)
    BY <1>0, <2>3, <2>4
  <2>6. ~(t < First(i))
    BY <2>2, <2>5
  <2>7. First(m) = First(i) + Len(files[i])
    BY <2>5, FirstFacts
  <2>8. PICK j : j = t - First(i) + 1
    OBVIOUS
  <2>9. First(i) \in Nat /\ Len(files[i]) \in Nat
    BY <1>0, <2>5
  <2>10. j \in 1..Len(files[i]) /\ First(i) + j - 1 = t
    BY <2>3, <2>6, <2>7, <2>8, <2>9
  <2>11. Whole(files[i][j])
    <3>1. i < N
      BY <1>0, <2>5
    <3> QED BY <1>0, <2>5, <2>10, <3>1, SegFacts
  <2>12. At(files[i][j], i, j)
    BY <2>5, <2>10, <2>11 DEF At
  <2>13. files[i][j] \in Prefix(n, k)
    BY <2>5, <2>12, PrefixAt
  <2>14. files[i][j].tx = t
    BY <2>10, <2>12, AtTx
  <2> QED BY <2>13, <2>14
<1> QED BY <1>1, <1>2

LEMMA PrefixCount ==
  ASSUME SInv, NEW n \in 0..N, NEW k \in Nat, k <= Len(files[n]),
         \A j \in 1..k : Whole(files[n][j])
  PROVE  /\ First(n) + k \in Nat
         /\ Cardinality(Prefix(n, k)) = First(n) + k
         /\ Prefix(n, k) = {f \in LogFrames : f.tx < First(n) + k}
<1> DEFINE P == Prefix(n, k)
           c == First(n) + k
<1>0. N \in Nat /\ First(n) \in Nat /\ c \in Nat
  BY Basics, FirstFacts
<1>1. ASSUME NEW f \in P PROVE f \in LogFrames /\ f.tx \in Nat /\ f.tx < c
  <2>1. PICK i, j : At(f, i, j) /\ (i < n \/ (i = n /\ j <= k))
    BY <1>1, PrefixAt
  <2>2. f \in LogFrames
    BY <2>1, LogAt
  <2>3. /\ f.tx = First(i) + j - 1 /\ f.tx \in Nat /\ First(i) \in Nat /\ j \in Nat
        /\ i \in Nat /\ (i < N => f.tx < First(i + 1))
    BY <2>1, AtTx
  <2>4. CASE i < n
    <3>1. i < N /\ i + 1 \in 0..N /\ i + 1 <= n
      BY <1>0, <2>3, <2>4
    <3>2. First(i + 1) <= First(n) /\ First(i + 1) \in Nat
      BY <3>1, FirstMonotone, FirstFacts
    <3> QED BY <1>0, <2>2, <2>3, <3>1, <3>2
  <2>5. CASE i = n /\ j <= k
    BY <1>0, <2>2, <2>3, <2>5
  <2> QED BY <2>1, <2>4, <2>5
<1>2. ASSUME NEW f \in LogFrames, f.tx < c PROVE f \in P
  <2>1. PICK i, j : At(f, i, j)
    BY <1>2, LogAt
  <2>2. /\ f.tx = First(i) + j - 1 /\ f.tx \in Nat /\ First(i) \in Nat /\ j \in Nat
        /\ i \in Nat /\ First(i) <= f.tx /\ i \in 0..N
    BY <2>1, AtTx DEF At
  <2>3. CASE i > n
    <3>1. n \in 0..N - 1 /\ n + 1 \in 0..N /\ n + 1 <= i
      BY <1>0, <2>2, <2>3
    <3>2. First(n + 1) = First(n) + Len(files[n]) /\ First(n + 1) <= First(i)
      BY <2>2, <3>1, FirstMonotone, FirstFacts
    <3>3. Len(files[n]) \in Nat
      <4>1. n \in Segs
        BY <1>0, ConstantsAssumption DEF Segs, SInv
      <4> QED BY <4>1, SegFacts
    <3> QED BY <1>0, <1>2, <2>2, <3>2, <3>3
  <2>4. CASE i = n
    <3>1. j <= k
      BY <1>0, <1>2, <2>2, <2>4
    <3> QED BY <2>1, <2>4, <3>1, PrefixAt
  <2>5. CASE i < n
    BY <2>1, <2>5, PrefixAt
  <2> QED BY <1>0, <2>2, <2>3, <2>4, <2>5
<1>3. P = {f \in LogFrames : f.tx < c}
  BY <1>1, <1>2
<1>4. ASSUME NEW f \in P, NEW g \in P, f.tx = g.tx PROVE f = g
  <2>1. PICK i, j : At(f, i, j)
    BY <1>4, PrefixAt
  <2>2. PICK m, l : At(g, m, l)
    BY <1>4, PrefixAt
  <2> QED BY <1>4, <2>1, <2>2, AtUnique
<1>5. ASSUME NEW t \in 0..c - 1 PROVE \E f \in P : f.tx = t
  <2>1. t \in 0..First(n) + k - 1
    BY <1>0, <1>5
  <2> QED BY <2>1, AtExists
<1> HIDE DEF P, c
<1>6. Cardinality(P) = c
  <2> DEFINE h == [t \in 1..c |-> CHOOSE f \in P : f.tx = t - 1]
  <2>1. \A t \in 1..c : h[t] \in P /\ h[t].tx = t - 1
    <3> SUFFICES ASSUME NEW t \in 1..c PROVE h[t] \in P /\ h[t].tx = t - 1
      OBVIOUS
    <3>1. t - 1 \in 0..c - 1
      BY <1>0
    <3>2. \E f \in P : f.tx = t - 1
      BY <1>5, <3>1
    <3> QED BY <3>2
  <2>2. DOMAIN h = 1..c /\ h = [t \in 1..c |-> h[t]]
    OBVIOUS
  <2> HIDE DEF h
  <2>3. h \in [1..c -> P]
    BY <2>1, <2>2
  <2>4. ASSUME NEW a \in 1..c, NEW b \in 1..c, h[a] = h[b] PROVE a = b
    <3>1. a - 1 = b - 1
      BY <2>1, <2>4
    <3> QED BY <1>0, <3>1
  <2>5. \A f \in P : \E t \in 1..c : h[t] = f
    <3> SUFFICES ASSUME NEW f \in P PROVE \E t \in 1..c : h[t] = f
      OBVIOUS
    <3>1. f.tx + 1 \in 1..c /\ (f.tx + 1) - 1 = f.tx
      BY <1>0, <1>1 DEF P, c
    <3>2. h[f.tx + 1] \in P /\ h[f.tx + 1].tx = f.tx
      BY <2>1, <3>1
    <3>3. h[f.tx + 1] = f
      BY <1>4, <3>2
    <3> QED BY <3>1, <3>3
  <2>6. h \in Bijection(1..c, P)
    BY <2>3, <2>4, <2>5 DEF Bijection, Injection, Surjection, IsInjective
  <2>7. ExistsBijection(1..c, P)
    BY <2>6 DEF ExistsBijection
  <2> QED BY <1>0, <2>7, FS_CountingElements
<1> QED BY <1>0, <1>3, <1>6 DEF P, c

\* A reader never shows a torn frame, never skips a batch and never keeps one that recovery
\* has dropped: what it holds is the frames of the log below some number, for every number of
\* appends, seals, crashes and refreshes, as long as no read-only open has rewritten a segment.
THEOREM PrefixRead == Spec => []ReaderPrefix
<1>1. ASSUME IInv, RInv PROVE ReaderPrefix
  <2> SUFFICES ASSUME NEW r \in Readers, rd[r].live
               PROVE  rd[r].view = {f \in LogFrames : f.tx < Cardinality(rd[r].view)}
    BY DEF ReaderPrefix
  <2>1. PICK x : x = rd[r]
    OBVIOUS
  <2>2. x \in ReaderType /\ ViewOk(x) /\ x.live
    BY <1>1, <2>1 DEF IInv, ReaderTypeOK, RInv, HandleInv
  <2>3. /\ x.seq \in Nat /\ x.len \in Nat /\ x.seq <= N /\ x.len <= Len(files[x.seq])
        /\ \A j \in 1..x.len : Whole(files[x.seq][j])
        /\ x.view = Prefix(x.seq, x.len)
    BY <2>2, HandleType DEF ViewOk
  <2>4. SInv /\ N \in Nat
    BY <1>1, Basics DEF IInv
  <2>5. x.seq \in 0..N
    BY <2>3, <2>4
  <2>6. /\ Cardinality(x.view) = First(x.seq) + x.len
        /\ x.view = {f \in LogFrames : f.tx < First(x.seq) + x.len}
    BY <2>3, <2>4, <2>5, PrefixCount
  <2>7. x.view = {f \in LogFrames : f.tx < Cardinality(x.view)}
    BY <2>6
  <2> QED BY <2>1, <2>7
<1>2. rewritten => ReaderPrefix
  BY DEF ReaderPrefix
<1> QED BY <1>1, <1>2, ReaderInvariance, PTL

-----------------------------------------------------------------------------
(* The store implements the log *)

\* Every number handed out belongs to an append that was started.
BoundInv ==
  /\ attempts <= MaxAppends /\ manifest.attrs <= MaxAttrs
  /\ Base + 1 + Len(Active) <= attempts

\* One append acknowledges one batch.
PendingOne == \A f \in pending : pending = {f}

\* A reopen never goes back behind the segment the handle was at.
ReopenInv ==
  \A r \in Readers : /\ rd[r].live /\ rd[r].pc \in Opening => rd[r].seq <= rd[r].mseq
                     /\ ~rd[r].live => rd[r].view = {}

\* What the refinement needs beside IInv and RInv.
MInv == BoundInv /\ PendingOne /\ ReopenInv

LEMMA InitMInv == Init => MInv
  BY ConstantsAssumption DEF Init, MInv, BoundInv, PendingOne, ReopenInv, NoReader, Base, SealedTxMax,
     Active, ActiveSeq, Segs, Opening

LEMMA BaseInt == SInv => Base \in Int
  BY Basics

LEMMA WriterBound == SInv /\ SInv' /\ BoundInv /\ (WriterNext \/ Crash) => BoundInv'
<1> SUFFICES ASSUME SInv, SInv', BoundInv, WriterNext \/ Crash PROVE BoundInv'
  OBVIOUS
<1>0. /\ N \in Nat /\ N \in Segs /\ Active = files[N] /\ Active \in Seq(Frame) /\ Len(Active) \in Nat
      /\ Base \in Int /\ manifest \in [sealed : Seq(SealedType), attrs : Nat]
      /\ ActiveSeq(manifest) = N
  BY Basics
<1>1. /\ attempts \in Nat /\ files \in [Segs -> Seq(Frame)] /\ manifest.attrs \in Nat
  BY DEF SInv, CleanTypeOK, StoreTypeOK
<1>2. CASE OpenScan
  <2>1. \A j \in 1..Len(files[N]) : j < Len(files[N]) => Whole(files[N][j])
    BY <1>0, SegFacts
  <2>2. Len(Valid(files[N])) = ValidLen(files[N]) /\ ValidLen(files[N]) \in 0..Len(files[N])
    BY <1>0, <2>1, ValidFacts
  <2>3. files' = [files EXCEPT ![N] = Valid(files[N])] /\ manifest' = manifest /\ attempts' = attempts
    BY <1>0, <1>2 DEF OpenScan, Recovered
  <2>4. Base' = Base /\ Active' = Valid(files[N])
    BY <1>0, <1>1, <2>3 DEF Base, Active, ActiveSeq, N
  <2> QED BY <1>0, <1>1, <2>2, <2>3, <2>4 DEF BoundInv
<1>3. CASE WriteStart
  <2>1. mhead.active_seq = N
    BY <1>3 DEF SInv, WriterInv, WriteStart, InStep
  <2>2. files' = [files EXCEPT ![N] = Append(Active, Torn)] /\ manifest' = manifest /\ attempts' = attempts + 1
    BY <1>0, <1>3, <2>1 DEF WriteStart
  <2>3. Base' = Base /\ Active' = Append(Active, Torn)
    BY <1>0, <1>1, <2>2 DEF Base, Active, ActiveSeq, N
  <2>4. Len(Append(Active, Torn)) = Len(Active) + 1
    BY <1>0, TornType, AppendProperties
  <2>5. attempts < MaxAppends
    BY <1>3 DEF WriteStart
  <2> QED BY <1>0, <1>1, <2>2, <2>3, <2>4, <2>5, ConstantsAssumption DEF BoundInv
<1>4. CASE WriteEnd
  <2>1. mhead.active_seq = N
    BY <1>4 DEF SInv, WriterInv, WriteEnd
  <2>2. /\ files' = [files EXCEPT ![N] = [Active EXCEPT ![Len(Active)] = NewFrame]]
        /\ manifest' = manifest /\ attempts' = attempts
    BY <1>0, <1>4, <2>1 DEF WriteEnd, SInv, CleanTypeOK
  <2>3. Base' = Base /\ Active' = [Active EXCEPT ![Len(Active)] = NewFrame]
    BY <1>0, <1>1, <2>2 DEF Base, Active, ActiveSeq, N
  <2>4. Len(Active') = Len(Active)
    BY <1>0, <2>3
  <2> QED BY <1>0, <1>1, <2>2, <2>3, <2>4 DEF BoundInv
<1>5. CASE SaveManifest
  <2>1. /\ files' = files /\ next_tx' = next_tx /\ attempts' = attempts /\ wpc' = "manifested"
        /\ manifest'.attrs = manifest.attrs
    BY <1>0, <1>5 DEF SaveManifest
  <2>2. next_tx = Base + 1 + Len(Active)
    BY <1>5 DEF SaveManifest, SInv, WriterInv, InStep
  <2>3. next_tx' = Base' + 1 /\ Active' = <<>>
    BY <2>1 DEF SInv, WriterInv
  <2>4. (SInv => Base \in Int)'
    BY BaseInt, PTL
  <2>5. PICK b : b = Base'
    OBVIOUS
  <2>6. b \in Int /\ b + 1 = Base + 1 + Len(Active)
    BY <2>1, <2>2, <2>3, <2>4, <2>5
  <2>7. Base' + 1 + Len(Active') = Base + 1 + Len(Active)
    BY <2>3, <2>5, <2>6, EmptySeq
  <2> QED BY <2>1, <2>7 DEF BoundInv
<1>6. CASE PersistManifest
  <2>1. /\ manifest'.sealed = manifest.sealed /\ manifest'.attrs = manifest.attrs + 1
        /\ files' = files /\ attempts' = attempts /\ manifest.attrs < MaxAttrs
    BY <1>0, <1>6 DEF PersistManifest
  <2>2. Base' = Base /\ Active' = Active
    BY <2>1 DEF Base, Active, ActiveSeq, SealedTxMax
  <2> QED BY <1>1, <2>1, <2>2, ConstantsAssumption DEF BoundInv
<1>7. CASE OpenHead \/ OpenRefused \/ SyncActive \/ PublishHead \/ SealActive \/ Roll \/ Crash
  <2>1. files' = files /\ manifest' = manifest /\ attempts' = attempts
    BY <1>7 DEF OpenHead, OpenRefused, SyncActive, PublishHead, SealActive, Roll, Crash, disk
  <2> QED BY <2>1 DEF BoundInv, Base, Active, ActiveSeq
<1> QED BY <1>2, <1>3, <1>4, <1>5, <1>6, <1>7, NoMismatch DEF WriterNext

LEMMA WriterMInv == SInv /\ SInv' /\ MInv /\ (WriterNext \/ Crash) => MInv'
<1> SUFFICES ASSUME SInv, SInv', MInv, WriterNext \/ Crash PROVE MInv'
  OBVIOUS
<1>1. BoundInv'
  BY WriterBound DEF MInv
<1>2. pending' = pending \/ pending' = {} \/ pending' = {NewFrame}
  BY DEF WriterNext, Crash, OpenScan, OpenHead, OpenRefused, PersistManifest, WriteStart,
         WriteEnd, SyncActive, PublishHead, SealActive, SaveManifest, SealMismatch, Roll, ForgetWriter
<1>3. PendingOne'
  BY <1>2 DEF MInv, PendingOne
<1>4. rd' = rd
  BY DEF WriterNext, Crash, OpenScan, OpenHead, OpenRefused, PersistManifest, WriteStart,
         WriteEnd, SyncActive, PublishHead, SealActive, SaveManifest, SealMismatch, Roll
<1>5. ReopenInv'
  BY <1>4 DEF MInv, ReopenInv
<1> QED BY <1>1, <1>3, <1>5 DEF MInv

\* What a power failure leaves is a part of what was there.
NoNew ==
  \A n \in Segs : \A j \in 1..Len(files'[n]) :
    Whole(files'[n][j]) => j \in 1..Len(files[n]) /\ files'[n][j] = files[n][j]

LEMMA PowerLossFiles ==
  ASSUME SInv, PowerLoss
  PROVE  NoNew /\ Len(files'[N]) \in Nat /\ Len(files'[N]) <= Len(files[N])
<1>0. /\ N \in Segs /\ Active = files[N]
      /\ files \in [Segs -> Seq(Frame)] /\ synced \in [Segs -> Nat]
  BY Basics DEF SInv, CleanTypeOK, StoreTypeOK
<1>1. PICK more \in 0..MaxAppends, torn \in 0..1 :
        files' = [n \in Segs |-> Survive(files[n], synced[n], more, torn)]
  BY DEF PowerLoss
<1>2. ASSUME NEW n \in Segs
      PROVE  /\ Len(files'[n]) \in Nat /\ Len(files[n]) \in Nat /\ Len(files'[n]) <= Len(files[n])
             /\ \A j \in 1..Len(files'[n]) : files'[n][j] = files[n][j] \/ files'[n][j] = Torn
  <2>1. files[n] \in Seq(Frame) /\ synced[n] \in Nat /\ more \in Nat
    BY <1>0, ConstantsAssumption
  <2>2. synced[n] <= Len(files[n])
    BY SyncedLen
  <2>3. PICK s, y, t : s = files[n] /\ y = synced[n] /\ t = Survive(s, y, more, torn)
    OBVIOUS
  <2>4. s \in Seq(Frame) /\ y \in Nat /\ more \in Nat /\ y <= Len(s)
    BY <2>1, <2>2, <2>3
  <2>5. /\ t \in Seq(Frame) /\ Len(t) <= Len(s)
        /\ \A j \in 1..Len(t) : t[j] = s[j] \/ (t[j] = Torn /\ j = Len(t) /\ j > y)
    BY <2>3, <2>4, SurviveFacts
  <2>6. files'[n] = t
    BY <1>1, <2>3
  <2> QED BY <2>1, <2>3, <2>5, <2>6
<1>3. NoNew
  <2> SUFFICES ASSUME NEW n \in Segs, NEW j \in 1..Len(files'[n]), Whole(files'[n][j])
               PROVE  j \in 1..Len(files[n]) /\ files'[n][j] = files[n][j]
    BY DEF NoNew
  <2>1. j \in 1..Len(files[n])
    BY <1>2
  <2>2. files'[n][j] # Torn
    BY TornType
  <2> QED BY <1>2, <2>1, <2>2
<1> QED BY <1>0, <1>2, <1>3

LEMMA PowerLossMInv == SInv /\ MInv /\ PowerLoss => MInv'
<1> SUFFICES ASSUME SInv, MInv, PowerLoss PROVE MInv'
  OBVIOUS
<1>0. /\ N \in Nat /\ Active = files[N] /\ Len(files[N]) \in Nat /\ Base \in Int /\ attempts \in Nat
  BY Basics DEF SInv, CleanTypeOK, StoreTypeOK
<1>1. Len(files'[N]) \in Nat /\ Len(files'[N]) <= Len(files[N])
  BY PowerLossFiles
<1>2. manifest' = manifest /\ attempts' = attempts /\ rd' = [r \in Readers |-> NoReader] /\ pending' = {}
  BY DEF PowerLoss, ForgetWriter
<1>3. Base' = Base /\ Active' = files'[N]
  BY <1>2 DEF Base, Active, ActiveSeq, N
<1>4. BoundInv'
  <2>1. Base + 1 + Len(files[N]) <= attempts
    BY <1>0 DEF MInv, BoundInv
  <2>2. PICK b, m, p : b = Base /\ m = Len(files[N]) /\ p = Len(files'[N])
    OBVIOUS
  <2>3. b \in Int /\ m \in Nat /\ p \in Nat /\ p <= m /\ b + 1 + m <= attempts
    BY <1>0, <1>1, <2>1, <2>2
  <2>4. b + 1 + p <= attempts
    BY <1>0, <2>3
  <2>5. Base + 1 + Len(files'[N]) <= attempts
    BY <2>2, <2>4
  <2> QED BY <1>2, <1>3, <2>5 DEF MInv, BoundInv
<1>5. PendingOne' /\ ReopenInv'
  BY <1>2 DEF PendingOne, ReopenInv, NoReader, Opening
<1> QED BY <1>4, <1>5 DEF MInv

\* What a reader's step does to its own handle.
LEMMA ReaderMoves ==
  ASSUME HInv, ReopenInv, NEW r \in Readers,
         \/ ReaderLoadManifest(r) \/ ReaderStat(r) \/ ReaderGet(r)
         \/ ReaderCheckHead(r) \/ ReaderScanActive(r)
         \/ RefreshHead(r) \/ RefreshStat(r) \/ RefreshTail(r)
         \/ RefreshAdvance(r) \/ RefreshReopen(r)
  PROVE  /\ rd' = [rd EXCEPT ![r] = rd'[r]]
         /\ rd'[r].live /\ rd'[r].pc \in Opening => rd'[r].seq <= rd'[r].mseq
         /\ ~rd'[r].live => rd'[r].view = {}
         /\ rd[r].view \subseteq rd'[r].view
<1> DEFINE x == rd[r]
<1>0. /\ x \in ReaderType /\ rd \in [Readers -> ReaderType] /\ SInv /\ ViewOk(x) /\ x.mseq <= N
      /\ ActiveSeq(manifest) = N
      /\ x.live /\ x.pc \in Opening => x.seq <= x.mseq
      /\ ~x.live => x.view = {}
  BY Basics DEF HInv, ReaderTypeOK, RInv, HandleInv, ReaderSeq, ReopenInv
<1>1. ASSUME NEW y, Set(r, y) PROVE rd'[r] = y /\ rd' = [rd EXCEPT ![r] = rd'[r]]
  BY <1>0, <1>1 DEF Set
<1>2. CASE ReaderLoadManifest(r)
  <2> DEFINE y == [x EXCEPT !.pc = "o_manifest", !.mseq = ActiveSeq(manifest),
                            !.mattrs = manifest.attrs,
                            !.start = IF rd[r].pc = "reopen" THEN @ ELSE acked]
  <2>1. rd'[r] = y /\ rd' = [rd EXCEPT ![r] = rd'[r]]
    BY <1>1, <1>2 DEF ReaderLoadManifest
  <2>2. y.mseq = N /\ y.live = x.live /\ y.seq = x.seq /\ y.view = x.view
    BY <1>0 DEF ReaderType
  <2>3. x.live => x.seq <= N
    BY <1>0 DEF ViewOk
  <2> HIDE DEF x, y
  <2> QED BY <1>0, <2>1, <2>2, <2>3 DEF x
<1>10. CASE ReaderStat(r) \/ ReaderGet(r)
  <2>1. x.pc \in Opening
    BY <1>10 DEF ReaderStat, ReaderGet, Opening
  <2>2. \E y : /\ Set(r, y)
               /\ y.mseq = x.mseq /\ y.live = x.live /\ y.seq = x.seq /\ y.view = x.view
    <3>1. ASSUME Set(r, Placed(rd[r]))
          PROVE  \E y : /\ Set(r, y)
                        /\ y.mseq = x.mseq /\ y.live = x.live /\ y.seq = x.seq /\ y.view = x.view
      <4>1. PICK y : y = Placed(rd[r])
        OBVIOUS
      <4>2. y.mseq = x.mseq /\ y.live = x.live /\ y.seq = x.seq /\ y.view = x.view
        BY <1>0, <4>1 DEF ReaderType, Placed
      <4> HIDE DEF x
      <4> QED BY <3>1, <4>1, <4>2
    <3>2. ASSUME Set(r, [rd[r] EXCEPT !.pc = "o_stat"])
          PROVE  \E y : /\ Set(r, y)
                        /\ y.mseq = x.mseq /\ y.live = x.live /\ y.seq = x.seq /\ y.view = x.view
      <4>1. PICK y : y = [rd[r] EXCEPT !.pc = "o_stat"]
        OBVIOUS
      <4>2. y.mseq = x.mseq /\ y.live = x.live /\ y.seq = x.seq /\ y.view = x.view
        BY <1>0, <4>1 DEF ReaderType, Placed
      <4> HIDE DEF x
      <4> QED BY <3>2, <4>1, <4>2
    <3>3. ASSUME Set(r, [rd[r] EXCEPT !.pc = "o_get", !.tail = files[rd[r].mseq]])
          PROVE  \E y : /\ Set(r, y)
                        /\ y.mseq = x.mseq /\ y.live = x.live /\ y.seq = x.seq /\ y.view = x.view
      <4>1. PICK y : y = [rd[r] EXCEPT !.pc = "o_get", !.tail = files[rd[r].mseq]]
        OBVIOUS
      <4>2. y.mseq = x.mseq /\ y.live = x.live /\ y.seq = x.seq /\ y.view = x.view
        BY <1>0, <4>1 DEF ReaderType, Placed
      <4> HIDE DEF x
      <4> QED BY <3>3, <4>1, <4>2
    <3> QED BY <1>10, <3>1, <3>2, <3>3 DEF ReaderStat, ReaderGet
  <2>3. PICK y : /\ Set(r, y)
                 /\ y.mseq = x.mseq /\ y.live = x.live /\ y.seq = x.seq /\ y.view = x.view
    BY <2>2
  <2>4. rd'[r] = y /\ rd' = [rd EXCEPT ![r] = rd'[r]]
    BY <1>1, <2>3
  <2> HIDE DEF x
  <2> QED BY <1>0, <2>1, <2>3, <2>4 DEF x
<1>3. CASE ReaderCheckHead(r)
  <2> DEFINE y == [x EXCEPT !.pc = "o_head"]
  <2>1. CASE HeadAgrees(rd[r].mseq)
    <3>1. rd'[r] = y /\ rd' = [rd EXCEPT ![r] = rd'[r]] /\ x.pc \in Opening
      BY <1>1, <1>3, <2>1 DEF ReaderCheckHead, Opening
    <3>2. y.mseq = x.mseq /\ y.live = x.live /\ y.seq = x.seq /\ y.view = x.view
      BY <1>0 DEF ReaderType
    <3> HIDE DEF x, y
    <3> QED BY <1>0, <3>1, <3>2 DEF x
  <2>2. CASE ~HeadAgrees(rd[r].mseq)
    <3>1. rd'[r] = Done(x, "failed") /\ rd' = [rd EXCEPT ![r] = rd'[r]]
      BY <1>1, <1>3, <2>2 DEF ReaderCheckHead
    <3>2. rd'[r].pc = "failed" /\ rd'[r].live = x.live /\ rd'[r].view = x.view
      BY <1>0, <3>1, DoneFields
    <3> HIDE DEF x
    <3> QED BY <1>0, <3>1, <3>2 DEF x, Opening
  <2> QED BY <2>1, <2>2
<1>4. CASE RefreshReopen(r)
  <2>1. rd'[r] = Done(x, "reopen") /\ rd' = [rd EXCEPT ![r] = rd'[r]]
    BY <1>1, <1>4 DEF RefreshReopen
  <2>2. rd'[r].pc = "reopen" /\ rd'[r].live = x.live /\ rd'[r].view = x.view
    BY <1>0, <2>1, DoneFields
  <2> HIDE DEF x
  <2> QED BY <1>0, <2>1, <2>2 DEF x, Opening
<1>5. CASE RefreshHead(r)
  <2> DEFINE p == IF HeadMoved(r) THEN "reopen" ELSE "r_head"
             y == [x EXCEPT !.start = acked, !.pc = p]
  <2>1. rd'[r] = y /\ rd' = [rd EXCEPT ![r] = rd'[r]]
    BY <1>1, <1>5 DEF RefreshHead
  <2>2. y.pc \in {"reopen", "r_head"} /\ y.live = x.live /\ y.view = x.view
    BY <1>0 DEF ReaderType
  <2> HIDE DEF x, y
  <2> QED BY <1>0, <2>1, <2>2 DEF x, Opening
<1>6. CASE RefreshStat(r)
  <2> DEFINE len == Len(files[rd[r].seq])
             p == IF len < rd[r].len THEN "reopen" ELSE IF len = rd[r].len THEN "open" ELSE "r_stat"
             y == [x EXCEPT !.pc = p]
  <2>1. rd'[r] = y /\ rd' = [rd EXCEPT ![r] = rd'[r]]
    BY <1>1, <1>6 DEF RefreshStat
  <2>2. y.pc \in {"reopen", "open", "r_stat"} /\ y.live = x.live /\ y.view = x.view
    BY <1>0 DEF ReaderType
  <2> HIDE DEF x, y
  <2> QED BY <1>0, <2>1, <2>2 DEF x, Opening
<1>7. CASE RefreshTail(r)
  <2> DEFINE t == SubSeq(files[rd[r].seq], rd[r].len + 1, Len(files[rd[r].seq]))
             y == [x EXCEPT !.pc = "r_tail", !.tail = t]
  <2>1. rd'[r] = y /\ rd' = [rd EXCEPT ![r] = rd'[r]]
    BY <1>1, <1>7 DEF RefreshTail
  <2> HIDE DEF t
  <2>2. y.pc = "r_tail" /\ y.live = x.live /\ y.view = x.view
    BY <1>0 DEF ReaderType
  <2> HIDE DEF x, y
  <2> QED BY <1>0, <2>1, <2>2 DEF x, Opening
<1>8. CASE RefreshAdvance(r)
  <2> DEFINE len == x.len + Len(Valid(x.tail))
             new == Elems(Valid(x.tail))
             z == [x EXCEPT !.attrs = FreshAttrs(r), !.len = len, !.view = x.view \cup new]
             y == Done(z, "open")
  <2>1. rd'[r] = y /\ rd' = [rd EXCEPT ![r] = rd'[r]] /\ x.pc = "r_tail"
    BY <1>1, <1>8 DEF RefreshAdvance
  <2> HIDE DEF len, new
  <2>2. y.pc = "open" /\ y.live = x.live /\ y.view = x.view \cup new
    BY <1>0 DEF ReaderType, Done
  <2>3. x.live
    BY <1>0, <2>1 DEF ViewOk
  <2> HIDE DEF x, y
  <2> QED BY <2>1, <2>2, <2>3 DEF x, Opening
<1>9. CASE ReaderScanActive(r)
  <2> DEFINE n == x.mseq
             k == Len(Valid(files[n]))
             p == SealedFrames(n) \cup Elems(Valid(files[n]))
             z == [x EXCEPT !.live = TRUE, !.seq = n, !.attrs = x.mattrs, !.len = k, !.view = p]
             y == Done(z, "open")
  <2>0. SealedReadable(n)
    <3>1. n \in 0..N
      BY <1>0, HandleType, Basics
    <3> QED BY <1>0, <3>1, AllReadable
  <2>1. rd'[r] = y /\ rd' = [rd EXCEPT ![r] = rd'[r]] /\ x.pc \in Opening
    BY <1>1, <1>9, <2>0 DEF ReaderScanActive, Opening
  <2>2. n \in Segs /\ n \in Nat /\ x.seq \in Nat /\ x.len \in Nat /\ x.seq \in Segs
    BY <1>0, HandleType
  <2>3. /\ p = Prefix(n, k) /\ k \in Nat
        /\ \A j \in 1..Len(files[n]) : Whole(files[n][j]) => j \in 1..k
    BY <1>0, <2>2, ScanPrefix
  <2> HIDE DEF p, k
  <2>4. y.pc = "open" /\ y.live = TRUE /\ y.view = p
    BY <1>0 DEF Done, ReaderType
  <2>5. x.view \subseteq p
    <3> SUFFICES ASSUME NEW f \in x.view PROVE f \in Prefix(n, k)
      BY <2>3
    <3>1. /\ x.live /\ x.view = Prefix(x.seq, x.len) /\ x.seq <= n /\ x.len <= Len(files[x.seq])
          /\ \A j \in 1..x.len : Whole(files[x.seq][j])
      BY <1>0, <2>1 DEF ViewOk
    <3>2. Len(files[x.seq]) \in Nat
      BY <1>0, <2>2, SegFacts
    <3>3. CASE \E i \in 0..x.seq - 1 : \E j \in 1..Len(files[i]) : f = files[i][j]
      <4>1. PICK i \in 0..x.seq - 1 : \E j \in 1..Len(files[i]) : f = files[i][j]
        BY <3>3
      <4>2. i \in 0..n - 1
        BY <2>2, <3>1
      <4> QED BY <2>2, <2>3, <4>1, <4>2, PrefixMember
    <3>4. CASE \E j \in 1..x.len : f = files[x.seq][j]
      <4>1. PICK j \in 1..x.len : f = files[x.seq][j]
        BY <3>4
      <4>2. j \in 1..Len(files[x.seq]) /\ Whole(files[x.seq][j])
        BY <2>2, <3>1, <3>2
      <4>3. CASE x.seq = n
        <5>1. j \in 1..k /\ f = files[n][j]
          BY <2>3, <4>1, <4>2, <4>3
        <5> QED BY <2>2, <2>3, <5>1, PrefixMember
      <4>4. CASE x.seq # n
        <5>1. x.seq \in 0..n - 1
          BY <2>2, <3>1, <4>4
        <5> QED BY <2>2, <2>3, <4>1, <4>2, <5>1, PrefixMember
      <4> QED BY <4>3, <4>4
    <3> QED BY <2>2, <3>1, <3>3, <3>4, PrefixMember
  <2> HIDE DEF x, y
  <2> QED BY <2>1, <2>4, <2>5 DEF x, Opening
<1> QED BY <1>10, <1>2, <1>3, <1>4, <1>5, <1>6, <1>7, <1>8, <1>9

LEMMA ReaderMInv == IInv /\ RInv /\ MInv /\ ReaderNext => MInv'
<1> SUFFICES ASSUME IInv, RInv, MInv, ReaderNext PROVE MInv'
  OBVIOUS
<1>1. PICK r \in Readers :
        \/ ReaderLoadManifest(r) \/ ReaderStat(r) \/ ReaderGet(r)
        \/ ReaderCheckHead(r) \/ ReaderScanActive(r)
        \/ RefreshHead(r) \/ RefreshStat(r) \/ RefreshTail(r)
        \/ RefreshAdvance(r) \/ RefreshReopen(r)
  BY DEF ReaderNext
<1>2. UNCHANGED NotReader
  BY <1>1 DEF ReaderLoadManifest, ReaderStat, ReaderGet, ReaderCheckHead, ReaderScanActive,
       RefreshHead, RefreshStat, RefreshTail, RefreshAdvance, RefreshReopen
<1>3. /\ rd' = [rd EXCEPT ![r] = rd'[r]]
      /\ rd'[r].live /\ rd'[r].pc \in Opening => rd'[r].seq <= rd'[r].mseq
      /\ ~rd'[r].live => rd'[r].view = {}
  BY <1>1, ReaderMoves DEF HInv, IInv, MInv
<1>4. BoundInv' /\ PendingOne'
  BY <1>2 DEF NotReader, disk, writer, MInv, BoundInv, PendingOne, Base, Active, ActiveSeq
<1>5. \A q \in Readers : q # r => rd'[q] = rd[q]
  BY <1>3 DEF IInv, ReaderTypeOK
<1>6. ReopenInv'
  <2> SUFFICES ASSUME NEW q \in Readers
               PROVE  /\ rd'[q].live /\ rd'[q].pc \in Opening => rd'[q].seq <= rd'[q].mseq
                      /\ ~rd'[q].live => rd'[q].view = {}
    BY DEF ReopenInv
  <2>1. CASE q = r
    BY <1>3, <2>1
  <2>2. CASE q # r
    BY <1>5, <2>2 DEF MInv, ReopenInv
  <2> QED BY <2>1, <2>2
<1> QED BY <1>4, <1>6 DEF MInv

LEMMA StutterMInv == MInv /\ UNCHANGED vars => MInv'
  BY DEF vars, MInv, BoundInv, PendingOne, ReopenInv, Base, Active, ActiveSeq

-----------------------------------------------------------------------------
(* Sets of frames that are numbered from 0 on, and their sequences *)

Dense(L) ==
  /\ L \subseteq Frame /\ Cardinality(L) \in Nat
  /\ \A f \in L : f.tx \in Nat /\ f.tx < Cardinality(L)
  /\ \A t \in 0..Cardinality(L) - 1 : \E f \in L : f.tx = t
  /\ \A f, g \in L : f.tx = g.tx => f = g

Lists(s, L) ==
  /\ s \in Seq(L) /\ Len(s) = Cardinality(L)
  /\ \A t \in 1..Len(s) : s[t] \in L /\ s[t].tx = t - 1

LEMMA ListElems ==
  ASSUME NEW L, NEW s, Dense(L), Lists(s, L), NEW n \in 0..Len(s)
  PROVE  Elems(SubSeq(s, 1, n)) = {f \in L : f.tx < n}
<1>0. /\ s \in Seq(L) /\ Len(s) \in Nat /\ Len(s) = Cardinality(L)
      /\ \A t \in 1..Len(s) : s[t] \in L /\ s[t].tx = t - 1
  BY DEF Dense, Lists
<1>1. Len(SubSeq(s, 1, n)) = n /\ \A t \in 1..n : SubSeq(s, 1, n)[t] = s[t]
  BY <1>0, PrefixFacts
<1>2. Elems(SubSeq(s, 1, n)) = {s[t] : t \in 1..n}
  BY <1>1 DEF Elems
<1>3. ASSUME NEW t \in 1..n PROVE s[t] \in L /\ s[t].tx < n
  <2>1. t \in 1..Len(s) /\ t - 1 < n
    BY <1>0
  <2> QED BY <1>0, <2>1
<1>4. ASSUME NEW f \in L, f.tx < n PROVE \E t \in 1..n : f = s[t]
  <2>1. f.tx \in Nat
    BY DEF Dense
  <2>2. f.tx + 1 \in 1..n /\ f.tx + 1 \in 1..Len(s) /\ (f.tx + 1) - 1 = f.tx
    BY <1>0, <1>4, <2>1
  <2>3. s[f.tx + 1] \in L /\ s[f.tx + 1].tx = f.tx
    BY <1>0, <2>2
  <2>4. s[f.tx + 1] = f
    BY <2>3 DEF Dense
  <2> QED BY <2>2, <2>4
<1> QED BY <1>2, <1>3, <1>4

\* A subset that is dense too is listed by a prefix.
LEMMA ListCut ==
  ASSUME NEW L, NEW M, NEW s, NEW u, Dense(L), Dense(M), M \subseteq L, Lists(s, L), Lists(u, M)
  PROVE  Len(u) \in 0..Len(s) /\ u = SubSeq(s, 1, Len(u))
<1>0. /\ s \in Seq(L) /\ Len(s) \in Nat /\ Len(s) = Cardinality(L)
      /\ u \in Seq(M) /\ Len(u) \in Nat /\ Len(u) = Cardinality(M)
  BY DEF Dense, Lists
<1>1. Len(u) <= Len(s)
  <2> SUFFICES ASSUME Len(s) < Len(u) PROVE FALSE
    BY <1>0
  <2>1. Len(s) \in 0..Cardinality(M) - 1
    BY <1>0
  <2>2. PICK f \in M : f.tx = Len(s)
    BY <2>1 DEF Dense
  <2>3. f.tx < Len(s)
    BY <1>0, <2>2 DEF Dense
  <2> QED BY <1>0, <2>2, <2>3
<1>2. Len(u) \in 0..Len(s)
  BY <1>0, <1>1
<1>3. /\ SubSeq(s, 1, Len(u)) \in Seq(L) /\ Len(SubSeq(s, 1, Len(u))) = Len(u)
      /\ \A t \in 1..Len(u) : SubSeq(s, 1, Len(u))[t] = s[t]
  BY <1>0, <1>2, PrefixFacts
<1>4. \A t \in 1..Len(u) : u[t] = s[t]
  <2> SUFFICES ASSUME NEW t \in 1..Len(u) PROVE u[t] = s[t]
    OBVIOUS
  <2>1. t \in 1..Len(s)
    BY <1>0, <1>1
  <2>2. s[t] \in L /\ s[t].tx = t - 1 /\ u[t] \in L /\ u[t].tx = t - 1
    BY <2>1 DEF Lists
  <2> QED BY <2>2 DEF Dense
<1>5. u \in Seq(L)
  BY <1>0
<1> QED BY <1>2, <1>3, <1>4, <1>5, <1>0, SeqEqual

LEMMA ListEqual ==
  ASSUME NEW L, NEW s, NEW u, Dense(L), Lists(s, L), Lists(u, L)
  PROVE  s = u
<1>1. Len(u) \in 0..Len(s) /\ u = SubSeq(s, 1, Len(u))
  BY ListCut
<1>2. s \in Seq(L) /\ Len(s) = Len(u)
  BY DEF Lists
<1>3. SubSeq(s, 1, Len(s)) = s
  <2>1. Len(s) \in 0..Len(s)
    BY <1>2
  <2> QED BY <1>2, <2>1, PrefixFacts, SeqEqual
<1> QED BY <1>1, <1>2, <1>3

\* One more frame, with the next number.
LEMMA ListAdd ==
  ASSUME NEW L, NEW M, NEW s, NEW u, NEW b, Dense(L), Dense(M), M = L \cup {b},
         b.tx = Cardinality(L), Lists(s, L), Lists(u, M)
  PROVE  u = Append(s, b)
<1>0. /\ s \in Seq(L) /\ Len(s) \in Nat /\ Len(s) = Cardinality(L)
      /\ u \in Seq(M) /\ Len(u) \in Nat /\ Len(u) = Cardinality(M)
  BY DEF Dense, Lists
<1>1. Len(u) = Len(s) + 1
  <2>1. b.tx < Cardinality(M)
    BY DEF Dense
  <2>2. ASSUME Len(u) > Len(s) + 1 PROVE FALSE
    <3>1. Len(s) + 1 \in 0..Cardinality(M) - 1
      BY <1>0, <2>2
    <3>2. PICK f \in M : f.tx = Len(s) + 1
      BY <3>1 DEF Dense
    <3>3. CASE f \in L
      <4>1. f.tx < Len(s)
        BY <1>0, <3>3 DEF Dense
      <4> QED BY <1>0, <3>2, <4>1
    <3>4. CASE f = b
      BY <1>0, <3>2, <3>4
    <3> QED BY <3>3, <3>4
  <2> QED BY <1>0, <2>1, <2>2
<1>2. /\ Append(s, b) \in Seq(M) /\ Len(Append(s, b)) = Len(s) + 1
      /\ \A t \in 1..Len(s) : Append(s, b)[t] = s[t]
      /\ Append(s, b)[Len(s) + 1] = b
  <2>1. s \in Seq(M) /\ b \in M
    BY <1>0
  <2> QED BY <2>1, AppendProperties
<1>3. \A t \in 1..Len(u) : u[t] = Append(s, b)[t]
  <2> SUFFICES ASSUME NEW t \in 1..Len(u) PROVE u[t] = Append(s, b)[t]
    OBVIOUS
  <2>1. u[t] \in M /\ u[t].tx = t - 1
    BY DEF Lists
  <2>2. CASE t = Len(s) + 1
    <3>1. u[t].tx = b.tx /\ b \in M
      BY <1>0, <2>1, <2>2
    <3>2. u[t] = b
      BY <2>1, <3>1 DEF Dense
    <3> QED BY <1>2, <2>2, <3>2
  <2>3. CASE t # Len(s) + 1
    <3>1. t \in 1..Len(s)
      BY <1>0, <1>1, <2>3
    <3>2. s[t] \in M /\ s[t].tx = t - 1
      BY <3>1 DEF Lists
    <3>3. u[t] = s[t]
      BY <2>1, <3>2 DEF Dense
    <3> QED BY <1>2, <3>1, <3>3
  <2> QED BY <2>2, <2>3
<1> QED BY <1>0, <1>1, <1>2, <1>3, SeqEqual

-----------------------------------------------------------------------------
(* The log of the store *)

LEMMA LogPrefix ==
  ASSUME SInv
  PROVE  /\ N \in 0..N /\ ValidLen(files[N]) \in Nat /\ ValidLen(files[N]) <= Len(files[N])
         /\ \A j \in 1..ValidLen(files[N]) : Whole(files[N][j])
         /\ LogFrames = Prefix(N, ValidLen(files[N]))
         /\ First(N) = Base + 1
<1>0. /\ N \in Nat /\ N \in Segs /\ N <= N /\ N \in 0..N /\ Active = files[N]
      /\ manifest.sealed \in Seq(SealedType)
  BY Basics
<1>1. /\ files[N] \in Seq(Frame) /\ \A j \in 1..Len(files[N]) : j < Len(files[N]) => Whole(files[N][j])
  BY <1>0, SegFacts
<1>2. Len(Valid(files[N])) = ValidLen(files[N])
  BY <1>1, ValidFacts
<1>3. /\ SealedFrames(N) \cup Elems(Valid(files[N])) = Prefix(N, ValidLen(files[N]))
      /\ ValidLen(files[N]) \in Nat /\ ValidLen(files[N]) <= Len(files[N])
      /\ \A j \in 1..ValidLen(files[N]) : Whole(files[N][j])
  BY <1>0, <1>2, ScanPrefix
<1>4. LogFrames = Prefix(N, ValidLen(files[N]))
  BY <1>0, <1>3 DEF LogFrames, N
<1>5. First(N) = Base + 1
  <2>1. CASE N = 0
    <3>1. manifest.sealed = <<>>
      BY <1>0, <2>1, EmptySeq DEF N
    <3> QED BY <2>1, <3>1 DEF Base, SealedTxMax, First
  <2>2. CASE N # 0
    <3>1. manifest.sealed # <<>>
      BY <1>0, <2>2, EmptySeq DEF N
    <3> QED BY <2>2, <3>1 DEF Base, SealedTxMax, First, N
  <2> QED BY <2>1, <2>2
<1> QED BY <1>0, <1>3, <1>4, <1>5

LEMMA LogDense == SInv => Dense(LogFrames)
<1> SUFFICES ASSUME SInv PROVE Dense(LogFrames)
  OBVIOUS
<1>1. PICK k : k = ValidLen(files[N])
  OBVIOUS
<1>2. /\ N \in 0..N /\ k \in Nat /\ k <= Len(files[N]) /\ (\A j \in 1..k : Whole(files[N][j]))
      /\ LogFrames = Prefix(N, k)
  BY <1>1, LogPrefix
<1>3. /\ First(N) + k \in Nat /\ Cardinality(LogFrames) = First(N) + k
  BY <1>2, PrefixCount
<1>4. \A f \in LogFrames : f.tx < First(N) + k
  BY <1>2, PrefixCount
<1>5. \A f \in LogFrames : \E i, j : At(f, i, j)
  BY LogAt
<1>6. \A f \in LogFrames : f \in Frame /\ f.tx \in Nat
  <2> SUFFICES ASSUME NEW f \in LogFrames PROVE f \in Frame /\ f.tx \in Nat
    OBVIOUS
  <2>1. PICK i, j : At(f, i, j)
    BY <1>5
  <2>2. i \in Segs
    BY <2>1, Basics, ConstantsAssumption DEF At, Segs, SInv
  <2>3. f \in Frame
    BY <2>1, <2>2, SegFacts DEF At
  <2> QED BY <2>3 DEF Frame
<1>7. \A f, g \in LogFrames : f.tx = g.tx => f = g
  BY <1>5, AtUnique
<1>8. ASSUME NEW t \in 0..First(N) + k - 1 PROVE \E f \in LogFrames : f.tx = t
  BY <1>2, <1>8, AtExists
<1>9. PICK L, c : L = LogFrames /\ c = First(N) + k
  OBVIOUS
<1>10. Cardinality(L) = c /\ c \in Nat
  BY <1>3, <1>9
<1>11. L \subseteq Frame /\ \A f \in L : f.tx \in Nat /\ f.tx < c
  BY <1>4, <1>6, <1>9
<1>12. ASSUME NEW t \in 0..c - 1 PROVE \E f \in L : f.tx = t
  <2>1. First(N) \in Nat
    BY <1>2, FirstFacts
  <2>2. First(N) + k - 1 = c - 1
    BY <1>2, <1>9, <2>1
  <2>3. t \in 0..First(N) + k - 1
    BY <1>12, <2>2
  <2> QED BY <1>8, <1>9, <2>3
<1>13. \A f, g \in L : f.tx = g.tx => f = g
  BY <1>7, <1>9
<1>14. Dense(L)
  BY <1>10, <1>11, <1>12, <1>13 DEF Dense
<1> QED BY <1>9, <1>14

\* The sealed frame with number t - 1 is where the manifest's ranges say it is.
LEMMA SealedFrameAt ==
  ASSUME SInv, NEW t \in 1..Base + 1
  PROVE  \E i, j : At(SealedFrame(t), i, j) /\ SealedFrame(t).tx = t - 1
<1>0. N \in Nat /\ Base \in Int /\ First(N) = Base + 1 /\ \A n \in 0..N : First(n) \in Nat
  BY Basics, LogPrefix, FirstFacts
<1> DEFINE P(i) == manifest.sealed[i].tx_min < t /\ t <= manifest.sealed[i].tx_max + 1
<1>1. ASSUME NEW i \in 1..N
      PROVE  /\ manifest.sealed[i].seq = i - 1 /\ manifest.sealed[i].tx_min = First(i - 1)
             /\ manifest.sealed[i].tx_max + 1 = First(i) /\ i - 1 \in 0..N /\ i - 1 \in 0..N - 1
             /\ First(i) = First(i - 1) + Len(files[i - 1])
  <2>1. i - 1 \in 0..N /\ i - 1 \in 0..N - 1 /\ (i - 1) + 1 = i /\ i # 0 /\ (i - 1 = 0 <=> i = 1)
    BY <1>0
  <2>2. SealedSeg(i, manifest.sealed[i], IF i = 1 THEN 0 ELSE manifest.sealed[i - 1].tx_max + 1,
                  files[i - 1], synced[i - 1])
    BY DEF SInv, SealedInv
  <2>3. manifest.sealed[i].seq = i - 1 /\ manifest.sealed[i].tx_min = First(i - 1)
    BY <2>1, <2>2 DEF SealedSeg, First
  <2>4. manifest.sealed[i].tx_max + 1 = First(i)
    BY <2>1 DEF First
  <2>5. First((i - 1) + 1) = First(i - 1) + Len(files[i - 1])
    BY <2>1, FirstFacts
  <2> QED BY <2>1, <2>3, <2>4, <2>5
<1>2. \E i \in 1..N : P(i)
  <2> DEFINE T == {m \in 0..N : t <= First(m)}
  <2>1. N \in T /\ T \subseteq Nat
    BY <1>0
  <2>2. PICK m \in T : \A y \in T : m <= y
    <3> HIDE DEF T
    <3> QED BY <2>1, LeastNat
  <2>3. m \in 0..N /\ t <= First(m) /\ m # 0
    BY <2>2 DEF First
  <2>4. m \in 1..N /\ m - 1 \in 0..N /\ ~(m <= m - 1)
    BY <1>0, <2>3
  <2>5. ~(t <= First(m - 1))
    BY <2>2, <2>4
  <2>6. First(m - 1) < t
    BY <1>0, <2>4, <2>5
  <2> QED BY <1>1, <2>3, <2>4, <2>6
<1> HIDE DEF P
<1>3. PICK i : i = CHOOSE ii \in 1..N : P(ii)
  OBVIOUS
<1>4. i \in 1..N /\ P(i)
  BY <1>2, <1>3
<1>5. SealedFrame(t) = files[manifest.sealed[i].seq][t - manifest.sealed[i].tx_min]
  BY <1>3 DEF SealedFrame, P, N
<1>6. PICK j : j = t - First(i - 1)
  OBVIOUS
<1>7. SealedFrame(t) = files[i - 1][j]
  BY <1>1, <1>4, <1>5, <1>6
<1>8. i - 1 \in Segs /\ i - 1 < N /\ i - 1 \in 0..N
  BY <1>0, <1>4, ConstantsAssumption DEF SInv, Segs
<1>9. Len(files[i - 1]) \in Nat /\ First(i - 1) \in Nat
  BY <1>0, <1>8, SegFacts
<1>10. First(i - 1) < t /\ t <= First(i - 1) + Len(files[i - 1])
  BY <1>1, <1>4 DEF P
<1>11. j \in 1..Len(files[i - 1])
  BY <1>6, <1>9, <1>10
<1>12. Whole(files[i - 1][j])
  BY <1>8, <1>11, SegFacts
<1>13. At(SealedFrame(t), i - 1, j)
  BY <1>7, <1>8, <1>11, <1>12 DEF At
<1>14. SealedFrame(t).tx = First(i - 1) + j - 1
  BY <1>13, AtTx
<1>15. SealedFrame(t).tx = t - 1
  BY <1>6, <1>9, <1>14
<1> QED BY <1>13, <1>15

LEMMA LogLists == SInv => Lists(LogSeq, LogFrames)
<1> SUFFICES ASSUME SInv PROVE Lists(LogSeq, LogFrames)
  OBVIOUS
<1>1. PICK k : k = ValidLen(files[N])
  OBVIOUS
<1>2. /\ N \in 0..N /\ k \in Nat /\ k <= Len(files[N]) /\ (\A j \in 1..k : Whole(files[N][j]))
      /\ LogFrames = Prefix(N, k) /\ First(N) = Base + 1
  BY <1>1, LogPrefix
<1>3. First(N) + k \in Nat /\ Cardinality(LogFrames) = First(N) + k /\ First(N) \in Nat
  BY <1>2, PrefixCount, FirstFacts
<1>4. Active = files[N] /\ Base \in Int /\ N \in Segs /\ Len(files[N]) \in Nat
  BY Basics
<1>5. PICK b : b = Base + 1
  OBVIOUS
<1>6. b \in Nat /\ b + k \in Nat /\ First(N) = b /\ Cardinality(LogFrames) = b + k
  BY <1>2, <1>3, <1>5
<1>7. LogSeq = [t \in 1..b + k |-> IF t <= b THEN SealedFrame(t) ELSE Active[t - b]]
  BY <1>1, <1>4, <1>5 DEF LogSeq, Base
<1>8. ASSUME NEW t \in 1..b + k PROVE LogSeq[t] \in LogFrames /\ LogSeq[t].tx = t - 1
  <2>1. LogSeq[t] = IF t <= b THEN SealedFrame(t) ELSE Active[t - b]
    BY <1>7
  <2>2. CASE t <= b
    <3>1. t \in 1..Base + 1
      BY <1>4, <1>5, <1>6, <2>2
    <3>2. \E i, j : At(SealedFrame(t), i, j) /\ SealedFrame(t).tx = t - 1
      BY <3>1, SealedFrameAt
    <3>3. SealedFrame(t) \in LogFrames
      BY <3>2, LogAt
    <3> QED BY <2>1, <2>2, <3>2, <3>3
  <2>3. CASE ~(t <= b)
    <3>1. PICK j : j = t - b
      OBVIOUS
    <3>2. j \in 1..k /\ j \in 1..Len(files[N])
      BY <1>2, <1>4, <1>6, <2>3, <3>1
    <3>3. LogSeq[t] = files[N][j]
      BY <1>4, <2>1, <2>3, <3>1
    <3>4. At(files[N][j], N, j)
      BY <1>2, <3>2 DEF At
    <3>5. files[N][j] \in LogFrames
      BY <3>4, LogAt
    <3>6. files[N][j].tx = First(N) + j - 1
      BY <3>4, AtTx
    <3>7. files[N][j].tx = t - 1
      BY <1>6, <3>1, <3>6
    <3> QED BY <3>3, <3>5, <3>7
  <2> QED BY <2>2, <2>3
<1>9. LogSeq \in Seq(LogFrames) /\ Len(LogSeq) = b + k
  <2>1. DOMAIN LogSeq = 1..b + k /\ LogSeq = [t \in 1..b + k |-> LogSeq[t]]
    BY <1>7
  <2>2. LogSeq \in [1..b + k -> LogFrames]
    BY <1>8, <2>1
  <2>3. LogSeq \in Seq(LogFrames)
    BY <1>6, <2>2
  <2> QED BY <1>6, <2>1, <2>3
<1> QED BY <1>6, <1>8, <1>9 DEF Lists

-----------------------------------------------------------------------------
(* How a step changes the log *)

LEMMA ListAll ==
  ASSUME NEW L, NEW s, Dense(L), Lists(s, L)
  PROVE  Elems(s) = L
<1>0. /\ s \in Seq(L) /\ Len(s) \in Nat /\ Len(s) = Cardinality(L) /\ Len(s) \in 0..Len(s)
      /\ \A f \in L : f.tx < Len(s)
  BY DEF Dense, Lists
<1>1. Elems(SubSeq(s, 1, Len(s))) = {f \in L : f.tx < Len(s)}
  BY <1>0, ListElems
<1>2. SubSeq(s, 1, Len(s)) = s
  BY <1>0, PrefixFacts, SeqEqual
<1> QED BY <1>0, <1>1, <1>2

LEMMA LogAtAll == SInv => \A f : f \in LogFrames <=> \E i, j : At(f, i, j)
  BY LogAt

LEMMA AckedInLog == SInv => acked \subseteq LogFrames
<1> SUFFICES ASSUME SInv, NEW f \in acked PROVE f \in LogFrames
  OBVIOUS
<1>1. PICK i \in 0..N : In(f, i)
  BY AckedIn
<1>2. PICK j \in 1..Len(files[i]) : files[i][j] = f
  BY <1>1 DEF In
<1>3. At(f, i, j)
  BY <1>1, <1>2 DEF At, In
<1> QED BY <1>3, LogAt

LEMMA LogFacts == SInv => Dense(LogFrames) /\ Lists(LogSeq, LogFrames)
  BY LogDense, LogLists

\* The log of the next state.
LEMMA NextLog ==
  ASSUME SInv'
  PROVE  /\ \E L, s : L = LogFrames' /\ s = LogSeq' /\ Dense(L) /\ Lists(s, L)
         /\ \A f : f \in LogFrames' <=>
              \E i, j : i \in 0..N' /\ j \in 1..Len(files'[i]) /\ Whole(files'[i][j]) /\ f = files'[i][j]
         /\ acked' \subseteq LogFrames'
<1>1. (SInv => Dense(LogFrames) /\ Lists(LogSeq, LogFrames))'
  BY LogFacts, PTL
<1>2. (SInv => \A f : f \in LogFrames <=> \E i, j : At(f, i, j))'
  BY LogAtAll, PTL
<1>3. (SInv => acked \subseteq LogFrames)'
  BY AckedInLog, PTL
<1>4. \A f : f \in LogFrames' <=>
        \E i, j : i \in 0..N' /\ j \in 1..Len(files'[i]) /\ Whole(files'[i][j]) /\ f = files'[i][j]
  BY <1>2 DEF At, Whole
<1>5. PICK L, s : L = LogFrames' /\ s = LogSeq'
  OBVIOUS
<1>6. Dense(L) /\ Lists(s, L)
  BY <1>1, <1>5 DEF Dense, Lists
<1> QED BY <1>3, <1>4, <1>5, <1>6

LEMMA NNat == SInv => N \in Nat
  BY Basics

LEMMA LogShrinks ==
  ASSUME SInv, SInv', NoNew
  PROVE  LogFrames' \subseteq LogFrames
<1> SUFFICES ASSUME NEW f \in LogFrames' PROVE f \in LogFrames
  OBVIOUS
<1>1. PICK i, j : i \in 0..N' /\ j \in 1..Len(files'[i]) /\ Whole(files'[i][j]) /\ f = files'[i][j]
  BY NextLog
<1>2. N \in Nat /\ N' \in Nat /\ N' <= MaxSegs
  <2>1. (SInv => N \in Nat)'
    BY NNat, PTL
  <2> QED BY <2>1, Basics DEF SInv
<1>3. i \in Segs
  BY <1>1, <1>2, ConstantsAssumption DEF Segs
<1>4. j \in 1..Len(files[i]) /\ files[i][j] = f /\ Whole(f)
  BY <1>1, <1>3 DEF NoNew
<1>5. i \in Nat /\ Len(files[i]) \in Nat /\ (i > N => Len(files[i]) = 0)
  BY <1>3, SegFacts
<1>6. i \in 0..N
  BY <1>2, <1>4, <1>5
<1>7. At(f, i, j)
  BY <1>4, <1>6 DEF At
<1> QED BY <1>7, LogAt

LEMMA LogGrows ==
  ASSUME SInv, SInv', N <= N', N' \in Nat,
         \A n \in Segs : \A j \in 1..Len(files[n]) :
           Whole(files[n][j]) => j \in 1..Len(files'[n]) /\ files'[n][j] = files[n][j]
  PROVE  LogFrames \subseteq LogFrames'
<1> SUFFICES ASSUME NEW f \in LogFrames PROVE f \in LogFrames'
  OBVIOUS
<1>1. PICK i, j : At(f, i, j)
  BY LogAt
<1>2. N \in Nat /\ i \in 0..N /\ i \in Segs /\ i \in 0..N'
  BY <1>1, Basics, ConstantsAssumption DEF At, SInv, Segs
<1>3. j \in 1..Len(files'[i]) /\ files'[i][j] = f /\ Whole(files'[i][j])
  BY <1>1, <1>2 DEF At
<1> QED BY <1>2, <1>3, NextLog

LEMMA LogSame ==
  ASSUME SInv, SInv', LogFrames' = LogFrames
  PROVE  LogSeq' = LogSeq
<1>1. PICK L, s : L = LogFrames' /\ s = LogSeq' /\ Dense(L) /\ Lists(s, L)
  BY NextLog
<1>2. Lists(LogSeq, L)
  BY <1>1, LogLists
<1> QED BY <1>1, <1>2, ListEqual

\* No step of the writer but the end of a write adds a batch.
LEMMA WriterNoNew ==
  ASSUME SInv,
         \/ OpenScan \/ OpenHead \/ OpenRefused \/ PersistManifest \/ WriteStart \/ SyncActive
         \/ PublishHead \/ SealActive \/ SaveManifest \/ Roll \/ Crash
  PROVE  NoNew
<1>0. /\ N \in Segs /\ Active = files[N] /\ ActiveSeq(manifest) = N
      /\ files \in [Segs -> Seq(Frame)] /\ files[N] \in Seq(Frame) /\ Len(files[N]) \in Nat
  BY Basics DEF SInv, CleanTypeOK, StoreTypeOK
<1>1. CASE OpenScan
  <2>1. \A j \in 1..Len(files[N]) : j < Len(files[N]) => Whole(files[N][j])
    BY <1>0, SegFacts
  <2>2. PICK t : t = Valid(files[N])
    OBVIOUS
  <2>3. Len(t) \in 0..Len(files[N]) /\ \A j \in 1..Len(t) : t[j] = files[N][j]
    BY <1>0, <2>1, <2>2, ValidFacts
  <2>4. files' = [files EXCEPT ![N] = t]
    BY <1>0, <1>1, <2>2 DEF OpenScan, Recovered
  <2>5. ASSUME NEW n \in Segs, NEW j \in 1..Len(files'[n]), Whole(files'[n][j])
        PROVE  j \in 1..Len(files[n]) /\ files'[n][j] = files[n][j]
    <3>1. CASE n = N
      <4>1. files'[n] = t
        BY <1>0, <2>4, <3>1
      <4> QED BY <1>0, <2>3, <3>1, <4>1
    <3>2. CASE n # N
      <4>1. files'[n] = files[n]
        BY <1>0, <2>4, <3>2
      <4> QED BY <4>1
    <3> QED BY <3>1, <3>2
  <2> QED BY <2>5 DEF NoNew
<1>2. CASE WriteStart
  <2>1. mhead.active_seq = N
    BY <1>2 DEF SInv, WriterInv, WriteStart, InStep
  <2>2. PICK t : t = Append(files[N], Torn)
    OBVIOUS
  <2>3. /\ Len(t) = Len(files[N]) + 1 /\ t[Len(files[N]) + 1] = Torn
        /\ \A j \in 1..Len(files[N]) : t[j] = files[N][j]
    BY <1>0, <2>2, TornType, AppendProperties
  <2>4. files' = [files EXCEPT ![N] = t]
    BY <1>0, <1>2, <2>1, <2>2 DEF WriteStart
  <2>5. ASSUME NEW n \in Segs, NEW j \in 1..Len(files'[n]), Whole(files'[n][j])
        PROVE  j \in 1..Len(files[n]) /\ files'[n][j] = files[n][j]
    <3>1. CASE n = N
      <4>1. files'[n] = t
        BY <1>0, <2>4, <3>1
      <4>2. j \in 1..Len(files[N]) + 1 /\ j # Len(files[N]) + 1
        BY <2>3, <2>5, <4>1, TornType
      <4>3. j \in 1..Len(files[N])
        BY <1>0, <4>2
      <4> QED BY <2>3, <3>1, <4>1, <4>3
    <3>2. CASE n # N
      <4>1. files'[n] = files[n]
        BY <1>0, <2>4, <3>2
      <4> QED BY <4>1
    <3> QED BY <3>1, <3>2
  <2> QED BY <2>5 DEF NoNew
<1>3. CASE \/ OpenHead \/ OpenRefused \/ PersistManifest \/ SyncActive \/ PublishHead
           \/ SealActive \/ SaveManifest \/ Roll \/ Crash
  <2>1. files' = files
    BY <1>3 DEF OpenHead, OpenRefused, PersistManifest, SyncActive, PublishHead, SealActive,
                SaveManifest, Roll, Crash, disk
  <2> QED BY <2>1 DEF NoNew
<1> QED BY <1>1, <1>2, <1>3

\* What the writer leaves of the log: all of it.
LEMMA WriterLogGrows ==
  ASSUME SInv, SInv', AttrInv, WriterNext \/ Crash
  PROVE  LogFrames \subseteq LogFrames' /\ rd' = rd
<1>1. Grown
  BY WriterGrows
<1>2. (SInv => N \in Nat)'
  BY NNat, PTL
<1>3. N <= N' /\ N' \in Nat /\ rd' = rd
  BY <1>1, <1>2 DEF Grown
<1>4. ASSUME NEW n \in Segs, NEW j \in 1..Len(files[n]), Whole(files[n][j])
      PROVE  j \in 1..Len(files'[n]) /\ files'[n][j] = files[n][j]
  <2>1. j <= Len(files'[n]) /\ files'[n][j] = files[n][j]
    BY <1>1, <1>4 DEF Grown
  <2>2. files' \in [Segs -> Seq(Frame)]
    BY DEF SInv, CleanTypeOK, StoreTypeOK
  <2>3. Len(files'[n]) \in Nat /\ Len(files[n]) \in Nat
    BY <2>2, SegFacts
  <2> QED BY <2>1, <2>3
<1> QED BY <1>3, <1>4, LogGrows

\* The end of a write adds one batch, with the next number.
LEMMA WriteEndLog ==
  ASSUME SInv, SInv', AttrInv, WriteEnd
  PROVE  /\ LogFrames' = LogFrames \cup {NewFrame}
         /\ NewFrame.tx = Cardinality(LogFrames)
         /\ NewFrame.tx = Base + Len(Active) /\ Len(Active) >= 1 /\ attempts >= 1
<1>0. /\ N \in Nat /\ N \in Segs /\ Active = files[N] /\ Base \in Int
      /\ files \in [Segs -> Seq(Frame)] /\ files[N] \in Seq(Frame) /\ Len(files[N]) \in Nat
      /\ attempts \in Nat /\ mhead.committed_len \in Nat
  BY Basics DEF SInv, CleanTypeOK, StoreTypeOK, HeadType
<1>1. /\ mhead.active_seq = N /\ Len(files[N]) = mhead.committed_len + 1
      /\ next_tx = Base + 1 + mhead.committed_len /\ attempts >= 1 /\ ~Whole(files[N][Len(files[N])])
  BY <1>0 DEF WriteEnd, SInv, WriterInv
<1>2. PICK m : m = Len(files[N])
  OBVIOUS
<1>3. m \in Nat /\ m >= 1 /\ m \in 1..m /\ NewFrame.tx = Base + m
  BY <1>0, <1>1, <1>2 DEF NewFrame
<1>4. files' = [files EXCEPT ![N] = [files[N] EXCEPT ![m] = NewFrame]] /\ manifest' = manifest
  BY <1>1, <1>2 DEF WriteEnd, SInv, CleanTypeOK
<1>5. /\ Len(files'[N]) = m /\ files'[N][m] = NewFrame
      /\ \A j \in 1..m : j # m => files'[N][j] = files[N][j]
      /\ \A n \in Segs : n # N => files'[n] = files[n]
  BY <1>0, <1>2, <1>3, <1>4
<1>6. N' = N
  BY <1>4 DEF N
<1>7. Whole(NewFrame)
  BY <1>0, <1>1 DEF NewFrame, Whole
<1>8. LogFrames \subseteq LogFrames'
  BY WriterLogGrows DEF WriterNext
<1>9. NewFrame \in LogFrames'
  <2>1. N \in 0..N' /\ m \in 1..Len(files'[N]) /\ Whole(files'[N][m]) /\ NewFrame = files'[N][m]
    BY <1>0, <1>3, <1>5, <1>6, <1>7
  <2> QED BY <2>1, NextLog
<1>10. ASSUME NEW f \in LogFrames' PROVE f \in LogFrames \/ f = NewFrame
  <2>1. PICK i, j : i \in 0..N' /\ j \in 1..Len(files'[i]) /\ Whole(files'[i][j]) /\ f = files'[i][j]
    BY <1>10, NextLog
  <2>2. i \in 0..N /\ i \in Segs
    BY <1>0, <1>6, <2>1, ConstantsAssumption DEF SInv, Segs
  <2>3. CASE i = N /\ j = m
    BY <1>5, <2>1, <2>3
  <2>4. CASE ~(i = N /\ j = m)
    <3>1. j \in 1..Len(files[i]) /\ files[i][j] = f /\ Whole(f)
      BY <1>2, <1>5, <2>1, <2>2, <2>4
    <3>2. At(f, i, j)
      BY <2>2, <3>1 DEF At
    <3> QED BY <3>2, LogAt
  <2> QED BY <2>3, <2>4
<1>11. Cardinality(LogFrames) = Base + m
  <2>1. PICK k : k = ValidLen(files[N])
    OBVIOUS
  <2>2. /\ N \in 0..N /\ k \in Nat /\ k <= Len(files[N]) /\ (\A j \in 1..k : Whole(files[N][j]))
        /\ LogFrames = Prefix(N, k) /\ First(N) = Base + 1
    BY <2>1, LogPrefix
  <2>3. Cardinality(LogFrames) = First(N) + k
    BY <2>2, PrefixCount
  <2>4. k = m - 1
    <3>1. \A j \in 1..Len(files[N]) : j < Len(files[N]) => Whole(files[N][j])
      BY <1>0, SegFacts
    <3>2. k \in 0..m /\ m - 1 <= k /\ \A j \in 1..m : Whole(files[N][j]) <=> j <= k
      BY <1>0, <1>2, <2>1, <3>1, ValidLenTail
    <3>3. ~(m <= k)
      BY <1>1, <1>2, <1>3, <3>2
    <3> QED BY <1>3, <3>2, <3>3
  <2>5. PICK b : b = Base
    OBVIOUS
  <2>6. b + 1 + k = b + m
    BY <1>0, <1>3, <2>2, <2>4, <2>5
  <2> QED BY <2>2, <2>3, <2>5, <2>6
<1> QED BY <1>0, <1>1, <1>2, <1>3, <1>8, <1>9, <1>10, <1>11

-----------------------------------------------------------------------------
(* Every step is a step of the log, or invisible *)

LEMMA MInvStep == IInv /\ RInv /\ MInv /\ ~rewritten' /\ [Next]_vars => MInv'
<1> SUFFICES ASSUME IInv, RInv, MInv, ~rewritten', [Next]_vars PROVE MInv'
  OBVIOUS
<1>1. CASE WriterNext \/ Crash
  <2>1. SInv /\ SInv'
    BY <1>1, StoreStep DEF IInv
  <2> QED BY <1>1, <2>1, WriterMInv
<1>2. CASE PowerLoss
  BY <1>2, PowerLossMInv DEF IInv
<1>3. CASE ReaderNext
  BY <1>3, ReaderMInv
<1>4. CASE UNCHANGED vars
  BY <1>4, StutterMInv
<1> QED BY <1>1, <1>2, <1>3, <1>4, FirstRewrite DEF Next

LEMMA AbsElems ==
  ASSUME NEW s
  PROVE  Abstract!Elems(s) = Elems(s)
  BY DEF Abstract!Elems, Elems

\* What a reader shows is a prefix of the log.
ViewsArePrefixes ==
  \A r \in Readers : \E n \in 0..Len(LogSeq) : rd[r].view = {f \in LogFrames : f.tx < n}

LEMMA ViewPrefix == IInv /\ RInv /\ MInv => ViewsArePrefixes
<1> SUFFICES ASSUME IInv, RInv, MInv, NEW r \in Readers
             PROVE  \E n \in 0..Len(LogSeq) : rd[r].view = {f \in LogFrames : f.tx < n}
  BY DEF ViewsArePrefixes
<1>0. PICK L, l : L = LogFrames /\ l = Len(LogSeq)
  OBVIOUS
<1>1. SInv /\ Dense(L) /\ l \in Nat /\ \A f \in L : f.tx \in Nat /\ f.tx < l
  <2>1. SInv /\ Dense(L) /\ Lists(LogSeq, L)
    BY <1>0, LogFacts DEF IInv
  <2> QED BY <1>0, <2>1 DEF Dense, Lists
<1>2. CASE ~rd[r].live
  <2>1. rd[r].view = {} /\ 0 \in 0..l
    BY <1>1, <1>2 DEF MInv, ReopenInv
  <2>2. {f \in L : f.tx < 0} = {}
    BY <1>1
  <2> QED BY <1>0, <2>1, <2>2
<1>3. CASE rd[r].live
  <2>1. PICK x : x = rd[r]
    OBVIOUS
  <2>2. x \in ReaderType /\ ViewOk(x) /\ x.live
    BY <1>3, <2>1 DEF IInv, ReaderTypeOK, RInv, HandleInv
  <2>3. /\ x.seq \in Nat /\ x.len \in Nat /\ x.seq <= N /\ x.len <= Len(files[x.seq])
        /\ \A j \in 1..x.len : Whole(files[x.seq][j])
        /\ x.view = Prefix(x.seq, x.len)
    BY <2>2, HandleType DEF ViewOk
  <2>4. x.seq \in 0..N
    BY <1>1, <2>3, Basics
  <2>5. /\ First(x.seq) + x.len \in Nat
        /\ x.view = {f \in LogFrames : f.tx < First(x.seq) + x.len}
    BY <1>1, <2>3, <2>4, PrefixCount
  <2>6. PICK c : c = First(x.seq) + x.len
    OBVIOUS
  <2>7. c \in Nat /\ x.view = {f \in L : f.tx < c}
    BY <1>0, <2>5, <2>6
  <2>8. CASE c <= l
    <3>1. c \in 0..l
      BY <1>1, <2>7, <2>8
    <3> QED BY <1>0, <2>1, <2>7, <3>1
  <2>9. CASE ~(c <= l)
    <3>1. l \in 0..l /\ \A f \in L : (f.tx < c) <=> (f.tx < l)
      BY <1>1, <2>7, <2>9
    <3> QED BY <1>0, <2>1, <2>7, <3>1
  <2> QED BY <2>8, <2>9
<1> QED BY <1>2, <1>3

LEMMA WriteEndRefines ==
  ASSUME IInv, IInv', RInv, MInv, WriteEnd
  PROVE  Abstract!Add
<1>00. rewritten' = rewritten
  BY DEF WriteEnd
<1>0. SInv /\ SInv' /\ AttrInv
  BY DEF IInv, RInv
<1>1. PICK f : f = NewFrame
  OBVIOUS
<1>2. /\ LogFrames' = LogFrames \cup {f} /\ f.tx = Cardinality(LogFrames)
      /\ f.tx = Base + Len(Active) /\ Len(Active) >= 1 /\ attempts >= 1
  BY <1>0, <1>1, WriteEndLog
<1>3. PICK M, u : M = LogFrames' /\ u = LogSeq' /\ Dense(M) /\ Lists(u, M)
  BY <1>0, NextLog
<1>4. PICK L, s : L = LogFrames /\ s = LogSeq
  OBVIOUS
<1>5. Dense(L) /\ Lists(s, L) /\ M = L \cup {f} /\ f.tx = Cardinality(L)
  BY <1>0, <1>2, <1>3, <1>4, LogFacts
<1>6. u = Append(s, f)
  BY <1>3, <1>5, ListAdd
<1>7. f \in [tx : 0..MaxAppends, id : 1..MaxAppends, attr : 0..MaxAttrs]
  <2>1. /\ f = [tx |-> next_tx, id |-> attempts, attr |-> manifest.attrs]
        /\ next_tx \in Nat /\ attempts \in Nat /\ manifest.attrs \in Nat
    BY <1>0, <1>1 DEF NewFrame, SInv, CleanTypeOK, StoreTypeOK
  <2>2. Base \in Int /\ Len(Active) \in Nat
    BY <1>0, Basics
  <2>3. PICK b, m : b = Base /\ m = Len(Active)
    OBVIOUS
  <2>4. next_tx = b + m /\ b + 1 + m <= attempts /\ attempts <= MaxAppends /\ manifest.attrs <= MaxAttrs
    BY <1>2, <2>1, <2>3 DEF MInv, BoundInv
  <2>5. next_tx \in 0..MaxAppends /\ attempts \in 1..MaxAppends /\ manifest.attrs \in 0..MaxAttrs
    BY <1>2, <2>1, <2>2, <2>3, <2>4, ConstantsAssumption
  <2> QED BY <2>1, <2>5
<1>8. acked' = acked /\ rd' = rd
  BY DEF WriteEnd
<1>9. LogSeq' = Append(LogSeq, f)
  BY <1>3, <1>4, <1>6
<1> QED BY <1>00, <1>7, <1>8, <1>9 DEF Abstract!Add

LEMMA QuietRefines ==
  ASSUME IInv, IInv', RInv, MInv,
         \/ OpenScan \/ OpenHead \/ OpenRefused \/ PersistManifest \/ WriteStart \/ SyncActive
         \/ PublishHead \/ SealActive \/ SaveManifest \/ Roll \/ Crash
  PROVE  Abstract!Acknowledge \/ UNCHANGED Abstract!vars
<1>0. SInv /\ SInv' /\ AttrInv /\ PendingOne
  BY DEF IInv, RInv, MInv
<1>1. LogFrames' \subseteq LogFrames
  BY <1>0, WriterNoNew, LogShrinks
<1>2. LogFrames \subseteq LogFrames' /\ rd' = rd
  BY <1>0, WriterLogGrows DEF WriterNext
<1>3. LogFrames' = LogFrames
  BY <1>1, <1>2
<1>4. LogSeq' = LogSeq
  BY <1>0, <1>3, LogSame
<1>5. acked' = acked \/ acked' = acked \cup pending
  BY DEF OpenScan, OpenHead, OpenRefused, PersistManifest, WriteStart, SyncActive, PublishHead,
         SealActive, SaveManifest, Roll, Crash
<1>50. rewritten' = rewritten
  BY DEF OpenScan, OpenHead, OpenRefused, PersistManifest, WriteStart, SyncActive, PublishHead,
         SealActive, SaveManifest, Roll, Crash
<1>6. CASE acked' = acked
  BY <1>2, <1>4, <1>50, <1>6 DEF Abstract!vars
<1>7. CASE acked' = acked \cup pending /\ acked' # acked
  <2>1. PICK f \in pending : pending = {f}
    BY <1>0, <1>7 DEF PendingOne
  <2>2. f \in LogFrames
    BY <1>0, <1>3, <1>7, <2>1, NextLog
  <2>3. Elems(LogSeq) = LogFrames
    BY <1>0, LogFacts, ListAll
  <2>4. f \in Abstract!Elems(LogSeq) /\ acked' = acked \cup {f}
    BY <1>7, <2>1, <2>2, <2>3, AbsElems
  <2> QED BY <1>2, <1>4, <1>50, <2>4 DEF Abstract!Acknowledge
<1> QED BY <1>5, <1>6, <1>7

LEMMA PowerLossRefines ==
  ASSUME IInv, IInv', PowerLoss
  PROVE  Abstract!LosePower
<1>0. SInv /\ SInv'
  BY DEF IInv
<1>1. LogFrames' \subseteq LogFrames
  BY <1>0, PowerLossFiles, LogShrinks
<1>2. PICK M, u : M = LogFrames' /\ u = LogSeq' /\ Dense(M) /\ Lists(u, M)
  BY <1>0, NextLog
<1>3. PICK L, s : L = LogFrames /\ s = LogSeq
  OBVIOUS
<1>4. Dense(L) /\ Lists(s, L) /\ M \subseteq L
  BY <1>0, <1>1, <1>2, <1>3, LogFacts
<1>5. Len(u) \in 0..Len(s) /\ u = SubSeq(s, 1, Len(u))
  BY <1>2, <1>4, ListCut
<1>6. acked' = acked /\ rewritten' = rewritten /\ rd' = [r \in Readers |-> NoReader]
  BY DEF PowerLoss
<1>7. acked \subseteq Elems(u)
  <2>1. Elems(u) = M
    BY <1>2, ListAll
  <2> QED BY <1>0, <1>2, <1>6, <2>1, NextLog
<1>8. acked \subseteq Abstract!Elems(SubSeq(s, 1, Len(u)))
  BY <1>5, <1>7, AbsElems
<1>9. [r \in Readers |-> rd'[r].view] = [r \in Readers |-> {}]
  BY <1>6 DEF NoReader
<1>10. \E n \in 0..Len(LogSeq) :
         acked \subseteq Abstract!Elems(SubSeq(LogSeq, 1, n)) /\ LogSeq' = SubSeq(LogSeq, 1, n)
  BY <1>2, <1>3, <1>5, <1>8
<1> QED BY <1>6, <1>9, <1>10 DEF Abstract!LosePower

LEMMA ReaderRefines ==
  ASSUME IInv, IInv', RInv, RInv', MInv, MInv', NEW r \in Readers,
         \/ ReaderLoadManifest(r) \/ ReaderStat(r) \/ ReaderGet(r)
         \/ ReaderCheckHead(r) \/ ReaderScanActive(r)
         \/ RefreshHead(r) \/ RefreshStat(r) \/ RefreshTail(r)
         \/ RefreshAdvance(r) \/ RefreshReopen(r)
  PROVE  Abstract!Observe(r)
<1>0. SInv /\ SInv' /\ rd \in [Readers -> ReaderType] /\ HInv /\ ReopenInv
  BY DEF IInv, HInv, RInv, MInv, ReaderTypeOK
<1>1. files' = files /\ manifest' = manifest /\ acked' = acked /\ rewritten' = rewritten
  BY DEF ReaderLoadManifest, ReaderStat, ReaderGet, ReaderCheckHead,
         ReaderScanActive, RefreshHead, RefreshStat,
         RefreshTail, RefreshAdvance, RefreshReopen, NotReader, disk, writer
<1>2. LogFrames' = LogFrames
  <2>1. NoNew
    BY <1>1 DEF NoNew
  <2>2. N' = N /\ N \in Nat
    BY <1>0, <1>1, Basics DEF N
  <2>3. N <= N' /\ N' \in Nat
    BY <2>2
  <2>4. LogFrames \subseteq LogFrames'
    BY <1>0, <1>1, <2>3, LogGrows
  <2> QED BY <1>0, <2>1, <2>4, LogShrinks
<1>3. LogSeq' = LogSeq
  BY <1>0, <1>2, LogSame
<1>4. rd' = [rd EXCEPT ![r] = rd'[r]] /\ rd[r].view \subseteq rd'[r].view
  BY <1>0, ReaderMoves
<1>5. (IInv /\ RInv /\ MInv => ViewsArePrefixes)'
  BY ViewPrefix, PTL
<1>6. PICK n \in 0..Len(LogSeq) : rd'[r].view = {f \in LogFrames : f.tx < n}
  <2>1. PICK n \in 0..Len(LogSeq') : rd'[r].view = {f \in LogFrames' : f.tx < n}
    BY <1>5 DEF ViewsArePrefixes
  <2> QED BY <1>2, <1>3, <2>1
<1>7. Elems(SubSeq(LogSeq, 1, n)) = {f \in LogFrames : f.tx < n}
  BY <1>0, LogFacts, ListElems
<1>8. PICK seen : seen = Abstract!Elems(SubSeq(LogSeq, 1, n))
  OBVIOUS
<1>9. rd'[r].view = seen /\ rd[r].view \subseteq seen
  BY <1>4, <1>6, <1>7, <1>8, AbsElems
<1>10. [q \in Readers |-> rd'[q].view] = [[q \in Readers |-> rd[q].view] EXCEPT ![r] = seen]
  BY <1>0, <1>4, <1>9
<1>11. [q \in Readers |-> rd[q].view][r] = rd[r].view
  OBVIOUS
<1> QED BY <1>1, <1>3, <1>8, <1>9, <1>10, <1>11 DEF Abstract!Observe

-----------------------------------------------------------------------------

Unmapped == ~rewritten => MInv

\* Everything the refinement rests on, in every reachable state in which no read-only open has
\* rewritten a segment.
THEOREM MInvariance == Spec => [](~rewritten => IInv /\ RInv /\ MInv)
<1>1. Init => Unmapped
  BY InitMInv DEF Unmapped
<1>2. (~rewritten => IInv /\ RInv) /\ Formed /\ Unmapped /\ [Next]_vars => Unmapped'
  BY MInvStep, StaysRewritten DEF Unmapped
<1>3. Spec => []Unmapped
  BY <1>1, <1>2, ReaderInvariance, FormInvariance, PTL DEF Spec
<1>4. Unmapped <=> (~rewritten => MInv)
  BY DEF Unmapped
<1> QED BY <1>3, <1>4, ReaderInvariance, PTL

LEMMA InitRefines == Init => Abstract!Init
<1> SUFFICES ASSUME Init PROVE Abstract!Init
  OBVIOUS
<1>1. /\ acked = {} /\ rd = [r \in Readers |-> NoReader] /\ rewritten = FALSE
      /\ manifest.sealed = <<>> /\ files[0] = <<>>
  BY ConstantsAssumption DEF Init, Segs
<1>2. [r \in Readers |-> rd[r].view] = [r \in Readers |-> {}]
  BY <1>1 DEF NoReader
<1>3. LogSeq = <<>>
  <2>1. SInv
    BY InitSInv
  <2>2. SealedTxMax(manifest) + 1 = 0 /\ Active = <<>>
    BY <1>1 DEF SealedTxMax, Active, ActiveSeq
  <2>3. ValidLen(<<>>) = 0
    <3>0. PICK s : s = <<>>
      OBVIOUS
    <3>1. s = <<>> /\ s \in Seq(Frame) /\ Len(s) = 0
      BY <3>0
    <3>2. \A j \in 1..Len(s) : j < Len(s) => Whole(s[j])
      BY <3>1
    <3>3. ValidLen(s) \in 0..Len(s)
      BY <3>1, <3>2, ValidLenTail
    <3> QED BY <3>1, <3>3
  <2>4. Lists(LogSeq, LogFrames)
    BY <2>1, LogLists
  <2>5. LogSeq = [t \in 1..0 + 0 |-> IF t <= 0 THEN SealedFrame(t) ELSE Active[t - 0]]
    BY <2>2, <2>3 DEF LogSeq
  <2>6. LogSeq \in Seq(LogFrames) /\ DOMAIN LogSeq = {}
    BY <2>4, <2>5 DEF Lists
  <2> QED BY <2>6, EmptySeq
<1> QED BY <1>1, <1>2, <1>3 DEF Abstract!Init

\* One step, until a read-only open rewrites a segment: that is a step of the log too, the one
\* after which nothing is promised.
LEMMA StepRefines ==
  ASSUME IInv, RInv, MInv, IInv', RInv', MInv', [Next]_vars
  PROVE  Abstract!Next \/ UNCHANGED Abstract!vars
<1>0. ~rewritten' /\ SInv
  BY DEF IInv, SInv, CleanTypeOK
<1>1. CASE WriteEnd
  BY <1>1, WriteEndRefines DEF Abstract!Next
<1>2. CASE \/ OpenScan \/ OpenHead \/ OpenRefused \/ PersistManifest \/ WriteStart \/ SyncActive
           \/ PublishHead \/ SealActive \/ SaveManifest \/ Roll \/ Crash
  BY <1>2, QuietRefines DEF Abstract!Next
<1>3. CASE PowerLoss
  BY <1>3, PowerLossRefines DEF Abstract!Next
<1>4. CASE ReaderNext
  <2>1. PICK r \in Readers :
          \/ ReaderLoadManifest(r) \/ ReaderStat(r) \/ ReaderGet(r)
          \/ ReaderCheckHead(r) \/ ReaderScanActive(r)
          \/ RefreshHead(r) \/ RefreshStat(r) \/ RefreshTail(r)
          \/ RefreshAdvance(r) \/ RefreshReopen(r)
    BY <1>4 DEF ReaderNext
  <2>2. Abstract!Observe(r)
    BY <2>1, ReaderRefines
  <2> QED BY <2>2 DEF Abstract!Next
<1>5. CASE UNCHANGED vars
  <2>1. UNCHANGED <<files, manifest, acked, rd, rewritten>>
    BY <1>5 DEF vars
  <2>2. LogSeq' = LogSeq
    BY <2>1 DEF LogSeq, SealedFrame, SealedTxMax, ValidLen, Active, ActiveSeq
  <2> QED BY <2>1, <2>2 DEF Abstract!vars
<1> QED BY <1>0, <1>1, <1>2, <1>3, <1>4, <1>5, FirstRewrite, NoMismatch DEF Next, WriterNext

Mapped == ~rewritten => IInv /\ RInv /\ MInv

\* The segment store implements the append-only log, for every number of readers, every seal
\* threshold and every bound: each write, fsync, HEAD and manifest replacement, crash and
\* recovery, power failure and file read of a reader is a step of AppendLog or invisible in it,
\* until a read-only open rewrites a segment, which is AppendLog's Spoil.
THEOREM Refinement == Spec => ImplementsAppendLog
<1>1. Mapped /\ Formed /\ Formed' /\ Mapped' /\ [Next]_vars => [Abstract!Next]_Abstract!vars
  <2> SUFFICES ASSUME Mapped, Formed, Formed', Mapped', [Next]_vars
               PROVE  Abstract!Next \/ UNCHANGED Abstract!vars
    OBVIOUS
  <2>1. CASE rewritten'
    <3>1. rewritten' = TRUE
      BY <2>1 DEF Formed, StoreFormed, StoreTypeOK
    <3> QED BY <3>1 DEF Abstract!Next, Abstract!Spoil
  <2>2. CASE ~rewritten'
    <3>1. ~rewritten
      BY <2>2, StaysRewritten
    <3> QED BY <2>2, <3>1, StepRefines DEF Mapped
  <2> QED BY <2>1, <2>2
<1>2. Mapped <=> (~rewritten => IInv /\ RInv /\ MInv)
  BY DEF Mapped
<1>3. Init => Abstract!Init
  BY InitRefines
<1>4. Spec => []Mapped
  BY <1>2, MInvariance, PTL
<1> QED BY <1>1, <1>3, <1>4, FormInvariance, PTL DEF Spec, ImplementsAppendLog, Abstract!Spec
=============================================================================
