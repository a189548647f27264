---------------------------- MODULE SegmentStore ----------------------------
(***************************************************************************)
(* The fact-segment store of ekos-ledger (ledger/src/segment/mod.rs) on a  *)
(* local directory: one writer, protected by the cross-process write lock, *)
(* and any number of read-only handles that take no lock at all, yet may   *)
(* write: an open that finds the active segment empty puts there, and into *)
(* HEAD, what it then reads from the same directory (ReaderTruncate ...).  *)
(*                                                                         *)
(* A file is the sequence of its frames.  Every frame counts as one unit   *)
(* of length; a frame of which only a part has reached the file is Torn.   *)
(* A step of the writer is one write that another process, a crash or a    *)
(* power failure can see before the next one; a step of a reader is one    *)
(* file it reads.                                                          *)
(***************************************************************************)
EXTENDS Integers, Sequences, FiniteSets

CONSTANTS Readers,      \* read-only handles
          SealLen,      \* seal_bytes: the length at which the active segment seals
          MaxAppends,   \* bound: append_with_seal calls that reach the file
          MaxSegs,      \* bound: segments that can be sealed
          MaxAttrs,     \* bound: attribute paths interned
          MaxCrashes    \* bound: crashes, power failures and rewrites by a reader's open

ASSUME ConstantsAssumption ==
  /\ SealLen \in Nat \ {0}
  /\ MaxAppends \in Nat /\ MaxSegs \in Nat /\ MaxAttrs \in Nat /\ MaxCrashes \in Nat

VARIABLES
  files,     \* files[n]: the frames of segments/seg-n.facts, as any process reads them
  synced,    \* synced[n]: how many of them a power failure cannot take away
  manifest,  \* manifest.json: [sealed, attrs]
  head,      \* HEAD: [active_seq, committed_len]
  wpc,       \* where the writer is; "closed" when no process has the store open
  mhead,     \* SegmentStore::head of the writer
  next_tx,   \* SegmentStore::next_tx of the writer
  pending,   \* the frame of the append that has not returned yet, as a set
  attempts,  \* frames ever started: makes every frame distinguishable
  acked,     \* frames whose append returned Ok
  crashes,   \* crashes, power failures and rewrites so far
  rewritten, \* history: a read-only open has begun to write the active segment anew
  rd         \* rd[r]: reader r's handle, and the operation it is in

disk    == <<files, synced, manifest, head>>
writer  == <<wpc, mhead, next_tx, pending, attempts, acked>>
vars    == <<files, synced, manifest, head, wpc, mhead, next_tx, pending,
             attempts, acked, crashes, rewritten, rd>>

Segs  == 0..MaxSegs
Frame == [tx : Nat, id : Nat, attr : Nat]
Torn  == [tx |-> 0, id |-> 0, attr |-> 0]

Whole(f) == f.id # 0

Elems(s) == {s[i] : i \in 1..Len(s)}

\* walk_frames: the walk ends at the first frame that is not whole, never with an error.
ValidLen(s) ==
  CHOOSE n \in 0..Len(s) : /\ \A i \in 1..n : Whole(s[i])
                           /\ n < Len(s) => ~Whole(s[n + 1])

\* Mutation of Valid: a scan that takes a torn frame for a batch.
MValid(s) == s

Valid(s) == SubSeq(s, 1, ValidLen(s))

\* The active segment the manifest implies: one past the last sealed one.
ActiveSeq(m) == Len(m.sealed)

LastTx(s) == IF s = <<>> THEN -1 ELSE s[Len(s)].tx

SealedTxMax(m) == IF m.sealed = <<>> THEN -1 ELSE m.sealed[Len(m.sealed)].tx_max

\* Mutations of NextTx: the sealed history forgotten; the last tx used again.
MNextTxActive(m, active) == LastTx(active) + 1
MNextTxLast(m, active) ==
  IF SealedTxMax(m) > LastTx(active) THEN SealedTxMax(m) ELSE LastTx(active)

\* next_tx after an open: past the sealed history and past the active segment.
NextTx(m, active) ==
  IF SealedTxMax(m) > LastTx(active) THEN SealedTxMax(m) + 1 ELSE LastTx(active) + 1

\* A new store: no manifest and no HEAD.  An absent HEAD is never compared with
\* anything, exactly like one that names segment 0 while nothing is sealed.
NoHead == [active_seq |-> 0, committed_len |-> 0]

\* A HEAD that is empty, as long as a reader's open is writing it: it does not parse, and is not
\* compared with anything.
EmptyHead == [active_seq |-> -1, committed_len |-> 0]

HeadAgrees(seq) == head.active_seq \in {seq, EmptyHead.active_seq}

NoReader == [pc |-> "none", live |-> FALSE, seq |-> 0, attrs |-> 0, len |-> 0,
             view |-> {}, start |-> {}, mseq |-> 0, mattrs |-> 0, tail |-> <<>>,
             pulled |-> NoHead]

Init ==
  /\ files = [n \in Segs |-> <<>>]
  /\ synced = [n \in Segs |-> 0]
  /\ manifest = [sealed |-> <<>>, attrs |-> 0]
  /\ head = NoHead
  /\ wpc = "closed" /\ mhead = NoHead /\ next_tx = 0
  /\ pending = {} /\ attempts = 0 /\ acked = {} /\ crashes = 0 /\ rewritten = FALSE
  /\ rd = [r \in Readers |-> NoReader]

-----------------------------------------------------------------------------
(* The writer: open_inner with read_only = false *)

\* Mutation of Recovered: only what the watermark covers is kept.
MRecovered(s) == SubSeq(s, 1, IF head.committed_len < Len(s) THEN head.committed_len ELSE Len(s))

\* Recovery keeps every valid frame, those past the watermark too.
Recovered(s) == Valid(s)

\* HEAD and the manifest agree: scan the active file, cut off a torn tail (and
\* fsync, but only then), and compute what the handle remembers. (The lines that fill an empty
\* active segment are here too; the writer, which has the lock, finds it still empty.)
OpenScan ==
  LET a == ActiveSeq(manifest)
      s == Recovered(files[a])
  IN  /\ wpc = "closed"
      /\ HeadAgrees(a)
      /\ files' = [files EXCEPT ![a] = s]
      /\ synced' = IF Len(s) < Len(files[a]) THEN [synced EXCEPT ![a] = Len(s)] ELSE synced
      /\ mhead' = [active_seq |-> a, committed_len |-> Len(s)]
      /\ next_tx' = NextTx(manifest, s)
      /\ wpc' = "opening"
      /\ UNCHANGED <<manifest, head, pending, attempts, acked, crashes, rewritten, rd>>

\* ... and republish the watermark.
OpenHead ==
  /\ wpc = "opening"
  /\ head' = mhead
  /\ wpc' = "idle"
  /\ UNCHANGED <<files, synced, manifest, mhead, next_tx, pending, attempts,
                 acked, crashes, rewritten, rd>>

\* "HEAD names segment .. but the manifest implies active segment ..": Corrupt.
OpenRefused ==
  /\ wpc = "closed"
  /\ ~HeadAgrees(ActiveSeq(manifest))
  /\ wpc' = "refused"
  /\ UNCHANGED <<disk, mhead, next_tx, pending, attempts, acked, crashes, rewritten, rd>>

-----------------------------------------------------------------------------
(* The writer: append_with_seal, as FactLedger::append_inner calls it *)

\* decompose interned a new attribute path: the manifest goes first.
PersistManifest ==
  /\ wpc = "idle" /\ attempts < MaxAppends /\ manifest.attrs < MaxAttrs
  /\ manifest' = [manifest EXCEPT !.attrs = @ + 1]
  /\ wpc' = "interned"
  /\ UNCHANGED <<files, synced, head, mhead, next_tx, pending, attempts, acked,
                 crashes, rewritten, rd>>

\* write_all has put a part of the frame into the file ...
WriteStart ==
  /\ wpc \in {"idle", "interned"} /\ attempts < MaxAppends
  /\ files' = [files EXCEPT ![mhead.active_seq] = Append(@, Torn)]
  /\ attempts' = attempts + 1
  /\ wpc' = "writing"
  /\ UNCHANGED <<synced, manifest, head, mhead, next_tx, pending, acked,
                 crashes, rewritten, rd>>

NewFrame == [tx |-> next_tx, id |-> attempts, attr |-> manifest.attrs]

\* ... and now all of it, unless a reader's open has put the file's beginning there anew: what is
\* still to be written then goes to the end of whatever the file has become.
WriteEnd ==
  LET a == mhead.active_seq
      s == files[a]
  IN  /\ wpc = "writing"
      /\ \/ /\ s # <<>> /\ ~Whole(s[Len(s)])
            /\ files' = [files EXCEPT ![a] = [s EXCEPT ![Len(s)] = NewFrame]]
         \/ /\ rewritten
            /\ files' = [files EXCEPT ![a] = Append(s, Torn)]
      /\ pending' = {NewFrame}
      /\ wpc' = "written"
      /\ UNCHANGED <<synced, manifest, head, mhead, next_tx, attempts, acked,
                     crashes, rewritten, rd>>

\* Mutation of Fsync: the call is missing.
MFsync(n) == UNCHANGED synced

\* File::sync_all on segment n.
Fsync(n) == synced' = [synced EXCEPT ![n] = Len(files[n])]

\* sync_all, then the memory of the handle moves on.
SyncActive ==
  /\ wpc = "written"
  /\ Fsync(mhead.active_seq)
  /\ next_tx' = next_tx + 1
  /\ mhead' = [mhead EXCEPT !.committed_len = @ + 1]
  /\ wpc' = "synced"
  /\ UNCHANGED <<files, manifest, head, pending, attempts, acked, crashes, rewritten, rd>>

\* write_head, and append returns unless the segment is due for sealing.
PublishHead ==
  /\ wpc = "synced"
  /\ head' = mhead
  /\ IF mhead.committed_len >= SealLen
       THEN wpc' = "sealing" /\ UNCHANGED <<acked, pending>>
       ELSE wpc' = "idle" /\ acked' = acked \cup pending /\ pending' = {}
  /\ UNCHANGED <<files, synced, manifest, mhead, next_tx, attempts, crashes, rewritten, rd>>

-----------------------------------------------------------------------------
(* The writer: seal_active *)

\* seal_and_flush calls it directly; a no-op on an empty active segment.
SealActive ==
  /\ wpc = "idle" /\ mhead.committed_len # 0
  /\ wpc' = "sealing"
  /\ UNCHANGED <<disk, mhead, next_tx, pending, attempts, acked, crashes, rewritten, rd>>

\* The manifest entry of segment n: its length, its hash and its first and last header.
SealedEntry(n) ==
  LET batches == Valid(files[n])
  IN  [seq |-> n, len |-> Len(files[n]), sha |-> files[n],
       tx_min |-> batches[1].tx, tx_max |-> batches[Len(batches)].tx]

\* "segment .. is .. bytes but the watermark says ..", or it "has no batches".
Sealable(n) == Len(files[n]) = mhead.committed_len /\ ValidLen(files[n]) # 0

\* fsync, hash, check the length against the watermark, publish, save_manifest.
SaveManifest ==
  LET a == mhead.active_seq
  IN  /\ wpc = "sealing" /\ Len(manifest.sealed) < MaxSegs
      /\ Sealable(a)
      /\ Fsync(a)
      /\ manifest' = [manifest EXCEPT !.sealed = Append(@, SealedEntry(a))]
      /\ wpc' = "manifested"
      /\ UNCHANGED <<files, head, mhead, next_tx, pending, attempts, acked,
                     crashes, rewritten, rd>>

\* After the fsync: the append that was due to seal returns Corrupt, its frame committed or not.
SealMismatch ==
  /\ wpc = "sealing" /\ ~Sealable(mhead.active_seq)
  /\ Fsync(mhead.active_seq)
  /\ wpc' = "idle" /\ pending' = {}
  /\ UNCHANGED <<files, manifest, head, mhead, next_tx, attempts, acked, crashes, rewritten, rd>>

\* Mutation of RolledHead: the new active segment keeps the sealed one's number.
MRolledHead == [active_seq |-> mhead.active_seq, committed_len |-> 0]

RolledHead == [active_seq |-> mhead.active_seq + 1, committed_len |-> 0]

\* A fresh active file, and HEAD names it; the append that caused it returns.
Roll ==
  /\ wpc = "manifested"
  /\ mhead' = RolledHead
  /\ head' = RolledHead
  /\ acked' = acked \cup pending
  /\ pending' = {}
  /\ wpc' = "idle"
  /\ UNCHANGED <<files, synced, manifest, next_tx, attempts, crashes, rewritten, rd>>

-----------------------------------------------------------------------------
(* Failures (the environment) *)

ForgetWriter ==
  /\ wpc' = "closed" /\ mhead' = NoHead /\ next_tx' = 0 /\ pending' = {}
  /\ crashes' = crashes + 1

\* The writing process ends, at any point: its memory goes, every file stays.
Crash ==
  /\ wpc \notin {"closed", "refused"} /\ crashes < MaxCrashes
  /\ ForgetWriter
  /\ UNCHANGED <<disk, attempts, acked, rewritten, rd>>

\* What a power failure leaves of a file of which n frames were synced: those,
\* perhaps some more, and perhaps (torn = 1) a part of the next one.
Survive(s, n, more, torn) ==
  LET k == IF n + more < Len(s) THEN n + more ELSE Len(s)
  IN  IF torn = 1 /\ k < Len(s) THEN Append(SubSeq(s, 1, k), Torn) ELSE SubSeq(s, 1, k)

\* The machine stops: every process with it.  HEAD and the manifest are replaced
\* by write-temp, fsync, rename and directory fsync, so they stay, but for a HEAD that a reader's
\* open has written.
PowerLoss ==
  /\ crashes < MaxCrashes
  /\ ForgetWriter
  /\ \E more \in 0..MaxAppends, torn \in 0..1 :
       /\ files' = [n \in Segs |-> Survive(files[n], synced[n], more, torn)]
       /\ synced' = [n \in Segs |-> Len(Survive(files[n], synced[n], more, torn))]
  /\ head' = head \/ (rewritten /\ head' = EmptyHead)
  /\ rd' = [r \in Readers |-> NoReader]
  /\ UNCHANGED <<manifest, attempts, acked, rewritten>>

-----------------------------------------------------------------------------
(* A reader: open_inner with read_only = true.  A reopen that fails leaves *)
(* the old handle as it was.                                               *)

Set(r, rec) == rd' = [rd EXCEPT ![r] = rec]

\* rd[r] once its operation is over, with the scratch fields cleared.
Done(rec, pc) == [rec EXCEPT !.pc = pc, !.mseq = 0, !.mattrs = 0, !.tail = <<>>]

\* rd[r] once the files of the open are in place.
Placed(rec) == [rec EXCEPT !.pc = "o_local", !.tail = <<>>, !.pulled = NoHead]

\* Fields every operation of the reader leaves to the writer.
NotReader == <<disk, writer, crashes, rewritten>>

ReaderLoadManifest(r) ==
  /\ rd[r].pc = "reopen" \/ (~rd[r].live /\ rd[r].pc \in {"none", "failed"})
  /\ Set(r, [rd[r] EXCEPT !.pc = "o_manifest", !.mseq = ActiveSeq(manifest),
                          !.mattrs = manifest.attrs,
                          !.start = IF rd[r].pc = "reopen" THEN @ ELSE acked])
  /\ UNCHANGED NotReader

\* An active segment that is absent or empty is looked for in the backend ...
ReaderStat(r) ==
  /\ rd[r].pc = "o_manifest"
  /\ Set(r, IF files[rd[r].mseq] = <<>> THEN [rd[r] EXCEPT !.pc = "o_stat"] ELSE Placed(rd[r]))
  /\ UNCHANGED NotReader

\* ... which for a local ledger is this directory: the writer's first frame may be there by now ...
ReaderGet(r) ==
  LET bytes == files[rd[r].mseq]
  IN  /\ rd[r].pc = "o_stat"
      /\ Set(r, IF bytes = <<>> THEN Placed(rd[r])
                ELSE [rd[r] EXCEPT !.pc = "o_get", !.tail = bytes])
      /\ UNCHANGED NotReader

\* ... and fs::write puts what was read where it was read from: it truncates the file, with
\* whatever the writer has appended since and even when it is sealed by now ...
ReaderTruncate(r) ==
  /\ rd[r].pc = "o_get" /\ crashes < MaxCrashes /\ crashes' = crashes + 1
  /\ files' = [files EXCEPT ![rd[r].mseq] = <<>>]
  /\ synced' = [synced EXCEPT ![rd[r].mseq] = 0]
  /\ rewritten' = TRUE
  /\ Set(r, [rd[r] EXCEPT !.pc = "o_write"])
  /\ UNCHANGED <<manifest, head, writer>>

\* What is left of a file behind bytes that are written over its beginning: frames differ in
\* length, so that any number of them can be gone, and the first one behind may be cut.
Behind(s) ==
  {<<>>} \cup {cut \o SubSeq(s, n + 1, Len(s)) : n \in 1..Len(s), cut \in {<<>>, <<Torn>>}}

\* ... then writes its beginning, without a sync.
ReaderWrite(r) ==
  LET a == rd[r].mseq
  IN  /\ rd[r].pc = "o_write"
      /\ \E rest \in Behind(files[a]) : files' = [files EXCEPT ![a] = rd[r].tail \o rest]
      /\ synced' = [synced EXCEPT ![a] = 0]
      /\ Set(r, [rd[r] EXCEPT !.pc = "o_written", !.tail = <<>>])
      /\ UNCHANGED <<manifest, head, writer, crashes, rewritten>>

\* HEAD is read, truncated and written in the same way ...
ReaderGetHead(r) ==
  /\ rd[r].pc = "o_written"
  /\ Set(r, [rd[r] EXCEPT !.pc = "o_gethead", !.pulled = head])
  /\ UNCHANGED NotReader

ReaderTruncateHead(r) ==
  /\ rd[r].pc = "o_gethead"
  /\ head' = EmptyHead
  /\ Set(r, [rd[r] EXCEPT !.pc = "o_writehead"])
  /\ UNCHANGED <<files, synced, manifest, writer, crashes, rewritten>>

\* ... but if the writer has renamed another one into its place, the bytes go to the old one.
ReaderWriteHead(r) ==
  /\ rd[r].pc = "o_writehead"
  /\ head' = IF head = EmptyHead THEN rd[r].pulled ELSE head
  /\ Set(r, Placed(rd[r]))
  /\ UNCHANGED <<files, synced, manifest, writer, crashes, rewritten>>

ReaderCheckHead(r) ==
  /\ rd[r].pc = "o_local"
  /\ Set(r, IF HeadAgrees(rd[r].mseq)
              THEN [rd[r] EXCEPT !.pc = "o_head"]
              ELSE Done(rd[r], "failed"))
  /\ UNCHANGED NotReader

\* batches_after: what the first n sealed segments of the manifest hold.
SealedFrames(n) ==
  UNION {Elems(SubSeq(files[e.seq], 1, e.len)) : e \in Elems(SubSeq(manifest.sealed, 1, n))}

\* "sealed segment .. has invalid frames": Corrupt.
SealedReadable(n) ==
  \A e \in Elems(SubSeq(manifest.sealed, 1, n)) : e.len <= ValidLen(files[e.seq])

ReaderScanActive(r) ==
  LET active == Valid(files[rd[r].mseq])
  IN  /\ rd[r].pc = "o_head"
      /\ \/ /\ SealedReadable(rd[r].mseq)
            /\ Set(r, Done([rd[r] EXCEPT !.live = TRUE, !.seq = rd[r].mseq,
                                         !.attrs = rd[r].mattrs, !.len = Len(active),
                                         !.view = SealedFrames(rd[r].mseq) \cup Elems(active)],
                           "open"))
         \/ /\ ~SealedReadable(rd[r].mseq)
            /\ Set(r, Done(rd[r], "failed"))
      /\ UNCHANGED NotReader

-----------------------------------------------------------------------------
(* A reader: refresh_read_only, called by refresh_snapshot *)

\* Mutation of HeadMoved: a seal goes unnoticed.
MHeadMoved(r) == FALSE

\* HEAD names another segment than the handle: a seal rolled the active segment.
HeadMoved(r) == ~HeadAgrees(rd[r].seq)

RefreshHead(r) ==
  /\ rd[r].live /\ rd[r].pc \in {"open", "failed"}
  /\ Set(r, [rd[r] EXCEPT !.start = acked,
                          !.pc = IF HeadMoved(r) THEN "reopen" ELSE "r_head"])
  /\ UNCHANGED NotReader

\* One stat of the active segment: shrunk, unchanged, or grown.
RefreshStat(r) ==
  LET len == Len(files[rd[r].seq])
  IN  /\ rd[r].pc = "r_head"
      /\ Set(r, [rd[r] EXCEPT !.pc = IF len < rd[r].len THEN "reopen"
                                     ELSE IF len = rd[r].len THEN "open"
                                     ELSE "r_stat"])
      /\ UNCHANGED NotReader

\* The tail is read before the manifest.
RefreshTail(r) ==
  /\ rd[r].pc = "r_stat"
  /\ Set(r, [rd[r] EXCEPT !.pc = "r_tail",
                          !.tail = SubSeq(files[rd[r].seq], rd[r].len + 1, Len(files[rd[r].seq]))])
  /\ UNCHANGED NotReader

\* Mutation of FreshAttrs: the handle keeps the registry it was opened with.
MFreshAttrs(r) == rd[r].attrs

FreshAttrs(r) == manifest.attrs

\* The manifest has the same sealed list: Advanced, or Unchanged on a frame in flight.
RefreshAdvance(r) ==
  LET new == Valid(rd[r].tail)
  IN  /\ rd[r].pc = "r_tail"
      /\ ActiveSeq(manifest) = rd[r].seq
      /\ Set(r, Done([rd[r] EXCEPT !.attrs = FreshAttrs(r), !.len = @ + Len(new),
                                   !.view = @ \cup Elems(new)], "open"))
      /\ UNCHANGED NotReader

\* The manifest has another sealed list: Reopen.
RefreshReopen(r) ==
  /\ rd[r].pc = "r_tail"
  /\ ActiveSeq(manifest) # rd[r].seq
  /\ Set(r, Done(rd[r], "reopen"))
  /\ UNCHANGED NotReader

-----------------------------------------------------------------------------

WriterNext ==
  \/ OpenScan \/ OpenHead \/ OpenRefused
  \/ PersistManifest \/ WriteStart \/ WriteEnd \/ SyncActive \/ PublishHead
  \/ SealActive \/ SaveManifest \/ SealMismatch \/ Roll

ReaderNext ==
  \E r \in Readers :
    \/ ReaderLoadManifest(r) \/ ReaderStat(r) \/ ReaderGet(r)
    \/ ReaderCheckHead(r) \/ ReaderScanActive(r)
    \/ RefreshHead(r) \/ RefreshStat(r) \/ RefreshTail(r)
    \/ RefreshAdvance(r) \/ RefreshReopen(r)

ReaderRewrites ==
  \E r \in Readers :
    \/ ReaderTruncate(r) \/ ReaderWrite(r)
    \/ ReaderGetHead(r) \/ ReaderTruncateHead(r) \/ ReaderWriteHead(r)

Next == WriterNext \/ Crash \/ PowerLoss \/ ReaderNext \/ ReaderRewrites

Spec == Init /\ [][Next]_vars

-----------------------------------------------------------------------------
(* Properties *)

WriterStates == {"closed", "refused", "opening", "idle", "interned", "writing",
                 "written", "synced", "sealing", "manifested"}
ReaderStates == {"none", "open", "failed", "reopen", "o_manifest", "o_stat", "o_get",
                 "o_write", "o_written", "o_gethead", "o_writehead", "o_local", "o_head",
                 "r_head", "r_stat", "r_tail"}

HeadType   == [active_seq : Nat, committed_len : Nat]
SealedType == [seq : Nat, len : Nat, sha : Seq(Frame), tx_min : Nat, tx_max : Nat]
ReaderType == [pc : ReaderStates, live : BOOLEAN, seq : Segs, attrs : Nat, len : Nat,
               view : SUBSET Frame, start : SUBSET Frame, mseq : Segs, mattrs : Nat,
               tail : Seq(Frame), pulled : HeadType \cup {EmptyHead}]

StoreTypeOK ==
  /\ files \in [Segs -> Seq(Frame)]
  /\ synced \in [Segs -> Nat]
  /\ manifest \in [sealed : Seq(SealedType), attrs : Nat]
  /\ head \in HeadType \cup {EmptyHead} /\ mhead \in HeadType
  /\ wpc \in WriterStates /\ rewritten \in BOOLEAN
  /\ next_tx \in Nat /\ attempts \in Nat /\ crashes \in Nat
  /\ pending \in SUBSET Frame /\ acked \in SUBSET Frame

ReaderTypeOK == rd \in [Readers -> ReaderType]

\* The type invariant: every variable of the store and of its handles is well formed.
TypeOK == StoreTypeOK /\ ReaderTypeOK

\* The frames a recovery that started now would find.
Active    == files[ActiveSeq(manifest)]
LogFrames == SealedFrames(Len(manifest.sealed)) \cup Elems(Valid(Active))

\* What follows up to FreshAsOfStart is void from the moment at which a read-only open that has met
\* the first append to an active segment truncates that segment (see ReaderTruncate).

\* A batch whose append returned Ok is in the sealed history, or in the part of the
\* active segment that is both readable and past a power failure: neither a crash nor
\* a power failure at any point of append, seal or recovery loses it, unless a read-only open
\* has rewritten a segment.
AckedDurable ==
  ~rewritten =>
    \A f \in acked :
      \/ f \in SealedFrames(Len(manifest.sealed))
      \/ \E j \in 1..synced[ActiveSeq(manifest)] : j <= ValidLen(Active) /\ Active[j] = f

\* tx is the ordering authority: over the sealed segments and then the active one, the
\* frames carry 0, 1, 2, .. with no gap and no repetition, whatever was lost or truncated
\* in between; the tx the writer would assign next continues that. Excepted is a store of which
\* a read-only open has rewritten a segment.
TxDense ==
  ~rewritten =>
    /\ \A i \in 1..Len(manifest.sealed) :
         LET e == manifest.sealed[i]
         IN  /\ e.tx_min = (IF i = 1 THEN 0 ELSE manifest.sealed[i - 1].tx_max + 1)
             /\ e.tx_max = e.tx_min + e.len - 1
             /\ \A j \in 1..e.len : files[e.seq][j].tx = e.tx_min + j - 1
    /\ \A j \in 1..ValidLen(Active) : Active[j].tx = SealedTxMax(manifest) + j
    /\ wpc = "idle" => next_tx = NextTx(manifest, Valid(Active))

\* Sealed segments are never written again, but by a read-only open that rewrites the segment it
\* took for the active one: each one still has the length and the hash that the manifest records
\* (verify_sealed finds nothing).
SealedImmutable ==
  ~rewritten => \A e \in Elems(manifest.sealed) : files[e.seq] = e.sha /\ Len(e.sha) = e.len

\* What a reader has decoded is a gap-free prefix of the log, whichever writes fell
\* between the files it read: it never shows a torn frame, never skips a batch, and
\* never holds one that recovery has dropped, unless a read-only open has rewritten a segment.
ReaderPrefix ==
  ~rewritten =>
    \A r \in Readers :
      rd[r].live => rd[r].view = {f \in LogFrames : f.tx < Cardinality(rd[r].view)}

\* "the read observes everything committed before it started": when an open or a
\* refresh_snapshot has returned Ok, the handle holds every batch that was
\* acknowledged before the call, seals between its file reads included, unless a read-only open
\* has rewritten a segment.
FreshAsOfStart ==
  ~rewritten => \A r \in Readers : rd[r].pc = "open" => rd[r].start \subseteq rd[r].view

\* A manifest read after the tail is at least as new as every frame in it: the
\* frames a refresh adds only use attributes that the refreshed registry can name, rewritten
\* segments included.
RefreshResolves ==
  [][\A r \in Readers :
       rd[r].pc = "r_tail" /\ rd'[r].pc = "open" =>
         \A f \in rd'[r].view \ rd[r].view : f.attr <= rd'[r].attrs]_vars

\* "A crash between fsync and HEAD publish loses nothing": a store that was written by
\* this code can always be opened by it again.
OpenNeverRefused == wpc # "refused"
=============================================================================
