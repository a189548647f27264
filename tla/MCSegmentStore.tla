--------------------------- MODULE MCSegmentStore ---------------------------
(***************************************************************************)
(* SegmentStore on small instances, and the refinement mapping to the      *)
(* append-only log it implements.                                          *)
(***************************************************************************)
EXTENDS SegmentStore

\* Batch number t of the sealed history, where the manifest says it is.
SealedFrame(t) ==
  LET i == CHOOSE i \in 1..Len(manifest.sealed) :
             manifest.sealed[i].tx_min < t /\ t <= manifest.sealed[i].tx_max + 1
  IN  files[manifest.sealed[i].seq][t - manifest.sealed[i].tx_min]

\* The log: the sealed history, then the readable frames of the active segment.
LogSeq ==
  LET sealed == SealedTxMax(manifest) + 1
  IN  [t \in 1..sealed + ValidLen(Active) |->
         IF t <= sealed THEN SealedFrame(t) ELSE Active[t - sealed]]

Abstract == INSTANCE AppendLog WITH
  Batches <- [tx : 0..MaxAppends, id : 1..MaxAppends, attr : 0..MaxAttrs],
  log     <- LogSeq,
  view    <- [r \in Readers |-> rd[r].view],
  spoilt  <- rewritten

\* The segment store implements the append-only log: segments, watermark, sealing,
\* recovery and the readers' protocol are invisible from outside, until a read-only open rewrites
\* a segment.
ImplementsAppendLog == Abstract!Spec
=============================================================================
