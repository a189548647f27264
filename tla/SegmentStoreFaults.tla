------------------------- MODULE SegmentStoreFaults -------------------------
(***************************************************************************)
(* SegmentStore with I/O errors that append_with_seal reports to its       *)
(* caller: the `?` after write_all and after sync_all returns at once, the *)
(* file keeps what reached it, and the same handle takes the next append.  *)
(***************************************************************************)
EXTENDS SegmentStore

\* write_all stops inside the frame (a full disk): Err, nothing is cut off again.
WriteFails ==
  /\ wpc = "writing"
  /\ wpc' = "idle"
  /\ UNCHANGED <<disk, mhead, next_tx, pending, attempts, acked, crashes, rewritten, rd>>

\* sync_all reports an error: Err, the whole frame stays in the file.
SyncFails ==
  /\ wpc = "written"
  /\ wpc' = "idle" /\ pending' = {}
  /\ UNCHANGED <<disk, mhead, next_tx, attempts, acked, crashes, rewritten, rd>>

FaultyNext == Next \/ WriteFails \/ SyncFails

FaultySpec == Init /\ [][FaultyNext]_vars
=============================================================================
