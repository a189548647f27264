------------------------------ MODULE AppendLog ------------------------------
(***************************************************************************)
(* What a segment store promises, with no files in it: one log of batches  *)
(* that only grows at its end, acknowledgements that survive every failure,*)
(* and readers that see a gap-free prefix of the log, until someone who    *)
(* does not have the lock writes into it.                                  *)
(*                                                                         *)
(* SegmentStore is shown to implement this specification (MCSegmentStore). *)
(***************************************************************************)
EXTENDS Naturals, Sequences

CONSTANTS Readers,  \* the read-only handles
          Batches   \* what can be appended

VARIABLES log,      \* the batches that are in the store, in order
          acked,    \* the batches whose append returned Ok
          view,     \* view[r]: the batches reader r has decoded
          spoilt    \* a reader has written into the log

vars == <<log, acked, view, spoilt>>

Elems(s) == {s[i] : i \in 1..Len(s)}

Init ==
  /\ log = <<>>
  /\ acked = {}
  /\ view = [r \in Readers |-> {}]
  /\ spoilt = FALSE

Add ==
  /\ \E b \in Batches : log' = Append(log, b)
  /\ UNCHANGED <<acked, view, spoilt>>

Acknowledge ==
  /\ \E b \in Elems(log) : acked' = acked \cup {b}
  /\ UNCHANGED <<log, view, spoilt>>

\* A reader only ever moves to a longer prefix.
Observe(r) ==
  /\ \E n \in 0..Len(log) :
       LET seen == Elems(SubSeq(log, 1, n))
       IN  view[r] \subseteq seen /\ view' = [view EXCEPT ![r] = seen]
  /\ UNCHANGED <<log, acked, spoilt>>

\* The machine stops: an unacknowledged suffix may be gone, and so are the readers.
LosePower ==
  /\ \E n \in 0..Len(log) :
       /\ acked \subseteq Elems(SubSeq(log, 1, n))
       /\ log' = SubSeq(log, 1, n)
  /\ view' = [r \in Readers |-> {}]
  /\ UNCHANGED <<acked, spoilt>>

\* From then on nothing is promised.
Spoil == spoilt' = TRUE

Next == Spoil \/ Add \/ Acknowledge \/ LosePower \/ \E r \in Readers : Observe(r)

Spec == Init /\ [][Next]_vars
=============================================================================
