---------------------------- MODULE SessionInbox ----------------------------
(***************************************************************************)
(* Agent session memory (session/src): the inbox file of one session, the  *)
(* commit of its notes to the ledger, review of the claims, and purge.     *)
(*                                                                         *)
(* Any number of processes take notes; a lock file that is reclaimed when  *)
(* it is old keeps them apart.  Commit and review have the ledger's        *)
(* write.lock, so at most one of them is at work: its steps are those of   *)
(* job.  Purge takes no lock at all.                                       *)
(***************************************************************************)
EXTENDS Naturals, Sequences, FiniteSets

CONSTANTS
  Writers,     \* processes that take notes
  Notes,       \* notes, by their entry_id
  DeadEnds,    \* the notes of kind dead_end
  TooLong,     \* the notes longer than max_note_chars
  Wide,        \* the notes with a character of several bytes
  MaxEntries,  \* max_entries_per_session
  Bytes,       \* Bytes[n]: length of the line of note n, its newline included
  MaxBytes,    \* max_bytes_per_session
  MaxOps,      \* bound: operations begun
  MaxFaults    \* bound: processes that die, holders that are slow

\* Lines that are no note: one that does not decode, and one that is not even UTF-8.
Torn == "torn"
Broken == "broken"
Dead == "dead"

ASSUME InboxAssumption ==
  /\ DeadEnds \subseteq Notes /\ TooLong \subseteq Notes /\ Wide \subseteq Notes
  /\ {Torn, Broken} \cap Notes = {} /\ {Dead, "none"} \cap Writers = {}
  /\ Bytes \in [Notes -> Nat] /\ \A n \in Notes : Bytes[n] >= 3
  /\ MaxEntries \in Nat /\ MaxBytes \in Nat /\ MaxOps \in Nat /\ MaxFaults \in Nat

VARIABLES
  file,       \* <session>.jsonl: lines, each a note, Torn or Broken
  closed,     \* the last line of file ends with a newline
  bytes,      \* the length of file
  dropped,    \* <session>.dropped
  committed,  \* <session>.committed
  lock,       \* <session>.lock: Free, or its holder and whether it is older than 10 s
  wr,         \* wr[w]: the append of process w
  job,        \* the process that has the ledger open for writing
  purge,      \* the step of the process that purges
  evidence, claims, rels, events, changes, supersedes, session, \* the ledger
  accepted,   \* history: notes accepted since the last purge, but for those written to the file
              \* it removed
  stolen,     \* history: a lock was removed whose holder was at work
  raced,      \* history: a purge and a commit overlapped, or a purge did not end
  cut,        \* history: claims whose commit or review died before it was done with them
  ops, faults

inbox == <<file, closed, bytes, dropped, committed>>
ledger == <<evidence, claims, rels, events, changes, supersedes, session>>
history == <<accepted, stolen, raced, cut>>
bounds == <<ops, faults>>
vars == <<inbox, lock, wr, job, purge, ledger, history, bounds>>

Free == [holder |-> "none", old |-> FALSE]
Idle == [pc |-> "idle"]

Elements(s) == {s[i] : i \in DOMAIN s}

\* The elements of s at the places in I, in their order.
Kept(s, I) ==
  LET kept[i \in 0 .. Len(s)] ==
        IF i = 0 THEN <<>> ELSE IF i \in I THEN Append(kept[i - 1], s[i]) ELSE kept[i - 1]
  IN  kept[Len(s)]

\* read_entries skips lines that do not decode, and ends with the first that is not UTF-8.
Readable(f) == {i \in DOMAIN f : f[i] \in Notes /\ \A j \in 1 .. i : f[j] # Broken}
read_entries == Kept(file, Readable(file))

Begin == ops < MaxOps /\ ops' = ops + 1 /\ faults' = faults
Fault == faults < MaxFaults /\ faults' = faults + 1 /\ ops' = ops

-----------------------------------------------------------------------------
(* append_with *)

BeginNote(w, n) ==
  /\ wr[w].pc = "idle" /\ Begin
  /\ wr' = [wr EXCEPT ![w] = [pc |-> "lock", note |-> n]]
  /\ UNCHANGED <<inbox, lock, job, purge, ledger, history>>

\* acquire_lock: create_new succeeds.
Acquire(w) ==
  /\ wr[w].pc = "lock" /\ lock = Free
  /\ lock' = [holder |-> w, old |-> FALSE]
  /\ wr' = [wr EXCEPT ![w].pc = "check"]
  /\ UNCHANGED <<inbox, job, purge, ledger, history, bounds>>

\* The lock file is there and old ...
FindStale(w) ==
  /\ wr[w].pc = "lock" /\ lock # Free /\ lock.old
  /\ wr' = [wr EXCEPT ![w].pc = "stale"]
  /\ UNCHANGED <<inbox, lock, job, purge, ledger, history, bounds>>

\* ... so it is removed, whichever it is by now, and the next try begins.
Reclaim(w) ==
  /\ wr[w].pc = "stale"
  /\ lock' = Free
  /\ stolen' = (stolen \/ lock.holder \in Writers)
  /\ wr' = [wr EXCEPT ![w].pc = "lock"]
  /\ UNCHANGED <<inbox, job, purge, ledger, accepted, raced, cut, bounds>>

\* After 5000 tries the append fails.
TimedOut(w) ==
  /\ wr[w].pc = "lock" /\ lock # Free
  /\ wr' = [wr EXCEPT ![w] = Idle]
  /\ UNCHANGED <<inbox, lock, job, purge, ledger, history, bounds>>

\* Mutation of OverCap: the length of the new line is not counted.
MOverCap(n, entries) ==
  n \in TooLong \/ Len(entries) >= MaxEntries \/ bytes > MaxBytes

\* The length of the new line is checked, not that of the newline that may go before it.
OverCap(n, entries) ==
  n \in TooLong \/ Len(entries) >= MaxEntries \/ bytes + Bytes[n] > MaxBytes

\* Under the lock, the entries are read: what they say decides what happens to the note.
CheckNote(w) ==
  LET n == wr[w].note IN
  /\ wr[w].pc = "check"
  /\ wr' = [wr EXCEPT ![w].pc = IF n \in Elements(read_entries) THEN "unlock"
                                ELSE IF OverCap(n, read_entries) THEN "drop" ELSE "write"]
  /\ UNCHANGED <<inbox, lock, job, purge, ledger, history, bounds>>

bump_dropped(w) ==
  /\ wr[w].pc = "drop"
  /\ dropped' = dropped + 1
  /\ wr' = [wr EXCEPT ![w].pc = "unlock"]
  /\ UNCHANGED <<file, closed, bytes, committed, lock, job, purge, ledger, history, bounds>>

\* Whether the last line has no newline is asked before the line is written.
ends_without_newline == ~closed

EndsWithoutNewline(w) ==
  /\ wr[w].pc = "write"
  /\ wr' = [wr EXCEPT ![w] = [pc |-> "open", note |-> @.note, newline |-> ends_without_newline]]
  /\ UNCHANGED <<inbox, lock, job, purge, ledger, history, bounds>>

\* The file is opened, or made; a purge may remove it while the handle is open.
open_private_append(w) ==
  /\ wr[w].pc = "open"
  /\ wr' = [wr EXCEPT ![w] = [pc |-> "append", note |-> @.note, newline |-> @.newline,
                              gone |-> FALSE]]
  /\ UNCHANGED <<inbox, lock, job, purge, ledger, history, bounds>>

Newline(newline) == IF newline THEN 1 ELSE 0

\* A line behind a fragment without newline becomes part of it.
Appended(l, newline) ==
  IF closed \/ newline THEN Append(file, l)
  ELSE [file EXCEPT ![Len(file)] = IF Broken \in {@, l} THEN Broken ELSE Torn]

\* What is written to a file that a purge has removed meanwhile is lost, and accepted all the same.
WriteNote(w) ==
  /\ wr[w].pc = "append"
  /\ IF wr[w].gone THEN UNCHANGED <<file, closed, bytes, accepted>>
     ELSE /\ file' = Appended(wr[w].note, wr[w].newline) /\ closed' = TRUE
          /\ bytes' = bytes + Bytes[wr[w].note] + Newline(wr[w].newline)
          /\ accepted' = accepted \cup {wr[w].note}
  /\ wr' = [wr EXCEPT ![w].pc = "unlock"]
  /\ UNCHANGED <<dropped, committed, lock, job, purge, ledger, stolen, raced, cut, bounds>>

\* LockGuard::drop removes the lock file, whoever has made it.
Unlock(w) ==
  /\ wr[w].pc = "unlock"
  /\ lock' = Free
  /\ stolen' = (stolen \/ lock.holder \notin {w, "none"})
  /\ wr' = [wr EXCEPT ![w] = Idle]
  /\ UNCHANGED <<inbox, job, purge, ledger, accepted, raced, cut, bounds>>

\* What a line that is not written to its end may be, and its length: all but its newline, or
\* less, cut between two characters or in one.
Part(n) ==
  {<<n, Bytes[n] - 1>>}
    \cup ({Torn} \cup IF n \in Wide THEN {Broken} ELSE {}) \X (1 .. Bytes[n] - 2)

\* The process dies. Its lock file stays; of a line it was writing any part may be in the file,
\* and a counter it was writing may be empty.
WriterDies(w) ==
  /\ wr[w].pc # "idle" /\ Fault
  /\ wr' = [wr EXCEPT ![w] = Idle]
  /\ lock' = IF lock.holder = w THEN [lock EXCEPT !.holder = Dead] ELSE lock
  /\ \/ UNCHANGED <<file, closed, bytes, dropped>>
     \/ /\ wr[w].pc = "append" /\ wr[w].newline /\ ~wr[w].gone
        /\ closed' = TRUE /\ bytes' = bytes + 1 /\ UNCHANGED <<file, dropped>>
     \/ /\ wr[w].pc = "append" /\ ~wr[w].gone
        /\ \E p \in Part(wr[w].note) : /\ file' = Appended(p[1], wr[w].newline)
                                      /\ bytes' = bytes + p[2] + Newline(wr[w].newline)
        /\ closed' = FALSE /\ dropped' = dropped
     \/ wr[w].pc = "drop" /\ dropped' = 0 /\ UNCHANGED <<file, closed, bytes>>
  /\ UNCHANGED <<committed, job, purge, ledger, history>>

\* The lock of a dead process gets old; that of a live one if the process is held up.
LockAges ==
  /\ lock # Free /\ ~lock.old
  /\ \/ lock.holder = Dead /\ UNCHANGED bounds
     \/ lock.holder \in Writers /\ Fault
  /\ lock' = [lock EXCEPT !.old = TRUE]
  /\ UNCHANGED <<inbox, wr, job, purge, ledger, history>>

-----------------------------------------------------------------------------
(* commit_session *)

\* The check for pending notes is made before the ledger is open, so it guards nothing here.
BeginCommit ==
  /\ job = Idle /\ Begin
  /\ job' = [pc |-> "pending"]
  /\ raced' = (raced \/ purge # "idle")
  /\ UNCHANGED <<inbox, lock, wr, purge, ledger, accepted, stolen, cut>>

\* Mutation of Total: lines that do not decode are counted.
MTotal == Len(file)
\* Mutation of Total: what is new is added to what was committed.
MTotalAdded == committed + Len(read_entries)

Total == Len(read_entries)
Min2(a, b) == IF a <= b THEN a ELSE b
pending == SubSeq(read_entries, Min2(committed, Len(read_entries)) + 1, Len(read_entries))

\* Mutation of Fresh: no claim is looked up.
MFresh(batch) == batch
\* The notes of the batch that are no claims yet.
Fresh(batch) == Kept(batch, {i \in DOMAIN batch : claims[batch[i]] = "absent"})
NoEvidence(batch) == Kept(batch, {i \in DOMAIN batch : batch[i] \notin evidence})
OfDeadEnds(fresh) == Kept(fresh, {i \in DOMAIN fresh : fresh[i] \in DeadEnds})

Each(kind, s) == [i \in DOMAIN s |-> [put |-> kind, note |-> s[i]]]

\* Mutation of Writes: the claims go first.
MWrites(batch) ==
  LET fresh == Fresh(batch) IN
  Each("claim", fresh) \o Each("evidence", NoEvidence(batch))
    \o <<[put |-> "session", count |-> Total]>> \o Each("rel", fresh)
    \o Each("event", OfDeadEnds(fresh))

\* map_entries and write_batch: what is appended to the ledger, in this order.
Writes(batch) ==
  LET fresh == Fresh(batch) IN
  Each("evidence", NoEvidence(batch))
    \o <<[put |-> "session", count |-> Total]>> \o Each("claim", fresh) \o Each("rel", fresh)
    \o Each("event", OfDeadEnds(fresh))

ReadPending ==
  /\ job.pc = "pending"
  /\ job' = IF pending = <<>> THEN Idle
            ELSE [pc |-> "write", todo |-> Writes(pending), total |-> Total]
  /\ UNCHANGED <<inbox, lock, wr, purge, ledger, history, bounds>>

\* One append to the ledger: the next of a commit's or a review's.
WriteLedger ==
  LET a == Head(job.todo) IN
  /\ job.pc = "write" /\ job.todo # <<>>
  /\ evidence' = IF a.put = "evidence" THEN evidence \cup {a.note} ELSE evidence
  /\ session' = IF a.put = "session" THEN a.count ELSE session
  /\ claims' = IF a.put = "claim" THEN [claims EXCEPT ![a.note] = "unconfirmed"]
               ELSE IF a.put = "status" THEN [claims EXCEPT ![a.note] = a.status] ELSE claims
  /\ rels' = IF a.put = "rel" THEN rels \cup {a.note} ELSE rels
  /\ events' = IF a.put = "event" THEN events \cup {a.note} ELSE events
  /\ changes' = IF a.put = "change" THEN changes \cup {a.note} ELSE changes
  /\ supersedes' = IF a.put = "supersedes" THEN supersedes \cup {a.note} ELSE supersedes
  /\ job' = [job EXCEPT !.todo = Tail(@)]
  /\ UNCHANGED <<inbox, lock, wr, purge, history, bounds>>

\* mark_committed truncates the counter's file and then writes it.
Truncate ==
  /\ job.pc = "write" /\ job.todo = <<>>
  /\ IF job.total = 0 THEN job' = Idle /\ committed' = committed
     ELSE job' = [job EXCEPT !.pc = "mark"] /\ committed' = 0
  /\ UNCHANGED <<file, closed, bytes, dropped, lock, wr, purge, ledger, history, bounds>>

MarkCommitted ==
  /\ job.pc = "mark"
  /\ committed' = job.total
  /\ job' = Idle
  /\ UNCHANGED <<file, closed, bytes, dropped, lock, wr, purge, ledger, history, bounds>>

Unfinished == IF job.pc = "write" THEN {job.todo[i].note : i \in {j \in DOMAIN job.todo :
                                          job.todo[j].put \notin {"session", "evidence"}}}
              ELSE {}

\* The process dies, or an append to the ledger fails and ends the command.
JobDies ==
  /\ job # Idle /\ Fault
  /\ job' = Idle
  /\ cut' = cut \cup {n \in Unfinished : claims[n] # "absent"}
  /\ UNCHANGED <<inbox, lock, wr, purge, ledger, accepted, stolen, raced>>

-----------------------------------------------------------------------------
(* review and supersede *)

Status(decision) == IF decision = "confirm" THEN "confirmed" ELSE "rejected"

\* record: the claim is appended again with its new status, then the event.
Recorded(n, status) ==
  <<[put |-> "status", note |-> n, status |-> status], [put |-> "change", note |-> n]>>

Review(n, decision) ==
  /\ job = Idle /\ Begin /\ claims[n] # "absent"
  /\ job' = [pc |-> "write", todo |-> Recorded(n, Status(decision)), total |-> 0]
  /\ UNCHANGED <<inbox, lock, wr, purge, ledger, history>>

Supersede(old, new) ==
  /\ job = Idle /\ Begin /\ claims[old] # "absent" /\ claims[new] # "absent"
  /\ job' = [pc |-> "write", total |-> 0,
             todo |-> Recorded(old, "superseded") \o <<[put |-> "supersedes", note |-> old]>>]
  /\ UNCHANGED <<inbox, lock, wr, purge, ledger, history>>

-----------------------------------------------------------------------------
(* purge removes the files one by one *)

RemoveEntries ==
  /\ purge = "idle" /\ Begin
  /\ file' = <<>> /\ closed' = TRUE /\ bytes' = 0
  /\ wr' = [w \in Writers |-> IF wr[w].pc = "append" THEN [wr[w] EXCEPT !.gone = TRUE] ELSE wr[w]]
  /\ purge' = "dropped"
  /\ accepted' = {}
  /\ raced' = (raced \/ job.pc \in {"pending", "mark"} \/ (job.pc = "write" /\ job.total # 0))
  /\ UNCHANGED <<dropped, committed, lock, job, ledger, stolen, cut, faults>>

RemoveDropped ==
  /\ purge = "dropped"
  /\ dropped' = 0 /\ purge' = "committed"
  /\ UNCHANGED <<file, closed, bytes, committed, lock, wr, job, ledger, history, bounds>>

RemoveCommitted ==
  /\ purge = "committed"
  /\ committed' = 0 /\ purge' = "idle"
  /\ UNCHANGED <<file, closed, bytes, dropped, lock, wr, job, ledger, history, bounds>>

PurgeDies ==
  /\ purge # "idle" /\ Fault
  /\ purge' = "idle" /\ raced' = TRUE
  /\ UNCHANGED <<inbox, lock, wr, job, ledger, accepted, stolen, cut>>

-----------------------------------------------------------------------------
Init ==
  /\ file = <<>> /\ closed = TRUE /\ bytes = 0 /\ dropped = 0 /\ committed = 0
  /\ lock = Free /\ wr = [w \in Writers |-> Idle] /\ job = Idle /\ purge = "idle"
  /\ evidence = {} /\ claims = [n \in Notes |-> "absent"] /\ rels = {} /\ events = {}
  /\ changes = {} /\ supersedes = {} /\ session = 0
  /\ accepted = {} /\ stolen = FALSE /\ raced = FALSE /\ cut = {}
  /\ ops = 0 /\ faults = 0

Append_(w) ==
  \/ \E n \in Notes : BeginNote(w, n)
  \/ Acquire(w) \/ FindStale(w) \/ Reclaim(w) \/ TimedOut(w)
  \/ CheckNote(w) \/ bump_dropped(w) \/ EndsWithoutNewline(w) \/ open_private_append(w)
  \/ WriteNote(w) \/ Unlock(w) \/ WriterDies(w)

Next ==
  \/ \E w \in Writers : Append_(w)
  \/ LockAges
  \/ BeginCommit \/ ReadPending \/ WriteLedger \/ Truncate \/ MarkCommitted \/ JobDies
  \/ \E n \in Notes : \E d \in {"confirm", "reject"} : Review(n, d)
  \/ \E old, new \in Notes : Supersede(old, new)
  \/ RemoveEntries \/ RemoveDropped \/ RemoveCommitted \/ PurgeDies

Spec == Init /\ [][Next]_vars

-----------------------------------------------------------------------------
(* Properties *)

Statuses == {"absent", "unconfirmed", "confirmed", "rejected", "superseded"}

\* What the variables hold; no counter of notes exceeds the limit on entries, unless a lock
\* was removed whose holder was at work.
TypeOK ==
  /\ file \in Seq(Notes \cup {Torn, Broken}) /\ closed \in BOOLEAN
  /\ bytes \in Nat /\ dropped \in Nat /\ committed \in Nat /\ session \in Nat
  /\ stolen \/ (committed <= MaxEntries /\ session <= MaxEntries)
  /\ lock.holder \in Writers \cup {Dead, "none"} /\ lock.old \in BOOLEAN
  /\ claims \in [Notes -> Statuses]
  /\ evidence \cup rels \cup events \cup changes \cup supersedes \cup accepted \cup cut
       \subseteq Notes
  /\ stolen \in BOOLEAN /\ raced \in BOOLEAN

\* A note append_with has accepted is a claim in the ledger or still to be committed, whatever
\* processes died in the middle of a line, of a commit or of its counter. Excepted are a lock
\* reclaimed from a live process, a purge that overlapped a commit or did not end, a line that
\* was cut in the middle of a character, and a note that append_with wrote to a file which a
\* purge removed after it was opened: such a note is accepted and lost.
AcceptedReachable ==
  stolen \/ raced \/ purge # "idle" \/ Broken \in Elements(file) \/
    \A n \in accepted : claims[n] # "absent" \/ n \in Elements(pending)

\* Deduplication and the cap on entries are exact, and the file is at most one byte longer than
\* max_bytes_per_session, with any number of writers, after a writer died with the lock or in a
\* line and beside purges, unless a lock was removed whose holder was at work. The one byte is
\* the newline that closes a torn line, which the check in append_with does not count.
ExactInbox ==
  stolen \/ /\ Len(read_entries) <= MaxEntries /\ bytes <= MaxBytes + 1
            /\ Cardinality(Elements(read_entries)) = Len(read_entries)

\* What a human has decided about a claim is not undone by committing its note again.
ReviewStands ==
  [][\A n \in Notes : claims[n] \notin {"absent", "unconfirmed"} =>
       claims'[n] \notin {"absent", "unconfirmed"}]_vars

\* A claim always has its evidence, and a relationship its session; once its commit or review is
\* over, a claim also has its relationships, its dead-end event and the event of its review,
\* unless the process died on the way.
ClaimsComplete ==
  \A n \in Notes : claims[n] # "absent" =>
    /\ n \in evidence
    /\ n \in rels => session # 0
    /\ n \in cut \cup Unfinished \/
         /\ n \in rels
         /\ n \in DeadEnds => n \in events
         /\ claims[n] # "unconfirmed" => n \in changes
         /\ claims[n] = "superseded" => n \in supersedes
=============================================================================
