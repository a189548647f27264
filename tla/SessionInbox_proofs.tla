------------------------- MODULE SessionInbox_proofs -------------------------
(***************************************************************************)
(* The session inbox for any number of writers, notes, operations and      *)
(* faults.                                                                 *)
(*                                                                         *)
(* The argument has two halves that share only the list of appends a       *)
(* commit or a review has still to make.  The inbox: the lock, unless it   *)
(* was stolen, keeps the file as the one writer at work has read it        *)
(* (LockInv, FileInv), and the counter of committed notes never runs ahead *)
(* of the claims (ReachInv).  The ledger: the list is in an order in which *)
(* what a claim needs is before it and what completes it is behind it      *)
(* (TodoInv, LedgerInv).                                                   *)
(***************************************************************************)
EXTENDS SessionInbox, FiniteSetTheorems, WellFoundedInduction, TLAPS

\* The steps of a writer that it takes with the lock.
AtWork == {"check", "drop", "write", "open", "append", "unlock"}
\* Those behind the check.
Checked == {"write", "open", "append"}

Lines == Notes \cup {Torn, Broken}

WriterType ==
  [pc : {"idle"}]
    \cup [pc : {"lock", "stale", "check", "drop", "write", "unlock"}, note : Notes]
    \cup [pc : {"open"}, note : Notes, newline : BOOLEAN]
    \cup [pc : {"append", "unlock"}, note : Notes, newline : BOOLEAN, gone : BOOLEAN]

Decisions == {"confirmed", "rejected", "superseded"}
PutsOfCommit == {"evidence", "session", "claim", "rel", "event"}
PutsOfReview == {"status", "change", "supersedes"}

PutType ==
  [put : {"evidence", "claim", "rel", "event", "change", "supersedes"}, note : Notes]
    \cup [put : {"session"}, count : Nat \ {0}]
    \cup [put : {"status"}, note : Notes, status : Decisions]

JobType ==
  [pc : {"idle", "pending"}] \cup [pc : {"write", "mark"}, todo : Seq(PutType), total : Nat]

TypeInv ==
  /\ TypeOK
  /\ lock \in [holder : Writers \cup {Dead, "none"}, old : BOOLEAN]
  /\ wr \in [Writers -> WriterType] /\ job \in JobType
  /\ purge \in {"idle", "dropped", "committed"}
  /\ ops \in Nat /\ faults \in Nat

\* Who is at work has the lock.
LockInv == stolen \/ \A w \in Writers : wr[w].pc \in AtWork => lock.holder = w

\* The file is within the limits, has no note twice, and a writer that has found room for its
\* note still has it.
FileInv ==
  stolen \/
    /\ bytes <= MaxBytes + 1 /\ Len(read_entries) <= MaxEntries
    /\ \A i, j \in DOMAIN read_entries : read_entries[i] = read_entries[j] => i = j
    /\ Broken \in Elements(file) \/ accepted \subseteq Elements(read_entries)
    /\ \A w \in Writers :
         /\ wr[w].pc \in Checked =>
              /\ wr[w].note \notin Elements(read_entries)
              /\ Len(read_entries) < MaxEntries /\ bytes + Bytes[wr[w].note] <= MaxBytes
         /\ wr[w].pc \in {"open", "append"} => closed \/ wr[w].newline

\* What is still to be appended to the ledger.
Todo == IF job.pc = "write" THEN job.todo ELSE <<>>
ToPut(kind, n) == \E j \in DOMAIN Todo : Todo[j].put = kind /\ Todo[j].note = n
Behind(i, kind, n) == \E j \in DOMAIN Todo : j > i /\ Todo[j].put = kind /\ Todo[j].note = n
Before(i, kind, n) == \E j \in DOMAIN Todo : j < i /\ Todo[j].put = kind /\ Todo[j].note = n

Committing == job.pc \in {"write", "mark"} /\ job.total # 0

\* What the counters count.
CountInv ==
  stolen \/
    /\ committed <= MaxEntries /\ session <= MaxEntries
    /\ Committing => job.total <= MaxEntries
    /\ \A j \in DOMAIN Todo : Todo[j].put = "session" => Todo[j].count <= MaxEntries

\* The notes the counter counts are claims, those a commit will count are or will be.
ReachInv ==
  stolen \/ raced \/
    /\ purge # "idle" => job.pc = "idle" \/ (job.pc = "write" /\ job.total = 0)
    /\ purge = "idle" =>
         /\ committed <= Len(read_entries)
         /\ \A i \in 1 .. committed : claims[read_entries[i]] # "absent"
    /\ Committing =>
         /\ job.total <= Len(read_entries)
         /\ \A i \in 1 .. job.total :
              claims[read_entries[i]] # "absent" \/ ToPut("claim", read_entries[i])

\* The list of a commit or of a review.
TodoInv ==
  /\ job.pc = "mark" => job.total # 0
  /\ \A j \in DOMAIN Todo :
       Todo[j].put \in (IF job.total = 0 THEN PutsOfReview ELSE PutsOfCommit)
  /\ \A j \in DOMAIN Todo, n \in Notes :
       /\ Todo[j].put = "claim" /\ Todo[j].note = n =>
            /\ claims[n] \in {"absent", "unconfirmed"}
            /\ n \in evidence \/ Before(j, "evidence", n)
            /\ Behind(j, "rel", n)
            /\ n \in DeadEnds => Behind(j, "event", n)
       /\ Todo[j].put = "rel" =>
            session # 0 \/ \E i \in DOMAIN Todo : i < j /\ Todo[i].put = "session"
       /\ Todo[j].put = "status" /\ Todo[j].note = n =>
            /\ claims[n] # "absent"
            /\ Behind(j, "change", n)
            /\ Todo[j].status = "superseded" => Behind(j, "supersedes", n)

\* A claim has what it needs, and what completes it or an append to come that does.
LedgerInv ==
  \A n \in Notes :
    /\ n \in rels => session # 0
    /\ claims[n] # "absent" =>
         /\ n \in evidence
         /\ n \in cut \/
              /\ n \in rels \/ ToPut("rel", n)
              /\ n \in DeadEnds => n \in events \/ ToPut("event", n)
              /\ claims[n] # "unconfirmed" => n \in changes \/ ToPut("change", n)
              /\ claims[n] = "superseded" => n \in supersedes \/ ToPut("supersedes", n)

\* The inductive invariant.
IInv == TypeInv /\ LockInv /\ FileInv /\ CountInv /\ ReachInv /\ TodoInv /\ LedgerInv

-----------------------------------------------------------------------------
(* Kept *)

\* A set of numbers that is not empty has a least one.
LEMMA LeastNat ==
  ASSUME NEW T, T \subseteq Nat, T # {}
  PROVE  \E x \in T : \A y \in T : x <= y
<1>1. PICK x \in T : \A y \in T : ~(<<y, x>> \in OpToRel(<, Nat))
  BY NatLessThanWellFounded, WFMin, Zenon
<1>2. ASSUME NEW y \in T, y < x PROVE FALSE
  <2>1. <<y, x>> \in Nat \X Nat /\ <<y, x>>[1] = y /\ <<y, x>>[2] = x
    OBVIOUS
  <2>2. <<y, x>> \in {ss \in Nat \X Nat : ss[1] < ss[2]}
    BY <1>2, <2>1
  <2>3. <<y, x>> \in OpToRel(<, Nat)
    BY <2>2, Zenon DEF OpToRel
  <2> QED BY <1>1, <2>3, Zenon
<1> QED BY <1>2

\* What the local function of Kept is, up to place n.
Step(s, I, f, i) ==
  IF i = 0 THEN <<>> ELSE IF i \in I THEN Append(f[i - 1], s[i]) ELSE f[i - 1]
IsKept(s, I, n, f) == f = [i \in 0 .. n |-> Step(s, I, f, i)]

LEMMA KeptExists ==
  ASSUME NEW s, NEW I, NEW n \in Nat
  PROVE  \E f : IsKept(s, I, n, f)
<1> DEFINE T == {m \in Nat : ~ \E f : IsKept(s, I, m, f)}
<1>1. SUFFICES ASSUME T # {} PROVE FALSE
  OBVIOUS
<1>2. PICK m \in T : \A k \in T : m <= k
  BY <1>1, LeastNat
<1>3. m \in Nat /\ ~ \E f : IsKept(s, I, m, f)
  OBVIOUS
<1> HIDE DEF T
<1>4. CASE m = 0
  <2> DEFINE f == [i \in 0 .. 0 |-> <<>>]
  <2>1. IsKept(s, I, 0, f)
    BY DEF IsKept, Step
  <2> QED BY <1>3, <1>4, <2>1
<1>5. CASE m # 0
  <2>1. m - 1 \in Nat /\ m - 1 \notin T
    BY <1>2, <1>3, <1>5
  <2>2. PICK f : IsKept(s, I, m - 1, f)
    BY <2>1 DEF T
  <2> DEFINE g == [i \in 0 .. m |-> IF i = m THEN Step(s, I, f, m) ELSE f[i]]
  <2>3. ASSUME NEW i \in 0 .. m PROVE g[i] = Step(s, I, g, i)
    <3>1. CASE i = m
      <4>1. g[m] = Step(s, I, f, m) /\ g[m - 1] = f[m - 1]
        BY <1>3, <1>5
      <4> QED BY <3>1, <4>1, <1>5 DEF Step
    <3>2. CASE i # m
      <4>1. i \in 0 .. m - 1 /\ g[i] = f[i]
        BY <3>2, <1>3
      <4>2. f[i] = Step(s, I, f, i)
        BY <4>1, <2>2 DEF IsKept
      <4>3. i # 0 => i - 1 \in 0 .. m /\ i - 1 # m /\ g[i - 1] = f[i - 1]
        BY <4>1, <1>3
      <4> HIDE DEF g
      <4> QED BY <4>1, <4>2, <4>3 DEF Step
    <3> QED BY <3>1, <3>2
  <2>4. IsKept(s, I, m, g)
    BY <2>3 DEF IsKept
  <2> QED BY <1>3, <2>4
<1> QED BY <1>4, <1>5

\* It is the same as far as the sequences and the places are.
LEMMA KeptSame ==
  ASSUME NEW s, NEW t, NEW I, NEW J, NEW m \in Nat, NEW n \in Nat, m <= n,
         NEW f, IsKept(s, I, m, f), NEW g, IsKept(t, J, n, g),
         \A i \in 1 .. m : s[i] = t[i] /\ (i \in I <=> i \in J)
  PROVE  \A i \in 0 .. m : f[i] = g[i]
<1> DEFINE T == {i \in 0 .. m : f[i] # g[i]}
<1>1. SUFFICES ASSUME T # {} PROVE FALSE
  OBVIOUS
<1>0. T \subseteq Nat
  OBVIOUS
<1> HIDE DEF T
<1>2. PICK i \in T : \A k \in T : i <= k
  BY <1>0, <1>1, LeastNat
<1>3. i \in 0 .. m /\ i \in 0 .. n /\ f[i] # g[i]
  BY DEF T
<1>4. f[i] = Step(s, I, f, i) /\ g[i] = Step(t, J, g, i)
  BY <1>3 DEF IsKept
<1>5. i # 0
  BY <1>3, <1>4 DEF Step
<1>6. i - 1 \in 0 .. m /\ i - 1 \notin T
  BY <1>2, <1>3, <1>5
<1>7. f[i - 1] = g[i - 1]
  BY <1>6 DEF T
<1> QED BY <1>3, <1>4, <1>5, <1>7 DEF Step

LEMMA KeptIs ==
  ASSUME NEW S, NEW s \in Seq(S), NEW I
  PROVE  \E f : IsKept(s, I, Len(s), f) /\ Kept(s, I) = f[Len(s)]
<1> DEFINE f == CHOOSE g : IsKept(s, I, Len(s), g)
<1>1. IsKept(s, I, Len(s), f)
  BY KeptExists
<1>2. Kept(s, I) = f[Len(s)]
  BY DEF Kept, IsKept, Step
<1> HIDE DEF f
<1> QED BY <1>1, <1>2

LEMMA KeptEmpty == ASSUME NEW I PROVE Kept(<<>>, I) = <<>>
<1>1. PICK f : IsKept(<<>>, I, 0, f) /\ Kept(<<>>, I) = f[0]
  <2>1. <<>> \in Seq({}) /\ Len(<<>>) = 0
    OBVIOUS
  <2> QED BY <2>1, KeptIs
<1> QED BY <1>1 DEF IsKept, Step

\* An element is added at the end of what is kept, or not.
LEMMA KeptAppend ==
  ASSUME NEW S, NEW s \in Seq(S), NEW e \in S, NEW I, NEW J,
         \A i \in 1 .. Len(s) : i \in I <=> i \in J
  PROVE  Kept(Append(s, e), J) = IF Len(s) + 1 \in J THEN Append(Kept(s, I), e) ELSE Kept(s, I)
<1> DEFINE t == Append(s, e)
<1>1. /\ t \in Seq(S) /\ Len(t) = Len(s) + 1 /\ t[Len(s) + 1] = e
      /\ \A i \in 1 .. Len(s) : t[i] = s[i]
      /\ Len(s) \in Nat
  OBVIOUS
<1> HIDE DEF t
<1>2. PICK f : IsKept(s, I, Len(s), f) /\ Kept(s, I) = f[Len(s)]
  BY KeptIs
<1>3. PICK g : IsKept(t, J, Len(s) + 1, g) /\ Kept(t, J) = g[Len(s) + 1]
  BY <1>1, KeptIs
<1>4. f[Len(s)] = g[Len(s)]
  <2>0. Len(s) + 1 \in Nat /\ Len(s) <= Len(s) + 1
    BY <1>1
  <2>1. \A i \in 0 .. Len(s) : f[i] = g[i]
    BY ONLY <2>0, <1>1, <1>2, <1>3, KeptSame, \A i \in 1 .. Len(s) : i \in I <=> i \in J
  <2> QED BY <2>1, <1>1
<1>5. g[Len(s) + 1] = Step(t, J, g, Len(s) + 1)
  BY <1>1, <1>3 DEF IsKept
<1>6. Len(s) + 1 # 0 /\ (Len(s) + 1) - 1 = Len(s)
  BY <1>1
<1>7. Kept(t, J) = IF Len(s) + 1 \in J THEN Append(Kept(s, I), e) ELSE Kept(s, I)
  BY <1>1, <1>2, <1>3, <1>4, <1>5, <1>6 DEF Step
<1> QED BY <1>7 DEF t

\* What is kept are the elements at the places, no more than there are.
LEMMA KeptElements ==
  ASSUME NEW S, NEW s \in Seq(S), NEW I, I \subseteq 1 .. Len(s)
  PROVE  /\ Kept(s, I) \in Seq(S) /\ Len(Kept(s, I)) <= Len(s)
         /\ Elements(Kept(s, I)) = {s[i] : i \in I}
<1>1. PICK f : IsKept(s, I, Len(s), f) /\ Kept(s, I) = f[Len(s)]
  BY KeptIs
<1> DEFINE Good(i) == /\ f[i] \in Seq(S) /\ Len(f[i]) <= i
                      /\ Elements(f[i]) = {s[j] : j \in I \cap 1 .. i}
           T == {i \in 0 .. Len(s) : ~Good(i)}
<1>0. T \subseteq Nat
  OBVIOUS
<1>2. ASSUME T # {} PROVE FALSE
  <2> HIDE DEF T
  <2>1. PICK i \in T : \A k \in T : i <= k
    BY <1>0, <1>2, LeastNat
  <2>2. i \in 0 .. Len(s) /\ ~Good(i)
    BY DEF T
  <2>3. f[i] = Step(s, I, f, i)
    BY <2>2, <1>1 DEF IsKept
  <2>4. CASE i = 0
    <3>1. f[i] = <<>>
      BY <2>3, <2>4 DEF Step
    <3>2. Elements(f[i]) = {} /\ I \cap 1 .. i = {}
      BY <3>1, <2>4 DEF Elements
    <3> QED BY <2>2, <2>4, <3>1, <3>2
  <2>5. CASE i # 0
    <3>1. i - 1 \in 0 .. Len(s) /\ i - 1 \notin T
      BY <2>1, <2>2, <2>5
    <3>2. Good(i - 1)
      BY <3>1 DEF T
    <3>3. PICK p : p = f[i - 1]
      OBVIOUS
    <3>4. p \in Seq(S) /\ Len(p) <= i - 1 /\ Elements(p) = {s[j] : j \in I \cap 1 .. i - 1}
      BY <3>2, <3>3
    <3>5. s[i] \in S /\ i \in Nat
      BY <2>2, <2>5
    <3>6. CASE i \in I
      <4>1. f[i] = Append(p, s[i])
        BY <2>3, <2>5, <3>3, <3>6 DEF Step
      <4>2. f[i] \in Seq(S) /\ Len(f[i]) <= i
        BY <4>1, <3>4, <3>5
      <4>3. Elements(f[i]) = Elements(p) \cup {s[i]}
        BY <4>1, <3>4, <3>5 DEF Elements
      <4>4. I \cap 1 .. i = (I \cap 1 .. i - 1) \cup {i}
        BY <3>5, <3>6, <2>5
      <4>5. Elements(f[i]) = {s[j] : j \in I \cap 1 .. i}
        BY <4>3, <4>4, <3>4
      <4> QED BY <2>2, <4>2, <4>5
    <3>7. CASE i \notin I
      <4>1. f[i] = p
        BY <2>3, <2>5, <3>3, <3>7 DEF Step
      <4>2. I \cap 1 .. i = I \cap 1 .. i - 1
        BY <3>5, <3>7
      <4> QED BY <2>2, <4>1, <4>2, <3>4, <3>5
    <3> QED BY <3>6, <3>7
  <2> QED BY <2>4, <2>5
<1>3. Good(Len(s))
  BY <1>2
<1>4. I \cap 1 .. Len(s) = I
  OBVIOUS
<1> QED BY <1>1, <1>3, <1>4

-----------------------------------------------------------------------------
(* The entries of a file *)

EntriesOf(f) == Kept(f, Readable(f))

LEMMA EntriesType ==
  ASSUME NEW f \in Seq(Lines)
  PROVE  EntriesOf(f) \in Seq(Notes) /\ Len(EntriesOf(f)) <= Len(f)
<1>1. Readable(f) \subseteq 1 .. Len(f)
  BY DEF Readable
<1>2. PICK e : e = EntriesOf(f)
  OBVIOUS
<1>3. e \in Seq(Lines) /\ Len(e) <= Len(f) /\ Elements(e) = {f[i] : i \in Readable(f)}
  BY <1>1, <1>2, KeptElements DEF EntriesOf
<1>4. Elements(e) \subseteq Notes
  BY <1>3 DEF Readable
<1>5. e \in Seq(Notes)
  BY <1>3, <1>4 DEF Elements
<1> QED BY <1>2, <1>3, <1>5

LEMMA EntriesEmpty == EntriesOf(<<>>) = <<>>
BY KeptEmpty DEF EntriesOf

\* A line that is added is read, if it is a note and nothing broken is before it.
LEMMA EntriesAppend ==
  ASSUME NEW f \in Seq(Lines), NEW l \in Lines
  PROVE  EntriesOf(Append(f, l)) =
           IF l \in Notes /\ Broken \notin Elements(f) THEN Append(EntriesOf(f), l)
           ELSE EntriesOf(f)
<1> DEFINE g == Append(f, l)
<1>1. g \in Seq(Lines) /\ Len(f) \in Nat /\ Len(g) = Len(f) + 1 /\ g[Len(f) + 1] = l
  OBVIOUS
<1>2. \A i \in 1 .. Len(f) : g[i] = f[i]
  OBVIOUS
<1>3. DOMAIN f = 1 .. Len(f) /\ DOMAIN g = 1 .. Len(f) + 1
  BY <1>1
<1> HIDE DEF g
<1>4. ASSUME NEW i \in 1 .. Len(f) PROVE i \in Readable(f) <=> i \in Readable(g)
  <2>1. \A j \in 1 .. i : j \in 1 .. Len(f) /\ g[j] = f[j]
    BY <1>1, <1>2
  <2>2. i \in DOMAIN f /\ i \in DOMAIN g /\ g[i] = f[i]
    BY <1>1, <1>2, <1>3
  <2> QED BY <2>1, <2>2 DEF Readable
<1>5. Len(f) + 1 \in Readable(g) <=> l \in Notes /\ Broken \notin Elements(f)
  <2>1. Len(f) + 1 \in DOMAIN g /\ Len(f) + 1 \in 1 .. Len(f) + 1
    BY <1>1, <1>3
  <2>2. (\A j \in 1 .. Len(f) + 1 : g[j] # Broken) <=> l # Broken /\ \A j \in 1 .. Len(f) : f[j] # Broken
    BY <1>1, <1>2, <2>1
  <2>3. Broken \notin Elements(f) <=> \A j \in 1 .. Len(f) : f[j] # Broken
    BY <1>3 DEF Elements
  <2>4. l \in Notes => l # Broken
    BY InboxAssumption
  <2> QED BY <1>1, <2>1, <2>2, <2>3, <2>4 DEF Readable
<1>6. Kept(g, Readable(g)) = IF Len(f) + 1 \in Readable(g) THEN Append(Kept(f, Readable(f)), l)
                             ELSE Kept(f, Readable(f))
  BY <1>4, KeptAppend DEF g
<1> QED BY <1>5, <1>6 DEF EntriesOf, g

\* Elements after an append.
LEMMA ElementsAppend ==
  ASSUME NEW S, NEW s \in Seq(S), NEW e \in S
  PROVE  /\ Elements(Append(s, e)) = Elements(s) \cup {e}
         /\ Append(s, e) \in Seq(S) /\ Len(Append(s, e)) = Len(s) + 1
         /\ Append(s, e)[Len(s) + 1] = e
         /\ \A i \in 1 .. Len(s) : Append(s, e)[i] = s[i]
BY DEF Elements

-----------------------------------------------------------------------------
(* Frames *)

\* What a step of a writer leaves: the ledger and who is at work on it. The entries only grow.
LEMMA SameJob ==
  ASSUME IInv, UNCHANGED <<job, ledger, cut, committed, purge, raced>>, stolen => stolen',
         \/ stolen' \/ EntriesOf(file') = EntriesOf(file)
         \/ \E n \in Notes : EntriesOf(file') = Append(EntriesOf(file), n)
  PROVE  CountInv' /\ ReachInv' /\ TodoInv' /\ LedgerInv'
<1>1. CountInv'
  BY DEF IInv, CountInv, Committing, Todo, ledger
<1>2. TodoInv'
  BY DEF IInv, TodoInv, Todo, Before, Behind, ledger
<1>3. LedgerInv'
  BY DEF IInv, LedgerInv, Todo, ToPut, ledger
<1>4. ReachInv'
  <2>1. SUFFICES ASSUME ~stolen', ~raced' PROVE ReachInv'
    BY DEF ReachInv
  <2>2. PICK e : e = EntriesOf(file)
    OBVIOUS
  <2>3. PICK g : g = EntriesOf(file')
    OBVIOUS
  <2>4. e \in Seq(Notes)
    BY <2>2, EntriesType DEF IInv, TypeInv, TypeOK, Lines
  <2>5. Len(e) <= Len(g) /\ \A i \in 1 .. Len(e) : g[i] = e[i]
    <3>1. CASE g = e
      BY <3>1, <2>4
    <3>2. CASE \E n \in Notes : g = Append(e, n)
      BY <3>2, <2>4
    <3> QED BY <2>1, <2>2, <2>3, <3>1, <3>2
  <2>6. /\ purge # "idle" => job.pc = "idle" \/ (job.pc = "write" /\ job.total = 0)
        /\ purge = "idle" =>
             committed <= Len(e) /\ \A i \in 1 .. committed : claims[e[i]] # "absent"
        /\ Committing =>
             /\ job.total <= Len(e)
             /\ \A i \in 1 .. job.total : claims[e[i]] # "absent" \/ ToPut("claim", e[i])
    BY <2>1, <2>2 DEF IInv, ReachInv, read_entries, EntriesOf
  <2>7. committed \in Nat /\ (Committing => job.total \in Nat) /\ Len(e) \in Nat /\ Len(g) \in Nat
    <3>1. g = e \/ \E n \in Notes : g = Append(e, n)
      BY <2>1, <2>2, <2>3
    <3> QED BY <2>4, <3>1 DEF IInv, TypeInv, TypeOK, JobType, Committing
  <2>8. read_entries' = g
    BY <2>3 DEF read_entries, EntriesOf
  <2>9. purge = "idle" =>
          committed <= Len(g) /\ \A i \in 1 .. committed : claims[g[i]] # "absent"
    BY <2>5, <2>6, <2>7
  <2>10. ASSUME Committing
         PROVE  /\ job.total <= Len(g)
                /\ \A i \in 1 .. job.total : claims[g[i]] # "absent" \/ ToPut("claim", g[i])
    <3>1. job.total <= Len(g)
      BY <2>5, <2>6, <2>7, <2>10
    <3>2. ASSUME NEW i \in 1 .. job.total
          PROVE  claims[g[i]] # "absent" \/ ToPut("claim", g[i])
      <4>1. i \in 1 .. Len(e) /\ g[i] = e[i]
        BY <2>5, <2>6, <2>7, <2>10
      <4> QED BY <4>1, <2>6, <2>10
    <3> QED BY <3>1, <3>2
  <2>11. Todo' = Todo /\ (Committing' <=> Committing) /\ claims' = claims /\ job' = job
         /\ purge' = purge /\ committed' = committed
    BY DEF Todo, Committing, ledger
  <2> QED BY <2>6, <2>8, <2>9, <2>10, <2>11 DEF ReachInv, ToPut
<1> QED BY <1>1, <1>2, <1>3, <1>4

\* Steps of a writer with the same file.
LEMMA SameFile ==
  ASSUME IInv, NEW w \in Writers, NEW r, wr' = [wr EXCEPT ![w] = r],
         UNCHANGED <<file, closed, bytes, accepted>>, stolen => stolen',
         r.pc \in Checked =>
           stolen' \/ /\ r.note \notin Elements(read_entries)
                      /\ Len(read_entries) < MaxEntries /\ bytes + Bytes[r.note] <= MaxBytes,
         r.pc \in {"open", "append"} => stolen' \/ closed \/ r.newline
  PROVE  FileInv'
<1>1. \A u \in Writers : wr'[u] = IF u = w THEN r ELSE wr[u]
  BY DEF IInv, TypeInv
<1>2. read_entries' = read_entries /\ file' = file /\ closed' = closed /\ accepted' = accepted
      /\ bytes' = bytes
  BY DEF read_entries
<1> QED BY <1>1, <1>2 DEF IInv, FileInv, Checked

LEMMA SameLock ==
  ASSUME IInv, NEW w \in Writers, NEW r, wr' = [wr EXCEPT ![w] = r],
         stolen => stolen', lock' = lock, r.pc \in AtWork => wr[w].pc \in AtWork
  PROVE  LockInv'
<1>1. \A u \in Writers : wr'[u] = IF u = w THEN r ELSE wr[u]
  BY DEF IInv, TypeInv
<1> QED BY <1>1 DEF IInv, LockInv

-----------------------------------------------------------------------------
(* The writers *)

\* The type of a step of a writer that changes no file.
LEMMA WriterStep ==
  ASSUME IInv, NEW w \in Writers, NEW r \in WriterType, wr' = [wr EXCEPT ![w] = r],
         UNCHANGED <<file, closed, bytes, committed, job, purge, ledger, accepted, raced, cut>>,
         stolen => stolen', stolen' \in BOOLEAN, dropped' \in Nat,
         lock' \in [holder : Writers \cup {Dead, "none"}, old : BOOLEAN],
         ops' \in Nat, faults' \in Nat, LockInv', FileInv'
  PROVE  IInv'
<1>1. TypeInv'
  <2>1. wr' \in [Writers -> WriterType]
    BY DEF IInv, TypeInv
  <2>2. TypeOK'
    BY DEF IInv, TypeInv, TypeOK, ledger
  <2> QED BY <2>1, <2>2 DEF IInv, TypeInv
<1>2. CountInv' /\ ReachInv' /\ TodoInv' /\ LedgerInv'
  BY SameJob
<1> QED BY <1>1, <1>2 DEF IInv

\* What a writer may be.
LEMMA WriterTypes ==
  ASSUME IInv, NEW w \in Writers
  PROVE  /\ wr[w] \in WriterType
         /\ wr[w].pc # "idle" => wr[w].note \in Notes
         /\ wr[w].pc \in {"open", "append"} => wr[w].newline \in BOOLEAN
         /\ \A p \in {"lock", "stale", "check", "drop", "write", "unlock"} :
              wr[w].pc \in {"lock", "stale", "check", "drop", "write"} =>
                /\ [wr[w] EXCEPT !.pc = p] \in WriterType
                /\ [wr[w] EXCEPT !.pc = p].pc = p /\ [wr[w] EXCEPT !.pc = p].note = wr[w].note
         /\ wr[w].pc = "append" =>
              [wr[w] EXCEPT !.pc = "unlock"] \in WriterType
                /\ [wr[w] EXCEPT !.pc = "unlock"].pc = "unlock"
<1>1. PICK q : q = wr[w]
  OBVIOUS
<1>2. q \in WriterType
  BY <1>1 DEF IInv, TypeInv
<1>3. /\ q.pc # "idle" => q.note \in Notes
      /\ q.pc \in {"open", "append"} => q.newline \in BOOLEAN
      /\ q.pc = "append" => [q EXCEPT !.pc = "unlock"] \in WriterType
                              /\ [q EXCEPT !.pc = "unlock"].pc = "unlock"
  BY <1>2 DEF WriterType
<1>4. ASSUME NEW p \in {"lock", "stale", "check", "drop", "write", "unlock"},
             q.pc \in {"lock", "stale", "check", "drop", "write"}
      PROVE  /\ [q EXCEPT !.pc = p] \in WriterType
             /\ [q EXCEPT !.pc = p].pc = p /\ [q EXCEPT !.pc = p].note = q.note
  <2>1. q \in [pc : {"lock", "stale", "check", "drop", "write", "unlock"}, note : Notes]
    BY <1>2, <1>4 DEF WriterType
  <2> QED BY <2>1 DEF WriterType
<1> QED BY <1>1, <1>2, <1>3, <1>4

LEMMA IdleStep ==
  Idle \in WriterType /\ Idle.pc = "idle" /\ Idle \in JobType
BY DEF Idle, WriterType, JobType

LEMMA StepBeginNote ==
  ASSUME IInv, NEW w \in Writers, NEW n \in Notes, BeginNote(w, n) PROVE IInv'
<1>1. PICK r : r = [pc |-> "lock", note |-> n]
  OBVIOUS
<1>2. r \in WriterType /\ r.pc = "lock"
  BY <1>1 DEF WriterType
<1>3. wr' = [wr EXCEPT ![w] = r]
  BY <1>1 DEF BeginNote
<1>4. UNCHANGED <<file, closed, bytes, dropped, committed, lock, job, purge, ledger, accepted, stolen,
                  raced, cut>>
  BY DEF BeginNote, inbox, history
<1>5. ops' \in Nat /\ faults' \in Nat
  BY DEF BeginNote, Begin, IInv, TypeInv
<1>6. FileInv' /\ LockInv'
  BY <1>2, <1>3, <1>4, SameFile, SameLock DEF AtWork, Checked
<1>7. /\ stolen' \in BOOLEAN /\ dropped' \in Nat
      /\ lock' \in [holder : Writers \cup {Dead, "none"}, old : BOOLEAN]
  BY <1>4 DEF IInv, TypeInv, TypeOK
<1> QED BY <1>2, <1>3, <1>4, <1>5, <1>6, <1>7, WriterStep

\* Steps that change nothing but where the writer is.
LEMMA Moves ==
  ASSUME IInv, NEW w \in Writers, NEW r \in WriterType, wr' = [wr EXCEPT ![w] = r],
         UNCHANGED <<inbox, lock, job, purge, ledger, history, bounds>>,
         r.pc \in AtWork => wr[w].pc \in AtWork,
         r.pc \in Checked =>
           stolen \/ /\ r.note \notin Elements(read_entries)
                     /\ Len(read_entries) < MaxEntries /\ bytes + Bytes[r.note] <= MaxBytes,
         r.pc \in {"open", "append"} => stolen \/ closed \/ r.newline
  PROVE  IInv'
<1>1. UNCHANGED <<file, closed, bytes, dropped, committed, lock, job, purge, ledger, accepted, stolen,
                  raced, cut, ops, faults>>
  BY DEF inbox, history, bounds
<1>2. FileInv' /\ LockInv'
  BY <1>1, SameFile, SameLock
<1>3. /\ stolen' \in BOOLEAN /\ dropped' \in Nat /\ ops' \in Nat /\ faults' \in Nat
      /\ lock' \in [holder : Writers \cup {Dead, "none"}, old : BOOLEAN]
  BY <1>1 DEF IInv, TypeInv, TypeOK
<1> QED BY <1>1, <1>2, <1>3, WriterStep

LEMMA StepFindStale ==
  ASSUME IInv, NEW w \in Writers, FindStale(w) PROVE IInv'
<1>1. PICK r : r = [wr[w] EXCEPT !.pc = "stale"]
  OBVIOUS
<1>2. r \in WriterType /\ r.pc = "stale"
  BY <1>1, WriterTypes DEF FindStale
<1>3. wr' = [wr EXCEPT ![w] = r]
  BY <1>1 DEF FindStale
<1> QED BY <1>2, <1>3, Moves DEF FindStale, AtWork, Checked

LEMMA StepTimedOut ==
  ASSUME IInv, NEW w \in Writers, TimedOut(w) PROVE IInv'
BY IdleStep, Moves DEF TimedOut, AtWork, Checked

LEMMA StepCheckNote ==
  ASSUME IInv, NEW w \in Writers, CheckNote(w) PROVE IInv'
<1>1. PICK n : n = wr[w].note
  OBVIOUS
<1>2. PICK p : p = IF n \in Elements(read_entries) THEN "unlock"
                   ELSE IF OverCap(n, read_entries) THEN "drop" ELSE "write"
  OBVIOUS
<1>3. PICK r : r = [wr[w] EXCEPT !.pc = p]
  OBVIOUS
<1>4. p \in {"unlock", "drop", "write"} /\ wr[w].pc = "check"
  BY <1>2 DEF CheckNote
<1>5. r \in WriterType /\ r.pc = p /\ r.note = n
  BY <1>1, <1>3, <1>4, WriterTypes
<1>6. wr' = [wr EXCEPT ![w] = r]
  BY <1>1, <1>2, <1>3 DEF CheckNote
<1>7. read_entries \in Seq(Notes) /\ file \in Seq(Lines)
  BY EntriesType DEF IInv, TypeInv, TypeOK, Lines, read_entries, EntriesOf
<1>8. p = "write" => /\ n \notin Elements(read_entries)
                     /\ Len(read_entries) < MaxEntries /\ bytes + Bytes[n] <= MaxBytes
  <2>1. p = "write" => n \notin Elements(read_entries) /\ ~OverCap(n, read_entries)
    BY <1>2
  <2>4. n \in Notes
    BY <1>1, <1>4, WriterTypes
  <2>2. Len(read_entries) \in Nat /\ bytes \in Nat /\ Bytes[n] \in Nat
    BY <1>7, <2>4, InboxAssumption DEF IInv, TypeInv, TypeOK
  <2>3. p = "write" => ~(Len(read_entries) >= MaxEntries) /\ ~(bytes + Bytes[n] > MaxBytes)
    BY <2>1 DEF OverCap
  <2> QED BY <2>1, <2>2, <2>3, InboxAssumption
<1> QED BY <1>4, <1>5, <1>6, <1>8, Moves DEF CheckNote, AtWork, Checked

LEMMA StepEndsWithoutNewline ==
  ASSUME IInv, NEW w \in Writers, EndsWithoutNewline(w) PROVE IInv'
<1>1. PICK n : n = wr[w].note
  OBVIOUS
<1>2. PICK r : r = [pc |-> "open", note |-> n, newline |-> ~closed]
  OBVIOUS
<1>3. wr[w].pc = "write" /\ n \in Notes
  BY <1>1, WriterTypes DEF EndsWithoutNewline
<1>4. r \in WriterType /\ r.pc = "open" /\ r.note = n /\ r.newline = ~closed
  BY <1>2, <1>3 DEF WriterType
<1>5. wr' = [wr EXCEPT ![w] = r]
  BY <1>1, <1>2 DEF EndsWithoutNewline, ends_without_newline
<1>6. stolen \/ /\ n \notin Elements(read_entries)
                /\ Len(read_entries) < MaxEntries /\ bytes + Bytes[n] <= MaxBytes
  BY <1>1, <1>3 DEF IInv, FileInv, Checked
<1> QED BY <1>3, <1>4, <1>5, <1>6, Moves DEF EndsWithoutNewline, AtWork

LEMMA StepOpen ==
  ASSUME IInv, NEW w \in Writers, open_private_append(w) PROVE IInv'
<1>1. PICK n, b : n = wr[w].note /\ b = wr[w].newline
  OBVIOUS
<1>2. PICK r : r = [pc |-> "append", note |-> n, newline |-> b, gone |-> FALSE]
  OBVIOUS
<1>3. wr[w].pc = "open" /\ n \in Notes /\ b \in BOOLEAN
  BY <1>1, WriterTypes DEF open_private_append
<1>4. r \in WriterType /\ r.pc = "append" /\ r.note = n /\ r.newline = b
  BY <1>2, <1>3 DEF WriterType
<1>5. wr' = [wr EXCEPT ![w] = r]
  BY <1>1, <1>2 DEF open_private_append
<1>6. stolen \/ /\ n \notin Elements(read_entries) /\ (closed \/ b)
                /\ Len(read_entries) < MaxEntries /\ bytes + Bytes[n] <= MaxBytes
  BY <1>1, <1>3 DEF IInv, FileInv, Checked
<1> QED BY <1>3, <1>4, <1>5, <1>6, Moves DEF open_private_append, AtWork

LEMMA StepBumpDropped ==
  ASSUME IInv, NEW w \in Writers, bump_dropped(w) PROVE IInv'
<1>1. PICK r : r = [wr[w] EXCEPT !.pc = "unlock"]
  OBVIOUS
<1>2. r \in WriterType /\ r.pc = "unlock" /\ wr[w].pc = "drop"
  BY <1>1, WriterTypes DEF bump_dropped
<1>3. wr' = [wr EXCEPT ![w] = r]
  BY <1>1 DEF bump_dropped
<1>4. UNCHANGED <<file, closed, bytes, committed, lock, job, purge, ledger, accepted, stolen, raced,
                  cut, ops, faults>>
  BY DEF bump_dropped, history, bounds
<1>5. FileInv' /\ LockInv'
  BY <1>2, <1>3, <1>4, SameFile, SameLock DEF AtWork, Checked
<1>6. /\ stolen' \in BOOLEAN /\ ops' \in Nat /\ faults' \in Nat
      /\ lock' \in [holder : Writers \cup {Dead, "none"}, old : BOOLEAN]
      /\ dropped' \in Nat
  BY <1>4 DEF IInv, TypeInv, TypeOK, bump_dropped
<1> QED BY <1>2, <1>3, <1>4, <1>5, <1>6, WriterStep

LEMMA StepAcquire ==
  ASSUME IInv, NEW w \in Writers, Acquire(w) PROVE IInv'
<1>1. PICK r : r = [wr[w] EXCEPT !.pc = "check"]
  OBVIOUS
<1>2. r \in WriterType /\ r.pc = "check"
  BY <1>1, WriterTypes DEF Acquire
<1>3. wr' = [wr EXCEPT ![w] = r]
  BY <1>1 DEF Acquire
<1>4. UNCHANGED <<file, closed, bytes, dropped, committed, job, purge, ledger, accepted, stolen,
                  raced,
                  cut, ops, faults>>
  BY DEF Acquire, inbox, history, bounds
<1>5. FileInv'
  BY <1>2, <1>3, <1>4, SameFile DEF Checked
<1>6. lock' = [holder |-> w, old |-> FALSE] /\ lock = Free
  BY DEF Acquire
<1>7. LockInv'
  <2>1. \A u \in Writers : wr'[u] = IF u = w THEN r ELSE wr[u]
    BY <1>3 DEF IInv, TypeInv
  <2>2. \A u \in Writers : lock.holder # u /\ lock'.holder = w
    BY <1>6, InboxAssumption DEF Free
  <2> QED BY <1>4, <2>1, <2>2 DEF IInv, LockInv
<1>8. /\ stolen' \in BOOLEAN /\ ops' \in Nat /\ faults' \in Nat /\ dropped' \in Nat
      /\ lock' \in [holder : Writers \cup {Dead, "none"}, old : BOOLEAN]
  BY <1>4, <1>6 DEF IInv, TypeInv, TypeOK
<1> QED BY <1>2, <1>3, <1>4, <1>5, <1>7, <1>8, WriterStep

\* A lock that is removed under a writer at work is stolen.
LEMMA StepReclaim ==
  ASSUME IInv, NEW w \in Writers, Reclaim(w) PROVE IInv'
<1>1. PICK r : r = [wr[w] EXCEPT !.pc = "lock"]
  OBVIOUS
<1>2. r \in WriterType /\ r.pc = "lock"
  BY <1>1, WriterTypes DEF Reclaim
<1>3. wr' = [wr EXCEPT ![w] = r]
  BY <1>1 DEF Reclaim
<1>4. UNCHANGED <<file, closed, bytes, dropped, committed, job, purge, ledger, accepted, raced,
                  cut, ops, faults>>
  BY DEF Reclaim, inbox, bounds
<1>5. /\ stolen' \in BOOLEAN /\ (stolen => stolen') /\ (~stolen' => lock.holder \notin Writers)
      /\ lock' = Free
  BY DEF Reclaim, IInv, TypeInv, TypeOK
<1>6. FileInv'
  BY <1>2, <1>3, <1>4, <1>5, SameFile DEF Checked
<1>7. LockInv'
  <2>1. \A u \in Writers : wr'[u] = IF u = w THEN r ELSE wr[u]
    BY <1>3 DEF IInv, TypeInv
  <2> QED BY <1>2, <1>5, <2>1 DEF IInv, LockInv, AtWork
<1>8. /\ ops' \in Nat /\ faults' \in Nat /\ dropped' \in Nat
      /\ lock' \in [holder : Writers \cup {Dead, "none"}, old : BOOLEAN]
  BY <1>4, <1>5 DEF IInv, TypeInv, TypeOK, Free
<1> QED BY <1>2, <1>3, <1>4, <1>5, <1>6, <1>7, <1>8, WriterStep

LEMMA StepUnlock ==
  ASSUME IInv, NEW w \in Writers, Unlock(w) PROVE IInv'
<1>1. PICK r : r = Idle
  OBVIOUS
<1>2. r \in WriterType /\ r.pc = "idle"
  BY <1>1, IdleStep
<1>3. wr' = [wr EXCEPT ![w] = r]
  BY <1>1 DEF Unlock
<1>4. UNCHANGED <<file, closed, bytes, dropped, committed, job, purge, ledger, accepted, raced,
                  cut, ops, faults>>
  BY DEF Unlock, inbox, bounds
<1>5. /\ stolen' \in BOOLEAN /\ (stolen => stolen')
      /\ (~stolen' => lock.holder \in {w, "none"}) /\ lock' = Free
  BY DEF Unlock, IInv, TypeInv, TypeOK
<1>6. FileInv'
  BY <1>2, <1>3, <1>4, <1>5, SameFile DEF Checked
<1>7. LockInv'
  <2>1. \A u \in Writers : wr'[u] = IF u = w THEN r ELSE wr[u]
    BY <1>3 DEF IInv, TypeInv
  <2>2. "none" \notin Writers
    BY InboxAssumption
  <2> QED BY <1>2, <1>5, <2>1, <2>2 DEF IInv, LockInv, AtWork
<1>8. /\ ops' \in Nat /\ faults' \in Nat /\ dropped' \in Nat
      /\ lock' \in [holder : Writers \cup {Dead, "none"}, old : BOOLEAN]
  BY <1>4, <1>5 DEF IInv, TypeInv, TypeOK, Free
<1> QED BY <1>2, <1>3, <1>4, <1>5, <1>6, <1>7, <1>8, WriterStep

-----------------------------------------------------------------------------
(* The file grows *)

LEMMA AppendedType ==
  ASSUME file \in Seq(Lines), NEW l \in Lines, NEW b
  PROVE  Appended(l, b) \in Seq(Lines)
<1>1. CASE closed \/ b
  BY <1>1 DEF Appended
<1>2. CASE ~(closed \/ b)
  <2>1. PICK x : x = IF Broken \in {file[Len(file)], l} THEN Broken ELSE Torn
    OBVIOUS
  <2>2. x \in Lines
    BY <2>1 DEF Lines
  <2>3. Appended(l, b) = [file EXCEPT ![Len(file)] = x]
    BY <1>2, <2>1 DEF Appended
  <2>4. file \in [1 .. Len(file) -> Lines] /\ Len(file) \in Nat
    OBVIOUS
  <2>5. [file EXCEPT ![Len(file)] = x] \in [1 .. Len(file) -> Lines]
    BY <2>2, <2>4
  <2>6. \A n \in Nat : \A f \in [1 .. n -> Lines] : f \in Seq(Lines)
    OBVIOUS
  <2> QED BY <2>3, <2>4, <2>5, <2>6
<1> QED BY <1>1, <1>2

\* The one writer at work adds the line it has room for, or a part of it.
LEMMA LineAdded ==
  ASSUME IInv, NEW w \in Writers, wr[w].pc = "append", NEW l \in Lines,
         l \in Notes => l = wr[w].note, file' = Appended(l, wr[w].newline),
         stolen' = stolen, NEW r, wr' = [wr EXCEPT ![w] = r], r.pc \notin Checked,
         NEW len \in Nat, len <= Bytes[wr[w].note], bytes' = bytes + len + Newline(wr[w].newline),
         accepted' = accepted \/ (l \in Notes /\ accepted' = accepted \cup {l})
  PROVE  /\ FileInv' /\ file' \in Seq(Lines)
         /\ \/ stolen' \/ EntriesOf(file') = EntriesOf(file)
            \/ \E n \in Notes : EntriesOf(file') = Append(EntriesOf(file), n)
<1>1. file' \in Seq(Lines) /\ file \in Seq(Lines)
  BY AppendedType DEF IInv, TypeInv, TypeOK, Lines
<1>2. SUFFICES ASSUME ~stolen
               PROVE  /\ FileInv'
                      /\ \/ EntriesOf(file') = EntriesOf(file)
                         \/ \E n \in Notes : EntriesOf(file') = Append(EntriesOf(file), n)
  BY <1>1 DEF FileInv
<1>3. file' = Append(file, l)
  BY <1>2 DEF IInv, FileInv, Appended
<1>4. PICK e : e = EntriesOf(file)
  OBVIOUS
<1>5. PICK g : g = EntriesOf(file')
  OBVIOUS
<1>6. e \in Seq(Notes) /\ e = read_entries /\ g = read_entries'
  BY <1>1, <1>4, <1>5, EntriesType DEF read_entries, EntriesOf
<1>7. g = IF l \in Notes /\ Broken \notin Elements(file) THEN Append(e, l) ELSE e
  BY <1>1, <1>3, <1>4, <1>5, EntriesAppend
<1>8. /\ Len(e) <= MaxEntries
      /\ \A i, j \in DOMAIN e : e[i] = e[j] => i = j
      /\ Broken \in Elements(file) \/ accepted \subseteq Elements(e)
      /\ wr[w].note \notin Elements(e)
      /\ Len(e) < MaxEntries /\ bytes + Bytes[wr[w].note] <= MaxBytes
  BY <1>2, <1>6 DEF IInv, FileInv, Checked
<1>9. \A u \in Writers : wr'[u].pc \notin Checked
  <2>1. \A u \in Writers : wr'[u] = IF u = w THEN r ELSE wr[u]
    BY DEF IInv, TypeInv
  <2>2. lock.holder = w /\ \A u \in Writers : wr[u].pc \in AtWork => lock.holder = u
    BY <1>2 DEF IInv, LockInv, AtWork
  <2> QED BY <2>1, <2>2 DEF AtWork, Checked
<1>10. bytes' <= MaxBytes + 1 /\ Elements(file') = Elements(file) \cup {l}
  <2>1. Elements(file') = Elements(file) \cup {l}
    BY <1>1, <1>3, ElementsAppend
  <2>2. bytes \in Nat /\ Bytes[wr[w].note] \in Nat
    BY WriterTypes, InboxAssumption DEF IInv, TypeInv, TypeOK
  <2>3. Newline(wr[w].newline) \in 0 .. 1
    BY DEF Newline
  <2> QED BY <1>8, <2>1, <2>2, <2>3, InboxAssumption
<1>11. CASE l \in Notes /\ Broken \notin Elements(file)
  <2>1. g = Append(e, l) /\ l = wr[w].note
    BY <1>7, <1>11
  <2>2. /\ Elements(g) = Elements(e) \cup {l} /\ Len(g) = Len(e) + 1 /\ g[Len(e) + 1] = l
        /\ \A i \in 1 .. Len(e) : g[i] = e[i]
        /\ Len(e) \in Nat /\ DOMAIN e = 1 .. Len(e) /\ DOMAIN g = 1 .. Len(e) + 1
    BY <1>6, <1>11, <2>1, ElementsAppend
  <2>3. Len(g) <= MaxEntries
    BY <1>8, <2>2, InboxAssumption
  <2>4. ASSUME NEW i \in DOMAIN g, NEW j \in DOMAIN g, g[i] = g[j] PROVE i = j
    <3>1. \A k \in 1 .. Len(e) : g[k] # l
      BY <1>8, <2>1, <2>2 DEF Elements
    <3>2. i \in 1 .. Len(e) \/ i = Len(e) + 1
      BY <2>2
    <3>3. j \in 1 .. Len(e) \/ j = Len(e) + 1
      BY <2>2
    <3> QED BY <1>8, <2>2, <2>4, <3>1, <3>2, <3>3
  <2>5. accepted' \subseteq Elements(g)
    BY <1>8, <1>11, <2>2
  <2> QED BY <1>2, <1>4, <1>5, <1>6, <1>9, <1>10, <1>11, <2>1, <2>3, <2>4, <2>5 DEF FileInv, Checked
<1>12. CASE ~(l \in Notes /\ Broken \notin Elements(file))
  <2>1. g = e
    BY <1>7, <1>12
  <2>2. Broken \in Elements(file') \/ accepted' \subseteq Elements(e)
    BY <1>8, <1>10, <1>12
  <2> QED BY <1>2, <1>4, <1>5, <1>6, <1>8, <1>9, <1>10, <2>1, <2>2 DEF FileInv, Checked
<1> QED BY <1>11, <1>12

\* The pieces of a step of a writer that changes the file.
LEMMA FileStep ==
  ASSUME IInv, NEW w \in Writers, NEW r \in WriterType, wr' = [wr EXCEPT ![w] = r],
         file' \in Seq(Lines), closed' \in BOOLEAN, bytes' \in Nat, accepted' \subseteq Notes,
         dropped' \in Nat, UNCHANGED <<committed, job, purge, ledger, stolen, raced, cut>>,
         lock' \in [holder : Writers \cup {Dead, "none"}, old : BOOLEAN],
         ops' \in Nat, faults' \in Nat, LockInv', FileInv',
         \/ stolen' \/ EntriesOf(file') = EntriesOf(file)
         \/ \E n \in Notes : EntriesOf(file') = Append(EntriesOf(file), n)
  PROVE  IInv'
<1>1. TypeInv'
  <2>1. wr' \in [Writers -> WriterType]
    BY DEF IInv, TypeInv
  <2>2. TypeOK'
    BY DEF IInv, TypeInv, TypeOK, ledger, Lines
  <2> QED BY <2>1, <2>2 DEF IInv, TypeInv
<1>2. CountInv' /\ ReachInv' /\ TodoInv' /\ LedgerInv'
  BY SameJob
<1> QED BY <1>1, <1>2 DEF IInv

LEMMA StepWriteNote ==
  ASSUME IInv, NEW w \in Writers, WriteNote(w) PROVE IInv'
<1>1. PICK r : r = [wr[w] EXCEPT !.pc = "unlock"]
  OBVIOUS
<1>2. r \in WriterType /\ r.pc = "unlock" /\ wr[w].pc = "append"
  BY <1>1, WriterTypes DEF WriteNote
<1>3. wr' = [wr EXCEPT ![w] = r]
  BY <1>1 DEF WriteNote
<1>4. PICK n : n = wr[w].note
  OBVIOUS
<1>5. n \in Notes /\ n \in Lines
  BY <1>2, <1>4, WriterTypes DEF Lines
<1>6. UNCHANGED <<dropped, committed, lock, job, purge, ledger, stolen, raced, cut, ops, faults>>
  BY <1>4 DEF WriteNote, bounds
<1>10. /\ bytes \in Nat /\ file \in Seq(Lines) /\ closed \in BOOLEAN /\ accepted \subseteq Notes
       /\ Bytes[n] \in Nat /\ Newline(wr[w].newline) \in Nat
  BY <1>5, InboxAssumption DEF IInv, TypeInv, TypeOK, Lines, Newline
<1>11. CASE wr[w].gone
  <2>1. UNCHANGED <<file, closed, bytes, accepted>>
    BY <1>11 DEF WriteNote
  <2>2. FileInv' /\ LockInv'
    BY <1>2, <1>3, <1>6, <2>1, SameFile, SameLock DEF AtWork, Checked
  <2>3. /\ stolen' \in BOOLEAN /\ dropped' \in Nat /\ ops' \in Nat /\ faults' \in Nat
        /\ lock' \in [holder : Writers \cup {Dead, "none"}, old : BOOLEAN]
    BY <1>6 DEF IInv, TypeInv, TypeOK
  <2> QED BY <1>2, <1>3, <1>6, <2>1, <2>2, <2>3, WriterStep
<1>12. SUFFICES ASSUME ~wr[w].gone PROVE IInv'
  BY <1>11
<1>13. /\ file' = Appended(n, wr[w].newline) /\ closed' = TRUE /\ accepted' = accepted \cup {n}
       /\ bytes' = bytes + Bytes[n] + Newline(wr[w].newline)
  BY <1>4, <1>12 DEF WriteNote
<1>7. /\ FileInv' /\ file' \in Seq(Lines)
      /\ \/ stolen' \/ EntriesOf(file') = EntriesOf(file)
         \/ \E m \in Notes : EntriesOf(file') = Append(EntriesOf(file), m)
  <2>1. r.pc \notin Checked /\ Bytes[n] <= Bytes[n]
    BY <1>2, <1>10 DEF Checked
  <2> QED BY <1>2, <1>3, <1>4, <1>5, <1>6, <1>10, <1>13, <2>1, LineAdded
<1>8. LockInv'
  BY <1>2, <1>3, <1>6, SameLock DEF AtWork
<1>9. /\ accepted' \subseteq Notes /\ dropped' \in Nat /\ ops' \in Nat /\ faults' \in Nat
      /\ lock' \in [holder : Writers \cup {Dead, "none"}, old : BOOLEAN]
      /\ bytes' \in Nat /\ closed' \in BOOLEAN
  BY <1>5, <1>6, <1>10, <1>13 DEF IInv, TypeInv, TypeOK
<1> QED BY <1>2, <1>3, <1>6, <1>7, <1>8, <1>9, FileStep

LEMMA StepWriterDies ==
  ASSUME IInv, NEW w \in Writers, WriterDies(w) PROVE IInv'
<1>1. PICK r : r = Idle
  OBVIOUS
<1>2. r \in WriterType /\ r.pc = "idle" /\ wr' = [wr EXCEPT ![w] = r]
  BY <1>1, IdleStep DEF WriterDies
<1>3. UNCHANGED <<committed, job, purge, ledger, accepted, stolen, raced, cut>>
  BY DEF WriterDies, history
<1>4. lock' \in [holder : Writers \cup {Dead, "none"}, old : BOOLEAN]
  BY DEF WriterDies, IInv, TypeInv
<1>5. LockInv'
  <2>1. \A u \in Writers : wr'[u] = IF u = w THEN r ELSE wr[u]
    BY <1>2 DEF IInv, TypeInv
  <2>2. lock' = lock \/ lock.holder = w
    BY DEF WriterDies
  <2> QED BY <1>2, <1>3, <2>1, <2>2 DEF IInv, LockInv, AtWork
<1>6. ops' \in Nat /\ faults' \in Nat /\ accepted' \subseteq Notes
  BY <1>3 DEF WriterDies, Fault, IInv, TypeInv, TypeOK
<1>7. file \in Seq(Lines) /\ closed \in BOOLEAN /\ dropped \in Nat /\ bytes \in Nat
  BY DEF IInv, TypeInv, TypeOK, Lines
<1>8. CASE UNCHANGED <<file, closed, bytes, dropped>>
  <2>1. FileInv'
    BY <1>2, <1>3, <1>8, SameFile DEF Checked
  <2> QED BY <1>2, <1>3, <1>4, <1>5, <1>6, <1>7, <1>8, <2>1, FileStep
<1>9. CASE wr[w].pc = "append" /\ closed' = TRUE /\ bytes' = bytes + 1 /\ UNCHANGED <<file, dropped>>
  <2>1. FileInv'
    <3>1. \A u \in Writers : wr'[u] = IF u = w THEN r ELSE wr[u]
      BY <1>2 DEF IInv, TypeInv
    <3>2. read_entries' = read_entries /\ file' = file /\ accepted' = accepted /\ stolen' = stolen
      BY <1>3, <1>9 DEF read_entries
    <3>3. ~stolen => \A u \in Writers : wr'[u].pc \notin Checked
      BY <1>2, <1>9, <3>1 DEF IInv, LockInv, AtWork, Checked
    <3>4. ~stolen => bytes + Bytes[wr[w].note] <= MaxBytes
      BY <1>9 DEF IInv, FileInv, Checked
    <3>5. Bytes[wr[w].note] \in Nat
      BY <1>9, WriterTypes, InboxAssumption
    <3>6. ~stolen => bytes' <= MaxBytes + 1
      BY <1>7, <1>9, <3>4, <3>5, InboxAssumption
    <3> QED BY <1>2, <1>9, <3>1, <3>2, <3>3, <3>6 DEF IInv, FileInv, Checked
  <2>2. bytes' \in Nat
    BY <1>7, <1>9
  <2> QED BY <1>2, <1>3, <1>4, <1>5, <1>6, <1>7, <1>9, <2>1, <2>2, FileStep
<1>10. CASE /\ wr[w].pc = "append" /\ closed' = FALSE /\ dropped' = dropped
            /\ \E p \in Part(wr[w].note) : /\ file' = Appended(p[1], wr[w].newline)
                                          /\ bytes' = bytes + p[2] + Newline(wr[w].newline)
  <2>1. PICK p \in Part(wr[w].note) : /\ file' = Appended(p[1], wr[w].newline)
                                      /\ bytes' = bytes + p[2] + Newline(wr[w].newline)
    BY <1>10
  <2>2. wr[w].note \in Notes
    BY <1>10, WriterTypes
  <2>3. PICK l, k : l = p[1] /\ k = p[2]
    OBVIOUS
  <2>4. /\ l \in Lines /\ (l \in Notes => l = wr[w].note)
        /\ k \in Nat /\ k <= Bytes[wr[w].note]
    BY <2>2, <2>3, InboxAssumption DEF Part, Lines
  <2>5. r.pc \notin Checked /\ Newline(wr[w].newline) \in Nat
    BY <1>2 DEF Checked, Newline
  <2>6. /\ FileInv' /\ file' \in Seq(Lines)
        /\ \/ stolen' \/ EntriesOf(file') = EntriesOf(file)
           \/ \E m \in Notes : EntriesOf(file') = Append(EntriesOf(file), m)
    BY <1>2, <1>3, <1>10, <2>1, <2>3, <2>4, <2>5, LineAdded
  <2>7. bytes' \in Nat
    BY <1>7, <2>1, <2>3, <2>4, <2>5
  <2> QED BY <1>2, <1>3, <1>4, <1>5, <1>6, <1>7, <1>10, <2>6, <2>7, FileStep
<1>11. CASE dropped' = 0 /\ UNCHANGED <<file, closed, bytes>>
  <2>1. FileInv'
    BY <1>2, <1>3, <1>11, SameFile DEF Checked
  <2> QED BY <1>2, <1>3, <1>4, <1>5, <1>6, <1>7, <1>11, <2>1, FileStep
<1> QED BY <1>8, <1>9, <1>10, <1>11 DEF WriterDies

LEMMA StepLockAges == ASSUME IInv, LockAges PROVE IInv'
<1>1. UNCHANGED <<file, closed, bytes, dropped, committed, wr, job, purge, ledger, accepted, stolen,
                  raced, cut>>
  BY DEF LockAges, inbox, history
<1>2. lock' = [lock EXCEPT !.old = TRUE] /\ ops' \in Nat /\ faults' \in Nat
  BY DEF LockAges, Fault, bounds, IInv, TypeInv
<1>3. lock' \in [holder : Writers \cup {Dead, "none"}, old : BOOLEAN] /\ lock'.holder = lock.holder
  BY <1>2 DEF IInv, TypeInv
<1>4. TypeInv'
  BY <1>1, <1>2, <1>3 DEF IInv, TypeInv, TypeOK, ledger
<1>5. LockInv' /\ FileInv'
  BY <1>1, <1>3 DEF IInv, LockInv, FileInv, read_entries
<1>6. CountInv' /\ ReachInv' /\ TodoInv' /\ LedgerInv'
  BY <1>1, SameJob
<1> QED BY <1>4, <1>5, <1>6 DEF IInv

-----------------------------------------------------------------------------
(* Purge *)

LEMMA StepRemoveEntries == ASSUME IInv, RemoveEntries PROVE IInv'
<1>1. /\ file' = <<>> /\ closed' = TRUE /\ bytes' = 0 /\ purge' = "dropped" /\ accepted' = {}
      /\ UNCHANGED <<dropped, committed, lock, job, ledger, stolen, cut>>
      /\ ops' \in Nat /\ faults' \in Nat /\ purge = "idle"
  BY DEF RemoveEntries, Begin, IInv, TypeInv
<1>2. /\ raced' \in BOOLEAN /\ (raced => raced')
      /\ ~raced' => job.pc \notin {"pending", "mark"} /\ ~(job.pc = "write" /\ job.total # 0)
  BY DEF RemoveEntries, IInv, TypeInv, TypeOK
<1>8. \A w \in Writers : /\ wr'[w] \in WriterType /\ wr'[w].pc = wr[w].pc
                         /\ wr[w].pc # "idle" => wr'[w].note = wr[w].note
  <2>1. SUFFICES ASSUME NEW w \in Writers
                 PROVE  /\ wr'[w] \in WriterType /\ wr'[w].pc = wr[w].pc
                        /\ wr[w].pc # "idle" => wr'[w].note = wr[w].note
    OBVIOUS
  <2>2. PICK q : q = wr[w]
    OBVIOUS
  <2>3. q \in WriterType /\ wr'[w] = IF q.pc = "append" THEN [q EXCEPT !.gone = TRUE] ELSE q
    BY <2>2, WriterTypes DEF RemoveEntries
  <2>4. q.pc = "append" => q \in [pc : {"append", "unlock"}, note : Notes, newline : BOOLEAN, gone : BOOLEAN]
    BY <2>3 DEF WriterType
  <2> QED BY <2>2, <2>3, <2>4 DEF WriterType
<1>3. TypeInv'
  <2>1. TypeOK'
    BY <1>1, <1>2 DEF IInv, TypeInv, TypeOK, ledger
  <2>2. wr' \in [Writers -> WriterType]
    BY <1>8 DEF RemoveEntries
  <2> QED BY <1>1, <2>1, <2>2 DEF IInv, TypeInv
<1>4. LockInv'
  BY <1>1, <1>8 DEF IInv, LockInv
<1>5. FileInv'
  <2>1. read_entries' = <<>>
    BY <1>1, EntriesEmpty DEF read_entries, EntriesOf
  <2>2. Len(<<>>) = 0 /\ DOMAIN <<>> = {} /\ Elements(<<>>) = {}
    BY DEF Elements
  <2>3. \A w \in Writers : wr'[w].pc \in Checked /\ ~stolen =>
                            0 < MaxEntries /\ 0 + Bytes[wr'[w].note] <= MaxBytes
    <3>1. read_entries \in Seq(Notes) /\ file \in Seq(Lines)
      BY EntriesType DEF IInv, TypeInv, TypeOK, Lines, read_entries, EntriesOf
    <3>2. Len(read_entries) \in Nat /\ bytes \in Nat
      BY <3>1 DEF IInv, TypeInv, TypeOK
    <3>3. SUFFICES ASSUME NEW w \in Writers, wr[w].pc \in Checked, ~stolen
                   PROVE  0 < MaxEntries /\ 0 + Bytes[wr[w].note] <= MaxBytes
      BY <1>8 DEF Checked
    <3>4. Bytes[wr[w].note] \in Nat
      BY <3>3, WriterTypes, InboxAssumption DEF Checked
    <3>5. Len(read_entries) < MaxEntries /\ bytes + Bytes[wr[w].note] <= MaxBytes
      BY <3>3 DEF IInv, FileInv
    <3> QED BY <3>2, <3>4, <3>5, InboxAssumption
  <2>4. 0 <= MaxEntries /\ 0 <= MaxBytes + 1
    BY InboxAssumption
  <2> QED BY <1>1, <2>1, <2>2, <2>3, <2>4 DEF FileInv
<1>6. CountInv' /\ TodoInv' /\ LedgerInv'
  BY <1>1 DEF IInv, CountInv, Committing, TodoInv, LedgerInv, Todo, ToPut, Before, Behind, ledger
<1>7. ReachInv'
  <2>1. job.pc \in {"idle", "pending", "write", "mark"}
    BY DEF IInv, TypeInv, JobType
  <2> QED BY <1>1, <1>2, <2>1 DEF ReachInv, Committing
<1> QED BY <1>3, <1>4, <1>5, <1>6, <1>7 DEF IInv

LEMMA StepRemoveDropped == ASSUME IInv, RemoveDropped PROVE IInv'
<1>1. /\ dropped' = 0 /\ purge' = "committed" /\ purge = "dropped"
      /\ UNCHANGED <<file, closed, bytes, committed, lock, wr, job, ledger, accepted, stolen,
                     raced, cut,
                     ops, faults>>
  BY DEF RemoveDropped, history, bounds
<1>2. TypeInv'
  BY <1>1 DEF IInv, TypeInv, TypeOK, ledger
<1>3. LockInv' /\ FileInv'
  BY <1>1 DEF IInv, LockInv, FileInv, read_entries
<1>4. CountInv' /\ TodoInv' /\ LedgerInv'
  BY <1>1 DEF IInv, CountInv, Committing, TodoInv, LedgerInv, Todo, ToPut, Before, Behind, ledger
<1>5. ReachInv'
  BY <1>1 DEF IInv, ReachInv, Committing, read_entries, Todo, ToPut, ledger
<1> QED BY <1>2, <1>3, <1>4, <1>5 DEF IInv

LEMMA StepRemoveCommitted == ASSUME IInv, RemoveCommitted PROVE IInv'
<1>1. /\ committed' = 0 /\ purge' = "idle" /\ purge = "committed"
      /\ UNCHANGED <<file, closed, bytes, dropped, lock, wr, job, ledger, accepted, stolen, raced,
                     cut,
                     ops, faults>>
  BY DEF RemoveCommitted, history, bounds
<1>2. TypeInv'
  <2>1. TypeOK'
    BY <1>1, InboxAssumption DEF IInv, TypeInv, TypeOK, ledger
  <2> QED BY <1>1, <2>1 DEF IInv, TypeInv
<1>3. LockInv' /\ FileInv'
  BY <1>1 DEF IInv, LockInv, FileInv, read_entries
<1>4. CountInv' /\ TodoInv' /\ LedgerInv'
  BY <1>1, InboxAssumption DEF IInv, CountInv, Committing, TodoInv, LedgerInv, Todo, ToPut, Before, Behind, ledger
<1>5. read_entries' = read_entries /\ Len(read_entries) \in Nat
  BY <1>1, EntriesType DEF IInv, TypeInv, TypeOK, Lines, read_entries, EntriesOf
<1>6. ReachInv'
  BY <1>1, <1>5 DEF IInv, ReachInv, Committing, Todo, ToPut, ledger
<1> QED BY <1>2, <1>3, <1>4, <1>6 DEF IInv

LEMMA StepPurgeDies == ASSUME IInv, PurgeDies PROVE IInv'
<1>1. /\ purge' = "idle" /\ raced' = TRUE /\ ops' \in Nat /\ faults' \in Nat
      /\ UNCHANGED <<file, closed, bytes, dropped, committed, lock, wr, job, ledger, accepted,
                     stolen, cut>>
  BY DEF PurgeDies, Fault, inbox, IInv, TypeInv
<1>2. TypeInv'
  BY <1>1 DEF IInv, TypeInv, TypeOK, ledger
<1>3. LockInv' /\ FileInv' /\ ReachInv'
  BY <1>1 DEF IInv, LockInv, FileInv, read_entries, ReachInv
<1>4. CountInv' /\ TodoInv' /\ LedgerInv'
  BY <1>1 DEF IInv, CountInv, Committing, TodoInv, LedgerInv, Todo, ToPut, Before, Behind, ledger
<1> QED BY <1>2, <1>3, <1>4 DEF IInv

-----------------------------------------------------------------------------
(* Commit and review: before and after the list *)

\* Whoever works on the ledger leaves the file and its writers alone.
LEMMA SameInbox ==
  ASSUME IInv, UNCHANGED <<file, closed, bytes, lock, wr, accepted, stolen>>
  PROVE  LockInv' /\ FileInv' /\ read_entries' = read_entries
BY DEF IInv, LockInv, FileInv, read_entries

LEMMA EntriesNow ==
  ASSUME IInv
  PROVE  /\ read_entries \in Seq(Notes) /\ Len(read_entries) \in Nat
         /\ \A i \in 1 .. Len(read_entries) : read_entries[i] \in Notes
<1>1. read_entries \in Seq(Notes)
  BY EntriesType DEF IInv, TypeInv, TypeOK, Lines, read_entries, EntriesOf
<1> QED BY <1>1

\* Without a list, a claim has all it will have.
LEMMA NothingToPut ==
  ASSUME IInv, Todo = <<>>, NEW n \in Notes, claims[n] # "absent", n \notin cut
  PROVE  /\ n \in rels /\ (n \in DeadEnds => n \in events)
         /\ claims[n] # "unconfirmed" => n \in changes
         /\ claims[n] = "superseded" => n \in supersedes
BY DEF IInv, LedgerInv, ToPut

LEMMA StepBeginCommit == ASSUME IInv, BeginCommit PROVE IInv'
<1>1. /\ job' = [pc |-> "pending"] /\ job = Idle /\ ops' \in Nat /\ faults' \in Nat
      /\ UNCHANGED <<file, closed, bytes, dropped, committed, lock, wr, purge, ledger, accepted,
                     stolen, cut>>
  BY DEF BeginCommit, Begin, inbox, IInv, TypeInv
<1>0. raced' \in BOOLEAN /\ (raced => raced') /\ (~raced' => purge = "idle")
  BY DEF BeginCommit, IInv, TypeInv, TypeOK
<1>2. job'.pc = "pending" /\ job.pc = "idle" /\ job' \in JobType
  BY <1>1 DEF Idle, JobType
<1>3. TypeInv'
  BY <1>0, <1>1, <1>2 DEF IInv, TypeInv, TypeOK, ledger
<1>4. LockInv' /\ FileInv' /\ read_entries' = read_entries
  BY <1>1, SameInbox
<1>5. Todo = <<>> /\ Todo' = <<>> /\ ~Committing' /\ DOMAIN <<>> = {}
  BY <1>2 DEF Todo, Committing
<1>6. CountInv' /\ TodoInv' /\ LedgerInv'
  BY <1>1, <1>2, <1>5 DEF IInv, CountInv, TodoInv, LedgerInv, ToPut, ledger
<1>7. ReachInv'
  BY <1>0, <1>1, <1>4, <1>5 DEF IInv, ReachInv, ledger
<1> QED BY <1>3, <1>4, <1>6, <1>7 DEF IInv

LEMMA StepTruncate == ASSUME IInv, Truncate PROVE IInv'
<1>1. /\ job.pc = "write" /\ job.todo = <<>> /\ job \in JobType
      /\ UNCHANGED <<file, closed, bytes, dropped, lock, wr, purge, ledger, accepted, stolen,
                     raced, cut,
                     ops, faults>>
  BY DEF Truncate, history, bounds, IInv, TypeInv
<1>2. Todo = <<>> /\ DOMAIN <<>> = {} /\ job.total \in Nat
  BY <1>1 DEF Todo, JobType
<1>3. LockInv' /\ FileInv' /\ read_entries' = read_entries
  BY <1>1, SameInbox
<1>4. CASE job.total = 0
  <2>1. job' = Idle /\ committed' = committed /\ job'.pc = "idle" /\ job' \in JobType
    BY <1>4, IdleStep DEF Truncate
  <2>2. Todo' = <<>> /\ ~Committing' /\ ~Committing
    BY <2>1, <1>4 DEF Todo, Committing
  <2>3. TypeInv'
    BY <1>1, <2>1 DEF IInv, TypeInv, TypeOK, ledger
  <2>4. CountInv' /\ TodoInv' /\ LedgerInv'
    BY <1>1, <1>2, <2>1, <2>2 DEF IInv, CountInv, TodoInv, LedgerInv, ToPut, ledger
  <2>5. ReachInv'
    BY <1>1, <1>3, <2>1, <2>2 DEF IInv, ReachInv, ledger
  <2> QED BY <1>3, <2>3, <2>4, <2>5 DEF IInv
<1>5. CASE job.total # 0
  <2>1. /\ job' = [job EXCEPT !.pc = "mark"] /\ committed' = 0
        /\ job'.pc = "mark" /\ job' \in JobType /\ job'.total = job.total
    BY <1>1, <1>5 DEF Truncate, JobType
  <2>2. Todo' = <<>> /\ Committing' /\ Committing
    BY <1>1, <2>1, <1>5 DEF Todo, Committing
  <2>3. TypeInv'
    <3>1. TypeOK'
      BY <1>1, <2>1, InboxAssumption DEF IInv, TypeInv, TypeOK, ledger
    <3> QED BY <1>1, <2>1, <3>1 DEF IInv, TypeInv
  <2>4. CountInv' /\ TodoInv' /\ LedgerInv'
    BY <1>1, <1>2, <1>5, <2>1, <2>2, InboxAssumption
    DEF IInv, CountInv, TodoInv, LedgerInv, ToPut, ledger
  <2>5. ReachInv'
    BY <1>1, <1>2, <1>3, <1>5, <2>1, <2>2, EntriesNow DEF IInv, ReachInv, ToPut, ledger
  <2> QED BY <1>3, <2>3, <2>4, <2>5 DEF IInv
<1> QED BY <1>4, <1>5

LEMMA StepMarkCommitted == ASSUME IInv, MarkCommitted PROVE IInv'
<1>1. /\ job.pc = "mark" /\ job \in JobType /\ job' = Idle /\ committed' = job.total
      /\ UNCHANGED <<file, closed, bytes, dropped, lock, wr, purge, ledger, accepted, stolen,
                     raced, cut,
                     ops, faults>>
  BY DEF MarkCommitted, history, bounds, IInv, TypeInv
<1>2. /\ Todo = <<>> /\ Todo' = <<>> /\ DOMAIN <<>> = {} /\ job.total \in Nat
      /\ job'.pc = "idle" /\ job' \in JobType
  BY <1>1, IdleStep DEF Todo, JobType
<1>3. Committing /\ ~Committing'
  BY <1>1, <1>2 DEF Committing, IInv, TodoInv
<1>4. LockInv' /\ FileInv' /\ read_entries' = read_entries
  BY <1>1, SameInbox
<1>5. CountInv' /\ TodoInv' /\ LedgerInv'
  BY <1>1, <1>2, <1>3 DEF IInv, CountInv, TodoInv, LedgerInv, ToPut, ledger
<1>6. TypeInv'
  <2>1. TypeOK'
    BY <1>1, <1>2, <1>5 DEF IInv, TypeInv, TypeOK, CountInv, ledger
  <2> QED BY <1>1, <1>2, <2>1 DEF IInv, TypeInv
<1>7. ReachInv'
  <2>1. SUFFICES ASSUME ~stolen, ~raced
                 PROVE  /\ purge = "idle" /\ job.total <= Len(read_entries)
                        /\ \A i \in 1 .. job.total : claims[read_entries[i]] # "absent"
    BY <1>1, <1>2, <1>3, <1>4 DEF ReachInv, ledger
  <2>2. \A n : ~ToPut("claim", n)
    BY <1>2 DEF ToPut
  <2> QED BY <1>1, <1>3, <2>1, <2>2 DEF IInv, ReachInv
<1> QED BY <1>4, <1>5, <1>6, <1>7 DEF IInv

\* What a list still has of a note, but for its evidence, is unfinished.
LEMMA UnfinishedIs ==
  ASSUME IInv
  PROVE  /\ \A n \in Notes, k \in {"claim", "rel", "event", "status", "change", "supersedes"} :
              ToPut(k, n) => n \in Unfinished
         /\ Unfinished \subseteq Notes
<1>1. CASE job.pc # "write"
  BY <1>1 DEF ToPut, Todo, Unfinished
<1>2. CASE job.pc = "write"
  <2>1. PICK td : td = job.todo
    OBVIOUS
  <2>2. td \in Seq(PutType) /\ Todo = td
    BY <1>2, <2>1 DEF IInv, TypeInv, JobType, Todo
  <2>3. Unfinished = {td[i].note : i \in {j \in DOMAIN td : td[j].put \notin {"session", "evidence"}}}
    BY <1>2, <2>1 DEF Unfinished
  <2>4. \A j \in DOMAIN td : td[j] \in PutType
    BY <2>2
  <2>5. \A j \in DOMAIN td : td[j].put # "session" => td[j].note \in Notes
    BY <2>4 DEF PutType
  <2> QED BY <2>2, <2>3, <2>5 DEF ToPut
<1> QED BY <1>1, <1>2

LEMMA StepJobDies == ASSUME IInv, JobDies PROVE IInv'
<1>1. /\ job' = Idle /\ cut' = cut \cup {n \in Unfinished : claims[n] # "absent"}
      /\ UNCHANGED <<file, closed, bytes, dropped, committed, lock, wr, purge, ledger, accepted,
                     stolen, raced>>
      /\ ops' \in Nat /\ faults' \in Nat
  BY DEF JobDies, Fault, inbox, IInv, TypeInv
<1>2. /\ Todo' = <<>> /\ ~Committing' /\ DOMAIN <<>> = {}
      /\ job'.pc = "idle" /\ job' \in JobType
  BY <1>1, IdleStep DEF Todo, Committing
<1>3. LockInv' /\ FileInv' /\ read_entries' = read_entries
  BY <1>1, SameInbox
<1>4. TypeInv'
  <2>1. TypeOK'
    BY <1>1, UnfinishedIs DEF IInv, TypeInv, TypeOK, ledger
  <2> QED BY <1>1, <1>2, <2>1 DEF IInv, TypeInv
<1>5. CountInv' /\ TodoInv'
  BY <1>1, <1>2 DEF IInv, CountInv, TodoInv, ledger
<1>6. ReachInv'
  BY <1>1, <1>2, <1>3 DEF IInv, ReachInv, ledger
<1>7. LedgerInv'
  <2>1. SUFFICES ASSUME NEW n \in Notes, claims[n] # "absent", n \notin cut'
                 PROVE  /\ n \in rels /\ (n \in DeadEnds => n \in events)
                        /\ claims[n] # "unconfirmed" => n \in changes
                        /\ claims[n] = "superseded" => n \in supersedes
    BY <1>1 DEF IInv, LedgerInv, ledger
  <2>2. n \notin cut /\ n \notin Unfinished
    BY <1>1, <2>1
  <2>3. ~ToPut("rel", n) /\ ~ToPut("event", n) /\ ~ToPut("change", n) /\ ~ToPut("supersedes", n)
    BY <2>2, UnfinishedIs
  <2> QED BY <2>1, <2>2, <2>3 DEF IInv, LedgerInv
<1> QED BY <1>3, <1>4, <1>5, <1>6, <1>7 DEF IInv

-----------------------------------------------------------------------------
(* The list of a commit *)

LEMMA EachIs ==
  ASSUME NEW s \in Seq(Notes), NEW k \in {"evidence", "claim", "rel", "event"}
  PROVE  /\ Each(k, s) \in Seq(PutType) /\ Len(Each(k, s)) = Len(s)
         /\ \A i \in 1 .. Len(s) : Each(k, s)[i] = [put |-> k, note |-> s[i]]
<1>1. DOMAIN s = 1 .. Len(s) /\ Len(s) \in Nat
  OBVIOUS
<1>2. \A i \in 1 .. Len(s) : [put |-> k, note |-> s[i]] \in PutType
  BY DEF PutType
<1>3. Each(k, s) = [i \in 1 .. Len(s) |-> [put |-> k, note |-> s[i]]]
  BY <1>1 DEF Each
<1> HIDE DEF Each
<1> QED BY <1>1, <1>2, <1>3

\* Two lists one behind the other.
Joined(s, t, w) ==
  /\ Len(w) = Len(s) + Len(t)
  /\ \A i \in 1 .. Len(s) : w[i] = s[i]
  /\ \A i \in 1 .. Len(t) : w[Len(s) + i] = t[i]

LEMMA TwoLists ==
  ASSUME NEW S, NEW s \in Seq(S), NEW t \in Seq(S)
  PROVE  s \o t \in Seq(S) /\ Joined(s, t, s \o t)
<1>1. Len(s) \in Nat /\ Len(t) \in Nat
  OBVIOUS
<1>2. s \o t \in Seq(S) /\ Len(s \o t) = Len(s) + Len(t)
  OBVIOUS
<1>3. \A i \in 1 .. Len(s) + Len(t) : (s \o t)[i] = IF i <= Len(s) THEN s[i] ELSE t[i - Len(s)]
  OBVIOUS
<1>4. \A i \in 1 .. Len(s) : (s \o t)[i] = s[i]
  BY <1>1, <1>3
<1>5. ASSUME NEW i \in 1 .. Len(t) PROVE (s \o t)[Len(s) + i] = t[i]
  <2>1. Len(s) + i \in 1 .. Len(s) + Len(t) /\ ~(Len(s) + i <= Len(s)) /\ (Len(s) + i) - Len(s) = i
    BY <1>1
  <2> QED BY <1>3, <2>1
<1> QED BY <1>2, <1>4, <1>5 DEF Joined

\* Five lists one behind the other.
InOrder(a, x, c, r, e, w) ==
  /\ Len(w) = Len(a) + 1 + Len(c) + Len(r) + Len(e)
  /\ \A i \in 1 .. Len(a) : w[i] = a[i]
  /\ w[Len(a) + 1] = x
  /\ \A i \in 1 .. Len(c) : w[Len(a) + 1 + i] = c[i]
  /\ \A i \in 1 .. Len(r) : w[Len(a) + 1 + Len(c) + i] = r[i]
  /\ \A i \in 1 .. Len(e) : w[Len(a) + 1 + Len(c) + Len(r) + i] = e[i]

LEMMA FiveLists ==
  ASSUME NEW S, NEW a \in Seq(S), NEW x \in S, NEW c \in Seq(S), NEW r \in Seq(S),
         NEW e \in Seq(S), NEW w, w = a \o <<x>> \o c \o r \o e
  PROVE  w \in Seq(S) /\ InOrder(a, x, c, r, e, w)
<1>1. PICK p : p = a \o <<x>>
  OBVIOUS
<1>2. /\ p \in Seq(S) /\ Len(p) = Len(a) + 1 /\ p[Len(a) + 1] = x
      /\ \A i \in 1 .. Len(a) : p[i] = a[i]
  BY <1>1
<1>3. PICK q : q = p \o c
  OBVIOUS
<1>4. /\ q \in Seq(S) /\ Len(q) = Len(p) + Len(c)
      /\ \A i \in 1 .. Len(p) : q[i] = p[i]
      /\ \A i \in 1 .. Len(c) : q[Len(p) + i] = c[i]
  <2>1. p \o c \in Seq(S) /\ Joined(p, c, p \o c)
    BY <1>2, TwoLists, Zenon
  <2> QED BY <1>3, <2>1 DEF Joined
<1>5. PICK t : t = q \o r
  OBVIOUS
<1>6. /\ t \in Seq(S) /\ Len(t) = Len(q) + Len(r)
      /\ \A i \in 1 .. Len(q) : t[i] = q[i]
      /\ \A i \in 1 .. Len(r) : t[Len(q) + i] = r[i]
  <2>1. q \o r \in Seq(S) /\ Joined(q, r, q \o r)
    BY <1>4, TwoLists, Zenon
  <2> QED BY <1>5, <2>1 DEF Joined
<1>7. w = t \o e
  BY <1>1, <1>3, <1>5
<1>8. /\ w \in Seq(S) /\ Len(w) = Len(t) + Len(e)
      /\ \A i \in 1 .. Len(t) : w[i] = t[i]
      /\ \A i \in 1 .. Len(e) : w[Len(t) + i] = e[i]
  <2>1. t \o e \in Seq(S) /\ Joined(t, e, t \o e)
    BY <1>6, TwoLists, Zenon
  <2> QED BY <1>7, <2>1 DEF Joined
<1>9. Len(a) \in Nat /\ Len(c) \in Nat /\ Len(r) \in Nat /\ Len(e) \in Nat
  OBVIOUS
<1>10. \A i \in 1 .. Len(a) : w[i] = a[i]
  BY <1>2, <1>4, <1>6, <1>8, <1>9
<1>11. w[Len(a) + 1] = x
  BY <1>2, <1>4, <1>6, <1>8, <1>9
<1>12. \A i \in 1 .. Len(c) : w[Len(a) + 1 + i] = c[i]
  <2>1. TAKE i \in 1 .. Len(c)
  <2>2. Len(a) + 1 + i \in 1 .. Len(q) /\ Len(a) + 1 + i \in 1 .. Len(t)
    BY <1>2, <1>4, <1>6, <1>9
  <2> QED BY <2>2, <1>2, <1>4, <1>6, <1>8
<1>13. \A i \in 1 .. Len(r) : w[Len(a) + 1 + Len(c) + i] = r[i]
  <2>1. TAKE i \in 1 .. Len(r)
  <2>2. Len(q) + i \in 1 .. Len(t) /\ Len(q) + i = Len(a) + 1 + Len(c) + i
    BY <1>2, <1>4, <1>6, <1>9
  <2> QED BY <2>2, <1>6, <1>8
<1>14. \A i \in 1 .. Len(e) : w[Len(a) + 1 + Len(c) + Len(r) + i] = e[i]
  BY <1>2, <1>4, <1>6, <1>8, <1>9
<1>15. Len(w) = Len(a) + 1 + Len(c) + Len(r) + Len(e)
  BY <1>2, <1>4, <1>6, <1>8, <1>9
<1> QED BY <1>8, <1>10, <1>11, <1>12, <1>13, <1>14, <1>15 DEF InOrder

\* The lists of notes a batch is made into.
LEMMA BatchParts ==
  ASSUME NEW b \in Seq(Notes)
  PROVE  /\ NoEvidence(b) \in Seq(Notes) /\ Fresh(b) \in Seq(Notes)
         /\ OfDeadEnds(Fresh(b)) \in Seq(Notes)
         /\ \A n : n \in Elements(NoEvidence(b)) <=> n \in Elements(b) /\ n \notin evidence
         /\ \A n : n \in Elements(Fresh(b)) <=> n \in Elements(b) /\ claims[n] = "absent"
         /\ \A n : n \in Elements(OfDeadEnds(Fresh(b))) <=> n \in Elements(Fresh(b)) /\ n \in DeadEnds
<1>1. DOMAIN b = 1 .. Len(b)
  OBVIOUS
<1>2. /\ NoEvidence(b) \in Seq(Notes)
      /\ Elements(NoEvidence(b)) = {b[i] : i \in {j \in DOMAIN b : b[j] \notin evidence}}
  BY <1>1, KeptElements DEF NoEvidence
<1>3. PICK f : f = Fresh(b)
  OBVIOUS
<1>4. /\ f \in Seq(Notes)
      /\ Elements(f) = {b[i] : i \in {j \in DOMAIN b : claims[b[j]] = "absent"}}
  BY <1>1, <1>3, KeptElements DEF Fresh
<1>5. DOMAIN f = 1 .. Len(f)
  BY <1>4
<1>6. /\ OfDeadEnds(f) \in Seq(Notes)
      /\ Elements(OfDeadEnds(f)) = {f[i] : i \in {j \in DOMAIN f : f[j] \in DeadEnds}}
  BY <1>4, <1>5, KeptElements DEF OfDeadEnds
<1>7. \A n : n \in Elements(NoEvidence(b)) <=> n \in Elements(b) /\ n \notin evidence
  BY <1>2 DEF Elements
<1>8. \A n : n \in Elements(f) <=> n \in Elements(b) /\ claims[n] = "absent"
  <2>1. \A n : n \in Elements(f) <=> \E i \in DOMAIN b : claims[b[i]] = "absent" /\ n = b[i]
    BY <1>4
  <2>2. \A n : n \in Elements(b) <=> \E i \in DOMAIN b : n = b[i]
    BY DEF Elements
  <2> QED BY <2>1, <2>2
<1>9. \A n : n \in Elements(OfDeadEnds(f)) <=> n \in Elements(f) /\ n \in DeadEnds
  BY <1>6 DEF Elements
<1> QED BY <1>2, <1>3, <1>4, <1>6, <1>7, <1>8, <1>9

\* The appends of a commit, kind by kind: evidence for the notes a, the session, claims and
\* relationships for f, events for d.
IsWrites(a, f, d, total, w) ==
  /\ w \in Seq(PutType) /\ Len(w) = Len(a) + 1 + Len(f) + Len(f) + Len(d)
  /\ \A i \in 1 .. Len(a) : w[i] = [put |-> "evidence", note |-> a[i]]
  /\ w[Len(a) + 1] = [put |-> "session", count |-> total]
  /\ \A i \in 1 .. Len(f) : /\ w[Len(a) + 1 + i] = [put |-> "claim", note |-> f[i]]
                            /\ w[Len(a) + 1 + Len(f) + i] = [put |-> "rel", note |-> f[i]]
  /\ \A i \in 1 .. Len(d) :
       w[Len(a) + 1 + Len(f) + Len(f) + i] = [put |-> "event", note |-> d[i]]

LEMMA WritesIs ==
  ASSUME NEW b \in Seq(Notes), Total \in Nat \ {0}
  PROVE  \E a, f, d \in Seq(Notes) :
           /\ \A n : n \in Elements(a) <=> n \in Elements(b) /\ n \notin evidence
           /\ \A n : n \in Elements(f) <=> n \in Elements(b) /\ claims[n] = "absent"
           /\ \A n : n \in Elements(d) <=> n \in Elements(f) /\ n \in DeadEnds
           /\ IsWrites(a, f, d, Total, Writes(b))
<1>1. PICK a : a = NoEvidence(b)
  OBVIOUS
<1>2. PICK f : f = Fresh(b)
  OBVIOUS
<1>3. PICK d : d = OfDeadEnds(f)
  OBVIOUS
<1>4. PICK x : x = [put |-> "session", count |-> Total]
  OBVIOUS
<1>5. /\ a \in Seq(Notes) /\ f \in Seq(Notes) /\ d \in Seq(Notes)
      /\ \A n : n \in Elements(a) <=> n \in Elements(b) /\ n \notin evidence
      /\ \A n : n \in Elements(f) <=> n \in Elements(b) /\ claims[n] = "absent"
      /\ \A n : n \in Elements(d) <=> n \in Elements(f) /\ n \in DeadEnds
  BY <1>1, <1>2, <1>3, BatchParts
<1>6. x \in PutType
  BY <1>4 DEF PutType
<1>7. Writes(b) = Each("evidence", a) \o <<x>> \o Each("claim", f) \o Each("rel", f) \o Each("event", d)
  BY <1>1, <1>2, <1>3, <1>4 DEF Writes
<1>8. PICK ea, ec, er, ee : /\ ea = Each("evidence", a) /\ ec = Each("claim", f)
                            /\ er = Each("rel", f) /\ ee = Each("event", d)
  OBVIOUS
<1>9. /\ ea \in Seq(PutType) /\ Len(ea) = Len(a)
      /\ \A i \in 1 .. Len(a) : ea[i] = [put |-> "evidence", note |-> a[i]]
  BY <1>5, <1>8, EachIs
<1>10. /\ ec \in Seq(PutType) /\ Len(ec) = Len(f)
       /\ \A i \in 1 .. Len(f) : ec[i] = [put |-> "claim", note |-> f[i]]
  BY <1>5, <1>8, EachIs
<1>11. /\ er \in Seq(PutType) /\ Len(er) = Len(f)
       /\ \A i \in 1 .. Len(f) : er[i] = [put |-> "rel", note |-> f[i]]
  BY <1>5, <1>8, EachIs
<1>12. /\ ee \in Seq(PutType) /\ Len(ee) = Len(d)
       /\ \A i \in 1 .. Len(d) : ee[i] = [put |-> "event", note |-> d[i]]
  BY <1>5, <1>8, EachIs
<1>13. PICK w : w = Writes(b)
  OBVIOUS
<1>14. w = ea \o <<x>> \o ec \o er \o ee
  BY <1>7, <1>8, <1>13
<1>15. w \in Seq(PutType) /\ InOrder(ea, x, ec, er, ee, w)
  BY <1>6, <1>9, <1>10, <1>11, <1>12, <1>14, FiveLists, Zenon
<1>16. IsWrites(a, f, d, Total, w)
  BY <1>4, <1>9, <1>10, <1>11, <1>12, <1>15 DEF InOrder, IsWrites
<1> QED BY <1>5, <1>13, <1>16, Zenon

\* The notes behind the counter.
LEMMA PendingIs ==
  ASSUME IInv
  PROVE  /\ pending \in Seq(Notes)
         /\ Elements(pending) = {read_entries[i] : i \in committed + 1 .. Len(read_entries)}
         /\ pending # <<>> => Total \in Nat \ {0}
<1>1. PICK e : e = read_entries
  OBVIOUS
<1>2. e \in Seq(Notes) /\ Len(e) \in Nat /\ committed \in Nat
  BY <1>1, EntriesNow DEF IInv, TypeInv, TypeOK
<1>3. PICK m : m = Min2(committed, Len(e))
  OBVIOUS
<1>4. m \in 0 .. Len(e) /\ (committed <= Len(e) => m = committed) /\ (committed > Len(e) => m = Len(e))
  BY <1>2, <1>3 DEF Min2
<1>5. PICK p : p = SubSeq(e, m + 1, Len(e))
  OBVIOUS
<1>6. /\ p \in Seq(Notes) /\ Len(p) = Len(e) - m
      /\ \A i \in 1 .. Len(e) - m : p[i] = e[m + i]
  <2>1. p = [i \in 1 .. Len(e) - m |-> e[m + i]]
    BY <1>2, <1>4, <1>5
  <2>2. Len(e) - m \in Nat /\ \A i \in 1 .. Len(e) - m : m + i \in 1 .. Len(e) /\ e[m + i] \in Notes
    BY <1>2, <1>4
  <2> QED BY <2>1, <2>2
<1>7. pending = p
  BY <1>1, <1>3, <1>5 DEF pending
<1>8. Elements(p) = {e[i] : i \in committed + 1 .. Len(e)}
  <2>1. DOMAIN p = 1 .. Len(e) - m
    BY <1>2, <1>4, <1>6
  <2>2. ASSUME NEW i \in 1 .. Len(e) - m PROVE p[i] \in {e[k] : k \in committed + 1 .. Len(e)}
    <3>1. m + i \in committed + 1 .. Len(e)
      BY <1>2, <1>4
    <3> QED BY <3>1, <1>6
  <2>3. ASSUME NEW k \in committed + 1 .. Len(e) PROVE e[k] \in {p[i] : i \in 1 .. Len(e) - m}
    <3>1. k - m \in 1 .. Len(e) - m /\ m + (k - m) = k
      BY <1>2, <1>4
    <3>2. p[k - m] = e[k]
      BY <3>1, <1>6
    <3> QED BY <3>1, <3>2
  <2> QED BY <2>1, <2>2, <2>3 DEF Elements
<1>9. p # <<>> => Len(e) # 0
  BY <1>2, <1>4, <1>6
<1> QED BY <1>1, <1>2, <1>6, <1>7, <1>8, <1>9 DEF Total

\* The list of a commit is in the right order.
LEMMA GoodList ==
  ASSUME IInv, NEW b \in Seq(Notes), NEW a \in Seq(Notes), NEW f \in Seq(Notes),
         NEW d \in Seq(Notes), NEW w, NEW total \in Nat \ {0},
         \A n : n \in Elements(a) <=> n \in Elements(b) /\ n \notin evidence,
         \A n : n \in Elements(f) <=> n \in Elements(b) /\ claims[n] = "absent",
         \A n : n \in Elements(d) <=> n \in Elements(f) /\ n \in DeadEnds,
         IsWrites(a, f, d, total, w),
         job' = [pc |-> "write", todo |-> w, total |-> total], UNCHANGED ledger
  PROVE  /\ job' \in JobType /\ TodoInv' /\ Todo' = w
         /\ \A j \in DOMAIN w : w[j].put = "session" => w[j].count = total
         /\ \A n \in Notes : n \in Elements(f) => ToPut("claim", n)'
<1>1. w \in Seq(PutType) /\ DOMAIN w = 1 .. Len(w) /\ Len(w) = Len(a) + 1 + Len(f) + Len(f) + Len(d)
  BY DEF IsWrites
<1>2. job'.pc = "write" /\ job'.todo = w /\ job'.total = total /\ job' \in JobType
  BY <1>1 DEF JobType
<1>3. Todo' = w
  BY <1>2 DEF Todo
<1>4. Len(a) \in Nat /\ Len(f) \in Nat /\ Len(d) \in Nat
  OBVIOUS
<1>5. /\ \A i \in 1 .. Len(a) : i \in DOMAIN w /\ w[i].put = "evidence" /\ w[i].note = a[i]
      /\ Len(a) + 1 \in DOMAIN w
      /\ w[Len(a) + 1].put = "session" /\ w[Len(a) + 1].count = total
      /\ \A i \in 1 .. Len(f) :
           /\ Len(a) + 1 + i \in DOMAIN w
           /\ w[Len(a) + 1 + i].put = "claim" /\ w[Len(a) + 1 + i].note = f[i]
           /\ Len(a) + 1 + Len(f) + i \in DOMAIN w
           /\ w[Len(a) + 1 + Len(f) + i].put = "rel" /\ w[Len(a) + 1 + Len(f) + i].note = f[i]
      /\ \A i \in 1 .. Len(d) :
           /\ Len(a) + 1 + Len(f) + Len(f) + i \in DOMAIN w
           /\ w[Len(a) + 1 + Len(f) + Len(f) + i].put = "event"
           /\ w[Len(a) + 1 + Len(f) + Len(f) + i].note = d[i]
  <2>1. /\ \A i \in 1 .. Len(a) : i \in DOMAIN w
        /\ Len(a) + 1 \in DOMAIN w
        /\ \A i \in 1 .. Len(f) : Len(a) + 1 + i \in DOMAIN w /\ Len(a) + 1 + Len(f) + i \in DOMAIN w
        /\ \A i \in 1 .. Len(d) : Len(a) + 1 + Len(f) + Len(f) + i \in DOMAIN w
    BY <1>1, <1>4
  <2>0. /\ \A i \in 1 .. Len(a) : w[i] = [put |-> "evidence", note |-> a[i]]
        /\ \A i \in 1 .. Len(f) : /\ w[Len(a) + 1 + i] = [put |-> "claim", note |-> f[i]]
                                  /\ w[Len(a) + 1 + Len(f) + i] = [put |-> "rel", note |-> f[i]]
        /\ \A i \in 1 .. Len(d) :
             w[Len(a) + 1 + Len(f) + Len(f) + i] = [put |-> "event", note |-> d[i]]
    BY Zenon DEF IsWrites
  <2>2. ASSUME NEW i \in 1 .. Len(a) PROVE w[i].put = "evidence" /\ w[i].note = a[i]
    <3>1. w[i] = [put |-> "evidence", note |-> a[i]]
      BY <2>0, Zenon
    <3> QED BY ONLY <3>1
  <2>3. w[Len(a) + 1].put = "session" /\ w[Len(a) + 1].count = total
    BY DEF IsWrites
  <2>4. ASSUME NEW i \in 1 .. Len(f)
        PROVE  /\ w[Len(a) + 1 + i].put = "claim" /\ w[Len(a) + 1 + i].note = f[i]
               /\ w[Len(a) + 1 + Len(f) + i].put = "rel" /\ w[Len(a) + 1 + Len(f) + i].note = f[i]
    <3>1. /\ w[Len(a) + 1 + i] = [put |-> "claim", note |-> f[i]]
          /\ w[Len(a) + 1 + Len(f) + i] = [put |-> "rel", note |-> f[i]]
      BY <2>0, Zenon
    <3> QED BY ONLY <3>1
  <2>5. ASSUME NEW i \in 1 .. Len(d)
        PROVE  /\ w[Len(a) + 1 + Len(f) + Len(f) + i].put = "event"
               /\ w[Len(a) + 1 + Len(f) + Len(f) + i].note = d[i]
    <3>1. w[Len(a) + 1 + Len(f) + Len(f) + i] = [put |-> "event", note |-> d[i]]
      BY <2>0, Zenon
    <3> QED BY ONLY <3>1
  <2> QED BY <2>1, <2>2, <2>3, <2>4, <2>5
<1>6. ASSUME NEW j \in DOMAIN w
      PROVE  \/ j \in 1 .. Len(a) \/ j = Len(a) + 1
             \/ \E i \in 1 .. Len(f) : j = Len(a) + 1 + i \/ j = Len(a) + 1 + Len(f) + i
             \/ \E i \in 1 .. Len(d) : j = Len(a) + 1 + Len(f) + Len(f) + i
  <2>1. j \in 1 .. Len(a) + 1 + Len(f) + Len(f) + Len(d)
    BY <1>1
  <2>2. CASE j > Len(a) + 1 /\ j <= Len(a) + 1 + Len(f)
    <3>1. j - (Len(a) + 1) \in 1 .. Len(f) /\ j = Len(a) + 1 + (j - (Len(a) + 1))
      BY <1>4, <2>1, <2>2
    <3> QED BY <3>1
  <2>3. CASE j > Len(a) + 1 + Len(f) /\ j <= Len(a) + 1 + Len(f) + Len(f)
    <3>1. j - (Len(a) + 1 + Len(f)) \in 1 .. Len(f)
          /\ j = Len(a) + 1 + Len(f) + (j - (Len(a) + 1 + Len(f)))
      BY <1>4, <2>1, <2>3
    <3> QED BY <3>1
  <2>4. CASE j > Len(a) + 1 + Len(f) + Len(f)
    <3>1. j - (Len(a) + 1 + Len(f) + Len(f)) \in 1 .. Len(d)
          /\ j = Len(a) + 1 + Len(f) + Len(f) + (j - (Len(a) + 1 + Len(f) + Len(f)))
      BY <1>4, <2>1, <2>4
    <3> QED BY <3>1
  <2> QED BY <1>4, <2>1, <2>2, <2>3, <2>4
<1>7. ASSUME NEW j \in DOMAIN w
      PROVE  /\ w[j].put \in PutsOfCommit
             /\ w[j].put = "session" => w[j].count = total
             /\ w[j].put = "claim" => \E i \in 1 .. Len(f) : j = Len(a) + 1 + i /\ w[j].note = f[i]
             /\ w[j].put = "rel" => j > Len(a) + 1
  <2>1. CASE j \in 1 .. Len(a)
    BY <1>5, <2>1 DEF PutsOfCommit
  <2>2. CASE j = Len(a) + 1
    BY <1>5, <2>2 DEF PutsOfCommit
  <2>3. ASSUME NEW i \in 1 .. Len(f), j = Len(a) + 1 + i
        PROVE  w[j].put = "claim" /\ w[j].note = f[i]
    BY <1>5, <2>3
  <2>4. ASSUME NEW i \in 1 .. Len(f), j = Len(a) + 1 + Len(f) + i
        PROVE  w[j].put = "rel" /\ j > Len(a) + 1
    <3>1. j > Len(a) + 1
      BY <1>4, <2>4
    <3> QED BY <1>5, <2>4, <3>1
  <2>5. ASSUME NEW i \in 1 .. Len(d), j = Len(a) + 1 + Len(f) + Len(f) + i
        PROVE  w[j].put = "event"
    BY <1>5, <2>5
  <2> QED BY <1>6, <2>1, <2>2, <2>3, <2>4, <2>5 DEF PutsOfCommit
<1>8. ASSUME NEW j \in DOMAIN w, NEW n \in Notes, w[j].put = "claim", w[j].note = n
      PROVE  /\ claims'[n] \in {"absent", "unconfirmed"}
             /\ n \in evidence' \/ Before(j, "evidence", n)'
             /\ Behind(j, "rel", n)'
             /\ n \in DeadEnds => Behind(j, "event", n)'
  <2>1. PICK i \in 1 .. Len(f) : j = Len(a) + 1 + i /\ n = f[i]
    BY <1>7, <1>8
  <2>2. n \in Elements(f)
    BY <2>1 DEF Elements
  <2>3. claims'[n] \in {"absent", "unconfirmed"}
    BY <2>2 DEF ledger
  <2>4. n \notin evidence => Before(j, "evidence", n)'
    <3>1. SUFFICES ASSUME n \notin evidence PROVE Before(j, "evidence", n)'
      OBVIOUS
    <3>0. n \in Elements(a)
      BY <2>2, <3>1
    <3>2. PICK k \in 1 .. Len(a) : n = a[k]
      BY <3>0 DEF Elements
    <3>3. k < j /\ k \in DOMAIN w /\ w[k].put = "evidence" /\ w[k].note = n
      BY <1>4, <1>5, <2>1, <3>2
    <3> QED BY <1>3, <3>3 DEF Before
  <2>5. Behind(j, "rel", n)'
    <3>1. j < Len(a) + 1 + Len(f) + i
      BY <1>4, <2>1
    <3> QED BY <1>3, <1>5, <2>1, <3>1 DEF Behind
  <2>6. n \in DeadEnds => Behind(j, "event", n)'
    <3>1. SUFFICES ASSUME n \in DeadEnds PROVE Behind(j, "event", n)'
      OBVIOUS
    <3>0. n \in Elements(d)
      BY <2>2, <3>1
    <3>2. PICK k \in 1 .. Len(d) : n = d[k]
      BY <3>0 DEF Elements
    <3>3. j < Len(a) + 1 + Len(f) + Len(f) + k
      BY <1>4, <2>1
    <3> QED BY <1>3, <1>5, <3>2, <3>3 DEF Behind
  <2> QED BY <2>3, <2>4, <2>5, <2>6 DEF ledger
<1>9. TodoInv'
  <2>1. \A j \in DOMAIN w : w[j].put # "status"
    BY <1>7 DEF PutsOfCommit
  <2>2. \A j \in DOMAIN w : w[j].put = "rel" => Len(a) + 1 < j
    BY <1>4, <1>7
  <2> QED BY <1>2, <1>3, <1>5, <1>7, <1>8, <2>1, <2>2 DEF TodoInv
<1>10. ASSUME NEW n \in Notes, n \in Elements(f) PROVE ToPut("claim", n)'
  <2>1. PICK i \in 1 .. Len(f) : n = f[i]
    BY <1>10 DEF Elements
  <2> QED BY <1>3, <1>5, <2>1 DEF ToPut
<1> QED BY <1>2, <1>3, <1>7, <1>9, <1>10

LEMMA StepReadPending == ASSUME IInv, ReadPending PROVE IInv'
<1>1. /\ job.pc = "pending" /\ UNCHANGED ledger
      /\ UNCHANGED <<file, closed, bytes, dropped, committed, lock, wr, purge, ledger, accepted,
                     stolen,
                     raced, cut, ops, faults>>
  BY DEF ReadPending, inbox, history, bounds
<1>2. LockInv' /\ FileInv' /\ read_entries' = read_entries
  BY <1>1, SameInbox
<1>3. Todo = <<>> /\ ~Committing /\ DOMAIN <<>> = {}
  BY <1>1 DEF Todo, Committing
<1>4. LedgerInv'
  BY <1>1, NothingToPut, <1>3 DEF IInv, LedgerInv, ledger
<1>5. CASE pending = <<>>
  <2>1. job' = Idle /\ job'.pc = "idle" /\ job' \in JobType
    BY <1>5, IdleStep DEF ReadPending
  <2>2. Todo' = <<>> /\ ~Committing'
    BY <2>1 DEF Todo, Committing
  <2>3. TypeInv'
    BY <1>1, <2>1 DEF IInv, TypeInv, TypeOK, ledger
  <2>4. CountInv' /\ TodoInv'
    BY <1>1, <1>3, <2>1, <2>2 DEF IInv, CountInv, TodoInv, ledger
  <2>5. ReachInv'
    BY <1>1, <1>2, <1>3, <2>1, <2>2 DEF IInv, ReachInv, ledger
  <2> QED BY <1>2, <1>4, <2>3, <2>4, <2>5 DEF IInv
<1>6. CASE pending # <<>>
  <2>1. PICK b, w, total : b = pending /\ w = Writes(pending) /\ total = Total
    OBVIOUS
  <2>2. /\ b \in Seq(Notes) /\ total \in Nat \ {0}
        /\ Elements(b) = {read_entries[i] : i \in committed + 1 .. Len(read_entries)}
    BY <1>6, <2>1, PendingIs
  <2>3. job' = [pc |-> "write", todo |-> w, total |-> total]
    BY <1>6, <2>1 DEF ReadPending
  <2>4. PICK a, f, d \in Seq(Notes) :
          /\ \A n : n \in Elements(a) <=> n \in Elements(b) /\ n \notin evidence
          /\ \A n : n \in Elements(f) <=> n \in Elements(b) /\ claims[n] = "absent"
          /\ \A n : n \in Elements(d) <=> n \in Elements(f) /\ n \in DeadEnds
          /\ IsWrites(a, f, d, total, w)
    BY <2>1, <2>2, WritesIs
  <2>5. /\ job' \in JobType /\ TodoInv' /\ Todo' = w
        /\ \A j \in DOMAIN w : w[j].put = "session" => w[j].count = total
        /\ \A n \in Notes : n \in Elements(f) => ToPut("claim", n)'
    BY <1>1, <2>2, <2>3, <2>4, GoodList
  <2>6. TypeInv'
    BY <1>1, <2>5 DEF IInv, TypeInv, TypeOK, ledger
  <2>7. total = Len(read_entries) /\ job'.total = total /\ job'.pc = "write"
    BY <2>1, <2>3 DEF Total
  <2>8. CountInv'
    BY <1>1, <2>5, <2>7 DEF IInv, CountInv, FileInv, ledger
  <2>9. ReachInv'
    <3>1. SUFFICES ASSUME ~stolen, ~raced PROVE ReachInv'
      BY <1>1 DEF ReachInv
    <3>2. /\ purge = "idle" /\ committed <= Len(read_entries)
          /\ \A i \in 1 .. committed : claims[read_entries[i]] # "absent"
      BY <1>1, <3>1 DEF IInv, ReachInv
    <3>3. ASSUME NEW i \in 1 .. total
          PROVE  claims[read_entries[i]] # "absent" \/ ToPut("claim", read_entries[i])'
      <4>0. PICK n : n = read_entries[i]
        OBVIOUS
      <4>1. n \in Notes /\ i \in Nat /\ committed \in Nat /\ Len(read_entries) \in Nat
        BY <4>0, <2>7, EntriesNow DEF IInv, TypeInv, TypeOK
      <4>2. CASE i <= committed
        BY <3>2, <4>1, <4>2
      <4>3. CASE i > committed
        <5>1. i \in committed + 1 .. Len(read_entries)
          BY <2>7, <4>1, <4>3
        <5>2. n \in Elements(b)
          BY <2>2, <4>0, <5>1
        <5>3. claims[n] = "absent" => ToPut("claim", n)'
          BY <2>4, <2>5, <4>1, <5>2
        <5>4. read_entries[i]' = n
          BY <1>2, <4>0
        <5> QED BY <4>0, <5>3, <5>4
      <4> QED BY <4>1, <4>2, <4>3
    <3>4. \A i \in 1 .. total : (claims[read_entries[i]] # "absent" \/ ToPut("claim", read_entries[i]))'
      BY <1>1, <1>2, <3>3 DEF ledger
    <3>5. total <= Len(read_entries)
      BY <2>7, EntriesNow
    <3> QED BY <1>1, <1>2, <2>7, <3>2, <3>4, <3>5 DEF ReachInv, ledger
  <2> QED BY <1>2, <1>4, <2>5, <2>6, <2>8, <2>9 DEF IInv
<1> QED BY <1>5, <1>6

-----------------------------------------------------------------------------
(* One append to the ledger *)

\* What a step leaves of the list.
LEMMA Shorter ==
  ASSUME IInv, WriteLedger, NEW a, a = Head(job.todo), NEW td, td = job.todo
  PROVE  /\ td \in Seq(PutType) /\ td # <<>> /\ Todo = td /\ a = td[1] /\ a \in PutType
         /\ 1 \in DOMAIN td /\ job.total \in Nat
         /\ job' \in JobType /\ job'.pc = "write" /\ job'.total = job.total
         /\ \A j \in DOMAIN td : j \in Nat /\ j >= 1
         /\ \A j \in DOMAIN Todo' : j + 1 \in DOMAIN td /\ Todo'[j] = td[j + 1] /\ j \in Nat
         /\ \A j \in DOMAIN td : j > 1 => j - 1 \in DOMAIN Todo' /\ Todo'[j - 1] = td[j]
<1>1. job.pc = "write" /\ job.todo # <<>> /\ job \in JobType /\ job' = [job EXCEPT !.todo = Tail(@)]
  BY DEF WriteLedger, IInv, TypeInv
<1>2. job \in [pc : {"write", "mark"}, todo : Seq(PutType), total : Nat]
  BY <1>1 DEF JobType
<1>3. td \in Seq(PutType) /\ td # <<>> /\ job.total \in Nat /\ Todo = td
  BY <1>1, <1>2 DEF Todo
<1>4. PICK tl : tl = Tail(td)
  OBVIOUS
<1>5. /\ tl \in Seq(PutType) /\ Len(tl) = Len(td) - 1 /\ Len(td) \in Nat /\ Len(td) >= 1
      /\ \A j \in 1 .. Len(td) - 1 : tl[j] = td[j + 1]
      /\ DOMAIN td = 1 .. Len(td) /\ DOMAIN tl = 1 .. Len(td) - 1
  BY <1>3, <1>4
<1>6. a = td[1] /\ a \in PutType
  BY <1>3, <1>5
<1>7. /\ job'.pc = "write" /\ job'.todo = tl /\ job'.total = job.total
      /\ job' \in [pc : {"write", "mark"}, todo : Seq(PutType), total : Nat]
  BY <1>1, <1>2, <1>4, <1>5
<1>8. Todo' = tl /\ job' \in JobType
  BY <1>7 DEF Todo, JobType
<1>9. \A j \in DOMAIN tl : j + 1 \in DOMAIN td /\ tl[j] = td[j + 1] /\ j \in Nat
  BY <1>5
<1>10. \A j \in DOMAIN td : j > 1 => j - 1 \in DOMAIN tl /\ tl[j - 1] = td[j]
  <2>1. TAKE j \in DOMAIN td
  <2>2. HAVE j > 1
  <2>3. j - 1 \in 1 .. Len(td) - 1 /\ (j - 1) + 1 = j
    BY <1>5, <2>2
  <2> QED BY <1>5, <2>3
<1>11. 1 \in DOMAIN td /\ \A j \in DOMAIN td : j \in Nat /\ j >= 1
  BY <1>5
<1> QED BY <1>3, <1>6, <1>7, <1>8, <1>9, <1>10, <1>11

\* What was to be put is done or still to be put, in the same order.
LEMMA PutOrToPut ==
  ASSUME IInv, WriteLedger, NEW a, a = Head(job.todo)
  PROVE  /\ \A k, n : ToPut(k, n) => ToPut(k, n)' \/ (a.put = k /\ a.note = n)
         /\ \A k, n : Behind(1, k, n) => ToPut(k, n)'
         /\ \A k, n : \A j \in DOMAIN Todo' : Behind(j + 1, k, n) => Behind(j, k, n)'
         /\ \A k, n : \A j \in DOMAIN Todo' :
              Before(j + 1, k, n) => Before(j, k, n)' \/ (a.put = k /\ a.note = n)
         /\ \A k, n : ~Before(1, k, n)
<1>1. PICK td : td = job.todo
  OBVIOUS
<1>2. /\ Todo = td /\ a = td[1]
      /\ \A j \in DOMAIN td : j \in Nat /\ j >= 1
      /\ \A j \in DOMAIN Todo' : j + 1 \in DOMAIN td /\ Todo'[j] = td[j + 1] /\ j \in Nat
      /\ \A j \in DOMAIN td : j > 1 => j - 1 \in DOMAIN Todo' /\ Todo'[j - 1] = td[j]
  BY <1>1, Shorter
<1>3. ASSUME NEW k, NEW n, NEW j \in DOMAIN td, td[j].put = k, td[j].note = n, j > 1
      PROVE  ToPut(k, n)'
  BY <1>2, <1>3 DEF ToPut
<1>4. ASSUME NEW j \in DOMAIN td PROVE j = 1 \/ j > 1
  BY <1>2
<1>5. \A k, n : ToPut(k, n) => ToPut(k, n)' \/ (a.put = k /\ a.note = n)
  BY <1>2, <1>3, <1>4 DEF ToPut
<1>6. \A k, n : Behind(1, k, n) => ToPut(k, n)'
  BY <1>2, <1>3 DEF Behind
<1>7. ASSUME NEW k, NEW n, NEW j \in DOMAIN Todo', Behind(j + 1, k, n) PROVE Behind(j, k, n)'
  <2>1. PICK i \in DOMAIN td : i > j + 1 /\ td[i].put = k /\ td[i].note = n
    BY <1>2, <1>7 DEF Behind
  <2>2. i > 1 /\ i - 1 > j
    BY <1>2, <2>1
  <2> QED BY <1>2, <2>1, <2>2 DEF Behind
<1>8. ASSUME NEW k, NEW n, NEW j \in DOMAIN Todo', Before(j + 1, k, n)
      PROVE  Before(j, k, n)' \/ (a.put = k /\ a.note = n)
  <2>1. PICK i \in DOMAIN td : i < j + 1 /\ td[i].put = k /\ td[i].note = n
    BY <1>2, <1>8 DEF Before
  <2>2. CASE i = 1
    BY <1>2, <2>1, <2>2
  <2>3. CASE i > 1
    <3>1. i - 1 < j
      BY <1>2, <2>1, <2>3
    <3> QED BY <1>2, <2>1, <2>3, <3>1 DEF Before
  <2> QED BY <1>4, <2>2, <2>3
<1>9. \A k, n : ~Before(1, k, n)
  BY <1>2 DEF Before
<1> QED BY <1>5, <1>6, <1>7, <1>8, <1>9

\* What one append does.
LEMMA PutIs ==
  ASSUME IInv, WriteLedger, NEW a, a = Head(job.todo)
  PROVE  /\ a.put \in PutsOfCommit \cup PutsOfReview
         /\ a.put # "session" => a.note \in Notes
         /\ a.put = "session" => a.count \in Nat \ {0}
         /\ a.put = "status" => a.status \in Decisions
         /\ evidence' = IF a.put = "evidence" THEN evidence \cup {a.note} ELSE evidence
         /\ session' = IF a.put = "session" THEN a.count ELSE session
         /\ rels' = IF a.put = "rel" THEN rels \cup {a.note} ELSE rels
         /\ events' = IF a.put = "event" THEN events \cup {a.note} ELSE events
         /\ changes' = IF a.put = "change" THEN changes \cup {a.note} ELSE changes
         /\ supersedes' = IF a.put = "supersedes" THEN supersedes \cup {a.note} ELSE supersedes
         /\ claims' \in [Notes -> Statuses]
         /\ \A n \in Notes : claims'[n] = IF a.put = "claim" /\ a.note = n THEN "unconfirmed"
                                          ELSE IF a.put = "status" /\ a.note = n THEN a.status
                                          ELSE claims[n]
         /\ UNCHANGED <<file, closed, bytes, dropped, committed, lock, wr, purge, accepted, stolen,
                        raced,
                        cut, ops, faults>>
<1>1. a \in PutType
  BY Shorter
<1>2. /\ a.put \in PutsOfCommit \cup PutsOfReview
      /\ a.put # "session" => a.note \in Notes
      /\ a.put = "session" => a.count \in Nat \ {0}
      /\ a.put = "status" => a.status \in Decisions
  BY <1>1 DEF PutType, PutsOfCommit, PutsOfReview
<1>3. /\ evidence' = IF a.put = "evidence" THEN evidence \cup {a.note} ELSE evidence
      /\ session' = IF a.put = "session" THEN a.count ELSE session
      /\ rels' = IF a.put = "rel" THEN rels \cup {a.note} ELSE rels
      /\ events' = IF a.put = "event" THEN events \cup {a.note} ELSE events
      /\ changes' = IF a.put = "change" THEN changes \cup {a.note} ELSE changes
      /\ supersedes' = IF a.put = "supersedes" THEN supersedes \cup {a.note} ELSE supersedes
      /\ claims' = IF a.put = "claim" THEN [claims EXCEPT ![a.note] = "unconfirmed"]
                   ELSE IF a.put = "status" THEN [claims EXCEPT ![a.note] = a.status] ELSE claims
  BY DEF WriteLedger
<1>4. UNCHANGED <<file, closed, bytes, dropped, committed, lock, wr, purge, accepted, stolen, raced,
                  cut, ops, faults>>
  BY DEF WriteLedger, inbox, history, bounds
<1>5. claims \in [Notes -> Statuses] /\ Decisions \subseteq Statuses /\ "unconfirmed" \in Statuses
  BY DEF IInv, TypeInv, TypeOK, Statuses, Decisions
<1>6. claims' \in [Notes -> Statuses]
  BY <1>2, <1>3, <1>5
<1>7. \A n \in Notes : claims'[n] = IF a.put = "claim" /\ a.note = n THEN "unconfirmed"
                                    ELSE IF a.put = "status" /\ a.note = n THEN a.status
                                    ELSE claims[n]
  BY <1>3, <1>5
<1> QED BY <1>2, <1>3, <1>4, <1>6, <1>7

\* What the list says of its first element.
LEMMA FirstPut ==
  ASSUME IInv, WriteLedger, NEW a, a = Head(job.todo)
  PROVE  /\ a.put \in (IF job.total = 0 THEN PutsOfReview ELSE PutsOfCommit)
         /\ a.put = "claim" =>
              /\ claims[a.note] \in {"absent", "unconfirmed"} /\ a.note \in evidence
              /\ ToPut("rel", a.note)' /\ (a.note \in DeadEnds => ToPut("event", a.note)')
         /\ a.put = "rel" => session # 0
         /\ a.put = "status" =>
              /\ claims[a.note] # "absent" /\ ToPut("change", a.note)'
              /\ a.status = "superseded" => ToPut("supersedes", a.note)'
<1>1. PICK td : td = job.todo
  OBVIOUS
<1>2. /\ Todo = td /\ a = td[1] /\ 1 \in DOMAIN td
      /\ \A j \in DOMAIN td : j \in Nat /\ j >= 1
  BY <1>1, Shorter
<1>3. a.put # "session" => a.note \in Notes
  BY PutIs
<1>4. /\ \A k, n : Behind(1, k, n) => ToPut(k, n)'
      /\ \A k, n : ~Before(1, k, n)
  BY PutOrToPut
<1>5. a.put \in (IF job.total = 0 THEN PutsOfReview ELSE PutsOfCommit)
  BY <1>2 DEF IInv, TodoInv
<1>6. /\ a.put = "claim" =>
           /\ claims[a.note] \in {"absent", "unconfirmed"}
           /\ a.note \in evidence \/ Before(1, "evidence", a.note)
           /\ Behind(1, "rel", a.note)
           /\ a.note \in DeadEnds => Behind(1, "event", a.note)
      /\ a.put = "status" =>
           /\ claims[a.note] # "absent"
           /\ Behind(1, "change", a.note)
           /\ a.status = "superseded" => Behind(1, "supersedes", a.note)
  BY <1>2, <1>3 DEF IInv, TodoInv
<1>7. a.put = "rel" => session # 0
  <2>1. ~ \E i \in DOMAIN Todo : i < 1 /\ Todo[i].put = "session"
    BY <1>2
  <2> QED BY <1>2, <1>3, <2>1 DEF IInv, TodoInv
<1> QED BY <1>4, <1>5, <1>6, <1>7

LEMMA StepWriteLedger == ASSUME IInv, WriteLedger PROVE IInv'
<1>1. PICK a, td : a = Head(job.todo) /\ td = job.todo
  OBVIOUS
<1>2. /\ Todo = td /\ a = td[1] /\ 1 \in DOMAIN td /\ job.total \in Nat
      /\ job' \in JobType /\ job'.pc = "write" /\ job'.total = job.total
      /\ \A j \in DOMAIN td : j \in Nat /\ j >= 1
      /\ \A j \in DOMAIN Todo' : j + 1 \in DOMAIN td /\ Todo'[j] = td[j + 1] /\ j \in Nat
      /\ \A j \in DOMAIN td : j > 1 => j - 1 \in DOMAIN Todo' /\ Todo'[j - 1] = td[j]
  BY <1>1, Shorter
<1>3. /\ a.put \in PutsOfCommit \cup PutsOfReview
      /\ a.put # "session" => a.note \in Notes
      /\ a.put = "session" => a.count \in Nat \ {0}
      /\ a.put = "status" => a.status \in Decisions
      /\ evidence' = IF a.put = "evidence" THEN evidence \cup {a.note} ELSE evidence
      /\ session' = IF a.put = "session" THEN a.count ELSE session
      /\ rels' = IF a.put = "rel" THEN rels \cup {a.note} ELSE rels
      /\ events' = IF a.put = "event" THEN events \cup {a.note} ELSE events
      /\ changes' = IF a.put = "change" THEN changes \cup {a.note} ELSE changes
      /\ supersedes' = IF a.put = "supersedes" THEN supersedes \cup {a.note} ELSE supersedes
      /\ claims' \in [Notes -> Statuses]
      /\ \A n \in Notes : claims'[n] = IF a.put = "claim" /\ a.note = n THEN "unconfirmed"
                                       ELSE IF a.put = "status" /\ a.note = n THEN a.status
                                       ELSE claims[n]
      /\ UNCHANGED <<file, closed, bytes, dropped, committed, lock, wr, purge, accepted, stolen,
                     raced,
                     cut, ops, faults>>
  BY <1>1, PutIs
<1>4. /\ \A k, n : ToPut(k, n) => ToPut(k, n)' \/ (a.put = k /\ a.note = n)
      /\ \A k, n : \A j \in DOMAIN Todo' : Behind(j + 1, k, n) => Behind(j, k, n)'
      /\ \A k, n : \A j \in DOMAIN Todo' :
           Before(j + 1, k, n) => Before(j, k, n)' \/ (a.put = k /\ a.note = n)
  BY <1>1, PutOrToPut
<1>5. /\ a.put \in (IF job.total = 0 THEN PutsOfReview ELSE PutsOfCommit)
      /\ a.put = "claim" =>
           /\ claims[a.note] \in {"absent", "unconfirmed"} /\ a.note \in evidence
           /\ ToPut("rel", a.note)' /\ (a.note \in DeadEnds => ToPut("event", a.note)')
      /\ a.put = "rel" => session # 0
      /\ a.put = "status" =>
           /\ claims[a.note] # "absent" /\ ToPut("change", a.note)'
           /\ a.status = "superseded" => ToPut("supersedes", a.note)'
  BY <1>1, FirstPut
<1>6. \A n \in Notes : claims[n] # "absent" => claims'[n] # "absent"
  BY <1>3 DEF Decisions
<1>7. session # 0 => session' # 0
  BY <1>3
<1>8. LockInv' /\ FileInv' /\ read_entries' = read_entries
  BY <1>3, SameInbox
<1>9. CountInv'
  <2>1. SUFFICES ASSUME ~stolen PROVE CountInv'
    BY <1>3 DEF CountInv
  <2>2. /\ committed <= MaxEntries /\ session <= MaxEntries
        /\ Committing => job.total <= MaxEntries
        /\ \A j \in DOMAIN td : td[j].put = "session" => td[j].count <= MaxEntries
    BY <1>2, <2>1 DEF IInv, CountInv
  <2>3. session' <= MaxEntries
    BY <1>2, <1>3, <2>2
  <2>4. Committing' => Committing
    BY <1>1, <1>2 DEF Committing, WriteLedger
  <2> QED BY <1>2, <1>3, <2>2, <2>3, <2>4 DEF CountInv
<1>10. TypeInv'
  <2>1. session' \in Nat
    BY <1>3 DEF IInv, TypeInv, TypeOK
  <2>2. evidence' \cup rels' \cup events' \cup changes' \cup supersedes' \cup accepted' \cup cut'
          \subseteq Notes
    BY <1>3 DEF IInv, TypeInv, TypeOK
  <2>3. stolen' \/ (committed' <= MaxEntries /\ session' <= MaxEntries)
    BY <1>9 DEF CountInv
  <2>4. TypeOK'
    BY <1>3, <2>1, <2>2, <2>3 DEF IInv, TypeInv, TypeOK
  <2> QED BY <1>2, <1>3, <2>4 DEF IInv, TypeInv
<1>11. ReachInv'
  <2>1. SUFFICES ASSUME ~stolen, ~raced PROVE ReachInv'
    BY <1>3 DEF ReachInv
  <2>2. PICK e : e = read_entries
    OBVIOUS
  <2>3. /\ \A i \in 1 .. Len(e) : e[i] \in Notes
        /\ Len(e) \in Nat /\ committed \in Nat /\ job.pc = "write"
    BY <1>1, <2>2, EntriesNow DEF WriteLedger, IInv, TypeInv, TypeOK
  <2>4. /\ purge # "idle" => job.total = 0
        /\ purge = "idle" =>
             committed <= Len(e) /\ \A i \in 1 .. committed : claims[e[i]] # "absent"
        /\ Committing =>
             /\ job.total <= Len(e)
             /\ \A i \in 1 .. job.total : claims[e[i]] # "absent" \/ ToPut("claim", e[i])
    BY <2>1, <2>2, <2>3 DEF IInv, ReachInv
  <2>5. purge = "idle" => \A i \in 1 .. committed : claims'[e[i]] # "absent"
    BY <1>6, <2>3, <2>4
  <2>6. ASSUME Committing, NEW i \in 1 .. job.total
        PROVE  claims'[e[i]] # "absent" \/ ToPut("claim", e[i])'
    <3>1. PICK n : n = e[i]
      OBVIOUS
    <3>2. n \in Notes
      BY <1>2, <2>3, <2>4, <2>6, <3>1
    <3>3. claims'[n] # "absent" \/ ToPut("claim", n)'
      BY <1>3, <1>4, <1>6, <2>4, <2>6, <3>1, <3>2
    <3>4. e[i]' = n
      BY <3>1
    <3> QED BY <3>1, <3>3, <3>4
  <2>7. Committing' <=> Committing
    BY <1>2, <2>3 DEF Committing
  <2> QED BY <1>2, <1>3, <1>8, <2>2, <2>4, <2>5, <2>6, <2>7 DEF ReachInv
<1>12. TodoInv'
  <2>1. ASSUME NEW j \in DOMAIN Todo'
        PROVE  Todo'[j].put \in (IF job.total = 0 THEN PutsOfReview ELSE PutsOfCommit)
    BY <1>2 DEF IInv, TodoInv
  <2>2. ASSUME NEW j \in DOMAIN Todo', NEW n \in Notes, Todo'[j].put = "claim", Todo'[j].note = n
        PROVE  /\ claims'[n] \in {"absent", "unconfirmed"}
               /\ n \in evidence' \/ Before(j, "evidence", n)'
               /\ Behind(j, "rel", n)'
               /\ n \in DeadEnds => Behind(j, "event", n)'
    <3>1. j + 1 \in DOMAIN Todo /\ Todo[j + 1].put = "claim" /\ Todo[j + 1].note = n
      BY <1>2, <2>2
    <3>2. /\ claims[n] \in {"absent", "unconfirmed"}
          /\ n \in evidence \/ Before(j + 1, "evidence", n)
          /\ Behind(j + 1, "rel", n)
          /\ n \in DeadEnds => Behind(j + 1, "event", n)
          /\ "claim" \in (IF job.total = 0 THEN PutsOfReview ELSE PutsOfCommit)
      BY <3>1 DEF IInv, TodoInv
    <3>3. a.put # "status"
      BY <1>5, <3>2 DEF PutsOfReview, PutsOfCommit
    <3>4. claims'[n] \in {"absent", "unconfirmed"}
      BY <1>3, <3>2, <3>3
    <3>5. n \in evidence' \/ Before(j, "evidence", n)'
      BY <1>3, <1>4, <3>2
    <3> QED BY <1>4, <3>2, <3>4, <3>5
  <2>3. ASSUME NEW j \in DOMAIN Todo', NEW n \in Notes, Todo'[j].put = "rel"
        PROVE  session' # 0 \/ \E i \in DOMAIN Todo' : i < j /\ Todo'[i].put = "session"
    <3>1. j + 1 \in DOMAIN Todo /\ Todo[j + 1].put = "rel"
      BY <1>2, <2>3
    <3>2. session # 0 \/ \E i \in DOMAIN Todo : i < j + 1 /\ Todo[i].put = "session"
      BY <3>1 DEF IInv, TodoInv
    <3>3. ASSUME NEW i \in DOMAIN td, i < j + 1, td[i].put = "session"
          PROVE  session' # 0 \/ \E k \in DOMAIN Todo' : k < j /\ Todo'[k].put = "session"
      <4>1. CASE i = 1
        BY <1>2, <1>3, <3>3, <4>1
      <4>2. CASE i > 1
        <5>1. i - 1 < j
          BY <1>2, <3>3, <4>2
        <5> QED BY <1>2, <3>3, <4>2, <5>1
      <4> QED BY <1>2, <4>1, <4>2
    <3> QED BY <1>2, <1>7, <3>2, <3>3
  <2>4. ASSUME NEW j \in DOMAIN Todo', NEW n \in Notes, Todo'[j].put = "status", Todo'[j].note = n
        PROVE  /\ claims'[n] # "absent"
               /\ Behind(j, "change", n)'
               /\ Todo'[j].status = "superseded" => Behind(j, "supersedes", n)'
    <3>1. j + 1 \in DOMAIN Todo /\ Todo[j + 1].put = "status" /\ Todo[j + 1].note = n
          /\ Todo'[j].status = Todo[j + 1].status
      BY <1>2, <2>4
    <3>2. /\ claims[n] # "absent"
          /\ Behind(j + 1, "change", n)
          /\ Todo[j + 1].status = "superseded" => Behind(j + 1, "supersedes", n)
      BY <3>1 DEF IInv, TodoInv
    <3> QED BY <1>4, <1>6, <3>1, <3>2
  <2> QED BY <1>2, <2>1, <2>2, <2>3, <2>4 DEF TodoInv
<1>13. LedgerInv'
  <2>1. SUFFICES ASSUME NEW n \in Notes
                 PROVE  /\ n \in rels' => session' # 0
                        /\ claims'[n] # "absent" =>
                             /\ n \in evidence'
                             /\ n \in cut \/
                                  /\ n \in rels' \/ ToPut("rel", n)'
                                  /\ n \in DeadEnds => n \in events' \/ ToPut("event", n)'
                                  /\ claims'[n] # "unconfirmed" => n \in changes' \/ ToPut("change", n)'
                                  /\ claims'[n] = "superseded" =>
                                       n \in supersedes' \/ ToPut("supersedes", n)'
    BY <1>3 DEF LedgerInv
  <2>2. /\ n \in rels => session # 0
        /\ claims[n] # "absent" =>
             /\ n \in evidence
             /\ n \in cut \/
                  /\ n \in rels \/ ToPut("rel", n)
                  /\ n \in DeadEnds => n \in events \/ ToPut("event", n)
                  /\ claims[n] # "unconfirmed" => n \in changes \/ ToPut("change", n)
                  /\ claims[n] = "superseded" => n \in supersedes \/ ToPut("supersedes", n)
    BY DEF IInv, LedgerInv
  <2>3. n \in rels' => session' # 0
    BY <1>3, <1>5, <1>7, <2>2
  <2>4. /\ n \in evidence => n \in evidence'
        /\ n \in rels \/ ToPut("rel", n) => n \in rels' \/ ToPut("rel", n)'
        /\ n \in events \/ ToPut("event", n) => n \in events' \/ ToPut("event", n)'
        /\ n \in changes \/ ToPut("change", n) => n \in changes' \/ ToPut("change", n)'
        /\ n \in supersedes \/ ToPut("supersedes", n) => n \in supersedes' \/ ToPut("supersedes", n)'
    BY <1>3, <1>4
  <2>5. CASE a.put = "claim" /\ a.note = n
    <3>1. claims'[n] = "unconfirmed"
      BY <1>3, <2>5
    <3>2. n \in evidence' /\ ToPut("rel", n)' /\ (n \in DeadEnds => ToPut("event", n)')
      BY <1>5, <2>4, <2>5
    <3> QED BY <2>3, <3>1, <3>2
  <2>6. CASE a.put = "status" /\ a.note = n
    <3>1. claims'[n] = a.status /\ claims[n] # "absent" /\ ToPut("change", n)'
          /\ (a.status = "superseded" => ToPut("supersedes", n)')
      BY <1>3, <1>5, <2>6
    <3> QED BY <2>2, <2>3, <2>4, <3>1
  <2>7. CASE ~(a.put = "claim" /\ a.note = n) /\ ~(a.put = "status" /\ a.note = n)
    <3>1. claims'[n] = claims[n]
      BY <1>3, <2>7
    <3> QED BY <2>2, <2>3, <2>4, <3>1
  <2> QED BY <2>5, <2>6, <2>7
<1> QED BY <1>8, <1>9, <1>10, <1>11, <1>12, <1>13 DEF IInv

-----------------------------------------------------------------------------
(* Review *)

\* The list of a review: a status, its event and, for one that is superseded, its relationship.
LEMMA ReviewList ==
  ASSUME IInv, NEW n \in Notes, claims[n] # "absent", NEW st \in Decisions, NEW w \in Seq(PutType),
         Len(w) \in 2 .. 3, w[1] = [put |-> "status", note |-> n, status |-> st],
         w[2] = [put |-> "change", note |-> n],
         Len(w) = 3 => w[3] = [put |-> "supersedes", note |-> n],
         st = "superseded" => Len(w) = 3,
         job = Idle, job' = [pc |-> "write", todo |-> w, total |-> 0],
         UNCHANGED <<file, closed, bytes, dropped, committed, lock, wr, purge, ledger, accepted,
                     stolen,
                     raced, cut>>,
         ops' \in Nat, faults' \in Nat
  PROVE  IInv'
<1>1. /\ job'.pc = "write" /\ job'.todo = w /\ job'.total = 0 /\ job' \in JobType /\ job.pc = "idle"
  BY IdleStep DEF JobType
<1>2. Todo' = w /\ Todo = <<>> /\ ~Committing' /\ ~Committing
  BY <1>1 DEF Todo, Committing
<1>3. LockInv' /\ FileInv' /\ read_entries' = read_entries
  BY SameInbox
<1>4. w[1].put = "status" /\ w[1].note = n /\ w[1].status = st
  OBVIOUS
<1>5. w[2].put = "change" /\ w[2].note = n
  OBVIOUS
<1>6. Len(w) = 3 => w[3].put = "supersedes" /\ w[3].note = n
  OBVIOUS
<1>7. /\ DOMAIN w = 1 .. Len(w) /\ 1 \in DOMAIN w /\ 2 \in DOMAIN w
      /\ \A j \in DOMAIN w : j = 1 \/ j = 2 \/ (j = 3 /\ Len(w) = 3)
      /\ Len(w) = 3 => 3 \in DOMAIN w
  OBVIOUS
<1>8. TypeInv'
  BY <1>1 DEF IInv, TypeInv, TypeOK, ledger
<1>9. CountInv'
  BY <1>2, <1>4, <1>5, <1>6, <1>7 DEF IInv, CountInv, ledger
<1>10. ReachInv'
  BY <1>1, <1>2, <1>3 DEF IInv, ReachInv, ledger
<1>11. LedgerInv'
  BY <1>2, NothingToPut DEF IInv, LedgerInv, ledger
<1>12. TodoInv'
  <2>1. \A j \in DOMAIN w : w[j].put \in PutsOfReview
    BY <1>4, <1>5, <1>6, <1>7 DEF PutsOfReview
  <2>2. \A j \in DOMAIN w : w[j].put # "claim" /\ w[j].put # "rel"
    BY <2>1 DEF PutsOfReview
  <2>3. \A j \in DOMAIN w : w[j].put = "status" => j = 1
    BY <1>5, <1>6, <1>7
  <2>4. Behind(1, "change", n)' /\ (st = "superseded" => Behind(1, "supersedes", n)')
    BY <1>2, <1>5, <1>6, <1>7 DEF Behind
  <2>5. claims'[n] # "absent"
    BY DEF ledger
  <2>6. ASSUME NEW j \in DOMAIN Todo', NEW m \in Notes, Todo'[j].put = "status", Todo'[j].note = m
        PROVE  /\ claims'[m] # "absent"
               /\ Behind(j, "change", m)'
               /\ Todo'[j].status = "superseded" => Behind(j, "supersedes", m)'
    <3>1. j = 1 /\ m = n /\ Todo'[j].status = st
      BY <1>2, <1>4, <2>3, <2>6
    <3> QED BY <2>4, <2>5, <3>1
  <2> QED BY <1>1, <1>2, <2>1, <2>2, <2>6 DEF TodoInv
<1> QED BY <1>3, <1>8, <1>9, <1>10, <1>11, <1>12 DEF IInv

LEMMA RecordedType ==
  ASSUME NEW n \in Notes, NEW st \in Decisions
  PROVE  /\ [put |-> "status", note |-> n, status |-> st] \in PutType
         /\ [put |-> "change", note |-> n] \in PutType
         /\ [put |-> "supersedes", note |-> n] \in PutType
BY DEF PutType

LEMMA StepReview ==
  ASSUME IInv, NEW n \in Notes, NEW d \in {"confirm", "reject"}, Review(n, d) PROVE IInv'
<1>1. PICK st : st = Status(d)
  OBVIOUS
<1>2. st \in Decisions /\ st # "superseded"
  BY <1>1 DEF Status, Decisions
<1>3. PICK x, y : /\ x = [put |-> "status", note |-> n, status |-> st]
                  /\ y = [put |-> "change", note |-> n]
  OBVIOUS
<1>4. x \in PutType /\ y \in PutType
  BY <1>2, <1>3, RecordedType
<1>5. PICK w : w = <<x, y>>
  OBVIOUS
<1>6. w \in Seq(PutType) /\ Len(w) = 2 /\ w[1] = x /\ w[2] = y /\ Len(w) \in 2 .. 3 /\ Len(w) # 3
  BY <1>4, <1>5
<1>7. job = Idle /\ job' = [pc |-> "write", todo |-> w, total |-> 0] /\ claims[n] # "absent"
  BY <1>1, <1>3, <1>5 DEF Review, Recorded
<1>8. /\ UNCHANGED <<file, closed, bytes, dropped, committed, lock, wr, purge, ledger, accepted,
                     stolen,
                     raced, cut>>
      /\ ops' \in Nat /\ faults' \in Nat
  BY DEF Review, Begin, inbox, history, IInv, TypeInv
<1> QED BY <1>2, <1>3, <1>6, <1>7, <1>8, ReviewList

LEMMA StepSupersede ==
  ASSUME IInv, NEW n \in Notes, NEW m \in Notes, Supersede(n, m) PROVE IInv'
<1>1. PICK st : st = "superseded"
  OBVIOUS
<1>2. st \in Decisions
  BY <1>1 DEF Decisions
<1>3. PICK x, y, z : /\ x = [put |-> "status", note |-> n, status |-> st]
                     /\ y = [put |-> "change", note |-> n]
                     /\ z = [put |-> "supersedes", note |-> n]
  OBVIOUS
<1>4. x \in PutType /\ y \in PutType /\ z \in PutType
  BY <1>2, <1>3, RecordedType
<1>5. PICK w : w = <<x, y>> \o <<z>>
  OBVIOUS
<1>6. /\ w \in Seq(PutType) /\ Len(w) = 3 /\ w[1] = x /\ w[2] = y /\ w[3] = z
      /\ Len(w) \in 2 .. 3
  BY <1>4, <1>5
<1>7. job = Idle /\ job' = [pc |-> "write", todo |-> w, total |-> 0] /\ claims[n] # "absent"
  <2>1. job' = [pc |-> "write", total |-> 0, todo |-> w]
    BY <1>1, <1>3, <1>5 DEF Supersede, Recorded
  <2> QED BY <2>1 DEF Supersede
<1>8. /\ UNCHANGED <<file, closed, bytes, dropped, committed, lock, wr, purge, ledger, accepted,
                     stolen,
                     raced, cut>>
      /\ ops' \in Nat /\ faults' \in Nat
  BY DEF Supersede, Begin, inbox, history, IInv, TypeInv
<1> QED BY <1>2, <1>3, <1>6, <1>7, <1>8, ReviewList

-----------------------------------------------------------------------------
(* Theorems *)

LEMMA Initial == ASSUME Init PROVE IInv
<1>1. /\ file = <<>> /\ job.pc = "idle" /\ job \in JobType /\ Todo = <<>> /\ ~Committing
      /\ \A w \in Writers : wr[w].pc = "idle"
  BY IdleStep DEF Init, Todo, Committing
<1>2. wr \in [Writers -> WriterType]
  BY IdleStep DEF Init
<1>3. read_entries = <<>> /\ Len(<<>>) = 0 /\ DOMAIN <<>> = {} /\ Elements(<<>>) = {}
  BY <1>1, EntriesEmpty DEF read_entries, EntriesOf, Elements
<1>4. TypeInv
  <2>1. claims \in [Notes -> Statuses]
    BY DEF Init, Statuses
  <2>2. lock \in [holder : Writers \cup {Dead, "none"}, old : BOOLEAN]
    BY DEF Init, Free
  <2>3. 0 \in Nat /\ 0 <= MaxEntries /\ <<>> \in Seq(Notes \cup {Torn, Broken})
    BY InboxAssumption
  <2>4. /\ file \in Seq(Notes \cup {Torn, Broken}) /\ dropped \in Nat /\ committed \in Nat
        /\ session \in Nat /\ bytes \in Nat /\ committed <= MaxEntries /\ session <= MaxEntries
    BY <2>3 DEF Init
  <2>5. closed \in BOOLEAN /\ stolen \in BOOLEAN /\ raced \in BOOLEAN
    BY Zenon DEF Init
  <2>6. lock.holder \in Writers \cup {Dead, "none"} /\ lock.old \in BOOLEAN
    BY <2>2
  <2>7. evidence \cup rels \cup events \cup changes \cup supersedes \cup accepted \cup cut
          \subseteq Notes
    BY DEF Init
  <2>8. TypeOK
    BY <2>1, <2>4, <2>5, <2>6, <2>7, Zenon DEF TypeOK
  <2> QED BY <1>1, <1>2, <2>2, <2>8 DEF Init, TypeInv
<1>5. LockInv /\ FileInv
  BY <1>1, <1>3, InboxAssumption DEF Init, LockInv, FileInv, AtWork, Checked
<1>6. CountInv /\ TodoInv
  BY <1>1, <1>3, InboxAssumption DEF Init, CountInv, TodoInv
<1>7. ReachInv
  BY <1>1, <1>3 DEF Init, ReachInv
<1>8. LedgerInv
  BY DEF Init, LedgerInv
<1> QED BY <1>4, <1>5, <1>6, <1>7, <1>8 DEF IInv

LEMMA Inductive == ASSUME IInv, [Next]_vars PROVE IInv'
<1>1. ASSUME NEW w \in Writers, Append_(w) PROVE IInv'
  BY <1>1, StepBeginNote, StepAcquire, StepFindStale, StepReclaim, StepTimedOut, StepCheckNote,
     StepBumpDropped, StepEndsWithoutNewline, StepOpen, StepWriteNote, StepUnlock, StepWriterDies
  DEF Append_
<1>2. CASE UNCHANGED vars
  <2>1. UNCHANGED <<file, closed, bytes, dropped, committed, lock, wr, job, purge, ledger, accepted,
                    stolen, raced, cut, ops, faults>>
    BY <1>2 DEF vars, inbox, history, bounds
  <2>2. TypeInv'
    BY <2>1 DEF IInv, TypeInv, TypeOK, ledger
  <2>3. LockInv' /\ FileInv'
    BY <2>1, SameInbox
  <2> QED BY <2>1, <2>2, <2>3, SameJob DEF IInv
<1> QED
  BY <1>1, <1>2, StepLockAges, StepBeginCommit, StepReadPending, StepWriteLedger, StepTruncate,
     StepMarkCommitted, StepJobDies, StepReview, StepSupersede, StepRemoveEntries,
     StepRemoveDropped, StepRemoveCommitted, StepPurgeDies
  DEF Next

\* The lock keeps the file, the counter follows the claims, and the list of a commit or a review
\* is in an order in which every prefix is sound.
THEOREM Invariant == Spec => []IInv
BY Initial, Inductive, PTL DEF Spec

\* TypeOK: the types, and no counter of notes above the limit while no lock is stolen.
THEOREM TypeCorrect == Spec => []TypeOK
<1>1. IInv => TypeOK
  BY DEF IInv, TypeInv
<1> QED BY <1>1, Invariant, PTL

\* AcceptedReachable: what append_with has accepted is a claim or pending, whoever died.
THEOREM Reachable == Spec => []AcceptedReachable
<1>1. IInv => AcceptedReachable
  <2>1. SUFFICES ASSUME IInv, ~stolen, ~raced, purge = "idle", Broken \notin Elements(file),
                        NEW n \in accepted, claims[n] = "absent"
                 PROVE  n \in Elements(pending)
    BY DEF AcceptedReachable
  <2>2. n \in Elements(read_entries)
    BY <2>1 DEF IInv, FileInv
  <2>3. PICK i \in 1 .. Len(read_entries) : n = read_entries[i]
    BY <2>2, EntriesNow DEF Elements
  <2>4. ~(i \in 1 .. committed)
    BY <2>1, <2>3 DEF IInv, ReachInv
  <2>5. i \in committed + 1 .. Len(read_entries)
    BY <2>1, <2>3, <2>4, EntriesNow DEF IInv, TypeInv, TypeOK
  <2> QED BY <2>1, <2>3, <2>5, PendingIs
<1> QED BY <1>1, Invariant, PTL

\* A sequence without repetition has as many elements as places.
LEMMA Distinct ==
  ASSUME NEW S, NEW e \in Seq(S), \A i, j \in DOMAIN e : e[i] = e[j] => i = j
  PROVE  Cardinality(Elements(e)) = Len(e)
<1>1. Len(e) \in Nat /\ DOMAIN e = 1 .. Len(e)
  OBVIOUS
<1>2. e \in Bijection(1 .. Len(e), Elements(e))
  BY <1>1 DEF Bijection, Injection, Surjection, IsInjective, Elements
<1>3. ExistsBijection(1 .. Len(e), Elements(e))
  BY <1>2 DEF ExistsBijection
<1> QED BY <1>1, <1>3, FS_CountingElements

\* ExactInbox: append_with checks and writes under the lock, so the cap on entries and the
\* deduplication are exact, and that on bytes but for the newline it does not count.
THEOREM InboxExact == Spec => []ExactInbox
<1>1. IInv => ExactInbox
  BY EntriesNow, Distinct DEF IInv, FileInv, ExactInbox
<1> QED BY <1>1, Invariant, PTL

\* ClaimsComplete: write_batch and record append in an order that never leaves a claim bare.
THEOREM Complete == Spec => []ClaimsComplete
<1>1. IInv => ClaimsComplete
  <2>1. SUFFICES ASSUME IInv, NEW n \in Notes, claims[n] # "absent"
                 PROVE  /\ n \in evidence
                        /\ n \in rels => session # 0
                        /\ n \in cut \cup Unfinished \/
                             /\ n \in rels
                             /\ n \in DeadEnds => n \in events
                             /\ claims[n] # "unconfirmed" => n \in changes
                             /\ claims[n] = "superseded" => n \in supersedes
    BY DEF ClaimsComplete
  <2>2. n \notin Unfinished => ~ToPut("rel", n) /\ ~ToPut("event", n) /\ ~ToPut("change", n)
                               /\ ~ToPut("supersedes", n)
    BY <2>1, UnfinishedIs
  <2> QED BY <2>1, <2>2 DEF IInv, LedgerInv
<1> QED BY <1>1, Invariant, PTL

\* ReviewStands: no step takes a decision back.
THEOREM Stands == Spec => ReviewStands
<1>1. ASSUME IInv, [Next]_vars
      PROVE  [\A n \in Notes : claims[n] \notin {"absent", "unconfirmed"} =>
                claims'[n] \notin {"absent", "unconfirmed"}]_vars
  <2>1. CASE claims' = claims
    BY <2>1
  <2>2. CASE WriteLedger
    <3>1. PICK a : a = Head(job.todo)
      OBVIOUS
    <3>2. /\ a.put = "status" => a.status \in Decisions
          /\ \A n \in Notes : claims'[n] = IF a.put = "claim" /\ a.note = n THEN "unconfirmed"
                                           ELSE IF a.put = "status" /\ a.note = n THEN a.status
                                           ELSE claims[n]
      BY <1>1, <2>2, <3>1, PutIs
    <3>3. a.put = "claim" => claims[a.note] \in {"absent", "unconfirmed"}
      BY <1>1, <2>2, <3>1, FirstPut
    <3> QED BY <3>2, <3>3 DEF Decisions
  <2>3. claims' = claims \/ WriteLedger
    <3>1. ASSUME NEW w \in Writers, Append_(w) PROVE claims' = claims
      BY <3>1 DEF Append_, BeginNote, Acquire, FindStale, Reclaim, TimedOut, CheckNote,
         bump_dropped, EndsWithoutNewline, open_private_append, WriteNote, Unlock, WriterDies, ledger
    <3>2. ASSUME UNCHANGED vars PROVE claims' = claims
      BY <3>2 DEF vars, ledger
    <3>3. ASSUME LockAges \/ BeginCommit \/ ReadPending \/ Truncate \/ MarkCommitted \/ JobDies
          PROVE  claims' = claims
      BY <3>3 DEF LockAges, BeginCommit, ReadPending, Truncate, MarkCommitted, JobDies, ledger
    <3>4. ASSUME RemoveEntries \/ RemoveDropped \/ RemoveCommitted \/ PurgeDies
          PROVE  claims' = claims
      BY <3>4 DEF RemoveEntries, RemoveDropped, RemoveCommitted, PurgeDies, ledger
    <3>5. ASSUME NEW n \in Notes, NEW d \in {"confirm", "reject"}, Review(n, d)
          PROVE  claims' = claims
      BY <3>5 DEF Review, ledger
    <3>6. ASSUME NEW n \in Notes, NEW m \in Notes, Supersede(n, m) PROVE claims' = claims
      BY <3>6 DEF Supersede, ledger
    <3> QED BY <1>1, <3>1, <3>2, <3>3, <3>4, <3>5, <3>6 DEF Next
  <2> QED BY <2>1, <2>2, <2>3
<1> QED BY <1>1, Invariant, PTL DEF Spec, ReviewStands
=============================================================================
