--------------------------- MODULE EvidenceProofs ---------------------------
(***************************************************************************)
(* Proofs about Evidence: what the ledger says is true, and what release   *)
(* readiness says follows from it.                                         *)
(***************************************************************************)
EXTENDS Evidence, FiniteSetTheorems, TLAPS

Reviewed == review # None /\ review.ready => review.revision \in approved

Announced ==
  \A i \in DOMAIN written :
    /\ written[i] # Garbage /\ written[i].sound
    /\ written[i].kind = "release-readiness" /\ written[i].ok
    => CheckedBefore(written, written[i].revision, i)

Planned ==
  plan # None /\ plan.ok => CheckedBefore(written, plan.revision, Len(written) + 1)

\* What holds of one command.
Command(q) == Held(q) /\ Found(q) /\ InHand(q) /\ (q \in still => Standing(q))

\* EvidenceInv and what has been written since.
IInv ==
  /\ TypeOK /\ Books /\ Reviewed /\ EvidenceIsTrue /\ Announced /\ Planned
  /\ \A q \in Process : Command(q)

\* Reviews and lines are only added.
Grown ==
  /\ approved \subseteq approved'
  /\ Len(written) <= Len(written')
  /\ \A i \in DOMAIN written : i \in DOMAIN written' /\ written'[i] = written[i]

LEMMA SinceLasts ==
  ASSUME TypeOK, TypeOK', Grown, NEW r, NEW m \in Nat, m <= Len(written),
         CheckedSince(written, r, m)
  PROVE  CheckedSince(written', r, m)
<1>1. /\ DOMAIN written = 1 .. Len(written) /\ DOMAIN written' = 1 .. Len(written')
      /\ Len(written) \in Nat
  BY DEF TypeOK
<1>2. PICK i \in ChecksIn(written, r) :
        /\ Good(written[i])
        /\ \A j \in ChecksIn(written, r) : i < j /\ j <= m => Good(written[j])
  BY DEF CheckedSince
<1>3. i \in ChecksIn(written', r) /\ Good(written'[i])
  BY <1>2 DEF ChecksIn, Grown
<1>4. ASSUME NEW j \in ChecksIn(written', r), i < j, j <= m
      PROVE  Good(written'[j])
  <2>1. j \in DOMAIN written
    BY <1>1, <1>4 DEF ChecksIn
  <2>2. j \in ChecksIn(written, r)
    BY <2>1 DEF ChecksIn, Grown
  <2> QED BY <1>2, <1>4, <2>1, <2>2 DEF Grown
<1> QED BY <1>3, <1>4 DEF CheckedSince

LEMMA BeforeLasts ==
  ASSUME TypeOK, Grown, NEW r, NEW n \in Nat, NEW k \in Nat, n <= k,
         CheckedBefore(written, r, n)
  PROVE  CheckedBefore(written', r, k)
<1>1. PICK i \in ChecksIn(written, r) : i < n /\ Good(written[i])
  BY DEF CheckedBefore
<1>2. i \in DOMAIN written /\ i \in Nat
  BY DEF TypeOK, ChecksIn
<1>3. i \in ChecksIn(written', r) /\ Good(written'[i])
  BY <1>1, <1>2 DEF ChecksIn, Grown
<1> QED BY <1>1, <1>2, <1>3 DEF CheckedBefore

\* A check that has passed and was not followed by one that did not is before
\* the end of what was written.
LEMMA SinceBefore ==
  ASSUME TypeOK, NEW r, NEW m \in Nat, CheckedSince(written, r, m)
  PROVE  CheckedBefore(written, r, Len(written) + 1)
<1>1. PICK i \in ChecksIn(written, r) : Good(written[i])
  BY DEF CheckedSince
<1>2. i < Len(written) + 1
  BY <1>1 DEF TypeOK, ChecksIn
<1> QED BY <1>1, <1>2 DEF CheckedBefore

\* What a command holds lasts while others move: reviews and lines are only
\* added, and where the checkout moves, it does not count as standing still.
LEMMA CommandLasts ==
  ASSUME TypeOK, TypeOK', Grown, NEW q \in Process, Command(q),
         pc'[q] = pc[q], op'[q] = op[q], seen'[q] = seen[q], at'[q] = at[q],
         line'[q] = line[q], mark'[q] = mark[q],
         q \in still' => q \in still /\ UNCHANGED checkout
  PROVE  Command(q)'
<1>1. Held(q)'
  BY DEF Command, Held
<1>2. Found(q)'
  <2>1. /\ mark[q] \in Nat /\ mark[q] <= Len(written) /\ Len(written) \in Nat
        /\ mark'[q] <= Len(written') /\ approved \subseteq approved'
    BY DEF TypeOK, Command, Found, Grown
  <2>2. seen[q] # None /\ seen[q].passing
        => CheckedSince(written', seen[q].revision, mark[q])
    BY <2>1, SinceLasts DEF Command, Found
  <2> QED BY <2>1, <2>2 DEF Command, Found
<1>3. InHand(q)'
  <2>1. Len(written) + 1 \in Nat /\ Len(written') + 1 \in Nat
        /\ Len(written) + 1 <= Len(written') + 1 /\ approved \subseteq approved'
    BY DEF TypeOK, Grown
  <2>2. pc[q] = "append" /\ line[q].sound
        /\ line[q].kind = "release-readiness" /\ line[q].ok
        => CheckedBefore(written', line[q].revision, Len(written') + 1)
    BY <2>1, BeforeLasts DEF Command, InHand
  <2> QED BY <2>1, <2>2 DEF Command, InHand, True
<1>4. q \in still' => Standing(q)'
  BY DEF Command, Standing, Grown, checkout, Dirty
<1> QED BY <1>1, <1>2, <1>3, <1>4 DEF Command

\* Nothing is written: what the ledger and the plan say stays so.
LEMMA Quiet ==
  ASSUME TypeOK, EvidenceIsTrue, Announced, Planned, Books,
         approved \subseteq approved', UNCHANGED <<ledger, ended, written, faults>>
  PROVE  /\ Grown /\ Books' /\ EvidenceIsTrue' /\ Announced'
         /\ plan' = plan => Planned'
<1>1. Grown
  BY DEF TypeOK, Grown
<1>2. Books'
  BY DEF Books, Broken, Readable
<1>3. EvidenceIsTrue'
  BY DEF EvidenceIsTrue, True
<1>4. Announced' /\ (plan' = plan => Planned')
  BY DEF Announced, Planned
<1> QED BY <1>1, <1>2, <1>3, <1>4

-----------------------------------------------------------------------------
(* The ledger                                                              *)

LEMMA BrokenFinite ==
  ASSUME TypeOK
  PROVE  IsFiniteSet(Broken) /\ Cardinality(Broken) \in Nat
<1>1. Broken \subseteq 1 .. Len(ledger) /\ Len(ledger) \in Nat
  BY DEF TypeOK, Broken
<1>2. IsFiniteSet(1 .. Len(ledger))
  BY <1>1, FS_Interval
<1>3. IsFiniteSet(Broken)
  BY <1>1, <1>2, FS_Subset
<1> QED BY <1>3, FS_CardinalityType

LEMMA Replaced ==
  ASSUME NEW S, NEW s \in Seq(S), NEW i \in DOMAIN s, NEW x \in S
  PROVE  /\ [s EXCEPT ![i] = x] \in Seq(S)
         /\ Len([s EXCEPT ![i] = x]) = Len(s)
         /\ DOMAIN [s EXCEPT ![i] = x] = DOMAIN s
         /\ [s EXCEPT ![i] = x][i] = x
         /\ \A j \in DOMAIN s : j # i => [s EXCEPT ![i] = x][j] = s[j]
<1>1. [s EXCEPT ![i] = x] \in [1 .. Len(s) -> S] /\ Len(s) \in Nat
  OBVIOUS
<1>2. [s EXCEPT ![i] = x] \in Seq(S)
  BY <1>1
<1>3. Len([s EXCEPT ![i] = x]) = Len(s)
  BY <1>1, <1>2
<1> QED BY <1>2, <1>3

\* An append, whole or torn, leaves the ledger short of no more lines than
\* there were faults.
LEMMA Extending ==
  ASSUME TypeOK, Books, NEW entry \in Entry \cup {Garbage},
         ledger' = Extended(entry), written' = Append(written, entry),
         \/ ended' = TRUE /\ entry # Garbage /\ faults' = faults
         \/ ended' = FALSE /\ faults' = faults + 1
  PROVE  Books' /\ ledger' \in Seq(Entry \cup {Garbage})
<1> DEFINE Last == Len(ledger)
<1>0. /\ ledger \in Seq(Entry \cup {Garbage}) /\ written \in Seq(Entry \cup {Garbage})
      /\ faults \in Nat /\ ended \in BOOLEAN /\ Last \in Nat /\ Len(written) \in Nat
      /\ IsFiniteSet(Broken) /\ Cardinality(Broken) \in Nat
      /\ Garbage \notin Entry /\ Len(written') = Len(written) + 1
      /\ written' # <<>> /\ DOMAIN ledger = 1 .. Last
  <2>1. /\ ledger \in Seq(Entry \cup {Garbage}) /\ written \in Seq(Entry \cup {Garbage})
        /\ faults \in Nat /\ ended \in BOOLEAN
    BY DEF TypeOK
  <2>2. Last \in Nat /\ Len(written) \in Nat /\ DOMAIN ledger = 1 .. Last
    BY <2>1
  <2>3. Len(written') = Len(written) + 1 /\ written' # <<>>
    BY <2>1
  <2>4. IsFiniteSet(Broken) /\ Cardinality(Broken) \in Nat
    BY BrokenFinite
  <2> QED BY <2>1, <2>2, <2>3, <2>4, NoneAssumption
<1>1. CASE ended
  <2>1. ledger' = Append(ledger, entry)
    BY <1>1 DEF Extended
  <2>2. /\ ledger' \in Seq(Entry \cup {Garbage}) /\ Len(ledger') = Last + 1
        /\ DOMAIN ledger' = 1 .. Last + 1 /\ ledger'[Last + 1] = entry
        /\ \A i \in 1 .. Last : ledger'[i] = ledger[i]
    BY <1>0, <2>1
  <2>3. Broken' = IF entry = Garbage THEN Broken \cup {Last + 1} ELSE Broken
    BY <1>0, <2>2 DEF Broken
  <2>4. Cardinality(Broken') = IF entry = Garbage THEN Cardinality(Broken) + 1
                                                  ELSE Cardinality(Broken)
    <3>1. Last + 1 \notin Broken
      BY <1>0 DEF Broken
    <3> QED BY <1>0, <2>3, <3>1, FS_AddElement
  <2>5. Cardinality(Broken) <= faults
    BY <1>0, <1>1 DEF Books
  <2>6. Cardinality(Broken')
        + (IF ~ended' /\ ledger'[Len(ledger')] # Garbage THEN 1 ELSE 0) <= faults'
    BY <1>0, <2>2, <2>4, <2>5
  <2>7. /\ Len(written') + (IF ended' THEN 0 ELSE 1) <= Len(ledger') + faults'
        /\ Len(ledger') <= Len(written')
    BY <1>0, <1>1, <2>2 DEF Books
  <2>8. Readable' => ledger' = written'
    <3>1. Readable' => Readable
      BY <1>0, <2>2 DEF Readable
    <3> QED BY <2>1, <3>1 DEF Books
  <2> QED BY <1>0, <2>2, <2>6, <2>7, <2>8 DEF Books, Broken
<1>2. CASE ~ended
  <2>1. ledger' = [ledger EXCEPT ![Last] = Garbage] /\ Last \in DOMAIN ledger
    BY <1>0, <1>2 DEF Extended, Books
  <2>2. /\ ledger' \in Seq(Entry \cup {Garbage}) /\ Len(ledger') = Last
        /\ DOMAIN ledger' = 1 .. Last /\ ledger'[Last] = Garbage
        /\ \A i \in 1 .. Last : i # Last => ledger'[i] = ledger[i]
    BY <1>0, <2>1, Replaced
  <2>3. Broken' = Broken \cup {Last}
    BY <1>0, <2>1, <2>2 DEF Broken
  <2>4. Cardinality(Broken') = IF Last \in Broken THEN Cardinality(Broken)
                                                  ELSE Cardinality(Broken) + 1
    BY <1>0, <2>3, FS_AddElement
  <2>5. Cardinality(Broken) + (IF Last \in Broken THEN 0 ELSE 1) <= faults
    BY <1>0, <1>2, <2>1 DEF Books, Broken
  <2>6. Cardinality(Broken')
        + (IF ~ended' /\ ledger'[Len(ledger')] # Garbage THEN 1 ELSE 0) <= faults'
    <3>1. (IF ~ended' /\ ledger'[Len(ledger')] # Garbage THEN 1 ELSE 0) = 0
      BY <2>2
    <3>2. Cardinality(Broken') <= faults /\ Cardinality(Broken') \in Nat
      BY <1>0, <2>4, <2>5
    <3>3. faults' \in Nat /\ faults <= faults'
      BY <1>0
    <3> QED BY <1>0, <3>1, <3>2, <3>3
  <2>7. /\ Len(written') + (IF ended' THEN 0 ELSE 1) <= Len(ledger') + faults'
        /\ Len(ledger') <= Len(written')
    <3>1. Len(written) + 1 <= Last + faults /\ Last <= Len(written)
      BY <1>0, <1>2 DEF Books
    <3>2. Len(ledger') = Last /\ Len(written') = Len(written) + 1
      BY <1>0, <2>2
    <3>3. Len(ledger') <= Len(written')
      BY <1>0, <3>1, <3>2
    <3>4. CASE ended' = TRUE /\ faults' = faults
      BY <1>0, <3>1, <3>2, <3>4
    <3>5. CASE ended' = FALSE /\ faults' = faults + 1
      BY <1>0, <3>1, <3>2, <3>5
    <3> QED BY <3>3, <3>4, <3>5
  <2>8. ~Readable' /\ ledger' # <<>>
    <3>1. ledger'[Last] = Garbage /\ Last \in DOMAIN ledger'
      BY <1>0, <2>1, <2>2
    <3> QED BY <3>1 DEF Readable
  <2> QED BY <2>2, <2>6, <2>7, <2>8 DEF Books, Broken
<1> QED BY <1>0, <1>1, <1>2

\* A line is written that is true, if it is sound: so is all that was written.
LEMMA Writing ==
  ASSUME IInv, TypeOK', NEW entry \in Entry \cup {Garbage},
         written' = Append(written, entry), approved' = approved, plan' = plan,
         entry # Garbage /\ entry.sound =>
           /\ True(entry, approved)
           /\ entry.kind = "release-readiness" /\ entry.ok
              => CheckedBefore(written, entry.revision, Len(written) + 1)
  PROVE  Grown /\ EvidenceIsTrue' /\ Announced' /\ Planned'
<1> DEFINE n == Len(written)
<1>0. /\ TypeOK /\ written \in Seq(Entry \cup {Garbage}) /\ n \in Nat
      /\ DOMAIN written = 1 .. n /\ DOMAIN written' = 1 .. n + 1
      /\ Len(written') = n + 1 /\ written'[n + 1] = entry
      /\ \A i \in 1 .. n : written'[i] = written[i]
  BY DEF IInv, TypeOK
<1>1. Grown
  BY <1>0 DEF Grown
<1>2. EvidenceIsTrue'
  <2>1. ASSUME NEW i \in 1 .. n + 1, written'[i] # Garbage, written'[i].sound
        PROVE  True(written'[i], approved)
    <3>1. CASE i \in 1 .. n
      BY <1>0, <2>1, <3>1 DEF IInv, EvidenceIsTrue
    <3>2. CASE i \notin 1 .. n
      BY <1>0, <2>1, <3>2
    <3> QED BY <3>1, <3>2
  <2> QED BY <1>0, <2>1 DEF EvidenceIsTrue
<1>3. Announced'
  <2>1. ASSUME NEW i \in 1 .. n + 1, written'[i] # Garbage, written'[i].sound,
               written'[i].kind = "release-readiness", written'[i].ok
        PROVE  CheckedBefore(written', written'[i].revision, i)
    <3>1. CASE i \in 1 .. n
      <4>1. CheckedBefore(written, written[i].revision, i)
        BY <1>0, <2>1, <3>1 DEF IInv, Announced
      <4>2. i \in Nat /\ i <= i
        OBVIOUS
      <4>3. CheckedBefore(written', written[i].revision, i)
        BY <1>0, <1>1, <4>1, <4>2, BeforeLasts
      <4> QED BY <1>0, <3>1, <4>3
    <3>2. CASE i \notin 1 .. n
      <4>1. i = n + 1 /\ n + 1 \in Nat /\ n + 1 <= n + 1
        BY <1>0, <3>2
      <4>2. CheckedBefore(written, entry.revision, n + 1)
        BY <1>0, <2>1, <4>1
      <4>3. CheckedBefore(written', entry.revision, n + 1)
        BY <1>0, <1>1, <4>1, <4>2, BeforeLasts
      <4> QED BY <1>0, <4>1, <4>3
    <3> QED BY <3>1, <3>2
  <2> QED BY <1>0, <2>1 DEF Announced
<1>4. Planned'
  <2>1. n + 1 \in Nat /\ n + 2 \in Nat /\ n + 1 <= n + 2 /\ Len(written') + 1 = n + 2
    BY <1>0
  <2>2. plan # None /\ plan.ok => CheckedBefore(written', plan.revision, n + 2)
    BY <1>0, <1>1, <2>1, BeforeLasts DEF IInv, Planned
  <2> QED BY <2>1, <2>2 DEF Planned
<1> QED BY <1>1, <1>2, <1>3, <1>4

-----------------------------------------------------------------------------
(* The inductive invariant                                                 *)

LEMMA Start == Init => IInv
<1> SUFFICES ASSUME Init PROVE IInv
  OBVIOUS
<1>1. TypeOK
  <2>0. /\ head \in Revision
        /\ review = None \/ review = [revision |-> head, ready |-> TRUE]
    BY DEF Init
  <2>1. review \in [revision : Revision, ready : BOOLEAN] \cup {None}
    <3>1. [revision |-> head, ready |-> TRUE] \in [revision : Revision, ready : BOOLEAN]
      BY <2>0
    <3> QED BY <2>0, <3>1
  <2>2. /\ head \in Revision /\ approved \subseteq Revision
        /\ ledger \in Seq(Entry \cup {Garbage}) /\ written \in Seq(Entry \cup {Garbage})
    BY DEF Init
  <2> QED BY <2>1, <2>2 DEF Init, TypeOK, Dirt
<1>2. Books
  <2>1. Broken = {} /\ Cardinality(Broken) = 0
    BY FS_EmptySet DEF Init, Broken
  <2>2. /\ ledger = <<>> /\ written = <<>> /\ ended = TRUE /\ faults = 0
        /\ Len(ledger) = 0 /\ Len(written) = 0
    BY DEF Init
  <2> QED BY <2>1, <2>2 DEF Books
<1>3. Reviewed /\ EvidenceIsTrue /\ Announced /\ Planned
  BY DEF Init, Reviewed, EvidenceIsTrue, Announced, Planned
<1>4. ASSUME NEW q \in Process PROVE Command(q)
  BY DEF Init, Command, Held, Found, InHand, Deciding
<1> QED BY <1>1, <1>2, <1>3, <1>4 DEF IInv

\* One command moves: what there is to show is about that command and about
\* what it has written.
LEMMA Moving ==
  ASSUME IInv, TypeOK', Grown, NEW q \in Process, still' \subseteq still \cup {q},
         UNCHANGED checkout,
         \A r \in Process \ {q} :
           /\ pc'[r] = pc[r] /\ op'[r] = op[r] /\ seen'[r] = seen[r]
           /\ at'[r] = at[r] /\ line'[r] = line[r] /\ mark'[r] = mark[r],
         Command(q)', Books', Reviewed', EvidenceIsTrue', Announced', Planned'
  PROVE  IInv'
<1>1. ASSUME NEW r \in Process, r # q PROVE Command(r)'
  <2>1. r \in still' => r \in still /\ UNCHANGED checkout
    BY <1>1
  <2> QED BY <1>1, <2>1, CommandLasts DEF IInv
<1> QED BY <1>1 DEF IInv

\* What is left of a command at its end, and what is not touched.
LEMMA Ended ==
  ASSUME TypeOK, TypeOK', NEW q \in Process, Finish(q)
  PROVE  /\ Command(q)' /\ still' \subseteq still
         /\ \A r \in Process \ {q} :
              /\ pc'[r] = pc[r] /\ op'[r] = op[r] /\ seen'[r] = seen[r]
              /\ at'[r] = at[r] /\ line'[r] = line[r] /\ mark'[r] = mark[r]
<1>1. /\ pc'[q] = "idle" /\ op'[q] = "none" /\ seen'[q] = None /\ mark'[q] = 0
      /\ q \notin still' /\ still' \subseteq still
      /\ \A r \in Process \ {q} :
           /\ pc'[r] = pc[r] /\ op'[r] = op[r] /\ seen'[r] = seen[r]
           /\ at'[r] = at[r] /\ line'[r] = line[r] /\ mark'[r] = mark[r]
  BY DEF TypeOK, Finish, Goto
<1>2. Held(q)' /\ Found(q)' /\ InHand(q)'
  BY <1>1 DEF TypeOK, Held, Found, InHand, Deciding
<1> QED BY <1>1, <1>2 DEF Command

\* As Moving, where nothing is written.
LEMMA Working ==
  ASSUME IInv, TypeOK', NEW q \in Process, still' \subseteq still \cup {q},
         UNCHANGED <<checkout, book, plan, written, faults>>,
         approved \subseteq approved',
         \A r \in Process \ {q} :
           /\ pc'[r] = pc[r] /\ op'[r] = op[r] /\ seen'[r] = seen[r]
           /\ at'[r] = at[r] /\ line'[r] = line[r] /\ mark'[r] = mark[r],
         Command(q)', Reviewed'
  PROVE  IInv'
<1>1. Grown /\ Books' /\ EvidenceIsTrue' /\ Announced' /\ Planned'
  BY Quiet DEF IInv, book
<1> QED BY <1>1, Moving

LEMMA FailInv ==
  ASSUME IInv, NEW q \in Process, Fail(q)
  PROVE  IInv'
<1>0. TypeOK /\ Reviewed
  BY DEF IInv
<1>1. /\ Finish(q)
      /\ UNCHANGED <<checkout, book, review, plan, approved, written, counts>>
  BY DEF Fail
<1>2. TypeOK'
  BY <1>0, <1>1 DEF TypeOK, Finish, Goto, checkout, book, counts
<1>3. Reviewed'
  BY <1>0, <1>1 DEF Reviewed
<1> QED BY <1>0, <1>1, <1>2, <1>3, Ended, Working DEF counts

LEMMA BeginInv ==
  ASSUME IInv, NEW q \in Process, NEW o \in Op, Begin(q, o)
  PROVE  IInv'
<1>0. TypeOK /\ Reviewed /\ Command(q)
  BY DEF IInv
<1>1. Unread \in Seen /\ Unread # None /\ Unread.revision = head
      /\ Unread.dirty = Dirty
      /\ ~Unread.passing /\ ~Unread.secure /\ ~Unread.ok
  <2>1. head \in Revision /\ Dirty \in BOOLEAN
    BY <1>0 DEF TypeOK, Dirty
  <2>2. Unread \in Seen
    BY <2>1 DEF Unread, Seen
  <2> QED BY <2>2, NoneAssumption DEF Unread
<1>2. /\ op'[q] = o /\ mark'[q] \in {0, Len(written)}
      /\ seen'[q] = (IF o \in {"check", "probe"} THEN None ELSE Unread)
      /\ pc'[q] = (CASE o = "readiness" -> "checks"
                    [] o = "security-review" -> "land"
                    [] OTHER -> "run")
      /\ o = "security-review" => ~Dirty
      /\ still' = still \cup {q}
      /\ UNCHANGED <<checkout, book, review, plan, at, line, approved, written, faults, moves>>
      /\ calls' \in Nat
      /\ \A r \in Process \ {q} :
           /\ pc'[r] = pc[r] /\ op'[r] = op[r] /\ seen'[r] = seen[r]
           /\ at'[r] = at[r] /\ line'[r] = line[r] /\ mark'[r] = mark[r]
  BY <1>0 DEF TypeOK, Begin, Goto
<1>3. pc'[q] \in {"checks", "land", "run"}
  BY <1>2
<1>4. TypeOK'
  <2>1. Len(written) \in Nat
    BY <1>0 DEF TypeOK
  <2>2. pc' \in [Process -> {"idle", "run", "land", "note", "append", "checks",
                            "review", "decide", "plan"}]
    BY <1>0, <1>2, <1>3 DEF TypeOK, Begin, Goto
  <2>3. /\ op' \in [Process -> Op \cup {"none"}]
        /\ seen' \in [Process -> Seen \cup {None}]
        /\ mark' \in [Process -> Nat]
        /\ still' \subseteq Process
    BY <1>0, <1>1, <2>1 DEF TypeOK, Begin
  <2> QED BY <1>0, <1>2, <2>2, <2>3 DEF TypeOK, checkout, book
<1>5. Dirty' = Dirty /\ head' = head
  BY <1>2 DEF Dirty, checkout
<1>6. Held(q)'
  BY <1>1, <1>2, <1>3 DEF Held, Op, Deciding
<1>7. Found(q)' /\ InHand(q)'
  BY <1>0, <1>1, <1>2, <1>3 DEF TypeOK, Found, InHand
<1>8. Standing(q)'
  <2>1. seen'[q] # None => seen'[q] = Unread
    BY <1>2
  <2>2. op'[q] = "readiness" => ~seen'[q].secure
    BY <1>1, <1>2
  <2> QED BY <1>1, <1>3, <1>5, <2>1, <2>2 DEF Standing
<1>9. Reviewed'
  BY <1>0, <1>2 DEF Reviewed
<1> QED BY <1>2, <1>4, <1>6, <1>7, <1>8, <1>9, Working DEF Command

\* evidence_record: the entry is what the command found, of the checkout by now.
LEMMA NotedType ==
  ASSUME TypeOK, NEW q \in Process, NEW kind \in Kind,
         NEW whole \in BOOLEAN, NEW ok \in BOOLEAN
  PROVE  Noted(q, kind, whole, ok) \in Entry
BY DEF TypeOK, Noted, Entry, Dirty

\* A command that has found something is about to append it.
LEMMA Noting ==
  ASSUME IInv, NEW q \in Process, NEW kind \in Kind, pc[q] # "idle",
         NEW whole \in BOOLEAN, NEW ok \in BOOLEAN, Note(q, Noted(q, kind, whole, ok)),
         UNCHANGED <<checkout, book, review, plan, op, at, observed, counts>>,
         seen' \in [Process -> Seen \cup {None}],
         \A r \in Process \ {q} : seen'[r] = seen[r],
         seen'[q] # None =>
           /\ op[q] \in {"security-review", "readiness"}
           /\ seen'[q].revision = seen[q].revision /\ seen'[q].dirty = seen[q].dirty
           /\ seen'[q].passing = seen[q].passing /\ seen'[q].secure = seen[q].secure
           /\ seen'[q].ok => /\ ~seen[q].dirty /\ seen[q].passing
                             /\ seen[q].secure /\ op[q] = "readiness",
         seen[q] # None <=> seen'[q] # None,
         q \in still /\ dirt # "vast" =>
           LET entry == Noted(q, kind, whole, ok) IN
             /\ True(entry, approved)
             /\ entry.kind = "release-readiness" /\ entry.ok
                => CheckedBefore(written, entry.revision, Len(written) + 1)
  PROVE  IInv'
<1> DEFINE entry == Noted(q, kind, whole, ok)
<1>0. TypeOK /\ Reviewed /\ Command(q)
  BY DEF IInv
<1>1. entry \in Entry /\ entry # None
  BY <1>0, NotedType, NoneAssumption
<1>2. /\ pc'[q] = "append" /\ line'[q] = entry
      /\ pc' = [pc EXCEPT ![q] = "append"] /\ line' = [line EXCEPT ![q] = entry]
      /\ \A r \in Process \ {q} : pc'[r] = pc[r] /\ line'[r] = line[r]
  BY <1>0 DEF Note, Goto, TypeOK
<1>3. TypeOK'
  BY <1>0, <1>1, <1>2 DEF TypeOK, checkout, book, observed, counts
<1>4. Held(q)'
  BY <1>0, <1>1, <1>2 DEF Command, Held, Deciding
<1>5. Found(q)'
  BY <1>0, <1>2 DEF Command, Found, observed
<1>6. InHand(q)'
  <2>1. entry.sound <=> q \in still /\ dirt # "vast"
    BY DEF Noted
  <2> QED BY <1>2, <2>1 DEF InHand, observed
<1>7. q \in still' => Standing(q)'
  BY <1>0, <1>2 DEF Command, Held, Standing, observed, checkout, Dirty
<1>8. Reviewed'
  BY <1>0 DEF Reviewed, observed
<1> QED
  BY <1>2, <1>3, <1>4, <1>5, <1>6, <1>7, <1>8, Working DEF Command, observed, counts

LEMMA CheckInv ==
  ASSUME IInv, NEW q \in Process, NEW whole \in BOOLEAN, NEW ok \in BOOLEAN,
         Check(q, whole, ok)
  PROVE  IInv'
<1>0. TypeOK /\ Command(q) /\ pc[q] = "run" /\ seen' = seen
  BY DEF IInv, Check
<1>1. op[q] = "check" /\ seen[q] = None
  BY <1>0 DEF Check, Command, Held
<1>2. ASSUME q \in still, dirt # "vast"
      PROVE  /\ True(Noted(q, "check", whole, ok), approved)
             /\ Noted(q, "check", whole, ok).kind # "release-readiness"
  <2>1. ~Dirty => dirt = "none"
    BY <1>0, <1>2 DEF TypeOK, Dirt, Dirty
  <2>2. ~Dirty => (ok <=> head \in IF whole THEN Passes ELSE PassesOne)
    BY <1>2, <2>1 DEF Check, Finds
  <2> QED BY <2>2 DEF Noted, True
<1> QED BY <1>0, <1>1, <1>2, Noting DEF Check, Kind, TypeOK

LEMMA ProbeInv ==
  ASSUME IInv, NEW q \in Process, Probe(q)
  PROVE  IInv'
<1>0. TypeOK /\ Command(q) /\ pc[q] = "run" /\ seen' = seen
  BY DEF IInv, Probe
<1>1. seen[q] = None
  BY <1>0 DEF Probe, Command, Held
<1>2. /\ True(Noted(q, "probe", TRUE, TRUE), approved)
      /\ Noted(q, "probe", TRUE, TRUE).kind # "release-readiness"
  BY DEF Noted, True
<1> QED BY <1>0, <1>1, <1>2, Noting DEF Probe, Kind, TypeOK

LEMMA LandInv ==
  ASSUME IInv, NEW q \in Process, NEW ready \in BOOLEAN, Land(q, ready)
  PROVE  IInv'
<1>0. TypeOK /\ Reviewed /\ Command(q)
  BY DEF IInv
<1>1. /\ pc[q] = "land" /\ op[q] = "security-review"
      /\ seen[q] \in Seen /\ ~seen[q].dirty /\ ~seen[q].ok
  BY <1>0 DEF Land, Command, Held, TypeOK
<1>2. /\ pc'[q] = "note" /\ seen'[q] = [seen[q] EXCEPT !.secure = ready]
      /\ review' = [revision |-> seen[q].revision, ready |-> ready]
      /\ approved' = (IF ready THEN approved \cup {seen[q].revision} ELSE approved)
      /\ UNCHANGED <<checkout, book, plan, op, at, line, still, mark, written, counts>>
      /\ \A r \in Process \ {q} : pc'[r] = pc[r] /\ seen'[r] = seen[r]
  BY <1>0 DEF Land, Goto, TypeOK
<1>3. /\ seen'[q] \in Seen /\ seen'[q] # None /\ seen'[q].secure = ready
      /\ seen'[q].revision = seen[q].revision /\ seen'[q].dirty = seen[q].dirty
      /\ seen'[q].passing = seen[q].passing /\ seen'[q].ok = seen[q].ok
      /\ seen[q].revision \in Revision
  <2>1. [seen[q] EXCEPT !.secure = ready] \in Seen
    BY <1>1 DEF Seen
  <2> QED BY <1>1, <1>2, <2>1, NoneAssumption DEF Seen
<1>4. TypeOK'
  <2>1. review' \in [revision : Revision, ready : BOOLEAN]
    BY <1>2, <1>3
  <2>2. seen' \in [Process -> Seen \cup {None}]
    BY <1>0, <1>2, <1>3 DEF Land, TypeOK
  <2>3. pc' \in [Process -> {"idle", "run", "land", "note", "append", "checks",
                            "review", "decide", "plan"}]
    BY <1>0 DEF Land, Goto, TypeOK
  <2>4. approved' \subseteq Revision
    BY <1>0, <1>2, <1>3 DEF TypeOK
  <2> QED BY <1>0, <1>2, <2>1, <2>2, <2>3, <2>4 DEF TypeOK, checkout, book, counts
<1>5. Command(q)'
  <2>1. Held(q)'
    BY <1>1, <1>2, <1>3 DEF Held, Deciding
  <2>2. Found(q)'
    <3>1. seen'[q].secure => seen'[q].revision \in approved'
      BY <1>2, <1>3
    <3>2. mark'[q] <= Len(written')
      BY <1>0, <1>2 DEF Command, Found
    <3>3. seen'[q].passing => CheckedSince(written', seen'[q].revision, mark'[q])
      <4>1. seen[q].passing => CheckedSince(written, seen[q].revision, mark[q])
        BY <1>0, <1>1 DEF Command, Held, Found
      <4> QED BY <1>2, <1>3, <4>1
    <3>4. ~seen'[q].ok
      BY <1>1, <1>3
    <3> QED BY <3>1, <3>2, <3>3, <3>4 DEF Found
  <2>3. InHand(q)'
    BY <1>2 DEF InHand
  <2>4. q \in still' => Standing(q)'
    <3>1. q \in still => seen[q].revision = head /\ seen[q].dirty = Dirty
      BY <1>0, <1>1 DEF Command, Held, Standing
    <3>2. Dirty' = Dirty /\ head' = head
      BY <1>2 DEF checkout, Dirty
    <3>3. q \in still' => seen'[q].revision = head' /\ seen'[q].dirty = Dirty'
      BY <1>2, <1>3, <3>1, <3>2
    <3>4. op'[q] = "security-review" /\ pc'[q] = "note"
      BY <1>1, <1>2
    <3> QED BY <3>3, <3>4 DEF Standing
  <2> QED BY <2>1, <2>2, <2>3, <2>4 DEF Command
<1>6. Reviewed'
  BY <1>2 DEF Reviewed
<1>7. approved \subseteq approved'
  BY <1>2
<1> QED BY <1>2, <1>4, <1>5, <1>6, <1>7, Working DEF counts

LEMMA NoteReviewInv ==
  ASSUME IInv, NEW q \in Process, NoteReview(q)
  PROVE  IInv'
<1>0. TypeOK /\ Command(q) /\ pc[q] = "note" /\ seen' = seen
  BY DEF IInv, NoteReview
<1>1. /\ op[q] = "security-review" /\ seen[q] \in Seen /\ seen[q] # None
      /\ ~seen[q].dirty /\ ~seen[q].ok /\ seen[q].secure \in BOOLEAN
  BY <1>0 DEF Command, Held, TypeOK, Seen
<1> DEFINE entry == Noted(q, "security-review", TRUE, seen[q].secure)
<1>2. ASSUME q \in still
      PROVE  True(entry, approved) /\ entry.kind # "release-readiness"
  <2>1. head = seen[q].revision /\ ~Dirty
    BY <1>0, <1>1, <1>2 DEF Command, Standing
  <2>2. seen[q].secure => head \in approved
    BY <1>0, <1>1, <2>1 DEF Command, Found
  <2> QED BY <2>1, <2>2 DEF Noted, True
<1> QED BY <1>0, <1>1, <1>2, Noting DEF NoteReview, Kind, TypeOK

LEMMA AppendInv ==
  ASSUME IInv, NEW q \in Process,
         AppendLine(q) \/ \E entry \in {Garbage, line[q]} : Tear(q, entry)
  PROVE  IInv'
<1>0. /\ TypeOK /\ Reviewed /\ Command(q) /\ Books
      /\ pc[q] = "append" /\ line[q] \in Entry /\ line[q] # Garbage
  BY NoneAssumption DEF IInv, AppendLine, Tear, Command, Held, TypeOK
<1>1. PICK entry \in Entry \cup {Garbage} :
        /\ entry \in {Garbage, line[q]}
        /\ ledger' = Extended(entry) /\ written' = Append(written, entry)
        /\ \/ ended' = TRUE /\ entry # Garbage /\ faults' = faults
           \/ ended' = FALSE /\ faults' = faults + 1
  BY <1>0 DEF AppendLine, Tear, counts
<1>2. UNCHANGED <<checkout, review, plan, approved, calls, moves>>
  BY DEF AppendLine, Tear, counts
<1>3. Books' /\ ledger' \in Seq(Entry \cup {Garbage})
  BY <1>0, <1>1, Extending
<1>4. \/ Finish(q)
      \/ /\ op[q] = "readiness" /\ pc' = [pc EXCEPT ![q] = "plan"]
         /\ UNCHANGED <<locals, still, mark>>
  BY DEF AppendLine, Tear, Goto
<1>5. TypeOK'
  <2>1. /\ written' \in Seq(Entry \cup {Garbage}) /\ ended' \in BOOLEAN
        /\ faults' \in Nat
    <3>1. written \in Seq(Entry \cup {Garbage}) /\ faults \in Nat
      BY <1>0 DEF TypeOK
    <3>2. Append(written, entry) \in Seq(Entry \cup {Garbage})
      BY <3>1
    <3>3. written' \in Seq(Entry \cup {Garbage})
      BY <1>1, <3>2
    <3>4. ended' \in BOOLEAN /\ (faults' = faults \/ faults' = faults + 1)
      BY <1>1
    <3> QED BY <3>1, <3>3, <3>4
  <2>2. CASE Finish(q)
    BY <1>0, <1>2, <1>3, <2>1, <2>2 DEF TypeOK, Finish, Goto, checkout
  <2>3. CASE pc' = [pc EXCEPT ![q] = "plan"] /\ UNCHANGED <<locals, still, mark>>
    BY <1>0, <1>2, <1>3, <2>1, <2>3 DEF TypeOK, checkout, locals
  <2> QED BY <1>4, <2>2, <2>3
<1>6. Grown /\ EvidenceIsTrue' /\ Announced' /\ Planned'
  <2>1. line[q].sound =>
          /\ True(line[q], approved)
          /\ line[q].kind = "release-readiness" /\ line[q].ok
             => CheckedBefore(written, line[q].revision, Len(written) + 1)
    BY <1>0 DEF Command, InHand
  <2> QED BY <1>1, <1>2, <1>5, <2>1, Writing
<1>7. Reviewed'
  BY <1>0, <1>2 DEF Reviewed
<1>8. CASE Finish(q)
  BY <1>0, <1>2, <1>3, <1>5, <1>6, <1>7, <1>8, Ended, Moving
<1>9. CASE /\ op[q] = "readiness" /\ pc' = [pc EXCEPT ![q] = "plan"]
           /\ UNCHANGED <<locals, still, mark>>
  <2>1. /\ pc'[q] = "plan" /\ op'[q] = op[q] /\ seen'[q] = seen[q]
        /\ still' = still /\ mark'[q] = mark[q]
        /\ \A r \in Process \ {q} :
             /\ pc'[r] = pc[r] /\ op'[r] = op[r] /\ seen'[r] = seen[r]
             /\ at'[r] = at[r] /\ line'[r] = line[r] /\ mark'[r] = mark[r]
    BY <1>0, <1>9 DEF TypeOK, locals
  <2>2. Held(q)'
    BY <1>0, <1>9, <2>1 DEF Command, Held, Deciding
  <2>3. Found(q)'
    <3>1. /\ mark[q] \in Nat /\ mark[q] <= Len(written)
          /\ mark[q] <= Len(written')
      BY <1>0, <1>5, <1>6 DEF TypeOK, Command, Found, Grown
    <3>2. seen[q] # None /\ seen[q].passing
          => CheckedSince(written', seen[q].revision, mark[q])
      BY <1>0, <1>5, <1>6, <3>1, SinceLasts DEF Command, Found
    <3> QED BY <1>0, <1>2, <2>1, <3>1, <3>2 DEF Command, Found
  <2>4. InHand(q)' /\ (q \in still' => Standing(q)')
    BY <1>0, <1>2, <1>9, <2>1 DEF Command, InHand, Standing, checkout, Dirty
  <2> QED
    BY <1>2, <1>3, <1>5, <1>6, <1>7, <2>1, <2>2, <2>3, <2>4, Moving DEF Command
<1> QED BY <1>4, <1>8, <1>9

LEMMA FindChecksInv ==
  ASSUME IInv, NEW q \in Process, FindChecks(q)
  PROVE  IInv'
<1>0. TypeOK /\ Reviewed /\ Command(q) /\ Books
  BY DEF IInv
<1> DEFINE r == seen[q].revision
           found == HasPassingChecks(r)
           state == [revision |-> head, dirty |-> Dirty]
<1>1. /\ pc[q] = "checks" /\ op[q] = "readiness" /\ seen[q] \in Seen
      /\ ~seen[q].ok /\ ledger = written
  BY <1>0 DEF FindChecks, Command, Held, Deciding, TypeOK, Books
<1>2. /\ pc'[q] = "review" /\ seen'[q] = [seen[q] EXCEPT !.passing = found]
      /\ at'[q] = state
      /\ UNCHANGED <<checkout, book, review, plan, op, line, observed, counts>>
      /\ \A p \in Process \ {q} :
           pc'[p] = pc[p] /\ seen'[p] = seen[p] /\ at'[p] = at[p]
  BY <1>0 DEF FindChecks, Goto, TypeOK
<1>3. state \in State /\ state # None
  <2>1. head \in Revision /\ Dirty \in BOOLEAN
    BY <1>0 DEF TypeOK, Dirty
  <2> QED BY <2>1, NoneAssumption DEF State
<1>4. /\ seen'[q] \in Seen /\ seen'[q] # None /\ seen'[q].passing = found
      /\ seen'[q].revision = r /\ seen'[q].dirty = seen[q].dirty
      /\ seen'[q].secure = seen[q].secure /\ seen'[q].ok = seen[q].ok
  <2>1. found \in BOOLEAN
    BY DEF HasPassingChecks
  <2>2. [seen[q] EXCEPT !.passing = found] \in Seen
    BY <1>1, <2>1 DEF Seen
  <2> QED BY <1>1, <1>2, <2>2, NoneAssumption DEF Seen
<1>5. TypeOK'
  <2>1. /\ seen' \in [Process -> Seen \cup {None}]
        /\ at' \in [Process -> State \cup {None}]
        /\ pc' \in [Process -> {"idle", "run", "land", "note", "append", "checks",
                                "review", "decide", "plan"}]
    BY <1>0, <1>2, <1>3, <1>4 DEF FindChecks, Goto, TypeOK
  <2> QED BY <1>0, <1>2, <2>1 DEF TypeOK, checkout, book, observed, counts
<1>6. found => CheckedSince(written, r, mark[q])
  <2> SUFFICES ASSUME found PROVE CheckedSince(written, r, mark[q])
    OBVIOUS
  <2>0. /\ written \in Seq(Entry \cup {Garbage}) /\ Len(written) \in Nat
        /\ DOMAIN written = 1 .. Len(written)
        /\ mark[q] \in Nat /\ mark[q] <= Len(written)
        /\ \A i \in DOMAIN written : written[i] # Garbage
        /\ Window \in Nat
    BY <1>0, <1>1, BoundAssumption DEF TypeOK, FindChecks, Readable, Command, Found
  <2>1. PICK i \in ChecksOf(r) : Passed(i) /\ \A j \in ChecksOf(r) : j <= i
    BY DEF HasPassingChecks
  <2>2. i \in ChecksIn(written, r) /\ Good(written[i])
    BY <1>1, <2>0, <2>1 DEF ChecksOf, ChecksIn, Passed, Good
  <2>3. ASSUME NEW j \in ChecksIn(written, r), i < j PROVE FALSE
    <3>1. i \in Nat /\ j \in Nat /\ i + Window > Len(written) /\ j \in DOMAIN written
      BY <1>1, <2>0, <2>1 DEF ChecksOf, ChecksIn
    <3>2. j + Window > Len(written)
      BY <2>0, <2>3, <3>1
    <3>3. j \in ChecksOf(r)
      BY <1>1, <3>1, <3>2 DEF ChecksOf, ChecksIn
    <3> QED BY <2>1, <2>3, <3>1, <3>3
  <2> QED BY <2>2, <2>3 DEF CheckedSince
<1>7. Command(q)'
  <2>1. Held(q)'
    BY <1>1, <1>2, <1>3, <1>4 DEF Held, Deciding
  <2>2. Found(q)'
    <3>1. mark'[q] <= Len(written') /\ written' = written /\ mark' = mark /\ op' = op
      BY <1>0, <1>2 DEF Command, Found, observed
    <3>2. seen'[q].passing => CheckedSince(written', seen'[q].revision, mark'[q])
      BY <1>4, <1>6, <3>1
    <3> QED BY <1>1, <1>4, <3>1, <3>2 DEF Found
  <2>3. InHand(q)'
    BY <1>2 DEF InHand
  <2>4. q \in still' => Standing(q)'
    <3>1. /\ Dirty' = Dirty /\ head' = head /\ still' = still
          /\ approved' = approved /\ op' = op
      BY <1>2 DEF checkout, observed, Dirty
    <3>2. q \in still => /\ r = head /\ seen[q].dirty = Dirty
                         /\ seen[q].secure => r \in approved
      BY <1>0, <1>1 DEF Command, Held, Standing
    <3> QED BY <1>2, <1>4, <3>1, <3>2 DEF Standing
  <2> QED BY <2>1, <2>2, <2>3, <2>4 DEF Command
<1>8. Reviewed'
  BY <1>0, <1>2 DEF Reviewed, observed
<1> QED BY <1>2, <1>5, <1>7, <1>8, Working DEF observed, counts

LEMMA FindReviewInv ==
  ASSUME IInv, NEW q \in Process, FindReview(q)
  PROVE  IInv'
<1>0. TypeOK /\ Reviewed /\ Command(q)
  BY DEF IInv
<1> DEFINE r == seen[q].revision
<1>1. /\ pc[q] = "review" /\ op[q] = "readiness" /\ seen[q] \in Seen /\ ~seen[q].ok
  BY <1>0 DEF FindReview, Command, Held, Deciding, TypeOK
<1>2. /\ pc'[q] = "decide" /\ seen'[q] = [seen[q] EXCEPT !.secure = Ready(q)]
      /\ UNCHANGED <<checkout, book, review, plan, op, line, observed, counts>>
      /\ \A p \in Process \ {q} :
           pc'[p] = pc[p] /\ seen'[p] = seen[p] /\ at'[p] = at[p]
  BY <1>0 DEF FindReview, Goto, TypeOK
<1>3. Ready(q) \in BOOLEAN
  <2>1. Ready(q) <=> /\ review # None /\ review.ready
                     /\ review.revision = at[q].revision /\ ~at[q].dirty
    BY DEF Ready
  <2> QED BY DEF Ready
<1>4. /\ seen'[q] \in Seen /\ seen'[q] # None /\ seen'[q].secure = Ready(q)
      /\ seen'[q].revision = r /\ seen'[q].dirty = seen[q].dirty
      /\ seen'[q].passing = seen[q].passing /\ seen'[q].ok = seen[q].ok
  <2>2. [seen[q] EXCEPT !.secure = Ready(q)] \in Seen
    BY <1>1, <1>3 DEF Seen
  <2> QED BY <1>1, <1>2, <2>2, NoneAssumption DEF Seen
<1>5. TypeOK'
  <2>1. /\ seen' \in [Process -> Seen \cup {None}]
        /\ at' \in [Process -> State \cup {None}]
        /\ pc' \in [Process -> {"idle", "run", "land", "note", "append", "checks",
                                "review", "decide", "plan"}]
    BY <1>0, <1>2, <1>4 DEF FindReview, Goto, TypeOK
  <2> QED BY <1>0, <1>2, <2>1 DEF TypeOK, checkout, book, observed, counts
<1>6. Command(q)'
  <2>1. Held(q)'
    BY <1>1, <1>2, <1>4 DEF Held, Deciding
  <2>2. Found(q)'
    <3>1. mark'[q] <= Len(written') /\ written' = written /\ mark' = mark /\ op' = op
      BY <1>0, <1>2 DEF Command, Found, observed
    <3>2. seen[q].passing => CheckedSince(written, r, mark[q])
      BY <1>0, <1>1 DEF Command, Held, Found
    <3>3. seen'[q].passing => CheckedSince(written', seen'[q].revision, mark'[q])
      BY <1>4, <3>1, <3>2
    <3> QED BY <1>1, <1>4, <3>1, <3>3 DEF Found
  <2>3. InHand(q)'
    BY <1>2 DEF InHand
  <2>4. q \in still' => Standing(q)'
    <3>1. /\ Dirty' = Dirty /\ head' = head /\ still' = still
          /\ approved' = approved /\ op' = op
      BY <1>2 DEF checkout, observed, Dirty
    <3>2. q \in still => /\ r = head /\ seen[q].dirty = Dirty
                         /\ at[q].revision = head
      BY <1>0, <1>1 DEF Command, Held, Standing
    <3>3. q \in still /\ Ready(q) => r \in approved
      BY <1>0, <3>2 DEF Ready, Reviewed
    <3> QED BY <1>2, <1>4, <3>1, <3>2, <3>3 DEF Standing
  <2> QED BY <2>1, <2>2, <2>3, <2>4 DEF Command
<1>7. Reviewed'
  BY <1>0, <1>2 DEF Reviewed, observed
<1> QED BY <1>2, <1>5, <1>6, <1>7, Working DEF observed, counts

LEMMA DecideInv ==
  ASSUME IInv, NEW q \in Process, NEW fine \in BOOLEAN, Decide(q, fine)
  PROVE  IInv'
<1>0. TypeOK /\ Command(q)
  BY DEF IInv
<1> DEFINE ok == Verdict(q, fine)
           entry == Noted(q, "release-readiness", TRUE, ok)
<1>1. /\ pc[q] = "decide" /\ op[q] = "readiness" /\ seen[q] \in Seen
      /\ seen[q] # None /\ ok \in BOOLEAN
  BY <1>0 DEF Decide, Command, Held, Deciding, TypeOK, Verdict
<1>2. /\ seen'[q] = [seen[q] EXCEPT !.ok = ok]
      /\ \A p \in Process \ {q} : seen'[p] = seen[p]
  BY <1>0 DEF Decide, TypeOK
<1>3. /\ seen'[q] \in Seen /\ seen'[q] # None /\ seen'[q].ok = ok
      /\ seen'[q].revision = seen[q].revision /\ seen'[q].dirty = seen[q].dirty
      /\ seen'[q].passing = seen[q].passing /\ seen'[q].secure = seen[q].secure
  <2>1. [seen[q] EXCEPT !.ok = ok] \in Seen
    BY <1>1 DEF Seen
  <2> QED BY <1>1, <1>2, <2>1, NoneAssumption DEF Seen
<1>4. seen' \in [Process -> Seen \cup {None}]
  BY <1>0, <1>2, <1>3 DEF Decide, TypeOK
<1>5. ok => ~seen[q].dirty /\ seen[q].passing /\ seen[q].secure
  BY DEF Verdict
<1>6. ASSUME q \in still
      PROVE  /\ True(entry, approved)
             /\ entry.ok => CheckedBefore(written, entry.revision, Len(written) + 1)
  <2>1. /\ seen[q].revision = head /\ seen[q].dirty = Dirty
        /\ seen[q].secure => head \in approved
    BY <1>0, <1>1, <1>6 DEF Command, Standing
  <2>2. True(entry, approved)
    BY <1>5, <2>1 DEF Noted, True
  <2>3. ok => CheckedSince(written, head, mark[q])
    BY <1>0, <1>1, <1>5, <2>1 DEF Command, Found
  <2>4. ok => CheckedBefore(written, head, Len(written) + 1)
    BY <1>0, <2>3, SinceBefore DEF TypeOK
  <2> QED BY <2>2, <2>4 DEF Noted
<1>7. Note(q, entry) /\ UNCHANGED <<checkout, book, review, plan, op, at, observed, counts>>
  BY DEF Decide
<1>8. seen'[q].ok => ~seen[q].dirty /\ seen[q].passing /\ seen[q].secure
  BY <1>3, <1>5
<1> QED BY <1>1, <1>2, <1>3, <1>4, <1>6, <1>7, <1>8, Noting DEF Kind

LEMMA WritePlanInv ==
  ASSUME IInv, NEW q \in Process, NEW fine \in BOOLEAN, WritePlan(q, fine)
  PROVE  IInv'
<1>0. TypeOK /\ Reviewed /\ Command(q)
  BY DEF IInv
<1>1. /\ pc[q] = "plan" /\ seen[q] \in Seen /\ seen[q] # None /\ Finish(q)
      /\ plan' = [revision |-> seen[q].revision, ok |-> seen[q].ok /\ fine]
      /\ UNCHANGED <<checkout, book, review, approved, written, counts>>
  BY <1>0 DEF WritePlan, Command, Held, Deciding, TypeOK
<1>2. TypeOK'
  <2>1. plan' \in [revision : Revision, ok : BOOLEAN]
    BY <1>1 DEF Seen
  <2> QED BY <1>0, <1>1, <2>1 DEF TypeOK, Finish, Goto, checkout, book, counts
<1>3. Grown /\ Books' /\ EvidenceIsTrue' /\ Announced'
  BY <1>1, Quiet DEF IInv, book, counts
<1>4. Planned'
  <2>1. seen[q].ok => CheckedSince(written, seen[q].revision, mark[q])
    BY <1>0, <1>1 DEF Command, Found
  <2>2. seen[q].ok => CheckedBefore(written, seen[q].revision, Len(written) + 1)
    BY <1>0, <2>1, SinceBefore DEF TypeOK
  <2> QED BY <1>1, <2>2 DEF Planned
<1>5. Reviewed'
  BY <1>0, <1>1 DEF Reviewed
<1>6. /\ Command(q)' /\ still' \subseteq still \cup {q} /\ UNCHANGED checkout
      /\ \A r \in Process \ {q} :
           /\ pc'[r] = pc[r] /\ op'[r] = op[r] /\ seen'[r] = seen[r]
           /\ at'[r] = at[r] /\ line'[r] = line[r] /\ mark'[r] = mark[r]
  BY <1>0, <1>1, <1>2, Ended
<1> QED BY <1>2, <1>3, <1>4, <1>5, <1>6, Moving

LEMMA MoveInv ==
  ASSUME IInv, NEW h \in Revision, NEW d \in Dirt, Move(h, d)
  PROVE  IInv'
<1>0. TypeOK /\ Reviewed
  BY DEF IInv
<1>1. TypeOK'
  BY <1>0 DEF Move, TypeOK, book, locals
<1>2. Grown /\ Books' /\ EvidenceIsTrue' /\ Announced' /\ Planned'
  BY Quiet DEF IInv, Move, book
<1>3. ASSUME NEW q \in Process PROVE Command(q)'
  BY <1>0, <1>1, <1>2, CommandLasts DEF IInv, Move, locals
<1>4. Reviewed'
  BY <1>0 DEF Move, Reviewed
<1> QED BY <1>1, <1>2, <1>3, <1>4 DEF IInv

LEMMA InvStep == IInv /\ [Next]_vars => IInv'
<1> SUFFICES ASSUME IInv, [Next]_vars PROVE IInv'
  OBVIOUS
<1>1. CASE UNCHANGED vars
  <2>1. /\ TypeOK' /\ Reviewed' /\ TypeOK
    BY <1>1
    DEF IInv, Reviewed, TypeOK, vars, checkout, book, locals, observed, counts
  <2>2. Grown /\ Books' /\ EvidenceIsTrue' /\ Announced' /\ Planned'
    BY <1>1, Quiet DEF IInv, vars, book, observed, counts
  <2>3. ASSUME NEW q \in Process PROVE Command(q)'
    BY <1>1, <2>1, <2>2, CommandLasts DEF IInv, vars, locals, observed
  <2> QED BY <2>1, <2>2, <2>3 DEF IInv
<1>2. CASE Done
  BY <1>1, <1>2 DEF Done
<1> QED
  BY <1>1, <1>2, MoveInv, BeginInv, FailInv, CheckInv, ProbeInv, LandInv,
     NoteReviewInv, AppendInv, FindChecksInv, FindReviewInv, DecideInv, WritePlanInv
  DEF Next

\* Whatever the number of commands, revisions, faults and changes of the
\* checkout, and however few lines are looked at: what is in the ledger, in
\* the plan and in the hands of a command is founded on what was done.
THEOREM Invariant == Spec => []IInv
BY Start, InvStep, PTL DEF Spec

\* The ledger is as long as what was written, but for what was torn, and what
\* each command found is so (append_evidence, read_evidence).
THEOREM Ledger == Spec => []EvidenceInv
<1>1. IInv => EvidenceInv
  BY DEF IInv, Command, Reviewed, TypeOK, EvidenceInv
<1> QED BY <1>1, Invariant, PTL

-----------------------------------------------------------------------------
(* What follows                                                            *)

\* Evidence left by a command that the checkout stood still for is true.
THEOREM Truth == Spec => []EvidenceIsTrue
<1>1. IInv => EvidenceIsTrue
  BY DEF IInv
<1> QED BY <1>1, Invariant, PTL

\* Readiness, the evidence of it and the plan rest on a check that passed.
THEOREM Checked == Spec => []ReadyIsChecked
<1>1. IInv => ReadyIsChecked
  <2> SUFFICES ASSUME IInv PROVE ReadyIsChecked
    OBVIOUS
  <2>1. ASSUME NEW q \in Process, op[q] = "readiness", seen[q].ok
        PROVE  CheckedSince(written, seen[q].revision, mark[q])
    BY <2>1 DEF IInv, Command, Held, Found
  <2> QED BY <2>1 DEF IInv, Announced, Planned, ReadyIsChecked
<1> QED BY <1>1, Invariant, PTL

\* Readiness of a checkout that stood still is of its commit, with a review.
THEOREM ReviewedFirst == Spec => []ReadyIsReviewed
<1>1. IInv => ReadyIsReviewed
  <2> SUFFICES ASSUME IInv, NEW q \in still, op[q] = "readiness", seen[q].ok
               PROVE  seen[q].revision = head /\ ~Dirty /\ seen[q].revision \in approved
    BY DEF ReadyIsReviewed
  <2>1. q \in Process /\ Command(q) /\ seen[q] # None
    BY DEF IInv, TypeOK, Command, Held
  <2>2. Standing(q) /\ ~seen[q].dirty /\ seen[q].secure
    BY <2>1 DEF Command, Found
  <2> QED BY <2>1, <2>2 DEF Standing
<1> QED BY <1>1, Invariant, PTL

\* A write that fails costs its own line and at most the one after it.
THEOREM Losses == Spec => []LossIsBounded
<1>1. IInv => LossIsBounded
  <2> SUFFICES ASSUME IInv PROVE LossIsBounded
    OBVIOUS
  <2>1. /\ Len(ledger) \in Nat /\ Len(written) \in Nat /\ faults \in Nat
        /\ Cardinality(Broken) \in Nat
    BY BrokenFinite DEF IInv, TypeOK
  <2>2. Cardinality(Broken) <= faults
    BY <2>1 DEF IInv, Books
  <2>3. Len(written) <= Len(ledger) + faults
    BY <2>1 DEF IInv, Books
  <2> QED BY <2>2, <2>3 DEF IInv, Books, LossIsBounded
<1> QED BY <1>1, Invariant, PTL

\* A line that has its newline is never changed again.
THEOREM Appended == Spec => AppendOnly
<1> DEFINE Kept == \A i \in DOMAIN ledger : i < Len(ledger) \/ ended =>
                     i \in DOMAIN ledger' /\ ledger'[i] = ledger[i]
<1>1. IInv /\ [Next]_vars => [Kept]_book
  <2> SUFFICES ASSUME IInv, [Next]_vars PROVE Kept \/ UNCHANGED book
    OBVIOUS
  <2>1. CASE \E q \in Process :
               AppendLine(q) \/ \E entry \in {Garbage, line[q]} : Tear(q, entry)
    <3>1. PICK entry : ledger' = Extended(entry)
      BY <2>1 DEF AppendLine, Tear
    <3>2. ledger \in Seq(Entry \cup {Garbage}) /\ DOMAIN ledger = 1 .. Len(ledger)
          /\ Len(ledger) \in Nat
      BY DEF IInv, TypeOK
    <3>3. CASE ended
      BY <3>1, <3>2, <3>3 DEF Extended
    <3>4. CASE ~ended
      BY <3>1, <3>2, <3>4 DEF Extended
    <3> QED BY <3>3, <3>4
  <2>2. CASE ~\E q \in Process :
               AppendLine(q) \/ \E entry \in {Garbage, line[q]} : Tear(q, entry)
    BY <2>2
    DEF Next, Move, Done, Begin, Fail, Check, Probe, Land, NoteReview, FindChecks,
        FindReview, Decide, WritePlan, vars
  <2> QED BY <2>1, <2>2
<1> QED BY <1>1, Invariant, PTL DEF Spec, AppendOnly
=============================================================================
