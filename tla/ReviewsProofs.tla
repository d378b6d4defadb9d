--------------------------- MODULE ReviewsProofs ---------------------------
(***************************************************************************)
(* Proofs about Reviews: the imported reviews implement ReviewLog, and     *)
(* what is answered and written is what the latest of them says.           *)
(***************************************************************************)
EXTENDS Reviews, WellFoundedInduction, TLAPS

-----------------------------------------------------------------------------
(* The newest review                                                       *)

LEMMA Greatest ==
  ASSUME NEW n \in Nat, NEW I, I \subseteq 1 .. n, I # {}
  PROVE  \E i \in I : \A j \in I : j <= i
<1> DEFINE T == {k \in Nat : \E i \in I : k = n - i}
           R == {ss \in Nat \X Nat : ss[1] < ss[2]}
<1>1. IsWellFoundedOn(R, Nat)
  BY NatLessThanWellFounded DEF OpToRel
<1>2. \A i \in I : n - i \in T
  OBVIOUS
<1>3. T \subseteq Nat /\ T # {}
  BY <1>2
<1>4. \E x \in T : \A y \in T : ~ (<<y, x>> \in R)
  <2> HIDE DEF T, R
  <2> QED BY <1>1, <1>3, WFMin
<1>5. PICK x \in T : \A y \in T : ~ (<<y, x>> \in R)
  BY <1>4
<1>6. \A y \in T : ~ (y < x)
  BY <1>5
<1>7. PICK i \in I : x = n - i
  BY <1>5
<1>8. ASSUME NEW j \in I PROVE j <= i
  <2>1. n - j \in T /\ ~ (n - j < x) /\ i \in 1 .. n /\ j \in 1 .. n
    BY <1>2, <1>6, <1>7
  <2> QED BY <1>7, <2>1
<1> QED BY <1>7, <1>8

\* The newest of some reviews by its stamp is the one stored last.
LEMMA NewestIsLast ==
  ASSUME records \in Seq(Stored), Ordered, NEW I, I \subseteq DOMAIN records, I # {}
  PROVE  /\ NewestOf(records, I) \in I
         /\ \A j \in I : j <= NewestOf(records, I)
<1>0. /\ DOMAIN records = 1 .. Len(records) /\ Len(records) \in Nat
      /\ \A i \in DOMAIN records : records[i].stamp \in Nat
  <2>1. \A i \in DOMAIN records : records[i] \in Stored
    OBVIOUS
  <2> QED BY <2>1 DEF Stored
<1>1. PICK i \in I : \A j \in I : j <= i
  BY <1>0, Greatest
<1>2. \A j \in I : records[j].stamp <= records[i].stamp
  <2>1. ASSUME NEW j \in I PROVE records[j].stamp <= records[i].stamp
    <3>1. i \in Nat /\ j \in Nat /\ j <= i /\ i \in DOMAIN records /\ j \in DOMAIN records
      BY <1>0, <1>1
    <3>2. CASE j = i
      BY <1>0, <3>1, <3>2
    <3>3. CASE j < i
      BY <1>0, <3>1, <3>3 DEF Ordered
    <3> QED BY <3>1, <3>2, <3>3
  <2> QED BY <2>1
<1> DEFINE k == NewestOf(records, I)
<1>3. k \in I /\ \A j \in I : records[j].stamp <= records[k].stamp
  BY <1>2 DEF NewestOf
<1> HIDE DEF k
<1>4. k = i
  <2>1. k \in DOMAIN records /\ i \in DOMAIN records /\ k \in Nat /\ i \in Nat /\ k <= i
    BY <1>0, <1>1, <1>3
  <2>2. CASE k < i
    <3>1. records[k].stamp < records[i].stamp
      BY <2>1, <2>2 DEF Ordered
    <3>2. records[i].stamp <= records[k].stamp
      BY <1>3
    <3> QED BY <1>0, <2>1, <3>1, <3>2
  <2> QED BY <2>1, <2>2
<1> QED BY <1>1, <1>3, <1>4 DEF k

LEMMA LatestIsLast ==
  ASSUME records \in Seq(Stored), Ordered, records # <<>>
  PROVE  /\ Newest(records) = Len(records)
         /\ Latest(records) = records[Len(records)].review
         /\ Stamp(records) = records[Len(records)].stamp
<1> DEFINE n == Len(records)
           k == NewestOf(records, DOMAIN records)
<1>1. n \in Nat /\ n # 0 /\ DOMAIN records = 1 .. n
  OBVIOUS
<1>2. DOMAIN records # {}
  BY <1>1
<1>3. k \in DOMAIN records /\ \A j \in DOMAIN records : j <= k
  <2>1. \A I : I \subseteq DOMAIN records /\ I # {} =>
          /\ NewestOf(records, I) \in I
          /\ \A j \in I : j <= NewestOf(records, I)
    BY NewestIsLast
  <2> QED BY <1>2, <2>1
<1> HIDE DEF n, k
<1>4. k = n
  <2>1. n \in 1 .. n /\ k \in 1 .. n
    BY <1>1, <1>3
  <2>2. n <= k
    BY <1>1, <1>3, <2>1
  <2> QED BY <1>1, <2>1, <2>2
<1> USE DEF n, k
<1>5. Newest(records) = Len(records)
  BY <1>4 DEF Newest
<1> QED BY <1>5 DEF Latest, Stamp

LEMMA LatestType ==
  ASSUME records \in Seq(Stored), Ordered
  PROVE  Latest(records) \in Report \cup {None} /\ Stamp(records) \in Nat
<1>1. CASE records = <<>>
  BY <1>1 DEF Latest, Stamp
<1>2. CASE records # <<>>
  <2>1. records[Len(records)] \in Stored
    BY <1>2
  <2> QED BY <1>2, <2>1, LatestIsLast DEF Stored
<1> QED BY <1>1, <1>2

\* A stored review is a report.
LEMMA ReportType ==
  ASSUME NEW review \in Report
  PROVE  /\ review \in Review /\ review # None
         /\ review.revision \in Revision /\ review.findings \subseteq Finding
         /\ review.verdict \in Verdict
BY ReportAssumption, NoneAssumption DEF Review

-----------------------------------------------------------------------------
(* The inductive invariant                                                 *)

\* What holds of one command.
Command(q) ==
  \* Compared, InHand: an import has a report of the commit it saw
  /\ pc[q] \in {"claim", "lock", "store"} =>
       about[q] \in Report /\ about[q].revision = at[q]
  /\ pc[q] = "store" =>
       /\ holder = q
       /\ records # <<>> => Covers(records[Len(records)].review, about[q])
  \* Where the checkout stood still, the command knows it.
  /\ q \in still /\ pc[q] \notin {"lock", "store", "announce"} =>
       tree # Vast /\ at[q] = tree
  /\ pc[q] \in {"lock", "store"} /\ about[q].verdict = "ready" /\ q \in still
     => Ships[about[q].revision] \ Skipped \subseteq about[q].provenance
  /\ pc[q] = "session" => about[q] \in Report /\ about[q].revision = at[q]
  \* Where no review was stored, the status is what it was.
  /\ pc[q] = "dossier" /\ q \in alone =>
       /\ Latest(records) # None
       /\ Latest(records).verdict = "ready" /\ Latest(records).revision = at[q]

IInv ==
  /\ TypeOK /\ Ordered /\ BriefsLookBack /\ FindingsTraced
  /\ \A q \in Process : Command(q)

LEMMA Start == Init => IInv
<1> SUFFICES ASSUME Init PROVE IInv
  OBVIOUS
<1>1. TypeOK
  BY DEF Init, TypeOK, Checkout
<1>2. Ordered /\ BriefsLookBack /\ FindingsTraced
  BY DEF Init, Ordered, BriefsLookBack, FindingsTraced, Log!FindingsTraced
<1>3. ASSUME NEW q \in Process PROVE Command(q)
  BY DEF Init, Command
<1> QED BY <1>1, <1>2, <1>3 DEF IInv

\* One command moves and stores no review: what there is to show is about it.
LEMMA Moving ==
  ASSUME IInv, TypeOK', NEW q \in Process, UNCHANGED <<tree, records>>,
         \A r \in Process \ {q} :
           /\ pc'[r] = pc[r] /\ at'[r] = at[r] /\ about'[r] = about[r]
           /\ holder = r => holder' = r
           /\ (r \in still' => r \in still) /\ (r \in alone' => r \in alone),
         Command(q)', BriefsLookBack'
  PROVE  IInv'
<1>1. ASSUME NEW r \in Process, r # q PROVE Command(r)'
  <2>1. Command(r) /\ r \in Process \ {q}
    BY <1>1 DEF IInv
  <2> QED BY <2>1 DEF Command
<1>2. Ordered' /\ FindingsTraced'
  BY DEF IInv, Ordered, FindingsTraced, Log!FindingsTraced, Log!Drops
<1> QED BY <1>1, <1>2 DEF IInv

Stages == Op \cup {"idle", "ready", "claim", "lock", "store", "announce", "session"}

Answers == Verdict \cup {"none", "ok", "error", "stale", "blocked"}

LEMMA Ended ==
  ASSUME TypeOK, NEW q \in Process, NEW answer \in Answers, Finish(q, answer)
  PROVE  /\ pc'[q] = "idle" /\ q \notin still' /\ outcome' = answer
         /\ \A r \in Process \ {q} :
              /\ pc'[r] = pc[r] /\ at'[r] = at[r] /\ about'[r] = about[r]
              /\ (r \in still' => r \in still) /\ (r \in alone' => r \in alone)
         /\ pc' \in [Process -> Stages] /\ op' \in [Process -> Op \cup {"none"}]
         /\ at' \in [Process -> Checkout] /\ about' \in [Process -> Report \cup {None}]
         /\ outcome' \in Answers /\ still' \subseteq Process /\ alone' \subseteq Process
         /\ calls' \in Nat /\ moves' \in Nat
         /\ Command(q)'
<1>1. /\ pc'[q] = "idle" /\ q \notin still' /\ q \notin alone'
      /\ \A r \in Process \ {q} :
           /\ pc'[r] = pc[r] /\ at'[r] = at[r] /\ about'[r] = about[r]
           /\ (r \in still' => r \in still) /\ (r \in alone' => r \in alone)
  BY DEF TypeOK, Finish, Goto
<1>2. Command(q)'
  BY <1>1 DEF Command
<1> QED BY <1>1, <1>2 DEF TypeOK, Finish, Goto, Stages, Answers, Checkout

LEMMA FailInv ==
  ASSUME IInv, NEW q \in Process, Fail(q)
  PROVE  IInv'
<1>0. TypeOK
  BY DEF IInv
<1>1. /\ Finish(q, "error") /\ UNCHANGED <<tree, files>>
      /\ holder' = IF holder = q THEN Nobody ELSE holder
  BY DEF Fail
<1>2. "error" \in Answers
  BY DEF Answers
<1>3. TypeOK'
  BY <1>0, <1>1, <1>2, Ended DEF TypeOK, files, Stages, Answers
<1>4. BriefsLookBack'
  BY <1>1 DEF IInv, BriefsLookBack, files
<1> QED BY <1>0, <1>1, <1>2, <1>3, <1>4, Ended, Moving DEF files

\* git_state: what a command sees is the checkout, unless it is Vast.
LEMMA ReadTreeInv ==
  ASSUME TypeOK, NEW q \in Process, NEW o \in Op, ReadTree(q, o)
  PROVE  /\ at' \in [Process -> Checkout] /\ pc' \in [Process -> Stages]
         /\ op' \in [Process -> Op \cup {"none"}]
         /\ still' \subseteq Process /\ alone' \subseteq Process
         /\ pc'[q] \in Op \ {"dossier", "draft"}
         /\ q \in still' => tree # Vast /\ at'[q] = tree
         /\ \A r \in Process \ {q} :
              /\ pc'[r] = pc[r] /\ at'[r] = at[r]
              /\ (r \in still' => r \in still) /\ (r \in alone' => r \in alone)
<1>1. PICK shown \in Shown : at' = [at EXCEPT ![q] = shown]
  BY DEF ReadTree
<1>2. shown \in Checkout /\ (tree # Vast => shown = tree)
  BY <1>1 DEF Shown, Checkout, TypeOK
<1>3. (IF o \in {"dossier", "draft"} THEN "status" ELSE o) \in Op \ {"dossier", "draft"}
  BY DEF Op
<1> QED BY <1>1, <1>2, <1>3 DEF ReadTree, Goto, TypeOK, Stages

\* Begin, and Draft, which begins again for the dossier.
LEMMA BeginInv ==
  ASSUME IInv, NEW q \in Process, (\E o \in Op : Begin(q, o)) \/ Draft(q)
  PROVE  IInv'
<1>0. TypeOK /\ Command(q)
  BY DEF IInv
<1>1. PICK o \in Op : ReadTree(q, o)
  BY DEF Begin, Draft, Op
<1>2. /\ UNCHANGED <<tree, files, holder, about, moves>>
      /\ outcome' \in {"none", outcome} /\ calls' \in {calls, calls + 1}
  BY DEF Begin, Draft
<1>3. TypeOK'
  BY <1>0, <1>1, <1>2, ReadTreeInv DEF TypeOK, files, Stages, Op
<1>4. Command(q)'
  <2>1. pc'[q] \notin {"claim", "lock", "store", "session", "dossier"}
    BY <1>0, <1>1, ReadTreeInv DEF Op
  <2>2. q \in still' => tree' # Vast /\ at'[q] = tree'
    BY <1>0, <1>1, <1>2, ReadTreeInv
  <2> QED BY <2>1, <2>2 DEF Command
<1>5. BriefsLookBack'
  BY <1>2 DEF IInv, BriefsLookBack, files
<1>6. UNCHANGED <<tree, records, about, holder>>
  BY <1>2 DEF files
<1>7. \A r \in Process \ {q} :
        /\ pc'[r] = pc[r] /\ at'[r] = at[r]
        /\ (r \in still' => r \in still) /\ (r \in alone' => r \in alone)
  BY <1>0, <1>1, ReadTreeInv
<1> QED BY <1>3, <1>4, <1>5, <1>6, <1>7, Moving

\* An import up to the lock; the inventory is of the commit it saw.
LEMMA ImportInv ==
  ASSUME IInv, NEW q \in Process,
         (\E review \in Report : HandIn(q, review)) \/ CheckClaim(q) \/ Acquire(q)
  PROVE  IInv'
<1>0. TypeOK /\ Ordered /\ Command(q) /\ BriefsLookBack
  BY DEF IInv
<1>1. /\ UNCHANGED <<tree, files, op, at, outcome, observed, calls, moves>>
      /\ pc' \in [Process -> Stages]
      /\ \A r \in Process \ {q} : pc'[r] = pc[r] /\ about'[r] = about[r]
      /\ holder' \in {holder, q} /\ (holder' # holder => holder = Nobody)
      /\ about' \in [Process -> Report \cup {None}]
  BY <1>0 DEF HandIn, CheckClaim, Acquire, Goto, TypeOK, Stages
<1>2. TypeOK'
  BY <1>0, <1>1 DEF TypeOK, files, observed, Stages
<1>3. BriefsLookBack'
  BY <1>0, <1>1 DEF BriefsLookBack, files
<1>4. Command(q)'
  <2>1. CASE \E review \in Report : HandIn(q, review)
    <3>1. PICK review \in Report : HandIn(q, review)
      BY <2>1
    <3>2. /\ pc[q] = "import" /\ pc'[q] = "claim"
          /\ about'[q] = review /\ review.revision = at[q]
      BY <1>0, <3>1 DEF HandIn, Goto, TypeOK
    <3> QED BY <1>0, <1>1, <3>2 DEF Command, observed
  <2>2. CASE CheckClaim(q)
    <3>1. pc[q] = "claim" /\ pc'[q] = "lock" /\ about' = about /\ Claim(about[q])
      BY <1>0, <2>2 DEF CheckClaim, Goto, TypeOK
    <3>2. ASSUME about[q].verdict = "ready", q \in still
          PROVE  Ships[about[q].revision] \ Skipped \subseteq about[q].provenance
      <4>1. about[q] \in Report /\ about[q].revision = tree
        BY <1>0, <3>1, <3>2 DEF Command
      <4>2. Inventory = {Ships[tree] \ Skipped}
        BY <4>1, ReportType DEF Inventory
      <4> QED BY <3>1, <3>2, <4>1, <4>2 DEF Claim
    <3> QED BY <1>0, <1>1, <3>1, <3>2 DEF Command, observed
  <2>3. CASE Acquire(q)
    <3>1. /\ pc[q] = "lock" /\ pc'[q] = "store" /\ about' = about /\ holder' = q
          /\ Covers(Latest(records), about[q])
      BY <1>0, <2>3 DEF Acquire, Goto, TypeOK
    <3>2. records # <<>> => Covers(records[Len(records)].review, about[q])
      BY <1>0, <3>1, LatestIsLast DEF TypeOK
    <3>3. records' = records /\ tree' = tree /\ at' = at /\ still' = still
      BY <1>1 DEF files, observed
    <3> QED BY <1>0, <3>1, <3>2, <3>3 DEF Command
  <2> QED BY <2>1, <2>2, <2>3
<1>5. \A r \in Process \ {q} : holder = r => holder' = r
  BY <1>1, NobodyAssumption
<1> QED BY <1>1, <1>2, <1>3, <1>4, <1>5, Moving DEF files, observed

\* A review that confirms the fixes of the one before it goes on with the
\* trace of every finding.
LEMMA TraceGrows ==
  ASSUME records \in Seq(Stored), FindingsTraced, NEW record \in Stored,
         records' = Append(records, record),
         records # <<>> => Covers(records[Len(records)].review, record.review)
  PROVE  FindingsTraced'
<1> DEFINE n == Len(records)
<1>0. /\ n \in Nat /\ DOMAIN records = 1 .. n /\ DOMAIN records' = 1 .. n + 1
      /\ records'[n + 1] = record /\ \A i \in 1 .. n : records'[i] = records[i]
  OBVIOUS
<1> SUFFICES ASSUME NEW m \in 1 .. n + 1, NEW l \in 1 .. n + 1, m <= l,
                    NEW f \in records'[m].review.findings
             PROVE  \/ f \in records'[l].review.findings
                    \/ \E k \in m + 1 .. l :
                         f \in records'[k].review.confirmed \/ Log!Drops(k, f)'
  BY <1>0 DEF FindingsTraced, Log!FindingsTraced
<1>1. CASE m = l
  BY <1>1
<1>2. CASE l <= n
  <2>1. m \in 1 .. n /\ l \in 1 .. n
    BY <1>0, <1>2
  <2>2. \/ f \in records[l].review.findings
        \/ \E k \in m + 1 .. l :
             f \in records[k].review.confirmed \/ Log!Drops(k, f)
    BY <1>0, <2>1 DEF FindingsTraced, Log!FindingsTraced
  <2>3. ASSUME NEW k \in m + 1 .. l
        PROVE  records'[k] = records[k] /\ (Log!Drops(k, f) => Log!Drops(k, f)')
    <3>1. k \in 1 .. n /\ (k > 1 => k - 1 \in 1 .. n)
      BY <1>0, <2>1
    <3> QED BY <1>0, <3>1 DEF Log!Drops
  <2> QED BY <1>0, <2>1, <2>2, <2>3
<1>3. CASE m <= n /\ l = n + 1
  <2>1. m \in 1 .. n /\ n \in 1 .. n /\ n + 1 > 1 /\ records # <<>>
    BY <1>0, <1>3
  <2>2. \/ f \in records[n].review.findings
        \/ \E k \in m + 1 .. n :
             f \in records[k].review.confirmed \/ Log!Drops(k, f)
    BY <1>0, <1>3, <2>1 DEF FindingsTraced, Log!FindingsTraced
  <2>3. CASE \E k \in m + 1 .. n :
               f \in records[k].review.confirmed \/ Log!Drops(k, f)
    <3>1. PICK k \in m + 1 .. n : f \in records[k].review.confirmed \/ Log!Drops(k, f)
      BY <2>3
    <3>2. k \in 1 .. n /\ k \in m + 1 .. l /\ (k > 1 => k - 1 \in 1 .. n)
      BY <1>0, <1>3, <2>1
    <3>3. records'[k] = records[k] /\ (Log!Drops(k, f) => Log!Drops(k, f)')
      BY <1>0, <3>2 DEF Log!Drops
    <3> QED BY <3>1, <3>2, <3>3
  <2>4. CASE f \in records[n].review.findings /\ f \notin record.review.findings
    <3>1. /\ l \in m + 1 .. l /\ l > 1 /\ l - 1 = n
          /\ records'[l] = record /\ records'[l - 1] = records[n]
      BY <1>0, <1>3, <2>1
    <3>2. \/ record.review.verdict # "ready"
          \/ records[n].review.revision = record.review.revision
          \/ records[n].review = None
          \/ f \in record.review.confirmed
      BY <2>1, <2>4 DEF Covers
    <3>3. records[n].review # None
      <4>1. records[n] \in Stored
        BY <1>0, <2>1
      <4> QED BY <4>1, ReportType DEF Stored
    <3>4. f \in record.review.confirmed \/ Log!Drops(l, f)'
      BY <2>4, <3>1, <3>2, <3>3 DEF Log!Drops
    <3> QED BY <3>1, <3>4
  <2> QED BY <1>0, <1>3, <2>2, <2>3, <2>4
<1> QED BY <1>0, <1>1, <1>2, <1>3

\* NewStamp is later than every stamp there is.
LEMMA StampsGrow ==
  ASSUME records \in Seq(Stored), Ordered, NEW now \in Time
  PROVE  /\ NewStamp(now) \in Nat
         /\ \A i \in DOMAIN records : records[i].stamp < NewStamp(now)
<1> DEFINE n == Len(records)
<1>0. Stamp(records) \in Nat /\ now \in Nat
  BY LatestType, BoundAssumption
<1>1. NewStamp(now) \in Nat /\ Stamp(records) < NewStamp(now)
  BY <1>0 DEF NewStamp
<1>2. ASSUME NEW i \in DOMAIN records PROVE records[i].stamp < NewStamp(now)
  <2>1. /\ i \in 1 .. n /\ n \in 1 .. n /\ n \in DOMAIN records /\ records # <<>>
        /\ records[i] \in Stored /\ records[n] \in Stored
    BY <1>2
  <2>2. records[i].stamp \in Nat /\ records[n].stamp \in Nat
    BY <2>1 DEF Stored
  <2>3. Stamp(records) = records[n].stamp
    BY <2>1, LatestIsLast
  <2>4. CASE i = n
    BY <1>0, <1>1, <2>2, <2>3, <2>4
  <2>5. CASE i < n
    BY <1>0, <1>1, <2>1, <2>2, <2>3, <2>5 DEF Ordered
  <2> QED BY <2>1, <2>4, <2>5
<1> QED BY <1>1, <1>2

\* Only a process with the lock stores a review: no other one compares its
\* report with the last review meanwhile.
LEMMA StoreInv ==
  ASSUME IInv, NEW q \in Process, NEW now \in Time, Store(q, now)
  PROVE  IInv' /\ Log!Next
<1> DEFINE record == [review |-> about[q], stamp |-> NewStamp(now)]
           n == Len(records)
<1>0. /\ TypeOK /\ Ordered /\ Command(q) /\ BriefsLookBack /\ FindingsTraced
      /\ records \in Seq(Stored) /\ n \in Nat
      /\ pc[q] = "store" /\ holder = q /\ about[q] \in Report
  BY DEF IInv, TypeOK, Store, Command
<1>1. /\ records' = Append(records, record) /\ record \in Stored
      /\ record.review = about[q]
      /\ \A i \in DOMAIN records : records[i].stamp < record.stamp
  BY <1>0, StampsGrow DEF Store, Stored
<1>2. /\ records' \in Seq(Stored) /\ DOMAIN records' = 1 .. n + 1
      /\ DOMAIN records = 1 .. n /\ Len(records') = n + 1 /\ records' # <<>>
      /\ records'[n + 1] = record /\ \A i \in 1 .. n : records'[i] = records[i]
  BY <1>0, <1>1
<1>3. /\ pc' = [pc EXCEPT ![q] = "announce"] /\ pc'[q] = "announce"
      /\ \A r \in Process \ {q} : pc'[r] = pc[r]
      /\ UNCHANGED <<tree, briefs, dossiers, remedy, op, at, about, outcome, still,
                     calls, moves>>
      /\ alone' = alone \cap {q} /\ holder' = Nobody
  BY <1>0 DEF Store, Goto, TypeOK
<1>4. TypeOK'
  BY <1>0, <1>2, <1>3 DEF TypeOK, Op
<1>5. Ordered'
  <2>1. ASSUME NEW i \in 1 .. n + 1, NEW j \in 1 .. n + 1, i < j
        PROVE  records'[i].stamp < records'[j].stamp
    <3>1. i \in 1 .. n
      BY <1>0, <2>1
    <3>2. CASE j \in 1 .. n
      BY <1>0, <1>2, <2>1, <3>1, <3>2 DEF Ordered
    <3>3. CASE j = n + 1
      BY <1>1, <1>2, <3>1, <3>3
    <3> QED BY <1>0, <3>2, <3>3
  <2> QED BY <1>2, <2>1 DEF Ordered
<1>6. FindingsTraced'
  BY <1>0, <1>1, TraceGrows DEF Command
<1>7. BriefsLookBack'
  BY <1>0, <1>3 DEF BriefsLookBack
<1>8. ASSUME NEW r \in Process PROVE Command(r)'
  <2>1. CASE r = q
    BY <1>0, <1>3, <2>1 DEF Command
  <2>2. CASE r # q
    <3>1. Command(r) /\ pc'[r] = pc[r] /\ r \notin alone' /\ pc[r] # "store"
      BY <1>0, <1>3, <2>2 DEF IInv, Command
    <3> QED BY <1>3, <3>1 DEF Command
  <2> QED BY <2>1, <2>2
<1>9. Log!Next
  <2>1. record \in Record
    BY <1>1, ReportAssumption DEF Stored, Record
  <2>2. records # <<>> => Covers(records[Len(records)].review, record.review)
    BY <1>0, <1>1 DEF Command
  <2>3. records'[Len(records')] = record
    BY <1>2
  <2> HIDE DEF record
  <2>4. Log!Land(record)
    BY <1>1, <2>1, <2>2
    DEF Log!Land, Log!Record, Record, Log!Review, Review, Log!Verdict, Verdict,
        Log!Covers, Covers
  <2> QED BY <1>2, <2>3, <2>4 DEF Log!Next
<1> QED BY <1>4, <1>5, <1>6, <1>7, <1>8, <1>9 DEF IInv

\* A command that ends may have written a brief, a dossier or a session.
LEMMA EndInv ==
  ASSUME IInv, NEW q \in Process, NEW answer \in Answers, Finish(q, answer),
         UNCHANGED <<tree, records, holder>>, BriefsLookBack',
         briefs' \in [Revision -> Report \cup {None}],
         dossiers' \in [Revision -> Report \cup {None}],
         remedy' \in Remedy \cup {None}
  PROVE  IInv'
<1>0. TypeOK
  BY DEF IInv
<1>1. TypeOK'
  BY <1>0, Ended DEF TypeOK, Stages, Answers
<1> QED BY <1>0, <1>1, Ended, Moving

LEMMA EndsOnly ==
  ASSUME IInv, NEW q \in Process, NEW answer \in Answers, Finish(q, answer),
         UNCHANGED <<tree, files, holder>>
  PROVE  IInv'
<1>1. UNCHANGED <<tree, records, holder, briefs, dossiers, remedy>>
  BY DEF files
<1>2. BriefsLookBack'
  BY <1>1 DEF IInv, BriefsLookBack
<1> QED BY <1>1, <1>2, EndInv DEF IInv, TypeOK

\* The verdict of a report, or what stands for it.
LEMMA DerivedType ==
  ASSUME NEW q \in Process, NEW review \in Report \cup {None}
  PROVE  Derived(q, review) \in Answers
BY ReportType DEF Derived, Answers, Verdict

LEMMA PrepareInv ==
  ASSUME IInv, NEW q \in Process, NEW verify \in BOOLEAN, Prepare(q, verify)
  PROVE  IInv'
<1> DEFINE previous == Latest(records)
<1>0. TypeOK /\ Ordered /\ BriefsLookBack /\ "ok" \in Answers /\ Finish(q, "ok")
  BY DEF IInv, Prepare, Answers
<1>1. previous \in Report \cup {None}
  BY <1>0, LatestType DEF TypeOK
<1>2. UNCHANGED <<tree, records, holder, dossiers, remedy>>
  BY DEF Prepare
<1>3. \/ briefs' = briefs
      \/ /\ previous # None /\ previous.revision # at[q] /\ previous.findings # {}
         /\ briefs' = [briefs EXCEPT ![at[q]] = previous]
  BY DEF Prepare, Briefed
<1> HIDE DEF previous
<1>4. briefs' \in [Revision -> Report \cup {None}]
  BY <1>0, <1>1, <1>3 DEF TypeOK
<1>5. BriefsLookBack'
  <2>1. CASE briefs' = briefs
    BY <1>0, <2>1 DEF BriefsLookBack
  <2>2. CASE briefs' # briefs
    <3>1. ASSUME NEW r \in Revision, briefs'[r] # None
          PROVE  briefs'[r].revision # r /\ briefs'[r].findings # {}
      <4>1. CASE r = at[q]
        BY <1>0, <1>3, <2>2, <4>1 DEF TypeOK
      <4>2. CASE r # at[q]
        BY <1>0, <1>3, <2>2, <3>1, <4>2 DEF TypeOK, BriefsLookBack
      <4> QED BY <4>1, <4>2
    <3> QED BY <3>1 DEF BriefsLookBack
  <2> QED BY <2>1, <2>2
<1> QED BY <1>0, <1>2, <1>4, <1>5, EndInv DEF TypeOK

\* A status ends the command, or finds the latest review ready and of the
\* commit there, which holds until another is stored.
LEMMA StatusInv ==
  ASSUME IInv, NEW q \in Process, Status(q)
  PROVE  IInv'
<1> DEFINE answer == Derived(q, Latest(records))
<1>0. TypeOK /\ Ordered /\ BriefsLookBack /\ Command(q)
  BY DEF IInv
<1>1. Latest(records) \in Report \cup {None}
  BY <1>0, LatestType DEF TypeOK
<1>2. answer \in Answers /\ "error" \in Answers /\ "blocked" \in Answers
  BY <1>1, DerivedType DEF Answers
<1>3. /\ UNCHANGED <<tree, files, holder>> /\ pc[q] = "status"
      /\ Proceed(q, answer)
  BY DEF Status
<1>4. CASE \E a \in Answers : Finish(q, a)
  BY <1>3, <1>4, EndsOnly
<1>5. CASE /\ answer = "ready"
           /\ Goto(q, "ready") \/ Goto(q, "dossier")
           /\ UNCHANGED <<op, at, about, outcome, observed, calls, moves>>
  <2>1. /\ Latest(records) # None /\ Latest(records).verdict = "ready"
        /\ Latest(records).revision = at[q]
    BY <1>5 DEF Derived
  <2>2. /\ pc'[q] \in {"ready", "dossier"} /\ pc' \in [Process -> Stages]
        /\ \A r \in Process \ {q} : pc'[r] = pc[r]
        /\ UNCHANGED <<tree, records, at, about, holder, still, alone>>
    BY <1>0, <1>3, <1>5 DEF TypeOK, Goto, Stages, Op, files, observed
  <2>3. TypeOK'
    BY <1>0, <1>3, <1>5, <2>2 DEF TypeOK, files, observed, Stages
  <2>4. BriefsLookBack'
    BY <1>0, <1>3 DEF BriefsLookBack, files
  <2>5. Command(q)'
    BY <1>0, <1>3, <2>1, <2>2 DEF Command
  <2> QED BY <2>2, <2>3, <2>4, <2>5, Moving
<1>6. \/ \E a \in Answers : Finish(q, a)
      \/ /\ answer = "ready"
         /\ Goto(q, "ready") \/ Goto(q, "dossier")
         /\ UNCHANGED <<op, at, about, outcome, observed, calls, moves>>
  <2> HIDE DEF answer
  <2> QED BY <1>2, <1>3 DEF Proceed
<1> QED BY <1>4, <1>5, <1>6

LEMMA ShowInv ==
  ASSUME IInv, NEW q \in Process, NEW r \in Revision, Show(q, r)
  PROVE  IInv'
<1> DEFINE i == NewestOf(records, Of(r))
<1>0. TypeOK /\ Ordered /\ records \in Seq(Stored)
  BY DEF IInv, TypeOK
<1>1. Of(r) \subseteq DOMAIN records /\ Of(r) # {}
  BY DEF Of, Show
<1>2. i \in DOMAIN records
  <2>1. \A I : I \subseteq DOMAIN records /\ I # {} => NewestOf(records, I) \in I
    BY <1>0, NewestIsLast
  <2> QED BY <1>1, <2>1
<1>3. Finish(q, Derived(q, records[i].review)) /\ UNCHANGED <<tree, files, holder>>
  BY DEF Show
<1> HIDE DEF i
<1>4. records[i].review \in Report
  <2>1. records[i] \in Stored
    BY <1>0, <1>2
  <2> QED BY <2>1 DEF Stored
<1> QED BY <1>3, <1>4, DerivedType, EndsOnly

LEMMA WriteDossierInv ==
  ASSUME IInv, NEW q \in Process, WriteDossier(q)
  PROVE  IInv'
<1> DEFINE review == Latest(records)
<1>0. TypeOK /\ Ordered /\ BriefsLookBack /\ "ok" \in Answers
  BY DEF IInv, Answers
<1>1. /\ Finish(q, "ok") /\ UNCHANGED <<tree, records, briefs, remedy, holder>>
      /\ dossiers' = [dossiers EXCEPT ![review.revision] = review]
  BY DEF WriteDossier
<1>2. review \in Report \cup {None}
  BY <1>0, LatestType DEF TypeOK
<1> HIDE DEF review
<1>3. dossiers' \in [Revision -> Report \cup {None}]
  BY <1>0, <1>1, <1>2 DEF TypeOK
<1>4. BriefsLookBack'
  BY <1>0, <1>1 DEF BriefsLookBack
<1> QED BY <1>0, <1>1, <1>3, <1>4, EndInv DEF TypeOK

LEMMA SelectInv ==
  ASSUME IInv, NEW q \in Process, Select(q)
  PROVE  IInv'
<1> DEFINE review == Latest(records)
<1>0. TypeOK /\ Ordered /\ BriefsLookBack /\ Command(q)
  BY DEF IInv
<1>1. /\ about' = [about EXCEPT ![q] = review] /\ pc' = [pc EXCEPT ![q] = "session"]
      /\ UNCHANGED <<tree, files, holder, op, at, outcome, observed, calls, moves>>
      /\ pc[q] = "remedy" /\ review # None /\ review.revision = at[q]
  BY DEF Select, Goto
<1>2. review \in Report
  BY <1>0, <1>1, LatestType DEF TypeOK
<1> HIDE DEF review
<1>3. TypeOK'
  BY <1>0, <1>1, <1>2 DEF TypeOK, files, observed
<1>4. BriefsLookBack'
  BY <1>0, <1>1 DEF BriefsLookBack, files
<1>5. /\ pc'[q] = "session" /\ about'[q] = review
      /\ \A r \in Process \ {q} : pc'[r] = pc[r] /\ about'[r] = about[r]
      /\ UNCHANGED <<tree, records, at, holder, still, alone>>
  BY <1>0, <1>1 DEF TypeOK, files, observed
<1>6. Command(q)'
  BY <1>0, <1>1, <1>2, <1>5 DEF Command
<1> QED BY <1>3, <1>4, <1>5, <1>6, Moving

LEMMA StartSessionInv ==
  ASSUME IInv, NEW q \in Process, NEW ids \in SUBSET Finding, StartSession(q, ids)
  PROVE  IInv'
<1>0. TypeOK /\ BriefsLookBack /\ Command(q) /\ "ok" \in Answers
  BY DEF IInv, Answers
<1>1. /\ Finish(q, "ok") /\ UNCHANGED <<tree, records, briefs, dossiers, holder>>
      /\ pc[q] = "session" /\ tree # Dirty
  BY DEF StartSession
<1>2. PICK base \in Shown :
        remedy' = [review |-> about[q], base |-> base, selected |-> ids]
  BY DEF StartSession
<1>3. base \in Revision
  BY <1>0, <1>1, <1>2 DEF Shown, TypeOK, Checkout
<1>4. about[q] \in Review
  BY <1>0, <1>1, ReportType DEF Command
<1>5. remedy' \in Remedy
  BY <1>2, <1>3, <1>4 DEF Remedy
<1>6. BriefsLookBack'
  BY <1>0, <1>1 DEF BriefsLookBack
<1> QED BY <1>0, <1>1, <1>5, <1>6, EndInv DEF TypeOK

\* Where the checkout moves, nothing is known of it any more but by the imports
\* that have looked for the last time.
LEMMA MoveInv ==
  ASSUME IInv, NEW t \in Checkout, Move(t)
  PROVE  IInv'
<1>0. TypeOK /\ Ordered /\ BriefsLookBack /\ FindingsTraced
  BY DEF IInv
<1>1. /\ UNCHANGED <<records, briefs, dossiers, remedy, holder, op, pc, at, about,
                     outcome, alone, calls>>
      /\ tree' = t /\ still' = {r \in still : Looked(r)} /\ moves' = moves + 1
  BY DEF Move, files
<1>2. TypeOK'
  BY <1>0, <1>1 DEF TypeOK
<1>3. Ordered' /\ BriefsLookBack' /\ FindingsTraced'
  BY <1>0, <1>1
  DEF Ordered, BriefsLookBack, FindingsTraced, Log!FindingsTraced, Log!Drops
<1>4. ASSUME NEW r \in Process PROVE Command(r)'
  <2>1. r \in still' => r \in still /\ pc'[r] \in {"lock", "store"}
    BY <1>1 DEF Looked
  <2> QED BY <1>1, <2>1 DEF IInv, Command
<1> QED BY <1>2, <1>3, <1>4 DEF IInv

\* A step of a command.
Act(q) ==
  \/ \E o \in Op : Begin(q, o)
  \/ Fail(q)
  \/ \E review \in Report : HandIn(q, review)
  \/ CheckClaim(q) \/ Acquire(q)
  \/ \E now \in Time : Store(q, now)
  \/ Announce(q)
  \/ \E verify \in BOOLEAN : Prepare(q, verify)
  \/ Status(q) \/ Draft(q)
  \/ \E r \in Revision : Show(q, r)
  \/ WriteDossier(q) \/ Select(q)
  \/ \E ids \in SUBSET Finding : StartSession(q, ids)

LEMMA InvStep == IInv /\ [Next]_vars => IInv'
<1> SUFFICES ASSUME IInv, [Next]_vars PROVE IInv'
  OBVIOUS
<1>1. CASE UNCHANGED vars
  <2>1. UNCHANGED <<tree, records, briefs, dossiers, remedy, holder, op, pc, at, about,
                    outcome, still, alone, calls, moves>>
    BY <1>1 DEF vars, files, observed
  <2>2. TypeOK' /\ Ordered' /\ BriefsLookBack' /\ FindingsTraced'
    BY <2>1
    DEF IInv, TypeOK, Ordered, BriefsLookBack, FindingsTraced, Log!FindingsTraced,
        Log!Drops
  <2>3. ASSUME NEW r \in Process PROVE Command(r)'
    BY <2>1 DEF IInv, Command
  <2> QED BY <2>2, <2>3 DEF IInv
<1>2. CASE \E t \in Checkout : Move(t)
  BY <1>2, MoveInv
<1>3. CASE \E q \in Process : Act(q)
  <2>1. PICK q \in Process : Act(q)
    BY <1>3
  <2>2. CASE (\E o \in Op : Begin(q, o)) \/ Draft(q)
    BY <2>2, BeginInv
  <2>3. CASE Fail(q)
    BY <2>3, FailInv
  <2>4. CASE (\E review \in Report : HandIn(q, review)) \/ CheckClaim(q) \/ Acquire(q)
    BY <2>4, ImportInv
  <2>5. CASE \E now \in Time : Store(q, now)
    BY <2>5, StoreInv
  <2>6. CASE Announce(q)
    <3>1. "ok" \in Answers
      BY DEF Answers
    <3> QED BY <2>6, <3>1, EndsOnly DEF Announce
  <2>7. CASE \E verify \in BOOLEAN : Prepare(q, verify)
    BY <2>7, PrepareInv
  <2>8. CASE Status(q)
    BY <2>8, StatusInv
  <2>9. CASE \E r \in Revision : Show(q, r)
    BY <2>9, ShowInv
  <2>10. CASE WriteDossier(q) \/ Select(q)
    BY <2>10, WriteDossierInv, SelectInv
  <2>11. CASE \E ids \in SUBSET Finding : StartSession(q, ids)
    BY <2>11, StartSessionInv
  <2> QED
    BY <2>1, <2>2, <2>3, <2>4, <2>5, <2>6, <2>7, <2>8, <2>9, <2>10, <2>11 DEF Act
<1>4. CASE Done
  BY <1>1, <1>4 DEF Done
<1> QED BY <1>1, <1>2, <1>3, <1>4 DEF Next, Act

\* Everything the commands rely on of one another.
THEOREM Invariant == Spec => []IInv
<1> QED BY Start, InvStep, PTL DEF Spec

\* Stamps order the reviews as they were stored, whatever the clock shows, and
\* an import stores what it compared with the last of them (import_review).
THEOREM Locked == Spec => []ReviewsInv
<1>1. IInv => ReviewsInv
  BY DEF IInv, Command, ReviewsInv, Compared, InHand
<1> QED BY <1>1, Invariant, PTL

-----------------------------------------------------------------------------
(* What the commands promise                                               *)

\* A command goes on by a step of its own.
LEMMA Own ==
  ASSUME IInv, NEW p \in Process, [Next]_vars, pc'[p] # pc[p]
  PROVE  Act(p)
<1>0. pc \in [Process -> Stages]
  BY DEF IInv, TypeOK, Stages
<1>1. pc' # pc
  OBVIOUS
<1>2. PICK q \in Process : Act(q)
  BY <1>1 DEF Next, Act, Move, Done, vars
<1>3. \E l \in Stages : pc' = [pc EXCEPT ![q] = l]
  BY <1>1, <1>2
  DEF Act, Begin, ReadTree, Fail, Finish, HandIn, CheckClaim, Acquire, Store, Announce,
      Prepare, Status, Proceed, Draft, Show, WriteDossier, Select, StartSession, Goto,
      Stages, Op
<1>4. q = p
  BY <1>0, <1>3
<1> QED BY <1>2, <1>4

\* The imported reviews form one growing sequence, stamped in its order, in
\* which a ready review confirms the fixes (import_review, write_review).
THEOREM Implements == Spec => ImplementsLog
<1>1. Init => Log!Init
  BY DEF Init, Log!Init
<1>2. IInv /\ [Next]_vars => [Log!Next]_records
  <2> SUFFICES ASSUME IInv, [Next]_vars, records' # records PROVE Log!Next
    OBVIOUS
  <2>1. PICK q \in Process : Act(q)
    BY DEF Next, Act, Move, Done, vars, files
  <2>2. \E now \in Time : Store(q, now)
    BY <2>1
    DEF Act, Begin, Fail, HandIn, CheckClaim, Acquire, Announce, Prepare, Status, Draft,
        Show, WriteDossier, Select, StartSession, files
  <2> QED BY <2>2, StoreInv
<1>3. ImplementsLog <=> Log!Init /\ [][Log!Next]_records
  BY DEF ImplementsLog, Log!Spec
<1> QED BY <1>1, <1>2, <1>3, Invariant, PTL DEF Spec

\* No finding leaves the record but by a confirmed fix, a review that is not
\* ready, or another review of the commit (validate_fix_coverage).
THEOREM Traced == Spec => []FindingsTraced
<1>1. IInv => FindingsTraced
  BY DEF IInv
<1> QED BY <1>1, Invariant, PTL

\* "Ready" is the word of the review stored last, of the commit the command
\* saw (latest_review, derive_verdict, show).
THEOREM Ready == Spec => ReadyIsLast
<1> DEFINE Last(p) == \E i \in Of(at[p]) :
                        /\ records[i].review.verdict = "ready"
                        /\ \A j \in IF pc[p] = "show" THEN Of(at[p]) ELSE DOMAIN records :
                             j <= i
           A(p) == /\ pc[p] \in {"status", "show"} /\ pc'[p] = "idle" /\ outcome' = "ready"
                   => Last(p)
<1>1. ASSUME IInv, [Next]_vars, NEW p \in Process PROVE A(p)
  <2> SUFFICES ASSUME pc[p] \in {"status", "show"}, pc'[p] = "idle", outcome' = "ready"
               PROVE  Last(p)
    OBVIOUS
  <2>0. TypeOK /\ Ordered /\ records \in Seq(Stored) /\ Act(p)
    BY <1>1, Own DEF IInv, TypeOK
  <2>1. Status(p) \/ \E r \in Revision : Show(p, r)
    BY <2>0
    DEF Act, Begin, Fail, Finish, HandIn, CheckClaim, Acquire, Store, Announce, Prepare,
        Draft, WriteDossier, Select, StartSession
  <2>2. CASE Status(p)
    <3>1. /\ pc[p] = "status"
          /\ Latest(records) # None /\ Latest(records).verdict = "ready"
          /\ Latest(records).revision = at[p]
      <4> DEFINE answer == Derived(p, Latest(records))
      <4>1. pc[p] = "status" /\ Proceed(p, answer)
        BY <2>2 DEF Status
      <4>2. answer = "ready"
        <5> HIDE DEF answer
        <5> QED BY <2>0, <4>1 DEF Proceed, Finish, Goto, TypeOK
      <4> QED BY <4>1, <4>2 DEF Derived
    <3>2. records # <<>> /\ Latest(records) = records[Len(records)].review
      BY <2>0, <3>1, LatestIsLast DEF Latest
    <3>3. /\ Len(records) \in DOMAIN records
          /\ \A j \in DOMAIN records : j <= Len(records)
      BY <2>0, <3>2
    <3>4. Len(records) \in Of(at[p])
      BY <3>1, <3>2, <3>3 DEF Of
    <3> QED BY <3>1, <3>2, <3>3, <3>4
  <2>3. CASE \E r \in Revision : Show(p, r)
    <3>1. PICK r \in Revision : Show(p, r)
      BY <2>3
    <3> DEFINE i == NewestOf(records, Of(r))
    <3>2. Of(r) \subseteq DOMAIN records /\ Of(r) # {}
      BY <3>1 DEF Of, Show
    <3>3. i \in Of(r) /\ \A j \in Of(r) : j <= i
      <4>1. \A I : I \subseteq DOMAIN records /\ I # {} =>
              /\ NewestOf(records, I) \in I
              /\ \A j \in I : j <= NewestOf(records, I)
        BY <2>0, NewestIsLast
      <4> QED BY <3>2, <4>1
    <3>4. pc[p] = "show" /\ Derived(p, records[i].review) = "ready"
      BY <3>1 DEF Show, Finish
    <3> HIDE DEF i
    <3>5. records[i].review.verdict = "ready" /\ at[p] = r
      BY <3>3, <3>4 DEF Derived, Of
    <3> QED BY <3>3, <3>4, <3>5
  <2> QED BY <2>1, <2>2, <2>3
<1>2. IInv /\ [Next]_vars => [\A p \in Process : A(p)]_vars
  BY <1>1
<1>3. ReadyIsLast <=> [][\A p \in Process : A(p)]_vars
  BY DEF ReadyIsLast
<1> QED BY <1>2, <1>3, Invariant, PTL DEF Spec

\* A ready review accounts for the executables of the commit it is of, all but
\* those where the inventory does not look, if the checkout stood still until
\* that was taken (import_review, validate_ready_claim, included_entry).
THEOREM Accounts == Spec => ReadyAccounts
<1> DEFINE A(p) == /\ pc[p] = "store" /\ pc'[p] = "announce" /\ p \in still
                   /\ about[p].verdict = "ready"
                   => Ships[about[p].revision] \ Skipped \subseteq about[p].provenance
<1>1. ASSUME IInv, NEW p \in Process PROVE A(p)
  BY <1>1 DEF IInv, Command
<1>2. IInv /\ [Next]_vars => [\A p \in Process : A(p)]_vars
  BY <1>1
<1>3. ReadyAccounts <=> [][\A p \in Process : A(p)]_vars
  BY DEF ReadyAccounts
<1> QED BY <1>2, <1>3, Invariant, PTL DEF Spec

\* A dossier has a ready review of the commit the status was asked of, where
\* no other was stored in between (write_dossier).
THEOREM Dossiers == Spec => DossierIsReady
<1> DEFINE A(p, r) == /\ pc[p] = "dossier" /\ pc'[p] = "idle" /\ p \in alone
                      /\ dossiers'[r] # dossiers[r]
                      => /\ dossiers'[r].verdict = "ready"
                         /\ r = at[p] /\ dossiers'[r].revision = r
<1>1. ASSUME IInv, [Next]_vars, NEW p \in Process, NEW r \in Revision PROVE A(p, r)
  <2> SUFFICES ASSUME pc[p] = "dossier", pc'[p] = "idle", p \in alone,
                      dossiers'[r] # dossiers[r]
               PROVE  /\ dossiers'[r].verdict = "ready"
                      /\ r = at[p] /\ dossiers'[r].revision = r
    OBVIOUS
  <2> DEFINE review == Latest(records)
  <2>0. TypeOK /\ Command(p) /\ Act(p)
    BY <1>1, Own DEF IInv
  <2>1. WriteDossier(p)
    BY <2>0
    DEF Act, Begin, Fail, HandIn, CheckClaim, Acquire, Store, Announce, Prepare,
        Status, Draft, Show, Select, StartSession, files
  <2>2. dossiers' = [dossiers EXCEPT ![review.revision] = review]
    BY <2>1 DEF WriteDossier
  <2>3. review.verdict = "ready" /\ review.revision = at[p]
    BY <2>0 DEF Command
  <2> HIDE DEF review
  <2>4. r = review.revision /\ dossiers'[r] = review
    BY <2>0, <2>2 DEF TypeOK
  <2> QED BY <2>3, <2>4
<1>2. IInv /\ [Next]_vars => [\A p \in Process, r \in Revision : A(p, r)]_vars
  BY <1>1
<1>3. DossierIsReady <=> [][\A p \in Process, r \in Revision : A(p, r)]_vars
  BY DEF DossierIsReady
<1> QED BY <1>2, <1>3, Invariant, PTL DEF Spec

\* A remediation session starts at the commit its findings are of, where the
\* checkout stood still (start_remediation, start_session).
THEOREM Remedies == Spec => RemedyAtReviewed
<1> DEFINE A(p) == /\ pc[p] = "session" /\ remedy' # remedy /\ pc'[p] = "idle"
                   /\ p \in still
                   => remedy'.base = remedy'.review.revision
<1>1. ASSUME IInv, [Next]_vars, NEW p \in Process PROVE A(p)
  <2> SUFFICES ASSUME pc[p] = "session", remedy' # remedy, pc'[p] = "idle",
                      p \in still
               PROVE  remedy'.base = remedy'.review.revision
    OBVIOUS
  <2>0. Command(p) /\ Act(p)
    BY <1>1, Own DEF IInv
  <2>1. PICK ids \in SUBSET Finding : StartSession(p, ids)
    BY <2>0
    DEF Act, Begin, Fail, HandIn, CheckClaim, Acquire, Store, Announce, Prepare,
        Status, Draft, Show, Select, WriteDossier, files
  <2>2. tree # Vast /\ about[p].revision = tree
    BY <2>0 DEF Command
  <2>3. remedy' = [review |-> about[p], base |-> tree, selected |-> ids]
    BY <2>1, <2>2 DEF StartSession, Shown
  <2> QED BY <2>2, <2>3
<1>2. IInv /\ [Next]_vars => [\A p \in Process : A(p)]_vars
  BY <1>1
<1>3. RemedyAtReviewed <=> [][\A p \in Process : A(p)]_vars
  BY DEF RemedyAtReviewed
<1> QED BY <1>2, <1>3, Invariant, PTL DEF Spec
=============================================================================
