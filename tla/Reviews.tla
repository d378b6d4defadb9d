------------------------------ MODULE Reviews ------------------------------
(***************************************************************************)
(* src/security.rs: briefs, imported reviews, the status derived from them *)
(* and what is made of it: the dossier, the marketplace draft and the      *)
(* remediation sessions of a project.                                      *)
(*                                                                         *)
(* A command reads the Git state of the checkout first and the reviews     *)
(* later.  Only an import takes the workbench lock, when it compares the   *)
(* report with the review before it and stores it.  The developer commits, *)
(* checks out and edits at any time; the system clock shows any time.      *)
(***************************************************************************)
EXTENDS ReviewChain

CONSTANTS
  Process,
  Report,       \* what a reviewer may hand in
  Ships,        \* the executables in each revision
  Skipped,      \* those in target, node_modules, .venv or vendor
  Dirty,        \* a checkout that is not exactly at a commit
  Vast,         \* one with more changes than Git can list in the space it has
  Nobody,       \* who holds a free lock
  Time,         \* what the system clock may show
  MaxReviews,   \* bound: imported reviews
  MaxCalls,     \* bound: commands
  MaxMoves      \* bound: changes of the checkout

ASSUME ReportAssumption == Report \subseteq Review

ASSUME DirtyAssumption == Dirty \notin Revision /\ Vast \notin Revision

ASSUME NobodyAssumption == Nobody \notin Process

ASSUME ShipsAssumption == Ships \in [Revision -> SUBSET Artifact] /\ Skipped \subseteq Artifact

ASSUME BoundAssumption ==
  /\ Time \subseteq Nat
  /\ MaxReviews \in Nat /\ MaxCalls \in Nat /\ MaxMoves \in Nat

VARIABLES
  tree,       \* the revision checked out, or Dirty, or Vast
  records,    \* the imported reviews, in the order they were stored
  briefs,     \* the review embedded in each revision's verification brief
  dossiers,   \* the review in each revision's dossier
  remedy,     \* the last remediation session
  holder,     \* of workbench.lock
  op, pc,
  at,         \* the checkout as the command read it
  about,      \* the review the command has in hand
  outcome,    \* what the last command to end answered, until another begins
  still,      \* observed: the commands whose looks at the checkout all saw it
              \* as it was when they began,
  alone,      \* and those since whose start no review was stored
  calls, moves

files == <<records, briefs, dossiers, remedy>>
observed == <<still, alone>>
vars == <<tree, files, holder, op, pc, at, about, outcome, observed, calls, moves>>

Checkout == Revision \cup {Dirty, Vast}

\* git_state: what Git cannot list counts as no changes to some commit.
Shown == IF tree = Vast THEN Revision ELSE {tree}

Op == {"import", "prepare", "status", "dossier", "draft", "show", "remedy"}

Remedy == [review : Review, base : Revision, selected : SUBSET Finding]

Init ==
  /\ tree \in Revision
  /\ records = <<>>
  /\ briefs = [r \in Revision |-> None]
  /\ dossiers = [r \in Revision |-> None]
  /\ remedy = None
  /\ holder = Nobody
  /\ op = [p \in Process |-> "none"]
  /\ pc = [p \in Process |-> "idle"]
  /\ at = [p \in Process |-> Dirty]
  /\ about = [p \in Process |-> None]
  /\ outcome = "none"
  /\ still = {} /\ alone = {}
  /\ calls = 0 /\ moves = 0

-----------------------------------------------------------------------------
Goto(p, l) == pc' = [pc EXCEPT ![p] = l]

Finish(p, answer) ==
  /\ Goto(p, "idle")
  /\ op' = [op EXCEPT ![p] = "none"]
  /\ at' = [at EXCEPT ![p] = Dirty]
  /\ about' = [about EXCEPT ![p] = None]
  /\ outcome' = answer
  /\ still' = still \ {p} /\ alone' = alone \ {p}
  /\ UNCHANGED <<calls, moves>>

\* load_reviews reads every record or none.
Readable == \A i \in DOMAIN records : ~records[i].review.bulky

\* git_state, or exact_clean_git for those that change something
ReadTree(p, o) ==
  /\ o \in {"import", "prepare", "remedy"} => tree # Dirty
  /\ \E shown \in Shown : at' = [at EXCEPT ![p] = shown]
  /\ still' = IF tree = Vast THEN still \ {p} ELSE still \cup {p}
  /\ alone' = alone \cup {p}
  /\ op' = [op EXCEPT ![p] = o]
  /\ Goto(p, IF o \in {"dossier", "draft"} THEN "status" ELSE o)

Begin(p, o) ==
  /\ pc[p] = "idle" /\ calls < MaxCalls
  /\ calls' = calls + 1
  /\ ReadTree(p, o)
  /\ outcome' = "none"
  /\ UNCHANGED <<tree, files, holder, about, moves>>

\* A command fails where it finds something wrong, or a call fails, or dies.
Fail(p) ==
  /\ pc[p] # "idle"
  /\ Finish(p, "error")
  /\ holder' = IF holder = p THEN Nobody ELSE holder
  /\ UNCHANGED <<tree, files>>

-----------------------------------------------------------------------------
(* import_review                                                           *)

\* The inventory of the checkout as it is by now.  Ignored files are in it too,
\* which only asks for more.
Inventory ==
  IF tree \in Revision THEN {Ships[tree] \ Skipped} ELSE SUBSET (Artifact \ Skipped)

\* Seeded fault: executables are not compared with the inventory.
ClaimBlockers(review) ==
  review.verdict = "ready" => ~review.open

\* validate_ready_claim
Claim(review) ==
  review.verdict = "ready" =>
    /\ ~review.open
    /\ \E found \in Inventory : found \subseteq review.provenance

\* validate_review: the report is of the commit that is checked out.
HandIn(p, review) ==
  /\ pc[p] = "import"
  /\ review.revision = at[p]
  /\ about' = [about EXCEPT ![p] = review]
  /\ Goto(p, "claim")
  /\ UNCHANGED <<tree, files, holder, op, at, outcome, observed, calls, moves>>

CheckClaim(p) ==
  /\ pc[p] = "claim"
  /\ Claim(about[p])
  /\ Goto(p, "lock")
  /\ UNCHANGED <<tree, files, holder, op, at, about, outcome, observed, calls, moves>>

\* Seeded fault: the lock is taken when the record is written.
AcquireShared(p) ==
  /\ pc[p] = "lock"
  /\ Readable
  /\ Covers(Latest(records), about[p])
  /\ holder' = p
  /\ Goto(p, "store")
  /\ UNCHANGED <<tree, files, op, at, about, outcome, observed, calls, moves>>

Acquire(p) ==
  /\ pc[p] = "lock" /\ holder = Nobody
  /\ Readable
  /\ Covers(Latest(records), about[p])
  /\ holder' = p
  /\ Goto(p, "store")
  /\ UNCHANGED <<tree, files, op, at, about, outcome, observed, calls, moves>>

\* Seeded fault: the stamp is what the clock shows.
NowStamp(now) == now

NewStamp(now) ==
  IF now > Stamp(records) + 1 THEN now ELSE Stamp(records) + 1

\* From here on the review counts, whatever becomes of the command; if the
\* call after the rename fails, it fails with the review stored.
Store(p, now) ==
  /\ pc[p] = "store" /\ Len(records) < MaxReviews
  /\ records' = Append(records, [review |-> about[p], stamp |-> NewStamp(now)])
  /\ holder' = Nobody
  /\ alone' = alone \cap {p}
  /\ Goto(p, "announce")
  /\ UNCHANGED <<tree, briefs, dossiers, remedy, op, at, about, outcome, still, calls, moves>>

\* append_evidence
Announce(p) ==
  /\ pc[p] = "announce" /\ holder = Nobody
  /\ Finish(p, "ok")
  /\ UNCHANGED <<tree, files, holder>>

-----------------------------------------------------------------------------
(* prepare, status, show                                                   *)

\* What a verification brief asks about.
Briefed(p, previous) ==
  /\ previous # None
  /\ previous.revision # at[p]
  /\ previous.findings # {}

Prepare(p, verify) ==
  /\ pc[p] = "prepare"
  /\ \/ ~verify /\ UNCHANGED briefs
     \/ /\ verify /\ Readable
        /\ Briefed(p, Latest(records))
        /\ briefs' = [briefs EXCEPT ![at[p]] = Latest(records)]
  /\ Finish(p, "ok")
  /\ UNCHANGED <<tree, records, dossiers, remedy, holder>>

\* Seeded fault: a review is believed wherever the checkout has gone.
Carried(p, review) == IF review = None THEN "incomplete" ELSE review.verdict

\* The verdict of a review, for the checkout as the command read it.
Derived(p, review) ==
  IF review = None THEN "incomplete"
  ELSE IF at[p] = review.revision THEN review.verdict ELSE "stale"

\* Goes on from a status, or ends with it.  A draft may have other blockers.
Proceed(p, answer) ==
  /\ \/ /\ op[p] = "status" \/ answer # "ready"
        /\ Finish(p, IF op[p] = "dossier" THEN "error" ELSE answer)
     \/ /\ op[p] = "draft"
        /\ Finish(p, "blocked")
     \/ /\ op[p] = "draft" /\ answer = "ready"
        /\ Goto(p, "ready")
        /\ UNCHANGED <<op, at, about, outcome, observed, calls, moves>>
     \/ /\ op[p] = "dossier" /\ answer = "ready"
        /\ Goto(p, "dossier")
        /\ UNCHANGED <<op, at, about, outcome, observed, calls, moves>>

Status(p) ==
  /\ pc[p] = "status" /\ Readable
  /\ Proceed(p, Derived(p, Latest(records)))
  /\ UNCHANGED <<tree, files, holder>>

\* A draft without blockers has the dossier written, from the status on.
Draft(p) ==
  /\ pc[p] = "ready"
  /\ ReadTree(p, "dossier")
  /\ UNCHANGED <<tree, files, holder, about, outcome, calls, moves>>

Of(r) == {i \in DOMAIN records : records[i].review.revision = r}

\* show --revision
Show(p, r) ==
  /\ pc[p] = "show" /\ Readable /\ Of(r) # {}
  /\ Finish(p, Derived(p, records[NewestOf(records, Of(r))].review))
  /\ UNCHANGED <<tree, files, holder>>

-----------------------------------------------------------------------------
(* dossier, start_remediation                                              *)

\* The reviews are loaded again.
WriteDossier(p) ==
  LET review == Latest(records) IN
    /\ pc[p] = "dossier" /\ Readable
    /\ dossiers' = [dossiers EXCEPT ![review.revision] = review]
    /\ Finish(p, "ok")
    /\ UNCHANGED <<tree, records, briefs, remedy, holder>>

\* Seeded fault: the latest review may be of another commit.
SelectStale(p) ==
  LET review == Latest(records) IN
    /\ pc[p] = "remedy" /\ Readable
    /\ review # None
    /\ review.findings # {}
    /\ about' = [about EXCEPT ![p] = review]
    /\ Goto(p, "session")
    /\ UNCHANGED <<tree, files, holder, op, at, outcome, observed, calls, moves>>

Select(p) ==
  LET review == Latest(records) IN
    /\ pc[p] = "remedy" /\ Readable
    /\ review # None
    /\ review.revision = at[p] /\ review.findings # {}
    /\ about' = [about EXCEPT ![p] = review]
    /\ Goto(p, "session")
    /\ UNCHANGED <<tree, files, holder, op, at, outcome, observed, calls, moves>>

\* start_session looks at the checkout again and branches from its HEAD.
StartSession(p, ids) ==
  /\ pc[p] = "session" /\ tree # Dirty /\ holder = Nobody
  /\ ids # {} /\ ids \subseteq about[p].findings
  /\ \E base \in Shown :
       remedy' = [review |-> about[p], base |-> base, selected |-> ids]
  /\ Finish(p, "ok")
  /\ UNCHANGED <<tree, records, briefs, dossiers, holder>>

-----------------------------------------------------------------------------
(* The developer                                                           *)

\* An import compares the report with the inventory in its last look.
Looked(p) == pc[p] \in {"lock", "store"}

Move(t) ==
  /\ moves < MaxMoves /\ moves' = moves + 1
  /\ t # tree
  /\ tree' = t
  /\ still' = {p \in still : Looked(p)}
  /\ UNCHANGED <<files, holder, op, pc, at, about, outcome, alone, calls>>

Done ==
  /\ calls = MaxCalls /\ \A p \in Process : pc[p] = "idle"
  /\ UNCHANGED vars

Next ==
  \/ \E t \in Checkout : Move(t)
  \/ Done
  \/ \E p \in Process :
       \/ \E o \in Op : Begin(p, o)
       \/ Fail(p)
       \/ \E review \in Report : HandIn(p, review)
       \/ CheckClaim(p) \/ Acquire(p)
       \/ \E now \in Time : Store(p, now)
       \/ Announce(p)
       \/ \E verify \in BOOLEAN : Prepare(p, verify)
       \/ Status(p) \/ Draft(p)
       \/ \E r \in Revision : Show(p, r)
       \/ WriteDossier(p) \/ Select(p)
       \/ \E ids \in SUBSET Finding : StartSession(p, ids)

Spec == Init /\ [][Next]_vars

-----------------------------------------------------------------------------
(* Properties                                                              *)

Stored == [review : Report, stamp : Nat]

TypeOK ==
  /\ tree \in Checkout
  /\ records \in Seq(Stored)
  /\ briefs \in [Revision -> Report \cup {None}]
  /\ dossiers \in [Revision -> Report \cup {None}]
  /\ remedy \in Remedy \cup {None}
  /\ holder \in Process \cup {Nobody}
  /\ op \in [Process -> Op \cup {"none"}]
  /\ pc \in [Process -> Op \cup {"idle", "ready", "claim", "lock", "store",
                                "announce", "session"}]
  /\ at \in [Process -> Checkout]
  /\ about \in [Process -> Report \cup {None}]
  /\ outcome \in Verdict \cup {"none", "ok", "error", "stale", "blocked"}
  /\ still \subseteq Process /\ alone \subseteq Process
  /\ calls \in Nat /\ moves \in Nat

\* Stamps order the records as they were stored, even if the clock goes back.
Ordered ==
  \A i, j \in DOMAIN records : i < j => records[i].stamp < records[j].stamp

\* An import stores what it compared with the review that is still the last.
Compared ==
  \A p \in Process : pc[p] = "store" =>
    /\ holder = p
    /\ records # <<>> => Covers(records[Len(records)].review, about[p])

\* A verification brief asks about findings made at another commit.
BriefsLookBack ==
  \A r \in Revision : briefs[r] # None =>
    briefs[r].revision # r /\ briefs[r].findings # {}

\* An import has a report in hand.
InHand ==
  \A p \in Process :
    pc[p] \in {"claim", "lock", "store"} => about[p] \in Report

ReviewsInv == TypeOK /\ Ordered /\ Compared /\ InHand /\ BriefsLookBack

Log == INSTANCE ReviewLog WITH log <- records

\* The imported reviews form one growing sequence in which a ready review
\* confirms the fix of what its predecessor found (import_review under the lock).
ImplementsLog == Log!Spec

\* No finding vanishes from the record but by a confirmed fix, by a review
\* that is not ready, or by reviewing the same commit once more: what
\* validate_fix_coverage, which looks one review back, amounts to over a chain.
FindingsTraced == Log!FindingsTraced

\* "Ready" is answered only of the commit that was checked out, by the review
\* of it stored last, whatever the clock showed (latest_review, status, show).
ReadyIsLast ==
  [][\A p \in Process :
       /\ pc[p] \in {"status", "show"} /\ pc'[p] = "idle" /\ outcome' = "ready"
       => \E i \in Of(at[p]) :
            /\ records[i].review.verdict = "ready"
            /\ \A j \in IF pc[p] = "show" THEN Of(at[p]) ELSE DOMAIN records :
                 j <= i]_vars

\* A ready review that is stored "must account for every detected executable
\* artifact" of the commit it is of: for those outside the directories that the
\* inventory passes over, wherever the checkout has gone since.  Excepted is an
\* import that took the inventory of another state of the checkout than it read
\* the commit of, or that read a checkout with more changes than Git could list.
ReadyAccounts ==
  [][\A p \in Process :
       /\ pc[p] = "store" /\ pc'[p] = "announce" /\ p \in still
       /\ about[p].verdict = "ready"
       => Ships[about[p].revision] \ Skipped \subseteq about[p].provenance]_vars

\* A dossier has a ready review of the commit that was checked out, unless
\* an import stored another between the status and the second loading.
DossierIsReady ==
  [][\A p \in Process, r \in Revision :
       /\ pc[p] = "dossier" /\ pc'[p] = "idle" /\ p \in alone
       /\ dossiers'[r] # dossiers[r]
       => /\ dossiers'[r].verdict = "ready"
          /\ r = at[p] /\ dossiers'[r].revision = r]_vars

\* A remediation session starts at the commit whose findings it is about,
\* unless the checkout moved after start_remediation had looked at it, or had
\* more changes then than Git could list.
RemedyAtReviewed ==
  [][\A p \in Process :
       /\ pc[p] = "session" /\ remedy' # remedy /\ pc'[p] = "idle"
       /\ p \in still
       => remedy'.base = remedy'.review.revision]_vars

\* "Review evidence remains inspectable": what was imported can be loaded.
HistoryReadable == Readable
=============================================================================
