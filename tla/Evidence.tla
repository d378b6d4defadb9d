------------------------------ MODULE Evidence ------------------------------
(***************************************************************************)
(* src/coordination.rs and src/workbench.rs: a project's evidence ledger,  *)
(* the commands that append to it, and release readiness, which reads it.  *)
(*                                                                         *)
(* A command does its work, asks Git for the revision and then appends one *)
(* line under the workbench lock.  The ledger is read without the lock,    *)
(* whole or not at all.  The developer commits, checks out and edits at    *)
(* any time.  A death in an append leaves a part of its line, to which the *)
(* next append adds its own.                                               *)
(*                                                                         *)
(* Reviews says what an imported review is; here only the latest counts.   *)
(***************************************************************************)
EXTENDS Naturals, Sequences, FiniteSets

CONSTANTS
  Process,
  Revision,
  Passes,       \* the revisions that pass all checks of the project
  PassesOne,    \* those that pass a check selected by name
  None,         \* no review, no line, no plan
  Garbage,      \* a line that does not parse
  Window,       \* how many of the newest lines are looked at
  MaxLines,     \* how many the ledger may hold
  MaxFaults,    \* bound: deaths while a line is written
  MaxCalls,     \* bound: commands
  MaxMoves      \* bound: changes of the checkout

ASSUME PassesAssumption == Passes \subseteq Revision /\ PassesOne \subseteq Revision

ASSUME BoundAssumption ==
  /\ Window \in Nat \ {0} /\ MaxLines \in Nat
  /\ MaxFaults \in Nat /\ MaxCalls \in Nat /\ MaxMoves \in Nat

VARIABLES
  head, dirt,   \* the checkout: its commit, and how much differs from it
  ledger,
  ended,        \* whether the last line of the ledger has its newline
  review,       \* the latest imported review
  plan,         \* the release plan file
  op, pc,
  seen,         \* what release_readiness has found so far
  at,           \* the checkout as security::status read it
  line,         \* the record to append
  still,        \* the commands during which the checkout has stood still,
  mark,         \* how much had been written when each began,
  approved,     \* the revisions that ever had a ready review,
  written,      \* and what was appended, line by line (observed only)
  faults, calls, moves

checkout == <<head, dirt>>
book == <<ledger, ended>>
locals == <<op, seen, at, line>>
observed == <<still, mark, approved, written>>
counts == <<faults, calls, moves>>
vars == <<checkout, book, review, plan, pc, locals, observed, counts>>

Dirt == {"none", "some", "vast"}

\* git_state: when Git's list of the changes is beyond what the runner keeps
\* (or Git fails), there are none.
Dirty == dirt = "some"

\* The kinds of evidence; a probe is a workflow or a look at the environment.
Kind == {"check", "probe", "security-review", "release-readiness"}

Op == {"check", "probe", "security-review", "readiness"}

\* Of a check, whole tells that all were run; sound is observed only.
Entry == [kind : Kind, whole : BOOLEAN, ok : BOOLEAN,
          revision : Revision, dirty : BOOLEAN, sound : BOOLEAN]

Seen == [revision : Revision, dirty : BOOLEAN,
         passing : BOOLEAN, secure : BOOLEAN, ok : BOOLEAN]

State == [revision : Revision, dirty : BOOLEAN]

ASSUME NoneAssumption ==
  /\ None \notin Entry /\ Garbage \notin Entry
  /\ None \notin Seen /\ None \notin State
  /\ None \notin [revision : Revision, ready : BOOLEAN]
  /\ None \notin [revision : Revision, ok : BOOLEAN]

Unread == [revision |-> head, dirty |-> Dirty,
           passing |-> FALSE, secure |-> FALSE, ok |-> FALSE]

\* A review may have been imported before.
Init ==
  /\ head \in Revision /\ dirt = "none"
  /\ ledger = <<>> /\ ended = TRUE
  /\ review \in {None, [revision |-> head, ready |-> TRUE]} /\ plan = None
  /\ op = [p \in Process |-> "none"]
  /\ pc = [p \in Process |-> "idle"]
  /\ seen = [p \in Process |-> None]
  /\ at = [p \in Process |-> None]
  /\ line = [p \in Process |-> None]
  /\ still = {} /\ mark = [p \in Process |-> 0]
  /\ approved = (IF review = None THEN {} ELSE {head}) /\ written = <<>>
  /\ faults = 0 /\ calls = 0 /\ moves = 0

-----------------------------------------------------------------------------
Goto(p, l) == pc' = [pc EXCEPT ![p] = l]

Finish(p) ==
  /\ Goto(p, "idle")
  /\ op' = [op EXCEPT ![p] = "none"]
  /\ seen' = [seen EXCEPT ![p] = None]
  /\ at' = [at EXCEPT ![p] = None]
  /\ line' = [line EXCEPT ![p] = None]
  /\ still' = still \ {p}
  /\ mark' = [mark EXCEPT ![p] = 0]

\* A command fails where a call it makes fails, or dies.
Fail(p) ==
  /\ pc[p] # "idle"
  /\ Finish(p)
  /\ UNCHANGED <<checkout, book, review, plan, approved, written, counts>>

\* An import and release_readiness read the checkout at once.
Begin(p, o) ==
  /\ pc[p] = "idle" /\ calls < MaxCalls
  /\ calls' = calls + 1
  /\ o = "security-review" => ~Dirty
  /\ op' = [op EXCEPT ![p] = o]
  /\ seen' = [seen EXCEPT ![p] = IF o \in {"check", "probe"} THEN None ELSE Unread]
  /\ still' = still \cup {p}
  /\ mark' = [mark EXCEPT ![p] = IF o = "readiness" THEN Len(written) ELSE 0]
  /\ Goto(p, CASE o = "readiness" -> "checks"
               [] o = "security-review" -> "land"
               [] OTHER -> "run")
  /\ UNCHANGED <<checkout, book, review, plan, at, line,
                 approved, written, faults, moves>>

-----------------------------------------------------------------------------
(* Commands that append what they found                                    *)

\* evidence_record, with the checkout as it is by now
Noted(p, kind, whole, ok) ==
  [kind |-> kind, whole |-> whole, ok |-> ok,
   revision |-> head, dirty |-> Dirty, sound |-> p \in still /\ dirt # "vast"]

Note(p, entry) == line' = [line EXCEPT ![p] = entry] /\ Goto(p, "append")

\* What checks find where nobody disturbs them.
Finds(whole, ok) == ok <=> head \in IF whole THEN Passes ELSE PassesOne

\* Seeded fault: the record does not say that there were changes.
CheckAsClean(p, whole, ok) ==
  /\ pc[p] = "run" /\ op[p] = "check"
  /\ p \in still /\ dirt = "none" => Finds(whole, ok)
  /\ Note(p, [Noted(p, "check", whole, ok) EXCEPT !.dirty = FALSE])
  /\ UNCHANGED <<checkout, book, review, plan, op, seen, at, observed, counts>>

\* run_project_checks
Check(p, whole, ok) ==
  /\ pc[p] = "run" /\ op[p] = "check"
  /\ p \in still /\ dirt = "none" => Finds(whole, ok)
  /\ Note(p, Noted(p, "check", whole, ok))
  /\ UNCHANGED <<checkout, book, review, plan, op, seen, at, observed, counts>>

\* run_workflow, inspect_environment; nobody asks what they found.
Probe(p) ==
  /\ pc[p] = "run" /\ op[p] = "probe"
  /\ Note(p, Noted(p, "probe", TRUE, TRUE))
  /\ UNCHANGED <<checkout, book, review, plan, op, seen, at, observed, counts>>

\* import_review stores the review, of the commit it began at.
Land(p, ready) ==
  /\ pc[p] = "land"
  /\ review' = [revision |-> seen[p].revision, ready |-> ready]
  /\ seen' = [seen EXCEPT ![p].secure = ready]
  /\ approved' = IF ready THEN approved \cup {seen[p].revision} ELSE approved
  /\ Goto(p, "note")
  /\ UNCHANGED <<checkout, book, plan, op, at, line, still, mark, written, counts>>

\* The record has the verdict of the review that was stored.
NoteReview(p) ==
  /\ pc[p] = "note"
  /\ Note(p, Noted(p, "security-review", TRUE, seen[p].secure))
  /\ UNCHANGED <<checkout, book, review, plan, op, seen, at, observed, counts>>

\* The ledger with an entry at its end: a line of its own, or glued to what a
\* death has left.
Extended(entry) ==
  IF ended THEN Append(ledger, entry) ELSE [ledger EXCEPT ![Len(ledger)] = Garbage]

\* Seeded fault: the newline is forgotten.
AppendUnended(p) ==
  /\ pc[p] = "append" /\ Len(ledger) < MaxLines
  /\ ledger' = Extended(line[p])
  /\ ended' = FALSE
  /\ written' = Append(written, line[p])
  /\ \/ Finish(p)
     \/ /\ op[p] = "readiness"
        /\ Goto(p, "plan")
        /\ UNCHANGED <<locals, still, mark>>
  /\ UNCHANGED <<checkout, review, plan, approved, counts>>

\* append_evidence; if only the sync fails the line is there all the same.
\* After release_readiness, release_plan may go on.
AppendLine(p) ==
  /\ pc[p] = "append" /\ Len(ledger) < MaxLines
  /\ ledger' = Extended(line[p])
  /\ ended' = TRUE
  /\ written' = Append(written, line[p])
  /\ \/ Finish(p)
     \/ /\ op[p] = "readiness"
        /\ Goto(p, "plan")
        /\ UNCHANGED <<locals, still, mark>>
  /\ UNCHANGED <<checkout, review, plan, approved, counts>>

\* A write_all that fails or is cut short: some of the line is there, or all
\* but its newline.
Tear(p, entry) ==
  /\ pc[p] = "append" /\ Len(ledger) < MaxLines
  /\ faults < MaxFaults /\ faults' = faults + 1
  /\ entry \in {Garbage, line[p]}
  /\ ledger' = Extended(entry)
  /\ ended' = FALSE
  /\ written' = Append(written, entry)
  /\ Finish(p)
  /\ UNCHANGED <<checkout, review, plan, approved, calls, moves>>

-----------------------------------------------------------------------------
(* release_readiness and release_plan                                      *)

Readable == \A i \in DOMAIN ledger : ledger[i] # Garbage

ChecksOf(r) ==
  {i \in DOMAIN ledger : /\ i + Window > Len(ledger)
                         /\ ledger[i].kind = "check" /\ ledger[i].revision = r}

Passed(i) == ledger[i].ok /\ ~ledger[i].dirty

\* Seeded fault: any passing check will do.
AnyPassingCheck(r) == \E i \in ChecksOf(r) : Passed(i)

HasPassingChecks(r) ==
  \E i \in ChecksOf(r) : Passed(i) /\ \A j \in ChecksOf(r) : j <= i

\* has_passing_checks; then security::status asks for the checkout again.
FindChecks(p) ==
  /\ pc[p] = "checks" /\ Readable
  /\ seen' = [seen EXCEPT ![p].passing = HasPassingChecks(seen[p].revision)]
  /\ at' = [at EXCEPT ![p] = [revision |-> head, dirty |-> Dirty]]
  /\ Goto(p, "review")
  /\ UNCHANGED <<checkout, book, review, plan, op, line, observed, counts>>

\* Seeded fault: the latest review is believed for any commit.
ReadyAnywhere(p) == review # None /\ review.ready

Ready(p) ==
  /\ review # None /\ review.ready
  /\ review.revision = at[p].revision /\ ~at[p].dirty

FindReview(p) ==
  /\ pc[p] = "review"
  /\ seen' = [seen EXCEPT ![p].secure = Ready(p)]
  /\ at' = [at EXCEPT ![p] = None]
  /\ Goto(p, "decide")
  /\ UNCHANGED <<checkout, book, review, plan, op, line, observed, counts>>

\* The changelog names the version and no session is active, or not (fine).
Verdict(p, fine) ==
  ~seen[p].dirty /\ seen[p].passing /\ seen[p].secure /\ fine

Decide(p, fine) ==
  /\ pc[p] = "decide"
  /\ seen' = [seen EXCEPT ![p].ok = Verdict(p, fine)]
  /\ Note(p, Noted(p, "release-readiness", TRUE, Verdict(p, fine)))
  /\ UNCHANGED <<checkout, book, review, plan, op, at, observed, counts>>

\* The tag may exist, and the origin be no GitHub repository (not fine).
WritePlan(p, fine) ==
  /\ pc[p] = "plan"
  /\ plan' = [revision |-> seen[p].revision, ok |-> seen[p].ok /\ fine]
  /\ Finish(p)
  /\ UNCHANGED <<checkout, book, review, approved, written, counts>>

-----------------------------------------------------------------------------
(* The developer                                                           *)

Move(h, d) ==
  /\ moves < MaxMoves /\ moves' = moves + 1
  /\ <<h, d>> # checkout
  /\ head' = h /\ dirt' = d
  /\ still' = {}
  /\ UNCHANGED <<book, review, plan, pc, locals, mark, approved, written,
                 faults, calls>>

Done ==
  /\ calls = MaxCalls /\ \A p \in Process : pc[p] = "idle"
  /\ UNCHANGED vars

Next ==
  \/ \E h \in Revision, d \in Dirt : Move(h, d)
  \/ Done
  \/ \E p \in Process :
       \/ \E o \in Op : Begin(p, o)
       \/ Fail(p)
       \/ \E whole, ok \in BOOLEAN : Check(p, whole, ok)
       \/ Probe(p)
       \/ \E ready \in BOOLEAN : Land(p, ready)
       \/ NoteReview(p)
       \/ AppendLine(p)
       \/ \E entry \in {Garbage, line[p]} : Tear(p, entry)
       \/ FindChecks(p) \/ FindReview(p)
       \/ \E fine \in BOOLEAN : Decide(p, fine) \/ WritePlan(p, fine)

Spec == Init /\ [][Next]_vars

-----------------------------------------------------------------------------
(* Properties                                                              *)

TypeOK ==
  /\ head \in Revision /\ dirt \in Dirt
  /\ ledger \in Seq(Entry \cup {Garbage}) /\ ended \in BOOLEAN
  /\ review \in [revision : Revision, ready : BOOLEAN] \cup {None}
  /\ plan \in [revision : Revision, ok : BOOLEAN] \cup {None}
  /\ op \in [Process -> Op \cup {"none"}]
  /\ pc \in [Process -> {"idle", "run", "land", "note", "append", "checks",
                         "review", "decide", "plan"}]
  /\ seen \in [Process -> Seen \cup {None}]
  /\ at \in [Process -> State \cup {None}]
  /\ line \in [Process -> Entry \cup {None}]
  /\ still \subseteq Process
  /\ mark \in [Process -> Nat]
  /\ approved \subseteq Revision
  /\ written \in Seq(Entry \cup {Garbage})
  /\ faults \in Nat /\ calls \in Nat /\ moves \in Nat

ChecksIn(lines, r) ==
  {i \in DOMAIN lines : /\ lines[i] # Garbage
                        /\ lines[i].kind = "check" /\ lines[i].revision = r}

Good(entry) == entry.ok /\ ~entry.dirty

\* A passing check of r is before position n.
CheckedBefore(lines, r, n) == \E i \in ChecksIn(lines, r) : i < n /\ Good(lines[i])

\* There is a passing check of r, and after it, up to position m, no check of
\* r that did not pass.
CheckedSince(lines, r, m) ==
  \E i \in ChecksIn(lines, r) :
    /\ Good(lines[i])
    /\ \A j \in ChecksIn(lines, r) : i < j /\ j <= m => Good(lines[j])

\* What a record says is so, where these revisions have had a ready review.
True(entry, reviewed) ==
  /\ entry.kind = "check" /\ ~entry.dirty
     => (entry.ok <=> entry.revision \in IF entry.whole THEN Passes ELSE PassesOne)
  /\ entry.kind \in {"security-review", "release-readiness"} /\ entry.ok
     => entry.revision \in reviewed /\ ~entry.dirty

\* Where the checkout stood still during a command, the evidence it left is
\* true of the revision it names: the checks pass there or do not, a ready
\* review of it was imported (evidence_record after the work).
EvidenceIsTrue ==
  \A i \in DOMAIN written :
    written[i] # Garbage /\ written[i].sound => True(written[i], approved)

\* A release is called ready only of a revision whose newest check, as of
\* when the command began, had passed on a clean checkout; a plan for it and
\* evidence of its readiness come after such a check (has_passing_checks).
ReadyIsChecked ==
  /\ \A p \in Process : op[p] = "readiness" /\ seen[p].ok =>
       CheckedSince(written, seen[p].revision, mark[p])
  /\ \A i \in DOMAIN written :
       /\ written[i] # Garbage /\ written[i].sound
       /\ written[i].kind = "release-readiness" /\ written[i].ok
       => CheckedBefore(written, written[i].revision, i)
  /\ plan # None /\ plan.ok => CheckedBefore(written, plan.revision, Len(written) + 1)

\* And only of the commit that is checked out, with a ready review of it,
\* unless the checkout moved during the command (security::status).
ReadyIsReviewed ==
  \A p \in still : op[p] = "readiness" /\ seen[p].ok =>
    /\ seen[p].revision = head /\ ~Dirty
    /\ seen[p].revision \in approved

Broken == {i \in DOMAIN ledger : ledger[i] = Garbage}

\* A write that fails costs its own line and at most the one after it; if the
\* ledger can be read it has all that was ever written (append_evidence).
LossIsBounded ==
  /\ Cardinality(Broken) <= faults
  /\ Len(written) <= Len(ledger) + faults
  /\ Readable => ledger = written

\* How much the ledger may be short of, and how many lines are broken: one
\* more of each where the next line will be glued to the last.
Books ==
  /\ ledger = <<>> => ended
  /\ Cardinality(Broken)
     + (IF ~ended /\ ledger[Len(ledger)] # Garbage THEN 1 ELSE 0) <= faults
  /\ Len(written) + (IF ended THEN 0 ELSE 1) <= Len(ledger) + faults
  /\ Len(ledger) <= Len(written)
  /\ Readable => ledger = written

Deciding == {"checks", "review", "decide", "plan"}

\* What a command holds at each point.
Held(p) ==
  /\ pc[p] = "run" => op[p] \in {"check", "probe"}
  /\ pc[p] \in {"land", "note"} => op[p] = "security-review" /\ ~seen[p].dirty
  /\ pc[p] \in Deciding => op[p] = "readiness"
  /\ op[p] \in {"security-review", "readiness"} => seen[p] # None
  /\ pc[p] = "append" => line[p] # None
  /\ pc[p] = "review" => at[p] # None
  /\ seen[p] # None =>
       /\ op[p] \in {"security-review", "readiness"}
       /\ seen[p].ok => pc[p] \in {"append", "plan"}

\* What is still so for a command during which the checkout stood still.
Standing(p) ==
  /\ seen[p] # None => seen[p].revision = head /\ seen[p].dirty = Dirty
  /\ pc[p] = "review" => at[p] = [revision |-> head, dirty |-> Dirty]
  /\ op[p] = "readiness" /\ seen[p].secure => seen[p].revision \in approved

\* What a command found it found in the ledger and in the reviews.
Found(p) ==
  /\ mark[p] <= Len(written)
  /\ seen[p] # None =>
       /\ op[p] = "security-review" /\ seen[p].secure
          => seen[p].revision \in approved
       /\ seen[p].passing => CheckedSince(written, seen[p].revision, mark[p])
       /\ seen[p].ok => /\ ~seen[p].dirty /\ seen[p].passing /\ seen[p].secure
                        /\ op[p] = "readiness"

\* What a command is about to append.
InHand(p) ==
  pc[p] = "append" /\ line[p].sound =>
    /\ True(line[p], approved)
    /\ line[p].kind = "release-readiness" /\ line[p].ok
       => CheckedBefore(written, line[p].revision, Len(written) + 1)

EvidenceInv ==
  /\ TypeOK /\ Books
  /\ \A p \in Process : Held(p) /\ Found(p) /\ InHand(p)
  /\ \A p \in still : Standing(p)
  /\ review # None /\ review.ready => review.revision \in approved

\* A line with its newline stays as it is, wherever the writers die.
AppendOnly ==
  [][\A i \in DOMAIN ledger : i < Len(ledger) \/ ended =>
       i \in DOMAIN ledger' /\ ledger'[i] = ledger[i]]_book

\* "Release readiness checks clean Git state": a command that the checkout
\* stood still for, and that found all in order, found it clean.
ReadyIsClean ==
  \A p \in still : op[p] = "readiness" /\ seen[p].ok => dirt = "none"
=============================================================================
