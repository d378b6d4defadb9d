------------------------------ MODULE Updates ------------------------------
(***************************************************************************)
(* src/updates.rs: reviewed fast-forwards of installed plugins, each a Git *)
(* checkout, by `update` and `update-all`.                                 *)
(*                                                                         *)
(* No lock is taken.  Every Git command is a process of its own, so the    *)
(* user, the remote and another update may change a checkout between any   *)
(* two of them, and any of them may fail; a fetch, merge or reset may fail      *)
(* after it took effect (it is killed at its deadline).                    *)
(*                                                                         *)
(* A revision is the set of commits in its history; one is an ancestor of  *)
(* another if it is a subset.  Two adjacent reads are one step where the   *)
(* second is repeated before anything depends on it.                       *)
(***************************************************************************)
EXTENDS Naturals

CONSTANTS
  Process,
  Plugin,
  Commit,       \* what the remote can have
  Bad,          \* commits with which a plugin does not validate
  Work,         \* what the user can commit
  Unknown,      \* no revision
  MaxFaults,    \* bound: deaths, and failures that leave a plugin updated
  MaxChanges    \* bound: changes of the user and moves of the remote

ASSUME CommitAssumption == Bad \subseteq Commit /\ Commit \cap Work = {}

Revision == SUBSET (Commit \cup Work)

ASSUME BoundAssumption == MaxFaults \in Nat /\ MaxChanges \in Nat

ASSUME UnknownAssumption == \A r \in Revision : Unknown # r

VARIABLES
  head,       \* what is checked out
  edited,     \* the plugins with changes that are not committed
  remote,     \* HEAD of origin
  fetched,    \* FETCH_HEAD
  loaded,     \* what the shell loaded when it last scanned the plugins
  pc,
  all,        \* whether the command is update-all
  reviewed,   \* what it was given: a revision for each plugin, or Unknown
  todo,       \* the plugins it has yet to inspect
  at,         \* the plugin it is about
  seen,       \* what its inspection found
  done,       \* what became of each plugin
  late,       \* plugins others changed since it last looked (observed only)
  outcome,    \* what the last command reported, until another begins
  faults, changes

checkouts == <<head, edited>>
outside == <<remote, loaded>>
locals == <<all, reviewed, todo, at, seen, done>>
vars == <<checkouts, outside, fetched, pc, locals, late, outcome, faults, changes>>

Finding == [current : {Unknown} \cup Revision,
            remote : {Unknown} \cup Revision,
            dirty : BOOLEAN,
            state : {"none", "failed", "ahead", "dirty", "available", "current"}]

Nothing == [current |-> Unknown, remote |-> Unknown,
            dirty |-> FALSE, state |-> "none"]

Valid(r) == r \cap Bad = {}

Init ==
  /\ head = [p \in Plugin |-> {}]
  /\ edited = {}
  /\ remote \in [Plugin -> SUBSET Commit]
  /\ fetched = [p \in Plugin |-> {}]
  /\ loaded = head
  /\ pc = [q \in Process |-> "idle"]
  /\ all = [q \in Process |-> FALSE]
  /\ reviewed = [q \in Process |-> [p \in Plugin |-> Unknown]]
  /\ todo = [q \in Process |-> {}]
  /\ at = [q \in Process |-> Unknown]
  /\ seen = [q \in Process |-> [p \in Plugin |-> Nothing]]
  /\ done = [q \in Process |-> [p \in Plugin |-> "none"]]
  /\ late = [q \in Process |-> {}]
  /\ outcome = "none"
  /\ faults = 0 /\ changes = 0

-----------------------------------------------------------------------------
Goto(q, l) == pc' = [pc EXCEPT ![q] = l]

Fault == faults < MaxFaults /\ faults' = faults + 1 /\ UNCHANGED changes

NoFault == UNCHANGED <<faults, changes>>

\* Everybody else's view of p is out of date.
Disturb(q, p) ==
  late' = [r \in Process |->
             IF r = q \/ pc[r] = "idle" THEN late[r] ELSE late[r] \cup {p}]

Finish(q, o) ==
  /\ Goto(q, "idle")
  /\ outcome' = o
  /\ all' = [all EXCEPT ![q] = FALSE]
  /\ reviewed' = [reviewed EXCEPT ![q] = [p \in Plugin |-> Unknown]]
  /\ todo' = [todo EXCEPT ![q] = {}]
  /\ seen' = [seen EXCEPT ![q] = [p \in Plugin |-> Nothing]]
  /\ done' = [done EXCEPT ![q] = [p \in Plugin |-> "none"]]
  /\ at' = [at EXCEPT ![q] = Unknown]
  /\ late' = [late EXCEPT ![q] = {}]

\* The user reviews what the remote has.  It may move at once.
Begin(q, ps, every) ==
  /\ pc[q] = "idle"
  /\ ps # {} /\ (~every => \E p \in Plugin : ps = {p})
  /\ reviewed' = [reviewed EXCEPT ![q] =
                    [p \in Plugin |-> IF p \in ps THEN remote[p] ELSE Unknown]]
  /\ all' = [all EXCEPT ![q] = every]
  /\ todo' = [todo EXCEPT ![q] = IF every THEN Plugin ELSE ps]
  /\ Goto(q, "look")
  /\ outcome' = "none"
  /\ UNCHANGED <<checkouts, outside, fetched, at, seen, done, late>>
  /\ NoFault

-----------------------------------------------------------------------------
(* inspect                                                                 *)

Inspected(q, p, finding) ==
  /\ seen' = [seen EXCEPT ![q][p] = finding]
  /\ todo' = [todo EXCEPT ![q] = @ \ {p}]
  /\ Goto(q, IF todo[q] \subseteq {p} THEN "choose" ELSE "look")

Look(q, p) ==
  /\ pc[q] = "look" /\ p \in todo[q]
  /\ at' = [at EXCEPT ![q] = p]
  /\ \/ /\ seen' = [seen EXCEPT ![q][p] =
                      [Nothing EXCEPT !.current = head[p], !.dirty = p \in edited]]
        /\ Goto(q, "fetch") /\ UNCHANGED todo
     \/ Inspected(q, p, [Nothing EXCEPT !.state = "failed"])
  /\ UNCHANGED <<checkouts, outside, fetched, all, reviewed, done, late, outcome>>
  /\ NoFault

FailInspection(q) == Inspected(q, at[q], [Nothing EXCEPT !.state = "failed"])

\* git fetch: FETCH_HEAD belongs to the checkout, not to the command.
Fetch(q) ==
  LET p == at[q] IN
    /\ pc[q] = "fetch"
    /\ \/ /\ fetched' = [fetched EXCEPT ![p] = remote[p]]
          /\ Goto(q, "resolve") /\ UNCHANGED <<seen, todo>>
       \/ /\ fetched' \in {fetched, [fetched EXCEPT ![p] = remote[p]]}
          /\ FailInspection(q)
    /\ UNCHANGED <<checkouts, outside, at, all, reviewed, done, late, outcome>>
    /\ NoFault

\* rev-parse FETCH_HEAD, which another command may have fetched since.
Resolve(q) ==
  LET p == at[q] IN
    /\ pc[q] = "resolve"
    /\ \/ /\ seen' = [seen EXCEPT ![q][p].remote = fetched[p]]
          /\ Goto(q, "count") /\ UNCHANGED todo
       \/ FailInspection(q)
    /\ UNCHANGED <<checkouts, outside, fetched, at, all, reviewed, done, late, outcome>>
    /\ NoFault

\* The counts are of HEAD and FETCH_HEAD as they are by now.
State(q, p) ==
  CASE ~(head[p] \subseteq fetched[p])                       -> "ahead"
    [] head[p] \subseteq fetched[p] /\ seen[q][p].dirty      -> "dirty"
    [] head[p] = fetched[p] /\ ~seen[q][p].dirty             -> "current"
    [] OTHER                                                 -> "available"

Count(q) ==
  LET p == at[q] IN
    /\ pc[q] = "count"
    /\ \/ Inspected(q, p, [seen[q][p] EXCEPT !.state = State(q, p)])
       \/ FailInspection(q)
    /\ UNCHANGED <<checkouts, outside, fetched, at, all, reviewed, done, late, outcome>>
    /\ NoFault

-----------------------------------------------------------------------------
(* apply_one, apply_all                                                    *)

Chosen(q) == {p \in Plugin : reviewed[q][p] # Unknown}

Result(q, p, d) == done' = [done EXCEPT ![q][p] = d]

\* What the command does with the inspection of p.
Choose(q, p) ==
  LET f == seen[q][p] IN
    /\ pc[q] = "choose" /\ p \in Chosen(q) /\ done[q][p] = "none"
    /\ at' = [at EXCEPT ![q] = p]
    /\ \/ /\ f.state = "available" /\ f.remote = reviewed[q][p]
          /\ Goto(q, "head1") /\ UNCHANGED done
       \/ /\ f.state = "available" /\ f.remote # reviewed[q][p]
          /\ Result(q, p, "failed") /\ UNCHANGED pc
       \/ /\ f.state # "available"
          /\ Result(q, p, IF all[q] \/ f.state = "current" THEN "skipped"
                          ELSE "failed")
          /\ UNCHANGED pc
    /\ UNCHANGED <<checkouts, outside, fetched, all, reviewed, todo, seen, late, outcome>>
    /\ NoFault

Updated(q) == {p \in Chosen(q) : done[q][p] = "updated"}
Failed(q) == {p \in Chosen(q) : done[q][p] = "failed"}

Report(q) == IF Failed(q) = {} THEN "ok" ELSE "error"

AllDone(q) ==
  /\ pc[q] = "choose" /\ \A p \in Chosen(q) : done[q][p] # "none"
  /\ \/ /\ Updated(q) # {}
        /\ Goto(q, "rescan") /\ UNCHANGED <<locals, late, outcome>>
     \/ Updated(q) = {} /\ Finish(q, Report(q))
  /\ UNCHANGED <<checkouts, outside, fetched>>
  /\ NoFault

\* Seeded fault: a rescan that fails is not reported.
RescanUnchecked(q) ==
  /\ pc[q] = "rescan"
  /\ loaded' \in {loaded, head} /\ Finish(q, Report(q))
  /\ UNCHANGED <<checkouts, remote, fetched>> /\ NoFault

\* The shell loads every plugin as it is now, updated or not.
Rescan(q) ==
  /\ pc[q] = "rescan"
  /\ \/ loaded' = head /\ Finish(q, Report(q))
     \/ loaded' \in {loaded, head} /\ Finish(q, "error")
  /\ UNCHANGED <<checkouts, remote, fetched>> /\ NoFault

-----------------------------------------------------------------------------
(* apply_reviewed                                                          *)

local == <<all, reviewed, todo, at, seen, outcome>>

\* The next plugin's turn.
Verdict(q, d) == Result(q, at[q], d) /\ Goto(q, "choose")

GiveUp(q) ==
  /\ Verdict(q, "failed")
  /\ UNCHANGED <<checkouts, outside, fetched, local, late>> /\ NoFault

GoOn(q, l) ==
  /\ Goto(q, l)
  /\ UNCHANGED <<checkouts, outside, fetched, local, done>> /\ NoFault

\* HEAD is read before and after the validation of the revision, each time
\* before the status.
CheckHead(q) ==
  LET p == at[q] IN
    \/ /\ pc[q] = "head1" /\ head[p] = seen[q][p].current
       /\ GoOn(q, "clean1") /\ UNCHANGED late
    \/ /\ pc[q] = "head2" /\ head[p] = seen[q][p].current
       /\ late' = [late EXCEPT ![q] = @ \ {p}]
       /\ GoOn(q, "clean2")
    \/ pc[q] \in {"head1", "head2"} /\ GiveUp(q)

\* Seeded fault: the status is not asked for again.
CheckCleanOnce(q) ==
  \/ /\ pc[q] = "clean1" /\ at[q] \notin edited
     /\ GoOn(q, "stage") /\ UNCHANGED late
  \/ pc[q] = "clean2" /\ GoOn(q, "merge") /\ UNCHANGED late
  \/ pc[q] \in {"clean1", "clean2"} /\ GiveUp(q)

CheckClean(q) ==
  \/ /\ pc[q] = "clean1" /\ at[q] \notin edited
     /\ GoOn(q, "stage") /\ UNCHANGED late
  \/ /\ pc[q] = "clean2" /\ at[q] \notin edited
     /\ GoOn(q, "merge") /\ UNCHANGED late
  \/ pc[q] \in {"clean1", "clean2"} /\ GiveUp(q)

\* Seeded fault: the revision is not validated in a clone.
StageNothing(q) ==
  /\ pc[q] = "stage"
  /\ \/ GoOn(q, "head2") /\ UNCHANGED late
     \/ GiveUp(q)

\* validate_staged
Stage(q) ==
  /\ pc[q] = "stage"
  /\ \/ /\ Valid(seen[q][at[q]].remote)
        /\ GoOn(q, "head2") /\ UNCHANGED late
     \/ GiveUp(q)

\* Seeded fault: whatever was fetched last is merged.
MergeFetched(q) ==
  LET p == at[q]
      target == fetched[p]
  IN /\ pc[q] = "merge"
     /\ head' = [head EXCEPT ![p] = @ \cup target]
     /\ Goto(q, "landed") /\ Disturb(q, p) /\ NoFault
     /\ UNCHANGED <<edited, outside, fetched, local, done>>

\* merge --ff-only: nothing to do, a fast-forward, or a refusal.  Edits of the
\* user stay or make it refuse.
Merge(q) ==
  LET p == at[q]
      target == seen[q][p].remote
  IN /\ pc[q] = "merge"
     /\ \/ target \subseteq head[p] /\ GoOn(q, "landed") /\ UNCHANGED late
        \/ /\ head[p] \subseteq target
           /\ head' = [head EXCEPT ![p] = target]
           /\ \/ Goto(q, "landed") /\ NoFault /\ UNCHANGED done
              \/ Verdict(q, "failed") /\ Fault
           /\ Disturb(q, p)
           /\ UNCHANGED <<edited, outside, fetched, local>>
        \/ GiveUp(q)

\* A HEAD that cannot be read is no reason to reset.
Landed(q) ==
  LET p == at[q] IN
    /\ pc[q] = "landed"
    /\ \/ /\ GoOn(q, IF head[p] = seen[q][p].remote THEN "validate" ELSE "reset")
          /\ UNCHANGED late
       \/ /\ Fault /\ Verdict(q, "failed")
          /\ UNCHANGED <<checkouts, outside, fetched, local, late>>

\* Seeded fault: a checkout that does not validate is reported and left.
ValidateOnly(q) ==
  LET p == at[q] IN
    /\ pc[q] = "validate"
    /\ \/ /\ Valid(head[p]) \/ p \in edited
          /\ Verdict(q, "updated") /\ NoFault
          /\ UNCHANGED <<checkouts, outside, fetched, local, late>>
       \/ GiveUp(q)

\* validate_updated_plugin, of the tree as the user may have left it.
Validate(q) ==
  LET p == at[q] IN
    /\ pc[q] = "validate"
    /\ \/ /\ Valid(head[p]) \/ p \in edited
          /\ Verdict(q, "updated") /\ NoFault
          /\ UNCHANGED <<checkouts, outside, fetched, local, late>>
       \/ GoOn(q, "reset") /\ UNCHANGED late

\* reset --hard to where HEAD was at the inspection.
Reset(q) ==
  LET p == at[q]
      back == [head EXCEPT ![p] = seen[q][p].current]
  IN /\ pc[q] = "reset"
     /\ Verdict(q, "failed")
     /\ \/ head' = back /\ edited' = edited \ {p} /\ NoFault /\ Disturb(q, p)
        \/ UNCHANGED checkouts /\ Fault /\ UNCHANGED late
        \/ head' = back /\ edited' = edited \ {p} /\ Fault /\ Disturb(q, p)
     /\ UNCHANGED <<outside, fetched, local>>

-----------------------------------------------------------------------------
(* Deaths, the user, the remote                                            *)

Crash(q) ==
  /\ pc[q] # "idle" /\ Fault /\ Finish(q, "error")
  /\ UNCHANGED <<checkouts, outside, fetched>>

Change == changes < MaxChanges /\ changes' = changes + 1 /\ UNCHANGED faults

Touch(p) ==
  /\ Change
  /\ late' = [q \in Process |->
               IF pc[q] = "idle" THEN late[q] ELSE late[q] \cup {p}]
  /\ UNCHANGED <<outside, fetched, pc, locals, outcome>>

Edit(p) ==
  /\ Touch(p) /\ p \notin edited
  /\ edited' = edited \cup {p} /\ UNCHANGED head

\* The user commits, or first edits and then commits.
Keep(p, w) ==
  /\ Touch(p) /\ \A o \in Plugin : w \notin head[o]
  /\ head' = [head EXCEPT ![p] = @ \cup {w}]
  /\ edited' = edited \ {p}

\* A push, or a forced one.
Move(p, r) ==
  /\ Change /\ r # remote[p]
  /\ remote' = [remote EXCEPT ![p] = r]
  /\ UNCHANGED <<checkouts, loaded, fetched, pc, locals, late, outcome>>

Step(q) ==
  \/ \E p \in Plugin : Look(q, p) \/ Choose(q, p)
  \/ Fetch(q) \/ Resolve(q) \/ Count(q) \/ AllDone(q) \/ Rescan(q)
  \/ CheckHead(q) \/ CheckClean(q) \/ Stage(q) \/ Merge(q)
  \/ Landed(q) \/ Validate(q) \/ Reset(q)

Next ==
  \/ \E q \in Process :
       \/ \E ps \in SUBSET Plugin, every \in BOOLEAN : Begin(q, ps, every)
       \/ Step(q) \/ Crash(q)
  \/ \E p \in Plugin :
       \/ Edit(p)
       \/ \E w \in Work : Keep(p, w)
       \/ \E r \in SUBSET Commit : Move(p, r)

Spec == Init /\ [][Next]_vars

-----------------------------------------------------------------------------
(* Properties                                                              *)

\* "A reviewed update fast-forwards only to the pinned object", or goes back:
\* wherever the remote, the user or another update move meanwhile, a command
\* moves a checkout only forward to the revision it was given, or back to the
\* one it found.
OnlyReviewed ==
  [][\A p \in Plugin : head'[p] # head[p] =>
       \/ \E w \in Work : head'[p] = head[p] \cup {w}
       \/ \E q \in Process :
            /\ pc'[q] # pc[q] /\ at[q] = p
            /\ \/ head'[p] = reviewed[q][p] /\ head[p] \subseteq head'[p]
               \/ head'[p] = seen[q][p].current]_vars

\* Preflight in a disposable checkout: no revision that does not validate is
\* ever checked out where the shell may see it, whatever dies or fails.
HeadIsValid == \A p \in Plugin : Valid(head[p])

\* What the user edits or commits is only lost if it was done after the last
\* look of a command that then resets.
Lost(p) ==
  \/ ~(head[p] \cap Work \subseteq head'[p])
  \/ p \in edited \ edited' /\ head'[p] \cap Work = head[p] \cap Work

WorkKept ==
  [][\A p \in Plugin : Lost(p) =>
       \E q \in Process :
         pc[q] = "reset" /\ pc'[q] # pc[q] /\ at[q] = p /\ p \in late[q]]_vars

\* A plugin that is reported failed is as it was, unless others changed it or
\* a Git command failed after it took effect.
FailedIsUndone ==
  [][\A q \in Process, p \in Plugin :
       /\ done[q][p] # "failed" /\ done'[q][p] = "failed"
       /\ p \notin late'[q] /\ faults' = 0 /\ seen[q][p].current # Unknown
       => head'[p] = seen[q][p].current]_vars

\* "... and asks omarchy-shell to rescan after success": a command that reports
\* success leaves the shell with what it updated.
UpdatedIsServed ==
  [][\A q \in Process :
       pc[q] # "idle" /\ pc'[q] = "idle" /\ outcome' = "ok" =>
         \A p \in Updated(q) \ late[q] :
           loaded'[p] = reviewed[q][p] /\ head'[p] = reviewed[q][p]]_vars

-----------------------------------------------------------------------------
Apply == {"head1", "clean1", "stage", "head2", "clean2", "merge", "landed",
          "validate", "reset"}

Steps == {"idle", "look", "fetch", "resolve", "count", "choose", "rescan"} \cup Apply

TypeOK ==
  /\ head \in [Plugin -> Revision]
  /\ edited \subseteq Plugin
  /\ remote \in [Plugin -> SUBSET Commit]
  /\ fetched \in [Plugin -> SUBSET Commit]
  /\ loaded \in [Plugin -> Revision]
  /\ pc \in [Process -> Steps]
  /\ all \in [Process -> BOOLEAN]
  /\ reviewed \in [Process -> [Plugin -> {Unknown} \cup Revision]]
  /\ todo \in [Process -> SUBSET Plugin]
  /\ at \in [Process -> {Unknown} \cup Plugin]
  /\ seen \in [Process -> [Plugin -> Finding]]
  /\ done \in [Process -> [Plugin -> {"none", "updated", "failed", "skipped"}]]
  /\ late \in [Process -> SUBSET Plugin]
  /\ outcome \in {"none", "ok", "error"}
  /\ faults \in 0 .. MaxFaults
  /\ changes \in 0 .. MaxChanges

\* Why HeadIsValid and OnlyReviewed hold: what a command is about to merge is
\* what it was given, and what it may go back to was checked out before.
Pinned(q) ==
  /\ \A p \in Plugin :
       /\ seen[q][p].current # Unknown => Valid(seen[q][p].current)
       /\ seen[q][p].state = "available" => seen[q][p].current # Unknown
  /\ pc[q] \in {"fetch", "resolve", "count"} \cup Apply =>
       at[q] \in Plugin /\ seen[q][at[q]].current # Unknown
  /\ pc[q] \in Apply =>
       /\ seen[q][at[q]].remote = reviewed[q][at[q]]
       /\ seen[q][at[q]].remote # Unknown
  /\ pc[q] \in Apply \ {"head1", "clean1", "stage"} =>
       Valid(seen[q][at[q]].remote)

\* Why WorkKept holds: from the second look at HEAD on, a checkout that nobody
\* else changes is where the command found it or put it, and has no edits from
\* the second look at the status on.
Watched(q) ==
  /\ \A p \in Plugin : seen[q][p].remote # Unknown => seen[q][p].remote \subseteq Commit
  /\ at[q] \notin late[q] =>
       /\ pc[q] \in {"clean2", "merge"} => head[at[q]] = seen[q][at[q]].current
       /\ pc[q] \in {"landed", "validate", "reset"} =>
            head[at[q]] \in {seen[q][at[q]].current, seen[q][at[q]].remote}
       /\ pc[q] \in {"merge", "landed", "validate", "reset"} => at[q] \notin edited

\* Why UpdatedIsServed and FailedIsUndone hold: a plugin that nobody else changed
\* is where it was found, or where its update was validated, or it is the one in
\* between; a failure that leaves it there is a fault.
Followed(q) ==
  /\ pc[q] = "idle" =>
       \A p \in Plugin : done[q][p] = "none" /\ seen[q][p].current = Unknown
  /\ pc[q] \in Apply => done[q][at[q]] = "none"
  /\ pc[q] = "validate" /\ at[q] \notin late[q] => head[at[q]] = seen[q][at[q]].remote
  /\ \A p \in Plugin \ late[q] :
       /\ done[q][p] = "updated" => head[p] = reviewed[q][p]
       /\ done[q][p] # "updated" /\ faults = 0 /\ seen[q][p].current # Unknown =>
            \/ head[p] = seen[q][p].current
            \/ p = at[q] /\ pc[q] \in {"landed", "validate", "reset"}

UpdatesInv ==
  /\ TypeOK /\ HeadIsValid
  /\ \A q \in Process : Pinned(q) /\ Watched(q) /\ Followed(q)
=============================================================================
