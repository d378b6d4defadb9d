-------------------------------- MODULE Tasks --------------------------------
(***************************************************************************)
(* src/coordination.rs: task sessions, each with a branch and a Git work   *)
(* tree of its own, and the handoffs written about them.                   *)
(*                                                                         *)
(* A start looks at the checkout before it takes the workbench lock; under *)
(* the lock it has Git make the branch and the work tree and then saves    *)
(* the record.  If it dies in between, Git may go on without it, and what  *)
(* Git made has no record.  A handoff takes no lock.  The user removes     *)
(* work trees and branches, commits and edits at any time.                 *)
(*                                                                         *)
(* A start is known by its number.  Agents, objectives and notes are left  *)
(* out, and so is the order in which sessions are listed.                  *)
(***************************************************************************)
EXTENDS Naturals, Sequences

CONSTANTS
  Process,
  Project, Task,
  Revision,
  Name,         \* how the id of a session begins: project-task
  Time,         \* what the system clock may show
  None,         \* no work tree, nothing wanted
  Nobody,       \* who holds a free lock
  MaxCalls,     \* bound: commands
  MaxFaults,    \* bound: deaths during a Git command, and failing ones
  MaxChanges    \* bound: what the user does

ASSUME NobodyAssumption == Nobody \notin Process

ASSUME TimeAssumption == Time \subseteq Nat

ASSUME BoundAssumption == MaxCalls \in Nat /\ MaxFaults \in Nat /\ MaxChanges \in Nat

VARIABLES
  head, dirt,   \* the source checkout: its commit, what differs from it
  branches,     \* the projects' codex branches
  trees,        \* the work tree at each path
  book,         \* sessions.json
  handoffs,     \* what the handoff of each session id says
  holder,       \* of workbench.lock
  op, pc,
  want,         \* the session to start, or the id a command is about
  got,          \* sessions.json as the command loaded it
  adrift,       \* starts that died and left Git at work
  still,        \* starts since whose look the checkout stood still,
  emptied,      \* and paths the user ever emptied (observed only)
  calls, faults, changes

checkout == <<head, dirt>>
disk == <<branches, trees>>
files == <<book, handoffs>>
locals == <<op, want, got>>
observed == <<still, emptied>>
counts == <<calls, faults, changes>>
vars == <<checkout, disk, files, holder, pc, locals, adrift, observed, counts>>

Book == INSTANCE TaskBook

Dirt == {"none", "some", "vast"}

\* git_state: changes that Git cannot list in the space it has are none.
Dirty == dirt = "some"

Path == Project \X Task

PathOf(session) == <<session.project, session.task>>

Id(session) == [name |-> Name[PathOf(session)], started |-> session.started]

Ids == [name : {Name[path] : path \in Path}, started : Time]

\* Who made it, from which commit.
Tree == [by : Nat, base : Revision]

Handoff == [session : Book!Session, tree : Tree \cup {None}]

ASSUME NoneAssumption == None \notin Tree \cup Book!Session \cup Handoff \cup Ids

ASSUME NameAssumption == DOMAIN Name = Path

Init ==
  /\ head \in Revision /\ dirt = "none"
  /\ branches = {} /\ trees = [path \in Path |-> None]
  /\ book = <<>> /\ handoffs = [id \in Ids |-> None]
  /\ holder = Nobody
  /\ op = [p \in Process |-> "none"]
  /\ pc = [p \in Process |-> "idle"]
  /\ want = [p \in Process |-> None]
  /\ got = [p \in Process |-> <<>>]
  /\ adrift = {} /\ still = {} /\ emptied = {}
  /\ calls = 0 /\ faults = 0 /\ changes = 0

-----------------------------------------------------------------------------
Goto(p, l) == pc' = [pc EXCEPT ![p] = l]

Finish(p) ==
  /\ Goto(p, "idle")
  /\ op' = [op EXCEPT ![p] = "none"]
  /\ want' = [want EXCEPT ![p] = None]
  /\ got' = [got EXCEPT ![p] = <<>>]
  /\ holder' = IF holder = p THEN Nobody ELSE holder
  /\ still' = still \ {p}

\* A command refuses, or a call it makes fails, or it dies.
Fail(p) ==
  /\ pc[p] # "idle"
  /\ Finish(p)
  /\ UNCHANGED <<checkout, disk, files, adrift, emptied, counts>>

Begin(p, o, about, at) ==
  /\ pc[p] = "idle" /\ calls < MaxCalls
  /\ calls' = calls + 1
  /\ op' = [op EXCEPT ![p] = o]
  /\ want' = [want EXCEPT ![p] = about]
  /\ Goto(p, at)
  /\ UNCHANGED <<checkout, disk, files, holder, got, adrift, emptied, faults, changes>>

\* start_session: the source is at a commit, with no changes.
BeginStart(p, project, task, now) ==
  /\ ~Dirty
  /\ Begin(p, "start",
           [project |-> project, task |-> task, started |-> now,
            by |-> calls, open |-> TRUE], "lock")
  /\ still' = still \cup {p}

BeginClose(p, id) == Begin(p, "close", id, "lock") /\ UNCHANGED still

BeginHandoff(p, id) == Begin(p, "handoff", id, "load") /\ UNCHANGED still

\* load_sessions
Load(p) == got' = [got EXCEPT ![p] = book]

\* Seeded fault: the lock is taken when the record is saved.
AcquireShared(p) ==
  /\ pc[p] = "lock"
  /\ holder' = p
  /\ Load(p)
  /\ Goto(p, op[p])
  /\ UNCHANGED <<checkout, disk, files, op, want, adrift, observed, counts>>

Acquire(p) ==
  /\ pc[p] = "lock" /\ holder = Nobody
  /\ holder' = p
  /\ Load(p)
  /\ Goto(p, op[p])
  /\ UNCHANGED <<checkout, disk, files, op, want, adrift, observed, counts>>

-----------------------------------------------------------------------------
(* start_session                                                           *)

\* Seeded fault: what is at the path is taken as it is.
CheckBranch(p) ==
  /\ pc[p] = "start"
  /\ ~Book!Owned(got[p], want[p].task)
  /\ Goto(p, IF trees[PathOf(want[p])] = None THEN "git" ELSE "save")
  /\ UNCHANGED <<checkout, disk, files, holder, locals, adrift, observed, counts>>

Check(p) ==
  /\ pc[p] = "start"
  /\ ~Book!Owned(got[p], want[p].task)
  /\ trees[PathOf(want[p])] = None
  /\ Goto(p, "git")
  /\ UNCHANGED <<checkout, disk, files, holder, locals, adrift, observed, counts>>

\* git worktree add -b: makes both, or neither where one is there.
Make(session) ==
  LET path == PathOf(session) IN
    /\ path \notin branches /\ trees[path] = None
    /\ branches' = branches \cup {path}
    /\ trees' = [trees EXCEPT ![path] = [by |-> session.by, base |-> head]]

Git(p) ==
  /\ pc[p] = "git"
  /\ Make(want[p])
  /\ Goto(p, "save")
  /\ UNCHANGED <<checkout, files, holder, locals, adrift, observed, counts>>

\* Git has made the branch, or both, when it fails or is killed at its deadline.
GitFails(p) ==
  /\ pc[p] = "git"
  /\ faults < MaxFaults /\ faults' = faults + 1
  /\ \/ Make(want[p])
     \/ branches' = branches \cup {PathOf(want[p])} /\ UNCHANGED trees
  /\ Finish(p)
  /\ UNCHANGED <<checkout, files, adrift, emptied, calls, changes>>

\* The helper dies; Git does not.
Orphan(p) ==
  /\ pc[p] = "git"
  /\ faults < MaxFaults /\ faults' = faults + 1
  /\ adrift' = adrift \cup {want[p]}
  /\ Finish(p)
  /\ UNCHANGED <<checkout, disk, files, emptied, calls, changes>>

Drift(session) ==
  /\ session \in adrift
  /\ adrift' = adrift \ {session}
  /\ Make(session) \/ UNCHANGED disk
  /\ UNCHANGED <<checkout, files, holder, pc, locals, observed, counts>>

SaveStart(p) ==
  /\ pc[p] = "save"
  /\ book' = Append(got[p], want[p])
  /\ Finish(p)
  /\ UNCHANGED <<checkout, disk, handoffs, adrift, emptied, counts>>

-----------------------------------------------------------------------------
(* close_session, write_handoff                                            *)

\* The first session with the id.
First(sessions, id, i) ==
  /\ i \in DOMAIN sessions /\ Id(sessions[i]) = id
  /\ \A j \in 1 .. i - 1 : Id(sessions[j]) # id

SaveClose(p) ==
  /\ pc[p] = "close"
  /\ \E i \in DOMAIN got[p] :
       /\ First(got[p], want[p], i) /\ got[p][i].open
       /\ book' = [got[p] EXCEPT ![i].open = FALSE]
  /\ Finish(p)
  /\ UNCHANGED <<checkout, disk, handoffs, adrift, emptied, counts>>

LoadHandoff(p) ==
  /\ pc[p] = "load" /\ \E i \in DOMAIN book : First(book, want[p], i)
  /\ Load(p)
  /\ Goto(p, "describe")
  /\ UNCHANGED <<checkout, disk, files, holder, op, want, adrift, observed, counts>>

\* git_state of the work tree, if there is one; then save_json.
Describe(p) ==
  /\ pc[p] = "describe"
  /\ \E i \in DOMAIN got[p] :
       LET session == got[p][i] IN
         /\ First(got[p], want[p], i)
         /\ handoffs' = [handoffs EXCEPT ![want[p]] =
                           [session |-> session, tree |-> trees[PathOf(session)]]]
  /\ Finish(p)
  /\ UNCHANGED <<checkout, disk, book, adrift, emptied, counts>>

-----------------------------------------------------------------------------
(* The user                                                                *)

Change == changes < MaxChanges /\ changes' = changes + 1

Move(h, d) ==
  /\ Change
  /\ <<h, d>> # checkout
  /\ head' = h /\ dirt' = d
  /\ still' = {}
  /\ UNCHANGED <<disk, files, holder, pc, locals, adrift, emptied, calls, faults>>

\* git worktree remove, with or without the branch
Empty(path, b) ==
  /\ Change
  /\ trees[path] # None \/ path \in branches
  /\ trees' = [trees EXCEPT ![path] = None]
  /\ branches' = IF b THEN branches \ {path} ELSE branches
  /\ emptied' = emptied \cup {path}
  /\ UNCHANGED <<checkout, files, holder, pc, locals, adrift, still, calls, faults>>

Done ==
  /\ calls = MaxCalls /\ \A p \in Process : pc[p] = "idle"
  /\ UNCHANGED vars

Next ==
  \/ \E h \in Revision, d \in Dirt : Move(h, d)
  \/ \E path \in Path, b \in BOOLEAN : Empty(path, b)
  \/ \E session \in adrift : Drift(session)
  \/ Done
  \/ \E p \in Process :
       \/ \E project \in Project, task \in Task, now \in Time :
            BeginStart(p, project, task, now)
       \/ \E id \in Ids : BeginClose(p, id) \/ BeginHandoff(p, id)
       \/ Fail(p) \/ Acquire(p)
       \/ Check(p) \/ Git(p) \/ GitFails(p) \/ Orphan(p) \/ SaveStart(p)
       \/ SaveClose(p) \/ LoadHandoff(p) \/ Describe(p)

Spec == Init /\ [][Next]_vars

-----------------------------------------------------------------------------
(* Properties                                                              *)

Stage == {"idle", "lock", "start", "git", "save", "close", "load", "describe"}

TypeOK ==
  /\ head \in Revision /\ dirt \in Dirt
  /\ branches \subseteq Path
  /\ trees \in [Path -> Tree \cup {None}]
  /\ book \in Seq(Book!Session)
  /\ handoffs \in [Ids -> Handoff \cup {None}]
  /\ holder \in Process \cup {Nobody}
  /\ op \in [Process -> {"start", "close", "handoff", "none"}]
  /\ pc \in [Process -> Stage]
  /\ want \in [Process -> Book!Session \cup Ids \cup {None}]
  /\ got \in [Process -> Seq(Book!Session)]
  /\ adrift \subseteq Book!Session
  /\ still \subseteq Process /\ emptied \subseteq Path
  /\ calls \in Nat /\ faults \in Nat /\ changes \in Nat

\* What is under the lock is as it was loaded.
Exclusive ==
  \A p \in Process : pc[p] \in {"start", "git", "save", "close"} =>
    /\ holder = p /\ got[p] = book

\* A start in progress owns the branch it will record.
Claimed ==
  \A p \in Process : pc[p] \in {"git", "save"} => ~Book!Owned(book, want[p].task)

TasksInv == TypeOK /\ Exclusive /\ Claimed

\* Sessions are only ever added, open and with a branch no open session owns,
\* or closed once: concurrent starts and closes lose nothing (start_session,
\* close_session, save_json).
ImplementsBook == Book!Spec

\* An open session has the work tree its own start made, never one that a
\* dead start left or an older session had, unless the user emptied its path.
OwnTree ==
  \A i \in DOMAIN book : book[i].open /\ PathOf(book[i]) \notin emptied =>
    /\ trees[PathOf(book[i])] # None
    /\ trees[PathOf(book[i])].by = book[i].by

\* A work tree begins at a commit that was checked out with no changes Git lists,
\* unless the checkout moved after start_session had looked at it.
BaseIsClean ==
  [][\A p \in Process :
       pc[p] = "git" /\ pc'[p] = "save" /\ p \in still
       => ~Dirty /\ trees'[PathOf(want[p])].base = head]_vars

\* A handoff of an open session describes the work tree of that session,
\* unless the user emptied its path.
HandoffIsOwn ==
  [][\A id \in Ids :
       LET handoff == handoffs'[id] IN
         /\ handoff # handoffs[id] /\ handoff.session.open
         /\ PathOf(handoff.session) \notin emptied
         => handoff.tree # None /\ handoff.tree.by = handoff.session.by]_vars
=============================================================================
