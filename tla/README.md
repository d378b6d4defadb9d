# A formal model of omarchy-plugin-workbench

TLA+ modules that model the workbench's Rust helper, the TLC configurations
that check them, and TLAPS proofs about them. Paths are relative to the
repository root; `src/deploy.rs:31` is line 31 of the file `src/deploy.rs`.

## 1. The system

The workbench is a command-line helper (`omarchy-plugin-workbench`) plus a QML
panel that runs it. There is no daemon: every command is a process that reads
files under the user's configuration, state and data directories, changes some
of them, and ends. All coordination is through those files and one advisory
lock, `workbench.lock` (`registry.rs:20-54`). Some commands take the lock for
their whole life, some for a part of it, some never.

| Component | Source | State it keeps | Operations | What makes it correct |
|---|---|---|---|---|
| Deployment | `deploy.rs` | plugin link, receipt, undo journal, snapshot directories | link, snapshot, rollback, undeploy, status, journal recovery | link and receipt agree whatever dies; a receipt only gains a whole deployment or steps back; foreign files are not replaced; every journal is settled; reports are true |
| Snapshot copy | `deploy.rs:170-219` | staging directory | fingerprint, copy, compare, publish | a snapshot is the source at one instant |
| Registry and trust | `registry.rs`, `main.rs` | `config.json`: projects, trust, approvals | add, remove, refresh, trust, approve | nothing runs under a definition that was not trusted; a removed project leaves nothing behind |
| Test sessions | `test_session.rs` | session record, sandbox directory, two process groups | start, list, stop | one live session per plugin; only owned processes are signalled; no process or directory is lost |
| Task sessions | `coordination.rs:19-161` | session record, branches and work trees, handoffs | start, close, list, handoff | no session is lost; an open one owns its branch and has the work tree its start made |
| Evidence and release readiness | `coordination.rs:163-251`, `workbench.rs:101-323` | evidence ledger | checks, workflows, probes, append and read, release_readiness, release_plan | evidence is true of the revision it names; ready only with passing checks and a ready review of it |
| Project status, doctor | `workbench.rs` | read only | status, doctor | one-shot reports |
| Git updates | `updates.rs` | plugin checkouts | inspect, apply_one, apply_all | only a reviewed revision is activated; a failed one is reset |
| Marketplace | `marketplace.rs` | catalogue cache, receipts, recovery directory | refresh, search, install, update, repair, uninstall, inspect | only receipt-owned directories are moved |
| Security reviews | `security.rs` | review files, remediation work trees, dossiers | prepare, import, status, history, remediate, dossier | a Ready status is never carried to other source |
| Process runner | `process.rs` | child process group, pipes | run_check, run_command | ends in bounded time, leaves no child behind |
| Publishing | `publishing.rs` | plan and draft files | release plan, submission draft | a plan or draft is only as good as the readiness and the status behind it |
| Panel | `Panel.qml`, `Navigation.js`, `BarWidget.qml` | selected project, running action | select, run, complete, confirm | a result is shown for the action that produced it |
| Manifest, scaffold, inventory, paths | `manifest.rs`, `scaffold.rs`, `inventory.rs`, `paths.rs` | none of their own | validation, templates, file walks | pure or one-shot input and output |

Interactions: every command that touches deployments, projects or test
sessions serialises on `workbench.lock`; `project_status`, `doctor` and
`read_evidence` read the same files without it. The panel starts at most one
helper process of a kind at a time and reads its JSON output. `remove` looks at
deployments and test sessions before it removes the project. Checks, workflows,
imports and readiness append to one evidence ledger; release readiness combines
that ledger with the latest security review; a submission draft has the dossier
of that review written; a remediation is a task session that starts at the
reviewed commit. Whatever runs a program runs it through the process runner.

What is hard: processes that die between two files that must agree; writes
whose rename succeeds and whose fsync fails; the author's editor, other
installers and the shell changing the same paths; checks made before a lock is
taken and used after it; evidence recorded for a revision that moves; PIDs that
are reused; children that outlive their parent or hold its pipes; answers that
must not pass for complete when they were cut. `PROJECT.json` lists each under
`hazards` at the line where it bites, with the property that covers it.

## 2. Modules

Each specification has one TLC module (`MC...`) that declares the model values
its configurations use, and all but `Snapshot` a proof module that extends it:
`DeployProofs` extends `Deploy` and `Snapshot`, whose names are distinct from
`Deploy`'s for that reason.

| Module | Kind | Models |
|---|---|---|
| `Receipts` | pure | the receipt: history, active index, push and step back |
| `DeploymentLog` | abstract specification | what `deploy.rs` promises: an indivisible history |
| `Deploy`, `MCDeploy`, `DeployProofs` | specification | every deployment command as file-system steps |
| `Snapshot`, `MCSnapshot` | specification | the copy of a source that is being edited |
| `TestSession`, `MCTestSession`, `TestSessionProofs` | specification | nested sessions and the process groups they own |
| `Decisions` | pure | what a command line asks about a project |
| `Consent` | abstract specification | what the registry promises about trust |
| `Projects`, `MCProjects`, `ProjectsProofs` | specification | the registry under its lock, and those who read it without |
| `Updates`, `MCUpdates`, `UpdatesProofs` | specification | fast-forwards of installed Git checkouts, under no lock |
| `ReviewChain` | pure | what a report says, the latest of the imported ones, which fixes a new one must confirm |
| `ReviewLog` | abstract specification | what `security.rs` promises of imported reviews: one growing, ordered log |
| `Reviews`, `MCReviews`, `ReviewsProofs` | specification | the security commands, beside a checkout that moves |
| `Evidence`, `MCEvidence`, `EvidenceProofs` | specification | the ledger, who appends to it, and release readiness |
| `TaskBook` | abstract specification | what `coordination.rs` promises of sessions: a book in which nothing is lost |
| `Tasks`, `MCTasks`, `TasksProofs` | specification | task sessions with Git's branches and work trees |
| `Runner`, `MCRunner`, `RunnerProofs` | specification | one run of a command: processes, pipes, reader threads, deadline |

`Deploy` uses one atomic step for a staged snapshot; `Snapshot` says what that
step is made of. `Projects` uses one atomic step for a deployment and for the
start or stop of a test session; `Deploy` and `TestSession` say what those are
made of. `Evidence` uses one step for an import and knows only the latest
review; `Reviews` says how it comes to be the latest. `Reviews` uses one step
for the start of a remediation session; `Tasks` says what that is made of. Where
a command runs a program, the modules take one step or a failure; `Runner` says
what that is made of. Operators marked "Seeded fault" are the bugs the properties are tested
against (`mutants` in `PROJECT.json`); nothing else refers to them.

### Deploy

State: the plugin path (`link`), the receipt, the undo journal, the directories
a deployment may point at, the holders of the lock, and for each process its
command and what it has in memory. The path holds a link to one of our
directories, nothing, or something foreign (a link, a file, a directory), which
is all the code distinguishes. A directory is `good` (verifies), `bad` (there,
does not verify), `gone` or `unborn`.

| Action | Code |
|---|---|
| `Acquire` | `RegistryLock::acquire` at the head of each command |
| `Recover`, `Relink`, `DropLink`, `Restore`, `Close` | `recover_journal` (65-97), one action per file it writes |
| `ValidateLive`, `StageSnapshot`, `Switch` | `deploy_live`, `deploy_snapshot` and the checks of `switch_deployment` |
| `RollBack`, `Undeploy`, `Remove`, `Status` | `rollback`, `undeploy` with `remove_link`, `load_receipt_for` |
| `WriteJournal`, `Swing`, `Save`, `Commit`, `Abort` | `publish_deployment` (31-63) |
| `Crash` | the process dies; also a read that fails and returns at once |
| `Replace`, `Edit` | other installers, the user's editor and file manager |

Every write is an action with two outcomes besides success: it failed before
the rename, or after it (`write_atomic_private` and `atomic_link` sync the
directory after the rename). `was` and `calm` are observed only.

### Snapshot

A source is a set of pieces with versions; a pass reads them in any order, one
at a time, while the author edits. `Begin`, `Fingerprint`, `StartCopy`, `Copy`,
`StartRecheck`, `Recheck`, `Decide` and `Return` are `deploy_snapshot`
(170-219) with `content_fingerprint` and `copy_tree`.

### TestSession

State: per session its directory (none, bare, torn record, record), owner and
`started_at_unix`; per process group its leader, whether other members are alive,
and whether the leader's pid has gone to a stranger. One command runs at a time
(the lock is held throughout), so the interleaving is between the command and
the processes: they exit, fork, ignore SIGTERM and free their pids between any
two steps. An id holds a second and the helper's pid and is taken to be used once.

| Action | Code |
|---|---|
| `BeginStart` | `start` (26-50): the look at running sessions, the new tree |
| `SpawnCompositor`, `Await`, `SpawnShell`, `Settle` | `start_prepared`, `wait_for_instance` |
| `Summon` | `summon_plugin`, for the kinds of plugin that are summoned |
| `Save` | the record, dated with any second of `Time` |
| `Term`, `Signal`, `Kill`, `Strike` | `terminate_pid_group`: look, SIGTERM, look again after the grace, SIGKILL, each a step of its own |
| `TermFresh`, `ReapFresh` | `terminate_fresh_child` |
| `CleanUpTree`, `Erase` | removal of the tree by `start` and by `stop` |
| `BeginStop` | `stop`, which takes a newest record; of several, any |
| `Hang` | `hyprctl` or the shell's IPC never answers: both are called by `.output()` without a limit (454, 486) |
| `Crash`, `Exit`, `Fork`, `Reuse` | the helper dies; what the processes and the kernel do |

The clock counts whole seconds and may stand still or go back: `stamp` is any
value of `Time`. `rank` and `written` (the true order of recording) and `seen`
(the strangers there were when the helper last did anything) are observed only.

### Projects

State: `config.json`, the lock, and for each process its job and its copy of
the registry. `Acquire`, `Edit`, `Save`, `Report` are the shape all of
`add_project`, `remove_project`, `refresh_project`, `set_trust` and
`set_capability_approval` have; `Makes` says what each writes. `Load` is
`with_project`, which takes no lock. `NotDeployed` and `NotTesting` are the
checks `remove` makes before it takes the lock to remove. `Gate` is
`definition_is_trusted` and the capability check. The definition file is not a
variable: its author may save anything between two reads, so each read finds
any content (`\E d \in Content`) or fails (`Fail`). `late` is observed only: the
commands whose project another one put to use after they had looked
(`Overtaken`). `link` stands for `link`,
`snapshot` and `rollback`, all of which leave the plugin deployed; a check with
a selected name and an environment probe pass the same gate as `check`. Every
definition is taken to have checks and workflows.

### Updates

`update` and `update-all` take no lock, and a checkout belongs to the user, so
every Git command that acts, and every one whose answer is relied on later, is a
step of its own. The one exception is `Look`, which reads `HEAD` and the status
together; `CheckHead` and `CheckClean` ask for both again, one at a time, before
anything is merged. State: what is checked out, which
plugins have uncommitted changes, the remote, `FETCH_HEAD`, what the shell
loaded at its last scan, and for each process its command, the revisions it was
given, what its inspection found and what became of each plugin. A revision is
the set of commits in its history, so that an ancestor is a subset and a
fast-forward goes to a superset.

| Action | Code |
|---|---|
| `Begin` | the confirmed command with the revisions the user reviewed |
| `Look`, `Fetch`, `Resolve`, `Count` | `inspect_one_result` (329-422); `Fetch` writes the one `FETCH_HEAD` of the checkout, `Resolve` reads it |
| `Choose`, `AllDone` | `apply_one` (101-138), `apply_all` (151-223) |
| `CheckHead`, `CheckClean`, `Stage` | the checks of `apply_reviewed` (546-568), made before and after `validate_staged` |
| `Merge`, `Landed`, `Validate`, `Reset` | `apply_reviewed` (569-595) |
| `Rescan` | `rescan_shell` |
| `Crash` | the process dies |
| `Edit`, `Keep`, `Move` | the user edits or commits; the remote is pushed to |

A command that fails has no effect, except a fetch, merge or reset killed at its
deadline. `Fault` bounds the last two, together with deaths and with a `HEAD`
that cannot be read after the merge. `Validate` runs on the tree as it is then, with
what the user may have edited. `late` is observed only: the plugins others
changed since a command last looked. `Finish`, which ends a command, forgets all
it knew.

### Reviews

State: the checkout, the imported reviews in the order they were stored, what
the briefs, dossiers and the last remediation are about, the lock, and for each
process its command, the checkout as it read it and the review it has in hand. A
review is what the checks read of a report: its revision, verdict, findings,
confirmed fixes, the executables it accounts for, and whether it leaves
something open.

| Action | Code |
|---|---|
| `Begin` | `exact_clean_git` or `git_state` at the head of each command |
| `HandIn`, `CheckClaim` | `validate_review`, `validate_ready_claim` with a new look at the inventory |
| `Acquire`, `Store`, `Announce` | `import_review` (338-382): under the lock it loads, compares and stores; then it appends evidence under a lock of its own |
| `Prepare`, `Status`, `Show` | `prepare`, `status`, `show`; `history` only reads |
| `Draft`, `WriteDossier` | `submission_draft` from its status on, `dossier` |
| `Select`, `StartSession` | `start_remediation`, which looks at the checkout a second time |
| `Fail` | anything that is refused, fails or dies |
| `Move` | the developer commits, checks out, edits |

`Vast` is a checkout with more changes than Git can list in 64 KiB. The runner
then ends `git status` (`process.rs:199`, `514`), and `git_state`, which calls a
checkout dirty only if Git succeeded (`deploy.rs:149`), shows a clean commit.
`Inventory` is what `included_entry` (`security.rs:1151-1162`) lets through: not
what is under `target`, `node_modules`, `.venv` or `vendor` (`Skipped`).
`still` and `alone` are observed only: the commands for which the checkout stood
still until their last look at it, and since whose start no review was stored.

`git_state` runs several Git commands. Here, in `Evidence` and in `Tasks` it is
one step: what it shows if the checkout moves between two of them (the revision
of one moment, the changes of another) is left out.

### Evidence

State: the checkout, the ledger with whether its last line has its newline, the
latest review, the plan file, and for each process what it found. A command does
its work first, then asks for the revision, then appends (`Check`, `Probe`,
`Land` with `NoteReview`, `Decide`, each followed by `AppendLine` or `Tear`).
Release readiness is `Begin`, `FindChecks`, `FindReview`, `Decide`, and
`WritePlan` where a plan was asked for; it reads the ledger without the lock.
`Tear` is an append cut short, by a death or a full disk: the next line is glued
to what it left (`Extended`). `written` is observed only: every line as it was
written. `Window` stands for the 1000 lines that are looked at (`coordination.rs:247`). The changelog,
open sessions, the tag and the origin are a free choice (`fine`).

### Tasks

State: the checkout, the branches and work trees, `sessions.json`, the handoffs,
the lock, and for each process what it wants and what it loaded. `BeginStart` is
the look at the checkout before the lock; `Acquire` loads; `Check`, `Git` and
`SaveStart` are the rest of `start_session`, `SaveClose` is `close_session`,
`LoadHandoff` and `Describe` are `write_handoff`, which takes no lock. `GitFails`
and `Orphan` are a Git that fails or outlives its caller, `Drift` what the latter
does later. `Empty` is the user, who removes a work tree, with or without its
branch. An id is project, task and second joined by hyphens (`Name`), so two
sessions can have the same one. Agents, objectives and notes are left out.

### Runner

State: of every process whether it runs, was killed or is dead, and whether it
holds the pipes; of every pipe how much is in it; of every reader what it has in
hand; the queue between readers and main thread; where the main thread is and
what it has kept. `Start`, `Write`, `Close`, `Exit` and `Die` are the command and
what it starts, in its group or out of it; `Read`, `ReadEnd`, `ReadFails`,
`Send` and `GiveUp` are `spawn_pipe_reader`; `Receive` and `Idle` one round of
the loop in `run_command`, with the notice of a read error (`Note`), whose line
break may go one past the limit; `Terminate`, `Wait`, `LoseTrack` (the first wait
fails), `WaitKilled`, `Abandon` and `Sweep` are `terminate_and_reap` with `reap_adopted_group`; `Drain` and `Return`
are `drain_available` and the end. A process holds both pipes or neither, at most
one read fails, output is counted in units and the exit status is left out.

## 3. Properties

`Deploy`
- `LinkMatchesReceipt`: with no journal pending, a path that links to one of
  our directories links to the receipt's active entry.
- `ImplementsLog`: the receipt that stands, once a pending journal is undone,
  follows `DeploymentLog`. Deaths inside a publication or inside recovery show
  as a whole deployment or as none.
- `OkIsFinal`, `RestoredWhenServed`: what a command reports is true.
- `ForeignKept`: a switch, rollback or undeploy never replaces what others put
  at the path before the command began.
- `RollBackServesVerified`: a rollback serves only what verifies.
- `JournalSettles`: a journal is settled in the end, unless its directory is
  gone or a real directory is in the way. Those two cases block every later
  command (`recover_journal` fails first); the property names them (`Stuck`).

`Snapshot`
- `SnapshotIsAnInstant`, `SnapshotIsCurrent`: what is published is the source at
  one instant, and not before the copy began. The double comparison is needed for
  both. That a quiet source is not refused is proved (`Quiet`).

`TestSession`
- `OneRunning`: a project never has two running sessions. The code looks before
  it starts and a session can be half dead, so this needs `LastRuns`: of the
  sessions of a project only the one recorded last can be running.
- `StopEndsRunning`: a successful stop leaves no running session of the project,
  as long as the clock told its sessions apart (`Told`). `stop` takes the newest
  record without asking whether it runs; `LastRuns` is why that is enough. Two
  records of one second, or a step back of the clock, and stop may take the
  half-dead one.
- `StrangersKept`: a process that had an inherited pid when the helper last
  looked is never signalled. One that gets the pid between the look and the
  signal (`test_session.rs:548-554`, `563-566`) is, and the model has that step.
- `OwnedIsRecorded`: without deaths and failing system calls, whatever is alive
  has a record by which it can be stopped, however its start ended.
- `CommandEnds`: the lock is given back, unless the helper waits for ever for
  `hyprctl`, for the shell's IPC, or for a shell that ignores SIGTERM in
  `terminate_fresh_child` (`Waiting`).

`Projects`
- `ImplementsConsent`: the registry implements `Consent`. Decisions are whole
  and none is lost; a run starts only under a definition the user agreed to, with
  its capabilities approved, as of the registry the run loaded; success of a
  decision is reported only when it was made.
- `RemovedIsUnused`: whatever else runs, `remove` forgets a project in use only if
  it was deployed, or its test session started, after that `remove` had looked.
  Nothing closes that window (`main.rs:367`): without the exception TLC finds a
  `link` that comes between the looks and the lock.

`Updates`
- `UpdatesInv`, for its part `HeadIsValid`: no revision is checked out that does
  not validate, whatever fails or dies, because it is validated in a clone first.
- `OnlyReviewed`: a command moves a checkout only forward to the revision it was
  given, or back to the one it found, however the remote, the user, `FETCH_HEAD`
  and other commands move.
- `WorkKept`: what the user edits or commits is lost only to `reset --hard`, and
  only if it, or another update, came after the command's last look. The code
  cannot do without that window; the second look after the long validation is
  what keeps it short.
- `FailedIsUndone`: a plugin reported failed is as it was found.
- `UpdatedIsServed`: success means that the shell has loaded what was reviewed.

`Reviews`
- `ImplementsLog`: imported reviews follow `ReviewLog`: one sequence that only
  grows, with stamps in its order even if the clock goes back, in which a ready
  review confirms the fix of what its predecessor found at another commit.
- `FindingsTraced`: the code looks one review back. Over a chain that amounts to:
  a finding vanishes only by a confirmed fix, by a review that is not ready, or
  by a second review of the same commit. The last two are ways out the code has.
- `ReadyIsLast`: Ready is the word of the review stored last, of the commit the
  command saw.
- `ReadyAccounts`, `DossierIsReady`, `RemedyAtReviewed`: a ready review accounts
  for the executables of its commit outside the directories the inventory skips,
  a dossier is of a ready review, a remediation starts where its findings are.
  Each command looks twice and is held to this where nothing moved between the
  looks (`still`, `alone`); an import that had its last look may be overtaken.

`Evidence`
- `EvidenceIsTrue`: evidence is true of the revision it names, for commands the
  checkout stood still for. For others the code cannot tell (it asks for the
  revision after the work).
- `ReadyIsChecked`: ready needs a passing check of the revision with no newer
  failing one, as of the time the command began. A check selected by name counts
  like a run of all.
- `ReadyIsReviewed`: ready needs a ready review of the commit there. A checkout
  that goes from an unreviewed commit to a reviewed one between the two looks
  (`workbench.rs:250`, `272`) gets an ok plan for the unreviewed one; hence
  `still`.
- `LossIsBounded`: a torn append costs its own line and at most one more, and a
  ledger that can be read has all that was written.

`Tasks`
- `ImplementsBook`: sessions are only ever added or closed once, and no branch has
  two open owners, however starts and closes race.
- `OwnTree`, `HandoffIsOwn`: an open session, and a handoff of it, has the work
  tree its own start made, never one a dead start or an older session has left.

`Runner`
- `RunnerInv`: no more than the limit is kept, but for the line break before the
  notice of a read error; no run goes on without killing a leader that has not
  ended.
- `GroupGone`: nothing of the command's group runs when the run returns, unless
  the first wait for the leader failed (`process.rs:275`).
- `Complete`: a run that reports neither limit nor deadline has all the output of
  every stream that no read failed on.
- `Returns`: a run returns, unless a process that left the group writes for ever
  while the run drains the queue: `drain_available` (`process.rs:345-362`) has no
  bound and no fairness makes it find the queue empty.
- `ReadersEnd`: a reader thread ends once the run has returned and nobody holds
  its pipe.

The inductive invariants of the proofs (`SwitchInv`, `CourseInv`, `PassInv`,
`SessionInv`, `OwnerInv`, `ProjectsInv`, `UnusedInv`, `ReviewsInv`, `EvidenceInv`,
`TasksInv`, `FlowInv` and what the proof modules add) hold for every value of the
constants. TLC was asked each before it was proved; only `updates` (`UpdatesInv`)
and `runner` (`RunnerInv`) repeat one.

## 4. Runs

| Run | Bounds | Shows |
|---|---|---|
| `deploy` | 2 processes, a checkout, 2 fresh and 1 legacy snapshot, active index at most 2, 2 faults, 1 outside change at any moment; weak fairness | all properties of `Deploy` |
| `snapshot` | 3 pieces, 2 edits of each | both properties of `Snapshot` |
| `session` | 2 projects, 2 sessions, a clock of 2 values, 1 fault; the first session is of the first project; weak fairness | all properties of `TestSession` |
| `projects` | 2 processes, 2 projects, 1 definition | `ImplementsConsent` |
| `projects_used` | 2 processes, 1 project, 2 definitions, all commands | `RemovedIsUnused`, `ImplementsConsent` |
| `updates` | 2 processes, 1 plugin, 2 remote commits of which one does not validate, 1 commit of the user, 1 fault, 1 change | all properties of `Updates` |
| `reviews` | 2 processes, 2 revisions, 1 finding, 2 executables of which 1 is in a directory that is skipped, 6 kinds of report, 3 reviews, 4 commands, 1 move, a clock of 2 values | all properties of `Reviews` |
| `reviews_large` | reports with blockers, and one that is within the size limit only as it was sent | violated: "Review evidence remains inspectable" (`README.md:327`) |
| `evidence` | 2 processes, 2 revisions of which one fails its checks, 3 commands, 3 lines of which 2 are looked at, 1 torn append, 1 move | all properties of `Evidence` |
| `evidence_vast` | 1 process, 2 commands, 1 move | violated: readiness "checks ... clean Git state" (`README.md:293`) |
| `tasks` | 2 processes, 2 projects, 2 tasks, ids that collide, 3 commands, 1 fault, 1 change | all properties of `Tasks` |
| `runner` | the leader, 1 process in its group, 1 that left it, limit, chunk, pipe and queue of 1 unit each; weak fairness | all properties of `Runner` |

Why the bounds are enough. Two processes are the least that can race and the
lock admits one at a time, so a third only repeats what the second does; the
theorems of section 5 hold for any number. Two faults let a command die in the middle of undoing
another. An active index of 2 is enough for a rollback and for a deployment that
truncates the history. One outside change is enough to invalidate any one check
before its use. Two sessions let a second be started beside a half-dead one, and
two seconds let the clock order them, tie or go back. Two definitions let a file
change and change back; `projects` needs one, as contention is about the
registry, and `projects_used` has one project, as its properties relate commands
about the same project. `updates` has one plugin, as two processes
over two are out of TLC's reach; all five of its properties are proved for any
number of plugins, batches included. With two commits the remote can move
forward, back and sideways; one change is enough to come between any two steps.
Three reviews let an import between two others hide a finding; one move is
enough to come between any two looks. Three lines with a window of two let a check
leave the window, and one torn append lets the next line be glued. Three commands
start, close and hand off one session, or start two whose ids collide. In
`runner` one unit of each size makes every boundary (limit reached, pipe and
queue full) happen at once. Every counter that is bounded (`MaxHistory`,
`MaxFaults`, `MaxTouches`, `MaxEdits`, `MaxChanges`, `MaxReviews`, `MaxCalls`,
`MaxMoves`, `MaxLines`) is bounded in a guard of the action that counts. Symmetry
is used in `snapshot`, `projects`, `updates`, `reviews`, `evidence` and `tasks`,
which check no liveness.

Fairness. `Deploy`: a running command goes on, and commands keep being run (the
panel runs `list` whenever it is opened, `Panel.qml`). `TestSession`: a command
that can take a step does; its children are under no obligation, and the tools it
calls may never answer. Nothing is assumed of deaths, failures or other tools.
`Runner`: main thread and readers are scheduled (`WF`), and the deadline comes
(`WF` of a late round: time passes); nothing is assumed of the command, nor that
the main thread ever finds the queue empty. The other modules promise no progress.

Only `session` switches deadlock checking off: there a tool that never answers
may stop everything, and all ids may be used up. Elsewhere a new command, or an
outside change, is always possible, or the module has a step (`Done`, `Stay`) that
says when it may rest: all commands have ended, the run has returned.

## 5. Proofs

For every value of the constants, under those named assumptions of the modules
that the proofs need (`DirectoryAssumption`: the checkout is no snapshot
directory; `PathAssumption`: foreign objects are none of our directories;
`BoundAssumption`, `FaultAssumption`: the bounds are natural numbers;
`NobodyAssumption`, `UnregisteredAssumption`, `NoJobAssumption`,
`NoneAssumption`: these values are distinct from those they stand beside;
`ReportAssumption`, `TimeAssumption`, `SizeAssumption`: the constants have their
types; `CommitAssumption`: what the user commits is no commit of the remote and
does not invalidate a plugin; `UnknownAssumption`: `Unknown` is no revision):

| Module | Theorems | Argument |
|---|---|---|
| `DeployProofs` | `TypeCorrect`, `Invariant`, `LinkAgrees`, `Implements` | `LinkMatchesReceipt` says nothing while a journal is open, yet recovery re-establishes it from the journal. `SwitchInv` adds what each step of a command finds on disk (`OnDisk`) and that one process at a time runs (`OneCommand`). Each step is then shown to be a `Deploy`, a `RollBack` or a stutter of `DeploymentLog`: `Commit` is the step at which a deployment takes effect, since unlinking the journal is what makes the new receipt the one that stands |
| `DeployProofs` | `Course`, `OkFinal`, `Restored`, `KeepsForeign`, `VerifiedRollBack` | what a command reports depends on how it came to be where it is, which no file on disk says: `CourseInv` adds, for each step, which commands reach it, what the path held before (`Owned`), and what still holds of path and directories as long as nobody else has changed them (`Undisturbed`). `CourseOfOne` reduces it to the one process that runs; `Returns` and `Writes` say which steps can report and which can replace the link |
| `DeployProofs` | `Passes`, `Instant`, `Current`, `Quiet` (of `Snapshot`) | versions only grow, so a piece that is the same in the first and last pass was the same throughout; `PassInv` bounds what each pass has read by the source at its start and now |
| `TestSessionProofs` | `Invariant`, `OneAtATime`, `StopIsFinal`, `NoStranger`, `Recoverable` | `SessionInv`: a leader that is down stays down, so once a session is recorded after another that one cannot come back; `rank` is the order of recording, whatever the clock said, and `StopIsFinal` has as hypothesis that the clock told the project's records apart. `Strange`: a pid that has just matched was no stranger's, so only one that changes hands in the step between look and signal is hit. `OwnerInv` adds that whatever is alive of the current session is still to be terminated when its record is erased (`Accounted`), the list of what is to be terminated being of any length |
| `ProjectsProofs` | `Invariant`, `Implements`, `NotInUse` | `ProjectsInv`: only the holder of the lock is between its load and its save, and its copy is the registry (`edit`) or the registry but for its decision (`save`). `Save` maps to `Decide`, `Load` of a run to `See`, `Gate` to `Run`, the end of a command to `End`, the rest stutters. `NotInUse` is of any number of processes: what `remove` has found (`Unused`) stays so unless another command overtakes it, which nobody can do once it has the lock |
| `UpdatesProofs` | `Invariant`, `ReviewedOnly`, `UserWorkKept`, `FailureUndone`, `Served` | nothing is locked, so the invariant says of each command what is still true of its plugin *unless others changed it*: `Pinned` (what it will merge is what it was given), `Watched` (the plugin is where it was found or put, and clean since the second look), `Followed` (what it decided is so). `Moves` reduces every step of a command to a merge, a reset or nothing; each conjunct is then shown to survive a command's own steps, those of others, and changes from outside |
| `ReviewsProofs` | `Invariant`, `Locked`, `Implements`, `Traced`, `Ready`, `Accounts`, `Dossiers`, `Remedies` | `NewestIsLast`: as stamps grow, the newest review by its stamp is the one stored last (by the well-foundedness of the natural numbers). `Command` says of each command what it may still rely on: an import under the lock on the review it compared with, one the checkout stood still for on what it saw, one beside which nothing was stored on the status. `TraceGrows` is the step of `FindingsTraced`: it speaks of chains of any length and the code looks one review back |
| `EvidenceProofs` | `Invariant`, `Ledger`, `Truth`, `Checked`, `ReviewedFirst`, `Losses`, `Appended` | `Books` relates the ledger to what was written: it is shorter by at most the torn lines, has no more broken lines than there were faults, and is the same if it can be read; so what `has_passing_checks` finds in the ledger was written. `Standing` says what is still so for a command the checkout stood still for |
| `TasksProofs` | `Invariant`, `Locked`, `OneOwner`, `OwnTrees`, `Implements`, `Handoffs`, `Bases` | each open session, recorded, loaded or about to be recorded, has its own work tree unless the user emptied the path (`Backed`): Git refuses a path or branch that is there, so no later start and no Git left adrift replaces it. Only a save under the lock changes the record, so it maps to `Start` or `Close` of `TaskBook` |
| `RunnerProofs` | `Runs`, `Bounded`, `Gone`, `AllOfIt` | nothing joins a group none of whose processes runs (`NoReturn`). For the output, `FlowInv`: what was written is what is kept, and what each event of the queue adds, and what the reader holds and the pipe (`Counted`: there are partial sums along the queue, which a send extends and a receive shifts, so no induction over it is needed); a reader that is over without an error met a pipe that was empty and had no writer left; and the loop is left with a pipe open only at the limit or at the deadline |

Every safety property that a run checks is a theorem. Only model-checked are the
liveness properties `JournalSettles`, `CommandEnds`, `Returns` and `ReadersEnd`,
which are out of the prover's reach as they need fairness and `ENABLED`.

## 6. What the model shows of the code

The runs that end in a violation are disagreements between the code and what its
documentation says; `findings` in `PROJECT.json` quotes each.

- `reviews_large`: `import_review` reads a report up to the size limit and stores
  it indented and with a stamp, which is longer; `load_reviews` then refuses the
  record, and with it every security command of the project.
- `evidence_vast`: a checkout with so many changes that `git status` exceeds the
  output limit counts as clean, for readiness, reviews and sessions alike.

What the models show besides, in the places named:

- `deploy.rs:54`: a deployment that fails after an `undeploy` says "previous link
  and receipt restored" and has re-created the link the user had removed.
- `deploy.rs:76-93`: recovery replaces what others have put at the plugin path
  since the death, which `SECURITY.md:14` rules out; a drifted snapshot is
  replaced without the inspection of `docs/design.md:54`. `ForeignKept` is about
  commands without recovery.
- `test_session.rs`: stop leaves members of an owned group alive once its leader
  is gone, and a compositor without its shell does not count as active
  (`README.md:205`).
- `test_session.rs:272`: `stop` takes the newest record by a clock of whole
  seconds; if a half-dead session and the one started beside it have the same
  second it may stop the former and report success.
- `main.rs:367`: `remove` looks at deployments and sessions under other critical
  sections than the one that removes, so a project deployed in between is
  forgotten.
- `coordination.rs:87`: a start that dies after Git's work leaves a branch and a
  work tree without a record, and its retry is refused; `coordination.rs:76`: the
  second of two sessions with one id cannot be closed by it.
- `workbench.rs:250`, `272`: readiness reads the checkout twice (see
  `ReadyIsReviewed`); `workbench.rs:143`: a selected check counts as all checks.
- `coordination.rs:187`: once a line is torn, `read_evidence` fails for good.
- `docs/design.md:58` is out of date and harmless: since the journal was added, a
  crash between link and receipt is undone by the next command.
- `update` has a retry that does not help: if the rescan fails the command reports
  an error with the plugin updated, and the next `update` finds it up to date and
  does not rescan.
- Consent is stated for the registry a run has loaded. That no command starts
  after `refresh`, `untrust` or `revoke` has reported success elsewhere does not
  hold: `with_project` reads without the lock (`main.rs:916`).

## 7. Not modelled

`PROJECT.json` lists every component with its status.

- Marketplace: `require_verified_install_authority` (`marketplace.rs:18-22`)
  refuses every install, managed update and repair, so the transaction behind it
  cannot be reached; the rest is a catalogue cache and an uninstall that moves one
  directory.
- Project status, doctor: one-shot reports that change nothing.
- Panel: layout around one helper process at a time; `Panel.qml` calls the
  commands modelled here and keeps only what they answered.
- Manifest, scaffold, inventory, paths, argument parsing: sequential, no state
  across commands.
- Submission draft: as a user of status and dossier only; its argument checks and
  text are left out.

Left out within the modelled components: wording, the rescan of the shell after a
deployment (its failure is a warning), file modes, the sort order of lists, the
uniqueness of project roots (another way for `add` to fail), the text of reports,
briefs, dossiers and handoffs, and the exit status of a run.

## 8. Plan

1. The composition of `Deploy` with `Snapshot`: that the one step in which
   `Deploy` stages a snapshot is what the passes of `Snapshot` do, as theorems.
2. `Evidence` and `Reviews` composed: the ledger's review entries against the log
   of reviews.
3. `Panel` (`Panel.qml`): the queue of actions, the deferred completion, a result
   that must belong to the action it is shown for.
4. Marketplace, should installs be enabled.
