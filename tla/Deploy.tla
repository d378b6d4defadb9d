------------------------------- MODULE Deploy -------------------------------
(***************************************************************************)
(* src/deploy.rs for one plugin id: the commands link, snapshot, rollback, *)
(* undeploy and the receipt read of `status`, each run by a process of its *)
(* own under the advisory workbench lock.                                  *)
(*                                                                         *)
(* A switch touches three things that cannot change together: the link the *)
(* shell loads the plugin from, the receipt, and the undo journal.  Every  *)
(* step between two of them is an action here.  A process may die between  *)
(* any two steps, any write may fail before or after it took effect (the   *)
(* rename succeeds and the directory fsync does not), and the user may     *)
(* change the link or the directories with other tools.                    *)
(***************************************************************************)
EXTENDS Receipts

CONSTANTS
  Proc,         \* the processes that run a command
  MaxHistory,   \* bound: deployments are started below this active index
  MaxFaults,    \* bound: failed writes and deaths of a process
  MaxTouches    \* bound: changes made outside the program

ASSUME BoundAssumption ==
  /\ MaxHistory \in Nat
  /\ MaxFaults \in Nat
  /\ MaxTouches \in Nat

\* What the plugin path holds when it is not one of the link targets.
Absent == "absent"
Foreign == {"link", "file", "dir"}

ASSUME PathAssumption == Targets \cap (Foreign \cup {Absent}) = {}

Commands == {"link", "snapshot", "rollback", "undeploy", "status"}

VARIABLES
  link,      \* the plugin path: Absent, a directory linked to, or Foreign
  receipt,   \* the receipt file
  journal,   \* the undo journal: open, and the receipt to go back to
  dirs,      \* the directories a deployment may point at
  lock,      \* the processes holding workbench.lock
  pc,        \* where each command is
  cmd,       \* the command; "abort" once its publication failed
  dst,       \* the directory it deploys
  prev,      \* the receipt it loaded
  was,       \* the plugin path when it loaded that receipt (observed only)
  outcome,   \* what the last command to end reported
  faults, touches,
  calm       \* no change from outside since the last command began (observed only)

files == <<link, receipt, journal>>
locals == <<cmd, dst, prev, was>>
bounds == <<faults, touches, calm>>
vars == <<files, dirs, lock, pc, locals, outcome, bounds>>

NoJournal == [open |-> FALSE, prev |-> NoReceipt]

Journal == [open : BOOLEAN, prev : Receipt]

\* The receipt that stands once a pending journal has been undone.
Recorded == IF journal.open THEN journal.prev ELSE receipt

Steps == {"idle", "recover", "relink", "droplink", "restore", "close", "work",
          "switch", "journal", "swing", "save", "commit", "remove"}

TypeOK ==
  /\ link \in Targets \cup Foreign \cup {Absent}
  /\ receipt \in Receipt
  /\ journal \in Journal
  /\ dirs \in [Targets -> {"unborn", "good", "bad", "gone"}]
  /\ lock \in SUBSET Proc
  /\ pc \in [Proc -> Steps]
  /\ cmd \in [Proc -> Commands \cup {"none", "abort"}]
  /\ dst \in [Proc -> Targets]
  /\ prev \in [Proc -> Receipt]
  /\ was \in [Proc -> Targets \cup Foreign \cup {Absent}]
  /\ outcome \in {"none", "ok", "error", "restored"}
  /\ faults \in 0 .. MaxFaults
  /\ touches \in 0 .. MaxTouches
  /\ calm \in BOOLEAN

\* Nothing deployed, or a deployment made by a release without digests.
Init ==
  /\ receipt \in {NoReceipt} \cup {Push(NoReceipt, t) : t \in Legacy}
  /\ link = IF receipt = NoReceipt THEN Absent ELSE Active(receipt)
  /\ journal = NoJournal
  /\ dirs = [t \in Targets |->
               IF t = Live \/ link = t THEN "good" ELSE "unborn"]
  /\ lock = {}
  /\ pc = [p \in Proc |-> "idle"]
  /\ cmd = [p \in Proc |-> "none"]
  /\ dst = [p \in Proc |-> Live]
  /\ prev = [p \in Proc |-> NoReceipt]
  /\ was = [p \in Proc |-> Absent]
  /\ outcome = "none"
  /\ faults = 0
  /\ touches = 0
  /\ calm = TRUE

-----------------------------------------------------------------------------
(* Steps of a command                                                      *)

Goto(p, l) == pc' = [pc EXCEPT ![p] = l]

\* The command returns o; dropping RegistryLock releases the lock.
Finish(p, o) ==
  /\ Goto(p, "idle")
  /\ lock' = lock \ {p}
  /\ outcome' = o
  /\ cmd' = [cmd EXCEPT ![p] = "none"]
  /\ dst' = [dst EXCEPT ![p] = Live]
  /\ prev' = [prev EXCEPT ![p] = NoReceipt]
  /\ was' = [was EXCEPT ![p] = Absent]

Fault == faults < MaxFaults /\ faults' = faults + 1 /\ UNCHANGED <<touches, calm>>

Running == UNCHANGED <<lock, outcome>>

Acquire(p, c) ==
  /\ pc[p] = "idle"
  /\ lock = {}
  /\ c \in {"link", "snapshot"} => Recorded.act < MaxHistory
  /\ lock' = {p}
  /\ cmd' = [cmd EXCEPT ![p] = c]
  /\ Goto(p, "recover")
  /\ calm' = TRUE
  /\ UNCHANGED <<files, dirs, dst, prev, was, outcome, faults, touches>>

(***************************************************************************)
(* recover_journal, at the start of every command and again when a         *)
(* publication fails.                                                      *)
(***************************************************************************)
\* The command proper, or the failure that made it recover, comes next.
AfterRecovery(p) ==
  IF cmd[p] = "abort"
    THEN Finish(p, "restored")
    ELSE Goto(p, "work") /\ Running /\ UNCHANGED locals

Recover(p) ==
  /\ pc[p] = "recover"
  /\ \/ ~journal.open /\ AfterRecovery(p)
     \/ /\ journal.open
        /\ Goto(p, IF journal.prev = NoReceipt THEN "droplink" ELSE "relink")
        /\ Running /\ UNCHANGED locals
  /\ UNCHANGED <<files, dirs, bounds>>

\* atomic_link opens the directory and renames a fresh link over the path,
\* which replaces anything but a directory.
CanLink(t) == dirs[t] \in {"good", "bad"} /\ link # "dir"

Relink(p) ==
  /\ pc[p] = "relink"
  /\ LET t == Active(journal.prev) IN
       \/ /\ CanLink(t)
          /\ link' = t
          /\ Goto(p, "restore") /\ Running
          /\ UNCHANGED <<locals, bounds>>
       \/ /\ CanLink(t) /\ Fault
          /\ link' \in {link, t}
          /\ Finish(p, "error")
       \/ /\ ~CanLink(t)
          /\ Finish(p, "error")
          /\ UNCHANGED <<link, bounds>>
  /\ UNCHANGED <<receipt, journal, dirs>>

IsSymlink == link \in Targets \cup {"link"}

DropLink(p) ==
  /\ pc[p] = "droplink"
  /\ LET rest == IF IsSymlink THEN Absent ELSE link IN
       \/ /\ link' = rest
          /\ Goto(p, "restore") /\ Running
          /\ UNCHANGED <<locals, bounds>>
       \/ Fault /\ link' \in {link, rest} /\ Finish(p, "error")
  /\ UNCHANGED <<receipt, journal, dirs>>

\* Seeded fault: recovery puts the link back and forgets the receipt.
RestoreNothing(p) ==
  /\ pc[p] = "restore"
  /\ Goto(p, "close") /\ Running
  /\ UNCHANGED <<files, dirs, locals, bounds>>

Restore(p) ==
  /\ pc[p] = "restore"
  /\ \/ /\ receipt' = journal.prev
        /\ Goto(p, "close") /\ Running
        /\ UNCHANGED <<locals, bounds>>
     \/ Fault /\ receipt' \in {receipt, journal.prev} /\ Finish(p, "error")
  /\ UNCHANGED <<link, journal, dirs>>

\* Seeded fault: recovery leaves the journal in place.
CloseKeepsJournal(p) ==
  /\ pc[p] = "close"
  /\ AfterRecovery(p)
  /\ UNCHANGED <<files, dirs, bounds>>

Close(p) ==
  /\ pc[p] = "close"
  /\ \/ /\ journal' = NoJournal
        /\ AfterRecovery(p)
        /\ UNCHANGED bounds
     \/ Fault /\ journal' \in {journal, NoJournal} /\ Finish(p, "error")
  /\ UNCHANGED <<link, receipt, dirs>>

(***************************************************************************)
(* What each command does once the journal is settled.                     *)
(***************************************************************************)
Refuse(p) == Finish(p, "error") /\ UNCHANGED <<files, dirs, bounds>>

\* verify_managed_target: the path is a link to the active entry.
Managed == receipt # NoReceipt /\ link = Active(receipt)

\* deploy_live up to switch_deployment.
ValidateLive(p) ==
  /\ pc[p] = "work" /\ cmd[p] = "link"
  /\ \/ /\ dirs[Live] = "good"
        /\ dst' = [dst EXCEPT ![p] = Live]
        /\ Goto(p, "switch") /\ Running
        /\ UNCHANGED <<files, dirs, cmd, prev, was, bounds>>
     \/ dirs[Live] # "good" /\ Refuse(p)

\* deploy_snapshot up to switch_deployment: the copy, its checks and the
\* rename to a name no snapshot had before, as one step (see Snapshot).
StageSnapshot(p) ==
  /\ pc[p] = "work" /\ cmd[p] = "snapshot"
  /\ \/ \E t \in Snapshots \ Legacy :
          /\ dirs[Live] = "good"
          /\ dirs[t] = "unborn"
          /\ dirs' = [dirs EXCEPT ![t] = "good"]
          /\ dst' = [dst EXCEPT ![p] = t]
          /\ Goto(p, "switch") /\ Running
          /\ UNCHANGED <<files, cmd, prev, was, bounds>>
     \/ Refuse(p)

\* Seeded fault: having a receipt is taken for owning the path.
SwitchUnchecked(p) ==
  /\ pc[p] = "switch"
  /\ \/ /\ link = Absent \/ receipt # NoReceipt
        /\ prev' = [prev EXCEPT ![p] = receipt]
        /\ was' = [was EXCEPT ![p] = link]
        /\ Goto(p, "journal") /\ Running
        /\ UNCHANGED <<files, dirs, cmd, dst, bounds>>
     \/ link # Absent /\ receipt = NoReceipt /\ Refuse(p)

\* The ownership check of switch_deployment.
Switch(p) ==
  /\ pc[p] = "switch"
  /\ \/ /\ link = Absent \/ Managed
        /\ prev' = [prev EXCEPT ![p] = receipt]
        /\ was' = [was EXCEPT ![p] = link]
        /\ Goto(p, "journal") /\ Running
        /\ UNCHANGED <<files, dirs, cmd, dst, bounds>>
     \/ ~(link = Absent \/ Managed) /\ Refuse(p)

\* Seeded fault: a target only has to be there.
Exists(t) == dirs[t] \in {"good", "bad"}

\* verify_entry: the digest matches and the manifest is valid.
Verified(t) == dirs[t] = "good" /\ t \notin Legacy

RollBack(p) ==
  /\ pc[p] = "work" /\ cmd[p] = "rollback"
  /\ LET possible == Managed /\ receipt.act > 1
         t == receipt.hist[receipt.act - 1]
     IN \/ /\ possible /\ Verified(t)
           /\ prev' = [prev EXCEPT ![p] = receipt]
           /\ was' = [was EXCEPT ![p] = link]
           /\ dst' = [dst EXCEPT ![p] = t]
           /\ Goto(p, "journal") /\ Running
           /\ UNCHANGED <<files, dirs, cmd, bounds>>
        \/ ~(possible /\ Verified(t)) /\ Refuse(p)

Undeploy(p) ==
  /\ pc[p] = "work" /\ cmd[p] = "undeploy"
  /\ \/ /\ Managed
        /\ Goto(p, "remove") /\ Running
        /\ UNCHANGED <<files, dirs, locals, bounds>>
     \/ ~Managed /\ Refuse(p)

\* remove_link unlinks whatever is there by now, a directory excepted.
Remove(p) ==
  /\ pc[p] = "remove"
  /\ LET possible == link \notin {Absent, "dir"} IN
       \/ /\ possible
          /\ link' = Absent
          /\ Finish(p, "ok")
          /\ UNCHANGED bounds
       \/ possible /\ Fault /\ link' \in {link, Absent} /\ Finish(p, "error")
       \/ ~possible /\ Finish(p, "error") /\ UNCHANGED <<link, bounds>>
  /\ UNCHANGED <<receipt, journal, dirs>>

\* load_receipt_for has settled the journal and reads the receipt.
Status(p) ==
  /\ pc[p] = "work" /\ cmd[p] = "status"
  /\ Finish(p, "ok")
  /\ UNCHANGED <<files, dirs, bounds>>

(***************************************************************************)
(* publish_deployment                                                      *)
(***************************************************************************)
\* The receipt to be saved.
Planned(p) ==
  IF cmd[p] = "rollback" THEN StepBack(prev[p]) ELSE Push(prev[p], dst[p])

\* A failure here returns at once: a journal that was written stays.
WriteJournal(p) ==
  /\ pc[p] = "journal"
  /\ LET record == [open |-> TRUE, prev |-> prev[p]] IN
       \/ /\ journal' = record
          /\ Goto(p, "swing") /\ Running
          /\ UNCHANGED <<locals, bounds>>
       \/ Fault /\ journal' \in {journal, record} /\ Finish(p, "error")
  /\ UNCHANGED <<link, receipt, dirs>>

\* Seeded fault: a failed publication returns without undoing anything.
AbortAtOnce(p) == Finish(p, "restored")

\* A failed link or receipt is undone by recover_journal before returning.
Abort(p) ==
  /\ cmd' = [cmd EXCEPT ![p] = "abort"]
  /\ Goto(p, "recover") /\ Running
  /\ UNCHANGED <<dst, prev, was>>

Swing(p) ==
  /\ pc[p] = "swing"
  /\ \/ /\ CanLink(dst[p])
        /\ link' = dst[p]
        /\ Goto(p, "save") /\ Running
        /\ UNCHANGED <<locals, bounds>>
     \/ CanLink(dst[p]) /\ Fault /\ link' \in {link, dst[p]} /\ Abort(p)
     \/ ~CanLink(dst[p]) /\ Abort(p) /\ UNCHANGED <<link, bounds>>
  /\ UNCHANGED <<receipt, journal, dirs>>

\* Seeded fault: the result of save_receipt is ignored.
SaveUnchecked(p) ==
  /\ pc[p] = "save"
  /\ \/ receipt' = Planned(p) /\ UNCHANGED bounds
     \/ Fault /\ receipt' \in {receipt, Planned(p)}
  /\ Goto(p, "commit") /\ Running
  /\ UNCHANGED <<link, journal, dirs, locals>>

Save(p) ==
  /\ pc[p] = "save"
  /\ \/ /\ receipt' = Planned(p)
        /\ Goto(p, "commit") /\ Running
        /\ UNCHANGED <<locals, bounds>>
     \/ Fault /\ receipt' \in {receipt, Planned(p)} /\ Abort(p)
  /\ UNCHANGED <<link, journal, dirs>>

\* Unlinking the journal makes the deployment final.
Commit(p) ==
  /\ pc[p] = "commit"
  /\ \/ journal' = NoJournal /\ Finish(p, "ok") /\ UNCHANGED bounds
     \/ Fault /\ journal' \in {journal, NoJournal} /\ Finish(p, "error")
  /\ UNCHANGED <<link, receipt, dirs>>

-----------------------------------------------------------------------------
(* Deaths and other tools                                                  *)

\* The process dies: the kernel drops its lock, the files stay as they are.
\* Also a read or a check that fails, which returns without further change.
Crash(p) ==
  /\ p \in lock
  /\ Fault
  /\ Finish(p, "error")
  /\ UNCHANGED <<files, dirs>>

Touch ==
  /\ touches < MaxTouches
  /\ touches' = touches + 1
  /\ calm' = FALSE
  /\ UNCHANGED <<receipt, journal, lock, pc, locals, outcome, faults>>

\* The user or another installer puts something of its own at the plugin
\* path, or clears the path.
Replace ==
  /\ Touch
  /\ link' \in (Foreign \cup {Absent}) \ {link}
  /\ UNCHANGED dirs

\* A directory is edited so that it no longer verifies, deleted, or, for the
\* checkout, repaired.
Edit(t) ==
  /\ Touch
  /\ \/ dirs[t] = "good" /\ dirs' = [dirs EXCEPT ![t] = "bad"]
     \/ dirs[t] \in {"good", "bad"} /\ dirs' = [dirs EXCEPT ![t] = "gone"]
     \/ t = Live /\ dirs[t] = "bad" /\ dirs' = [dirs EXCEPT ![t] = "good"]
  /\ UNCHANGED link

Step(p) ==
  \/ Recover(p) \/ Relink(p) \/ DropLink(p) \/ Restore(p) \/ Close(p)
  \/ ValidateLive(p) \/ StageSnapshot(p) \/ Switch(p) \/ RollBack(p)
  \/ Undeploy(p) \/ Remove(p) \/ Status(p)
  \/ WriteJournal(p) \/ Swing(p) \/ Save(p) \/ Commit(p)

Next ==
  \/ \E p \in Proc :
       Step(p) \/ Crash(p) \/ \E c \in Commands : Acquire(p, c)
  \/ Replace
  \/ \E t \in Targets : Edit(t)

Spec == Init /\ [][Next]_vars

\* A running command goes on, and somebody keeps running commands (the panel
\* alone runs `list` whenever it is opened).
Fairness ==
  /\ \A p \in Proc : WF_vars(Step(p))
  /\ WF_vars(\E p \in Proc, c \in Commands : Acquire(p, c))

FairSpec == Spec /\ Fairness

-----------------------------------------------------------------------------
(* Properties                                                              *)

\* Outside of a switch in flight, a plugin path that links to a deployment
\* links to the active one of the receipt: rollback, undeploy and status act
\* on what the shell really loads.  Holds through deaths, failed writes and
\* whatever other tools put at the path.
LinkMatchesReceipt ==
  ~journal.open /\ link \in Targets => Managed

\* publish_deployment, recover_journal and the lock together make a receipt
\* that only ever records a whole deployment or steps back by one.
Log == INSTANCE DeploymentLog WITH log <- Recorded

ImplementsLog == Log!Spec

\* A command that reports success has left no undo journal behind, has saved
\* the receipt it planned and points the shell at what it deployed.
OkIsFinal ==
  [][\A p \in lock \ lock' :
       outcome' = "ok" /\ cmd[p] \in {"link", "snapshot", "rollback"} =>
         /\ ~journal'.open
         /\ receipt' = Planned(p)
         /\ Active(receipt') = dst[p]
         /\ calm => link' = dst[p]]_vars

\* "previous link and receipt restored" (publish_deployment) is true of a
\* plugin that was linked, or had never been deployed.
RestoredWhenServed ==
  [][\A p \in lock \ lock' :
       outcome' = "restored" /\ (was[p] = Absent => prev[p] = NoReceipt) =>
         /\ receipt' = prev[p]
         /\ calm => link' = was[p]]_vars

\* A command never replaces what other tools put at the plugin path before it
\* began, unless it is settling a journal.
ForeignKept ==
  [][link' # link /\ link \in Foreign /\ calm' =>
       \A p \in lock : pc[p] \in {"relink", "droplink"}]_vars

\* Rolling back never makes a directory active that has no digest or that
\* fails its checks, however the commands before it ended.
RollBackServesVerified ==
  [][\A p \in lock :
       cmd[p] = "rollback" /\ pc[p] = "swing" /\ link' # link /\ calm' =>
         dirs[link'] = "good" /\ link' \notin Legacy]_vars

\* The journal of a dead command is settled in the end, unless the directory
\* to go back to is gone or a real directory occupies the plugin path.
Stuck == journal.prev # NoReceipt /\ ~CanLink(Active(journal.prev))

JournalSettles == journal.open ~> (~journal.open \/ Stuck)

(***************************************************************************)
(* Why LinkMatchesReceipt holds.  It says nothing while the journal is     *)
(* open, yet recovery re-establishes it from the journal, so an inductive  *)
(* invariant has to say what each step of a command finds on disk.         *)
(***************************************************************************)
Agrees(r) == link \in Targets => r # NoReceipt /\ link = Active(r)

OneCommand ==
  /\ \A p \in Proc : pc[p] # "idle" <=> p \in lock
  /\ \A p, q \in lock : p = q

OnDisk(p) ==
  /\ pc[p] \in {"work", "switch", "journal", "remove"} => ~journal.open
  /\ pc[p] = "switch" => cmd[p] \in {"link", "snapshot"}
  /\ pc[p] \in {"relink", "droplink", "restore", "close"} => journal.open
  /\ pc[p] = "relink" => journal.prev # NoReceipt
  /\ pc[p] = "droplink" => journal.prev = NoReceipt
  /\ pc[p] \in {"restore", "close"} => Agrees(journal.prev)
  /\ pc[p] = "close" => receipt = journal.prev
  /\ pc[p] \in {"journal", "swing", "save", "commit"} =>
       (cmd[p] = "rollback" =>
          prev[p].act > 1 /\ dst[p] = prev[p].hist[prev[p].act - 1])
  /\ pc[p] = "journal" => receipt = prev[p]
  /\ pc[p] \in {"swing", "save", "commit"} =>
       journal.open /\ journal.prev = prev[p]
  /\ pc[p] \in {"save", "commit"} => Agrees(Planned(p))
  /\ pc[p] = "commit" => receipt = Planned(p)

\* One command at a time, and each step finds on disk what the steps before
\* it have written: the inductive strengthening of LinkMatchesReceipt.
SwitchInv == OneCommand /\ LinkMatchesReceipt /\ \A p \in Proc : OnDisk(p)

(***************************************************************************)
(* What a success, "restored" and the untouched foreign path rest on: not  *)
(* only what is on disk but how the command came to be where it is, and    *)
(* what still holds of the path and the directories as long as no other    *)
(* tool has changed them since it began.                                   *)
(***************************************************************************)
Publishing(p) == pc[p] \in {"journal", "swing", "save", "commit"}

\* What the path held before deployment r was replaced, by the ownership
\* checks of switch_deployment and rollback.
Owned(r, path) == path = Absent \/ (r # NoReceipt /\ path = Active(r))

Undisturbed(p) ==
  /\ pc[p] = "remove" => link \in Targets
  /\ Publishing(p) \/ cmd[p] = "abort" => link \in Targets \cup {Absent}
  /\ cmd[p] = "rollback" /\ pc[p] \in {"journal", "swing"} =>
       Verified(dst[p])
  /\ pc[p] \in {"save", "commit"} => link = dst[p]
  /\ cmd[p] = "abort" /\ pc[p] \in {"restore", "close"} =>
       link = IF prev[p] = NoReceipt THEN Absent ELSE Active(prev[p])

OnCourse(p) ==
  /\ pc[p] = "remove" => cmd[p] = "undeploy"
  /\ cmd[p] = "abort" =>
       /\ pc[p] \in {"recover", "relink", "droplink", "restore", "close"}
       /\ journal.open
       /\ journal.prev = prev[p]
  /\ Publishing(p) \/ cmd[p] = "abort" => Owned(prev[p], was[p])
  /\ calm => Undisturbed(p)

\* Every command is where only its own steps could have brought it: with
\* SwitchInv, the inductive strengthening of the four action properties.
CourseInv == \A p \in Proc : OnCourse(p)
=============================================================================
