------------------------------ MODULE Projects ------------------------------
(***************************************************************************)
(* src/registry.rs and what main.rs and workbench.rs make of the registry: *)
(* which project's commands run, what is deployed or tested, and when a    *)
(* project may be removed.                                                 *)
(*                                                                         *)
(* Commands that change the registry load, change and save it under the    *)
(* workbench lock.  All others load it without, then do what they are for: *)
(* run commands of the project without the lock, or deploy and test with   *)
(* it.  The author may save another definition, or a broken one, between   *)
(* any two reads of the file, so a read finds any content or fails.        *)
(*                                                                         *)
(* A deployment and a test session are a step of a command here; Deploy    *)
(* and TestSession say what that step is made of.                          *)
(***************************************************************************)
EXTENDS Decisions

CONSTANTS
  Process,
  Nobody        \* who holds a free lock

VARIABLES
  registry,     \* config.json
  holder,       \* of workbench.lock
  job, pc,
  copy,         \* the registry as a process has it in memory
  told,         \* what its last command reported
  deployed,     \* the projects with a receipt and something at its target
  testing,      \* the projects with a running test session
  late          \* observed: whose project was put to use after they looked

vars == <<registry, holder, job, pc, copy, told, deployed, testing, late>>

Entry == [definition : Content,        \* definition_digest, and its commands
          trusted : BOOLEAN,           \* project_checks_trusted
          agreed : Content,            \* trusted_definition_digest
          approved : SUBSET Capability]

ASSUME NobodyAssumption == Nobody \notin Process

ASSUME UnregisteredAssumption ==
  /\ Unregistered \notin Entry
  /\ Unregistered \notin [agreed : SUBSET Content, approved : SUBSET Capability]

Registry == [Project -> Entry \cup {Unregistered}]

Empty == [p \in Project |-> Unregistered]

Init ==
  /\ registry = Empty
  /\ holder = Nobody
  /\ job = [q \in Process |-> NoJob]
  /\ pc = [q \in Process |-> "idle"]
  /\ copy = [q \in Process |-> Empty]
  /\ told = [q \in Process |-> "none"]
  /\ deployed = {} /\ testing = {} /\ late = {}

-----------------------------------------------------------------------------
Goto(q, l) == pc' = [pc EXCEPT ![q] = l]

shared == <<registry, deployed, testing, late>>

Finish(q, o) ==
  /\ Goto(q, "idle")
  /\ told' = [told EXCEPT ![q] = o]
  /\ copy' = [copy EXCEPT ![q] = Empty]
  /\ holder' = IF holder = q THEN Nobody ELSE holder
  /\ job' = [job EXCEPT ![q] = NoJob]

\* Any command fails where a call it makes fails, or dies.
Fail(q) == pc[q] # "idle" /\ Finish(q, "error") /\ UNCHANGED shared

Begin(q, j) ==
  /\ pc[q] = "idle"
  /\ job' = [job EXCEPT ![q] = j]
  /\ Goto(q, IF j.op \in Decides \ {"remove"} THEN "lock" ELSE "load")
  /\ told' = [told EXCEPT ![q] = "none"]
  /\ late' = late \ {q}
  /\ UNCHANGED <<registry, holder, copy, deployed, testing>>

\* with_project: no lock is taken.
Load(q) ==
  LET p == job[q].project IN
    /\ pc[q] = "load"
    /\ registry[p] # Unregistered
    /\ copy' = [copy EXCEPT ![q] = [Empty EXCEPT ![p] = registry[p]]]
    /\ Goto(q, CASE job[q].op = "remove" -> "deployed"
                 [] job[q].op \in Runs   -> "gate"
                 [] OTHER                -> "use")
    /\ UNCHANGED <<shared, holder, job, told>>

-----------------------------------------------------------------------------
(* Changing the registry                                                   *)

\* Seeded fault: the lock is taken for reading only.
AcquireShared(q) ==
  /\ pc[q] = "lock"
  /\ holder' = q
  /\ copy' = [copy EXCEPT ![q] = registry]
  /\ Goto(q, "edit")
  /\ UNCHANGED <<shared, job, told>>

Acquire(q) ==
  /\ pc[q] = "lock" /\ holder = Nobody
  /\ holder' = q
  /\ copy' = [copy EXCEPT ![q] = registry]
  /\ Goto(q, "edit")
  /\ UNCHANGED <<shared, job, told>>

New(d, trusting) ==
  [definition |-> d, trusted |-> trusting,
   agreed |-> IF trusting THEN d ELSE Absent, approved |-> {}]

Given(e, trusting, d) ==
  [e EXCEPT !.trusted = trusting, !.agreed = IF trusting THEN d ELSE Absent]

\* set_trust: the file must be as it was registered, to withdraw as to give.
Trust(j, e, d, f) == d = e.definition /\ f = Given(e, j.op = "trust", d)

\* With d in the definition file, decision j turns the entry e into f.
Makes(j, e, d, f) ==
  \/ j.op = "add" /\ e = Unregistered /\ f = New(d, FALSE)
  \/ j.op = "add-trusting" /\ e = Unregistered /\ f = New(d, TRUE)
  \/ /\ e # Unregistered
     /\ \/ j.op = "remove" /\ f = Unregistered
        \/ j.op = "refresh" /\ f = New(d, FALSE)
        \/ j.op \in {"trust", "untrust"} /\ Trust(j, e, d, f)
        \/ j.op = "approve" /\ f = [e EXCEPT !.approved = @ \cup j.caps]
        \/ j.op = "revoke" /\ f = [e EXCEPT !.approved = @ \ j.caps]

Edit(q) ==
  LET p == job[q].project IN
    /\ pc[q] = "edit"
    /\ \E d \in Content, f \in Entry \cup {Unregistered} :
         /\ Makes(job[q], copy[q][p], d, f)
         /\ copy' = [copy EXCEPT ![q][p] = f]
    /\ Goto(q, "save")
    /\ UNCHANGED <<shared, holder, job, told>>

\* The rename puts the whole registry in place at once.
Save(q) ==
  /\ pc[q] = "save"
  /\ registry' = copy[q]
  /\ Goto(q, "report")
  /\ UNCHANGED <<holder, job, copy, told, deployed, testing, late>>

\* set_permissions may still fail (Fail); then the change stands all the same.
Report(q) == pc[q] = "report" /\ Finish(q, "ok") /\ UNCHANGED shared

-----------------------------------------------------------------------------
(* Command::Remove                                                         *)

\* Seeded fault: a deployed project may be removed.
NotDeployedUnchecked(q) ==
  /\ pc[q] = "deployed" /\ holder = Nobody
  /\ Goto(q, "quiet")
  /\ UNCHANGED <<shared, holder, job, copy, told>>

\* managed_deployment_exists takes the lock and gives it back.
NotDeployed(q) ==
  /\ pc[q] = "deployed" /\ holder = Nobody
  /\ job[q].project \notin deployed
  /\ Goto(q, "quiet")
  /\ UNCHANGED <<shared, holder, job, copy, told>>

\* So does active_count.
NotTesting(q) ==
  /\ pc[q] = "quiet" /\ holder = Nobody
  /\ job[q].project \notin testing
  /\ Goto(q, "lock")
  /\ UNCHANGED <<shared, holder, job, copy, told>>

-----------------------------------------------------------------------------
(* Running what a project defines                                          *)

Mine(q) == copy[q][job[q].project]

\* Seeded fault: trust is not tied to having been given.
DefinitionUnchanged(e, d) == d = e.definition

\* definition_is_trusted, with d in the definition file.
DefinitionIsTrusted(e, d) == e.trusted /\ d = e.definition /\ e.agreed = d

\* Checks and probes need trust alone, a workflow its capabilities too.
Gate(q) ==
  /\ pc[q] = "gate" /\ Mine(q).definition # Absent
  /\ \E d \in Content : DefinitionIsTrusted(Mine(q), d)
  /\ job[q].caps \subseteq Mine(q).approved
  /\ Goto(q, "run")
  /\ UNCHANGED <<shared, holder, job, copy, told>>

\* A project without checks passes them, trusted or not.
Skip(q) ==
  /\ pc[q] = "gate" /\ job[q].op = "check" /\ Mine(q).definition = Absent
  /\ Finish(q, "ok") /\ UNCHANGED shared

Ran(q) == pc[q] = "run" /\ Finish(q, "ok") /\ UNCHANGED shared

-----------------------------------------------------------------------------
(* Deploying and testing                                                   *)

\* The removes that will not notice.
Overtaken(q) ==
  {r \in Process :
     /\ pc[r] \in {"quiet", "lock"}
     /\ job[r].op = "remove" /\ job[r].project = job[q].project
     /\ \/ job[q].op = "link"
        \/ job[q].op = "test-start" /\ pc[r] = "lock"}

\* An error may be reported although the command had its effect.
Use(q) ==
  LET p == job[q].project IN
    /\ pc[q] = "use" /\ holder = Nobody
    /\ \/ job[q].op = "link" /\ deployed' = deployed \cup {p} /\ UNCHANGED testing
       \/ /\ job[q].op = "undeploy" /\ p \in deployed
          /\ deployed' = deployed \ {p} /\ UNCHANGED testing
       \/ /\ job[q].op = "test-start" /\ p \notin testing
          /\ testing' = testing \cup {p} /\ UNCHANGED deployed
       \/ job[q].op = "test-stop" /\ testing' = testing \ {p} /\ UNCHANGED deployed
    /\ late' = late \cup Overtaken(q)
    /\ \E o \in {"ok", "error"} : Finish(q, o)
    /\ UNCHANGED registry

\* The compositor or the shell of a test session exits.
Exit(p) ==
  /\ p \in testing /\ testing' = testing \ {p}
  /\ UNCHANGED <<registry, deployed, holder, job, pc, copy, told, late>>

Next ==
  \/ \E q \in Process :
       \/ \E j \in Job : Begin(q, j)
       \/ Fail(q) \/ Load(q)
       \/ Acquire(q) \/ Edit(q) \/ Save(q) \/ Report(q)
       \/ NotDeployed(q) \/ NotTesting(q)
       \/ Gate(q) \/ Skip(q) \/ Ran(q)
       \/ Use(q)
  \/ \E p \in Project : Exit(p)

Spec == Init /\ [][Next]_vars

-----------------------------------------------------------------------------
(* Properties                                                              *)

\* What the user has agreed to, as the registry records it.
Agreed(e) ==
  IF e = Unregistered THEN Unregistered
  ELSE [agreed |-> IF e.trusted THEN {e.agreed} ELSE {}, approved |-> e.approved]

Stage(q) ==
  CASE pc[q] = "idle"       -> "idle"
    [] pc[q] = "report"     -> "done"
    [] pc[q] = "gate"       -> "seen"
    [] pc[q] = "run"        -> "running"
    [] OTHER                -> "asked"

C == INSTANCE Consent WITH
       entries <- [p \in Project |-> Agreed(registry[p])],
       stage <- [q \in Process |-> Stage(q)],
       seen <- [q \in Process |->
                  IF pc[q] \in {"gate", "run"} THEN Agreed(Mine(q)) ELSE Unregistered],
       ran <- [q \in Process |-> IF pc[q] = "run" THEN Mine(q).definition ELSE Absent]

\* Trust is bound to the exact definition: no decision is lost to another
\* project's or another process's, none comes back by itself, no command runs
\* that the user had not agreed to, and no decision is reported that was not
\* made.
ImplementsConsent == C!Spec

\* "project is still deployed; run undeploy before remove", and the same for
\* test sessions: whatever runs beside it, remove forgets a project in use only
\* if it was deployed, or its session started, after remove had looked for
\* exactly that.  Nothing closes that window: the looks are not under the lock
\* the entry is removed under.
RemovedIsUnused ==
  [][\A p \in Project :
       registry[p] # Unregistered /\ registry'[p] = Unregistered /\ holder \notin late =>
         p \notin deployed \cup testing]_vars

-----------------------------------------------------------------------------
Steps == {"idle", "lock", "load", "edit", "save", "report", "deployed",
          "quiet", "gate", "run", "use"}

TypeOK ==
  /\ registry \in Registry
  /\ holder \in Process \cup {Nobody}
  /\ job \in [Process -> Job \cup {NoJob}]
  /\ pc \in [Process -> Steps]
  /\ copy \in [Process -> Registry]
  /\ told \in [Process -> {"none", "ok", "error"}]
  /\ deployed \subseteq Project
  /\ testing \subseteq Project
  /\ late \subseteq Process

\* An entry is trusted with the definition it was registered with, or not.
Bound(e) == e # Unregistered /\ e.trusted => e.agreed = e.definition

\* Why ImplementsConsent holds: a process that changes the registry has it to
\* itself, and what it will write is what the registry says, but for its job.
Exclusive(q) ==
  /\ pc[q] = "idle" <=> job[q] = NoJob
  /\ pc[q] \in {"edit", "save", "report"} <=> holder = q
  /\ pc[q] \in {"lock", "edit", "save", "report"} => job[q].op \in Decides
  /\ pc[q] \in {"deployed", "quiet"} => job[q].op = "remove"
  /\ pc[q] \in {"gate", "run"} => job[q].op \in Runs /\ Mine(q) # Unregistered

\* The registry q is about to save.
Intended(q, file) ==
  LET p == job[q].project IN
    \E d \in Content, f \in Entry \cup {Unregistered} :
      Makes(job[q], registry[p], d, f) /\ file = [registry EXCEPT ![p] = f]

Faithful(q) ==
  /\ pc[q] = "edit" => copy[q] = registry
  /\ pc[q] = "save" => Intended(q, copy[q])
  /\ pc[q] = "run" => Mine(q).trusted /\ job[q].caps \subseteq Mine(q).approved

ProjectsInv ==
  /\ TypeOK
  /\ \A q \in Process : Exclusive(q) /\ Faithful(q)
  /\ \A p \in Project : Bound(registry[p])
  /\ \A q \in Process, p \in Project : Bound(copy[q][p])

\* Why RemovedIsUnused holds: what a remove has found stays so until it has the
\* lock, unless it is overtaken, and then nothing is put to use.
Unused(q) ==
  LET p == job[q].project IN
    q \notin late =>
      /\ pc[q] = "quiet" => p \notin deployed
      /\ pc[q] \in {"lock", "edit", "save"} /\ job[q].op = "remove" =>
           p \notin deployed \cup testing

UnusedInv == \A q \in Process : Unused(q)
=============================================================================
