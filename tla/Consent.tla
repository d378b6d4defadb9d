------------------------------ MODULE Consent ------------------------------
(***************************************************************************)
(* What the workbench promises about trust: a decision takes effect once,  *)
(* as a whole, on what the decisions before it have left, and is never     *)
(* undone but by another one; a project's commands run only if the user    *)
(* agreed to the very definition they come from, and approved every        *)
(* capability they need, by the time the run was asked for.                *)
(***************************************************************************)
EXTENDS Decisions

CONSTANT Process

VARIABLES
  entries,    \* what the user agreed to and approved, for each project
  job,
  stage,      \* how far a command is
  seen,       \* the entry a run is held to
  ran,        \* the definition whose commands it runs
  told        \* what it reported

vars == <<entries, job, stage, seen, ran, told>>

Entry == [agreed : SUBSET Content, approved : SUBSET Capability]

Held(agreed, approved) == [agreed |-> agreed, approved |-> approved]

Fresh(agreed) == Held(agreed, {})

\* Decision j turns the entry e into f.
Answer(j, e, f) ==
  \/ j.op = "add" /\ e = Unregistered /\ f = Fresh({})
  \/ /\ j.op = "add-trusting" /\ e = Unregistered
     /\ \E d \in Content : f = Fresh({d})
  \/ /\ e # Unregistered
     /\ \/ j.op = "remove" /\ f = Unregistered
        \/ j.op = "refresh" /\ f = Fresh({})
        \/ /\ j.op = "trust"
           /\ \E d \in Content : f = Held({d}, e.approved)
        \/ j.op = "untrust" /\ f = Held({}, e.approved)
        \/ j.op = "approve" /\ f = Held(e.agreed, e.approved \cup j.caps)
        \/ j.op = "revoke" /\ f = Held(e.agreed, e.approved \ j.caps)

Init ==
  /\ entries = [p \in Project |-> Unregistered]
  /\ job = [q \in Process |-> NoJob]
  /\ stage = [q \in Process |-> "idle"]
  /\ seen = [q \in Process |-> Unregistered]
  /\ ran = [q \in Process |-> Absent]
  /\ told = [q \in Process |-> "none"]

Ask(q, j) ==
  /\ stage[q] = "idle"
  /\ stage' = [stage EXCEPT ![q] = "asked"]
  /\ job' = [job EXCEPT ![q] = j]
  /\ told' = [told EXCEPT ![q] = "none"]
  /\ UNCHANGED <<entries, seen, ran>>

Decide(q) ==
  /\ stage[q] = "asked" /\ job[q].op \in Decides
  /\ stage' = [stage EXCEPT ![q] = "done"]
  /\ \E f \in Entry \cup {Unregistered} :
       /\ Answer(job[q], entries[job[q].project], f)
       /\ entries' = [entries EXCEPT ![job[q].project] = f]
  /\ UNCHANGED <<job, seen, ran, told>>

See(q) ==
  /\ stage[q] = "asked" /\ job[q].op \in Runs
  /\ entries[job[q].project] # Unregistered
  /\ stage' = [stage EXCEPT ![q] = "seen"]
  /\ seen' = [seen EXCEPT ![q] = entries[job[q].project]]
  /\ UNCHANGED <<entries, job, ran, told>>

Run(q) ==
  /\ stage[q] = "seen"
  /\ job[q].caps \subseteq seen[q].approved
  /\ stage' = [stage EXCEPT ![q] = "running"]
  /\ \E d \in Content :
       seen[q].agreed = {d} /\ ran' = [ran EXCEPT ![q] = d]
  /\ UNCHANGED <<entries, job, seen, told>>

\* A decision is reported made only when it was.
End(q) ==
  /\ stage[q] # "idle"
  /\ \E o \in {"ok", "error"} :
       /\ o = "ok" /\ job[q].op \in Decides => stage[q] = "done"
       /\ told' = [told EXCEPT ![q] = o]
  /\ stage' = [stage EXCEPT ![q] = "idle"]
  /\ seen' = [seen EXCEPT ![q] = Unregistered]
  /\ ran' = [ran EXCEPT ![q] = Absent]
  /\ job' = [job EXCEPT ![q] = NoJob]
  /\ UNCHANGED entries

Next ==
  \E q \in Process :
    \/ \E j \in Job : Ask(q, j)
    \/ Decide(q) \/ See(q) \/ Run(q) \/ End(q)

Spec == Init /\ [][Next]_vars
=============================================================================
