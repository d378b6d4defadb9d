--------------------------- MODULE ProjectsProofs ---------------------------
(***************************************************************************)
(* Proofs about Projects: the registry implements Consent.                 *)
(***************************************************************************)
EXTENDS Projects, TLAPS

Any == Entry \cup {Unregistered}

\* A new entry, and one that trust is given to, are entries.
LEMMA NewType ==
  ASSUME NEW d \in Content, NEW t \in BOOLEAN
  PROVE  /\ New(d, t) \in Entry
         /\ \A e \in Entry : Given(e, t, d) \in Entry
BY DEF New, Given, Entry, Content

LEMMA CapsType ==
  ASSUME NEW e \in Entry, NEW j \in Job
  PROVE  /\ [e EXCEPT !.approved = @ \cup j.caps] \in Entry
         /\ [e EXCEPT !.approved = @ \ j.caps] \in Entry
<1>1. j.caps \subseteq Capability
  BY DEF Job
<1> QED BY <1>1 DEF Entry

\* Every decision binds trust to the definition it registers or finds.
LEMMA MakesBound ==
  ASSUME NEW e \in Any, NEW j \in Job, NEW d \in Content, NEW f \in Any,
         Makes(j, e, d, f), Bound(e)
  PROVE  Bound(f)
<1>1. CASE f = New(d, FALSE) \/ f = New(d, TRUE)
  BY <1>1 DEF New, Bound
<1>2. CASE f = Unregistered
  BY <1>2 DEF Bound
<1>3. CASE e \in Entry /\ Trust(j, e, d, f)
  BY <1>3 DEF Trust, Given, Entry, Bound
<1>4. CASE /\ e \in Entry
           /\ \/ f = [e EXCEPT !.approved = @ \cup j.caps]
              \/ f = [e EXCEPT !.approved = @ \ j.caps]
  BY <1>4, UnregisteredAssumption DEF Entry, Bound
<1> QED BY <1>1, <1>2, <1>3, <1>4 DEF Makes, Any

\* Each decision of the registry is the decision Consent speaks of.
LEMMA MakesAnswers ==
  ASSUME NEW e \in Any, NEW j \in Job, NEW d \in Content, NEW f \in Any,
         Makes(j, e, d, f)
  PROVE  C!Answer(j, Agreed(e), Agreed(f))
         /\ Agreed(f) \in C!Entry \cup {Unregistered}
<1>1. Agreed(f) \in C!Entry \cup {Unregistered}
  BY DEF Any, Agreed, Entry, C!Entry, Content, C!Content
<1>2. CASE e = Unregistered
  <2>1. f \in {New(d, FALSE), New(d, TRUE)} /\ f # Unregistered
    BY <1>2, NewType, UnregisteredAssumption DEF Makes
  <2>2. \/ j.op = "add" /\ Agreed(f) = C!Fresh({})
        \/ j.op = "add-trusting" /\ Agreed(f) = C!Fresh({d})
    BY <1>2, <2>1 DEF Makes, Agreed, New, C!Fresh, C!Held
  <2>3. Agreed(e) = Unregistered
    BY <1>2 DEF Agreed
  <2> QED BY <1>1, <2>2, <2>3 DEF C!Answer, Content, C!Content
<1>3. CASE e # Unregistered
  <2>0. /\ e \in Entry /\ Agreed(e) # Unregistered
        /\ Agreed(e) = [agreed |-> IF e.trusted THEN {e.agreed} ELSE {},
                        approved |-> e.approved]
        /\ Agreed(e) \in C!Entry
    BY <1>3, UnregisteredAssumption DEF Any, Agreed, Entry, C!Entry, Content, C!Content
  <2>1. CASE j.op = "remove" /\ f = Unregistered
    BY <1>1, <2>0, <2>1 DEF C!Answer, Agreed
  <2>2. CASE j.op = "refresh" /\ f = New(d, FALSE)
    <3>1. f # Unregistered
      BY <2>2, NewType, UnregisteredAssumption
    <3> QED BY <1>1, <2>0, <2>2, <3>1 DEF C!Answer, C!Fresh, C!Held, Agreed, New
  <2>3. CASE j.op \in {"trust", "untrust"} /\ Trust(j, e, d, f)
    <3>1. /\ f # Unregistered
          /\ f.trusted = (j.op = "trust") /\ f.approved = e.approved
          /\ f.agreed = IF j.op = "trust" THEN d ELSE Absent
      <4>1. f = Given(e, j.op = "trust", d) /\ f \in Entry
        BY <2>0, <2>3, NewType DEF Trust
      <4> QED BY <2>0, <4>1, UnregisteredAssumption DEF Given, Entry
    <3>2. /\ Agreed(f) = [agreed |-> IF f.trusted THEN {f.agreed} ELSE {},
                          approved |-> f.approved]
      BY <3>1 DEF Agreed
    <3>3. Agreed(e).approved = e.approved
      BY <2>0
    <3>4. CASE j.op = "trust"
      <4>1. Agreed(f) = C!Held({d}, Agreed(e).approved)
        BY <3>1, <3>2, <3>3, <3>4 DEF C!Held
      <4> QED BY <1>1, <2>0, <3>4, <4>1 DEF C!Answer, Content, C!Content
    <3>5. CASE j.op = "untrust"
      <4>1. Agreed(f) = C!Held({}, Agreed(e).approved)
        BY <3>1, <3>2, <3>3, <3>5 DEF C!Held
      <4> QED BY <1>1, <2>0, <3>5, <4>1 DEF C!Answer
    <3> QED BY <2>3, <3>4, <3>5
  <2>4. CASE /\ j.op = "approve" /\ f = [e EXCEPT !.approved = @ \cup j.caps]
    <3>1. /\ f # Unregistered /\ f.trusted = e.trusted /\ f.agreed = e.agreed
          /\ f.approved = e.approved \cup j.caps
      BY <2>0, <2>4, CapsType, UnregisteredAssumption DEF Entry
    <3>2. Agreed(f) = [agreed |-> IF e.trusted THEN {e.agreed} ELSE {},
                       approved |-> e.approved \cup j.caps]
      BY <3>1 DEF Agreed
    <3>3. Agreed(e).agreed = (IF e.trusted THEN {e.agreed} ELSE {})
          /\ Agreed(e).approved = e.approved
      BY <2>0
    <3> QED BY <1>1, <2>0, <2>4, <3>2, <3>3 DEF C!Answer, C!Held
  <2>5. CASE /\ j.op = "revoke" /\ f = [e EXCEPT !.approved = @ \ j.caps]
    <3>1. /\ f # Unregistered /\ f.trusted = e.trusted /\ f.agreed = e.agreed
          /\ f.approved = e.approved \ j.caps
      BY <2>0, <2>5, CapsType, UnregisteredAssumption DEF Entry
    <3>2. Agreed(f) = [agreed |-> IF e.trusted THEN {e.agreed} ELSE {},
                       approved |-> e.approved \ j.caps]
      BY <3>1 DEF Agreed
    <3>3. Agreed(e).agreed = (IF e.trusted THEN {e.agreed} ELSE {})
          /\ Agreed(e).approved = e.approved
      BY <2>0
    <3> QED BY <1>1, <2>0, <2>5, <3>2, <3>3 DEF C!Answer, C!Held
  <2> QED BY <1>3, <2>1, <2>2, <2>3, <2>4, <2>5 DEF Makes
<1> QED BY <1>2, <1>3

-----------------------------------------------------------------------------
(* The inductive invariant                                                 *)

LEMMA EmptyType == Empty \in Registry /\ \A p \in Project : Bound(Empty[p])
BY DEF Empty, Registry, Bound

LEMMA Start == Init => ProjectsInv
<1> SUFFICES ASSUME Init PROVE ProjectsInv
  OBVIOUS
<1>1. TypeOK
  BY EmptyType DEF Init, TypeOK, Steps
<1>2. \A q \in Process : Exclusive(q) /\ Faithful(q)
  BY NobodyAssumption DEF Init, Exclusive, Faithful
<1>3. /\ \A p \in Project : Bound(registry[p])
      /\ \A q \in Process, p \in Project : Bound(copy[q][p])
  BY EmptyType DEF Init
<1> QED BY <1>1, <1>2, <1>3 DEF ProjectsInv

\* One process moves and leaves the registry as it is: what there is to show
\* is about that process.
LEMMA Moving ==
  ASSUME ProjectsInv, TypeOK', NEW q \in Process, registry' = registry,
         \A r \in Process \ {q} :
           /\ pc'[r] = pc[r] /\ job'[r] = job[r] /\ copy'[r] = copy[r]
           /\ holder' = r <=> holder = r,
         Exclusive(q)', Faithful(q)',
         \A p \in Project : Bound(copy'[q][p])
  PROVE  ProjectsInv'
<1>1. ASSUME NEW r \in Process \ {q} PROVE Exclusive(r)' /\ Faithful(r)'
  <2>0. Exclusive(r) /\ Faithful(r)
    BY DEF ProjectsInv
  <2>1. Mine(r)' = Mine(r)
    BY DEF Mine
  <2>2. Exclusive(r)'
    BY <2>0, <2>1 DEF Exclusive
  <2>3. pc'[r] = "save" => Intended(r, copy[r])'
    BY <2>0 DEF Faithful, Intended
  <2> QED BY <2>0, <2>1, <2>2, <2>3 DEF Faithful
<1>2. \A r \in Process, p \in Project : Bound(copy'[r][p])
  BY DEF ProjectsInv
<1>3. \A r \in Process : Exclusive(r)' /\ Faithful(r)'
  BY <1>1
<1> QED BY <1>2, <1>3 DEF ProjectsInv

LEMMA Finishing ==
  ASSUME ProjectsInv, NEW q \in Process, NEW o \in {"ok", "error"}, Finish(q, o),
         registry' = registry, late' \subseteq Process,
         deployed' \subseteq Project, testing' \subseteq Project
  PROVE  ProjectsInv'
<1>1. TypeOK'
  BY EmptyType DEF ProjectsInv, TypeOK, Finish, Goto, Steps
<1>2. /\ pc'[q] = "idle" /\ job'[q] = NoJob /\ holder' # q /\ copy'[q] = Empty
      /\ \A r \in Process \ {q} :
           /\ pc'[r] = pc[r] /\ job'[r] = job[r] /\ copy'[r] = copy[r]
           /\ holder' = r <=> holder = r
  BY NobodyAssumption DEF ProjectsInv, TypeOK, Finish, Goto
<1>3. Exclusive(q)' /\ Faithful(q)'
  BY <1>2 DEF Exclusive, Faithful
<1> QED BY <1>1, <1>2, <1>3, EmptyType, Moving

LEMMA StepInv ==
  ASSUME ProjectsInv, NEW q \in Process,
         \/ \E j \in Job : Begin(q, j)
         \/ Fail(q) \/ Load(q) \/ Acquire(q) \/ Edit(q) \/ Save(q) \/ Report(q)
         \/ NotDeployed(q) \/ NotTesting(q) \/ Gate(q) \/ Skip(q) \/ Ran(q) \/ Use(q)
  PROVE  ProjectsInv'
<1>0. /\ TypeOK /\ Exclusive(q) /\ Faithful(q)
      /\ \A p \in Project : Bound(registry[p]) /\ Bound(copy[q][p])
  BY DEF ProjectsInv
<1>1. ASSUME NEW j \in Job, Begin(q, j) PROVE ProjectsInv'
  <2>1. TypeOK'
    BY <1>0, <1>1 DEF TypeOK, Begin, Goto, Steps
  <2>2. /\ job'[q] = j /\ pc'[q] \in {"lock", "load"} /\ holder' = holder
        /\ pc[q] = "idle" /\ copy'[q] = copy[q] /\ registry' = registry
        /\ pc'[q] = "lock" => j.op \in Decides
        /\ \A r \in Process \ {q} :
             pc'[r] = pc[r] /\ job'[r] = job[r] /\ copy'[r] = copy[r]
    BY <1>0, <1>1 DEF TypeOK, Begin, Goto, shared
  <2>3. Exclusive(q)' /\ Faithful(q)'
    BY <1>0, <2>2, NoJobAssumption DEF Exclusive, Faithful
  <2> QED BY <1>0, <2>1, <2>2, <2>3, Moving
<1>2. CASE Fail(q) \/ Report(q) \/ Skip(q) \/ Ran(q)
  <2>1. PICK o \in {"ok", "error"} : Finish(q, o)
    BY <1>2 DEF Fail, Report, Skip, Ran
  <2>2. UNCHANGED shared
    BY <1>2 DEF Fail, Report, Skip, Ran
  <2> QED BY <1>0, <2>1, <2>2, Finishing DEF shared, TypeOK
<1>3. CASE Load(q)
  <2> DEFINE p == job[q].project
  <2>1. job[q] \in Job /\ p \in Project
    BY <1>0, <1>3 DEF Load, Exclusive, TypeOK, Job
  <2>2. copy'[q] = [Empty EXCEPT ![p] = registry[p]] /\ copy'[q] \in Registry
        /\ Mine(q)' = registry[p] /\ registry[p] # Unregistered
    BY <1>0, <1>3, <2>1, EmptyType DEF Load, TypeOK, Registry, Empty, Mine
  <2>3. TypeOK'
    BY <1>0, <1>3, <2>2 DEF Load, TypeOK, Goto, Steps, shared
  <2>4. /\ pc'[q] \in {"deployed", "gate", "use"} /\ pc[q] = "load"
        /\ pc'[q] = "deployed" => job[q].op = "remove"
        /\ pc'[q] = "gate" => job[q].op \in Runs
        /\ job' = job /\ holder' = holder /\ registry' = registry
        /\ \A r \in Process \ {q} : pc'[r] = pc[r] /\ copy'[r] = copy[r]
    BY <1>0, <1>3 DEF Load, Goto, TypeOK, shared
  <2>5. Exclusive(q)' /\ Faithful(q)'
    BY <1>0, <2>2, <2>4 DEF Exclusive, Faithful, Decides
  <2>6. \A r \in Project : Bound(copy'[q][r])
    BY <1>0, <2>1, <2>2, EmptyType DEF Empty
  <2> QED BY <2>3, <2>4, <2>5, <2>6, Moving
<1>4. CASE Acquire(q)
  <2>1. TypeOK'
    BY <1>0, <1>4 DEF Acquire, TypeOK, Goto, Steps, shared
  <2>2. /\ pc'[q] = "edit" /\ pc[q] = "lock" /\ holder' = q /\ holder = Nobody
        /\ copy'[q] = registry /\ job' = job /\ registry' = registry
        /\ \A r \in Process \ {q} : pc'[r] = pc[r] /\ copy'[r] = copy[r]
    BY <1>0, <1>4 DEF Acquire, Goto, TypeOK, shared
  <2>3. Exclusive(q)' /\ Faithful(q)'
    BY <1>0, <2>2 DEF Exclusive, Faithful
  <2> QED BY <1>0, <2>1, <2>2, <2>3, NobodyAssumption, Moving
<1>5. CASE Edit(q)
  <2> DEFINE p == job[q].project
  <2>1. job[q] \in Job /\ p \in Project /\ copy[q] = registry
    BY <1>0, <1>5 DEF Edit, Exclusive, Faithful, TypeOK, Job
  <2>2. PICK d \in Content, f \in Any :
          /\ Makes(job[q], registry[p], d, f)
          /\ copy' = [copy EXCEPT ![q][p] = f]
    BY <1>5, <2>1 DEF Edit, Any
  <2>3. copy'[q] = [registry EXCEPT ![p] = f] /\ copy'[q] \in Registry
    BY <1>0, <2>1, <2>2 DEF TypeOK, Registry, Any
  <2>4. /\ pc'[q] = "save" /\ pc[q] = "edit"
        /\ job' = job /\ holder' = holder /\ registry' = registry
        /\ \A r \in Process \ {q} : pc'[r] = pc[r] /\ copy'[r] = copy[r]
    BY <1>0, <1>5, <2>2 DEF Edit, Goto, TypeOK, shared
  <2>5. TypeOK'
    <3>1. copy' \in [Process -> Registry]
      BY <1>0, <2>2, <2>3 DEF TypeOK
    <3> QED BY <1>0, <1>5, <3>1 DEF Edit, TypeOK, Goto, Steps, shared
  <2>6. Intended(q, copy[q])'
    BY <2>2, <2>3, <2>4 DEF Intended, Any
  <2>7. Exclusive(q)' /\ Faithful(q)'
    BY <1>0, <2>4, <2>6 DEF Exclusive, Faithful
  <2>8. Bound(f)
    <3>1. registry[p] \in Any /\ Bound(registry[p])
      BY <1>0, <2>1 DEF TypeOK, Registry, Any
    <3> QED BY <2>1, <2>2, <3>1, MakesBound
  <2>9. \A r \in Project : Bound(copy'[q][r])
    BY <1>0, <2>1, <2>3, <2>8 DEF TypeOK, Registry
  <2> QED BY <2>4, <2>5, <2>7, <2>9, Moving
<1>6. CASE Save(q)
  <2>1. TypeOK'
    BY <1>0, <1>6 DEF Save, TypeOK, Goto, Steps
  <2>2. /\ pc'[q] = "report" /\ pc[q] = "save" /\ holder = q
        /\ UNCHANGED <<job, holder, copy>> /\ registry' = copy[q]
        /\ \A r \in Process \ {q} : pc'[r] = pc[r] /\ pc[r] \notin {"edit", "save"}
    BY <1>0, <1>6 DEF Save, Goto, TypeOK, ProjectsInv, Exclusive
  <2>3. ASSUME NEW r \in Process PROVE Exclusive(r)' /\ Faithful(r)'
    <3>1. Exclusive(r) /\ Faithful(r) /\ Mine(r)' = Mine(r)
      BY <2>2 DEF ProjectsInv, Mine
    <3>2. CASE r = q
      BY <2>2, <3>1, <3>2 DEF Exclusive, Faithful
    <3>3. CASE r # q
      <4>1. pc'[r] = pc[r] /\ pc[r] \notin {"edit", "save"}
        BY <2>2, <3>3
      <4> QED BY <2>2, <3>1, <4>1 DEF Exclusive, Faithful
    <3> QED BY <3>2, <3>3
  <2>4. /\ \A p \in Project : Bound(registry'[p])
        /\ \A r \in Process, p \in Project : Bound(copy'[r][p])
    BY <1>0, <2>2 DEF ProjectsInv
  <2> QED BY <2>1, <2>3, <2>4 DEF ProjectsInv
<1>7. CASE NotDeployed(q) \/ NotTesting(q) \/ Gate(q)
  <2>1. TypeOK'
    BY <1>0, <1>7 DEF NotDeployed, NotTesting, Gate, TypeOK, Goto, Steps, shared
  <2>2. /\ UNCHANGED <<job, holder, copy, registry>>
        /\ \A r \in Process \ {q} : pc'[r] = pc[r]
        /\ Mine(q)' = Mine(q)
    BY <1>0, <1>7 DEF NotDeployed, NotTesting, Gate, Goto, TypeOK, shared, Mine
  <2>3. \/ pc[q] = "deployed" /\ pc'[q] = "quiet"
        \/ pc[q] = "quiet" /\ pc'[q] = "lock"
        \/ /\ pc[q] = "gate" /\ pc'[q] = "run"
           /\ Mine(q).trusted /\ job[q].caps \subseteq Mine(q).approved
    BY <1>0, <1>7 DEF NotDeployed, NotTesting, Gate, Goto, TypeOK, DefinitionIsTrusted
  <2>4. Exclusive(q)'
    BY <1>0, <2>2, <2>3 DEF Exclusive, Decides
  <2>5. Faithful(q)'
    BY <2>2, <2>3 DEF Faithful
  <2> QED BY <1>0, <2>1, <2>2, <2>4, <2>5, Moving
<1>8. CASE Use(q)
  <2>1. PICK o \in {"ok", "error"} : Finish(q, o)
    BY <1>8 DEF Use
  <2>2. job[q] \in Job /\ job[q].project \in Project
    BY <1>0, <1>8 DEF Use, Exclusive, TypeOK, Job
  <2>3. /\ registry' = registry /\ late' \subseteq Process
        /\ deployed' \subseteq Project /\ testing' \subseteq Project
    BY <1>0, <1>8, <2>2 DEF Use, Overtaken, TypeOK
  <2> QED BY <2>1, <2>3, Finishing
<1> QED BY <1>1, <1>2, <1>3, <1>4, <1>5, <1>6, <1>7, <1>8

LEMMA InvStep == ProjectsInv /\ [Next]_vars => ProjectsInv'
<1> SUFFICES ASSUME ProjectsInv, [Next]_vars PROVE ProjectsInv'
  OBVIOUS
<1>1. CASE \E p \in Project : Exit(p)
  <2>1. UNCHANGED <<registry, holder, job, pc, copy, told, deployed, late>>
        /\ testing' \subseteq testing
    BY <1>1 DEF Exit
  <2>2. TypeOK'
    BY <2>1 DEF ProjectsInv, TypeOK
  <2>3. ASSUME NEW q \in Process PROVE Exclusive(q)' /\ Faithful(q)'
    <3>1. Exclusive(q) /\ Faithful(q) /\ Mine(q)' = Mine(q)
      BY <2>1 DEF ProjectsInv, Mine
    <3>2. Intended(q, copy[q])' = Intended(q, copy[q])
      BY <2>1 DEF Intended
    <3> QED BY <2>1, <3>1, <3>2 DEF Exclusive, Faithful
  <2> QED BY <2>1, <2>2, <2>3 DEF ProjectsInv
<1>2. CASE UNCHANGED vars
  BY <1>2 DEF vars, ProjectsInv, TypeOK, Exclusive, Faithful, Intended, Mine
<1> QED BY <1>1, <1>2, StepInv DEF Next

\* A process that changes the registry has it to itself, and every entry on
\* disk or in memory is trusted only with the definition it was registered
\* with, for any number of processes, projects, definitions and failures.
THEOREM Invariant == Spec => []ProjectsInv
BY Start, InvStep, PTL DEF Spec

-----------------------------------------------------------------------------
(* The refinement                                                          *)

Entries == [p \in Project |-> Agreed(registry[p])]
Stages == [q \in Process |-> Stage(q)]
Seen == [q \in Process |->
           IF pc[q] \in {"gate", "run"} THEN Agreed(Mine(q)) ELSE Unregistered]
Running == [q \in Process |-> IF pc[q] = "run" THEN Mine(q).definition ELSE Absent]

LEMMA InitImplements == Init => C!Init
BY DEF Init, C!Init, Empty, Agreed, Stage

\* What of Consent's state process r sees depends on r alone.
LEMMA Alike ==
  ASSUME NEW r \in Process, pc'[r] = pc[r], job'[r] = job[r], copy'[r] = copy[r]
  PROVE  /\ Stages'[r] = Stages[r] /\ Seen'[r] = Seen[r] /\ Running'[r] = Running[r]
BY DEF Stages, Stage, Seen, Running, Mine

\* A step of Consent, put together from its parts.
LEMMA Parts ==
  ASSUME TypeOK, NEW q \in Process,
         \A r \in Process \ {q} :
           pc'[r] = pc[r] /\ job'[r] = job[r] /\ copy'[r] = copy[r]
  PROVE  /\ Stages' = [Stages EXCEPT ![q] = Stages'[q]]
         /\ Seen' = [Seen EXCEPT ![q] = Seen'[q]]
         /\ Running' = [Running EXCEPT ![q] = Running'[q]]
<1>1. \A r \in Process \ {q} :
        Stages'[r] = Stages[r] /\ Seen'[r] = Seen[r] /\ Running'[r] = Running[r]
  BY Alike
<1> QED BY <1>1 DEF Stages, Seen, Running

LEMMA FinishImplements ==
  ASSUME ProjectsInv, NEW q \in Process, NEW o \in {"ok", "error"}, Finish(q, o),
         pc[q] # "idle", registry' = registry,
         o = "ok" /\ job[q].op \in Decides => pc[q] = "report"
  PROVE  C!End(q)
<1>1. TypeOK
  BY DEF ProjectsInv
<1>2. /\ pc'[q] = "idle" /\ told' = [told EXCEPT ![q] = o]
      /\ job' = [job EXCEPT ![q] = NoJob]
      /\ \A r \in Process \ {q} :
           pc'[r] = pc[r] /\ job'[r] = job[r] /\ copy'[r] = copy[r]
  BY <1>1 DEF Finish, Goto, TypeOK
<1>3. /\ Stages'[q] = "idle" /\ Seen'[q] = Unregistered /\ Running'[q] = Absent
      /\ Stages[q] # "idle"
      /\ pc[q] = "report" => Stages[q] = "done"
      /\ Entries' = Entries
  BY <1>2 DEF Stages, Stage, Seen, Running, Entries
<1>4. /\ Stages' = [Stages EXCEPT ![q] = "idle"]
      /\ Seen' = [Seen EXCEPT ![q] = Unregistered]
      /\ Running' = [Running EXCEPT ![q] = Absent]
  BY <1>1, <1>2, <1>3, Parts
<1> QED
  BY <1>2, <1>3, <1>4 DEF C!End, C!Decides, Decides, Stages, Seen, Running, Entries

LEMMA StepImplements ==
  ASSUME ProjectsInv, NEW q \in Process,
         \/ \E j \in Job : Begin(q, j)
         \/ Fail(q) \/ Load(q) \/ Acquire(q) \/ Edit(q) \/ Save(q) \/ Report(q)
         \/ NotDeployed(q) \/ NotTesting(q) \/ Gate(q) \/ Skip(q) \/ Ran(q) \/ Use(q)
  PROVE  C!Next \/ UNCHANGED C!vars
<1>0. TypeOK /\ Exclusive(q) /\ Faithful(q)
  BY DEF ProjectsInv
<1>1. ASSUME NEW j \in Job, Begin(q, j) PROVE C!Ask(q, j)
  <2>1. /\ pc[q] = "idle" /\ pc'[q] \in {"lock", "load"} /\ registry' = registry
        /\ job' = [job EXCEPT ![q] = j] /\ told' = [told EXCEPT ![q] = "none"]
        /\ \A r \in Process \ {q} :
             pc'[r] = pc[r] /\ job'[r] = job[r] /\ copy'[r] = copy[r]
    BY <1>0, <1>1 DEF Begin, Goto, TypeOK, shared
  <2>2. /\ Stages[q] = "idle" /\ Stages'[q] = "asked" /\ Entries' = Entries
        /\ Seen'[q] = Seen[q] /\ Running'[q] = Running[q]
    BY <2>1 DEF Stages, Stage, Seen, Running, Entries
  <2>3. /\ Stages' = [Stages EXCEPT ![q] = "asked"]
        /\ Seen' = Seen /\ Running' = Running
    BY <1>0, <2>1, <2>2, Parts DEF Seen, Running
  <2> QED BY <2>1, <2>2, <2>3 DEF C!Ask, Stages, Seen, Running, Entries
<1>2. ASSUME Fail(q) \/ Report(q) \/ Skip(q) \/ Ran(q) \/ Use(q) PROVE C!End(q)
  <2>1. /\ pc[q] = "run" => job[q].op \notin Decides
        /\ Use(q) => pc[q] = "use" /\ job[q].op \notin Decides
        /\ Skip(q) => job[q].op \notin Decides
    BY <1>0 DEF Exclusive, Decides, Runs, Use, Skip
  <2>2. pc[q] # "idle" /\ registry' = registry
    BY <1>2 DEF Fail, Report, Skip, Ran, Use, shared
  <2>3. CASE Use(q)
    <3>1. PICK o \in {"ok", "error"} : Finish(q, o)
      BY <2>3 DEF Use
    <3> QED BY <2>1, <2>2, <2>3, <3>1, FinishImplements
  <2>4. CASE Fail(q)
    BY <2>2, <2>4, FinishImplements DEF Fail
  <2>5. CASE Report(q) \/ Skip(q) \/ Ran(q)
    BY <2>1, <2>2, <2>5, FinishImplements DEF Report, Skip, Ran
  <2> QED BY <1>2, <2>3, <2>4, <2>5
<1>3. ASSUME Load(q) PROVE C!See(q) \/ UNCHANGED C!vars
  <2> DEFINE p == job[q].project
  <2>1. p \in Project
    BY <1>0, <1>3 DEF Load, Exclusive, TypeOK, Job
  <2>2. /\ pc[q] = "load" /\ UNCHANGED <<registry, job, told>>
        /\ registry[p] # Unregistered /\ Mine(q)' = registry[p]
        /\ pc'[q] = "gate" <=> job[q].op \in Runs
        /\ pc'[q] \in {"deployed", "gate", "use"}
        /\ \A r \in Process \ {q} :
             pc'[r] = pc[r] /\ job'[r] = job[r] /\ copy'[r] = copy[r]
    BY <1>0, <1>3, <2>1 DEF Load, Goto, TypeOK, shared, Mine, Empty, Runs
  <2>3. Entries' = Entries /\ Stages[q] = "asked" /\ Running' = Running
    <3>1. Entries' = Entries
      BY <2>2 DEF Entries
    <3>2. Stages[q] = "asked"
      BY <2>2 DEF Stages, Stage
    <3>3. Running'[q] = Running[q]
      BY <2>2 DEF Running
    <3>4. Running' = [Running EXCEPT ![q] = Running'[q]]
      BY <1>0, <2>2, Parts
    <3>5. Running' = Running
      BY <3>3, <3>4 DEF Running
    <3> QED BY <3>1, <3>2, <3>5
  <2>4. CASE pc'[q] = "gate"
    <3>1. Stages'[q] = "seen" /\ Seen'[q] = Entries[p] /\ Entries[p] # Unregistered
      <4>1. registry[p] \in Entry
        BY <1>0, <2>1, <2>2 DEF TypeOK, Registry
      <4>2. Agreed(registry[p]) # Unregistered
        BY <2>2, <4>1, UnregisteredAssumption DEF Agreed, Entry
      <4> QED BY <2>1, <2>2, <2>4, <4>2 DEF Stages, Stage, Seen, Entries
    <3>2. /\ Stages' = [Stages EXCEPT ![q] = "seen"]
          /\ Seen' = [Seen EXCEPT ![q] = Entries[p]]
      BY <1>0, <2>2, <3>1, Parts
    <3> QED
      BY <2>2, <2>3, <2>4, <3>1, <3>2
      DEF C!See, C!Runs, Runs, Stages, Seen, Running, Entries
  <2>5. CASE pc'[q] # "gate"
    <3>1. Stages'[q] = Stages[q] /\ Seen'[q] = Seen[q]
      BY <2>2, <2>5 DEF Stages, Stage, Seen
    <3>2. Stages' = Stages /\ Seen' = Seen
      BY <1>0, <2>2, <3>1, Parts DEF Stages, Seen
    <3> QED BY <2>2, <2>3, <3>2 DEF C!vars, Stages, Seen, Running, Entries
  <2> QED BY <2>4, <2>5
<1>4. ASSUME Acquire(q) \/ Edit(q) \/ NotDeployed(q) \/ NotTesting(q)
      PROVE  UNCHANGED C!vars
  <2>1. /\ UNCHANGED <<registry, job, told>>
        /\ pc[q] \in {"lock", "edit", "deployed", "quiet"}
        /\ pc'[q] \in {"edit", "save", "quiet", "lock"}
        /\ \A r \in Process \ {q} :
             pc'[r] = pc[r] /\ job'[r] = job[r] /\ copy'[r] = copy[r]
    BY <1>0, <1>4 DEF Acquire, Edit, NotDeployed, NotTesting, Goto, TypeOK, shared
  <2>2. /\ Entries' = Entries /\ Stages'[q] = Stages[q]
        /\ Seen'[q] = Seen[q] /\ Running'[q] = Running[q]
    BY <2>1 DEF Entries, Stages, Stage, Seen, Running
  <2>3. Stages' = Stages /\ Seen' = Seen /\ Running' = Running
    BY <1>0, <2>1, <2>2, Parts DEF Stages, Seen, Running
  <2> QED BY <2>1, <2>2, <2>3 DEF C!vars, Stages, Seen, Running, Entries
<1>5. ASSUME Save(q) PROVE C!Decide(q)
  <2> DEFINE p == job[q].project
  <2>1. job[q] \in Job /\ p \in Project /\ job[q].op \in Decides
    BY <1>0, <1>5 DEF Save, Exclusive, TypeOK, Job
  <2>2. /\ pc[q] = "save" /\ pc'[q] = "report" /\ UNCHANGED <<job, told>>
        /\ registry' = copy[q]
        /\ \A r \in Process \ {q} :
             pc'[r] = pc[r] /\ job'[r] = job[r] /\ copy'[r] = copy[r]
    BY <1>0, <1>5 DEF Save, Goto, TypeOK
  <2>3. PICK d \in Content, f \in Any :
          Makes(job[q], registry[p], d, f) /\ registry' = [registry EXCEPT ![p] = f]
    BY <1>0, <2>2 DEF Faithful, Intended, Any
  <2>4. /\ C!Answer(job[q], Entries[p], Agreed(f))
        /\ Agreed(f) \in C!Entry \cup {Unregistered}
    <3>1. registry[p] \in Any
      BY <1>0, <2>1 DEF TypeOK, Registry, Any
    <3> QED BY <2>1, <2>3, <3>1, MakesAnswers DEF Entries
  <2>5. Entries' = [Entries EXCEPT ![p] = Agreed(f)]
    BY <1>0, <2>1, <2>3 DEF Entries, TypeOK, Registry
  <2>6. /\ Stages[q] = "asked" /\ Stages'[q] = "done"
        /\ Seen'[q] = Seen[q] /\ Running'[q] = Running[q]
    BY <2>2 DEF Stages, Stage, Seen, Running
  <2>7. Stages' = [Stages EXCEPT ![q] = "done"] /\ Seen' = Seen /\ Running' = Running
    BY <1>0, <2>2, <2>6, Parts DEF Seen, Running
  <2> QED
    BY <2>1, <2>2, <2>4, <2>5, <2>6, <2>7
    DEF C!Decide, C!Decides, Decides, Stages, Seen, Running, Entries
<1>6. ASSUME Gate(q) PROVE C!Run(q)
  <2>1. /\ pc[q] = "gate" /\ pc'[q] = "run" /\ UNCHANGED <<registry, job, copy, told>>
        /\ Mine(q)' = Mine(q) /\ job[q].caps \subseteq Mine(q).approved
        /\ Mine(q).trusted /\ Mine(q).agreed = Mine(q).definition
        /\ \A r \in Process \ {q} : pc'[r] = pc[r]
    BY <1>0, <1>6 DEF Gate, Goto, TypeOK, shared, Mine, DefinitionIsTrusted
  <2>2. Mine(q) \in Entry /\ Mine(q) # Unregistered
    <3>1. job[q].project \in Project
      BY <1>0, <2>1 DEF Exclusive, TypeOK, Job
    <3> QED BY <1>0, <2>1, <3>1 DEF Exclusive, Mine, TypeOK, Registry
  <2>3. /\ Seen[q] = [agreed |-> {Mine(q).definition}, approved |-> Mine(q).approved]
        /\ Seen'[q] = Seen[q] /\ Stages[q] = "seen" /\ Stages'[q] = "running"
        /\ Running'[q] = Mine(q).definition /\ Entries' = Entries
    BY <2>1, <2>2 DEF Seen, Stages, Stage, Running, Entries, Agreed
  <2>4. /\ Stages' = [Stages EXCEPT ![q] = "running"] /\ Seen' = Seen
        /\ Running' = [Running EXCEPT ![q] = Mine(q).definition]
    BY <1>0, <2>1, <2>3, Parts DEF Seen
  <2>5. Mine(q).definition \in C!Content
    BY <2>2 DEF Entry, Content, C!Content
  <2>6. Seen[q].agreed = {Mine(q).definition} /\ job[q].caps \subseteq Seen[q].approved
    BY <2>1, <2>3
  <2>7. Seen' = Seen /\ UNCHANGED <<Entries, job, told>>
    BY <2>1, <2>3, <2>4
  <2>8. \E d \in C!Content :
          Seen[q].agreed = {d} /\ Running' = [Running EXCEPT ![q] = d]
    BY <2>4, <2>5, <2>6
  <2> QED
    BY <2>3, <2>4, <2>6, <2>7, <2>8 DEF C!Run, Stages, Seen, Running, Entries
<1> QED
  BY <1>1, <1>2, <1>3, <1>4, <1>5, <1>6 DEF C!Next, C!Job, Job

\* The registry implements Consent: every decision takes effect whole and at
\* once on what stood before, and every run is held to the decisions it found.
THEOREM Implements == Spec => ImplementsConsent
<1>1. ProjectsInv /\ [Next]_vars => [C!Next]_C!vars
  <2> SUFFICES ASSUME ProjectsInv, [Next]_vars PROVE C!Next \/ UNCHANGED C!vars
    OBVIOUS
  <2>1. CASE \E p \in Project : Exit(p)
    BY <2>1 DEF Exit, C!vars, Stage, Mine
  <2>2. CASE UNCHANGED vars
    BY <2>2 DEF vars, C!vars, Stage, Mine
  <2> QED BY <2>1, <2>2, StepImplements DEF Next
<1> QED BY <1>1, InitImplements, Invariant, PTL DEF Spec, ImplementsConsent, C!Spec
-----------------------------------------------------------------------------
(* Removing what is in use                                                 *)

\* Only a removal takes an entry out of the registry.
LEMMA OnlyRemoveRemoves ==
  ASSUME NEW e \in Any, NEW j \in Job, NEW d \in Content,
         Makes(j, e, d, Unregistered)
  PROVE  j.op = "remove"
<1>1. New(d, FALSE) # Unregistered /\ New(d, TRUE) # Unregistered
  BY NewType, UnregisteredAssumption
<1>2. ASSUME e # Unregistered
      PROVE  /\ Given(e, j.op = "trust", d) # Unregistered
             /\ [e EXCEPT !.approved = @ \cup j.caps] # Unregistered
             /\ [e EXCEPT !.approved = @ \ j.caps] # Unregistered
  <2>1. e \in Entry
    BY <1>2 DEF Any
  <2> QED BY <2>1, NewType, CapsType, UnregisteredAssumption
<1> QED BY <1>1, <1>2 DEF Makes, Trust

\* What a remove has found out is not disturbed by the step of another process,
\* unless that overtakes it: who holds the lock is not overtaken.
LEMMA UnusedElsewhere ==
  ASSUME ProjectsInv, UnusedInv, NEW q \in Process, NEW r \in Process \ {q},
         pc'[r] = pc[r], job'[r] = job[r], r \notin late' => r \notin late,
         Use(q) \/ UNCHANGED <<deployed, testing>>
  PROVE  Unused(r)'
<1>1. TypeOK /\ Unused(r) /\ Exclusive(r)
  BY DEF ProjectsInv, UnusedInv
<1>2. CASE UNCHANGED <<deployed, testing>>
  BY <1>1, <1>2 DEF Unused
<1>3. CASE Use(q)
  <2>1. /\ deployed' \subseteq deployed \cup {job[q].project}
        /\ testing' \subseteq testing \cup {job[q].project}
        /\ job[q].op # "link" => deployed' \subseteq deployed
        /\ job[q].op # "test-start" => testing' \subseteq testing
    BY <1>3 DEF Use
  <2>2. pc[r] \notin {"edit", "save"}
    BY <1>1, <1>3, NobodyAssumption DEF Use, Exclusive
  <2>3. ASSUME r \notin late', pc[r] \in {"quiet", "lock"}, job[r].op = "remove",
               job[r].project = job[q].project
        PROVE  job[q].op # "link" /\ (pc[r] = "lock" => job[q].op # "test-start")
    BY <1>3, <2>3 DEF Use, Overtaken
  <2>4. pc[r] = "quiet" => job[r].op = "remove"
    BY <1>1 DEF Exclusive
  <2> QED BY <1>1, <2>1, <2>2, <2>3, <2>4 DEF Unused
<1> QED BY <1>2, <1>3

\* What its own step lets a process know.
LEMMA UnusedOwn ==
  ASSUME ProjectsInv, UnusedInv, NEW q \in Process,
         \/ \E j \in Job : Begin(q, j)
         \/ Fail(q) \/ Load(q) \/ Acquire(q) \/ Edit(q) \/ Save(q) \/ Report(q)
         \/ NotDeployed(q) \/ NotTesting(q) \/ Gate(q) \/ Skip(q) \/ Ran(q) \/ Use(q)
  PROVE  Unused(q)'
<1>0. TypeOK /\ Unused(q)
  BY DEF ProjectsInv, UnusedInv
<1>1. ASSUME NEW o, Finish(q, o) PROVE pc'[q] = "idle"
  BY <1>0, <1>1 DEF Finish, Goto, TypeOK
<1>2. CASE pc'[q] \in {"idle", "report", "run"}
  BY <1>2 DEF Unused
<1>3. ASSUME NEW j \in Job, Begin(q, j) PROVE Unused(q)'
  <2>1. job'[q] = j /\ pc'[q] \in {"lock", "load"} /\ (pc'[q] = "lock" => j.op # "remove")
    BY <1>0, <1>3 DEF Begin, Goto, TypeOK
  <2> QED BY <2>1 DEF Unused
<1>4. CASE Load(q)
  <2>1. pc'[q] \in {"deployed", "gate", "use"}
    BY <1>0, <1>4 DEF Load, Goto, TypeOK
  <2> QED BY <2>1 DEF Unused
<1>5. CASE Acquire(q) \/ Edit(q)
  <2>1. /\ UNCHANGED <<shared, job>> /\ pc[q] \in {"lock", "edit"}
        /\ pc'[q] \in {"edit", "save"}
    BY <1>0, <1>5 DEF Acquire, Edit, Goto, TypeOK
  <2> QED BY <1>0, <2>1 DEF shared, Unused
<1>6. CASE NotDeployed(q)
  <2>1. UNCHANGED <<shared, job>> /\ pc'[q] = "quiet" /\ job[q].project \notin deployed
    BY <1>0, <1>6 DEF NotDeployed, Goto, TypeOK
  <2> QED BY <2>1 DEF shared, Unused
<1>7. CASE NotTesting(q)
  <2>1. /\ UNCHANGED <<shared, job>> /\ pc[q] = "quiet" /\ pc'[q] = "lock"
        /\ job[q].project \notin testing
    BY <1>0, <1>7 DEF NotTesting, Goto, TypeOK
  <2> QED BY <1>0, <2>1 DEF shared, Unused
<1>8. CASE Gate(q) \/ Save(q)
  BY <1>0, <1>2, <1>8 DEF Gate, Save, Goto, TypeOK
<1>9. CASE Fail(q) \/ Report(q) \/ Skip(q) \/ Ran(q) \/ Use(q)
  BY <1>1, <1>2, <1>9 DEF Fail, Report, Skip, Ran, Use
<1> QED BY <1>3, <1>4, <1>5, <1>6, <1>7, <1>8, <1>9

\* What a step does to the others: it leaves them where they are, and brings
\* into use only what its own command is about.
LEMMA Outside ==
  ASSUME TypeOK, NEW q \in Process, NEW r \in Process \ {q},
         \/ \E j \in Job : Begin(q, j)
         \/ Fail(q) \/ Load(q) \/ Acquire(q) \/ Edit(q) \/ Save(q) \/ Report(q)
         \/ NotDeployed(q) \/ NotTesting(q) \/ Gate(q) \/ Skip(q) \/ Ran(q) \/ Use(q)
  PROVE  /\ pc'[r] = pc[r] /\ job'[r] = job[r]
         /\ r \notin late' => r \notin late
         /\ Use(q) \/ UNCHANGED <<deployed, testing>>
<1>1. \E l : pc' = [pc EXCEPT ![q] = l]
  BY DEF Begin, Fail, Load, Acquire, Edit, Save, Report, NotDeployed, NotTesting, Gate,
     Skip, Ran, Use, Finish, Goto
<1>2. \E j : job' = [job EXCEPT ![q] = j] \/ job' = job
  BY DEF Begin, Fail, Load, Acquire, Edit, Save, Report, NotDeployed, NotTesting, Gate,
     Skip, Ran, Use, Finish
<1>3. r \notin late' => r \notin late
  BY DEF Begin, Fail, Load, Acquire, Edit, Save, Report, NotDeployed, NotTesting, Gate,
     Skip, Ran, Use, shared
<1>4. Use(q) \/ UNCHANGED <<deployed, testing>>
  BY DEF Begin, Fail, Load, Acquire, Edit, Save, Report, NotDeployed, NotTesting, Gate,
     Skip, Ran, shared
<1> QED BY <1>1, <1>2, <1>3, <1>4 DEF TypeOK

LEMMA UnusedStep ==
  ASSUME ProjectsInv, UnusedInv, [Next]_vars
  PROVE  UnusedInv'
<1>0. TypeOK /\ \A r \in Process : Unused(r)
  BY DEF ProjectsInv, UnusedInv
<1>1. ASSUME NEW q \in Process,
             \/ \E j \in Job : Begin(q, j)
             \/ Fail(q) \/ Load(q) \/ Acquire(q) \/ Edit(q) \/ Save(q) \/ Report(q)
             \/ NotDeployed(q) \/ NotTesting(q) \/ Gate(q) \/ Skip(q) \/ Ran(q)
             \/ Use(q)
      PROVE  \A r \in Process : Unused(r)'
  <2>1. Unused(q)'
    BY <1>1, UnusedOwn
  <2>2. ASSUME NEW r \in Process \ {q} PROVE Unused(r)'
    <3>1. /\ pc'[r] = pc[r] /\ job'[r] = job[r] /\ (r \notin late' => r \notin late)
          /\ Use(q) \/ UNCHANGED <<deployed, testing>>
      BY <1>0, <1>1, Outside
    <3> QED BY <3>1, UnusedElsewhere
  <2> QED BY <2>1, <2>2
<1>2. ASSUME (\E p \in Project : Exit(p)) \/ UNCHANGED vars
      PROVE  \A r \in Process : Unused(r)'
  <2>1. UNCHANGED <<deployed, job, pc, late>>
    BY <1>2 DEF Exit, vars
  <2>2. testing' \subseteq testing
    BY <1>2 DEF Exit, vars
  <2>3. ASSUME NEW r \in Process PROVE Unused(r)'
    BY <1>0, <2>1, <2>2 DEF Unused
  <2> QED BY <2>3
<1>3. \A r \in Process : Unused(r)'
  BY <1>1, <1>2 DEF Next
<1> QED BY <1>3 DEF UnusedInv

\* However many other commands run, about the same project or not, and wherever
\* any of them fails: what a remove forgets is neither deployed nor under test,
\* unless it came into use after that remove had looked.
THEOREM NotInUse == Spec => RemovedIsUnused
<1>1. Init => UnusedInv
  BY DEF Init, UnusedInv, Unused
<1>2. ProjectsInv /\ UnusedInv /\ [Next]_vars =>
        \A p \in Project :
          registry[p] # Unregistered /\ registry'[p] = Unregistered /\ holder \notin late =>
            p \notin deployed \cup testing
  <2> SUFFICES ASSUME ProjectsInv, UnusedInv, [Next]_vars, NEW p \in Project,
                      registry[p] # Unregistered, registry'[p] = Unregistered,
                      holder \notin late
               PROVE  p \notin deployed \cup testing
    OBVIOUS
  <2>1. PICK q \in Process : Save(q)
    <3>1. registry' # registry
      OBVIOUS
    <3> QED BY <3>1 DEF Next, vars, shared, Begin, Fail, Load, Acquire, Edit, Report,
       NotDeployed, NotTesting, Gate, Skip, Ran, Use, Exit
  <2>2. TypeOK /\ Unused(q) /\ Exclusive(q) /\ Faithful(q)
    BY DEF ProjectsInv, UnusedInv
  <2>3. pc[q] = "save" /\ registry' = copy[q] /\ q \notin late
    BY <2>1, <2>2 DEF Save, Exclusive
  <2>4. job[q] \in Job /\ job[q].project \in Project
    BY <2>2, <2>3 DEF Exclusive, TypeOK, Job
  <2>5. PICK d \in Content, f \in Any :
          /\ Makes(job[q], registry[job[q].project], d, f)
          /\ registry' = [registry EXCEPT ![job[q].project] = f]
    BY <2>2, <2>3 DEF Faithful, Intended, Any
  <2>6. registry \in [Project -> Any]
    BY <2>2 DEF TypeOK, Registry, Any
  <2>7. p = job[q].project /\ f = Unregistered
    BY <2>4, <2>5, <2>6
  <2>8. job[q].op = "remove"
    BY <2>4, <2>5, <2>6, <2>7, OnlyRemoveRemoves
  <2> QED BY <2>2, <2>3, <2>7, <2>8 DEF Unused
<1>3. ProjectsInv /\ UnusedInv /\ [Next]_vars => UnusedInv'
  BY UnusedStep
<1> QED BY <1>1, <1>2, <1>3, Invariant, PTL DEF Spec, RemovedIsUnused
=============================================================================
