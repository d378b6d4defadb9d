------------------------- MODULE TestSessionProofs -------------------------
(***************************************************************************)
(* Nested test sessions, for any number of sessions, projects and faults:  *)
(* a project never has two running ones, a stop that succeeds leaves none  *)
(* if the clock told its sessions apart, and no stranger is signalled that *)
(* the helper could have seen.                                             *)
(***************************************************************************)
EXTENDS TestSession, TLAPS

\* What the steps do to the rest of the command.
LEMMA TermType ==
  ASSUME TypeOK, pc \in TermSteps
  PROVE  Head(todo) \in Role /\ Tail(todo) \in Seq(Role)
BY DEF TypeOK

LEMMA Start == Init => SessionInv
<1> SUFFICES ASSUME Init PROVE SessionInv
  OBVIOUS
<1>1. TypeOK
  <2>1. pc \in StartSteps \cup {"idle", "erase"} /\ pc \notin TermSteps
    BY DEF Init, StartSteps, TermSteps
  <2>2. faults \in 0 .. MaxFaults
    BY FaultAssumption DEF Init
  <2>3. todo \in Seq(Role)
    BY DEF Init
  <2>4. hung \in BOOLEAN
    BY DEF Init
  <2> QED BY <2>1, <2>2, <2>3, <2>4 DEF Init, TypeOK
<1>2. Ranked /\ Underway /\ Starting /\ Stopping /\ LastRuns
  BY DEF Init, Ranked, Underway, Before, Starting, Stopping, LastRuns, Running
<1> QED BY <1>1, <1>2 DEF SessionInv

\* The steps that end a round of signals.
LEMMA TypeAfterTerm ==
  ASSUME TypeOK, pc \in TermSteps, AfterTerm
  PROVE  /\ todo' \in Seq(Role)
         /\ pc' \in {"term", "cleanup", "erase"}
         /\ pc' = "term" => todo' # << >>
         /\ UNCHANGED <<cmd, by, cur, hung, outcome>>
<1>1. todo \in Seq(Role) /\ todo # << >> /\ todo' = Tail(todo)
  BY DEF TypeOK, AfterTerm
<1>2. todo' \in Seq(Role) /\ Len(todo') = Len(todo) - 1
  BY <1>1
<1>3. pc' \in {"term", "cleanup", "erase"} /\ (pc' = "term" => Len(todo) > 1)
  BY DEF AfterTerm, Goto
<1>4. pc' = "term" => todo' # << >>
  <2>1. Len(todo) \in Nat
    BY <1>1
  <2>2. ASSUME todo' = << >> PROVE Len(todo') = 0
    BY <2>2
  <2> QED BY <1>2, <1>3, <2>1, <2>2
<1>5. UNCHANGED <<cmd, by, cur, hung, outcome>>
  BY DEF AfterTerm, Goto
<1> QED BY <1>2, <1>3, <1>4, <1>5

\* A signal, an exit or a spawn keeps the types of the processes.
LEMMA TypeWorld ==
  ASSUME TypeOK, NEW g \in Group
  PROVE  /\ \A l \in {"up", "down"} :
              [leader EXCEPT ![g] = l] \in [Group -> {"unborn", "up", "down"}]
         /\ crew \ {g} \subseteq Group
         /\ crew \cup {g} \subseteq Group
         /\ stranger \cup {g} \subseteq Group
         /\ stranger \ {g} \subseteq Group
BY DEF TypeOK

LEMMA TypeSignalled ==
  ASSUME TypeOK, NEW g \in Group, Signalled(g)
  PROVE  /\ leader' \in [Group -> {"unborn", "up", "down"}]
         /\ crew' \subseteq Group /\ stranger' \subseteq Group
<1>1. leader' \in [Group -> {"unborn", "up", "down"}]
  BY TypeWorld DEF Signalled, TypeOK
<1> QED BY <1>1 DEF Signalled, TypeOK

LEMMA TypeTree ==
  ASSUME TypeOK, NEW s \in Session
  PROVE  /\ \A d \in {"none", "bare", "torn", "record"} :
              [tree EXCEPT ![s] = d] \in [Session -> {"none", "bare", "torn", "record"}]
         /\ \A t \in Time \cup {0} : [stamp EXCEPT ![s] = t] \in [Session -> Nat]
         /\ [rank EXCEPT ![s] = written + 1] \in [Session -> Nat]
         /\ [rank EXCEPT ![s] = 0] \in [Session -> Nat]
         /\ written + 1 \in Nat
BY TimeAssumption DEF TypeOK

\* What is written to the disk, or erased from it.
LEMMA TypeWrite ==
  ASSUME TypeOK, NEW d \in {"none", "bare", "torn", "record"},
         Write(d) \/ Remove(d)
  PROVE  /\ tree' \in [Session -> {"none", "bare", "torn", "record"}]
         /\ stamp' \in [Session -> Nat] /\ rank' \in [Session -> Nat]
         /\ written' \in Nat /\ owner' = owner
<1>0. cur \in Session
  BY DEF TypeOK
<1>1. tree' \in [Session -> {"none", "bare", "torn", "record"}]
  BY <1>0, TypeTree DEF Write, Remove
<1>2. CASE Write(d)
  BY <1>0, <1>1, <1>2, TypeTree DEF Write, TypeOK
<1>3. CASE Remove(d)
  BY <1>0, <1>1, <1>3, TypeTree DEF Remove, TypeOK
<1> QED BY <1>2, <1>3

\* Strangers come with a reused pid and go with a signal.
LEMMA TypeSeen == TypeOK /\ [Next]_vars => seen' \subseteq Group
<1> SUFFICES ASSUME TypeOK, [Next]_vars PROVE seen' \subseteq Group
  OBVIOUS
<1>1. CASE UNCHANGED seen
  BY <1>1 DEF TypeOK
<1>2. CASE Helper /\ Look
  <2>1. stranger' \subseteq stranger
    BY <1>2 DEF Helper, Step, world, SpawnCompositor, Await, SpawnShell, TermFresh,
       ReapFresh, Settle, Summon, Save, Term, Signal, Signalled, Kill, Strike,
       CleanUpTree, Erase, Crash, BeginStop, BeginStart, Refuse
  <2> QED BY <1>2, <2>1 DEF Look, TypeOK
<1> QED BY <1>1, <1>2 DEF Next, Hang, Exit, Fork, Reuse, Alone, vars

LEMMA TypeStep == TypeOK /\ [Next]_vars => TypeOK'
<1> SUFFICES ASSUME TypeOK, [Next]_vars
             PROVE  TypeOK'
  OBVIOUS
<1>0. /\ cur \in Session /\ by \in Project
      /\ \A r \in Role : <<cur, r>> \in Group
      /\ "compositor" \in Role /\ "shell" \in Role
      /\ <<"compositor">> \in Seq(Role) /\ <<"compositor">> # << >>
      /\ <<"shell", "compositor">> \in Seq(Role)
      /\ <<"shell", "compositor">> # << >> /\ << >> \in Seq(Role)
  BY DEF TypeOK, Group, Role
<1>f. Fault => faults' \in 0 .. MaxFaults
  BY FaultAssumption DEF Fault, TypeOK
<1>s. seen' \subseteq Group
  BY TypeSeen
<1> USE DEF Goto, Finish, Terminate, CleanUp, TermSteps, world, disk
<1>1. CASE SpawnCompositor
  <2>1. leader' \in [Group -> {"unborn", "up", "down"}]
    BY <1>0, <1>1, TypeWorld DEF SpawnCompositor, Spawn, TypeOK
  <2> QED BY <1>0, <1>f, <1>s, <1>1, <2>1 DEF SpawnCompositor, TypeOK, StartSteps
<1>2. CASE Await
  BY <1>0, <1>s, <1>2 DEF Await, TypeOK, StartSteps
<1>3. CASE SpawnShell
  <2>1. leader' \in [Group -> {"unborn", "up", "down"}]
    BY <1>0, <1>3, TypeWorld DEF SpawnShell, Spawn, TypeOK
  <2> QED BY <1>0, <1>f, <1>s, <1>3, <2>1 DEF SpawnShell, TypeOK, StartSteps
<1>4. CASE TermFresh
  <2>1. /\ leader' \in [Group -> {"unborn", "up", "down"}]
        /\ crew' \subseteq Group /\ stranger' \subseteq Group
    BY <1>0, <1>4, TypeSignalled DEF TermFresh
  <2> QED BY <1>0, <1>s, <1>4, <2>1 DEF TermFresh, TypeOK, StartSteps
<1>5. CASE ReapFresh
  BY <1>0, <1>s, <1>5 DEF ReapFresh, TypeOK, StartSteps
<1>6. CASE Settle \/ Summon
  BY <1>0, <1>f, <1>s, <1>6 DEF Settle, Summon, TypeOK, StartSteps
<1>7. CASE Save
  <2>1. \E d \in {"bare", "torn", "record"} : Write(d)
    BY <1>7 DEF Save
  <2>2. /\ tree' \in [Session -> {"none", "bare", "torn", "record"}]
        /\ stamp' \in [Session -> Nat] /\ rank' \in [Session -> Nat]
        /\ written' \in Nat /\ owner' = owner
    BY <2>1, TypeWrite
  <2> QED BY <1>0, <1>f, <1>s, <1>7, <2>2 DEF Save, TypeOK, StartSteps
<1>8. CASE Term \/ Kill
  <2>1. CASE AfterTerm
    BY <1>s, <1>8, <2>1, TypeAfterTerm DEF Term, Kill, TypeOK, StartSteps
  <2>2. CASE Goto("signal") /\ UNCHANGED todo
    BY <1>s, <1>8, <2>2 DEF Term, Kill, TypeOK, StartSteps
  <2>3. CASE Goto("strike") /\ UNCHANGED todo
    BY <1>s, <1>8, <2>3 DEF Term, Kill, TypeOK, StartSteps
  <2> QED BY <1>8, <2>1, <2>2, <2>3 DEF Term, Kill
<1>t. pc \in TermSteps => <<cur, Head(todo)>> \in Group
  BY <1>0, TermType
<1>9. CASE Signal
  <2>1. /\ leader' \in [Group -> {"unborn", "up", "down"}]
        /\ crew' \subseteq Group /\ stranger' \subseteq Group
    BY <1>t, <1>9, TypeSignalled DEF Signal
  <2> QED BY <1>s, <1>9, <2>1 DEF Signal, TypeOK, StartSteps
<1>b. CASE Strike
  <2>1. /\ leader' \in [Group -> {"unborn", "up", "down"}]
        /\ crew' \subseteq Group /\ stranger' \subseteq Group
    BY <1>t, <1>b, TypeWorld DEF Strike
  <2> QED BY <1>s, <1>b, <2>1, TypeAfterTerm DEF Strike, TypeOK, StartSteps
<1>r. ASSUME UNCHANGED disk \/ \E d \in {"none", "bare", "torn", "record"} :
                                 Write(d) \/ Remove(d)
      PROVE  /\ tree' \in [Session -> {"none", "bare", "torn", "record"}]
             /\ stamp' \in [Session -> Nat] /\ rank' \in [Session -> Nat]
             /\ written' \in Nat /\ owner' = owner
  BY <1>r, TypeWrite DEF TypeOK
<1>10. CASE CleanUpTree
  BY <1>0, <1>f, <1>s, <1>r, <1>10 DEF CleanUpTree, TypeOK
<1>11. CASE Erase
  BY <1>0, <1>f, <1>s, <1>r, <1>11 DEF Erase, TypeOK
<1>12. CASE Crash
  <2>1. UNCHANGED disk \/ \E d \in {"none", "bare", "torn", "record"} :
                             Write(d) \/ Remove(d)
    BY <1>12 DEF Crash
  <2> QED BY <1>0, <1>f, <1>s, <1>r, <1>12, <2>1 DEF Crash, TypeOK
<1>13. ASSUME NEW p \in Project, BeginStop(p) PROVE TypeOK'
  <2>1. cur' \in Session
    BY <1>13 DEF BeginStop, Refuse, Newest, Recorded, TypeOK
  <2> QED BY <1>0, <1>s, <1>13, <2>1 DEF BeginStop, Refuse, TypeOK, StartSteps
<1>14. ASSUME NEW p \in Project, NEW s \in Session, BeginStart(p, s) PROVE TypeOK'
  BY <1>s, <1>14, TypeTree DEF BeginStart, Refuse, TypeOK, StartSteps
<1>15. ASSUME NEW g \in Group, Exit(g) \/ Fork(g) \/ Reuse(g) PROVE TypeOK'
  <2>1. leader' \in [Group -> {"unborn", "up", "down"}] /\ crew' \subseteq Group
        /\ stranger' \subseteq Group
    BY <1>15, TypeWorld DEF Exit, Fork, Reuse, TypeOK
  <2> QED BY <1>15, <1>s, <2>1 DEF Exit, Fork, Reuse, Alone, TypeOK
<1>h. CASE Hang
  BY <1>s, <1>h DEF Hang, TypeOK
<1>16. CASE UNCHANGED vars
  BY <1>16 DEF vars, TypeOK
<1> QED
  BY <1>1, <1>2, <1>3, <1>4, <1>5, <1>6, <1>7, <1>8, <1>9, <1>10, <1>11, <1>12,
     <1>13, <1>14, <1>15, <1>16, <1>b, <1>h DEF Next, Helper, Step

-----------------------------------------------------------------------------
(* The invariant                                                           *)

\* A leader that is down stays down and a session that begins is "unborn":
\* only a spawn of the current session brings a leader up, and that session
\* has no record yet.
LEMMA NoResurrection ==
  ASSUME SessionInv, [Next]_vars, NEW s \in Session, NEW r \in Role,
         leader[<<s, r>>] # "up", leader'[<<s, r>>] = "up"
  PROVE  s = cur /\ pc \in {"compositor", "shell"} /\ tree' = tree
<1>0. /\ leader \in [Group -> {"unborn", "up", "down"}] /\ <<s, r>> \in Group
      /\ \A q \in Role : <<cur, q>> \in Group
      /\ "compositor" \in Role /\ "shell" \in Role
  BY DEF SessionInv, TypeOK, Group, Role
<1>1. ASSUME NEW g, leader' = [leader EXCEPT ![g] = "down"] PROVE FALSE
  BY <1>0, <1>1
<1>2. ASSUME UNCHANGED leader PROVE FALSE
  BY <1>2
<1>3. ASSUME NEW g, Signalled(g) PROVE FALSE
  BY <1>0, <1>3 DEF Signalled
<1>4. ASSUME NEW q \in Role, Spawn(q) PROVE s = cur
  BY <1>0, <1>4 DEF Spawn
<1>5. CASE SpawnCompositor
  BY <1>0, <1>2, <1>4, <1>5 DEF SpawnCompositor, disk
<1>6. CASE SpawnShell
  BY <1>0, <1>2, <1>4, <1>6 DEF SpawnShell, disk
<1>7. CASE TermFresh
  BY <1>3, <1>7 DEF TermFresh
<1>8. CASE Signal
  BY <1>3, <1>8 DEF Signal
<1>9. CASE Strike
  BY <1>1, <1>9 DEF Strike
<1>10. ASSUME NEW g \in Group, Exit(g) \/ Fork(g) \/ Reuse(g) PROVE FALSE
  BY <1>1, <1>2, <1>10 DEF Exit, Fork, Reuse
<1>11. CASE \/ Await \/ ReapFresh \/ Settle \/ Summon \/ Save \/ Term \/ Kill
            \/ CleanUpTree \/ Erase \/ Crash \/ Hang
  BY <1>2, <1>11 DEF Await, ReapFresh, Settle, Summon, Save, Term, Kill, CleanUpTree,
                     Erase, Crash, Hang, world
<1>12. ASSUME NEW p \in Project,
              BeginStop(p) \/ \E t \in Session : BeginStart(p, t)
       PROVE  FALSE
  BY <1>2, <1>12 DEF BeginStop, BeginStart, Refuse, world
<1>13. CASE UNCHANGED vars
  BY <1>2, <1>13 DEF vars, world
<1> QED
  BY <1>5, <1>6, <1>7, <1>8, <1>9, <1>10, <1>11, <1>12, <1>13 DEF Next, Helper, Step

\* So no step but the writing of a record makes a session run.
LEMMA NoNewRunner ==
  ASSUME SessionInv, [Next]_vars, NEW s \in Session,
         tree'[s] = "record" => tree[s] = "record", Running(s)'
  PROVE  Running(s)
<1>1. tree[s] = "record" /\ \A r \in Role : leader'[<<s, r>>] = "up"
  BY DEF Running, Matches
<1>2. ASSUME NEW r \in Role PROVE leader[<<s, r>>] = "up"
  <2> SUFFICES ASSUME leader[<<s, r>>] # "up" PROVE FALSE
    OBVIOUS
  <2>1. s = cur /\ pc \in {"compositor", "shell"}
    BY <1>1, NoResurrection
  <2>2. tree[cur] = "bare"
    BY <2>1 DEF SessionInv, Underway, Starting, Before
  <2> QED BY <1>1, <2>1, <2>2
<1> QED BY <1>1, <1>2 DEF Running, Matches

\* While nothing is recorded, what was recorded last stays last.
LEMMA Shrinking ==
  ASSUME SessionInv, [Next]_vars, UNCHANGED <<owner, written>>,
         \A s \in Session : rank'[s] = rank[s] \/ rank'[s] = 0,
         \A s \in Session :
           tree'[s] = "record" => tree[s] = "record" /\ rank'[s] = rank[s]
  PROVE  Ranked' /\ LastRuns' /\ \A s \in Session : Running(s)' => Running(s)
<1>0. written \in Nat /\ \A s \in Session : rank[s] \in Nat
  BY DEF SessionInv, TypeOK
<1>1. \A s \in Session : Running(s)' => Running(s)
  BY NoNewRunner
<1>2. Ranked'
  BY <1>0 DEF SessionInv, Ranked
<1>3. LastRuns'
  BY <1>1 DEF SessionInv, LastRuns, Running
<1> QED BY <1>1, <1>2, <1>3

\* The session that is recorded becomes the last, and no other of its project
\* is running.
LEMMA Writing ==
  ASSUME SessionInv, [Next]_vars, pc = "save", UNCHANGED world,
         NEW d \in {"bare", "torn", "record"}, Write(d)
  PROVE  /\ Ranked' /\ LastRuns'
         /\ \A s \in Session : Running(s)' /\ owner[s] = by => s = cur
         /\ tree'[cur] = "record" => rank'[cur] = written'
         /\ owner' = owner
<1>0. /\ tree \in [Session -> {"none", "bare", "torn", "record"}]
      /\ rank \in [Session -> Nat]
      /\ written \in Nat /\ cur \in Session
      /\ owner[cur] = by /\ tree[cur] = "bare"
      /\ \A s \in Session : Running(s) /\ owner[s] = by => s = cur
  BY DEF SessionInv, TypeOK, Underway, Starting, Before
<1>1. /\ tree' = [tree EXCEPT ![cur] = d]
      /\ owner' = owner /\ leader' = leader
      /\ d = "record" => /\ rank' = [rank EXCEPT ![cur] = written + 1]
                         /\ written' = written + 1
      /\ d # "record" => UNCHANGED <<stamp, rank, written>>
  BY DEF Write, world
<1>2. \A s \in Session \ {cur} : tree'[s] = tree[s] /\ rank'[s] = rank[s]
  BY <1>0, <1>1
<1>3. \A s \in Session \ {cur} : Running(s)' => Running(s)
  BY <1>1, <1>2 DEF Running, Matches
<1>4. tree'[cur] = d
  BY <1>0, <1>1
<1>5. CASE d = "record"
  <2>1. rank'[cur] = written + 1 /\ written' = written + 1
    BY <1>0, <1>1, <1>5
  <2>2. \A s \in Session \ {cur} : rank[s] <= written /\ rank[s] \in Nat
    BY <1>0 DEF SessionInv, Ranked
  <2>3. Ranked'
    <3>1. \A s \in Session : rank'[s] <= written'
      BY <1>0, <1>2, <2>1, <2>2
    <3>2. \A s \in Session : tree'[s] = "record" => rank'[s] # 0
      BY <1>0, <1>2, <2>1 DEF SessionInv, Ranked
    <3>3. \A s, t \in Session : rank'[s] = rank'[t] /\ rank'[s] # 0 => s = t
      <4> SUFFICES ASSUME NEW s \in Session, NEW t \in Session,
                          rank'[s] = rank'[t], rank'[s] # 0, s # t
                   PROVE  FALSE
        OBVIOUS
      <4>1. CASE s # cur /\ t # cur
        BY <1>2, <4>1 DEF SessionInv, Ranked
      <4>2. CASE s = cur \/ t = cur
        BY <1>0, <1>2, <2>1, <2>2, <4>2
      <4> QED BY <4>1, <4>2
    <3> QED BY <3>1, <3>2, <3>3 DEF Ranked
  <2>4. LastRuns'
    <3> SUFFICES ASSUME NEW s \in Session, NEW t \in Session,
                        Running(s)', tree'[t] = "record", owner[s] = owner[t]
                 PROVE  rank'[t] <= rank'[s]
      BY <1>1 DEF LastRuns
    <3>1. CASE s = cur
      BY <1>0, <1>2, <2>1, <2>2, <3>1
    <3>2. CASE s # cur /\ t = cur
      BY <1>0, <1>3, <3>2
    <3>3. CASE s # cur /\ t # cur
      BY <1>2, <1>3, <3>3 DEF SessionInv, LastRuns
    <3> QED BY <3>1, <3>2, <3>3
  <2> QED BY <1>0, <1>1, <1>3, <2>1, <2>3, <2>4
<1>6. CASE d # "record"
  <2>1. \A s \in Session : tree'[s] = "record" => tree[s] = "record"
    BY <1>2, <1>4, <1>6
  <2>2. UNCHANGED <<owner, rank, written>>
    BY <1>1, <1>6
  <2> QED BY <1>0, <1>1, <1>3, <1>4, <1>6, <2>1, <2>2, Shrinking
<1> QED BY <1>5, <1>6

\* A step of start that leaves the disk alone.
LEMMA StartGoesOn ==
  ASSUME SessionInv, [Next]_vars, cmd = "start", UNCHANGED <<disk, cmd, by, cur>>,
         pc' \in Before => pc \in Before, pc' # "idle", pc' # "erase"
  PROVE  SessionInv'
<1>1. TypeOK'
  BY TypeStep DEF SessionInv
<1>2. Ranked' /\ LastRuns' /\ \A s \in Session : Running(s)' => Running(s)
  BY Shrinking DEF disk
<1>3. Underway'
  BY DEF Underway
<1>4. Starting' /\ Stopping'
  BY <1>2 DEF SessionInv, Starting, Stopping, disk
<1> QED BY <1>1, <1>2, <1>3, <1>4 DEF SessionInv

\* A step of stop that leaves the disk alone.
LEMMA StopGoesOn ==
  ASSUME SessionInv, [Next]_vars, cmd = "stop", UNCHANGED <<disk, cmd, by, cur>>,
         pc' \in TermSteps \cup {"erase"}
  PROVE  SessionInv'
<1>1. TypeOK'
  BY TypeStep DEF SessionInv
<1>2. Ranked' /\ LastRuns'
  BY Shrinking DEF disk
<1>3. Underway'
  BY DEF Underway, Before, TermSteps
<1>4. Starting' /\ Stopping'
  BY DEF SessionInv, Starting, Stopping, Newest, Recorded, disk
<1> QED BY <1>1, <1>2, <1>3, <1>4 DEF SessionInv

\* The end of a command that writes no record.
LEMMA Ending ==
  ASSUME SessionInv, [Next]_vars, UNCHANGED <<owner, written>>,
         \A s \in Session : rank'[s] = rank[s] \/ rank'[s] = 0,
         \A s \in Session :
           tree'[s] = "record" => tree[s] = "record" /\ rank'[s] = rank[s],
         cmd' = "none", pc' = "idle"
  PROVE  SessionInv'
<1>1. TypeOK'
  BY TypeStep DEF SessionInv
<1>2. Ranked' /\ LastRuns'
  BY Shrinking
<1>3. Underway' /\ Starting' /\ Stopping'
  BY DEF Underway, Starting, Stopping, Before
<1> QED BY <1>1, <1>2, <1>3 DEF SessionInv

\* Nothing but the processes changes.
LEMMA Elsewhere ==
  ASSUME SessionInv, [Next]_vars, UNCHANGED <<disk, cmd, by, cur, pc>>
  PROVE  SessionInv'
<1>1. TypeOK'
  BY TypeStep DEF SessionInv
<1>2. Ranked' /\ LastRuns' /\ \A s \in Session : Running(s)' => Running(s)
  BY Shrinking DEF disk
<1>3. Underway' /\ Starting' /\ Stopping'
  BY <1>2 DEF SessionInv, Underway, Starting, Stopping, Newest, Recorded, disk
<1> QED BY <1>1, <1>2, <1>3 DEF SessionInv

\* Erasing a tree makes no record.
LEMMA Erased ==
  ASSUME SessionInv, UNCHANGED disk \/ \E d \in {"none", "bare"} : Remove(d)
  PROVE  /\ UNCHANGED <<owner, written>>
         /\ \A s \in Session : rank'[s] = rank[s] \/ rank'[s] = 0
         /\ \A s \in Session :
              tree'[s] = "record" => tree[s] = "record" /\ rank'[s] = rank[s]
<1>0. /\ tree \in [Session -> {"none", "bare", "torn", "record"}]
      /\ rank \in [Session -> Nat] /\ cur \in Session
  BY DEF SessionInv, TypeOK
<1>1. CASE UNCHANGED disk
  BY <1>1 DEF disk
<1>2. ASSUME NEW d \in {"none", "bare"}, Remove(d)
      PROVE  /\ UNCHANGED <<owner, written>>
             /\ \A s \in Session : rank'[s] = rank[s] \/ rank'[s] = 0
             /\ \A s \in Session :
                  tree'[s] = "record" => tree[s] = "record" /\ rank'[s] = rank[s]
  BY <1>0, <1>2 DEF Remove
<1> QED BY <1>1, <1>2

LEMMA InvStep == SessionInv /\ [Next]_vars => SessionInv'
<1> SUFFICES ASSUME SessionInv, [Next]_vars
             PROVE  SessionInv'
  OBVIOUS
<1>0. TypeOK' /\ Underway
  BY TypeStep DEF SessionInv
<1>1. CASE \/ SpawnCompositor \/ Await \/ SpawnShell \/ TermFresh \/ ReapFresh
           \/ Settle \/ Summon
  <2>1. /\ pc \in Before \ {"save"} /\ UNCHANGED <<disk, cmd, by, cur>>
        /\ pc' \in StartSteps
    BY <1>1 DEF SpawnCompositor, Await, SpawnShell, TermFresh, ReapFresh, Settle,
                Summon, Goto, Terminate, CleanUp, Before, disk, StartSteps, TermSteps
  <2>2. cmd = "start"
    BY <1>0, <2>1 DEF Underway
  <2> QED BY <2>1, <2>2, StartGoesOn DEF StartSteps, TermSteps
<1>2. CASE Save
  <2>1. PICK d \in {"bare", "torn", "record"} : Write(d)
    BY <1>2 DEF Save
  <2>2. pc = "save" /\ UNCHANGED world /\ cmd = "start"
    BY <1>0, <1>2 DEF Save, Underway, Before
  <2>3. /\ Ranked' /\ LastRuns'
        /\ \A s \in Session : Running(s)' /\ owner[s] = by => s = cur
        /\ tree'[cur] = "record" => rank'[cur] = written'
        /\ owner' = owner
    BY <2>1, <2>2, Writing
  <2>4. CASE Finish("ok")
    BY <1>0, <2>3, <2>4
    DEF Finish, SessionInv, Underway, Starting, Stopping, Before
  <2>5. CASE Terminate(<<"shell", "compositor">>)
    BY <1>0, <2>2, <2>3, <2>5
    DEF Terminate, Goto, SessionInv, Underway, Starting, Stopping, Before
  <2> QED BY <1>2, <2>4, <2>5 DEF Save
<1>3. CASE Term \/ Signal \/ Kill \/ Strike
  <2>1. /\ pc \in TermSteps /\ UNCHANGED <<disk, cmd, by, cur>>
        /\ pc' \in {"signal", "kill", "strike"} \/ AfterTerm
    BY <1>3 DEF Term, Signal, Kill, Strike, AfterTerm, Goto, TermSteps
  <2>2. pc' \in TermSteps \cup {"cleanup", "erase"}
        /\ (pc' = "cleanup" => cmd = "start") /\ (pc' = "erase" => cmd # "start")
    BY <2>1 DEF AfterTerm, Goto, TermSteps
  <2>3. cmd \in {"start", "stop"}
    BY <1>0, <2>1 DEF SessionInv, TypeOK, Underway, TermSteps
  <2>4. CASE cmd = "start"
    BY <2>1, <2>2, <2>4, StartGoesOn DEF Before, TermSteps
  <2>5. CASE cmd = "stop"
    <3>1. pc' \in TermSteps \cup {"erase"}
      BY <2>2, <2>5
    <3> QED BY <2>1, <2>5, <3>1, StopGoesOn
  <2> QED BY <2>3, <2>4, <2>5
<1>4. CASE CleanUpTree \/ Erase
  <2>1. /\ UNCHANGED disk \/ \E d \in {"none", "bare"} : Remove(d)
        /\ cmd' = "none" /\ pc' = "idle"
    BY <1>4 DEF CleanUpTree, Erase, Finish, disk
  <2> QED BY <2>1, Erased, Ending
<1>5. CASE Crash
  <2>0. cmd' = "none" /\ pc' = "idle" /\ UNCHANGED world
    BY <1>5 DEF Crash, Finish
  <2>1. CASE UNCHANGED disk \/ Remove("bare")
    BY <2>0, <2>1, Erased, Ending
  <2>2. CASE pc = "save" /\ \E d \in {"torn", "record"} : Write(d)
    <3>1. Ranked' /\ LastRuns'
      BY <2>0, <2>2, Writing
    <3> QED
      BY <1>0, <2>0, <3>1 DEF SessionInv, Underway, Starting, Stopping, Before
  <2> QED BY <1>5, <2>1, <2>2 DEF Crash
<1>6. ASSUME NEW p \in Project, BeginStop(p) PROVE SessionInv'
  <2>1. CASE Refuse
    BY <2>1, Elsewhere DEF Refuse, disk
  <2>2. CASE /\ \E s \in Newest(p) : cur' = s
             /\ cmd' = "stop" /\ by' = p /\ pc' = "term" /\ UNCHANGED disk
    <3>1. Ranked' /\ LastRuns'
      BY <2>2, Shrinking DEF disk
    <3>2. Underway' /\ Starting' /\ Stopping'
      BY <2>2 DEF Underway, Starting, Stopping, Newest, Recorded, Before, disk
    <3> QED BY <1>0, <3>1, <3>2 DEF SessionInv
  <2> QED BY <1>6, <2>1, <2>2 DEF BeginStop
<1>7. ASSUME NEW p \in Project, NEW s \in Session, BeginStart(p, s)
      PROVE  SessionInv'
  <2>1. CASE Refuse
    BY <2>1, Elsewhere DEF Refuse, disk
  <2>2. CASE /\ Active(p) = {} /\ tree' = [tree EXCEPT ![s] = "bare"]
             /\ cmd' = "start" /\ by' = p /\ cur' = s /\ pc' = "compositor"
             /\ UNCHANGED <<world, owner, rank, written>>
    <3>1. owner[s] = p /\ tree \in [Session -> {"none", "bare", "torn", "record"}]
      BY <1>7 DEF BeginStart, SessionInv, TypeOK
    <3>2. tree'[s] = "bare"
          /\ \A t \in Session : tree'[t] = "record" => tree[t] = "record"
      BY <2>2, <3>1
    <3>3. Ranked' /\ LastRuns' /\ \A t \in Session : Running(t)' => Running(t)
      BY <2>2, <3>2, Shrinking
    <3>4. \A t \in Session : Running(t)' => owner[t] # p
      BY <2>2, <3>3 DEF Active, Recorded, Running
    <3>5. Underway' /\ Starting' /\ Stopping'
      BY <2>2, <3>1, <3>2, <3>4 DEF Underway, Starting, Stopping, Before
    <3> QED BY <1>0, <3>3, <3>5 DEF SessionInv
  <2> QED BY <1>7, <2>1, <2>2 DEF BeginStart
<1>8. ASSUME NEW g \in Group, Exit(g) \/ Fork(g) \/ Reuse(g) PROVE SessionInv'
  BY <1>8, Elsewhere DEF Exit, Fork, Reuse, Alone
<1>9. CASE Hang \/ UNCHANGED vars
  BY <1>9, Elsewhere DEF Hang, vars
<1> QED
  BY <1>1, <1>2, <1>3, <1>4, <1>5, <1>6, <1>7, <1>8, <1>9 DEF Next, Helper, Step

-----------------------------------------------------------------------------
(* Nothing is left behind without a record                                 *)

\* A leader that is found up was up before, unless it has just been spawned.
LEMMA SpawnedOrUp ==
  ASSUME SessionInv, [Next]_vars, NEW s \in Session, NEW r \in Role, Matches(s, r)'
  PROVE  Matches(s, r) \/ (s = cur /\ cmd = "start" /\ pc \in {"compositor", "shell"})
<1>1. ~Matches(s, r) => s = cur /\ pc \in {"compositor", "shell"}
  BY NoResurrection DEF Matches
<1>2. pc \in {"compositor", "shell"} => cmd = "start"
  BY DEF SessionInv, Underway, Before
<1> QED BY <1>1, <1>2

\* Outside of the spawns nothing of the current session comes up.
LEMMA StaysDown ==
  ASSUME SessionInv, [Next]_vars, pc \notin {"compositor", "shell"}, cur' = cur,
         NEW r \in Role, Matches(cur, r)'
  PROVE  Matches(cur, r)
<1>1. cur \in Session /\ Matches(cur, r)' = (leader'[<<cur, r>>] = "up")
  BY DEF SessionInv, TypeOK, Matches
<1> QED BY <1>1, NoResurrection DEF Matches

\* As long as the command is about the same session and erases nothing, what
\* is alive has a record or is in its hands.
LEMMA OwnedGoesOn ==
  ASSUME SessionInv, OwnedIsRecorded, [Next]_vars, faults = 0,
         UNCHANGED <<tree, cmd, cur>>
  PROVE  OwnedIsRecorded'
<1>1. ASSUME NEW s \in Session, NEW r \in Role, Matches(s, r)'
      PROVE  tree[s] = "record" \/ (cmd # "none" /\ s = cur)
  BY <1>1, SpawnedOrUp DEF OwnedIsRecorded
<1> QED BY <1>1 DEF OwnedIsRecorded

\* A command that ends leaves a record of what it has started, or nothing.
LEMMA OwnedEnds ==
  ASSUME SessionInv, OwnedIsRecorded, [Next]_vars, faults = 0,
         pc \notin {"compositor", "shell"}, cur' = cur,
         \A s \in Session \ {cur} : tree'[s] = tree[s],
         tree'[cur] = "record" \/ \A r \in Role : ~Matches(cur, r)
  PROVE  OwnedIsRecorded'
<1>1. ASSUME NEW s \in Session, NEW r \in Role, Matches(s, r)'
      PROVE  tree'[s] = "record"
  <2>1. Matches(s, r)
    BY <1>1, SpawnedOrUp
  <2> QED BY <1>1, <2>1 DEF OwnedIsRecorded
<1> QED BY <1>1 DEF OwnedIsRecorded

\* What is on a list and not at its head is on the rest of it.
LEMMA OnTheRest ==
  ASSUME NEW l \in Seq(Role), NEW i \in 1 .. Len(l), l[i] # Head(l)
  PROVE  \E j \in 1 .. Len(Tail(l)) : Tail(l)[j] = l[i]
<1>1. l # << >> /\ i # 1 /\ Len(l) \in Nat
  OBVIOUS
<1>2. Len(Tail(l)) = Len(l) - 1 /\ i - 1 \in 1 .. Len(Tail(l))
  BY <1>1
<1>3. Tail(l)[i - 1] = l[i]
  BY <1>1, <1>2
<1> QED BY <1>2, <1>3

LEMMA OwnerStep == SessionInv /\ OwnerInv /\ [Next]_vars => OwnerInv'
<1> SUFFICES ASSUME SessionInv, OwnedIsRecorded, Accounted, [Next]_vars
             PROVE  OwnedIsRecorded' /\ Accounted'
  BY DEF OwnerInv
<1>0. faults \in Nat /\ faults' \in Nat
  BY TypeStep DEF SessionInv, TypeOK
<1>1. SUFFICES ASSUME faults' = 0
               PROVE  OwnedIsRecorded' /\ Accounted'
  BY DEF OwnedIsRecorded, Accounted
<1>2. Fault => FALSE
  BY <1>0, <1>1 DEF Fault
<1>3. /\ TypeOK /\ cur \in Session
      /\ pc = "idle" <=> cmd = "none"
      /\ "compositor" \in Role /\ "shell" \in Role
      /\ \A r \in Role : r = "compositor" \/ r = "shell"
  BY DEF SessionInv, TypeOK, Underway, Role
<1> USE DEF TermSteps
<1>4. CASE SpawnCompositor
  <2>1. faults = 0 /\ pc = "compositor" /\ UNCHANGED <<tree, cmd, cur>>
    BY <1>1, <1>2, <1>4 DEF SpawnCompositor, Goto, CleanUp, disk
  <2>2. \A r \in Role : leader[<<cur, r>>] # "up"
    BY <1>3, <2>1 DEF Accounted, Matches
  <2>3. CASE Spawn("compositor") /\ pc' = "await"
    <3>1. leader'[<<cur, "shell">>] # "up"
      BY <1>3, <2>2, <2>3 DEF Spawn, TypeOK, Group
    <3> QED BY <2>1, <2>3, <3>1, OwnedGoesOn DEF Accounted, Matches
  <2>4. CASE UNCHANGED leader /\ pc' = "cleanup"
    BY <2>1, <2>2, <2>4, OwnedGoesOn DEF Accounted, Matches
  <2> QED BY <1>2, <1>4, <2>3, <2>4 DEF SpawnCompositor, Goto, CleanUp
<1>5. CASE Await
  <2>1. /\ faults = 0 /\ pc = "await" /\ UNCHANGED <<tree, cmd, cur, leader>>
        /\ ~Matches(cur, "shell")
    BY <1>1, <1>3, <1>5 DEF Await, Goto, Terminate, disk, world, Accounted
  <2>2. CASE pc' = "shell"
    BY <2>1, <2>2, OwnedGoesOn DEF Accounted, Matches
  <2>3. CASE pc' = "term" /\ todo' = <<"compositor">>
    <3>1. Len(todo') = 1 /\ todo'[1] = "compositor"
      BY <2>3
    <3> QED BY <1>3, <2>1, <2>3, <3>1, OwnedGoesOn DEF Accounted, Matches
  <2> QED BY <1>5, <2>2, <2>3 DEF Await, Goto, Terminate
<1>6. CASE SpawnShell
  <2>1. /\ faults = 0 /\ pc = "shell" /\ UNCHANGED <<tree, cmd, cur>>
        /\ ~Matches(cur, "shell")
    BY <1>1, <1>2, <1>3, <1>6 DEF SpawnShell, Goto, Terminate, disk, Accounted
  <2>2. CASE pc' = "settle"
    BY <2>1, <2>2, OwnedGoesOn DEF Accounted
  <2>3. CASE pc' = "term" /\ todo' = <<"compositor">> /\ UNCHANGED leader
    <3>1. Len(todo') = 1 /\ todo'[1] = "compositor"
      BY <2>3
    <3> QED BY <1>3, <2>1, <2>3, <3>1, OwnedGoesOn DEF Accounted, Matches
  <2> QED BY <1>2, <1>6, <2>2, <2>3 DEF SpawnShell, Goto, Terminate
<1>7. CASE TermFresh \/ ReapFresh
  BY <1>1, <1>3, <1>7 DEF TermFresh, ReapFresh, Accounted
<1>8. CASE Settle
  <2>1. faults = 0 /\ pc = "settle" /\ UNCHANGED <<tree, cmd, cur, leader>>
    BY <1>1, <1>2, <1>8 DEF Settle, Goto, Terminate, disk, world
  <2>2. CASE pc' \in {"summon", "save"}
    BY <2>1, <2>2, OwnedGoesOn DEF Accounted
  <2>3. CASE pc' = "term" /\ todo' = <<"compositor">> /\ ~Matches(cur, "shell")
    <3>1. Len(todo') = 1 /\ todo'[1] = "compositor"
      BY <2>3
    <3> QED BY <1>3, <2>1, <2>3, <3>1, OwnedGoesOn DEF Accounted, Matches
  <2> QED BY <1>2, <1>8, <2>2, <2>3 DEF Settle, Goto, Terminate
<1>s. CASE Summon
  <2>1. faults = 0 /\ pc' = "save" /\ UNCHANGED <<tree, cmd, cur, leader>>
    BY <1>1, <1>s DEF Summon, Goto, disk, world
  <2> QED BY <2>1, OwnedGoesOn DEF Accounted
<1>9. CASE Save
  <2>1. /\ faults = 0 /\ pc = "save" /\ cur' = cur /\ cmd' = "none"
        /\ Write("record")
    BY <1>1, <1>2, <1>9 DEF Save, Finish
  <2>2. tree'[cur] = "record" /\ \A s \in Session \ {cur} : tree'[s] = tree[s]
    BY <1>3, <2>1 DEF Write, TypeOK
  <2> QED BY <2>1, <2>2, OwnedEnds DEF Accounted
\* The list of groups to terminate.
<1>10. CASE Term \/ Signal \/ Kill \/ Strike
  <2>1. /\ faults = 0 /\ pc \in TermSteps /\ UNCHANGED <<tree, cmd, cur>>
        /\ cmd # "none" /\ todo \in Seq(Role) /\ todo # << >>
    BY <1>1, <1>3, <1>10 DEF Term, Signal, Kill, Strike, AfterTerm, Goto, disk,
                             TypeOK, TermSteps
  <2>2. \A r \in Role : Matches(cur, r)' => Matches(cur, r)
    BY <2>1, StaysDown DEF TermSteps
  <2>3. \A r \in Role : Matches(cur, r) => \E i \in 1 .. Len(todo) : todo[i] = r
    BY <2>1 DEF Accounted
  <2>4. CASE pc' \in {"signal", "kill", "strike"} /\ todo' = todo
    BY <2>1, <2>2, <2>3, <2>4, OwnedGoesOn DEF Accounted
  <2>5. CASE AfterTerm /\ leader'[<<cur, Head(todo)>>] # "up"
    <3>1. ASSUME NEW r \in Role, Matches(cur, r)'
          PROVE  \E j \in 1 .. Len(todo') : todo'[j] = r
      <4>1. r # Head(todo)
        BY <2>1, <2>5, <3>1 DEF Matches
      <4>2. PICK i \in 1 .. Len(todo) : todo[i] = r
        BY <2>2, <2>3, <3>1
      <4> QED BY <2>1, <2>5, <4>1, <4>2, OnTheRest DEF AfterTerm
    <3>2. pc' \in {"term", "cleanup", "erase"} /\ (pc' # "term" => Len(todo') = 0)
      <4>1. Len(todo') = Len(todo) - 1 /\ Len(todo) \in Nat /\ Len(todo) # 0
        BY <2>1, <2>5 DEF AfterTerm
      <4>2. pc' \in {"term", "cleanup", "erase"} /\ (pc' # "term" => ~(Len(todo) > 1))
        BY <2>5 DEF AfterTerm, Goto
      <4> QED BY <4>1, <4>2
    <3>3. pc' # "term" => \A r \in Role : ~Matches(cur, r)'
      BY <3>1, <3>2
    <3>4. Accounted'
      BY <2>1, <3>1, <3>2, <3>3 DEF Accounted, Matches
    <3> QED BY <2>1, <3>4, OwnedGoesOn
  <2>6. CASE Term \/ Kill
    <3>1. CASE ~Matches(cur, Head(todo)) /\ AfterTerm
      BY <2>5, <2>6, <3>1 DEF Term, Kill, Matches, world
    <3>2. CASE pc' \in {"signal", "strike"} /\ todo' = todo
      BY <2>4, <3>2
    <3> QED BY <2>6, <3>1, <3>2 DEF Term, Kill, Goto
  <2>7. CASE Signal
    BY <2>4, <2>7 DEF Signal, Goto
  <2>8. CASE Strike
    <3>1. Head(todo) \in Role
      BY <2>1, <1>3, TermType
    <3>2. leader'[<<cur, Head(todo)>>] # "up"
      BY <1>3, <2>8, <3>1 DEF Strike, TypeOK, Group
    <3> QED BY <2>5, <2>8, <3>2 DEF Strike
  <2> QED BY <1>10, <2>6, <2>7, <2>8
<1>11. CASE CleanUpTree \/ Erase
  <2>1. /\ faults = 0 /\ pc \in {"cleanup", "erase"} /\ cur' = cur /\ cmd' = "none"
        /\ tree' = [tree EXCEPT ![cur] = "none"]
    BY <1>1, <1>2, <1>11 DEF CleanUpTree, Erase, Finish, Remove
  <2>2. \A s \in Session \ {cur} : tree'[s] = tree[s]
    BY <1>3, <2>1 DEF TypeOK
  <2>3. \A r \in Role : ~Matches(cur, r)
    BY <1>3, <2>1 DEF Accounted
  <2> QED BY <2>1, <2>2, <2>3, OwnedEnds DEF Accounted
<1>12. CASE Crash
  BY <1>2, <1>12 DEF Crash
<1>13. CASE Refuse /\ pc = "idle"
  <2>1. faults = 0 /\ UNCHANGED <<tree, cmd, cur>> /\ cmd = "none"
    BY <1>1, <1>3, <1>13 DEF Refuse, disk
  <2> QED BY <2>1, OwnedGoesOn DEF Accounted
\* Between commands every leader that is up has a record.
<1>14. ASSUME NEW p \in Project, BeginStop(p), ~Refuse
       PROVE  OwnedIsRecorded' /\ Accounted'
  <2>1. /\ faults = 0 /\ pc = "idle" /\ UNCHANGED <<leader, tree>>
        /\ pc' = "term" /\ todo' = <<"shell", "compositor">>
    BY <1>1, <1>14 DEF BeginStop, world, disk
  <2>2. OwnedIsRecorded'
    BY <1>3, <2>1 DEF OwnedIsRecorded, Matches
  <2>3. Len(todo') = 2 /\ todo'[1] = "shell" /\ todo'[2] = "compositor"
    BY <2>1
  <2>4. \A r \in Role : \E i \in 1 .. Len(todo') : todo'[i] = r
    BY <1>3, <2>3
  <2> QED BY <2>1, <2>2, <2>4 DEF Accounted
<1>15. ASSUME NEW p \in Project, NEW s \in Session, BeginStart(p, s), ~Refuse
       PROVE  OwnedIsRecorded' /\ Accounted'
  <2>1. /\ faults = 0 /\ pc = "idle" /\ tree[s] = "none" /\ UNCHANGED leader
        /\ tree' = [tree EXCEPT ![s] = "bare"] /\ cur' = s /\ cmd' = "start"
        /\ pc' = "compositor"
    BY <1>1, <1>15 DEF BeginStart, Unused, world
  <2>2. \A t \in Session, r \in Role : Matches(t, r) => tree[t] = "record"
    BY <1>3, <2>1 DEF OwnedIsRecorded
  <2>3. \A t \in Session \ {s} : tree'[t] = tree[t]
    BY <1>3, <2>1 DEF TypeOK
  <2>4. \A r \in Role : ~Matches(s, r)
    BY <2>1, <2>2
  <2>5. OwnedIsRecorded'
    BY <2>1, <2>2, <2>3, <2>4 DEF OwnedIsRecorded, Matches
  <2>6. Accounted'
    BY <2>1, <2>4 DEF Accounted, Matches
  <2> QED BY <2>5, <2>6
\* What the children do by themselves, and nothing at all.
<1>16. CASE (\E g \in Group : Exit(g) \/ Fork(g) \/ Reuse(g)) \/ Hang \/ UNCHANGED vars
  <2>1. /\ faults = 0 /\ UNCHANGED <<tree, cmd, cur, pc, todo>>
    BY <1>1, <1>16 DEF Exit, Fork, Reuse, Hang, Alone, vars, disk
  <2>2. \A s \in Session, r \in Role : leader'[<<s, r>>] = "up" => leader[<<s, r>>] = "up"
    <3>1. ASSUME NEW g \in Group, Exit(g) PROVE leader' = [leader EXCEPT ![g] = "down"]
      BY <3>1 DEF Exit
    <3>2. UNCHANGED leader \/ \E g \in Group : leader' = [leader EXCEPT ![g] = "down"]
      BY <1>16, <3>1 DEF Fork, Reuse, Hang, vars, world
    <3> QED BY <1>3, <3>2 DEF TypeOK, Group
  <2>3. \A r \in Role : Matches(cur, r)' => Matches(cur, r)
    BY <1>3, <2>1, <2>2 DEF Matches
  <2>4. Accounted'
    BY <1>3, <2>1, <2>3 DEF Accounted
  <2> QED BY <2>1, <2>4, OwnedGoesOn
<1> QED
  BY <1>4, <1>5, <1>6, <1>7, <1>8, <1>9, <1>10, <1>11, <1>12, <1>13, <1>14, <1>15,
     <1>16, <1>s DEF Next, Helper, Step, BeginStop, BeginStart

-----------------------------------------------------------------------------
(* Who is signalled                                                        *)

\* Whom a step of the helper may signal: the group it has just found led by
\* its leader, or a child it has not reaped.
LEMMA Aim ==
  ASSUME SessionInv, Strange, Helper
  PROVE  /\ stranger' \subseteq stranger
         /\ seen \subseteq stranger'
<1>0. /\ pc \in {"fresh", "reap"} => cmd = "start"
      /\ "shell" \in Role
  BY DEF SessionInv, Underway, Before, Role
<1>1. CASE TermFresh
  <2>1. <<cur, "shell">> \notin stranger
    BY <1>0, <1>1 DEF Strange, TermFresh
  <2> QED BY <1>1, <2>1 DEF TermFresh, Signalled, Strange
<1>2. CASE Signal
  BY <1>2 DEF Signal, Signalled, Strange
<1>3. CASE Strike
  BY <1>3 DEF Strike, Strange
<1>4. CASE UNCHANGED stranger
  BY <1>4 DEF Strange
<1> QED
  BY <1>1, <1>2, <1>3, <1>4 DEF Helper, Step, world, SpawnCompositor, Await, SpawnShell,
     ReapFresh, Settle, Summon, Save, Term, Kill, CleanUpTree, Erase, Crash,
     BeginStop, BeginStart, Refuse

\* A leader that is down stays down, and a pid is looked at before the signal.
LEMMA StrangeStep ==
  ASSUME SessionInv, Strange, [Next]_vars
  PROVE  Strange' /\ seen \subseteq stranger'
<1>0. /\ leader \in [Group -> {"unborn", "up", "down"}] /\ stranger \subseteq Group
      /\ cur \in Session /\ \A r \in Role : <<cur, r>> \in Group
      /\ pc \in TermSteps => Head(todo) \in Role
      /\ pc \in Before \cup {"cleanup"} => cmd = "start"
      /\ "compositor" \in Role /\ "shell" \in Role
  BY TermType DEF SessionInv, TypeOK, Underway, Group, Role
<1>1. CASE Helper /\ Look
  <2>1. stranger' \subseteq stranger /\ seen \subseteq stranger'
    BY <1>1, Aim
\* Only a process of the running start comes up, and that is no stranger's.
  <2>2. \A g \in stranger : leader'[g] = "down"
    <3>1. ASSUME NEW r \in Role, Spawn(r), pc \in {"compositor", "shell"}
          PROVE  \A g \in stranger : leader'[g] = "down"
      <4>1. <<cur, r>> \notin stranger
        BY <1>0, <3>1 DEF Strange, Before
      <4> QED BY <1>0, <3>1, <4>1 DEF Spawn, Strange
    <3>2. CASE UNCHANGED leader
      BY <3>2 DEF Strange
    <3>3. ASSUME NEW g, leader' = [leader EXCEPT ![g] = "down"]
          PROVE  \A h \in stranger : leader'[h] = "down"
      BY <1>0, <3>3 DEF Strange
    <3>4. CASE SpawnCompositor \/ SpawnShell
      BY <1>0, <3>1, <3>2, <3>4 DEF SpawnCompositor, SpawnShell
    <3>5. CASE TermFresh \/ Signal \/ Strike
      BY <3>2, <3>3, <3>5 DEF TermFresh, Signal, Strike, Signalled
    <3>6. CASE \/ Await \/ ReapFresh \/ Settle \/ Summon \/ Save \/ Term \/ Kill
               \/ CleanUpTree \/ Erase \/ Crash
               \/ \E p \in Project : BeginStop(p) \/ \E s \in Session : BeginStart(p, s)
      BY <3>2, <3>6 DEF Await, ReapFresh, Settle, Summon, Save, Term, Kill, CleanUpTree,
         Erase, Crash, BeginStop, BeginStart, Refuse, world
    <3> QED BY <1>1, <3>4, <3>5, <3>6 DEF Helper, Step
  <2>3. cmd' = "start" => \A r \in Role : <<cur', r>> \notin stranger'
    <3>1. ASSUME NEW p \in Project, NEW s \in Session, BeginStart(p, s), ~Refuse
          PROVE  \A r \in Role : <<cur', r>> \notin stranger'
      BY <2>1, <3>1 DEF BeginStart, Unused, Strange
    <3>2. ASSUME NEW p \in Project, BeginStop(p), ~Refuse PROVE cmd' = "stop"
      BY <3>2 DEF BeginStop
    <3>3. CASE Step \/ Crash \/ Refuse
      <4>1. cmd' = "none" \/ UNCHANGED <<cmd, cur>>
        BY <3>3 DEF Step, Crash, Refuse, Goto, Finish, Terminate, CleanUp, AfterTerm,
           SpawnCompositor, Await, SpawnShell, TermFresh, ReapFresh, Settle, Summon,
           Save, Term, Signal, Kill, Strike, CleanUpTree, Erase
      <4> QED BY <2>1, <4>1 DEF Strange
    <3> QED BY <1>1, <3>1, <3>2, <3>3 DEF Helper
  <2>4. seen' \subseteq stranger'
    BY <1>1 DEF Look
  <2>5. pc' \in {"signal", "strike"} => <<cur', Head(todo')>> \notin seen'
    <3>1. ASSUME pc' \in {"signal", "strike"}
          PROVE  /\ pc \in TermSteps /\ UNCHANGED <<cur, todo, stranger>>
                 /\ Matches(cur, Head(todo))
      BY <1>1, <3>1 DEF Helper, Step, Crash, Refuse, Goto, Finish, Terminate, CleanUp,
         AfterTerm, SpawnCompositor, Await, SpawnShell, TermFresh, ReapFresh, Settle,
         Summon, Save, Term, Signal, Kill, Strike, CleanUpTree, Erase, BeginStop,
         BeginStart, TermSteps, world, SessionInv, Underway
    <3>2. ASSUME pc' \in {"signal", "strike"}
          PROVE  <<cur', Head(todo')>> \notin stranger'
      BY <1>0, <3>1, <3>2 DEF Strange, Matches
    <3> QED BY <2>4, <3>2
  <2> QED BY <2>1, <2>2, <2>3, <2>4, <2>5 DEF Strange
<1>2. ASSUME NEW g \in Group, Exit(g) \/ Fork(g) \/ Reuse(g)
      PROVE  Strange' /\ seen \subseteq stranger'
  <2>1. UNCHANGED <<seen, cmd, cur, pc, todo>>
    BY <1>2 DEF Exit, Fork, Reuse, Alone
  <2>2. CASE Exit(g)
    BY <1>0, <2>1, <2>2 DEF Exit, Strange
  <2>3. CASE Fork(g)
    BY <2>1, <2>3 DEF Fork, Strange
  <2>4. CASE Reuse(g)
    <3>1. stranger' = stranger \cup {g} /\ leader' = leader /\ leader[g] = "down"
      BY <2>4 DEF Reuse
    <3>2. cmd = "start" => \A r \in Role : <<cur, r>> # g
      BY <2>4 DEF Reuse
    <3> QED BY <2>1, <3>1, <3>2 DEF Strange
  <2> QED BY <1>2, <2>2, <2>3, <2>4
<1>3. CASE Hang \/ UNCHANGED vars
  BY <1>3 DEF Hang, vars, world, Strange
<1> QED BY <1>1, <1>2, <1>3 DEF Next

-----------------------------------------------------------------------------
(* Theorems                                                                *)

\* At most the session recorded last can be running, for any number of
\* sessions, projects, deaths and failures.
THEOREM Invariant == Spec => []SessionInv
BY Start, InvStep, PTL DEF Spec

\* A project never has two running sessions.
THEOREM OneAtATime == Spec => []OneRunning
<1>1. SessionInv => OneRunning
  <2> SUFFICES ASSUME SessionInv, NEW s \in Session, NEW t \in Session,
                      Running(s), Running(t), owner[s] = owner[t]
               PROVE  s = t
    BY DEF OneRunning
  <2>1. rank[s] <= rank[t] /\ rank[t] <= rank[s]
    BY DEF SessionInv, LastRuns, Running
  <2>2. rank[s] = rank[t] /\ rank[s] # 0
    BY <2>1 DEF SessionInv, TypeOK, Ranked, Running
  <2> QED BY <2>2 DEF SessionInv, Ranked
<1> QED BY <1>1, Invariant, PTL

\* A stop that succeeds leaves no running session of its project, if the clock
\* told them apart: the one it takes, the newest, is then the one recorded last,
\* and no other can have been running.
THEOREM StopIsFinal == Spec => StopEndsRunning
<1>1. SessionInv /\ [Next]_vars =>
        (cmd = "stop" /\ cmd' = "none" /\ outcome' = "ok" /\ Told(by) => Active(by)' = {})
  <2> SUFFICES ASSUME SessionInv, [Next]_vars,
                      cmd = "stop", cmd' = "none", outcome' = "ok", Told(by)
               PROVE  Active(by)' = {}
    OBVIOUS
  <2>1. Erase /\ Remove("none")
    BY DEF Next, Helper, Step, vars, Goto, Finish, Terminate, CleanUp, AfterTerm, Refuse,
           SpawnCompositor, Await, SpawnShell, TermFresh, ReapFresh, Settle, Summon,
           Save, Term, Signal, Kill, Strike, CleanUpTree, Erase, Crash, BeginStop,
           BeginStart, Alone, Hang, Exit, Fork, Reuse, SessionInv, Underway, Before
  <2>2. /\ cur \in Session /\ cur \in Newest(by)
        /\ tree \in [Session -> {"none", "bare", "torn", "record"}]
        /\ stamp \in [Session -> Nat] /\ rank \in [Session -> Nat]
        /\ tree' = [tree EXCEPT ![cur] = "none"]
        /\ UNCHANGED <<owner, leader, by>>
    BY <2>1 DEF SessionInv, TypeOK, Stopping, Erase, Finish, Remove, world
  <2>3. ASSUME NEW s \in Session, Running(s), owner[s] = by PROVE s = cur
    <3>1. stamp[s] <= stamp[cur] /\ cur \in Recorded(by) /\ s \in Recorded(by)
      BY <2>2, <2>3 DEF Newest, Recorded, Running
    <3>2. rank[cur] <= rank[s]
      BY <2>2, <2>3, <3>1 DEF SessionInv, LastRuns, Recorded
    <3>3. ~(rank[cur] < rank[s])
      BY <2>2, <3>1 DEF Told
    <3>4. rank[s] = rank[cur] /\ rank[s] # 0
      BY <2>2, <2>3, <3>2, <3>3 DEF SessionInv, Ranked, Running
    <3> QED BY <2>2, <2>3, <3>4 DEF SessionInv, Ranked
  <2>4. ASSUME NEW s \in Session, Running(s)', owner'[s] = by PROVE FALSE
    <3>1. tree'[s] = "record" /\ s # cur
      BY <2>2, <2>4 DEF Running
    <3>2. Running(s)
      BY <2>2, <2>4, <3>1 DEF Running, Matches
    <3> QED BY <2>2, <2>3, <2>4, <3>1, <3>2
  <2> QED BY <2>2, <2>4 DEF Active, Recorded
<1> QED BY <1>1, Invariant, PTL DEF Spec, StopEndsRunning

\* A process that had the pid when the helper last looked is never signalled:
\* what it signals was a leader's at that look, and what leads is no stranger.
THEOREM NoStranger == Spec => StrangersKept
<1>1. Init => Strange
  BY DEF Init, Strange
<1>2. SessionInv /\ Strange /\ [Next]_vars => Strange' /\ seen \subseteq stranger'
  <2> SUFFICES ASSUME SessionInv, Strange, [Next]_vars
               PROVE  Strange' /\ seen \subseteq stranger'
    OBVIOUS
  <2> QED BY StrangeStep
<1> QED BY <1>1, <1>2, Invariant, PTL DEF Spec, StrangersKept
\* Without a death or a failed system call nothing runs that has no record:
\* every compositor and shell can be stopped, however its start ended.
THEOREM Recoverable == Spec => []OwnedIsRecorded
<1>1. Init => OwnerInv
  BY DEF Init, OwnerInv, OwnedIsRecorded, Accounted, Matches, Group
<1>2. OwnerInv => OwnedIsRecorded
  BY DEF OwnerInv
<1> QED BY <1>1, <1>2, OwnerStep, Invariant, PTL DEF Spec
=============================================================================
