---------------------------- MODULE TestSession ----------------------------
(***************************************************************************)
(* src/test_session.rs: nested test sessions, each a directory tree with a *)
(* record in it and two process groups, the compositor's and the shell's.  *)
(*                                                                         *)
(* A command holds the workbench lock for as long as it runs, so one runs  *)
(* at a time; what it is interleaved with are the processes it has started *)
(* or is stopping.  They exit, ignore SIGTERM, leave members of their      *)
(* group behind, and free their pid for a stranger.  The helper itself may *)
(* die anywhere, which neither kills what it started nor undoes what it    *)
(* wrote.                                                                  *)
(*                                                                         *)
(* A process is known by its pid and start time; two processes never have  *)
(* both in common.  That identity is checked in one step and the group is  *)
(* signalled in the next.  started_at_unix is the wall clock in seconds:   *)
(* it may be the same for two sessions, or earlier for the later one.      *)
(***************************************************************************)
EXTENDS Naturals, Sequences

CONSTANTS
  Project,
  Session,      \* the sessions that can ever be started
  Time,         \* the seconds the clock may show
  MaxFaults     \* bound: deaths of the helper and failed system calls

ASSUME FaultAssumption == MaxFaults \in Nat
ASSUME TimeAssumption == Time \subseteq Nat

Role == {"compositor", "shell"}
Group == Session \X Role

VARIABLES
  tree,       \* the directory: none, bare (no record), torn record, record
  owner,      \* the project of a session
  stamp,      \* started_at_unix of a recorded session
  rank,       \* observed: its place in the order of recording, 0 if in none
  written,    \* observed: the last of these places
  leader,     \* the process that leads a group
  crew,       \* the groups in which another process is alive
  stranger,   \* the pids of former leaders other processes have now
  seen,       \* observed: the strangers there were at the command's last step
  cmd,        \* the command that holds the lock
  by,         \* the project it is about
  cur,        \* the session it is about
  pc,         \* its next step
  todo,       \* the groups it has yet to terminate
  hung,       \* a tool it waits for never answers
  outcome,    \* what the last command reported, none while it runs
  faults

world == <<leader, crew, stranger>>
disk == <<tree, owner, stamp, rank, written>>
vars == <<world, disk, seen, cmd, by, cur, pc, todo, hung, outcome, faults>>

TermSteps == {"term", "signal", "kill", "strike"}

StartSteps == {"compositor", "await", "shell", "fresh", "reap", "settle",
               "summon", "save", "cleanup"} \cup TermSteps

TypeOK ==
  /\ tree \in [Session -> {"none", "bare", "torn", "record"}]
  /\ owner \in [Session -> Project]
  /\ stamp \in [Session -> Nat]
  /\ rank \in [Session -> Nat]
  /\ written \in Nat
  /\ leader \in [Group -> {"unborn", "up", "down"}]
  /\ crew \subseteq Group
  /\ stranger \subseteq Group
  /\ seen \subseteq Group
  /\ cmd \in {"none", "start", "stop"}
  /\ by \in Project
  /\ cur \in Session
  /\ pc \in StartSteps \cup {"idle", "erase"}
  /\ todo \in Seq(Role)
  /\ pc \in TermSteps => todo # << >>
  /\ hung \in BOOLEAN
  /\ outcome \in {"none", "ok", "error"}
  /\ faults \in 0 .. MaxFaults

Init ==
  /\ tree = [s \in Session |-> "none"]
  /\ owner \in [Session -> Project]
  /\ stamp = [s \in Session |-> 0]
  /\ rank = [s \in Session |-> 0]
  /\ written = 0
  /\ leader = [g \in Group |-> "unborn"]
  /\ crew = {}
  /\ stranger = {} /\ seen = {}
  /\ cmd = "none" /\ pc = "idle" /\ todo = << >> /\ hung = FALSE
  /\ by \in Project /\ cur \in Session
  /\ outcome = "none"
  /\ faults = 0

-----------------------------------------------------------------------------
(* What a command sees                                                     *)

\* process_matches: the recorded process is alive and no zombie.
Matches(s, r) == leader[<<s, r>>] = "up"

Recorded(p) == {s \in Session : tree[s] = "record" /\ owner[s] = p}

Running(s) == tree[s] = "record" /\ \A r \in Role : Matches(s, r)

\* list_unlocked fails, for any project, on a record that does not parse.
Readable == \A s \in Session : tree[s] # "torn"

\* active_count
Active(p) == {s \in Recorded(p) : Running(s)}

-----------------------------------------------------------------------------
(* Steps of a command                                                      *)

Fault == faults < MaxFaults /\ faults' = faults + 1

\* What each step of a command finds, whatever else it does.
Look == seen' = IF pc' = "idle" THEN {} ELSE stranger'

Goto(l) == pc' = l /\ UNCHANGED <<cmd, by, cur, hung, outcome>>

Finish(o) ==
  /\ pc' = "idle" /\ cmd' = "none" /\ todo' = << >>
  /\ hung' = FALSE /\ outcome' = o
  /\ UNCHANGED <<by, cur>>

\* Terminate these groups, in this order, before the command ends.
Terminate(roles) == todo' = roles /\ Goto("term")

CleanUp == todo' = << >> /\ Goto("cleanup")

Refuse ==
  /\ outcome' = "error"
  /\ UNCHANGED <<world, disk, cmd, by, cur, pc, todo, hung, faults>>

\* An id that was never used.
Unused(s) == tree[s] = "none" /\ \A r \in Role : leader[<<s, r>>] = "unborn"

\* Seeded fault: a running session does not stop another from starting.
BeginStartUnchecked(p, s) ==
  /\ pc = "idle"
  /\ Unused(s) /\ owner[s] = p
  /\ \/ /\ Readable
        /\ tree' = [tree EXCEPT ![s] = "bare"]
        /\ cmd' = "start" /\ by' = p /\ cur' = s /\ pc' = "compositor"
        /\ outcome' = "none"
        /\ UNCHANGED <<world, owner, stamp, rank, written, todo, hung, faults>>
     \/ Refuse

\* The host, the plugin and the new directory may each be found unfit.
BeginStart(p, s) ==
  /\ pc = "idle"
  /\ Unused(s) /\ owner[s] = p
  /\ \/ /\ Readable /\ Active(p) = {}
        /\ tree' = [tree EXCEPT ![s] = "bare"]
        /\ cmd' = "start" /\ by' = p /\ cur' = s /\ pc' = "compositor"
        /\ outcome' = "none"
        /\ UNCHANGED <<world, owner, stamp, rank, written, todo, hung, faults>>
     \/ Refuse

Spawn(r) == leader' = [leader EXCEPT ![<<cur, r>>] = "up"]

\* A compositor whose start time cannot be read is left running.
SpawnCompositor ==
  /\ pc = "compositor"
  /\ \/ Spawn("compositor") /\ Goto("await") /\ UNCHANGED <<todo, faults>>
     \/ CleanUp /\ UNCHANGED <<leader, faults>>
     \/ Fault /\ Spawn("compositor") /\ CleanUp
  /\ UNCHANGED <<crew, stranger, disk>>

\* wait_for_instance: hyprctl knows the compositor, or it exits or takes too
\* long.  Nothing limits the call of hyprctl itself.
Await ==
  /\ pc = "await" /\ ~hung
  /\ \/ Goto("shell") /\ UNCHANGED todo
     \/ Terminate(<<"compositor">>)
  /\ UNCHANGED <<world, disk, faults>>

\* Seeded fault: the compositor is forgotten when the shell does not start.
SpawnShellOnly ==
  /\ pc = "shell"
  /\ \/ Spawn("shell") /\ Goto("settle") /\ UNCHANGED todo
     \/ CleanUp /\ UNCHANGED leader
  /\ UNCHANGED <<crew, stranger, disk, faults>>

\* Without quickshell or a second handle of the log the command returns at
\* once; without the shell's start time it terminates the child it has.
SpawnShell ==
  /\ pc = "shell"
  /\ \/ Spawn("shell") /\ Goto("settle") /\ UNCHANGED <<todo, faults>>
     \/ Terminate(<<"compositor">>) /\ UNCHANGED <<leader, faults>>
     \/ Fault /\ CleanUp /\ UNCHANGED leader
     \/ Fault /\ Spawn("shell") /\ Goto("fresh") /\ UNCHANGED todo
  /\ UNCHANGED <<crew, stranger, disk>>

\* SIGTERM reaches whoever is in the group: each member dies of it or ignores
\* it, and so does a stranger that has taken the pid.
Signalled(g) ==
  /\ leader' \in {leader, [leader EXCEPT ![g] = "down"]}
  /\ crew' \in {crew, crew \ {g}}
  /\ stranger' = stranger \ {g}

\* terminate_fresh_child: signal without a check, then wait without a limit.
TermFresh ==
  /\ pc = "fresh"
  /\ Signalled(<<cur, "shell">>)
  /\ Goto("reap")
  /\ UNCHANGED <<disk, todo, faults>>

ReapFresh ==
  /\ pc = "reap"
  /\ leader[<<cur, "shell">>] = "down"
  /\ Terminate(<<"compositor">>)
  /\ UNCHANGED <<world, disk, faults>>

\* The shell has 0.8 s to fail; what the compositor does is not looked at.  A
\* panel, an overlay and a menu are then summoned, other kinds are not.
Settle ==
  /\ pc = "settle"
  /\ \/ /\ Matches(cur, "shell")
        /\ \E l \in {"summon", "save"} : Goto(l)
        /\ UNCHANGED <<todo, faults>>
     \/ /\ ~Matches(cur, "shell")
        /\ Terminate(<<"compositor">>) /\ UNCHANGED faults
     \/ Fault /\ Terminate(<<"shell", "compositor">>)
  /\ UNCHANGED <<world, disk>>

\* summon_plugin: up to twenty calls of the shell, none of which has a limit.
\* That they fail is written to the log and to nothing else.
Summon ==
  /\ pc = "summon" /\ ~hung
  /\ Goto("save")
  /\ UNCHANGED <<world, disk, todo, faults>>

\* write_private writes the record in place: what is there if it fails may be
\* no record, a part of it or all of it.
Write(d) ==
  /\ tree' = [tree EXCEPT ![cur] = d]
  /\ IF d = "record"
       THEN /\ \E t \in Time : stamp' = [stamp EXCEPT ![cur] = t]
            /\ rank' = [rank EXCEPT ![cur] = written + 1]
            /\ written' = written + 1
       ELSE UNCHANGED <<stamp, rank, written>>
  /\ UNCHANGED owner

Save ==
  /\ pc = "save"
  /\ \/ Write("record") /\ Finish("ok") /\ UNCHANGED faults
     \/ /\ Fault
        /\ \E d \in {"bare", "torn", "record"} : Write(d)
        /\ Terminate(<<"shell", "compositor">>)
  /\ UNCHANGED world

AfterTerm ==
  /\ todo' = Tail(todo)
  /\ Goto(IF Len(todo) > 1 THEN "term"
          ELSE IF cmd = "start" THEN "cleanup" ELSE "erase")

\* terminate_pid_group: a group whose leader is gone is left alone.
Term ==
  /\ pc = "term"
  /\ IF Matches(cur, Head(todo)) THEN Goto("signal") /\ UNCHANGED todo
                                 ELSE AfterTerm
  /\ UNCHANGED <<world, disk, faults>>

\* kill(-pid, SIGTERM): by now the leader may have gone and the pid changed
\* hands.
Signal ==
  /\ pc = "signal"
  /\ Signalled(<<cur, Head(todo)>>)
  /\ Goto("kill")
  /\ UNCHANGED <<disk, todo, faults>>

\* Seeded fault: the identity is not checked again before SIGKILL.
KillUnchecked ==
  /\ pc = "kill"
  /\ Goto("strike")
  /\ UNCHANGED <<world, disk, todo, faults>>

\* Seeded fault: a process that ignores SIGTERM is waited for.
KillNever ==
  /\ pc = "kill"
  /\ ~Matches(cur, Head(todo))
  /\ AfterTerm
  /\ UNCHANGED <<world, disk, faults>>

\* The grace period is over, or the leader exited before: look again.
Kill ==
  /\ pc = "kill"
  /\ IF Matches(cur, Head(todo)) THEN Goto("strike") /\ UNCHANGED todo
                                 ELSE AfterTerm
  /\ UNCHANGED <<world, disk, faults>>

\* kill(-pid, SIGKILL)
Strike ==
  /\ pc = "strike"
  /\ LET g == <<cur, Head(todo)>> IN
       /\ leader' = [leader EXCEPT ![g] = "down"]
       /\ crew' = crew \ {g}
       /\ stranger' = stranger \ {g}
  /\ AfterTerm
  /\ UNCHANGED <<disk, faults>>

\* The record is erased, with the tree (none) or before remove_dir_all stops
\* half-way (bare).
Remove(d) ==
  /\ tree' = [tree EXCEPT ![cur] = d]
  /\ stamp' = [stamp EXCEPT ![cur] = 0]
  /\ rank' = [rank EXCEPT ![cur] = 0]
  /\ UNCHANGED <<owner, written>>

\* start ends in an error; that its tree could not be erased is ignored.
CleanUpTree ==
  /\ pc = "cleanup"
  /\ \/ Remove("none") /\ UNCHANGED faults
     \/ Fault /\ (UNCHANGED disk \/ Remove("bare"))
  /\ Finish("error")
  /\ UNCHANGED world

\* Seeded fault: stop takes the oldest session.
Oldest(p) ==
  {s \in Recorded(p) : \A t \in Recorded(p) : stamp[s] <= stamp[t]}

\* Of several with the newest stamp, read_dir's order decides.
Newest(p) ==
  {s \in Recorded(p) : \A t \in Recorded(p) : stamp[t] <= stamp[s]}

BeginStop(p) ==
  /\ pc = "idle"
  /\ \/ /\ Readable
        /\ \E s \in Newest(p) : cur' = s
        /\ cmd' = "stop" /\ by' = p
        /\ todo' = <<"shell", "compositor">> /\ pc' = "term"
        /\ outcome' = "none"
        /\ UNCHANGED <<world, disk, hung, faults>>
     \/ ~(Readable /\ Recorded(p) # {}) /\ Refuse

Erase ==
  /\ pc = "erase"
  /\ \/ Remove("none") /\ Finish("ok") /\ UNCHANGED faults
     \/ Fault /\ (UNCHANGED disk \/ Remove("bare")) /\ Finish("error")
  /\ UNCHANGED world

-----------------------------------------------------------------------------
(* Deaths                                                                  *)

\* The helper dies; a record or a tree it was working on stays as it is.
Crash ==
  /\ pc # "idle"
  /\ Fault
  /\ \/ UNCHANGED disk
     \/ pc = "save" /\ \E d \in {"torn", "record"} : Write(d)
     \/ pc \in {"cleanup", "erase"} /\ Remove("bare")
  /\ Finish("error")
  /\ UNCHANGED world

\* hyprctl or the shell's IPC does not answer a call, ever.
Hang ==
  /\ pc \in {"await", "summon"} /\ ~hung
  /\ hung' = TRUE
  /\ UNCHANGED <<world, disk, seen, cmd, by, cur, pc, todo, outcome, faults>>

Alone == UNCHANGED <<disk, seen, cmd, by, cur, pc, todo, hung, outcome, faults>>

\* The leader exits, whether or not its group goes with it.
Exit(g) ==
  /\ leader[g] = "up"
  /\ leader' = [leader EXCEPT ![g] = "down"]
  /\ crew' \in {crew, crew \ {g}}
  /\ UNCHANGED stranger /\ Alone

Fork(g) ==
  /\ leader[g] = "up"
  /\ crew' = crew \cup {g}
  /\ UNCHANGED <<leader, stranger>> /\ Alone

\* A pid is free once its process has been reaped and its group is empty.
Reuse(g) ==
  /\ leader[g] = "down" /\ g \notin crew
  /\ ~(cmd = "start" /\ g[1] = cur)
  /\ stranger' = stranger \cup {g}
  /\ UNCHANGED <<leader, crew>> /\ Alone

Step ==
  \/ SpawnCompositor \/ Await \/ SpawnShell \/ TermFresh \/ ReapFresh
  \/ Settle \/ Summon \/ Save \/ Term \/ Signal \/ Kill \/ Strike
  \/ CleanUpTree \/ Erase

Helper ==
  \/ Step \/ Crash
  \/ \E p \in Project : BeginStop(p) \/ \E s \in Session : BeginStart(p, s)

Next ==
  \/ Helper /\ Look
  \/ Hang
  \/ \E g \in Group : Exit(g) \/ Fork(g) \/ Reuse(g)

Spec == Init /\ [][Next]_vars

\* A command that can go on does; its children and the tools it calls do as
\* they like.
Fairness == WF_vars(Step /\ Look)

-----------------------------------------------------------------------------
(* Properties                                                              *)

\* "project already has a running nested test session": a project never has
\* two, whatever died and was started again.
OneRunning ==
  \A s, t \in Session : Running(s) /\ Running(t) /\ owner[s] = owner[t] => s = t

\* A process that had the pid of a former compositor or shell when the helper
\* last looked is never signalled, not even if it got it in the three seconds
\* between SIGTERM and SIGKILL.  One that gets it between the look and the
\* signal is: nothing in the code closes that window.
StrangersKept == [][seen \subseteq stranger']_vars

\* started_at_unix tells in which order the sessions were recorded.
Told(p) ==
  \A s, t \in Recorded(p) : rank[s] < rank[t] => stamp[s] < stamp[t]

\* A stop that reports success leaves no running session of the project, as
\* long as the clock told its sessions apart: of two that were recorded in the
\* same second, or around a step back of the clock, stop may take the half-dead
\* one and leave the other running.
StopEndsRunning ==
  [][cmd = "stop" /\ cmd' = "none" /\ outcome' = "ok" /\ Told(by) =>
       Active(by)' = {}]_vars

\* Unless the helper dies or a system call fails, a compositor or shell is
\* alive only with a record by which it can be stopped, however its start
\* ended.
OwnedIsRecorded ==
  faults = 0 =>
    \A s \in Session, r \in Role :
      Matches(s, r) => tree[s] = "record" \/ (cmd # "none" /\ s = cur)

\* What holds the lock for ever: a tool that does not answer, and a shell
\* without a known start time that ignores SIGTERM.
Waiting == hung \/ (pc = "reap" /\ Matches(cur, "shell"))

\* Every command gives the lock back, unless it waits for one of these for ever.
CommandEnds == []<>(cmd = "none") \/ <>[]Waiting

(***************************************************************************)
(* Why OneRunning and StopEndsRunning hold: of the sessions of a project   *)
(* only the one recorded last can be running.  When a session begins none  *)
(* is, and a leader that is down stays down.                               *)
(***************************************************************************)
Ranked ==
  /\ \A s \in Session : rank[s] <= written
  /\ \A s \in Session : tree[s] = "record" => rank[s] # 0
  /\ \A s, t \in Session : rank[s] = rank[t] /\ rank[s] # 0 => s = t

Before == {"compositor", "await", "shell", "fresh", "reap", "settle", "summon",
           "save"}

Underway ==
  /\ pc = "idle" <=> cmd = "none"
  /\ pc \in Before \cup {"cleanup"} => cmd = "start"
  /\ pc = "erase" => cmd = "stop"

Starting ==
  cmd = "start" =>
    /\ owner[cur] = by
    /\ \A s \in Session : Running(s) /\ owner[s] = by => s = cur
    /\ pc \in Before => tree[cur] = "bare"
    /\ tree[cur] = "record" => rank[cur] = written

Stopping == cmd = "stop" => cur \in Newest(by)

LastRuns ==
  \A s, t \in Session :
    Running(s) /\ tree[t] = "record" /\ owner[s] = owner[t] => rank[t] <= rank[s]

SessionInv == TypeOK /\ Ranked /\ Underway /\ Starting /\ Stopping /\ LastRuns

(***************************************************************************)
(* Why OwnedIsRecorded holds: without a death or a failed call, whatever   *)
(* of the current session is alive is on the list of what the command      *)
(* terminates before it erases the tree.                                   *)
(***************************************************************************)
Accounted ==
  faults = 0 /\ cmd # "none" =>
    /\ pc \notin {"fresh", "reap"}
    /\ pc \in {"compositor", "cleanup", "erase"} => \A r \in Role : ~Matches(cur, r)
    /\ pc \in {"await", "shell"} => ~Matches(cur, "shell")
    /\ pc \in TermSteps =>
         \A r \in Role : Matches(cur, r) => \E i \in 1 .. Len(todo) : todo[i] = r

OwnerInv == OwnedIsRecorded /\ Accounted

(***************************************************************************)
(* Why StrangersKept holds: a pid passes to a stranger only when its       *)
(* leader is down, and a child of the running command is not reaped.  So   *)
(* what has just matched was no stranger's.                                *)
(***************************************************************************)
Strange ==
  /\ \A g \in stranger : leader[g] = "down"
  /\ cmd = "start" => \A r \in Role : <<cur, r>> \notin stranger
  /\ seen \subseteq stranger
  /\ pc \in {"signal", "strike"} => <<cur, Head(todo)>> \notin seen
=============================================================================
