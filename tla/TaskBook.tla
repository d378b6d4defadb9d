------------------------------ MODULE TaskBook ------------------------------
(***************************************************************************)
(* What the workbench promises about task sessions: a book in which each   *)
(* has its line for ever, open at first and at some time closed, and no    *)
(* two open ones own the same branch.                                      *)
(***************************************************************************)
EXTENDS Naturals, Sequences

CONSTANTS Project, Task

VARIABLE book

Session == [project : Project, task : Task, started : Nat, by : Nat, open : BOOLEAN]

\* The branch codex/task is owned, whatever the project.
Owned(sessions, task) ==
  \E i \in DOMAIN sessions : sessions[i].open /\ sessions[i].task = task

Init == book = <<>>

Start(session) ==
  /\ session \in Session /\ session.open
  /\ ~Owned(book, session.task)
  /\ book' = Append(book, session)

Close(i) ==
  /\ i \in DOMAIN book /\ book[i].open
  /\ book' = [book EXCEPT ![i].open = FALSE]

Next ==
  \/ book' # <<>> /\ Start(book'[Len(book')])
  \/ \E i \in DOMAIN book : Close(i)

Spec == Init /\ [][Next]_book

-----------------------------------------------------------------------------
OneOwner ==
  \A i, j \in DOMAIN book :
    book[i].open /\ book[j].open /\ book[i].task = book[j].task => i = j
=============================================================================
