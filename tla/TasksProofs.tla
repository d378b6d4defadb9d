---------------------------- MODULE TasksProofs ----------------------------
(***************************************************************************)
(* Proofs about Tasks: the record of task sessions implements TaskBook,    *)
(* and an open session has the work tree its own start made.               *)
(***************************************************************************)
EXTENDS Tasks, TLAPS

\* The work tree at the path of a session is the one its start made.
Kept(session, at, except) ==
  PathOf(session) \notin except =>
    /\ at[PathOf(session)] # None
    /\ at[PathOf(session)].by = session.by

Backed(sessions, at, except) ==
  \A i \in DOMAIN sessions : sessions[i].open => Kept(sessions[i], at, except)

\* What holds of one process: TasksInv's part, what it is after, and that the
\* open sessions it has loaded, or is about to record, have their work trees.
Sound(q) ==
  /\ pc[q] \in {"start", "git", "save", "close"} => holder = q /\ got[q] = book
  /\ pc[q] \in {"git", "save"} => ~Book!Owned(book, want[q].task)
  /\ pc[q] = "lock" => op[q] \in {"start", "close"}
  /\ pc[q] \in {"start", "git", "save"} => op[q] = "start"
  /\ op[q] = "start" => want[q] \in Book!Session /\ want[q].open
  /\ pc[q] = "save" => Kept(want[q], trees, emptied)
  /\ Backed(got[q], trees, emptied)

IInv == TypeOK /\ Backed(book, trees, emptied) /\ Book!OneOwner /\ \A q \in Process : Sound(q)

LEMMA PathType == ASSUME NEW s \in Book!Session PROVE PathOf(s) \in Path
BY DEF Book!Session, PathOf, Path

LEMMA NoneBacked == Backed(<<>>, trees, emptied) /\ Backed(<<>>, trees', emptied')
BY DEF Backed

-----------------------------------------------------------------------------
(* The inductive invariant                                                 *)

LEMMA Start == Init => IInv
<1> SUFFICES ASSUME Init PROVE IInv
  OBVIOUS
<1>1. TypeOK
  BY DEF Init, TypeOK, Dirt, Stage
<1>2. Backed(book, trees, emptied) /\ Book!OneOwner
  BY NoneBacked DEF Init, Book!OneOwner
<1>3. \A q \in Process : Sound(q)
  BY NoneBacked DEF Init, Sound
<1> QED BY <1>1, <1>2, <1>3 DEF IInv

\* The work trees that are there stay, except where the user empties a path.
Standing ==
  \A path \in Path : path \notin emptied' =>
    path \notin emptied /\ (trees[path] # None => trees'[path] = trees[path])

LEMMA Lasting ==
  ASSUME Standing, NEW s \in Book!Session, Kept(s, trees, emptied)
  PROVE  Kept(s, trees', emptied')
BY PathType DEF Standing, Kept, PathOf

LEMMA BackedLasts ==
  ASSUME Standing, NEW sessions \in Seq(Book!Session), Backed(sessions, trees, emptied)
  PROVE  Backed(sessions, trees', emptied')
BY Lasting DEF Backed

\* git worktree add leaves every work tree there was.
LEMMA Making ==
  ASSUME TypeOK, emptied' = emptied, NEW s \in Book!Session,
         trees[PathOf(s)] = None,
         trees' = [trees EXCEPT ![PathOf(s)] = [by |-> s.by, base |-> head]]
  PROVE  /\ Standing /\ Kept(s, trees', emptied')
         /\ PathOf(s) \in Path /\ trees' \in [Path -> Tree \cup {None}]
<1>1. PathOf(s) \in Path
  BY PathType
<1>2. [by |-> s.by, base |-> head] \in Tree /\ s.by \in Nat
  BY DEF TypeOK, Tree, Book!Session
<1>3. trees' \in [Path -> Tree \cup {None}]
  BY <1>2 DEF TypeOK
<1>4. Standing
  BY <1>1 DEF TypeOK, Standing
<1>5. trees'[PathOf(s)] = [by |-> s.by, base |-> head]
  BY <1>1 DEF TypeOK
<1>6. Kept(s, trees', emptied')
  BY <1>2, <1>5, NoneAssumption DEF Kept
<1> QED BY <1>1, <1>3, <1>4, <1>6

\* One process moves and leaves the record as it is: what there is to show is
\* about that process.
LEMMA Moving ==
  ASSUME IInv, TypeOK', Standing, NEW q \in Process, book' = book,
         \A r \in Process \ {q} :
           /\ pc'[r] = pc[r] /\ op'[r] = op[r] /\ want'[r] = want[r]
           /\ got'[r] = got[r] /\ (holder = r => holder' = r),
         Sound(q)'
  PROVE  IInv'
<1>1. ASSUME NEW r \in Process \ {q} PROVE Sound(r)'
  <2>0. /\ Sound(r) /\ got[r] \in Seq(Book!Session)
        /\ pc'[r] = pc[r] /\ op'[r] = op[r] /\ want'[r] = want[r]
        /\ got'[r] = got[r] /\ (holder = r => holder' = r)
    BY DEF IInv, TypeOK
  <2>1. Backed(got'[r], trees', emptied')
    BY <2>0, BackedLasts DEF Sound, Backed
  <2>2. pc[r] = "save" => Kept(want[r], trees', emptied')
    BY <2>0, Lasting DEF Sound
  <2>3. pc'[r] = "save" => Kept(want'[r], trees', emptied')
    BY <2>0, <2>2
  <2> QED BY <2>0, <2>1, <2>3 DEF Sound, Book!Owned
<1>2. Backed(book', trees', emptied')
  BY BackedLasts DEF IInv, TypeOK, Backed
<1>3. Book!OneOwner'
  BY DEF IInv, Book!OneOwner
<1>4. \A r \in Process : Sound(r)'
  BY <1>1
<1> QED BY <1>2, <1>3, <1>4 DEF IInv

\* The parts of a command's end that the next lemmas need.
LEMMA Ended ==
  ASSUME TypeOK, NEW q \in Process, Finish(q)
  PROVE  /\ pc'[q] = "idle" /\ op'[q] = "none" /\ got'[q] = <<>>
         /\ pc' \in [Process -> Stage] /\ holder' \in Process \cup {Nobody}
         /\ op' \in [Process -> {"start", "close", "handoff", "none"}]
         /\ want' \in [Process -> Book!Session \cup Ids \cup {None}]
         /\ got' \in [Process -> Seq(Book!Session)]
         /\ still' \subseteq Process
         /\ \A r \in Process \ {q} :
              /\ pc'[r] = pc[r] /\ op'[r] = op[r] /\ want'[r] = want[r]
              /\ got'[r] = got[r] /\ (holder = r => holder' = r)
         /\ Sound(q)'
<1>1. /\ pc'[q] = "idle" /\ op'[q] = "none" /\ got'[q] = <<>>
      /\ \A r \in Process \ {q} :
           /\ pc'[r] = pc[r] /\ op'[r] = op[r] /\ want'[r] = want[r]
           /\ got'[r] = got[r] /\ (holder = r => holder' = r)
  BY DEF Finish, Goto, TypeOK
<1>2. Sound(q)'
  BY <1>1, NoneBacked DEF Sound
<1> QED BY <1>1, <1>2 DEF Finish, Goto, TypeOK, Stage

LEMMA BeginInv ==
  ASSUME IInv, NEW q \in Process,
         \/ \E project \in Project, task \in Task, now \in Time :
              BeginStart(q, project, task, now)
         \/ \E id \in Ids : BeginClose(q, id) \/ BeginHandoff(q, id)
  PROVE  IInv'
<1>0. TypeOK /\ Sound(q)
  BY DEF IInv
<1>1. PICK o \in {"start", "close", "handoff"}, w \in Book!Session \cup Ids,
           at \in {"lock", "load"} :
        /\ Begin(q, o, w, at) /\ still' \subseteq Process
        /\ o = "start" => w \in Book!Session /\ w.open
        /\ at = "lock" => o \in {"start", "close"}
  <2>1. ASSUME NEW project \in Project, NEW task \in Task, NEW now \in Time,
               BeginStart(q, project, task, now)
        PROVE  \E w \in Book!Session :
                 Begin(q, "start", w, "lock") /\ w.open /\ still' \subseteq Process
    <3> DEFINE w == [project |-> project, task |-> task, started |-> now,
                     by |-> calls, open |-> TRUE]
    <3>1. w \in Book!Session /\ w.open
      BY <1>0, TimeAssumption DEF TypeOK, Book!Session
    <3> QED BY <1>0, <2>1, <3>1 DEF BeginStart, TypeOK
  <2>2. ASSUME NEW id \in Ids, BeginClose(q, id) \/ BeginHandoff(q, id)
        PROVE  /\ Begin(q, "close", id, "lock") \/ Begin(q, "handoff", id, "load")
               /\ still' \subseteq Process
    BY <1>0, <2>2 DEF BeginClose, BeginHandoff, TypeOK
  <2> QED BY <2>1, <2>2
<1>2. /\ pc'[q] = at /\ op'[q] = o /\ want'[q] = w /\ got' = got /\ holder' = holder
      /\ book' = book /\ trees' = trees /\ emptied' = emptied
      /\ \A r \in Process \ {q} : pc'[r] = pc[r] /\ op'[r] = op[r] /\ want'[r] = want[r]
  BY <1>0, <1>1 DEF Begin, Goto, TypeOK, files, disk
<1>3. TypeOK'
  BY <1>0, <1>1
  DEF TypeOK, Begin, Goto, Stage, files, disk, checkout
<1>4. Standing /\ Backed(got'[q], trees', emptied')
  BY <1>0, <1>2 DEF Standing, Kept, Backed, Sound
<1>5. Sound(q)'
  BY <1>1, <1>2, <1>4 DEF Sound
<1> QED BY <1>2, <1>3, <1>4, <1>5, Moving

\* Everything but starts of commands and saves of the record.
LEMMA MiddleInv ==
  ASSUME IInv, NEW q \in Process,
         \/ Fail(q) \/ Acquire(q) \/ Check(q) \/ Git(q) \/ GitFails(q) \/ Orphan(q)
         \/ LoadHandoff(q) \/ Describe(q)
  PROVE  IInv'
<1>0. TypeOK /\ Sound(q) /\ Backed(book, trees, emptied)
  BY DEF IInv
<1>1. CASE Fail(q)
  <2>1. Finish(q) /\ UNCHANGED <<checkout, disk, files, adrift, emptied, counts>>
    BY <1>1 DEF Fail
  <2>2. TypeOK'
    BY <1>0, <2>1, Ended DEF TypeOK, checkout, disk, files, counts
  <2>3. Standing /\ book' = book
    BY <2>1 DEF Standing, disk, files
  <2> QED BY <1>0, <2>1, <2>2, <2>3, Ended, Moving
<1>2. CASE Acquire(q) \/ LoadHandoff(q)
  <2>1. /\ got' = [got EXCEPT ![q] = book] /\ book' = book
        /\ UNCHANGED <<op, want, trees, emptied>>
        /\ \/ pc[q] = "lock" /\ pc'[q] = op[q] /\ holder' = q /\ holder = Nobody
           \/ pc'[q] = "describe" /\ holder' = holder
        /\ \A r \in Process \ {q} : pc'[r] = pc[r]
    BY <1>0, <1>2
    DEF Acquire, LoadHandoff, Load, Goto, TypeOK, files, disk, observed
  <2>2. TypeOK'
    <3>1. pc' \in [Process -> Stage]
      BY <1>0, <1>2 DEF Acquire, LoadHandoff, Goto, TypeOK, Stage, Sound
    <3> QED
      BY <1>0, <1>2, <2>1, <3>1
      DEF Acquire, LoadHandoff, TypeOK, checkout, disk, files, observed, counts
  <2>3. Standing /\ Backed(book, trees', emptied')
    BY <1>0, <2>1 DEF Standing, Backed, Kept
  <2>4. Sound(q)'
    <3>1. got'[q] = book /\ Backed(got'[q], trees', emptied')
      BY <1>0, <2>1, <2>3 DEF TypeOK, Backed
    <3>2. pc[q] = "lock" => op[q] \in {"start", "close"}
      BY <1>0 DEF Sound
    <3> QED BY <1>0, <2>1, <3>1, <3>2 DEF Sound
  <2>5. \A r \in Process \ {q} : got'[r] = got[r] /\ (holder = r => holder' = r)
    BY <1>0, <2>1, NobodyAssumption DEF TypeOK
  <2> QED BY <2>1, <2>2, <2>3, <2>4, <2>5, Moving
<1>3. CASE Check(q)
  <2>1. /\ pc[q] = "start" /\ pc'[q] = "git" /\ ~Book!Owned(got[q], want[q].task)
        /\ UNCHANGED <<book, got, op, want, holder, trees, emptied>>
        /\ \A r \in Process \ {q} : pc'[r] = pc[r]
    BY <1>0, <1>3 DEF Check, Goto, TypeOK, files, disk, locals, observed
  <2>2. TypeOK'
    BY <1>0, <1>3
    DEF Check, Goto, TypeOK, Stage, checkout, disk, files, locals, observed, counts
  <2>3. Standing /\ Backed(got'[q], trees', emptied')
    BY <1>0, <2>1 DEF Standing, Sound, Backed, Kept
  <2>4. Sound(q)'
    BY <1>0, <2>1, <2>3 DEF Sound, Book!Owned
  <2> QED BY <2>1, <2>2, <2>3, <2>4, Moving
<1>4. CASE Git(q)
  <2>1. /\ pc[q] = "git" /\ pc'[q] = "save" /\ Make(want[q])
        /\ UNCHANGED <<book, got, op, want, holder, emptied>>
        /\ \A r \in Process \ {q} : pc'[r] = pc[r]
    BY <1>0, <1>4 DEF Git, Goto, TypeOK, files, locals, observed
  <2>2. want[q] \in Book!Session
    BY <1>0, <2>1 DEF Sound
  <2>3. /\ Standing /\ Kept(want'[q], trees', emptied')
        /\ branches' \subseteq Path /\ trees' \in [Path -> Tree \cup {None}]
    <3>1. Standing /\ Kept(want[q], trees', emptied')
          /\ PathOf(want[q]) \in Path /\ trees' \in [Path -> Tree \cup {None}]
      BY <1>0, <2>1, <2>2, Making DEF Make
    <3> QED BY <1>0, <2>1, <3>1 DEF Make, TypeOK
  <2>4. TypeOK'
    BY <1>0, <1>4, <2>3
    DEF Git, Goto, TypeOK, Stage, checkout, files, locals, observed, counts
  <2>5. Backed(got'[q], trees', emptied')
    BY <1>0, <2>1, <2>3, BackedLasts DEF TypeOK, Sound, Backed
  <2>6. Kept(want[q], trees', emptied') = Kept(want'[q], trees', emptied')
    BY <2>1 DEF Kept
  <2>7. Sound(q)'
    BY <1>0, <2>1, <2>3, <2>5 DEF Sound, Book!Owned, Kept
  <2> QED BY <2>1, <2>3, <2>4, <2>7, Moving
<1>5. CASE GitFails(q)
  <2>1. /\ pc[q] = "git" /\ Finish(q) /\ emptied' = emptied
        /\ \/ Make(want[q])
           \/ branches' = branches \cup {PathOf(want[q])} /\ UNCHANGED trees
        /\ UNCHANGED <<checkout, files, adrift, calls, changes>> /\ faults' = faults + 1
    BY <1>5 DEF GitFails
  <2>2. want[q] \in Book!Session
    BY <1>0, <2>1 DEF Sound
  <2>3. Standing /\ branches' \subseteq Path /\ trees' \in [Path -> Tree \cup {None}]
    <3>1. CASE Make(want[q])
      BY <1>0, <2>1, <2>2, <3>1, Making DEF Make, TypeOK
    <3>2. CASE ~Make(want[q])
      BY <1>0, <2>1, <2>2, <3>2, PathType DEF Standing, TypeOK
    <3> QED BY <3>1, <3>2
  <2>4. TypeOK'
    BY <1>0, <2>1, <2>3, Ended DEF TypeOK, checkout, files
  <2> QED BY <1>0, <2>1, <2>3, <2>4, Ended, Moving DEF files
<1>6. CASE Orphan(q)
  <2>1. /\ pc[q] = "git" /\ Finish(q) /\ adrift' = adrift \cup {want[q]}
        /\ UNCHANGED <<checkout, disk, files, emptied, calls, changes>>
        /\ faults' = faults + 1
    BY <1>6 DEF Orphan
  <2>2. want[q] \in Book!Session
    BY <1>0, <2>1 DEF Sound
  <2>3. TypeOK'
    BY <1>0, <2>1, <2>2, Ended DEF TypeOK, checkout, disk, files
  <2>4. Standing /\ book' = book
    BY <2>1 DEF Standing, disk, files
  <2> QED BY <1>0, <2>1, <2>3, <2>4, Ended, Moving
<1>7. CASE Describe(q)
  <2>1. PICK i \in DOMAIN got[q] :
          handoffs' = [handoffs EXCEPT ![want[q]] =
                         [session |-> got[q][i], tree |-> trees[PathOf(got[q][i])]]]
    BY <1>7 DEF Describe
  <2>2. got[q][i] \in Book!Session
    BY <1>0 DEF TypeOK
  <2>3. [session |-> got[q][i], tree |-> trees[PathOf(got[q][i])]] \in Handoff
    BY <1>0, <2>2, PathType DEF TypeOK, Handoff
  <2>4. /\ Finish(q) /\ handoffs' \in [Ids -> Handoff \cup {None}]
        /\ UNCHANGED <<checkout, disk, book, adrift, emptied, counts>>
    BY <1>0, <1>7, <2>1, <2>3 DEF Describe, TypeOK
  <2>5. TypeOK'
    BY <1>0, <2>4, Ended DEF TypeOK, checkout, disk, counts
  <2>6. Standing
    BY <2>4 DEF Standing, disk
  <2> QED BY <1>0, <2>4, <2>5, <2>6, Ended, Moving
<1> QED BY <1>1, <1>2, <1>3, <1>4, <1>5, <1>6, <1>7

\* A command that holds the lock saves the record: no other one is between
\* its look at the record and its end.
LEMMA SaveInv ==
  ASSUME IInv, NEW q \in Process, SaveStart(q) \/ SaveClose(q)
  PROVE  IInv' /\ Book!Next
<1>0. /\ TypeOK /\ Sound(q) /\ Backed(book, trees, emptied) /\ Book!OneOwner
      /\ book \in Seq(Book!Session)
  BY DEF IInv, TypeOK
<1>1. /\ pc[q] \in {"save", "close"} /\ holder = q /\ got[q] = book /\ Finish(q)
      /\ UNCHANGED <<checkout, disk, handoffs, adrift, emptied, counts>>
  BY <1>0 DEF SaveStart, SaveClose, Sound
<1>2. ASSUME book' \in Seq(Book!Session), Backed(book', trees', emptied'), Book!OneOwner'
      PROVE  IInv'
  <2>1. TypeOK'
    BY <1>0, <1>1, <1>2, Ended DEF TypeOK, checkout, disk, counts
  <2>2. Standing
    BY <1>1 DEF Standing, disk
  <2>3. ASSUME NEW r \in Process \ {q} PROVE Sound(r)'
    <3>1. /\ Sound(r) /\ got[r] \in Seq(Book!Session)
          /\ pc'[r] = pc[r] /\ op'[r] = op[r] /\ want'[r] = want[r] /\ got'[r] = got[r]
      BY <1>0, <1>1, Ended DEF IInv, TypeOK
    <3>2. pc[r] \notin {"start", "git", "save", "close"}
      BY <1>1, <3>1 DEF Sound
    <3>3. Backed(got'[r], trees', emptied')
      BY <2>2, <3>1, BackedLasts DEF Sound, Backed
    <3> QED BY <3>1, <3>2, <3>3 DEF Sound
  <2>4. Sound(q)'
    BY <1>0, <1>1, Ended
  <2> QED BY <1>2, <2>1, <2>3, <2>4 DEF IInv
<1>3. CASE SaveStart(q)
  <2> DEFINE s == want[q]
  <2>1. /\ book' = Append(book, s) /\ s \in Book!Session /\ s.open
        /\ ~Book!Owned(book, s.task) /\ Kept(s, trees, emptied)
    BY <1>0, <1>1, <1>3 DEF SaveStart, Sound
  <2>2. /\ book' \in Seq(Book!Session) /\ Len(book') = Len(book) + 1
        /\ book' # <<>> /\ book'[Len(book')] = s
        /\ \A i \in 1 .. Len(book) : book'[i] = book[i]
        /\ DOMAIN book' = 1 .. Len(book) + 1 /\ DOMAIN book = 1 .. Len(book)
    BY <1>0, <2>1
  <2>3. Kept(s, trees', emptied') /\ \A i \in DOMAIN book : Kept(book[i], trees', emptied') = Kept(book[i], trees, emptied)
    BY <1>1, <2>1 DEF Kept, disk, PathOf
  <2>4. Backed(book', trees', emptied')
    <3>1. ASSUME NEW i \in DOMAIN book', book'[i].open PROVE Kept(book'[i], trees', emptied')
      <4>1. CASE i \in DOMAIN book
        BY <1>0, <2>2, <2>3, <3>1, <4>1 DEF Backed
      <4>2. CASE i \notin DOMAIN book
        <5>1. i = Len(book) + 1
          BY <2>2, <4>2
        <5> QED BY <2>2, <2>3, <5>1
      <4> QED BY <4>1, <4>2
    <3>2. \A i \in DOMAIN book' : book'[i].open => Kept(book'[i], trees', emptied')
      BY <3>1
    <3> QED BY <3>2 DEF Backed, Kept
  <2>5. Book!OneOwner'
    BY <1>0, <2>1, <2>2 DEF Book!OneOwner, Book!Owned
  <2>6. Book!Start(book'[Len(book')])
    BY <2>1, <2>2 DEF Book!Start
  <2> QED BY <1>2, <2>2, <2>4, <2>5, <2>6 DEF Book!Next
<1>4. CASE SaveClose(q)
  <2>1. PICK i \in DOMAIN book : book[i].open /\ book' = [book EXCEPT ![i].open = FALSE]
    BY <1>1, <1>4 DEF SaveClose
  <2>2. /\ [book[i] EXCEPT !.open = FALSE] \in Book!Session
        /\ ~book'[i].open /\ book'[i] \in Book!Session
        /\ DOMAIN book' = DOMAIN book /\ book' \in Seq(Book!Session)
        /\ \A j \in DOMAIN book \ {i} : book'[j] = book[j]
    <3>1. book[i] \in Book!Session
      BY <1>0
    <3>2. [book[i] EXCEPT !.open = FALSE] \in Book!Session
      BY <3>1 DEF Book!Session
    <3>3. book' = [book EXCEPT ![i] = [book[i] EXCEPT !.open = FALSE]]
      BY <2>1
    <3>4. ~[book[i] EXCEPT !.open = FALSE].open
      BY <3>1 DEF Book!Session
    <3>5. book'[i] = [book[i] EXCEPT !.open = FALSE]
      BY <1>0, <3>3
    <3>6. DOMAIN book' = DOMAIN book /\ \A j \in DOMAIN book \ {i} : book'[j] = book[j]
      BY <3>3
    <3>7. book' \in Seq(Book!Session)
      BY <1>0, <3>2, <3>3
    <3> QED BY <3>2, <3>4, <3>5, <3>6, <3>7
  <2>3. \A j \in DOMAIN book : Kept(book[j], trees', emptied') = Kept(book[j], trees, emptied)
    BY <1>1 DEF Kept, disk, PathOf
  <2>4. Backed(book', trees', emptied')
    <3>1. ASSUME NEW j \in DOMAIN book', book'[j].open PROVE Kept(book'[j], trees', emptied')
      <4>1. j # i /\ book'[j] = book[j] /\ j \in DOMAIN book
        BY <2>2, <3>1
      <4>2. Kept(book[j], trees', emptied')
        BY <1>0, <2>3, <3>1, <4>1 DEF Backed
      <4> QED BY <4>1, <4>2
    <3>2. \A j \in DOMAIN book' : book'[j].open => Kept(book'[j], trees', emptied')
      BY <3>1
    <3> QED BY <3>2 DEF Backed, Kept
  <2>5. Book!OneOwner'
    BY <1>0, <2>2 DEF Book!OneOwner
  <2>6. Book!Close(i)
    BY <2>1 DEF Book!Close
  <2> QED BY <1>2, <2>2, <2>4, <2>5, <2>6 DEF Book!Next
<1> QED BY <1>3, <1>4

\* No command moves.
LEMMA UserInv ==
  ASSUME IInv, TypeOK', Standing, UNCHANGED <<book, holder, pc, op, want, got>>
  PROVE  IInv'
<1>1. ASSUME NEW q \in Process PROVE Sound(q)'
  <2>0. Sound(q) /\ got[q] \in Seq(Book!Session)
    BY DEF IInv, TypeOK
  <2>1. Backed(got'[q], trees', emptied')
    BY <2>0, BackedLasts DEF Sound, Backed
  <2>2. pc'[q] = "save" => Kept(want'[q], trees', emptied')
    BY <2>0, Lasting DEF Sound
  <2> QED BY <2>0, <2>1, <2>2 DEF Sound, Book!Owned
<1>2. Backed(book', trees', emptied')
  BY BackedLasts DEF IInv, TypeOK, Backed
<1>3. Book!OneOwner'
  BY DEF IInv, Book!OneOwner
<1> QED BY <1>1, <1>2, <1>3 DEF IInv

LEMMA InvStep == IInv /\ [Next]_vars => IInv'
<1> SUFFICES ASSUME IInv, [Next]_vars PROVE IInv'
  OBVIOUS
<1>0. TypeOK
  BY DEF IInv
<1>1. ASSUME NEW h \in Revision, NEW d \in Dirt, Move(h, d) PROVE IInv'
  <2>1. TypeOK' /\ Standing
    BY <1>0, <1>1 DEF Move, Change, TypeOK, disk, files, locals, Standing
  <2> QED BY <1>1, <2>1, UserInv DEF Move, files, locals
<1>2. ASSUME NEW path \in Path, NEW b \in BOOLEAN, Empty(path, b) PROVE IInv'
  <2>1. TypeOK' /\ Standing
    BY <1>0, <1>2 DEF Empty, Change, TypeOK, checkout, files, locals, Standing
  <2> QED BY <1>2, <2>1, UserInv DEF Empty, files, locals
<1>3. ASSUME NEW s \in adrift, Drift(s) PROVE IInv'
  <2>1. s \in Book!Session /\ emptied' = emptied
    BY <1>0, <1>3 DEF TypeOK, Drift, observed
  <2>2. Make(s) \/ (branches' = branches /\ trees' = trees)
    BY <1>3 DEF Drift, disk, Make
  <2>3. Standing /\ branches' \subseteq Path /\ trees' \in [Path -> Tree \cup {None}]
    <3>1. CASE Make(s)
      BY <1>0, <2>1, <3>1, Making DEF Make, TypeOK
    <3>2. CASE branches' = branches /\ trees' = trees
      BY <1>0, <2>1, <3>2 DEF Standing, TypeOK
    <3> QED BY <2>2, <3>1, <3>2
  <2>4. TypeOK'
    BY <1>0, <1>3, <2>3 DEF Drift, TypeOK, checkout, files, locals, observed, counts
  <2> QED BY <1>3, <2>3, <2>4, UserInv DEF Drift, files, locals
<1>4. CASE UNCHANGED vars
  <2>1. TypeOK' /\ Standing
    BY <1>0, <1>4
    DEF vars, TypeOK, checkout, disk, files, locals, observed, counts, Standing
  <2> QED BY <1>4, <2>1, UserInv DEF vars, files, locals
<1>5. CASE Done
  BY <1>4, <1>5 DEF Done
<1> QED
  BY <1>1, <1>2, <1>3, <1>4, <1>5, BeginInv, MiddleInv, SaveInv DEF Next

\* Whatever the number of processes, projects, tasks, deaths and failing
\* commands: a command that saves the record has it to itself, and the open
\* sessions have their work trees.
THEOREM Invariant == Spec => []IInv
BY Start, InvStep, PTL DEF Spec

-----------------------------------------------------------------------------
(* What follows                                                            *)

\* The invariant that is read most easily.
THEOREM Locked == Spec => []TasksInv
<1>1. IInv => TasksInv
  BY DEF IInv, Sound, TasksInv, Exclusive, Claimed
<1> QED BY <1>1, Invariant, PTL

\* No two open sessions own the same branch name, in whatever projects they are.
THEOREM OneOwner == Spec => []Book!OneOwner
<1>1. IInv => Book!OneOwner
  BY DEF IInv
<1> QED BY <1>1, Invariant, PTL

\* An open session has the work tree its own start made.
THEOREM OwnTrees == Spec => []OwnTree
<1>1. IInv => OwnTree
  BY DEF IInv, Backed, Kept, OwnTree
<1> QED BY <1>1, Invariant, PTL

\* Nothing but a save under the lock changes the record.
THEOREM Implements == Spec => ImplementsBook
<1>1. Init => Book!Init
  BY DEF Init, Book!Init
<1>2. IInv /\ [Next]_vars => [Book!Next]_book
  <2> SUFFICES ASSUME IInv, [Next]_vars PROVE Book!Next \/ book' = book
    OBVIOUS
  <2>1. CASE \E q \in Process : SaveStart(q) \/ SaveClose(q)
    BY <2>1, SaveInv
  <2>2. CASE ~\E q \in Process : SaveStart(q) \/ SaveClose(q)
    BY <2>2
    DEF Next, Move, Empty, Drift, Done, BeginStart, BeginClose, BeginHandoff, Begin,
        Fail, Acquire, Check, Git, GitFails, Orphan, LoadHandoff, Describe, files, vars
  <2> QED BY <2>1, <2>2
<1> QED BY <1>1, <1>2, Invariant, PTL DEF Spec, ImplementsBook, Book!Spec

\* What a handoff says of an open session was so when the session was loaded,
\* and no work tree is replaced since.
THEOREM Handoffs == Spec => HandoffIsOwn
<1> DEFINE Own(id) ==
      LET handoff == handoffs'[id] IN
        /\ handoff # handoffs[id] /\ handoff.session.open
        /\ PathOf(handoff.session) \notin emptied
        => handoff.tree # None /\ handoff.tree.by = handoff.session.by
<1>1. IInv /\ [Next]_vars => [\A id \in Ids : Own(id)]_vars
  <2> SUFFICES ASSUME IInv, [Next]_vars, NEW id \in Ids PROVE Own(id)
    OBVIOUS
  <2>0. TypeOK
    BY DEF IInv
  <2>1. CASE \E q \in Process : Describe(q)
    <3>1. PICK q \in Process : Describe(q)
      BY <2>1
    <3>2. PICK i \in DOMAIN got[q] :
            handoffs' = [handoffs EXCEPT ![want[q]] =
                           [session |-> got[q][i], tree |-> trees[PathOf(got[q][i])]]]
      BY <3>1 DEF Describe
    <3>3. CASE id = want[q]
      <4>1. handoffs'[id] = [session |-> got[q][i], tree |-> trees[PathOf(got[q][i])]]
        BY <2>0, <3>2, <3>3 DEF TypeOK
      <4>2. got[q][i].open => Kept(got[q][i], trees, emptied)
        BY DEF IInv, Sound, Backed
      <4> QED BY <4>1, <4>2 DEF Kept
    <3>4. CASE id # want[q]
      BY <2>0, <3>2, <3>4 DEF TypeOK
    <3> QED BY <3>3, <3>4
  <2>2. CASE ~\E q \in Process : Describe(q)
    <3>1. handoffs' = handoffs
      BY <2>2
      DEF Next, Move, Empty, Drift, Done, BeginStart, BeginClose, BeginHandoff, Begin,
          Fail, Acquire, Check, Git, GitFails, Orphan, LoadHandoff, SaveStart,
          SaveClose, files, vars
    <3> QED BY <3>1
  <2> QED BY <2>1, <2>2
<1> QED BY <1>1, Invariant, PTL DEF Spec, HandoffIsOwn

Clean == still # {} => ~Dirty

\* What a start saw of the checkout holds until it moves.
LEMMA CleanStill == Spec => []Clean
<1>1. Init => Clean
  BY DEF Init, Clean
<1>2. Clean /\ [Next]_vars => Clean'
  <2> SUFFICES ASSUME still # {} => ~Dirty, [Next]_vars, still' # {} PROVE ~Dirty'
    BY DEF Clean
  <2>1. CASE \E h \in Revision, d \in Dirt : Move(h, d)
    BY <2>1 DEF Move
  <2>2. CASE ~\E h \in Revision, d \in Dirt : Move(h, d)
    <3>1. dirt' = dirt
      BY <2>2
      DEF Next, Empty, Drift, Done, BeginStart, BeginClose, BeginHandoff, Begin, Fail,
          Acquire, Check, Git, GitFails, Orphan, SaveStart, SaveClose, LoadHandoff,
          Describe, checkout, vars
    <3>2. still # {} \/ ~Dirty
      BY <2>2
      DEF Next, Empty, Drift, Done, BeginStart, BeginClose, BeginHandoff, Fail, Finish,
          Acquire, Check, Git, GitFails, Orphan, SaveStart, SaveClose, LoadHandoff,
          Describe, observed, vars
    <3> QED BY <3>1, <3>2 DEF Dirty
  <2> QED BY <2>1, <2>2
<1> QED BY <1>1, <1>2, PTL DEF Spec

\* A work tree begins at what was checked out, and clean as far as Git could
\* tell, where the checkout stood still since the start had looked at it.
THEOREM Bases == Spec => BaseIsClean
<1> DEFINE Base(p) == pc[p] = "git" /\ pc'[p] = "save" /\ p \in still
                      => ~Dirty /\ trees'[PathOf(want[p])].base = head
<1>1. IInv /\ Clean /\ [Next]_vars => [\A p \in Process : Base(p)]_vars
  <2> SUFFICES ASSUME IInv, Clean, [Next]_vars, NEW p \in Process,
                      pc[p] = "git", pc'[p] = "save", p \in still
               PROVE  ~Dirty /\ trees'[PathOf(want[p])].base = head
    OBVIOUS
  <2>0. TypeOK /\ Sound(p)
    BY DEF IInv
  <2>1. Git(p)
    <3>0. pc' # pc
      OBVIOUS
    <3>1. PICK q \in Process :
            \/ \E project \in Project, task \in Task, now \in Time :
                 BeginStart(q, project, task, now)
            \/ \E id \in Ids : BeginClose(q, id) \/ BeginHandoff(q, id)
            \/ Fail(q) \/ Acquire(q)
            \/ Check(q) \/ Git(q) \/ GitFails(q) \/ Orphan(q) \/ SaveStart(q)
            \/ SaveClose(q) \/ LoadHandoff(q) \/ Describe(q)
      BY <3>0 DEF Next, Move, Empty, Drift, Done, vars
    <3>2. \E l : pc' = [pc EXCEPT ![q] = l] /\ (l # "save" \/ Git(q))
      <4>1. op[q] # "save"
        BY <2>0 DEF TypeOK
      <4> QED
        BY <3>1, <4>1
        DEF BeginStart, BeginClose, BeginHandoff, Begin, Fail, Finish, Goto, Acquire,
            Check, Git, GitFails, Orphan, SaveStart, SaveClose, LoadHandoff, Describe
    <3> QED BY <2>0, <3>2 DEF TypeOK
  <2>2. want[p] \in Book!Session
    BY <2>0 DEF Sound
  <2>3. PathOf(want[p]) \in Path
    BY <2>2, PathType
  <2>4. trees' = [trees EXCEPT ![PathOf(want[p])] = [by |-> want[p].by, base |-> head]]
    BY <2>1 DEF Git, Make
  <2> QED BY <2>0, <2>3, <2>4 DEF TypeOK, Clean
<1> QED BY <1>1, CleanStill, Invariant, PTL DEF Spec, BaseIsClean
=============================================================================
