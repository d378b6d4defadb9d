--------------------------- MODULE UpdatesProofs ---------------------------
(***************************************************************************)
(* The properties of Updates, for any number of commands and plugins.      *)
(*                                                                         *)
(* Moves says how one step of a command can change a checkout: it merges,  *)
(* resets, or leaves it alone.  The rest is about what a command remembers *)
(* of its plugin: Pinned, Watched and Followed are each shown to survive   *)
(* its own steps (Own...), those of others (Others...) and changes from    *)
(* outside (OutsideKeeps).                                                 *)
(***************************************************************************)
EXTENDS Updates, TLAPS

Verdicts == {"none", "updated", "failed", "skipped"}

LocalsOK ==
  /\ pc \in [Process -> Steps]
  /\ all \in [Process -> BOOLEAN]
  /\ reviewed \in [Process -> [Plugin -> {Unknown} \cup Revision]]
  /\ todo \in [Process -> SUBSET Plugin]
  /\ at \in [Process -> {Unknown} \cup Plugin]
  /\ seen \in [Process -> [Plugin -> Finding]]
  /\ done \in [Process -> [Plugin -> Verdicts]]
  /\ late \in [Process -> SUBSET Plugin]
  /\ outcome \in {"none", "ok", "error"}

SharedOK ==
  /\ head \in [Plugin -> Revision]
  /\ edited \subseteq Plugin
  /\ remote \in [Plugin -> SUBSET Commit]
  /\ fetched \in [Plugin -> SUBSET Commit]
  /\ loaded \in [Plugin -> Revision]

CountersOK == faults \in 0 .. MaxFaults /\ changes \in 0 .. MaxChanges

LEMMA TypeParts == TypeOK <=> LocalsOK /\ SharedOK /\ CountersOK
BY DEF TypeOK, LocalsOK, SharedOK, CountersOK, Verdicts

LEMMA TypePartsNext == LocalsOK' /\ SharedOK' /\ CountersOK' => TypeOK'
BY DEF TypeOK, LocalsOK, SharedOK, CountersOK, Verdicts

LEMMA NothingFound == Nothing \in Finding
BY DEF Nothing, Finding

\* What an inspection adds to its finding.
LEMMA StateFound ==
  ASSUME NEW f \in Finding,
         NEW s \in {"none", "failed", "ahead", "dirty", "available", "current"}
  PROVE  [f EXCEPT !.state = s] \in Finding
BY DEF Finding

LEMMA CurrentFound ==
  ASSUME NEW f \in Finding, NEW c \in Revision, NEW d \in BOOLEAN
  PROVE  [f EXCEPT !.current = c, !.dirty = d] \in Finding
BY DEF Finding

LEMMA RemoteFound ==
  ASSUME NEW f \in Finding, NEW r \in Revision
  PROVE  [f EXCEPT !.remote = r] \in Finding
BY DEF Finding

\* The counters.
LEMMA Counted ==
  ASSUME CountersOK, Fault \/ NoFault \/ Change
  PROVE  CountersOK'
BY BoundAssumption DEF CountersOK, Fault, NoFault, Change

LEMMA Finished ==
  ASSUME LocalsOK, NEW q \in Process, NEW o \in {"ok", "error"}, Finish(q, o)
  PROVE  LocalsOK'
<1>1. [p \in Plugin |-> Nothing] \in [Plugin -> Finding]
  BY NothingFound
<1>2. seen' \in [Process -> [Plugin -> Finding]]
  BY <1>1 DEF Finish, LocalsOK
<1>3. done' \in [Process -> [Plugin -> Verdicts]]
  BY DEF Finish, LocalsOK, Verdicts
<1>4. reviewed' \in [Process -> [Plugin -> {Unknown} \cup Revision]]
  BY DEF Finish, LocalsOK
<1>5. pc' \in [Process -> Steps] /\ at' \in [Process -> {Unknown} \cup Plugin]
  BY DEF Finish, Goto, LocalsOK, Steps
<1>6. all' \in [Process -> BOOLEAN]
  BY DEF Finish, LocalsOK
<1>7. todo' \in [Process -> SUBSET Plugin] /\ late' \in [Process -> SUBSET Plugin]
  BY DEF Finish, LocalsOK
<1> QED BY <1>2, <1>3, <1>4, <1>5, <1>6, <1>7 DEF Finish, LocalsOK

LEMMA Found ==
  ASSUME LocalsOK, NEW q \in Process, NEW p \in Plugin, NEW f \in Finding,
         Inspected(q, p, f)
  PROVE  /\ seen' \in [Process -> [Plugin -> Finding]]
         /\ todo' \in [Process -> SUBSET Plugin]
         /\ pc' \in [Process -> Steps]
BY DEF Inspected, Goto, LocalsOK, Steps

LEMMA Decided ==
  ASSUME LocalsOK, NEW q \in Process, NEW p \in Plugin, NEW d \in Verdicts,
         Result(q, p, d)
  PROVE  done' \in [Process -> [Plugin -> Verdicts]]
BY DEF Result, LocalsOK

LEMMA Disturbed ==
  ASSUME LocalsOK, NEW q \in Process, NEW p \in Plugin, Disturb(q, p)
  PROVE  late' \in [Process -> SUBSET Plugin]
BY DEF Disturb, LocalsOK

LEMMA GivenUp ==
  ASSUME TypeOK, NEW q \in Process, at[q] \in Plugin, GiveUp(q)
  PROVE  TypeOK'
<1>1. LocalsOK /\ SharedOK /\ CountersOK
  BY TypeParts
<1>2. done' \in [Process -> [Plugin -> Verdicts]]
  BY <1>1, Decided DEF GiveUp, Verdict, Verdicts
<1>3. LocalsOK'
  BY <1>1, <1>2 DEF GiveUp, Verdict, Goto, local, LocalsOK, Steps
<1>4. SharedOK'
  BY <1>1 DEF GiveUp, checkouts, outside, SharedOK
<1>5. CountersOK'
  BY <1>1, Counted DEF GiveUp
<1> QED BY <1>3, <1>4, <1>5, TypePartsNext

LEMMA WentOn ==
  ASSUME TypeOK, NEW q \in Process, NEW l \in Steps, GoOn(q, l),
         late' \in [Process -> SUBSET Plugin]
  PROVE  TypeOK'
<1>1. LocalsOK /\ SharedOK /\ CountersOK
  BY TypeParts
<1>2. LocalsOK'
  BY <1>1 DEF GoOn, Goto, local, LocalsOK
<1>3. SharedOK'
  BY <1>1 DEF GoOn, checkouts, outside, SharedOK
<1>4. CountersOK'
  BY <1>1, Counted DEF GoOn
<1> QED BY <1>2, <1>3, <1>4, TypePartsNext

LEMMA Typed ==
  ASSUME UpdatesInv, [Next]_vars
  PROVE  TypeOK'
<1>1. TypeOK /\ LocalsOK /\ SharedOK /\ CountersOK
  BY TypeParts DEF UpdatesInv
<1>2. \A q \in Process : pc[q] \in {"fetch", "resolve", "count"} \cup Apply => at[q] \in Plugin
  BY DEF UpdatesInv, Pinned
<1>3. ASSUME NEW q \in Process, NEW ps \in SUBSET Plugin, NEW every \in BOOLEAN,
             Begin(q, ps, every)
      PROVE  TypeOK'
  <2>1. [p \in Plugin |-> IF p \in ps THEN remote[p] ELSE Unknown]
          \in [Plugin -> {Unknown} \cup Revision]
    BY <1>1 DEF SharedOK, Revision
  <2>2. reviewed' \in [Process -> [Plugin -> {Unknown} \cup Revision]]
    BY <1>1, <1>3, <2>1 DEF Begin, LocalsOK
  <2>3. todo' \in [Process -> SUBSET Plugin]
    BY <1>1, <1>3 DEF Begin, LocalsOK
  <2>4. all' \in [Process -> BOOLEAN]
    BY <1>1, <1>3 DEF Begin, LocalsOK
  <2>5. pc' \in [Process -> Steps]
    BY <1>1, <1>3 DEF Begin, Goto, LocalsOK, Steps
  <2>6. LocalsOK'
    BY <1>1, <1>3, <2>2, <2>3, <2>4, <2>5 DEF Begin, LocalsOK
  <2>7. SharedOK' /\ CountersOK'
    BY <1>1, <1>3, Counted DEF Begin, checkouts, outside, SharedOK
  <2> QED BY <2>6, <2>7, TypePartsNext
<1>4. ASSUME NEW q \in Process, NEW p \in Plugin, Look(q, p)
      PROVE  TypeOK'
  <2>1. /\ [Nothing EXCEPT !.current = head[p], !.dirty = p \in edited] \in Finding
        /\ [Nothing EXCEPT !.state = "failed"] \in Finding
    <3>1. head[p] \in Revision /\ (p \in edited) \in BOOLEAN
      BY <1>1 DEF SharedOK
    <3> QED BY <3>1, NothingFound, CurrentFound, StateFound
  <2>2. /\ seen' \in [Process -> [Plugin -> Finding]]
        /\ todo' \in [Process -> SUBSET Plugin]
        /\ pc' \in [Process -> Steps]
    <3>1. CASE Inspected(q, p, [Nothing EXCEPT !.state = "failed"])
      BY <1>1, <2>1, <3>1, Found
    <3>2. CASE /\ seen' = [seen EXCEPT ![q][p] =
                      [Nothing EXCEPT !.current = head[p], !.dirty = p \in edited]]
               /\ Goto(q, "fetch") /\ UNCHANGED todo
      <4> DEFINE f == [Nothing EXCEPT !.current = head[p], !.dirty = p \in edited]
      <4>1. f \in Finding
        BY <2>1
      <4> HIDE DEF f
      <4> QED BY <1>1, <3>2, <4>1 DEF Goto, LocalsOK, Steps, f
    <3> QED BY <1>4, <3>1, <3>2 DEF Look
  <2>3. LocalsOK'
    BY <1>1, <1>4, <2>2 DEF Look, LocalsOK
  <2>4. SharedOK' /\ CountersOK'
    BY <1>1, <1>4, Counted DEF Look, checkouts, outside, SharedOK
  <2> QED BY <2>3, <2>4, TypePartsNext
<1>5. ASSUME NEW q \in Process, Fetch(q)
      PROVE  TypeOK'
  <2>1. at[q] \in Plugin
    BY <1>2, <1>5 DEF Fetch
  <2>2. [Nothing EXCEPT !.state = "failed"] \in Finding
    BY NothingFound, StateFound
  <2>3. LocalsOK'
    <3>1. CASE FailInspection(q)
      BY <1>1, <1>5, <2>1, <2>2, <3>1, Found DEF Fetch, FailInspection, LocalsOK
    <3>2. CASE Goto(q, "resolve") /\ UNCHANGED <<seen, todo>>
      BY <1>1, <1>5, <3>2 DEF Fetch, Goto, LocalsOK, Steps
    <3> QED BY <1>5, <3>1, <3>2 DEF Fetch
  <2>4. fetched' \in [Plugin -> SUBSET Commit]
    BY <1>1, <1>5, <2>1 DEF Fetch, SharedOK
  <2>5. SharedOK' /\ CountersOK'
    BY <1>1, <1>5, <2>4, Counted DEF Fetch, checkouts, outside, SharedOK
  <2> QED BY <2>3, <2>5, TypePartsNext
<1>5a. ASSUME NEW q \in Process, Resolve(q)
      PROVE  TypeOK'
  <2>1. at[q] \in Plugin
    BY <1>2, <1>5a DEF Resolve, FailInspection
  <2>2. /\ [seen[q][at[q]] EXCEPT !.remote = fetched[at[q]]] \in Finding
        /\ [Nothing EXCEPT !.state = "failed"] \in Finding
    <3>1. seen[q][at[q]] \in Finding /\ fetched[at[q]] \in Revision
      BY <1>1, <2>1 DEF SharedOK, LocalsOK, Revision
    <3> QED BY <3>1, NothingFound, RemoteFound, StateFound
  <2>3. /\ seen' \in [Process -> [Plugin -> Finding]]
        /\ todo' \in [Process -> SUBSET Plugin]
        /\ pc' \in [Process -> Steps]
    <3>1. CASE Inspected(q, at[q], [Nothing EXCEPT !.state = "failed"])
      BY <1>1, <2>1, <2>2, <3>1, Found
    <3>2. CASE /\ seen' = [seen EXCEPT ![q][at[q]].remote = fetched[at[q]]]
               /\ Goto(q, "count") /\ UNCHANGED todo
      <4> DEFINE f == [seen[q][at[q]] EXCEPT !.remote = fetched[at[q]]]
      <4>1. f \in Finding
        BY <2>2
      <4>2. seen' = [seen EXCEPT ![q] = [@ EXCEPT ![at[q]] = f]]
        BY <3>2
      <4> HIDE DEF f
      <4>3. seen' \in [Process -> [Plugin -> Finding]]
        BY <1>1, <2>1, <4>1, <4>2 DEF LocalsOK
      <4> QED BY <1>1, <3>2, <4>3 DEF Goto, LocalsOK, Steps
    <3> QED BY <1>5a, <3>1, <3>2 DEF Resolve, FailInspection
  <2>4. LocalsOK'
    BY <1>1, <1>5a, <2>3 DEF Resolve, LocalsOK
  <2>5. SharedOK' /\ CountersOK'
    BY <1>1, <1>5a, <2>1, Counted DEF Resolve, checkouts, outside, SharedOK
  <2> QED BY <2>4, <2>5, TypePartsNext
<1>6. ASSUME NEW q \in Process, Count(q)
      PROVE  TypeOK'
  <2>1. at[q] \in Plugin
    BY <1>2, <1>6 DEF Count, FailInspection
  <2>2. /\ [seen[q][at[q]] EXCEPT !.state = State(q, at[q])] \in Finding
        /\ [Nothing EXCEPT !.state = "failed"] \in Finding
    <3>1. seen[q][at[q]] \in Finding
      BY <1>1, <2>1 DEF LocalsOK
    <3>2. State(q, at[q]) \in {"ahead", "dirty", "available", "current"}
      BY DEF State
    <3> QED BY <3>1, <3>2, NothingFound, StateFound
  <2>3. /\ seen' \in [Process -> [Plugin -> Finding]]
        /\ todo' \in [Process -> SUBSET Plugin]
        /\ pc' \in [Process -> Steps]
    BY <1>1, <1>6, <2>1, <2>2, Found DEF Count, FailInspection
  <2>4. LocalsOK'
    BY <1>1, <1>6, <2>3 DEF Count, LocalsOK
  <2>5. SharedOK' /\ CountersOK'
    BY <1>1, <1>6, Counted DEF Count, checkouts, outside, SharedOK
  <2> QED BY <2>4, <2>5, TypePartsNext
<1>7. ASSUME NEW q \in Process, NEW p \in Plugin, Choose(q, p)
      PROVE  TypeOK'
  <2>1. done' \in [Process -> [Plugin -> Verdicts]]
    BY <1>1, <1>7, Decided DEF Choose, Verdicts, LocalsOK
  <2>2. pc' \in [Process -> Steps]
    BY <1>1, <1>7 DEF Choose, Goto, LocalsOK, Steps, Apply
  <2>3. LocalsOK'
    BY <1>1, <1>7, <2>1, <2>2 DEF Choose, LocalsOK
  <2>4. SharedOK' /\ CountersOK'
    BY <1>1, <1>7, Counted DEF Choose, checkouts, outside, SharedOK
  <2> QED BY <2>3, <2>4, TypePartsNext
<1>8. ASSUME NEW q \in Process, AllDone(q)
      PROVE  TypeOK'
  <2>1. Report(q) \in {"ok", "error"}
    BY DEF Report
  <2>2. LocalsOK'
    BY <1>1, <1>8, <2>1, Finished DEF AllDone, Goto, locals, LocalsOK, Steps
  <2>3. SharedOK' /\ CountersOK'
    BY <1>1, <1>8, Counted DEF AllDone, checkouts, outside, SharedOK
  <2> QED BY <2>2, <2>3, TypePartsNext
<1>9. ASSUME NEW q \in Process, Rescan(q)
      PROVE  TypeOK'
  <2>1. Report(q) \in {"ok", "error"}
    BY DEF Report
  <2>2. LocalsOK'
    BY <1>1, <1>9, <2>1, Finished DEF Rescan
  <2>3. SharedOK' /\ CountersOK'
    BY <1>1, <1>9, Counted DEF Rescan, checkouts, SharedOK
  <2> QED BY <2>2, <2>3, TypePartsNext
<1>10. ASSUME NEW q \in Process, CheckHead(q)
       PROVE  TypeOK'
  <2>1. {"clean1", "clean2"} \subseteq Steps
    BY DEF Steps, Apply
  <2>2. at[q] \in Plugin
    BY <1>2, <1>10 DEF CheckHead, Apply
  <2>3. CASE GiveUp(q)
    BY <1>1, <2>2, <2>3, GivenUp
  <2>4. CASE \E l \in {"clean1", "clean2"} :
               GoOn(q, l) /\ late' \in [Process -> SUBSET Plugin]
    BY <1>1, <2>1, <2>4, WentOn
  <2>5. late \in [Process -> SUBSET Plugin]
    BY <1>1 DEF LocalsOK
  <2> QED BY <1>10, <2>3, <2>4, <2>5 DEF CheckHead
<1>11. ASSUME NEW q \in Process, CheckClean(q) \/ Stage(q)
       PROVE  TypeOK'
  <2>1. {"stage", "merge", "head2"} \subseteq Steps
    BY DEF Steps, Apply
  <2>2. at[q] \in Plugin
    BY <1>2, <1>11 DEF CheckClean, Stage, Apply
  <2>3. CASE GiveUp(q)
    BY <1>1, <2>2, <2>3, GivenUp
  <2>4. CASE \E l \in {"stage", "merge", "head2"} : GoOn(q, l) /\ UNCHANGED late
    BY <1>1, <2>1, <2>4, WentOn DEF LocalsOK
  <2> QED BY <1>11, <2>3, <2>4 DEF CheckClean, Stage
<1>12. ASSUME NEW q \in Process, Merge(q)
       PROVE  TypeOK'
  <2>1. at[q] \in Plugin /\ seen[q][at[q]].remote \in Revision
    <3>1. pc[q] = "merge" /\ at[q] \in Plugin
      BY <1>2, <1>12 DEF Merge, Apply
    <3>2. seen[q][at[q]].remote # Unknown
      BY <3>1 DEF UpdatesInv, Pinned, Apply
    <3> QED BY <1>1, <3>1, <3>2 DEF LocalsOK, Finding
  <2>2. CASE GiveUp(q)
    BY <1>1, <2>1, <2>2, GivenUp
  <2>3. CASE GoOn(q, "landed") /\ UNCHANGED late
    BY <1>1, <2>3, WentOn DEF LocalsOK, Steps, Apply
  <2>4. CASE /\ head' = [head EXCEPT ![at[q]] = seen[q][at[q]].remote]
             /\ \/ Goto(q, "landed") /\ NoFault /\ UNCHANGED done
                \/ Verdict(q, "failed") /\ Fault
             /\ Disturb(q, at[q])
             /\ UNCHANGED <<edited, outside, fetched, local>>
    <3>1. done' \in [Process -> [Plugin -> Verdicts]]
      BY <1>1, <2>1, <2>4, Decided DEF Verdict, Verdicts, LocalsOK
    <3>2. pc' \in [Process -> Steps]
      BY <1>1, <2>4 DEF Verdict, Goto, LocalsOK, Steps, Apply
    <3>3. late' \in [Process -> SUBSET Plugin]
      BY <1>1, <2>1, <2>4, Disturbed
    <3>4. LocalsOK'
      BY <1>1, <2>4, <3>1, <3>2, <3>3 DEF local, LocalsOK
    <3>5. SharedOK'
      BY <1>1, <2>1, <2>4 DEF outside, SharedOK
    <3>6. CountersOK'
      BY <1>1, <2>4, Counted
    <3> QED BY <3>4, <3>5, <3>6, TypePartsNext
  <2> QED BY <1>12, <2>2, <2>3, <2>4 DEF Merge
<1>13. ASSUME NEW q \in Process, Landed(q) \/ Validate(q)
       PROVE  TypeOK'
  <2>1. at[q] \in Plugin
    BY <1>2, <1>13 DEF Landed, Validate, Apply
  <2>2. CASE \E l \in {"validate", "reset"} : GoOn(q, l) /\ UNCHANGED late
    <3>1. {"validate", "reset"} \subseteq Steps
      BY DEF Steps, Apply
    <3> QED BY <1>1, <2>2, <3>1, WentOn DEF LocalsOK
  <2>3. CASE /\ \E d \in {"failed", "updated"} : Verdict(q, d)
             /\ Fault \/ NoFault
             /\ UNCHANGED <<checkouts, outside, fetched, local, late>>
    <3>1. done' \in [Process -> [Plugin -> Verdicts]]
      BY <1>1, <2>1, <2>3, Decided DEF Verdict, Verdicts
    <3>2. LocalsOK'
      BY <1>1, <2>3, <3>1 DEF Verdict, Goto, local, LocalsOK, Steps
    <3>3. SharedOK' /\ CountersOK'
      BY <1>1, <2>3, Counted DEF checkouts, outside, SharedOK
    <3> QED BY <3>2, <3>3, TypePartsNext
  <2> QED BY <1>13, <2>2, <2>3 DEF Landed, Validate
<1>14. ASSUME NEW q \in Process, Reset(q)
       PROVE  TypeOK'
  <2>1. at[q] \in Plugin /\ seen[q][at[q]].current \in Revision
    <3>1. pc[q] = "reset" /\ at[q] \in Plugin
      BY <1>2, <1>14 DEF Reset, Apply
    <3>2. seen[q][at[q]].current # Unknown
      BY <3>1 DEF UpdatesInv, Pinned, Apply
    <3> QED BY <1>1, <3>1, <3>2 DEF LocalsOK, Finding
  <2>2. done' \in [Process -> [Plugin -> Verdicts]]
    BY <1>1, <1>14, <2>1, Decided DEF Reset, Verdict, Verdicts
  <2>3. late' \in [Process -> SUBSET Plugin]
    BY <1>1, <1>14, <2>1, Disturbed DEF Reset, LocalsOK
  <2>4. LocalsOK'
    BY <1>1, <1>14, <2>2, <2>3 DEF Reset, Verdict, Goto, local, LocalsOK, Steps
  <2>5. SharedOK'
    BY <1>1, <1>14, <2>1 DEF Reset, checkouts, outside, SharedOK
  <2>6. CountersOK'
    BY <1>1, <1>14, Counted DEF Reset
  <2> QED BY <2>4, <2>5, <2>6, TypePartsNext
<1>15. ASSUME NEW q \in Process, Crash(q)
       PROVE  TypeOK'
  <2>1. LocalsOK'
    BY <1>1, <1>15, Finished DEF Crash
  <2>2. SharedOK' /\ CountersOK'
    BY <1>1, <1>15, Counted DEF Crash, checkouts, outside, SharedOK
  <2> QED BY <2>1, <2>2, TypePartsNext
<1>16. ASSUME NEW p \in Plugin, Edit(p) \/ \E w \in Work : Keep(p, w)
       PROVE  TypeOK'
  <2>1. Touch(p) /\ edited' \subseteq Plugin /\ head' \in [Plugin -> Revision]
    BY <1>1, <1>16 DEF Edit, Keep, SharedOK, Revision
  <2>2. LocalsOK'
    BY <1>1, <2>1 DEF Touch, locals, LocalsOK
  <2>3. SharedOK'
    BY <1>1, <2>1 DEF Touch, outside, SharedOK
  <2>4. CountersOK'
    BY <1>1, <2>1, Counted DEF Touch
  <2> QED BY <2>2, <2>3, <2>4, TypePartsNext
<1>17. ASSUME NEW p \in Plugin, NEW r \in SUBSET Commit, Move(p, r)
       PROVE  TypeOK'
  <2>1. LocalsOK' /\ SharedOK'
    BY <1>1, <1>17 DEF Move, checkouts, locals, LocalsOK, SharedOK
  <2>2. CountersOK'
    BY <1>1, <1>17, Counted DEF Move
  <2> QED BY <2>1, <2>2, TypePartsNext
<1>18. CASE UNCHANGED vars
  BY <1>1, <1>18 DEF vars, checkouts, outside, locals, TypeOK
<1> QED
  BY <1>3, <1>4, <1>5, <1>5a, <1>6, <1>7, <1>8, <1>9, <1>10, <1>11, <1>12, <1>13,
     <1>14, <1>15, <1>16, <1>17, <1>18 DEF Next, Step

-----------------------------------------------------------------------------
(* A step of one command is not one of another.                            *)

LEMMA OwnOnly ==
  ASSUME TypeOK, NEW q \in Process, NEW r \in Process, r # q,
         \/ \E ps \in SUBSET Plugin, every \in BOOLEAN : Begin(q, ps, every)
         \/ Step(q) \/ Crash(q)
  PROVE  /\ pc'[r] = pc[r] /\ at'[r] = at[r] /\ done'[r] = done[r]
         /\ seen'[r] = seen[r] /\ reviewed'[r] = reviewed[r]
<1> DEFINE Same == /\ pc'[r] = pc[r] /\ at'[r] = at[r] /\ done'[r] = done[r]
                   /\ seen'[r] = seen[r] /\ reviewed'[r] = reviewed[r]
<1> USE DEF TypeOK
<1>1. ASSUME NEW o, Finish(q, o) PROVE Same
  BY <1>1 DEF Finish, Goto
<1>2. ASSUME NEW p, NEW f, Inspected(q, p, f), UNCHANGED <<reviewed, done>>,
             at' = at \/ at' = [at EXCEPT ![q] = p]
      PROVE  Same
  BY <1>2 DEF Inspected, Goto
<1>3. ASSUME GiveUp(q) PROVE Same
  BY <1>3 DEF GiveUp, Verdict, Result, Goto, local
<1>4. ASSUME NEW l, GoOn(q, l) PROVE Same
  BY <1>4 DEF GoOn, Goto, local
<1>5. ASSUME NEW d, Verdict(q, d), UNCHANGED local PROVE Same
  BY <1>5 DEF Verdict, Result, Goto, local
<1>6. ASSUME NEW ps \in SUBSET Plugin, NEW every \in BOOLEAN, Begin(q, ps, every)
      PROVE  Same
  BY <1>6 DEF Begin, Goto
<1>7. ASSUME NEW p \in Plugin, Look(q, p) PROVE Same
  BY <1>7, <1>2 DEF Look, Goto
<1>8. CASE Fetch(q)
  BY <1>8, <1>2 DEF Fetch, FailInspection, Goto
<1>8a. CASE Resolve(q)
  <2>1. ASSUME NEW p, NEW f, seen' = [seen EXCEPT ![q][p].remote = f], Goto(q, "count"),
               UNCHANGED <<at, reviewed, done>>
        PROVE  Same
    BY <2>1 DEF Goto
  <2> QED BY <1>8a, <1>2, <2>1 DEF Resolve, FailInspection
<1>9. CASE Count(q)
  BY <1>9, <1>2 DEF Count, FailInspection
<1>10. ASSUME NEW p \in Plugin, Choose(q, p) PROVE Same
  BY <1>10 DEF Choose, Result, Goto
<1>11. CASE AllDone(q) \/ Rescan(q) \/ Crash(q)
  BY <1>11, <1>1 DEF AllDone, Rescan, Crash, Goto, locals
<1>12. CASE CheckHead(q) \/ CheckClean(q) \/ Stage(q)
  BY <1>12, <1>3, <1>4 DEF CheckHead, CheckClean, Stage
<1>13. CASE Merge(q) \/ Reset(q)
  <2>1. ASSUME Goto(q, "landed"), UNCHANGED <<local, done>> PROVE Same
    BY <2>1 DEF Goto, local
  <2> QED BY <1>13, <1>3, <1>4, <1>5, <2>1 DEF Merge, Reset
<1>14. CASE Landed(q) \/ Validate(q)
  BY <1>14, <1>4, <1>5 DEF Landed, Validate
<1> QED
  BY <1>6, <1>7, <1>8, <1>8a, <1>9, <1>10, <1>11, <1>12, <1>13, <1>14 DEF Step

-----------------------------------------------------------------------------
(* What moves a checkout.                                                  *)

Merged(q) ==
  LET p == at[q] IN
    /\ p \in Plugin /\ pc[q] = "merge" /\ pc'[q] # pc[q]
    /\ head[p] \subseteq seen[q][p].remote
    /\ head' = [head EXCEPT ![p] = seen[q][p].remote]
    /\ UNCHANGED edited /\ Disturb(q, p)

TakenBack(q) ==
  LET p == at[q] IN
    /\ p \in Plugin /\ pc[q] = "reset" /\ pc'[q] # pc[q]
    /\ head' = [head EXCEPT ![p] = seen[q][p].current]
    /\ edited' = edited \ {p} /\ Disturb(q, p)

Passed(q) == UNCHANGED checkouts /\ \A r \in Process \ {q} : late'[r] = late[r]

LEMMA Moves ==
  ASSUME UpdatesInv, NEW q \in Process,
         \/ \E ps \in SUBSET Plugin, every \in BOOLEAN : Begin(q, ps, every)
         \/ Step(q) \/ Crash(q)
  PROVE  Merged(q) \/ TakenBack(q) \/ Passed(q)
<1>1. TypeOK /\ (pc[q] \in Apply => at[q] \in Plugin)
  BY DEF UpdatesInv, Pinned
<1>2. UNCHANGED <<checkouts, late>> => Passed(q)
  BY DEF Passed
<1>3. ASSUME NEW o, Finish(q, o), UNCHANGED checkouts PROVE Passed(q)
  BY <1>1, <1>3 DEF Finish, Passed, TypeOK
<1>4. GiveUp(q) => Passed(q)
  BY <1>2 DEF GiveUp
<1>5. ASSUME NEW l, GoOn(q, l), UNCHANGED late PROVE Passed(q)
  BY <1>2, <1>5 DEF GoOn
<1>6. CASE Merge(q)
  <2>1. at[q] \in Plugin /\ pc[q] = "merge"
    BY <1>1, <1>6 DEF Merge, Apply
  <2>2. ASSUME NEW d, Verdict(q, d) PROVE pc'[q] # pc[q]
    BY <1>1, <2>1, <2>2 DEF Verdict, Goto, TypeOK
  <2>3. Goto(q, "landed") => pc'[q] # pc[q]
    BY <1>1, <2>1 DEF Goto, TypeOK
  <2> QED BY <1>4, <1>5, <1>6, <2>1, <2>2, <2>3 DEF Merge, Merged
<1>7. CASE Reset(q)
  <2>1. at[q] \in Plugin /\ pc[q] = "reset"
    BY <1>1, <1>7 DEF Reset, Apply
  <2>2. pc'[q] # pc[q]
    BY <1>1, <1>7, <2>1 DEF Reset, Verdict, Goto, TypeOK
  <2> QED BY <1>2, <1>7, <2>1, <2>2 DEF Reset, TakenBack
<1>8. CASE CheckHead(q)
  <2>1. ASSUME late' = [late EXCEPT ![q] = @ \ {at[q]}], NEW l, GoOn(q, l)
        PROVE  Passed(q)
    BY <1>1, <2>1 DEF GoOn, Passed, TypeOK
  <2> QED BY <1>4, <1>5, <1>8, <2>1 DEF CheckHead
<1>9. CASE CheckClean(q) \/ Stage(q)
  BY <1>4, <1>5, <1>9 DEF CheckClean, Stage
<1>10. CASE Landed(q) \/ Validate(q)
  BY <1>2, <1>5, <1>10 DEF Landed, Validate
<1>11. CASE AllDone(q) \/ Rescan(q) \/ Crash(q)
  BY <1>2, <1>3, <1>11 DEF AllDone, Rescan, Crash
<1>12. CASE Fetch(q) \/ Resolve(q) \/ Count(q) \/ \E p \in Plugin : Look(q, p) \/ Choose(q, p)
  BY <1>2, <1>12 DEF Fetch, Resolve, Count, FailInspection, Look, Choose
<1>13. CASE \E ps \in SUBSET Plugin, every \in BOOLEAN : Begin(q, ps, every)
  BY <1>2, <1>13 DEF Begin
<1> QED
  BY <1>6, <1>7, <1>8, <1>9, <1>10, <1>11, <1>12, <1>13 DEF Step

\* A revision the user commits to is as valid as the one before.
LEMMA KeptIsValid ==
  ASSUME NEW r, Valid(r), NEW w \in Work
  PROVE  Valid(r \cup {w})
BY CommitAssumption DEF Valid

LEMMA Heads ==
  ASSUME UpdatesInv, [Next]_vars
  PROVE  HeadIsValid'
<1>1. TypeOK /\ HeadIsValid /\ \A q \in Process : Pinned(q)
  BY DEF UpdatesInv
<1>2. ASSUME NEW q \in Process, Merged(q) PROVE HeadIsValid'
  <2>1. Valid(seen[q][at[q]].remote)
    BY <1>1, <1>2 DEF Merged, Pinned, Apply
  <2> QED BY <1>1, <1>2, <2>1 DEF Merged, HeadIsValid, TypeOK
<1>3. ASSUME NEW q \in Process, TakenBack(q) PROVE HeadIsValid'
  <2>1. Valid(seen[q][at[q]].current)
    BY <1>1, <1>3 DEF TakenBack, Pinned, Apply
  <2> QED BY <1>1, <1>3, <2>1 DEF TakenBack, HeadIsValid, TypeOK
<1>4. ASSUME NEW p \in Plugin, NEW w \in Work, Keep(p, w) PROVE HeadIsValid'
  BY <1>1, <1>4, KeptIsValid DEF Keep, HeadIsValid, TypeOK
<1>5. UNCHANGED head => HeadIsValid'
  BY <1>1 DEF HeadIsValid
<1>6. ASSUME NEW q \in Process,
             \/ \E ps \in SUBSET Plugin, every \in BOOLEAN : Begin(q, ps, every)
             \/ Step(q) \/ Crash(q)
      PROVE  HeadIsValid'
  BY <1>2, <1>3, <1>5, <1>6, Moves DEF Passed, checkouts
<1>7. ASSUME NEW p \in Plugin, Edit(p) \/ \E r \in SUBSET Commit : Move(p, r)
      PROVE  HeadIsValid'
  BY <1>5, <1>7 DEF Edit, Move, checkouts
<1>8. CASE UNCHANGED vars
  BY <1>5, <1>8 DEF vars, checkouts
<1> QED BY <1>4, <1>6, <1>7, <1>8 DEF Next

-----------------------------------------------------------------------------
(* What is about to be merged is what was reviewed.                        *)

LEMMA Unmoved ==
  ASSUME NEW r \in Process, Pinned(r),
         pc'[r] = pc[r], at'[r] = at[r], seen'[r] = seen[r], reviewed'[r] = reviewed[r]
  PROVE  Pinned(r)'
BY DEF Pinned, Valid

\* The part of Pinned that is about every plugin.
FoundOK(q) ==
  \A p \in Plugin :
    /\ seen[q][p].current # Unknown => Valid(seen[q][p].current)
    /\ seen[q][p].state = "available" => seen[q][p].current # Unknown

LEMMA FinishedPinned ==
  ASSUME TypeOK, NEW q \in Process, NEW o, Finish(q, o)
  PROVE  Pinned(q)'
BY DEF TypeOK, Finish, Goto, Pinned, Nothing, Apply

LEMMA InspectedPinned ==
  ASSUME TypeOK, NEW q \in Process, FoundOK(q), NEW p \in Plugin, NEW f \in Finding,
         Inspected(q, p, f),
         f.current # Unknown => Valid(f.current),
         f.state = "available" => f.current # Unknown
  PROVE  Pinned(q)'
<1>1. seen'[q] = [seen[q] EXCEPT ![p] = f]
  BY DEF TypeOK, Inspected
<1>2. FoundOK(q)'
  BY <1>1 DEF TypeOK, FoundOK, Valid
<1>3. pc'[q] \in {"choose", "look"}
  BY DEF TypeOK, Inspected, Goto
<1> QED BY <1>2, <1>3 DEF Pinned, FoundOK, Apply

LEMMA ChosenPinned ==
  ASSUME TypeOK, NEW q \in Process, FoundOK(q), UNCHANGED seen, pc'[q] \in {"choose", "rescan", "look"}
  PROVE  Pinned(q)'
BY DEF TypeOK, FoundOK, Pinned, Valid, Apply

LEMMA AppliedPinned ==
  ASSUME TypeOK, NEW q \in Process, Pinned(q), UNCHANGED <<seen, at, reviewed>>,
         pc[q] \in Apply, pc'[q] \in Apply,
         pc'[q] \in {"head1", "clean1", "stage"} \/ pc[q] \notin {"head1", "clean1", "stage"}
           \/ Valid(seen[q][at[q]].remote)
  PROVE  Pinned(q)'
BY DEF TypeOK, Pinned, Valid

LEMMA OwnPinned ==
  ASSUME UpdatesInv, NEW q \in Process,
         \/ \E ps \in SUBSET Plugin, every \in BOOLEAN : Begin(q, ps, every)
         \/ Step(q) \/ Crash(q)
  PROVE  Pinned(q)'
<1>1. TypeOK /\ HeadIsValid /\ Pinned(q) /\ FoundOK(q)
  BY DEF UpdatesInv, Pinned, FoundOK
<1>2. /\ [Nothing EXCEPT !.state = "failed"].current = Unknown
      /\ [Nothing EXCEPT !.state = "failed"].state = "failed"
  BY DEF Nothing
<1>3. ASSUME NEW p \in Plugin, Inspected(q, p, [Nothing EXCEPT !.state = "failed"])
      PROVE  Pinned(q)'
  <2>1. [Nothing EXCEPT !.state = "failed"] \in Finding
    BY NothingFound, StateFound
  <2> QED BY <1>1, <1>2, <1>3, <2>1, InspectedPinned
<1>4. GiveUp(q) => Pinned(q)'
  <2>1. ASSUME GiveUp(q) PROVE UNCHANGED seen /\ pc'[q] = "choose"
    BY <1>1, <2>1 DEF GiveUp, Verdict, Goto, local, TypeOK
  <2> QED BY <1>1, <2>1, ChosenPinned
<1>5. ASSUME NEW d, Verdict(q, d), UNCHANGED local PROVE Pinned(q)'
  <2>1. UNCHANGED seen /\ pc'[q] = "choose"
    BY <1>1, <1>5 DEF Verdict, Goto, local, TypeOK
  <2> QED BY <1>1, <2>1, ChosenPinned
<1>6. ASSUME NEW l \in Apply, Goto(q, l), UNCHANGED local, pc[q] \in Apply,
             l \in {"clean1", "stage"} \/ pc[q] \notin {"head1", "clean1", "stage"}
               \/ Valid(seen[q][at[q]].remote)
      PROVE  Pinned(q)'
  <2>1. UNCHANGED <<seen, at, reviewed>> /\ pc'[q] = l
    BY <1>1, <1>6 DEF Goto, local, TypeOK
  <2> QED BY <1>1, <1>6, <2>1, AppliedPinned
<1>7. ASSUME NEW l \in Apply, GoOn(q, l), pc[q] \in Apply,
             l \in {"clean1", "stage"} \/ pc[q] \notin {"head1", "clean1", "stage"}
               \/ Valid(seen[q][at[q]].remote)
      PROVE  Pinned(q)'
  BY <1>6, <1>7 DEF GoOn
<1>8. ASSUME NEW ps \in SUBSET Plugin, NEW every \in BOOLEAN, Begin(q, ps, every)
      PROVE  Pinned(q)'
  <2>1. UNCHANGED seen /\ pc'[q] = "look"
    BY <1>1, <1>8 DEF Begin, Goto, TypeOK
  <2> QED BY <1>1, <2>1, ChosenPinned
<1>9. ASSUME NEW p \in Plugin, Look(q, p) PROVE Pinned(q)'
  <2> DEFINE f == [Nothing EXCEPT !.current = head[p], !.dirty = p \in edited]
  <2>1. CASE seen' = [seen EXCEPT ![q][p] = f] /\ Goto(q, "fetch")
    <3>1. head[p] # Unknown /\ Valid(head[p])
      BY <1>1, UnknownAssumption DEF TypeOK, HeadIsValid
    <3>2. f.current = head[p] /\ f.state = "none"
      BY DEF Nothing
    <3>3. seen'[q] = [seen[q] EXCEPT ![p] = f]
      BY <1>1, <2>1 DEF TypeOK
    <3>4. at'[q] = p /\ pc'[q] = "fetch"
      BY <1>1, <1>9, <2>1 DEF Look, Goto, TypeOK
    <3>5. seen'[q][p] = f /\ \A o \in Plugin : o # p => seen'[q][o] = seen[q][o]
      BY <1>1, <3>3 DEF TypeOK
    <3> HIDE DEF f
    <3> QED BY <1>1, <3>1, <3>2, <3>4, <3>5 DEF FoundOK, Pinned, Valid, Apply
  <2> QED BY <1>3, <1>9, <2>1 DEF Look
<1>10. CASE Fetch(q)
  <2>1. pc[q] = "fetch"
    BY <1>10 DEF Fetch
  <2>2. CASE Goto(q, "resolve") /\ UNCHANGED <<seen, at>>
    <3>1. pc'[q] = "resolve"
      BY <1>1, <2>2 DEF Goto, TypeOK
    <3> QED BY <1>1, <2>1, <2>2, <3>1 DEF Pinned, Valid, Apply
  <2>3. at[q] \in Plugin /\ UNCHANGED at
    BY <1>1, <1>10 DEF Fetch, Pinned
  <2> QED BY <1>3, <1>10, <2>2, <2>3 DEF Fetch, FailInspection
<1>10a. CASE Resolve(q)
  <2> DEFINE p == at[q]
             f == [seen[q][p] EXCEPT !.remote = fetched[p]]
  <2>1. pc[q] = "resolve" /\ p \in Plugin /\ seen[q][p].current # Unknown
    BY <1>1, <1>10a DEF Resolve, Pinned
  <2>2. CASE /\ seen' = [seen EXCEPT ![q][p].remote = fetched[p]]
             /\ Goto(q, "count") /\ UNCHANGED at
    <3>1. f.current = seen[q][p].current /\ f.state = seen[q][p].state
      BY <1>1, <2>1 DEF TypeOK, Finding
    <3>2. seen'[q] = [seen[q] EXCEPT ![p] = f]
      BY <1>1, <2>2 DEF TypeOK
    <3>3. seen'[q][p] = f /\ \A o \in Plugin : o # p => seen'[q][o] = seen[q][o]
      BY <1>1, <2>1, <3>2 DEF TypeOK
    <3>4. at'[q] = p /\ pc'[q] = "count"
      BY <1>1, <2>2 DEF Goto, TypeOK
    <3> HIDE DEF f
    <3> QED BY <1>1, <2>1, <3>1, <3>3, <3>4 DEF FoundOK, Pinned, Valid, Apply
  <2> QED BY <1>3, <1>10a, <2>1, <2>2 DEF Resolve, FailInspection
<1>11. CASE Count(q)
  <2> DEFINE p == at[q]
             f == [seen[q][p] EXCEPT !.state = State(q, p)]
  <2>1. p \in Plugin /\ seen[q][p].current # Unknown /\ seen[q][p] \in Finding
    BY <1>1, <1>11 DEF Count, Pinned, TypeOK
  <2>2. State(q, p) \in {"ahead", "dirty", "available", "current"}
    BY DEF State
  <2>3. f \in Finding
    BY <2>1, <2>2, StateFound
  <2>4. f.current = seen[q][p].current
    BY <2>1 DEF Finding
  <2>5. Inspected(q, p, f) => Pinned(q)'
    <3> HIDE DEF f
    <3> QED BY <1>1, <2>1, <2>3, <2>4, InspectedPinned DEF FoundOK
  <2> QED BY <1>3, <1>11, <2>1, <2>5 DEF Count, FailInspection
<1>12. ASSUME NEW p \in Plugin, Choose(q, p) PROVE Pinned(q)'
  <2>1. CASE /\ seen[q][p].state = "available" /\ seen[q][p].remote = reviewed[q][p]
             /\ Goto(q, "head1")
    <3>1. /\ at'[q] = p /\ pc'[q] = "head1" /\ UNCHANGED <<seen, reviewed>>
          /\ reviewed[q][p] # Unknown
      BY <1>1, <1>12, <2>1 DEF Choose, Goto, Chosen, TypeOK
    <3> QED BY <1>1, <2>1, <3>1 DEF FoundOK, Pinned, Valid, Apply
  <2>2. CASE UNCHANGED pc
    <3>1. pc'[q] = "choose" /\ UNCHANGED seen
      BY <1>12, <2>2 DEF Choose
    <3> QED BY <1>1, <3>1, ChosenPinned
  <2> QED BY <1>12, <2>1, <2>2 DEF Choose
<1>13. CASE AllDone(q)
  <2>1. Goto(q, "rescan") /\ UNCHANGED locals => Pinned(q)'
    BY <1>1, ChosenPinned DEF Goto, locals, TypeOK
  <2> QED BY <1>1, <1>13, <2>1, FinishedPinned DEF AllDone
<1>14. CASE Rescan(q) \/ Crash(q)
  BY <1>1, <1>14, FinishedPinned DEF Rescan, Crash
<1>15. CASE CheckHead(q) \/ CheckClean(q) \/ Stage(q)
  BY <1>4, <1>7, <1>15 DEF CheckHead, CheckClean, Stage, Apply
<1>16. CASE Merge(q) \/ Reset(q)
  BY <1>4, <1>5, <1>6, <1>7, <1>16 DEF Merge, Reset, Apply
<1>17. CASE Landed(q) \/ Validate(q)
  BY <1>4, <1>5, <1>7, <1>17 DEF Landed, Validate, Apply
<1> QED
  BY <1>8, <1>9, <1>10, <1>10a, <1>11, <1>12, <1>13, <1>14, <1>15,
     <1>16, <1>17 DEF Step

-----------------------------------------------------------------------------
(* What was looked at twice is as it was, unless others changed it since.  *)

Doing == {"clean2", "merge", "landed", "validate", "reset"}

FromRemote(q) ==
  \A p \in Plugin : seen[q][p].remote # Unknown => seen[q][p].remote \subseteq Commit

LEMMA IdleWatched ==
  ASSUME NEW q \in Process, FromRemote(q)', pc'[q] \notin Doing
  PROVE  Watched(q)'
BY DEF Watched, FromRemote, Doing

LEMMA SameRemote ==
  ASSUME NEW q \in Process, FromRemote(q), seen'[q] = seen[q]
  PROVE  FromRemote(q)'
BY DEF FromRemote

LEMMA SameWatched ==
  ASSUME NEW q \in Process, Watched(q),
         pc'[q] = pc[q], at'[q] = at[q], seen'[q] = seen[q],
         pc[q] \in Doing =>
           /\ late[q] \subseteq late'[q]
           /\ \/ at[q] \in late'[q]
              \/ /\ head'[at[q]] = head[at[q]]
                 /\ at[q] \in edited' => at[q] \in edited
  PROVE  Watched(q)'
BY DEF Watched, Doing

LEMMA InspectedRemote ==
  ASSUME TypeOK, NEW q \in Process, FromRemote(q), NEW p \in Plugin, NEW f,
         f.remote = Unknown \/ f.remote \subseteq Commit,
         seen' = [seen EXCEPT ![q][p] = f]
  PROVE  FromRemote(q)'
<1>1. seen'[q] = [seen[q] EXCEPT ![p] = f]
  BY DEF TypeOK
<1>2. seen'[q][p] = f /\ \A o \in Plugin : o # p => seen'[q][o] = seen[q][o]
  BY <1>1 DEF TypeOK
<1> QED BY <1>2 DEF FromRemote

LEMMA OthersWatched ==
  ASSUME UpdatesInv, NEW q \in Process, NEW r \in Process, r # q,
         \/ \E ps \in SUBSET Plugin, every \in BOOLEAN : Begin(q, ps, every)
         \/ Step(q) \/ Crash(q)
  PROVE  Watched(r)'
<1>1. TypeOK /\ Watched(r)
  BY DEF UpdatesInv
<1>2. pc'[r] = pc[r] /\ at'[r] = at[r] /\ seen'[r] = seen[r]
  BY <1>1, OwnOnly
<1>4. CASE Merged(q)
  <2>1. pc[r] \in Doing => late'[r] = late[r] \cup {at[q]}
    BY <1>1, <1>4 DEF Merged, Disturb, Doing, TypeOK
  <2>2. at[r] # at[q] => head'[at[r]] = head[at[r]]
    BY <1>1, <1>4 DEF Merged, TypeOK
  <2>3. UNCHANGED edited
    BY <1>4 DEF Merged
  <2> QED BY <1>1, <1>2, <2>1, <2>2, <2>3, SameWatched
<1>5. CASE TakenBack(q)
  <2>1. pc[r] \in Doing => late'[r] = late[r] \cup {at[q]}
    BY <1>1, <1>5 DEF TakenBack, Disturb, Doing, TypeOK
  <2>2. at[r] # at[q] => head'[at[r]] = head[at[r]]
    BY <1>1, <1>5 DEF TakenBack, TypeOK
  <2>3. edited' \subseteq edited
    BY <1>5 DEF TakenBack
  <2> QED BY <1>1, <1>2, <2>1, <2>2, <2>3, SameWatched
<1>6. CASE Passed(q)
  BY <1>1, <1>2, <1>6, SameWatched DEF Passed, checkouts
<1> QED BY <1>4, <1>5, <1>6, Moves

LEMMA OwnWatched ==
  ASSUME UpdatesInv, NEW q \in Process,
         \/ \E ps \in SUBSET Plugin, every \in BOOLEAN : Begin(q, ps, every)
         \/ Step(q) \/ Crash(q)
  PROVE  Watched(q)'
<1>1. TypeOK /\ Pinned(q) /\ Watched(q) /\ FromRemote(q)
  BY DEF UpdatesInv, Watched, FromRemote
<1>2. [Nothing EXCEPT !.state = "failed"].remote = Unknown
  BY DEF Nothing
<1>3. ASSUME NEW p \in Plugin, NEW f, Inspected(q, p, f),
             f.remote = Unknown \/ f.remote \subseteq Commit
      PROVE  Watched(q)'
  <2>1. FromRemote(q)'
    BY <1>1, <1>3, InspectedRemote DEF Inspected
  <2>2. pc'[q] \in {"choose", "look"}
    BY <1>1, <1>3 DEF Inspected, Goto, TypeOK
  <2> QED BY <2>1, <2>2, IdleWatched DEF Doing
<1>4. ASSUME NEW l, Goto(q, l), UNCHANGED seen, l \notin Doing PROVE Watched(q)'
  <2>1. pc'[q] = l
    BY <1>1, <1>4 DEF Goto, TypeOK
  <2> QED BY <1>1, <1>4, <2>1, SameRemote, IdleWatched
<1>5. ASSUME NEW d, Verdict(q, d), UNCHANGED local PROVE Watched(q)'
  BY <1>4, <1>5 DEF Verdict, local, Doing
<1>6. GiveUp(q) => Watched(q)'
  BY <1>5 DEF GiveUp
<1>7. ASSUME NEW o, Finish(q, o) PROVE Watched(q)'
  <2>1. FromRemote(q)' /\ pc'[q] = "idle"
    BY <1>1, <1>7 DEF Finish, Goto, FromRemote, Nothing, TypeOK
  <2> QED BY <2>1, IdleWatched DEF Doing
<1>8. ASSUME NEW ps \in SUBSET Plugin, NEW every \in BOOLEAN, Begin(q, ps, every)
      PROVE  Watched(q)'
  BY <1>4, <1>8 DEF Begin, Doing
<1>9. ASSUME NEW p \in Plugin, Look(q, p) PROVE Watched(q)'
  <2> DEFINE f == [Nothing EXCEPT !.current = head[p], !.dirty = p \in edited]
  <2>1. CASE seen' = [seen EXCEPT ![q][p] = f] /\ Goto(q, "fetch")
    <3>1. f.remote = Unknown
      BY DEF Nothing
    <3>2. pc'[q] = "fetch"
      BY <1>1, <2>1 DEF Goto, TypeOK
    <3>3. FromRemote(q)'
      <4> HIDE DEF f
      <4> QED BY <1>1, <2>1, <3>1, InspectedRemote
    <3> QED BY <3>2, <3>3, IdleWatched DEF Doing
  <2> QED BY <1>2, <1>3, <1>9, <2>1 DEF Look
<1>10. CASE Fetch(q)
  <2>1. CASE Goto(q, "resolve") /\ UNCHANGED seen
    <3>1. pc'[q] = "resolve"
      BY <1>1, <2>1 DEF Goto, TypeOK
    <3> QED BY <1>1, <2>1, <3>1, SameRemote, IdleWatched DEF Doing
  <2>2. at[q] \in Plugin
    BY <1>1, <1>10 DEF Fetch, Pinned
  <2> QED BY <1>2, <1>3, <1>10, <2>1, <2>2 DEF Fetch, FailInspection
<1>10a. CASE Resolve(q)
  <2> DEFINE p == at[q]
             f == [seen[q][p] EXCEPT !.remote = fetched[p]]
  <2>1. p \in Plugin
    BY <1>1, <1>10a DEF Resolve, Pinned
  <2>2. CASE seen' = [seen EXCEPT ![q][p].remote = fetched[p]] /\ Goto(q, "count")
    <3>1. f.remote \subseteq Commit
      BY <1>1, <2>1 DEF TypeOK, Finding
    <3>2. pc'[q] = "count"
      BY <1>1, <2>2 DEF Goto, TypeOK
    <3>3. seen' = [seen EXCEPT ![q][p] = f]
      BY <1>1, <2>1, <2>2 DEF TypeOK
    <3>4. FromRemote(q)'
      <4> HIDE DEF f, p
      <4> QED BY <1>1, <2>1, <3>1, <3>3, InspectedRemote
    <3> QED BY <3>2, <3>4, IdleWatched DEF Doing
  <2> QED BY <1>2, <1>3, <1>10a, <2>1, <2>2 DEF Resolve, FailInspection
<1>11. CASE Count(q)
  <2> DEFINE p == at[q]
             f == [seen[q][p] EXCEPT !.state = State(q, p)]
  <2>1. p \in Plugin /\ seen[q][p] \in Finding
    BY <1>1, <1>11 DEF Count, Pinned, TypeOK
  <2>2. f.remote = seen[q][p].remote
    BY <2>1 DEF Finding
  <2>3. Inspected(q, p, f) => Watched(q)'
    <3> HIDE DEF f
    <3> QED BY <1>1, <1>3, <2>1, <2>2 DEF FromRemote
  <2> QED BY <1>2, <1>3, <1>11, <2>1, <2>3 DEF Count, FailInspection
<1>12. ASSUME NEW p \in Plugin, Choose(q, p) PROVE Watched(q)'
  <2>1. UNCHANGED seen /\ pc'[q] \in {"choose", "head1"}
    BY <1>1, <1>12 DEF Choose, Goto, TypeOK
  <2> QED BY <1>1, <2>1, SameRemote, IdleWatched DEF Doing
<1>13. CASE AllDone(q) \/ Rescan(q) \/ Crash(q)
  <2>1. Goto(q, "rescan") /\ UNCHANGED locals => Watched(q)'
    BY <1>4 DEF locals, Doing
  <2> QED BY <1>7, <1>13, <2>1 DEF AllDone, Rescan, Crash
<1>14. CASE CheckHead(q)
  <2>1. CASE /\ pc[q] = "head2" /\ head[at[q]] = seen[q][at[q]].current
             /\ GoOn(q, "clean2")
    <3>1. /\ pc'[q] = "clean2" /\ UNCHANGED <<at, seen, head>>
      BY <1>1, <2>1 DEF GoOn, Goto, local, checkouts, TypeOK
    <3> QED BY <1>1, <2>1, <3>1 DEF Watched
  <2>2. GoOn(q, "clean1") => Watched(q)'
    BY <1>4 DEF GoOn, local, Doing
  <2> QED BY <1>6, <1>14, <2>1, <2>2 DEF CheckHead
<1>15. CASE CheckClean(q) \/ Stage(q)
  <2>1. CASE pc[q] = "clean2" /\ at[q] \notin edited /\ GoOn(q, "merge") /\ UNCHANGED late
    <3>1. pc'[q] = "merge" /\ UNCHANGED <<at, seen, head, edited, late>>
      BY <1>1, <2>1 DEF GoOn, Goto, local, checkouts, TypeOK
    <3> QED BY <1>1, <2>1, <3>1 DEF Watched
  <2>2. ASSUME NEW l \in {"stage", "head2"}, GoOn(q, l) PROVE Watched(q)'
    BY <1>4, <2>2 DEF GoOn, local, Doing
  <2> QED BY <1>6, <1>15, <2>1, <2>2 DEF CheckClean, Stage
<1>16. CASE Merge(q)
  <2> DEFINE p == at[q]
             target == seen[q][p].remote
  <2>1. pc[q] = "merge" /\ p \in Plugin
    BY <1>1, <1>16 DEF Merge, Pinned, Apply
  <2>2. CASE GoOn(q, "landed") /\ UNCHANGED late
    <3>1. pc'[q] = "landed" /\ UNCHANGED <<at, seen, head, edited, late>>
      BY <1>1, <2>2 DEF GoOn, Goto, local, checkouts, TypeOK
    <3> QED BY <1>1, <2>1, <3>1 DEF Watched
  <2>3. CASE /\ head' = [head EXCEPT ![p] = target] /\ Goto(q, "landed")
             /\ Disturb(q, p) /\ UNCHANGED <<edited, local>>
    <3>1. /\ pc'[q] = "landed" /\ UNCHANGED <<at, seen, edited>>
          /\ head'[p] = target /\ late'[q] = late[q]
      BY <1>1, <2>1, <2>3 DEF Goto, Disturb, local, TypeOK
    <3> QED BY <1>1, <2>1, <3>1 DEF Watched
  <2> QED BY <1>5, <1>6, <1>16, <2>2, <2>3 DEF Merge
<1>17. CASE Landed(q) \/ Validate(q)
  <2>1. ASSUME NEW l \in {"validate", "reset"}, GoOn(q, l), UNCHANGED late,
               pc[q] \in {"landed", "validate"}
        PROVE  Watched(q)'
    <3>1. pc'[q] = l /\ UNCHANGED <<at, seen, head, edited, late>>
      BY <1>1, <2>1 DEF GoOn, Goto, local, checkouts, TypeOK
    <3> QED BY <1>1, <2>1, <3>1 DEF Watched
  <2> QED BY <1>5, <1>17, <2>1 DEF Landed, Validate
<1>18. CASE Reset(q)
  BY <1>5, <1>18 DEF Reset
<1> QED
  BY <1>8, <1>9, <1>10, <1>10a, <1>11, <1>12, <1>13, <1>14, <1>15,
     <1>16, <1>17, <1>18 DEF Step

-----------------------------------------------------------------------------
(* A plugin that nobody else changed is where the command says it is.      *)

LEMMA OthersLate ==
  ASSUME TypeOK, NEW q \in Process, NEW r \in Process, r # q, pc[r] # "idle",
         Merged(q) \/ TakenBack(q) \/ Passed(q)
  PROVE  /\ late[r] \subseteq late'[r]
         /\ \A p \in Plugin \ late'[r] : head'[p] = head[p]
<1>1. CASE Merged(q)
  BY <1>1 DEF Merged, Disturb, TypeOK
<1>2. CASE TakenBack(q)
  BY <1>2 DEF TakenBack, Disturb, TypeOK
<1>3. CASE Passed(q)
  BY <1>3 DEF Passed, checkouts
<1> QED BY <1>1, <1>2, <1>3

LEMMA SameFollowed ==
  ASSUME TypeOK, NEW r \in Process, Followed(r), Pinned(r),
         pc'[r] = pc[r], at'[r] = at[r], seen'[r] = seen[r],
         reviewed'[r] = reviewed[r], done'[r] = done[r],
         faults' = 0 => faults = 0,
         pc[r] # "idle" => /\ late[r] \subseteq late'[r]
                           /\ \A p \in Plugin \ late'[r] : head'[p] = head[p]
  PROVE  Followed(r)'
<1>1. CASE pc[r] = "idle"
  BY <1>1 DEF Followed, Apply
<1>2. CASE pc[r] # "idle"
  <2>1. \A p \in Plugin \ late'[r] : p \notin late[r] /\ head'[p] = head[p]
    BY <1>2
  <2>2. pc[r] \in Apply => at[r] \in Plugin
    BY DEF Pinned
  <2>3. (pc[r] = "validate" /\ at[r] \notin late[r] =>
           head[at[r]] = seen[r][at[r]].remote)'
    BY <2>1, <2>2 DEF Followed, Apply
  <2> QED BY <1>2, <2>1, <2>3 DEF Followed
<1> QED BY <1>1, <1>2

LEMMA NoFaultsBefore ==
  ASSUME TypeOK, Fault \/ NoFault \/ Change
  PROVE  faults' = 0 => faults = 0
BY DEF TypeOK, Fault, NoFault, Change

LEMMA StepFaults ==
  ASSUME NEW q \in Process,
         \/ \E ps \in SUBSET Plugin, every \in BOOLEAN : Begin(q, ps, every)
         \/ Step(q) \/ Crash(q)
  PROVE  Fault \/ NoFault
<1>1. GiveUp(q) => NoFault
  BY DEF GiveUp
<1>2. ASSUME NEW l, GoOn(q, l) PROVE NoFault
  BY <1>2 DEF GoOn
<1>3. CASE Merge(q) \/ Reset(q)
  BY <1>1, <1>2, <1>3 DEF Merge, Reset
<1>4. CASE CheckHead(q) \/ CheckClean(q) \/ Stage(q)
  BY <1>1, <1>2, <1>4 DEF CheckHead, CheckClean, Stage
<1>5. CASE Landed(q) \/ Validate(q)
  BY <1>2, <1>5 DEF Landed, Validate
<1>6. CASE AllDone(q) \/ Rescan(q) \/ Crash(q)
  BY <1>6 DEF AllDone, Rescan, Crash
<1>7. CASE Fetch(q) \/ Resolve(q) \/ Count(q) \/ \E p \in Plugin : Look(q, p) \/ Choose(q, p)
  BY <1>7 DEF Fetch, Resolve, Count, FailInspection, Look, Choose
<1>8. CASE \E ps \in SUBSET Plugin, every \in BOOLEAN : Begin(q, ps, every)
  BY <1>8 DEF Begin
<1> QED
  BY <1>3, <1>4, <1>5, <1>6, <1>7, <1>8 DEF Step

LEMMA OthersFollowed ==
  ASSUME UpdatesInv, NEW q \in Process, NEW r \in Process, r # q,
         \/ \E ps \in SUBSET Plugin, every \in BOOLEAN : Begin(q, ps, every)
         \/ Step(q) \/ Crash(q)
  PROVE  Followed(r)'
<1>1. TypeOK /\ Followed(r) /\ Pinned(r)
  BY DEF UpdatesInv
<1>2. /\ pc'[r] = pc[r] /\ at'[r] = at[r] /\ done'[r] = done[r]
      /\ seen'[r] = seen[r] /\ reviewed'[r] = reviewed[r]
  BY <1>1, OwnOnly
<1>3. faults' = 0 => faults = 0
  BY <1>1, StepFaults, NoFaultsBefore
<1>4. Merged(q) \/ TakenBack(q) \/ Passed(q)
  BY Moves
<1> QED BY <1>1, <1>2, <1>3, <1>4, OthersLate, SameFollowed

\* Steps in which nothing moves and nothing is decided.
LEMMA StillFollowed ==
  ASSUME TypeOK, NEW q \in Process, Followed(q), UNCHANGED <<head, seen, reviewed, done, late>>,
         faults' = 0 => faults = 0,
         pc'[q] \notin Apply \cup {"idle"}, pc[q] \notin Apply
  PROVE  Followed(q)'
BY DEF Followed, Apply, TypeOK

LEMMA InspectedFollowed ==
  ASSUME TypeOK, NEW q \in Process, Followed(q), NEW p \in Plugin, NEW f,
         seen' = [seen EXCEPT ![q][p] = f],
         f.current = Unknown \/ f.current = seen[q][p].current \/ f.current = head[p],
         UNCHANGED <<head, reviewed, done, late>>,
         faults' = 0 => faults = 0,
         pc'[q] \notin Apply \cup {"idle"}, pc[q] \notin Apply
  PROVE  Followed(q)'
<1>1. seen'[q] = [seen[q] EXCEPT ![p] = f]
  BY DEF TypeOK
<1>2. seen'[q][p] = f /\ \A o \in Plugin : o # p => seen'[q][o] = seen[q][o]
  BY <1>1 DEF TypeOK
<1>3. ASSUME NEW o \in Plugin, o \notin late[q], done[q][o] # "updated", faults = 0,
             seen'[q][o].current # Unknown
      PROVE  head[o] = seen'[q][o].current
  <2>1. CASE o # p
    BY <1>2, <1>3, <2>1 DEF Followed, Apply
  <2>2. CASE o = p
    BY <1>2, <1>3, <2>2 DEF Followed, Apply
  <2> QED BY <2>1, <2>2
<1> QED BY <1>3 DEF Followed, Apply

\* A command turns to the next plugin.
LEMMA DecidedFollowed ==
  ASSUME TypeOK, NEW q \in Process, Followed(q), Pinned(q),
         NEW d \in {"updated", "failed", "skipped"}, Verdict(q, d),
         pc[q] \in Apply, UNCHANGED <<seen, reviewed, at>>, late'[q] = late[q],
         faults' = 0 => faults = 0,
         \A o \in Plugin : o # at[q] => head'[o] = head[o],
         at[q] \notin late[q] =>
           IF d = "updated" THEN head'[at[q]] = reviewed[q][at[q]]
           ELSE faults' = 0 => head'[at[q]] = seen[q][at[q]].current
  PROVE  Followed(q)'
<1>1. at[q] \in Plugin /\ pc'[q] = "choose"
  BY DEF Pinned, Verdict, Goto, TypeOK
<1>2. /\ done'[q][at[q]] = d
      /\ \A o \in Plugin : o # at[q] => done'[q][o] = done[q][o]
  BY <1>1 DEF Verdict, Result, TypeOK
<1>3. ASSUME NEW p \in Plugin, p \notin late[q]
      PROVE  /\ done'[q][p] = "updated" => head'[p] = reviewed[q][p]
             /\ done'[q][p] # "updated" /\ faults' = 0 /\ seen[q][p].current # Unknown =>
                  head'[p] = seen[q][p].current
  <2>1. CASE p = at[q]
    BY <1>2, <1>3, <2>1
  <2>2. CASE p # at[q]
    BY <1>2, <1>3, <2>2 DEF Followed
  <2> QED BY <2>1, <2>2
<1> QED BY <1>1, <1>3 DEF Followed, Apply

\* A command goes on with its plugin.
LEMMA GoneOnFollowed ==
  ASSUME TypeOK, NEW q \in Process, Followed(q), Pinned(q), Watched(q),
         NEW l \in Apply, Goto(q, l), pc[q] \in Apply,
         UNCHANGED <<seen, reviewed, done, at>>,
         faults' = 0 => faults = 0,
         \A o \in Plugin : o # at[q] => head'[o] = head[o],
         late'[q] = late[q]
           \/ (late'[q] = late[q] \ {at[q]} /\ head'[at[q]] = seen[q][at[q]].current),
         at[q] \notin late'[q] =>
           \/ l \in {"landed", "reset"}
           \/ l = "validate" /\ head'[at[q]] = seen[q][at[q]].remote
           \/ l # "validate" /\ head'[at[q]] = head[at[q]]
              /\ pc[q] \notin {"landed", "validate", "reset"}
  PROVE  Followed(q)'
<1>1. at[q] \in Plugin /\ pc'[q] = l /\ done[q][at[q]] = "none"
  BY DEF Pinned, Goto, Followed, TypeOK
<1>2. ASSUME NEW p \in Plugin, p \notin late'[q]
      PROVE  /\ done[q][p] = "updated" => head'[p] = reviewed[q][p]
             /\ done[q][p] # "updated" /\ faults' = 0 /\ seen[q][p].current # Unknown =>
                  \/ head'[p] = seen[q][p].current
                  \/ p = at[q] /\ l \in {"landed", "validate", "reset"}
  <2>1. CASE p = at[q]
    BY <1>1, <1>2, <2>1 DEF Followed
  <2>2. CASE p # at[q]
    BY <1>2, <2>2 DEF Followed
  <2> QED BY <2>1, <2>2
<1> QED BY <1>1, <1>2 DEF Followed, Apply

LEMMA OwnFollowed ==
  ASSUME UpdatesInv, NEW q \in Process,
         \/ \E ps \in SUBSET Plugin, every \in BOOLEAN : Begin(q, ps, every)
         \/ Step(q) \/ Crash(q)
  PROVE  Followed(q)'
<1>1. TypeOK /\ Pinned(q) /\ Watched(q) /\ Followed(q)
  BY DEF UpdatesInv
<1>2. faults' = 0 => faults = 0
  BY <1>1, StepFaults, NoFaultsBefore
<1>3. [Nothing EXCEPT !.state = "failed"].current = Unknown
  BY DEF Nothing
<1>4. ASSUME NEW p \in Plugin, NEW f, Inspected(q, p, f),
             f.current = Unknown \/ f.current = seen[q][p].current,
             UNCHANGED <<head, reviewed, done, late>>, pc[q] \notin Apply
      PROVE  Followed(q)'
  <2>1. pc'[q] \in {"choose", "look"}
    BY <1>1, <1>4 DEF Inspected, Goto, TypeOK
  <2>2. seen' = [seen EXCEPT ![q][p] = f]
    BY <1>4 DEF Inspected
  <2> QED BY <1>1, <1>2, <1>4, <2>1, <2>2, InspectedFollowed DEF Apply
<1>5. ASSUME NEW o, Finish(q, o) PROVE Followed(q)'
  <2>1. /\ pc'[q] = "idle" /\ done'[q] = [p \in Plugin |-> "none"]
        /\ seen'[q] = [p \in Plugin |-> Nothing]
    BY <1>1, <1>5 DEF Finish, Goto, TypeOK
  <2> QED BY <2>1 DEF Followed, Nothing, Apply
<1>6. ASSUME GiveUp(q), pc[q] \in Apply \ {"landed", "validate", "reset"}
      PROVE  Followed(q)'
  <2>1. /\ at[q] \in Plugin /\ seen[q][at[q]].current # Unknown
        /\ done[q][at[q]] = "none"
    BY <1>1, <1>6 DEF Pinned, Followed
  <2>2. at[q] \notin late[q] /\ faults' = 0 => head[at[q]] = seen[q][at[q]].current
    BY <1>1, <1>2, <1>6, <2>1 DEF Followed
  <2>3. Verdict(q, "failed") /\ UNCHANGED <<head, seen, reviewed, late, at>>
    BY <1>6 DEF GiveUp, local, checkouts
  <2> QED BY <1>1, <1>2, <1>6, <2>2, <2>3, DecidedFollowed
<1>7. ASSUME NEW l \in {"clean1", "stage", "head2", "clean2", "merge", "landed", "reset"},
             GoOn(q, l), UNCHANGED late, pc[q] \in Apply,
             l \in {"landed", "reset"} \/ pc[q] \notin {"landed", "validate", "reset"}
      PROVE  Followed(q)'
  <2>1. Goto(q, l) /\ UNCHANGED <<head, seen, reviewed, done, at, late>>
    BY <1>7 DEF GoOn, local, checkouts
  <2> QED BY <1>1, <1>2, <1>7, <2>1, GoneOnFollowed DEF Apply
<1>8. ASSUME NEW ps \in SUBSET Plugin, NEW every \in BOOLEAN, Begin(q, ps, every)
      PROVE  Followed(q)'
  <2>1. /\ pc[q] = "idle" /\ pc'[q] = "look" /\ UNCHANGED <<seen, done>>
    BY <1>1, <1>8 DEF Begin, Goto, TypeOK
  <2> QED BY <1>1, <2>1 DEF Followed, Apply
<1>9. ASSUME NEW p \in Plugin, Look(q, p) PROVE Followed(q)'
  <2> DEFINE f == [Nothing EXCEPT !.current = head[p], !.dirty = p \in edited]
  <2>1. pc[q] = "look" /\ UNCHANGED <<head, reviewed, done, late>>
    BY <1>9 DEF Look, checkouts
  <2>2. CASE seen' = [seen EXCEPT ![q][p] = f] /\ Goto(q, "fetch")
    <3>1. f.current = head[p]
      BY DEF Nothing
    <3>2. pc'[q] = "fetch"
      BY <1>1, <2>2 DEF Goto, TypeOK
    <3> HIDE DEF f
    <3> QED BY <1>1, <1>2, <2>1, <2>2, <3>1, <3>2, InspectedFollowed DEF Apply
  <2>3. Inspected(q, p, [Nothing EXCEPT !.state = "failed"]) => Followed(q)'
    BY <1>3, <1>4, <2>1 DEF Apply
  <2> QED BY <1>9, <2>2, <2>3 DEF Look
<1>10. CASE Fetch(q)
  <2>1. pc[q] = "fetch" /\ UNCHANGED <<head, reviewed, done, late>>
    BY <1>10 DEF Fetch, checkouts
  <2>2. CASE Goto(q, "resolve") /\ UNCHANGED <<seen, at>>
    <3>1. pc'[q] = "resolve"
      BY <1>1, <2>2 DEF Goto, TypeOK
    <3> QED BY <1>1, <1>2, <2>1, <2>2, <3>1 DEF Followed, Apply
  <2>3. Inspected(q, at[q], [Nothing EXCEPT !.state = "failed"]) => Followed(q)'
    BY <1>1, <1>3, <1>4, <2>1, <1>10 DEF Apply, Fetch, Pinned
  <2> QED BY <1>10, <2>2, <2>3 DEF Fetch, FailInspection
<1>10a. CASE Resolve(q)
  <2> DEFINE p == at[q]
             f == [seen[q][p] EXCEPT !.remote = fetched[p]]
  <2>1. p \in Plugin /\ pc[q] = "resolve" /\ UNCHANGED <<head, reviewed, done, late>>
    BY <1>1, <1>10a DEF Resolve, Pinned, checkouts
  <2>2. CASE seen' = [seen EXCEPT ![q][p].remote = fetched[p]] /\ Goto(q, "count")
    <3>1. f.current = seen[q][p].current
      BY <1>1, <2>1 DEF TypeOK, Finding
    <3>2. pc'[q] = "count"
      BY <1>1, <2>2 DEF Goto, TypeOK
    <3>3. seen' = [seen EXCEPT ![q][p] = f]
      BY <1>1, <2>1, <2>2 DEF TypeOK
    <3> HIDE DEF f, p
    <3> QED BY <1>1, <1>2, <2>1, <3>1, <3>2, <3>3, InspectedFollowed DEF Apply
  <2>3. Inspected(q, p, [Nothing EXCEPT !.state = "failed"]) => Followed(q)'
    BY <1>3, <1>4, <2>1 DEF Apply
  <2> QED BY <1>10a, <2>2, <2>3 DEF Resolve, FailInspection
<1>11. CASE Count(q)
  <2> DEFINE p == at[q]
             f == [seen[q][p] EXCEPT !.state = State(q, p)]
  <2>1. p \in Plugin /\ pc[q] = "count" /\ UNCHANGED <<head, reviewed, done, late>>
    BY <1>1, <1>11 DEF Count, Pinned, checkouts
  <2>2. f.current = seen[q][p].current
    BY <1>1, <2>1 DEF TypeOK, Finding
  <2>3. Inspected(q, p, f) => Followed(q)'
    <3> HIDE DEF f
    <3> QED BY <1>4, <2>1, <2>2 DEF Apply
  <2>4. Inspected(q, p, [Nothing EXCEPT !.state = "failed"]) => Followed(q)'
    BY <1>3, <1>4, <2>1 DEF Apply
  <2> QED BY <1>11, <2>3, <2>4 DEF Count, FailInspection
<1>12. ASSUME NEW p \in Plugin, Choose(q, p) PROVE Followed(q)'
  <2>1. /\ pc[q] = "choose" /\ done[q][p] = "none"
        /\ at'[q] = p /\ UNCHANGED <<head, reviewed, seen, late>>
    BY <1>1, <1>12 DEF Choose, checkouts, TypeOK
  <2>2. CASE Goto(q, "head1") /\ UNCHANGED done
    <3>1. pc'[q] = "head1"
      BY <1>1, <2>2 DEF Goto, TypeOK
    <3> QED BY <1>1, <1>2, <2>1, <2>2, <3>1 DEF Followed, Apply
  <2>3. CASE (\E d \in {"failed", "skipped"} : Result(q, p, d)) /\ UNCHANGED pc
    <3>1. /\ done'[q][p] # "updated"
          /\ \A o \in Plugin : o # p => done'[q][o] = done[q][o]
      BY <1>1, <2>3 DEF Result, TypeOK
    <3>2. \A o \in Plugin : done'[q][o] = "updated" <=> done[q][o] = "updated"
      BY <2>1, <3>1
    <3> QED BY <1>1, <1>2, <2>1, <2>3, <3>2 DEF Followed, Apply
  <2> QED BY <1>12, <2>2, <2>3 DEF Choose
<1>13. CASE AllDone(q)
  <2>1. CASE Goto(q, "rescan") /\ UNCHANGED <<locals, late>>
    <3>1. /\ pc[q] = "choose" /\ pc'[q] = "rescan"
          /\ UNCHANGED <<head, seen, reviewed, done, late>>
      BY <1>1, <1>13, <2>1 DEF AllDone, Goto, locals, checkouts, TypeOK
    <3> QED BY <1>1, <1>2, <3>1, StillFollowed DEF Apply
  <2> QED BY <1>5, <1>13, <2>1 DEF AllDone
<1>14. CASE Rescan(q) \/ Crash(q)
  BY <1>5, <1>14 DEF Rescan, Crash
<1>15. CASE CheckHead(q)
  <2>1. CASE /\ pc[q] = "head2" /\ head[at[q]] = seen[q][at[q]].current
             /\ late' = [late EXCEPT ![q] = @ \ {at[q]}] /\ GoOn(q, "clean2")
    <3>1. /\ Goto(q, "clean2") /\ UNCHANGED <<head, seen, reviewed, done, at>>
          /\ late'[q] = late[q] \ {at[q]}
      BY <1>1, <2>1 DEF GoOn, local, checkouts, TypeOK
    <3> QED BY <1>1, <1>2, <2>1, <3>1, GoneOnFollowed DEF Apply
  <2>2. pc[q] \in {"head1", "head2"}
    BY <1>15 DEF CheckHead
  <2> QED BY <1>6, <1>7, <1>15, <2>1, <2>2 DEF CheckHead, Apply
<1>16. CASE CheckClean(q) \/ Stage(q)
  BY <1>6, <1>7, <1>16 DEF CheckClean, Stage, Apply
<1>17. CASE Merge(q)
  <2> DEFINE p == at[q]
             target == seen[q][p].remote
  <2>1. pc[q] = "merge" /\ p \in Plugin
    BY <1>1, <1>17 DEF Merge, Pinned, Apply
  <2>2. CASE GoOn(q, "landed") /\ UNCHANGED late
    BY <1>7, <2>1, <2>2 DEF Apply
  <2>3. CASE GiveUp(q)
    BY <1>6, <2>1, <2>3 DEF Apply
  <2>4. CASE /\ head' = [head EXCEPT ![p] = target] /\ Disturb(q, p)
             /\ UNCHANGED local
             /\ \/ Goto(q, "landed") /\ UNCHANGED done
                \/ Verdict(q, "failed") /\ Fault
    <3>1. /\ late'[q] = late[q] /\ UNCHANGED <<seen, reviewed, at>>
          /\ \A o \in Plugin : o # p => head'[o] = head[o]
      BY <1>1, <2>1, <2>4 DEF Disturb, local, TypeOK
    <3>2. CASE Goto(q, "landed") /\ UNCHANGED done
      BY <1>1, <1>2, <2>1, <3>1, <3>2, GoneOnFollowed DEF Apply
    <3>3. CASE Verdict(q, "failed") /\ Fault
      <4>1. faults' # 0
        BY <1>1, <3>3 DEF Fault, TypeOK
      <4> QED BY <1>1, <1>2, <2>1, <3>1, <3>3, <4>1, DecidedFollowed DEF Apply
    <3> QED BY <2>4, <3>2, <3>3
  <2> QED BY <1>17, <2>2, <2>3, <2>4 DEF Merge
<1>18. CASE Landed(q)
  <2>1. pc[q] = "landed"
    BY <1>18 DEF Landed
  <2>2. CASE /\ GoOn(q, IF head[at[q]] = seen[q][at[q]].remote THEN "validate" ELSE "reset")
             /\ UNCHANGED late
    <3>1. CASE head[at[q]] = seen[q][at[q]].remote
      <4>1. Goto(q, "validate") /\ UNCHANGED <<head, seen, reviewed, done, at, late>>
        BY <2>2, <3>1 DEF GoOn, local, checkouts
      <4> QED BY <1>1, <1>2, <2>1, <3>1, <4>1, GoneOnFollowed DEF Apply
    <3>2. CASE head[at[q]] # seen[q][at[q]].remote
      BY <1>7, <2>1, <2>2, <3>2 DEF Apply
    <3> QED BY <3>1, <3>2
  <2>3. CASE /\ Fault /\ Verdict(q, "failed")
             /\ UNCHANGED <<checkouts, local, late>>
    <3>1. faults' # 0 /\ UNCHANGED <<head, seen, reviewed, late, at>>
      BY <1>1, <2>3 DEF Fault, local, checkouts, TypeOK
    <3> QED BY <1>1, <1>2, <2>1, <2>3, <3>1, DecidedFollowed DEF Apply
  <2> QED BY <1>18, <2>2, <2>3 DEF Landed
<1>19. CASE Validate(q)
  <2>1. pc[q] = "validate"
    BY <1>19 DEF Validate
  <2>2. CASE Verdict(q, "updated") /\ UNCHANGED <<checkouts, local, late>>
    <3>1. UNCHANGED <<head, seen, reviewed, late, at>>
      BY <2>2 DEF local, checkouts
    <3>2. at[q] \notin late[q] => head[at[q]] = reviewed[q][at[q]]
      BY <1>1, <2>1 DEF Followed, Pinned, Apply
    <3> QED BY <1>1, <1>2, <2>1, <2>2, <3>1, <3>2, DecidedFollowed DEF Apply
  <2> QED BY <1>7, <1>19, <2>1, <2>2 DEF Validate, Apply
<1>20. CASE Reset(q)
  <2>1. pc[q] = "reset" /\ at[q] \in Plugin
    BY <1>1, <1>20 DEF Reset, Pinned, Apply
  <2>2. Verdict(q, "failed") /\ UNCHANGED <<seen, reviewed, at>>
    BY <1>20 DEF Reset, local
  <2>3. late'[q] = late[q]
    BY <1>1, <1>20 DEF Reset, Disturb, TypeOK
  <2>4. \A o \in Plugin : o # at[q] => head'[o] = head[o]
    BY <1>1, <1>20 DEF Reset, checkouts, TypeOK
  <2>5. faults' = 0 => head'[at[q]] = seen[q][at[q]].current
    BY <1>1, <1>20, <2>1 DEF Reset, Fault, TypeOK
  <2> QED BY <1>1, <1>2, <2>1, <2>2, <2>3, <2>4, <2>5, DecidedFollowed DEF Apply
<1> QED
  BY <1>8, <1>9, <1>10, <1>10a, <1>11, <1>12, <1>13, <1>14, <1>15,
     <1>16, <1>17, <1>18, <1>19, <1>20 DEF Step

-----------------------------------------------------------------------------
(* The theorems.                                                           *)

Acts(q) ==
  \/ \E ps \in SUBSET Plugin, every \in BOOLEAN : Begin(q, ps, every)
  \/ Step(q) \/ Crash(q)

Outside ==
  \E p \in Plugin :
    \/ Edit(p)
    \/ \E w \in Work : Keep(p, w)
    \/ \E r \in SUBSET Commit : Move(p, r)

LEMMA OutsideKeeps ==
  ASSUME UpdatesInv, Outside \/ UNCHANGED vars, NEW r \in Process
  PROVE  Pinned(r)' /\ Watched(r)' /\ Followed(r)'
<1>1. TypeOK /\ Pinned(r) /\ Watched(r) /\ Followed(r)
  BY DEF UpdatesInv
<1>2. UNCHANGED <<pc, locals>>
  BY DEF Outside, Edit, Keep, Move, Touch, vars
<1>3. Pinned(r)'
  BY <1>1, <1>2, Unmoved DEF locals
<1>4. ASSUME NEW p \in Plugin, Touch(p), pc[r] \in Doing
      PROVE  late'[r] = late[r] \cup {p}
  BY <1>1, <1>4 DEF Touch, Doing, TypeOK
<1>5. ASSUME NEW p \in Plugin, Edit(p) PROVE Watched(r)'
  <2>1. UNCHANGED head /\ edited' = edited \cup {p} /\ Touch(p)
    BY <1>5 DEF Edit
  <2>2. pc'[r] = pc[r] /\ at'[r] = at[r] /\ seen'[r] = seen[r]
    BY <1>2 DEF locals
  <2>3. pc[r] \in Doing => late'[r] = late[r] \cup {p}
    BY <1>4, <2>1
  <2>4. at[r] # p => (at[r] \in edited' => at[r] \in edited)
    BY <2>1
  <2>5. pc[r] \in Doing =>
          /\ late[r] \subseteq late'[r]
          /\ \/ at[r] \in late'[r]
             \/ /\ head'[at[r]] = head[at[r]]
                /\ at[r] \in edited' => at[r] \in edited
    <3>1. CASE at[r] = p
      BY <2>3, <3>1
    <3>2. CASE at[r] # p
      BY <2>1, <2>3, <2>4, <3>2
    <3> QED BY <3>1, <3>2
  <2> QED BY <1>1, <2>2, <2>5, SameWatched
<1>6. ASSUME NEW p \in Plugin, NEW w \in Work, Keep(p, w) PROVE Watched(r)'
  <2>1. edited' \subseteq edited /\ Touch(p)
    BY <1>6 DEF Keep
  <2>2. at[r] # p => head'[at[r]] = head[at[r]]
    BY <1>1, <1>6 DEF Keep, TypeOK
  <2> QED BY <1>1, <1>2, <1>4, <2>1, <2>2, SameWatched DEF locals
<1>7. UNCHANGED <<checkouts, late>> => Watched(r)'
  BY <1>1, <1>2, SameWatched DEF checkouts, locals
<1>8. faults' = 0 => faults = 0
  BY NoFaultsBefore, <1>1 DEF Outside, Edit, Keep, Move, Touch, NoFault, vars
<1>9. ASSUME NEW p \in Plugin, Edit(p) \/ \E w \in Work : Keep(p, w)
      PROVE  Followed(r)'
  <2>1. Touch(p) /\ \A o \in Plugin : o # p => head'[o] = head[o]
    BY <1>1, <1>9 DEF Edit, Keep, TypeOK
  <2>2. pc[r] # "idle" => late'[r] = late[r] \cup {p}
    BY <1>1, <2>1 DEF Touch, TypeOK
  <2> QED BY <1>1, <1>2, <1>8, <2>1, <2>2, SameFollowed DEF locals
<1>10. UNCHANGED <<checkouts, late>> => Followed(r)'
  BY <1>1, <1>2, <1>8, SameFollowed DEF checkouts, locals
<1> QED
  BY <1>3, <1>5, <1>6, <1>7, <1>9, <1>10 DEF Outside, Move, vars

LEMMA Inductive == UpdatesInv /\ [Next]_vars => UpdatesInv'
<1> SUFFICES ASSUME UpdatesInv, [Next]_vars PROVE UpdatesInv'
  OBVIOUS
<1>1. TypeOK' /\ HeadIsValid'
  BY Typed, Heads
<1>2. ASSUME NEW r \in Process PROVE Pinned(r)' /\ Watched(r)' /\ Followed(r)'
  <2>1. CASE Outside \/ UNCHANGED vars
    BY <2>1, OutsideKeeps
  <2>2. ASSUME NEW q \in Process, Acts(q)
        PROVE  Pinned(r)' /\ Watched(r)' /\ Followed(r)'
    <3>1. CASE q = r
      BY <2>2, <3>1, OwnPinned, OwnWatched, OwnFollowed DEF Acts
    <3>2. CASE q # r
      <4>1. Pinned(r)'
        BY <2>2, <3>2, OwnOnly, Unmoved DEF Acts, UpdatesInv
      <4>2. Watched(r)'
        BY <2>2, <3>2, OthersWatched DEF Acts
      <4>3. Followed(r)'
        BY <2>2, <3>2, OthersFollowed DEF Acts
      <4> QED BY <4>1, <4>2, <4>3
    <3> QED BY <3>1, <3>2
  <2> QED BY <2>1, <2>2 DEF Next, Acts, Outside
<1> QED BY <1>1, <1>2 DEF UpdatesInv

LEMMA Initial == Init => UpdatesInv
<1> SUFFICES ASSUME Init PROVE UpdatesInv
  OBVIOUS
<1>1. [p \in Plugin |-> Nothing] \in [Plugin -> Finding]
  BY NothingFound
<1>2. LocalsOK
  <2>1. seen \in [Process -> [Plugin -> Finding]]
    BY <1>1 DEF Init
  <2> QED BY <2>1 DEF Init, LocalsOK, Steps, Verdicts
<1>3. SharedOK /\ CountersOK
  BY BoundAssumption DEF Init, SharedOK, CountersOK, Revision
<1>4. HeadIsValid
  BY DEF Init, HeadIsValid, Valid
<1>5. ASSUME NEW q \in Process PROVE Pinned(q) /\ Watched(q) /\ Followed(q)
  BY DEF Init, Pinned, Watched, Followed, Nothing, Apply
<1> QED BY <1>2, <1>3, <1>4, <1>5, TypeParts DEF UpdatesInv

\* Whatever fails, dies or changes, and whoever else updates, no revision is
\* ever checked out with which a plugin does not validate, as long as what the
\* user commits keeps it valid.
THEOREM Invariant == Spec => []UpdatesInv
BY Initial, Inductive, PTL DEF Spec

\* A command moves a checkout only forward to the revision it was given, or
\* back to the one it found.
THEOREM ReviewedOnly == Spec => OnlyReviewed
<1>1. UpdatesInv /\ Next =>
        \A p \in Plugin : head'[p] # head[p] =>
          \/ \E w \in Work : head'[p] = head[p] \cup {w}
          \/ \E q \in Process :
               /\ pc'[q] # pc[q] /\ at[q] = p
               /\ \/ head'[p] = reviewed[q][p] /\ head[p] \subseteq head'[p]
                  \/ head'[p] = seen[q][p].current
  <2> SUFFICES ASSUME UpdatesInv, Next, NEW p \in Plugin, head'[p] # head[p]
               PROVE  \/ \E w \in Work : head'[p] = head[p] \cup {w}
                      \/ \E q \in Process :
                           /\ pc'[q] # pc[q] /\ at[q] = p
                           /\ \/ head'[p] = reviewed[q][p] /\ head[p] \subseteq head'[p]
                              \/ head'[p] = seen[q][p].current
    OBVIOUS
  <2>1. TypeOK /\ \A q \in Process : Pinned(q)
    BY DEF UpdatesInv
  <2>2. ASSUME NEW q \in Process, Merged(q)
        PROVE  /\ pc'[q] # pc[q] /\ at[q] = p
               /\ head'[p] = reviewed[q][p] /\ head[p] \subseteq head'[p]
    BY <2>1, <2>2 DEF Merged, Pinned, Apply, TypeOK
  <2>3. ASSUME NEW q \in Process, TakenBack(q)
        PROVE  pc'[q] # pc[q] /\ at[q] = p /\ head'[p] = seen[q][p].current
    BY <2>1, <2>3 DEF TakenBack, TypeOK
  <2>4. ASSUME NEW o \in Plugin, NEW w \in Work, Keep(o, w)
        PROVE  head'[p] = head[p] \cup {w}
    BY <2>1, <2>4 DEF Keep, TypeOK
  <2>5. ASSUME NEW o \in Plugin, Edit(o) \/ \E r \in SUBSET Commit : Move(o, r)
        PROVE  FALSE
    BY <2>5 DEF Edit, Move, checkouts
  <2>6. ASSUME NEW q \in Process, Acts(q) PROVE Merged(q) \/ TakenBack(q)
    BY <2>6, Moves DEF Acts, Passed, checkouts
  <2> QED BY <2>2, <2>3, <2>4, <2>5, <2>6 DEF Next, Acts
<1> QED BY <1>1, Invariant, PTL DEF Spec, OnlyReviewed

\* What the user edits or commits is lost only to a command that resets, and
\* only if it was done, or another command moved the plugin, after the last
\* look of that command.
THEOREM UserWorkKept == Spec => WorkKept
<1>1. UpdatesInv /\ Next =>
        \A p \in Plugin : Lost(p) =>
          \E q \in Process :
            pc[q] = "reset" /\ pc'[q] # pc[q] /\ at[q] = p /\ p \in late[q]
  <2> SUFFICES ASSUME UpdatesInv, Next, NEW p \in Plugin, Lost(p)
               PROVE  \E q \in Process :
                        pc[q] = "reset" /\ pc'[q] # pc[q] /\ at[q] = p /\ p \in late[q]
    OBVIOUS
  <2>1. TypeOK /\ \A q \in Process : Pinned(q) /\ Watched(q)
    BY DEF UpdatesInv
  <2>2. UNCHANGED checkouts => FALSE
    BY DEF Lost, checkouts
  <2>3. ASSUME NEW q \in Process, Merged(q) PROVE FALSE
    BY <2>1, <2>3 DEF Merged, Lost, TypeOK
  <2>4. ASSUME NEW q \in Process, TakenBack(q)
        PROVE  pc[q] = "reset" /\ pc'[q] # pc[q] /\ at[q] = p /\ p \in late[q]
    <3>1. at[q] = p
      BY <2>1, <2>4 DEF TakenBack, Lost, TypeOK
    <3>2. CASE p \notin late[q]
      <4>1. /\ p \notin edited
            /\ head[p] \in {seen[q][p].current, seen[q][p].remote}
            /\ head'[p] = seen[q][p].current
        BY <2>1, <2>4, <3>1, <3>2 DEF TakenBack, Watched, TypeOK
      <4>2. seen[q][p].remote # Unknown /\ seen[q][p].remote \subseteq Commit
        BY <2>1, <2>4, <3>1 DEF TakenBack, Pinned, Watched, Apply
      <4>3. head[p] \cap Work \subseteq head'[p]
        BY <4>1, <4>2, CommitAssumption
      <4> QED BY <4>1, <4>3 DEF Lost
    <3> QED BY <2>4, <3>1, <3>2 DEF TakenBack
  <2>5. ASSUME NEW o \in Plugin, NEW w \in Work, Keep(o, w) PROVE FALSE
    <3>1. head[p] \subseteq head'[p] /\ (o = p => w \in head'[p] /\ w \notin head[p])
      BY <2>1, <2>5 DEF Keep, TypeOK
    <3>2. edited' = edited \ {o}
      BY <2>5 DEF Keep
    <3> QED BY <3>1, <3>2 DEF Lost
  <2>6. ASSUME NEW o \in Plugin, Edit(o) \/ \E r \in SUBSET Commit : Move(o, r)
        PROVE  FALSE
    BY <2>2, <2>6 DEF Edit, Move, Lost, checkouts
  <2>7. ASSUME NEW q \in Process, Acts(q) PROVE TakenBack(q)
    BY <2>2, <2>3, <2>7, Moves DEF Acts, Passed
  <2> QED BY <2>4, <2>5, <2>6, <2>7 DEF Next, Acts
<1> QED BY <1>1, Invariant, PTL DEF Spec, WorkKept

LEMMA FailedKeepsSeen ==
  ASSUME TypeOK, NEW q \in Process, Acts(q), NEW p \in Plugin,
         done[q][p] # "failed", done'[q][p] = "failed"
  PROVE  UNCHANGED seen
<1>1. UNCHANGED done => FALSE
  OBVIOUS
<1>2. GiveUp(q) => UNCHANGED seen
  BY DEF GiveUp, local
<1>3. ASSUME NEW l, GoOn(q, l) PROVE FALSE
  BY <1>1, <1>3 DEF GoOn
<1>4. ASSUME NEW o, Finish(q, o) PROVE FALSE
  BY <1>4 DEF Finish, TypeOK
<1>5. CASE Merge(q) \/ Reset(q)
  BY <1>2, <1>3, <1>5 DEF Merge, Reset, local
<1>6. CASE CheckHead(q) \/ CheckClean(q) \/ Stage(q)
  BY <1>2, <1>3, <1>6 DEF CheckHead, CheckClean, Stage
<1>7. CASE Landed(q) \/ Validate(q)
  BY <1>2, <1>3, <1>7 DEF Landed, Validate, local
<1>8. CASE AllDone(q) \/ Rescan(q) \/ Crash(q)
  BY <1>1, <1>4, <1>8 DEF AllDone, Rescan, Crash, locals
<1>9. CASE Fetch(q) \/ Resolve(q) \/ Count(q) \/ \E o \in Plugin : Look(q, o) \/ Choose(q, o)
  BY <1>1, <1>9 DEF Fetch, Resolve, Count, FailInspection, Look, Choose
<1>10. CASE \E ps \in SUBSET Plugin, every \in BOOLEAN : Begin(q, ps, every)
  BY <1>1, <1>10 DEF Begin
<1> QED
  BY <1>5, <1>6, <1>7, <1>8, <1>9, <1>10 DEF Acts, Step

\* A plugin reported failed is as it was found, unless others changed it or the
\* command that failed had an effect.
THEOREM FailureUndone == Spec => FailedIsUndone
<1>1. UpdatesInv /\ UpdatesInv' /\ Next =>
        \A q \in Process, p \in Plugin :
          /\ done[q][p] # "failed" /\ done'[q][p] = "failed"
          /\ p \notin late'[q] /\ faults' = 0 /\ seen[q][p].current # Unknown
          => head'[p] = seen[q][p].current
  <2> SUFFICES ASSUME UpdatesInv, UpdatesInv', Next, NEW q \in Process, NEW p \in Plugin,
                      done[q][p] # "failed", done'[q][p] = "failed",
                      p \notin late'[q], faults' = 0, seen[q][p].current # Unknown
               PROVE  head'[p] = seen[q][p].current
    OBVIOUS
  <2>1. TypeOK /\ Followed(q)'
    BY DEF UpdatesInv
  <2>2. ASSUME NEW r \in Process, Acts(r) PROVE UNCHANGED seen
    <3>1. CASE r = q
      BY <2>1, <2>2, <3>1, FailedKeepsSeen
    <3>2. CASE r # q
      BY <2>1, <2>2, <3>2, OwnOnly DEF Acts
    <3> QED BY <3>1, <3>2
  <2>3. Outside => FALSE
    BY DEF Outside, Edit, Keep, Move, Touch, locals
  <2>4. UNCHANGED seen
    BY <2>2, <2>3 DEF Next, Acts, Outside
  <2>5. pc'[q] \in Apply => p # at'[q]
    BY <2>1 DEF Followed
  <2> QED BY <2>1, <2>4, <2>5 DEF Followed, Apply
<1> QED BY <1>1, Invariant, PTL DEF Spec, FailedIsUndone

LEMMA EndsOnly ==
  ASSUME TypeOK, NEW q \in Process, Acts(q), pc[q] # "idle", pc'[q] = "idle"
  PROVE  \/ Rescan(q)
         \/ Crash(q)
         \/ AllDone(q) /\ Updated(q) = {}
<1>1. ASSUME NEW l, l # "idle", Goto(q, l) PROVE FALSE
  BY <1>1 DEF Goto, TypeOK
<1>2. ASSUME NEW d, Verdict(q, d) PROVE FALSE
  BY <1>1, <1>2 DEF Verdict
<1>3. GiveUp(q) => FALSE
  BY <1>2 DEF GiveUp
<1>4. ASSUME NEW l, l # "idle", GoOn(q, l) PROVE FALSE
  BY <1>1, <1>4 DEF GoOn
<1>5. ASSUME NEW p, NEW f, Inspected(q, p, f) PROVE FALSE
  BY <1>1, <1>5 DEF Inspected
<1>6. CASE Merge(q) \/ Reset(q)
  BY <1>1, <1>2, <1>3, <1>4, <1>6 DEF Merge, Reset
<1>7. CASE CheckHead(q) \/ CheckClean(q) \/ Stage(q)
  BY <1>3, <1>4, <1>7 DEF CheckHead, CheckClean, Stage
<1>8. CASE Landed(q) \/ Validate(q)
  BY <1>2, <1>4, <1>8 DEF Landed, Validate
<1>9. CASE Fetch(q) \/ Resolve(q) \/ Count(q)
  BY <1>1, <1>5, <1>9 DEF Fetch, Resolve, Count, FailInspection
<1>10. ASSUME NEW p \in Plugin, Look(q, p) PROVE FALSE
  BY <1>1, <1>5, <1>10 DEF Look
<1>11. ASSUME NEW p \in Plugin, Choose(q, p) PROVE FALSE
  BY <1>1, <1>11 DEF Choose
<1>12. CASE \E ps \in SUBSET Plugin, every \in BOOLEAN : Begin(q, ps, every)
  BY <1>12 DEF Begin
<1>13. CASE AllDone(q)
  BY <1>1, <1>13 DEF AllDone
<1> QED
  BY <1>6, <1>7, <1>8, <1>9, <1>10, <1>11, <1>12, <1>13 DEF Acts, Step

\* When an update reports success, the shell has loaded the reviewed revision
\* of each plugin it updated and nobody else changed.
THEOREM Served == Spec => UpdatedIsServed
<1>1. UpdatesInv /\ Next =>
        \A q \in Process :
          pc[q] # "idle" /\ pc'[q] = "idle" /\ outcome' = "ok" =>
            \A p \in Updated(q) \ late[q] :
              loaded'[p] = reviewed[q][p] /\ head'[p] = reviewed[q][p]
  <2> SUFFICES ASSUME UpdatesInv, Next, NEW q \in Process,
                      pc[q] # "idle", pc'[q] = "idle", outcome' = "ok",
                      NEW p \in Updated(q), p \notin late[q]
               PROVE  loaded'[p] = reviewed[q][p] /\ head'[p] = reviewed[q][p]
    OBVIOUS
  <2>1. TypeOK /\ Followed(q)
    BY DEF UpdatesInv
  <2>2. Outside => FALSE
    BY DEF Outside, Edit, Keep, Move, Touch
  <2>3. ASSUME NEW r \in Process, Acts(r) PROVE r = q
    BY <2>1, <2>3, OwnOnly DEF Acts
  <2>4. Rescan(q) \/ Crash(q) \/ (AllDone(q) /\ Updated(q) = {})
    BY <2>1, <2>2, <2>3, EndsOnly DEF Next, Acts, Outside
  <2>5. ASSUME NEW o, Finish(q, o) PROVE o = "ok"
    BY <2>5 DEF Finish
  <2>6. Crash(q) => FALSE
    BY <2>5 DEF Crash
  <2>7. loaded' = head /\ UNCHANGED head
    BY <2>4, <2>5, <2>6 DEF Rescan, checkouts
  <2>8. head[p] = reviewed[q][p]
    BY <2>1 DEF Followed, Updated, Chosen
  <2> QED BY <2>7, <2>8
<1> QED BY <1>1, Invariant, PTL DEF Spec, UpdatedIsServed

=============================================================================
