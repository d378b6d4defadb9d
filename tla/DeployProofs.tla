---------------------------- MODULE DeployProofs ----------------------------
(***************************************************************************)
(* What holds of Deploy for every set of processes and directories and     *)
(* every bound: its types, that a settled link agrees with the receipt,    *)
(* what a command that ended has done, and that the receipt changes as     *)
(* DeploymentLog promises.  The last part is about the copy that a         *)
(* snapshot deployment takes first.                                        *)
(***************************************************************************)
EXTENDS Deploy, Snapshot, SequenceTheorems, TLAPS

-----------------------------------------------------------------------------
(* Receipts                                                                *)

\* A receipt that exists has an active directory.
LEMMA ReceiptFields ==
  ASSUME NEW r \in Receipt
  PROVE  /\ r.hist \in Seq(Targets) /\ r.act \in 0 .. Len(r.hist)
         /\ Len(r.hist) \in Nat
         /\ r = [hist |-> r.hist, act |-> r.act]
         /\ r # NoReceipt <=> r.act > 0
         /\ r # NoReceipt => Active(r) \in Targets
<1>1. /\ r.hist \in Seq(Targets) /\ r.act \in 0 .. Len(r.hist)
      /\ r.act = 0 <=> r.hist = << >>
      /\ r = [hist |-> r.hist, act |-> r.act]
  BY DEF Receipt
<1>2. Len(r.hist) \in Nat
  BY <1>1
<1>3. r # NoReceipt <=> r.act > 0
  BY <1>1, <1>2 DEF NoReceipt
<1>4. r.act > 0 => r.hist[r.act] \in Targets
  BY <1>1, <1>2
<1> QED
  BY <1>1, <1>2, <1>3, <1>4 DEF Active

\* The receipt that is not there is a receipt.
LEMMA NoReceiptType == NoReceipt \in Receipt
<1>1. << >> \in Seq(Targets) /\ Len(<< >>) = 0
  OBVIOUS
<1> QED
  BY <1>1 DEF NoReceipt, Receipt

\* switch_deployment truncates and appends: the result is a receipt, active
\* at the new directory, that agrees with the old one up to its active entry.
LEMMA PushReceipt ==
  ASSUME NEW r \in Receipt, NEW t \in Targets
  PROVE  /\ Push(r, t) \in Receipt
         /\ Push(r, t) # NoReceipt
         /\ Active(Push(r, t)) = t
         /\ Push(r, t) = [hist |-> [i \in 1 .. r.act + 1 |->
                                      IF i <= r.act THEN r.hist[i] ELSE t],
                          act |-> r.act + 1]
<1> DEFINE s == SubSeq(r.hist, 1, r.act)
           h == Append(s, t)
<1>1. r.hist \in Seq(Targets) /\ r.act \in 0 .. Len(r.hist) /\ Len(r.hist) \in Nat
  BY ReceiptFields
<1>2. \A i \in 1 .. r.act : r.hist[i] \in Targets
  BY <1>1
<1>3. /\ s \in Seq(Targets)
      /\ Len(s) = r.act
      /\ \A i \in 1 .. r.act : s[i] = r.hist[i]
  BY <1>1, <1>2, SubSeqProperties
<1> HIDE DEF s
<1>4. /\ h \in Seq(Targets) /\ h # << >> /\ Len(h) = r.act + 1
      /\ \A i \in 1 .. r.act : h[i] = r.hist[i]
      /\ h[r.act + 1] = t
  BY <1>1, <1>3, AppendProperties
<1>5. Push(r, t) = [hist |-> h, act |-> r.act + 1]
  BY DEF Push, s
<1> HIDE DEF h
<1>6. Push(r, t) \in Receipt
  BY <1>1, <1>4, <1>5 DEF Receipt
<1>7. Push(r, t) # NoReceipt
  BY <1>4, <1>5 DEF NoReceipt
<1>8. Active(Push(r, t)) = t
  BY <1>4, <1>5 DEF Active
<1>9. h = [i \in 1 .. r.act + 1 |-> IF i <= r.act THEN r.hist[i] ELSE t]
  <2>1. h = [i \in 1 .. Len(h) |-> h[i]]
    BY <1>4
  <2>2. \A i \in 1 .. r.act + 1 : h[i] = IF i <= r.act THEN r.hist[i] ELSE t
    BY <1>1, <1>4
  <2> QED
    BY <2>1, <2>2, <1>4
<1> QED
  BY <1>5, <1>6, <1>7, <1>8, <1>9

\* rollback moves the index back by one and keeps the history.
LEMMA StepBackReceipt ==
  ASSUME NEW r \in Receipt, r.act > 1
  PROVE  /\ StepBack(r) \in Receipt
         /\ StepBack(r) # NoReceipt
         /\ Active(StepBack(r)) = r.hist[r.act - 1]
         /\ r.hist[r.act - 1] \in Targets
         /\ StepBack(r) = [hist |-> r.hist, act |-> r.act - 1]
<1>1. /\ r.hist \in Seq(Targets) /\ r.act \in 0 .. Len(r.hist)
      /\ Len(r.hist) \in Nat /\ r = [hist |-> r.hist, act |-> r.act]
  BY ReceiptFields
<1>2. StepBack(r) = [hist |-> r.hist, act |-> r.act - 1]
  BY <1>1 DEF StepBack
<1>3. r.hist # << >> /\ r.act - 1 \in 1 .. Len(r.hist)
  BY <1>1
<1>4. StepBack(r) \in Receipt
  BY <1>1, <1>2, <1>3 DEF Receipt
<1>5. StepBack(r) # NoReceipt
  BY <1>2, <1>3 DEF NoReceipt
<1>6. Active(StepBack(r)) = r.hist[r.act - 1] /\ r.hist[r.act - 1] \in Targets
  BY <1>1, <1>2, <1>3 DEF Active
<1> QED
  BY <1>2, <1>4, <1>5, <1>6

-----------------------------------------------------------------------------
(* The inductive invariant                                                 *)

\* A directory is never mistaken for what other tools put at the path.
LEMMA Kinds ==
  /\ Live \in Targets /\ Absent \notin Targets
  /\ \A v \in Foreign : v \notin Targets
BY PathAssumption DEF Targets, Foreign, Absent

\* What a command about to publish or to undo will write is a receipt.
LEMMA Written ==
  ASSUME TypeOK, SwitchInv, NEW p \in Proc
  PROVE  /\ pc[p] \in {"journal", "swing", "save", "commit"} =>
              /\ Planned(p) \in Receipt /\ Planned(p) # NoReceipt
              /\ Active(Planned(p)) = dst[p]
         /\ dst[p] \in Targets /\ prev[p] \in Receipt
<1>1. dst[p] \in Targets /\ prev[p] \in Receipt
  BY DEF TypeOK
<1>2. ASSUME pc[p] \in {"journal", "swing", "save", "commit"}
      PROVE  /\ Planned(p) \in Receipt /\ Planned(p) # NoReceipt
             /\ Active(Planned(p)) = dst[p]
  <2>1. CASE cmd[p] = "rollback"
    <3>1. prev[p].act > 1 /\ dst[p] = prev[p].hist[prev[p].act - 1]
      BY <1>2, <2>1 DEF SwitchInv, OnDisk
    <3> QED
      BY <1>1, <2>1, <3>1, StepBackReceipt DEF Planned
  <2>2. CASE cmd[p] # "rollback"
    BY <1>1, <2>2, PushReceipt DEF Planned
  <2> QED
    BY <2>1, <2>2
<1> QED
  BY <1>1, <1>2

\* A command that goes on leaves the others idle.
LEMMA GoesOn ==
  ASSUME TypeOK, SwitchInv, NEW p \in Proc, pc[p] # "idle",
         NEW l \in Steps \ {"idle"}, Goto(p, l), lock' = lock,
         OnDisk(p)', LinkMatchesReceipt'
  PROVE  SwitchInv'
<1>1. pc' = [pc EXCEPT ![p] = l] /\ pc \in [Proc -> Steps]
  BY DEF Goto, TypeOK
<1>2. OneCommand'
  BY <1>1 DEF SwitchInv, OneCommand
<1>3. \A q \in Proc \ {p} : pc[q] = "idle"
  BY DEF SwitchInv, OneCommand
<1>4. \A q \in Proc \ {p} : pc'[q] = "idle"
  BY <1>1, <1>3
<1>5. \A q \in Proc \ {p} : OnDisk(q)'
  BY <1>4 DEF OnDisk
<1> QED
  BY <1>2, <1>5 DEF SwitchInv

\* A command that ends leaves nobody at any step.
LEMMA Ends ==
  ASSUME TypeOK, SwitchInv, NEW p \in Proc, pc[p] # "idle",
         NEW o, Finish(p, o), LinkMatchesReceipt'
  PROVE  SwitchInv'
<1>1. /\ pc' = [pc EXCEPT ![p] = "idle"] /\ lock' = lock \ {p}
      /\ pc \in [Proc -> Steps]
  BY DEF Finish, Goto, TypeOK
<1>2. OneCommand'
  BY <1>1 DEF SwitchInv, OneCommand
<1>3. \A q \in Proc : pc'[q] = "idle"
  BY <1>1 DEF SwitchInv, OneCommand
<1>4. \A q \in Proc : OnDisk(q)'
  BY <1>3 DEF OnDisk
<1> QED
  BY <1>2, <1>4 DEF SwitchInv

\* Every step keeps the types; what is written is known from SwitchInv.
LEMMA TypeStep == TypeOK /\ SwitchInv /\ [Next]_vars => TypeOK'
<1> SUFFICES ASSUME TypeOK, SwitchInv, [Next]_vars
             PROVE  TypeOK'
  OBVIOUS
<1> USE BoundAssumption, Kinds, NoReceiptType
<1>1. ASSUME NEW p \in Proc, NEW o \in {"ok", "error", "restored"}, Finish(p, o),
             UNCHANGED dirs, faults' \in 0 .. MaxFaults, UNCHANGED <<touches, calm>>,
             link' \in Targets \cup Foreign \cup {Absent},
             receipt' \in Receipt, journal' \in Journal
      PROVE  TypeOK'
  BY <1>1 DEF TypeOK, Finish, Goto, Steps
<1>2. ASSUME Fault
      PROVE  faults' \in 0 .. MaxFaults /\ UNCHANGED <<touches, calm>>
  BY <1>2 DEF Fault, TypeOK
<1>3. NoJournal \in Journal /\ \A r \in Receipt : [open |-> TRUE, prev |-> r] \in Journal
  BY DEF NoJournal, Journal
<1>4. journal.prev \in Receipt
  BY DEF TypeOK, Journal
<1>5. ASSUME NEW p \in Proc, AfterRecovery(p), UNCHANGED <<link, receipt, dirs, bounds>>,
             journal' \in Journal
      PROVE  TypeOK'
  <2>1. CASE cmd[p] = "abort"
    BY <1>1, <1>5, <2>1 DEF AfterRecovery, bounds, TypeOK
  <2>2. CASE cmd[p] # "abort"
    BY <1>5, <2>2 DEF AfterRecovery, Goto, Running, locals, bounds, TypeOK, Steps
  <2> QED
    BY <2>1, <2>2
<1>6. ASSUME NEW p \in Proc, NEW c \in Commands, Acquire(p, c)
      PROVE  TypeOK'
  BY <1>6 DEF Acquire, Goto, files, bounds, TypeOK, Steps, Commands
<1>7. ASSUME NEW p \in Proc, Recover(p)
      PROVE  TypeOK'
  <2>1. CASE ~journal.open /\ AfterRecovery(p)
    BY <1>5, <1>7, <2>1 DEF Recover, files, bounds, TypeOK
  <2>2. CASE journal.open
    BY <1>7, <2>2 DEF Recover, Goto, Running, files, locals, bounds, TypeOK, Steps
  <2> QED
    BY <1>7, <2>1, <2>2 DEF Recover
<1>8. ASSUME NEW p \in Proc, Relink(p)
      PROVE  TypeOK'
  <2>1. Active(journal.prev) \in Targets
    BY <1>4, <1>8, ReceiptFields DEF SwitchInv, OnDisk, Relink
  <2>2. CASE Goto(p, "restore")
    BY <1>8, <2>1, <2>2 DEF Relink, Goto, Running, Finish, locals, bounds, TypeOK, Steps
  <2>3. CASE Finish(p, "error")
    BY <1>1, <1>2, <1>8, <2>1, <2>3 DEF Relink, bounds, TypeOK
  <2> QED
    BY <1>8, <2>2, <2>3 DEF Relink
<1>9. ASSUME NEW p \in Proc, DropLink(p)
      PROVE  TypeOK'
  <2>1. CASE Goto(p, "restore")
    BY <1>9, <2>1 DEF DropLink, Goto, Running, Finish, locals, bounds, TypeOK, Steps
  <2>2. CASE Finish(p, "error")
    BY <1>1, <1>2, <1>9, <2>2 DEF DropLink, bounds, TypeOK
  <2> QED
    BY <1>9, <2>1, <2>2 DEF DropLink
<1>10. ASSUME NEW p \in Proc, Restore(p)
       PROVE  TypeOK'
  <2>1. CASE Goto(p, "close")
    BY <1>4, <1>10, <2>1 DEF Restore, Goto, Running, Finish, locals, bounds, TypeOK, Steps
  <2>2. CASE Finish(p, "error")
    BY <1>1, <1>2, <1>4, <1>10, <2>2 DEF Restore, bounds, TypeOK
  <2> QED
    BY <1>10, <2>1, <2>2 DEF Restore
<1>11. ASSUME NEW p \in Proc, Close(p)
       PROVE  TypeOK'
  <2>1. CASE journal' = NoJournal /\ AfterRecovery(p) /\ UNCHANGED bounds
    BY <1>3, <1>5, <1>11, <2>1 DEF Close
  <2>2. CASE Fault /\ journal' \in {journal, NoJournal} /\ Finish(p, "error")
    BY <1>1, <1>2, <1>3, <1>11, <2>2 DEF Close, TypeOK
  <2> QED
    BY <1>11, <2>1, <2>2 DEF Close
<1>12. ASSUME NEW p \in Proc, Refuse(p)
       PROVE  TypeOK'
  BY <1>1, <1>12 DEF Refuse, files, bounds, TypeOK
<1>13. ASSUME NEW p \in Proc, ValidateLive(p)
       PROVE  TypeOK'
  BY <1>12, <1>13 DEF ValidateLive, Goto, Running, files, bounds, TypeOK, Steps
<1>14. ASSUME NEW p \in Proc, StageSnapshot(p)
       PROVE  TypeOK'
  BY <1>12, <1>14 DEF StageSnapshot, Goto, Running, files, bounds, TypeOK, Steps, Targets
<1>15. ASSUME NEW p \in Proc, Switch(p)
       PROVE  TypeOK'
  BY <1>12, <1>15 DEF Switch, Goto, Running, files, bounds, TypeOK, Steps
<1>16. ASSUME NEW p \in Proc, RollBack(p)
       PROVE  TypeOK'
  <2>1. receipt.act > 1 => receipt.hist[receipt.act - 1] \in Targets
    BY StepBackReceipt DEF TypeOK
  <2> QED
    BY <1>12, <1>16, <2>1 DEF RollBack, Goto, Running, files, bounds, TypeOK, Steps
<1>17. ASSUME NEW p \in Proc, Undeploy(p)
       PROVE  TypeOK'
  BY <1>12, <1>17 DEF Undeploy, Goto, Running, files, locals, bounds, TypeOK, Steps
<1>18. ASSUME NEW p \in Proc, Remove(p)
       PROVE  TypeOK'
  BY <1>1, <1>2, <1>18 DEF Remove, bounds, TypeOK
<1>19. ASSUME NEW p \in Proc, Status(p)
       PROVE  TypeOK'
  BY <1>1, <1>19 DEF Status, files, bounds, TypeOK
<1>20. ASSUME NEW p \in Proc, WriteJournal(p)
       PROVE  TypeOK'
  <2>1. [open |-> TRUE, prev |-> prev[p]] \in Journal
    BY <1>3, Written
  <2>2. CASE Goto(p, "swing")
    BY <1>20, <2>1, <2>2 DEF WriteJournal, Goto, Running, Finish, locals, bounds, TypeOK, Steps
  <2>3. CASE Finish(p, "error")
    BY <1>1, <1>2, <1>20, <2>1, <2>3 DEF WriteJournal, bounds, TypeOK
  <2> QED
    BY <1>20, <2>2, <2>3 DEF WriteJournal
<1>21. ASSUME NEW p \in Proc, Abort(p), UNCHANGED <<journal, dirs>>,
              link' \in Targets \cup Foreign \cup {Absent}, receipt' \in Receipt,
              faults' \in 0 .. MaxFaults, UNCHANGED <<touches, calm>>
       PROVE  TypeOK'
  BY <1>21 DEF Abort, Goto, Running, TypeOK, Steps
<1>22. ASSUME NEW p \in Proc, Swing(p)
       PROVE  TypeOK'
  <2>1. dst[p] \in Targets
    BY Written
  <2>2. CASE Goto(p, "save") /\ Running /\ UNCHANGED <<locals, bounds>>
    BY <1>22, <2>1, <2>2 DEF Swing, Goto, Running, locals, bounds, TypeOK, Steps
  <2>3. CASE Abort(p)
    BY <1>2, <1>21, <1>22, <2>1, <2>3 DEF Swing, bounds, TypeOK
  <2> QED
    BY <1>22, <2>2, <2>3 DEF Swing
<1>23. ASSUME NEW p \in Proc, Save(p)
       PROVE  TypeOK'
  <2>1. Planned(p) \in Receipt
    BY <1>23, Written DEF Save
  <2>2. CASE Goto(p, "commit") /\ Running /\ UNCHANGED <<locals, bounds>>
    BY <1>23, <2>1, <2>2 DEF Save, Goto, Running, locals, bounds, TypeOK, Steps
  <2>3. CASE Abort(p)
    BY <1>2, <1>21, <1>23, <2>1, <2>3 DEF Save, bounds, TypeOK
  <2> QED
    BY <1>23, <2>2, <2>3 DEF Save
<1>24. ASSUME NEW p \in Proc, Commit(p)
       PROVE  TypeOK'
  BY <1>1, <1>2, <1>3, <1>24 DEF Commit, bounds, TypeOK
<1>25. ASSUME NEW p \in Proc, Crash(p)
       PROVE  TypeOK'
  BY <1>1, <1>2, <1>25 DEF Crash, files, TypeOK
<1>30. ASSUME Touch PROVE touches' \in 0 .. MaxTouches /\ calm' \in BOOLEAN
  <2>1. touches' \in 0 .. MaxTouches
    BY <1>30 DEF Touch, TypeOK
  <2>2. calm' \in BOOLEAN
    BY <1>30, Zenon DEF Touch
  <2> QED BY <2>1, <2>2
<1>26. CASE Replace
  <2>1. Touch /\ touches' \in 0 .. MaxTouches /\ calm' \in BOOLEAN
    BY <1>26, <1>30 DEF Replace
  <2>2. UNCHANGED <<receipt, journal, lock, pc, locals, outcome, faults>>
    BY <2>1 DEF Touch
  <2> QED BY <1>26, <2>1, <2>2 DEF Replace, locals, TypeOK
<1>27. ASSUME NEW t \in Targets, Edit(t)
       PROVE  TypeOK'
  <2>1. Touch /\ touches' \in 0 .. MaxTouches /\ calm' \in BOOLEAN
    BY <1>27, <1>30 DEF Edit
  <2>2. UNCHANGED <<receipt, journal, lock, pc, locals, outcome, faults>>
    BY <2>1 DEF Touch
  <2> QED BY <1>27, <2>1, <2>2 DEF Edit, locals, TypeOK
<1>28. CASE UNCHANGED vars
  BY <1>28 DEF vars, files, locals, bounds, TypeOK
<1>29. ASSUME NEW p \in Proc, Step(p)
       PROVE  TypeOK'
  BY <1>7, <1>8, <1>9, <1>10, <1>11, <1>13, <1>14, <1>15, <1>16, <1>17, <1>18,
     <1>19, <1>20, <1>22, <1>23, <1>24, <1>29 DEF Step
<1> QED
  BY <1>6, <1>25, <1>26, <1>27, <1>28, <1>29 DEF Next

\* Every step keeps the inductive invariant.
LEMMA InvStep == TypeOK /\ SwitchInv /\ [Next]_vars => SwitchInv'
<1> SUFFICES ASSUME TypeOK, SwitchInv, [Next]_vars
             PROVE  SwitchInv'
  OBVIOUS
<1> USE Kinds
<1>1. LinkMatchesReceipt
  BY DEF SwitchInv
<1>2. \A p \in Proc : OnDisk(p)
  BY DEF SwitchInv
\* Steps that end a command or go on to one where nothing new is claimed.
<1>3. ASSUME NEW p \in Proc, pc[p] # "idle", NEW o, Finish(p, o), UNCHANGED files
      PROVE  SwitchInv'
  BY <1>1, <1>3, Ends DEF LinkMatchesReceipt, Managed, files
<1>4. ASSUME NEW p \in Proc, Refuse(p), pc[p] # "idle"
      PROVE  SwitchInv'
  BY <1>3, <1>4 DEF Refuse
<1>5. ASSUME NEW p \in Proc, pc[p] # "idle", AfterRecovery(p), ~journal'.open,
             LinkMatchesReceipt'
      PROVE  SwitchInv'
  <2>1. CASE cmd[p] = "abort"
    BY <1>5, <2>1, Ends DEF AfterRecovery
  <2>2. CASE cmd[p] # "abort"
    <3>1. pc'[p] = "work"
      BY <1>5, <2>2 DEF AfterRecovery, Goto, TypeOK
    <3>2. OnDisk(p)'
      BY <1>5, <3>1 DEF OnDisk
    <3> QED
      BY <1>5, <2>2, <3>2, GoesOn DEF AfterRecovery, Running, Steps
  <2> QED
    BY <2>1, <2>2
<1>6. ASSUME NEW p \in Proc, NEW c \in Commands, Acquire(p, c)
      PROVE  SwitchInv'
  <2>1. \A q \in Proc : pc[q] = "idle"
    BY <1>6 DEF Acquire, SwitchInv, OneCommand
  <2>2. pc' = [pc EXCEPT ![p] = "recover"] /\ lock' = {p} /\ UNCHANGED files
    BY <1>6 DEF Acquire, Goto
  <2>3. OneCommand'
    BY <2>1, <2>2 DEF OneCommand, TypeOK
  <2>4. \A q \in Proc : pc'[q] \in {"idle", "recover"}
    BY <2>1, <2>2 DEF TypeOK
  <2>5. \A q \in Proc : OnDisk(q)'
    BY <2>4 DEF OnDisk
  <2> QED
    BY <1>1, <2>2, <2>3, <2>5 DEF SwitchInv, LinkMatchesReceipt, Managed, files
<1>7. ASSUME NEW p \in Proc, Recover(p)
      PROVE  SwitchInv'
  <2>1. CASE ~journal.open /\ AfterRecovery(p)
    BY <1>1, <1>5, <1>7, <2>1 DEF Recover, files, LinkMatchesReceipt, Managed
  <2>2. CASE journal.open /\ journal.prev = NoReceipt /\ Goto(p, "droplink") /\ Running
    <3>1. OnDisk(p)'
      BY <1>7, <2>2 DEF Recover, Goto, TypeOK, OnDisk, files
    <3> QED
      BY <1>1, <1>7, <2>2, <3>1, GoesOn
      DEF Recover, Running, files, LinkMatchesReceipt, Managed, Steps
  <2>3. CASE journal.open /\ journal.prev # NoReceipt /\ Goto(p, "relink") /\ Running
    <3>1. OnDisk(p)'
      BY <1>7, <2>3 DEF Recover, Goto, TypeOK, OnDisk, files
    <3> QED
      BY <1>1, <1>7, <2>3, <3>1, GoesOn
      DEF Recover, Running, files, LinkMatchesReceipt, Managed, Steps
  <2> QED
    BY <1>7, <2>1, <2>2, <2>3 DEF Recover
<1>8. ASSUME NEW p \in Proc, Relink(p)
      PROVE  SwitchInv'
  <2>1. journal.open /\ journal.prev # NoReceipt
    BY <1>2, <1>8 DEF Relink, OnDisk
  <2>2. LinkMatchesReceipt'
    BY <1>8, <2>1 DEF Relink, LinkMatchesReceipt
  <2>3. CASE Goto(p, "restore") /\ Running /\ link' = Active(journal.prev)
    <3>1. OnDisk(p)'
      BY <1>8, <2>1, <2>3 DEF Relink, Goto, TypeOK, OnDisk, Agrees, Active
    <3> QED
      BY <1>8, <2>2, <2>3, <3>1, GoesOn DEF Relink, Running, Steps
  <2>4. CASE Finish(p, "error")
    BY <1>8, <2>2, <2>4, Ends DEF Relink
  <2> QED
    BY <1>8, <2>3, <2>4 DEF Relink
<1>9. ASSUME NEW p \in Proc, DropLink(p)
      PROVE  SwitchInv'
  <2>1. journal.open /\ journal.prev = NoReceipt
    BY <1>2, <1>9 DEF DropLink, OnDisk
  <2>2. LinkMatchesReceipt'
    BY <1>9, <2>1 DEF DropLink, LinkMatchesReceipt
  <2>3. CASE Goto(p, "restore") /\ Running /\ link' = IF IsSymlink THEN Absent ELSE link
    <3>1. link' \notin Targets
      BY <2>3 DEF IsSymlink
    <3>2. OnDisk(p)'
      BY <1>9, <2>1, <2>3, <3>1 DEF DropLink, Goto, TypeOK, OnDisk, Agrees
    <3> QED
      BY <1>9, <2>2, <2>3, <3>2, GoesOn DEF DropLink, Running, Steps
  <2>4. CASE Finish(p, "error")
    BY <1>9, <2>2, <2>4, Ends DEF DropLink
  <2> QED
    BY <1>9, <2>3, <2>4 DEF DropLink
<1>10. ASSUME NEW p \in Proc, Restore(p)
       PROVE  SwitchInv'
  <2>1. journal.open /\ Agrees(journal.prev)
    BY <1>2, <1>10 DEF Restore, OnDisk
  <2>2. LinkMatchesReceipt'
    BY <1>10, <2>1 DEF Restore, LinkMatchesReceipt
  <2>3. CASE Goto(p, "close") /\ Running /\ receipt' = journal.prev
    <3>1. OnDisk(p)'
      BY <1>10, <2>1, <2>3 DEF Restore, Goto, TypeOK, OnDisk, Agrees, Active
    <3> QED
      BY <1>10, <2>2, <2>3, <3>1, GoesOn DEF Restore, Running, Steps
  <2>4. CASE Finish(p, "error")
    BY <1>10, <2>2, <2>4, Ends DEF Restore
  <2> QED
    BY <1>10, <2>3, <2>4 DEF Restore
<1>11. ASSUME NEW p \in Proc, Close(p)
       PROVE  SwitchInv'
  <2>1. receipt = journal.prev /\ Agrees(receipt) /\ UNCHANGED <<link, receipt>>
    BY <1>2, <1>11 DEF Close, OnDisk
  <2>2. LinkMatchesReceipt'
    BY <2>1 DEF LinkMatchesReceipt, Agrees, Managed
  <2>3. CASE journal' = NoJournal /\ AfterRecovery(p)
    BY <1>5, <1>11, <2>2, <2>3 DEF Close, NoJournal
  <2>4. CASE Finish(p, "error")
    BY <1>11, <2>2, <2>4, Ends DEF Close
  <2> QED
    BY <1>11, <2>3, <2>4 DEF Close
\* Before a publication the checks only move the command on.
<1>12. ASSUME NEW p \in Proc, NEW l \in {"switch", "remove"}, pc[p] = "work",
              l = "switch" => cmd[p] \in {"link", "snapshot"},
              Goto(p, l), lock' = lock, UNCHANGED <<files, cmd>>
       PROVE  SwitchInv'
  <2>1. pc'[p] = l /\ ~journal'.open
    BY <1>2, <1>12 DEF Goto, TypeOK, OnDisk, files
  <2>2. OnDisk(p)'
    BY <1>12, <2>1 DEF OnDisk
  <2> QED
    BY <1>1, <1>12, <2>2, GoesOn DEF LinkMatchesReceipt, Managed, files, Steps
<1>13. ASSUME NEW p \in Proc, ValidateLive(p)
       PROVE  SwitchInv'
  BY <1>4, <1>12, <1>13 DEF ValidateLive, Running
<1>14. ASSUME NEW p \in Proc, StageSnapshot(p)
       PROVE  SwitchInv'
  BY <1>4, <1>12, <1>14 DEF StageSnapshot, Running
<1>15. ASSUME NEW p \in Proc, Undeploy(p)
       PROVE  SwitchInv'
  BY <1>4, <1>12, <1>15 DEF Undeploy, Running, locals
\* From the check to the journal: it will hold the receipt just read.
<1>16. ASSUME NEW p \in Proc, ~journal.open, pc[p] # "idle",
              Goto(p, "journal"), Running, UNCHANGED <<files, cmd>>,
              prev'[p] = receipt,
              cmd[p] = "rollback" =>
                receipt.act > 1 /\ dst'[p] = receipt.hist[receipt.act - 1]
       PROVE  SwitchInv'
  <2>1. pc'[p] = "journal"
    BY <1>16 DEF Goto, TypeOK
  <2>2. OnDisk(p)'
    BY <1>16, <2>1 DEF OnDisk, files
  <2> QED
    BY <1>1, <1>16, <2>2, GoesOn
    DEF LinkMatchesReceipt, Managed, files, Running, Steps
<1>17. ASSUME NEW p \in Proc, Switch(p)
       PROVE  SwitchInv'
  <2>1. ~journal.open /\ cmd[p] # "rollback"
    BY <1>2, <1>17 DEF Switch, OnDisk
  <2>2. CASE prev' = [prev EXCEPT ![p] = receipt] /\ Goto(p, "journal") /\ Running
             /\ UNCHANGED <<files, dirs, cmd, dst, bounds>>
    <3>1. prev'[p] = receipt
      BY <2>2 DEF TypeOK
    <3> QED
      BY <1>16, <1>17, <2>1, <2>2, <3>1 DEF Switch
  <2> QED
    BY <1>4, <1>17, <2>2 DEF Switch
<1>18. ASSUME NEW p \in Proc, RollBack(p)
       PROVE  SwitchInv'
  <2>1. ~journal.open
    BY <1>2, <1>18 DEF RollBack, OnDisk
  <2>2. CASE /\ receipt.act > 1
             /\ prev' = [prev EXCEPT ![p] = receipt]
             /\ dst' = [dst EXCEPT ![p] = receipt.hist[receipt.act - 1]]
             /\ Goto(p, "journal") /\ Running
             /\ UNCHANGED <<files, dirs, cmd, bounds>>
    <3>1. prev'[p] = receipt /\ dst'[p] = receipt.hist[receipt.act - 1]
      BY <2>2 DEF TypeOK
    <3> QED
      BY <1>16, <1>18, <2>1, <2>2, <3>1 DEF RollBack
  <2> QED
    BY <1>4, <1>18, <2>2 DEF RollBack
<1>19. ASSUME NEW p \in Proc, Remove(p)
       PROVE  SwitchInv'
  <2>1. link' \in {link, Absent} /\ UNCHANGED <<receipt, journal>>
    BY <1>19 DEF Remove
  <2>2. LinkMatchesReceipt'
    BY <1>1, <2>1 DEF LinkMatchesReceipt, Managed
  <2> QED
    BY <1>19, <2>2, Ends DEF Remove
<1>20. ASSUME NEW p \in Proc, Status(p)
       PROVE  SwitchInv'
  BY <1>3, <1>20 DEF Status
\* The publication.
<1>21. ASSUME NEW p \in Proc, WriteJournal(p)
       PROVE  SwitchInv'
  <2>1. /\ ~journal.open /\ receipt = prev[p]
        /\ cmd[p] = "rollback" =>
             prev[p].act > 1 /\ dst[p] = prev[p].hist[prev[p].act - 1]
    BY <1>2, <1>21 DEF WriteJournal, OnDisk
  <2>2. LinkMatchesReceipt'
    BY <1>1, <1>21, <2>1 DEF WriteJournal, LinkMatchesReceipt, Managed
  <2>3. CASE /\ journal' = [open |-> TRUE, prev |-> prev[p]]
             /\ Goto(p, "swing") /\ Running /\ UNCHANGED locals
    <3>1. OnDisk(p)'
      BY <1>21, <2>1, <2>3 DEF WriteJournal, Goto, TypeOK, OnDisk, locals
    <3> QED
      BY <1>21, <2>2, <2>3, <3>1, GoesOn DEF WriteJournal, Running, Steps
  <2>4. CASE Finish(p, "error")
    BY <1>21, <2>2, <2>4, Ends DEF WriteJournal
  <2> QED
    BY <1>21, <2>3, <2>4 DEF WriteJournal
<1>22. ASSUME NEW p \in Proc, Abort(p), journal.open, UNCHANGED journal,
              pc[p] # "idle"
       PROVE  SwitchInv'
  <2>1. pc'[p] = "recover"
    BY <1>22 DEF Abort, Goto, TypeOK
  <2>2. OnDisk(p)' /\ LinkMatchesReceipt'
    BY <1>22, <2>1 DEF OnDisk, LinkMatchesReceipt
  <2> QED
    BY <1>22, <2>2, GoesOn DEF Abort, Running, Steps
<1>23. ASSUME NEW p \in Proc, Swing(p)
       PROVE  SwitchInv'
  <2>1. /\ journal.open /\ journal.prev = prev[p]
        /\ cmd[p] = "rollback" =>
             prev[p].act > 1 /\ dst[p] = prev[p].hist[prev[p].act - 1]
    BY <1>2, <1>23 DEF Swing, OnDisk
  <2>2. CASE link' = dst[p] /\ Goto(p, "save") /\ Running /\ UNCHANGED locals
    <3>1. Planned(p) # NoReceipt /\ Active(Planned(p)) = dst[p]
      BY <1>23, Written DEF Swing
    <3>2. Planned(p)' = Planned(p)
      BY <2>2 DEF Planned, locals
    <3>3. (Agrees(Planned(p)))'
      BY <2>2, <3>1, <3>2 DEF Agrees, Active
    <3>4. OnDisk(p)'
      BY <1>23, <2>1, <2>2, <3>3 DEF Swing, Goto, TypeOK, OnDisk, locals
    <3>5. LinkMatchesReceipt'
      BY <1>23, <2>1 DEF Swing, LinkMatchesReceipt
    <3> QED
      BY <1>23, <2>2, <3>4, <3>5, GoesOn DEF Swing, Running, Steps
  <2>3. CASE Abort(p)
    BY <1>22, <1>23, <2>1, <2>3 DEF Swing
  <2> QED
    BY <1>23, <2>2, <2>3 DEF Swing
<1>24. ASSUME NEW p \in Proc, Save(p)
       PROVE  SwitchInv'
  <2>1. /\ journal.open /\ journal.prev = prev[p] /\ Agrees(Planned(p))
        /\ cmd[p] = "rollback" =>
             prev[p].act > 1 /\ dst[p] = prev[p].hist[prev[p].act - 1]
    BY <1>2, <1>24 DEF Save, OnDisk
  <2>2. CASE receipt' = Planned(p) /\ Goto(p, "commit") /\ Running /\ UNCHANGED locals
    <3>1. Planned(p)' = Planned(p)
      BY <2>2 DEF Planned, locals
    <3>2. (Agrees(Planned(p)))'
      BY <1>24, <2>1, <3>1 DEF Save, Agrees, Active
    <3>3. OnDisk(p)'
      BY <1>24, <2>1, <2>2, <3>1, <3>2 DEF Save, Goto, TypeOK, OnDisk, locals
    <3>4. LinkMatchesReceipt'
      BY <1>24, <2>1 DEF Save, LinkMatchesReceipt
    <3> QED
      BY <1>24, <2>2, <3>3, <3>4, GoesOn DEF Save, Running, Steps
  <2>3. CASE Abort(p)
    BY <1>22, <1>24, <2>1, <2>3 DEF Save
  <2> QED
    BY <1>24, <2>2, <2>3 DEF Save
<1>25. ASSUME NEW p \in Proc, Commit(p)
       PROVE  SwitchInv'
  <2>1. receipt = Planned(p) /\ Agrees(receipt) /\ UNCHANGED <<link, receipt>>
    BY <1>2, <1>25 DEF Commit, OnDisk
  <2>2. LinkMatchesReceipt'
    BY <2>1 DEF LinkMatchesReceipt, Agrees, Managed
  <2> QED
    BY <1>25, <2>2, Ends DEF Commit
\* Deaths and other tools.
<1>26. ASSUME NEW p \in Proc, Crash(p)
       PROVE  SwitchInv'
  <2>1. pc[p] # "idle"
    BY <1>26 DEF Crash, SwitchInv, OneCommand
  <2> QED
    BY <1>3, <1>26, <2>1 DEF Crash
<1>27. ASSUME Touch, link' = link \/ link' \notin Targets
       PROVE  SwitchInv'
  <2>1. UNCHANGED <<receipt, journal, lock, pc, cmd, dst, prev>>
    BY <1>27 DEF Touch, locals
  <2>2. LinkMatchesReceipt' /\ OneCommand'
    BY <1>1, <1>27, <2>1 DEF LinkMatchesReceipt, Managed, OneCommand, SwitchInv
  <2>3. \A p \in Proc : OnDisk(p)'
    <3> TAKE p \in Proc
    <3>1. Planned(p)' = Planned(p)
      BY <2>1 DEF Planned
    <3>2. \A r \in {journal.prev, Planned(p)} : Agrees(r) => (link' \in Targets => r # NoReceipt /\ link' = Active(r))
      BY <1>27 DEF Agrees
    <3> QED
      BY <1>2, <2>1, <3>1, <3>2 DEF OnDisk, Agrees, Active
  <2> QED
    BY <2>2, <2>3 DEF SwitchInv
<1>28. CASE Replace
  BY <1>27, <1>28 DEF Replace
<1>29. ASSUME NEW t \in Targets, Edit(t)
       PROVE  SwitchInv'
  BY <1>27, <1>29 DEF Edit
<1>30. CASE UNCHANGED vars
  <2>1. UNCHANGED <<link, receipt, journal, lock, pc, cmd, dst, prev>>
    BY <1>30 DEF vars, files, locals
  <2> QED
    BY <2>1 DEF SwitchInv, LinkMatchesReceipt, Managed, OneCommand, OnDisk, Agrees,
                Planned, Active
<1>31. ASSUME NEW p \in Proc, Step(p)
       PROVE  SwitchInv'
  BY <1>7, <1>8, <1>9, <1>10, <1>11, <1>13, <1>14, <1>15, <1>17, <1>18, <1>19,
     <1>20, <1>21, <1>23, <1>24, <1>25, <1>31 DEF Step
<1> QED
  BY <1>6, <1>26, <1>28, <1>29, <1>30, <1>31 DEF Next

\* Nothing is deployed and no command runs to begin with.
LEMMA InitInv == Init => TypeOK /\ SwitchInv
<1> SUFFICES ASSUME Init
             PROVE  TypeOK /\ SwitchInv
  OBVIOUS
<1> USE Kinds, NoReceiptType, BoundAssumption
<1>1. receipt \in Receipt /\ (receipt # NoReceipt => Active(receipt) \in Targets)
  BY DirectoryAssumption, PushReceipt, ReceiptFields DEF Init, Targets
<1>2. TypeOK
  BY <1>1 DEF Init, TypeOK, NoJournal, Journal, Steps
<1>3. LinkMatchesReceipt
  BY DEF Init, LinkMatchesReceipt, Managed
<1>4. SwitchInv
  BY <1>3 DEF Init, SwitchInv, OneCommand, OnDisk
<1> QED
  BY <1>2, <1>4

-----------------------------------------------------------------------------
(* How a command came to be where it is                                    *)

\* Only one command runs.
LEMMA OthersIdle ==
  ASSUME TypeOK, SwitchInv, NEW p \in Proc, pc[p] # "idle" \/ lock = {}
  PROVE  \A q \in Proc \ {p} : pc[q] = "idle"
BY DEF SwitchInv, OneCommand

\* Nothing is claimed of a command that is not running.
LEMMA CourseOfOne ==
  ASSUME TypeOK, CourseInv, NEW p \in Proc,
         \A q \in Proc \ {p} : pc[q] = "idle" /\ pc'[q] = pc[q] /\ cmd'[q] = cmd[q],
         OnCourse(p)'
  PROVE  CourseInv'
<1>1. ASSUME NEW q \in Proc \ {p}
      PROVE  OnCourse(q)'
  <2>1. pc[q] = "idle" /\ pc'[q] = "idle" /\ cmd'[q] = cmd[q] /\ cmd[q] # "abort"
    BY <1>1 DEF CourseInv, OnCourse
  <2> QED
    BY <2>1 DEF OnCourse, Publishing, Undisturbed
<1> QED
  BY <1>1 DEF CourseInv

\* A command that goes on to l as the same command.
LEMMA CourseGoesOn ==
  ASSUME TypeOK, SwitchInv, CourseInv, NEW p \in Proc, pc[p] # "idle" \/ lock = {},
         NEW l \in Steps, Goto(p, l),
         \A q \in Proc \ {p} : cmd'[q] = cmd[q],
         pc'[p] = l => OnCourse(p)'
  PROVE  CourseInv'
<1>1. pc'[p] = l /\ \A q \in Proc \ {p} : pc'[q] = pc[q]
  BY DEF Goto, TypeOK
<1>2. \A q \in Proc \ {p} : pc[q] = "idle"
  BY OthersIdle
<1> QED
  BY <1>1, <1>2, CourseOfOne

\* A command that ends leaves nothing to account for.
LEMMA CourseEnds ==
  ASSUME TypeOK, SwitchInv, CourseInv, NEW p \in Proc, pc[p] # "idle",
         NEW o, Finish(p, o)
  PROVE  CourseInv'
<1>1. /\ pc' = [pc EXCEPT ![p] = "idle"] /\ cmd' = [cmd EXCEPT ![p] = "none"]
      /\ pc \in [Proc -> Steps] /\ DOMAIN cmd = Proc
  BY DEF Finish, Goto, TypeOK
<1>2. pc'[p] = "idle" /\ cmd'[p] = "none" /\ \A q \in Proc \ {p} : pc'[q] = pc[q] /\ cmd'[q] = cmd[q]
  BY <1>1
<1>3. OnCourse(p)'
  BY <1>2 DEF OnCourse, Publishing, Undisturbed
<1> QED
  BY <1>2, <1>3, OthersIdle, CourseOfOne

\* Every step keeps it.
LEMMA CourseStep == TypeOK /\ SwitchInv /\ CourseInv /\ [Next]_vars => CourseInv'
<1> SUFFICES ASSUME TypeOK, SwitchInv, CourseInv, [Next]_vars
             PROVE  CourseInv'
  OBVIOUS
<1> USE Kinds
<1>1. \A p \in Proc : OnDisk(p) /\ OnCourse(p)
  BY DEF SwitchInv, CourseInv
<1>2. Managed => receipt # NoReceipt /\ link = Active(receipt) /\ link \in Targets
  BY ReceiptFields DEF Managed, TypeOK
<1>3. \A p \in Proc : prev[p] \in Receipt /\ dst[p] \in Targets
  BY DEF TypeOK
\* A command before its publication is on course wherever it goes.
<1>4. ASSUME NEW p \in Proc, pc[p] # "idle" \/ lock = {},
             NEW l \in {"recover", "work", "switch"}, Goto(p, l),
             cmd'[p] # "abort", \A q \in Proc \ {p} : cmd'[q] = cmd[q]
      PROVE  CourseInv'
  <2>1. pc'[p] = l => OnCourse(p)'
    BY <1>4 DEF OnCourse, Publishing, Undisturbed
  <2> QED
    BY <1>4, <2>1, CourseGoesOn DEF Steps
<1>5. ASSUME NEW p \in Proc, pc[p] # "idle", AfterRecovery(p)
      PROVE  CourseInv'
  <2>1. CASE cmd[p] = "abort"
    BY <1>5, <2>1, CourseEnds DEF AfterRecovery
  <2>2. CASE cmd[p] # "abort"
    BY <1>4, <1>5, <2>2 DEF AfterRecovery, locals
  <2> QED
    BY <2>1, <2>2
<1>6. ASSUME NEW p \in Proc, NEW c \in Commands, Acquire(p, c)
      PROVE  CourseInv'
  <2>1. cmd' = [cmd EXCEPT ![p] = c] /\ c # "abort"
    BY <1>6 DEF Acquire, Commands
  <2>2. cmd'[p] = c /\ \A q \in Proc \ {p} : cmd'[q] = cmd[q]
    BY <2>1 DEF TypeOK
  <2> QED
    BY <1>4, <1>6, <2>1, <2>2 DEF Acquire
<1>7. ASSUME NEW p \in Proc, Recover(p)
      PROVE  CourseInv'
  <2>1. CASE journal.open
    <3>1. PICK l \in {"droplink", "relink"} : Goto(p, l)
      BY <1>7, <2>1 DEF Recover
    <3>2. UNCHANGED <<link, journal, cmd, prev, was, calm>>
      BY <1>7, <2>1 DEF Recover, files, locals, bounds
    <3>3. pc'[p] = l => OnCourse(p)'
      BY <1>1, <1>7, <3>2 DEF Recover, OnCourse, Publishing, Undisturbed, Owned, Active
    <3> QED
      BY <1>7, <3>1, <3>2, <3>3, CourseGoesOn DEF Recover, Steps
  <2> QED
    BY <1>5, <1>7, <2>1 DEF Recover
<1>8. ASSUME NEW p \in Proc, Relink(p)
      PROVE  CourseInv'
  <2>1. CASE link' = Active(journal.prev) /\ Goto(p, "restore") /\ UNCHANGED <<locals, bounds>>
    <3>1. UNCHANGED <<journal, cmd, prev, was, calm>>
      BY <1>8, <2>1 DEF Relink, locals, bounds
    <3>2. journal.prev # NoReceipt /\ (cmd[p] = "abort" => journal.prev = prev[p])
      BY <1>1, <1>8 DEF Relink, OnDisk, OnCourse
    <3>3. cmd[p] = "abort" => Active(prev[p]) \in Targets
      BY <1>3, <3>2, ReceiptFields
    <3>4. pc'[p] = "restore" => OnCourse(p)'
      BY <1>1, <1>8, <2>1, <3>1, <3>2, <3>3
      DEF Relink, OnCourse, Publishing, Undisturbed, Owned, Active
    <3> QED
      BY <1>8, <2>1, <3>1, <3>4, CourseGoesOn DEF Relink, Steps
  <2>2. CASE Finish(p, "error")
    BY <1>8, <2>2, CourseEnds DEF Relink
  <2> QED
    BY <1>8, <2>1, <2>2 DEF Relink
<1>9. ASSUME NEW p \in Proc, DropLink(p)
      PROVE  CourseInv'
  <2>1. CASE link' = (IF IsSymlink THEN Absent ELSE link) /\ Goto(p, "restore")
             /\ UNCHANGED <<locals, bounds>>
    <3>1. UNCHANGED <<journal, cmd, prev, was, calm>>
      BY <1>9, <2>1 DEF DropLink, locals, bounds
    <3>2. journal.prev = NoReceipt /\ (cmd[p] = "abort" => journal.prev = prev[p])
      BY <1>1, <1>9 DEF DropLink, OnDisk, OnCourse
    <3>3. link \in Targets \cup {Absent} => link' = Absent
      BY <2>1 DEF IsSymlink
    <3>4. pc'[p] = "restore" => OnCourse(p)'
      BY <1>1, <1>9, <3>1, <3>2, <3>3
      DEF DropLink, OnCourse, Publishing, Undisturbed, Owned, Active
    <3> QED
      BY <1>9, <2>1, <3>1, <3>4, CourseGoesOn DEF DropLink, Steps
  <2>2. CASE Finish(p, "error")
    BY <1>9, <2>2, CourseEnds DEF DropLink
  <2> QED
    BY <1>9, <2>1, <2>2 DEF DropLink
<1>10. ASSUME NEW p \in Proc, Restore(p)
       PROVE  CourseInv'
  <2>1. CASE Goto(p, "close") /\ UNCHANGED <<locals, bounds>>
    <3>1. UNCHANGED <<link, journal, cmd, prev, was, calm>>
      BY <1>10, <2>1 DEF Restore, locals, bounds
    <3>2. pc'[p] = "close" => OnCourse(p)'
      BY <1>1, <1>10, <3>1 DEF Restore, OnCourse, Publishing, Undisturbed, Owned, Active
    <3> QED
      BY <1>10, <2>1, <3>1, <3>2, CourseGoesOn DEF Restore, Steps
  <2>2. CASE Finish(p, "error")
    BY <1>10, <2>2, CourseEnds DEF Restore
  <2> QED
    BY <1>10, <2>1, <2>2 DEF Restore
<1>11. ASSUME NEW p \in Proc, Close(p)
       PROVE  CourseInv'
  <2>1. pc[p] # "idle" /\ (AfterRecovery(p) \/ Finish(p, "error"))
    BY <1>11 DEF Close
  <2> QED
    BY <1>5, <2>1, CourseEnds
<1>12. ASSUME NEW p \in Proc, pc[p] # "idle", Refuse(p)
       PROVE  CourseInv'
  BY <1>12, CourseEnds DEF Refuse
<1>13. ASSUME NEW p \in Proc, ValidateLive(p) \/ StageSnapshot(p)
       PROVE  CourseInv'
  <2>1. pc[p] = "work" /\ cmd[p] # "abort"
    BY <1>13 DEF ValidateLive, StageSnapshot
  <2>2. CASE Refuse(p)
    BY <1>12, <2>1, <2>2
  <2>3. CASE ~Refuse(p)
    <3>1. Goto(p, "switch") /\ cmd' = cmd
      BY <1>13, <2>3 DEF ValidateLive, StageSnapshot
    <3> QED
      BY <1>4, <2>1, <3>1
  <2> QED
    BY <2>2, <2>3
\* The ownership check, and the record of what it saw.
<1>14. ASSUME NEW p \in Proc, pc[p] \in {"switch", "work"}, cmd[p] # "abort",
              link = Absent \/ Managed,
              prev' = [prev EXCEPT ![p] = receipt], was' = [was EXCEPT ![p] = link],
              Goto(p, "journal"), UNCHANGED <<files, dirs, cmd, bounds>>,
              cmd[p] = "rollback" => Verified(dst'[p])
       PROVE  CourseInv'
  <2>1. prev'[p] = receipt /\ was'[p] = link
    BY <1>14 DEF TypeOK
  <2>2. UNCHANGED <<link, dirs, cmd, calm>>
    BY <1>14 DEF files, bounds
  <2>3. Owned(prev[p], was[p])'
    BY <1>2, <1>14, <2>1 DEF Owned, Active
  <2>4. link \in Targets \cup {Absent}
    BY <1>2, <1>14
  <2>5. pc'[p] = "journal" => OnCourse(p)'
    BY <1>14, <2>2, <2>3, <2>4 DEF OnCourse, Publishing, Undisturbed, Verified
  <2> QED
    BY <1>14, <2>2, <2>5, CourseGoesOn DEF Steps
<1>15. ASSUME NEW p \in Proc, Switch(p)
       PROVE  CourseInv'
  <2>1. pc[p] = "switch" /\ cmd[p] \notin {"abort", "rollback"}
    BY <1>1, <1>15 DEF Switch, OnDisk
  <2> QED
    BY <1>12, <1>14, <1>15, <2>1 DEF Switch
<1>16. ASSUME NEW p \in Proc, RollBack(p)
       PROVE  CourseInv'
  <2>1. pc[p] = "work" /\ cmd[p] = "rollback"
    BY <1>16 DEF RollBack
  <2>2. CASE Refuse(p)
    BY <1>12, <2>1, <2>2
  <2>3. CASE ~Refuse(p)
    <3> DEFINE t == receipt.hist[receipt.act - 1]
    <3>1. /\ Managed /\ Verified(t)
          /\ prev' = [prev EXCEPT ![p] = receipt] /\ was' = [was EXCEPT ![p] = link]
          /\ dst' = [dst EXCEPT ![p] = t]
          /\ Goto(p, "journal") /\ UNCHANGED <<files, dirs, cmd, bounds>>
      BY <1>16, <2>3 DEF RollBack
    <3>2. dst'[p] = t
      BY <3>1 DEF TypeOK
    <3> QED
      BY <1>14, <2>1, <3>1, <3>2
  <2> QED
    BY <2>2, <2>3
<1>17. ASSUME NEW p \in Proc, Undeploy(p)
       PROVE  CourseInv'
  <2>1. CASE Managed /\ Goto(p, "remove") /\ UNCHANGED <<files, locals>>
    <3>1. pc'[p] = "remove" => OnCourse(p)'
      BY <1>2, <1>17, <2>1 DEF Undeploy, OnCourse, Publishing, Undisturbed, files, locals
    <3> QED
      BY <1>17, <2>1, <3>1, CourseGoesOn DEF Undeploy, Steps, locals
  <2> QED
    BY <1>12, <1>17, <2>1 DEF Undeploy
<1>18. ASSUME NEW p \in Proc, Remove(p) \/ Status(p)
       PROVE  CourseInv'
  <2>1. pc[p] # "idle" /\ \E o \in {"ok", "error"} : Finish(p, o)
    BY <1>18 DEF Remove, Status
  <2> QED
    BY <2>1, CourseEnds
\* The publication.
<1>20. ASSUME NEW p \in Proc, WriteJournal(p)
       PROVE  CourseInv'
  <2>1. CASE Goto(p, "swing") /\ UNCHANGED <<locals, bounds>>
    <3>1. UNCHANGED <<link, dirs, cmd, dst, prev, was, calm>>
      BY <1>20, <2>1 DEF WriteJournal, locals, bounds
    <3>2. cmd[p] # "abort"
      BY <1>1, <1>20 DEF WriteJournal, OnCourse
    <3>3. pc'[p] = "swing" => OnCourse(p)'
      BY <1>1, <1>20, <3>1, <3>2
      DEF WriteJournal, OnCourse, Publishing, Undisturbed, Owned, Active, Verified
    <3> QED
      BY <1>20, <2>1, <3>1, <3>3, CourseGoesOn DEF WriteJournal, Steps
  <2>2. CASE Finish(p, "error")
    BY <1>20, <2>2, CourseEnds DEF WriteJournal
  <2> QED
    BY <1>20, <2>1, <2>2 DEF WriteJournal
<1>21. ASSUME NEW p \in Proc, pc[p] \in {"swing", "save"}, Abort(p), UNCHANGED <<journal, calm>>,
              link' \in {link, dst[p]}
       PROVE  CourseInv'
  <2>1. /\ journal.open /\ journal.prev = prev[p] /\ Owned(prev[p], was[p])
        /\ calm => link' \in Targets \cup {Absent}
    BY <1>1, <1>3, <1>21 DEF OnDisk, OnCourse, Publishing, Undisturbed
  <2>2. /\ cmd' = [cmd EXCEPT ![p] = "abort"] /\ Goto(p, "recover")
        /\ UNCHANGED <<prev, was>>
    BY <1>21 DEF Abort
  <2>3. cmd'[p] = "abort" /\ \A q \in Proc \ {p} : cmd'[q] = cmd[q]
    BY <2>2 DEF TypeOK
  <2>4. pc'[p] = "recover" => OnCourse(p)'
    BY <1>21, <2>1, <2>2, <2>3 DEF OnCourse, Publishing, Undisturbed, Owned, Active
  <2> QED
    BY <1>21, <2>2, <2>3, <2>4, CourseGoesOn DEF Steps
<1>22. ASSUME NEW p \in Proc, Swing(p)
       PROVE  CourseInv'
  <2>1. CASE link' = dst[p] /\ Goto(p, "save") /\ UNCHANGED <<locals, bounds>>
    <3>1. UNCHANGED <<cmd, dst, prev, was, calm>> /\ cmd[p] # "abort"
      BY <1>1, <1>22, <2>1 DEF Swing, OnCourse, locals, bounds
    <3>2. pc'[p] = "save" => OnCourse(p)'
      BY <1>1, <1>3, <1>22, <2>1, <3>1
      DEF Swing, OnCourse, Publishing, Undisturbed, Owned, Active
    <3> QED
      BY <1>22, <2>1, <3>1, <3>2, CourseGoesOn DEF Swing, Steps
  <2>2. CASE Abort(p)
    <3>1. UNCHANGED <<journal, calm>> /\ link' \in {link, dst[p]}
      BY <1>22, <2>2 DEF Swing, bounds, Fault
    <3> QED
      BY <1>21, <1>22, <2>2, <3>1 DEF Swing
  <2> QED
    BY <1>22, <2>1, <2>2 DEF Swing
<1>23. ASSUME NEW p \in Proc, Save(p)
       PROVE  CourseInv'
  <2>1. CASE Goto(p, "commit") /\ UNCHANGED <<locals, bounds>>
    <3>1. UNCHANGED <<link, cmd, dst, prev, was, calm>> /\ cmd[p] # "abort"
      BY <1>1, <1>23, <2>1 DEF Save, OnCourse, locals, bounds
    <3>2. pc'[p] = "commit" => OnCourse(p)'
      BY <1>1, <1>23, <3>1
      DEF Save, OnCourse, Publishing, Undisturbed, Owned, Active
    <3> QED
      BY <1>23, <2>1, <3>1, <3>2, CourseGoesOn DEF Save, Steps
  <2>2. CASE Abort(p)
    <3>1. UNCHANGED <<link, journal, calm>>
      BY <1>23, <2>2 DEF Save, bounds, Fault
    <3> QED
      BY <1>21, <1>23, <2>2, <3>1 DEF Save
  <2> QED
    BY <1>23, <2>1, <2>2 DEF Save
<1>24. ASSUME NEW p \in Proc, Commit(p) \/ Crash(p)
       PROVE  CourseInv'
  <2>1. pc[p] # "idle" /\ \E o \in {"ok", "error"} : Finish(p, o)
    BY <1>24 DEF Commit, Crash, SwitchInv, OneCommand
  <2> QED
    BY <2>1, CourseEnds
\* Other tools: what was known of the path and the directories is void.
<1>25. CASE Replace \/ \E t \in Targets : Edit(t)
  <2>1. ~calm' /\ UNCHANGED <<journal, pc, cmd, prev, was>>
    BY <1>25 DEF Replace, Edit, Touch, locals
  <2> QED
    BY <2>1 DEF CourseInv, OnCourse, Publishing, Owned, Active
<1>26. CASE UNCHANGED vars
  <2>1. UNCHANGED <<link, journal, dirs, pc, cmd, dst, prev, was, calm>>
    BY <1>26 DEF vars, files, locals, bounds
  <2> QED
    BY <2>1 DEF CourseInv, OnCourse, Undisturbed, Publishing, Owned, Active, Verified
<1>27. ASSUME NEW p \in Proc, Step(p)
       PROVE  CourseInv'
  BY <1>7, <1>8, <1>9, <1>10, <1>11, <1>13, <1>15, <1>16, <1>17, <1>18, <1>20,
     <1>22, <1>23, <1>24, <1>27 DEF Step
<1> QED
  BY <1>6, <1>24, <1>25, <1>26, <1>27 DEF Next

\* No command is under way to begin with.
LEMMA InitCourse == Init => CourseInv
BY DEF Init, CourseInv, OnCourse, Publishing, Undisturbed, NoJournal

-----------------------------------------------------------------------------
(* Theorems                                                                *)

\* The state of the program, and what each step of a command finds on disk:
\* the invariant from which the theorems below follow.
THEOREM Invariant == Spec => [](TypeOK /\ SwitchInv)
<1>1. TypeOK /\ SwitchInv /\ [Next]_vars => (TypeOK /\ SwitchInv)'
  BY TypeStep, InvStep
<1> QED
  BY InitInv, <1>1, PTL DEF Spec

\* Every variable keeps its type: the receipt and the one in the journal can
\* always be read back, and their active index is one of their history.
THEOREM TypeCorrect == Spec => []TypeOK
BY Invariant, PTL

\* Unless a switch is in flight, a plugin path that links to a deployment
\* links to the active one, through any deaths, failed writes and changes
\* from outside.
THEOREM LinkAgrees == Spec => []LinkMatchesReceipt
<1>1. SwitchInv => LinkMatchesReceipt
  BY DEF SwitchInv
<1> QED
  BY Invariant, <1>1, PTL

-----------------------------------------------------------------------------
(* What a step of a command may do                                         *)

\* While p runs a command, a step is its own or one of another tool.
LEMMA OwnStep ==
  ASSUME TypeOK, SwitchInv, [Next]_vars, NEW p \in lock
  PROVE  \/ Step(p) \/ Crash(p)
         \/ ~calm' /\ UNCHANGED <<receipt, journal, lock, pc, cmd, outcome>>
         \/ UNCHANGED vars
<1>1. ASSUME NEW q \in Proc, Step(q)
      PROVE  q = p
  <2>1. pc[q] # "idle"
    BY <1>1
    DEF Step, Recover, Relink, DropLink, Restore, Close, ValidateLive, StageSnapshot,
        Switch, RollBack, Undeploy, Remove, Status, WriteJournal, Swing, Save, Commit
  <2> QED
    BY <2>1 DEF SwitchInv, OneCommand
<1>2. ASSUME NEW q \in Proc, Crash(q)
      PROVE  q = p
  BY <1>2 DEF Crash, SwitchInv, OneCommand
<1>3. ASSUME NEW q \in Proc, NEW c \in Commands, Acquire(q, c)
      PROVE  FALSE
  BY <1>3 DEF Acquire
<1>4. CASE Replace \/ \E t \in Targets : Edit(t)
  BY <1>4 DEF Replace, Edit, Touch, locals
<1> QED
  BY <1>1, <1>2, <1>3, <1>4 DEF Next

\* The ways in which a command returns.
LEMMA Returns ==
  ASSUME NEW p \in lock, Step(p) \/ Crash(p), p \notin lock'
  PROVE  \/ outcome' = "error"
         \/ outcome' = "ok" /\ (cmd[p] = "status" \/ pc[p] = "remove")
         \/ /\ outcome' = "ok" /\ pc[p] = "commit"
            /\ journal' = NoJournal /\ UNCHANGED <<link, receipt>>
         \/ /\ outcome' = "restored" /\ cmd[p] = "abort"
            /\ \/ pc[p] = "recover" /\ ~journal.open
               \/ pc[p] = "close" /\ UNCHANGED <<link, receipt>>
<1>1. Running => FALSE
  BY DEF Running
<1>2. \A o : Finish(p, o) => outcome' = o
  BY DEF Finish
<1>3. AfterRecovery(p) => outcome' = "restored" /\ cmd[p] = "abort"
  BY <1>1, <1>2 DEF AfterRecovery
<1>4. ~Abort(p)
  BY <1>1 DEF Abort
<1>5. Refuse(p) => outcome' = "error"
  BY <1>2 DEF Refuse
<1>6. CASE Recover(p) \/ Close(p)
  BY <1>1, <1>2, <1>3, <1>6 DEF Recover, Close
<1>7. CASE Relink(p) \/ DropLink(p) \/ Restore(p) \/ WriteJournal(p) \/ Crash(p)
  BY <1>1, <1>2, <1>7 DEF Relink, DropLink, Restore, WriteJournal, Crash
<1>8. CASE ValidateLive(p) \/ StageSnapshot(p) \/ Switch(p) \/ RollBack(p) \/ Undeploy(p)
  BY <1>1, <1>5, <1>8 DEF ValidateLive, StageSnapshot, Switch, RollBack, Undeploy
<1>9. CASE Remove(p) \/ Status(p) \/ Commit(p)
  BY <1>2, <1>9 DEF Remove, Status, Commit
<1>10. CASE Swing(p) \/ Save(p)
  BY <1>1, <1>4, <1>10 DEF Swing, Save
<1> QED
  BY <1>6, <1>7, <1>8, <1>9, <1>10 DEF Step

\* The steps of a command that change the plugin path.
LEMMA Writes ==
  ASSUME NEW p \in lock, Step(p) \/ Crash(p), link' # link
  PROVE  /\ calm' = calm
         /\ \/ pc[p] \in {"relink", "droplink", "remove"}
            \/ pc[p] = "swing" /\ link' = dst[p]
<1>1. CASE Relink(p) \/ DropLink(p) \/ Remove(p) \/ Swing(p)
  <2>1. calm' = calm
    BY <1>1 DEF Relink, DropLink, Remove, Swing, Fault, bounds
  <2> QED
    BY <1>1, <2>1 DEF Relink, DropLink, Remove, Swing
<1>2. CASE Recover(p) \/ Restore(p) \/ Close(p) \/ WriteJournal(p) \/ Save(p) \/ Commit(p)
  BY <1>2 DEF Recover, Restore, Close, WriteJournal, Save, Commit, files
<1>3. CASE ValidateLive(p) \/ StageSnapshot(p) \/ Switch(p) \/ RollBack(p) \/ Undeploy(p)
           \/ Status(p) \/ Crash(p)
  BY <1>3 DEF ValidateLive, StageSnapshot, Switch, RollBack, Undeploy, Status, Crash,
              Refuse, files
<1> QED
  BY <1>1, <1>2, <1>3 DEF Step

\* The state of the program, what each step finds on disk and how it came
\* there: the invariant of the action properties.
THEOREM Course == Spec => [](TypeOK /\ SwitchInv /\ CourseInv)
<1>1. TypeOK /\ SwitchInv /\ CourseInv /\ [Next]_vars => (TypeOK /\ SwitchInv /\ CourseInv)'
  BY TypeStep, InvStep, CourseStep
<1> QED
  BY InitInv, InitCourse, <1>1, PTL DEF Spec

\* "ok" of link, snapshot and rollback is final: the journal is gone, the
\* receipt that was planned is saved, its active entry is the directory that
\* was deployed, and the shell loads the plugin from there unless another
\* tool interfered.
THEOREM OkFinal == Spec => OkIsFinal
<1>1. ASSUME TypeOK, SwitchInv, CourseInv, [Next]_vars, NEW p \in lock \ lock',
             outcome' = "ok", cmd[p] \in {"link", "snapshot", "rollback"}
      PROVE  /\ ~journal'.open
             /\ receipt' = Planned(p)
             /\ Active(receipt') = dst[p]
             /\ calm => link' = dst[p]
  <2>1. p \in Proc /\ OnDisk(p) /\ OnCourse(p)
    BY <1>1 DEF TypeOK, SwitchInv, CourseInv
  <2>2. Step(p) \/ Crash(p)
    BY <1>1, OwnStep DEF vars
  <2>3. pc[p] = "commit" /\ journal' = NoJournal /\ UNCHANGED <<link, receipt>>
    BY <1>1, <2>1, <2>2, Returns DEF OnCourse
  <2>4. receipt = Planned(p) /\ (calm => link = dst[p])
    BY <2>1, <2>3 DEF OnDisk, OnCourse, Undisturbed
  <2>5. Active(Planned(p)) = dst[p]
    BY <1>1, <2>1, <2>3, Written
  <2> QED
    BY <2>3, <2>4, <2>5 DEF NoJournal, Active
<1>2. TypeOK /\ SwitchInv /\ CourseInv /\ [Next]_vars =>
        [\A p \in lock \ lock' :
           outcome' = "ok" /\ cmd[p] \in {"link", "snapshot", "rollback"} =>
             /\ ~journal'.open
             /\ receipt' = Planned(p)
             /\ Active(receipt') = dst[p]
             /\ calm => link' = dst[p]]_vars
  BY <1>1
<1> QED
  BY <1>2, Course, PTL DEF Spec, OkIsFinal

\* "previous link and receipt restored" is true of every failed publication
\* of a plugin that was linked, or had never been deployed: the receipt is
\* the one it had read and the path holds what it held.
THEOREM Restored == Spec => RestoredWhenServed
<1>1. ASSUME TypeOK, SwitchInv, CourseInv, [Next]_vars, NEW p \in lock \ lock',
             outcome' = "restored", was[p] = Absent => prev[p] = NoReceipt
      PROVE  receipt' = prev[p] /\ (calm => link' = was[p])
  <2>1. p \in Proc /\ OnDisk(p) /\ OnCourse(p)
    BY <1>1 DEF TypeOK, SwitchInv, CourseInv
  <2>2. Step(p) \/ Crash(p)
    BY <1>1, OwnStep DEF vars
  <2>3. cmd[p] = "abort" /\ pc[p] = "close" /\ UNCHANGED <<link, receipt>>
    BY <1>1, <2>1, <2>2, Returns DEF OnCourse
  <2>4. receipt = prev[p]
    BY <2>1, <2>3 DEF OnDisk, OnCourse
  <2>5. calm => link = IF prev[p] = NoReceipt THEN Absent ELSE Active(prev[p])
    BY <2>1, <2>3 DEF OnCourse, Undisturbed
  <2>6. was[p] = IF prev[p] = NoReceipt THEN Absent ELSE Active(prev[p])
    BY <1>1, <2>1, <2>3 DEF OnCourse, Owned
  <2> QED
    BY <2>3, <2>4, <2>5, <2>6
<1>2. TypeOK /\ SwitchInv /\ CourseInv /\ [Next]_vars =>
        [\A p \in lock \ lock' :
           outcome' = "restored" /\ (was[p] = Absent => prev[p] = NoReceipt) =>
             /\ receipt' = prev[p]
             /\ calm => link' = was[p]]_vars
  BY <1>1
<1> QED
  BY <1>2, Course, PTL DEF Spec, RestoredWhenServed

\* What other tools put at the plugin path before a command began stays,
\* unless the command settles the journal of an earlier one.
THEOREM KeepsForeign == Spec => ForeignKept
<1>1. ASSUME TypeOK, SwitchInv, CourseInv, [Next]_vars,
             link' # link, link \in Foreign, calm', NEW p \in lock
      PROVE  pc[p] \in {"relink", "droplink"}
  <2>1. p \in Proc /\ OnCourse(p)
    BY <1>1 DEF TypeOK, CourseInv
  <2>2. link \notin Targets /\ link # Absent
    BY <1>1, Kinds DEF Foreign, Absent
  <2>3. Step(p) \/ Crash(p)
    BY <1>1, OwnStep DEF vars, files
  <2>4. calm /\ (pc[p] \in {"relink", "droplink", "remove"} \/ pc[p] = "swing")
    BY <1>1, <2>3, Writes
  <2> QED
    BY <2>1, <2>4, <2>2 DEF OnCourse, Undisturbed, Publishing
<1>2. TypeOK /\ SwitchInv /\ CourseInv /\ [Next]_vars =>
        [link' # link /\ link \in Foreign /\ calm' =>
           \A p \in lock : pc[p] \in {"relink", "droplink"}]_vars
  BY <1>1
<1> QED
  BY <1>2, Course, PTL DEF Spec, ForeignKept

\* rollback only links to a directory that has a digest and verifies, however
\* the commands before it ended.
THEOREM VerifiedRollBack == Spec => RollBackServesVerified
<1>1. ASSUME TypeOK, SwitchInv, CourseInv, [Next]_vars, NEW p \in lock,
             cmd[p] = "rollback", pc[p] = "swing", link' # link, calm'
      PROVE  dirs[link'] = "good" /\ link' \notin Legacy
  <2>1. p \in Proc /\ OnCourse(p)
    BY <1>1 DEF TypeOK, CourseInv
  <2>2. Step(p) \/ Crash(p)
    BY <1>1, OwnStep DEF vars, files
  <2>3. calm /\ link' = dst[p]
    BY <1>1, <2>2, Writes
  <2> QED
    BY <1>1, <2>1, <2>3 DEF OnCourse, Undisturbed, Verified
<1>2. TypeOK /\ SwitchInv /\ CourseInv /\ [Next]_vars =>
        [\A p \in lock :
           cmd[p] = "rollback" /\ pc[p] = "swing" /\ link' # link /\ calm' =>
             dirs[link'] = "good" /\ link' \notin Legacy]_vars
  BY <1>1
<1> QED
  BY <1>2, Course, PTL DEF Spec, RollBackServesVerified

-----------------------------------------------------------------------------
(* Refinement of DeploymentLog                                             *)

\* What one step makes of the receipt that would stand after recovery: only
\* the unlink of the journal at the end of a publication changes it.
LEMMA LogStep == TypeOK /\ SwitchInv /\ [Next]_vars => [Log!Next]_Recorded
<1> SUFFICES ASSUME TypeOK, SwitchInv, [Next]_vars
             PROVE  Log!Next \/ Recorded' = Recorded
  BY DEF Recorded
<1>1. \A p \in Proc : OnDisk(p)
  BY DEF SwitchInv
<1>2. ASSUME UNCHANGED <<receipt, journal>>
      PROVE  Recorded' = Recorded
  BY <1>2 DEF Recorded
<1>3. ASSUME NEW p \in Proc,
             \/ Recover(p) \/ Relink(p) \/ DropLink(p) \/ ValidateLive(p)
             \/ StageSnapshot(p) \/ Switch(p) \/ RollBack(p) \/ Undeploy(p)
             \/ Remove(p) \/ Status(p) \/ Swing(p) \/ Crash(p)
             \/ \E c \in Commands : Acquire(p, c)
      PROVE  Recorded' = Recorded
  BY <1>2, <1>3
  DEF Recover, Relink, DropLink, ValidateLive, StageSnapshot, Switch, RollBack,
      Undeploy, Remove, Status, Swing, Crash, Acquire, Refuse, files
<1>4. ASSUME NEW p \in Proc, Restore(p) \/ Save(p)
      PROVE  Recorded' = Recorded
  BY <1>1, <1>4 DEF Restore, Save, OnDisk, Recorded
<1>5. ASSUME NEW p \in Proc, Close(p)
      PROVE  Recorded' = Recorded
  BY <1>1, <1>5 DEF Close, OnDisk, Recorded, NoJournal
<1>6. ASSUME NEW p \in Proc, WriteJournal(p)
      PROVE  Recorded' = Recorded
  BY <1>1, <1>6 DEF WriteJournal, OnDisk, Recorded
<1>7. ASSUME NEW p \in Proc, Commit(p)
      PROVE  Log!Next \/ Recorded' = Recorded
  <2>1. /\ journal.open /\ journal.prev = prev[p] /\ receipt = Planned(p)
        /\ cmd[p] = "rollback" => prev[p].act > 1
    BY <1>1, <1>7 DEF Commit, OnDisk
  <2>2. receipt' = receipt /\ journal' \in {journal, NoJournal}
    BY <1>7 DEF Commit
  <2>3. CASE journal' = journal
    BY <1>2, <2>2, <2>3
  <2>4. CASE journal' = NoJournal
    <3>1. Recorded = prev[p] /\ Recorded' = Planned(p)
      BY <2>1, <2>2, <2>4 DEF Recorded, NoJournal
    <3>2. prev[p] \in Receipt /\ dst[p] \in Targets
      BY Written
    <3>3. CASE cmd[p] = "rollback"
      <4>1. Recorded' = [hist |-> Recorded.hist, act |-> Recorded.act - 1]
        BY <2>1, <3>1, <3>2, <3>3, StepBackReceipt DEF Planned
      <4> QED
        BY <2>1, <3>1, <3>3, <4>1 DEF Log!Next, Log!RollBack
    <3>4. CASE cmd[p] # "rollback"
      <4>1. Log!Deploy(dst[p])
        BY <3>1, <3>2, <3>4, PushReceipt DEF Planned, Log!Deploy
      <4> QED
        BY <3>2, <4>1 DEF Log!Next, Log!Targets, Targets
    <3> QED
      BY <3>3, <3>4
  <2> QED
    BY <2>2, <2>3, <2>4
<1>8. CASE Replace \/ (\E t \in Targets : Edit(t))
  BY <1>2, <1>8 DEF Replace, Edit, Touch
<1>9. CASE UNCHANGED vars
  BY <1>2, <1>9 DEF vars, files
<1> QED
  BY <1>3, <1>4, <1>5, <1>6, <1>7, <1>8, <1>9 DEF Next, Step

\* A crash, a failed write or another tool never makes the receipt record
\* anything but a whole deployment or a step back: deploy.rs implements the
\* log of deployments.
THEOREM Implements == Spec => ImplementsLog
<1>1. Init => Log!Init
  <2> SUFFICES ASSUME Init
               PROVE  Log!Init
    OBVIOUS
  <2>1. Recorded = receipt
    BY DEF Init, Recorded, NoJournal
  <2>2. CASE receipt = NoReceipt
    BY <2>1, <2>2 DEF Log!Init, Log!NoReceipt, NoReceipt
  <2>3. ASSUME NEW t \in Legacy, receipt = Push(NoReceipt, t)
        PROVE  Log!Init
    <3>1. Push(NoReceipt, t) = [hist |-> <<t>>, act |-> 1]
      BY DEF Push, NoReceipt
    <3> QED
      BY <2>1, <2>3, <3>1 DEF Log!Init
  <2> QED
    BY <2>2, <2>3 DEF Init
<1> QED
  BY <1>1, LogStep, Invariant, PTL DEF Spec, ImplementsLog, Log!Spec

-----------------------------------------------------------------------------
(* The copy that deploy_snapshot publishes, which module Snapshot models:  *)
(* it is consistent whatever the number of files and of edits, and in      *)
(* whatever order a pass reads.  What a pass reads is between the source at*)
(* the start and at the end of that pass; three passes that agree leave no *)
(* room for a change in between.                                           *)

\* Nothing has been read and nothing copied when the program starts.
LEMMA TakingInit == SnapshotInit => PassInv
BY DEF SnapshotInit, PassInv, SnapshotTypeOK, Content, Nothing, Phases, AtMost,
    Between, SnapshotIsAnInstant, SnapshotIsCurrent,
    RefusedOnlyIfChanged

\* Contents are ordered piece by piece.
LEMMA AtMostOrder ==
  ASSUME NEW a \in Content, NEW b \in Content, NEW c \in Content
  PROVE  /\ AtMost(a, a)
         /\ AtMost(a, b) /\ AtMost(b, c) => AtMost(a, c)
         /\ AtMost(a, b) /\ AtMost(b, a) => a = b
<1>1. AtMost(a, a)
  BY DEF Content, AtMost
<1>2. ASSUME AtMost(a, b), AtMost(b, c) PROVE AtMost(a, c)
  <2> SUFFICES ASSUME NEW x \in Pieces PROVE a[x] <= c[x]
    BY DEF AtMost
  <2>1. a[x] \in Nat /\ b[x] \in Nat /\ c[x] \in Nat
    BY DEF Content
  <2>2. a[x] <= b[x] /\ b[x] <= c[x]
    BY <1>2 DEF AtMost
  <2> QED BY <2>1, <2>2
<1>3. ASSUME AtMost(a, b), AtMost(b, a) PROVE a = b
  <2>1. \A x \in Pieces : a[x] = b[x]
    <3> TAKE x \in Pieces
    <3>1. a[x] \in Nat /\ b[x] \in Nat /\ a[x] <= b[x] /\ b[x] <= a[x]
      BY <1>3 DEF AtMost, Content
    <3> QED BY <3>1
  <2> QED BY <2>1 DEF Content
<1> QED BY <1>1, <1>2, <1>3

\* What a pass has read stays between its two ends when it reads one piece
\* more.
LEMMA Reading ==
  ASSUME NEW lo \in Content, NEW c \in Content, NEW hi \in Content,
         NEW x \in Pieces, seen \in SUBSET Pieces,
         AtMost(lo, hi), Between(lo, c, hi)
  PROVE  /\ [c EXCEPT ![x] = hi[x]] \in Content
         /\ \A y \in seen \cup {x} :
              /\ lo[y] <= [c EXCEPT ![x] = hi[x]][y]
              /\ [c EXCEPT ![x] = hi[x]][y] <= hi[y]
<1> DEFINE d == [c EXCEPT ![x] = hi[x]]
<1>1. hi[x] \in Nat
  BY DEF Content
<1>2. d \in Content
  BY <1>1 DEF Content
<1>3. ASSUME NEW y \in seen \cup {x} PROVE lo[y] <= d[y] /\ d[y] <= hi[y]
  <2>1. CASE y = x
    BY <2>1, <1>1 DEF Content, AtMost
  <2>2. CASE y # x
    <3>1. y \in seen /\ d[y] = c[y]
      BY <2>2 DEF Content
    <3> QED BY <3>1 DEF Between
  <2> QED BY <2>1, <2>2
<1> QED BY <1>2, <1>3

\* An edit makes the source a later one, for whatever was before it.
LEMMA Editing ==
  ASSUME src \in Content, NEW x \in Pieces, EditPiece(x)
  PROVE  src' \in Content /\ AtMost(src, src')
<1>1. src' = [src EXCEPT ![x] = src[x] + 1]
  BY DEF EditPiece
<1>2. src[x] \in Nat
  BY DEF Content
<1>3. src' \in Content
  BY <1>1, <1>2 DEF Content
<1>4. ASSUME NEW y \in Pieces PROVE src[y] <= src'[y]
  BY <1>1, <1>2 DEF Content
<1> QED BY <1>3, <1>4 DEF AtMost

\* A pass over everything is a content between its ends.
LEMMA WholePass ==
  ASSUME NEW lo, NEW c, NEW hi, seen = Pieces, Between(lo, c, hi)
  PROVE  AtMost(lo, c) /\ AtMost(c, hi)
BY DEF Between, AtMost

\* The types of a copy are kept.
LEMMA TakingType == SnapshotTypeOK /\ [SnapshotNext]_snapshotVars => SnapshotTypeOK'
<1> SUFFICES ASSUME SnapshotTypeOK, [SnapshotNext]_snapshotVars
             PROVE  SnapshotTypeOK'
  OBVIOUS
<1>0. Nothing \in Content /\ \A c \in Content, x \in Pieces :
                               [c EXCEPT ![x] = src[x]] \in Content
  BY DEF Content, Nothing, SnapshotTypeOK
<1>1. CASE Begin
  BY <1>1 DEF Begin, SnapshotTypeOK, Phases
<1>2. CASE StartCopy
  BY <1>2 DEF StartCopy, SnapshotTypeOK, Phases
<1>3. CASE StartRecheck
  BY <1>3 DEF StartRecheck, SnapshotTypeOK, Phases
<1>4. CASE Decide
  BY <1>4 DEF Decide, SnapshotTypeOK, Phases, ghosts
<1>5. CASE Return
  BY <1>0, <1>5 DEF Return, Forget, SnapshotTypeOK, Phases
<1>6. ASSUME NEW x \in Pieces, Fingerprint(x) PROVE SnapshotTypeOK'
  BY <1>0, <1>6 DEF Fingerprint, SnapshotTypeOK, ghosts
<1>7. ASSUME NEW x \in Pieces, Copy(x) PROVE SnapshotTypeOK'
  BY <1>0, <1>7 DEF Copy, SnapshotTypeOK, ghosts
<1>8. ASSUME NEW x \in Pieces, Recheck(x) PROVE SnapshotTypeOK'
  BY <1>0, <1>8 DEF Recheck, SnapshotTypeOK, ghosts
<1>9. ASSUME NEW x \in Pieces, EditPiece(x) PROVE SnapshotTypeOK'
  <2>1. src' \in Content
    BY <1>9, Editing DEF SnapshotTypeOK
  <2> QED BY <1>9, <2>1 DEF EditPiece, SnapshotTypeOK, ghosts
<1>10. CASE UNCHANGED snapshotVars
  BY <1>10 DEF snapshotVars, ghosts, SnapshotTypeOK
<1> QED
  BY <1>1, <1>2, <1>3, <1>4, <1>5, <1>6, <1>7, <1>8, <1>9, <1>10
  DEF SnapshotNext

\* The bounds on what each pass has read are kept by every step.
LEMMA TakingStep == PassInv /\ [SnapshotNext]_snapshotVars => PassInv'
<1> SUFFICES ASSUME PassInv, [SnapshotNext]_snapshotVars
             PROVE  PassInv'
  OBVIOUS
<1>0. SnapshotTypeOK /\ SnapshotTypeOK'
  BY TakingType DEF PassInv
<1>c. /\ src \in Content /\ fp \in Content /\ stage \in Content
      /\ check \in Content /\ first \in Content /\ before \in Content
      /\ after \in Content /\ src' \in Content /\ seen \in SUBSET Pieces
  BY <1>0 DEF SnapshotTypeOK
<1> USE DEF SnapshotIsAnInstant, SnapshotIsCurrent,
            RefusedOnlyIfChanged
<1>1. CASE Begin
  <2>1. seen' = {} /\ phase' = "fingerprint" /\ first' = src /\ src' = src
    BY <1>1 DEF Begin, PassInv
  <2>2. AtMost(first', src')
    BY <1>c, <2>1, AtMostOrder
  <2> QED
    BY <1>0, <2>1, <2>2 DEF PassInv, Between
<1>2. CASE StartCopy
  <2>1. /\ phase = "fingerprint" /\ seen = Pieces /\ phase' = "copy"
        /\ seen' = {} /\ before' = src
        /\ UNCHANGED <<src, fp, stage, check, first, after>>
    BY <1>2 DEF StartCopy
  <2>2. AtMost(first, src) /\ Between(first, fp, src)
    BY <2>1 DEF PassInv
  <2>3. AtMost(first, fp) /\ AtMost(fp, src)
    BY <2>1, <2>2, WholePass
  <2>4. AtMost(src, src)
    BY <1>c, AtMostOrder
  <2> QED
    BY <1>0, <2>1, <2>2, <2>3, <2>4 DEF PassInv, Between
<1>3. CASE StartRecheck
  <2>1. /\ phase = "copy" /\ seen = Pieces /\ phase' = "recheck"
        /\ seen' = {} /\ after' = src
        /\ UNCHANGED <<src, fp, stage, check, first, before>>
    BY <1>3 DEF StartRecheck
  <2>2. /\ AtMost(first, src) /\ AtMost(first, fp) /\ AtMost(fp, before)
        /\ AtMost(before, src) /\ Between(before, stage, src)
    BY <2>1 DEF PassInv
  <2>3. AtMost(before, stage) /\ AtMost(stage, src)
    BY <2>1, <2>2, WholePass
  <2>4. AtMost(src, src)
    BY <1>c, AtMostOrder
  <2> QED
    BY <1>0, <2>1, <2>2, <2>3, <2>4 DEF PassInv, Between
<1>4. CASE Decide
  <2>1. /\ phase = "recheck" /\ seen = Pieces
        /\ phase' = CASE stage # fp \/ check # fp -> "changed"
                      [] stage = fp /\ check = fp /\ Valid(stage) -> "published"
                      [] OTHER -> "invalid"
        /\ UNCHANGED <<src, seen, fp, stage, check, first, before, after>>
    BY <1>4 DEF Decide, ghosts
  <2>2. /\ AtMost(first, src) /\ AtMost(first, fp) /\ AtMost(fp, before)
        /\ AtMost(before, src) /\ AtMost(before, stage)
        /\ AtMost(stage, after) /\ AtMost(after, src)
        /\ Between(after, check, src)
    BY <2>1 DEF PassInv
  <2>3. AtMost(after, check) /\ AtMost(check, src)
    BY <2>1, <2>2, WholePass
  <2>4. phase' = "published" => stage = before /\ stage = after
    <3> SUFFICES ASSUME phase' = "published"
                 PROVE  stage = before /\ stage = after
      OBVIOUS
    <3>1. stage = fp /\ check = fp
      BY <2>1
    <3>2. AtMost(stage, before) /\ AtMost(after, stage)
      BY <2>2, <2>3, <3>1
    <3> QED
      BY <1>c, <2>2, <3>1, <3>2, AtMostOrder
  <2>5. phase' = "changed" => src # first
    <3> SUFFICES ASSUME src = first PROVE stage = fp /\ check = fp
      BY <2>1
    <3>1. fp = first
      BY <1>c, <2>2, AtMostOrder
    <3>2. before = first
      BY <1>c, <2>2, <3>1, AtMostOrder
    <3>3. after = first
      BY <1>c, <2>2, <3>2, AtMostOrder
    <3>4. stage = first
      BY <1>c, <2>2, <3>2, <3>3, AtMostOrder
    <3>5. check = first
      BY <1>c, <2>2, <2>3, <3>3, AtMostOrder
    <3> QED BY <3>1, <3>4, <3>5
  <2>6. phase' \in {"changed", "published", "invalid"}
    BY <2>1
  <2> QED
    BY <1>0, <2>1, <2>2, <2>4, <2>5, <2>6 DEF PassInv
<1>5. CASE Return
  BY <1>0, <1>5 DEF Return, Forget, PassInv
<1>6. ASSUME NEW x \in Pieces, Fingerprint(x) PROVE PassInv'
  <2>1. /\ phase = "fingerprint" /\ seen' = seen \cup {x}
        /\ fp' = [fp EXCEPT ![x] = src[x]]
        /\ UNCHANGED <<src, phase, stage, check, first, before, after>>
    BY <1>6 DEF Fingerprint, ghosts
  <2>2. AtMost(first, src) /\ Between(first, fp, src)
    BY <2>1 DEF PassInv
  <2>3. Between(first, fp, src)'
    BY <1>c, <2>1, <2>2, Reading DEF Between
  <2> QED
    BY <1>0, <2>1, <2>2, <2>3 DEF PassInv
<1>7. ASSUME NEW x \in Pieces, Copy(x) PROVE PassInv'
  <2>1. /\ phase = "copy" /\ seen' = seen \cup {x}
        /\ stage' = [stage EXCEPT ![x] = src[x]]
        /\ UNCHANGED <<src, phase, fp, check, first, before, after>>
    BY <1>7 DEF Copy, ghosts
  <2>2. /\ AtMost(first, src) /\ AtMost(first, fp) /\ AtMost(fp, before)
        /\ AtMost(before, src) /\ Between(before, stage, src)
    BY <2>1 DEF PassInv
  <2>3. Between(before, stage, src)'
    <3>1. \A y \in seen \cup {x} :
            /\ before[y] <= [stage EXCEPT ![x] = src[x]][y]
            /\ [stage EXCEPT ![x] = src[x]][y] <= src[y]
      BY <1>c, <2>2, Reading
    <3> QED BY <2>1, <3>1 DEF Between
  <2> QED
    BY <1>0, <2>1, <2>2, <2>3 DEF PassInv
<1>8. ASSUME NEW x \in Pieces, Recheck(x) PROVE PassInv'
  <2>1. /\ phase = "recheck" /\ seen' = seen \cup {x}
        /\ check' = [check EXCEPT ![x] = src[x]]
        /\ UNCHANGED <<src, phase, fp, stage, first, before, after>>
    BY <1>8 DEF Recheck, ghosts
  <2>2. /\ AtMost(first, src) /\ AtMost(first, fp) /\ AtMost(fp, before)
        /\ AtMost(before, src) /\ AtMost(before, stage)
        /\ AtMost(stage, after) /\ AtMost(after, src)
        /\ Between(after, check, src)
    BY <2>1 DEF PassInv
  <2>3. Between(after, check, src)'
    BY <1>c, <2>1, <2>2, Reading DEF Between
  <2> QED
    BY <1>0, <2>1, <2>2, <2>3 DEF PassInv
<1>9. ASSUME NEW x \in Pieces, EditPiece(x) PROVE PassInv'
  <2>1. /\ AtMost(src, src')
        /\ UNCHANGED <<phase, seen, fp, stage, check, first, before, after>>
    BY <1>0, <1>9, Editing DEF EditPiece, ghosts, SnapshotTypeOK
  <2>2. \A c \in Content : AtMost(c, src) => AtMost(c, src')
    BY <1>c, <2>1, AtMostOrder
  <2>3. \A lo, c \in Content : Between(lo, c, src) => Between(lo, c, src)'
    <3> SUFFICES ASSUME NEW lo \in Content, NEW c \in Content,
                        Between(lo, c, src), NEW y \in seen
                 PROVE  lo[y] <= c[y] /\ c[y] <= src'[y]
      BY <2>1 DEF Between
    <3>1. y \in Pieces /\ c[y] \in Nat /\ src[y] \in Nat /\ src'[y] \in Nat
      BY <1>c DEF Content
    <3>2. lo[y] <= c[y] /\ c[y] <= src[y] /\ src[y] <= src'[y]
      BY <2>1, <3>1 DEF Between, AtMost
    <3> QED BY <3>1, <3>2
  <2>4. phase = "changed" => src' # first
    <3> SUFFICES ASSUME phase = "changed", src' = first PROVE FALSE
      OBVIOUS
    <3>1. AtMost(first, src) /\ src # first
      BY DEF PassInv
    <3> QED BY <1>c, <2>1, <3>1, AtMostOrder
  <2>5. IF phase = "idle" THEN seen = {} ELSE AtMost(first, src')
    BY <1>c, <2>2 DEF PassInv
  <2>6. phase = "fingerprint" => Between(first, fp, src)'
    BY <1>c, <2>1, <2>3 DEF PassInv
  <2>7. phase = "copy" => Between(before, stage, src)'
    BY <1>c, <2>1, <2>3 DEF PassInv
  <2>8. phase = "recheck" => Between(after, check, src)' /\ AtMost(after, src')
    BY <1>c, <2>1, <2>2, <2>3 DEF PassInv
  <2>9. phase \in {"copy", "recheck"} => AtMost(before, src')
    BY <1>c, <2>2 DEF PassInv
  <2> QED
    BY <1>0, <2>1, <2>4, <2>5, <2>6, <2>7, <2>8, <2>9 DEF PassInv
<1>10. CASE UNCHANGED snapshotVars
  BY <1>0, <1>10
  DEF snapshotVars, ghosts, PassInv, Between, AtMost
<1> QED
  BY <1>1, <1>2, <1>3, <1>4, <1>5, <1>6, <1>7, <1>8, <1>9, <1>10
  DEF SnapshotNext

\* What each pass has read lies between the source at its two ends, for any
\* set of files and any number of edits.
THEOREM Passes == SnapshotSpec => []PassInv
BY TakingInit, TakingStep, PTL DEF SnapshotSpec

\* A published snapshot is the source as it was at one instant.
THEOREM Instant == SnapshotSpec => []SnapshotIsAnInstant
<1>1. PassInv => SnapshotIsAnInstant
  BY DEF PassInv
<1> QED BY <1>1, Passes, PTL

\* No edit made while the copy was running is left out of it.
THEOREM Current == SnapshotSpec => []SnapshotIsCurrent
<1>1. PassInv => SnapshotIsCurrent
  BY DEF PassInv
<1> QED BY <1>1, Passes, PTL

\* A source nobody edited is never refused as changed.
THEOREM Quiet == SnapshotSpec => []RefusedOnlyIfChanged
<1>1. PassInv => RefusedOnlyIfChanged
  BY DEF PassInv
<1> QED BY <1>1, Passes, PTL
=============================================================================
