--------------------------- MODULE DeploymentLog ---------------------------
(***************************************************************************)
(* What deploy.rs promises about a plugin's deployments, free of files,    *)
(* locks and crashes: one receipt that changes in indivisible steps, each  *)
(* of which either records a new deployment or goes back to the one before *)
(* the active one.  Nothing else ever changes it.                          *)
(***************************************************************************)
EXTENDS Receipts

VARIABLE log

Init ==
  \/ log = NoReceipt
  \/ \E t \in Legacy : log = [hist |-> <<t>>, act |-> 1]

\* The deployments up to the active one stay, those ahead of it are dropped.
Deploy(t) ==
  log' = [hist |-> [i \in 1 .. log.act + 1 |->
                      IF i <= log.act THEN log.hist[i] ELSE t],
          act |-> log.act + 1]

RollBack ==
  /\ log.act > 1
  /\ log' = [hist |-> log.hist, act |-> log.act - 1]

Next == (\E t \in Targets : Deploy(t)) \/ RollBack

Spec == Init /\ [][Next]_log
=============================================================================
