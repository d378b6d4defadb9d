------------------------------ MODULE Receipts ------------------------------
(***************************************************************************)
(* The deployment receipt of one plugin: the ordered history of the        *)
(* directories the plugin has been deployed from, and the index of the     *)
(* active one.  A receipt that does not exist on disk is the empty one.    *)
(* An entry is represented by its target directory alone; whether it is a  *)
(* live link or a snapshot follows from the directory.                     *)
(***************************************************************************)
EXTENDS Naturals, Sequences

CONSTANTS
  Live,       \* the plugin's own checkout: the target of a live link
  Snapshots,  \* the snapshot directories that can ever exist
  Legacy      \* those recorded by an older release, without a content digest

ASSUME DirectoryAssumption ==
  /\ Live \notin Snapshots
  /\ Legacy \subseteq Snapshots

Targets == Snapshots \cup {Live}

\* Indices are counted from 1 here and from 0 in the code.
Receipt == {r \in [hist : Seq(Targets), act : Nat] :
              /\ r.act \in 0 .. Len(r.hist)
              /\ r.act = 0 <=> r.hist = << >>}

NoReceipt == [hist |-> << >>, act |-> 0]

Active(r) == r.hist[r.act]

\* Seeded fault: the entries ahead of the active one are kept.
PushOnTop(r, t) == [hist |-> Append(r.hist, t), act |-> Len(r.hist) + 1]

\* Deploying after a rollback drops the entries ahead of the active one.
Push(r, t) == [hist |-> Append(SubSeq(r.hist, 1, r.act), t), act |-> r.act + 1]

StepBack(r) == [r EXCEPT !.act = r.act - 1]
=============================================================================
