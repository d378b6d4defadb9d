---------------------------- MODULE ReviewChain ----------------------------
(***************************************************************************)
(* src/security.rs: what a report says, and which of the imported ones     *)
(* counts.                                                                 *)
(*                                                                         *)
(* A finding is its id; of a fix entry only those that say "confirmed" are *)
(* kept, since any other is worth no more than none.  Severities, blockers *)
(* and the rest of a report's text come down to whether it leaves          *)
(* something open.                                                         *)
(***************************************************************************)
EXTENDS Naturals, Sequences

CONSTANTS
  Revision,
  Finding,
  Artifact,     \* paths of executable files
  None          \* no review

Verdict == {"ready", "needs-fixes", "incomplete"}

Review == [revision : Revision,
           verdict : Verdict,
           findings : SUBSET Finding,
           confirmed : SUBSET Finding,     \* fixes of earlier findings
           provenance : SUBSET Artifact,   \* executables accounted for
           open : BOOLEAN,    \* blockers, or findings of medium and above
           bulky : BOOLEAN]   \* within the size limit only as it was sent

ASSUME NoneAssumption == None \notin Review

\* The file name of a record starts with its stamp, and so does its content.
Record == [review : Review, stamp : Nat]

NewestOf(log, among) ==
  CHOOSE i \in among : \A j \in among : log[j].stamp <= log[i].stamp

Newest(log) == NewestOf(log, DOMAIN log)

Latest(log) == IF log = <<>> THEN None ELSE log[Newest(log)].review

Stamp(log) == IF log = <<>> THEN 0 ELSE log[Newest(log)].stamp

\* Seeded fault: fixes are asked of every review but a ready one.
CoversUnready(previous, review) ==
  /\ previous # None /\ previous.revision # review.revision
  /\ review.verdict # "ready"
  => previous.findings \subseteq review.confirmed

\* validate_fix_coverage
Covers(previous, review) ==
  /\ previous # None /\ previous.revision # review.revision
  /\ review.verdict = "ready"
  => previous.findings \subseteq review.confirmed
=============================================================================
