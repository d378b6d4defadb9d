------------------------------ MODULE Snapshot ------------------------------
(***************************************************************************)
(* How deploy_snapshot copies a plugin source that its author may be       *)
(* editing: fingerprint the source, copy it, fingerprint the copy and the  *)
(* source again, and publish only if all three agree.                      *)
(*                                                                         *)
(* The content is a set of pieces, each as much as one read returns, so    *)
(* that a file caught half-written is pieces of different age.  A piece    *)
(* has a version; the hash of a pass is the version of every piece at the  *)
(* moment that pass read it.  An edit never brings back a content an       *)
(* earlier version of the piece had while one snapshot is taken.           *)
(*                                                                         *)
(* Deploy has one step for all of this; no name here is one of Deploy's,   *)
(* so that DeployProofs can be about both.                                 *)
(***************************************************************************)
EXTENDS Naturals

CONSTANTS
  Pieces,       \* what is read of the source, file names included
  Manifest,     \* the piece on which the validity of the plugin depends
  Broken,       \* the versions of it that do not validate
  MaxEdits      \* bound: edits of one piece

ASSUME SourceAssumption ==
  /\ Manifest \in Pieces
  /\ Broken \subseteq Nat
  /\ MaxEdits \in Nat

VARIABLES
  src,      \* the source
  phase,    \* where the command is
  seen,     \* the pieces the current pass has read
  fp,       \* what the first fingerprint found
  stage,    \* the copy
  check,    \* what the second fingerprint of the source found
  first,    \* the source when the command began   (observed only)
  before,   \* the source when the copy began      (observed only)
  after     \* the source when the copy was done   (observed only)

ghosts == <<first, before, after>>
snapshotVars == <<src, phase, seen, fp, stage, check, ghosts>>

Content == [Pieces -> Nat]

Nothing == [x \in Pieces |-> 0]

Phases == {"idle", "fingerprint", "copy", "recheck",
           "published", "changed", "invalid"}

SnapshotTypeOK ==
  /\ src \in Content
  /\ phase \in Phases
  /\ seen \in SUBSET Pieces
  /\ fp \in Content /\ stage \in Content /\ check \in Content
  /\ first \in Content /\ before \in Content /\ after \in Content

Valid(c) == c[Manifest] \notin Broken

Forget ==
  /\ seen' = {}
  /\ fp' = Nothing /\ stage' = Nothing /\ check' = Nothing
  /\ first' = Nothing /\ before' = Nothing /\ after' = Nothing

SnapshotInit ==
  /\ src = Nothing
  /\ phase = "idle"
  /\ seen = {}
  /\ fp = Nothing /\ stage = Nothing /\ check = Nothing
  /\ first = Nothing /\ before = Nothing /\ after = Nothing

\* The source itself is validated first; an invalid one is refused.
Begin ==
  /\ phase = "idle"
  /\ Valid(src)
  /\ phase' = "fingerprint"
  /\ first' = src
  /\ UNCHANGED <<src, seen, fp, stage, check, before, after>>

Fingerprint(x) ==
  /\ phase = "fingerprint"
  /\ x \notin seen
  /\ fp' = [fp EXCEPT ![x] = src[x]]
  /\ seen' = seen \cup {x}
  /\ UNCHANGED <<src, phase, stage, check, ghosts>>

StartCopy ==
  /\ phase = "fingerprint" /\ seen = Pieces
  /\ phase' = "copy"
  /\ seen' = {}
  /\ before' = src
  /\ UNCHANGED <<src, fp, stage, check, first, after>>

Copy(x) ==
  /\ phase = "copy"
  /\ x \notin seen
  /\ stage' = [stage EXCEPT ![x] = src[x]]
  /\ seen' = seen \cup {x}
  /\ UNCHANGED <<src, phase, fp, check, ghosts>>

StartRecheck ==
  /\ phase = "copy" /\ seen = Pieces
  /\ phase' = "recheck"
  /\ seen' = {}
  /\ after' = src
  /\ UNCHANGED <<src, fp, stage, check, first, before>>

Recheck(x) ==
  /\ phase = "recheck"
  /\ x \notin seen
  /\ check' = [check EXCEPT ![x] = src[x]]
  /\ seen' = seen \cup {x}
  /\ UNCHANGED <<src, phase, fp, stage, ghosts>>

\* Seeded fault: one comparison that agrees is enough.
DecideEither ==
  /\ phase = "recheck" /\ seen = Pieces
  /\ phase' = CASE stage # fp /\ check # fp -> "changed"
                [] (stage = fp \/ check = fp) /\ Valid(stage) -> "published"
                [] OTHER -> "invalid"
  /\ UNCHANGED <<src, seen, fp, stage, check, ghosts>>

\* Seeded fault: the fingerprints are not compared.
DecideAlways ==
  /\ phase = "recheck" /\ seen = Pieces
  /\ phase' = IF Valid(stage) THEN "published" ELSE "invalid"
  /\ UNCHANGED <<src, seen, fp, stage, check, ghosts>>

\* Compare, validate the copy, and rename it to its final name; or remove it.
Decide ==
  /\ phase = "recheck" /\ seen = Pieces
  /\ phase' = CASE stage # fp \/ check # fp -> "changed"
                [] stage = fp /\ check = fp /\ Valid(stage) -> "published"
                [] OTHER -> "invalid"
  /\ UNCHANGED <<src, seen, fp, stage, check, ghosts>>

\* The command returns, or its process dies on the way.
Return ==
  /\ phase # "idle"
  /\ phase' = "idle"
  /\ Forget
  /\ UNCHANGED src

EditPiece(x) ==
  /\ src[x] < MaxEdits
  /\ src' = [src EXCEPT ![x] = @ + 1]
  /\ UNCHANGED <<phase, seen, fp, stage, check, ghosts>>

SnapshotNext ==
  \/ Begin \/ StartCopy \/ StartRecheck \/ Decide \/ Return
  \/ \E x \in Pieces : Fingerprint(x) \/ Copy(x) \/ Recheck(x) \/ EditPiece(x)

SnapshotSpec == SnapshotInit /\ [][SnapshotNext]_snapshotVars

-----------------------------------------------------------------------------
\* A published snapshot is the source as it was at one instant, whatever was
\* edited while it was taken: never one file of before an edit next to one
\* of after it.
SnapshotIsAnInstant == phase = "published" => stage = before

\* It is even the source as it was when the copy was complete: an edit made
\* during the copy is never left out of what is published.
SnapshotIsCurrent == phase = "published" => stage = after

\* "plugin source changed during snapshot copy" is only reported of a source
\* that did change.
RefusedOnlyIfChanged == phase = "changed" => src # first

-----------------------------------------------------------------------------
(* Why: what a pass reads lies between the source at its two ends.         *)

Between(lo, c, hi) == \A x \in seen : lo[x] <= c[x] /\ c[x] <= hi[x]

AtMost(lo, hi) == \A x \in Pieces : lo[x] <= hi[x]

PassInv ==
  /\ SnapshotTypeOK
  /\ IF phase = "idle" THEN seen = {} ELSE AtMost(first, src)
  /\ phase = "fingerprint" => Between(first, fp, src)
  /\ phase \in {"copy", "recheck"} =>
       AtMost(first, fp) /\ AtMost(fp, before) /\ AtMost(before, src)
  /\ phase = "copy" => Between(before, stage, src)
  /\ phase = "recheck" =>
       /\ AtMost(before, stage) /\ AtMost(stage, after) /\ AtMost(after, src)
       /\ Between(after, check, src)
  /\ SnapshotIsAnInstant /\ SnapshotIsCurrent /\ RefusedOnlyIfChanged
=============================================================================
