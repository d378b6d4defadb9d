----------------------------- MODULE MCReviews -----------------------------
EXTENDS Reviews, TLC

CONSTANTS p1, p2, r1, r2, f, a, b

Symmetry == Permutations({p1, p2})

\* The second revision has an executable, and another one under vendor.
Executables == (r1 :> {}) @@ (r2 :> {a, b})

Says(r, verdict, findings, confirmed, provenance) ==
  [revision |-> r, verdict |-> verdict, findings |-> findings,
   confirmed |-> confirmed, provenance |-> provenance,
   open |-> verdict # "ready", bulky |-> FALSE]

\* Ready and not, with and without a finding, with and without the executable
\* of the second revision, with and without the fix of the finding.
Reports ==
  {Says(r1, "needs-fixes", {f}, {}, {}),
   Says(r1, "incomplete", {}, {}, {}),
   Says(r1, "ready", {f}, {}, {}),
   Says(r2, "ready", {}, {}, {a}),
   Says(r2, "ready", {}, {f}, {a}),
   Says(r2, "ready", {}, {f}, {})}

\* Reports with blockers, and one that outgrows the limit when it is stored.
LargeReports ==
  {[Says(r1, "ready", {}, {}, {}) EXCEPT !.open = TRUE],
   [Says(r1, "ready", {}, {}, {}) EXCEPT !.bulky = TRUE],
   Says(r1, "incomplete", {}, {}, {})}
=============================================================================
