----------------------------- MODULE ReviewLog -----------------------------
(***************************************************************************)
(* What the workbench promises about imported reviews: they form one       *)
(* sequence that only grows, each newer by its stamp than all before it,   *)
(* and a ready one confirms the fix of every finding its predecessor made  *)
(* at another commit.                                                      *)
(***************************************************************************)
EXTENDS ReviewChain

VARIABLE log

Init == log = <<>>

Land(record) ==
  /\ record \in Record
  /\ \A i \in DOMAIN log : log[i].stamp < record.stamp
  /\ log # <<>> => Covers(log[Len(log)].review, record.review)
  /\ log' = Append(log, record)

Next == log' # <<>> /\ Land(log'[Len(log')])

Spec == Init /\ [][Next]_log

-----------------------------------------------------------------------------
(* What follows from it                                                    *)

\* The n-th review lets go of f without a word: it is not ready, or it
\* reviews once more the commit of the review before it.
Drops(n, f) ==
  LET review == log[n].review IN
    /\ f \notin review.findings
    /\ \/ review.verdict # "ready"
       \/ n > 1 /\ log[n - 1].review.revision = review.revision

\* A finding stays on the record until a later review confirms its fix or
\* drops it.
FindingsTraced ==
  \A m, n \in DOMAIN log : m <= n =>
    \A f \in log[m].review.findings :
      \/ f \in log[n].review.findings
      \/ \E k \in m + 1 .. n : f \in log[k].review.confirmed \/ Drops(k, f)
=============================================================================
