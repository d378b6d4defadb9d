------------------------------ MODULE MCTasks ------------------------------
EXTENDS Tasks, TLC

CONSTANTS p1, p2, r1, r2, m1, m2, t1, t2, abc

Symmetry == Permutations({p1, p2}) \cup Permutations({r1, r2})

\* m1 is "a" and m2 "a-b", t1 is "b-c" and t2 "c".
Names == [path \in {m1, m2} \X {t1, t2} |->
            IF path \in {<<m1, t1>>, <<m2, t2>>} THEN abc ELSE path]
=============================================================================
