------------------------------ MODULE MCDatabases ------------------------------
(* Instance of Databases for TLC: the processes, rows and names other than *)
(* the first one are interchangeable.                                      *)
EXTENDS Databases, TLC

CONSTANTS p1, p2, mem, a, b, r1, s1, s2, m1, m2

MCSymmetry == Permutations({p1, p2})
                \cup Permutations({a, b}) \cup Permutations({s1, s2})
                \cup Permutations({m1, m2})
================================================================================
