------------------------------ MODULE MCRecords ------------------------------
(* Constants of the TLC instances of Records. *)
EXTENDS Records, TLC

CONSTANTS p1, p2, d1, text1, text2, source1, issue1, issue2, val1, val2, sig1, sig2, key1, key2
MCChunks == d1 :> 2
MCSymmetry ==
  UNION {Permutations(values) :
           values \in {{p1, p2}, {text1, text2}, {issue1, issue2}, {val1, val2}, {sig1, sig2}, {key1, key2}}}
================================================================================
