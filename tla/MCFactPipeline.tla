--------------------------- MODULE MCFactPipeline ---------------------------
(* Constants of the TLC instances of FactPipeline. *)
EXTENDS FactPipeline, TLC

CONSTANTS p1, p2, t1, t2, t3
MCSeeds == <<t1, t2>>
MCMetas == {[Plain EXCEPT !.strong = TRUE], [Plain EXCEPT !.high = TRUE]}
MCNoSeeds == <<>>
MCSymmetry == Permutations({p1, p2})
================================================================================
