-------------------------- MODULE MCRelationReview --------------------------
(* Constants of the TLC instances of RelationReview. *)
EXTENDS RelationReview, TLC

CONSTANTS p1, p2, t1, t2
\* t1 mentions a name besides its area.
MCMentions == (t1 :> <<3>>) @@ (t2 :> <<>>)
MCArea == (t1 :> 1) @@ (t2 :> 2)
MCFirst == <<t1, t2>>
MCSymmetry == Permutations({p1, p2})
================================================================================
