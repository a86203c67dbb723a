--------------------------- MODULE MCCoordinator ---------------------------
(* Values for model checking CoordinatorProps.                             *)
EXTENDS CoordinatorProps, TLC

CONSTANTS a, u, w

MCWorkspaceOf == [k \in Keys |-> w]

(* No call builds on another, or u builds on a.                            *)
NoRequires == [k \in Keys |-> {}]
ChainRequires == [k \in Keys |-> IF k = u THEN {a} ELSE {}]

(* Processes differ in nothing; the calls a and u have different roles.     *)
MCSymmetry == Permutations(Nodes)
=============================================================================
