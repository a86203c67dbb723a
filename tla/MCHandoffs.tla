----------------------------- MODULE MCHandoffs -----------------------------
(* Values for model checking Handoffs: two keys whose contexts differ.     *)
EXTENDS Handoffs, TLC

CONSTANTS h1, h2, c1, c2

MCRefOf == (h1 :> c1) @@ (h2 :> c2)
OneRefOf == h1 :> c1
=============================================================================
