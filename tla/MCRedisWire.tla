---------------------------- MODULE MCRedisWire ----------------------------
(* Values for model checking RedisWire: one key for each of two processes, *)
(* or two keys of one process that others precede.                         *)
EXTENDS RedisWire, TLC

CONSTANTS c1, c2, k1, k2, k3

MCIssuedBy == (k1 :> c1) @@ (k2 :> c2)
OneIssued == k1 :> c1
=============================================================================
