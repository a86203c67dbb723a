---------------------------- MODULE MCOutboxLog ----------------------------
(* Values for model checking OutboxLog.                                    *)
EXTENDS OutboxLog

CONSTANTS k1, k2, k3, p, q
=============================================================================
