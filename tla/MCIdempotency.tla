---------------------------- MODULE MCIdempotency ----------------------------
(* An attempt, its retry and a third request that reuses the key. *)
EXTENDS Idempotency

CONSTANTS first, retry, other, order, refund

MCAsks == [a \in Attempts |-> IF a = other THEN refund ELSE order]
=============================================================================
