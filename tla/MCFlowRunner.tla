----------------------------- MODULE MCFlowRunner -----------------------------
(* An instance of FlowRunner for TLC: one replica with two subscriptions,   *)
(* and two replicas with one.                                              *)
EXTENDS FlowRunner

CONSTANTS w1, w2

MCFleets == {<<{w1}, {1, 2}>>, <<{w1, w2}, {1}>>}

\* One replica, and three subscriptions that are all on.
OneFleet == {<<{w1}, {1, 2, 3}>>}
=============================================================================
