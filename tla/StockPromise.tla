----------------------------- MODULE StockPromise -----------------------------
(***************************************************************************)
(* What the inventory ledger promises to whoever asks it for goods: every  *)
(* movement is one atomic step, a hold is taken only from what is still    *)
(* available and given back only from what is held, and a shipment or a    *)
(* stock document moves goods at most once.  The quantities of a step are  *)
(* read off the step itself.                                               *)
(***************************************************************************)
EXTENDS Integers

CONSTANTS Positions, Orders, Sources

VARIABLES onhand, promise, hold, spent

promised == <<onhand, promise, hold, spent>>

Grown(p) == onhand'[p] - onhand[p]
Freed(p) == promise'[p] - promise[p]
Held(o, p) == hold'[o][p] - hold[o][p]

\* Only the holds of order o change, and they stay quantities.
HoldsOf(o) ==
  /\ \A other \in Orders \ {o} : hold'[other] = hold[other]
  /\ \A p \in Positions : hold'[o][p] >= 0

Init ==
  /\ promise = onhand
  /\ hold = [o \in Orders |-> [p \in Positions |-> 0]]
  /\ spent = {}

\* A hold is taken from what is available, position by position.
Reserve(o) ==
  /\ HoldsOf(o)
  /\ \A p \in Positions :
       /\ Held(o, p) >= 0
       /\ Freed(p) = - Held(o, p)
       /\ Held(o, p) > 0 => promise'[p] >= 0
  /\ UNCHANGED <<onhand, spent>>

\* What is given back becomes available again.
Release(o) ==
  /\ HoldsOf(o)
  /\ \A p \in Positions : Held(o, p) <= 0 /\ Freed(p) = - Held(o, p)
  /\ UNCHANGED <<onhand, spent>>

\* Goods leave for an order: its hold is consumed first, and the promise falls
\* only by what was not promised already.
Consume(s, o) ==
  /\ s \notin spent /\ spent' = spent \cup {s}
  /\ HoldsOf(o)
  /\ \A p \in Positions :
       /\ Grown(p) <= Held(o, p) /\ Held(o, p) <= 0
       /\ Freed(p) = Grown(p) - Held(o, p)
       /\ Grown(p) < Held(o, p) => hold'[o][p] = 0

\* Any other movement is goods and promise alike; a source moves once, while
\* receipts and counts come as often as they come.
Move ==
  /\ \A p \in Positions : Grown(p) = Freed(p)
  /\ UNCHANGED hold

Post(s) == Move /\ s \notin spent /\ spent' = spent \cup {s}

Next ==
  \/ \E o \in Orders : Reserve(o) \/ Release(o)
  \/ \E s \in Sources, o \in Orders : Consume(s, o)
  \/ \E s \in Sources : Post(s)
  \/ Move /\ UNCHANGED spent

Spec == Init /\ [][Next]_promised
=============================================================================
