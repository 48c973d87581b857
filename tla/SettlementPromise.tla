--------------------------- MODULE SettlementPromise ---------------------------
(***************************************************************************)
(* What settlement promises: money moves in atomic steps.  One application *)
(* moves every row it names at once, judged by the totals of that moment,  *)
(* and once per idempotency key; one posting moves one account.            *)
(***************************************************************************)
EXTENDS SettlementData

VARIABLES running, ledger, keyed, header, active

promised == <<running, ledger, keyed, header, active>>

Init ==
  /\ running = [d \in Docs |-> 0]
  /\ ledger = [d \in Docs |-> 0]
  /\ keyed = [p \in Payments |-> [k \in Keys |-> <<>>]]
  /\ header \in [Docs -> Amounts \cup {None}]
  /\ active \in [Accounts -> BOOLEAN]

\* A row that states no total of its own is bounded by its lines, which
\* other requests may change at any time.
Allowed(d, after) ==
  /\ header[d] # None => InBounds(d, after, header[d])
  /\ d \in Accounts => active[d]

Apply(b, k) ==
  /\ k # None => keyed[b.pay][k] = <<>>
  /\ \A d \in LockSet(b) : Allowed(d, running[d] + Move(b, d))
  /\ running' = Moved(running, b)
  /\ ledger' = Moved(ledger, b)
  /\ keyed' = IF k = None THEN keyed ELSE [keyed EXCEPT ![b.pay][k] = <<b>>]
  /\ UNCHANGED <<header, active>>

Post(a, amount) ==
  /\ Allowed(a, running[a] + amount)
  /\ running' = [running EXCEPT ![a] = @ + amount]
  /\ ledger' = [ledger EXCEPT ![a] = @ + amount]
  /\ UNCHANGED <<keyed, header, active>>

\* Requests that restate a header or freeze an account move no money.
Restate ==
  /\ header' \in [Docs -> Amounts \cup {None}]
  /\ active' \in [Accounts -> BOOLEAN]
  /\ UNCHANGED <<running, ledger, keyed>>

Next ==
  \/ \E b \in Bodies, k \in Keys \cup {None} : Apply(b, k)
  \/ \E a \in Accounts, amount \in Postings : Post(a, amount)
  \/ Restate

Spec == Init /\ [][Next]_promised
=============================================================================
