---------------------------- MODULE SettlementData ----------------------------
(***************************************************************************)
(* The rows settlement moves money between, the bodies of                  *)
(* POST /payments/{id}/apply, and the arithmetic the code does on them.    *)
(* Amounts are integer cents: the columns are NUMERIC(.., 2), the requests *)
(* refuse a third decimal, and CENT (0.005) is slack for floating point    *)
(* alone, so that on whole cents every comparison is exact.                *)
(***************************************************************************)
EXTENDS Integers, Sequences, FiniteSets, FiniteSetsExt

CONSTANTS
  Payments, Invoices, Claims, Accounts,  \* row ids, one set per table
  Keys,          \* idempotency keys a caller may put in an apply body
  Bodies,        \* apply bodies: [pay, amt, total]
  Postings,      \* amounts an account entry may carry
  Amounts,       \* amounts a header, a limit or a line sum may state
  Withdraws,     \* <<payment, account>> whose effect_sign is -1
  None           \* SQL NULL, and "no request", "no call"

Docs == Payments \cup Invoices \cup Claims \cup Accounts

ASSUME TablesAssumption ==
  /\ Payments \cap Invoices = {} /\ Payments \cap Claims = {}
  /\ Payments \cap Accounts = {} /\ Invoices \cap Claims = {}
  /\ Invoices \cap Accounts = {} /\ Claims \cap Accounts = {}
  /\ Amounts \subseteq Nat /\ Postings \subseteq Int
  /\ None \notin Docs /\ None \notin Int /\ None \notin Keys

\* The lines of a body, summed per target: amt[d] = 0 for a row the body does
\* not name.  A line of zero and a payment settling itself are answered 422.
ASSUME BodiesAssumption ==
  \A b \in Bodies :
    /\ b = [pay |-> b.pay, amt |-> b.amt, total |-> b.total]
    /\ b.pay \in Payments
    /\ b.amt \in [Docs -> Int]
    /\ b.amt[b.pay] = 0
    /\ b.total \in Int

ASSUME TotalsAssumption ==
  \A b \in Bodies : b.total = MapThenSumSet(LAMBDA d : b.amt[d], Docs)

Targets(b) == {d \in Docs : b.amt[d] # 0}
LockSet(b) == {b.pay} \cup Targets(b)

\* How a body moves the running total of row d, effect_sign included.
Move(b, d) ==
  IF d = b.pay THEN b.total
  ELSE IF <<b.pay, d>> \in Withdraws THEN -b.amt[d] ELSE b.amt[d]

\* A body's effect on a table of totals.
Moved(f, b) == [d \in Docs |-> IF d \in LockSet(b) THEN f[d] + Move(b, d) ELSE f[d]]

\* The bounds of SETTLEMENT_TARGETS and the payment's own.  An account has a
\* floor, its credit line, and no ceiling.
InBounds(d, after, limit) ==
  IF d \in Accounts THEN after >= -limit ELSE after >= 0 /\ after <= limit
=============================================================================
