----------------------------- MODULE MCSettlement -----------------------------
(* Instances of Settlement for TLC: which rows, bodies and requests there are. *)
EXTENDS Settlement, TLC

CONSTANTS p1, p2, i1, i2, c1, a1, alice, bob

MCStates == {"draft", "submitted", "returned"}
MCEditable == {"draft", "returned"}

\* The default invoice and payment machines as far as settlement sees them:
\* submitted and returned again (services/state_machines.py).
MCTransitions ==
  {<<"draft", "submitted">>, <<"submitted", "returned">>, <<"returned", "submitted">>}

\* billing_accounts < expense_claims < invoices < payments, then the row id.
MCRank ==
  LET order == <<a1, c1, i1, i2, p1, p2>>
  IN  [d \in Docs |-> CHOOSE n \in 1..6 : order[n] = d]

\* p1 is money received, p2 money paid out; i1 bills a customer, i2 repays c1.
MCSettles == {<<p1, i1>>, <<p1, p2>>, <<p1, a1>>, <<p2, p1>>, <<p2, a1>>, <<p2, c1>>, <<p2, i2>>}
MCWithdraws == {<<p2, a1>>}
MCBillsClaim == [i \in Invoices |-> IF i = i2 THEN c1 ELSE None]

Body(p, amt) ==
  LET full == [d \in Docs |-> IF d \in DOMAIN amt THEN amt[d] ELSE 0]
  IN  [pay |-> p, amt |-> full, total |-> MapThenSumSet(LAMBDA d : full[d], Docs)]

Request(op, d, v) == [op |-> op, doc |-> d, val |-> v]

\* Two payments that net each other, one invoice whose total is its lines.
DocumentBodies ==
  {Body(p1, i1 :> 4), Body(p1, i1 :> -4), Body(p2, p1 :> 4), Body(p1, (i1 :> 2) @@ (p2 :> 2))}

DocumentEdits ==
  {Request("total", p1, 2), Request("party", p1, bob),
   Request("status", i1, "submitted"), Request("status", i1, "returned"),
   Request("status", p1, "submitted"),
   Request("lines", i1, 2), Request("delete", i1, None), Request("restore", i1, None)}

DocumentInit ==
  /\ status = [d \in Docs |-> IF d = p2 THEN "submitted" ELSE "draft"]
  /\ party = [d \in Docs |-> alice]
  /\ active = [a \in Accounts |-> TRUE]
  /\ header = [d \in Docs |-> IF d = i1 THEN None ELSE 4]
  /\ lines = [d \in Docs |-> IF d = i1 THEN 4 ELSE 0]
  /\ Init

DocumentSpec == DocumentInit /\ [][Next]_vars

\* A claim paid directly or through its reimbursement invoice, and a customer's
\* account that takes deposits, refunds and entries.
LedgerBodies ==
  {Body(p1, a1 :> 3), Body(p2, a1 :> 2), Body(p2, i2 :> 3), Body(p2, (c1 :> 3) @@ (a1 :> 1))}

LedgerEdits ==
  {Request("credit", a1, 0), Request("active", a1, FALSE), Request("entry", a1, -2),
   Request("bill", i2, None), Request("delete", i2, None), Request("restore", i2, None),
   Request("status", c1, "returned"), Request("lines", c1, 0)}

LedgerPostings == {-2}

LedgerInit ==
  /\ status = [d \in Docs |-> "submitted"]
  /\ party = [d \in Docs |-> IF d = a1 THEN None ELSE alice]
  /\ active = [a \in Accounts |-> TRUE]
  /\ header = [d \in Docs |-> CASE d = p1 -> 4 [] d = p2 -> 7 [] d = a1 -> 2 [] OTHER -> None]
  /\ lines = [d \in Docs |-> IF d = c1 THEN 3 ELSE 0]
  /\ Init

LedgerSpec == LedgerInit /\ [][Next]_vars
=============================================================================
