------------------------------ MODULE Settlement ------------------------------
(***************************************************************************)
(* Settlement: POST /payments/{id}/apply against the requests that edit,   *)
(* submit, delete, restore or bill the documents it moves money between.   *)
(*                                                                         *)
(* A request is a process.  Its handler runs in one READ COMMITTED         *)
(* transaction whose session does not autoflush, so what others can see of *)
(* it is: the reads it decides on (one step), the row locks it takes (one  *)
(* step each), and its commit (one step).  Amounts are integer cents.      *)
(***************************************************************************)
EXTENDS SettlementData

CONSTANTS
  Requests,      \* concurrently running request handlers
  Parties,       \* counterparties
  States,        \* the tenant's lifecycle state names
  Editable,      \* editable_states of the tenant's machine
  Transitions,   \* its legal moves, as <<from, to>>
  Issued,        \* the state that plays the role "issued"
  Edits,         \* the other requests: [op, doc, val]
  Rank,          \* the (table, id) order of the rows
  Settles,       \* <<payment, target>> of matching direction and currency
  BillsClaim     \* the expense_claim_id of each invoice, or None

ASSUME SettlementAssumption ==
  /\ IsFiniteSet(Docs)
  /\ Rank \in [Docs -> Nat]
  /\ \A d, e \in Docs : Rank[d] = Rank[e] => d = e
  /\ BillsClaim \in [Invoices -> Claims \cup {None}]
  /\ Issued \in States
  /\ None \notin Requests /\ None \notin Parties

EditOps == {"total", "credit", "party", "status", "lines", "delete",
            "restore", "active", "entry", "bill"}

\* What each kind of request may name and state.
WellFormed(e) ==
  CASE e.op = "total"  -> /\ e.doc \in Payments \cup Invoices
                          /\ e.val \in Amounts \/ (e.doc \in Invoices /\ e.val = None)
    [] e.op = "credit" -> e.doc \in Accounts /\ e.val \in Amounts
    [] e.op = "party"  -> e.doc \in Payments \cup Invoices /\ e.val \in Parties
    [] e.op = "status" -> e.doc \notin Accounts /\ e.val \in States
    [] e.op = "lines"  -> e.doc \in Invoices \cup Claims /\ e.val \in Amounts
    [] e.op = "active" -> e.doc \in Accounts /\ e.val \in BOOLEAN
    [] e.op = "entry"  -> e.doc \in Accounts /\ e.val \in Postings
    [] e.op = "bill"   -> e.doc \in Invoices /\ BillsClaim[e.doc] # None
    [] OTHER           -> TRUE

ASSUME EditsAssumption ==
  \A e \in Edits : /\ e = [op |-> e.op, doc |-> e.doc, val |-> e.val]
                   /\ e.op \in EditOps /\ e.doc \in Docs /\ WellFormed(e)

VARIABLES
  life,      \* "absent" before the insert, "deleted" once deleted_at is set
  status,    \* the document's lifecycle state
  active,    \* an account's status is "active"
  party,     \* the counterparty the row names, None when it names none
  header,    \* payment.amount, invoice.total_amount, account.credit_limit
  lines,     \* the sum of the live lines of an invoice or a claim
  running,   \* applied_amount, or an account's balance
  ledger,    \* the sum of the append-only rows that name this row
  keyed,     \* per payment and key: the calls whose rows carry that key
  owner,     \* the request holding the row lock, or None
  pc,        \* where each request's handler stands
  call,      \* what the handler was asked
  seen,      \* running totals as the handler's session read them under lock
  answer     \* the 200 the last step sent to an apply call, if it sent one

rows  == <<life, status, active, party, header, lines>>
money == <<running, ledger, keyed>>
vars  == <<rows, money, owner, pc, call, seen, answer>>

-----------------------------------------------------------------------------
Live(d) == life[d] = "live"

\* require_settleable: a document still in an editable state takes no part.
Standing(d) == d \in Accounts \/ status[d] \notin Editable

\* invoice_billed_total and _expense_claim_total: the declared header total,
\* or else the line sum.
BilledTotal(d) == IF header[d] = None THEN lines[d] ELSE header[d]

\* _claim_already_billed: the claim has a live reimbursement invoice.
AlreadyBilled(c) == \E i \in Invoices : BillsClaim[i] = c /\ Live(i)

\* Pass 1 of apply_payment over one target: alive, asserted, its precondition,
\* the direction and currency, the counterparty, and an account in use.
Payable(p, t) ==
  /\ Live(t) /\ Standing(t)
  /\ t \in Claims => ~AlreadyBilled(t)
  /\ <<p, t>> \in Settles
  /\ party[t] = None \/ party[t] = party[p]
  /\ t \in Accounts => active[t]

WithinBounds(d, after) == InBounds(d, after, BilledTotal(d))

Pending(r) == {d \in LockSet(call[r].body) : owner[d] # r}

\* Mutation: the targets are not measured, only the payment.
PaymentFits(r) ==
  LET p == call[r].body.pay
  IN  WithinBounds(p, seen[r][p] + call[r].body.total)

\* Mutation: a frozen account still takes money.
FitsFrozen(r) ==
  \A d \in LockSet(call[r].body) : WithinBounds(d, seen[r][d] + Move(call[r].body, d))

FitsBounds(r) ==
  \A d \in LockSet(call[r].body) :
    /\ WithinBounds(d, seen[r][d] + Move(call[r].body, d))
    /\ d \in Accounts => active[d]

Released(r) == [d \in Docs |-> IF owner[d] = r THEN None ELSE owner[d]]

\* Mutation: the session is gone and the handler still stands where it was.
FinishStuck(r) ==
  /\ call' = [call EXCEPT ![r] = None]
  /\ seen' = [seen EXCEPT ![r] = [d \in Docs |-> 0]]
  /\ owner' = Released(r)
  /\ UNCHANGED pc

\* What the handler leaves behind however it ends: no lock, no session.
Finish(r) ==
  /\ pc' = [pc EXCEPT ![r] = "idle"]
  /\ call' = [call EXCEPT ![r] = None]
  /\ seen' = [seen EXCEPT ![r] = [d \in Docs |-> 0]]
  /\ owner' = Released(r)

Reply(b, c) == [asked |-> b, recorded |-> c]

Reimburses(c) == {i \in Invoices : BillsClaim[i] = c}

-----------------------------------------------------------------------------
(* Documents may be filed in any state of the machine and with any money on *)
(* them; a reimbursement invoice exists only once it has been raised.        *)
Init ==
  /\ life = [d \in Docs |->
               IF d \in Invoices /\ BillsClaim[d] # None THEN "absent" ELSE "live"]
  /\ status \in [Docs -> States]
  /\ active \in [Accounts -> BOOLEAN]
  /\ party \in [Docs -> Parties \cup {None}]
  /\ header \in [Docs -> Amounts \cup {None}]
  /\ \A d \in Payments \cup Accounts : header[d] # None
  /\ \A c \in Claims : header[c] = None
  /\ lines \in [Docs -> Amounts]
  /\ running = [d \in Docs |-> 0]
  /\ ledger = [d \in Docs |-> 0]
  /\ keyed = [p \in Payments |-> [k \in Keys |-> <<>>]]
  /\ owner = [d \in Docs |-> None]
  /\ pc = [r \in Requests |-> "idle"]
  /\ call = [r \in Requests |-> None]
  /\ seen = [r \in Requests |-> [d \in Docs |-> 0]]
  /\ answer = None

-----------------------------------------------------------------------------
(* POST /payments/{id}/apply                                                *)

\* The payment and every target pass their checks, read without a lock, and
\* the key is new to this payment.
ApplyCheck(r, b, k) ==
  /\ pc[r] = "idle"
  /\ Live(b.pay) /\ Standing(b.pay)
  /\ k # None => keyed[b.pay][k] = <<>>
  /\ \A t \in Targets(b) : Payable(b.pay, t)
  /\ pc' = [pc EXCEPT ![r] = "locking"]
  /\ call' = [call EXCEPT ![r] = [body |-> b, key |-> k]]
  /\ answer' = None
  /\ UNCHANGED <<rows, money, owner, seen>>

\* The key is known and the rows it wrote are the rows asked for.
ApplyReplay(r, b, k) ==
  /\ pc[r] = "idle"
  /\ Live(b.pay) /\ Standing(b.pay)
  /\ k # None /\ keyed[b.pay][k] # <<>>
  /\ Head(keyed[b.pay][k]) = b
  /\ answer' = Reply(b, Head(keyed[b.pay][k]))
  /\ UNCHANGED <<rows, money, owner, pc, call, seen>>

\* Mutation: the row is read without waiting for whoever holds it.
LockWithoutWaiting(r, d) ==
  /\ pc[r] = "locking"
  /\ d \in Pending(r)
  /\ \A e \in Pending(r) : Rank[d] <= Rank[e]
  /\ owner' = [owner EXCEPT ![d] = r]
  /\ seen' = [seen EXCEPT ![r][d] = running[d]]
  /\ answer' = None
  /\ UNCHANGED <<rows, money, pc, call>>

\* Mutation: the payment first, then the targets in order.
LockPaymentFirst(r, d) ==
  /\ pc[r] = "locking"
  /\ d \in Pending(r)
  /\ \/ d = call[r].body.pay
     \/ call[r].body.pay \notin Pending(r) /\ \A e \in Pending(r) : Rank[d] <= Rank[e]
  /\ owner[d] = None
  /\ owner' = [owner EXCEPT ![d] = r]
  /\ seen' = [seen EXCEPT ![r][d] = running[d]]
  /\ answer' = None
  /\ UNCHANGED <<rows, money, pc, call>>

\* Mutation: the caller's line order.
LockInAnyOrder(r, d) ==
  /\ pc[r] = "locking"
  /\ d \in Pending(r)
  /\ owner[d] = None
  /\ owner' = [owner EXCEPT ![d] = r]
  /\ seen' = [seen EXCEPT ![r][d] = running[d]]
  /\ answer' = None
  /\ UNCHANGED <<rows, money, pc, call>>

\* lock_for_update on the next row in (table, id) order; populate_existing
\* makes the session see the row as it is now.
LockRow(r, d) ==
  /\ pc[r] = "locking"
  /\ d \in Pending(r)
  /\ \A e \in Pending(r) : Rank[d] <= Rank[e]
  /\ owner[d] = None
  /\ owner' = [owner EXCEPT ![d] = r]
  /\ seen' = [seen EXCEPT ![r][d] = running[d]]
  /\ answer' = None
  /\ UNCHANGED <<rows, money, pc, call>>

\* Mutation: the locks do not last until the commit.
CheckAndRelease(r) ==
  /\ pc[r] = "locking" /\ Pending(r) = {}
  /\ FitsBounds(r)
  /\ pc' = [pc EXCEPT ![r] = "checked"]
  /\ owner' = Released(r)
  /\ answer' = None
  /\ UNCHANGED <<rows, money, call, seen>>

\* Every row is locked; the bounds and the accounts' status are judged.
CheckBounds(r) ==
  /\ pc[r] = "locking" /\ Pending(r) = {}
  /\ FitsBounds(r)
  /\ pc' = [pc EXCEPT ![r] = "checked"]
  /\ answer' = None
  /\ UNCHANGED <<rows, money, owner, call, seen>>

RefuseBounds(r) ==
  /\ pc[r] = "locking" /\ Pending(r) = {}
  /\ ~FitsBounds(r)
  /\ Finish(r)
  /\ answer' = None
  /\ UNCHANGED <<rows, money>>

\* Mutation: no unique index on (payment, key, seq).
KeyNeverTaken(r) == FALSE

KeyTaken(r) ==
  /\ call[r].key # None
  /\ keyed[call[r].body.pay][call[r].key] # <<>>

\* Pass 2: the ledger rows and the running totals, in one commit.
ApplyCommit(r) ==
  LET b == call[r].body
      k == call[r].key
  IN  /\ pc[r] = "checked"
      /\ ~KeyTaken(r)
      /\ running' = [d \in Docs |-> IF d \in LockSet(b) THEN seen[r][d] + Move(b, d)
                                                        ELSE running[d]]
      /\ ledger' = Moved(ledger, b)
      /\ keyed' = IF k = None THEN keyed
                  ELSE [keyed EXCEPT ![b.pay][k] = Append(@, b)]
      /\ answer' = Reply(b, b)
      /\ Finish(r)
      /\ UNCHANGED rows

\* The unique index on (payment, key, seq) refuses the commit: roll back and
\* hand out the winner's rows.
ApplyConflict(r) ==
  /\ pc[r] = "checked"
  /\ KeyTaken(r)
  /\ answer' = Reply(call[r].body, Head(keyed[call[r].body.pay][call[r].key]))
  /\ Finish(r)
  /\ UNCHANGED <<rows, money>>

-----------------------------------------------------------------------------
(* The requests that write one document: what they read, then what they     *)
(* commit.  None of them takes a row lock before reading.                   *)

\* ensure_unsettled_fields and ensure_nothing_applied, on whole cents.
NothingApplied(d) == running[d] = 0

Unbilled(c) == \A i \in Reimburses(c) : life[i] = "absent"

MayTotal(e) ==
  /\ e.op = "total" /\ e.val # header[e.doc]
  /\ Live(e.doc) /\ status[e.doc] \in Editable /\ NothingApplied(e.doc)

MayCredit(e) == e.op = "credit" /\ Live(e.doc) /\ running[e.doc] >= -e.val

MayParty(e) ==
  /\ e.op = "party" /\ e.val # party[e.doc]
  /\ Live(e.doc) /\ NothingApplied(e.doc)

MayMove(e) == e.op = "status" /\ Live(e.doc) /\ <<status[e.doc], e.val>> \in Transitions

MayEditLines(e) == e.op = "lines" /\ Live(e.doc) /\ status[e.doc] \in Editable

MayDelete(e) ==
  /\ e.op = "delete" /\ Live(e.doc) /\ NothingApplied(e.doc)
  /\ e.doc \in Claims => ~AlreadyBilled(e.doc)

MayRestore(e) == e.op = "restore" /\ life[e.doc] = "deleted"

MaySetActive(e) == e.op = "active" /\ Live(e.doc)

MayPostEntry(e) == e.op = "entry" /\ Live(e.doc)

MayBill(e) ==
  LET c == BillsClaim[e.doc]
  IN  /\ e.op = "bill"
      /\ Live(c) /\ NothingApplied(c) /\ status[c] \notin Editable
      /\ lines[c] > 0 /\ Unbilled(c)

MayEdit(e) ==
  \/ MayTotal(e) \/ MayCredit(e) \/ MayParty(e) \/ MayMove(e) \/ MayEditLines(e)
  \/ MayDelete(e) \/ MayRestore(e) \/ MaySetActive(e) \/ MayPostEntry(e) \/ MayBill(e)

\* Mutation: the lines a claim is billed for are never summed.
ReadWithoutPricing(r, e) ==
  /\ pc[r] = "idle"
  /\ MayEdit(e)
  /\ pc' = [pc EXCEPT ![r] = "editing"]
  /\ call' = [call EXCEPT ![r] = e]
  /\ answer' = None
  /\ UNCHANGED <<rows, money, owner, seen>>

\* The checks pass.  Billing a claim also reads the lines it will bill.
EditRead(r, e) ==
  /\ pc[r] = "idle"
  /\ MayEdit(e)
  /\ pc' = [pc EXCEPT ![r] = "editing"]
  /\ call' = [call EXCEPT ![r] =
       IF e.op = "bill" THEN [e EXCEPT !.val = lines[BillsClaim[e.doc]]] ELSE e]
  /\ answer' = None
  /\ UNCHANGED <<rows, money, owner, seen>>

\* An UPDATE waits for a FOR UPDATE lock another transaction holds on its row.
Writes(r, op) ==
  /\ pc[r] = "editing"
  /\ call[r].op = op
  /\ answer' = None
  /\ Finish(r)

\* Mutation: an UPDATE does not wait for the row's lock.
CommitUnlocked(r, op) == Writes(r, op)

EditCommit(r, op) == Writes(r, op) /\ owner[call[r].doc] = None

WriteTotal(r) ==
  /\ \E op \in {"total", "credit"} : EditCommit(r, op)
  /\ header' = [header EXCEPT ![call[r].doc] = call[r].val]
  /\ UNCHANGED <<life, status, active, party, lines, money>>

WriteParty(r) ==
  /\ EditCommit(r, "party")
  /\ party' = [party EXCEPT ![call[r].doc] = call[r].val]
  /\ UNCHANGED <<life, status, active, header, lines, money>>

WriteStatus(r) ==
  /\ EditCommit(r, "status")
  /\ status' = [status EXCEPT ![call[r].doc] = call[r].val]
  /\ UNCHANGED <<life, active, party, header, lines, money>>

\* A line's UPDATE locks the line, not the document.
WriteLines(r) ==
  /\ Writes(r, "lines")
  /\ lines' = [lines EXCEPT ![call[r].doc] = call[r].val]
  /\ UNCHANGED <<life, status, active, party, header, money>>

WriteDelete(r) ==
  /\ EditCommit(r, "delete")
  /\ life' = [life EXCEPT ![call[r].doc] = "deleted"]
  /\ UNCHANGED <<status, active, party, header, lines, money>>

WriteRestore(r) ==
  /\ EditCommit(r, "restore")
  /\ life' = [life EXCEPT ![call[r].doc] = "live"]
  /\ UNCHANGED <<status, active, party, header, lines, money>>

WriteActive(r) ==
  /\ EditCommit(r, "active")
  /\ active' = [active EXCEPT ![call[r].doc] = call[r].val]
  /\ UNCHANGED <<life, status, party, header, lines, money>>

\* Mutation: no floor under an account.
EntryActive(e) == active[e.doc]

EntryFits(e) == active[e.doc] /\ running[e.doc] + e.val >= -header[e.doc]

\* Mutation: the balance moves without the account's row lock.
PostUnlocked(r) ==
  LET e == call[r]
  IN  /\ Writes(r, "entry")
      /\ EntryFits(e)
      /\ running' = [running EXCEPT ![e.doc] = @ + e.val]
      /\ ledger' = [ledger EXCEPT ![e.doc] = @ + e.val]
      /\ UNCHANGED <<rows, keyed>>

\* POST /billing-accounts/{id}/entries: lock the account, judge its status and
\* floor by the locked row, append and commit.
PostEntry(r) ==
  LET e == call[r]
  IN  /\ EditCommit(r, "entry")
      /\ EntryFits(e)
      /\ running' = [running EXCEPT ![e.doc] = @ + e.val]
      /\ ledger' = [ledger EXCEPT ![e.doc] = @ + e.val]
      /\ UNCHANGED <<rows, keyed>>

RefuseEntry(r) ==
  /\ EditCommit(r, "entry")
  /\ ~EntryFits(call[r])
  /\ UNCHANGED <<rows, money>>

\* POST /expense-claims/{id}/invoice: inserting the invoice takes a key-share
\* lock on the claim, and the unique index on the expense items refuses a
\* second billing.
RaiseInvoice(r) ==
  LET i == call[r].doc
      c == BillsClaim[i]
  IN  /\ Writes(r, "bill")
      /\ owner[c] = None
      /\ Unbilled(c)
      /\ life' = [life EXCEPT ![i] = "live"]
      /\ status' = [status EXCEPT ![i] = Issued]
      /\ party' = [party EXCEPT ![i] = party[c]]
      /\ header' = [header EXCEPT ![i] = call[r].val]
      /\ lines' = [lines EXCEPT ![i] = call[r].val]
      /\ UNCHANGED <<active, money>>

RefuseInvoice(r) ==
  /\ Writes(r, "bill")
  /\ owner[BillsClaim[call[r].doc]] = None
  /\ ~Unbilled(BillsClaim[call[r].doc])
  /\ UNCHANGED <<rows, money>>

-----------------------------------------------------------------------------
Apply(r) ==
  \/ \E b \in Bodies, k \in Keys \cup {None} : ApplyCheck(r, b, k) \/ ApplyReplay(r, b, k)
  \/ \E d \in Docs : LockRow(r, d)
  \/ CheckBounds(r) \/ RefuseBounds(r) \/ ApplyCommit(r) \/ ApplyConflict(r)

Edit(r) ==
  \/ \E e \in Edits : EditRead(r, e)
  \/ WriteTotal(r) \/ WriteParty(r) \/ WriteStatus(r) \/ WriteLines(r)
  \/ WriteDelete(r) \/ WriteRestore(r) \/ WriteActive(r)
  \/ PostEntry(r) \/ RefuseEntry(r) \/ RaiseInvoice(r) \/ RefuseInvoice(r)

Next == \E r \in Requests : Apply(r) \/ Edit(r)

Spec == Init /\ [][Next]_vars

-----------------------------------------------------------------------------
(* Properties                                                               *)

ApplyCalls == [body : Bodies, key : Keys \cup {None}]

\* A billing carries the line sum it read.
BillCalls == {[e EXCEPT !.val = n] : e \in {f \in Edits : f.op = "bill"}, n \in Amounts}
EditCalls == {e \in Edits : e.op # "bill"} \cup BillCalls

\* What every variable ranges over, and what a handler past its checks was
\* asked: a lost call or an unpriced billing is a handler gone wrong.
TypeOK ==
  /\ life \in [Docs -> {"absent", "live", "deleted"}]
  /\ status \in [Docs -> States]
  /\ active \in [Accounts -> BOOLEAN]
  /\ party \in [Docs -> Parties \cup {None}]
  /\ header \in [Docs -> Amounts \cup {None}]
  /\ \A d \in Payments \cup Accounts : header[d] # None
  /\ lines \in [Docs -> Amounts]
  /\ running \in [Docs -> Int]
  /\ ledger \in [Docs -> Int]
  /\ keyed \in [Payments -> [Keys -> Seq(Bodies)]]
  /\ owner \in [Docs -> Requests \cup {None}]
  /\ pc \in [Requests -> {"idle", "locking", "checked", "editing"}]
  /\ seen \in [Requests -> [Docs -> Int]]
  /\ call \in [Requests -> ApplyCalls \cup EditCalls \cup {None}]
  /\ \A r \in Requests : pc[r] \in {"locking", "checked"} => call[r] \in ApplyCalls
  /\ \A r \in Requests : pc[r] = "editing" => call[r] \in EditCalls
  /\ answer \in [asked : Bodies, recorded : Bodies] \cup {None}

\* The running totals are what data_integrity_audit.py demands: the sum of the
\* append-only rows that name the document on either side.
LedgerAgrees == \A d \in Docs : running[d] = ledger[d]

\* An idempotency key applies once: the rows under one payment and key come
\* from a single call, whatever raced with it.
OncePerKey == \A p \in Payments, k \in Keys : Len(keyed[p][k]) <= 1

\* Requests that wait for each other's row locks in a ring.
Blocked(r, s) ==
  /\ pc[r] = "locking"
  /\ \E d \in Pending(r) : owner[d] = s /\ \A e \in Pending(r) : Rank[d] <= Rank[e]

\* Locking in one sorted order, the payment among its targets, leaves no set
\* of requests waiting for one another.
NoDeadlock ==
  \A R \in SUBSET Requests : R # {} => \E r \in R : \A s \in R : ~Blocked(r, s)

\* A lock_for_update and the total read under it stay good until the call that
\* took them ends.
LockedAreCurrent ==
  \A d \in Docs, r \in Requests :
    owner[d] = r => /\ pc[r] \in {"locking", "checked"}
                    /\ d \in LockSet(call[r].body)
                    /\ seen[r][d] = running[d]

\* What the bounds check judged still holds when the commit comes: the rows
\* are all locked, no stated total shrank, no account was frozen.
JudgedStillHolds ==
  \A r \in Requests : pc[r] = "checked" =>
    \A d \in LockSet(call[r].body) :
      /\ owner[d] = r
      /\ header[d] # None => WithinBounds(d, seen[r][d] + Move(call[r].body, d))
      /\ d \in Accounts => active[d]

\* An apply call in flight names no row that has yet to be inserted.
CallsNameRows ==
  \A r \in Requests : pc[r] \in {"locking", "checked"} =>
    \A d \in LockSet(call[r].body) : life[d] # "absent"

\* The inductive invariant of SettlementProofs.
IInv ==
  /\ TypeOK /\ LedgerAgrees /\ OncePerKey
  /\ LockedAreCurrent /\ JudgedStillHolds /\ CallsNameRows

\* No commit moves a running total outside the bounds the row states at that
\* moment, nor moves an account that is not active.  A total derived from
\* lines is excepted: line edits take no lock on the document.
MovesStayInBounds ==
  [][\A d \in Docs :
       running'[d] # running[d] =>
         /\ header[d] # None => WithinBounds(d, running'[d])
         /\ d \in Accounts => active[d]]_vars

\* The promise over the same rows: its totals, ledger and headers are the code's.
Promise ==
  INSTANCE SettlementPromise WITH running <- running, ledger <- ledger, keyed <- keyed,
                                  header <- header, active <- active

\* Settlement is, in the eyes of every other request, the atomic ledger of
\* SettlementPromise.
KeepsPromise == Promise!Spec

-----------------------------------------------------------------------------
(* What the documentation and the audit say, and the code does not ensure.  *)

\* "no invoice is settled beyond what it bills" (data_integrity_audit.py).
SettledWithinBilled == \A i \in Invoices : running[i] <= BilledTotal(i)

\* Money never ends on a document nobody can see (ensure_nothing_applied).
MoneyOnLiveDocuments == \A d \in Docs : life[d] = "deleted" => NothingApplied(d)

\* One claim never takes both routes (SettlementTarget.settlement_precondition).
OneRoutePerClaim ==
  \A c \in Claims, i \in Invoices :
    BillsClaim[i] = c /\ Live(i) => running[i] <= 0 \/ running[c] <= 0

\* A replayed key replays the same request (ensure_replay_matches).
ReplayIsSameRequest == answer # None => answer.asked = answer.recorded
=============================================================================
