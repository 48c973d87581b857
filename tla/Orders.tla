-------------------------------- MODULE Orders --------------------------------
(***************************************************************************)
(* The order desk beside the stock: sales orders that are restated, moved, *)
(* adjusted, charged to one customer account, billed, deleted, restored    *)
(* and replaced by a revision, while the requests of Stock reserve and     *)
(* ship for them.                                                          *)
(*                                                                         *)
(* A desk request reads its order without a lock, takes the account's row  *)
(* lock when the order it read is charged, and only then writes: the       *)
(* session flushes and judges the account's exposure in one step, and      *)
(* commits in the next.  What it writes without a verdict is one step with *)
(* its commit.  Only the writers of an order's lines lock its row first;   *)
(* the writers of its adjustments do not.                                  *)
(***************************************************************************)
EXTENDS Stock

CONSTANTS
  DeskCalls,   \* what may be asked of the order desk
  Line,        \* balance plus credit limit of the account
  Filed,       \* the orders as they are at the start
  Agreed       \* their charge, stated total, lines and adjustments

VARIABLES
  terms,       \* billing_account_id, total_amount, line sum and adjustments of
               \* each order, and what the account's invoices bill of it
  supersedes,  \* SalesOrder.supersedes_order_id
  desk,        \* where each request stands
  ask,         \* what it asks
  seen,        \* the order row its session holds
  judged,      \* history: the order as its verdict took it
  strained,    \* history: orders that grew past what any verdict allowed
  overtaken    \* history: orders written by a request whose read was no longer true

deskControl == <<desk, ask, seen, judged>>
books == <<order, terms, supersedes, strained, overtaken>>
vars == <<stockVars, terms, supersedes, deskControl, strained, overtaken>>

OrderRow == [live : BOOLEAN, status : Statuses]
\* adjusted: the one adjustment that requests name, 0 once it is deleted;
\* added: the sum of those that were posted since.
Terms == [charged : BOOLEAN, header : Nat \cup {None}, lines : Nat, adjusted : Int,
          added : Int, billed : Nat]

\* Requests that write the row of the order they name.
RowKinds == {"restate", "save", "charge", "clear", "status", "delete", "restore", "revise"}
Filing == {"create", "revise"}

\* POST or PATCH of a line, and its DELETE; POST, PATCH and DELETE of an adjustment.
LineKinds == {"line", "remove"}
AdjustKinds == {"adjust", "readjust", "unadjust"}

AllDeskCalls ==
  [kind : RowKinds \cup LineKinds \cup AdjustKinds \cup {"bill", "unbill", "create"},
   of : Orders \cup {None}, status : Statuses, amount : Nat, adjust : Int, charged : BOOLEAN]

ASSUME OrdersAssumption ==
  /\ Requests \subseteq Nat /\ Line \in Nat
  /\ DeskCalls \subseteq AllDeskCalls
  /\ \A c \in DeskCalls : /\ c.of = None <=> c.kind = "create"
                          /\ c.kind \in {"adjust", "readjust"} => c.adjust # 0
  /\ Filed \in [Orders -> OrderRow] /\ Agreed \in [Orders -> Terms]
  /\ None \notin AllDeskCalls \cup Nat

Init ==
  /\ StockInit
  /\ order = Filed /\ terms = Agreed
  /\ supersedes = [o \in Orders |-> None]
  /\ desk = [r \in Requests |-> "new"]
  /\ ask = [r \in Requests |-> None]
  /\ seen = [r \in Requests |-> None]
  /\ judged = [r \in Requests |-> None]
  /\ strained = {} /\ overtaken = {}

-----------------------------------------------------------------------------
(* What draws on the account                                                *)

\* order_live_total: the stated total, else the lines and the signed adjustments.
LiveTotal(t) == IF t.header = None THEN t.lines + t.adjusted + t.added ELSE t.header

\* ChargedDocument.occupied of the order and of its invoices.  A status never
\* matters: a cancelled order that is still charged still occupies.
Occupied(row, t) ==
  (IF row.live /\ t.charged /\ LiveTotal(t) > t.billed THEN LiveTotal(t) - t.billed ELSE 0)
    + t.billed

\* account_exposure
Drawn(rows, bills, some) == SumFunctionOnSet([o \in Orders |-> Occupied(rows[o], bills[o])], some)
Exposure(rows, bills) == Drawn(rows, bills, Orders)

\* The account starts within its line, and an id nobody uses draws nothing.
ASSUME OpeningAssumption ==
  /\ Exposure(Filed, Agreed) <= Line
  /\ \A o \in Orders : Filed[o].status = "none" => ~Agreed[o].charged /\ Agreed[o].billed = 0

\* resolve_chargeable_account or recheck_charged_document runs: never for the
\* DELETE of a line or of an adjustment, which the code takes for shrinking.
NeedsAccount(c, t) ==
  \/ c.kind \in {"charge", "bill"}
  \/ c.kind = "create" /\ c.charged
  \/ /\ c.kind \in {"restate", "save", "line", "adjust", "readjust", "status", "restore", "revise"}
     /\ t.charged

Judged(r) ==
  NeedsAccount(ask[r], IF ask[r].kind = "create" THEN [charged |-> FALSE] ELSE seen[r].terms)

\* Mutation: the line routes read their order without its lock.
SavesOnly == {"save"}

\* Requests that lock the order's row and read it again before they write its
\* lines: save_document_lines, and _item_write_gate for one line.
Gated == {"save"} \cup LineKinds

\* Who holds the account's row lock, and who an order's: a gated request from
\* its read on, the others from their flush.  A new invoice or adjustment names
\* the order by a foreign key: from its INSERT on it keeps out FOR UPDATE (it
\* takes KEY SHARE), not an UPDATE.  An invoice is inserted by the flush that is
\* judged, an adjustment before the account is asked for.
HoldsAccount(q) == desk[q] \in {"writing", "flushed"} /\ Judged(q)
AccountFree == \A q \in Requests : ~HoldsAccount(q)

Saving(q) == desk[q] \in {"account", "writing", "flushed"} /\ ask[q].kind \in Gated

\* Mutation: an autoflush takes the row before the account's query.
HeldFromTheRead(q) ==
  Saving(q) \/ (desk[q] \in {"account", "writing", "flushed"} /\ ask[q].kind \in RowKinds)

Holding(q) == Saving(q) \/ (desk[q] = "flushed" /\ ask[q].kind \in RowKinds)
RowFree(r, o) == \A q \in Requests \ {r} : Holding(q) => ask[q].of # o

Inserted(q) == desk[q] \in {"account", "writing", "flushed"} /\ ask[q].kind = "adjust"
Referring(q) == Inserted(q) \/ (desk[q] = "flushed" /\ ask[q].kind = "bill")
Unreferred(o) == \A q \in Requests : Referring(q) => ask[q].of # o
Unlined(r) == \A q \in Requests \ {r} : Saving(q) => ask[q].of # ask[r].of

\* Who has written the adjustment's row and not committed, and who would write it.
Restating(q) == desk[q] = "flushed" /\ ask[q].kind \in {"readjust", "save"}
Restates(c) == c.kind \in {"readjust", "unadjust", "save"}
AdjustmentFree(r) ==
  \A q \in Requests \ {r} : Restates(ask[r]) /\ Restating(q) => ask[q].of # ask[r].of

\* For whom a request of the desk waits, and requests that all wait for each
\* other.
DeskWaits(r, q) ==
  \/ desk[r] = "account" /\ HoldsAccount(q)
  \/ /\ \/ desk[r] = "row" /\ ask[r].kind \in Gated /\ (Holding(q) \/ Referring(q))
        \/ desk[r] = "row" /\ ask[r].kind = "adjust" /\ Saving(q)
        \/ desk[r] = "writing" /\ ask[r].kind \in RowKinds \cup {"bill"} /\ Holding(q)
        \/ desk[r] = "writing" /\ Restates(ask[r]) /\ Restating(q)
     /\ q # r /\ ask[q].of = ask[r].of

DeskKnot(S) == S # {} /\ \A r \in S : \E q \in S : DeskWaits(r, q)

-----------------------------------------------------------------------------
(* What a request reads before it locks anything                            *)

Transitions == {<<"draft", "confirmed">>, <<"draft", "cancelled">>, <<"confirmed", "cancelled">>}

Named(c) == [order |-> order[c.of], terms |-> terms[c.of]]

\* Mutation: an order that was replaced already may be revised once more.
Readmitted(row) == row.live /\ row.status \notin {"none", "draft"}

\* Past its editable states and not cancelled.
Revisable(row) == row.live /\ row.status = "confirmed"

\* The early returns of each route, by the row it reads.
Admitted(c) ==
  LET row == order[c.of]
  IN  CASE c.kind \in {"restate", "save", "adjust"} \cup LineKinds -> row.live /\ row.status = "draft"
        [] c.kind \in {"readjust", "unadjust"} -> /\ row.live /\ row.status = "draft"
                                                 /\ terms[c.of].adjusted # 0
        [] c.kind = "charge" -> row.live /\ ~terms[c.of].charged /\ row.status # "none"
        [] c.kind \in {"clear", "bill"} -> row.live /\ row.status # "none"
        [] c.kind = "status" -> row.live /\ <<row.status, c.status>> \in Transitions
        [] c.kind = "delete" -> row.live /\ row.status # "none"
        [] c.kind = "restore" -> ~row.live /\ row.status # "none"
        [] c.kind = "unbill" -> terms[c.of].billed > 0
        [] c.kind = "revise" -> /\ Revisable(row)
                                /\ ~ \E s \in Shipments : ShipsFor[s] = c.of /\ ship[s].live

\* Mutation: the account is read, not locked, before it is judged.
Unlocked(c, t) == "writing"

FirstLock(c, t) ==
  CASE c.kind \in Gated \cup {"adjust"} -> "row"
    [] c.kind \notin Gated \cup {"adjust"} /\ NeedsAccount(c, t) -> "account"
    [] OTHER -> "writing"

\* Orders is a pool: a request that files one finds an id that is not in use,
\* and which one it is makes no difference.
NameLeft ==
  Cardinality({q \in Requests : desk[q] \in {"account", "writing", "flushed"} /\ ask[q].kind \in Filing})
    < Cardinality({o \in Orders : order[o].status = "none"})

Name == CHOOSE o \in Orders : order[o].status = "none"

DeskBegin(r, c) ==
  /\ at[r] = "new" /\ desk[r] = "new"
  /\ IF c.kind = "create" THEN TRUE ELSE Admitted(c)
  /\ c.kind \in Filing => NameLeft
  /\ desk' = [desk EXCEPT ![r] = FirstLock(c, IF c.of = None THEN [charged |-> FALSE] ELSE terms[c.of])]
  /\ ask' = [ask EXCEPT ![r] = c]
  /\ seen' = [seen EXCEPT ![r] = IF c.of = None THEN None ELSE Named(c)]
  /\ UNCHANGED <<stockVars, terms, supersedes, judged, strained, overtaken>>

DeskOver(r) ==
  /\ desk' = [desk EXCEPT ![r] = "done"]
  /\ ask' = [ask EXCEPT ![r] = None] /\ seen' = [seen EXCEPT ![r] = None]
  /\ judged' = [judged EXCEPT ![r] = None]
  /\ UNCHANGED <<ledger, papers, control>>

\* 4xx or a deadlock abort: nothing is written.
DeskRefuse(r) == DeskOver(r) /\ UNCHANGED books

\* document_revision hashes the header, the lines and the adjustments, no invoice.
Revision(row) == [row EXCEPT !.terms.billed = 0]

\* Under the lock: a save must find the revision its caller read, a line write a
\* status that is still editable.  Whether the order still lives is not asked again.
Fits(r) ==
  IF ask[r].kind = "save" THEN Revision(seen[r]) = Revision(Named(ask[r]))
  ELSE order[ask[r].of].status = "draft"

\* The row is locked and read again (populate_existing).
LockRow(r) ==
  /\ desk[r] = "row" /\ ask[r].kind \in Gated
  /\ RowFree(r, ask[r].of) /\ Unreferred(ask[r].of)
  /\ IF Fits(r)
     THEN /\ desk' = [desk EXCEPT ![r] = IF NeedsAccount(ask[r], terms[ask[r].of])
                                         THEN "account" ELSE "writing"]
          /\ seen' = [seen EXCEPT ![r] = Named(ask[r])]
          /\ UNCHANGED <<ask, judged, ledger, papers, control, books>>
     ELSE DeskRefuse(r)

\* build_adjustment: the INSERT takes the order's key, and waits for nobody but
\* a writer of lines.  The order is not read again.
LockKey(r) ==
  /\ desk[r] = "row" /\ ask[r].kind = "adjust" /\ Unlined(r)
  /\ desk' = [desk EXCEPT ![r] = IF Judged(r) THEN "account" ELSE "writing"]
  /\ UNCHANGED <<stockVars, terms, supersedes, ask, seen, judged, strained, overtaken>>

LockAccount(r) ==
  /\ desk[r] = "account" /\ AccountFree
  /\ desk' = [desk EXCEPT ![r] = "writing"]
  /\ UNCHANGED <<stockVars, terms, supersedes, ask, seen, judged, strained, overtaken>>

\* A gated request waits for the account that a request waiting for its row
\* holds; the database aborts one of the two.
Crossed(s, q) ==
  /\ desk[s] = "account" /\ ask[s].kind \in Gated
  /\ desk[q] = "writing" /\ Judged(q)
  /\ s # q /\ ask[q].of = ask[s].of

DeskDeadlock(r) ==
  /\ \E s, q \in Requests : r \in {s, q} /\ Crossed(s, q)
  /\ DeskRefuse(r)

-----------------------------------------------------------------------------
(* Flush, verdict and commit                                                *)

\* A column is written only when the session's value of it changed.
Column(loaded, new, current) == IF new = loaded THEN current ELSE new

\* What a session writes to an adjustment's row is lost on a deleted one, and 0
\* stands for its deletion.
Restated(loaded, new, current) ==
  IF 0 \in {new, current} THEN 0 ELSE Column(loaded, new, current)

\* The order a verdict is about, before the request's own change: rows are read
\* afresh, but the session believes what it loaded of the stated total and of
\* the adjustment it writes.  An invoice's request holds no order row.
Base(r, o) ==
  LET t == terms[o]
      header == IF ask[r].kind \in {"create", "bill"} THEN t.header ELSE seen[r].terms.header
      adjusted == IF ask[r].kind \in {"readjust", "save"} /\ t.adjusted # 0
                  THEN seen[r].terms.adjusted ELSE t.adjusted
  IN  [order |-> order[o], terms |-> [t EXCEPT !.header = header, !.adjusted = adjusted]]

OutOfDate(r, o) ==
  /\ ask[r].kind \notin {"create", "bill", "unbill"}
  /\ \/ seen[r].order.live # order[o].live
     \/ seen[r].terms.charged # terms[o].charged
     \/ seen[r].terms.header # terms[o].header

\* The order is not the one the verdict was about.  Without a verdict: it is not
\* the one that was read, or a discount is deleted.
Misjudged(r, o) ==
  IF desk[r] = "flushed"
  THEN /\ ask[r].kind \notin {"create", "bill"}
       /\ \/ judged[r].order.live # order[o].live
          \/ [judged[r].terms EXCEPT !.billed = 0] # [terms[o] EXCEPT !.billed = 0]
  ELSE OutOfDate(r, o) \/ ask[r].kind = "unadjust"

\* ensure_within_credit, between the flush and the commit: view is what the
\* session believes of the account's documents.
Judge(r, o, rows, view) ==
  IF Exposure(rows, view) > Line
  THEN DeskRefuse(r)
  ELSE /\ desk' = [desk EXCEPT ![r] = "flushed"]
       /\ judged' = [judged EXCEPT ![r] = Base(r, o)]
       /\ UNCHANGED <<ask, seen, ledger, papers, control, books>>

Commits(r, o, rows, bills) ==
  /\ order' = rows /\ terms' = bills
  /\ strained' = IF Misjudged(r, o) /\ Exposure(rows, bills) > Exposure(order, terms)
                 THEN strained \cup {o} ELSE strained
  /\ overtaken' = IF OutOfDate(r, o) \/ (ask[r].kind \in RowKinds /\ seen[r].order # order[o])
                  THEN overtaken \cup {o} ELSE overtaken
  /\ DeskOver(r)

Land(r, o, rows, bills, view) ==
  IF desk[r] = "writing" /\ Judged(r) THEN Judge(r, o, rows, view) ELSE Commits(r, o, rows, bills)

Writing(r, kind) ==
  /\ desk[r] \in {"writing", "flushed"} /\ ask[r].kind = kind
  /\ desk[r] = "writing" =>
       /\ kind \in RowKinds \cup {"bill"} => RowFree(r, ask[r].of)
       /\ AdjustmentFree(r)

\* A change to one order's terms, as it is committed and as it is judged.
Amend(r, rows, Change(_)) ==
  LET o == ask[r].of
  IN  Land(r, o, rows, [terms EXCEPT ![o] = Change(@)],
           [terms EXCEPT ![o] = Change(Base(r, o).terms)])

\* POST /sales-orders
CommitCreate(r) ==
  /\ Writing(r, "create")
  /\ LET o == Name
         rows == [order EXCEPT ![o] = [live |-> TRUE, status |-> "draft"]]
         bills == [terms EXCEPT ![o] = [charged |-> ask[r].charged, header |-> ask[r].amount, lines |-> 0,
                                        adjusted |-> ask[r].adjust, added |-> 0, billed |-> 0]]
     IN  o \in Orders /\ order[o].status = "none" /\ Land(r, o, rows, bills, bills)
  /\ UNCHANGED supersedes

\* PATCH total_amount
CommitRestate(r) ==
  /\ Writing(r, "restate")
  /\ LET Change(t) == [t EXCEPT !.header = Column(seen[r].terms.header, ask[r].amount, @)]
     IN  Amend(r, order, Change)
  /\ UNCHANGED supersedes

\* POST /sales-orders/{id}/save restates the lines and the adjustments, and
\* removes the adjustments it does not name; this one names them all or none.
CommitSave(r) ==
  /\ Writing(r, "save")
  /\ LET Change(t) == [t EXCEPT !.lines = ask[r].amount,
                                !.adjusted = Restated(seen[r].terms.adjusted, ask[r].adjust, @),
                                !.added = IF ask[r].adjust = 0 THEN 0 ELSE @]
     IN  Amend(r, order, Change)
  /\ UNCHANGED supersedes

\* POST and PATCH of one line; its DELETE, which nothing judges
CommitLines(r) ==
  /\ \E kind \in LineKinds : Writing(r, kind)
  /\ LET Change(t) == [t EXCEPT !.lines = IF ask[r].kind = "remove" /\ @ < ask[r].amount
                                          THEN @ ELSE ask[r].amount]
     IN  Amend(r, order, Change)
  /\ UNCHANGED supersedes

\* POST of an adjustment; its PATCH; its DELETE, which nothing judges
CommitAdjust(r) ==
  /\ \E kind \in AdjustKinds : Writing(r, kind)
  /\ LET Change(t) ==
           CASE ask[r].kind = "adjust" -> [t EXCEPT !.added = @ + ask[r].adjust]
             [] ask[r].kind = "readjust" ->
                  [t EXCEPT !.adjusted = Restated(seen[r].terms.adjusted, ask[r].adjust, @)]
             [] ask[r].kind = "unadjust" -> [t EXCEPT !.adjusted = 0]
     IN  Amend(r, order, Change)
  /\ UNCHANGED supersedes

\* PATCH billing_account_id, to the account or to null
CommitCharge(r) ==
  /\ \E kind \in {"charge", "clear"} : Writing(r, kind)
  /\ LET Change(t) == [t EXCEPT !.charged = Column(seen[r].terms.charged, ask[r].kind = "charge", @)]
     IN  Amend(r, order, Change)
  /\ UNCHANGED supersedes

Unchanged(t) == t

\* PATCH status: the transition was judged by the status that was read.
CommitStatus(r) ==
  /\ Writing(r, "status")
  /\ Amend(r, [order EXCEPT ![ask[r].of].status = ask[r].status], Unchanged)
  /\ UNCHANGED supersedes

\* delete_document and restore_document
CommitLife(r) ==
  /\ \E kind \in {"delete", "restore"} : Writing(r, kind)
  /\ Amend(r, [order EXCEPT ![ask[r].of].live = (ask[r].kind = "restore")], Unchanged)
  /\ UNCHANGED supersedes

\* Mutation: a deleted invoice is taken off a running sum.
TakenOff(kind, amount, billed) == IF kind = "bill" THEN billed + amount ELSE billed - amount

\* order_billed_on_account sums the live invoices.
Billing(kind, amount, billed) == IF kind = "bill" THEN billed + amount ELSE 0

\* POST /invoices naming the order and its account; DELETE /invoices/{id}
CommitBill(r) ==
  /\ \E kind \in {"bill", "unbill"} : Writing(r, kind)
  /\ LET Change(t) == [t EXCEPT !.billed = Billing(ask[r].kind, ask[r].amount, @)]
     IN  Amend(r, order, Change)
  /\ UNCHANGED supersedes

\* source.billing_account_id = None is no change for a session that read None.
Released(t, current) == Column(t.charged, FALSE, current)

\* The source's lines and adjustments when they were copied.
Copied(r) == IF desk[r] = "flushed" THEN judged[r].terms ELSE terms[ask[r].of]

\* revise_sales_order: the replacement is copied from the source as read, its
\* lines and adjustments as they are at the flush.
CommitRevise(r) ==
  /\ Writing(r, "revise")
  /\ Name \in Orders /\ order[Name].status = "none"
  /\ LET o == ask[r].of
         n == Name
         rows == [order EXCEPT ![o].status = "cancelled",
                               ![n] = [live |-> TRUE, status |-> "draft"]]
         bills == [terms EXCEPT
                     ![o].charged = Released(seen[r].terms, @),
                     ![n] = [Copied(r) EXCEPT !.charged = seen[r].terms.charged,
                                              !.header = seen[r].terms.header, !.billed = 0]]
     IN  /\ Land(r, o, rows, bills, bills)
         /\ supersedes' = IF order' = order THEN supersedes ELSE [supersedes EXCEPT ![n] = o]

DeskProceed(r) ==
  \/ LockRow(r) \/ LockKey(r) \/ LockAccount(r) \/ DeskDeadlock(r)
  \/ CommitCreate(r) \/ CommitRestate(r) \/ CommitSave(r) \/ CommitLines(r) \/ CommitAdjust(r)
  \/ CommitCharge(r) \/ CommitStatus(r) \/ CommitLife(r) \/ CommitBill(r) \/ CommitRevise(r)

-----------------------------------------------------------------------------
DeskIdle(r) == desk[r] = "new" /\ UNCHANGED <<terms, supersedes, deskControl, strained, overtaken>>

Step(r) == (Proceed(r) /\ DeskIdle(r)) \/ DeskProceed(r)

\* Requests are numbered as they arrive.
Arrive(r) ==
  /\ \A q \in Requests : q < r => at[q] # "new" \/ desk[q] # "new"
  /\ \/ \E c \in Calls : Begin(r, c) /\ DeskIdle(r)
     \/ \E c \in DeskCalls : DeskBegin(r, c)

Next == \E r \in Requests : Step(r) \/ Arrive(r)

Spec == Init /\ [][Next]_vars

\* Some request that can go on does: the server's threads and the database
\* never all rest.
Fairness == WF_vars(\E r \in Requests : Step(r))

-----------------------------------------------------------------------------
(* Properties                                                               *)

TypeOK ==
  /\ StockTypeOK
  /\ order \in [Orders -> OrderRow] /\ terms \in [Orders -> Terms]
  /\ supersedes \in [Orders -> Orders \cup {None}]
  /\ desk \in [Requests -> {"new", "row", "account", "writing", "flushed", "done"}]
  /\ ask \in [Requests -> DeskCalls \cup {None}]
  /\ seen \in [Requests -> [order : OrderRow, terms : Terms] \cup {None}]
  /\ judged \in [Requests -> [order : OrderRow, terms : Terms] \cup {None}]
  /\ strained \subseteq Orders /\ overtaken \subseteq Orders

\* The same balance never backs two orders: what the account's orders and
\* invoices draw on it fits its credit line (resolve_chargeable_account,
\* ensure_within_credit), whoever charges, grows, bills, restores, adjusts or
\* revises meanwhile.  Left out is only an order that grew when a discount of it
\* was deleted, or that a request wrote after it had changed since the verdict,
\* or, without a verdict, since the read.
WithinCreditUnlessRaced == Drawn(order, terms, Orders \ strained) <= Line

\* A write that needs no verdict never grows what the account's orders draw
\* (recheck_charged_document: "Shrinking needs no guard").
WithinCredit == Exposure(order, terms) <= Line

\* A revision replaces its source (revise_sales_order): one replacement, and
\* the source stays cancelled, unless a request that had read an older row
\* wrote over it.
RevisionReplaces ==
  \A o \in Orders \ overtaken :
    LET heirs == {n \in Orders : supersedes[n] = o}
    IN  Cardinality(heirs) <= 1 /\ (heirs # {} => order[o].status = "cancelled")

\* Whoever writes an order's lines writes them on the order it has judged: while
\* a save or a line write holds the row, no other request changes its header or
\* its lines or posts an adjustment to it, however long the account keeps the
\* writer waiting (_item_write_gate).  An adjustment it has may still be changed.
Standing(row) == [Revision(row) EXCEPT !.terms.adjusted = 0]
LinesStandStill ==
  \A r \in Requests : Saving(r) => Standing(seen[r]) = Standing(Named(ask[r]))

\* Only two locks are taken in both orders, an order's row and the account's: of
\* desk requests that all wait for each other, one writes lines under its row
\* and waits for the account (recheck_charged_document after the FOR UPDATE of
\* save_document_lines or _item_write_gate), and one that holds the account
\* writes that row.  Whatever the others do, aborting one of these two lets the
\* rest go on.
KnotsCrossTheAccount ==
  \A S \in SUBSET Requests : DeskKnot(S) => \E s, q \in S : Crossed(s, q)

\* Every request that was accepted answers, however the row locks of orders,
\* account, sources and positions interleave.
EveryRequestEnds ==
  <>[](\A r \in Requests : at[r] \in {"new", "done"} /\ desk[r] \in {"new", "done"})
=============================================================================
