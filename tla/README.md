# Oryh: a TLA+ model of its money, stock, approvals and retries

Oryh is a multi-tenant business back end (FastAPI, SQLAlchemy, PostgreSQL). People,
API keys and hosted agents write the same documents at the same time, money moves
through stored running totals, and agents retry whatever timed out. This directory
models the parts where that combination is hard, checks them with TLC on small
instances, and proves the safety properties with TLAPS for instances of any size.

## Inventory

| Part | State | Operations | What makes it hard | What makes it correct |
|---|---|---|---|---|
| Settlement (`app/api/billing.py`, `claims.py`) | `payments`, `invoices`, `expense_claims`, `billing_accounts` and their running totals; the append-only `payment_applications` and `billing_account_entries` | apply a payment, reverse, deposit, refund, post entries, bill a claim | concurrent requests, checks before locks, retries with a key, payments that settle each other | totals equal the ledger; nothing beyond its bounds; a key applies once; no deadlock; one route per claim |
| Idempotency middleware (`app/core/idempotency.py`) | `idempotency_records` | claim, run, settle, abandon, replay, expire | process death between commit and stored answer, concurrent retries, lost acknowledgements | one write per key; replays repeat the first answer; a failed attempt frees the key |
| Document verbs and machines (`common/documents.py`, `services/state_machines.py`) | status, deleted_at | submit, move, delete, restore | guards read without locks | only legal moves; editable states freeze what was asserted |
| Charging and credit (`common/charging.py`) | exposure of charged documents | charge, recheck, restore | two charges that each fit; a verdict about an outdated row | exposure within the credit line |
| Approvals and todos (`app/api/objects.py`, `common/documents.py`) | todos, approval records, rounds | assign, decide, finish a round, return, rework | two deciders, a retry of what was done, resubmission, batches in opposite orders | one decision per node; an answered decision has moved its document; no work nobody has a reason to do |
| Flow runner (`flow_runner/dispatcher.py`, `services/flow_subscriptions.py`) | subscriptions, runs, unmoved counts, parks | poll, dispatch, report, park, clear | runner dies mid run, park raced by a clear | turns spent on a stuck queue are bounded; a park is deserved; the rotation serves every queue |
| Inventory ledger (`master_data.py`, `shipments.py`, `inventory_import.py`, `purchasing.py`, `objects.py`) | running quantities, reservations, stamps | receive, reserve, release, ship, post, count, create | over-selling, over-releasing, double posting, lock order | quantities equal the ledger; holds fit; a source posts once; no circle of id-ordered waits |
| Sales orders, line and adjustment writes, saves (`sales.py`, `common/lines.py`, `common/adjustments.py`, `common/saves.py`) | status, lines, adjustments, charge, revision | file, restate, move, revise, save, POST, PATCH and DELETE of a line or an adjustment | a document that moves before the save commits; two revisions; writes that take no lock | no silent overwrite; a revision replaces its source |
| Numbering, authentication, OAuth | counters, sessions, codes | allocate, sign in, exchange | single-use tokens presented twice | single use, unique numbers |
| CRM, resources, purchasing, treasury, people, MCP, frontend, skills, scripts, migrations | rows, prompts, pages | create, read, update, delete | little concurrency of their own | not modelled |

Parts meet through the database: a request is one READ COMMITTED transaction over shared
rows, `billing.py` calls `post_account_entries` inside an application, documents' verbs
read the running totals settlement writes, every write may pass through the idempotency
middleware, and the flow runner is a client of the same API.

## Modules

| Module | Models |
|---|---|
| `SettlementData` | the four tables, apply bodies, how a body moves each row, the bounds |
| `SettlementPromise` | abstract: money moves in atomic steps |
| `Settlement` | detailed: handlers with reads, row locks and commits, and the requests that race them |
| `SettlementProofs` | its proofs |
| `MCSettlement` | two small worlds for TLC |
| `Idempotency` | the middleware, statement by statement |
| `IdempotencyProofs` | its proofs |
| `MCIdempotency` | a first attempt, its retry and a reuse of the key |
| `StockPromise` | abstract: goods are reserved, released, consumed and moved in atomic steps |
| `Stock` | detailed: every request that moves stock, with lookups, row locks and commit |
| `Orders` | extends `Stock` with the order desk and the customer account's credit |
| `StockProofs`, `OrdersProofs` | their proofs |
| `CreditProofs` | the proof that the account stays within its line, on top of `OrdersProofs` |
| `FiniteFacts` | what the proofs share about finite sets: smallest subsets, greatest elements, sums |
| `MCOrders` | three requests, three positions, two orders and their revisions |
| `Approvals`, `MCApprovals` | the approval trail, the todos and the requests on them |
| `ApprovalsProofs` | its proofs |
| `FlowRunner`, `MCFlowRunner` | replicas of the runner, the subscriptions' rows, the tenant |
| `FlowRunnerProofs` | its proofs |

### Settlement

A handler is a process. Its session does not autoflush, so others see of it the reads it
decides on, the locks it takes and its commit:

| Code | Actions |
|---|---|
| `apply_payment`: liveness, states, precondition, direction, party, account status (pass 1) | `ApplyCheck` |
| the recorded rows of a known key | `ApplyReplay` |
| `lock_for_update` over the sorted `(table, id)` set, one row at a time | `LockRow` |
| the payment's and the targets' bounds, and `post_account_entries`' status and floor | `CheckBounds`, `RefuseBounds` |
| ledger rows, running totals, commit (pass 2) | `ApplyCommit` |
| `IntegrityError` of the unique `(payment, key, seq)` index | `ApplyConflict` |
| PATCH of a total, a credit limit, a party, a status, an account's status; line edits; delete; restore | `EditRead`, then one `Write...` action each |
| `POST /billing-accounts/{id}/entries` and its expiry | `EditRead`, `PostEntry`, `RefuseEntry` |
| `raise_reimbursement_invoice` | `EditRead`, `RaiseInvoice`, `RefuseInvoice` |

`running` is `applied_amount` (or an account's `balance`), `ledger` the sum of the
append-only rows naming the row, `owner` the row locks, `seen` what a session read under
them, `keyed` the calls recorded under each key. Refusals that change nothing before a
lock is held are absent guards, not actions. The lifecycle machine, its editable states and
the state that plays "issued" are constants, because they are the tenant's.

Abstractions, each chosen because no property tells the detail apart:

* Amounts are whole cents. The columns are `NUMERIC(.., 2)`, the schemas refuse a third
  decimal and `CENT` is 0.005, so on cents every tolerance comparison is exact.
* A body is its sum per target; lines that cancel out on one target are not distinguished,
  and a line's `invoice_item_id` is left out.
* A claim has at most one reimbursement invoice: billing in instalments, and freeing an
  expense item by deleting an invoice line, are not modelled.
* A PATCH changes one thing. Whole-document saves lock the document first, and what they
  can do is a subset of what the unlocked line endpoints do.
* The credit exposure of charged orders and invoices is part of `Orders`, not of `Settlement`.

### Idempotency

One `(credential, key)` pair, since rows of different pairs never meet. A step is one
database statement with its commit or one message between handler and middleware; attempts
may be in different processes, so that a rolling deployment is covered as well as the single
uvicorn process of the compose file. `CommitUnheard` is the COMMIT that stands while its
acknowledgement is lost. `Die` is a process death, or the failure of the statement that would
have freed the claim. Time is the row's age: within the grace, past it, past retention. 2xx
and 4xx answers are stored alike and are one class. A refused re-authentication of a replay
is a free choice in `Replay`.

### Stock

A request reads, takes row locks one at a time, and everything it writes is one step with
its COMMIT, because by then it holds every row it writes. `Find` and `LockPosition` are
two steps: a position that is not there when it is looked up may be inserted by another
request before this one inserts it (`PositionTaken`).

| Code | Actions |
|---|---|
| reserve, release with lines, release of all that is held | `BeginReserve`, `BeginRelease`, `BeginReleaseAll`, `Find`, `LockPosition` in id order, `CommitHold` or `RefuseHold` |
| `post_shipment_stock` | `BeginPost`, `LockSource`, positions in id order, `CommitShipment` (release of the hold, then the movement) |
| `post_business_object_stock` | `BeginPost`, `LockSource`, positions as the payload orders them, `CommitDocument` |
| `receive_purchase_order` | `BeginMove`, positions as they come, `CommitReceipt` |
| `bulk_inventory_upsert`, `create_inventory_item` | `BeginMove`, `CommitCount` |
| line routes of a shipment; PATCH of a business object | `BeginEdit`, `CommitEdit`; `BeginAmend`, `CommitAmend` |
| delete and restore of a shipment; a document's move out of and into readiness | `BeginToggle`, `CommitToggle` |
| the database's deadlock detector | `Deadlock` |

`onhand`, `promise` are the item's two sums, `booked` the ledger rows' sum, `hold` what the
reserved and released rows of an order sum to, `posts` the sets of ledger rows that cite a
source. Left out: archived positions, picklists, the definition version and the transfer
balance of a document (`ready` stands for both), several lines of a purchase order at one
position, and the key-share locks of the ledger's inserts.

### Orders

| Code | Actions |
|---|---|
| create, PATCH total, charge or clear the account, status, delete, restore, revise; invoice and its deletion | `DeskBegin`, `LockAccount` when the order it has read is charged, one `Commit...` each, entered twice when the account judges: flush and verdict, then COMMIT |
| save of a whole document; POST, PATCH, DELETE of a line | the same behind `LockRow`, which locks and re-reads the order |
| POST of an adjustment | the same behind `LockKey`: its INSERT, flushed before the account is asked for, takes the order's key and no more |
| PATCH, DELETE of an adjustment | nothing locks the order; `AdjustmentFree` is the adjustment's own row |
| the detector again | `DeskDeadlock` |

`NeedsAccount` says which routes are judged. Deleting a line or an adjustment is not: the code
takes both for shrinking. Under the lock a line write asks again whether the order's status is
editable, and not whether it has been deleted (`Fits`). `document_revision` hashes header,
lines and adjustments (`Revision`). Row locks come in three strengths: `LockRow` is `FOR UPDATE`
and waits for whoever refers to the order by a foreign key, a `COMMIT` of the order's own row is
an update and does not, and a new invoice or adjustment takes `KEY SHARE`, which only a writer of
lines keeps out.

`seen` is the row a session holds from its first read, `judged` the order its verdict was about.
SQLAlchemy writes a column only when the session's value of it changed (`Column`, and `Restated`
for an adjustment, which stays deleted), and `ensure_within_credit` sees other rows afresh but
believes what the session loaded of the stated total and of the adjustment it writes (`Base`). All
this leaves room for races, so two history variables name the orders they touched. `strained`
are those that grew in a commit nobody had judged as it came to be: their discount was deleted, or
they had changed since the verdict (without a verdict, since the read). `overtaken` were written by
a request whose read was no longer true. The two properties that speak of them except exactly
those orders, and what `strained` excepts without a race is the violated run `undiscounted`.

There is one account with a fixed `Line` (balance plus limit). Of an order's adjustments requests
name one (`adjusted`, 0 once deleted, so an adjustment of amount zero is left out) and post others
(`added`); a save names them all or none and posts none. Submitted, shipped and signed orders
count as draft or confirmed; `allocate_number`'s advisory lock and validate-only saves are left out.

### Approvals

Employee leaves under the shipped machine. No request locks the leave: the module follows
each request through its reads, its inserts (which wait for another transaction that inserted
the same key) and its COMMIT.

| Code | Actions |
|---|---|
| `create_approval_record` | `Begin`, `Decide` (record, then the sweep of todos), `Move` (`apply_round_transition`), `Look` and `Insert` per handoff, `Commit` |
| its retry path | `Begin` straight to `Move` |
| `submit_document` | `Begin`, `Resubmit`, `Commit` |
| `assign_todo`, `bulk_create_todos` aborting or skipping | `Look`, `Insert`, `Deadlock` |
| delete, restore, status PATCH, todo PATCH | `Begin`, `Bury` or `Move`, `Commit` |

The session does not autoflush, so a todo it has just completed is still open to its own
query; `Sweep`'s second call therefore overrides the first. A todo is `loose` when
the request that leaves it open kept every guard the code has: it was handed out after the
sweep had looked, its step was decided after the guard had passed it, it was reopened by
hand, or it was handed out for an undecided step of a round that had already been returned.
The last needs no race: `ensure_step_undecided` asks only whether that step is decided, so
`ReturnEndsTheRound` speaks of the work a return could see, not of what is handed out for
its round afterwards. The decider holds the seat of the step,
a rework is handed out with a return, nobody PATCHes a document to submitted, comments and
permissions are left out, and the title in `same_todo_assignment` is folded into the item.

### FlowRunner

| Code | Actions |
|---|---|
| `poll_once`: read the subscriptions, mark one as polled | `Wake`, `Sleep`, `Dispatch` |
| `dispatch` up to `open_run` | `LookIdle`, `LookFinds` |
| its check fails; an error that nothing guards, such as `URLError` or the runs `report_idle` opens | `LookFails`; `LookBreaks`, which ends the pass uncounted |
| `record_failed_check` | `FailedCheck`, `FailedCheckFails` |
| the agent's turn, and everybody else's records | `AgentActs`, `Arrives`, `Withdrawn` |
| re-count, marks, `note_progress`, `report_driver_state` | `Conclude` |
| the same when the API refuses one of these calls; when the transport fails | `ConcludeBlind`, which goes on to `close_run`; `ConcludeBreaks`, which leaves the run open |
| `close_run` | `Close`, `CloseFails` |
| process death | `Crash` |
| `clear_park`, `update_flow_subscription`, a published definition | `Unpark`, `Switch`, `Publish` |

`ApiError` is what the runner's guards catch; `UrllibTransport` raises it for HTTP errors only.
The server's half of a report, `report_driver_state`'s read of the row and its commit
(`flows.py:180-221`), is one step: two reports of one subscription that overlap inside it are left
out, those that overlap anywhere else are not. Time is counted in passes (`Cadence`).

A row's `unmoved` is what the code stores; `barren`, `spent` and `lost` count what really
happened since the queue last moved or was cleared, so that the properties compare the two.
`lost` are turns whose verdict never reached the row, `muddled` marks a count that was
written over another or that missed a move.

## Runs

| Run | Shows |
|---|---|
| `documents` | two handlers over two payments that can settle each other and a line-priced invoice, with one key: types, totals equal the ledger, judgements still hold at commit, one call per key, no ring of waiting requests, no move out of bounds, refinement of the promise |
| `accounts` | two handlers over a customer's account and a claim payable directly or by invoice |
| `idempotency` | three attempts under one key: types, one acknowledged write, faithful replays, answers stored before they leave, failures that free the key, and every attempt ends |
| `orders` | three requests, of the stock or the desk, any against any: sums equal the ledger, holds fit, a source posts once, circles of waits have an unordered request in them, the account stays within its line, a revision replaces its source, lines are written on the order that was judged (whose adjustments others may change), circles of desk requests cross the account's lock with an order's, refinement of `StockPromise`, and every request ends |
| `approvals` | three requests over a leave in decision, a returned one and a draft: one decision per node, one open todo per person and document, no submitted leave waits on settled work, a return ends its round, a deleted leave has no work, an answered decision has done what it was asked, and every request ends |
| `flow` | one replica with two subscriptions, or two with one: turns on a stuck queue are bounded, a park is deserved, and where the cadence leaves a pass for each subscription, each gets its turn (`RotationServesAll`) |
| `overbilled` | **violated**: settle, return, shrink a line; the invoice is settled beyond what it bills (one client, no race) |
| `hidden` | **violated**: a delete that races an application hides a document that carries money |
| `routes` | **violated**: bill, delete the invoice, pay the claim, restore the invoice, pay it (one client, no race) |
| `replay` | **violated**: two bodies race under one key; the loser is answered with the winner's rows, uncompared |
| `undiscounted` | **violated**: a second order takes the credit a discount left free, and the discount is deleted (no race) |
| `starved` | **violated**: a cadence shorter than the rotation; the last of three busy subscriptions never gets a turn |

The six violated runs each check one sentence of the documentation, the comments or the
integrity audit; `PROJECT.json` quotes it under `findings`, with ten more divergences that no
run checks: among them a PATCH that restates a total under money (`WriteTotal`), a COMMIT nobody
heard of that lets a key write twice (`CommitUnheard`), and a save that writes over an adjustment
changed while it holds the order (`CommitAdjust`, which waits for no lock on it).

Bounds. Two concurrent handlers suffice for lost updates, stale checks and two-party
rings, and every handler restarts, so sequences of calls are unbounded in length although
amounts are not: running totals stay within the headers, and a header takes a handful of
values. The worlds are split because no property relates a netting payment to an account;
the mixed body of `accounts` (a claim and an account in one call) keeps the two settling
paths together. Rings are looked for in `documents`; those of three or more
requests are outside it, and `NobodyWaitsInARing` covers them. Three attempts are the least in which a loser of the
insert, a winner that fails and a third claim meet. No symmetry is used: the rows differ.
Deadlock checking is on for settlement; it is off for `idempotency`, where the attempts are
finite and the system really stops.

`orders` has three positions, because a circle through a receipt, a count and a document
takes distinct rows, and ids for two filings, so that two revisions of one order can both
get theirs. Three requests are the least in which a stale read, the write that makes it
stale and the victim of both are different requests. Three crowds meet in it: any three calls of
the stock; any three among the desk's calls and those of the stock that name an order or hide its
shipment (receipts, counts and documents touch nothing the desk touches); and any three among the
writes of adjustments, the removal of a line and what moves an order. In all that is some
330,000 states. Requests arrive in the order of their
numbers, which makes no difference to what they can do to each other. `approvals` bounds the
todos by `RoomFor`: a batch commits only while ids are left, and six suffice for every
triple of calls. `flow` bounds waiting records (`MaxQueue`), failures and deaths
(`MaxFaults`; a check and the report of it may fail as one) and which subscription its tenant attends to (`Attended`); three unmoved runs,
the shipped limit, fit inside.

An attempt's handler is assumed not to outlive the 24 hours of `RETENTION`
(`RetentionEnds`); nothing in the code enforces that bound. The handler's writes are one
commit.

Fairness. `Settlement` states none and claims no liveness. `Idempotency` assumes weak
fairness of each attempt's own next step: the event loop runs what is ready, and a handler
returns or raises. It does not assume that grace or retention ends, nor that a process dies. `Orders` and `Approvals` assume that some
request that can go on does (the server's threads and the database never all rest), which
is less than fairness for each request; with finitely many requests it is enough. Their
deadlock check is off because the requests come to an end. `FlowRunner` assumes weak fairness
of each replica's loop: an agent's turn ends by its timeout. Nothing in the code makes a
tenant's rotation fit its cadence: with the shipped 300 seconds, turns of 50 to 100 and eight
families it does not. So `NobodyStarves`, which says what the dispatcher's comment says, is
violated in `starved`; `RotationServesAll` states the condition (`Cadence >= Cardinality(Subs)`, in
passes) in the property, and no assumption of the module mentions it.

## Proofs

TLAPS proves the theorems below for every value of the constants that meets the named
`ASSUME`s, which say only what the code or the schema guarantees: tables are disjoint, a
body's total is the sum of its lines, ranks are distinct, sets of rows are finite where an
argument takes a last one or a sum, calls are well formed, the `None`s are nobody's, and what was
filed before the first request was filed properly: `OpeningAssumption` is that the account starts
within its line and that an id nobody uses is neither charged nor billed. The restrictions named
under Modules come on top where a call or a request has to be of a modelled kind: the only one
that is a conjunct of an `ASSUME` is that no adjustment is posted or changed to zero.

| Module | Theorems |
|---|---|
| `SettlementProofs` | `TypeCorrect`, `Invariance`, `LedgerAlwaysAgrees`, `KeysApplyOnce`, `JudgementsHold`, `BoundsKept`, `NobodyWaitsInARing`; `Refinement`: `Settlement` implements `SettlementPromise` |
| `IdempotencyProofs` | `TypeCorrect`, `WrittenOnce`, `ReplaysMatch`, `StoredBeforeSent`, `FailureForgotten` |
| `StockProofs` | `TypeCorrect`, `Invariance`, `NothingOverReleased`, `NothingPostedTwice`, `OrderedLocksNeverKnot`, `TotalsFollowTheLedger`; `Refinement`: `Stock` implements `StockPromise` |
| `OrdersProofs` | `OrdersTypeCorrect`, `DeskInvariance`, `OneReplacement`, `LinesOnTheJudgedOrder`, `DeskKnotsCrossTheAccount`; `DeskRunsTheStock`: every behaviour of the composition is one of `Stock`; `StockBesideTheDesk`: so what is proved of the stock alone holds beside the desk |
| `CreditProofs` | `WithinTheLine`, `OneJudgeAtATime`, `CreditInvariance` |
| `ApprovalsProofs` | `ApprovalsTypeCorrect`, `ApprovalsInvariance`, `OneDecision`, `OneTodo`, `NothingStalls`, `RoundEnds`, `DeletedTakesItsWork`, `AnswersMeanMoved` |
| `FlowRunnerProofs` | `RunnerTypeCorrect`, `RunnerInvariance`, `SpendBounded`, `ParkDeserved` |

*Settlement's invariant.* That totals equal ledgers is not inductive: the commit writes
`seen + move`, an absolute value, and nothing in the ledger identity says that `seen` is
current. `IInv` adds `LockedAreCurrent` (whoever holds a row's lock read its total under it
and nobody has moved it since), `JudgedStillHolds` (after the bounds check all rows are held,
no stated total shrank, no account froze) and `CallsNameRows` (no invoice is billed into
existence underneath a call that names it). The first makes the commit's absolute write a
move; the second carries the bounds from the check to the commit; both turn on the fact that
every other writer of these columns waits for the row lock, which is where a mutation breaks
them. Refinement maps a commit to `Promise!Apply`, an entry to `Promise!Post`, header and
account writes to `Promise!Restate`, and everything else to a stutter. `NoDeadlock` needs one
invariant more, `LocksAscend` (what a request holds comes before what it has still to lock):
of the finitely many rows a ring waits for one is last, and its holder would wait for an
earlier one. The last row is found without induction (`Greatest` in `FiniteFacts`): it is the row above
which the fewest lie, by the well-foundedness of strict inclusion.

*Idempotency's invariant.* `RowBelongs`: an attempt that still runs owns the row, so does
one known to have written, and retention takes a row from neither. `AnswersMatch`: a stored
answer is by the row's owner, whose handler is past changing it, and so is a replay on its
way or delivered. `OneHeardWrite` follows because two known writers would own one row.

*The stock's invariant.* Between its last lock and its COMMIT a request computes from rows it
has read. `CallsFit` ties what is left to lock, what is next and what it carries to the call;
`LocksExclude` gives a row one holder; `SourceHeld` keeps a shipment or document locked, and
not yet posted, from its check to the posting; by `StampsTell` a shipment's stamp says whether
it has posted; and `LocksAscend` orders the positions of the requests that lock by id. A circle among those
falls to the argument above. Refinement maps each commit to the atomic movement of
`StockPromise`, and every lookup, lock and refusal to a stutter. `TotalsAreTheLedger` is proved
of the promise's steps, not of the requests': each moves quantity on hand, what may be promised
and one order's hold so that the balance of the three stands, whoever makes it.

*Sums over all orders.* The fold of the community modules is a recursive function chosen over a
set, and the library's induction over finite sets is out of reach here. `FiniteFacts` argues by
the smallest counterexample instead: of the subsets where a claim about a sum fails, one has no
proper subset where it fails, and it is not empty. That a solution of the recursion exists and
is unique (`SumExists`, `SumUnique`), that an element can be split off a sum (`SumSplit`), and
that a smaller function or a smaller set sums to less (`SumOrdered`, `SumOfFewer`) follow so.

*The desk's invariant.* `DeskInv` says what each request read still fits what it asks
(`AsksFit`), what a request may hold where it stands (`Claims`), that nobody who has written or
locked an order shares it with a writer of its lines (`RowsExclude`), that its header, its lines and
the sum of posted adjustments stand still meanwhile (`LinesStandStill`), that a verdict's order is
remembered until the commit (`VerdictsKept`), and that a source has one heir and stays cancelled
(`OneHeir`). The same exclusion bounds the desk's
deadlocks: in a set of requests that all wait for each other (`DeskKnot`) nobody has flushed,
so a row is held by a writer of lines, who waits for no row and must be waiting for the
account. `DeskKnotsCrossTheAccount` concludes that every knot, of however many requests, holds
the pair that `DeskDeadlock` aborts. Each step of `Orders` is a step of
`Stock` or leaves the stock's variables alone, so `DeskRunsTheStock` is a refinement with the
identity, and the stock's theorems carry over with no second proof.

*The account's invariant.* That the account is within its line is not inductive: a request
flushes, is judged, and commits a step later, by when the exposure it was judged by may be
another. `CreditInv` therefore keeps the verdict alive. `Verdict(r)`: between its flush and its
COMMIT, what `r` was allowed still fits, the order it names counted as the verdict took it
(`judged`, so `DrawsJudged`), the others as they are, with what it files (`Fresh`). When `r`
commits, either its order is as it was judged (`AsJudged`) and the account stays within its line, or
it is not (`Excused`) and the order is `strained` if the exposure grew. The verdict
stands for three reasons. `AccountExclusive`: nobody
else is judged meanwhile, by the account's row lock. `UnjudgedLessens`: each thing written without
a verdict (clearing the charge, a deletion, the deletion of an invoice or of a line, anything on an
order that is not charged) makes its order draw no more, which is a claim about `NeedsAccount` and
hence about where the routes call `resolve_chargeable_account` and `recheck_charged_document`. The
deletion of an adjustment is where this claim is false: it is `Excused`, for the reason
`undiscounted` shows. And `OthersHeld`: what others do to the very order that `r` was judged by
leaves `judged` alone, but for its invoices; as an order draws the greater of its total and of what
is billed, what lessens that lessens it with one more invoice on top (`BilledOnTop`).
`IdleNames` and `NamesInUse` say that the id a new order takes drew nothing and that nobody was
naming it. TLC checked `CreditInv` on the instance of `orders` before it was proved.

*The approvals' invariant.* No lock keeps a leave still, so the invariant says for each
request, at each place it may stand (`Control`), what it has written (`Wrote`) and what it
still relies on (`Relies`): a decision past its record has its fact, each item of its handoff
is still to come or has its todo, and every todo its sweep read is closed by it or is none of
its business (`Spared`). `RecordsApart` and `PlacesApart` are the two partial unique indexes
seen from inside the open transactions: a decision or a todo in hand meets none on the table
or in another hand. `WorkIsProper` then makes `NoStall`, `ReturnEndsTheRound` and
`DeletedHasNoWork` one fact, that only a race leaves an improper todo open, and a commit keeps
it because whatever it makes improper it had read, and swept. Rows take vacant ids in order;
`Numbering` shows that the numbers leave no gap and no double, so every handoff gets its row.

*The runner's invariant.* A row never counts past the limit (`Full`); every turn in vain is in
the row's count or among those lost (`Counted`); an unparked row counts no verdict twice
(`Deserved`); and a pass acts on a row that was unparked when it was read (`ReadUnparked`).
`SpendIsBounded` is the sum of the first two, `ParkIsDeserved` the step from the third.

Only model-checked: liveness (`EveryAttemptEnds`, `EveryRequestEnds`, `RotationServesAll`), because
liveness under fairness is beyond the prover. Every invariant and every action property of the
passing runs is stated by a theorem. The
sums inside a body (`TotalsAssumption`) are assumed of the constant and evaluated by TLC. The
theorems are about the safety part of each specification; the fair ones imply it.

Not covered by any property: a credit limit narrowed while an entry is being posted ends below its
own floor (`MovesStayInBounds` judges moves, and the PATCH's own check is made before its
lock); a retry that waits behind its original may be refused as over-applying where
it could have been replayed; that expense items are billed once, which rests on a unique index;
a PATCH of a total under money; a COMMIT nobody heard of; an adjustment that a save writes over;
two moves of one document by racing decisions, and two revisions by the same read, which the
properties about them except. All are listed under `hazards`.

## Not modelled

* OAuth's single-use codes, sign-in, document numbering: one row lock or advisory lock around
  one row each; nothing else reads what they guard.
* The registry of lifecycle machines and the validation of a tenant's definition: pure
  functions with unit tests of their own. The shipped machines are constants here.
* CRM, resources, business rules, bundles, treasury, people: create, read, update and delete
  over a row, with the verbs of `common/documents.py` that are modelled for other families.
* Migrations, tenant isolation, provisioning, e-mail, the MCP façade, frontend and skills:
  declarative, input and output, or presentation.

## Plan

What is left, in order: timesheets in `Approvals` (their header is locked, unlike a
leave's); charged purchase orders and returns in `Orders`; a module for single-use codes and
numbering; bootstrap and tenant reconciliation of the runner; the machines as pure operators.
