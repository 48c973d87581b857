--------------------------------- MODULE Stock ---------------------------------
(***************************************************************************)
(* The inventory ledger and the requests that move it: holds for an order, *)
(* shipments and stock documents that post, receipts, counts and new       *)
(* positions.  A request is one transaction: it reads, takes row locks one *)
(* at a time, and its writes are one step with its COMMIT, because every   *)
(* row it writes is locked by then.  Requests run in several processes.    *)
(***************************************************************************)
EXTENDS Integers, FiniteSets, Functions

CONSTANTS
  Requests,    \* the HTTP requests
  Positions,   \* inventory items, ordered as their ids are
  Orders,      \* sales orders
  Shipments,   \* shipments, each with its order or None
  Documents,   \* business objects whose type declares a stock effect
  ShipsFor,    \* the order of each shipment
  Outbound,    \* the shipments whose goods leave
  Calls,       \* what may be asked
  Opening,     \* the quantities on hand at the start
  Stocked,     \* the positions that exist at the start
  Parcel,      \* the lines of each shipment when it was filed
  Paper,       \* the lines of each stock document when it was filed
  None

VARIABLES
  onhand,    \* InventoryItem.quantity_on_hand
  promise,   \* InventoryItem.available_to_promise
  booked,    \* the sum of the ledger's quantity_on_hand_diff per position
  hold,      \* what the reserved and released rows of an order sum to
  exists,    \* the positions that have a row
  received,  \* PurchaseOrderItem.received_quantity
  landed,    \* the ledger rows that cite the purchase order's line
  ship,      \* lines, stock_posted_at and deleted_at of each shipment
  doc,       \* lines and stock_posted_at of each document, and its readiness
  posts,     \* how often each shipment or document is the source of rows
  order,     \* status and deleted_at of each order
  at,        \* where each request stands
  call,      \* what it asks
  lines,     \* the quantities it is going to move
  todo,      \* the positions it has still to lock
  next,      \* the row it is waiting for
  saw,       \* whether that position was there when it looked
  locked     \* the rows it holds

ledger == <<onhand, promise, booked, hold, exists, received, landed, posts>>
papers == <<ship, doc>>
control == <<at, call, lines, todo, next, saw, locked>>
stockVars == <<ledger, papers, order, control>>

Sources == Shipments \cup Documents
Rows == Positions \cup Sources

Zero == [p \in Positions |-> 0]
Plus(f, g) == [p \in Positions |-> f[p] + g[p]]
Minus(f, g) == [p \in Positions |-> f[p] - g[p]]

Statuses == {"none", "draft", "confirmed", "cancelled"}
Bodies == [Positions -> Nat]
AllCalls ==
  [kind : {"reserve", "release", "releaseAll", "ship", "edit", "hide", "receive",
           "count", "create", "post", "amend", "advance"},
   of : Orders \cup Sources \cup {None}, rows : SUBSET Positions, lines : [Positions -> Int]]

\* What each kind of call names, and the sign of its quantities.
WellFormed(c) ==
  /\ c.kind \in {"reserve", "release", "releaseAll"} => c.of \in Orders
  /\ c.kind \in {"ship", "edit", "hide"} => c.of \in Shipments
  /\ c.kind \in {"post", "amend", "advance"} => c.of \in Documents
  /\ c.kind \notin {"post", "amend"} => c.lines \in Bodies
  /\ \A p \in Positions \ c.rows : c.lines[p] = 0

ASSUME StockAssumption ==
  /\ Positions \subseteq Nat /\ IsFiniteSet(Positions) /\ IsFiniteSet(Orders)
  /\ Shipments \cap Documents = {} /\ Sources \cap Positions = {}
  /\ ShipsFor \in [Shipments -> Orders \cup {None}]
  /\ Outbound \subseteq Shipments
  /\ Calls \subseteq AllCalls /\ \A c \in Calls : WellFormed(c)
  /\ Opening \in [Positions -> Int] /\ Stocked \subseteq Positions
  /\ \A p \in Positions \ Stocked : Opening[p] = 0
  /\ Parcel \in [Shipments -> Bodies] /\ Paper \in [Documents -> [Positions -> Int]]
  /\ None \notin Orders \cup Rows \cup AllCalls

StockInit ==
  /\ onhand = Opening /\ promise = Opening /\ booked = Opening
  /\ hold = [o \in Orders |-> Zero]
  /\ exists = Stocked
  /\ received = Zero /\ landed = Zero
  /\ ship = [s \in Shipments |-> [lines |-> Parcel[s], posted |-> FALSE, live |-> TRUE]]
  /\ doc = [d \in Documents |-> [lines |-> Paper[d], stamped |-> FALSE, ready |-> TRUE]]
  /\ posts = [s \in Sources |-> 0]
  /\ at = [r \in Requests |-> "new"]
  /\ call = [r \in Requests |-> None]
  /\ lines = [r \in Requests |-> Zero]
  /\ todo = [r \in Requests |-> {}]
  /\ next = [r \in Requests |-> None]
  /\ saw = [r \in Requests |-> FALSE]
  /\ locked = [r \in Requests |-> {}]

-----------------------------------------------------------------------------
(* Locks                                                                    *)

\* reserve, release and post-stock on a shipment lock positions in id order;
\* the other requests lock them as their payload comes.
Ordered(c) == c.kind \in {"reserve", "release", "releaseAll", "ship"}

Free(row) == \A r \in Requests : row \notin locked[r]

WaitsFor(a, b) == a # b /\ at[a] \in {"source", "locking"} /\ next[a] \in locked[b]

\* A set of requests none of which can go on.
Knot(S) == S # {} /\ \A a \in S : \E b \in S : WaitsFor(a, b)

Forgotten(r) ==
  /\ call' = [call EXCEPT ![r] = None]
  /\ lines' = [lines EXCEPT ![r] = Zero]
  /\ todo' = [todo EXCEPT ![r] = {}]
  /\ next' = [next EXCEPT ![r] = None]
  /\ saw' = [saw EXCEPT ![r] = FALSE]

\* Mutation: a request that ends keeps its locks.
Leaky(r) == at' = [at EXCEPT ![r] = "done"] /\ Forgotten(r) /\ UNCHANGED locked

\* The request is over: COMMIT or ROLLBACK, its locks and its session are gone.
Over(r) ==
  /\ at' = [at EXCEPT ![r] = "done"]
  /\ locked' = [locked EXCEPT ![r] = {}]
  /\ Forgotten(r)

\* 4xx: nothing is written.
Refuse(r) == Over(r) /\ UNCHANGED <<ledger, papers, order>>

-----------------------------------------------------------------------------
(* What a request reads before it locks anything                            *)

Ask(r, c, where, body, rows, row) ==
  /\ at' = [at EXCEPT ![r] = where]
  /\ call' = [call EXCEPT ![r] = c]
  /\ lines' = [lines EXCEPT ![r] = body]
  /\ todo' = [todo EXCEPT ![r] = rows]
  /\ next' = [next EXCEPT ![r] = row]
  /\ UNCHANGED <<saw, locked, ledger, papers, order>>

\* reserve_stock_for_order: a live order that has not reached a terminal state.
BeginReserve(r, c) ==
  /\ c.kind = "reserve"
  /\ order[c.of].live /\ order[c.of].status \in {"draft", "confirmed"}
  /\ Ask(r, c, "finding", c.lines, c.rows, None)

\* release_stock_for_order with lines: a cancelled order's hold is given back
\* too, a deleted one's is not.
BeginRelease(r, c) ==
  /\ c.kind = "release"
  /\ order[c.of].live /\ order[c.of].status # "none"
  /\ Ask(r, c, "finding", c.lines, c.rows, None)

Outstanding(o) == {p \in Positions : hold[o][p] > 0}

\* ... and without lines: what the order holds is read before any lock.
BeginReleaseAll(r, c) ==
  /\ c.kind = "releaseAll"
  /\ order[c.of].live /\ order[c.of].status # "none"
  /\ Ask(r, c, "finding", [p \in Positions |-> IF hold[c.of][p] > 0 THEN hold[c.of][p] ELSE 0],
         Outstanding(c.of), None)

\* receive_purchase_order, bulk_inventory_upsert, create_inventory_item.
BeginMove(r, c) ==
  /\ c.kind \in {"receive", "count", "create"}
  /\ Ask(r, c, "finding", c.lines, c.rows, None)

\* post_shipment_stock and post_business_object_stock lock their source first.
BeginPost(r, c) ==
  /\ c.kind \in {"ship", "post"}
  /\ Ask(r, c, "source", Zero, {}, c.of)

\* The line routes of a shipment read its stamp without a lock.
BeginEdit(r, c) ==
  /\ c.kind = "edit"
  /\ ship[c.of].live /\ ~ship[c.of].posted
  /\ Ask(r, c, "editing", c.lines, {}, c.of)

\* So does the content PATCH of a business object.
BeginAmend(r, c) ==
  /\ c.kind = "amend"
  /\ ~doc[c.of].stamped
  /\ Ask(r, c, "editing", c.lines, {}, c.of)

\* Requests that change one field of the source and read no stamp: a shipment
\* deleted or restored, a document's status or definition moved.
BeginToggle(r, c) ==
  /\ c.kind \in {"hide", "advance"}
  /\ Ask(r, c, "editing", Zero, {}, c.of)

Begin(r, c) ==
  /\ at[r] = "new"
  /\ \/ BeginReserve(r, c) \/ BeginRelease(r, c) \/ BeginReleaseAll(r, c)
     \/ BeginMove(r, c) \/ BeginPost(r, c)
     \/ BeginEdit(r, c) \/ BeginAmend(r, c) \/ BeginToggle(r, c)

-----------------------------------------------------------------------------
(* Row locks                                                                *)

\* Mutation: a document is judged by its stamp, not by the rows that cite it.
StampOnly(c) == IF c.kind = "ship" THEN ship[c.of].live /\ ~ship[c.of].posted
                ELSE doc[c.of].ready /\ ~doc[c.of].stamped

Postable(c) ==
  IF c.kind = "ship"
  THEN ship[c.of].live /\ ~ship[c.of].posted
  ELSE doc[c.of].ready /\ posts[c.of] = 0

SourceLines(c) == IF c.kind = "ship" THEN ship[c.of].lines ELSE doc[c.of].lines

\* The source row is locked, then judged; its lines are what will move.
LockSource(r) ==
  /\ at[r] = "source" /\ Free(next[r])
  /\ Postable(call[r])
  /\ at' = [at EXCEPT ![r] = "finding"]
  /\ locked' = [locked EXCEPT ![r] = {next[r]}]
  /\ lines' = [lines EXCEPT ![r] = SourceLines(call[r])]
  /\ todo' = [todo EXCEPT ![r] = {p \in Positions : SourceLines(call[r])[p] # 0}]
  /\ next' = [next EXCEPT ![r] = None]
  /\ UNCHANGED <<call, saw, ledger, papers, order>>

RefuseSource(r) ==
  /\ at[r] = "source" /\ Free(next[r])
  /\ ~Postable(call[r])
  /\ Refuse(r)

\* Mutation: the lines are locked in the order the caller wrote them.
Unsorted(r) == todo[r]

NextRows(r) ==
  {p \in todo[r] : Ordered(call[r]) => \A q \in todo[r] : p <= q}

\* Only a receipt, a count and a new position may name a row that is not there.
MayCreate(c) == c.kind \in {"receive", "count", "create"}

\* The next position is looked up (find_inventory_item, require_active_row).
Find(r) ==
  /\ at[r] = "finding" /\ todo[r] # {}
  /\ \E p \in NextRows(r) :
       /\ p \in exists \/ MayCreate(call[r])
       /\ ~(p \in exists /\ call[r].kind = "create")
       /\ next' = [next EXCEPT ![r] = p]
       /\ saw' = [saw EXCEPT ![r] = (p \in exists)]
  /\ at' = [at EXCEPT ![r] = "locking"]
  /\ UNCHANGED <<call, lines, todo, locked, ledger, papers, order>>

RefusePosition(r) ==
  /\ at[r] = "finding"
  /\ \E p \in NextRows(r) :
       IF p \in exists THEN call[r].kind = "create" ELSE ~MayCreate(call[r])
  /\ Refuse(r)

\* SELECT FOR UPDATE, or the relative UPDATE, or the INSERT of a position.
LockPosition(r) ==
  /\ at[r] = "locking" /\ Free(next[r])
  /\ saw[r] = (next[r] \in exists)
  /\ at' = [at EXCEPT ![r] = "finding"]
  /\ locked' = [locked EXCEPT ![r] = @ \cup {next[r]}]
  /\ todo' = [todo EXCEPT ![r] = @ \ {next[r]}]
  /\ next' = [next EXCEPT ![r] = None]
  /\ UNCHANGED <<call, lines, saw, ledger, papers, order>>

\* The unique index of positions refuses the second insert of one shelf.
PositionTaken(r) ==
  /\ at[r] = "locking" /\ Free(next[r])
  /\ saw[r] # (next[r] \in exists)
  /\ Refuse(r)

\* The database finds the knot and aborts one request of it.
Deadlock(r) ==
  /\ \E S \in SUBSET Requests : r \in S /\ Knot(S)
  /\ Refuse(r)

-----------------------------------------------------------------------------
(* What is written under the locks                                          *)

Ready(r, kinds) == at[r] = "finding" /\ todo[r] = {} /\ call[r].kind \in kinds

\* Mutation: what the request read before its locks is not judged again.
Unjudged(r) == \A p \in Positions : call[r].kind = "reserve" /\ lines[r][p] > 0 => promise[p] >= lines[r][p]

\* _require_hold_within_bounds
WithinBounds(r) ==
  \A p \in Positions : lines[r][p] > 0 =>
    IF call[r].kind = "reserve" THEN promise[p] >= lines[r][p]
    ELSE lines[r][p] <= hold[call[r].of][p]

CommitHold(r) ==
  /\ Ready(r, {"reserve", "release", "releaseAll"})
  /\ WithinBounds(r)
  /\ LET taken == IF call[r].kind = "reserve" THEN lines[r] ELSE Minus(Zero, lines[r])
     IN  /\ promise' = Minus(promise, taken)
         /\ hold' = [hold EXCEPT ![call[r].of] = Plus(@, taken)]
  /\ Over(r)
  /\ UNCHANGED <<onhand, booked, exists, received, landed, posts, papers, order>>

RefuseHold(r) ==
  /\ Ready(r, {"reserve", "release", "releaseAll"})
  /\ ~WithinBounds(r)
  /\ Refuse(r)

\* Mutation: goods that were promised already are taken off the promise again.
DeductTwice(diff, freed) ==
  /\ onhand' = Plus(onhand, diff)
  /\ booked' = Plus(booked, diff)
  /\ promise' = Plus(promise, diff)

\* post_inventory_detail: the row and a relative update of both sums.
PostDetail(diff, freed) ==
  /\ onhand' = Plus(onhand, diff)
  /\ booked' = Plus(booked, diff)
  /\ promise' = Plus(promise, Plus(diff, freed))

\* Mutation: a shipment gives back all its order holds.
WholeHold(s, q) ==
  IF s \in Outbound /\ ShipsFor[s] # None
  THEN [p \in Positions |-> IF q[p] > 0 THEN hold[ShipsFor[s]][p] ELSE 0]
  ELSE Zero

\* _outstanding_holds and _release_hold: up to the line's quantity.
Consumed(s, q) ==
  IF s \in Outbound /\ ShipsFor[s] # None
  THEN [p \in Positions |->
          IF hold[ShipsFor[s]][p] <= 0 THEN 0
          ELSE IF q[p] <= hold[ShipsFor[s]][p] THEN q[p] ELSE hold[ShipsFor[s]][p]]
  ELSE Zero

CommitShipment(r) ==
  /\ Ready(r, {"ship"})
  /\ LET s == call[r].of
         used == Consumed(s, lines[r])
     IN  /\ PostDetail(IF s \in Outbound THEN Minus(Zero, lines[r]) ELSE lines[r], used)
         /\ hold' = IF ShipsFor[s] = None THEN hold
                    ELSE [hold EXCEPT ![ShipsFor[s]] = Minus(@, used)]
         /\ ship' = [ship EXCEPT ![s].posted = TRUE]
         /\ posts' = [posts EXCEPT ![s] = @ + 1]
  /\ Over(r)
  /\ UNCHANGED <<exists, received, landed, doc, order>>

\* post_business_object_stock
CommitDocument(r) ==
  /\ Ready(r, {"post"})
  /\ PostDetail(lines[r], Zero)
  /\ doc' = [doc EXCEPT ![call[r].of].stamped = TRUE]
  /\ posts' = [posts EXCEPT ![call[r].of] = @ + 1]
  /\ Over(r)
  /\ UNCHANGED <<hold, exists, received, landed, ship, order>>

CommitReceipt(r) ==
  /\ Ready(r, {"receive"})
  /\ PostDetail(lines[r], Zero)
  /\ exists' = exists \cup call[r].rows
  /\ received' = Plus(received, lines[r])
  /\ landed' = Plus(landed, lines[r])
  /\ Over(r)
  /\ UNCHANGED <<hold, posts, papers, order>>

\* The counted quantity less the system's, or the opening balance.
Difference(r) ==
  [p \in Positions |-> IF p \in call[r].rows THEN lines[r][p] - onhand[p] ELSE 0]

CommitCount(r) ==
  /\ Ready(r, {"count", "create"})
  /\ PostDetail(Difference(r), Zero)
  /\ exists' = exists \cup call[r].rows
  /\ Over(r)
  /\ UNCHANGED <<hold, received, landed, posts, papers, order>>

\* A shipment's lines are rows of their own, written whatever the stamp of the
\* shipment says by now.
CommitEdit(r) ==
  /\ at[r] = "editing" /\ call[r].kind = "edit"
  /\ ship' = [ship EXCEPT ![call[r].of].lines = lines[r]]
  /\ Over(r)
  /\ UNCHANGED <<ledger, doc, order>>

\* The PATCH writes the whole payload, the stamp of a posting included.
CommitAmend(r) ==
  /\ at[r] = "editing" /\ call[r].kind = "amend" /\ Free(next[r])
  /\ doc' = [doc EXCEPT ![call[r].of].lines = lines[r], ![call[r].of].stamped = FALSE]
  /\ Over(r)
  /\ UNCHANGED <<ledger, ship, order>>

CommitToggle(r) ==
  /\ at[r] = "editing" /\ call[r].kind \in {"hide", "advance"} /\ Free(next[r])
  /\ IF call[r].kind = "hide"
     THEN ship' = [ship EXCEPT ![call[r].of].live = ~@] /\ UNCHANGED doc
     ELSE doc' = [doc EXCEPT ![call[r].of].ready = ~@] /\ UNCHANGED ship
  /\ Over(r)
  /\ UNCHANGED <<ledger, order>>

-----------------------------------------------------------------------------
Locking(r) ==
  LockSource(r) \/ RefuseSource(r) \/ Find(r) \/ RefusePosition(r)
    \/ LockPosition(r) \/ PositionTaken(r) \/ Deadlock(r)

Commit(r) ==
  CommitHold(r) \/ RefuseHold(r) \/ CommitShipment(r) \/ CommitDocument(r)
    \/ CommitReceipt(r) \/ CommitCount(r) \/ CommitEdit(r) \/ CommitAmend(r) \/ CommitToggle(r)

Proceed(r) == Locking(r) \/ Commit(r)

\* The routes of the order documents, seen from the stock.
OrdersMove ==
  /\ order' \in [Orders -> [live : BOOLEAN, status : Statuses]]
  /\ UNCHANGED <<ledger, papers, control>>

StockNext ==
  \/ \E r \in Requests : Proceed(r) \/ \E c \in Calls : Begin(r, c)
  \/ OrdersMove

StockSpec == StockInit /\ order \in [Orders -> [live : BOOLEAN, status : Statuses]]
               /\ [][StockNext]_stockVars

-----------------------------------------------------------------------------
(* Properties                                                               *)

Papers == [lines : [Positions -> Int], stamped : BOOLEAN, ready : BOOLEAN]
Parcels == [lines : Bodies, posted : BOOLEAN, live : BOOLEAN]

StockTypeOK ==
  /\ onhand \in [Positions -> Int] /\ promise \in [Positions -> Int]
  /\ booked \in [Positions -> Int]
  /\ hold \in [Orders -> [Positions -> Int]]
  /\ exists \subseteq Positions
  /\ received \in Bodies /\ landed \in Bodies
  /\ ship \in [Shipments -> Parcels] /\ doc \in [Documents -> Papers]
  /\ posts \in [Sources -> Nat]
  /\ order \in [Orders -> [live : BOOLEAN, status : Statuses]]
  /\ at \in [Requests -> {"new", "source", "finding", "locking", "editing", "done"}]
  /\ call \in [Requests -> Calls \cup {None}]
  /\ lines \in [Requests -> [Positions -> Int]]
  /\ todo \in [Requests -> SUBSET Positions]
  /\ next \in [Requests -> Rows \cup {None}]
  /\ saw \in [Requests -> BOOLEAN]
  /\ locked \in [Requests -> SUBSET Rows]

\* The running sums are what the ledger says (InventoryItem's docstring), and
\* what an item promises is what it has less what its orders hold, whoever
\* reserved, shipped, counted or received in between.
TotalsAreTheLedger ==
  /\ onhand = booked /\ received = landed
  /\ \A p \in Positions : promise[p] = onhand[p] - SumFunction([o \in Orders |-> hold[o][p]])

\* No release and no shipment gives back more than the order holds, however
\* many release at once and whatever each of them read before its locks
\* (_require_hold_within_bounds, _outstanding_holds).
HoldsNonNegative == \A o \in Orders, p \in Positions : hold[o][p] >= 0

\* A shipment or a stock document is the source of one set of ledger rows,
\* even when an edit that raced the posting has wiped its stamp.
PostsOnce == \A s \in Sources : posts[s] <= 1

\* Requests that lock in id order never wait on each other in a circle: a knot
\* has a receipt, a count or a stock document in it, whose payload says the
\* order, and the database has to break it.
KnotsNeedUnordered ==
  \A S \in SUBSET Requests : Knot(S) => \E r \in S : ~Ordered(call[r])

Promise == INSTANCE StockPromise WITH
  Positions <- Positions, Orders <- Orders, Sources <- Sources,
  onhand <- onhand, promise <- promise, hold <- hold,
  spent <- {s \in Sources : posts[s] > 0}

\* Every movement of the ledger is one of StockPromise's, atomically: nothing
\* is over-sold, over-released or posted twice by any interleaving.
KeepsStockPromise == Promise!Spec
=============================================================================
