------------------------------ MODULE StockProofs ------------------------------
(***************************************************************************)
(* Theorems about Stock, for every set of requests, positions, sources and *)
(* calls.                                                                  *)
(***************************************************************************)
EXTENDS Stock, FiniteFacts

USE StockAssumption

-----------------------------------------------------------------------------
(* Facts about calls and quantities                                         *)

\* What a call names, and the sign of its quantities, by its kind.
LEMMA CallFacts ==
  ASSUME NEW c \in Calls
  PROVE  /\ c # None
         /\ c.rows \subseteq Positions /\ c.lines \in [Positions -> Int]
         /\ c.kind \in {"reserve", "release", "releaseAll"} => c.of \in Orders
         /\ c.kind \in {"ship", "edit", "hide"} => c.of \in Shipments
         /\ c.kind \in {"post", "amend", "advance"} => c.of \in Documents
         /\ c.kind \notin {"post", "amend"} => c.lines \in Bodies
<1>1. c \in AllCalls /\ WellFormed(c)
  OBVIOUS
<1> QED
  BY <1>1 DEF AllCalls, WellFormed

\* Quantities add up position by position.
LEMMA Quantities ==
  /\ Zero \in Bodies /\ Zero \in [Positions -> Int]
  /\ \A f \in Bodies : f \in [Positions -> Int]
  /\ \A f, g \in [Positions -> Int] :
       /\ Plus(f, g) \in [Positions -> Int] /\ Minus(f, g) \in [Positions -> Int]
       /\ \A p \in Positions : Plus(f, g)[p] = f[p] + g[p] /\ Minus(f, g)[p] = f[p] - g[p]
  /\ \A f, g \in Bodies : Plus(f, g) \in Bodies
  /\ \A p \in Positions : Zero[p] = 0
BY DEF Zero, Bodies, Plus, Minus

\* What a source moves is a quantity per position, of a shipment never less
\* than nothing.
LEMMA SourceFacts ==
  ASSUME StockTypeOK, NEW c \in Calls, c.kind \in {"ship", "post"}
  PROVE  /\ c.of \in Sources
         /\ SourceLines(c) \in [Positions -> Int]
         /\ c.kind = "ship" => SourceLines(c) \in Bodies
BY CallFacts, Quantities DEF SourceLines, StockTypeOK, Parcels, Papers, Sources

\* What a shipment takes off a hold is between nothing and the hold, and less
\* than the shipment only when it is all of the hold.
LEMMA ConsumedFacts ==
  ASSUME StockTypeOK, NEW s \in Shipments, NEW q \in Bodies
  PROVE  /\ Consumed(s, q) \in [Positions -> Int]
         /\ s \notin Outbound \/ ShipsFor[s] = None => Consumed(s, q) = Zero
         /\ s \in Outbound /\ ShipsFor[s] # None =>
              \A p \in Positions : hold[ShipsFor[s]][p] >= 0 =>
                /\ 0 <= Consumed(s, q)[p] /\ Consumed(s, q)[p] <= q[p]
                /\ Consumed(s, q)[p] <= hold[ShipsFor[s]][p]
                /\ Consumed(s, q)[p] < q[p] => Consumed(s, q)[p] = hold[ShipsFor[s]][p]
<1>1. q \in [Positions -> Nat]
  BY DEF Bodies
<1>2. CASE s \in Outbound /\ ShipsFor[s] # None
  <2> DEFINE h == hold[ShipsFor[s]]
  <2>1. ShipsFor[s] \in Orders
    BY <1>2
  <2>2. h \in [Positions -> Int]
    BY <2>1 DEF StockTypeOK
  <2>3. Consumed(s, q) = [p \in Positions |->
          IF h[p] <= 0 THEN 0 ELSE IF q[p] <= h[p] THEN q[p] ELSE h[p]]
    BY <1>2 DEF Consumed
  <2> HIDE DEF h
  <2>4. \A p \in Positions : h[p] \in Int /\ q[p] \in Nat
    BY <1>1, <2>2
  <2>5. Consumed(s, q) \in [Positions -> Int]
    BY <2>3, <2>4
  <2>6. ASSUME NEW p \in Positions, h[p] >= 0
        PROVE  /\ 0 <= Consumed(s, q)[p] /\ Consumed(s, q)[p] <= q[p]
               /\ Consumed(s, q)[p] <= h[p]
               /\ Consumed(s, q)[p] < q[p] => Consumed(s, q)[p] = h[p]
    BY <2>3, <2>4, <2>6
  <2> QED
    BY <1>2, <2>5, <2>6 DEF h
<1>3. CASE ~(s \in Outbound /\ ShipsFor[s] # None)
  BY <1>3, Quantities DEF Consumed
<1> QED
  BY <1>2, <1>3

-----------------------------------------------------------------------------
(* Type correctness                                                         *)

\* A request that begins only changes what it asks and where it stands.
LEMMA AskType ==
  ASSUME StockTypeOK, NEW r \in Requests, NEW c \in Calls, NEW where \in {"source", "finding", "editing"},
         NEW body \in [Positions -> Int], NEW rows \in SUBSET Positions, NEW row \in Rows \cup {None},
         Ask(r, c, where, body, rows, row)
  PROVE  StockTypeOK'
BY DEF Ask, StockTypeOK, ledger, papers

LEMMA BeginType ==
  ASSUME StockTypeOK, NEW r \in Requests, NEW c \in Calls, Begin(r, c)
  PROVE  StockTypeOK'
<1> USE CallFacts, Quantities
<1>1. CASE BeginReserve(r, c) \/ BeginRelease(r, c) \/ BeginMove(r, c)
  BY <1>1, AskType DEF BeginReserve, BeginRelease, BeginMove
<1>2. CASE BeginReleaseAll(r, c)
  <2>1. hold[c.of] \in [Positions -> Int]
    BY <1>2 DEF BeginReleaseAll, StockTypeOK
  <2>2. [p \in Positions |-> IF hold[c.of][p] > 0 THEN hold[c.of][p] ELSE 0] \in [Positions -> Int]
    BY <2>1
  <2>3. Outstanding(c.of) \in SUBSET Positions
    BY DEF Outstanding
  <2> QED
    BY <1>2, <2>2, <2>3, AskType DEF BeginReleaseAll
<1>3. CASE BeginPost(r, c)
  <2>1. c.of \in Rows
    BY <1>3 DEF BeginPost, Rows, Sources
  <2> QED
    BY <1>3, <2>1, AskType DEF BeginPost
<1>4. CASE BeginEdit(r, c) \/ BeginAmend(r, c) \/ BeginToggle(r, c)
  <2>1. c.of \in Rows
    BY <1>4 DEF BeginEdit, BeginAmend, BeginToggle, Rows, Sources
  <2> QED
    BY <1>4, <2>1, AskType DEF BeginEdit, BeginAmend, BeginToggle
<1> QED
  BY <1>1, <1>2, <1>3, <1>4 DEF Begin

\* A request that ends forgets all it held, and moves no column.
LEMMA OverType ==
  ASSUME StockTypeOK, NEW r \in Requests, Over(r)
  PROVE  /\ at' \in [Requests -> {"new", "source", "finding", "locking", "editing", "done"}]
         /\ call' \in [Requests -> Calls \cup {None}]
         /\ lines' \in [Requests -> [Positions -> Int]]
         /\ todo' \in [Requests -> SUBSET Positions]
         /\ next' \in [Requests -> Rows \cup {None}]
         /\ saw' \in [Requests -> BOOLEAN]
         /\ locked' \in [Requests -> SUBSET Rows]
BY Quantities DEF Over, Forgotten, StockTypeOK

LEMMA RefuseType ==
  ASSUME StockTypeOK, NEW r \in Requests, Refuse(r)
  PROVE  StockTypeOK'
BY OverType DEF Refuse, StockTypeOK, ledger, papers

\* The refusals of a request, by the rule that refuses.
Refusal(r) ==
  RefuseSource(r) \/ RefusePosition(r) \/ PositionTaken(r) \/ Deadlock(r) \/ RefuseHold(r)

LEMMA RefusalIsRefuse ==
  ASSUME NEW r \in Requests, Refusal(r)
  PROVE  Refuse(r)
BY DEF Refusal, RefuseSource, RefusePosition, PositionTaken, Deadlock, RefuseHold

-----------------------------------------------------------------------------
(* The invariant                                                            *)

Posting == {"ship", "post"}
Editing == {"edit", "hide", "amend", "advance"}

\* Where a request stands says what it asks, what it waits for and what it moves.
CallsFit ==
  \A r \in Requests :
    /\ at[r] \in {"source", "finding", "locking", "editing"} => call[r] \in Calls
    /\ at[r] = "source" => call[r].kind \in Posting /\ next[r] = call[r].of
    /\ at[r] \in {"finding", "locking"} => call[r].kind \notin Editing
    /\ at[r] = "locking" => next[r] \in todo[r]
    /\ at[r] = "editing" => call[r].kind \in Editing
    /\ at[r] \in {"finding", "locking", "editing"} /\ call[r].kind \notin {"post", "amend"} =>
         lines[r] \in Bodies

\* Only a request between its first lock and its end holds rows, and no row has
\* two holders.
LocksExclude ==
  /\ \A r \in Requests : at[r] \notin {"finding", "locking"} => locked[r] = {}
  /\ \A r, q \in Requests : r # q => locked[r] \cap locked[q] = {}

\* A request that posts holds its source from the judgement on, and the source
\* has not posted.
SourceHeld ==
  \A r \in Requests : at[r] \in {"finding", "locking"} /\ call[r].kind \in Posting =>
    /\ call[r].of \in locked[r]
    /\ posts[call[r].of] = 0

\* A shipment's stamp says whether it has posted; nobody can wipe it.
StampsTell == \A s \in Shipments : posts[s] = IF ship[s].posted THEN 1 ELSE 0

\* A request that locks in id order has locked less than what it has left, and
\* waits for the least of it.
LocksAscend ==
  \A r \in Requests : at[r] \in {"finding", "locking"} /\ Ordered(call[r]) =>
    /\ \A p \in locked[r] \cap Positions, q \in todo[r] : p < q
    /\ at[r] = "locking" => \A q \in todo[r] : next[r] <= q

IInv ==
  /\ StockTypeOK /\ CallsFit /\ LocksExclude /\ SourceHeld /\ StampsTell /\ LocksAscend
  /\ HoldsNonNegative /\ PostsOnce

-----------------------------------------------------------------------------
(* Type correctness of the steps                                            *)

\* A shipment and a document stay what they are when one field is written.
LEMMA RecordTypes ==
  /\ \A x \in Parcels :
       /\ [x EXCEPT !.posted = TRUE] \in Parcels
       /\ \A b \in BOOLEAN : /\ [x EXCEPT !.live = b] \in Parcels
                           /\ [x EXCEPT !.live = b].posted = x.posted
       /\ \A b \in Bodies : [x EXCEPT !.lines = b] \in Parcels
  /\ \A x \in Papers :
       /\ [x EXCEPT !.stamped = TRUE] \in Papers
       /\ \A b \in BOOLEAN : [x EXCEPT !.ready = b] \in Papers
       /\ \A b \in [Positions -> Int] : [x EXCEPT !.lines = b, !.stamped = FALSE] \in Papers
BY DEF Parcels, Papers

LEMMA LockingType ==
  ASSUME StockTypeOK, CallsFit, NEW r \in Requests, LockSource(r) \/ Find(r) \/ LockPosition(r)
  PROVE  StockTypeOK'
<1>1. CASE LockSource(r)
  <2>1. call[r] \in Calls /\ call[r].kind \in {"ship", "post"} /\ next[r] = call[r].of
    BY <1>1 DEF LockSource, CallsFit, Posting
  <2>2. SourceLines(call[r]) \in [Positions -> Int] /\ next[r] \in Rows
    BY <2>1, SourceFacts DEF Rows
  <2>3. {p \in Positions : SourceLines(call[r])[p] # 0} \in SUBSET Positions
    OBVIOUS
  <2> QED
    BY <1>1, <2>2, <2>3 DEF LockSource, StockTypeOK, ledger, papers
<1>2. CASE Find(r)
  <2>1. PICK p \in NextRows(r) : next' = [next EXCEPT ![r] = p] /\ saw' = [saw EXCEPT ![r] = (p \in exists)]
    BY <1>2 DEF Find
  <2>2. p \in Rows
    BY <2>1 DEF NextRows, Rows, StockTypeOK
  <2> QED
    BY <1>2, <2>1, <2>2 DEF Find, StockTypeOK, ledger, papers
<1>3. CASE LockPosition(r)
  <2>1. next[r] \in Rows
    BY <1>3 DEF LockPosition, CallsFit, StockTypeOK, Rows
  <2> QED
    BY <1>3, <2>1 DEF LockPosition, StockTypeOK, ledger, papers
<1> QED
  BY <1>1, <1>2, <1>3

\* What a request about to commit asks and moves.
LEMMA ReadyFacts ==
  ASSUME StockTypeOK, CallsFit, NEW r \in Requests, NEW kinds, Ready(r, kinds)
  PROVE  /\ call[r] \in Calls /\ call[r].kind \in kinds
         /\ lines[r] \in [Positions -> Int]
         /\ call[r].kind # "post" => lines[r] \in Bodies
BY DEF Ready, CallsFit, StockTypeOK, Editing

LEMMA CommitHoldType ==
  ASSUME StockTypeOK, CallsFit, NEW r \in Requests, CommitHold(r)
  PROVE  StockTypeOK'
<1>1. call[r] \in Calls /\ call[r].of \in Orders /\ lines[r] \in [Positions -> Int]
  BY ReadyFacts, CallFacts DEF CommitHold
<1> DEFINE taken == IF call[r].kind = "reserve" THEN lines[r] ELSE Minus(Zero, lines[r])
<1>2. taken \in [Positions -> Int]
  BY <1>1, Quantities
<1>3. promise' = Minus(promise, taken) /\ hold' = [hold EXCEPT ![call[r].of] = Plus(@, taken)]
  BY DEF CommitHold
<1> HIDE DEF taken
<1>4. promise' \in [Positions -> Int] /\ hold' \in [Orders -> [Positions -> Int]]
  BY <1>1, <1>2, <1>3, Quantities DEF StockTypeOK
<1>5. Over(r) /\ UNCHANGED <<onhand, booked, exists, received, landed, posts, papers, order>>
  BY DEF CommitHold
<1> QED
  BY <1>4, <1>5, OverType DEF StockTypeOK, papers

LEMMA PostDetailType ==
  ASSUME StockTypeOK, NEW diff \in [Positions -> Int], NEW freed \in [Positions -> Int],
         PostDetail(diff, freed)
  PROVE  /\ onhand' \in [Positions -> Int] /\ booked' \in [Positions -> Int]
         /\ promise' \in [Positions -> Int]
BY Quantities DEF PostDetail, StockTypeOK

LEMMA CommitShipmentType ==
  ASSUME StockTypeOK, CallsFit, NEW r \in Requests, CommitShipment(r)
  PROVE  StockTypeOK'
<1> DEFINE s == call[r].of
           used == Consumed(s, lines[r])
           diff == IF s \in Outbound THEN Minus(Zero, lines[r]) ELSE lines[r]
<1>1. s \in Shipments /\ lines[r] \in Bodies /\ lines[r] \in [Positions -> Int]
  BY ReadyFacts, CallFacts DEF CommitShipment
<1>2. used \in [Positions -> Int] /\ diff \in [Positions -> Int]
  BY <1>1, ConsumedFacts, Quantities
<1>3. /\ PostDetail(diff, used)
      /\ hold' = IF ShipsFor[s] = None THEN hold ELSE [hold EXCEPT ![ShipsFor[s]] = Minus(@, used)]
      /\ ship' = [ship EXCEPT ![s].posted = TRUE]
      /\ posts' = [posts EXCEPT ![s] = @ + 1]
      /\ Over(r) /\ UNCHANGED <<exists, received, landed, doc, order>>
  BY DEF CommitShipment
<1> HIDE DEF used, diff, s
<1>4. onhand' \in [Positions -> Int] /\ booked' \in [Positions -> Int] /\ promise' \in [Positions -> Int]
  BY <1>2, <1>3, PostDetailType
<1>5. hold' \in [Orders -> [Positions -> Int]]
  BY <1>1, <1>2, <1>3, Quantities DEF StockTypeOK
<1>6. ship' \in [Shipments -> Parcels]
  BY <1>1, <1>3, RecordTypes DEF StockTypeOK
<1>7. posts' \in [Sources -> Nat]
  BY <1>1, <1>3 DEF StockTypeOK, Sources
<1> QED
  BY <1>3, <1>4, <1>5, <1>6, <1>7, OverType DEF StockTypeOK

LEMMA CommitMoveType ==
  ASSUME StockTypeOK, CallsFit, NEW r \in Requests, CommitDocument(r) \/ CommitReceipt(r) \/ CommitCount(r)
  PROVE  StockTypeOK'
<1>1. Zero \in [Positions -> Int]
  BY Quantities
<1>2. CASE CommitDocument(r)
  <2>1. call[r].of \in Documents /\ lines[r] \in [Positions -> Int]
    BY <1>2, ReadyFacts, CallFacts DEF CommitDocument
  <2>2. onhand' \in [Positions -> Int] /\ booked' \in [Positions -> Int] /\ promise' \in [Positions -> Int]
    BY <1>1, <1>2, <2>1, PostDetailType DEF CommitDocument
  <2>3. doc' \in [Documents -> Papers]
    BY <1>2, <2>1, RecordTypes DEF CommitDocument, StockTypeOK
  <2>4. posts' \in [Sources -> Nat]
    BY <1>2, <2>1 DEF CommitDocument, StockTypeOK, Sources
  <2> QED
    BY <1>2, <2>2, <2>3, <2>4, OverType DEF CommitDocument, StockTypeOK
<1>3. CASE CommitReceipt(r)
  <2>1. call[r] \in Calls /\ lines[r] \in Bodies /\ lines[r] \in [Positions -> Int]
    BY <1>3, ReadyFacts DEF CommitReceipt
  <2>2. onhand' \in [Positions -> Int] /\ booked' \in [Positions -> Int] /\ promise' \in [Positions -> Int]
    BY <1>1, <1>3, <2>1, PostDetailType DEF CommitReceipt
  <2>3. received' \in Bodies /\ landed' \in Bodies /\ exists' \subseteq Positions
    BY <1>3, <2>1, Quantities, CallFacts DEF CommitReceipt, StockTypeOK
  <2> QED
    BY <1>3, <2>2, <2>3, OverType DEF CommitReceipt, StockTypeOK, papers
<1>4. CASE CommitCount(r)
  <2>1. call[r] \in Calls /\ lines[r] \in [Positions -> Int]
    BY <1>4, ReadyFacts DEF CommitCount
  <2>2. Difference(r) \in [Positions -> Int]
    BY <2>1 DEF Difference, StockTypeOK
  <2>3. onhand' \in [Positions -> Int] /\ booked' \in [Positions -> Int] /\ promise' \in [Positions -> Int]
    BY <1>1, <1>4, <2>2, PostDetailType DEF CommitCount
  <2>4. exists' \subseteq Positions
    BY <1>4, <2>1, CallFacts DEF CommitCount, StockTypeOK
  <2> QED
    BY <1>4, <2>3, <2>4, OverType DEF CommitCount, StockTypeOK, papers
<1> QED
  BY <1>2, <1>3, <1>4

LEMMA CommitWriteType ==
  ASSUME StockTypeOK, CallsFit, NEW r \in Requests, CommitEdit(r) \/ CommitAmend(r) \/ CommitToggle(r)
  PROVE  StockTypeOK'
<1>1. call[r] \in Calls /\ lines[r] \in [Positions -> Int]
  BY DEF CommitEdit, CommitAmend, CommitToggle, CallsFit, StockTypeOK
<1>2. CASE CommitEdit(r)
  <2>1. call[r].of \in Shipments /\ lines[r] \in Bodies
    BY <1>1, <1>2, CallFacts DEF CommitEdit, CallsFit
  <2>2. ship' \in [Shipments -> Parcels]
    BY <1>2, <2>1, RecordTypes DEF CommitEdit, StockTypeOK
  <2> QED
    BY <1>2, <2>2, OverType DEF CommitEdit, StockTypeOK, ledger
<1>3. CASE CommitAmend(r)
  <2>1. doc' \in [Documents -> Papers]
    <3>1. /\ doc \in [Documents -> Papers]
          /\ doc' = [doc EXCEPT ![call[r].of].lines = lines[r], ![call[r].of].stamped = FALSE]
      BY <1>3 DEF CommitAmend, StockTypeOK
    <3>2. \A d \in Documents : [doc[d] EXCEPT !.lines = lines[r], !.stamped = FALSE] \in Papers
      BY <1>1, <3>1, RecordTypes
    <3>3. \A d \in Documents :
            doc'[d] = IF d = call[r].of THEN [doc[d] EXCEPT !.lines = lines[r], !.stamped = FALSE] ELSE doc[d]
      BY <3>1
    <3> QED
      BY <3>1, <3>2, <3>3
  <2> QED
    BY <1>3, <2>1, OverType DEF CommitAmend, StockTypeOK, ledger
<1>4. CASE CommitToggle(r)
  <2>1. ship' \in [Shipments -> Parcels]
    <3>1. CASE call[r].kind = "hide"
      <4> DEFINE b == ~ship[call[r].of].live
      <4>1. ship' = [ship EXCEPT ![call[r].of].live = b]
        BY <1>4, <3>1 DEF CommitToggle
      <4>2. b \in BOOLEAN
        OBVIOUS
      <4> HIDE DEF b
      <4> QED
        BY <4>1, <4>2, RecordTypes DEF StockTypeOK
    <3> QED
      BY <1>4, <3>1 DEF CommitToggle, StockTypeOK
  <2>2. doc' \in [Documents -> Papers]
    <3>1. CASE call[r].kind # "hide"
      <4> DEFINE b == ~doc[call[r].of].ready
      <4>1. doc' = [doc EXCEPT ![call[r].of].ready = b]
        BY <1>4, <3>1 DEF CommitToggle
      <4>2. b \in BOOLEAN
        OBVIOUS
      <4> HIDE DEF b
      <4> QED
        BY <4>1, <4>2, RecordTypes DEF StockTypeOK
    <3> QED
      BY <1>4, <3>1 DEF CommitToggle, StockTypeOK
  <2> QED
    BY <1>4, <2>1, <2>2, OverType DEF CommitToggle, StockTypeOK, ledger
<1> QED
  BY <1>2, <1>3, <1>4

-----------------------------------------------------------------------------
(* Control: where requests stand and what they hold                         *)

Control == CallsFit /\ LocksExclude /\ LocksAscend

\* A step of one request leaves the others where they are.
LEMMA OthersStand ==
  ASSUME StockTypeOK, NEW r \in Requests, NEW q \in Requests, q # r,
         Over(r) \/ LockSource(r) \/ Find(r) \/ LockPosition(r) \/ \E c \in Calls : Begin(r, c)
  PROVE  /\ at'[q] = at[q] /\ call'[q] = call[q] /\ lines'[q] = lines[q]
         /\ todo'[q] = todo[q] /\ next'[q] = next[q] /\ locked'[q] = locked[q]
<1> USE DEF StockTypeOK
<1>1. CASE Over(r)
  BY <1>1 DEF Over, Forgotten
<1>2. CASE LockSource(r)
  BY <1>2 DEF LockSource
<1>3. CASE Find(r)
  BY <1>3 DEF Find
<1>4. CASE LockPosition(r)
  BY <1>4 DEF LockPosition
<1>5. CASE \E c \in Calls : Begin(r, c)
  <2>1. PICK c \in Calls : Begin(r, c)
    BY <1>5
  <2>2. \E where, body, set, row : Ask(r, c, where, body, set, row)
    BY <2>1 DEF Begin, BeginReserve, BeginRelease, BeginReleaseAll, BeginMove, BeginPost,
                BeginEdit, BeginAmend, BeginToggle
  <2> QED
    BY <2>2 DEF Ask
<1> QED
  BY <1>1, <1>2, <1>3, <1>4, <1>5

\* So it is enough to look at the request that moves, and at the locks it adds.
LEMMA ControlKept ==
  ASSUME StockTypeOK, Control, NEW r \in Requests,
         \A q \in Requests \ {r} :
           /\ at'[q] = at[q] /\ call'[q] = call[q] /\ lines'[q] = lines[q]
           /\ todo'[q] = todo[q] /\ next'[q] = next[q] /\ locked'[q] = locked[q],
         at'[r] \in {"source", "finding", "locking", "editing"} => call'[r] \in Calls,
         at'[r] = "source" => call'[r].kind \in Posting /\ next'[r] = call'[r].of,
         at'[r] \in {"finding", "locking"} => call'[r].kind \notin Editing,
         at'[r] = "locking" => next'[r] \in todo'[r],
         at'[r] = "editing" => call'[r].kind \in Editing,
         at'[r] \in {"finding", "locking", "editing"} /\ call'[r].kind \notin {"post", "amend"} =>
           lines'[r] \in Bodies,
         at'[r] \notin {"finding", "locking"} => locked'[r] = {},
         \A q \in Requests \ {r} : locked'[r] \cap locked[q] = {},
         at'[r] \in {"finding", "locking"} /\ Ordered(call'[r]) =>
           /\ \A p \in locked'[r] \cap Positions, q \in todo'[r] : p < q
           /\ at'[r] = "locking" => \A q \in todo'[r] : next'[r] <= q
  PROVE  Control'
<1>1. CallsFit'
  BY DEF Control, CallsFit
<1>2. LocksExclude'
  BY DEF Control, LocksExclude
<1>3. LocksAscend'
  BY DEF Control, LocksAscend, Ordered
<1> QED
  BY <1>1, <1>2, <1>3 DEF Control

LEMMA OverControl ==
  ASSUME StockTypeOK, Control, NEW r \in Requests, Over(r)
  PROVE  Control'
<1>1. at'[r] = "done" /\ locked'[r] = {}
  BY DEF Over, StockTypeOK
<1>2. \A q \in Requests \ {r} :
        /\ at'[q] = at[q] /\ call'[q] = call[q] /\ lines'[q] = lines[q]
        /\ todo'[q] = todo[q] /\ next'[q] = next[q] /\ locked'[q] = locked[q]
  BY OthersStand
<1> QED
  BY <1>1, <1>2, ControlKept

LEMMA BeginControl ==
  ASSUME StockTypeOK, Control, NEW r \in Requests, NEW c \in Calls, Begin(r, c)
  PROVE  Control'
<1>1. \A q \in Requests \ {r} :
        /\ at'[q] = at[q] /\ call'[q] = call[q] /\ lines'[q] = lines[q]
        /\ todo'[q] = todo[q] /\ next'[q] = next[q] /\ locked'[q] = locked[q]
  BY OthersStand
<1>2. locked[r] = {} /\ locked'[r] = {} /\ call'[r] = c
  BY DEF Begin, BeginReserve, BeginRelease, BeginReleaseAll, BeginMove, BeginPost, BeginEdit,
         BeginAmend, BeginToggle, Ask, Control, LocksExclude, StockTypeOK
<1>3. CASE BeginReserve(r, c) \/ BeginRelease(r, c) \/ BeginMove(r, c)
  <2>1. at'[r] = "finding" /\ c.kind \notin Editing \cup Posting /\ lines'[r] = c.lines
    BY <1>3 DEF BeginReserve, BeginRelease, BeginMove, Ask, Editing, Posting, StockTypeOK
  <2> QED
    BY <1>1, <1>2, <2>1, ControlKept, CallFacts DEF Posting
<1>4. CASE BeginReleaseAll(r, c)
  <2>1. /\ at'[r] = "finding" /\ c.kind = "releaseAll" /\ c.of \in Orders
        /\ lines'[r] = [p \in Positions |-> IF hold[c.of][p] > 0 THEN hold[c.of][p] ELSE 0]
    BY <1>4, CallFacts DEF BeginReleaseAll, Ask, StockTypeOK
  <2>2. hold[c.of] \in [Positions -> Int]
    BY <2>1 DEF StockTypeOK
  <2>3. lines'[r] \in Bodies
    BY <2>1, <2>2 DEF Bodies
  <2> QED
    BY <1>1, <1>2, <2>1, <2>3, ControlKept DEF Editing
<1>5. CASE BeginPost(r, c)
  <2>1. at'[r] = "source" /\ c.kind \in Posting /\ next'[r] = c.of
    BY <1>5 DEF BeginPost, Ask, Posting, StockTypeOK
  <2> QED
    BY <1>1, <1>2, <2>1, ControlKept
<1>6. CASE BeginEdit(r, c) \/ BeginAmend(r, c) \/ BeginToggle(r, c)
  <2>1. at'[r] = "editing" /\ c.kind \in Editing /\ lines'[r] \in {c.lines, Zero}
    BY <1>6 DEF BeginEdit, BeginAmend, BeginToggle, Ask, Editing, StockTypeOK
  <2> QED
    BY <1>1, <1>2, <2>1, ControlKept, CallFacts, Quantities
<1> QED
  BY <1>3, <1>4, <1>5, <1>6 DEF Begin

LEMMA LockSourceControl ==
  ASSUME StockTypeOK, Control, NEW r \in Requests, LockSource(r)
  PROVE  Control'
<1>1. \A q \in Requests \ {r} :
        /\ at'[q] = at[q] /\ call'[q] = call[q] /\ lines'[q] = lines[q]
        /\ todo'[q] = todo[q] /\ next'[q] = next[q] /\ locked'[q] = locked[q]
  BY OthersStand
<1>2. call[r] \in Calls /\ call[r].kind \in {"ship", "post"} /\ next[r] = call[r].of
  BY DEF LockSource, Control, CallsFit, Posting
<1>3. /\ at'[r] = "finding" /\ call'[r] = call[r] /\ locked'[r] = {call[r].of}
      /\ lines'[r] = SourceLines(call[r])
  BY <1>2 DEF LockSource, StockTypeOK
<1>4. call[r].of \notin Positions /\ (call[r].kind = "ship" => SourceLines(call[r]) \in Bodies)
  BY <1>2, SourceFacts
<1>5. \A q \in Requests : call[r].of \notin locked[q]
  BY <1>2 DEF LockSource, Free
<1> QED
  BY <1>1, <1>2, <1>3, <1>4, <1>5, ControlKept DEF Editing, Posting

LEMMA FindControl ==
  ASSUME StockTypeOK, Control, NEW r \in Requests, Find(r)
  PROVE  Control'
<1>1. \A q \in Requests \ {r} :
        /\ at'[q] = at[q] /\ call'[q] = call[q] /\ lines'[q] = lines[q]
        /\ todo'[q] = todo[q] /\ next'[q] = next[q] /\ locked'[q] = locked[q]
  BY OthersStand
<1>2. PICK p \in NextRows(r) : next' = [next EXCEPT ![r] = p]
  BY DEF Find
<1>3. /\ at[r] = "finding" /\ at'[r] = "locking" /\ call'[r] = call[r] /\ lines'[r] = lines[r]
      /\ todo'[r] = todo[r] /\ locked'[r] = locked[r] /\ next'[r] = p
  BY <1>2 DEF Find, StockTypeOK
<1>4. p \in todo[r] /\ (Ordered(call[r]) => \A q \in todo[r] : p <= q)
  BY DEF NextRows
<1>5. \A q \in Requests \ {r} : locked'[r] \cap locked[q] = {}
  BY <1>3 DEF Control, LocksExclude
<1> QED
  BY <1>1, <1>3, <1>4, <1>5, ControlKept DEF Control, CallsFit, LocksAscend, LocksExclude

LEMMA LockPositionControl ==
  ASSUME StockTypeOK, Control, NEW r \in Requests, LockPosition(r)
  PROVE  Control'
<1>1. \A q \in Requests \ {r} :
        /\ at'[q] = at[q] /\ call'[q] = call[q] /\ lines'[q] = lines[q]
        /\ todo'[q] = todo[q] /\ next'[q] = next[q] /\ locked'[q] = locked[q]
  BY OthersStand
<1>2. /\ at[r] = "locking" /\ at'[r] = "finding" /\ call'[r] = call[r] /\ lines'[r] = lines[r]
      /\ todo'[r] = todo[r] \ {next[r]} /\ locked'[r] = locked[r] \cup {next[r]}
  BY DEF LockPosition, StockTypeOK
<1>3. \A q \in Requests : next[r] \notin locked[q]
  BY DEF LockPosition, Free
<1>4. \A q \in Requests \ {r} : locked'[r] \cap locked[q] = {}
  BY <1>2, <1>3 DEF Control, LocksExclude
<1>5. next[r] \in todo[r] /\ todo[r] \subseteq Nat
  BY <1>2 DEF Control, CallsFit, StockTypeOK
<1>6. Ordered(call[r]) => \A p \in locked'[r] \cap Positions, q \in todo'[r] : p < q
  <2> SUFFICES ASSUME Ordered(call[r]), NEW p \in locked'[r] \cap Positions, NEW q \in todo'[r]
               PROVE  p < q
    OBVIOUS
  <2>1. q \in todo[r] /\ q # next[r] /\ next[r] <= q /\ next[r] \in Nat /\ q \in Nat
    BY <1>2, <1>5 DEF Control, LocksAscend
  <2>2. CASE p = next[r]
    BY <2>1, <2>2
  <2>3. CASE p \in locked[r]
    BY <1>2, <2>1, <2>3 DEF Control, LocksAscend
  <2> QED
    BY <1>2, <2>2, <2>3
<1> QED
  BY <1>1, <1>2, <1>4, <1>6, ControlKept DEF Control, CallsFit

-----------------------------------------------------------------------------
(* Sources, stamps and holds                                                *)

\* What the postings and the holds are about.
Booked == SourceHeld /\ StampsTell /\ HoldsNonNegative /\ PostsOnce

\* A step that moves no goods keeps them, if the request that takes it has not
\* just locked a source.
LEMMA BookedKept ==
  ASSUME StockTypeOK, Booked, NEW r \in Requests,
         UNCHANGED <<posts, hold>>,
         \A s \in Shipments : ship'[s].posted = ship[s].posted,
         \A q \in Requests \ {r} : at'[q] = at[q] /\ call'[q] = call[q] /\ locked'[q] = locked[q],
         at'[r] \in {"finding", "locking"} /\ call'[r].kind \in Posting =>
           call'[r].of \in locked'[r] /\ posts[call'[r].of] = 0
  PROVE  Booked'
<1>1. SourceHeld'
  BY DEF Booked, SourceHeld
<1>2. StampsTell'
  BY DEF Booked, StampsTell
<1>3. HoldsNonNegative' /\ PostsOnce'
  BY DEF Booked, HoldsNonNegative, PostsOnce
<1> QED
  BY <1>1, <1>2, <1>3 DEF Booked

LEMMA BeginBooked ==
  ASSUME StockTypeOK, Booked, NEW r \in Requests, NEW c \in Calls, Begin(r, c)
  PROVE  Booked'
<1>1. \A q \in Requests \ {r} : at'[q] = at[q] /\ call'[q] = call[q] /\ locked'[q] = locked[q]
  BY OthersStand
<1>2. UNCHANGED <<ledger, papers, order>> /\ call'[r] = c
      /\ (at'[r] \in {"finding", "locking"} => c.kind \notin Posting)
  BY DEF Begin, BeginReserve, BeginRelease, BeginReleaseAll, BeginMove, BeginPost, BeginEdit,
         BeginAmend, BeginToggle, Ask, StockTypeOK, Posting
<1> QED
  BY <1>1, <1>2, BookedKept DEF ledger, papers

LEMMA RefuseBooked ==
  ASSUME StockTypeOK, Booked, NEW r \in Requests, Refuse(r)
  PROVE  Booked'
<1>1. \A q \in Requests \ {r} : at'[q] = at[q] /\ call'[q] = call[q] /\ locked'[q] = locked[q]
  BY OthersStand DEF Refuse
<1>2. at'[r] = "done" /\ UNCHANGED <<ledger, papers>>
  BY DEF Refuse, Over, StockTypeOK
<1> QED
  BY <1>1, <1>2, BookedKept DEF ledger, papers

LEMMA LockingBooked ==
  ASSUME StockTypeOK, Control, Booked, NEW r \in Requests,
         LockSource(r) \/ Find(r) \/ LockPosition(r)
  PROVE  Booked'
<1>1. \A q \in Requests \ {r} : at'[q] = at[q] /\ call'[q] = call[q] /\ locked'[q] = locked[q]
  BY OthersStand
<1>2. UNCHANGED <<ledger, papers>> /\ call'[r] = call[r]
  BY DEF LockSource, Find, LockPosition, StockTypeOK
<1>3. CASE LockSource(r)
  <2>1. /\ locked'[r] = {call[r].of} /\ Postable(call[r])
        /\ call[r].kind \in {"ship", "post"} /\ call[r] \in Calls
    BY <1>3 DEF LockSource, StockTypeOK, Control, CallsFit, Posting
  <2>2. call[r].kind = "ship" => call[r].of \in Shipments /\ ~ship[call[r].of].posted
    BY <2>1, CallFacts DEF Postable
  <2>3. posts[call[r].of] = 0
    BY <2>1, <2>2 DEF Postable, Booked, StampsTell
  <2> QED
    BY <1>1, <1>2, <2>1, <2>3, BookedKept DEF ledger, papers
<1>4. CASE Find(r) \/ LockPosition(r)
  <2>1. at[r] \in {"finding", "locking"} /\ locked[r] \subseteq locked'[r]
    BY <1>4 DEF Find, LockPosition, StockTypeOK
  <2> QED
    BY <1>1, <1>2, <2>1, BookedKept DEF ledger, papers, Booked, SourceHeld
<1> QED
  BY <1>3, <1>4

\* A posting is the first of its source, and leaves every other posting's
\* source alone.
LEMMA PostingBooked ==
  ASSUME StockTypeOK, Control, Booked, NEW r \in Requests,
         Ready(r, Posting), Over(r), posts' = [posts EXCEPT ![call[r].of] = @ + 1]
  PROVE  /\ call[r].of \in Sources /\ posts[call[r].of] = 0
         /\ SourceHeld' /\ PostsOnce'
<1>1. /\ call[r] \in Calls /\ call[r].kind \in Posting /\ call[r].of \in Sources
      /\ call[r].of \in locked[r] /\ posts[call[r].of] = 0
  BY ReadyFacts, CallFacts DEF Control, Booked, SourceHeld, Ready, Posting, Sources
<1>2. \A q \in Requests \ {r} : at'[q] = at[q] /\ call'[q] = call[q] /\ locked'[q] = locked[q]
  BY OthersStand
<1>3. SourceHeld'
  <2> SUFFICES ASSUME NEW q \in Requests, at'[q] \in {"finding", "locking"}, call'[q].kind \in Posting
               PROVE  call'[q].of \in locked'[q] /\ posts'[call'[q].of] = 0
    BY DEF SourceHeld
  <2>1. q # r
    BY DEF Over, StockTypeOK
  <2>2. call[q].of \in locked[q] /\ posts[call[q].of] = 0 /\ call[q] \in Calls
    BY <1>2, <2>1 DEF Booked, SourceHeld, Control, CallsFit
  <2>3. call[q].of # call[r].of
    BY <1>1, <2>1, <2>2 DEF Control, LocksExclude
  <2>4. call[q].of \in Sources
    BY <1>2, <2>1, <2>2, CallFacts DEF Posting, Sources
  <2> QED
    BY <1>2, <2>1, <2>2, <2>3, <2>4 DEF StockTypeOK
<1>4. PostsOnce'
  BY <1>1 DEF Booked, PostsOnce, StockTypeOK
<1> QED
  BY <1>1, <1>3, <1>4

LEMMA CommitHoldBooked ==
  ASSUME StockTypeOK, Control, Booked, NEW r \in Requests, CommitHold(r)
  PROVE  Booked'
<1> DEFINE o == call[r].of
           taken == IF call[r].kind = "reserve" THEN lines[r] ELSE Minus(Zero, lines[r])
<1>1. call[r] \in Calls /\ o \in Orders /\ lines[r] \in Bodies /\ lines[r] \in [Positions -> Int]
  BY ReadyFacts, CallFacts DEF CommitHold, Control
<1>2. taken \in [Positions -> Int]
  BY <1>1, Quantities
<1>3. hold' = [hold EXCEPT ![o] = Plus(@, taken)] /\ Over(r) /\ UNCHANGED <<posts, papers>>
  BY DEF CommitHold
<1>4. \A p \in Positions : hold[o][p] \in Int /\ lines[r][p] \in Nat /\ taken[p] \in Int
  BY <1>1, <1>2 DEF StockTypeOK, Bodies
<1>5. \A p \in Positions : hold'[o][p] = hold[o][p] + taken[p]
  <2>1. hold[o] \in [Positions -> Int] /\ hold'[o] = Plus(hold[o], taken)
    BY <1>1, <1>3 DEF StockTypeOK
  <2> HIDE DEF o, taken
  <2>2. \A p \in Positions : Plus(hold[o], taken)[p] = hold[o][p] + taken[p]
    BY DEF Plus
  <2> QED
    BY <2>1, <2>2
<1>6. \A p \in Positions : hold'[o][p] >= 0
  <2> SUFFICES ASSUME NEW p \in Positions PROVE hold[o][p] + taken[p] >= 0
    BY <1>5
  <2>1. hold[o][p] >= 0
    BY <1>1 DEF Booked, HoldsNonNegative
  <2>2. CASE call[r].kind = "reserve"
    BY <1>4, <2>1, <2>2
  <2>3. CASE call[r].kind # "reserve"
    <3>1. taken[p] = 0 - lines[r][p]
      BY <1>1, <2>3, Quantities
    <3>2. lines[r][p] > 0 => lines[r][p] <= hold[o][p]
      BY <2>3 DEF CommitHold, WithinBounds
    <3>3. hold[o][p] \in Int /\ lines[r][p] \in Nat
      BY <1>4
    <3> HIDE DEF o, taken
    <3> QED
      BY <2>1, <3>1, <3>2, <3>3
  <2> QED
    BY <2>2, <2>3
<1> HIDE DEF o, taken
<1>7. HoldsNonNegative'
  BY <1>1, <1>3, <1>6 DEF Booked, HoldsNonNegative, StockTypeOK
<1>8. \A q \in Requests \ {r} : at'[q] = at[q] /\ call'[q] = call[q] /\ locked'[q] = locked[q]
  BY <1>3, OthersStand
<1>9. at'[r] = "done"
  BY <1>3 DEF Over, StockTypeOK
<1>10. SourceHeld'
  BY <1>3, <1>8, <1>9 DEF Booked, SourceHeld
<1>11. StampsTell' /\ PostsOnce'
  BY <1>3 DEF Booked, StampsTell, PostsOnce, papers
<1> QED
  BY <1>7, <1>10, <1>11 DEF Booked

\* What a shipment does to the holds.
LEMMA ShipmentHolds ==
  ASSUME StockTypeOK, Control, Booked, NEW r \in Requests, CommitShipment(r)
  PROVE  LET s == call[r].of
             used == Consumed(s, lines[r])
         IN  /\ s \in Shipments /\ lines[r] \in Bodies /\ used \in [Positions -> Int]
             /\ ShipsFor[s] = None => hold' = hold
             /\ ShipsFor[s] # None =>
                  /\ ShipsFor[s] \in Orders
                  /\ \A o \in Orders \ {ShipsFor[s]} : hold'[o] = hold[o]
                  /\ \A p \in Positions :
                       /\ hold'[ShipsFor[s]][p] = hold[ShipsFor[s]][p] - used[p]
                       /\ hold'[ShipsFor[s]][p] >= 0
<1> DEFINE s == call[r].of
           used == Consumed(s, lines[r])
<1>1. s \in Shipments /\ lines[r] \in Bodies
  BY ReadyFacts, CallFacts DEF CommitShipment, Control
<1>2. used \in [Positions -> Int]
  BY <1>1, ConsumedFacts
<1>3. hold' = IF ShipsFor[s] = None THEN hold ELSE [hold EXCEPT ![ShipsFor[s]] = Minus(@, used)]
  BY DEF CommitShipment
<1>4. ASSUME ShipsFor[s] # None
      PROVE  /\ ShipsFor[s] \in Orders
             /\ \A o \in Orders \ {ShipsFor[s]} : hold'[o] = hold[o]
             /\ \A p \in Positions :
                  /\ hold'[ShipsFor[s]][p] = hold[ShipsFor[s]][p] - used[p]
                  /\ hold'[ShipsFor[s]][p] >= 0
  <2>1. ShipsFor[s] \in Orders
    BY <1>1, <1>4
  <2> HIDE DEF used, s
  <2>2. \A p \in Positions : hold'[ShipsFor[s]][p] = hold[ShipsFor[s]][p] - used[p]
    <3>1. hold[ShipsFor[s]] \in [Positions -> Int] /\ hold'[ShipsFor[s]] = Minus(hold[ShipsFor[s]], used)
      BY <1>3, <1>4, <2>1 DEF StockTypeOK
    <3> QED
      BY <1>2, <3>1, Quantities
  <2>3. ASSUME NEW p \in Positions PROVE hold[ShipsFor[s]][p] - used[p] >= 0
    <3>1. hold[ShipsFor[s]][p] >= 0 /\ hold[ShipsFor[s]][p] \in Int
      BY <2>1 DEF Booked, HoldsNonNegative, StockTypeOK
    <3>2. used[p] \in Int /\ used[p] <= hold[ShipsFor[s]][p]
      <4>1. CASE s \in Outbound
        BY <1>1, <1>2, <1>4, <3>1, <4>1, ConsumedFacts DEF used
      <4>2. CASE s \notin Outbound
        BY <1>1, <3>1, <4>2, ConsumedFacts, Quantities DEF used
      <4> QED
        BY <4>1, <4>2
    <3> QED
      BY <3>1, <3>2
  <2>4. \A o \in Orders \ {ShipsFor[s]} : hold'[o] = hold[o]
    BY <1>3, <1>4, <2>1 DEF StockTypeOK
  <2> QED
    BY <2>1, <2>2, <2>3, <2>4
<1> QED
  BY <1>1, <1>2, <1>3, <1>4

LEMMA CommitShipmentBooked ==
  ASSUME StockTypeOK, Control, Booked, NEW r \in Requests, CommitShipment(r)
  PROVE  Booked'
<1>1. /\ Ready(r, Posting) /\ Over(r) /\ posts' = [posts EXCEPT ![call[r].of] = @ + 1]
      /\ ship' = [ship EXCEPT ![call[r].of].posted = TRUE]
  BY DEF CommitShipment, Ready, Posting
<1>2. call[r].of \in Sources /\ posts[call[r].of] = 0 /\ SourceHeld' /\ PostsOnce'
  BY <1>1, PostingBooked
<1>3. call[r].of \in Shipments
  BY ShipmentHolds
<1>4. HoldsNonNegative'
  BY ShipmentHolds DEF Booked, HoldsNonNegative
<1>5. StampsTell'
  BY <1>1, <1>2, <1>3 DEF Booked, StampsTell, StockTypeOK, Parcels, Sources
<1> QED
  BY <1>2, <1>4, <1>5 DEF Booked

LEMMA CommitDocumentBooked ==
  ASSUME StockTypeOK, Control, Booked, NEW r \in Requests, CommitDocument(r)
  PROVE  Booked'
<1>1. /\ Ready(r, Posting) /\ Over(r) /\ posts' = [posts EXCEPT ![call[r].of] = @ + 1]
      /\ UNCHANGED <<hold, ship>>
  BY DEF CommitDocument, Ready, Posting
<1>2. call[r].of \in Documents
  BY ReadyFacts, CallFacts DEF CommitDocument, Control
<1>3. SourceHeld' /\ PostsOnce'
  BY <1>1, PostingBooked
<1>4. \A s \in Shipments : s # call[r].of /\ posts'[s] = posts[s]
  BY <1>1, <1>2 DEF StockTypeOK, Sources
<1>5. StampsTell'
  BY <1>1, <1>4 DEF Booked, StampsTell
<1>6. HoldsNonNegative'
  BY <1>1 DEF Booked, HoldsNonNegative
<1> QED
  BY <1>3, <1>5, <1>6 DEF Booked

\* The other commits move no hold and no posting; a shipment keeps its stamp.
LEMMA CommitWriteBooked ==
  ASSUME StockTypeOK, Control, Booked, NEW r \in Requests,
         CommitReceipt(r) \/ CommitCount(r) \/ CommitEdit(r) \/ CommitAmend(r) \/ CommitToggle(r)
  PROVE  Booked'
<1>1. Over(r) /\ UNCHANGED <<posts, hold>>
  BY DEF CommitReceipt, CommitCount, CommitEdit, CommitAmend, CommitToggle, ledger
<1>2. \A s \in Shipments : ship'[s].posted = ship[s].posted
  <2>1. CASE CommitReceipt(r) \/ CommitCount(r) \/ CommitAmend(r)
    BY <2>1 DEF CommitReceipt, CommitCount, CommitAmend, papers
  <2>2. CASE CommitEdit(r)
    BY <2>2 DEF CommitEdit, StockTypeOK, Parcels
  <2>3. CASE CommitToggle(r)
    <3> DEFINE b == ~ship[call[r].of].live
    <3>1. ship' = ship \/ ship' = [ship EXCEPT ![call[r].of].live = b]
      BY <2>3 DEF CommitToggle
    <3>2. b \in BOOLEAN
      OBVIOUS
    <3> HIDE DEF b
    <3>3. \A s \in Shipments : ship'[s] = ship[s] \/ ship'[s] = [ship[s] EXCEPT !.live = b]
      BY <3>1 DEF StockTypeOK
    <3>4. \A s \in Shipments : ship[s] \in Parcels
      BY DEF StockTypeOK
    <3> QED
      BY <3>2, <3>3, <3>4, RecordTypes
  <2> QED
    BY <2>1, <2>2, <2>3
<1>3. \A q \in Requests \ {r} : at'[q] = at[q] /\ call'[q] = call[q] /\ locked'[q] = locked[q]
  BY <1>1, OthersStand
<1>4. at'[r] = "done"
  BY <1>1 DEF Over, StockTypeOK
<1> QED
  BY <1>1, <1>2, <1>3, <1>4, BookedKept

-----------------------------------------------------------------------------
(* The invariant is one                                                     *)

LEMMA IInvParts == IInv <=> StockTypeOK /\ Control /\ Booked
BY DEF IInv, Control, Booked

LEMMA InitIInv ==
  ASSUME StockInit, order \in [Orders -> [live : BOOLEAN, status : Statuses]]
  PROVE  IInv
<1> USE DEF StockInit
<1>1. StockTypeOK
  BY Quantities DEF StockTypeOK, Parcels, Papers
<1>2. Control
  BY DEF Control, CallsFit, LocksExclude, LocksAscend
<1>3. Booked
  BY Quantities DEF Booked, SourceHeld, StampsTell, HoldsNonNegative, PostsOnce, Sources
<1> QED
  BY <1>1, <1>2, <1>3, IInvParts

\* Every commit ends its request.
LEMMA CommitIsOver ==
  ASSUME NEW r \in Requests, Commit(r) \/ Refuse(r)
  PROVE  Over(r)
BY DEF Commit, CommitHold, RefuseHold, CommitShipment, CommitDocument, CommitReceipt,
       CommitCount, CommitEdit, CommitAmend, CommitToggle, Refuse

\* The steps of one request, by what they do.
LEMMA ProceedCases ==
  ASSUME NEW r \in Requests, Proceed(r)
  PROVE  \/ Refuse(r)
         \/ LockSource(r) \/ Find(r) \/ LockPosition(r)
         \/ Commit(r) /\ ~Refuse(r)
BY RefusalIsRefuse DEF Proceed, Locking, Refusal

LEMMA ProceedIInv ==
  ASSUME IInv, NEW r \in Requests, Proceed(r)
  PROVE  IInv'
<1>1. StockTypeOK /\ CallsFit /\ Control /\ Booked
  BY IInvParts DEF IInv
<1>2. CASE Refuse(r)
  <2>1. StockTypeOK' /\ Control' /\ Booked'
    BY <1>1, <1>2, RefuseType, CommitIsOver, OverControl, RefuseBooked
  <2> QED
    BY <2>1 DEF IInv, Control, Booked
<1>3. CASE LockSource(r) \/ Find(r) \/ LockPosition(r)
  <2>1. StockTypeOK' /\ Control' /\ Booked'
    BY <1>1, <1>3, LockingType, LockSourceControl, FindControl, LockPositionControl, LockingBooked
  <2> QED
    BY <2>1 DEF IInv, Control, Booked
<1>4. CASE Commit(r) /\ ~Refuse(r)
  <2>1. Control'
    BY <1>1, <1>4, CommitIsOver, OverControl
  <2>2. ~RefuseHold(r)
    BY <1>4 DEF RefuseHold
  <2>3. StockTypeOK'
    BY <1>1, <1>4, <2>2, CommitHoldType, CommitShipmentType, CommitMoveType, CommitWriteType DEF Commit
  <2>4. Booked'
    BY <1>1, <1>4, <2>2, CommitHoldBooked, CommitShipmentBooked, CommitDocumentBooked,
       CommitWriteBooked DEF Commit
  <2> QED
    BY <2>1, <2>3, <2>4 DEF IInv, Control, Booked
<1> QED
  BY <1>2, <1>3, <1>4, ProceedCases

LEMMA NextIInv ==
  ASSUME IInv, [StockNext]_stockVars
  PROVE  IInv'
<1>1. StockTypeOK /\ Control /\ Booked
  BY IInvParts
<1>2. ASSUME NEW r \in Requests, NEW c \in Calls, Begin(r, c)
      PROVE  IInv'
  <2>1. StockTypeOK' /\ Control' /\ Booked'
    BY <1>1, <1>2, BeginType, BeginControl, BeginBooked
  <2> QED
    BY <2>1 DEF IInv, Control, Booked
<1>3. CASE OrdersMove
  <2> USE <1>3 DEF OrdersMove, ledger, papers, control
  <2>1. StockTypeOK'
    BY <1>1 DEF StockTypeOK
  <2>2. Control'
    BY <1>1 DEF Control, CallsFit, LocksExclude, LocksAscend, Ordered
  <2>3. Booked'
    BY <1>1 DEF Booked, SourceHeld, StampsTell, HoldsNonNegative, PostsOnce
  <2> QED
    BY <2>1, <2>2, <2>3 DEF IInv, Control, Booked
<1>4. CASE UNCHANGED stockVars
  <2> USE <1>4 DEF stockVars, ledger, papers, control
  <2>1. StockTypeOK'
    BY <1>1 DEF StockTypeOK
  <2>2. Control'
    BY <1>1 DEF Control, CallsFit, LocksExclude, LocksAscend, Ordered
  <2>3. Booked'
    BY <1>1 DEF Booked, SourceHeld, StampsTell, HoldsNonNegative, PostsOnce
  <2> QED
    BY <2>1, <2>2, <2>3 DEF IInv, Control, Booked
<1> QED
  BY <1>2, <1>3, <1>4, ProceedIInv DEF StockNext

\* Every reachable state of the stock satisfies the invariant the rest follows
\* from.
THEOREM Invariance == StockSpec => []IInv
<1>1. StockInit /\ order \in [Orders -> [live : BOOLEAN, status : Statuses]] => IInv
  BY InitIInv
<1>2. IInv /\ [StockNext]_stockVars => IInv'
  BY NextIInv
<1> QED
  BY <1>1, <1>2, PTL DEF StockSpec

\* Columns, stamps and requests keep their domains (the rows of models.py).
THEOREM TypeCorrect == StockSpec => []StockTypeOK
<1>1. IInv => StockTypeOK
  BY DEF IInv
<1> QED
  BY <1>1, Invariance, PTL

\* No interleaving of releases and shipments gives back more than an order
\* holds (_require_hold_within_bounds, _outstanding_holds).
THEOREM NothingOverReleased == StockSpec => []HoldsNonNegative
<1>1. IInv => HoldsNonNegative
  BY DEF IInv
<1> QED
  BY <1>1, Invariance, PTL

\* No shipment and no stock document moves its goods twice, whatever edits and
\* moves race its posting (post_shipment_stock, post_business_object_stock).
THEOREM NothingPostedTwice == StockSpec => []PostsOnce
<1>1. IInv => PostsOnce
  BY DEF IInv
<1> QED
  BY <1>1, Invariance, PTL

-----------------------------------------------------------------------------
(* Circles of waiting requests                                              *)

\* Of some positions, one has the greatest id.
LEMMA LastPosition ==
  ASSUME NEW N \in SUBSET Positions, N # {}
  PROVE  \E p \in N : \A q \in N : q <= p
<1> DEFINE id == [p \in Positions |-> p]
<1>1. id \in [Positions -> Nat]
  OBVIOUS
<1>2. PICK p \in N : \A q \in N : id[q] <= id[p]
  <2> HIDE DEF id
  <2> QED
    BY <1>1, Greatest
<1> QED
  BY <1>2

\* If all of a knot locked in id order, whoever waits would wait for a request
\* that waits for a greater position, and there would be no greatest.
LEMMA NoOrderedKnot ==
  ASSUME IInv
  PROVE  KnotsNeedUnordered
<1> SUFFICES ASSUME NEW S \in SUBSET Requests, Knot(S), \A r \in S : Ordered(call[r])
             PROVE  FALSE
  BY DEF KnotsNeedUnordered
<1> USE DEF IInv
<1> DEFINE L == {a \in S : at[a] = "locking"}
           N == {next[a] : a \in L}
<1>1. \A a \in S : \E b \in L : next[a] \in locked[b]
  <2> SUFFICES ASSUME NEW a \in S PROVE \E b \in L : next[a] \in locked[b]
    OBVIOUS
  <2>1. PICK b \in S : next[a] \in locked[b]
    BY DEF Knot, WaitsFor
  <2>2. at[b] \in {"source", "locking"}
    BY DEF Knot, WaitsFor
  <2>3. at[b] \in {"finding", "locking"}
    BY <2>1 DEF LocksExclude
  <2> QED
    BY <2>1, <2>2, <2>3
<1>2. N \in SUBSET Positions /\ N # {}
  <2>1. \A a \in L : next[a] \in Positions
    BY DEF CallsFit, StockTypeOK
  <2>2. L # {}
    BY <1>1 DEF Knot
  <2> QED
    BY <2>1, <2>2
<1>3. PICK n \in N : \A q \in N : q <= n
  <2> HIDE DEF N
  <2> QED
    BY <1>2, LastPosition
<1>4. PICK a \in L : n = next[a]
  BY <1>3
<1>5. PICK b \in L : next[a] \in locked[b]
  BY <1>1
<1>6. next[b] \in todo[b] /\ next[b] \in N /\ next[a] \in Positions
  BY <1>2 DEF CallsFit
<1>7. next[a] < next[b]
  BY <1>5, <1>6 DEF LocksAscend
<1>8. next[b] <= next[a]
  BY <1>3, <1>4, <1>6
<1>9. next[a] \in Nat /\ next[b] \in Nat
  <2>1. next[b] \in Positions
    BY <1>2, <1>6
  <2> QED
    BY <1>6, <2>1
<1> QED
  BY <1>7, <1>8, <1>9

\* Reservations, releases and shipments alone never wait in a circle, however
\* many they are (_lock_position, taken in id order).
THEOREM OrderedLocksNeverKnot == StockSpec => []KnotsNeedUnordered
BY NoOrderedKnot, Invariance, PTL

-----------------------------------------------------------------------------
(* The ledger keeps its promise                                             *)

Spent == {s \in Sources : posts[s] > 0}

LEMMA InitPromise ==
  ASSUME StockInit
  PROVE  Promise!Init
BY DEF StockInit, Promise!Init, Zero

\* A step that moves no goods, no hold and no posting is a stutter.
LEMMA Stutters ==
  ASSUME UNCHANGED ledger
  PROVE  UNCHANGED Promise!promised
BY DEF ledger, Promise!promised

LEMMA HoldStep ==
  ASSUME IInv, IInv', NEW r \in Requests, CommitHold(r)
  PROVE  \E o \in Orders : Promise!Reserve(o) \/ Promise!Release(o)
<1> DEFINE o == call[r].of
           taken == IF call[r].kind = "reserve" THEN lines[r] ELSE Minus(Zero, lines[r])
<1>1. call[r] \in Calls /\ o \in Orders /\ lines[r] \in Bodies /\ lines[r] \in [Positions -> Int]
  BY ReadyFacts, CallFacts DEF CommitHold, IInv
<1>2. taken \in [Positions -> Int]
  BY <1>1, Quantities
<1>3. /\ hold' = [hold EXCEPT ![o] = Plus(@, taken)] /\ promise' = Minus(promise, taken)
      /\ UNCHANGED <<onhand, posts>>
  BY DEF CommitHold
<1>4. hold[o] \in [Positions -> Int] /\ hold'[o] = Plus(hold[o], taken) /\ promise \in [Positions -> Int]
  BY <1>1, <1>3 DEF IInv, StockTypeOK
<1>5. \A p \in Positions :
        /\ hold[o][p] \in Int /\ promise[p] \in Int /\ taken[p] \in Int
        /\ Promise!Held(o, p) = taken[p] /\ Promise!Freed(p) = 0 - taken[p]
        /\ promise'[p] = promise[p] - taken[p]
  <2>1. \A p \in Positions : hold'[o][p] = hold[o][p] + taken[p] /\ promise'[p] = promise[p] - taken[p]
    <3> HIDE DEF o, taken
    <3>1. \A p \in Positions : Plus(hold[o], taken)[p] = hold[o][p] + taken[p]
      BY DEF Plus
    <3>2. \A p \in Positions : Minus(promise, taken)[p] = promise[p] - taken[p]
      BY DEF Minus
    <3> QED
      BY <1>3, <1>4, <3>1, <3>2
  <2>2. \A p \in Positions : hold[o][p] \in Int /\ promise[p] \in Int /\ taken[p] \in Int
    BY <1>2, <1>4
  <2> HIDE DEF o, taken
  <2>3. ASSUME NEW p \in Positions
        PROVE  Promise!Held(o, p) = taken[p] /\ Promise!Freed(p) = 0 - taken[p]
    <3>1. /\ hold'[o][p] = hold[o][p] + taken[p] /\ promise'[p] = promise[p] - taken[p]
          /\ hold[o][p] \in Int /\ promise[p] \in Int /\ taken[p] \in Int
      BY <2>1, <2>2
    <3>2. Promise!Held(o, p) = hold'[o][p] - hold[o][p] /\ Promise!Freed(p) = promise'[p] - promise[p]
      BY DEF Promise!Held, Promise!Freed
    <3> QED
      BY <3>1, <3>2
  <2> QED
    BY <2>1, <2>2, <2>3
<1>6. Promise!HoldsOf(o)
  <2>1. \A other \in Orders \ {o} : hold'[other] = hold[other]
    BY <1>1, <1>3 DEF IInv, StockTypeOK
  <2>2. \A p \in Positions : hold'[o][p] >= 0
    BY <1>1 DEF IInv, HoldsNonNegative
  <2> QED
    BY <2>1, <2>2 DEF Promise!HoldsOf
<1>7. UNCHANGED <<onhand, Spent>>
  BY <1>3 DEF Spent
<1>8. \A p \in Positions : lines[r][p] \in Nat
  BY <1>1 DEF Bodies
<1>9. CASE call[r].kind = "reserve"
  <2>1. \A p \in Positions : taken[p] = lines[r][p]
    BY <1>9
  <2>2. \A p \in Positions : lines[r][p] > 0 => promise[p] >= lines[r][p]
    BY <1>9 DEF CommitHold, WithinBounds
  <2> HIDE DEF o, taken
  <2>3. \A p \in Positions :
          /\ Promise!Held(o, p) >= 0 /\ Promise!Freed(p) = - Promise!Held(o, p)
          /\ Promise!Held(o, p) > 0 => promise'[p] >= 0
    BY <1>5, <1>8, <2>1, <2>2
  <2>4. Promise!Reserve(o)
    BY <1>6, <1>7, <2>3 DEF Promise!Reserve, Spent
  <2> QED
    BY <1>1, <2>4 DEF o
<1>10. CASE call[r].kind # "reserve"
  <2>1. \A p \in Positions : taken[p] = 0 - lines[r][p]
    BY <1>1, <1>10, Quantities
  <2> HIDE DEF o, taken
  <2>2. \A p \in Positions : Promise!Held(o, p) <= 0 /\ Promise!Freed(p) = - Promise!Held(o, p)
    BY <1>5, <1>8, <2>1
  <2>3. Promise!Release(o)
    BY <1>6, <1>7, <2>2 DEF Promise!Release, Spent
  <2> QED
    BY <1>1, <2>3 DEF o
<1> QED
  BY <1>9, <1>10

LEMMA SameQuantities ==
  ASSUME NEW f \in [Positions -> Int], NEW g \in [Positions -> Int], \A p \in Positions : f[p] = g[p]
  PROVE  f = g
<1>1. f = [p \in Positions |-> f[p]] /\ g = [p \in Positions |-> g[p]]
  OBVIOUS
<1> QED
  BY <1>1

\* The movement of a posted row, position by position.
LEMMA DetailStep ==
  ASSUME StockTypeOK, NEW diff \in [Positions -> Int], NEW freed \in [Positions -> Int],
         PostDetail(diff, freed)
  PROVE  \A p \in Positions :
           /\ diff[p] \in Int /\ freed[p] \in Int
           /\ Promise!Grown(p) = diff[p] /\ Promise!Freed(p) = diff[p] + freed[p]
<1>1. Plus(diff, freed) \in [Positions -> Int]
  BY Quantities
<1>2. onhand \in [Positions -> Int] /\ promise \in [Positions -> Int]
  BY DEF StockTypeOK
<1>3. /\ \A p \in Positions : onhand'[p] = onhand[p] + diff[p]
      /\ \A p \in Positions : promise'[p] = promise[p] + (diff[p] + freed[p])
  <2>1. \A p \in Positions : onhand'[p] = onhand[p] + diff[p]
    BY <1>2 DEF PostDetail, Plus
  <2>2. \A p \in Positions : promise'[p] = promise[p] + (diff[p] + freed[p])
    BY <1>2 DEF PostDetail, Plus
  <2> QED
    BY <2>1, <2>2
<1>4. \A p \in Positions : diff[p] \in Int /\ freed[p] \in Int /\ onhand[p] \in Int /\ promise[p] \in Int
  BY <1>2
<1> QED
  BY <1>3, <1>4 DEF Promise!Grown, Promise!Freed

\* The first posting of a source spends it.
LEMMA SpendStep ==
  ASSUME IInv, NEW s \in Sources, posts[s] = 0, posts' = [posts EXCEPT ![s] = @ + 1]
  PROVE  s \notin Spent /\ Spent' = Spent \cup {s}
<1>1. posts \in [Sources -> Nat]
  BY DEF IInv, StockTypeOK
<1>2. \A t \in Sources : posts'[t] = IF t = s THEN 1 ELSE posts[t]
  BY <1>1
<1> QED
  BY <1>1, <1>2 DEF Spent

LEMMA ShipmentStep ==
  ASSUME IInv, IInv', NEW r \in Requests, CommitShipment(r)
  PROVE  \/ \E s \in Sources, o \in Orders : Promise!Consume(s, o)
         \/ \E s \in Sources : Promise!Post(s)
<1>1. StockTypeOK /\ Control /\ Booked
  BY IInvParts
<1>2. PICK s \in Sources : s = call[r].of
  BY <1>1, ShipmentHolds DEF Sources
<1> DEFINE used == Consumed(s, lines[r])
           diff == IF s \in Outbound THEN Minus(Zero, lines[r]) ELSE lines[r]
<1>3. /\ PostDetail(diff, used) /\ Ready(r, Posting) /\ Over(r)
      /\ posts' = [posts EXCEPT ![s] = @ + 1]
  BY <1>2 DEF CommitShipment, Ready, Posting
<1>4. /\ s \in Shipments /\ s \in Sources /\ posts[s] = 0 /\ lines[r] \in Bodies
      /\ lines[r] \in [Positions -> Int] /\ used \in [Positions -> Int] /\ diff \in [Positions -> Int]
  BY <1>1, <1>2, <1>3, PostingBooked, ShipmentHolds, Quantities
<1>5. s \notin Spent /\ Spent' = Spent \cup {s}
  BY <1>3, <1>4, SpendStep
<1>6. \A p \in Positions : /\ diff[p] \in Int /\ used[p] \in Int /\ Promise!Grown(p) = diff[p]
                           /\ Promise!Freed(p) = diff[p] + used[p]
  <2> HIDE DEF used, diff
  <2> QED
    BY <1>1, <1>3, <1>4, DetailStep
<1>7. CASE s \in Outbound /\ ShipsFor[s] # None
  <2> DEFINE o == ShipsFor[s]
  <2>1. /\ o \in Orders /\ \A other \in Orders \ {o} : hold'[other] = hold[other]
        /\ \A p \in Positions : hold'[o][p] = hold[o][p] - used[p] /\ hold'[o][p] >= 0
    BY <1>1, <1>7, ShipmentHolds, <1>2
  <2>2. Promise!HoldsOf(o)
    BY <2>1 DEF Promise!HoldsOf
  <2>3. ASSUME NEW p \in Positions
        PROVE  /\ Promise!Grown(p) <= Promise!Held(o, p) /\ Promise!Held(o, p) <= 0
               /\ Promise!Freed(p) = Promise!Grown(p) - Promise!Held(o, p)
               /\ Promise!Grown(p) < Promise!Held(o, p) => hold'[o][p] = 0
    <3>1. hold[o][p] \in Int /\ hold[o][p] >= 0 /\ lines[r][p] \in Nat
      BY <1>1, <1>4, <2>1 DEF StockTypeOK, Booked, HoldsNonNegative, Bodies
    <3>2. diff[p] = 0 - lines[r][p]
      <4>1. diff = Minus(Zero, lines[r])
        BY <1>7
      <4>2. Minus(Zero, lines[r])[p] = Zero[p] - lines[r][p] /\ Zero[p] = 0
        BY <1>4, Quantities
      <4> HIDE DEF diff
      <4> QED
        BY <4>1, <4>2
    <3>3. /\ 0 <= used[p] /\ used[p] <= lines[r][p]
          /\ used[p] < lines[r][p] => used[p] = hold[o][p]
      <4> DEFINE q == lines[r]
      <4>1. StockTypeOK /\ s \in Shipments /\ q \in Bodies /\ s \in Outbound /\ ShipsFor[s] # None
        BY <1>1, <1>4, <1>7
      <4> HIDE DEF q
      <4>2. hold[ShipsFor[s]][p] >= 0 =>
              /\ 0 <= Consumed(s, q)[p] /\ Consumed(s, q)[p] <= q[p]
              /\ Consumed(s, q)[p] < q[p] => Consumed(s, q)[p] = hold[ShipsFor[s]][p]
        BY <4>1, ConsumedFacts
      <4> QED
        BY <3>1, <4>2 DEF q
    <3>4. hold'[o][p] = hold[o][p] - used[p]
      BY <2>1
    <3> HIDE DEF used, diff, o
    <3>5. Promise!Held(o, p) = 0 - used[p]
      BY <1>6, <3>1, <3>4 DEF Promise!Held
    <3> QED
      BY <1>6, <3>1, <3>2, <3>3, <3>4, <3>5
  <2>4. Promise!Consume(s, o)
    BY <1>5, <2>2, <2>3 DEF Promise!Consume, Spent
  <2> HIDE DEF o
  <2> QED
    BY <2>1, <2>4
<1>8. CASE ~(s \in Outbound /\ ShipsFor[s] # None)
  <2>1. \A p \in Positions : used[p] = 0
    BY <1>1, <1>4, <1>8, ConsumedFacts, Quantities
  <2>2. hold' = hold
    <3>1. CASE ShipsFor[s] = None
      BY <1>1, <3>1, ShipmentHolds, <1>2
    <3>2. CASE ShipsFor[s] # None
      <4>1. /\ ShipsFor[s] \in Orders
            /\ \A o \in Orders \ {ShipsFor[s]} : hold'[o] = hold[o]
            /\ \A p \in Positions : hold'[ShipsFor[s]][p] = hold[ShipsFor[s]][p] - used[p]
        BY <1>1, <3>2, ShipmentHolds, <1>2
      <4>2. hold \in [Orders -> [Positions -> Int]] /\ hold' \in [Orders -> [Positions -> Int]]
        BY DEF IInv, StockTypeOK
      <4> HIDE DEF used
      <4>3. \A p \in Positions : hold'[ShipsFor[s]][p] = hold[ShipsFor[s]][p]
        BY <2>1, <4>1, <4>2
      <4>4. hold'[ShipsFor[s]] = hold[ShipsFor[s]]
        <5>1. /\ hold'[ShipsFor[s]] \in [Positions -> Int]
              /\ hold[ShipsFor[s]] \in [Positions -> Int]
          BY <4>1, <4>2
        <5> QED
          BY <4>3, <5>1, SameQuantities
      <4> QED
        BY <4>1, <4>2, <4>4
    <3> QED
      BY <3>1, <3>2
  <2> HIDE DEF used, diff
  <2>3. \A p \in Positions : Promise!Grown(p) = Promise!Freed(p)
    BY <1>6, <2>1
  <2>4. Promise!Post(s)
    BY <1>5, <2>2, <2>3 DEF Promise!Post, Promise!Move, Spent
  <2> QED
    BY <1>4, <2>4
<1> QED
  BY <1>7, <1>8

LEMMA DocumentStep ==
  ASSUME IInv, NEW r \in Requests, CommitDocument(r)
  PROVE  \E s \in Sources : Promise!Post(s)
<1>1. StockTypeOK /\ Control /\ Booked
  BY IInvParts
<1>2. /\ Ready(r, Posting) /\ Over(r) /\ posts' = [posts EXCEPT ![call[r].of] = @ + 1]
      /\ PostDetail(lines[r], Zero) /\ hold' = hold
  BY DEF CommitDocument, Ready, Posting
<1>3. PICK s \in Sources : s = call[r].of /\ posts[s] = 0 /\ lines[r] \in [Positions -> Int]
  BY <1>1, <1>2, PostingBooked, ReadyFacts DEF Control
<1>4. s \notin Spent /\ Spent' = Spent \cup {s}
  BY <1>2, <1>3, SpendStep
<1>5. \A p \in Positions : Promise!Grown(p) = Promise!Freed(p)
  BY <1>1, <1>2, <1>3, DetailStep, Quantities
<1>6. Promise!Post(s)
  BY <1>2, <1>4, <1>5 DEF Promise!Post, Promise!Move, Spent
<1> QED
  BY <1>3, <1>6

LEMMA MoveStep ==
  ASSUME IInv, NEW r \in Requests, CommitReceipt(r) \/ CommitCount(r)
  PROVE  Promise!Move /\ UNCHANGED Spent
<1>1. StockTypeOK /\ Control
  BY IInvParts
<1>2. PICK diff \in [Positions -> Int] : PostDetail(diff, Zero)
  <2>1. CASE CommitReceipt(r)
    BY <1>1, <2>1, ReadyFacts DEF CommitReceipt, Control
  <2>2. CASE CommitCount(r)
    <3>1. lines[r] \in [Positions -> Int]
      BY <1>1, <2>2, ReadyFacts DEF CommitCount, Control
    <3>2. Difference(r) \in [Positions -> Int]
      BY <1>1, <3>1 DEF Difference, StockTypeOK
    <3> QED
      BY <2>2, <3>2 DEF CommitCount
  <2> QED
    BY <2>1, <2>2
<1>3. UNCHANGED <<hold, posts>>
  BY DEF CommitReceipt, CommitCount
<1>4. \A p \in Positions : Promise!Grown(p) = Promise!Freed(p)
  BY <1>1, <1>2, DetailStep, Quantities
<1> QED
  BY <1>3, <1>4 DEF Promise!Move, Spent

LEMMA StepPromise ==
  ASSUME IInv, IInv', [StockNext]_stockVars
  PROVE  [Promise!Next]_Promise!promised
<1>1. ASSUME NEW r \in Requests, NEW c \in Calls, Begin(r, c)
      PROVE  UNCHANGED Promise!promised
  BY <1>1, Stutters DEF Begin, BeginReserve, BeginRelease, BeginReleaseAll, BeginMove, BeginPost,
     BeginEdit, BeginAmend, BeginToggle, Ask
<1>2. ASSUME NEW r \in Requests, Refuse(r) \/ LockSource(r) \/ Find(r) \/ LockPosition(r)
      PROVE  UNCHANGED Promise!promised
  BY <1>2, Stutters DEF Refuse, LockSource, Find, LockPosition
<1>3. ASSUME NEW r \in Requests, Commit(r), ~Refuse(r)
      PROVE  [Promise!Next]_Promise!promised
  <2>1. CASE CommitHold(r)
    BY <2>1, HoldStep DEF Promise!Next
  <2>2. CASE CommitShipment(r)
    BY <2>2, ShipmentStep DEF Promise!Next
  <2>3. CASE CommitDocument(r)
    BY <2>3, DocumentStep DEF Promise!Next
  <2>4. CASE CommitReceipt(r) \/ CommitCount(r)
    BY <2>4, MoveStep DEF Promise!Next, Spent
  <2>5. CASE CommitEdit(r) \/ CommitAmend(r) \/ CommitToggle(r)
    BY <2>5, Stutters DEF CommitEdit, CommitAmend, CommitToggle
  <2> QED
    BY <1>3, <2>1, <2>2, <2>3, <2>4, <2>5 DEF Commit, RefuseHold
<1>4. CASE OrdersMove \/ UNCHANGED stockVars
  BY <1>4, Stutters DEF OrdersMove, stockVars
<1> QED
  BY <1>1, <1>2, <1>3, <1>4, ProceedCases DEF StockNext

\* The requests implement StockPromise: whatever they interleave, each movement
\* of the ledger is one atomic reservation, release, consumption or posting.
THEOREM Refinement == StockSpec => KeepsStockPromise
<1>1. StockInit => Promise!Init
  BY InitPromise
<1>2. IInv /\ IInv' /\ [StockNext]_stockVars => [Promise!Next]_Promise!promised
  BY StepPromise
<1> QED
  BY <1>1, <1>2, Invariance, PTL DEF StockSpec, KeepsStockPromise, Promise!Spec

-----------------------------------------------------------------------------
(* The running sums                                                         *)

HoldsAt(p) == [o \in Orders |-> hold[o][p]]

\* What is promised is what is there less what is held.
Balanced == \A p \in Positions : promise[p] = onhand[p] - SumFunctionOnSet(HoldsAt(p), Orders)

LEMMA HoldsAtType ==
  ASSUME StockTypeOK
  PROVE  \A p \in Positions : HoldsAt(p) \in [Orders -> Int] /\ SumFunctionOnSet(HoldsAt(p), Orders) \in Int
<1>1. ASSUME NEW p \in Positions
      PROVE  HoldsAt(p) \in [Orders -> Int]
  BY DEF HoldsAt, StockTypeOK
<1> QED
  BY <1>1, SumRecursion

\* A hold that grows by some quantity makes the sum of the holds grow by it.
LEMMA HeldSum ==
  ASSUME StockTypeOK, StockTypeOK', NEW o \in Orders, Promise!HoldsOf(o), NEW p \in Positions
  PROVE  SumFunctionOnSet(HoldsAt(p), Orders)' = SumFunctionOnSet(HoldsAt(p), Orders) + Promise!Held(o, p)
<1> DEFINE f == HoldsAt(p)
           g == HoldsAt(p)'
<1>1. f \in [Orders -> Int] /\ g \in [Orders -> Int]
  BY DEF HoldsAt, StockTypeOK
<1>2. \A x \in Orders \ {o} : g[x] = f[x]
  BY DEF HoldsAt, Promise!HoldsOf
<1>3. g[o] - f[o] = Promise!Held(o, p)
  BY DEF HoldsAt, Promise!Held
<1>4. SumFunctionOnSet(HoldsAt(p), Orders)' = SumFunctionOnSet(g, Orders)
  OBVIOUS
<1> HIDE DEF f, g
<1>5. SumFunctionOnSet(g, Orders) = SumFunctionOnSet(f, Orders) + (g[o] - f[o])
  BY <1>1, <1>2, SumChanged
<1> QED
  BY <1>3, <1>4, <1>5 DEF f

LEMMA HoldTypes ==
  ASSUME StockTypeOK, StockTypeOK'
  PROVE  hold \in [Orders -> [Positions -> Int]] /\ hold' \in [Orders -> [Positions -> Int]]
BY DEF StockTypeOK

\* Whatever StockPromise allows keeps the balance.
LEMMA PromiseBalances ==
  ASSUME StockTypeOK, StockTypeOK', Balanced, [Promise!Next]_Promise!promised
  PROVE  Balanced'
<1>1. \A p \in Positions : /\ onhand[p] \in Int /\ onhand'[p] \in Int /\ promise[p] \in Int /\ promise'[p] \in Int
                           /\ SumFunctionOnSet(HoldsAt(p), Orders) \in Int
                           /\ promise[p] = onhand[p] - SumFunctionOnSet(HoldsAt(p), Orders)
  BY HoldsAtType DEF StockTypeOK, Balanced
<1>2. ASSUME NEW o \in Orders, Promise!HoldsOf(o),
             \A p \in Positions : Promise!Freed(p) = Promise!Grown(p) - Promise!Held(o, p)
      PROVE  Balanced'
  <2> SUFFICES ASSUME NEW p \in Positions
               PROVE  promise'[p] = onhand'[p] - SumFunctionOnSet(HoldsAt(p), Orders)'
    BY DEF Balanced
  <2>1. SumFunctionOnSet(HoldsAt(p), Orders)' = SumFunctionOnSet(HoldsAt(p), Orders) + Promise!Held(o, p)
    BY <1>2, HeldSum
  <2>2. Promise!Held(o, p) \in Int
    <3>1. hold \in [Orders -> [Positions -> Int]] /\ hold' \in [Orders -> [Positions -> Int]]
      BY HoldTypes
    <3>2. hold[o][p] \in Int /\ hold'[o][p] \in Int
      BY <3>1
    <3> QED
      BY <3>2 DEF Promise!Held
  <2>3. promise'[p] - promise[p] = (onhand'[p] - onhand[p]) - Promise!Held(o, p)
    BY <1>2 DEF Promise!Freed, Promise!Grown
  <2> QED
    BY <1>1, <2>1, <2>2, <2>3
<1>3. ASSUME UNCHANGED hold, \A p \in Positions : Promise!Grown(p) = Promise!Freed(p)
      PROVE  Balanced'
  <2>1. ASSUME NEW p \in Positions
        PROVE  promise'[p] = onhand'[p] - SumFunctionOnSet(HoldsAt(p), Orders)'
    <3>1. SumFunctionOnSet(HoldsAt(p), Orders)' = SumFunctionOnSet(HoldsAt(p), Orders)
      BY <1>3 DEF HoldsAt
    <3>2. onhand'[p] - onhand[p] = promise'[p] - promise[p]
      BY <1>3 DEF Promise!Freed, Promise!Grown
    <3> QED
      BY <1>1, <3>1, <3>2
  <2> QED
    BY <2>1 DEF Balanced
<1>4. ASSUME NEW o \in Orders, Promise!Reserve(o) \/ Promise!Release(o)
      PROVE  Balanced'
  <2>1. \A p \in Positions : Promise!Grown(p) = 0 /\ Promise!Held(o, p) \in Int
    BY <1>1, <1>4 DEF Promise!Reserve, Promise!Release, Promise!Grown, Promise!Held, StockTypeOK
  <2>2. Promise!HoldsOf(o) /\ \A p \in Positions : Promise!Freed(p) = - Promise!Held(o, p)
    BY <1>4 DEF Promise!Reserve, Promise!Release
  <2> QED
    BY <1>2, <2>1, <2>2
<1>5. ASSUME NEW o \in Orders, NEW s \in Sources, Promise!Consume(s, o)
      PROVE  Balanced'
  BY <1>2, <1>5 DEF Promise!Consume
<1>6. ASSUME Promise!Move
      PROVE  Balanced'
  BY <1>3, <1>6 DEF Promise!Move
<1>7. ASSUME UNCHANGED Promise!promised
      PROVE  Balanced'
  <2>1. UNCHANGED hold /\ \A p \in Positions : Promise!Grown(p) = 0 /\ Promise!Freed(p) = 0
    BY <1>1, <1>7 DEF Promise!promised, Promise!Grown, Promise!Freed
  <2> QED
    BY <1>3, <2>1
<1> QED
  BY <1>4, <1>5, <1>6, <1>7 DEF Promise!Next, Promise!Post

\* The ledger's rows and the running sums are written together.
Recorded == onhand = booked /\ received = landed

LEMMA RecordedKept ==
  ASSUME IInv, Recorded, [StockNext]_stockVars
  PROVE  Recorded'
<1>1. ASSUME NEW r \in Requests, NEW c \in Calls, Begin(r, c)
      PROVE  UNCHANGED <<onhand, booked, received, landed>>
  BY <1>1 DEF Begin, BeginReserve, BeginRelease, BeginReleaseAll, BeginMove, BeginPost,
     BeginEdit, BeginAmend, BeginToggle, Ask, ledger
<1>2. ASSUME NEW r \in Requests, Refuse(r) \/ LockSource(r) \/ Find(r) \/ LockPosition(r)
      PROVE  UNCHANGED <<onhand, booked, received, landed>>
  BY <1>2 DEF Refuse, LockSource, Find, LockPosition, ledger
<1>3. ASSUME NEW r \in Requests, Commit(r), ~Refuse(r)
      PROVE  Recorded'
  <2>1. CASE CommitHold(r)
    BY <2>1 DEF CommitHold, Recorded
  <2>2. CASE CommitShipment(r)
    BY <2>2 DEF CommitShipment, PostDetail, Recorded
  <2>3. CASE CommitDocument(r)
    BY <2>3 DEF CommitDocument, PostDetail, Recorded
  <2>4. CASE CommitReceipt(r)
    BY <2>4 DEF CommitReceipt, PostDetail, Recorded
  <2>5. CASE CommitCount(r)
    BY <2>5 DEF CommitCount, PostDetail, Recorded
  <2>6. CASE CommitEdit(r) \/ CommitAmend(r) \/ CommitToggle(r)
    BY <2>6 DEF CommitEdit, CommitAmend, CommitToggle, Recorded, ledger
  <2> QED
    BY <1>3, <2>1, <2>2, <2>3, <2>4, <2>5, <2>6 DEF Commit, RefuseHold
<1>4. CASE OrdersMove \/ UNCHANGED stockVars
  BY <1>4 DEF OrdersMove, stockVars, ledger, Recorded
<1> QED
  BY <1>1, <1>2, <1>3, <1>4, ProceedCases DEF StockNext, Recorded

LEMMA InitTotals ==
  ASSUME StockInit, StockTypeOK
  PROVE  Recorded /\ Balanced
<1>1. Recorded
  BY DEF StockInit, Recorded
<1>2. ASSUME NEW p \in Positions
      PROVE  promise[p] = onhand[p] - SumFunctionOnSet(HoldsAt(p), Orders)
  <2> DEFINE f == HoldsAt(p)
             none == [o \in Orders |-> 0]
  <2>1. f = none /\ f \in [Orders -> Int]
    BY DEF HoldsAt, StockInit, Zero
  <2>2. SumFunctionOnSet(f, Orders) = 0
    BY <2>1, SumOfNothing
  <2>3. promise[p] = onhand[p] /\ onhand[p] \in Int
    BY DEF StockInit, StockTypeOK
  <2> QED
    BY <2>2, <2>3
<1> QED
  BY <1>1, <1>2 DEF Balanced

LEMMA TotalsParts == TotalsAreTheLedger <=> Recorded /\ Balanced
BY DEF TotalsAreTheLedger, Recorded, Balanced, HoldsAt, SumFunction

\* The running sums are the ledger's, and an item promises what it has less
\* what its orders hold: the sums of quantities over any number of orders.
THEOREM TotalsFollowTheLedger == StockSpec => []TotalsAreTheLedger
<1>1. StockInit /\ StockTypeOK => Recorded /\ Balanced
  BY InitTotals
<1>2. IInv /\ IInv' /\ Recorded /\ Balanced /\ [StockNext]_stockVars => Recorded' /\ Balanced'
  <2> SUFFICES ASSUME IInv, IInv', Recorded, Balanced, [StockNext]_stockVars
               PROVE  Recorded' /\ Balanced'
    OBVIOUS
  <2>1. [Promise!Next]_Promise!promised
    BY StepPromise
  <2>2. StockTypeOK /\ StockTypeOK'
    BY DEF IInv
  <2> QED
    BY <2>1, <2>2, PromiseBalances, RecordedKept
<1>3. IInv => StockTypeOK
  BY DEF IInv
<1>4. TotalsAreTheLedger <=> Recorded /\ Balanced
  BY TotalsParts
<1> QED
  BY <1>1, <1>2, <1>3, <1>4, Invariance, PTL DEF StockSpec

=============================================================================
