------------------------------- MODULE MCOrders -------------------------------
(* An instance of Orders for TLC: three requests against each other, of the   *)
(* stock or the desk, over three positions and two orders.                 *)
EXTENDS Orders, TLC

CONSTANTS o1, o2, o3, o4, s1, d1

VARIABLE crowd  \* which calls meet in this behaviour

MCShipsFor == [s \in Shipments |-> o1]
MCOpening == [p \in Positions |-> CASE p = 1 -> 2 [] p = 2 -> 1 [] p = 3 -> 0]

Of(f) == [p \in Positions |-> IF p \in DOMAIN f THEN f[p] ELSE 0]
Stocking(kind, of, f) == [kind |-> kind, of |-> of, rows |-> DOMAIN f, lines |-> Of(f)]

MCParcel == [s \in Shipments |-> Of(1 :> 2 @@ 2 :> 1)]
MCPaper == [d \in Documents |-> Of(1 :> 1 @@ 2 :> -1)]

MCCalls ==
  {Stocking("reserve", o1, 1 :> 2 @@ 2 :> 1), Stocking("reserve", o2, 1 :> 1),
   Stocking("release", o1, 1 :> 1), Stocking("releaseAll", o1, <<>>),
   Stocking("ship", s1, <<>>), Stocking("edit", s1, 1 :> 1), Stocking("hide", s1, <<>>),
   Stocking("receive", None, 2 :> 1 @@ 3 :> 1), Stocking("count", None, 1 :> 1 @@ 2 :> 2),
   Stocking("create", None, 3 :> 1),
   Stocking("post", d1, <<>>), Stocking("amend", d1, 2 :> 1)}

Desk(kind, of, status, amount, adjust, charged) ==
  [kind |-> kind, of |-> of, status |-> status, amount |-> amount, adjust |-> adjust,
   charged |-> charged]

\* What changes what an order draws, or who may write it.
Moves ==
  {Desk("restate", o1, "draft", 2, 0, FALSE), Desk("save", o1, "draft", 3, -1, FALSE),
   Desk("clear", o1, "draft", 0, 0, FALSE), Desk("status", o1, "confirmed", 0, 0, FALSE),
   Desk("delete", o1, "draft", 0, 0, FALSE), Desk("charge", o2, "draft", 0, 0, TRUE),
   Desk("revise", o2, "draft", 0, 0, FALSE)}

MCDeskCalls ==
  Moves \cup
  {Desk("create", None, "draft", 1, 0, TRUE), Desk("line", o1, "draft", 0, 0, FALSE),
   Desk("restore", o1, "draft", 0, 0, FALSE),
   Desk("bill", o1, "draft", 1, 0, FALSE), Desk("unbill", o1, "draft", 1, 0, FALSE)}

Removal == Desk("unadjust", o1, "draft", 0, 0, FALSE)
Readjustment == Desk("readjust", o1, "draft", 0, -2, FALSE)
Drop == Desk("save", o1, "draft", 1, 0, FALSE)

Adjusting ==
  {Removal, Readjustment, Desk("adjust", o1, "draft", 0, 1, FALSE), Drop,
   Desk("remove", o1, "draft", 1, 0, FALSE)}

MCFiled ==
  [o \in Orders |-> [live |-> o \in {o1, o2},
                     status |-> CASE o = o1 -> "draft" [] o = o2 -> "confirmed" [] OTHER -> "none"]]
MCAgreed ==
  [o \in Orders |-> [charged |-> o = o1, header |-> None, billed |-> 0, added |-> 0,
                     lines |-> CASE o = o1 -> 2 [] o = o2 -> 1 [] OTHER -> 0,
                     adjusted |-> IF o = o1 THEN -1 ELSE 0]]

EveryDeskCall == MCDeskCalls \cup Adjusting

\* Receipts, counts, documents and shipment lines neither read nor write what
\* the desk does, nor the desk what they do: they meet the rest of the stock,
\* and the desk meets the requests that name an order or hide its shipment.
\* Adjustments meet what moves an order.
AboutOrders == {c \in MCCalls : c.kind \in {"reserve", "release", "releaseAll", "hide"}}
Crowds == {<<MCCalls, {}>>, <<AboutOrders, MCDeskCalls>>, <<{}, Adjusting \cup Moves>>}

\* The calls of the run that contradicts a comment.
NoCalls == {}
ChargeAndRemoval == {Removal, Desk("charge", o2, "draft", 0, 0, TRUE)}

MCInit == Init /\ crowd \in Crowds

MCNext ==
  /\ Next
  /\ \A r \in Requests : call'[r] \in crowd[1] \cup {None} /\ ask'[r] \in crowd[2] \cup {None}
  /\ UNCHANGED crowd

MCSpec == MCInit /\ [][MCNext]_<<vars, crowd>> /\ Fairness
=============================================================================
