------------------------------ MODULE CreditProofs ------------------------------
(***************************************************************************)
(* The account's credit line is kept, for every set of requests, orders    *)
(* and calls.  What a request was allowed when its session flushed must    *)
(* still fit when it commits: nobody else judges the account meanwhile,    *)
(* and what is written without a verdict lessens what the account draws,   *)
(* but for an order that is then set apart.                                *)
(***************************************************************************)
EXTENDS OrdersProofs

-----------------------------------------------------------------------------
(* What a commit makes of the orders, and what was judged of it             *)

Draft == [live |-> TRUE, status |-> "draft"]
Files(r) == ask[r].kind \in Filing

\* What the order it files starts from: its own payload, or its source.
NewTerms(r) ==
  IF ask[r].kind = "create"
  THEN [charged |-> ask[r].charged, header |-> ask[r].amount, lines |-> 0,
        adjusted |-> ask[r].adjust, added |-> 0, billed |-> 0]
  ELSE [charged |-> seen[r].terms.charged, header |-> seen[r].terms.header, lines |-> Copied(r).lines,
        adjusted |-> Copied(r).adjusted, added |-> Copied(r).added, billed |-> 0]

RowsWritten(r) ==
  [x \in Orders |-> IF Files(r) /\ x = Name THEN Draft
                    ELSE IF x = ask[r].of THEN RowAfter(ask[r], order[x]) ELSE order[x]]

\* What is written, and what the session believes when it is judged.
TermsOver(r, base) ==
  [x \in Orders |-> IF Files(r) /\ x = Name THEN NewTerms(r)
                    ELSE IF x = ask[r].of THEN TermsAfter(ask[r], seen[r], base) ELSE terms[x]]
TermsWritten(r) == TermsOver(r, terms[ask[r].of])
View(r) == TermsOver(r, IF Files(r) THEN terms[ask[r].of] ELSE Base(r, ask[r].of).terms)

\* The order a flushed request was judged by: as its verdict took it, less what
\* its invoices bill by now.  A new order or invoice changes nothing of it.
HeldOrder(r) ==
  IF ask[r].kind \in {"create", "bill"} THEN order[ask[r].of] ELSE judged[r].order
HeldTerms(r) ==
  IF ask[r].kind \in {"create", "bill"} THEN terms[ask[r].of]
  ELSE [judged[r].terms EXCEPT !.billed = terms[ask[r].of].billed]

\* What every order draws; what it would once the request commits, with the
\* order it names as it is, or as it was judged; and what the order draws that
\* the request files.
Draws == [x \in Orders |-> Occupied(order[x], terms[x])]
DrawsOver(r, row, t) ==
  [x \in Orders |-> IF x = ask[r].of THEN Occupied(RowAfter(ask[r], row), TermsAfter(ask[r], seen[r], t))
                    ELSE Occupied(order[x], terms[x])]
DrawsAfter(r) == DrawsOver(r, order[ask[r].of], terms[ask[r].of])
DrawsJudged(r) == DrawsOver(r, HeldOrder(r), HeldTerms(r))
Fresh(r) == IF Files(r) THEN Occupied(Draft, NewTerms(r)) ELSE 0

Total(f, S) == SumFunctionOnSet(f, S)

-----------------------------------------------------------------------------
(* The invariant                                                            *)

\* One request at a time judges the account, and what has been flushed was
\* judged.
AccountExclusive == \A p, q \in Requests : HoldsAccount(p) /\ HoldsAccount(q) => p = q
FlushedJudged == \A r \in Requests : desk[r] = "flushed" => Judged(r)

\* An id that is nobody's draws nothing, and no request goes on naming it.
IdleNames == \A x \in Orders : order[x].status = "none" => ~terms[x].charged /\ terms[x].billed = 0
NamesInUse ==
  \A r \in Requests : desk[r] \in Active /\ ask[r].kind # "create" => order[ask[r].of].status # "none"

\* Between its flush and its commit, what a request was allowed still fits: the
\* order it names counted as its verdict took it, the others as they are.
Verdict(r) == Total(DrawsJudged(r), Orders \ strained) + Fresh(r) <= Line
Verdicts == \A r \in Requests : desk[r] = "flushed" => Verdict(r)

CreditInv ==
  /\ AccountExclusive /\ FlushedJudged /\ IdleNames /\ NamesInUse
  /\ WithinCreditUnlessRaced /\ Verdicts

-----------------------------------------------------------------------------
(* What an order draws                                                      *)

\* While it lives and is charged an order draws its total, and in any case
\* what its invoices bill: the greater of the two.
Level(row, t) == IF row.live /\ t.charged THEN LiveTotal(t) ELSE 0

LEMMA OccupiedFacts ==
  ASSUME NEW row \in OrderRow, NEW t \in Terms
  PROVE  /\ Level(row, t) \in Int /\ t.billed \in Nat /\ Occupied(row, t) \in Nat
         /\ LiveTotal(t) \in Int
         /\ Occupied(row, t) = IF Level(row, t) > t.billed THEN Level(row, t) ELSE t.billed
<1>1. /\ t.billed \in Nat /\ t.lines \in Nat /\ t.header \in Nat \cup {None}
      /\ t.adjusted \in Int /\ t.added \in Int
  BY DEF Terms
<1>2. LiveTotal(t) \in Int
  BY <1>1 DEF LiveTotal
<1>3. Level(row, t) \in Int
  BY <1>2 DEF Level
<1>4. Occupied(row, t) = IF Level(row, t) > t.billed THEN Level(row, t) ELSE t.billed
  <2>1. CASE row.live /\ t.charged
    BY <1>1, <1>2, <2>1 DEF Occupied, Level
  <2>2. CASE ~(row.live /\ t.charged)
    BY <1>1, <1>2, <2>2 DEF Occupied, Level
  <2> QED
    BY <2>1, <2>2
<1> QED
  BY <1>1, <1>2, <1>3, <1>4

\* What a request that is under way relies on.
LEMMA ActiveFacts ==
  ASSUME DeskInv, NEW r \in Requests, desk[r] \in Active
  PROVE  /\ ask[r] \in DeskCalls /\ ask[r].status \in Statuses /\ ask[r].amount \in Nat
         /\ ask[r].adjust \in Int /\ ask[r].charged \in BOOLEAN
         /\ ask[r].kind \in RowKinds \cup LineKinds \cup AdjustKinds \cup {"bill", "unbill", "create"}
         /\ ask[r].kind = "create" => ask[r].of = None
         /\ ask[r].kind # "create" =>
              /\ ask[r].of \in Orders /\ seen[r] \in Seen
              /\ order[ask[r].of] \in OrderRow /\ terms[ask[r].of] \in Terms
         /\ ask[r].kind = "status" => <<seen[r].order.status, ask[r].status>> \in Transitions
<1>1. Fitting(desk[r], ask[r], seen[r])
  BY DEF DeskInv, AsksFit
<1>2. ask[r] \in DeskCalls
  BY <1>1 DEF Fitting
<1> QED
  BY <1>1, <1>2, DeskCallFacts DEF Fitting, DeskInv, DeskTypeOK

LEMMA AfterTypes ==
  ASSUME DeskInv, NEW r \in Requests, desk[r] \in Active, ask[r].kind # "create",
         NEW row \in OrderRow, NEW t \in Terms
  PROVE  /\ RowAfter(ask[r], row) \in OrderRow
         /\ row.status # "none" => RowAfter(ask[r], row).status # "none"
         /\ TermsAfter(ask[r], seen[r], t) \in Terms
<1>1. /\ ask[r].status \in Statuses /\ ask[r].amount \in Nat /\ ask[r].adjust \in Int
      /\ seen[r] \in Seen
      /\ ask[r].kind = "status" => <<seen[r].order.status, ask[r].status>> \in Transitions
  BY ActiveFacts
<1>2. ask[r].kind = "status" => ask[r].status # "none"
  BY <1>1 DEF Transitions
<1>3. row.status # "none" => RowAfter(ask[r], row).status # "none"
  BY <1>2 DEF RowAfter
<1> QED
  BY <1>1, <1>3, AfterTyped

\* What the request was judged by, and what it copies.
LEMMA HeldTypes ==
  ASSUME DeskInv, NEW r \in Requests, desk[r] = "flushed", ask[r].kind # "create"
  PROVE  /\ HeldOrder(r) \in OrderRow /\ HeldTerms(r) \in Terms
         /\ HeldTerms(r).billed = terms[ask[r].of].billed
<1>1. /\ judged[r] \in Seen /\ order[ask[r].of] \in OrderRow /\ terms[ask[r].of] \in Terms
  BY ActiveFacts DEF DeskInv, VerdictsKept, Active
<1>2. terms[ask[r].of].billed \in Nat
  BY <1>1 DEF Terms
<1> DEFINE b == terms[ask[r].of].billed
<1> HIDE DEF b
<1>3. /\ [judged[r].terms EXCEPT !.billed = b] \in Terms \/ b \notin Nat
      /\ [judged[r].terms EXCEPT !.billed = b].billed = b
  BY <1>1 DEF Seen, Terms
<1> QED
  BY <1>1, <1>2, <1>3 DEF HeldOrder, HeldTerms, Seen, b

LEMMA NewTypes ==
  ASSUME DeskInv, NEW r \in Requests, desk[r] \in Active, Files(r)
  PROVE  Draft \in OrderRow /\ NewTerms(r) \in Terms
<1>1. Draft \in OrderRow
  BY DEF Draft, OrderRow, Statuses
<1>2. CASE ask[r].kind = "create"
  <2>1. ask[r].charged \in BOOLEAN /\ ask[r].amount \in Nat /\ ask[r].adjust \in Int
    BY ActiveFacts
  <2> QED
    BY <1>1, <1>2, <2>1 DEF NewTerms, Terms
<1>3. CASE ask[r].kind # "create"
  <2>1. seen[r] \in Seen /\ terms[ask[r].of] \in Terms
    BY <1>3, ActiveFacts
  <2>2. Copied(r) \in Terms
    BY <2>1 DEF Copied, DeskInv, VerdictsKept, Seen
  <2>3. /\ seen[r].terms.charged \in BOOLEAN /\ seen[r].terms.header \in Nat \cup {None}
        /\ Copied(r).lines \in Nat /\ Copied(r).adjusted \in Int /\ Copied(r).added \in Int
    BY <2>1, <2>2 DEF Seen, Terms
  <2> QED
    BY <1>1, <1>3, <2>3 DEF NewTerms, Terms
<1> QED
  BY <1>2, <1>3

LEMMA DrawsTypes ==
  ASSUME DeskInv
  PROVE  /\ Draws \in [Orders -> Int] /\ \A x \in Orders : Draws[x] >= 0
         /\ \A S : Drawn(order, terms, S) = Total(Draws, S)
<1>1. \A x \in Orders : Draws[x] \in Nat
  BY OccupiedFacts DEF Draws, DeskInv, DeskTypeOK
<1> QED
  BY <1>1 DEF Draws, Drawn, Total

LEMMA OverDraws ==
  ASSUME DeskInv, NEW r \in Requests, desk[r] \in Active, NEW row, NEW t,
         ask[r].kind # "create" => row \in OrderRow /\ t \in Terms
  PROVE  /\ DrawsOver(r, row, t) \in [Orders -> Int]
         /\ \A x \in Orders : DrawsOver(r, row, t)[x] >= 0
<1>1. ASSUME NEW x \in Orders
      PROVE  DrawsOver(r, row, t)[x] \in Nat
  <2>1. order[x] \in OrderRow /\ terms[x] \in Terms
    BY DEF DeskInv, DeskTypeOK
  <2>2. CASE x = ask[r].of
    <3>1. ask[r].kind # "create"
      BY <2>2, ActiveFacts, StockAssumption
    <3>2. RowAfter(ask[r], row) \in OrderRow /\ TermsAfter(ask[r], seen[r], t) \in Terms
      BY <3>1, AfterTypes
    <3> QED
      BY <2>2, <3>2, OccupiedFacts DEF DrawsOver
  <2>3. CASE x # ask[r].of
    BY <2>1, <2>3, OccupiedFacts DEF DrawsOver
  <2> QED
    BY <2>2, <2>3
<1> QED
  BY <1>1 DEF DrawsOver

LEMMA AfterDraws ==
  ASSUME DeskInv, NEW r \in Requests, desk[r] \in Active
  PROVE  /\ DrawsAfter(r) \in [Orders -> Int] /\ \A x \in Orders : DrawsAfter(r)[x] >= 0
         /\ Fresh(r) \in Nat
<1>1. DrawsAfter(r) \in [Orders -> Int] /\ \A x \in Orders : DrawsAfter(r)[x] >= 0
  BY ActiveFacts, OverDraws DEF DrawsAfter
<1>2. Fresh(r) \in Nat
  BY NewTypes, OccupiedFacts DEF Fresh
<1> QED
  BY <1>1, <1>2

LEMMA JudgedDraws ==
  ASSUME DeskInv, NEW r \in Requests, desk[r] = "flushed"
  PROVE  DrawsJudged(r) \in [Orders -> Int] /\ \A x \in Orders : DrawsJudged(r)[x] >= 0
BY HeldTypes, OverDraws DEF DrawsJudged, Active

-----------------------------------------------------------------------------
(* A request that writes                                                    *)

\* It flushes what it was allowed to write ...
NewId == Name \in Orders /\ order[Name].status = "none"
Target(r) == IF ask[r].kind = "create" THEN Name ELSE ask[r].of

Flushes(r) ==
  /\ desk[r] = "writing" /\ Judged(r)
  /\ desk' = [desk EXCEPT ![r] = "flushed"]
  /\ judged' = [judged EXCEPT ![r] = Base(r, Target(r))] /\ UNCHANGED <<ask, seen, books>>
  /\ Files(r) => NewId
  /\ ~(Exposure(RowsWritten(r), View(r)) > Line)

\* ... or commits it.
Closes(r) ==
  /\ desk[r] \in {"writing", "flushed"} /\ (desk[r] = "writing" => ~Judged(r))
  /\ Files(r) => NewId
  /\ Commits(r, Target(r), RowsWritten(r), TermsWritten(r))

Landed(r) == DeskRefuse(r) \/ Flushes(r) \/ Closes(r)

LEMMA Lands ==
  ASSUME NEW r \in Requests, NEW kind, Writing(r, kind),
         Land(r, Target(r), RowsWritten(r), TermsWritten(r), View(r)),
         Files(r) => NewId
  PROVE  Landed(r)
<1> DEFINE rows == RowsWritten(r)
           bills == TermsWritten(r)
           view == View(r)
<1>1. desk[r] \in {"writing", "flushed"}
  BY DEF Writing
<1> HIDE DEF rows, bills, view
<1>2. CASE desk[r] = "writing" /\ Judged(r)
  <2>1. CASE Exposure(rows, view) > Line
    BY <1>2, <2>1 DEF Land, Judge, Landed, rows, view
  <2>2. CASE ~(Exposure(rows, view) > Line)
    <3>1. /\ desk' = [desk EXCEPT ![r] = "flushed"]
          /\ judged' = [judged EXCEPT ![r] = Base(r, Target(r))]
          /\ UNCHANGED <<ask, seen, books>>
      BY <1>2, <2>2 DEF Land, Judge, rows, view
    <3> QED
      BY <1>2, <2>2, <3>1 DEF Flushes, Landed, rows, view
  <2> QED
    BY <2>1, <2>2
<1>3. CASE ~(desk[r] = "writing" /\ Judged(r))
  BY <1>1, <1>3 DEF Land, Closes, Landed, rows, bills
<1> QED
  BY <1>2, <1>3

LEMMA ActiveWriter ==
  ASSUME NEW r \in Requests, NEW kind, Writing(r, kind)
  PROVE  desk[r] \in Active /\ ask[r].kind = kind
BY DEF Writing, Active

\* A request that files nothing writes the order it names, and no other.
LEMMA AmendsLands ==
  ASSUME DeskInv, NEW r \in Requests, Amends(r)
  PROVE  Landed(r)
<1> DEFINE o == ask[r].of
           x == RowAfter(ask[r], order[o])
           t == TermsAfter(ask[r], seen[r], terms[o])
           u == TermsAfter(ask[r], seen[r], Base(r, o).terms)
           rows == [order EXCEPT ![o] = x]
           bills == [terms EXCEPT ![o] = t]
           view == [terms EXCEPT ![o] = u]
<1>1. Writing(r, ask[r].kind) /\ ask[r].kind \notin Filing /\ Land(r, o, rows, bills, view)
  BY DEF Amends
<1>2. ~Files(r) /\ Target(r) = o /\ order \in [Orders -> OrderRow] /\ terms \in [Orders -> Terms]
  BY <1>1 DEF Files, Target, Filing, DeskInv, DeskTypeOK
<1>3. RowsWritten(r) = [y \in Orders |-> IF y = o THEN x ELSE order[y]]
  BY <1>2 DEF RowsWritten
<1>4. TermsWritten(r) = [y \in Orders |-> IF y = o THEN t ELSE terms[y]]
  BY <1>2 DEF TermsWritten, TermsOver
<1>5. View(r) = [y \in Orders |-> IF y = o THEN u ELSE terms[y]]
  BY <1>2 DEF View, TermsOver
<1> HIDE DEF x, t, u
<1>6. rows = RowsWritten(r) /\ bills = TermsWritten(r) /\ view = View(r)
  BY <1>2, <1>3, <1>4, <1>5
<1> HIDE DEF o, rows, bills, view
<1> QED
  BY <1>1, <1>2, <1>6, Lands

LEMMA CreateLands ==
  ASSUME DeskInv, NEW r \in Requests, CommitCreate(r)
  PROVE  Landed(r)
<1> DEFINE o == Name
           x == [live |-> TRUE, status |-> "draft"]
           t == [charged |-> ask[r].charged, header |-> ask[r].amount, lines |-> 0,
                 adjusted |-> ask[r].adjust, added |-> 0, billed |-> 0]
           rows == [order EXCEPT ![o] = x]
           bills == [terms EXCEPT ![o] = t]
<1>1. Writing(r, "create") /\ NewId /\ Land(r, o, rows, bills, bills)
  BY DEF CommitCreate, NewId
<1>2. desk[r] \in Active /\ ask[r].kind = "create"
  BY <1>1, ActiveWriter
<1>3. /\ Files(r) /\ Target(r) = o /\ ask[r].of = None /\ None \notin Orders
      /\ x = Draft /\ t = NewTerms(r)
  BY <1>2, ActiveFacts, StockAssumption DEF Files, Filing, Target, Draft, NewTerms
<1> HIDE DEF x, t
<1>4. RowsWritten(r) = [y \in Orders |-> IF y = o THEN x ELSE order[y]]
  BY <1>3 DEF RowsWritten
<1>5. \A base : TermsOver(r, base) = [y \in Orders |-> IF y = o THEN t ELSE terms[y]]
  BY <1>3 DEF TermsOver
<1> HIDE DEF o
<1>6. rows = RowsWritten(r)
  BY <1>4 DEF DeskInv, DeskTypeOK
<1>7. bills = TermsWritten(r) /\ bills = View(r)
  <2>1. bills = [y \in Orders |-> IF y = o THEN t ELSE terms[y]]
    BY DEF DeskInv, DeskTypeOK
  <2> QED
    BY <1>5, <2>1 DEF TermsWritten, View
<1> HIDE DEF rows, bills
<1> QED
  BY <1>1, <1>3, <1>6, <1>7, Lands DEF o

\* A revision reads its source's lines as they are, so it believes no old ones.
LEMMA ReviseLands ==
  ASSUME DeskInv, NamesInUse, NEW r \in Requests, CommitRevise(r)
  PROVE  Landed(r)
<1> DEFINE o == ask[r].of
           n == Name
           x == [order[o] EXCEPT !.status = "cancelled"]
           t == [terms[o] EXCEPT !.charged = Released(seen[r].terms, @)]
           y == [live |-> TRUE, status |-> "draft"]
           u == [Copied(r) EXCEPT !.charged = seen[r].terms.charged,
                                  !.header = seen[r].terms.header, !.billed = 0]
           rows == [order EXCEPT ![o] = x, ![n] = y]
           bills == [terms EXCEPT ![o] = t, ![n] = u]
<1>1. Writing(r, "revise") /\ NewId /\ Land(r, o, rows, bills, bills)
  BY DEF CommitRevise, NewId
<1>2. desk[r] \in Active /\ ask[r].kind = "revise"
  BY <1>1, ActiveWriter
<1>3. o \in Orders /\ order[o] \in OrderRow /\ terms[o] \in Terms /\ order[o].status # "none"
  BY <1>2, ActiveFacts DEF NamesInUse
<1>4. o # n /\ Files(r) /\ Target(r) = o /\ y = Draft
  BY <1>1, <1>2, <1>3 DEF NewId, Files, Filing, Target, Draft
<1>5. x = RowAfter(ask[r], order[o])
  BY <1>2, <1>3, Rewritten DEF RowAfter
<1>6. t = TermsAfter(ask[r], seen[r], terms[o])
  BY <1>2, <1>3, Rewritten DEF TermsAfter
<1>7. u = NewTerms(r)
  <2>1. seen[r].terms.charged \in BOOLEAN /\ seen[r].terms.header \in Nat \cup {None}
    BY <1>2, ActiveFacts DEF Seen, Terms
  <2>2. Writing(r, "revise")
    BY <1>1
  <2> HIDE DEF x, y, t, n, rows, bills
  <2>3. u = [charged |-> seen[r].terms.charged, header |-> seen[r].terms.header,
             lines |-> Copied(r).lines, adjusted |-> Copied(r).adjusted,
             added |-> Copied(r).added, billed |-> 0]
    BY <2>1, <2>2, CopiedFacts
  <2> QED
    BY <1>2, <2>3 DEF NewTerms
<1> HIDE DEF x, y, t, u, n
<1>8. RowsWritten(r) = [z \in Orders |-> IF z = n THEN y ELSE IF z = o THEN x ELSE order[z]]
  BY <1>4, <1>5 DEF RowsWritten, n
<1>9. /\ TermsWritten(r) = [z \in Orders |-> IF z = n THEN u ELSE IF z = o THEN t ELSE terms[z]]
      /\ View(r) = TermsWritten(r)
  BY <1>4, <1>6, <1>7 DEF TermsWritten, View, TermsOver, n
<1>10. rows = RowsWritten(r)
  BY <1>3, <1>4, <1>8 DEF DeskInv, DeskTypeOK
<1>11. bills = TermsWritten(r)
  BY <1>3, <1>4, <1>9 DEF DeskInv, DeskTypeOK
<1> HIDE DEF rows, bills
<1> QED
  BY <1>1, <1>4, <1>9, <1>10, <1>11, Lands

-----------------------------------------------------------------------------
(* What the account draws once a request has committed                      *)

\* What the orders draw when the terms of the one that is named start from base.
DrawsFrom(r, base) == [x \in Orders |-> Occupied(RowsWritten(r)[x], TermsOver(r, base)[x])]
DrawsWritten(r) == DrawsFrom(r, terms[ask[r].of])

LEMMA OverTypes ==
  ASSUME DeskInv, NEW r \in Requests, desk[r] \in Active, NEW base,
         ask[r].kind # "create" => base \in Terms
  PROVE  /\ RowsWritten(r) \in [Orders -> OrderRow]
         /\ TermsOver(r, base) \in [Orders -> Terms]
<1> SUFFICES ASSUME NEW x \in Orders
             PROVE  RowsWritten(r)[x] \in OrderRow /\ TermsOver(r, base)[x] \in Terms
  BY DEF RowsWritten, TermsOver
<1>1. order[x] \in OrderRow /\ terms[x] \in Terms
  BY DEF DeskInv, DeskTypeOK
<1>2. CASE Files(r) /\ x = Name
  BY <1>2, NewTypes DEF RowsWritten, TermsOver
<1>3. CASE ~(Files(r) /\ x = Name) /\ x = ask[r].of
  <2>1. ask[r].kind # "create"
    BY <1>3, ActiveFacts, StockAssumption
  <2> QED
    BY <1>1, <1>3, <2>1, AfterTypes DEF RowsWritten, TermsOver
<1>4. CASE ~(Files(r) /\ x = Name) /\ x # ask[r].of
  BY <1>1, <1>4 DEF RowsWritten, TermsOver
<1> QED
  BY <1>2, <1>3, <1>4

LEMMA WrittenTypes ==
  ASSUME DeskInv, NEW r \in Requests, desk[r] \in Active
  PROVE  /\ RowsWritten(r) \in [Orders -> OrderRow]
         /\ TermsWritten(r) \in [Orders -> Terms]
BY ActiveFacts, OverTypes DEF TermsWritten

\* The order a request files was nobody's, and drew nothing.
LEMMA NewIdDraws ==
  ASSUME DeskInv, IdleNames, NewId
  PROVE  Name \in Orders /\ Draws[Name] = 0
<1> DEFINE n == Name
<1>1. n \in Orders /\ order[n].status = "none"
  BY DEF NewId
<1> HIDE DEF n
<1>2. order[n] \in OrderRow /\ terms[n] \in Terms /\ ~terms[n].charged /\ terms[n].billed = 0
  BY <1>1 DEF IdleNames, DeskInv, DeskTypeOK
<1>3. Level(order[n], terms[n]) = 0
  BY <1>2 DEF Level
<1>4. Occupied(order[n], terms[n]) = 0
  BY <1>2, <1>3, OccupiedFacts
<1>5. n \in Orders /\ Draws[n] = 0
  BY <1>1, <1>4 DEF Draws
<1> QED
  BY <1>5 DEF n

LEMMA FromDraws ==
  ASSUME DeskInv, IdleNames, NamesInUse, NEW r \in Requests, desk[r] \in Active, Files(r) => NewId,
         NEW base, ask[r].kind # "create" => base \in Terms
  PROVE  LET over == DrawsOver(r, order[ask[r].of], base)
         IN  /\ DrawsFrom(r, base) \in [Orders -> Int] /\ \A x \in Orders : DrawsFrom(r, base)[x] >= 0
             /\ \A x \in Orders : DrawsFrom(r, base)[x] = IF Files(r) /\ x = Name THEN Fresh(r) ELSE over[x]
             /\ Files(r) => Name \in Orders /\ Name # ask[r].of /\ over[Name] = 0
<1> DEFINE over == DrawsOver(r, order[ask[r].of], base)
<1>1. \A x \in Orders : DrawsFrom(r, base)[x] \in Nat
  BY OverTypes, OccupiedFacts DEF DrawsFrom
<1>2. ASSUME NEW x \in Orders
      PROVE  DrawsFrom(r, base)[x] = IF Files(r) /\ x = Name THEN Fresh(r) ELSE over[x]
  BY DEF DrawsFrom, RowsWritten, TermsOver, Fresh, DrawsOver
<1>3. ASSUME Files(r)
      PROVE  Name \in Orders /\ Name # ask[r].of /\ over[Name] = 0
  <2>1. Name \in Orders /\ Draws[Name] = 0 /\ order[Name].status = "none"
    BY <1>3, NewIdDraws DEF NewId
  <2>2. Name # ask[r].of
    BY <2>1, ActiveFacts, StockAssumption DEF NamesInUse
  <2> QED
    BY <2>1, <2>2 DEF DrawsOver, Draws
<1> QED
  BY <1>1, <1>2, <1>3 DEF DrawsFrom

\* A commit adds to the account what it makes of the order it names and what it
\* files.
LEMMA FromTotals ==
  ASSUME DeskInv, IdleNames, NamesInUse, NEW r \in Requests, desk[r] \in Active, Files(r) => NewId,
         NEW base, ask[r].kind # "create" => base \in Terms
  PROVE  LET over == DrawsOver(r, order[ask[r].of], base)
         IN  /\ \A S \in SUBSET Orders : Total(DrawsFrom(r, base), S) <= Total(over, S) + Fresh(r)
             /\ Total(DrawsFrom(r, base), Orders) = Total(over, Orders) + Fresh(r)
<1> DEFINE f == DrawsOver(r, order[ask[r].of], base)
           g == DrawsFrom(r, base)
<1>1. /\ f \in [Orders -> Int] /\ g \in [Orders -> Int] /\ Fresh(r) \in Nat
      /\ \A x \in Orders : g[x] = IF Files(r) /\ x = Name THEN Fresh(r) ELSE f[x]
      /\ Files(r) => Name \in Orders /\ f[Name] = 0
  <2>1. ask[r].kind # "create" => order[ask[r].of] \in OrderRow /\ base \in Terms
    BY ActiveFacts
  <2>2. f \in [Orders -> Int]
    BY <2>1, OverDraws
  <2> QED
    BY <2>2, AfterDraws, FromDraws
<1> HIDE DEF f, g
<1>2. ASSUME NEW S \in SUBSET Orders
      PROVE  Total(g, S) = Total(f, S) + (IF Files(r) /\ Name \in S THEN Fresh(r) ELSE 0)
  <2>1. IsFiniteSet(Orders)
    BY StockAssumption
  <2>2. CASE Files(r) /\ Name \in S
    <3>1. Total(g, S) = Total(f, S) + (g[Name] - f[Name])
      BY <1>1, <2>1, <2>2, SumChanged DEF Total
    <3>2. g[Name] = Fresh(r) /\ f[Name] = 0
      BY <1>1, <2>2
    <3> QED
      BY <1>1, <2>2, <3>1, <3>2
  <2>3. CASE ~(Files(r) /\ Name \in S)
    <3>1. \A x \in S : g[x] = f[x]
      BY <1>1, <2>3
    <3>2. Total(g, S) = Total(f, S)
      BY <1>1, <2>1, <3>1, SumSame DEF Total
    <3>3. Total(f, S) \in Int
      BY <1>1, <2>1, SumRecursion DEF Total
    <3> QED
      BY <2>3, <3>2, <3>3
  <2> QED
    BY <2>2, <2>3
<1>3. \A S \in SUBSET Orders : Total(f, S) \in Int
  BY <1>1, SumRecursion, StockAssumption DEF Total
<1>4. Total(g, Orders) = Total(f, Orders) + Fresh(r)
  <2>1. CASE Files(r)
    BY <1>1, <1>2, <2>1
  <2>2. CASE ~Files(r)
    BY <1>2, <1>3, <2>2 DEF Fresh
  <2> QED
    BY <2>1, <2>2
<1>5. \A S \in SUBSET Orders : Total(g, S) <= Total(f, S) + Fresh(r)
  BY <1>1, <1>2, <1>3
<1> QED
  BY <1>4, <1>5 DEF f, g

LEMMA FromExposure ==
  ASSUME NEW r \in Requests, NEW base
  PROVE  \A S : Drawn(RowsWritten(r), TermsOver(r, base), S) = Total(DrawsFrom(r, base), S)
BY DEF Drawn, Total, DrawsFrom

\* What a commit makes of the orders as they are.
LEMMA WrittenDraws ==
  ASSUME DeskInv, IdleNames, NamesInUse, NEW r \in Requests, desk[r] \in Active, Files(r) => NewId
  PROVE  /\ DrawsWritten(r) \in [Orders -> Int]
         /\ \A x \in Orders :
              DrawsWritten(r)[x] = IF Files(r) /\ x = Name THEN Fresh(r) ELSE DrawsAfter(r)[x]
         /\ \A S \in SUBSET Orders : Total(DrawsWritten(r), S) <= Total(DrawsAfter(r), S) + Fresh(r)
         /\ \A S : Drawn(RowsWritten(r), TermsWritten(r), S) = Total(DrawsWritten(r), S)
<1>1. ask[r].kind # "create" => terms[ask[r].of] \in Terms
  BY ActiveFacts
<1> QED
  BY <1>1, FromDraws, FromTotals, FromExposure DEF DrawsWritten, DrawsAfter, TermsWritten

\* An order draws no more when no more is billed, and when what it totals while
\* it lives and is charged is no more than it was.
LEMMA LessOccupied ==
  ASSUME NEW row \in OrderRow, NEW t \in Terms, NEW x \in OrderRow, NEW u \in Terms,
         u.billed <= t.billed,
         x.live /\ u.charged => row.live /\ t.charged /\ LiveTotal(u) <= LiveTotal(t)
  PROVE  Occupied(x, u) <= Occupied(row, t)
<1>1. /\ Level(row, t) \in Int /\ Level(x, u) \in Int /\ t.billed \in Nat /\ u.billed \in Nat
      /\ Occupied(row, t) = IF Level(row, t) > t.billed THEN Level(row, t) ELSE t.billed
      /\ Occupied(x, u) = IF Level(x, u) > u.billed THEN Level(x, u) ELSE u.billed
  BY OccupiedFacts
<1>2. CASE x.live /\ u.charged
  <2>1. Level(x, u) <= Level(row, t)
    BY <1>2 DEF Level
  <2> QED
    BY <1>1, <2>1
<1>3. CASE ~(x.live /\ u.charged)
  <2>1. Level(x, u) = 0
    BY <1>3 DEF Level
  <2> QED
    BY <1>1, <2>1
<1> QED
  BY <1>2, <1>3

\* The order it names had changed since the verdict, or the read; or a discount
\* is deleted.
Excused(r) == ~Files(r) /\ Misjudged(r, ask[r].of)

\* What an unjudged request believes of a row that has not changed is so.
LEMMA UpToDate ==
  ASSUME NEW r \in Requests, ask[r].kind \notin Filing \cup {"bill", "unbill"},
         desk[r] # "flushed", ~Excused(r)
  PROVE  /\ seen[r].terms.charged = terms[ask[r].of].charged
         /\ ask[r].kind # "unadjust"
BY DEF Excused, Files, Misjudged, OutOfDate, Filing

LEMMA FewerLines ==
  ASSUME NEW t \in Terms, NEW u \in Terms, u.header = t.header, u.lines <= t.lines,
         u.adjusted = t.adjusted, u.added = t.added
  PROVE  LiveTotal(u) <= LiveTotal(t)
BY DEF LiveTotal, Terms

\* A request that is not judged makes the order it names draw no more, unless
\* the row it read has changed or it deletes a discount.
LEMMA UnjudgedLessens ==
  ASSUME DeskInv, NEW r \in Requests, desk[r] \in Active, desk[r] # "flushed",
         ~Judged(r), ~Excused(r)
  PROVE  /\ \A x \in Orders : DrawsAfter(r)[x] <= Draws[x]
         /\ Fresh(r) = 0
<1> DEFINE o == ask[r].of
           c == ask[r]
<1>1. c.kind # "create" => ~NeedsAccount(c, seen[r].terms)
  BY DEF Judged
<1>2. ASSUME Files(r)
      PROVE  Fresh(r) = 0
  <2>1. Draft \in OrderRow /\ NewTerms(r) \in Terms
    BY <1>2, NewTypes
  <2>2. NewTerms(r).billed = 0
    BY DEF NewTerms
  <2>3. ~NewTerms(r).charged
    <3>1. CASE c.kind = "create"
      BY <3>1 DEF Judged, NeedsAccount, NewTerms
    <3>2. CASE c.kind # "create"
      BY <1>1, <1>2, <3>2 DEF Files, Filing, NeedsAccount, NewTerms
    <3> QED
      BY <3>1, <3>2
  <2>4. Level(Draft, NewTerms(r)) = 0
    BY <2>3 DEF Level
  <2> QED
    BY <1>2, <2>1, <2>2, <2>4, OccupiedFacts DEF Fresh
<1>3. ASSUME o \in Orders
      PROVE  Occupied(RowAfter(c, order[o]), TermsAfter(c, seen[r], terms[o])) <= Occupied(order[o], terms[o])
  <2> DEFINE row == order[o]
             t == terms[o]
             x == RowAfter(c, row)
             u == TermsAfter(c, seen[r], t)
  <2>1. c.kind # "create" /\ c.kind \in RowKinds \cup LineKinds \cup AdjustKinds \cup {"bill", "unbill"}
    BY <1>3, ActiveFacts, StockAssumption
  <2>2. row \in OrderRow /\ t \in Terms /\ x \in OrderRow /\ u \in Terms
    BY <2>1, ActiveFacts, AfterTypes
  <2>3. c.kind \notin {"bill", "charge"}
    BY <1>1, <2>1 DEF NeedsAccount
  <2>4. c.kind \notin {"clear", "delete", "unbill", "remove", "unadjust"} => ~seen[r].terms.charged
    BY <1>1, <2>1, <2>3 DEF NeedsAccount, RowKinds, LineKinds, AdjustKinds
  <2>5. c.kind \notin {"revise", "unbill"} => seen[r].terms.charged = t.charged /\ c.kind # "unadjust"
    BY <2>1, <2>3, UpToDate DEF Filing
  <2>6. u.billed <= t.billed
    <3>1. t.billed \in Nat
      BY <2>2 DEF Terms
    <3> QED
      BY <2>3, <3>1 DEF TermsAfter, Billing
  <2>7. x.live /\ u.charged => row.live /\ t.charged /\ LiveTotal(u) <= LiveTotal(t)
    <3>1. CASE c.kind = "clear"
      BY <2>5, <3>1 DEF TermsAfter, Column
    <3>2. CASE c.kind = "delete"
      BY <3>2 DEF RowAfter
    <3>3. CASE c.kind = "unbill"
      <4>1. /\ x.live = row.live /\ u.charged = t.charged /\ u.header = t.header
            /\ u.lines = t.lines /\ u.adjusted = t.adjusted /\ u.added = t.added
        BY <3>3 DEF RowAfter, TermsAfter
      <4>2. LiveTotal(u) = LiveTotal(t) /\ LiveTotal(t) \in Int
        BY <2>2, <4>1, OccupiedFacts DEF LiveTotal
      <4> QED
        BY <4>1, <4>2
    <3>4. CASE c.kind = "revise"
      <4>1. seen[r].terms.charged = FALSE
        BY <2>1, <2>4, <3>4, ActiveFacts DEF Seen, Terms
      <4>2. /\ x.live = row.live /\ u.charged = t.charged /\ u.header = t.header
            /\ u.lines = t.lines /\ u.adjusted = t.adjusted /\ u.added = t.added
        BY <3>4, <4>1 DEF RowAfter, TermsAfter, Released, Column
      <4>3. LiveTotal(u) = LiveTotal(t) /\ LiveTotal(t) \in Int
        BY <2>2, <4>2, OccupiedFacts DEF LiveTotal
      <4> QED
        BY <4>2, <4>3
    <3>5. CASE c.kind = "remove"
      <4>1. /\ x.live = row.live /\ u.charged = t.charged /\ u.header = t.header
            /\ u.adjusted = t.adjusted /\ u.added = t.added
        BY <3>5 DEF RowAfter, TermsAfter
      <4>2. t.lines \in Nat /\ c.amount \in Nat
        BY <2>1, <2>2, ActiveFacts DEF Terms
      <4>3. u.lines = IF t.lines < c.amount THEN t.lines ELSE c.amount
        BY <3>5 DEF TermsAfter
      <4>4. u.lines <= t.lines
        BY <4>2, <4>3
      <4> HIDE DEF row, t, x, u
      <4> QED
        BY <2>2, <4>1, <4>4, FewerLines
    <3>6. CASE c.kind \notin {"clear", "delete", "unbill", "revise", "remove"}
      BY <2>3, <2>4, <2>5, <3>6 DEF TermsAfter
    <3> QED
      BY <3>1, <3>2, <3>3, <3>4, <3>5, <3>6
  <2> HIDE DEF row, t, x, u
  <2>8. Occupied(x, u) <= Occupied(row, t)
    BY <2>2, <2>6, <2>7, LessOccupied
  <2> QED
    BY <2>8 DEF row, t, x, u
<1>4. \A x \in Orders : DrawsAfter(r)[x] <= Draws[x]
  <2> SUFFICES ASSUME NEW x \in Orders PROVE DrawsAfter(r)[x] <= Draws[x]
    OBVIOUS
  <2>1. CASE x = o
    BY <1>3, <2>1 DEF DrawsAfter, DrawsOver, Draws
  <2>2. CASE x # o
    <3>1. DrawsAfter(r)[x] = Draws[x] /\ Draws[x] \in Int
      BY <2>2, DrawsTypes DEF DrawsAfter, DrawsOver, Draws
    <3> QED
      BY <3>1
  <2> QED
    BY <2>1, <2>2
<1> QED
  BY <1>2, <1>4 DEF Fresh

\* An order that grows though it had changed, or by the deletion of a discount,
\* is set apart.
LEMMA ExcusedLessens ==
  ASSUME DeskInv, IdleNames, NamesInUse, NEW r \in Requests, Closes(r), Excused(r)
  PROVE  \A x \in Orders \ strained' : DrawsAfter(r)[x] <= Draws[x]
<1> DEFINE o == ask[r].of
           f == Draws
           g == DrawsAfter(r)
<1>1. desk[r] \in Active /\ ~Files(r) /\ Misjudged(r, o) /\ Target(r) = o /\ o \in Orders
  <2>1. desk[r] \in Active /\ ~Files(r) /\ Misjudged(r, o)
    BY DEF Closes, Excused, Active
  <2> QED
    BY <2>1, ActiveFacts DEF Target, Files, Filing
<1>2. /\ f \in [Orders -> Int] /\ g \in [Orders -> Int]
      /\ \A x \in Orders \ {o} : g[x] = f[x]
  BY <1>1, DrawsTypes, AfterDraws DEF Draws, DrawsAfter, DrawsOver
<1>3. CASE Exposure(RowsWritten(r), TermsWritten(r)) > Exposure(order, terms)
  <2>1. o \in strained'
    BY <1>1, <1>3 DEF Closes, Commits
  <2> QED
    BY <1>2, <2>1
<1>4. CASE ~(Exposure(RowsWritten(r), TermsWritten(r)) > Exposure(order, terms))
  <2>1. Exposure(order, terms) = Total(f, Orders)
    BY DrawsTypes DEF Exposure
  <2>2. Exposure(RowsWritten(r), TermsWritten(r)) = Total(g, Orders)
    <3>1. Exposure(RowsWritten(r), TermsWritten(r)) = Total(DrawsWritten(r), Orders)
      BY <1>1, WrittenDraws DEF Exposure
    <3>2. \A x \in Orders : DrawsWritten(r)[x] = g[x]
      BY <1>1, WrittenDraws
    <3>3. DrawsWritten(r) \in [Orders -> Int] /\ IsFiniteSet(Orders)
      BY <1>1, WrittenDraws, StockAssumption
    <3> HIDE DEF g
    <3>4. Total(DrawsWritten(r), Orders) = Total(g, Orders)
      BY <1>2, <3>2, <3>3, SumSame DEF Total
    <3> QED
      BY <3>1, <3>4
  <2> HIDE DEF f, g, o
  <2>3. IsFiniteSet(Orders)
    BY StockAssumption
  <2>4. Total(g, Orders) = Total(f, Orders) + (g[o] - f[o])
    BY <1>1, <1>2, <2>3, SumChanged DEF Total
  <2>5. Total(f, Orders) \in Int /\ Total(g, Orders) \in Int /\ f[o] \in Int /\ g[o] \in Int
    BY <1>1, <1>2, <2>3, SumRecursion DEF Total
  <2>6. g[o] <= f[o]
    BY <1>4, <2>1, <2>2, <2>4, <2>5
  <2>7. \A x \in Orders : g[x] <= f[x]
    BY <1>2, <2>6
  <2> QED
    BY <2>7 DEF f, g
<1> QED
  BY <1>3, <1>4

-----------------------------------------------------------------------------
(* A commit keeps the account within its line                               *)

LEMMA ClosesFacts ==
  ASSUME DeskInv, NEW r \in Requests, Closes(r)
  PROVE  /\ desk[r] \in Active /\ (Files(r) => NewId)
         /\ order' = RowsWritten(r) /\ terms' = TermsWritten(r) /\ DeskOver(r)
         /\ strained \subseteq strained'
         /\ Draws' = DrawsWritten(r)
<1>1. /\ desk[r] \in Active /\ (Files(r) => NewId)
      /\ order' = RowsWritten(r) /\ terms' = TermsWritten(r) /\ DeskOver(r)
      /\ strained \subseteq strained'
  BY DEF Closes, Commits, Active
<1>2. Draws' = DrawsWritten(r)
  BY <1>1 DEF Draws, DrawsWritten, DrawsFrom, TermsWritten
<1> QED
  BY <1>1, <1>2

\* A source that was charged is not when its revision commits: it draws what its
\* invoices bill.
LEMMA RevisedDraws ==
  ASSUME DeskInv, NEW r \in Requests, desk[r] \in Active, Judged(r), ask[r].kind = "revise",
         NEW row \in OrderRow, NEW t \in Terms
  PROVE  Occupied(RowAfter(ask[r], row), TermsAfter(ask[r], seen[r], t)) = t.billed
<1> DEFINE x == RowAfter(ask[r], row)
           u == TermsAfter(ask[r], seen[r], t)
<1>1. seen[r].terms.charged = TRUE
  BY ActiveFacts DEF Judged, NeedsAccount, Seen, Terms
<1>2. u.charged = FALSE /\ u.billed = t.billed
  BY <1>1 DEF TermsAfter, Released, Column
<1>3. x \in OrderRow /\ u \in Terms /\ t.billed \in Nat
  BY AfterTypes DEF Terms
<1> HIDE DEF x, u
<1>4. Level(x, u) = 0
  BY <1>2 DEF Level
<1>5. Occupied(x, u) = t.billed
  BY <1>2, <1>3, <1>4, OccupiedFacts
<1> QED
  BY <1>5 DEF x, u

\* What has not changed since the verdict is written as it was judged.
LEMMA AsJudged ==
  ASSUME DeskInv, NEW r \in Requests, desk[r] = "flushed", Judged(r), ~Excused(r)
  PROVE  DrawsAfter(r) = DrawsJudged(r)
<1> DEFINE o == ask[r].of
           After(row, t) == Occupied(RowAfter(ask[r], row), TermsAfter(ask[r], seen[r], t))
<1>1. desk[r] \in Active
  BY DEF Active
<1>2. ASSUME o \in Orders
      PROVE  After(order[o], terms[o]) = After(HeldOrder(r), HeldTerms(r))
  <2>1. ask[r].kind # "create"
    BY <1>1, <1>2, ActiveFacts, StockAssumption
  <2>2. /\ order[o] \in OrderRow /\ terms[o] \in Terms /\ judged[r] \in Seen
        /\ HeldOrder(r) \in OrderRow /\ HeldTerms(r) \in Terms /\ HeldTerms(r).billed = terms[o].billed
    BY <1>1, <2>1, ActiveFacts, HeldTypes DEF DeskInv, VerdictsKept
  <2>3. CASE ask[r].kind = "bill"
    BY <2>3 DEF HeldOrder, HeldTerms
  <2>4. CASE ask[r].kind = "revise"
    BY <1>1, <2>2, <2>4, RevisedDraws
  <2>5. CASE ask[r].kind \notin {"bill", "revise"}
    <3>1. /\ judged[r].order.live = order[o].live
          /\ [judged[r].terms EXCEPT !.billed = 0] = [terms[o] EXCEPT !.billed = 0]
      BY <2>1, <2>5 DEF Excused, Files, Filing, Misjudged
    <3>2. HeldOrder(r).live = order[o].live
      BY <2>1, <2>5, <3>1 DEF HeldOrder
    <3>3. HeldTerms(r) = terms[o]
      <4> DEFINE u == judged[r].terms
                 t == terms[o]
      <4>1. u \in Terms /\ t \in Terms /\ [u EXCEPT !.billed = 0] = [t EXCEPT !.billed = 0]
        BY <2>2, <3>1 DEF Seen
      <4>2. HeldTerms(r) = [u EXCEPT !.billed = t.billed]
        BY <2>1, <2>5 DEF HeldTerms
      <4> HIDE DEF u, t
      <4>3. /\ u.charged = t.charged /\ u.header = t.header /\ u.lines = t.lines
            /\ u.adjusted = t.adjusted /\ u.added = t.added
        BY <4>1, Rewritten
      <4>4. [u EXCEPT !.billed = t.billed] = t
        BY <4>1, <4>3, Rewritten
      <4> QED
        BY <4>2, <4>4 DEF t
    <3>4. RowAfter(ask[r], order[o]).live = RowAfter(ask[r], HeldOrder(r)).live
      BY <3>2 DEF RowAfter
    <3> QED
      BY <3>3, <3>4 DEF Occupied
  <2> QED
    BY <2>3, <2>4, <2>5
<1>3. \A x \in Orders : DrawsAfter(r)[x] = DrawsJudged(r)[x]
  BY <1>2 DEF DrawsAfter, DrawsJudged, DrawsOver
<1> HIDE DEF After
<1> QED
  BY <1>3 DEF DrawsAfter, DrawsJudged, DrawsOver

\* A request commits what it was judged by, or draws no more than before, but for
\* an order set apart.
LEMMA ClosesDraws ==
  ASSUME DeskInv, CreditInv, NEW r \in Requests, Closes(r)
  PROVE  \/ desk[r] = "flushed" /\ Judged(r) /\ DrawsAfter(r) = DrawsJudged(r)
         \/ /\ \A x \in Orders \ strained' : DrawsAfter(r)[x] <= Draws[x]
            /\ Fresh(r) = 0
<1>1. desk[r] \in Active /\ IdleNames /\ NamesInUse
  BY ClosesFacts DEF CreditInv
<1>2. CASE Excused(r)
  <2>1. Fresh(r) = 0
    BY <1>2 DEF Excused, Fresh
  <2> QED
    BY <1>1, <1>2, <2>1, ExcusedLessens
<1>3. CASE ~Excused(r) /\ desk[r] = "flushed"
  <2>1. Judged(r)
    BY <1>3 DEF CreditInv, FlushedJudged
  <2> QED
    BY <1>3, <2>1, AsJudged
<1>4. CASE ~Excused(r) /\ desk[r] # "flushed"
  <2>1. ~Judged(r)
    BY <1>4 DEF Closes
  <2> QED
    BY <1>1, <1>4, <2>1, UnjudgedLessens
<1> QED
  BY <1>2, <1>3, <1>4

LEMMA ClosesWithin ==
  ASSUME DeskInv, CreditInv, NEW r \in Requests, Closes(r)
  PROVE  WithinCreditUnlessRaced'
<1> DEFINE S == Orders \ strained
           T == Orders \ strained'
           f == Draws
           g == DrawsAfter(r)
           d == Drawn(order', terms', T)
           judgedSo == desk[r] = "flushed" /\ Judged(r) /\ g = DrawsJudged(r)
<1>1. /\ IdleNames /\ NamesInUse /\ IsFiniteSet(Orders) /\ Line \in Int
      /\ T \in SUBSET S /\ S \in SUBSET Orders /\ T \in SUBSET Orders
  <2>1. IdleNames /\ NamesInUse /\ IsFiniteSet(Orders) /\ Line \in Int
    BY StockAssumption, OrdersAssumption DEF CreditInv
  <2>2. strained \subseteq strained'
    BY ClosesFacts
  <2> QED
    BY <2>1, <2>2
<1>2. d <= Total(g, T) + Fresh(r) /\ d \in Int
  <2>1. /\ DrawsWritten(r) \in [Orders -> Int]
        /\ Total(DrawsWritten(r), T) <= Total(g, T) + Fresh(r)
        /\ d = Total(DrawsWritten(r), T)
    BY <1>1, ClosesFacts, WrittenDraws
  <2>2. Total(DrawsWritten(r), T) \in Int
    BY <1>1, <2>1, SumRecursion DEF Total
  <2> QED
    BY <2>1, <2>2
<1>3. /\ f \in [Orders -> Int] /\ \A x \in Orders : f[x] >= 0
      /\ g \in [Orders -> Int] /\ Fresh(r) \in Nat /\ \A x \in Orders : g[x] >= 0
  BY ClosesFacts, DrawsTypes, AfterDraws
<1>4. Total(f, S) <= Line
  BY DrawsTypes DEF CreditInv, WithinCreditUnlessRaced
<1>5. judgedSo => Total(g, S) + Fresh(r) <= Line
  BY DEF CreditInv, Verdicts, Verdict
<1>6. judgedSo \/ (Fresh(r) = 0 /\ \A x \in T : g[x] <= f[x])
  BY ClosesDraws
<1> HIDE DEF f, g, S, judgedSo
<1>7. /\ Total(g, T) \in Int /\ Total(g, S) \in Int /\ Total(f, T) \in Int /\ Total(f, S) \in Int
      /\ Total(g, T) <= Total(g, S) /\ Total(f, T) <= Total(f, S)
  <2> HIDE DEF T
  <2>1. Total(g, T) <= Total(g, S) /\ Total(f, T) <= Total(f, S)
    BY <1>1, <1>3, SumOfFewer DEF Total
  <2> QED
    BY <1>1, <1>3, <2>1, SumRecursion DEF Total
<1>8. Total(g, T) + Fresh(r) <= Line
  <2> HIDE DEF T
  <2>1. CASE judgedSo
    BY <1>1, <1>3, <1>5, <1>7, <2>1
  <2>2. CASE Fresh(r) = 0 /\ \A x \in T : g[x] <= f[x]
    <3>1. Total(g, T) <= Total(f, T)
      BY <1>1, <1>3, <2>2, SumOrdered DEF Total
    <3> QED
      BY <1>1, <1>4, <1>7, <2>2, <3>1
  <2> QED
    BY <1>6, <2>1, <2>2
<1>9. d <= Line
  <2> HIDE DEF d, T
  <2> QED
    BY <1>1, <1>2, <1>3, <1>7, <1>8
<1> QED
  BY <1>9 DEF WithinCreditUnlessRaced

-----------------------------------------------------------------------------
(* A commit takes from nobody what it was allowed                           *)

\* Another invoice of an order that draws no more and is billed no more.
LEMMA BilledOnTop ==
  ASSUME NEW c, c.kind = "bill", c.amount \in Nat, NEW s,
         NEW row \in OrderRow, NEW t \in Terms, NEW x \in OrderRow, NEW u \in Terms,
         u.billed <= t.billed, Occupied(x, u) <= Occupied(row, t)
  PROVE  Occupied(RowAfter(c, x), TermsAfter(c, s, u)) <= Occupied(RowAfter(c, row), TermsAfter(c, s, t))
<1> DEFINE After(y, v) == Occupied(RowAfter(c, y), TermsAfter(c, s, v))
<1>1. ASSUME NEW y \in OrderRow, NEW v \in Terms
      PROVE  After(y, v) = IF Level(y, v) > v.billed + c.amount THEN Level(y, v) ELSE v.billed + c.amount
  <2>1. v.billed \in Nat /\ v.billed + c.amount \in Nat
    BY DEF Terms
  <2>2. RowAfter(c, y) = y
    BY Rewritten DEF RowAfter
  <2>3. TermsAfter(c, s, v) = [v EXCEPT !.billed = v.billed + c.amount]
    BY Rewritten DEF TermsAfter, Billing
  <2> DEFINE w == [v EXCEPT !.billed = v.billed + c.amount]
  <2>4. /\ w \in Terms /\ w.billed = v.billed + c.amount
        /\ w.charged = v.charged /\ w.header = v.header /\ w.lines = v.lines
        /\ w.adjusted = v.adjusted /\ w.added = v.added
    BY <2>1 DEF Terms
  <2> HIDE DEF w
  <2>5. Level(y, w) = Level(y, v)
    BY <2>4 DEF Level, LiveTotal
  <2>6. Occupied(y, w) = IF Level(y, w) > w.billed THEN Level(y, w) ELSE w.billed
    BY <2>4, OccupiedFacts
  <2> QED
    BY <2>2, <2>3, <2>4, <2>5, <2>6 DEF w
<1>2. /\ Level(row, t) \in Int /\ Level(x, u) \in Int /\ t.billed \in Nat /\ u.billed \in Nat
      /\ Occupied(row, t) = IF Level(row, t) > t.billed THEN Level(row, t) ELSE t.billed
      /\ Occupied(x, u) = IF Level(x, u) > u.billed THEN Level(x, u) ELSE u.billed
  BY OccupiedFacts
<1>3. /\ After(x, u) = IF Level(x, u) > u.billed + c.amount THEN Level(x, u) ELSE u.billed + c.amount
      /\ After(row, t) = IF Level(row, t) > t.billed + c.amount THEN Level(row, t) ELSE t.billed + c.amount
  BY <1>1
<1> HIDE DEF After
<1>4. After(x, u) <= After(row, t)
  BY <1>2, <1>3
<1> QED
  BY <1>4 DEF After

\* The same change of the same row, less what is billed.
LEMMA SameRewrite ==
  ASSUME DeskInv, NEW p \in Requests, desk[p] \in Active,
         ask[p].kind \notin {"create", "bill", "unbill"},
         NEW row \in OrderRow, NEW t \in Terms, NEW u \in Terms, u.billed <= t.billed,
         u.charged = t.charged, u.header = t.header, u.lines = t.lines,
         u.adjusted = t.adjusted, u.added = t.added
  PROVE  Occupied(RowAfter(ask[p], row), TermsAfter(ask[p], seen[p], u))
           <= Occupied(RowAfter(ask[p], row), TermsAfter(ask[p], seen[p], t))
<1> DEFINE x == RowAfter(ask[p], row)
           v == TermsAfter(ask[p], seen[p], u)
           w == TermsAfter(ask[p], seen[p], t)
<1>1. x \in OrderRow /\ v \in Terms /\ w \in Terms
  BY AfterTypes
<1>2. /\ v.charged = w.charged /\ v.header = w.header /\ v.lines = w.lines
      /\ v.adjusted = w.adjusted /\ v.added = w.added
  BY DEF TermsAfter
<1>3. v.billed = u.billed /\ w.billed = t.billed
  BY DEF TermsAfter
<1>4. LiveTotal(v) = LiveTotal(w)
  BY <1>2 DEF LiveTotal
<1> HIDE DEF x, v, w
<1>5. LiveTotal(w) \in Int
  BY <1>1, OccupiedFacts
<1>6. Occupied(x, v) <= Occupied(x, w)
  BY <1>1, <1>2, <1>3, <1>4, <1>5, LessOccupied
<1> QED
  BY <1>6 DEF x, v, w

\* While one request waits for its commit nobody else is judged, so no order is
\* billed more, and each draws no more but for one that is set apart.
LEMMA OthersLessen ==
  ASSUME DeskInv, CreditInv, NEW r \in Requests, Closes(r),
         NEW p \in Requests \ {r}, desk[p] = "flushed"
  PROVE  /\ \A x \in Orders \ strained' : Occupied(order'[x], terms'[x]) <= Occupied(order[x], terms[x])
         /\ \A x \in Orders : order[x].status # "none" => terms'[x].billed <= terms[x].billed
<1>1. desk[p] \in Active
  BY DEF Active
<1>2. /\ IdleNames /\ NamesInUse /\ desk[r] \in Active /\ (Files(r) => NewId)
      /\ order' = RowsWritten(r) /\ terms' = TermsWritten(r)
  BY ClosesFacts DEF CreditInv
<1>3. ~Judged(r)
  BY <1>1 DEF HoldsAccount, CreditInv, AccountExclusive, FlushedJudged, Closes
<1>4. ASSUME NEW x \in Orders \ strained'
      PROVE  Occupied(order'[x], terms'[x]) <= Occupied(order[x], terms[x])
  <2>1. DrawsAfter(r)[x] <= Draws[x] /\ Fresh(r) = 0 /\ Draws[x] >= 0 /\ Draws[x] \in Int
    BY <1>3, ClosesDraws, DrawsTypes
  <2>2. DrawsWritten(r)[x] = IF Files(r) /\ x = Name THEN Fresh(r) ELSE DrawsAfter(r)[x]
    BY <1>2, WrittenDraws
  <2>3. DrawsWritten(r)[x] <= Draws[x]
    BY <2>1, <2>2
  <2> QED
    BY <1>2, <2>3 DEF DrawsWritten, DrawsFrom, TermsWritten, Draws
<1>5. ASSUME NEW x \in Orders, order[x].status # "none"
      PROVE  terms'[x].billed <= terms[x].billed
  <2>1. terms[x].billed \in Nat
    BY DEF DeskInv, DeskTypeOK, Terms
  <2>2. ~(Files(r) /\ x = Name)
    BY <1>2, <1>5 DEF NewId
  <2>3. terms'[x] = IF x = ask[r].of THEN TermsAfter(ask[r], seen[r], terms[x]) ELSE terms[x]
    BY <1>2, <2>2 DEF TermsWritten, TermsOver
  <2>4. ask[r].kind # "bill"
    BY <1>3 DEF Judged, NeedsAccount
  <2>5. TermsAfter(ask[r], seen[r], terms[x]).billed \in {0, terms[x].billed}
    BY <2>4 DEF TermsAfter, Billing
  <2> QED
    BY <2>1, <2>3, <2>5
<1> QED
  BY <1>4, <1>5

\* What a request was judged by still is what it was judged by.
LEMMA OthersHeld ==
  ASSUME DeskInv, NEW r \in Requests, Closes(r), NEW p \in Requests \ {r}, desk[p] = "flushed"
  PROVE  /\ ask'[p] = ask[p] /\ seen'[p] = seen[p] /\ judged'[p] = judged[p] /\ desk'[p] = "flushed"
         /\ Files(p)' <=> Files(p)
         /\ Fresh(p)' = Fresh(p)
<1>1. ask'[p] = ask[p] /\ seen'[p] = seen[p] /\ judged'[p] = judged[p] /\ desk'[p] = "flushed"
  BY ClosesFacts DEF DeskOver, DeskInv, DeskTypeOK
<1>2. Files(p)' <=> Files(p)
  BY <1>1 DEF Files
<1>3. NewTerms(p)' = NewTerms(p)
  <2>1. Copied(p)' = Copied(p)
    BY <1>1 DEF Copied
  <2> QED
    BY <1>1, <2>1 DEF NewTerms
<1> QED
  BY <1>1, <1>2, <1>3 DEF Fresh

LEMMA OthersDraw ==
  ASSUME DeskInv, CreditInv, NEW r \in Requests, Closes(r),
         NEW p \in Requests \ {r}, desk[p] = "flushed"
  PROVE  /\ DrawsJudged(p)' \in [Orders -> Int]
         /\ \A x \in Orders \ strained' : DrawsJudged(p)'[x] <= DrawsJudged(p)[x]
<1> DEFINE c == ask[p]
           s == seen[p]
           o == ask[p].of
<1>1. ask'[p] = c /\ seen'[p] = s /\ judged'[p] = judged[p] /\ desk[p] \in Active
  BY OthersHeld DEF Active
<1>2. /\ order' \in [Orders -> OrderRow] /\ terms' \in [Orders -> Terms]
      /\ order \in [Orders -> OrderRow] /\ terms \in [Orders -> Terms]
  BY ClosesFacts, WrittenTypes DEF DeskInv, DeskTypeOK
<1>3. /\ \A x \in Orders \ strained' : Occupied(order'[x], terms'[x]) <= Occupied(order[x], terms[x])
      /\ \A x \in Orders : order[x].status # "none" => terms'[x].billed <= terms[x].billed
  BY OthersLessen
<1>4. c.kind # "unbill"
  BY DEF CreditInv, FlushedJudged, Judged, NeedsAccount
<1>5. c.kind # "create" => o \in Orders /\ terms'[o].billed <= terms[o].billed
  BY <1>1, <1>3, ActiveFacts DEF CreditInv, NamesInUse
<1>6. ASSUME c.kind # "create"
      PROVE  /\ HeldOrder(p) \in OrderRow /\ HeldTerms(p) \in Terms
             /\ HeldOrder(p)' \in OrderRow /\ HeldTerms(p)' \in Terms
             /\ c.kind = "bill" => /\ HeldOrder(p) = order[o] /\ HeldOrder(p)' = order'[o]
                                   /\ HeldTerms(p) = terms[o] /\ HeldTerms(p)' = terms'[o]
             /\ c.kind # "bill" =>
                  LET t == HeldTerms(p)
                      u == HeldTerms(p)'
                  IN  /\ HeldOrder(p)' = HeldOrder(p) /\ u.billed <= t.billed
                      /\ u.charged = t.charged /\ u.header = t.header /\ u.lines = t.lines
                      /\ u.adjusted = t.adjusted /\ u.added = t.added
  <2>1. HeldOrder(p) \in OrderRow /\ HeldTerms(p) \in Terms /\ HeldTerms(p).billed = terms[o].billed
    BY <1>6, HeldTypes
  <2>2. CASE c.kind = "bill"
    <3>1. /\ HeldOrder(p) = order[o] /\ HeldOrder(p)' = order'[o]
          /\ HeldTerms(p) = terms[o] /\ HeldTerms(p)' = terms'[o]
      BY <1>1, <2>2 DEF HeldOrder, HeldTerms
    <3> QED
      BY <1>2, <1>5, <2>1, <2>2, <3>1
  <2>3. CASE c.kind # "bill"
    <3> DEFINE v == judged[p].terms
               b == terms[o].billed
               d == terms'[o].billed
    <3>1. v \in Terms /\ b \in Nat /\ d \in Nat /\ d <= b
      BY <1>2, <1>5, <1>6 DEF DeskInv, VerdictsKept, Seen, Terms
    <3>2. /\ HeldOrder(p)' = HeldOrder(p) /\ HeldTerms(p) = [v EXCEPT !.billed = b]
          /\ HeldTerms(p)' = [v EXCEPT !.billed = d]
      BY <1>1, <1>6, <2>3 DEF HeldOrder, HeldTerms
    <3> HIDE DEF v, b, d
    <3>3. HeldTerms(p)' \in Terms
      BY <3>1, <3>2 DEF Terms
    <3> QED
      BY <2>1, <2>3, <3>1, <3>2, <3>3, Rewritten
  <2> QED
    BY <2>2, <2>3
<1> DEFINE Before == Occupied(RowAfter(c, HeldOrder(p)), TermsAfter(c, s, HeldTerms(p)))
           Then == Occupied(RowAfter(c, HeldOrder(p)'), TermsAfter(c, s, HeldTerms(p)'))
<1>7. ASSUME o \in Orders
      PROVE  /\ c.kind # "create"
             /\ Then \in Nat
             /\ o \notin strained' => Then <= Before
  <2>1. c.kind # "create"
    BY <1>1, <1>7, ActiveFacts, StockAssumption
  <2>2. Then \in Nat
    BY <1>1, <1>6, <2>1, AfterTypes, OccupiedFacts
  <2>3. CASE c.kind = "bill" /\ o \notin strained'
    <3>1. c.amount \in Nat
      BY <1>1, ActiveFacts
    <3>2. Occupied(HeldOrder(p)', HeldTerms(p)') <= Occupied(HeldOrder(p), HeldTerms(p))
      BY <1>3, <1>6, <1>7, <2>1, <2>3
    <3>3. HeldTerms(p)'.billed <= HeldTerms(p).billed
      BY <1>5, <1>6, <2>1, <2>3
    <3> QED
      BY <1>6, <2>1, <2>2, <2>3, <3>1, <3>2, <3>3, BilledOnTop
  <2>4. CASE c.kind # "bill"
    <3>1. HeldOrder(p)' = HeldOrder(p)
      BY <1>6, <2>1, <2>4
    <3> DEFINE row == HeldOrder(p)
               t == HeldTerms(p)
               u == HeldTerms(p)'
    <3>2. /\ row \in OrderRow /\ t \in Terms /\ u \in Terms /\ u.billed <= t.billed
          /\ u.charged = t.charged /\ u.header = t.header /\ u.lines = t.lines
          /\ u.adjusted = t.adjusted /\ u.added = t.added
      BY <1>6, <2>1, <2>4
    <3> HIDE DEF row, t, u
    <3>3. Occupied(RowAfter(c, row), TermsAfter(c, s, u)) <= Occupied(RowAfter(c, row), TermsAfter(c, s, t))
      BY <1>1, <1>4, <2>1, <2>4, <3>2, SameRewrite
    <3> QED
      BY <2>1, <2>2, <3>1, <3>3 DEF row, t, u
  <2> QED
    BY <2>1, <2>2, <2>3, <2>4
<1>8. /\ DrawsJudged(p) = [x \in Orders |-> IF x = o THEN Before ELSE Occupied(order[x], terms[x])]
      /\ DrawsJudged(p)' = [x \in Orders |-> IF x = o THEN Then ELSE Occupied(order'[x], terms'[x])]
  BY <1>1 DEF DrawsJudged, DrawsOver
<1> HIDE DEF Before, Then
<1>9. \A x \in Orders : Occupied(order'[x], terms'[x]) \in Nat
  BY <1>2, OccupiedFacts
<1> QED
  BY <1>3, <1>7, <1>8, <1>9

LEMMA ClosesVerdicts ==
  ASSUME DeskInv, CreditInv, NEW r \in Requests, Closes(r)
  PROVE  Verdicts'
<1> SUFFICES ASSUME NEW p \in Requests, desk'[p] = "flushed"
             PROVE  Verdict(p)'
  BY DEF Verdicts
<1>1. p # r /\ desk[p] = "flushed" /\ desk[p] \in Active
  BY ClosesFacts DEF DeskOver, DeskInv, DeskTypeOK, Active
<1>2. Verdict(p)
  BY <1>1 DEF CreditInv, Verdicts
<1> DEFINE S == Orders \ strained
           T == Orders \ strained'
           f == DrawsJudged(p)
           g == DrawsJudged(p)'
<1>3. /\ f \in [Orders -> Int] /\ g \in [Orders -> Int] /\ Fresh(p) \in Nat
      /\ \A x \in Orders : f[x] >= 0
      /\ \A x \in T : g[x] <= f[x]
  BY <1>1, AfterDraws, JudgedDraws, OthersDraw
<1>4. IsFiniteSet(Orders) /\ Line \in Int
  BY StockAssumption, OrdersAssumption
<1>5. T \in SUBSET S /\ S \in SUBSET Orders /\ T \in SUBSET Orders
  BY ClosesFacts
<1>6. Total(f, S) + Fresh(p) <= Line
  BY <1>2 DEF Verdict
<1> HIDE DEF f, g, S, T
<1>7. Total(f, T) <= Total(f, S)
  BY <1>3, <1>4, <1>5, SumOfFewer DEF Total
<1>8. Total(g, T) <= Total(f, T)
  BY <1>3, <1>4, <1>5, SumOrdered DEF Total
<1>9. Total(g, T) \in Int /\ Total(f, T) \in Int /\ Total(f, S) \in Int
  BY <1>3, <1>4, <1>5, SumRecursion DEF Total
<1>10. Total(g, T) + Fresh(p) <= Line
  BY <1>3, <1>4, <1>6, <1>7, <1>8, <1>9
<1>11. Fresh(p)' = Fresh(p)
  BY <1>1, OthersHeld
<1>12. Verdict(p)' <=> Total(g, T) + Fresh(p)' <= Line
  BY DEF Verdict, g, T, Total
<1> QED
  BY <1>10, <1>11, <1>12

LEMMA ClosesCredit ==
  ASSUME DeskInv, CreditInv, NEW r \in Requests, Closes(r)
  PROVE  CreditInv'
<1>1. /\ desk'[r] = "done" /\ desk[r] \in Active
      /\ \A q \in Requests \ {r} : desk'[q] = desk[q] /\ ask'[q] = ask[q] /\ seen'[q] = seen[q]
  BY ClosesFacts DEF DeskOver, DeskInv, DeskTypeOK
<1>2. \A q \in Requests \ {r} : (Judged(q)' <=> Judged(q)) /\ (HoldsAccount(q)' <=> HoldsAccount(q))
  BY <1>1 DEF Judged, HoldsAccount
<1>3. ~HoldsAccount(r)'
  BY <1>1 DEF HoldsAccount
<1>4. AccountExclusive'
  BY <1>2, <1>3 DEF CreditInv, AccountExclusive
<1>5. FlushedJudged'
  BY <1>1, <1>2 DEF CreditInv, FlushedJudged
<1>6. ASSUME NEW x \in Orders
      PROVE  \/ order'[x].status # "none"
             \/ order[x].status = "none" /\ terms'[x] = terms[x]
  <2>1. order' = RowsWritten(r) /\ terms' = TermsWritten(r) /\ order[x] \in OrderRow /\ terms[x] \in Terms
    BY ClosesFacts DEF DeskInv, DeskTypeOK
  <2>2. CASE Files(r) /\ x = Name
    BY <2>1, <2>2 DEF RowsWritten, Draft
  <2>3. CASE ~(Files(r) /\ x = Name) /\ x = ask[r].of
    <3>1. ask[r].kind # "create"
      BY <1>1, <2>3, ActiveFacts, StockAssumption
    <3>2. order[x].status # "none"
      BY <1>1, <2>3, <3>1 DEF CreditInv, NamesInUse
    <3>3. order'[x] = RowAfter(ask[r], order[x])
      BY <2>1, <2>3 DEF RowsWritten
    <3> QED
      BY <1>1, <2>1, <3>1, <3>2, <3>3, AfterTypes
  <2>4. CASE ~(Files(r) /\ x = Name) /\ x # ask[r].of
    BY <2>1, <2>4 DEF RowsWritten, TermsWritten, TermsOver
  <2> QED
    BY <2>2, <2>3, <2>4
<1>7. IdleNames'
  BY <1>6 DEF CreditInv, IdleNames
<1>8. NamesInUse'
  <2> SUFFICES ASSUME NEW q \in Requests, desk'[q] \in Active, ask'[q].kind # "create"
               PROVE  order'[ask'[q].of].status # "none"
    BY DEF NamesInUse
  <2>1. q # r /\ desk[q] \in Active /\ ask'[q] = ask[q]
    BY <1>1 DEF Active
  <2>2. order[ask[q].of].status # "none" /\ ask[q].of \in Orders
    BY <2>1, ActiveFacts DEF CreditInv, NamesInUse
  <2> QED
    BY <1>6, <2>1, <2>2
<1> QED
  BY <1>4, <1>5, <1>7, <1>8, ClosesWithin, ClosesVerdicts DEF CreditInv

-----------------------------------------------------------------------------
(* Steps that commit nothing                                                *)

\* A verdict depends on the orders, on what the request asks and has read, and
\* on what it was judged by.
LEMMA VerdictStands ==
  ASSUME NEW p, UNCHANGED <<order, terms, strained>>, desk'[p] = desk[p], ask'[p] = ask[p],
         seen'[p] = seen[p], judged'[p] = judged[p]
  PROVE  /\ Verdict(p)' <=> Verdict(p)
         /\ Judged(p)' <=> Judged(p)
<1>1. DrawsJudged(p)' = DrawsJudged(p)
  BY DEF DrawsJudged, DrawsOver, HeldOrder, HeldTerms
<1>2. Fresh(p)' = Fresh(p)
  BY DEF Fresh, Files, NewTerms, Copied
<1>3. Verdict(p)' <=> Verdict(p)
  BY <1>1, <1>2 DEF Verdict
<1>4. Judged(p)' <=> Judged(p)
  BY DEF Judged
<1> QED
  BY <1>3, <1>4

JudgedAs(c, s) == NeedsAccount(c, IF c.kind = "create" THEN [charged |-> FALSE] ELSE s.terms)

LEMMA QuietCredit ==
  ASSUME DeskInv, CreditInv, NEW r \in Requests, UNCHANGED books,
         NEW where, NEW c, NEW s,
         desk' = [desk EXCEPT ![r] = where], ask' = [ask EXCEPT ![r] = c],
         seen' = [seen EXCEPT ![r] = s], \A q \in Requests \ {r} : judged'[q] = judged[q],
         where \in {"writing", "flushed"} /\ JudgedAs(c, s) => AccountFree \/ HoldsAccount(r),
         where = "flushed" => JudgedAs(c, s) /\ Verdict(r)',
         where \in Active /\ c.kind # "create" => order[c.of].status # "none"
  PROVE  CreditInv'
<1>1. UNCHANGED <<order, terms, strained>>
  BY DEF books
<1>2. /\ desk'[r] = where /\ ask'[r] = c /\ seen'[r] = s
      /\ \A q \in Requests \ {r} : desk'[q] = desk[q] /\ ask'[q] = ask[q] /\ seen'[q] = seen[q]
  BY DEF DeskInv, DeskTypeOK
<1>3. \A q \in Requests \ {r} :
        /\ Verdict(q)' <=> Verdict(q)
        /\ Judged(q)' <=> Judged(q)
        /\ HoldsAccount(q)' <=> HoldsAccount(q)
  <2> SUFFICES ASSUME NEW q \in Requests \ {r}
               PROVE  /\ Verdict(q)' <=> Verdict(q)
                      /\ Judged(q)' <=> Judged(q)
                      /\ HoldsAccount(q)' <=> HoldsAccount(q)
    OBVIOUS
  <2>1. desk'[q] = desk[q] /\ ask'[q] = ask[q] /\ seen'[q] = seen[q] /\ judged'[q] = judged[q]
    BY <1>2
  <2>2. (Verdict(q)' <=> Verdict(q)) /\ (Judged(q)' <=> Judged(q))
    BY <1>1, <2>1, VerdictStands
  <2>3. HoldsAccount(q)' <=> HoldsAccount(q)
    BY <2>1, <2>2 DEF HoldsAccount
  <2> QED
    BY <2>2, <2>3
<1>4. Judged(r)' <=> JudgedAs(c, s)
  BY <1>2 DEF Judged, JudgedAs
<1>5. HoldsAccount(r)' => AccountFree \/ HoldsAccount(r)
  BY <1>2, <1>4 DEF HoldsAccount
<1>6. AccountExclusive'
  <2>1. \A q \in Requests \ {r} : ~(HoldsAccount(r)' /\ HoldsAccount(q)')
    BY <1>3, <1>5 DEF AccountFree, HoldsAccount, CreditInv, AccountExclusive
  <2> QED
    BY <1>3, <2>1 DEF CreditInv, AccountExclusive
<1>7. FlushedJudged'
  BY <1>2, <1>3, <1>4 DEF CreditInv, FlushedJudged
<1>8. Verdicts'
  BY <1>2, <1>3 DEF CreditInv, Verdicts
<1>9. IdleNames' /\ WithinCreditUnlessRaced'
  BY <1>1 DEF CreditInv, IdleNames, WithinCreditUnlessRaced
<1>10. NamesInUse'
  BY <1>1, <1>2 DEF CreditInv, NamesInUse
<1> QED
  BY <1>6, <1>7, <1>8, <1>9, <1>10 DEF CreditInv

LEMMA RefuseCredit ==
  ASSUME DeskInv, CreditInv, NEW r \in Requests, DeskRefuse(r)
  PROVE  CreditInv'
<1>1. /\ desk' = [desk EXCEPT ![r] = "done"] /\ ask' = [ask EXCEPT ![r] = None]
      /\ seen' = [seen EXCEPT ![r] = None] /\ UNCHANGED books
      /\ \A q \in Requests \ {r} : judged'[q] = judged[q]
  BY DEF DeskRefuse, DeskOver, DeskInv, DeskTypeOK
<1> QED
  BY <1>1, QuietCredit DEF Active

\* Whoever is admitted names an order that is somebody's.
LEMMA AdmittedInUse ==
  ASSUME DeskInv, CreditInv, NEW c \in DeskCalls, c.kind # "create", Admitted(c)
  PROVE  order[c.of].status # "none"
<1>1. c.kind \in RowKinds \cup LineKinds \cup AdjustKinds \cup {"bill", "unbill"} /\ c.of \in Orders
  BY DeskCallFacts
<1>2. CASE c.kind = "unbill"
  <2>1. terms[c.of].billed > 0
    BY <1>2 DEF Admitted, LineKinds
  <2>2. terms[c.of].billed # 0
    BY <1>1, <2>1 DEF DeskInv, DeskTypeOK, Terms
  <2> QED
    BY <1>1, <2>2 DEF CreditInv, IdleNames
<1>3. CASE c.kind \in {"restate", "save"} \cup LineKinds \cup AdjustKinds
  BY <1>3 DEF Admitted, LineKinds, AdjustKinds
<1>4. CASE c.kind \in {"charge", "clear", "bill", "delete", "restore"}
  BY <1>4 DEF Admitted, LineKinds
<1>5. CASE c.kind \in {"status", "revise"}
  BY <1>5 DEF Admitted, LineKinds, Transitions, Revisable
<1> QED
  BY <1>1, <1>2, <1>3, <1>4, <1>5 DEF RowKinds

LEMMA BeginCredit ==
  ASSUME DeskInv, CreditInv, NEW r \in Requests, NEW c \in DeskCalls, DeskBegin(r, c)
  PROVE  CreditInv'
<1> DEFINE t == IF c.of = None THEN [charged |-> FALSE] ELSE terms[c.of]
           s == IF c.of = None THEN None ELSE Named(c)
           where == FirstLock(c, t)
<1>1. /\ desk' = [desk EXCEPT ![r] = where] /\ ask' = [ask EXCEPT ![r] = c]
      /\ seen' = [seen EXCEPT ![r] = s] /\ judged' = judged
      /\ UNCHANGED books
  BY DEF DeskBegin, books, stockVars
<1>2. c.of = None <=> c.kind = "create"
  BY DeskCallFacts
<1>3. s.terms = t \/ c.kind = "create"
  BY <1>2 DEF Named
<1>4. JudgedAs(c, s) <=> NeedsAccount(c, t)
  BY <1>2, <1>3 DEF JudgedAs
<1>5. where # "flushed" /\ (where = "writing" => ~NeedsAccount(c, t))
  BY DEF FirstLock
<1>6. c.kind # "create" => order[c.of].status # "none"
  BY AdmittedInUse DEF DeskBegin
<1> HIDE DEF t, s, where
<1> QED
  BY <1>1, <1>4, <1>5, <1>6, QuietCredit

LEMMA LockRowCredit ==
  ASSUME DeskInv, CreditInv, NEW r \in Requests, LockRow(r)
  PROVE  CreditInv'
<1>1. CASE ~Fits(r)
  BY <1>1, RefuseCredit DEF LockRow
<1>2. CASE Fits(r)
  <2> DEFINE c == ask[r]
             s == Named(c)
             where == IF NeedsAccount(c, terms[c.of]) THEN "account" ELSE "writing"
  <2>1. /\ desk' = [desk EXCEPT ![r] = where] /\ seen' = [seen EXCEPT ![r] = s]
        /\ ask' = ask /\ judged' = judged /\ UNCHANGED books /\ desk[r] \in Active
        /\ c.kind \in Gated
    BY <1>2 DEF LockRow, Active
  <2>2. ask' = [ask EXCEPT ![r] = c]
    BY <2>1 DEF DeskInv, DeskTypeOK
  <2>3. c.kind # "create"
    BY <2>1 DEF Gated, LineKinds
  <2>4. where # "flushed" /\ (where = "writing" => ~JudgedAs(c, s))
    BY <2>3 DEF JudgedAs, Named
  <2>5. order[c.of].status # "none"
    BY <2>1, <2>3 DEF CreditInv, NamesInUse
  <2> HIDE DEF c, s, where
  <2> QED
    BY <2>1, <2>2, <2>4, <2>5, QuietCredit
<1> QED
  BY <1>1, <1>2

\* A request goes on with what it has read.
LEMMA GoesOn ==
  ASSUME DeskInv, CreditInv, NEW r \in Requests, desk[r] \in Active, NEW where,
         desk' = [desk EXCEPT ![r] = where], UNCHANGED <<ask, seen, books>>,
         \A q \in Requests \ {r} : judged'[q] = judged[q],
         where \in {"writing", "flushed"} /\ Judged(r) => AccountFree \/ HoldsAccount(r),
         where = "flushed" => Judged(r) /\ Verdict(r)'
  PROVE  CreditInv'
<1> DEFINE c == ask[r]
           s == seen[r]
<1>1. ask' = [ask EXCEPT ![r] = c] /\ seen' = [seen EXCEPT ![r] = s] /\ UNCHANGED books
  BY DEF DeskInv, DeskTypeOK
<1>2. c.kind # "create" => order[c.of].status # "none"
  BY DEF CreditInv, NamesInUse
<1>3. JudgedAs(c, s) <=> Judged(r)
  BY DEF JudgedAs, Judged
<1>4. where \in {"writing", "flushed"} /\ JudgedAs(c, s) => AccountFree \/ HoldsAccount(r)
  BY <1>3
<1>5. where = "flushed" => JudgedAs(c, s) /\ Verdict(r)'
  BY <1>3
<1> HIDE DEF c, s
<1> QED
  BY <1>1, <1>2, <1>4, <1>5, QuietCredit

LEMMA LockKeyCredit ==
  ASSUME DeskInv, CreditInv, NEW r \in Requests, LockKey(r)
  PROVE  CreditInv'
<1> DEFINE where == IF Judged(r) THEN "account" ELSE "writing"
<1>1. /\ desk[r] \in Active /\ desk' = [desk EXCEPT ![r] = where]
      /\ UNCHANGED <<ask, seen, books>> /\ judged' = judged
  BY DEF LockKey, books, stockVars, Active
<1>2. where # "flushed" /\ (where = "writing" => ~Judged(r))
  OBVIOUS
<1> HIDE DEF where
<1> QED
  BY <1>1, <1>2, GoesOn

\* The verdict is about every order, so it is about those that were not set
\* apart: an order never draws less than nothing.
LEMMA FlushesCredit ==
  ASSUME DeskInv, CreditInv, NEW r \in Requests, Flushes(r)
  PROVE  CreditInv'
<1> DEFINE o == ask[r].of
           base == IF Files(r) THEN terms[o] ELSE Base(r, o).terms
           over == DrawsOver(r, order[o], base)
<1>1. /\ desk[r] \in Active /\ HoldsAccount(r) /\ Judged(r) /\ (Files(r) => NewId)
      /\ desk[r] = "writing" /\ desk' = [desk EXCEPT ![r] = "flushed"]
      /\ judged' = [judged EXCEPT ![r] = Base(r, Target(r))] /\ UNCHANGED <<ask, seen, books>>
  BY DEF Flushes, Active, HoldsAccount
<1>2. UNCHANGED <<order, terms, strained>> /\ desk'[r] = "flushed"
      /\ judged'[r] = Base(r, Target(r)) /\ \A q \in Requests \ {r} : judged'[q] = judged[q]
  BY <1>1 DEF books, DeskInv, DeskTypeOK
<1>3. ask[r].kind # "create" =>
        /\ o \in Orders /\ seen[r] \in Seen /\ order[o] \in OrderRow /\ terms[o] \in Terms
        /\ judged'[r] = Base(r, o) /\ Base(r, o).order = order[o] /\ Base(r, o).terms \in Terms
        /\ Base(r, o).terms.lines = terms[o].lines /\ Base(r, o).terms.added = terms[o].added
        /\ Base(r, o).terms.billed = terms[o].billed
        /\ ask[r].kind = "bill" => Base(r, o).terms = terms[o]
        /\ ask[r].kind = "revise" => Base(r, o).terms.adjusted = terms[o].adjusted
        /\ base \in Terms
  <2>1. ask[r].kind # "create" =>
          /\ o \in Orders /\ seen[r] \in Seen /\ order[o] \in OrderRow /\ terms[o] \in Terms
    BY <1>1, ActiveFacts
  <2>2. ask[r].kind # "create" => Target(r) = o
    BY DEF Target
  <2> QED
    BY <1>2, <2>1, <2>2, BaseFacts DEF DeskInv
<1>4. Fresh(r)' = Fresh(r)
  <2>1. ask[r].kind = "revise" =>
          /\ Copied(r)'.lines = Copied(r).lines /\ Copied(r)'.adjusted = Copied(r).adjusted
          /\ Copied(r)'.added = Copied(r).added
    BY <1>1, <1>2, <1>3 DEF Copied
  <2>2. Files(r) => NewTerms(r)' = NewTerms(r)
    BY <1>1, <2>1 DEF Files, Filing, NewTerms
  <2>3. Files(r)' <=> Files(r)
    BY <1>1 DEF Files
  <2> QED
    BY <2>2, <2>3 DEF Fresh
<1>5. DrawsJudged(r)' = over
  <2>1. ASSUME o \in Orders
        PROVE  Occupied(RowAfter(ask[r], HeldOrder(r)'), TermsAfter(ask[r], seen[r], HeldTerms(r)'))
                 = Occupied(RowAfter(ask[r], order[o]), TermsAfter(ask[r], seen[r], base))
    <3>1. ask[r].kind # "create"
      BY <1>1, <2>1, ActiveFacts, StockAssumption
    <3>2. HeldOrder(r)' = order[o]
      BY <1>1, <1>2, <1>3, <3>1 DEF HeldOrder
    <3>3. ask[r].kind # "bill" => HeldTerms(r)' = Base(r, o).terms
      <4> DEFINE v == Base(r, o).terms
      <4>1. ask[r].kind # "bill" => HeldTerms(r)' = [v EXCEPT !.billed = v.billed]
        BY <1>1, <1>2, <1>3, <3>1 DEF HeldTerms
      <4>2. v \in Terms
        BY <1>3, <3>1
      <4> HIDE DEF v
      <4>3. [v EXCEPT !.billed = v.billed] = v
        BY <4>2, Rewritten
      <4> QED
        BY <4>1, <4>3 DEF v
    <3>4. CASE ask[r].kind = "revise"
      <4>1. HeldTerms(r)' \in Terms /\ HeldTerms(r)'.billed = terms[o].billed /\ base.billed = terms[o].billed
        BY <1>3, <3>1, <3>3, <3>4
      <4>2. \A t \in Terms : Occupied(RowAfter(ask[r], order[o]), TermsAfter(ask[r], seen[r], t)) = t.billed
        BY <1>1, <1>3, <3>1, <3>4, RevisedDraws
      <4> HIDE DEF base
      <4> QED
        BY <1>3, <3>1, <3>2, <4>1, <4>2
    <3>5. CASE ask[r].kind # "revise"
      <4>1. ~Files(r)
        BY <3>1, <3>5 DEF Files, Filing
      <4>2. ask[r].kind = "bill" => HeldTerms(r)' = terms[o]
        BY <1>1, <1>2 DEF HeldTerms
      <4>3. HeldTerms(r)' = base
        BY <1>3, <3>1, <3>3, <4>1, <4>2
      <4> QED
        BY <3>2, <4>3
    <3> QED
      BY <3>4, <3>5
  <2>2. DrawsJudged(r)' = [x \in Orders |->
            IF x = o THEN Occupied(RowAfter(ask[r], HeldOrder(r)'), TermsAfter(ask[r], seen[r], HeldTerms(r)'))
            ELSE Occupied(order[x], terms[x])]
    BY <1>1, <1>2 DEF DrawsJudged, DrawsOver
  <2> HIDE DEF base
  <2> QED
    BY <2>1, <2>2 DEF DrawsOver
<1>6. ~(Total(over, Orders) + Fresh(r) > Line)
  <2>1. View(r) = TermsOver(r, base)
    BY DEF View
  <2> HIDE DEF base
  <2>2. Exposure(RowsWritten(r), View(r)) = Total(DrawsFrom(r, base), Orders)
    BY <2>1, FromExposure DEF Exposure
  <2>3. Total(DrawsFrom(r, base), Orders) = Total(over, Orders) + Fresh(r)
    BY <1>1, <1>3, FromTotals DEF CreditInv
  <2> QED
    BY <2>2, <2>3 DEF Flushes
<1>7. over \in [Orders -> Int] /\ (\A x \in Orders : over[x] >= 0) /\ Fresh(r) \in Nat
  BY <1>1, <1>3, OverDraws, AfterDraws
<1> DEFINE S == Orders \ strained
<1>8. Verdict(r)' <=> Total(over, S) + Fresh(r) <= Line
  BY <1>2, <1>4, <1>5 DEF Verdict
<1> HIDE DEF over, S
<1>9. Total(over, S) <= Total(over, Orders) /\ Total(over, S) \in Int /\ Total(over, Orders) \in Int
  <2>1. Orders \in SUBSET Orders /\ IsFiniteSet(Orders) /\ S \in SUBSET Orders
    BY StockAssumption DEF S
  <2> QED
    BY <1>7, <2>1, SumOfFewer, SumRecursion DEF Total
<1>10. Verdict(r)'
  BY <1>6, <1>7, <1>8, <1>9, OrdersAssumption
<1> QED
  BY <1>1, <1>2, <1>10, GoesOn

LEMMA DeskProceedCredit ==
  ASSUME DeskInv, CreditInv, NEW r \in Requests, DeskProceed(r)
  PROVE  CreditInv'
<1>1. CASE LockAccount(r)
  <2>1. /\ desk[r] \in Active /\ AccountFree /\ desk' = [desk EXCEPT ![r] = "writing"]
        /\ UNCHANGED <<ask, seen, books>> /\ judged' = judged
    BY <1>1 DEF LockAccount, books, stockVars, Active
  <2> QED
    BY <2>1, GoesOn
<1>2. CASE DeskDeadlock(r)
  BY <1>2, RefuseCredit DEF DeskDeadlock
<1>3. CASE LockRow(r)
  BY <1>3, LockRowCredit
<1>4. CASE LockKey(r)
  BY <1>4, LockKeyCredit
<1>5. CASE \/ CommitCreate(r) \/ CommitRestate(r) \/ CommitSave(r) \/ CommitLines(r) \/ CommitAdjust(r)
           \/ CommitCharge(r) \/ CommitStatus(r) \/ CommitLife(r) \/ CommitBill(r) \/ CommitRevise(r)
  <2>1. Landed(r)
    <3>1. CASE CommitCreate(r)
      BY <3>1, CreateLands
    <3>2. CASE CommitRevise(r)
      BY <3>2, ReviseLands DEF CreditInv
    <3>3. CASE ~CommitCreate(r) /\ ~CommitRevise(r)
      BY <1>5, <3>3, AmendsLands, RestateAmends, SaveAmends, LinesAmends, AdjustAmends, ChargeAmends,
         StatusAmends, LifeAmends, BillAmends
    <3> QED
      BY <3>1, <3>2, <3>3
  <2> QED
    BY <2>1, RefuseCredit, FlushesCredit, ClosesCredit DEF Landed
<1> QED
  BY <1>1, <1>2, <1>3, <1>4, <1>5 DEF DeskProceed

LEMMA IdleCredit ==
  ASSUME DeskInv, CreditInv, UNCHANGED <<order, terms, supersedes, deskControl, strained, overtaken>>
  PROVE  CreditInv'
<1>1. UNCHANGED <<order, terms, desk, ask, seen, judged, strained>>
  BY DEF deskControl
<1>2. ASSUME NEW q \in Requests
      PROVE  /\ Verdict(q)' <=> Verdict(q)
             /\ Judged(q)' <=> Judged(q)
             /\ HoldsAccount(q)' <=> HoldsAccount(q)
  <2>1. (Verdict(q)' <=> Verdict(q)) /\ (Judged(q)' <=> Judged(q))
    BY <1>1, VerdictStands
  <2> QED
    BY <1>1, <2>1 DEF HoldsAccount
<1>3. AccountExclusive' /\ FlushedJudged' /\ Verdicts'
  BY <1>1, <1>2 DEF CreditInv, AccountExclusive, FlushedJudged, Verdicts
<1>4. IdleNames' /\ NamesInUse' /\ WithinCreditUnlessRaced'
  BY <1>1 DEF CreditInv, IdleNames, NamesInUse, WithinCreditUnlessRaced
<1> QED
  BY <1>3, <1>4 DEF CreditInv

LEMMA NextCredit ==
  ASSUME DeskInv, CreditInv, [Next]_vars
  PROVE  CreditInv'
<1>1. ASSUME NEW r \in Requests, Step(r) \/ Arrive(r)
      PROVE  CreditInv'
  <2>1. CASE DeskProceed(r)
    BY <2>1, DeskProceedCredit
  <2>2. ASSUME NEW c \in DeskCalls, DeskBegin(r, c)
        PROVE  CreditInv'
    BY <2>2, BeginCredit
  <2>3. CASE DeskIdle(r) /\ (Proceed(r) \/ \E c \in Calls : Begin(r, c))
    BY <2>3, StockLeavesOrders, IdleCredit DEF DeskIdle
  <2> QED
    BY <1>1, <2>1, <2>2, <2>3 DEF Step, Arrive
<1>2. CASE UNCHANGED vars
  BY <1>2, IdleCredit DEF vars, stockVars
<1> QED
  BY <1>1, <1>2 DEF Next

LEMMA InitCredit ==
  ASSUME Init
  PROVE  CreditInv
<1>1. /\ order = Filed /\ terms = Agreed /\ strained = {}
      /\ \A r \in Requests : desk[r] = "new"
  BY DEF Init
<1>2. AccountExclusive /\ FlushedJudged /\ NamesInUse /\ Verdicts
  BY <1>1 DEF AccountExclusive, HoldsAccount, FlushedJudged, NamesInUse, Active, Verdicts
<1>3. IdleNames
  BY <1>1, OpeningAssumption DEF IdleNames
<1>4. WithinCreditUnlessRaced
  <2>1. Orders \ strained = Orders
    BY <1>1
  <2>2. Drawn(order, terms, Orders) <= Line
    BY <1>1, OpeningAssumption DEF Exposure
  <2> QED
    BY <2>1, <2>2 DEF WithinCreditUnlessRaced
<1> QED
  BY <1>2, <1>3, <1>4 DEF CreditInv

-----------------------------------------------------------------------------
(* The credit line                                                          *)

\* Every request keeps what the account was judged by, from its flush to its
\* commit, whatever the others do meanwhile: the order it names counted as its
\* verdict took it, every other as it is by now.
THEOREM CreditInvariance == Spec => []CreditInv
<1>1. Init => CreditInv
  BY InitCredit
<1>2. DeskInv /\ CreditInv /\ [Next]_vars => CreditInv'
  BY NextCredit
<1> QED
  BY <1>1, <1>2, DeskInvariance, PTL DEF Spec

\* The account's orders and invoices never draw more than its credit line, for
\* any number of requests that charge, grow, bill, restore, adjust or revise them
\* at once (resolve_chargeable_account, ensure_within_credit).  Left out is only
\* an order that grew when a discount of it was deleted, or that was written
\* after it had changed since the verdict, or, without a verdict, since the read.
THEOREM WithinTheLine == Spec => []WithinCreditUnlessRaced
<1>1. CreditInv => WithinCreditUnlessRaced
  BY DEF CreditInv
<1> QED
  BY <1>1, CreditInvariance, PTL

\* Only one request at a time judges the account and writes what it was allowed
\* (the account's row lock of resolve_chargeable_account).
THEOREM OneJudgeAtATime == Spec => []AccountExclusive
<1>1. CreditInv => AccountExclusive
  BY DEF CreditInv
<1> QED
  BY <1>1, CreditInvariance, PTL
=============================================================================
