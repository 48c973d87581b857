------------------------------ MODULE OrdersProofs ------------------------------
(***************************************************************************)
(* Theorems about Orders, for every set of requests, orders and calls: the *)
(* desk leaves the stock's promise alone, a revision replaces its source,  *)
(* and the lines of an order are written on the order that was judged.     *)
(***************************************************************************)
EXTENDS Orders, StockProofs

USE OrdersAssumption

-----------------------------------------------------------------------------
(* The invariant                                                            *)

Seen == [order : OrderRow, terms : Terms]
Active == {"row", "account", "writing", "flushed"}

DeskTypeOK ==
  /\ order \in [Orders -> OrderRow] /\ terms \in [Orders -> Terms]
  /\ supersedes \in [Orders -> Orders \cup {None}]
  /\ desk \in [Requests -> Active \cup {"new", "done"}]
  /\ ask \in [Requests -> DeskCalls \cup {None}]
  /\ seen \in [Requests -> Seen \cup {None}]
  /\ judged \in [Requests -> Seen \cup {None}]
  /\ strained \subseteq Orders /\ overtaken \subseteq Orders

\* What a request may still rely on is in the row it read, not in the order.
Fitting(where, c, s) ==
  where \in Active =>
    /\ c \in DeskCalls
    /\ c.kind # "create" => c.of \in Orders /\ s \in Seen
    /\ c.kind \in Gated => s.order.status = "draft"
    /\ c.kind = "status" => <<s.order.status, c.status>> \in Transitions
    /\ c.kind = "revise" => s.order.status = "confirmed"
    /\ where = "row" => c.kind \in Gated \cup {"adjust"}

AsksFit == \A r \in Requests : Fitting(desk[r], ask[r], seen[r])

VerdictsKept == \A r \in Requests : desk[r] = "flushed" => judged[r] \in Seen

\* A request that has written an order's row and not committed, waits with its
\* lock, or has inserted an adjustment that names it, shares the order with no
\* writer of lines.
Claims(q) == Holding(q) \/ Inserted(q)
RowsExclude ==
  \A q, r \in Requests : q # r /\ Claims(q) /\ Saving(r) => ask[q].of # ask[r].of

Heirs(o) == {n \in Orders : supersedes[n] = o}

OneHeir ==
  \A o \in Orders \ overtaken :
    /\ \A a, b \in Heirs(o) : a = b
    /\ Heirs(o) # {} => order[o].status = "cancelled"

DeskInv ==
  DeskTypeOK /\ AsksFit /\ VerdictsKept /\ RowsExclude /\ LinesStandStill /\ OneHeir

-----------------------------------------------------------------------------
(* Orders and terms                                                         *)

\* One order's row and terms rewritten, field by field.
LEMMA Rewritten ==
  /\ \A x \in OrderRow :
       /\ \A v : [x EXCEPT !.status = v] = [live |-> x.live, status |-> v]
       /\ \A v : [x EXCEPT !.live = v] = [live |-> v, status |-> x.status]
       /\ x = [live |-> x.live, status |-> x.status]
  /\ \A t \in Terms :
       /\ \A v : [t EXCEPT !.charged = v] =
                  [charged |-> v, header |-> t.header, lines |-> t.lines,
                   adjusted |-> t.adjusted, added |-> t.added, billed |-> t.billed]
       /\ \A v : [t EXCEPT !.header = v] =
                  [charged |-> t.charged, header |-> v, lines |-> t.lines,
                   adjusted |-> t.adjusted, added |-> t.added, billed |-> t.billed]
       /\ \A v : [t EXCEPT !.lines = v] =
                  [charged |-> t.charged, header |-> t.header, lines |-> v,
                   adjusted |-> t.adjusted, added |-> t.added, billed |-> t.billed]
       /\ \A v : [t EXCEPT !.adjusted = v] =
                  [charged |-> t.charged, header |-> t.header, lines |-> t.lines,
                   adjusted |-> v, added |-> t.added, billed |-> t.billed]
       /\ \A v : [t EXCEPT !.added = v] =
                  [charged |-> t.charged, header |-> t.header, lines |-> t.lines,
                   adjusted |-> t.adjusted, added |-> v, billed |-> t.billed]
       /\ \A v : [t EXCEPT !.billed = v] =
                  [charged |-> t.charged, header |-> t.header, lines |-> t.lines,
                   adjusted |-> t.adjusted, added |-> t.added, billed |-> v]
       /\ t = [charged |-> t.charged, header |-> t.header, lines |-> t.lines,
               adjusted |-> t.adjusted, added |-> t.added, billed |-> t.billed]
BY DEF OrderRow, Terms

\* What a writer of lines finds as it was when it locked the row.
SameTerms(t, u) ==
  t.charged = u.charged /\ t.header = u.header /\ t.lines = u.lines /\ t.added = u.added

LEMMA StandingFacts ==
  ASSUME NEW a \in Seen, NEW b \in Seen
  PROVE  /\ Standing(a) = Standing(b) <=> a.order = b.order /\ SameTerms(a.terms, b.terms)
         /\ Revision(a) = Revision(b) => a.order = b.order
<1>1. ASSUME NEW x \in Seen
      PROVE  /\ Standing(x) = [order |-> x.order,
                               terms |-> [charged |-> x.terms.charged, header |-> x.terms.header,
                                          lines |-> x.terms.lines, adjusted |-> 0,
                                          added |-> x.terms.added, billed |-> 0]]
             /\ Revision(x) = [order |-> x.order,
                               terms |-> [charged |-> x.terms.charged, header |-> x.terms.header,
                                          lines |-> x.terms.lines, adjusted |-> x.terms.adjusted,
                                          added |-> x.terms.added, billed |-> 0]]
  <2>1. Revision(x) = [order |-> x.order,
                       terms |-> [charged |-> x.terms.charged, header |-> x.terms.header,
                                  lines |-> x.terms.lines, adjusted |-> x.terms.adjusted,
                                  added |-> x.terms.added, billed |-> 0]]
    BY DEF Seen, Terms, Revision
  <2> QED
    BY <2>1 DEF Standing
<1>2. Standing(a) = Standing(b) <=> a.order = b.order /\ SameTerms(a.terms, b.terms)
  BY <1>1 DEF SameTerms
<1>3. Revision(a) = Revision(b) => a.order = b.order
  BY <1>1
<1> QED
  BY <1>2, <1>3

LEMMA NamedType ==
  ASSUME DeskTypeOK, NEW c, c.of \in Orders
  PROVE  Named(c) \in Seen /\ Named(c).order = order[c.of] /\ Named(c).terms = terms[c.of]
BY DEF DeskTypeOK, Named, Seen

\* What a desk call names.
LEMMA DeskCallFacts ==
  ASSUME NEW c \in DeskCalls
  PROVE  /\ c # None /\ c.status \in Statuses /\ c.amount \in Nat /\ c.adjust \in Int
         /\ c.charged \in BOOLEAN
         /\ c.kind \in RowKinds \cup LineKinds \cup AdjustKinds \cup {"bill", "unbill", "create"}
         /\ c.of \in Orders \cup {None}
         /\ c.of = None <=> c.kind = "create"
<1>1. c \in AllDeskCalls /\ (c.of = None <=> c.kind = "create")
  OBVIOUS
<1> QED
  BY <1>1 DEF AllDeskCalls

\* The order a verdict is about is the order as it is, but for what the session
\* believes of the stated total and of the adjustment it writes.
LEMMA BaseFacts ==
  ASSUME DeskTypeOK, NEW r \in Requests, NEW o \in Orders,
         ask[r].kind \in {"create", "bill"} \/ seen[r] \in Seen
  PROVE  /\ Base(r, o) \in Seen /\ Base(r, o).order = order[o]
         /\ Base(r, o).terms \in Terms
         /\ Base(r, o).terms.charged = terms[o].charged
         /\ Base(r, o).terms.lines = terms[o].lines /\ Base(r, o).terms.added = terms[o].added
         /\ Base(r, o).terms.billed = terms[o].billed
         /\ ask[r].kind \in {"create", "bill"} => Base(r, o).terms = terms[o]
         /\ ask[r].kind \notin {"readjust", "save"} => Base(r, o).terms.adjusted = terms[o].adjusted
<1> DEFINE h == IF ask[r].kind \in {"create", "bill"} THEN terms[o].header ELSE seen[r].terms.header
           a == IF ask[r].kind \in {"readjust", "save"} /\ terms[o].adjusted # 0
                THEN seen[r].terms.adjusted ELSE terms[o].adjusted
           t == [charged |-> terms[o].charged, header |-> h, lines |-> terms[o].lines,
                 adjusted |-> a, added |-> terms[o].added, billed |-> terms[o].billed]
<1>1. terms[o] \in Terms /\ order[o] \in OrderRow
  BY DEF DeskTypeOK
<1>2. h \in Nat \cup {None} /\ a \in Int
  BY <1>1 DEF Seen, Terms
<1>3. Base(r, o) = [order |-> order[o], terms |-> t]
  <2>1. Base(r, o) = [order |-> order[o], terms |-> [terms[o] EXCEPT !.header = h, !.adjusted = a]]
    BY <1>1 DEF Base, Terms
  <2> HIDE DEF h, a
  <2> DEFINE u == [terms[o] EXCEPT !.header = h]
  <2>2. u = [charged |-> terms[o].charged, header |-> h, lines |-> terms[o].lines,
             adjusted |-> terms[o].adjusted, added |-> terms[o].added, billed |-> terms[o].billed]
    BY <1>1, Rewritten
  <2>3. [terms[o] EXCEPT !.header = h, !.adjusted = a] = [u EXCEPT !.adjusted = a]
    OBVIOUS
  <2> HIDE DEF u
  <2>4. [u EXCEPT !.adjusted = a] = t
    BY <2>2
  <2> QED
    BY <2>1, <2>3, <2>4
<1>4. ask[r].kind \in {"create", "bill"} => h = terms[o].header /\ a = terms[o].adjusted
  OBVIOUS
<1>5. ask[r].kind \notin {"readjust", "save"} => a = terms[o].adjusted
  OBVIOUS
<1> HIDE DEF h, a
<1>6. t \in Terms
  BY <1>1, <1>2 DEF Terms
<1>7. ask[r].kind \in {"create", "bill"} => t = terms[o]
  BY <1>1, <1>4, Rewritten
<1> QED
  BY <1>1, <1>3, <1>5, <1>6, <1>7 DEF Seen

-----------------------------------------------------------------------------
(* Steps that write no order                                                *)

\* A step of one request that writes no order keeps the invariant when what it
\* leaves behind fits, and what it holds is nobody else's.
LEMMA QuietStep ==
  ASSUME DeskInv, NEW r \in Requests, UNCHANGED books,
         NEW where \in Active \cup {"new", "done"}, NEW c \in DeskCalls \cup {None},
         NEW s \in Seen \cup {None}, NEW v \in Seen \cup {None},
         desk' = [desk EXCEPT ![r] = where], ask' = [ask EXCEPT ![r] = c],
         seen' = [seen EXCEPT ![r] = s], judged' = [judged EXCEPT ![r] = v],
         Fitting(where, c, s), where = "flushed" => v \in Seen,
         where \in {"account", "writing", "flushed"} /\ c.kind \in Gated =>
           /\ c.of \in Orders /\ Standing(s) = Standing(Named(c))
           /\ \A q \in Requests \ {r} : Claims(q) => ask[q].of # c.of,
         (where = "flushed" /\ c.kind \in RowKinds)
           \/ (where \in {"account", "writing", "flushed"} /\ c.kind = "adjust") =>
           \A q \in Requests \ {r} : Saving(q) => ask[q].of # c.of
  PROVE  DeskInv'
<1> USE DEF DeskInv
<1>1. UNCHANGED <<order, terms, supersedes, strained, overtaken>>
  BY DEF books
<1>2. DeskTypeOK'
  BY <1>1 DEF DeskTypeOK
<1>3. /\ desk'[r] = where /\ ask'[r] = c /\ seen'[r] = s /\ judged'[r] = v
      /\ \A q \in Requests \ {r} : /\ desk'[q] = desk[q] /\ ask'[q] = ask[q] /\ seen'[q] = seen[q]
                                   /\ judged'[q] = judged[q]
  BY DEF DeskTypeOK
<1>4. AsksFit' /\ VerdictsKept'
  <2>1. \A q \in Requests : Fitting(desk'[q], ask'[q], seen'[q])
    BY <1>3 DEF AsksFit
  <2>2. VerdictsKept'
    BY <1>3 DEF VerdictsKept, Seen, OrderRow, Terms
  <2> QED
    BY <2>1, <2>2 DEF AsksFit, Fitting
<1>5. \A q \in Requests \ {r} : /\ Saving(q)' <=> Saving(q)
                                /\ Claims(q)' <=> Claims(q)
  BY <1>3 DEF Saving, Holding, Inserted, Claims
<1>6. Saving(r)' => where \in {"account", "writing", "flushed"} /\ c.kind \in Gated
  BY <1>3 DEF Saving
<1>7. Claims(r)' => \/ Saving(r)'
                    \/ where = "flushed" /\ c.kind \in RowKinds
                    \/ where \in {"account", "writing", "flushed"} /\ c.kind = "adjust"
  BY <1>3 DEF Holding, Inserted, Claims
<1>8. RowsExclude'
  <2> SUFFICES ASSUME NEW p \in Requests, NEW q \in Requests, p # q, Claims(p)', Saving(q)'
               PROVE  ask'[p].of # ask'[q].of
    BY DEF RowsExclude
  <2>1. CASE p # r /\ q # r
    BY <1>3, <1>5, <2>1 DEF RowsExclude
  <2>2. CASE q = r
    BY <1>3, <1>5, <1>6, <2>2
  <2>3. CASE p = r
    <3>1. Saving(q) /\ (Saving(q) => Claims(q))
      BY <1>5, <2>3 DEF Claims, Holding
    <3> QED
      BY <1>3, <1>6, <1>7, <2>3, <3>1
  <2> QED
    BY <2>1, <2>2, <2>3
<1>9. LinesStandStill'
  <2> SUFFICES ASSUME NEW q \in Requests, Saving(q)'
               PROVE  Standing(seen'[q]) = Standing([order |-> order'[ask'[q].of], terms |-> terms'[ask'[q].of]])
    BY DEF LinesStandStill, Named, Standing
  <2>1. CASE q = r
    BY <1>1, <1>3, <1>6, <2>1 DEF Named
  <2>2. CASE q # r
    BY <1>1, <1>3, <1>5, <2>2 DEF LinesStandStill, Named
  <2> QED
    BY <2>1, <2>2
<1>10. OneHeir'
  BY <1>1 DEF OneHeir, Heirs
<1> QED
  BY <1>2, <1>4, <1>8, <1>9, <1>10

LEMMA RefuseInv ==
  ASSUME DeskInv, NEW r \in Requests, DeskRefuse(r)
  PROVE  DeskInv'
<1>1. Fitting("done", None, None)
  BY DEF Fitting, Active
<1> QED
  BY <1>1, QuietStep DEF DeskRefuse, DeskOver

\* The route that admits a call has read what the call relies on.
LEMMA BeginInv ==
  ASSUME DeskInv, NEW r \in Requests, NEW c \in DeskCalls, DeskBegin(r, c)
  PROVE  DeskInv'
<1> DEFINE s == IF c.of = None THEN None ELSE Named(c)
           where == FirstLock(c, IF c.of = None THEN [charged |-> FALSE] ELSE terms[c.of])
           v == judged[r]
<1>1. /\ desk' = [desk EXCEPT ![r] = where] /\ ask' = [ask EXCEPT ![r] = c]
      /\ seen' = [seen EXCEPT ![r] = s] /\ judged' = [judged EXCEPT ![r] = v]
      /\ UNCHANGED books /\ v \in Seen \cup {None}
  BY DEF DeskBegin, books, stockVars, DeskInv, DeskTypeOK
<1>2. c.kind # "create" => Admitted(c)
  BY DEF DeskBegin
<1>3. c.kind \in Gated \cup {"adjust"} => where = "row"
  BY DEF FirstLock
<1>4. c.kind \notin Gated \cup {"adjust"} => where \in {"account", "writing"}
  BY DEF FirstLock
<1>5. c.kind # "create" => c.of \in Orders /\ c.of # None
  BY DeskCallFacts
<1>6. c.kind # "create" =>
        /\ s \in Seen /\ s.order = order[c.of] /\ s.terms = terms[c.of]
  BY <1>5, NamedType DEF DeskInv
<1>7. c.kind = "create" => s = None
  BY DeskCallFacts
<1>8. /\ c.kind \in Gated => order[c.of].status = "draft"
      /\ c.kind = "status" => <<order[c.of].status, c.status>> \in Transitions
      /\ c.kind = "revise" => order[c.of].status = "confirmed"
  BY <1>2 DEF Admitted, Gated, LineKinds, AdjustKinds, Revisable
<1>9. Fitting(where, c, s)
  <2> HIDE DEF s, where
  <2>1. c.kind \in Gated \/ c.kind = "status" \/ c.kind = "revise" => c.kind # "create"
    BY DEF Gated, LineKinds
  <2> QED
    BY <1>3, <1>4, <1>5, <1>6, <1>8, <2>1 DEF Fitting
<1>10. where \in Active /\ where # "flushed" /\ s \in Seen \cup {None}
  BY <1>3, <1>4, <1>6, <1>7 DEF Active
<1> HIDE DEF s, where, v
<1> QED
  BY <1>1, <1>3, <1>4, <1>9, <1>10, QuietStep

\* The row is judged once more under its lock, and kept as it was found there.
LEMMA LockRowInv ==
  ASSUME DeskInv, NEW r \in Requests, LockRow(r)
  PROVE  DeskInv'
<1>1. CASE ~Fits(r)
  BY <1>1, RefuseInv DEF LockRow
<1>2. CASE Fits(r)
  <2> DEFINE c == ask[r]
             s == Named(c)
             v == judged[r]
             where == IF NeedsAccount(c, terms[c.of]) THEN "account" ELSE "writing"
  <2>1. /\ desk' = [desk EXCEPT ![r] = where] /\ seen' = [seen EXCEPT ![r] = s]
        /\ ask' = ask /\ judged' = judged /\ UNCHANGED books
        /\ RowFree(r, c.of) /\ Unreferred(c.of) /\ desk[r] = "row" /\ c.kind \in Gated
    BY <1>2 DEF LockRow
  <2>2. Fitting("row", c, seen[r])
    BY <2>1 DEF DeskInv, AsksFit
  <2>3. /\ c \in DeskCalls /\ c.of \in Orders /\ seen[r] \in Seen
        /\ seen[r].order.status = "draft"
    BY <2>1, <2>2 DEF Fitting, Active, Gated, LineKinds
  <2>4. s \in Seen /\ s.order = order[c.of]
    BY <2>3, NamedType DEF DeskInv
  <2>5. s.order.status = "draft"
    <3>1. CASE c.kind = "save"
      <4>1. Revision(seen[r]) = Revision(s)
        BY <1>2, <3>1 DEF Fits
      <4> HIDE DEF s
      <4> QED
        BY <2>3, <2>4, <4>1, StandingFacts
    <3>2. CASE c.kind # "save"
      BY <1>2, <2>4, <3>2 DEF Fits
    <3> QED
      BY <3>1, <3>2
  <2>6. ask' = [ask EXCEPT ![r] = c] /\ judged' = [judged EXCEPT ![r] = v] /\ v \in Seen \cup {None}
    BY <2>1 DEF DeskInv, DeskTypeOK
  <2>7. where \in {"account", "writing"}
    OBVIOUS
  <2>8. \A q \in Requests \ {r} : Claims(q) => ask[q].of # c.of
    BY <2>1 DEF RowFree, Unreferred, Referring, Claims
  <2>9. Standing(s) = Standing(Named(c))
    OBVIOUS
  <2> HIDE DEF s, where, v
  <2>10. Fitting(where, c, s) /\ c.kind # "adjust"
    BY <2>1, <2>3, <2>4, <2>5, <2>7 DEF Fitting, Gated, LineKinds
  <2> HIDE DEF c
  <2>11. where \in Active /\ where # "flushed"
    BY <2>7 DEF Active
  <2> QED
    BY <2>1, <2>3, <2>4, <2>6, <2>8, <2>9, <2>10, <2>11, QuietStep
<1> QED
  BY <1>1, <1>2

\* Whoever inserts an adjustment finds nobody at the order's lines.
LEMMA LockKeyInv ==
  ASSUME DeskInv, NEW r \in Requests, LockKey(r)
  PROVE  DeskInv'
<1> DEFINE c == ask[r]
           s == seen[r]
           v == judged[r]
           where == IF Judged(r) THEN "account" ELSE "writing"
<1>1. /\ desk[r] = "row" /\ c.kind = "adjust" /\ Unlined(r)
      /\ desk' = [desk EXCEPT ![r] = where] /\ UNCHANGED books
      /\ ask' = [ask EXCEPT ![r] = c] /\ seen' = [seen EXCEPT ![r] = s]
      /\ judged' = [judged EXCEPT ![r] = v]
      /\ s \in Seen \cup {None} /\ v \in Seen \cup {None}
  BY DEF LockKey, books, stockVars, DeskInv, DeskTypeOK
<1>2. Fitting("row", c, s)
  BY <1>1 DEF DeskInv, AsksFit
<1>3. where \in Active /\ where \in {"account", "writing"} /\ where # "flushed"
  BY DEF Active
<1>4. Fitting(where, c, s) /\ c \in DeskCalls /\ c.kind \notin Gated
  BY <1>1, <1>2, <1>3 DEF Fitting, Active, Gated, LineKinds
<1>5. \A q \in Requests \ {r} : Saving(q) => ask[q].of # c.of
  BY <1>1 DEF Unlined
<1> HIDE DEF c, s, v, where
<1> QED
  BY <1>1, <1>3, <1>4, <1>5, QuietStep

\* The request goes on with what it has read: it gets the account, or has
\* written and waits for its commit.
Onward(r, where) ==
  /\ desk[r] \in {"account", "writing"} /\ where \in {"writing", "flushed"}
  /\ desk' = [desk EXCEPT ![r] = where]
  /\ where = "flushed" /\ ask[r].kind \in RowKinds => RowFree(r, ask[r].of)
  /\ \E v \in Seen \cup {None} : /\ judged' = [judged EXCEPT ![r] = v]
                                 /\ where = "flushed" => v \in Seen
  /\ UNCHANGED <<ask, seen, books>>

LEMMA OnwardInv ==
  ASSUME DeskInv, NEW r \in Requests, NEW where, Onward(r, where)
  PROVE  DeskInv'
<1> DEFINE c == ask[r]
           s == seen[r]
<1>1. Fitting(desk[r], c, s) /\ desk[r] \in Active /\ where \in Active /\ where # "row"
  BY DEF DeskInv, AsksFit, Onward, Active
<1>2. Fitting(where, c, s)
  BY <1>1 DEF Fitting
<1>3. c \in DeskCalls /\ s \in Seen \cup {None}
  BY <1>1 DEF DeskInv, DeskTypeOK, Fitting
<1>4. ask' = [ask EXCEPT ![r] = c] /\ seen' = [seen EXCEPT ![r] = s]
  BY DEF Onward, DeskInv, DeskTypeOK
<1>5. PICK v \in Seen \cup {None} : /\ judged' = [judged EXCEPT ![r] = v]
                                    /\ where = "flushed" => v \in Seen
  BY DEF Onward
<1>6. ASSUME c.kind \in Gated
      PROVE  /\ c.of \in Orders /\ Standing(s) = Standing(Named(c))
             /\ \A q \in Requests \ {r} : Claims(q) => ask[q].of # c.of
  <2>1. Saving(r)
    BY <1>6 DEF Onward, Saving
  <2>2. c.of \in Orders
    BY <1>1, <1>6 DEF Fitting, Gated, LineKinds
  <2> QED
    BY <2>1, <2>2 DEF DeskInv, LinesStandStill, RowsExclude
<1>7. ASSUME where = "flushed", c.kind \in RowKinds
      PROVE  \A q \in Requests \ {r} : Saving(q) => ask[q].of # c.of
  BY <1>7 DEF Onward, RowFree, Holding
<1>8. ASSUME c.kind = "adjust"
      PROVE  \A q \in Requests \ {r} : Saving(q) => ask[q].of # c.of
  <2>1. Claims(r)
    BY <1>8 DEF Onward, Claims, Inserted
  <2> QED
    BY <2>1 DEF DeskInv, RowsExclude
<1>9. UNCHANGED books /\ desk' = [desk EXCEPT ![r] = where]
  BY DEF Onward
<1> HIDE DEF c, s
<1> QED
  BY <1>1, <1>2, <1>3, <1>4, <1>5, <1>6, <1>7, <1>8, <1>9, QuietStep

-----------------------------------------------------------------------------
(* Steps that write an order                                                *)

\* What a commit may do to the orders: the row and the terms it names, and one
\* order that nobody has named yet.
Apart == {"create", "bill", "unbill", "readjust", "unadjust"}
Spared(r, x) == order[x].status # "none" /\ (x # ask[r].of \/ ask[r].kind \in Apart)

\* ... and to the revisions: the source is cancelled, and its replacement is an
\* order that was nobody's.
Replaced(r, n) ==
  /\ supersedes' = [supersedes EXCEPT ![n] = ask[r].of]
  /\ ask[r].of \in Orders
  /\ ask[r].of \notin overtaken' =>
       order[ask[r].of].status = "confirmed" /\ order'[ask[r].of].status = "cancelled"

Written(r) ==
  /\ desk[r] \in {"writing", "flushed"}
  /\ desk[r] = "writing" /\ ask[r].kind \in RowKinds \cup {"bill"} => RowFree(r, ask[r].of)
  /\ DeskOver(r)
  /\ order' \in [Orders -> OrderRow] /\ terms' \in [Orders -> Terms]
  /\ strained' \subseteq Orders /\ overtaken \subseteq overtaken' /\ overtaken' \subseteq Orders
  /\ \A x \in Orders : Spared(r, x) => order'[x] = order[x] /\ SameTerms(terms'[x], terms[x])
  /\ \A x \in Orders \ overtaken' :
       order[x].status = "cancelled" => order'[x].status = "cancelled"
  /\ supersedes' = supersedes \/ \E n \in Orders : Replaced(r, n)

\* A source that was cancelled has no second heir, and one that was not has none.
LEMMA WrittenHeirs ==
  ASSUME DeskInv, NEW r \in Requests, Written(r)
  PROVE  OneHeir'
<1> SUFFICES ASSUME NEW x \in Orders \ overtaken'
             PROVE  /\ \A a, b \in Heirs(x)' : a = b
                    /\ Heirs(x)' # {} => order'[x].status = "cancelled"
  BY DEF OneHeir
<1>1. /\ \A a, b \in Heirs(x) : a = b
      /\ Heirs(x) # {} => order[x].status = "cancelled"
      /\ order[x].status = "cancelled" => order'[x].status = "cancelled"
  BY DEF Written, DeskInv, OneHeir
<1>2. CASE supersedes' = supersedes
  <2>1. Heirs(x)' = Heirs(x)
    BY <1>2 DEF Heirs
  <2> QED
    BY <1>1, <2>1
<1>3. ASSUME NEW n \in Orders, Replaced(r, n)
      PROVE  /\ \A a, b \in Heirs(x)' : a = b
             /\ Heirs(x)' # {} => order'[x].status = "cancelled"
  <2> DEFINE o == ask[r].of
  <2>1. \A m \in Orders : supersedes'[m] = IF m = n THEN o ELSE supersedes[m]
    BY <1>3 DEF Replaced, DeskInv, DeskTypeOK
  <2>2. CASE x = o
    <3>1. order[x].status = "confirmed" /\ order'[x].status = "cancelled"
      BY <1>3, <2>2 DEF Replaced
    <3>2. Heirs(x) = {}
      BY <1>1, <3>1
    <3>3. Heirs(x)' \subseteq {n}
      BY <2>1, <3>2 DEF Heirs
    <3> QED
      BY <3>1, <3>3
  <2>3. CASE x # o
    <3>1. Heirs(x)' \subseteq Heirs(x)
      BY <2>1, <2>3 DEF Heirs
    <3> QED
      BY <1>1, <3>1
  <2> QED
    BY <2>2, <2>3
<1> QED
  BY <1>2, <1>3 DEF Written

\* Whoever writes an order's row, its lines or one more adjustment shares it with
\* no writer of lines.
LEMMA Excluded ==
  ASSUME DeskInv, NEW r \in Requests, Written(r), NEW q \in Requests \ {r}, Saving(q),
         ask[r].of = ask[q].of
  PROVE  ask[r].kind \in Apart
<1>1. ask[r] \in DeskCalls
  BY DEF DeskInv, AsksFit, Fitting, Active, Written
<1>2. ask[r].kind \in RowKinds \cup LineKinds \cup AdjustKinds \cup {"bill", "unbill", "create"}
  BY <1>1, DeskCallFacts
<1>3. CASE ask[r].kind \in Gated \cup {"adjust"}
  <2>1. Claims(r)
    BY <1>3 DEF Written, Saving, Holding, Inserted, Claims
  <2> QED
    BY <2>1 DEF DeskInv, RowsExclude
<1>4. CASE ask[r].kind \in RowKinds
  <2>1. CASE desk[r] = "flushed"
    BY <1>4, <2>1 DEF Holding, Claims, DeskInv, RowsExclude
  <2>2. CASE desk[r] = "writing"
    BY <1>4, <2>2 DEF Written, RowFree, Holding
  <2> QED
    BY <2>1, <2>2 DEF Written
<1> QED
  BY <1>2, <1>3, <1>4 DEF Gated, LineKinds, AdjustKinds, Apart

LEMMA WrittenInv ==
  ASSUME DeskInv, NEW r \in Requests, Written(r)
  PROVE  DeskInv'
<1> USE DEF DeskInv
<1>1. /\ desk'[r] = "done" /\ ask'[r] = None /\ seen'[r] = None
      /\ \A q \in Requests \ {r} : /\ desk'[q] = desk[q] /\ ask'[q] = ask[q] /\ seen'[q] = seen[q]
                                   /\ judged'[q] = judged[q]
  BY DEF Written, DeskOver, DeskTypeOK
<1>2. DeskTypeOK'
  <2>1. supersedes' \in [Orders -> Orders \cup {None}]
    BY DEF Written, Replaced, DeskTypeOK
  <2> QED
    BY <2>1 DEF Written, DeskOver, DeskTypeOK
<1>3. AsksFit' /\ VerdictsKept'
  <2>1. Fitting("done", None, None)
    BY DEF Fitting, Active
  <2>2. \A q \in Requests : Fitting(desk'[q], ask'[q], seen'[q])
    BY <1>1, <2>1 DEF AsksFit
  <2>3. VerdictsKept'
    BY <1>1 DEF VerdictsKept, Seen, OrderRow, Terms
  <2> QED
    BY <2>2, <2>3 DEF AsksFit, Fitting
<1>4. /\ ~Saving(r)' /\ ~Claims(r)'
      /\ \A q \in Requests \ {r} : (Saving(q)' <=> Saving(q)) /\ (Claims(q)' <=> Claims(q))
  BY <1>1 DEF Saving, Holding, Inserted, Claims
<1>5. RowsExclude'
  <2> SUFFICES ASSUME NEW p \in Requests, NEW q \in Requests, p # q, Claims(p)', Saving(q)'
               PROVE  ask'[p].of # ask'[q].of
    BY DEF RowsExclude
  <2>1. p # r /\ q # r
    BY <1>4
  <2> QED
    BY <1>1, <1>4, <2>1 DEF RowsExclude
<1>6. LinesStandStill'
  <2> SUFFICES ASSUME NEW q \in Requests \ {r}, Saving(q)
               PROVE  Standing(seen'[q]) = Standing(Named(ask[q])')
    BY <1>1, <1>4 DEF LinesStandStill, Named, Standing
  <2> DEFINE o == ask[q].of
  <2>1. /\ ask[q].kind \in Gated /\ o \in Orders /\ seen[q] \in Seen
        /\ seen[q].order.status = "draft"
    <3>1. Fitting(desk[q], ask[q], seen[q]) /\ desk[q] \in Active /\ ask[q].kind \in Gated
      BY DEF AsksFit, Saving, Active
    <3> QED
      BY <3>1 DEF Fitting, Gated, LineKinds
  <2>2. /\ Named(ask[q]) \in Seen /\ Named(ask[q]).order = order[o]
        /\ Named(ask[q]).terms = terms[o]
    BY <2>1, NamedType
  <2>3. seen[q].order = order[o] /\ SameTerms(seen[q].terms, terms[o])
    BY <2>1, <2>2, StandingFacts DEF LinesStandStill
  <2>4. Spared(r, o)
    BY <2>1, <2>3, Excluded DEF Spared
  <2>5. order'[o] = order[o] /\ SameTerms(terms'[o], terms[o])
    BY <2>1, <2>4 DEF Written
  <2>6. Named(ask[q])' \in Seen /\ Named(ask[q])'.order = order'[o] /\ Named(ask[q])'.terms = terms'[o]
    BY <1>1, <1>2, <2>1 DEF Named, DeskTypeOK, Seen
  <2>7. seen'[q].order = Named(ask[q])'.order /\ SameTerms(seen'[q].terms, Named(ask[q])'.terms)
    BY <1>1, <2>3, <2>5, <2>6 DEF SameTerms
  <2>8. seen'[q] \in Seen
    BY <1>1, <2>1
  <2> QED
    BY <2>6, <2>7, <2>8, StandingFacts
<1>7. OneHeir'
  BY WrittenHeirs
<1> QED
  BY <1>2, <1>3, <1>5, <1>6, <1>7

\* A request that writes is refused by the verdict, or waits for its commit, or
\* commits.
LEMMA LandCases ==
  ASSUME NEW r \in Requests, NEW kind, Writing(r, kind), NEW o, NEW rows, NEW bills, NEW view,
         Land(r, o, rows, bills, view), Base(r, o) \in Seen
  PROVE  \/ DeskRefuse(r)
         \/ Onward(r, "flushed") /\ order' = order
         \/ Commits(r, o, rows, bills)
<1>1. CASE desk[r] = "writing" /\ Judged(r)
  <2>1. CASE Exposure(rows, view) > Line
    BY <1>1, <2>1 DEF Land, Judge
  <2>2. CASE ~(Exposure(rows, view) > Line)
    <3>1. /\ desk' = [desk EXCEPT ![r] = "flushed"] /\ judged' = [judged EXCEPT ![r] = Base(r, o)]
          /\ UNCHANGED <<ask, seen, books>>
      BY <1>1, <2>2 DEF Land, Judge
    <3>2. ask[r].kind \in RowKinds => RowFree(r, ask[r].of)
      BY <1>1 DEF Writing
    <3> QED
      BY <1>1, <3>1, <3>2 DEF Onward, books
  <2> QED
    BY <2>1, <2>2
<1>2. CASE ~(desk[r] = "writing" /\ Judged(r))
  BY <1>2 DEF Land
<1> QED
  BY <1>1, <1>2

\* What a commit leaves of the request and of the two sets that remember it.
LEMMA CommitsFacts ==
  ASSUME DeskInv, NEW r \in Requests, NEW o \in Orders, NEW rows, NEW bills,
         Commits(r, o, rows, bills)
  PROVE  /\ order' = rows /\ terms' = bills /\ DeskOver(r)
         /\ strained' \subseteq Orders /\ overtaken \subseteq overtaken' /\ overtaken' \subseteq Orders
         /\ ask[r].kind \in RowKinds /\ o \notin overtaken' => seen[r].order = order[o]
<1>1. /\ order' = rows /\ terms' = bills /\ DeskOver(r)
      /\ strained' \in {strained, strained \cup {o}}
      /\ overtaken' \in {overtaken, overtaken \cup {o}}
      /\ ask[r].kind \in RowKinds /\ o \notin overtaken' => seen[r].order = order[o]
  BY DEF Commits
<1> QED
  BY <1>1 DEF DeskInv, DeskTypeOK

\* What a writing request may rely on.
LEMMA WritingFacts ==
  ASSUME DeskInv, NEW r \in Requests, NEW kind, Writing(r, kind)
  PROVE  /\ desk[r] \in {"writing", "flushed"} /\ ask[r].kind = kind /\ ask[r] \in DeskCalls
         /\ kind # "create" => /\ ask[r].of \in Orders /\ seen[r] \in Seen
                               /\ order[ask[r].of] \in OrderRow /\ terms[ask[r].of] \in Terms
                               /\ Base(r, ask[r].of) \in Seen
                               /\ Base(r, ask[r].of).terms \in Terms
         /\ kind = "status" => <<seen[r].order.status, ask[r].status>> \in Transitions
         /\ kind = "revise" => seen[r].order.status = "confirmed"
         /\ desk[r] = "writing" /\ ask[r].kind \in RowKinds \cup {"bill"} => RowFree(r, ask[r].of)
<1>1. Fitting(desk[r], ask[r], seen[r]) /\ desk[r] \in Active /\ ask[r].kind = kind
  BY DEF DeskInv, AsksFit, Writing, Active
<1>2. desk[r] = "writing" /\ ask[r].kind \in RowKinds \cup {"bill"} => RowFree(r, ask[r].of)
  BY DEF Writing
<1>3. kind # "create" => ask[r].of \in Orders /\ seen[r] \in Seen
  BY <1>1 DEF Fitting
<1>4. kind # "create" => Base(r, ask[r].of) \in Seen /\ Base(r, ask[r].of).terms \in Terms
  BY <1>3, BaseFacts DEF DeskInv
<1> QED
  BY <1>1, <1>2, <1>3, <1>4 DEF Fitting, Writing, DeskInv, DeskTypeOK

-----------------------------------------------------------------------------
(* What one commit makes of the order it names                              *)

RowAfter(c, row) ==
  [live   |-> IF c.kind \in {"delete", "restore"} THEN c.kind = "restore" ELSE row.live,
   status |-> IF c.kind = "status" THEN c.status
              ELSE IF c.kind = "revise" THEN "cancelled" ELSE row.status]

TermsAfter(c, s, t) ==
  [charged  |-> IF c.kind \in {"charge", "clear"}
                THEN Column(s.terms.charged, c.kind = "charge", t.charged)
                ELSE IF c.kind = "revise" THEN Released(s.terms, t.charged) ELSE t.charged,
   header   |-> IF c.kind = "restate" THEN Column(s.terms.header, c.amount, t.header) ELSE t.header,
   lines    |-> IF c.kind \in {"save", "line"} \/ (c.kind = "remove" /\ ~(t.lines < c.amount))
                THEN c.amount ELSE t.lines,
   adjusted |-> IF c.kind \in {"save", "readjust"} THEN Restated(s.terms.adjusted, c.adjust, t.adjusted)
                ELSE IF c.kind = "unadjust" THEN 0 ELSE t.adjusted,
   added    |-> IF c.kind = "save" /\ c.adjust = 0 THEN 0
                ELSE IF c.kind = "adjust" THEN t.added + c.adjust ELSE t.added,
   billed   |-> IF c.kind \in {"bill", "unbill"} THEN Billing(c.kind, c.amount, t.billed) ELSE t.billed]

LEMMA AfterTyped ==
  ASSUME NEW c, c.status \in Statuses, c.amount \in Nat, c.adjust \in Int, NEW s \in Seen,
         NEW row \in OrderRow, NEW t \in Terms
  PROVE  RowAfter(c, row) \in OrderRow /\ TermsAfter(c, s, t) \in Terms
<1>1. RowAfter(c, row) \in OrderRow
  <2>1. row.live \in BOOLEAN /\ row.status \in Statuses /\ (c.kind = "restore") \in BOOLEAN
    BY DEF OrderRow
  <2>2. RowAfter(c, row).live \in BOOLEAN
    BY <2>1 DEF RowAfter
  <2>3. RowAfter(c, row).status \in Statuses
    BY <2>1 DEF RowAfter, Statuses
  <2> QED
    BY <2>2, <2>3 DEF RowAfter, OrderRow
<1>2. TermsAfter(c, s, t) \in Terms
  <2>1. /\ t.header \in Nat \cup {None} /\ t.charged \in BOOLEAN /\ t.billed \in Nat /\ t.lines \in Nat
        /\ t.adjusted \in Int /\ t.added \in Int
    BY DEF Terms
  <2>2. TermsAfter(c, s, t).charged \in BOOLEAN
    BY <2>1 DEF TermsAfter, Column, Released
  <2>3. TermsAfter(c, s, t).header \in Nat \cup {None}
    BY <2>1 DEF TermsAfter, Column
  <2>4. TermsAfter(c, s, t).lines \in Nat
    BY <2>1 DEF TermsAfter
  <2>5. TermsAfter(c, s, t).adjusted \in Int
    BY <2>1 DEF TermsAfter, Restated, Column
  <2>6. TermsAfter(c, s, t).added \in Int
    BY <2>1 DEF TermsAfter
  <2>7. TermsAfter(c, s, t).billed \in Nat
    BY <2>1 DEF TermsAfter, Billing
  <2> QED
    BY <2>2, <2>3, <2>4, <2>5, <2>6, <2>7 DEF TermsAfter, Terms
<1> QED
  BY <1>1, <1>2

\* A request that files no order writes the one it names, as it is and as its
\* session believes it.
Amends(r) ==
  LET o == ask[r].of
  IN  /\ Writing(r, ask[r].kind) /\ ask[r].kind \notin Filing
      /\ Land(r, o, [order EXCEPT ![o] = RowAfter(ask[r], order[o])],
              [terms EXCEPT ![o] = TermsAfter(ask[r], seen[r], terms[o])],
              [terms EXCEPT ![o] = TermsAfter(ask[r], seen[r], Base(r, o).terms)])
      /\ UNCHANGED supersedes

\* What such a request finds.
LEMMA AmendFacts ==
  ASSUME DeskInv, NEW r \in Requests, NEW kind, Writing(r, kind), kind \notin Filing
  PROVE  /\ ask[r].kind = kind /\ ask[r].of \in Orders
         /\ terms[ask[r].of] \in Terms /\ Base(r, ask[r].of).terms \in Terms
         /\ order = [order EXCEPT ![ask[r].of] = order[ask[r].of]]
         /\ terms = [terms EXCEPT ![ask[r].of] = terms[ask[r].of]]
         /\ order[ask[r].of] = [live |-> order[ask[r].of].live, status |-> order[ask[r].of].status]
<1> DEFINE o == ask[r].of
<1>1. kind # "create"
  BY DEF Filing
<1>2. /\ ask[r].kind = kind /\ o \in Orders /\ order[o] \in OrderRow
      /\ terms[o] \in Terms /\ Base(r, o).terms \in Terms
  BY <1>1, WritingFacts
<1> HIDE DEF o
<1>3. order = [order EXCEPT ![o] = order[o]] /\ terms = [terms EXCEPT ![o] = terms[o]]
  BY <1>2 DEF DeskInv, DeskTypeOK
<1>4. order[o] = [live |-> order[o].live, status |-> order[o].status]
  BY <1>2, Rewritten
<1> QED
  BY <1>2, <1>3, <1>4 DEF o

LEMMA AmendsOnce ==
  ASSUME NEW r \in Requests, NEW kind, Writing(r, kind), kind \notin Filing, NEW o, o = ask[r].of,
         NEW x, x = RowAfter(ask[r], order[o]),
         NEW t, t = TermsAfter(ask[r], seen[r], terms[o]),
         NEW u, u = TermsAfter(ask[r], seen[r], Base(r, o).terms),
         Land(r, o, [order EXCEPT ![o] = x], [terms EXCEPT ![o] = t], [terms EXCEPT ![o] = u]),
         UNCHANGED supersedes
  PROVE  Amends(r)
BY DEF Amends, Writing

LEMMA RestateAmends ==
  ASSUME DeskInv, NEW r \in Requests, CommitRestate(r)
  PROVE  Amends(r)
<1> DEFINE o == ask[r].of
           Change(t) == [t EXCEPT !.header = Column(seen[r].terms.header, ask[r].amount, @)]
           x == order[o]
           t == Change(terms[o])
           u == Change(Base(r, o).terms)
<1>1. Writing(r, "restate") /\ "restate" \notin Filing /\ UNCHANGED supersedes
  BY DEF CommitRestate, Filing
<1>2. Land(r, o, order, [terms EXCEPT ![o] = t], [terms EXCEPT ![o] = u])
  BY DEF CommitRestate, Amend
<1>3. /\ ask[r].kind = "restate" /\ terms[o] \in Terms /\ Base(r, o).terms \in Terms
      /\ order = [order EXCEPT ![o] = x] /\ x = [live |-> x.live, status |-> x.status]
  <2> HIDE DEF Change
  <2> QED
    BY <1>1, AmendFacts
<1>4. \A v \in Terms : Change(v) = TermsAfter(ask[r], seen[r], v)
  BY <1>3, Rewritten DEF TermsAfter
<1> HIDE DEF Change
<1>5. t = TermsAfter(ask[r], seen[r], terms[o]) /\ u = TermsAfter(ask[r], seen[r], Base(r, o).terms)
  BY <1>3, <1>4
<1> HIDE DEF t, u
<1>6. Land(r, o, [order EXCEPT ![o] = x], [terms EXCEPT ![o] = t], [terms EXCEPT ![o] = u])
  BY <1>2, <1>3
<1>7. o = ask[r].of /\ x = RowAfter(ask[r], order[o])
  BY <1>3 DEF RowAfter
<1> HIDE DEF o, x
<1> QED
  BY <1>1, <1>5, <1>6, <1>7, AmendsOnce

LEMMA SaveAmends ==
  ASSUME DeskInv, NEW r \in Requests, CommitSave(r)
  PROVE  Amends(r)
<1> DEFINE o == ask[r].of
           Change(t) == [t EXCEPT
                          !.lines = ask[r].amount,
                          !.adjusted = Restated(seen[r].terms.adjusted, ask[r].adjust, @),
                          !.added = IF ask[r].adjust = 0 THEN 0 ELSE @]
           x == order[o]
           t == Change(terms[o])
           u == Change(Base(r, o).terms)
<1>1. Writing(r, "save") /\ "save" \notin Filing /\ UNCHANGED supersedes
  BY DEF CommitSave, Filing
<1>2. Land(r, o, order, [terms EXCEPT ![o] = t], [terms EXCEPT ![o] = u])
  BY DEF CommitSave, Amend
<1>3. /\ ask[r].kind = "save" /\ terms[o] \in Terms /\ Base(r, o).terms \in Terms
      /\ order = [order EXCEPT ![o] = x] /\ x = [live |-> x.live, status |-> x.status]
  <2> HIDE DEF Change
  <2> QED
    BY <1>1, AmendFacts
<1>4. ASSUME NEW v \in Terms
      PROVE  Change(v) = TermsAfter(ask[r], seen[r], v)
  <2> DEFINE l == ask[r].amount
             a == Restated(seen[r].terms.adjusted, ask[r].adjust, v.adjusted)
             d == IF ask[r].adjust = 0 THEN 0 ELSE v.added
  <2>1. Change(v) = [v EXCEPT !.lines = l, !.adjusted = a, !.added = d]
    OBVIOUS
  <2> HIDE DEF Change
  <2>2. l \in Nat /\ ask[r].adjust \in Int
    <3>1. ask[r] \in DeskCalls
      BY <1>1, WritingFacts
    <3> QED
      BY <3>1, DeskCallFacts
  <2>3. a \in Int /\ d \in Int
    BY <2>2 DEF Restated, Column, Terms
  <2> HIDE DEF l, a, d
  <2> DEFINE b == [v EXCEPT !.lines = l]
             e == [b EXCEPT !.adjusted = a]
  <2>4. b = [charged |-> v.charged, header |-> v.header, lines |-> l,
             adjusted |-> v.adjusted, added |-> v.added, billed |-> v.billed]
    BY Rewritten
  <2>5. [v EXCEPT !.lines = l, !.adjusted = a, !.added = d] = [e EXCEPT !.added = d]
    OBVIOUS
  <2> HIDE DEF b
  <2>6. e = [charged |-> v.charged, header |-> v.header, lines |-> l,
             adjusted |-> a, added |-> v.added, billed |-> v.billed]
    BY <2>4
  <2> HIDE DEF e
  <2>7. [e EXCEPT !.added = d]
          = [charged |-> v.charged, header |-> v.header, lines |-> l,
             adjusted |-> a, added |-> d, billed |-> v.billed]
    BY <2>6
  <2> QED
    BY <1>3, <2>1, <2>5, <2>7 DEF TermsAfter, l, a, d
<1> HIDE DEF Change
<1>5. t = TermsAfter(ask[r], seen[r], terms[o]) /\ u = TermsAfter(ask[r], seen[r], Base(r, o).terms)
  BY <1>3, <1>4
<1> HIDE DEF t, u
<1>6. Land(r, o, [order EXCEPT ![o] = x], [terms EXCEPT ![o] = t], [terms EXCEPT ![o] = u])
  BY <1>2, <1>3
<1>7. o = ask[r].of /\ x = RowAfter(ask[r], order[o])
  BY <1>3 DEF RowAfter
<1> HIDE DEF o, x
<1> QED
  BY <1>1, <1>5, <1>6, <1>7, AmendsOnce

LEMMA LinesAmends ==
  ASSUME DeskInv, NEW r \in Requests, CommitLines(r)
  PROVE  Amends(r)
<1> DEFINE o == ask[r].of
           Change(t) == [t EXCEPT !.lines = IF ask[r].kind = "remove" /\ @ < ask[r].amount
                                         THEN @ ELSE ask[r].amount]
           x == order[o]
           t == Change(terms[o])
           u == Change(Base(r, o).terms)
<1>1. PICK kind \in LineKinds : Writing(r, kind) /\ kind \notin Filing /\ UNCHANGED supersedes
  BY DEF CommitLines, Filing, LineKinds
<1>2. Land(r, o, order, [terms EXCEPT ![o] = t], [terms EXCEPT ![o] = u])
  BY DEF CommitLines, Amend
<1>3. /\ ask[r].kind = kind /\ terms[o] \in Terms /\ Base(r, o).terms \in Terms
      /\ order = [order EXCEPT ![o] = x] /\ x = [live |-> x.live, status |-> x.status]
  <2> HIDE DEF Change
  <2> QED
    BY <1>1, AmendFacts
<1>4. \A v \in Terms : Change(v) = TermsAfter(ask[r], seen[r], v)
  BY <1>1, <1>3, Rewritten DEF TermsAfter, LineKinds
<1> HIDE DEF Change
<1>5. t = TermsAfter(ask[r], seen[r], terms[o]) /\ u = TermsAfter(ask[r], seen[r], Base(r, o).terms)
  BY <1>3, <1>4
<1> HIDE DEF t, u
<1>6. Land(r, o, [order EXCEPT ![o] = x], [terms EXCEPT ![o] = t], [terms EXCEPT ![o] = u])
  BY <1>2, <1>3
<1>7. o = ask[r].of /\ x = RowAfter(ask[r], order[o])
  BY <1>1, <1>3 DEF RowAfter, LineKinds
<1> HIDE DEF o, x
<1> QED
  BY <1>1, <1>5, <1>6, <1>7, AmendsOnce

LEMMA AdjustAmends ==
  ASSUME DeskInv, NEW r \in Requests, CommitAdjust(r)
  PROVE  Amends(r)
<1> DEFINE o == ask[r].of
           Change(t) ==
             CASE ask[r].kind = "adjust" -> [t EXCEPT !.added = @ + ask[r].adjust]
               [] ask[r].kind = "readjust" ->
                    [t EXCEPT !.adjusted = Restated(seen[r].terms.adjusted, ask[r].adjust, @)]
               [] ask[r].kind = "unadjust" -> [t EXCEPT !.adjusted = 0]
           x == order[o]
           t == Change(terms[o])
           u == Change(Base(r, o).terms)
<1>1. PICK kind \in AdjustKinds : Writing(r, kind) /\ kind \notin Filing /\ UNCHANGED supersedes
  BY DEF CommitAdjust, Filing, AdjustKinds
<1>2. Land(r, o, order, [terms EXCEPT ![o] = t], [terms EXCEPT ![o] = u])
  BY DEF CommitAdjust, Amend
<1>3. /\ ask[r].kind = kind /\ terms[o] \in Terms /\ Base(r, o).terms \in Terms
      /\ order = [order EXCEPT ![o] = x] /\ x = [live |-> x.live, status |-> x.status]
  <2> HIDE DEF Change
  <2> QED
    BY <1>1, AmendFacts
<1>4. ASSUME NEW v \in Terms
      PROVE  Change(v) = TermsAfter(ask[r], seen[r], v)
  <2>1. CASE kind = "adjust"
    BY <1>3, <2>1, Rewritten DEF TermsAfter
  <2>2. CASE kind = "readjust"
    BY <1>3, <2>2, Rewritten DEF TermsAfter
  <2>3. CASE kind = "unadjust"
    BY <1>3, <2>3, Rewritten DEF TermsAfter
  <2> QED
    BY <1>1, <2>1, <2>2, <2>3 DEF AdjustKinds
<1> HIDE DEF Change
<1>5. t = TermsAfter(ask[r], seen[r], terms[o]) /\ u = TermsAfter(ask[r], seen[r], Base(r, o).terms)
  BY <1>3, <1>4
<1> HIDE DEF t, u
<1>6. Land(r, o, [order EXCEPT ![o] = x], [terms EXCEPT ![o] = t], [terms EXCEPT ![o] = u])
  BY <1>2, <1>3
<1>7. o = ask[r].of /\ x = RowAfter(ask[r], order[o])
  BY <1>1, <1>3 DEF RowAfter, AdjustKinds
<1> HIDE DEF o, x
<1> QED
  BY <1>1, <1>5, <1>6, <1>7, AmendsOnce

LEMMA ChargeAmends ==
  ASSUME DeskInv, NEW r \in Requests, CommitCharge(r)
  PROVE  Amends(r)
<1> DEFINE o == ask[r].of
           Change(t) == [t EXCEPT !.charged = Column(seen[r].terms.charged, ask[r].kind = "charge", @)]
           x == order[o]
           t == Change(terms[o])
           u == Change(Base(r, o).terms)
<1>1. PICK kind \in {"charge", "clear"} : Writing(r, kind) /\ kind \notin Filing /\ UNCHANGED supersedes
  BY DEF CommitCharge, Filing
<1>2. Land(r, o, order, [terms EXCEPT ![o] = t], [terms EXCEPT ![o] = u])
  BY DEF CommitCharge, Amend
<1>3. /\ ask[r].kind = kind /\ terms[o] \in Terms /\ Base(r, o).terms \in Terms
      /\ order = [order EXCEPT ![o] = x] /\ x = [live |-> x.live, status |-> x.status]
  <2> HIDE DEF Change
  <2> QED
    BY <1>1, AmendFacts
<1>4. \A v \in Terms : Change(v) = TermsAfter(ask[r], seen[r], v)
  BY <1>1, <1>3, Rewritten DEF TermsAfter
<1> HIDE DEF Change
<1>5. t = TermsAfter(ask[r], seen[r], terms[o]) /\ u = TermsAfter(ask[r], seen[r], Base(r, o).terms)
  BY <1>3, <1>4
<1> HIDE DEF t, u
<1>6. Land(r, o, [order EXCEPT ![o] = x], [terms EXCEPT ![o] = t], [terms EXCEPT ![o] = u])
  BY <1>2, <1>3
<1>7. o = ask[r].of /\ x = RowAfter(ask[r], order[o])
  BY <1>1, <1>3 DEF RowAfter
<1> HIDE DEF o, x
<1> QED
  BY <1>1, <1>5, <1>6, <1>7, AmendsOnce

LEMMA BillAmends ==
  ASSUME DeskInv, NEW r \in Requests, CommitBill(r)
  PROVE  Amends(r)
<1> DEFINE o == ask[r].of
           Change(t) == [t EXCEPT !.billed = Billing(ask[r].kind, ask[r].amount, @)]
           x == order[o]
           t == Change(terms[o])
           u == Change(Base(r, o).terms)
<1>1. PICK kind \in {"bill", "unbill"} : Writing(r, kind) /\ kind \notin Filing /\ UNCHANGED supersedes
  BY DEF CommitBill, Filing
<1>2. Land(r, o, order, [terms EXCEPT ![o] = t], [terms EXCEPT ![o] = u])
  BY DEF CommitBill, Amend
<1>3. /\ ask[r].kind = kind /\ terms[o] \in Terms /\ Base(r, o).terms \in Terms
      /\ order = [order EXCEPT ![o] = x] /\ x = [live |-> x.live, status |-> x.status]
  <2> HIDE DEF Change
  <2> QED
    BY <1>1, AmendFacts
<1>4. \A v \in Terms : Change(v) = TermsAfter(ask[r], seen[r], v)
  BY <1>1, <1>3, Rewritten DEF TermsAfter
<1> HIDE DEF Change
<1>5. t = TermsAfter(ask[r], seen[r], terms[o]) /\ u = TermsAfter(ask[r], seen[r], Base(r, o).terms)
  BY <1>3, <1>4
<1> HIDE DEF t, u
<1>6. Land(r, o, [order EXCEPT ![o] = x], [terms EXCEPT ![o] = t], [terms EXCEPT ![o] = u])
  BY <1>2, <1>3
<1>7. o = ask[r].of /\ x = RowAfter(ask[r], order[o])
  BY <1>1, <1>3 DEF RowAfter
<1> HIDE DEF o, x
<1> QED
  BY <1>1, <1>5, <1>6, <1>7, AmendsOnce

LEMMA StatusAmends ==
  ASSUME DeskInv, NEW r \in Requests, CommitStatus(r)
  PROVE  Amends(r)
<1> DEFINE o == ask[r].of
           x == [order[o] EXCEPT !.status = ask[r].status]
           t == terms[o]
           u == Base(r, o).terms
<1>1. Writing(r, "status") /\ "status" \notin Filing /\ UNCHANGED supersedes
  BY DEF CommitStatus, Filing
<1>2. Land(r, o, [order EXCEPT ![o] = x], [terms EXCEPT ![o] = t], [terms EXCEPT ![o] = u])
  BY DEF CommitStatus, Amend, Unchanged
<1>3. /\ ask[r].kind = "status" /\ t \in Terms /\ u \in Terms
      /\ order[o] = [live |-> order[o].live, status |-> order[o].status]
  <2> HIDE DEF x
  <2> QED
    BY <1>1, AmendFacts
<1>4. \A v \in Terms : v = TermsAfter(ask[r], seen[r], v)
  BY <1>1, <1>3, Rewritten DEF TermsAfter
<1>5. t = TermsAfter(ask[r], seen[r], t) /\ u = TermsAfter(ask[r], seen[r], u)
  BY <1>3, <1>4
<1>6. o = ask[r].of /\ x = RowAfter(ask[r], order[o])
  BY <1>1, <1>3 DEF RowAfter
<1> HIDE DEF x
<1> QED
  BY <1>1, <1>2, <1>5, <1>6, AmendsOnce

LEMMA LifeAmends ==
  ASSUME DeskInv, NEW r \in Requests, CommitLife(r)
  PROVE  Amends(r)
<1> DEFINE o == ask[r].of
           x == [order[o] EXCEPT !.live = (ask[r].kind = "restore")]
           t == terms[o]
           u == Base(r, o).terms
<1>1. PICK kind \in {"delete", "restore"} : Writing(r, kind) /\ kind \notin Filing /\ UNCHANGED supersedes
  BY DEF CommitLife, Filing
<1>2. Land(r, o, [order EXCEPT ![o] = x], [terms EXCEPT ![o] = t], [terms EXCEPT ![o] = u])
  BY DEF CommitLife, Amend, Unchanged
<1>3. /\ ask[r].kind = kind /\ t \in Terms /\ u \in Terms
      /\ order[o] = [live |-> order[o].live, status |-> order[o].status]
  <2> HIDE DEF x
  <2> QED
    BY <1>1, AmendFacts
<1>4. \A v \in Terms : v = TermsAfter(ask[r], seen[r], v)
  BY <1>1, <1>3, Rewritten DEF TermsAfter
<1>5. t = TermsAfter(ask[r], seen[r], t) /\ u = TermsAfter(ask[r], seen[r], u)
  BY <1>3, <1>4
<1>6. o = ask[r].of /\ x = RowAfter(ask[r], order[o])
  BY <1>1, <1>3 DEF RowAfter
<1> HIDE DEF x
<1> QED
  BY <1>1, <1>2, <1>5, <1>6, AmendsOnce

\* A request that writes the order it names: its row only from what it read, and
\* what a writer of lines relies on only where it shares the order with none.
LEMMA AmendsInv ==
  ASSUME DeskInv, NEW r \in Requests, Amends(r)
  PROVE  DeskInv'
<1> DEFINE o == ask[r].of
           kind == ask[r].kind
           x == RowAfter(ask[r], order[o])
           t == TermsAfter(ask[r], seen[r], terms[o])
           view == [terms EXCEPT ![o] = TermsAfter(ask[r], seen[r], Base(r, o).terms)]
           rows == [order EXCEPT ![o] = x]
           bills == [terms EXCEPT ![o] = t]
<1>1. /\ Writing(r, kind) /\ kind \notin Filing /\ kind # "create"
      /\ Land(r, o, rows, bills, view) /\ UNCHANGED supersedes
  BY DEF Amends, Filing
<1>2. /\ desk[r] \in {"writing", "flushed"} /\ ask[r] \in DeskCalls /\ o \in Orders
      /\ seen[r] \in Seen /\ order[o] \in OrderRow /\ terms[o] \in Terms /\ Base(r, o) \in Seen
      /\ kind = "status" => <<seen[r].order.status, ask[r].status>> \in Transitions
      /\ desk[r] = "writing" /\ kind \in RowKinds \cup {"bill"} => RowFree(r, o)
  <2> HIDE DEF x, t, view
  <2> QED
    BY <1>1, WritingFacts
<1>3. x \in OrderRow /\ t \in Terms
  <2>1. ask[r].status \in Statuses /\ ask[r].amount \in Nat /\ ask[r].adjust \in Int
    BY <1>2, DeskCallFacts
  <2> QED
    BY <1>2, <2>1, AfterTyped
<1>4. kind \notin RowKinds => x = order[o]
  <2>1. order[o] = [live |-> order[o].live, status |-> order[o].status]
    BY <1>2, Rewritten
  <2> QED
    BY <2>1 DEF RowAfter, RowKinds
<1>5. kind \in Apart => SameTerms(t, terms[o])
  BY <1>1 DEF Apart, SameTerms, TermsAfter
<1>6. seen[r].order = order[o] /\ order[o].status = "cancelled" => x.status = "cancelled"
  BY <1>2 DEF RowAfter, Transitions
<1>7. DeskRefuse(r) \/ Onward(r, "flushed") \/ Commits(r, o, rows, bills)
  <2> HIDE DEF view, rows, bills
  <2> QED
    BY <1>1, <1>2, LandCases
<1> HIDE DEF x, t
<1>8. ASSUME Commits(r, o, rows, bills)
      PROVE  Written(r)
  <2>1. /\ order' = rows /\ terms' = bills /\ DeskOver(r)
        /\ strained' \subseteq Orders /\ overtaken \subseteq overtaken' /\ overtaken' \subseteq Orders
        /\ kind \in RowKinds /\ o \notin overtaken' => seen[r].order = order[o]
    <3> HIDE DEF rows, bills
    <3> QED
      BY <1>2, <1>8, CommitsFacts
  <2>2. /\ order' \in [Orders -> OrderRow] /\ terms' \in [Orders -> Terms]
        /\ \A y \in Orders : order'[y] = IF y = o THEN x ELSE order[y]
        /\ \A y \in Orders : terms'[y] = IF y = o THEN t ELSE terms[y]
    BY <1>3, <2>1 DEF DeskInv, DeskTypeOK
  <2>3. \A y \in Orders : Spared(r, y) => order'[y] = order[y] /\ SameTerms(terms'[y], terms[y])
    <3>1. ASSUME NEW y \in Orders, Spared(r, y)
          PROVE  order'[y] = order[y] /\ SameTerms(terms'[y], terms[y])
      <4>1. CASE y = o
        <5>1. kind \in Apart /\ kind \notin RowKinds
          BY <3>1, <4>1 DEF Spared, Apart, RowKinds
        <5> QED
          BY <1>4, <1>5, <2>2, <4>1, <5>1
      <4>2. CASE y # o
        BY <2>2, <4>2 DEF SameTerms
      <4> QED
        BY <4>1, <4>2
    <3> QED
      BY <3>1
  <2>4. \A y \in Orders \ overtaken' : order[y].status = "cancelled" => order'[y].status = "cancelled"
    BY <1>4, <1>6, <2>1, <2>2
  <2> QED
    BY <1>1, <1>2, <2>1, <2>2, <2>3, <2>4 DEF Written
<1> QED
  BY <1>7, <1>8, RefuseInv, OnwardInv, WrittenInv

\* A new order takes a name that is nobody's.
LEMMA CreateInv ==
  ASSUME DeskInv, NEW r \in Requests, CommitCreate(r)
  PROVE  DeskInv'
<1> DEFINE o == Name
           x == [live |-> TRUE, status |-> "draft"]
           t == [charged |-> ask[r].charged, header |-> ask[r].amount, lines |-> 0,
                 adjusted |-> ask[r].adjust, added |-> 0, billed |-> 0]
           rows == [order EXCEPT ![o] = x]
           bills == [terms EXCEPT ![o] = t]
<1>1. /\ Writing(r, "create") /\ UNCHANGED supersedes /\ o \in Orders /\ order[o].status = "none"
      /\ Land(r, o, rows, bills, bills)
  BY DEF CommitCreate
<1>2. /\ desk[r] \in {"writing", "flushed"} /\ ask[r].kind = "create" /\ ask[r] \in DeskCalls
      /\ desk[r] = "writing" /\ ask[r].kind \in RowKinds \cup {"bill"} => RowFree(r, ask[r].of)
  <2>1. Writing(r, "create")
    BY <1>1
  <2> HIDE DEF o
  <2> QED
    BY <2>1, WritingFacts
<1>3. x \in OrderRow /\ x.status = "draft" /\ t \in Terms
  <2>1. ask[r].amount \in Nat /\ ask[r].adjust \in Int /\ ask[r].charged \in BOOLEAN
    BY <1>2, DeskCallFacts
  <2> QED
    BY <2>1 DEF OrderRow, Statuses, Terms
<1> HIDE DEF o, x, t
<1>4. DeskRefuse(r) \/ Onward(r, "flushed") \/ Commits(r, o, rows, bills)
  <2>1. Base(r, o) \in Seen
    BY <1>1, <1>2, BaseFacts DEF DeskInv
  <2> HIDE DEF rows, bills
  <2> QED
    BY <1>1, <2>1, LandCases
<1>5. ASSUME Commits(r, o, rows, bills)
      PROVE  Written(r)
  <2>1. /\ order' = rows /\ terms' = bills /\ DeskOver(r)
        /\ strained' \subseteq Orders /\ overtaken \subseteq overtaken' /\ overtaken' \subseteq Orders
    <3> HIDE DEF rows, bills
    <3> QED
      BY <1>1, <1>5, CommitsFacts
  <2>2. /\ order' \in [Orders -> OrderRow] /\ terms' \in [Orders -> Terms]
        /\ \A y \in Orders : order'[y] = IF y = o THEN x ELSE order[y]
        /\ \A y \in Orders : terms'[y] = IF y = o THEN t ELSE terms[y]
    BY <1>3, <2>1 DEF DeskInv, DeskTypeOK
  <2>3. \A y \in Orders : Spared(r, y) => order'[y] = order[y] /\ SameTerms(terms'[y], terms[y])
    BY <1>1, <2>2 DEF Spared, SameTerms
  <2>4. \A y \in Orders \ overtaken' : order[y].status = "cancelled" => order'[y].status = "cancelled"
    BY <1>1, <2>2
  <2> QED
    BY <1>1, <1>2, <2>1, <2>2, <2>3, <2>4 DEF Written
<1> QED
  BY <1>4, <1>5, RefuseInv, OnwardInv, WrittenInv

\* What a revision copies of its source.
LEMMA CopiedFacts ==
  ASSUME DeskInv, NEW r \in Requests, Writing(r, "revise")
  PROVE  /\ Copied(r) \in Terms /\ seen[r].terms \in Terms
         /\ \A c \in BOOLEAN, h \in Nat \cup {None} :
              [Copied(r) EXCEPT !.charged = c, !.header = h, !.billed = 0]
                = [charged |-> c, header |-> h, lines |-> Copied(r).lines,
                   adjusted |-> Copied(r).adjusted, added |-> Copied(r).added, billed |-> 0]
<1>1. /\ ask[r].of \in Orders /\ seen[r] \in Seen /\ terms[ask[r].of] \in Terms
      /\ desk[r] \in {"writing", "flushed"}
  <2>1. Writing(r, "revise") /\ "revise" # "create"
    OBVIOUS
  <2> QED
    BY <2>1, WritingFacts
<1>2. Copied(r) \in Terms
  BY <1>1 DEF Copied, DeskInv, VerdictsKept, Seen
<1>3. seen[r].terms \in Terms
  BY <1>1 DEF Seen
<1>4. ASSUME NEW c \in BOOLEAN, NEW h \in Nat \cup {None}
      PROVE  [Copied(r) EXCEPT !.charged = c, !.header = h, !.billed = 0]
               = [charged |-> c, header |-> h, lines |-> Copied(r).lines,
                  adjusted |-> Copied(r).adjusted, added |-> Copied(r).added, billed |-> 0]
  <2> DEFINE b == [Copied(r) EXCEPT !.charged = c]
             e == [b EXCEPT !.header = h]
  <2>1. b = [charged |-> c, header |-> Copied(r).header, lines |-> Copied(r).lines,
             adjusted |-> Copied(r).adjusted, added |-> Copied(r).added, billed |-> Copied(r).billed]
    BY <1>2, Rewritten
  <2>2. [Copied(r) EXCEPT !.charged = c, !.header = h, !.billed = 0] = [e EXCEPT !.billed = 0]
    OBVIOUS
  <2> HIDE DEF b
  <2>3. e = [charged |-> c, header |-> h, lines |-> Copied(r).lines,
             adjusted |-> Copied(r).adjusted, added |-> Copied(r).added, billed |-> Copied(r).billed]
    BY <2>1
  <2> HIDE DEF e
  <2> QED
    BY <2>2, <2>3
<1> QED
  BY <1>2, <1>3, <1>4

\* A revision cancels the order it read, and its replacement is nobody's.
LEMMA ReviseInv ==
  ASSUME DeskInv, NEW r \in Requests, CommitRevise(r)
  PROVE  DeskInv'
<1> DEFINE o == ask[r].of
           n == Name
           x == [order[o] EXCEPT !.status = "cancelled"]
           y == [live |-> TRUE, status |-> "draft"]
           t == [terms[o] EXCEPT !.charged = Released(seen[r].terms, @)]
           u == [Copied(r) EXCEPT !.charged = seen[r].terms.charged,
                                  !.header = seen[r].terms.header, !.billed = 0]
           rows == [order EXCEPT ![o] = x, ![n] = y]
           bills == [terms EXCEPT ![o] = t, ![n] = u]
<1>1. /\ Writing(r, "revise") /\ n \in Orders /\ order[n].status = "none"
      /\ Land(r, o, rows, bills, bills)
      /\ supersedes' = IF order' = order THEN supersedes ELSE [supersedes EXCEPT ![n] = o]
  BY DEF CommitRevise
<1>2. /\ desk[r] \in {"writing", "flushed"} /\ ask[r].kind = "revise" /\ ask[r] \in DeskCalls
      /\ o \in Orders /\ seen[r] \in Seen /\ order[o] \in OrderRow /\ terms[o] \in Terms
      /\ seen[r].order.status = "confirmed" /\ Base(r, o) \in Seen
      /\ desk[r] = "writing" /\ ask[r].kind \in RowKinds \cup {"bill"} => RowFree(r, ask[r].of)
  <2>1. Writing(r, "revise") /\ "revise" # "create"
    BY <1>1
  <2> HIDE DEF x, y, t, u, n
  <2> QED
    BY <2>1, WritingFacts
<1>3. x \in OrderRow /\ x.status = "cancelled" /\ y \in OrderRow
  BY <1>2, Rewritten DEF OrderRow, Statuses
<1>4. t \in Terms
  <2>1. terms[o].charged \in BOOLEAN
    BY <1>2 DEF Terms
  <2>2. Released(seen[r].terms, terms[o].charged) \in BOOLEAN
    BY <2>1 DEF Released, Column
  <2> QED
    BY <1>2, <2>2 DEF Terms
<1>5. u \in Terms
  <2>1. Writing(r, "revise")
    BY <1>1
  <2>2. seen[r].terms.charged \in BOOLEAN /\ seen[r].terms.header \in Nat \cup {None}
    BY <2>1, CopiedFacts DEF Terms
  <2>3. u = [charged |-> seen[r].terms.charged, header |-> seen[r].terms.header, lines |-> Copied(r).lines,
             adjusted |-> Copied(r).adjusted, added |-> Copied(r).added, billed |-> 0]
    BY <2>1, <2>2, CopiedFacts
  <2> HIDE DEF u
  <2>4. Copied(r) \in Terms
    BY <2>1, CopiedFacts
  <2> QED
    BY <2>2, <2>3, <2>4 DEF Terms
<1> HIDE DEF n, x, y, t, u
<1>6. DeskRefuse(r) \/ Onward(r, "flushed") \/ Commits(r, o, rows, bills)
  <2>1. Writing(r, "revise") /\ Land(r, o, rows, bills, bills)
    BY <1>1
  <2> HIDE DEF rows, bills
  <2> QED
    BY <1>2, <2>1, LandCases
<1>7. ASSUME Commits(r, o, rows, bills)
      PROVE  Written(r)
  <2>1. /\ order' = rows /\ terms' = bills /\ DeskOver(r)
        /\ strained' \subseteq Orders /\ overtaken \subseteq overtaken' /\ overtaken' \subseteq Orders
        /\ o \notin overtaken' => seen[r].order = order[o]
    <3>1. ask[r].kind \in RowKinds
      BY <1>2 DEF RowKinds
    <3> HIDE DEF rows, bills
    <3> QED
      BY <1>2, <1>7, <3>1, CommitsFacts
  <2>2. /\ order' \in [Orders -> OrderRow] /\ terms' \in [Orders -> Terms]
        /\ \A z \in Orders : order'[z] = IF z = n THEN y ELSE IF z = o THEN x ELSE order[z]
        /\ \A z \in Orders : terms'[z] = IF z = n THEN u ELSE IF z = o THEN t ELSE terms[z]
    BY <1>2, <1>3, <1>4, <1>5, <2>1 DEF DeskInv, DeskTypeOK
  <2>3. \A z \in Orders : Spared(r, z) => order'[z] = order[z] /\ SameTerms(terms'[z], terms[z])
    BY <1>1, <1>2, <2>2 DEF Spared, SameTerms, Apart
  <2>4. \A z \in Orders \ overtaken' : order[z].status = "cancelled" => order'[z].status = "cancelled"
    BY <1>1, <1>3, <2>2
  <2>5. o \notin overtaken' => order[o].status = "confirmed" /\ order'[o].status = "cancelled"
    BY <1>1, <1>2, <1>3, <2>1, <2>2
  <2>6. supersedes' = supersedes \/ \E m \in Orders : Replaced(r, m)
    BY <1>1, <1>2, <2>5 DEF Replaced
  <2> QED
    BY <1>2, <2>1, <2>2, <2>3, <2>4, <2>6 DEF Written
<1> QED
  BY <1>6, <1>7, RefuseInv, OnwardInv, WrittenInv

-----------------------------------------------------------------------------
(* The invariant of every step                                              *)

LEMMA InitDeskInv ==
  ASSUME Init
  PROVE  DeskInv
<1>1. DeskTypeOK
  BY DEF Init, DeskTypeOK, Active
<1>2. \A r \in Requests : desk[r] = "new"
  BY DEF Init
<1>3. AsksFit /\ VerdictsKept /\ RowsExclude /\ LinesStandStill
  BY <1>2 DEF AsksFit, Fitting, Active, VerdictsKept, RowsExclude, Claims, Holding, Inserted, Saving,
     LinesStandStill
<1>4. OneHeir
  <2>1. \A o \in Orders : Heirs(o) = {}
    BY StockAssumption DEF Init, Heirs
  <2> QED
    BY <2>1 DEF OneHeir
<1> QED
  BY <1>1, <1>3, <1>4 DEF DeskInv

LEMMA DeskProceedInv ==
  ASSUME DeskInv, NEW r \in Requests, DeskProceed(r)
  PROVE  DeskInv'
<1>1. CASE LockAccount(r)
  <2>1. judged' = [judged EXCEPT ![r] = judged[r]] /\ judged[r] \in Seen \cup {None}
    BY <1>1 DEF LockAccount, DeskInv, DeskTypeOK
  <2>2. Onward(r, "writing")
    BY <1>1, <2>1 DEF LockAccount, Onward, books, stockVars
  <2> QED
    BY <2>2, OnwardInv
<1>2. CASE DeskDeadlock(r)
  BY <1>2, RefuseInv DEF DeskDeadlock
<1>3. CASE \/ CommitRestate(r) \/ CommitSave(r) \/ CommitLines(r) \/ CommitAdjust(r)
           \/ CommitCharge(r) \/ CommitStatus(r) \/ CommitLife(r) \/ CommitBill(r)
  BY <1>3, AmendsInv, RestateAmends, SaveAmends, LinesAmends, AdjustAmends, ChargeAmends, StatusAmends,
     LifeAmends, BillAmends
<1> QED
  BY <1>1, <1>2, <1>3, LockRowInv, LockKeyInv, CreateInv, ReviseInv DEF DeskProceed

\* The requests of the stock move no order.
LEMMA StockLeavesOrders ==
  ASSUME NEW r \in Requests, Proceed(r) \/ \E c \in Calls : Begin(r, c)
  PROVE  UNCHANGED order
<1>1. ASSUME NEW c \in Calls, Begin(r, c)
      PROVE  UNCHANGED order
  BY <1>1 DEF Begin, BeginReserve, BeginRelease, BeginReleaseAll, BeginMove, BeginPost, BeginEdit,
     BeginAmend, BeginToggle, Ask
<1>2. CASE Refuse(r) \/ LockSource(r) \/ Find(r) \/ LockPosition(r)
  BY <1>2 DEF Refuse, LockSource, Find, LockPosition
<1>3. CASE Commit(r) /\ ~Refuse(r)
  BY <1>3 DEF Commit, CommitHold, RefuseHold, CommitShipment, CommitDocument, CommitReceipt, CommitCount,
     CommitEdit, CommitAmend, CommitToggle
<1> QED
  BY <1>1, <1>2, <1>3, ProceedCases

LEMMA IdleInv ==
  ASSUME DeskInv, UNCHANGED <<order, terms, supersedes, deskControl, strained, overtaken>>
  PROVE  DeskInv'
<1>1. UNCHANGED <<order, terms, supersedes, desk, ask, seen, judged, strained, overtaken>>
  BY DEF deskControl
<1>2. DeskTypeOK' /\ OneHeir'
  BY <1>1 DEF DeskInv, DeskTypeOK, OneHeir, Heirs
<1>3. AsksFit'
  BY <1>1 DEF DeskInv, AsksFit, Fitting
<1>4. VerdictsKept'
  BY <1>1 DEF DeskInv, VerdictsKept
<1>5. RowsExclude'
  BY <1>1 DEF DeskInv, RowsExclude, Claims, Holding, Inserted, Saving
<1>6. LinesStandStill'
  <2> SUFFICES ASSUME NEW q \in Requests, Saving(q)'
               PROVE  Standing(seen[q])' = Standing(Named(ask[q]))'
    BY DEF LinesStandStill
  <2>1. Standing(seen[q]) = Standing(Named(ask[q]))
    BY <1>1 DEF Saving, DeskInv, LinesStandStill
  <2> QED
    BY <1>1, <2>1 DEF Named, Standing, Revision
<1> QED
  BY <1>2, <1>3, <1>4, <1>5, <1>6 DEF DeskInv

LEMMA NextDeskInv ==
  ASSUME DeskInv, [Next]_vars
  PROVE  DeskInv'
<1>1. ASSUME NEW r \in Requests, Step(r) \/ Arrive(r)
      PROVE  DeskInv'
  <2>1. CASE DeskProceed(r)
    BY <2>1, DeskProceedInv
  <2>2. ASSUME NEW c \in DeskCalls, DeskBegin(r, c)
        PROVE  DeskInv'
    BY <2>2, BeginInv
  <2>3. CASE DeskIdle(r) /\ (Proceed(r) \/ \E c \in Calls : Begin(r, c))
    BY <2>3, StockLeavesOrders, IdleInv DEF DeskIdle
  <2> QED
    BY <1>1, <2>1, <2>2, <2>3 DEF Step, Arrive
<1>2. CASE UNCHANGED vars
  BY <1>2, IdleInv DEF vars, stockVars
<1> QED
  BY <1>1, <1>2 DEF Next

\* What holds between any two steps of the desk: who holds a row or has named it
\* shares it with no writer of its lines, the order that writer judged stands
\* still but for the adjustments it has, and a replaced order has one heir.
THEOREM DeskInvariance == Spec => []DeskInv
<1>1. Init => DeskInv
  BY InitDeskInv
<1>2. DeskInv /\ [Next]_vars => DeskInv'
  BY NextDeskInv
<1> QED
  BY <1>1, <1>2, PTL DEF Spec

-----------------------------------------------------------------------------
(* What the desk promises                                                   *)

LEMMA FewHeirs ==
  ASSUME NEW S, \A a, b \in S : a = b
  PROVE  Cardinality(S) <= 1
<1>1. CASE S = {}
  BY <1>1, FS_EmptySet
<1>2. CASE S # {}
  <2>1. PICK a \in S : TRUE
    BY <1>2
  <2>2. S = {a}
    BY <2>1
  <2>3. Cardinality({a}) = 1
    BY FS_Singleton
  <2> QED
    BY <2>2, <2>3
<1> QED
  BY <1>1, <1>2

\* Two revisions of one order leave it with one replacement, and the replaced
\* order stays cancelled, except where a request wrote by an outdated row
\* (revise_sales_order).
THEOREM OneReplacement == Spec => []RevisionReplaces
<1>1. DeskInv => RevisionReplaces
  <2> SUFFICES ASSUME DeskInv, NEW o \in Orders \ overtaken
               PROVE  /\ Cardinality(Heirs(o)) <= 1
                      /\ Heirs(o) # {} => order[o].status = "cancelled"
    BY DEF RevisionReplaces, Heirs
  <2>1. /\ \A a, b \in Heirs(o) : a = b
        /\ Heirs(o) # {} => order[o].status = "cancelled"
    BY DEF DeskInv, OneHeir
  <2> HIDE DEF Heirs
  <2> QED
    BY <2>1, FewHeirs
<1> QED
  BY <1>1, DeskInvariance, PTL

\* The lines a save or a line write puts on an order are put on the order it has
\* judged under its lock: from there on its row and its charge, its stated total
\* and its lines stand still, and no adjustment is posted, for any number of
\* requests (_item_write_gate).  An adjustment that exists may still be changed
\* or deleted.
THEOREM LinesOnTheJudgedOrder == Spec => []LinesStandStill
<1>1. DeskInv => LinesStandStill
  BY DEF DeskInv
<1> QED
  BY <1>1, DeskInvariance, PTL

\* A request that waits has flushed nothing, so whoever keeps others from a row
\* among requests that all wait is a writer of lines or has inserted an
\* adjustment, and waits further on.
LEMMA KnotMembers ==
  ASSUME NEW S \in SUBSET Requests, DeskKnot(S)
  PROVE  \A q \in S :
           /\ desk[q] \in {"row", "account", "writing"} /\ ~Restating(q)
           /\ Claims(q) => (Saving(q) \/ Inserted(q)) /\ desk[q] \in {"account", "writing"}
           /\ Holding(q) => Saving(q)
           /\ Referring(q) => Claims(q)
<1>1. \A q \in S : desk[q] \in {"row", "account", "writing"}
  BY DEF DeskKnot, DeskWaits
<1> QED
  BY <1>1 DEF Claims, Holding, Saving, Inserted, Referring, Restating

\* Two requests never claim one order when one of them writes its lines, so a
\* writer of lines waits for no row, and whoever inserted an adjustment neither.
LEMMA KnotRows ==
  ASSUME DeskInv, NEW S \in SUBSET Requests, DeskKnot(S)
  PROVE  \A q \in S : Claims(q) => desk[q] = "account"
<1>1. SUFFICES ASSUME NEW q \in S, Claims(q), desk[q] = "writing"
               PROVE  FALSE
  BY KnotMembers
<1>2. \A p \in S : ~Restating(p)
  BY KnotMembers
<1>3. PICK p \in S : /\ p # q /\ ask[p].of = ask[q].of /\ Holding(p)
                     /\ ask[q].kind \in RowKinds \cup {"bill"}
  BY <1>1, <1>2 DEF DeskKnot, DeskWaits
<1>4. Saving(p) /\ Claims(p)
  BY <1>3, KnotMembers DEF Claims
<1> QED
  BY <1>1, <1>3, <1>4 DEF DeskInv, RowsExclude

\* Whatever any number of desk requests do, those that all wait for each other
\* hold the pair that DeskDeadlock aborts: a writer of lines at the account and
\* a request that holds the account at its row.
THEOREM DeskKnotsCrossTheAccount == Spec => []KnotsCrossTheAccount
<1>1. ASSUME DeskInv, NEW S \in SUBSET Requests, DeskKnot(S)
      PROVE  \E s, q \in S : Crossed(s, q)
  <2>1. \E s \in S : desk[s] = "account"
    <3>1. PICK r \in S : TRUE
      BY <1>1 DEF DeskKnot
    <3>2. PICK q \in S : DeskWaits(r, q)
      BY <1>1, <3>1 DEF DeskKnot
    <3>3. desk[r] = "account" \/ Claims(q)
      <4>1. desk[r] = "account" \/ Holding(q) \/ Referring(q) \/ Saving(q) \/ Restating(q)
        BY <3>2 DEF DeskWaits
      <4>2. ~Restating(q) /\ (Referring(q) => Claims(q))
        BY <1>1, KnotMembers
      <4> QED
        BY <4>1, <4>2 DEF Claims, Holding
    <3> QED
      BY <1>1, <3>3, KnotRows
  <2>2. PICK s \in S : desk[s] = "account"
    BY <2>1
  <2>3. PICK q \in S : desk[q] = "writing" /\ Judged(q)
    <3>1. PICK q \in S : DeskWaits(s, q)
      BY <1>1 DEF DeskKnot
    <3>2. HoldsAccount(q)
      BY <2>2, <3>1 DEF DeskWaits
    <3> QED
      BY <1>1, <3>2, KnotMembers DEF HoldsAccount
  <2>4. PICK p \in S : p # q /\ ask[p].of = ask[q].of /\ Holding(p)
    <3>1. \A p \in S : ~Restating(p)
      BY <1>1, KnotMembers
    <3> QED
      BY <1>1, <2>3, <3>1 DEF DeskKnot, DeskWaits
  <2>5. desk[p] = "account" /\ ask[p].kind \in Gated
    <3>1. Claims(p) /\ Saving(p)
      BY <1>1, <2>4, KnotMembers DEF Claims
    <3> QED
      BY <1>1, <3>1, KnotRows DEF Saving
  <2>6. Crossed(p, q)
    BY <2>3, <2>4, <2>5 DEF Crossed
  <2> QED
    BY <2>6
<1>2. DeskInv => KnotsCrossTheAccount
  BY <1>1 DEF KnotsCrossTheAccount
<1> QED
  BY <1>2, DeskInvariance, PTL

-----------------------------------------------------------------------------
(* The desk and the stock                                                   *)

LEMMA LandLeavesStock ==
  ASSUME NEW r \in Requests, NEW o, NEW rows, NEW bills, NEW view, Land(r, o, rows, bills, view)
  PROVE  UNCHANGED <<ledger, papers, control>>
<1>1. CASE desk[r] = "writing" /\ Judged(r)
  BY <1>1 DEF Land, Judge, DeskRefuse, DeskOver
<1>2. CASE ~(desk[r] = "writing" /\ Judged(r))
  BY <1>2 DEF Land, Commits, DeskOver
<1> QED
  BY <1>1, <1>2

\* A desk request touches nothing of the stock but the orders.
LEMMA DeskLeavesStock ==
  ASSUME NEW r \in Requests, DeskProceed(r) \/ \E c \in DeskCalls : DeskBegin(r, c)
  PROVE  UNCHANGED <<ledger, papers, control>>
<1>1. ASSUME NEW c \in DeskCalls, DeskBegin(r, c)
      PROVE  UNCHANGED <<ledger, papers, control>>
  BY <1>1 DEF DeskBegin, stockVars
<1>2. CASE LockRow(r) \/ LockKey(r) \/ LockAccount(r) \/ DeskDeadlock(r)
  BY <1>2 DEF LockRow, LockKey, LockAccount, DeskDeadlock, DeskRefuse, DeskOver, stockVars
<1>3. CASE CommitCreate(r) \/ CommitRevise(r)
  BY <1>3, LandLeavesStock DEF CommitCreate, CommitRevise
<1>4. CASE CommitRestate(r) \/ CommitSave(r)
  BY <1>4, LandLeavesStock DEF CommitRestate, CommitSave, Amend
<1>5. CASE CommitLines(r) \/ CommitCharge(r)
  BY <1>5, LandLeavesStock DEF CommitLines, CommitCharge, Amend
<1>6. CASE CommitAdjust(r)
  BY <1>6, LandLeavesStock DEF CommitAdjust, Amend
<1>7. CASE CommitStatus(r) \/ CommitLife(r) \/ CommitBill(r)
  BY <1>7, LandLeavesStock DEF CommitStatus, CommitLife, CommitBill, Amend
<1> QED
  BY <1>1, <1>2, <1>3, <1>4, <1>5, <1>6, <1>7 DEF DeskProceed

LEMMA StepIsStock ==
  ASSUME DeskInv', [Next]_vars
  PROVE  [StockNext]_stockVars
<1>1. order' \in [Orders -> [live : BOOLEAN, status : Statuses]]
  BY DEF DeskInv, DeskTypeOK, OrderRow
<1>2. ASSUME NEW r \in Requests, Step(r) \/ Arrive(r)
      PROVE  StockNext
  <2>1. CASE DeskProceed(r) \/ \E c \in DeskCalls : DeskBegin(r, c)
    BY <1>1, <2>1, DeskLeavesStock DEF StockNext, OrdersMove
  <2>2. CASE Proceed(r) \/ \E c \in Calls : Begin(r, c)
    BY <2>2 DEF StockNext
  <2> QED
    BY <1>2, <2>1, <2>2 DEF Step, Arrive
<1>3. CASE UNCHANGED vars
  BY <1>3 DEF vars
<1> QED
  BY <1>2, <1>3 DEF Next

\* Beside the desk the stock still behaves as Stock says.
THEOREM DeskRunsTheStock == Spec => StockSpec
<1>1. Init => StockInit /\ order \in [Orders -> [live : BOOLEAN, status : Statuses]]
  BY DEF Init, OrderRow
<1>2. DeskInv' /\ [Next]_vars => [StockNext]_stockVars
  BY StepIsStock
<1> QED
  BY <1>1, <1>2, DeskInvariance, PTL DEF Spec, StockSpec

\* So what is proved of the stock alone holds beside the desk, for any number of
\* orders being moved, charged, billed and revised meanwhile.
THEOREM StockBesideTheDesk ==
  Spec => /\ []HoldsNonNegative /\ []PostsOnce /\ []KnotsNeedUnordered
          /\ []TotalsAreTheLedger /\ KeepsStockPromise
BY DeskRunsTheStock, NothingOverReleased, NothingPostedTwice, OrderedLocksNeverKnot,
   TotalsFollowTheLedger, Refinement

\* The columns of the orders, of the stock and of every request keep their
\* domains.
THEOREM OrdersTypeCorrect == Spec => []TypeOK
<1>1. DeskInv /\ StockTypeOK => TypeOK
  BY DEF DeskInv, DeskTypeOK, TypeOK, Active, Seen
<1> QED
  BY <1>1, DeskInvariance, DeskRunsTheStock, TypeCorrect, PTL
=============================================================================
