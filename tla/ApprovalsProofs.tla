----------------------------- MODULE ApprovalsProofs -----------------------------
(***************************************************************************)
(* Theorems about Approvals, for any number of requests, leaves, people    *)
(* and todos: what the trail, the todos and an answered decision promise,  *)
(* whatever requests run beside each other.                                *)
(***************************************************************************)
EXTENDS Approvals, FiniteSetTheorems, SequenceTheorems, TLAPS

-----------------------------------------------------------------------------
(* The invariant                                                            *)

\* Where a request of each kind may stand.
Staged(c, a) ==
  \/ a \in {"done", "refused"}
  \/ c.kind = "decide" /\ a \in {"reading", "moving", "assigning", "inserting"}
  \/ c.kind = "assign" /\ a \in {"assigning", "inserting"}
  \/ c.kind = "status" /\ a \in {"moving", "assigning", "inserting"}
  \/ c.kind \in {"submit", "delete"} /\ a \in {"reading", "committing"}
  \/ c.kind \in {"restore", "patch"} /\ a = "committing"

\* Approval work is held by the person of its seat.
Seated(i) == i.type = "approval" => i.who = Seat[i.seq]

\* What a request may have written where it stands.
Wrote(c, a, w) ==
  /\ a \notin {"assigning", "inserting"} => w.new = <<>>
  /\ a \in {"new", "reading", "done", "refused"} => w.record = NoFact /\ w.known = {}
  /\ c.kind = "patch" => w.known = {}
  /\ w.record # NoFact => \/ c.kind = "decide" /\ w.record = c.fact
                          \/ c.kind = "submit" /\ w.record.action = "submitted"
  /\ a = "inserting" => w.left # <<>> /\ w.fine
  /\ \A n \in 1..Len(w.left) : Seated(w.left[n])
  /\ \A n \in 1..Len(w.new) : Seated(w.new[n].item) /\ w.new[n].fine

Control ==
  \A r \in Requests :
    IF at[r] = "new" THEN call[r] = None /\ Wrote(call[r], "new", tx[r])
    ELSE call[r] \in Calls /\ Staged(call[r], at[r]) /\ Wrote(call[r], at[r], tx[r])

\* An open todo that a request knew of and does not close is none of its business.
Spared(c, w, i) ==
  /\ c.kind = "decide" /\ w.record # NoFact /\ i.doc = c.doc /\ i.type = "approval" =>
       c.fact.action # "returned" /\ i.who # c.by
  /\ c.kind = "submit" /\ i.doc = c.doc => i.type # "rework"
  /\ c.kind = "delete" => i.doc # c.doc

\* A decision past its record has its fact, and each item of its handoff is
\* still to come or has its todo.
Delivers(c, a, w) ==
  /\ a \in {"moving", "assigning", "inserting"} => c.fact \in trail \/ w.record = c.fact
  /\ a \in {"assigning", "inserting"} =>
       \A n \in 1..Len(c.items) :
         \/ w.left # <<>> /\ Head(w.left) = c.items[n]
         \/ \E t \in Todos : todos[t] # None /\ todos[t].item = c.items[n]
         \/ \E m \in 1..Len(w.new) : w.new[m].item = c.items[n]

\* What a request has read and still relies on.
Relies(c, a, w) ==
  /\ c # None /\ c.kind = "patch" /\ a = "committing" => todos[c.todo] # None
  /\ \A t \in w.known : todos[t] # None /\ (w.closing[t] = "open" => Spared(c, w, todos[t].item))
  /\ c # None /\ c.kind = "decide" => Delivers(c, a, w)

ReadsStand == \A r \in Requests : Relies(call[r], at[r], tx[r])

\* A decision in hand meets none, on the trail or in another hand.
RecordsApart ==
  \A r \in Requests : tx[r].record.action \in Decisions =>
    /\ \A g \in trail : ~Clash(tx[r].record, g)
    /\ \A q \in Requests \ {r} : tx[q].record # NoFact => ~Clash(tx[q].record, tx[r].record)

\* So does a new todo, and one about to be inserted its own batch.
PlacesApart ==
  /\ \A r \in Requests : \A n \in 1..Len(tx[r].new) : \A t \in Todos :
       IsOpen(t) => ~SamePlace(todos[t].item, tx[r].new[n].item)
  /\ \A r, q \in Requests : \A n \in 1..Len(tx[r].new), m \in 1..Len(tx[q].new) :
       SamePlace(tx[r].new[n].item, tx[q].new[m].item) => r = q /\ n = m
  /\ \A r \in Requests : at[r] = "inserting" =>
       \A n \in 1..Len(tx[r].new) : ~SamePlace(tx[r].new[n].item, Head(tx[r].left))

\* Open work that nobody has a reason to do is loose.
WorkIsProper ==
  \A t \in Todos : todos[t] # None =>
    /\ Seated(todos[t].item)
    /\ IsOpen(t) /\ ~todos[t].loose => ~Improper(todos[t].item, trail, status, live)

IInv ==
  /\ TypeOK /\ IsFiniteSet(trail)
  /\ Control /\ ReadsStand /\ RecordsApart /\ PlacesApart /\ WorkIsProper
  /\ OneDecisionPerNode /\ OneOpenTodo

-----------------------------------------------------------------------------
(* Types                                                                    *)

Places == {"new", "reading", "moving", "assigning", "inserting", "committing", "done", "refused"}

LEMMA CallFacts ==
  ASSUME NEW c \in Calls
  PROVE  /\ c \in AllCalls /\ c # None
         /\ c.kind \in {"decide", "submit", "assign", "status", "delete", "restore", "patch"}
         /\ c.items \in Seq(Items) /\ c.abort \in BOOLEAN
         /\ c.kind \in {"decide", "submit", "status", "delete", "restore"} => c.doc \in Docs
         /\ c.kind = "decide" => /\ c.fact \in Facts /\ c.fact.doc = c.doc
                                 /\ c.fact.action \in Decisions /\ c.by = Seat[c.fact.seq]
                                 /\ \A n \in 1..Len(c.items) : n = 1
         /\ c.kind \in {"decide", "status"} => c.to \in (Statuses \ {"submitted"}) \cup {None}
         /\ c.kind \notin {"decide", "assign"} => c.items = <<>>
         /\ c.kind = "patch" => c.todo \in Todos /\ c.to \in States
         /\ \A n \in 1..Len(c.items) : Seated(c.items[n])
<1>1. c \in AllCalls /\ WellFormed(c) /\ None \notin Calls
  BY ApprovalsAssumption
<1>2. /\ c.kind \in {"decide", "submit", "assign", "status", "delete", "restore", "patch"}
      /\ c.items \in Seq(Items) /\ c.abort \in BOOLEAN
  BY <1>1 DEF AllCalls
<1>3. DOMAIN c.items = 1..Len(c.items)
  BY <1>2, LenProperties
<1>4. \A n \in 1..Len(c.items) : Seated(c.items[n])
  <2>1. ASSUME NEW n \in 1..Len(c.items)
        PROVE  Seated(c.items[n])
    <3>1. IF c.items[n].type = "rework" THEN TRUE ELSE c.items[n].who = Seat[c.items[n].seq]
      BY <1>1, <1>3 DEF WellFormed
    <3> QED
      BY <3>1 DEF Seated
  <2> QED
    BY <2>1
<1> QED
  BY <1>1, <1>2, <1>3, <1>4 DEF WellFormed

LEMMA WorkFacts ==
  ASSUME NEW w \in Work
  PROVE  /\ w.record \in Facts \cup {NoFact} /\ w.closing \in [Todos -> States] /\ w.known \in SUBSET Todos
         /\ w.left \in Seq(Items) /\ w.fine \in BOOLEAN
         /\ w.new \in Seq([item : Items, fine : BOOLEAN])
         /\ Len(w.left) \in Nat /\ Len(w.new) \in Nat
BY LenProperties DEF Work

\* What is left of a batch after its first item.
LEMMA TailFacts ==
  ASSUME NEW s \in Seq(Items), s # <<>>
  PROVE  /\ Tail(s) \in Seq(Items) /\ Head(s) \in Items /\ Head(s) = s[1]
         /\ 1 \in 1..Len(s)
         /\ \A n \in 1..Len(Tail(s)) : n + 1 \in 1..Len(s) /\ Tail(s)[n] = s[n + 1]
<1>1. /\ Tail(s) \in Seq(Items) /\ Head(s) \in Items
      /\ Len(Tail(s)) = Len(s) - 1 /\ \A n \in 1..Len(Tail(s)) : Tail(s)[n] = s[n + 1]
  BY HeadTailProperties
<1>2. Len(s) \in Nat /\ Len(s) > 0 /\ Head(s) = s[1]
  BY EmptySeq, LenProperties
<1> QED
  BY <1>1, <1>2

Batch == [item : Items, fine : BOOLEAN]

LEMMA AppendFacts ==
  ASSUME NEW s \in Seq(Batch), NEW x \in Batch
  PROVE  /\ Append(s, x) \in Seq(Batch) /\ Len(s) \in Nat /\ Len(Append(s, x)) = Len(s) + 1
         /\ \A n \in 1..Len(s) : Append(s, x)[n] = s[n]
         /\ Append(s, x)[Len(s) + 1] = x
         /\ \A n \in 1..Len(Append(s, x)) : n \in 1..Len(s) \/ n = Len(s) + 1
BY AppendProperties, LenProperties

LEMMA NothingFacts ==
  /\ Nothing \in Work /\ Nothing.record = NoFact /\ Nothing.new = <<>>
  /\ Nothing.known = {} /\ Nothing.left = <<>>
<1>1. <<>> \in Seq(Items) /\ <<>> \in Seq([item : Items, fine : BOOLEAN])
  BY EmptySeq
<1> QED
  BY <1>1 DEF Nothing, Work, States

LEMMA TypeParts ==
  ASSUME TypeOK, NEW r \in Requests
  PROVE  /\ tx[r] \in Work /\ at[r] \in Places /\ call[r] \in Calls \cup {None}
         /\ seen[r] \in [status : Statuses \cup States, live : BOOLEAN] \cup {None}
BY DEF TypeOK, Places

LEMMA RowFacts ==
  ASSUME TypeOK, NEW t \in Todos, todos[t] # None
  PROVE  /\ todos[t] \in Rows /\ todos[t].item \in Items /\ todos[t].item.doc \in Docs
         /\ todos[t].state \in States /\ todos[t].loose \in BOOLEAN
<1>1. todos[t] \in Rows
  BY DEF TypeOK
<1>2. todos[t].item \in Items /\ todos[t].state \in States /\ todos[t].loose \in BOOLEAN
  BY <1>1 DEF Rows
<1> QED
  BY <1>1, <1>2 DEF Items

LEMMA NoFactIsNone == NoFact.action = "none" /\ NoFact \notin Facts
BY DEF NoFact, Facts

-----------------------------------------------------------------------------
(* Steps of one request that leave the rows alone                           *)

Only(r) == \A q \in Requests \ {r} : at'[q] = at[q] /\ tx'[q] = tx[q] /\ call'[q] = call[q]

LEMMA StepFacts ==
  ASSUME IInv, NEW r \in Requests, at[r] # "new"
  PROVE  /\ call[r] \in Calls /\ Staged(call[r], at[r]) /\ Wrote(call[r], at[r], tx[r])
         /\ Relies(call[r], at[r], tx[r]) /\ tx[r] \in Work
BY TypeParts DEF IInv, Control, ReadsStand

\* A request that stays where it is keeps what it relies on, as todos keep
\* their items and the trail its records.
LEMMA ReliesKept ==
  ASSUME TypeOK, NEW r \in Requests, Relies(call[r], at[r], tx[r]),
         call[r] # None => call[r] \in Calls,
         call'[r] = call[r], at'[r] = at[r], tx'[r] = tx[r], trail \subseteq trail',
         \A t \in Todos : todos[t] # None => todos'[t] # None /\ todos'[t].item = todos[t].item
  PROVE  Relies(call[r], at[r], tx[r])'
<1>1. tx[r].known \in SUBSET Todos
  BY TypeParts, WorkFacts
<1>2. call[r] # None /\ call[r].kind = "patch" => call[r].todo \in Todos
  BY CallFacts
<1>3. call'[r] # None /\ call'[r].kind = "patch" /\ at'[r] = "committing" => todos'[call'[r].todo] # None
  BY <1>2 DEF Relies
<1>4. \A t \in tx'[r].known : todos'[t] # None
        /\ (tx'[r].closing[t] = "open" => Spared(call'[r], tx'[r], todos'[t].item))
  BY <1>1 DEF Relies
<1>5. call'[r] # None /\ call'[r].kind = "decide" => Delivers(call[r], at[r], tx[r])'
  BY DEF Relies, Delivers
<1> QED
  BY <1>3, <1>4, <1>5 DEF Relies

LEMMA RecordsKept ==
  ASSUME RecordsApart, NEW r \in Requests, Only(r), trail' = trail,
         \/ tx'[r].record \in {NoFact, tx[r].record}
         \/ tx'[r].record.action = "submitted"
         \/ ~RecordHeld(r, tx'[r].record) /\ ~RecordTaken(tx'[r].record)
  PROVE  RecordsApart'
<1> SUFFICES ASSUME NEW p \in Requests, tx'[p].record.action \in Decisions
             PROVE  /\ \A g \in trail : ~Clash(tx'[p].record, g)
                    /\ \A q \in Requests \ {p} : tx'[q].record # NoFact => ~Clash(tx'[q].record, tx'[p].record)
  BY DEF RecordsApart
<1>1. \A f, g : Clash(f, g) <=> Clash(g, f)
  BY DEF Clash
<1>2. \A f, g : g.action = "submitted" /\ f.action \in Decisions => ~Clash(f, g)
  BY DEF Clash, Decisions
<1>3. NoFact.action \notin Decisions
  BY NoFactIsNone DEF Decisions
<1>4. CASE p = r
  <2>1. CASE tx'[r].record \in {NoFact, tx[r].record}
    BY <1>3, <1>4, <2>1 DEF RecordsApart, Only
  <2>2. CASE tx'[r].record.action = "submitted"
    BY <1>4, <2>2 DEF Decisions
  <2>3. CASE ~RecordHeld(r, tx'[r].record) /\ ~RecordTaken(tx'[r].record)
    BY <1>1, <1>4, <2>3 DEF RecordHeld, RecordTaken, Only
  <2> QED
    BY <2>1, <2>2, <2>3
<1>5. CASE p # r
  <2>1. tx'[p] = tx[p] /\ tx[p].record # NoFact
    BY <1>3, <1>5 DEF Only
  <2>2. \A g \in trail : ~Clash(tx'[p].record, g)
    BY <2>1 DEF RecordsApart
  <2>3. \A q \in Requests \ {p, r} : tx'[q].record # NoFact => ~Clash(tx'[q].record, tx'[p].record)
    BY <2>1 DEF RecordsApart, Only
  <2>4. tx'[r].record # NoFact => ~Clash(tx'[r].record, tx'[p].record)
    <3>1. CASE tx'[r].record \in {NoFact, tx[r].record}
      BY <1>5, <2>1, <3>1 DEF RecordsApart
    <3>2. CASE tx'[r].record.action = "submitted"
      BY <1>1, <1>2, <3>2
    <3>3. CASE ~RecordHeld(r, tx'[r].record)
      BY <1>1, <1>5, <2>1, <3>3 DEF RecordHeld
    <3> QED
      BY <3>1, <3>2, <3>3
  <2> QED
    BY <2>2, <2>3, <2>4
<1> QED
  BY <1>4, <1>5

LEMMA SamePlaces ==
  ASSUME NEW i, NEW j
  PROVE  /\ SamePlace(i, j) <=> SamePlace(j, i)
         /\ SamePlace(i, i)
         /\ \A k : SamePlace(i, j) /\ SamePlace(j, k) => SamePlace(i, k)
BY DEF SamePlace

\* A place that is neither held nor taken is given to one more new row.
LEMMA PlacesGrow ==
  ASSUME PlacesApart, NEW r \in Requests, Only(r), UNCHANGED rows, at[r] = "inserting",
         at'[r] # "inserting", tx[r].new \in Seq(Batch), NEW b \in Batch, b.item = Head(tx[r].left),
         tx'[r].new = Append(tx[r].new, b), \A q \in Requests : Len(tx[q].new) \in Nat,
         \A q \in Requests \ {r} : \A n \in 1..Len(tx[q].new) : ~SamePlace(tx[q].new[n].item, b.item),
         ~PlaceTaken(b.item)
  PROVE  PlacesApart'
<1> DEFINE old == tx[r].new
           k == Len(old) + 1
<1>1. /\ Len(old) \in Nat /\ Len(tx'[r].new) = k
      /\ \A n \in 1..Len(old) : tx'[r].new[n] = old[n]
      /\ tx'[r].new[k] = b
      /\ \A n \in 1..k : n \in 1..Len(old) \/ n = k
  BY AppendFacts
<1>2. \A n \in 1..Len(old) : ~SamePlace(old[n].item, b.item)
  BY DEF PlacesApart
<1>3. \A t \in Todos : IsOpen(t) => ~SamePlace(todos[t].item, b.item)
  BY DEF PlaceTaken, OpenOn, SamePlace
<1>4. todos' = todos /\ \A t \in Todos : IsOpen(t)' <=> IsOpen(t)
  BY DEF rows, IsOpen
<1>5. ASSUME NEW p \in Requests, NEW n \in 1..Len(tx'[p].new), NEW t \in Todos, IsOpen(t)'
      PROVE  ~SamePlace(todos'[t].item, tx'[p].new[n].item)
  <2>1. CASE p # r
    BY <1>4, <1>5, <2>1 DEF PlacesApart, Only
  <2>2. CASE p = r
    <3>1. CASE n = k
      BY <1>1, <1>3, <1>4, <1>5, <2>2, <3>1
    <3>2. CASE n \in 1..Len(old)
      BY <1>1, <1>4, <1>5, <2>2, <3>2 DEF PlacesApart
    <3> QED
      BY <1>1, <1>5, <2>2, <3>1, <3>2
  <2> QED
    BY <2>1, <2>2
<1>6. ASSUME NEW p \in Requests, NEW q \in Requests, NEW n \in 1..Len(tx'[p].new),
             NEW m \in 1..Len(tx'[q].new), SamePlace(tx'[p].new[n].item, tx'[q].new[m].item)
      PROVE  p = q /\ n = m
  <2>1. CASE p # r /\ q # r
    <3>1. tx'[p] = tx[p] /\ tx'[q] = tx[q]
      BY <2>1 DEF Only
    <3>2. n \in 1..Len(tx[p].new) /\ m \in 1..Len(tx[q].new)
          /\ SamePlace(tx[p].new[n].item, tx[q].new[m].item)
      BY <1>6, <3>1
    <3> QED
      BY <3>2 DEF PlacesApart
  <2>2. CASE p = r /\ q # r
    <3>1. m \in 1..Len(tx[q].new) /\ tx'[q].new[m] = tx[q].new[m]
      BY <2>2 DEF Only
    <3>2. n \in 1..Len(old)
      BY <1>1, <1>6, <2>2, <3>1, SamePlaces
    <3>3. SamePlace(old[n].item, tx[q].new[m].item)
      BY <1>1, <1>6, <2>2, <3>1, <3>2
    <3> QED
      BY <2>2, <3>1, <3>2, <3>3 DEF PlacesApart
  <2>3. CASE p # r /\ q = r
    <3>1. n \in 1..Len(tx[p].new) /\ tx'[p].new[n] = tx[p].new[n]
      BY <2>3 DEF Only
    <3>2. m \in 1..Len(old)
      BY <1>1, <1>6, <2>3, <3>1
    <3>3. SamePlace(tx[p].new[n].item, old[m].item)
      BY <1>1, <1>6, <2>3, <3>1, <3>2
    <3> QED
      BY <2>3, <3>1, <3>2, <3>3 DEF PlacesApart
  <2>4. CASE p = r /\ q = r
    <3>1. CASE n \in 1..Len(old) /\ m \in 1..Len(old)
      BY <1>1, <1>6, <2>4, <3>1 DEF PlacesApart
    <3>2. CASE n = k /\ m = k
      BY <2>4, <3>2
    <3>3. CASE n = k /\ m \in 1..Len(old)
      BY <1>1, <1>2, <1>6, <2>4, <3>3, SamePlaces
    <3>4. CASE n \in 1..Len(old) /\ m = k
      BY <1>1, <1>2, <1>6, <2>4, <3>4
    <3> QED
      BY <1>1, <2>4, <3>1, <3>2, <3>3, <3>4
  <2> QED
    BY <2>1, <2>2, <2>3, <2>4
<1>7. ASSUME NEW p \in Requests, at'[p] = "inserting", NEW n \in 1..Len(tx'[p].new)
      PROVE  ~SamePlace(tx'[p].new[n].item, Head(tx'[p].left))
  BY <1>7 DEF PlacesApart, Only
<1> QED
  BY <1>5, <1>6, <1>7 DEF PlacesApart

\* No new row, or none more.
LEMMA PlacesKept ==
  ASSUME PlacesApart, NEW r \in Requests, Only(r), UNCHANGED rows,
         \/ tx'[r].new = <<>>
         \/ /\ tx'[r].new = tx[r].new
            /\ at'[r] = "inserting" =>
                 \A n \in 1..Len(tx[r].new) : ~SamePlace(tx[r].new[n].item, Head(tx'[r].left))
  PROVE  PlacesApart'
<1>1. \A p \in Requests : \A n \in 1..Len(tx'[p].new) :
        n \in 1..Len(tx[p].new) /\ tx'[p].new[n] = tx[p].new[n]
  <2>1. Len(<<>>) = 0
    OBVIOUS
  <2> QED
    BY <2>1 DEF Only
<1>2. todos' = todos /\ \A t \in Todos : IsOpen(t)' <=> IsOpen(t)
  BY DEF rows, IsOpen
<1>3. ASSUME NEW p \in Requests, at'[p] = "inserting", NEW n \in 1..Len(tx'[p].new)
      PROVE  ~SamePlace(tx'[p].new[n].item, Head(tx'[p].left))
  <2>1. CASE p # r
    BY <1>3, <2>1 DEF PlacesApart, Only
  <2>2. CASE p = r
    <3>1. Len(<<>>) = 0
      OBVIOUS
    <3> QED
      BY <1>3, <2>2, <3>1
  <2> QED
    BY <2>1, <2>2
<1>4. ASSUME NEW p \in Requests, NEW n \in 1..Len(tx'[p].new), NEW t \in Todos, IsOpen(t)'
      PROVE  ~SamePlace(todos'[t].item, tx'[p].new[n].item)
  BY <1>1, <1>2, <1>4 DEF PlacesApart
<1>5. ASSUME NEW p \in Requests, NEW q \in Requests, NEW n \in 1..Len(tx'[p].new),
             NEW m \in 1..Len(tx'[q].new), SamePlace(tx'[p].new[n].item, tx'[q].new[m].item)
      PROVE  p = q /\ n = m
  <2>1. /\ n \in 1..Len(tx[p].new) /\ tx'[p].new[n] = tx[p].new[n]
        /\ m \in 1..Len(tx[q].new) /\ tx'[q].new[m] = tx[q].new[m]
    BY <1>1
  <2>2. SamePlace(tx[p].new[n].item, tx[q].new[m].item)
    BY <1>5, <2>1
  <2> QED
    BY <2>1, <2>2 DEF PlacesApart
<1> QED
  BY <1>3, <1>4, <1>5 DEF PlacesApart

\* What one request does to itself, the rows unchanged.
LEMMA MineInv ==
  ASSUME IInv, NEW r \in Requests, Only(r), UNCHANGED rows, TypeOK', RecordsApart', PlacesApart',
         at'[r] # "new", call'[r] \in Calls, Staged(call'[r], at'[r]), Wrote(call'[r], at'[r], tx'[r]),
         Relies(call[r], at[r], tx[r])'
  PROVE  IInv'
<1>1. Control'
  <2>1. ASSUME NEW q \in Requests \ {r}
        PROVE  IF at'[q] = "new" THEN call'[q] = None /\ Wrote(call'[q], "new", tx'[q])
               ELSE call'[q] \in Calls /\ Staged(call'[q], at'[q]) /\ Wrote(call'[q], at'[q], tx'[q])
    BY DEF IInv, Control, Only
  <2> QED
    BY <2>1 DEF Control
<1>2. ReadsStand'
  <2>1. ASSUME NEW q \in Requests \ {r}
        PROVE  Relies(call[q], at[q], tx[q])'
    <3>1. Relies(call[q], at[q], tx[q]) /\ (call[q] # None => call[q] \in Calls)
      BY TypeParts DEF IInv, ReadsStand
    <3> QED
      BY <3>1, ReliesKept DEF IInv, Only, rows
  <2> QED
    BY <2>1 DEF ReadsStand
<1>3. WorkIsProper' /\ OneDecisionPerNode' /\ OneOpenTodo' /\ IsFiniteSet(trail)'
  BY DEF IInv, rows, WorkIsProper, OneDecisionPerNode, OneOpenTodo, IsOpen, Improper, Moot, Ended, Decided
<1> QED
  BY <1>1, <1>2, <1>3 DEF IInv

LEMMA GoFacts ==
  ASSUME IInv, NEW r \in Requests, NEW where \in Places, NEW work \in Work, Go(r, where, work)
  PROVE  /\ TypeOK' /\ Only(r) /\ UNCHANGED rows
         /\ at'[r] = where /\ tx'[r] = work /\ call'[r] = call[r]
BY DEF IInv, TypeOK, Go, Only, Places, rows

\* The same, for a request that goes on.
LEMMA GoInv ==
  ASSUME IInv, NEW r \in Requests, at[r] # "new", NEW where \in Places \ {"new"}, NEW work \in Work,
         Go(r, where, work), Staged(call[r], where), Wrote(call[r], where, work), Relies(call[r], where, work),
         RecordsApart', PlacesApart'
  PROVE  IInv'
<1>1. /\ TypeOK' /\ Only(r) /\ UNCHANGED rows
      /\ at'[r] = where /\ tx'[r] = work /\ call'[r] = call[r]
  BY GoFacts
<1>2. call[r] \in Calls
  BY StepFacts
<1>3. Relies(call[r], at[r], tx[r])'
  BY <1>1 DEF Relies, Delivers, rows
<1> QED
  BY <1>1, <1>2, <1>3, MineInv

LEMMA RefuseInv ==
  ASSUME IInv, NEW r \in Requests, at[r] # "new", Refuse(r)
  PROVE  IInv'
<1>1. Go(r, "refused", Nothing) /\ Nothing \in Work /\ "refused" \in Places \ {"new"}
  BY NothingFacts DEF Refuse, Places
<1>2. Only(r) /\ UNCHANGED rows /\ at'[r] = "refused" /\ tx'[r] = Nothing
  BY <1>1, GoFacts
<1>3. call[r] \in Calls /\ Staged(call[r], "refused") /\ Wrote(call[r], "refused", Nothing)
  <2>1. Len(<<>>) = 0
    OBVIOUS
  <2> QED
    BY <2>1, StepFacts, NothingFacts DEF Staged, Wrote
<1>4. Relies(call[r], "refused", Nothing)
  BY NothingFacts DEF Relies, Delivers
<1>5. RecordsApart'
  BY <1>2, NothingFacts, RecordsKept DEF IInv, rows
<1>6. PlacesApart'
  BY <1>2, NothingFacts, PlacesKept DEF IInv
<1> QED
  BY <1>1, <1>3, <1>4, <1>5, <1>6, GoInv

-----------------------------------------------------------------------------
(* The steps up to COMMIT                                                   *)

LEMMA OpenFacts ==
  ASSUME NEW d, NEW t \in OpenOn(d)
  PROVE  t \in Todos /\ todos[t] # None /\ todos[t].state = "open" /\ todos[t].item.doc = d
BY DEF OpenOn, IsOpen

LEMMA DecideInv ==
  ASSUME IInv, NEW r \in Requests, Decide(r)
  PROVE  IInv'
<1> DEFINE c == call[r]
           state == IF c.fact.action = "returned" THEN "cancelled" ELSE "completed"
           held == [tx[r] EXCEPT !.record = c.fact]
           work == Sweep(held, Answered(c), state, c.doc)
<1>1. /\ at[r] = "reading" /\ c.kind = "decide" /\ ~RecordHeld(r, c.fact)
      /\ IF RecordTaken(c.fact) THEN Refuse(r) ELSE Go(r, "moving", work)
  BY DEF Decide
<1>2. /\ c \in Calls /\ Staged(c, "reading") /\ Wrote(c, "reading", tx[r])
      /\ Relies(c, "reading", tx[r]) /\ tx[r] \in Work
  BY <1>1, StepFacts
<1>3. /\ c \in Calls /\ c # None /\ c.fact \in Facts /\ c.fact.action \in Decisions
  BY <1>1, <1>2, CallFacts
<1>4. /\ held \in Work /\ held.record = c.fact /\ held.known = {} /\ held.new = <<>> /\ held.left = tx[r].left
  BY <1>2, <1>3 DEF Wrote, Work
<1>5. Answered(c) \in SUBSET Todos /\ OpenOn(c.doc) \in SUBSET Todos /\ state \in States
  BY DEF Answered, OpenOfType, OpenOn, States
<1> HIDE DEF held, state, work
<1>10. work = Sweep(held, Answered(c), state, c.doc)
  BY DEF work
<1>6. /\ work \in Work /\ work.record = c.fact /\ work.new = <<>> /\ work.left = tx[r].left
      /\ work.known = OpenOn(c.doc)
      /\ \A t \in Todos : work.closing[t] = IF t \in Answered(c) THEN state ELSE held.closing[t]
  <2>1. held \in Work
    BY <1>4
  <2>2. /\ work \in Work /\ work.record = held.record /\ work.new = held.new /\ work.left = held.left
        /\ work.known = held.known \cup OpenOn(c.doc)
        /\ \A t \in Todos : work.closing[t] = IF t \in Answered(c) THEN state ELSE held.closing[t]
    BY <2>1, <1>5, <1>10 DEF Sweep, Work
  <2> QED
    BY <1>4, <2>2
<1>7. state # "open"
  BY DEF state
<1>8. CASE ~RecordTaken(c.fact)
  <2>1. Go(r, "moving", work) /\ "moving" \in Places \ {"new"}
    BY <1>1, <1>8 DEF Places
  <2>2. Only(r) /\ UNCHANGED rows /\ at'[r] = "moving" /\ tx'[r] = work
    BY <1>6, <2>1, GoFacts
  <2>3. Staged(c, "moving") /\ Wrote(c, "moving", work)
    <3>1. Len(<<>>) = 0
      OBVIOUS
    <3> QED
      BY <1>1, <1>2, <1>6, <3>1 DEF Staged, Wrote
  <2>4. Relies(c, "moving", work)
    <3>1. ASSUME NEW t \in work.known
          PROVE  todos[t] # None /\ (work.closing[t] = "open" => Spared(c, work, todos[t].item))
      <4>1. t \in Todos /\ t \in OpenOn(c.doc) /\ todos[t] # None /\ todos[t].item.doc = c.doc
        BY <1>6, <3>1, OpenFacts
      <4>2. work.closing[t] = "open" => t \notin Answered(c)
        BY <1>6, <1>7, <4>1
      <4>3. t \notin Answered(c) /\ todos[t].item.type = "approval" =>
              c.fact.action # "returned" /\ todos[t].item.who # c.by
        BY <4>1 DEF Answered, OpenOfType
      <4> QED
        BY <1>1, <4>1, <4>2, <4>3 DEF Spared
    <3> QED
      BY <1>1, <1>6, <3>1 DEF Relies, Delivers
  <2>5. RecordsApart'
    BY <1>1, <1>6, <1>8, <2>2, RecordsKept DEF IInv, rows
  <2>6. PlacesApart'
    BY <1>6, <2>2, PlacesKept DEF IInv
  <2> QED
    BY <1>1, <1>6, <2>1, <2>3, <2>4, <2>5, <2>6, GoInv
<1> QED
  BY <1>1, <1>8, RefuseInv

LEMMA ReturnsFinite ==
  ASSUME IsFiniteSet(trail), NEW d
  PROVE  RoundOf(d) \in Nat \ {0}
<1>1. Returns(d) \in SUBSET trail
  BY DEF Returns
<1>2. IsFiniteSet(Returns(d))
  BY <1>1, FS_Subset
<1>3. Cardinality(Returns(d)) \in Nat
  BY <1>2, FS_CardinalityType
<1> QED
  BY <1>3 DEF RoundOf

LEMMA ResubmitInv ==
  ASSUME IInv, NEW r \in Requests, Resubmit(r)
  PROVE  IInv'
<1> DEFINE c == call[r]
           fact == [doc |-> c.doc, round |-> RoundOf(c.doc), seq |-> 1, action |-> "submitted"]
           record == IF fact \in trail THEN NoFact ELSE fact
           held == [tx[r] EXCEPT !.record = record]
           work == Sweep(held, Reworked(c.doc), "completed", c.doc)
<1>1. at[r] = "reading" /\ c.kind = "submit" /\ Go(r, "committing", work)
  BY DEF Resubmit
<1>2. /\ c \in Calls /\ c # None /\ Wrote(c, "reading", tx[r]) /\ tx[r] \in Work /\ c.doc \in Docs
  BY <1>1, StepFacts, CallFacts
<1>3. RoundOf(c.doc) \in Nat \ {0}
  BY ReturnsFinite DEF IInv
<1>4. fact \in Facts /\ fact.action = "submitted"
  BY <1>2, <1>3 DEF Facts
<1> HIDE DEF fact
<1>5. record \in Facts \cup {NoFact} /\ (record # NoFact => record.action = "submitted")
  BY <1>4
<1> HIDE DEF record
<1>6. /\ held \in Work /\ held.record = record /\ held.known = {} /\ held.new = <<>> /\ held.left = tx[r].left
  BY <1>1, <1>2, <1>5 DEF Wrote, Work
<1>7. Reworked(c.doc) \in SUBSET Todos /\ OpenOn(c.doc) \in SUBSET Todos /\ "completed" \in States
  BY DEF Reworked, OpenOfType, OpenOn, States
<1> HIDE DEF held, work
<1>14. work = Sweep(held, Reworked(c.doc), "completed", c.doc)
  BY DEF work
<1>8. /\ work \in Work /\ work.record = record /\ work.new = <<>> /\ work.left = tx[r].left
      /\ work.known = OpenOn(c.doc)
      /\ \A t \in Todos : work.closing[t] = IF t \in Reworked(c.doc) THEN "completed" ELSE held.closing[t]
  <2>1. held \in Work
    BY <1>6
  <2>2. /\ work \in Work /\ work.record = held.record /\ work.new = held.new /\ work.left = held.left
        /\ work.known = held.known \cup OpenOn(c.doc)
        /\ \A t \in Todos : work.closing[t] = IF t \in Reworked(c.doc) THEN "completed" ELSE held.closing[t]
    BY <2>1, <1>7, <1>14 DEF Sweep, Work
  <2> QED
    BY <1>6, <2>2
<1>9. Only(r) /\ UNCHANGED rows /\ at'[r] = "committing" /\ tx'[r] = work /\ "committing" \in Places \ {"new"}
  BY <1>1, <1>8, GoFacts DEF Places
<1>10. Staged(c, "committing") /\ Wrote(c, "committing", work)
  <2>1. Len(<<>>) = 0
    OBVIOUS
  <2> QED
    BY <1>1, <1>2, <1>5, <1>8, <2>1 DEF Staged, Wrote
<1>11. Relies(c, "committing", work)
  <2>1. ASSUME NEW t \in work.known
        PROVE  todos[t] # None /\ (work.closing[t] = "open" => Spared(c, work, todos[t].item))
    <3>1. t \in Todos /\ t \in OpenOn(c.doc) /\ todos[t] # None /\ todos[t].item.doc = c.doc
      BY <1>8, <2>1, OpenFacts
    <3>2. work.closing[t] = "open" => t \notin Reworked(c.doc)
      BY <1>8, <3>1
    <3>3. t \notin Reworked(c.doc) => todos[t].item.type # "rework"
      BY <3>1 DEF Reworked, OpenOfType
    <3> QED
      BY <1>1, <3>1, <3>2, <3>3 DEF Spared
  <2> QED
    BY <1>1, <2>1 DEF Relies, Delivers
<1>12. RecordsApart'
  BY <1>5, <1>8, <1>9, RecordsKept DEF IInv, rows
<1>13. PlacesApart'
  BY <1>8, <1>9, PlacesKept DEF IInv
<1> QED
  BY <1>1, <1>8, <1>9, <1>10, <1>11, <1>12, <1>13, GoInv

LEMMA BuryInv ==
  ASSUME IInv, NEW r \in Requests, Bury(r)
  PROVE  IInv'
<1> DEFINE c == call[r]
           work == Sweep(tx[r], Orphaned(c.doc), "cancelled", c.doc)
<1>1. at[r] = "reading" /\ c.kind = "delete" /\ Go(r, "committing", work)
  BY DEF Bury
<1>2. /\ c \in Calls /\ c # None /\ Wrote(c, "reading", tx[r]) /\ tx[r] \in Work
  BY <1>1, StepFacts, CallFacts
<1>3. /\ Orphaned(c.doc) \in SUBSET Todos /\ "cancelled" \in States
      /\ Orphaned(c.doc) = OpenOn(c.doc)
  BY DEF Orphaned, OpenOn, States
<1>4. tx[r].record = NoFact /\ tx[r].known = {} /\ tx[r].new = <<>>
  BY <1>2 DEF Wrote
<1> HIDE DEF work
<1>11. work = Sweep(tx[r], OpenOn(c.doc), "cancelled", c.doc)
  BY DEF work, Orphaned
<1>5. /\ work \in Work /\ work.record = NoFact /\ work.new = <<>> /\ work.left = tx[r].left
      /\ work.known = OpenOn(c.doc)
      /\ \A t \in Todos : work.closing[t] = IF t \in OpenOn(c.doc) THEN "cancelled" ELSE tx[r].closing[t]
  <2>1. tx[r] \in Work
    BY <1>2, <1>4
  <2>2. /\ work \in Work /\ work.record = tx[r].record /\ work.new = tx[r].new /\ work.left = tx[r].left
        /\ work.known = tx[r].known \cup OpenOn(c.doc)
        /\ \A t \in Todos : work.closing[t] = IF t \in OpenOn(c.doc) THEN "cancelled" ELSE tx[r].closing[t]
    BY <2>1, <1>3, <1>11 DEF Sweep, Work
  <2> QED
    BY <1>2, <1>4, <2>2
<1>6. Only(r) /\ UNCHANGED rows /\ at'[r] = "committing" /\ tx'[r] = work /\ "committing" \in Places \ {"new"}
  BY <1>1, <1>5, GoFacts DEF Places
<1>7. Staged(c, "committing") /\ Wrote(c, "committing", work)
  <2>1. Len(<<>>) = 0
    OBVIOUS
  <2> QED
    BY <1>1, <1>2, <1>5, <2>1 DEF Staged, Wrote
<1>8. Relies(c, "committing", work)
  <2>1. ASSUME NEW t \in work.known
        PROVE  todos[t] # None /\ work.closing[t] # "open"
    BY <1>5, <2>1, OpenFacts
  <2> QED
    BY <1>1, <2>1 DEF Relies, Delivers
<1>9. RecordsApart'
  BY <1>5, <1>6, RecordsKept DEF IInv, rows
<1>10. PlacesApart'
  BY <1>5, <1>6, PlacesKept DEF IInv
<1> QED
  BY <1>1, <1>5, <1>6, <1>7, <1>8, <1>9, <1>10, GoInv

LEMMA MoveInv ==
  ASSUME IInv, NEW r \in Requests, Move(r)
  PROVE  IInv'
<1> DEFINE c == call[r]
           work == [tx[r] EXCEPT !.left = c.items]
           swept == Sweep(work, OpenOn(c.doc), "cancelled", c.doc)
<1>1. at[r] = "moving" /\ (Refuse(r) \/ Go(r, "assigning", work) \/ Go(r, "assigning", swept))
  BY DEF Move
<1>2. /\ c \in Calls /\ c # None /\ Staged(c, "moving") /\ Wrote(c, "moving", tx[r])
      /\ Relies(c, "moving", tx[r]) /\ tx[r] \in Work
  BY <1>1, StepFacts, CallFacts
<1>3. /\ c.kind \in {"decide", "status"} /\ c.items \in Seq(Items)
      /\ \A n \in 1..Len(c.items) : Seated(c.items[n])
      /\ c.kind = "decide" => \A n \in 1..Len(c.items) : n = 1
  BY <1>2, CallFacts DEF Staged
<1>4. /\ work \in Work /\ work.record = tx[r].record /\ work.known = tx[r].known /\ work.new = <<>>
      /\ work.left = c.items /\ work.closing = tx[r].closing
  BY <1>2, <1>3 DEF Wrote, Work
<1>5. OpenOn(c.doc) \in SUBSET Todos /\ "cancelled" \in States
  BY DEF OpenOn, States
<1> HIDE DEF work, swept
<1>9. swept = Sweep(work, OpenOn(c.doc), "cancelled", c.doc)
  BY DEF swept
<1>6. /\ swept \in Work /\ swept.record = tx[r].record /\ swept.new = <<>> /\ swept.left = c.items
      /\ swept.known = tx[r].known \cup OpenOn(c.doc)
      /\ \A t \in Todos : swept.closing[t] = IF t \in OpenOn(c.doc) THEN "cancelled" ELSE tx[r].closing[t]
  <2>1. work \in Work
    BY <1>4
  <2>2. /\ swept \in Work /\ swept.record = work.record /\ swept.new = work.new /\ swept.left = work.left
        /\ swept.known = work.known \cup OpenOn(c.doc)
        /\ \A t \in Todos : swept.closing[t] = IF t \in OpenOn(c.doc) THEN "cancelled" ELSE work.closing[t]
    BY <2>1, <1>5, <1>9 DEF Sweep, Work
  <2> QED
    BY <1>4, <2>2
<1>7. \A n \in 1..Len(c.items) : c.kind = "decide" => c.items # <<>> /\ Head(c.items) = c.items[n]
  <2>1. ASSUME NEW n \in 1..Len(c.items), c.kind = "decide"
        PROVE  c.items # <<>> /\ Head(c.items) = c.items[n]
    <3>1. Len(<<>>) = 0 /\ n = 1
      BY <1>3, <2>1
    <3>2. c.items # <<>>
      BY <3>1, <2>1
    <3> QED
      BY <1>3, <3>1, <3>2, TailFacts
  <2> QED
    BY <2>1
<1>8. ASSUME NEW w \in {work, swept}, Go(r, "assigning", w)
      PROVE  IInv'
  <2>1. w \in Work /\ w.record = tx[r].record /\ w.new = <<>> /\ w.left = c.items
    BY <1>4, <1>6, <1>8
  <2>2. Only(r) /\ UNCHANGED rows /\ at'[r] = "assigning" /\ tx'[r] = w /\ "assigning" \in Places \ {"new"}
    BY <1>8, <2>1, GoFacts DEF Places
  <2>3. Staged(c, "assigning") /\ Wrote(c, "assigning", w)
    <3>1. Len(<<>>) = 0
      OBVIOUS
    <3> QED
      BY <1>2, <1>3, <2>1, <3>1 DEF Staged, Wrote
  <2>4. ASSUME NEW t \in w.known
        PROVE  todos[t] # None /\ (w.closing[t] = "open" => Spared(c, w, todos[t].item))
    <3>1. tx[r].known \in SUBSET Todos
      BY <1>2, WorkFacts
    <3>2. CASE t \in OpenOn(c.doc) /\ w = swept
      BY <1>6, <3>2, OpenFacts
    <3>3. CASE t \in tx[r].known /\ w.closing[t] = tx[r].closing[t]
      BY <1>2, <2>1, <3>3 DEF Relies, Spared
    <3> QED
      BY <1>4, <1>6, <2>4, <3>1, <3>2, <3>3
  <2>5. c.kind = "decide" => Delivers(c, "assigning", w)
    BY <1>2, <1>7, <2>1 DEF Relies, Delivers
  <2>6. Relies(c, "assigning", w)
    BY <2>4, <2>5 DEF Relies
  <2>7. RecordsApart'
    BY <2>1, <2>2, RecordsKept DEF IInv, rows
  <2>8. PlacesApart'
    BY <2>1, <2>2, PlacesKept DEF IInv
  <2> QED
    BY <1>1, <1>8, <2>1, <2>2, <2>3, <2>6, <2>7, <2>8, GoInv
<1> QED
  BY <1>1, <1>8, RefuseInv

-----------------------------------------------------------------------------
(* Handoffs                                                                 *)

\* The batch goes on without its first item.
LEMMA RestInv ==
  ASSUME IInv, NEW r \in Requests, at[r] \in {"assigning", "inserting"}, tx[r].left # <<>>,
         Go(r, "assigning", Rest(r)),
         call[r].kind = "decide" =>
           \/ \E t \in Todos : todos[t] # None /\ todos[t].item = Head(tx[r].left)
           \/ \E m \in 1..Len(tx[r].new) : tx[r].new[m].item = Head(tx[r].left)
  PROVE  IInv'
<1> DEFINE c == call[r]
           w == Rest(r)
<1>1. /\ c \in Calls /\ c # None /\ Staged(c, at[r]) /\ Wrote(c, at[r], tx[r])
      /\ Relies(c, at[r], tx[r]) /\ tx[r] \in Work
  BY StepFacts, CallFacts
<1>2. /\ Tail(tx[r].left) \in Seq(Items)
      /\ \A n \in 1..Len(Tail(tx[r].left)) :
           n + 1 \in 1..Len(tx[r].left) /\ Tail(tx[r].left)[n] = tx[r].left[n + 1]
  BY <1>1, WorkFacts, TailFacts
<1>3. /\ w \in Work /\ w.record = tx[r].record /\ w.known = tx[r].known /\ w.new = tx[r].new
      /\ w.left = Tail(tx[r].left) /\ w.closing = tx[r].closing
  BY <1>1, <1>2 DEF Rest, Work
<1> HIDE DEF w
<1>4. Go(r, "assigning", w) /\ "assigning" \in Places \ {"new"}
  BY DEF w, Places
<1>5. Only(r) /\ UNCHANGED rows /\ at'[r] = "assigning" /\ tx'[r] = w
  BY <1>3, <1>4, GoFacts
<1>6. Staged(c, "assigning")
  BY <1>1 DEF Staged
<1>7. Wrote(c, "assigning", w)
  <2>1. \A n \in 1..Len(w.left) : Seated(w.left[n])
    BY <1>1, <1>2, <1>3 DEF Wrote
  <2> QED
    BY <1>1, <1>3, <2>1 DEF Wrote
<1>8. Relies(c, "assigning", w)
  <2>1. \A t \in w.known : todos[t] # None /\ (w.closing[t] = "open" => Spared(c, w, todos[t].item))
    BY <1>1, <1>3 DEF Relies, Spared
  <2>2. c.kind = "decide" => Delivers(c, "assigning", w)
    BY <1>1, <1>3 DEF Relies, Delivers
  <2> QED
    BY <2>1, <2>2 DEF Relies
<1>9. RecordsApart'
  BY <1>3, <1>5, RecordsKept DEF IInv, rows
<1>10. PlacesApart'
  BY <1>3, <1>5, PlacesKept DEF IInv
<1> QED
  BY <1>3, <1>4, <1>6, <1>7, <1>8, <1>9, <1>10, GoInv

LEMMA FailInv ==
  ASSUME IInv, NEW r \in Requests, at[r] \in {"assigning", "inserting"}, tx[r].left # <<>>, Fail(r)
  PROVE  IInv'
<1>1. Refuse(r) \/ (call[r].kind # "decide" /\ Go(r, "assigning", Rest(r)))
  BY DEF Fail
<1> QED
  BY <1>1, RefuseInv, RestInv

LEMMA LookInv ==
  ASSUME IInv, NEW r \in Requests, Look(r)
  PROVE  IInv'
<1> DEFINE c == call[r]
           i == Head(tx[r].left)
           w == [tx[r] EXCEPT !.fine = ~Moot(i, Facing(r))]
<1>1. /\ at[r] = "assigning" /\ tx[r].left # <<>>
      /\ \/ Fail(r)
         \/ ~Barred(r, i) /\ InPlace(r, i) = {} /\ Go(r, "inserting", w)
         \/ InPlace(r, i) = {i} /\ Go(r, "assigning", Rest(r))
  BY DEF Look
<1>2. CASE InPlace(r, i) = {i} /\ Go(r, "assigning", Rest(r))
  <2>1. i \in InPlace(r, i)
    BY <1>2
  <2>2. tx[r].new \in Seq(Batch)
    BY <1>1, StepFacts, WorkFacts DEF Batch
  <2>3. \/ \E t \in Todos : todos[t] # None /\ todos[t].item = i
        \/ \E m \in 1..Len(tx[r].new) : tx[r].new[m].item = i
    BY <2>1, <2>2, LenProperties DEF InPlace, OpenOn, IsOpen
  <2> QED
    BY <1>1, <1>2, <2>3, RestInv
<1>3. CASE ~Barred(r, i) /\ InPlace(r, i) = {} /\ Go(r, "inserting", w)
  <2>1. /\ c \in Calls /\ c # None /\ Staged(c, "assigning") /\ Wrote(c, "assigning", tx[r])
        /\ Relies(c, "assigning", tx[r]) /\ tx[r] \in Work
    BY <1>1, StepFacts, CallFacts
  <2>2. ~Moot(i, Facing(r))
    BY <1>3 DEF Barred
  <2>3. /\ w \in Work /\ w.record = tx[r].record /\ w.known = tx[r].known /\ w.new = tx[r].new
        /\ w.left = tx[r].left /\ w.closing = tx[r].closing /\ w.fine = TRUE
    BY <2>1, <2>2 DEF Work
  <2> HIDE DEF w
  <2>4. Go(r, "inserting", w) /\ "inserting" \in Places \ {"new"}
    BY <1>3 DEF Places
  <2>5. Only(r) /\ UNCHANGED rows /\ at'[r] = "inserting" /\ tx'[r] = w
    BY <2>3, <2>4, GoFacts
  <2>6. Staged(c, "inserting") /\ Wrote(c, "inserting", w)
    BY <1>1, <2>1, <2>3 DEF Staged, Wrote
  <2>7. Relies(c, "inserting", w)
    <3>1. \A t \in w.known : todos[t] # None /\ (w.closing[t] = "open" => Spared(c, w, todos[t].item))
      BY <2>1, <2>3 DEF Relies, Spared
    <3>2. c.kind = "decide" => Delivers(c, "inserting", w)
      BY <2>1, <2>3 DEF Relies, Delivers
    <3> QED
      BY <3>1, <3>2 DEF Relies
  <2>8. RecordsApart'
    BY <2>3, <2>5, RecordsKept DEF IInv, rows
  <2>9. \A n \in 1..Len(tx[r].new) : ~SamePlace(tx[r].new[n].item, i)
    <3>1. DOMAIN tx[r].new = 1..Len(tx[r].new)
      BY <2>1, WorkFacts, LenProperties
    <3> QED
      BY <1>3, <3>1 DEF InPlace
  <2>10. PlacesApart'
    BY <2>3, <2>5, <2>9, PlacesKept DEF IInv
  <2> QED
    BY <1>1, <2>3, <2>4, <2>6, <2>7, <2>8, <2>10, GoInv
<1> QED
  BY <1>1, <1>2, <1>3, FailInv

LEMMA InsertInv ==
  ASSUME IInv, NEW r \in Requests, Insert(r)
  PROVE  IInv'
<1> DEFINE c == call[r]
           i == Head(tx[r].left)
           b == [item |-> i, fine |-> tx[r].fine]
           w == [Rest(r) EXCEPT !.new = Append(@, b)]
<1>1. /\ at[r] = "inserting" /\ ~PlaceHeld(r, i)
      /\ Fail(r) \/ (~PlaceTaken(i) /\ Go(r, "assigning", w))
  BY DEF Insert
<1>2. /\ c \in Calls /\ c # None /\ Staged(c, "inserting") /\ Wrote(c, "inserting", tx[r])
      /\ Relies(c, "inserting", tx[r]) /\ tx[r] \in Work
  BY <1>1, StepFacts, CallFacts
<1>3. tx[r].left # <<>> /\ tx[r].fine = TRUE
  BY <1>2, WorkFacts DEF Wrote
<1>4. CASE ~PlaceTaken(i) /\ Go(r, "assigning", w)
  <2>1. /\ Tail(tx[r].left) \in Seq(Items) /\ i \in Items /\ i = tx[r].left[1] /\ 1 \in 1..Len(tx[r].left)
        /\ \A n \in 1..Len(Tail(tx[r].left)) :
             n + 1 \in 1..Len(tx[r].left) /\ Tail(tx[r].left)[n] = tx[r].left[n + 1]
    BY <1>2, <1>3, WorkFacts, TailFacts
  <2>2. b \in Batch /\ b.item = i /\ b.fine = TRUE
    BY <1>3, <2>1 DEF Batch
  <2>3. tx[r].new \in Seq(Batch)
    BY <1>2, WorkFacts DEF Batch
  <2> HIDE DEF b
  <2> DEFINE more == Append(tx[r].new, b)
  <2>4. /\ more \in Seq(Batch) /\ Len(tx[r].new) \in Nat /\ Len(more) = Len(tx[r].new) + 1
        /\ \A n \in 1..Len(tx[r].new) : more[n] = tx[r].new[n]
        /\ more[Len(tx[r].new) + 1] = b
        /\ \A n \in 1..Len(more) : n \in 1..Len(tx[r].new) \/ n = Len(tx[r].new) + 1
    BY <2>2, <2>3, AppendFacts
  <2>5. w = [tx[r] EXCEPT !.left = Tail(@), !.new = more]
    BY <1>2 DEF Rest, Work
  <2> HIDE DEF more
  <2>6. /\ w \in Work /\ w.record = tx[r].record /\ w.known = tx[r].known /\ w.new = more
        /\ w.left = Tail(tx[r].left) /\ w.closing = tx[r].closing
    BY <1>2, <2>1, <2>4, <2>5 DEF Work, Batch
  <2>7. Go(r, "assigning", w) /\ "assigning" \in Places \ {"new"}
    BY <1>4 DEF Places
  <2> HIDE DEF w
  <2>8. Only(r) /\ UNCHANGED rows /\ at'[r] = "assigning" /\ tx'[r] = w
    BY <2>6, <2>7, GoFacts
  <2>9. Staged(c, "assigning")
    BY <1>2 DEF Staged
  <2>10. Wrote(c, "assigning", w)
    <3>1. \A n \in 1..Len(w.left) : Seated(w.left[n])
      BY <1>2, <2>1, <2>6 DEF Wrote
    <3>2. Seated(i)
      BY <1>2, <2>1 DEF Wrote
    <3>3. \A n \in 1..Len(w.new) : Seated(w.new[n].item) /\ w.new[n].fine
      BY <1>2, <2>2, <2>4, <2>6, <3>2 DEF Wrote
    <3> QED
      BY <1>2, <2>6, <3>1, <3>3 DEF Wrote
  <2>11. Relies(c, "assigning", w)
    <3>1. \A t \in w.known : todos[t] # None /\ (w.closing[t] = "open" => Spared(c, w, todos[t].item))
      BY <1>2, <2>6 DEF Relies, Spared
    <3>2. c.kind = "decide" => Delivers(c, "assigning", w)
      <4>1. ASSUME c.kind = "decide", NEW n \in 1..Len(c.items)
            PROVE  \/ \E t \in Todos : todos[t] # None /\ todos[t].item = c.items[n]
                   \/ \E m \in 1..Len(w.new) : w.new[m].item = c.items[n]
        <5>1. \/ i = c.items[n]
              \/ \E t \in Todos : todos[t] # None /\ todos[t].item = c.items[n]
              \/ \E m \in 1..Len(tx[r].new) : tx[r].new[m].item = c.items[n]
          BY <1>2, <4>1 DEF Relies, Delivers
        <5>2. CASE i = c.items[n]
          <6>1. Len(tx[r].new) + 1 \in 1..Len(w.new) /\ w.new[Len(tx[r].new) + 1].item = i
            BY <2>2, <2>4, <2>6
          <6> QED
            BY <5>2, <6>1
        <5>3. ASSUME NEW m \in 1..Len(tx[r].new), tx[r].new[m].item = c.items[n]
              PROVE  m \in 1..Len(w.new) /\ w.new[m].item = c.items[n]
          BY <2>4, <2>6, <5>3
        <5> QED
          BY <5>1, <5>2, <5>3
      <4>2. c.kind = "decide" => c.fact \in trail \/ w.record = c.fact
        BY <1>2, <2>6 DEF Relies, Delivers
      <4> QED
        BY <4>1, <4>2 DEF Delivers
    <3> QED
      BY <3>1, <3>2 DEF Relies
  <2>12. RecordsApart'
    BY <2>6, <2>8, RecordsKept DEF IInv, rows
  <2>13. PlacesApart'
    <3>1. \A q \in Requests : Len(tx[q].new) \in Nat
      BY TypeParts, WorkFacts DEF IInv
    <3>2. \A q \in Requests \ {r} : \A n \in 1..Len(tx[q].new) : ~SamePlace(tx[q].new[n].item, b.item)
      <4>1. ASSUME NEW q \in Requests \ {r}, NEW n \in 1..Len(tx[q].new)
            PROVE  ~SamePlace(tx[q].new[n].item, i)
        <5>1. n \in DOMAIN tx[q].new
          BY TypeParts, WorkFacts, LenProperties DEF IInv
        <5> QED
          BY <1>1, <5>1 DEF PlaceHeld
      <4> QED
        BY <2>2, <4>1
    <3>3. ~PlaceTaken(b.item) /\ b.item = Head(tx[r].left)
      BY <1>4, <2>2
    <3>4. tx'[r].new = Append(tx[r].new, b)
      BY <2>6, <2>8 DEF more
    <3>5. PlacesApart
      BY DEF IInv
    <3> QED
      BY <1>1, <2>2, <2>3, <2>8, <3>1, <3>2, <3>3, <3>4, <3>5, PlacesGrow
  <2> QED
    BY <1>1, <2>6, <2>7, <2>9, <2>10, <2>11, <2>12, <2>13, GoInv
<1> QED
  BY <1>1, <1>3, <1>4, FailInv

-----------------------------------------------------------------------------
(* Beginning                                                                *)

LEMMA LoadedType ==
  ASSUME TypeOK, NEW c \in Calls
  PROVE  Loaded(c) \in [status : Statuses \cup States, live : BOOLEAN] \cup {None}
<1>1. c.kind = "patch" => c.todo \in Todos
  BY CallFacts
<1>2. CASE c.kind = "patch"
  <2>1. todos[c.todo] # None => todos[c.todo].state \in States
    BY <1>1, <1>2, RowFacts
  <2> QED
    BY <1>2, <2>1 DEF Loaded, States
<1>3. CASE c.kind \notin {"patch", "assign"}
  <2>1. c.doc \in Docs
    BY <1>3, CallFacts
  <2>2. status[c.doc] \in Statuses /\ live[c.doc] \in BOOLEAN
    BY <2>1 DEF TypeOK
  <2> QED
    BY <1>3, <2>2 DEF Loaded
<1>4. CASE c.kind = "assign"
  BY <1>4 DEF Loaded
<1> QED
  BY <1>2, <1>3, <1>4

\* A request stands where its kind may, and a retry stands on the trail.
LEMMA BeginStage ==
  ASSUME NEW r \in Requests, NEW c \in Calls, Begin(r, c), at \in [Requests -> Places]
  PROVE  /\ at'[r] \in Places \ {"new"} /\ Staged(c, at'[r]) /\ at'[r] # "inserting"
         /\ c.kind = "patch" /\ at'[r] = "committing" => todos[c.todo] # None
         /\ c.kind = "decide" => at'[r] \notin {"assigning", "inserting"}
         /\ c.kind = "decide" /\ at'[r] = "moving" => c.fact \in trail
         /\ at'[r] = "assigning" => c.kind = "assign"
<1>1. at'[r] = CASE c.kind = "decide" -> DecideFrom(c)
                 [] c.kind = "submit" -> SubmitFrom(c)
                 [] c.kind = "assign" -> "assigning"
                 [] OTHER -> LifeFrom(c)
  BY DEF Begin
<1>2. c.kind \in {"decide", "submit", "assign", "status", "delete", "restore", "patch"}
  BY CallFacts
<1>3. CASE c.kind = "decide"
  <2>1. \/ DecideFrom(c) \in {"refused", "reading"}
        \/ DecideFrom(c) = "moving" /\ c.fact \in trail
    BY DEF DecideFrom, RetryGoesOn
  <2> QED
    BY <1>1, <1>3, <2>1 DEF Places, Staged
<1>4. CASE c.kind = "submit"
  <2>1. SubmitFrom(c) \in {"refused", "done", "reading"}
    BY DEF SubmitFrom
  <2> QED
    BY <1>1, <1>4, <2>1 DEF Places, Staged
<1>5. CASE c.kind = "assign"
  BY <1>1, <1>5 DEF Places, Staged
<1>6. CASE c.kind \in {"status", "delete", "restore", "patch"}
  <2>1. /\ c.kind = "delete" => LifeFrom(c) \in {"reading", "done"}
        /\ c.kind = "restore" => LifeFrom(c) \in {"done", "committing"}
        /\ c.kind = "status" => LifeFrom(c) \in {"moving", "refused"}
        /\ c.kind = "patch" => LifeFrom(c) = "refused" \/ (LifeFrom(c) = "committing" /\ todos[c.todo] # None)
    BY DEF LifeFrom
  <2>2. at'[r] = LifeFrom(c)
    BY <1>1, <1>6
  <2> QED
    BY <1>6, <2>1, <2>2 DEF Places, Staged
<1> QED
  BY <1>2, <1>3, <1>4, <1>5, <1>6

LEMMA BeginInv ==
  ASSUME IInv, NEW r \in Requests, NEW c \in Calls, Begin(r, c)
  PROVE  IInv'
<1> DEFINE items == IF c.kind = "assign" THEN c.items ELSE <<>>
           w == [tx[r] EXCEPT !.left = items]
<1>1. /\ TypeOK /\ at \in [Requests -> Places] /\ at[r] = "new"
      /\ call' = [call EXCEPT ![r] = c] /\ seen' = [seen EXCEPT ![r] = Loaded(c)]
      /\ tx' = [tx EXCEPT ![r] = w] /\ UNCHANGED rows
  BY DEF IInv, TypeOK, Places, Begin
<1>2. at'[r] \in Places \ {"new"} /\ Staged(c, at'[r])
  BY <1>1, BeginStage
<1>3. c.items \in Seq(Items) /\ \A n \in 1..Len(c.items) : Seated(c.items[n])
  BY CallFacts
<1>4. items \in Seq(Items) /\ \A n \in 1..Len(items) : Seated(items[n])
  <2>1. <<>> \in Seq(Items) /\ Len(<<>>) = 0
    BY EmptySeq
  <2> QED
    BY <1>3, <2>1
<1>5. tx[r] \in Work /\ Wrote(call[r], "new", tx[r])
  BY <1>1, TypeParts DEF IInv, Control
<1>6. tx[r].record = NoFact /\ tx[r].known = {} /\ tx[r].new = <<>>
  BY <1>5 DEF Wrote
<1> HIDE DEF items
<1>7. w \in Work /\ w.record = NoFact /\ w.known = {} /\ w.new = <<>> /\ w.left = items
  BY <1>4, <1>5, <1>6 DEF Work
<1> HIDE DEF w
<1>8. tx'[r] = w /\ call'[r] = c
  BY <1>1 DEF TypeOK
<1>9. Only(r)
  BY <1>1 DEF Only, Begin, TypeOK
<1>10. TypeOK'
  <2>1. at' \in [Requests -> Places]
    BY <1>1, <1>2 DEF Begin
  <2>2. seen' \in [Requests -> [status : Statuses \cup States, live : BOOLEAN] \cup {None}]
    BY <1>1, LoadedType DEF TypeOK
  <2>3. call' \in [Requests -> Calls \cup {None}] /\ tx' \in [Requests -> Work]
    BY <1>1, <1>7 DEF TypeOK
  <2> QED
    BY <1>1, <2>1, <2>2, <2>3 DEF TypeOK, Places, rows
<1>11. Wrote(call'[r], at'[r], tx'[r])
  <2>1. Len(<<>>) = 0 /\ at'[r] # "inserting"
    BY <1>1, BeginStage
  <2> QED
    BY <1>4, <1>7, <1>8, <2>1 DEF Wrote
<1>12. Relies(call[r], at[r], tx[r])'
  <2>1. /\ c.kind = "patch" /\ at'[r] = "committing" => todos[c.todo] # None
        /\ c.kind = "decide" => at'[r] \notin {"assigning", "inserting"}
        /\ c.kind = "decide" /\ at'[r] = "moving" => c.fact \in trail
    BY <1>1, BeginStage
  <2> QED
    BY <1>1, <1>7, <1>8, <2>1 DEF Relies, Delivers, rows
<1>13. RecordsApart'
  BY <1>1, <1>7, <1>8, <1>9, RecordsKept DEF IInv, rows
<1>14. PlacesApart'
  BY <1>1, <1>7, <1>8, <1>9, PlacesKept DEF IInv
<1> QED
  BY <1>1, <1>2, <1>8, <1>9, <1>10, <1>11, <1>12, <1>13, <1>14, MineInv

-----------------------------------------------------------------------------
(* The ids of new rows                                                      *)

Place(t) == Cardinality({u \in Vacant : u < t}) + 1

\* The vacant ids are numbered from one without gaps or doubles.
LEMMA Numbering ==
  /\ IsFiniteSet(Vacant)
  /\ \A t \in Vacant : Place(t) \in 1..Cardinality(Vacant)
  /\ \A t, u \in Vacant : Place(t) = Place(u) => t = u
  /\ \A n \in 1..Cardinality(Vacant) : \E t \in Vacant : Place(t) = n
<1> DEFINE Below(t) == {u \in Vacant : u < t}
           size == Cardinality(Vacant)
<1>1. Vacant \in SUBSET Todos /\ Todos \subseteq Nat /\ IsFiniteSet(Todos)
  BY ApprovalsAssumption DEF Vacant
<1>2. IsFiniteSet(Vacant)
  BY <1>1, FS_Subset
<1>3. size \in Nat
  BY <1>2, FS_CardinalityType
<1>4. ASSUME NEW t \in Vacant
      PROVE  IsFiniteSet(Below(t)) /\ Cardinality(Below(t)) \in Nat /\ Cardinality(Below(t)) < size
  <2>1. Below(t) \in SUBSET Vacant /\ t \notin Below(t)
    BY <1>1
  <2>2. IsFiniteSet(Below(t)) /\ Cardinality(Below(t)) <= size /\ Below(t) # Vacant
    BY <1>2, <2>1, FS_Subset
  <2>3. Cardinality(Below(t)) \in Nat
    BY <2>2, FS_CardinalityType
  <2>4. Cardinality(Below(t)) # size
    BY <1>2, <2>1, <2>2, FS_Subset
  <2> QED
    BY <1>3, <2>2, <2>3, <2>4
<1>5. \A t \in Vacant : Place(t) = Cardinality(Below(t)) + 1
  BY DEF Place
<1> HIDE DEF Below
<1>6. ASSUME NEW t \in Vacant
      PROVE  Place(t) \in 1..size /\ Place(t) \in Nat
  <2>1. Cardinality(Below(t)) \in Nat /\ Cardinality(Below(t)) < size /\ Place(t) = Cardinality(Below(t)) + 1
    BY <1>4, <1>5
  <2> QED
    BY <1>3, <2>1
<1>7. ASSUME NEW t \in Vacant, NEW u \in Vacant, t < u
      PROVE  Place(t) < Place(u)
  <2>1. Below(t) \in SUBSET Below(u) /\ t \in Below(u) /\ t \notin Below(t)
    <3>1. t \in Nat /\ u \in Nat /\ \A v \in Vacant : v \in Nat
      BY <1>1
    <3>2. ASSUME NEW v \in Below(t)
          PROVE  v \in Below(u)
      BY <1>7, <3>1, <3>2 DEF Below
    <3>3. t \in Below(u) /\ t \notin Below(t)
      BY <1>7, <3>1 DEF Below
    <3> QED
      BY <3>2, <3>3
  <2>2. Cardinality(Below(t)) <= Cardinality(Below(u))
    BY <1>4, <2>1, FS_Subset
  <2>3. Cardinality(Below(t)) # Cardinality(Below(u))
    BY <1>4, <2>1, FS_Subset
  <2> QED
    BY <1>4, <1>5, <2>2, <2>3
<1>8. ASSUME NEW t \in Vacant, NEW u \in Vacant, Place(t) = Place(u)
      PROVE  t = u
  <2>1. t \in Nat /\ u \in Nat
    BY <1>1
  <2>2. Place(t) \in Nat /\ Place(u) \in Nat
    BY <1>6
  <2>3. ~(t < u) /\ ~(u < t)
    BY <1>7, <1>8, <2>2
  <2> QED
    BY <2>1, <2>3
<1>9. ASSUME NEW n \in 1..size
      PROVE  \E t \in Vacant : Place(t) = n
  <2> DEFINE f == [t \in Vacant |-> Place(t)]
  <2>1. f \in Injection(Vacant, 1..size)
    BY <1>6, <1>8 DEF Injection, IsInjective
  <2>2. IsFiniteSet(1..size) /\ Cardinality(1..size) = size
    BY <1>3, FS_Interval
  <2>3. f \in Surjection(Vacant, 1..size)
    BY <2>1, <2>2, FS_Injection
  <2>4. \E t \in Vacant : f[t] = n
    BY <2>3 DEF Surjection
  <2> QED
    BY <2>4
<1> QED
  BY <1>2, <1>6, <1>8, <1>9

-----------------------------------------------------------------------------
(* COMMIT                                                                   *)

Hand(r, t) == call[r].kind = "patch" /\ call[r].todo = t /\ call[r].to = "open" /\ seen[r].status # "open"

LEMMA CommitFacts ==
  ASSUME IInv, NEW r \in Requests, Commit(r)
  PROVE  /\ at[r] # "new" /\ call[r] \in Calls /\ call[r] # None /\ tx[r] \in Work
         /\ Wrote(call[r], at[r], tx[r]) /\ Relies(call[r], at[r], tx[r])
         /\ at[r] = "committing" \/ (at[r] = "assigning" /\ tx[r].left = <<>>)
         /\ call[r].kind = "patch" => /\ todos[call[r].todo] # None /\ call[r].todo \in Todos
                                      /\ call[r].to \in States /\ tx[r].new = <<>> /\ tx[r].known = {}
         /\ \A t \in Todos : Hand(r, t) =>
              /\ IsOpen(t) \/ ~PlaceTaken(todos[t].item)
              /\ ~PlaceHeld(r, todos[t].item)
<1>1. /\ at[r] = "committing" \/ (at[r] = "assigning" /\ tx[r].left = <<>>)
      /\ ~Rejected(r)
      /\ Reopens(r) => ~PlaceHeld(r, todos[call[r].todo].item)
  BY DEF Commit, Ready
<1>2. /\ call[r] \in Calls /\ call[r] # None /\ tx[r] \in Work /\ Staged(call[r], at[r])
      /\ Wrote(call[r], at[r], tx[r]) /\ Relies(call[r], at[r], tx[r])
  BY <1>1, StepFacts, CallFacts
<1>3. call[r].kind = "patch" => at[r] = "committing"
  BY <1>1, <1>2 DEF Staged
<1>4. call[r].kind = "patch" => /\ todos[call[r].todo] # None /\ call[r].todo \in Todos
                                /\ call[r].to \in States /\ tx[r].new = <<>> /\ tx[r].known = {}
  BY <1>2, <1>3, CallFacts DEF Relies, Wrote
<1>5. \A t \in Todos : Hand(r, t) =>
        (IsOpen(t) \/ ~PlaceTaken(todos[t].item)) /\ ~PlaceHeld(r, todos[t].item)
  BY <1>1 DEF Hand, Rejected, Reopens
<1> QED
  BY <1>1, <1>2, <1>4, <1>5

\* What the sweeps and the inserts make of a todo.
LEMMA WrittenFacts ==
  ASSUME TypeOK, NEW w \in Work, NEW t \in Todos
  PROVE  /\ DOMAIN Written(w) = Todos
         /\ todos[t] # None =>
              /\ Written(w)[t] \in Rows /\ Written(w)[t].item = todos[t].item
              /\ Written(w)[t].loose = todos[t].loose
              /\ Written(w)[t].state = IF w.closing[t] = "open" THEN todos[t].state ELSE w.closing[t]
         /\ todos[t] = None /\ Place(t) \in 1..Len(w.new) =>
              /\ Written(w)[t] \in Rows /\ Written(w)[t].item = w.new[Place(t)].item
         /\ todos[t] = None /\ Place(t) \notin 1..Len(w.new) => Written(w)[t] = None
<1>1. w.closing[t] \in States /\ w.new \in Seq(Batch) /\ Len(w.new) \in Nat
  BY WorkFacts DEF Batch
<1>2. DOMAIN Written(w) = Todos
  BY DEF Written
<1>3. /\ Written(w)[t] = IF w.closing[t] = "open" \/ todos[t] = None THEN Filled(w)[t]
                         ELSE [todos[t] EXCEPT !.state = w.closing[t]]
      /\ Filled(w)[t] = IF t \in Vacant /\ Place(t) <= Len(w.new)
                        THEN [item |-> w.new[Place(t)].item, state |-> "open", loose |-> FALSE]
                        ELSE todos[t]
  BY DEF Written, Filled, Place
<1>4. CASE todos[t] # None
  <2>1. todos[t] \in Rows /\ t \notin Vacant
    BY <1>4, RowFacts DEF Vacant
  <2>2. CASE w.closing[t] = "open"
    BY <1>2, <1>3, <1>4, <2>1, <2>2
  <2>3. CASE w.closing[t] # "open"
    <3>1. Written(w)[t] = [todos[t] EXCEPT !.state = w.closing[t]]
      BY <1>3, <1>4, <2>3
    <3> QED
      BY <1>1, <1>2, <1>4, <2>1, <2>3, <3>1 DEF Rows
  <2> QED
    BY <2>2, <2>3
<1>5. CASE todos[t] = None
  <2>1. t \in Vacant
    BY <1>5 DEF Vacant
  <2>2. Place(t) \in Nat \ {0}
    BY <2>1, Numbering
  <2>3. CASE Place(t) \in 1..Len(w.new)
    <3>1. Place(t) <= Len(w.new)
      BY <1>1, <2>2, <2>3
    <3>2. w.new[Place(t)].item \in Items
      <4>1. w.new[Place(t)] \in Batch
        BY <1>1, <2>3, ElementOfSeq
      <4> QED
        BY <4>1 DEF Batch
    <3>3. Written(w)[t] = [item |-> w.new[Place(t)].item, state |-> "open", loose |-> FALSE]
      BY <1>3, <1>5, <2>1, <3>1
    <3> QED
      BY <1>2, <1>5, <2>3, <3>2, <3>3 DEF Rows, States
  <2>4. CASE Place(t) \notin 1..Len(w.new)
    <3>1. ~(Place(t) <= Len(w.new))
      BY <1>1, <2>2, <2>4
    <3> QED
      BY <1>2, <1>3, <1>5, <2>4, <3>1
  <2> QED
    BY <2>3, <2>4
<1> QED
  BY <1>4, <1>5

\* What a commit makes of it.
LEMMA CommitRows ==
  ASSUME IInv, NEW r \in Requests, Commit(r), NEW t \in Todos
  PROVE  /\ DOMAIN todos' = Todos
         /\ todos'[t] \in Rows \cup {None}
         /\ todos[t] # None => /\ todos'[t] # None /\ todos'[t].item = todos[t].item
                               /\ todos[t].loose => todos'[t].loose
         /\ todos[t] = None /\ todos'[t] # None => Place(t) \in 1..Len(tx[r].new)
         /\ todos[t] = None /\ Place(t) \in 1..Len(tx[r].new) =>
              todos'[t] # None /\ todos'[t].item = tx[r].new[Place(t)].item
         /\ todos[t] # None /\ IsOpen(t)' => (tx[r].closing[t] = "open" /\ IsOpen(t)) \/ Hand(r, t)
         /\ IsOpen(t)' /\ Improper(todos'[t].item, trail', status', live') /\ Blameless(r, t) => todos'[t].loose
<1> DEFINE c == call[r]
           one == Written(tx[r])
           two == Patched(r, one)
           bad == /\ two[t] # None /\ two[t].state = "open"
                  /\ Improper(two[t].item, trail', status', live') /\ Blameless(r, t)
<1>1. TypeOK /\ tx[r] \in Work /\ None \notin Rows
  BY CommitFacts, ApprovalsAssumption DEF IInv
<1>2. /\ DOMAIN one = Todos
      /\ todos[t] # None =>
           /\ one[t] \in Rows /\ one[t].item = todos[t].item
           /\ one[t].loose = todos[t].loose
           /\ one[t].state = IF tx[r].closing[t] = "open" THEN todos[t].state ELSE tx[r].closing[t]
      /\ todos[t] = None /\ Place(t) \in 1..Len(tx[r].new) =>
           /\ one[t] \in Rows /\ one[t].item = tx[r].new[Place(t)].item
      /\ todos[t] = None /\ Place(t) \notin 1..Len(tx[r].new) => one[t] = None
  BY <1>1, WrittenFacts
<1>3. todos' = Marked(r, two)
  BY DEF Commit
<1>4. two = IF c.kind = "patch" /\ c.to # seen[r].status
            THEN [one EXCEPT ![c.todo].state = c.to] ELSE one
  BY DEF Patched
<1> HIDE DEF one, two
<1>5. /\ DOMAIN two = Todos
      /\ two[t] \in Rows \cup {None}
      /\ two[t] = None <=> one[t] = None
      /\ one[t] # None => two[t].item = one[t].item /\ two[t].loose = one[t].loose
      /\ one[t] # None /\ two[t].state = "open" =>
           \/ one[t].state = "open"
           \/ c.kind = "patch" /\ c.to # seen[r].status /\ c.todo = t /\ c.to = "open"
  <2>1. one[t] \in Rows \cup {None}
    BY <1>2
  <2>2. CASE c.kind = "patch" /\ c.to # seen[r].status /\ c.todo = t
    <3>1. todos[t] # None /\ c.to \in States
      BY <2>2, CommitFacts
    <3>2. one[t] \in Rows
      BY <1>2, <3>1
    <3>3. two[t] = [one[t] EXCEPT !.state = c.to] /\ DOMAIN two = Todos
      BY <1>2, <1>4, <2>2
    <3> QED
      BY <1>1, <2>2, <3>1, <3>2, <3>3 DEF Rows
  <2>3. CASE ~(c.kind = "patch" /\ c.to # seen[r].status /\ c.todo = t)
    <3>1. two[t] = one[t] /\ DOMAIN two = Todos
      BY <1>2, <1>4, <2>3
    <3> QED
      BY <2>1, <3>1
  <2> QED
    BY <2>2, <2>3
<1>6. DOMAIN todos' = Todos /\ todos'[t] = IF bad THEN [two[t] EXCEPT !.loose = TRUE] ELSE two[t]
  BY <1>3 DEF Marked
<1>7. /\ todos'[t] \in Rows \cup {None}
      /\ todos'[t] = None <=> two[t] = None
      /\ two[t] # None => /\ todos'[t].item = two[t].item /\ todos'[t].state = two[t].state
                          /\ two[t].loose => todos'[t].loose
                          /\ bad => todos'[t].loose
  <2>1. CASE bad
    <3>1. two[t] \in Rows /\ todos'[t] = [two[t] EXCEPT !.loose = TRUE]
      BY <1>5, <1>6, <2>1
    <3>2. [two[t] EXCEPT !.loose = TRUE] \in Rows
      BY <3>1 DEF Rows
    <3> HIDE DEF bad
    <3> QED
      BY <1>1, <3>1, <3>2 DEF Rows
  <2>2. CASE ~bad
    <3> HIDE DEF bad
    <3> QED
      BY <1>5, <1>6, <2>2
  <2> QED
    BY <2>1, <2>2
<1>8. IsOpen(t)' <=> todos'[t] # None /\ todos'[t].state = "open"
  BY DEF IsOpen
<1>9. IsOpen(t)' /\ Improper(todos'[t].item, trail', status', live') /\ Blameless(r, t) => todos'[t].loose
  BY <1>7, <1>8
<1>10. todos[t] # None /\ IsOpen(t)' => (tx[r].closing[t] = "open" /\ IsOpen(t)) \/ Hand(r, t)
  BY <1>1, <1>2, <1>5, <1>7, <1>8 DEF IsOpen, Hand
<1> HIDE DEF bad
<1> QED
  BY <1>1, <1>2, <1>5, <1>6, <1>7, <1>9, <1>10

\* An open todo was open before, is one of the batch's, or was reopened by hand
\* where none is open and none is being inserted.
LEMMA Origins ==
  ASSUME IInv, NEW r \in Requests, Commit(r), NEW t \in Todos, IsOpen(t)'
  PROVE  \/ IsOpen(t) /\ todos'[t].item = todos[t].item
         \/ /\ todos[t] = None /\ t \in Vacant /\ Place(t) \in 1..Len(tx[r].new)
            /\ todos'[t].item = tx[r].new[Place(t)].item
         \/ /\ ~IsOpen(t) /\ todos[t] # None /\ Hand(r, t) /\ todos'[t].item = todos[t].item
            /\ tx[r].new = <<>> /\ ~PlaceTaken(todos[t].item) /\ ~PlaceHeld(r, todos[t].item)
<1>1. CASE todos[t] = None
  BY <1>1, CommitRows DEF IsOpen, Vacant
<1>2. CASE todos[t] # None
  <2>1. todos'[t].item = todos[t].item /\ (IsOpen(t) \/ Hand(r, t))
    BY <1>2, CommitRows
  <2>2. CASE ~IsOpen(t)
    BY <1>2, <2>1, <2>2, CommitFacts DEF Hand
  <2> QED
    BY <2>1, <2>2
<1> QED
  BY <1>1, <1>2

LEMMA CommitPlaces ==
  ASSUME IInv, NEW r \in Requests, Commit(r)
  PROVE  OneOpenTodo' /\ PlacesApart'
<1>1. OneOpenTodo /\ PlacesApart
  BY DEF IInv
<1>2. Len(<<>>) = 0
  OBVIOUS
<1>3. \A q \in Requests : tx[q].new \in Seq(Batch) /\ DOMAIN tx[q].new = 1..Len(tx[q].new)
  BY TypeParts, WorkFacts, LenProperties DEF IInv, Batch
<1>4. \A q \in Requests \ {r} : tx'[q] = tx[q] /\ at'[q] = at[q]
  BY DEF Commit
<1>5. tx'[r] = Nothing /\ at'[r] = "done"
  BY DEF Commit, IInv, TypeOK
<1>6. ASSUME NEW t \in Todos, NEW u \in Todos, IsOpen(t)', IsOpen(u)',
             SamePlace(todos'[t].item, todos'[u].item), IsOpen(t) /\ todos'[t].item = todos[t].item
      PROVE  t = u
  <2>1. CASE IsOpen(u) /\ todos'[u].item = todos[u].item
    BY <1>1, <1>6, <2>1 DEF OneOpenTodo
  <2>2. CASE Place(u) \in 1..Len(tx[r].new) /\ todos'[u].item = tx[r].new[Place(u)].item
    BY <1>1, <1>6, <2>2 DEF PlacesApart
  <2>3. CASE todos'[u].item = todos[u].item /\ ~PlaceTaken(todos[u].item)
    BY <1>6, <2>3 DEF PlaceTaken, OpenOn, SamePlace
  <2> QED
    BY <1>6, <2>1, <2>2, <2>3, Origins
<1>7. ASSUME NEW t \in Todos, NEW u \in Todos, IsOpen(t)', IsOpen(u)',
             SamePlace(todos'[t].item, todos'[u].item)
      PROVE  t = u
  <2>1. SamePlace(todos'[u].item, todos'[t].item)
    BY <1>7, SamePlaces
  <2>2. CASE (IsOpen(t) /\ todos'[t].item = todos[t].item) \/ (IsOpen(u) /\ todos'[u].item = todos[u].item)
    BY <1>6, <1>7, <2>1, <2>2
  <2>3. CASE /\ t \in Vacant /\ Place(t) \in 1..Len(tx[r].new) /\ todos'[t].item = tx[r].new[Place(t)].item
             /\ u \in Vacant /\ Place(u) \in 1..Len(tx[r].new) /\ todos'[u].item = tx[r].new[Place(u)].item
    <3>1. Place(t) = Place(u)
      BY <1>1, <1>7, <2>3 DEF PlacesApart
    <3> QED
      BY <2>3, <3>1, Numbering
  <2>4. CASE Hand(r, t) /\ Hand(r, u)
    BY <2>4 DEF Hand
  <2> QED
    BY <1>2, <1>7, <2>2, <2>3, <2>4, Origins
<1>8. ASSUME NEW q \in Requests, NEW n \in 1..Len(tx'[q].new)
      PROVE  q # r /\ n \in 1..Len(tx[q].new) /\ tx'[q].new[n] = tx[q].new[n]
  <2>1. q # r
    BY <1>2, <1>5, NothingFacts
  <2> QED
    BY <1>4, <2>1
<1>9. ASSUME NEW q \in Requests, NEW n \in 1..Len(tx'[q].new), NEW t \in Todos, IsOpen(t)'
      PROVE  ~SamePlace(todos'[t].item, tx'[q].new[n].item)
  <2>1. q # r /\ n \in 1..Len(tx[q].new) /\ tx'[q].new[n] = tx[q].new[n]
    BY <1>8
  <2>2. CASE IsOpen(t) /\ todos'[t].item = todos[t].item
    BY <1>1, <2>1, <2>2 DEF PlacesApart
  <2>3. CASE Place(t) \in 1..Len(tx[r].new) /\ todos'[t].item = tx[r].new[Place(t)].item
    BY <1>1, <2>1, <2>3 DEF PlacesApart
  <2>4. CASE todos'[t].item = todos[t].item /\ ~PlaceHeld(r, todos[t].item)
    <3>1. n \in DOMAIN tx[q].new
      BY <1>3, <2>1
    <3>2. ~SamePlace(tx[q].new[n].item, todos[t].item)
      BY <2>1, <2>4, <3>1 DEF PlaceHeld
    <3> QED
      BY <2>1, <2>4, <3>2, SamePlaces
  <2> QED
    BY <1>9, <2>2, <2>3, <2>4, Origins
<1>10. ASSUME NEW p \in Requests, NEW q \in Requests, NEW n \in 1..Len(tx'[p].new),
              NEW m \in 1..Len(tx'[q].new), SamePlace(tx'[p].new[n].item, tx'[q].new[m].item)
       PROVE  p = q /\ n = m
  <2>1. /\ n \in 1..Len(tx[p].new) /\ tx'[p].new[n] = tx[p].new[n]
        /\ m \in 1..Len(tx[q].new) /\ tx'[q].new[m] = tx[q].new[m]
    BY <1>8
  <2>2. SamePlace(tx[p].new[n].item, tx[q].new[m].item)
    BY <1>10, <2>1
  <2> QED
    BY <1>1, <2>1, <2>2 DEF PlacesApart
<1>11. ASSUME NEW p \in Requests, at'[p] = "inserting", NEW n \in 1..Len(tx'[p].new)
       PROVE  ~SamePlace(tx'[p].new[n].item, Head(tx'[p].left))
  <2>1. p # r
    BY <1>8
  <2> QED
    BY <1>1, <1>4, <1>11, <2>1 DEF PlacesApart
<1>12. OneOpenTodo'
  BY <1>7 DEF OneOpenTodo
<1> QED
  BY <1>9, <1>10, <1>11, <1>12 DEF PlacesApart

\* The trail of a commit.
LEMMA CommitTrail ==
  ASSUME IInv, NEW r \in Requests, Commit(r)
  PROVE  /\ trail' \subseteq Facts /\ IsFiniteSet(trail') /\ trail \subseteq trail'
         /\ OneDecisionPerNode' /\ RecordsApart'
         /\ \A f \in trail' : f \in trail \/ (f = tx[r].record /\ tx[r].record # NoFact)
<1>1. trail' = trail \cup ({tx[r].record} \ {NoFact})
  BY DEF Commit
<1>2. trail \subseteq Facts /\ IsFiniteSet(trail) /\ OneDecisionPerNode /\ RecordsApart
  BY DEF IInv, TypeOK
<1>3. tx[r].record \in Facts \cup {NoFact}
  BY CommitFacts, WorkFacts
<1>4. \A f \in trail' : f \in trail \/ (f = tx[r].record /\ tx[r].record # NoFact)
  BY <1>1
<1>5. IsFiniteSet(trail')
  <2>1. IsFiniteSet(trail \cup {tx[r].record})
    BY <1>2, FS_AddElement
  <2>2. trail' \in SUBSET (trail \cup {tx[r].record})
    BY <1>1
  <2> QED
    BY <2>1, <2>2, FS_Subset
<1>6. OneDecisionPerNode'
  <2>1. ASSUME NEW f \in trail, tx[r].record.action \in Decisions, f.action \in Decisions
        PROVE  Node(f) # Node(tx[r].record)
    <3>1. ~Clash(tx[r].record, f)
      BY <1>2, <2>1 DEF RecordsApart
    <3> QED
      BY <2>1, <3>1 DEF Clash
  <2>2. ASSUME NEW f \in trail', NEW g \in trail', Node(f) = Node(g), {f.action, g.action} \subseteq Decisions
        PROVE  f = g
    <3>1. f.action \in Decisions /\ g.action \in Decisions
      BY <2>2
    <3>2. CASE f \in trail /\ g \in trail
      BY <1>2, <2>2, <3>2 DEF OneDecisionPerNode
    <3> QED
      BY <1>4, <2>1, <2>2, <3>1, <3>2
  <2> QED
    BY <2>2 DEF OneDecisionPerNode
<1>7. RecordsApart'
  <2>1. /\ \A q \in Requests \ {r} : tx'[q] = tx[q]
        /\ tx'[r] = Nothing /\ tx'[r].record = NoFact /\ NoFact.action \notin Decisions
    BY NothingFacts, NoFactIsNone DEF Commit, IInv, TypeOK, Decisions
  <2>2. ASSUME NEW p \in Requests, tx'[p].record.action \in Decisions
        PROVE  /\ \A g \in trail' : ~Clash(tx'[p].record, g)
               /\ \A q \in Requests \ {p} : tx'[q].record # NoFact => ~Clash(tx'[q].record, tx'[p].record)
    <3>1. p # r /\ tx'[p] = tx[p] /\ tx[p].record.action \in Decisions
      BY <2>1, <2>2
    <3>2. \A f, g : Clash(f, g) <=> Clash(g, f)
      BY DEF Clash
    <3>3. ASSUME NEW g \in trail'
          PROVE  ~Clash(tx'[p].record, g)
      <4>1. CASE g \in trail
        BY <1>2, <3>1, <4>1 DEF RecordsApart
      <4>2. CASE g = tx[r].record /\ tx[r].record # NoFact
        <5>1. ~Clash(tx[r].record, tx[p].record)
          BY <1>2, <3>1, <4>2 DEF RecordsApart
        <5> QED
          BY <3>1, <3>2, <4>2, <5>1
      <4> QED
        BY <1>4, <4>1, <4>2
    <3>4. ASSUME NEW q \in Requests \ {p}, tx'[q].record # NoFact
          PROVE  ~Clash(tx'[q].record, tx'[p].record)
      <4>1. tx'[q] = tx[q]
        BY <2>1, <3>4
      <4> QED
        BY <1>2, <3>1, <3>4, <4>1 DEF RecordsApart
    <3> QED
      BY <3>3, <3>4
  <2> QED
    BY <2>2 DEF RecordsApart
<1> QED
  BY <1>1, <1>2, <1>3, <1>4, <1>5, <1>6, <1>7

\* An item that was proper, and that the request knew of and spared, stays so.
LEMMA StaysProper ==
  ASSUME IInv, NEW r \in Requests, Commit(r), NEW i \in Items, Seated(i),
         Spared(call[r], tx[r], i), ~Improper(i, trail, status, live)
  PROVE  ~Improper(i, trail', status', live')
<1> DEFINE c == call[r]
<1>1. /\ c \in Calls /\ Wrote(c, at[r], tx[r]) /\ i.doc \in Docs
      /\ status \in [Docs -> Statuses] /\ live \in [Docs -> BOOLEAN]
  BY CommitFacts DEF Items, IInv, TypeOK
<1>2. /\ c.kind \in {"decide", "submit", "status", "delete", "restore"} => c.doc \in Docs
      /\ c.kind = "decide" => c.fact.doc = c.doc /\ c.by = Seat[c.fact.seq]
      /\ c.kind \in {"decide", "status"} => c.to \in (Statuses \ {"submitted"}) \cup {None}
  BY <1>1, CallFacts
<1>3. live'[i.doc]
  <2>1. live[i.doc]
    BY DEF Improper
  <2>2. ~(c.kind = "delete" /\ c.doc = i.doc)
    BY DEF Spared
  <2>3. live' = CASE c.kind = "delete" -> [live EXCEPT ![c.doc] = FALSE]
                  [] c.kind = "restore" -> [live EXCEPT ![c.doc] = TRUE]
                  [] OTHER -> live
    BY DEF Commit
  <2> QED
    BY <1>1, <1>2, <2>1, <2>2, <2>3
<1>4. ~(i.type = "rework" /\ status'[i.doc] = "submitted")
  <2>1. SUFFICES ASSUME i.type = "rework"
                 PROVE  status'[i.doc] # "submitted"
    OBVIOUS
  <2>2. status[i.doc] # "submitted" /\ ~(c.kind = "submit" /\ i.doc = c.doc)
    BY <2>1 DEF Improper, Spared
  <2>3. status' = CASE c.kind = "submit" -> [status EXCEPT ![c.doc] = "submitted"]
                    [] c.kind \in {"decide", "status"} /\ Moves(r) -> [status EXCEPT ![c.doc] = c.to]
                    [] OTHER -> status
    BY DEF Commit
  <2>4. c.kind \in {"decide", "status"} /\ Moves(r) => c.to # "submitted"
    BY <1>2 DEF Moves
  <2> QED
    BY <1>1, <1>2, <2>2, <2>3, <2>4
<1>5. ASSUME NEW f \in trail', i.type = "approval", Node(f) = Node(i), f.action \in Decisions
      PROVE  FALSE
  <2>1. f \notin trail
    BY <1>5 DEF Improper, Moot, Decided
  <2>2. f = tx[r].record /\ tx[r].record # NoFact
    BY <2>1, CommitTrail
  <2>3. c.kind = "decide" /\ f = c.fact
    BY <1>1, <1>5, <2>2 DEF Wrote, Decisions
  <2>4. i.doc = c.doc /\ i.seq = c.fact.seq
    BY <1>2, <1>5, <2>3 DEF Node
  <2>5. i.who = c.by
    BY <1>2, <1>5, <2>3, <2>4 DEF Seated
  <2> QED
    BY <1>5, <2>2, <2>3, <2>4, <2>5 DEF Spared
<1>6. ASSUME NEW f \in trail', i.type = "approval", f.doc = i.doc, f.action = "returned", f.round >= i.round
      PROVE  FALSE
  <2>1. f \notin trail
    BY <1>6 DEF Improper, Ended
  <2>2. f = tx[r].record /\ tx[r].record # NoFact
    BY <2>1, CommitTrail
  <2>3. c.kind = "decide" /\ f = c.fact
    BY <1>1, <1>6, <2>2 DEF Wrote
  <2>4. i.doc = c.doc /\ c.fact.action = "returned"
    BY <1>2, <1>6, <2>3
  <2> QED
    BY <1>6, <2>2, <2>3, <2>4 DEF Spared
<1> QED
  BY <1>3, <1>4, <1>5, <1>6 DEF Improper, Moot, Decided, Ended

LEMMA CommitProper ==
  ASSUME IInv, NEW r \in Requests, Commit(r)
  PROVE  WorkIsProper'
<1> SUFFICES ASSUME NEW t \in Todos, todos'[t] # None
             PROVE  /\ Seated(todos'[t].item)
                    /\ IsOpen(t)' /\ ~todos'[t].loose =>
                         ~Improper(todos'[t].item, trail', status', live')
  BY DEF WorkIsProper
<1>1. Wrote(call[r], at[r], tx[r]) /\ tx[r] \in Work /\ Relies(call[r], at[r], tx[r])
  BY CommitFacts
<1>2. CASE todos[t] = None
  <2>1. Place(t) \in 1..Len(tx[r].new) /\ todos'[t].item = tx[r].new[Place(t)].item
    BY <1>2, CommitRows
  <2>2. Seated(tx[r].new[Place(t)].item) /\ tx[r].new[Place(t)].fine
    BY <1>1, <2>1 DEF Wrote
  <2>3. Blameless(r, t)
    BY <1>2, <2>2 DEF Blameless, Place
  <2> QED
    BY <2>1, <2>2, <2>3, CommitRows
<1>3. CASE todos[t] # None
  <2>1. todos'[t].item = todos[t].item /\ Seated(todos[t].item)
    BY <1>3, CommitRows DEF IInv, WorkIsProper
  <2>2. ASSUME IsOpen(t)', ~todos'[t].loose, Improper(todos'[t].item, trail', status', live')
        PROVE  FALSE
    <3>1. ~Blameless(r, t)
      BY <2>2, CommitRows
    <3>2. t \in tx[r].known
      BY <1>3, <3>1 DEF Blameless
    <3>3. call[r].kind # "patch"
      BY <3>2, CommitFacts
    <3>4. tx[r].closing[t] = "open" /\ IsOpen(t) /\ ~todos[t].loose
      BY <1>3, <2>2, <3>3, CommitRows DEF Hand
    <3>5. Spared(call[r], tx[r], todos[t].item)
      BY <1>1, <3>2, <3>4 DEF Relies
    <3>6. ~Improper(todos[t].item, trail, status, live)
      BY <1>3, <3>4 DEF IInv, WorkIsProper
    <3>7. todos[t].item \in Items
      BY <1>3, RowFacts DEF IInv
    <3> QED
      BY <2>1, <2>2, <3>5, <3>6, <3>7, StaysProper
  <2> QED
    BY <2>1, <2>2
<1> QED
  BY <1>2, <1>3

LEMMA CommitType ==
  ASSUME IInv, NEW r \in Requests, Commit(r)
  PROVE  TypeOK'
<1> DEFINE c == call[r]
<1>1. TypeOK /\ c \in Calls
  BY CommitFacts DEF IInv
<1>2. trail' \subseteq Facts
  BY CommitTrail
<1>3. todos' \in [Todos -> Rows \cup {None}]
  <2>1. \A t \in Todos : todos'[t] \in Rows \cup {None}
    BY CommitRows
  <2>2. todos' = [t \in Todos |-> todos'[t]]
    BY DEF Commit, Marked
  <2> QED
    BY <2>1, <2>2
<1>4. status' \in [Docs -> Statuses]
  <2>1. c.kind \in {"decide", "status"} /\ Moves(r) => c.to \in Statuses
    BY <1>1, CallFacts DEF Moves
  <2>2. c.kind = "submit" => c.doc \in Docs
    BY <1>1, CallFacts
  <2>3. "submitted" \in Statuses /\ status \in [Docs -> Statuses]
    BY <1>1 DEF Statuses, TypeOK
  <2> QED
    BY <2>1, <2>3 DEF Commit
<1>5. live' \in [Docs -> BOOLEAN]
  BY <1>1 DEF Commit, TypeOK
<1>6. at' \in [Requests -> Places] /\ tx' \in [Requests -> Work] /\ UNCHANGED <<call, seen>>
  BY <1>1, NothingFacts DEF Commit, TypeOK, Places
<1> QED
  BY <1>1, <1>2, <1>3, <1>4, <1>5, <1>6 DEF TypeOK, Places

LEMMA CommitInv ==
  ASSUME IInv, NEW r \in Requests, Commit(r)
  PROVE  IInv'
<1>1. /\ at'[r] = "done" /\ tx'[r] = Nothing /\ call' = call
      /\ \A q \in Requests \ {r} : at'[q] = at[q] /\ tx'[q] = tx[q]
  BY DEF Commit, IInv, TypeOK
<1>2. Control'
  <2>1. Len(<<>>) = 0
    OBVIOUS
  <2>2. call[r] \in Calls /\ Staged(call[r], "done") /\ Wrote(call[r], "done", Nothing)
    BY <2>1, CommitFacts, NothingFacts DEF Staged, Wrote
  <2>3. ASSUME NEW q \in Requests \ {r}
        PROVE  IF at'[q] = "new" THEN call'[q] = None /\ Wrote(call'[q], "new", tx'[q])
               ELSE call'[q] \in Calls /\ Staged(call'[q], at'[q]) /\ Wrote(call'[q], at'[q], tx'[q])
    BY <1>1 DEF IInv, Control
  <2> QED
    BY <1>1, <2>2, <2>3 DEF Control
<1>3. ReadsStand'
  <2>1. \A t \in Todos : todos[t] # None => todos'[t] # None /\ todos'[t].item = todos[t].item
    BY CommitRows
  <2>2. ASSUME NEW q \in Requests \ {r}
        PROVE  Relies(call[q], at[q], tx[q])'
    <3>1. Relies(call[q], at[q], tx[q]) /\ (call[q] # None => call[q] \in Calls)
      BY TypeParts DEF IInv, ReadsStand
    <3> QED
      BY <1>1, <2>1, <3>1, CommitTrail, ReliesKept DEF IInv
  <2>3. Relies(call[r], at[r], tx[r])'
    BY <1>1, NothingFacts DEF Relies, Delivers
  <2> QED
    BY <2>2, <2>3 DEF ReadsStand
<1> QED
  BY <1>2, <1>3, CommitType, CommitTrail, CommitPlaces, CommitProper DEF IInv


-----------------------------------------------------------------------------
(* The steps together                                                       *)

LEMMA InitIInv == Init => IInv
<1> SUFFICES ASSUME Init
             PROVE  IInv
  OBVIOUS
<1>1. /\ status = Filed /\ live = [d \in Docs |-> TRUE] /\ trail = FiledTrail /\ todos = FiledTodos
      /\ at = [r \in Requests |-> "new"] /\ call = [r \in Requests |-> None]
      /\ seen = [r \in Requests |-> None] /\ tx = [r \in Requests |-> Nothing]
  BY DEF Init
<1>2. Len(<<>>) = 0
  OBVIOUS
<1>3. TypeOK /\ IsFiniteSet(trail)
  BY <1>1, NothingFacts, ApprovalsAssumption DEF TypeOK
<1>4. Control
  BY <1>1, <1>2, NothingFacts DEF Control, Wrote
<1>5. ReadsStand
  BY <1>1, NothingFacts DEF ReadsStand, Relies
<1>6. RecordsApart
  BY <1>1, NothingFacts, NoFactIsNone DEF RecordsApart, Decisions
<1>7. PlacesApart
  BY <1>1, <1>2, NothingFacts DEF PlacesApart
<1>8. WorkIsProper
  <2>1. ASSUME NEW t \in Todos, todos[t] # None
        PROVE  /\ Seated(todos[t].item)
               /\ IsOpen(t) => ~Improper(todos[t].item, trail, status, live)
    BY <1>1, <2>1, FiledAssumption DEF Seated, IsOpen
  <2> QED
    BY <2>1 DEF WorkIsProper
<1>9. OneDecisionPerNode
  BY <1>1, FiledAssumption DEF OneDecisionPerNode
<1>10. OneOpenTodo
  BY <1>1, FiledAssumption DEF OneOpenTodo, IsOpen
<1> QED
  BY <1>3, <1>4, <1>5, <1>6, <1>7, <1>8, <1>9, <1>10 DEF IInv

LEMMA NextIInv ==
  ASSUME IInv, Next
  PROVE  IInv'
<1>1. PICK r \in Requests : Step(r) \/ \E c \in Calls : Begin(r, c)
  BY DEF Next
<1>2. CASE Decide(r)
  BY <1>2, DecideInv
<1>3. CASE Resubmit(r)
  BY <1>3, ResubmitInv
<1>4. CASE Bury(r)
  BY <1>4, BuryInv
<1>5. CASE Move(r)
  BY <1>5, MoveInv
<1>6. CASE Look(r)
  BY <1>6, LookInv
<1>7. CASE Insert(r)
  BY <1>7, InsertInv
<1>8. CASE Deadlock(r)
  <2>1. at[r] = "inserting" /\ Refuse(r)
    BY <1>8 DEF Deadlock, WaitsFor
  <2> QED
    BY <2>1, RefuseInv
<1>9. CASE Commit(r)
  BY <1>9, CommitInv
<1>10. CASE RefuseCommit(r)
  <2>1. at[r] # "new" /\ Refuse(r)
    BY <1>10 DEF RefuseCommit, Ready
  <2> QED
    BY <2>1, RefuseInv
<1>11. CASE \E c \in Calls : Begin(r, c)
  BY <1>11, BeginInv
<1> QED
  BY <1>1, <1>2, <1>3, <1>4, <1>5, <1>6, <1>7, <1>8, <1>9, <1>10, <1>11 DEF Step

LEMMA StutterIInv ==
  ASSUME IInv, UNCHANGED vars
  PROVE  IInv'
<1>1. UNCHANGED <<status, live, trail, todos, at, call, seen, tx>>
  BY DEF vars, rows
<1>2. TypeOK' /\ IsFiniteSet(trail)' /\ Control'
  BY <1>1 DEF IInv, TypeOK, Control
<1>3. ReadsStand'
  BY <1>1 DEF IInv, ReadsStand, Relies, Delivers
<1>4. RecordsApart' /\ PlacesApart'
  BY <1>1 DEF IInv, RecordsApart, PlacesApart, IsOpen
<1>5. WorkIsProper'
  BY <1>1 DEF IInv, WorkIsProper, IsOpen
<1>6. OneDecisionPerNode' /\ OneOpenTodo'
  BY <1>1 DEF IInv, OneDecisionPerNode, OneOpenTodo, IsOpen
<1> QED
  BY <1>2, <1>3, <1>4, <1>5, <1>6 DEF IInv

\* Only a commit answers a decision.
LEMMA AnswersCommit ==
  ASSUME IInv, Next, NEW r \in Requests, Completes(r)
  PROVE  Commit(r)
<1>1. at'[r] = "done" /\ at[r] # "done" /\ at[r] # "new"
  BY DEF Completes, IInv, Control
<1>2. PICK q \in Requests : Step(q) \/ \E c \in Calls : Begin(q, c)
  BY DEF Next
<1>3. at \in [Requests -> Places]
  BY DEF IInv, TypeOK, Places
<1>4. ASSUME NEW where, where # "done", NEW work, Go(q, where, work)
      PROVE  FALSE
  BY <1>1, <1>3, <1>4 DEF Go
<1>5. ~Refuse(q) /\ ~Fail(q)
  BY <1>4 DEF Refuse, Fail
<1>6. ~Decide(q) /\ ~Resubmit(q) /\ ~Bury(q)
  BY <1>4, <1>5 DEF Decide, Resubmit, Bury
<1>7. ~Move(q)
  BY <1>4, <1>5 DEF Move
<1>8. ~Look(q) /\ ~Insert(q)
  BY <1>4, <1>5 DEF Look, Insert
<1>9. ~Deadlock(q) /\ ~RefuseCommit(q)
  BY <1>5 DEF Deadlock, RefuseCommit
<1>10. ~\E c \in Calls : Begin(q, c)
  BY <1>1, <1>3 DEF Begin
<1>11. Commit(q)
  BY <1>2, <1>6, <1>7, <1>8, <1>9, <1>10 DEF Step
<1>12. q = r
  BY <1>1, <1>3, <1>11 DEF Commit
<1> QED
  BY <1>11, <1>12

LEMMA AnswerDelivers ==
  ASSUME IInv, Next, NEW r \in Requests, Completes(r)
  PROVE  LET c == call[r]
         IN  /\ c.fact \in trail'
             /\ c.to # None /\ status[c.doc] = seen[r].status => status'[c.doc] = c.to
             /\ \A n \in DOMAIN c.items :
                  \E t \in Todos : todos'[t] # None /\ todos'[t].item = c.items[n]
<1> DEFINE c == call[r]
<1>1. Commit(r) /\ c.kind = "decide"
  BY AnswersCommit DEF Completes
<1>2. /\ c \in Calls /\ c # None /\ tx[r] \in Work /\ at[r] # "new"
      /\ Relies(c, at[r], tx[r])
      /\ at[r] = "committing" \/ (at[r] = "assigning" /\ tx[r].left = <<>>)
  BY <1>1, CommitFacts
<1>3. at[r] = "assigning" /\ tx[r].left = <<>>
  BY <1>1, <1>2, StepFacts DEF Staged
<1>4. Delivers(c, "assigning", tx[r])
  BY <1>1, <1>2, <1>3 DEF Relies
<1>5. c.fact \in Facts /\ c.doc \in Docs /\ c.items \in Seq(Items)
  BY <1>1, <1>2, CallFacts
<1>6. c.fact \in trail'
  <2>1. c.fact \in trail \/ tx[r].record = c.fact
    BY <1>4 DEF Delivers
  <2>2. trail' = trail \cup ({tx[r].record} \ {NoFact})
    BY <1>1 DEF Commit
  <2> QED
    BY <1>5, <2>1, <2>2, NoFactIsNone
<1>7. ASSUME c.to # None, status[c.doc] = seen[r].status
      PROVE  status'[c.doc] = c.to
  <2>1. status' = IF Moves(r) THEN [status EXCEPT ![c.doc] = c.to] ELSE status
    BY <1>1 DEF Commit
  <2>2. status \in [Docs -> Statuses]
    BY DEF IInv, TypeOK
  <2>3. ~Moves(r) => c.to = seen[r].status
    BY <1>7 DEF Moves
  <2> QED
    BY <1>5, <1>7, <2>1, <2>2, <2>3
<1>8. ASSUME NEW n \in 1..Len(c.items)
      PROVE  \E t \in Todos : todos'[t] # None /\ todos'[t].item = c.items[n]
  <2>1. CASE \E t \in Todos : todos[t] # None /\ todos[t].item = c.items[n]
    BY <1>1, <2>1, CommitRows
  <2>2. CASE \E m \in 1..Len(tx[r].new) : tx[r].new[m].item = c.items[n]
    <3>1. PICK m \in 1..Len(tx[r].new) : tx[r].new[m].item = c.items[n]
      BY <2>2
    <3>2. Len(tx[r].new) \in Nat /\ Len(tx[r].new) <= Cardinality(Vacant)
      BY <1>1, <1>2, WorkFacts DEF Commit, RoomFor
    <3>3. Cardinality(Vacant) \in Nat
      BY Numbering, FS_CardinalityType
    <3>4. m \in 1..Cardinality(Vacant)
      BY <3>2, <3>3
    <3>5. PICK t \in Vacant : Place(t) = m
      BY <3>4, Numbering
    <3>6. t \in Todos /\ todos[t] = None
      BY DEF Vacant
    <3> QED
      BY <1>1, <3>1, <3>5, <3>6, CommitRows
  <2> QED
    BY <1>3, <1>4, <2>1, <2>2 DEF Delivers
<1>9. DOMAIN c.items = 1..Len(c.items)
  BY <1>5, LenProperties
<1> QED
  BY <1>6, <1>7, <1>8, <1>9

-----------------------------------------------------------------------------
(* Theorems                                                                 *)

\* What every request has written and still relies on stays consistent with the
\* committed rows, though none of them locks the leave.
THEOREM ApprovalsInvariance == Spec => []IInv
<1>1. Init => IInv
  BY InitIInv
<1>2. IInv /\ [Next]_vars => IInv'
  BY NextIInv, StutterIInv
<1> QED
  BY <1>1, <1>2, PTL DEF Spec

\* Every column keeps its domain, whatever the calls.
THEOREM ApprovalsTypeCorrect == Spec => []TypeOK
<1>1. IInv => TypeOK
  BY DEF IInv
<1> QED
  BY <1>1, ApprovalsInvariance, PTL

\* ensure_node_undecided and the index approval_records_one_decision_uk keep a
\* step to one decision, for any number of deciders at once.
THEOREM OneDecision == Spec => []OneDecisionPerNode
<1>1. IInv => OneDecisionPerNode
  BY DEF IInv
<1> QED
  BY <1>1, ApprovalsInvariance, PTL

\* todos_open_entity_assignee_uk keeps a person to one open todo on a document,
\* whoever assigns, returns or reopens.
THEOREM OneTodo == Spec => []OneOpenTodo
<1>1. IInv => OneOpenTodo
  BY DEF IInv
<1> QED
  BY <1>1, ApprovalsInvariance, PTL

\* No call that could see the work it made pointless leaves it open: a submitted
\* document waits on no rework and on no approval of a decided step.
THEOREM NothingStalls == Spec => []NoStall
<1>1. IInv => NoStall
  BY DEF IInv, WorkIsProper, IsOpen, Improper, NoStall
<1> QED
  BY <1>1, ApprovalsInvariance, PTL

\* create_approval_record: a return closes all the work of its round that it can
\* see.  Not covered is loose work: what raced the return, was reopened by hand, or
\* was handed out for a step of that round after the return.
THEOREM RoundEnds == Spec => []ReturnEndsTheRound
<1>1. IInv => ReturnEndsTheRound
  BY DEF IInv, WorkIsProper, IsOpen, Improper, ReturnEndsTheRound
<1> QED
  BY <1>1, ApprovalsInvariance, PTL

\* delete_document: a deleted leave takes all the open work its deletion could see
\* with it; what raced it or was reopened by hand is loose.
THEOREM DeletedTakesItsWork == Spec => []DeletedHasNoWork
<1>1. IInv => DeletedHasNoWork
  BY DEF IInv, WorkIsProper, IsOpen, Improper, DeletedHasNoWork
<1> QED
  BY <1>1, ApprovalsInvariance, PTL

\* A decision that is answered, first time or retried, has its fact on the trail,
\* its transition made and its handoff given out (apply_round_transition).
THEOREM AnswersMeanMoved == Spec => AnswerMeansMoved
<1>1. IInv /\ [Next]_vars =>
        [\A r \in Requests : Completes(r) =>
           LET c == call[r]
           IN  /\ c.fact \in trail'
               /\ c.to # None /\ status[c.doc] = seen[r].status => status'[c.doc] = c.to
               /\ \A n \in DOMAIN c.items :
                    \E t \in Todos : todos'[t] # None /\ todos'[t].item = c.items[n]]_vars
  BY AnswerDelivers
<1> QED
  BY <1>1, ApprovalsInvariance, PTL DEF Spec, AnswerMeansMoved
=============================================================================
