------------------------------- MODULE Approvals -------------------------------
(***************************************************************************)
(* Employee leaves on their way through approval: the approval trail, the  *)
(* todos that ask people to decide or to rework, and the requests that     *)
(* submit, decide, route, delete and restore.  No request locks the leave; *)
(* what keeps the facts single are two partial unique indexes.  A request  *)
(* reads first, sweeps or inserts one row at a time, and commits.  The     *)
(* session does not autoflush: a todo it has closed in memory is still     *)
(* open to its own queries.                                                *)
(***************************************************************************)
EXTENDS Integers, Sequences, FiniteSets

CONSTANTS
  Requests,       \* the HTTP requests, numbered as they arrive
  Docs,           \* employee leaves
  People,         \* employees
  Todos,          \* ids a todo row may get: the bound on todos
  Seat,           \* who decides each step of a round
  Calls,          \* what may be asked
  Filed,          \* the status of each document at the start
  FiledTrail,     \* the approval records at the start
  FiledTodos,     \* the todos at the start
  None

VARIABLES
  status,   \* document.status
  live,     \* document.deleted_at is null
  trail,    \* approval_records
  todos,    \* todos; loose marks one that no guard of the request that left it open judges
  at,       \* where each request stands
  call,     \* what it asks
  seen,     \* the row its session holds
  tx        \* what its transaction has written and not committed

rows == <<status, live, trail, todos>>
vars == <<rows, at, call, seen, tx>>

\* DEFAULT_LEAVE_MACHINE
Statuses == {"draft", "submitted", "approved", "rejected", "returned", "cancelled", "taken"}
Machine ==
  {<<"draft", "submitted">>, <<"returned", "submitted">>, <<"approved", "taken">>}
    \cup {<<"submitted", end>> : end \in {"approved", "rejected", "returned"}}
    \cup {<<from, "cancelled">> : from \in {"draft", "submitted", "returned", "approved"}}

\* is_terminal_state
Finished == {s \in Statuses : \A t \in Machine : t[1] # s}

Decisions == {"approved", "rejected", "returned"}
States == {"open", "completed", "cancelled"}
Facts == [doc : Docs, round : Nat \ {0}, seq : Nat \ {0}, action : Decisions \cup {"submitted"}]
Items == [doc : Docs, who : People, type : {"approval", "rework"}, round : Nat, seq : Nat]
Rows == [item : Items, state : States, loose : BOOLEAN]

NoFact == [doc |-> None, round |-> 0, seq |-> 0, action |-> "none"]

AllCalls ==
  [kind : {"decide", "submit", "assign", "status", "delete", "restore", "patch"},
   doc : Docs \cup {None}, by : People \cup {None}, fact : Facts \cup {NoFact},
   to : Statuses \cup States \cup {None}, items : Seq(Items), abort : BOOLEAN,
   todo : Todos \cup {None}]

\* A step is decided, and its approval todo held, by the person of its seat; a
\* rework is handed out with the return; PATCH moves no document to submitted.
WellFormed(c) ==
  /\ c.kind = "decide" => c.fact \in Facts /\ c.fact.doc = c.doc /\ c.fact.seq > 1
                            /\ c.fact.action \in Decisions /\ c.by = Seat[c.fact.seq]
                            /\ \A n \in DOMAIN c.items : n = 1 /\ c.items[n].doc = c.doc
  /\ c.kind \in {"decide", "status"} => c.to \in (Statuses \ {"submitted"}) \cup {None}
  /\ c.kind \notin {"assign", "decide"} => c.items = <<>>
  /\ \A n \in DOMAIN c.items :
       IF c.items[n].type = "rework" THEN c.kind = "decide" /\ c.to = "returned"
       ELSE c.items[n].who = Seat[c.items[n].seq]
  /\ c.kind = "patch" => c.todo \in Todos /\ c.to \in States
  /\ c.kind \in {"decide", "submit", "status", "delete", "restore"} => c.doc \in Docs

ASSUME ApprovalsAssumption ==
  /\ Requests \subseteq Nat /\ Todos \subseteq Nat /\ IsFiniteSet(Todos)
  /\ Calls \subseteq AllCalls /\ \A c \in Calls : WellFormed(c)
  /\ Filed \in [Docs -> Statuses] /\ FiledTrail \subseteq Facts /\ IsFiniteSet(FiledTrail)
  /\ FiledTodos \in [Todos -> Rows \cup {None}]
  /\ None \notin Rows /\ None \notin Calls

\* Nothing written: no record, no todo closed or inserted, none left to insert.
Nothing ==
  [record |-> NoFact, closing |-> [t \in Todos |-> "open"], known |-> {}, left |-> <<>>,
   fine |-> TRUE, new |-> <<>>]

Init ==
  /\ status = Filed /\ live = [d \in Docs |-> TRUE]
  /\ trail = FiledTrail /\ todos = FiledTodos
  /\ at = [r \in Requests |-> "new"]
  /\ call = [r \in Requests |-> None]
  /\ seen = [r \in Requests |-> None]
  /\ tx = [r \in Requests |-> Nothing]

-----------------------------------------------------------------------------
(* The trail and the todos                                                  *)

Node(f) == <<f.doc, f.round, f.seq>>

\* ensure_node_undecided, ensure_step_undecided
Decided(facts, step) == \E f \in facts : Node(f) = Node(step) /\ f.action \in Decisions

\* approval_records_action_uk and approval_records_one_decision_uk
Clash(f, g) ==
  Node(f) = Node(g) /\ (f.action = g.action \/ {f.action, g.action} \subseteq Decisions)

Returns(d) == {f \in trail : f.doc = d /\ f.action = "returned"}

\* Mutation: a submission is filed in the round the last return closed.
RoundClosed(d) == Cardinality(Returns(d))

\* record_submission_fact: each return sends the document back for one more.
RoundOf(d) == Cardinality(Returns(d)) + 1

IsOpen(t) == todos[t] # None /\ todos[t].state = "open"
OpenOn(d) == {t \in Todos : IsOpen(t) /\ todos[t].item.doc = d}
OpenOfType(d, type) == {t \in OpenOn(d) : todos[t].item.type = type}

\* todos_open_entity_assignee_uk
SamePlace(i, j) == i.doc = j.doc /\ i.who = j.who

\* An approval of a step that is decided, or of a round a return has ended.
Moot(i, facts) == i.type = "approval" /\ Decided(facts, i)
Ended(i, facts) ==
  i.type = "approval" /\ \E f \in facts : f.doc = i.doc /\ f.action = "returned" /\ f.round >= i.round

\* Work nobody has a reason to do: its document is gone, its question is
\* settled, or its rework is sent in.
Improper(i, facts, stat, alive) ==
  \/ ~alive[i.doc] \/ Moot(i, facts) \/ Ended(i, facts)
  \/ i.type = "rework" /\ stat[i.doc] = "submitted"

\* What was filed before the first request is as it should be.
ASSUME FiledAssumption ==
  /\ \A f, g \in FiledTrail : Node(f) = Node(g) /\ {f.action, g.action} \subseteq Decisions => f = g
  /\ \A t \in Todos :
       LET row == FiledTodos[t]
       IN  row # None =>
             /\ row.item.type = "approval" => row.item.who = Seat[row.item.seq]
             /\ row.state = "open" =>
                  /\ ~Improper(row.item, FiledTrail, Filed, [d \in Docs |-> TRUE])
                  /\ \A u \in Todos \ {t} :
                       FiledTodos[u] # None /\ FiledTodos[u].state = "open"
                         => ~SamePlace(row.item, FiledTodos[u].item)

-----------------------------------------------------------------------------
(* Beginning and ending                                                     *)

Go(r, where, work) ==
  /\ at' = [at EXCEPT ![r] = where]
  /\ tx' = [tx EXCEPT ![r] = work]
  /\ UNCHANGED <<rows, call, seen>>

\* Mutation: a refused request keeps its inserts in an open transaction.
Abandon(r) == Go(r, "refused", tx[r])

\* ROLLBACK, and an error answer.
Refuse(r) == Go(r, "refused", Nothing)

\* Mutation: a retry hands the recorded fact back and does no more.
RetryAnswered == "committing"

\* "The retry path still has to finish the transition."
RetryGoesOn == "moving"

\* Where a request goes once it has read its document; a guard it fails ends it.
\* create_approval_record: the fact is there, the node is undecided, or 409.
DecideFrom(c) ==
  CASE ~live[c.doc] -> "refused"
    [] c.fact \in trail -> RetryGoesOn
    [] OTHER -> IF Decided(trail, c.fact) THEN "refused" ELSE "reading"

\* submit_document: submitted already answers at once.
SubmitFrom(c) ==
  CASE ~live[c.doc] -> "refused"
    [] status[c.doc] = "submitted" -> "done"
    [] OTHER -> IF <<status[c.doc], "submitted">> \in Machine THEN "reading" ELSE "refused"

\* delete_document, restore_document; PATCH of a status and of a todo.
LifeFrom(c) ==
  CASE c.kind = "delete" -> IF live[c.doc] THEN "reading" ELSE "done"
    [] c.kind = "restore" -> IF live[c.doc] THEN "done" ELSE "committing"
    [] c.kind = "status" -> IF live[c.doc] THEN "moving" ELSE "refused"
    [] c.kind = "patch" -> IF todos[c.todo] = None THEN "refused" ELSE "committing"

\* The row a session holds from its first read on.
Loaded(c) ==
  CASE c.kind = "patch" -> [status |-> IF todos[c.todo] = None THEN "open" ELSE todos[c.todo].state, live |-> TRUE]
    [] c.kind = "assign" -> None
    [] OTHER -> [status |-> status[c.doc], live |-> live[c.doc]]

Begin(r, c) ==
  /\ at[r] = "new" /\ \A q \in Requests : q < r => at[q] # "new"
  /\ at' = [at EXCEPT ![r] = CASE c.kind = "decide" -> DecideFrom(c)
                               [] c.kind = "submit" -> SubmitFrom(c)
                               [] c.kind = "assign" -> "assigning"
                               [] OTHER -> LifeFrom(c)]
  /\ call' = [call EXCEPT ![r] = c]
  /\ seen' = [seen EXCEPT ![r] = Loaded(c)]
  /\ tx' = [tx EXCEPT ![r].left = IF c.kind = "assign" THEN c.items ELSE <<>>]
  /\ UNCHANGED rows

-----------------------------------------------------------------------------
(* The sweeps                                                               *)

\* The todos the session read as open are closed in it.
Sweep(work, ids, state, d) ==
  [work EXCEPT !.closing = [t \in Todos |-> IF t \in ids THEN state ELSE @[t]],
               !.known = @ \cup OpenOn(d)]

\* An insert waits for another transaction that has inserted the same key.
RecordHeld(r, f) == \E q \in Requests \ {r} : tx[q].record # NoFact /\ Clash(tx[q].record, f)

\* Mutation: only the check before the insert keeps a node to one decision.
Unindexed(f) == FALSE

RecordTaken(f) == \E g \in trail : Clash(f, g)

\* Mutation: a return closes the decider's own todo and no other.
OwnOnly(c) == {t \in OpenOfType(c.doc, "approval") : todos[t].item.who = c.by}

\* A return ends the round for everybody, another decision for its own seat.
Answered(c) ==
  {t \in OpenOfType(c.doc, "approval") : c.fact.action = "returned" \/ todos[t].item.who = c.by}

\* The record is inserted; then cancel_todos_for or complete_own_approval_todo.
Decide(r) ==
  LET c == call[r]
      state == IF c.fact.action = "returned" THEN "cancelled" ELSE "completed"
  IN  /\ at[r] = "reading" /\ c.kind = "decide"
      /\ ~RecordHeld(r, c.fact)
      /\ IF RecordTaken(c.fact) THEN Refuse(r)
         ELSE Go(r, "moving", Sweep([tx[r] EXCEPT !.record = c.fact], Answered(c), state, c.doc))

\* Mutation: a resubmission leaves the rework todo to another call.
LeftToPatch(d) == {}

\* complete_rework_todos_for
Reworked(d) == OpenOfType(d, "rework")

\* submit_document: record_submission_fact, unless the round's is there.
Resubmit(r) ==
  LET d == call[r].doc
      fact == [doc |-> d, round |-> RoundOf(d), seq |-> 1, action |-> "submitted"]
  IN  /\ at[r] = "reading" /\ call[r].kind = "submit"
      /\ Go(r, "committing",
            Sweep([tx[r] EXCEPT !.record = IF fact \in trail THEN NoFact ELSE fact],
                  Reworked(d), "completed", d))

\* Mutation: a deleted document takes only its approval work with it.
ApprovalsOnly(d) == OpenOfType(d, "approval")

Orphaned(d) == OpenOn(d)

\* delete_document
Bury(r) ==
  /\ at[r] = "reading" /\ call[r].kind = "delete"
  /\ Go(r, "committing", Sweep(tx[r], Orphaned(call[r].doc), "cancelled", call[r].doc))

-----------------------------------------------------------------------------
(* apply_round_transition, or the status PATCH                              *)

Legal(r) == call[r].to = seen[r].status \/ <<seen[r].status, call[r].to>> \in Machine

\* A handoff onto a document nothing can move.
Stranding(r) == call[r].items # <<>> /\ call[r].to \in Finished

Moves(r) == call[r].to \notin {None, seen[r].status}

\* apply_status_change with retire_open_work_if_finished: a todo this session
\* has just completed is still open to its query, and ends cancelled.
Move(r) ==
  LET c == call[r]
      work == [tx[r] EXCEPT !.left = c.items]
  IN  /\ at[r] = "moving"
      /\ IF c.to # None /\ (~Legal(r) \/ Stranding(r)) THEN Refuse(r)
         ELSE Go(r, "assigning",
                 IF Moves(r) /\ c.to \in Finished
                 THEN Sweep(work, OpenOn(c.doc), "cancelled", c.doc) ELSE work)

-----------------------------------------------------------------------------
(* assign_todo, once per item                                               *)

Facing(r) == trail \cup ({tx[r].record} \ {NoFact})

\* The document is gone, or the step is decided.  The target of a decision is
\* in the session since the request began, and is not read again.
Barred(r, i) ==
  \/ ~(IF call[r].kind = "decide" THEN seen[r].live ELSE live[i.doc])
  \/ Moot(i, Facing(r))

\* Open at this place to the session's queries.
InPlace(r, i) ==
  {todos[t].item : t \in {u \in OpenOn(i.doc) : SamePlace(todos[u].item, i)}}
    \cup {tx[r].new[n].item : n \in {m \in DOMAIN tx[r].new : SamePlace(tx[r].new[m].item, i)}}

PlaceHeld(r, i) == \E q \in Requests \ {r} : \E n \in DOMAIN tx[q].new : SamePlace(tx[q].new[n].item, i)

\* Mutation: the table has no index on open todos.
NeverTaken(i) == FALSE

PlaceTaken(i) == \E t \in OpenOn(i.doc) : SamePlace(todos[t].item, i)

Rest(r) == [tx[r] EXCEPT !.left = Tail(@)]

\* One item fails: a decision, a single todo or an aborting batch fails with
\* it; a skipping batch goes on to the next.
Fail(r) ==
  IF call[r].kind = "decide" \/ call[r].abort THEN Refuse(r) ELSE Go(r, "assigning", Rest(r))

\* The guards, up to the query for an open todo at the place.  fine remembers
\* whether the step was open to decision when it was looked at.  A step that was
\* never decided passes, even when its round has been returned already:
\* ensure_step_undecided asks for the step's own decision only.
Look(r) ==
  LET i == Head(tx[r].left)
  IN  /\ at[r] = "assigning" /\ tx[r].left # <<>>
      /\ IF Barred(r, i) THEN Fail(r)
         ELSE IF InPlace(r, i) = {} THEN Go(r, "inserting", [tx[r] EXCEPT !.fine = ~Moot(i, Facing(r))])
         ELSE IF InPlace(r, i) = {i} THEN Go(r, "assigning", Rest(r)) ELSE Fail(r)

\* The INSERT, after whatever has happened since.
Insert(r) ==
  LET i == Head(tx[r].left)
      row == [item |-> i, fine |-> tx[r].fine]
  IN  /\ at[r] = "inserting" /\ ~PlaceHeld(r, i)
      /\ IF PlaceTaken(i) THEN Fail(r)
         ELSE Go(r, "assigning", [Rest(r) EXCEPT !.new = Append(@, row)])

-----------------------------------------------------------------------------
(* Waiting                                                                  *)

WaitsFor(a, b) ==
  /\ a # b /\ at[a] = "inserting"
  /\ \E n \in DOMAIN tx[b].new : SamePlace(tx[b].new[n].item, Head(tx[a].left))

\* Batches that insert the same places in opposite orders: the database aborts
\* one, and the error ends a skipping batch too.
Deadlock(r) ==
  /\ \E S \in SUBSET Requests : r \in S /\ \A a \in S : \E b \in S : WaitsFor(a, b)
  /\ Refuse(r)

-----------------------------------------------------------------------------
(* COMMIT                                                                   *)

Vacant == {t \in Todos : todos[t] = None}

\* The bound on todos: a batch starts only when its rows will find an id.
RoomFor(work) == Len(work.new) <= Cardinality(Vacant)

\* New rows take the vacant ids in order.
Filled(work) ==
  [t \in Todos |->
     LET n == Cardinality({u \in Vacant : u < t}) + 1
     IN  IF t \in Vacant /\ n <= Len(work.new)
         THEN [item |-> work.new[n].item, state |-> "open", loose |-> FALSE] ELSE todos[t]]

\* A sweep's UPDATE names the row by its id: it overwrites what became of it.
Written(work) ==
  [t \in Todos |-> IF work.closing[t] = "open" \/ todos[t] = None THEN Filled(work)[t]
                   ELSE [todos[t] EXCEPT !.state = work.closing[t]]]

\* A column is written only when the session's value of it changed.
Patched(r, table) ==
  IF call[r].kind = "patch" /\ call[r].to # seen[r].status
  THEN [table EXCEPT ![call[r].todo].state = call[r].to] ELSE table

\* Work that ends improper though the request that leaves it open kept every guard
\* the code has: it was handed out after the sweep had looked, its step was
\* decided after the guard had passed it, it was handed out for a step of a round
\* that had been returned before (nothing raced; no guard asks), or it was
\* reopened by hand.
Blameless(r, t) ==
  IF todos[t] = None
  THEN LET n == Cardinality({u \in Vacant : u < t}) + 1 IN tx[r].new[n].fine
  ELSE t \notin tx[r].known

Marked(r, table) ==
  [t \in Todos |->
     IF /\ table[t] # None /\ table[t].state = "open"
        /\ Improper(table[t].item, trail', status', live') /\ Blameless(r, t)
     THEN [table[t] EXCEPT !.loose = TRUE] ELSE table[t]]

\* A todo reopened where another is open: the index refuses it.
Reopens(r) == call[r].kind = "patch" /\ call[r].to = "open" /\ seen[r].status # "open"

Ready(r) == at[r] = "committing" \/ (at[r] = "assigning" /\ tx[r].left = <<>>)

\* A submission's record is inserted with its commit.
Rejected(r) ==
  \/ call[r].kind = "submit" /\ tx[r].record # NoFact /\ RecordTaken(tx[r].record)
  \/ Reopens(r) /\ ~IsOpen(call[r].todo) /\ PlaceTaken(todos[call[r].todo].item)

Commit(r) ==
  LET c == call[r]
  IN  /\ Ready(r) /\ ~Rejected(r) /\ RoomFor(tx[r])
      /\ Reopens(r) => ~PlaceHeld(r, todos[c.todo].item)
      /\ trail' = trail \cup ({tx[r].record} \ {NoFact})
      /\ status' = CASE c.kind = "submit" -> [status EXCEPT ![c.doc] = "submitted"]
                     [] c.kind \in {"decide", "status"} /\ Moves(r) -> [status EXCEPT ![c.doc] = c.to]
                     [] OTHER -> status
      /\ live' = CASE c.kind = "delete" -> [live EXCEPT ![c.doc] = FALSE]
                   [] c.kind = "restore" -> [live EXCEPT ![c.doc] = TRUE]
                   [] OTHER -> live
      /\ todos' = Marked(r, Patched(r, Written(tx[r])))
      /\ at' = [at EXCEPT ![r] = "done"]
      /\ tx' = [tx EXCEPT ![r] = Nothing]
      /\ UNCHANGED <<call, seen>>

RefuseCommit(r) == Ready(r) /\ Rejected(r) /\ Refuse(r)

-----------------------------------------------------------------------------
Step(r) ==
  Decide(r) \/ Resubmit(r) \/ Bury(r) \/ Move(r) \/ Look(r) \/ Insert(r)
    \/ Deadlock(r) \/ Commit(r) \/ RefuseCommit(r)

Next == \E r \in Requests : Step(r) \/ \E c \in Calls : Begin(r, c)

Spec == Init /\ [][Next]_vars

\* Some request that can go on does: the server's threads and the database
\* never all rest.
FairSpec == Spec /\ WF_vars(\E r \in Requests : Step(r))

-----------------------------------------------------------------------------
(* Properties                                                               *)

Work ==
  [record : Facts \cup {NoFact}, closing : [Todos -> States], known : SUBSET Todos,
   left : Seq(Items), fine : BOOLEAN, new : Seq([item : Items, fine : BOOLEAN])]

\* Every column keeps its domain: rounds and sequences count from one.
TypeOK ==
  /\ status \in [Docs -> Statuses] /\ live \in [Docs -> BOOLEAN]
  /\ trail \subseteq Facts
  /\ todos \in [Todos -> Rows \cup {None}]
  /\ at \in [Requests -> {"new", "reading", "moving", "assigning", "inserting",
                          "committing", "done", "refused"}]
  /\ call \in [Requests -> Calls \cup {None}]
  /\ seen \in [Requests -> [status : Statuses \cup States, live : BOOLEAN] \cup {None}]
  /\ tx \in [Requests -> Work]

\* A step holds one decision (ensure_node_undecided), even when two sessions of
\* one approver list the same queue and decide at the same moment.
OneDecisionPerNode ==
  \A f, g \in trail : Node(f) = Node(g) /\ {f.action, g.action} \subseteq Decisions => f = g

\* A person has one open todo on a document, whoever hands out, returns or
\* reopens work at the same moment (todos_open_entity_assignee_uk).
OneOpenTodo ==
  \A t, u \in Todos : IsOpen(t) /\ IsOpen(u) /\ SamePlace(todos[t].item, todos[u].item) => t = u

\* A submitted document never waits on work nobody has a reason to do, which
\* would hide it from the flow agent's queue for good (complete_own_approval_todo,
\* complete_rework_todos_for, ensure_step_undecided).
NoStall ==
  \A t \in Todos :
    LET row == todos[t]
    IN  IsOpen(t) /\ live[row.item.doc] /\ status[row.item.doc] = "submitted" /\ ~row.loose
          => ~Moot(row.item, trail) /\ row.item.type # "rework"

\* A return leaves nobody asked to decide the round it ended
\* (create_approval_record, "the round this approval work belonged to is over"):
\* of the work it could see nothing stays open.  Excepted is what raced it, was
\* reopened by hand, or was handed out for that round after the return.
ReturnEndsTheRound ==
  \A t \in Todos : IsOpen(t) /\ ~todos[t].loose => ~Ended(todos[t].item, trail)

\* A deleted document takes all of its work with it (cancel_todos_for).
DeletedHasNoWork ==
  \A t \in Todos : IsOpen(t) /\ ~todos[t].loose => live[todos[t].item.doc]

Completes(r) == at'[r] = "done" /\ at[r] # "done" /\ call[r] # None /\ call[r].kind = "decide"

\* A decision that is answered has done all it was asked, first time or retried:
\* its fact stands, the document has moved unless another request moved it
\* meanwhile, and the handoff has its todo (apply_round_transition).
AnswerMeansMoved ==
  [][\A r \in Requests : Completes(r) =>
       LET c == call[r]
       IN  /\ c.fact \in trail'
           /\ c.to # None /\ status[c.doc] = seen[r].status => status'[c.doc] = c.to
           /\ \A n \in DOMAIN c.items :
                \E t \in Todos : todos'[t] # None /\ todos'[t].item = c.items[n]]_vars

\* Every request is answered, however inserts wait for each other's keys.
EveryRequestEnds == <>[](\A r \in Requests : at[r] \in {"new", "done", "refused"})
=============================================================================
