--------------------------- MODULE SettlementProofs ---------------------------
(***************************************************************************)
(* Theorems about Settlement, for every set of rows, bodies and requests.  *)
(***************************************************************************)
EXTENDS Settlement, FiniteFacts, SequenceTheorems

USE TablesAssumption, SettlementAssumption

-----------------------------------------------------------------------------
(* Facts about bodies and calls                                             *)

\* A body names rows that exist, and moves a whole number of cents.
LEMMA BodyFacts ==
  ASSUME NEW b \in Bodies
  PROVE  /\ b.pay \in Payments /\ b.pay \in Docs
         /\ LockSet(b) \subseteq Docs
         /\ \A d \in Docs : Move(b, d) \in Int
BY BodiesAssumption DEF LockSet, Targets, Move, Docs

\* Every key a call carries addresses a cell of keyed.
LEMMA ApplyCallFacts ==
  ASSUME NEW c \in ApplyCalls
  PROVE  /\ c.body \in Bodies
         /\ c.key \in Keys \cup {None}
         /\ c.key # None => c.key \in Keys
BY DEF ApplyCalls

\* What a call in its editing phase names and states, by its kind.
LEMMA EditCallFacts ==
  ASSUME NEW e \in EditCalls
  PROVE  /\ e.doc \in Docs
         /\ e.op = "total" => /\ e.doc \in Payments \cup Invoices
                              /\ e.val \in Amounts \/ (e.doc \in Invoices /\ e.val = None)
         /\ e.op = "credit" => e.doc \in Accounts /\ e.val \in Amounts
         /\ e.op = "party" => e.val \in Parties
         /\ e.op = "status" => e.val \in States
         /\ e.op = "lines" => e.val \in Amounts
         /\ e.op = "active" => e.doc \in Accounts /\ e.val \in BOOLEAN
         /\ e.op = "entry" => e.doc \in Accounts /\ e.val \in Postings
         /\ e.op = "bill" => /\ e.doc \in Invoices /\ BillsClaim[e.doc] \in Claims
                             /\ e.val \in Amounts
<1>1. CASE e \in BillCalls
  <2>1. PICK f \in Edits, n \in Amounts : f.op = "bill" /\ e = [f EXCEPT !.val = n]
    BY <1>1 DEF BillCalls
  <2>2. f = [op |-> f.op, doc |-> f.doc, val |-> f.val] /\ f.doc \in Docs /\ WellFormed(f)
    BY <2>1, EditsAssumption
  <2>3. e.op = "bill" /\ e.doc = f.doc /\ e.val = n
    BY <2>1, <2>2
  <2>4. f.doc \in Invoices /\ BillsClaim[f.doc] # None
    BY <2>1, <2>2 DEF WellFormed
  <2> QED
    BY <2>2, <2>3, <2>4
<1>2. CASE e \in Edits /\ e.op # "bill"
  <2>1. e.doc \in Docs /\ WellFormed(e)
    BY <1>2, EditsAssumption
  <2> QED
    BY <1>2, <2>1 DEF WellFormed
<1> QED
  BY <1>1, <1>2 DEF EditCalls

-----------------------------------------------------------------------------
(* Type correctness                                                         *)

\* Finish returns the session and the locks it held, whatever happened.
LEMMA FinishTypes ==
  ASSUME TypeOK, NEW r \in Requests, Finish(r)
  PROVE  /\ owner' \in [Docs -> Requests \cup {None}]
         /\ pc' \in [Requests -> {"idle", "locking", "checked", "editing"}]
         /\ seen' \in [Requests -> [Docs -> Int]]
         /\ call' \in [Requests -> ApplyCalls \cup EditCalls \cup {None}]
         /\ pc'[r] = "idle"
         /\ \A s \in Requests : s # r => pc'[s] = pc[s] /\ call'[s] = call[s] /\ seen'[s] = seen[s]
  BY DEF TypeOK, Finish, Released

\* The steps of an apply call keep every variable in its range.
LEMMA ApplyTypes ==
  ASSUME TypeOK, NEW r \in Requests, Apply(r)
  PROVE  TypeOK'
<1>1. ASSUME NEW b \in Bodies, NEW k \in Keys \cup {None}, ApplyCheck(r, b, k)
      PROVE  TypeOK'
  <2>1. [body |-> b, key |-> k] \in ApplyCalls
    BY DEF ApplyCalls
  <2>2. /\ pc' = [pc EXCEPT ![r] = "locking"]
        /\ call' = [call EXCEPT ![r] = [body |-> b, key |-> k]]
    BY <1>1 DEF ApplyCheck
  <2>3. /\ call' \in [Requests -> ApplyCalls \cup EditCalls \cup {None}]
        /\ call'[r] \in ApplyCalls /\ pc'[r] = "locking"
        /\ \A s \in Requests \ {r} : pc'[s] = pc[s] /\ call'[s] = call[s]
    <3> HIDE DEF ApplyCalls
    <3> QED  BY <2>1, <2>2 DEF TypeOK
  <2>4. \A s \in Requests : /\ pc'[s] \in {"locking", "checked"} => call'[s] \in ApplyCalls
                            /\ pc'[s] = "editing" => call'[s] \in EditCalls
    BY <2>3 DEF TypeOK
  <2> QED
    BY <1>1, <2>2, <2>3, <2>4 DEF TypeOK, ApplyCheck, rows, money
<1>2. ASSUME NEW b \in Bodies, NEW k \in Keys \cup {None}, ApplyReplay(r, b, k)
      PROVE  TypeOK'
  <2>1. b.pay \in Payments /\ k \in Keys
    BY <1>2, BodyFacts DEF ApplyReplay
  <2>2. keyed[b.pay][k] \in Seq(Bodies) /\ keyed[b.pay][k] # <<>>
    BY <1>2, <2>1 DEF TypeOK, ApplyReplay
  <2>3. Head(keyed[b.pay][k]) \in Bodies
    BY <2>2, HeadTailProperties
  <2> QED
    BY <1>2, <2>3 DEF TypeOK, ApplyReplay, Reply, rows, money
<1>3. ASSUME NEW d \in Docs, LockRow(r, d)
      PROVE  TypeOK'
  BY <1>3 DEF TypeOK, LockRow, rows, money
<1>4. ASSUME CheckBounds(r)
      PROVE  TypeOK'
  BY <1>4 DEF TypeOK, CheckBounds, rows, money
<1>5. ASSUME RefuseBounds(r)
      PROVE  TypeOK'
  BY <1>5, FinishTypes DEF TypeOK, RefuseBounds, rows, money
<1>6. ASSUME ApplyCommit(r)
      PROVE  TypeOK'
  <2> DEFINE b == call[r].body
             k == call[r].key
  <2>1. b \in Bodies /\ k \in Keys \cup {None} /\ (k # None => k \in Keys)
    BY <1>6, ApplyCallFacts DEF TypeOK, ApplyCommit
  <2>2. /\ b.pay \in Payments /\ LockSet(b) \subseteq Docs
        /\ \A d \in Docs : Move(b, d) \in Int
    BY <2>1, BodyFacts
  <2>3. running' \in [Docs -> Int]
    BY <1>6, <2>2 DEF TypeOK, ApplyCommit
  <2>4. ledger' \in [Docs -> Int]
    BY <1>6, <2>2 DEF TypeOK, ApplyCommit, Moved
  <2>5. keyed' \in [Payments -> [Keys -> Seq(Bodies)]]
    <3>1. CASE k = None
      BY <1>6, <3>1 DEF TypeOK, ApplyCommit
    <3>2. CASE k # None
      <4>1. keyed[b.pay][k] \in Seq(Bodies)
        BY <2>1, <2>2, <3>2 DEF TypeOK
      <4>2. Append(keyed[b.pay][k], b) \in Seq(Bodies)
        BY <2>1, <4>1, AppendProperties
      <4>3. keyed' = [keyed EXCEPT ![b.pay][k] = Append(keyed[b.pay][k], b)]
        BY <1>6, <3>2 DEF ApplyCommit
      <4> QED
        BY <2>1, <2>2, <3>2, <4>2, <4>3 DEF TypeOK
    <3> QED
      BY <3>1, <3>2
  <2>6. answer' \in [asked : Bodies, recorded : Bodies]
    BY <1>6, <2>1 DEF ApplyCommit, Reply
  <2>7. Finish(r) /\ UNCHANGED rows
    BY <1>6 DEF ApplyCommit
  <2> QED
    BY <2>3, <2>4, <2>5, <2>6, <2>7, FinishTypes DEF TypeOK, rows
<1>7. ASSUME ApplyConflict(r)
      PROVE  TypeOK'
  <2> DEFINE b == call[r].body
             k == call[r].key
  <2>1. b \in Bodies /\ k \in Keys
    BY <1>7, ApplyCallFacts DEF TypeOK, ApplyConflict, KeyTaken
  <2>2. keyed[b.pay][k] \in Seq(Bodies) /\ keyed[b.pay][k] # <<>>
    BY <1>7, <2>1, BodyFacts DEF TypeOK, ApplyConflict, KeyTaken
  <2>3. Head(keyed[b.pay][k]) \in Bodies
    BY <2>2, HeadTailProperties
  <2>4. answer' \in [asked : Bodies, recorded : Bodies]
    BY <1>7, <2>1, <2>3 DEF ApplyConflict, Reply
  <2> QED
    BY <1>7, <2>4, FinishTypes DEF TypeOK, ApplyConflict, rows, money
<1> QED
  BY <1>1, <1>2, <1>3, <1>4, <1>5, <1>6, <1>7 DEF Apply

\* The steps of the requests that write one document keep every variable in
\* its range.
LEMMA EditTypes ==
  ASSUME TypeOK, NEW r \in Requests, Edit(r)
  PROVE  TypeOK'
<1> DEFINE e == call[r]
<1>e. pc[r] = "editing" => e \in EditCalls
  BY DEF TypeOK
<1>f. ASSUME NEW op, Writes(r, op)
      PROVE  e \in EditCalls /\ e.op = op /\ Finish(r) /\ answer' = None
  BY <1>f, <1>e DEF Writes
<1>1. ASSUME NEW f \in Edits, EditRead(r, f)
      PROVE  TypeOK'
  <2> DEFINE c == IF f.op = "bill" THEN [f EXCEPT !.val = lines[BillsClaim[f.doc]]] ELSE f
  <2>1. c \in EditCalls
    <3>1. CASE f.op = "bill"
      <4>1. f.doc \in Invoices /\ BillsClaim[f.doc] \in Claims
        BY <3>1, EditsAssumption DEF WellFormed
      <4>2. lines[BillsClaim[f.doc]] \in Amounts
        BY <4>1 DEF TypeOK, Docs
      <4> QED
        BY <3>1, <4>2 DEF EditCalls, BillCalls
    <3>2. CASE f.op # "bill"
      BY <3>2 DEF EditCalls
    <3> QED
      BY <3>1, <3>2
  <2>2. /\ pc' = [pc EXCEPT ![r] = "editing"]
        /\ call' = [call EXCEPT ![r] = c]
    BY <1>1 DEF EditRead
  <2>3. /\ call' \in [Requests -> ApplyCalls \cup EditCalls \cup {None}]
        /\ call'[r] \in EditCalls /\ pc'[r] = "editing"
        /\ \A s \in Requests \ {r} : pc'[s] = pc[s] /\ call'[s] = call[s]
    <3> HIDE DEF c
    <3> QED  BY <2>1, <2>2 DEF TypeOK
  <2>4. \A s \in Requests : /\ pc'[s] \in {"locking", "checked"} => call'[s] \in ApplyCalls
                            /\ pc'[s] = "editing" => call'[s] \in EditCalls
    BY <2>3 DEF TypeOK
  <2>5. UNCHANGED <<rows, money, owner, seen>> /\ answer' = None
    BY <1>1 DEF EditRead
  <2>6. pc' \in [Requests -> {"idle", "locking", "checked", "editing"}]
    BY <2>2 DEF TypeOK
  <2> HIDE DEF c
  <2> QED
    BY <2>3, <2>4, <2>5, <2>6 DEF TypeOK, rows, money
<1>2. ASSUME WriteTotal(r)
      PROVE  TypeOK'
  <2>1. e \in EditCalls /\ e.op \in {"total", "credit"} /\ Finish(r) /\ answer' = None
    BY <1>2, <1>f DEF WriteTotal, EditCommit
  <2>2. /\ e.doc \in Docs /\ e.val \in Amounts \cup {None}
        /\ e.doc \in Payments \cup Accounts => e.val # None
    <3>1. \A n \in Amounts : n # None
      BY TablesAssumption
    <3>2. e.doc \in Docs /\ (e.val \in Amounts \/ (e.doc \in Invoices /\ e.val = None))
      BY <2>1, EditCallFacts
    <3>3. \A d \in Invoices : d \notin Payments \cup Accounts
      BY TablesAssumption
    <3> QED
      BY <3>1, <3>2, <3>3
  <2>3. /\ header' \in [Docs -> Amounts \cup {None}]
        /\ \A d \in Payments \cup Accounts : header'[d] # None
    BY <1>2, <2>2 DEF WriteTotal, TypeOK, Docs
  <2> QED
    BY <1>2, <2>1, <2>3, FinishTypes DEF WriteTotal, TypeOK, money
<1>3. ASSUME WriteParty(r)
      PROVE  TypeOK'
  <2>1. e \in EditCalls /\ e.op = "party" /\ Finish(r) /\ answer' = None
    BY <1>3, <1>f DEF WriteParty, EditCommit
  <2>2. party' \in [Docs -> Parties \cup {None}]
    BY <1>3, <2>1, EditCallFacts DEF WriteParty, TypeOK
  <2> QED
    BY <1>3, <2>1, <2>2, FinishTypes DEF WriteParty, TypeOK, money
<1>4. ASSUME WriteStatus(r)
      PROVE  TypeOK'
  <2>1. e \in EditCalls /\ e.op = "status" /\ Finish(r) /\ answer' = None
    BY <1>4, <1>f DEF WriteStatus, EditCommit
  <2>2. status' \in [Docs -> States]
    BY <1>4, <2>1, EditCallFacts DEF WriteStatus, TypeOK
  <2> QED
    BY <1>4, <2>1, <2>2, FinishTypes DEF WriteStatus, TypeOK, money
<1>5. ASSUME WriteLines(r)
      PROVE  TypeOK'
  <2>1. e \in EditCalls /\ e.op = "lines" /\ Finish(r) /\ answer' = None
    BY <1>5, <1>f DEF WriteLines
  <2>2. lines' \in [Docs -> Amounts]
    BY <1>5, <2>1, EditCallFacts DEF WriteLines, TypeOK
  <2> QED
    BY <1>5, <2>1, <2>2, FinishTypes DEF WriteLines, TypeOK, money
<1>6. ASSUME WriteDelete(r) \/ WriteRestore(r)
      PROVE  TypeOK'
  <2>1. Finish(r) /\ answer' = None
    BY <1>6, <1>f DEF WriteDelete, WriteRestore, EditCommit
  <2>2. life' \in [Docs -> {"absent", "live", "deleted"}]
    BY <1>6 DEF WriteDelete, WriteRestore, TypeOK
  <2>3. UNCHANGED <<status, active, party, header, lines, money>>
    BY <1>6 DEF WriteDelete, WriteRestore
  <2> QED
    BY <2>1, <2>2, <2>3, FinishTypes DEF TypeOK, money
<1>7. ASSUME WriteActive(r)
      PROVE  TypeOK'
  <2>1. e \in EditCalls /\ e.op = "active" /\ Finish(r) /\ answer' = None
    BY <1>7, <1>f DEF WriteActive, EditCommit
  <2>2. e.doc \in Accounts /\ e.val \in BOOLEAN
    BY <2>1, EditCallFacts
  <2>3. active' \in [Accounts -> BOOLEAN]
    BY <1>7, <2>2, Zenon DEF WriteActive, TypeOK
  <2> QED
    BY <1>7, <2>1, <2>3, FinishTypes DEF WriteActive, TypeOK, money
<1>8. ASSUME PostEntry(r)
      PROVE  TypeOK'
  <2>1. e \in EditCalls /\ e.op = "entry" /\ Finish(r) /\ answer' = None
    BY <1>8, <1>f DEF PostEntry, EditCommit
  <2>2. e.doc \in Docs /\ e.val \in Int
    BY <2>1, EditCallFacts
  <2>3. running' \in [Docs -> Int] /\ ledger' \in [Docs -> Int]
    BY <1>8, <2>2 DEF PostEntry, TypeOK
  <2> QED
    BY <1>8, <2>1, <2>3, FinishTypes DEF PostEntry, TypeOK, rows
<1>9. ASSUME RefuseEntry(r) \/ RefuseInvoice(r)
      PROVE  TypeOK'
  <2>1. Finish(r) /\ answer' = None /\ UNCHANGED <<rows, money>>
    BY <1>9, <1>f DEF RefuseEntry, RefuseInvoice, EditCommit
  <2> QED
    BY <2>1, FinishTypes DEF TypeOK, rows, money
<1>10. ASSUME RaiseInvoice(r)
       PROVE  TypeOK'
  <2>1. e \in EditCalls /\ e.op = "bill" /\ Finish(r) /\ answer' = None
    BY <1>10, <1>f DEF RaiseInvoice
  <2>2. /\ e.doc \in Docs /\ e.doc \notin Payments \cup Accounts
        /\ BillsClaim[e.doc] \in Docs /\ e.val \in Amounts
    BY <2>1, EditCallFacts DEF Docs
  <2>3. /\ life' \in [Docs -> {"absent", "live", "deleted"}]
        /\ status' \in [Docs -> States]
        /\ party' \in [Docs -> Parties \cup {None}]
        /\ header' \in [Docs -> Amounts \cup {None}]
        /\ lines' \in [Docs -> Amounts]
        /\ UNCHANGED <<active, money>>
    BY <1>10, <2>2 DEF RaiseInvoice, TypeOK
  <2>4. \A d \in Payments \cup Accounts : header'[d] # None
    BY <1>10, <2>2 DEF RaiseInvoice, TypeOK
  <2> QED
    BY <2>1, <2>3, <2>4, FinishTypes DEF TypeOK, money
<1> QED
  BY <1>1, <1>2, <1>3, <1>4, <1>5, <1>6, <1>7, <1>8, <1>9, <1>10 DEF Edit

LEMMA InitTypes == Init => TypeOK
  BY DEF Init, TypeOK, Docs

LEMMA StepTypes == TypeOK /\ [Next]_vars => TypeOK'
<1> SUFFICES ASSUME TypeOK, [Next]_vars
             PROVE  TypeOK'
  OBVIOUS
<1>1. CASE Next
  BY <1>1, ApplyTypes, EditTypes DEF Next
<1>2. CASE UNCHANGED vars
  BY <1>2 DEF vars, rows, money, TypeOK
<1> QED
  BY <1>1, <1>2

\* Whatever requests interleave, every variable stays in its range and every
\* handler past its checks holds the call it was given.
THEOREM TypeCorrect == Spec => []TypeOK
  BY InitTypes, StepTypes, PTL DEF Spec

-----------------------------------------------------------------------------
(* The inductive invariant: what a request holds under lock stays current    *)
(* until it ends, so the totals it commits are the ledger's.                 *)

LockFacts == LockedAreCurrent /\ JudgedStillHolds /\ CallsNameRows

\* A handler that ends disturbs nobody else's locked rows.
LEMMA FinishKeepsLocks ==
  ASSUME IInv, NEW r \in Requests, Finish(r),
         \A d \in Docs, s \in Requests \ {r} :
           owner[d] = s => /\ running'[d] = running[d]
                           /\ header'[d] = header[d]
                           /\ d \in Accounts => active'[d] = active[d],
         \A d \in Docs : life[d] # "absent" => life'[d] # "absent"
  PROVE  LockFacts'
<1>1. /\ pc'[r] = "idle"
      /\ \A s \in Requests \ {r} : pc'[s] = pc[s] /\ call'[s] = call[s] /\ seen'[s] = seen[s]
  BY FinishTypes DEF IInv
<1>2. \A d \in Docs : /\ owner'[d] # r
                      /\ \A s \in Requests \ {r} : owner'[d] = s <=> owner[d] = s
  BY DEF Finish, Released
<1>3. LockedAreCurrent'
  BY <1>1, <1>2 DEF IInv, LockedAreCurrent
<1>4. ASSUME NEW s \in Requests, pc'[s] \in {"locking", "checked"}
      PROVE  /\ s # r /\ pc[s] = pc'[s] /\ call'[s] = call[s] /\ seen'[s] = seen[s]
             /\ LockSet(call[s].body) \subseteq Docs
  BY <1>1, <1>4, ApplyCallFacts, BodyFacts DEF IInv, TypeOK
<1>5. CallsNameRows'
  BY <1>4 DEF IInv, CallsNameRows
<1>6. JudgedStillHolds'
  <2> SUFFICES ASSUME NEW s \in Requests, pc'[s] = "checked",
                      NEW d \in LockSet(call'[s].body)
               PROVE  /\ owner'[d] = s
                      /\ header'[d] # None =>
                           WithinBounds(d, seen[s][d] + Move(call[s].body, d))'
                      /\ d \in Accounts => active'[d]
    BY DEF JudgedStillHolds
  <2>1. /\ s # r /\ pc[s] = "checked" /\ call'[s] = call[s] /\ seen'[s] = seen[s]
        /\ d \in Docs /\ d \in LockSet(call[s].body)
    BY <1>4
  <2>2. /\ owner[d] = s
        /\ header[d] # None => WithinBounds(d, seen[s][d] + Move(call[s].body, d))
        /\ d \in Accounts => active[d]
    BY <2>1 DEF IInv, JudgedStillHolds
  <2>3. /\ owner'[d] = s /\ header'[d] = header[d]
        /\ d \in Accounts => active'[d] = active[d]
    BY <1>2, <2>1, <2>2
  <2> QED
    BY <2>1, <2>2, <2>3 DEF WithinBounds, BilledTotal, Move
<1> QED
  BY <1>3, <1>5, <1>6 DEF LockFacts

\* The steps of an apply call keep the lock discipline.
LEMMA ApplyKeepsLocks ==
  ASSUME IInv, NEW r \in Requests, Apply(r)
  PROVE  LockFacts'
<1>t. TypeOK /\ LockedAreCurrent /\ JudgedStillHolds /\ CallsNameRows
  BY DEF IInv
<1>s. \A s \in Requests : pc[s] \in {"locking", "checked"} => LockSet(call[s].body) \subseteq Docs
  BY <1>t, ApplyCallFacts, BodyFacts DEF TypeOK
<1>1. ASSUME NEW b \in Bodies, NEW k \in Keys \cup {None}, ApplyCheck(r, b, k)
      PROVE  LockFacts'
  <2>1. /\ pc[r] = "idle" /\ pc'[r] = "locking" /\ call'[r].body = b
        /\ \A s \in Requests \ {r} : pc'[s] = pc[s] /\ call'[s] = call[s]
        /\ UNCHANGED <<life, active, header, lines, running, owner, seen>>
    BY <1>1, <1>t DEF ApplyCheck, TypeOK, rows, money
  <2>2. \A d \in LockSet(b) : life[d] # "absent"
    BY <1>1 DEF ApplyCheck, Live, Payable, LockSet
  <2>3. LockedAreCurrent'
    BY <1>t, <2>1 DEF LockedAreCurrent
  <2>4. JudgedStillHolds'
    BY <1>t, <2>1 DEF JudgedStillHolds, WithinBounds, BilledTotal, Move
  <2>5. CallsNameRows'
    BY <1>t, <2>1, <2>2 DEF CallsNameRows
  <2> QED
    BY <2>3, <2>4, <2>5 DEF LockFacts
<1>2. ASSUME NEW b \in Bodies, NEW k \in Keys \cup {None}, ApplyReplay(r, b, k)
      PROVE  LockFacts'
  BY <1>2, <1>t DEF ApplyReplay, rows, money, LockFacts, LockedAreCurrent, JudgedStillHolds,
                    CallsNameRows, WithinBounds, BilledTotal, Move
<1>3. ASSUME NEW d \in Docs, LockRow(r, d)
      PROVE  LockFacts'
  <2>1. /\ pc[r] = "locking" /\ d \in LockSet(call[r].body) /\ owner[d] = None
        /\ owner' = [owner EXCEPT ![d] = r]
        /\ seen' = [seen EXCEPT ![r][d] = running[d]]
        /\ UNCHANGED <<life, active, header, lines, running, pc, call>>
    BY <1>3 DEF LockRow, Pending, rows, money
  <2>2. /\ owner'[d] = r /\ seen'[r][d] = running[d]
        /\ \A e \in Docs \ {d} : owner'[e] = owner[e] /\ seen'[r][e] = seen[r][e]
        /\ \A s \in Requests \ {r} : seen'[s] = seen[s]
    BY <2>1, <1>t DEF TypeOK
  <2>3. LockedAreCurrent'
    <3> SUFFICES ASSUME NEW e \in Docs, NEW s \in Requests, owner'[e] = s
                 PROVE  /\ pc[s] \in {"locking", "checked"}
                        /\ e \in LockSet(call[s].body)
                        /\ seen'[s][e] = running[e]
      BY <2>1 DEF LockedAreCurrent
    <3>1. CASE e = d
      BY <2>1, <2>2, <3>1
    <3>2. CASE e # d
      BY <1>t, <2>2, <3>2 DEF LockedAreCurrent
    <3> QED
      BY <3>1, <3>2
  <2>4. JudgedStillHolds'
    <3> SUFFICES ASSUME NEW s \in Requests, pc'[s] = "checked",
                        NEW e \in LockSet(call'[s].body)
                 PROVE  /\ owner'[e] = s
                        /\ header'[e] # None =>
                             WithinBounds(e, seen[s][e] + Move(call[s].body, e))'
                        /\ e \in Accounts => active'[e]
      BY DEF JudgedStillHolds
    <3>1. s # r /\ pc[s] = "checked" /\ e \in LockSet(call[s].body) /\ e \in Docs
      BY <1>s, <2>1
    <3>2. /\ owner[e] = s
          /\ header[e] # None => WithinBounds(e, seen[s][e] + Move(call[s].body, e))
          /\ e \in Accounts => active[e]
      BY <3>1, <1>t DEF JudgedStillHolds
    <3>3. e # d
      BY <2>1, <3>2
    <3> QED
      BY <2>1, <2>2, <3>1, <3>2, <3>3 DEF WithinBounds, BilledTotal, Move
  <2>5. CallsNameRows'
    BY <1>t, <2>1 DEF CallsNameRows
  <2> QED
    BY <2>3, <2>4, <2>5 DEF LockFacts
<1>4. ASSUME CheckBounds(r)
      PROVE  LockFacts'
  <2>1. /\ pc[r] = "locking" /\ pc'[r] = "checked"
        /\ \A s \in Requests \ {r} : pc'[s] = pc[s]
        /\ UNCHANGED <<life, active, header, lines, running, owner, seen, call>>
    BY <1>4, <1>t DEF CheckBounds, TypeOK, rows, money
  <2>2. \A d \in LockSet(call[r].body) :
          /\ owner[d] = r
          /\ WithinBounds(d, seen[r][d] + Move(call[r].body, d))
          /\ d \in Accounts => active[d]
    BY <1>4 DEF CheckBounds, Pending, FitsBounds
  <2>3. LockedAreCurrent'
    BY <1>t, <2>1 DEF LockedAreCurrent
  <2>4. JudgedStillHolds'
    BY <1>t, <2>1, <2>2 DEF JudgedStillHolds, WithinBounds, BilledTotal, Move
  <2>5. CallsNameRows'
    BY <1>t, <2>1 DEF CallsNameRows
  <2> QED
    BY <2>3, <2>4, <2>5 DEF LockFacts
<1>5. ASSUME RefuseBounds(r) \/ ApplyConflict(r)
      PROVE  LockFacts'
  BY <1>5, FinishKeepsLocks DEF RefuseBounds, ApplyConflict, rows, money
<1>6. ASSUME ApplyCommit(r)
      PROVE  LockFacts'
  <2>1. pc[r] = "checked" /\ Finish(r) /\ UNCHANGED rows
    BY <1>6 DEF ApplyCommit
  <2>2. \A d \in LockSet(call[r].body) : owner[d] = r
    BY <2>1, <1>t DEF JudgedStillHolds
  <2>3. \A d \in Docs : d \notin LockSet(call[r].body) => running'[d] = running[d]
    BY <1>6 DEF ApplyCommit
  <2> QED
    BY <2>1, <2>2, <2>3, FinishKeepsLocks DEF rows
<1> QED
  BY <1>1, <1>2, <1>3, <1>4, <1>5, <1>6 DEF Apply

\* The steps of the requests that write one document keep it too: each waits
\* for the lock on the row it writes.
LEMMA EditKeepsLocks ==
  ASSUME IInv, NEW r \in Requests, Edit(r)
  PROVE  LockFacts'
<1>t. TypeOK /\ LockedAreCurrent /\ JudgedStillHolds /\ CallsNameRows
  BY DEF IInv
<1>1. ASSUME NEW e \in Edits, EditRead(r, e)
      PROVE  LockFacts'
  <2>1. /\ pc[r] = "idle" /\ pc'[r] = "editing"
        /\ \A s \in Requests \ {r} : pc'[s] = pc[s] /\ call'[s] = call[s]
        /\ UNCHANGED <<life, active, header, lines, running, owner, seen>>
    BY <1>1, <1>t DEF EditRead, TypeOK, rows, money
  <2>2. LockedAreCurrent'
    BY <1>t, <2>1 DEF LockedAreCurrent
  <2>3. JudgedStillHolds'
    BY <1>t, <2>1 DEF JudgedStillHolds, WithinBounds, BilledTotal, Move
  <2>4. CallsNameRows'
    BY <1>t, <2>1 DEF CallsNameRows
  <2> QED
    BY <2>2, <2>3, <2>4 DEF LockFacts
<1>2. ASSUME WriteTotal(r)
      PROVE  LockFacts'
  <2>1. /\ Finish(r) /\ owner[call[r].doc] = None
        /\ \A d \in Docs \ {call[r].doc} : header'[d] = header[d]
        /\ UNCHANGED <<life, active, running>>
    BY <1>2, <1>t DEF WriteTotal, EditCommit, Writes, TypeOK, money
  <2> QED
    BY <2>1, FinishKeepsLocks
<1>3. ASSUME WriteParty(r) \/ WriteStatus(r) \/ WriteLines(r) \/ RefuseEntry(r) \/ RefuseInvoice(r)
      PROVE  LockFacts'
  <2>1. Finish(r) /\ UNCHANGED <<life, active, header, running>>
    BY <1>3 DEF WriteParty, WriteStatus, WriteLines, RefuseEntry, RefuseInvoice,
                EditCommit, Writes, rows, money
  <2> QED
    BY <2>1, FinishKeepsLocks
<1>4. ASSUME WriteDelete(r) \/ WriteRestore(r)
      PROVE  LockFacts'
  <2>1. /\ Finish(r) /\ UNCHANGED <<active, header, running>>
        /\ \A d \in Docs : life[d] # "absent" => life'[d] # "absent"
    BY <1>4, <1>t DEF WriteDelete, WriteRestore, EditCommit, Writes, TypeOK, money
  <2> QED
    BY <2>1, FinishKeepsLocks
<1>5. ASSUME WriteActive(r)
      PROVE  LockFacts'
  <2>1. /\ Finish(r) /\ owner[call[r].doc] = None
        /\ \A d \in Accounts \ {call[r].doc} : active'[d] = active[d]
        /\ UNCHANGED <<life, header, running>>
    BY <1>5, <1>t DEF WriteActive, EditCommit, Writes, TypeOK, money
  <2> QED
    BY <2>1, FinishKeepsLocks
<1>6. ASSUME PostEntry(r)
      PROVE  LockFacts'
  <2>1. /\ Finish(r) /\ owner[call[r].doc] = None
        /\ \A d \in Docs \ {call[r].doc} : running'[d] = running[d]
        /\ UNCHANGED <<life, header, active>>
    BY <1>6, <1>t DEF PostEntry, EditCommit, Writes, TypeOK, rows
  <2> QED
    BY <2>1, FinishKeepsLocks
<1>7. ASSUME RaiseInvoice(r)
      PROVE  LockFacts'
  <2> DEFINE i == call[r].doc
  <2>1. /\ Finish(r) /\ i \in Invoices /\ life[i] = "absent"
        /\ \A d \in Docs \ {i} : header'[d] = header[d] /\ life'[d] = life[d]
        /\ life'[i] = "live" /\ UNCHANGED <<active, running>>
    BY <1>7, <1>t, EditCallFacts
       DEF RaiseInvoice, Writes, Unbilled, Reimburses, TypeOK, Docs, money
  <2>2. \A d \in Docs, s \in Requests : owner[d] = s => life[d] # "absent"
    BY <1>t DEF LockedAreCurrent, CallsNameRows
  <2>3. \A d \in Docs : life[d] # "absent" => life'[d] # "absent"
    BY <2>1
  <2>4. \A d \in Docs, s \in Requests : owner[d] = s => header'[d] = header[d]
    BY <2>1, <2>2
  <2> QED
    BY <2>1, <2>3, <2>4, FinishKeepsLocks
<1> QED
  BY <1>1, <1>2, <1>3, <1>4, <1>5, <1>6, <1>7 DEF Edit

-----------------------------------------------------------------------------
(* The two promises about money that the invariant carries                   *)

\* A commit computes from totals that are still the rows' totals.
LEMMA CommitIsCurrent ==
  ASSUME IInv, NEW r \in Requests, ApplyCommit(r)
  PROVE  /\ call[r].body \in Bodies
         /\ running' = Moved(running, call[r].body)
         /\ ledger' = Moved(ledger, call[r].body)
<1>1. pc[r] = "checked" /\ call[r].body \in Bodies
  BY ApplyCallFacts DEF ApplyCommit, IInv, TypeOK
<1>2. \A d \in LockSet(call[r].body) : d \in Docs /\ seen[r][d] = running[d]
  BY <1>1, BodyFacts DEF IInv, JudgedStillHolds, LockedAreCurrent
<1> QED
  BY <1>1, <1>2 DEF ApplyCommit, Moved

\* Only a commit of an apply call and a posting move money.
LEMMA WhoMovesMoney ==
  ASSUME NEW r \in Requests, Apply(r) \/ Edit(r)
  PROVE  ApplyCommit(r) \/ PostEntry(r) \/ UNCHANGED money
<1>1. \A b \in Bodies, k \in Keys \cup {None} :
        ApplyCheck(r, b, k) \/ ApplyReplay(r, b, k) => UNCHANGED money
  BY DEF ApplyCheck, ApplyReplay
<1>2. \A d \in Docs : LockRow(r, d) => UNCHANGED money
  BY DEF LockRow
<1>3. CheckBounds(r) \/ RefuseBounds(r) \/ ApplyConflict(r) => UNCHANGED money
  BY DEF CheckBounds, RefuseBounds, ApplyConflict
<1>4. \A e \in Edits : EditRead(r, e) => UNCHANGED money
  BY DEF EditRead
<1>5. WriteTotal(r) \/ WriteParty(r) \/ WriteStatus(r) \/ WriteLines(r) => UNCHANGED money
  BY DEF WriteTotal, WriteParty, WriteStatus, WriteLines
<1>6. WriteDelete(r) \/ WriteRestore(r) \/ WriteActive(r) => UNCHANGED money
  BY DEF WriteDelete, WriteRestore, WriteActive
<1>7. RefuseEntry(r) \/ RaiseInvoice(r) \/ RefuseInvoice(r) => UNCHANGED money
  BY DEF RefuseEntry, RaiseInvoice, RefuseInvoice
<1> QED
  BY <1>1, <1>2, <1>3, <1>4, <1>5, <1>6, <1>7 DEF Apply, Edit

LEMMA LedgerStep ==
  ASSUME IInv, NEW r \in Requests, Apply(r) \/ Edit(r)
  PROVE  LedgerAgrees'
<1>t. TypeOK /\ LedgerAgrees
  BY DEF IInv
<1>1. CASE ApplyCommit(r)
  <2>1. call[r].body \in Bodies /\ LockSet(call[r].body) \subseteq Docs
    BY <1>1, CommitIsCurrent, BodyFacts
  <2> QED
    BY <1>1, <1>t, <2>1, CommitIsCurrent, BodyFacts DEF Moved, LedgerAgrees
<1>2. CASE PostEntry(r)
  BY <1>2, <1>t DEF PostEntry, LedgerAgrees, TypeOK
<1>3. CASE UNCHANGED <<running, ledger>>
  BY <1>3, <1>t DEF LedgerAgrees
<1>4. ApplyCommit(r) \/ PostEntry(r) \/ UNCHANGED <<running, ledger>>
  BY WhoMovesMoney DEF money
<1> QED
  BY <1>1, <1>2, <1>3, <1>4

LEMMA KeyStep ==
  ASSUME IInv, NEW r \in Requests, Apply(r) \/ Edit(r)
  PROVE  OncePerKey'
<1>t. TypeOK /\ OncePerKey
  BY DEF IInv
<1>1. CASE UNCHANGED keyed
  BY <1>1, <1>t DEF OncePerKey
<1>2. CASE ApplyCommit(r) /\ keyed' # keyed
  <2> DEFINE b == call[r].body
             k == call[r].key
  <2>1. /\ keyed' = [keyed EXCEPT ![b.pay][k] = Append(@, b)]
        /\ k # None /\ keyed[b.pay][k] = <<>>
    BY <1>2 DEF ApplyCommit, KeyTaken
  <2>2. b \in Bodies /\ b.pay \in Payments /\ k \in Keys
    BY <1>2, <1>t, <2>1, ApplyCallFacts, BodyFacts DEF ApplyCommit, TypeOK
  <2>3. Len(Append(keyed[b.pay][k], b)) = 1
    BY <2>1
  <2>4. \A p \in Payments, j \in Keys :
          keyed'[p][j] = IF p = b.pay /\ j = k THEN Append(keyed[b.pay][k], b) ELSE keyed[p][j]
    <3> HIDE DEF b, k
    <3> QED  BY <1>t, <2>1, <2>2 DEF TypeOK
  <2>5. ASSUME NEW p \in Payments, NEW j \in Keys
        PROVE  Len(keyed'[p][j]) <= 1
    <3>1. Len(keyed[p][j]) <= 1
      BY <1>t DEF OncePerKey
    <3> HIDE DEF b, k
    <3>2. CASE p = b.pay /\ j = k
      <4>1. keyed'[p][j] = Append(keyed[b.pay][k], b)
        BY <2>4, <3>2
      <4>2. Len(keyed'[p][j]) = 1
        BY <2>3, <4>1, Zenon
      <4> QED
        BY <4>2
    <3>3. CASE ~(p = b.pay /\ j = k)
      BY <2>4, <3>1, <3>3
    <3> QED
      BY <3>2, <3>3
  <2> QED
    BY <2>5 DEF OncePerKey
<1>3. (ApplyCommit(r) /\ keyed' # keyed) \/ UNCHANGED keyed
  BY WhoMovesMoney DEF PostEntry, money
<1> QED
  BY <1>1, <1>2, <1>3

-----------------------------------------------------------------------------
LEMMA InitIInv == Init => IInv
<1> SUFFICES ASSUME Init
             PROVE  IInv
  OBVIOUS
<1>1. LedgerAgrees
  BY DEF Init, LedgerAgrees
<1>2. OncePerKey
  BY DEF Init, OncePerKey
<1>3. LockedAreCurrent /\ JudgedStillHolds /\ CallsNameRows
  BY DEF Init, LockedAreCurrent, JudgedStillHolds, CallsNameRows
<1> QED
  BY <1>1, <1>2, <1>3, InitTypes DEF IInv

LEMMA StepIInv == IInv /\ [Next]_vars => IInv'
<1> SUFFICES ASSUME IInv, [Next]_vars
             PROVE  IInv'
  OBVIOUS
<1>1. TypeOK'
  BY StepTypes DEF IInv
<1>2. ASSUME NEW r \in Requests, Apply(r) \/ Edit(r)
      PROVE  IInv'
  BY <1>1, <1>2, ApplyKeepsLocks, EditKeepsLocks, LedgerStep, KeyStep DEF IInv, LockFacts
<1>3. CASE UNCHANGED vars
  BY <1>1, <1>3 DEF vars, rows, money, IInv, LedgerAgrees, OncePerKey, LockedAreCurrent,
                    JudgedStillHolds, CallsNameRows, WithinBounds, BilledTotal, Move
<1> QED
  BY <1>2, <1>3 DEF Next

\* The invariant that carries the promises holds in every reachable state.
THEOREM Invariance == Spec => []IInv
  BY InitIInv, StepIInv, PTL DEF Spec

\* Every running total is the sum of its append-only rows, for any number of
\* requests, rows and bodies (apply_payment, post_account_entries).
THEOREM LedgerAlwaysAgrees == Spec => []LedgerAgrees
<1>1. IInv => LedgerAgrees
  BY DEF IInv
<1> QED
  BY <1>1, Invariance, PTL

\* No idempotency key ever applies a second time, whatever races with it.
THEOREM KeysApplyOnce == Spec => []OncePerKey
<1>1. IInv => OncePerKey
  BY DEF IInv
<1> QED
  BY <1>1, Invariance, PTL

\* What apply_payment judged under lock is still so when it commits.
THEOREM JudgementsHold == Spec => []JudgedStillHolds
<1>1. IInv => JudgedStillHolds
  BY DEF IInv
<1> QED
  BY <1>1, Invariance, PTL

-----------------------------------------------------------------------------
(* Requests that wait for each other                                        *)

\* What a request holds comes before what it has still to lock.
LocksAscend ==
  \A r \in Requests : pc[r] = "locking" =>
    \A d \in Docs, e \in Pending(r) : owner[d] = r => Rank[d] < Rank[e]

\* Steps after which a request that is locking was locking, for the same call
\* and with the same rows.
Queued ==
  \A s \in Requests : pc'[s] = "locking" =>
    /\ pc[s] = "locking" /\ call'[s] = call[s]
    /\ \A d \in Docs : owner'[d] = s <=> owner[d] = s

LEMMA QueuedAscend ==
  ASSUME TypeOK, LocksAscend, Queued
  PROVE  LocksAscend'
<1> SUFFICES ASSUME NEW s \in Requests, pc'[s] = "locking",
                    NEW d \in Docs, NEW e \in Pending(s)', owner'[d] = s
             PROVE  Rank[d] < Rank[e]
  BY DEF LocksAscend
<1>1. pc[s] = "locking" /\ call'[s] = call[s] /\ owner[d] = s
  BY DEF Queued
<1>2. call[s].body \in Bodies
  BY <1>1, ApplyCallFacts DEF TypeOK
<1>3. e \in Docs /\ e \in LockSet(call[s].body) /\ owner'[e] # s
  BY <1>1, <1>2, BodyFacts DEF Pending
<1>4. e \in Pending(s)
  BY <1>3 DEF Queued, Pending
<1> QED
  BY <1>1, <1>4 DEF LocksAscend

LEMMA FinishQueued ==
  ASSUME TypeOK, NEW r \in Requests, Finish(r)
  PROVE  Queued
<1>1. /\ pc' = [pc EXCEPT ![r] = "idle"] /\ call' = [call EXCEPT ![r] = None]
      /\ owner' = [d \in Docs |-> IF owner[d] = r THEN None ELSE owner[d]]
  BY DEF Finish, Released
<1>2. \A s \in Requests \ {r} : pc'[s] = pc[s] /\ call'[s] = call[s]
  BY <1>1 DEF TypeOK
<1>3. pc'[r] # "locking"
  BY <1>1 DEF TypeOK
<1>4. \A s \in Requests \ {r}, d \in Docs : owner'[d] = s <=> owner[d] = s
  BY <1>1
<1> QED
  BY <1>2, <1>3, <1>4 DEF Queued

LEMMA ApplyAscends ==
  ASSUME IInv, LocksAscend, NEW r \in Requests, Apply(r)
  PROVE  LocksAscend'
<1>t. TypeOK
  BY DEF IInv
<1>1. ASSUME NEW b \in Bodies, NEW k \in Keys \cup {None}, ApplyCheck(r, b, k)
      PROVE  LocksAscend'
  <2>1. pc[r] = "idle" /\ UNCHANGED owner /\ \A s \in Requests \ {r} : pc'[s] = pc[s] /\ call'[s] = call[s]
    BY <1>1, <1>t DEF ApplyCheck, TypeOK
  <2>2. \A d \in Docs : owner[d] # r
    BY <2>1 DEF IInv, LockedAreCurrent
  <2> SUFFICES ASSUME NEW s \in Requests, pc'[s] = "locking",
                      NEW d \in Docs, NEW e \in Pending(s)', owner'[d] = s
               PROVE  Rank[d] < Rank[e]
    BY DEF LocksAscend
  <2>3. s # r /\ pc[s] = "locking" /\ owner[d] = s
    BY <2>1, <2>2
  <2>4. e \in Pending(s)
    BY <2>1, <2>3 DEF Pending
  <2> QED
    BY <2>3, <2>4 DEF LocksAscend
<1>2. ASSUME NEW d \in Docs, LockRow(r, d)
      PROVE  LocksAscend'
  <2>1. /\ pc[r] = "locking" /\ d \in Pending(r) /\ \A e \in Pending(r) : Rank[d] <= Rank[e]
        /\ owner[d] = None /\ owner' = [owner EXCEPT ![d] = r] /\ UNCHANGED <<pc, call>>
    BY <1>2 DEF LockRow
  <2> SUFFICES ASSUME NEW s \in Requests, pc'[s] = "locking",
                      NEW f \in Docs, NEW e \in Pending(s)', owner'[f] = s
               PROVE  Rank[f] < Rank[e]
    BY DEF LocksAscend
  <2>2. pc[s] = "locking" /\ s # None
    BY <2>1
  <2>3. call[s].body \in Bodies
    BY <1>t, <2>2, ApplyCallFacts DEF TypeOK
  <2>4. e \in Docs /\ e \in LockSet(call[s].body) /\ owner'[e] # s
    BY <2>1, <2>3, BodyFacts DEF Pending
  <2>5. e \in Pending(s)
    BY <1>t, <2>1, <2>2, <2>4 DEF Pending, TypeOK
  <2>6. CASE f # d
    <3>1. owner[f] = s
      BY <1>t, <2>1, <2>6 DEF TypeOK
    <3> QED
      BY <2>2, <2>5, <3>1 DEF LocksAscend
  <2>7. CASE f = d
    <3>1. s = r /\ e # d
      BY <1>t, <2>1, <2>4, <2>7 DEF TypeOK
    <3>2. Rank[d] <= Rank[e] /\ Rank[d] # Rank[e] /\ Rank[d] \in Nat /\ Rank[e] \in Nat
      BY <2>1, <2>4, <2>5, <3>1
    <3> QED
      BY <2>7, <3>2
  <2> QED
    BY <2>6, <2>7
<1>3. CASE CheckBounds(r)
  <2>1. Queued
    BY <1>3, <1>t DEF CheckBounds, Queued, TypeOK
  <2> QED
    BY <1>t, <2>1, QueuedAscend
<1>4. CASE \E b \in Bodies, k \in Keys \cup {None} : ApplyReplay(r, b, k)
  <2>1. Queued
    BY <1>4 DEF ApplyReplay, Queued
  <2> QED
    BY <1>t, <2>1, QueuedAscend
<1>5. CASE RefuseBounds(r) \/ ApplyCommit(r) \/ ApplyConflict(r)
  <2>1. Finish(r)
    BY <1>5 DEF RefuseBounds, ApplyCommit, ApplyConflict
  <2> QED
    BY <1>t, <2>1, FinishQueued, QueuedAscend
<1> QED
  BY <1>1, <1>2, <1>3, <1>4, <1>5 DEF Apply

LEMMA EditAscends ==
  ASSUME IInv, LocksAscend, NEW r \in Requests, Edit(r)
  PROVE  LocksAscend'
<1>t. TypeOK
  BY DEF IInv
<1>1. ASSUME NEW e \in Edits, EditRead(r, e)
      PROVE  Queued
  <2>1. UNCHANGED owner /\ pc'[r] # "locking" /\ \A s \in Requests \ {r} : pc'[s] = pc[s] /\ call'[s] = call[s]
    BY <1>1, <1>t DEF EditRead, TypeOK
  <2> QED
    BY <2>1 DEF Queued
<1>2. \A op : Writes(r, op) => Finish(r)
  BY DEF Writes
<1>3. (\E e \in Edits : EditRead(r, e)) \/ Finish(r)
  BY <1>2 DEF Edit, EditCommit, WriteTotal, WriteParty, WriteStatus, WriteLines, WriteDelete, WriteRestore,
              WriteActive, PostEntry, RefuseEntry, RaiseInvoice, RefuseInvoice
<1> QED
  BY <1>1, <1>3, <1>t, FinishQueued, QueuedAscend

\* Among the rows somebody waits for, one has the last id.
LEMMA LastRow ==
  ASSUME NEW N \in SUBSET Docs, N # {}
  PROVE  \E d \in N : \A e \in N : Rank[e] <= Rank[d]
BY Greatest

\* In a ring everybody waits for a row, and whoever holds the last of them
\* would wait for an earlier one.
LEMMA NoRing ==
  ASSUME IInv, LocksAscend
  PROVE  NoDeadlock
<1> SUFFICES ASSUME NEW R \in SUBSET Requests, R # {}, \A r \in R : \E s \in R : Blocked(r, s)
             PROVE  FALSE
  BY DEF NoDeadlock
<1> DEFINE Awaits(r, d) == d \in Pending(r) /\ \A e \in Pending(r) : Rank[d] <= Rank[e]
           N == {d \in Docs : \E r \in R : pc[r] = "locking" /\ Awaits(r, d) /\ owner[d] \in R}
<1>1. ASSUME NEW r \in R
      PROVE  pc[r] = "locking" /\ \E d \in N : Awaits(r, d) /\ owner[d] \in R
  <2>1. PICK s \in R : Blocked(r, s)
    OBVIOUS
  <2>2. pc[r] = "locking" /\ \E d \in Pending(r) : owner[d] = s /\ \A e \in Pending(r) : Rank[d] <= Rank[e]
    BY <2>1 DEF Blocked
  <2>3. call[r].body \in Bodies
    BY <2>2, ApplyCallFacts DEF IInv, TypeOK
  <2>4. Pending(r) \subseteq Docs
    BY <2>3, BodyFacts DEF Pending
  <2> QED
    BY <2>2, <2>4
<1>2. N \in SUBSET Docs /\ N # {}
  BY <1>1
<1>3. PICK d \in N : \A e \in N : Rank[e] <= Rank[d]
  <2> HIDE DEF N
  <2> QED
    BY <1>2, LastRow
<1>4. PICK s \in R : owner[d] = s
  OBVIOUS
<1>5. PICK e \in N : Awaits(s, e)
  BY <1>1
<1>6. Rank[d] < Rank[e]
  BY <1>1, <1>2, <1>4, <1>5 DEF LocksAscend
<1>7. Rank[e] <= Rank[d] /\ Rank[d] \in Nat /\ Rank[e] \in Nat
  BY <1>2, <1>3
<1> QED
  BY <1>6, <1>7

\* lock_for_update over one sorted set: any number of applications, over any
\* rows, never wait for each other in a ring.
THEOREM NobodyWaitsInARing == Spec => []NoDeadlock
<1>1. Init => LocksAscend
  BY DEF Init, LocksAscend
<1>2. IInv /\ LocksAscend /\ [Next]_vars => LocksAscend'
  <2> SUFFICES ASSUME IInv, LocksAscend, [Next]_vars
               PROVE  LocksAscend'
    OBVIOUS
  <2>1. CASE Next
    BY <2>1, ApplyAscends, EditAscends DEF Next
  <2>2. CASE UNCHANGED vars
    BY <2>2 DEF vars, LocksAscend, Pending
  <2> QED
    BY <2>1, <2>2
<1>3. IInv /\ LocksAscend => NoDeadlock
  BY NoRing
<1> QED
  BY <1>1, <1>2, <1>3, Invariance, PTL DEF Spec

-----------------------------------------------------------------------------
(* Every step is a step of the atomic ledger, or moves nothing it can see    *)

\* What the abstract ledger demands of a row, from what the code checked.
LEMMA CommitIsAllowed ==
  ASSUME IInv, NEW r \in Requests, ApplyCommit(r), NEW d \in LockSet(call[r].body)
  PROVE  /\ d \in Docs
         /\ header[d] # None => InBounds(d, running[d] + Move(call[r].body, d), header[d])
         /\ d \in Accounts => active[d]
<1>1. pc[r] = "checked" /\ d \in Docs
  BY CommitIsCurrent, BodyFacts DEF ApplyCommit
<1>2. /\ seen[r][d] = running[d]
      /\ header[d] # None => WithinBounds(d, seen[r][d] + Move(call[r].body, d))
      /\ d \in Accounts => active[d]
  BY <1>1 DEF IInv, JudgedStillHolds, LockedAreCurrent
<1> QED
  BY <1>1, <1>2 DEF WithinBounds, BilledTotal

\* The same for a posting to an account.
LEMMA PostingIsAllowed ==
  ASSUME IInv, NEW r \in Requests, PostEntry(r)
  PROVE  LET e == call[r]
         IN  /\ e.doc \in Accounts /\ e.doc \in Docs /\ e.val \in Postings
             /\ header[e.doc] # None
             /\ InBounds(e.doc, running[e.doc] + e.val, header[e.doc])
             /\ active[e.doc]
<1>1. call[r] \in EditCalls /\ call[r].op = "entry"
  BY DEF IInv, TypeOK, PostEntry, EditCommit, Writes
<1>2. /\ call[r].doc \in Accounts /\ call[r].doc \in Docs /\ call[r].val \in Postings
      /\ header[call[r].doc] # None
  BY <1>1, EditCallFacts DEF IInv, TypeOK
<1> QED
  BY <1>2 DEF PostEntry, EntryFits, InBounds

LEMMA BoundsStep ==
  ASSUME IInv, [Next]_vars, NEW d \in Docs, running'[d] # running[d]
  PROVE  /\ header[d] # None => WithinBounds(d, running'[d])
         /\ d \in Accounts => active[d]
<1>1. ASSUME NEW r \in Requests, ApplyCommit(r)
      PROVE  /\ header[d] # None => WithinBounds(d, running'[d])
             /\ d \in Accounts => active[d]
  <2>1. d \in LockSet(call[r].body) /\ running'[d] = running[d] + Move(call[r].body, d)
    BY <1>1, CommitIsCurrent DEF Moved
  <2> QED
    BY <1>1, <2>1, CommitIsAllowed DEF WithinBounds, BilledTotal
<1>2. ASSUME NEW r \in Requests, PostEntry(r)
      PROVE  /\ header[d] # None => WithinBounds(d, running'[d])
             /\ d \in Accounts => active[d]
  <2>1. d = call[r].doc /\ running'[d] = running[d] + call[r].val
    BY <1>2 DEF PostEntry, IInv, TypeOK
  <2> QED
    BY <1>2, <2>1, PostingIsAllowed DEF WithinBounds, BilledTotal
<1>3. (\E r \in Requests : ApplyCommit(r) \/ PostEntry(r)) \/ UNCHANGED running
  BY WhoMovesMoney DEF Next, money, vars
<1> QED
  BY <1>1, <1>2, <1>3

\* No commit takes a running total out of the bounds its row states at that
\* moment, and none moves a frozen account.
THEOREM BoundsKept == Spec => MovesStayInBounds
<1>1. IInv /\ [Next]_vars =>
        [\A d \in Docs : running'[d] # running[d] =>
           /\ header[d] # None => WithinBounds(d, running'[d])
           /\ d \in Accounts => active[d]]_vars
  BY BoundsStep
<1> QED
  BY <1>1, Invariance, PTL DEF Spec, MovesStayInBounds

\* The abstract ledger speaks of the same rows and the same arithmetic.
LEMMA SameData ==
  /\ Promise!Docs = Docs
  /\ \A b : Promise!LockSet(b) = LockSet(b)
  /\ \A b, d : Promise!Move(b, d) = Move(b, d)
  /\ \A f, b : Promise!Moved(f, b) = Moved(f, b)
  /\ \A d, after, limit : Promise!InBounds(d, after, limit) = InBounds(d, after, limit)
<1>1. Promise!Docs = Docs
  BY DEF Promise!Docs, Docs
<1>2. \A b : Promise!LockSet(b) = LockSet(b)
  BY <1>1 DEF Promise!LockSet, LockSet, Promise!Targets, Targets
<1>3. \A b, d : Promise!Move(b, d) = Move(b, d)
  BY DEF Promise!Move, Move
<1>4. \A f, b : Promise!Moved(f, b) = Moved(f, b)
  BY <1>1, <1>2, <1>3 DEF Promise!Moved, Moved
<1>5. \A d, after, limit : Promise!InBounds(d, after, limit) = InBounds(d, after, limit)
  BY DEF Promise!InBounds, InBounds
<1> QED
  BY <1>1, <1>2, <1>3, <1>4, <1>5

LEMMA AppendToNothing == \A x : Append(<<>>, x) = <<x>>
  OBVIOUS

\* An application's commit is one atomic Apply of the abstract ledger.
LEMMA CommitRefines ==
  ASSUME IInv, NEW r \in Requests, ApplyCommit(r)
  PROVE  Promise!Next
<1> DEFINE b == call[r].body
           k == call[r].key
<1>1. b \in Bodies /\ k \in Keys \cup {None} /\ (k # None => k \in Keys) /\ b.pay \in Payments
  BY ApplyCallFacts, BodyFacts DEF ApplyCommit, IInv, TypeOK
<1>2. k # None => keyed[b.pay][k] = <<>>
  BY DEF ApplyCommit, KeyTaken
<1>3. \A d \in LockSet(b) : Promise!Allowed(d, running[d] + Move(b, d))
  BY CommitIsAllowed, SameData DEF Promise!Allowed
<1>4. running' = Moved(running, b) /\ ledger' = Moved(ledger, b)
  BY CommitIsCurrent
<1>5. keyed' = IF k = None THEN keyed ELSE [keyed EXCEPT ![b.pay][k] = <<b>>]
  <2>1. CASE k = None
    BY <2>1 DEF ApplyCommit
  <2>2. CASE k # None
    <3>1. Append(keyed[b.pay][k], b) = <<b>>
      BY <1>2, <2>2, AppendToNothing
    <3>2. keyed' = [keyed EXCEPT ![b.pay][k] = Append(keyed[b.pay][k], b)]
      BY <2>2 DEF ApplyCommit
    <3> QED
      BY <2>2, <3>1, <3>2
  <2> QED
    BY <2>1, <2>2
<1>6. UNCHANGED <<header, active>>
  BY DEF ApplyCommit, rows
<1> QED
  BY <1>1, <1>2, <1>3, <1>4, <1>5, <1>6, SameData DEF Promise!Next, Promise!Apply

\* A posting is one atomic Post.
LEMMA PostingRefines ==
  ASSUME IInv, NEW r \in Requests, PostEntry(r)
  PROVE  Promise!Next
<1>1. Promise!Allowed(call[r].doc, running[call[r].doc] + call[r].val)
  BY PostingIsAllowed, SameData DEF Promise!Allowed
<1>2. /\ running' = [running EXCEPT ![call[r].doc] = @ + call[r].val]
      /\ ledger' = [ledger EXCEPT ![call[r].doc] = @ + call[r].val]
      /\ UNCHANGED <<keyed, header, active>>
  BY DEF PostEntry, rows
<1>3. call[r].doc \in Accounts /\ call[r].val \in Postings
  BY PostingIsAllowed
<1> QED
  BY <1>1, <1>2, <1>3 DEF Promise!Next, Promise!Post

LEMMA StepRefines == IInv /\ [Next]_vars => [Promise!Next]_(Promise!promised)
<1> SUFFICES ASSUME IInv, [Next]_vars
             PROVE  Promise!Next \/ UNCHANGED <<running, ledger, keyed, header, active>>
  BY DEF Promise!promised
<1>1. CASE \E r \in Requests : ApplyCommit(r)
  BY <1>1, CommitRefines
<1>2. CASE \E r \in Requests : PostEntry(r)
  BY <1>2, PostingRefines
<1>3. CASE UNCHANGED <<running, ledger, keyed>>
  <2>1. header' \in [Docs -> Amounts \cup {None}] /\ active' \in [Accounts -> BOOLEAN]
    BY StepTypes DEF IInv, TypeOK
  <2> QED
    BY <1>3, <2>1, SameData DEF Promise!Next, Promise!Restate
<1>4. \/ \E r \in Requests : ApplyCommit(r) \/ PostEntry(r)
      \/ UNCHANGED <<running, ledger, keyed>>
  BY WhoMovesMoney DEF Next, money, vars
<1> QED
  BY <1>1, <1>2, <1>3, <1>4

\* Settlement, locks and all, is the atomic ledger: what any request can see
\* of money is what SettlementPromise allows.
THEOREM Refinement == Spec => KeepsPromise
<1>1. Init => Promise!Init
  BY SameData DEF Init, Promise!Init
<1> QED
  BY <1>1, StepRefines, Invariance, PTL DEF Spec, KeepsPromise, Promise!Spec

=============================================================================
