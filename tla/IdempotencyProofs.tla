--------------------------- MODULE IdempotencyProofs ---------------------------
(***************************************************************************)
(* Proofs about the idempotency middleware, for any number of attempts:    *)
(* IInv is inductive, and the safety properties of Idempotency follow.     *)
(***************************************************************************)
EXTENDS Idempotency, TLAPS

\* The initial state satisfies the invariant.
LEMMA InitIInv == Init => IInv
  BY IdempotencyAssumption DEF Init, IInv, TypeOK, RowBelongs, AnswersMatch, Mine, Holders,
     Heard, IsFirst

\* Storing an answer yields a row that carries one.
LEMMA StoredRow ==
  ASSUME IInv, NEW a \in Attempts, SettleStore(a)
  PROVE  row' \in Rows /\ row'.reply \in Replies
<1>1. [by |-> a, status |-> KeptOf(status[a])] \in Replies
  BY DEF SettleStore, IInv, TypeOK, AnswersMatch, KeptOf, Replies, Statuses, Kept
<1>2. Mine(a) /\ row \in Rows
  BY DEF SettleStore, IInv, TypeOK, RowBelongs, Mine, Holders
<1>3. QED
  BY <1>1, <1>2 DEF SettleStore, Rows

\* Every step keeps the types: rows, answers and what clients are told.
LEMMA TypesStay ==
  ASSUME IInv, [Next]_vars
  PROVE  TypeOK'
<1> USE IdempotencyAssumption DEF IInv, TypeOK
<1>1. ASSUME NEW a \in Attempts, ClaimFree(a) PROVE TypeOK'
  BY <1>1 DEF ClaimFree, Rows, Replies, Told, Ages, Statuses, Kept
<1>2. ASSUME NEW a \in Attempts, ClaimExpired(a) PROVE TypeOK'
  BY <1>2 DEF ClaimExpired, Expired, Rows, Replies, Told, Ages, Statuses, Kept
<1>3. ASSUME NEW a \in Attempts, ClaimTaken(a) PROVE TypeOK'
  BY <1>3 DEF ClaimTaken, Meet, SameRequest, End, Plain, Answer, Expired, Rows, Replies, Told, Ages, Statuses, Kept
<1>4. ASSUME NEW a \in Attempts, ClaimInsert(a) PROVE TypeOK'
  BY <1>4 DEF ClaimInsert, Rows, Replies, Told, Ages, Statuses, Kept
<1>5. ASSUME NEW a \in Attempts, ClaimConflict(a) PROVE TypeOK'
  BY <1>5 DEF ClaimConflict, Rows, Replies, Told, Ages, Statuses, Kept
<1>6. ASSUME NEW a \in Attempts, ClaimReread(a) PROVE TypeOK'
  BY <1>6 DEF ClaimReread, Meet, SameRequest, End, Plain, Answer, Rows, Replies, Told, Ages, Statuses, Kept
<1>7. ASSUME NEW a \in Attempts, ClaimVanished(a) PROVE TypeOK'
  BY <1>7 DEF ClaimVanished, End, Plain, Answer, Rows, Replies, Told, Ages, Statuses, Kept
<1>8. ASSUME NEW a \in Attempts, Replay(a) PROVE TypeOK'
  <2>1. found[a] \in Replies
    BY <1>8 DEF Replay, AnswersMatch
  <2>2. Answer("replay", found[a].by, found[a].status) \in Told /\ Plain("denied") \in Told
    BY <2>1 DEF Answer, Plain, Told, Replies
  <2>3. QED
    BY <1>8, <2>2 DEF Replay, End
<1>9. ASSUME NEW a \in Attempts, HandlerCommits(a) PROVE TypeOK'
  BY <1>9 DEF HandlerCommits, Rows, Replies, Told, Ages, Statuses, Kept
<1>10. ASSUME NEW a \in Attempts, CommitUnheard(a) PROVE TypeOK'
  BY <1>10 DEF CommitUnheard, Rows, Replies, Told, Ages, Statuses, Kept
<1>11. ASSUME NEW a \in Attempts, HandlerAnswers(a) PROVE TypeOK'
  BY <1>11 DEF HandlerAnswers, Rows, Replies, Told, Ages, Statuses, Kept
<1>12. ASSUME NEW a \in Attempts, HandlerRaises(a) PROVE TypeOK'
  BY <1>12 DEF HandlerRaises, Rows, Replies, Told, Ages, Statuses, Kept
<1>13. ASSUME NEW a \in Attempts, SettleStore(a) PROVE TypeOK'
  <2>1. Mine(a)
    BY <1>13 DEF SettleStore, RowBelongs, Holders
  <2>2. row' \in Rows
    BY <1>13, StoredRow DEF TypeOK
  <2>3. QED
    BY <1>13, <2>2 DEF SettleStore
<1>14. ASSUME NEW a \in Attempts, SettleFailed(a) PROVE TypeOK'
  BY <1>14 DEF SettleFailed, GiveUp, Frees, Mine, Rows, Replies, Told, Ages, Statuses, Kept
<1>15. ASSUME NEW a \in Attempts, SettleBreaks(a) PROVE TypeOK'
  BY <1>15 DEF SettleBreaks, End, Answer, Rows, Replies, Told, Ages, Statuses, Kept
<1>16. ASSUME NEW a \in Attempts, Send(a) PROVE TypeOK'
  BY <1>16 DEF Send, End, Answer, Rows, Replies, Told, Ages, Statuses, Kept
<1>17. ASSUME NEW a \in Attempts, Abandon(a) PROVE TypeOK'
  BY <1>17 DEF Abandon, GiveUp, Frees, Mine, End, Plain, Answer, Rows, Replies, Told, Ages, Statuses, Kept
<1>18. ASSUME NEW a \in Attempts, Die(a) PROVE TypeOK'
  BY <1>18 DEF Die, End, Plain, Answer, Rows, Replies, Told, Ages, Statuses, Kept
<1>19. CASE GraceEnds
  BY <1>19 DEF GraceEnds, Rows, Replies, Told, Ages, Statuses, Kept
<1>20. CASE RetentionEnds
  BY <1>20 DEF RetentionEnds, Rows, Replies, Told, Ages, Statuses, Kept
<1>21. CASE Sweep
  BY <1>21 DEF Sweep, Expired, Rows, Replies, Told, Ages, Statuses, Kept
<1>22. CASE UNCHANGED vars
  BY <1>22 DEF vars, Rows, Replies, Told, Ages, Statuses, Kept
<1>23. QED
  BY <1>1, <1>2, <1>3, <1>4, <1>5, <1>6, <1>7, <1>8, <1>9, <1>10, <1>11, <1>12, <1>13, <1>14, <1>15, <1>16, <1>17, <1>18, <1>19, <1>20, <1>21, <1>22
     DEF Next, Claim, Handle, Settle

\* Every step keeps the row with whoever holds it or has written under it.
LEMMA RowStays ==
  ASSUME IInv, [Next]_vars
  PROVE  RowBelongs'
<1> USE IdempotencyAssumption DEF IInv, TypeOK, RowBelongs, Holders
<1>1. ASSUME NEW a \in Attempts, ClaimFree(a) PROVE RowBelongs'
  BY <1>1 DEF ClaimFree, Mine, Rows, Ages
<1>2. ASSUME NEW a \in Attempts, ClaimExpired(a) PROVE RowBelongs'
  BY <1>2 DEF ClaimExpired, Expired, Mine, Rows, Ages
<1>3. ASSUME NEW a \in Attempts, ClaimTaken(a) PROVE RowBelongs'
  BY <1>3 DEF ClaimTaken, Meet, SameRequest, End, Plain, Answer, Expired, Mine, Rows, Ages
<1>4. ASSUME NEW a \in Attempts, ClaimInsert(a) PROVE RowBelongs'
  BY <1>4 DEF ClaimInsert, Mine, Rows, Ages
<1>5. ASSUME NEW a \in Attempts, ClaimConflict(a) PROVE RowBelongs'
  BY <1>5 DEF ClaimConflict, Mine, Rows, Ages
<1>6. ASSUME NEW a \in Attempts, ClaimReread(a) PROVE RowBelongs'
  BY <1>6 DEF ClaimReread, Meet, SameRequest, End, Plain, Answer, Mine, Rows, Ages
<1>7. ASSUME NEW a \in Attempts, ClaimVanished(a) PROVE RowBelongs'
  BY <1>7 DEF ClaimVanished, End, Plain, Answer, Mine, Rows, Ages
<1>8. ASSUME NEW a \in Attempts, Replay(a) PROVE RowBelongs'
  BY <1>8 DEF Replay, End, Plain, Answer, Mine, Rows, Ages
<1>9. ASSUME NEW a \in Attempts, HandlerCommits(a) PROVE RowBelongs'
  BY <1>9 DEF HandlerCommits, Mine, Rows, Ages
<1>10. ASSUME NEW a \in Attempts, CommitUnheard(a) PROVE RowBelongs'
  BY <1>10 DEF CommitUnheard, Mine, Rows, Ages
<1>11. ASSUME NEW a \in Attempts, HandlerAnswers(a) PROVE RowBelongs'
  BY <1>11 DEF HandlerAnswers, Mine, Rows, Ages
<1>12. ASSUME NEW a \in Attempts, HandlerRaises(a) PROVE RowBelongs'
  BY <1>12 DEF HandlerRaises, Mine, Rows, Ages
<1>13. ASSUME NEW a \in Attempts, SettleStore(a) PROVE RowBelongs'
  <2>1. Mine(a) /\ row \in Rows
    BY <1>13 DEF SettleStore, Mine
  <2>2. row' \in Rows
    BY <1>13, StoredRow DEF TypeOK, RowBelongs
  <2>3. row'.by = row.by /\ row'.print = row.print /\ row'.age = row.age
    BY <1>13, <2>1 DEF SettleStore, Rows
  <2>4. QED
    BY <1>13, <2>1, <2>2, <2>3 DEF SettleStore, Mine
<1>14. ASSUME NEW a \in Attempts, SettleFailed(a) PROVE RowBelongs'
  BY <1>14 DEF SettleFailed, GiveUp, Frees, Mine, Rows, Ages
<1>15. ASSUME NEW a \in Attempts, SettleBreaks(a) PROVE RowBelongs'
  BY <1>15 DEF SettleBreaks, End, Answer, Mine, Rows, Ages
<1>16. ASSUME NEW a \in Attempts, Send(a) PROVE RowBelongs'
  BY <1>16 DEF Send, End, Answer, Mine, Rows, Ages
<1>17. ASSUME NEW a \in Attempts, Abandon(a) PROVE RowBelongs'
  BY <1>17 DEF Abandon, GiveUp, Frees, Mine, End, Plain, Answer, Rows, Ages
<1>18. ASSUME NEW a \in Attempts, Die(a) PROVE RowBelongs'
  BY <1>18 DEF Die, End, Plain, Answer, Mine, Rows, Ages
<1>19. CASE GraceEnds
  BY <1>19 DEF GraceEnds, Mine, Rows, Ages
<1>20. CASE RetentionEnds
  BY <1>20 DEF RetentionEnds, Mine, Rows, Ages
<1>21. CASE Sweep
  BY <1>21 DEF Sweep, Expired, Mine, Rows, Ages
<1>22. CASE UNCHANGED vars
  BY <1>22 DEF vars, Mine, Rows, Ages
<1>23. QED
  BY <1>1, <1>2, <1>3, <1>4, <1>5, <1>6, <1>7, <1>8, <1>9, <1>10, <1>11, <1>12, <1>13, <1>14, <1>15, <1>16, <1>17, <1>18, <1>19, <1>20, <1>21, <1>22
     DEF Next, Claim, Handle, Settle

\* Every step keeps a stored answer the one its handler gave.
LEMMA AnswersStay ==
  ASSUME IInv, [Next]_vars
  PROVE  AnswersMatch'
<1> USE IdempotencyAssumption DEF IInv, TypeOK, RowBelongs, AnswersMatch, Holders
<1>1. ASSUME NEW a \in Attempts, ClaimFree(a) PROVE AnswersMatch'
  BY <1>1 DEF ClaimFree, Mine, Heard, IsFirst, Rows, Replies, Statuses
<1>2. ASSUME NEW a \in Attempts, ClaimExpired(a) PROVE AnswersMatch'
  BY <1>2 DEF ClaimExpired, Expired, Mine, Heard, IsFirst, Rows, Replies, Statuses
<1>3. ASSUME NEW a \in Attempts, ClaimTaken(a) PROVE AnswersMatch'
  BY <1>3 DEF ClaimTaken, Meet, SameRequest, End, Plain, Answer, Expired, Mine, Heard, IsFirst, Rows, Replies, Statuses
<1>4. ASSUME NEW a \in Attempts, ClaimInsert(a) PROVE AnswersMatch'
  BY <1>4 DEF ClaimInsert, Mine, Heard, IsFirst, Rows, Replies, Statuses
<1>5. ASSUME NEW a \in Attempts, ClaimConflict(a) PROVE AnswersMatch'
  BY <1>5 DEF ClaimConflict, Mine, Heard, IsFirst, Rows, Replies, Statuses
<1>6. ASSUME NEW a \in Attempts, ClaimReread(a) PROVE AnswersMatch'
  BY <1>6 DEF ClaimReread, Meet, SameRequest, End, Plain, Answer, Mine, Heard, IsFirst, Rows, Replies, Statuses
<1>7. ASSUME NEW a \in Attempts, ClaimVanished(a) PROVE AnswersMatch'
  BY <1>7 DEF ClaimVanished, End, Plain, Answer, Mine, Heard, IsFirst, Rows, Replies, Statuses
<1>8. ASSUME NEW a \in Attempts, Replay(a) PROVE AnswersMatch'
  BY <1>8 DEF Replay, End, Plain, Answer, Mine, Heard, IsFirst, Rows, Replies, Statuses
<1>9. ASSUME NEW a \in Attempts, HandlerCommits(a) PROVE AnswersMatch'
  BY <1>9 DEF HandlerCommits, Mine, Heard, IsFirst, Rows, Replies, Statuses
<1>10. ASSUME NEW a \in Attempts, CommitUnheard(a) PROVE AnswersMatch'
  BY <1>10 DEF CommitUnheard, Mine, Heard, IsFirst, Rows, Replies, Statuses
<1>11. ASSUME NEW a \in Attempts, HandlerAnswers(a) PROVE AnswersMatch'
  BY <1>11 DEF HandlerAnswers, Mine, Heard, IsFirst, Rows, Replies, Statuses
<1>12. ASSUME NEW a \in Attempts, HandlerRaises(a) PROVE AnswersMatch'
  BY <1>12 DEF HandlerRaises, Mine, Heard, IsFirst, Rows, Replies, Statuses
<1>13. ASSUME NEW a \in Attempts, SettleStore(a) PROVE AnswersMatch'
  <2>1. Mine(a) /\ row \in Rows
    BY <1>13 DEF SettleStore, Mine
  <2>2. row' \in Rows /\ row'.reply \in Replies
    BY <1>13, StoredRow DEF TypeOK, RowBelongs, AnswersMatch
  <2>3. /\ row'.by = a /\ row'.print = Asks[a]
        /\ row'.reply.by = a /\ row'.reply.status = KeptOf(status[a])
    BY <1>13, <2>1 DEF SettleStore, Mine, Rows
  <2>4. IsFirst(row.reply, row.print)'
    BY <1>13, <2>3 DEF SettleStore, IsFirst
  <2>5. \A r, q : r.by \in Attempts /\ IsFirst(r, q) => IsFirst(r, q)'
    BY <1>13 DEF SettleStore, IsFirst
  <2>6. QED
    BY <1>13, <2>1, <2>2, <2>3, <2>4, <2>5 DEF SettleStore, Mine, Heard, Replies
<1>14. ASSUME NEW a \in Attempts, SettleFailed(a) PROVE AnswersMatch'
  BY <1>14 DEF SettleFailed, GiveUp, Frees, Mine, Heard, IsFirst, Rows, Replies, Statuses
<1>15. ASSUME NEW a \in Attempts, SettleBreaks(a) PROVE AnswersMatch'
  BY <1>15 DEF SettleBreaks, End, Answer, Mine, Heard, IsFirst, Rows, Replies, Statuses
<1>16. ASSUME NEW a \in Attempts, Send(a) PROVE AnswersMatch'
  BY <1>16 DEF Send, End, Answer, Mine, Heard, IsFirst, Rows, Replies, Statuses
<1>17. ASSUME NEW a \in Attempts, Abandon(a) PROVE AnswersMatch'
  BY <1>17 DEF Abandon, GiveUp, Frees, Mine, End, Plain, Answer, Heard, IsFirst, Rows, Replies, Statuses
<1>18. ASSUME NEW a \in Attempts, Die(a) PROVE AnswersMatch'
  BY <1>18 DEF Die, End, Plain, Answer, Mine, Heard, IsFirst, Rows, Replies, Statuses
<1>19. CASE GraceEnds
  BY <1>19 DEF GraceEnds, Mine, Heard, IsFirst, Rows, Replies, Statuses
<1>20. CASE RetentionEnds
  BY <1>20 DEF RetentionEnds, Mine, Heard, IsFirst, Rows, Replies, Statuses
<1>21. CASE Sweep
  BY <1>21 DEF Sweep, Expired, Mine, Heard, IsFirst, Rows, Replies, Statuses
<1>22. CASE UNCHANGED vars
  BY <1>22 DEF vars, Mine, Heard, IsFirst, Rows, Replies, Statuses
<1>23. QED
  BY <1>1, <1>2, <1>3, <1>4, <1>5, <1>6, <1>7, <1>8, <1>9, <1>10, <1>11, <1>12, <1>13, <1>14, <1>15, <1>16, <1>17, <1>18, <1>19, <1>20, <1>21, <1>22
     DEF Next, Claim, Handle, Settle

\* The inductive invariant holds in every reachable state.
THEOREM Invariance == Spec => []IInv
<1>1. Init => IInv
  BY InitIInv
<1>2. IInv /\ [Next]_vars => IInv'
  BY TypesStay, RowStays, AnswersStay DEF IInv
<1>3. QED
  BY <1>1, <1>2, PTL DEF Spec

\* Every reachable state has its types, whatever the attempts ask.
THEOREM TypeCorrect == Spec => []TypeOK
<1>1. IInv => TypeOK
  BY DEF IInv
<1>2. QED
  BY <1>1, Invariance, PTL

\* One attempt's acknowledged writes stand while the key is remembered.
THEOREM WrittenOnce == Spec => []OneHeardWrite
<1>1. IInv => OneHeardWrite
  BY DEF IInv, TypeOK, RowBelongs, OneHeardWrite, Mine
<1>2. QED
  BY <1>1, Invariance, PTL

\* A replay repeats the first attempt's answer to the same request.
THEOREM ReplaysMatch == Spec => []ReplaysAreFirsts
<1>1. IInv => ReplaysAreFirsts
  BY DEF IInv, AnswersMatch, ReplaysAreFirsts, IsFirst
<1>2. QED
  BY <1>1, Invariance, PTL

\* No client holds an answer that a retry could not be told.
THEOREM StoredBeforeSent == Spec => []AnswerLeavesStored
<1>1. IInv => AnswerLeavesStored
  BY DEF IInv, AnswersMatch, AnswerLeavesStored
<1>2. QED
  BY <1>1, Invariance, PTL

\* A reported server error that committed nothing leaves the key free.
THEOREM FailureForgotten == Spec => []FailureForgets
<1>1. IInv => FailureForgets
  BY DEF IInv, AnswersMatch, FailureForgets
<1>2. QED
  BY <1>1, Invariance, PTL
=============================================================================
