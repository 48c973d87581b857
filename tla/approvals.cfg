SPECIFICATION FairSpec
CHECK_DEADLOCK FALSE
CONSTANTS
  d1 = d1 d2 = d2 d3 = d3 ann = ann bob = bob sub = sub None = None
  Requests = {1, 2, 3}
  Docs = {d1, d2, d3}
  People = {ann, bob, sub}
  Todos = {1, 2, 3, 4, 5, 6}
  Seat <- MCSeat
  Calls <- MCCalls
  Filed <- MCFiled
  FiledTrail <- MCFiledTrail
  FiledTodos <- MCFiledTodos
INVARIANTS
  TypeOK
  OneDecisionPerNode
  OneOpenTodo
  NoStall
  ReturnEndsTheRound
  DeletedHasNoWork
PROPERTIES
  AnswerMeansMoved
  EveryRequestEnds
