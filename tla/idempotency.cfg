SPECIFICATION FairSpec
CONSTANTS
  first = first  retry = retry  other = other
  order = order  refund = refund
  None = None
  Attempts = {first, retry, other}
  Prints = {order, refund}
  Asks <- MCAsks
INVARIANTS TypeOK OneHeardWrite ReplaysAreFirsts AnswerLeavesStored FailureForgets
PROPERTY EveryAttemptEnds
CHECK_DEADLOCK FALSE
