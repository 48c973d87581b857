SPECIFICATION LedgerSpec
CONSTANTS
  p1 = p1  p2 = p2  i1 = i1  i2 = i2  c1 = c1  a1 = a1  alice = alice  bob = bob
  None = None
  Payments = {p1, p2}
  Invoices = {i2}
  Claims = {c1}
  Accounts = {a1}
  Requests = {r1, r2}
  Keys = {}
  Parties = {alice}
  Amounts = {0, 2, 3, 4, 7}
  Postings <- LedgerPostings
  Issued = "submitted"
  States <- MCStates
  Editable <- MCEditable
  Transitions <- MCTransitions
  Rank <- MCRank
  Settles <- MCSettles
  Withdraws <- MCWithdraws
  BillsClaim <- MCBillsClaim
  Bodies <- LedgerBodies
  Edits <- LedgerEdits
INVARIANTS LedgerAgrees JudgedStillHolds
PROPERTIES MovesStayInBounds KeepsPromise
