SPECIFICATION DocumentSpec
CONSTANTS
  p1 = p1  p2 = p2  i1 = i1  i2 = i2  c1 = c1  a1 = a1  alice = alice  bob = bob
  None = None
  Payments = {p1, p2}
  Invoices = {i1}
  Claims = {}
  Accounts = {}
  Requests = {r1, r2}
  Keys = {k1}
  Parties = {alice, bob}
  Amounts = {0, 2, 4}
  Postings = {}
  Issued = "submitted"
  States <- MCStates
  Editable <- MCEditable
  Transitions <- MCTransitions
  Rank <- MCRank
  Settles <- MCSettles
  Withdraws <- MCWithdraws
  BillsClaim <- MCBillsClaim
  Bodies <- DocumentBodies
  Edits <- DocumentEdits
INVARIANT ReplayIsSameRequest
