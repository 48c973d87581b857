SPECIFICATION MCSpec
CHECK_DEADLOCK FALSE
CONSTANTS
  o1 = o1 o2 = o2 o3 = o3 o4 = o4 s1 = s1 d1 = d1 None = None
  Requests = {1, 2, 3}
  Positions = {1, 2, 3}
  Stocked = {1, 2}
  Orders = {o1, o2, o3, o4}
  Shipments = {s1}
  Documents = {d1}
  Outbound = {s1}
  ShipsFor <- MCShipsFor
  Calls <- NoCalls
  Opening <- MCOpening
  Parcel <- MCParcel
  Paper <- MCPaper
  DeskCalls <- ChargeAndRemoval
  Line = 2
  Filed <- MCFiled
  Agreed <- MCAgreed
INVARIANTS
  WithinCredit
