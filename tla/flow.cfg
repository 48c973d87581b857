SPECIFICATION Spec
CONSTANTS
  Runners = {w1, w2}
  w1 = w1 w2 = w2

  None = None
  Subs = {1, 2}
  Fleets <- MCFleets
  Attended = {1}
  MaxUnmoved = 3
  Cadence = 2
  MaxQueue = 2
  MaxFaults = 1
INVARIANTS
  TypeOK
  SpendIsBounded
PROPERTIES
  ParkIsDeserved
  RotationServesAll
