SPECIFICATION Spec
CONSTANTS
  Runners = {w1}
  w1 = w1 w2 = w2

  None = None
  Subs = {1, 2, 3}
  Fleets <- OneFleet
  Attended = {}
  MaxUnmoved = 3
  Cadence = 2
  MaxQueue = 1
  MaxFaults = 0
PROPERTIES
  NobodyStarves
