SPECIFICATION Spec
CONSTANTS
  MaxEdits = 2
  r1 = r1  r2 = r2
  Requests = {r1, r2}
  Bounds <- MCBounds
INVARIANTS TypeOK ResourcesOutliveRequests
PROPERTIES SignalStops EditsAreLoaded
