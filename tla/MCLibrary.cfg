SPECIFICATION MCSpec
SYMMETRY MCSymmetry
CONSTANTS
  Owner = Owner
  Stranger = Stranger
  Tracks = {1, 2, 3, 4}
  Catalog = {1, 2, 3}
  Requests = {r1, r2}
  Gap = 2
  Limit = 1
  MaxRequests = 4
  MaxClock = 1
INVARIANTS TypeOK PlacedAsAsked SavedPagesFit
CHECK_DEADLOCK FALSE
