SPECIFICATION Spec
CONSTANTS
  Writers = {w}
  Tracks = {1, 2, 3}
  Title <- MCTitle
  Artists = {1}
  Albums = {1}
  Queries = {"all", "some"}
  Matches <- MCMatches
  Limit = 1
  None = None
  Calls = {c1, c2}
  MaxTyped = 2
INVARIANTS TracksAreWhole PagesFit SettledShowsLatest
CHECK_DEADLOCK FALSE
