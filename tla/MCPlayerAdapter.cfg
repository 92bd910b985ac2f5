SPECIFICATION MCSpec
SYMMETRY MCSymmetry
CONSTANTS
  Calls = {c1, c2}
  Users = {App, Other}
  App = App
  Other = Other
  Tracks = {1, 2, 3}
  Catalog = {1, 2}
  None = None
  MaxSessions = 2
  Queues <- MCQueues
  MaxCommands = 4
INVARIANTS LoadsWhatWasAsked HeardIsShownOrNext QueueConserved
CHECK_DEADLOCK FALSE
