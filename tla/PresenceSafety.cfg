SPECIFICATION Spec
CONSTANTS
  alice = alice
  bob = bob
  mine = mine
  other = other
  Users = {alice, bob}
  Titles = {mine, other}
  OwnTitle = mine
  MaxFailures = 1
  CountRange = 4
  MaxTokens = 2
  MaxResyncs = 1
SYMMETRY UserSymmetry
INVARIANTS TypeOK RegisteredIsTracked DevicesWatched
CHECK_DEADLOCK FALSE
