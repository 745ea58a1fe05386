SPECIFICATION Spec
CONSTANTS
  alice = alice
  bob = bob
  kills = kills
  deaths = deaths
  Users = {alice, bob}
  Tracked <- MCTracked
  CountRange = 4
  MaxTokens = 2
  MaxFailures = 1
INVARIANTS TypeOK RegisteredIsHeld TrackedIsWatched
CHECK_DEADLOCK FALSE
