SPECIFICATION FairSpec
CONSTANTS
  alice = alice
  bob = bob
  s1 = s1
  s2 = s2
  Users = {alice}
  Subs = {s1, s2}
  UserOf <- SameUser
  MaxOps = 4
  MaxActivations = 2
INVARIANTS TypeOK IdleIsClosing HeldIsConnected RemovalsWait
PROPERTIES UnusedIsClosed
CHECK_DEADLOCK FALSE
