SPECIFICATION FairSpec
CONSTANTS
  c1 = c1
  c2 = c2
  c3 = c3
  u1 = u1
  u2 = u2
  NoUri = NoUri
  Uris = {u1, u2}
  Clients = {c1, c2, c3}
  UriOf <- Mixed
  ServiceIds = {1, 2}
  Codes = {"Success", "Throttled"}
  UnsubscribeCodes = {"Success"}
  SerialDispatch = TRUE
  MaxSubId = 3
  MaxOps = 4
  MaxCloses = 0
  MaxRetries = 1
  MaxInbox = 2
INVARIANTS AgreesWithService
PROPERTIES HeldBecomesActive RemovalCompletes
CHECK_DEADLOCK FALSE
