SPECIFICATION FairSpec
CONSTANTS
  c1 = c1
  c2 = c2
  c3 = c3
  u1 = u1
  u2 = u2
  NoUri = NoUri
  Uris = {u1}
  Clients = {c1, c2}
  UriOf <- SharedUri
  ServiceIds = {1, 2}
  Codes = {"Success"}
  UnsubscribeCodes = {"Success"}
  SerialDispatch = TRUE
  MaxSubId = 3
  MaxOps = 3
  MaxCloses = 1
  MaxRetries = 1
  MaxInbox = 1
PROPERTIES HeldBecomesActive
CHECK_DEADLOCK FALSE
