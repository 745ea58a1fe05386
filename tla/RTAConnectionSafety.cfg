SPECIFICATION Spec
CONSTANTS
  c1 = c1
  c2 = c2
  c3 = c3
  u1 = u1
  u2 = u2
  NoUri = NoUri
  Uris = {u1}
  Clients = {c1, c2}
  UriOf <- SharedUri
  ServiceIds = {1}
  Codes = {"Success", "Throttled", "Denied"}
  UnsubscribeCodes = {"Success", "Denied"}
  SerialDispatch = FALSE
  MaxSubId = 2
  MaxOps = 3
  MaxCloses = 1
  MaxRetries = 1
  MaxInbox = 2
INVARIANTS TypeOK MapsAgree LeavingIsUnwanted HeldIsTracked WaitsOnce OneDriver HandshakesStayInStep
PROPERTIES ImplementsRegistry
CHECK_DEADLOCK FALSE
