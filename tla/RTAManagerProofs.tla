-------------------------- MODULE RTAManagerProofs --------------------------
(***************************************************************************)
(* The safety invariants of RTAManager hold for any users, subscriptions,  *)
(* and bounds.  RemovalsWait carries the argument: when an entry on its    *)
(* way out disappears, at least one call waited for that, and its callback *)
(* is the one that looks at the connection again.                          *)
(***************************************************************************)
EXTENDS RTAManager, TLAPS

\* Counting an activation down takes at most one, and never from nothing.
LEMMA CountDownBounds ==
    ASSUME NEW n \in Nat
    PROVE  CountDown(n) \in Nat /\ CountDown(n) >= n - 1
  BY DEF CountDown

\* Every step of the manager is typed.
LEMMA TypeStep == TypeOK /\ [Next]_vars => TypeOK'
  <1> SUFFICES ASSUME TypeOK, [Next]_vars PROVE TypeOK'
    OBVIOUS
  <1> USE OwnerAssumption, LimitsAssumption DEF TypeOK, Entry, OpIds
  <1>1. ASSUME NEW u \in Users, NEW title \in BOOLEAN, Activate(u, title) PROVE TypeOK'
    <2>1. outstanding' \in [Users -> Nat] /\ activations' \in [Users -> Nat]
      BY <1>1 DEF Activate
    <2>2. ASSUME NEW v \in Users PROVE outstanding'[v] <= activations'[v]
      BY <1>1 DEF Activate
    <2>3. titleActivated' \in BOOLEAN
      BY <1>1, Zenon DEF Activate
    <2>4. connected' \in SUBSET Users /\ titleUsers' \in SUBSET Users
      BY <1>1 DEF Activate
    <2> QED
      BY <1>1, <2>1, <2>2, <2>3, <2>4 DEF Activate, sendVars, callVars
  <1>2. ASSUME NEW u \in Users, Deactivate(u) PROVE TypeOK'
    <2>1. outstanding' \in [Users -> Nat] /\ activations' \in [Users -> Nat]
      BY <1>2, CountDownBounds DEF Deactivate
    <2>2. ASSUME NEW v \in Users PROVE outstanding'[v] <= activations'[v]
      BY <1>2, CountDownBounds DEF Deactivate
    <2>3. /\ connected' \in SUBSET Users
          /\ entry' \in [Subs -> Entry]
          /\ removals' \in [Subs -> SUBSET OpIds]
      BY <1>2 DEF Deactivate, TearDown
    <2>4. callbacks' \in [Users -> SUBSET OpIds]
      BY <1>2 DEF Deactivate, Aborted, SubsOf
    <2>5. forgotten' \in SUBSET Subs
      BY <1>2 DEF Deactivate
    <2>6. unsent' \in SUBSET Subs /\ orphaned' \in SUBSET Subs
      BY <1>2 DEF Deactivate, TearDown, sendVars
    <2> QED
      BY <1>2, <2>1, <2>2, <2>3, <2>4, <2>5, <2>6 DEF Deactivate, sendVars, callVars
  <1>3. ASSUME NEW u \in Users, NEW op \in OpIds, RemovalCompleted(u, op) PROVE TypeOK'
    BY <1>3 DEF RemovalCompleted, CloseIfUnused, TearDown, Aborted, SubsOf, callVars, sendVars, activationVars
  <1>4. ASSUME NEW u \in Users, ConnectionLost(u) PROVE TypeOK'
    BY <1>4 DEF ConnectionLost, AfterLoss, Aborted, SubsOf, callVars, sendVars, activationVars
  <1>5. ASSUME NEW s \in Subs, AddSubscription(s) PROVE TypeOK'
    BY <1>5 DEF AddSubscription, sendVars, activationVars
  <1>6. ASSUME NEW s \in Subs, AddSubscriptionFails(s) PROVE TypeOK'
    BY <1>6 DEF AddSubscriptionFails, sendVars, activationVars
  <1>7. ASSUME NEW s \in Subs, RemoveSubscription(s) PROVE TypeOK'
    BY <1>7 DEF RemoveSubscription, sendVars, CloseIfUnused, TearDown, activationVars
  <1>8. ASSUME NEW s \in Subs, Subscribes(s) PROVE TypeOK'
    BY <1>8 DEF Subscribes, activationVars, sendVars, callVars
  <1>9. ASSUME NEW s \in Subs, Unsubscribed(s) PROVE TypeOK'
    BY <1>9 DEF Unsubscribed, activationVars, sendVars, callVars
  <1>10. CASE Cleanup
    BY <1>10 DEF Cleanup, sendVars, Aborted, SubsOf, activationVars
  <1>11. CASE UNCHANGED vars
    BY <1>11 DEF vars, activationVars, sendVars, callVars
  <1>12. ASSUME NEW s \in Subs, AddSubscriptionUnsent(s) PROVE TypeOK'
    BY <1>12 DEF AddSubscriptionUnsent, activationVars
  <1>13. ASSUME NEW s \in Subs, UnsubscribeRefused(s) PROVE TypeOK'
    BY <1>13 DEF UnsubscribeRefused, activationVars, callVars
  <1> QED
    BY <1>1, <1>2, <1>3, <1>4, <1>5, <1>6, <1>7, <1>8, <1>9, <1>10, <1>11, <1>12, <1>13
       DEF Next

\* RemovalsWait is inductive by itself, given the types.
LEMMA RemovalsStep == TypeOK /\ RemovalsWait /\ [Next]_vars => RemovalsWait'
  <1> SUFFICES ASSUME TypeOK, RemovalsWait, [Next]_vars PROVE RemovalsWait'
    OBVIOUS
  <1> USE OwnerAssumption, LimitsAssumption DEF TypeOK, Entry, OpIds, RemovalsWait
  <1>1. ASSUME NEW u \in Users, NEW title \in BOOLEAN, Activate(u, title) PROVE RemovalsWait'
    BY <1>1 DEF Activate, sendVars, callVars
  <1>2. ASSUME NEW u \in Users, Deactivate(u) PROVE RemovalsWait'
    BY <1>2 DEF Deactivate, sendVars, TearDown, callVars
  <1>3. ASSUME NEW u \in Users, NEW op \in OpIds, RemovalCompleted(u, op) PROVE RemovalsWait'
    BY <1>3 DEF RemovalCompleted, CloseIfUnused, TearDown, callVars, sendVars, activationVars
  <1>4. ASSUME NEW u \in Users, ConnectionLost(u) PROVE RemovalsWait'
    <2>1. ASSUME NEW s \in Subs
          PROVE  /\ UserOf[s] # u => entry'[s] = entry[s] /\ removals'[s] = removals[s]
                 /\ UserOf[s] = u => /\ removals'[s] = {}
                                     /\ entry'[s] \in {"none", "inactive"}
                                     /\ entry[s] = "none" => entry'[s] = "none"
      BY <1>4 DEF ConnectionLost, sendVars, AfterLoss
    <2>2. connected' = connected /\ u \in connected
      BY <1>4 DEF ConnectionLost, sendVars
    <2> QED
      BY <2>1, <2>2
  <1>5. ASSUME NEW s \in Subs, AddSubscription(s) PROVE RemovalsWait'
    BY <1>5 DEF AddSubscription, sendVars, activationVars
  <1>6. ASSUME NEW s \in Subs, AddSubscriptionFails(s) PROVE RemovalsWait'
    BY <1>6 DEF AddSubscriptionFails, sendVars, activationVars
  <1>7. ASSUME NEW s \in Subs, RemoveSubscription(s) PROVE RemovalsWait'
    BY <1>7 DEF RemoveSubscription, sendVars, CloseIfUnused, TearDown, activationVars
  <1>8. ASSUME NEW s \in Subs, Subscribes(s) PROVE RemovalsWait'
    BY <1>8 DEF Subscribes, activationVars, sendVars, callVars
  <1>9. ASSUME NEW s \in Subs, Unsubscribed(s) PROVE RemovalsWait'
    BY <1>9 DEF Unsubscribed, activationVars, sendVars, callVars
  <1>10. CASE Cleanup
    BY <1>10 DEF Cleanup, sendVars, activationVars
  <1>11. CASE UNCHANGED vars
    BY <1>11 DEF vars, activationVars, sendVars, callVars
  <1>12. ASSUME NEW s \in Subs, AddSubscriptionUnsent(s) PROVE RemovalsWait'
    BY <1>12 DEF AddSubscriptionUnsent, activationVars
  <1>13. ASSUME NEW s \in Subs, UnsubscribeRefused(s) PROVE RemovalsWait'
    BY <1>13 DEF UnsubscribeRefused, activationVars, callVars
  <1> QED
    BY <1>1, <1>2, <1>3, <1>4, <1>5, <1>6, <1>7, <1>8, <1>9, <1>10, <1>11, <1>12, <1>13
       DEF Next

\* A subscription of u that is not "none" keeps its connection; the last one
\* to go leaves a callback behind.
LEMMA IdleStep ==
    TypeOK /\ RemovalsWait /\ IdleIsClosing /\ [Next]_vars => IdleIsClosing'
  <1> SUFFICES ASSUME TypeOK, RemovalsWait, IdleIsClosing, [Next]_vars PROVE IdleIsClosing'
    OBVIOUS
  <1> USE OwnerAssumption, LimitsAssumption
      DEF TypeOK, Entry, OpIds, RemovalsWait, IdleIsClosing, IsEmpty, SubsOf
  <1>1. ASSUME NEW u \in Users, NEW title \in BOOLEAN, Activate(u, title) PROVE IdleIsClosing'
    BY <1>1 DEF Activate, sendVars, callVars
  <1>2. ASSUME NEW u \in Users, Deactivate(u) PROVE IdleIsClosing'
    BY <1>2, CountDownBounds DEF Deactivate, sendVars, TearDown, MayClose, Aborted, callVars
  <1>3. ASSUME NEW u \in Users, NEW op \in OpIds, RemovalCompleted(u, op) PROVE IdleIsClosing'
    BY <1>3 DEF RemovalCompleted, CloseIfUnused, NothingLeft, TearDown, callVars, sendVars, activationVars
  <1>4. ASSUME NEW u \in Users, ConnectionLost(u) PROVE IdleIsClosing'
    <2>1. /\ connected' = connected /\ activations' = activations
          /\ \A v \in Users \ {u} : callbacks'[v] = callbacks[v]
          /\ \A s \in Subs : UserOf[s] # u => entry'[s] = entry[s]
      BY <1>4 DEF ConnectionLost, AfterLoss, callVars, sendVars, activationVars
    <2>2. CASE IsEmpty(entry, u)
      <3>1. callbacks[u] \subseteq callbacks'[u]
        BY <1>4 DEF ConnectionLost, sendVars
      <3> QED
        BY <2>1, <2>2, <3>1
    <2>3. CASE ~IsEmpty(entry, u)
      <3>1. PICK s \in Subs : UserOf[s] = u /\ entry[s] # "none"
        BY <2>3
      <3>2. CASE entry[s] = "leaving"
        <4>1. PICK op \in OpIds : op \in removals[s]
          BY <3>2
        <4>2. op \in callbacks'[u]
          BY <1>4, <3>1, <4>1 DEF ConnectionLost, sendVars, AfterLoss, Aborted
        <4> QED
          BY <2>1, <4>2
      <3>3. CASE entry[s] # "leaving"
        <4>1. entry'[s] = "inactive"
          BY <1>4, <3>1, <3>3 DEF ConnectionLost, sendVars, AfterLoss
        <4> QED
          BY <2>1, <3>1, <4>1
      <3> QED
        BY <3>2, <3>3
    <2> QED
      BY <2>2, <2>3
  <1>5. ASSUME NEW s \in Subs, AddSubscription(s) PROVE IdleIsClosing'
    BY <1>5 DEF AddSubscription, sendVars, activationVars
  <1>6. ASSUME NEW s \in Subs, AddSubscriptionFails(s) PROVE IdleIsClosing'
    BY <1>6 DEF AddSubscriptionFails, sendVars, activationVars
  <1>7. ASSUME NEW s \in Subs, RemoveSubscription(s) PROVE IdleIsClosing'
    BY <1>7 DEF RemoveSubscription, sendVars, CloseIfUnused, NothingLeft, TearDown, activationVars
  <1>8. ASSUME NEW s \in Subs, Subscribes(s) PROVE IdleIsClosing'
    BY <1>8 DEF Subscribes, activationVars, sendVars, callVars
  <1>9. ASSUME NEW s \in Subs, Unsubscribed(s) PROVE IdleIsClosing'
    BY <1>9 DEF Unsubscribed, activationVars, sendVars, callVars
  <1>10. CASE Cleanup
    BY <1>10 DEF Cleanup, sendVars, activationVars
  <1>11. CASE UNCHANGED vars
    BY <1>11 DEF vars, activationVars, sendVars, callVars
  <1>12. ASSUME NEW s \in Subs, AddSubscriptionUnsent(s) PROVE IdleIsClosing'
    BY <1>12 DEF AddSubscriptionUnsent, activationVars
  <1>13. ASSUME NEW s \in Subs, UnsubscribeRefused(s) PROVE IdleIsClosing'
    BY <1>13 DEF UnsubscribeRefused, activationVars, callVars
  <1> QED
    BY <1>1, <1>2, <1>3, <1>4, <1>5, <1>6, <1>7, <1>8, <1>9, <1>10, <1>11, <1>12, <1>13
       DEF Next

\* A callback closes the connection only when all its entries are "none", and
\* the entry of a held subscription is not.
LEMMA HeldStep ==
    TypeOK /\ HeldIsConnected /\ [Next]_vars => HeldIsConnected'
  <1> SUFFICES ASSUME TypeOK, HeldIsConnected, [Next]_vars PROVE HeldIsConnected'
    OBVIOUS
  <1> USE OwnerAssumption, LimitsAssumption
      DEF TypeOK, Entry, OpIds, HeldIsConnected, IsEmpty, SubsOf
  <1>1. ASSUME NEW u \in Users, NEW title \in BOOLEAN, Activate(u, title) PROVE HeldIsConnected'
    BY <1>1 DEF Activate, sendVars, callVars
  <1>2. ASSUME NEW u \in Users, Deactivate(u) PROVE HeldIsConnected'
    BY <1>2 DEF Deactivate, sendVars, TearDown, MayClose, callVars
  <1>3. ASSUME NEW u \in Users, NEW op \in OpIds, RemovalCompleted(u, op) PROVE HeldIsConnected'
    BY <1>3 DEF RemovalCompleted, CloseIfUnused, NothingLeft, TearDown, callVars, sendVars, activationVars
  <1>4. ASSUME NEW u \in Users, ConnectionLost(u) PROVE HeldIsConnected'
    BY <1>4 DEF ConnectionLost, AfterLoss, callVars, sendVars, activationVars
  <1>5. ASSUME NEW s \in Subs, AddSubscription(s) PROVE HeldIsConnected'
    BY <1>5 DEF AddSubscription, sendVars, activationVars
  <1>6. ASSUME NEW s \in Subs, AddSubscriptionFails(s) PROVE HeldIsConnected'
    BY <1>6 DEF AddSubscriptionFails, sendVars, activationVars
  <1>7. ASSUME NEW s \in Subs, RemoveSubscription(s) PROVE HeldIsConnected'
    BY <1>7 DEF RemoveSubscription, sendVars, CloseIfUnused, NothingLeft, TearDown, activationVars
  <1>8. ASSUME NEW s \in Subs, Subscribes(s) PROVE HeldIsConnected'
    BY <1>8 DEF Subscribes, activationVars, sendVars, callVars
  <1>9. ASSUME NEW s \in Subs, Unsubscribed(s) PROVE HeldIsConnected'
    BY <1>9 DEF Unsubscribed, activationVars, sendVars, callVars
  <1>10. CASE Cleanup
    BY <1>10 DEF Cleanup, sendVars, activationVars
  <1>11. CASE UNCHANGED vars
    BY <1>11 DEF vars, activationVars, sendVars, callVars
  <1>12. ASSUME NEW s \in Subs, AddSubscriptionUnsent(s) PROVE HeldIsConnected'
    BY <1>12 DEF AddSubscriptionUnsent, activationVars
  <1>13. ASSUME NEW s \in Subs, UnsubscribeRefused(s) PROVE HeldIsConnected'
    BY <1>13 DEF UnsubscribeRefused, activationVars, callVars
  <1> QED
    BY <1>1, <1>2, <1>3, <1>4, <1>5, <1>6, <1>7, <1>8, <1>9, <1>10, <1>11, <1>12, <1>13
       DEF Next

\* The start: no connections, no subscriptions, no activations.
LEMMA InitHolds == Init => TypeOK /\ RemovalsWait /\ IdleIsClosing /\ HeldIsConnected
  <1> SUFFICES ASSUME Init PROVE TypeOK /\ RemovalsWait /\ IdleIsClosing /\ HeldIsConnected
    OBVIOUS
  <1>1. TypeOK
    <2>1. titleActivated \in BOOLEAN
      BY Zenon DEF Init
    <2> QED
      BY <2>1, LimitsAssumption DEF Init, TypeOK, Entry, OpIds
  <1>2. RemovalsWait
    BY DEF Init, RemovalsWait
  <1>3. IdleIsClosing /\ HeldIsConnected
    BY DEF Init, IdleIsClosing, HeldIsConnected
  <1> QED
    BY <1>1, <1>2, <1>3

\* Every reachable state of the manager is typed, and m_legacyActivations is
\* never below the number of activations that will be given back.
THEOREM ManagerTypeCorrect == Spec => []TypeOK
  BY InitHolds, TypeStep, PTL DEF Spec

\* A removal waits in a connection exactly while there is an unsubscribe
\* handshake to wait for, so none is left behind by a teardown.
THEOREM RemovalsAlwaysWait == Spec => []RemovalsWait
  BY InitHolds, TypeStep, RemovalsStep, PTL DEF Spec

\* However removals, callbacks, activations and lost sockets interleave, a
\* connection nothing needs has a callback on its way that will close it.
THEOREM IdleAlwaysClosing == Spec => []IdleIsClosing
  BY InitHolds, TypeStep, RemovalsStep, IdleStep, PTL DEF Spec

\* No late callback closes a connection under a subscription that is wanted.
THEOREM HeldAlwaysConnected == Spec => []HeldIsConnected
  BY InitHolds, TypeStep, HeldStep, PTL DEF Spec

=============================================================================
