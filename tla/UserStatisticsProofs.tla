------------------------ MODULE UserStatisticsProofs ------------------------
(***************************************************************************)
(* What holds of UserStatistics for any users, statistics and bounds.      *)
(***************************************************************************)
EXTENDS UserStatistics, TLAPS

\* A count modulo CountRange stays a count.
LEMMA CountsBounded ==
    ASSUME NEW n \in 0..(CountRange - 1)
    PROVE  /\ Decremented(n) \in 0..(CountRange - 1)
           /\ (n + 1) % CountRange \in 0..(CountRange - 1)
           /\ n >= 1 => Decremented(n) = n - 1
  BY LimitsAssumption DEF Decremented

\* A tracked statistic belongs to the user in its key.
LEMMA OwnersOfKeys ==
    /\ \A k \in Tracked : k[1] \in Users
    /\ \A k \in Tracked, u \in Users : k \in StatsOf(u) <=> k[1] = u
  BY KeyAssumption DEF StatsOf

\* While there are handlers, the holders of a user never dropped as a whole
\* have their subscription, registered or not: so the assert of
\* RemoveSubscription is not for them, and their holders are erased unless the
\* RTA manager fails.
PointersSet ==
    HasHandlers => \A k \in keys : stopped[k[1]] = "never" => subscription[k] = "sub"

\* PointersSet is inductive, given the types.
LEMMA PointersStep == TypeOK /\ PointersSet /\ [Next]_vars => PointersSet'
  <1> SUFFICES ASSUME TypeOK, PointersSet, [Next]_vars PROVE PointersSet'
    OBVIOUS
  <1> USE OwnersOfKeys DEF TypeOK, PointersSet, HasHandlers, Stopped, failVars
  <1>1. CASE AddStatisticChangedHandler
    BY <1>1 DEF AddStatisticChangedHandler
  <1>2. ASSUME NEW token \in Tokens, RemoveStatisticChangedHandler(token) PROVE PointersSet'
    BY <1>2 DEF RemoveStatisticChangedHandler
  <1>3. ASSUME NEW k \in Tracked, TrackStatistic(k) PROVE PointersSet'
    BY <1>3 DEF TrackStatistic, Subscribes
  <1>4. ASSUME NEW k \in Tracked, StopTrackingStatistic(k) PROVE PointersSet'
    BY <1>4 DEF StopTrackingStatistic, AfterStop, Erased
  <1>5. ASSUME NEW u \in Users, StopTrackingUser(u) PROVE PointersSet'
    BY <1>5 DEF StopTrackingUser, Dropped
  <1>6. CASE Destroy
    BY <1>6 DEF Destroy
  <1>7. CASE UNCHANGED vars
    BY <1>7 DEF vars
  <1> QED
    BY <1>1, <1>2, <1>3, <1>4, <1>5, <1>6, <1>7 DEF Next

\* Every step of the service is typed.
LEMMA TypeStep == TypeOK /\ PointersSet /\ [Next]_vars => TypeOK'
  <1> SUFFICES ASSUME TypeOK, PointersSet, [Next]_vars PROVE TypeOK'
    OBVIOUS
  <1> USE LimitsAssumption DEF TypeOK, Tokens, Stopped, failVars, MayFail
  <1>1. CASE AddStatisticChangedHandler
    BY <1>1 DEF AddStatisticChangedHandler
  <1>2. ASSUME NEW token \in Tokens, RemoveStatisticChangedHandler(token) PROVE TypeOK'
    BY <1>2 DEF RemoveStatisticChangedHandler
  <1>3. ASSUME NEW k \in Tracked, TrackStatistic(k) PROVE TypeOK'
    <2>1. /\ alive' \in BOOLEAN /\ nullRemoved' \in BOOLEAN
          /\ handlers' \subseteq Tokens /\ nextToken' \in 1..(MaxTokens + 1)
      BY <1>3 DEF TrackStatistic
    <2>2. keys' \subseteq Tracked /\ rta' \subseteq Tracked
      BY <1>3 DEF TrackStatistic
    <2>3. refCount' \in [Tracked -> 0..(CountRange - 1)]
      BY <1>3, CountsBounded DEF TrackStatistic
    <2>4. /\ subscription' \in [Tracked -> {"null", "sub"}]
          /\ stopped' \in [Users -> Stopped]
      BY <1>3 DEF TrackStatistic
    <2>6. unheard' \subseteq keys' /\ unstopped' \subseteq keys' /\ failures' \in 0..MaxFailures
      BY <1>3 DEF TrackStatistic
    <2>5. ASSUME NEW j \in Tracked \ unstopped', stopped'[j[1]] = "never"
          PROVE  refCount'[j] < CountRange - 1 /\ (j \in keys' <=> refCount'[j] > 0)
      <3>1. stopped[j[1]] = "never" /\ unstopped' = unstopped
        BY <1>3, <2>5, OwnersOfKeys DEF TrackStatistic
      <3>2. CASE j = k /\ k \in keys
        <4>1. refCount[k] + 1 \in 1..(CountRange - 2)
          BY <1>3, <3>1, <3>2 DEF TrackStatistic
        <4>2. refCount'[k] = (refCount[k] + 1) % CountRange
          BY <1>3, <3>2 DEF TrackStatistic
        <4> QED
          BY <1>3, <3>2, <4>1, <4>2 DEF TrackStatistic
      <3>3. CASE j = k /\ k \notin keys
        BY <1>3, <3>3 DEF TrackStatistic
      <3>4. CASE j # k
        BY <1>3, <3>1, <3>4 DEF TrackStatistic
      <3> QED
        BY <3>2, <3>3, <3>4
    <2> QED
      BY <2>1, <2>2, <2>3, <2>4, <2>5, <2>6
  <1>4. ASSUME NEW k \in Tracked, StopTrackingStatistic(k) PROVE TypeOK'
    <2>1. CASE Decremented(refCount[k]) = 0
      <3>1. nullRemoved' \in BOOLEAN
        BY <1>4, Zenon DEF StopTrackingStatistic
      <3>2. refCount' = [refCount EXCEPT ![k] = 0]
        BY <1>4, <2>1 DEF StopTrackingStatistic
      <3>3. /\ rta' \subseteq Tracked
            /\ subscription' \in [Tracked -> {"null", "sub"}]
            /\ keys' = keys \/ keys' = keys \ {k}
        BY <1>4, <2>1 DEF StopTrackingStatistic, AfterStop, Erased
      <3>6. /\ unheard' \subseteq keys' /\ unstopped' \subseteq keys' /\ failures' \in 0..MaxFailures
            /\ \A j \in Tracked \ {k} : j \in unstopped' <=> j \in unstopped
        BY <1>4, <2>1 DEF StopTrackingStatistic, Erased
      <3>4. ASSUME NEW j \in Tracked \ unstopped', stopped'[j[1]] = "never"
            PROVE  refCount'[j] < CountRange - 1 /\ (j \in keys' <=> refCount'[j] > 0)
        <4>1. stopped[j[1]] = "never"
          BY <1>4, <3>4 DEF StopTrackingStatistic
        <4>2. CASE j = k
          BY <1>4, <2>1, <3>2, <3>4, <4>1, <4>2 DEF StopTrackingStatistic, PointersSet, Erased
        <4>3. CASE j # k
          BY <3>2, <3>3, <3>6, <4>1, <4>3
        <4> QED
          BY <4>2, <4>3
      <3>5. /\ refCount' \in [Tracked -> 0..(CountRange - 1)]
            /\ alive' = alive /\ handlers' = handlers /\ nextToken' = nextToken
            /\ stopped' = stopped
        BY <1>4, <3>2 DEF StopTrackingStatistic
      <3> QED
        BY <3>1, <3>3, <3>4, <3>5, <3>6
    <2>2. CASE Decremented(refCount[k]) # 0
      <3>1. /\ refCount' = [refCount EXCEPT ![k] = Decremented(refCount[k])]
            /\ UNCHANGED <<alive, keys, subscription, rta, nullRemoved, handlers, nextToken, stopped,
                           unheard, unstopped, failures>>
        BY <1>4, <2>2 DEF StopTrackingStatistic
      <3>2. refCount' \in [Tracked -> 0..(CountRange - 1)]
        BY <3>1, CountsBounded
      <3>3. ASSUME NEW j \in Tracked \ unstopped, stopped[j[1]] = "never"
            PROVE  refCount'[j] < CountRange - 1 /\ (j \in keys <=> refCount'[j] > 0)
        <4>1. CASE j = k
          <5>1. refCount[k] \in 1..(CountRange - 1) /\ k \in keys
            BY <1>4, <3>3, <4>1 DEF StopTrackingStatistic
          <5> QED
            BY <2>2, <3>1, <3>3, <4>1, <5>1, CountsBounded
        <4>2. CASE j # k
          BY <3>1, <3>3, <4>2
        <4> QED
          BY <4>1, <4>2
      <3> QED
        BY <3>1, <3>2, <3>3
    <2> QED
      BY <2>1, <2>2
  <1>5. ASSUME NEW u \in Users, StopTrackingUser(u) PROVE TypeOK'
    <2>1. alive' \in BOOLEAN /\ keys' \subseteq Tracked /\ rta' \subseteq Tracked
      BY <1>5 DEF StopTrackingUser
    <2>2. nullRemoved' \in BOOLEAN
      BY <1>5 DEF StopTrackingUser
    <2>6. unheard' \subseteq keys' /\ unstopped' \subseteq keys' /\ failures' \in 0..MaxFailures
      BY <1>5 DEF StopTrackingUser
    <2>3. refCount' \in [Tracked -> 0..(CountRange - 1)]
      BY <1>5, CountsBounded DEF StopTrackingUser
    <2>4. /\ subscription' \in [Tracked -> {"null", "sub"}]
          /\ stopped' \in [Users -> Stopped]
          /\ handlers' \subseteq Tokens /\ nextToken' \in 1..(MaxTokens + 1)
      BY <1>5 DEF StopTrackingUser
    <2>5. ASSUME NEW j \in Tracked \ unstopped', stopped'[j[1]] = "never"
          PROVE  refCount'[j] < CountRange - 1 /\ (j \in keys' <=> refCount'[j] > 0)
      <3>1. j[1] # u /\ stopped[j[1]] = "never"
        BY <1>5, <2>5, OwnersOfKeys DEF StopTrackingUser
      <3>2. refCount'[j] = refCount[j] /\ keys' = keys /\ unstopped' = unstopped
        BY <1>5, <3>1, OwnersOfKeys DEF StopTrackingUser
      <3> QED
        BY <3>1, <3>2
    <2> QED
      BY <2>1, <2>2, <2>3, <2>4, <2>5, <2>6
  <1>6. CASE Destroy
    <2>1. nullRemoved' \in BOOLEAN
      BY <1>6, Zenon DEF Destroy
    <2>2. alive' \in BOOLEAN /\ rta' \subseteq Tracked
      BY <1>6 DEF Destroy
    <2> QED
      BY <1>6, <2>1, <2>2 DEF Destroy
  <1>7. CASE UNCHANGED vars
    BY <1>7 DEF vars
  <1> QED
    BY <1>1, <1>2, <1>3, <1>4, <1>5, <1>6, <1>7 DEF Next

\* A step never leaves a subscription with the RTA manager that no holder has.
LEMMA HeldStep == TypeOK /\ RegisteredIsHeld /\ [Next]_vars => RegisteredIsHeld'
  <1> SUFFICES ASSUME TypeOK, RegisteredIsHeld, [Next]_vars PROVE RegisteredIsHeld'
    OBVIOUS
  <1> USE DEF RegisteredIsHeld, TypeOK, Registered, HasHandlers, failVars
  <1>1. CASE AddStatisticChangedHandler
    BY <1>1 DEF AddStatisticChangedHandler, Tokens
  <1>2. ASSUME NEW token \in Tokens, RemoveStatisticChangedHandler(token)
        PROVE  RegisteredIsHeld'
    BY <1>2 DEF RemoveStatisticChangedHandler
  <1>3. ASSUME NEW k \in Tracked, TrackStatistic(k) PROVE RegisteredIsHeld'
    BY <1>3 DEF TrackStatistic, Subscribes
  <1>4. ASSUME NEW k \in Tracked, StopTrackingStatistic(k) PROVE RegisteredIsHeld'
    BY <1>4 DEF StopTrackingStatistic, AfterStop, Erased
  <1>5. ASSUME NEW u \in Users, StopTrackingUser(u) PROVE RegisteredIsHeld'
    BY <1>5 DEF StopTrackingUser
  <1>6. CASE Destroy
    BY <1>6 DEF Destroy
  <1>7. CASE UNCHANGED vars
    BY <1>7 DEF vars
  <1> QED
    BY <1>1, <1>2, <1>3, <1>4, <1>5, <1>6, <1>7 DEF Next

\* Without StopTrackingUsers, tracking and handlers may come in any order, and a
\* failure counts only for the statistic it is about.
LEMMA WatchedStep == TypeOK /\ TrackedIsWatched /\ [Next]_vars => TrackedIsWatched'
  <1> SUFFICES ASSUME TypeOK, TrackedIsWatched, [Next]_vars PROVE TrackedIsWatched'
    OBVIOUS
  <1> USE DEF TrackedIsWatched, TypeOK, HasHandlers, Stopped, failVars
  <1>1. CASE AddStatisticChangedHandler
    BY <1>1 DEF AddStatisticChangedHandler
  <1>2. ASSUME NEW token \in Tokens, RemoveStatisticChangedHandler(token)
        PROVE  TrackedIsWatched'
    BY <1>2 DEF RemoveStatisticChangedHandler
  <1>3. ASSUME NEW k \in Tracked, TrackStatistic(k) PROVE TrackedIsWatched'
    BY <1>3 DEF TrackStatistic, Subscribes
  <1>4. ASSUME NEW k \in Tracked, StopTrackingStatistic(k) PROVE TrackedIsWatched'
    BY <1>4 DEF StopTrackingStatistic, AfterStop, Erased
  <1>5. ASSUME NEW u \in Users, StopTrackingUser(u) PROVE TrackedIsWatched'
    BY <1>5 DEF StopTrackingUser, Dropped, StatsOf
  <1>6. CASE Destroy
    BY <1>6 DEF Destroy
  <1>7. CASE UNCHANGED vars
    BY <1>7 DEF vars
  <1> QED
    BY <1>1, <1>2, <1>3, <1>4, <1>5, <1>6, <1>7 DEF Next

\* The start: nothing tracked, no handlers.
LEMMA InitHolds == Init => TypeOK /\ PointersSet /\ RegisteredIsHeld /\ TrackedIsWatched
  <1> SUFFICES ASSUME Init PROVE TypeOK /\ PointersSet /\ RegisteredIsHeld /\ TrackedIsWatched
    OBVIOUS
  <1>1. alive \in BOOLEAN /\ nullRemoved \in BOOLEAN
    BY DEF Init
  <1>2. \A k \in Tracked \ unstopped : refCount[k] < CountRange - 1 /\ (k \in keys <=> refCount[k] > 0)
    BY LimitsAssumption DEF Init
  <1>3. TypeOK
    BY <1>1, <1>2, LimitsAssumption DEF Init, TypeOK, Tokens, Stopped
  <1>4. PointersSet /\ RegisteredIsHeld /\ TrackedIsWatched
    BY DEF Init, PointersSet, RegisteredIsHeld, TrackedIsWatched, HasHandlers
  <1> QED
    BY <1>3, <1>4

\* Reachable states are typed; a user never dropped as a whole has holders
\* exactly for what is tracked, but for the statistics StopTrackingStatistics has
\* failed for.
THEOREM StatisticsTypeCorrect == Spec => []TypeOK
  BY InitHolds, TypeStep, PointersStep, PTL DEF Spec

\* The RTA manager never holds a subscription the service has lost, through
\* failing additions and removals and StopTrackingUsers, and none outlives the service.
THEOREM RegisteredAlwaysHeld == Spec => []RegisteredIsHeld
  BY InitHolds, TypeStep, PointersStep, HeldStep, PTL DEF Spec

\* Every tracked statistic has its subscription while there is a handler, for
\* users never dropped as a whole and statistics none of whose calls has failed.
THEOREM TrackedAlwaysWatched == Spec => []TrackedIsWatched
  BY InitHolds, TypeStep, PointersStep, WatchedStep, PTL DEF Spec

=============================================================================
