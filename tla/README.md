# Formal model of the Xbox Live Services API (XSAPI)

XSAPI is a client library: a game calls C functions, the library talks to the
Xbox services over HTTP and over one websocket per user, and answers through
asynchronous blocks and callbacks on task queues that the game owns. The code
that is hard to get right is the code that keeps state between calls while
callbacks arrive on other threads. That is what is modelled here.

Paths below are relative to `src/Source` unless they start with `src/`.

## 1. Inventory

| Component | State | Operations | Talks to |
| --- | --- | --- | --- |
| RTA connection (`Services/RealTimeActivityManager/real_time_activity_connection.cpp`) | connection state, attempt counter, three maps of service subscriptions, per subscription a status and two lists of waiting calls | AddSubscription, RemoveSubscription, message handlers, connect and disconnect handlers, Cleanup | websocket, task queue, Subscription objects, RTA manager |
| RTA manager (`real_time_activity_manager.cpp`) | per user: connection, explicit activations, title activation; client handlers | Activate, Deactivate, Add/RemoveSubscription, add/remove handlers, TriggerResync, Cleanup | connection, services, title |
| WebSocket (`Shared/web_socket.cpp`) | one handle, handlers | Connect, Send, Disconnect, messages posted to the queue | libHttpClient |
| Task queues (`Shared/async_helpers.cpp`) | a periodic task's skip counter | RunWork, ScheduleImmediately, Terminate | every component |
| HTTP call (`Shared/http_call_wrapper_internal.cpp`) | retry flags, first-call time, retry-after cache | Perform, intermediate completion, auth and throttle handling | Xal, libHttpClient |
| Global state (`Shared/global_state.cpp`) | singleton, outstanding references | Create, CleanupAsync | every component |
| Social graph (`Services/Social/Manager/social_graph.cpp`) | tracked users with reference counts and change flags, groups, polling state | DoWork, RegisterGroup, Track/StopTracking, RTA handlers, poll results | RTA subscriptions, peoplehub and presence services |
| Session writer (`Services/Multiplayer/Manager/multiplayer_session_writer.cpp`) | latest session, write-in-progress latch, tap state, handlers | CommitPendingChanges, WriteSession, OnSessionChanged, Resync, Leave | multiplayer service, RTA |
| Multiplayer manager (`Services/Multiplayer/Manager/*`) | pending requests, lobby/game/match clients, local users | DoWork, join, invite, match | session writers |
| Multiplayer service (`Services/Multiplayer/*`) | RTA subscription and its handlers, session documents | REST calls, handlers | RTA manager |
| Achievements manager (`Services/Achievements/Manager/*`) | per user: cached achievements, pending updates, event queue | AddLocalUser, RemoveLocalUser, DoWork, UpdateAchievement | achievements service, RTA |
| Presence, statistics (`Services/Presence`, `Services/Stats`) | counted subscriptions per tracked user | Track, StopTracking, handlers | RTA manager |
| Events (`Services/Events`) | persisted queue of events and upload batches | WriteEvent, upload, retry | local storage, HTTP |
| Notifications (`Services/Notification`) | endpoint registration, RTA subscription | subscribe, handlers | RTA manager |
| Users, reference counting (`Shared/user.cpp`, `Shared/ref_counter.cpp`) | handles owned by Xal | copy, token requests | Xal |
| Other services (leaderboard, matchmaking, activity, privacy, string verification, title storage, social, profile, TCUI) | none between calls | one REST call each | HTTP call |
| JSON, URI, logging, fault injection, platform code | none that matters here | conversions | - |

**Hard behaviours.** Task queues may dispatch on a thread pool, so two
callbacks run at once and in any order
(`src/Tests/UnitTests/Tests/Shared/GlobalTests.cpp:51` creates such a queue).
The websocket calls its close handler on its own thread. Messages wait in the
queue with the handler they were posted with. Locks are released before a
message is sent or a caller is notified. Timers are callbacks with a delay and
are never cancelled: their owners are weak pointers and their conditions are
checked again when they run. The service throttles, and sockets are lost.

**What makes each component correct.** Connection: no wanted subscription is
lost, one thing drives the connection, and it agrees with the service about who
is registered. Manager: a connection exists exactly while somebody needs it.
Periodic task: one run is always pending. HTTP call: a call lives as long as its
request, completes once, and is tried again at most once and with a new token.
Social graph: reference counts match the groups, groups show the graph as it is,
every change is reported, no poll gets stuck. Session writer and game client:
no tap is forgotten while the count of writes is right, every command ends.
Services with counted tracking: subscribed exactly while the count is positive.

## 2. Plan

**Built so far**, in this order, most important first:

| Module | Models | Kind |
| --- | --- | --- |
| `RTAConnection` | one connection, its websocket, task queue and service | component |
| `RTARegistry` | what a connection promises, without handshakes | abstract specification, implemented by `RTAConnection` |
| `RTAManager` | connections per user, activations, late removal callbacks | component; sees a connection as entries that come and go |
| `PresenceService` | tracked users and titles, handlers, subscriptions | component; sees the manager as a set |
| `UserStatistics` | tracked statistics, handlers, subscriptions | component; sees the manager as a set |
| `PeriodicTask` | the repeating task behind every poll | component |
| `ServiceCallManager` | one of the two batched, retried polls of a social graph | component |
| `SocialGraph` | a graph with its references and pending updates, the title's groups, refreshes, notifications | composes two `ServiceCallManager`s |
| `GameSession` | game client, session writer, session directory with its taps | component, composed with the service it talks to |
| `HttpCall` | a call with its token, its retry after 401 and its reference count, over several calls that share a user | component |
| `MC*` | values of the constants for TLC | instances |
| `*Proofs` | theorems and their proofs | proofs |

**Next**, in this order:

1. The lobby and match clients over `GameSession`'s writer, and synchronized
   commits, which are tried again while the service answers 412. Properties: a
   synchronized change is written on top of the document it was made for; a
   match that is cancelled is not joined.
2. `MultiplayerRta`: `m_sessionsAwaitingConnectionId` under the RTA callbacks.
3. The timeout arithmetic of the HTTP call at its width, as functions checked
   against a reference over bounded inputs.
4. `GlobalState`: cleanup against operations that still run.
5. `RTAService`: the composition of `RTAManager` with `PresenceService` and
   `UserStatistics` in place of the sets they see now.
6. State-changed and resync handlers in `RTAManager`, then the event queue and
   the achievements manager.

**Theorems worth proving next**: every invariant and action property the runs check
is proved (section 5). Next is what holds of a connection *across* a loss: which
part of `InStepInv` comes back once the queued messages of the old socket are
handled. `HandshakesStayInStep` and the agreement end at the first loss because
the code's do (section 6). Then the invariants of the modules planned above.

## 3. What the modules model

**Common conventions.** An action is one critical section: what the code does
between taking and releasing its lock, every call included. What happens after
the unlock is an action of its own where another thread can get in between *and*
something depends on it (sending an assembled message); a notification or the
completion of a caller's AsyncContext after the unlock is part of the same
action, because nothing it touches is read by the others. Names are those of the
code. A failed assert is recorded and the step goes on as a release build would;
where that is undefined behaviour the model stops (`crashed`, `undefined`).

### RTAConnection

`subs` are the ServiceSubscription objects, `byClientId`, `byUri` and
`byServiceId` the three maps, `inbox` the messages
`Websocket::OnMessageReceived` posted to `m_queue` and nobody handled yet,
`outbox` the messages assembled and not yet sent, `connectTimers` and
`retryTimers` the delayed callbacks. `wire`, `requests` and `registered` are the
websocket and the service: external, and as `src/` uses them. A websocket whose
`Connect` failed before it started is "unstarted": nobody looks at the result,
and none of its handlers is ever called. `SerialDispatch` says whether `m_queue`
runs one callback at a time in order or several in any order; both kinds of
queue exist.

`AddSubscription` has one disjunct per status; RemoveSubscription is split into
`RemoveUnknown`, `RemoveShared` and `RemoveLast` along its early returns. Each
message handler is one action inside `WebsocketMessageReceived`.
`DisconnectHandler` includes the loss of the messages in flight to the service,
but not of those already in `m_queue`: they are handled later, by the same
handlers, against the new state. An erased ServiceSubscription is taken to be
freed, so that the weak pointer of its retry timer is dead.

Left out: the 90 minute timer (its close is one of `DisconnectHandler`'s), the
payloads of OnSubscribe and OnEvent, and the iteration of `EventHandler` over
`clientSubscriptions` after its unlock, a data race no state here can show.

### RTAManager

A connection is what the manager sees of it: for each subscription an entry
("inactive", "active", "leaving", "rejoining"), and the removals that wait in
it. A removal completed by the connection's own thread has left the connection,
but its callback still waits for the manager's `m_lock`: `callbacks`. Between
the two, other calls go first, and the callback then looks at whatever
connection the user has. The websocket may refuse a request: what the connection
did before stays done, the caller gets the error, and the request is `unsent`. So
an addition fails in two ways, before any effect (`AddSubscriptionFails`, as
`GetConnection` does) or with the entry in place and nobody to remove it
(`AddSubscriptionUnsent`; `orphaned`), and a removal waits for an answer that only
the loss of the socket brings. Callers are assumed to give back only activations
they took. Each Subscription has a resource of its own; sharing is RTAConnection's
subject.

### PresenceService and UserStatistics

Both keep counted entries per user and subscribe only while there is a handler;
the order in which users, titles, statistics and handlers come is free. A call
with several ids is a sequence of calls with one. Both see the RTA manager as the
set of subscriptions it holds. Adding one may fail before or after it is held,
removing one for a null pointer, or because the websocket refused the request:
then the manager no longer holds it, and the caller is told otherwise. A call
that fails returns early and leaves what it did before, with a count of 0 and the
entry still there if it was to remove; the next call counts from there. Who adds
or removes for a handler looks at no result. For an unordered map the part done
before an early return is a choice. Counts are `size_t` modulo `CountRange`,
small so that they wrap within reach. `stopped` and `updates`, and of what failed
calls leave behind `unheard`, `unstopped`, `unstoppedTitles` and `leaked`, are
history variables the properties use.

### PeriodicTask

Time is a number of ticks that passes while nothing is due. `age` counts from
the last run, up to one more than the interval, to make "too late" visible. A
task on a queue that has been terminated does not run; the model's queue accepts
every submission.

### ServiceCallManager and SocialGraph

`PollPresence` and `PollPeopleHub` are the same code twice; `ServiceCallManager`
is one of them, and `SocialGraph` holds two instances of it. `call` is the call
that is out, `nextPoll` the retry or the next batch on the task queue.

A profile is two fields, `followed` and `presence`, which stand for all those
`CompareProfiles` compares: each has its own change flag. A null pointer is
`NoProfile`. `tracked` are the reference counts of `m_trackedUsers`;
`pendingUpdates` the changes that wait for `DoWork`, with their flags. What the
services answer is free: any profile, any set of followed users of
`FollowedSets`, in any order.

Two mutexes matter: the graph's `m_mutex` and that of its `ServiceCallManager`,
which both polls share. A method that takes one of them and waits for nothing is
one step. `TrackUsers` is more: it holds the graph's while the presence service
subscribes to the new users, and where a resource is Active already, because
somebody else subscribes to the same user (`OthersSubscribe`), RTA runs
`OnSubscribe` inside the call, whose handler polls and takes the manager's
mutex. `unfinished` says of each thread which of these callbacks and which poll
of PeopleHub, made after the unlock, it has still to do. An answer takes the
manager's mutex first (`PresenceAnswered`, `HubAnswered`, noted in `answering`)
and then waits for the graph's to hand the profiles over (`PresenceHandled`,
`HubHandled`). Three things are several steps, because the code takes the mutex
several times: the answer to a refresh (`RefreshAnswered` to
`RefreshInitializes`, five steps), `UpdateTrackedUsers` (three, the group's
mutex held over all of them) and the initialization of a group, which `DoWork`
puts on the background queue. The title's calls and `DoWork` are on one thread,
as the API demands. `DoWork` applies at most `MaxUpdatesPerFrame` updates in the
order of a hash table, so which ones is a choice; their events and the groups'
update are in the same step.

Left out: the relationship filters (a filter group asks for presence only), the
contents of events, `SocialManager`'s map from users to graphs. Relationship
notifications concern users who may come to be followed.

### GameSession

One game session as `MultiplayerGameClient` and its `MultiplayerSessionWriter`
see it, with the session directory: the document is its change number, and a
write that is accepted makes a new one and a tap with it. `calls` are the write
of a commit and that of a join, `gets` the reads; each keeps `m_id` of when it
was made. `writes` is `m_numOfWritesInProgress`, a plain
integer. `WriteSession` counts a call up after it has returned, on its own thread
and, but for a join that goes on to the next user, without the lock that the
answer's count down holds; `Destroy` sets it to 0 under yet another. So counting
is a load and a store, `CountLoads` and `CountStores` of a thread and the two
halves of an answer (`HandleWriteSessionResult`, `WriteHandled`), and any other
step may come in between or before: an answer, another write, a reset.
`IsCurrent`, the comparison of `m_id`, is a step before the lock. `disturbed` is a
history variable: whether the count was used by two at a time, or a write was
answered or the writer reset before it was counted, since the last reset that
found nothing of the kind. A write's answer that a tap has overtaken turns into a
read *for* it, whose answer ends the command.

`JoinGame` and `LeaveGame` are done for one local user after the other
(`NumUsers`). A user who leaves writes the document without the writer. ETags
differ exactly if the numbers do. Synchronized commits, whose answer 412 leads
to another try, are left out, and so are the pending reader and the lobby.

### HttpCall

`thread[c][a]` is where the thread is that performs attempt `a` of call `c`,
`attempt[c][a]` where the request is and the thread that brings its answer.
`AddRef` and `DecRef` are an atomic count followed by an assignment, and both
halves are steps. `expired` is `GlobalState`'s set, `token` numbers the tokens
XAL made. The time limits, headers and tracing, and libHttpClient's own retries
of other errors are left out.

## 4. Runs

| Run | Question | Size |
| --- | --- | --- |
| `connection_safety` | one resource, two clients, pool dispatch, one lost connection, connects that fail or never start, throttled and denied requests: do the maps agree, is any wanted subscription lost, any call completed twice, is the connection driven twice or, once it started, by nothing, does a handshake assert fail before the loss, does it implement `RTARegistry`? | 193 000 states |
| `connection_session` | two resources, three clients, serial dispatch with two messages queued, requests sent in another order than they were assembled, no loss: can an assert fail, do the service and the connection agree on who is registered, does everything held become active and every removal complete? | 147 000 |
| `connection_reconnect` | with one loss and no throttling: does everything held become active again? | 63 000 |
| `manager` | removal callbacks waiting for `m_lock`, activations, refused requests, lost sockets: can a connection be closed under a wanted subscription, or stay open without need? | 8 100 |
| `presence_safety` | users, titles and handlers in any order, one call failing half-way: are counts right, is anything registered that is not wanted, are devices of every tracked user heard of? | 1 022 000 |
| `statistics_safety` | the same for statistics, with StopTrackingUsers | 497 000 |
| `periodic_task` | does the task run in time and for ever, however often it is asked for? | 486 |
| `social_graph` | two refreshes and a notification under a group that is made, updated and destroyed: do groups hold profiles the graph no longer has, do references match lists, can a poll or a thread be stuck? | 1 923 000 |
| `social_inline` | one refresh and one notification, with `OnSubscribe` running inside `TrackUsers`: is every change of presence reported, is a group for a list of users nobody follows loaded in the end, through failing calls, unless two threads lock each other out? | 282 000 |
| `game_session` | a user joins and leaves under commits, changes of others, taps and resyncs, the count of writes loaded and stored in steps: while it is undisturbed, does it wrap, is a tap forgotten? Does a commit or a join never end, whatever becomes of the count? | 220 000 |
| `game_earlier_calls` | a violation: see section 6 | |
| `http_call` | two calls of one user, both answered 401: does a call die under its request, complete twice or never, or go out again with the rejected token? | 253 000 |

**Bounds.** `MaxOps` (3 or 4 calls) covers Add, Remove, Add again and Remove
again of one client, or two clients crossing, which meets every pair of a status
and a call. `MaxSubId` is at least one more than the resources, so that a
resource can be created again while a message to the old one is on its way. Two
service ids make reuse of a freed id possible; the reconnect run needs two
because a registration leaked by a duplicate Subscribe uses one up for good.
`MaxCloses = 1` gives one whole reconnect with messages of the old socket still
queued. `MaxInbox` and `MaxRetries` bound the environment; the session run has
room for two messages, so that an answer and an event, or answers of two
resources, wait together and their order matters. The manager's four calls let a
removal's callback meet a later subscription of the same user and its removal.
Presence has two tokens: one handler of each kind, or one kind removed and added
again. `CountRange = 4` allows two users of an entry and a wrap-around.
`MaxFailures = 1`: one call fails, with any of its additions or removals, and
everything may follow it; the proofs have any number. A periodic task with up to
four skips outstanding and an interval of three has every order of skipped and
unskipped timers. The social graph has one user who may be followed and one who
may not, so that references come from both sides; one list and one filter group,
of which the title makes one, with an update of at most one user a frame, which
keeps updates waiting over several frames; two refreshes, which overlap, or one
where `OnSubscribe` runs inline; and one notification, which has a thread of its
own. The game session has one user, who joins and leaves, two changes of the
document, of which others make one, one resync, one thread of the worker queue
beside the title's, which is enough for two to count at a time, and one read at
a time: a second one waits until the first is answered. `CountRange = 4` is one
more than the count ever needs, so that a wrap shows. (Beyond the run, all three
properties hold with two users, whose joins go on from one to the next: with one
change of the document and one resync, 483 000 states, or with a second join and
no resync, `MaxResets = 3`, 275 000. The two invariants also hold with two users
and two changes, 2 839 000, and with a second join and two users or a resync, 2
228 000 and 3 887 000.) Two HTTP calls of one user meet every overlap of two
refreshes of a token; the proofs have any number. All runs switch deadlock
checking off: the calls are bounded, so the system may come to rest.

**Where the premises matter.** With a pool and service ids reused within one
socket, a late unsubscribe response can unbind the id of its successor, so
`ActiveIsRegistered` is asked of serial dispatch. An unsubscribe answered with an
error leaves a registration at the service that nobody tracks, so the session
run answers it with success; `connection_safety` includes the error. With lost
connections `NoAssertFails`, `RemovalCompletes` and the agreement with the
service fail (section 6), so the session run has none, and
`HandshakesStayInStep` speaks of the time before the first.

- `PatientTitle` (social): the title waits for a group to be loaded before it
  updates or destroys it or asks whom it tracks. Otherwise `NoLockCycle` and
  `CountsMatchLists` fail.
- `EarlyResync` (social): RTA resyncs before the first refresh ended. Then two
  refreshes initialize the graph, the second drops events, and
  `ViewsAreCurrent` fails.
- `StartMayFail`: a service call fails synchronously. The social polls then keep
  their in-progress flag (`PollsEnd` fails), and a commit of the game client is
  never ended.
- `OthersSubscribe` (social): the title also subscribes, over the same RTA
  connection, to the presence of users of the graph. Then `OnSubscribe` runs under
  the graph's mutex and `NoMutexCycle` fails (section 6): `NothingBlocks` is asked
  where nobody does, and `GroupsLoad` excepts threads that are locked out.
- `PatientTitle` (game): leave when nothing is being set, join when the last leave
  is over. Otherwise the leave resets the writer of the new game, and
  `CommandsComplete` is not asked. The other two properties do not need it.
- A websocket that never starts (section 6) ends every progress of its connection,
  so `HeldBecomesActive` is about those that start.
- `XalWaits`, `RefreshMayFail` (HTTP): XAL, which is not part of the sources,
  gives nobody an old token while it makes a new one, and makes it. Otherwise
  another call of the user takes the report of the expired token, and the retry
  goes out with the rejected one: `RetryIsFresh` is as good as that.

**Fairness.** Weak for everything a task queue was given
(`WebsocketMessageReceived`, timers, completions) and for threads on their way
to `Send` or to a lock: queues and schedulers run what is runnable. Strong for
`NetworkConnects`: one of endlessly many attempts gets through. Strong for
`ServiceGrants` and `ServiceReleases`: a service that throttles grants one of
endlessly many attempts, and events, which may fill the bounded inbox over and
over, do not starve its answers. Callers owe nothing: no call is fair. In
`RTAManager`, that unsubscribe handshakes end is fairness; across a reconnect it
can fail (section 6), so `UnusedIsClosed` says what holds when it does not. A
websocket that refuses requests is not open, so its disconnect handler follows
(`SocketFollows`). In `PeriodicTask`, time passes and the queue runs what is
due. In `SocialGraph`, the title calls `DoWork` every frame and queued work
runs; strong for answers of the services, since a call that failed is made again
for ever; weak for threads that wait for a mutex, which take it once it stays
free. In `GameSession`, calls are answered, with a failure perhaps, and answers
handled; strong for the lock of `HandleWriteSessionResult`, which others take
and give back. In `HttpCall`, XAL and the provider answer and callbacks run; the
client performs a call only if it likes.

## 5. Proofs

Checked by TLAPS for every value of the constants that the named assumptions
allow; these only say that bounds are natural numbers and names are distinct.

- `RTAConnectionProofs`. `TypeCorrect`: every step is typed, action by action; the
  lemmas before it type the record updates. `OneDriverHolds` needs nothing but the
  types: every step that takes the last driver away starts another one or leaves
  the socket unstarted, and none starts a second. `HeldAlwaysTracked`,
  `MapsAlwaysAgree` and `LeavingAlwaysUnwanted` come from one inductive invariant,
  `TrackingInv`: `HeldIsTracked` alone is not inductive, because an unsubscribe
  response or a disconnect erases subscriptions. It needs that what is being
  erased is on its way out (`LeavingIsUnwanted`), that erasing under one key
  erases under the other (`MapsAgree`), and that a new id is not in use
  (`FreshIds`). `CallsWaitOnce` needs `WaitingInv`: `WaitsOnce` alone is not
  inductive, because an Add could reuse a call or a client id that still waits
  somewhere (`FreshCalls`), and the terminated queue could complete calls a
  handler completes as well (`AbortsWhenCleaned`: it holds some only after
  `Cleanup`, and the lists are empty from then on). `Implementation` goes step by
  step: `AddSubscription` maps to `Add`, the three Removes to `Remove`, `Cleanup`
  to `Close` and the terminated queue's callback to `Answer`; every other step
  only settles calls that wait, and gives up only what nobody holds
  (`TrackingInv`), which is `Answer` again. `OutcomesAreFinal` is what a caller
  gets from it. `HandshakesInStep` needs `InStepInv`, which accounts for every
  message under way before the first loss: one per subscription at most
  (`OneMessageEach`), and one that its handshake waits for (`OnlyExpected`); a
  service id is there only while it is bound (`IdsInStep`); nothing is sent before
  the first connect (`FirstConnect`), so its handler finds every subscription
  inactive. The order of dispatch does not matter. `Agreement` adds
  `AgreementInv`: the ids the connection has are registered or their release is on
  its way (`IdsAgree`), requests name the id of their subscription
  (`RequestsAgree`), what a queued answer says is still so (`AnswersAgree`), and
  an id is released before it is granted again, an event behind its grant and
  before its release (`OrderAgrees`). Its premises are those of the session run:
  `SerialDispatch`, without which the release of an id is handled after its next
  grant, and no unsubscribe refused, without which the registration stays. It
  needs no bound on losses, and ends at the first.
- `RTAManagerProofs`. `RemovalsAlwaysWait` is the key: an entry on its way out has
  a waiting removal, sent or refused, so when it disappears it leaves a callback
  behind. `IdleAlwaysClosing` and `HeldAlwaysConnected` follow step by step, and
  the type theorem includes that Deactivate's assert cannot fail.
- `UserStatisticsProofs`. `RegisteredAlwaysHeld` and `TrackedAlwaysWatched` rest
  on `PointersSet`: while there are handlers, a holder of a user never dropped as
  a whole has its subscription. Any number of calls may fail anywhere; the keys of
  an addition that failed are `unheard`, those of a removal that failed are
  `unstopped`, and only they may wrap or stay silent.
- `PresenceServiceProofs`. `RegisteredAlwaysTracked` rests on `HeldHasEntry`: what
  the manager holds for a user has an entry of the user, through which it is found
  when it has to go, unless a failed addition left it behind (`leaked`).
  `PresenceTypeCorrect` adds that exactly the tracked users have an entry that
  counts, but for users and titles whose removal has failed (`CountsLive`,
  `TitlesLive`); `Histories` says that what is remembered of failed calls is about
  what there is. `DevicesAlwaysWatched` is inductive with the types alone, given
  that a device is no title (`TitleAssumption`).
- `PeriodicTaskProofs`. `OneChainAlways` and `RunsAlwaysInTime` rest on
  `LastTimerInTime`: the timer set last is due an interval after the last run, and
  `OneChain` never lets it be the one that is skipped without another run to come.
- `HttpCallProofs`. The invariant says how far the two attempts of a call may have
  come relative to each other, and that `refs` is exactly what was counted less
  what was uncounted (`RefsExact`). From it follow `HttpCallTypeCorrect` (the
  count is within -2 and 1) and `CallsAlwaysSound`: the count may be late, but the
  thread that counts last finds it at zero and keeps the call.
  `RetriesAlwaysFresh` assumes `XalWaits` and that refreshes succeed; its
  invariant follows the rejected token from the report over every call of the user
  that may take it, to the retry.
- `SocialGraphProofs` goes in layers. `SocialTypeCorrect` needs no premise; in
  particular no reference count goes below zero. `PresenceAlwaysReported` rests on
  `PendingInv`: a pending update either carries the presence of the profile it
  replaces or is flagged as changing it, which every order of merging keeps.
  `NothingEverBlocks` rests on `PollsEnd` for both polls, which needs that no call
  fails before it is made; on `StagedInv`: the stage of a group, its
  initialization task and its members are in step, if the title waits for its
  groups; and on `GraphStaysFree`: if nobody else subscribes to the users of the
  graph, no thread keeps the graph's mutex while it waits for another, so an
  answer gets it. That last premise is needed by no other theorem.
  `ViewsAlwaysCurrent` adds `OrderInv`, that no refresh passes the first one,
  which holds unless RTA asks for one before it is done (`EarlyResync`).
  `CountsAlwaysMatch` counts: the references of a user are the number of lists
  that have the user (`Listing`), and one more while an update holds its own
  (`InUpdate`); it is about users nobody can follow, whom no refresh brings
  (`StrangersInv`), since a refresh gives up references of the others.
- `GameSessionProofs`. `SessionTypeCorrect` and `TapsAlwaysLookedAt` follow from
  `CountInv`, which holds until the count is disturbed: the count is exactly the
  number of writes of this session that are out and that nobody has still to count
  (`CountIsExact`), what was loaded and not yet stored is up to date
  (`LoadIsFresh`), who counts has a write out (`CountingHasWrite`), and a tap that
  is noted has one too. It needs that a write belongs to the command in progress
  (`WriteHasCommand`), that the read that follows a write is made when the write
  is answered and is the only one (`ReadFollowsWrite`), and that the lock keeps
  two answers from counting down at a time (`OneLoaded`), which hold whatever
  becomes of the count. There is no premise on the title, the service or the speed
  of answers. `NoSession` is assumed to be no session (`NoSessionAssumption`).

Only model-checked: everything about liveness (`HeldBecomesActive`,
`RemovalCompletes`, `UnusedIsClosed`, `KeepsRepeating`, `GroupsLoad`,
`CommandsComplete`, `CallsComplete`), since TLAPS has no support for ENABLED and
hence none for fairness. Every invariant, action property and refinement of the
runs has a theorem. The inductive invariants that no run names (`WaitingInv`,
`InStepInv`, `AgreementInv`) held as invariants of the connection runs'
instances before they were proved, `AgreementInv` with all three codes and
`MaxInbox = 3`.

## 6. Where the code and its documentation disagree

With a run:

- `game_earlier_calls`: `m_id` is "used to ignore calls made before resetting the
  state", but the answer to a read does not look at it. A read asked for before
  the game was left brings the session back, and `session()` returns a game the
  user is no longer in.

Stated in the modules as properties the code breaks; adding the property to a
run's configuration, with the constants named here, shows the trace:

- `ConnectingIsUnderway` (connection): the state Connecting means "Currently
  connecting to the real-time activity service."
  (`src/Include/xsapi-c/real_time_activity_c.h:56`), but the result of
  `Websocket::Connect` is ignored
  (`Services/RealTimeActivityManager/real_time_activity_connection.cpp:751`; the
  comment there asks "Do synchronous failures need to be handled here?"). If it
  fails before it starts, for want of libHttpClient or of a token request, no
  connect-complete comes and no reconnect is scheduled: the connection is
  Connecting for good.
- `EventIsKnown` (connection, with a loss): an event that waits in `m_queue` when
  the socket closes is handled after `DisconnectHandler` cleared
  `m_subsByServiceId`; the assert in `EventHandler` fails, and a release build
  dereferences `end()`. `ConnectFindsInactive` and `ResponseIsExpected` are two
  more asserts that a queued response or an early Add makes fail.
- `RemovalCompletes` (connection, with a loss): a subscription added between the
  disconnect and the reconnect timer is sent on the dead socket, because
  `m_state` is still Connected. If it is removed before the new socket connects,
  `ConnectCompleteHandler` overwrites PendingUnsubscribe with Subscribing, and
  the removal's AsyncContext waits for ever.
- `CleanupCompletesAll` (connection): removing a subscription that was never sent
  destroys the AsyncContexts of the Adds that wait in it.
- `HeldBecomesActive` with a loss *and* throttling: a throttle answer to a
  duplicate Subscribe makes an active subscription inactive and no retry follows.
- `NoIdleConnection` (manager): `Deactivate` without a connection returns before
  it counts, so the next connection outlives its subscriptions.
- `OnlyTitleForgets` (manager): `m_titleActivated` is one flag for all users, never
  reset, and makes internal deactivations of other users drop live subscriptions.
- `FailedAdditionsEnd` (manager): an addition whose request the websocket refuses
  returns an error, and its entry stays. The next connect subscribes to it, nobody
  can remove it, and the connection is never closed. `UnusedIsClosed` counts such an
  entry among what keeps a connection (`orphaned`).
- `TitlesWatched` (presence): `AddTitlePresenceChangedHandler` stores the handler
  before it tests for the first one, so users tracked earlier get no title
  subscriptions.
- `TitleIsKnown`, `RemovesSubscriptions` (presence): entries for titles are made
  only while there is a handler but expected always; pointers are reset while
  their keys stay, and later removals pass null.
- `UpdatesOnlyForTracked` (presence): a resync's answer reports users dropped since.
- `NothingLeaks` (presence): a `TrackUsers` that fails half-way leaves subscriptions
  for a user who is not tracked, which nobody can remove; `RegisteredIsTracked`
  excepts them (`leaked`).
- `TrackedAgainIsWatched` (presence, statistics): a StopTracking call whose request
  the websocket refuses returns early, with a count of 0, the entry in place and
  some of its subscriptions gone. A user or statistic tracked again is only
  counted up and is not heard of; stopped again, the count wraps around.
  `StopTrackingUsers` of the statistics leaves the same behind when nothing fails.
  `TypeOK`, `DevicesWatched` and `TrackedIsWatched` except what such calls were about.
- `StopCancelsAll`, `RemovesSubscriptions` (statistics): the next handler subscribes
  to what `StopTrackingUsers` dropped, and holders without a subscription pass
  null to `RemoveSubscription`.
- `UntrackedUsersLeave` (social): an answer that was on its way when a user was
  given up replaces the update that would have removed the user, who then stays
  in the graph. A group that is destroyed while it is being initialized is
  entered again by the task.
- `NoMutexCycle` (social, with `OthersSubscribe`): `TrackUsers` holds the graph's
  mutex (`Services/Social/Manager/social_graph.cpp:405`) while an Active resource's
  `OnSubscribe` runs inline, polls, and waits for the mutex of the
  `ServiceCallManager` (827). The answer to a poll holds that mutex (903, 962) while
  its handler waits for the graph's (518, 496). The two threads wait for each other,
  and the title, told to "Wait for XblSocialManagerEventType::SocialUserGroupLoaded
  event in XblSocialManagerDoWork" (`src/Include/xsapi-c/social_manager_c.h:665`),
  waits for ever, since `DoWork` needs the graph's mutex too.
- `GroupsLoad` for lists with a followed user (social): when the user is no longer
  followed, a refresh and the notification both give up a reference, one of them
  the list's, and the group waits for a profile that is removed.
- The relationship flag of a pending update is lost to a presence answer
  (`PresenceResultHandler`); `PresenceChangesReported` is what is left.
- `CommandsComplete` with `StartMayFail` (game): a commit whose call fails at once,
  or one run without a session, leaves `m_pendingCommitInProgress` set.
- `ChangesAreSynchronized` (game): the writer is to "Synchronize write session
  result with any changes that happened in the interim."
  (`Services/Multiplayer/Manager/multiplayer_manager_internal.h:805`), but it counts
  a write after `WriteSession` returned, without the lock its answer counts it down
  under (`Services/Multiplayer/Manager/multiplayer_session_writer.cpp:316`). If the
  writer is reset in between, or the count is used by two at a time, it stays at 1
  with no write of this session out, and every tap from then on is noted and never
  looked at; if the answer is handled first, it wraps. `NotedTapsAreLookedAt` says
  what holds until then (`disturbed`).
- An older document replaces a newer one if its ETag differs (game,
  `UpdateSession`).
- `NothingLeaks` (HTTP): if the answer uncounts the reference between the two
  halves of `AddRef`, the call holds itself for ever.

## 7. Not modelled

Section 2 lists what is planned. Not planned: services that make one REST call
per operation and keep nothing between calls; JSON, URI and string conversions;
logging and fault injection; platform code and the wrappers over Xal and
libHttpClient, whose state is theirs. PROJECT.json gives the reason for each.
