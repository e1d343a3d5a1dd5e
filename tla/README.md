# Verification of the shopping backend and its clients

TLA+ models of the parts of this repository whose correctness depends on the
order of events: the transactional outbox, the unit of work that feeds it, the
audit trail, the accounts, the caches, and the clients: the token refresh of the
web client, the admin's session and tables, and the offline queue, cart and
session of the mobile app. TLC checks the models on small instances; the TLA+
proof system proves the main invariants for every value of the constants.
`PROJECT.json` lists components, runs, the source lines each definition stands
for, the findings, the hazards and the theorems.

Paths below are relative to `src/src/` unless they start with another directory.

## 1. Inventory

| Component | State it keeps | Operations | Hard behaviour | What makes it correct |
|---|---|---|---|---|
| **Outbox**: `OutboxMessage.cs`, `OutboxMessageStore.cs`, `OutboxProcessorService.cs` | table `OutboxMessages` (processed, error, retry count, next retry); tracked copies of a batch in each replica | store an event; poll every ten seconds, publish each row of the batch, save once at the end; delete processed rows | replicas on the same rows with no lock or row version; crash between publish and save; publish that raises after it arrived; a window of 20 rows | a row that looks published was; nothing is given up early; duplicates have a cause; stored events settle |
| **Unit of work**: command handlers, `AuditableEntityInterceptor`, `DispatchDomainEventsInterceptor`, `AddEventAsync` | entities and rows in one database; events held by the context | handle, audit, dispatch, one nested commit per event, the handler's own commit | failure between two commits; a second attempt; concurrent updates; audit events published before the commit | a change and its events are stored together; nothing unwritten is announced |
| **Audit trail**: `AuditEventConsumer`, `AuditCleanupWorker`, `AuditLog` | table `AuditLogs`, a hash chain; the consumer's queue and error queue | consume, chain, insert; delete rows past their retention | two consumers read the same newest row; late events; redelivery; cleanup meanwhile | one chain; no event lost; no copy without cause |
| **Message bus**: `ServiceBus`, MassTransit and RabbitMQ | queues, error queues | publish, deliver until acknowledged | lost confirmations, redelivery, no retry set up on the endpoints in use | modelled as an environment of Outbox and AuditTrail |
| **Accounts**: `Infrastructure/Identity/IdentityService.cs` | one row per user with a concurrency stamp; its roles; mailed reset tokens | register, log in, refresh, update, assign a role, forgot and reset the password | every write loads the row and saves all of it; results that are looked at and results that are not; registration in three steps | nobody undoes another's write; a mailed token resets once; a user without a role is explained |
| **Web client session**: `Presentation/Web/.../httpClient.ts` with `IdentityService` | tokens in localStorage (shared by tabs); `isRefreshing` and `failedQueue` (one per tab); one refresh token per user | send, 401, refresh, queue, replay, clear tokens | several 401s at once; late 401s; two tabs; lost answer; compare and replace are two operations of the server | one refresh per tab; every call ends; the session is kept |
| **Admin session**: `Presentation/Admin/.../useAuth.ts`, `auth-store.ts`, `httpClient.ts`, the route guard, the sign-out dialog | four copies of who is signed in: pair in localStorage, auth store, cookie, cached profile | log in, load, guard, call, refresh, sign out | copies written by different code at different times; late answers of an earlier session | the copies are of the last login |
| **Product lists**: `CachingBehaviour.cs`, `useProducts.ts` of both clients | the answer cached in Redis for all replicas; the query cache of each browser | cache-aside GET; change, cancel, apply, invalidate, fetch again | a GET that read before a change and answers, or is cached, after it; the first GET, which a change does not cancel | a user sees his own change; a stale list leaves |
| **Admin tables**: `use-table-url-state.ts`, `pagination.tsx`, `utils.ts` | page, size and filters in the URL; copies of the filters in the table; the browser's history | filter, page, size, back, forward, correct the page | two copies that only one side updates; pages beyond the last | the URL says what is shown; the buttons are right |
| **Mobile offline queue**: `SyncManager.ts`, `LocalStorageRepository.ts`, `offlineMiddleware.ts`, `useNetworkStatus.ts` | table `offline_queue` in SQLite; flag and snapshot in memory; counts in each hook | queue, replay, mark, count, clear | replay after a lost answer; a request served after the phone gave it up; app killed between steps; counts read earlier | operations are kept until applied, repeated only with a cause, sent once a screen has counted them; every sync ends |
| **Mobile cart**: `cartSlice.ts`, the cart handlers | the slice, its copy written later by redux-persist; the table of carts | fetch, add, update, remove, remove all, clear | answers that arrive in another order; a clear that waits in the queue, or is served after it left | the screen agrees with the server; a row stays unless its removal was asked for |
| **Mobile session**: `authSlice.ts`, `RootNavigator.tsx`, `store/index.ts` | four keys on the device, written one by one; the slice; its copy, written later | log in, by biometrics, log out, load the profile, restart | refused writes; a kill between two keys, or before the slice is written; a login and a logout that cross; `isLoading` persisted | a session has a token; a sign-out lasts; the button is never disabled for nothing |
| **Code nothing calls**: push tokens, `FeatureFlag`, `CacheService`, `ResiliencePolicies`, the web client's `signalRService.ts` | | | | see 7 |
| Gateway, queries, validation, mapping, hosting, hubs, user interfaces, infrastructure code | none that steps of several actors share | | | |

How they interact. A command handler changes an entity, which collects domain
events. `SaveChanges` runs the audit interceptor (publishes audit events to the
bus) and then the dispatch interceptor, which calls `AddEventAsync` for each
event; that commits the entity and the outbox row. The processors of all replicas
(two, `.github/k8s/deployment-backend.yml:8`) poll the table and publish to the
bus. Consumers of the bus only log, except the audit consumer, which writes the
trail. The clients call the HTTP API; both browser clients refresh their tokens
there, the mobile app keeps the pair and never refreshes it. The mobile cart calls
the API directly except for a clear, which the middleware diverts into the offline
queue; the SyncManager sends it from there.

The hazards, each at its line with the properties that would catch it, are in
`PROJECT.json`.

## 2. Modules

| Module | Models |
|---|---|
| `OutboxContract` | what the outbox promises, without rows, batches or replicas |
| `Outbox` | the table, any number of replicas, the bus as they see it; refines `OutboxContract` |
| `UnitOfWork` | a command's way to the database, the outbox and the audit bus |
| `Delivery` | from a command to the consumers of its events: `UnitOfWork` with the outbox at work, by `OutboxContract` |
| `AuditTrail` | queue, consumers, chain, retention |
| `AccountContract` | what IdentityService promises of an account, without copies, stamps, kills or lost answers |
| `Accounts` | one account and the requests that write it; refines `AccountContract` |
| `TokenRefresh` | tabs, calls, the server's one refresh token |
| `AdminSession` | one tab of the admin and the four copies of its session |
| `ProductLists` | table, Redis and the query caches of browsers |
| `PageNumbers`, `TableUrl` | the page buttons as an operator; the table, its URL and the history |
| `QueueContract` | what the offline queue promises, without syncs, snapshots or hooks |
| `OfflineQueue` | table, SyncManager, middleware, hooks; refines `QueueContract` |
| `MobileCart` | slice, server's table and queued clears; uses the queue by `QueueContract` |
| `MobileSession` | device storage, slice and start of the app |
| `OutboxProofs`, `UnitOfWorkProofs` (with `Delivery`), `AuditTrailProofs`, `TokenRefreshProofs`, `OfflineQueueProofs`, `AccountsProofs`, `AdminProofs` (session, lists, table), `MobileProofs` (cart, session) | the theorems |
| `MCOutbox`, `MCUnitOfWork`, `MCTokenRefresh` | constants of an instance for TLC |
| `MCRows`, `MCQueues`, `MCCommands`, `MCBrowsers` | components that share no state, checked in one run |

In the last four, a variable `part`, chosen at the start, says which component
moves; the others keep their initial state, so the states of the components add up
and do not multiply. `commands` has five parts: the server with the outbox at rest and
with the outbox at work, the cart with two calls at once and with one call at a time on
a phone that is killed (`"cart"` and `"phone"`), and the session. What a run shows of a
component is what a run of that component alone, under the bounds of its parts, would
show; in the other direction, the theorems `RowsAreBoth`,
`QueuesAreBoth`, `CommandsAreAll` and `BrowsersAreAll` say that a behaviour of such a
run is a behaviour of each of its parts, so that what is proved of a part holds there.
For that, `AccountsProofs`, `OfflineQueueProofs`, `MobileProofs` and `AdminProofs`
extend the module of the run; they use its definitions, never its bounds.

Two compositions share state. In `Delivery` the rows that the commands store are the
accepted events of `OutboxContract`, whose other steps are the outbox's; `OutboxProofs`
shows that the table and its replicas implement that contract. In `MobileCart` the
queue is `QueueContract`, and `OfflineQueueProofs` shows that the SyncManager's queue
implements it, for any number of operations and hooks.

An operator whose comment begins "Mutant of X" is X with a plausible mistake (a
dropped guard, a missing reset, a swapped order). No specification uses it: it is
there to show, by replacing X, that a property fails when the code is wrong.

### Outbox

`row[m]` has the columns of `OutboxMessage` that the processor reads or writes.
Events are numbered by `OccurredOnUtc`. `NextRetryUtc` is kept as "still in the
future" (`waiting`); `BackoffElapses` lets the delay pass. `PollReady` is the query
and the filter after it (`OutboxProcessorService.cs:60-71`): the `BatchSize` oldest
rows of the table, *then* those that are open and due. The loop is one action per
row and outcome (`Unresolved`, `PublishSucceeds`, `PublishRaises`) on the replica's
tracked copy, and `SaveChanges` writes, per row, exactly the columns that differ
from what was loaded (EF Core's change tracking, from which the modules take no
more than that). `SaveRejected` is the save that raises (a row deleted meanwhile, or
values the database refuses) and `Abandon` the process that stops or the save that
fails for any other reason. `delivered`, `failures` and `unrecorded` are history
variables and influence nothing.

Facts of the code that the model reproduces and that a reader may not expect:

- The catch block increments `RetryCount` and `MarkAsFailed` increments it again
  (`OutboxProcessorService.cs:113-125`), so the count goes 0, 2, 4 and the third
  failure is the last: three attempts, not five. `MinAttempts` is therefore 3.
- An event whose type cannot be found, or whose content cannot be restored to an
  event, fails five times and then stays in the table unprocessed for ever
  (`BrokenEventsRest`), and in the window of oldest rows. A deserialization that
  throws takes the catch block: to the model it is a publish that raised.
- No production code calls `CleanupProcessedMessagesAsync`; it is modelled, and
  `CleanupEnabled` says whether something calls it.
- The entity assigns dates without a Kind (`utcNow.DateTime`), which Npgsql refuses
  for `timestamp with time zone`. `TakesKindlessDates` is FALSE for the database the
  program is configured with (PostgreSQL, no legacy timestamp switch, no value
  converter) and TRUE for one that takes such dates. The runs with TRUE say what the
  design does once its dates are accepted, which is also what the repository's tests
  expect (`Tests/Infrastructure/OutboxMessageStoreIntegrationTests.cs:133-147`).

### Unit of work

`Handle` is a handler up to `SaveChanges`; `BeginSaveChanges`, `AddEvent`,
`CommitEvent`, `CommitCommand` follow the interceptors and the nested saves in
order; `Fail` can strike between any two. `Singles` stands for the commands that
raise one event, `Updates` for the two that may raise two (`UpdateDetails`, then
`UpdatePrice` on `Product`). `Rewrites` are the singles that set columns of a row that
is there (`UpdateCart`; `DeleteProduct`, which sets a status): they raise their event
whatever the columns held, so a repeated one may change nothing and stores the event
alone (`moot` remembers it). `MustWrite` says which commands are sure to change a
column. Each attempt has a fresh context. Audit events are
counted, not described: the interceptor runs in the handler's save and again in
the first nested one, before any commit, so each change is announced twice, and an
attempt with nothing to change not at all.
`DeleteAllCarts`, one DELETE past the interceptors, is a step of `MobileCart`; the
in-process notification handlers, which log, are not modelled.

`Delivery` adds the outbox. A row `<<c, a, e>>`, the event `e` of attempt `a` of
command `c`, is an accepted event of `OutboxContract` from the commit that stores it.
`Processor` is that contract's `Send`, `Refuse` and `Settle`: what the batch loop can
do with a row, with the replicas, batches and lost saves behind it left to `Outbox`.
That no step of the commands but the storing of a row touches the outbox, and the other
way round, is the code's: they share only the table. `Watched` bounds the rows that are
followed through the outbox, `MaxRefusals` the refusals of each.

### Audit trail

Events are numbered by `Timestamp`. A `PreviousHash` is represented by the `Id` of
the row it is the hash of, and 0 is the zero hash: SHA-256 is taken as injective.
`Newest` is the row with the largest `Id`: the second `OrderByDescending`
(`AuditEventConsumer.cs:29-30`) replaces the first. `Chain`, `Insert`, `Commit` and
`Acknowledge` are the points at which another consumer can come between;
`Raise` and `Crash` the two ways a call of `Consume` ends early, with or without the
INSERT. The cleanup can empty the table, after which the chain restarts at zero.

### Accounts

One e-mail address. A request loads the row (`Load`; for a registration
`CheckName`, `Insert`), computes, and saves it whole (`Save`); `Kill` ends it in
between, and its answer may be lost. The columns hold *which request* wrote them, so
"undone" can be said. The save compares the concurrency stamp the request loaded,
as the `UserManager` does; update, role and reset look at the result, while login,
refresh and the role of a registration do not (`IdentityService.cs:201`, `:239`,
`:273`). A reset token is made from the security stamp, which changes with the
password. Roles are seeded in development only, so the account may be created
before its role exists (`RoleMissing`), and stays. Passwords are right, hashing and
validation are ASP.NET Identity's.

`AccountContract` is the same without loads, copies and stamps: a request takes
effect at most once, whole, on the account as it is at that moment, and a refresh or
reset uses up the pair or the password that is then the current one. `Insert` is its
`Register`; a save whose stamp is current is `JoinClients`, `Login`, `Rename`,
`Promote`, `Refresh` or `Reset`; everything else is a stutter. The contract says
nothing of answers: what a client was told is `NothingUndone`'s.

### Token refresh

Token pairs are numbered in the order of issue. `stored` is localStorage,
`isRefreshing` the flag of each tab, `at` the place of each call; the queue is the
set of calls `waiting` in the tab. `Compare` and `Issue` are the server's two
database operations; a refused refresh is answered 200 without data, which the
client's destructuring turns into an exception, so it ends in the same catch block.
`LeaveTab` is that block: the queue rejected, the tokens cleared, the page left; a
tab's script and calls are taken to end at once with the page.

### Admin session

A token is known by the login it descends from. Login, sign-out, guard, mount of the
user menu, the profile query and its invalidation, calls, 401s and refreshes are
actions; each writes exactly the copies its code writes. `last` is the last
accepted login, `crossed` says that a call was in flight across one. One tab:
others only clear the pair they share (their refreshes are `TokenRefresh`). The user
waits on the sign-in page while a login is under way; calls of the pages are
queries, and any may be answered 401.

### Product lists

A list is represented by the number of changes it contains. A GET is sent, read
from the table or answered from Redis, stored there, answered; the browser takes
the answer only of the GET its query awaits. A change commits, is answered, and
its hook marks the list stale and asks again. React Query cancels a GET under way for
that only if the query has a list already: during the first load the older GET stands,
its answer is shown and clears the mark, though the change it was told of is not in it
("Add Product" is enabled meanwhile). A GET may belong to no query of a browser: it
stands for those of everybody else. `excused` says that the list shown is older for a
reason: the server answered from an entry older than what the browser knew, or the
list is the first one, asked for before the change (`Excuses`). The output cache is left
out: `Program.cs:44` defines no policies, so it stores nothing.

### Tables of the admin

`entries` and `cursor` are the browser's history; the page is read from the URL at
every render, the filters are copied at the mount and then written to both.
`EnsurePageInRange` is the effect after a render. `wandered` says that the history
or a link changed the URL under a mounted table. `GetPageNumbers` is an operator,
translated branch by branch.

### Offline queue

`opStatus` and `rowId` are the table, with ids in the order of insertion; `isSyncing`,
`syncAt`, `unsent` the SyncManager, `pendingCount`, `closureCount`, `checking` the
hooks. The middleware's two statements (`ChangeLocally`, `AddToQueue`), each request
and each mark are steps of their own, so a kill can fall between any two; a
statement SQLite refuses and an answer that is lost are outcomes of the step they
strike. The phone sets no timeout, but the platform ends a request on a broken
connection and a kill ends it too: `syncOperation` then reports a failure, or nothing,
while the server may have applied the request or may do so at any later time, when the
operation has long been sent again, marked and removed. `late` counts those requests
(`AnswerLost`, `Kill`), `LateApplies` serves one. A hook's listener decides by the count it was created with. Order by
`created_at` is order of insertion: the clock is assumed not to go back. Only
`cart/clearCart` reaches the queue; the other action types the middleware looks for
are never dispatched, so every row asks for the same `deleteAll` and the order among
rows makes no difference to the server.

`QueueContract` counts how often an operation was applied (`delivered`) and its
requests that nobody waits for (`abroad`). `Deliver` and `GiveUp` need the operation to
be held; `DeliverLate` does not. So an application after an operation has left is a
step of the contract only if the request was sent, and given up, before.

### Mobile cart and session

`MobileCart`: a thunk is dispatched (pending reducer), served, answered (fulfilled
or rejected reducer), in any order; a call may be refused, or its answer lost, with
or without effect. A cart is, per id of the server, the quantities of its entries:
adding appends an entry, updating writes the first one with that id, removing takes
away all, as the reducers do (`Reduced`). A restart, or a client that gives up,
leaves a call "gone": nobody waits for it and the server may still serve it, much
later. A clear enters the queue, or fails to (`ClearUnqueued`), is sent any number of
times while held, and deletes every row when it is served, as `DELETE /carts/delete-all`
does; one that was given up (`GiveUpClear`) may be served after it left the queue
(`DeliverLateClear`), with the rows added since. `savedCart` is the slice in the
storage, which redux-persist writes some time after the reducers (`PersistCart`); a
restart shows that. One
device uses the table, whose rows have no owner that anything looks at; the order
`GetCarts` returns is left out.

`MobileSession`: login writes `token`, `refreshToken`, `email`, `password` in that
order, logout removes them in that order, one awaited write per step, any of which
may be refused. redux-persist writes the slice some time after the reducers
(`PersistSlice`); a kill empties the memory and restores what was written last
(`saved`), `isLoading` included. A kill after a sign-out and before that write
therefore brings back a session without a token, or a profile: `unbacked` and `revived`
remember it. The start of the app looks only for a stored token.

## 3. Runs

Runs that hold:

| Run | Instance | Shows |
|---|---|---|
| `rows` | outbox: 2 replicas, 2 events of which one cannot be restored, cleanup, 1 lost batch; account: nine requests (2 registrations, login, refresh, update, role, forgot, 2 resets) | interleaved saves of stale copies never make an unpublished row look published, never shorten the retries, and bound the duplicates; `OutboxContract` is implemented; no request undoes what another saved, an account without its role is explained, `AccountContract` is implemented |
| `queues_settle` | outbox: 1 replica, 3 events, a batch for all, 1 lost batch; phone: 2 operations, 1 hook, 1 kill, 1 refused statement, 1 request given up; fairness | every event that can be restored settles, one that cannot comes to rest; queued operations are applied once more only for a request that went unmarked, however late it is served; what no hook has counted is sent only after a mount; every sync ends; `QueueContract` is implemented |
| `commands` | server: 2 concurrent updates and 1 single that may find nothing to change, 2 attempts each but of one update; delivery: the same with the outbox, 2 rows followed, 1 attempt of each command but one, 1 refusal; cart: 2 calls at once, with 2 rows, or 1 row and a clear sent twice; phone: 1 call at a time, 2 rows and a clear sent twice, kills and late writes of the slice at any time; session: 2 logins, 1 refused write, kills, late writes of the slice | singles are atomic, consumers hear of nothing unwritten, what a success owes is stored and not given up unheard without refusals, audits precede commits; the cart agrees with the server, rows stay; a session has a token and a sign-out lasts but for a kill before the slice was written, the disabled button is explained |
| `audit_forks` | 3 events, 2 consumers, 1 crash, cleanup, fairness | branches no wider than the consumers, no event dropped, copies only after crashes, every event ends recorded or in the error queue |
| `browsers` | tokens: 2 tabs, 3 calls, 2 expiries, 1 login, 1 lost refresh; table: 7 rows, page sizes 1 and 2, 3 history entries; lists: 1 browser, 2 GETs, 1 change; admin: 1 page call, 3 logins; fairness | one refresh per tab, the session kept while refreshes do not meet, every call ends; the URL restores the filters, the buttons are sound, a page out of range does not stay; own changes are shown, stale lists leave; the admin's copies are of the last login |

Runs that show a disagreement, each of one property (see 5): `outbox_starvation`
(`StoredEventsSettle`), `outbox_unsaved` (`RetriesEnd`), `unit_of_work_atomicity`
(`PriceChangesAreAnnounced`), `audit_branches` (`ChainIsLinear`), `token_two_tabs`
(`NeverLoggedOut`), `offline_reconnect` (`ReconnectSyncs`), `admin_sign_out`
(`SignOutSticks`).

Bounds, and why they are enough. Two replicas or consumers are the least that
interfere; events of the outbox do not interact except through the window, for
which three events and a batch of two or three suffice, and through a shared save,
for which two do. One lost batch, crash, kill or fault can fall anywhere. A third
event lets the trail have a branch beside a chain and an event that is late for
both. Two attempts are what a repeated command needs, and two updates of which one
asks for the price already stored cover both outcomes of the comparison. For the
delivery a price change of the update that is sent again and a single's event are
followed: one is the second of two rows, the other the only one; `MinAttempts` is 1
there, since the contract does not depend on its value (`Outbox` has 3). Of the
account's requests there are two where two of a kind can race for one thing (a name,
a mailed token) and one of each other kind. Two calls in one tab queue behind each
other and a third, in the other tab, races them; a second expiry makes a replayed
call fail. Seven rows, one to a page, are the least for which all four shapes of
the page buttons appear, and three history entries have one behind and one ahead.
Two GETs overtake each other, and one change makes a list stale. Two operations
make a sync go on after a failure and one operation wait for the next; two cart calls
overtake each other. Of two requests for one clear (`MaxSends`) the first can be given
up and served after the second was marked. `MaxLostAcks` bounds the requests the phone
gives up although the server has them. Three logins let a call
of the first meet the third. The theorems remove these bounds for the properties
they cover. Symmetry is used in `rows` only, which has no liveness.

Deadlock is checked where the system never stops (the outbox polls for ever and the
phone can go on- and offline: `queues_settle`, `outbox_starvation`,
`outbox_unsaved`); in the other runs the model, or one of its parts, stops when all
commands, events, requests or calls are done.

Fairness. Replicas: the hosted service loops with a ten-second delay and catches
every exception, so a replica keeps taking steps, and a batch is a bounded loop;
time passes, so back-offs elapse and cached entries age. Consumers: MassTransit
keeps delivering, and `Consume` ends. Calls: the client's promise code runs on and
the server answers or the call fails; the same for each step of a sync, for the
middleware's second statement and for a hook's count and listener. The page
correction is an effect that React runs after the render that made it due. Storing
events, crashes, losses, logins, expiries, cleanups, changes and whatever a user
does are never assumed to happen. No run assumes that a publish or a request
succeeds.

## 4. Proofs

All are for every value of the constants that satisfies the named assumptions
(`OutboxAssumption`, `UnitOfWorkAssumption`, `DeliveryAssumption`, `AuditAssumption`, `TokenAssumption`,
`QueueAssumption`, `SessionAssumption`, `CartAssumption`, `TableAssumption`,
`AdminAssumption`, `ListsAssumption`, `AccountsAssumption`: types of the constants,
finitely many replicas, consumers and operations, a batch of at least one, a quantity
of at least one).

**Outbox.** `TypeCorrect`, `RowsJustified`, `CleanRows`, `GivenUpLate`,
`OutboxImplementsContract`. `CleanRowsWereDelivered` is not inductive: a row's
columns come from several replicas' copies, written at different times. `IInv` adds
`Loaded` (a copy not reached yet is as loaded, and was open and due),
`JustifiedRows` (what a row's columns say is backed by deliveries and failures) and
`JustifiedCopies` (the same of what each replica loaded; what a copy can have become
since; and: an error that has vanished from the row since it was loaded vanished
because of a delivery). The last is the key: saving a copy that leaves `Error` alone
must not combine somebody's cleared error with this replica's dead letter.
`MergeJustified` proves that a column-wise write keeps a row justified; the step
lemma follows it per action. For the refinement, `Unresolved`, polls, saves that are
lost and back-offs are stutters; a save settles the rows it marks, backed by
`JustifiedRows'`.

`DeliveriesBounded` (`DuplicatesAccounted`, any number of replicas) counts sets: as
long as a row is open, its deliveries are at most the unrecorded ones plus the
replicas that hold a success they have not saved; once it is processed, the replicas
that still have it to reach count as well. `BalanceKept` and `TurnKept` are the
arithmetic of one delivery, `SaveKept` and `LossKept` of the end of a batch.

`OneReplicaNeverLate` (`AttemptsOnlyDueRows`) and `OneReplicaRetriesEnd` assume one
replica, no cleanup and a database that takes the entity's dates: then a copy is
current until it is saved (`CurrentNext`), and every refusal has been spent from the
row's retries or from a lost batch (`SpendingNext`). Without the third assumption
`RetriesEnd` is false, which is finding 2.

Two findings hold in general. `CrowdedOutForGood`, `CrowdedOutNeverSettles` (finding 1):
with any number of replicas and any batch size, and no cleanup, an event stored behind
`BatchSize` others that no replica holds is never attempted nor settled; the rows before
it only grow in number (`CrowdGrows`), so it is never among the `BatchSize` oldest
(`CrowdedOutUnread`). `RefusedDatesRecordNothing` (finding 2): where the database takes
none of the entity's dates, every row stays as it was inserted.

**Unit of work.** `UnitTypes`, `SinglesAtomic`, `NoFalseAnnouncement`,
`SuccessAnnounces`, `AuditsBeforeCommit`, all from `UInv`: an attempt is `Pending`
(nothing of it in the database, all its events still held, audits counted),
`Halfway` (an update between its two commits) or `Stored`, according to its `pc`, and
later attempts have left no trace; a pending single is `moot` exactly when it holds no
change. `QuietStep` and `OthersStay` carry what a step
leaves alone; `CommitEventStep` goes through the three ways to commit.

**Delivery.** `BothKeepTheirs` is the composition: `DeliverySpec` implies `Spec` of the
unit of work and `Spec` of the contract, for which every step of the commands must be an
`Accept` or a stutter: no step stores two rows (`OneRowAtMost`) or removes one.
`DeliveryTyped`, `NothingUnwrittenHeard` (`HeardWasWritten`) and `SuccessHeard`
(`SuccessIsHeard`) follow from `Kept` (what was sent is stored; what is settled was sent
or refused `MinAttempts` times) and from `UInv`, which holds as the unit of work goes on
undisturbed.

**Audit trail.** `TrailTypes`, `NoEventDropped`, `SerialChainIsLinear`,
`CopiesAfterCrashes`, `BranchesBounded`. That a newest row exists is itself an
invariant (`NewestExists`: every non-empty set of rows of the table has one, so
whatever the cleanup leaves does). `NoEventDropped` needs that a message about to be
acknowledged has its row. `SerialChainIsLinear` assumes at most one consumer; what
that consumer has read is still the newest row when it inserts (`UpToDate`).
`CopiesAfterCrashes` counts copies against crashes; what makes it inductive is
`OnePlace`: a message is in the queue or with exactly one consumer. `BranchesBounded`
adds to the children of a row the consumers about to insert one (`Narrow`), and a
newest row has no child yet (`NewestChildless`).

**Accounts.** `AccountTyped`, `NobodyUndoes` (`NothingUndone`), `TokensResetOnce`,
`OneRegistration` (`RoleAccounted`), from `AInv`. The copies that requests hold are of
different times, so what a save writes seems to depend on all of them; `StampsTell`
says why it does not: a stamp never goes back, and *a copy whose stamp is the row's is
the row*. `SavedFirst` ties the columns to the requests that saved them, `TokensSpent`
says that the password a token was made from does not come back, `Creator` that one
registration has inserted the row. `RequestsActAtOnce` is the refinement of
`AccountContract`, with `Presented` (what a loaded request was admitted for) added:
`InsertRegisters` and `SaveTakesEffect` map the two steps that write,
`Unpromised` all others. `ContractSpendsOnce` is about the contract alone: what has
been spent is current no more and does not come back (`Past`), so no pair is exchanged
twice; `PairsExchangedOnce` carries it back to `Accounts`.

**Token refresh.** `TokenTypes`, `OneRefresh`, `SessionLasts` (`SessionKept`),
`OneTabStaysIn`. `OneRefreshPerTab` counts a set; `Alone` and `FlagExplained` say the
same of single calls and are preserved by every step; leaving a tab is a lemma three
actions share. `SessionLasts` needs, as long as nothing has disturbed the session,
that one call refreshes and that the pair it has sent, then received, is the one the
server will accept (`Lasting`). `OneTabStaysIn` says how far finding 5 reaches: with a
single tab two refreshes cannot meet, and `NeverLoggedOut` holds.

**Offline queue.** `QueueTyped`, `NothingLost` (`NothingVanishes`),
`RepeatsInterrupted`, `QueueImplementsContract`, from `QInv`: the shape of a sync
(`SyncShape`), what rows tell of the server (`RowsTell`), and that what was applied or
may yet be is paid for by interruptions (`CopiesCounted`). That the first row of a
snapshot exists is `FirstExists`, the minimum of a finite set of ids. For the
refinement, inserting is `Enter`, the server's step `Deliver`, a request given up
`GiveUp` (of an operation that is held, `CurrentHeld`), its late service `DeliverLate`,
a mark `Leave`; the rest stutters, and no application does.
`SyncsAreShort` (`SyncsShrink`) is the safety half of `SyncsEnd`: each step of a sync
leaves it fewer steps, of at most 2n + 2 for n operations, whatever fails and whatever
is queued meanwhile, so that fairness of its steps is all that is left to ask.
`OnlyMountingNotices` (`UnnoticedUntilMount`) says how far finding 6 reaches: what no
hook has counted is sent by no change of the connection and by no button, only after
another screen has been mounted.

**Mobile session.** `SessionTyped`, `TokenBehindSession`, `SignOutIsFinal`,
`ButtonExplained`, from `SInv`: where a login writes a later key it has written the
token (`TokenWritten`), a logout has removed the keys before the one it is at and a
clean one all (`LeavesClean`), nothing is under way unless the flags say so
(`AllQuiet`). Sign-outs that are complete leave no key; a session or a profile is there
after one only if a restart found it in a slice written before (`revived`).

**Mobile cart.** `CartTyped`, `ScreenAgrees` (`SequentialAgreement`), `RowsStay`
(`SafeRowsStay`), from `CInv`, in three parts. Types: a call names a row that has been
created (`Created`, `Asked`). Rows that stay: a call to remove a row, or all of them,
or a clear that is held or was given up (`ClearComing`), leaves no row it can delete
called safe, wherever the call is, also when nobody waits for it any more
(`SafeFromCalls`, `SafeFromClears`).
Agreement: while the session is undisturbed at most one call is out (`OneByOne`) and,
once it is served, the cart the slice will have is the server's table
(`Agreement`); before, it is the table now.

**Table and page buttons.** `ButtonsNeverLie` is about the operator alone, for every
page and number of pages: `ButtonShapes` gives the four forms, each is a few lines of
arithmetic. `TableTyped`, `FiltersRestored` and `ButtonsAlwaysSound` hold in every reachable
state of the table.

**Admin session.** `AdminTyped`, `SessionsNeverMix`, `OldProfileReplaced`
(`OldProfileLeaves`), for any number of calls and logins. `UInv` is inductive with
the types: a restart of the page and a mount of the menu, which several actions
share, are lemmas. `SignOutIsForTheStore` (`SignOutClears`) is the half of a sign-out
that works, beside finding 7: the auth store and its cookie stay empty until the next
login, whatever late answers, refused refreshes and reloads do.

**Product lists.** `ListsTyped`, `OwnChangesSeen` (`OwnChangesShown`), from `LInv`: a
GET that is awaited is awaited by one browser and was sent after the last change that
browser knows of, or is the browser's first (`OneAsker`: its hook cancels the earlier
ones but that), and a GET that read
the table found every change its sender knew of (`ReadsKnow`).

**Side by side.** `RowsTyped`, `CommandsTyped` and `BrowsersTyped` are the type
invariants of the runs of several components, from the types of each part and the
theorem that the composition is a behaviour of each.

Only model-checked: the liveness properties (`StoredEventsSettle`,
`BrokenEventsRest`, `EventsEndRecorded`, `CallsEnd`, `SyncsEnd`, `PageSettles`,
`StaleListsLeave`), for liveness under fairness and ENABLED are beyond the proof
system used. Every invariant of a run, and the three refinements, are
theorems. Proved and in no run: `AttemptsOnlyDueRows`, `CrowdedOutStays`,
`NothingRecorded`, `AnnouncedPricesWereWritten`, `SuccessMeansAnnounced` (which
`HeardWasWritten` and `SuccessIsHeard` rest on), `NothingVanishes`, `SyncsShrink`,
`OldProfileLeaves`, `SignOutClears`, `ResetOnce` and `SpentOnce`.
What a recursive definition computes for all
inputs, and RECURSIVE operators, cannot be proved about either; the modules declare no
RECURSIVE operator.

## 5. Findings

1. **Starvation of new events.** The poll takes the 20 oldest rows, processed or
   not, and nothing deletes processed rows: once 20 rows exist, later events are
   never loaded (`outbox_starvation`; for any batch size, `CrowdedOutNeverSettles`).
2. **No batch is ever saved on PostgreSQL.** The entity's dates have no Kind and the
   provider refuses them; every poll publishes the same events again
   (`outbox_unsaved`; `RefusedDatesRecordNothing`).
3. **The outbox is not transactional for commands with two events.** Each event
   commits on its own; a failure between the two leaves a new price that is never
   announced, even when the command is sent again (`unit_of_work_atomicity`). For
   commands with one event it is transactional (`SinglesAtomic`).
4. **The audit chain forks** when two messages are consumed at once
   (`audit_branches`), which nothing prevents.
5. **Two tabs log each other out** when both refresh with the one refresh token
   (`token_two_tabs`).
6. **Reconnecting does not always sync.** The listener decides by a count read
   earlier; what was queued since stays (`offline_reconnect`) until another screen is
   mounted (`OnlyMountingNotices`).
7. **Signing out of the admin does not sign out.** The dialog resets the store and
   its cookies; the pair in localStorage stays and lets the user in
   (`admin_sign_out`).

Observations without a run of their own. Nothing removes the product list from Redis
when a product changes, though `docs/docs/adr/002-caching-strategy.md:23` says the
entries are evicted: the tags belong to the output cache, which holds nothing. The
model shows what remains: a stale list leaves when its lifetime is over
(`StaleListsLeave`). Login and refresh do not look at the result of `UpdateAsync`, so a
client can be given a pair that was never saved: the next refresh is refused.
A command that is repeated, or sets the values a row has, stores and publishes its
event though nothing changed (`moot`). A clear of the cart that the phone gave up can
be served after it was sent again and marked, and empties a cart filled since: the
rows `SafeRowsStay` speaks of are those created when no such request was abroad. A
change made while the list of products is loading for the first time does not show
until the list is fetched again for another reason. A phone killed between the end of
a sign-out and redux-persist's next write starts signed in, without a token, or with
the old profile (`revived`). Of
three hubs `Program.cs:150` maps one, and the mobile hook opens all three with one
`Promise.all` (`useSignalRConnection.ts:111`), so it never connects.

## 6. Assumptions

Besides those in 2: EF Core writes the columns that changed; ASP.NET Identity
compares concurrency stamps and refuses a second user of one name; the bus delivers
a message until it is acknowledged; SHA-256 is injective; clocks do not go back;
the script of a page ends with the page; a statement of SQLite takes effect or not;
redux-persist writes whole slices, of any age but in order, and React Query 5 cancels a
fetch on invalidation only when the query has data.

## 7. Not modelled

- The content of events (serialized with the static type of the base class), their
  types beyond "can be restored or not", log texts, HTTP status mapping. The store's
  own `MarkAs...` methods, which only tests call, do what the entity's do.
- Queries, validators, mapping and specifications: read-only or pure conversions.
- Push tokens, feature flags, `CacheService`, resilience policies and the web client's
  SignalR service: nothing in the program calls them, so a model of how they are used
  would be invented.
- Hubs: fire-and-forget sends; group membership is SignalR's.
- Gateway, hosting, authentication set-up, infrastructure code: configuration.
- Details and searches of products, forms, layouts, charts: they render or forward.

The map covers a small share of the implementation's lines, and that share cannot
grow much without inventing state. Most of the lines are generated API clients
(`infrastructure/api/**`), a generated route tree, a library of presentation
components (`components/ui/**`), screens, data shapes and set-up: they hold no state
that a step of another actor can change. What decides, stores or retries is
modelled.

## 8. What is left

The outbox behind `Delivery` with the audit trail behind the bus, so that what a
consumer records can be followed back to the commit that caused it; two devices that
share the table of carts; contracts for the sessions of the web and admin clients, of
which `TokenRefresh` and `AdminSession` would be refinements.
