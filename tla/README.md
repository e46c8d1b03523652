# CloudScale Commerce in TLA+

Formal models of CloudScale Commerce: of its transactional core, what happens to
stock, orders, payments and events when requests, event handlers, sweepers,
relays and processes run at the same time, fail and start again; and of its
React client, what becomes of a session, a cart, a live feed and the pages when
answers, timers, clicks and reloads come in any order.

## 1. The system

Six FastAPI services (`services/`), a shared Python library
(`shared/python/cloudscale_shared`) and a React client (`frontend/`). Services
do not call each other. They exchange events through Kafka: a handler writes
its events to its own database's outbox with its other changes, a relay
publishes them, and the consumer of another service handles them behind an
inbox table.

| Component | State | Operations | Interacts through | Hard behaviour | What makes it correct |
|---|---|---|---|---|---|
| Inventory service | one row per product: available, reserved, version; Redis lock keys | `restock`, `reserve_batch`, `_handle_order_created`, `_handle_release_stock` | HTTP, order and payment events | locks released before commit, lock expiry, optimistic conflicts, half-done carts, crashes | no unit lost or invented; carts reserved whole or not at all |
| Order saga | `orders.status` (no version column) | four event handlers, `sweep_stale_sagas` | inventory and payment events; writes `OrderCancelledEvent` | lost updates between handlers and sweeper, reordered and repeated events, timeout against late answers | one outcome per order, paid before confirmed, compensated when cancelled, settled in the end |
| Order requests | orders, items | `create_order`, analytics | HTTP; writes `OrderCreatedEvent` | quota and idempotency checks race | one order per key, quota kept |
| Payment consumer | payments | `_process_payment` (simulated) | `InventoryReservedEvent` | duplicate delivery | one charge per order |
| Payment billing | subscriptions, invoices | plan changes, Stripe webhook | HTTP | repeated and reordered webhooks | one invoice per payment |
| Outbox | outbox rows | `write_outbox`, `OutboxWorker` | database, Kafka producer | replicas on the same rows, failing sends, crash before commit | marked implies published; nothing given up early |
| Inbox and Kafka consumer | inbox ids, committed offset, positions | `consume_loop`, `_handle_failure`, `inbox_already_processed`, `record_inbox` | Kafka, handlers | rebalances, redelivery, commits that raise | effects happen once; nothing skipped silently |
| Notification service | inbox ids | `send_order_confirmation` | `PaymentSuccessEvent` | mail sent before the commit | one mail per order |
| Auth | users, revoked tokens, lockout counters | login, refresh, logout | HTTP, Redis | check-then-set on tokens | a refresh token is used once |
| Resilience, idempotency, cache | breaker state, Redis keys, L1/L2 entries | decorators | every service | half-open breaker, GET then SET, stale refills | not modelled, see section 6 |
| Frontend transport | auth store, `isRefreshing`, `failedQueue`; socket, timers, notification store, toasts | axios interceptors, login, logout; connect, reconnect, notify | auth service, socket server, localStorage | concurrent 401s, lost rotations, failures that schedule two reconnects | one rotation at a time, usable stored pair, queue served; one socket, one notification per event |
| Frontend stores and forms | cart, coupon, draft, form; tenant and plan; recent searches | cart edits, autosave, checkout | inventory and order service, localStorage | timers and requests that outlive their page | no stale draft, one order per cart, the last choice of a plan wins |
| Frontend views | rows, filters, pages, selections, drawers, dialogs, analytics | fetch, search, sort, restock, import | HTTP, the stores | overlapping fetches, debounced input, rows that shrink | pages cover the result, actions act on what is shown, nothing loads for ever |
| Frontend shell | error counts, connection state, tour, flags | retry, mount and unmount overlays | the browser | remounts, listeners attached late, timers never cleared | the banner is truthful, the tour ends for good |

`PROJECT.json` lists every component with its sources, and under "hazards"
where the code is exposed to something a unit test would hardly reach.

## 2. The modules

Services:

    StockLedger  <--implemented by--  InventoryStock   (InventoryStockProofs)
         ^
         | its actions are the inventory steps of
    OrderSaga  --should follow-->  OrderLifecycle      (OrderSagaProofs)
         |
         | assumes of event delivery no more than
    OutboxRelay, EventConsumer                         (DeliveryProofs)

Client:

    ApiSession, LiveFeed                               (TransportProofs)
    Checkout, Workspace, Palette, Shell                (ShopProofs)
    RecordPages  --extends-->  DataTable               (RecordPagesProofs)
    Catalog                                            (CatalogProofs)

    PageFetch  <--extended by--  Workspace, RecordPages, Catalog
    Listing    <--used by--      Palette, DataTable, Catalog
    PageFetchProofs: lemmas about both, for the proofs of the pages

The parts of the client in one tab hardly share state: they meet in the page on
the screen and in stores that one of them owns. Each has a module of its own,
and a detail another module has is left to it, as its header says (the
notification of a placed order is LiveFeed's, the cart of the catalog page
Checkout's). `MCTransport` and `MCShop` check such modules side by side: each
moves while the others are in their initial states, so every behaviour of each
is checked, and no interleavings that could not make a difference.

### StockLedger
What the inventory service promises: `Reserve` a whole cart or nothing,
`Release` the lines that were reached, `Restock`, each at once. `supplied` is a
history variable with everything ever restocked.

### InventoryStock
The stock rows as the sessions really change them. A worker is a request or an
event handler with its SQLAlchemy session: the rows it has loaded (`base`),
what it has made of them in memory (`row`), and where its loop stands (`stage`,
`todo`, `at`).

| Action | Code |
|---|---|
| `BeginRestock`, `BeginReserveBatch`, `BeginOrderCreated`, `BeginRelease` | the routes and `handle_event` |
| `AcquireLock`, `LockFails`, `ExitLock`, `LockExpires` | `acquire_lock`: SET NX EX, the five-second timeout, the Lua release, the ten-second expiry |
| `RestockRow`, `ReserveRow`, `OutOfStock`, `TakeBackRow`, `ReleaseRow`, `BatchRow`, `BatchRejected` | the loop bodies |
| `Commit`, `Conflict` | the session's commit with `version_id_col`, `StaleDataError` and `reserve_batch`'s retries |
| `Crash` | a process that dies; its lock keys stay |

Flush and commit are one step: from the flush on, PostgreSQL holds the row
lock, so no other transaction can write the row in between. Several lines of
one product in a cart act on one row object, so a cart is a function from
products to quantities.

### OrderSaga and OrderLifecycle
`OrderSaga` composes the order, inventory and payment services. `sent` holds
every event any outbox has held; a consumer may handle any of them at any time,
repeatedly or never, so no assumption is made on order or delivery. The order
service's handlers and the sweeper are two steps each, a read (`ReadOrder`,
`ReadStale`) and a commit (`Handle...`, `CommitSweep`), because nothing keeps
the row from changing in between. Inventory steps are `StockLedger`'s actions,
which `InventoryStock` implements. The payment handler is one step, as it reads
no row that another handler writes. `Declined` are the orders whose items carry
`simulate_failure`. Any open order may be old enough for the sweeper: time is
not modelled.

`OrderLifecycle` is the state machine that the header of
`services/order/app/consumers.py` documents; `FollowsLifecycle` says that the
saga refines it, which it does without sweepers and declined payments.
`FollowsLifecycleUntilUndone` says it of every order, in any system, up to the
failed payment or the cancellation that gives its stock back.

### OutboxRelay
The outbox table and the `OutboxWorker` of every replica. A relay selects a
batch once (`SelectBatch`), sends its rows in `created_at` order (`Send`,
`SendFails`; a send that raises may have reached the broker), and writes
`processed` and `retry_count` back from its copies in one `Commit`; `Abort` is
a crash or a commit that raises. `created_at` is taken before the writing
transaction commits, so rows may appear out of its order.

### EventConsumer
One consumer group on one partition: the committed `offset`, the partition's
`owner`, and for each replica's `consume_loop` its position and phase.
`Join`, `Rebalance` and `Leave` model the group coordinator, `CheckInbox` and
`CommitHandler` the inbox around a handler's transaction, `RouteFailure`
`_handle_failure` with both of its sends, `CommitOffset`, `CommitRaises` and
`LoopEnds` the two calls of `consumer.commit()`. A handler that is running
when the partition moves runs on.

### ApiSession
One tab's session. A pair of tokens is a number. A call to the API is a slot
that goes from `idle` to `sent` and on to an answer, and the handling of the
answer is a step of its own, as other handlers run in between.

| Action | Code |
|---|---|
| `SendRequest`, `SubmitLogin`, `LeaveLogin` | pages behind `ProtectedRoute`; the login form's submit and unmount |
| `UserLogout` | `logout()`: the store is emptied in the same task, before axios runs the request interceptor of the post |
| `LoginAnswered`, `Succeeds`, `Rejected` | the response interceptor and the page that gets the result |
| `Enqueue`, `StartRefresh`, `NoRefreshToken` | its three ways to treat a 401 |
| `RefreshDone`, `RefreshFailed` | `setCredentials`, `processQueue`, the replay; `logout` |
| `Rotate`, `RotateFails`, `ServerAnswers`, `CallErrs`, `Expire` | the auth service and the network, as the tab meets them |
| `Reload` | module state is gone, the persisted store stays |

`MCApiSession` adds a history variable, `ended`: which session's pair each
logout post of the user's took out of the store. It changes no step of the
session, and serves `LogoutRevokes` only.

### LiveFeed
`ResilientWebSocket`, the notification store it feeds and the toasts. `Fails`
runs `handleCloseOrFailure` twice, for `onerror` and `onclose`; `Reconnect` is
the timer that nobody stops; `Opens`, `SocketCloses`, `Closes`, `Message` are
the browser's events. `Disconnect`, `MarkAsRead`, `MarkAllAsRead`, `ClearAll`
and `UpdatePreference` are called by no page, but they are public operations of
the client and the store, so they are actions. `ExpireToast` and `DismissToast`
remove a toast; `ToastItem`'s effect starts the timers of those that are left
anew.

### Checkout
Cart store, cart page, checkout page, the draft and the two requests of a
submission. A request outlives the page that sent it: `waits` is the submission
the mounted page waits for, all others are handled by functions of pages that
are gone. `Submit`, `ReserveEnds`, `OrderPlaced` and `OrderFails` are the parts
of `onSubmit` between its awaits, `Autosave` is the timer of `useFormAutosave`,
`Rerender` what restarts it.

### PageFetch, Workspace, DataTable, RecordPages, Catalog
`PageFetch` is the async function all fetching pages have: `loading`, an await,
an answer, `finally`. Fetches overlap and their answers come in any order;
`shown` and `stale` remember which version of the server's records the page
shows. `Workspace` adds the tenant store and its users: `SelectPlan` and
`Upgraded` are `handlePlanUpgrade` before and after its await, `SeedData` and
`Seeded` the panel's `handleSeedData`, `Mount` and `Navigate` what a page that
is left and opened again keeps. `DataTable` is the table component with its
derived values as operators (`Filtered`, `Sorted`, `SafePage`, `Paged`) and its
event handlers as actions; `RecordPages` puts it on the orders, users and
inventory pages, with `Refresh` and the restock dialog (`SelectItem`,
`Confirm`, `RestockDone`). A fourth kind of parent uses what the component
offers and these pages do not: selection, bulk actions, default ids.
`Catalog` has the product grid with its filters, `Change` and `SearchTimer` of
the debounced `SearchBox`, the quick view drawer, the wishlist and the bulk
import.

### Listing
JavaScript's `Array.prototype.filter` and `sort`, which every list of the client
goes through: the elements of a sequence at some of its indices, in the order of
a key, equal keys in their old order. The order is defined by how many indices
come before each, so that it can be reasoned about.

### Palette
The command palette, `fuzzyMatchScore` and `fuzzySearch` with scores as
integers, recent searches and the keyboard shortcuts. Terms are sequences of
letters of a small alphabet.

### Shell
`ErrorBoundary` around everything, `RetryBoundary` around the pages, the
overlays that App draws when their flag is on. React runs the effects of the
first render later (`RunEffects`), so flags, listeners and the tour's timer
come after it; `PageThrows` and `OverlayThrows` take mounted components away,
`HandleRetry`, `HandleRetryInPlace` and `HandleFullReload` bring them back.

## 3. What the runs show

Each passing run's properties have a mutant in `PROJECT.json`: a plausible bug
of the code, under which TLC finds the property violated.

| Run | Instance | Result |
|---|---|---|
| `inventory_stock` | 2 products, 2 fair workers, a cart over both, 2 attempts | `StockSound`; the sessions implement `StockLedger` (`AtomicStock`) and end (`SessionsEnd`) |
| `order_saga` | 2 orders, 1 unit, one payment declined, 2 consumer tasks, 1 fair sweeper, nothing else fair | `OutcomesExclusive`, `ConfirmedIsPaid`, `CancelledIsCompensated`, `UnitsAccounted`, `ConfirmedUndoneOnlyBySweep`, `FollowsLifecycleUntilUndone`, `EveryOrderSettles` |
| `order_saga_quiet` | no sweeper, no declined payment | `FollowsLifecycle`, `ConsistentWhenQuiet` |
| `outbox_relay` | 2 rows, 2 fair relays, batches of one row, 2 retries | `ProcessedIsPublished`, `AbandonedOnlyAfterRetries`, `PublishedOrAbandoned` |
| `event_consumer` | 2 fair replicas, 3 deliveries of 2 events, 2 faults | `EffectOnce`, `NothingSkipped`, `OffsetNeverGoesBack`, `ConsumedOrStopped` |
| `transport` | session: 2 page requests, a login, a logout post, 2 pairs. Feed: 2 sockets, an event of the server and one of a page, 2 attempts, 2 timers, 2 loads | `RotatesOnce`, `StoredPairUsable`, `WaitersHaveRefresh`; `OneSocket`, `ReconnectPending`, `FeedSettles` |
| `shop` | checkout: 1 product, quantities to 2, 2 submissions, 2 changes. Workspace: 2 tenants, 2 upgrades, 2 fetches. Palette: 3 commands, queries of 2 of 3 letters. Shell: 3 retries, 3 steps, 2 timers | `DraftFollowsForm`, `OneOrderPerCart`; `PlanAsChosen`, `FiguresOfTenant`; `ResultsRanked` (`ListedMatches`, `ContainingFirst`), `HighlightListed`; `BannerTruthful`, `TourEndsForGood` |
| `record_pages` | 2 rows, pages of 1 or 2, 1 search term, 2 fetches, 2 changes | `TypeOK`, `PagesCoverResult`, `BulkActsOnTicked`, `AnnouncedIsShown` |
| `catalog` | 2 products, 2 categories, terms of 2 keys, 2 fetches, 1 import | `TypeOK`, `SearchAsTyped`, `ImportShown` |

Type invariants are proved for every module that models code; the runs check
those of `RecordPages` and `Catalog` as well, because they also say that no order
of overlapping fetches and posts leaves a flag set behind them.
`VersionAdvances`, `NotifiedOnce`, `ClearedIsOrdered`, `OneUpgradeHere` and
`ConsistentUntilUndone` are proved, for every instance, and not checked again.

Three runs end in a violation: there the code does something else than a
comment, a test or a document of the repository says.

| Run | What happens | What was said |
|---|---|---|
| `api_session_logout` | a user logs in and out: the logout post carries no token, because the store is empty when the interceptor reads it, and once it is answered the session's access token is still valid | `frontend/docs/architecture.md`: logout revokes the token |
| `order_saga_confirmed` | the sweeper cancels an order that was confirmed after it read it | `test_saga_timeout.py`: confirmed orders are never touched |
| `outbox_relay_delivery` | an outage of `max_retries` sends loses an event | `outbox.py`: at-least-once delivery |

Some properties have to name an exception, which is where the code stops
keeping them:

- `UnitsAccounted` says that no unit is lost or invented, not that a release
  takes only the order's own stock. The sweeper compensates orders that never
  had stock reserved (`order/app/consumers.py:288`), and a declined payment is
  compensated by `PaymentFailedEvent` and again by `OrderCancelledEvent`
  (`inventory/app/consumers.py:84`); both release stock that another order
  holds. `ConsistentWhenQuiet` therefore needs a configuration without sweeper
  and declined payments, and without lock timeouts: a release that does not get
  its lock is logged and recorded as processed, and its stock stays reserved.
- `ConsumedOrStopped`: two offset commits that raise in a row end the consume
  loop in a process that lives on (`events.py:199`).
- `WaitersHaveRefresh`: in a tab where a 401 has found no refresh token (a wrong
  password is enough, and so is a logout, whose post is refused) `isRefreshing`
  stays set; the next 401 waits until the tab is loaded anew (`stranded`).
- `OneSocket`, `ReconnectPending`, `NotifiedOnce` hold until `disconnect()` is
  called: a late close event of the old socket takes the reference to a new one
  away.
- `OneOrderPerCart`: a cart whose order was placed without a page showing it
  (`unseen`) is still full and can be ordered again.
- `PlanAsChosen` and `FiguresOfTenant` name seeding over a waiting upgrade and a
  tenant switched under the dashboard; `AnnouncedIsShown` and `ImportShown` an
  answer that a later fetch had overtaken (`stale`); `BulkActsOnTicked` default
  ids in a sorted or filtered table; `HighlightListed` a recalled search;
  `BannerTruthful` a change before the listeners were attached (`missed`).
- `SearchAsTyped`: Reset Filters empties the search (`Catalog.tsx:255`) but does
  not stop the search box's timer (`SearchBox.tsx:32`). When that goes off it
  undoes the reset. The property allows this one outcome, that the term in force
  is the one whose timer the reset left running (`leftRunning`), until the box
  is used, cleared or reset again. It says nothing once a key was pressed while
  the box did not show what had been typed (`hasty`): the box is controlled by
  the term in force, so what was typed before its timer went off is dropped.

An exception is not a claim that the code is right there. The hazards in
`PROJECT.json` say for each which outcome a property checks and which one the
code simply has.

### Bounds
Two workers, relays, replicas or consumer tasks are what a race takes, and two
products what a half-done cart takes. One unit for two orders makes a
reservation fail, and a release meet the stock of the other order.
`MaxVersion` (InventoryStock) stops new requests, not running ones, after two
committed changes of a row. `MaxRetries = 2` lets a retry succeed and fail.
`MaxLog` and `MaxFaults` (EventConsumer) allow a duplicate behind the original
and two faults in a row, which is what the loop's end takes. `attempts`
(OutboxRelay) stops counting at `MaxRetries`, where the property stops looking.
The code's own values are `max_retries` 3 (reserve_batch), 5 (outbox) and 3
(consumer); the theorems hold for any.

In the client, two requests are what meets in the refresh queue, and two pairs a
rotation between them; a login and a logout interfere. `MaxTimers = 2` is one
failure's worth of reconnect timers, and two sockets let a late close of one
meet the other; the code's five attempts are two here. Two submissions, two
upgrades or two fetches are what can overtake each other. Two rows on pages of
one leave `page` behind the last page when a search or an answer drops one.
Three commands over three letters hold one that contains a query, one that has
its letters scattered and one without; `Scale` makes all scores integers. The
shell's numbers of retries, errors and steps are the code's; `MaxHides` is two
notices of a restored connection at once. `MaxChanges`, `MaxFetches`,
`MaxVersion`, `MaxTyped` and `MaxLoads` bound what users and servers do, and
stop nothing that is under way.

In `outbox_relay`, with batches of one row, a row that cannot be sent stands in
the way of the next, which is the case the liveness property is about; batches
of any size are covered by the proofs of the safety properties. Symmetry is not
used, since most runs check liveness.

Deadlock checking is off everywhere: each system may come to rest when the
bounded number of requests, orders or events is used up.

### Fairness
- `InventoryStock!FairSpec`: a running handler takes its next step. `LockFails`
  is such a step because the polling loop has a deadline.
- `OrderSaga!SweeperFairness`: `_saga_sweeper_loop` catches every exception and
  comes round again (weak fairness of the read), and a commit that is tried
  again and again succeeds in the end (strong fairness). Handlers and delivery
  get no fairness.
- `OutboxRelay!RelayFairness`: `_poll_loop` catches every exception, and
  every send returns or raises. Sessions are lost only finitely often
  (`StaysUp`). `BrokerFairness`, used in the violation run only, says that no
  outage of Kafka is endless.
- `EventConsumer!ConsumerFairness`: loops run, an unowned partition is assigned
  if there is a consumer, dead processes are restarted. A loop that has ended
  is not restarted, because no code does.
- `LiveFeed!FeedFairness`: reconnect timers fire, and the browser ends every
  attempt to connect, one way or the other.

The other modules of the client state no fairness: their requests end, for axios
gives up after ten seconds (`api-client.ts`), but every flag that waits for one
is reset in the step that ends it, which the invariants say more sharply.

Users and faults get no fairness anywhere.

## 4. What is proved

Every safety property that a passing run checks is a theorem, for any number of
products, orders, workers, sweepers, rows, relays, replicas, calls, sockets,
submissions, tenants, commands and records, any lengths of carts, pages and
queries, and any retry limit. The assumptions on constants are the named ASSUMEs
of each module: types, that a "nobody" value is none of the others, and for the
pages that records are finitely many and sorted by integers (`RowsAssumption`,
`CatalogAssumption`), that a list holds each row object once (`ListsAssumption`),
and that the palette has commands (`PaletteAssumption`).
Only `QuietLifecycle` and `QuietConsistency` assume more, and say so.

- **InventoryStockProofs.** `IndInv` adds to `StockSound` that every open
  session holds rows the table has had (`SnapshotOK`: same version, same row)
  changed by exactly the lines its loop has treated (`LineOK`). `StockSound`
  alone is not inductive, as it says nothing of what a commit will write.
  From it: `TypeCorrect`, `StockIsSound`, `VersionsAdvance`, and `Refinement`,
  that a commit is one `StockLedger` action or changes no stock, and every
  other step a stutter.
- **OrderSagaProofs.** `SagaInv` ties each status, and each status a handler
  has read, to the events that must exist (`StatusBacked`, `TaskBacked`), and
  each event to the inbox of the handler that wrote it (`EventsBacked`). From
  it: `OneOutcome`, `ConfirmedOrdersArePaid`, `CancelledOrdersAreCompensated`,
  `SagaKeepsUnits`, `OnlySweepsUndo`. The last rests on this: a handler that
  read a status before CONFIRMED can only still commit if its event is not in
  the inbox, but CONFIRMED implies that InventoryReserved is, and that no
  failure event exists.
  `UndisturbedInv` adds what holds of an order until it is undone, that is, until
  its payment fails or it is cancelled. `ReadIsCurrent`: a status that makes a
  handler move an order is still the order's when the handler commits, although
  nothing locks the row. Each of the three events left either excludes the
  others (`EventsExclude`) or acts on a status that the other's inbox row has
  yet to bring about. `ReservationShown`: a reservation the order service has
  taken in shows in the status. `StockHeld`: the reserved stock is the demand of
  the orders it was reserved for. From it, for every instance:
  `UndisturbedLifecycle`, that such an order follows the documented state
  machine whatever happens to the others, and `ConsistentUntilCompensated`. In
  a system without sweepers and declined payments no order is ever undone
  (`NothingUndone`), so there the saga implements `OrderLifecycle`
  (`QuietLifecycle`), and stock and orders agree whenever all events are
  processed (`QuietConsistency`). The demand, a fold that takes the orders in an
  arbitrary order, is shown to count their units one by one (`DemandCounts`),
  which is what makes it grow by an order's quantity.
- **DeliveryProofs.** For the relay, `RelayInv` adds what a relay's copies say of
  the rows (`SessionsSound`): a row whose retry count a session will write has
  failed at least that often. From it: `RelayTypeCorrect`,
  `ProcessedRowsArePublished`, `RowsAbandonedLate`. For the consumer,
  `ConsumerInv` says of each consumer's position what `NothingSkipped` says of
  the offset (`PositionsSound`), that the owner is never behind the offset
  (`OwnerAhead`) and that an event's effects are its inbox row
  (`InboxCountsEffects`). From it: `EffectsHappenOnce`, `NoSilentLoss`,
  `OffsetsAdvance`.
- **TransportProofs.** `SessionInv` adds that a pair in an answer nobody has
  handled has never been used by anyone (`AnswersFresh`), and that whoever
  refreshes holds the flag (`RefreshersSound`). Without the first, a rotation
  could store a spent pair; without the second, a second refresh could start.
  From it: `RotationsAreSingle`, `StoredPairStaysUsable`, `QueueIsServed`.
  `FeedInv` adds that only `disconnect()` leaves a socket closing
  (`NoneClosing`) and that an event on the wire is not yet in the list
  (`NoticesSound`). From it: `SocketIsSingle`, `ReconnectIsPending`,
  `EventsNotifiedOnce`.
- **ShopProofs.**
  - Checkout: `CheckoutInv` adds `SubmissionsSound`: a submission under way is
    the page's or unseen, its lines are the cart while the cart has not changed,
    and an order that a page has shown belongs to an older cart. From it:
    `DraftIsSound`, `CartIsOrderedOnce`, `OnlyOrderedCleared`.
  - Workspace: `WorkspaceInv` adds that the newest waiting upgrade is the plan
    chosen last (`NewestIsChosen`), since upgrades end in the order they were
    started, and that the dashboard's requests went out for the active tenant
    (`RequestsOfTenant`). From it: `UpgradesAreSingle`, `LastChoiceWins`,
    `FiguresAreOwn`.
  - Palette: the state part is `HighlightIsListed`. `ResultsAreRanked` is about
    the algorithm, for any alphabet, commands and query: the one pass over the
    name that takes each letter of the query as soon as it can has, after n
    letters of the name, placed as many letters of the query as any placement
    could (`ScanFinds`, with `FoundMore` and `FoundLess` for a letter that is
    and is not taken), so it fails only where the letters do not occur in their
    order; and the score of a name that contains the query is above 8/10 of
    `Scale`, which the score of scattered letters cannot exceed (`Scored`). The
    sort then ranks them (`Ranked`).
  - Shell: `ShellInv` adds that flags only take overlays away (`FlagsOnlyHide`),
    that nothing has failed before the first effects (`NothingBeforeEffects`),
    that the last error that is counted is the one on the screen
    (`ErrorsCounted`) and that the tour's timer runs with the tour mounted and
    not ended (`TimerOfTour`). From it: `BannerIsTruthful`, `TourIsShownOnce`.
  - `TypesSideBySide` is the type invariant of the four in one tab, as `MCShop`
    composes them.
- **RecordPagesProofs.** `RecordsInv` adds that a list holds a record once
  (`RowsOnce`), which restocks may be under way (`RestocksSound`) and that an
  announced restock is shown or in a fetch to come (`RestockComing`). From it:
  `PagesAreTheResult` (with `PagesFlatten`: the slices of a list, none empty
  but a single one, are the list again when put together),
  `TickedRowsAreGiven`, `RestockIsShown`.
- **CatalogProofs.** `CatalogInv` adds that a timer holds the term typed last or
  the one a reset took away (`TimerAsTyped`), and that an announced
  import is shown or in a fetch to come (`ImportComing`). From it:
  `SearchIsAsTyped`, `ImportIsShown`.
- **PageFetchProofs** holds lemmas the pages' proofs share: that filter and sort
  keep each element once and in order (`Places`, `Ordered`, `ArrangedElements`),
  that a fold over a finite set is a function that exists (`FoldsExist`), and
  what each step of a fetch does to those under way (`Started` to `Changed`).

The library's induction rules take an operator as a parameter, which the provers
cannot instantiate. Induction is therefore stated for sets (`Induction`: a set
with 0 that is closed under successor contains Nat; `SubsetInduction`, over the
subsets of a finite set), and derived from the well-foundedness of the naturals.

Only model-checked: the liveness properties `SessionsEnd`, `EveryOrderSettles`,
`PublishedOrAbandoned`, `ConsumedOrStopped` and `FeedSettles`, since fairness is
beyond the proof system. The three violations are counterexamples and need no
proof.

## 5. What is left out

- The consumers of three services are started with `db_manager._sessionmaker`
  (`order/app/consumers.py:61` and its siblings), an attribute the session
  manager does not have; the services log the failure and run without
  consumers. The models describe the handlers as the tests run them.
- Time: a timeout may happen whenever it could; durations are not compared.
- Real Stripe payments: the code raises `NotImplementedError`.
- Prices, totals, HTTP validation, logging, metrics and tracing; tenants but for
  the client's choice of one.
- The order service's schema asks for `unit_price` and an idempotency key
  (`order/app/schemas.py:8`), which the checkout page does not send. `OrderFails`
  covers the refusal; `OrderPlaced` is the answer the page is written for.
- Several tabs: stores are persisted, and each tab overwrites what another has
  written. One tab is modelled.
- In the client: personas, charts, audit log, landing and admin pages,
  translations, error wording, telemetry, the service worker; `VirtualDataTable`
  with `useVirtualizer`, which nothing imports; the flags and kill switches that
  nothing reads.
- The status CANCELLING and `transition_status`, which nothing uses.
- The components marked not_modelled in `PROJECT.json`.

## 6. Plan

Done: the modules above, with runs, and proofs of the safety of all of them. Next:

1. `OrderIntake`: `create_order` with quota, idempotency key and concurrent
   requests; `Idempotency`: the Redis manager against "one response per key".
2. `CircuitBreaker`: breaker, retries and bulkhead around a dependency that
   fails and recovers; abstract specification: closed, open, probing.
3. `CacheAside`: both levels, single flight, invalidation; bounded staleness.
4. `AuthTokens`: rotation by several tabs, lockout and rate limits.
5. `Billing`: subscriptions and invoices under repeated, reordered webhooks.
6. `Notification`: the mail before the commit, as an instance of EventConsumer.
7. Theorems: that EventConsumer with OutboxRelay implements the delivery
   OrderSaga assumes.
