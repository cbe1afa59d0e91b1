# NODO: models of orders, carts, catalogues and subscriptions

NODO (the repository *suppliers-frontend*) is a B2B purchasing system for computer shops. Retailers search the
catalogs of some twenty distributors in one place, fill a cart that their whole team shares, check the cart out at
each distributor's own portal, hold orders for somebody to approve, and sell to each other through *storefronts*.
It is a NestJS API over PostgreSQL (`apps/api`), a Next.js web application (`apps/web`) and a shared package
(`packages/shared`).

This directory holds TLA+ models of the parts where orders, units, products or events can be lost, repeated or
contradicted by another system, the TLC configurations that check them, and TLAPS proofs of their most important
properties. Paths below are relative to `src/apps/api/src` unless they begin with `src/`.

## 1. Inventory

| Component | State it keeps | Operations | What is hard about it |
|---|---|---|---|
| Order approval and checkout (`orders/`, `providers/*-order.service.ts`, `provider-draft.ts`) | `ProviderOrder.status`, `.approvalStatus`; drafts running in memory; the real order at the portal | hold, submitDraft (waiting or background), fulfillDraft, approve, reject, updateOffline | the portal takes up to minutes and the row is written afterwards by id, without a condition |
| Portal cart lock (`providers/portal-cart-lock.ts`) | a map account -> last promise | withPortalCartLock | chaining, errors of the previous task, deleting the entry |
| Portal cart tasks and reconciliation (`providers/elit-order.service.ts`, `portal-cart-sync.ts`, `cart-match.ts`, `portal-cart-snapshot.service.ts`) | the account's cart at the portal, the snapshot of what NODO loaded | preview (verify, quote), fulfillDraft | several calls to a site that people use as well, partial stock, sessions that start empty |
| Shared cart (`cart/`, `src/apps/web/lib/cart.tsx`, `cartSync.ts`) | `OrgCart` with versions; in each tab the cart, the base version, the save in flight | putOrgCart, getOrgCart, reconcileOrders; pushNow, pullRemote, applyRemote | optimistic concurrency, notices and answers out of order, orders that leave the cart |
| Attribution of units (`cart/cart-attribution.ts`, `cart-order-reconcile.ts`, `src/apps/web/lib/cartPeople.ts`) | shares of each person in a line | attributeCartItems, the filter of people, consumeOrdered, removeOrderedFromCart | claims of a browser, moves between lines, an order that leaves the cart by two ways |
| Storefronts (`storefront/`) | `Storefront.status`, published products and stock, `ProviderOrder.storefrontStatus`, the `storefront.order` events | open, pause, close, suspend; createOffline, respond, cancelPurchase; products, audience, images | several members of two organizations and a closing race for an order; stock is read, then written |
| Catalog synchronisation (`providers/providers.service.ts`, `catalog-sync-progress.ts`, `missing-guard.ts`, `sync-backoff.ts`) | one run per distributor with a heartbeat, the offers, failures, pause | start, beat, page, apply the rules, succeed, fail, interrupt | runs left by a restart, two starts at once, half a catalogue, late endings |
| Catalog API: changes (`catalog-api/changes/`) | recorded states, events, cursors | baseline, pass over changed offers and sheets, deletions, pauses | rows committed late, restarts in a pass, limits of a pass |
| Catalog API: webhooks (`catalog-api/webhooks/`) | cursor, deliveries, count of failures | enqueue, post, retry, switch off, test | at-least-once delivery, a row that is read with the whole batch |
| Price lists (`list-import/`) | imports and their photographs, the offers of a list | upload, read, apply, fail, discard, revert | a failure half-way, restoring in any order, stuck imports |
| Subscriptions (`subscriptions/`, `src/packages/shared/src/plans.ts`) | stored status, dates, reason | hourly job, payments, dates, courtesy, suspension, cancellation | the effective state comes from dates; the job writes what it read earlier |
| Order tracking (`providers/order-tracking.*`) | stage and events of an order at the distributor | refresh, scheduler | a manual refresh against the scheduler |
| Organizations and people (`tenants/`, `onboarding/`, `auth/`) | memberships, join requests, invitations, lockout | create, request, approve, redeem | one active organization per person |
| Enrichment, catalog AI, retail prices, chat, news, quotes, pricing, mail, images, PC builder, ads, administration | settings, rows, files | mostly CRUD and calls of external services | single-slot schedulers with in-memory flags; capacity checks |
| Web application, browser extension | screens | | the shared cart only |

How they interact:

- The web calls the API over HTTP. A handler is a chain of awaits, so any two handlers interleave at every database
  or portal access. Only `withPortalCartLock` (in memory), advisory locks, conditional updates and unique indexes
  (PostgreSQL) exclude anything. The API may run in several replicas (in a deploy the old one goes on beside the new one: `providers/providers.service.ts:129`,
  `providers/catalog-sync-progress.ts:65`), and the scheduled jobs of the catalogue API keep two of their passes apart only by a flag of each process.
- `OrdersService.approve` runs the distributor's `approveDraft` and then marks the row. `fulfillDraft` uses the
  portal cart under the lock. A row that becomes `CREATED` is later taken out of the shared cart by
  `reconcileOrders`, which both `getOrgCart` and a 15 s scheduler run; the tab that ordered takes it out as well.
- `createOffline` asks `StorefrontService.validatePurchase` and, when the order needs no approval, emits
  `storefront.order`; `approve` emits it for orders that were held. The handler of the event notifies the store.
- `broadcast` sends `cart_updated` notices, which may be lost: a poll every few seconds makes up for them.
- A synchronisation and an applied price list write the offers; the change tracker finds what changed in them by date and writes events;
  webhooks turn the events into deliveries. Each reads the tables of the one before it, none calls it.

What makes each component correct is what its module states (section 3).

## 2. Modules

| Module | Extends / composes | Models |
|---|---|---|
| `OrderApproval` | | the life of online orders against the portal |
| `TicketLock` | | abstract: a first-come-first-served lock per account |
| `PortalCartLock` | implements `TicketLock` | `withPortalCartLock` |
| `PortalReconcile` | | pure: `reconcilePortalCart`, `nextCartSnapshot`, `assertPortalCartMatches` |
| `PortalCart`, `PortalCartProofs` (of these three) | `PortalCartLock`, `PortalReconcile` | verify, quote and fulfil tasks, call by call |
| `CartMerge` | | pure: `mergeCartItems` with a base |
| `SharedCart`, `SharedCartProofs` (of both) | `CartMerge` | tabs, server versions, notices, orders and their reconciliation |
| `CartShares` | | who put each unit, and how an order takes units out |
| `StorefrontOrders` | | orders to a store and the stock it publishes |
| `CatalogSync`, `CatalogSyncProofs` | | runs of a distributor's synchronisation and what they do to the offers |
| `CatalogFeed` | | abstract: numbered events that tell the life of each offer |
| `ChangeTracker`, `ChangeTrackerProofs` | implements `CatalogFeed` | the job that writes the feed |
| `Webhooks` | reads that feed | cursor, deliveries, retries, switch-off |
| `CatalogApiProofs` | `CatalogFeed`, `Webhooks` | the proofs about the two ends of the catalogue API |
| `Subscription` | | the row, its effective state, the job and Administration |
| `ListImport` | | a retailer's own price list, applied and reverted |
| `RetailerPartsProofs` | `StorefrontOrders`, `ListImport`, `CartShares` | the proofs about these three |
| `SmallPartsProofs` | `OrderApproval`, `Subscription` | the proofs about these two |
| `FiniteLemmas` | | facts about finite sets and sequences that the proofs share: sums, orders, sequences put together |

`MCPortalCart` adds symmetry and starts from the inputs of the pure reconciliation as well; `MCSharedCart` adds
symmetry. `MCSmallParts` (lock, approval, subscription) and `MCRetailerParts` (store, list, shares) put three
specifications that share no variable into one run: a behaviour is a behaviour of one of them. A definition whose
comment begins with "Mutant of" is a plausible bug of the definition below it; `PROJECT.json` says which property
finds it. No behaviour of the specifications uses them.

### OrderApproval

`status[o]` and `approval[o]` are the two columns of a row (`NONE`: no row yet), `portal[o]` counts the orders that
really exist at the distributor, `req[r]` is a request between two awaits. `Hold`, `SubmitDraft`,
`SubmitBackground`, `Approve` and `Reject` start requests; approve and reject begin with the plain read of
`assertApprovable`. The portal phase ends in one of `PortalAccepts`, `PortalDeclines` (caught, row FAILED) or
`PortalThrows` (not caught in fulfillDraft). `SaveCreated`, `SaveFailed`, `MarkFailed`, `MarkApproved` and
`WriteRejection` are the writes. Faults: `lostReply` (a call that ended in an error did create the order), `store` (a
write throws), `crash` (memory is lost, rows stay). `upset` (history) holds the orders that a fault touched or whose
decisions overlapped. The steps are translated from Air, whose checkout has every path, and from Elit where it waits
and declines. The other distributors have the same steps but for Solution Box, which
records `CREATED` on any HTTP status under 300, with or without an order number (`providers/solution-box-order.service.ts:230-242`): there an accepted answer is the portal's word, not an order's number.

### PortalCartLock and TicketLock

`tails`, `previous` and the phases of a task are the map and the promises of `withPortalCartLock`; `calls` and
`turn` number the calls (history). `IsTicketLock` maps the chain of promises to a ticket lock.

### PortalReconcile and PortalCart

Carts are functions from product codes to quantities (0: no line). The reconciliation keeps NODO's quantities, adds
the portal's own lines, and uses the snapshot to tell "added at the portal" from "deleted in NODO". `PortalCart`
runs Elit's tasks: read the cart, empty it row by row, add line by line, and then save the snapshot
(verify and quote) or, after loading the cart twice, read it back, compare and process it (fulfill). The portal keeps a cart
by code and warehouse: `Placements` is where it may put what `cart/add` asks for, which names no warehouse; `Readings` is `mapElitCartDetails`, which takes the first row of a
code; `Process` orders what the cart has in the one warehouse of the request and leaves the rest (`left` in the record of the order). Faults: a line
without stock, a line accepted for less or split between warehouses, any call failing, cart/process failing, the snapshot not saved.

### CartMerge and SharedCart

`versions` is the sequence of contents that the server's cart has had, so a base version is an index and not a
timestamp. A tab has `local` (what it shows), `base`, one save in flight (`saving`) and the versions on their
way to it (`inbox`). `Put` is `putOrgCart` under its advisory lock; `ApplyRemote` is the three-way join of
`mergeCartItems`. `Reload` is the boot of a page that was loaded again: what a browser stores is `local` and `base`. `Find` and `Settle` are the two halves of `reconcileOrders`: reading the orders, and the transaction.

### CartShares

The lines of one product, by channel and scheme, each with its quantity and a function from authors to units.
`Attribute` is `attributeCartItems`: lines in their order, shares in any order (the browser orders an object's keys),
each claim held to what is left of that person's units and of the line. `PersonSaves` lets a browser send any lines
and claims, or none (an older web). `OrderTheirs` orders what some people put; then `TabClears` (`consumeOrdered`,
saved through `Attribute`) and `ServerTakes` (`reconcileOrders`, which takes from whoever has most) come in either
order. Saves that meet an order halfway are the matter of `SharedCart`.

### StorefrontOrders

`orders[o]` holds `storefrontStatus`, `approvalStatus` and the items; `stock` is what the store publishes; `calls` are
handlers between two accesses. `respond` is four steps: read, conditional update (`Claim`, which holds the row's lock
from then on), read of the stock, commit; `RollBack` ends the transaction without a trace. `close` reads the pending
orders and then rejects those that are still pending. `Notify` handles a `storefront.order` event.

### CatalogSync

`run[r]` is a `CatalogSyncRun` (status and the age of its heartbeat, in beats), `worker[r]` the call of `runSync`
that carries it out, `rows` the offers. `Start` interrupts stale runs and creates the row unless another says
RUNNING (the partial unique index); `Begin` takes the rules; `Page` writes one offer; `PagesDone` applies
the brake of `missing-guard.ts`; `Reactivate`, `ApplyMissing`, `ApplyZero` and `Succeed` are the separate writes that
close a run; `WriteFails` and `Crash` cut it anywhere. `InterruptStale` and `InterruptAtBoot` are the two interruptions, which
use different ages. The portal changes at any moment, and so do the retailer's rules.

### CatalogFeed and ChangeTracker

The abstract feed: `Publish` changes what is known of some offers and appends one event for each, in some order;
nothing else is ever in the log. The tracker is detailed, and runs in every replica: `job[r]` is the pass of a replica, which its flag `running` keeps alone in its own process only, and `batch[r]` the rows it is comparing.
A pass reads rows (`PassOffers`, `PassSheets`, `ReadDeleted`), reads their states (`ReadStates`) and writes events and states (`Record`, `RecordDeleted`) in three steps, as the picture (`ReadPicture`, `Photograph`), the pauses and the cursors are
read in one step and written in another; nothing conditions what is written. `Stamp` dates a row when it is written and `Commit` shows it later (at
most `COMMIT_LAG_MS` later, which is the code's own assumption); a pass reads batches by date and id from the
cursor, then the offers of touched sheets, moves both cursors to at most `COMMIT_LAG_MS` before its start (a pass that was full: to the last row it saw), looks for deleted rows every few passes and for
pauses. `Crash` cuts it anywhere, in one replica. The order of a query is a set of
pairs of rows (`ById`, `ByDate`), from which `InOrder`, `Taken` and `LastOf` say what the query gives. `cut` and `hurried` are history: a restart cut a baseline, a full pass left its cursor nearer than the lag (findings 16 and 17); so is `apart`, a pass that began during another replica's of an earlier minute. `OvertakenWrites` are the writes of a replica over what another wrote
since it read: the steps in which the code does not keep to the feed (finding 17). `IsFeed` maps `ApiOfferState`, `ApiCatalogEvent` and the tracker's row to the feed.

### Webhooks

`feed[e]` says whether an event tells this key anything. The job runs in every replica (`job[r]`): a pass reads the webhook's row (`ReadHook`), then the events after the cursor it read (`ReadEvents`), and
in a third step makes deliveries and writes the cursor by the row's id (`Enqueue`), whatever the cursor is by then; `TakeDue`
takes the deliveries that are due, without claiming them, with a copy of the webhook's row; `Post` asks the receiver, who may take it, refuse it or take it
without being heard; `RecordGood` and `RecordBad` write the delivery and the row; `RetryDue` is time. The owner activates, deactivates, removes
and tests (`StartTest`, `FinishTest`); `Crash` forgets the pass of a replica. `crossed` (a pass enqueued from a cursor that was no longer the row's), `doubled` (deliveries that two passes had at once), `unheard` and `twice` are history.

### Subscription

`row` keeps the stored status and the dates; `StateOf` is `computeSubscriptionState`, on which every request relies.
An operation of Administration is two steps (`ReadForWrite`, then its write of the columns it names), because `loadForWrite` reads outside the
transaction, and so is a row of the hourly job (`ReadRow`, `WriteStatus`), in every replica. Operations overlap with each other and with runs as they like: `request` has one for
every administrator. `DecideSuspension` is the write of those that settle the suspension, `MoveDates` of those that only move dates and follow the status they read.
`manual` (a suspension by hand is in force) and `overwritten` (what was written over an operation that had not been read) are history.

### ListImport

`imports[i]` is a row with its status, photograph and date of application; `workers` are calls and background readings. Applying is:
check, photograph, keep it, start the synchronisation's run, write offers one by one, finish the run, hide what is missing, mark.
Whatever throws leads to `Restore` and `MarkFailed`. `FailStuck` is the scheduler, which goes by the age of the import. `Check`, `ReadAgain`, `Discard`, `StartRevert`,
`RestoreReverted`, `MarkReverted` are the other calls. `broken` (history) marks the two ways in which the code itself gives up: a stop, or a failure of the restoring.

## 3. Runs

| Run | Bounds | Question and answer |
|---|---|---|
| `small_parts` | lock: 4 tasks, 2 accounts; approval: 2 orders, 3 requests, all faults; subscription: 2 replicas, 2 administrators, 4 days (0 to 3), 2 operations or aborted runs | the lock excludes, keeps the order of calls, leaks nothing, runs every call and implements `TicketLock`; rows claim only what was sent, held orders need an approver, an undecided checkout is sent at most once, decided orders stay, untouched orders agree with the portal, background drafts end; the job never changes the effective state, manual suspensions hold, the stored status catches up |
| `portal_cart_locked` | 2 tasks, 1 account, 2 codes, 2 warehouses, quantities up to 2, 1 change at the portal between tasks, all faults; every pair of small carts, snapshot and options | no line is ordered with another quantity than asked, and one that is missing stayed whole in another warehouse; verifications leave what they reconciled; NODO's own lines are not reported as the merchant's; the promises of the pure reconciliation on every input and again on what verifying leaves |
| `shared_cart_sync` | 2 tabs, 2 products, 2 changes | a product only one tab changes ends as that tab left it; all end with one cart |
| `shared_cart_orders` | 2 tabs, 1 product, 2 changes, 1 order, 1 reconciliation, lost requests, reloads | nothing that was ordered or removed comes back |
| `retailer_parts` | store: 2 orders, 1 product, 2 handlers, stock and quantities up to 2; list: 2 imports, 2 products, 2 workers; shares: 2 people and the unknown author, 2 lines, up to 2 units each, 1 order | an order is answered once, only after the buyer let it go, the store hears of it, and it takes its units once; the list in force is the one of the last import applied, and reverting goes back sheet by sheet; shares add up and nobody's grow but by their own hand |
| `tracker_feed` | 2 replicas, 2 offers (1 at the start), 1 price, lag 2, batches of 1, up to 2 per pass, a search of deleted rows every second pass, 2 ticks, 2 of: changes of the catalogue, restarts, passes begun during another's | every write of a replica that nobody overtook is one of the feed; nothing is left behind the cursors; the events end up telling the catalogue |
| `webhooks_deliveries` | 2 replicas, 2 events, 1 per pass and per delivery, 2 attempts, switch-off after 2 failures, 1 act of the owner or restart, 1 pass begun during another's | every event is enqueued, once and in order unless a cursor was crossed; deliveries are repeated only when unheard or had by two passes at once; all settle |
| `catalog_sync` | 2 runs, 2 offers, runs stale after 2 beats, closing in 1, 2 changes of portal or rules, all three rules for zero stock | a beating run is alone, an ended run stays, a complete run shows what it brought and a poor one touches nothing, no run blocks the next |
| `shared_cart_twice` | 2 tabs, 1 product, 1 order, 2 calls of reconcileOrders | **violation**: one order is subtracted twice |
| `cart_shares_left` | 2 people, 1 line, up to 2 units, 1 order | **violation**: an order takes out units that nobody ordered |
| `storefront_stock` | as the store above | **violation**: two confirmations lose a decrement |
| `subscription_paid` | 2 replicas, 1 administrator, days 0 to 6, 2 operations or aborted runs | **violation**: a payment leaves the account suspended |

Why the bounds are enough to see what matters:

- *lock*: a chain on one account has a first, a middle and a last task, and the fourth arrives after a cleaning or on another account.
  *Approval*: three requests are a checkout with two decisions, or three decisions on one order; two orders show that handlers of
  different orders do not touch each other. *Subscription*: a stale read takes two replicas and an operation, or two operations that overlap; the policy's days are
  scaled down, in the same order (past due < grace < month).
- `portal_cart_locked`: two codes let one line be partial while the other is right; quantity 2 is the least
  that a portal can accept "for less" or split; two warehouses are the one of an order and another; the second task runs on whatever the first one left, after a failure too.
- `shared_cart_*`: a conflict takes two tabs and two changes; a second product is what a conflict could destroy.
- *Store*: two orders for the same product are what a stock race needs; a handler more only waits for the row's lock. *List*: the
  second import has a first to return to; two products let one be new, kept or missing. *Shares*: two lines share one pool of units, and a claim may exceed a line, a person's units, or both.
- `tracker_feed`: a lag of two ticks and two changes let a row be committed after a later one was seen; a batch of one makes
  every pass go through its loop, and two rows are a full pass; one pass begun during another's is what two replicas need to read the same states or to write late. `webhooks_deliveries`: a delivery that is retried, one that waits behind it, and one given up, or two
  made of one event; one overlap lets two passes enqueue from one cursor, post one row, or set the cursor back. `catalog_sync`: a second run starts
  while the first one may be dead, late or closing.

Type invariants are stated in every module and are not properties of the runs unless a proof needs them (section 5); adding one to a configuration checks it.
Deadlock is not checked: in these systems every request, task, edit and order may be over (the sets are finite), and then nothing is left to happen.

### Fairness

Only weak fairness, only where something in the code insists:

- `OrderApproval`: an active request takes its next step. Node runs what is ready, and the clients of the portals have
  timeouts, so a call ends in an answer or an error. `PortalCartLock`: a promise whose predecessor settled runs, and a task ends, for
  the same reasons. `Subscription`: the hourly job goes on. `MCSmallParts` assumes less: that some step of these goes on.
- `SharedCart`: the tab's timers (450 ms after a change, 150 ms after a save) and its poll fire, the API answers, and
  an answer of the poll arrives. Notices have no fairness of their own: `Notify` may reach nobody.
- `ChangeTracker`: the cron's job goes on in every replica and a transaction that wrote its rows commits. `Webhooks`: the cron's job goes on
  in every replica (a post ends within ten seconds) and the time of a retry comes.
- `CatalogSync`: a worker goes on, time passes, and the panel or the scheduler asks for the state of the runs, which interrupts stale ones.

People, portals, receivers and crashes have no fairness. The bounds on changes are what "once people stop" means in `Converges`,
`CatchesUp` and `StoredCatchesUp`.

## 4. What the code does that its documents do not say

The first four are violation runs. The others are seen by adding the property, or changing the constant, that is named.

1. **An order subtracted twice** (`cart/cart.service.ts:160`). `reconcileOrders` reads unreconciled orders before the
   lock and does not look again under it; a GET and the scheduler may both have read one order.
2. **Units nobody ordered leave the cart** (`cart/cart-order-reconcile.ts:35`). Ana orders, with the filter of people, her unit of a line that also has one of
   Juan's. Her tab clears exactly hers; the reconciliation then subtracts the ordered quantity again, from whoever is left: Juan's.
   In the other order it takes from whoever has most, and the tab then clears what Ana has left. The same happens to units added after the order was sent.
3. **A lost decrement** (`storefront/storefront.service.ts:832`). The row of the *order* is claimed, but the stock
   of the *product* is read with a plain SELECT and written as an absolute value. `updateProduct` (line 586) is another such writer.
4. **A payment that does not open the account** (`subscriptions/subscriptions.service.ts:608`). `reactivate` without a date keeps a due date
   long past and gives a grace; a payment within it counts from the old due date and erases the grace, so the account is suspended at once.

Orders:

5. A rejected order that was sent (`orders/order-approval.service.ts:179`): approve reads, sends for up to minutes and writes; reject does the same in
   between, and both pass `assertApprovable`. Two approvals at once likewise send twice. `RejectedIsDiscarded` in `SmallParts.cfg` fails.
6. A stop of the process between the portal's acceptance and `markApproved` leaves a row that says it waits; approving it again
   sends it again. `small_parts` contains it: `portal[o]` may reach the number of approvals.
7. A restart leaves a background draft `PENDING` for good: nothing resumes it (`PendingHasWorker` allows only this fault, and a failing database).
8. A change at the portal's web between `assertPortalCartMatches` and `cart/process` is confirmed (`providers/elit-order.service.ts:366`,
   `cart-match.ts:48-50`): `Edits = "anytime"` violates `SentIsRequested`. NODO cannot lock the portal, so the run only lets people change the cart between tasks.
9. A fulfilment whose `cart/process` fails leaves loaded lines without a snapshot; the next verification reports them
   as added by the merchant. `AddedWasAdded` is therefore about histories in which every task saved it (`~unsaved`).
   **A cart over two warehouses is ordered in part** (`providers/elit-order.service.ts:367-370`). `cart/add` names no warehouse, `mapElitCartDetails` reads the
   first row of each code, and `cart/process` orders one warehouse. A cart whose lines the portal put in different warehouses passes `assertPortalCartMatches`, goes in part and is recorded as
   sent in full, although line 366 says that no order different from the cart is sent. (`s.left = {}` for every order fails in `portal_cart_locked`.)
   What stays has no snapshot, so that a verification reports it as the merchant's. A line in two warehouses is read for less than it has: a verification that loads it back takes the smaller quantity.

Carts and stores:

10. Equal additions count once (`src/apps/web/lib/cartSync.ts:97`): two people who take the same line to the same quantity have equal signatures, and the
    join keeps one side (`AdditionsAreSummed` in `SharedCart_sync.cfg` fails). Different additions are summed exactly (theorem `DifferentAdditionsAreSummed`).
11. A notice or poll with a version that already includes the tab's own save may overtake the answer of that save: its additions are
    joined once more (`src/apps/web/lib/cart.tsx:318`). With `"overtake"` in `Faults`, `NothingComesBack` fails. With
    `"lostReply"` (the save was written, its answer lost) `SoleEditorWins` and `NothingComesBack` fail for the same reason.
12. Work that was not saved is lost when the page is loaded again while the server's cart is not empty (`src/apps/web/lib/cart.tsx:408`), although line 357 says that
    it stays in the browser and is tried again: with `"reload"` in `Faults`, `SoleEditorWins` fails. Who reloads for ever never saves, so `Converges` has no reloads either.
13. An order held at the buyer, or validated just before, may become visible and pending in a store that has closed:
    `approve` does not look at the store. Somebody has to open it again, or the buyer has to cancel.
14. The `storefront.order` event lives in memory. `domain-events.ts` asks for a reconciliation path for events, which
    this one lacks: a stop between the write and the handler loses the notice. `StoreHears` is about a process that lives.
15. An owner who opens, pauses or closes the store while NODO suspends it overwrites the suspension (`storefront.service.ts:1002`); suspension is not modelled.

Catalogue:

16. More rows with one date than `MAX_PER_TICK` stop the tracker (`catalog-api/changes/change-tracker.service.ts:225`): every pass starts one instant before that
    date and fills up with the same rows. With `MaxPerTick` as small as the rows written at once (1), `CatchesUp` fails.
    A full pass also takes its cursor to within `COMMIT_LAG_MS` of its own time, although lines 13-15 say that every pass looks again at the last two minutes: a row with an earlier date that is
    committed later is never told. Without `~hurried`, `NothingBehindCursor` fails in `tracker_feed`.
17. A baseline cut by a restart starts again with a later date and keeps (`skipDuplicates`) the states it had photographed: what changed in between is never told. `cut` leaves this history out.
    **Two replicas tell a change twice** (`catalog-api/changes/change-tracker.service.ts:80`, `:89`, `:234`, `:268`). `running` is a flag of the process, so that in a deploy two passes may read the same states, and both then create the same events,
    although lines 15-16 say that repeating a pass duplicates no events. Without `OvertakenWrites`, `IsFeed` fails in `tracker_feed`. Theorem `AloneItIsTheFeed`: while no two passes run at a time, it holds without that exception.
    A pass that lasts into another replica's of a later minute may also write an old state over the newer one that pass recorded, behind a cursor that it moved: without `~apart`, `NothingBehindCursor` fails.
18. `consecutiveFailures` is computed from the row read with the batch (`catalog-api/webhooks/webhooks.service.ts:287`): a success, a test or
    a reactivation in between is overwritten and a webhook may be switched off without the run of failures that `webhook-events.ts:7` asks for; `RecordFailure` has this stale copy, and no property denies it.
    **Two replicas repeat deliveries** (`catalog-api/webhooks/webhooks.service.ts:82`, `:192`, `:206`, `:251-258`). Two passes that read one cursor both enqueue the same events, although line 244 says that nothing is lost or duplicated; the slower one
    may set the cursor back, so that more is enqueued again; and both post the PENDING rows, which nobody claims. A post that is heard in one replica and not in the other makes a delivery `DELIVERED` and then `PENDING` again. `EnqueuedOnce` is about an order and a
    count only while `~crossed`, `DeliveryMeansTaken` about one taking only of deliveries that are not `doubled`; without these conditions both fail. That nothing is lost needs no such condition; it is about a feed whose events appear in the order of their ids. Two trackers that write events of different offers at once could commit them in the
    other order, and a cursor that passed the later id never sees the earlier one (`createMany` comes after the rows' locks, so events of one offer keep their order): no model has this.
19. A synchronisation cut between showing what came (`providers/providers.service.ts:651`) and the rule for zero stock (line 665) leaves offers without stock shown,
    which the comment at 649-650 says cannot be; the next complete run repairs it.
20. Nothing beats while a run closes. A closing longer than `RESTART_GRACE_MS` would let another replica's start interrupt a run that lives and that `succeed` then marks OK without looking;
    `Closing < Grace` is an assumption of the model, on which `BeatingRunIsAlone` and `EndsOnce` rest. Errors while closing a manual run are only logged (`enqueueManualSync`), and its row ends as stale.
21. A change of rules that no longer hides shows every offer of the distributor again, products that are gone included, until the next run.
22. `sync-backoff.ts` speaks of a limit of 24 h; the limit in its code is 2 h.

Subscriptions and lists:

23. The hourly job writes over what Administration did after it read (`subscription-reminders.service.ts:71`): a suspension, a cancellation or
    an extension may be undone, although its comment (22-23) says that the job only records. `overwritten` marks those histories (`"job"`).
    Operations of Administration overwrite each other as well, since `loadForWrite` is outside their transactions (`subscriptions.service.ts:482-491`, `556-571`): `setBillingDate` or `extend`
    that read a suspension for debt, and `endCourtesy` that read a courtesy, write ACTIVE over a manual suspension that came in between, and a date that moves reopens the account, although
    line 787 says that only a suspension for debt is lifted. Without `"status"` in its condition, `ManualSuspensionHolds` fails with two administrators. And a date computed from a courtesy, written over another
    courtesy, leaves `courtesyUntil` and `nextBillingAt` apart; the job then changes the effective state when it records it (`"dates"` in `JobKeepsState`).
24. A payment lifts a manual suspension as well (`subscriptions.service.ts:441`), while line 787 and the documents only speak of suspensions for debt; and
    cancelling a paid subscription that was suspended by hand makes it open until its date.
25. A stop between claiming a reminder and sending its notice leaves it `PENDING`, and nothing sends it later.
26. Overlapping calls on one list: the second photographs a list half applied, and its failure or a later revert restores that, although `list-import.service.ts:592-593` says a load that fails cannot stay
    applied in part. With `MayOverlap = TRUE`, `ListIsWhole` fails.
27. `failStuckImports` goes by the creation of the import, so one read again after a long time is given up while it is being read; the last of it, a discard and a second reading to write the status wins.

## 5. Proofs

All theorems hold for every value of the constants (any sets of orders, requests, tasks, tabs, products, runs, and any
faults); their only assumptions are the `ASSUME`s of the modules, which TLC evaluates in the runs, and those they state. Every inductive
invariant below was first checked by TLC on a small instance.

Four theorems state a condition, and each is the one under which the run asks the question, because TLC shows that the code does not keep the
property without it: `Edits = "betweenTasks"` (finding 8), `Answered` (no lost or overtaken answer: finding 11), `Calm` (no reload either: finding 12) and
`MayOverlap = FALSE` (finding 26). `AloneItIsTheFeed` states a fifth, `[]Alone` (finding 17).
Histories that a property excludes (`unsaved`, `overwritten`, `broken`, `disturbed`, `cut`, `hurried`, `apart`, `crossed`, `doubled`), and steps (`OvertakenWrites`), are excluded by the property, not by the theorem.

**FiniteLemmas.** Induction itself cannot be cited, since the theorems of the library take a predicate. A set takes its place: `LeastOf` (from the well-foundedness of `<`) gives the least of a set of exceptions, and
`Upwards` carries membership from each number to the next. On these two rest the facts about folds that the models need: sums over finite sets, sequences flattened or cut in slices, a finite set put in an order, and `FoldSteps`:
a fold over a sequence whose steps keep a set of values goes from one such value to the next.

**OrderApproval.** `RecordedWasSent` is not inductive: whether a row may become `CREATED` depends on how far its
request is, and whether a request may write depends on which rows it may belong to. `IInv` adds four facts:
`StepsFitOps` (which steps each kind of request goes through), `OwnersFitRows` (which requests may be about a row, given its
`approvalStatus`: a checkout owns its order alone; approve and reject exist only for held orders),
`PortalAccounted` (every order at the portal has a request that sent it, one that needed no approval has at most one, and a request past the portal stands for one)
and `PendingHasWorker`. One lemma per conjunct has one step per action; `AdvanceFrame` says once what a step of a request leaves alone. From `IInv`:
`TypeCorrect`, `RecordedRowsWereSent`, `HeldOrdersNeedAnApprover`, `SubmittedOrdersAreSentOnce`,
`PendingRowsHaveAWorker`, and the action property `SettledOrdersStay`. `UntouchedOrdersAgree` (that is, `QuietRowsAgreeWithPortal`) needs a second
invariant on top: what row and portal look like at each step of the one request about an order that is not `upset`.

**PortalCartLock.** `LInv` relates the promise chain to the order of calls: the tail of an account is its last
call (`TailsFit`), turns number the calls without repetition (`TurnsFit`), and whoever has a predecessor
follows it by one turn while one without has all earlier turns settled (`ChainFits`). `LockKeepsCallOrder` is one
of its parts; `LockExcludes` follows because of two running tasks one would come after the other; `LockDoesNotLeak` from `TailsFit`.
`LockIsTicketLock` is the refinement: in a state of `LInv` every step maps to one of `TicketLock` or to nothing. What has to be shown is that a promise
whose predecessor settled is the *first* of its account that is still waiting, which is `ChainFits` with `CallOrder`.

**PortalReconcile.** `NodoAlwaysWins`, `PortalLinesNeverVanish`, `SecondVerificationQuiet`, for any codes and
quantities; `RunsLoseNoLine` and `RunsAreQuietAgain` are the same statements in the form in which `portal_cart_locked` evaluates them.

**PortalCart.** Nothing about the cart is inductive without knowing who works on it. By `LockExcludes` at most one task of the account runs (one
account: `OneAccountAssumption`), so `CInv` says what that task knows of the cart at each of its steps (`Known`: what is still to be emptied or added,
that a line it loaded does not exceed what was asked in any one warehouse nor in two together, whose each line is), that a waiting task has done nothing yet (`JobsFit`), and that, between tasks, what NODO put in
the cart is in the snapshot (`SnapshotKnows`), as long as no task ended before it saved. From it `OnlyTheRequestIsSent`, `VerificationLeavesTheMerge`, `ReportedLinesAreTheMerchants` and
`CartTypes`. A comparison that goes well found, of each line, all that was asked in one row, so that no other row has anything of it (`Whole`): the order has that line or the line stays. The cart that is confirmed is the cart that was compared because nothing runs between the two calls, which is what a change at the portal would break.

**CartMerge.** `MergeIsACart`, `OnlyChangeWins`, `MergeAddsOnlyWhatWasAdded`, `DifferentAdditionsAreSummed`: one
join never brings anything back. What may go wrong is the order in which joins happen, which is what `SharedCart` checks.

**SharedCart.** `SoleEditorAlwaysWins` rests on what each tab's copy of a line is worth, whatever other lines do (`LineFits`): a tab that has not changed the line shows and saves
it as its base version has it (`FollowsLine`), the one that has shows what was wanted, and no version that it has not taken brings anything new (`OwnsLine`); a line nobody
changed is the same in all versions (`UntouchedLine`). `OnlyChangeWins` carries this through every join. It also needs that a tab takes no other version between its save and its
answer (`SavesFit`): this is the overtaking that the condition excludes.

`WhatIsGoneStaysGone` (`NothingComesBack`) needs what every tab may still bring into the cart, `Held`: what it shows over the version that it works on. If a save of it will be written, that is what the save
has over the version it goes to, and what was added since it was sent, which comes with the next. `NothingSpare` says that the cart, what the reconciliation took out of it and what all tabs hold, together, are no more than people put in. It is kept by each
step since a join has no more than `MergeAddsOnlyWhatWasAdded` allows, what a tab takes up from a newer version it no longer holds (`HeldAfterTaking`), a version added by others only makes a save of it fail (`HeldAfterVersion`), going from one cart to another over a
third counts nothing twice (`ExtraTwice`), a page loaded again holds nothing, and a reconciliation takes out of the cart what it notes as taken. `TabMoves` says once what a step of one tab has to show, from `TotalOfOneMoving`: the other
tabs' terms of the sum do not grow. That is why there are finitely many tabs; that there are finitely many orders is needed for what a reconciliation adds up.

**StorefrontOrders.** `StoreInv` adds `ReadsHold` to the properties: what a handler remembers of an order still holds
when it goes on (an approval that read a pending order may not be wrong about it, and the store's handlers only work on orders that the buyer let go). With it:
`OneAnswerAtATime`, `NothingHeldIsAnswered`, `TheStoreIsTold`, `TypeCorrect` and the action property `AnswersAreFinal`.
`UnitsAreTakenOnce` (`DecrementedOnce`) adds `PricedFits`: what a confirmation has computed and not yet written, with the units that it takes and those that others sold since it read the stock, is still not less than what was published.
Only the commit of a confirmation sells anything (`OthersSellNothing`), and it sells one order more, because that order waited while it was claimed. That one order more adds its units to the sum is shown for every finite set of orders
(`TotalOfOneMore`, from `TakeAnyFirst`: a sum does not depend on the element taken first). This is the only place in this module where `Orders` has to be finite.

**ListImport.** `NoListInPart` and `RevertingUndoes` come together, because what a failure restores is a photograph of a list that reverting has to have left right. `ListInv` says that no two calls are about one
import or change the list (`Alone`), that only a revert is about an import that is applied, and then the newest one (`CallsFitRows`), that dates of application tell the imports apart (`WellDated`), that each photograph is the list of
the imports before it (`GoesBack`), and how far the list is from the one in force at each step (`Applying`, `Reverting`). The lemmas `SameHistory`, `AppliedComesLast` and `RevertedWasLast` are
about rows alone: what the list in force becomes when nothing, a new import, or the loss of the last one changes the imports applied.

**CartShares.** `SharesInv` says that the shares of a stored line with authors add up. While a save is computed, `Accounted` says that the units of a line are given or left, that what a person gets is out of the pool of theirs, and that those
not yet visited have nothing (an array of keys names nobody twice); `SavedUpTo` that what the first lines give somebody and what is left of their pool are what they had. So `LinesAddUp`, and `OnlyWhoSavesGains`, because the rest of
each line goes to who saves and to nobody else. An order takes from each share at most what it has (`Taking`, `LessThan`). Each loop of the code, over claims, over shares or over lines, is a fold (`ClaimsFold`, `SavesFold`, `TakesFold`, `TakesAllFold`).

**CatalogSync.** `BeatingRunIsAlone` is not inductive: it needs how old a beat may be at each step of a worker (`OwnersBeat`: a worker that pages
has just beaten, one that closes is younger than `RESTART_GRACE_MS`, and so neither interruption reaches it) and that only one row says RUNNING (`OneRuns`). `IInv` is these two and `SyncTypeOK`. From it:
`SyncTypeCorrect`, `BeatingRunsAreAlone`, and `EndedRunsStay`, because whoever writes OK or ERROR owns a row that is RUNNING.
`CompleteRunsShow` adds what the one worker has written of the offers at each step (`Wrote`), and that a poor run has spared what it did not bring (`Spared`).

**CatalogFeed.** `LogTellsLife`: the events of one offer alternate as its life does and the last says what is known of it, for any finite set of offers. The
invariant adds that nothing is in the log before the first picture (`QuietBefore`). By the refinement `TrackerIsFeed` this is what the tracker promises.

**ChangeTracker.** `NothingBehindCursor` says nothing of a pass that is half done, so `IInv` says, replica by replica, what such a pass owes. `PassFits`: every offer that is not known is dated after what the pass has read, or is in the batch it is
comparing, or belongs to a touched sheet still to come or left to the next pass, or is dated within the lag of its start. `BatchFits`: what it has read of a row, and a state that it found right, is so or was overtaken by a later date. `PictureFits` is the same of a baseline, by ids.
`CursorsLag` says why dates within the lag may be left: what is being written will have a date later than any cursor; `Together`, that passes which run at once began at one time, unless `apart`, and so agree on what is within the lag.
A step of one replica keeps what the others owe (`OthersKeep`), because a state that it writes is right or is of an offer dated within the lag, which they may leave as well: this is where two passes that are `apart` would disagree.
`NothingLeftBehind` follows when the cursors move, and each action of the catalogue only adds dates that no cursor has passed. It rests on what the queries give: `InOrderIs`, `TakenIs` and `LastOfIs` show, for any strict order of the
rows, that a finite set can be put in it and that a batch comes before all that it leaves.
`TrackerIsFeed`: `RecordPublishes` says that a transaction which records what it read of some rows, with the events of those that differ from their states, is `Publish` if the states are still those; batches, touched sheets and deleted rows are three uses of it,
the baseline is `Photograph`, and pauses are `PublishPause` or nothing. What is left are the writes of a replica that another overtook, and `AloneItIsTheFeed` says that they need two passes at a time: alone, a pass keeps what it read of states, tracker and pauses
(`AloneFits`).

**Webhooks.** A pass works from a row and a queue that it took, while other replicas enqueue, post and record from theirs, retries become due, the webhook may be removed and a process may stop. `IInv` says that the line holds no delivery twice and only pending ones (`LineOK`), what
each pass holds (`JobOK`), that a delivery which nobody has had twice is still in the line while a pass has it to post or to record, in that pass alone (`InHandOK`), that a post that was heard is of a delivery that was taken (`GoodOK`), and that a webhook that is gone has no rows (`GoneOK`). So what is posted of a
delivery not `doubled` was pending and nobody else records it: `DeliveriesTellWhatWasTaken`. `NothingLostNorTwice` (`EnqueuedOnce`) adds `FedOK`: only an `Enqueue` changes what the deliveries hold, and it appends the slices of a batch that begins where its pass read the cursor. That slices
put together are the batch (`SlicesTogether`), that flattening goes part by part (`FlattenBoth`) and that a set has one increasing sequence (`SortedOnce`), so that two batches in a row are the batch of both (`BatchesTogether`), are
lemmas for any feed and any sizes. Every cursor that a pass has read is one up to which the deliveries already hold everything (`Fed`), so that a batch from one the row has left adds to them without a gap.

**Subscription.** What a run of the job, or an operation, is going to write was computed from a row that may have changed. `SubIInv` says, of whoever has read since the last operation wrote, that an operation in progress knows of a manual
suspension (`ManualIsKnown`), that the dates decide the row a run is about (`FreshRunsDecide`), and, unless stale dates were written, that what the run is going to write is still harmless
to the row as it is (`Harmless`): it tells the status of an overdue row and keeps its date, or says that a row is up to date again; other replicas may have written the same, and days may have passed. Each part is kept under the
`overwritten` that it depends on and no other. Then a run's write changes no effective state (`JobOnlyRecords`), and neither it nor an operation that moves dates touches a manual suspension (`ManualSuspensionStands`).

Proving showed several places where a model said less than the code or claimed more, all mended: overlapping `CASE`s (`OverdueStatus`, `AfterAdding`, `SharesOf`, `TakeFromLine`), whose order the code fixes and TLC happened to follow, are `IF`s now;
`CompleteRunShows` forgot that an offer that came without stock may have been shown by an earlier run (`Brought`, with all three rules for zero stock in the run); and the updates of a row are
written with `Over` and those of the line with `RemoveFirst`, since `@@` and `SelectSeq` mean nothing to the provers;
`TakeUnits` now adds up the shares that are left, as the code does, where it took the quantity that ought to come out; and
`NothingBehindCursor` was false after a full pass, which the run had been too small to show (finding 16).

Proved and not in a run: `TypeOK`, `LockTypeOK`, `CartTypeOK`, `StoreTypeOK`, `SyncTypeOK`, `CallOrder`, `ClaimIsExclusive`, `LogTellsKnown`, the types of the tracker and the theorems about `CartMerge`.

**Only model-checked.** Liveness (`PendingResolves`, `EveryCallRuns`, `StoredCatchesUp`, `Converges`, `CatchesUp`, `EveryChangeSettles`, `RunsEnd`) and
everything with `ENABLED`, which are beyond the prover. Every other property of a passing run is a theorem.

## 6. What is left out

- **OrderApproval**: authorization and the content of orders (`updateOffline` changes lines and amounts of an order
  that is not to a store, never its statuses); the aliases of the purchase board; quotes of held orders, which are in `PortalCart`.
- **PortalCart**: other distributors' calls (same lock and reconciliation, other pages); reading pages, prices, addresses.
- **SharedCart**: one retailer and one distributor; one line per product; one scheme (`mergeSchemes`); several tabs
  of one browser; a tab that starts without the server or never saw its cart; a save that reaches the server after its tab was reloaded; the join without a base; the legacy per-user `CartItem` endpoints (plain CRUD). An order's items are those it was sent with.
- **CartShares**: one product; people do not save between an order and its leaving the cart; the filter does not change while the order is created.
- **StorefrontOrders**: paused and suspended stores (to orders they are like closed), `close` with `deleteProducts`, edits of
  products by their owner, products without a published quantity, who may see a store, deletion by collection of images.
- **CatalogSync**: the backoff's times (only the count of failures), pages as such (offers one by one), prices, enrichment, several distributors and retailers.
- **ChangeTracker** and **Webhooks**: one retailer and one webhook (a replica's pass goes over them one after the other); events that two replicas commit in another order than their ids (finding 18); retention of events; the feed's read endpoints, keys and rate limits.
- **Subscription**: reminders and their mails, add-ons, prices, payments as documents; operations that fail (they change nothing).
- **ListImport**: base lists and what linked retailers get from them, profiles, reading spreadsheets.
- The components of `PROJECT.json` with status `not_modelled`, each with its reason there: screens, adapters of external services and CRUD, which are most of the repository's lines, have no
  states of their own for a model to visit.

## 7. Plan

1. `SharedCart`: a tab that starts without the server and the join without a base, and several retailers in `reconcileOrders`, which commits one by one.
2. `StorefrontOrders`: suspension, the owner's edits of stock, `deleteProducts` (`storefront.service.ts:586` and `:1002`).
3. `Membership`: creating, joining and redeeming under the onboarding lock; join requests (`join-requests.service.ts:201`);
   counters read before they are written (`auth.service.ts:120`, `news/news-rsvp.service.ts:116`).
4. Enrichment runs (`runs.service.ts:39`, `:78`: single slot, restart), order tracking (`order-tracking.service.ts:285`).
5. `ListImport`: base lists and their materialisation.

New questions should take the place of older ones that they subsume, so that the project stays small enough to run in minutes.

Proofs: each of these modules brings its own invariants to prove; `ListImport` and `SharedCart` have the lemmas about rows, versions and sums that 1 and 5 will need.

## 8. Running

    tlc -workers 2 -config SmallParts.cfg MCSmallParts
    tlapm CatalogSyncProofs.tla

`PROJECT.json` lists every run with its module and configuration, the source lines each definition translates, the
mutant that each property finds, and the hazards each property is for.
