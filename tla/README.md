# TLA+ models of kp-api

kp-api is the backend of a company that sells personalised prints through
PrestaShop shops: a Fastify API over PostgreSQL (Prisma) with BullMQ workers,
used by several tenants. This directory holds TLA+ models of the parts of it
where requests, webhooks, workers and machines outside interfere with each
other, the TLC configurations that check them, and TLAPS proofs. Everything is
written from the code under `src/`; paths below are relative to it.
`PROJECT.json` maps every definition to its lines.

## 1. Inventory

| Part | State | Operations | What is hard |
|---|---|---|---|
| Reservations (`src/services/admin/warehouse-reservations.service.ts`) | `WarehouseReservation` rows, `currentStock` | `reserveOrder`, `releaseOrderReservations`, consuming and releasing with a document | an advisory lock per order, none per product, and documents take neither; a status read before the transaction, reservations read in it and written later |
| Documents (`warehouse-documents.service.ts`) | `WarehouseDocument` and its items | create, edit, confirm, cancel, delete, WZ of an order, wholesale order (ZH) for its backorders and receipt (PZ) of one, shipment, reallocation of backorders | decisions on rows read before the transaction; items tied to reservations that change meanwhile; reallocation after the commit; two PZ for one ZH |
| Effects of an order's status (`orders/order-status-warehouse-effects.service.ts`) | `operationalStatus` | reserve, release, or issue goods when the status changes | started by panel, webhook and synchronisation at once; a crash leaves them half done |
| Stock cache (`warehouse-stock.service.ts`) | `currentStock` | `recalculateStockCache` | recalculates from documents, ignores increments made since it read |
| Print queue (`print/print-job.service.ts`, `print-agent.service.ts`, `routes/public/print-agent.routes.ts`) | `PrintJob`, `PrintAgent` rows, `lastReaperRun` of the process | poll and claim, reaper, report, download, create, retry, cancel, resolve, delete agent | agents that fall silent, repeat themselves or race; printing twice costs paper |
| Clean-up (`cases.service.ts:115`, `maintenance/job-retention.service.ts`) | `Asset` rows and files, old jobs | delete print files of a case, prune history | deletes what was idle when it was read |
| Stock publication (`stock/stock-sync.service.ts`, `queue/stock-sync.*`, `warehouse-diagnostics.service.ts`) | `StockSyncLog`, BullMQ jobs | read stock and offers, queue a job with the decision, a worker writes it to the shop, retry by queue or operator, PENDING logs queued again | five workers and retries: old quantities after new ones, two writes of one job; unchanged publications skipped against logs that may fail; logs queued again beside the job they have |
| Wholesale (`wholesale-*.service.ts`, `queue/wholesale-sync.*`) | `WholesaleSyncLog`, mappings, staged rows | request a sync, fetch, validate, stage, apply, publish offers | one sync at a time by a log that may be abandoned; limited syncs; links changed in the middle |
| PrestaShop webhook (`webhooks/prestashop-order-webhook.service.ts`) | `ShopWebhookEvent` | receive, deduplicate, set status, import, start effects, reprocess | repeated and reordered deliveries; the key repeats when an order returns to a status |
| Order synchronisation (`sync/`, `scheduler/`) | `Order`, `OrderItem`, `lastSyncAt` | list changed orders, import or refresh each | overlaps with webhook and panel; a crash between the statements of an import; the window moves on after failures |
| Orders (`orders.service.ts`, `order-item-substitution.service.ts`) | orders and items | change status, delete, substitute items | check and act in separate statements |
| Returns (`order-returns.service.ts`) | `OrderReturn` with three step statuses | warehouse, iFirma and PrestaShop steps, retry, delete | a crash between an external call and its record |
| Sessions (`auth.service.ts`) | `AuthSession` | login, rotate the refresh token, logout | two refreshes with one token; a logout between read and write |
| Shipments (`order-shipments.service.ts`) | `OrderShipment` | ask the shop for statuses, save, tell the customer | overlapping synchronisations, late answers, statuses that return |
| Invoices (`invoices.service.ts`, `orders/order-shipment-invoice.service.ts`) | `SalesDocument` | issue, retry, cancel here, mail; close the WZ | the call to iFirma lies between two statements; goods must not leave without an invoice |
| Automations (`automation.service.ts`) | `AutomationRun` with a unique key | run a rule once for a key | reserved before the action, which is not repeated |
| Cases (`routes/public/personalization.routes.ts`, `cases.service.ts`) | `PersonalizationCase`, its answers, `layoutSnapshot`, link | draft, preview, approval with a frozen layout; the panel's status, answers, layout, link, package | tabs, panel and worker write one row after checks they made before; approved and opened again |
| Rendering (`queue/render.*`, `renderer/proof.service.ts`) | `RenderJob`, BullMQ jobs, `Asset` rows | package for print, proof for the customer, retries by queue and panel, replacing older files | two jobs at once, failures in the middle, rows of jobs found by guess; the row written after the job was retried |
| E-mail, templates, analytics, storage, audit | files, queues, rules | see `PROJECT.json` | mostly data conversion and calls to other systems |

How they interact: orders arrive by webhook or synchronisation; their status
starts reservations and WZ documents; documents and reservations move
`currentStock`; a change of `currentStock` queues publications to the shops, as
does a wholesaler's feed that changes an offer. A shipment issues the invoice,
an invoice closes the WZ; returns and cancellations undo documents, correct the
invoice and refund in the shop.
Cases of an order are rendered to files; a file becomes a print job; an agent
takes the job, prints it and reports. Shared state is the database, at READ
COMMITTED: single statements do not interleave, but what others commit between
two statements of one `$transaction` is seen by the second. A transaction's own
writes become visible when it commits. The only other shared state is Redis
(BullMQ) and variables of the process such as `lastReaperRun`.

What makes the modelled parts correct:

- stock accounts for what documents moved and reservations hold (`StockBalance`);
- reservations and documents agree on what was issued (`ConsumedIffIssued`),
  and, as long as requests follow each other, an order never holds more than it
  needs (`ReservedWithinNeed`);
- an order has one WZ (`OneOpenWz`), whatever runs at once, and the unique index on
  the active reservation of an order line never refuses what a reservation
  transaction is about to write (`NeverRefused`); a closed order takes no new
  reservation (`ClosedTakesNoReservation`);
- what a wholesale order brings is received once (`ReceivedOnce`);
- stock does not become negative by selling (`OnlyUndoGoesNegative`, `NeverNegative`);
- every request is answered (`EveryRequestEnds`);
- a queued print job goes to one agent (`HandedOutOnce`), who has the only valid
  token (`LeaseHeld`), at most `maxAttempts` times (`HandoutsBounded`); nothing
  that may be on paper is printed again unasked (`NoAutomaticReprint`); a silent
  agent's job is taken from it (`SilentJobsEnd`); ended jobs stay ended
  (`FinalIsFinal`) and active ones are not cleaned up (`ActiveJobsSurvive`);
- a write brings a shop only parts of one decision on what the warehouse had, and
  the shop comes to show what the warehouse has (`MirrorsWarehouse`); mappings hold what feeds reported (`OffersAreReported`)
  and offers reach the shops (`OffersReachShops`);
- listed orders catch up with the shop (`ListedCatchUp`), their customers are
  invited once (`InvitedOnce`) and told of each shipment status once
  (`NotifiedOnce`, `StatusIsFollowed`);
- an order is invoiced once (`InvoicedOnce`), before its goods are issued by an
  automation (`GoodsAfterInvoice`); it is not returned, restocked, corrected or
  refunded twice (`PiecesCountOnce`, `ToldOnce`), nor
  left with half a deletion or half a cancellation (`UndoneIsUndone`);
- what is ready for print is what the customer approved (`PrintedAsApproved`); a
  case keeps its last package (`PackageKept`); render jobs end (`JobsEnd`);
- a refresh token is exchanged once (`RenewedOnce`) and a logout is final
  (`LogoutIsFinal`).

## 2. Modules

| Module | Contents |
|---|---|
| `WarehouseLedger` | reservations, documents, status effects, recalculation |
| `MCWarehouseLedger` | instances for TLC |
| `WarehouseLedgerProofs` | `NeverRefused` and `OneOpenWz` for all parameters |
| `WarehouseStockProofs` | types for any number of requests; which steps let an order hold more |
| `WarehouseBalanceProofs` | with one request at a time: needs of orders, balance of the stock, receipts, issues, closed orders, negative stock |
| `SumFacts` | lemmas about sums over finite sets, used by the proofs of the ledger and of returns |
| `PrintJobs` | the print queue, its agents and its clean-up |
| `MCPrintJobs` | instances for TLC |
| `PrintJobsProofs` | its invariants and action properties: some with one request at a time, some for any number |
| `StockPublication` | publication of one product's stock to one shop: logs, jobs, workers |
| `InventoryMirror` | abstract: what that publication promises |
| `WholesaleSync` | synchronisation of a wholesaler's feed and the daily publication |
| `OrderIntake` | webhooks, order synchronisation and the panel's status changes |
| `OrderReturns` | returns and cancellations of an order, their retry and deletion |
| `AuthSessions` | sessions of a user |
| `ShipmentNotices` | statuses of a shipment and the messages about them |
| `OrderInvoicing` | the invoice of an order and the WZ it closes |
| `PersonalizationCases` | the case of one ordered item: customer, panel, render worker |
| `MCServices` | instances of returns, sessions and invoices for TLC |
| `MCCustomers` | instances of cases and shipments for TLC |
| `MCExchange` | instances of publication and wholesale for TLC |
| `ServicesProofs` | proofs about sessions, invoices and returns |
| `ExchangeProofs` | proofs about publication (it implements the safety part of `InventoryMirror`), wholesale and intake |
| `CustomersProofs` | proofs about shipments and cases |

All models have the same form. A *handler* is a request that is being served.
`at[h]` (`saga`, `doing`, `hop`, `task`, `pending`, `sending` in the smaller
modules) is the step it is about to take, with everything it has read and will
use later; a step ends where the code awaits a read outside a transaction or
commits one, and inside a transaction where it awaits a read that decides what it
writes later, if others can change what was read. Reading and writing are thus
separate where the code separates them, and what is read can be stale when it is
written; where a read and its write are one step, it is said below. `Crash` drops
the rest of a request (an exception of the database, or the end of the
process); what was committed stays.

### WarehouseLedger

`stock` is `currentStock` of one product; `res` and `doc` are rows with the
columns the code decides on; `order` is `operationalStatus`; `lock` is
`pg_advisory_xact_lock` of an order (`warehouse-reservations.service.ts:171`);
`rest` is what a handler does after the call it is in, so that
`confirmDocument`, called by `createWzForOrder`, returns to its caller.

| Action | Code |
|---|---|
| `Reserve`, `ReserveTx`, `Apply` | `reserveOrder`: status check; read under the lock and plan (`PlanSplit`); write by id and commit, unless the unique index on active reservations refuses it (`Refused`) |
| `ReleaseTx`, `Apply` | `releaseOrderReservations` |
| `Wz`, `Collect`, `WzTx` | `createWzForOrder`, with its one retry after the unique index refused it |
| `Sync`, `SyncTx` | `syncWzDraftItemsWithReservations` |
| `Zh`, `ZhCollect`, `ZhTx` | `createZhForOrder`: a draft ZH for backorders that have none, after `reserveOrder` where there are no reservations |
| `CreatePz`, `PzTx` | `createPzFromWholesaleOrder`: a PZ, confirmed at once if asked for, and the confirmed ZH |
| `Finalize` | `finalizeOrderShipment` |
| `Confirm`, `ReadConsumed`, `ConfirmTx` | `confirmDocument`: check; its transaction reads the reservations of the items one by one (`consumeDocumentReservations`); writes by id and commit. `WzTx` does the same where it confirms. `Realloc`, `ReallocOrders`, `ReallocDrafts` the reallocation after it |
| `CancelDocument`, `ReadReleased`, `CancelTx`; `DeleteDocument`, `DeleteTx` | cancellation, with `releaseDocumentReservations` read one by one and written by id; deletion |
| `UpdateDocument`, `UpdateTx` | `updateDocument`: new items, a new order for a draft WZ, or both |
| `AddItem`, `SetItem`, `DropOwn`, `DropItem` and their `Tx` | items of a draft |
| `ChangeStatus`, `ReserveAndWz` | a status set by panel, webhook or synchronisation, and its effects |
| `Recalculate`, `RecalculateTx` | `recalculateStockCache` |
| `SyncOffers` | a provider starts or stops offering the product |

Abstractions: one product, and one line in every order, so a plan is for one
quantity (lines of one order are independent but for the order's lock); whole
quantities instead of decimals; one provider, so an order needs one ZH at a
time; numbers, prices and purchase costs left out. `createPzFromWholesaleOrder`
also closes a draft ZH whose PZ exists: the only step that makes a PZ of a ZH
confirms the ZH, and a confirmed document never becomes a draft again, so that
branch is not reached.

How transactions are cut: a transaction writes when it commits, in one step with
its last read. `reserveOrder` and `releaseOrderReservations` read in a step of
their own under the order's lock, for confirmations and cancellations, which do
not take it, may write between. `consumeDocumentReservations` and
`releaseDocumentReservations` read each reservation in a step of its own
(`unread` holds those still to come) and write by id what they found active, or
holding, whatever it is by then. The partial unique index on active reservations
is checked where reservations are created, that on the WZ of an order where a WZ
is created, confirmed or revived; either refuses the transaction. Two things of
the database are left out: the row locks that a transaction keeps until it
commits, so that the model lets others write where PostgreSQL makes them wait,
and the advisory lock that numbers documents, which is held for no other read.
`mergeDocumentItem` (`AddItemTx`) reads and writes in one step; two of them at
once could lose an amount, and no property that is checked with two requests
speaks of amounts.

### PrintJobs

`job` is the `PrintJob` table, `agents` the status of `PrintAgent` rows,
`assets` the files that still have a row, `window` whether the reaper's
throttle (`REAPER_THROTTLE_MS`) has run out. Tokens are numbered: token *n* of
a job is the one of its *n*-th handout. `handed` and `queued` are history (who
got the job, how often it entered the queue): no guard of the code reads them;
an agent speaks with a token it was really given, at any time, as often as it
likes, or never.

| Action | Code |
|---|---|
| `Poll`, `ReadCandidates`, `ClaimOne` | `POST /jobs/claim`, `claimPrintJobs`: the reaper first, then the candidates one conditional update at a time |
| `List`, `ReclaimOne`, `MarkStale` | `listPrintJobs`; `reclaimStalePrintJobs` |
| `Report`, `ReportRead`, `ReportTx` | `POST /jobs/:id/status`: `getAgentJob` checks the token, `reportJobStatus` reads again and updates by id |
| `Download`, `NoFileTx` | `GET /jobs/:id/file` of a file that is gone |
| `Create`, `Retry`, `CreateTx`; `Cancel`, `CancelTx`; `Resolve`, `ResolveTx` | the panel |
| `UpdateAgent`, `DeleteAgent`, `DropAgentTx` | administration of agents; the foreign key becomes null |
| `CleanCase`, `DropAssetsTx`, `Prune` | `deleteCasePrintAssets` with its cascade; `pruneJobHistory` |
| `Expire`, `OpenWindow` | the clock |

Abstractions: one profile that all agents know, one priority, one number of
copies. Time is three values of a lease (none, live, expired) and one of the
throttle: what the code compares. A lease that runs out while the reaper is at
work counts as expired for its last statement, a few milliseconds early. The
queries of the agent's status and of the job, and those of the file and the
agent in `createPrintJob`, are one read. A download that finds the file changes
nothing and is left out. Whether the case is old enough to be cleaned is a free
choice.

### StockPublication and InventoryMirror

One product in one shop. `own` and `offer` are what the warehouse and the
wholesaler have, `bulk` whether the shop has the module for bulk updates, `logs`
the `StockSyncLog` rows, each with the job it was made for and the one that
queued it again, `sending` the publications that run, one for each reason (a
document, a wholesale sync, the daily task).

| Action | Code |
|---|---|
| `BeginPublication`, `Decide`, `Compare`, `CreateLog`, `AddJob` | `publishInventoryToShops`: product, offers (`resolvePublicationDecision`), the last log for `skipUnchangedPublication`, log, job |
| `TakeRetry`, `Process`, `Answer` | `stock-sync.worker.ts`: the older kind of job reads again; PROCESSING; the answer of the shop |
| `WriteBulk` | `bulkUpdateStock`: one request; a quantity in stock that is not given is left as it is |
| `WriteStock`, `WriteAvailability` | `updateStockQuantity` of a shop without the module: two PUTs of the webservice, the stock with its behaviour out of stock, then the availability; the quantity in stock is never sent |
| `RetryLog` | `retryStockSyncLog` |
| `Requeue` | `requeuePendingStockSyncLogs` (`POST /stock-sync-logs/requeue-pending`): every log that is PENDING, also one whose job was lost or still waits, gets a batch job with the quantity of its row, without the quantity in stock |
| `WriteFails`, `ItemRefused`, `WorkerDies`, `PublicationDies` | failures: three attempts of a bulk job, one of the others; one restart of a stalled job |

`InventoryMirror` is the abstract specification: two warehouse values that
change, and a shop to which a write brings parts of one decision on values they
have had: all of it, or all but the quantity in stock, through the module; its
stock or its policy through the webservice, which can stop between the two. In
the end it shows the present decision, with its quantity in stock where the shop
has the module and the decision has one. `MirrorsWarehouse` says that
`StockPublication` implements it (`INSTANCE InventoryMirror WITH Show <-
Decision`). It promises nothing about the order of writes, because the code does
not: an older quantity may follow a newer one until the next daily publication,
and a job that was queued again may leave a quantity in stock that fits another
decision than the rest.

Abstractions: an `inStock` of 0 is none, as in the jobs; that the module leaves
alone what it is not given is taken from how the client calls it. The id of a job
queued again is the log's, as that of the first: a publication whose log was
queued before its own job was added may find that job and add none (`AddJob`,
`Requeued`); where the log is of the older kind, its waiting job is removed. The
reads of `retryStockSyncLog` are one step, and the delay of batches is covered by
jobs that wait. Logs nothing can read again are forgotten, so that the state
stays finite; a PENDING one is kept, for it can be queued again. Batches carry
one product each; activation of products and lead times are left out.

### WholesaleSync

`syncs` are `WholesaleSyncLog` rows with their jobs, `mappings` the SKUs of the
provider, `staged` the logs with rows in `WholesaleFeedStagingItem`, `shown` what
shops offer. The queue has one worker (`run`). The whole of `StockPublication`
is one action here (`PublishOffers`, `DailyPublication`).

| Action | Code |
|---|---|
| `RequestSync`, `CreateSync`, `AddSyncJob`, `QueueFails` | `enqueueWholesaleProviderSync` |
| `StartSync`, `FetchFeed`, `StageFeed`, `ReadMappings`, `ApplyFeed`, `PublishOffers` | `runWholesaleSyncJob`, `processWholesaleSyncJob` |
| `SyncFails`, `SyncDies`, `RequestDies` | failure, death of the worker (started once more), of the request |
| `SupplierWrites`, `MapProduct` | another file; a link made or cut by the operator |

Two consequences of the code are visible in the model and accepted by the
properties. A log whose request died before its job was added stays PENDING,
is the answer to every later request, and the daily publication waits for it
until it gives up: `OffersReachShops` names it as its only exception. And the
size of a limited sync becomes the baseline of the next full one. The daily
publication counts the logs of providers with synchronisation switched on; the
one modelled is.

### OrderIntake

`theirs` are the shop's orders, `orders` the rows here, `event` the message about
every status of an order with its `ShopWebhookEvent`, `lastSync` the day of
`lastSyncAt`.

| Action | Code |
|---|---|
| `Receive`, `Reprocess`, `StatusFromWebhook`, `Lookup`, `EndRequest` | `handlePrestaShopOrderWebhook`, `reprocessShopWebhookEvent`, `processShopWebhookEvent` |
| `Find`, `ReadState`, `RefreshExisting`, `FetchDetails`, `CreateOrder`, `CreateItems`, `Invite` | `importPrestaShopOrder`, `createOrderFromDetails` |
| `PanelSetsStatus`, `PushToShop`, `Unpushed` | `updateOrderStatus` |
| `Effects`, `Hold` | `applyOrderStatusWarehouseEffects`; the transaction of `reserveOrder` after its check |
| `BeginSync`, `NextOrder`, `FinishSync` | `syncShopOrders` |

Abstractions: PENDING and FAILED events are one value, since nothing tells them
apart; registering an event and writing the status are one step; shop states
map one to one to operational statuses; the states of a synchronisation are
fetched in one call; `forceRelease`, `fromDate`, `fromOrderId` and deletions by
the shop are left out. `ListedCatchUp` excepts orders crowded out by the limit
and orders last changed before the day of the last synchronisation. An order
whose import died between `order.create` and its items keeps no items for ever;
the model does it, and the property asks for stock only where there are items.

### OrderReturns

`returns` are `OrderReturn` rows with their correction document, `zwDocs` the ZW
documents, `saga[h]` the next statement. `ext` counts what iFirma and PrestaShop
did and how much of it could not be recorded.

| Action | Code |
|---|---|
| `CreateReturn`, `CancelOrder`, `RetryReturn`, `CreateRecord`, `BeginExecution` | the requests, `createOrderReturnRecord`, `executeOrderReturn` |
| `CancelWarehouse`, `CancelWz`, `Restock`, `LinkZw`, `ConfirmZw` | `performWarehouseStep` |
| `Ifirma`, `IssueCorrection`, `RecordCorrection` | `performIfirmaStep` |
| `Presta`, `CreateSlip`, `RecordSlip` | `performPrestaShopStep` |
| `FinalStatus`, `CompleteExecution`, `FailExecution` | the end |
| `DeleteReturn`, `UndoWarehouse`, `CancelRow`, `RefreshOrder` | `deleteOrderReturn` |
| `Ship`, `AcceptGoods`, `CrashReturn` | the warehouse, the operator, the process |

One request at a time: nothing in the code keeps two apart, and with two, two
retries issue two corrections, a deletion overtakes an execution, and the
quantities of two records are not checked against each other. Things the model
does that no property forbids: a crash between `createDocument` and the link
leaves a draft ZW nobody names (`AcceptGoods` leaves it alone); a return whose
deletion died after its ZW was cancelled completes without goods when retried;
an interrupted return retried after a cancellation overwrites CANCELLED with
RETURNED; a cancellation refused because goods were restocked stays FAILED,
counts as returned and cannot be deleted. Operations that refund only shipping
and the status written to the shop are left out. `CancelRow` is the two updates
of a deletion (`order-returns.service.ts:192-216`), which a crash could separate;
the two errors that `performIfirmaStep` finds before it writes anything, an issued
invoice without iFirma's id (`:498-500`) and a payload that cannot be built
(`:538-540`), are collapsed with iFirma's refusal, which has written PENDING
before.

### AuthSessions

`Login`, `CreateSession`, `Refresh`, `Rotate`, `Logout` are the methods of
`AuthService` at their awaits; a token is the second it was issued in (`iat`), as
the code's tokens of one session and second are the same string. `held` are the
tokens clients were given; the answer of `Rotate` may never arrive.

### ShipmentNotices

One shipment, one rule that matches every status. `AskShop`, `ReadParcel`,
`UpsertParcel` are `syncShipmentsForShop` and `upsertShipmentRow`; `ReserveRun`,
`SendNotice`, `RecordRun` are `triggerShipmentStatusAutomations`. Scheduler and
operator may overlap, so late answers may be written over newer ones and
notices come out of order. A crash between the row and the reservation loses
the message for ever, since the status is no change any more: the second half
of `StatusIsFollowed` has the premise that nothing failed. Keys are kept 90
days. A synchronisation looks at 500 orders at most, none older than 21 days:
both limits are outside the model, so `StatusIsFollowed` is about shipments within
them.

### OrderInvoicing

`bill` is the PRIMARY `SalesDocument`, `goods` the order's WZ, `task[h]` the next
statement with what follows it.

| Action | Code |
|---|---|
| `IssueInvoice`, `PrepareInvoice`, `CallFirma`, `RecordIssued`, `RecordFailed`, `MailInvoice`, `RecordSent` | `issueOrderInvoice`, `issuePreparedInvoice`, `sendInvoiceEmail` |
| `RetryInvoice`; `CancelInvoice`, `Withdraw` | `retryInvoice`; `cancelInvoice` |
| `ReserveRule`, `FindDraft`, `CheckScans`, `ConfirmGoods` | `triggerInvoiceIssuedAutomations`, `executeConfirmOrderWzAfterInvoice` |
| `ParcelSent`, `AfterShipment`, `LoadBill`, `ReadBack`, `EnsureWz` | `issueInvoiceAfterShipment` |
| `WarehouseWorks`, `BillingDies` | documents made by hand; failures |

`CancelInvoice` changes the panel's row only, as the code says; `inFirma` counts
the invoices the panel was told of, and an invoice withdrawn here counts as
cancelled there by hand. `InvoicedOnce` has the premise that no two requests
overlapped (`~raced`): a PENDING invoice is not refused, so two overlapping
requests do issue two. An answer that is lost makes the row FAILED, and a retry
issues another invoice. `GoodsAfterInvoice` needs no such premise. Mail by hand,
the link published to the shop and errors of the preview are left out;
`confirmDocument` is one step.

### PersonalizationCases

`pcase` is the `PersonalizationCase`, `rows` its answers row by row, `layout` the
template's layout, `doing[h]` the next statement of a request, `jobs` the
`RenderJob` rows with their BullMQ jobs, `runs[w]` the next statement of the job
in slot `w` of the worker, `assets` the files in order of creation: a file keeps
its place, which is its id, and is `Gone` once it was deleted. `approved` is
history: the answers and the layout of the customer's last approval, none once
the panel changed them or opened the case again; no guard reads it. `spent` counts requests
and faults; a behaviour stays within one of the `Budgets`.

| Action | Code |
|---|---|
| `Receive`, `SaveAnswers`, `SaveDraft`, `SavePreview`, `UploadPreview`, `SaveMerged`, `Check`, `Approve` | the customer's routes: read and guards, rows of answers, the update by link or by id |
| `Judge`, `RejectPackage`, `CreateJob`, `AddJob`, `QueueFails`, `ConfirmSent` | `enqueueCasePrintPackage`, `enqueueCaseProofPdf` |
| `RequestPackage`, `UpdateCaseStatus`, `ReadForUpdate`, `UpdateCaseAnswers`, `RefreshCaseLayout`, `ResendEmail`, `DeletePackages` | the panel |
| `RetryJob`, `MarkRetried` | `POST /admin/render-jobs/retry/:id` and `/retry-failed` (`render-jobs.routes.ts:125-236`): a failed job goes back to the queue for one attempt more, then its row is set to PENDING, whatever became of the job by then |
| `TakeJob`, `StartPackage`, `RefusePackage`, `SaveFiles`, `SaveZip`, `CleanUp`, `FinishPackage`, `RenderFails` | `render.worker.ts`, `generateCasePrintPackage` |
| `RenderProof`, `ListProofs`, `SaveProof`, `DropProofs` | `generateCaseProofPdf` |
| `Catch` | the catch of `processRenderJob`, and BullMQ's next attempt |
| `EditTemplate`, `ExpireLink`, `WorkerDies`, `ApiDies` | the editor of templates, the clock, failures |

Abstractions: answers and corrections of the layout are one value, validation is
the relation `Fits` between it and a layout, the files of all pieces of a package
are one file beside its ZIP; "older than the start" is the set of files there
were at the start. Jobs are taken in any order, so that the priority of packages
does not matter. A retry reaches the job of the row's own id or, where the worker
wrote the id of an earlier job of its kind into the row (it marks the newest row),
that one; `/retry-failed` is one row after another. That BullMQ drops failed jobs
in time (50, or 7 days) is left out: such a retry adds nothing. Files with an
active print job are kept by `deleteCasePrintAssets`; that is in `PrintJobs`. Left out: notes, automations of cases, help requests,
progress per piece, the mail of the proof, creation of cases and links, and
PNG_PREVIEW and PDF_PRINT jobs, which nothing puts in the queue.

Things the model does that its properties except or do not speak of:

- a failed attempt makes the case FAILED_RENDER, which is open to the customer;
  the retry prints what he saved since (`PrintedAsApproved` is about cases
  without a failed render, which those with a retry are not either);
- a retried job may end before the panel writes PENDING into its row, which then
  stays PENDING for ever (`JobsEnd` speaks of rows only where nothing was retried,
  of the queue always);
- a draft whose guard passed before an approval is written after it and opens
  the case again (one request of the customer at a time);
- `updateCaseAnswers` submits a case without freezing its layout (`approved` is the
  customer's approval only);
- a case that was opened again keeps its snapshot: the next approval validates
  against it and freezes the layout the template has by then, so that answers
  which do not fit are approved and their package is refused;
- a package that started later deletes the separate files an earlier one has saved
  before its ZIP; two proofs made at once both stay.

### MCServices, MCCustomers, MCExchange

Services that share no state are checked in one run each, to keep what each
run asks distinct: `part` chooses the service a behaviour is about, the others
rest in one state. Their fairness is that of the service that moves;
`MCServices` needs none, since it has no liveness property.

## 3. Runs

| Run | Shows |
|---|---|
| `Sequential` | one request at a time of nearly every kind (see below), crashes: `TypeOK`, `StockBalance`, `ConsumedIffIssued`, `ReservedWithinNeed`, `ClosedTakesNoReservation` |
| `TwoOrders` | two orders, their wholesale orders and hand-made documents compete, one request at a time: `StockBalance`, `ReceivedOnce`, `OnlyUndoGoesNegative` |
| `Concurrent` | two requests at a time, with recalculation and WZs given to another order, crashes: `NeverRefused`, `OneOpenWz`, `EveryRequestEnds` |
| `PrintSequential` | one request at a time, all of them: `PrintTypeOK`, `HandoutsBounded`, `LeaseHeld`, `FinalIsFinal`, `ActiveJobsSurvive` |
| `PrintRaces` | two requests at a time, one tenant: `HandedOutOnce`, `NoAutomaticReprint`, `SilentJobsEnd` |
| `Services` | returns one at a time, with two faults; sessions and invoice two at a time: `PiecesCountOnce`, `ToldOnce`, `UndoneIsUndone`; `RenewedOnce`, `LogoutIsFinal`; `InvoicedOnce`, `GoodsAfterInvoice`; `ServicesTypeOK` |
| `Customers` | a case with one request of its customer and one of the panel at a time, in two slots of the worker; two overlapping synchronisations of a shipment: `PrintedAsApproved`, `PackageKept`, `JobsEnd`; `NotifiedOnce`, `StatusIsFollowed`; `CustomersTypeOK` |
| `Exchange` | publication and wholesale sync with faults: `MirrorsWarehouse`; `OffersAreReported`, `OffersReachShops`; `ExchangeTypeOK` |
| `Intake` | a webhook or panel request and a synchronisation at a time, two orders, one fault: `InvitedOnce`, `ListedCatchUp`, `IntakeTypeOK` |

Three runs end in a violation of what a comment or document of the repository
says: `Oversell`, `ConfirmCancelled`, `PrintStarvation`; section 6 tells them. Such races are also why some properties are checked with
one request at a time only: with two, `StockBalance`, `ReservedWithinNeed`,
`ReceivedOnce`, `ClosedTakesNoReservation`, `HandoutsBounded`, `LeaseHeld`, `FinalIsFinal`,
`ActiveJobsSurvive`, the properties of returns and, with two requests of the
customer (a draft that overlaps an approval), `PrintedAsApproved` do not hold,
because the code decides on a row it has read and then updates it by id. A
release that read a reservation before a WZ consumed it gives issued goods back
to stock; a WZ that read it before it was released consumes it; a report or cancellation of a print job that read it before it ended
overwrites the final status.

`Sequential` makes every request but `createZh` and `createPz`, which need two
orders to be interesting (`TwoOrders`), `recalculate`, which derives another
stock than the one maintained (see the hazards), and `assign`, the part of
`updateDocument` that gives a draft WZ to another order. With `assign`,
`ConsumedIffIssued` fails with one request at a time: the items keep taking the
reservation of the first order, whose new WZ takes it too; both are confirmed,
and the goods leave the stock once. `Concurrent` includes both.

Bounds. `MaxRequests` limits the requests of a behaviour: 6 are enough to
receive goods, reserve, issue, take back, reserve again and issue again, the
longest cycle the ledger's code distinguishes; races need two requests at a
time and one or two before them, hence 3 to 5. Orders need 2 pieces, so that a
reservation can be full, partial with a backorder, or empty. Row sets
(`ResIds`, `DocIds`) are large enough for the rows these requests can create:
an action that finds no free row is disabled, which only happens in the last
requests of the longest behaviours. For the print queue `MaxAttempts = 2`
distinguishes a first, a last and a forbidden attempt; `MaxHandouts = 3` is one
more than the attempts, so that a third handout would be seen; polls are not
counted at all. `JobIds` has a second row where retries and pruning matter.
Two agents of a tenant are a winner and a loser of a claim; two tenants are
enough to share the throttle. Handlers and, where every order or job is alike,
orders are symmetric; runs with liveness use no symmetry. Requests end when the
bound is reached, but polls and the clock do not, and the ledger's last state
stutters by `Quiescent`, so deadlock is checked for ledger, print queue and
intake. `Services`, `Customers` and `Exchange` really may stop (nobody has to
ask for anything), so it is not checked there.

Returns: two pieces and two rows are a return beside a return, or beside a
cancellation; three ZWs one more than the rows, for the draft a crash leaves; two
faults are a lost answer and a crash, in any order. Sessions: tokens of four
seconds, living two, are a token exchanged, its successor, and an expired one.
Shipments: three statuses and three changes let a status return, with a final
one. Invoices: four requests are issue, cancel, issue again and a parcel; two at
a time race. Publication: stock and offer are there or not, one of them moves
once; three logs are the last published one, a job and the one that overtakes
it; one is queued again, one thing fails. The offer is there at first, and the
stock too in the shop with the module: that is the decision with a quantity in
stock, which only the module is sent. Wholesale: a full feed, one with another stock and one that lost a SKU; two
syncs, limited or not, and two faults, enough for a worker to die twice. Intake:
two orders of which one fits into the list, one midnight, one change, one fault;
with one change of the shop an order does not return to an earlier status.
Cases have five `Budgets` (`CaseBudgets`): four requests of the customer, a draft, an
approval, a refusal and another approval, while the template is edited or the
link expires and the queue fails once; two packages of the panel in two slots and
one more operation, with two failed renders, which use up the attempts (2 here,
3 in the code), and a retry by the panel; an approval whose renders fail twice,
with a retry; one render that fails beside a process that dies, within BullMQ's
limit of one stall of a job; an approval beside any operation of the panel. Two
layouts are the approved one and a later one; complete answers fit both, others
the first only. Where renders fail there is one proof: two approvals with
failing proofs do not fit into the time of a run, so the exception `JobsEnd` makes
for them (the catch marks the newest row of a proof) is stated and not exercised.

Fairness. `WarehouseLedger!FairSpec`: a request that was started and can go on
does go on (`WF` of `Step(h)`): Node runs the continuation once the database
answers, PostgreSQL grants an advisory lock once it is free. Lock contention is
not assumed away: `Step(h)` is disabled while another holds the lock.
`PrintJobs!FairSpec` adds `WF(OpenWindow)`, because 30 seconds pass, and
`SF(Poll(a))`: an agent asks every 10 seconds (`PRINT_AGENT_POLL_INTERVAL_SEC`)
and is served some time, although each moment at which all handlers are busy
disables it. Nothing is assumed of reports, operators, or leases.
`PublicationFairness`: the daily publication begins again and again
(`scheduleDailyInventoryPublication`), a publication goes on, BullMQ serves every
job. `WholesaleFairness`: the worker goes on, a request adds its job unless its
process dies, the daily publication comes. `NoticesFairness` and
`IntakeFairness`: cron tasks come again (every 20 minutes, and at each shop's
interval), what began goes on; messages of the shop are never assumed to
arrive. `CasesFairness`: a request that began goes on, and a slot of the render worker
that has work does it (BullMQ polls its queue and runs the continuations).
All of these are weak, and the faults that interrupt them are bounded.

Every property has a fault among the definitions (`...Unchecked`, `LockIgnored`,
`FailedOnceMore` and others, marked *Fault*) under which its run finds a
violation; no action uses these definitions.

## 4. Proofs

Every invariant and every action property of the passing runs is also a theorem,
for every value of the constants that the assumptions allow. Eight modules hold
them; `PROJECT.json` lists the theorems a reader should know of. "One request at
a time" is a hypothesis (`OneAtATime`, `OneReturnRequest`, `OneCustomer`: the set of
handlers has one element at most), never an assumption of a module. It appears
only where two requests do break the property (section 3). Within it requests
still crash anywhere, are repeated, and follow each other in any order.

### The ledger

**`WarehouseLedgerProofs`**, for any sets of handlers, orders and rows:

- `ReservationsExclusive`: `NeverRefused`, which says of a handler about to write
  that the unique index lets it. The code has lock and index, and the theorem says
  that the first makes the second idle. The invariant: a handler between the read
  and the write of a reservation transaction holds the lock of its order, a lock
  has one holder, an order has one active reservation at most
  (`OneActivePerOrder`), and what the handler has seen contains every active one;
  all other actions, those that read reservations and write them later included,
  leave the set of active reservations alone or shrink it.
- `OneWzPerOrder`: `OneOpenWz`. The invariant is the property itself with the
  shapes of rows and steps: each action that creates, confirms or revives a WZ is
  guarded by the unique index, whatever it has read. A receipt writes rows it
  chose before (`ReceiptsOfZh`): the invariant also says that its wholesale order
  is still one, or its row is deleted, so it never touches a WZ.

Both describe rows by their fields, not by their types, and need no fact about sums.

**`WarehouseStockProofs`**, for any number of requests:

- `WarehouseTypes`: `TypeOK`, from `RowsTyped` (rows) and `StepsTyped` (what each kind
  of step holds, and that what it has read is finite). That a plan has natural
  quantities is `PlanSplitFits`, about `planReservationSplit`.

Its last part prepares `NeverOverReserved`: `PlansWithinNeed` says that what a plan
of `reserveOrder` is about to hold, together with the consumed reservations that
it will not rewrite, stays within the order's need, and the lemmas show that a
step keeps this and `ReservedWithinNeed`, provided that what a handler is about to
consume is active still (`ReadsStand`). That proviso is what two requests break
(section 3), and what one at a time gives.

**`WarehouseBalanceProofs`**, under `OneAtATime`. The invariant `OneInv` is `NeedInv`,
`DocumentsInv` and `FreshInv`: what the one request has read, still holds,
reservation by reservation where it reads them so.

- `NeverOverReserved`: `ReservedWithinNeed`. By `NeedInv`, whose parts are kept as
  `WarehouseStockProofs` shows, since `FreshInv` gives `ReadsStand`: what a
  confirmation found active is active when it commits.
- `StockIsBalanced`: `StockBalance`, without the request "recalculate". `Balance` says
  the same of two sums, over documents and over reservations; each transaction
  changes them by the rows it writes. `recalculateStock` writes what documents
  say, which is another number (see the hazards), so it cannot be included.
- `ReceivedOnlyOnce`: `ReceivedOnce`. `ReceiptsInv`: a PZ that counts is the one its ZH
  names, unless the ZH is gone, and no other PZ counts for it.
- `ConsumedWhereIssued`: `ConsumedIffIssued`, without "assign", with which it fails
  (section 3). `IssueInv`: items link local reservations of their document's own
  order, consumed ones where the document is confirmed, and every consumed
  reservation has such an item. That two documents do not share a reservation
  follows from `OneOpenWz`.
- `ClosedStayUnreserved`: `ClosedTakesNoReservation`.
- `StockFallsByUndoOnly`: `OnlyUndoGoesNegative`, where negative stock is not allowed,
  without "recalculate". A reservation plans no more than it finds beside what
  the order holds; a confirmation compares with the shelf.

**`SumFacts`**: `SumFunctionOnSet` of the community module `Functions` is defined by a
recursion that takes an arbitrary element each time. The module proves that on
finite sets the order does not matter, what one element more or one changed
value does to a sum, and how sums compare. Library theorems with an operator
parameter cannot be used here; these lemmas argue with a smallest counterexample
in a well-founded order of subsets instead.

### Print queue

**`PrintJobsProofs`**, for any agents, files, jobs, `maxAttempts`.

- Under `OneAtATime`: `PrintTypes` (`PrintTypeOK`), `TokenIsLease`, `HandoutsAreBounded`,
  `EndedJobsStay`, all from one inductive invariant `QueueInv`. It consists of
  types, `LeaseHeld`, `Handouts` (`attempts` equals the handouts of a queued job and
  is one less for a leased one, which is why `maxAttempts` bounds handouts), and
  `Reads`: what the request has read still holds. `Reads` is what `OneAtATime` buys.
  `ActiveJobsStay` (`ActiveJobsSurvive`) follows from the same.
- For any number of requests: `QueuedIsHandedOnce`, that is `HandedOutOnce`. The
  invariant `HandoutInv`: a queued job has one more entry than handouts, any other
  at least as many; only the conditional update of the claim hands a job out, and
  it takes it from the queue.
- For any number of requests: `PrintedIsNotRepeated` (`NoAutomaticReprint`). For
  each step it is shown how it can bring a job back to the queue (`JobsMove`):
  the reaper's update is conditional on a status in which nothing was printed, a
  person's decision about a STALE job does not queue it, and what remains is a
  report of failure.

### Sessions, invoices, returns

**`ServicesProofs`**:

- `TokensRotateOnce` (`RenewedOnce`) and `LoggedOutStays` (`LogoutIsFinal`), for any
  requests and sessions. The invariant `MovedOn`: the token of a session is younger
  than every one of its tokens that was exchanged, and the next one a request has
  signed is not older than the one it read. The conditional `updateMany` therefore
  finds an exchanged token at most once.
- `InvoiceBeforeGoods` (`GoodsAfterInvoice`), for any number of requests and failures.
  The invariant `BilledBefore`: an issued row, and every request on its way from a
  recorded invoice to the goods, come after an answer of iFirma. It does not
  depend on `~raced`: whatever two requests do to each other's row, each reads an
  issued row before it touches goods.
- `InvoiceIsOne` (`InvoicedOnce`) and `InvoicingTypes`. The invariant `BillInv`: until two
  requests have overlapped, one is served at most, and the row, the request that
  is on its way and the number of invoices iFirma holds agree, statement by
  statement.
- `ReturnsCountOnce`, `ReturnsToldOnce`, `ReturnsUndone` (`PiecesCountOnce`, `ToldOnce`,
  `UndoneIsUndone`), under `OneReturnRequest`. One invariant for all, `ReturnsInv(h)`,
  where `h` is the handler: each row fits its ZW, its status and what outside
  systems were told (`RowFits`, `Counted`), a ZW belongs to a return, and a
  confirmed one is the one that return names (`DocFits`; a crash leaves drafts
  that no return names), the totals stay within the order,
  and the request fits the row it works on (`SagaFits`). A retry may thus start
  wherever the last attempt stopped.
- `ServicesTypes`: `ServicesTypeOK` of the composition. The composed specification
  implies that of each service, so nothing is proved twice.

### Publication, wholesale, intake

**`ExchangeProofs`**:

- `PublicationShowsTheRead`: every behaviour of `StockPublication`, for any stocks,
  offers and bounds, is one of `InventoryMirror`'s safety part: initial states map
  to initial states, and each step to `WarehouseChanges`, `ShopShows` or a stutter.
  The invariant `ReadOnly`: what a publication has read or decided, and what logs
  and jobs carry, was made of values the warehouse had, with its quantity in stock
  or, in a job that was queued again, without. Each of the three writes then is
  one of those `Brings` allows: the module's with or without the quantity in
  stock, the webservice's of the stock, or of the policy. That the shop catches up
  is liveness, and left to TLC.
- `PublicationTypes`. The bound of the log is not inductive by itself: the
  invariant `LogsFit` counts the publications that have still to write a row
  together with the rows.
- `OffersReported` (`OffersAreReported`) and `WholesaleTypes`, for any feeds. The
  invariant: the feed a run works through, and what it has computed from it, fit
  each other and the mappings at every statement (`RunFits`, `AskingFits`), and
  every mapping holds what was reported last (`OffersKept`). Mappings may change
  between being read and the transaction that writes them, but only in their
  link to a product (`SameOffer`).
- `ExchangeTypes`: types of the composition.
- `CustomerInvitedOnce` (`InvitedOnce`) and `IntakeTypeCorrect` (`IntakeTypeOK`, with
  goods held only for items that are written), for any orders, requests,
  synchronisations and failures. The invariant `InvitedByOne`: one process at most
  is between creating an order and inviting its customer; while it is, the order
  is there and was not invited, and an order that was stays. It needs `Shaped`,
  what a process carries from statement to statement: only a process that created
  the order itself carries `new` as far as the invitation. That a list of orders
  has a first one (`LeastIsThere`) follows from the natural numbers being
  well-founded.

### Shipments and cases

**`CustomersProofs`**:

- `EveryStatusToldOnce` (`NotifiedOnce`) and `NoticesTypes`, for any synchronisations
  and statuses. The invariant `SentByOne`: the run of a status is reserved before
  its message goes out, and one synchronisation at most is about to send it.
- `CasesTypes` and `PackageStays` (`PackageKept`), for any requests and slots of the
  worker. The invariant `CasesInv`: an active job is in one slot's hands and has an
  attempt left; a request carries what its next statement needs; and where there
  is a package, some package is `Spared` by every worker about to clean up: it is
  not among the older files the worker found. When a package is saved nobody has
  listed it yet, and a worker that lists it later saves a newer one before it
  cleans up.
- `ApprovedIsPrinted` (`PrintedAsApproved`), under `OneCustomer`, for any slots of the
  worker, templates, faults of the queue and crashes. The invariant `QuietInv`
  speaks of the behaviours the property is about (`Quiet`: no package or change of
  the panel, no failed render): before
  the job of a package exists there is no package, and a request on its way to it
  carries what the case holds (`Unpacked`); from then on the case is closed with
  the approved design, and every package and every run has that design
  (`Settled`).
- `CustomersTypes`: types of the composition.

### Assumptions

Those of the modules, which TLC evaluates in every run: `IdsAssumption` (rows are
numbered, the tables of the ledger are finite, as those of a database are),
`DataAssumption` (needed quantities are positive), `SettingsAssumption`,
`TenantsAssumption`, `LimitsAssumption` (the claim limit is 1 to 5,
`print-job.service.ts:130`), `AuthAssumption`, `InvoicingAssumption`,
`ReturnsAssumption` (tables are finite, options are flags), `PublicationAssumption`,
`WholesaleAssumption` (a feed is a finite table from SKUs to numbers, or broken),
`IntakeAssumption` (a request is no synchronisation), `NoticesAssumption`,
`CasesAssumption` (`None` is no layout, customers are not the panel), and
`RestAssumption` of `MCCustomers` (the status in which the shipments rest while a
behaviour is about cases is one of a carrier). Bounds are natural numbers,
`None` is nobody.

### Only model-checked

The liveness properties: `EveryRequestEnds`, `SilentJobsEnd`, `JobsEnd`,
`MirrorsWarehouse` as a whole, `OffersReachShops`, `ListedCatchUp`, `StatusIsFollowed`.
They need fairness and `ENABLED`, which are out of the prover's reach. The three
runs that end in a violation have no theorem either, of course: the properties
they check are false.

## 5. Not modelled

`PROJECT.json` lists every part with the reason. In the modelled services:
the ledger leaves out bulk inventory, the purchase cost, the deletion of orders,
the export of several wholesale orders at once (each is a `confirmDocument`), a
new order for a document that is no WZ, items created with a `reservationId`,
and a count of 0 in an inventory document;
`createReservation` and `updateReservationStatus` are called from nowhere. The
print queue leaves out `hello`, tokens of agents and times of contact, which no
step depends on, and options and geometry, which are passed through. What the
other modules leave out is said with each of them in section 2.

## 6. Disagreements met while modelling

| Run | The code |
|---|---|
| `Oversell` | two orders reserve the last piece: the lock is the order's |
| `ConfirmCancelled` | a document cancelled while it is being confirmed is confirmed |
| `PrintStarvation` | the reaper's throttle is shared by tenants, its scope is not: one tenant's polls can starve another's silent jobs |

The texts they contradict are quoted in `PROJECT.json`. Two more are visible in
the models without a run of their own. `warehouse-reservations.service.ts:955` says
that only an active reservation can be consumed by a WZ; in `WarehouseLedger` a
reservation that is released between its read and its write (`ReadConsumed`,
`ConfirmTx`) is consumed, and with a third request that reserves the line again
in between the order holds and was issued more than it needs. `warehouse.md:384`
says that a job reads the current `currentStock`; in `StockPublication` a batch
job, which `publishInventoryToShops` queues, writes the quantity of the moment it
was queued.

## 7. Plan

In order of importance:

1. `WarehouseLedger`: deletion of orders (`orders.service.ts:686`) and bulk
   inventory, and their part in the theorems of the ledger.
2. Price publication (`price/`, `queue/price-sync.*`) as an instance of
   `InventoryMirror`, and the reconciliation with PrestaShop, which overwrites
   `currentStock` (`prestashop-reconciliation.service.ts:321`).
3. Automations of cases, the mail of the proof; the clean-up of warehouse
   products.
4. `RenewedOnce`, `InvitedOnce`, `NotifiedOnce` say "at most once" for any number of
   requests; what may be lost by a crash, and is found again by the next
   synchronisation, could be stated by abstract specifications of their own.
