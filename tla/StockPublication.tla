-------------------------- MODULE StockPublication --------------------------
(***************************************************************************)
(* Publication of a product's stock to one shop.                           *)
(*                                                                         *)
(* publishInventoryToShops reads the product, then the offers of the       *)
(* wholesalers, decides what the shop should show, writes a StockSyncLog   *)
(* and queues a job that carries the decision.  Workers write to the shop, *)
(* several at a time: with one bulk request, or with two requests of the   *)
(* webservice, of which the second may fail.  Logs that are PENDING can be *)
(* queued again by the panel.  Every kind of publication runs at most once *)
(* at a time here; a kind stands for its reason, StockSyncTriggeredBy.     *)
(*                                                                         *)
(* A log and its jobs are one record of "logs": the job it was made for    *)
(* and the one requeuePendingStockSyncLogs added.  "age" is its place in   *)
(* the order of creation.  A log no rule can read again is forgotten.      *)
(***************************************************************************)
EXTENDS Integers, FiniteSets

CONSTANTS
    StockLevels,        \* values of currentStock
    SupplierOffers,     \* values of the wholesale mapping
    MinimumForSale,     \* minimumStockForSale of the provider
    MaxLogs,            \* bound of the logs that still matter
    MaxMoves,           \* bound of the changes of stock
    MaxRequeues,        \* bound of the PENDING logs queued again
    MaxPublishFaults    \* bound of the failures

ASSUME PublicationAssumption ==
    /\ StockLevels \subseteq Int /\ StockLevels # {}
    /\ SupplierOffers \subseteq [stock : Nat, future : BOOLEAN] /\ SupplierOffers # {}
    /\ MinimumForSale \in Nat
    /\ MaxLogs \in Nat \ {0}
    /\ MaxMoves \in Nat /\ MaxRequeues \in Nat /\ MaxPublishFaults \in Nat

Reasons == {"DOCUMENT_CONFIRM", "WHOLESALE_SYNC", "SCHEDULED"}
Attempts == 3

VARIABLES
    own,        \* currentStock
    offer,      \* lastKnownStock and warehouseAvailableAt of the mapping
    ownSeen, offerSeen, \* the values they have had (not in the code)
    bulk,       \* hasBulkModule of the shop, which never changes
    shop,       \* what the shop shows
    logs,       \* StockSyncLog rows and their jobs
    sending,    \* the publications that run
    moves,      \* changes of stock so far
    requeues,   \* logs queued again so far
    publishFaults \* failures so far

warehouse == <<own, offer, ownSeen, offerSeen, bulk>>
publishVars == <<warehouse, shop, logs, sending, moves, requeues, publishFaults>>

(* resolvePublicationDecision *)
OnOffer(f) == f.stock > 0 /\ f.stock >= MinimumForSale
Expected(f) == f.future /\ MinimumForSale = 0

(* An inStock of 0 stands for none: only the mixed policy has one. *)
Decision(o, f) ==
    CASE o > 0 /\ OnOffer(f) ->
            [qty |-> o + f.stock, inStock |-> o, outOfStock |-> 0,
             policy |-> "IN_STOCK_WITH_BACKORDER"]
      [] o > 0 /\ ~OnOffer(f) ->
            [qty |-> o, inStock |-> 0, outOfStock |-> 0, policy |-> "IN_STOCK"]
      [] o <= 0 /\ (OnOffer(f) \/ Expected(f)) ->
            [qty |-> 0, inStock |-> 0, outOfStock |-> 1, policy |-> "BACKORDER_FROM_WHOLESALE"]
      [] OTHER ->
            [qty |-> 0, inStock |-> 0, outOfStock |-> 0, policy |-> "OUT_OF_STOCK"]

Decisions == {Decision(o, f) : o \in StockLevels, f \in SupplierOffers}
WithoutInStock(d) == [d EXCEPT !.inStock = 0]

Idle == [at |-> "idle"]
NoJob == [at |-> "none"]
Job(d) == [at |-> "waiting", sends |-> d, attempts |-> 0, stalled |-> FALSE]
(* The log whose publication is still to add its job. *)
Unqueued(s) == [at |-> "unqueued", by |-> s]

With(l, n, j) == [l EXCEPT !.jobs[n] = j]
At(l, n, a) == With(l, n, [l.jobs[n] EXCEPT !.at = a])

(* A log of publishInventoryToShops names the product in the shop; the log *)
(* of a retry does not, and its job is of the older kind.                  *)
NewLog(d, j) ==
    [age |-> Cardinality(logs) + 1, st |-> "PENDING", item |-> d, named |-> TRUE,
     jobs |-> <<j, NoJob>>]
RetriedLog(d, j) == [NewLog(d, j) EXCEPT !.named = FALSE]

(* The webservice is never sent the quantity in stock. *)
PublicationInit ==
    /\ own \in StockLevels /\ ownSeen = {own}
    /\ offer \in SupplierOffers /\ offerSeen = {offer}
    /\ bulk \in BOOLEAN
    /\ shop = (IF bulk THEN Decision(own, offer) ELSE WithoutInStock(Decision(own, offer)))
    /\ logs = {[age |-> 1, st |-> "SUCCESS", item |-> Decision(own, offer), named |-> TRUE,
                jobs |-> <<NoJob, NoJob>>]}
    /\ sending = [s \in Reasons |-> Idle]
    /\ moves = 0 /\ requeues = 0 /\ publishFaults = 0

(* A log that is PENDING can be queued again, even without a job. *)
Over(l) == l.st # "PENDING" /\ \A n \in 1..2 : l.jobs[n] = NoJob

(* Logs that are read no more: they failed, or do not name the product, or *)
(* a later one succeeded.                                                  *)
Needed(l, ls) ==
    \/ ~Over(l)
    \/ /\ l.named /\ l.st # "FAILED"
       /\ \A k \in ls : k.age > l.age => ~(k.named /\ k.st = "SUCCESS" /\ Over(k))

Forget(ls) ==
    LET kept == {l \in ls : Needed(l, ls)}
    IN {[l EXCEPT !.age = Cardinality({k \in kept : k.age <= l.age})] : l \in kept}

Update(l, m) == logs' = (logs \ {l}) \cup {m}
UpdateAndForget(l, m) == logs' = Forget((logs \ {l}) \cup {m})

Failing == publishFaults < MaxPublishFaults /\ publishFaults' = publishFaults + 1

(* Stock and offers change for reasons of their own. *)
StockMoves ==
    /\ moves < MaxMoves /\ moves' = moves + 1
    /\ \E o \in StockLevels \ {own} : own' = o /\ ownSeen' = ownSeen \cup {o}
    /\ UNCHANGED <<offer, offerSeen, bulk, shop, logs, sending, requeues, publishFaults>>

OfferChanges ==
    /\ moves < MaxMoves /\ moves' = moves + 1
    /\ \E f \in SupplierOffers \ {offer} : offer' = f /\ offerSeen' = offerSeen \cup {f}
    /\ UNCHANGED <<own, ownSeen, bulk, shop, logs, sending, requeues, publishFaults>>

(* Room for the log of every publication that runs, and of the daily one. *)
Unlogged == {s \in Reasons : sending[s].at \in {"read", "decided", "compared"}}
Room(s) ==
    Cardinality(logs) + Cardinality(Unlogged) + (IF s = "SCHEDULED" THEN 0 ELSE 1) < MaxLogs

(* publishInventoryToShops: the mappings with their products, ... *)
BeginPublication(s) ==
    /\ sending[s] = Idle
    /\ Room(s)
    /\ sending' = [sending EXCEPT ![s] = [at |-> "read", own |-> own]]
    /\ UNCHANGED <<warehouse, shop, logs, moves, requeues, publishFaults>>

(* ... the offers, ... *)
Decide(s) ==
    /\ sending[s].at = "read"
    /\ sending' = [sending EXCEPT ![s] =
            [at |-> "decided", item |-> Decision(sending[s].own, offer)]]
    /\ UNCHANGED <<warehouse, shop, logs, moves, requeues, publishFaults>>

(* ... the last log that has not failed, for the wholesale sync only; a    *)
(* publication of what it carries is skipped, ...                          *)
(* Fault: the daily publication skips what is unchanged too. *)
SkipsUnchangedDaily(s) == s # "DOCUMENT_CONFIRM"
SkipsUnchanged(s) == s = "WHOLESALE_SYNC"

(* getLastPublishedInventoryStates *)
Published == {l \in logs : l.named /\ l.st # "FAILED"}
IsLastPublished(d) == \E l \in Published : l.item = d /\ \A k \in Published : k.age <= l.age

Compare(s) ==
    /\ sending[s].at = "decided" /\ SkipsUnchanged(s)
    /\ sending' = [sending EXCEPT ![s] =
            IF IsLastPublished(sending[s].item)
            THEN Idle
            ELSE [at |-> "compared", item |-> sending[s].item]]
    /\ UNCHANGED <<warehouse, shop, logs, moves, requeues, publishFaults>>

(* ... the log is created, ... *)
CreateLog(s) ==
    /\ sending[s].at = (IF SkipsUnchanged(s) THEN "compared" ELSE "decided")
    /\ logs' = logs \cup {NewLog(sending[s].item, Unqueued(s))}
    /\ sending' = [sending EXCEPT ![s] = [at |-> "logged"]]
    /\ UNCHANGED <<warehouse, shop, moves, requeues, publishFaults>>

(* ... and when all are its job is added, unless the log was queued again  *)
(* before and the queue knows a job of that name.                          *)
Requeued(l) == l.st # "PENDING" \/ l.jobs[2] # NoJob
AddJob(s) ==
    /\ sending[s].at = "logged"
    /\ \E l \in logs :
          /\ l.jobs[1] = Unqueued(s)
          /\ \/ Update(l, With(l, 1, Job(l.item)))
             \/ Requeued(l) /\ UpdateAndForget(l, With(l, 1, NoJob))
    /\ sending' = [sending EXCEPT ![s] = Idle]
    /\ UNCHANGED <<warehouse, shop, moves, requeues, publishFaults>>

(* The process dies, or the queue cannot be reached: the log stays PENDING. *)
PublicationDies(s) ==
    /\ sending[s] # Idle
    /\ Failing
    /\ IF sending[s].at = "logged"
       THEN \E l \in logs : /\ l.jobs[1] = Unqueued(s)
                            /\ UpdateAndForget(l, With(l, 1, NoJob))
       ELSE UNCHANGED logs
    /\ sending' = [sending EXCEPT ![s] = Idle]
    /\ UNCHANGED <<warehouse, shop, moves, requeues>>

(* retryStockSyncLog, which may die before it adds the job. *)
RetryLog ==
    /\ Room("MANUAL")
    /\ LET d == Decision(own, offer)
       IN \/ logs' = logs \cup {RetriedLog(d, Job(d))} /\ UNCHANGED publishFaults
          \/ logs' = logs \cup {RetriedLog(d, NoJob)} /\ Failing
    /\ UNCHANGED <<warehouse, shop, sending, moves, requeues>>

(* requeuePendingStockSyncLogs: the logs do not hold what the jobs sent as *)
(* the quantity in stock.  A job of the older kind is removed if it still  *)
(* waits when its turn comes.                                              *)
Requeue(l) ==
    /\ l.st = "PENDING" /\ l.jobs[2] = NoJob
    /\ requeues < MaxRequeues /\ requeues' = requeues + 1
    /\ \E j \in {l.jobs[1], NoJob} :
          /\ j = NoJob => l.jobs[1] = NoJob \/ (~l.named /\ l.jobs[1].at = "waiting")
          /\ Update(l, [l EXCEPT !.jobs = <<j, Job(WithoutInStock(l.item))>>])
    /\ UNCHANGED <<warehouse, shop, sending, moves, publishFaults>>

(* processStockSyncJob: the older kind of job reads the product, ... *)
TakeRetry(l) ==
    /\ l.jobs[1].at = "waiting" /\ ~l.named
    /\ LET d == Decision(own, offer)
       IN Update(l, With([l EXCEPT !.item = d], 1,
                         [l.jobs[1] EXCEPT !.at = "reading", !.sends = d]))
    /\ UNCHANGED <<warehouse, shop, sending, moves, requeues, publishFaults>>

(* ... and the batch is marked as being processed. *)
Process(l, n) ==
    /\ l.jobs[n].at = (IF n = 1 /\ ~l.named THEN "reading" ELSE "waiting")
    /\ Update(l, With([l EXCEPT !.st = "PROCESSING"], n,
                      [l.jobs[n] EXCEPT !.at = "active", !.attempts = @ + 1]))
    /\ UNCHANGED <<warehouse, shop, sending, moves, requeues, publishFaults>>

(* bulkUpdateStock: one request; what is not given is left as it is. *)
WriteBulk(l, n) ==
    /\ l.jobs[n].at = "active" /\ bulk
    /\ LET d == l.jobs[n].sends
       IN shop' = IF d.inStock > 0 THEN d ELSE [d EXCEPT !.inStock = shop.inStock]
    /\ Update(l, At(l, n, "written"))
    /\ UNCHANGED <<warehouse, sending, moves, requeues, publishFaults>>

(* updateStockQuantity: first the stock, ... *)
(* Fault: the quantity only. *)
WithQuantity(s, d) == [s EXCEPT !.qty = d.qty]
WithStock(s, d) == [s EXCEPT !.qty = d.qty, !.outOfStock = d.outOfStock]
WriteStock(l, n) ==
    /\ l.jobs[n].at = "active" /\ ~bulk
    /\ shop' = WithStock(shop, l.jobs[n].sends)
    /\ Update(l, At(l, n, "half"))
    /\ UNCHANGED <<warehouse, sending, moves, requeues, publishFaults>>

(* ... then updateProductOrderAvailability. *)
WriteAvailability(l, n) ==
    /\ l.jobs[n].at = "half" /\ ~bulk
    /\ shop' = [shop EXCEPT !.policy = l.jobs[n].sends.policy]
    /\ Update(l, At(l, n, "written"))
    /\ UNCHANGED <<warehouse, sending, moves, requeues, publishFaults>>

End(l, n, st) == UpdateAndForget(l, With([l EXCEPT !.st = st], n, NoJob))
Again(l, n, st) == Update(l, At([l EXCEPT !.st = st], n, "waiting"))

(* The module's answer is trusted; without it the quantity is read back. *)
Answer(l, n) ==
    /\ l.jobs[n].at = "written"
    /\ End(l, n, IF bulk \/ shop.qty = l.jobs[n].sends.qty THEN "SUCCESS" ELSE "FAILED")
    /\ UNCHANGED <<warehouse, shop, sending, moves, requeues, publishFaults>>

(* The shop cannot be reached, or its answer is lost: the bulk job is      *)
(* tried again, the others are not.                                        *)
WriteFails(l, n) ==
    /\ l.jobs[n].at \in {"active", "half", "written"}
    /\ Failing
    /\ IF bulk /\ l.jobs[n].attempts < Attempts THEN Again(l, n, "FAILED") ELSE End(l, n, "FAILED")
    /\ UNCHANGED <<warehouse, shop, sending, moves, requeues>>

(* The module refuses one item, or leaves it out of its answer. *)
ItemRefused(l, n) ==
    /\ l.jobs[n].at \in {"active", "written"} /\ bulk
    /\ Failing
    /\ End(l, n, "FAILED")
    /\ UNCHANGED <<warehouse, shop, sending, moves, requeues>>

(* The worker dies: the job is started once more, then given up. *)
WorkerDies(l, n) ==
    /\ l.jobs[n].at \in {"reading", "active", "half", "written"}
    /\ Failing
    /\ IF l.jobs[n].stalled
       THEN End(l, n, "FAILED")
       ELSE Update(l, With(l, n, [l.jobs[n] EXCEPT !.at = "waiting", !.stalled = TRUE]))
    /\ UNCHANGED <<warehouse, shop, sending, moves, requeues>>

PublicationStep(s) == Decide(s) \/ Compare(s) \/ CreateLog(s) \/ AddJob(s)
JobStep(l) ==
    \/ TakeRetry(l)
    \/ \E n \in 1..2 : \/ Process(l, n) \/ WriteBulk(l, n) \/ WriteStock(l, n)
                       \/ WriteAvailability(l, n) \/ Answer(l, n)
JobFault(l) == \E n \in 1..2 : WriteFails(l, n) \/ ItemRefused(l, n) \/ WorkerDies(l, n)

PublicationNext ==
    \/ StockMoves
    \/ OfferChanges
    \/ RetryLog
    \/ \E s \in Reasons : BeginPublication(s) \/ PublicationStep(s) \/ PublicationDies(s)
    \/ \E l \in logs : Requeue(l) \/ JobStep(l) \/ JobFault(l)

(* The scheduler publishes every day, handlers run to their end and the    *)
(* queue serves every job; nobody has to ask for another publication.      *)
PublicationFairness ==
    /\ WF_publishVars(BeginPublication("SCHEDULED"))
    /\ \A s \in Reasons : WF_publishVars(PublicationStep(s))
    /\ \A n \in 1..MaxLogs : WF_publishVars(\E l \in logs : l.age = n /\ JobStep(l))

PublicationSpec ==
    PublicationInit /\ [][PublicationNext]_publishVars /\ PublicationFairness
-----------------------------------------------------------------------------
(* Every part of the state stays in its domain; what the shop shows as its *)
(* quantity and as its behaviour without stock comes from one decision.    *)
Carried == Decisions \cup {WithoutInStock(d) : d \in Decisions}
JobRows ==
    {NoJob} \cup {Unqueued(s) : s \in Reasons}
    \cup [at : {"waiting", "reading", "active", "half", "written"}, sends : Carried,
          attempts : Nat, stalled : BOOLEAN]
LogRows ==
    [age : Nat, st : {"PENDING", "PROCESSING", "SUCCESS", "FAILED"}, item : Decisions,
     named : BOOLEAN, jobs : [1..2 -> JobRows]]
ShopView(s) ==
    /\ \E d \in Decisions : s = [qty |-> d.qty, inStock |-> s.inStock,
                                outOfStock |-> d.outOfStock, policy |-> s.policy]
    /\ \E d \in Carried : s.inStock = d.inStock
    /\ \E d \in Carried : s.policy = d.policy

PublicationTypeOK ==
    /\ own \in StockLevels /\ offer \in SupplierOffers
    /\ ownSeen \subseteq StockLevels /\ offerSeen \subseteq SupplierOffers
    /\ bulk \in BOOLEAN
    /\ ShopView(shop)
    /\ logs \subseteq LogRows /\ Cardinality(logs) <= MaxLogs
    /\ DOMAIN sending = Reasons
    /\ moves \in 0..MaxMoves /\ requeues \in 0..MaxRequeues
    /\ publishFaults \in 0..MaxPublishFaults

Mirror == INSTANCE InventoryMirror WITH Show <- Decision

(* Whatever the order of jobs, retries, skipped publications, logs queued  *)
(* again, requests that fail half way and lost answers, every write brings *)
(* the shop parts of one state made of a stock and an offer that were      *)
(* read, and once both are at rest it comes to show the present one and    *)
(* keeps it: the publication implements InventoryMirror.                   *)
MirrorsWarehouse == Mirror!MirrorSpec
=============================================================================
