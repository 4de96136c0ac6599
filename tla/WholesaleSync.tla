---------------------------- MODULE WholesaleSync ----------------------------
(***************************************************************************)
(* Synchronisation of one wholesaler's feed, and the daily publication     *)
(* that waits for it.                                                      *)
(*                                                                         *)
(* A request, of the operator or of the scheduler, returns the active      *)
(* WholesaleSyncLog or creates one and queues a job.  The queue has one    *)
(* worker; a job is not retried, but one whose worker died is started once *)
(* more.  A feed maps the SKUs it lists to their stock; a limited sync     *)
(* reads its head.  What StockPublication does is one action here.         *)
(***************************************************************************)
EXTENDS Integers, FiniteSets

CONSTANTS
    FeedRequests,   \* requests served at the same time
    Skus,           \* externalSku of the mappings
    Head,           \* the SKUs a limited sync reads
    Feeds,          \* contents of the file: records of items and broken
    MinItems, MaxDropPercent, \* feedSafety
    MaxSyncs,       \* bound of the logs
    MaxFeedChanges, \* bound of the changes of the file and of the links
    MaxSyncFaults   \* bound of the failures

ASSUME WholesaleAssumption ==
    /\ Head \subseteq Skus
    /\ \A f \in Feeds : /\ f = [items |-> f.items, broken |-> f.broken]
                       /\ DOMAIN f.items \subseteq Skus /\ f.items \in [DOMAIN f.items -> Int]
                       /\ f.broken \in BOOLEAN
    /\ IsFiniteSet(Skus)
    /\ MinItems \in Nat /\ MaxDropPercent \in 0..95
    /\ MaxSyncs \in Nat /\ MaxFeedChanges \in Nat /\ MaxSyncFaults \in Nat

Syncs == 1..MaxSyncs

VARIABLES
    feed,       \* the supplier's file
    mappings,   \* WholesaleProductMapping rows
    syncs,      \* WholesaleSyncLog rows and their jobs, in the order of creation
    asking,     \* what every request has found
    run,        \* what the worker is doing
    staged,     \* logs with rows in WholesaleFeedStagingItem
    shown,      \* the offer of every product that shops show
    reported,   \* what the feeds that were applied last said of every SKU (not in the code)
    feedChanges, syncFaults \* changes and failures so far

wholesaleVars ==
    <<feed, mappings, syncs, asking, run, staged, shown, reported, feedChanges, syncFaults>>

(* finished is the place of finishedAt among the syncs that succeeded. *)
NoSync == [st |-> "none", limited |-> FALSE, job |-> "none", items |-> 0, stalled |-> FALSE,
           finished |-> 0]
Unasked == [at |-> "idle", limited |-> FALSE, n |-> 0]
NoRun == [at |-> "idle"]

(* What a shop may sell of a mapping. *)
Offered(s) == IF mappings[s].active /\ mappings[s].linked THEN mappings[s].stock ELSE 0

WholesaleInit ==
    /\ feed \in {f \in Feeds : ~f.broken /\ DOMAIN f.items = Skus}
    /\ mappings = [s \in Skus |-> [known |-> FALSE, linked |-> FALSE, active |-> FALSE,
                                   stock |-> 0]]
    /\ syncs = [n \in Syncs |-> NoSync]
    /\ asking = [c \in FeedRequests |-> Unasked]
    /\ run = NoRun
    /\ staged = {}
    /\ shown = [s \in Skus |-> 0]
    /\ reported = [s \in Skus |-> 0]
    /\ feedChanges = 0 /\ syncFaults = 0

SyncFault == syncFaults < MaxSyncFaults /\ syncFaults' = syncFaults + 1
FeedChange == feedChanges < MaxFeedChanges /\ feedChanges' = feedChanges + 1

SyncActive(n) == syncs[n].st \in {"PENDING", "PROCESSING"}
NoActiveSync == \A n \in Syncs : ~SyncActive(n)

(* The supplier writes another file. *)
SupplierWrites ==
    /\ FeedChange
    /\ feed' \in Feeds \ {feed}
    /\ UNCHANGED <<mappings, syncs, asking, run, staged, shown, reported, syncFaults>>

(* mapWholesaleProduct: the operator links a mapping to a product, or      *)
(* unlinks it; nothing is published.                                       *)
MapProduct(s) ==
    /\ FeedChange
    /\ mappings[s].known
    /\ mappings' = [mappings EXCEPT ![s].linked = ~@]
    /\ UNCHANGED <<feed, syncs, asking, run, staged, shown, reported, syncFaults>>

(* enqueueWholesaleProviderSync: an active log is the answer, ... *)
RequestSync(c, limited) ==
    /\ asking[c] = Unasked
    /\ NoActiveSync
    /\ asking' = [asking EXCEPT ![c] = [at |-> "checked", limited |-> limited, n |-> 0]]
    /\ UNCHANGED <<feed, mappings, syncs, run, staged, shown, reported, feedChanges, syncFaults>>

(* ... otherwise one is created ... *)
CreateSync(c) ==
    /\ asking[c].at = "checked"
    /\ \E n \in Syncs :
        /\ syncs[n] = NoSync /\ \A m \in 1..(n - 1) : syncs[m] # NoSync
        /\ syncs' = [syncs EXCEPT ![n] =
                        [NoSync EXCEPT !.st = "PENDING", !.limited = asking[c].limited]]
        /\ asking' = [asking EXCEPT ![c].at = "created", ![c].n = n]
    /\ UNCHANGED <<feed, mappings, run, staged, shown, reported, feedChanges, syncFaults>>

(* ... and its job is added. *)
AddSyncJob(c) ==
    /\ asking[c].at = "created"
    /\ syncs' = [syncs EXCEPT ![asking[c].n].job = "waiting"]
    /\ asking' = [asking EXCEPT ![c] = Unasked]
    /\ UNCHANGED <<feed, mappings, run, staged, shown, reported, feedChanges, syncFaults>>

(* The queue cannot be reached. *)
QueueFails(c) ==
    /\ asking[c].at = "created"
    /\ SyncFault
    /\ syncs' = [syncs EXCEPT ![asking[c].n].st = "FAILED", ![asking[c].n].job = "over"]
    /\ asking' = [asking EXCEPT ![c] = Unasked]
    /\ UNCHANGED <<feed, mappings, run, staged, shown, reported, feedChanges>>

(* The process dies with the request. *)
RequestDies(c) ==
    /\ asking[c] # Unasked
    /\ SyncFault
    /\ asking' = [asking EXCEPT ![c] = Unasked]
    /\ UNCHANGED <<feed, mappings, syncs, run, staged, shown, reported, feedChanges>>

(* runWholesaleSyncJob *)
StartSync(n) ==
    /\ run = NoRun
    /\ syncs[n].job = "waiting"
    /\ syncs' = [syncs EXCEPT ![n].st = "PROCESSING", ![n].job = "active"]
    /\ run' = [at |-> "started", n |-> n]
    /\ UNCHANGED <<feed, mappings, asking, staged, shown, reported, feedChanges, syncFaults>>

Succeeded == {m \in Syncs : syncs[m].st = "SUCCESS"}

(* The end of the job, whatever it is: the staged rows are deleted. *)
SyncEnds(st) ==
    /\ syncs' = [syncs EXCEPT ![run.n].st = st, ![run.n].job = "over",
            ![run.n].finished = IF st = "SUCCESS" THEN Cardinality(Succeeded) + 1 ELSE @]
    /\ staged' = staged \ {run.n}
    /\ run' = NoRun

(* The feed as this sync reads it. *)
Read(n) ==
    LET listed == DOMAIN feed.items \cap (IF syncs[n].limited THEN Head ELSE Skus)
    IN [s \in listed |-> feed.items[s]]

(* The size of the feed that was synchronised last, limited or not. *)
Baseline(n) ==
    LET done == {m \in Succeeded \ {n} : syncs[m].items > 0}
    IN IF done = {} THEN 0
       ELSE syncs[CHOOSE m \in done : \A k \in done : syncs[k].finished <= syncs[m].finished].items

DropOf(old, new) == 100 * (old - new) > MaxDropPercent * old

(* validateWholesaleFeed *)
Valid(n, items) ==
    LET size == Cardinality(DOMAIN items)
    IN /\ size > 0 /\ ~feed.broken
       /\ ~syncs[n].limited => /\ size >= MinItems
                               /\ ~DropOf(Baseline(n), size)

FetchFeed ==
    /\ run.at = "started"
    /\ LET items == Read(run.n)
       IN IF Valid(run.n, items)
          THEN /\ run' = [at |-> "fetched", n |-> run.n, items |-> items]
               /\ syncs' = [syncs EXCEPT ![run.n].items = Cardinality(DOMAIN items)]
               /\ UNCHANGED staged
          ELSE SyncEnds("FAILED")
    /\ UNCHANGED <<feed, mappings, asking, shown, reported, feedChanges, syncFaults>>

(* stageWholesaleFeed: the rows of a log are unique, those a dead worker   *)
(* left make the insertion fail.                                           *)
StageFeed ==
    /\ run.at = "fetched"
    /\ IF run.n \in staged
       THEN SyncEnds("FAILED")
       ELSE /\ staged' = staged \cup {run.n}
            /\ run' = [run EXCEPT !.at = "staged"]
            /\ UNCHANGED syncs
    /\ UNCHANGED <<feed, mappings, asking, shown, reported, feedChanges, syncFaults>>

(* applyWholesaleFeed: the mappings are read, ... *)
ReadMappings ==
    /\ run.at = "staged"
    /\ run' = [at |-> "read", n |-> run.n, items |-> run.items, rows |-> mappings]
    /\ UNCHANGED <<feed, mappings, syncs, asking, staged, shown, reported, feedChanges,
                   syncFaults>>

(* ... what changed, and what a full feed does not list any more, ... *)
ChangedRows == {s \in DOMAIN run.items : LET row == run.rows[s]
                                     IN row.known /\ ~(row.active /\ row.stock = run.items[s])}
Created == {s \in DOMAIN run.items : ~run.rows[s].known}
(* Fault: a limited sync takes what it did not read for missing. *)
MissingAlways == {s \in Skus \ DOMAIN run.items : run.rows[s].known /\ run.rows[s].active}
Missing == IF syncs[run.n].limited THEN {}
           ELSE {s \in Skus \ DOMAIN run.items : run.rows[s].known /\ run.rows[s].active}

(* ... and one transaction writes it. *)
ApplyFeed ==
    /\ run.at = "read"
    /\ mappings' = [s \in Skus |->
            CASE s \in ChangedRows \cup Created ->
                    [mappings[s] EXCEPT !.known = TRUE, !.active = TRUE, !.stock = run.items[s]]
              [] s \in Missing -> [mappings[s] EXCEPT !.active = @ /\ run.rows[s].linked,
                                                      !.stock = 0]
              [] OTHER -> mappings[s]]
    /\ reported' = [s \in Skus |->
            CASE s \in DOMAIN run.items -> run.items[s]
              [] s \notin DOMAIN run.items /\ ~syncs[run.n].limited -> 0
              [] OTHER -> reported[s]]
    /\ run' = [at |-> "applied", n |-> run.n,
               products |-> {s \in ChangedRows \cup Missing : run.rows[s].linked}]
    /\ UNCHANGED <<feed, syncs, asking, staged, shown, feedChanges, syncFaults>>

(* enqueueWholesaleAvailabilityStockSync, and the end. *)
PublishOffers ==
    /\ run.at = "applied"
    /\ shown' = [s \in Skus |-> IF s \in run.products THEN Offered(s) ELSE shown[s]]
    /\ SyncEnds("SUCCESS")
    /\ UNCHANGED <<feed, mappings, asking, reported, feedChanges, syncFaults>>

(* The file, the database or the queue cannot be reached. *)
SyncFails ==
    /\ run # NoRun
    /\ SyncFault
    /\ SyncEnds("FAILED")
    /\ UNCHANGED <<feed, mappings, asking, shown, reported, feedChanges>>

(* The process dies: the job is started again, the second time it fails.   *)
SyncDies ==
    /\ run # NoRun
    /\ SyncFault
    /\ syncs' = IF syncs[run.n].stalled
                THEN [syncs EXCEPT ![run.n].st = "FAILED", ![run.n].job = "over"]
                ELSE [syncs EXCEPT ![run.n].job = "waiting", ![run.n].stalled = TRUE]
    /\ run' = NoRun
    /\ UNCHANGED <<feed, mappings, asking, staged, shown, reported, feedChanges>>

(* runDailyInventoryPublication *)
(* Fault: it waits until every sync has succeeded. *)
MayPublishIfSucceeded == \A n \in Syncs : syncs[n].st \in {"none", "SUCCESS"}
MayPublish == NoActiveSync
DailyPublication ==
    /\ MayPublish
    /\ shown' = [s \in Skus |-> Offered(s)]
    /\ UNCHANGED <<feed, mappings, syncs, asking, run, staged, reported, feedChanges, syncFaults>>

SyncStep ==
    \/ \E n \in Syncs : StartSync(n)
    \/ FetchFeed \/ StageFeed \/ ReadMappings \/ ApplyFeed \/ PublishOffers

WholesaleNext ==
    \/ SupplierWrites
    \/ \E s \in Skus : MapProduct(s)
    \/ \E c \in FeedRequests, limited \in BOOLEAN : RequestSync(c, limited)
    \/ \E c \in FeedRequests :
        CreateSync(c) \/ AddSyncJob(c) \/ QueueFails(c) \/ RequestDies(c)
    \/ SyncStep \/ SyncFails \/ SyncDies
    \/ DailyPublication

(* Requests and the worker run to their end and the scheduler publishes    *)
(* every day.                                                              *)
WholesaleFairness ==
    /\ WF_wholesaleVars(SyncStep)
    /\ \A c \in FeedRequests : WF_wholesaleVars(AddSyncJob(c))
    /\ WF_wholesaleVars(DailyPublication)

WholesaleSpec == WholesaleInit /\ [][WholesaleNext]_wholesaleVars /\ WholesaleFairness
-----------------------------------------------------------------------------
(* Every part of the state stays in its domain. *)
WholesaleTypeOK ==
    /\ feed \in Feeds
    /\ mappings \in [Skus -> [known : BOOLEAN, linked : BOOLEAN, active : BOOLEAN, stock : Int]]
    /\ syncs \in [Syncs -> [st : {"none", "PENDING", "PROCESSING", "SUCCESS", "FAILED"},
                            limited : BOOLEAN, job : {"none", "waiting", "active", "over"},
                            items : Nat, stalled : BOOLEAN, finished : 0..MaxSyncs]]
    /\ asking \in [FeedRequests -> [at : {"idle", "checked", "created"}, limited : BOOLEAN,
                                    n : 0..MaxSyncs]]
    /\ run.at \in {"idle", "started", "fetched", "staged", "read", "applied"}
    /\ staged \subseteq Syncs
    /\ shown \in [Skus -> Int] /\ reported \in [Skus -> Int]

(* Whatever crashes, limited syncs and links changed in the middle of a    *)
(* sync, a mapping holds what the applied feeds last said of it, and is    *)
(* active if that is a stock.                                              *)
OffersAreReported ==
    \A s \in Skus : mappings[s].known =>
        mappings[s].stock = reported[s] /\ (reported[s] > 0 => mappings[s].active)

(* A log whose request died before the job was added stays active. *)
Abandoned(n) ==
    /\ syncs[n].st = "PENDING" /\ syncs[n].job = "none"
    /\ \A c \in FeedRequests : asking[c].n # n

(* Once feed and links are at rest the shops come to show every offer, the *)
(* one exception being an abandoned log, which ends syncs and daily        *)
(* publications alike.                                                     *)
OffersReachShops ==
    <>[](\/ \A s \in Skus : shown[s] = Offered(s)
         \/ \E n \in Syncs : Abandoned(n))
=============================================================================
