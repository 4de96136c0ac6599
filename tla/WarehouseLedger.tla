-------------------------- MODULE WarehouseLedger --------------------------
(***************************************************************************)
(* The stock of one warehouse product, the documents that move it and the *)
(* order reservations that hold it.                                        *)
(*                                                                         *)
(* A handler is one request, webhook or job that is running in the         *)
(* backend.  It advances in steps: a step ends where the code awaits a     *)
(* read made outside a transaction, or commits a transaction.  What was    *)
(* read is carried in the step record at[h], and may be stale when it is   *)
(* used.  So are reads and writes of reservations in one transaction, for  *)
(* others may commit between them: reserveOrder and                        *)
(* releaseOrderReservations hold the advisory lock of the order, which     *)
(* nothing else takes; those that confirm and cancel documents hold none.  *)
(* What a transaction writes is written when it commits.                   *)
(*                                                                         *)
(* Orders have one line each; all lines are for the one product.           *)
(***************************************************************************)
EXTENDS Integers, Sequences, FiniteSets, FiniteSetsExt, Functions

CONSTANTS
    Handlers,       \* concurrently running requests
    Orders,
    ResIds,         \* reservation rows, numbered in the order of creation
    DocIds,         \* warehouse document rows
    None,           \* no order, no lock holder
    Need,           \* quantity of an order's line
    Statuses,       \* operational statuses an order is given
    Types,          \* document types that are created by hand
    Qtys,           \* quantities entered by hand
    Requests,       \* kinds of requests the handlers are asked to serve
    MaxRequests,    \* bound: requests started in a behaviour
    AllowNegative,  \* limitsJson.warehouse.allowNegativeStock
    AutoCreateWz,   \* limitsJson.warehouse.autoCreateWzOnOrder
    AutoConfirmWz   \* limitsJson.warehouse.autoConfirmWzOnOrder

ShippedStatuses   == {"SHIPPED", "DELIVERED"}
InactiveStatuses  == {"CANCELLED", "PARTIALLY_RETURNED", "RETURNED"}
ReservingStatuses == {"PAID", "PROCESSING", "PACKED"}
OrderStatuses     == {"NEW"} \cup ReservingStatuses \cup ShippedStatuses
                        \cup InactiveStatuses
DocTypes          == {"PZ", "ZH", "PW", "WZ", "ZW", "RW", "INW"}

ASSUME IdsAssumption ==
    /\ ResIds \subseteq Nat /\ IsFiniteSet(ResIds) /\ IsFiniteSet(DocIds)
    /\ None \notin Orders \cup Handlers \cup DocIds
ASSUME DataAssumption ==
    /\ Need \in [Orders -> Nat \ {0}]
    /\ Qtys \subseteq Nat \ {0}
    /\ Statuses \subseteq OrderStatuses \ {"NEW"}
    /\ Types \subseteq DocTypes
    /\ MaxRequests \in Nat
ASSUME SettingsAssumption ==
    {AllowNegative, AutoCreateWz, AutoConfirmWz} \subseteq BOOLEAN

VARIABLES
    stock,      \* WarehouseProduct.currentStock
    wholesale,  \* an active provider offers the product
    order,      \* operationalStatus of every order
    res,        \* WarehouseReservation rows
    doc,        \* WarehouseDocument rows with their items
    lock,       \* holder of the advisory lock of every order
    at,         \* the step every handler is about to take
    rest,       \* the steps it will take after that one
    budget      \* requests that can still be started

rows == <<stock, order, res, doc>>
vars == <<stock, wholesale, order, res, doc, lock, at, rest, budget>>

-----------------------------------------------------------------------------
(* Rows *)

FreeRes == [st |-> "FREE", src |-> "LOCAL_STOCK", qty |-> 0, o |-> None]

(* A document's items: `own` is the total of the items without a          *)
(* reservation (mergeDocumentItem keeps one per product), `lines` the      *)
(* items linked to one, `n` telling apart two items of one reservation;    *)
(* `sys` is systemQuantity of an INW, `warn` the metadata flag             *)
(* autoConfirmBlockedByStockWarning, `link` convertedToPzDocumentId of a   *)
(* ZH and wholesaleOrderDocumentId of a PZ.                                *)
FreeDoc == [st |-> "FREE", type |-> "WZ", o |-> None, own |-> 0, sys |-> 0,
            lines |-> {}, warn |-> FALSE, link |-> None]

IsFirstFree(x, Free) == x \in Free /\ \A y \in Free : x <= y
FreeResIds == {r \in ResIds : res[r].st = "FREE"}
FreeDocIds == {d \in DocIds : doc[d].st = "FREE"}
RowGone(d) == doc[d].st = "DELETED"

SumQty(S) == SumFunction([x \in S |-> x.qty])
SumRes(R) == SumFunction([r \in R |-> res[r].qty])

Active(o)      == {r \in ResIds : res[r].st = "ACTIVE" /\ res[r].o = o}
ActiveLocal(o) == {r \in Active(o) : res[r].src = "LOCAL_STOCK"}
Consumed(o)    == {r \in ResIds : res[r].st = "CONSUMED" /\ res[r].o = o}
HeldBy(o)      == Active(o) \cup Consumed(o)

(* What the partial unique index warehouse_documents_wz_per_order covers. *)
OpenWz(o) == {d \in DocIds : /\ doc[d].type = "WZ"
                             /\ doc[d].o = o
                             /\ doc[d].st \in {"DRAFT", "CONFIRMED"}}
(* Fault: the index leaves drafts out. *)
UniqueAmongConfirmed(d, o) == o # None /\ \E x \in OpenWz(o) \ {d} : doc[x].st = "CONFIRMED"
UniqueViolation(d, o) == o # None /\ OpenWz(o) \ {d} # {}

(* getStockDeltaSign and applyStockDeltas: what a document adds to stock. *)
StockDelta(type, quantity, sys) ==
    IF type \in {"PZ", "PW", "ZW"} THEN quantity
    ELSE IF type \in {"WZ", "RW"} THEN -quantity
    ELSE IF type = "INW" THEN quantity - sys
    ELSE 0

(* calculateQuantity: what recalculateStockCache derives from documents.  *)
ConfirmedDocs == {d \in DocIds : doc[d].st = "CONFIRMED"}
HeldLocally(st) == {r \in ResIds : res[r].st \in st /\ res[r].src = "LOCAL_STOCK"}
DocumentedStock ==
    SumFunction([d \in ConfirmedDocs |->
                   StockDelta(doc[d].type, doc[d].own + SumQty(doc[d].lines), doc[d].sys)])
      - SumRes(HeldLocally({"ACTIVE"}))

-----------------------------------------------------------------------------
(* Steps of a handler *)

Idle == [k |-> "idle"]
Goto(h, step) == at' = [at EXCEPT ![h] = step] /\ UNCHANGED rest
Call(h, step, after) == /\ at' = [at EXCEPT ![h] = step]
                        /\ rest' = [rest EXCEPT ![h] = after \o @]
Return(h) == /\ at' = [at EXCEPT ![h] = IF rest[h] = <<>> THEN Idle ELSE Head(rest[h])]
             /\ rest' = [rest EXCEPT ![h] = IF @ = <<>> THEN @ ELSE Tail(@)]
(* An exception that reaches the request: nothing after it is done. *)
Throw(h) == at' = [at EXCEPT ![h] = Idle] /\ rest' = [rest EXCEPT ![h] = <<>>]

ReserveStep(o)  == [k |-> "reserve", o |-> o]
ReleaseStep(o)  == [k |-> "release", o |-> o]
FinalizeStep(o) == [k |-> "finalize", o |-> o]
SyncStep(d)     == [k |-> "sync", d |-> d]
ConfirmStep(d)  == [k |-> "confirm", d |-> d]
WzStep(o, force, draft, retry) ==
    [k |-> "wz", o |-> o, force |-> force, draft |-> draft, retry |-> retry]
CollectStep(t)  == [k |-> "collect", o |-> t.o, force |-> t.force,
                    draft |-> t.draft, retry |-> t.retry, warn |-> FALSE]

-----------------------------------------------------------------------------
(* Reservations of an order *)

(* The advisory lock of an order, held until the transaction ends. *)
(* Fault: the transaction does not take the lock. *)
LockIgnored(o) == TRUE
LockFree(o) == lock[o] = None
(* Fault: the lock is the session's, and outlives the transaction. *)
KeepLock(o) == UNCHANGED lock
Unlock(o) == lock' = [lock EXCEPT ![o] = None]

(* planReservationSplit: how much of the target is held from the shelf and *)
(* how much is ordered from a wholesaler; `short` when some is missing.    *)
Split(local, back, short) == [local |-> local, back |-> back, short |-> short]
(* Fault: a backorder is taken for delivered when it is planned again. *)
PlanSplitDelivered(target, exLocal, exBack) ==
    IF exBack > 0 THEN Split(target, 0, FALSE)
    ELSE IF stock <= 0 THEN Split(0, target, FALSE)
    ELSE Split(Min({target, exLocal + stock}), 0, FALSE)
(* Fault: stock is not clamped at 0. *)
PlanSplitUnclamped(target, exLocal, exBack) ==
    Split(Min({target, exLocal + stock}), 0, FALSE)
PlanSplit(target, exLocal, exBack) ==
    LET available == Max({stock, 0})
        local     == Min({target, exLocal + available})
    IN  IF AllowNegative \/ (exBack > 0 /\ available >= target)
        THEN Split(target, 0, FALSE)
        ELSE IF exBack > 0
        THEN Split(0, target, ~wholesale)
        ELSE IF local > 0 \/ ~wholesale
        THEN Split(local, 0, ~wholesale /\ local < target)
        ELSE Split(0, target, FALSE)

(* Quantity of the line already issued: consumed reservations, and items  *)
(* of a confirmed WZ that have none.                                       *)
Unlinked(o) == SumFunction([d \in OpenWz(o) \cap ConfirmedDocs |-> doc[d].own])
(* Fault: consumed reservations are forgotten. *)
IssuedUnlinked(o) == Min({Unlinked(o), Need[o]})
IssuedQty(o) ==
    LET consumed == SumRes(Consumed(o))
        unlinked == Unlinked(o)
    IN  IF consumed < Need[o] THEN Min({consumed + unlinked, Need[o]}) ELSE consumed

SeenActive(o) == {[r |-> r, src |-> res[r].src, qty |-> res[r].qty] : r \in Active(o)}
SeenQty(seen, src) == SumQty({s \in seen : s.src = src})

ApplyStep(o, seen, plan) ==
    [k |-> "apply", o |-> o, seen |-> seen, local |-> plan.local,
     back |-> plan.back, short |-> plan.short]
NothingHeld == Split(0, 0, FALSE)

(* Fault: cancelled and returned orders are forgotten. *)
TakesUnlessShipped(o) == order[o] \notin ShippedStatuses
TakesReservations(o) == order[o] \notin ShippedStatuses \cup InactiveStatuses

(* reserveOrder, outside the transaction: shipped and closed orders take  *)
(* no reservation.                                                         *)
Reserve(h) ==
    /\ at[h].k = "reserve"
    /\ IF TakesReservations(at[h].o)
       THEN Goto(h, [k |-> "reserveTx", o |-> at[h].o])
       ELSE Return(h)
    /\ UNCHANGED <<rows, wholesale, lock, budget>>

(* reserveOrder, its transaction up to the first write. *)
ReserveTx(h) ==
    /\ at[h].k = "reserveTx"
    /\ LockFree(at[h].o)
    /\ lock' = [lock EXCEPT ![at[h].o] = h]
    /\ LET o      == at[h].o
           seen   == SeenActive(o)
           target == Need[o] - IssuedQty(o)
           plan   == IF target <= 0 THEN NothingHeld
                     ELSE PlanSplit(target, SeenQty(seen, "LOCAL_STOCK"),
                                    SeenQty(seen, "WHOLESALE_BACKORDER"))
       IN  Goto(h, ApplyStep(o, seen, plan))
    /\ UNCHANGED <<rows, wholesale, budget>>

(* releaseOrderReservations, its transaction up to the first write. *)
ReleaseTx(h) ==
    /\ at[h].k = "release"
    /\ LockFree(at[h].o)
    /\ lock' = [lock EXCEPT ![at[h].o] = h]
    /\ Goto(h, ApplyStep(at[h].o, SeenActive(at[h].o), NothingHeld))
    /\ UNCHANGED <<rows, wholesale, budget>>

(* setActiveReservationsForSource keeps the oldest reservation it saw of a *)
(* source that is still wanted, and closes the others.                     *)
WantedOf(t, src) == IF src = "LOCAL_STOCK" THEN t.local ELSE t.back
KeptIds(t) == {s.r : s \in {s \in t.seen : /\ WantedOf(t, s.src) > 0
                                           /\ \A u \in t.seen : u.src = s.src => s.r <= u.r}}
ClosedIds(t) == {s.r : s \in t.seen} \ KeptIds(t)
CreatedSources(t) == {src \in {"LOCAL_STOCK", "WHOLESALE_BACKORDER"} :
                         WantedOf(t, src) > 0 /\ \A s \in t.seen : s.src # src}
Rewritten(t, r) ==
    IF r \in ClosedIds(t) THEN [res[r] EXCEPT !.st = "RELEASED"]
    ELSE IF r \in KeptIds(t) THEN [res[r] EXCEPT !.qty = WantedOf(t, res[r].src)]
    ELSE res[r]

(* Fault: closing a backorder gives stock back, too. *)
StockReturningBackorders(t) == stock + SumQty(t.seen) - t.local
StockAfter(t) == stock + SeenQty(t.seen, "LOCAL_STOCK") - t.local

(* The partial unique index warehouse_reservations_active_order_item_uidx. *)
Refused(t) == CreatedSources(t) # {} /\ Active(t.o) \ ClosedIds(t) # {}

ApplyRows(t) ==
    \/ /\ CreatedSources(t) = {}
       /\ res' = [r \in ResIds |-> Rewritten(t, r)]
    \/ \E src \in CreatedSources(t), new \in ResIds :
       /\ IsFirstFree(new, FreeResIds)
       /\ res' = [r \in ResIds |->
              IF r = new
              THEN [st |-> "ACTIVE", src |-> src, qty |-> WantedOf(t, src), o |-> t.o]
              ELSE Rewritten(t, r)]

(* createWzForOrder waits for the result in its "collect" step.            *)
ReturnResult(h) ==
    IF rest[h] # <<>> /\ Head(rest[h]).k = "collect"
    THEN /\ at' = [at EXCEPT ![h] = [Head(rest[h]) EXCEPT !.warn = at[h].short]]
         /\ rest' = [rest EXCEPT ![h] = Tail(@)]
    ELSE Return(h)

(* The writes of both transactions and their commit.  Rows are written by *)
(* id, whatever has become of them since they were read: stock gets back   *)
(* what was seen to be held, and gives what is held now.                   *)
Apply(h) ==
    /\ at[h].k = "apply"
    /\ Unlock(at[h].o)
    /\ \/ Refused(at[h]) /\ Throw(h) /\ UNCHANGED <<stock, res>>
       \/ /\ ~Refused(at[h])
          /\ ApplyRows(at[h])
          /\ stock' = StockAfter(at[h])
          /\ ReturnResult(h)
    /\ UNCHANGED <<wholesale, order, doc, budget>>

-----------------------------------------------------------------------------
(* WZ of an order *)

(* The local reservations of the order become the items of its WZ. *)
WzTxStep(t, warn) ==
    [k |-> "wzTx", o |-> t.o, force |-> t.force, draft |-> t.draft, retry |-> t.retry,
     warn |-> warn,
     lines |-> {[n |-> 1, res |-> r, qty |-> res[r].qty] : r \in ActiveLocal(t.o)},
     unread |-> ActiveLocal(t.o), consumed |-> {}]

(* createWzForOrder.  An existing draft is aligned with the reservations  *)
(* and perhaps confirmed; an order without local reservations gets them    *)
(* first.                                                                  *)
Wz(h) ==
    /\ at[h].k = "wz"
    /\ LET t    == at[h]
           open == OpenWz(t.o)
           Confirms(d) == ~t.draft /\ (t.force \/ (AutoConfirmWz /\ ~doc[d].warn))
       IN  \/ /\ open = {}
              /\ IF ActiveLocal(t.o) = {}
                 THEN Call(h, ReserveStep(t.o), <<CollectStep(t)>>)
                 ELSE Goto(h, WzTxStep(t, FALSE))
           \/ \E d \in open :
              IF doc[d].st = "CONFIRMED" THEN Return(h)
              ELSE Call(h, SyncStep(d), IF Confirms(d) THEN <<ConfirmStep(d)>> ELSE <<>>)
    /\ UNCHANGED <<rows, wholesale, lock, budget>>

(* createWzForOrder, after its reserveOrder. *)
Collect(h) ==
    /\ at[h].k = "collect"
    /\ IF ActiveLocal(at[h].o) = {} THEN Return(h)
       ELSE Goto(h, WzTxStep(at[h], at[h].warn))
    /\ UNCHANGED <<rows, wholesale, lock, budget>>

(* consumeDocumentReservations reads the reservations of the items, one by *)
(* one; it throws unless they are local ones that are still active, or are *)
(* consumed already.                                                       *)
Consumable(r) == \/ res[r].st = "CONSUMED"
                 \/ res[r].st = "ACTIVE" /\ res[r].src = "LOCAL_STOCK"
ReadConsumed(h) ==
    \E r \in at[h].unread :
        IF Consumable(r)
        THEN Goto(h, [at[h] EXCEPT !.unread = @ \ {r},
                                   !.consumed = IF res[r].st = "ACTIVE" THEN @ \cup {r} ELSE @])
        ELSE Throw(h)

(* Those it found active are written by id, whatever they are by then; the *)
(* backorders that confirmDocument closes are written if still active.     *)
ConsumeRows(R, cancelled) ==
    res' = [r \in ResIds |->
              IF r \in R THEN [res[r] EXCEPT !.st = "CONSUMED"]
              ELSE IF r \in cancelled /\ res[r].st = "ACTIVE"
                   THEN [res[r] EXCEPT !.st = "CANCELLED"]
              ELSE res[r]]

(* createWzForOrder, the transaction: the row is inserted, the reservations *)
(* are read if it is confirmed, and all is committed.  The unique index    *)
(* makes a handler that lost the race start over, once.                    *)
WzTx(h) ==
    /\ at[h].k = "wzTx"
    /\ LET t        == at[h]
           confirms == ~t.draft /\ (t.force \/ AutoConfirmWz) /\ ~t.warn
       IN  \/ /\ UniqueViolation(None, t.o)
              /\ IF t.retry THEN Throw(h)
                 ELSE Goto(h, WzStep(t.o, t.force, t.draft, TRUE))
              /\ UNCHANGED <<res, doc>>
           \/ /\ ~UniqueViolation(None, t.o)
              /\ confirms /\ ReadConsumed(h)
              /\ UNCHANGED <<res, doc>>
           \/ /\ ~UniqueViolation(None, t.o)
              /\ confirms => t.unread = {}
              /\ \E d \in DocIds :
                    /\ IsFirstFree(d, FreeDocIds)
                    /\ doc' = [doc EXCEPT ![d] =
                          [FreeDoc EXCEPT !.st = IF confirms THEN "CONFIRMED" ELSE "DRAFT",
                                          !.o = t.o, !.lines = t.lines, !.warn = t.warn]]
              /\ ConsumeRows(t.consumed, {})
              /\ Return(h)
    /\ UNCHANGED <<stock, wholesale, order, lock, budget>>

(* syncWzDraftItemsWithReservations: what the draft's items should become, *)
(* from a read outside the transaction.                                    *)
SyncEdit(d) ==
    LET active  == ActiveLocal(doc[d].o)
        linked  == {l.res : l \in doc[d].lines} \cap active
        missing == active \ linked
        dropped == {l \in doc[d].lines :
                      /\ l.res \notin active
                      /\ \/ res[l.res].st = "ACTIVE" /\ res[l.res].src = "WHOLESALE_BACKORDER"
                         \/ /\ res[l.res].st # "CONSUMED" /\ res[l.res].o = doc[d].o
                            /\ missing # {}}
        stale   == {l \in doc[d].lines : l.res \in active /\ l.qty # res[l.res].qty}
    IN  [k |-> "syncTx", d |-> d,
         drop |-> {[n |-> l.n, res |-> l.res] : l \in dropped},
         set  |-> {[n |-> l.n, res |-> l.res, qty |-> res[l.res].qty] : l \in stale},
         add  |-> {[res |-> r, qty |-> res[r].qty] : r \in missing}]

Sync(h) ==
    /\ at[h].k = "sync"
    /\ LET d == at[h].d
           edit == SyncEdit(d)
       IN  IF \/ doc[d].st # "DRAFT" \/ doc[d].type # "WZ" \/ doc[d].o = None
              \/ edit.drop = {} /\ edit.set = {} /\ edit.add = {}
           THEN Return(h)
           ELSE Goto(h, edit)
    /\ UNCHANGED <<rows, wholesale, lock, budget>>

HasLine(d, x) == \E l \in doc[d].lines : l.n = x.n /\ l.res = x.res
NextCopy(d, r) == Max({0} \cup {l.n : l \in {l \in doc[d].lines : l.res = r}}) + 1

(* Its transaction: it does not look at the document's status again. *)
SyncTx(h) ==
    /\ at[h].k = "syncTx"
    /\ LET t == at[h]
           Edits(l, S) == \E x \in S : x.n = l.n /\ x.res = l.res
           kept  == {l \in doc[t.d].lines : ~Edits(l, t.drop) /\ ~Edits(l, t.set)}
           added == {[n |-> NextCopy(t.d, a.res), res |-> a.res, qty |-> a.qty] : a \in t.add}
       IN  IF \/ RowGone(t.d) /\ t.add # {}
              \/ \E x \in t.set : ~HasLine(t.d, x)
           THEN Throw(h) /\ UNCHANGED doc
           ELSE /\ doc' = [doc EXCEPT ![t.d].lines = kept \cup t.set \cup added]
                /\ Return(h)
    /\ UNCHANGED <<stock, wholesale, order, res, lock, budget>>

(* finalizeOrderShipment *)
Finalize(h) ==
    /\ at[h].k = "finalize"
    /\ LET o == at[h].o
       IN  \/ /\ OpenWz(o) = {}
              /\ IF ActiveLocal(o) = {} THEN Return(h)
                 ELSE Goto(h, WzStep(o, TRUE, FALSE, FALSE))
           \/ \E d \in OpenWz(o) :
              IF doc[d].st = "CONFIRMED" THEN Return(h)
              ELSE Call(h, SyncStep(d), <<ConfirmStep(d)>>)
    /\ UNCHANGED <<rows, wholesale, lock, budget>>

-----------------------------------------------------------------------------
(* Wholesale orders *)

(* One provider offers the product, if one does. *)
OpenZh(o) == {d \in DocIds : /\ doc[d].type = "ZH"
                             /\ doc[d].o = o
                             /\ doc[d].st \in {"DRAFT", "CONFIRMED"}}
Backorders(o) == {r \in Active(o) : res[r].src = "WHOLESALE_BACKORDER"}

(* createZhForOrder orders the backorders it has read, unless it found a   *)
(* ZH of the order before or nobody sells the product any more.            *)
OrderBackorders(h, o, found) ==
    IF Backorders(o) = {} \/ found \/ ~wholesale THEN Return(h)
    ELSE Goto(h, [k |-> "zhTx", o |-> o, qty |-> SumRes(Backorders(o))])

(* createZhForOrder; an order without backorders is reserved first. *)
Zh(h) ==
    /\ at[h].k = "zh"
    /\ LET o     == at[h].o
           found == OpenZh(o) # {}
       IN  IF Backorders(o) = {}
           THEN Call(h, ReserveStep(o), <<[k |-> "zhCollect", o |-> o, found |-> found]>>)
           ELSE OrderBackorders(h, o, found)
    /\ UNCHANGED <<rows, wholesale, lock, budget>>

(* createZhForOrder, after its reserveOrder. *)
ZhCollect(h) ==
    /\ at[h].k = "zhCollect"
    /\ OrderBackorders(h, at[h].o, at[h].found)
    /\ UNCHANGED <<rows, wholesale, lock, budget>>

ZhTx(h) ==
    /\ at[h].k = "zhTx"
    /\ \E d \in DocIds :
          /\ IsFirstFree(d, FreeDocIds)
          /\ doc' = [doc EXCEPT ![d] = [FreeDoc EXCEPT !.st = "DRAFT", !.type = "ZH",
                                                       !.o = at[h].o, !.own = at[h].qty]]
    /\ Return(h)
    /\ UNCHANGED <<stock, wholesale, order, res, lock, budget>>

(* What a new PZ adds to stock. *)
(* Fault: goods of a draft are on the shelf, too. *)
AcceptedDraft(t) == t.qty
Accepted(t) == IF t.draft THEN 0 ELSE t.qty

(* createPzFromWholesaleOrder, its transaction: the ZH it has read becomes *)
(* CONFIRMED if it was a draft then, whatever it is now.                   *)
NewPz(t) == [FreeDoc EXCEPT !.st = IF t.draft THEN "DRAFT" ELSE "CONFIRMED",
                            !.type = "PZ", !.own = t.qty, !.link = t.d]
ReceivedZh(t, pz) == [doc[t.d] EXCEPT !.st = IF t.st = "DRAFT" THEN "CONFIRMED" ELSE @,
                                      !.link = pz]
PzTx(h) ==
    /\ at[h].k = "pzTx"
    /\ LET t == at[h]
       IN  IF RowGone(t.d)
           THEN Throw(h) /\ UNCHANGED <<stock, doc>>
           ELSE /\ \E d \in DocIds :
                      /\ IsFirstFree(d, FreeDocIds)
                      /\ doc' = [doc EXCEPT ![d] = NewPz(t), ![t.d] = ReceivedZh(t, d)]
                /\ stock' = stock + Accepted(t)
                /\ IF t.draft THEN Return(h) ELSE Goto(h, [k |-> "realloc"])
    /\ UNCHANGED <<wholesale, order, res, lock, budget>>

-----------------------------------------------------------------------------
(* Documents *)

(* resolveWzReservationDispositions.  A reservation that still holds stock *)
(* is consumed; an item whose local reservation was released, or that has  *)
(* an active backorder, takes its quantity from stock itself.              *)
LinesOf(d, st, src) == {l \in doc[d].lines : res[l.res].st \in st /\ res[l.res].src = src}
BackorderLines(d) == LinesOf(d, {"ACTIVE"}, "WHOLESALE_BACKORDER")
(* Fault: an item with a released reservation still counts as covered. *)
DetachedBackorders(d) == BackorderLines(d)
DetachedLines(d) == LinesOf(d, {"RELEASED", "CANCELLED"}, "LOCAL_STOCK") \cup BackorderLines(d)
ConsumedLines(d) == LinesOf(d, {"ACTIVE"}, "LOCAL_STOCK")
                      \cup {l \in doc[d].lines : res[l.res].st = "CONSUMED"}

(* confirmDocument, what it reads before its transaction. *)
Confirm(h) ==
    /\ at[h].k = "confirm"
    /\ LET d        == at[h].d
           detached == DetachedLines(d)
           taken    == doc[d].own + SumQty(detached)
       IN  IF \/ doc[d].st # "DRAFT"
              \/ doc[d].own = 0 /\ doc[d].lines = {}
              \/ /\ doc[d].type \in {"WZ", "RW"} /\ ~AllowNegative
                 /\ taken > 0 /\ stock < taken
           THEN Throw(h)
           ELSE Goto(h, [k |-> "confirmTx", d |-> d, own |-> doc[d].own,
                         sys |-> doc[d].sys, detached |-> detached,
                         unread |-> {l.res : l \in ConsumedLines(d)}, consumed |-> {},
                         cancelled |-> {l.res : l \in BackorderLines(d)}])
    /\ UNCHANGED <<rows, wholesale, lock, budget>>

(* Its transaction: the reservations are read, then all is written.  The   *)
(* document's status is not looked at again: what can stop it is a deleted *)
(* row, the unique index and a reservation that is no longer consumable.   *)
(* A PZ goes on to reallocate backorders.                                  *)
ConfirmTx(h) ==
    /\ at[h].k = "confirmTx"
    /\ LET t == at[h]
           row == doc[t.d]
           Detached(l) == \E x \in t.detached : x.n = l.n /\ x.res = l.res
           freed == {l \in row.lines : Detached(l)}
       IN  \/ ReadConsumed(h) /\ UNCHANGED <<stock, res, doc>>
           \/ /\ t.unread = {}
              /\ RowGone(t.d) \/ (row.type = "WZ" /\ UniqueViolation(t.d, row.o))
              /\ Throw(h) /\ UNCHANGED <<stock, res, doc>>
           \/ /\ t.unread = {}
              /\ ~RowGone(t.d) /\ ~(row.type = "WZ" /\ UniqueViolation(t.d, row.o))
              /\ stock' = stock + StockDelta(row.type, t.own + SumQty(t.detached), t.sys)
              /\ ConsumeRows(t.consumed, t.cancelled)
              /\ doc' = [doc EXCEPT ![t.d].st = "CONFIRMED",
                                    ![t.d].own = @ + SumQty(freed),
                                    ![t.d].lines = @ \ freed]
              /\ IF row.type = "PZ" THEN Goto(h, [k |-> "realloc"]) ELSE Return(h)
    /\ UNCHANGED <<wholesale, order, lock, budget>>

(* reallocateWholesaleBackordersForProducts: reserves again, one by one,  *)
(* the orders that wait for a wholesaler, then aligns their draft WZs.     *)
Realloc(h) ==
    /\ at[h].k = "realloc"
    /\ LET waiting == {o \in Orders :
                         /\ order[o] \in ReservingStatuses
                         /\ \E r \in Active(o) : res[r].src = "WHOLESALE_BACKORDER"}
       IN  Goto(h, [k |-> "reallocOrders", left |-> waiting, all |-> waiting])
    /\ UNCHANGED <<rows, wholesale, lock, budget>>

ReallocOrders(h) ==
    /\ at[h].k = "reallocOrders"
    /\ LET t == at[h]
       IN  \/ \E o \in t.left :
              Call(h, ReserveStep(o), <<[t EXCEPT !.left = @ \ {o}]>>)
           \/ /\ t.left = {}
              /\ Goto(h, [k |-> "reallocDrafts",
                          left |-> {d \in DocIds : /\ doc[d].type = "WZ"
                                                   /\ doc[d].st = "DRAFT"
                                                   /\ doc[d].o \in t.all}])
    /\ UNCHANGED <<rows, wholesale, lock, budget>>

ReallocDrafts(h) ==
    /\ at[h].k = "reallocDrafts"
    /\ \/ \E d \in at[h].left :
          Call(h, SyncStep(d), <<[at[h] EXCEPT !.left = @ \ {d}]>>)
       \/ at[h].left = {} /\ Return(h)
    /\ UNCHANGED <<rows, wholesale, lock, budget>>

(* releaseDocumentReservations reads the reservations of the items, one by *)
(* one, and gives back what they still hold.                               *)
Holding(r) == res[r].st \in {"ACTIVE", "CONSUMED"}
ReadReleased(h) ==
    \E r \in at[h].unread :
        LET row == [r |-> r, src |-> res[r].src, qty |-> res[r].qty]
        IN  Goto(h, [at[h] EXCEPT !.unread = @ \ {r},
                                  !.seen = IF Holding(r) THEN @ \cup {row} ELSE @])

(* cancelDocument, its transaction: the effects of the document it read    *)
(* before are undone if that was confirmed; those it found holding stock   *)
(* are written by id, whatever they are by then.                           *)
CancelTx(h) ==
    /\ at[h].k = "cancelTx"
    /\ LET t        == at[h]
           released == {s.r : s \in t.seen}
           moved    == IF t.st = "CONFIRMED" THEN StockDelta(doc[t.d].type, t.own, t.sys) ELSE 0
       IN  \/ ReadReleased(h) /\ UNCHANGED <<stock, res, doc>>
           \/ /\ t.unread = {} /\ RowGone(t.d)
              /\ Throw(h) /\ UNCHANGED <<stock, res, doc>>
           \/ /\ t.unread = {} /\ ~RowGone(t.d)
              /\ stock' = stock + SeenQty(t.seen, "LOCAL_STOCK") - moved
              /\ res' = [r \in ResIds |-> IF r \in released
                                          THEN [res[r] EXCEPT !.st = "RELEASED"]
                                          ELSE res[r]]
              /\ doc' = [doc EXCEPT ![t.d].st = "CANCELLED"]
              /\ Return(h)
    /\ UNCHANGED <<wholesale, order, lock, budget>>

(* deleteDocument: the row and, by cascade, its items. *)
DeleteTx(h) ==
    /\ at[h].k = "deleteTx"
    /\ IF RowGone(at[h].d)
       THEN Throw(h) /\ UNCHANGED doc
       ELSE /\ doc' = [doc EXCEPT ![at[h].d] = [FreeDoc EXCEPT !.st = "DELETED"]]
            /\ Return(h)
    /\ UNCHANGED <<stock, wholesale, order, res, lock, budget>>

(* mergeDocumentItem: adds to the item without a reservation; an inventory *)
(* count replaces it.                                                      *)
AddItemTx(h) ==
    /\ at[h].k = "addItemTx"
    /\ LET t == at[h]
           inventory == doc[t.d].type = "INW"
       IN  IF RowGone(t.d)
           THEN Throw(h) /\ UNCHANGED doc
           ELSE /\ doc' = [doc EXCEPT ![t.d].own = IF inventory THEN t.qty ELSE @ + t.qty,
                                      ![t.d].sys = IF inventory THEN t.sys ELSE @]
                /\ Return(h)
    /\ UNCHANGED <<stock, wholesale, order, res, lock, budget>>

(* updateDocument, its transaction: all items are replaced by one that has *)
(* no reservation, the order of a WZ is changed, or both.                  *)
UpdateTx(h) ==
    /\ at[h].k = "updateTx"
    /\ LET t   == at[h]
           row == IF t.items THEN [doc[t.d] EXCEPT !.own = t.own, !.sys = t.sys, !.lines = {}]
                  ELSE doc[t.d]
       IN  IF \/ RowGone(t.d)
              \/ t.order /\ row.type = "WZ" /\ row.st # "CANCELLED" /\ UniqueViolation(t.d, t.o)
           THEN Throw(h) /\ UNCHANGED doc
           ELSE /\ doc' = [doc EXCEPT ![t.d] = IF t.order THEN [row EXCEPT !.o = t.o] ELSE row]
                /\ Return(h)
    /\ UNCHANGED <<stock, wholesale, order, res, lock, budget>>

(* updateDocumentItem: the quantity of the item without a reservation. *)
SetItemTx(h) ==
    /\ at[h].k = "setItemTx"
    /\ IF doc[at[h].d].own = 0
       THEN Throw(h) /\ UNCHANGED doc
       ELSE /\ doc' = [doc EXCEPT ![at[h].d].own = at[h].qty]
            /\ Return(h)
    /\ UNCHANGED <<stock, wholesale, order, res, lock, budget>>

(* deleteDocumentItem, of that item or of one linked to a reservation,    *)
(* which stays as it is.                                                   *)
DropOwnTx(h) ==
    /\ at[h].k = "dropOwnTx"
    /\ IF doc[at[h].d].own = 0
       THEN Throw(h) /\ UNCHANGED doc
       ELSE /\ doc' = [doc EXCEPT ![at[h].d].own = 0, ![at[h].d].sys = 0]
            /\ Return(h)
    /\ UNCHANGED <<stock, wholesale, order, res, lock, budget>>
DropItemTx(h) ==
    /\ at[h].k = "dropItemTx"
    /\ IF ~HasLine(at[h].d, at[h].line)
       THEN Throw(h) /\ UNCHANGED doc
       ELSE /\ doc' = [doc EXCEPT ![at[h].d].lines =
                         {l \in @ : ~(l.n = at[h].line.n /\ l.res = at[h].line.res)}]
            /\ Return(h)
    /\ UNCHANGED <<stock, wholesale, order, res, lock, budget>>

(* recalculateStockCache, its transaction. *)
RecalculateTx(h) ==
    /\ at[h].k = "recalculateTx"
    /\ stock' = at[h].value
    /\ Return(h)
    /\ UNCHANGED <<wholesale, order, res, doc, lock, budget>>

-----------------------------------------------------------------------------
(* Requests *)

Begin(h, request, step) ==
    /\ at[h] = Idle
    /\ request \in Requests
    /\ budget > 0
    /\ budget' = budget - 1
    /\ Goto(h, step)
    /\ UNCHANGED <<wholesale, lock>>

(* applyOrderStatusWarehouseEffects after the status of an order was set  *)
(* by the panel, a webhook or the shop synchronisation.                    *)
ChangeStatus(h) ==
    \E o \in Orders : \E s \in Statuses \ {order[o]} :
    /\ order' = [order EXCEPT ![o] = s]
    /\ \/ /\ s \in ShippedStatuses
          /\ Begin(h, "status", FinalizeStep(o))
       \/ /\ s \in InactiveStatuses
          /\ Begin(h, "status", ReleaseStep(o))
       \/ /\ s \in ReservingStatuses
          /\ ~AutoCreateWz
          /\ Begin(h, "status", ReserveStep(o))
       \/ /\ s \in ReservingStatuses
          /\ AutoCreateWz
          /\ Begin(h, "status", [k |-> "reserveAndWz", o |-> o])
    /\ UNCHANGED <<stock, res, doc>>

ReserveAndWz(h) ==
    /\ at[h].k = "reserveAndWz"
    /\ Call(h, ReserveStep(at[h].o), <<WzStep(at[h].o, FALSE, FALSE, FALSE)>>)
    /\ UNCHANGED <<rows, wholesale, lock, budget>>

(* POST /orders/:id reserve, release and create-wz. *)
RefreshReservations(h) == \E o \in Orders :
    Begin(h, "reserve", ReserveStep(o)) /\ UNCHANGED rows
ReleaseReservations(h) == \E o \in Orders :
    Begin(h, "release", ReleaseStep(o)) /\ UNCHANGED rows
CreateWz(h) == \E o \in Orders, force, draft \in BOOLEAN :
    Begin(h, "createWz", WzStep(o, force, draft, FALSE)) /\ UNCHANGED rows

(* POST /orders/:id/zh *)
CreateZh(h) == \E o \in Orders :
    Begin(h, "createZh", [k |-> "zh", o |-> o]) /\ UNCHANGED rows

(* A ZH has been received when the PZ made from it exists and counts. *)
(* Fault: a draft PZ does not count. *)
ReceivedConfirmed(d) == doc[d].link # None /\ doc[doc[d].link].st = "CONFIRMED"
Received(d) == doc[d].link # None /\ doc[doc[d].link].st \in {"DRAFT", "CONFIRMED"}

(* createPzFromWholesaleOrder, of all that was ordered or of what a        *)
(* delivery check has counted.                                             *)
CreatePz(h) == \E d \in DocIds, draft \in BOOLEAN : \E q \in Qtys \cup {doc[d].own} :
    /\ doc[d].type = "ZH" /\ doc[d].st \in {"DRAFT", "CONFIRMED"} /\ doc[d].own > 0
    /\ ~Received(d)
    /\ Begin(h, "createPz", [k |-> "pzTx", d |-> d, st |-> doc[d].st, qty |-> q,
                             draft |-> draft])
    /\ UNCHANGED rows

(* prepareDocumentItems of an INW: the stock as it was before reservations. *)
SystemQuantity ==
    stock + SumRes(HeldLocally({"ACTIVE"}))

(* createDocument, with one item that has no reservation; a WZ may name an *)
(* order that has no other.                                                *)
CreateDocument(h) ==
    \E d \in DocIds, type \in Types, q \in Qtys, o \in Orders \cup {None} :
    /\ Begin(h, "create", Idle)
    /\ IsFirstFree(d, FreeDocIds)
    /\ o # None => type = "WZ" /\ ~UniqueViolation(d, o)
    /\ doc' = [doc EXCEPT ![d] =
                 [FreeDoc EXCEPT !.st = "DRAFT", !.type = type, !.o = o, !.own = q,
                                 !.sys = IF type = "INW" THEN SystemQuantity ELSE 0]]
    /\ UNCHANGED <<stock, order, res>>

ConfirmDocument(h) == \E d \in DocIds :
    /\ doc[d].st \in {"DRAFT", "CONFIRMED", "CANCELLED"}
    /\ Begin(h, "confirm", ConfirmStep(d)) /\ UNCHANGED rows

(* The first read of the remaining requests rejects a document in another *)
(* status, which leaves nothing to do.                                     *)
CancelDocument(h) == \E d \in DocIds :
    /\ doc[d].st \in {"DRAFT", "CONFIRMED"}
    /\ Begin(h, "cancel", [k |-> "cancelTx", d |-> d, st |-> doc[d].st,
                           own |-> doc[d].own, sys |-> doc[d].sys, seen |-> {},
                           unread |-> IF doc[d].st = "CONFIRMED"
                                      THEN {l.res : l \in doc[d].lines} ELSE {}])
    /\ UNCHANGED rows
DeleteDocument(h) == \E d \in DocIds :
    /\ doc[d].st = "DRAFT"
    /\ Begin(h, "delete", [k |-> "deleteTx", d |-> d]) /\ UNCHANGED rows
(* updateDocument; the items of a WZ that are linked to reservations are   *)
(* not replaced.  "assign" is an update that changes the order.            *)
UpdateDocument(h) ==
    \E d \in DocIds, q \in Qtys, o \in Orders \cup {None}, items, assign \in BOOLEAN :
    /\ doc[d].st = "DRAFT"
    /\ items \/ assign
    /\ assign => doc[d].type = "WZ"
    /\ items /\ doc[d].type = "WZ" => doc[d].lines = {}
    /\ Begin(h, IF assign THEN "assign" ELSE "update",
             [k |-> "updateTx", d |-> d, items |-> items, order |-> assign, own |-> q,
              sys |-> IF doc[d].type = "INW" THEN SystemQuantity ELSE 0, o |-> o])
    /\ UNCHANGED rows
AddItem(h) == \E d \in DocIds, q \in Qtys :
    /\ doc[d].st = "DRAFT"
    /\ Begin(h, "addItem", [k |-> "addItemTx", d |-> d, qty |-> q, sys |-> SystemQuantity])
    /\ UNCHANGED rows
SetItem(h) == \E d \in DocIds, q \in Qtys :
    /\ doc[d].st = "DRAFT" /\ doc[d].own > 0
    /\ Begin(h, "setItem", [k |-> "setItemTx", d |-> d, qty |-> q])
    /\ UNCHANGED rows
DropOwn(h) == \E d \in DocIds :
    /\ doc[d].st = "DRAFT" /\ doc[d].own > 0
    /\ Begin(h, "dropItem", [k |-> "dropOwnTx", d |-> d])
    /\ UNCHANGED rows
DropItem(h) == \E d \in DocIds : \E l \in doc[d].lines :
    /\ doc[d].st = "DRAFT"
    /\ Begin(h, "dropItem", [k |-> "dropItemTx", d |-> d,
                             line |-> [n |-> l.n, res |-> l.res]])
    /\ UNCHANGED rows
Recalculate(h) ==
    /\ Begin(h, "recalculate", [k |-> "recalculateTx", value |-> DocumentedStock])
    /\ UNCHANGED rows

(* The wholesale synchronisation, seen from here: offers come and go. *)
SyncOffers ==
    /\ "offers" \in Requests
    /\ wholesale' = ~wholesale
    /\ UNCHANGED <<rows, lock, at, rest, budget>>

(* The process dies or its database connection does: an open transaction  *)
(* is rolled back, the rest of the request is lost.                        *)
Crash(h) ==
    /\ at[h] # Idle
    /\ Throw(h)
    /\ lock' = [o \in Orders |-> IF lock[o] = h THEN None ELSE lock[o]]
    /\ UNCHANGED <<rows, wholesale, budget>>

(* Nothing runs and nothing more is asked. *)
Quiescent ==
    /\ budget = 0
    /\ \A h \in Handlers : at[h] = Idle
    /\ UNCHANGED vars

-----------------------------------------------------------------------------
Init ==
    /\ stock = 0
    /\ wholesale \in BOOLEAN
    /\ order = [o \in Orders |-> "NEW"]
    /\ res = [r \in ResIds |-> FreeRes]
    /\ doc = [d \in DocIds |-> FreeDoc]
    /\ lock = [o \in Orders |-> None]
    /\ at = [h \in Handlers |-> Idle]
    /\ rest = [h \in Handlers |-> <<>>]
    /\ budget = MaxRequests

Request(h) ==
    \/ ChangeStatus(h) \/ RefreshReservations(h) \/ ReleaseReservations(h) \/ CreateWz(h)
    \/ CreateDocument(h) \/ ConfirmDocument(h) \/ CancelDocument(h) \/ DeleteDocument(h)
    \/ AddItem(h) \/ SetItem(h) \/ DropOwn(h) \/ DropItem(h) \/ Recalculate(h)
    \/ CreateZh(h) \/ CreatePz(h) \/ UpdateDocument(h)

Step(h) ==
    \/ Reserve(h) \/ ReserveTx(h) \/ ReleaseTx(h) \/ Apply(h)
    \/ ReserveAndWz(h) \/ Wz(h) \/ Collect(h) \/ WzTx(h) \/ Sync(h) \/ SyncTx(h) \/ Finalize(h)
    \/ Confirm(h) \/ ConfirmTx(h) \/ Realloc(h) \/ ReallocOrders(h) \/ ReallocDrafts(h)
    \/ CancelTx(h) \/ DeleteTx(h) \/ AddItemTx(h) \/ SetItemTx(h) \/ DropOwnTx(h)
    \/ DropItemTx(h) \/ RecalculateTx(h)
    \/ Zh(h) \/ ZhCollect(h) \/ ZhTx(h) \/ PzTx(h) \/ UpdateTx(h)

Next ==
    \/ \E h \in Handlers : Request(h) \/ Step(h) \/ Crash(h)
    \/ SyncOffers
    \/ Quiescent

Spec == Init /\ [][Next]_vars

(* A request that is running goes on: the event loop serves every pending  *)
(* await, and the database answers.                                        *)
FairSpec == Spec /\ \A h \in Handlers : WF_vars(Step(h))

-----------------------------------------------------------------------------
(* Types *)

Sources  == {"LOCAL_STOCK", "WHOLESALE_BACKORDER"}
ItemRef  == [n : Nat, res : ResIds]
Line     == [n : Nat, res : ResIds, qty : Nat]
SeenRow  == [r : ResIds, src : Sources, qty : Nat]
ResRow   == [st : {"FREE", "ACTIVE", "RELEASED", "CONSUMED", "CANCELLED"},
             src : Sources, qty : Nat, o : Orders \cup {None}]
DocRow   == [st : {"FREE", "DRAFT", "CONFIRMED", "CANCELLED", "DELETED"}, type : DocTypes,
             o : Orders \cup {None}, own : Nat, sys : Int, lines : SUBSET Line,
             warn : BOOLEAN, link : DocIds \cup {None}]

OrderSteps == [k : {"reserve", "reserveTx", "release", "finalize", "reserveAndWz", "zh"},
               o : Orders]
WzSteps    == [k : {"wz"}, o : Orders, force : BOOLEAN, draft : BOOLEAN, retry : BOOLEAN]
                \cup [k : {"zhCollect"}, o : Orders, found : BOOLEAN]
CollectSteps == [k : {"collect"}, o : Orders, force : BOOLEAN, draft : BOOLEAN,
                 retry : BOOLEAN, warn : BOOLEAN]
DocSteps   == [k : {"sync", "confirm", "deleteTx", "dropOwnTx"}, d : DocIds]
ReallocSteps == [k : {"realloc"}] \cup [k : {"reallocOrders"}, left : SUBSET Orders,
                                        all : SUBSET Orders]
                  \cup [k : {"reallocDrafts"}, left : SUBSET DocIds]
(* The steps a handler can have pending carry nothing it has read of rows. *)
PendingStep == OrderSteps \cup WzSteps \cup CollectSteps \cup DocSteps \cup ReallocSteps
TxSteps ==
    [k : {"apply"}, o : Orders, seen : SUBSET SeenRow,
     local : Nat, back : Nat, short : BOOLEAN]
      \cup [k : {"wzTx"}, o : Orders, force : BOOLEAN, draft : BOOLEAN, retry : BOOLEAN,
            warn : BOOLEAN, lines : SUBSET Line, unread : SUBSET ResIds,
            consumed : SUBSET ResIds]
      \cup [k : {"syncTx"}, d : DocIds, drop : SUBSET ItemRef, set : SUBSET Line,
            add : SUBSET [res : ResIds, qty : Nat]]
      \cup [k : {"confirmTx"}, d : DocIds, own : Nat, sys : Int, detached : SUBSET Line,
            unread : SUBSET ResIds, consumed : SUBSET ResIds, cancelled : SUBSET ResIds]
      \cup [k : {"cancelTx"}, d : DocIds, st : {"DRAFT", "CONFIRMED"}, own : Nat, sys : Int,
            unread : SUBSET ResIds, seen : SUBSET SeenRow]
      \cup [k : {"addItemTx"}, d : DocIds, qty : Nat, sys : Int]
      \cup [k : {"setItemTx"}, d : DocIds, qty : Nat]
      \cup [k : {"dropItemTx"}, d : DocIds, line : ItemRef]
      \cup [k : {"recalculateTx"}, value : Int]
      \cup [k : {"zhTx"}, o : Orders, qty : Nat]
      \cup [k : {"pzTx"}, d : DocIds, st : {"DRAFT", "CONFIRMED"}, qty : Nat, draft : BOOLEAN]
      \cup [k : {"updateTx"}, d : DocIds, items : BOOLEAN, order : BOOLEAN, own : Nat,
            sys : Int, o : Orders \cup {None}]

(* Quantities of rows, items and plans never become negative (the columns *)
(* have no CHECK), only currentStock may; every step carries what the code *)
(* that resumes there reads.                                               *)
TypeOK ==
    /\ stock \in Int /\ wholesale \in BOOLEAN /\ budget \in 0..MaxRequests
    /\ order \in [Orders -> OrderStatuses]
    /\ res \in [ResIds -> ResRow]
    /\ doc \in [DocIds -> DocRow]
    /\ lock \in [Orders -> Handlers \cup {None}]
    /\ at \in [Handlers -> {Idle} \cup PendingStep \cup TxSteps]
    /\ rest \in [Handlers -> Seq(PendingStep)]

-----------------------------------------------------------------------------
(* Properties *)

(* currentStock is what confirmed documents moved by themselves, less what *)
(* reservations hold or have issued: applyStockDeltas skips the items a    *)
(* reservation answers for, and no path counts a quantity twice or never.  *)
StockBalance ==
    stock = SumFunction([d \in ConfirmedDocs |->
                           StockDelta(doc[d].type, doc[d].own, doc[d].sys)])
              - SumRes(HeldLocally({"ACTIVE", "CONSUMED"}))

(* The database of reservations and that of documents agree on what was    *)
(* issued: a consumed reservation is on exactly one confirmed document, and *)
(* a confirmed document links no local reservation that is not consumed.   *)
LinkedDocs(r) == {d \in ConfirmedDocs : \E l \in doc[d].lines : l.res = r}
ConsumedIffIssued ==
    \A r \in ResIds : res[r].src = "LOCAL_STOCK" =>
        IF res[r].st = "CONSUMED" THEN Cardinality(LinkedDocs(r)) = 1 ELSE LinkedDocs(r) = {}

(* What an order holds and was issued never exceeds what was ordered, even *)
(* when its WZ is confirmed, cancelled or confirmed again in between.      *)
ReservedWithinNeed == \A o \in Orders : SumRes(HeldBy(o)) <= Need[o]

(* reserveOrder: an order that was sent or closed takes no new reservation, *)
(* whichever request, shipment, reallocation or retry asks for it.         *)
ClosedTakesNoReservation ==
    [][\A o \in Orders : order[o] \in ShippedStatuses \cup InactiveStatuses =>
          Active(o)' \subseteq Active(o)]_vars

(* createPzFromWholesaleOrder: what a wholesale order brings is received   *)
(* once, although its PZ may be cancelled, deleted or still be a draft     *)
(* when the delivery is booked again.                                      *)
ReceivedOnce ==
    \A z \in DocIds : Cardinality({d \in DocIds : /\ doc[d].type = "PZ"
                                                 /\ doc[d].link = z
                                                 /\ doc[d].st \in {"DRAFT", "CONFIRMED"}}) <= 1

(* Without allowNegativeStock, stock drops below 0 only when a document is *)
(* taken back or counted: every reservation and every issue finds it first. *)
OnlyUndoGoesNegative ==
    [][stock >= 0 /\ stock' < 0 =>
         \E h \in Handlers :
            \/ at[h].k = "cancelTx"
            \/ at[h].k = "confirmTx" /\ doc[at[h].d].type = "INW"]_vars

(* The advisory lock of reserveOrder and releaseOrderReservations: nothing *)
(* a request is about to write is refused by the unique index on the       *)
(* active reservation of an order line, whoever reserves, releases,        *)
(* confirms or cancels at the same time.                                   *)
NeverRefused == \A h \in Handlers : at[h].k = "apply" => ~Refused(at[h])

(* An order has one WZ that is not cancelled, whoever creates or confirms  *)
(* one: warehouse_documents_wz_per_order also stops the confirmation that  *)
(* would revive a document cancelled meanwhile.                            *)
OneOpenWz == \A o \in Orders : \A d1, d2 \in OpenWz(o) : d1 = d2

(* Every request is answered: nobody waits for the lock of an order for    *)
(* ever, and createWzForOrder retries a lost race once.                    *)
EveryRequestEnds == \A h \in Handlers : []<>(at[h] = Idle)

-----------------------------------------------------------------------------
(* What the repository says of itself *)

(* warehouse.md: stock is protected from becoming negative unless         *)
(* allowNegativeStock is set.                                              *)
NeverNegative == stock >= 0

(* confirmDocument: only DRAFT documents can be confirmed. *)
OnlyDraftsAreConfirmed ==
    [][\A h \in Handlers :
          at[h].k = "confirmTx" /\ at'[h] # at[h] /\ doc[at[h].d].st # "DRAFT" =>
              doc'[at[h].d] = doc[at[h].d]]_vars
=============================================================================
