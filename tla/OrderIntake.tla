----------------------------- MODULE OrderIntake -----------------------------
(***************************************************************************)
(* How orders and their statuses come in from one shop: messages of the    *)
(* shop, the periodical synchronisation, and status changes of the panel.  *)
(*                                                                         *)
(* doing[p] is the statement process p is about to run, with what it has   *)
(* read.  A message of the shop may be lost, late, repeated or overtaken.  *)
(* A state of the shop stands for the operational status it is mapped to.  *)
(* WarehouseLedger models reservations in detail; here the order holds     *)
(* stock, or does not, or has issued it.  An order has one item, which is  *)
(* personalised, so its customer is invited by e-mail.  The shop has its   *)
(* orders from the beginning; any of them may come in at any time.         *)
(***************************************************************************)
EXTENDS Integers, FiniteSets

CONSTANTS
    ShopOrders,         \* externalOrderId, numbered
    ShopStates,         \* states of orders
    IntakeHandlers,     \* requests served at the same time
    Syncers,            \* synchronisations that may overlap
    PaidStatuses,       \* paidStatusIds of the webhook
    Listed,             \* the states a synchronisation asks for
    Limit,              \* and how many orders
    LastDay,            \* bound of the calendar
    MaxShopChanges,     \* bound of the changes of states
    MaxIntakeFaults     \* bound of failures and crashes

ASSUME IntakeAssumption ==
    /\ ShopOrders \subseteq Nat
    /\ IntakeHandlers \cap Syncers = {}
    /\ ShopStates \subseteq {"NEW", "PAID", "SHIPPED", "CANCELLED"}
    /\ PaidStatuses \subseteq ShopStates /\ Listed \subseteq ShopStates
    /\ Limit \in Nat \ {0} /\ LastDay \in Nat
    /\ MaxShopChanges \in Nat /\ MaxIntakeFaults \in Nat

VARIABLES
    theirs,     \* the shop's orders: their state and the day of date_upd
    orders,     \* Order rows, with what the warehouse did for them
    event,      \* messages of the shop and their ShopWebhookEvent rows, by order and status
    lastSync,   \* the day of lastSyncAt
    day,        \* today
    invited,    \* invitations sent to the customer of an order (not in the code)
    doing,      \* the next statement of every process
    shopChanges, intakeFaults \* changes and failures so far

intakeVars ==
    <<theirs, orders, event, lastSync, day, invited, doing, shopChanges, intakeFaults>>

Reserving(s) == s = "PAID"
TakesNone(s) == s \in {"SHIPPED", "CANCELLED"}
Free == [pc |-> "free"]
Processes == IntakeHandlers \cup Syncers
NoOrder == [st |-> "none", items |-> FALSE, stock |-> "none"]
Known(o) == orders[o].st # "none"

On(p, pc) == doing[p].pc = pc
GoOn(p, step) == doing' = [doing EXCEPT ![p] = step]
To(p, pc) == GoOn(p, [doing[p] EXCEPT !.pc = pc])
Failed(p, pc) == GoOn(p, [doing[p] EXCEPT !.pc = pc, !.failed = p \in IntakeHandlers])
(* The state is not looked at any more. *)
Leave(p, pc) == GoOn(p, [doing[p] EXCEPT !.pc = pc, !.st = "none"])
IntakeFault == intakeFaults < MaxIntakeFaults /\ intakeFaults' = intakeFaults + 1
Keep == UNCHANGED <<theirs, event, lastSync, day, shopChanges>>

-----------------------------------------------------------------------------
(* The shop and the calendar *)

(* A message of a state that was told before has the same key. *)
Tells(o, s) == event' = [event EXCEPT ![o][s] = IF @ = "unsent" THEN "sent" ELSE @]

ChangeState(o, s) ==
    /\ theirs[o].st # s
    /\ shopChanges < MaxShopChanges /\ shopChanges' = shopChanges + 1
    /\ theirs' = [theirs EXCEPT ![o] = [st |-> s, day |-> day]]
    /\ Tells(o, s)
    /\ UNCHANGED <<orders, lastSync, day, invited, doing, intakeFaults>>

Midnight ==
    /\ day < LastDay /\ day' = day + 1
    /\ UNCHANGED <<theirs, orders, event, lastSync, invited, doing, shopChanges,
                   intakeFaults>>

-----------------------------------------------------------------------------
(* Webhooks *)

(* "open" is an event that is PENDING or FAILED: nothing tells them apart. *)
Webhook(h, o, s) ==
    GoOn(h, [pc |-> "register", o |-> o, st |-> s, for |-> s, failed |-> FALSE, new |-> FALSE])

(* handlePrestaShopOrderWebhook: an event that was processed is dropped. *)
Receive(h, o, s) ==
    /\ On(h, "free")
    /\ event[o][s] \in {"sent", "open"}
    /\ Webhook(h, o, s)
    /\ Keep /\ UNCHANGED <<orders, invited, intakeFaults>>

(* reprocessShopWebhookEvent does not ask whether it was processed. *)
Reprocess(h, o, s) ==
    /\ On(h, "free")
    /\ event[o][s] = "PROCESSED"
    /\ shopChanges < MaxShopChanges /\ shopChanges' = shopChanges + 1
    /\ Webhook(h, o, s)
    /\ UNCHANGED <<theirs, orders, event, lastSync, day, invited, intakeFaults>>

Mark(p, st) == event' = [event EXCEPT ![doing[p].o][doing[p].for] = st]

SetStatus(o, s) == orders' = [orders EXCEPT ![o].st = IF @ = "none" THEN @ ELSE s]

(* The row of the event is written, then the status of the order, which is *)
(* the message's: updateOrderExternalStatusFromWebhook.                    *)
StatusFromWebhook(h) ==
    /\ On(h, "register")
    /\ Mark(h, "open")
    /\ SetStatus(doing[h].o, doing[h].for)
    /\ To(h, IF doing[h].for \in PaidStatuses THEN "find" ELSE "lookup")
    /\ UNCHANGED <<theirs, lastSync, day, invited, shopChanges, intakeFaults>>

Lookup(h) ==
    /\ On(h, "lookup")
    /\ To(h, IF Known(doing[h].o) THEN "effects" ELSE "end")
    /\ Keep /\ UNCHANGED <<orders, invited, intakeFaults>>

-----------------------------------------------------------------------------
(* importPrestaShopOrderWithContext *)

(* A synchronisation has the state from its list, a webhook asks the shop. *)
Find(p) ==
    /\ On(p, "find")
    /\ IF Known(doing[p].o)
       THEN IF p \in Syncers THEN To(p, "refresh")
            ELSE GoOn(p, [doing[p] EXCEPT !.pc = "read", !.st = orders[doing[p].o].st])
       ELSE To(p, "details")
    /\ Keep /\ UNCHANGED <<orders, invited, intakeFaults>>

(* resolveOrderStatusSnapshot; without an answer the old status counts. *)
ReadState(p) ==
    /\ On(p, "read")
    /\ \/ /\ GoOn(p, [doing[p] EXCEPT !.pc = "refresh", !.st = theirs[doing[p].o].st])
          /\ UNCHANGED intakeFaults
       \/ /\ IntakeFault
          /\ Failed(p, IF Reserving(doing[p].st) THEN "effects" ELSE "end")
    /\ Keep /\ UNCHANGED <<orders, invited>>

RefreshExisting(p) ==
    /\ On(p, "refresh")
    /\ SetStatus(doing[p].o, doing[p].st)
    /\ To(p, "effects")
    /\ Keep /\ UNCHANGED <<invited, intakeFaults>>

FetchDetails(p) ==
    /\ On(p, "details")
    /\ \/ /\ GoOn(p, [doing[p] EXCEPT !.pc = "create", !.st = theirs[doing[p].o].st,
                                      !.new = TRUE])
          /\ UNCHANGED intakeFaults
       \/ IntakeFault /\ Failed(p, "end")
    /\ Keep /\ UNCHANGED <<orders, invited>>

(* Fault: shopId and externalOrderId are no unique key. *)
NeverTaken(o) == FALSE
Taken(o) == Known(o)

CreateOrder(p) ==
    /\ On(p, "create")
    /\ LET o == doing[p].o IN
       IF Taken(o)
       THEN Failed(p, "end") /\ UNCHANGED orders
       ELSE /\ orders' = [orders EXCEPT ![o] = [NoOrder EXCEPT !.st = doing[p].st]]
            /\ To(p, "items")
    /\ Keep /\ UNCHANGED <<invited, intakeFaults>>

CreateItems(p) ==
    /\ On(p, "items")
    /\ orders' = [orders EXCEPT ![doing[p].o].items = TRUE]
    /\ To(p, IF Reserving(doing[p].st) THEN "effects" ELSE "mail")
    /\ Keep /\ UNCHANGED <<invited, intakeFaults>>

Invite(p) ==
    /\ On(p, "mail")
    /\ invited' = [invited EXCEPT ![doing[p].o] = @ + 1]
    /\ To(p, "end")
    /\ Keep /\ UNCHANGED <<orders, intakeFaults>>

-----------------------------------------------------------------------------
(* The panel: updateOrderStatus *)

PanelSetsStatus(h, o, s) ==
    /\ On(h, "free") /\ Known(o) /\ orders[o].st # s
    /\ shopChanges < MaxShopChanges /\ shopChanges' = shopChanges + 1
    /\ SetStatus(o, s)
    /\ GoOn(h, [pc |-> "push", o |-> o, st |-> s, for |-> "panel", failed |-> FALSE, new |-> FALSE])
    /\ UNCHANGED <<theirs, event, lastSync, day, invited, intakeFaults>>

(* createOrderHistory: done, refused, or done without an answer. *)
PushToShop(h) ==
    /\ On(h, "push")
    /\ LET o == doing[h].o
           s == doing[h].st
           done == theirs' = [theirs EXCEPT ![o] = [st |-> s, day |-> day]] /\ Tells(o, s)
       IN \/ done /\ To(h, "refresh") /\ UNCHANGED intakeFaults
          \/ IntakeFault /\ done /\ To(h, "unpushed")
          \/ IntakeFault /\ To(h, "unpushed") /\ UNCHANGED <<theirs, event>>
    /\ UNCHANGED <<orders, lastSync, day, invited, shopChanges>>

(* statusSyncError is written and the row read back. *)
Unpushed(h) ==
    /\ On(h, "unpushed")
    /\ GoOn(h, [doing[h] EXCEPT !.pc = "effects", !.st = orders[doing[h].o].st])
    /\ Keep /\ UNCHANGED <<orders, invited, intakeFaults>>

-----------------------------------------------------------------------------
(* applyOrderStatusWarehouseEffects, and the end of a request *)

Stock(o, v) == orders' = [orders EXCEPT ![o].stock = v]
AfterEffects(p) == IF doing[p].new THEN "mail" ELSE "end"

(* finalizeOrderShipment issues, releaseOrderReservations releases what is held. *)
WithoutReserving(s, stock) ==
    IF stock = "held" /\ s = "SHIPPED" THEN "issued"
    ELSE IF stock = "held" /\ s = "CANCELLED" THEN "none" ELSE stock

Effects(p) ==
    /\ On(p, "effects")
    /\ LET o == doing[p].o
           s == doing[p].st
       IN \/ /\ Reserving(s)
             /\ Leave(p, IF TakesNone(orders[o].st) THEN AfterEffects(p) ELSE "hold")
             /\ UNCHANGED <<orders, intakeFaults>>
          \/ /\ ~Reserving(s)
             /\ Stock(o, WithoutReserving(s, orders[o].stock))
             /\ Leave(p, AfterEffects(p)) /\ UNCHANGED intakeFaults
          \/ s # "NEW" /\ IntakeFault /\ Failed(p, AfterEffects(p)) /\ UNCHANGED orders
    /\ Keep /\ UNCHANGED invited

(* reserveOrder reserves what the items of the order ask for. *)
(* Fault: for an order whose items are not written yet. *)
HeldEarly(row) == IF row.stock = "none" THEN "held" ELSE row.stock
HeldBy(row) == IF row.items /\ row.stock = "none" THEN "held" ELSE row.stock

(* Its transaction; the check of the status was before. *)
Hold(p) ==
    /\ On(p, "hold")
    /\ Stock(doing[p].o, HeldBy(orders[doing[p].o]))
    /\ Leave(p, AfterEffects(p))
    /\ Keep /\ UNCHANGED <<invited, intakeFaults>>

EndRequest(h) ==
    /\ On(h, "end") /\ h \in IntakeHandlers
    /\ IF doing[h].for = "panel" THEN UNCHANGED event
       ELSE Mark(h, IF doing[h].failed THEN "open" ELSE "PROCESSED")
    /\ GoOn(h, Free)
    /\ UNCHANGED <<theirs, orders, lastSync, day, invited, shopChanges, intakeFaults>>

-----------------------------------------------------------------------------
(* syncShopOrders *)

(* date_upd is compared with the day of lastSyncAt, at midnight. *)
(* Fault: with the days after it. *)
InWindowLater(o) == theirs[o].day > lastSync
InWindow(o) == theirs[o].day >= lastSync
Window == {o \in ShopOrders : theirs[o].st \in Listed /\ InWindow(o)}
FirstOf(S) == {o \in S : Cardinality({q \in S : q <= o}) <= Limit}
Least(S) == CHOOSE x \in S : \A y \in S : x.o <= y.o

Import(list) ==
    IF list = {} THEN [pc |-> "finish"]
    ELSE [pc |-> "find", o |-> Least(list).o, st |-> Least(list).st, for |-> "sync",
          failed |-> FALSE, new |-> FALSE, list |-> list \ {Least(list)}]

(* The list is fetched with its states. *)
BeginSync(y) ==
    /\ On(y, "free")
    /\ GoOn(y, Import({[o |-> o, st |-> theirs[o].st] : o \in FirstOf(Window)}))
    /\ Keep /\ UNCHANGED <<orders, invited, intakeFaults>>

(* An order that failed is reported, and not tried again. *)
NextOrder(y) ==
    /\ On(y, "end") /\ y \in Syncers
    /\ GoOn(y, Import(doing[y].list))
    /\ Keep /\ UNCHANGED <<orders, invited, intakeFaults>>

FinishSync(y) ==
    /\ On(y, "finish")
    /\ lastSync' = day
    /\ GoOn(y, Free)
    /\ UNCHANGED <<theirs, orders, event, day, invited, shopChanges, intakeFaults>>

(* The process dies. *)
IntakeDies(p) ==
    /\ ~On(p, "free")
    /\ IntakeFault
    /\ GoOn(p, Free)
    /\ Keep /\ UNCHANGED <<orders, invited>>

-----------------------------------------------------------------------------
IntakeInit ==
    /\ theirs \in [ShopOrders -> [st : {"NEW", "PAID"} \cap ShopStates, day : {0}]]
    /\ orders = [o \in ShopOrders |-> NoOrder]
    /\ event = [o \in ShopOrders |-> [s \in ShopStates |->
                    IF s = theirs[o].st THEN "sent" ELSE "unsent"]]
    /\ lastSync = 0 /\ day = 0
    /\ invited = [o \in ShopOrders |-> 0]
    /\ doing = [p \in Processes |-> Free]
    /\ shopChanges = 0 /\ intakeFaults = 0

IntakeStep(p) ==
    \/ StatusFromWebhook(p) \/ Lookup(p)
    \/ Find(p) \/ ReadState(p) \/ RefreshExisting(p)
    \/ FetchDetails(p) \/ CreateOrder(p) \/ CreateItems(p) \/ Invite(p)
    \/ PushToShop(p) \/ Unpushed(p)
    \/ Effects(p) \/ Hold(p) \/ EndRequest(p) \/ NextOrder(p) \/ FinishSync(p)

IntakeNext ==
    \/ \E o \in ShopOrders, s \in ShopStates : ChangeState(o, s)
    \/ Midnight
    \/ \E h \in IntakeHandlers, o \in ShopOrders, s \in ShopStates :
          Receive(h, o, s) \/ Reprocess(h, o, s) \/ PanelSetsStatus(h, o, s)
    \/ \E y \in Syncers : BeginSync(y)
    \/ \E p \in Processes : IntakeStep(p) \/ IntakeDies(p)

(* The scheduler synchronises again and again; what began goes on.  No     *)
(* message need ever arrive.                                               *)
IntakeFairness ==
    /\ WF_intakeVars(\E y \in Syncers : BeginSync(y))
    /\ \A p \in Processes : WF_intakeVars(IntakeStep(p))

IntakeSpec == IntakeInit /\ [][IntakeNext]_intakeVars /\ IntakeFairness

-----------------------------------------------------------------------------
(* Every part of the state stays in its domain; an order holds goods only  *)
(* for items it has.                                                       *)
IntakeTypeOK ==
    /\ theirs \in [ShopOrders -> [st : ShopStates, day : 0..LastDay]]
    /\ orders \in [ShopOrders -> [st : ShopStates \cup {"none"}, items : BOOLEAN,
                                  stock : {"none", "held", "issued"}]]
    /\ \A o \in ShopOrders : orders[o].stock # "none" => orders[o].items
    /\ event \in [ShopOrders -> [ShopStates -> {"unsent", "sent", "open", "PROCESSED"}]]
    /\ lastSync \in 0..day /\ day \in 0..LastDay
    /\ invited \in [ShopOrders -> Nat]
    /\ DOMAIN doing = Processes

(* Messages, their repetitions and the synchronisation may all find an     *)
(* order missing at once: its customer is invited once at most.            *)
InvitedOnce == \A o \in ShopOrders : invited[o] <= 1

(* Orders that the shop changed on the day of the last synchronisation or  *)
(* later are brought up to date once the shop is at rest: the order is     *)
(* there with the shop's status, and its stock is what that status asks    *)
(* for, whatever webhooks were lost, late or left half done.  Excepted are *)
(* orders crowded out by older ones.                                       *)
UpToDate(o) ==
    /\ orders[o].st = theirs[o].st
    /\ Reserving(orders[o].st) /\ orders[o].items => orders[o].stock # "none"
    /\ orders[o].st \in {"SHIPPED", "CANCELLED"} => orders[o].stock # "held"
Due == {o \in ShopOrders : theirs[o].st \in Listed /\ theirs[o].day >= lastSync}
ListedCatchUp == <>[](\A o \in FirstOf(Due) : UpToDate(o))
=============================================================================
