---------------------------- MODULE OrderReturns ----------------------------
(***************************************************************************)
(* Returns and cancellations of one order with one item: a saga of a       *)
(* warehouse step, an invoice correction in iFirma and a refund in the     *)
(* shop, which the operator may retry or, for a return, delete.            *)
(*                                                                         *)
(* saga[h] is the statement request h is about to run: every await is the  *)
(* end of a step, so a crash may come between any two statements.  A call  *)
(* to iFirma or PrestaShop succeeds, is refused, or succeeds without its   *)
(* answer arriving.  ext counts, outside the code, what the two systems    *)
(* really did and how often nothing of it could be recorded.               *)
(*                                                                         *)
(* WarehouseLedger models documents and reservations in detail; here they  *)
(* are the status of the order's WZ and of its ZWs, and whether the order  *)
(* holds reservations.  Shipping is free: only pieces are refunded.        *)
(***************************************************************************)
EXTENDS Integers, FiniteSets, Functions

CONSTANTS
    ReturnHandlers,     \* requests served at the same time
    ReturnIds,          \* OrderReturn rows, numbered
    ZwIds,              \* ZW documents, numbered; 0 is null
    Ordered,            \* quantity of the item
    ReturnOptions,      \* what the operator ticks
    MaxReturnFaults     \* bound: crashes, refusals and lost answers

ASSUME ReturnsAssumption ==
    /\ ReturnIds \subseteq Nat /\ ZwIds \subseteq Nat \ {0}
    /\ IsFiniteSet(ReturnIds) /\ IsFiniteSet(ZwIds)
    /\ Ordered \in Nat /\ MaxReturnFaults \in Nat
    /\ ReturnOptions \subseteq [restock : BOOLEAN, auto : BOOLEAN,
                                correct : BOOLEAN, slip : BOOLEAN]

VARIABLES
    returns,        \* OrderReturn rows with their CORRECTION sales document
    zwDocs,         \* ZW documents
    wz,             \* the status of the order's WZ
    reserved,       \* the order holds reservations
    invoice,        \* the order has an invoice with an iFirma identifier
    operational,    \* operationalStatus
    ext,            \* what iFirma and PrestaShop did (not in the code)
    saga,           \* the next statement of every request
    faults          \* faults that may still happen

warehouseVars == <<zwDocs, wz, reserved>>
returnVars == <<returns, zwDocs, wz, reserved, invoice, operational, ext, saga, faults>>

NothingTicked == [restock |-> FALSE, auto |-> FALSE, correct |-> FALSE, slip |-> FALSE]
(* correction is the status of the return's CORRECTION document. *)
NoReturn == [type |-> "RETURN", st |-> "FREE", qty |-> 0, opt |-> NothingTicked, zw |-> 0,
             correction |-> "none", ifirma |-> "null", presta |-> "null", slip |-> FALSE]
NoZw == [ret |-> 0, st |-> "FREE"]
Resting == [pc |-> "idle"]
At(pc, r) == [pc |-> pc, r |-> r]
Then(h, pc) == saga' = [saga EXCEPT ![h] = At(pc, @.r)]
Rest(h) == saga' = [saga EXCEPT ![h] = Resting]
In(h, pc) == saga[h].pc = pc

Active(r) == returns[r].st \notin {"FREE", "CANCELLED"}
SumOf(S) == SumFunctionOnSet([r \in ReturnIds |-> returns[r].qty], S)
(* returnedQuantitiesByOrderItemId. *)
Returned == SumOf({r \in ReturnIds : Active(r)})
(* What can still be returned: prepareReturnItems, buildFullCancellationItems. *)
Available == Ordered - Returned
Lowest(S) == CHOOSE i \in S : \A j \in S : i <= j
FreeReturns == {r \in ReturnIds : returns[r].st = "FREE"}
FreeZws == {d \in ZwIds : zwDocs[d].st = "FREE"}
(* Fault: what is completed is forgotten. *)
CancellationsLeft ==
    {r \in ReturnIds : returns[r].st = "PENDING" /\ returns[r].type = "CANCELLATION"}
Cancellations == {r \in ReturnIds : Active(r) /\ returns[r].type = "CANCELLATION"}
Set(r, row) == returns' = [returns EXCEPT ![r] = row]

-----------------------------------------------------------------------------
(* Requests *)

(* createOrderReturn: the order is read, the operation prepared. *)
CreateReturn(h, qty, opt) ==
    /\ In(h, "idle") /\ FreeReturns # {}
    /\ qty <= Available
    /\ saga' = [saga EXCEPT ![h] = [pc |-> "create", r |-> 0, type |-> "RETURN",
                                    qty |-> qty, opt |-> opt]]
    /\ UNCHANGED <<returns, warehouseVars, invoice, operational, ext, faults>>

Retriable(r) == returns[r].st \notin {"FREE", "CANCELLED", "COMPLETED"}

(* cancelOrder: of all that is left, unless there is a cancellation. *)
CancelOrder(h, opt) ==
    /\ In(h, "idle")
    /\ IF Cancellations # {}
       THEN LET r == Lowest(Cancellations)
            IN Retriable(r) /\ saga' = [saga EXCEPT ![h] = At("begin", r)]
       ELSE /\ FreeReturns # {}
            /\ saga' = [saga EXCEPT ![h] = [pc |-> "create", r |-> 0, type |-> "CANCELLATION",
                                            qty |-> IF Available > 0 THEN Available ELSE 0,
                                            opt |-> opt]]
    /\ UNCHANGED <<returns, warehouseVars, invoice, operational, ext, faults>>

RetryReturn(h, r) ==
    /\ In(h, "idle") /\ Retriable(r)
    /\ saga' = [saga EXCEPT ![h] = At("begin", r)]
    /\ UNCHANGED <<returns, warehouseVars, invoice, operational, ext, faults>>

CreateRecord(h) ==
    /\ In(h, "create") /\ FreeReturns # {}
    /\ LET r == Lowest(FreeReturns) IN
       /\ Set(r, [NoReturn EXCEPT !.type = saga[h].type, !.st = "PENDING",
                                  !.qty = saga[h].qty, !.opt = saga[h].opt])
       /\ saga' = [saga EXCEPT ![h] = At("begin", r)]
    /\ UNCHANGED <<warehouseVars, invoice, operational, ext, faults>>

BeginExecution(h) ==
    /\ In(h, "begin")
    /\ Set(saga[h].r, [returns[saga[h].r] EXCEPT !.st = "PENDING"])
    /\ Then(h, "warehouse")
    /\ UNCHANGED <<warehouseVars, invoice, operational, ext, faults>>

(* The catch of executeOrderReturn. *)
FailExecution(h) ==
    /\ In(h, "failed")
    /\ Set(saga[h].r, [returns[saga[h].r] EXCEPT !.st = "FAILED"])
    /\ Rest(h)
    /\ UNCHANGED <<warehouseVars, invoice, operational, ext, faults>>

-----------------------------------------------------------------------------
(* performWarehouseStep *)

(* Returns whose goods came back with a document. *)
(* Fault: only what is finished counts. *)
RestockedCompleted(r) ==
    {q \in ReturnIds \ {r} : returns[q].type = "RETURN" /\ returns[q].st = "COMPLETED"
                             /\ returns[q].opt.restock /\ returns[q].zw # 0}
Restocked(r) ==
    {q \in ReturnIds \ {r} : returns[q].type = "RETURN" /\ Active(q)
                             /\ returns[q].opt.restock /\ returns[q].zw # 0}

CancelWarehouse(h) ==
    /\ In(h, "warehouse") /\ returns[saga[h].r].type = "CANCELLATION"
    /\ IF Restocked(saga[h].r) # {}
       THEN Then(h, "failed") /\ UNCHANGED reserved
       ELSE /\ reserved' = FALSE
            /\ Then(h, IF wz \in {"DRAFT", "CONFIRMED"} THEN "cancelWz" ELSE "ifirma")
    /\ UNCHANGED <<returns, zwDocs, wz, invoice, operational, ext, faults>>

(* cancelDocument refuses a document that is cancelled already. *)
CancelWz(h) ==
    /\ In(h, "cancelWz")
    /\ IF wz = "CANCELLED" THEN Then(h, "failed") /\ UNCHANGED wz
       ELSE wz' = "CANCELLED" /\ Then(h, "ifirma")
    /\ UNCHANGED <<returns, zwDocs, reserved, invoice, operational, ext, faults>>

Restock(h) ==
    /\ In(h, "warehouse")
    /\ LET r == saga[h].r
           row == returns[r]
           d == row.zw
       IN /\ row.type = "RETURN"
          /\ \/ ~row.opt.restock /\ Then(h, "ifirma") /\ UNCHANGED zwDocs
             \/ /\ row.opt.restock /\ wz # "CONFIRMED"
                /\ Then(h, "failed") /\ UNCHANGED zwDocs
             \/ /\ row.opt.restock /\ wz = "CONFIRMED" /\ d # 0
                /\ Then(h, IF row.opt.auto /\ zwDocs[d].st = "DRAFT"
                           THEN "confirm" ELSE "ifirma")
                /\ UNCHANGED zwDocs
             \/ /\ row.opt.restock /\ wz = "CONFIRMED" /\ d = 0
                /\ FreeZws # {}
                /\ zwDocs' = [zwDocs EXCEPT ![Lowest(FreeZws)] = [ret |-> r, st |-> "DRAFT"]]
                /\ saga' = [saga EXCEPT ![h] = [pc |-> "link", r |-> r, d |-> Lowest(FreeZws)]]
    /\ UNCHANGED <<returns, wz, reserved, invoice, operational, ext, faults>>

LinkZw(h) ==
    /\ In(h, "link")
    /\ LET r == saga[h].r IN
       /\ Set(r, [returns[r] EXCEPT !.zw = saga[h].d])
       /\ Then(h, IF returns[r].opt.auto THEN "confirm" ELSE "ifirma")
    /\ UNCHANGED <<warehouseVars, invoice, operational, ext, faults>>

(* confirmDocument refuses what is no draft. *)
ConfirmZw(h) ==
    /\ In(h, "confirm")
    /\ LET d == returns[saga[h].r].zw IN
       IF d # 0 /\ zwDocs[d].st = "DRAFT"
       THEN zwDocs' = [zwDocs EXCEPT ![d].st = "CONFIRMED"] /\ Then(h, "ifirma")
       ELSE Then(h, "failed") /\ UNCHANGED zwDocs
    /\ UNCHANGED <<returns, wz, reserved, invoice, operational, ext, faults>>
-----------------------------------------------------------------------------
(* performIfirmaStep *)

Count(r, what) == ext' = [ext EXCEPT ![r][what] = @ + 1]
(* The system did it, but its answer is lost. *)
CountLost(r, what, lost) == ext' = [ext EXCEPT ![r][what] = @ + 1, ![r][lost] = @ + 1]
Fault == faults > 0 /\ faults' = faults - 1

(* Fault: only this attempt's answer counts, not the recorded one. *)
CorrectedNever(row) == FALSE
Corrected(row) == row.correction = "ISSUED"

Ifirma(h) ==
    /\ In(h, "ifirma")
    /\ LET r == saga[h].r
           row == returns[r]
       IN \/ /\ ~row.opt.correct \/ ~invoice
             /\ Set(r, [row EXCEPT !.ifirma = "SKIPPED"])
             /\ Then(h, "presta")
          \/ /\ row.opt.correct /\ invoice /\ Corrected(row)
             /\ Set(r, [row EXCEPT !.ifirma = "ISSUED"])
             /\ Then(h, "presta")
          \/ /\ row.opt.correct /\ invoice /\ ~Corrected(row)
             /\ Set(r, [row EXCEPT !.correction = "PENDING", !.ifirma = "PENDING"])
             /\ Then(h, "issue")
    /\ UNCHANGED <<warehouseVars, invoice, operational, ext, faults>>

IssueCorrection(h) ==
    /\ In(h, "issue")
    /\ LET r == saga[h].r IN
       \/ Count(r, "corrections") /\ Then(h, "recordCorrection") /\ UNCHANGED faults
       \/ Fault /\ CountLost(r, "corrections", "lostCorrections") /\ Then(h, "notIssued")
       \/ Fault /\ Then(h, "notIssued") /\ UNCHANGED ext
    /\ UNCHANGED <<returns, warehouseVars, invoice, operational>>

RecordCorrection(h) ==
    /\ \/ In(h, "recordCorrection") /\ Then(h, "recordIssued")
          /\ Set(saga[h].r, [returns[saga[h].r] EXCEPT !.correction = "ISSUED"])
       \/ In(h, "recordIssued") /\ Then(h, "presta")
          /\ Set(saga[h].r, [returns[saga[h].r] EXCEPT !.ifirma = "ISSUED"])
       \/ In(h, "notIssued") /\ Then(h, "failed")
          /\ Set(saga[h].r, [returns[saga[h].r] EXCEPT !.correction = "FAILED",
                                                       !.ifirma = "FAILED"])
    /\ UNCHANGED <<warehouseVars, invoice, operational, ext, faults>>

-----------------------------------------------------------------------------
(* performPrestaShopStep *)

NeedsSlip(row) == ~row.slip

Presta(h) ==
    /\ In(h, "presta")
    /\ LET r == saga[h].r
           row == returns[r]
       IN IF ~row.opt.slip \/ row.qty = 0
          THEN Set(r, [row EXCEPT !.presta = "SKIPPED"]) /\ Then(h, "final")
          ELSE /\ Set(r, [row EXCEPT !.presta = "PENDING"])
               /\ Then(h, IF NeedsSlip(row) THEN "slip" ELSE "history")
    /\ UNCHANGED <<warehouseVars, invoice, operational, ext, faults>>

CreateSlip(h) ==
    /\ In(h, "slip")
    /\ LET r == saga[h].r IN
       \/ Count(r, "slips") /\ Then(h, "recordSlip") /\ UNCHANGED faults
       \/ Fault /\ CountLost(r, "slips", "lostSlips") /\ Then(h, "notRefunded")
       \/ Fault /\ Then(h, "notRefunded") /\ UNCHANGED ext
    /\ UNCHANGED <<returns, warehouseVars, invoice, operational>>

(* The status history of the shop's order is written after the refund; it  *)
(* may fail as well.                                                       *)
RecordSlip(h) ==
    /\ LET r == saga[h].r IN
       \/ /\ In(h, "recordSlip") /\ Then(h, "history")
          /\ Set(r, [returns[r] EXCEPT !.slip = TRUE]) /\ UNCHANGED faults
       \/ /\ In(h, "history") /\ Then(h, "final")
          /\ Set(r, [returns[r] EXCEPT !.presta = "COMPLETED"]) /\ UNCHANGED faults
       \/ In(h, "history") /\ Fault /\ Then(h, "notRefunded") /\ UNCHANGED returns
       \/ /\ In(h, "notRefunded") /\ Then(h, "failed")
          /\ Set(r, [returns[r] EXCEPT !.presta = "FAILED"]) /\ UNCHANGED faults
    /\ UNCHANGED <<warehouseVars, invoice, operational, ext>>

-----------------------------------------------------------------------------
(* The end of an execution *)

(* updateFinalOrderStatus, refreshOrderStatusAfterReturnDeletion. *)
ReturnStatus(counted) == IF SumOf(counted) >= Ordered THEN "RETURNED" ELSE "PARTIALLY_RETURNED"

FinalStatus(h) ==
    /\ In(h, "final")
    /\ operational' = IF returns[saga[h].r].type = "CANCELLATION" THEN "CANCELLED"
                      ELSE ReturnStatus({r \in ReturnIds : Active(r)})
    /\ Then(h, "complete")
    /\ UNCHANGED <<returns, warehouseVars, invoice, ext, faults>>

CompleteExecution(h) ==
    /\ In(h, "complete")
    /\ Set(saga[h].r, [returns[saga[h].r] EXCEPT !.st = "COMPLETED"])
    /\ Rest(h)
    /\ UNCHANGED <<warehouseVars, invoice, operational, ext, faults>>

-----------------------------------------------------------------------------
(* deleteOrderReturn *)

(* assertReturnHasNoExternalEffects. *)
NoExternalEffects(row) ==
    /\ row.correction # "ISSUED" /\ row.ifirma # "ISSUED"
    /\ ~row.slip /\ row.presta # "COMPLETED"

DeleteReturn(h, r) ==
    /\ In(h, "idle")
    /\ Active(r) /\ returns[r].type = "RETURN" /\ NoExternalEffects(returns[r])
    /\ saga' = [saga EXCEPT ![h] = [pc |-> "undo", r |-> r, row |-> returns[r],
                      zwSt |-> IF returns[r].zw = 0 THEN "null" ELSE zwDocs[returns[r].zw].st]]
    /\ UNCHANGED <<returns, warehouseVars, invoice, operational, ext, faults>>

(* undoReturnWarehouseEffects: a draft ZW is deleted, and the foreign key  *)
(* to it becomes null; a confirmed one is cancelled.                       *)
UndoWarehouse(h) ==
    /\ In(h, "undo")
    /\ LET r == saga[h].r
           d == saga[h].row.zw
           next == [saga[h] EXCEPT !.pc = "cancelRow"]
       IN \/ /\ saga[h].zwSt = "DRAFT" /\ zwDocs[d].st = "DRAFT"
             /\ zwDocs' = [zwDocs EXCEPT ![d] = NoZw]
             /\ returns' = [q \in ReturnIds |-> IF returns[q].zw = d
                                                THEN [returns[q] EXCEPT !.zw = 0] ELSE returns[q]]
             /\ saga' = [saga EXCEPT ![h] = next]
          \/ /\ saga[h].zwSt = "CONFIRMED" /\ zwDocs[d].st # "CANCELLED"
             /\ zwDocs' = [zwDocs EXCEPT ![d].st = "CANCELLED"]
             /\ saga' = [saga EXCEPT ![h] = next]
             /\ UNCHANGED returns
          \/ /\ saga[h].zwSt \in {"null", "CANCELLED"}
             /\ saga' = [saga EXCEPT ![h] = next]
             /\ UNCHANGED <<returns, zwDocs>>
          \/ /\ saga[h].zwSt \in {"DRAFT", "CONFIRMED"}
             /\ saga[h].zwSt = "DRAFT" => zwDocs[d].st # "DRAFT"
             /\ saga[h].zwSt = "CONFIRMED" => zwDocs[d].st = "CANCELLED"
             /\ Rest(h)
             /\ UNCHANGED <<returns, zwDocs>>
    /\ UNCHANGED <<wz, reserved, invoice, operational, ext, faults>>

(* Of the row, only the columns it was decided on are written. *)
(* Fault: the ZW stays named though it was deleted. *)
LeftZwAlways(read, zwSt) == read.zw
LeftZw(read, zwSt) == IF zwSt \in {"CONFIRMED", "CANCELLED"} THEN read.zw ELSE 0
CancelledIfSet(st) == IF st \in {"null", "SKIPPED"} THEN st ELSE "CANCELLED"
CancelRow(h) ==
    /\ In(h, "cancelRow")
    /\ LET r == saga[h].r
           read == saga[h].row
       IN Set(r, [returns[r] EXCEPT
            !.st = "CANCELLED",
            !.zw = LeftZw(read, saga[h].zwSt),
            !.correction = IF read.correction = "none" THEN @ ELSE "CANCELLED",
            !.ifirma = CancelledIfSet(read.ifirma),
            !.presta = CancelledIfSet(read.presta)])
    /\ Then(h, "refresh")
    /\ UNCHANGED <<warehouseVars, invoice, operational, ext, faults>>

(* reserveOrder reserves what no confirmed WZ has taken. *)
RefreshOrder(h) ==
    /\ In(h, "refresh")
    /\ LET left == {r \in ReturnIds : Active(r) /\ returns[r].type = "RETURN"} IN
       \/ /\ Cancellations # {}
          /\ operational' = "CANCELLED" /\ UNCHANGED reserved
       \/ /\ Cancellations = {} /\ left # {}
          /\ operational' = ReturnStatus(left) /\ UNCHANGED reserved
       \/ /\ Cancellations = {} /\ left = {} /\ operational \in {"RETURNED", "PARTIALLY_RETURNED"}
          /\ operational' = "PROCESSING"
          /\ reserved' = (reserved \/ wz # "CONFIRMED")
       \/ /\ Cancellations = {} /\ left = {} /\ operational \notin {"RETURNED", "PARTIALLY_RETURNED"}
          /\ UNCHANGED <<operational, reserved>>
    /\ Rest(h)
    /\ UNCHANGED <<returns, zwDocs, wz, invoice, ext, faults>>

-----------------------------------------------------------------------------
(* The environment *)

(* The WZ is confirmed: the goods leave with it and use up the reservation. *)
Ship ==
    /\ wz = "DRAFT"
    /\ wz' = "CONFIRMED"
    /\ reserved' = FALSE
    /\ UNCHANGED <<returns, zwDocs, invoice, operational, ext, saga, faults>>

(* An operator confirms the ZW that a return names and does not confirm    *)
(* itself; a draft that no return came to name is left alone.              *)
AcceptGoods(d) ==
    /\ zwDocs[d].st = "DRAFT" /\ returns[zwDocs[d].ret].zw = d
    /\ ~returns[zwDocs[d].ret].opt.auto
    /\ zwDocs' = [zwDocs EXCEPT ![d].st = "CONFIRMED"]
    /\ UNCHANGED <<returns, wz, reserved, invoice, operational, ext, saga, faults>>

(* What was done but not recorded is lost with the process. *)
CrashReturn(h) ==
    /\ ~In(h, "idle")
    /\ Fault
    /\ ext' = IF In(h, "recordCorrection") THEN [ext EXCEPT ![saga[h].r].lostCorrections = @ + 1]
              ELSE IF In(h, "recordSlip") THEN [ext EXCEPT ![saga[h].r].lostSlips = @ + 1]
              ELSE ext
    /\ Rest(h)
    /\ UNCHANGED <<returns, warehouseVars, invoice, operational>>

-----------------------------------------------------------------------------
NothingDone == [corrections |-> 0, lostCorrections |-> 0, slips |-> 0, lostSlips |-> 0]
ReturnsInit ==
    /\ returns = [r \in ReturnIds |-> NoReturn]
    /\ zwDocs = [d \in ZwIds |-> NoZw]
    /\ wz = "DRAFT"
    /\ reserved = TRUE
    /\ invoice \in BOOLEAN
    /\ operational = "PROCESSING"
    /\ ext = [r \in ReturnIds |-> NothingDone]
    /\ saga = [h \in ReturnHandlers |-> Resting]
    /\ faults = MaxReturnFaults

ReturnRequest(h) ==
    \/ \E opt \in ReturnOptions : CancelOrder(h, opt) \/ \E q \in 1..Ordered : CreateReturn(h, q, opt)
    \/ \E r \in ReturnIds : RetryReturn(h, r) \/ DeleteReturn(h, r)

ReturnStep(h) ==
    \/ CreateRecord(h) \/ BeginExecution(h) \/ FailExecution(h)
    \/ CancelWarehouse(h) \/ CancelWz(h) \/ Restock(h) \/ LinkZw(h) \/ ConfirmZw(h)
    \/ Ifirma(h) \/ IssueCorrection(h) \/ RecordCorrection(h)
    \/ Presta(h) \/ CreateSlip(h) \/ RecordSlip(h)
    \/ FinalStatus(h) \/ CompleteExecution(h)
    \/ UndoWarehouse(h) \/ CancelRow(h) \/ RefreshOrder(h)

ReturnsNext ==
    \/ \E h \in ReturnHandlers : ReturnRequest(h) \/ ReturnStep(h) \/ CrashReturn(h)
    \/ Ship
    \/ \E d \in ZwIds : AcceptGoods(d)

ReturnsSpec == ReturnsInit /\ [][ReturnsNext]_returnVars

-----------------------------------------------------------------------------
(* Properties *)

Statuses == {"null", "SKIPPED", "PENDING", "ISSUED", "COMPLETED", "FAILED", "CANCELLED"}
ReturnRows ==
    [type : {"RETURN", "CANCELLATION"},
     st : {"FREE", "PENDING", "COMPLETED", "FAILED", "CANCELLED"},
     qty : 0..Ordered, opt : ReturnOptions \cup {NothingTicked}, zw : ZwIds \cup {0},
     correction : {"none", "PENDING", "ISSUED", "FAILED", "CANCELLED"},
     ifirma : Statuses, presta : Statuses, slip : BOOLEAN]
(* Every part of the state stays in its domain; a row names a ZW of its own. *)
ReturnsTypeOK ==
    /\ returns \in [ReturnIds -> ReturnRows]
    /\ \A r \in ReturnIds : returns[r].zw # 0 => zwDocs[returns[r].zw].ret = r
    /\ zwDocs \in [ZwIds -> [ret : ReturnIds \cup {0},
                              st : {"FREE", "DRAFT", "CONFIRMED", "CANCELLED"}]]
    /\ wz \in {"DRAFT", "CONFIRMED", "CANCELLED"}
    /\ reserved \in BOOLEAN /\ invoice \in BOOLEAN
    /\ operational \in {"PROCESSING", "CANCELLED", "RETURNED", "PARTIALLY_RETURNED"}
    /\ ext \in [ReturnIds -> [corrections : Nat, lostCorrections : Nat,
                              slips : Nat, lostSlips : Nat]]
    /\ faults \in 0..MaxReturnFaults

(* The operations of an order that are not deleted never cover more pieces *)
(* than it has, whatever is retried, deleted or interrupted; and goods     *)
(* that left with the WZ come back to stock once: by the ZWs of returns or *)
(* by cancelling the WZ, never by both.                                    *)
PiecesCountOnce ==
    /\ Returned <= Ordered
    /\ SumFunctionOnSet([d \in ZwIds |-> returns[zwDocs[d].ret].qty],
                        {d \in ZwIds : zwDocs[d].st = "CONFIRMED"})
         <= IF wz = "CONFIRMED" THEN Ordered ELSE 0

(* iFirma and PrestaShop are told of an operation once, but for answers    *)
(* that were lost; and a completed operation has told them all it should.  *)
RecordedCorrections(r) == ext[r].corrections - ext[r].lostCorrections
RecordedSlips(r) == ext[r].slips - ext[r].lostSlips
ToldOnce ==
    \A r \in ReturnIds :
       LET row == returns[r] IN
       /\ RecordedCorrections(r) <= 1 /\ RecordedSlips(r) <= 1
       /\ row.st = "COMPLETED" =>
             /\ row.opt.correct /\ invoice => RecordedCorrections(r) = 1
             /\ row.opt.slip /\ row.qty > 0 => RecordedSlips(r) = 1

(* A deleted return leaves nothing behind: no correction or refund that    *)
(* the panel knows of, and no goods on stock.                              *)
DeletedLeavesNothing ==
    \A r \in ReturnIds : returns[r].st = "CANCELLED" =>
       /\ RecordedCorrections(r) = 0 /\ RecordedSlips(r) = 0
       /\ \A d \in ZwIds : zwDocs[d].ret = r => zwDocs[d].st # "CONFIRMED"

(* What was undone stays undone: deletions, and completed cancellations,   *)
(* after which the order holds no goods whatever becomes of its returns.   *)
UndoneIsUndone ==
    /\ DeletedLeavesNothing
    /\ \A r \in ReturnIds : returns[r].type = "CANCELLATION" /\ returns[r].st = "COMPLETED"
          => ~reserved /\ wz = "CANCELLED"
=============================================================================
