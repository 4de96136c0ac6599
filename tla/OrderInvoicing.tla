---------------------------- MODULE OrderInvoicing ----------------------------
(***************************************************************************)
(* The invoice of one order, and the WZ that may follow it.                *)
(*                                                                         *)
(* An operator issues, repeats or cancels the invoice; sending a parcel    *)
(* issues it too and closes the WZ (ORDER_SHIPMENT_CREATED), and an        *)
(* invoice that was issued closes a draft WZ (ORDER_INVOICE_ISSUED).       *)
(* Nothing keeps two of these requests apart.  iFirma is called between    *)
(* two statements of the database: it may answer, refuse, or do its work   *)
(* and be cut off before its answer arrives.  task[h] is the statement     *)
(* request h is about to run, with what it still has to do.                *)
(***************************************************************************)
EXTENDS Integers

CONSTANTS
    InvoiceHandlers,    \* requests served at the same time
    RequireScanned,     \* requireScanned of both rules
    MaxBillRequests,    \* bound of the requests
    MaxBillFaults       \* bound of failures and crashes

ASSUME InvoicingAssumption ==
    /\ RequireScanned \in BOOLEAN
    /\ MaxBillRequests \in Nat /\ MaxBillFaults \in Nat

VARIABLES
    bill,       \* status of the PRIMARY SalesDocument row, "none" before it exists
    ruleRan,    \* an AutomationRun row has the key invoice:<id>
    goods,      \* status of the order's WZ, "none" if it has none
    scanned,    \* every line of the WZ has a scannedEan
    task,       \* the next statement of every request
    inFirma,    \* invoices in iFirma the panel was told of (not in the code)
    goodsFirst, \* an automation closed a WZ of an order never invoiced (not in the code)
    everIssued, \* iFirma issued an invoice (not in the code)
    raced,      \* a request began while another was served (not in the code)
    billRequests, billFaults \* requests and failures so far

billVars == <<bill, ruleRan, goods, scanned, task, inFirma, goodsFirst, everIssued, raced,
              billRequests, billFaults>>
outside == <<inFirma, everIssued>>
stock == <<goods, scanned, goodsFirst>>
counted == <<raced, billRequests>>

NoTask == [pc |-> "idle", then |-> "end"]
Do(h, pc, then) == task' = [task EXCEPT ![h] = [pc |-> pc, then |-> then]]
Finish(h) == task' = [task EXCEPT ![h] = NoTask]
BillFault == billFaults < MaxBillFaults /\ billFaults' = billFaults + 1

InvoicingInit ==
    /\ bill = "none" /\ ruleRan = FALSE
    /\ goods = "none" /\ scanned = FALSE
    /\ task = [h \in InvoiceHandlers |-> NoTask]
    /\ inFirma = 0 /\ everIssued = FALSE /\ goodsFirst = FALSE
    /\ raced = FALSE /\ billRequests = 0 /\ billFaults = 0

Received(h) ==
    /\ task[h] = NoTask
    /\ billRequests < MaxBillRequests /\ billRequests' = billRequests + 1
    /\ raced' = (raced \/ \E g \in InvoiceHandlers : task[g] # NoTask)
    /\ UNCHANGED <<bill, ruleRan, stock, outside, billFaults>>

(* An invoice that counts as issued. *)
(* Fault: one that was mailed no longer does. *)
IssuedUnlessSent(st) == st = "ISSUED"
Issued(st) == st \in {"ISSUED", "SENT"}

(* issueOrderInvoice: the order is loaded with its invoice. *)
IssueInvoice(h) ==
    /\ Received(h)
    /\ IF Issued(bill) THEN Finish(h)
       ELSE Do(h, IF bill = "none" THEN "create" ELSE "reset", "end")

(* issueInvoiceAfterShipment: the stock covers the order or nothing is done. *)
ParcelSent(h) == Received(h) /\ Do(h, "afterShipment", "wz")

AfterShipment(h) ==
    /\ task[h].pc = "afterShipment"
    /\ \/ Finish(h)
       \/ Do(h, IF Issued(bill) THEN "wz" ELSE "load", "wz")
    /\ UNCHANGED <<bill, ruleRan, stock, outside, counted, billFaults>>

(* issueOrderInvoice looks again, and throws if it was issued meanwhile. *)
LoadBill(h) ==
    /\ task[h].pc = "load"
    /\ IF Issued(bill) THEN Finish(h)
       ELSE Do(h, IF bill = "none" THEN "create" ELSE "reset", "wz")
    /\ UNCHANGED <<bill, ruleRan, stock, outside, counted, billFaults>>

(* retryInvoice: no mail, no message in the shop, no automation. *)
RetryInvoice(h) ==
    /\ Received(h)
    /\ IF bill = "none" \/ Issued(bill) THEN Finish(h) ELSE Do(h, "reset", "stop")

CancelInvoice(h) ==
    /\ Received(h)
    /\ IF bill \in {"none", "CANCELLED"} THEN Finish(h) ELSE Do(h, "withdraw", "end")

(* The panel's row alone: the document it names is cancelled in iFirma by  *)
(* hand.                                                                   *)
Withdraw(h) ==
    /\ task[h].pc = "withdraw"
    /\ bill' = "CANCELLED"
    /\ inFirma' = IF Issued(bill) THEN inFirma - 1 ELSE inFirma
    /\ Finish(h)
    /\ UNCHANGED <<ruleRan, stock, everIssued, counted, billFaults>>

(* The row is PENDING; one order has one row. *)
PrepareInvoice(h) ==
    /\ task[h].pc \in {"create", "reset"}
    /\ IF task[h].pc = "create" /\ bill # "none" THEN Finish(h) /\ UNCHANGED bill
       ELSE bill' = "PENDING" /\ Do(h, "call", task[h].then)
    /\ UNCHANGED <<ruleRan, stock, outside, counted, billFaults>>

(* issueDomesticInvoice. *)
CallFirma(h) ==
    /\ task[h].pc = "call"
    /\ \/ inFirma' = inFirma + 1 /\ everIssued' = TRUE
          /\ Do(h, "record", task[h].then) /\ UNCHANGED billFaults
       \/ BillFault /\ everIssued' \in {everIssued, TRUE} /\ UNCHANGED inFirma
          /\ Do(h, "fail", task[h].then)
    /\ UNCHANGED <<bill, ruleRan, stock, counted>>

RecordIssued(h) ==
    /\ task[h].pc = "record"
    /\ bill' = "ISSUED"
    /\ IF task[h].then = "stop" THEN Finish(h) ELSE Do(h, "mail", task[h].then)
    /\ UNCHANGED <<ruleRan, stock, outside, counted, billFaults>>

(* What follows a failed invoice: nothing. *)
(* Fault: the goods. *)
AfterFailureGoods(then) == then
AfterFailure(then) == "end"

RecordFailed(h) ==
    /\ task[h].pc = "fail"
    /\ bill' = "FAILED"
    /\ IF AfterFailure(task[h].then) = "wz" THEN Do(h, "wz", "end") ELSE Finish(h)
    /\ UNCHANGED <<ruleRan, stock, outside, counted, billFaults>>

(* sendInvoiceEmail, when the settings ask for it; its errors are dropped. *)
MailInvoice(h) ==
    /\ task[h].pc = "mail"
    /\ \/ Issued(bill) /\ Do(h, "sent", task[h].then)
       \/ Do(h, "rule", task[h].then)
    /\ UNCHANGED <<bill, ruleRan, stock, outside, counted, billFaults>>

RecordSent(h) ==
    /\ task[h].pc = "sent"
    /\ bill' = "SENT"
    /\ Do(h, "rule", task[h].then)
    /\ UNCHANGED <<ruleRan, stock, outside, counted, billFaults>>

AfterRule(then) == IF then = "wz" THEN "refresh" ELSE "idle"

(* issueOrderInvoice reads its row back; what it finds is its answer.      *)
ReadBack(h) ==
    /\ task[h].pc = "refresh"
    /\ IF Issued(bill) THEN Do(h, "wz", "end") ELSE Finish(h)
    /\ UNCHANGED <<bill, ruleRan, stock, outside, counted, billFaults>>

(* triggerInvoiceIssuedAutomations: the rule runs once for an invoice row. *)
ReserveRule(h) ==
    /\ task[h].pc = "rule"
    /\ ruleRan' = TRUE
    /\ Do(h, IF ruleRan THEN AfterRule(task[h].then) ELSE "draft", task[h].then)
    /\ UNCHANGED <<bill, stock, outside, counted, billFaults>>

(* executeConfirmOrderWzAfterInvoice: a draft WZ, ... *)
FindDraft(h) ==
    /\ task[h].pc = "draft"
    /\ Do(h, IF goods = "DRAFT" THEN "scan" ELSE AfterRule(task[h].then), task[h].then)
    /\ UNCHANGED <<bill, ruleRan, stock, outside, counted, billFaults>>

(* ... whose lines were all scanned, ... *)
CheckScans(h) ==
    /\ task[h].pc = "scan"
    /\ Do(h, IF RequireScanned /\ ~scanned THEN AfterRule(task[h].then) ELSE "confirm", task[h].then)
    /\ UNCHANGED <<bill, ruleRan, stock, outside, counted, billFaults>>

(* ... is confirmed. *)
ConfirmGoods(h) ==
    /\ task[h].pc = "confirm"
    /\ IF goods = "DRAFT"
       THEN /\ goods' = "CONFIRMED"
            /\ goodsFirst' = (goodsFirst \/ ~everIssued)
       ELSE UNCHANGED <<goods, goodsFirst>>
    /\ Do(h, AfterRule(task[h].then), task[h].then)
    /\ UNCHANGED <<bill, ruleRan, scanned, outside, counted, billFaults>>

(* ensureOrderWz: the order's WZ, or a new one if it has goods to issue. *)
EnsureWz(h) ==
    /\ task[h].pc = "wz"
    /\ \/ goods = "CONFIRMED" /\ Finish(h) /\ UNCHANGED <<goods, scanned>>
       \/ goods = "DRAFT" /\ Do(h, "scan", "end") /\ UNCHANGED <<goods, scanned>>
       \/ goods = "none" /\ goods' = "DRAFT" /\ scanned' = FALSE /\ Do(h, "scan", "end")
       \/ goods = "none" /\ Finish(h) /\ UNCHANGED <<goods, scanned>>
    /\ UNCHANGED <<bill, ruleRan, goodsFirst, outside, counted, billFaults>>

(* A statement of the database fails, or the process dies; what iFirma     *)
(* answered and was not recorded, the panel was not told.                  *)
BillingDies(h) ==
    /\ task[h] # NoTask
    /\ BillFault
    /\ Finish(h)
    /\ inFirma' = IF task[h].pc = "record" THEN inFirma - 1 ELSE inFirma
    /\ UNCHANGED <<bill, ruleRan, stock, everIssued, counted>>

(* The warehouse makes, scans, confirms and cancels WZs by hand; a draft   *)
(* whose lines are renewed is unscanned again.                             *)
WarehouseWorks ==
    /\ \/ goods = "none" /\ goods' = "DRAFT" /\ scanned' = FALSE
       \/ goods = "DRAFT" /\ scanned' = ~scanned /\ UNCHANGED goods
       \/ goods = "DRAFT" /\ goods' = "CONFIRMED" /\ UNCHANGED scanned
       \/ goods # "none" /\ goods' = "none" /\ scanned' = FALSE
    /\ UNCHANGED <<bill, ruleRan, task, goodsFirst, outside, counted, billFaults>>

BillingStep(h) ==
    \/ AfterShipment(h) \/ LoadBill(h) \/ Withdraw(h)
    \/ PrepareInvoice(h) \/ CallFirma(h) \/ RecordIssued(h) \/ RecordFailed(h)
    \/ MailInvoice(h) \/ RecordSent(h) \/ ReadBack(h)
    \/ ReserveRule(h) \/ FindDraft(h) \/ CheckScans(h) \/ ConfirmGoods(h) \/ EnsureWz(h)

InvoicingNext ==
    \/ \E h \in InvoiceHandlers :
        IssueInvoice(h) \/ ParcelSent(h) \/ RetryInvoice(h) \/ CancelInvoice(h)
        \/ BillingStep(h) \/ BillingDies(h)
    \/ WarehouseWorks

InvoicingSpec == InvoicingInit /\ [][InvoicingNext]_billVars

-----------------------------------------------------------------------------
Steps == {"idle", "afterShipment", "load", "create", "reset", "withdraw", "call", "record",
          "fail", "mail", "sent", "rule", "draft", "scan", "confirm", "refresh", "wz"}
Tasks == [pc : Steps, then : {"end", "stop", "wz"}]

(* Every part of the state stays in its domain. *)
InvoicingTypeOK ==
    /\ bill \in {"none", "PENDING", "ISSUED", "SENT", "FAILED", "CANCELLED"}
    /\ goods \in {"none", "DRAFT", "CONFIRMED"}
    /\ {ruleRan, scanned, goodsFirst, everIssued, raced} \subseteq BOOLEAN
    /\ task \in [InvoiceHandlers -> Tasks]
    /\ inFirma \in Int

(* issueOrderInvoice: "Faktura dla tego zamowienia zostala juz             *)
(* wystawiona".  Through failures, crashes, repetitions and cancellations, *)
(* as long as one request is served after another, iFirma holds at most    *)
(* one invoice the panel knows of, and one exactly when the row says so.   *)
InvoicedOnce ==
    ~raced =>
        /\ inFirma <= 1
        /\ (\A h \in InvoiceHandlers : task[h].pc # "record") => (Issued(bill) <=> inFirma = 1)

(* order-shipment-invoice.service.ts: "nieudana faktura nie moze zdjac     *)
(* towaru ze stanu".  Whatever requests race, fail or are repeated, no     *)
(* automation takes goods of an order that was never invoiced.             *)
GoodsAfterInvoice == ~goodsFirst
=============================================================================
