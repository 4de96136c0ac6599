---------------------------- MODULE MCCustomers ----------------------------
(***************************************************************************)
(* Instances of what the customer of an item sees, for TLC: its            *)
(* personalisation and the messages about its shipment.  The two share no  *)
(* state, so a behaviour of this module is one of the service that "part"  *)
(* names; the other rests.                                                 *)
(***************************************************************************)
EXTENDS PersonalizationCases, ShipmentNotices

VARIABLE part

(* The status of the shipment that rests. *)
ASSUME RestAssumption == "delivered" \in CarrierStatuses

(* What is filled in fits the first layout of the template, complete       *)
(* answers fit any.                                                        *)
FitsFirst == (Answers \ {Blank}) \X {"l1"} \cup Complete \X Layouts

(* A customer alone, with a queue that fails; two packages of the panel,   *)
(* of answers it filled in, and an approval, whose renders fail and one    *)
(* job of which is retried; an approval with a failed render and a process *)
(* that dies; an approval beside any operation of the panel.               *)
Budget(c, p, o, ch, rt, rf, qf, cr) ==
    [customer |-> c, packages |-> p, panel |-> o, changes |-> ch, retries |-> rt,
     renderFailures |-> rf, queueFailures |-> qf, crashes |-> cr]
CaseBudgets ==
    {Budget(4, 0, 0, 1, 0, 0, 1, 0), Budget(0, 2, 1, 0, 1, 2, 0, 0),
     Budget(1, 0, 0, 0, 1, 2, 0, 0), Budget(1, 0, 0, 0, 0, 1, 0, 1),
     Budget(1, 0, 1, 0, 0, 0, 0, 0)}

vars == <<part, caseVars, noticeVars>>

(* A shipment that was delivered and told of. *)
NoticesRest ==
    /\ carrier = "delivered" /\ parcel = [st |-> carrier, final |-> TRUE]
    /\ ruleRun = [s \in CarrierStatuses |-> IF s = carrier THEN "ended" ELSE "none"]
    /\ told = [s \in CarrierStatuses |-> IF s = carrier THEN 1 ELSE 0]
    /\ hop = [y \in ShipmentSyncs |-> Waits]
    /\ hops = 0 /\ noticeFaults = 0

Init ==
    /\ part \in {"cases", "shipments"}
    /\ CasesInit /\ layout = "l1"
    /\ IF part = "shipments" THEN NoticesInit ELSE NoticesRest

Personalises == part = "cases" /\ UNCHANGED <<part, noticeVars>>
Ships == part = "shipments" /\ UNCHANGED <<part, caseVars>>

Next ==
    \/ Personalises /\ CasesNext
    \/ Ships /\ NoticesNext

(* CasesFairness and NoticesFairness, each when its part is the one that   *)
(* moves.                                                                  *)
Fairness ==
    /\ \A h \in Handlers : WF_vars(Personalises /\ Continue(h))
    /\ \A w \in Workers : WF_vars(Personalises /\ Work(w))
    /\ WF_vars(Ships /\ \E y \in ShipmentSyncs : BeginShipmentSync(y))
    /\ \A y \in ShipmentSyncs : WF_vars(Ships /\ NoticeStep(y))

Spec == Init /\ [][Next]_vars /\ Fairness

(* Every part of both services' state stays in its domain. *)
CustomersTypeOK == CasesTypeOK /\ NoticesTypeOK
=============================================================================
