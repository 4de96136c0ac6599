----------------------------- MODULE MCServices -----------------------------
(***************************************************************************)
(* Instances of the services around an order and its customer, for TLC:    *)
(* returns, sessions, invoices.  They share no state, so a behaviour of    *)
(* this module is one of the service that "part" names; the others rest.   *)
(***************************************************************************)
EXTENDS OrderReturns, AuthSessions, OrderInvoicing

VARIABLE part

(* What an operator ticks: everything; goods he checks himself, no         *)
(* correction; a return of money he pays himself.                          *)
Ticked == {[restock |-> TRUE, auto |-> TRUE, correct |-> TRUE, slip |-> TRUE],
           [restock |-> TRUE, auto |-> FALSE, correct |-> FALSE, slip |-> TRUE],
           [restock |-> FALSE, auto |-> FALSE, correct |-> TRUE, slip |-> FALSE]}

vars == <<part, returnVars, authVars, billVars>>

Init ==
    /\ part \in {"returns", "auth", "invoices"}
    /\ ReturnsInit /\ AuthInit /\ InvoicingInit
    /\ part # "returns" => invoice

Returns == part = "returns" /\ UNCHANGED <<part, authVars, billVars>>
Serves == part = "auth" /\ UNCHANGED <<part, returnVars, billVars>>
Bills == part = "invoices" /\ UNCHANGED <<part, returnVars, authVars>>

Next ==
    \/ Returns /\ ReturnsNext
    \/ Serves /\ AuthNext
    \/ Bills /\ InvoicingNext

Spec == Init /\ [][Next]_vars

(* Every part of every service's state stays in its domain. *)
ServicesTypeOK == ReturnsTypeOK /\ AuthTypeOK /\ InvoicingTypeOK
=============================================================================
