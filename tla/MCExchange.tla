----------------------------- MODULE MCExchange -----------------------------
(***************************************************************************)
(* Instances of the publication of stock and of the synchronisation of a   *)
(* wholesaler's feed, for TLC.  They share no state that both write, so a  *)
(* behaviour of this module is one of the service that "part" names; the   *)
(* other rests.                                                            *)
(***************************************************************************)
EXTENDS StockPublication, WholesaleSync

VARIABLE part

(* A supplier has the product or not. *)
Offers == {[stock |-> 0, future |-> FALSE], [stock |-> 1, future |-> TRUE]}
(* A file lists both SKUs, with one stock or another, or lost the first.   *)
Files == {[items |-> [s \in Skus |-> IF s = "a" THEN n ELSE 1], broken |-> FALSE] : n \in {1, 2}}
         \cup {[items |-> [s \in {"b"} |-> 1], broken |-> FALSE]}

vars == <<part, publishVars, wholesaleVars>>

(* The supplier has the product at first, the warehouse has it too if the  *)
(* shop has the module; the feed starts with the first file.  A service    *)
(* that rests has one state, in which nothing is left to do.               *)
PublicationStarts == PublicationInit /\ offer.stock = 1 /\ bulk = (own = 1)
PublicationRests == PublicationStarts /\ bulk
WholesaleStarts == WholesaleInit /\ feed.items = [s \in Skus |-> 1]

Init ==
    /\ WholesaleStarts
    /\ \/ part = "publication" /\ PublicationStarts
       \/ part = "wholesale" /\ PublicationRests

Publishes(A) == part = "publication" /\ A /\ UNCHANGED <<part, wholesaleVars>>
Synchronises(A) == part = "wholesale" /\ A /\ UNCHANGED <<part, publishVars>>

Next ==
    \/ Publishes(PublicationNext)
    \/ Synchronises(WholesaleNext)

(* The fairness of the service that moves. *)
Fairness ==
    /\ WF_vars(Publishes(BeginPublication("SCHEDULED")))
    /\ \A s \in Reasons : WF_vars(Publishes(PublicationStep(s)))
    /\ \A n \in 1..MaxLogs : WF_vars(Publishes(\E l \in logs : l.age = n /\ JobStep(l)))
    /\ WF_vars(Synchronises(SyncStep))
    /\ \A c \in FeedRequests : WF_vars(Synchronises(AddSyncJob(c)))
    /\ WF_vars(Synchronises(DailyPublication))

Spec == Init /\ [][Next]_vars /\ Fairness

(* Every part of both services' state stays in its domain. *)
ExchangeTypeOK == PublicationTypeOK /\ WholesaleTypeOK
=============================================================================
