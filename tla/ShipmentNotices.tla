--------------------------- MODULE ShipmentNotices ---------------------------
(***************************************************************************)
(* How the status of a shipment reaches the panel and its customer.        *)
(*                                                                         *)
(* The scheduler, every twenty minutes, and an operator, at any time, ask  *)
(* the shop for the statuses of shipments; nothing keeps two of these      *)
(* synchronisations apart.  Each writes the status it was told and, when   *)
(* it has changed, runs the rule that sends the customer a message.  The   *)
(* model follows one shipment and one rule; hop[y] is the statement        *)
(* synchronisation y is about to run, with what it has read.               *)
(***************************************************************************)
EXTENDS Integers

CONSTANTS
    ShipmentSyncs,      \* synchronisations that may overlap
    CarrierStatuses,    \* statuses of the carrier
    FinalCarrier,       \* those of a final stage
    MaxHops,            \* bound of the changes of the status
    MaxNoticeFaults     \* bound of failures and crashes

ASSUME NoticesAssumption ==
    /\ FinalCarrier \subseteq CarrierStatuses /\ "" \notin CarrierStatuses
    /\ MaxHops \in Nat /\ MaxNoticeFaults \in Nat

VARIABLES
    carrier,    \* what the carrier says, "" before it says anything
    parcel,     \* status and isFinal of the OrderShipment row
    ruleRun,    \* AutomationRun rows by the status in their contextKey
    told,       \* messages the customer got about every status (not in the code)
    hop,        \* the next statement of every synchronisation
    hops, noticeFaults \* changes and failures so far

noticeVars == <<carrier, parcel, ruleRun, told, hop, hops, noticeFaults>>

NoParcel == [st |-> "none", final |-> FALSE]
Waits == [pc |-> "idle"]
Hop(y, step) == hop' = [hop EXCEPT ![y] = step]
NoticeFault == noticeFaults < MaxNoticeFaults /\ noticeFaults' = noticeFaults + 1

NoticesInit ==
    /\ carrier = ""
    /\ parcel = NoParcel
    /\ ruleRun = [s \in CarrierStatuses |-> "none"]
    /\ told = [s \in CarrierStatuses |-> 0]
    /\ hop = [y \in ShipmentSyncs |-> Waits]
    /\ hops = 0 /\ noticeFaults = 0

(* The carrier may return to a status it had, until one is final. *)
CarrierMoves ==
    /\ hops < MaxHops /\ hops' = hops + 1
    /\ carrier \notin FinalCarrier
    /\ carrier' \in CarrierStatuses \ {carrier}
    /\ UNCHANGED <<parcel, ruleRun, told, hop, noticeFaults>>

(* The orders asked about: no shipment known yet, or one on its way. *)
OnItsWay == parcel = NoParcel \/ ~parcel.final

BeginShipmentSync(y) ==
    /\ hop[y] = Waits /\ OnItsWay
    /\ Hop(y, [pc |-> "ask"])
    /\ UNCHANGED <<carrier, parcel, ruleRun, told, hops, noticeFaults>>

(* connectorJsonRequest; an error ends the batch. *)
AskShop(y) ==
    /\ hop[y].pc = "ask"
    /\ \/ Hop(y, [pc |-> "look", st |-> carrier]) /\ UNCHANGED noticeFaults
       \/ Hop(y, Waits) /\ NoticeFault
    /\ UNCHANGED <<carrier, parcel, ruleRun, told, hops>>

(* upsertShipmentRow: the row is read, ... *)
ReadParcel(y) ==
    /\ hop[y].pc = "look"
    /\ Hop(y, [pc |-> "upsert", st |-> hop[y].st, was |-> parcel.st])
    /\ UNCHANGED <<carrier, parcel, ruleRun, told, hops, noticeFaults>>

(* ... and written.  The first status of a shipment is a change. *)
(* Fault: it is none. *)
ChangedLater(was, st) == was \notin {"none", st} /\ st # ""
Changed(was, st) == was # st /\ st # ""

UpsertParcel(y) ==
    /\ hop[y].pc = "upsert"
    /\ LET st == hop[y].st IN
       /\ parcel' = [st |-> st, final |-> st \in FinalCarrier]
       /\ Hop(y, IF Changed(hop[y].was, st) THEN [pc |-> "trigger", st |-> st] ELSE Waits)
    /\ UNCHANGED <<carrier, ruleRun, told, hops, noticeFaults>>

(* reserveAutomationRun: the key of a run is unique. *)
(* Fault: a run that has ended may be repeated. *)
ReservableAgain(st) == ruleRun[st] # "RUNNING"
Reservable(st) == ruleRun[st] = "none"

ReserveRun(y) ==
    /\ hop[y].pc = "trigger"
    /\ IF Reservable(hop[y].st)
       THEN /\ ruleRun' = [ruleRun EXCEPT ![hop[y].st] = "RUNNING"]
            /\ Hop(y, [pc |-> "send", st |-> hop[y].st])
       ELSE Hop(y, Waits) /\ UNCHANGED ruleRun
    /\ UNCHANGED <<carrier, parcel, told, hops, noticeFaults>>

(* executeActions; an action that failed is not repeated. *)
SendNotice(y) ==
    /\ hop[y].pc = "send"
    /\ \/ told' = [told EXCEPT ![hop[y].st] = @ + 1] /\ UNCHANGED noticeFaults
       \/ NoticeFault /\ UNCHANGED told
    /\ Hop(y, [pc |-> "record", st |-> hop[y].st])
    /\ UNCHANGED <<carrier, parcel, ruleRun, hops>>

RecordRun(y) ==
    /\ hop[y].pc = "record"
    /\ ruleRun' = [ruleRun EXCEPT ![hop[y].st] = "ended"]
    /\ Hop(y, Waits)
    /\ UNCHANGED <<carrier, parcel, told, hops, noticeFaults>>

(* A statement of the database fails, or the process dies. *)
ShipmentSyncDies(y) ==
    /\ hop[y] # Waits
    /\ NoticeFault
    /\ Hop(y, Waits)
    /\ UNCHANGED <<carrier, parcel, ruleRun, told, hops>>

NoticeStep(y) ==
    AskShop(y) \/ ReadParcel(y) \/ UpsertParcel(y) \/ ReserveRun(y) \/ SendNotice(y) \/ RecordRun(y)

NoticesNext ==
    \/ CarrierMoves
    \/ \E y \in ShipmentSyncs : BeginShipmentSync(y) \/ NoticeStep(y) \/ ShipmentSyncDies(y)

(* The scheduler asks again and again, and what was begun goes on. *)
NoticesFairness ==
    /\ WF_noticeVars(\E y \in ShipmentSyncs : BeginShipmentSync(y))
    /\ \A y \in ShipmentSyncs : WF_noticeVars(NoticeStep(y))

NoticesSpec == NoticesInit /\ [][NoticesNext]_noticeVars /\ NoticesFairness

-----------------------------------------------------------------------------
(* Every part of the state stays in its domain. *)
NoticesTypeOK ==
    /\ carrier \in CarrierStatuses \cup {""}
    /\ parcel \in [st : CarrierStatuses \cup {"none", ""}, final : BOOLEAN]
    /\ ruleRun \in [CarrierStatuses -> {"none", "RUNNING", "ended"}]
    /\ told \in [CarrierStatuses -> Nat]
    /\ DOMAIN hop = ShipmentSyncs

(* automation.service.ts: "contextKey pilnuje, zeby ponowny przebieg nic   *)
(* nie powtorzyl".  Whatever synchronisations overlap or crash, whatever   *)
(* statuses return or are written late, the customer hears of each once.   *)
NotifiedOnce == \A s \in CarrierStatuses : told[s] <= 1

(* syncShipmentsForShop: once the carrier is at rest the panel comes to    *)
(* show its status, even if a late answer was written over it; and unless  *)
(* something failed, the customer has heard of it.                         *)
StatusIsFollowed ==
    <>[](/\ parcel.st = carrier
         /\ noticeFaults = 0 /\ carrier # "" => told[carrier] = 1)
=============================================================================
