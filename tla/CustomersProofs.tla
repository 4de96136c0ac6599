--------------------------- MODULE CustomersProofs ---------------------------
(***************************************************************************)
(* Proofs about what the customer of an item sees: the messages about its  *)
(* shipment, the design that is printed.                                   *)
(***************************************************************************)
EXTENDS MCCustomers, SequenceTheorems, WellFoundedInduction, TLAPS

-----------------------------------------------------------------------------
(***************************************************************************)
(* NotifiedOnce for any number of synchronisations, statuses and failures. *)
(***************************************************************************)

(* What a synchronisation was told is a status; what it runs the rule for  *)
(* is one that is not empty.                                               *)
Knows(step) ==
    /\ step.pc \in {"look", "upsert"} => step.st \in CarrierStatuses \cup {""}
    /\ step.pc \in {"trigger", "send", "record"} => step.st \in CarrierStatuses

HopsKnow == \A y \in ShipmentSyncs : Knows(hop[y])

Sends(y, s) == hop[y].pc = "send" /\ hop[y].st = s

(* The run of a status is reserved before its message is sent, and one     *)
(* synchronisation at most is about to send it, before it ever was.        *)
SentByOne ==
    \A s \in CarrierStatuses :
       /\ told[s] # 0 => told[s] = 1 /\ ruleRun[s] # "none"
       /\ \A y \in ShipmentSyncs : Sends(y, s) =>
             /\ told[s] = 0 /\ ruleRun[s] # "none"
             /\ \A z \in ShipmentSyncs : Sends(z, s) => z = y

NoticeInv == NoticesTypeOK /\ HopsKnow /\ SentByOne

LEMMA NoticeInvHoldsFirst == NoticesInit => NoticeInv
<1> SUFFICES ASSUME NoticesInit PROVE NoticeInv
  OBVIOUS
<1>1. \A y \in ShipmentSyncs : hop[y].pc = "idle"
  BY DEF NoticesInit, Waits
<1>2. HopsKnow
  BY <1>1 DEF HopsKnow, Knows
<1>3. NoticesTypeOK
  BY DEF NoticesInit, NoticesTypeOK, NoParcel
<1>4. \A s \in CarrierStatuses : told[s] = 0
  BY DEF NoticesInit
<1>5. SentByOne
  BY <1>1, <1>4 DEF SentByOne, Sends
<1> QED BY <1>2, <1>3, <1>5 DEF NoticeInv

(* A step of a synchronisation that neither reserves nor sends, to one     *)
(* that does not send.                                                     *)
LEMMA HopKeeps ==
    ASSUME NoticeInv, NEW y \in ShipmentSyncs, NEW step,
           Hop(y, step), UNCHANGED <<ruleRun, told>>,
           step.pc # "send", Knows(step)
    PROVE  DOMAIN hop' = ShipmentSyncs /\ HopsKnow' /\ SentByOne'
<1>1. /\ DOMAIN hop' = ShipmentSyncs /\ hop'[y] = step
      /\ \A z \in ShipmentSyncs : z # y => hop'[z] = hop[z]
  BY DEF Hop, NoticeInv, NoticesTypeOK
<1>2. HopsKnow'
  <2>1. \A z \in ShipmentSyncs : Knows(hop'[z])
    BY <1>1 DEF NoticeInv, HopsKnow
  <2> QED BY <2>1 DEF HopsKnow, Knows
<1>3. \A z \in ShipmentSyncs, s \in CarrierStatuses : Sends(z, s)' => Sends(z, s)
  BY <1>1 DEF Sends
<1>4. SentByOne'
  BY <1>3 DEF NoticeInv, SentByOne
<1> QED BY <1>1, <1>2, <1>4

LEMMA NoticeInvIsKept == NoticeInv /\ [NoticesNext]_noticeVars => NoticeInv'
<1> SUFFICES ASSUME NoticeInv, [NoticesNext]_noticeVars PROVE NoticeInv'
  OBVIOUS
<1>1. CASE CarrierMoves
  <2>1. carrier' \in CarrierStatuses /\ UNCHANGED <<parcel, ruleRun, told, hop>>
    BY <1>1 DEF CarrierMoves
  <2>2. NoticesTypeOK'
    BY <2>1 DEF NoticeInv, NoticesTypeOK
  <2>3. HopsKnow'
    BY <2>1 DEF NoticeInv, HopsKnow, Knows
  <2>4. SentByOne'
    BY <2>1 DEF NoticeInv, SentByOne, Sends
  <2> QED BY <2>2, <2>3, <2>4 DEF NoticeInv
<1>2. ASSUME NEW y \in ShipmentSyncs, BeginShipmentSync(y) \/ ShipmentSyncDies(y)
      PROVE NoticeInv'
  <2>1. PICK step : step.pc \in {"idle", "ask"} /\ Hop(y, step)
                    /\ UNCHANGED <<carrier, parcel, ruleRun, told>>
    BY <1>2 DEF BeginShipmentSync, ShipmentSyncDies, Waits
  <2>2. DOMAIN hop' = ShipmentSyncs /\ HopsKnow' /\ SentByOne'
    <3>1. step.pc # "send" /\ Knows(step)
      BY <2>1 DEF Knows
    <3> QED BY <2>1, <3>1, HopKeeps
  <2> QED BY <2>1, <2>2 DEF NoticeInv, NoticesTypeOK
<1>3. ASSUME NEW y \in ShipmentSyncs, AskShop(y) \/ ReadParcel(y) PROVE NoticeInv'
  <2>1. PICK step : /\ step.pc \in {"idle", "look", "upsert"} /\ Hop(y, step)
                    /\ step.pc # "idle" => step.st \in CarrierStatuses \cup {""}
                    /\ UNCHANGED <<carrier, parcel, ruleRun, told>>
    BY <1>3 DEF AskShop, ReadParcel, Waits, NoticeInv, NoticesTypeOK, HopsKnow, Knows
  <2>2. DOMAIN hop' = ShipmentSyncs /\ HopsKnow' /\ SentByOne'
    <3>1. step.pc # "send" /\ Knows(step)
      BY <2>1 DEF Knows
    <3> QED BY <2>1, <3>1, HopKeeps
  <2> QED BY <2>1, <2>2 DEF NoticeInv, NoticesTypeOK
<1>4. ASSUME NEW y \in ShipmentSyncs, UpsertParcel(y) PROVE NoticeInv'
  <2>1. hop[y].st \in CarrierStatuses \cup {""}
    BY <1>4 DEF UpsertParcel, NoticeInv, HopsKnow, Knows
  <2> DEFINE st == hop[y].st
             next == IF Changed(hop[y].was, st) THEN [pc |-> "trigger", st |-> st] ELSE Waits
  <2>2. /\ Hop(y, next)
        /\ parcel' = [st |-> st, final |-> st \in FinalCarrier]
        /\ UNCHANGED <<carrier, ruleRun, told>>
    BY <1>4 DEF UpsertParcel
  <2>3. (st \in FinalCarrier) \in BOOLEAN
    OBVIOUS
  <2>4. parcel' \in [st : CarrierStatuses \cup {"none", ""}, final : BOOLEAN]
    BY <2>1, <2>2, <2>3, Zenon
  <2>5. next.pc # "send" /\ Knows(next)
    <3>1. CASE Changed(hop[y].was, st)
      BY <2>1, <3>1 DEF Knows, Changed
    <3>2. CASE ~Changed(hop[y].was, st)
      BY <3>2 DEF Knows, Waits
    <3> QED BY <3>1, <3>2
  <2>6. DOMAIN hop' = ShipmentSyncs /\ HopsKnow' /\ SentByOne'
    <3> HIDE DEF next
    <3> QED BY <2>2, <2>5, HopKeeps
  <2> QED BY <2>2, <2>4, <2>6 DEF NoticeInv, NoticesTypeOK
<1>5. ASSUME NEW y \in ShipmentSyncs, ReserveRun(y) PROVE NoticeInv'
  <2> DEFINE st == hop[y].st
  <2>1. hop[y].pc = "trigger" /\ st \in CarrierStatuses
    BY <1>5 DEF ReserveRun, NoticeInv, HopsKnow, Knows
  <2>2. CASE ~Reservable(st)
    <3>1. Hop(y, Waits) /\ UNCHANGED <<carrier, parcel, ruleRun, told>>
      BY <1>5, <2>2 DEF ReserveRun
    <3>2. DOMAIN hop' = ShipmentSyncs /\ HopsKnow' /\ SentByOne'
      BY <3>1, HopKeeps DEF Waits, Knows
    <3> QED BY <3>1, <3>2 DEF NoticeInv, NoticesTypeOK
  <2>3. CASE Reservable(st)
    <3>1. /\ ruleRun' = [ruleRun EXCEPT ![st] = "RUNNING"]
          /\ hop' = [hop EXCEPT ![y] = [pc |-> "send", st |-> st]]
          /\ UNCHANGED <<carrier, parcel, told>>
      BY <1>5, <2>3 DEF ReserveRun, Hop
    <3>2. ruleRun[st] = "none"
      BY <2>3 DEF Reservable
    <3>3. NoticesTypeOK'
      BY <3>1, <2>1 DEF NoticeInv, NoticesTypeOK
    <3>4. /\ DOMAIN hop' = ShipmentSyncs /\ hop'[y] = [pc |-> "send", st |-> st]
          /\ \A z \in ShipmentSyncs : z # y => hop'[z] = hop[z]
      BY <3>1 DEF NoticeInv, NoticesTypeOK
    <3>5. HopsKnow'
      <4>1. Knows([pc |-> "send", st |-> st])
        BY <2>1 DEF Knows
      <4>2. \A z \in ShipmentSyncs : Knows(hop'[z])
        BY <3>4, <4>1 DEF NoticeInv, HopsKnow
      <4> QED BY <4>2 DEF HopsKnow, Knows
    <3>6. told[st] = 0 /\ \A z \in ShipmentSyncs : ~Sends(z, st)
      BY <2>1, <3>2 DEF NoticeInv, SentByOne
    <3>7. \A z \in ShipmentSyncs, s \in CarrierStatuses :
             Sends(z, s)' <=> IF z = y THEN s = st ELSE Sends(z, s)
      BY <3>4 DEF Sends
    <3>8. /\ ruleRun'[st] # "none"
          /\ \A s \in CarrierStatuses : s # st => ruleRun'[s] = ruleRun[s]
      BY <3>1, <2>1 DEF NoticeInv, NoticesTypeOK
    <3>9. \A s \in CarrierStatuses : ~Sends(y, s)
      BY <2>1 DEF Sends
    <3>10. SentByOne'
      BY <3>1, <3>6, <3>7, <3>8, <3>9 DEF NoticeInv, SentByOne
    <3> QED BY <3>3, <3>5, <3>10 DEF NoticeInv
  <2> QED BY <2>2, <2>3
<1>6. ASSUME NEW y \in ShipmentSyncs, SendNotice(y) PROVE NoticeInv'
  <2> DEFINE st == hop[y].st
  <2>1. hop[y].pc = "send" /\ st \in CarrierStatuses /\ Sends(y, st)
    BY <1>6 DEF SendNotice, NoticeInv, HopsKnow, Knows, Sends
  <2>2. told[st] = 0 /\ ruleRun[st] # "none"
        /\ \A z \in ShipmentSyncs : Sends(z, st) => z = y
    BY <2>1 DEF NoticeInv, SentByOne
  <2>3. /\ told' \in {told, [told EXCEPT ![st] = @ + 1]}
        /\ hop' = [hop EXCEPT ![y] = [pc |-> "record", st |-> st]]
        /\ UNCHANGED <<carrier, parcel, ruleRun>>
    BY <1>6 DEF SendNotice, Hop
  <2>4. told' \in [CarrierStatuses -> Nat]
        /\ told'[st] \in {0, 1} /\ \A s \in CarrierStatuses : s # st => told'[s] = told[s]
    <3>1. told \in [CarrierStatuses -> Nat]
      BY DEF NoticeInv, NoticesTypeOK
    <3>2. CASE told' = told
      BY <2>2, <3>1, <3>2
    <3>3. CASE told' = [told EXCEPT ![st] = @ + 1]
      BY <2>1, <2>2, <3>1, <3>3
    <3> QED BY <2>3, <3>2, <3>3
  <2>5. /\ DOMAIN hop' = ShipmentSyncs /\ hop'[y] = [pc |-> "record", st |-> st]
        /\ \A z \in ShipmentSyncs : z # y => hop'[z] = hop[z]
    BY <2>3 DEF NoticeInv, NoticesTypeOK
  <2>6. HopsKnow'
    <3>1. Knows([pc |-> "record", st |-> st])
      BY <2>1 DEF Knows
    <3>2. \A z \in ShipmentSyncs : Knows(hop'[z])
      BY <2>5, <3>1 DEF NoticeInv, HopsKnow
    <3> QED BY <3>2 DEF HopsKnow, Knows
  <2>7. \A z \in ShipmentSyncs, s \in CarrierStatuses : Sends(z, s)' => Sends(z, s) /\ s # st
    BY <2>2, <2>5 DEF Sends
  <2>8. SentByOne'
    BY <2>2, <2>3, <2>4, <2>7 DEF NoticeInv, SentByOne
  <2> QED BY <2>3, <2>4, <2>5, <2>6, <2>8 DEF NoticeInv, NoticesTypeOK
<1>7. ASSUME NEW y \in ShipmentSyncs, RecordRun(y) PROVE NoticeInv'
  <2> DEFINE st == hop[y].st
  <2>1. hop[y].pc = "record" /\ st \in CarrierStatuses
    BY <1>7 DEF RecordRun, NoticeInv, HopsKnow, Knows
  <2>2. /\ ruleRun' = [ruleRun EXCEPT ![st] = "ended"]
        /\ hop' = [hop EXCEPT ![y] = Waits] /\ UNCHANGED <<carrier, parcel, told>>
    BY <1>7 DEF RecordRun, Hop
  <2>3. NoticesTypeOK'
    BY <2>1, <2>2 DEF NoticeInv, NoticesTypeOK
  <2>4. /\ hop'[y].pc = "idle"
        /\ \A z \in ShipmentSyncs : z # y => hop'[z] = hop[z]
    BY <2>2 DEF NoticeInv, NoticesTypeOK, Waits
  <2>5. HopsKnow'
    BY <2>4 DEF NoticeInv, HopsKnow, Knows
  <2>6. \A z \in ShipmentSyncs, s \in CarrierStatuses : Sends(z, s)' => Sends(z, s)
    BY <2>4 DEF Sends
  <2>7. \A s \in CarrierStatuses : ruleRun[s] # "none" => ruleRun'[s] # "none"
    BY <2>1, <2>2 DEF NoticeInv, NoticesTypeOK
  <2>8. SentByOne'
    BY <2>2, <2>6, <2>7 DEF NoticeInv, SentByOne
  <2> QED BY <2>3, <2>5, <2>8 DEF NoticeInv
<1>8. CASE UNCHANGED noticeVars
  <2>1. NoticesTypeOK'
    BY <1>8 DEF noticeVars, NoticeInv, NoticesTypeOK
  <2>2. HopsKnow'
    BY <1>8 DEF noticeVars, NoticeInv, HopsKnow, Knows
  <2>3. SentByOne'
    BY <1>8 DEF noticeVars, NoticeInv, SentByOne, Sends
  <2> QED BY <2>1, <2>2, <2>3 DEF NoticeInv
<1> QED BY <1>1, <1>2, <1>3, <1>4, <1>5, <1>6, <1>7, <1>8 DEF NoticesNext, NoticeStep

(* Whatever synchronisations overlap, fail or repeat themselves, however   *)
(* statuses return, the customer hears of each once: the unique key of a   *)
(* run is enough.                                                          *)
THEOREM EveryStatusToldOnce == NoticesSpec => []NotifiedOnce
<1>1. ASSUME NoticeInv PROVE NotifiedOnce
  <2>1. \A s \in CarrierStatuses : told[s] = 0 \/ told[s] = 1
    BY <1>1 DEF NoticeInv, SentByOne
  <2> QED BY <2>1 DEF NotifiedOnce
<1> QED BY <1>1, NoticeInvHoldsFirst, NoticeInvIsKept, PTL DEF NoticesSpec

(* The shipment, its messages and its synchronisations stay in their       *)
(* domains.                                                                *)
THEOREM NoticesTypes == NoticesSpec => []NoticesTypeOK
<1>1. NoticeInv => NoticesTypeOK
  BY DEF NoticeInv
<1> QED BY <1>1, NoticeInvHoldsFirst, NoticeInvIsKept, PTL DEF NoticesSpec
-----------------------------------------------------------------------------
(***************************************************************************)
(* The personalisation of an item: types, and PackageKept, for any number  *)
(* of customers' and panel's requests, workers, failures and crashes.      *)
(***************************************************************************)
CaseRow == [st : Open \cup Closed, answers : Answers, snap : Layouts \cup {None},
            link : Nat, usable : BOOLEAN]
JobRow == [kind : {"package", "proof"}, made : 0..Attempts,
           st : {"PENDING", "PROCESSING", "COMPLETED", "FAILED"},
           queue : {"none", "waiting", "active", "gone", "failed"}]
Designs == [answers : Answers, layout : Layouts]
FileRow == {Gone} \cup [type : PackageTypes \cup {"proof"}, design : Designs]

(* Statements that hold what a customer sent. *)
Holding == {"rows", "draft", "preview", "merge", "check", "approve"}
(* Statements of a package and of a proof, those after rendering, and      *)
(* those that have listed the older files.                                 *)
Packing == {"package", "refuse", "files", "zip", "clean", "finish"}
Proofing == {"proof", "listProofs", "saveProof", "dropProofs"}
Rendered == {"refuse", "files", "zip", "clean", "finish", "listProofs", "saveProof", "dropProofs"}
Listed == {"refuse", "files", "zip", "clean", "finish", "saveProof", "dropProofs"}

CaseTyped ==
    /\ pcase \in CaseRow
    /\ rows \in Answers /\ layout \in Layouts /\ preview \in BOOLEAN
    /\ spent \in [Kinds -> Nat]

(* A job that has not ended has an attempt left. *)
JobsTyped ==
    /\ jobs \in Seq(JobRow)
    /\ \A j \in DOMAIN jobs : jobs[j].queue \notin {"gone", "failed"} => jobs[j].made < Attempts

(* What a request carries from statement to statement. *)
StepOK(h, d) ==
    /\ "pc" \in DOMAIN d
    /\ d.pc \in Holding => /\ h \in Customers
                           /\ {"op", "link", "answers", "layout", "snap"} \subseteq DOMAIN d
                           /\ d.answers \in Answers /\ d.layout \in Layouts
                           /\ d.op \in {"draft", "preview", "submit"}
    /\ d.pc = "update" => h \in Admins /\ d.answers \in Answers /\ d.submits \in BOOLEAN
    /\ d.pc \in {"add", "sent", "retried"} => "j" \in DOMAIN d /\ d.j \in DOMAIN jobs
    /\ d.pc = "retried" => h \in Admins
    /\ d.pc = "add" => jobs[d.j].queue = "none"

(* No two requests add the same job. *)
DoingTyped ==
    /\ DOMAIN doing = Handlers
    /\ \A h \in Handlers : StepOK(h, doing[h])
    /\ \A h, g \in Handlers :
          doing[h].pc = "add" /\ doing[g].pc = "add" /\ doing[h].j = doing[g].j => h = g

(* What a worker carries: an active job, of the kind of its statement; the *)
(* proofs that it replaces are no packages.                                *)
RunOK(r) ==
    /\ "pc" \in DOMAIN r /\ r.pc \in Packing \cup Proofing \cup {"catch", "idle"}
    /\ r.pc # "idle" => "j" \in DOMAIN r /\ r.j \in DOMAIN jobs /\ jobs[r.j].queue = "active"
    /\ r.pc \in Packing => jobs[r.j].kind = "package"
    /\ r.pc \in Rendered => "design" \in DOMAIN r /\ r.design \in Designs
    /\ r.pc \in Listed => "older" \in DOMAIN r /\ r.older \subseteq DOMAIN assets
    /\ r.pc \in {"saveProof", "dropProofs"} => r.older \cap Zips = {}

RunsTyped ==
    /\ DOMAIN runs = Workers
    /\ \A w \in Workers : RunOK(runs[w])
    /\ \A v, w \in Workers :
          runs[v].pc # "idle" /\ runs[w].pc # "idle" /\ runs[v].j = runs[w].j => v = w

(* If there is a package, one is not among those that any worker is about  *)
(* to delete.                                                              *)
Spared(i) == \A w \in Workers : runs[w].pc = "clean" => i \notin runs[w].older
FilesTyped ==
    /\ assets \in Seq(FileRow)
    /\ HasZip => \E i \in Zips : Spared(i)

CasesInv == CaseTyped /\ JobsTyped /\ DoingTyped /\ RunsTyped /\ FilesTyped

(* A step of a worker that changes the place in the queue of one job only, *)
(* one that makes no package of an older file, and a statement that goes   *)
(* on with what another one holds.                                         *)
OtherJobsWait(j) ==
    /\ DOMAIN jobs' = DOMAIN jobs
    /\ \A i \in DOMAIN jobs : jobs'[i].kind = jobs[i].kind
    /\ \A i \in DOMAIN jobs \ {j} : jobs'[i].queue = jobs[i].queue
FilesGrow == DOMAIN assets \subseteq DOMAIN assets' /\ Zips' \cap DOMAIN assets \subseteq Zips
LeadsTo(from, pc) ==
    /\ pc \in Packing \cup Proofing \cup {"catch"}
    /\ pc \in Packing => from \in Packing
    /\ pc \in Rendered => from \in Rendered
    /\ pc \in Listed => from \in Listed

(* A function over the places of a sequence is one, of the same length.    *)
LEMMA SequenceKept ==
    ASSUME NEW S, NEW s \in Seq(S), NEW f \in [DOMAIN s -> S]
    PROVE  f \in Seq(S) /\ Len(f) = Len(s) /\ DOMAIN f = DOMAIN s
<1>1. DOMAIN s = 1..Len(s) /\ Len(s) \in Nat
  BY LenProperties
<1>2. f \in Seq(S)
  BY <1>1
<1>3. DOMAIN f = 1..Len(f) /\ Len(f) \in Nat
  BY <1>2, LenProperties
<1> QED BY <1>1, <1>2, <1>3

LEMMA SequenceGrows ==
    ASSUME NEW S, NEW s \in Seq(S), NEW e \in S
    PROVE  /\ Append(s, e) \in Seq(S)
           /\ DOMAIN Append(s, e) = DOMAIN s \cup {Len(s) + 1}
           /\ Len(s) + 1 \notin DOMAIN s
           /\ Append(s, e)[Len(s) + 1] = e
           /\ \A i \in DOMAIN s : Append(s, e)[i] = s[i]
<1>1. DOMAIN s = 1..Len(s) /\ Len(s) \in Nat
  BY LenProperties
<1>2. Append(s, e) \in Seq(S) /\ Len(Append(s, e)) = Len(s) + 1
  BY AppendProperties
<1>3. DOMAIN Append(s, e) = 1..(Len(s) + 1)
  BY <1>2, LenProperties
<1>4. Append(s, e)[Len(s) + 1] = e /\ \A i \in 1..Len(s) : Append(s, e)[i] = s[i]
  BY <1>1, AppendProperties
<1> QED BY <1>1, <1>2, <1>3, <1>4

LEMMA ElementsTyped ==
    ASSUME NEW S, NEW s \in Seq(S), NEW i \in DOMAIN s
    PROVE  s[i] \in S
BY LenProperties, ElementOfSeq

LEMMA CaseChanged ==
    ASSUME NEW c \in CaseRow
    PROVE  /\ \A s \in Open \cup Closed : [c EXCEPT !.st = s] \in CaseRow
           /\ \A a \in Answers : [c EXCEPT !.answers = a] \in CaseRow
           /\ \A p \in Layouts \cup {None} : [c EXCEPT !.snap = p] \in CaseRow
           /\ [c EXCEPT !.usable = FALSE] \in CaseRow
           /\ [c EXCEPT !.link = @ + 1, !.usable = TRUE] \in CaseRow
<1>1. \A s \in Open \cup Closed : [c EXCEPT !.st = s] \in CaseRow
  BY DEF CaseRow
<1>2. \A a \in Answers : [c EXCEPT !.answers = a] \in CaseRow
  BY DEF CaseRow
<1>3. \A p \in Layouts \cup {None} : [c EXCEPT !.snap = p] \in CaseRow
  BY DEF CaseRow
<1>4. [c EXCEPT !.usable = FALSE] \in CaseRow
  BY DEF CaseRow
<1>5. [c EXCEPT !.link = @ + 1, !.usable = TRUE] \in CaseRow
  <2>1. PICK n \in Nat : n = c.link + 1
    BY DEF CaseRow
  <2>2. [c EXCEPT !.link = @ + 1, !.usable = TRUE] = [c EXCEPT !.link = n, !.usable = TRUE]
    BY <2>1 DEF CaseRow
  <2>3. [c EXCEPT !.link = n, !.usable = TRUE] \in CaseRow
    BY DEF CaseRow
  <2> QED BY <2>2, <2>3
<1> QED BY <1>1, <1>2, <1>3, <1>4, <1>5

LEMMA SpendTyped ==
    ASSUME CaseTyped, NEW kind \in Kinds, Spend(kind)
    PROVE  spent' \in [Kinds -> Nat]
<1>1. spent \in [Kinds -> Nat] /\ spent' = [spent EXCEPT ![kind] = @ + 1]
  BY DEF CaseTyped, Spend
<1>2. PICK n \in Nat : n = spent[kind] + 1
  BY <1>1
<1>3. spent' = [spent EXCEPT ![kind] = n]
  BY <1>1, <1>2
<1> QED BY <1>1, <1>3

LEMMA CaseTypedStays ==
    ASSUME CaseTyped, UNCHANGED <<pcase, rows, layout, preview, spent>>
    PROVE  CaseTyped'
BY DEF CaseTyped

LEMMA DesignTyped == ASSUME CaseTyped PROVE Design \in Designs
<1>1. pcase.answers \in Answers /\ LayoutOf(pcase.snap) \in Layouts
  BY DEF CaseTyped, CaseRow, LayoutOf
<1> QED BY <1>1, Zenon DEF Design, Designs

(* Jobs, workers and files stay. *)
LEMMA WorkStays ==
    ASSUME CasesInv, UNCHANGED <<jobs, runs, assets>>
    PROVE  JobsTyped' /\ RunsTyped' /\ FilesTyped'
<1>1. JobsTyped'
  BY DEF CasesInv, JobsTyped
<1>2. Zips' = Zips /\ (HasZip' <=> HasZip) /\ \A i : Spared(i)' <=> Spared(i)
  BY DEF Zips, Files, HasZip, Spared
<1>3. \A r : RunOK(r)' <=> RunOK(r)
  BY <1>2 DEF RunOK
<1>4. RunsTyped'
  BY <1>3 DEF CasesInv, RunsTyped
<1>5. FilesTyped'
  BY <1>2 DEF CasesInv, FilesTyped
<1> QED BY <1>1, <1>4, <1>5

LEMMA DoingStays ==
    ASSUME CasesInv, UNCHANGED <<jobs, doing>>
    PROVE  DoingTyped'
<1>1. \A h, d : StepOK(h, d)' <=> StepOK(h, d)
  BY DEF StepOK
<1> QED BY <1>1 DEF CasesInv, DoingTyped

(* One request goes on, and the jobs stay. *)
LEMMA RequestMoves ==
    ASSUME CasesInv, NEW h \in Handlers, NEW d, Go(h, d), StepOK(h, d), d.pc # "add",
           CaseTyped', UNCHANGED <<jobs, runs, assets>>
    PROVE  CasesInv'
<1>1. /\ DOMAIN doing' = Handlers /\ doing'[h] = d
      /\ \A g \in Handlers \ {h} : doing'[g] = doing[g]
  BY DEF CasesInv, DoingTyped, Go
<1>2. \A g, e : StepOK(g, e)' <=> StepOK(g, e)
  BY DEF StepOK
<1>3. \A g \in Handlers : StepOK(g, doing'[g])
  BY <1>1 DEF CasesInv, DoingTyped
<1>4. \A f, g \in Handlers :
          doing'[f].pc = "add" /\ doing'[g].pc = "add" /\ doing'[f].j = doing'[g].j => f = g
  BY <1>1 DEF CasesInv, DoingTyped
<1>5. DoingTyped'
  BY <1>1, <1>2, <1>3, <1>4 DEF DoingTyped
<1> QED BY <1>5, WorkStays DEF CasesInv

LEMMA ElsewhereKeeps ==
    ASSUME CasesInv, CaseTyped', UNCHANGED <<doing, jobs, runs, assets>>
    PROVE  CasesInv'
BY WorkStays, DoingStays DEF CasesInv

LEMMA IdleIsStep == \A h : StepOK(h, Idle) /\ Idle.pc = "idle"
BY DEF StepOK, Idle, Holding

LEMMA CasesAtFirst == CasesInit => CasesInv
<1> SUFFICES ASSUME CasesInit PROVE CasesInv OBVIOUS
<1>1. CaseTyped
  <2>1. pcase \in CaseRow
    <3>1. [st |-> "WAITING_FOR_CUSTOMER", answers |-> Blank, snap |-> None, link |-> 0,
           usable |-> TRUE] \in CaseRow
      <4>1. Blank \in Answers /\ 0 \in Nat /\ "WAITING_FOR_CUSTOMER" \in Open \cup Closed
        BY CasesAssumption DEF Open
      <4> QED BY <4>1, Zenon DEF CaseRow
    <3> QED BY <3>1, Zenon DEF CasesInit
  <2>2. rows \in Answers /\ layout \in Layouts /\ preview \in BOOLEAN /\ spent \in [Kinds -> Nat]
    BY CasesAssumption DEF CasesInit
  <2> QED BY <2>1, <2>2 DEF CaseTyped
<1>2. jobs = <<>> /\ assets = <<>> /\ DOMAIN <<>> = {}
  BY DEF CasesInit
<1>3. jobs \in Seq(JobRow) /\ assets \in Seq(FileRow)
  BY <1>2, EmptySeq
<1>4. JobsTyped
  BY <1>2, <1>3 DEF JobsTyped
<1>5. DOMAIN doing = Handlers /\ \A h \in Handlers : doing[h] = Idle
  BY DEF CasesInit
<1>6. DoingTyped
  BY <1>5, IdleIsStep DEF DoingTyped
<1>7. DOMAIN runs = Workers /\ \A w \in Workers : runs[w] = Idle
  BY DEF CasesInit
<1>8. RunOK(Idle)
  BY DEF RunOK, Idle, Packing, Proofing, Rendered, Listed
<1>9. RunsTyped
  BY <1>7, <1>8, IdleIsStep DEF RunsTyped
<1>10. FilesTyped
  BY <1>2, <1>3 DEF FilesTyped, HasZip, Zips, Files
<1> QED BY <1>1, <1>4, <1>6, <1>9, <1>10 DEF CasesInv

LEMMA StepIsOK ==
    ASSUME CasesInv, NEW h \in Handlers
    PROVE  StepOK(h, doing[h])
BY DEF CasesInv, DoingTyped

(* A request goes on with what it holds. *)
LEMMA NextIsStep ==
    ASSUME NEW h, NEW d, StepOK(h, d), NEW pc, pc \notin {"add", "sent", "update", "retried"},
           pc \in Holding => d.pc \in Holding
    PROVE  LET e == [d EXCEPT !.pc = pc] IN StepOK(h, e) /\ e.pc = pc
<1>1. PICK e : e = [d EXCEPT !.pc = pc]
  OBVIOUS
<1>2. "pc" \in DOMAIN d
  BY DEF StepOK
<1>3. DOMAIN e = DOMAIN d /\ e.pc = pc /\ \A x \in DOMAIN d \ {"pc"} : e[x] = d[x]
  BY <1>1, <1>2
<1>4. pc \in Holding => /\ h \in Customers
                        /\ {"op", "link", "answers", "layout", "snap"} \subseteq DOMAIN e
                        /\ e.answers \in Answers /\ e.layout \in Layouts
                        /\ e.op \in {"draft", "preview", "submit"}
  BY <1>3 DEF StepOK
<1>5. StepOK(h, e)
  BY <1>2, <1>3, <1>4 DEF StepOK
<1> QED BY <1>1, <1>3, <1>5

LEMMA ToMoves ==
    ASSUME CasesInv, NEW h \in Handlers, NEW pc, To(h, pc),
           pc \notin {"add", "sent", "update", "retried"}, pc \in Holding => doing[h].pc \in Holding,
           CaseTyped', UNCHANGED <<jobs, runs, assets>>
    PROVE  CasesInv'
<1>1. PICK e : e = [doing[h] EXCEPT !.pc = pc]
  OBVIOUS
<1>2. StepOK(h, e) /\ e.pc = pc
  BY <1>1, NextIsStep, StepIsOK
<1>3. Go(h, e)
  BY <1>1 DEF To
<1> QED BY <1>2, <1>3, RequestMoves

LEMMA IdleMoves ==
    ASSUME CasesInv, NEW h \in Handlers, Go(h, Idle), CaseTyped', UNCHANGED <<jobs, runs, assets>>
    PROVE  CasesInv'
<1>1. StepOK(h, Idle) /\ Idle.pc # "add"
  BY IdleIsStep
<1> QED BY <1>1, RequestMoves

LEMMA AfterPackageMoves ==
    ASSUME CasesInv, NEW h \in Handlers, AfterPackage(h), CaseTyped', UNCHANGED <<jobs, runs, assets>>
    PROVE  CasesInv'
<1>1. "proof" \notin {"add", "sent", "update", "retried"} \cup Holding
  BY DEF Holding
<1> QED BY <1>1, ToMoves, IdleMoves DEF AfterPackage

(* Requests of the customer. *)
LEMMA ReceiveKeeps ==
    ASSUME CasesInv, NEW c \in Customers, NEW op \in {"draft", "preview", "submit"},
           NEW body \in Filled \cup {None}, Receive(c, op, body)
    PROVE  CasesInv'
<1>1. CaseTyped /\ c \in Handlers
  BY DEF CasesInv, Handlers
<1>2. CaseTyped'
  <2>1. spent' \in [Kinds -> Nat]
    BY <1>1, SpendTyped DEF Receive, Kinds
  <2> QED BY <1>1, <2>1 DEF Receive, KeepCase, CaseTyped
<1>3. PICK a : a = Given(body)
  OBVIOUS
<1>4. a \in Answers
  BY <1>1, <1>3 DEF Given, CaseTyped, CaseRow, Filled
<1>5. PICK pc : pc = IF op = "draft" \/ body # None THEN "rows"
                     ELSE IF op = "preview" THEN "preview" ELSE "check"
  OBVIOUS
<1>6. pc \in {"rows", "preview", "check"}
  BY <1>5
<1>7. PICK d : d = [pc |-> pc, op |-> op, link |-> pcase.link, answers |-> a, layout |-> layout,
                    snap |-> pcase.snap]
  OBVIOUS
<1>8. StepOK(c, d) /\ d.pc # "add"
  BY <1>1, <1>4, <1>6, <1>7 DEF StepOK, CaseTyped, Holding
<1>9. Go(c, d) /\ UNCHANGED <<jobs, runs, assets>>
  BY <1>3, <1>5, <1>7 DEF Receive, KeepFiles
<1> QED BY <1>1, <1>2, <1>8, <1>9, RequestMoves

LEMMA HeldByCustomer ==
    ASSUME CasesInv, NEW c \in Handlers, doing[c].pc \in Holding
    PROVE  /\ c \in Customers /\ doing[c].answers \in Answers /\ doing[c].layout \in Layouts
           /\ doing[c].op \in {"draft", "preview", "submit"}
BY StepIsOK DEF StepOK

LEMMA SavingKeeps ==
    ASSUME CasesInv, NEW c \in Handlers,
           SaveAnswers(c) \/ SaveDraft(c) \/ SavePreview(c) \/ SaveMerged(c) \/ Check(c) \/ Approve(c)
    PROVE  CasesInv'
<1>1. /\ doing[c].pc \in Holding /\ UNCHANGED <<jobs, runs, assets>> /\ UNCHANGED <<layout, preview, spent>>
  BY DEF SaveAnswers, SaveDraft, SavePreview, SaveMerged, Check, Approve, CaseAt, Holding,
         KeepFiles, KeepCase
<1>2. CaseTyped /\ pcase \in CaseRow
  BY DEF CasesInv, CaseTyped
<1>3. /\ c \in Customers /\ doing[c].answers \in Answers /\ doing[c].layout \in Layouts
      /\ doing[c].op \in {"draft", "preview", "submit"}
  BY <1>1, HeldByCustomer
<1>4. /\ \A s \in Open \cup Closed : [pcase EXCEPT !.st = s] \in CaseRow
      /\ \A a \in Answers : [pcase EXCEPT !.answers = a] \in CaseRow
      /\ \A p \in Layouts : [pcase EXCEPT !.snap = p] \in CaseRow
  BY <1>2, CaseChanged
<1>5. ASSUME pcase' \in CaseRow, rows' \in Answers PROVE CaseTyped'
  BY <1>1, <1>2, <1>5 DEF CaseTyped
<1>6. CASE SaveAnswers(c)
  <2>1. CaseTyped'
    BY <1>2, <1>3, <1>5, <1>6 DEF SaveAnswers
  <2>2. PICK pc : pc = IF doing[c].op = "submit" THEN "merge" ELSE doing[c].op
    OBVIOUS
  <2>3. pc \in {"merge", "draft", "preview"} /\ To(c, pc)
    BY <1>3, <1>6, <2>2 DEF SaveAnswers
  <2> QED BY <1>1, <2>1, <2>3, ToMoves
<1>7. CASE SaveDraft(c)
  <2>1. PICK row : row = [pcase EXCEPT !.st = "WAITING_FOR_CUSTOMER"]
    OBVIOUS
  <2>2. row \in CaseRow
    BY <1>4, <2>1 DEF Open
  <2>3. [row EXCEPT !.answers = doing[c].answers] \in CaseRow
    BY <1>3, <2>2, CaseChanged
  <2>4. [row EXCEPT !.answers = doing[c].answers]
            = [pcase EXCEPT !.st = "WAITING_FOR_CUSTOMER", !.answers = doing[c].answers]
    BY <2>1
  <2>5. pcase' \in CaseRow
    BY <1>2, <1>7, <2>3, <2>4 DEF SaveDraft
  <2>6. CaseTyped' /\ Go(c, Idle)
    BY <1>2, <1>5, <1>7, <2>5 DEF SaveDraft, CaseTyped
  <2> QED BY <1>1, <2>6, IdleMoves
<1>8. CASE SavePreview(c)
  <2>1. PICK st : st = IF preview THEN "PREVIEW_READY" ELSE "DRAFT"
    OBVIOUS
  <2>2. PICK row : row = [pcase EXCEPT !.st = st]
    OBVIOUS
  <2>3. st \in Open
    BY <2>1 DEF Open
  <2>4. row \in CaseRow
    BY <1>4, <2>2, <2>3
  <2>5. [row EXCEPT !.answers = doing[c].answers] \in CaseRow
    BY <1>3, <2>4, CaseChanged
  <2>6. pcase' = [pcase EXCEPT !.st = st, !.answers = doing[c].answers]
    BY <1>8, <2>1 DEF SavePreview
  <2>7. pcase' \in CaseRow
    BY <2>2, <2>5, <2>6
  <2>8. CaseTyped' /\ Go(c, Idle)
    BY <1>2, <1>5, <1>8, <2>7 DEF SavePreview, CaseTyped
  <2> QED BY <1>1, <2>8, IdleMoves
<1>9. CASE SaveMerged(c)
  <2>1. pcase' \in CaseRow /\ rows' \in Answers /\ To(c, "check")
    BY <1>2, <1>3, <1>4, <1>9 DEF SaveMerged, SetCase, CaseTyped
  <2> QED BY <1>1, <1>5, <2>1, ToMoves
<1>10. CASE Check(c)
  <2>1. CaseTyped'
    BY <1>2, <1>10, CaseTypedStays DEF Check, KeepCase
  <2>2. To(c, "approve") \/ Go(c, Idle)
    BY <1>10 DEF Check
  <2> QED BY <1>1, <2>1, <2>2, ToMoves, IdleMoves
<1>11. CASE Approve(c)
  <2>1. PICK row : row = [pcase EXCEPT !.st = "SUBMITTED"]
    OBVIOUS
  <2>2. row \in CaseRow
    BY <1>4, <2>1 DEF Closed
  <2>3. [row EXCEPT !.snap = doing[c].layout] \in CaseRow
    BY <1>3, <2>2, CaseChanged
  <2>4. [row EXCEPT !.snap = doing[c].layout]
            = [pcase EXCEPT !.st = "SUBMITTED", !.snap = doing[c].layout]
    BY <2>1
  <2>5. pcase' \in CaseRow /\ rows' \in Answers
    BY <1>2, <1>11, <2>3, <2>4 DEF Approve, CaseTyped
  <2>6. To(c, "package") \/ Go(c, Idle)
    BY <1>11 DEF Approve
  <2>7. "package" \notin {"add", "sent", "update"} \cup Holding
    BY DEF Holding
  <2> QED BY <1>1, <1>5, <2>5, <2>6, <2>7, ToMoves, IdleMoves
<1> QED BY <1>6, <1>7, <1>8, <1>9, <1>10, <1>11

LEMMA UploadKeeps ==
    ASSUME CasesInv, NEW c \in Customers, UploadPreview(c)
    PROVE  CasesInv'
<1>1. CaseTyped /\ "customer" \in Kinds
  BY DEF CasesInv, Kinds
<1>2. spent' \in [Kinds -> Nat]
  BY <1>1, SpendTyped DEF UploadPreview
<1>3. CaseTyped'
  BY <1>1, <1>2 DEF UploadPreview, CaseTyped
<1> QED BY <1>3, ElsewhereKeeps DEF UploadPreview, KeepFiles

(* Judging a package, refusing it, confirming that it was sent.            *)
LEMMA PackageRequestKeeps ==
    ASSUME CasesInv, NEW h \in Handlers, Judge(h) \/ RejectPackage(h) \/ ConfirmSent(h)
    PROVE  CasesInv'
<1>1. CaseTyped /\ pcase \in CaseRow
  BY DEF CasesInv, CaseTyped
<1>2. CASE Judge(h)
  <2>1. CaseTyped' /\ UNCHANGED <<jobs, runs, assets>>
    BY <1>1, <1>2, CaseTypedStays DEF Judge, KeepCase, KeepFiles
  <2>2. To(h, "create") \/ To(h, "reject")
    BY <1>2 DEF Judge
  <2>3. {"create", "reject"} \cap ({"add", "sent", "update"} \cup Holding) = {}
    BY DEF Holding
  <2> QED BY <2>1, <2>2, <2>3, ToMoves
<1>3. ASSUME NEW st \in Open \cup Closed, SetCase("st", st), AfterPackage(h),
             UNCHANGED <<rows, layout, preview, approved, spent>>, KeepFiles
      PROVE  CasesInv'
  <2>1. pcase' \in CaseRow
    BY <1>1, <1>3, CaseChanged DEF SetCase
  <2>2. CaseTyped'
    BY <1>1, <1>3, <2>1 DEF CaseTyped
  <2> QED BY <1>3, <2>2, AfterPackageMoves DEF KeepFiles
<1>4. CASE RejectPackage(h)
  <2>1. "FAILED_RENDER" \in Open \cup Closed
    BY DEF Open
  <2> QED BY <1>3, <1>4, <2>1 DEF RejectPackage
<1>5. CASE ConfirmSent(h)
  <2>1. "SUBMITTED" \in Open \cup Closed
    BY DEF Closed
  <2> QED BY <1>3, <1>5, <2>1 DEF ConfirmSent
<1> QED BY <1>2, <1>4, <1>5

(* Requests of the panel that leave the files alone. *)
LEMMA PanelKeeps ==
    ASSUME CasesInv, NEW a \in Admins,
           \/ RequestPackage(a) \/ RefreshCaseLayout(a) \/ ResendEmail(a) \/ UpdateCaseAnswers(a)
           \/ \E st \in PanelStatuses : UpdateCaseStatus(a, st)
           \/ \E body \in Filled : ReadForUpdate(a, body)
    PROVE  CasesInv'
<1>1. CaseTyped /\ pcase \in CaseRow /\ a \in Handlers
  BY DEF CasesInv, CaseTyped, Handlers
<1>2. \A k \in {"packages", "panel"} : Spend(k) => spent' \in [Kinds -> Nat]
  BY <1>1, SpendTyped DEF Kinds
<1>3. ASSUME pcase' \in CaseRow, rows' \in Answers, spent' \in [Kinds -> Nat],
             UNCHANGED <<layout, preview>>
      PROVE  CaseTyped'
  BY <1>1, <1>3 DEF CaseTyped
<1>4. CASE RequestPackage(a)
  <2>1. CaseTyped'
    BY <1>1, <1>2, <1>3, <1>4 DEF RequestPackage, KeepCase, CaseTyped
  <2>2. PICK d : d = [pc |-> "package"]
    OBVIOUS
  <2>3. StepOK(a, d) /\ d.pc # "add"
    BY <2>2 DEF StepOK, Holding
  <2>4. Go(a, d) /\ UNCHANGED <<jobs, runs, assets>>
    BY <1>4, <2>2 DEF RequestPackage, KeepFiles
  <2> QED BY <1>1, <2>1, <2>3, <2>4, RequestMoves
<1>5. CASE RefreshCaseLayout(a)
  <2>1. pcase' \in CaseRow
    BY <1>1, <1>5, CaseChanged DEF RefreshCaseLayout, SetCase
  <2>2. CaseTyped'
    BY <1>1, <1>2, <1>3, <1>5, <2>1 DEF RefreshCaseLayout, CaseTyped
  <2> QED BY <1>5, <2>2, ElsewhereKeeps DEF RefreshCaseLayout, KeepFiles
<1>6. CASE ResendEmail(a)
  <2>1. pcase' \in CaseRow
    BY <1>1, <1>6, CaseChanged DEF ResendEmail
  <2>2. CaseTyped'
    BY <1>1, <1>2, <1>3, <1>6, <2>1 DEF ResendEmail, CaseTyped
  <2> QED BY <1>6, <2>2, ElsewhereKeeps DEF ResendEmail, KeepFiles
<1>7. CASE UpdateCaseAnswers(a)
  <2>1. doing[a].answers \in Answers /\ doing[a].submits \in BOOLEAN
    BY <1>1, <1>7, StepIsOK DEF StepOK, UpdateCaseAnswers, CaseAt
  <2>2. PICK st : st = IF doing[a].submits THEN "SUBMITTED" ELSE pcase.st
    OBVIOUS
  <2>3. PICK row : row = [pcase EXCEPT !.answers = doing[a].answers]
    OBVIOUS
  <2>4. st \in Open \cup Closed
    BY <1>1, <2>2 DEF CaseRow, Closed
  <2>5. row \in CaseRow /\ [row EXCEPT !.st = st] \in CaseRow
    BY <1>1, <2>1, <2>3, <2>4, CaseChanged
  <2>6. pcase' = [row EXCEPT !.st = st]
    <3>1. pcase' = [pcase EXCEPT !.answers = doing[a].answers,
                                 !.st = IF doing[a].submits THEN "SUBMITTED" ELSE @]
      BY <1>7 DEF UpdateCaseAnswers
    <3> QED BY <1>1, <2>2, <2>3, <3>1 DEF CaseRow
  <2>7. CaseTyped'
    BY <1>1, <1>3, <1>7, <2>1, <2>5, <2>6 DEF UpdateCaseAnswers, CaseTyped
  <2> QED BY <1>1, <1>7, <2>7, IdleMoves DEF UpdateCaseAnswers, KeepFiles
<1>8. ASSUME NEW st \in PanelStatuses, UpdateCaseStatus(a, st) PROVE CasesInv'
  <2>1. pcase' \in CaseRow
    BY <1>1, <1>8, CaseChanged, CasesAssumption DEF UpdateCaseStatus, SetCase
  <2>2. CaseTyped'
    BY <1>1, <1>2, <1>3, <1>8, <2>1 DEF UpdateCaseStatus, CaseTyped
  <2> QED BY <1>8, <2>2, ElsewhereKeeps DEF UpdateCaseStatus, KeepFiles
<1>9. ASSUME NEW body \in Filled, ReadForUpdate(a, body) PROVE CasesInv'
  <2>1. CaseTyped'
    BY <1>1, <1>2, <1>3, <1>9 DEF ReadForUpdate, KeepCase, CaseTyped
  <2>2. PICK b \in BOOLEAN : b = (body \in Complete /\ pcase.st = "WAITING_FOR_CUSTOMER")
    OBVIOUS
  <2>3. PICK d : d = [pc |-> "update", answers |-> body, submits |-> b]
    OBVIOUS
  <2>4. StepOK(a, d) /\ d.pc # "add"
    BY <1>9, <2>2, <2>3 DEF StepOK, Holding, Filled
  <2>5. Go(a, d) /\ UNCHANGED <<jobs, runs, assets>>
    BY <1>9, <2>2, <2>3, Zenon DEF ReadForUpdate, KeepFiles
  <2> QED BY <1>1, <2>1, <2>4, <2>5, RequestMoves
<1> QED BY <1>4, <1>5, <1>6, <1>7, <1>8, <1>9

(* The template, the link, and the process of the API. *)
LEMMA ChangesKeep ==
    ASSUME CasesInv, EditTemplate \/ ExpireLink \/ ApiDies
    PROVE  CasesInv'
<1>1. CaseTyped /\ pcase \in CaseRow
  BY DEF CasesInv, CaseTyped
<1>2. \A k \in {"changes", "crashes"} : Spend(k) => spent' \in [Kinds -> Nat]
  BY <1>1, SpendTyped DEF Kinds
<1>3. CASE EditTemplate
  <2>1. CaseTyped'
    BY <1>1, <1>2, <1>3 DEF EditTemplate, CaseTyped
  <2> QED BY <1>3, <2>1, ElsewhereKeeps DEF EditTemplate, KeepFiles
<1>4. CASE ExpireLink
  <2>1. pcase' \in CaseRow
    BY <1>1, <1>4, CaseChanged DEF ExpireLink, SetCase
  <2>2. CaseTyped'
    BY <1>1, <1>2, <1>4, <2>1 DEF ExpireLink, CaseTyped
  <2> QED BY <1>4, <2>2, ElsewhereKeeps DEF ExpireLink, KeepFiles
<1>5. CASE ApiDies
  <2>1. CaseTyped'
    BY <1>1, <1>2, <1>5 DEF ApiDies, KeepCase, CaseTyped
  <2>2. DOMAIN doing' = Handlers /\ \A h \in Handlers : doing'[h] = Idle
    BY <1>5 DEF ApiDies
  <2>3. \A h : StepOK(h, Idle)'
    BY DEF StepOK, Idle, Holding
  <2>4. DoingTyped'
    BY <2>2, <2>3, IdleIsStep DEF DoingTyped
  <2> QED BY <1>5, <2>1, <2>4, WorkStays DEF ApiDies, KeepFiles, CasesInv
<1> QED BY <1>3, <1>4, <1>5

(* Jobs come and change; those that are active stay so. *)
LEMMA ActiveStays ==
    ASSUME CasesInv, DOMAIN jobs \subseteq DOMAIN jobs', UNCHANGED <<runs, assets>>,
           \A j \in DOMAIN jobs : /\ jobs'[j].kind = jobs[j].kind
                                  /\ jobs[j].queue = "active" => jobs'[j].queue = "active"
    PROVE  RunsTyped' /\ FilesTyped'
<1>1. Zips' = Zips /\ (HasZip' <=> HasZip) /\ \A i : Spared(i)' <=> Spared(i)
  BY DEF Zips, Files, HasZip, Spared
<1>2. ASSUME NEW r, RunOK(r) PROVE RunOK(r)'
  <2>1. r.pc # "idle" => "j" \in DOMAIN r /\ r.j \in DOMAIN jobs' /\ jobs'[r.j].queue = "active"
    BY <1>2 DEF RunOK
  <2>2. r.pc \in Packing => jobs'[r.j].kind = "package"
    BY <1>2 DEF RunOK, Packing
  <2> QED BY <1>1, <1>2, <2>1, <2>2 DEF RunOK
<1>3. RunsTyped'
  BY <1>2 DEF CasesInv, RunsTyped
<1> QED BY <1>1, <1>3 DEF CasesInv, FilesTyped

(* One request goes on while jobs come and change. *)
LEMMA DoingMoves ==
    ASSUME CasesInv, NEW h \in Handlers, NEW d, Go(h, d), StepOK(h, d)',
           d.pc = "add" => \A g \in Handlers \ {h} : doing[g].pc = "add" => doing[g].j # d.j,
           DOMAIN jobs \subseteq DOMAIN jobs',
           \A g \in Handlers \ {h} : doing[g].pc = "add" => jobs'[doing[g].j].queue = "none"
    PROVE  DoingTyped'
<1>1. /\ DOMAIN doing' = Handlers /\ doing'[h] = d
      /\ \A g \in Handlers \ {h} : doing'[g] = doing[g]
  BY DEF CasesInv, DoingTyped, Go
<1>2. \A g \in Handlers \ {h} : StepOK(g, doing[g])
  BY StepIsOK
<1>3. \A g \in Handlers \ {h} : StepOK(g, doing[g])'
  BY <1>1, <1>2 DEF StepOK
<1>4. \A g \in Handlers : StepOK(g, doing[g])'
  BY <1>1, <1>3
<1>5. \A f, g \in Handlers :
          doing'[f].pc = "add" /\ doing'[g].pc = "add" /\ doing'[f].j = doing'[g].j => f = g
  BY <1>1 DEF CasesInv, DoingTyped
<1> QED BY <1>1, <1>4, <1>5 DEF DoingTyped

LEMMA NewJobTyped ==
    ASSUME NEW kind \in {"package", "proof"}
    PROVE  /\ NewJob(kind) \in JobRow /\ NewJob(kind).queue = "none" /\ NewJob(kind).kind = kind
           /\ NewJob(kind).made < Attempts
<1>1. 0 \in 0..Attempts /\ 0 < Attempts
  BY CasesAssumption
<1>2. PICK r : r = NewJob(kind)
  OBVIOUS
<1>3. r \in JobRow
  BY <1>1, <1>2, Zenon DEF NewJob, JobRow
<1>4. r.queue = "none" /\ r.kind = kind /\ r.made = 0
  BY <1>2 DEF NewJob
<1> QED BY <1>1, <1>2, <1>3, <1>4

LEMMA CreateJobKeeps ==
    ASSUME CasesInv, NEW h \in Handlers, CreateJob(h)
    PROVE  CasesInv'
<1>1. CaseTyped /\ JobsTyped /\ jobs \in Seq(JobRow)
  BY DEF CasesInv, JobsTyped
<1>2. CaseTyped'
  BY <1>1, CaseTypedStays DEF CreateJob, KeepCase
<1>3. PICK kind \in {"package", "proof"} : jobs' = Append(jobs, NewJob(kind))
  BY DEF CreateJob
<1>4. PICK new : new = Len(jobs) + 1
  OBVIOUS
<1>5. /\ jobs' \in Seq(JobRow) /\ DOMAIN jobs' = DOMAIN jobs \cup {new} /\ new \notin DOMAIN jobs
      /\ jobs'[new].queue = "none" /\ jobs'[new].made < Attempts
      /\ \A j \in DOMAIN jobs : jobs'[j] = jobs[j]
  BY <1>1, <1>3, <1>4, NewJobTyped, SequenceGrows
<1>6. JobsTyped'
  BY <1>1, <1>5 DEF JobsTyped
<1>7. RunsTyped' /\ FilesTyped'
  BY <1>5, ActiveStays DEF CreateJob
<1>8. PICK d : d = [pc |-> "add", j |-> new]
  OBVIOUS
<1>9. Go(h, d)
  BY <1>4, <1>8 DEF CreateJob
<1>10. StepOK(h, d)'
  BY <1>5, <1>8 DEF StepOK, Holding
<1>11. \A g \in Handlers : doing[g].pc = "add" => /\ doing[g].j \in DOMAIN jobs
                                                  /\ jobs[doing[g].j].queue = "none"
  BY StepIsOK DEF StepOK
<1>12. DoingTyped'
  <2>1. DOMAIN jobs \subseteq DOMAIN jobs'
    BY <1>5
  <2>2. \A g \in Handlers \ {h} : doing[g].pc = "add" => doing[g].j # d.j
    BY <1>5, <1>8, <1>11
  <2>3. \A g \in Handlers \ {h} : doing[g].pc = "add" => jobs'[doing[g].j].queue = "none"
    BY <1>5, <1>11
  <2> QED BY <1>9, <1>10, <2>1, <2>2, <2>3, DoingMoves
<1> QED BY <1>2, <1>6, <1>7, <1>12 DEF CasesInv

LEMMA JobChanged ==
    ASSUME JobsTyped, NEW j \in DOMAIN jobs
    PROVE  /\ jobs[j] \in JobRow
           /\ DOMAIN [jobs EXCEPT ![j].queue = "waiting"] = DOMAIN jobs
           /\ [jobs EXCEPT ![j].queue = "waiting"] \in Seq(JobRow)
           /\ \A s \in {"PROCESSING", "FAILED"} :
                 [jobs EXCEPT ![j].st = s] \in Seq(JobRow) /\ DOMAIN [jobs EXCEPT ![j].st = s] = DOMAIN jobs
<1>1. jobs \in Seq(JobRow) /\ jobs[j] \in JobRow
  BY ElementsTyped DEF JobsTyped
<1>2. jobs \in [DOMAIN jobs -> JobRow]
  BY <1>1, ElementsTyped DEF JobsTyped
<1>3. PICK q : q = [jobs[j] EXCEPT !.queue = "waiting"]
  OBVIOUS
<1>4. q \in JobRow
  BY <1>1, <1>3 DEF JobRow
<1>5. [jobs EXCEPT ![j].queue = "waiting"] = [jobs EXCEPT ![j] = q]
  BY <1>3
<1>6. [jobs EXCEPT ![j].queue = "waiting"] \in [DOMAIN jobs -> JobRow]
  BY <1>2, <1>4, <1>5
<1>7. ASSUME NEW s \in {"PROCESSING", "FAILED"}
      PROVE  [jobs EXCEPT ![j].st = s] \in [DOMAIN jobs -> JobRow]
  <2>1. PICK r : r = [jobs[j] EXCEPT !.st = s]
    OBVIOUS
  <2>2. r \in JobRow
    BY <1>1, <2>1 DEF JobRow
  <2>3. [jobs EXCEPT ![j].st = s] = [jobs EXCEPT ![j] = r]
    BY <2>1
  <2> QED BY <1>2, <2>2, <2>3
<1> QED BY <1>1, <1>6, <1>7, SequenceKept

LEMMA QueueKeeps ==
    ASSUME CasesInv, NEW h \in Handlers, AddJob(h) \/ QueueFails(h)
    PROVE  CasesInv'
<1>1. CaseTyped /\ JobsTyped /\ jobs \in Seq(JobRow) /\ StepOK(h, doing[h])
  BY StepIsOK DEF CasesInv, JobsTyped
<1>2. PICK j : j = doing[h].j
  OBVIOUS
<1>3. j \in DOMAIN jobs /\ "j" \in DOMAIN doing[h] /\ "pc" \in DOMAIN doing[h]
  BY <1>1, <1>2 DEF AddJob, QueueFails, CaseAt, StepOK
<1>4. \A g \in Handlers : doing[g].pc = "add" => /\ doing[g].j \in DOMAIN jobs
                                                 /\ jobs[doing[g].j].queue = "none"
  BY StepIsOK DEF StepOK
<1>5. jobs[j] \in JobRow
  BY <1>1, <1>3, JobChanged
<1>6. CASE AddJob(h)
  <2>1. CaseTyped'
    BY <1>1, <1>6, CaseTypedStays DEF AddJob, KeepCase
  <2>2. jobs' = [jobs EXCEPT ![j].queue = "waiting"] /\ doing[h].pc = "add"
    BY <1>2, <1>6 DEF AddJob, CaseAt
  <2>3. /\ jobs' \in Seq(JobRow) /\ DOMAIN jobs' = DOMAIN jobs
        /\ \A i \in DOMAIN jobs \ {j} : jobs'[i] = jobs[i]
        /\ jobs'[j].kind = jobs[j].kind /\ jobs'[j].made = jobs[j].made
        /\ jobs'[j].queue = "waiting" /\ jobs[j].queue = "none"
    <3>1. jobs' \in Seq(JobRow) /\ DOMAIN jobs' = DOMAIN jobs
      BY <1>1, <1>3, <2>2, JobChanged
    <3>2. PICK q : q = [jobs[j] EXCEPT !.queue = "waiting"]
      OBVIOUS
    <3>3. q.kind = jobs[j].kind /\ q.made = jobs[j].made /\ q.queue = "waiting"
      BY <1>5, <3>2 DEF JobRow
    <3>4. jobs' = [jobs EXCEPT ![j] = q]
      BY <2>2, <3>2
    <3>5. jobs'[j] = q /\ \A i \in DOMAIN jobs \ {j} : jobs'[i] = jobs[i]
      BY <1>3, <3>4
    <3>6. jobs[j].queue = "none"
      BY <1>2, <1>4, <2>2
    <3> QED BY <3>1, <3>3, <3>5, <3>6
  <2>4. JobsTyped'
    <3>1. \A i \in DOMAIN jobs' : jobs'[i].queue \notin {"gone", "failed"} => jobs'[i].made < Attempts
      BY <1>1, <1>3, <2>3 DEF JobsTyped
    <3> QED BY <2>3, <3>1 DEF JobsTyped
  <2>5. RunsTyped' /\ FilesTyped'
    <3>1. DOMAIN jobs \subseteq DOMAIN jobs' /\ UNCHANGED <<runs, assets>>
      BY <1>6, <2>3 DEF AddJob
    <3>2. \A i \in DOMAIN jobs : /\ jobs'[i].kind = jobs[i].kind
                                 /\ jobs[i].queue = "active" => jobs'[i].queue = "active"
      BY <2>3
    <3> QED BY <3>1, <3>2, ActiveStays
  <2>6. PICK d : Go(h, d) /\ (d = [doing[h] EXCEPT !.pc = "sent"] \/ d = Idle)
    BY <1>6 DEF AddJob, To
  <2>7. StepOK(h, d)' /\ d.pc # "add"
    <3>1. CASE d = Idle
      BY <3>1 DEF Idle, StepOK, Holding
    <3>2. CASE d = [doing[h] EXCEPT !.pc = "sent"]
      <4>1. "pc" \in DOMAIN d /\ "j" \in DOMAIN d /\ d.pc = "sent" /\ d.j = j
        BY <1>2, <1>3, <3>2
      <4> QED BY <1>3, <2>3, <4>1 DEF StepOK, Holding
    <3> QED BY <2>6, <3>1, <3>2
  <2>8. \A g \in Handlers \ {h} : doing[g].pc = "add" => jobs'[doing[g].j].queue = "none"
    <3>1. \A g \in Handlers \ {h} : doing[g].pc = "add" => doing[g].j # j
      BY <1>2, <2>2 DEF CasesInv, DoingTyped
    <3> QED BY <1>4, <2>3, <3>1
  <2>9. DoingTyped'
    BY <2>3, <2>6, <2>7, <2>8, DoingMoves
  <2> QED BY <2>1, <2>4, <2>5, <2>9 DEF CasesInv
<1>7. CASE QueueFails(h)
  <2>1. CaseTyped'
    BY <1>1, <1>7, SpendTyped DEF QueueFails, KeepCase, CaseTyped, Kinds
  <2>2. /\ jobs' \in Seq(JobRow) /\ DOMAIN jobs' = DOMAIN jobs
        /\ \A i \in DOMAIN jobs : /\ jobs'[i].kind = jobs[i].kind /\ jobs'[i].made = jobs[i].made
                                  /\ jobs'[i].queue = jobs[i].queue
    <3>1. CASE UNCHANGED jobs
      BY <1>1, <3>1
    <3>2. CASE jobs' = [jobs EXCEPT ![j].st = "FAILED"]
      <4>1. jobs' \in Seq(JobRow) /\ DOMAIN jobs' = DOMAIN jobs
        BY <1>1, <1>3, <3>2, JobChanged
      <4>2. PICK q : q = [jobs[j] EXCEPT !.st = "FAILED"]
        OBVIOUS
      <4>3. q.kind = jobs[j].kind /\ q.made = jobs[j].made /\ q.queue = jobs[j].queue
        BY <1>5, <4>2 DEF JobRow
      <4>4. jobs' = [jobs EXCEPT ![j] = q]
        BY <3>2, <4>2
      <4> QED BY <1>3, <4>1, <4>3, <4>4
    <3> QED BY <1>2, <1>7, <3>1, <3>2 DEF QueueFails
  <2>3. JobsTyped'
    <3>1. \A i \in DOMAIN jobs' : jobs'[i].queue \notin {"gone", "failed"} => jobs'[i].made < Attempts
      BY <1>1, <2>2 DEF JobsTyped
    <3> QED BY <2>2, <3>1 DEF JobsTyped
  <2>4. RunsTyped' /\ FilesTyped'
    <3>1. DOMAIN jobs \subseteq DOMAIN jobs' /\ UNCHANGED <<runs, assets>>
      BY <1>7, <2>2 DEF QueueFails
    <3> QED BY <2>2, <3>1, ActiveStays
  <2>5. PICK d : Go(h, d) /\ (d = [doing[h] EXCEPT !.pc = "proof"] \/ d = Idle)
    BY <1>7 DEF QueueFails, AfterPackage, To
  <2>6. StepOK(h, d)' /\ d.pc # "add"
    <3>1. CASE d = Idle
      BY <3>1 DEF Idle, StepOK, Holding
    <3>2. CASE d = [doing[h] EXCEPT !.pc = "proof"]
      <4>1. "pc" \in DOMAIN d /\ d.pc = "proof"
        BY <1>3, <3>2
      <4> QED BY <4>1 DEF StepOK, Holding
    <3> QED BY <2>5, <3>1, <3>2
  <2>7. DoingTyped'
    <3>1. \A g \in Handlers \ {h} : doing[g].pc = "add" => jobs'[doing[g].j].queue = "none"
      BY <1>4, <2>2
    <3> QED BY <2>2, <2>5, <2>6, <3>1, DoingMoves
  <2> QED BY <2>1, <2>3, <2>4, <2>7 DEF CasesInv
<1> QED BY <1>6, <1>7

(* A request of the panel tells a row, or has a failed job taken back.     *)
LEMMA PanelsJobMoves ==
    ASSUME CasesInv, CaseTyped', NEW a \in Admins, NEW d, Go(a, d), d = Idle \/ d.pc = "retried",
           StepOK(a, d), NEW j \in DOMAIN jobs, NEW q \in JobRow, jobs' = [jobs EXCEPT ![j] = q],
           q.kind = jobs[j].kind,
           q.queue = jobs[j].queue \/ (jobs[j].queue = "failed" /\ q.queue = "waiting"),
           q.queue \notin {"gone", "failed"} => q.made < Attempts, UNCHANGED <<runs, assets>>
    PROVE  CasesInv'
<1>1. JobsTyped /\ jobs \in Seq(JobRow) /\ a \in Handlers
  BY DEF CasesInv, JobsTyped, Handlers
<1>2. jobs \in [DOMAIN jobs -> JobRow]
  BY <1>1, ElementsTyped
<1>3. jobs' \in Seq(JobRow) /\ DOMAIN jobs' = DOMAIN jobs
  <2>1. jobs' \in [DOMAIN jobs -> JobRow]
    BY <1>2
  <2> QED BY <1>1, <2>1, SequenceKept
<1>4. jobs'[j] = q /\ \A i \in DOMAIN jobs \ {j} : jobs'[i] = jobs[i]
  OBVIOUS
<1>5. JobsTyped'
  <2>1. \A i \in DOMAIN jobs' : jobs'[i].queue \notin {"gone", "failed"} => jobs'[i].made < Attempts
    BY <1>1, <1>3, <1>4 DEF JobsTyped
  <2> QED BY <1>3, <2>1 DEF JobsTyped
<1>6. \A i \in DOMAIN jobs : /\ jobs'[i].kind = jobs[i].kind
                             /\ jobs[i].queue \in {"none", "active"} => jobs'[i].queue = jobs[i].queue
  BY <1>4
<1>7. RunsTyped' /\ FilesTyped'
  BY <1>3, <1>6, ActiveStays
<1>8. DoingTyped'
  <2>1. StepOK(a, d)' /\ d.pc # "add"
    BY <1>3, IdleIsStep DEF StepOK
  <2>2. \A g \in Handlers \ {a} : doing[g].pc = "add" => jobs'[doing[g].j].queue = "none"
    <3>1. \A g \in Handlers : doing[g].pc = "add" => /\ doing[g].j \in DOMAIN jobs
                                                     /\ jobs[doing[g].j].queue = "none"
      BY StepIsOK DEF StepOK
    <3> QED BY <1>6, <3>1
  <2> QED BY <1>1, <1>3, <2>1, <2>2, DoingMoves
<1> QED BY <1>5, <1>7, <1>8 DEF CasesInv

LEMMA RetryKeeps ==
    ASSUME CasesInv, NEW a \in Admins, NEW row \in DOMAIN jobs, NEW j \in DOMAIN jobs,
           RetryJob(a, row, j)
    PROVE  CasesInv'
<1>1. CaseTyped'
  <2>1. spent' \in [Kinds -> Nat]
    BY SpendTyped DEF RetryJob, CasesInv, Kinds
  <2> QED BY <2>1 DEF RetryJob, KeepCase, CasesInv, CaseTyped
<1>2. jobs[j] \in JobRow /\ jobs[j].queue = "failed" /\ Attempts \in Nat \ {0}
  BY JobChanged, CasesAssumption DEF RetryJob, CasesInv
<1>3. PICK left : left = Attempts - 1
  OBVIOUS
<1>4. left \in 0..Attempts /\ left < Attempts
  BY <1>2, <1>3
<1>5. PICK q : q = [jobs[j] EXCEPT !.queue = "waiting", !.made = left]
  OBVIOUS
<1>6. q \in JobRow /\ q.kind = jobs[j].kind /\ q.queue = "waiting" /\ q.made = left
  <2>1. PICK half : half = [jobs[j] EXCEPT !.queue = "waiting"]
    OBVIOUS
  <2>2. half \in JobRow /\ half.kind = jobs[j].kind /\ half.queue = "waiting"
    BY <1>2, <2>1 DEF JobRow
  <2>3. q = [half EXCEPT !.made = left]
    BY <1>5, <2>1
  <2> QED BY <1>4, <2>2, <2>3 DEF JobRow
<1>7. jobs' = [jobs EXCEPT ![j] = q]
  <2>1. jobs' = [jobs EXCEPT ![j].queue = "waiting", ![j].made = left]
    BY <1>3 DEF RetryJob
  <2> QED BY <1>5, <2>1
<1>8. PICK d : d = [pc |-> "retried", j |-> row]
  OBVIOUS
<1>9. Go(a, d) /\ d.pc = "retried" /\ StepOK(a, d)
  BY <1>8 DEF RetryJob, StepOK, Holding
<1> QED BY <1>1, <1>2, <1>4, <1>6, <1>7, <1>9, PanelsJobMoves DEF RetryJob

LEMMA MarkRetriedKeeps ==
    ASSUME CasesInv, NEW a \in Admins, MarkRetried(a)
    PROVE  CasesInv'
<1>1. CaseTyped'
  BY CaseTypedStays DEF MarkRetried, KeepCase, CasesInv
<1>2. PICK j : j = doing[a].j
  OBVIOUS
<1>3. j \in DOMAIN jobs
  BY <1>2, StepIsOK DEF MarkRetried, CaseAt, StepOK, Handlers
<1>4. jobs[j] \in JobRow /\ (jobs[j].queue \notin {"gone", "failed"} => jobs[j].made < Attempts)
  BY <1>3, JobChanged DEF CasesInv, JobsTyped
<1>5. PICK q : q = [jobs[j] EXCEPT !.st = "PENDING"]
  OBVIOUS
<1>6. q \in JobRow /\ q.kind = jobs[j].kind /\ q.queue = jobs[j].queue /\ q.made = jobs[j].made
  BY <1>4, <1>5 DEF JobRow
<1>7. jobs' = [jobs EXCEPT ![j] = q]
  BY <1>2, <1>5 DEF MarkRetried
<1>8. Go(a, Idle) /\ StepOK(a, Idle)
  BY IdleIsStep DEF MarkRetried
<1> QED BY <1>1, <1>3, <1>4, <1>6, <1>7, <1>8, PanelsJobMoves DEF MarkRetried

(* One worker goes on, with a job of its own; files may be added, and may  *)
(* be deleted.                                                             *)
LEMMA WorkerMoves ==
    ASSUME CasesInv, NEW w \in Workers, NEW r, runs' = [runs EXCEPT ![w] = r], RunOK(r)',
           NEW j \in DOMAIN jobs, jobs[j].queue # "none", r.pc # "idle" => r.j = j,
           \A v \in Workers \ {w} : runs[v].pc # "idle" => runs[v].j # j,
           OtherJobsWait(j), FilesGrow, UNCHANGED doing
    PROVE  RunsTyped' /\ DoingTyped'
<1>1. /\ DOMAIN runs' = Workers /\ runs'[w] = r
      /\ \A v \in Workers \ {w} : runs'[v] = runs[v]
  BY DEF CasesInv, RunsTyped
<1>2. ASSUME NEW v \in Workers \ {w} PROVE RunOK(runs[v])'
  <2>1. RunOK(runs[v])
    BY DEF CasesInv, RunsTyped
  <2>2. runs'[v] = runs[v]
    BY <1>1
  <2>3. runs[v].pc # "idle" => /\ "j" \in DOMAIN runs[v] /\ runs[v].j \in DOMAIN jobs'
                               /\ jobs'[runs[v].j].queue = "active"
    BY <2>1 DEF RunOK, OtherJobsWait
  <2>4. runs[v].pc \in Packing => jobs'[runs[v].j].kind = "package"
    BY <2>1 DEF RunOK, Packing, OtherJobsWait
  <2>5. runs[v].pc \in Listed => "older" \in DOMAIN runs[v] /\ runs[v].older \subseteq DOMAIN assets'
    BY <2>1 DEF RunOK, FilesGrow
  <2>6. runs[v].pc \in {"saveProof", "dropProofs"} => runs[v].older \cap Zips' = {}
    BY <2>1 DEF RunOK, Listed, FilesGrow
  <2> QED BY <2>1, <2>2, <2>3, <2>4, <2>5, <2>6 DEF RunOK
<1>3. \A v \in Workers : RunOK(runs[v])'
  BY <1>1, <1>2
<1>4. \A u, v \in Workers :
          runs'[u].pc # "idle" /\ runs'[v].pc # "idle" /\ runs'[u].j = runs'[v].j => u = v
  BY <1>1 DEF CasesInv, RunsTyped
<1>5. RunsTyped'
  BY <1>1, <1>3, <1>4 DEF RunsTyped
<1>6. \A h \in Handlers : StepOK(h, doing[h])'
  BY StepIsOK DEF StepOK, OtherJobsWait
<1>7. DoingTyped'
  BY <1>6 DEF CasesInv, DoingTyped
<1> QED BY <1>5, <1>7

(* What a worker that is not idle holds. *)
LEMMA RunHolds ==
    ASSUME CasesInv, NEW w \in Workers, runs[w].pc # "idle"
    PROVE  /\ RunOK(runs[w]) /\ runs[w].j \in DOMAIN jobs /\ jobs[runs[w].j].queue = "active"
           /\ \A v \in Workers \ {w} : runs[v].pc # "idle" => runs[v].j # runs[w].j
           /\ jobs[runs[w].j].made < Attempts /\ jobs[runs[w].j] \in JobRow
<1>1. RunOK(runs[w]) /\ \A v \in Workers \ {w} : runs[v].pc # "idle" => runs[v].j # runs[w].j
  BY DEF CasesInv, RunsTyped
<1>2. runs[w].j \in DOMAIN jobs /\ jobs[runs[w].j].queue = "active"
  BY <1>1 DEF RunOK
<1>3. jobs[runs[w].j].made < Attempts
  BY <1>2 DEF CasesInv, JobsTyped
<1>4. jobs[runs[w].j] \in JobRow
  BY <1>2, JobChanged DEF CasesInv
<1> QED BY <1>1, <1>2, <1>3, <1>4

(* A job gets another status and another place in the queue. *)
LEMMA JobMoves ==
    ASSUME JobsTyped, NEW j \in DOMAIN jobs, jobs[j].made < Attempts,
           NEW st \in {"PENDING", "PROCESSING", "COMPLETED", "FAILED"},
           NEW q \in {"none", "waiting", "active", "gone", "failed"},
           jobs' = [jobs EXCEPT ![j] = [@ EXCEPT !.st = st, !.queue = q]]
    PROVE  JobsTyped' /\ OtherJobsWait(j) /\ jobs'[j].queue = q
<1>1. jobs \in Seq(JobRow) /\ jobs[j] \in JobRow /\ jobs \in [DOMAIN jobs -> JobRow]
  BY ElementsTyped DEF JobsTyped
<1>2. PICK row : row = [jobs[j] EXCEPT !.st = st, !.queue = q]
  OBVIOUS
<1>3. row \in JobRow
  <2>1. PICK half : half = [jobs[j] EXCEPT !.st = st]
    OBVIOUS
  <2>2. half \in JobRow
    BY <1>1, <2>1 DEF JobRow
  <2>3. [half EXCEPT !.queue = q] \in JobRow
    BY <2>2 DEF JobRow
  <2>4. row = [half EXCEPT !.queue = q]
    BY <1>2, <2>1
  <2> QED BY <2>3, <2>4
<1>4. row.kind = jobs[j].kind /\ row.queue = q /\ row.made = jobs[j].made
  BY <1>1, <1>2 DEF JobRow
<1>5. jobs' = [jobs EXCEPT ![j] = row]
  BY <1>2
<1>6. jobs' \in Seq(JobRow) /\ DOMAIN jobs' = DOMAIN jobs
  <2>1. jobs' \in [DOMAIN jobs -> JobRow]
    BY <1>1, <1>3, <1>5
  <2> QED BY <1>1, <2>1, SequenceKept
<1>7. jobs'[j] = row /\ \A i \in DOMAIN jobs \ {j} : jobs'[i] = jobs[i]
  BY <1>5
<1>8. \A i \in DOMAIN jobs' : jobs'[i].queue \notin {"gone", "failed"} => jobs'[i].made < Attempts
  BY <1>4, <1>6, <1>7 DEF JobsTyped
<1>9. JobsTyped'
  BY <1>6, <1>8 DEF JobsTyped
<1>10. \A i \in DOMAIN jobs : jobs'[i].kind = jobs[i].kind
  BY <1>4, <1>7
<1>11. OtherJobsWait(j)
  BY <1>6, <1>7, <1>10 DEF OtherJobsWait
<1> QED BY <1>4, <1>7, <1>9, <1>11

(* The files stay while a worker comes to a statement that is not the      *)
(* clean-up.                                                               *)
LEMMA FilesStay ==
    ASSUME CasesInv, NEW w \in Workers, NEW r, runs' = [runs EXCEPT ![w] = r],
           r.pc # "clean", UNCHANGED assets
    PROVE  FilesTyped' /\ Zips' = Zips /\ FilesGrow
<1>1. Zips' = Zips /\ (HasZip' <=> HasZip)
  BY DEF Zips, Files, HasZip
<1>2. runs'[w] = r /\ \A v \in Workers \ {w} : runs'[v] = runs[v]
  BY DEF CasesInv, RunsTyped
<1>3. \A i : Spared(i) => Spared(i)'
  BY <1>2 DEF Spared
<1> QED BY <1>1, <1>3 DEF CasesInv, FilesTyped, FilesGrow

LEMMA TakeJobKeeps ==
    ASSUME CasesInv, NEW w \in Workers, NEW j \in DOMAIN jobs, TakeJob(w, j)
    PROVE  CasesInv'
<1>1. CaseTyped /\ JobsTyped /\ jobs[j] \in JobRow /\ jobs[j].queue = "waiting"
  BY JobChanged DEF CasesInv, TakeJob
<1>2. CaseTyped'
  BY <1>1, CaseTypedStays DEF TakeJob, KeepCase
<1>3. jobs[j].made < Attempts
  BY <1>1 DEF JobsTyped
<1>4. jobs' = [jobs EXCEPT ![j] = [@ EXCEPT !.st = "PROCESSING", !.queue = "active"]]
  <2>1. jobs' = [jobs EXCEPT ![j].queue = "active", ![j].st = "PROCESSING"]
    BY DEF TakeJob
  <2> QED BY <1>1, <2>1 DEF JobRow
<1>5. JobsTyped' /\ OtherJobsWait(j) /\ jobs'[j].queue = "active"
  BY <1>1, <1>3, <1>4, JobMoves
<1>6. PICK r : r = [pc |-> jobs[j].kind, j |-> j]
  OBVIOUS
<1>7. runs' = [runs EXCEPT ![w] = r] /\ UNCHANGED <<doing, assets>>
  BY <1>6 DEF TakeJob
<1>8. r.pc \in {"package", "proof"} /\ r.pc = jobs[j].kind /\ r.j = j /\ {"pc", "j"} \subseteq DOMAIN r
  BY <1>1, <1>6 DEF JobRow
<1>9. RunOK(r)'
  BY <1>5, <1>8 DEF RunOK, Packing, Proofing, Rendered, Listed, OtherJobsWait
<1>10. FilesTyped' /\ FilesGrow
  BY <1>7, <1>8, FilesStay
<1>11. \A v \in Workers \ {w} : runs[v].pc # "idle" => runs[v].j # j
  BY <1>1, RunHolds
<1>12. RunsTyped' /\ DoingTyped'
  <2>1. jobs[j].queue # "none" /\ (r.pc # "idle" => r.j = j) /\ UNCHANGED doing
    BY <1>1, <1>7, <1>8
  <2> QED BY <1>5, <1>7, <1>9, <1>10, <1>11, <2>1, WorkerMoves
<1> QED BY <1>2, <1>5, <1>10, <1>12 DEF CasesInv

(* A worker goes on with its job, whatever becomes of that job. *)
LEMMA WorkerGoesOn ==
    ASSUME CasesInv, NEW w \in Workers, runs[w].pc # "idle",
           NEW r, runs' = [runs EXCEPT ![w] = r], RunOK(r)', r.pc # "idle" => r.j = runs[w].j,
           JobsTyped', OtherJobsWait(runs[w].j), FilesTyped', FilesGrow, CaseTyped', UNCHANGED doing
    PROVE  CasesInv'
<1>1. /\ runs[w].j \in DOMAIN jobs /\ jobs[runs[w].j].queue # "none"
      /\ \A v \in Workers \ {w} : runs[v].pc # "idle" => runs[v].j # runs[w].j
  BY RunHolds
<1>2. RunsTyped' /\ DoingTyped'
  BY <1>1, WorkerMoves
<1> QED BY <1>2 DEF CasesInv

(* A worker leaves: its job is done, or was. *)
LEMMA IdleRunIsOK == RunOK(Idle)' /\ Idle.pc = "idle"
BY DEF RunOK, Idle, Packing, Proofing, Rendered, Listed

LEMMA ElementsOfPackages ==
    ASSUME CasesInv PROVE Files(PackageTypes) \subseteq DOMAIN assets /\ Files({"proof"}) \subseteq DOMAIN assets
                          /\ Files({"proof"}) \cap Zips = {}
BY DEF Files, Zips

LEMMA StartPackageKeeps ==
    ASSUME CasesInv, NEW w \in Workers, StartPackage(w)
    PROVE  CasesInv'
<1>1. /\ CaseTyped /\ JobsTyped /\ runs[w].pc = "package" /\ UNCHANGED <<assets, doing>>
  BY DEF CasesInv, StartPackage, RunAt
<1>2. CaseTyped'
  BY <1>1, CaseTypedStays DEF StartPackage, KeepCase
<1>3. PICK j : j = runs[w].j
  OBVIOUS
<1>4. /\ j \in DOMAIN jobs /\ jobs[j].queue = "active" /\ jobs[j].made < Attempts
      /\ jobs[j] \in JobRow /\ jobs[j].kind = "package"
  BY <1>1, <1>3, RunHolds DEF RunOK, Packing
<1>5. jobs' = [jobs EXCEPT ![j] = [@ EXCEPT !.st = "PROCESSING", !.queue = "active"]]
  <2>1. jobs' = [jobs EXCEPT ![j].st = "PROCESSING"]
    BY <1>3 DEF StartPackage
  <2>2. [jobs[j] EXCEPT !.st = "PROCESSING"] = [jobs[j] EXCEPT !.st = "PROCESSING", !.queue = "active"]
    BY <1>4 DEF JobRow
  <2> QED BY <2>1, <2>2
<1>6. JobsTyped' /\ OtherJobsWait(j) /\ jobs'[j].queue = "active"
  BY <1>1, <1>4, <1>5, JobMoves
<1>7. PICK pc : pc = IF Fits(Design) THEN "files" ELSE "refuse"
  OBVIOUS
<1>8. pc \in {"files", "refuse"}
  BY <1>7
<1>9. PICK r : r = [pc |-> pc, j |-> j, design |-> Design, older |-> Files(PackageTypes)]
  OBVIOUS
<1>10. runs' = [runs EXCEPT ![w] = r]
  BY <1>3, <1>7, <1>9, Zenon DEF StartPackage
<1>11. /\ r.pc = pc /\ r.j = j /\ r.design = Design /\ r.older = Files(PackageTypes)
       /\ DOMAIN r = {"pc", "j", "design", "older"}
  BY <1>9
<1>12. r.design \in Designs /\ r.older \subseteq DOMAIN assets'
  BY <1>1, <1>11, DesignTyped, ElementsOfPackages
<1>13. RunOK(r)'
  BY <1>4, <1>6, <1>8, <1>11, <1>12 DEF RunOK, Packing, Proofing, Rendered, Listed, OtherJobsWait
<1>14. FilesTyped' /\ FilesGrow
  BY <1>1, <1>8, <1>10, <1>11, FilesStay
<1> QED BY <1>1, <1>2, <1>3, <1>6, <1>10, <1>11, <1>13, <1>14, WorkerGoesOn

(* A worker goes to another statement, and the jobs stay. *)
LEMMA RunToIsOK ==
    ASSUME CasesInv, NEW w \in Workers, runs[w].pc # "idle", NEW pc, RunTo(w, pc),
           LeadsTo(runs[w].pc, pc), FilesGrow, OtherJobsWait(runs[w].j),
           pc = "dropProofs" => runs[w].pc = "saveProof", pc # "saveProof",
           jobs'[runs[w].j].queue = "active"
    PROVE  \E r : RunOK(r)' /\ runs' = [runs EXCEPT ![w] = r] /\ r.j = runs[w].j /\ r.pc = pc
<1>1. PICK r : r = [runs[w] EXCEPT !.pc = pc]
  OBVIOUS
<1>2. RunOK(runs[w])
  BY RunHolds
<1>3. /\ DOMAIN r = DOMAIN runs[w] /\ r.pc = pc
      /\ \A x \in DOMAIN runs[w] \ {"pc"} : r[x] = runs[w][x]
  BY <1>1, <1>2 DEF RunOK
<1>4. "j" \in DOMAIN r /\ r.j = runs[w].j /\ r.j \in DOMAIN jobs
  BY <1>2, <1>3 DEF RunOK
<1>5. runs' = [runs EXCEPT ![w] = r]
  BY <1>1 DEF RunTo
<1>6. pc \in Packing => jobs'[r.j].kind = "package"
  BY <1>2, <1>4 DEF RunOK, OtherJobsWait, LeadsTo
<1>7. pc \in Rendered => "design" \in DOMAIN r /\ r.design \in Designs
  BY <1>2, <1>3 DEF RunOK, LeadsTo
<1>8. pc \in Listed => "older" \in DOMAIN r /\ r.older = runs[w].older /\ r.older \subseteq DOMAIN assets'
  BY <1>2, <1>3 DEF RunOK, LeadsTo, FilesGrow
<1>9. pc \in {"saveProof", "dropProofs"} => r.older \cap Zips' = {}
  BY <1>2, <1>8 DEF Listed, RunOK, FilesGrow
<1>10. RunOK(r)'
  BY <1>2, <1>3, <1>4, <1>6, <1>7, <1>8, <1>9 DEF RunOK, OtherJobsWait, LeadsTo
<1> QED BY <1>3, <1>4, <1>5, <1>10

(* A package that fails: the row of its job is told, the case is opened.   *)
LEMMA FailPackageKeeps ==
    ASSUME CasesInv, NEW w \in Workers, runs[w].pc # "idle", FailPackage(w), spent' \in [Kinds -> Nat],
           UNCHANGED <<rows, layout, preview, doing, assets>>
    PROVE  CasesInv'
<1>1. CaseTyped /\ JobsTyped /\ pcase \in CaseRow
  BY DEF CasesInv, CaseTyped
<1>2. CaseTyped'
  <2>1. pcase' \in CaseRow
    BY <1>1, CaseChanged DEF FailPackage, SetCase, Open
  <2> QED BY <1>1, <2>1 DEF CaseTyped
<1>3. PICK j : j = runs[w].j
  OBVIOUS
<1>4. /\ j \in DOMAIN jobs /\ jobs[j].queue = "active" /\ jobs[j].made < Attempts /\ jobs[j] \in JobRow
  BY <1>3, RunHolds
<1>5. jobs' = [jobs EXCEPT ![j] = [@ EXCEPT !.st = "FAILED", !.queue = "active"]]
  <2>1. jobs' = [jobs EXCEPT ![j].st = "FAILED"]
    BY <1>3 DEF FailPackage
  <2>2. [jobs[j] EXCEPT !.st = "FAILED"] = [jobs[j] EXCEPT !.st = "FAILED", !.queue = "active"]
    BY <1>4 DEF JobRow
  <2> QED BY <2>1, <2>2
<1>6. JobsTyped' /\ OtherJobsWait(j) /\ jobs'[j].queue = "active"
  BY <1>1, <1>4, <1>5, JobMoves
<1>7. RunTo(w, "catch")
  BY DEF FailPackage
<1>8. /\ LeadsTo(runs[w].pc, "catch") /\ "catch" # "saveProof"
      /\ "catch" = "dropProofs" => runs[w].pc = "saveProof"
  BY DEF LeadsTo, Packing, Rendered, Listed
<1>9. PICK r : RunOK(r)' /\ runs' = [runs EXCEPT ![w] = r] /\ r.j = runs[w].j /\ r.pc = "catch"
  <2>1. FilesGrow
    BY DEF Zips, Files, FilesGrow
  <2>2. OtherJobsWait(runs[w].j) /\ jobs'[runs[w].j].queue = "active"
    BY <1>3, <1>6
  <2> QED BY <1>7, <1>8, <2>1, <2>2, RunToIsOK
<1>10. FilesTyped' /\ FilesGrow
  BY <1>9, FilesStay
<1> QED BY <1>2, <1>3, <1>6, <1>9, <1>10, WorkerGoesOn

LEMMA RefuseKeeps ==
    ASSUME CasesInv, NEW w \in Workers, RefusePackage(w)
    PROVE  CasesInv'
<1>1. runs[w].pc # "idle" /\ spent' \in [Kinds -> Nat]
  BY DEF RefusePackage, RunAt, CasesInv, CaseTyped
<1> QED BY <1>1, FailPackageKeeps DEF RefusePackage

(* Rendering the proof, listing the older ones. *)
LEMMA ProofGoesOn ==
    ASSUME CasesInv, NEW w \in Workers, RenderProof(w) \/ ListProofs(w)
    PROVE  CasesInv'
<1>1. CaseTyped /\ JobsTyped /\ runs[w].pc \in {"proof", "listProofs"} /\ UNCHANGED <<jobs, assets, doing>>
  BY DEF CasesInv, RenderProof, ListProofs, RunAt
<1>2. CaseTyped' /\ JobsTyped' /\ OtherJobsWait(runs[w].j)
  BY <1>1, CaseTypedStays DEF RenderProof, ListProofs, KeepCase, JobsTyped, OtherJobsWait
<1>3. PICK j : j = runs[w].j
  OBVIOUS
<1>4. j \in DOMAIN jobs /\ jobs[j].queue = "active" /\ RunOK(runs[w])
  BY <1>1, <1>3, RunHolds
<1>5. CASE RenderProof(w)
  <2>1. PICK r : r = [pc |-> "listProofs", j |-> j, design |-> Design]
    OBVIOUS
  <2>2. runs' = [runs EXCEPT ![w] = r]
    BY <1>3, <1>5, <2>1, Zenon DEF RenderProof
  <2>3. r.pc = "listProofs" /\ r.j = j /\ r.design \in Designs /\ DOMAIN r = {"pc", "j", "design"}
    BY <1>1, <2>1, DesignTyped
  <2>4. RunOK(r)'
    BY <1>1, <1>4, <2>3 DEF RunOK, Packing, Proofing, Rendered, Listed
  <2>5. FilesTyped' /\ FilesGrow
    BY <1>1, <2>2, <2>3, FilesStay
  <2> QED BY <1>1, <1>2, <1>3, <2>2, <2>3, <2>4, <2>5, WorkerGoesOn
<1>6. CASE ListProofs(w)
  <2>1. PICK r : r = [pc |-> "saveProof", j |-> j, design |-> runs[w].design, older |-> Files({"proof"})]
    OBVIOUS
  <2>2. runs' = [runs EXCEPT ![w] = r]
    BY <1>3, <1>6, <2>1, Zenon DEF ListProofs
  <2>3. runs[w].design \in Designs
    BY <1>4, <1>6 DEF ListProofs, RunAt, RunOK, Rendered
  <2>4. /\ r.pc = "saveProof" /\ r.j = j /\ r.design \in Designs /\ r.older = Files({"proof"})
        /\ DOMAIN r = {"pc", "j", "design", "older"}
    BY <2>1, <2>3
  <2>5. FilesTyped' /\ FilesGrow /\ Zips' = Zips
    BY <1>1, <2>2, <2>4, FilesStay
  <2>6. r.older \subseteq DOMAIN assets' /\ r.older \cap Zips' = {}
    BY <1>1, <2>4, <2>5, ElementsOfPackages
  <2>7. RunOK(r)'
    BY <1>1, <1>4, <2>4, <2>6 DEF RunOK, Packing, Proofing, Rendered, Listed
  <2> QED BY <1>1, <1>2, <1>3, <2>2, <2>4, <2>5, <2>7, WorkerGoesOn
<1> QED BY <1>5, <1>6

(* A file is saved; files are deleted. *)
LEMMA StoreGrows ==
    ASSUME CasesInv, NEW w \in Workers, runs[w].pc \in Rendered,
           NEW type \in PackageTypes \cup {"proof"}, Store(w, type)
    PROVE  /\ assets' \in Seq(FileRow) /\ FilesGrow
           /\ DOMAIN assets' = DOMAIN assets \cup {Len(assets) + 1}
           /\ Len(assets) + 1 \notin DOMAIN assets
           /\ assets'[Len(assets) + 1] = [type |-> type, design |-> runs[w].design]
           /\ \A i \in DOMAIN assets : assets'[i] = assets[i]
           /\ Zips' = IF type = "zip" THEN Zips \cup {Len(assets) + 1} ELSE Zips
<1>1. runs[w].design \in Designs
  BY DEF CasesInv, RunsTyped, RunOK
<1>2. PICK file : file = [type |-> type, design |-> runs[w].design]
  OBVIOUS
<1>3. file \in FileRow /\ file.type = type
  BY <1>1, <1>2 DEF FileRow
<1>4. PICK new : new = Len(assets) + 1
  OBVIOUS
<1>5. assets \in Seq(FileRow) /\ assets' = Append(assets, file)
  BY <1>2 DEF CasesInv, FilesTyped, Store
<1>6. /\ assets' \in Seq(FileRow) /\ DOMAIN assets' = DOMAIN assets \cup {new} /\ new \notin DOMAIN assets
      /\ assets'[new] = file /\ \A i \in DOMAIN assets : assets'[i] = assets[i]
  BY <1>3, <1>4, <1>5, SequenceGrows
<1>7. Zips' = IF type = "zip" THEN Zips \cup {new} ELSE Zips
  BY <1>3, <1>6 DEF Zips, Files
<1>8. FilesGrow
  BY <1>6, <1>7 DEF FilesGrow
<1> QED BY <1>2, <1>4, <1>6, <1>7, <1>8

LEMMA WithoutShrinks ==
    ASSUME CasesInv, NEW files, Without(files)
    PROVE  /\ assets' \in Seq(FileRow) /\ FilesGrow
           /\ DOMAIN assets' = DOMAIN assets /\ \A i \in DOMAIN assets \ files : assets'[i] = assets[i]
           /\ Zips' = Zips \ files
<1>1. assets \in Seq(FileRow) /\ assets' = [i \in DOMAIN assets |-> IF i \in files THEN Gone ELSE assets[i]]
  BY DEF CasesInv, FilesTyped, Without
<1>2. Gone \in FileRow /\ Gone.type # "zip"
  BY DEF FileRow, Gone
<1>3. assets' \in [DOMAIN assets -> FileRow]
  BY <1>1, <1>2, ElementsTyped
<1>4. assets' \in Seq(FileRow) /\ DOMAIN assets' = DOMAIN assets
  BY <1>1, <1>3, SequenceKept
<1>5. \A i \in DOMAIN assets \ files : assets'[i] = assets[i]
  BY <1>1
<1>6. \A i \in DOMAIN assets \cap files : assets'[i] = Gone
  BY <1>1
<1>7. Zips' = Zips \ files
  BY <1>2, <1>4, <1>5, <1>6 DEF Zips, Files
<1>8. FilesGrow
  BY <1>4, <1>7 DEF FilesGrow
<1> QED BY <1>4, <1>5, <1>7, <1>8

(* The files are typed, and a package that is spared stays, while a worker *)
(* comes to a statement that is not the clean-up.                          *)
LEMMA FilesMove ==
    ASSUME CasesInv, NEW w \in Workers, NEW r, runs' = [runs EXCEPT ![w] = r], r.pc # "clean",
           assets' \in Seq(FileRow), \A i \in Zips : Spared(i) => i \in Zips', HasZip' => HasZip
    PROVE  FilesTyped'
<1>1. runs'[w] = r /\ \A v \in Workers \ {w} : runs'[v] = runs[v]
  BY DEF CasesInv, RunsTyped
<1>2. \A i : Spared(i) => Spared(i)'
  BY <1>1 DEF Spared
<1> QED BY <1>2 DEF CasesInv, FilesTyped

LEMMA StoringKeeps ==
    ASSUME CasesInv, NEW w \in Workers, SaveFiles(w) \/ SaveZip(w) \/ SaveProof(w)
    PROVE  CasesInv'
<1>1. CaseTyped /\ JobsTyped /\ UNCHANGED <<jobs, doing>> /\ runs[w].pc # "idle"
  BY DEF CasesInv, SaveFiles, SaveZip, SaveProof, RunAt
<1>2. CaseTyped' /\ JobsTyped' /\ OtherJobsWait(runs[w].j)
  BY <1>1, CaseTypedStays DEF SaveFiles, SaveZip, SaveProof, KeepCase, JobsTyped, OtherJobsWait
<1>3. jobs'[runs[w].j].queue = "active"
  BY <1>1, RunHolds
<1>4. PICK type, pc : /\ Store(w, type) /\ RunTo(w, pc) /\ runs[w].pc \in Rendered
                      /\ \/ runs[w].pc = "files" /\ type = "file" /\ pc = "zip"
                         \/ runs[w].pc = "zip" /\ type = "zip" /\ pc = "clean"
                         \/ runs[w].pc = "saveProof" /\ type = "proof" /\ pc = "dropProofs"
  BY DEF SaveFiles, SaveZip, SaveProof, RunAt, Rendered
<1>5. type \in PackageTypes \cup {"proof"}
  BY <1>4 DEF PackageTypes
<1>6. PICK new : new = Len(assets) + 1
  OBVIOUS
<1>7. /\ assets' \in Seq(FileRow) /\ FilesGrow /\ new \notin DOMAIN assets
      /\ Zips' = IF type = "zip" THEN Zips \cup {new} ELSE Zips
  BY <1>4, <1>5, <1>6, StoreGrows
<1>8. LeadsTo(runs[w].pc, pc) /\ pc # "saveProof" /\ (pc = "dropProofs" => runs[w].pc = "saveProof")
  BY <1>4 DEF LeadsTo, Packing, Proofing, Rendered, Listed
<1>9. PICK r : RunOK(r)' /\ runs' = [runs EXCEPT ![w] = r] /\ r.j = runs[w].j /\ r.pc = pc
  BY <1>1, <1>2, <1>3, <1>4, <1>7, <1>8, RunToIsOK
<1>10. FilesTyped'
  <2>1. CASE type = "zip"
    <3>1. \A v \in Workers : RunOK(runs[v])
      BY DEF CasesInv, RunsTyped
    <3>2. /\ \A v \in Workers \ {w} : runs'[v] = runs[v]
          /\ runs[w].pc = "zip" /\ runs' = [runs EXCEPT ![w].pc = "clean"]
      BY <1>4, <2>1 DEF CasesInv, RunsTyped, RunTo
    <3>3. runs[w].pc \in Listed /\ "clean" \in Listed
      BY <3>2 DEF Listed
    <3>4. runs'[w].older = runs[w].older /\ runs[w].older \subseteq DOMAIN assets
      BY <3>1, <3>2, <3>3 DEF RunOK, CasesInv, RunsTyped
    <3>5. \A v \in Workers : runs'[v].pc = "clean" => new \notin runs'[v].older
      <4>1. \A v \in Workers \ {w} : runs[v].pc = "clean" => runs[v].older \subseteq DOMAIN assets
        BY <3>1 DEF RunOK, Listed
      <4> QED BY <1>7, <3>2, <3>4, <4>1
    <3>6. new \in Zips' /\ Spared(new)'
      BY <1>7, <2>1, <3>5 DEF Spared
    <3> QED BY <1>7, <3>6 DEF FilesTyped
  <2>2. CASE type # "zip"
    <3>1. Zips' = Zips /\ pc # "clean"
      BY <1>4, <1>7, <2>2
    <3>2. HasZip' => HasZip
      BY <3>1 DEF HasZip
    <3> QED BY <1>7, <1>9, <3>1, <3>2, FilesMove
  <2> QED BY <2>1, <2>2
<1> QED BY <1>1, <1>2, <1>7, <1>9, <1>10, WorkerGoesOn

LEMMA CleanUpKeeps ==
    ASSUME CasesInv, NEW w \in Workers, CleanUp(w)
    PROVE  CasesInv'
<1>1. CaseTyped /\ JobsTyped /\ UNCHANGED <<jobs, doing>> /\ runs[w].pc = "clean"
  BY DEF CasesInv, CleanUp, RunAt
<1>2. CaseTyped' /\ JobsTyped' /\ OtherJobsWait(runs[w].j)
  BY <1>1, CaseTypedStays DEF CleanUp, KeepCase, JobsTyped, OtherJobsWait
<1>3. jobs'[runs[w].j].queue = "active"
  BY <1>1, RunHolds
<1>4. Without(runs[w].older) /\ RunTo(w, "finish")
  BY DEF CleanUp
<1>5. assets' \in Seq(FileRow) /\ FilesGrow /\ Zips' = Zips \ runs[w].older
  BY <1>4, WithoutShrinks
<1>6. /\ LeadsTo(runs[w].pc, "finish") /\ "finish" # "saveProof"
      /\ "finish" = "dropProofs" => runs[w].pc = "saveProof"
  BY <1>1 DEF LeadsTo, Packing, Proofing, Rendered, Listed
<1>7. PICK r : RunOK(r)' /\ runs' = [runs EXCEPT ![w] = r] /\ r.j = runs[w].j /\ r.pc = "finish"
  BY <1>1, <1>2, <1>3, <1>4, <1>5, <1>6, RunToIsOK
<1>8. FilesTyped'
  <2>1. \A i \in Zips : Spared(i) => i \in Zips'
    BY <1>1, <1>5 DEF Spared
  <2>2. HasZip' => HasZip
    BY <1>5 DEF HasZip
  <2> QED BY <1>5, <1>7, <2>1, <2>2, FilesMove
<1> QED BY <1>1, <1>2, <1>5, <1>7, <1>8, WorkerGoesOn

(* The ends of a package and of a proof. *)
LEMMA CompletedMoves ==
    ASSUME CasesInv, NEW w \in Workers, runs[w].pc # "idle", Completed(runs[w].j)
    PROVE  JobsTyped' /\ OtherJobsWait(runs[w].j)
<1>1. PICK j : j = runs[w].j
  OBVIOUS
<1>2. JobsTyped /\ j \in DOMAIN jobs /\ jobs[j].made < Attempts /\ jobs[j] \in JobRow
  BY <1>1, RunHolds DEF CasesInv
<1>3. jobs' = [jobs EXCEPT ![j] = [@ EXCEPT !.st = "COMPLETED", !.queue = "gone"]]
  <2>1. jobs' = [jobs EXCEPT ![j].st = "COMPLETED", ![j].queue = "gone"]
    BY <1>1 DEF Completed
  <2> QED BY <1>2, <2>1
<1>4. JobsTyped' /\ OtherJobsWait(j)
  BY <1>2, <1>3, JobMoves
<1> QED BY <1>1, <1>4

LEMMA EndingKeeps ==
    ASSUME CasesInv, NEW w \in Workers, FinishPackage(w) \/ DropProofs(w)
    PROVE  CasesInv'
<1>1. /\ CaseTyped /\ pcase \in CaseRow /\ UNCHANGED doing /\ runs[w].pc # "idle"
      /\ Completed(runs[w].j) /\ runs' = [runs EXCEPT ![w] = Idle]
  BY DEF CasesInv, CaseTyped, FinishPackage, DropProofs, RunAt, Leave
<1>2. CaseTyped'
  <2>1. CASE FinishPackage(w)
    <3>1. pcase' \in CaseRow
      BY <1>1, <2>1, CaseChanged DEF FinishPackage, SetCase, Closed
    <3> QED BY <1>1, <2>1, <3>1 DEF FinishPackage, CaseTyped
  <2>2. CASE DropProofs(w)
    BY <1>1, <2>2, CaseTypedStays DEF DropProofs, KeepCase
  <2> QED BY <2>1, <2>2
<1>3. JobsTyped' /\ OtherJobsWait(runs[w].j)
  BY <1>1, CompletedMoves
<1>4. RunOK(Idle)' /\ Idle.pc = "idle"
  BY IdleRunIsOK
<1>5. FilesTyped' /\ FilesGrow
  <2>1. CASE FinishPackage(w)
    BY <1>1, <1>4, <2>1, FilesStay DEF FinishPackage
  <2>2. CASE DropProofs(w)
    <3>1. runs[w].older \cap Zips = {} /\ Without(runs[w].older)
      BY <2>2 DEF DropProofs, RunAt, CasesInv, RunsTyped, RunOK
    <3>2. assets' \in Seq(FileRow) /\ FilesGrow /\ Zips' = Zips
      BY <3>1, WithoutShrinks
    <3>3. HasZip' => HasZip
      BY <3>2 DEF HasZip
    <3> QED BY <1>1, <1>4, <3>2, <3>3, FilesMove
  <2> QED BY <2>1, <2>2
<1> QED BY <1>1, <1>2, <1>3, <1>4, <1>5, WorkerGoesOn

LEMMA RenderFailsKeeps ==
    ASSUME CasesInv, NEW w \in Workers, RenderFails(w)
    PROVE  CasesInv'
<1>1. CaseTyped /\ JobsTyped /\ spent' \in [Kinds -> Nat] /\ UNCHANGED <<doing, assets>>
  BY SpendTyped DEF CasesInv, RenderFails, Kinds
<1>2. CASE runs[w].pc \in {"files", "zip", "clean", "finish"} /\ FailPackage(w)
           /\ UNCHANGED <<rows, layout, preview, approved>>
  BY <1>1, <1>2, FailPackageKeeps
<1>3. CASE runs[w].pc \in {"proof", "listProofs", "saveProof", "dropProofs"} /\ RunTo(w, "catch")
           /\ UNCHANGED jobs /\ KeepCase
  <2>1. CaseTyped' /\ JobsTyped' /\ OtherJobsWait(runs[w].j) /\ runs[w].pc # "idle"
    BY <1>1, <1>3 DEF KeepCase, CaseTyped, JobsTyped, OtherJobsWait
  <2>2. jobs'[runs[w].j].queue = "active"
    BY <1>3, <2>1, RunHolds
  <2>3. FilesGrow
    BY <1>1 DEF FilesGrow, Zips, Files
  <2>4. /\ LeadsTo(runs[w].pc, "catch") /\ "catch" # "saveProof"
        /\ "catch" = "dropProofs" => runs[w].pc = "saveProof"
    BY DEF LeadsTo, Packing, Rendered, Listed
  <2>5. RunTo(w, "catch")
    BY <1>3
  <2>6. PICK r : RunOK(r)' /\ runs' = [runs EXCEPT ![w] = r] /\ r.j = runs[w].j /\ r.pc = "catch"
    BY <2>1, <2>2, <2>3, <2>4, <2>5, RunToIsOK
  <2>7. FilesTyped'
    BY <1>1, <2>6, FilesStay
  <2> QED BY <1>1, <2>1, <2>3, <2>6, <2>7, WorkerGoesOn
<1> QED BY <1>2, <1>3 DEF RenderFails

LEMMA CatchKeeps ==
    ASSUME CasesInv, NEW w \in Workers, Catch(w)
    PROVE  CasesInv'
<1>1. CaseTyped /\ JobsTyped /\ UNCHANGED <<doing, assets>> /\ runs[w].pc # "idle"
  BY DEF CasesInv, Catch, RunAt
<1>2. CaseTyped'
  BY <1>1, CaseTypedStays DEF Catch, KeepCase
<1>3. PICK j : j = runs[w].j
  OBVIOUS
<1>4. j \in DOMAIN jobs /\ jobs[j].made < Attempts
  BY <1>1, <1>3, RunHolds
<1>5. PICK newest :
          jobs' = [i \in DOMAIN jobs |->
              [jobs[i] EXCEPT
                  !.st = IF i = newest THEN "FAILED" ELSE @,
                  !.made = IF i = runs[w].j THEN @ + 1 ELSE @,
                  !.queue = IF i # runs[w].j THEN @
                            ELSE IF jobs[runs[w].j].made + 1 < Attempts THEN "waiting" ELSE "failed"]]
  BY Zenon DEF Catch
<1>6. ASSUME NEW i \in DOMAIN jobs
      PROVE  /\ jobs'[i] \in JobRow /\ jobs'[i].kind = jobs[i].kind
             /\ i # j => jobs'[i].queue = jobs[i].queue
             /\ jobs'[i].queue \notin {"gone", "failed"} => jobs'[i].made < Attempts
  <2>1. jobs[i] \in JobRow /\ Attempts \in Nat
    BY <1>1, JobChanged, CasesAssumption
  <2>2. PICK st : st = IF i = newest THEN "FAILED" ELSE jobs[i].st
    OBVIOUS
  <2>3. PICK made : made = IF i = j THEN jobs[i].made + 1 ELSE jobs[i].made
    OBVIOUS
  <2>4. PICK queue : queue = IF i # j THEN jobs[i].queue
                             ELSE IF jobs[j].made + 1 < Attempts THEN "waiting" ELSE "failed"
    OBVIOUS
  <2>5. jobs'[i] = [jobs[i] EXCEPT !.st = st, !.made = made, !.queue = queue]
    <3>1. jobs'[i] = [jobs[i] EXCEPT
                    !.st = IF i = newest THEN "FAILED" ELSE @,
                    !.made = IF i = j THEN @ + 1 ELSE @,
                    !.queue = IF i # j THEN @
                              ELSE IF jobs[j].made + 1 < Attempts THEN "waiting" ELSE "failed"]
      BY <1>3, <1>5
    <3>2. [jobs[i] EXCEPT !.st = IF i = newest THEN "FAILED" ELSE @,
                          !.made = IF i = j THEN @ + 1 ELSE @,
                          !.queue = IF i # j THEN @
                                    ELSE IF jobs[j].made + 1 < Attempts THEN "waiting" ELSE "failed"]
          = [jobs[i] EXCEPT !.st = st, !.made = made, !.queue = queue]
      BY <2>1, <2>2, <2>3, <2>4 DEF JobRow
    <3> QED BY <3>1, <3>2
  <2>6. st \in {"PENDING", "PROCESSING", "COMPLETED", "FAILED"}
    BY <2>1, <2>2 DEF JobRow
  <2>7. made \in 0..Attempts
    BY <1>4, <2>1, <2>3 DEF JobRow
  <2>8. queue \in {"none", "waiting", "active", "gone", "failed"}
    BY <2>1, <2>4 DEF JobRow
  <2>9. jobs'[i] = [kind |-> jobs[i].kind, made |-> made, st |-> st, queue |-> queue]
    BY <2>1, <2>5 DEF JobRow
  <2>10. jobs[i].kind \in {"package", "proof"}
    BY <2>1 DEF JobRow
  <2>11. jobs'[i] \in JobRow
    <3>1. PICK kind : kind = jobs[i].kind
      OBVIOUS
    <3>2. [kind |-> kind, made |-> made, st |-> st, queue |-> queue] \in JobRow
      BY <2>6, <2>7, <2>8, <2>10, <3>1, Zenon DEF JobRow
    <3> QED BY <2>9, <3>1, <3>2
  <2>12. jobs'[i].kind = jobs[i].kind /\ jobs'[i].queue = queue /\ jobs'[i].made = made
    BY <2>9
  <2>13. queue \notin {"gone", "failed"} => made < Attempts
    <3>1. CASE i # j
      BY <1>1, <2>3, <2>4, <3>1 DEF JobsTyped
    <3>2. CASE i = j /\ jobs[j].made + 1 < Attempts
      BY <1>5, <2>3, <3>2
    <3>3. CASE i = j /\ ~(jobs[j].made + 1 < Attempts)
      BY <2>4, <3>3
    <3> QED BY <3>1, <3>2, <3>3
  <2> QED BY <2>4, <2>11, <2>12, <2>13
<1>7. jobs' \in Seq(JobRow) /\ DOMAIN jobs' = DOMAIN jobs
  <2>1. jobs' \in [DOMAIN jobs -> JobRow]
    BY <1>5, <1>6
  <2> QED BY <1>1, <2>1, SequenceKept DEF JobsTyped
<1>8. JobsTyped' /\ OtherJobsWait(j)
  BY <1>6, <1>7 DEF JobsTyped, OtherJobsWait
<1>9. runs' = [runs EXCEPT ![w] = Idle]
  BY DEF Catch, Leave
<1>10. RunOK(Idle)' /\ Idle.pc = "idle"
  BY IdleRunIsOK
<1>11. FilesTyped' /\ FilesGrow
  BY <1>1, <1>9, <1>10, FilesStay
<1> QED BY <1>1, <1>2, <1>3, <1>8, <1>9, <1>10, <1>11, WorkerGoesOn

LEMMA WorkerDiesKeeps ==
    ASSUME CasesInv, WorkerDies
    PROVE  CasesInv'
<1>1. CaseTyped /\ JobsTyped /\ UNCHANGED <<doing, assets>>
  BY DEF CasesInv, WorkerDies
<1>2. CaseTyped'
  BY <1>1, SpendTyped DEF WorkerDies, KeepCase, CaseTyped, Kinds
<1>3. jobs' = [j \in DOMAIN jobs |->
          IF jobs[j].queue = "active" THEN [jobs[j] EXCEPT !.queue = "waiting"] ELSE jobs[j]]
  BY DEF WorkerDies
<1>4. ASSUME NEW j \in DOMAIN jobs
      PROVE  /\ jobs'[j] \in JobRow /\ jobs'[j].made = jobs[j].made
             /\ jobs[j].queue = "none" => jobs'[j].queue = "none"
             /\ jobs'[j].queue \notin {"gone", "failed"} => jobs[j].queue \notin {"gone", "failed"}
  <2>1. jobs[j] \in JobRow
    BY <1>1, JobChanged
  <2>2. PICK q : q = [jobs[j] EXCEPT !.queue = "waiting"]
    OBVIOUS
  <2>3. q \in JobRow /\ q.made = jobs[j].made
    BY <2>1, <2>2 DEF JobRow
  <2>4. jobs'[j] = IF jobs[j].queue = "active" THEN q ELSE jobs[j]
    BY <1>3, <2>2
  <2> QED BY <2>1, <2>3, <2>4
<1>5. jobs' \in Seq(JobRow) /\ DOMAIN jobs' = DOMAIN jobs
  <2>1. jobs' \in [DOMAIN jobs -> JobRow]
    BY <1>3, <1>4
  <2> QED BY <1>1, <2>1, SequenceKept DEF JobsTyped
<1>6. JobsTyped'
  <2>1. \A j \in DOMAIN jobs' : jobs'[j].queue \notin {"gone", "failed"} => jobs'[j].made < Attempts
    BY <1>1, <1>4, <1>5 DEF JobsTyped
  <2> QED BY <1>5, <2>1 DEF JobsTyped
<1>7. DOMAIN runs' = Workers /\ \A w \in Workers : runs'[w] = Idle
  BY DEF WorkerDies
<1>8. RunsTyped'
  BY <1>7, IdleRunIsOK DEF RunsTyped
<1>9. Zips' = Zips /\ \A i : Spared(i)'
  BY <1>1, <1>7, IdleRunIsOK DEF Zips, Files, Spared
<1>10. FilesTyped'
  BY <1>1, <1>9 DEF CasesInv, FilesTyped, HasZip
<1>11. DoingTyped'
  <2>1. \A h \in Handlers : StepOK(h, doing[h])'
    BY <1>1, <1>4, <1>5, StepIsOK DEF StepOK
  <2> QED BY <1>1, <2>1 DEF CasesInv, DoingTyped
<1> QED BY <1>2, <1>6, <1>8, <1>10, <1>11 DEF CasesInv

LEMMA DeletePackagesKeeps ==
    ASSUME CasesInv, NEW a \in Admins, DeletePackages(a)
    PROVE  CasesInv'
<1>1. CaseTyped /\ JobsTyped /\ UNCHANGED <<doing, jobs, runs>> /\ Without(Files(PackageTypes))
  BY DEF CasesInv, DeletePackages
<1>2. CaseTyped' /\ JobsTyped'
  BY <1>1, SpendTyped DEF DeletePackages, KeepCase, CaseTyped, Kinds, JobsTyped
<1>3. /\ assets' \in Seq(FileRow) /\ DOMAIN assets' = DOMAIN assets
      /\ Zips' = Zips \ Files(PackageTypes)
  BY <1>1, WithoutShrinks
<1>4. Zips' = {} /\ ~HasZip'
  BY <1>3 DEF Zips, Files, HasZip, PackageTypes
<1>5. FilesTyped'
  BY <1>3, <1>4 DEF FilesTyped
<1>6. ASSUME NEW w \in Workers PROVE RunOK(runs[w])'
  <2>1. RunOK(runs[w])
    BY DEF CasesInv, RunsTyped
  <2> QED BY <1>1, <1>3, <1>4, <2>1 DEF RunOK
<1>7. RunsTyped'
  BY <1>1, <1>6 DEF CasesInv, RunsTyped
<1> QED BY <1>1, <1>2, <1>5, <1>7, DoingStays DEF CasesInv

LEMMA CasesInvIsKept == CasesInv /\ [CasesNext]_caseVars => CasesInv'
<1> SUFFICES ASSUME CasesInv, [CasesNext]_caseVars PROVE CasesInv' OBVIOUS
<1>1. CASE Request
  BY <1>1, ReceiveKeeps, UploadKeeps, PanelKeeps, DeletePackagesKeeps, RetryKeeps DEF Request
<1>2. ASSUME NEW h \in Handlers, Continue(h) PROVE CasesInv'
  <2>1. UpdateCaseAnswers(h) \/ MarkRetried(h) => h \in Admins
    BY <1>2, StepIsOK DEF UpdateCaseAnswers, MarkRetried, CaseAt, StepOK
  <2> QED BY <1>2, <2>1, SavingKeeps, PackageRequestKeeps, CreateJobKeeps, QueueKeeps, PanelKeeps,
             MarkRetriedKeeps DEF Continue
<1>3. ASSUME NEW h \in Handlers, QueueFails(h) PROVE CasesInv'
  BY <1>3, QueueKeeps
<1>4. ASSUME NEW w \in Workers, Work(w) PROVE CasesInv'
  BY <1>4, TakeJobKeeps, StartPackageKeeps, RefuseKeeps, StoringKeeps, CleanUpKeeps, EndingKeeps,
     ProofGoesOn, CatchKeeps DEF Work
<1>5. ASSUME NEW w \in Workers, RenderFails(w) PROVE CasesInv'
  BY <1>5, RenderFailsKeeps
<1>6. CASE EditTemplate \/ ExpireLink \/ ApiDies \/ WorkerDies
  BY <1>6, ChangesKeep, WorkerDiesKeeps
<1>7. CASE UNCHANGED caseVars
  BY <1>7, CaseTypedStays, ElsewhereKeeps DEF caseVars, CasesInv
<1> QED BY <1>1, <1>2, <1>3, <1>4, <1>5, <1>6, <1>7 DEF CasesNext

LEMMA CasesInvTypes == CasesInv => CasesTypeOK
<1> SUFFICES ASSUME CasesInv PROVE CasesTypeOK OBVIOUS
<1>1. /\ pcase \in CaseRow /\ rows \in Answers /\ layout \in Layouts /\ preview \in BOOLEAN
      /\ DOMAIN doing = Handlers /\ DOMAIN runs = Workers
  BY DEF CasesInv, CaseTyped, DoingTyped, RunsTyped
<1>2. \A j \in DOMAIN jobs : jobs[j] \in JobRow
  BY JobChanged DEF CasesInv
<1>3. \A i \in DOMAIN assets : assets[i].type \in PackageTypes \cup {"proof", Gone.type}
  <2>1. \A i \in DOMAIN assets : assets[i] \in FileRow
    BY ElementsTyped DEF CasesInv, FilesTyped
  <2> QED BY <2>1 DEF FileRow
<1> QED BY <1>1, <1>2, <1>3 DEF CasesTypeOK, CaseRow, JobRow

(* The personalisation of an item stays in its shape, whatever its         *)
(* customers and the panel request, renders, fails and dies.               *)
THEOREM CasesTypes == CasesSpec => []CasesTypeOK
BY CasesAtFirst, CasesInvIsKept, CasesInvTypes, PTL DEF CasesSpec

(* A step of a worker leaves a package where there is one: the clean-up    *)
(* spares one, and what replaces a proof deletes proofs only.              *)
LEMMA WorkSparesOne ==
    ASSUME CasesInv, NEW w \in Workers, Work(w) \/ RenderFails(w), HasZip
    PROVE  HasZip'
<1>1. CASE SaveFiles(w) \/ SaveZip(w) \/ SaveProof(w)
  <2>1. PICK type : Store(w, type) /\ type \in PackageTypes \cup {"proof"} /\ runs[w].pc \in Rendered
    BY <1>1 DEF SaveFiles, SaveZip, SaveProof, RunAt, Rendered, PackageTypes
  <2>2. Zips' = IF type = "zip" THEN Zips \cup {Len(assets) + 1} ELSE Zips
    BY <2>1, StoreGrows
  <2> QED BY <2>2 DEF HasZip
<1>2. CASE CleanUp(w)
  <2>1. PICK i \in Zips : Spared(i)
    BY DEF CasesInv, FilesTyped
  <2>2. i \notin runs[w].older /\ Without(runs[w].older)
    BY <1>2, <2>1 DEF CleanUp, RunAt, Spared
  <2>3. i \in Zips'
    BY <2>1, <2>2, WithoutShrinks
  <2> QED BY <2>3 DEF HasZip
<1>3. CASE DropProofs(w)
  <2>1. runs[w].older \cap Zips = {} /\ Without(runs[w].older)
    BY <1>3 DEF DropProofs, RunAt, CasesInv, RunsTyped, RunOK
  <2>2. Zips' = Zips
    BY <2>1, WithoutShrinks
  <2> QED BY <2>2 DEF HasZip
<1>4. CASE UNCHANGED assets
  BY <1>4 DEF HasZip, Zips, Files
<1> QED BY <1>1, <1>2, <1>3, <1>4 DEF Work, RenderFails, TakeJob, StartPackage, RefusePackage,
                                     FinishPackage, RenderProof, ListProofs, Catch

(* Whatever packages overlap, fail, are repeated or die, a case that has a *)
(* package keeps one, unless the panel deletes them: what a package        *)
(* deletes, it listed before its own was saved.                            *)
THEOREM PackageStays == CasesSpec => PackageKept
<1>1. ASSUME CasesInv, [CasesNext]_caseVars
      PROVE  [HasZip /\ ~(\E a \in Admins : DeletePackages(a)) => HasZip']_caseVars
  <2> SUFFICES ASSUME HasZip, ~(\E a \in Admins : DeletePackages(a)), CasesNext PROVE HasZip'
    BY <1>1
  <2>1. ASSUME NEW w \in Workers, Work(w) \/ RenderFails(w) PROVE HasZip'
    BY <1>1, <2>1, WorkSparesOne
  <2>2. CASE UNCHANGED assets
    BY <2>2 DEF HasZip, Zips, Files
  <2>3. CASE Request
    BY <2>2, <2>3 DEF Request, Receive, UploadPreview, RequestPackage, RefreshCaseLayout, ResendEmail,
                      UpdateCaseStatus, ReadForUpdate, RetryJob, KeepFiles
  <2>4. ASSUME NEW h \in Handlers, Continue(h) \/ QueueFails(h) PROVE HasZip'
    BY <2>2, <2>4 DEF Continue, QueueFails, SaveAnswers, SaveDraft, SavePreview, SaveMerged, Check,
                      Approve, Judge, RejectPackage, CreateJob, AddJob, ConfirmSent,
                      UpdateCaseAnswers, MarkRetried, KeepFiles
  <2>5. CASE EditTemplate \/ ExpireLink \/ WorkerDies \/ ApiDies
    BY <2>2, <2>5 DEF EditTemplate, ExpireLink, WorkerDies, ApiDies, KeepFiles
  <2> QED BY <2>1, <2>3, <2>4, <2>5 DEF CasesNext
<1> QED BY <1>1, CasesAtFirst, CasesInvIsKept, PTL DEF CasesSpec, PackageKept
-----------------------------------------------------------------------------
(***************************************************************************)
(* PrintedAsApproved, with one request of the customer at a time: a draft  *)
(* that overlaps an approval writes over what was approved.                *)
(***************************************************************************)
OneCustomer == \A c, d \in Customers : c = d

(* What PrintedAsApproved is about: the panel does not interfere and no    *)
(* render fails.                                                           *)
Quiet == spent.packages = 0 /\ spent.panel = 0 /\ spent.retries = 0 /\ spent.renderFailures = 0

PackageMade == \E j \in DOMAIN jobs : jobs[j].kind = "package"

(* Before there is a job for a package there are no packages, and a        *)
(* request on its way to approval or to the job holds what the case holds. *)
Unpacked ==
    /\ Zips = {} /\ pcase.st # "READY_FOR_PRINT"
    /\ \A w \in Workers : runs[w].pc \notin Packing
    /\ \A c \in Customers :
          /\ doing[c].pc \in {"check", "approve"} => doing[c].answers = pcase.answers
          /\ doing[c].pc \in {"package", "create", "reject"} => pcase.snap # None /\ approved = Design
          /\ doing[c].pc \in {"package", "create"} => pcase.st \in Closed
          /\ doing[c].pc = "create" => Fits(Design)

(* From then on the case is closed, with the design that was approved.     *)
Settled ==
    /\ pcase.st \in Closed /\ pcase.snap # None /\ approved = Design /\ Fits(Design)
    /\ \A c \in Customers : doing[c].pc \in {"idle", "add", "sent", "proof"}
    /\ \A w \in Workers : /\ runs[w].pc # "refuse"
                          /\ runs[w].pc \in Packing \ {"package"} => runs[w].design = approved
    /\ \A i \in Zips : assets[i].design = approved

Calm ==
    /\ \A a \in Admins : doing[a].pc = "idle"
    /\ \A w \in Workers : runs[w].pc # "catch"
    /\ PackageMade => Settled
    /\ ~PackageMade => Unpacked

QuietInv == Quiet => Calm

(* What spends what a quiet behaviour has not spent is no step of it.      *)
LEMMA QuietSpends ==
    ASSUME CasesInv, Quiet', NEW kind \in Kinds, Spend(kind)
    PROVE  Quiet /\ kind \notin {"packages", "panel", "retries", "renderFailures"}
<1>1. spent \in [Kinds -> Nat] /\ spent' = [spent EXCEPT ![kind] = @ + 1]
  BY DEF CasesInv, CaseTyped, Spend
<1>2. \A k \in {"packages", "panel", "retries", "renderFailures"} : k \in Kinds /\ spent'[k] = 0
  BY DEF Quiet, Kinds
<1>3. spent'[kind] = spent[kind] + 1 /\ spent[kind] \in Nat /\ \A k \in Kinds \ {kind} : spent'[k] = spent[k]
  BY <1>1
<1>4. kind \notin {"packages", "panel", "retries", "renderFailures"}
  <2> SUFFICES ASSUME kind \in {"packages", "panel", "retries", "renderFailures"} PROVE FALSE OBVIOUS
  <2>1. spent[kind] + 1 = 0
    BY <1>2, <1>3
  <2> QED BY <1>3, <2>1
<1>5. \A k \in {"packages", "panel", "retries", "renderFailures"} : spent[k] = 0
  BY <1>2, <1>3, <1>4
<1> QED BY <1>4, <1>5 DEF Quiet

LEMMA CalmAtFirst == CasesInit => Calm
<1> SUFFICES ASSUME CasesInit PROVE Calm OBVIOUS
<1>1. /\ \A h \in Handlers : doing[h].pc = "idle"
      /\ \A w \in Workers : runs[w].pc = "idle"
      /\ jobs = <<>> /\ assets = <<>> /\ pcase.st = "WAITING_FOR_CUSTOMER"
  BY DEF CasesInit, Idle
<1>2. ~PackageMade /\ Zips = {}
  BY <1>1 DEF PackageMade, Zips, Files
<1>3. Unpacked
  BY <1>1, <1>2 DEF Unpacked, Packing, Handlers
<1> QED BY <1>1, <1>2, <1>3 DEF Calm, Handlers

(* A request that is not idle is the customer's only one. *)
LEMMA CustomerOnly ==
    ASSUME OneCustomer, Calm, NEW h \in Handlers, doing[h].pc # "idle"
    PROVE  h \in Customers /\ \A c \in Customers : c = h
BY DEF Calm, OneCustomer, Handlers

(* The customer's request goes on before there is a package. *)
LEMMA UnpackedMoves ==
    ASSUME OneCustomer, CasesInv, Calm, ~PackageMade, NEW c \in Customers, NEW d, Go(c, d),
           ~PackageMade', UNCHANGED <<runs, assets>>, pcase'.st # "READY_FOR_PRINT",
           d.pc \in {"check", "approve"} => d.answers = pcase'.answers,
           d.pc \in {"package", "create", "reject"} => pcase'.snap # None /\ approved' = Design',
           d.pc \in {"package", "create"} => pcase'.st \in Closed,
           d.pc = "create" => Fits(Design')
    PROVE  Calm'
<1>1. doing'[c] = d /\ \A g \in Handlers \ {c} : doing'[g] = doing[g]
  BY DEF CasesInv, DoingTyped, Go, Handlers
<1>2. \A a \in Admins : doing'[a].pc = "idle"
  BY <1>1, CasesAssumption DEF Calm, Handlers
<1>3. Zips' = {} /\ \A w \in Workers : runs'[w].pc \notin Packing \cup {"catch"}
  BY DEF Calm, Unpacked, Zips, Files
<1>4. \A g \in Customers : doing'[g] = d
  BY <1>1 DEF OneCustomer
<1>5. \A g \in Customers :
          /\ doing'[g].pc \in {"check", "approve"} => doing'[g].answers = pcase'.answers
          /\ doing'[g].pc \in {"package", "create", "reject"} => pcase'.snap # None /\ approved' = Design'
          /\ doing'[g].pc \in {"package", "create"} => pcase'.st \in Closed
          /\ doing'[g].pc = "create" => Fits(Design)'
  BY <1>4 DEF Fits
<1>6. Unpacked'
  BY <1>3, <1>5 DEF Unpacked
<1> QED BY <1>2, <1>3, <1>6 DEF Calm

(* The customer's request goes on when there is a package, or makes its    *)
(* job.                                                                    *)
LEMMA SettledMoves ==
    ASSUME OneCustomer, CasesInv, \A a \in Admins : doing[a].pc = "idle",
           \A w \in Workers : /\ runs[w].pc \notin {"catch", "refuse"}
                              /\ runs[w].pc \in Packing \ {"package"} => runs[w].design = approved,
           \A i \in Zips : assets[i].design = approved,
           PackageMade', NEW c \in Customers, NEW d, Go(c, d), d.pc \in {"idle", "add", "sent", "proof"},
           UNCHANGED <<runs, assets, approved>>,
           pcase'.st \in Closed, pcase'.snap # None, approved = Design', Fits(Design')
    PROVE  Calm'
<1>1. doing'[c] = d /\ \A g \in Handlers \ {c} : doing'[g] = doing[g]
  BY DEF CasesInv, DoingTyped, Go, Handlers
<1>2. \A a \in Admins : doing'[a].pc = "idle"
  BY <1>1, CasesAssumption DEF Handlers
<1>3. \A g \in Customers : doing'[g].pc \in {"idle", "add", "sent", "proof"}
  BY <1>1 DEF OneCustomer
<1>4. Zips' = Zips /\ \A i \in Zips' : assets'[i].design = approved'
  BY DEF Zips, Files
<1>5. Fits(Design)' /\ approved' = Design'
  BY DEF Fits
<1>6. Settled'
  BY <1>3, <1>4, <1>5 DEF Settled
<1>7. \A w \in Workers : runs'[w].pc # "catch"
  OBVIOUS
<1> QED BY <1>2, <1>6, <1>7 DEF Calm

LEMMA PackageStaysMade ==
    ASSUME DOMAIN jobs' = DOMAIN jobs, \A i \in DOMAIN jobs : jobs'[i].kind = jobs[i].kind
    PROVE  PackageMade' <=> PackageMade
BY DEF PackageMade

LEMMA SameJobsMade ==
    ASSUME UNCHANGED jobs PROVE PackageMade' <=> PackageMade
BY DEF PackageMade

LEMMA QueueKinds ==
    ASSUME CasesInv, NEW h \in Handlers, AddJob(h) \/ QueueFails(h)
    PROVE  PackageMade' <=> PackageMade
<1>1. PICK j : j = doing[h].j
  OBVIOUS
<1>2. j \in DOMAIN jobs /\ jobs[j] \in JobRow
  <2>1. j \in DOMAIN jobs
    BY <1>1, StepIsOK DEF AddJob, QueueFails, CaseAt, StepOK
  <2> QED BY <2>1, JobChanged DEF CasesInv
<1>3. ASSUME NEW q \in JobRow, q.kind = jobs[j].kind, jobs' = [jobs EXCEPT ![j] = q]
      PROVE  PackageMade' <=> PackageMade
  BY <1>2, <1>3, PackageStaysMade
<1>4. CASE AddJob(h)
  <2>1. PICK q : q = [jobs[j] EXCEPT !.queue = "waiting"]
    OBVIOUS
  <2>2. q \in JobRow /\ q.kind = jobs[j].kind
    BY <1>2, <2>1 DEF JobRow
  <2>3. jobs' = [jobs EXCEPT ![j] = q]
    BY <1>1, <1>4, <2>1 DEF AddJob
  <2> QED BY <1>3, <2>2, <2>3
<1>5. CASE QueueFails(h) /\ ~UNCHANGED jobs
  <2>1. PICK q : q = [jobs[j] EXCEPT !.st = "FAILED"]
    OBVIOUS
  <2>2. q \in JobRow /\ q.kind = jobs[j].kind
    BY <1>2, <2>1 DEF JobRow
  <2>3. jobs' = [jobs EXCEPT ![j] = q]
    BY <1>1, <1>5, <2>1 DEF QueueFails
  <2> QED BY <1>3, <2>2, <2>3
<1>6. CASE UNCHANGED jobs
  BY <1>6, SameJobsMade
<1> QED BY <1>4, <1>5, <1>6

(* What Go and To make the next statement of. *)
LEMMA ToGoes ==
    ASSUME CasesInv, NEW h \in Handlers, NEW pc, To(h, pc)
    PROVE  \E d : /\ Go(h, d) /\ d.pc = pc
                  /\ \A x \in DOMAIN doing[h] \ {"pc"} : d[x] = doing[h][x]
<1>1. PICK d : d = [doing[h] EXCEPT !.pc = pc]
  OBVIOUS
<1>2. "pc" \in DOMAIN doing[h]
  BY StepIsOK DEF StepOK
<1>3. d.pc = pc /\ \A x \in DOMAIN doing[h] \ {"pc"} : d[x] = doing[h][x]
  BY <1>1, <1>2
<1>4. Go(h, d)
  BY <1>1 DEF To
<1> QED BY <1>3, <1>4

(* The customer's steps from the first to the last before the job.         *)
LEMMA WayToPackageCalm ==
    ASSUME OneCustomer, CasesInv, Calm, ~PackageMade, NEW c \in Customers,
           \/ SaveAnswers(c) \/ SaveDraft(c) \/ SavePreview(c) \/ SaveMerged(c) \/ Check(c)
           \/ Approve(c) \/ Judge(c) \/ RejectPackage(c) \/ ConfirmSent(c)
    PROVE  Calm'
<1>1. UNCHANGED <<jobs, runs, assets>> /\ ~PackageMade' /\ c \in Handlers
  BY SameJobsMade DEF SaveAnswers, SaveDraft, SavePreview, SaveMerged, Check, Approve, Judge,
                      RejectPackage, ConfirmSent, KeepFiles, Handlers
<1>2. pcase \in CaseRow /\ pcase.st # "READY_FOR_PRINT"
  BY DEF CasesInv, CaseTyped, Calm, Unpacked
<1>3. ASSUME NEW d, Go(c, d), pcase'.st # "READY_FOR_PRINT",
             d.pc \notin {"check", "approve", "package", "create", "reject"}
      PROVE  Calm'
  BY <1>1, <1>3, UnpackedMoves
<1>4. Idle.pc \notin {"check", "approve", "package", "create", "reject"}
  BY DEF Idle
<1>5. CASE SaveAnswers(c)
  <2>1. PICK pc : pc = IF doing[c].op = "submit" THEN "merge" ELSE doing[c].op
    OBVIOUS
  <2>2. pc \in {"merge", "draft", "preview"} /\ To(c, pc)
    BY <1>1, <1>5, <2>1, HeldByCustomer DEF SaveAnswers, CaseAt, Holding
  <2> QED BY <1>1, <1>2, <1>3, <1>5, <2>2, ToGoes DEF SaveAnswers
<1>6. CASE SaveDraft(c)
  <2>1. pcase'.st # "READY_FOR_PRINT" /\ Go(c, Idle)
    BY <1>2, <1>6 DEF SaveDraft, CaseRow
  <2> QED BY <1>3, <1>4, <2>1
<1>7. CASE SavePreview(c)
  <2>1. pcase'.st # "READY_FOR_PRINT" /\ Go(c, Idle)
    BY <1>2, <1>7 DEF SavePreview, CaseRow
  <2> QED BY <1>3, <1>4, <2>1
<1>8. CASE SaveMerged(c)
  <2>1. pcase'.st # "READY_FOR_PRINT" /\ pcase'.answers = doing[c].answers
    BY <1>2, <1>8 DEF SaveMerged, SetCase, CaseRow
  <2>2. "answers" \in DOMAIN doing[c]
    BY <1>1, <1>8, StepIsOK DEF SaveMerged, CaseAt, Holding, StepOK
  <2>3. PICK d : Go(c, d) /\ d.pc = "check" /\ d.answers = doing[c].answers
    BY <1>1, <1>8, <2>2, ToGoes DEF SaveMerged
  <2> QED BY <1>1, <2>1, <2>3, UnpackedMoves
<1>9. CASE Check(c)
  <2>1. UNCHANGED pcase /\ doing[c].answers = pcase.answers
    BY <1>9 DEF Check, CaseAt, KeepCase, Calm, Unpacked
  <2>2. CASE Go(c, Idle)
    BY <1>2, <1>3, <1>4, <2>1, <2>2
  <2>3. CASE To(c, "approve")
    <3>1. "answers" \in DOMAIN doing[c]
      BY <1>1, <1>9, StepIsOK DEF Check, CaseAt, Holding, StepOK
    <3>2. PICK d : Go(c, d) /\ d.pc = "approve" /\ d.answers = doing[c].answers
      BY <1>1, <2>3, <3>1, ToGoes
    <3> QED BY <1>1, <1>2, <2>1, <3>2, UnpackedMoves
  <2> QED BY <1>9, <2>2, <2>3 DEF Check
<1>10. CASE Approve(c)
  <2>1. CASE UNCHANGED pcase /\ Go(c, Idle)
    BY <1>2, <1>3, <1>4, <2>1
  <2>2. CASE /\ pcase' = [pcase EXCEPT !.st = "SUBMITTED", !.snap = doing[c].layout]
             /\ approved' = [answers |-> doing[c].answers, layout |-> doing[c].layout]
             /\ To(c, "package")
    <3>1. doing[c].layout \in Layouts /\ doing[c].answers = pcase.answers
      BY <1>1, <1>10, HeldByCustomer DEF Approve, CaseAt, Holding, Calm, Unpacked
    <3>2. pcase'.st = "SUBMITTED" /\ pcase'.snap = doing[c].layout /\ pcase'.answers = doing[c].answers
      BY <1>2, <2>2, <3>1 DEF CaseRow
    <3>3. pcase'.snap # None /\ approved' = Design'
      BY <2>2, <3>1, <3>2, CasesAssumption DEF Design, LayoutOf
    <3>4. pcase'.st \in Closed /\ pcase'.st # "READY_FOR_PRINT"
      BY <3>2 DEF Closed
    <3>5. PICK d : Go(c, d) /\ d.pc = "package"
      BY <1>1, <2>2, ToGoes
    <3> QED BY <1>1, <3>3, <3>4, <3>5, UnpackedMoves
  <2> QED BY <1>10, <2>1, <2>2 DEF Approve
<1>11. CASE Judge(c)
  <2>1. /\ pcase.snap # None /\ approved = Design /\ pcase.st \in Closed
        /\ UNCHANGED <<pcase, layout, approved>>
    BY <1>11 DEF Judge, CaseAt, KeepCase, Calm, Unpacked
  <2>2. Design' = Design
    BY <2>1 DEF Design, LayoutOf
  <2>3. PICK pc : To(c, pc) /\ pc \in {"create", "reject"} /\ (pc = "create" => Fits(Design))
    BY <1>11 DEF Judge
  <2>4. PICK d : Go(c, d) /\ d.pc = pc
    BY <1>1, <2>3, ToGoes
  <2> QED BY <1>1, <1>2, <2>1, <2>2, <2>3, <2>4, UnpackedMoves
<1>12. ASSUME NEW st \in {"FAILED_RENDER", "SUBMITTED"}, SetCase("st", st), AfterPackage(c) PROVE Calm'
  <2>1. pcase'.st # "READY_FOR_PRINT"
    BY <1>2, <1>12 DEF SetCase, CaseRow
  <2>2. PICK d : Go(c, d) /\ d.pc = "proof"
    BY <1>1, <1>12, ToGoes DEF AfterPackage
  <2> QED BY <1>3, <2>1, <2>2
<1> QED BY <1>5, <1>6, <1>7, <1>8, <1>9, <1>10, <1>11, <1>12 DEF RejectPackage, ConfirmSent

(* What holds of the workers and the files whenever it is calm. *)
LEMMA CalmWork ==
    ASSUME Calm
    PROVE  /\ \A a \in Admins : doing[a].pc = "idle"
           /\ \A w \in Workers : /\ runs[w].pc \notin {"catch", "refuse"}
                                 /\ runs[w].pc \in Packing \ {"package"} => runs[w].design = approved
           /\ \A i \in Zips : assets[i].design = approved
<1>1. CASE PackageMade
  BY <1>1 DEF Calm, Settled
<1>2. CASE ~PackageMade
  BY <1>2 DEF Calm, Unpacked, Packing
<1> QED BY <1>1, <1>2

LEMMA CreateJobCalm ==
    ASSUME OneCustomer, CasesInv, Calm, NEW c \in Customers, CreateJob(c)
    PROVE  Calm'
<1>1. /\ UNCHANGED <<pcase, layout, approved, runs, assets>> /\ c \in Handlers
      /\ Design' = Design /\ pcase \in CaseRow
  BY DEF CreateJob, KeepCase, Handlers, Design, LayoutOf, CasesInv, CaseTyped
<1>2. PICK d : Go(c, d) /\ d.pc = "add"
  BY DEF CreateJob
<1>3. PICK kind \in {"package", "proof"} :
          /\ jobs' = Append(jobs, NewJob(kind))
          /\ kind = "package" => doing[c].pc = "create"
          /\ kind = "proof" => doing[c].pc = "proof"
  BY DEF CreateJob, CaseAt
<1>4. /\ DOMAIN jobs' = DOMAIN jobs \cup {Len(jobs) + 1} /\ jobs'[Len(jobs) + 1].kind = kind
      /\ \A j \in DOMAIN jobs : jobs'[j] = jobs[j]
  <2>1. jobs \in Seq(JobRow) /\ NewJob(kind) \in JobRow /\ NewJob(kind).kind = kind
    BY NewJobTyped DEF CasesInv, JobsTyped
  <2> QED BY <1>3, <2>1, SequenceGrows
<1>5. PackageMade' <=> PackageMade \/ kind = "package"
  BY <1>4 DEF PackageMade
<1>6. CASE ~PackageMade'
  <2>1. ~PackageMade /\ pcase'.st # "READY_FOR_PRINT"
    BY <1>1, <1>5, <1>6 DEF Calm, Unpacked
  <2>2. d.pc \notin {"check", "approve", "package", "create", "reject"}
    BY <1>2
  <2> QED BY <1>1, <1>2, <1>6, <2>1, <2>2, UnpackedMoves
<1>7. CASE PackageMade'
  <2>1. pcase.st \in Closed /\ pcase.snap # None /\ approved = Design /\ Fits(Design)
    <3>1. CASE PackageMade
      BY <3>1 DEF Calm, Settled
    <3>2. CASE ~PackageMade
      BY <1>3, <1>5, <1>7, <3>2 DEF Calm, Unpacked
    <3> QED BY <3>1, <3>2
  <2>2. d.pc \in {"idle", "add", "sent", "proof"}
    BY <1>2
  <2>3. pcase'.st \in Closed /\ pcase'.snap # None /\ approved = Design' /\ Fits(Design')
    BY <1>1, <2>1
  <2> QED BY <1>1, <1>2, <1>7, <2>2, <2>3, CalmWork, SettledMoves
<1> QED BY <1>6, <1>7

LEMMA QueueCalm ==
    ASSUME OneCustomer, CasesInv, Calm, NEW c \in Customers, AddJob(c) \/ QueueFails(c)
    PROVE  Calm'
<1>1. /\ UNCHANGED <<pcase, layout, approved, runs, assets>> /\ c \in Handlers
      /\ Design' = Design
  BY DEF AddJob, QueueFails, KeepCase, Handlers, Design, LayoutOf
<1>2. PICK pc : (pc \in {"sent", "proof"} /\ To(c, pc)) \/ Go(c, Idle)
  BY DEF AddJob, QueueFails, AfterPackage
<1>3. PICK d : Go(c, d) /\ d.pc \in {"idle", "sent", "proof"}
  BY <1>1, <1>2, ToGoes DEF Idle
<1>4. PackageMade' <=> PackageMade
  BY <1>1, QueueKinds
<1>5. CASE ~PackageMade
  <2>1. pcase'.st # "READY_FOR_PRINT"
    BY <1>1, <1>5 DEF Calm, Unpacked
  <2>2. d.pc \notin {"check", "approve", "package", "create", "reject"}
    BY <1>3
  <2> QED BY <1>1, <1>3, <1>4, <1>5, <2>1, <2>2, UnpackedMoves
<1>6. CASE PackageMade
  <2>1. pcase'.st \in Closed /\ pcase'.snap # None /\ approved = Design' /\ Fits(Design')
    BY <1>1, <1>6 DEF Calm, Settled
  <2>2. d.pc \in {"idle", "add", "sent", "proof"}
    BY <1>3
  <2> QED BY <1>1, <1>3, <1>4, <1>6, <2>1, <2>2, CalmWork, SettledMoves
<1> QED BY <1>5, <1>6

LEMMA ConfirmCalm ==
    ASSUME OneCustomer, CasesInv, Calm, PackageMade, NEW c \in Customers, ConfirmSent(c)
    PROVE  Calm'
<1>1. UNCHANGED <<jobs, runs, assets, layout, approved>> /\ c \in Handlers /\ pcase \in CaseRow
  BY DEF ConfirmSent, KeepFiles, Handlers, CasesInv, CaseTyped
<1>2. pcase' = [pcase EXCEPT !.st = "SUBMITTED"]
  BY DEF ConfirmSent, SetCase
<1>3. pcase'.st = "SUBMITTED" /\ pcase'.snap = pcase.snap /\ pcase'.answers = pcase.answers
  BY <1>1, <1>2 DEF CaseRow
<1>4. Design' = Design
  BY <1>1, <1>3 DEF Design, LayoutOf
<1>5. pcase'.st \in Closed /\ pcase'.snap # None /\ approved = Design' /\ Fits(Design')
  BY <1>3, <1>4 DEF Calm, Settled, Closed
<1>6. PICK d : Go(c, d) /\ d.pc = "proof"
  BY <1>1, ToGoes DEF ConfirmSent, AfterPackage
<1>7. d.pc \in {"idle", "add", "sent", "proof"} /\ PackageMade'
  BY <1>1, <1>6, SameJobsMade
<1> QED BY <1>1, <1>5, <1>6, <1>7, CalmWork, SettledMoves

LEMMA ContinueCalm ==
    ASSUME OneCustomer, CasesInv, Calm, NEW h \in Handlers, Continue(h) \/ QueueFails(h)
    PROVE  Calm'
<1>1. doing[h].pc # "idle"
  BY DEF Continue, QueueFails, SaveAnswers, SaveDraft, SavePreview, SaveMerged, Check, Approve, Judge,
         RejectPackage, CreateJob, AddJob, ConfirmSent, UpdateCaseAnswers, MarkRetried, CaseAt
<1>2. h \in Customers
  BY <1>1, CustomerOnly
<1>3. ~UpdateCaseAnswers(h) /\ ~MarkRetried(h)
  <2>1. doing[h].pc \in {"update", "retried"} => h \in Admins
    BY StepIsOK DEF StepOK
  <2> QED BY <1>2, <2>1, CasesAssumption DEF UpdateCaseAnswers, MarkRetried, CaseAt
<1>4. CASE CreateJob(h) \/ AddJob(h) \/ QueueFails(h)
  BY <1>2, <1>4, CreateJobCalm, QueueCalm
<1>5. CASE ~PackageMade /\ ~(CreateJob(h) \/ AddJob(h) \/ QueueFails(h))
  BY <1>2, <1>3, <1>5, WayToPackageCalm DEF Continue
<1>6. CASE PackageMade /\ ~(CreateJob(h) \/ AddJob(h) \/ QueueFails(h))
  <2>1. doing[h].pc \in {"idle", "add", "sent", "proof"}
    BY <1>2, <1>6 DEF Calm, Settled
  <2>2. ConfirmSent(h)
    BY <1>3, <1>6, <2>1 DEF Continue, SaveAnswers, SaveDraft, SavePreview, SaveMerged, Check, Approve,
         Judge, RejectPackage, CaseAt
  <2> QED BY <1>2, <1>6, <2>2, ConfirmCalm
<1> QED BY <1>4, <1>5, <1>6

(* Requests, and what happens to the case without one. *)
LEMMA ReceiveCalm ==
    ASSUME OneCustomer, CasesInv, Calm, NEW c \in Customers,
           NEW op \in {"draft", "preview", "submit"}, NEW body \in Filled \cup {None},
           Receive(c, op, body)
    PROVE  Calm'
<1>1. /\ UNCHANGED <<jobs, runs, assets, pcase>> /\ pcase.st \in Open
  BY DEF Receive, KeepFiles, KeepCase, Admitted
<1>2. ~PackageMade /\ ~PackageMade'
  BY <1>1, SameJobsMade DEF Calm, Settled, Open, Closed
<1>3. PICK pc : pc = IF op = "draft" \/ body # None THEN "rows"
                     ELSE IF op = "preview" THEN "preview" ELSE "check"
  OBVIOUS
<1>4. PICK d : d = [pc |-> pc, op |-> op, link |-> pcase.link, answers |-> Given(body),
                    layout |-> layout, snap |-> pcase.snap]
  OBVIOUS
<1>5. Go(c, d)
  BY <1>3, <1>4 DEF Receive
<1>6. d.pc \in {"rows", "preview", "check"} /\ (d.pc = "check" => d.answers = pcase.answers)
  <2>1. d.pc = pc /\ d.answers = Given(body)
    BY <1>4
  <2>2. pc = "check" => body = None
    BY <1>3
  <2>3. body = None => Given(body) = pcase.answers
    BY DEF Given
  <2> QED BY <1>3, <2>1, <2>2, <2>3
<1>7. pcase'.st # "READY_FOR_PRINT" /\ pcase'.answers = pcase.answers
  BY <1>1 DEF Open
<1> QED BY <1>1, <1>2, <1>5, <1>6, <1>7, UnpackedMoves

(* Requests, jobs, workers and files stay, and so does what the case holds,*)
(* but for its link and a template that the case has a copy of.            *)
LEMMA AroundCalm ==
    ASSUME CasesInv, Calm, UNCHANGED <<jobs, runs, assets, approved>>,
           \/ UNCHANGED doing
           \/ \A h \in Handlers : doing'[h] = Idle,
           pcase'.st = pcase.st, pcase'.snap = pcase.snap, pcase'.answers = pcase.answers
    PROVE  Calm'
<1>1. /\ PackageMade' <=> PackageMade
      /\ Zips' = Zips
  BY SameJobsMade DEF Zips, Files
<1>2. pcase.snap # None => Design' = Design
  BY DEF Design, LayoutOf
<1>3. \A h \in Handlers : doing'[h] = doing[h] \/ doing'[h].pc = "idle"
  BY DEF Idle
<1>4. \A d : Fits(d)' <=> Fits(d)
  BY DEF Fits
<1>5. Settled => Settled'
  <2> SUFFICES ASSUME Settled PROVE Settled' OBVIOUS
  <2>1. Design' = Design /\ Fits(Design)'
    BY <1>2 DEF Settled, Fits
  <2>2. \A c \in Customers : doing'[c].pc \in {"idle", "add", "sent", "proof"}
    BY <1>3 DEF Settled, Handlers
  <2> QED BY <1>1, <2>1, <2>2 DEF Settled
<1>6. Unpacked => Unpacked'
  <2> SUFFICES ASSUME Unpacked PROVE Unpacked' OBVIOUS
  <2>1. ASSUME NEW c \in Customers
        PROVE  /\ doing'[c].pc \in {"check", "approve"} => doing'[c].answers = pcase'.answers
               /\ doing'[c].pc \in {"package", "create", "reject"} => pcase'.snap # None /\ approved' = Design'
               /\ doing'[c].pc \in {"package", "create"} => pcase'.st \in Closed
               /\ doing'[c].pc = "create" => Fits(Design)'
    <3>1. CASE doing'[c] = doing[c]
      BY <1>2, <3>1 DEF Unpacked, Fits
    <3>2. CASE doing'[c].pc = "idle"
      BY <3>2
    <3> QED BY <1>3, <3>1, <3>2 DEF Handlers
  <2>2. \A w \in Workers : runs'[w].pc \notin Packing
    BY DEF Unpacked
  <2> QED BY <1>1, <2>1, <2>2 DEF Unpacked
<1>7. \A a \in Admins : doing'[a].pc = "idle"
  BY <1>3 DEF Calm, Handlers
<1> QED BY <1>1, <1>5, <1>6, <1>7 DEF Calm

LEMMA ChangesCalm ==
    ASSUME CasesInv, Calm,
           EditTemplate \/ ExpireLink \/ ApiDies \/ (\E c \in Customers : UploadPreview(c)) \/ UNCHANGED caseVars
    PROVE  Calm'
<1>1. pcase \in CaseRow
  BY DEF CasesInv, CaseTyped
<1>2. UNCHANGED <<jobs, runs, assets, approved>>
  BY DEF EditTemplate, ExpireLink, ApiDies, UploadPreview, KeepFiles, KeepCase, caseVars
<1>3. UNCHANGED doing \/ \A h \in Handlers : doing'[h] = Idle
  BY DEF EditTemplate, ExpireLink, ApiDies, UploadPreview, caseVars
<1>4. pcase' = [pcase EXCEPT !.usable = FALSE] \/ UNCHANGED pcase
  BY DEF EditTemplate, ExpireLink, SetCase, ApiDies, UploadPreview, KeepCase, caseVars
<1>5. pcase'.st = pcase.st /\ pcase'.snap = pcase.snap /\ pcase'.answers = pcase.answers
  BY <1>1, <1>4 DEF CaseRow
<1> QED BY <1>2, <1>3, <1>5, AroundCalm

(* A worker goes on while the requests stay. *)
LEMMA WorkCalm ==
    ASSUME CasesInv, Calm, NEW w \in Workers, NEW r, runs' = [runs EXCEPT ![w] = r],
           UNCHANGED <<doing, approved, layout>>,
           PackageMade' <=> PackageMade,
           r.pc # "catch", r.pc \in Packing => PackageMade,
           PackageMade => r.pc # "refuse" /\ (r.pc \in Packing \ {"package"} => r.design = approved),
           \A i \in Zips' : PackageMade /\ (i \in Zips => assets'[i] = assets[i])
                            /\ (i \notin Zips => assets'[i].design = approved),
           pcase'.snap = pcase.snap, pcase'.answers = pcase.answers,
           pcase'.st = pcase.st \/ (PackageMade /\ pcase'.st \in Closed)
    PROVE  Calm'
<1>1. runs'[w] = r /\ \A v \in Workers \ {w} : runs'[v] = runs[v]
  BY DEF CasesInv, RunsTyped
<1>2. Design' = Design
  BY DEF Design, LayoutOf
<1>3. \A v \in Workers : runs'[v].pc # "catch"
  BY <1>1 DEF Calm
<1>4. CASE PackageMade
  <2>1. Settled
    BY <1>4 DEF Calm
  <2>2. pcase'.st \in Closed /\ pcase'.snap # None /\ approved' = Design' /\ Fits(Design)'
    BY <1>2, <2>1 DEF Settled, Fits
  <2>3. \A v \in Workers : /\ runs'[v].pc # "refuse"
                           /\ runs'[v].pc \in Packing \ {"package"} => runs'[v].design = approved'
    BY <1>1, <1>4, <2>1 DEF Settled
  <2>4. \A i \in Zips' : assets'[i].design = approved'
    BY <2>1 DEF Settled
  <2>5. \A c \in Customers : doing'[c].pc \in {"idle", "add", "sent", "proof"}
    BY <2>1 DEF Settled
  <2>6. Settled'
    BY <2>2, <2>3, <2>4, <2>5 DEF Settled
  <2> QED BY <1>3, <1>4, <2>6 DEF Calm
<1>5. CASE ~PackageMade
  <2>1. Unpacked
    BY <1>5 DEF Calm
  <2>2. Zips' = {} /\ pcase'.st # "READY_FOR_PRINT"
    BY <1>5, <2>1 DEF Unpacked
  <2>3. \A v \in Workers : runs'[v].pc \notin Packing
    BY <1>1, <1>5, <2>1 DEF Unpacked
  <2>4. \A c \in Customers :
          /\ doing'[c].pc \in {"check", "approve"} => doing'[c].answers = pcase'.answers
          /\ doing'[c].pc \in {"package", "create", "reject"} => pcase'.snap # None /\ approved' = Design'
          /\ doing'[c].pc \in {"package", "create"} => pcase'.st \in Closed
          /\ doing'[c].pc = "create" => Fits(Design)'
    BY <1>2, <1>5, <2>1 DEF Unpacked, Fits
  <2>5. Unpacked'
    BY <2>2, <2>3, <2>4 DEF Unpacked
  <2> QED BY <1>3, <1>5, <2>5 DEF Calm
<1> QED BY <1>4, <1>5

(* The same, for a step that leaves the case and the files alone. *)
LEMMA WorkStaysCalm ==
    ASSUME CasesInv, Calm, NEW w \in Workers, NEW r, runs' = [runs EXCEPT ![w] = r],
           UNCHANGED <<doing, approved, layout, pcase, assets>>,
           PackageMade' <=> PackageMade,
           r.pc # "catch", r.pc \in Packing => PackageMade,
           PackageMade => r.pc # "refuse" /\ (r.pc \in Packing \ {"package"} => r.design = approved)
    PROVE  Calm'
<1>1. Zips' = Zips /\ \A i \in Zips : PackageMade /\ assets'[i] = assets[i]
  BY DEF Zips, Files, Calm, Unpacked
<1>2. \A i \in Zips' : PackageMade /\ (i \in Zips => assets'[i] = assets[i])
                       /\ (i \notin Zips => assets'[i].design = approved)
  BY <1>1
<1>3. pcase'.snap = pcase.snap /\ pcase'.answers = pcase.answers
      /\ (pcase'.st = pcase.st \/ (PackageMade /\ pcase'.st \in Closed))
  OBVIOUS
<1> QED BY <1>2, <1>3, WorkCalm

LEMMA PackingMade ==
    ASSUME CasesInv, NEW w \in Workers, runs[w].pc \in Packing
    PROVE  PackageMade /\ runs[w].pc # "idle"
<1>1. runs[w].pc # "idle"
  BY DEF Packing
<1>2. runs[w].j \in DOMAIN jobs /\ jobs[runs[w].j].kind = "package"
  BY <1>1, RunHolds DEF RunOK
<1> QED BY <1>1, <1>2 DEF PackageMade

(* The jobs that a worker changes keep their kind. *)
LEMMA TakeJobCalm ==
    ASSUME CasesInv, Calm, NEW w \in Workers, NEW j \in DOMAIN jobs, TakeJob(w, j)
    PROVE  Calm'
<1>1. JobsTyped /\ jobs[j] \in JobRow /\ jobs[j].made < Attempts
  BY JobChanged DEF CasesInv, TakeJob, JobsTyped
<1>2. jobs' = [jobs EXCEPT ![j] = [@ EXCEPT !.st = "PROCESSING", !.queue = "active"]]
  <2>1. jobs' = [jobs EXCEPT ![j].queue = "active", ![j].st = "PROCESSING"]
    BY DEF TakeJob
  <2> QED BY <1>1, <2>1 DEF JobRow
<1>3. PackageMade' <=> PackageMade
  BY <1>1, <1>2, JobMoves, PackageStaysMade DEF OtherJobsWait
<1>4. PICK r : r = [pc |-> jobs[j].kind, j |-> j]
  OBVIOUS
<1>5. runs' = [runs EXCEPT ![w] = r] /\ UNCHANGED <<doing, approved, layout, pcase, assets>>
  BY <1>4 DEF TakeJob, KeepCase
<1>6. r.pc = jobs[j].kind /\ r.pc \in {"package", "proof"}
  BY <1>1, <1>4 DEF JobRow
<1>7. r.pc \in Packing => PackageMade
  BY <1>6 DEF PackageMade, Packing
<1>8. r.pc # "catch" /\ r.pc # "refuse" /\ r.pc \notin Packing \ {"package"}
  BY <1>6 DEF Packing
<1> QED BY <1>3, <1>5, <1>7, <1>8, WorkStaysCalm

LEMMA StartPackageCalm ==
    ASSUME CasesInv, Calm, NEW w \in Workers, StartPackage(w)
    PROVE  Calm'
<1>1. runs[w].pc = "package" /\ UNCHANGED <<doing, approved, layout, pcase, assets>>
  BY DEF StartPackage, RunAt, KeepCase
<1>2. PackageMade /\ runs[w].pc # "idle"
  BY <1>1, PackingMade DEF Packing
<1>3. PICK j : j = runs[w].j
  OBVIOUS
<1>4. JobsTyped /\ j \in DOMAIN jobs /\ jobs[j] \in JobRow
  BY <1>2, <1>3, RunHolds DEF CasesInv
<1>5. PackageMade' <=> PackageMade
  <2>1. PICK q : q = [jobs[j] EXCEPT !.st = "PROCESSING"]
    OBVIOUS
  <2>2. q.kind = jobs[j].kind
    BY <1>4, <2>1 DEF JobRow
  <2>3. jobs' = [jobs EXCEPT ![j] = q]
    BY <1>3, <2>1 DEF StartPackage
  <2>4. DOMAIN jobs' = DOMAIN jobs /\ \A i \in DOMAIN jobs : jobs'[i].kind = jobs[i].kind
    BY <1>4, <2>2, <2>3
  <2> QED BY <2>4, PackageStaysMade
<1>6. Fits(Design) /\ approved = Design
  BY <1>2 DEF Calm, Settled
<1>7. PICK r : r = [pc |-> "files", j |-> j, design |-> Design, older |-> Files(PackageTypes)]
  OBVIOUS
<1>8. runs' = [runs EXCEPT ![w] = r]
  <2>1. runs' = [runs EXCEPT ![w] =
          [pc |-> IF Fits(Design) THEN "files" ELSE "refuse", j |-> runs[w].j,
           design |-> Design, older |-> Files(PackageTypes)]]
    BY DEF StartPackage
  <2>2. (IF Fits(Design) THEN "files" ELSE "refuse") = "files"
    BY <1>6
  <2> QED BY <1>3, <1>7, <2>1, <2>2, Zenon
<1>9. r.pc = "files" /\ r.design = approved
  BY <1>6, <1>7
<1> QED BY <1>1, <1>2, <1>5, <1>8, <1>9, WorkStaysCalm

(* A worker goes to another statement with what it holds. *)
LEMMA RunGoes ==
    ASSUME CasesInv, NEW w \in Workers, NEW pc, RunTo(w, pc)
    PROVE  \E r : /\ runs' = [runs EXCEPT ![w] = r] /\ r.pc = pc
                  /\ runs[w].pc \in Rendered => r.design = runs[w].design
<1>1. PICK r : r = [runs[w] EXCEPT !.pc = pc]
  OBVIOUS
<1>2. RunOK(runs[w])
  BY DEF CasesInv, RunsTyped
<1>3. r.pc = pc
  BY <1>1, <1>2 DEF RunOK
<1>4. runs[w].pc \in Rendered => r.design = runs[w].design
  BY <1>1, <1>2 DEF RunOK
<1>5. runs' = [runs EXCEPT ![w] = r]
  BY <1>1 DEF RunTo
<1> QED BY <1>3, <1>4, <1>5

LEMMA StoringCalm ==
    ASSUME CasesInv, Calm, NEW w \in Workers, SaveFiles(w) \/ SaveZip(w) \/ SaveProof(w)
    PROVE  Calm'
<1>1. UNCHANGED <<doing, approved, layout, pcase, jobs>>
  BY DEF SaveFiles, SaveZip, SaveProof, KeepCase
<1>2. PICK type, pc : /\ Store(w, type) /\ RunTo(w, pc) /\ runs[w].pc \in Rendered
                      /\ \/ runs[w].pc = "files" /\ type = "file" /\ pc = "zip"
                         \/ runs[w].pc = "zip" /\ type = "zip" /\ pc = "clean"
                         \/ runs[w].pc = "saveProof" /\ type = "proof" /\ pc = "dropProofs"
  BY DEF SaveFiles, SaveZip, SaveProof, RunAt, Rendered
<1>3. type \in PackageTypes \cup {"proof"}
  BY <1>2 DEF PackageTypes
<1>4. PICK new : new = Len(assets) + 1
  OBVIOUS
<1>5. PICK file : file = [type |-> type, design |-> runs[w].design]
  OBVIOUS
<1>6. /\ assets'[new] = file /\ \A i \in DOMAIN assets : assets'[i] = assets[i]
      /\ Zips' = IF type = "zip" THEN Zips \cup {new} ELSE Zips
  BY <1>2, <1>3, <1>4, <1>5, StoreGrows
<1>7. PICK r : runs' = [runs EXCEPT ![w] = r] /\ r.pc = pc /\ r.design = runs[w].design
  BY <1>2, RunGoes
<1>8. PackageMade' <=> PackageMade
  BY <1>1, SameJobsMade
<1>9. runs[w].pc \in Packing => PackageMade
  BY PackingMade
<1>10. r.pc \in Packing => runs[w].pc \in Packing \ {"package"}
  BY <1>2, <1>7 DEF Packing
<1>11. runs[w].pc \in Packing \ {"package"} => runs[w].design = approved
  BY CalmWork
<1>12. r.pc \in Packing => PackageMade /\ r.design = approved
  BY <1>7, <1>9, <1>10, <1>11
<1>13. r.pc # "catch" /\ r.pc # "refuse"
  BY <1>2, <1>7
<1>14. Zips \subseteq DOMAIN assets /\ (Zips # {} => PackageMade)
  BY DEF Zips, Files, Calm, Unpacked
<1>15. type = "zip" => PackageMade /\ runs[w].design = approved
  BY <1>2, <1>9, <1>11 DEF Packing
<1>16. file.design = runs[w].design
  BY <1>5
<1>17. \A i \in Zips' : PackageMade /\ (i \in Zips => assets'[i] = assets[i])
                        /\ (i \notin Zips => assets'[i].design = approved)
  BY <1>6, <1>14, <1>15, <1>16
<1>18. pcase'.snap = pcase.snap /\ pcase'.answers = pcase.answers
       /\ (pcase'.st = pcase.st \/ (PackageMade /\ pcase'.st \in Closed))
  BY <1>1
<1> QED BY <1>1, <1>7, <1>8, <1>12, <1>13, <1>17, <1>18, WorkCalm

LEMMA DeletingCalm ==
    ASSUME CasesInv, Calm, NEW w \in Workers, NEW files, Without(files),
           NEW r, runs' = [runs EXCEPT ![w] = r], r.pc \in {"finish", "idle"},
           r.pc = "finish" => PackageMade /\ r.design = approved,
           PackageMade' <=> PackageMade, UNCHANGED <<doing, approved, layout, pcase>>
    PROVE  Calm'
<1>1. Zips' = Zips \ files /\ \A i \in DOMAIN assets \ files : assets'[i] = assets[i]
  BY WithoutShrinks
<1>2. Zips \subseteq DOMAIN assets /\ (Zips # {} => PackageMade)
  BY DEF Zips, Files, Calm, Unpacked
<1>3. \A i \in Zips' : PackageMade /\ (i \in Zips => assets'[i] = assets[i])
                       /\ (i \notin Zips => assets'[i].design = approved)
  BY <1>1, <1>2
<1>4. pcase'.snap = pcase.snap /\ pcase'.answers = pcase.answers
      /\ (pcase'.st = pcase.st \/ (PackageMade /\ pcase'.st \in Closed))
  OBVIOUS
<1>5. r.pc # "catch" /\ r.pc # "refuse" /\ (r.pc \in Packing => r.pc = "finish")
  BY DEF Packing
<1> QED BY <1>3, <1>4, <1>5, WorkCalm

LEMMA CompletedMade ==
    ASSUME CasesInv, NEW w \in Workers, runs[w].pc # "idle", Completed(runs[w].j)
    PROVE  PackageMade' <=> PackageMade
BY CompletedMoves, PackageStaysMade DEF OtherJobsWait

LEMMA EndingCalm ==
    ASSUME CasesInv, Calm, NEW w \in Workers, CleanUp(w) \/ DropProofs(w) \/ FinishPackage(w)
    PROVE  Calm'
<1>1. runs[w].pc \in {"clean", "finish"} => PackageMade /\ runs[w].design = approved
  BY PackingMade, CalmWork DEF Packing
<1>2. CASE CleanUp(w)
  <2>1. Without(runs[w].older) /\ UNCHANGED <<doing, approved, layout, pcase, jobs>>
    BY <1>2 DEF CleanUp, KeepCase
  <2>2. runs[w].pc = "clean" /\ runs[w].pc \in Rendered
    BY <1>2 DEF CleanUp, RunAt, Rendered
  <2>3. PICK r : runs' = [runs EXCEPT ![w] = r] /\ r.pc = "finish" /\ r.design = runs[w].design
    BY <1>2, <2>2, RunGoes DEF CleanUp
  <2>4. r.pc \in {"finish", "idle"} /\ (r.pc = "finish" => PackageMade /\ r.design = approved)
    BY <1>1, <2>2, <2>3
  <2>5. PackageMade' <=> PackageMade
    BY <2>1, SameJobsMade
  <2> QED BY <2>1, <2>3, <2>4, <2>5, DeletingCalm
<1>3. CASE DropProofs(w)
  <2>1. Without(runs[w].older) /\ UNCHANGED <<doing, approved, layout, pcase>> /\ runs[w].pc # "idle"
    BY <1>3 DEF DropProofs, KeepCase, RunAt
  <2>2. PackageMade' <=> PackageMade
    BY <1>3, <2>1, CompletedMade DEF DropProofs
  <2>3. runs' = [runs EXCEPT ![w] = Idle] /\ Idle.pc = "idle"
    BY <1>3 DEF DropProofs, Leave, Idle
  <2>4. Idle.pc \in {"finish", "idle"} /\ (Idle.pc = "finish" => PackageMade /\ Idle.design = approved)
    BY <2>3
  <2> QED BY <2>1, <2>2, <2>3, <2>4, DeletingCalm
<1>4. CASE FinishPackage(w)
  <2>1. /\ UNCHANGED <<doing, approved, layout, assets>> /\ runs[w].pc = "finish"
        /\ pcase' = [pcase EXCEPT !.st = "READY_FOR_PRINT"] /\ pcase \in CaseRow
    BY <1>4 DEF FinishPackage, RunAt, SetCase, CasesInv, CaseTyped
  <2>2. PackageMade' <=> PackageMade
    BY <1>4, <2>1, CompletedMade DEF FinishPackage
  <2>3. runs' = [runs EXCEPT ![w] = Idle] /\ Idle.pc = "idle"
    BY <1>4 DEF FinishPackage, Leave, Idle
  <2>4. pcase'.snap = pcase.snap /\ pcase'.answers = pcase.answers /\ pcase'.st = "READY_FOR_PRINT"
    BY <2>1 DEF CaseRow
  <2>5. pcase'.st = pcase.st \/ (PackageMade /\ pcase'.st \in Closed)
    BY <1>1, <2>1, <2>4 DEF Closed
  <2>6. \A i \in Zips' : PackageMade /\ (i \in Zips => assets'[i] = assets[i])
                         /\ (i \notin Zips => assets'[i].design = approved)
    BY <1>1, <2>1 DEF Zips, Files
  <2>7. Idle.pc # "catch" /\ Idle.pc # "refuse" /\ Idle.pc \notin Packing
    BY <2>3 DEF Packing
  <2> QED BY <2>1, <2>2, <2>3, <2>4, <2>5, <2>6, <2>7, WorkCalm
<1> QED BY <1>2, <1>3, <1>4

LEMMA ProofCalm ==
    ASSUME CasesInv, Calm, NEW w \in Workers, RenderProof(w) \/ ListProofs(w)
    PROVE  Calm'
<1>1. UNCHANGED <<doing, approved, layout, pcase, assets, jobs>>
  BY DEF RenderProof, ListProofs, KeepCase
<1>2. PICK r : runs' = [runs EXCEPT ![w] = r] /\ r.pc \in {"listProofs", "saveProof"}
  <2>1. CASE RenderProof(w)
    <3>1. PICK r : r = [pc |-> "listProofs", j |-> runs[w].j, design |-> Design]
      OBVIOUS
    <3>2. r.pc = "listProofs" /\ runs' = [runs EXCEPT ![w] = r]
      BY <2>1, <3>1 DEF RenderProof
    <3> QED BY <3>2
  <2>2. CASE ListProofs(w)
    <3>1. PICK r : r = [pc |-> "saveProof", j |-> runs[w].j, design |-> runs[w].design,
                        older |-> Files({"proof"})]
      OBVIOUS
    <3>2. r.pc = "saveProof"
      BY <3>1
    <3>3. runs' = [runs EXCEPT ![w] = r]
      BY <2>2, <3>1, Zenon DEF ListProofs
    <3> QED BY <3>2, <3>3
  <2> QED BY <2>1, <2>2
<1>3. r.pc # "catch" /\ r.pc # "refuse" /\ r.pc \notin Packing
  BY <1>2 DEF Packing
<1>4. PackageMade' <=> PackageMade
  BY <1>1, SameJobsMade
<1> QED BY <1>1, <1>2, <1>3, <1>4, WorkStaysCalm

(* A quiet worker refuses nothing and catches nothing. *)
LEMMA WorkIsCalm ==
    ASSUME CasesInv, Calm, NEW w \in Workers, Work(w)
    PROVE  Calm'
<1>1. ~RefusePackage(w) /\ ~Catch(w)
  BY CalmWork DEF RefusePackage, Catch, RunAt
<1> QED BY <1>1, TakeJobCalm, StartPackageCalm, StoringCalm, EndingCalm, ProofCalm DEF Work

LEMMA WorkerDiesCalm ==
    ASSUME CasesInv, Calm, WorkerDies
    PROVE  Calm'
<1>1. /\ UNCHANGED <<doing, assets, pcase, layout, approved>>
      /\ \A w \in Workers : runs'[w].pc = "idle"
  BY DEF WorkerDies, KeepCase, Idle
<1>2. jobs' = [j \in DOMAIN jobs |->
          IF jobs[j].queue = "active" THEN [jobs[j] EXCEPT !.queue = "waiting"] ELSE jobs[j]]
  BY DEF WorkerDies
<1>3. ASSUME NEW j \in DOMAIN jobs PROVE jobs'[j].kind = jobs[j].kind
  <2>1. jobs[j] \in JobRow
    BY JobChanged DEF CasesInv
  <2>2. PICK q : q = [jobs[j] EXCEPT !.queue = "waiting"]
    OBVIOUS
  <2>3. q.kind = jobs[j].kind
    BY <2>1, <2>2 DEF JobRow
  <2>4. jobs'[j] = q \/ jobs'[j] = jobs[j]
    BY <1>2, <2>2
  <2> QED BY <2>3, <2>4
<1>4. PackageMade' <=> PackageMade
  BY <1>2, <1>3, PackageStaysMade
<1>5. Design' = Design /\ (Fits(Design)' <=> Fits(Design)) /\ Zips' = Zips
  BY <1>1 DEF Design, LayoutOf, Fits, Zips, Files
<1>6. \A w \in Workers : runs'[w].pc \notin Packing \cup {"catch"}
  BY <1>1 DEF Packing
<1>7. Settled => Settled'
  BY <1>1, <1>5, <1>6 DEF Settled, Packing
<1>8. Unpacked => Unpacked'
  BY <1>1, <1>5, <1>6 DEF Unpacked
<1> QED BY <1>1, <1>4, <1>6, <1>7, <1>8 DEF Calm

LEMMA QuietInvIsKept ==
    ASSUME OneCustomer, CasesInv, QuietInv, [CasesNext]_caseVars
    PROVE  QuietInv'
<1> SUFFICES ASSUME Quiet' PROVE Calm' BY DEF QuietInv
<1>1. ASSUME UNCHANGED spent PROVE Calm
  BY <1>1 DEF QuietInv, Quiet
<1>2. ASSUME NEW kind \in Kinds, Spend(kind)
      PROVE  Calm /\ kind \notin {"packages", "panel", "retries", "renderFailures"}
  BY <1>2, QuietSpends DEF QuietInv
<1>3. {"customer", "packages", "panel", "changes", "retries", "renderFailures", "queueFailures",
       "crashes"} \subseteq Kinds
  BY DEF Kinds
<1>4. CASE Request
  <2>1. ASSUME NEW c \in Customers, NEW op \in {"draft", "preview", "submit"},
               NEW body \in Filled \cup {None}, Receive(c, op, body)
        PROVE  Calm'
    BY <1>2, <1>3, <2>1, ReceiveCalm DEF Receive
  <2>2. ASSUME NEW c \in Customers, UploadPreview(c) PROVE Calm'
    BY <1>2, <1>3, <2>2, ChangesCalm DEF UploadPreview
  <2>3. ~Spend("packages") /\ ~Spend("panel") /\ ~Spend("retries")
    BY <1>2, <1>3
  <2> QED BY <1>4, <2>1, <2>2, <2>3 DEF Request, RequestPackage, RefreshCaseLayout, ResendEmail,
                                        DeletePackages, UpdateCaseStatus, ReadForUpdate, RetryJob
<1>5. ASSUME NEW h \in Handlers, Continue(h) PROVE Calm'
  <2>1. UNCHANGED spent
    BY <1>5 DEF Continue, SaveAnswers, SaveDraft, SavePreview, SaveMerged, Check, Approve, Judge,
                RejectPackage, CreateJob, AddJob, ConfirmSent, UpdateCaseAnswers, MarkRetried
  <2> QED BY <1>1, <1>5, <2>1, ContinueCalm
<1>6. ASSUME NEW h \in Handlers, QueueFails(h) PROVE Calm'
  BY <1>2, <1>3, <1>6, ContinueCalm DEF QueueFails
<1>7. ASSUME NEW w \in Workers, Work(w) PROVE Calm'
  <2>1. UNCHANGED spent
    BY <1>7 DEF Work, TakeJob, StartPackage, RefusePackage, SaveFiles, SaveZip, CleanUp, FinishPackage,
                RenderProof, ListProofs, SaveProof, DropProofs, Catch
  <2> QED BY <1>1, <1>7, <2>1, WorkIsCalm
<1>8. ASSUME NEW w \in Workers, RenderFails(w) PROVE FALSE
  BY <1>2, <1>3, <1>8 DEF RenderFails
<1>9. CASE EditTemplate \/ ExpireLink \/ ApiDies
  BY <1>2, <1>3, <1>9, ChangesCalm DEF EditTemplate, ExpireLink, ApiDies
<1>10. CASE WorkerDies
  BY <1>2, <1>3, <1>10, WorkerDiesCalm DEF WorkerDies
<1>11. CASE UNCHANGED caseVars
  BY <1>1, <1>11, ChangesCalm DEF caseVars
<1> QED BY <1>4, <1>5, <1>6, <1>7, <1>8, <1>9, <1>10, <1>11 DEF CasesNext

(* A set of numbers that is not empty has a least one. *)
LEMMA LeastGap ==
    ASSUME NEW T \in SUBSET Nat, T # {}
    PROVE  \E g \in T : \A k \in T : g <= k
<1> DEFINE R == OpToRel(<, Nat)
<1>1. IsWellFoundedOn(R, Nat)
  BY NatLessThanWellFounded
<1>2. PICK g \in T : \A k \in T : ~ (<<k, g>> \in R)
  <2> HIDE DEF R
  <2> QED BY <1>1, WFMin
<1>3. \A k \in T : ~ (k < g)
  BY <1>2 DEF OpToRel
<1> QED BY <1>3

(* Of the packages there are, one is the newest. *)
LEMMA NewestIsThere ==
    ASSUME NEW S, NEW s \in Seq(S), NEW places \in SUBSET (DOMAIN s), places # {}
    PROVE  \E i \in places : \A k \in places : k <= i
<1>1. places \subseteq 1..Len(s) /\ Len(s) \in Nat
  BY LenProperties
<1>2. PICK n \in Nat : n = Len(s)
  BY <1>1
<1>3. PICK gaps : gaps = {n - i : i \in places}
  OBVIOUS
<1>4. gaps \subseteq Nat /\ gaps # {}
  BY <1>1, <1>2, <1>3
<1>5. PICK g \in gaps : \A k \in gaps : g <= k
  BY <1>4, LeastGap
<1>6. PICK i \in places : g = n - i
  BY <1>3
<1>7. \A k \in places : k <= i
  <2> SUFFICES ASSUME NEW k \in places PROVE k <= i OBVIOUS
  <2>1. n - k \in gaps /\ k \in Int /\ i \in Int
    BY <1>1, <1>3
  <2>2. n - i <= n - k
    BY <1>5, <1>6, <2>1
  <2> QED BY <2>1, <2>2
<1> QED BY <1>7

LEMMA CalmIsApproved == CasesInv /\ QuietInv => PrintedAsApproved
<1> SUFFICES ASSUME CasesInv, QuietInv, Quiet, pcase.st = "READY_FOR_PRINT", HasZip
             PROVE  NewestZip.design = approved
  BY DEF PrintedAsApproved, Quiet
<1>1. Settled
  BY DEF QuietInv, Calm, Unpacked
<1>2. assets \in Seq(FileRow) /\ Zips \in SUBSET (DOMAIN assets) /\ Zips # {}
  BY DEF CasesInv, FilesTyped, Zips, Files, HasZip
<1>3. \E i \in Zips : \A k \in Zips : k <= i
  BY <1>2, NewestIsThere
<1>4. PICK newest : newest = (CHOOSE i \in Zips : \A k \in Zips : k <= i)
  OBVIOUS
<1>5. newest \in Zips
  BY <1>3, <1>4
<1> QED BY <1>1, <1>4, <1>5 DEF Settled, NewestZip

(* What is ready for print is the design that the customer approved, if he *)
(* makes one request at a time: whatever becomes of the template, of the   *)
(* queue and of the processes.                                             *)
THEOREM ApprovedIsPrinted ==
    ASSUME OneCustomer
    PROVE  CasesSpec => []PrintedAsApproved
<1>1. CasesInit => QuietInv
  BY CalmAtFirst DEF QuietInv
<1>2. (CasesInv /\ QuietInv) /\ [CasesNext]_caseVars => (CasesInv /\ QuietInv)'
  BY CasesInvIsKept, QuietInvIsKept
<1> QED BY <1>1, <1>2, CasesAtFirst, CalmIsApproved, PTL DEF CasesSpec
-----------------------------------------------------------------------------
(* The two services of one behaviour: each keeps its part, the other rests,*)
(* with a shipment that was delivered and told of.                         *)
LEMMA RestIsTold == NoticesRest => NoticeInv
<1> SUFFICES ASSUME NoticesRest PROVE NoticeInv OBVIOUS
<1>1. \A y \in ShipmentSyncs : hop[y].pc = "idle"
  BY DEF NoticesRest, Waits
<1>2. HopsKnow
  BY <1>1 DEF HopsKnow, Knows
<1>3. \A s \in CarrierStatuses :
          /\ told[s] = IF s = carrier THEN 1 ELSE 0
          /\ ruleRun[s] = IF s = carrier THEN "ended" ELSE "none"
  BY DEF NoticesRest
<1>4. NoticesTypeOK
  BY <1>3, RestAssumption DEF NoticesRest, NoticesTypeOK
<1>5. \A s \in CarrierStatuses : told[s] # 0 => told[s] = 1 /\ ruleRun[s] # "none"
  BY <1>3
<1>6. SentByOne
  BY <1>1, <1>5 DEF SentByOne, Sends
<1> QED BY <1>2, <1>4, <1>6 DEF NoticeInv

(* Every part of both services' state stays in its domain.                 *)
THEOREM CustomersTypes == Spec => []CustomersTypeOK
<1>1. Init => CasesInv /\ NoticeInv
  BY CasesAtFirst, NoticeInvHoldsFirst, RestIsTold DEF Init
<1>2. CasesInv /\ NoticeInv /\ [Next]_vars => (CasesInv /\ NoticeInv)'
  <2> SUFFICES ASSUME CasesInv, NoticeInv, [Next]_vars PROVE (CasesInv /\ NoticeInv)'
    OBVIOUS
  <2>1. [CasesNext]_caseVars /\ [NoticesNext]_noticeVars
    BY DEF Next, Personalises, Ships, vars
  <2> QED BY <2>1, CasesInvIsKept, NoticeInvIsKept
<1>3. CasesInv /\ NoticeInv => CustomersTypeOK
  BY CasesInvTypes DEF CustomersTypeOK, NoticeInv
<1> QED BY <1>1, <1>2, <1>3, PTL DEF Spec
=============================================================================
